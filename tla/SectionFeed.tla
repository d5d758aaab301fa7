---------------------------- MODULE SectionFeed ----------------------------
(***************************************************************************)
(* The software demux: one section feed                                    *)
(* (src/neumo/dvb-core/neumo-dvb-demux.c).                                 *)
(*                                                                         *)
(* The packets of one pid carry sections, back to back or followed by      *)
(* padding, over packet boundaries.  The feed collects payload in          *)
(* secbuf_base and hands every complete section to its filters.  It may be *)
(* started in the middle of a section, and packets may be lost, arrive     *)
(* twice, carry no payload, announce a discontinuity, or arrive damaged    *)
(* with the transport error bit set.                                       *)
(*                                                                         *)
(* A packet is handled under demux->lock, in one piece.  The operations on *)
(* the feed change what the packet handler reads only under that lock or   *)
(* while is_filtering is 0, and exclude each other by demux->mutex: each   *)
(* is one step.  The option dvb_demux_tscheck is off, as it is by default; *)
(* dvb_demux_feed_err_pkts may change at any time, so a damaged packet may *)
(* be handled or dropped.                                                  *)
(*                                                                         *)
(* A byte is byte k of the section number id that was sent; padding and    *)
(* damaged bytes have number 0.  A section is [len, table, syntax, looks]: *)
(* looks is the length its inner bytes announce when they are mistaken for *)
(* a header.  The buffer flags passed to user space, and the pointer       *)
(* secbuf, which only their computation reads unset, are left out.         *)
(***************************************************************************)
EXTENDS Integers, Sequences, FiniteSets, SequencesExt

CONSTANTS
  MaxSection,   \* DMX_MAX_SECTION_SIZE
  Counts,       \* payload sizes of packets with a payload, the largest is 184
  Sections,     \* sections that may be sent
  Filters,      \* section filters: each is the set of tables it accepts
  CCs,          \* number of values of the continuity counter, 16
  Damaged,      \* lengths that damaged bytes may read as
  MaxSections,  \* bound: sections sent
  MaxFaults     \* bound: packets lost, damaged, repeated, empty, or with a gap announced

FullPayload == CHOOSE n \in Counts : \A c \in Counts : c <= n
PacketSize == FullPayload + 4
\* Mutant: no room for what precedes the last section in its first packet.
DMX_MAX_SECFEED_SIZE_Tight == MaxSection
DMX_MAX_SECFEED_SIZE == MaxSection + PacketSize
HeaderSize == 3

ASSUME SectionAssumption ==
  /\ MaxSection \in Nat /\ MaxSection >= HeaderSize
  /\ MaxSections \in Nat /\ MaxFaults \in Nat
  /\ Counts \subseteq Nat \ {0}
  /\ \E n \in Counts : \A c \in Counts : c <= n
  /\ \A s \in Sections : /\ s.len \in HeaderSize..MaxSection
                         /\ s.looks \in HeaderSize..(MaxSection + 2)
                         /\ s.syntax \in BOOLEAN
  /\ CCs \in Nat /\ CCs > 1
  /\ Damaged \subseteq HeaderSize..(MaxSection + 2)

VARIABLES
  state,       \* "free", "ready", or "go" while is_filtering
  check_crc, section_filter, pusi_seen, cc,
  secbuf_base, \* the bytes collected; tsfeedp is its length
  secbufp,     \* where the first section not yet handed over begins
  sent,        \* the sections sent, the last one perhaps in part
  done,        \* how many bytes of the last one have been sent
  next_cc,     \* continuity counter of the next packet with a payload
  faults,      \* how many packets did not arrive as sent
  missed,      \* packets in a row that did not reach the demux
  out,         \* what the filters were given since the feed was started
  whole,       \* sections received without a gap since then
  run,         \* the last section was received without a gap so far
  tainted,     \* damaged data came in, and no section start since
  repeats      \* a packet came twice, or without payload, since the start

feed == <<state, check_crc, section_filter>>
asm == <<pusi_seen, cc, secbuf_base, secbufp>>
stream == <<sent, done, next_cc, missed, faults>>
seen == <<out, whole, run, tainted, repeats>>
vars == <<feed, asm, stream, seen>>

tsfeedp == Len(secbuf_base)

TypeOK ==
  /\ state \in {"free", "ready", "go"}
  /\ check_crc \in BOOLEAN
  /\ section_filter \subseteq Filters
  /\ pusi_seen \in BOOLEAN /\ cc \in 0..(CCs - 1)
  /\ tsfeedp <= DMX_MAX_SECFEED_SIZE /\ secbufp \in 0..tsfeedp
  /\ \A i \in 1..tsfeedp : secbuf_base[i].id \in 0..Len(sent)
  /\ Len(sent) <= MaxSections /\ ToSet(sent) \subseteq Sections
  /\ done \in 0..MaxSection /\ next_cc \in 0..(CCs - 1) /\ missed \in 0..(CCs - 1)
  /\ faults \in 0..MaxFaults
  /\ \A i \in 1..Len(out) : /\ out[i].id \in 0..Len(sent)
                            /\ out[i].to \subseteq Filters
                            /\ out[i].tainted \in BOOLEAN
                            /\ out[i].checked \in BOOLEAN
  /\ whole \subseteq 1..Len(sent)
  /\ run \in BOOLEAN /\ tainted \in BOOLEAN /\ repeats \in BOOLEAN

Init ==
  /\ state = "free" /\ check_crc = FALSE /\ section_filter = {}
  /\ pusi_seen = FALSE /\ cc = 0 /\ secbuf_base = <<>> /\ secbufp = 0
  /\ sent = <<>> /\ done = 0 /\ next_cc = 0 /\ missed = 0 /\ faults = 0
  /\ out = <<>> /\ whole = {} /\ run = FALSE /\ tainted = FALSE /\ repeats = FALSE

-----------------------------------------------------------------------------
(***************************************************************************)
(* The sender and the channel (external).                                  *)
(***************************************************************************)

Byte(id, k, sec) == [id |-> id, k |-> k, sec |-> sec]
\* Padding is 0xff: a length of 3 + 0xfff, more than a section may have.
Padding == Byte(0, 0, [len |-> MaxSection + 2, looks |-> MaxSection + 2,
                       table |-> "ff", syntax |-> TRUE])
DamagedByte(n) == Byte(0, 0, [len |-> n, looks |-> n, table |-> "any", syntax |-> FALSE])

BytesFrom(id, sec, k) == [j \in 1..(sec.len - k) |-> Byte(id, k + j - 1, sec)]
FirstBytes(b, n) == [j \in 1..n |-> IF j <= Len(b) THEN b[j] ELSE Padding]
Least(a, b) == IF a < b THEN a ELSE b

Remaining == IF sent = <<>> THEN 0 ELSE Last(sent).len - done
Rest == IF sent = <<>> THEN <<>> ELSE BytesFrom(Len(sent), Last(sent), done)

\* A packet in which no section begins; padding follows the end of a section.
Continuation(c) ==
  [count |-> c, pusi |-> FALSE, pointer |-> 0, bytes |-> FirstBytes(Rest, c),
   sent |-> sent, done |-> done + Least(c, Remaining)]

\* The bytes of the sections new, which are sent next.
NewBytes(new) == FlattenSeq([i \in 1..Len(new) |-> BytesFrom(Len(sent) + i, new[i], 0)])

\* A packet in which the sections new begin.  Its first payload byte, pointer,
\* says how many bytes precede the first of them.
Beginning(c, new) ==
  LET b == Rest \o NewBytes(new)
  IN [count |-> c, pusi |-> TRUE, pointer |-> Remaining, bytes |-> FirstBytes(b, c - 1),
      sent |-> sent \o new,
      done |-> Last(new).len - (IF Len(b) > c - 1 THEN Len(b) - (c - 1) ELSE 0)]

\* The packets that may come next.  Every section that begins in a packet has at
\* least its first byte there.
NextPackets ==
  (IF Remaining > 0 THEN {Continuation(c) : c \in Counts} ELSE {})
  \cup {Beginning(y[1], y[2]) :
          y \in {z \in Counts \X (BoundedSeq(Sections, MaxSections - Len(sent)) \ {<<>>}) :
                   Len(NewBytes(z[2])) - Last(z[2]).len + Remaining + 2 <= z[1]}}

\* What a damaged packet may look like: its pusi bit, its pointer and the number of
\* bytes it carries.
DamagedShapes ==
  {<<FALSE, 0, FullPayload>>}
  \cup ({TRUE} \X (0..FullPayload) \X {FullPayload - 1})

DamagedPacket(x, n, l) ==
  [count |-> FullPayload, pusi |-> x[1], pointer |-> x[2], cc |-> n, dc |-> FALSE,
   damaged |-> TRUE, bytes |-> [j \in 1..x[3] |-> DamagedByte(l)]]

DamagedPackets ==
  {DamagedPacket(x, n, l) : x \in DamagedShapes, n \in {next_cc, cc}, l \in Damaged}

-----------------------------------------------------------------------------
(***************************************************************************)
(* The packet handler.  It works on the record f of the feed's variables   *)
(* and of what the filters were given.                                     *)
(***************************************************************************)

Whole(b) == /\ b[1].id # 0 /\ Len(b) = b[1].sec.len
            /\ \A i \in 1..Len(b) : b[i].id = b[1].id /\ b[i].k = i - 1

\* The length in the header at offset p.
section_length(d, p) ==
  LET hi == d[p + 2]
      lo == d[p + 3]
  IN IF hi.id = lo.id /\ hi.k = 1 /\ lo.k = 2 THEN hi.sec.len
     ELSE IF lo.id = 0 THEN lo.sec.looks ELSE hi.sec.looks

sectionfilter(filter, b) == b[1].sec.table \in filter \cup {"any"}

\* What neumo_dvb_dmx_swfilter_section_feed does with the section b: the CRC is
\* checked if the feed asks for it and the section says that it has one.
section_feed(b, taint) ==
  LET checked == check_crc /\ b[2].sec.syntax
      to == {x \in section_filter : sectionfilter(x, b)}
  IN IF to = {} \/ (checked /\ ~Whole(b)) THEN <<>>
     ELSE <<[id |-> IF Whole(b) THEN b[1].id ELSE 0, to |-> to,
             checked |-> checked, tainted |-> taint]>>

section_new(f) == [f EXCEPT !.secbuf_base = <<>>, !.secbufp = 0]

\* At offset q of d there is a section that section_copy_dump can hand over.
Complete(d, q) ==
  /\ q + 2 < Len(d)
  /\ section_length(d, q) <= MaxSection
  /\ q + section_length(d, q) <= Len(d)

\* The loop of section_copy_dump from offset p on: what it hands over, and where
\* it stops.
Dump(d, p, taint) ==
  LET dump[q \in 0..Len(d)] ==
        IF Complete(d, q)
        THEN LET end == q + section_length(d, q)
                 rest == dump[end]
             IN [rest EXCEPT !.found = section_feed(SubSeq(d, q + 1, end), taint) \o @]
        ELSE [secbufp |-> q, found |-> <<>>]
  IN dump[p]

\* Mutant: the size of the buffer is not looked at.
RoomAlways(f) == FullPayload
Room(f) == DMX_MAX_SECFEED_SIZE - Len(f.secbuf_base)

copy_dump(f, bytes) ==
  LET len == Least(Len(bytes), Room(f))
      d == f.secbuf_base \o SubSeq(bytes, 1, len)
      r == Dump(d, f.secbufp, f.tainted)
  IN IF len <= 0 THEN f
     ELSE [f EXCEPT !.secbuf_base = d, !.secbufp = r.secbufp,
                    !.out = IF f.pusi_seen THEN @ \o r.found ELSE @]

\* Mutant: pusi_seen stays.
resync_KeepPusi(f) == section_new(f)
\* After a gap nothing is handed over until the next section start.
resync(f) == section_new([f EXCEPT !.pusi_seen = FALSE])

section_packet(f, p) ==
  LET ccok == (f.cc + 1) % CCs = p.cc
      g == IF ccok /\ ~p.dc THEN f ELSE resync(f)
      h == [g EXCEPT !.cc = p.cc, !.tainted = @ \/ p.damaged]
      b == copy_dump(h, SubSeq(p.bytes, 1, p.pointer))
      n == section_new([b EXCEPT !.pusi_seen = TRUE, !.tainted = p.damaged])
  IN CASE ~p.pusi -> copy_dump(h, p.bytes)
       [] p.pusi /\ p.count > 1 /\ p.pointer < p.count ->
            copy_dump(n, SubSeq(p.bytes, p.pointer + 1, Len(p.bytes)))
       [] OTHER -> h

Feed == [pusi_seen |-> pusi_seen, cc |-> cc, secbuf_base |-> secbuf_base,
         secbufp |-> secbufp, tainted |-> tainted, out |-> out]

\* Mutant: packet_type tests for <= 0, and goes back to the start every time.
TakeResets(f) ==
  /\ pusi_seen' = f.pusi_seen /\ cc' = f.cc
  /\ secbuf_base' = f.secbuf_base /\ secbufp' = 0
  /\ tainted' = f.tainted
  /\ out' = f.out
Take(f) ==
  /\ pusi_seen' = f.pusi_seen /\ cc' = f.cc
  /\ secbuf_base' = f.secbuf_base /\ secbufp' = f.secbufp
  /\ tainted' = f.tainted
  /\ out' = f.out

-----------------------------------------------------------------------------
(***************************************************************************)
(* Packets.                                                                *)
(***************************************************************************)

Sent(x) ==
  /\ sent' = x.sent /\ done' = x.done
  /\ next_cc' = (next_cc + 1) % CCs

Fault == faults < MaxFaults /\ faults' = faults + 1

Pkt(x, dc) == [count |-> x.count, pusi |-> x.pusi, pointer |-> x.pointer,
               bytes |-> x.bytes, cc |-> next_cc, dc |-> dc, damaged |-> FALSE]

\* The sections completed by packet x when it is received, r telling whether the
\* last section was received without a gap before it.
Completed(x, r) ==
  {i \in 1..Len(x.sent) :
     /\ i > Len(sent) \/ (i = Len(sent) /\ r)
     /\ i = Len(x.sent) => x.done = Last(x.sent).len}

\* A packet arrives.
Arrive(x, dc) ==
  /\ state = "go"
  /\ Sent(x) /\ missed' = 0
  /\ IF dc THEN Fault ELSE UNCHANGED faults
  /\ Take(section_packet(Feed, Pkt(x, dc)))
  /\ whole' = whole \cup Completed(x, run /\ ~dc)
  /\ run' = (x.pusi \/ (run /\ ~dc))
  /\ UNCHANGED <<feed, repeats>>

\* A packet arrives twice, with the same continuity counter.
ArriveTwice(x) ==
  /\ state = "go"
  /\ Sent(x) /\ missed' = 0 /\ Fault
  /\ Take(section_packet(section_packet(Feed, Pkt(x, FALSE)), Pkt(x, FALSE)))
  /\ whole' = whole \cup Completed(x, run)
  /\ run' = x.pusi
  /\ repeats' = TRUE
  /\ UNCHANGED <<feed>>

\* A packet does not reach the demux, or reaches it damaged and is dropped while
\* dvb_demux_feed_err_pkts is off.
Lose(x) ==
  /\ missed < CCs - 1
  /\ Sent(x) /\ missed' = missed + 1 /\ Fault
  /\ run' = FALSE
  /\ UNCHANGED <<feed, asm, out, whole, tainted, repeats>>

\* While dvb_demux_feed_err_pkts is on, a damaged packet is handled like any other.
ArriveDamaged(x, p) ==
  /\ state = "go"
  /\ Sent(x) /\ missed' = 0 /\ Fault
  /\ Take(section_packet(Feed, p))
  /\ run' = FALSE
  /\ UNCHANGED <<feed, whole, repeats>>

\* A packet without payload: section_packet refuses it, and packet_type resets
\* seclen and secbufp.
ArriveEmpty ==
  /\ state = "go"
  /\ Fault
  /\ secbufp' = 0
  /\ repeats' = TRUE
  /\ UNCHANGED <<feed, pusi_seen, cc, secbuf_base, sent, done, next_cc, missed,
                 out, whole, run, tainted>>

\* A feed that does not filter ignores its packets.
Ignore(x) ==
  /\ state # "go"
  /\ Sent(x) /\ missed' = 0
  /\ UNCHANGED <<feed, asm, faults, seen>>

-----------------------------------------------------------------------------
(***************************************************************************)
(* Operations on the feed.                                                 *)
(***************************************************************************)

allocate_section_feed(crc) ==
  /\ state = "free"
  /\ state' = "ready" /\ check_crc' = crc /\ section_filter' = {}
  /\ secbuf_base' = <<>> /\ secbufp' = 0
  /\ UNCHANGED <<pusi_seen, cc, stream, seen>>

\* The demux device stops the feed before it adds a filter.
allocate_filter(x) ==
  /\ state = "ready" /\ x \notin section_filter
  /\ section_filter' = section_filter \cup {x}
  /\ UNCHANGED <<state, check_crc, asm, stream, seen>>

\* The continuity counter keeps the value of the last packet seen.
start_filtering(ret) ==
  /\ state = "ready" /\ section_filter # {}
  /\ secbuf_base' = <<>> /\ secbufp' = 0 /\ pusi_seen' = FALSE
  /\ state' = IF ret < 0 THEN "ready" ELSE "go"
  /\ UNCHANGED <<check_crc, section_filter, cc, stream, seen>>

\* What was given out is recorded for as long as the feed filters.
Forget == out' = <<>> /\ whole' = {} /\ run' = FALSE /\ tainted' = FALSE /\ repeats' = FALSE

stop_filtering ==
  /\ state = "go"
  /\ state' = "ready"
  /\ Forget
  /\ UNCHANGED <<check_crc, section_filter, asm, stream>>

\* The feed is stopped first if it filters.
release_filter(x) ==
  /\ state # "free" /\ x \in section_filter
  /\ state' = "ready"
  /\ section_filter' = section_filter \ {x}
  /\ Forget
  /\ UNCHANGED <<check_crc, asm, stream>>

release_section_feed ==
  /\ state # "free"
  /\ state' = "free"
  /\ Forget
  /\ UNCHANGED <<check_crc, section_filter, asm, stream>>

Next ==
  \/ \E x \in NextPackets, dc \in BOOLEAN : Arrive(x, dc)
  \/ \E x \in NextPackets : ArriveTwice(x)
  \/ \E x \in NextPackets : Lose(x)
  \/ \E x \in NextPackets, p \in DamagedPackets : ArriveDamaged(x, p)
  \/ ArriveEmpty
  \/ \E x \in NextPackets : Ignore(x)
  \/ \E crc \in BOOLEAN : allocate_section_feed(crc)
  \/ \E x \in Filters : allocate_filter(x)
  \/ \E ret \in {0, -1} : start_filtering(ret)
  \/ stop_filtering
  \/ \E x \in Filters : release_filter(x)
  \/ release_section_feed

Spec == Init /\ [][Next]_vars

-----------------------------------------------------------------------------
(***************************************************************************)
(* Properties.                                                             *)
(***************************************************************************)

\* A filter is given whole sections only, each exactly as it was sent, wherever
\* the feed was started and whatever packets were lost or came twice.  Anything
\* else needs a damaged packet that was let through, comes before the next
\* section start, and carries no CRC that is checked (pusi_seen in
\* neumo_dvb_dmx_swfilter_section_copy_dump and section_packet).
OnlyWholeSections ==
  \A i \in 1..Len(out) : out[i].id = 0 => out[i].tainted /\ ~out[i].checked

\* Every section whose packets all arrived while the feed filtered has been given
\* to every filter that accepts it: gaps before it, sections that share its
\* packets and the size of the buffer do not matter.  A packet that comes twice and
\* a discontinuity that is announced count as gaps: the handler drops the section
\* in progress (neumo_dvb_dmx_swfilter_section_packet).
WholeSectionsDelivered ==
  state = "go" =>
    \A id \in whole, x \in section_filter :
      sent[id].table \in x => \E i \in 1..Len(out) : out[i].id = id /\ x \in out[i].to

\* Sections are given out in the order sent and once, unless a packet came twice or
\* a packet without payload made the handler go back to the start of its buffer.
OnceInOrder ==
  ~repeats =>
    \A i, j \in 1..Len(out) :
      (i < j /\ out[i].id # 0 /\ out[j].id # 0) => out[i].id < out[j].id
=============================================================================
