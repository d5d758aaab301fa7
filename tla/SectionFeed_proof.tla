------------------------- MODULE SectionFeed_proof -------------------------
(***************************************************************************)
(* Proofs about SectionFeed, for every size of packets and sections, any   *)
(* number of sections in a packet, and any filters.                        *)
(*                                                                         *)
(* The invariant is stated on the record f on which the packet handler     *)
(* works: what is in the buffer (typed, in order and, after an undamaged   *)
(* section start, a stretch of the stream that the next packet continues), *)
(* and where in it the loop of section_copy_dump stands.                   *)
(***************************************************************************)
EXTENDS SectionFeed, WellFoundedInduction, SequenceTheorems, TLAPS

-----------------------------------------------------------------------------
(***************************************************************************)
(* The inductive invariant.                                                *)
(***************************************************************************)
\* What a byte says about the section it belongs to, or seems to.
Secs == Sections \cup {Padding.sec} \cup {DamagedByte(n).sec : n \in Damaged}
Bytes == [id : Nat, k : Nat, sec : Secs]

\* What the filters were given.
Given == [id : Nat, to : SUBSET Filters, checked : BOOLEAN, tainted : BOOLEAN]

\* The feed as the packet handler works on it, when n sections have been sent.
FeedRec == [pusi_seen : BOOLEAN, cc : 0..(CCs - 1), secbuf_base : Seq(Bytes),
            secbufp : Nat, tainted : BOOLEAN, out : Seq(Given)]
Typed(f, n) ==
  /\ f \in FeedRec
  /\ Len(f.secbuf_base) <= DMX_MAX_SECFEED_SIZE /\ f.secbufp <= Len(f.secbuf_base)
  /\ \A i \in 1..Len(f.secbuf_base) : f.secbuf_base[i].id <= n
  /\ \A i \in 1..Len(f.out) : f.out[i].id <= n

\* The first byte of a section.
IsStart(b) == b.id # 0 /\ b.k = 0

\* Padding, or the last byte of a section: a section may begin after it.
IsEnd(b) == b = Padding \/ (b.id # 0 /\ b.k + 1 = b.sec.len)

\* The byte c follows the byte b in the stream.
Follows(b, c) ==
  \/ b.id # 0 /\ b.k + 1 < b.sec.len /\ c = Byte(b.id, b.k + 1, b.sec)
  \/ IsEnd(b) /\ c = Padding
  \/ IsEnd(b) /\ b # Padding /\ IsStart(c)

Linked(d) == \A i \in 1..(Len(d) - 1) : Follows(d[i], d[i + 1])

\* The bytes of d are bytes of the sections s, or padding.
Genuine(d, s) ==
  \A i \in 1..Len(d) :
    \/ d[i] = Padding
    \/ /\ d[i].id \in 1..Len(s) /\ d[i].sec = s[d[i].id]
       /\ d[i].k < d[i].sec.len

\* The buffer begins with a section, goes on as the stream, and p is a place in it
\* at which a section or padding begins.
Aligned(d, p, s) ==
  /\ Genuine(d, s) /\ Linked(d)
  /\ Len(d) > 0 => d[1].k = 0
  /\ p = 0 \/ IsEnd(d[p])

\* The byte b is the last of n bytes sent of the last section, or padding after it.
Matches(b, s, n) ==
  \/ b = Byte(Len(s), n - 1, Last(s))
  \/ b = Padding /\ n = Last(s).len

\* The buffer ends where the stream stands, or it is full.
InStep(d, s, n) ==
  /\ Len(s) > 0 /\ Len(d) > 0
  /\ Len(d) = DMX_MAX_SECFEED_SIZE \/ Matches(d[Len(d)], s, n)

Synced(f, s, n) ==
  f.pusi_seen /\ ~f.tainted =>
    Aligned(f.secbuf_base, f.secbufp, s) /\ InStep(f.secbuf_base, s, n)

OnlyWhole(l) == \A i \in 1..Len(l) : l[i].id = 0 => l[i].tainted /\ ~l[i].checked

\* Sections begin in d in the order of their numbers.
StartsInOrder(d) ==
  \A i, j \in 1..Len(d) : i < j /\ IsStart(d[i]) /\ IsStart(d[j]) => d[i].id < d[j].id

Increasing(l) ==
  \A i, j \in 1..Len(l) : i < j /\ l[i].id # 0 /\ l[j].id # 0 => l[i].id < l[j].id

\* Sections that begin at or after offset p of d come after those in l.
Later(l, d, p) ==
  \A i \in 1..Len(l), j \in 1..Len(d) :
    j > p /\ IsStart(d[j]) /\ l[i].id # 0 => l[i].id < d[j].id

InOrder(f) ==
  /\ Increasing(f.out) /\ StartsInOrder(f.secbuf_base)
  /\ Later(f.out, f.secbuf_base, f.secbufp)

\* The section that is being received is in the buffer from its first byte on, it
\* has not been passed over, and there is room for the rest of it.
InProgress(f, s, n) ==
  /\ n <= Len(f.secbuf_base) /\ f.secbufp <= Len(f.secbuf_base) - n
  /\ f.secbuf_base[Len(f.secbuf_base) - n + 1] = Byte(Len(s), 0, Last(s))
  /\ Len(f.secbuf_base) + Last(s).len - n <= DMX_MAX_SECFEED_SIZE

\* The section with number id was given to every filter that accepts its table.
GivenOut(l, id, table) ==
  \A x \in section_filter :
    table \in x => \E i \in 1..Len(l) : l[i].id = id /\ x \in l[i].to

\* The stream.
StreamOK ==
  /\ sent \in Seq(Sections) /\ Len(sent) <= MaxSections
  /\ done \in Nat
  /\ IF sent = <<>> THEN done = 0 ELSE done \in 1..Last(sent).len
  /\ next_cc \in 0..(CCs - 1) /\ missed \in 0..(CCs - 1) /\ faults \in 0..MaxFaults

\* What holds of the feed, and what is recorded only while it filters.
FeedOK ==
  /\ state \in {"free", "ready", "go"} /\ check_crc \in BOOLEAN
  /\ section_filter \subseteq Filters
  /\ whole \subseteq 1..Len(sent) /\ run \in BOOLEAN /\ repeats \in BOOLEAN
  /\ state # "go" => out = <<>> /\ whole = {} /\ ~run /\ ~repeats /\ ~tainted

\* The counter of the packet handler and that of the sender.
CounterInStep ==
  \/ next_cc = cc + 1 + missed
  \/ next_cc + CCs = cc + 1 + missed

GoOK ==
  state = "go" =>
    /\ missed = 0 => Synced(Feed, sent, done)
    /\ pusi_seen /\ ~tainted => Aligned(secbuf_base, secbufp, sent) /\ CounterInStep
    /\ ~repeats => InOrder(Feed)
    /\ run => /\ pusi_seen /\ ~tainted /\ missed = 0 /\ sent # <<>>
              /\ IF Remaining = 0 THEN Len(sent) \in whole ELSE InProgress(Feed, sent, done)

IInv ==
  /\ StreamOK /\ FeedOK /\ Typed(Feed, Len(sent))
  /\ OnlyWhole(out) /\ GoOK
  /\ WholeSectionsDelivered

-----------------------------------------------------------------------------
(***************************************************************************)
(* Constants.                                                              *)
(***************************************************************************)
\* Every set of natural numbers has a least element: the form of induction used
\* below, applied to the set of counterexamples.
LEMMA LeastElement ==
  ASSUME NEW T, T \subseteq Nat, T # {}
  PROVE  \E n \in T : \A m \in T : n <= m
<1>1. PICK x \in T : \A y \in T : ~(<<y, x>> \in OpToRel(<, Nat))
  BY WFMin, NatLessThanWellFounded
<1>2. \A y \in T : ~(y < x)
  BY <1>1 DEF OpToRel
<1> QED
  BY <1>2

\* The sizes of packets, sections and the buffer.
LEMMA Sizes ==
  /\ FullPayload \in Counts /\ \A c \in Counts : c <= FullPayload
  /\ FullPayload \in Nat \ {0}
  /\ DMX_MAX_SECFEED_SIZE = MaxSection + FullPayload + 4
  /\ DMX_MAX_SECFEED_SIZE \in Nat /\ MaxSection \in Nat
<1>1. \E n \in Counts : \A c \in Counts : c <= n
  BY SectionAssumption
<1>2. FullPayload \in Counts /\ \A c \in Counts : c <= FullPayload
  BY <1>1 DEF FullPayload
<1> QED
  BY <1>2, SectionAssumption DEF DMX_MAX_SECFEED_SIZE, PacketSize

\* The lengths that bytes announce.
LEMMA SecLengths ==
  /\ \A s \in Secs : s.len \in 3..(MaxSection + 2) /\ s.looks \in 3..(MaxSection + 2)
  /\ \A s \in Sections : s \in Secs /\ s.len \in 3..MaxSection
<1> USE SectionAssumption DEF HeaderSize
<1>1. \A s \in Sections : s.len \in 3..MaxSection /\ s.looks \in 3..(MaxSection + 2)
  OBVIOUS
<1>2. ASSUME NEW s \in Sections PROVE s.len \in 3..(MaxSection + 2)
  BY <1>1
<1>3. MaxSection + 2 \in 3..(MaxSection + 2)
  OBVIOUS
<1> QED
  BY <1>1, <1>2, <1>3 DEF Secs, Padding, DamagedByte, Byte

\* Padding and damaged bytes.
LEMMA OtherBytes ==
  /\ Padding \in Bytes /\ Padding.id = 0 /\ Padding.k = 0
  /\ Padding.sec.len = MaxSection + 2 /\ Padding.sec.looks = MaxSection + 2
  /\ \A n \in Damaged : /\ DamagedByte(n) \in Bytes /\ DamagedByte(n).id = 0
                        /\ DamagedByte(n).k = 0
BY DEF Bytes, Secs, Padding, DamagedByte, Byte

\* The length read from any three bytes is positive.
LEMMA LengthIsPositive ==
  ASSUME NEW d \in Seq(Bytes), NEW q \in Nat, q + 2 < Len(d)
  PROVE  section_length(d, q) \in 3..(MaxSection + 2)
<1>1. d[q + 2] \in Bytes /\ d[q + 3] \in Bytes
  OBVIOUS
<1>2. d[q + 2].sec \in Secs /\ d[q + 3].sec \in Secs
  BY <1>1 DEF Bytes
<1> QED
  BY <1>2, SecLengths DEF section_length

-----------------------------------------------------------------------------
(***************************************************************************)
(* The loop of section_copy_dump.                                          *)
(***************************************************************************)
\* Where the section at offset q ends.
End(d, q) == q + section_length(d, q)

\* The loop goes forward and stays inside the buffer.
LEMMA EndIsLater ==
  ASSUME NEW d \in Seq(Bytes), NEW q \in 0..Len(d), Complete(d, q)
  PROVE  End(d, q) \in (q + 3)..Len(d) /\ section_length(d, q) \in 3..MaxSection
<1>1. section_length(d, q) \in 3..(MaxSection + 2)
  BY LengthIsPositive DEF Complete
<1> QED
  BY <1>1, Sizes DEF Complete, End

\* The recursion of the loop.
LEMMA DumpStep ==
  ASSUME NEW d \in Seq(Bytes), NEW p \in 0..Len(d), NEW t
  PROVE  Dump(d, p, t) =
           IF Complete(d, p)
           THEN [Dump(d, End(d, p), t)
                   EXCEPT !.found = section_feed(SubSeq(d, p + 1, End(d, p)), t) \o @]
           ELSE [secbufp |-> p, found |-> <<>>]
<1> DEFINE L == Len(d)
           Case(g, q) == IF Complete(d, q)
                         THEN [g[End(d, q)]
                                 EXCEPT !.found = section_feed(SubSeq(d, q + 1, End(d, q)), t) \o @]
                         ELSE [secbufp |-> q, found |-> <<>>]
           Partial(g, n) == g = [q \in (L - n)..L |-> Case(g, q)]
<1>0. L \in Nat
  OBVIOUS
<1>1. \A g, h : \A q \in 0..L :
        (Complete(d, q) => g[End(d, q)] = h[End(d, q)]) => Case(g, q) = Case(h, q)
  OBVIOUS
<1>2. \A q \in 0..L : Complete(d, q) => End(d, q) \in (q + 1)..L
  BY EndIsLater
<1>3. \A n \in 0..L : \E g : Partial(g, n)
  <2> HIDE DEF Case
  <2> DEFINE T == {n \in 0..L : ~\E g : Partial(g, n)}
  <2> SUFFICES ASSUME T # {} PROVE FALSE
    OBVIOUS
  <2>0. T \subseteq Nat
    BY <1>0
  <2>1. PICK n \in T : \A m \in T : n <= m
    <3> HIDE DEF T
    <3> QED
      BY <2>0, LeastElement
  <2>2. n \in 0..L /\ ~\E g : Partial(g, n)
    BY <2>1
  <2>3. n # 0
    <3>1. ASSUME n = 0 PROVE FALSE
      <4> DEFINE g == [q \in L..L |-> Case(<<>>, q)]
      <4>0. ~Complete(d, L) /\ L \in 0..L
        BY <1>2, <1>0
      <4>1. \A q \in L..L : Case(g, q) = Case(<<>>, q)
        <5> HIDE DEF g
        <5>1. \A q \in L..L : q = L
          BY <1>0
        <5>2. Case(g, L) = Case(<<>>, L)
          BY <1>1, <4>0
        <5> QED
          BY <5>1, <5>2
      <4>2. Partial(g, 0)
        BY <4>1, <1>0
      <4> QED
        BY <4>2, <2>2, <3>1
    <3> QED
      BY <3>1
  <2>4. n - 1 \in 0..L /\ n - 1 \notin T
    <3>1. n - 1 \in 0..L /\ ~(n <= n - 1)
      BY <2>2, <2>3, <1>0
    <3> HIDE DEF T
    <3> QED
      BY <3>1, <2>1
  <2>5. PICK g : Partial(g, n - 1)
    BY <2>4
  <2> DEFINE h == [q \in (L - n)..L |-> IF q = L - n THEN Case(g, q) ELSE g[q]]
  <2>6. ASSUME NEW q \in (L - n)..L PROVE h[q] = Case(h, q)
    <3>1. Complete(d, q) => h[End(d, q)] = g[End(d, q)]
      BY <1>2, <1>0, <2>2
    <3>2. Case(h, q) = Case(g, q)
      BY SMTT(30), <3>1, <1>1, <2>2, <1>0
    <3>3. CASE q = L - n
      BY <3>2, <3>3
    <3>4. CASE q # L - n
      <4>1. q \in (L - (n - 1))..L
        BY <3>4, <2>2, <1>0
      <4>2. g[q] = Case(g, q)
        BY <4>1, <2>5
      <4> QED
        BY <4>2, <3>2, <3>4
    <3> QED
      BY <3>3, <3>4
  <2>7. Partial(h, n)
    BY <2>6
  <2> QED
    BY <2>7, <2>2
<1> DEFINE dump == CHOOSE g : g = [q \in 0..L |-> Case(g, q)]
<1>4. dump = [q \in 0..L |-> Case(dump, q)]
  <2> HIDE DEF Case
  <2>1. \E g : Partial(g, L)
    BY <1>3, <1>0
  <2>2. \E g : g = [q \in 0..L |-> Case(g, q)]
    BY <2>1, <1>0
  <2> QED
    BY <2>2
<1>5. \A q \in 0..L : Dump(d, q, t) = dump[q]
  BY DEF Dump, End
<1>6. Dump(d, p, t) = Case(dump, p)
  <2> HIDE DEF Case, dump
  <2> QED
    BY <1>4, <1>5
<1> HIDE DEF dump
<1>7. Complete(d, p) => Dump(d, End(d, p), t) = dump[End(d, p)]
  <2> SUFFICES ASSUME Complete(d, p) PROVE End(d, p) \in 0..L
    BY <1>5
  <2> QED
    BY <1>2, <1>0
<1> QED
  BY <1>6, <1>7

\* Induction along the loop: G are the offsets for which a statement holds.
LEMMA LoopInduction ==
  ASSUME NEW d \in Seq(Bytes), NEW G,
         \A q \in 0..Len(d) : (Complete(d, q) => End(d, q) \in G) => q \in G
  PROVE  \A q \in 0..Len(d) : q \in G
<1> DEFINE L == Len(d)
           T == {n \in 0..L : L - n \notin G}
<1>0. L \in Nat
  OBVIOUS
<1>1. ASSUME T # {} PROVE FALSE
  <2>0. T \subseteq Nat
    BY <1>0
  <2>1. PICK n \in T : \A m \in T : n <= m
    <3> HIDE DEF T
    <3> QED
      BY <2>0, <1>1, LeastElement
  <2>2. n \in 0..L /\ L - n \in 0..L /\ L - n \notin G
    BY <2>1, <1>0
  <2>3. Complete(d, L - n) /\ End(d, L - n) \notin G
    BY <2>2
  <2>4. End(d, L - n) \in (L - n + 3)..L
    BY <2>2, <2>3, EndIsLater
  <2>5. L - End(d, L - n) \in 0..L /\ L - End(d, L - n) < n
    BY <2>2, <2>4, <1>0
  <2>6. L - (L - End(d, L - n)) = End(d, L - n)
    BY <2>4, <1>0, <2>2
  <2>7. L - End(d, L - n) \in T
    BY <2>3, <2>5, <2>6
  <2> QED
    <3> HIDE DEF T
    <3> QED
      BY <2>1, <2>5, <2>7, <2>2, <1>0
<1>2. ASSUME NEW q \in 0..L PROVE q \in G
  <2>1. L - q \in 0..L /\ L - (L - q) = q
    BY <1>0
  <2>2. L - q \notin T
    BY <1>1
  <2> QED
    BY <2>1, <2>2
<1> QED
  BY <1>2

\* What section_feed does with one section.
LEMMA SectionFeedGives ==
  ASSUME NEW b \in Seq(Bytes), Len(b) >= 3, NEW t \in BOOLEAN,
         check_crc \in BOOLEAN, section_filter \subseteq Filters
  PROVE  \/ /\ section_feed(b, t) = <<>>
            /\ Whole(b) => \A x \in section_filter : b[1].sec.table \notin x
         \/ \E e \in Given :
              /\ section_feed(b, t) = <<e>>
              /\ e.tainted = t
              /\ \/ e.id = 0 /\ ~Whole(b) /\ ~e.checked
                 \/ e.id = b[1].id /\ Whole(b)
              /\ \A x \in section_filter : b[1].sec.table \in x => x \in e.to
<1> DEFINE checked == check_crc /\ b[2].sec.syntax
           to == {x \in section_filter : sectionfilter(x, b)}
           e == [id |-> IF Whole(b) THEN b[1].id ELSE 0, to |-> to,
                 checked |-> checked, tainted |-> t]
<1>1. checked \in BOOLEAN /\ to \in SUBSET Filters
  OBVIOUS
<1>2. b[1].id \in Nat
  <2>1. b[1] \in Bytes
    OBVIOUS
  <2> QED
    BY <2>1 DEF Bytes
<1>3. Whole(b) \in BOOLEAN
  BY DEF Whole
<1>4. e \in Given
  BY <1>1, <1>2, <1>3 DEF Given
<1>5. \A x \in section_filter : b[1].sec.table \in x => x \in to
  BY DEF sectionfilter
<1>6. CASE to = {} \/ (checked /\ ~Whole(b))
  <2>1. section_feed(b, t) = <<>>
    BY <1>6 DEF section_feed
  <2> QED
    BY <2>1, <1>5, <1>6
<1>7. CASE ~(to = {} \/ (checked /\ ~Whole(b)))
  <2>1. section_feed(b, t) = <<e>>
    BY <1>7 DEF section_feed
  <2>2. \/ e.id = 0 /\ ~Whole(b) /\ ~e.checked
        \/ e.id = b[1].id /\ Whole(b)
    BY <1>7, <1>3
  <2>3. e.tainted = t /\ e.to = to
    OBVIOUS
  <2> HIDE DEF e, to
  <2> QED
    BY <2>1, <2>2, <2>3, <1>4, <1>5
<1> QED
  BY <1>6, <1>7

Dumped == [secbufp : Nat, found : Seq(Given)]

\* The section at offset q of d.
Cut(d, q) == SubSeq(d, q + 1, End(d, q))

\* The bytes that the loop hands over as a section.
LEMMA CutIs ==
  ASSUME NEW d \in Seq(Bytes), NEW q \in 0..Len(d), Complete(d, q)
  PROVE  /\ Cut(d, q) \in Seq(Bytes) /\ Len(Cut(d, q)) = section_length(d, q)
         /\ Len(Cut(d, q)) \in 3..MaxSection /\ q + Len(Cut(d, q)) <= Len(d)
         /\ \A i \in 1..Len(Cut(d, q)) : Cut(d, q)[i] = d[q + i]
<1>1. End(d, q) \in (q + 3)..Len(d) /\ section_length(d, q) \in 3..MaxSection
  BY EndIsLater
<1>2. \A i \in (q + 1)..End(d, q) : d[i] \in Bytes
  BY <1>1
<1>3. /\ Cut(d, q) \in Seq(Bytes)
      /\ Len(Cut(d, q)) = IF q + 1 <= End(d, q) THEN End(d, q) - (q + 1) + 1 ELSE 0
      /\ \A i \in 1..(End(d, q) - (q + 1) + 1) : Cut(d, q)[i] = d[q + 1 + i - 1]
  BY <1>1, <1>2, SubSeqProperties DEF Cut
<1>4. End(d, q) = q + section_length(d, q)
  BY DEF End
<1>5. Len(Cut(d, q)) = section_length(d, q)
  BY <1>1, <1>3, <1>4
<1>6. \A i \in 1..Len(Cut(d, q)) : Cut(d, q)[i] = d[q + i]
  BY <1>1, <1>3, <1>4, <1>5
<1> QED
  BY <1>1, <1>3, <1>4, <1>5, <1>6

\* A section that is handed over begins where the loop stands.
LEMMA CutFirst ==
  ASSUME NEW d \in Seq(Bytes), NEW q \in 0..Len(d), Complete(d, q)
  PROVE  Cut(d, q)[1] = d[q + 1] /\ Len(Cut(d, q)) >= 3
<1> DEFINE l == Len(Cut(d, q))
<1>1. l \in 3..MaxSection /\ \A i \in 1..l : Cut(d, q)[i] = d[q + i]
  BY CutIs
<1> HIDE DEF l
<1>2. 1 \in 1..l /\ l >= 3
  BY <1>1, Sizes
<1> QED
  BY <1>1, <1>2 DEF l

\* One turn of the loop: nothing or one record is put before what follows.
LEMMA DumpTurn ==
  ASSUME NEW d \in Seq(Bytes), NEW q \in 0..Len(d), NEW t \in BOOLEAN,
         check_crc \in BOOLEAN, section_filter \subseteq Filters,
         Complete(d, q), Dump(d, End(d, q), t) \in Dumped
  PROVE  LET r == Dump(d, q, t)
             s == Dump(d, End(d, q), t)
         IN /\ r \in Dumped /\ r.secbufp = s.secbufp
            /\ \/ /\ r.found = s.found
                  /\ Whole(Cut(d, q)) => \A x \in section_filter : d[q + 1].sec.table \notin x
               \/ /\ Len(r.found) = Len(s.found) + 1
                  /\ \A i \in 1..Len(s.found) : r.found[i + 1] = s.found[i]
                  /\ r.found[1] \in Given /\ r.found[1].tainted = t
                  /\ \/ r.found[1].id = 0 /\ ~Whole(Cut(d, q)) /\ ~r.found[1].checked
                     \/ r.found[1].id = d[q + 1].id /\ Whole(Cut(d, q))
                  /\ \A x \in section_filter :
                       d[q + 1].sec.table \in x => x \in r.found[1].to
<1> DEFINE r == Dump(d, q, t)
           s == Dump(d, End(d, q), t)
           b == Cut(d, q)
           g == section_feed(b, t)
<1>1. b \in Seq(Bytes) /\ Len(b) >= 3 /\ b[1] = d[q + 1]
  BY CutIs
<1>2. r = [s EXCEPT !.found = g \o @]
  BY DumpStep DEF Cut
<1>3. s.found \in Seq(Given) /\ s.secbufp \in Nat
  BY DEF Dumped
<1>4. r = [secbufp |-> s.secbufp, found |-> g \o s.found]
  BY <1>2 DEF Dumped
<1>5. \/ /\ g = <<>>
         /\ Whole(b) => \A x \in section_filter : b[1].sec.table \notin x
      \/ \E e \in Given :
           /\ g = <<e>>
           /\ e.tainted = t
           /\ \/ e.id = 0 /\ ~Whole(b) /\ ~e.checked
              \/ e.id = b[1].id /\ Whole(b)
           /\ \A x \in section_filter : b[1].sec.table \in x => x \in e.to
  <2> HIDE DEF b
  <2> QED
    BY <1>1, SectionFeedGives
<1> HIDE DEF r, s, b, g
<1>6. CASE /\ g = <<>>
           /\ Whole(b) => \A x \in section_filter : b[1].sec.table \notin x
  <2>1. g \o s.found = s.found
    BY <1>3, <1>6
  <2>2. r \in Dumped /\ r.secbufp = s.secbufp /\ r.found = s.found
    BY <2>1, <1>3, <1>4 DEF Dumped
  <2> QED
    BY <2>2, <1>6, <1>1 DEF r, s, b
<1>7. ASSUME NEW e \in Given, g = <<e>>, e.tainted = t,
             \/ e.id = 0 /\ ~Whole(b) /\ ~e.checked
             \/ e.id = b[1].id /\ Whole(b),
             \A x \in section_filter : b[1].sec.table \in x => x \in e.to
      PROVE  /\ r \in Dumped /\ r.secbufp = s.secbufp
             /\ Len(r.found) = Len(s.found) + 1
             /\ \A i \in 1..Len(s.found) : r.found[i + 1] = s.found[i]
             /\ r.found[1] = e
  <2>1. g \in Seq(Given) /\ Len(g) = 1 /\ g[1] = e
    BY <1>7
  <2>2. /\ g \o s.found \in Seq(Given) /\ Len(g \o s.found) = Len(s.found) + 1
        /\ \A i \in 1..Len(s.found) : (g \o s.found)[i + 1] = s.found[i]
        /\ (g \o s.found)[1] = e
    <3> DEFINE l == s.found
               w == g \o l
    <3>1. l \in Seq(Given) /\ Len(l) \in Nat
      BY <1>3
    <3> HIDE DEF l
    <3>2. /\ w \in Seq(Given) /\ Len(w) = Len(g) + Len(l)
          /\ \A i \in 1..(Len(g) + Len(l)) : w[i] = IF i <= Len(g) THEN g[i] ELSE l[i - Len(g)]
      BY <2>1, <3>1, ConcatProperties
    <3> HIDE DEF w
    <3>3. w[1] = e /\ \A i \in 1..Len(l) : w[i + 1] = l[i]
      BY <3>1, <3>2, <2>1
    <3> QED
      BY SMTT(30), <3>1, <3>2, <3>3, <2>1 DEF w, l
  <2> QED
    BY <2>2, <1>3, <1>4 DEF Dumped
<1> QED
  BY <1>1, <1>5, <1>6, <1>7 DEF r, s, b

\* What the loop finds in bytes of the sections 1..n, t telling whether there was damage.
Found(l, n, t) ==
  \A i \in 1..Len(l) : /\ l[i].id <= n /\ l[i].tainted = t
                       /\ l[i].id = 0 => ~l[i].checked

\* Where the loop stops, and the type of what it hands over.
LEMMA DumpTyped ==
  ASSUME NEW d \in Seq(Bytes), NEW p \in 0..Len(d), NEW t \in BOOLEAN,
         check_crc \in BOOLEAN, section_filter \subseteq Filters,
         NEW n \in Nat, \A i \in 1..Len(d) : d[i].id <= n
  PROVE  LET r == Dump(d, p, t)
         IN /\ r \in Dumped /\ r.secbufp \in p..Len(d)
            /\ Found(r.found, n, t)
<1> DEFINE Good(r, q) == /\ r \in Dumped /\ r.secbufp \in q..Len(d)
                         /\ Found(r.found, n, t)
           G == {q \in 0..Len(d) : Good(Dump(d, q, t), q)}
<1>1. ASSUME NEW q \in 0..Len(d), ~Complete(d, q) PROVE Good(Dump(d, q, t), q)
  <2>1. Dump(d, q, t) = [secbufp |-> q, found |-> <<>>]
    BY <1>1, DumpStep
  <2> QED
    BY <2>1 DEF Dumped, Found
<1>2. ASSUME NEW q \in 0..Len(d), Complete(d, q), End(d, q) \in G
      PROVE  Good(Dump(d, q, t), q)
  <2> DEFINE r == Dump(d, q, t)
             s == Dump(d, End(d, q), t)
  <2> SUFFICES Good(r, q)
    OBVIOUS
  <2>1. Good(s, End(d, q)) /\ End(d, q) \in (q + 3)..Len(d)
    BY <1>2, EndIsLater
  <2>2. d[q + 1].id \in 0..n
    <3>1. q + 1 \in 1..Len(d)
      BY <2>1
    <3>2. d[q + 1] \in Bytes
      BY <3>1
    <3> QED
      BY <3>1, <3>2 DEF Bytes
  <2>3. CASE r \in Dumped /\ r.secbufp = s.secbufp /\ r.found = s.found
    <3> HIDE DEF r, s
    <3>1. r.secbufp \in q..Len(d)
      BY <2>1, <2>3
    <3> QED
      BY <2>1, <2>3, <3>1
  <2>4. CASE /\ r \in Dumped /\ r.secbufp = s.secbufp
             /\ Len(r.found) = Len(s.found) + 1
             /\ \A i \in 1..Len(s.found) : r.found[i + 1] = s.found[i]
             /\ r.found[1] \in Given /\ r.found[1].tainted = t
             /\ \/ r.found[1].id = 0 /\ ~Whole(Cut(d, q)) /\ ~r.found[1].checked
                \/ r.found[1].id = d[q + 1].id /\ Whole(Cut(d, q))
    <3> HIDE DEF r, s
    <3>0. s.found \in Seq(Given) /\ Len(s.found) \in Nat
      BY <2>1 DEF Dumped
    <3>1. r.found[1].id <= n /\ (r.found[1].id = 0 => ~r.found[1].checked)
      <4>1. Cut(d, q)[1] = d[q + 1]
        BY CutFirst, <1>2
      <4>2. Whole(Cut(d, q)) => d[q + 1].id # 0
        BY <4>1 DEF Whole
      <4> QED
        BY <4>2, <2>2, <2>4
    <3>2. ASSUME NEW i \in 1..Len(r.found), i # 1
          PROVE  i - 1 \in 1..Len(s.found) /\ r.found[i] = s.found[i - 1]
      BY <2>4, <3>0, <3>2
    <3>3. r.secbufp \in q..Len(d)
      BY <2>1, <2>4
    <3>4. \A i \in 1..Len(r.found) :
            /\ r.found[i].id <= n /\ r.found[i].tainted = t
            /\ r.found[i].id = 0 => ~r.found[i].checked
      <4> TAKE i \in 1..Len(r.found)
      <4>1. CASE i = 1
        BY <4>1, <3>1, <2>4
      <4>2. CASE i # 1
        <5>1. i - 1 \in 1..Len(s.found) /\ r.found[i] = s.found[i - 1]
          BY <4>2, <3>2
        <5>2. /\ s.found[i - 1].id <= n /\ s.found[i - 1].tainted = t
              /\ s.found[i - 1].id = 0 => ~s.found[i - 1].checked
          BY <5>1, <2>1, Zenon DEF Found
        <5> QED
          BY <5>1, <5>2
      <4> QED
        BY <4>1, <4>2
    <3> QED
      BY <2>4, <3>3, <3>4 DEF Found
  <2>5. s \in Dumped
    BY <2>1
  <2>6. /\ r \in Dumped /\ r.secbufp = s.secbufp
        /\ \/ r.found = s.found
           \/ /\ Len(r.found) = Len(s.found) + 1
              /\ \A i \in 1..Len(s.found) : r.found[i + 1] = s.found[i]
              /\ r.found[1] \in Given /\ r.found[1].tainted = t
              /\ \/ r.found[1].id = 0 /\ ~Whole(Cut(d, q)) /\ ~r.found[1].checked
                 \/ r.found[1].id = d[q + 1].id /\ Whole(Cut(d, q))
    BY <2>5, <1>2, DumpTurn
  <2> HIDE DEF Good, r, s
  <2> QED
    BY <2>3, <2>4, <2>6
<1>3. \A q \in 0..Len(d) : (Complete(d, q) => End(d, q) \in G) => q \in G
  <2> HIDE DEF Good
  <2> QED
    BY <1>1, <1>2
<1>4. p \in G
  <2> HIDE DEF G
  <2> QED
    BY <1>3, LoopInduction
<1> QED
  BY <1>4

\* The sections in r, which the loop found from offset p on, begin before its end.
StartsBefore(d, p, r) ==
  \A i \in 1..Len(r.found) : r.found[i].id # 0 =>
    \E j \in (p + 1)..r.secbufp : IsStart(d[j]) /\ d[j].id = r.found[i].id

\* Sections are handed over in the order of their starts, all of them before the
\* place where the loop stops.
LEMMA DumpOrdered ==
  ASSUME NEW d \in Seq(Bytes), NEW p \in 0..Len(d), NEW t \in BOOLEAN,
         check_crc \in BOOLEAN, section_filter \subseteq Filters,
         NEW n \in Nat, \A i \in 1..Len(d) : d[i].id <= n,
         StartsInOrder(d)
  PROVE  LET r == Dump(d, p, t)
         IN /\ Increasing(r.found)
            /\ StartsBefore(d, p, r)
<1> DEFINE Placed(r, q) == \A i \in 1..Len(r.found) : r.found[i].id # 0 =>
                 \E j \in (q + 1)..r.secbufp : IsStart(d[j]) /\ d[j].id = r.found[i].id
           G == {q \in 0..Len(d) : /\ Increasing(Dump(d, q, t).found)
                                   /\ Placed(Dump(d, q, t), q)}
<1>0. \A q \in 0..Len(d) : Dump(d, q, t) \in Dumped /\ Dump(d, q, t).secbufp \in q..Len(d)
  BY DumpTyped
<1>1. ASSUME NEW q \in 0..Len(d), ~Complete(d, q) PROVE q \in G
  <2>1. Dump(d, q, t) = [secbufp |-> q, found |-> <<>>]
    BY <1>1, DumpStep
  <2> QED
    BY <2>1 DEF Increasing
<1>2. ASSUME NEW q \in 0..Len(d), Complete(d, q), End(d, q) \in G PROVE q \in G
  <2> DEFINE r == Dump(d, q, t)
             s == Dump(d, End(d, q), t)
  <2> SUFFICES Increasing(r.found) /\ Placed(r, q)
    OBVIOUS
  <2>1. End(d, q) \in (q + 3)..Len(d) /\ q + 1 \in 1..Len(d)
    BY <1>2, EndIsLater
  <2>2. /\ Increasing(s.found) /\ Placed(s, End(d, q))
        /\ s \in Dumped /\ s.secbufp \in End(d, q)..Len(d)
    BY <1>0, <1>2, <2>1
  <2>3. s.found \in Seq(Given) /\ Len(s.found) \in Nat
    BY <2>2 DEF Dumped
  <2>4. Whole(Cut(d, q)) => IsStart(d[q + 1])
    <3>1. /\ Cut(d, q)[1] = d[q + 1]
          /\ Len(Cut(d, q)) >= 3
      BY CutFirst, <1>2
    <3> QED
      BY <3>1 DEF Whole, IsStart
  <2>5. CASE r.secbufp = s.secbufp /\ r.found = s.found
    <3> HIDE DEF r, s
    <3>1. \A j \in (End(d, q) + 1)..s.secbufp : j \in (q + 1)..s.secbufp
      BY <2>1, <2>2
    <3> QED
      BY <2>2, <2>5, <3>1
  <2>6. CASE /\ r.secbufp = s.secbufp
             /\ Len(r.found) = Len(s.found) + 1
             /\ \A i \in 1..Len(s.found) : r.found[i + 1] = s.found[i]
             /\ \/ r.found[1].id = 0
                \/ r.found[1].id = d[q + 1].id /\ Whole(Cut(d, q))
    <3> HIDE DEF r, s
    <3>1. ASSUME NEW i \in 1..Len(r.found), i # 1
          PROVE  i - 1 \in 1..Len(s.found) /\ r.found[i] = s.found[i - 1]
      BY <2>6, <2>3, <3>1
    <3>2. ASSUME NEW i \in 1..Len(r.found), r.found[i].id # 0, i # 1
          PROVE  \E j \in (End(d, q) + 1)..r.secbufp :
                   IsStart(d[j]) /\ d[j].id = r.found[i].id
      <4>1. i - 1 \in 1..Len(s.found) /\ s.found[i - 1].id # 0 /\ r.found[i] = s.found[i - 1]
        BY <3>1, <3>2
      <4>2. \E j \in (End(d, q) + 1)..s.secbufp :
              IsStart(d[j]) /\ d[j].id = s.found[i - 1].id
        BY <4>1, <2>2
      <4> QED
        BY <4>1, <4>2, <2>6
    <3>3. Placed(r, q)
      <4> SUFFICES ASSUME NEW i \in 1..Len(r.found), r.found[i].id # 0
                   PROVE  \E j \in (q + 1)..r.secbufp :
                            IsStart(d[j]) /\ d[j].id = r.found[i].id
        OBVIOUS
      <4>1. CASE i = 1
        <5>1. q + 1 \in (q + 1)..r.secbufp
          BY <2>1, <2>2, <2>6
        <5> QED
          BY <4>1, <5>1, <2>4, <2>6
      <4>2. CASE i # 1
        <5>1. PICK j \in (End(d, q) + 1)..r.secbufp : IsStart(d[j]) /\ d[j].id = r.found[i].id
          BY <4>2, <3>2
        <5>2. j \in (q + 1)..r.secbufp
          BY <2>1, <2>2, <2>6
        <5> QED
          BY <5>1, <5>2
      <4> QED
        BY <4>1, <4>2
    <3>4. Increasing(r.found)
      <4> SUFFICES ASSUME NEW i \in 1..Len(r.found), NEW k \in 1..Len(r.found), i < k,
                          r.found[i].id # 0, r.found[k].id # 0
                   PROVE  r.found[i].id < r.found[k].id
        BY DEF Increasing
      <4>1. k # 1
        BY <2>3, <2>6
      <4>2. CASE i # 1
        <5>1. i - 1 < k - 1
          BY <2>3, <2>6
        <5> QED
          BY <5>1, <4>1, <4>2, <3>1, <2>2 DEF Increasing
      <4>3. CASE i = 1
        <5>1. PICK j \in (End(d, q) + 1)..r.secbufp : IsStart(d[j]) /\ d[j].id = r.found[k].id
          BY <4>1, <3>2
        <5>2. j \in 1..Len(d) /\ q + 1 < j
          <6>1. r.secbufp = s.secbufp /\ s.secbufp \in End(d, q)..Len(d)
            BY <2>2, <2>6
          <6>2. Len(d) \in Nat
            OBVIOUS
          <6>3. End(d, q) \in Nat
            BY <2>1
          <6>4. s.secbufp \in Nat /\ s.secbufp <= Len(d)
            BY <6>1, <6>2, <6>3
          <6> QED
            BY SMTT(30), <6>1, <6>2, <6>3, <6>4, <2>1
        <5>3. d[q + 1].id < d[j].id
          BY <5>1, <5>2, <4>3, <2>1, <2>4, <2>6 DEF StartsInOrder
        <5> QED
          BY <5>1, <5>3, <4>3, <2>6
      <4> QED
        BY <4>2, <4>3
    <3> QED
      BY <3>3, <3>4
  <2> QED
    BY SMTT(30), <2>2, <2>5, <2>6, <1>2, DumpTurn
<1>3. \A q \in 0..Len(d) : (Complete(d, q) => End(d, q) \in G) => q \in G
  <2> HIDE DEF G
  <2> QED
    BY <1>1, <1>2
<1>4. p \in G
  <2> HIDE DEF G
  <2> QED
    BY <1>3, LoopInduction
<1> QED
  BY <1>4 DEF StartsBefore

-----------------------------------------------------------------------------
(***************************************************************************)
(* A buffer that is a stretch of the stream.                               *)
(***************************************************************************)
\* From the start of a section on, d holds the bytes of that section.
LEMMA SectionContents ==
  ASSUME NEW d \in Seq(Bytes), Linked(d), NEW x \in 1..Len(d), IsStart(d[x])
  PROVE  \A j \in 0..(d[x].sec.len - 1) :
           x + j <= Len(d) => d[x + j] = Byte(d[x].id, j, d[x].sec)
<1> DEFINE b == d[x]
           T == {j \in 0..(b.sec.len - 1) :
                   x + j <= Len(d) /\ d[x + j] # Byte(b.id, j, b.sec)}
<1>0. b \in Bytes /\ b.sec.len \in Nat /\ b.id # 0 /\ b.k = 0
  <2>1. b \in Bytes
    OBVIOUS
  <2>2. b.sec \in Secs
    BY <2>1 DEF Bytes
  <2> QED
    BY <2>1, <2>2, SecLengths, Sizes DEF IsStart
<1>1. ASSUME T # {} PROVE FALSE
  <2>0. T \subseteq Nat
    BY <1>0
  <2>1. PICK j \in T : \A m \in T : j <= m
    <3> HIDE DEF T
    <3> QED
      BY <2>0, <1>1, LeastElement
  <2>2. j \in 0..(b.sec.len - 1) /\ x + j <= Len(d) /\ d[x + j] # Byte(b.id, j, b.sec)
    BY <2>1
  <2>3. j # 0
    BY <2>2, <1>0 DEF Byte, Bytes
  <2>4. j - 1 \in 0..(b.sec.len - 1) /\ ~(j <= j - 1) /\ x + (j - 1) <= Len(d)
    BY SMTT(30), <2>2, <2>3, <1>0
  <2>5. j - 1 \notin T
    <3> HIDE DEF T
    <3> QED
      BY <2>1, <2>4
  <2>6. d[x + (j - 1)] = Byte(b.id, j - 1, b.sec)
    BY <2>4, <2>5
  <2>7. Follows(d[x + (j - 1)], d[x + j])
    <3>1. x + (j - 1) \in 1..(Len(d) - 1) /\ x + (j - 1) + 1 = x + j
      BY <2>2, <2>3, <1>0
    <3> QED
      BY <3>1 DEF Linked
  <2> DEFINE c == Byte(b.id, j - 1, b.sec)
  <2>8. c.id # 0 /\ c.k + 1 = j /\ c.k + 1 < c.sec.len /\ c # Padding
    BY <1>0, <2>2, <2>3, OtherBytes DEF Byte
  <2>9. d[x + j] = Byte(c.id, c.k + 1, c.sec)
    <3> HIDE DEF c
    <3> QED
      BY <2>6, <2>7, <2>8, <1>0 DEF Follows, IsEnd, c
  <2> QED
    BY <2>9, <2>8, <2>2 DEF Byte
<1> QED
  BY <1>1

\* Padding lasts until the buffer ends.
LEMMA PaddingStays ==
  ASSUME NEW d \in Seq(Bytes), Linked(d), NEW x \in 1..Len(d), d[x] = Padding
  PROVE  \A y \in x..Len(d) : d[y] = Padding
<1> DEFINE T == {y \in x..Len(d) : d[y] # Padding}
<1>1. ASSUME T # {} PROVE FALSE
  <2>0. T \subseteq Nat
    OBVIOUS
  <2>1. PICK y \in T : \A m \in T : y <= m
    <3> HIDE DEF T
    <3> QED
      BY <2>0, <1>1, LeastElement
  <2>2. y \in x..Len(d) /\ d[y] # Padding /\ y # x
    BY <2>1
  <2>3. y - 1 \in x..Len(d) /\ ~(y <= y - 1)
    BY <2>2
  <2>4. y - 1 \notin T
    <3> HIDE DEF T
    <3> QED
      BY <2>1, <2>3
  <2>5. d[y - 1] = Padding
    BY <2>3, <2>4
  <2>6. Follows(d[y - 1], d[y])
    <3>1. y - 1 \in 1..(Len(d) - 1) /\ (y - 1) + 1 = y
      BY <2>2
    <3> QED
      BY <3>1 DEF Linked
  <2> QED
    BY <2>2, <2>5, <2>6, OtherBytes DEF Follows
<1> QED
  BY <1>1

\* A byte of the stream that is not padding belongs to a section that was sent.
LEMMA GenuineByte ==
  ASSUME NEW d \in Seq(Bytes), NEW s \in Seq(Sections), Genuine(d, s),
         NEW i \in 1..Len(d), d[i] # Padding
  PROVE  /\ d[i].id \in 1..Len(s) /\ d[i].id # 0 /\ d[i].sec = s[d[i].id]
         /\ d[i].sec \in Sections /\ d[i].sec.len \in 3..MaxSection
         /\ d[i].k \in 0..(d[i].sec.len - 1)
<1>1. d[i].id \in 1..Len(s) /\ d[i].sec = s[d[i].id] /\ d[i].k < d[i].sec.len
  BY DEF Genuine
<1>2. d[i] \in Bytes
  OBVIOUS
<1>3. d[i].k \in Nat
  BY <1>2 DEF Bytes
<1>4. d[i].sec \in Sections
  BY <1>1
<1>5. d[i].sec.len \in 3..MaxSection
  BY <1>4, SecLengths
<1> QED
  BY <1>1, <1>3, <1>4, <1>5, Sizes

\* Where a section may begin, a section or padding begins.
LEMMA AtBoundary ==
  ASSUME NEW d \in Seq(Bytes), NEW s \in Seq(Sections), NEW q \in 0..(Len(d) - 1),
         Aligned(d, q, s)
  PROVE  d[q + 1] = Padding \/ IsStart(d[q + 1])
<1>1. CASE q = 0
  BY <1>1, GenuineByte DEF Aligned, IsStart
<1>2. CASE q # 0
  <2>1. q \in 1..(Len(d) - 1)
    BY <1>2
  <2>2. IsEnd(d[q]) /\ Follows(d[q], d[q + 1])
    BY <1>2, <2>1 DEF Aligned, Linked
  <2>3. d[q] # Padding => d[q].k + 1 = d[q].sec.len /\ d[q].sec.len \in 3..MaxSection
    BY <2>1, <2>2, GenuineByte DEF IsEnd, Aligned
  <2>4. ~(d[q].id # 0 /\ d[q].k + 1 < d[q].sec.len)
    BY <2>3, OtherBytes
  <2> QED
    BY <2>2, <2>4 DEF Follows
<1> QED
  BY <1>1, <1>2

\* The header of a section gives its length.
LEMMA HeaderLength ==
  ASSUME NEW d \in Seq(Bytes), Linked(d), NEW q \in 0..(Len(d) - 1), q + 2 < Len(d),
         IsStart(d[q + 1])
  PROVE  section_length(d, q) = d[q + 1].sec.len
<1> DEFINE b == d[q + 1]
<1>1. b \in Bytes
  OBVIOUS
<1>2. b.sec \in Secs
  BY <1>1 DEF Bytes
<1>3. b.sec.len \in Nat /\ b.sec.len >= 3
  BY <1>2, SecLengths, Sizes
<1>4. /\ q + 1 \in 1..Len(d) /\ q + 1 + 1 = q + 2 /\ q + 1 + 2 = q + 3
      /\ q + 2 <= Len(d) /\ q + 3 <= Len(d)
  OBVIOUS
<1>5. 1 \in 0..(b.sec.len - 1) /\ 2 \in 0..(b.sec.len - 1)
  BY <1>3
<1>6. d[q + 2] = Byte(b.id, 1, b.sec) /\ d[q + 3] = Byte(b.id, 2, b.sec)
  BY <1>4, <1>5, SectionContents
<1> HIDE DEF b
<1> QED
  BY <1>6 DEF section_length, Byte, b

\* What the loop hands over from an aligned buffer is a whole section, and what
\* follows is aligned again.
LEMMA CompleteIsWhole ==
  ASSUME NEW d \in Seq(Bytes), NEW s \in Seq(Sections), NEW q \in 0..Len(d),
         Aligned(d, q, s), Complete(d, q)
  PROVE  /\ IsStart(d[q + 1]) /\ Whole(Cut(d, q)) /\ Aligned(d, End(d, q), s)
         /\ End(d, q) = q + d[q + 1].sec.len
<1>0. /\ q \in 0..(Len(d) - 1) /\ q + 2 < Len(d) /\ q + 1 \in 1..Len(d)
      /\ q + 2 \in (q + 1)..Len(d) /\ q + 3 \in (q + 1)..Len(d)
  BY DEF Complete
<1>1. IsStart(d[q + 1])
  <2> SUFFICES ASSUME d[q + 1] = Padding PROVE FALSE
    BY <1>0, AtBoundary
  <2>1. d[q + 2] = Padding /\ d[q + 3] = Padding
    BY <1>0, PaddingStays DEF Aligned
  <2>2. section_length(d, q) = MaxSection + 2
    BY <2>1, OtherBytes DEF section_length
  <2> QED
    BY <2>2, Sizes DEF Complete
<1> DEFINE b == d[q + 1]
           n == b.sec.len
<1>2. section_length(d, q) = n
  BY <1>0, <1>1, HeaderLength DEF Aligned
<1>3. b \in Bytes /\ b # Padding /\ b.id # 0 /\ n \in 3..MaxSection
  BY <1>0, <1>1, OtherBytes, GenuineByte DEF IsStart, Aligned
<1>4. /\ End(d, q) = q + n /\ Len(Cut(d, q)) = n /\ q + n <= Len(d)
      /\ \A i \in 1..n : Cut(d, q)[i] = d[q + i]
  BY <1>2, CutIs DEF End
<1>5. ASSUME NEW i \in 1..n PROVE d[q + i] = Byte(b.id, i - 1, b.sec)
  <2>0. n \in Nat /\ q \in Nat /\ Len(d) \in Nat /\ q + n <= Len(d) /\ i \in 1..n
    BY <1>3, <1>4, Sizes
  <2>1. i - 1 \in 0..(n - 1) /\ q + 1 + (i - 1) = q + i /\ q + i <= Len(d)
    <3> HIDE DEF n
    <3> QED
      BY <2>0
  <2> QED
    BY <2>1, <1>0, <1>1, SectionContents DEF Aligned
<1>6. Whole(Cut(d, q))
  <2>1. Cut(d, q)[1] = b /\ 1 \in 1..n
    BY <1>3, <1>4
  <2>2. \A i \in 1..n : Cut(d, q)[i].id = b.id /\ Cut(d, q)[i].k = i - 1
    <3> TAKE i \in 1..n
    <3>1. Cut(d, q)[i] = Byte(b.id, i - 1, b.sec)
      BY <1>4, <1>5
    <3> QED
      BY <3>1 DEF Byte
  <2> HIDE DEF b, n
  <2> QED
    BY <2>1, <2>2, <1>3, <1>4 DEF Whole, n
<1>7. IsEnd(d[q + n])
  <2>1. n \in 1..n /\ n - 1 + 1 = n
    BY <1>3
  <2>2. d[q + n] = Byte(b.id, n - 1, b.sec)
    BY <2>1, <1>5
  <2> HIDE DEF b
  <2> QED
    BY <2>1, <2>2, <1>3 DEF IsEnd, Byte
<1> QED
  BY <1>1, <1>4, <1>6, <1>7 DEF Aligned

\* A section that is in the buffer as a whole is handed over when the loop is there.
LEMMA WholeIsComplete ==
  ASSUME NEW d \in Seq(Bytes), NEW s \in Seq(Sections), NEW q \in 0..(Len(d) - 1),
         Aligned(d, q, s), IsStart(d[q + 1]), q + d[q + 1].sec.len <= Len(d)
  PROVE  Complete(d, q)
<1>1. d[q + 1].sec.len \in 3..MaxSection
  BY OtherBytes, GenuineByte DEF Aligned, IsStart
<1>2. q + 2 < Len(d)
  BY <1>1
<1>3. section_length(d, q) = d[q + 1].sec.len
  BY <1>2, HeaderLength DEF Aligned
<1> QED
  BY <1>1, <1>2, <1>3, Sizes DEF Complete

\* Bytes of the stream belong to sections sent so far.
LEMMA GenuineIds ==
  ASSUME NEW d \in Seq(Bytes), NEW s \in Seq(Sections), Genuine(d, s)
  PROVE  Len(s) \in Nat /\ \A i \in 1..Len(d) : d[i].id <= Len(s)
<1>1. ASSUME NEW i \in 1..Len(d) PROVE d[i].id <= Len(s)
  <2>1. CASE d[i] = Padding
    BY <2>1, OtherBytes
  <2>2. CASE d[i] # Padding
    BY <2>2, GenuineByte
  <2> QED
    BY <2>1, <2>2
<1> QED
  BY <1>1

\* From an aligned buffer only whole sections are handed over, and the loop stops
\* where a section or padding begins.
LEMMA DumpAligned ==
  ASSUME NEW d \in Seq(Bytes), NEW s \in Seq(Sections), NEW p \in 0..Len(d),
         NEW t \in BOOLEAN, check_crc \in BOOLEAN, section_filter \subseteq Filters,
         Aligned(d, p, s)
  PROVE  LET r == Dump(d, p, t)
         IN /\ Aligned(d, r.secbufp, s)
            /\ \A i \in 1..Len(r.found) : r.found[i].id # 0
<1> DEFINE Good(r) == /\ Aligned(d, r.secbufp, s)
                      /\ \A i \in 1..Len(r.found) : r.found[i].id # 0
           G == {q \in 0..Len(d) : Aligned(d, q, s) => Good(Dump(d, q, t))}
<1>0. \A q \in 0..Len(d) : Dump(d, q, t) \in Dumped
  <2>1. Len(s) \in Nat /\ \A i \in 1..Len(d) : d[i].id <= Len(s)
    BY GenuineIds DEF Aligned
  <2> QED
    BY <2>1, DumpTyped
<1>1. ASSUME NEW q \in 0..Len(d), ~Complete(d, q) PROVE q \in G
  <2>1. Dump(d, q, t) = [secbufp |-> q, found |-> <<>>]
    BY <1>1, DumpStep
  <2> QED
    BY <2>1
<1>2. ASSUME NEW q \in 0..Len(d), Complete(d, q), End(d, q) \in G PROVE q \in G
  <2> DEFINE r == Dump(d, q, t)
             u == Dump(d, End(d, q), t)
  <2> SUFFICES ASSUME Aligned(d, q, s) PROVE Good(r)
    OBVIOUS
  <2>1. /\ IsStart(d[q + 1]) /\ Whole(Cut(d, q)) /\ Aligned(d, End(d, q), s)
        /\ End(d, q) \in 0..Len(d)
    BY <1>2, CompleteIsWhole
  <2>2. Good(u) /\ u \in Dumped
    BY <2>1, <1>0, <1>2
  <2>3. u.found \in Seq(Given) /\ Len(u.found) \in Nat
    BY <2>2 DEF Dumped
  <2>4. CASE r.secbufp = u.secbufp /\ r.found = u.found
    <3> HIDE DEF r, u
    <3> QED
      BY <2>2, <2>4
  <2>5. CASE /\ r.secbufp = u.secbufp
             /\ Len(r.found) = Len(u.found) + 1
             /\ \A i \in 1..Len(u.found) : r.found[i + 1] = u.found[i]
             /\ r.found[1].id = d[q + 1].id
    <3> HIDE DEF r, u
    <3>1. ASSUME NEW i \in 1..Len(r.found) PROVE r.found[i].id # 0
      <4>1. CASE i = 1
        BY <4>1, <2>1, <2>5 DEF IsStart
      <4>2. CASE i # 1
        <5>1. i - 1 \in 1..Len(u.found) /\ r.found[(i - 1) + 1] = u.found[i - 1]
              /\ (i - 1) + 1 = i
          BY <4>2, <2>3, <2>5
        <5> QED
          BY <5>1, <2>2
      <4> QED
        BY <4>1, <4>2
    <3> QED
      BY <3>1, <2>2, <2>5
  <2> QED
    BY <2>1, <2>2, <2>4, <2>5, <1>2, DumpTurn
<1>3. \A q \in 0..Len(d) : (Complete(d, q) => End(d, q) \in G) => q \in G
  <2> HIDE DEF G
  <2> QED
    BY <1>1, <1>2
<1>4. p \in G
  <2> HIDE DEF G
  <2> QED
    BY <1>3, LoopInduction
<1> QED
  BY <1>4

\* The loop hands over every section that begins at or after its place and is in
\* the buffer as a whole.
LEMMA DumpDelivers ==
  ASSUME NEW d \in Seq(Bytes), NEW s \in Seq(Sections), NEW p \in 0..Len(d),
         NEW t \in BOOLEAN, check_crc \in BOOLEAN, section_filter \subseteq Filters,
         Aligned(d, p, s), NEW y \in p..(Len(d) - 1),
         IsStart(d[y + 1]), y + d[y + 1].sec.len <= Len(d)
  PROVE  GivenOut(Dump(d, p, t).found, d[y + 1].id, d[y + 1].sec.table)
<1> DEFINE Good(l) == GivenOut(l, d[y + 1].id, d[y + 1].sec.table)
           G == {q \in 0..Len(d) : Aligned(d, q, s) /\ q <= y => Good(Dump(d, q, t).found)}
<1>0. \A q \in 0..Len(d) : Dump(d, q, t) \in Dumped
  <2>1. Len(s) \in Nat /\ \A i \in 1..Len(d) : d[i].id <= Len(s)
    BY GenuineIds DEF Aligned
  <2> QED
    BY <2>1, DumpTyped
<1>a. y \in 0..(Len(d) - 1) /\ y + 1 \in 1..Len(d) /\ p \in Nat
  OBVIOUS
<1>1. ASSUME NEW q \in 0..Len(d), Aligned(d, q, s), q <= y
      PROVE  /\ Complete(d, q)
             /\ q # y => End(d, q) <= y
  <2>0. q \in 0..(Len(d) - 1) /\ q + 1 \in 1..Len(d)
    BY <1>1, <1>a
  <2>1. CASE q = y
    BY <2>1, <2>0, <1>1, WholeIsComplete
  <2>2. CASE q # y
    <3>1. IsStart(d[q + 1])
      <4> SUFFICES ASSUME d[q + 1] = Padding PROVE FALSE
        BY <2>0, <1>1, AtBoundary
      <4>1. y + 1 \in (q + 1)..Len(d)
        BY <1>1, <1>a
      <4>2. d[y + 1] = Padding
        BY <4>1, <2>0, PaddingStays DEF Aligned
      <4> QED
        BY <4>2, OtherBytes DEF IsStart
    <3> DEFINE n == d[q + 1].sec.len
    <3>2. n \in 3..MaxSection
      BY <3>1, <2>0, OtherBytes, GenuineByte DEF Aligned, IsStart
    <3>3. q + n <= y
      <4> SUFFICES ASSUME q + n > y PROVE FALSE
        BY SMTT(30), <3>2, <1>a
      <4>1. y - q \in 0..(n - 1) /\ y - q # 0 /\ (q + 1) + (y - q) = y + 1
            /\ (q + 1) + (y - q) <= Len(d)
        <5>1. n \in Nat /\ q \in Nat /\ y \in Nat /\ Len(d) \in Nat /\ y + 1 <= Len(d)
          BY SMTT(30), <3>2, <1>a, Sizes
        <5> HIDE DEF n
        <5> QED
          BY <5>1, <2>2, <1>1
      <4>2. d[y + 1] = Byte(d[q + 1].id, y - q, d[q + 1].sec)
        BY <4>1, <3>1, <2>0, SectionContents DEF Aligned
      <4> QED
        BY <4>1, <4>2 DEF IsStart, Byte
    <3>4. q + n <= Len(d)
      BY <3>2, <3>3, <1>a
    <3>5. Complete(d, q)
      BY <3>1, <3>4, <2>0, <1>1, WholeIsComplete
    <3> QED
      BY <3>3, <3>5, <1>1, CompleteIsWhole
  <2> QED
    BY <2>1, <2>2
<1>2. ASSUME NEW q \in 0..Len(d), Complete(d, q) => End(d, q) \in G PROVE q \in G
  <2> DEFINE r == Dump(d, q, t)
             u == Dump(d, End(d, q), t)
  <2> SUFFICES ASSUME Aligned(d, q, s), q <= y PROVE Good(r.found)
    OBVIOUS
  <2>1. Complete(d, q) /\ (q # y => End(d, q) <= y) /\ End(d, q) \in G
    BY <1>1, <1>2
  <2>2. /\ IsStart(d[q + 1]) /\ Whole(Cut(d, q)) /\ Aligned(d, End(d, q), s)
        /\ End(d, q) \in 0..Len(d)
    BY <2>1, CompleteIsWhole
  <2>3. u \in Dumped /\ (q # y => Good(u.found))
    BY <2>1, <2>2, <1>0
  <2>4. u.found \in Seq(Given) /\ Len(u.found) \in Nat
    BY <2>3 DEF Dumped
  <2>5. CASE /\ r.found = u.found
             /\ \A x \in section_filter : d[q + 1].sec.table \notin x
    <3> HIDE DEF r, u
    <3>1. CASE q # y
      BY <3>1, <2>3, <2>5
    <3>2. CASE q = y
      BY <3>2, <2>5 DEF GivenOut
    <3> QED
      BY <3>1, <3>2
  <2>6. CASE /\ Len(r.found) = Len(u.found) + 1
             /\ \A i \in 1..Len(u.found) : r.found[i + 1] = u.found[i]
             /\ r.found[1].id = d[q + 1].id
             /\ \A x \in section_filter : d[q + 1].sec.table \in x => x \in r.found[1].to
    <3> HIDE DEF r, u
    <3>1. CASE q = y
      <4>1. 1 \in 1..Len(r.found)
        BY <2>4, <2>6
      <4> QED
        BY <4>1, <3>1, <2>6 DEF GivenOut
    <3>2. CASE q # y
      <4> SUFFICES ASSUME NEW x \in section_filter, d[y + 1].sec.table \in x
                   PROVE  \E i \in 1..Len(r.found) :
                            r.found[i].id = d[y + 1].id /\ x \in r.found[i].to
        BY DEF GivenOut
      <4>1. PICK i \in 1..Len(u.found) : u.found[i].id = d[y + 1].id /\ x \in u.found[i].to
        BY <3>2, <2>3 DEF GivenOut
      <4>2. i + 1 \in 1..Len(r.found) /\ r.found[i + 1] = u.found[i]
        BY <2>4, <2>6
      <4> QED
        BY <4>1, <4>2
    <3> QED
      BY <3>1, <3>2
  <2> QED
    BY <2>1, <2>2, <2>3, <2>5, <2>6, DumpTurn
<1>3. \A q \in 0..Len(d) : (Complete(d, q) => End(d, q) \in G) => q \in G
  <2> HIDE DEF G
  <2> QED
    BY <1>2
<1>4. p \in G
  <2> HIDE DEF G
  <2> QED
    BY <1>3, LoopInduction
<1> QED
  BY <1>4

-----------------------------------------------------------------------------
(***************************************************************************)
(* section_copy_dump.                                                      *)
(***************************************************************************)
\* The type of what the operations on the feed set.
ParamsOK == check_crc \in BOOLEAN /\ section_filter \subseteq Filters

\* d is b with the first m of the bytes c behind it.
Joined(b, c, m, d) ==
  /\ d \in Seq(Bytes) /\ Len(d) = Len(b) + m
  /\ \A i \in 1..Len(b) : d[i] = b[i]
  /\ \A i \in 1..m : d[Len(b) + i] = c[i]

\* The buffer does not change because there is nothing to add or no room, or m bytes
\* are added and the loop runs; m is less than all only if the buffer is full then.
LEMMA CopyShape ==
  ASSUME NEW n \in Nat, NEW f, Typed(f, n), NEW c \in Seq(Bytes)
  PROVE  \/ /\ copy_dump(f, c) = f
            /\ Len(c) = 0 \/ Len(f.secbuf_base) = DMX_MAX_SECFEED_SIZE
         \/ \E m \in 1..Len(c), d \in Seq(Bytes) :
              /\ Joined(f.secbuf_base, c, m, d) /\ Len(d) <= DMX_MAX_SECFEED_SIZE
              /\ m = Len(c) \/ Len(d) = DMX_MAX_SECFEED_SIZE
              /\ copy_dump(f, c) =
                   [f EXCEPT !.secbuf_base = d,
                             !.secbufp = Dump(d, f.secbufp, f.tainted).secbufp,
                             !.out = IF f.pusi_seen
                                     THEN @ \o Dump(d, f.secbufp, f.tainted).found
                                     ELSE @]
<1> DEFINE b == f.secbuf_base
           m == Least(Len(c), Room(f))
           d == b \o SubSeq(c, 1, m)
<1>1. b \in Seq(Bytes) /\ Len(b) \in Nat /\ Len(b) <= DMX_MAX_SECFEED_SIZE
  BY DEF Typed, FeedRec
<1>2. /\ Room(f) \in Nat /\ Len(b) + Room(f) = DMX_MAX_SECFEED_SIZE
      /\ m \in 0..Len(c) /\ m <= Room(f) /\ (m = Len(c) \/ m = Room(f))
  <2>1. Room(f) = DMX_MAX_SECFEED_SIZE - Len(b)
    BY DEF Room
  <2>2. Room(f) \in Nat /\ Len(b) + Room(f) = DMX_MAX_SECFEED_SIZE
    <3> HIDE DEF b
    <3> QED
      BY <2>1, <1>1, Sizes
  <2>3. Len(c) \in Nat
    OBVIOUS
  <2>4. m \in 0..Len(c) /\ m <= Room(f) /\ (m = Len(c) \/ m = Room(f))
    BY <2>2, <2>3 DEF Least
  <2> QED
    BY <2>2, <2>4
<1>3. CASE m = 0
  <2>1. copy_dump(f, c) = f
    BY <1>3 DEF copy_dump
  <2>2. Len(c) = 0 \/ Len(b) = DMX_MAX_SECFEED_SIZE
    <3> HIDE DEF b, m
    <3> QED
      BY <1>1, <1>2, <1>3
  <2> QED
    BY <2>1, <2>2
<1>4. CASE m # 0
  <2>1. m \in 1..Len(c)
    BY <1>2, <1>4
  <2> DEFINE u == SubSeq(c, 1, m)
  <2>2. u \in Seq(Bytes) /\ Len(u) = m /\ \A i \in 1..m : u[i] = c[i]
    <3>1. \A i \in 1..m : c[i] \in Bytes
      BY <2>1
    <3> HIDE DEF m
    <3> QED
      BY <2>1, <3>1, SubSeqProperties
  <2>3. Joined(b, c, m, d)
    <3> HIDE DEF u, b, m
    <3>1. /\ b \o u \in Seq(Bytes) /\ Len(b \o u) = Len(b) + m
          /\ \A i \in 1..(Len(b) + m) :
               (b \o u)[i] = IF i <= Len(b) THEN b[i] ELSE u[i - Len(b)]
      BY <1>1, <2>2, ConcatProperties
    <3>2. \A i \in 1..Len(b) : (b \o u)[i] = b[i]
      BY <3>1, <1>1, <2>1
    <3>3. \A i \in 1..m : (b \o u)[Len(b) + i] = u[i]
      BY <3>1, <1>1, <2>1
    <3> QED
      BY <3>1, <3>2, <3>3, <2>2 DEF Joined, u
  <2>4. d \in Seq(Bytes) /\ Len(d) <= DMX_MAX_SECFEED_SIZE
        /\ (m = Len(c) \/ Len(d) = DMX_MAX_SECFEED_SIZE)
    <3> HIDE DEF d, m, b
    <3>1. d \in Seq(Bytes) /\ Len(d) = Len(b) + m
      BY <2>3 DEF Joined
    <3>2. Len(b) \in Nat /\ m \in Nat /\ Room(f) \in Nat
      BY <1>1, <1>2
    <3> QED
      BY <3>1, <3>2, <1>2
  <2>5. copy_dump(f, c) =
                   [f EXCEPT !.secbuf_base = d,
                             !.secbufp = Dump(d, f.secbufp, f.tainted).secbufp,
                             !.out = IF f.pusi_seen
                                     THEN @ \o Dump(d, f.secbufp, f.tainted).found
                                     ELSE @]
    BY <1>2, <1>4 DEF copy_dump
  <2> HIDE DEF d, m
  <2> QED
    BY <2>1, <2>3, <2>4, <2>5
<1> QED
  BY <1>3, <1>4

\* g is f after c was copied and the loop has found r in the buffer d.
Copied(f, c, m, d, r, g) ==
  /\ m \in 1..Len(c) /\ Joined(f.secbuf_base, c, m, d) /\ Len(d) <= DMX_MAX_SECFEED_SIZE
  /\ m = Len(c) \/ Len(d) = DMX_MAX_SECFEED_SIZE
  /\ r = Dump(d, f.secbufp, f.tainted) /\ r \in Dumped /\ r.secbufp \in f.secbufp..Len(d)
  /\ g.secbuf_base = d /\ g.secbufp = r.secbufp
  /\ g.out = IF f.pusi_seen THEN f.out \o r.found ELSE f.out

\* The buffer after a copy holds bytes of sections sent so far.
LEMMA JoinedIds ==
  ASSUME NEW n \in Nat, NEW b \in Seq(Bytes), \A i \in 1..Len(b) : b[i].id <= n,
         NEW c \in Seq(Bytes), \A i \in 1..Len(c) : c[i].id <= n,
         NEW m \in 1..Len(c), NEW d, Joined(b, c, m, d)
  PROVE  \A i \in 1..Len(d) : d[i].id <= n
<1> SUFFICES ASSUME NEW i \in 1..Len(d) PROVE d[i].id <= n
  OBVIOUS
<1>1. CASE i <= Len(b)
  <2>1. i \in 1..Len(b)
    BY <1>1
  <2> QED
    BY <2>1 DEF Joined
<1>2. CASE i > Len(b)
  <2>1. i - Len(b) \in 1..m /\ Len(b) + (i - Len(b)) = i /\ i - Len(b) \in 1..Len(c)
    BY <1>2 DEF Joined
  <2>2. d[i] = c[i - Len(b)]
    BY <2>1 DEF Joined
  <2> QED
    BY <2>1, <2>2
<1> QED
  BY <1>1, <1>2

\* What section_copy_dump leaves alone, and how it fills the buffer.
LEMMA CopyFields ==
  ASSUME NEW n \in Nat, NEW f, Typed(f, n), ParamsOK,
         NEW c \in Seq(Bytes), \A i \in 1..Len(c) : c[i].id <= n
  PROVE  LET g == copy_dump(f, c)
         IN /\ Typed(g, n)
            /\ g.cc = f.cc /\ g.pusi_seen = f.pusi_seen /\ g.tainted = f.tainted
            /\ \/ g = f /\ (Len(c) = 0 \/ Len(f.secbuf_base) = DMX_MAX_SECFEED_SIZE)
               \/ \E m, d, r : Copied(f, c, m, d, r, g)
<1> DEFINE g == copy_dump(f, c)
<1>1. CASE /\ g = f
           /\ Len(c) = 0 \/ Len(f.secbuf_base) = DMX_MAX_SECFEED_SIZE
  <2> HIDE DEF g
  <2>1. Typed(g, n) /\ g.cc = f.cc /\ g.pusi_seen = f.pusi_seen /\ g.tainted = f.tainted
    BY <1>1
  <2> QED
    BY <2>1, <1>1 DEF g
<1>2. ASSUME NEW m \in 1..Len(c), NEW d \in Seq(Bytes),
             Joined(f.secbuf_base, c, m, d), Len(d) <= DMX_MAX_SECFEED_SIZE,
             m = Len(c) \/ Len(d) = DMX_MAX_SECFEED_SIZE,
             g = [f EXCEPT !.secbuf_base = d,
                           !.secbufp = Dump(d, f.secbufp, f.tainted).secbufp,
                           !.out = IF f.pusi_seen
                                   THEN @ \o Dump(d, f.secbufp, f.tainted).found
                                   ELSE @]
      PROVE  /\ Typed(g, n)
             /\ g.cc = f.cc /\ g.pusi_seen = f.pusi_seen /\ g.tainted = f.tainted
             /\ Copied(f, c, m, d, Dump(d, f.secbufp, f.tainted), g)
  <2> DEFINE r == Dump(d, f.secbufp, f.tainted)
             b == f.secbuf_base
  <2>1. /\ b \in Seq(Bytes) /\ f.secbufp \in 0..Len(b) /\ f.tainted \in BOOLEAN
        /\ \A i \in 1..Len(b) : b[i].id <= n
        /\ f.out \in Seq(Given) /\ f.pusi_seen \in BOOLEAN /\ f \in FeedRec
        /\ \A i \in 1..Len(f.out) : f.out[i].id <= n
    BY DEF Typed, FeedRec
  <2>2. \A i \in 1..Len(d) : d[i].id <= n
    BY <1>2, <2>1, JoinedIds
  <2>3. f.secbufp \in 0..Len(d)
    BY <2>1, <1>2 DEF Joined
  <2>4. /\ r \in Dumped /\ r.secbufp \in f.secbufp..Len(d)
        /\ \A i \in 1..Len(r.found) : r.found[i].id <= n
    BY <2>1, <2>2, <2>3, DumpTyped DEF ParamsOK, Found
  <2>5. r.found \in Seq(Given) /\ r.secbufp \in Nat
    BY <2>4 DEF Dumped
  <2> DEFINE o == IF f.pusi_seen THEN f.out \o r.found ELSE f.out
  <2>6. o \in Seq(Given) /\ \A i \in 1..Len(o) : o[i].id <= n
    <3> HIDE DEF r
    <3>1. CASE ~f.pusi_seen
      BY <3>1, <2>1
    <3>2. CASE f.pusi_seen
      <4> DEFINE u == f.out
                 v == r.found
      <4>0. u \in Seq(Given) /\ v \in Seq(Given) /\ Len(u) \in Nat /\ Len(v) \in Nat
        BY <2>1, <2>5
      <4>1. /\ o = u \o v
            /\ \A i \in 1..Len(u) : u[i].id <= n
            /\ \A i \in 1..Len(v) : v[i].id <= n
        BY <3>2, <2>1, <2>4
      <4> HIDE DEF u, v, o
      <4>2. /\ o \in Seq(Given) /\ Len(o) = Len(u) + Len(v)
            /\ \A i \in 1..(Len(u) + Len(v)) : o[i] = IF i <= Len(u) THEN u[i] ELSE v[i - Len(u)]
        BY <4>0, <4>1, ConcatProperties
      <4>3. ASSUME NEW i \in 1..Len(o) PROVE o[i].id <= n
        <5>1. CASE i <= Len(u)
          BY <5>1, <4>0, <4>1, <4>2
        <5>2. CASE ~(i <= Len(u))
          <6>1. i - Len(u) \in 1..Len(v) /\ o[i] = v[i - Len(u)]
            BY <5>2, <4>0, <4>2
          <6> QED
            BY <6>1, <4>1
        <5> QED
          BY <5>1, <5>2
      <4> QED
        BY <4>2, <4>3
    <3> QED
      BY <3>1, <3>2, <2>1
  <2>7. g = [f EXCEPT !.secbuf_base = d, !.secbufp = r.secbufp, !.out = o]
    BY <1>2
  <2> HIDE DEF g, r, o
  <2>8. /\ g \in FeedRec /\ g.secbuf_base = d /\ g.secbufp = r.secbufp /\ g.out = o
        /\ g.cc = f.cc /\ g.pusi_seen = f.pusi_seen /\ g.tainted = f.tainted
    BY <2>1, <2>5, <2>6, <2>7 DEF FeedRec
  <2>9. Typed(g, n)
    BY <2>2, <2>4, <2>6, <2>8, <1>2 DEF Typed
  <2> QED
    BY <2>4, <2>8, <2>9, <1>2 DEF Copied, r, o
<1>3. \/ /\ g = f
         /\ Len(c) = 0 \/ Len(f.secbuf_base) = DMX_MAX_SECFEED_SIZE
      \/ \E m \in 1..Len(c), d \in Seq(Bytes) :
              /\ Joined(f.secbuf_base, c, m, d) /\ Len(d) <= DMX_MAX_SECFEED_SIZE
              /\ m = Len(c) \/ Len(d) = DMX_MAX_SECFEED_SIZE
              /\ g = [f EXCEPT !.secbuf_base = d,
                             !.secbufp = Dump(d, f.secbufp, f.tainted).secbufp,
                             !.out = IF f.pusi_seen
                                     THEN @ \o Dump(d, f.secbufp, f.tainted).found
                                     ELSE @]
  BY CopyShape
<1> HIDE DEF g
<1>4. ASSUME NEW m \in 1..Len(c), NEW d \in Seq(Bytes),
             Joined(f.secbuf_base, c, m, d), Len(d) <= DMX_MAX_SECFEED_SIZE,
             m = Len(c) \/ Len(d) = DMX_MAX_SECFEED_SIZE,
             g = [f EXCEPT !.secbuf_base = d,
                           !.secbufp = Dump(d, f.secbufp, f.tainted).secbufp,
                           !.out = IF f.pusi_seen
                                   THEN @ \o Dump(d, f.secbufp, f.tainted).found
                                   ELSE @]
      PROVE  /\ Typed(g, n)
             /\ g.cc = f.cc /\ g.pusi_seen = f.pusi_seen /\ g.tainted = f.tainted
             /\ \E mm, dd, rr : Copied(f, c, mm, dd, rr, g)
  <2>1. /\ Typed(g, n)
        /\ g.cc = f.cc /\ g.pusi_seen = f.pusi_seen /\ g.tainted = f.tainted
        /\ Copied(f, c, m, d, Dump(d, f.secbufp, f.tainted), g)
    BY <1>4, <1>2
  <2> QED
    BY <2>1
<1> QED
  BY <1>1, <1>3, <1>4 DEF g

\* What was given out stays, and what the loop found comes behind it.
LEMMA CopiedOut ==
  ASSUME NEW n \in Nat, NEW f, Typed(f, n), NEW c, NEW m, NEW d, NEW r, NEW g,
         Copied(f, c, m, d, r, g)
  PROVE  /\ Len(f.out) \in Nat /\ Len(g.out) \in Nat /\ Len(f.out) <= Len(g.out)
         /\ \A i \in 1..Len(f.out) : i \in 1..Len(g.out) /\ g.out[i] = f.out[i]
         /\ \A i \in 1..Len(g.out) : i > Len(f.out) =>
              /\ f.pusi_seen /\ i - Len(f.out) \in 1..Len(r.found)
              /\ g.out[i] = r.found[i - Len(f.out)]
         /\ f.pusi_seen => \A i \in 1..Len(r.found) :
              Len(f.out) + i \in 1..Len(g.out) /\ g.out[Len(f.out) + i] = r.found[i]
<1> DEFINE u == f.out
           v == r.found
           o == g.out
<1>1. u \in Seq(Given) /\ v \in Seq(Given) /\ f.pusi_seen \in BOOLEAN
  BY DEF Typed, FeedRec, Copied, Dumped
<1>2. o = IF f.pusi_seen THEN u \o v ELSE u
  BY DEF Copied
<1> HIDE DEF u, v, o
<1>3. Len(u) \in Nat /\ Len(v) \in Nat
  BY <1>1
<1>4. CASE ~f.pusi_seen
  <2>1. o = u
    BY <1>2, <1>4
  <2> QED
    BY <2>1, <1>3, <1>4 DEF u, v, o
<1>5. CASE f.pusi_seen
  <2>1. /\ Len(o) = Len(u) + Len(v)
        /\ \A i \in 1..(Len(u) + Len(v)) : o[i] = IF i <= Len(u) THEN u[i] ELSE v[i - Len(u)]
    BY <1>1, <1>2, <1>5, ConcatProperties
  <2>2. Len(u) <= Len(o) /\ Len(o) \in Nat
    BY <2>1, <1>3
  <2>3. \A i \in 1..Len(u) : i \in 1..Len(o) /\ o[i] = u[i]
    BY <2>1, <1>3
  <2>4. \A i \in 1..Len(o) : i > Len(u) => i - Len(u) \in 1..Len(v) /\ o[i] = v[i - Len(u)]
    BY <2>1, <1>3
  <2>5. \A i \in 1..Len(v) : Len(u) + i \in 1..Len(o) /\ o[Len(u) + i] = v[i]
    <3> SUFFICES ASSUME NEW i \in 1..Len(v)
                 PROVE  Len(u) + i \in 1..Len(o) /\ o[Len(u) + i] = v[i]
      OBVIOUS
    <3>1. /\ Len(u) + i \in 1..(Len(u) + Len(v)) /\ ~(Len(u) + i <= Len(u))
          /\ (Len(u) + i) - Len(u) = i
      BY <1>3
    <3> QED
      BY <2>1, <3>1
  <2> QED
    BY <2>2, <2>3, <2>4, <2>5, <1>3, <1>5 DEF u, v, o
<1> QED
  BY <1>1, <1>4, <1>5

\* l continues what was given out before.
Extends(l, k) == Len(k) <= Len(l) /\ \A i \in 1..Len(k) : i \in 1..Len(l) /\ l[i] = k[i]

\* section_copy_dump takes nothing back.
LEMMA CopyExtends ==
  ASSUME NEW n \in Nat, NEW f, Typed(f, n), ParamsOK,
         NEW c \in Seq(Bytes), \A i \in 1..Len(c) : c[i].id <= n
  PROVE  Extends(copy_dump(f, c).out, f.out)
<1> DEFINE g == copy_dump(f, c)
<1>1. \/ g = f
      \/ \E m, d, r : Copied(f, c, m, d, r, g)
  BY CopyFields
<1> HIDE DEF g
<1>2. f.out \in Seq(Given)
  BY DEF Typed, FeedRec
<1>3. CASE g = f
  <2>1. g.out = f.out /\ Len(f.out) \in Nat
    BY <1>2, <1>3
  <2> QED
    BY <2>1 DEF Extends, g
<1>4. ASSUME NEW m, NEW d, NEW r, Copied(f, c, m, d, r, g) PROVE Extends(g.out, f.out)
  BY <1>4, CopiedOut DEF Extends
<1> QED
  BY <1>1, <1>3, <1>4 DEF g

\* What was given out stays given out.
LEMMA GivenStays ==
  ASSUME NEW l, NEW k, Extends(l, k), NEW id, NEW table, GivenOut(k, id, table)
  PROVE  GivenOut(l, id, table)
<1> SUFFICES ASSUME NEW x \in section_filter, table \in x
             PROVE  \E i \in 1..Len(l) : l[i].id = id /\ x \in l[i].to
  BY DEF GivenOut
<1>1. PICK i \in 1..Len(k) : k[i].id = id /\ x \in k[i].to
  BY DEF GivenOut
<1> QED
  BY <1>1 DEF Extends

\* Before the first section start, and after damage, nothing is handed over that
\* the property excludes.
LEMMA CopyTainted ==
  ASSUME NEW n \in Nat, NEW f, Typed(f, n), ParamsOK,
         NEW c \in Seq(Bytes), \A i \in 1..Len(c) : c[i].id <= n,
         ~f.pusi_seen \/ f.tainted, OnlyWhole(f.out)
  PROVE  OnlyWhole(copy_dump(f, c).out)
<1> DEFINE g == copy_dump(f, c)
<1>1. g = f \/ \E m, d, r : Copied(f, c, m, d, r, g)
  BY CopyFields
<1> HIDE DEF g
<1>2. ASSUME NEW m, NEW d, NEW r, Copied(f, c, m, d, r, g) PROVE OnlyWhole(g.out)
  <2> SUFFICES ASSUME NEW i \in 1..Len(g.out), g.out[i].id = 0
               PROVE  g.out[i].tainted /\ ~g.out[i].checked
    BY DEF OnlyWhole
  <2>0. Len(f.out) \in Nat
    BY <1>2, CopiedOut
  <2>1. CASE i <= Len(f.out)
    <3>1. i \in 1..Len(f.out)
      BY <2>1, <2>0
    <3>2. g.out[i] = f.out[i]
      BY <3>1, <1>2, CopiedOut
    <3> QED
      BY <3>1, <3>2 DEF OnlyWhole
  <2>2. CASE i > Len(f.out)
    <3> DEFINE j == i - Len(f.out)
    <3>1. f.pusi_seen /\ j \in 1..Len(r.found) /\ g.out[i] = r.found[j]
      BY <2>2, <1>2, CopiedOut
    <3>2. /\ f.secbuf_base \in Seq(Bytes) /\ f.secbufp \in 0..Len(f.secbuf_base)
          /\ f.tainted \in BOOLEAN
          /\ \A l \in 1..Len(f.secbuf_base) : f.secbuf_base[l].id <= n
      BY DEF Typed, FeedRec
    <3>3. /\ d \in Seq(Bytes) /\ f.secbufp \in 0..Len(d)
          /\ \A l \in 1..Len(d) : d[l].id <= n
      <4>1. m \in 1..Len(c) /\ Joined(f.secbuf_base, c, m, d)
        BY <1>2 DEF Copied
      <4>2. d \in Seq(Bytes) /\ f.secbufp \in 0..Len(d)
        BY <4>1, <3>2 DEF Joined
      <4>3. \A l \in 1..Len(d) : d[l].id <= n
        BY <4>1, <3>2, JoinedIds
      <4> QED
        BY <4>2, <4>3
    <3>4. \A l \in 1..Len(r.found) : r.found[l].tainted = f.tainted
                                     /\ (r.found[l].id = 0 => ~r.found[l].checked)
      <4>1. Found(Dump(d, f.secbufp, f.tainted).found, n, f.tainted)
        BY <3>2, <3>3, DumpTyped DEF ParamsOK
      <4>2. r = Dump(d, f.secbufp, f.tainted)
        BY <1>2 DEF Copied
      <4> QED
        BY <4>1, <4>2 DEF Found
    <3> HIDE DEF j
    <3> QED
      BY <3>1, <3>4
  <2> QED
    BY <2>0, <2>1, <2>2
<1> QED
  BY <1>1, <1>2 DEF g

\* The buffer afterwards.
LEMMA CopyBuffer ==
  ASSUME NEW n \in Nat, NEW f, Typed(f, n), ParamsOK,
         NEW c \in Seq(Bytes), \A i \in 1..Len(c) : c[i].id <= n
  PROVE  \E m \in 0..Len(c) :
           /\ Joined(f.secbuf_base, c, m, copy_dump(f, c).secbuf_base)
           /\ m = Len(c) \/ Len(copy_dump(f, c).secbuf_base) = DMX_MAX_SECFEED_SIZE
<1> DEFINE g == copy_dump(f, c)
<1>1. \/ g = f /\ (Len(c) = 0 \/ Len(f.secbuf_base) = DMX_MAX_SECFEED_SIZE)
      \/ \E m, d, r : Copied(f, c, m, d, r, g)
  BY CopyFields
<1> HIDE DEF g
<1>2. f.secbuf_base \in Seq(Bytes)
  BY DEF Typed, FeedRec
<1>3. CASE g = f /\ (Len(c) = 0 \/ Len(f.secbuf_base) = DMX_MAX_SECFEED_SIZE)
  <2>1. Joined(f.secbuf_base, c, 0, g.secbuf_base)
    BY <1>2, <1>3 DEF Joined
  <2>2. 0 \in 0..Len(c)
    OBVIOUS
  <2> QED
    BY <2>1, <2>2, <1>3 DEF g
<1>4. ASSUME NEW m, NEW d, NEW r, Copied(f, c, m, d, r, g)
      PROVE  /\ m \in 0..Len(c) /\ Joined(f.secbuf_base, c, m, g.secbuf_base)
             /\ m = Len(c) \/ Len(g.secbuf_base) = DMX_MAX_SECFEED_SIZE
  BY <1>4 DEF Copied
<1> QED
  BY <1>1, <1>3, <1>4 DEF g

\* Bytes that follow an aligned buffer in the stream leave it aligned.
LEMMA JoinedAligned ==
  ASSUME NEW s \in Seq(Sections), NEW b \in Seq(Bytes), NEW p \in 0..Len(b), Aligned(b, p, s),
         NEW c \in Seq(Bytes), Genuine(c, s), Linked(c),
         NEW m \in 1..Len(c), NEW d, Joined(b, c, m, d),
         IF Len(b) = 0 THEN c[1].k = 0 ELSE Follows(b[Len(b)], c[1])
  PROVE  Aligned(d, p, s)
<1>0. /\ d \in Seq(Bytes) /\ Len(d) = Len(b) + m /\ Len(b) \in Nat /\ m \in Nat /\ m >= 1
      /\ Len(c) \in Nat /\ m <= Len(c)
  BY DEF Joined
<1>1. ASSUME NEW i \in 1..Len(d)
      PROVE  \/ i \in 1..Len(b) /\ d[i] = b[i]
             \/ i > Len(b) /\ i - Len(b) \in 1..m /\ i - Len(b) \in 1..Len(c) /\ d[i] = c[i - Len(b)]
  <2>1. CASE i <= Len(b)
    <3>1. i \in 1..Len(b)
      BY <2>1, <1>0
    <3> QED
      BY <3>1 DEF Joined
  <2>2. CASE i > Len(b)
    <3>1. i - Len(b) \in 1..m /\ Len(b) + (i - Len(b)) = i /\ i - Len(b) \in 1..Len(c)
      BY <2>2, <1>0
    <3> QED
      BY <3>1, <2>2 DEF Joined
  <2> QED
    BY <2>1, <2>2, <1>0
<1>2. Genuine(d, s)
  <2> SUFFICES ASSUME NEW i \in 1..Len(d)
               PROVE  \/ d[i] = Padding
                      \/ /\ d[i].id \in 1..Len(s) /\ d[i].sec = s[d[i].id]
                         /\ d[i].k < d[i].sec.len
    BY DEF Genuine
  <2>1. CASE i \in 1..Len(b) /\ d[i] = b[i]
    BY <2>1 DEF Aligned, Genuine
  <2>2. CASE i - Len(b) \in 1..Len(c) /\ d[i] = c[i - Len(b)]
    BY <2>2 DEF Genuine
  <2> QED
    BY <2>1, <2>2, <1>1
<1>3. Linked(d)
  <2> SUFFICES ASSUME NEW i \in 1..(Len(d) - 1) PROVE Follows(d[i], d[i + 1])
    BY DEF Linked
  <2>0. i \in 1..Len(d) /\ i + 1 \in 1..Len(d)
    BY <1>0
  <2>1. CASE i + 1 <= Len(b)
    <3>1. i \in 1..(Len(b) - 1) /\ d[i] = b[i] /\ d[i + 1] = b[i + 1]
      BY <2>0, <2>1, <1>0, <1>1
    <3> QED
      BY <3>1 DEF Aligned, Linked
  <2>2. CASE i = Len(b)
    <3>1. d[i] = b[Len(b)] /\ d[i + 1] = c[1] /\ Len(b) # 0
      <4>1. i \in 1..Len(b) /\ 1 \in 1..m /\ Len(b) + 1 = i + 1
        BY <2>0, <2>2, <1>0
      <4> QED
        BY <4>1, <2>2 DEF Joined
    <3> QED
      BY <3>1
  <2>3. CASE i > Len(b)
    <3>1. /\ i - Len(b) \in 1..(Len(c) - 1) /\ d[i] = c[i - Len(b)]
          /\ d[i + 1] = c[(i - Len(b)) + 1]
      <4>1. /\ i - Len(b) \in 1..m /\ (i - Len(b)) + 1 \in 1..m /\ i - Len(b) \in 1..(Len(c) - 1)
            /\ Len(b) + (i - Len(b)) = i /\ Len(b) + ((i - Len(b)) + 1) = i + 1
        BY <2>0, <2>3, <1>0
      <4>2. \A j \in 1..m : d[Len(b) + j] = c[j]
        BY DEF Joined
      <4>3. d[Len(b) + (i - Len(b))] = c[i - Len(b)]
        BY <4>1, <4>2
      <4>4. d[Len(b) + ((i - Len(b)) + 1)] = c[(i - Len(b)) + 1]
        BY <4>1, <4>2
      <4> QED
        BY <4>1, <4>3, <4>4
    <3> QED
      BY <3>1 DEF Linked
  <2> QED
    BY <2>1, <2>2, <2>3, <2>0, <1>0
<1>4. d[1].k = 0
  <2>1. CASE Len(b) = 0
    <3>1. 1 \in 1..m /\ Len(b) + 1 = 1
      BY <2>1, <1>0
    <3>2. d[1] = c[1]
      BY <3>1 DEF Joined
    <3> QED
      BY <3>2, <2>1
  <2>2. CASE Len(b) # 0
    <3>1. 1 \in 1..Len(b) /\ Len(b) > 0
      BY <2>2, <1>0
    <3> QED
      BY <3>1 DEF Joined, Aligned
  <2> QED
    BY <2>1, <2>2
<1>5. p = 0 \/ IsEnd(d[p])
  <2>1. CASE p # 0
    <3>1. p \in 1..Len(b)
      BY <2>1, <1>0
    <3>2. d[p] = b[p]
      BY <3>1 DEF Joined
    <3> QED
      BY <3>2, <2>1 DEF Aligned
  <2> QED
    BY <2>1
<1> QED
  BY <1>2, <1>3, <1>4, <1>5 DEF Aligned

\* Copying what follows in the stream keeps the buffer aligned, and hands over whole
\* sections only.
LEMMA CopyAligned ==
  ASSUME NEW s \in Seq(Sections), NEW f, Typed(f, Len(s)), ParamsOK,
         NEW c \in Seq(Bytes), Genuine(c, s), Linked(c), Len(c) > 0,
         Aligned(f.secbuf_base, f.secbufp, s), OnlyWhole(f.out),
         \/ Len(f.secbuf_base) = DMX_MAX_SECFEED_SIZE
         \/ Len(f.secbuf_base) = 0 /\ c[1].k = 0
         \/ Len(f.secbuf_base) > 0 /\ Follows(f.secbuf_base[Len(f.secbuf_base)], c[1])
  PROVE  LET g == copy_dump(f, c)
         IN /\ Aligned(g.secbuf_base, g.secbufp, s) /\ OnlyWhole(g.out)
            /\ Len(g.secbuf_base) > 0
            /\ \/ Len(g.secbuf_base) = DMX_MAX_SECFEED_SIZE
               \/ g.secbuf_base[Len(g.secbuf_base)] = c[Len(c)]
<1> DEFINE g == copy_dump(f, c)
           b == f.secbuf_base
<1>0. /\ Len(s) \in Nat /\ \A i \in 1..Len(c) : c[i].id <= Len(s)
  BY GenuineIds
<1>1. \/ g = f /\ (Len(c) = 0 \/ Len(b) = DMX_MAX_SECFEED_SIZE)
      \/ \E m, d, r : Copied(f, c, m, d, r, g)
  BY <1>0, CopyFields
<1>2. /\ b \in Seq(Bytes) /\ f.secbufp \in 0..Len(b) /\ f.tainted \in BOOLEAN /\ Len(b) \in Nat
      /\ \A i \in 1..Len(b) : b[i].id <= Len(s)
  BY DEF Typed, FeedRec
<1> HIDE DEF g
<1>3. CASE g = f /\ Len(b) = DMX_MAX_SECFEED_SIZE
  BY <1>3, Sizes DEF g
<1>4. ASSUME NEW m, NEW d, NEW r, Copied(f, c, m, d, r, g)
      PROVE  /\ Aligned(d, r.secbufp, s) /\ OnlyWhole(g.out) /\ Len(d) > 0
             /\ Len(d) = DMX_MAX_SECFEED_SIZE \/ d[Len(d)] = c[Len(c)]
  <2>1. /\ m \in 1..Len(c) /\ Joined(b, c, m, d) /\ Len(d) <= DMX_MAX_SECFEED_SIZE
        /\ m = Len(c) \/ Len(d) = DMX_MAX_SECFEED_SIZE
        /\ r = Dump(d, f.secbufp, f.tainted)
    BY <1>4 DEF Copied
  <2>2. d \in Seq(Bytes) /\ Len(d) = Len(b) + m /\ m \in Nat /\ m >= 1
    BY <2>1 DEF Joined
  <2>3. Aligned(d, f.secbufp, s) /\ f.secbufp \in 0..Len(d)
    <3>1. Len(b) # DMX_MAX_SECFEED_SIZE
      BY <2>1, <2>2, <1>2, Sizes
    <3>2. IF Len(b) = 0 THEN c[1].k = 0 ELSE Follows(b[Len(b)], c[1])
      BY <3>1
    <3> QED
      BY <3>2, <2>1, <2>2, <1>2, JoinedAligned
  <2>4. Aligned(d, r.secbufp, s) /\ \A i \in 1..Len(r.found) : r.found[i].id # 0
    BY <2>1, <2>2, <2>3, <1>2, DumpAligned DEF ParamsOK
  <2>5. OnlyWhole(g.out)
    <3> SUFFICES ASSUME NEW i \in 1..Len(g.out), g.out[i].id = 0
                 PROVE  g.out[i].tainted /\ ~g.out[i].checked
      BY DEF OnlyWhole
    <3>0. Len(f.out) \in Nat
      BY <1>0, <1>4, CopiedOut
    <3>1. CASE i <= Len(f.out)
      <4>1. i \in 1..Len(f.out)
        BY <3>1, <3>0
      <4>2. g.out[i] = f.out[i]
        BY <4>1, <1>0, <1>4, CopiedOut
      <4> QED
        BY <4>1, <4>2 DEF OnlyWhole
    <3>2. CASE i > Len(f.out)
      <4>1. i - Len(f.out) \in 1..Len(r.found) /\ g.out[i] = r.found[i - Len(f.out)]
        BY <3>2, <1>0, <1>4, CopiedOut
      <4> QED
        BY <4>1, <2>4
    <3> QED
      BY <3>0, <3>1, <3>2
  <2>6. Len(d) > 0 /\ (m = Len(c) => d[Len(d)] = c[Len(c)])
    <3>1. Len(d) > 0 /\ m \in 1..m
      BY <2>2, <1>2
    <3>2. d[Len(b) + m] = c[m]
      BY <3>1, <2>1 DEF Joined
    <3> QED
      BY <3>1, <3>2, <2>2
  <2> QED
    BY <2>1, <2>4, <2>5, <2>6
<1>5. ASSUME NEW m, NEW d, NEW r, Copied(f, c, m, d, r, g)
      PROVE  g.secbuf_base = d /\ g.secbufp = r.secbufp
  BY <1>5 DEF Copied
<1> QED
  BY <1>1, <1>3, <1>4, <1>5 DEF g

\* A section that is in the buffer as a whole afterwards, and had not been passed
\* over, has been handed over.
LEMMA CopyDelivers ==
  ASSUME NEW s \in Seq(Sections), NEW f, Typed(f, Len(s)), ParamsOK,
         NEW c \in Seq(Bytes), Genuine(c, s), Linked(c), Len(c) > 0,
         Aligned(f.secbuf_base, f.secbufp, s), f.pusi_seen,
         Len(f.secbuf_base) < DMX_MAX_SECFEED_SIZE,
         IF Len(f.secbuf_base) = 0 THEN c[1].k = 0
         ELSE Follows(f.secbuf_base[Len(f.secbuf_base)], c[1]),
         NEW d, d = copy_dump(f, c).secbuf_base,
         NEW y \in f.secbufp..(Len(d) - 1), IsStart(d[y + 1]), y + d[y + 1].sec.len <= Len(d)
  PROVE  GivenOut(copy_dump(f, c).out, d[y + 1].id, d[y + 1].sec.table)
<1> DEFINE g == copy_dump(f, c)
           b == f.secbuf_base
<1>0. /\ Len(s) \in Nat /\ \A i \in 1..Len(c) : c[i].id <= Len(s)
  BY GenuineIds
<1>2. /\ b \in Seq(Bytes) /\ f.secbufp \in 0..Len(b) /\ f.tainted \in BOOLEAN /\ Len(b) \in Nat
      /\ \A i \in 1..Len(b) : b[i].id <= Len(s)
  BY DEF Typed, FeedRec
<1>1. \E m, e, r : Copied(f, c, m, e, r, g)
  <2>1. \/ g = f /\ (Len(c) = 0 \/ Len(b) = DMX_MAX_SECFEED_SIZE)
        \/ \E m, e, r : Copied(f, c, m, e, r, g)
    BY <1>0, CopyFields
  <2>2. Len(c) # 0 /\ Len(b) # DMX_MAX_SECFEED_SIZE
    BY <1>2, Sizes
  <2> HIDE DEF g
  <2> QED
    BY <2>1, <2>2
<1> HIDE DEF g
<1>3. PICK m, e, r : Copied(f, c, m, e, r, g)
  BY <1>1
<1>4. /\ m \in 1..Len(c) /\ Joined(b, c, m, d)
      /\ r = Dump(d, f.secbufp, f.tainted)
  BY <1>3 DEF Copied, g
<1>5. d \in Seq(Bytes) /\ Len(d) = Len(b) + m /\ m \in Nat /\ m >= 1
  BY <1>4 DEF Joined
<1>6. Aligned(d, f.secbufp, s) /\ f.secbufp \in 0..Len(d)
  BY SMTT(30), <1>2, <1>4, <1>5, JoinedAligned
<1>7. GivenOut(r.found, d[y + 1].id, d[y + 1].sec.table)
  BY <1>2, <1>4, <1>5, <1>6, DumpDelivers DEF ParamsOK
<1>8. ASSUME NEW id, NEW table, GivenOut(r.found, id, table) PROVE GivenOut(g.out, id, table)
  <2> SUFFICES ASSUME NEW x \in section_filter, table \in x
               PROVE  \E i \in 1..Len(g.out) : g.out[i].id = id /\ x \in g.out[i].to
    BY DEF GivenOut
  <2>1. PICK i \in 1..Len(r.found) : r.found[i].id = id /\ x \in r.found[i].to
    BY <1>8 DEF GivenOut
  <2>2. Len(f.out) + i \in 1..Len(g.out) /\ g.out[Len(f.out) + i] = r.found[i]
    BY <1>0, <1>3, CopiedOut
  <2> QED
    BY <2>1, <2>2
<1> QED
  BY <1>7, <1>8 DEF g

\* The loop does not pass over a section of which the end is missing.
LEMMA NotPassed ==
  ASSUME NEW s \in Seq(Sections), NEW d \in Seq(Bytes), NEW p \in 0..Len(d), Aligned(d, p, s),
         NEW y \in 0..(Len(d) - 1), IsStart(d[y + 1]), y + d[y + 1].sec.len > Len(d)
  PROVE  p <= y
<1> DEFINE L == d[y + 1].sec.len
<1>0. Len(d) \in Nat /\ y + 1 \in 1..Len(d)
  OBVIOUS
<1>1. L \in 3..MaxSection
  BY <1>0, OtherBytes, GenuineByte DEF Aligned, IsStart
<1>2. L \in Nat
  BY <1>1, Sizes
<1> SUFFICES ASSUME p > y PROVE FALSE
  BY <1>0
<1> DEFINE j == p - y - 1
<1> HIDE DEF L
<1>3. /\ j \in 0..(L - 1) /\ (y + 1) + j = p /\ (y + 1) + j <= Len(d) /\ j + 1 < L
      /\ p # 0 /\ p \in 1..Len(d)
  BY <1>0, <1>2 DEF L
<1> HIDE DEF j
<1>4. d[p] = Byte(d[y + 1].id, j, d[y + 1].sec)
  BY <1>0, <1>3, SectionContents DEF Aligned, L
<1>5. IsEnd(d[p])
  BY <1>3 DEF Aligned
<1>6. d[y + 1].id # 0
  BY DEF IsStart
<1>7. d[p] # Padding
  BY <1>4, <1>6, OtherBytes DEF Byte
<1>8. d[p].k + 1 = d[p].sec.len
  BY <1>5, <1>7 DEF IsEnd
<1> QED
  BY <1>4, <1>8, <1>3 DEF Byte, L

\* What is given out stays in order when the sections that begin in c are later than
\* all that is known.
LEMMA CopyInOrder ==
  ASSUME NEW n \in Nat, NEW k \in Nat, NEW f, Typed(f, n), Typed(f, k), ParamsOK,
         NEW c \in Seq(Bytes), \A i \in 1..Len(c) : c[i].id <= n,
         StartsInOrder(c), \A i \in 1..Len(c) : IsStart(c[i]) => c[i].id > k,
         InOrder(f)
  PROVE  InOrder(copy_dump(f, c))
<1> DEFINE g == copy_dump(f, c)
           b == f.secbuf_base
<1>1. g = f \/ \E m, d, r : Copied(f, c, m, d, r, g)
  BY CopyFields
<1>2. /\ b \in Seq(Bytes) /\ f.secbufp \in 0..Len(b) /\ f.tainted \in BOOLEAN /\ Len(b) \in Nat
      /\ \A i \in 1..Len(b) : b[i].id <= n /\ b[i].id <= k
      /\ f.out \in Seq(Given) /\ \A i \in 1..Len(f.out) : f.out[i].id <= k
  BY DEF Typed, FeedRec
<1> HIDE DEF g
<1>3. ASSUME NEW m, NEW d, NEW r, Copied(f, c, m, d, r, g) PROVE InOrder(g)
  <2>1. /\ m \in 1..Len(c) /\ Joined(b, c, m, d) /\ r = Dump(d, f.secbufp, f.tainted)
        /\ r \in Dumped /\ r.secbufp \in f.secbufp..Len(d)
        /\ g.secbuf_base = d /\ g.secbufp = r.secbufp
    BY <1>3 DEF Copied
  <2>2. /\ d \in Seq(Bytes) /\ Len(d) = Len(b) + m /\ m \in Nat /\ m >= 1 /\ Len(d) \in Nat
        /\ f.secbufp \in 0..Len(d) /\ f.secbufp \in Nat
        /\ r.secbufp \in Nat /\ r.secbufp <= Len(d) /\ f.secbufp <= r.secbufp
    BY <2>1, <1>2 DEF Joined
  <2>3. \A i \in 1..Len(d) : d[i].id <= n
    BY <2>1, <1>2, JoinedIds
  <2>4. ASSUME NEW i \in 1..Len(d)
        PROVE  \/ i \in 1..Len(b) /\ d[i] = b[i] /\ i <= Len(b)
               \/ /\ i > Len(b) /\ i - Len(b) \in 1..Len(c) /\ d[i] = c[i - Len(b)]
    <3>1. CASE i <= Len(b)
      <4>1. i \in 1..Len(b)
        BY <3>1, <1>2
      <4> QED
        BY <4>1, <3>1, <2>1 DEF Joined
    <3>2. CASE i > Len(b)
      <4>1. i - Len(b) \in 1..m /\ Len(b) + (i - Len(b)) = i /\ i - Len(b) \in 1..Len(c)
        BY <3>2, <2>2, <2>1, <1>2
      <4> QED
        BY <4>1, <3>2, <2>1 DEF Joined
    <3> QED
      BY <3>1, <3>2, <1>2
  <2>5. StartsInOrder(d)
    <3> SUFFICES ASSUME NEW i \in 1..Len(d), NEW j \in 1..Len(d), i < j,
                        IsStart(d[i]), IsStart(d[j])
                 PROVE  d[i].id < d[j].id
      BY DEF StartsInOrder
    <3>1. CASE j <= Len(b)
      <4>1. /\ i \in 1..Len(b) /\ d[i] = b[i]
            /\ j \in 1..Len(b) /\ d[j] = b[j]
        BY <3>1, <2>4, <1>2
      <4> QED
        BY <4>1 DEF InOrder, StartsInOrder
    <3>2. CASE j > Len(b) /\ i > Len(b)
      <4>1. /\ i - Len(b) \in 1..Len(c) /\ d[i] = c[i - Len(b)]
            /\ j - Len(b) \in 1..Len(c) /\ d[j] = c[j - Len(b)]
            /\ i - Len(b) < j - Len(b)
        BY SMTT(30), <3>2, <2>4, <1>2
      <4> QED
        BY <4>1 DEF StartsInOrder
    <3>3. CASE j > Len(b) /\ i <= Len(b)
      <4>1. j - Len(b) \in 1..Len(c) /\ d[j] = c[j - Len(b)]
        BY <3>3, <2>4, <1>2
      <4>2. i \in 1..Len(b) /\ d[i] = b[i]
        BY <3>3, <2>4, <1>2
      <4>0. d[j].id > k
        <5>1. IsStart(c[j - Len(b)])
          BY <4>1
        <5> QED
          BY <4>1, <5>1
      <4>3. d[i].id <= k /\ d[j].id > k /\ d[i] \in Bytes /\ d[j] \in Bytes
        BY SMTT(30), <4>0, <4>2, <1>2, <2>2
      <4>4. d[i].id \in Nat /\ d[j].id \in Nat
        BY <4>3 DEF Bytes
      <4> QED
        BY <4>3, <4>4
    <3> QED
      BY <3>1, <3>2, <3>3, <1>2
  <2>6. Increasing(r.found) /\ StartsBefore(d, f.secbufp, r)
    BY <2>1, <2>2, <2>3, <2>5, <1>2, DumpOrdered DEF ParamsOK
  <2>7. Later(f.out, d, f.secbufp)
    <3> SUFFICES ASSUME NEW i \in 1..Len(f.out), NEW j \in 1..Len(d), j > f.secbufp,
                        IsStart(d[j]), f.out[i].id # 0
                 PROVE  f.out[i].id < d[j].id
      BY DEF Later
    <3>1. CASE j <= Len(b)
      <4>1. j \in 1..Len(b) /\ d[j] = b[j]
        BY <3>1, <2>4, <1>2
      <4> QED
        BY <4>1 DEF InOrder, Later
    <3>2. CASE j > Len(b)
      <4>1. j - Len(b) \in 1..Len(c) /\ d[j] = c[j - Len(b)]
        BY <3>2, <2>4, <1>2
      <4>0. d[j].id > k
        <5>1. IsStart(c[j - Len(b)])
          BY <4>1
        <5> QED
          BY <4>1, <5>1
      <4>2. f.out[i].id <= k /\ d[j].id > k /\ d[j] \in Bytes /\ f.out[i] \in Given
        BY <4>0, <1>2, <2>2
      <4>3. d[j].id \in Nat /\ f.out[i].id \in Nat
        BY <4>2 DEF Bytes, Given
      <4> QED
        BY <4>2, <4>3
    <3> QED
      BY <3>1, <3>2, <1>2
  <2>8. ASSUME NEW i \in 1..Len(g.out), g.out[i].id # 0
        PROVE  \/ i <= Len(f.out) /\ i \in 1..Len(f.out) /\ g.out[i] = f.out[i]
               \/ /\ i > Len(f.out)
                  /\ i - Len(f.out) \in 1..Len(r.found) /\ g.out[i] = r.found[i - Len(f.out)]
                  /\ \E j \in (f.secbufp + 1)..r.secbufp : IsStart(d[j]) /\ d[j].id = g.out[i].id
    <3>1. Len(f.out) \in Nat
      BY <1>3, CopiedOut
    <3>2. CASE i <= Len(f.out)
      <4>1. i \in 1..Len(f.out)
        BY <3>1, <3>2
      <4> QED
        BY <4>1, <3>2, <1>3, CopiedOut
    <3>3. CASE i > Len(f.out)
      <4>1. i - Len(f.out) \in 1..Len(r.found) /\ g.out[i] = r.found[i - Len(f.out)]
        BY <3>3, <1>3, CopiedOut
      <4> QED
        BY <4>1, <3>3, <2>6, <2>8 DEF StartsBefore
    <3> QED
      BY <3>1, <3>2, <3>3
  <2>a. Len(f.out) \in Nat
    BY <1>3, CopiedOut
  <2>b. \A l \in (f.secbufp + 1)..r.secbufp : l \in 1..Len(d) /\ l > f.secbufp
    BY <2>2
  <2>9. Increasing(g.out)
    <3> SUFFICES ASSUME NEW i \in 1..Len(g.out), NEW j \in 1..Len(g.out), i < j,
                        g.out[i].id # 0, g.out[j].id # 0
                 PROVE  g.out[i].id < g.out[j].id
      BY DEF Increasing
    <3>1. CASE j <= Len(f.out)
      <4>1. i \in 1..Len(f.out) /\ g.out[i] = f.out[i] /\ j \in 1..Len(f.out) /\ g.out[j] = f.out[j]
        BY <3>1, <2>8, <2>a
      <4> QED
        BY <4>1 DEF InOrder, Increasing
    <3>2. CASE j > Len(f.out) /\ i > Len(f.out)
      <4>1. i - Len(f.out) \in 1..Len(r.found) /\ g.out[i] = r.found[i - Len(f.out)]
        BY <3>2, <2>8, <2>a
      <4>2. j - Len(f.out) \in 1..Len(r.found) /\ g.out[j] = r.found[j - Len(f.out)]
        BY <3>2, <2>8, <2>a
      <4>3. i - Len(f.out) < j - Len(f.out)
        BY <2>a
      <4> QED
        BY <4>1, <4>2, <4>3, <2>6 DEF Increasing
    <3>3. CASE j > Len(f.out) /\ i <= Len(f.out)
      <4>1. i \in 1..Len(f.out) /\ g.out[i] = f.out[i]
        BY <3>3, <2>8, <2>a
      <4>2. PICK l \in (f.secbufp + 1)..r.secbufp : IsStart(d[l]) /\ d[l].id = g.out[j].id
        BY <3>3, <2>8, <2>a
      <4>3. l \in 1..Len(d) /\ l > f.secbufp
        BY <2>b
      <4> QED
        BY <4>1, <4>2, <4>3, <2>7 DEF Later
    <3> QED
      BY <3>1, <3>2, <3>3, <2>a
  <2>10. Later(g.out, d, r.secbufp)
    <3> SUFFICES ASSUME NEW i \in 1..Len(g.out), NEW j \in 1..Len(d), j > r.secbufp,
                        IsStart(d[j]), g.out[i].id # 0
                 PROVE  g.out[i].id < d[j].id
      BY DEF Later
    <3>0. j > f.secbufp
      BY <2>1, <2>2
    <3>1. CASE i \in 1..Len(f.out) /\ g.out[i] = f.out[i]
      BY <3>0, <3>1, <2>7 DEF Later
    <3>2. CASE \E l \in (f.secbufp + 1)..r.secbufp : IsStart(d[l]) /\ d[l].id = g.out[i].id
      <4>1. PICK l \in (f.secbufp + 1)..r.secbufp : IsStart(d[l]) /\ d[l].id = g.out[i].id
        BY <3>2
      <4>2. l \in 1..Len(d) /\ l < j
        BY SMTT(30), <2>2
      <4> QED
        BY <4>1, <4>2, <2>5 DEF StartsInOrder
    <3> QED
      BY <3>1, <3>2, <2>8
  <2> QED
    BY <2>1, <2>5, <2>9, <2>10 DEF InOrder
<1> QED
  BY <1>1, <1>3 DEF g

-----------------------------------------------------------------------------
(***************************************************************************)
(* What a packet carries: the rest of a section, or sections that begin.   *)
(***************************************************************************)
\* c carries the last section of s on from byte a to byte z, and padding after its end.
Continues(c, s, a, z) ==
  /\ c \in Seq(Bytes) /\ Len(c) > 0 /\ Len(s) > 0
  /\ a \in 1..(Last(s).len - 1)
  /\ \A j \in 1..Len(c) :
       c[j] = IF j <= Last(s).len - a THEN Byte(Len(s), a + j - 1, Last(s)) ELSE Padding
  /\ z = IF Len(c) < Last(s).len - a THEN a + Len(c) ELSE Last(s).len

\* In c the sections of s after the first k begin, and the last one is sent up to byte z.
Begins(c, k, s, z) ==
  /\ c \in Seq(Bytes) /\ Len(c) > 0 /\ Len(c) < FullPayload
  /\ k \in Nat /\ k < Len(s) /\ z \in 1..Last(s).len
  /\ Genuine(c, s) /\ Linked(c) /\ c[1].k = 0 /\ Matches(c[Len(c)], s, z)
  /\ StartsInOrder(c) /\ \A i \in 1..Len(c) : IsStart(c[i]) => c[i].id > k
  /\ \A i \in (k + 1)..Len(s) : \E y \in 0..(Len(c) - 1) :
       /\ c[y + 1] = Byte(i, 0, s[i])
       /\ IF i = Len(s) /\ z < Last(s).len THEN y + z = Len(c) ELSE y + s[i].len <= Len(c)

\* The last section sent.
LEMMA LastSection ==
  ASSUME NEW s \in Seq(Sections), Len(s) > 0
  PROVE  /\ Last(s) = s[Len(s)] /\ Last(s) \in Sections /\ Last(s) \in Secs
         /\ Last(s).len \in 3..MaxSection /\ Last(s).len \in Nat /\ Last(s).len <= MaxSection
         /\ Len(s) \in 1..Len(s) /\ Len(s) \in Nat
<1>1. Len(s) \in 1..Len(s) /\ Len(s) \in Nat
  OBVIOUS
<1>2. Last(s) = s[Len(s)]
  BY DEF Last
<1>3. Last(s) \in Sections
  BY <1>1, <1>2
<1> QED
  BY <1>1, <1>2, <1>3, SecLengths, Sizes

\* The rest of a section, perhaps with padding, is a stretch of the stream.
LEMMA ContinuesIs ==
  ASSUME NEW s \in Seq(Sections), NEW c, NEW a, NEW z, Continues(c, s, a, z)
  PROVE  /\ Genuine(c, s) /\ Linked(c) /\ \A j \in 1..Len(c) : ~IsStart(c[j])
         /\ c[1] = Byte(Len(s), a, Last(s)) /\ Matches(c[Len(c)], s, z)
         /\ z \in (a + 1)..Last(s).len
<1> DEFINE L == Last(s).len
           B(j) == Byte(Len(s), a + j - 1, Last(s))
<1>0. /\ c \in Seq(Bytes) /\ Len(c) \in Nat /\ Len(c) > 0 /\ a \in 1..(L - 1) /\ a \in Nat /\ L \in Nat
      /\ Len(s) \in 1..Len(s) /\ Len(s) \in Nat /\ Len(s) # 0 /\ Last(s) = s[Len(s)]
  BY LastSection DEF Continues
<1>1. /\ \A j \in 1..Len(c) : j <= L - a => c[j] = B(j)
      /\ \A j \in 1..Len(c) : ~(j <= L - a) => c[j] = Padding
      /\ z = IF Len(c) < L - a THEN a + Len(c) ELSE L
  BY DEF Continues
<1> HIDE DEF L
<1>2. \A j \in 1..Len(c) : /\ B(j).id = Len(s) /\ B(j).k = a + j - 1 /\ B(j).sec = Last(s)
                           /\ B(j).sec.len = L
  BY DEF Byte, L
<1> HIDE DEF B
<1>3. Genuine(c, s)
  <2> SUFFICES ASSUME NEW j \in 1..Len(c), c[j] # Padding
               PROVE  /\ c[j].id \in 1..Len(s) /\ c[j].sec = s[c[j].id]
                      /\ c[j].k < c[j].sec.len
    BY DEF Genuine
  <2>1. j <= L - a /\ c[j] = B(j)
    BY <1>1
  <2>2. a + j - 1 < L
    BY <2>1, <1>0
  <2> QED
    BY <2>1, <2>2, <1>0, <1>2
<1>4. Linked(c)
  <2> SUFFICES ASSUME NEW j \in 1..(Len(c) - 1) PROVE Follows(c[j], c[j + 1])
    BY DEF Linked
  <2>0. j \in 1..Len(c) /\ j + 1 \in 1..Len(c) /\ j \in Nat
    BY <1>0
  <2>1. CASE j + 1 <= L - a
    <3>1. c[j] = B(j) /\ c[j + 1] = B(j + 1)
      BY <2>0, <2>1, <1>0, <1>1
    <3>2. (a + j - 1) + 1 < L /\ a + (j + 1) - 1 = (a + j - 1) + 1
      BY <2>0, <2>1, <1>0
    <3>3. c[j].id # 0 /\ c[j].k + 1 < c[j].sec.len
      BY <3>1, <3>2, <1>2, <1>0, <2>0
    <3>4. c[j + 1] = Byte(c[j].id, c[j].k + 1, c[j].sec)
      BY <3>1, <3>2, <1>2, <2>0 DEF B
    <3> QED
      BY <3>3, <3>4 DEF Follows
  <2>2. CASE ~(j + 1 <= L - a)
    <3>1. c[j + 1] = Padding
      BY <2>0, <2>2, <1>1
    <3>2. IsEnd(c[j])
      <4>1. CASE j <= L - a
        <5>1. c[j] = B(j) /\ (a + j - 1) + 1 = L
          BY <4>1, <2>2, <2>0, <1>0, <1>1
        <5> QED
          BY <5>1, <1>0, <1>2, <2>0 DEF IsEnd
      <4>2. CASE ~(j <= L - a)
        BY <4>2, <2>0, <1>1 DEF IsEnd
      <4> QED
        BY <4>1, <4>2
    <3> QED
      BY <3>1, <3>2 DEF Follows
  <2> QED
    BY <2>1, <2>2
<1>5. ASSUME NEW j \in 1..Len(c) PROVE ~IsStart(c[j])
  <2>1. CASE j <= L - a
    <3>1. c[j] = B(j) /\ a + j - 1 # 0
      BY <2>1, <1>0, <1>1
    <3> QED
      BY <3>1, <1>2 DEF IsStart
  <2>2. CASE ~(j <= L - a)
    BY <2>2, <1>1, OtherBytes DEF IsStart
  <2> QED
    BY <2>1, <2>2
<1>6. c[1] = Byte(Len(s), a, Last(s))
  <2>1. 1 \in 1..Len(c) /\ 1 <= L - a /\ a + 1 - 1 = a
    BY <1>0
  <2> QED
    BY <2>1, <1>1 DEF B
<1>7. z \in (a + 1)..L
  BY <1>0, <1>1
<1>8. Matches(c[Len(c)], s, z)
  <2>0. Len(c) \in 1..Len(c)
    BY <1>0
  <2>1. CASE Len(c) <= L - a
    <3>1. c[Len(c)] = B(Len(c)) /\ z - 1 = a + Len(c) - 1
      BY <2>0, <2>1, <1>0, <1>1
    <3> QED
      BY <3>1 DEF Matches, B
  <2>2. CASE ~(Len(c) <= L - a)
    <3>1. c[Len(c)] = Padding /\ z = L
      BY <2>0, <2>2, <1>0, <1>1
    <3> QED
      BY <3>1 DEF Matches, L
  <2> QED
    BY <2>1, <2>2
<1> QED
  BY <1>3, <1>4, <1>5, <1>6, <1>7, <1>8 DEF L

\* A buffer that is in step, not full and ends within a section, is continued by c.
LEMMA InStepContinues ==
  ASSUME NEW s \in Seq(Sections), NEW c, NEW a, NEW z, Continues(c, s, a, z),
         NEW b, InStep(b, s, a)
  PROVE  Len(b) = DMX_MAX_SECFEED_SIZE \/ Follows(b[Len(b)], c[1])
<1>1. /\ a \in 1..(Last(s).len - 1) /\ Last(s).len \in Nat /\ Len(s) \in Nat /\ Len(s) # 0
  BY LastSection DEF Continues
<1>2. c[1] = Byte(Len(s), a, Last(s))
  BY ContinuesIs
<1>3. ASSUME Matches(b[Len(b)], s, a) PROVE Follows(b[Len(b)], c[1])
  <2>1. b[Len(b)] = Byte(Len(s), a - 1, Last(s))
    BY <1>1, <1>3 DEF Matches
  <2>2. (a - 1) + 1 < Last(s).len /\ (a - 1) + 1 = a
    BY <1>1
  <2> QED
    BY <2>1, <2>2, <1>1, <1>2 DEF Follows, Byte
<1> QED
  BY <1>3 DEF InStep

\* The packet handler copies the rest of a section.
LEMMA CopyContinues ==
  ASSUME NEW s \in Seq(Sections), NEW f, Typed(f, Len(s)), ParamsOK, OnlyWhole(f.out),
         NEW c, NEW a, NEW z, Continues(c, s, a, z), Synced(f, s, a)
  PROVE  OnlyWhole(copy_dump(f, c).out) /\ Synced(copy_dump(f, c), s, z)
<1> DEFINE g == copy_dump(f, c)
<1>0. /\ c \in Seq(Bytes) /\ Len(c) > 0 /\ Genuine(c, s) /\ Linked(c) /\ Len(s) > 0
      /\ Len(s) \in Nat /\ \A i \in 1..Len(c) : c[i].id <= Len(s)
  BY ContinuesIs, GenuineIds DEF Continues
<1>1. g.pusi_seen = f.pusi_seen /\ g.tainted = f.tainted
  BY <1>0, CopyFields
<1>2. CASE ~f.pusi_seen \/ f.tainted
  <2>1. OnlyWhole(g.out)
    BY <1>0, <1>2, CopyTainted
  <2>2. ~g.pusi_seen \/ g.tainted
    BY <1>1, <1>2
  <2> HIDE DEF g
  <2>3. Synced(g, s, z)
    BY <2>2 DEF Synced
  <2> QED
    BY <2>1, <2>3 DEF g
<1>3. CASE f.pusi_seen /\ ~f.tainted
  <2>1. Aligned(f.secbuf_base, f.secbufp, s) /\ InStep(f.secbuf_base, s, a)
    BY <1>3 DEF Synced
  <2>2. /\ Len(f.secbuf_base) > 0
        /\ \/ Len(f.secbuf_base) = DMX_MAX_SECFEED_SIZE
           \/ Follows(f.secbuf_base[Len(f.secbuf_base)], c[1])
    BY <2>1, InStepContinues DEF InStep
  <2>3. /\ Aligned(g.secbuf_base, g.secbufp, s) /\ OnlyWhole(g.out)
        /\ Len(g.secbuf_base) > 0
        /\ \/ Len(g.secbuf_base) = DMX_MAX_SECFEED_SIZE
           \/ g.secbuf_base[Len(g.secbuf_base)] = c[Len(c)]
    BY <2>1, <2>2, <1>0, CopyAligned
  <2> HIDE DEF g
  <2>4. Synced(g, s, z)
    BY <2>3, <1>0, ContinuesIs DEF Synced, InStep
  <2> QED
    BY <2>3, <2>4 DEF g
<1>4. f.pusi_seen \in BOOLEAN /\ f.tainted \in BOOLEAN
  BY DEF Typed, FeedRec
<1> QED
  BY <1>2, <1>3, <1>4

\* The section in progress stays so, or is handed over when it is complete.
LEMMA CopyCompletes ==
  ASSUME NEW s \in Seq(Sections), NEW f, Typed(f, Len(s)), ParamsOK, OnlyWhole(f.out),
         NEW c, NEW a, NEW z, Continues(c, s, a, z),
         Aligned(f.secbuf_base, f.secbufp, s), InStep(f.secbuf_base, s, a),
         f.pusi_seen, InProgress(f, s, a)
  PROVE  IF z = Last(s).len THEN GivenOut(copy_dump(f, c).out, Len(s), Last(s).table)
         ELSE InProgress(copy_dump(f, c), s, z)
<1> DEFINE g == copy_dump(f, c)
           b == f.secbuf_base
           d == g.secbuf_base
           L == Last(s).len
           y == Len(b) - a
<1>0. /\ c \in Seq(Bytes) /\ Len(c) > 0 /\ Genuine(c, s) /\ Linked(c) /\ Len(s) > 0
      /\ Len(s) \in Nat /\ \A i \in 1..Len(c) : c[i].id <= Len(s)
      /\ Len(c) \in Nat
  <2>1. c \in Seq(Bytes) /\ Len(c) > 0 /\ Genuine(c, s) /\ Linked(c) /\ Len(s) > 0
    BY ContinuesIs DEF Continues
  <2>2. Len(s) \in Nat /\ \A i \in 1..Len(c) : c[i].id <= Len(s)
    BY <2>1, GenuineIds
  <2> QED
    BY <2>1, <2>2
<1>1. /\ L \in Nat /\ a \in 1..(L - 1) /\ a \in Nat /\ z \in (a + 1)..L /\ z \in Nat
      /\ z = IF Len(c) < L - a THEN a + Len(c) ELSE L
  BY <1>0, LastSection, ContinuesIs DEF Continues
<1>2. /\ b \in Seq(Bytes) /\ Len(b) \in Nat /\ f.secbufp \in Nat
  BY DEF Typed, FeedRec
<1>3. /\ a <= Len(b) /\ f.secbufp <= Len(b) - a
      /\ b[Len(b) - a + 1] = Byte(Len(s), 0, Last(s))
      /\ Len(b) + L - a <= DMX_MAX_SECFEED_SIZE
  BY DEF InProgress
<1> HIDE DEF L
<1>4. Len(b) < DMX_MAX_SECFEED_SIZE /\ Len(b) > 0
  BY SMTT(30), <1>1, <1>2, <1>3, Sizes
<1>5. Follows(b[Len(b)], c[1])
  <2>1. Len(b) # DMX_MAX_SECFEED_SIZE
    BY <1>2, <1>4, Sizes
  <2> QED
    BY <2>1, InStepContinues
<1>6. Aligned(d, g.secbufp, s)
  BY <1>0, <1>4, <1>5, CopyAligned
<1>7. PICK m \in 0..Len(c) : Joined(b, c, m, d) /\ (m = Len(c) \/ Len(d) = DMX_MAX_SECFEED_SIZE)
  BY <1>0, CopyBuffer
<1>8. Typed(g, Len(s))
  BY <1>0, CopyFields
<1>9. /\ d \in Seq(Bytes) /\ Len(d) = Len(b) + m /\ Len(d) \in Nat /\ m \in Nat
      /\ g.secbufp \in 0..Len(d) /\ Len(d) <= DMX_MAX_SECFEED_SIZE
  <2>1. d \in Seq(Bytes) /\ Len(d) = Len(b) + m /\ m \in Nat
    BY <1>7 DEF Joined
  <2>2. g.secbufp \in Nat /\ g.secbufp <= Len(d) /\ Len(d) <= DMX_MAX_SECFEED_SIZE
    <3> HIDE DEF g
    <3> QED
      BY <1>8 DEF Typed, FeedRec
  <2> HIDE DEF d, g
  <2> QED
    BY <2>1, <2>2
<1> HIDE DEF d, b, g, y
<1>10. y \in Nat /\ y + 1 \in 1..Len(b) /\ y + 1 = Len(b) - a + 1 /\ y + a = Len(b)
       /\ f.secbufp <= y
  BY <1>1, <1>2, <1>3 DEF y
<1>11. /\ d[y + 1] = Byte(Len(s), 0, Last(s)) /\ IsStart(d[y + 1])
       /\ d[y + 1].id = Len(s) /\ d[y + 1].sec = Last(s) /\ d[y + 1].sec.len = L
       /\ y \in 0..(Len(d) - 1) /\ y \in f.secbufp..(Len(d) - 1)
  <2>1. d[y + 1] = b[y + 1]
    BY <1>7, <1>10 DEF Joined
  <2>2. d[y + 1] = Byte(Len(s), 0, Last(s))
    BY <2>1, <1>3, <1>10
  <2>3. y \in 0..(Len(d) - 1) /\ y \in f.secbufp..(Len(d) - 1)
    BY <1>2, <1>9, <1>10
  <2> QED
    BY <2>2, <2>3, <1>0 DEF IsStart, Byte, L
<1>14. /\ m = Len(c) \/ Len(d) = DMX_MAX_SECFEED_SIZE
       /\ DMX_MAX_SECFEED_SIZE \in Nat
       /\ y + a = Len(b) /\ Len(b) + L - a <= DMX_MAX_SECFEED_SIZE /\ Len(d) = Len(b) + m
       /\ z = IF Len(c) < L - a THEN a + Len(c) ELSE L
  BY <1>1, <1>3, <1>7, <1>9, <1>10, Sizes
<1>15. /\ L \in Nat /\ a \in Nat /\ a < L /\ z \in Nat /\ m \in Nat /\ Len(c) \in Nat
       /\ m <= Len(c) /\ Len(b) \in Nat /\ Len(d) \in Nat /\ y \in Nat
  BY <1>0, <1>1, <1>2, <1>9, <1>10
<1>12. CASE z = L
  <2>1. y + L <= Len(d)
    BY SMTT(30), <1>12, <1>14, <1>15
  <2>2. GivenOut(g.out, d[y + 1].id, d[y + 1].sec.table)
    <3>1. d = copy_dump(f, c).secbuf_base
      BY DEF d, g
    <3>2. IF Len(b) = 0 THEN c[1].k = 0 ELSE Follows(b[Len(b)], c[1])
      BY <1>4, <1>5
    <3>3. y + d[y + 1].sec.len <= Len(d)
      BY <2>1, <1>11
    <3> QED
      BY <3>1, <3>2, <3>3, <1>0, <1>4, <1>11, CopyDelivers DEF b, g
  <2> QED
    BY <2>2, <1>11, <1>12 DEF L, g
<1>13. CASE z # L
  <2>1. m = Len(c) /\ z = a + Len(c) /\ y + z = Len(d) /\ y + L > Len(d)
    BY SMTT(30), <1>13, <1>14, <1>15
  <2>2. g.secbufp <= y
    BY <2>1, <1>6, <1>9, <1>11, NotPassed
  <2>3. InProgress(g, s, z)
    <3>1. y = Len(d) - z /\ z <= Len(d) /\ Len(d) + L - z <= DMX_MAX_SECFEED_SIZE
      BY <2>1, <1>1, <1>2, <1>3, <1>9, <1>10, Sizes
    <3> QED
      BY <3>1, <2>2, <1>11 DEF InProgress, d, L
  <2> QED
    BY <2>3, <1>13 DEF L, g
<1> QED
  BY <1>12, <1>13

\* The packet handler copies what begins with a section into the empty buffer.
LEMMA CopyBegins ==
  ASSUME NEW s \in Seq(Sections), NEW f, Typed(f, Len(s)), ParamsOK, OnlyWhole(f.out),
         f.secbuf_base = <<>>, f.secbufp = 0, f.pusi_seen,
         NEW c, NEW k, NEW z, Begins(c, k, s, z)
  PROVE  LET g == copy_dump(f, c)
         IN /\ OnlyWhole(g.out) /\ Synced(g, s, z)
            /\ \A i \in (k + 1)..Len(s) :
                 (i = Len(s) => z = Last(s).len) => GivenOut(g.out, i, s[i].table)
            /\ z # Last(s).len => InProgress(g, s, z)
<1> DEFINE g == copy_dump(f, c)
           d == g.secbuf_base
           L == Last(s).len
<1>1. /\ c \in Seq(Bytes) /\ Len(c) > 0 /\ Len(c) < FullPayload /\ Genuine(c, s) /\ Linked(c)
      /\ k \in Nat /\ k < Len(s) /\ z \in 1..L /\ c[1].k = 0 /\ Matches(c[Len(c)], s, z)
  BY DEF Begins
<1>2. Len(s) \in Nat /\ \A i \in 1..Len(c) : c[i].id <= Len(s)
  BY <1>1, GenuineIds
<1>3. Len(s) > 0 /\ L \in Nat /\ z \in Nat /\ L <= MaxSection
  BY <1>1, <1>2, LastSection
<1>4. Len(f.secbuf_base) = 0
  OBVIOUS
<1>5. Aligned(f.secbuf_base, f.secbufp, s)
  BY DEF Aligned, Genuine, Linked
<1>6. /\ Aligned(d, g.secbufp, s) /\ OnlyWhole(g.out) /\ Len(d) > 0
      /\ Len(d) = DMX_MAX_SECFEED_SIZE \/ d[Len(d)] = c[Len(c)]
  BY <1>1, <1>4, <1>5, CopyAligned
<1>7. /\ d \in Seq(Bytes) /\ Len(d) = Len(c) /\ Len(d) \in Nat
      /\ \A i \in 1..Len(d) : d[i] = c[i]
  <2>1. PICK m \in 0..Len(c) :
          Joined(f.secbuf_base, c, m, d) /\ (m = Len(c) \/ Len(d) = DMX_MAX_SECFEED_SIZE)
    BY <1>1, <1>2, CopyBuffer
  <2>2. d \in Seq(Bytes) /\ Len(d) = Len(f.secbuf_base) + m
    BY <2>1 DEF Joined
  <2> HIDE DEF d
  <2>3. Len(d) = m /\ m \in Nat /\ Len(c) \in Nat /\ m <= Len(c)
    BY <2>2, <1>1, <1>4
  <2>4. Len(d) = Len(c)
    BY <2>1, <2>3, <1>1, Sizes
  <2>5. ASSUME NEW i \in 1..Len(d) PROVE d[i] = c[i]
    <3>1. i \in 1..m /\ Len(f.secbuf_base) + i = i
      BY <2>3, <1>4
    <3> QED
      BY <3>1, <2>1 DEF Joined
  <2> QED
    BY <2>2, <2>3, <2>4, <2>5
<1>8. /\ g.secbufp \in 0..Len(d) /\ Len(d) <= DMX_MAX_SECFEED_SIZE
      /\ g.pusi_seen = f.pusi_seen /\ g.tainted = f.tainted
  <2>1. Typed(g, Len(s)) /\ g.pusi_seen = f.pusi_seen /\ g.tainted = f.tainted
    BY <1>1, <1>2, CopyFields
  <2> HIDE DEF g
  <2>2. g.secbufp \in Nat /\ g.secbufp <= Len(d) /\ Len(d) <= DMX_MAX_SECFEED_SIZE
    BY <2>1 DEF Typed, FeedRec
  <2> HIDE DEF d
  <2> QED
    BY <2>1, <2>2, <1>7
<1> HIDE DEF d, g, L
<1>9. Synced(g, s, z)
  <2>1. d[Len(d)] = c[Len(c)]
    BY <1>6, <1>7
  <2> QED
    BY <2>1, <1>1, <1>3, <1>6 DEF Synced, InStep, d
<1>10. ASSUME NEW i \in (k + 1)..Len(s), i = Len(s) => z = L
       PROVE  GivenOut(g.out, i, s[i].table)
  <2>0. i \in 1..Len(s) /\ i # 0
    BY <1>1, <1>2
  <2>1. PICK y \in 0..(Len(c) - 1) : c[y + 1] = Byte(i, 0, s[i]) /\ y + s[i].len <= Len(c)
    <3>1. PICK y \in 0..(Len(c) - 1) :
            /\ c[y + 1] = Byte(i, 0, s[i])
            /\ IF i = Len(s) /\ z < Last(s).len THEN y + z = Len(c) ELSE y + s[i].len <= Len(c)
      BY DEF Begins
    <3>2. ~(i = Len(s) /\ z < Last(s).len)
      BY <1>10, <1>3 DEF L
    <3> QED
      BY <3>1, <3>2
  <2>2. /\ y \in 0..(Len(d) - 1) /\ y \in f.secbufp..(Len(d) - 1)
        /\ d[y + 1] = Byte(i, 0, s[i]) /\ y + s[i].len <= Len(d)
    BY <2>1, <1>7
  <2>3. /\ IsStart(d[y + 1]) /\ d[y + 1].id = i /\ d[y + 1].sec = s[i]
        /\ y + d[y + 1].sec.len <= Len(d)
    BY <2>0, <2>2 DEF IsStart, Byte
  <2>4. GivenOut(copy_dump(f, c).out, d[y + 1].id, d[y + 1].sec.table)
    <3>1. d = copy_dump(f, c).secbuf_base
      BY DEF d, g
    <3>2. /\ Len(f.secbuf_base) < DMX_MAX_SECFEED_SIZE
          /\ IF Len(f.secbuf_base) = 0 THEN c[1].k = 0
             ELSE Follows(f.secbuf_base[Len(f.secbuf_base)], c[1])
      BY <1>1, <1>4, Sizes
    <3> QED
      BY <3>1, <3>2, <2>2, <2>3, <1>1, <1>5, CopyDelivers
  <2> QED
    BY <2>3, <2>4 DEF g
<1>11. ASSUME z # L PROVE InProgress(g, s, z)
  <2>0. Len(s) \in (k + 1)..Len(s) /\ z < L
    BY <1>1, <1>2, <1>3, <1>11
  <2>1. PICK y \in 0..(Len(c) - 1) : c[y + 1] = Byte(Len(s), 0, s[Len(s)]) /\ y + z = Len(c)
    <3>1. PICK y \in 0..(Len(c) - 1) :
            /\ c[y + 1] = Byte(Len(s), 0, s[Len(s)])
            /\ IF Len(s) = Len(s) /\ z < Last(s).len THEN y + z = Len(c)
               ELSE y + s[Len(s)].len <= Len(c)
      BY <2>0 DEF Begins
    <3> QED
      BY <3>1, <2>0 DEF L
  <2>2. /\ y \in 0..(Len(d) - 1) /\ y + z = Len(d) /\ y \in Nat
        /\ d[y + 1] = Byte(Len(s), 0, Last(s))
    BY <2>1, <1>3, <1>7, LastSection
  <2>3. IsStart(d[y + 1]) /\ d[y + 1].sec.len = L
    BY <2>2, <1>2, <1>3 DEF IsStart, Byte, L
  <2>4. y + L > Len(d)
    BY <2>0, <2>2, <1>3, <1>7
  <2>5. g.secbufp <= y
    BY <2>2, <2>3, <2>4, <1>6, <1>7, <1>8, NotPassed
  <2>6. z <= Len(d) /\ y = Len(d) - z /\ Len(d) + L - z <= DMX_MAX_SECFEED_SIZE
    <3>1. Len(d) < FullPayload
      BY <1>1, <1>7
    <3>2. Len(d) + L - z <= DMX_MAX_SECFEED_SIZE
      BY <3>1, <1>1, <1>3, <1>7, Sizes
    <3> QED
      BY <3>2, <2>2, <1>3, <1>7
  <2> QED
    BY <2>2, <2>5, <2>6 DEF InProgress, d, L
<1> QED
  BY <1>6, <1>9, <1>10, <1>11 DEF g, L

-----------------------------------------------------------------------------
(***************************************************************************)
(* The packet handler.                                                     *)
(***************************************************************************)
\* The packet follows the last one that was seen.
Accepts(f, p) == (f.cc + 1) % CCs = p.cc /\ ~p.dc

\* The feed when the header of the packet has been looked at.
Opened(f, p) == [(IF Accepts(f, p) THEN f ELSE resync(f))
                   EXCEPT !.cc = p.cc, !.tainted = @ \/ p.damaged]

\* The feed when the packet announces a section start and what precedes it was copied.
Fresh(b, p) == section_new([b EXCEPT !.pusi_seen = TRUE, !.tainted = p.damaged])

\* The bytes before and from the section start on.
Before(p) == SubSeq(p.bytes, 1, p.pointer)
From(p) == SubSeq(p.bytes, p.pointer + 1, Len(p.bytes))

\* A packet as the handler may get it when n sections have been sent.
PacketOK(p, n) ==
  /\ p.bytes \in Seq(Bytes) /\ \A i \in 1..Len(p.bytes) : p.bytes[i].id <= n
  /\ p.count \in Nat /\ p.pointer \in Nat /\ p.cc \in 0..(CCs - 1)
  /\ p.pusi \in BOOLEAN /\ p.damaged \in BOOLEAN /\ p.dc \in BOOLEAN
  /\ p.pusi => Len(p.bytes) = p.count - 1

\* section_packet in terms of its parts.
LEMMA PacketCases ==
  ASSUME NEW f, NEW p, NEW n, PacketOK(p, n)
  PROVE  section_packet(f, p) =
           IF ~p.pusi THEN copy_dump(Opened(f, p), p.bytes)
           ELSE IF p.count > 1 /\ p.pointer < p.count
           THEN copy_dump(Fresh(copy_dump(Opened(f, p), Before(p)), p), From(p))
           ELSE Opened(f, p)
<1>1. p.pusi \in BOOLEAN
  BY DEF PacketOK
<1>2. CASE ~p.pusi
  BY <1>2 DEF section_packet, Opened, Accepts
<1>3. CASE p.pusi
  <2>1. CASE p.count > 1 /\ p.pointer < p.count
    BY <1>3, <2>1 DEF section_packet, Opened, Accepts, Fresh, Before, From
  <2>2. CASE ~(p.count > 1 /\ p.pointer < p.count)
    BY <1>3, <2>2 DEF section_packet, Opened, Accepts
  <2> QED
    BY <2>1, <2>2
<1> QED
  BY <1>1, <1>2, <1>3

\* The feed after the continuity counter was checked.
LEMMA OpenedIs ==
  ASSUME NEW n \in Nat, NEW f, Typed(f, n), NEW p, NEW l, PacketOK(p, l)
  PROVE  LET h == Opened(f, p)
         IN /\ Typed(h, n) /\ h.cc = p.cc /\ h.out = f.out
            /\ h.tainted <=> (f.tainted \/ p.damaged)
            /\ IF Accepts(f, p)
               THEN /\ h.secbuf_base = f.secbuf_base /\ h.secbufp = f.secbufp
                    /\ h.pusi_seen = f.pusi_seen
               ELSE h.secbuf_base = <<>> /\ h.secbufp = 0 /\ ~h.pusi_seen
<1> DEFINE h == Opened(f, p)
<1>0. f \in FeedRec /\ p.cc \in 0..(CCs - 1) /\ p.damaged \in BOOLEAN
      /\ f.tainted \in BOOLEAN
  BY DEF Typed, FeedRec, PacketOK
<1>1. CASE Accepts(f, p)
  <2>1. h = [f EXCEPT !.cc = p.cc, !.tainted = @ \/ p.damaged]
    BY <1>1 DEF Opened
  <2> HIDE DEF h
  <2>2. /\ h \in FeedRec /\ h.cc = p.cc /\ h.out = f.out
        /\ h.secbuf_base = f.secbuf_base /\ h.secbufp = f.secbufp
        /\ h.pusi_seen = f.pusi_seen /\ h.tainted = (f.tainted \/ p.damaged)
    BY <2>1, <1>0 DEF FeedRec
  <2>3. Typed(h, n)
    BY <2>2 DEF Typed
  <2> QED
    BY <2>2, <2>3, <1>1 DEF h
<1>2. CASE ~Accepts(f, p)
  <2>1. h = [resync(f) EXCEPT !.cc = p.cc, !.tainted = @ \/ p.damaged]
    BY <1>2 DEF Opened
  <2>e. PICK e \in Seq(Bytes) : e = <<>>
    <3>1. <<>> \in Seq(Bytes)
      BY EmptySeq
    <3> QED
      BY <3>1
  <2>a. resync(f) = [f EXCEPT !.pusi_seen = FALSE, !.secbuf_base = e, !.secbufp = 0]
    BY <1>0, <2>e DEF resync, section_new, FeedRec
  <2> HIDE DEF h
  <2>2. /\ h \in FeedRec /\ h.cc = p.cc /\ h.out = f.out
        /\ h.secbuf_base = e /\ h.secbufp = 0
        /\ h.pusi_seen = FALSE /\ h.tainted = (f.tainted \/ p.damaged)
    <3>1. h = [f EXCEPT !.pusi_seen = FALSE, !.secbuf_base = e, !.secbufp = 0, !.cc = p.cc,
                        !.tainted = f.tainted \/ p.damaged]
      BY <2>1, <2>a, <1>0 DEF FeedRec
    <3>2. (f.tainted \/ p.damaged) \in BOOLEAN
      OBVIOUS
    <3> QED
      BY <3>1, <3>2, <1>0 DEF FeedRec
  <2>3. Typed(h, n)
    BY <2>2, <2>e, Sizes DEF Typed
  <2> QED
    BY <2>2, <2>3, <2>e, <1>2 DEF h
<1> QED
  BY <1>1, <1>2

\* The feed after section_new at a section start.
LEMMA FreshIs ==
  ASSUME NEW n \in Nat, NEW f, Typed(f, n), NEW p, NEW l, PacketOK(p, l)
  PROVE  LET h == Fresh(f, p)
         IN /\ Typed(h, n) /\ h.cc = f.cc /\ h.out = f.out /\ h.pusi_seen
            /\ h.tainted = p.damaged /\ h.secbuf_base = <<>> /\ h.secbufp = 0
<1> DEFINE h == Fresh(f, p)
<1>0. f \in FeedRec /\ p.damaged \in BOOLEAN
  BY DEF Typed, PacketOK
<1>e. PICK e \in Seq(Bytes) : e = <<>>
  <2>1. <<>> \in Seq(Bytes)
    BY EmptySeq
  <2> QED
    BY <2>1
<1>1. h = [f EXCEPT !.pusi_seen = TRUE, !.tainted = p.damaged,
                    !.secbuf_base = e, !.secbufp = 0]
  BY <1>0, <1>e DEF Fresh, section_new, FeedRec
<1> HIDE DEF h
<1>2. /\ h \in FeedRec /\ h.cc = f.cc /\ h.out = f.out /\ h.pusi_seen = TRUE
      /\ h.tainted = p.damaged /\ h.secbuf_base = e /\ h.secbufp = 0
  BY <1>0, <1>1 DEF FeedRec
<1>3. Typed(h, n)
  BY <1>2, <1>e, Sizes DEF Typed
<1> QED
  BY <1>2, <1>3, <1>e DEF h

\* The bytes before and after the pointer.
LEMMA PartsIs ==
  ASSUME NEW n, NEW p, PacketOK(p, n), p.pusi, p.pointer < p.count
  PROVE  /\ Before(p) \in Seq(Bytes) /\ Len(Before(p)) = p.pointer
         /\ \A i \in 1..p.pointer : i \in 1..Len(p.bytes) /\ Before(p)[i] = p.bytes[i]
         /\ From(p) \in Seq(Bytes) /\ Len(From(p)) = Len(p.bytes) - p.pointer
         /\ \A i \in 1..(Len(p.bytes) - p.pointer) :
              p.pointer + i \in 1..Len(p.bytes) /\ From(p)[i] = p.bytes[p.pointer + i]
<1> DEFINE b == p.bytes
           q == p.pointer
<1>1. b \in Seq(Bytes) /\ Len(b) \in Nat /\ q \in Nat /\ q <= Len(b) /\ p.count \in Nat
  BY DEF PacketOK
<1>2. Before(p) = SubSeq(b, 1, q) /\ From(p) = SubSeq(b, q + 1, Len(b))
  BY DEF Before, From
<1> HIDE DEF b, q
<1>3. /\ \A i \in 1..q : b[i] \in Bytes
      /\ \A i \in (q + 1)..Len(b) : b[i] \in Bytes
  BY <1>1
<1>4. /\ SubSeq(b, 1, q) \in Seq(Bytes)
      /\ Len(SubSeq(b, 1, q)) = IF 1 <= q THEN q - 1 + 1 ELSE 0
      /\ \A i \in 1..(q - 1 + 1) : SubSeq(b, 1, q)[i] = b[1 + i - 1]
  BY <1>1, <1>3, SubSeqProperties
<1>5. /\ SubSeq(b, q + 1, Len(b)) \in Seq(Bytes)
      /\ Len(SubSeq(b, q + 1, Len(b))) = IF q + 1 <= Len(b) THEN Len(b) - (q + 1) + 1 ELSE 0
      /\ \A i \in 1..(Len(b) - (q + 1) + 1) : SubSeq(b, q + 1, Len(b))[i] = b[(q + 1) + i - 1]
  BY <1>1, <1>3, SubSeqProperties
<1>6. \A i \in 1..q : i \in 1..Len(b) /\ SubSeq(b, 1, q)[i] = b[i]
  BY <1>1, <1>4
<1>7. \A i \in 1..(Len(b) - q) : q + i \in 1..Len(b) /\ SubSeq(b, q + 1, Len(b))[i] = b[q + i]
  <2> TAKE i \in 1..(Len(b) - q)
  <2>1. /\ q + i \in 1..Len(b) /\ i \in 1..(Len(b) - (q + 1) + 1) /\ (q + 1) + i - 1 = q + i
    BY <1>1
  <2> QED
    BY <2>1, <1>5
<1>8. Len(SubSeq(b, 1, q)) = q /\ Len(SubSeq(b, q + 1, Len(b))) = Len(b) - q
  BY <1>1, <1>4, <1>5
<1> QED
  BY <1>2, <1>4, <1>5, <1>6, <1>7, <1>8 DEF b, q

\* An empty buffer and a new header do not disturb the order.
LEMMA EmptyInOrder ==
  ASSUME NEW f, InOrder(f), NEW h, h.out = f.out,
         \/ h.secbuf_base = <<>>
         \/ h.secbuf_base = f.secbuf_base /\ h.secbufp = f.secbufp
  PROVE  InOrder(h)
<1>1. CASE h.secbuf_base = <<>>
  <2>1. Len(h.secbuf_base) = 0
    BY <1>1
  <2>2. \A i \in 1..Len(h.secbuf_base) : FALSE
    BY <2>1
  <2> QED
    BY <2>2 DEF InOrder, StartsInOrder, Later
<1>2. CASE h.secbuf_base = f.secbuf_base /\ h.secbufp = f.secbufp
  BY <1>2 DEF InOrder
<1> QED
  BY <1>1, <1>2

\* Both parts of a packet hold bytes of sections sent so far.
LEMMA PartIds ==
  ASSUME NEW n, NEW p, PacketOK(p, n), p.pusi, p.pointer < p.count
  PROVE  /\ \A i \in 1..Len(Before(p)) : Before(p)[i].id <= n
         /\ \A i \in 1..Len(From(p)) : From(p)[i].id <= n
<1>1. \A i \in 1..Len(p.bytes) : p.bytes[i].id <= n
  BY DEF PacketOK
<1>2. ASSUME NEW i \in 1..Len(Before(p)) PROVE Before(p)[i].id <= n
  <2>1. i \in 1..Len(p.bytes) /\ Before(p)[i] = p.bytes[i]
    BY PartsIs
  <2> QED
    BY <2>1, <1>1
<1>3. ASSUME NEW i \in 1..Len(From(p)) PROVE From(p)[i].id <= n
  <2>1. p.pointer + i \in 1..Len(p.bytes) /\ From(p)[i] = p.bytes[p.pointer + i]
    BY PartsIs
  <2> QED
    BY <2>1, <1>1
<1> QED
  BY <1>2, <1>3

\* Extending twice is extending.
LEMMA ExtendsTransitive ==
  ASSUME NEW k \in Seq(Given), NEW l \in Seq(Given), NEW m \in Seq(Given),
         Extends(m, l), Extends(l, k)
  PROVE  Extends(m, k)
<1>1. Len(k) \in Nat /\ Len(l) \in Nat /\ Len(m) \in Nat
  OBVIOUS
<1> QED
  BY <1>1 DEF Extends

\* Whatever the packet is, the feed keeps its type and what it was given.
LEMMA HandleTyped ==
  ASSUME NEW n \in Nat, NEW f, Typed(f, n), ParamsOK, NEW p, PacketOK(p, n)
  PROVE  LET g == section_packet(f, p)
         IN Typed(g, n) /\ g.cc = p.cc /\ Extends(g.out, f.out)
<1> DEFINE g == section_packet(f, p)
           h == Opened(f, p)
           b == copy_dump(h, Before(p))
           e == Fresh(b, p)
<1>0. p.bytes \in Seq(Bytes) /\ \A i \in 1..Len(p.bytes) : p.bytes[i].id <= n
  BY DEF PacketOK
<1>1. Typed(h, n) /\ h.cc = p.cc /\ h.out = f.out
  BY OpenedIs
<1>2. CASE ~p.pusi
  <2>1. g = copy_dump(h, p.bytes)
    BY <1>2, PacketCases
  <2> HIDE DEF h
  <2>2. LET x == copy_dump(h, p.bytes) IN Typed(x, n) /\ x.cc = h.cc
    BY <1>0, <1>1, CopyFields
  <2>3. Extends(copy_dump(h, p.bytes).out, h.out)
    BY <1>0, <1>1, CopyExtends
  <2> HIDE DEF g
  <2> QED
    BY <2>1, <2>2, <2>3, <1>1 DEF g
<1>3. CASE p.pusi /\ p.count > 1 /\ p.pointer < p.count
  <2>0. /\ Before(p) \in Seq(Bytes) /\ From(p) \in Seq(Bytes)
        /\ \A i \in 1..Len(Before(p)) : Before(p)[i].id <= n
        /\ \A i \in 1..Len(From(p)) : From(p)[i].id <= n
    BY <1>3, PartIds, PartsIs
  <2>1. g = copy_dump(e, From(p))
    BY <1>3, PacketCases
  <2>2. Typed(b, n) /\ b.cc = h.cc /\ Extends(b.out, h.out)
    <3> HIDE DEF h
    <3> QED
      BY <2>0, <1>1, CopyFields, CopyExtends
  <2> HIDE DEF b
  <2>3. Typed(e, n) /\ e.cc = b.cc /\ e.out = b.out
    BY <2>2, FreshIs
  <2> HIDE DEF e
  <2>4. Typed(copy_dump(e, From(p)), n) /\ copy_dump(e, From(p)).cc = e.cc
        /\ Extends(copy_dump(e, From(p)).out, e.out)
    BY <2>0, <2>3, CopyFields, CopyExtends
  <2> HIDE DEF g, h
  <2>5. Typed(g, n) /\ g.cc = p.cc
    BY <2>1, <2>2, <2>3, <2>4, <1>1
  <2>6. f.out \in Seq(Given) /\ b.out \in Seq(Given) /\ g.out \in Seq(Given)
    BY <2>2, <2>5 DEF Typed, FeedRec
  <2>7. Extends(g.out, f.out)
    <3>1. Extends(g.out, b.out) /\ Extends(b.out, f.out)
      BY <2>1, <2>2, <2>3, <2>4, <1>1
    <3> QED
      BY <3>1, <2>6, ExtendsTransitive
  <2> QED
    BY <2>5, <2>7 DEF g
<1>4. CASE p.pusi /\ ~(p.count > 1 /\ p.pointer < p.count)
  <2>1. g = h
    BY <1>4, PacketCases
  <2>2. Extends(f.out, f.out)
    <3>1. Len(f.out) \in Nat
      <4>1. f.out \in Seq(Given)
        BY DEF Typed, FeedRec
      <4> QED
        BY <4>1
    <3> QED
      BY <3>1 DEF Extends
  <2> HIDE DEF g, h
  <2> QED
    BY <2>1, <2>2, <1>1 DEF g
<1>5. p.pusi \in BOOLEAN
  BY DEF PacketOK
<1> QED
  BY <1>2, <1>3, <1>4, <1>5

\* A packet in which no section begins.
LEMMA HandleContinues ==
  ASSUME NEW s \in Seq(Sections), NEW f, Typed(f, Len(s)), ParamsOK, OnlyWhole(f.out),
         NEW p, PacketOK(p, Len(s)), ~p.pusi, ~p.damaged,
         NEW a, NEW z, Continues(p.bytes, s, a, z),
         Accepts(f, p) => Synced(f, s, a)
  PROVE  LET g == section_packet(f, p)
         IN /\ OnlyWhole(g.out) /\ Synced(g, s, z)
            /\ InOrder(f) => InOrder(g)
            /\ Accepts(f, p) /\ f.pusi_seen /\ ~f.tainted =>
                 /\ g.pusi_seen /\ ~g.tainted
                 /\ InProgress(f, s, a) =>
                      IF z = Last(s).len THEN GivenOut(g.out, Len(s), Last(s).table)
                      ELSE InProgress(g, s, z)
<1> DEFINE g == section_packet(f, p)
           h == Opened(f, p)
           c == p.bytes
<1>0. /\ c \in Seq(Bytes) /\ Len(s) \in Nat /\ \A i \in 1..Len(c) : c[i].id <= Len(s)
  BY DEF PacketOK
<1>1. g = copy_dump(h, c)
  BY PacketCases
<1>2. /\ Typed(h, Len(s)) /\ h.out = f.out
      /\ h.tainted <=> (f.tainted \/ p.damaged)
      /\ IF Accepts(f, p)
         THEN /\ h.secbuf_base = f.secbuf_base /\ h.secbufp = f.secbufp
              /\ h.pusi_seen = f.pusi_seen
         ELSE h.secbuf_base = <<>> /\ h.secbufp = 0 /\ ~h.pusi_seen
  BY <1>0, OpenedIs
<1> HIDE DEF h, g
<1>3. Synced(h, s, a)
  BY <1>2 DEF Synced
<1>4. OnlyWhole(g.out) /\ Synced(g, s, z)
  BY <1>1, <1>2, <1>3, CopyContinues
<1>5. ASSUME InOrder(f) PROVE InOrder(g)
  <2>1. InOrder(h)
    BY <1>2, <1>5, EmptyInOrder
  <2>2. \A i \in 1..Len(c) : ~IsStart(c[i])
    BY ContinuesIs
  <2>3. StartsInOrder(c)
    BY <2>2 DEF StartsInOrder
  <2> QED
    BY <2>1, <2>2, <2>3, <1>0, <1>1, <1>2, CopyInOrder
<1>6. ASSUME Accepts(f, p), f.pusi_seen, ~f.tainted
      PROVE  /\ g.pusi_seen /\ ~g.tainted
             /\ InProgress(f, s, a) =>
                  IF z = Last(s).len THEN GivenOut(g.out, Len(s), Last(s).table)
                  ELSE InProgress(g, s, z)
  <2>1. h.pusi_seen /\ ~h.tainted
    BY <1>2, <1>6
  <2>2. g.pusi_seen = h.pusi_seen /\ g.tainted = h.tainted
    BY <1>0, <1>1, <1>2, CopyFields
  <2>3. Aligned(h.secbuf_base, h.secbufp, s) /\ InStep(h.secbuf_base, s, a)
    BY <2>1, <1>3 DEF Synced
  <2>4. ASSUME InProgress(f, s, a)
        PROVE  IF z = Last(s).len THEN GivenOut(g.out, Len(s), Last(s).table)
               ELSE InProgress(g, s, z)
    <3>1. InProgress(h, s, a)
      BY <2>4, <1>2, <1>6 DEF InProgress
    <3>2. OnlyWhole(h.out)
      BY <1>2
    <3> QED
      BY <3>1, <3>2, <2>1, <2>3, <1>1, <1>2, CopyCompletes
  <2> QED
    BY <2>1, <2>2, <2>4
<1> QED
  BY <1>4, <1>5, <1>6 DEF g

\* A damaged packet that is handled.
LEMMA HandleDamaged ==
  ASSUME NEW n \in Nat, NEW f, Typed(f, n), ParamsOK, OnlyWhole(f.out),
         NEW p, PacketOK(p, n), p.damaged, \A i \in 1..Len(p.bytes) : p.bytes[i].id = 0
  PROVE  LET g == section_packet(f, p)
         IN /\ g.tainted /\ OnlyWhole(g.out)
            /\ InOrder(f) => InOrder(g)
<1> DEFINE g == section_packet(f, p)
           h == Opened(f, p)
           b == copy_dump(h, Before(p))
           e == Fresh(b, p)
           None(c) == /\ c \in Seq(Bytes) /\ \A i \in 1..Len(c) : c[i].id <= n
                      /\ \A i \in 1..Len(c) : ~IsStart(c[i])
<1>0. None(p.bytes)
  BY DEF PacketOK, IsStart
<1>1. /\ Typed(h, n) /\ h.out = f.out /\ h.tainted
      /\ \/ h.secbuf_base = <<>>
         \/ h.secbuf_base = f.secbuf_base /\ h.secbufp = f.secbufp
  BY OpenedIs
<1>2. ASSUME NEW k, NEW c, Typed(k, n), OnlyWhole(k.out), k.tainted, None(c)
      PROVE  /\ Typed(copy_dump(k, c), n) /\ OnlyWhole(copy_dump(k, c).out)
             /\ copy_dump(k, c).tainted
             /\ InOrder(k) => InOrder(copy_dump(k, c))
  <2>1. Typed(copy_dump(k, c), n) /\ copy_dump(k, c).tainted = k.tainted
    BY <1>2, CopyFields
  <2>2. OnlyWhole(copy_dump(k, c).out)
    BY <1>2, CopyTainted
  <2>3. StartsInOrder(c)
    BY <1>2 DEF StartsInOrder
  <2>4. InOrder(k) => InOrder(copy_dump(k, c))
    BY <2>3, <1>2, CopyInOrder
  <2> QED
    BY <2>1, <2>2, <2>4, <1>2
<1>3. InOrder(f) => InOrder(h)
  <2> HIDE DEF h
  <2> QED
    BY <1>1, EmptyInOrder
<1>4. OnlyWhole(h.out)
  BY <1>1
<1>5. CASE ~p.pusi
  <2>1. g = copy_dump(h, p.bytes)
    BY <1>5, PacketCases
  <2> HIDE DEF g, h, None
  <2> QED
    BY <2>1, <1>0, <1>1, <1>2, <1>3, <1>4 DEF g
<1>6. CASE p.pusi /\ p.count > 1 /\ p.pointer < p.count
  <2>1. g = copy_dump(e, From(p))
    BY <1>6, PacketCases
  <2>2. None(Before(p)) /\ None(From(p))
    <3>1. /\ Before(p) \in Seq(Bytes) /\ From(p) \in Seq(Bytes)
          /\ \A i \in 1..Len(Before(p)) : Before(p)[i].id <= n
          /\ \A i \in 1..Len(From(p)) : From(p)[i].id <= n
      BY <1>6, PartIds, PartsIs
    <3>2. ASSUME NEW i \in 1..Len(Before(p)) PROVE ~IsStart(Before(p)[i])
      <4>1. i \in 1..Len(p.bytes) /\ Before(p)[i] = p.bytes[i]
        BY <1>6, PartsIs
      <4> QED
        BY <4>1, <1>0
    <3>3. ASSUME NEW i \in 1..Len(From(p)) PROVE ~IsStart(From(p)[i])
      <4>1. p.pointer + i \in 1..Len(p.bytes) /\ From(p)[i] = p.bytes[p.pointer + i]
        BY <1>6, PartsIs
      <4> QED
        BY <4>1, <1>0
    <3> QED
      BY <3>1, <3>2, <3>3
  <2> HIDE DEF None, h
  <2>3. Typed(b, n) /\ OnlyWhole(b.out) /\ (InOrder(f) => InOrder(b))
    BY <2>2, <1>1, <1>2, <1>3, <1>4
  <2> HIDE DEF b
  <2>4. Typed(e, n) /\ e.out = b.out /\ e.tainted = p.damaged /\ e.secbuf_base = <<>>
    BY <2>3, FreshIs
  <2> HIDE DEF e
  <2>5. InOrder(f) => InOrder(e)
    BY <2>3, <2>4, EmptyInOrder
  <2>6. e.tainted /\ OnlyWhole(e.out)
    BY <2>3, <2>4
  <2> HIDE DEF g
  <2> QED
    BY <2>1, <2>2, <2>4, <2>5, <2>6, <1>2 DEF g
<1>7. CASE p.pusi /\ ~(p.count > 1 /\ p.pointer < p.count)
  <2>1. g = h
    BY <1>7, PacketCases
  <2> HIDE DEF g, h
  <2> QED
    BY <2>1, <1>1, <1>3, <1>4 DEF g
<1>8. p.pusi \in BOOLEAN
  BY DEF PacketOK
<1> QED
  BY <1>5, <1>6, <1>7, <1>8

\* s goes on where k ends.
Prefix(k, s) == Len(k) <= Len(s) /\ \A i \in 1..Len(k) : s[i] = k[i]

\* A packet in which the sections of s after those of k begin, and that completes the
\* last one of k before if a part of it is missing.
LEMMA HandleBegins ==
  ASSUME NEW k \in Seq(Sections), NEW s \in Seq(Sections),
         NEW f, Typed(f, Len(s)), ParamsOK, OnlyWhole(f.out),
         NEW p, PacketOK(p, Len(s)), p.pusi, ~p.damaged, p.count > 1, p.pointer < p.count,
         NEW a, NEW z, Begins(From(p), Len(k), s, z),
         p.pointer > 0 => Continues(Before(p), k, a, Last(k).len),
         Accepts(f, p) => Typed(f, Len(k)) /\ Synced(f, k, a)
  PROVE  LET g == section_packet(f, p)
         IN /\ OnlyWhole(g.out) /\ Synced(g, s, z) /\ g.pusi_seen /\ ~g.tainted
            /\ InOrder(f) /\ Typed(f, Len(k)) => InOrder(g)
            /\ z # Last(s).len => InProgress(g, s, z)
            /\ \A i \in (Len(k) + 1)..Len(s) :
                 (i = Len(s) => z = Last(s).len) => GivenOut(g.out, i, s[i].table)
            /\ (/\ Accepts(f, p) /\ f.pusi_seen /\ ~f.tainted
                /\ p.pointer > 0 /\ InProgress(f, k, a))
               => GivenOut(g.out, Len(k), Last(k).table)
<1> DEFINE g == section_packet(f, p)
           h == Opened(f, p)
           c == Before(p)
           b == copy_dump(h, c)
           e == Fresh(b, p)
           d == From(p)
<1>0. /\ Len(s) \in Nat /\ Len(k) \in Nat /\ p.pointer \in Nat
      /\ c \in Seq(Bytes) /\ Len(c) = p.pointer /\ \A i \in 1..Len(c) : c[i].id <= Len(s)
      /\ d \in Seq(Bytes) /\ \A i \in 1..Len(d) : d[i].id <= Len(s)
  <2>1. p.pointer \in Nat
    BY DEF PacketOK
  <2> QED
    BY <2>1, PartIds, PartsIs
<1>1. g = copy_dump(e, d)
  BY PacketCases
<1>2. /\ Typed(h, Len(s)) /\ h.out = f.out
      /\ Typed(f, Len(k)) => Typed(h, Len(k))
      /\ h.tainted <=> (f.tainted \/ p.damaged)
      /\ IF Accepts(f, p)
         THEN /\ h.secbuf_base = f.secbuf_base /\ h.secbufp = f.secbufp
              /\ h.pusi_seen = f.pusi_seen
         ELSE h.secbuf_base = <<>> /\ h.secbufp = 0 /\ ~h.pusi_seen
  BY <1>0, OpenedIs
<1> HIDE DEF h, g, c, d
<1>3. \A i \in 1..Len(c) : c[i].id <= Len(k) /\ ~IsStart(c[i])
  <2>1. CASE p.pointer = 0
    BY <2>1, <1>0
  <2>2. CASE p.pointer > 0
    <3>1. Continues(c, k, a, Last(k).len)
      BY <2>2 DEF c
    <3>2. Genuine(c, k) /\ \A i \in 1..Len(c) : ~IsStart(c[i])
      BY <3>1, ContinuesIs
    <3> QED
      BY <3>2, <1>0, GenuineIds
  <2> QED
    BY <2>1, <2>2, <1>0
<1>4. Synced(h, k, a)
  BY <1>2 DEF Synced
<1>5. Typed(b, Len(s)) /\ OnlyWhole(b.out)
  <2>1. Typed(b, Len(s))
    BY <1>0, <1>2, CopyFields
  <2>2. CASE p.pointer = 0
    <3>1. b = h \/ \E m, x, r : Copied(h, c, m, x, r, b)
      BY <1>0, <1>2, CopyFields
    <3> HIDE DEF b
    <3>2. ~\E m, x, r : Copied(h, c, m, x, r, b)
      <4>1. Len(c) = 0
        BY <2>2, <1>0
      <4>2. \A m : m \notin 1..Len(c)
        BY <4>1
      <4> QED
        BY <4>2 DEF Copied
    <3> QED
      BY <2>1, <3>1, <3>2, <1>2
  <2>3. CASE p.pointer > 0
    <3>1. CASE ~h.pusi_seen \/ h.tainted
      BY <2>1, <3>1, <1>0, <1>2, CopyTainted
    <3>2. CASE h.pusi_seen /\ ~h.tainted
      <4>1. Accepts(f, p) /\ Typed(h, Len(k))
        BY <3>2, <1>2
      <4>2. Continues(c, k, a, Last(k).len)
        BY <2>3 DEF c
      <4>3. OnlyWhole(h.out)
        BY <1>2
      <4> QED
        BY <2>1, <4>1, <4>2, <4>3, <1>4, CopyContinues
    <3>3. h.pusi_seen \in BOOLEAN /\ h.tainted \in BOOLEAN
      BY <1>2 DEF Typed, FeedRec
    <3> QED
      BY <2>1, <3>1, <3>2, <3>3
  <2> QED
    BY <2>1, <2>2, <2>3, <1>0
<1>6. /\ Typed(e, Len(s)) /\ e.out = b.out /\ e.pusi_seen
      /\ e.tainted = p.damaged /\ e.secbuf_base = <<>> /\ e.secbufp = 0
  <2> HIDE DEF b
  <2> QED
    BY <1>0, <1>5, FreshIs
<1>7. OnlyWhole(e.out)
  <2> HIDE DEF b, e
  <2> QED
    BY <1>5, <1>6
<1>8. g.pusi_seen = e.pusi_seen /\ g.tainted = e.tainted /\ Extends(g.out, e.out)
  <2> HIDE DEF e
  <2> QED
    BY <1>0, <1>1, <1>6, CopyFields, CopyExtends
<1>9. ASSUME InOrder(f), Typed(f, Len(k)) PROVE InOrder(g)
  <2>1. InOrder(h) /\ Typed(h, Len(k))
    BY <1>2, <1>9, EmptyInOrder
  <2>2. StartsInOrder(c)
    BY <1>3 DEF StartsInOrder
  <2>3. InOrder(b)
    BY <2>1, <2>2, <1>0, <1>2, <1>3, CopyInOrder
  <2>4. Typed(b, Len(k))
    BY <2>1, <1>0, <1>3, CopyFields
  <2> HIDE DEF b
  <2>5. InOrder(e) /\ Typed(e, Len(k))
    <3>1. Typed(e, Len(k))
      BY <2>4, <1>0, FreshIs
    <3> HIDE DEF e
    <3> QED
      BY <3>1, <2>3, <1>6, EmptyInOrder
  <2>6. StartsInOrder(d) /\ \A i \in 1..Len(d) : IsStart(d[i]) => d[i].id > Len(k)
    BY DEF Begins, d
  <2> HIDE DEF e
  <2> QED
    BY <2>5, <2>6, <1>0, <1>1, <1>6, CopyInOrder
<1>10. /\ OnlyWhole(g.out) /\ Synced(g, s, z)
       /\ \A i \in (Len(k) + 1)..Len(s) :
            (i = Len(s) => z = Last(s).len) => GivenOut(g.out, i, s[i].table)
       /\ z # Last(s).len => InProgress(g, s, z)
  <2> HIDE DEF e
  <2>1. Begins(d, Len(k), s, z)
    BY DEF d
  <2> QED
    BY <2>1, <1>1, <1>6, <1>7, CopyBegins
<1>11. ASSUME Accepts(f, p), f.pusi_seen, ~f.tainted, p.pointer > 0, InProgress(f, k, a)
       PROVE  GivenOut(g.out, Len(k), Last(k).table)
  <2>1. h.pusi_seen /\ ~h.tainted /\ Typed(h, Len(k)) /\ OnlyWhole(h.out)
    BY <1>2, <1>11
  <2>2. Aligned(h.secbuf_base, h.secbufp, k) /\ InStep(h.secbuf_base, k, a)
    BY <2>1, <1>4 DEF Synced
  <2>3. InProgress(h, k, a)
    BY <1>2, <1>11 DEF InProgress
  <2>4. Continues(c, k, a, Last(k).len)
    BY <1>11 DEF c
  <2>5. GivenOut(b.out, Len(k), Last(k).table)
    BY <2>1, <2>2, <2>3, <2>4, CopyCompletes
  <2> HIDE DEF b, e
  <2> QED
    BY <2>5, <1>6, <1>8, GivenStays
<1>12. g.pusi_seen /\ ~g.tainted
  <2> HIDE DEF e
  <2> QED
    BY <1>6, <1>8
<1> QED
  BY <1>9, <1>10, <1>11, <1>12 DEF g

-----------------------------------------------------------------------------
(***************************************************************************)
(* The sender.                                                             *)
(***************************************************************************)
\* The recursion of FlattenSeq.
LEMMA FlattenIs ==
  ASSUME NEW w, Len(w) \in Nat, Len(w) > 0
  PROVE  \E g : /\ g[1] = w[1]
                /\ \A i \in 2..Len(w) : g[i] = g[i - 1] \o w[i]
                /\ FlattenSeq(w) = g[Len(w)]
<1> DEFINE N == Len(w)
           Case(g, i) == IF i = 1 THEN w[i] ELSE g[i - 1] \o w[i]
           Partial(g, n) == g = [i \in 1..n |-> Case(g, i)]
<1>0. N \in Nat /\ N > 0
  OBVIOUS
<1>1. \A i, g, h : (i # 1 => g[i - 1] = h[i - 1]) => Case(g, i) = Case(h, i)
  OBVIOUS
<1>2. \A n \in 0..N : \E g : Partial(g, n)
  <2> HIDE DEF Case
  <2> DEFINE T == {n \in 0..N : ~\E g : Partial(g, n)}
  <2> SUFFICES ASSUME T # {} PROVE FALSE
    OBVIOUS
  <2>0. T \subseteq Nat
    BY <1>0
  <2>1. PICK n \in T : \A m \in T : n <= m
    <3> HIDE DEF T
    <3> QED
      BY <2>0, LeastElement
  <2>2. n \in 0..N /\ ~\E g : Partial(g, n)
    BY <2>1
  <2>3. n # 0
    <3>1. ASSUME n = 0 PROVE FALSE
      <4> DEFINE g == [i \in 1..0 |-> Case(<<>>, i)]
      <4>1. \A i \in 1..0 : Case(g, i) = Case(<<>>, i)
        OBVIOUS
      <4>2. Partial(g, 0)
        BY <4>1
      <4> QED
        BY <4>2, <2>2, <3>1
    <3> QED
      BY <3>1
  <2>4. n - 1 \in 0..N /\ n - 1 \notin T /\ n \in Nat
    <3>1. n - 1 \in 0..N /\ ~(n <= n - 1) /\ n \in Nat
      BY <2>2, <2>3, <1>0
    <3> HIDE DEF T
    <3> QED
      BY <3>1, <2>1
  <2>5. PICK g : Partial(g, n - 1)
    BY <2>4
  <2> DEFINE h == [i \in 1..n |-> IF i = n THEN Case(g, i) ELSE g[i]]
  <2>6. ASSUME NEW i \in 1..n PROVE h[i] = Case(h, i)
    <3>1. i # 1 => h[i - 1] = g[i - 1]
      BY <2>4
    <3>2. Case(h, i) = Case(g, i)
      BY <3>1, <1>1
    <3>3. CASE i = n
      BY <3>2, <3>3
    <3>4. CASE i # n
      <4>1. i \in 1..(n - 1)
        BY <3>4, <2>4
      <4>2. g[i] = Case(g, i)
        BY <4>1, <2>5
      <4> QED
        BY <4>2, <3>2, <3>4
    <3> QED
      BY <3>3, <3>4
  <2>7. Partial(h, n)
    BY <2>6
  <2> QED
    BY <2>7, <2>2
<1> DEFINE flatten == CHOOSE g : g = [i \in 1..N |-> Case(g, i)]
<1>3. flatten = [i \in 1..N |-> Case(flatten, i)]
  <2> HIDE DEF Case
  <2>1. \E g : Partial(g, N)
    BY <1>2, <1>0
  <2> QED
    BY <2>1
<1>4. FlattenSeq(w) = flatten[N]
  BY <1>0 DEF FlattenSeq
<1> HIDE DEF flatten
<1>5. flatten[1] = w[1] /\ \A i \in 2..N : flatten[i] = flatten[i - 1] \o w[i]
  <2>1. \A i \in 1..N : flatten[i] = Case(flatten, i)
    <3> HIDE DEF Case
    <3> QED
      BY <1>3
  <2>2. 1 \in 1..N /\ \A i \in 2..N : i \in 1..N /\ i # 1
    BY <1>0
  <2> QED
    BY <2>1, <2>2
<1> QED
  BY <1>4, <1>5

\* b holds the first i of the sections new, which have the numbers after k.
Chained(b, k, new, i) ==
  /\ b \in Seq(Bytes) /\ Len(b) >= new[i].len
  /\ Linked(b) /\ b[1] = Byte(k + 1, 0, new[1])
  /\ b[Len(b)] = Byte(k + i, new[i].len - 1, new[i])
  /\ \A j \in 1..Len(b) : /\ b[j].id \in (k + 1)..(k + i) /\ b[j].sec = new[b[j].id - k]
                          /\ b[j].k < b[j].sec.len
  /\ StartsInOrder(b)
  /\ \A l \in 1..i : \E y \in Nat :
       /\ b[y + 1] = Byte(k + l, 0, new[l])
       /\ IF l = i THEN y + new[l].len = Len(b) ELSE y + new[l].len <= Len(b) - new[i].len

\* The bytes of a section from offset k on.
LEMMA BytesFromIs ==
  ASSUME NEW id \in Nat, id # 0, NEW sec \in Sections, NEW k \in 0..sec.len
  PROVE  LET u == BytesFrom(id, sec, k)
         IN /\ u \in Seq(Bytes) /\ Len(u) = sec.len - k
            /\ \A j \in 1..(sec.len - k) : u[j] = Byte(id, k + j - 1, sec)
<1> DEFINE n == sec.len - k
           B(j) == Byte(id, k + j - 1, sec)
           u == [j \in 1..n |-> B(j)]
<1>1. sec.len \in Nat /\ sec \in Secs /\ sec.len - k \in Nat /\ k \in Nat
  <2>1. sec.len \in Nat /\ sec \in Secs
    BY SecLengths, Sizes
  <2> QED
    BY <2>1
<1>2. \A j \in 1..n : k + j - 1 \in Nat
  BY <1>1
<1>3. \A j \in 1..n : B(j) \in Bytes
  BY <1>1, <1>2 DEF Byte, Bytes
<1>4. BytesFrom(id, sec, k) = u
  BY DEF BytesFrom
<1> HIDE DEF B, n
<1>5. n \in Nat
  BY <1>1 DEF n
<1>6. u \in Seq(Bytes) /\ Len(u) = n
  <2>1. u \in [1..n -> Bytes]
    BY <1>3
  <2> QED
    BY <2>1, <1>5, SeqDef
<1>7. \A j \in 1..n : u[j] = B(j)
  OBVIOUS
<1> HIDE DEF u
<1> QED
  BY <1>4, <1>6, <1>7 DEF B, n

\* The first of the sections that are sent next.
LEMMA ChainBase ==
  ASSUME NEW k \in Nat, NEW new \in Seq(Sections), Len(new) > 0
  PROVE  Chained(BytesFrom(k + 1, new[1], 0), k, new, 1)
<1> DEFINE u == BytesFrom(k + 1, new[1], 0)
           L == new[1].len
<1>1. new[1] \in Sections /\ L \in Nat /\ L >= 3
  <2>1. 1 \in 1..Len(new)
    OBVIOUS
  <2>2. new[1] \in Sections
    BY <2>1
  <2> QED
    BY <2>2, SecLengths, Sizes
<1>2. u \in Seq(Bytes) /\ Len(u) = L /\ \A j \in 1..L : u[j] = Byte(k + 1, j - 1, new[1])
  <2>1. 0 \in 0..new[1].len /\ new[1].len - 0 = L /\ k + 1 \in Nat /\ k + 1 # 0
    BY <1>1
  <2>2. /\ u \in Seq(Bytes) /\ Len(u) = new[1].len - 0
        /\ \A j \in 1..(new[1].len - 0) : u[j] = Byte(k + 1, 0 + j - 1, new[1])
    BY <2>1, <1>1, BytesFromIs
  <2>3. \A j \in 1..L : 0 + j - 1 = j - 1
    OBVIOUS
  <2> HIDE DEF u
  <2> QED
    BY <2>1, <2>2, <2>3
<1> HIDE DEF u, L
<1>3. \A j \in 1..L : /\ u[j].id = k + 1 /\ u[j].k = j - 1 /\ u[j].sec = new[1]
                      /\ u[j].sec.len = L
  <2> TAKE j \in 1..L
  <2>1. u[j] = Byte(k + 1, j - 1, new[1])
    BY <1>2
  <2>2. u[j].id = k + 1 /\ u[j].k = j - 1 /\ u[j].sec = new[1]
    BY <2>1 DEF Byte
  <2> QED
    BY <2>2 DEF L
<1>4. Linked(u)
  <2> SUFFICES ASSUME NEW j \in 1..(Len(u) - 1) PROVE Follows(u[j], u[j + 1])
    BY DEF Linked
  <2>1. j \in 1..L /\ j + 1 \in 1..L /\ j \in Nat /\ j - 1 + 1 < L /\ (j + 1) - 1 = (j - 1) + 1
    BY <1>1, <1>2
  <2>2. u[j].id # 0 /\ u[j].k + 1 < u[j].sec.len
    BY <2>1, <1>3
  <2>3. u[j + 1] = Byte(u[j].id, u[j].k + 1, u[j].sec)
    BY <2>1, <1>2, <1>3
  <2> QED
    BY <2>2, <2>3 DEF Follows
<1>5. u[1] = Byte(k + 1, 0, new[1]) /\ u[L] = Byte(k + 1, L - 1, new[1])
  <2>1. 1 \in 1..L /\ L \in 1..L /\ 1 - 1 = 0
    BY <1>1
  <2> QED
    BY <2>1, <1>2
<1>6. \A j \in 1..Len(u) : /\ u[j].id \in (k + 1)..(k + 1) /\ u[j].sec = new[u[j].id - k]
                           /\ u[j].k < u[j].sec.len
  <2> TAKE j \in 1..Len(u)
  <2>1. j \in 1..L /\ j - 1 < L /\ (k + 1) - k = 1
    BY <1>1, <1>2
  <2> QED
    BY <2>1, <1>3
<1>7. StartsInOrder(u)
  <2> SUFFICES ASSUME NEW i \in 1..L, NEW j \in 1..L, i < j, IsStart(u[j]) PROVE FALSE
    BY <1>2 DEF StartsInOrder
  <2>1. u[j].k = j - 1 /\ j - 1 # 0
    BY <1>1, <1>3
  <2> QED
    BY <2>1 DEF IsStart
<1>8. \A l \in 1..1 : \E y \in Nat :
       /\ u[y + 1] = Byte(k + l, 0, new[l])
       /\ IF l = 1 THEN y + new[l].len = Len(u) ELSE y + new[l].len <= Len(u) - new[1].len
  <2>1. 0 + 1 = 1 /\ 0 + L = Len(u) /\ 0 \in Nat
    BY <1>1, <1>2
  <2> TAKE l \in 1..1
  <2>2. l = 1
    OBVIOUS
  <2> QED
    BY <2>1, <2>2, <1>5 DEF L
<1>9. Len(u) >= L /\ u[Len(u)] = Byte(k + 1, L - 1, new[1])
  BY <1>1, <1>2, <1>5
<1> QED
  BY <1>2, <1>4, <1>5, <1>6, <1>7, <1>8, <1>9 DEF Chained, u, L

\* One more section behind those before it.
LEMMA ChainStep ==
  ASSUME NEW k \in Nat, NEW new \in Seq(Sections), NEW i \in 1..(Len(new) - 1),
         NEW b, Chained(b, k, new, i)
  PROVE  Chained(b \o BytesFrom(k + (i + 1), new[i + 1], 0), k, new, i + 1)
<1> DEFINE u == BytesFrom(k + (i + 1), new[i + 1], 0)
           L == new[i + 1].len
           M == new[i].len
           d == b \o u
           N == Len(b)
           B(j) == Byte(k + (i + 1), j - 1, new[i + 1])
<1>1. /\ new[i + 1] \in Sections /\ L \in Nat /\ L >= 3 /\ M \in Nat /\ M >= 3
      /\ i \in Nat /\ i >= 1 /\ i \in 1..Len(new) /\ i + 1 \in 1..Len(new)
  <2>1. i + 1 \in 1..Len(new) /\ i \in 1..Len(new) /\ i \in Nat /\ i >= 1
    OBVIOUS
  <2>2. new[i + 1] \in Sections /\ new[i] \in Sections
    BY <2>1
  <2> QED
    BY SMTT(30), <2>1, <2>2, SecLengths, Sizes
<1>2. u \in Seq(Bytes) /\ Len(u) = L /\ \A j \in 1..L : u[j] = B(j)
  <2>1. /\ 0 \in 0..new[i + 1].len /\ new[i + 1].len - 0 = L
        /\ k + (i + 1) \in Nat /\ k + (i + 1) # 0
    BY <1>1
  <2>2. /\ u \in Seq(Bytes) /\ Len(u) = new[i + 1].len - 0
        /\ \A j \in 1..(new[i + 1].len - 0) : u[j] = Byte(k + (i + 1), 0 + j - 1, new[i + 1])
    BY <2>1, <1>1, BytesFromIs
  <2>3. \A j \in 1..L : 0 + j - 1 = j - 1
    OBVIOUS
  <2> HIDE DEF u
  <2> QED
    BY <2>1, <2>2, <2>3
<1>3. /\ b \in Seq(Bytes) /\ N \in Nat /\ N >= M
      /\ Linked(b) /\ b[1] = Byte(k + 1, 0, new[1])
      /\ b[N] = Byte(k + i, M - 1, new[i])
      /\ \A j \in 1..N : /\ b[j].id \in (k + 1)..(k + i) /\ b[j].sec = new[b[j].id - k]
                         /\ b[j].k < b[j].sec.len
      /\ StartsInOrder(b)
  BY DEF Chained
<1> HIDE DEF u, L, N, M
<1>4. /\ d \in Seq(Bytes) /\ Len(d) = N + L
      /\ \A j \in 1..N : d[j] = b[j]
      /\ \A j \in 1..L : d[N + j] = B(j)
  <2>0. Len(b) = N /\ Len(u) = L
    BY <1>2 DEF N
  <2>1. /\ b \o u \in Seq(Bytes) /\ Len(b \o u) = Len(b) + Len(u)
        /\ \A j \in 1..(Len(b) + Len(u)) :
             (b \o u)[j] = IF j <= Len(b) THEN b[j] ELSE u[j - Len(b)]
    BY <1>2, <1>3, ConcatProperties
  <2>2. ASSUME NEW j \in 1..N PROVE d[j] = b[j]
    <3>1. j \in 1..(N + L) /\ j <= N
      BY <1>1, <1>3
    <3> QED
      BY <3>1, <2>0, <2>1
  <2>3. ASSUME NEW j \in 1..L PROVE d[N + j] = B(j)
    <3>1. N + j \in 1..(N + L) /\ ~(N + j <= N) /\ (N + j) - N = j
      BY <1>1, <1>3
    <3>2. d[N + j] = u[(N + j) - N]
      BY <3>1, <2>0, <2>1
    <3> QED
      BY <3>1, <3>2, <1>2
  <2> QED
    BY <2>0, <2>1, <2>2, <2>3
<1>5. \A j \in 1..L : /\ B(j).id = k + (i + 1) /\ B(j).k = j - 1 /\ B(j).sec = new[i + 1]
                      /\ B(j).sec.len = L
  <2> TAKE j \in 1..L
  <2>1. B(j).id = k + (i + 1) /\ B(j).k = j - 1 /\ B(j).sec = new[i + 1]
    BY DEF Byte
  <2> HIDE DEF B
  <2> QED
    BY <2>1 DEF L
<1> HIDE DEF d
<1>6. ASSUME NEW j \in 1..Len(d)
      PROVE  \/ j \in 1..N /\ j <= N /\ d[j] = b[j]
             \/ j > N /\ j - N \in 1..L /\ d[j] = B(j - N)
  <2> HIDE DEF B
  <2>1. CASE j <= N
    <3>1. j \in 1..N
      BY <2>1, <1>3
    <3> QED
      BY <3>1, <2>1, <1>4
  <2>2. CASE j > N
    <3>1. j - N \in 1..L /\ N + (j - N) = j
      BY <2>2, <1>1, <1>3, <1>4
    <3>2. d[N + (j - N)] = B(j - N)
      BY <3>1, <1>4
    <3> QED
      BY <3>1, <3>2, <2>2
  <2> QED
    BY <2>1, <2>2, <1>3
<1>7. Linked(d)
  <2> SUFFICES ASSUME NEW j \in 1..(Len(d) - 1) PROVE Follows(d[j], d[j + 1])
    BY DEF Linked
  <2>0. j \in Nat /\ j \in 1..Len(d) /\ j + 1 \in 1..Len(d) /\ N \in Nat
    BY <1>1, <1>3, <1>4
  <2>1. CASE j + 1 <= N
    <3>1. j \in 1..(Len(b) - 1) /\ d[j] = b[j] /\ d[j + 1] = b[j + 1]
      <4>1. j \in 1..N /\ j + 1 \in 1..N /\ j \in 1..(N - 1)
        BY <2>0, <2>1
      <4> QED
        BY <4>1, <1>4 DEF N
    <3> QED
      BY <3>1, <1>3 DEF Linked
  <2>2. CASE j = N
    <3>1. N \in 1..N /\ 1 \in 1..L
      BY <1>1, <1>3
    <3>2. d[j] = Byte(k + i, M - 1, new[i]) /\ d[j + 1] = B(1)
      BY <2>2, <3>1, <1>3, <1>4
    <3>3. d[j].id = k + i /\ d[j].k = M - 1 /\ d[j].sec.len = M
      BY <3>2 DEF Byte, M
    <3>4. IsEnd(d[j]) /\ d[j] # Padding
      <4>1. k + i # 0 /\ M - 1 + 1 = M
        BY <1>1
      <4> QED
        BY <3>3, <4>1, OtherBytes DEF IsEnd
    <3>5. IsStart(d[j + 1])
      <4>1. k + (i + 1) # 0 /\ 1 - 1 = 0
        BY <1>1
      <4> HIDE DEF B
      <4> QED
        BY <3>1, <3>2, <4>1, <1>5 DEF IsStart
    <3> QED
      BY <3>4, <3>5 DEF Follows
  <2>3. CASE j > N
    <3> DEFINE m == j - N
    <3>1. /\ m \in 1..L /\ m + 1 \in 1..L /\ m \in Nat /\ N + m = j /\ N + (m + 1) = j + 1
          /\ (m - 1) + 1 < L /\ (m + 1) - 1 = (m - 1) + 1
      BY <2>0, <2>3, <1>1, <1>4
    <3> HIDE DEF m
    <3>2. d[j] = B(m) /\ d[j + 1] = B(m + 1)
      <4> HIDE DEF B
      <4>1. d[N + m] = B(m) /\ d[N + (m + 1)] = B(m + 1)
        BY <3>1, <1>4
      <4> QED
        BY <3>1, <4>1
    <3>3. d[j + 1] = Byte(k + (i + 1), (m - 1) + 1, new[i + 1])
      BY <3>1, <3>2
    <3> HIDE DEF B
    <3>4. /\ d[j].id = k + (i + 1) /\ d[j].k = m - 1 /\ d[j].sec = new[i + 1]
          /\ d[j].sec.len = L
      BY <3>1, <3>2, <1>5
    <3>5. d[j].id # 0 /\ d[j].k + 1 < d[j].sec.len
      BY <3>1, <3>4, <1>1
    <3>6. d[j + 1] = Byte(d[j].id, d[j].k + 1, d[j].sec)
      BY <3>3, <3>4
    <3> QED
      BY <3>5, <3>6 DEF Follows
  <2> QED
    BY <2>0, <2>1, <2>2, <2>3
<1>8. d[1] = Byte(k + 1, 0, new[1]) /\ d[Len(d)] = Byte(k + (i + 1), L - 1, new[i + 1])
  <2>1. 1 \in 1..N /\ L \in 1..L
    BY <1>1, <1>3
  <2> QED
    BY <2>1, <1>3, <1>4
<1>9. ASSUME NEW j \in 1..Len(d)
      PROVE  /\ d[j].id \in (k + 1)..(k + (i + 1)) /\ d[j].sec = new[d[j].id - k]
             /\ d[j].k < d[j].sec.len
  <2> HIDE DEF B
  <2>1. CASE j \in 1..N /\ d[j] = b[j]
    <3>1. d[j].id \in (k + 1)..(k + i)
      BY <2>1, <1>3
    <3>2. d[j].id \in (k + 1)..(k + (i + 1))
      BY <3>1, <1>1
    <3> QED
      BY <3>2, <2>1, <1>3
  <2>2. CASE j - N \in 1..L /\ d[j] = B(j - N)
    <3>1. /\ d[j].id = k + (i + 1) /\ d[j].k = (j - N) - 1 /\ d[j].sec = new[i + 1]
          /\ d[j].sec.len = L
      BY <2>2, <1>5
    <3>2. /\ k + (i + 1) \in (k + 1)..(k + (i + 1)) /\ (k + (i + 1)) - k = i + 1
          /\ (j - N) - 1 < L
      BY <2>2, <1>1, <1>3
    <3> QED
      BY <3>1, <3>2
  <2> QED
    BY <2>1, <2>2, <1>6
<1>10. StartsInOrder(d)
  <2> SUFFICES ASSUME NEW x \in 1..Len(d), NEW y \in 1..Len(d), x < y,
                      IsStart(d[x]), IsStart(d[y])
               PROVE  d[x].id < d[y].id
    BY DEF StartsInOrder
  <2> HIDE DEF B
  <2>1. CASE y <= N
    <3>1. /\ x \in 1..Len(b) /\ d[x] = b[x]
          /\ y \in 1..Len(b) /\ d[y] = b[y]
      <4>1. x \in 1..N /\ y \in 1..N
        BY <2>1, <1>3
      <4> QED
        BY <4>1, <1>4 DEF N
    <3> QED
      BY <3>1, <1>3 DEF StartsInOrder
  <2>2. CASE y > N
    <3>1. y - N \in 1..L /\ d[y] = B(y - N)
      BY <2>2, <1>3, <1>6
    <3>2. d[y].id = k + (i + 1) /\ d[y].k = (y - N) - 1
      BY <3>1, <1>5
    <3>3. y = N + 1
      BY SMTT(30), <3>2, <2>2, <1>3 DEF IsStart
    <3>4. x \in 1..N /\ d[x] = b[x]
      <4>1. x \in 1..N
        BY <3>3, <1>3
      <4> QED
        BY <4>1, <1>4
    <3>5. d[x].id \in (k + 1)..(k + i)
      BY <3>4, <1>3
    <3> QED
      BY <3>2, <3>5, <1>1
  <2> QED
    BY <2>1, <2>2, <1>3
<1>11. ASSUME NEW l \in 1..(i + 1)
       PROVE  \E y \in Nat :
                /\ d[y + 1] = Byte(k + l, 0, new[l])
                /\ IF l = i + 1 THEN y + new[l].len = Len(d) ELSE y + new[l].len <= Len(d) - L
  <2>1. CASE l = i + 1
    <3>1. 1 \in 1..L /\ N + L = Len(d) /\ N \in Nat
      BY <1>1, <1>3, <1>4
    <3>2. d[N + 1] = B(1)
      BY <3>1, <1>4
    <3>3. B(1) = Byte(k + l, 0, new[l])
      BY <2>1
    <3>4. N + new[l].len = Len(d)
      BY <2>1, <3>1 DEF L
    <3> QED
      BY <2>1, <3>1, <3>2, <3>3, <3>4
  <2>2. CASE l # i + 1
    <3>1. l \in 1..i
      BY <2>2, <1>1
    <3>2. PICK y \in Nat :
            /\ b[y + 1] = Byte(k + l, 0, new[l])
            /\ IF l = i THEN y + new[l].len = N ELSE y + new[l].len <= N - M
      BY <3>1 DEF Chained, N, M
    <3>3. new[l].len \in Nat /\ new[l].len >= 3
      <4>1. l \in 1..Len(new)
        BY <3>1, <1>1
      <4>2. new[l] \in Sections
        BY <4>1
      <4> QED
        BY SMTT(30), <4>2, SecLengths, Sizes
    <3>4. y + new[l].len <= N
      <4>1. N \in Nat /\ M \in Nat
        BY <1>1, <1>3
      <4>2. y + new[l].len = N \/ y + new[l].len <= N - M
        BY <3>2
      <4> QED
        BY <4>1, <4>2, <3>3
    <3>5. y + 1 \in 1..N /\ y + new[l].len <= Len(d) - L
      BY SMTT(30), <3>3, <3>4, <1>1, <1>3, <1>4
    <3>6. d[y + 1] = Byte(k + l, 0, new[l])
      BY <3>2, <3>5, <1>4
    <3> QED
      BY <3>5, <3>6, <2>2
  <2> QED
    BY <2>1, <2>2
<1>12. Len(d) >= L
  BY <1>1, <1>3, <1>4
<1> HIDE DEF B
<1>13. Chained(d, k, new, i + 1)
  BY <1>4, <1>7, <1>8, <1>9, <1>10, <1>11, <1>12 DEF Chained, L
<1> QED
  BY <1>13 DEF d, u

\* The bytes of the sections that are sent next.
LEMMA NewBytesIs ==
  ASSUME NEW new \in Seq(Sections), Len(new) > 0, sent \in Seq(Sections)
  PROVE  Chained(NewBytes(new), Len(sent), new, Len(new))
<1> DEFINE k == Len(sent)
           U(i) == BytesFrom(k + i, new[i], 0)
           w == [i \in 1..Len(new) |-> U(i)]
<1>0. k \in Nat /\ Len(new) \in Nat
  OBVIOUS
<1>1. Len(w) = Len(new) /\ \A i \in 1..Len(new) : w[i] = U(i)
  BY <1>0
<1>2. NewBytes(new) = FlattenSeq(w)
  BY DEF NewBytes
<1> HIDE DEF w, k
<1>3. PICK g : /\ g[1] = w[1]
               /\ \A i \in 2..Len(w) : g[i] = g[i - 1] \o w[i]
               /\ FlattenSeq(w) = g[Len(w)]
  BY <1>0, <1>1, FlattenIs
<1> DEFINE T == {i \in 1..Len(new) : ~Chained(g[i], k, new, i)}
<1>4. ASSUME T # {} PROVE FALSE
  <2>0. T \subseteq Nat
    BY <1>0
  <2>1. PICK n \in T : \A m \in T : n <= m
    <3> HIDE DEF T
    <3> QED
      BY <2>0, <1>4, LeastElement
  <2>2. n \in 1..Len(new) /\ ~Chained(g[n], k, new, n)
    BY <2>1
  <2>3. n # 1
    <3>1. g[1] = U(1)
      <4>1. 1 \in 1..Len(new)
        BY <1>0
      <4> QED
        BY <4>1, <1>1, <1>3
    <3>2. Chained(U(1), k, new, 1)
      BY <1>0, ChainBase
    <3> HIDE DEF U
    <3> QED
      BY <3>1, <3>2, <2>2
  <2>4. n - 1 \in 1..(Len(new) - 1) /\ n - 1 \in 1..Len(new) /\ ~(n <= n - 1) /\ n \in 2..Len(w)
        /\ (n - 1) + 1 = n
    BY <2>2, <2>3, <1>0, <1>1
  <2>5. n - 1 \notin T
    <3> HIDE DEF T
    <3> QED
      BY <2>1, <2>4
  <2>6. Chained(g[n - 1], k, new, n - 1)
    BY <2>4, <2>5
  <2>7. Chained(g[n - 1] \o BytesFrom(k + ((n - 1) + 1), new[(n - 1) + 1], 0), k, new, (n - 1) + 1)
    BY <2>4, <2>6, <1>0, ChainStep
  <2>8. g[n] = g[n - 1] \o U(n)
    <3> HIDE DEF U
    <3> QED
      BY <2>2, <2>4, <1>1, <1>3
  <2> QED
    BY <2>2, <2>4, <2>7, <2>8
<1>5. Len(new) \in 1..Len(new)
  BY <1>0
<1>6. Chained(g[Len(new)], k, new, Len(new))
  BY <1>4, <1>5
<1> QED
  BY <1>1, <1>2, <1>3, <1>6 DEF k

\* Offsets in what comes after the pointer.
LEMMA Offsets ==
  ASSUME NEW L \in Nat, NEW N \in Nat, NEW C \in Nat, N - L + 1 <= C,
         NEW z \in Nat, z # L => z = L - (N - C)
  PROVE  /\ \A v \in Nat : v + L = N /\ z < L => v + z = C
         /\ \A y \in Nat, m \in Nat :
              m >= 3 /\ y + m <= N - L =>
                /\ y \in 0..(C - 1) /\ y + 1 \in 1..C /\ y + 1 <= N /\ y + m <= C
OBVIOUS

\* Where in the last section, which begins at v, a packet of C bytes ends.
LEMMA TailOffset ==
  ASSUME NEW L \in Nat, NEW N \in Nat, NEW C \in Nat, C <= N, N - L + 1 <= C,
         NEW z, z = L - (IF N > C THEN N - C ELSE 0), NEW v \in Nat, v + L = N
  PROVE  LET j == C - (v + 1)
         IN j \in 0..(L - 1) /\ (v + 1) + j = C /\ (v + 1) + j <= N /\ j = z - 1
OBVIOUS

\* Numbers of new sections and their places in the sequence new.
LEMMA Shifted ==
  ASSUME NEW K \in Nat, NEW n \in Nat, NEW x \in (K + 1)..(K + n)
  PROVE  x - K \in 1..n /\ K + (x - K) = x /\ x \in 1..(K + n)
OBVIOUS

\* What comes after the pointer: the sections new as far as they fit, or all of them
\* and padding.
LEMMA BeginsFrom ==
  ASSUME NEW k \in Seq(Sections), NEW new \in Seq(Sections), Len(new) > 0,
         NEW s \in Seq(Sections), Len(s) = Len(k) + Len(new), Prefix(k, s),
         \A l \in 1..Len(new) : s[Len(k) + l] = new[l],
         NEW b, Chained(b, Len(k), new, Len(new)),
         NEW c \in Seq(Bytes), Len(c) < FullPayload,
         Len(b) - Last(new).len + 1 <= Len(c),
         \A j \in 1..Len(c) : c[j] = IF j <= Len(b) THEN b[j] ELSE Padding,
         NEW z, z = Last(new).len - (IF Len(b) > Len(c) THEN Len(b) - Len(c) ELSE 0)
  PROVE  Begins(c, Len(k), s, z) /\ Last(s) = Last(new)
<1> DEFINE K == Len(k)
           n == Len(new)
           L == Last(new).len
           N == Len(b)
           C == Len(c)
<1>1. /\ Last(new) = new[n] /\ Last(new) \in Sections /\ L \in Nat /\ L >= 3
      /\ n \in 1..n /\ n \in Nat /\ n > 0 /\ K \in Nat /\ C \in Nat /\ Len(s) = K + n /\ Len(s) > 0
  BY LastSection, Sizes
<1>2. Last(s) = Last(new) /\ Last(s) = s[Len(s)]
  <2>1. s[Len(k) + n] = new[n]
    BY <1>1
  <2>2. Last(s) = s[Len(s)]
    BY <1>1, LastSection
  <2> QED
    BY <2>1, <2>2, <1>1
<1>3. /\ b \in Seq(Bytes) /\ N \in Nat /\ N >= L
      /\ Linked(b) /\ b[1] = Byte(K + 1, 0, new[1])
      /\ b[N] = Byte(K + n, L - 1, Last(new))
      /\ \A j \in 1..N : /\ b[j].id \in (K + 1)..(K + n) /\ b[j].sec = new[b[j].id - K]
                         /\ b[j].k < b[j].sec.len
      /\ StartsInOrder(b)
  <2>1. /\ b \in Seq(Bytes) /\ N >= new[n].len
        /\ Linked(b) /\ b[1] = Byte(K + 1, 0, new[1])
        /\ b[N] = Byte(K + n, new[n].len - 1, new[n])
        /\ \A j \in 1..N : /\ b[j].id \in (K + 1)..(K + n) /\ b[j].sec = new[b[j].id - K]
                           /\ b[j].k < b[j].sec.len
        /\ StartsInOrder(b)
    BY DEF Chained
  <2>2. N \in Nat
    BY <2>1
  <2> HIDE DEF N, K, n
  <2> QED
    BY <2>1, <2>2, <1>1
<1>4. /\ \A j \in 1..C : j <= N => c[j] = b[j]
      /\ \A j \in 1..C : ~(j <= N) => c[j] = Padding
      /\ z = L - (IF N > C THEN N - C ELSE 0) /\ N - L + 1 <= C
  OBVIOUS
<1> HIDE DEF K, n, L, N, C
<1>a. /\ K \in Nat /\ n \in Nat /\ n > 0 /\ L \in Nat /\ L >= 3 /\ N \in Nat /\ N >= L
      /\ C \in Nat /\ Len(s) = K + n /\ N - L + 1 <= C
      /\ z = L - (IF N > C THEN N - C ELSE 0)
  BY <1>1, <1>3, <1>4
<1>5. C > 0 /\ z \in 1..L /\ (z = L <=> N <= C) /\ (z # L => z = L - (N - C))
      /\ z \in Nat
  BY SMTT(30), <1>a
<1>b. /\ \A v \in Nat : v + L = N /\ z < L => v + z = C
      /\ \A y \in Nat, m \in Nat :
           m >= 3 /\ y + m <= N - L =>
             /\ y \in 0..(C - 1) /\ y + 1 \in 1..C /\ y + 1 <= N /\ y + m <= C
  <2>1. L \in Nat /\ N \in Nat /\ C \in Nat /\ N - L + 1 <= C /\ z \in Nat
        /\ (z # L => z = L - (N - C))
    BY <1>a, <1>5
  <2> QED
    BY <2>1, Offsets
<1>6. ASSUME NEW j \in 1..C
      PROVE  \/ j \in 1..N /\ j <= N /\ c[j] = b[j]
             \/ j > N /\ c[j] = Padding
  BY SMTT(30), <1>1, <1>3, <1>4
<1>7. Genuine(c, s)
  <2> SUFFICES ASSUME NEW j \in 1..C, c[j] # Padding
               PROVE  /\ c[j].id \in 1..Len(s) /\ c[j].sec = s[c[j].id]
                      /\ c[j].k < c[j].sec.len
    BY DEF Genuine, C
  <2>1. j \in 1..N /\ c[j] = b[j]
    BY <1>6
  <2>2. c[j].id \in (K + 1)..(K + n) /\ c[j].sec = new[c[j].id - K] /\ c[j].k < c[j].sec.len
    BY <2>1, <1>3
  <2>3. /\ c[j].id - K \in 1..n /\ K + (c[j].id - K) = c[j].id /\ c[j].id \in 1..Len(s)
    <3> DEFINE w == c[j].id
    <3>1. w \in (K + 1)..(K + n)
      BY <2>2
    <3>2. K \in Nat /\ n \in Nat /\ Len(s) = K + n
      BY <1>a
    <3> HIDE DEF w
    <3>3. w - K \in 1..n /\ K + (w - K) = w /\ w \in 1..(K + n)
      BY <3>1, <3>2, Shifted
    <3> QED
      BY <3>2, <3>3 DEF w
  <2>4. s[K + (c[j].id - K)] = new[c[j].id - K]
    BY <2>3 DEF K, n
  <2> QED
    BY <2>2, <2>3, <2>4
<1>8. Linked(c)
  <2> SUFFICES ASSUME NEW j \in 1..(C - 1) PROVE Follows(c[j], c[j + 1])
    BY DEF Linked, C
  <2>0. j \in 1..C /\ j + 1 \in 1..C
    BY <1>1
  <2>1. CASE j + 1 <= N
    <3>1. j \in 1..(N - 1) /\ c[j] = b[j] /\ c[j + 1] = b[j + 1]
      BY SMTT(30), <2>0, <2>1, <1>1, <1>3, <1>4
    <3> QED
      BY <3>1, <1>3 DEF Linked, N
  <2>2. CASE ~(j + 1 <= N)
    <3>1. c[j + 1] = Padding
      BY <2>0, <2>2, <1>4
    <3>2. IsEnd(c[j])
      <4>1. CASE j <= N
        <5>1. j = N /\ c[j] = b[N]
          BY <4>1, <2>2, <2>0, <1>3, <1>4
        <5>2. c[j].id = K + n /\ c[j].k = L - 1 /\ c[j].sec.len = L
          BY <5>1, <1>3 DEF Byte, L
        <5>3. K + n # 0 /\ (L - 1) + 1 = L
          BY SMTT(30), <1>1
        <5> QED
          BY <5>2, <5>3 DEF IsEnd
      <4>2. CASE ~(j <= N)
        BY <4>2, <2>0, <1>4 DEF IsEnd
      <4> QED
        BY <4>1, <4>2
    <3> QED
      BY <3>1, <3>2 DEF Follows
  <2> QED
    BY <2>1, <2>2
<1>9. c[1].k = 0
  <2>1. 1 \in 1..C /\ 1 <= N
    BY <1>1, <1>3, <1>5
  <2>2. c[1] = Byte(K + 1, 0, new[1])
    BY <2>1, <1>3, <1>4
  <2> QED
    BY <2>2 DEF Byte
<1>10. StartsInOrder(c) /\ \A i \in 1..C : IsStart(c[i]) => c[i].id > K
  <2>1. ASSUME NEW i \in 1..C, IsStart(c[i]) PROVE i \in 1..N /\ c[i] = b[i]
    <3>1. c[i] # Padding
      BY <2>1, OtherBytes DEF IsStart
    <3> QED
      BY <3>1, <1>6
  <2>2. ASSUME NEW i \in 1..C, IsStart(c[i]) PROVE c[i].id > K
    <3>1. b[i].id \in (K + 1)..(K + n) /\ c[i] = b[i]
      BY <2>1, <2>2, <1>3
    <3> QED
      BY SMTT(30), <3>1, <1>1
  <2>3. ASSUME NEW i \in 1..C, NEW j \in 1..C, i < j, IsStart(c[i]), IsStart(c[j])
        PROVE  c[i].id < c[j].id
    <3>1. i \in 1..N /\ c[i] = b[i] /\ j \in 1..N /\ c[j] = b[j]
      BY <2>1, <2>3
    <3> QED
      BY <3>1, <2>3, <1>3 DEF StartsInOrder, N
  <2> QED
    BY <2>2, <2>3 DEF StartsInOrder, C
\* Where the last section begins.
<1>11. PICK v \in Nat : b[v + 1] = Byte(K + n, 0, Last(new)) /\ v + L = N
  <2>1. PICK v \in Nat :
          /\ b[v + 1] = Byte(K + n, 0, new[n])
          /\ IF n = n THEN v + new[n].len = N ELSE v + new[n].len <= N - new[n].len
    BY <1>1 DEF Chained, K, n, N
  <2> QED
    BY <2>1, <1>1 DEF L
<1>12. v + 1 \in 1..N /\ v + 1 \in 1..C /\ c[v + 1] = Byte(K + n, 0, Last(new))
  <2>1. v + 1 \in 1..N /\ v + 1 \in 1..C /\ v + 1 <= N
    BY <1>1, <1>3, <1>4, <1>11
  <2> QED
    BY <2>1, <1>4, <1>11
<1>13. Matches(c[C], s, z)
  <2>0. C \in 1..C
    BY <1>1, <1>5
  <2>1. CASE C > N
    <3>1. c[C] = Padding /\ z = L
      BY <2>0, <2>1, <1>1, <1>3, <1>4, <1>5
    <3> QED
      BY <3>1, <1>2 DEF Matches, L
  <2>2. CASE C <= N
    <3> DEFINE j == C - (v + 1)
    <3>1. /\ j \in 0..(L - 1) /\ (v + 1) + j = C /\ (v + 1) + j <= N /\ j = z - 1
      <4>1. v \in Nat /\ v + L = N
        BY <1>11
      <4> QED
        BY <2>2, <4>1, <1>a, TailOffset
    <3> HIDE DEF j
    <3>2. IsStart(b[v + 1]) /\ b[v + 1].sec = Last(new) /\ b[v + 1].id = K + n
          /\ b[v + 1].sec.len = L
      <4>1. b[v + 1].sec = Last(new) /\ b[v + 1].id = K + n /\ b[v + 1].k = 0
        BY <1>11 DEF Byte
      <4>2. K + n # 0
        BY <1>1
      <4> QED
        BY <4>1, <4>2 DEF IsStart, L
    <3>3. b[(v + 1) + j] = Byte(K + n, j, Last(new))
      <4>1. /\ b \in Seq(Bytes) /\ Linked(b) /\ v + 1 \in 1..Len(b)
            /\ j \in 0..(b[v + 1].sec.len - 1) /\ (v + 1) + j <= Len(b)
        BY <3>1, <3>2, <1>3, <1>12 DEF N
      <4>2. b[(v + 1) + j] = Byte(b[v + 1].id, j, b[v + 1].sec)
        BY <4>1, <3>2, SectionContents
      <4> QED
        BY <4>2, <3>2
    <3>4. c[C] = b[C]
      BY <2>0, <2>2, <1>4
    <3> QED
      BY <3>1, <3>3, <3>4, <1>1, <1>2 DEF Matches
  <2> QED
    BY <2>1, <2>2, <1>1, <1>3
<1>14. ASSUME NEW i \in (K + 1)..Len(s)
       PROVE  \E y \in 0..(C - 1) :
                /\ c[y + 1] = Byte(i, 0, s[i])
                /\ IF i = Len(s) /\ z < L THEN y + z = C ELSE y + s[i].len <= C
  <2>1. CASE i = Len(s)
    <3>1. s[i] = Last(new) /\ i = K + n
      BY <2>1, <1>1, <1>2
    <3>2. c[v + 1] = Byte(i, 0, s[i])
      BY <3>1, <1>12
    <3>3. v \in 0..(C - 1)
      BY <1>1, <1>12
    <3>4. IF i = Len(s) /\ z < L THEN v + z = C ELSE v + s[i].len <= C
      <4>0. v \in Nat /\ v + L = N
        BY <1>11
      <4>1. CASE z < L
        <5>1. v + z = C
          BY <4>1, <4>0, <1>b
        <5> QED
          BY <5>1, <4>1, <2>1
      <4>2. CASE ~(z < L)
        <5>1. v + L <= C
          BY <4>2, <4>0, <1>a
        <5> QED
          BY <5>1, <4>2, <3>1 DEF L
      <4> QED
        BY <4>1, <4>2
    <3> QED
      BY <3>2, <3>3, <3>4
  <2>2. CASE i # Len(s)
    <3> DEFINE l == i - K
    <3>1. l \in 1..n /\ l # n /\ K + l = i
      BY SMTT(30), <2>2, <1>a
    <3> HIDE DEF l
    <3>2. s[i] = new[l] /\ new[l] \in Sections
      <4>1. s[K + l] = new[l]
        BY <3>1 DEF K, n
      <4> QED
        BY <3>1, <4>1 DEF n
    <3>3. PICK y \in Nat :
            /\ b[y + 1] = Byte(K + l, 0, new[l])
            /\ IF l = n THEN y + new[l].len = N ELSE y + new[l].len <= N - new[n].len
      BY <3>1 DEF Chained, K, n, N
    <3>4. new[l].len \in Nat /\ new[l].len >= 3
      BY SMTT(30), <3>2, SecLengths, Sizes
    <3>5. y + new[l].len <= N - L
      BY <3>1, <3>3, <1>1 DEF L
    <3>6. y \in 0..(C - 1) /\ y + 1 \in 1..C /\ y + 1 <= N /\ y + new[l].len <= C
      BY <3>4, <3>5, <1>b
    <3>7. c[y + 1] = b[y + 1]
      BY <3>6, <1>4
    <3>8. c[y + 1] = Byte(i, 0, s[i]) /\ y + s[i].len <= C
      BY <3>1, <3>2, <3>3, <3>6, <3>7
    <3> QED
      BY <3>6, <3>8, <2>2
  <2> QED
    BY <2>1, <2>2
<1>15. K < Len(s)
  BY <1>1
<1>16. Begins(c, K, s, z)
  BY <1>1, <1>2, <1>5, <1>7, <1>8, <1>9, <1>10, <1>13, <1>14, <1>15 DEF Begins, C, L
<1> QED
  BY <1>2, <1>16 DEF K
=============================================================================
