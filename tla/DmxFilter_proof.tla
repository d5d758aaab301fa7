-------------------------- MODULE DmxFilter_proof --------------------------
(***************************************************************************)
(* Proofs about DmxFilter, for every size of the ring buffer, every length *)
(* of section or packet and every number of pids.                          *)
(*                                                                         *)
(* BaseInv (types, who holds which lock, where there is memory) is         *)
(* inductive by itself.  On top of it QuietInv and WriteBounds say when    *)
(* nothing calls back and what space a callback may count on, and OrderInv *)
(* says that the bytes from pread on, with those copied and not published  *)
(* yet, are a stretch of the stream between what was read last and what    *)
(* arrives next, unless a pending error keeps the callback from storing.   *)
(***************************************************************************)
EXTENDS DmxFilter, TLAPS

\* A filter that fails to start one of several feeds leaves the others running
\* (StartFails); the promises about a stopped filter need its absence.
NoPartialStart == "pes" \notin MayFail

-----------------------------------------------------------------------------
(***************************************************************************)
(* The inductive invariants.                                               *)
(***************************************************************************)
\* What a callback, a read and an ioctl keep while they are under way.
CbRec == [at : {"lock", "timer", "check", "copy", "publish", "finish"},
          len : Nat, moved : Nat, full : BOOLEAN]
RdRec == [at : {"first", "wait", "test", "avail", "copy", "publish", "flush", "clear"},
          todo : Nat, n : Nat, buf : Seq(Byte \cup {None}), nonblock : BOOLEAN]
IoRec == [op : {"stop", "close", "start", "set"}, p : Params \cup {NoParams},
          immediate : BOOLEAN,
          at : {"stop_state", "stop_timer", "stop_feed", "flush", "after", "start_feed",
                "arm", "go"}]
CbType == cb \in {Idle} \cup CbRec
RdType == rd \in {Idle} \cup RdRec
IoType == io \in {Idle} \cup IoRec

\* Who holds dmxdev->lock, who holds the filter's mutex, and where there is memory.
Locking ==
  /\ lock <=> cb.at \notin {"idle", "lock"}
  /\ rd # Idle => io = Idle /\ data # None
  /\ io # Idle => state # "free"
  /\ state = "free" => data = None
  /\ data = None => cb.at \notin {"copy", "publish"}

\* The read in progress stays within its count and within the memory.
ReadBounds ==
  /\ rd.at \in {"copy", "publish"} => rd.n <= rd.todo
  /\ rd.at = "publish" => Len(rd.buf) = Chunk(pread, rd.n)

BaseInv ==
  /\ TypeOK /\ CbType /\ RdType /\ IoType
  /\ params.type = "pes" => listed <= pids
  /\ Locking /\ ReadBounds

\* What calls back, and when nothing does.
QuietInv ==
  /\ listed = streams
  /\ cb # Idle => streams > 0
  /\ timer # "off" => streams > 0 /\ params.type = "sec"
  /\ streams > 0 =>
       Running \/ io.at \in {"stop_timer", "stop_feed", "start_feed", "arm", "go"}
  /\ io.at \in {"stop_feed", "flush", "after", "start_feed", "arm"} => timer = "off"
  /\ io.at = "arm" => streams > 0 /\ params.type = "sec"
  /\ io.at \in {"flush", "after"} => streams = 0
  /\ (io.at = "after" \/ (io = Idle /\ ~Running) \/ (io.at = "start_feed" /\ streams = 0))
       => Empty /\ error = None
  /\ rd.at \in {"copy", "publish"} => rd.n <= Avail

\* The space that a callback has found for what it has still to store.
WriteBounds ==
  /\ cb.at \in {"lock", "timer", "check", "copy"} => cb.len > 0
  /\ cb.at = "copy" => cb.len <= FreeBytes
  /\ cb.at = "publish" => /\ cb.moved > 0 /\ pwrite + cb.moved <= size
                          /\ cb.moved + cb.len <= FreeBytes
  /\ cb.at = "finish" => cb.full \/ cb.len = 0
  /\ cb.at \in {"lock", "timer", "check", "copy", "publish"} => ~cb.full
  /\ Running \/ streams > 0 \/ io.at \in {"start_feed", "arm", "go"} => data # None

\* When an error is pending, and what a read that flushes the buffer leaves.
Errors ==
  /\ rd.at \in {"flush", "clear"} => error # None
  /\ params.type # "sec" /\ error # None => cb.at \in {"idle", "lock"}
  /\ ( /\ rd.at = "clear"
       /\ \/ cb.at \in {"lock", "timer", "check"} \/ params.type # "sec"
          \/ cb.at = "finish" /\ cb.full )
       => Empty /\ last = None

\* The bytes that the callback has stored, including those that it has not
\* published yet, are a stretch of the stream that continues what was read.
Filled == Avail + (IF cb.at = "publish" THEN cb.moved ELSE 0)
Dist(s, r, p) == IF p >= r THEN p - r ELSE p - r + s
After(s, p) == IF p + 1 = s THEN 0 ELSE p + 1
Chain ==
  data # None =>
    \A p \in 0..(size - 1) :
      /\ Dist(size, pread, p) < Filled => data[p] \in Byte
      /\ Dist(size, pread, p) + 1 < Filled => data[After(size, p)] = Stream(data[p], 1)
FromLast == data # None /\ Filled > 0 /\ last # None => data[pread] = Stream(last, 1)

\* The next byte of the stream continues them, unless something was dropped: then
\* an error is pending and nothing is stored until a read has flushed the buffer.
Connected ==
  \/ error = None
  \/ rd.at = "clear"
  \/ cb.at # "idle" /\ (params.type = "sec" \/ cb.at # "lock")
ToArriving ==
  Connected =>
    /\ Filled > 0 => \A p \in 0..(size - 1) :
                       Dist(size, pread, p) + 1 = Filled => arriving = Stream(data[p], 1)
    /\ Filled = 0 /\ last # None => arriving = Stream(last, 1)

\* What the read has copied is still in the buffer.
Copied ==
  rd.at = "publish" => \A i \in 1..Len(rd.buf) : rd.buf[i] = data[pread + i - 1]

OrderInv == Errors /\ Chain /\ FromLast /\ ToArriving /\ Copied

-----------------------------------------------------------------------------
(***************************************************************************)
(* Arithmetic of the ring buffer and of the stream.                        *)
(***************************************************************************)
LEMMA Wrap ==
  ASSUME NEW s \in Nat \ {0}, NEW x \in 0..s
  PROVE  x % s = IF x = s THEN 0 ELSE x
OBVIOUS

LEMMA ModType ==
  ASSUME NEW x \in Nat, NEW s \in Nat \ {0}
  PROVE  x % s \in 0..(s - 1)
OBVIOUS

LEMMA DivMod ==
  ASSUME NEW x \in Nat, NEW s \in Nat \ {0}
  PROVE  \E q \in Int : x % s = x - s * q
<1>1. x \div s \in Int
  OBVIOUS
<1>2. x % s = x - s * (x \div s)
  OBVIOUS
<1> QED
  BY <1>1, <1>2

LEMMA Multiple ==
  ASSUME NEW s \in Nat \ {0}, NEW k \in Int, s * k > -(s + s), s * k < s
  PROVE  k \in {-1, 0}
<1>1. k >= 1 => s * k >= s
  OBVIOUS
<1>2. k <= -2 => s * k <= -(s + s)
  OBVIOUS
<1>3. s * k \in Int
  OBVIOUS
<1> QED
  BY <1>1, <1>2, <1>3

LEMMA ModStep ==
  ASSUME NEW x \in Nat, NEW s \in Nat \ {0}
  PROVE  ((x % s) + 1) % s = (x + 1) % s
<1>1. PICK q \in Int : x % s = x - s * q
  BY DivMod
<1>2. PICK k \in Int : (x + 1) % s = (x + 1) - s * k
  <2>1. x + 1 \in Nat
    OBVIOUS
  <2> QED
    BY <2>1, DivMod
<1>3. x % s \in 0..(s - 1) /\ (x + 1) % s \in 0..(s - 1)
  <2>1. x + 1 \in Nat
    OBVIOUS
  <2> QED
    BY <2>1, ModType
<1>4. s * q - s * k = s * (q - k)
  OBVIOUS
<1> DEFINE r == x % s
           t == (x + 1) % s
           m == q - k
<1>5. t - r - 1 = s * m
  <2>1. s * q \in Int /\ s * k \in Int
    OBVIOUS
  <2> QED
    BY <1>1, <1>2, <1>4, <2>1
<1>6. r \in 0..(s - 1) /\ t \in 0..(s - 1) /\ m \in Int
  BY <1>3
<1>7. (r + 1) % s = IF r + 1 = s THEN 0 ELSE r + 1
  <2>1. r + 1 \in 0..s
    BY <1>6
  <2> HIDE DEF r
  <2> QED
    BY <2>1, Wrap
<1> HIDE DEF r, t, m
<1>8. m \in {-1, 0}
  <2>1. s * m > -(s + s) /\ s * m < s
    BY <1>5, <1>6
  <2> QED
    BY <1>6, <2>1, Multiple
<1>9. t = IF r + 1 = s THEN 0 ELSE r + 1
  <2>1. CASE m = 0
    <3>1. s * m = 0
      BY <2>1
    <3> QED
      BY <1>5, <1>6, <3>1
  <2>2. CASE m = -1
    <3>1. s * m = -s
      BY <2>2
    <3> QED
      BY <1>5, <1>6, <3>1
  <2> QED
    BY <1>8, <2>1, <2>2
<1> QED
  BY <1>7, <1>9 DEF r, t

LEMMA StreamType ==
  ASSUME NEW b \in Byte, NEW i \in Nat
  PROVE  Stream(b, i) \in Byte /\ Stream(b, 0) = b
<1>1. Numbers \in Nat \ {0} /\ b \in 0..(Numbers - 1) /\ b + i \in Nat
  BY ConstantsAssumption DEF Byte
<1>2. (b + i) % Numbers \in 0..(Numbers - 1)
  BY <1>1, ModType
<1>3. b + 0 = b /\ b \in 0..Numbers /\ b # Numbers
  BY <1>1
<1>4. b % Numbers = b
  BY <1>1, <1>3, Wrap
<1> QED
  BY <1>2, <1>3, <1>4 DEF Stream, Byte

LEMMA StreamStep ==
  ASSUME NEW b \in Byte, NEW i \in Nat
  PROVE  Stream(Stream(b, i), 1) = Stream(b, i + 1)
<1>1. Numbers \in Nat \ {0} /\ b \in 0..(Numbers - 1) /\ b + i \in Nat
  BY ConstantsAssumption DEF Byte
<1>2. (((b + i) % Numbers) + 1) % Numbers = ((b + i) + 1) % Numbers
  BY <1>1, ModStep
<1>3. (b + i) + 1 = b + (i + 1)
  BY <1>1
<1> QED
  BY <1>2, <1>3 DEF Stream

-----------------------------------------------------------------------------
(***************************************************************************)
(* Types, locks and memory.                                                *)
(***************************************************************************)

\* The fields of the three records, and what the steps of their owners make of them.
CbTo(a, l, m, f) ==
  cb' \in CbRec /\ cb'.at = a /\ cb'.len = l /\ cb'.moved = m /\ cb'.full = f
RdTo(a, t, k, b) ==
  /\ rd' \in RdRec /\ rd'.at = a /\ rd'.todo = t /\ rd'.n = k /\ rd'.buf = b
  /\ rd'.nonblock = rd.nonblock
IoTo(a, o, q, i) ==
  io' \in IoRec /\ io'.at = a /\ io'.op = o /\ io'.p = q /\ io'.immediate = i

LEMMA Fields ==
  ASSUME CbType, RdType, IoType
  PROVE  /\ Idle.at = "idle"
         /\ cb = Idle <=> cb.at = "idle"
         /\ rd = Idle <=> rd.at = "idle"
         /\ io = Idle <=> io.at = "idle"
         /\ cb # Idle => /\ cb \in CbRec /\ cb.len \in Nat /\ cb.moved \in Nat
                         /\ cb.full \in BOOLEAN
                         /\ cb.at \in {"lock", "timer", "check", "copy", "publish", "finish"}
         /\ rd # Idle => /\ rd \in RdRec /\ rd.todo \in Nat /\ rd.n \in Nat
                         /\ rd.buf \in Seq(Byte \cup {None}) /\ rd.nonblock \in BOOLEAN
                         /\ rd.at \in {"first", "wait", "test", "avail", "copy", "publish",
                                       "flush", "clear"}
         /\ io # Idle => /\ io \in IoRec /\ io.p \in Params \cup {NoParams}
                         /\ io.immediate \in BOOLEAN
                         /\ io.op \in {"stop", "close", "start", "set"}
                         /\ io.at \in {"stop_state", "stop_timer", "stop_feed", "flush",
                                       "after", "start_feed", "arm", "go"}
<1>1. Idle.at = "idle"
  BY DEF Idle
<1>3. cb # Idle => cb \in CbRec
  BY DEF CbType
<1>4. rd # Idle => rd \in RdRec
  BY DEF RdType
<1>5. io # Idle => io \in IoRec
  BY DEF IoType
<1>6. cb \in CbRec => /\ cb.len \in Nat /\ cb.moved \in Nat /\ cb.full \in BOOLEAN
                      /\ cb.at \in {"lock", "timer", "check", "copy", "publish", "finish"}
  BY DEF CbRec
<1>7. rd \in RdRec => /\ rd.todo \in Nat /\ rd.n \in Nat
                      /\ rd.buf \in Seq(Byte \cup {None}) /\ rd.nonblock \in BOOLEAN
                      /\ rd.at \in {"first", "wait", "test", "avail", "copy", "publish",
                                    "flush", "clear"}
  BY DEF RdRec
<1>8. io \in IoRec => /\ io.p \in Params \cup {NoParams} /\ io.immediate \in BOOLEAN
                      /\ io.op \in {"stop", "close", "start", "set"}
                      /\ io.at \in {"stop_state", "stop_timer", "stop_feed", "flush",
                                    "after", "start_feed", "arm", "go"}
  BY DEF IoRec
<1> QED
  BY <1>1, <1>3, <1>4, <1>5, <1>6, <1>7, <1>8

LEMMA CallbackMoves ==
  ASSUME CbType
  PROVE  /\ \A len \in Nat : CallbackBegin(len) => UNCHANGED cb \/ CbTo("lock", len, 0, FALSE)
         /\ CallbackLock =>
              \/ cb' = Idle /\ lock' = lock
              \/ /\ CbTo(IF params.type = "sec" THEN "timer" ELSE "check",
                         cb.len, cb.moved, cb.full)
                 /\ lock' = TRUE
         /\ CallbackDeleteTimer => CbTo("check", cb.len, cb.moved, cb.full)
         /\ CallbackCheck =>
              CbTo(IF data = None \/ cb.len > FreeBytes THEN "finish" ELSE "copy",
                   cb.len, cb.moved, IF data # None /\ cb.len > FreeBytes THEN TRUE ELSE cb.full)
<1> USE DEF CbTo, CbRec
<1>1. cb.at # "idle" => cb \in CbRec
  BY DEF CbType, Idle
<1>2. ASSUME NEW len \in Nat, CallbackBegin(len)
      PROVE  UNCHANGED cb \/ CbTo("lock", len, 0, FALSE)
  <2>1. UNCHANGED cb \/ cb' = [at |-> "lock", len |-> len, moved |-> 0, full |-> FALSE]
    BY <1>2 DEF CallbackBegin
  <2>2. CASE cb' = [at |-> "lock", len |-> len, moved |-> 0, full |-> FALSE]
    <3>1. cb'.at = "lock" /\ cb'.len = len /\ cb'.moved = 0 /\ cb'.full = FALSE
      BY <2>2
    <3>2. cb' \in CbRec
      BY <2>2
    <3> QED
      BY <3>1, <3>2 DEF CbTo
  <2> QED
    BY <2>1, <2>2
<1>3. ASSUME CallbackLock
      PROVE  \/ cb' = Idle /\ lock' = lock
             \/ /\ CbTo(IF params.type = "sec" THEN "timer" ELSE "check",
                        cb.len, cb.moved, cb.full)
                /\ lock' = TRUE
  <2> DEFINE a == IF params.type = "sec" THEN "timer" ELSE "check"
  <2>1. cb \in CbRec
    BY <1>1, <1>3 DEF CallbackLock
  <2>2. \/ cb' = Idle /\ lock' = lock
        \/ cb' = [cb EXCEPT !.at = a] /\ lock' = TRUE
    BY <1>3 DEF CallbackLock
  <2>3. a \in {"timer", "check"}
    OBVIOUS
  <2> HIDE DEF a
  <2>4. cb' = [cb EXCEPT !.at = a] => CbTo(a, cb.len, cb.moved, cb.full)
    BY <2>1, <2>3
  <2>5. \/ cb' = Idle /\ lock' = lock
        \/ CbTo(a, cb.len, cb.moved, cb.full) /\ lock' = TRUE
    BY <2>2, <2>4
  <2> QED
    BY <2>5 DEF a
<1>4. ASSUME CallbackDeleteTimer PROVE CbTo("check", cb.len, cb.moved, cb.full)
  BY <1>1, <1>4 DEF CallbackDeleteTimer
<1>5. ASSUME CallbackCheck
      PROVE  CbTo(IF data = None \/ cb.len > FreeBytes THEN "finish" ELSE "copy",
                  cb.len, cb.moved, IF data # None /\ cb.len > FreeBytes THEN TRUE ELSE cb.full)
  BY <1>1, <1>5 DEF CallbackCheck
<1> QED
  BY <1>2, <1>3, <1>4, <1>5

LEMMA CallbackStores ==
  ASSUME CbType, TypeOK
  PROVE  /\ CallbackCopy =>
              LET n == Chunk(pwrite, cb.len)
              IN  n \in 0..cb.len /\ CbTo("publish", cb.len - n, n, cb.full)
         /\ CallbackPublish =>
              CbTo(IF cb.len > 0 THEN "copy" ELSE "finish", cb.len, 0, cb.full)
         /\ CallbackFinish => cb' = Idle
<1>1. cb.at # "idle" => cb \in CbRec
  BY DEF CbType, Idle
<1>2. ASSUME CallbackCopy
      PROVE  LET n == Chunk(pwrite, cb.len)
             IN  n \in 0..cb.len /\ CbTo("publish", cb.len - n, n, cb.full)
  <2> DEFINE n == Chunk(pwrite, cb.len)
  <2>1. cb \in CbRec
    BY <1>1, <1>2 DEF CallbackCopy
  <2>2. n \in 0..cb.len
    BY <2>1, ConstantsAssumption DEF Chunk, TypeOK, CbRec
  <2>3. cb' = [cb EXCEPT !.at = "publish", !.len = @ - n, !.moved = n]
    BY <1>2 DEF CallbackCopy
  <2> HIDE DEF n
  <2>4. cb.len - n \in Nat /\ n \in Nat
    BY <2>1, <2>2 DEF CbRec
  <2>5. CbTo("publish", cb.len - n, n, cb.full)
    BY <2>1, <2>3, <2>4 DEF CbTo, CbRec
  <2> QED
    BY <2>2, <2>5 DEF n
<1>3. ASSUME CallbackPublish
      PROVE  CbTo(IF cb.len > 0 THEN "copy" ELSE "finish", cb.len, 0, cb.full)
  BY <1>1, <1>3 DEF CallbackPublish, CbTo, CbRec
<1> QED
  BY <1>2, <1>3 DEF CallbackFinish

LEMMA ReadMoves ==
  ASSUME RdType, TypeOK
  PROVE  /\ \A count \in Nat, nonblock \in BOOLEAN :
              ReadBegin(count, nonblock) =>
                /\ rd' \in RdRec /\ rd'.at = "first" /\ rd'.todo = count /\ rd'.n = 0
                /\ rd'.buf = <<>> /\ rd'.nonblock = nonblock
         /\ ReadTest =>
              \/ rd' = Idle
              \/ error # None /\ RdTo("flush", rd.todo, rd.n, rd.buf)
              \/ \E a \in {"avail", "wait"} : error = None /\ RdTo(a, rd.todo, rd.n, rd.buf)
         /\ ReadWait =>
              rd' = Idle \/ rd' = rd \/ RdTo("test", rd.todo, rd.n, rd.buf)
         /\ ReadAvail =>
              RdTo("copy", rd.todo, IF Avail > rd.todo THEN rd.todo ELSE Avail, rd.buf)
         /\ ReadFlush => RdTo("clear", rd.todo, rd.n, rd.buf)
<1>1. rd.at # "idle" => rd \in RdRec
  BY DEF RdType, Idle
<1>2. ASSUME NEW count \in Nat, NEW nonblock \in BOOLEAN, ReadBegin(count, nonblock)
      PROVE  /\ rd' \in RdRec /\ rd'.at = "first" /\ rd'.todo = count /\ rd'.n = 0
             /\ rd'.buf = <<>> /\ rd'.nonblock = nonblock
  <2>1. rd' = [at |-> "first", todo |-> count, n |-> 0, buf |-> <<>>, nonblock |-> nonblock]
    BY <1>2 DEF ReadBegin
  <2>2. <<>> \in Seq(Byte \cup {None})
    OBVIOUS
  <2> QED
    BY <2>1, <2>2 DEF RdRec
<1>3. ASSUME NEW a \in {"first", "wait", "test", "avail", "copy", "publish", "flush", "clear"},
             rd.at # "idle", rd' = [rd EXCEPT !.at = a]
      PROVE  RdTo(a, rd.todo, rd.n, rd.buf)
  BY <1>1, <1>3 DEF RdTo, RdRec
<1>4. ASSUME ReadTest
      PROVE  \/ rd' = Idle
             \/ error # None /\ RdTo("flush", rd.todo, rd.n, rd.buf)
             \/ \E a \in {"avail", "wait"} : error = None /\ RdTo(a, rd.todo, rd.n, rd.buf)
  BY <1>3, <1>4 DEF ReadTest
<1>5. ASSUME ReadWait
      PROVE  rd' = Idle \/ rd' = rd \/ RdTo("test", rd.todo, rd.n, rd.buf)
  BY <1>3, <1>5 DEF ReadWait, ReadReturns
<1>6. ASSUME ReadAvail
      PROVE  RdTo("copy", rd.todo, IF Avail > rd.todo THEN rd.todo ELSE Avail, rd.buf)
  <2> DEFINE k == IF Avail > rd.todo THEN rd.todo ELSE Avail
  <2>1. rd \in RdRec /\ rd' = [rd EXCEPT !.at = "copy", !.n = k]
    BY <1>1, <1>6 DEF ReadAvail
  <2>2. Avail \in Nat
    BY ConstantsAssumption DEF Avail, TypeOK
  <2>3. rd.todo \in Nat
    BY <2>1 DEF RdRec
  <2>4. k \in Nat
    BY <2>2, <2>3
  <2> HIDE DEF k
  <2>5. RdTo("copy", rd.todo, k, rd.buf)
    BY <2>1, <2>4 DEF RdTo, RdRec
  <2> QED
    BY <2>5 DEF k
<1>7. ASSUME ReadFlush PROVE RdTo("clear", rd.todo, rd.n, rd.buf)
  BY <1>3, <1>7 DEF ReadFlush
<1> QED
  BY <1>2, <1>4, <1>5, <1>6, <1>7

LEMMA ReadCopies ==
  ASSUME RdType, TypeOK, ReadCopy, data # None, rd.n <= rd.todo
  PROVE  /\ rd \in RdRec
         /\ RdTo("publish", rd.todo, rd.n, [i \in 1..Chunk(pread, rd.n) |-> data[pread + i - 1]])
         /\ Chunk(pread, rd.n) \in 0..rd.n /\ Len(rd'.buf) = Chunk(pread, rd.n)
<1> DEFINE m == Chunk(pread, rd.n)
           b == [i \in 1..m |-> data[pread + i - 1]]
<1>1. rd \in RdRec
  BY DEF RdType, Idle, ReadCopy
<1>2. m \in 0..rd.n /\ pread + m <= size
  BY <1>1, ConstantsAssumption DEF Chunk, TypeOK, RdRec
<1>3. m \in Nat /\ \A i \in 1..m : pread + i - 1 \in 0..(size - 1)
  BY <1>1, <1>2, ConstantsAssumption DEF TypeOK, RdRec
<1>4. rd' = [rd EXCEPT !.at = "publish", !.buf = b]
  BY DEF ReadCopy
<1> HIDE DEF m
<1>5. b \in Seq(Byte \cup {None}) /\ Len(b) = m
  <2>1. \A i \in 1..m : data[pread + i - 1] \in Byte \cup {None}
    BY <1>3 DEF TypeOK
  <2>2. b \in [1..m -> Byte \cup {None}]
    BY <2>1
  <2> QED
    BY <1>3, <2>2
<1> HIDE DEF b
<1>6. RdTo("publish", rd.todo, rd.n, b)
  BY <1>1, <1>4, <1>5 DEF RdTo, RdRec
<1>7. Len(rd'.buf) = m
  BY <1>5, <1>6 DEF RdTo
<1>8. m \in 0..rd.n
  BY <1>2, <1>1 DEF RdRec
<1> QED
  BY <1>1, <1>8, <1>6, <1>7 DEF b, m

LEMMA ReadAdvances ==
  ASSUME RdType, TypeOK, ReadBounds, ReadPublish
  PROVE  /\ rd \in RdRec /\ Len(rd.buf) \in 0..rd.n /\ pread + Len(rd.buf) \in 0..size
         /\ \/ rd' = Idle
            \/ RdTo(IF rd.n > Len(rd.buf) THEN "copy" ELSE "wait",
                    rd.todo - Len(rd.buf), rd.n - Len(rd.buf), <<>>)
<1> DEFINE m == Len(rd.buf)
<1>1. rd \in RdRec
  BY DEF RdType, Idle, ReadPublish
<1>2. rd.n \in Nat /\ rd.todo \in Nat /\ rd.n <= rd.todo /\ m = Chunk(pread, rd.n)
  BY <1>1 DEF RdRec, ReadBounds, ReadPublish
<1>3. m \in 0..rd.n /\ pread + m \in 0..size
  BY <1>2, ConstantsAssumption DEF Chunk, TypeOK
<1>4. rd' = IF rd.todo = m THEN Idle
            ELSE [rd EXCEPT !.at = IF rd.n > m THEN "copy" ELSE "wait",
                            !.n = @ - m, !.todo = @ - m, !.buf = <<>>]
  BY DEF ReadPublish
<1> HIDE DEF m
<1>5. rd.n - m \in Nat /\ rd.todo - m \in Nat /\ <<>> \in Seq(Byte \cup {None})
  BY <1>2, <1>3
<1>6. CASE rd.todo # m
  <2>1. RdTo(IF rd.n > m THEN "copy" ELSE "wait", rd.todo - m, rd.n - m, <<>>)
    BY <1>1, <1>4, <1>5, <1>6 DEF RdTo, RdRec
  <2> QED
    BY <1>1, <1>3, <2>1 DEF m
<1> QED
  BY <1>1, <1>3, <1>4, <1>6 DEF m

LEMMA IoMoves ==
  ASSUME IoType
  PROVE  /\ \A a \in {"stop_state", "stop_timer", "stop_feed", "flush", "after", "start_feed",
                      "arm", "go"} :
              io # Idle /\ IoGoto(a) => IoTo(a, io.op, io.p, io.immediate)
         /\ \A o \in {"stop", "close", "start", "set"}, q \in Params \cup {NoParams},
               i \in BOOLEAN :
              IoBegin(o, q, i) => IoTo(IF ~Running THEN "after"
                                       ELSE IF params.type = "sec" /\ listed = 0 THEN "flush"
                                       ELSE "stop_state", o, q, i)
         /\ FilterSet => io' = Idle \/ IoTo("after", "start", io.p, io.immediate)
<1>1. io # Idle => io \in IoRec
  BY DEF IoType
<1>2. ASSUME NEW a \in {"stop_state", "stop_timer", "stop_feed", "flush", "after", "start_feed",
                        "arm", "go"}, io # Idle, IoGoto(a)
      PROVE  IoTo(a, io.op, io.p, io.immediate)
  BY <1>1, <1>2 DEF IoGoto, IoTo, IoRec
<1>3. ASSUME NEW o \in {"stop", "close", "start", "set"}, NEW q \in Params \cup {NoParams},
             NEW i \in BOOLEAN, IoBegin(o, q, i)
      PROVE  IoTo(IF ~Running THEN "after"
                  ELSE IF params.type = "sec" /\ listed = 0 THEN "flush"
                  ELSE "stop_state", o, q, i)
  <2> DEFINE a == IF ~Running THEN "after"
                  ELSE IF params.type = "sec" /\ listed = 0 THEN "flush" ELSE "stop_state"
  <2>1. io' = [op |-> o, p |-> q, immediate |-> i, at |-> a]
    BY <1>3 DEF IoBegin
  <2>2. a \in {"after", "flush", "stop_state"}
    OBVIOUS
  <2> HIDE DEF a
  <2>3. IoTo(a, o, q, i)
    BY <2>1, <2>2 DEF IoTo, IoRec
  <2> QED
    BY <2>3 DEF a
<1>4. ASSUME FilterSet PROVE io' = Idle \/ IoTo("after", "start", io.p, io.immediate)
  <2>1. io # Idle /\ io.at = "after"
    BY <1>4 DEF FilterSet, Idle
  <2>2. io' = Idle \/ io' = [io EXCEPT !.op = "start"]
    BY <1>4 DEF FilterSet
  <2> QED
    BY <1>1, <2>1, <2>2 DEF IoTo, IoRec
<1> QED
  BY <1>2, <1>3, <1>4

LEMMA Room ==
  ASSUME TypeOK
  PROVE  /\ size \in Nat \ {0} /\ Avail \in 0..(size - 1) /\ FreeBytes \in 0..(size - 1)
         /\ Avail + FreeBytes = size - 1
BY ConstantsAssumption DEF TypeOK, Avail, FreeBytes

LEMMA BaseStep ==
  ASSUME BaseInv, Next
  PROVE  BaseInv'
<1>0. /\ Idle.at = "idle" /\ NoParams.type = "none"
      /\ cb = Idle <=> cb.at = "idle"
      /\ rd = Idle <=> rd.at = "idle"
      /\ io = Idle <=> io.at = "idle"
      /\ cb # Idle => /\ cb \in CbRec /\ cb.len \in Nat /\ cb.moved \in Nat
                      /\ cb.full \in BOOLEAN
      /\ rd # Idle => rd \in RdRec
      /\ io # Idle => /\ io \in IoRec /\ io.p \in Params \cup {NoParams}
                      /\ io.op \in {"stop", "close", "start", "set"}
      /\ TypeOK /\ CbType /\ RdType /\ IoType
  BY Fields DEF BaseInv, NoParams
<1>1. ASSUME NEW len \in Lengths, CallbackBegin(len) PROVE BaseInv'
  <2>1. asleep' \in BOOLEAN /\ UNCHANGED lock
    BY <1>0, <1>1 DEF CallbackBegin, TypeOK, WakeUp
  <2>2. cb' = cb \/ (cb' \in CbRec /\ cb'.at = "lock")
    BY <1>0, <1>1, ConstantsAssumption, CallbackMoves DEF CbTo
  <2> QED
    BY <1>0, <1>1, <2>1, <2>2, ConstantsAssumption
    DEF CallbackBegin, BaseInv, TypeOK, CbType, RdType, IoType, Locking, ReadBounds,
        Chunk, Running, ring, feeds
<1>2. ASSUME CallbackLock PROVE BaseInv'
  <2>1. asleep' \in BOOLEAN /\ lock' \in BOOLEAN
    BY <1>0, <1>2 DEF CallbackLock, TypeOK, WakeUp
  <2>2. \/ cb' = Idle /\ lock' = lock /\ ~lock
        \/ cb' \in CbRec /\ cb'.at \in {"timer", "check"} /\ lock' = TRUE
    BY <1>0, <1>2, CallbackMoves DEF CbTo, CallbackLock
  <2>3. arriving' \in Byte
    BY <1>0, <1>2, StreamType DEF CallbackLock, TypeOK, Discard
  <2> QED
    BY <1>0, <1>2, <2>1, <2>2, <2>3, ConstantsAssumption
    DEF CallbackLock, BaseInv, TypeOK, CbType, RdType, IoType, Locking, ReadBounds, Chunk,
        Running, ring, feeds, WakeUp
<1>3. ASSUME CallbackDeleteTimer PROVE BaseInv'
  BY <1>0, <1>3, CallbackMoves, ConstantsAssumption
  DEF CallbackDeleteTimer, BaseInv, TypeOK, CbType, RdType, IoType, Locking, ReadBounds,
      Chunk, Running, ring, feeds, CbTo
<1>4. ASSUME CallbackCheck PROVE BaseInv'
  BY <1>0, <1>4, CallbackMoves, ConstantsAssumption
  DEF CallbackCheck, BaseInv, TypeOK, CbType, RdType, IoType, Locking, ReadBounds, Chunk,
      Running, ring, feeds, CbTo
<1>5. ASSUME CallbackCopy PROVE BaseInv'
  <2>1. cb' \in CbRec /\ cb'.at = "publish" /\ Chunk(pwrite, cb.len) \in Nat
    BY <1>0, <1>5, CallbackStores DEF CbTo, CallbackCopy
  <2>2. arriving' \in Byte
    BY <1>0, <1>5, <2>1, StreamType DEF CallbackCopy, TypeOK
  <2>3. data # None
    BY <1>0, <1>5 DEF CallbackCopy, BaseInv, Locking
  <2>4. /\ DOMAIN data = 0..(size - 1) /\ size \in Sizes /\ size' = size
        /\ \A i \in 0..(size - 1) : data[i] \in Byte \cup {None}
        /\ \A i \in 0..(size - 1) : i \in pwrite..(pwrite + Chunk(pwrite, cb.len) - 1) =>
             i - pwrite \in Nat
    BY <1>0, <1>5, <2>1, <2>3, ConstantsAssumption DEF CallbackCopy, TypeOK
  <2>5. \A i \in 0..(size - 1) : i \in pwrite..(pwrite + Chunk(pwrite, cb.len) - 1) =>
          Stream(arriving, i - pwrite) \in Byte
    BY <1>0, <2>4, StreamType DEF TypeOK
  <2>6. data' \in [0..(size' - 1) -> Byte \cup {None}]
    BY <1>5, <2>4, <2>5 DEF CallbackCopy
  <2>7. data' # None
    BY <2>4, <2>6, ConstantsAssumption DEF Byte
  <2> QED
    BY <1>0, <1>5, <2>1, <2>2, <2>3, <2>4, <2>5, <2>6, <2>7, ConstantsAssumption
    DEF CallbackCopy, BaseInv, TypeOK, CbType, RdType, IoType, Locking, ReadBounds, Chunk,
        Running, ring, feeds
<1>6. ASSUME CallbackPublish PROVE BaseInv'
  <2>1. cb' \in CbRec /\ cb'.at \in {"copy", "finish"}
    BY <1>0, <1>6, CallbackStores DEF CbTo, CallbackPublish
  <2>2. cb.moved \in Nat
    BY <1>0, <1>6 DEF CallbackPublish
  <2>3. pwrite + cb.moved \in Nat /\ size \in Nat \ {0}
    BY <1>0, <2>2, Room DEF CallbackPublish, TypeOK
  <2>4. pwrite' \in 0..(size - 1)
    BY <1>6, <2>3, ModType DEF CallbackPublish
  <2> QED
    BY <1>0, <1>6, <2>1, <2>2, <2>3, <2>4, ConstantsAssumption
    DEF CallbackPublish, BaseInv, TypeOK, CbType, RdType, IoType, Locking, ReadBounds,
        Chunk, Running, ring, feeds
<1>7. ASSUME CallbackFinish PROVE BaseInv'
  <2>1. asleep' \in BOOLEAN /\ lock' \in BOOLEAN /\ ~lock'
    BY <1>0, <1>7 DEF CallbackFinish, TypeOK, WakeUp
  <2>2. arriving' \in Byte
    BY <1>0, <1>7, StreamType DEF CallbackFinish, TypeOK, Discard
  <2>3. /\ state' \in {state, "done"} /\ error' \in {error, "overflow"} /\ cb' = Idle
        /\ UNCHANGED <<params, data, size, pread, pwrite, feeds, timer, rd, io, last>>
    BY <1>7 DEF CallbackFinish
  <2> QED
    BY <1>0, <1>7, <2>1, <2>2, <2>3, ConstantsAssumption
    DEF BaseInv, TypeOK, CbType, RdType, IoType, Locking, ReadBounds, Chunk, Running,
        ring, feeds, WakeUp
<1>8. ASSUME TimerFires PROVE BaseInv'
  BY <1>0, <1>8, ConstantsAssumption
  DEF TimerFires, BaseInv, TypeOK, CbType, RdType, IoType, Locking, ReadBounds, Chunk,
      Running, ring, feeds
<1>9. ASSUME TimerFinishes PROVE BaseInv'
  <2>1. asleep' \in BOOLEAN
    BY <1>0, <1>9 DEF TimerFinishes, WakeUp
  <2> QED
    BY <1>0, <1>9, <2>1, ConstantsAssumption
    DEF TimerFinishes, BaseInv, TypeOK, CbType, RdType, IoType, Locking, ReadBounds,
        Chunk, Running, ring, feeds, WakeUp
<1>10. ASSUME NEW count \in Counts, NEW nonblock \in BOOLEAN, ReadBegin(count, nonblock)
       PROVE  BaseInv'
  BY <1>0, <1>10, ReadMoves, ConstantsAssumption
  DEF ReadBegin, BaseInv, TypeOK, CbType, RdType, IoType, Locking, ReadBounds, Chunk,
      Running, ring, feeds, Unlocked
<1>11. ASSUME ReadTest PROVE BaseInv'
  BY <1>0, <1>11, ReadMoves, ConstantsAssumption
  DEF ReadTest, BaseInv, TypeOK, CbType, RdType, IoType, Locking, ReadBounds, Chunk,
      Running, ring, feeds, RdTo
<1>12. ASSUME ReadWait PROVE BaseInv'
  <2>1. asleep' \in BOOLEAN
    BY <1>0, <1>12 DEF ReadWait, TypeOK
  <2>2. rd' = Idle \/ rd' = rd \/ (rd' \in RdRec /\ rd'.at = "test")
    BY <1>0, <1>12, ReadMoves DEF RdTo
  <2> QED
    BY <1>0, <1>12, <2>1, <2>2, ConstantsAssumption
    DEF ReadWait, BaseInv, TypeOK, CbType, RdType, IoType, Locking, ReadBounds, Chunk,
        Running, ring, feeds
<1>13. ASSUME ReadAvail PROVE BaseInv'
  <2>1. rd \in RdRec /\ rd.todo \in Nat
    BY <1>0, <1>13 DEF ReadAvail, RdRec
  <2>2. rd' \in RdRec /\ rd'.at = "copy" /\ rd'.n <= rd'.todo
    BY <1>0, <1>13, <2>1, ReadMoves, Room DEF RdTo
  <2> QED
    BY <1>0, <1>13, <2>1, <2>2, ConstantsAssumption
    DEF ReadAvail, BaseInv, TypeOK, CbType, RdType, IoType, Locking, ReadBounds, Chunk,
        Running, ring, feeds
<1>14. ASSUME ReadCopy PROVE BaseInv'
  BY <1>0, <1>14, ReadCopies, ConstantsAssumption
  DEF ReadCopy, BaseInv, TypeOK, CbType, RdType, IoType, Locking, ReadBounds, Chunk,
      Running, ring, feeds, RdTo
<1>15. ASSUME ReadPublish PROVE BaseInv'
  <2>1. /\ rd \in RdRec /\ Len(rd.buf) \in 0..rd.n /\ pread + Len(rd.buf) \in 0..size
        /\ \/ rd' = Idle
           \/ RdTo(IF rd.n > Len(rd.buf) THEN "copy" ELSE "wait",
                   rd.todo - Len(rd.buf), rd.n - Len(rd.buf), <<>>)
    BY <1>0, <1>15, ReadAdvances DEF BaseInv
  <2>2. size \in Nat \ {0} /\ pread + Len(rd.buf) \in Nat
    BY <1>0, <2>1, ConstantsAssumption DEF TypeOK
  <2>3. pread' \in 0..(size - 1)
    BY <1>15, <2>2, ModType DEF ReadPublish
  <2>4. rd.buf \in Seq(Byte \cup {None}) /\ rd.n \in Nat /\ rd.todo \in Nat /\ rd.n <= rd.todo
    BY <1>15, <2>1 DEF RdRec, ReadPublish, BaseInv, ReadBounds
  <2>5. last' \in Byte \cup {None}
    BY <1>0, <1>15, <2>4 DEF ReadPublish, TypeOK
  <2>6. UNCHANGED <<state, params, data, size, pwrite, error, feeds, timer, lock, cb,
                    asleep, io, arriving>>
    BY <1>15 DEF ReadPublish
  <2>7. rd # Idle
    BY <1>0, <1>15 DEF ReadPublish
  <2>8. RdType' /\ ReadBounds'
    BY <1>0, <2>1, <2>4 DEF RdType, ReadBounds, RdTo
  <2>9. TypeOK'
    BY <1>0, <2>1, <2>3, <2>5, <2>6, <2>8 DEF TypeOK, RdType, RdRec, feeds, Idle
  <2>10. Locking' /\ CbType' /\ IoType'
    BY <2>6, <2>7 DEF BaseInv, Locking, CbType, IoType, feeds
  <2>11. (params.type = "pes" => listed <= pids)'
    BY <2>6 DEF BaseInv, feeds
  <2> QED
    BY <1>0, <1>15, <2>1, <2>2, <2>3, <2>4, <2>5, <2>6, <2>7, <2>8, <2>9, <2>10, <2>11,
       ConstantsAssumption
    DEF BaseInv, ring, feeds
<1>16. ASSUME ReadFlush PROVE BaseInv'
  BY <1>0, <1>16, ReadMoves, ConstantsAssumption
  DEF ReadFlush, BaseInv, TypeOK, CbType, RdType, IoType, Locking, ReadBounds, Chunk,
      Running, ring, feeds, RdTo
<1>17. ASSUME ReadClear PROVE BaseInv'
  BY <1>0, <1>17, ConstantsAssumption
  DEF ReadClear, BaseInv, TypeOK, CbType, RdType, IoType, Locking, ReadBounds, Chunk,
      Running, ring, feeds, ReadReturns
<1>18. ASSUME ReadInterrupted PROVE BaseInv'
  <2>1. asleep' \in BOOLEAN
    BY <1>0, <1>18 DEF ReadInterrupted
  <2> QED
    BY <1>0, <1>18, <2>1, ConstantsAssumption
    DEF ReadInterrupted, BaseInv, TypeOK, CbType, RdType, IoType, Locking, ReadBounds,
        Chunk, Running, ring, feeds, ReadReturns
<1>19. ASSUME ReadFaults PROVE BaseInv'
  BY <1>0, <1>19, ConstantsAssumption
  DEF ReadFaults, BaseInv, TypeOK, CbType, RdType, IoType, Locking, ReadBounds, Chunk,
      Running, ring, feeds, ReadReturns
<1>20. ASSUME Open PROVE BaseInv'
  BY <1>0, <1>20, ConstantsAssumption
  DEF Open, BaseInv, TypeOK, CbType, RdType, IoType, Locking, ReadBounds, Chunk, Running,
      ring, feeds, Unlocked
<1>21. ASSUME NEW s \in Sizes, SetBufferSize(s) PROVE BaseInv'
  BY <1>0, <1>21, ConstantsAssumption
  DEF SetBufferSize, BaseInv, TypeOK, CbType, RdType, IoType, Locking, ReadBounds, Chunk,
      Running, ring, feeds, Unlocked, Memory
<1>22. ASSUME Stop PROVE BaseInv'
  <2>1. io' \in IoRec /\ io'.at \in {"after", "flush", "stop_state"}
    BY <1>0, <1>22, IoMoves DEF Stop, IoTo
  <2>2. /\ Unlocked /\ state # "free"
        /\ UNCHANGED <<state, params, ring, feeds, timer, lock, cb, rd, asleep, arriving,
                       last>>
    BY <1>22 DEF Stop, IoBegin, Running
  <2> QED
    BY <1>0, <1>22, <2>1, <2>2, ConstantsAssumption
    DEF Stop, BaseInv, TypeOK, CbType, RdType, IoType, Locking, ReadBounds, Chunk,
        Running, ring, feeds, Unlocked
<1>23. ASSUME Close PROVE BaseInv'
  <2>1. io' \in IoRec /\ io'.at \in {"after", "flush", "stop_state"}
    BY <1>0, <1>23, IoMoves DEF Close, IoTo
  <2>2. /\ Unlocked /\ state # "free"
        /\ UNCHANGED <<state, params, ring, feeds, timer, lock, cb, rd, asleep, arriving,
                       last>>
    BY <1>23 DEF Close, IoBegin, Running
  <2> QED
    BY <1>0, <1>23, <2>1, <2>2, ConstantsAssumption
    DEF Close, BaseInv, TypeOK, CbType, RdType, IoType, Locking, ReadBounds, Chunk,
        Running, ring, feeds, Unlocked
<1>24. ASSUME Start PROVE BaseInv'
  <2>1. io' \in IoRec /\ io'.at \in {"after", "flush", "stop_state"}
    BY <1>0, <1>24, IoMoves DEF Start, IoTo
  <2>2. /\ Unlocked /\ state # "free"
        /\ UNCHANGED <<state, params, ring, feeds, timer, lock, cb, rd, asleep, arriving,
                       last>>
    BY <1>24 DEF Start, IoBegin, Running
  <2> QED
    BY <1>0, <1>24, <2>1, <2>2, ConstantsAssumption
    DEF Start, BaseInv, TypeOK, CbType, RdType, IoType, Locking, ReadBounds, Chunk,
        Running, ring, feeds, Unlocked
<1>25. ASSUME NEW p \in Params, NEW i \in BOOLEAN, SetFilter(p, i) PROVE BaseInv'
  BY <1>0, <1>25, IoMoves, ConstantsAssumption
  DEF SetFilter, BaseInv, TypeOK, CbType, RdType, IoType, Locking, ReadBounds, Chunk,
      Running, ring, feeds, Unlocked, IoBegin, IoTo
<1>26. ASSUME AddPid PROVE BaseInv'
  BY <1>0, <1>26, ConstantsAssumption
  DEF AddPid, BaseInv, TypeOK, CbType, RdType, IoType, Locking, ReadBounds, Chunk,
      Running, ring, feeds, Unlocked
<1>27. ASSUME RemovePid PROVE BaseInv'
  BY <1>0, <1>27, ConstantsAssumption
  DEF RemovePid, BaseInv, TypeOK, CbType, RdType, IoType, Locking, ReadBounds, Chunk,
      Running, ring, feeds, Unlocked
<1>28. ASSUME StopState PROVE BaseInv'
  BY <1>0, <1>28, IoMoves, ConstantsAssumption
  DEF StopState, BaseInv, TypeOK, CbType, RdType, IoType, Locking, ReadBounds, Chunk,
      Running, ring, feeds, IoTo
<1>29. ASSUME StopTimer PROVE BaseInv'
  BY <1>0, <1>29, IoMoves, ConstantsAssumption
  DEF StopTimer, BaseInv, TypeOK, CbType, RdType, IoType, Locking, ReadBounds, Chunk,
      Running, ring, feeds, IoTo
<1>30. ASSUME StopFeed PROVE BaseInv'
  BY <1>0, <1>30, IoMoves, ConstantsAssumption
  DEF StopFeed, Restarted, BaseInv, TypeOK, CbType, RdType, IoType, Locking, ReadBounds, Chunk,
      Running, ring, feeds, IoTo
<1>31. ASSUME StopFlush PROVE BaseInv'
  BY <1>0, <1>31, IoMoves, ConstantsAssumption
  DEF StopFlush, BaseInv, TypeOK, CbType, RdType, IoType, Locking, ReadBounds, Chunk,
      Running, ring, feeds, IoTo, dvb_ringbuffer_flush
<1>32. ASSUME StopReturns PROVE BaseInv'
  BY <1>0, <1>32, ConstantsAssumption
  DEF StopReturns, BaseInv, TypeOK, CbType, RdType, IoType, Locking, ReadBounds, Chunk,
      Running, ring, feeds
<1>33. ASSUME Free PROVE BaseInv'
  <2>1. asleep' \in BOOLEAN
    BY <1>0, <1>33 DEF Free, WakeUp
  <2> QED
    BY <1>0, <1>33, <2>1, ConstantsAssumption
    DEF Free, BaseInv, TypeOK, CbType, RdType, IoType, Locking, ReadBounds, Chunk,
        Running, ring, feeds, WakeUp
<1>34. ASSUME FilterSet PROVE BaseInv'
  BY <1>0, <1>34, IoMoves, ConstantsAssumption
  DEF FilterSet, BaseInv, TypeOK, CbType, RdType, IoType, Locking, ReadBounds, Chunk,
      Running, ring, feeds, IoTo
<1>35. ASSUME StartPrepare PROVE BaseInv'
  BY <1>0, <1>35, IoMoves, ConstantsAssumption
  DEF StartPrepare, BaseInv, TypeOK, CbType, RdType, IoType, Locking, ReadBounds, Chunk,
      Running, ring, feeds, IoTo, dvb_ringbuffer_flush, Memory
<1>36. ASSUME StartFeed PROVE BaseInv'
  BY <1>0, <1>36, IoMoves, ConstantsAssumption
  DEF StartFeed, BaseInv, TypeOK, CbType, RdType, IoType, Locking, ReadBounds, Chunk,
      Running, ring, feeds, IoTo, Wanted
<1>37. ASSUME StartNothing PROVE BaseInv'
  BY <1>0, <1>37, IoMoves, ConstantsAssumption
  DEF StartNothing, BaseInv, TypeOK, CbType, RdType, IoType, Locking, ReadBounds, Chunk,
      Running, ring, feeds, IoTo
<1>38. ASSUME StartFails PROVE BaseInv'
  BY <1>0, <1>38, ConstantsAssumption
  DEF StartFails, BaseInv, TypeOK, CbType, RdType, IoType, Locking, ReadBounds, Chunk,
      Running, ring, feeds
<1>39. ASSUME StartTimer PROVE BaseInv'
  BY <1>0, <1>39, IoMoves, ConstantsAssumption
  DEF StartTimer, BaseInv, TypeOK, CbType, RdType, IoType, Locking, ReadBounds, Chunk,
      Running, ring, feeds, IoTo
<1>40. ASSUME StartDone PROVE BaseInv'
  BY <1>0, <1>40, ConstantsAssumption
  DEF StartDone, BaseInv, TypeOK, CbType, RdType, IoType, Locking, ReadBounds, Chunk,
      Running, ring, feeds
<1> QED
  BY <1>1, <1>2, <1>3, <1>4, <1>5, <1>6, <1>7, <1>8, <1>9, <1>10, <1>11, <1>12, <1>13,
     <1>14, <1>15, <1>16, <1>17, <1>18, <1>19, <1>20, <1>21, <1>22, <1>23, <1>24, <1>25,
     <1>26, <1>27, <1>28, <1>29, <1>30, <1>31, <1>32, <1>33, <1>34, <1>35, <1>36, <1>37,
     <1>38, <1>39, <1>40
  DEF Next, DemuxSteps, ReadSteps, IoctlSteps

LEMMA BaseInit == Init => BaseInv
<1> SUFFICES ASSUME Init PROVE BaseInv
  OBVIOUS
<1>1. Idle.at = "idle" /\ NoParams.type = "none"
  BY DEF Idle, NoParams
<1>2. lock \in BOOLEAN /\ asleep \in BOOLEAN /\ ~lock
  BY DEF Init
<1> QED
  BY <1>1, <1>2, ConstantsAssumption
  DEF Init, BaseInv, TypeOK, CbType, RdType, IoType, Locking, ReadBounds, Byte

LEMMA BaseUnchanged ==
  ASSUME BaseInv, UNCHANGED vars
  PROVE  BaseInv'
BY DEF vars, BaseInv, TypeOK, CbType, RdType, IoType, Locking, ReadBounds, Chunk

LEMMA BaseInvariant == Spec => []BaseInv
<1>1. BaseInv /\ [Next]_vars => BaseInv'
  BY BaseStep, BaseUnchanged
<1> QED
  BY BaseInit, <1>1, PTL DEF Spec

\* Types of the filter, its ring buffer and the threads that use it, whatever they
\* are doing: pread and pwrite stay inside the memory in every interleaving of
\* dvb_ringbuffer_write, dvb_ringbuffer_read_user, flushes and changes of the size.
THEOREM TypeCorrect == Spec => []TypeOK
<1>1. BaseInv => TypeOK
  BY DEF BaseInv
<1> QED
  BY BaseInvariant, <1>1, PTL

\* dvb_dmxdev_set_buffer_size and dvb_dmxdev_filter_free take memory away only
\* while no read is in progress and no callback stores bytes.
THEOREM MemoryAlwaysOutlivesItsUsers == Spec => MemoryOutlivesItsUsers
<1> DEFINE Safe == (size' # size \/ (data # None /\ data' = None))
                     => rd = Idle /\ cb.at \notin {"copy", "publish"}
<1>1. ASSUME BaseInv, Next PROVE Safe
  <2>0. /\ rd # Idle => io = Idle /\ data # None
        /\ state = "free" => data = None
        /\ data = None => cb.at \notin {"copy", "publish"}
        /\ ~lock => cb.at \notin {"copy", "publish"}
        /\ Idle.at = "idle"
    BY <1>1 DEF BaseInv, Locking, Idle
  <2>1. CASE CallbackCopy
    <3>1. cb.at = "copy" /\ BaseInv'
      BY <1>1, <2>1, BaseStep DEF CallbackCopy
    <3>2. cb'.at = "publish"
      BY <1>1, <2>1, CallbackStores DEF BaseInv, CbTo
    <3>3. data' # None
      BY <3>1, <3>2 DEF BaseInv, Locking
    <3> QED
      BY <2>1, <3>3 DEF CallbackCopy
  <2>2. CASE Open \/ \E s \in Sizes : SetBufferSize(s)
    BY <2>0, <2>2 DEF Open, SetBufferSize, Unlocked
  <2>3. CASE Free
    BY <2>0, <2>3 DEF Free
  <2>4. CASE StartPrepare
    BY <2>4 DEF StartPrepare
  <2>5. CASE ~(CallbackCopy \/ Open \/ (\E s \in Sizes : SetBufferSize(s)) \/ Free
               \/ StartPrepare)
    <3>1. UNCHANGED <<data, size>>
      BY <1>1, <2>5
      DEF Next, DemuxSteps, ReadSteps, IoctlSteps, CallbackBegin, CallbackLock,
          CallbackDeleteTimer, CallbackCheck, CallbackPublish, CallbackFinish, TimerFires,
          TimerFinishes, ReadBegin, ReadTest, ReadWait, ReadAvail, ReadCopy, ReadPublish,
          ReadFlush, ReadClear, ReadInterrupted, ReadFaults, Stop, Close, Start, SetFilter,
          IoBegin, AddPid, RemovePid, StopState, StopTimer, StopFeed, StopFlush, StopReturns,
          FilterSet, StartFeed, StartNothing, StartFails, StartTimer, StartDone, ring
    <3> QED
      BY <3>1
  <2> QED
    BY <2>1, <2>2, <2>3, <2>4, <2>5
<1>2. BaseInv /\ [Next]_vars => [Safe]_vars
  BY <1>1
<1> QED
  BY BaseInvariant, <1>2, PTL DEF Spec, MemoryOutlivesItsUsers

-----------------------------------------------------------------------------
(***************************************************************************)
(* Quiet when stopped.                                                     *)
(***************************************************************************)

\* Bytes taken out and put in: both pointers move forward, at most to the end.
Used(s, r, w) == LET n == w - r IN IF n < 0 THEN n + s ELSE n
Unused(s, r, w) == LET n == r - w IN (IF n <= 0 THEN n + s ELSE n) - 1

LEMMA Taken ==
  ASSUME NEW s \in Nat \ {0}, NEW r \in 0..(s - 1), NEW w \in 0..(s - 1),
         NEW m \in 0..Used(s, r, w), r + m \in 0..s
  PROVE  LET q == IF r + m = s THEN 0 ELSE r + m
         IN  Used(s, q, w) = Used(s, r, w) - m /\ Unused(s, q, w) = Unused(s, r, w) + m
BY DEF Used, Unused

LEMMA Stored ==
  ASSUME NEW s \in Nat \ {0}, NEW r \in 0..(s - 1), NEW w \in 0..(s - 1),
         NEW m \in 0..Unused(s, r, w), w + m \in 0..s
  PROVE  LET q == IF w + m = s THEN 0 ELSE w + m
         IN  Used(s, r, q) = Used(s, r, w) + m /\ Unused(s, r, q) = Unused(s, r, w) - m
BY DEF Used, Unused

LEMMA ReadTakes ==
  ASSUME TypeOK, NEW m \in Nat, m <= Avail, pread + m \in 0..size,
         pread' = IF pread + m = size THEN 0 ELSE pread + m, UNCHANGED <<size, pwrite>>
  PROVE  Avail' = Avail - m /\ FreeBytes' = FreeBytes + m
<1>1. Avail = Used(size, pread, pwrite) /\ FreeBytes = Unused(size, pread, pwrite)
  BY DEF Avail, FreeBytes, Used, Unused
<1>2. Avail' = Used(size, pread', pwrite) /\ FreeBytes' = Unused(size, pread', pwrite)
  BY DEF Avail, FreeBytes, Used, Unused
<1>3. size \in Nat \ {0} /\ pread \in 0..(size - 1) /\ pwrite \in 0..(size - 1)
  BY ConstantsAssumption DEF TypeOK
<1>4. m \in 0..Used(size, pread, pwrite)
  BY Room, <1>1
<1> QED
  BY <1>1, <1>2, <1>3, <1>4, Taken

LEMMA CallbackPuts ==
  ASSUME TypeOK, NEW m \in Nat, m <= FreeBytes, pwrite + m \in 0..size,
         pwrite' = IF pwrite + m = size THEN 0 ELSE pwrite + m, UNCHANGED <<size, pread>>
  PROVE  Avail' = Avail + m /\ FreeBytes' = FreeBytes - m
<1>1. Avail = Used(size, pread, pwrite) /\ FreeBytes = Unused(size, pread, pwrite)
  BY DEF Avail, FreeBytes, Used, Unused
<1>2. Avail' = Used(size, pread, pwrite') /\ FreeBytes' = Unused(size, pread, pwrite')
  BY DEF Avail, FreeBytes, Used, Unused
<1>3. size \in Nat \ {0} /\ pread \in 0..(size - 1) /\ pwrite \in 0..(size - 1)
  BY ConstantsAssumption DEF TypeOK
<1>4. m \in 0..Unused(size, pread, pwrite)
  BY Room, <1>1
<1> QED
  BY <1>1, <1>2, <1>3, <1>4, Stored

LEMMA QuietStep ==
  ASSUME NoPartialStart, BaseInv, QuietInv, WriteBounds, Next
  PROVE  QuietInv' /\ WriteBounds'
<1>0. /\ Idle.at = "idle" /\ NoParams.type = "none"
      /\ cb = Idle <=> cb.at = "idle"
      /\ rd = Idle <=> rd.at = "idle"
      /\ io = Idle <=> io.at = "idle"
      /\ cb # Idle => /\ cb \in CbRec /\ cb.len \in Nat /\ cb.moved \in Nat
                      /\ cb.full \in BOOLEAN
      /\ rd # Idle => rd \in RdRec /\ rd.n \in Nat /\ rd.todo \in Nat
      /\ io # Idle => io \in IoRec /\ io.p \in Params \cup {NoParams}
      /\ size \in Nat \ {0} /\ pread \in 0..(size - 1) /\ pwrite \in 0..(size - 1)
      /\ listed \in 0..streams /\ streams \in Nat /\ pids \in Nat
      /\ TypeOK /\ CbType /\ RdType /\ IoType /\ Locking
  BY Fields, Room, ConstantsAssumption DEF BaseInv, NoParams, TypeOK
<1>00. /\ cb' = Idle <=> cb'.at = "idle"
       /\ rd' = Idle <=> rd'.at = "idle"
       /\ io' = Idle <=> io'.at = "idle"
       /\ size' \in Nat \ {0} /\ pread' \in 0..(size' - 1) /\ pwrite' \in 0..(size' - 1)
       /\ data' = None => cb'.at \notin {"copy", "publish"}
  <2>1. BaseInv'
    BY BaseStep
  <2>2. TypeOK' /\ CbType' /\ RdType' /\ IoType'
    BY <2>1 DEF BaseInv
  <2>3. size' \in Nat \ {0} /\ pread' \in 0..(size' - 1) /\ pwrite' \in 0..(size' - 1)
    BY <2>2, ConstantsAssumption DEF TypeOK
  <2>4. Idle.at = "idle"
    BY DEF Idle
  <2>5. /\ cb' \in CbRec => cb'.at # "idle"
        /\ rd' \in RdRec => rd'.at # "idle"
        /\ io' \in IoRec => io'.at # "idle"
    BY DEF CbRec, RdRec, IoRec
  <2>6. data' = None => cb'.at \notin {"copy", "publish"}
    BY <2>1 DEF BaseInv, Locking
  <2> QED
    BY <2>2, <2>3, <2>4, <2>5, <2>6 DEF CbType, RdType, IoType
<1>1. ASSUME NEW len \in Lengths, CallbackBegin(len) PROVE QuietInv' /\ WriteBounds'
  <2>1. /\ cb' = cb \/ (cb'.at = "lock" /\ cb'.len > 0 /\ ~cb'.full)
        /\ cb = Idle /\ streams > 0
    BY <1>0, <1>1, ConstantsAssumption, CallbackMoves DEF CbTo, CallbackBegin
  <2>2. UNCHANGED <<state, params, ring, feeds, timer, rd, io>>
    BY <1>1 DEF CallbackBegin
  <2>3. QuietInv'
    BY <1>0, <1>00, <2>1, <2>2
    DEF QuietInv, Running, ring, feeds, Empty, Avail
  <2>4. WriteBounds'
    BY <1>0, <1>00, <2>1, <2>2
    DEF WriteBounds, QuietInv, Locking, Running, ring, feeds, FreeBytes, Chunk
  <2> QED
    BY <2>3, <2>4
<1>2. ASSUME CallbackLock PROVE QuietInv' /\ WriteBounds'
  <2>1. \/ cb' = Idle
        \/ cb'.at \in {"timer", "check"} /\ cb'.len = cb.len /\ cb'.full = cb.full
    BY <1>0, <1>2, CallbackMoves DEF CbTo
  <2>2. /\ cb.at = "lock" /\ UNCHANGED <<state, params, ring, feeds, timer, rd, io>>
    BY <1>2 DEF CallbackLock
  <2>3. QuietInv'
    BY <1>0, <1>00, <2>1, <2>2
    DEF QuietInv, Running, ring, feeds, Empty, Avail
  <2>4. WriteBounds'
    BY <1>0, <1>00, <2>1, <2>2
    DEF WriteBounds, QuietInv, Locking, Running, ring, feeds, FreeBytes, Chunk
  <2> QED
    BY <2>3, <2>4
<1>3. ASSUME CallbackDeleteTimer PROVE QuietInv' /\ WriteBounds'
  <2>1. cb'.at = "check" /\ cb'.len = cb.len /\ cb'.full = cb.full
    BY <1>0, <1>3, CallbackMoves DEF CbTo
  <2>2. QuietInv'
    BY <1>0, <1>00, <1>3, <2>1
    DEF CallbackDeleteTimer, QuietInv, Running, ring, feeds, Empty, Avail
  <2>3. WriteBounds'
    BY <1>0, <1>00, <1>3, <2>1
    DEF CallbackDeleteTimer, WriteBounds, QuietInv, Locking, Running, ring, feeds,
        FreeBytes, Chunk
  <2> QED
    BY <2>2, <2>3
<1>4. ASSUME CallbackCheck PROVE QuietInv' /\ WriteBounds'
  <2>1. /\ cb'.at = (IF data = None \/ cb.len > FreeBytes THEN "finish" ELSE "copy")
        /\ cb'.len = cb.len
        /\ cb'.full = (IF data # None /\ cb.len > FreeBytes THEN TRUE ELSE cb.full)
    BY <1>0, <1>4, CallbackMoves DEF CbTo
  <2>2. data # None /\ cb.len > 0
    BY <1>0, <1>4 DEF CallbackCheck, QuietInv, WriteBounds
  <2>3. QuietInv'
    BY <1>0, <1>00, <1>4, <2>1, <2>2
    DEF CallbackCheck, QuietInv, Running, ring, feeds, Empty, Avail
  <2>4. WriteBounds'
    BY <1>0, <1>00, <1>4, <2>1, <2>2
    DEF CallbackCheck, WriteBounds, QuietInv, Locking, Running, ring, feeds, FreeBytes,
        Chunk
  <2> QED
    BY <2>3, <2>4
<1>5. ASSUME CallbackCopy PROVE QuietInv' /\ WriteBounds'
  <2>1. /\ Chunk(pwrite, cb.len) \in 0..cb.len /\ cb'.at = "publish"
        /\ cb'.len = cb.len - Chunk(pwrite, cb.len) /\ cb'.moved = Chunk(pwrite, cb.len)
        /\ cb'.full = cb.full
    BY <1>0, <1>5, CallbackStores DEF CbTo
  <2>2. QuietInv'
    BY <1>0, <1>00, <1>5, <2>1
    DEF CallbackCopy, QuietInv, Running, ring, feeds, Empty, Avail
  <2>3. WriteBounds'
    BY <1>0, <1>00, <1>5, <2>1
    DEF CallbackCopy, WriteBounds, QuietInv, Locking, Running, ring, feeds, FreeBytes,
        Chunk
  <2> QED
    BY <2>2, <2>3
<1>6. ASSUME CallbackPublish PROVE QuietInv' /\ WriteBounds'
  <2>1. /\ cb'.at = (IF cb.len > 0 THEN "copy" ELSE "finish") /\ cb'.len = cb.len
        /\ cb'.full = cb.full
    BY <1>0, <1>6, CallbackStores DEF CbTo
  <2>2. pwrite' = IF pwrite + cb.moved = size THEN 0 ELSE pwrite + cb.moved
    BY <1>0, <1>6, Wrap DEF CallbackPublish, WriteBounds
  <2>3. /\ cb.moved \in Nat /\ cb.moved <= FreeBytes /\ pwrite + cb.moved \in 0..size
        /\ Avail \in Nat /\ UNCHANGED <<size, pread>>
    BY <1>0, <1>6, Room DEF CallbackPublish, WriteBounds
  <2>4. Avail' = Avail + cb.moved /\ FreeBytes' = FreeBytes - cb.moved
    BY <1>0, <2>2, <2>3, CallbackPuts
  <2>5. streams > 0 /\ UNCHANGED <<state, params, error, feeds, timer, rd, io>>
    BY <1>0, <1>6 DEF CallbackPublish, QuietInv
  <2>6. QuietInv'
    BY <1>0, <1>00, <2>1, <2>3, <2>4, <2>5 DEF QuietInv, Running, feeds
  <2>7. /\ cb.len \in Nat /\ FreeBytes \in Nat /\ FreeBytes' >= cb.len
        /\ ~cb.full /\ data # None
    BY <1>0, <1>6, <2>3, <2>4, Room DEF CallbackPublish, WriteBounds, Locking
  <2>8. data' # None
    BY <1>6, <2>7 DEF CallbackPublish
  <2>9. WriteBounds'
    BY <1>0, <1>00, <2>1, <2>7, <2>8 DEF WriteBounds
  <2> QED
    BY <2>6, <2>9
<1>7. ASSUME CallbackFinish PROVE QuietInv' /\ WriteBounds'
  <2>1. /\ cb.at = "finish" /\ cb' = Idle /\ state' \in {state, "done"}
        /\ UNCHANGED <<params, data, size, pread, pwrite, feeds, timer, rd, io>>
    BY <1>7 DEF CallbackFinish
  <2>2. QuietInv'
    BY <1>0, <1>00, <2>1
    DEF QuietInv, Running, ring, feeds, Empty, Avail
  <2>3. WriteBounds'
    BY <1>0, <1>00, <2>1
    DEF WriteBounds, QuietInv, Locking, Running, ring, feeds, FreeBytes, Chunk
  <2> QED
    BY <2>2, <2>3
<1>8. ASSUME TimerFires PROVE QuietInv' /\ WriteBounds'
  <2>1. QuietInv'
    BY <1>0, <1>00, <1>8
    DEF TimerFires, QuietInv, Running, ring, feeds, Empty, Avail
  <2>2. WriteBounds'
    BY <1>0, <1>00, <1>8
    DEF TimerFires, WriteBounds, QuietInv, Locking, Running, ring, feeds, FreeBytes, Chunk
  <2> QED
    BY <2>1, <2>2
<1>9. ASSUME TimerFinishes PROVE QuietInv' /\ WriteBounds'
  <2>1. QuietInv'
    BY <1>0, <1>00, <1>9
    DEF TimerFinishes, QuietInv, Running, ring, feeds, Empty, Avail
  <2>2. WriteBounds'
    BY <1>0, <1>00, <1>9
    DEF TimerFinishes, WriteBounds, QuietInv, Locking, Running, ring, feeds, FreeBytes,
        Chunk
  <2> QED
    BY <2>1, <2>2
<1>10. ASSUME NEW count \in Counts, NEW nonblock \in BOOLEAN, ReadBegin(count, nonblock)
       PROVE  QuietInv' /\ WriteBounds'
  <2>1. rd'.at = "first"
    BY <1>0, <1>10, ReadMoves, ConstantsAssumption
  <2>2. QuietInv'
    BY <1>0, <1>00, <1>10, <2>1
    DEF ReadBegin, QuietInv, Running, ring, feeds, Empty, Avail
  <2>3. WriteBounds'
    BY <1>0, <1>00, <1>10, <2>1
    DEF ReadBegin, WriteBounds, QuietInv, Locking, Running, ring, feeds, FreeBytes, Chunk
  <2> QED
    BY <2>2, <2>3
<1>11. ASSUME ReadTest PROVE QuietInv' /\ WriteBounds'
  <2>1. rd'.at \in {"idle", "flush", "avail", "wait"}
    BY <1>0, <1>11, ReadMoves DEF RdTo
  <2>2. UNCHANGED <<state, params, ring, feeds, timer, cb, io>>
    BY <1>11 DEF ReadTest
  <2>3. QuietInv'
    BY <1>0, <1>00, <2>1, <2>2
    DEF QuietInv, Running, ring, feeds, Empty, Avail
  <2>4. WriteBounds'
    BY <1>0, <1>00, <2>1, <2>2
    DEF WriteBounds, QuietInv, Locking, Running, ring, feeds, FreeBytes, Chunk
  <2> QED
    BY <2>3, <2>4
<1>12. ASSUME ReadWait PROVE QuietInv' /\ WriteBounds'
  <2>1. rd'.at \in {"idle", "wait", "test"}
    BY <1>0, <1>12, ReadMoves DEF RdTo, ReadWait
  <2>2. UNCHANGED <<state, params, ring, feeds, timer, cb, io>>
    BY <1>12 DEF ReadWait
  <2>3. QuietInv'
    BY <1>0, <1>00, <2>1, <2>2
    DEF QuietInv, Running, ring, feeds, Empty, Avail
  <2>4. WriteBounds'
    BY <1>0, <1>00, <2>1, <2>2
    DEF WriteBounds, QuietInv, Locking, Running, ring, feeds, FreeBytes, Chunk
  <2> QED
    BY <2>3, <2>4
<1>13. ASSUME ReadAvail PROVE QuietInv' /\ WriteBounds'
  <2>1. rd \in RdRec /\ rd.todo \in Nat /\ Avail \in Nat
    BY <1>0, <1>13, Room DEF ReadAvail, RdRec
  <2>2. rd'.n <= Avail
    BY <1>0, <1>13, <2>1, ReadMoves DEF RdTo
  <2>3. UNCHANGED <<state, params, ring, feeds, timer, cb, io>>
    BY <1>13 DEF ReadAvail
  <2>4. QuietInv'
    BY <1>0, <1>00, <2>1, <2>2, <2>3
    DEF QuietInv, Running, ring, feeds, Empty, Avail
  <2>5. WriteBounds'
    BY <1>0, <1>00, <2>1, <2>2, <2>3
    DEF WriteBounds, QuietInv, Locking, Running, ring, feeds, FreeBytes, Chunk
  <2> QED
    BY <2>4, <2>5
<1>14. ASSUME ReadCopy PROVE QuietInv' /\ WriteBounds'
  <2>1. /\ rd.at = "copy" /\ rd'.at = "publish" /\ rd'.n = rd.n
        /\ UNCHANGED <<state, params, ring, feeds, timer, cb, io>>
    BY <1>0, <1>14, ReadCopies DEF RdTo, ReadCopy, BaseInv, ReadBounds, Locking
  <2>2. QuietInv'
    BY <1>0, <1>00, <2>1
    DEF QuietInv, Running, ring, feeds, Empty, Avail
  <2>3. WriteBounds'
    BY <1>0, <1>00, <2>1
    DEF WriteBounds, QuietInv, Locking, Running, ring, feeds, FreeBytes, Chunk
  <2> QED
    BY <2>2, <2>3
<1>15. ASSUME ReadPublish PROVE QuietInv' /\ WriteBounds'
  <2>1. /\ rd \in RdRec /\ Len(rd.buf) \in 0..rd.n /\ pread + Len(rd.buf) \in 0..size
        /\ \/ rd'.at = "idle"
           \/ rd'.at \in {"copy", "wait"} /\ rd'.n = rd.n - Len(rd.buf)
    BY <1>0, <1>15, ReadAdvances DEF BaseInv, RdTo
  <2>2. pread' = IF pread + Len(rd.buf) = size THEN 0 ELSE pread + Len(rd.buf)
    BY <1>0, <1>15, <2>1, Wrap DEF ReadPublish
  <2>3. /\ rd.n \in Nat /\ rd.n <= Avail /\ Len(rd.buf) \in Nat /\ Avail \in Nat
        /\ Len(rd.buf) <= Avail /\ UNCHANGED <<size, pwrite>>
    BY <1>0, <1>15, <2>1, Room DEF ReadPublish, QuietInv
  <2>4. Avail' = Avail - Len(rd.buf) /\ Avail \in Nat /\ FreeBytes' = FreeBytes + Len(rd.buf)
    BY <1>0, <2>1, <2>2, <2>3, ReadTakes
  <2>5. /\ rd.at = "publish"
        /\ UNCHANGED <<state, params, data, size, pwrite, error, feeds, timer, cb, io>>
    BY <1>15 DEF ReadPublish
  <2>6. Empty => Empty'
    BY <1>0, <2>1, <2>2, <2>3, <2>5 DEF Empty, Avail
  <2>7. QuietInv'
    BY <1>0, <1>00, <2>1, <2>3, <2>4, <2>5, <2>6 DEF QuietInv, Running, feeds
  <2>8. FreeBytes \in Nat
    BY <1>0, Room
  <2>9. FreeBytes' \in Nat /\ FreeBytes <= FreeBytes'
    BY <2>3, <2>4, <2>8
  <2>10. WriteBounds'
    BY <1>0, <2>5, <2>8, <2>9 DEF WriteBounds, Running, feeds
  <2> QED
    BY <2>7, <2>10
<1>16. ASSUME ReadFlush PROVE QuietInv' /\ WriteBounds'
  <2>1. rd'.at = "clear"
    BY <1>0, <1>16, ReadMoves DEF RdTo
  <2>2. /\ pread' = pwrite
        /\ UNCHANGED <<state, params, data, size, pwrite, error, feeds, timer, cb, io>>
    BY <1>16 DEF ReadFlush
  <2>3. QuietInv'
    BY <1>0, <1>00, <2>1, <2>2
    DEF QuietInv, Running, ring, feeds, Empty, Avail
  <2>4. WriteBounds'
    BY <1>0, <1>00, <2>1, <2>2
    DEF WriteBounds, QuietInv, Locking, Running, ring, feeds, FreeBytes, Chunk
  <2> QED
    BY <2>3, <2>4
<1>17. ASSUME ReadClear PROVE QuietInv' /\ WriteBounds'
  <2>1. /\ rd'.at = "idle" /\ error' \in {error, None}
        /\ UNCHANGED <<state, params, data, size, pread, pwrite, feeds, timer, cb, io>>
    BY <1>0, <1>17 DEF ReadClear, ReadReturns, ring
  <2>2. QuietInv'
    BY <1>0, <1>00, <2>1
    DEF QuietInv, Running, ring, feeds, Empty, Avail
  <2>3. WriteBounds'
    BY <1>0, <1>00, <2>1
    DEF WriteBounds, QuietInv, Locking, Running, ring, feeds, FreeBytes, Chunk
  <2> QED
    BY <2>2, <2>3
<1>18. ASSUME ReadFaults PROVE QuietInv' /\ WriteBounds'
  <2>1. /\ rd'.at = "idle" /\ error' \in {error, None}
        /\ UNCHANGED <<state, params, data, size, pread, pwrite, feeds, timer, cb, io>>
    BY <1>0, <1>18 DEF ReadFaults, ReadReturns, ring
  <2>2. QuietInv'
    BY <1>0, <1>00, <2>1
    DEF QuietInv, Running, ring, feeds, Empty, Avail
  <2>3. WriteBounds'
    BY <1>0, <1>00, <2>1
    DEF WriteBounds, QuietInv, Locking, Running, ring, feeds, FreeBytes, Chunk
  <2> QED
    BY <2>2, <2>3
<1>19. ASSUME ReadInterrupted PROVE QuietInv' /\ WriteBounds'
  <2>1. /\ rd'.at = "idle" /\ error' \in {error, None}
        /\ UNCHANGED <<state, params, data, size, pread, pwrite, feeds, timer, cb, io>>
    BY <1>0, <1>19 DEF ReadInterrupted, ReadReturns, ring
  <2>2. QuietInv'
    BY <1>0, <1>00, <2>1
    DEF QuietInv, Running, ring, feeds, Empty, Avail
  <2>3. WriteBounds'
    BY <1>0, <1>00, <2>1
    DEF WriteBounds, QuietInv, Locking, Running, ring, feeds, FreeBytes, Chunk
  <2> QED
    BY <2>2, <2>3
<1>20. ASSUME Open PROVE QuietInv' /\ WriteBounds'
  <2>1. QuietInv'
    BY <1>0, <1>00, <1>20
    DEF Open, QuietInv, Running, ring, feeds, Empty, Avail, Unlocked
  <2>2. WriteBounds'
    BY <1>0, <1>00, <1>20
    DEF Open, WriteBounds, QuietInv, Locking, Running, ring, feeds, FreeBytes, Chunk,
        Unlocked
  <2> QED
    BY <2>1, <2>2
<1>21. ASSUME NEW s \in Sizes, SetBufferSize(s) PROVE QuietInv' /\ WriteBounds'
  <2>1. data' # None
    BY <1>21, ConstantsAssumption DEF SetBufferSize, Memory
  <2>2. QuietInv'
    BY <1>0, <1>00, <1>21, <2>1
    DEF SetBufferSize, QuietInv, Running, ring, feeds, Empty, Avail, Unlocked
  <2>3. WriteBounds'
    BY <1>0, <1>00, <1>21, <2>1
    DEF SetBufferSize, WriteBounds, QuietInv, Locking, Running, ring, feeds, FreeBytes,
        Chunk, Unlocked
  <2> QED
    BY <2>2, <2>3
<1>22. ASSUME Stop PROVE QuietInv' /\ WriteBounds'
  <2>1. io'.at = IF ~Running THEN "after"
                ELSE IF params.type = "sec" /\ listed = 0 THEN "flush" ELSE "stop_state"
    BY <1>0, <1>22, IoMoves DEF Stop, IoTo
  <2>2. Unlocked /\ UNCHANGED <<state, params, ring, feeds, timer, cb, rd>>
    BY <1>22 DEF Stop, IoBegin
  <2>3. QuietInv'
    BY <1>0, <1>00, <2>1, <2>2
    DEF QuietInv, Running, ring, feeds, Empty, Avail, Unlocked
  <2>4. WriteBounds'
    BY <1>0, <1>00, <2>1, <2>2
    DEF WriteBounds, QuietInv, Locking, Running, ring, feeds, FreeBytes, Chunk, Unlocked
  <2> QED
    BY <2>3, <2>4
<1>23. ASSUME Close PROVE QuietInv' /\ WriteBounds'
  <2>1. io'.at = IF ~Running THEN "after"
                ELSE IF params.type = "sec" /\ listed = 0 THEN "flush" ELSE "stop_state"
    BY <1>0, <1>23, IoMoves DEF Close, IoTo
  <2>2. Unlocked /\ UNCHANGED <<state, params, ring, feeds, timer, cb, rd>>
    BY <1>23 DEF Close, IoBegin
  <2>3. QuietInv'
    BY <1>0, <1>00, <2>1, <2>2
    DEF QuietInv, Running, ring, feeds, Empty, Avail, Unlocked
  <2>4. WriteBounds'
    BY <1>0, <1>00, <2>1, <2>2
    DEF WriteBounds, QuietInv, Locking, Running, ring, feeds, FreeBytes, Chunk, Unlocked
  <2> QED
    BY <2>3, <2>4
<1>24. ASSUME Start PROVE QuietInv' /\ WriteBounds'
  <2>1. io'.at = IF ~Running THEN "after"
                ELSE IF params.type = "sec" /\ listed = 0 THEN "flush" ELSE "stop_state"
    BY <1>0, <1>24, IoMoves DEF Start, IoTo
  <2>2. Unlocked /\ UNCHANGED <<state, params, ring, feeds, timer, cb, rd>>
    BY <1>24 DEF Start, IoBegin
  <2>3. QuietInv'
    BY <1>0, <1>00, <2>1, <2>2
    DEF QuietInv, Running, ring, feeds, Empty, Avail, Unlocked
  <2>4. WriteBounds'
    BY <1>0, <1>00, <2>1, <2>2
    DEF WriteBounds, QuietInv, Locking, Running, ring, feeds, FreeBytes, Chunk, Unlocked
  <2> QED
    BY <2>3, <2>4
<1>25. ASSUME NEW p \in Params, NEW i \in BOOLEAN, SetFilter(p, i)
       PROVE  QuietInv' /\ WriteBounds'
  <2>1. io'.at = IF ~Running THEN "after"
                ELSE IF params.type = "sec" /\ listed = 0 THEN "flush" ELSE "stop_state"
    BY <1>0, <1>25, IoMoves DEF SetFilter, IoTo
  <2>2. Unlocked /\ UNCHANGED <<state, params, ring, feeds, timer, cb, rd>>
    BY <1>25 DEF SetFilter, IoBegin
  <2>3. QuietInv'
    BY <1>0, <1>00, <2>1, <2>2
    DEF QuietInv, Running, ring, feeds, Empty, Avail, Unlocked
  <2>4. WriteBounds'
    BY <1>0, <1>00, <2>1, <2>2
    DEF WriteBounds, QuietInv, Locking, Running, ring, feeds, FreeBytes, Chunk, Unlocked
  <2> QED
    BY <2>3, <2>4
<1>26. ASSUME AddPid PROVE QuietInv' /\ WriteBounds'
  <2>1. QuietInv'
    BY <1>0, <1>00, <1>26
    DEF AddPid, QuietInv, Running, ring, feeds, Empty, Avail, Unlocked
  <2>2. WriteBounds'
    BY <1>0, <1>00, <1>26
    DEF AddPid, WriteBounds, QuietInv, Locking, Running, ring, feeds, FreeBytes, Chunk,
        Unlocked
  <2> QED
    BY <2>1, <2>2
<1>27. ASSUME RemovePid PROVE QuietInv' /\ WriteBounds'
  <2>1. QuietInv'
    BY <1>0, <1>00, <1>27
    DEF RemovePid, QuietInv, Running, ring, feeds, Empty, Avail, Unlocked
  <2>2. WriteBounds'
    BY <1>0, <1>00, <1>27
    DEF RemovePid, WriteBounds, QuietInv, Locking, Running, ring, feeds, FreeBytes, Chunk,
        Unlocked
  <2> QED
    BY <2>1, <2>2
<1>28. ASSUME StopState PROVE QuietInv' /\ WriteBounds'
  <2>1. io'.at = IF params.type = "sec" THEN "stop_timer" ELSE "stop_feed"
    BY <1>0, <1>28, IoMoves DEF StopState, IoTo
  <2>2. QuietInv'
    BY <1>0, <1>00, <1>28, <2>1
    DEF StopState, QuietInv, Running, ring, feeds, Empty, Avail
  <2>3. WriteBounds'
    BY <1>0, <1>00, <1>28, <2>1
    DEF StopState, WriteBounds, QuietInv, Locking, Running, ring, feeds, FreeBytes, Chunk
  <2> QED
    BY <2>2, <2>3
<1>29. ASSUME StopTimer PROVE QuietInv' /\ WriteBounds'
  <2>1. io'.at = "stop_feed"
    BY <1>0, <1>29, IoMoves DEF StopTimer, IoTo
  <2>2. QuietInv'
    BY <1>0, <1>00, <1>29, <2>1
    DEF StopTimer, QuietInv, Running, ring, feeds, Empty, Avail
  <2>3. WriteBounds'
    BY <1>0, <1>00, <1>29, <2>1
    DEF StopTimer, WriteBounds, QuietInv, Locking, Running, ring, feeds, FreeBytes, Chunk
  <2> QED
    BY <2>2, <2>3
<1>30. ASSUME StopFeed PROVE QuietInv' /\ WriteBounds'
  <2>1. io'.at = IF listed > 1 THEN "stop_feed" ELSE "flush"
    BY <1>0, <1>30, IoMoves DEF StopFeed, IoTo
  <2>2. QuietInv'
    BY <1>0, <1>00, <1>30, <2>1
    DEF StopFeed, Restarted, QuietInv, Running, ring, feeds, Empty, Avail
  <2>3. WriteBounds'
    BY <1>0, <1>00, <1>30, <2>1
    DEF StopFeed, Restarted, WriteBounds, QuietInv, Locking, Running, ring, feeds, FreeBytes, Chunk
  <2> QED
    BY <2>2, <2>3
<1>31. ASSUME StopFlush PROVE QuietInv' /\ WriteBounds'
  <2>1. io'.at = "after"
    BY <1>0, <1>31, IoMoves DEF StopFlush, IoTo
  <2>2. QuietInv'
    BY <1>0, <1>00, <1>31, <2>1
    DEF StopFlush, QuietInv, Running, ring, feeds, Empty, Avail, dvb_ringbuffer_flush,
        Locking
  <2>3. WriteBounds'
    BY <1>0, <1>00, <1>31, <2>1
    DEF StopFlush, WriteBounds, QuietInv, Locking, Running, ring, feeds, FreeBytes, Chunk,
        dvb_ringbuffer_flush
  <2> QED
    BY <2>2, <2>3
<1>32. ASSUME StopReturns PROVE QuietInv' /\ WriteBounds'
  <2>1. QuietInv'
    BY <1>0, <1>00, <1>32
    DEF StopReturns, QuietInv, Running, ring, feeds, Empty, Avail
  <2>2. WriteBounds'
    BY <1>0, <1>00, <1>32
    DEF StopReturns, WriteBounds, QuietInv, Locking, Running, ring, feeds, FreeBytes,
        Chunk
  <2> QED
    BY <2>1, <2>2
<1>33. ASSUME Free PROVE QuietInv' /\ WriteBounds'
  <2>1. QuietInv'
    BY <1>0, <1>00, <1>33
    DEF Free, QuietInv, Running, ring, feeds, Empty, Avail
  <2>2. WriteBounds'
    BY <1>0, <1>00, <1>33
    DEF Free, WriteBounds, QuietInv, Locking, Running, ring, feeds, FreeBytes, Chunk
  <2> QED
    BY <2>1, <2>2
<1>34. ASSUME FilterSet PROVE QuietInv' /\ WriteBounds'
  <2>1. io'.at \in {"idle", "after"}
    BY <1>0, <1>34, IoMoves DEF IoTo
  <2>2. /\ io.at = "after" /\ state' = "set" /\ listed' = 0 /\ params' = io.p
        /\ UNCHANGED <<ring, streams, timer, cb, rd>>
    BY <1>34 DEF FilterSet
  <2>3. QuietInv'
    BY <1>0, <1>00, <2>1, <2>2
    DEF QuietInv, Running, ring, feeds, Empty, Avail
  <2>4. WriteBounds'
    BY <1>0, <1>00, <2>1, <2>2
    DEF WriteBounds, QuietInv, Locking, Running, ring, feeds, FreeBytes, Chunk
  <2> QED
    BY <2>3, <2>4
<1>35. ASSUME StartPrepare PROVE QuietInv' /\ WriteBounds'
  <2>1. io'.at = "start_feed"
    BY <1>0, <1>35, IoMoves DEF StartPrepare, IoTo
  <2>2. data' # None
    BY <1>0, <1>35, ConstantsAssumption DEF StartPrepare, Memory, TypeOK
  <2>3. QuietInv'
    BY <1>0, <1>00, <1>35, <2>1, <2>2
    DEF StartPrepare, QuietInv, Running, ring, feeds, Empty, Avail, dvb_ringbuffer_flush
  <2>4. WriteBounds'
    BY <1>0, <1>00, <1>35, <2>1, <2>2
    DEF StartPrepare, WriteBounds, QuietInv, Locking, Running, ring, feeds, FreeBytes,
        Chunk, dvb_ringbuffer_flush
  <2> QED
    BY <2>3, <2>4
<1>36. ASSUME StartFeed PROVE QuietInv' /\ WriteBounds'
  <2>1. io'.at \in {"start_feed", "arm", "go"} /\ (io'.at = "arm" => params.type = "sec")
    BY <1>0, <1>36, IoMoves DEF StartFeed, IoTo
  <2>2. QuietInv'
    BY <1>0, <1>00, <1>36, <2>1
    DEF StartFeed, QuietInv, Running, ring, feeds, Empty, Avail
  <2>3. WriteBounds'
    BY <1>0, <1>00, <1>36, <2>1
    DEF StartFeed, WriteBounds, QuietInv, Locking, Running, ring, feeds, FreeBytes, Chunk
  <2> QED
    BY <2>2, <2>3
<1>37. ASSUME StartNothing PROVE QuietInv' /\ WriteBounds'
  <2>1. io'.at = "go"
    BY <1>0, <1>37, IoMoves DEF StartNothing, IoTo
  <2>2. QuietInv'
    BY <1>0, <1>00, <1>37, <2>1
    DEF StartNothing, QuietInv, Running, ring, feeds, Empty, Avail
  <2>3. WriteBounds'
    BY <1>0, <1>00, <1>37, <2>1
    DEF StartNothing, WriteBounds, QuietInv, Locking, Running, ring, feeds, FreeBytes,
        Chunk
  <2> QED
    BY <2>2, <2>3
<1>38. ASSUME StartFails PROVE QuietInv' /\ WriteBounds'
  <2>1. params.type = "sec"
    BY <1>38, ConstantsAssumption DEF StartFails, NoPartialStart
  <2>2. streams = 0
    BY <1>0, <1>38, <2>1 DEF StartFails, Wanted, QuietInv
  <2>3. QuietInv'
    BY <1>0, <1>00, <1>38, <2>1, <2>2
    DEF StartFails, QuietInv, Running, ring, feeds, Empty, Avail
  <2>4. WriteBounds'
    BY <1>0, <1>00, <1>38, <2>1, <2>2
    DEF StartFails, WriteBounds, QuietInv, Locking, Running, ring, feeds, FreeBytes, Chunk
  <2> QED
    BY <2>3, <2>4
<1>39. ASSUME StartTimer PROVE QuietInv' /\ WriteBounds'
  <2>1. io'.at = "go" /\ io.at = "arm"
    BY <1>0, <1>39, IoMoves DEF StartTimer, IoTo
  <2>2. QuietInv'
    BY <1>0, <1>00, <1>39, <2>1
    DEF StartTimer, QuietInv, Running, ring, feeds, Empty, Avail
  <2>3. WriteBounds'
    BY <1>0, <1>00, <1>39, <2>1
    DEF StartTimer, WriteBounds, QuietInv, Locking, Running, ring, feeds, FreeBytes, Chunk
  <2> QED
    BY <2>2, <2>3
<1>40. ASSUME StartDone PROVE QuietInv' /\ WriteBounds'
  <2>1. QuietInv'
    BY <1>0, <1>00, <1>40
    DEF StartDone, QuietInv, Running, ring, feeds, Empty, Avail
  <2>2. WriteBounds'
    BY <1>0, <1>00, <1>40
    DEF StartDone, WriteBounds, QuietInv, Locking, Running, ring, feeds, FreeBytes, Chunk
  <2> QED
    BY <2>1, <2>2
<1> QED
  BY <1>1, <1>2, <1>3, <1>4, <1>5, <1>6, <1>7, <1>8, <1>9, <1>10, <1>11, <1>12, <1>13,
     <1>14, <1>15, <1>16, <1>17, <1>18, <1>19, <1>20, <1>21, <1>22, <1>23, <1>24, <1>25,
     <1>26, <1>27, <1>28, <1>29, <1>30, <1>31, <1>32, <1>33, <1>34, <1>35, <1>36, <1>37,
     <1>38, <1>39, <1>40
  DEF Next, DemuxSteps, ReadSteps, IoctlSteps

LEMMA QuietInvariant == NoPartialStart /\ Spec => [](BaseInv /\ QuietInv /\ WriteBounds)
<1>1. Init => QuietInv /\ WriteBounds
  <2>1. Idle.at = "idle"
    BY DEF Idle
  <2> QED
    BY <2>1 DEF Init, QuietInv, WriteBounds, Running, Empty
<1>2. ASSUME BaseInv, QuietInv, WriteBounds, UNCHANGED vars PROVE QuietInv' /\ WriteBounds'
  BY <1>2 DEF vars, QuietInv, WriteBounds, Running, Empty, Avail, FreeBytes
<1>3. NoPartialStart /\ BaseInv /\ QuietInv /\ WriteBounds /\ [Next]_vars
        => QuietInv' /\ WriteBounds'
  BY <1>2, QuietStep
<1>4. NoPartialStart /\ Spec => [](QuietInv /\ WriteBounds)
  <2>1. ASSUME NoPartialStart PROVE Spec => [](QuietInv /\ WriteBounds)
    <3>1. BaseInv /\ QuietInv /\ WriteBounds /\ [Next]_vars => QuietInv' /\ WriteBounds'
      BY <1>3, <2>1
    <3> QED
      BY <1>1, <3>1, BaseInvariant, PTL DEF Spec
  <2> QED
    BY <2>1
<1> QED
  BY <1>4, BaseInvariant, PTL

\* A filter that is not running has no feed, callback, timer, byte or error left
\* once the call that stopped it has returned, whatever the callback and the timer
\* were doing: provided the demux never refuses one of several feeds of a filter.
THEOREM StoppedFilterIsAlwaysQuiet == NoPartialStart /\ Spec => []StoppedFilterIsQuiet
<1>1. BaseInv /\ QuietInv => StoppedFilterIsQuiet
  <2> SUFFICES ASSUME BaseInv, QuietInv PROVE StoppedFilterIsQuiet
    OBVIOUS
  <2>1. Idle.at = "idle" /\ streams \in Nat
    BY Fields, ConstantsAssumption DEF BaseInv, TypeOK
  <2> QED
    BY <2>1 DEF QuietInv, StoppedFilterIsQuiet, Running
<1> QED
  BY QuietInvariant, <1>1, PTL

-----------------------------------------------------------------------------
(***************************************************************************)
(* The order of the bytes.                                                 *)
(***************************************************************************)
LEMMA DistType ==
  ASSUME NEW s \in Nat \ {0}, NEW r \in 0..(s - 1), NEW p \in 0..(s - 1)
  PROVE  Dist(s, r, p) \in Nat /\ Dist(s, r, p) < s
BY DEF Dist

LEMMA FilledBound ==
  ASSUME BaseInv, WriteBounds
  PROVE  /\ Filled \in 0..(size - 1) /\ Avail \in 0..Filled /\ size \in Nat \ {0}
         /\ cb.at = "publish" => cb.moved \in Nat /\ Filled = Avail + cb.moved
         /\ cb.at # "publish" => Filled = Avail
<1>1. cb.at = "publish" => cb.len \in Nat /\ cb.moved \in Nat
  BY Fields DEF BaseInv
<1>2. /\ size \in Nat \ {0} /\ Avail \in 0..(size - 1) /\ FreeBytes \in 0..(size - 1)
      /\ Avail + FreeBytes = size - 1
  BY Room DEF BaseInv
<1>3. cb.at = "publish" => cb.moved + cb.len <= FreeBytes
  BY DEF WriteBounds
<1> HIDE DEF BaseInv
<1> QED
  BY <1>1, <1>2, <1>3 DEF Filled

\* Nothing stored, taken or dropped.
LEMMA StillChain ==
  ASSUME Chain, FromLast, UNCHANGED <<data, size, pread, last>>, Filled' = Filled
  PROVE  Chain' /\ FromLast'
BY DEF Chain, FromLast

LEMMA StillArriving ==
  ASSUME ToArriving, UNCHANGED <<data, size, pread, last, arriving>>, Filled' = Filled,
         Connected' => Connected
  PROVE  ToArriving'
BY DEF ToArriving

LEMMA Emptied ==
  ASSUME TypeOK', Filled' = 0
  PROVE  /\ Chain' /\ FromLast'
         /\ last' = None => ToArriving'
         /\ ToArriving /\ Filled = 0 /\ UNCHANGED <<last, arriving>> /\ (Connected' => Connected)
              => ToArriving'
<1>1. size' \in Nat \ {0} /\ pread' \in 0..(size' - 1)
  BY ConstantsAssumption DEF TypeOK
<1>2. \A p \in 0..(size' - 1) : Dist(size', pread', p) \in Nat
  BY <1>1, DistType
<1>3. Chain' /\ FromLast'
  BY <1>1, <1>2 DEF Chain, FromLast
<1>4. ASSUME last' = None PROVE ToArriving'
  BY <1>4 DEF ToArriving
<1>5. ASSUME ToArriving, Filled = 0, UNCHANGED <<last, arriving>>, Connected' => Connected
      PROVE  ToArriving'
  BY <1>5 DEF ToArriving
<1> QED
  BY <1>3, <1>4, <1>5

\* The reader moves pread over bytes that are stored.
LEMMA Slide ==
  ASSUME TypeOK, UNCHANGED <<size, data, pwrite, cb>>, NEW m \in Nat, m <= Avail,
         pread' = IF pread + m >= size THEN pread + m - size ELSE pread + m,
         Filled \in 0..(size - 1), Avail <= Filled,
         cb.at = "publish" => cb.moved \in Nat
  PROVE  /\ Avail' = Avail - m /\ Filled' = Filled - m
         /\ \A p \in 0..(size - 1) : /\ Dist(size, pread, p) \in Nat
                                     /\ Dist(size, pread', p) \in Nat
                                     /\ Dist(size, pread', p) < Filled'
                                          => Dist(size, pread', p) + m = Dist(size, pread, p)
<1>1. size \in Nat \ {0} /\ pread \in 0..(size - 1) /\ pwrite \in 0..(size - 1)
  BY ConstantsAssumption DEF TypeOK
<1>2. Avail \in 0..(size - 1)
  BY Room
<1>3. pread' \in 0..(size - 1)
  BY <1>1, <1>2
<1>4. Avail' = Avail - m
  BY <1>1, <1>2, <1>3 DEF Avail
<1>5. Filled' = Filled - m
  <2>1. CASE cb.at = "publish"
    <3>1. Filled = Avail + cb.moved /\ Filled' = Avail' + cb.moved
      BY <2>1 DEF Filled
    <3> QED
      BY <1>2, <1>4, <2>1, <3>1
  <2>2. CASE cb.at # "publish"
    BY <1>2, <1>4, <2>2 DEF Filled
  <2> QED
    BY <2>1, <2>2
<1>6. ASSUME NEW p \in 0..(size - 1)
      PROVE  /\ Dist(size, pread, p) \in Nat /\ Dist(size, pread', p) \in Nat
             /\ Dist(size, pread', p) < Filled - m
                  => Dist(size, pread', p) + m = Dist(size, pread, p)
  BY <1>1, <1>2, <1>3 DEF Dist
<1> QED
  BY <1>4, <1>5, <1>6

LEMMA SlideChain ==
  ASSUME TypeOK, Chain, UNCHANGED <<size, data, pwrite, cb>>, NEW m \in Nat, m <= Avail,
         pread' = IF pread + m >= size THEN pread + m - size ELSE pread + m,
         Filled \in 0..(size - 1), Avail <= Filled,
         cb.at = "publish" => cb.moved \in Nat
  PROVE  /\ Filled' = Filled - m /\ Avail' = Avail - m /\ Chain'
         /\ Connected /\ ToArriving =>
              (Filled' > 0 => \A p \in 0..(size - 1) :
                 Dist(size, pread', p) + 1 = Filled' => arriving = Stream(data[p], 1))
<1>1. /\ Avail' = Avail - m /\ Filled' = Filled - m
      /\ \A p \in 0..(size - 1) : /\ Dist(size, pread, p) \in Nat
                                  /\ Dist(size, pread', p) \in Nat
                                  /\ Dist(size, pread', p) < Filled'
                                       => Dist(size, pread', p) + m = Dist(size, pread, p)
  BY Slide
<1>2. size \in Nat /\ Filled \in Nat /\ Filled' \in Int
  BY <1>1, ConstantsAssumption DEF TypeOK
<1>3. ASSUME data # None, NEW p \in 0..(size - 1)
      PROVE  /\ Dist(size, pread', p) < Filled' => data[p] \in Byte
             /\ Dist(size, pread', p) + 1 < Filled' => data[After(size, p)] = Stream(data[p], 1)
  <2>1. /\ Dist(size, pread, p) < Filled => data[p] \in Byte
        /\ Dist(size, pread, p) + 1 < Filled => data[After(size, p)] = Stream(data[p], 1)
    BY <1>3 DEF Chain
  <2> QED
    BY <1>1, <1>2, <1>3, <2>1
<1>4. Chain'
  BY <1>3 DEF Chain
<1>5. ASSUME Connected, ToArriving, Filled' > 0, NEW p \in 0..(size - 1),
             Dist(size, pread', p) + 1 = Filled'
      PROVE  arriving = Stream(data[p], 1)
  <2>1. Dist(size, pread, p) + 1 = Filled /\ Filled > 0
    BY <1>1, <1>2, <1>5
  <2> QED
    BY <1>5, <2>1 DEF ToArriving
<1> QED
  BY <1>1, <1>4, <1>5

\* What dvb_ringbuffer_write stores continues what is stored, and the next byte
\* of the stream continues it.
LEMMA CopyExtends ==
  ASSUME BaseInv, WriteBounds, Errors, Chain, FromLast, ToArriving, CallbackCopy
  PROVE  /\ Chain' /\ FromLast' /\ ToArriving'
         /\ \A p \in 0..(size - 1) : Dist(size, pread, p) < Avail => data'[p] = data[p]
<1> DEFINE n == Chunk(pwrite, cb.len)
<1>1. /\ size \in Nat \ {0} /\ pread \in 0..(size - 1) /\ pwrite \in 0..(size - 1)
      /\ arriving \in Byte /\ last \in Byte \cup {None}
  BY ConstantsAssumption DEF BaseInv, TypeOK
<1>2. cb.at = "copy" /\ cb.len \in Nat /\ cb.len > 0 /\ cb.len <= FreeBytes /\ data # None
  BY Fields DEF BaseInv, Locking, CallbackCopy, WriteBounds
<1>3. /\ FreeBytes \in 0..(size - 1) /\ Avail \in 0..(size - 1)
      /\ Avail + FreeBytes = size - 1
  BY Room DEF BaseInv
<1>4. n \in 1..cb.len /\ pwrite + n <= size /\ n <= FreeBytes
  BY <1>1, <1>2, <1>3 DEF Chunk
<1>5. /\ data' = [i \in DOMAIN data |-> IF i \in pwrite..(pwrite + n - 1)
                                          THEN Stream(arriving, i - pwrite) ELSE data[i]]
      /\ arriving' = Stream(arriving, n)
      /\ UNCHANGED <<size, pread, pwrite, last, params, error, rd>>
  BY DEF CallbackCopy
<1>6. DOMAIN data = 0..(size - 1)
  BY <1>2 DEF BaseInv, TypeOK
<1>7. cb'.at = "publish" /\ cb'.moved = n
  BY CallbackStores DEF BaseInv, CbTo
<1> HIDE DEF n
<1>8. Filled = Avail /\ Filled' = Avail + n
  <2>1. Avail' = Avail
    BY <1>5 DEF Avail
  <2> QED
    BY <1>2, <1>3, <1>7, <2>1 DEF Filled
<1>9. \A p \in 0..(size - 1) :
        p \in pwrite..(pwrite + n - 1) => p - pwrite \in Nat /\ p - pwrite < n
  BY <1>1, <1>4
\* where the new bytes are
<1>10. ASSUME NEW p \in 0..(size - 1)
       PROVE  /\ Dist(size, pread, p) \in Nat
              /\ p \in pwrite..(pwrite + n - 1) => Dist(size, pread, p) = Avail + (p - pwrite)
              /\ p \notin pwrite..(pwrite + n - 1) /\ Dist(size, pread, p) < Avail + n
                   => Dist(size, pread, p) < Avail
  BY <1>1, <1>3, <1>4 DEF Dist, Avail, FreeBytes
<1>11. ASSUME NEW p \in 0..(size - 1)
       PROVE  /\ p \in pwrite..(pwrite + n - 1) => data'[p] = Stream(arriving, p - pwrite)
              /\ p \notin pwrite..(pwrite + n - 1) => data'[p] = data[p]
  BY <1>5, <1>6
<1>12. ASSUME NEW p \in 0..(size - 1), Dist(size, pread, p) < Avail
       PROVE  data'[p] = data[p] /\ p \notin pwrite..(pwrite + n - 1)
  <2>1. p \notin pwrite..(pwrite + n - 1)
    BY <1>3, <1>9, <1>10, <1>12
  <2> QED
    BY <1>11, <2>1
<1>13. ASSUME NEW p \in 0..(size - 1), Dist(size, pread, p) + 1 < size
       PROVE  /\ After(size, p) \in 0..(size - 1)
              /\ Dist(size, pread, After(size, p)) = Dist(size, pread, p) + 1
  BY <1>1, <1>13 DEF Dist, After
<1>14. ASSUME NEW p \in 0..(size - 1), p \in pwrite..(pwrite + n - 1)
       PROVE  data'[p] \in Byte
  BY <1>1, <1>9, <1>11, <1>14, StreamType
<1>15. /\ Avail > 0 => \A p \in 0..(size - 1) : Dist(size, pread, p) + 1 = Avail
                                                  => arriving = Stream(data[p], 1)
       /\ Avail = 0 /\ last # None => arriving = Stream(last, 1)
  <2>1. Connected
    BY <1>2 DEF Connected
  <2> QED
    BY <1>8, <2>1 DEF ToArriving
<1>16. data'[pwrite] = arriving /\ Dist(size, pread, pwrite) = Avail
  <2>1. pwrite \in pwrite..(pwrite + n - 1) /\ pwrite - pwrite = 0
    BY <1>1, <1>4
  <2>2. Stream(arriving, 0) = arriving
    BY <1>1, StreamType
  <2> QED
    BY <1>1, <1>3, <1>10, <1>11, <2>1, <2>2
<1>17. ASSUME NEW p \in 0..(size - 1), Dist(size, pread, p) < Avail + n
       PROVE  data'[p] \in Byte
  <2>1. CASE p \in pwrite..(pwrite + n - 1)
    BY <1>14, <2>1
  <2>2. CASE p \notin pwrite..(pwrite + n - 1)
    <3>1. Dist(size, pread, p) < Avail
      BY <1>10, <1>17, <2>2
    <3> QED
      BY <1>2, <1>8, <1>12, <3>1 DEF Chain
  <2> QED
    BY <2>1, <2>2
<1>18. ASSUME NEW p \in 0..(size - 1), Dist(size, pread, p) + 1 < Avail + n
       PROVE  data'[After(size, p)] = Stream(data'[p], 1)
  <2> DEFINE q == After(size, p)
  <2>1. q \in 0..(size - 1) /\ Dist(size, pread, q) = Dist(size, pread, p) + 1
    BY <1>1, <1>3, <1>4, <1>10, <1>13, <1>18
  <2>2. CASE Dist(size, pread, q) < Avail
    <3>1. Dist(size, pread, p) < Avail /\ Dist(size, pread, p) + 1 < Avail
      BY <1>3, <1>10, <2>1, <2>2
    <3>2. data'[p] = data[p] /\ data'[q] = data[q]
      BY <1>12, <2>1, <2>2, <3>1
    <3>3. data[q] = Stream(data[p], 1)
      BY <1>2, <1>8, <3>1 DEF Chain
    <3> QED
      BY <3>2, <3>3
  <2>3. CASE Dist(size, pread, q) = Avail
    <3>1. q = pwrite
      BY <1>1, <1>3, <2>1, <2>3 DEF Dist, Avail
    <3>2. Dist(size, pread, p) + 1 = Avail /\ Avail > 0 /\ Dist(size, pread, p) < Avail
      BY <1>3, <1>10, <2>1, <2>3
    <3>3. arriving = Stream(data[p], 1) /\ data'[p] = data[p]
      BY <1>12, <1>15, <3>2
    <3> QED
      BY <1>16, <3>1, <3>3
  <2>4. CASE Dist(size, pread, q) > Avail
    <3>1. /\ Dist(size, pread, p) \in Nat /\ Dist(size, pread, p) >= Avail
          /\ Dist(size, pread, q) < Avail + n
      BY <1>3, <1>10, <1>18, <2>1, <2>4
    <3>2. p \in pwrite..(pwrite + n - 1) /\ q \in pwrite..(pwrite + n - 1)
      BY <1>3, <1>4, <1>10, <2>1, <2>4, <3>1
    <3>3. q - pwrite = (p - pwrite) + 1 /\ p - pwrite \in Nat
      BY <1>1, <1>3, <1>9, <1>10, <2>1, <3>2
    <3>4. data'[p] = Stream(arriving, p - pwrite) /\ data'[q] = Stream(arriving, q - pwrite)
      BY <1>11, <2>1, <3>2
    <3> QED
      BY <1>1, <3>3, <3>4, StreamStep
  <2> QED
    BY <1>3, <1>10, <2>1, <2>2, <2>3, <2>4
<1>19. Chain'
  BY <1>5, <1>8, <1>17, <1>18 DEF Chain
<1>20. FromLast'
  <2>1. ASSUME last # None PROVE data'[pread] = Stream(last, 1)
    <3>1. CASE Avail > 0
      <4>1. Dist(size, pread, pread) = 0
        BY <1>1 DEF Dist
      <4>2. data[pread] = Stream(last, 1)
        BY <1>2, <1>8, <2>1, <3>1 DEF FromLast
      <4> QED
        BY <1>1, <1>12, <3>1, <4>1, <4>2
    <3>2. CASE Avail = 0
      <4>1. pread = pwrite
        BY <1>1, <3>2 DEF Avail
      <4> QED
        BY <1>15, <1>16, <2>1, <3>2, <4>1
    <3> QED
      BY <1>3, <3>1, <3>2
  <2> QED
    BY <1>5, <2>1 DEF FromLast
<1>21. ToArriving'
  <2>1. ASSUME NEW p \in 0..(size - 1), Dist(size, pread, p) + 1 = Avail + n
        PROVE  arriving' = Stream(data'[p], 1)
    <3>1. p \in pwrite..(pwrite + n - 1)
      BY <1>3, <1>4, <1>10, <2>1
    <3>2. p - pwrite \in Nat /\ (p - pwrite) + 1 = n
      BY <1>1, <1>3, <1>4, <1>9, <1>10, <2>1, <3>1
    <3> QED
      BY <1>1, <1>5, <1>11, <3>1, <3>2, StreamStep
  <2>2. Filled' > 0
    BY <1>3, <1>4, <1>8
  <2> QED
    BY <1>5, <1>8, <2>1, <2>2 DEF ToArriving
<1> QED
  BY <1>12, <1>19, <1>20, <1>21

\* A read takes its bytes out.
LEMMA PublishKeepsOrder ==
  ASSUME BaseInv, QuietInv, WriteBounds, OrderInv, ReadPublish
  PROVE  Chain' /\ FromLast' /\ ToArriving'
<1> DEFINE m == Len(rd.buf)
<1>1. /\ size \in Nat \ {0} /\ pread \in 0..(size - 1) /\ pwrite \in 0..(size - 1)
      /\ data # None
  BY Fields, ConstantsAssumption DEF BaseInv, TypeOK, Locking, ReadPublish
<1>2. m \in 0..rd.n /\ pread + m \in 0..size /\ rd.n \in Nat /\ rd.n <= Avail
  BY ReadAdvances, Fields DEF BaseInv, QuietInv, ReadPublish
<1>3. /\ Filled \in 0..(size - 1) /\ Avail \in 0..Filled
      /\ cb.at = "publish" => cb.moved \in Nat
  BY FilledBound
<1>4. /\ pread' = (pread + m) % size /\ last' = IF m = 0 THEN last ELSE rd.buf[m]
      /\ UNCHANGED <<size, data, pwrite, cb, error, params, arriving>>
  BY DEF ReadPublish
<1>5. \A i \in 1..m : rd.buf[i] = data[pread + i - 1]
  BY DEF OrderInv, Copied, ReadPublish
<1>6. Connected' => Connected
  <2>1. rd'.at # "clear"
    BY ReadAdvances, Fields DEF BaseInv, RdTo
  <2> QED
    BY <1>4, <2>1 DEF Connected
<1>7. Chain /\ FromLast /\ ToArriving /\ TypeOK
  BY DEF OrderInv, BaseInv
<1> HIDE DEF m
<1>8. pread' = IF pread + m >= size THEN pread + m - size ELSE pread + m
  <2>1. (pread + m) % size = IF pread + m = size THEN 0 ELSE pread + m
    BY <1>1, <1>2, Wrap
  <2> QED
    BY <1>1, <1>2, <1>4, <2>1
<1>9. m \in Nat /\ m <= Avail /\ Avail <= Filled /\ Filled \in Nat /\ Avail \in Nat
  BY <1>2, <1>3
<1>10. /\ Filled' = Filled - m /\ Chain'
       /\ Connected => (Filled' > 0 => \A p \in 0..(size - 1) :
               Dist(size, pread', p) + 1 = Filled' => arriving = Stream(data[p], 1))
  BY <1>3, <1>4, <1>7, <1>8, <1>9, SlideChain
\* the last byte that is taken
<1>11. ASSUME m > 0
       PROVE  /\ pread + m - 1 \in 0..(size - 1) /\ last' = data[pread + m - 1]
              /\ Dist(size, pread, pread + m - 1) = m - 1
              /\ After(size, pread + m - 1) = pread'
  <2>1. pread + m - 1 \in 0..(size - 1) /\ m \in 1..m
    BY <1>1, <1>2, <1>9, <1>11
  <2>2. last' = data[pread + m - 1]
    BY <1>4, <1>5, <1>11, <2>1
  <2> QED
    BY <1>1, <1>2, <1>8, <1>9, <1>11, <2>1, <2>2 DEF Dist, After
<1>12. FromLast'
  <2>1. ASSUME Filled' > 0, last' # None PROVE data[pread'] = Stream(last', 1)
    <3>1. CASE m = 0
      <4>1. pread' = pread /\ last' = last /\ Filled > 0
        BY <1>1, <1>4, <1>8, <1>9, <1>10, <2>1, <3>1
      <4> QED
        BY <1>1, <1>7, <2>1, <4>1 DEF FromLast
    <3>2. CASE m > 0
      <4>1. Dist(size, pread, pread + m - 1) + 1 < Filled
        BY <1>9, <1>10, <1>11, <2>1, <3>2
      <4>2. data[After(size, pread + m - 1)] = Stream(data[pread + m - 1], 1)
        BY <1>1, <1>7, <1>11, <3>2, <4>1 DEF Chain
      <4> QED
        BY <1>11, <3>2, <4>2
    <3> QED
      BY <1>9, <3>1, <3>2
  <2> QED
    BY <1>4, <2>1 DEF FromLast
<1>13. ToArriving'
  <2>1. ASSUME Connected, Filled' = 0, last' # None PROVE arriving = Stream(last', 1)
    <3>1. CASE m = 0
      <4>1. last' = last /\ Filled = 0
        BY <1>4, <1>9, <1>10, <2>1, <3>1
      <4> QED
        BY <1>7, <2>1, <4>1 DEF ToArriving
    <3>2. CASE m > 0
      <4>1. Dist(size, pread, pread + m - 1) + 1 = Filled /\ Filled > 0
        BY <1>9, <1>10, <1>11, <2>1, <3>2
      <4> QED
        BY <1>7, <1>11, <2>1, <3>2, <4>1 DEF ToArriving
    <3> QED
      BY <1>9, <3>1, <3>2
  <2> QED
    BY <1>4, <1>6, <1>10, <2>1 DEF ToArriving
<1> QED
  BY <1>10, <1>12, <1>13

\* A read drops what is published; what the callback has stored since stays.
LEMMA FlushKeepsOrder ==
  ASSUME BaseInv, QuietInv, WriteBounds, OrderInv, ReadFlush
  PROVE  Chain' /\ FromLast' /\ ToArriving'
<1>1. /\ size \in Nat \ {0} /\ pread \in 0..(size - 1) /\ pwrite \in 0..(size - 1)
  BY ConstantsAssumption DEF BaseInv, TypeOK
<1>2. /\ Filled \in 0..(size - 1) /\ Avail \in 0..Filled
      /\ cb.at = "publish" => cb.moved \in Nat
      /\ cb.at # "publish" => Filled = Avail
  BY FilledBound
<1>3. /\ pread' = pwrite /\ last' = None
      /\ UNCHANGED <<size, data, pwrite, cb, error, params, arriving>>
  BY DEF ReadFlush
<1>4. Chain /\ ToArriving /\ TypeOK
  BY DEF OrderInv, BaseInv
<1>5. pread' = IF pread + Avail >= size THEN pread + Avail - size ELSE pread + Avail
  BY <1>1, <1>3 DEF Avail
<1>6. Avail \in Nat /\ Avail <= Avail /\ Avail <= Filled
  BY <1>2
<1>7. /\ Filled' = Filled - Avail /\ Chain'
      /\ Connected => (Filled' > 0 => \A p \in 0..(size - 1) :
              Dist(size, pread', p) + 1 = Filled' => arriving = Stream(data[p], 1))
  BY <1>2, <1>3, <1>4, <1>5, <1>6, SlideChain
<1>8. FromLast'
  BY <1>3 DEF FromLast
<1>9. Filled' > 0 => Connected
  BY <1>2, <1>6, <1>7 DEF Connected
<1>10. ToArriving'
  BY <1>3, <1>7, <1>9 DEF ToArriving
<1> QED
  BY <1>7, <1>8, <1>10

\* Steps that leave the buffer, the callback and the stream alone.
LEMMA OthersKeepOrder ==
  ASSUME OrderInv,
         UNCHANGED <<params, data, size, pread, pwrite, error, cb, rd, last, arriving>>
  PROVE  OrderInv'
<1>1. Filled' = Filled /\ (Connected' => Connected)
  BY DEF Filled, Avail, Connected
<1>2. Chain' /\ FromLast' /\ ToArriving'
  BY <1>1, StillChain, StillArriving DEF OrderInv
<1>3. Errors' /\ Copied'
  BY DEF OrderInv, Errors, Copied, Empty
<1> QED
  BY <1>2, <1>3 DEF OrderInv

LEMMA ReaderKeepsOrder ==
  ASSUME BaseInv, QuietInv, WriteBounds, OrderInv,
         \/ \E count \in Counts, nonblock \in BOOLEAN : ReadBegin(count, nonblock)
         \/ ReadSteps \/ ReadInterrupted \/ ReadFaults
  PROVE  OrderInv'
<1>0. /\ Idle.at = "idle" /\ CbType /\ RdType /\ IoType /\ TypeOK
      /\ rd = Idle <=> rd.at = "idle"
      /\ rd # Idle => data # None
      /\ Errors /\ Chain /\ FromLast /\ ToArriving /\ Copied
  BY Fields DEF BaseInv, OrderInv, Locking
<1>1. CASE ReadPublish
  <2>1. rd'.at \notin {"flush", "clear", "publish"}
    BY <1>0, <1>1, ReadAdvances DEF BaseInv, RdTo
  <2>2. Errors' /\ Copied'
    BY <2>1, <1>0, <1>1 DEF Errors, Copied, ReadPublish
  <2> QED
    BY <1>1, <2>2, PublishKeepsOrder DEF OrderInv
<1>2. CASE ReadFlush
  <2>1. rd'.at = "clear"
    BY <1>0, <1>2, ReadMoves DEF RdTo
  <2>2. Errors' /\ Copied'
    BY <1>0, <1>2, <2>1 DEF Errors, Copied, ReadFlush, Empty
  <2> QED
    BY <1>2, <2>2, FlushKeepsOrder DEF OrderInv
<1>3. ASSUME ~ReadPublish, ~ReadFlush PROVE OrderInv'
  <2>1. UNCHANGED <<params, data, size, pread, pwrite, cb, last, arriving>>
    BY <1>3 DEF ReadSteps, ReadBegin, ReadTest, ReadWait, ReadAvail, ReadCopy, ReadClear,
                ReadInterrupted, ReadFaults, ring
  <2>2. \/ error' = error
        \/ error' = None /\ rd.at = "clear" /\ rd'.at = "idle"
    BY <1>0, <1>3 DEF ReadSteps, ReadBegin, ReadTest, ReadWait, ReadAvail, ReadCopy,
                      ReadClear,
                ReadInterrupted, ReadFaults, ReadReturns, ring
  <2>3. rd'.at # "clear" /\ (rd'.at = "flush" => error # None)
    <3>1. CASE \E count \in Counts, nonblock \in BOOLEAN : ReadBegin(count, nonblock)
      BY <1>0, <3>1, ReadMoves, ConstantsAssumption
    <3>2. CASE ReadTest
      BY <1>0, <3>2, ReadMoves DEF RdTo
    <3>3. CASE ReadWait
      <4>1. rd.at = "wait"
        BY <3>3 DEF ReadWait
      <4> QED
        BY <1>0, <3>3, <4>1, ReadMoves DEF RdTo
    <3>4. CASE ReadAvail
      BY <1>0, <3>4, ReadMoves DEF RdTo
    <3>5. CASE ReadCopy
      BY <1>0, <3>5, ReadCopies DEF RdTo, BaseInv, ReadBounds, ReadCopy
    <3>6. CASE ReadClear \/ ReadInterrupted \/ ReadFaults
      BY <1>0, <3>6 DEF ReadClear, ReadInterrupted, ReadFaults, ReadReturns
    <3> QED
      BY <1>3, <3>1, <3>2, <3>3, <3>4, <3>5, <3>6 DEF ReadSteps
  <2>4. Copied'
    <3>1. CASE ReadCopy
      <4>1. /\ rd'.buf = [i \in 1..Chunk(pread, rd.n) |-> data[pread + i - 1]]
            /\ Len(rd'.buf) = Chunk(pread, rd.n)
        BY <1>0, <3>1, ReadCopies DEF RdTo, BaseInv, ReadBounds, ReadCopy
      <4> QED
        BY <2>1, <4>1 DEF Copied
    <3>2. CASE ~ReadCopy
      <4>1. rd'.at # "publish"
        <5>1. CASE \E count \in Counts, nonblock \in BOOLEAN : ReadBegin(count, nonblock)
          BY <1>0, <5>1, ReadMoves, ConstantsAssumption
        <5>2. CASE ReadTest
          BY <1>0, <5>2, ReadMoves DEF RdTo
        <5>3. CASE ReadWait
          <6>1. rd.at = "wait"
            BY <5>3 DEF ReadWait
          <6> QED
            BY <1>0, <5>3, <6>1, ReadMoves DEF RdTo
        <5>4. CASE ReadAvail
          BY <1>0, <5>4, ReadMoves DEF RdTo
        <5>5. CASE ReadClear \/ ReadInterrupted \/ ReadFaults
          BY <1>0, <5>5 DEF ReadClear, ReadInterrupted, ReadFaults, ReadReturns
        <5> QED
          BY <1>3, <3>2, <5>1, <5>2, <5>3, <5>4, <5>5 DEF ReadSteps
      <4> QED
        BY <4>1 DEF Copied
    <3> QED
      BY <3>1, <3>2
  <2>5. Errors'
    BY <1>0, <2>1, <2>2, <2>3 DEF Errors, Empty
  <2>6. Filled' = Filled /\ (Connected' => Connected)
    BY <2>1, <2>2, <2>3 DEF Filled, Avail, Connected
  <2>7. Chain' /\ FromLast' /\ ToArriving'
    BY <1>0, <2>1, <2>6, StillChain, StillArriving
  <2> QED
    BY <2>4, <2>5, <2>7 DEF OrderInv
<1> QED
  BY <1>1, <1>2, <1>3

\* The callback up to its copy, and its end.
LEMMA CallbackKeepsOrder ==
  ASSUME BaseInv, QuietInv, WriteBounds, OrderInv,
         (\E len \in Lengths : CallbackBegin(len)) \/ DemuxSteps
  PROVE  OrderInv'
<1>0. /\ Idle.at = "idle" /\ CbType /\ TypeOK
      /\ cb = Idle <=> cb.at = "idle"
      /\ cb # Idle => cb.full \in BOOLEAN /\ cb.len \in Nat /\ cb.moved \in Nat
      /\ Errors /\ Chain /\ FromLast /\ ToArriving /\ Copied
  BY Fields DEF BaseInv, OrderInv
<1>1. CASE CallbackCopy
  <2>1. cb.at = "copy" /\ cb'.at = "publish" /\ cb'.full = cb.full
    BY <1>0, <1>1, CallbackStores DEF CbTo, CallbackCopy
  <2>2. /\ Chain' /\ FromLast' /\ ToArriving'
        /\ \A p \in 0..(size - 1) : Dist(size, pread, p) < Avail => data'[p] = data[p]
    BY <1>0, <1>1, CopyExtends
  <2>3. UNCHANGED <<params, size, pread, pwrite, error, rd, last>>
    BY <1>1 DEF CallbackCopy
  <2>4. Errors'
    BY <1>0, <2>1, <2>3 DEF Errors, Empty
  <2>5. ASSUME rd.at = "publish", NEW i \in 1..Len(rd.buf)
        PROVE  rd.buf[i] = data'[pread + i - 1]
    <3>1. /\ size \in Nat \ {0} /\ pread \in 0..(size - 1) /\ Avail \in Nat
          /\ rd.n \in Nat /\ Len(rd.buf) = Chunk(pread, rd.n) /\ rd.n <= Avail
      BY <2>5, Fields, Room, ConstantsAssumption DEF BaseInv, TypeOK, ReadBounds, QuietInv
    <3>2. Len(rd.buf) \in 0..rd.n /\ pread + Len(rd.buf) <= size
      BY <3>1 DEF Chunk
    <3>3. pread + i - 1 \in 0..(size - 1) /\ Dist(size, pread, pread + i - 1) < Avail
      BY <3>1, <3>2, <2>5 DEF Dist
    <3> QED
      BY <1>0, <2>2, <2>5, <3>3 DEF Copied
  <2>6. Copied'
    BY <2>3, <2>5 DEF Copied
  <2> QED
    BY <2>2, <2>4, <2>6 DEF OrderInv
<1>2. CASE CallbackPublish
  <2>1. /\ cb.at = "publish" /\ cb'.at \in {"copy", "finish"} /\ cb'.full = cb.full /\ ~cb.full
    BY <1>0, <1>2, CallbackStores DEF CbTo, CallbackPublish, WriteBounds
  <2>2. UNCHANGED <<params, data, size, pread, error, rd, last, arriving>>
    BY <1>2 DEF CallbackPublish
  <2>3. Filled' = Filled
    <3>1. /\ size \in Nat \ {0} /\ pwrite \in 0..(size - 1)
          /\ cb.moved \in Nat /\ pwrite + cb.moved \in 0..size
          /\ cb.moved <= FreeBytes /\ Avail \in Nat
      BY <1>0, <2>1, Room DEF TypeOK, WriteBounds
    <3>2. pwrite' = IF pwrite + cb.moved = size THEN 0 ELSE pwrite + cb.moved
      BY <1>2, <3>1, Wrap DEF CallbackPublish
    <3>3. Avail' = Avail + cb.moved
      BY <1>0, <2>2, <3>1, <3>2, CallbackPuts
    <3> QED
      BY <2>1, <3>1, <3>3 DEF Filled
  <2>4. Connected
    BY <2>1 DEF Connected
  <2>5. Chain' /\ FromLast' /\ ToArriving'
    BY <1>0, <2>2, <2>3, <2>4, StillChain, StillArriving
  <2>6. Errors'
    BY <1>0, <2>1, <2>2 DEF Errors
  <2>7. Copied'
    BY <1>0, <2>2 DEF Copied
  <2> QED
    BY <2>5, <2>6, <2>7 DEF OrderInv
<1>3. CASE CallbackFinish
  <2>1. /\ cb.at = "finish" /\ cb' = Idle /\ cb'.at = "idle"
        /\ UNCHANGED <<params, data, size, pread, pwrite, rd, last>>
        /\ error' = IF cb.full THEN "overflow" ELSE error
        /\ arriving' = Stream(arriving, cb.len) /\ cb.len \in Nat /\ (~cb.full => cb.len = 0)
    BY <1>0, <1>3 DEF CallbackFinish, Discard, WriteBounds
  <2>2. Filled' = Filled
    BY <2>1 DEF Filled, Avail
  <2>3. Chain' /\ FromLast'
    BY <1>0, <2>1, <2>2, StillChain
  <2>4. ~cb.full => arriving' = arriving
    BY <1>0, <2>1, StreamType DEF TypeOK
  <2>5. ToArriving'
    <3>1. CASE ~cb.full
      <4>1. Connected
        BY <2>1 DEF Connected
      <4> QED
        BY <1>0, <2>1, <2>2, <2>4, <3>1, <4>1, StillArriving
    <3>2. CASE cb.full /\ rd.at # "clear"
      <4>1. ~Connected'
        BY <2>1, <3>2, ConstantsAssumption DEF Connected
      <4> QED
        BY <4>1 DEF ToArriving
    <3>3. CASE cb.full /\ rd.at = "clear"
      <4>1. Empty /\ last = None
        BY <1>0, <2>1, <3>3 DEF Errors
      <4>2. Filled' = 0
        BY <1>0, <2>1, <2>2, <4>1, ConstantsAssumption DEF Filled, Avail, Empty, TypeOK
      <4> QED
        BY <2>1, <4>1, <4>2 DEF ToArriving
    <3> QED
      BY <3>1, <3>2, <3>3
  <2>6. Errors'
    BY <1>0, <2>1, ConstantsAssumption DEF Errors, Empty
  <2>7. Copied'
    BY <1>0, <2>1 DEF Copied
  <2> QED
    BY <2>3, <2>5, <2>6, <2>7 DEF OrderInv
<1>4. CASE (\E len \in Lengths : CallbackBegin(len)) \/ CallbackLock \/ CallbackDeleteTimer
           \/ CallbackCheck
  <2>1. /\ UNCHANGED <<params, data, size, pread, pwrite, error, rd, last>>
        /\ cb.at \in {"idle", "lock", "timer", "check"}
    BY <1>0, <1>4 DEF CallbackBegin, CallbackLock, CallbackDeleteTimer, CallbackCheck,
                      ring
  <2>2. /\ cb'.at # "publish"
        /\ cb.at = "idle" => /\ cb'.at \in {"idle", "lock"} /\ arriving' = arriving
                             /\ params.type = "sec" /\ error # None => cb'.at = "idle"
        /\ cb.at = "lock" => cb'.at \in {"idle", "timer", "check"}
        /\ cb.at = "lock" /\ cb'.at \in {"timer", "check"} => params.type = "sec" \/ error = None
        /\ cb.at = "timer" => cb'.at = "check"
        /\ cb.at # "lock" => arriving' = arriving
        /\ cb.at = "lock" /\ arriving' # arriving
             => params.type # "sec" /\ error # None /\ cb'.at = "idle"
    <3>1. CASE \E len \in Lengths : CallbackBegin(len)
      <4>1. PICK len \in Lengths : CallbackBegin(len)
        BY <3>1
      <4>2. cb.at = "idle" /\ arriving' = arriving
        BY <1>0, <4>1 DEF CallbackBegin
      <4>3. cb' = cb \/ cb'.at = "lock"
        BY <1>0, <4>1, CallbackMoves, ConstantsAssumption DEF CbTo
      <4>4. params.type = "sec" /\ error # None => cb' = cb
        BY <4>1 DEF CallbackBegin
      <4> QED
        BY <4>2, <4>3, <4>4
    <3>2. CASE CallbackLock
      <4>1. cb.at = "lock"
        BY <3>2 DEF CallbackLock
      <4>2. cb'.at \in {"idle", "timer", "check"}
        BY <1>0, <3>2, CallbackMoves DEF CbTo
      <4>3. \/ cb' = Idle /\ arriving' = arriving
            \/ params.type # "sec" /\ error # None /\ cb' = Idle
            \/ arriving' = arriving /\ (params.type = "sec" \/ error = None)
        BY <3>2 DEF CallbackLock
      <4> QED
        BY <1>0, <4>1, <4>2, <4>3
    <3>3. CASE CallbackDeleteTimer
      <4>1. cb.at = "timer" /\ arriving' = arriving
        BY <3>3 DEF CallbackDeleteTimer
      <4> QED
        BY <1>0, <3>3, <4>1, CallbackMoves DEF CbTo
    <3>4. CASE CallbackCheck
      <4>1. cb.at = "check" /\ arriving' = arriving
        BY <3>4 DEF CallbackCheck
      <4> QED
        BY <1>0, <3>4, <4>1, CallbackMoves DEF CbTo
    <3> QED
      BY <1>4, <3>1, <3>2, <3>3, <3>4
  <2>3. Filled' = Filled /\ Filled = Avail
    BY <1>0, <2>1, <2>2, Room DEF Filled, Avail
  <2>4. Chain' /\ FromLast'
    BY <1>0, <2>1, <2>3, StillChain
  <2>5. ToArriving'
    <3>1. CASE arriving' = arriving
      <4>1. Connected' => Connected
        BY <2>1, <2>2 DEF Connected
      <4> QED
        BY <1>0, <2>1, <2>3, <3>1, <4>1, StillArriving
    <3>2. CASE arriving' # arriving /\ rd.at # "clear"
      <4>1. ~Connected'
        BY <2>1, <2>2, <3>2 DEF Connected
      <4> QED
        BY <4>1 DEF ToArriving
    <3>3. CASE arriving' # arriving /\ rd.at = "clear"
      <4>1. Empty /\ last = None
        BY <1>0, <2>1, <2>2, <3>3 DEF Errors
      <4>2. Filled' = 0
        BY <1>0, <2>3, <4>1, ConstantsAssumption DEF Avail, Empty, TypeOK
      <4> QED
        BY <2>1, <4>1, <4>2 DEF ToArriving
    <3> QED
      BY <3>1, <3>2, <3>3
  <2>6. Errors'
    BY <1>0, <2>1, <2>2 DEF Errors, Empty
  <2>7. Copied'
    BY <1>0, <2>1 DEF Copied
  <2> QED
    BY <2>4, <2>5, <2>6, <2>7 DEF OrderInv
<1> QED
  BY <1>1, <1>2, <1>3, <1>4 DEF DemuxSteps

\* The timer, and the calls of the other processes.
LEMMA CallsKeepOrder ==
  ASSUME NoPartialStart, BaseInv, BaseInv', QuietInv, WriteBounds, OrderInv,
         \/ TimerFires \/ TimerFinishes
         \/ Open \/ Stop \/ Close \/ Start \/ AddPid \/ RemovePid
         \/ \E s \in Sizes : SetBufferSize(s)
         \/ \E p \in Params, immediate \in BOOLEAN : SetFilter(p, immediate)
         \/ IoctlSteps
  PROVE  OrderInv'
<1>0. /\ Idle.at = "idle" /\ TypeOK /\ TypeOK'
      /\ cb = Idle <=> cb.at = "idle"
      /\ rd = Idle <=> rd.at = "idle"
      /\ io = Idle <=> io.at = "idle"
      /\ io # Idle => rd = Idle
      /\ Errors /\ Chain /\ FromLast /\ ToArriving /\ Copied
  BY Fields DEF BaseInv, OrderInv, Locking
<1>00. /\ streams \in Nat /\ pread \in Int /\ pwrite \in Int
       /\ pread' \in Int /\ pwrite' \in Int
  BY <1>0, ConstantsAssumption DEF TypeOK
<1>1. CASE TimerFires
  <2>1. /\ params.type = "sec" /\ error' = "timedout"
        /\ UNCHANGED <<params, data, size, pread, pwrite, cb, rd, last, arriving>>
    BY <1>1 DEF TimerFires, QuietInv
  <2>2. Filled' = Filled /\ (Connected' => Connected)
    BY <2>1, ConstantsAssumption DEF Filled, Avail, Connected
  <2>3. Chain' /\ FromLast' /\ ToArriving'
    BY <1>0, <2>1, <2>2, StillChain, StillArriving
  <2>4. Errors' /\ Copied'
    BY <1>0, <2>1, ConstantsAssumption DEF Errors, Copied, Empty
  <2> QED
    BY <2>3, <2>4 DEF OrderInv
<1>2. CASE Open \/ Free \/ (\E s \in Sizes : SetBufferSize(s))
  <2>1. /\ rd = Idle /\ streams = 0 /\ Empty /\ error = None
        /\ UNCHANGED <<cb, rd, arriving>> /\ (UNCHANGED last \/ last' = None)
    BY <1>0, <1>00, <1>2 DEF Open, Free, SetBufferSize, Unlocked, QuietInv, Running
  <2>2. pread' = pwrite' /\ cb = Idle
    BY <1>0, <1>2, <2>1 DEF Open, Free, SetBufferSize, Empty, QuietInv
  <2>3. Filled = 0 /\ Filled' = 0
    <3>1. Avail = 0 /\ Avail' = 0
      <4>1. Avail = 0
        BY <1>00, <2>1 DEF Avail, Empty
      <4>2. Avail' = 0
        <5>1. PICK z \in Int : pread' = z /\ pwrite' = z
          BY <1>00, <2>2
        <5> QED
          BY <5>1 DEF Avail
      <4> QED
        BY <4>1, <4>2
    <3>2. cb.at # "publish" /\ cb'.at # "publish"
      BY <1>0, <2>1, <2>2
    <3> QED
      BY <3>1, <3>2 DEF Filled
  <2>4. Connected
    BY <2>1 DEF Connected
  <2>5. Chain' /\ FromLast' /\ ToArriving'
    BY <1>0, <2>1, <2>3, <2>4, Emptied
  <2>6. Errors' /\ Copied'
    BY <1>0, <2>1, <2>2 DEF Errors, Copied
  <2> QED
    BY <2>5, <2>6 DEF OrderInv
<1>3. CASE StopFlush \/ StartPrepare
  <2>1. /\ rd = Idle /\ cb = Idle /\ UNCHANGED <<cb, rd>>
        /\ last' = None /\ pread' = pwrite' /\ pread' = pwrite /\ error' = None
    BY <1>0, <1>00, <1>3 DEF StopFlush, StartPrepare, dvb_ringbuffer_flush, QuietInv
  <2>2. Filled' = 0
    <3>1. Avail' = 0
      BY <1>00, <2>1 DEF Avail
    <3>2. cb'.at # "publish"
      BY <1>0, <2>1
    <3> QED
      BY <3>1, <3>2 DEF Filled
  <2>3. Chain' /\ FromLast' /\ ToArriving'
    BY <1>0, <2>1, <2>2, Emptied
  <2>4. Errors' /\ Copied'
    BY <1>0, <2>1 DEF Errors, Copied
  <2> QED
    BY <2>3, <2>4 DEF OrderInv
<1>4. CASE FilterSet
  <2>1. /\ rd = Idle /\ cb = Idle /\ error = None
        /\ UNCHANGED <<data, size, pread, pwrite, error, cb, rd, last, arriving>>
    BY <1>0, <1>4 DEF FilterSet, QuietInv, ring
  <2>2. Filled' = Filled /\ Connected
    BY <2>1 DEF Filled, Avail, Connected
  <2>3. Chain' /\ FromLast' /\ ToArriving'
    BY <1>0, <2>1, <2>2, StillChain, StillArriving
  <2>4. Errors' /\ Copied'
    BY <1>0, <2>1 DEF Errors, Copied
  <2> QED
    BY <2>3, <2>4 DEF OrderInv
<1>5. ASSUME ~TimerFires, ~Open, ~Free, ~\E s \in Sizes : SetBufferSize(s), ~StopFlush,
             ~StartPrepare, ~FilterSet
      PROVE  OrderInv'
  <2>1. UNCHANGED <<params, data, size, pread, pwrite, error, cb, rd, last, arriving>>
    BY <1>5 DEF IoctlSteps, TimerFinishes, Stop, Close, Start, SetFilter, IoBegin, AddPid,
                RemovePid, StopState, StopTimer, StopFeed, StopReturns, StartFeed,
                StartNothing, StartFails, StartTimer, StartDone, ring
  <2> QED
    BY <2>1, OthersKeepOrder
<1> QED
  BY <1>1, <1>2, <1>3, <1>4, <1>5

LEMMA OrderInvariant == NoPartialStart /\ Spec => [](BaseInv /\ QuietInv /\ OrderInv)
<1>1. Init => OrderInv
  <2> SUFFICES ASSUME Init PROVE OrderInv
    OBVIOUS
  <2>1. Idle.at = "idle" /\ TypeOK
    BY BaseInit DEF Idle, BaseInv
  <2>2. Filled = 0
    BY <2>1 DEF Init, Filled, Avail
  <2> QED
    BY <2>1, <2>2 DEF Init, OrderInv, Errors, Chain, FromLast, ToArriving, Copied
<1>2. ASSUME OrderInv, UNCHANGED vars PROVE OrderInv'
  BY <1>2, OthersKeepOrder DEF vars
<1>3. ASSUME NoPartialStart PROVE Spec => []OrderInv
  <2>1. ASSUME BaseInv, BaseInv', QuietInv, WriteBounds, OrderInv, Next PROVE OrderInv'
    BY <1>3, <2>1, ReaderKeepsOrder, CallbackKeepsOrder, CallsKeepOrder DEF Next
  <2>2. /\ BaseInv /\ BaseInv' /\ QuietInv /\ WriteBounds /\ OrderInv /\ [Next]_vars
        => OrderInv'
    BY <1>2, <2>1
  <2> QED
    BY <1>1, <1>3, <2>2, QuietInvariant, PTL DEF Spec
<1>4. NoPartialStart /\ Spec => []OrderInv
  BY <1>3
<1> QED
  BY <1>4, QuietInvariant, PTL

\* Reads deliver the bytes of the stream in order, without a gap, a repetition or a
\* byte that was never written, for every size of the buffer, every length of what the
\* demux stores and every interleaving of dvb_ringbuffer_write, dvb_ringbuffer_read_user,
\* errors, flushes and changes of the size: provided the demux never refuses one of
\* several feeds of a filter.
THEOREM AlwaysDeliveredInOrder == NoPartialStart /\ Spec => []DeliveredInOrder
<1>1. ASSUME BaseInv, QuietInv, OrderInv PROVE DeliveredInOrder
  <2> SUFFICES ASSUME rd.at = "publish", NEW i \in DOMAIN rd.buf
               PROVE  /\ rd.buf[i] # None
                      /\ IF i = 1 THEN last = None \/ rd.buf[1] = Stream(last, 1)
                                  ELSE rd.buf[i] = Stream(rd.buf[i - 1], 1)
    BY DEF DeliveredInOrder
  <2>1. /\ size \in Nat \ {0} /\ pread \in 0..(size - 1) /\ Avail \in Nat /\ data # None
        /\ rd.n \in Nat /\ Len(rd.buf) = Chunk(pread, rd.n) /\ rd.n <= Avail
        /\ rd.buf \in Seq(Byte \cup {None})
    BY <1>1, Fields, Room, ConstantsAssumption
    DEF BaseInv, TypeOK, Locking, ReadBounds, QuietInv
  <2>2. DOMAIN rd.buf = 1..Len(rd.buf)
    BY <2>1
  <2>3. Len(rd.buf) \in 0..rd.n /\ pread + Len(rd.buf) <= size
    BY <2>1 DEF Chunk
  <2>4. Filled \in Int /\ Avail <= Filled
    <3>1. cb.at = "publish" => cb.moved \in Nat
      BY <1>1, Fields DEF BaseInv
    <3> QED
      BY <2>1, <3>1 DEF Filled
  <2>5. ASSUME NEW j \in 1..Len(rd.buf)
        PROVE  /\ pread + j - 1 \in 0..(size - 1)
               /\ Dist(size, pread, pread + j - 1) = j - 1 /\ j - 1 < Filled
               /\ rd.buf[j] = data[pread + j - 1]
    <3>1. rd.buf[j] = data[pread + j - 1]
      BY <1>1, <2>5 DEF OrderInv, Copied
    <3>2. pread + j - 1 \in 0..(size - 1) /\ j - 1 < Filled /\ pread \in Nat /\ j \in Nat
      BY <2>1, <2>3, <2>4, <2>5
    <3>3. Dist(size, pread, pread + j - 1) = j - 1
      BY <3>2 DEF Dist
    <3> QED
      BY <3>1, <3>2, <3>3
  <2>6. rd.buf[i] # None
    <3>1. data[pread + i - 1] \in Byte
      BY <1>1, <2>1, <2>2, <2>5 DEF OrderInv, Chain
    <3> QED
      BY <2>2, <2>5, <3>1, ConstantsAssumption DEF Byte
  <2>7. CASE i = 1
    <3>1. rd.buf[1] = data[pread] /\ Filled > 0
      BY <2>1, <2>2, <2>4, <2>5, <2>7
    <3> QED
      BY <1>1, <2>1, <2>6, <2>7, <3>1 DEF OrderInv, FromLast
  <2>8. CASE i # 1
    <3> DEFINE p == pread + (i - 1) - 1
    <3>1. i \in 1..Len(rd.buf) /\ i - 1 \in 1..Len(rd.buf)
      BY <2>1, <2>2, <2>3, <2>8
    <3>2. /\ p \in 0..(size - 1) /\ Dist(size, pread, p) + 1 < Filled
          /\ After(size, p) = pread + i - 1
      <4>1. /\ p \in 0..(size - 1) /\ Dist(size, pread, p) = (i - 1) - 1
            /\ pread + i - 1 \in 0..(size - 1) /\ i - 1 < Filled
        BY <2>5, <3>1
      <4>2. pread \in Int /\ i \in Int
        BY <2>1, <3>1
      <4>3. p + 1 = pread + i - 1 /\ p + 1 # size
        BY <2>1, <4>1, <4>2
      <4> QED
        BY <2>4, <4>1, <4>2, <4>3 DEF After
    <3>3. data[After(size, p)] = Stream(data[p], 1)
      BY <1>1, <2>1, <3>2 DEF OrderInv, Chain
    <3>4. rd.buf[i] = data[pread + i - 1] /\ rd.buf[i - 1] = data[p]
      BY <2>5, <3>1
    <3> QED
      BY <2>6, <2>8, <3>2, <3>3, <3>4
  <2> QED
    BY <2>7, <2>8
<1>2. BaseInv /\ QuietInv /\ OrderInv => DeliveredInOrder
  BY <1>1
<1> QED
  BY OrderInvariant, <1>2, PTL
=============================================================================
