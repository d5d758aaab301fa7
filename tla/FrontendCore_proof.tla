------------------------- MODULE FrontendCore_proof -------------------------
(***************************************************************************)
(* Proofs about FrontendCore, for every set of processes, whatever they do *)
(* with the device, and every size of the event queue.                     *)
(***************************************************************************)
EXTENDS FrontendCore, FiniteSetTheorems, SequenceTheorems, TLAPS

Actors == Procs \cup {Kthread}

\* The code of FE_GET_EVENT between its up and its down.
Lending == {"event_test", "event_down", "event_again"}

\* A semaphore whose waiters wait once, and not after they were let in.
SemOK(s) ==
  /\ s \in [count : Nat, queue : Seq(Actors), granted : SUBSET Actors]
  /\ \A i, j \in 1..Len(s.queue) : s.queue[i] = s.queue[j] => i = j
  /\ \A i \in 1..Len(s.queue) : s.queue[i] \notin s.granted

\* What is in the semaphore: it is free, or handed over but not yet taken.
Weight(s) == s.count + Cardinality(s.granted)

\* The calls of a process that has the device open for writing.
Writing == Opening \cup GetEvent \cup Requesting \cup Stopping
           \cup {"request_up", "stop_down", "stop_task"}

\* Only one process at a time has the device open for writing, and only this
\* one opens, asks, stops and waits for events.
OneWriter ==
  /\ \A p \in Procs : pc[p] \in Writing => mode[p] = "rw"
  /\ \A p, q \in Procs : mode[p] = "rw" /\ mode[q] = "rw" => p = q

\* Open starts a thread only when it has found none.
StartsWithoutThread ==
  \A p \in Procs : pc[p] \in {"start_down", "run"} => ~HasThread

\* Between its start, or its last look at the request, and its next sleep the
\* thread has nothing to do: nobody can ask while it holds the semaphore.
NothingAsked ==
  thr \in {"init", "up", "drive_tune", "event"} => state \notin Requested

\* Nothing is asked for while DTV_STOP is on its way out.
IdleWhileStopping ==
  \A p \in Procs : pc[p] \in Stopping => state \in {"IDLE", "DISEQC"}

\* events->mtx is held by one at a time.
OnePublisher ==
  /\ thr = "event" => \A p \in Procs : pc[p] \notin Publishing
  /\ \A p, q \in Procs : pc[p] \in Publishing /\ pc[q] \in Publishing => p = q

\* The event somebody is about to publish will be found in the queue, even by a
\* FE_GET_EVENT that has made its test already; and what such a call has seen is
\* there, unless a close has cleared the queue and will add an event.
Taking == {"take", "event_down"}
EventToCome ==
  /\ ~EventsUnlocked /\ ~Empty(events) => wp # events.eventr
  /\ \A p \in Procs : pc[p] \in Taking =>
       /\ ~EventsUnlocked => wp # events.eventr
       /\ EventsUnlocked =>
            ~Empty(events) \/ \E q \in Procs : pc[q] = "release_add"

\* The inductive invariant.
IInv ==
  /\ TypeOK /\ SemOK(sem)
  /\ OneWriter /\ StartsWithoutThread /\ SemaphoreConserved
  /\ StoppedMeansIdle /\ RequestsWakeThread /\ NothingAsked /\ IdleWhileStopping
  /\ OnePublisher /\ EventToCome /\ LossIsReported

-----------------------------------------------------------------------------
(***************************************************************************)
(* The event queue.                                                        *)
(***************************************************************************)
Slots == 0..(MaxEvent - 1)
EventQueue == [eventr : Slots, eventw : Slots, overflow : BOOLEAN]

\* An index moves, and stays in the queue.
LEMMA NextSlotOK ==
  ASSUME NEW i \in Slots
  PROVE  NextSlot(i) \in Slots /\ NextSlot(i) # i
<1>1. MaxEvent \in Nat /\ MaxEvent > 1 /\ i \in Nat /\ i < MaxEvent
  BY ConstantsAssumption DEF Slots
<1>2. CASE i + 1 < MaxEvent
  <2>1. (i + 1) % MaxEvent = i + 1
    BY <1>1, <1>2
  <2> QED
    BY <1>1, <1>2, <2>1 DEF NextSlot, Slots
<1>3. CASE i + 1 = MaxEvent
  <2>1. (i + 1) % MaxEvent = 0
    BY <1>1, <1>3
  <2> QED
    BY <1>1, <1>3, <2>1 DEF NextSlot, Slots
<1> QED
  BY <1>1, <1>2, <1>3

\* Making room for an event leaves a queue in which the new event will be seen,
\* and marks what it drops.
LEMMA MakeRoomOK ==
  ASSUME NEW e \in EventQueue
  PROVE  /\ MakeRoom(e) \in EventQueue
         /\ MakeRoom(e).eventw = e.eventw
         /\ NextSlot(e.eventw) # MakeRoom(e).eventr
         /\ e.overflow => MakeRoom(e).overflow
         /\ NextSlot(e.eventw) = e.eventr => MakeRoom(e).overflow
<1>1. e.eventr \in Slots /\ NextSlot(e.eventr) \in Slots /\ NextSlot(e.eventr) # e.eventr
  BY NextSlotOK DEF EventQueue
<1>2. CASE NextSlot(e.eventw) = e.eventr
  <2>1. MakeRoom(e) = [e EXCEPT !.overflow = TRUE, !.eventr = NextSlot(e.eventr)]
    BY <1>2 DEF MakeRoom
  <2> QED
    BY <1>1, <1>2, <2>1 DEF EventQueue
<1>3. CASE NextSlot(e.eventw) # e.eventr
  BY <1>3 DEF MakeRoom
<1> QED
  BY <1>2, <1>3

-----------------------------------------------------------------------------
(***************************************************************************)
(* The semaphore.  What each operation does to its weight.                 *)
(***************************************************************************)
LEMMA ActorsFinite == IsFiniteSet(Actors)
BY ConstantsAssumption, FS_AddElement DEF Actors

LEMMA WeightType ==
  ASSUME NEW s, SemOK(s)
  PROVE  /\ IsFiniteSet(s.granted) /\ Cardinality(s.granted) \in Nat
         /\ Weight(s) \in Nat
<1>1. s.granted \in SUBSET Actors /\ s.count \in Nat
  BY DEF SemOK
<1>2. IsFiniteSet(s.granted) /\ Cardinality(s.granted) \in Nat
  BY <1>1, ActorsFinite, FS_Subset, FS_CardinalityType
<1> QED
  BY <1>1, <1>2 DEF Weight

LEMMA QueueOK ==
  ASSUME SemOK(sem), NEW a \in Actors, Queue(a)
  PROVE  SemOK(sem') /\ Weight(sem') = Weight(sem)
<1> DEFINE q == sem.queue
<1>1. /\ sem \in [count : Nat, queue : Seq(Actors), granted : SUBSET Actors]
      /\ q \in Seq(Actors)
  BY DEF SemOK
<1>2. /\ sem' = [sem EXCEPT !.queue = Append(q, a)]
      /\ a \notin sem.granted /\ \A i \in 1..Len(q) : q[i] # a
  BY DEF Queue, Queued
<1>3. /\ Append(q, a) \in Seq(Actors) /\ Len(Append(q, a)) = Len(q) + 1
      /\ \A i \in 1..Len(q) : Append(q, a)[i] = q[i]
      /\ Append(q, a)[Len(q) + 1] = a
      /\ Len(q) \in Nat
  BY <1>1, AppendProperties, LenProperties
<1>4. /\ sem'.queue = Append(q, a) /\ sem'.granted = sem.granted /\ sem'.count = sem.count
      /\ sem' \in [count : Nat, queue : Seq(Actors), granted : SUBSET Actors]
  BY <1>1, <1>2, <1>3
<1>5. /\ \A i, j \in 1..Len(q) : q[i] = q[j] => i = j
      /\ \A i \in 1..Len(q) : q[i] \notin sem.granted
  BY DEF SemOK
<1>6. \A i, j \in 1..Len(sem'.queue) : sem'.queue[i] = sem'.queue[j] => i = j
  BY <1>2, <1>3, <1>4, <1>5
<1>7. \A i \in 1..Len(sem'.queue) : sem'.queue[i] \notin sem'.granted
  BY <1>2, <1>3, <1>4, <1>5
<1> QED
  BY <1>4, <1>6, <1>7 DEF SemOK, Weight

LEMMA DownOK ==
  ASSUME SemOK(sem), NEW a \in Actors, Down(a)
  PROVE  SemOK(sem') /\ Weight(sem') + 1 = Weight(sem)
<1>1. /\ sem \in [count : Nat, queue : Seq(Actors), granted : SUBSET Actors]
      /\ IsFiniteSet(sem.granted) /\ Cardinality(sem.granted) \in Nat
  BY WeightType DEF SemOK
<1>2. CASE sem.count > 0 /\ sem' = [sem EXCEPT !.count = @ - 1]
  BY <1>1, <1>2 DEF SemOK, Weight
<1>3. CASE a \in sem.granted /\ sem' = [sem EXCEPT !.granted = @ \ {a}]
  <2>1. Cardinality(sem.granted \ {a}) = Cardinality(sem.granted) - 1
    BY <1>1, <1>3, FS_RemoveElement
  <2>2. /\ sem'.queue = sem.queue /\ sem'.granted = sem.granted \ {a}
        /\ sem'.count = sem.count
        /\ sem' \in [count : Nat, queue : Seq(Actors), granted : SUBSET Actors]
    BY <1>1, <1>3
  <2>3. SemOK(sem')
    BY <2>2 DEF SemOK
  <2>4. Weight(sem') + 1 = Weight(sem)
    BY <1>1, <2>1, <2>2 DEF Weight
  <2> QED
    BY <2>3, <2>4
<1> QED
  BY <1>2, <1>3 DEF Down

LEMMA UpOK ==
  ASSUME SemOK(sem), Up
  PROVE  SemOK(sem') /\ Weight(sem') = Weight(sem) + 1
<1> DEFINE q == sem.queue
<1>1. /\ sem \in [count : Nat, queue : Seq(Actors), granted : SUBSET Actors]
      /\ IsFiniteSet(sem.granted) /\ Cardinality(sem.granted) \in Nat
  BY WeightType DEF SemOK
<1>2. CASE q = <<>>
  <2>1. sem' = [sem EXCEPT !.count = sem.count + 1]
    BY <1>2 DEF Up
  <2> QED
    BY <1>1, <2>1 DEF SemOK, Weight
<1>3. CASE q # <<>>
  <2>1. sem' = [sem EXCEPT !.queue = Tail(q), !.granted = sem.granted \cup {Head(q)}]
    BY <1>3 DEF Up
  <2>2. /\ Len(q) \in Nat /\ Len(q) > 0 /\ Head(q) = q[1] /\ Head(q) \in Actors
        /\ Tail(q) \in Seq(Actors) /\ Len(Tail(q)) = Len(q) - 1
        /\ \A i \in 1..Len(Tail(q)) : Tail(q)[i] = q[i + 1]
    BY <1>1, <1>3, HeadTailProperties, LenProperties, EmptySeq
  <2>3. /\ \A i, j \in 1..Len(q) : q[i] = q[j] => i = j
        /\ \A i \in 1..Len(q) : q[i] \notin sem.granted
    BY DEF SemOK
  <2>4. Head(q) \notin sem.granted
    BY <2>2, <2>3
  <2>5. Cardinality(sem.granted \cup {Head(q)}) = Cardinality(sem.granted) + 1
    BY <1>1, <2>4, FS_AddElement
  <2>6. /\ sem'.queue = Tail(q) /\ sem'.granted = sem.granted \cup {Head(q)}
        /\ sem'.count = sem.count
        /\ sem' \in [count : Nat, queue : Seq(Actors), granted : SUBSET Actors]
    BY <1>1, <2>1, <2>2
  <2>7. \A i, j \in 1..Len(Tail(q)) : Tail(q)[i] = Tail(q)[j] => i = j
    BY <2>2, <2>3
  <2>8. \A i \in 1..Len(Tail(q)) : Tail(q)[i] \notin sem.granted \cup {Head(q)}
    <3>1. \A i \in 1..Len(Tail(q)) : i + 1 \in 1..Len(q) /\ i + 1 # 1 /\ 1 \in 1..Len(q)
      BY <2>2
    <3>2. \A i \in 1..Len(Tail(q)) : q[i + 1] # q[1] /\ q[i + 1] \notin sem.granted
      BY <2>3, <3>1
    <3> QED
      BY <2>2, <3>2
  <2>9. SemOK(sem')
    BY <2>6, <2>7, <2>8 DEF SemOK
  <2>10. Weight(sem') = Weight(sem) + 1
    BY <1>1, <2>5, <2>6 DEF Weight
  <2> QED
    BY <2>9, <2>10
<1> QED
  BY <1>2, <1>3

LEMMA GiveUpOK ==
  ASSUME SemOK(sem), NEW a \in Actors, GiveUp(a)
  PROVE  SemOK(sem') /\ Weight(sem') = Weight(sem)
<1> DEFINE q == sem.queue
<1>1. /\ sem \in [count : Nat, queue : Seq(Actors), granted : SUBSET Actors]
      /\ q \in Seq(Actors) /\ Len(q) \in Nat
      /\ \A i \in 1..Len(q) : q[i] \in Actors
  BY LenProperties, ElementOfSeq DEF SemOK
<1>2. PICK k \in 1..Len(q) : sem' = [sem EXCEPT !.queue = Unlink(q, k)]
  BY DEF GiveUp
<1> DEFINE u == Unlink(q, k)
<1>3. Len(q) - 1 \in Nat
  BY <1>1
<1>4. \A i \in 1..(Len(q) - 1) : i \in 1..Len(q) /\ i + 1 \in 1..Len(q)
  BY <1>1
<1>5. u \in [1..(Len(q) - 1) -> Actors]
  BY <1>1, <1>4 DEF Unlink
<1>6. u \in Seq(Actors) /\ Len(u) = Len(q) - 1
  BY <1>3, <1>5, LenProperties, SeqDef
<1>7. \A i \in 1..Len(u) : u[i] = q[IF i < k THEN i ELSE i + 1]
  BY <1>6 DEF Unlink
<1>8. /\ \A i, j \in 1..Len(q) : q[i] = q[j] => i = j
      /\ \A i \in 1..Len(q) : q[i] \notin sem.granted
  BY DEF SemOK
<1>9. /\ sem'.queue = u /\ sem'.granted = sem.granted /\ sem'.count = sem.count
      /\ sem' \in [count : Nat, queue : Seq(Actors), granted : SUBSET Actors]
  BY <1>1, <1>2, <1>6
<1> HIDE DEF u
<1>10. \A i \in 1..Len(u) : u[i] \notin sem.granted
  BY <1>4, <1>6, <1>7, <1>8
<1>11. \A i, j \in 1..Len(u) : u[i] = u[j] => i = j
  <2> SUFFICES ASSUME NEW i \in 1..Len(u), NEW j \in 1..Len(u), u[i] = u[j]
               PROVE  i = j
    OBVIOUS
  <2> DEFINE m == IF i < k THEN i ELSE i + 1
             n == IF j < k THEN j ELSE j + 1
  <2>1. m \in 1..Len(q) /\ n \in 1..Len(q)
    BY <1>4, <1>6
  <2>2. q[m] = q[n]
    BY <1>7
  <2>3. m = n
    BY <1>8, <2>1, <2>2
  <2> QED
    BY <1>1, <1>6, <2>3
<1> QED
  BY <1>9, <1>10, <1>11 DEF SemOK, Weight

-----------------------------------------------------------------------------
(***************************************************************************)
(* Who has the semaphore, and who has lent it out, after a step.           *)
(***************************************************************************)
One(b) == IF b THEN 1 ELSE 0

LEMMA HoldersFinite ==
  /\ IsFiniteSet(Holders) /\ Cardinality(Holders) \in Nat
  /\ IsFiniteSet(Borrowers) /\ Cardinality(Borrowers) \in Nat
<1>1. Holders \in SUBSET Actors /\ Borrowers \in SUBSET Actors
  BY DEF Holders, Borrowers, Actors
<1> QED
  BY <1>1, ActorsFinite, FS_Subset, FS_CardinalityType

\* One process moves.
LEMMA ProcMoves ==
  ASSUME pc \in [Procs -> Places], NEW p \in Procs, NEW x,
         pc' = [pc EXCEPT ![p] = x], thr' = thr
  PROVE  /\ p \in Holders <=> pc[p] \in Holding
         /\ p \in Borrowers <=> pc[p] \in Lending
         /\ Holders' = IF x \in Holding THEN Holders \cup {p} ELSE Holders \ {p}
         /\ Borrowers' = IF x \in Lending THEN Borrowers \cup {p} ELSE Borrowers \ {p}
<1>1. p # Kthread
  BY ConstantsAssumption
<1>2. \A q \in Procs : pc'[q] = IF q = p THEN x ELSE pc[q]
  OBVIOUS
<1>3. ThreadHolds' <=> ThreadHolds
  BY DEF ThreadHolds
<1>4. p \in Holders <=> pc[p] \in Holding
  BY <1>1 DEF Holders
<1>5. p \in Borrowers <=> pc[p] \in Lending
  BY DEF Borrowers, Lending
<1>6. Holders' = IF x \in Holding THEN Holders \cup {p} ELSE Holders \ {p}
  BY <1>1, <1>2, <1>3 DEF Holders
<1>7. Borrowers' = IF x \in Lending THEN Borrowers \cup {p} ELSE Borrowers \ {p}
  BY <1>2 DEF Borrowers, Lending
<1> QED
  BY <1>4, <1>5, <1>6, <1>7

\* The balance of a step of a process: what it puts into the semaphore or takes
\* out of it is what it had or gets.
LEMMA ProcBalance ==
  ASSUME pc \in [Procs -> Places], SemOK(sem), SemaphoreConserved, SemOK(sem'),
         NEW p \in Procs, NEW x, pc' = [pc EXCEPT ![p] = x], thr' = thr,
         Weight(sem') + One(x \in Holding) + One(pc[p] \in Lending)
           = Weight(sem) + One(pc[p] \in Holding) + One(x \in Lending)
  PROVE  SemaphoreConserved'
<1>1. /\ p \in Holders <=> pc[p] \in Holding
      /\ p \in Borrowers <=> pc[p] \in Lending
      /\ Holders' = IF x \in Holding THEN Holders \cup {p} ELSE Holders \ {p}
      /\ Borrowers' = IF x \in Lending THEN Borrowers \cup {p} ELSE Borrowers \ {p}
  BY ProcMoves
<1>2. /\ IsFiniteSet(Holders) /\ Cardinality(Holders) \in Nat
      /\ IsFiniteSet(Borrowers) /\ Cardinality(Borrowers) \in Nat
  BY HoldersFinite
<1>3. Weight(sem) \in Nat /\ Weight(sem') \in Nat
  BY WeightType
<1>4. Cardinality(Holders') =
        Cardinality(Holders) + One(x \in Holding) - One(pc[p] \in Holding)
  <2>1. Cardinality(Holders \cup {p}) =
          IF p \in Holders THEN Cardinality(Holders) ELSE Cardinality(Holders) + 1
    BY <1>2, FS_AddElement
  <2>2. Cardinality(Holders \ {p}) =
          IF p \in Holders THEN Cardinality(Holders) - 1 ELSE Cardinality(Holders)
    BY <1>2, FS_RemoveElement
  <2> QED
    BY <1>1, <1>2, <2>1, <2>2 DEF One
<1>5. Cardinality(Borrowers') =
        Cardinality(Borrowers) + One(x \in Lending) - One(pc[p] \in Lending)
  <2>1. Cardinality(Borrowers \cup {p}) =
          IF p \in Borrowers THEN Cardinality(Borrowers) ELSE Cardinality(Borrowers) + 1
    BY <1>2, FS_AddElement
  <2>2. Cardinality(Borrowers \ {p}) =
          IF p \in Borrowers THEN Cardinality(Borrowers) - 1 ELSE Cardinality(Borrowers)
    BY <1>2, FS_RemoveElement
  <2> QED
    BY <1>1, <1>2, <2>1, <2>2 DEF One
<1>6. Weight(sem) + Cardinality(Holders) = 1 + Cardinality(Borrowers)
  BY DEF SemaphoreConserved, Weight
<1>7. Weight(sem') + Cardinality(Holders') = 1 + Cardinality(Borrowers')
  <2> DEFINE xh == One(x \in Holding)
             ph == One(pc[p] \in Holding)
             xl == One(x \in Lending)
             pl == One(pc[p] \in Lending)
  <2>1. xh \in Nat /\ ph \in Nat /\ xl \in Nat /\ pl \in Nat
    BY DEF One
  <2>2. /\ Weight(sem') + xh + pl = Weight(sem) + ph + xl
        /\ Cardinality(Holders') = Cardinality(Holders) + xh - ph
        /\ Cardinality(Borrowers') = Cardinality(Borrowers) + xl - pl
    BY <1>4, <1>5
  <2> HIDE DEF xh, ph, xl, pl
  <2> QED
    BY <1>2, <1>3, <1>6, <2>1, <2>2
<1> QED
  BY <1>7 DEF SemaphoreConserved, Weight

\* The balance of a step of the thread.
LEMMA ThreadBalance ==
  ASSUME SemOK(sem), SemaphoreConserved, SemOK(sem'), pc' = pc,
         Weight(sem') + One(ThreadHolds') = Weight(sem) + One(ThreadHolds)
  PROVE  SemaphoreConserved'
<1> DEFINE H == {p \in Procs : pc[p] \in Holding}
<1>1. H \in SUBSET Actors /\ Kthread \notin H
  BY ConstantsAssumption DEF Actors
<1>2. IsFiniteSet(H) /\ Cardinality(H) \in Nat
  BY <1>1, ActorsFinite, FS_Subset, FS_CardinalityType
<1>3. /\ Holders = IF ThreadHolds THEN H \cup {Kthread} ELSE H
      /\ Holders' = IF ThreadHolds' THEN H \cup {Kthread} ELSE H
      /\ Borrowers' = Borrowers
  BY DEF Holders, Borrowers
<1> HIDE DEF H
<1>4. Cardinality(H \cup {Kthread}) = Cardinality(H) + 1
  BY <1>1, <1>2, FS_AddElement
<1>5. /\ Cardinality(Holders) = Cardinality(H) + One(ThreadHolds)
      /\ Cardinality(Holders') = Cardinality(H) + One(ThreadHolds')
  BY <1>2, <1>3, <1>4 DEF One
<1>6. Weight(sem) \in Nat /\ Weight(sem') \in Nat /\ Cardinality(Borrowers) \in Nat
  BY WeightType, HoldersFinite
<1>7. Weight(sem) + Cardinality(Holders) = 1 + Cardinality(Borrowers)
  BY DEF SemaphoreConserved, Weight
<1>8. Weight(sem') + Cardinality(Holders') = 1 + Cardinality(Borrowers')
  <2>1. One(ThreadHolds) \in Nat /\ One(ThreadHolds') \in Nat
    BY DEF One
  <2> QED
    BY <1>2, <1>3, <1>5, <1>6, <1>7, <2>1
<1> QED
  BY <1>8 DEF SemaphoreConserved, Weight

\* A process that has the device open for writing, or opens it, and holds the
\* semaphore excludes the thread: nobody can have lent the semaphore out.
LEMMA WriterExcludesThread ==
  ASSUME TypeOK, SemOK(sem), OneWriter, SemaphoreConserved,
         NEW p \in Procs, pc[p] \in Holding, mode[p] = "rw"
  PROVE  ~ThreadHolds
<1>1. Borrowers = {}
  <2>1. \A q \in Procs : pc[q] \in Lending => mode[q] = "rw"
    BY DEF OneWriter, Writing, Lending, GetEvent
  <2>2. \A q \in Procs : pc[q] \in Lending => q = p
    BY <2>1 DEF OneWriter
  <2>3. pc[p] \notin Lending
    BY DEF Holding, Requesting, Stopping, Releasing, Lending
  <2> QED
    BY <2>2, <2>3 DEF Borrowers, Lending
<1>2. Cardinality(Holders) <= 1
  <2>1. Cardinality(Borrowers) = 0
    BY <1>1, FS_EmptySet
  <2>2. Weight(sem) \in Nat /\ Cardinality(Holders) \in Nat
    BY WeightType, HoldersFinite
  <2>3. Weight(sem) + Cardinality(Holders) = 1 + Cardinality(Borrowers)
    BY DEF SemaphoreConserved, Weight
  <2> QED
    BY <2>1, <2>2, <2>3
<1>3. ASSUME ThreadHolds PROVE FALSE
  <2>1. p \in Holders /\ Kthread \in Holders /\ p # Kthread
    BY <1>3, ConstantsAssumption DEF Holders
  <2>2. /\ IsFiniteSet(Holders \ {p})
        /\ Cardinality(Holders \ {p}) = Cardinality(Holders) - 1
    BY <2>1, HoldersFinite, FS_RemoveElement
  <2>3. Holders \ {p} # {}
    BY <2>1
  <2>4. Cardinality(Holders \ {p}) # 0
    BY <2>2, <2>3, FS_EmptySet
  <2>5. Cardinality(Holders \ {p}) \in Nat /\ Cardinality(Holders) \in Nat
    BY <2>2, HoldersFinite, FS_CardinalityType
  <2> QED
    BY <1>2, <2>2, <2>4, <2>5
<1> QED
  BY <1>3

-----------------------------------------------------------------------------
(***************************************************************************)
(* The steps of a process, by what they do to the semaphore.               *)
(***************************************************************************)
\* Steps that leave the semaphore alone.
Quiet(p) ==
  \/ \E m \in {"ro", "rw"} : Open(p, m)
  \/ Ioctl(p) \/ StopTask(p) \/ GetEventBegin(p) \/ Close(p)
  \/ StartFindsThread(p) \/ StartTestsExit(p) \/ Stop(p) \/ KthreadStop(p)
  \/ StopJoins(p) \/ StopInitialisesUsed(p) \/ Opened(p)
  \/ GetEventOverflow(p) \/ EventTest(p) \/ EventTake(p) \/ EventWakes(p)

\* Steps at a down.
AtDown(p) ==
  \/ StartDown(p) \/ IoctlDown(p) \/ StopTaskDown(p) \/ CloseDown(p)
  \/ EventDown(p) \/ StartInterrupted(p)

\* Steps inside a critical section of the semaphore.
Inner(p) ==
  \/ SetFrontend(p) \/ StartJob(p) \/ RequestWakes(p)
  \/ StopTaskIdles(p) \/ CloseIdles(p)
  \/ RestartClear(p) \/ RestartAdd(p) \/ RestartPublish(p)

\* Steps at an up.
AtUp(p) ==
  \/ IoctlRefused(p) \/ IoctlQuery(p) \/ TuneRefused(p) \/ Diseqc(p)
  \/ RequestReturns(p) \/ StopTaskReturns(p) \/ CloseReturns(p) \/ EventUp(p)

LEMMA ProcSteps ==
  ASSUME NEW p,
         Call(p) \/ Continue(p) \/ StartInterrupted(p) \/ EventWakes(p)
  PROVE  Quiet(p) \/ Inner(p) \/ AtDown(p) \/ AtUp(p) \/ StartRuns(p)
BY DEF Call, Continue, Quiet, Inner, AtDown, AtUp

\* A quiet step moves the process, but not across an end of a critical section.
LEMMA QuietMoves ==
  ASSUME TypeOK, NEW p \in Procs, Quiet(p)
  PROVE  /\ sem' = sem /\ thr' = thr
         /\ \E x \in Places :
              /\ pc' = [pc EXCEPT ![p] = x]
              /\ x \in Holding <=> pc[p] \in Holding
              /\ x \in Lending <=> pc[p] \in Lending
<1>1. pc \in [Procs -> Places] /\ pc[p] \in Places
  BY DEF TypeOK
<1>2. sem' = sem /\ thr' = thr
  BY DEF Quiet, Open, Ioctl, StopTask, GetEventBegin, Close, StartFindsThread,
     StartTestsExit, Stop, KthreadStop, StopJoins, StopInitialisesUsed, Opened,
     GetEventOverflow, EventTest, EventTake, EventWakes, EventOnly, thread
<1>3. pc' = [pc EXCEPT ![p] = pc'[p]] /\ pc'[p] \in Places
  BY <1>1 DEF Quiet, Open, Ioctl, StopTask, GetEventBegin, Close, StartFindsThread,
     StartTestsExit, Stop, KthreadStop, StopJoins, StopInitialisesUsed, Opened,
     GetEventOverflow, EventTest, EventTake, EventWakes, Go, Places, Opening, GetEvent
<1>4. /\ pc'[p] \in Holding <=> pc[p] \in Holding
      /\ pc'[p] \in Lending <=> pc[p] \in Lending
  BY <1>1 DEF Quiet, Open, Ioctl, StopTask, GetEventBegin, Close, StartFindsThread,
     StartTestsExit, Stop, KthreadStop, StopJoins, StopInitialisesUsed, Opened,
     GetEventOverflow, EventTest, EventTake, EventWakes, Go, At, Holding, Requesting, Stopping,
     Releasing, Lending
<1> QED
  BY <1>2, <1>3, <1>4

\* So does a step inside a critical section.
LEMMA InnerMoves ==
  ASSUME TypeOK, NEW p \in Procs, Inner(p)
  PROVE  /\ sem' = sem /\ thr' = thr /\ mode' = mode
         /\ \E x \in Places :
              /\ pc' = [pc EXCEPT ![p] = x]
              /\ x \in Holding <=> pc[p] \in Holding
              /\ x \in Lending <=> pc[p] \in Lending
<1>1. pc \in [Procs -> Places] /\ pc[p] \in Places
  BY DEF TypeOK
<1>2. sem' = sem /\ thr' = thr /\ mode' = mode
  BY DEF Inner, SetFrontend, StartJob, Request, RequestWakes, StopTaskIdles, CloseIdles,
     IdleLoop, RestartClear, RestartAdd, RestartPublish, QueueOnly, thread
<1>3. pc' = [pc EXCEPT ![p] = pc'[p]]
  BY <1>1 DEF Inner, SetFrontend, StartJob, Request, RequestWakes, StopTaskIdles,
     CloseIdles, IdleLoop, RestartClear, RestartAdd, RestartPublish, Go
<1>4. pc[p] \in Holding /\ pc'[p] \in Holding
  BY <1>1 DEF Inner, SetFrontend, StartJob, Request, IoctlAllowed, RequestWakes,
     StopTaskIdles, CloseIdles, IdleLoop, RestartClear, RestartAdd, RestartPublish,
     Go, At, Holding, Requesting, Stopping, Releasing
<1>5. Holding \subseteq Places /\ Holding \cap Lending = {}
  BY DEF Holding, Requesting, Stopping, Releasing, Lending, Places, Opening
<1> QED
  BY <1>2, <1>3, <1>4, <1>5

\* At a down the process waits, leaves, or takes the semaphore and goes on with it.
LEMMA AtDownMoves ==
  ASSUME TypeOK, NEW p \in Procs, AtDown(p)
  PROVE  /\ thr' = thr
         /\ \E x \in Places :
              /\ pc' = [pc EXCEPT ![p] = x]
              /\ \/ /\ Queue(p) \/ GiveUp(p) \/ sem' = sem
                    /\ x \in Holding <=> pc[p] \in Holding
                    /\ x \in Lending <=> pc[p] \in Lending
                 \/ /\ Down(p)
                    /\ One(x \in Holding) + One(pc[p] \in Lending)
                         = One(pc[p] \in Holding) + One(x \in Lending) + 1
<1>1. pc \in [Procs -> Places] /\ pc[p] \in Places
  BY DEF TypeOK
<1>2. thr' = thr
  BY DEF AtDown, StartDown, IoctlDown, StopTaskDown, CloseDown, EventDown,
     StartInterrupted, EventOnly, thread
<1>3. pc' = [pc EXCEPT ![p] = pc'[p]] /\ pc'[p] \in Places
  BY <1>1 DEF AtDown, StartDown, IoctlDown, StopTaskDown, CloseDown, EventDown,
     StartInterrupted, Go, Places, Opening, GetEvent
<1>4. \/ /\ Queue(p) \/ GiveUp(p) \/ sem' = sem
         /\ pc'[p] \in Holding <=> pc[p] \in Holding
         /\ pc'[p] \in Lending <=> pc[p] \in Lending
      \/ /\ Down(p)
         /\ \/ pc'[p] \in Holding /\ pc'[p] \notin Lending
               /\ pc[p] \notin Holding \cup Lending
            \/ pc'[p] \notin Holding \cup Lending
               /\ pc[p] \in Lending /\ pc[p] \notin Holding
  BY <1>1 DEF AtDown, StartDown, IoctlDown, StopTaskDown, CloseDown, EventDown,
     StartInterrupted, Go, At, Holding, Requesting, Stopping, Releasing, Lending
<1> QED
  BY <1>2, <1>3, <1>4 DEF One

\* A process that gives the semaphore back has had it, or lends it out.
LEMMA UpMoves ==
  ASSUME TypeOK, NEW p \in Procs, AtUp(p)
  PROVE  /\ Up /\ thr' = thr /\ mode' = mode
         /\ \E x \in Places :
              /\ pc' = [pc EXCEPT ![p] = x]
              /\ x \in {"idle", "event_test"}
              /\ One(x \in Holding) + One(pc[p] \in Lending) + 1
                   = One(pc[p] \in Holding) + One(x \in Lending)
<1>1. pc \in [Procs -> Places] /\ pc[p] \in Places
  BY DEF TypeOK
<1>2. Up /\ thr' = thr /\ mode' = mode
  BY DEF AtUp, IoctlRefused, IoctlQuery, TuneRefused, Diseqc, IoctlServed,
     RequestReturns, StopTaskReturns, CloseReturns, EventUp, EventOnly, thread
<1>3. /\ pc' = [pc EXCEPT ![p] = pc'[p]]
      /\ \/ pc[p] \in Holding /\ pc'[p] = "idle"
         \/ pc[p] = "event_up" /\ pc'[p] = "event_test"
  BY <1>1 DEF AtUp, IoctlRefused, IoctlQuery, TuneRefused, Diseqc, IoctlServed,
     IoctlAllowed, RequestReturns, StopTaskReturns, CloseReturns, EventUp, Go, At,
     Holding, Stopping, Releasing
<1>4. /\ {"idle", "event_test"} \subseteq Places
      /\ "idle" \notin Holding \cup Lending
      /\ "event_test" \in Lending /\ "event_test" \notin Holding
      /\ "event_up" \notin Holding \cup Lending
      /\ Holding \cap Lending = {}
  BY DEF Holding, Requesting, Stopping, Releasing, Lending, Places, GetEvent
<1> QED
  BY <1>2, <1>3, <1>4 DEF One

\* The steps of a process keep the semaphore in order.
LEMMA ProcSemaphore ==
  ASSUME TypeOK, SemOK(sem), SemaphoreConserved, NEW p \in Procs,
         \/ Quiet(p) \/ Inner(p) \/ AtDown(p) \/ AtUp(p)
  PROVE  SemOK(sem') /\ SemaphoreConserved'
<1>1. pc \in [Procs -> Places] /\ p \in Actors
  BY DEF TypeOK, Actors
<1>2. Weight(sem) \in Nat
  BY WeightType
<1>3. CASE Quiet(p) \/ Inner(p)
  <2>1. sem' = sem /\ thr' = thr
    BY <1>3, QuietMoves, InnerMoves
  <2>2. PICK x \in Places :
          /\ pc' = [pc EXCEPT ![p] = x]
          /\ x \in Holding <=> pc[p] \in Holding
          /\ x \in Lending <=> pc[p] \in Lending
    BY <1>3, QuietMoves, InnerMoves
  <2>3. Weight(sem') + One(x \in Holding) + One(pc[p] \in Lending)
          = Weight(sem) + One(pc[p] \in Holding) + One(x \in Lending)
    BY <1>2, <2>1, <2>2 DEF One
  <2>4. SemOK(sem')
    BY <2>1
  <2> QED
    BY <1>1, <2>1, <2>2, <2>3, <2>4, ProcBalance
<1>4. CASE AtDown(p)
  <2>1. thr' = thr
    BY <1>4, AtDownMoves
  <2>2. PICK x \in Places :
          /\ pc' = [pc EXCEPT ![p] = x]
          /\ \/ /\ Queue(p) \/ GiveUp(p) \/ sem' = sem
                /\ x \in Holding <=> pc[p] \in Holding
                /\ x \in Lending <=> pc[p] \in Lending
             \/ /\ Down(p)
                /\ One(x \in Holding) + One(pc[p] \in Lending)
                     = One(pc[p] \in Holding) + One(x \in Lending) + 1
    BY <1>4, AtDownMoves
  <2>3. CASE /\ Queue(p) \/ GiveUp(p) \/ sem' = sem
             /\ x \in Holding <=> pc[p] \in Holding
             /\ x \in Lending <=> pc[p] \in Lending
    <3>1. SemOK(sem') /\ Weight(sem') = Weight(sem)
      BY <1>1, <2>3, QueueOK, GiveUpOK
    <3>2. Weight(sem') + One(x \in Holding) + One(pc[p] \in Lending)
            = Weight(sem) + One(pc[p] \in Holding) + One(x \in Lending)
      BY <1>2, <2>3, <3>1 DEF One
    <3> QED
      BY <1>1, <2>1, <2>2, <3>1, <3>2, ProcBalance
  <2>4. CASE /\ Down(p)
             /\ One(x \in Holding) + One(pc[p] \in Lending)
                  = One(pc[p] \in Holding) + One(x \in Lending) + 1
    <3>1. SemOK(sem') /\ Weight(sem') + 1 = Weight(sem)
      BY <1>1, <2>4, DownOK
    <3>2. Weight(sem') \in Nat
      BY <3>1, WeightType
    <3>3. Weight(sem') + One(x \in Holding) + One(pc[p] \in Lending)
            = Weight(sem) + One(pc[p] \in Holding) + One(x \in Lending)
      BY <1>2, <2>4, <3>1, <3>2 DEF One
    <3> QED
      BY <1>1, <2>1, <2>2, <3>1, <3>3, ProcBalance
  <2> QED
    BY <2>2, <2>3, <2>4
<1>5. CASE AtUp(p)
  <2>1. Up /\ thr' = thr
    BY <1>5, UpMoves
  <2>2. PICK x \in Places :
          /\ pc' = [pc EXCEPT ![p] = x]
          /\ One(x \in Holding) + One(pc[p] \in Lending) + 1
               = One(pc[p] \in Holding) + One(x \in Lending)
    BY <1>5, UpMoves
  <2>3. SemOK(sem') /\ Weight(sem') = Weight(sem) + 1
    BY <2>1, UpOK
  <2>4. Weight(sem') \in Nat
    BY <2>3, WeightType
  <2>5. Weight(sem') + One(x \in Holding) + One(pc[p] \in Lending)
          = Weight(sem) + One(pc[p] \in Holding) + One(x \in Lending)
    BY <1>2, <2>2, <2>3, <2>4 DEF One
  <2> QED
    BY <1>1, <2>1, <2>2, <2>3, <2>5, ProcBalance
<1> QED
  BY <1>3, <1>4, <1>5

\* A new thread takes the semaphore over from the open that starts it.
LEMMA StartRunsSemaphore ==
  ASSUME TypeOK, SemOK(sem), OneWriter, StartsWithoutThread, SemaphoreConserved,
         NEW p \in Procs, StartRuns(p)
  PROVE  SemOK(sem') /\ SemaphoreConserved'
<1>1. /\ pc \in [Procs -> Places] /\ p # Kthread
      /\ pc[p] = "run" /\ pc[p] \in Holding /\ pc[p] \notin Lending
  BY ConstantsAssumption DEF TypeOK, StartRuns, At, Holding, Lending
<1>2. mode[p] = "rw"
  BY <1>1 DEF OneWriter, Writing, Opening
<1>3. ~ThreadHolds
  BY <1>1, <1>2, WriterExcludesThread
<1>4. CASE thr' = "init" /\ Go(p, "opened") /\ UNCHANGED sem
  <2>1. Holders' = (Holders \ {p}) \cup {Kthread}
    <3>1. ThreadHolds' /\ ~ThreadHolds
      BY <1>3, <1>4 DEF ThreadHolds
    <3>2. \A q \in Procs : pc'[q] = IF q = p THEN "opened" ELSE pc[q]
      BY <1>1, <1>4 DEF Go
    <3> QED
      BY <1>1, <3>1, <3>2 DEF Holders, Holding, Requesting, Stopping, Releasing
  <2>2. Borrowers' = Borrowers
    <3>1. \A q \in Procs : pc'[q] = IF q = p THEN "opened" ELSE pc[q]
      BY <1>1, <1>4 DEF Go
    <3> QED
      BY <1>1, <3>1 DEF Borrowers
  <2>3. p \in Holders /\ Kthread \notin Holders
    BY <1>1, <1>3, ConstantsAssumption DEF Holders
  <2>4. /\ IsFiniteSet(Holders \ {p})
        /\ Cardinality(Holders \ {p}) = Cardinality(Holders) - 1
    BY <2>3, HoldersFinite, FS_RemoveElement
  <2>5. Cardinality((Holders \ {p}) \cup {Kthread}) = Cardinality(Holders \ {p}) + 1
    BY <2>3, <2>4, FS_AddElement
  <2>6. Cardinality(Holders') = Cardinality(Holders)
    BY <2>1, <2>4, <2>5, HoldersFinite
  <2> QED
    BY <1>4, <2>2, <2>6 DEF SemaphoreConserved
<1>5. CASE Up /\ Go(p, "idle") /\ UNCHANGED <<thr, should_stop>>
  <2>1. SemOK(sem') /\ Weight(sem') = Weight(sem) + 1
    BY <1>5, UpOK
  <2>2. Weight(sem) \in Nat
    BY WeightType
  <2>3. Weight(sem') + One("idle" \in Holding) + One(pc[p] \in Lending)
          = Weight(sem) + One(pc[p] \in Holding) + One("idle" \in Lending)
    BY <1>1, <2>1, <2>2 DEF One, Holding, Requesting, Stopping, Releasing, Lending
  <2>4. pc' = [pc EXCEPT ![p] = "idle"] /\ thr' = thr
    BY <1>5 DEF Go
  <2> QED
    BY <1>1, <2>1, <2>3, <2>4, ProcBalance
<1> QED
  BY <1>4, <1>5 DEF StartRuns

\* So do the steps of the thread, and those that have nothing to do with it.
LEMMA ThreadSemaphore ==
  ASSUME TypeOK, SemOK(sem), SemaphoreConserved,
         ThreadStep \/ ThreadFreezes \/ ShutdownTimeout \/ Resume
  PROVE  SemOK(sem') /\ SemaphoreConserved'
<1>1. Kthread \in Actors /\ Weight(sem) \in Nat
  BY WeightType DEF Actors
<1>2. pc' = pc
  BY DEF ThreadStep, ThreadInit, ThreadUp, ThreadWakes, ThreadChecks, ThreadThaws, ThreadDown,
     ThreadReinit, ThreadReinitDone, ThreadWorks, DriverReturns, EventPublish,
     ThreadExitDown, ThreadSleeps, ThreadEnds, ThreadFreezes, ShutdownTimeout, Resume
<1>3. \/ /\ Queue(Kthread) \/ sem' = sem
         /\ ThreadHolds' <=> ThreadHolds
      \/ Down(Kthread) /\ ~ThreadHolds /\ ThreadHolds'
      \/ Up /\ ThreadHolds /\ ~ThreadHolds'
  <2>1. CASE ThreadInit \/ ThreadWakes \/ ThreadChecks \/ ThreadThaws \/ ThreadReinit
             \/ ThreadReinitDone \/ ThreadSleeps \/ EventPublish
    BY <2>1 DEF ThreadInit, ThreadWakes, ThreadChecks, ThreadThaws, ThreadReinit,
       ThreadReinitDone,
       ThreadSleeps, EventPublish, ThreadAt, ThreadHolds
  <2>2. CASE ThreadWorks \/ DriverReturns
    BY <2>2 DEF ThreadWorks, DriverReturns, ThreadHolds
  <2>3. CASE ThreadUp \/ ThreadEnds
    BY <2>3 DEF ThreadUp, ThreadEnds, ThreadAt, ThreadHolds
  <2>4. CASE ThreadDown \/ ThreadExitDown
    BY <2>4 DEF ThreadDown, ThreadExitDown, ThreadHolds
  <2>5. CASE ThreadFreezes \/ ShutdownTimeout \/ Resume
    BY <2>5 DEF ThreadFreezes, ShutdownTimeout, Resume, ThreadAt, ThreadHolds, thread
  <2> QED
    BY <2>1, <2>2, <2>3, <2>4, <2>5 DEF ThreadStep
<1>4. CASE /\ Queue(Kthread) \/ sem' = sem
           /\ ThreadHolds' <=> ThreadHolds
  <2>1. SemOK(sem') /\ Weight(sem') = Weight(sem)
    BY <1>1, <1>4, QueueOK
  <2>2. Weight(sem') + One(ThreadHolds') = Weight(sem) + One(ThreadHolds)
    BY <1>4, <2>1 DEF One
  <2> QED
    BY <1>2, <2>1, <2>2, ThreadBalance
<1>5. CASE Down(Kthread) /\ ~ThreadHolds /\ ThreadHolds'
  <2>1. SemOK(sem') /\ Weight(sem') + 1 = Weight(sem)
    BY <1>1, <1>5, DownOK
  <2>2. Weight(sem') \in Nat
    BY <2>1, WeightType
  <2>3. Weight(sem') + One(ThreadHolds') = Weight(sem) + One(ThreadHolds)
    BY <1>1, <1>5, <2>1, <2>2 DEF One
  <2> QED
    BY <1>2, <2>1, <2>3, ThreadBalance
<1>6. CASE Up /\ ThreadHolds /\ ~ThreadHolds'
  <2>1. SemOK(sem') /\ Weight(sem') = Weight(sem) + 1
    BY <1>6, UpOK
  <2>2. Weight(sem') + One(ThreadHolds') = Weight(sem) + One(ThreadHolds)
    BY <1>1, <1>6, <2>1 DEF One
  <2> QED
    BY <1>2, <2>1, <2>2, ThreadBalance
<1> QED
  BY <1>3, <1>4, <1>5, <1>6

\* A step of a process moves this process only.
LEMMA OneMoves ==
  ASSUME TypeOK, NEW p \in Procs,
         Call(p) \/ Continue(p) \/ StartInterrupted(p) \/ EventWakes(p)
  PROVE  /\ pc' = [pc EXCEPT ![p] = pc'[p]]
         /\ \A q \in Procs \ {p} : pc'[q] = pc[q]
<1>1. Quiet(p) \/ Inner(p) \/ AtDown(p) \/ AtUp(p) \/ StartRuns(p)
  BY ProcSteps
<1>2. \E x : pc' = [pc EXCEPT ![p] = x]
  BY <1>1, QuietMoves, InnerMoves, AtDownMoves, UpMoves DEF StartRuns, Go
<1> QED
  BY <1>2 DEF TypeOK

-----------------------------------------------------------------------------
(***************************************************************************)
(* Type correctness.                                                       *)
(***************************************************************************)
\* What the steps do to the event queue.
LEMMA QueueType ==
  ASSUME TypeOK, Next
  PROVE  events' \in EventQueue /\ wp' \in Slots /\ lost' \in BOOLEAN
<1>1. events \in EventQueue /\ wp \in Slots /\ lost \in BOOLEAN
  BY DEF TypeOK, EventQueue, Slots
<1>2. 0 \in Slots
  BY ConstantsAssumption DEF Slots
<1>3. ClearEvents(events) \in EventQueue
  BY <1>1 DEF ClearEvents, EventQueue
<1>4. /\ NextSlot(events.eventw) \in Slots /\ NextSlot(events.eventr) \in Slots
      /\ MakeRoom(events) \in EventQueue
  BY <1>1, NextSlotOK, MakeRoomOK DEF EventQueue
<1>5. ASSUME AddEventBegin \/ AddEventEnd
      PROVE  events' \in EventQueue /\ wp' \in Slots /\ lost' \in BOOLEAN
  <2>1. CASE AddEventBegin
    BY <1>1, <1>4, <2>1 DEF AddEventBegin
  <2>2. CASE AddEventEnd
    BY <1>1, <1>2, <2>2 DEF AddEventEnd, EventQueue
  <2> QED
    BY <1>5, <2>1, <2>2
<1>6. ASSUME NEW p \in Procs,
             Call(p) \/ Continue(p) \/ StartInterrupted(p) \/ EventWakes(p)
      PROVE  events' \in EventQueue /\ wp' \in Slots /\ lost' \in BOOLEAN
  <2>1. CASE GetEventBegin(p)
    BY <1>1, <2>1 DEF GetEventBegin, EventQueue
  <2>2. CASE GetEventOverflow(p)
    BY <1>1, <1>3, <2>2 DEF GetEventOverflow
  <2>3. CASE EventTake(p)
    BY <1>1, <1>4, <2>3 DEF EventTake, EventQueue
  <2>4. CASE Opened(p)
    BY <1>1, <1>2, <2>4 DEF Opened, EventQueue, queue
  <2>5. CASE RestartClear(p)
    BY <1>1, <1>3, <2>5 DEF RestartClear
  <2>6. CASE RestartAdd(p) \/ RestartPublish(p)
    BY <1>5, <2>6 DEF RestartAdd, RestartPublish
  <2>7. CASE \/ \E m \in {"ro", "rw"} : Open(p, m)
             \/ Ioctl(p) \/ StopTask(p) \/ Close(p)
             \/ StartFindsThread(p) \/ StartTestsExit(p) \/ Stop(p) \/ KthreadStop(p)
             \/ StopJoins(p) \/ StopInitialisesUsed(p) \/ StartDown(p) \/ StartRuns(p)
             \/ IoctlDown(p) \/ IoctlRefused(p) \/ IoctlQuery(p)
             \/ SetFrontend(p) \/ StartJob(p) \/ RequestWakes(p) \/ RequestReturns(p)
             \/ TuneRefused(p) \/ Diseqc(p) \/ StopTaskDown(p) \/ StopTaskIdles(p)
             \/ StopTaskReturns(p) \/ CloseDown(p) \/ CloseIdles(p) \/ CloseReturns(p)
             \/ EventUp(p) \/ EventTest(p) \/ EventDown(p) \/ EventWakes(p)
             \/ StartInterrupted(p)
    <3>1. UNCHANGED queue
      BY <2>7 DEF Open, Ioctl, StopTask, Close, StartFindsThread, StartTestsExit, Stop,
         KthreadStop, StopJoins, StopInitialisesUsed, StartDown, StartRuns, IoctlDown,
         IoctlRefused, IoctlQuery, SetFrontend, StartJob, Request, RequestWakes,
         RequestReturns, TuneRefused, Diseqc, StopTaskDown, StopTaskIdles, IdleLoop,
         StopTaskReturns, CloseDown, CloseIdles, CloseReturns, EventUp,
         EventTest, EventDown, EventWakes, StartInterrupted
    <3> QED
      BY <1>1, <3>1 DEF queue
  <2> QED
    BY <1>6, <2>1, <2>2, <2>3, <2>4, <2>5, <2>7, <2>6 DEF Call, Continue
<1>7. CASE DriverReturns
  BY <1>1, <1>5, <1>7 DEF DriverReturns, queue
<1>8. CASE EventPublish
  BY <1>5, <1>8 DEF EventPublish
<1>9. CASE \/ ThreadInit \/ ThreadUp \/ ThreadWakes \/ ThreadChecks \/ ThreadThaws
           \/ ThreadDown
           \/ ThreadReinit \/ ThreadReinitDone \/ ThreadWorks
           \/ ThreadExitDown \/ ThreadSleeps \/ ThreadEnds
           \/ ThreadFreezes \/ ShutdownTimeout \/ Resume
  BY <1>1, <1>9 DEF ThreadInit, ThreadUp, ThreadWakes, ThreadChecks, ThreadThaws, ThreadDown,
     ThreadReinit, ThreadReinitDone, ThreadWorks, ThreadExitDown, ThreadSleeps,
     ThreadEnds, ThreadFreezes, ShutdownTimeout, Resume, queue
<1> QED
  BY <1>6, <1>7, <1>8, <1>9 DEF Next, ThreadStep

\* What they do to the rest of the state.
LEMMA TypeStep ==
  ASSUME TypeOK, Next, SemOK(sem')
  PROVE  TypeOK'
<1>1. events' \in EventQueue /\ wp' \in Slots /\ lost' \in BOOLEAN
  BY QueueType
<1>2. /\ sem'.count \in Nat /\ sem'.queue \in Seq(Procs \cup {Kthread})
      /\ sem'.granted \subseteq Procs \cup {Kthread}
  BY DEF SemOK, Actors
<1>3. ASSUME NEW p \in Procs,
             Call(p) \/ Continue(p) \/ StartInterrupted(p) \/ EventWakes(p)
      PROVE  /\ pc' \in [Procs -> Places]
             /\ mode' \in [Procs -> {"none", "ro", "rw"}]
             /\ thr' \in ThreadPlaces /\ should_stop' \in BOOLEAN
             /\ exit' \in {"NO_EXIT", "NORMAL_EXIT", "DEVICE_REMOVED"}
             /\ state' \in {"IDLE", "TUNED", "DISEQC"} \cup Requested
             /\ wakeup' \in BOOLEAN /\ reinitialise' \in BOOLEAN
             /\ shutdown_due' \in BOOLEAN /\ stopped' \in BOOLEAN
  <2>1. \/ Quiet(p) \/ Inner(p) \/ AtDown(p) \/ AtUp(p) \/ StartRuns(p)
    BY <1>3, ProcSteps
  <2>2. pc \in [Procs -> Places]
    BY DEF TypeOK
  <2>3. CASE Quiet(p)
    <3>1. pc' \in [Procs -> Places] /\ thr' \in ThreadPlaces
      BY <2>2, <2>3, QuietMoves DEF TypeOK
    <3>2. mode' \in [Procs -> {"none", "ro", "rw"}]
      BY <2>3 DEF TypeOK, Quiet, Open, Ioctl, StopTask, GetEventBegin, Close,
         StartFindsThread, StartTestsExit, Stop, KthreadStop, StopJoins,
         StopInitialisesUsed, Opened, GetEventOverflow, EventTest, EventTake,
         EventWakes, EventOnly
    <3>3. /\ should_stop' \in BOOLEAN
          /\ exit' \in {"NO_EXIT", "NORMAL_EXIT", "DEVICE_REMOVED"}
          /\ state' \in {"IDLE", "TUNED", "DISEQC"} \cup Requested
      BY <2>3 DEF TypeOK, Quiet, Open, Ioctl, StopTask, GetEventBegin, Close,
         StartFindsThread, StartTestsExit, Stop, KthreadStop, StopJoins,
         StopInitialisesUsed, Opened, GetEventOverflow, EventTest, EventTake,
         EventWakes, EventOnly, thread, loop
    <3>4. /\ wakeup' \in BOOLEAN /\ reinitialise' \in BOOLEAN
          /\ shutdown_due' \in BOOLEAN /\ stopped' \in BOOLEAN
      BY <2>3, Zenon DEF TypeOK, Quiet, Open, Ioctl, StopTask, GetEventBegin, Close,
         StartFindsThread, StartTestsExit, Stop, KthreadStop, StopJoins,
         StopInitialisesUsed, Opened, GetEventOverflow, EventTest, EventTake,
         EventWakes, EventOnly, loop, flags
    <3> QED
      BY <3>1, <3>2, <3>3, <3>4
  <2>4. CASE Inner(p)
    <3>1. /\ pc' \in [Procs -> Places] /\ thr' \in ThreadPlaces
          /\ mode' \in [Procs -> {"none", "ro", "rw"}]
      BY <2>2, <2>4, InnerMoves DEF TypeOK
    <3>2. /\ should_stop' \in BOOLEAN
          /\ exit' \in {"NO_EXIT", "NORMAL_EXIT", "DEVICE_REMOVED"}
          /\ state' \in {"IDLE", "TUNED", "DISEQC"} \cup Requested
      BY <2>4 DEF TypeOK, Inner, SetFrontend, StartJob, Request, RequestWakes,
         StopTaskIdles, CloseIdles, IdleLoop, RestartClear, RestartAdd, RestartPublish,
         QueueOnly, thread, loop, Requested
    <3>3. /\ wakeup' \in BOOLEAN /\ reinitialise' \in BOOLEAN
          /\ shutdown_due' \in BOOLEAN /\ stopped' \in BOOLEAN
      BY <2>4 DEF TypeOK, Inner, SetFrontend, StartJob, Request, RequestWakes,
         StopTaskIdles, CloseIdles, IdleLoop, RestartClear, RestartAdd, RestartPublish,
         QueueOnly, loop, flags
    <3> QED
      BY <3>1, <3>2, <3>3
  <2>5. CASE AtDown(p)
    <3>1. pc' \in [Procs -> Places] /\ thr' \in ThreadPlaces
      BY <2>2, <2>5, AtDownMoves DEF TypeOK
    <3> QED
      BY <2>5, <3>1 DEF TypeOK, AtDown, StartDown, IoctlDown, StopTaskDown, CloseDown,
         EventDown, StartInterrupted, EventOnly, thread, loop, flags
  <2>6. CASE AtUp(p)
    <3>1. pc' \in [Procs -> Places] /\ thr' \in ThreadPlaces
      BY <2>2, <2>6, UpMoves DEF TypeOK
    <3> QED
      BY <2>6, <3>1 DEF TypeOK, AtUp, IoctlRefused, IoctlQuery, TuneRefused, Diseqc,
         IoctlServed, RequestReturns, StopTaskReturns, CloseReturns, EventUp,
         EventOnly, thread, loop, flags
  <2>7. CASE StartRuns(p)
    BY <2>7 DEF TypeOK, StartRuns, Go, Places, Opening, ThreadPlaces, flags
  <2> QED
    BY <2>1, <2>3, <2>5, <2>6, <2>7, <2>4
<1>4. CASE ThreadStep \/ ThreadFreezes \/ ShutdownTimeout \/ Resume
  <2>1. pc' = pc /\ mode' = mode
    BY <1>4 DEF ThreadStep, ThreadInit, ThreadUp, ThreadWakes, ThreadChecks, ThreadThaws,
       ThreadDown,
       ThreadReinit, ThreadReinitDone, ThreadWorks, DriverReturns, EventPublish,
       ThreadExitDown, ThreadSleeps, ThreadEnds, ThreadFreezes, ShutdownTimeout, Resume
  <2>2. thr' \in ThreadPlaces
    BY <1>4 DEF TypeOK, ThreadPlaces, ThreadAt, ThreadStep, ThreadInit, ThreadUp,
       ThreadWakes, ThreadChecks, ThreadThaws, ThreadDown, ThreadReinit,
       ThreadReinitDone, ThreadWorks,
       DriverReturns, EventPublish, ThreadExitDown, ThreadSleeps, ThreadEnds,
       ThreadFreezes, ShutdownTimeout, Resume, thread
  <2>3. /\ should_stop' \in BOOLEAN
        /\ exit' \in {"NO_EXIT", "NORMAL_EXIT", "DEVICE_REMOVED"}
        /\ state' \in {"IDLE", "TUNED", "DISEQC"} \cup Requested
    BY <1>4 DEF TypeOK, Requested, ThreadStep, ThreadInit, ThreadUp,
       ThreadWakes, ThreadChecks, ThreadThaws, ThreadDown, ThreadReinit,
       ThreadReinitDone, ThreadWorks,
       DriverReturns, EventPublish, ThreadExitDown, ThreadSleeps, ThreadEnds,
       ThreadFreezes, ShutdownTimeout, Resume, thread, loop
  <2>4. /\ wakeup' \in BOOLEAN /\ reinitialise' \in BOOLEAN
        /\ shutdown_due' \in BOOLEAN /\ stopped' \in BOOLEAN
    BY <1>4 DEF TypeOK, ThreadStep, ThreadInit, ThreadUp,
       ThreadWakes, ThreadChecks, ThreadThaws, ThreadDown, ThreadReinit,
       ThreadReinitDone, ThreadWorks,
       DriverReturns, EventPublish, ThreadExitDown, ThreadSleeps, ThreadEnds,
       ThreadFreezes, ShutdownTimeout, Resume, loop, flags
  <2> QED
    BY <1>1, <1>2, <2>1, <2>2, <2>3, <2>4 DEF TypeOK, EventQueue, Slots
<1> QED
  <2>1. CASE \E p \in Procs :
               Call(p) \/ Continue(p) \/ StartInterrupted(p) \/ EventWakes(p)
    BY <1>1, <1>2, <1>3, <2>1 DEF TypeOK, EventQueue, Slots
  <2> QED
    BY <1>4, <2>1 DEF Next

-----------------------------------------------------------------------------
(***************************************************************************)
(* One writer, and a thread only where there was none.                     *)
(***************************************************************************)
LEMMA ThreadLeavesProcs ==
  ASSUME ThreadStep \/ ThreadFreezes \/ ShutdownTimeout \/ Resume
  PROVE  pc' = pc /\ mode' = mode
BY DEF ThreadStep, ThreadInit, ThreadUp, ThreadWakes, ThreadChecks, ThreadThaws, ThreadDown,
   ThreadReinit, ThreadReinitDone, ThreadWorks, DriverReturns, EventPublish,
   ThreadExitDown, ThreadSleeps, ThreadEnds, ThreadFreezes, ShutdownTimeout, Resume

\* How a process that is not opening or closing the device has it open stays, and
\* a writer is let in when there is none.
LEMMA OneWriterStep ==
  ASSUME TypeOK, OneWriter, Next
  PROVE  OneWriter'
<1>1. /\ pc \in [Procs -> Places] /\ mode \in [Procs -> {"none", "ro", "rw"}]
      /\ \A p \in Procs : pc[p] \in Writing => mode[p] = "rw"
      /\ \A p, q \in Procs : mode[p] = "rw" /\ mode[q] = "rw" => p = q
  BY DEF TypeOK, OneWriter
<1>2. ASSUME NEW p \in Procs,
             Call(p) \/ Continue(p) \/ StartInterrupted(p) \/ EventWakes(p)
      PROVE  OneWriter'
  <2>0. Quiet(p) \/ Inner(p) \/ AtDown(p) \/ AtUp(p) \/ StartRuns(p)
    BY <1>2, ProcSteps
  <2>1. \A q \in Procs \ {p} : pc'[q] = pc[q] /\ mode'[q] = mode[q]
    <3>1. \/ mode' = mode
          \/ \E m : mode' = [mode EXCEPT ![p] = m]
      <4>1. CASE Inner(p) \/ AtUp(p)
        BY <4>1, InnerMoves, UpMoves
      <4>2. CASE Quiet(p) \/ AtDown(p) \/ StartRuns(p)
        BY <4>2 DEF Quiet, Open, Ioctl, StopTask, GetEventBegin, Close,
           StartFindsThread, StartTestsExit, Stop, KthreadStop, StopJoins,
           StopInitialisesUsed, Opened, GetEventOverflow, EventTest, EventTake,
           EventWakes, EventOnly, AtDown, StartDown, IoctlDown, StopTaskDown, CloseDown,
           EventDown, StartInterrupted, StartRuns
      <4> QED
        BY <2>0, <4>1, <4>2
    <3>2. \E x : pc' = [pc EXCEPT ![p] = x]
      BY <2>0, QuietMoves, InnerMoves, AtDownMoves, UpMoves DEF StartRuns, Go
    <3> QED
      BY <1>1, <3>1, <3>2
  <2>2. /\ pc'[p] \in Writing => mode'[p] = "rw"
        /\ mode'[p] = "rw" => mode[p] = "rw" \/ NoWriter
    <3>1. CASE \E m \in {"ro", "rw"} : Open(p, m)
      BY <1>1, <3>1 DEF Open, Go, Writing, Opening, GetEvent, Requesting, Stopping
    <3>2. CASE Close(p) \/ StartInterrupted(p) \/ StartRuns(p)
      BY <1>1, <3>2 DEF Close, StartInterrupted, StartRuns, Go, At, Writing, Opening,
         GetEvent, Requesting, Stopping
    <3>3. CASE \/ Ioctl(p) \/ StopTask(p) \/ GetEventBegin(p) \/ StartFindsThread(p)
               \/ StartTestsExit(p) \/ Stop(p) \/ KthreadStop(p) \/ StopJoins(p)
               \/ StopInitialisesUsed(p) \/ Opened(p) \/ GetEventOverflow(p)
               \/ EventTest(p) \/ EventTake(p) \/ EventWakes(p)
      BY <1>1, <3>3 DEF Ioctl, StopTask, GetEventBegin, StartFindsThread,
         StartTestsExit, Stop, KthreadStop, StopJoins, StopInitialisesUsed, Opened,
         GetEventOverflow, EventTest, EventTake, EventWakes, EventOnly,
         Go, At, Writing, Opening, GetEvent, Requesting, Stopping
    <3>4. CASE \/ StartDown(p) \/ IoctlDown(p) \/ StopTaskDown(p) \/ CloseDown(p)
               \/ EventDown(p)
      BY <1>1, <3>4 DEF StartDown, IoctlDown, StopTaskDown, CloseDown, EventDown,
         EventOnly, Go, At, Writing, Opening, GetEvent, Requesting, Stopping
    <3>5. CASE Inner(p)
      <4>1. mode' = mode
        BY <3>5, InnerMoves
      <4>2. pc'[p] \in Writing => mode[p] = "rw"
        <5>1. CASE SetFrontend(p) \/ StartJob(p)
          BY <5>1 DEF SetFrontend, StartJob, Request
        <5>2. CASE \/ RequestWakes(p) \/ StopTaskIdles(p) \/ CloseIdles(p)
                   \/ RestartClear(p) \/ RestartAdd(p) \/ RestartPublish(p)
          BY <1>1, <5>2 DEF RequestWakes, StopTaskIdles, CloseIdles, IdleLoop,
             RestartClear, RestartAdd, RestartPublish, Go, At, Writing, Opening,
             GetEvent, Requesting, Stopping
        <5> QED
          BY <3>5, <5>1, <5>2 DEF Inner
      <4> QED
        BY <4>1, <4>2
    <3>6. CASE AtUp(p)
      BY <1>1, <3>6 DEF AtUp, IoctlRefused, IoctlQuery, TuneRefused, Diseqc, IoctlServed,
         RequestReturns, StopTaskReturns, CloseReturns, EventUp, EventOnly, Go, At,
         Writing, Opening, GetEvent, Requesting, Stopping
    <3> QED
      BY <2>0, <3>1, <3>2, <3>3, <3>4, <3>5, <3>6 DEF Quiet, AtDown
  <2> QED
    BY <1>1, <2>1, <2>2 DEF OneWriter, NoWriter
<1>3. CASE ThreadStep \/ ThreadFreezes \/ ShutdownTimeout \/ Resume
  BY <1>1, <1>3, ThreadLeavesProcs DEF OneWriter
<1> QED
  BY <1>2, <1>3 DEF Next

\* While an open waits for the semaphore to start a thread, nobody else starts one.
LEMMA StartsWithoutThreadStep ==
  ASSUME TypeOK, OneWriter, StartsWithoutThread, Next
  PROVE  StartsWithoutThread'
<1>1. pc \in [Procs -> Places]
  BY DEF TypeOK
<1>2. ASSUME NEW p \in Procs,
             Call(p) \/ Continue(p) \/ StartInterrupted(p) \/ EventWakes(p)
      PROVE  StartsWithoutThread'
  <2>1. \/ Quiet(p) \/ Inner(p) \/ AtDown(p) \/ AtUp(p) \/ StartRuns(p)
    BY <1>2, ProcSteps
  <2>2. CASE StartRuns(p)
    <3>1. ASSUME NEW q \in Procs, pc'[q] \in {"start_down", "run"} PROVE FALSE
      <4>1. pc[p] = "run" /\ q # p /\ pc[q] \in {"start_down", "run"}
        BY <1>1, <2>2, <3>1 DEF StartRuns, Go, At
      <4> QED
        BY <4>1 DEF OneWriter, Writing, Opening
    <3> QED
      BY <3>1 DEF StartsWithoutThread
  <2>3. CASE ~StartRuns(p)
    <3>1. thr' = thr
      BY <2>1, <2>3, QuietMoves, InnerMoves, AtDownMoves, UpMoves
    <3>2. \E x : pc' = [pc EXCEPT ![p] = x]
      BY <2>1, <2>3, QuietMoves, InnerMoves, AtDownMoves, UpMoves
    <3>3. pc'[p] \in {"start_down", "run"} =>
            ~HasThread \/ pc[p] \in {"start_down", "run"}
      <4>1. CASE Quiet(p)
        BY <1>1, <4>1 DEF Quiet, Open, Ioctl, StopTask, GetEventBegin, Close,
           StartFindsThread, StartTestsExit, Stop, KthreadStop, StopJoins,
           StopInitialisesUsed, Opened, GetEventOverflow, EventTest, EventTake,
           EventWakes, Go, At, HasThread
      <4>2. CASE AtDown(p)
        BY <1>1, <4>2 DEF AtDown, StartDown, IoctlDown, StopTaskDown, CloseDown,
           EventDown, StartInterrupted, Go, At
      <4>3. CASE AtUp(p)
        BY <1>1, <4>3, UpMoves
      <4>4. CASE Inner(p)
        BY <1>1, <4>4 DEF Inner, SetFrontend, StartJob, Request, RequestWakes,
           StopTaskIdles, CloseIdles, IdleLoop, RestartClear, RestartAdd, RestartPublish, Go
      <4> QED
        BY <2>1, <2>3, <4>1, <4>2, <4>3, <4>4
    <3> QED
      BY <1>1, <3>1, <3>2, <3>3 DEF StartsWithoutThread, HasThread
  <2> QED
    BY <2>2, <2>3
<1>3. CASE ThreadStep \/ ThreadFreezes \/ ShutdownTimeout \/ Resume
  <2>1. ~HasThread => ~HasThread'
    BY <1>3 DEF HasThread, ThreadAt, ThreadStep, ThreadInit, ThreadUp, ThreadWakes,
       ThreadChecks, ThreadThaws, ThreadDown, ThreadReinit, ThreadReinitDone, ThreadWorks,
       DriverReturns, EventPublish, ThreadExitDown, ThreadSleeps, ThreadEnds,
       ThreadFreezes, ShutdownTimeout, Resume, thread
  <2> QED
    BY <1>3, <2>1, ThreadLeavesProcs DEF StartsWithoutThread
<1> QED
  BY <1>2, <1>3 DEF Next

-----------------------------------------------------------------------------
(***************************************************************************)
(* Requests to the thread.                                                 *)
(***************************************************************************)
LEMMA NotRequested ==
  "IDLE" \notin Requested /\ "TUNED" \notin Requested /\ "DISEQC" \notin Requested
BY ConstantsAssumption DEF Requested

LEMMA RequestsStep ==
  ASSUME TypeOK, SemOK(sem), OneWriter, SemaphoreConserved, StoppedMeansIdle,
         RequestsWakeThread, NothingAsked, IdleWhileStopping, Next
  PROVE  StoppedMeansIdle' /\ RequestsWakeThread' /\ NothingAsked' /\ IdleWhileStopping'
<1> USE NotRequested
<1>1. ASSUME NEW p \in Procs,
             Call(p) \/ Continue(p) \/ StartInterrupted(p) \/ EventWakes(p)
      PROVE  StoppedMeansIdle' /\ RequestsWakeThread' /\ NothingAsked' /\ IdleWhileStopping'
  <2>1. \/ Quiet(p) \/ Inner(p) \/ AtDown(p) \/ AtUp(p) \/ StartRuns(p)
    BY <1>1, ProcSteps
  <2>2. pc \in [Procs -> Places] /\ \A q \in Procs \ {p} : pc'[q] = pc[q]
    BY <1>1, OneMoves DEF TypeOK
  \* A step that asks for nothing, and leaves a request only with its wake-up.
  <2>3. ASSUME thr' = thr, wakeup' = wakeup, stopped' = stopped,
               pc[p] \in Requesting => pc'[p] \in Requesting,
               \/ state' = state /\ (pc'[p] \in Stopping => pc[p] \in Stopping)
               \/ state' \in {"IDLE", "DISEQC"}
        PROVE  StoppedMeansIdle' /\ RequestsWakeThread' /\ NothingAsked' /\ IdleWhileStopping'
    <3>1. StoppedMeansIdle' /\ NothingAsked'
      BY <2>3 DEF StoppedMeansIdle, NothingAsked
    <3>2. (\E q \in Procs : pc[q] \in Requesting) => \E q \in Procs : pc'[q] \in Requesting
      BY <2>2, <2>3
    <3>3. RequestsWakeThread'
      BY <2>3, <3>2 DEF RequestsWakeThread
    <3>4. IdleWhileStopping'
      BY <2>2, <2>3 DEF IdleWhileStopping
    <3> QED
      BY <3>1, <3>3, <3>4
  <2>4. CASE Quiet(p)
    <3>1. /\ thr' = thr /\ (state' = state \/ state' \in {"IDLE", "DISEQC"})
          /\ wakeup' = wakeup /\ stopped' = stopped
      BY <2>4 DEF Quiet, Open, Ioctl, StopTask, GetEventBegin, Close,
         StartFindsThread, StartTestsExit, Stop, KthreadStop, StopJoins,
         StopInitialisesUsed, Opened, GetEventOverflow, EventTest, EventTake,
         EventWakes, EventOnly, thread, loop, flags
    <3>2. pc[p] \notin Requesting /\ pc'[p] \notin Stopping
      BY <2>2, <2>4 DEF Quiet, Open, Ioctl, StopTask, GetEventBegin, Close,
         StartFindsThread, StartTestsExit, Stop, KthreadStop, StopJoins,
         StopInitialisesUsed, Opened, GetEventOverflow, EventTest, EventTake,
         EventWakes, Go, At, Requesting, Stopping
    <3> QED
      BY <2>3, <3>1, <3>2
  <2>5. CASE AtDown(p)
    <3>1. thr' = thr /\ state' = state /\ wakeup' = wakeup /\ stopped' = stopped
      BY <2>5 DEF AtDown, StartDown, IoctlDown, StopTaskDown, CloseDown, EventDown,
         StartInterrupted, EventOnly, thread, loop, flags
    <3>2. pc[p] \notin Requesting /\ pc'[p] \notin Stopping
      BY <2>2, <2>5 DEF AtDown, StartDown, IoctlDown, StopTaskDown, CloseDown, EventDown,
         StartInterrupted, Go, At, Requesting, Stopping
    <3> QED
      BY <2>3, <3>1, <3>2
  <2>6. CASE \/ IoctlRefused(p) \/ IoctlQuery(p) \/ TuneRefused(p) \/ Diseqc(p)
             \/ RequestReturns(p) \/ CloseReturns(p) \/ EventUp(p)
    <3>1. /\ thr' = thr /\ (state' = state \/ state' \in {"IDLE", "DISEQC"})
          /\ wakeup' = wakeup /\ stopped' = stopped
      BY <2>6 DEF IoctlRefused, IoctlQuery, TuneRefused, Diseqc, RequestReturns,
         CloseReturns, EventUp, EventOnly, thread, loop, flags
    <3>2. pc[p] \notin Requesting /\ pc'[p] \notin Stopping
      BY <2>2, <2>6 DEF IoctlRefused, IoctlQuery, TuneRefused, Diseqc, IoctlServed,
         IoctlAllowed, RequestReturns, CloseReturns, EventUp, Go, At, Requesting, Stopping
    <3> QED
      BY <2>3, <3>1, <3>2
  <2>7. CASE \/ RestartClear(p) \/ RestartAdd(p) \/ RestartPublish(p)
             \/ StopTaskIdles(p) \/ CloseIdles(p)
    <3>1. /\ thr' = thr /\ wakeup' = wakeup /\ stopped' = stopped
          /\ state' = "IDLE" \/ (state' = state /\ ~StopTaskIdles(p))
      BY <2>7 DEF RestartClear, RestartAdd, RestartPublish, QueueOnly, StopTaskIdles,
         CloseIdles, IdleLoop, thread, loop, flags
    <3>2. /\ pc[p] \in Requesting => pc'[p] \in Requesting
          /\ pc'[p] \in Stopping => pc[p] \in Stopping \/ StopTaskIdles(p)
      BY <2>2, <2>7 DEF RestartClear, RestartAdd, RestartPublish, CloseIdles,
         StopTaskIdles, IdleLoop, Go, At, Requesting, Stopping
    <3> QED
      BY <2>3, <3>1, <3>2
  <2>8. CASE SetFrontend(p) \/ StartJob(p)
    <3>1. pc[p] \in Holding /\ mode[p] = "rw"
      BY <2>8 DEF SetFrontend, StartJob, Request, IoctlAllowed, At, Holding
    <3>2. ~ThreadHolds
      BY <3>1, WriterExcludesThread
    <3>3. /\ thr' = thr /\ stopped' = FALSE /\ pc'[p] = "request_clear"
      BY <2>2, <2>8 DEF SetFrontend, StartJob, Request, thread, Go
    <3>4. \A q \in Procs : pc'[q] \notin Stopping
      BY <2>2, <3>1, <3>3 DEF OneWriter, Writing, Stopping
    <3>5. pc'[p] \in Requesting
      BY <3>3 DEF Requesting
    <3> QED
      BY <3>2, <3>3, <3>4, <3>5 DEF StoppedMeansIdle, RequestsWakeThread, NothingAsked,
         IdleWhileStopping, ThreadHolds
  <2>9. CASE RequestWakes(p)
    <3>1. /\ thr' = thr /\ state' = state /\ stopped' = stopped /\ wakeup' = TRUE
          /\ pc'[p] = "request_up"
      BY <2>2, <2>9 DEF RequestWakes, thread, flags, Go
    <3>2. IdleWhileStopping'
      BY <2>2, <3>1 DEF IdleWhileStopping, Stopping
    <3> QED
      BY <3>1, <3>2 DEF StoppedMeansIdle, RequestsWakeThread, NothingAsked
  <2>10. CASE StopTaskReturns(p)
    <3>1. pc[p] \in Holding /\ mode[p] = "rw" /\ pc[p] \in Stopping
      BY <2>10 DEF StopTaskReturns, At, Holding, Stopping, OneWriter, Writing
    <3>2. ~ThreadHolds
      BY <3>1, WriterExcludesThread
    <3>3. state \in {"IDLE", "DISEQC"}
      BY <3>1 DEF IdleWhileStopping
    <3>4. thr' = thr /\ state' = state
      BY <2>10 DEF StopTaskReturns, thread, loop
    <3> QED
      BY <3>2, <3>3, <3>4 DEF StoppedMeansIdle, RequestsWakeThread, NothingAsked,
         IdleWhileStopping, ThreadHolds
  <2>11. CASE StartRuns(p)
    <3>1. state' = "IDLE" /\ stopped' = stopped /\ (thr' = "init" \/ thr' = thr)
      BY <2>11 DEF StartRuns, flags
    <3> QED
      BY <3>1 DEF StoppedMeansIdle, RequestsWakeThread, NothingAsked, IdleWhileStopping
  <2> QED
    BY <2>1, <2>4, <2>5, <2>6, <2>7, <2>8, <2>9, <2>10, <2>11 DEF Inner, AtUp
<1>2. CASE ThreadStep
  <2>1. stopped' = stopped /\ pc' = pc
    BY <1>2 DEF ThreadStep, ThreadInit, ThreadUp, ThreadWakes, ThreadChecks, ThreadThaws,
       ThreadDown,
       ThreadReinit, ThreadReinitDone, ThreadWorks, DriverReturns, EventPublish,
       ThreadExitDown, ThreadSleeps, ThreadEnds, flags
  <2>2. IdleWhileStopping'
    <3>1. state' = state \/ state' = "IDLE" \/ state = "RETUNE"
      BY <1>2 DEF ThreadStep, ThreadInit, ThreadUp, ThreadWakes, ThreadChecks, ThreadThaws,
         ThreadDown, ThreadReinit, ThreadReinitDone, ThreadWorks, DriverReturns,
         EventPublish, ThreadExitDown, ThreadSleeps, ThreadEnds, loop
    <3> QED
      BY <2>1, <3>1 DEF IdleWhileStopping
  <2>3. CASE ThreadInit \/ ThreadUp \/ EventPublish
    BY <2>1, <2>2, <2>3 DEF ThreadInit, ThreadUp, EventPublish, ThreadAt, loop,
       StoppedMeansIdle, RequestsWakeThread, NothingAsked
  <2>4. CASE \/ ThreadWakes \/ ThreadChecks \/ ThreadThaws \/ ThreadDown \/ ThreadReinit
             \/ ThreadReinitDone \/ ThreadExitDown \/ ThreadSleeps \/ ThreadEnds
    <3>1. thr' \in {"check", "exit_down", "down", "work", "reinit", "sleep", "null", "none",
                "restart"}
      BY <2>4 DEF ThreadWakes, ThreadChecks, ThreadThaws, ThreadDown, ThreadReinit,
         ThreadReinitDone,
         ThreadExitDown, ThreadSleeps, ThreadEnds, ThreadAt
    <3>2. state' = state
      BY <2>4 DEF ThreadWakes, ThreadChecks, ThreadThaws, ThreadDown, ThreadReinit,
         ThreadReinitDone,
         ThreadExitDown, ThreadSleeps, ThreadEnds, loop
    <3> QED
      BY <2>1, <2>2, <3>1, <3>2 DEF StoppedMeansIdle, RequestsWakeThread, NothingAsked
  <2>5. CASE ThreadWorks
    <3>1. CASE state \in {"IDLE", "DISEQC"}
      <4>1. thr' = "up" /\ state' = state
        <5>1. state \notin Jobs
          BY <3>1 DEF Requested
        <5> QED
          BY <2>5, <3>1, <5>1 DEF ThreadWorks
      <4> QED
        BY <2>1, <2>2, <3>1, <4>1 DEF StoppedMeansIdle, RequestsWakeThread, NothingAsked
    <3>2. CASE state \in Jobs
      <4>1. thr' = "drive_job" /\ ~stopped
        <5>1. state \notin {"IDLE", "DISEQC"}
          BY <3>2 DEF Requested
        <5> QED
          BY <2>5, <3>2, <5>1 DEF ThreadWorks, StoppedMeansIdle
      <4> QED
        BY <2>1, <2>2, <4>1 DEF StoppedMeansIdle, RequestsWakeThread, NothingAsked
    <3>3. CASE state \notin {"IDLE", "DISEQC"} \cup Jobs
      <4>1. thr' = "drive_tune" /\ ~stopped /\ state' = "TUNED"
        BY <2>5, <3>3 DEF ThreadWorks, StoppedMeansIdle, TypeOK, Requested
      <4> QED
        BY <2>1, <2>2, <4>1 DEF StoppedMeansIdle, RequestsWakeThread, NothingAsked
    <3> QED
      BY <3>1, <3>2, <3>3
  <2>6. CASE DriverReturns
    <3>1. thr' \in {"event", "up"} /\ ~stopped /\ state' \notin Requested
      BY <2>6 DEF DriverReturns, StoppedMeansIdle, NothingAsked
    <3> QED
      BY <2>1, <2>2, <3>1 DEF StoppedMeansIdle, RequestsWakeThread, NothingAsked
  <2> QED
    BY <1>2, <2>3, <2>4, <2>5, <2>6 DEF ThreadStep
<1>3. CASE ShutdownTimeout
  BY <1>3 DEF ShutdownTimeout, thread, loop, StoppedMeansIdle, RequestsWakeThread,
     NothingAsked, IdleWhileStopping
<1>4. CASE ThreadFreezes
  BY <1>4 DEF ThreadFreezes, ThreadAt, loop, flags, StoppedMeansIdle, RequestsWakeThread,
     NothingAsked, IdleWhileStopping
<1>5. CASE Resume
  <2>1. \A q \in Procs : pc'[q] \notin Stopping
    BY <1>5 DEF Resume, At, Stopping
  <2> QED
    BY <1>5, <2>1 DEF Resume, thread, StoppedMeansIdle, RequestsWakeThread, NothingAsked,
       IdleWhileStopping
<1> QED
  BY <1>1, <1>2, <1>3, <1>4, <1>5 DEF Next

-----------------------------------------------------------------------------
(***************************************************************************)
(* Events.                                                                 *)
(***************************************************************************)
LEMMA LossStep ==
  ASSUME TypeOK, LossIsReported, Next
  PROVE  LossIsReported'
<1>1. pc \in [Procs -> Places] /\ events \in EventQueue
  BY DEF TypeOK, EventQueue, Slots
<1>2. ASSUME NEW p \in Procs,
             Call(p) \/ Continue(p) \/ StartInterrupted(p) \/ EventWakes(p)
      PROVE  LossIsReported'
  <2>1. CASE GetEventBegin(p) /\ events.overflow
    <3>1. pc'[p] = "overflow"
      BY <1>1, <2>1 DEF GetEventBegin, Go
    <3> QED
      BY <3>1 DEF LossIsReported, At
  <2>2. CASE GetEventOverflow(p) \/ Opened(p) \/ RestartClear(p)
    <3>1. lost' = FALSE
      BY <2>2 DEF GetEventOverflow, Opened, RestartClear
    <3> QED
      BY <3>1 DEF LossIsReported
  <2>3. ASSUME lost' = lost, events'.overflow = events.overflow,
               pc[p] # "overflow", \E x : pc' = [pc EXCEPT ![p] = x]
        PROVE  LossIsReported'
    <3>1. \A q \in Procs : pc[q] = "overflow" => pc'[q] = "overflow"
      BY <1>1, <2>3
    <3> QED
      BY <2>3, <3>1 DEF LossIsReported, At
  <2>4. CASE EventTake(p)
    <3>1. lost' = lost /\ events'.overflow = events.overflow /\ pc[p] # "overflow"
      BY <1>1, <2>4 DEF EventTake, At, EventQueue
    <3> QED
      BY <2>3, <2>4, <3>1 DEF EventTake, Go
  <2>5. CASE RestartAdd(p)
    <3>1. pc[p] # "overflow" /\ pc'[p] # "overflow"
      BY <1>1, <2>5 DEF RestartAdd, At, Go
    <3>2. \A q \in Procs : pc[q] = "overflow" => pc'[q] = "overflow"
      BY <1>2, <3>1, OneMoves
    <3>3. /\ lost' => lost \/ events'.overflow
          /\ events.overflow => events'.overflow
      BY <1>1, <2>5, MakeRoomOK DEF RestartAdd, AddEventBegin
    <3> QED
      BY <3>2, <3>3 DEF LossIsReported, At
  <2>6. CASE RestartPublish(p)
    <3>1. lost' = lost /\ events'.overflow = events.overflow /\ pc[p] # "overflow"
      BY <1>1, <2>6 DEF RestartPublish, AddEventEnd, At, EventQueue
    <3> QED
      BY <1>2, <2>3, <3>1, OneMoves
  <2>7. CASE \/ GetEventBegin(p) /\ ~events.overflow
             \/ \E m \in {"ro", "rw"} : Open(p, m)
             \/ Ioctl(p) \/ StopTask(p) \/ Close(p)
             \/ StartFindsThread(p) \/ StartTestsExit(p) \/ Stop(p) \/ KthreadStop(p)
             \/ StopJoins(p) \/ StopInitialisesUsed(p) \/ StartDown(p) \/ StartRuns(p)
             \/ IoctlDown(p) \/ IoctlRefused(p) \/ IoctlQuery(p)
             \/ SetFrontend(p) \/ StartJob(p) \/ RequestWakes(p) \/ RequestReturns(p)
             \/ TuneRefused(p) \/ Diseqc(p) \/ StopTaskDown(p) \/ StopTaskIdles(p)
             \/ StopTaskReturns(p) \/ CloseDown(p) \/ CloseIdles(p) \/ CloseReturns(p)
             \/ EventUp(p) \/ EventTest(p) \/ EventDown(p) \/ EventWakes(p)
             \/ StartInterrupted(p)
    <3>1. UNCHANGED queue /\ pc[p] # "overflow"
      BY <2>7 DEF GetEventBegin, Open, Ioctl, StopTask, Close, StartFindsThread,
         StartTestsExit, Stop, KthreadStop, StopJoins, StopInitialisesUsed, StartDown,
         StartRuns, IoctlDown, IoctlRefused, IoctlQuery, IoctlServed, IoctlAllowed,
         SetFrontend, StartJob, Request, RequestWakes, RequestReturns, TuneRefused, Diseqc,
         StopTaskDown, StopTaskIdles, IdleLoop, StopTaskReturns, CloseDown, CloseIdles,
         CloseReturns, EventUp, EventTest, EventDown, EventWakes, StartInterrupted, At, queue
    <3> QED
      BY <1>2, <2>3, <3>1, OneMoves DEF queue
  <2> QED
    BY <1>2, <2>1, <2>2, <2>4, <2>5, <2>6, <2>7 DEF Call, Continue
<1>3. CASE DriverReturns
  <2>1. pc' = pc
    BY <1>3 DEF DriverReturns
  <2>2. lost' => lost \/ events'.overflow
    BY <1>1, <1>3, MakeRoomOK DEF DriverReturns, AddEventBegin, queue
  <2>3. events.overflow => events'.overflow
    BY <1>1, <1>3, MakeRoomOK DEF DriverReturns, AddEventBegin, queue
  <2> QED
    BY <2>1, <2>2, <2>3 DEF LossIsReported, At
<1>4. CASE EventPublish
  BY <1>1, <1>4 DEF EventPublish, AddEventEnd, EventQueue, LossIsReported, At
<1>5. CASE \/ ThreadInit \/ ThreadUp \/ ThreadWakes \/ ThreadChecks \/ ThreadThaws
           \/ ThreadDown
           \/ ThreadReinit \/ ThreadReinitDone \/ ThreadWorks
           \/ ThreadExitDown \/ ThreadSleeps \/ ThreadEnds
           \/ ThreadFreezes \/ ShutdownTimeout \/ Resume
  <2>1. UNCHANGED queue /\ pc' = pc
    BY <1>5 DEF ThreadInit, ThreadUp, ThreadWakes, ThreadChecks, ThreadThaws, ThreadDown,
       ThreadReinit, ThreadReinitDone, ThreadWorks, ThreadExitDown, ThreadSleeps,
       ThreadEnds, ThreadFreezes, ShutdownTimeout, Resume
  <2> QED
    BY <2>1 DEF LossIsReported, At, queue
<1> QED
  BY <1>2, <1>3, <1>4, <1>5 DEF Next, ThreadStep

\* Steps of a process that leave the queue of events alone.
Eventless(p) ==
  \/ \E m \in {"ro", "rw"} : Open(p, m)
  \/ Ioctl(p) \/ StopTask(p) \/ Close(p)
  \/ StartFindsThread(p) \/ StartTestsExit(p) \/ Stop(p) \/ KthreadStop(p)
  \/ StopJoins(p) \/ StopInitialisesUsed(p) \/ StartDown(p) \/ StartRuns(p)
  \/ IoctlDown(p) \/ IoctlRefused(p) \/ IoctlQuery(p)
  \/ SetFrontend(p) \/ StartJob(p) \/ RequestWakes(p) \/ RequestReturns(p)
  \/ TuneRefused(p) \/ Diseqc(p) \/ StopTaskDown(p) \/ StopTaskIdles(p)
  \/ StopTaskReturns(p) \/ CloseDown(p) \/ CloseIdles(p) \/ CloseReturns(p)
  \/ EventUp(p) \/ EventTest(p) \/ EventDown(p) \/ EventWakes(p)
  \/ StartInterrupted(p)

\* They do not touch events->mtx, do not enter or leave a close between its clear and
\* its add, and come to take an event only after they have seen one.
LEMMA EventlessMoves ==
  ASSUME TypeOK, StartsWithoutThread, NEW p \in Procs, Eventless(p)
  PROVE  /\ UNCHANGED queue
         /\ thr' = "event" <=> thr = "event"
         /\ pc[p] \notin Publishing \cup {"release_add"}
         /\ pc'[p] \notin Publishing \cup {"release_add"}
         /\ pc'[p] \in Taking => ~Empty(events) \/ pc[p] \in Taking
<1>1. pc \in [Procs -> Places]
  BY DEF TypeOK
<1>2. CASE StartRuns(p)
  BY <1>1, <1>2 DEF StartRuns, StartsWithoutThread, HasThread, At, Go, Publishing, Taking
<1>3. CASE ~StartRuns(p)
  <2>1. UNCHANGED queue /\ thr' = thr
    BY <1>3 DEF Eventless, Open, Ioctl, StopTask, Close, StartFindsThread,
         StartTestsExit, Stop, KthreadStop, StopJoins, StopInitialisesUsed, StartDown,
         IoctlDown, IoctlRefused, IoctlQuery, SetFrontend,
         StartJob, Request, RequestWakes, RequestReturns, TuneRefused, Diseqc,
         StopTaskDown, StopTaskIdles, IdleLoop, StopTaskReturns, CloseDown, CloseIdles,
         CloseReturns, EventUp, EventTest, EventDown, EventWakes, StartInterrupted,
         EventOnly, thread
  <2>2. pc[p] \notin Publishing \cup {"release_add"}
    BY <1>1, <1>3 DEF Eventless, Open, Ioctl, StopTask, Close, StartFindsThread,
         StartTestsExit, Stop, KthreadStop, StopJoins, StopInitialisesUsed, StartDown,
         IoctlDown, IoctlRefused, IoctlQuery, IoctlServed, IoctlAllowed, SetFrontend,
         StartJob, Request, RequestWakes, RequestReturns, TuneRefused, Diseqc,
         StopTaskDown, StopTaskIdles, IdleLoop, StopTaskReturns, CloseDown, CloseIdles,
         CloseReturns, EventUp, EventTest, EventDown, EventWakes, StartInterrupted,
         At, Publishing
  <2>3. pc'[p] \notin Publishing \cup {"release_add"}
    BY <1>1, <1>3, <2>2 DEF Eventless, Open, Ioctl, StopTask, Close, StartFindsThread,
         StartTestsExit, Stop, KthreadStop, StopJoins, StopInitialisesUsed, StartDown,
         IoctlDown, IoctlRefused, IoctlQuery, IoctlServed, IoctlAllowed, SetFrontend,
         StartJob, Request, RequestWakes, RequestReturns, TuneRefused, Diseqc,
         StopTaskDown, StopTaskIdles, IdleLoop, StopTaskReturns, CloseDown, CloseIdles,
         CloseReturns, EventUp, EventTest, EventDown, EventWakes, StartInterrupted,
         Go, Publishing
  <2>4. pc'[p] \in Taking => ~Empty(events) \/ pc[p] \in Taking
    BY <1>1, <1>3 DEF Eventless, Open, Ioctl, StopTask, Close, StartFindsThread,
         StartTestsExit, Stop, KthreadStop, StopJoins, StopInitialisesUsed, StartDown,
         IoctlDown, IoctlRefused, IoctlQuery, IoctlServed, IoctlAllowed, SetFrontend,
         StartJob, Request, RequestWakes, RequestReturns, TuneRefused, Diseqc,
         StopTaskDown, StopTaskIdles, IdleLoop, StopTaskReturns, CloseDown, CloseIdles,
         CloseReturns, EventUp, EventTest, EventDown, EventWakes, StartInterrupted,
         Go, At, Taking
  <2> QED
    BY <2>1, <2>2, <2>3, <2>4
<1> QED
  BY <1>2, <1>3

LEMMA EventSteps ==
  ASSUME NEW p,
         Call(p) \/ Continue(p) \/ StartInterrupted(p) \/ EventWakes(p)
  PROVE  \/ Eventless(p) \/ GetEventBegin(p) \/ GetEventOverflow(p) \/ EventTake(p)
         \/ Opened(p) \/ RestartClear(p) \/ RestartAdd(p) \/ RestartPublish(p)
BY DEF Call, Continue, Eventless

\* Steps of the thread that leave the queue alone.
LEMMA ThreadEventless ==
  ASSUME \/ ThreadInit \/ ThreadUp \/ ThreadWakes \/ ThreadChecks \/ ThreadThaws \/ ThreadDown
         \/ ThreadReinit \/ ThreadReinitDone \/ ThreadWorks
         \/ ThreadExitDown \/ ThreadSleeps \/ ThreadEnds
         \/ ThreadFreezes \/ ShutdownTimeout \/ Resume
  PROVE  UNCHANGED queue /\ pc' = pc /\ (thr' = "event" <=> thr = "event")
<1>1. UNCHANGED queue /\ pc' = pc
  BY DEF ThreadInit, ThreadUp, ThreadWakes, ThreadChecks, ThreadThaws, ThreadDown,
     ThreadReinit, ThreadReinitDone, ThreadWorks, ThreadExitDown, ThreadSleeps,
     ThreadEnds, ThreadFreezes, ShutdownTimeout, Resume
<1>2. thr' = "event" <=> thr = "event"
  BY DEF ThreadInit, ThreadUp, ThreadWakes, ThreadChecks, ThreadThaws, ThreadDown,
     ThreadReinit, ThreadReinitDone, ThreadWorks, ThreadExitDown, ThreadSleeps,
     ThreadEnds, ThreadFreezes, ShutdownTimeout, Resume,
     ThreadAt, thread
<1> QED
  BY <1>1, <1>2

\* events->mtx is taken only when it is free.
LEMMA OnePublisherStep ==
  ASSUME TypeOK, StartsWithoutThread, OnePublisher, Next
  PROVE  OnePublisher'
<1>1. pc \in [Procs -> Places]
  BY DEF TypeOK
<1>2. ASSUME NEW p \in Procs,
             Call(p) \/ Continue(p) \/ StartInterrupted(p) \/ EventWakes(p)
      PROVE  OnePublisher'
  <2>1. \A q \in Procs \ {p} : pc'[q] = pc[q]
    BY <1>2, OneMoves
  <2>2. CASE RestartAdd(p)
    <3>1. EventsUnlocked /\ thr' = thr
      BY <2>2 DEF RestartAdd, AddEventBegin, QueueOnly, thread
    <3> QED
      BY <2>1, <3>1 DEF OnePublisher, EventsUnlocked
  <2>3. CASE ~RestartAdd(p)
    <3>1. pc'[p] \notin Publishing
      <4>1. CASE Eventless(p)
        BY <4>1, EventlessMoves
      <4>2. CASE \/ GetEventBegin(p) \/ GetEventOverflow(p) \/ EventTake(p) \/ Opened(p)
                 \/ RestartClear(p) \/ RestartPublish(p)
        BY <1>1, <4>2 DEF GetEventBegin, GetEventOverflow, EventTake, Opened,
           RestartClear, RestartPublish, Go, At, Publishing
      <4> QED
        BY <1>2, <2>3, <4>1, <4>2, EventSteps
    <3>2. thr' = "event" => thr = "event"
      <4>1. CASE Eventless(p)
        BY <4>1, EventlessMoves
      <4>2. CASE \/ GetEventBegin(p) \/ GetEventOverflow(p) \/ EventTake(p) \/ Opened(p)
                 \/ RestartClear(p) \/ RestartPublish(p)
        BY <4>2 DEF GetEventBegin, GetEventOverflow, EventTake, Opened,
           RestartClear, RestartPublish, EventOnly, QueueOnly, thread
      <4> QED
        BY <1>2, <2>3, <4>1, <4>2, EventSteps
    <3> QED
      BY <2>1, <3>1, <3>2 DEF OnePublisher
  <2> QED
    BY <2>2, <2>3
<1>3. CASE DriverReturns
  BY <1>3 DEF DriverReturns, AddEventBegin, EventsUnlocked, OnePublisher
<1>4. CASE EventPublish
  BY <1>4 DEF EventPublish, ThreadAt, OnePublisher
<1>5. CASE \/ ThreadInit \/ ThreadUp \/ ThreadWakes \/ ThreadChecks \/ ThreadThaws
           \/ ThreadDown
           \/ ThreadReinit \/ ThreadReinitDone \/ ThreadWorks
           \/ ThreadExitDown \/ ThreadSleeps \/ ThreadEnds
           \/ ThreadFreezes \/ ShutdownTimeout \/ Resume
  BY <1>5, ThreadEventless DEF OnePublisher
<1> QED
  BY <1>2, <1>3, <1>4, <1>5 DEF Next, ThreadStep

LEMMA EventToComeStep ==
  ASSUME TypeOK, OneWriter, StartsWithoutThread, OnePublisher, EventToCome, Next
  PROVE  EventToCome'
<1>1. pc \in [Procs -> Places] /\ events \in EventQueue
  BY DEF TypeOK, EventQueue, Slots
<1>2. /\ ~EventsUnlocked /\ ~Empty(events) => wp # events.eventr
      /\ \A q \in Procs : pc[q] \in Taking =>
           /\ ~EventsUnlocked => wp # events.eventr
           /\ EventsUnlocked => ~Empty(events) \/ \E r \in Procs : pc[r] = "release_add"
  BY DEF EventToCome
\* Making room: the event to come will be seen.
<1>3. ASSUME AddEventBegin, ~EventsUnlocked' PROVE EventToCome'
  <2>1. wp' # events'.eventr
    BY <1>1, <1>3, MakeRoomOK DEF AddEventBegin
  <2> QED
    BY <1>3, <2>1 DEF EventToCome
\* Publishing: it is seen.
<1>4. ASSUME AddEventEnd, ~EventsUnlocked, EventsUnlocked',
             \A q \in Procs : pc'[q] \in Taking => pc[q] \in Taking
      PROVE  EventToCome'
  <2>1. events'.eventr = events.eventr /\ events'.eventw = wp
    BY <1>1, <1>4 DEF AddEventEnd, EventQueue
  <2>2. \A q \in Procs : pc'[q] \in Taking => ~Empty(events')
    BY <1>2, <1>4, <2>1 DEF Empty
  <2> QED
    BY <1>4, <2>2 DEF EventToCome
<1>5. ASSUME NEW p \in Procs,
             Call(p) \/ Continue(p) \/ StartInterrupted(p) \/ EventWakes(p)
      PROVE  EventToCome'
  <2>1. \A q \in Procs \ {p} : pc'[q] = pc[q]
    BY <1>5, OneMoves
  \* A step that leaves the queue alone, and comes to take an event only after it
  \* has seen one.
  <2>2. ASSUME thr' = "event" <=> thr = "event", wp' = wp,
               events'.eventr = events.eventr, events'.eventw = events.eventw,
               pc[p] \notin Publishing \cup {"release_add"},
               pc'[p] \notin Publishing \cup {"release_add"},
               pc'[p] \in Taking => ~Empty(events) \/ pc[p] \in Taking
        PROVE  EventToCome'
    <3>1. EventsUnlocked' <=> EventsUnlocked
      BY <2>1, <2>2 DEF EventsUnlocked
    <3>2. Empty(events') <=> Empty(events)
      BY <2>2 DEF Empty
    <3>3. (\E r \in Procs : pc[r] = "release_add") => \E r \in Procs : pc'[r] = "release_add"
      BY <2>1, <2>2
    <3> QED
      BY <1>2, <2>1, <2>2, <3>1, <3>2, <3>3 DEF EventToCome
  \* A step of the writer that leaves no event behind, or has events->mtx free: nobody
  \* is about to take one.
  <2>3. ASSUME mode[p] = "rw", pc'[p] \notin Taking, EventsUnlocked' \/ Empty(events')
        PROVE  EventToCome'
    <3>1. \A q \in Procs : pc'[q] \notin Taking
      <4>1. \A q \in Procs \ {p} : pc[q] \notin Taking
        BY <2>3 DEF OneWriter, Writing, GetEvent, Taking
      <4> QED
        BY <2>1, <2>3, <4>1
    <3> QED
      BY <2>3, <3>1 DEF EventToCome
  <2>4. CASE Eventless(p)
    BY <2>2, <2>4, EventlessMoves DEF queue
  <2>5. CASE GetEventBegin(p)
    <3>1. thr' = thr /\ wp' = wp
      BY <2>5 DEF GetEventBegin, EventOnly, thread
    <3>2. events'.eventr = events.eventr /\ events'.eventw = events.eventw
      BY <1>1, <2>5 DEF GetEventBegin, EventQueue
    <3>3. /\ pc[p] \notin Publishing \cup {"release_add"}
          /\ pc'[p] \notin Publishing \cup {"release_add"}
          /\ pc'[p] \in Taking => ~Empty(events)
      BY <1>1, <2>5 DEF GetEventBegin, Go, At, Publishing, Taking
    <3> QED
      BY <2>2, <3>1, <3>2, <3>3
  <2>6. CASE GetEventOverflow(p) \/ Opened(p)
    <3>1. pc'[p] \notin Taking /\ mode[p] = "rw"
      BY <1>1, <2>6 DEF GetEventOverflow, Opened, Go, At, Taking, OneWriter, Writing,
         GetEvent, Opening
    <3>2. Empty(events')
      BY <1>1, <2>6 DEF GetEventOverflow, Opened, ClearEvents, Empty, EventQueue
    <3> QED
      BY <2>3, <3>1, <3>2
  <2>7. CASE EventTake(p)
    <3>1. pc'[p] = "idle" /\ mode[p] = "rw" /\ thr' = thr /\ EventsUnlocked
      BY <1>1, <2>7 DEF EventTake, EventOnly, thread, Go, At, OneWriter, Writing, GetEvent
    <3>2. EventsUnlocked'
      BY <2>1, <3>1 DEF EventsUnlocked, Publishing
    <3>3. "idle" \notin Taking
      BY DEF Taking
    <3> QED
      BY <2>3, <3>1, <3>2, <3>3
  <2>8. CASE RestartClear(p)
    <3>1. /\ EventsUnlocked /\ thr' = thr
          /\ \/ pc[p] = "request_clear" /\ pc'[p] = "request_add"
             \/ pc[p] = "stop_clear" /\ pc'[p] = "stop_add"
             \/ pc'[p] = "release_add"
      BY <1>1, <2>8 DEF RestartClear, QueueOnly, thread, Go, At
    <3>2. EventsUnlocked'
      BY <2>1, <3>1 DEF EventsUnlocked, Publishing
    <3>3. CASE pc'[p] = "release_add"
      BY <3>2, <3>3 DEF EventToCome
    <3>4. CASE \/ pc[p] = "request_clear" /\ pc'[p] = "request_add"
               \/ pc[p] = "stop_clear" /\ pc'[p] = "stop_add"
      <4>1. mode[p] = "rw" /\ pc'[p] \notin Taking
        BY <3>4 DEF OneWriter, Writing, Requesting, Stopping, Taking
      <4> QED
        BY <2>3, <3>2, <4>1
    <3> QED
      BY <3>1, <3>3, <3>4
  <2>9. CASE RestartAdd(p)
    <3>1. AddEventBegin /\ pc'[p] \in Publishing
      BY <1>1, <2>9 DEF RestartAdd, Go, Publishing
    <3> QED
      BY <1>3, <3>1 DEF EventsUnlocked
  <2>10. CASE RestartPublish(p)
    <3>1. /\ AddEventEnd /\ thr' = thr
          /\ pc[p] \in Publishing /\ pc'[p] \notin Publishing \cup Taking
      BY <1>1, <2>10 DEF RestartPublish, QueueOnly, thread, Go, At, Publishing, Taking
    <3>2. ~EventsUnlocked
      BY <3>1 DEF EventsUnlocked
    <3>3. EventsUnlocked'
      BY <2>1, <3>1 DEF OnePublisher, EventsUnlocked
    <3> QED
      BY <1>4, <2>1, <3>1, <3>2, <3>3
  <2> QED
    BY <1>5, <2>4, <2>5, <2>6, <2>7, <2>8, <2>9, <2>10, EventSteps
<1>6. CASE DriverReturns
  <2>1. CASE thr' = "event" /\ AddEventBegin
    BY <1>3, <2>1 DEF EventsUnlocked
  <2>2. CASE thr' = "up" /\ UNCHANGED queue
    <3>1. pc' = pc /\ (EventsUnlocked' <=> EventsUnlocked)
      BY <1>6, <2>2 DEF DriverReturns, EventsUnlocked
    <3> QED
      BY <1>2, <2>2, <3>1 DEF EventToCome, Empty, queue
  <2> QED
    BY <1>6, <2>1, <2>2 DEF DriverReturns
<1>7. CASE EventPublish
  <2>1. AddEventEnd /\ pc' = pc /\ thr = "event" /\ thr' = "up"
    BY <1>7 DEF EventPublish, ThreadAt
  <2>2. ~EventsUnlocked /\ EventsUnlocked'
    BY <2>1 DEF EventsUnlocked, OnePublisher
  <2> QED
    BY <1>4, <2>1, <2>2
<1>8. CASE \/ ThreadInit \/ ThreadUp \/ ThreadWakes \/ ThreadChecks \/ ThreadThaws
           \/ ThreadDown
           \/ ThreadReinit \/ ThreadReinitDone \/ ThreadWorks
           \/ ThreadExitDown \/ ThreadSleeps \/ ThreadEnds
           \/ ThreadFreezes \/ ShutdownTimeout \/ Resume
  <2>1. UNCHANGED queue /\ pc' = pc /\ (thr' = "event" <=> thr = "event")
    BY <1>8, ThreadEventless
  <2>2. EventsUnlocked' <=> EventsUnlocked
    BY <2>1 DEF EventsUnlocked
  <2> QED
    BY <1>2, <2>1, <2>2 DEF EventToCome, Empty, queue
<1> QED
  BY <1>5, <1>6, <1>7, <1>8 DEF Next, ThreadStep

-----------------------------------------------------------------------------
(***************************************************************************)
(* The inductive invariant, and the theorems.                              *)
(***************************************************************************)
LEMMA InitIInv ==
  ASSUME Init
  PROVE  IInv
<1>1. SemOK(sem)
  BY DEF Init, FreeSemaphore, SemOK
<1>2. TypeOK
  <2>1. 0 \in 0..(MaxEvent - 1)
    BY ConstantsAssumption
  <2>2. /\ sem.count \in Nat /\ sem.queue \in Seq(Procs \cup {Kthread})
        /\ sem.granted \subseteq Procs \cup {Kthread}
    BY <1>1 DEF SemOK, Actors
  <2>3. /\ events \in [eventr : 0..(MaxEvent - 1), eventw : 0..(MaxEvent - 1),
                        overflow : BOOLEAN]
        /\ wp \in 0..(MaxEvent - 1)
    BY <2>1 DEF Init
  <2>4. pc \in [Procs -> Places] /\ mode \in [Procs -> {"none", "ro", "rw"}]
    BY DEF Init, Places
  <2> QED
    BY <2>2, <2>3, <2>4 DEF Init, TypeOK, ThreadPlaces
<1>3. OneWriter /\ StartsWithoutThread
  BY DEF Init, OneWriter, StartsWithoutThread, Writing, Opening, GetEvent, Requesting,
     Stopping
<1>4. SemaphoreConserved
  <2>1. Holders = {} /\ Borrowers = {}
    BY DEF Init, Holders, Holding, Requesting, Stopping, Releasing, Borrowers, ThreadHolds
  <2>2. sem.count = 1 /\ sem.granted = {}
    BY DEF Init, FreeSemaphore
  <2> QED
    BY <2>1, <2>2, FS_EmptySet DEF SemaphoreConserved
<1>5. StoppedMeansIdle /\ RequestsWakeThread /\ NothingAsked /\ IdleWhileStopping
  BY DEF Init, StoppedMeansIdle, RequestsWakeThread, NothingAsked, IdleWhileStopping
<1>6. OnePublisher /\ EventToCome /\ LossIsReported
  BY DEF Init, OnePublisher, Publishing, EventToCome, Taking, Empty, LossIsReported
<1> QED
  BY <1>1, <1>2, <1>3, <1>4, <1>5, <1>6 DEF IInv

LEMMA NextIInv ==
  ASSUME IInv, Next
  PROVE  IInv'
<1>1. SemOK(sem') /\ SemaphoreConserved'
  <2>1. ASSUME NEW p \in Procs,
               Call(p) \/ Continue(p) \/ StartInterrupted(p) \/ EventWakes(p)
        PROVE  SemOK(sem') /\ SemaphoreConserved'
    <3>1. \/ Quiet(p) \/ Inner(p) \/ AtDown(p) \/ AtUp(p) \/ StartRuns(p)
      BY <2>1, ProcSteps
    <3> QED
      BY <3>1, ProcSemaphore, StartRunsSemaphore DEF IInv
  <2>2. CASE ThreadStep \/ ThreadFreezes \/ ShutdownTimeout \/ Resume
    BY <2>2, ThreadSemaphore DEF IInv
  <2> QED
    BY <2>1, <2>2 DEF Next
<1>2. TypeOK'
  BY <1>1, TypeStep DEF IInv
<1>3. OneWriter' /\ StartsWithoutThread'
  BY OneWriterStep, StartsWithoutThreadStep DEF IInv
<1>4. StoppedMeansIdle' /\ RequestsWakeThread' /\ NothingAsked' /\ IdleWhileStopping'
  BY RequestsStep DEF IInv
<1>5. OnePublisher' /\ EventToCome' /\ LossIsReported'
  BY OnePublisherStep, EventToComeStep, LossStep DEF IInv
<1> QED
  BY <1>1, <1>2, <1>3, <1>4, <1>5 DEF IInv

LEMMA StutterIInv ==
  ASSUME IInv, UNCHANGED vars
  PROVE  IInv'
<1>1. TypeOK' /\ SemOK(sem)'
  BY DEF IInv, vars, TypeOK, SemOK
<1>2. OneWriter' /\ StartsWithoutThread'
  BY DEF IInv, vars, OneWriter, StartsWithoutThread, HasThread
<1>3. SemaphoreConserved'
  <2>1. Holders' = Holders /\ Borrowers' = Borrowers
    BY DEF vars, Holders, Borrowers, ThreadHolds
  <2> QED
    BY <2>1 DEF IInv, vars, SemaphoreConserved
<1>4. StoppedMeansIdle' /\ RequestsWakeThread' /\ NothingAsked' /\ IdleWhileStopping'
  BY DEF IInv, vars, StoppedMeansIdle, RequestsWakeThread, NothingAsked, IdleWhileStopping
<1>5. OnePublisher' /\ EventToCome' /\ LossIsReported'
  BY DEF IInv, vars, OnePublisher, EventToCome, EventsUnlocked, Empty, LossIsReported, At
<1> QED
  BY <1>1, <1>2, <1>3, <1>4, <1>5 DEF IInv

LEMMA Inductive == Spec => []IInv
<1>1. IInv /\ [Next]_vars => IInv'
  BY NextIInv, StutterIInv
<1> QED
  BY <1>1, InitIInv, PTL DEF Spec

\* Every variable keeps its type, the indices of the event queue included, and so
\* do the waiters of fepriv->sem.
THEOREM TypeCorrect == Spec => []TypeOK
<1>1. IInv => TypeOK
  BY DEF IInv
<1> QED
  BY <1>1, Inductive, PTL

\* fepriv->sem is taken as often as it was given back (dvb_frontend_do_ioctl,
\* neumo_dvb_frontend_start, neumo_dvb_frontend_thread, dvb_frontend_get_event),
\* for any number of processes.
THEOREM SemaphoreIsConserved == Spec => []SemaphoreConserved
<1>1. IInv => SemaphoreConserved
  BY DEF IInv
<1> QED
  BY <1>1, Inductive, PTL

\* Between the return of DTV_STOP and the next request the loop is idle and the
\* driver is not at work.
THEOREM StopIsEffective == Spec => []StoppedMeansIdle
<1>1. IInv => StoppedMeansIdle
  BY DEF IInv
<1> QED
  BY <1>1, Inductive, PTL

\* A thread that has gone to sleep after its work has the wake-up of every request
\* pending, or somebody is about to send it (neumo_dvb_frontend_wakeup,
\* dvb_frontend_should_wakeup).  Nothing is said of the sleep after a freeze, which
\* loses it.
THEOREM WakeUpIsKept == Spec => []RequestsWakeThread
<1>1. IInv => RequestsWakeThread
  BY DEF IInv
<1> QED
  BY <1>1, Inductive, PTL

\* FE_GET_EVENT finds the event its test has seen, unless another process is closing
\* the device, has cleared the queue and is about to add an event
\* (dvb_frontend_get_event, neumo_dvb_frontend_release).
THEOREM EventIsThere == Spec => []TakesQueuedEvents
<1>1. IInv => TakesQueuedEvents
  <2> SUFFICES ASSUME IInv, NEW p \in Procs, At(p, "take"), EventsUnlocked, Empty(events)
               PROVE  \E q \in Procs \ {p} : At(q, "release_add")
    BY DEF TakesQueuedEvents
  <2>1. PICK q \in Procs : pc[q] = "release_add"
    BY DEF IInv, EventToCome, Taking, At
  <2>2. q # p
    BY <2>1 DEF At
  <2> QED
    BY <2>1, <2>2 DEF At
<1> QED
  BY <1>1, Inductive, PTL

\* An event that neumo_dvb_frontend_add_event drops is reported as -EOVERFLOW.
THEOREM OverflowIsReported == Spec => []LossIsReported
<1>1. IInv => LossIsReported
  BY DEF IInv
<1> QED
  BY <1>1, Inductive, PTL
=============================================================================
