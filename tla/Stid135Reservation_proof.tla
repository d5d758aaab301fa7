---------------------- MODULE Stid135Reservation_proof ----------------------
(***************************************************************************)
(* Proofs about Stid135Reservation, for every number of chips, demods,     *)
(* RF inputs and applications.                                             *)
(***************************************************************************)
EXTENDS Stid135Reservation, FiniteSetTheorems, TLAPS

\* Requests, those of stid135_select_rf_in_legacy_ included.
Request == [rf_in : RfIns, owner : Owners \cup {NoOwner},
            config_id : ConfigIds \cup {LegacyConfig}, mode : Modes,
            unicable_mode : BOOLEAN]

\* The part of the type invariant about the variables that a selection writes.
TypeCore ==
  /\ rf_in_res \in [RfIns -> Reservation]
  /\ tuner_res \in [TunerIds -> Reservation]
  /\ rf_in \in [RfIns -> [controlling_chip : Chips \cup {None},
                          voltage : Voltages, tone : Tones,
                          sec_configured : BOOLEAN, unicable_mode : BOOLEAN]]
  /\ tuner \in [TunerIds -> [powered_on : BOOLEAN,
                             active_rf_in : RfIns \cup {None}]]
  /\ active_tuner \in [Demods -> RfIns \cup {None}]
  /\ is_master \in [Demods -> BOOLEAN]
  /\ lnb \in [RfIns -> Voltages]

TypeRest ==
  /\ legacy_rf_in \in [Demods -> BOOLEAN]
  /\ quattro \in [Demods -> [voltage : {None, 0, 2}, tone : {None, 0, 1}]]
  /\ pc \in [Demods -> {Idle}
               \cup [at : {"volt_gate", "volt_commit", "volt_hw"}, arg : Voltages]
               \cup [at : {"tone_commit"}, arg : Tones]]

\* A call of set_voltage that has passed the test of mastership is on an rf_in.
CommitHasTuner ==
  \A d \in Demods :
    pc[d].at \in {"volt_commit", "volt_hw"} => active_tuner[d] # None

Core == TypeCore /\ UseCountsExact /\ PowerFollowsUse /\ OwnersAgree

\* The inductive invariant.
IInv == Core /\ TypeRest /\ CommitHasTuner

\* A reservation that says exactly that the members of S use the resource.
ResOK(res, S) ==
  /\ res \in Reservation
  /\ IsFiniteSet(S)
  /\ res.use_count = Cardinality(S)
  /\ S = {} => res = Free

-----------------------------------------------------------------------------

LEMMA UsersFinite ==
  /\ \A t : IsFiniteSet(TunerUsers(t))
  /\ \A r : IsFiniteSet(RfInUsers(r))
BY ConstantsAssumption, FS_Subset DEF TunerUsers, RfInUsers

\* Dropping one user keeps the count exact, and frees what has no user left.
LEMMA DropOK ==
  ASSUME NEW S, NEW d \in S, NEW res, ResOK(res, S)
  PROVE  /\ ResOK(Drop(res), S \ {d})
         /\ S \ {d} # {} => Drop(res).owner = res.owner
<1>1. res \in Reservation /\ IsFiniteSet(S) /\ res.use_count = Cardinality(S)
  BY DEF ResOK
<1>2. IsFiniteSet(S \ {d}) /\ Cardinality(S \ {d}) = Cardinality(S) - 1
  BY <1>1, FS_RemoveElement
<1>3. Cardinality(S \ {d}) \in Nat /\ (Cardinality(S \ {d}) = 0 <=> S \ {d} = {})
  BY <1>2, FS_EmptySet, FS_CardinalityType
<1>4. Cardinality(S) \in Nat
  BY <1>1, FS_CardinalityType
<1>5. Drop(res) = IF res.use_count = 1 THEN Free
                  ELSE [res EXCEPT !.use_count = res.use_count - 1]
  BY <1>1 DEF Drop, Reservation
<1>6. CASE res.use_count = 1
  <2>1. Free \in Reservation /\ Free.use_count = 0
    BY DEF Free, Reservation, NoOwner, NoConfig
  <2> QED
    BY <1>1, <1>2, <1>3, <1>4, <1>5, <1>6, <2>1 DEF ResOK
<1>7. CASE res.use_count # 1
  <2>1. res.use_count - 1 \in Nat /\ Cardinality(S \ {d}) # 0
    BY <1>1, <1>2, <1>3, <1>4, <1>7
  <2>2. /\ Drop(res) \in Reservation
        /\ Drop(res).use_count = res.use_count - 1
        /\ Drop(res).owner = res.owner
    BY <1>1, <1>5, <1>7, <2>1 DEF Reservation
  <2> QED
    BY <1>1, <1>2, <1>3, <2>1, <2>2 DEF ResOK
<1> QED
  BY <1>6, <1>7

\* The user of a resource with use count 1 is its only user.
LEMMA LastUser ==
  ASSUME NEW S, IsFiniteSet(S), NEW d \in S
  PROVE  Cardinality(S) = 1 <=> S = {d}
<1>1. IsFiniteSet(S \ {d}) /\ Cardinality(S \ {d}) = Cardinality(S) - 1
  BY FS_RemoveElement
<1>2. Cardinality(S \ {d}) \in Nat /\ (Cardinality(S \ {d}) = 0 <=> S \ {d} = {})
  BY <1>1, FS_EmptySet, FS_CardinalityType
<1>3. Cardinality(S) \in Nat
  BY FS_CardinalityType
<1>4. S \ {d} = {} <=> S = {d}
  OBVIOUS
<1> QED
  BY <1>1, <1>2, <1>3, <1>4

LEMMA NoneIsNoRfIn == None \notin RfIns
<1>1. RfIns \subseteq Int
  <2>1. RfIns \subseteq 0..3
    BY ConstantsAssumption
  <2> QED
    BY <2>1
<1>2. None \notin Int
  BY ConstantsAssumption
<1> QED
  BY <1>1, <1>2

\* Taking a reservation keeps the count exact, and leaves the requester's
\* application as the owner if it was so before or nobody was.
LEMMA TakeOK ==
  ASSUME NEW S, NEW d, NEW same \in BOOLEAN, same <=> d \in S,
         NEW res, ResOK(res, S),
         NEW ic \in Request, NEW master \in BOOLEAN,
         S # {} => res.owner = ic.owner
  PROVE  /\ ResOK(Take(res, ic, same, master), S \cup {d})
         /\ Take(res, ic, same, master).owner = ic.owner
<1>0. /\ res \in Reservation /\ IsFiniteSet(S) /\ res.use_count = Cardinality(S)
      /\ S = {} => res = Free
  BY DEF ResOK
<1>1. Cardinality(S) \in Nat
  BY <1>0, FS_CardinalityType
<1>2. /\ Cardinality(S \cup {d}) = IF d \in S THEN Cardinality(S) ELSE Cardinality(S) + 1
      /\ IsFiniteSet(S \cup {d})
  BY <1>0, FS_AddElement
<1>3. Take(res, ic, same, master).use_count = Cardinality(S \cup {d})
  BY <1>0, <1>1, <1>2 DEF Take
<1>4. Take(res, ic, same, master).owner = ic.owner
  BY <1>0 DEF Take, Free, NoOwner
<1>5. Take(res, ic, same, master) \in Reservation
  BY <1>0, <1>1 DEF Take, Reservation, Request
<1> QED
  BY <1>2, <1>3, <1>4, <1>5 DEF ResOK

\* The reservations of a state that satisfies the invariant.
LEMMA CoreResOK ==
  ASSUME Core
  PROVE  /\ \A r \in RfIns : ResOK(rf_in_res[r], RfInUsers(r))
         /\ \A t \in TunerIds : ResOK(tuner_res[t], TunerUsers(t))
BY UsersFinite DEF ResOK, Core, TypeCore, UseCountsExact, PowerFollowsUse

\* A demod is connected to the rf_in with the number of its tuner.
LEMMA ActiveRfInFacts ==
  ASSUME Core, NEW d \in Demods
  PROVE  /\ ActiveRfIn(d) = active_tuner[d]
         /\ HasRfIn(d) <=> active_tuner[d] # None
         /\ active_tuner[d] # None =>
              /\ active_tuner[d] \in RfIns
              /\ TunerOf(d, active_tuner[d]) \in TunerIds
              /\ d \in TunerUsers(TunerOf(d, active_tuner[d]))
              /\ d \in RfInUsers(active_tuner[d])
<1>1. CASE active_tuner[d] = None
  BY <1>1 DEF ActiveRfIn, HasRfIn
<1>2. CASE active_tuner[d] # None
  <2>1. active_tuner[d] \in RfIns /\ ChipOf[d] \in Chips
    BY <1>2, ConstantsAssumption DEF Core, TypeCore
  <2>2. TunerOf(d, active_tuner[d]) \in TunerIds
    BY <2>1 DEF TunerOf, TunerIds
  <2>3. d \in TunerUsers(TunerOf(d, active_tuner[d])) /\ d \in RfInUsers(active_tuner[d])
    BY DEF TunerUsers, RfInUsers, TunerOf
  <2>4. tuner[TunerOf(d, active_tuner[d])].active_rf_in = active_tuner[d]
    BY <2>2, <2>3 DEF Core, PowerFollowsUse, TunerOf
  <2> QED
    BY <1>2, <2>1, <2>2, <2>3, <2>4 DEF ActiveRfIn, HasRfIn
<1> QED
  BY <1>1, <1>2

\* How a change of active_tuner[d] changes the sets of users.
LEMMA MoveUsers ==
  ASSUME NEW d \in Demods, NEW x \in RfIns \cup {None},
         active_tuner \in [Demods -> RfIns \cup {None}],
         active_tuner' = [active_tuner EXCEPT ![d] = x]
  PROVE  /\ \A r \in RfIns :
              RfInUsers(r)' = IF r = x THEN RfInUsers(r) \cup {d}
                                       ELSE RfInUsers(r) \ {d}
         /\ \A t \in TunerIds :
              TunerUsers(t)' = IF t = TunerOf(d, x) THEN TunerUsers(t) \cup {d}
                                                    ELSE TunerUsers(t) \ {d}
<1>1. ASSUME NEW r \in RfIns
      PROVE  RfInUsers(r)' = IF r = x THEN RfInUsers(r) \cup {d}
                                      ELSE RfInUsers(r) \ {d}
  BY DEF RfInUsers
<1>2. ASSUME NEW t \in TunerIds
      PROVE  TunerUsers(t)' = IF t = TunerOf(d, x) THEN TunerUsers(t) \cup {d}
                                                   ELSE TunerUsers(t) \ {d}
  <2>1. t = TunerOf(d, x) <=> (ChipOf[d] = t[1] /\ x = t[2])
    BY DEF TunerIds, TunerOf
  <2> QED
    BY <2>1 DEF TunerUsers
<1> QED
  BY <1>1, <1>2

\* What d leaves behind, element by element.
LEMMA WithoutFacts ==
  ASSUME Core, NEW d \in Demods, active_tuner[d] # None
  PROVE  LET n == active_tuner[d]
             o == TunerOf(d, active_tuner[d])
         IN  /\ RfInResWithout(d) = [rf_in_res EXCEPT ![n] = Drop(rf_in_res[n])]
             /\ TunerResWithout(d) = [tuner_res EXCEPT ![o] = Drop(tuner_res[o])]
             /\ LastOnRfIn(d) <=> RfInUsers(n) = {d}
             /\ LastOnTuner(d) <=> TunerUsers(o) = {d}
<1> DEFINE n == active_tuner[d]
           o == TunerOf(d, active_tuner[d])
<1>1. /\ ActiveRfIn(d) = n /\ HasRfIn(d)
      /\ n \in RfIns /\ o \in TunerIds
      /\ d \in RfInUsers(n) /\ d \in TunerUsers(o)
  BY ActiveRfInFacts
<1>2. RfInResWithout(d) = [rf_in_res EXCEPT ![n] = Drop(rf_in_res[n])]
  BY <1>1 DEF RfInResWithout
<1>3. TunerResWithout(d) = [tuner_res EXCEPT ![o] = Drop(tuner_res[o])]
  BY <1>1 DEF TunerResWithout
<1>4. /\ rf_in_res[n].use_count = Cardinality(RfInUsers(n))
      /\ tuner_res[o].use_count = Cardinality(TunerUsers(o))
  BY <1>1 DEF Core, UseCountsExact
<1>5. rf_in_res[n].use_count = 1 <=> RfInUsers(n) = {d}
  <2>1. IsFiniteSet(RfInUsers(n))
    BY UsersFinite
  <2>2. Cardinality(RfInUsers(n)) = 1 <=> RfInUsers(n) = {d}
    BY <1>1, <2>1, LastUser
  <2> QED
    BY <1>4, <2>2
<1>6. tuner_res[o].use_count = 1 <=> TunerUsers(o) = {d}
  <2>1. IsFiniteSet(TunerUsers(o))
    BY UsersFinite
  <2>2. Cardinality(TunerUsers(o)) = 1 <=> TunerUsers(o) = {d}
    BY <1>1, <2>1, LastUser
  <2> QED
    BY <1>4, <2>2
<1>7. rf_in[n].controlling_chip # None
  BY <1>1 DEF Core, PowerFollowsUse
<1>8. LastOnRfIn(d) <=> RfInUsers(n) = {d}
  BY <1>1, <1>5, <1>7 DEF LastOnRfIn
<1>9. LastOnTuner(d) <=> TunerUsers(o) = {d}
  BY <1>6 DEF LastOnTuner
<1> QED
  BY <1>2, <1>3, <1>8, <1>9

\* Leaving preserves the core of the invariant.
LEMMA ReleaseOK ==
  ASSUME Core, NEW d \in Demods, active_tuner[d] # None, Release(d)
  PROVE  Core'
<1> DEFINE n == active_tuner[d]
           o == TunerOf(d, active_tuner[d])
<1>1. /\ ActiveRfIn(d) = n /\ HasRfIn(d)
      /\ n \in RfIns /\ o \in TunerIds
      /\ d \in RfInUsers(n) /\ d \in TunerUsers(o)
  BY ActiveRfInFacts
<1>2. TypeCore /\ UseCountsExact /\ PowerFollowsUse /\ OwnersAgree
  BY DEF Core
<1>3. /\ \A r \in RfIns : RfInUsers(r)' = RfInUsers(r) \ {d}
      /\ \A t \in TunerIds : TunerUsers(t)' = TunerUsers(t) \ {d}
  <2>1. active_tuner' = [active_tuner EXCEPT ![d] = None]
    BY DEF Release
  <2>2. None \notin RfIns
    BY NoneIsNoRfIn
  <2>3. \A t \in TunerIds : t # TunerOf(d, None)
    BY <2>2 DEF TunerIds, TunerOf
  <2>4. active_tuner \in [Demods -> RfIns \cup {None}] /\ None \in RfIns \cup {None}
    BY <1>2 DEF TypeCore
  <2>5. /\ \A r \in RfIns :
             RfInUsers(r)' = IF r = None THEN RfInUsers(r) \cup {d}
                                         ELSE RfInUsers(r) \ {d}
        /\ \A t \in TunerIds :
             TunerUsers(t)' = IF t = TunerOf(d, None) THEN TunerUsers(t) \cup {d}
                                                      ELSE TunerUsers(t) \ {d}
    BY <2>1, <2>4, MoveUsers
  <2> QED
    BY <2>2, <2>3, <2>5
<1>4. \A r \in RfIns : r # n => RfInUsers(r)' = RfInUsers(r)
  BY <1>3 DEF RfInUsers
<1>5. \A t \in TunerIds : t # o => TunerUsers(t)' = TunerUsers(t)
  <2>1. \A t \in TunerIds : t # o => d \notin TunerUsers(t)
    BY DEF TunerUsers, TunerOf, TunerIds
  <2> QED
    BY <1>3, <2>1
<1>6. /\ ResOK(Drop(rf_in_res[n]), RfInUsers(n) \ {d})
      /\ RfInUsers(n) \ {d} # {} => Drop(rf_in_res[n]).owner = rf_in_res[n].owner
  <2>1. d \in RfInUsers(n) /\ ResOK(rf_in_res[n], RfInUsers(n))
    BY <1>1, CoreResOK
  <2> HIDE DEF n, o
  <2> QED
    BY <2>1, DropOK
<1>7. /\ ResOK(Drop(tuner_res[o]), TunerUsers(o) \ {d})
      /\ TunerUsers(o) \ {d} # {} => Drop(tuner_res[o]).owner = tuner_res[o].owner
  BY <1>1, CoreResOK, DropOK
<1>8. /\ rf_in_res' = [rf_in_res EXCEPT ![n] = Drop(rf_in_res[n])]
      /\ tuner_res' = [tuner_res EXCEPT ![o] = Drop(tuner_res[o])]
  BY WithoutFacts DEF Release
<1>9. TypeCore'
  <2>1. rf_in_res' \in [RfIns -> Reservation] /\ tuner_res' \in [TunerIds -> Reservation]
    BY <1>2, <1>6, <1>7, <1>8 DEF TypeCore, ResOK
  <2>2. rf_in' \in [RfIns -> [controlling_chip : Chips \cup {None},
                          voltage : Voltages, tone : Tones,
                          sec_configured : BOOLEAN, unicable_mode : BOOLEAN]]
    <3>1. rf_in[n] \in [controlling_chip : Chips \cup {None}, voltage : Voltages,
                        tone : Tones, sec_configured : BOOLEAN, unicable_mode : BOOLEAN]
      BY <1>1, <1>2 DEF TypeCore
    <3>2. [rf_in[n] EXCEPT !.voltage = "off", !.tone = "off",
                           !.controlling_chip = None, !.sec_configured = FALSE]
          \in [controlling_chip : Chips \cup {None}, voltage : Voltages,
               tone : Tones, sec_configured : BOOLEAN, unicable_mode : BOOLEAN]
      BY <3>1 DEF Voltages, Tones
    <3> QED
      BY <1>1, <1>2, <3>2 DEF TypeCore, Release, RfInWithout
  <2>3. tuner' \in [TunerIds -> [powered_on : BOOLEAN, active_rf_in : RfIns \cup {None}]]
    BY <1>1, <1>2 DEF TypeCore, Release, TunerWithout
  <2>4. lnb' \in [RfIns -> Voltages]
    BY <1>1, <1>2 DEF TypeCore, Release, LnbWithout, Voltages
  <2>5. /\ active_tuner' \in [Demods -> RfIns \cup {None}]
        /\ is_master' \in [Demods -> BOOLEAN]
    BY <1>2 DEF TypeCore, Release
  <2> QED
    BY <2>1, <2>2, <2>3, <2>4, <2>5 DEF TypeCore
<1>10. UseCountsExact'
  <2>1. ASSUME NEW r \in RfIns PROVE rf_in_res'[r].use_count = Cardinality(RfInUsers(r)')
    <3>1. CASE r = n
      BY <1>2, <1>3, <1>6, <1>8, <3>1 DEF TypeCore, ResOK
    <3>2. CASE r # n
      BY <1>2, <1>3, <1>4, <1>8, <3>2 DEF TypeCore, UseCountsExact
    <3> QED
      BY <3>1, <3>2
  <2>2. ASSUME NEW t \in TunerIds PROVE tuner_res'[t].use_count = Cardinality(TunerUsers(t)')
    <3>1. CASE t = o
      BY <1>2, <1>3, <1>7, <1>8, <3>1 DEF TypeCore, ResOK
    <3>2. CASE t # o
      BY <1>2, <1>3, <1>5, <1>8, <3>2 DEF TypeCore, UseCountsExact
    <3> QED
      BY <3>1, <3>2
  <2> QED
    BY <2>1, <2>2 DEF UseCountsExact
<1>11. PowerFollowsUse'
  <2>1. ASSUME NEW r \in RfIns
        PROVE  IF RfInUsers(r)' = {}
                 THEN rf_in_res'[r] = Free /\ rf_in'[r].controlling_chip = None
                                           /\ rf_in'[r].voltage = "off"
                 ELSE rf_in'[r].controlling_chip # None
    <3>1. CASE r # n
      <4>1. rf_in'[r] = rf_in[r] /\ rf_in_res'[r] = rf_in_res[r]
        BY <1>1, <1>2, <1>8, <3>1 DEF Release, RfInWithout, TypeCore
      <4> QED
        BY <1>2, <1>3, <1>4, <3>1, <4>1 DEF PowerFollowsUse
    <3>2. CASE r = n /\ RfInUsers(n) = {d}
      BY <1>1, <1>2, <1>3, <1>6, <1>8, <3>2, WithoutFacts
      DEF Release, RfInWithout, TypeCore, ResOK
    <3>3. CASE r = n /\ RfInUsers(n) # {d}
      <4>1. RfInUsers(r)' # {} /\ rf_in'[r] = rf_in[r]
        BY <1>1, <1>3, <3>3, WithoutFacts DEF Release, RfInWithout
      <4> QED
        BY <1>1, <1>2, <3>3, <4>1 DEF PowerFollowsUse
    <3> QED
      BY <3>1, <3>2, <3>3
  <2>2. ASSUME NEW t \in TunerIds
        PROVE  IF TunerUsers(t)' = {}
                 THEN tuner_res'[t] = Free /\ tuner'[t].active_rf_in = None
                                           /\ ~tuner'[t].powered_on
                 ELSE tuner'[t].powered_on /\ tuner'[t].active_rf_in = t[2]
    <3>1. CASE t # o
      <4>1. tuner'[t] = tuner[t] /\ tuner_res'[t] = tuner_res[t]
        BY <1>1, <1>2, <1>8, <3>1 DEF Release, TunerWithout, TypeCore
      <4> QED
        BY <1>2, <1>3, <1>5, <3>1, <4>1 DEF PowerFollowsUse
    <3>2. CASE t = o /\ TunerUsers(o) = {d}
      BY <1>1, <1>2, <1>3, <1>7, <1>8, <3>2, WithoutFacts
      DEF Release, TunerWithout, TypeCore, ResOK
    <3>3. CASE t = o /\ TunerUsers(o) # {d}
      <4>1. TunerUsers(t)' # {} /\ tuner'[t] = tuner[t]
        BY <1>1, <1>3, <3>3, WithoutFacts DEF Release, TunerWithout
      <4> QED
        BY <1>1, <1>2, <3>3, <4>1 DEF PowerFollowsUse
    <3> QED
      BY <3>1, <3>2, <3>3
  <2> QED
    BY <2>1, <2>2 DEF PowerFollowsUse
<1>12. OwnersAgree'
  <2> SUFFICES ASSUME NEW t \in TunerIds, TunerUsers(t)' # {}
               PROVE  tuner_res'[t].owner = rf_in_res'[t[2]].owner
    BY DEF OwnersAgree
  <2>1. t[2] \in RfIns
    BY DEF TunerIds
  <2>2. TunerUsers(t) # {} /\ tuner_res[t].owner = rf_in_res[t[2]].owner
    BY <1>2, <1>3 DEF OwnersAgree
  <2>3. tuner_res'[t].owner = tuner_res[t].owner
    BY <1>2, <1>3, <1>7, <1>8 DEF TypeCore
  <2>4. TunerUsers(t) \ {d} \subseteq RfInUsers(t[2]) \ {d}
    BY DEF TunerUsers, RfInUsers
  <2>5. rf_in_res'[t[2]].owner = rf_in_res[t[2]].owner
    BY <1>2, <1>3, <1>6, <1>8, <2>1, <2>4 DEF TypeCore
  <2> QED
    BY <2>2, <2>3, <2>5
<1> QED
  BY <1>9, <1>10, <1>11, <1>12 DEF Core

\* A request is granted only if no other application is involved.
LEMMA GrantedOwner ==
  ASSUME Core, NEW d \in Demods, NEW ic \in Request, NEW legacy \in BOOLEAN,
         Granted(d, ic, legacy)
  PROVE  /\ RfInUsers(ic.rf_in) # {} => rf_in_res[ic.rf_in].owner = ic.owner
         /\ TunerUsers(TunerOf(d, ic.rf_in)) # {} =>
              tuner_res[TunerOf(d, ic.rf_in)].owner = ic.owner
<1> DEFINE x == ic.rf_in
           n == TunerOf(d, ic.rf_in)
<1>1. ~OwnedByOther(d, ic)
  BY DEF Granted, Verdict
<1>2. x \in RfIns /\ n \in TunerIds
  BY ConstantsAssumption DEF Request, TunerOf, TunerIds
<1>3. RfInUsers(x) # {} => rf_in_res[x].use_count > 0
  <2>1. /\ rf_in_res[x].use_count = Cardinality(RfInUsers(x))
        /\ IsFiniteSet(RfInUsers(x))
    BY <1>2, CoreResOK DEF ResOK
  <2>2. Cardinality(RfInUsers(x)) \in Nat
        /\ (Cardinality(RfInUsers(x)) = 0 => RfInUsers(x) = {})
    BY <2>1, FS_CardinalityType, FS_EmptySet
  <2> QED
    BY <2>1, <2>2
<1>4. TunerUsers(n) # {} => tuner_res[n].use_count > 0
  <2>1. /\ tuner_res[n].use_count = Cardinality(TunerUsers(n))
        /\ IsFiniteSet(TunerUsers(n))
    BY <1>2, CoreResOK DEF ResOK
  <2>2. Cardinality(TunerUsers(n)) \in Nat
        /\ (Cardinality(TunerUsers(n)) = 0 => TunerUsers(n) = {})
    BY <2>1, FS_CardinalityType, FS_EmptySet
  <2> QED
    BY <2>1, <2>2
<1> QED
  BY <1>1, <1>3, <1>4 DEF OwnedByOther

\* The reservations after a granted request, element by element.
LEMMA WithFacts ==
  ASSUME Core, NEW d \in Demods, NEW ic \in Request, NEW master \in BOOLEAN
  PROVE  LET o == TunerOf(d, active_tuner[d])
             n == TunerOf(d, ic.rf_in)
             same == active_tuner[d] = ic.rf_in
         IN  /\ RfInResWith(d, ic, master) =
                  [r \in RfIns |->
                     IF r = ic.rf_in THEN Take(rf_in_res[r], ic, same, master)
                     ELSE IF r = active_tuner[d] THEN Drop(rf_in_res[r])
                     ELSE rf_in_res[r]]
             /\ TunerResWith(d, ic, master) =
                  [t \in TunerIds |->
                     IF t = n THEN Take(tuner_res[t], ic, same, master)
                     ELSE IF active_tuner[d] # None /\ t = o THEN Drop(tuner_res[t])
                     ELSE tuner_res[t]]
<1> DEFINE x == ic.rf_in
           o == TunerOf(d, active_tuner[d])
           n == TunerOf(d, ic.rf_in)
<1>1. /\ x \in RfIns /\ n \in TunerIds
      /\ rf_in_res \in [RfIns -> Reservation] /\ tuner_res \in [TunerIds -> Reservation]
  BY ConstantsAssumption DEF Request, TunerOf, TunerIds, Core, TypeCore
<1>2. /\ ActiveRfIn(d) = active_tuner[d]
      /\ SameRfIn(d, ic) <=> active_tuner[d] = x
      /\ SameTuner(d, ic) <=> active_tuner[d] = x
      /\ HasRfIn(d) <=> active_tuner[d] # None
      /\ active_tuner[d] # None => active_tuner[d] \in RfIns /\ o \in TunerIds
  BY ActiveRfInFacts DEF SameRfIn, SameTuner
<1>3. o = n <=> active_tuner[d] = x
  BY DEF TunerOf
<1>4. None \notin RfIns
  BY NoneIsNoRfIn
<1>5. CASE active_tuner[d] = x
  <2>1. RfInResWith(d, ic, master) =
          [rf_in_res EXCEPT ![x] = Take(rf_in_res[x], ic, TRUE, master)]
    BY <1>1, <1>2, <1>5 DEF RfInResWith
  <2>2. TunerResWith(d, ic, master) =
          [tuner_res EXCEPT ![n] = Take(tuner_res[n], ic, TRUE, master)]
    BY <1>1, <1>2, <1>5 DEF TunerResWith
  <2> QED
    BY <1>1, <1>3, <1>5, <2>1, <2>2
<1>6. CASE active_tuner[d] # x /\ active_tuner[d] # None
  <2>1. RfInResWith(d, ic, master) =
          [[rf_in_res EXCEPT ![active_tuner[d]] = Drop(rf_in_res[active_tuner[d]])]
             EXCEPT ![x] = Take(rf_in_res[x], ic, FALSE, master)]
    <3>1. RfInResWithout(d) =
            [rf_in_res EXCEPT ![active_tuner[d]] = Drop(rf_in_res[active_tuner[d]])]
      BY <1>6, WithoutFacts
    <3> QED
      BY <1>1, <1>2, <1>6, <3>1 DEF RfInResWith, Take
  <2>2. TunerResWith(d, ic, master) =
          [[tuner_res EXCEPT ![o] = Drop(tuner_res[o])]
             EXCEPT ![n] = Take(tuner_res[n], ic, FALSE, master)]
    <3>1. TunerResWithout(d) = [tuner_res EXCEPT ![o] = Drop(tuner_res[o])]
      BY <1>6, WithoutFacts
    <3> QED
      BY <1>1, <1>2, <1>3, <1>6, <3>1 DEF TunerResWith, Take
  <2> QED
    BY <1>1, <1>2, <1>3, <1>6, <2>1, <2>2
<1>7. CASE active_tuner[d] = None
  <2>1. RfInResWith(d, ic, master) =
          [rf_in_res EXCEPT ![x] = Take(rf_in_res[x], ic, FALSE, master)]
    BY <1>1, <1>2, <1>4, <1>7 DEF RfInResWith, RfInResWithout, Take
  <2>2. TunerResWith(d, ic, master) =
          [tuner_res EXCEPT ![n] = Take(tuner_res[n], ic, FALSE, master)]
    BY <1>1, <1>2, <1>4, <1>7 DEF TunerResWith, TunerResWithout, Take
  <2> QED
    BY <1>1, <1>4, <1>7, <2>1, <2>2
<1> QED
  BY <1>5, <1>6, <1>7

RfInType == [controlling_chip : Chips \cup {None}, voltage : Voltages, tone : Tones,
             sec_configured : BOOLEAN, unicable_mode : BOOLEAN]
TunerType == [powered_on : BOOLEAN, active_rf_in : RfIns \cup {None}]

\* The rf_ins after demod d has moved to rf_in x.
RfInsFollow(new, d, x) ==
  /\ new \in [RfIns -> RfInType]
  /\ new[x].controlling_chip # None
  /\ \A r \in RfIns : r # x /\ r # active_tuner[d] => new[r] = rf_in[r]
  /\ (active_tuner[d] # None /\ active_tuner[d] # x) =>
       IF RfInUsers(active_tuner[d]) = {d}
         THEN /\ new[active_tuner[d]].controlling_chip = None
              /\ new[active_tuner[d]].voltage = "off"
         ELSE new[active_tuner[d]] = rf_in[active_tuner[d]]

\* The rf_ins after a granted request, element by element.
LEMMA RfInWithFacts ==
  ASSUME Core, NEW d \in Demods, NEW ic \in Request, NEW master \in BOOLEAN,
         NEW ok \in BOOLEAN, NEW sec_ready \in BOOLEAN
  PROVE  RfInsFollow(RfInWith(d, ic, master, ok, sec_ready), d, ic.rf_in)
<1> DEFINE x == ic.rf_in
           a == active_tuner[d]
           base == IF SameRfIn(d, ic) THEN rf_in ELSE RfInWithout(d)
           new == RfInWith(d, ic, master, ok, sec_ready)
<1>1. /\ x \in RfIns /\ ic.unicable_mode \in BOOLEAN
      /\ rf_in \in [RfIns -> RfInType] /\ ChipOf[d] \in Chips /\ None \notin Chips
  BY ConstantsAssumption DEF Request, Core, TypeCore, RfInType
<1>2. /\ ActiveRfIn(d) = a
      /\ SameRfIn(d, ic) <=> a = x
      /\ HasRfIn(d) <=> a # None
      /\ a # None => a \in RfIns
  BY ActiveRfInFacts DEF SameRfIn
<1>3. a # None => (LastOnRfIn(d) <=> RfInUsers(a) = {d})
  BY WithoutFacts
<1>4. a = None => ~LastOnRfIn(d)
  BY <1>2 DEF LastOnRfIn
<1>5. /\ base \in [RfIns -> RfInType]
      /\ base[x] = rf_in[x]
      /\ \A r \in RfIns : r # a => base[r] = rf_in[r]
      /\ (a # None /\ a # x) =>
           IF RfInUsers(a) = {d}
             THEN base[a].controlling_chip = None /\ base[a].voltage = "off"
             ELSE base[a] = rf_in[a]
  <2>1. CASE SameRfIn(d, ic) \/ ~LastOnRfIn(d)
    <3>1. base = rf_in
      BY <2>1 DEF RfInWithout
    <3> QED
      BY <1>1, <1>2, <1>3, <2>1, <3>1
  <2>2. CASE ~SameRfIn(d, ic) /\ LastOnRfIn(d)
    <3> DEFINE off == [rf_in[a] EXCEPT !.voltage = "off", !.tone = "off",
                                       !.controlling_chip = None, !.sec_configured = FALSE]
    <3>1. a # None /\ a # x /\ a \in RfIns /\ RfInUsers(a) = {d}
      BY <1>2, <1>3, <1>4, <2>2
    <3>2. base = [rf_in EXCEPT ![a] = off]
      BY <1>2, <2>2 DEF RfInWithout
    <3>3. rf_in[a] \in RfInType
      BY <1>1, <3>1
    <3>4. off \in RfInType /\ off.controlling_chip = None /\ off.voltage = "off"
      BY <3>3 DEF RfInType, Voltages, Tones
    <3> HIDE DEF off, base
    <3> QED
      BY <1>1, <3>1, <3>2, <3>4
  <2> QED
    BY <2>1, <2>2
<1>6. PICK rec : /\ new = [base EXCEPT ![x] = rec]
                 /\ rec \in RfInType /\ rec.controlling_chip # None
  <2> DEFINE unclaimed == base[x].controlling_chip = None
             rec == [controlling_chip |-> IF unclaimed THEN ChipOf[d]
                                                       ELSE base[x].controlling_chip,
                     voltage |-> IF unclaimed THEN "off" ELSE base[x].voltage,
                     tone |-> IF unclaimed THEN "off" ELSE base[x].tone,
                     sec_configured |-> (ok /\ sec_ready)
                                        \/ (~master /\ base[x].sec_configured),
                     unicable_mode |-> IF ok /\ master THEN ic.unicable_mode
                                                       ELSE base[x].unicable_mode]
  <2>1. new = [base EXCEPT ![x] = rec]
    BY DEF RfInWith
  <2>2. base[x] \in RfInType
    BY <1>1, <1>5
  <2> HIDE DEF base
  <2>3. rec \in RfInType /\ rec.controlling_chip # None
    BY <1>1, <2>2 DEF RfInType, Voltages, Tones
  <2> HIDE DEF rec
  <2> QED
    BY <2>1, <2>3
<1> HIDE DEF base, new
<1>7. /\ new \in [RfIns -> RfInType]
      /\ new[x].controlling_chip # None
      /\ \A r \in RfIns : r # x => new[r] = base[r]
  BY <1>1, <1>5, <1>6
<1> QED
  BY <1>1, <1>2, <1>5, <1>7 DEF new, RfInsFollow

\* The tuners after a granted request, element by element.
LEMMA TunerWithFacts ==
  ASSUME Core, NEW d \in Demods, NEW ic \in Request
  PROVE  LET n == TunerOf(d, ic.rf_in)
             o == TunerOf(d, active_tuner[d])
             new == TunerWith(d, ic)
         IN  /\ new \in [TunerIds -> TunerType]
             /\ new[n].powered_on /\ new[n].active_rf_in = ic.rf_in
             /\ \A t \in TunerIds : t # n /\ t # o => new[t] = tuner[t]
             /\ (active_tuner[d] # None /\ active_tuner[d] # ic.rf_in) =>
                  IF TunerUsers(o) = {d}
                    THEN new[o].active_rf_in = None /\ ~new[o].powered_on
                    ELSE new[o] = tuner[o]
<1> DEFINE x == ic.rf_in
           a == active_tuner[d]
           n == TunerOf(d, ic.rf_in)
           o == TunerOf(d, active_tuner[d])
           base == IF SameTuner(d, ic) THEN tuner ELSE TunerWithout(d)
           standby == [powered_on |-> FALSE, active_rf_in |-> None]
           rec == [powered_on |-> TRUE, active_rf_in |-> x]
           new == TunerWith(d, ic)
<1>1. /\ x \in RfIns /\ n \in TunerIds /\ n[2] = x
      /\ tuner \in [TunerIds -> TunerType]
  BY ConstantsAssumption DEF Request, Core, TypeCore, TunerType, TunerOf, TunerIds
<1>2. /\ SameTuner(d, ic) <=> a = x
      /\ a # None => a \in RfIns /\ o \in TunerIds
      /\ o = n <=> a = x
  BY ActiveRfInFacts DEF SameTuner, TunerOf
<1>3. a # None => (LastOnTuner(d) <=> TunerUsers(o) = {d})
  BY WithoutFacts
<1>4. tuner[n].active_rf_in \in {None, x}
  BY <1>1 DEF Core, PowerFollowsUse
<1>5. /\ base \in [TunerIds -> TunerType]
      /\ base[n] = tuner[n]
      /\ \A t \in TunerIds : t # o => base[t] = tuner[t]
      /\ (a # None /\ a # x) =>
           IF TunerUsers(o) = {d} THEN base[o] = standby ELSE base[o] = tuner[o]
  <2>1. CASE SameTuner(d, ic) \/ ~LastOnTuner(d)
    <3>1. base = tuner
      BY <2>1 DEF TunerWithout
    <3> QED
      BY <1>1, <1>2, <1>3, <2>1, <3>1
  <2>2. CASE ~SameTuner(d, ic) /\ LastOnTuner(d)
    <3>1. a # None /\ a # x /\ o \in TunerIds /\ o # n /\ TunerUsers(o) = {d}
      BY <1>2, <1>3, <2>2 DEF LastOnTuner
    <3>2. base = [tuner EXCEPT ![o] = standby]
      BY <2>2 DEF TunerWithout
    <3>3. standby \in TunerType
      BY DEF TunerType
    <3> HIDE DEF standby, base, o, n
    <3> QED
      BY <1>1, <3>1, <3>2, <3>3
  <2> QED
    BY <2>1, <2>2
<1>6. new = [base EXCEPT ![n] = rec]
  <2>1. base[n].active_rf_in \in {None, x}
    BY <1>4, <1>5
  <2> QED
    BY <2>1 DEF TunerWith
<1>7. rec \in TunerType /\ rec.powered_on /\ rec.active_rf_in = x
  BY <1>1 DEF TunerType
<1> HIDE DEF base, new, rec, o, n
<1>8. /\ new \in [TunerIds -> TunerType]
      /\ new[n] = rec
      /\ \A t \in TunerIds : t # n => new[t] = base[t]
  BY <1>1, <1>5, <1>6, <1>7
<1>9. (a # None /\ a # x) =>
        IF TunerUsers(o) = {d} THEN new[o] = standby ELSE new[o] = tuner[o]
  BY <1>2, <1>5, <1>8
<1>10. \A t \in TunerIds : t # n /\ t # o => new[t] = tuner[t]
  BY <1>5, <1>8
<1> QED
  BY <1>7, <1>8, <1>9, <1>10 DEF new, n, o

\* Steps that leave the reservations and the rf_ins alone.
LEMMA CoreStutter ==
  ASSUME Core, UNCHANGED res_vars, lnb' \in [RfIns -> Voltages]
  PROVE  Core'
BY DEF res_vars, Core, TypeCore, UseCountsExact, PowerFollowsUse, OwnersAgree,
       TunerUsers, RfInUsers

\* A selection, granted or not, preserves the core of the invariant.
LEMMA SelectOK ==
  ASSUME Core, NEW d \in Demods, NEW ic \in Request, NEW legacy \in BOOLEAN,
         NEW hwErr \in BOOLEAN, NEW sec_ready \in BOOLEAN,
         Select(d, ic, legacy, hwErr, sec_ready)
  PROVE  Core'
<1>1. CASE ~Granted(d, ic, legacy)
  <2>1. UNCHANGED <<res_vars, lnb>>
    BY <1>1 DEF Select
  <2> QED
    BY <2>1, CoreStutter DEF Core, TypeCore
<1>2. CASE Granted(d, ic, legacy)
  <2> DEFINE x == ic.rf_in
             a == active_tuner[d]
             n == TunerOf(d, ic.rf_in)
             o == TunerOf(d, active_tuner[d])
             master == WillBeMaster(d, ic)
             same == active_tuner[d] = ic.rf_in
  <2>1. /\ x \in RfIns /\ n \in TunerIds /\ n[2] = x
        /\ master \in BOOLEAN /\ (~hwErr) \in BOOLEAN
        /\ None \notin RfIns
    BY ConstantsAssumption, NoneIsNoRfIn DEF Request, TunerOf, TunerIds, WillBeMaster
  <2>2. /\ a # None => a \in RfIns /\ o \in TunerIds /\ o[2] = a
                       /\ d \in RfInUsers(a) /\ d \in TunerUsers(o)
        /\ o = n <=> a = x
    BY ActiveRfInFacts DEF TunerOf
  <2>3. TypeCore /\ UseCountsExact /\ PowerFollowsUse /\ OwnersAgree
    BY DEF Core
  <2>4. /\ \A r \in RfIns : RfInUsers(r)' = IF r = x THEN RfInUsers(r) \cup {d}
                                                     ELSE RfInUsers(r) \ {d}
        /\ \A t \in TunerIds : TunerUsers(t)' = IF t = n THEN TunerUsers(t) \cup {d}
                                                         ELSE TunerUsers(t) \ {d}
    <3>1. active_tuner' = [active_tuner EXCEPT ![d] = x]
      BY <1>2 DEF Select
    <3>2. active_tuner \in [Demods -> RfIns \cup {None}] /\ x \in RfIns \cup {None}
      BY <2>1, <2>3 DEF TypeCore
    <3> QED
      BY <3>1, <3>2, MoveUsers
  <2>5. /\ \A r \in RfIns : r # x /\ r # a => RfInUsers(r)' = RfInUsers(r)
        /\ \A t \in TunerIds : t # n /\ t # o => TunerUsers(t)' = TunerUsers(t)
    <3>1. \A r \in RfIns : r # a => d \notin RfInUsers(r)
      BY DEF RfInUsers
    <3>2. \A t \in TunerIds : t # o => d \notin TunerUsers(t)
      BY DEF TunerUsers, TunerOf, TunerIds
    <3> QED
      BY <2>4, <3>1, <3>2
  <2>6. /\ rf_in_res' = RfInResWith(d, ic, master)
        /\ tuner_res' = TunerResWith(d, ic, master)
        /\ rf_in' = RfInWith(d, ic, master, ~hwErr, sec_ready)
        /\ tuner' = TunerWith(d, ic)
    BY <1>2 DEF Select
  <2>7. /\ ResOK(Take(rf_in_res[x], ic, same, master), RfInUsers(x) \cup {d})
        /\ Take(rf_in_res[x], ic, same, master).owner = ic.owner
    <3>1. ResOK(rf_in_res[x], RfInUsers(x)) /\ same \in BOOLEAN
      BY <2>1, CoreResOK
    <3>2. same <=> d \in RfInUsers(x)
      BY DEF RfInUsers
    <3>3. RfInUsers(x) # {} => rf_in_res[x].owner = ic.owner
      BY <1>2, GrantedOwner
    <3>4. master \in BOOLEAN
      BY <2>1
    <3> HIDE DEF x, a, n, o, same, master
    <3> QED
      BY <3>1, <3>2, <3>3, <3>4, TakeOK
  <2>8. /\ ResOK(Take(tuner_res[n], ic, same, master), TunerUsers(n) \cup {d})
        /\ Take(tuner_res[n], ic, same, master).owner = ic.owner
    <3>1. ResOK(tuner_res[n], TunerUsers(n)) /\ same \in BOOLEAN
      BY <2>1, CoreResOK
    <3>2. same <=> d \in TunerUsers(n)
      BY DEF TunerUsers, TunerOf
    <3>3. TunerUsers(n) # {} => tuner_res[n].owner = ic.owner
      BY <1>2, GrantedOwner
    <3>4. master \in BOOLEAN
      BY <2>1
    <3> HIDE DEF x, a, n, o, same, master
    <3> QED
      BY <3>1, <3>2, <3>3, <3>4, TakeOK
  <2>9. a # None =>
          /\ ResOK(Drop(rf_in_res[a]), RfInUsers(a) \ {d})
          /\ RfInUsers(a) \ {d} # {} => Drop(rf_in_res[a]).owner = rf_in_res[a].owner
          /\ ResOK(Drop(tuner_res[o]), TunerUsers(o) \ {d})
          /\ TunerUsers(o) \ {d} # {} => Drop(tuner_res[o]).owner = tuner_res[o].owner
    <3> SUFFICES ASSUME a # None
                 PROVE  /\ ResOK(Drop(rf_in_res[a]), RfInUsers(a) \ {d})
                        /\ RfInUsers(a) \ {d} # {} =>
                             Drop(rf_in_res[a]).owner = rf_in_res[a].owner
                        /\ ResOK(Drop(tuner_res[o]), TunerUsers(o) \ {d})
                        /\ TunerUsers(o) \ {d} # {} =>
                             Drop(tuner_res[o]).owner = tuner_res[o].owner
      OBVIOUS
    <3>1. d \in RfInUsers(a) /\ ResOK(rf_in_res[a], RfInUsers(a))
      BY <2>2, CoreResOK
    <3>2. d \in TunerUsers(o) /\ ResOK(tuner_res[o], TunerUsers(o))
      BY <2>2, CoreResOK
    <3> HIDE DEF a, o
    <3>3. /\ ResOK(Drop(rf_in_res[a]), RfInUsers(a) \ {d})
          /\ RfInUsers(a) \ {d} # {} => Drop(rf_in_res[a]).owner = rf_in_res[a].owner
      BY <3>1, DropOK
    <3>4. /\ ResOK(Drop(tuner_res[o]), TunerUsers(o) \ {d})
          /\ TunerUsers(o) \ {d} # {} => Drop(tuner_res[o]).owner = tuner_res[o].owner
      BY <3>2, DropOK
    <3> QED
      BY <3>3, <3>4
  <2>10. /\ rf_in_res' =
              [r \in RfIns |->
                 IF r = x THEN Take(rf_in_res[r], ic, same, master)
                 ELSE IF r = a THEN Drop(rf_in_res[r]) ELSE rf_in_res[r]]
         /\ tuner_res' =
              [t \in TunerIds |->
                 IF t = n THEN Take(tuner_res[t], ic, same, master)
                 ELSE IF a # None /\ t = o THEN Drop(tuner_res[t]) ELSE tuner_res[t]]
    BY <2>1, <2>6, WithFacts
  <2> HIDE DEF x, a, n, o, master, same
  \* Every reservation is exact again.
  <2>11. /\ \A r \in RfIns : ResOK(rf_in_res'[r], RfInUsers(r)')
         /\ \A t \in TunerIds : ResOK(tuner_res'[t], TunerUsers(t)')
    <3>1. ASSUME NEW r \in RfIns PROVE ResOK(rf_in_res'[r], RfInUsers(r)')
      <4>1. CASE r = x
        BY <2>4, <2>7, <2>10, <4>1
      <4>2. CASE r # x /\ r = a
        BY <2>1, <2>4, <2>9, <2>10, <4>2
      <4>3. CASE r # x /\ r # a
        BY <2>5, <2>10, <4>3, CoreResOK
      <4> QED
        BY <4>1, <4>2, <4>3
    <3>2. ASSUME NEW t \in TunerIds PROVE ResOK(tuner_res'[t], TunerUsers(t)')
      <4>1. CASE t = n
        BY <2>4, <2>8, <2>10, <4>1
      <4>2. CASE t # n /\ t = o /\ a # None
        BY <2>4, <2>9, <2>10, <4>2
      <4>3. CASE t # n /\ t # o
        BY <2>5, <2>10, <4>3, CoreResOK
      <4>4. CASE t = o /\ a = None
        <5>1. t[2] \in RfIns /\ o[2] = a
          BY DEF TunerIds, o, a, TunerOf
        <5> QED
          BY <2>1, <4>4, <5>1
      <4> QED
        BY <4>1, <4>2, <4>3, <4>4
    <3> QED
      BY <3>1, <3>2
  <2>12. UseCountsExact'
    BY <2>11 DEF UseCountsExact, ResOK
  <2>13. /\ rf_in' \in [RfIns -> RfInType]
         /\ rf_in'[x].controlling_chip # None
         /\ \A r \in RfIns : r # x /\ r # a => rf_in'[r] = rf_in[r]
         /\ (a # None /\ a # x) =>
              IF RfInUsers(a) = {d}
                THEN rf_in'[a].controlling_chip = None /\ rf_in'[a].voltage = "off"
                ELSE rf_in'[a] = rf_in[a]
    <3> DEFINE ok == ~hwErr
    <3>1. ok \in BOOLEAN /\ rf_in' = RfInWith(d, ic, master, ok, sec_ready)
      BY <2>6
    <3>2. master \in BOOLEAN
      BY <2>1
    <3> HIDE DEF ok
    <3>3. RfInsFollow(RfInWith(d, ic, master, ok, sec_ready), d, ic.rf_in)
      BY <3>1, <3>2, RfInWithFacts
    <3> QED
      BY <3>1, <3>3 DEF RfInsFollow, x, a
  <2>14. /\ tuner' \in [TunerIds -> TunerType]
         /\ tuner'[n].powered_on /\ tuner'[n].active_rf_in = x
         /\ \A t \in TunerIds : t # n /\ t # o => tuner'[t] = tuner[t]
         /\ (a # None /\ a # x) =>
              IF TunerUsers(o) = {d}
                THEN tuner'[o].active_rf_in = None /\ ~tuner'[o].powered_on
                ELSE tuner'[o] = tuner[o]
    BY <2>6, TunerWithFacts DEF x, a, n, o
  <2>15. TypeCore'
    <3>1. rf_in_res' \in [RfIns -> Reservation] /\ tuner_res' \in [TunerIds -> Reservation]
      BY <2>10, <2>11 DEF ResOK
    <3>2. /\ active_tuner' \in [Demods -> RfIns \cup {None}]
          /\ is_master' \in [Demods -> BOOLEAN]
      BY <1>2, <2>1, <2>3 DEF Select, TypeCore, WillBeMaster, x
    <3>3. lnb' \in [RfIns -> Voltages]
      BY <1>2, <2>3 DEF Select, TypeCore, LnbWithout, Voltages
    <3> QED
      BY <2>13, <2>14, <3>1, <3>2, <3>3 DEF TypeCore, RfInType, TunerType
  <2>16. PowerFollowsUse'
    <3>1. ASSUME NEW r \in RfIns
          PROVE  IF RfInUsers(r)' = {}
                   THEN rf_in_res'[r] = Free /\ rf_in'[r].controlling_chip = None
                                             /\ rf_in'[r].voltage = "off"
                   ELSE rf_in'[r].controlling_chip # None
      <4>1. RfInUsers(r)' = {} => rf_in_res'[r] = Free
        BY <2>11 DEF ResOK
      <4>2. CASE r = x
        BY <2>4, <2>13, <4>1, <4>2
      <4>3. CASE r # x /\ r = a
        BY <2>1, <2>2, <2>3, <2>4, <2>13, <4>1, <4>3 DEF PowerFollowsUse
      <4>4. CASE r # x /\ r # a
        BY <2>3, <2>5, <2>13, <4>1, <4>4 DEF PowerFollowsUse
      <4> QED
        BY <4>2, <4>3, <4>4
    <3>2. ASSUME NEW t \in TunerIds
          PROVE  IF TunerUsers(t)' = {}
                   THEN tuner_res'[t] = Free /\ tuner'[t].active_rf_in = None
                                             /\ ~tuner'[t].powered_on
                   ELSE tuner'[t].powered_on /\ tuner'[t].active_rf_in = t[2]
      <4>1. TunerUsers(t)' = {} => tuner_res'[t] = Free
        BY <2>11 DEF ResOK
      <4>2. CASE t = n
        BY <2>1, <2>4, <2>14, <4>1, <4>2
      <4>3. CASE t # n /\ t = o /\ a # None
        BY <2>1, <2>2, <2>3, <2>4, <2>14, <4>1, <4>3 DEF PowerFollowsUse
      <4>4. CASE t # n /\ t # o
        BY <2>3, <2>5, <2>14, <4>1, <4>4 DEF PowerFollowsUse
      <4>5. CASE t = o /\ a = None
        <5>1. t[2] \in RfIns /\ o[2] = a
          BY DEF TunerIds, o, a, TunerOf
        <5> QED
          BY <2>1, <4>5, <5>1
      <4> QED
        BY <4>2, <4>3, <4>4, <4>5
    <3> QED
      BY <3>1, <3>2 DEF PowerFollowsUse
  <2>17. OwnersAgree'
    <3> SUFFICES ASSUME NEW t \in TunerIds, TunerUsers(t)' # {}
                 PROVE  tuner_res'[t].owner = rf_in_res'[t[2]].owner
      BY DEF OwnersAgree
    <3>1. t[2] \in RfIns
      BY DEF TunerIds
    <3>2. CASE t = n
      BY <2>1, <2>7, <2>8, <2>10, <3>1, <3>2
    <3>3. CASE t # n
      <4>1. /\ TunerUsers(t) \ {d} # {}
            /\ TunerUsers(t) \ {d} \subseteq RfInUsers(t[2]) \ {d}
        BY <2>4, <3>3 DEF TunerUsers, RfInUsers
      <4>2. tuner_res[t].owner = rf_in_res[t[2]].owner
        BY <2>3, <4>1 DEF OwnersAgree
      <4>3. tuner_res'[t].owner = tuner_res[t].owner
        BY <2>9, <2>10, <3>3, <4>1
      <4>4. CASE t[2] = x
        <5>1. rf_in_res[x].owner = ic.owner
          BY <1>2, <4>1, <4>4, GrantedOwner DEF x
        <5> QED
          BY <2>7, <2>10, <3>1, <4>2, <4>3, <4>4, <5>1
      <4>5. CASE t[2] # x
        <5>1. rf_in_res'[t[2]].owner = rf_in_res[t[2]].owner
          BY <2>1, <2>9, <2>10, <3>1, <4>1, <4>5
        <5> QED
          BY <4>2, <4>3, <5>1
      <4> QED
        BY <4>4, <4>5
    <3> QED
      BY <3>2, <3>3
  <2> QED
    BY <2>12, <2>15, <2>16, <2>17 DEF Core
<1> QED
  BY <1>1, <1>2

\* The requests of the callers.
LEMMA RequestTypes ==
  /\ RfInputControl \subseteq Request
  /\ \A d \in Demods, mode \in Modes,
        bits \in [voltage : {None, 0, 2}, tone : {None, 0, 1}] :
       ~(MultiswitchMode = "quattro" /\ (bits.voltage = None \/ bits.tone = None))
         => LegacyRequest(d, bits, mode) \in Request
<1>1. RfInputControl \subseteq Request
  BY ConstantsAssumption DEF RfInputControl, Request
<1>2. ASSUME NEW d \in Demods, NEW mode \in Modes,
             NEW bits \in [voltage : {None, 0, 2}, tone : {None, 0, 1}],
             ~(MultiswitchMode = "quattro" /\ (bits.voltage = None \/ bits.tone = None))
      PROVE  LegacyRequest(d, bits, mode) \in Request
  <2> DEFINE x == IF MultiswitchMode = "quattro" THEN bits.voltage + bits.tone
                                                 ELSE FixedLegacyRfIn[d]
  <2>1. CASE MultiswitchMode = "quattro"
    <3>1. bits.voltage \in {0, 2} /\ bits.tone \in {0, 1} /\ RfIns = 0..3
      BY <1>2, <2>1, ConstantsAssumption
    <3>2. bits.voltage + bits.tone \in 0..3
      BY <3>1
    <3> QED
      BY <2>1, <3>1, <3>2 DEF LegacyRequest, Request, LegacyOwner, NoOwner
  <2>2. CASE MultiswitchMode # "quattro"
    <3>1. FixedLegacyRfIn[d] \in RfIns
      BY ConstantsAssumption DEF FixedLegacyRfIn
    <3> QED
      BY <2>2, <3>1 DEF LegacyRequest, Request, LegacyOwner, NoOwner
  <2> QED
    BY <2>1, <2>2
<1> QED
  BY <1>1, <1>2

\* Selections by applications that know of no reservations.
LEMMA SelectLegacyOK ==
  ASSUME Core, NEW d \in Demods, NEW hwErr \in BOOLEAN, NEW sec_ready \in BOOLEAN,
         NEW bits \in [voltage : {None, 0, 2}, tone : {None, 0, 1}],
         SelectLegacy(d, bits, hwErr, sec_ready)
  PROVE  Core'
<1>1. CASE MultiswitchMode = "quattro" /\ (bits.voltage = None \/ bits.tone = None)
  <2>1. UNCHANGED <<res_vars, lnb>>
    BY <1>1 DEF SelectLegacy
  <2> QED
    BY <2>1, CoreStutter DEF Core, TypeCore
<1>2. CASE ~(MultiswitchMode = "quattro" /\ (bits.voltage = None \/ bits.tone = None))
  <2>1. PICK mode \in Modes :
          Select(d, LegacyRequest(d, bits, mode), TRUE, hwErr, sec_ready)
    BY <1>2 DEF SelectLegacy
  <2>2. LegacyRequest(d, bits, mode) \in Request
    BY <1>2, RequestTypes
  <2> QED
    BY <2>1, <2>2, SelectOK
<1> QED
  BY <1>1, <1>2

\* Steps that leave the reservations alone, and write only fields of an rf_in
\* in use that the core of the invariant does not speak of.
LEMMA RfInUpdateOK ==
  ASSUME Core, NEW r \in RfIns, RfInUsers(r) # {},
         NEW rec \in RfInType, rec.controlling_chip = rf_in[r].controlling_chip,
         rf_in' = [rf_in EXCEPT ![r] = rec], lnb' \in [RfIns -> Voltages],
         UNCHANGED <<rf_in_res, tuner_res, tuner, active_tuner, is_master>>
  PROVE  Core'
<1>1. TypeCore'
  BY DEF Core, TypeCore, RfInType
<1>2. /\ \A s : RfInUsers(s)' = RfInUsers(s)
      /\ \A t : TunerUsers(t)' = TunerUsers(t)
  BY DEF RfInUsers, TunerUsers
<1>3. UseCountsExact' /\ OwnersAgree'
  BY <1>2 DEF Core, UseCountsExact, OwnersAgree
<1>4. PowerFollowsUse'
  <2>1. \A s \in RfIns : s # r => rf_in'[s] = rf_in[s]
    BY DEF Core, TypeCore
  <2>2. rf_in'[r].controlling_chip = rf_in[r].controlling_chip
    BY DEF Core, TypeCore
  <2> QED
    BY <1>2, <2>1, <2>2 DEF Core, PowerFollowsUse
<1> QED
  BY <1>1, <1>3, <1>4 DEF Core

-----------------------------------------------------------------------------

PcType == {Idle} \cup [at : {"volt_gate", "volt_commit", "volt_hw"}, arg : Voltages]
                 \cup [at : {"tone_commit"}, arg : Tones]
BitsType == [voltage : {None, 0, 2}, tone : {None, 0, 1}]

LEMMA InitOK == Init => IInv
<1> SUFFICES ASSUME Init PROVE IInv
  OBVIOUS
<1>1. /\ \A r \in RfIns : RfInUsers(r) = {}
      /\ \A t \in TunerIds : TunerUsers(t) = {}
  <2>1. \A t \in TunerIds : t[2] \in RfIns
    BY DEF TunerIds
  <2> QED
    BY <2>1, NoneIsNoRfIn DEF Init, RfInUsers, TunerUsers
<1>2. Free \in Reservation /\ Free.use_count = 0
  BY DEF Free, Reservation, NoOwner, NoConfig
<1>3. TypeCore
  BY <1>2 DEF Init, TypeCore, Voltages, Tones
<1>4. UseCountsExact
  BY <1>1, <1>2, FS_EmptySet DEF Init, UseCountsExact
<1>5. PowerFollowsUse
  BY <1>1 DEF Init, PowerFollowsUse
<1>6. OwnersAgree
  BY <1>1 DEF OwnersAgree
<1>7. TypeRest
  BY DEF Init, TypeRest, NoBits
<1>8. CommitHasTuner
  BY DEF Init, CommitHasTuner, Idle
<1> QED
  BY <1>3, <1>4, <1>5, <1>6, <1>7, <1>8 DEF IInv, Core

\* One step of one demod.
LEMMA StepOK ==
  ASSUME IInv, Next
  PROVE  IInv'
<1>0. Core /\ TypeRest /\ CommitHasTuner /\ TypeCore
  BY DEF IInv, Core
<1>1. PICK d \in Demods :
    \/ \E ic \in RfInputControl, hwErr \in HwErrs : SetRfInput(d, ic, hwErr)
    \/ Sleep(d)
    \/ Tune(d)
    \/ \E re_tune \in BOOLEAN, hwErr \in HwErrs : TuneLegacy(d, re_tune, hwErr)
    \/ \E hwErr \in HwErrs : DiseqcLegacy(d, hwErr)
    \/ \E v \in VoltageRequests, hwErr \in HwErrs : SetVoltage(d, v, hwErr)
    \/ VoltageGate(d)
    \/ VoltageCommit(d)
    \/ VoltageHw(d)
    \/ \E t \in ToneRequests, hwErr \in HwErrs : SetTone(d, t, hwErr)
    \/ ToneCommit(d)
  BY DEF Next
<1>2. HwErrs \subseteq BOOLEAN /\ VoltageRequests \subseteq Voltages /\ ToneRequests \subseteq Tones
  BY ConstantsAssumption
<1>3. /\ quattro[d] \in BitsType
      /\ \A v \in Voltages : QuattroVoltage(d, v) \in BitsType
      /\ \A t \in Tones : QuattroTone(d, t) \in BitsType
  <2>1. quattro[d] \in BitsType
    BY <1>0 DEF TypeRest, BitsType
  <2> QED
    BY <2>1 DEF QuattroVoltage, QuattroTone, BitsType
<1>4. /\ ActiveRfIn(d) = active_tuner[d]
      /\ HasRfIn(d) <=> active_tuner[d] # None
      /\ active_tuner[d] # None => active_tuner[d] \in RfIns
                                   /\ RfInUsers(active_tuner[d]) # {}
  BY <1>0, ActiveRfInFacts
<1>5. lnb \in [RfIns -> Voltages] /\ active_tuner \in [Demods -> RfIns \cup {None}]
  BY <1>0 DEF TypeCore
\* A demod whose call is not past the gate may change its tuner freely.
<1>6. \A x : /\ pc[d].at \notin {"volt_commit", "volt_hw"}
             /\ active_tuner' = [active_tuner EXCEPT ![d] = x]
             /\ \/ UNCHANGED pc
                \/ \E v : Goto(d, "volt_gate", v)
                \/ \E t : Goto(d, "tone_commit", t)
             => CommitHasTuner'
  BY <1>0 DEF CommitHasTuner, Goto, TypeRest, TypeCore
<1>7. Idle.at \notin {"volt_commit", "volt_hw"}
  BY DEF Idle
<1>8. ASSUME NEW ic, NEW legacy, NEW hwErr, NEW sec_ready,
             Select(d, ic, legacy, hwErr, sec_ready)
      PROVE  \E x : active_tuner' = [active_tuner EXCEPT ![d] = x]
  <2>1. active_tuner = [active_tuner EXCEPT ![d] = active_tuner[d]]
    BY <1>5
  <2> QED
    BY <1>8, <2>1 DEF Select, res_vars
<1>9. ASSUME NEW bits, NEW hwErr, NEW sec_ready, SelectLegacy(d, bits, hwErr, sec_ready)
      PROVE  \E x : active_tuner' = [active_tuner EXCEPT ![d] = x]
  <2>1. active_tuner = [active_tuner EXCEPT ![d] = active_tuner[d]]
    BY <1>5
  <2> QED
    BY <1>8, <1>9, <2>1 DEF SelectLegacy, res_vars
<1>10. ASSUME NEW ic \in RfInputControl, NEW hwErr \in HwErrs, SetRfInput(d, ic, hwErr)
       PROVE  IInv'
  <2> DEFINE legacy == ic.config_id < 0
  <2>1. Select(d, ic, legacy, hwErr, FALSE)
    BY <1>10 DEF SetRfInput
  <2>a. legacy \in BOOLEAN /\ hwErr \in BOOLEAN
    BY <1>2
  <2>b. ic \in Request
    BY RequestTypes
  <2> HIDE DEF legacy
  <2>2. Core'
    BY <1>0, <2>1, <2>a, <2>b, SelectOK
  <2>3. TypeRest'
    BY <1>0, <1>10 DEF SetRfInput, TypeRest
  <2>4. CommitHasTuner'
    BY <1>6, <1>7, <1>8, <1>10, <2>1 DEF SetRfInput
  <2> QED
    BY <2>2, <2>3, <2>4 DEF IInv
<1>11. ASSUME Sleep(d) PROVE IInv'
  <2>1. Core'
    BY <1>0, <1>11, ReleaseOK DEF Sleep
  <2>2. TypeRest'
    BY <1>0, <1>11 DEF Sleep, Release, TypeRest, NoBits
  <2>3. CommitHasTuner'
    BY <1>6, <1>7, <1>11 DEF Sleep, Release
  <2> QED
    BY <2>1, <2>2, <2>3 DEF IInv
<1>12. ASSUME Tune(d) PROVE IInv'
  <2> DEFINE r == active_tuner[d]
             rec == [rf_in[r] EXCEPT !.sec_configured = TRUE]
  <2>1. r \in RfIns /\ RfInUsers(r) # {} /\ rf_in[r] \in RfInType
    BY <1>0, <1>4, <1>12 DEF Tune, TypeCore, RfInType
  <2>2. rec \in RfInType /\ rec.controlling_chip = rf_in[r].controlling_chip
    BY <2>1 DEF RfInType
  <2>3. rf_in' = [rf_in EXCEPT ![r] = rec]
    BY <1>4, <1>12 DEF Tune
  <2>4. lnb' \in [RfIns -> Voltages]
        /\ UNCHANGED <<rf_in_res, tuner_res, tuner, active_tuner, is_master>>
    BY <1>5, <1>12 DEF Tune
  <2> HIDE DEF rec, r
  <2>5. Core'
    BY <1>0, <2>1, <2>2, <2>3, <2>4, RfInUpdateOK
  <2>6. TypeRest' /\ CommitHasTuner'
    BY <1>0, <1>12 DEF Tune, TypeRest, CommitHasTuner
  <2> QED
    BY <2>5, <2>6 DEF IInv
<1>13. ASSUME NEW re_tune \in BOOLEAN, NEW hwErr \in HwErrs, TuneLegacy(d, re_tune, hwErr)
       PROVE  IInv'
  <2>1. SelectLegacy(d, quattro[d], hwErr, re_tune)
    BY <1>13 DEF TuneLegacy
  <2>2. Core'
    BY <1>0, <1>2, <1>3, <2>1, SelectLegacyOK DEF BitsType
  <2>3. TypeRest'
    BY <1>0, <1>13 DEF TuneLegacy, SelectLegacy, TypeRest
  <2>4. CommitHasTuner'
    BY <1>6, <1>7, <1>9, <1>13, <2>1 DEF TuneLegacy
  <2> QED
    BY <2>2, <2>3, <2>4 DEF IInv
<1>14. ASSUME NEW hwErr \in HwErrs, DiseqcLegacy(d, hwErr)
       PROVE  IInv'
  <2>1. SelectLegacy(d, quattro[d], hwErr, FALSE)
    BY <1>14 DEF DiseqcLegacy
  <2>2. Core'
    BY <1>0, <1>2, <1>3, <2>1, SelectLegacyOK DEF BitsType
  <2>3. TypeRest'
    BY <1>0, <1>14 DEF DiseqcLegacy, SelectLegacy, TypeRest
  <2>4. CommitHasTuner'
    BY <1>6, <1>7, <1>9, <1>14, <2>1 DEF DiseqcLegacy
  <2> QED
    BY <2>2, <2>3, <2>4 DEF IInv
<1>15. ASSUME NEW v \in VoltageRequests, NEW hwErr \in HwErrs, SetVoltage(d, v, hwErr)
       PROVE  IInv'
  <2> DEFINE bits == QuattroVoltage(d, v)
  <2>1. bits \in BitsType /\ v \in Voltages /\ hwErr \in BOOLEAN
    BY <1>2, <1>3
  <2>2. quattro' \in [Demods -> BitsType]
    BY <1>0, <1>15, <2>1 DEF SetVoltage, TypeRest, BitsType
  <2>3. pc[d].at \notin {"volt_commit", "volt_hw"}
    BY <1>7, <1>15 DEF SetVoltage
  <2> HIDE DEF bits
  <2>4. CASE SelectLegacy(d, bits, hwErr, FALSE) /\ Goto(d, "volt_gate", v)
    <3>1. Core'
      BY <1>0, <2>1, <2>4, SelectLegacyOK DEF BitsType
    <3>2. TypeRest'
      BY <1>0, <2>1, <2>2, <2>4 DEF SelectLegacy, Goto, TypeRest, BitsType
    <3>3. CommitHasTuner'
      BY <1>6, <1>9, <2>3, <2>4
    <3> QED
      BY <3>1, <3>2, <3>3 DEF IInv
  <2>5. CASE UNCHANGED <<res_vars, legacy_rf_in, lnb>>
             /\ (UNCHANGED pc \/ Goto(d, "volt_gate", v))
    <3>1. Core'
      BY <1>0, <1>5, <2>5, CoreStutter
    <3>2. TypeRest'
      BY <1>0, <2>1, <2>2, <2>5 DEF Goto, TypeRest, BitsType
    <3>3. CommitHasTuner'
      <4>1. active_tuner' = [active_tuner EXCEPT ![d] = active_tuner[d]]
        BY <1>5, <2>5 DEF res_vars
      <4> QED
        BY <1>6, <2>3, <2>5, <4>1
    <3> QED
      BY <3>1, <3>2, <3>3 DEF IInv
  <2> QED
    BY <1>15, <2>4, <2>5 DEF SetVoltage, bits
<1>16. ASSUME VoltageGate(d) PROVE IInv'
  <2>1. Core'
    BY <1>0, <1>5, <1>16, CoreStutter DEF VoltageGate
  <2>2. pc[d].arg \in Voltages
    BY <1>0, <1>16 DEF VoltageGate, TypeRest, Idle, Tones, Voltages
  <2>3. TypeRest'
    BY <1>0, <1>16, <2>2 DEF VoltageGate, Goto, Return, TypeRest
  <2>4. CommitHasTuner'
    BY <1>0, <1>4, <1>7, <1>16
    DEF VoltageGate, Goto, Return, CommitHasTuner, MayChangeVoltage, res_vars, TypeRest
  <2> QED
    BY <2>1, <2>3, <2>4 DEF IInv
<1>17. ASSUME VoltageCommit(d) PROVE IInv'
  <2> DEFINE r == active_tuner[d]
             v == pc[d].arg
             rec == [rf_in[r] EXCEPT !.voltage = v]
  <2>1. r \in RfIns /\ RfInUsers(r) # {} /\ rf_in[r] \in RfInType
    BY <1>0, <1>4, <1>17 DEF VoltageCommit, CommitHasTuner, TypeCore, RfInType
  <2>2. v \in Voltages
    BY <1>0, <1>17 DEF VoltageCommit, TypeRest, Idle, Tones, Voltages
  <2>3. rec \in RfInType /\ rec.controlling_chip = rf_in[r].controlling_chip
    BY <2>1, <2>2 DEF RfInType
  <2>4. lnb' \in [RfIns -> Voltages]
        /\ UNCHANGED <<rf_in_res, tuner_res, tuner, active_tuner, is_master>>
    BY <1>5, <1>17 DEF VoltageCommit
  <2>5. Core'
    <3>1. CASE UNCHANGED rf_in
      BY <1>0, <2>4, <3>1, CoreStutter DEF res_vars
    <3>2. CASE rf_in' = [rf_in EXCEPT ![r] = rec]
      <4> HIDE DEF rec, r
      <4> QED
        BY <1>0, <2>1, <2>3, <2>4, <3>2, RfInUpdateOK
    <3> QED
      BY <1>4, <1>17, <3>1, <3>2 DEF VoltageCommit
  <2>6. TypeRest'
    BY <1>0, <1>17, <2>2 DEF VoltageCommit, Goto, Return, TypeRest
  <2>7. CommitHasTuner'
    BY <1>0, <1>7, <1>17 DEF VoltageCommit, Goto, Return, CommitHasTuner, TypeRest
  <2> QED
    BY <2>5, <2>6, <2>7 DEF IInv
<1>18. ASSUME VoltageHw(d) PROVE IInv'
  <2>1. pc[d].arg \in Voltages
    BY <1>0, <1>18 DEF VoltageHw, TypeRest, Idle, Tones, Voltages
  <2>2. lnb' \in [RfIns -> Voltages]
    BY <1>5, <1>18, <2>1 DEF VoltageHw
  <2>3. Core'
    BY <1>0, <1>18, <2>2, CoreStutter DEF VoltageHw
  <2>4. TypeRest'
    BY <1>0, <1>18 DEF VoltageHw, Return, TypeRest
  <2>5. CommitHasTuner'
    BY <1>0, <1>7, <1>18 DEF VoltageHw, Return, CommitHasTuner, res_vars, TypeRest
  <2> QED
    BY <2>3, <2>4, <2>5 DEF IInv
<1>19. ASSUME NEW t \in ToneRequests, NEW hwErr \in HwErrs, SetTone(d, t, hwErr)
       PROVE  IInv'
  <2> DEFINE bits == QuattroTone(d, t)
  <2>1. bits \in BitsType /\ t \in Tones /\ hwErr \in BOOLEAN
    BY <1>2, <1>3
  <2>2. quattro' \in [Demods -> BitsType]
    BY <1>0, <1>19, <2>1 DEF SetTone, TypeRest, BitsType
  <2>3. pc[d].at \notin {"volt_commit", "volt_hw"} /\ Goto(d, "tone_commit", t)
    BY <1>7, <1>19 DEF SetTone
  <2> HIDE DEF bits
  <2>4. CASE SelectLegacy(d, bits, hwErr, FALSE)
    <3>1. Core'
      BY <1>0, <2>1, <2>4, SelectLegacyOK DEF BitsType
    <3>2. TypeRest'
      BY <1>0, <2>1, <2>2, <2>3, <2>4 DEF SelectLegacy, Goto, TypeRest, BitsType
    <3>3. CommitHasTuner'
      BY <1>6, <1>9, <2>3, <2>4
    <3> QED
      BY <3>1, <3>2, <3>3 DEF IInv
  <2>5. CASE UNCHANGED <<res_vars, legacy_rf_in, lnb>>
    <3>1. Core'
      BY <1>0, <1>5, <2>5, CoreStutter
    <3>2. TypeRest'
      BY <1>0, <2>1, <2>2, <2>3, <2>5 DEF Goto, TypeRest, BitsType
    <3>3. CommitHasTuner'
      <4>1. active_tuner' = [active_tuner EXCEPT ![d] = active_tuner[d]]
        BY <1>5, <2>5 DEF res_vars
      <4> QED
        BY <1>6, <2>3, <4>1
    <3> QED
      BY <3>1, <3>2, <3>3 DEF IInv
  <2> QED
    BY <1>19, <2>4, <2>5 DEF SetTone, bits
<1>20. ASSUME ToneCommit(d) PROVE IInv'
  <2> DEFINE r == active_tuner[d]
             rec == [rf_in[r] EXCEPT !.tone = pc[d].arg]
  <2>1. pc[d].arg \in Tones
    BY <1>0, <1>20 DEF ToneCommit, TypeRest, Idle
  <2>2. lnb' \in [RfIns -> Voltages]
        /\ UNCHANGED <<rf_in_res, tuner_res, tuner, active_tuner, is_master>>
    BY <1>5, <1>20 DEF ToneCommit
  <2>3. Core'
    <3>1. CASE UNCHANGED rf_in
      BY <1>0, <2>2, <3>1, CoreStutter DEF res_vars
    <3>2. CASE HasRfIn(d) /\ rf_in' = [rf_in EXCEPT ![r] = rec]
      <4>1. r \in RfIns /\ RfInUsers(r) # {} /\ rf_in[r] \in RfInType
        BY <1>0, <1>4, <3>2 DEF TypeCore, RfInType
      <4>2. rec \in RfInType /\ rec.controlling_chip = rf_in[r].controlling_chip
        BY <2>1, <4>1 DEF RfInType
      <4> HIDE DEF rec, r
      <4> QED
        BY <1>0, <2>2, <3>2, <4>1, <4>2, RfInUpdateOK
    <3> QED
      BY <1>4, <1>20, <3>1, <3>2 DEF ToneCommit
  <2>4. TypeRest'
    BY <1>0, <1>20 DEF ToneCommit, Return, TypeRest
  <2>5. CommitHasTuner'
    BY <1>0, <1>7, <1>20 DEF ToneCommit, Return, CommitHasTuner, TypeRest
  <2> QED
    BY <2>3, <2>4, <2>5 DEF IInv
<1> QED
  BY <1>1, <1>10, <1>11, <1>12, <1>13, <1>14, <1>15, <1>16, <1>17, <1>18, <1>19, <1>20

LEMMA StutterOK == IInv /\ UNCHANGED vars => IInv'
BY DEF vars, IInv, Core, TypeCore, TypeRest, CommitHasTuner, UseCountsExact,
       PowerFollowsUse, OwnersAgree, TunerUsers, RfInUsers

LEMMA Invariance == Spec => []IInv
<1>1. IInv /\ [Next]_vars => IInv'
  BY StepOK, StutterOK
<1> QED
  BY InitOK, <1>1, PTL DEF Spec

-----------------------------------------------------------------------------
(***************************************************************************)
(* The theorems about every card, with or without errors of the hardware.  *)
(***************************************************************************)

\* Every variable of the driver keeps its type: in particular no use count of
\* reserve_tuner_and_rf_in_ ever becomes negative.
THEOREM TypeCorrect == Spec => []TypeOK
<1>1. IInv => TypeOK
  BY DEF IInv, Core, TypeCore, TypeRest, TypeOK
<1> QED
  BY <1>1, Invariance, PTL

\* The use counts of reserve_tuner_and_rf_in_ equal the numbers of attached
\* demods, on any card and after any sequence of calls.
THEOREM UseCountsAlwaysExact == Spec => []UseCountsExact
<1>1. IInv => UseCountsExact
  BY DEF IInv, Core
<1> QED
  BY <1>1, Invariance, PTL

\* Tuners and the secondary equipment are powered exactly while they are used
\* (stid135_select_rf_in_), on any card and after any sequence of calls.
THEOREM PowerAlwaysFollowsUse == Spec => []PowerFollowsUse
<1>1. IInv => PowerFollowsUse
  BY DEF IInv, Core
<1> QED
  BY <1>1, Invariance, PTL

\* The reservation of a tuner and that of its rf_in always name the same
\* application (reserve_tuner_and_rf_in_), also when two chips share the rf_in.
THEOREM OwnersAlwaysAgree == Spec => []OwnersAgree
<1>1. IInv => OwnersAgree
  BY DEF IInv, Core
<1> QED
  BY <1>1, Invariance, PTL

-----------------------------------------------------------------------------
(***************************************************************************)
(* Mastership.  An error of the hardware is reported after the reservation *)
(* was made and leaves is_master as it was, so these need its absence.     *)
(***************************************************************************)

\* A demod that finds its new tuner not shared will be alone on it.
LEMMA NotSharedAlone ==
  ASSUME Core, NEW d \in Demods, NEW ic \in Request, ~TunerShared(d, ic)
  PROVE  \A e \in Demods : ChipOf[e] = ChipOf[d] /\ active_tuner[e] = ic.rf_in => e = d
<1> DEFINE t == <<ChipOf[d], ic.rf_in>>
           S == TunerUsers(t)
<1>1. t \in TunerIds /\ ic.rf_in \in RfIns
  BY ConstantsAssumption DEF TunerIds, Request
<1>2. IsFiniteSet(S) /\ tuner_res[t].use_count = Cardinality(S)
  BY <1>1, UsersFinite DEF Core, UseCountsExact
<1>3. \A e \in Demods : e \in S <=> ChipOf[e] = ChipOf[d] /\ active_tuner[e] = ic.rf_in
  BY DEF TunerUsers
<1>4. Cardinality(S) \in Nat /\ (Cardinality(S) = 0 <=> S = {})
  BY <1>2, FS_EmptySet, FS_CardinalityType
<1>5. \/ ~(Cardinality(S) > 0)
      \/ Cardinality(S) = 1 /\ active_tuner[d] = ic.rf_in
  BY <1>2 DEF TunerShared, SameTuner, TunerOf
<1>6. CASE ~(Cardinality(S) > 0)
  <2>1. S = {}
    BY <1>4, <1>6
  <2> QED
    BY <1>3, <2>1
<1>7. CASE Cardinality(S) = 1 /\ active_tuner[d] = ic.rf_in
  <2>1. d \in S
    BY <1>3, <1>7
  <2>2. S = {d}
    BY <1>2, <1>7, <2>1, LastUser
  <2> QED
    BY <1>3, <2>2
<1> QED
  BY <1>5, <1>6, <1>7

LEMMA SelectMaster ==
  ASSUME Core, OneMasterPerTuner, NEW d \in Demods, NEW ic \in Request,
         NEW legacy, NEW sec_ready, Select(d, ic, legacy, FALSE, sec_ready)
  PROVE  OneMasterPerTuner'
<1> DEFINE m == WillBeMaster(d, ic)
<1>1. is_master \in [Demods -> BOOLEAN] /\ active_tuner \in [Demods -> RfIns \cup {None}]
  BY DEF Core, TypeCore
<1>2. CASE UNCHANGED <<is_master, active_tuner>>
  BY <1>2 DEF OneMasterPerTuner
<1>3. CASE /\ is_master' = [is_master EXCEPT ![d] = m]
           /\ active_tuner' = [active_tuner EXCEPT ![d] = ic.rf_in]
  <2>1. ic.rf_in \in RfIns /\ ic.rf_in # None
    BY NoneIsNoRfIn DEF Request
  <2>2. m => \A e \in Demods :
               ChipOf[e] = ChipOf[d] /\ active_tuner[e] = ic.rf_in => e = d
    BY NotSharedAlone DEF WillBeMaster
  <2> HIDE DEF m
  <2> QED
    BY <1>1, <1>3, <2>1, <2>2 DEF OneMasterPerTuner
<1> QED
  BY <1>2, <1>3 DEF Select, res_vars

LEMMA SelectLegacyMaster ==
  ASSUME Core, OneMasterPerTuner, NEW d \in Demods,
         NEW bits \in [voltage : {None, 0, 2}, tone : {None, 0, 1}],
         NEW sec_ready, SelectLegacy(d, bits, FALSE, sec_ready)
  PROVE  OneMasterPerTuner'
<1>1. CASE UNCHANGED res_vars
  BY <1>1 DEF OneMasterPerTuner, res_vars
<1>2. CASE /\ ~(MultiswitchMode = "quattro" /\ (bits.voltage = None \/ bits.tone = None))
           /\ \E mode \in Modes :
                Select(d, LegacyRequest(d, bits, mode), TRUE, FALSE, sec_ready)
  <2>1. PICK mode \in Modes :
               Select(d, LegacyRequest(d, bits, mode), TRUE, FALSE, sec_ready)
    BY <1>2
  <2>2. LegacyRequest(d, bits, mode) \in Request
    BY <1>2, RequestTypes
  <2> QED
    BY <2>1, <2>2, SelectMaster
<1> QED
  BY <1>1, <1>2 DEF SelectLegacy

\* On a card whose chips can be accessed without errors, at most one demod is
\* master of a tuner (the decision will_be_master in reserve_tuner_and_rf_in_
\* and its record in stid135_select_rf_in_), whoever comes and goes.
THEOREM AlwaysOneMasterPerTuner ==
  ASSUME HwErrs = {FALSE}
  PROVE  Spec => []OneMasterPerTuner
<1>1. Init => OneMasterPerTuner
  BY DEF Init, OneMasterPerTuner
<1>2. ASSUME IInv, OneMasterPerTuner, Next
      PROVE  OneMasterPerTuner'
  <2>1. PICK d \in Demods :
    \/ \E ic \in RfInputControl, hwErr \in HwErrs : SetRfInput(d, ic, hwErr)
    \/ Sleep(d)
    \/ Tune(d)
    \/ \E re_tune \in BOOLEAN, hwErr \in HwErrs : TuneLegacy(d, re_tune, hwErr)
    \/ \E hwErr \in HwErrs : DiseqcLegacy(d, hwErr)
    \/ \E v \in VoltageRequests, hwErr \in HwErrs : SetVoltage(d, v, hwErr)
    \/ VoltageGate(d)
    \/ VoltageCommit(d)
    \/ VoltageHw(d)
    \/ \E t \in ToneRequests, hwErr \in HwErrs : SetTone(d, t, hwErr)
    \/ ToneCommit(d)
    BY <1>2 DEF Next
  <2>2. Core /\ TypeRest
    BY <1>2 DEF IInv
  <2>3. /\ quattro[d] \in BitsType
        /\ \A v \in Voltages : QuattroVoltage(d, v) \in BitsType
        /\ \A t \in Tones : QuattroTone(d, t) \in BitsType
    <3>1. quattro[d] \in BitsType
      BY <2>2 DEF TypeRest, BitsType
    <3> QED
      BY <3>1 DEF QuattroVoltage, QuattroTone, BitsType
  <2>4. UNCHANGED <<is_master, active_tuner>> => OneMasterPerTuner'
    BY <1>2 DEF OneMasterPerTuner
  <2>5. ASSUME NEW ic \in RfInputControl, SetRfInput(d, ic, FALSE)
        PROVE  OneMasterPerTuner'
    <3> DEFINE legacy == ic.config_id < 0
    <3>1. Select(d, ic, legacy, FALSE, FALSE) /\ ic \in Request
      BY <2>5, RequestTypes DEF SetRfInput
    <3> HIDE DEF legacy
    <3> QED
      BY <1>2, <2>2, <3>1, SelectMaster
  <2>6. ASSUME Sleep(d) PROVE OneMasterPerTuner'
    BY <1>2, <2>2, <2>6 DEF Sleep, Release, OneMasterPerTuner, Core, TypeCore
  <2>7. ASSUME NEW bits \in BitsType, NEW sec_ready, SelectLegacy(d, bits, FALSE, sec_ready)
        PROVE  OneMasterPerTuner'
    BY <1>2, <2>2, <2>7, SelectLegacyMaster DEF BitsType
  <2>8. ASSUME NEW re_tune \in BOOLEAN, TuneLegacy(d, re_tune, FALSE)
        PROVE  OneMasterPerTuner'
    BY <2>3, <2>7, <2>8 DEF TuneLegacy
  <2>9. ASSUME DiseqcLegacy(d, FALSE) PROVE OneMasterPerTuner'
    BY <2>3, <2>7, <2>9 DEF DiseqcLegacy
  <2>10. ASSUME NEW v \in VoltageRequests, SetVoltage(d, v, FALSE)
         PROVE  OneMasterPerTuner'
    <3> DEFINE bits == QuattroVoltage(d, v)
    <3>1. bits \in BitsType
      BY <2>3, ConstantsAssumption
    <3>2. UNCHANGED <<is_master, active_tuner>> \/ SelectLegacy(d, bits, FALSE, FALSE)
      BY <2>10 DEF SetVoltage, res_vars
    <3> HIDE DEF bits
    <3> QED
      BY <2>4, <2>7, <3>1, <3>2
  <2>11. ASSUME NEW t \in ToneRequests, SetTone(d, t, FALSE)
         PROVE  OneMasterPerTuner'
    <3> DEFINE bits == QuattroTone(d, t)
    <3>1. bits \in BitsType
      BY <2>3, ConstantsAssumption
    <3>2. UNCHANGED <<is_master, active_tuner>> \/ SelectLegacy(d, bits, FALSE, FALSE)
      BY <2>11 DEF SetTone, res_vars
    <3> HIDE DEF bits
    <3> QED
      BY <2>4, <2>7, <3>1, <3>2
  <2>12. ASSUME Tune(d) \/ VoltageGate(d) \/ VoltageCommit(d) \/ VoltageHw(d) \/ ToneCommit(d)
         PROVE  OneMasterPerTuner'
    <3>1. UNCHANGED <<is_master, active_tuner>>
      BY <2>12 DEF Tune, VoltageGate, VoltageCommit, VoltageHw, ToneCommit, res_vars
    <3> QED
      BY <2>4, <3>1
  <2> QED
    BY <1>2, <2>1, <2>5, <2>6, <2>8, <2>9, <2>10, <2>11, <2>12
<1>3. OneMasterPerTuner /\ UNCHANGED vars => OneMasterPerTuner'
  BY DEF OneMasterPerTuner, vars
<1> QED
  BY <1>1, <1>2, <1>3, Invariance, PTL DEF Spec

\* On a card with one chip that can be accessed without errors, at most one
\* demod drives the secondary equipment of an rf_in: the sharing rule of the
\* comment in stid135_set_voltage.  With two chips it does not hold.
THEOREM AlwaysOneMasterPerRfIn ==
  ASSUME HwErrs = {FALSE}, \A d, e \in Demods : ChipOf[d] = ChipOf[e]
  PROVE  Spec => []OneMasterPerRfIn
<1>1. OneMasterPerTuner => OneMasterPerRfIn
  BY DEF OneMasterPerTuner, OneMasterPerRfIn
<1>2. Spec => []OneMasterPerTuner
  BY AlwaysOneMasterPerTuner
<1> QED
  BY <1>1, <1>2, PTL

=============================================================================
