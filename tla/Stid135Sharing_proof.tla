------------------------ MODULE Stid135Sharing_proof ------------------------
(***************************************************************************)
(* What applications that share RF inputs can rely on: proofs about        *)
(* Stid135Reservation on top of the inductive invariant of                 *)
(* Stid135Reservation_proof, and the refinement of RfInputSharing.         *)
(***************************************************************************)
EXTENDS Stid135Reservation_proof

\* The hypotheses under which the sharing is sound: the demods are on one chip, ...
OneChipOnly == \A d, e \in Demods : ChipOf[d] = ChipOf[e]

\* ... and applications pass no negative configuration id, which would switch
\* stid135_set_rf_input to the rules of stid135_select_rf_in_legacy_.
NoNegativeIds == ConfigIds \subseteq Nat

-----------------------------------------------------------------------------
(***************************************************************************)
(* The effect of a demod's moving from one rf_in to another.               *)
(***************************************************************************)
\* Demod d has left every rf_in but x: where it was alone, the rf_in is free and
\* switched off, and everything else is as it was.
Left(d, x) ==
  \A r \in RfIns : r # x =>
    IF active_tuner[d] = r /\ RfInUsers(r) = {d}
      THEN /\ rf_in_res'[r].owner = NoOwner /\ lnb'[r] = "off"
           /\ rf_in'[r].voltage = "off" /\ rf_in'[r].sec_configured = FALSE
      ELSE /\ rf_in_res'[r].owner = rf_in_res[r].owner /\ lnb'[r] = lnb[r]
           /\ rf_in'[r] = rf_in[r]

\* Demod d has come to the rf_in of the request ic, or has stayed there.
Arrived(d, ic, ok, sec_ready) ==
  LET x == ic.rf_in
  IN  /\ active_tuner' = [active_tuner EXCEPT ![d] = x]
      /\ RfInUsers(x) # {} => rf_in_res[x].owner = ic.owner
      /\ rf_in_res'[x].owner = ic.owner
      /\ lnb'[x] = lnb[x]
      /\ rf_in'[x].voltage = IF RfInUsers(x) = {} THEN "off" ELSE rf_in[x].voltage
      /\ rf_in'[x].sec_configured =
           ((ok /\ sec_ready) \/ (~WillBeMaster(d, ic) /\ rf_in[x].sec_configured))

\* What leaves with d.
LEMMA WithoutEffect ==
  ASSUME Core, NEW d \in Demods, NEW r \in RfIns
  PROVE  IF active_tuner[d] = r /\ RfInUsers(r) = {d}
           THEN /\ RfInResWithout(d)[r].owner = NoOwner /\ LnbWithout(d)[r] = "off"
                /\ RfInWithout(d)[r].voltage = "off" /\ RfInWithout(d)[r].sec_configured = FALSE
           ELSE /\ RfInResWithout(d)[r].owner = rf_in_res[r].owner
                /\ LnbWithout(d)[r] = lnb[r] /\ RfInWithout(d)[r] = rf_in[r]
<1> DEFINE a == active_tuner[d]
<1>1. /\ rf_in_res \in [RfIns -> Reservation] /\ rf_in \in [RfIns -> RfInType]
      /\ lnb \in [RfIns -> Voltages] /\ None \notin RfIns
  BY NoneIsNoRfIn DEF Core, TypeCore, RfInType
<1>2. /\ ActiveRfIn(d) = a /\ (HasRfIn(d) <=> a # None)
      /\ a # None => a \in RfIns /\ d \in RfInUsers(a)
  BY ActiveRfInFacts
<1>3. CASE a = None
  <2>1. ~HasRfIn(d) /\ ~LastOnRfIn(d)
    BY <1>2, <1>3 DEF LastOnRfIn
  <2> QED
    BY <1>1, <1>3, <2>1 DEF RfInResWithout, LnbWithout, RfInWithout
<1>4. CASE a # None
  <2>1. /\ RfInResWithout(d) = [rf_in_res EXCEPT ![a] = Drop(rf_in_res[a])]
        /\ LastOnRfIn(d) <=> RfInUsers(a) = {d}
    BY <1>4, WithoutFacts
  <2>2. /\ ResOK(Drop(rf_in_res[a]), RfInUsers(a) \ {d})
        /\ RfInUsers(a) \ {d} # {} => Drop(rf_in_res[a]).owner = rf_in_res[a].owner
    <3>1. a \in RfIns /\ d \in RfInUsers(a) /\ ResOK(rf_in_res[a], RfInUsers(a))
      BY <1>2, <1>4, CoreResOK
    <3> HIDE DEF a
    <3> QED
      BY <3>1, DropOK
  <2>3. CASE RfInUsers(a) = {d}
    <3>1. Drop(rf_in_res[a]).owner = NoOwner
      BY <2>2, <2>3 DEF ResOK, Free
    <3>2. RfInWithout(d) = [rf_in EXCEPT ![a] =
            [rf_in[a] EXCEPT !.voltage = "off", !.tone = "off",
                             !.controlling_chip = None, !.sec_configured = FALSE]]
      BY <1>2, <2>1, <2>3 DEF RfInWithout
    <3>3. LnbWithout(d) = [lnb EXCEPT ![a] = "off"]
      BY <1>2, <2>1, <2>3 DEF LnbWithout
    <3>4. rf_in[a] \in RfInType
      BY <1>1, <1>2, <1>4
    <3>5. CASE r = a
      <4>1. RfInWithout(d)[r].voltage = "off" /\ RfInWithout(d)[r].sec_configured = FALSE
        BY <1>1, <1>2, <1>4, <3>2, <3>4, <3>5 DEF RfInType
      <4> QED
        BY <1>1, <1>2, <1>4, <2>1, <2>3, <3>1, <3>3, <3>5, <4>1
    <3>6. CASE r # a
      BY <1>1, <2>1, <3>2, <3>3, <3>6
    <3> QED
      BY <3>5, <3>6
  <2>4. CASE RfInUsers(a) # {d}
    <3>1. RfInUsers(a) \ {d} # {}
      BY <1>2, <1>4, <2>4
    <3>2. Drop(rf_in_res[a]).owner = rf_in_res[a].owner
      BY <2>2, <3>1
    <3>3. RfInWithout(d) = rf_in /\ LnbWithout(d) = lnb
      BY <2>1, <2>4 DEF RfInWithout, LnbWithout
    <3> QED
      BY <1>1, <2>1, <2>4, <3>2, <3>3
  <2> QED
    BY <2>3, <2>4
<1> QED
  BY <1>3, <1>4

\* stid135_sleep, and every other selection with ic = NULL.
LEMMA ReleaseEffect ==
  ASSUME Core, NEW d \in Demods, Release(d)
  PROVE  Left(d, None)
BY WithoutEffect, NoneIsNoRfIn DEF Release, Left

\* A selection that is granted.
LEMMA SelectEffect ==
  ASSUME Core, NEW d \in Demods, NEW ic \in Request, NEW legacy \in BOOLEAN,
         NEW hwErr \in BOOLEAN, NEW sec_ready \in BOOLEAN,
         Granted(d, ic, legacy), Select(d, ic, legacy, hwErr, sec_ready)
  PROVE  Left(d, ic.rf_in) /\ Arrived(d, ic, ~hwErr, sec_ready)
<1> DEFINE x == ic.rf_in
           a == active_tuner[d]
           master == WillBeMaster(d, ic)
<1>1. /\ rf_in_res' = RfInResWith(d, ic, master)
      /\ rf_in' = RfInWith(d, ic, master, ~hwErr, sec_ready)
      /\ lnb' = IF SameRfIn(d, ic) THEN lnb ELSE LnbWithout(d)
      /\ active_tuner' = [active_tuner EXCEPT ![d] = x]
  BY DEF Select
<1>2. /\ x \in RfIns /\ master \in BOOLEAN
      /\ rf_in_res \in [RfIns -> Reservation] /\ rf_in \in [RfIns -> RfInType]
      /\ lnb \in [RfIns -> Voltages]
  BY DEF Request, WillBeMaster, Core, TypeCore, RfInType
<1>3. SameRfIn(d, ic) <=> a = x
  BY ActiveRfInFacts DEF SameRfIn
<1>4. RfInWithout(d) \in [RfIns -> RfInType] /\ LnbWithout(d) \in [RfIns -> Voltages]
  <2>1. ActiveRfIn(d) = a /\ (HasRfIn(d) <=> a # None) /\ (a # None => a \in RfIns)
    BY ActiveRfInFacts
  <2>2. CASE LastOnRfIn(d)
    <3>1. a \in RfIns /\ rf_in[a] \in RfInType
      BY <1>2, <2>1, <2>2 DEF LastOnRfIn
    <3>2. [rf_in[a] EXCEPT !.voltage = "off", !.tone = "off",
             !.controlling_chip = None, !.sec_configured = FALSE] \in RfInType
      BY <3>1 DEF RfInType, Voltages, Tones
    <3> QED
      BY <1>2, <2>1, <2>2, <3>1, <3>2 DEF RfInWithout, LnbWithout, Voltages
  <2>3. CASE ~LastOnRfIn(d)
    BY <1>2, <2>3 DEF RfInWithout, LnbWithout
  <2> QED
    BY <2>2, <2>3
<1> DEFINE base == IF SameRfIn(d, ic) THEN rf_in ELSE RfInWithout(d)
<1>5. base \in [RfIns -> RfInType] /\ base[x] = rf_in[x] /\ lnb'[x] = lnb[x]
  BY <1>1, <1>2, <1>3, <1>4, WithoutEffect
<1>6. \A r \in RfIns : r # x => rf_in'[r] = base[r]
  <2>1. DOMAIN base = RfIns
    BY <1>5
  <2> HIDE DEF base
  <2> QED
    BY <1>1, <1>2, <2>1 DEF RfInWith, base
<1>7. /\ rf_in'[x].voltage = IF rf_in[x].controlling_chip = None THEN "off"
                                                                 ELSE rf_in[x].voltage
      /\ rf_in'[x].sec_configured =
           ((~hwErr /\ sec_ready) \/ (~master /\ rf_in[x].sec_configured))
  <2>1. DOMAIN base = RfIns
    BY <1>5
  <2>2. rf_in'[x] =
          LET unclaimed == base[x].controlling_chip = None
          IN  [controlling_chip |-> IF unclaimed THEN ChipOf[d]
                                                 ELSE base[x].controlling_chip,
               voltage          |-> IF unclaimed THEN "off" ELSE base[x].voltage,
               tone             |-> IF unclaimed THEN "off" ELSE base[x].tone,
               sec_configured   |-> (~hwErr /\ sec_ready)
                                    \/ (~master /\ base[x].sec_configured),
               unicable_mode    |-> IF ~hwErr /\ master THEN ic.unicable_mode
                                                        ELSE base[x].unicable_mode]
    BY <1>1, <1>2, <2>1 DEF RfInWith
  <2> HIDE DEF base, master
  <2> QED
    BY <1>5, <2>2
<1>8. /\ \A r \in RfIns : r # x =>
           rf_in_res'[r].owner = IF a = r THEN Drop(rf_in_res[r]).owner
                                          ELSE rf_in_res[r].owner
      /\ rf_in_res'[x] = Take(rf_in_res[x], ic, a = x, master)
  BY <1>1, <1>2, WithFacts
<1>9. \A r \in RfIns : r # x /\ a = r =>
        RfInResWithout(d)[r] = Drop(rf_in_res[r])
  <2>1. a # None => RfInResWithout(d) = [rf_in_res EXCEPT ![a] = Drop(rf_in_res[a])]
    BY WithoutFacts
  <2> QED
    BY <1>2, <2>1, NoneIsNoRfIn
<1>10. Left(d, x)
  <2>1. CASE a = x
    BY <1>1, <1>3, <1>6, <1>8, <2>1 DEF Left
  <2>2. CASE a # x
    <3>1. /\ lnb' = LnbWithout(d)
          /\ \A r \in RfIns : r # x => rf_in'[r] = RfInWithout(d)[r]
      BY <1>1, <1>3, <1>6, <2>2
    <3>2. \A r \in RfIns : r # x => rf_in_res'[r].owner = RfInResWithout(d)[r].owner
      <4>1. a = None => RfInResWithout(d) = rf_in_res
        BY ActiveRfInFacts DEF RfInResWithout
      <4>2. a # None => RfInResWithout(d) = [rf_in_res EXCEPT ![a] = Drop(rf_in_res[a])]
        BY WithoutFacts
      <4> HIDE DEF a, x
      <4> QED
        BY <1>2, <1>8, <1>9, <4>1, <4>2
    <3> HIDE DEF x
    <3>3. ASSUME NEW r \in RfIns, r # x
          PROVE  IF active_tuner[d] = r /\ RfInUsers(r) = {d}
                   THEN /\ rf_in_res'[r].owner = NoOwner /\ lnb'[r] = "off"
                        /\ rf_in'[r].voltage = "off" /\ rf_in'[r].sec_configured = FALSE
                   ELSE /\ rf_in_res'[r].owner = rf_in_res[r].owner /\ lnb'[r] = lnb[r]
                        /\ rf_in'[r] = rf_in[r]
      <4>1. /\ lnb'[r] = LnbWithout(d)[r] /\ rf_in'[r] = RfInWithout(d)[r]
            /\ rf_in_res'[r].owner = RfInResWithout(d)[r].owner
        BY <3>1, <3>2, <3>3
      <4>2. IF active_tuner[d] = r /\ RfInUsers(r) = {d}
              THEN /\ RfInResWithout(d)[r].owner = NoOwner /\ LnbWithout(d)[r] = "off"
                   /\ RfInWithout(d)[r].voltage = "off"
                   /\ RfInWithout(d)[r].sec_configured = FALSE
              ELSE /\ RfInResWithout(d)[r].owner = rf_in_res[r].owner
                   /\ LnbWithout(d)[r] = lnb[r] /\ RfInWithout(d)[r] = rf_in[r]
        BY WithoutEffect
      <4> QED
        BY <4>1, <4>2
    <3> QED
      BY <3>3 DEF Left
  <2> QED
    BY <2>1, <2>2
<1>11. RfInUsers(x) = {} <=> rf_in[x].controlling_chip = None
  BY <1>2 DEF Core, PowerFollowsUse
<1>12. /\ RfInUsers(x) # {} => rf_in_res[x].owner = ic.owner
       /\ RfInUsers(x) = {} => rf_in_res[x].owner = NoOwner
  <2>1. RfInUsers(x) # {} => rf_in_res[x].owner = ic.owner
    BY GrantedOwner
  <2>2. RfInUsers(x) = {} => rf_in_res[x] = Free
    BY <1>2 DEF Core, PowerFollowsUse
  <2> QED
    BY <2>1, <2>2 DEF Free
<1>13. rf_in_res'[x].owner = ic.owner
  BY <1>8, <1>12 DEF Take
<1> QED
  BY <1>1, <1>5, <1>7, <1>10, <1>11, <1>12, <1>13 DEF Arrived

-----------------------------------------------------------------------------
(***************************************************************************)
(* The kinds of steps.                                                     *)
(***************************************************************************)
\* stid135_set_rf_input, granted.
Chosen(d, ic, hwErr) ==
  /\ pc[d] = Idle
  /\ Granted(d, ic, ic.config_id < 0)
  /\ Select(d, ic, ic.config_id < 0, hwErr, FALSE)
  /\ legacy_rf_in' = [legacy_rf_in EXCEPT ![d] = ic.config_id < 0]
  /\ UNCHANGED <<quattro, pc>>

\* stid135_select_rf_in_legacy_, granted.
Found(d, ic, bits, hwErr, sec_ready) ==
  /\ pc[d] = Idle /\ active_tuner[d] = None
  /\ ic \in Request /\ ic.owner = LegacyOwner
  /\ MultiswitchMode = "quattro" =>
       bits.voltage # None /\ bits.tone # None /\ ic.rf_in = bits.voltage + bits.tone
  /\ Granted(d, ic, TRUE)
  /\ Select(d, ic, TRUE, hwErr, sec_ready)
  /\ legacy_rf_in' = [legacy_rf_in EXCEPT ![d] = TRUE]
  /\ quattro' = [quattro EXCEPT ![d] = bits]
  /\ \E p : pc' = [pc EXCEPT ![d] = p] /\ p.at # "volt_hw"

\* Neither who uses which rf_in nor any voltage changes.
Quiet(d) ==
  /\ UNCHANGED <<rf_in_res, active_tuner, is_master, lnb>>
  /\ \A r \in RfIns : /\ rf_in'[r].voltage = rf_in[r].voltage
                      /\ rf_in'[r].sec_configured = rf_in[r].sec_configured
  /\ \E bits : /\ quattro' = [quattro EXCEPT ![d] = bits]
               /\ quattro[d].voltage # None => bits.voltage = quattro[d].voltage
               /\ quattro[d].tone # None => bits.tone = quattro[d].tone
  /\ \E b \in BOOLEAN : /\ legacy_rf_in' = [legacy_rf_in EXCEPT ![d] = b]
                        /\ b => \/ active_tuner[d] = None
                                \/ legacy_rf_in[d]
                                \/ ~NoNegativeIds
  /\ \E p : pc' = [pc EXCEPT ![d] = p] /\ p.at # "volt_hw"
  /\ pc[d].at # "volt_hw"

Kind(d) ==
  \/ \E ic \in RfInputControl, hwErr \in HwErrs : Chosen(d, ic, hwErr)
  \/ \E ic \in Request, bits \in BitsType, hwErr \in HwErrs, sec_ready \in BOOLEAN :
       Found(d, ic, bits, hwErr, sec_ready)
  \/ Sleep(d)
  \/ Tune(d)
  \/ VoltageCommit(d)
  \/ VoltageHw(d)
  \/ Quiet(d)

\* Every step is of one of these kinds.
LEMMA StepKinds ==
  ASSUME IInv, Next
  PROVE  \E d \in Demods : Kind(d)
<1>1. PICK d \in Demods :
    \/ \E ic \in RfInputControl, hwErr \in HwErrs : SetRfInput(d, ic, hwErr)
    \/ Sleep(d)
    \/ Tune(d)
    \/ \E re_tune \in BOOLEAN, hwErr \in HwErrs : TuneLegacy(d, re_tune, hwErr)
    \/ \E hwErr \in HwErrs : DiseqcLegacy(d, hwErr)
    \/ \E v \in VoltageRequests, hwErr \in HwErrs : SetVoltage(d, v, hwErr)
    \/ VoltageGate(d)
    \/ VoltageCommit(d)
    \/ VoltageHw(d)
    \/ \E t \in ToneRequests, hwErr \in HwErrs : SetTone(d, t, hwErr)
    \/ ToneCommit(d)
  BY DEF Next
<1>2. Core /\ TypeRest /\ TypeCore
  BY DEF IInv, Core
<1>3. /\ legacy_rf_in \in [Demods -> BOOLEAN] /\ quattro \in [Demods -> BitsType]
      /\ DOMAIN pc = Demods
      /\ rf_in \in [RfIns -> RfInType]
  BY <1>2 DEF TypeRest, TypeCore, BitsType, RfInType
<1>4. /\ quattro[d] \in BitsType
      /\ \A v \in Voltages : QuattroVoltage(d, v) \in BitsType
      /\ \A t \in Tones : QuattroTone(d, t) \in BitsType
  <2>1. quattro[d] \in BitsType
    BY <1>3
  <2> QED
    BY <2>1 DEF QuattroVoltage, QuattroTone, BitsType
<1>5. /\ ActiveRfIn(d) = active_tuner[d]
      /\ HasRfIn(d) <=> active_tuner[d] # None
      /\ active_tuner[d] # None => active_tuner[d] \in RfIns
  BY <1>2, ActiveRfInFacts
<1>6. Idle.at = "idle"
  BY DEF Idle
\* The bits only become known.
<1>7. DEFINE Kept(bits) == /\ quattro[d].voltage # None => bits.voltage = quattro[d].voltage
                           /\ quattro[d].tone # None => bits.tone = quattro[d].tone
<1>8. /\ \A v : Kept(QuattroVoltage(d, v))
      /\ \A t : Kept(QuattroTone(d, t))
  BY <1>4 DEF QuattroVoltage, QuattroTone, BitsType
<1>9. ASSUME NEW b \in BOOLEAN, NEW bits, NEW p,
             UNCHANGED <<res_vars, lnb>>,
             legacy_rf_in' = [legacy_rf_in EXCEPT ![d] = b],
             b => active_tuner[d] = None \/ legacy_rf_in[d] \/ ~NoNegativeIds,
             quattro' = [quattro EXCEPT ![d] = bits], Kept(bits),
             pc' = [pc EXCEPT ![d] = p], p.at # "volt_hw", pc[d].at # "volt_hw"
      PROVE  Quiet(d)
  <2>1. UNCHANGED <<rf_in_res, active_tuner, is_master, lnb, rf_in>>
    BY <1>9 DEF res_vars
  <2>2. \E z : /\ quattro' = [quattro EXCEPT ![d] = z]
               /\ quattro[d].voltage # None => z.voltage = quattro[d].voltage
               /\ quattro[d].tone # None => z.tone = quattro[d].tone
    BY <1>9
  <2>3. \E z \in BOOLEAN : /\ legacy_rf_in' = [legacy_rf_in EXCEPT ![d] = z]
                           /\ z => \/ active_tuner[d] = None
                                   \/ legacy_rf_in[d]
                                   \/ ~NoNegativeIds
    BY <1>9
  <2>4. \E z : pc' = [pc EXCEPT ![d] = z] /\ z.at # "volt_hw"
    BY <1>9
  <2> QED
    BY <1>9, <2>1, <2>2, <2>3, <2>4 DEF Quiet
<1>10. ASSUME NEW bits \in BitsType, NEW hwErr \in HwErrs, NEW sec_ready \in BOOLEAN,
              SelectLegacy(d, bits, hwErr, sec_ready), Kept(bits),
              ~HasRfIn(d), pc[d] = Idle,
              quattro' = [quattro EXCEPT ![d] = bits],
              NEW p, pc' = [pc EXCEPT ![d] = p], p.at # "volt_hw"
       PROVE  Kind(d)
  <2>1. legacy_rf_in' = [legacy_rf_in EXCEPT ![d] = TRUE]
    BY <1>10 DEF SelectLegacy
  <2>2. CASE UNCHANGED <<res_vars, lnb>>
    <3>1. Quiet(d)
      BY <1>5, <1>6, <1>9, <1>10, <2>1, <2>2
    <3> QED
      BY <3>1 DEF Kind
  <2>3. CASE ~UNCHANGED <<res_vars, lnb>>
    <3>1. PICK mode \in Modes :
            Select(d, LegacyRequest(d, bits, mode), TRUE, hwErr, sec_ready)
      BY <1>10, <2>3 DEF SelectLegacy
    <3>2. ~(MultiswitchMode = "quattro" /\ (bits.voltage = None \/ bits.tone = None))
      BY <1>10, <2>3 DEF SelectLegacy
    <3> DEFINE ic == LegacyRequest(d, bits, mode)
    <3>3. ic \in Request
      BY <3>2, RequestTypes DEF BitsType
    <3>4. ic.owner = LegacyOwner
          /\ (MultiswitchMode = "quattro" => ic.rf_in = bits.voltage + bits.tone)
      BY DEF LegacyRequest
    <3> HIDE DEF ic
    <3>5. Granted(d, ic, TRUE) /\ Select(d, ic, TRUE, hwErr, sec_ready)
      BY <2>3, <3>1 DEF Select, ic
    <3>6. Found(d, ic, bits, hwErr, sec_ready)
      BY <1>5, <1>10, <2>1, <3>2, <3>3, <3>4, <3>5 DEF Found
    <3> QED
      BY <3>3, <3>6 DEF Kind
  <2> QED
    BY <2>2, <2>3
\* What stays is the same function with d's value again.
<1>11. /\ UNCHANGED quattro => quattro' = [quattro EXCEPT ![d] = quattro[d]]
       /\ UNCHANGED legacy_rf_in => legacy_rf_in' = [legacy_rf_in EXCEPT ![d] = legacy_rf_in[d]]
       /\ UNCHANGED pc => pc' = [pc EXCEPT ![d] = pc[d]]
       /\ Kept(quattro[d]) /\ legacy_rf_in[d] \in BOOLEAN
  <2>1. UNCHANGED pc => pc' = [pc EXCEPT ![d] = pc[d]]
    BY <1>2 DEF TypeRest
  <2> QED
    BY <1>3, <2>1
<1> HIDE DEF Kept
<1>12. ASSUME NEW ic \in RfInputControl, NEW hwErr \in HwErrs, SetRfInput(d, ic, hwErr)
       PROVE  Kind(d)
  <2> DEFINE neg == ic.config_id < 0
  <2>1. CASE Granted(d, ic, neg)
    <3>1. Chosen(d, ic, hwErr)
      BY <1>12, <2>1 DEF SetRfInput, Chosen
    <3> QED
      BY <3>1 DEF Kind
  <2>2. CASE ~Granted(d, ic, neg)
    <3>1. UNCHANGED <<res_vars, lnb>>
      BY <1>12, <2>2 DEF SetRfInput, Select
    <3>2. /\ legacy_rf_in' = [legacy_rf_in EXCEPT ![d] = neg]
          /\ UNCHANGED <<quattro, pc>> /\ pc[d] = Idle
      BY <1>12 DEF SetRfInput
    <3>3. neg => ~NoNegativeIds
      BY DEF RfInputControl, NoNegativeIds
    <3>4. neg \in BOOLEAN
      OBVIOUS
    <3> HIDE DEF neg
    <3>5. Quiet(d)
      BY <1>6, <1>9, <1>11, <3>1, <3>2, <3>3, <3>4
    <3> QED
      BY <3>5 DEF Kind
  <2> QED
    BY <2>1, <2>2
<1>13. ASSUME NEW re_tune \in BOOLEAN, NEW hwErr \in HwErrs, TuneLegacy(d, re_tune, hwErr)
       PROVE  Kind(d)
  BY <1>4, <1>6, <1>10, <1>11, <1>13 DEF TuneLegacy
<1>14. ASSUME NEW hwErr \in HwErrs, DiseqcLegacy(d, hwErr)
       PROVE  Kind(d)
  BY <1>4, <1>6, <1>10, <1>11, <1>14 DEF DiseqcLegacy
<1>15. ASSUME NEW v \in VoltageRequests, NEW hwErr \in HwErrs, SetVoltage(d, v, hwErr)
       PROVE  Kind(d)
  <2> DEFINE bits == QuattroVoltage(d, v)
             p == [at |-> "volt_gate", arg |-> v]
  <2>1. bits \in BitsType /\ Kept(bits) /\ quattro' = [quattro EXCEPT ![d] = bits]
        /\ pc[d] = Idle /\ p.at # "volt_hw"
    BY <1>4, <1>8, <1>15, ConstantsAssumption DEF SetVoltage, Kept
  <2>2. CASE /\ ~HasRfIn(d) /\ SelectLegacy(d, bits, hwErr, FALSE)
             /\ Goto(d, "volt_gate", v)
    <3>1. pc' = [pc EXCEPT ![d] = p]
      BY <2>2 DEF Goto
    <3> HIDE DEF bits, p
    <3> QED
      BY <1>10, <2>1, <2>2, <3>1
  <2>3. CASE UNCHANGED <<res_vars, legacy_rf_in, lnb>>
             /\ (UNCHANGED pc \/ Goto(d, "volt_gate", v))
    <3>1. \/ pc' = [pc EXCEPT ![d] = p]
          \/ pc' = [pc EXCEPT ![d] = pc[d]]
      BY <1>11, <2>3 DEF Goto
    <3> HIDE DEF bits, p
    <3>2. Quiet(d)
      BY <1>6, <1>9, <1>11, <2>1, <2>3, <3>1
    <3> QED
      BY <3>2 DEF Kind
  <2> QED
    BY <1>15, <2>2, <2>3 DEF SetVoltage
<1>16. ASSUME NEW t \in ToneRequests, NEW hwErr \in HwErrs, SetTone(d, t, hwErr)
       PROVE  Kind(d)
  <2> DEFINE bits == QuattroTone(d, t)
             p == [at |-> "tone_commit", arg |-> t]
  <2>1. bits \in BitsType /\ Kept(bits) /\ quattro' = [quattro EXCEPT ![d] = bits]
        /\ pc[d] = Idle /\ p.at # "volt_hw" /\ pc' = [pc EXCEPT ![d] = p]
    BY <1>4, <1>8, <1>16, ConstantsAssumption DEF SetTone, Kept, Goto
  <2>2. CASE ~HasRfIn(d) /\ SelectLegacy(d, bits, hwErr, FALSE)
    <3> HIDE DEF bits, p
    <3> QED
      BY <1>10, <2>1, <2>2
  <2>3. CASE UNCHANGED <<res_vars, legacy_rf_in, lnb>>
    <3> HIDE DEF bits, p
    <3>1. Quiet(d)
      BY <1>6, <1>9, <1>11, <2>1, <2>3
    <3> QED
      BY <3>1 DEF Kind
  <2> QED
    BY <1>16, <2>2, <2>3 DEF SetTone
<1>17. ASSUME VoltageGate(d) PROVE Kind(d)
  <2>1. PICK p : pc' = [pc EXCEPT ![d] = p] /\ p.at # "volt_hw"
    BY <1>6, <1>17 DEF VoltageGate, Goto, Return
  <2>2. UNCHANGED <<res_vars, legacy_rf_in, quattro, lnb>> /\ pc[d].at # "volt_hw"
    BY <1>17 DEF VoltageGate
  <2>3. Quiet(d)
    BY <1>9, <1>11, <2>1, <2>2
  <2> QED
    BY <2>3 DEF Kind
<1>18. ASSUME ToneCommit(d) PROVE Kind(d)
  <2>1. \A r \in RfIns : /\ rf_in'[r].voltage = rf_in[r].voltage
                         /\ rf_in'[r].sec_configured = rf_in[r].sec_configured
    BY <1>3, <1>5, <1>18 DEF ToneCommit, RfInType
  <2>2. /\ pc' = [pc EXCEPT ![d] = Idle] /\ pc[d].at # "volt_hw"
        /\ UNCHANGED <<rf_in_res, active_tuner, is_master, lnb, legacy_rf_in, quattro>>
    BY <1>18 DEF ToneCommit, Return
  <2>3. Quiet(d)
    <3>1. \E b \in BOOLEAN : /\ legacy_rf_in' = [legacy_rf_in EXCEPT ![d] = b]
                             /\ b => \/ active_tuner[d] = None
                                     \/ legacy_rf_in[d]
                                     \/ ~NoNegativeIds
      BY <1>11, <2>2
    <3>2. \E p : pc' = [pc EXCEPT ![d] = p] /\ p.at # "volt_hw"
      BY <1>6, <2>2
    <3>3. \E bits : /\ quattro' = [quattro EXCEPT ![d] = bits]
                    /\ quattro[d].voltage # None => bits.voltage = quattro[d].voltage
                    /\ quattro[d].tone # None => bits.tone = quattro[d].tone
      BY <1>11, <2>2
    <3> QED
      BY <2>1, <2>2, <3>1, <3>2, <3>3 DEF Quiet
  <2> QED
    BY <2>3 DEF Kind
<1> QED
  BY <1>1, <1>12, <1>13, <1>14, <1>15, <1>16, <1>17, <1>18 DEF Kind

\* The effects of the three kinds of steps that move a demod.
LEMMA ChosenMoves ==
  ASSUME IInv, NEW d \in Demods, NEW ic \in RfInputControl, NEW hwErr \in HwErrs,
         Chosen(d, ic, hwErr)
  PROVE  ic \in Request /\ Left(d, ic.rf_in) /\ Arrived(d, ic, ~hwErr, FALSE)
<1> DEFINE legacy == ic.config_id < 0
<1>1. Core /\ ic \in Request /\ legacy \in BOOLEAN /\ hwErr \in BOOLEAN
  BY RequestTypes, ConstantsAssumption DEF IInv
<1>2. Granted(d, ic, legacy) /\ Select(d, ic, legacy, hwErr, FALSE)
  BY DEF Chosen
<1> HIDE DEF legacy
<1> QED
  BY <1>1, <1>2, SelectEffect

LEMMA FoundMoves ==
  ASSUME IInv, NEW d \in Demods, NEW ic \in Request, NEW bits \in BitsType,
         NEW hwErr \in HwErrs, NEW sec_ready \in BOOLEAN,
         Found(d, ic, bits, hwErr, sec_ready)
  PROVE  Left(d, ic.rf_in) /\ Arrived(d, ic, ~hwErr, sec_ready)
<1>1. Core /\ hwErr \in BOOLEAN
  BY ConstantsAssumption DEF IInv
<1> QED
  BY <1>1, SelectEffect DEF Found

LEMMA SleepMoves ==
  ASSUME IInv, NEW d \in Demods, Sleep(d)
  PROVE  /\ Left(d, None)
         /\ active_tuner[d] # None
         /\ active_tuner' = [active_tuner EXCEPT ![d] = None]
BY ReleaseEffect DEF IInv, Sleep, Release

\* A demod that moves leaves the owner and the voltage of the others' rf_ins.
LEMMA ArrivalKeepsOthers ==
  ASSUME Core, NEW d \in Demods, NEW ic \in Request, NEW ok, NEW sec_ready,
         Left(d, ic.rf_in), Arrived(d, ic, ok, sec_ready),
         NEW e \in Demods, e # d, active_tuner[e] # None
  PROVE  LET r == active_tuner[e]
         IN  /\ r \in RfIns /\ active_tuner'[e] = r
             /\ rf_in_res'[r].owner = rf_in_res[r].owner
             /\ lnb'[r] = lnb[r]
             /\ rf_in'[r].voltage = rf_in[r].voltage
             /\ r # ic.rf_in => rf_in'[r] = rf_in[r]
<1> DEFINE r == active_tuner[e]
<1>1. r \in RfIns /\ e \in RfInUsers(r) /\ active_tuner \in [Demods -> RfIns \cup {None}]
  BY DEF Core, TypeCore, RfInUsers
<1>2. active_tuner'[e] = r
  BY <1>1 DEF Arrived
<1>3. CASE r = ic.rf_in
  BY <1>1, <1>2, <1>3 DEF Arrived
<1>4. CASE r # ic.rf_in
  BY <1>1, <1>2, <1>4 DEF Left
<1> QED
  BY <1>3, <1>4

LEMMA LeavingKeepsOthers ==
  ASSUME Core, NEW d \in Demods, Left(d, None),
         active_tuner' = [active_tuner EXCEPT ![d] = None],
         NEW e \in Demods, e # d, active_tuner[e] # None
  PROVE  LET r == active_tuner[e]
         IN  /\ r \in RfIns /\ active_tuner'[e] = r
             /\ rf_in_res'[r].owner = rf_in_res[r].owner
             /\ lnb'[r] = lnb[r]
             /\ rf_in'[r] = rf_in[r]
<1> DEFINE r == active_tuner[e]
<1>1. r \in RfIns /\ e \in RfInUsers(r) /\ active_tuner \in [Demods -> RfIns \cup {None}]
  BY DEF Core, TypeCore, RfInUsers
<1>2. active_tuner'[e] = r
  BY <1>1
<1> QED
  BY <1>1, <1>2 DEF Left

\* stid135_tune and stid135_set_voltage on the rf_in of d.
LEMMA UpdateEffects ==
  ASSUME IInv, NEW d \in Demods
  PROVE  /\ Tune(d) =>
              /\ active_tuner[d] \in RfIns
              /\ UNCHANGED <<rf_in_res, active_tuner, is_master, legacy_rf_in, quattro, pc, lnb>>
              /\ \A r \in RfIns :
                   /\ rf_in'[r].voltage = rf_in[r].voltage
                   /\ rf_in'[r].sec_configured = (rf_in[r].sec_configured \/ r = active_tuner[d])
         /\ VoltageCommit(d) =>
              /\ active_tuner[d] \in RfIns /\ pc[d].at = "volt_commit"
              /\ UNCHANGED <<rf_in_res, active_tuner, is_master, legacy_rf_in, quattro, lnb>>
              /\ \A r \in RfIns : rf_in'[r].sec_configured = rf_in[r].sec_configured
              /\ \/ UNCHANGED rf_in /\ Return(d)
                 \/ /\ rf_in_res[active_tuner[d]].use_count > 1 => legacy_rf_in[d]
                    /\ Goto(d, "volt_hw", pc[d].arg)
                    /\ rf_in'[active_tuner[d]].voltage = pc[d].arg
                    /\ \A r \in RfIns : r # active_tuner[d] => rf_in'[r] = rf_in[r]
         /\ VoltageHw(d) =>
              /\ active_tuner[d] \in RfIns /\ pc[d].at = "volt_hw"
              /\ UNCHANGED <<rf_in_res, rf_in, active_tuner, is_master, legacy_rf_in, quattro>>
              /\ Return(d)
              /\ lnb' = [lnb EXCEPT ![active_tuner[d]] = pc[d].arg]
<1> DEFINE a == active_tuner[d]
<1>1. /\ ActiveRfIn(d) = a /\ (HasRfIn(d) <=> a # None) /\ (a # None => a \in RfIns)
  BY ActiveRfInFacts DEF IInv
<1>2. rf_in \in [RfIns -> RfInType] /\ CommitHasTuner
  BY DEF IInv, Core, TypeCore, RfInType
<1>3. ASSUME Tune(d)
      PROVE  /\ a \in RfIns
             /\ UNCHANGED <<rf_in_res, active_tuner, is_master, legacy_rf_in, quattro, pc, lnb>>
             /\ \A r \in RfIns :
                  /\ rf_in'[r].voltage = rf_in[r].voltage
                  /\ rf_in'[r].sec_configured = (rf_in[r].sec_configured \/ r = a)
  <2>1. a \in RfIns /\ rf_in' = [rf_in EXCEPT ![a] = [rf_in[a] EXCEPT !.sec_configured = TRUE]]
    BY <1>1, <1>3 DEF Tune
  <2>2. ASSUME NEW r \in RfIns
        PROVE  /\ rf_in'[r].voltage = rf_in[r].voltage
               /\ rf_in'[r].sec_configured = (rf_in[r].sec_configured \/ r = a)
    <3>1. rf_in[r] \in RfInType
      BY <1>2
    <3> HIDE DEF a
    <3>2. CASE r = a
      BY <1>2, <2>1, <3>1, <3>2 DEF RfInType
    <3>3. CASE r # a
      <4>1. rf_in'[r] = rf_in[r] /\ rf_in[r].sec_configured \in BOOLEAN
        BY <1>2, <2>1, <3>1, <3>3 DEF RfInType
      <4> QED
        BY <3>3, <4>1
    <3> QED
      BY <3>2, <3>3
  <2> QED
    BY <1>3, <2>1, <2>2 DEF Tune
<1>4. ASSUME VoltageCommit(d)
      PROVE  /\ a \in RfIns /\ pc[d].at = "volt_commit"
             /\ UNCHANGED <<rf_in_res, active_tuner, is_master, legacy_rf_in, quattro, lnb>>
             /\ \A r \in RfIns : rf_in'[r].sec_configured = rf_in[r].sec_configured
             /\ \/ UNCHANGED rf_in /\ Return(d)
                \/ /\ rf_in_res[a].use_count > 1 => legacy_rf_in[d]
                   /\ Goto(d, "volt_hw", pc[d].arg)
                   /\ rf_in'[a].voltage = pc[d].arg
                   /\ \A r \in RfIns : r # a => rf_in'[r] = rf_in[r]
  <2>1. pc[d].at = "volt_commit" /\ a \in RfIns
    BY <1>1, <1>2, <1>4 DEF VoltageCommit, CommitHasTuner
  <2>2. \/ UNCHANGED rf_in /\ Return(d)
        \/ /\ rf_in_res[a].use_count > 1 => legacy_rf_in[d]
           /\ Goto(d, "volt_hw", pc[d].arg)
           /\ rf_in' = [rf_in EXCEPT ![a] = [rf_in[a] EXCEPT !.voltage = pc[d].arg]]
    BY <1>1, <1>4 DEF VoltageCommit
  <2>3. UNCHANGED <<rf_in_res, active_tuner, is_master, legacy_rf_in, quattro, lnb>>
    BY <1>4 DEF VoltageCommit
  <2>4. \A r \in RfIns : rf_in[r] \in RfInType
    BY <1>2
  <2> HIDE DEF a
  <2> QED
    BY <1>2, <2>1, <2>2, <2>3, <2>4 DEF RfInType
<1>5. ASSUME VoltageHw(d)
      PROVE  /\ a \in RfIns /\ pc[d].at = "volt_hw"
             /\ UNCHANGED <<rf_in_res, rf_in, active_tuner, is_master, legacy_rf_in, quattro>>
             /\ Return(d)
             /\ lnb' = [lnb EXCEPT ![a] = pc[d].arg]
  BY <1>1, <1>2, <1>5 DEF VoltageHw, CommitHasTuner, res_vars
<1> QED
  BY <1>3, <1>4, <1>5

-----------------------------------------------------------------------------
(***************************************************************************)
(* Consistency of what a granted request finds.                            *)
(***************************************************************************)
\* On a card with one chip no message "BUG: ..." of reserve_tuner_and_rf_in_ and
\* stid135_select_rf_in_ is printed for a request that is granted.  With two chips
\* the use count of the tuner says nothing about the other chip's demods.
THEOREM NeverBugMessages ==
  ASSUME OneChipOnly
  PROVE  Spec => []NoBugMessages
<1>1. ASSUME IInv PROVE NoBugMessages
  <2> SUFFICES ASSUME NEW d \in Demods, NEW ic \in RfInputControl,
                      Granted(d, ic, ic.config_id < 0)
               PROVE  LET t == TunerOf(d, ic.rf_in)
                          Consistent(res, same) ==
                            /\ res.owner \in {NoOwner, ic.owner}
                            /\ (WillBeMaster(d, ic) /\ res.config_id >= 0
                                  /\ res.use_count > (IF same THEN 1 ELSE 0))
                                 => res.config_id = ic.config_id
                      IN  /\ Consistent(rf_in_res[ic.rf_in], SameRfIn(d, ic))
                          /\ Consistent(tuner_res[t], SameTuner(d, ic))
                          /\ tuner[t].powered_on => tuner[t].active_rf_in = ic.rf_in
    BY DEF NoBugMessages
  <2> DEFINE x == ic.rf_in
             t == TunerOf(d, x)
             legacy == ic.config_id < 0
  <2>1. Core /\ ic \in Request /\ legacy \in BOOLEAN
    BY <1>1, RequestTypes DEF IInv
  <2>2. x \in RfIns /\ t \in TunerIds /\ t[2] = x /\ ChipOf[d] \in Chips
    BY <2>1, ConstantsAssumption DEF Request, TunerOf, TunerIds
  <2>3. RfInUsers(x) = TunerUsers(t)
    BY DEF RfInUsers, TunerUsers, TunerOf, OneChipOnly
  <2>4. rf_in_res[x].use_count = tuner_res[t].use_count /\ tuner_res[t].use_count \in Nat
    BY <2>1, <2>2, <2>3 DEF Core, UseCountsExact, TypeCore, Reservation
  <2>5. SameRfIn(d, ic) <=> SameTuner(d, ic)
    BY <2>1, ActiveRfInFacts DEF SameRfIn, SameTuner
  <2>6. /\ rf_in_res[x].owner \in {NoOwner, ic.owner}
        /\ tuner_res[t].owner \in {NoOwner, ic.owner}
    <3>1. /\ RfInUsers(x) # {} => rf_in_res[x].owner = ic.owner
          /\ TunerUsers(t) # {} => tuner_res[t].owner = ic.owner
      <4> HIDE DEF legacy
      <4>1. Granted(d, ic, legacy)
        BY DEF legacy
      <4> QED
        BY <2>1, <4>1, GrantedOwner
    <3>2. /\ RfInUsers(x) = {} => rf_in_res[x] = Free
          /\ TunerUsers(t) = {} => tuner_res[t] = Free
      BY <2>1, <2>2 DEF Core, PowerFollowsUse
    <3> QED
      BY <3>1, <3>2 DEF Free
  <2>7. WillBeMaster(d, ic) =>
          ~(tuner_res[t].use_count > (IF SameTuner(d, ic) THEN 1 ELSE 0))
    BY <2>4 DEF WillBeMaster, TunerShared
  <2>8. tuner[t].powered_on => tuner[t].active_rf_in = x
    BY <2>1, <2>2 DEF Core, PowerFollowsUse
  <2> QED
    BY <2>4, <2>5, <2>6, <2>7, <2>8
<1> QED
  BY <1>1, Invariance, PTL

-----------------------------------------------------------------------------
(***************************************************************************)
(* Quattro mode.                                                           *)
(***************************************************************************)
\* The inductive form: both bits are known, too.
QuattroKnown ==
  \A d \in Demods :
    (active_tuner[d] # None /\ MultiswitchMode = "quattro" /\ ~Reserved(active_tuner[d]))
      => /\ quattro[d].voltage # None /\ quattro[d].tone # None
         /\ active_tuner[d] = quattro[d].voltage + quattro[d].tone

LEMMA QuattroStep ==
  ASSUME IInv, QuattroKnown, Next
  PROVE  QuattroKnown'
<1>1. PICK d \in Demods : Kind(d)
  BY StepKinds
<1>2. /\ Core /\ TypeCore /\ quattro \in [Demods -> BitsType]
      /\ active_tuner \in [Demods -> RfIns \cup {None}]
  BY DEF IInv, Core, TypeCore, TypeRest, BitsType
<1>3. LegacyOwner \notin Owners
  BY ConstantsAssumption DEF LegacyOwner
<1>4. ASSUME NEW ic \in RfInputControl, NEW hwErr \in HwErrs, Chosen(d, ic, hwErr)
      PROVE  QuattroKnown'
  <2>1. ic \in Request /\ Left(d, ic.rf_in) /\ Arrived(d, ic, ~hwErr, FALSE)
        /\ UNCHANGED quattro
    BY <1>4, ChosenMoves DEF Chosen
  <2>2. active_tuner'[d] = ic.rf_in /\ rf_in_res'[ic.rf_in].owner = ic.owner
    BY <1>2, <2>1 DEF Arrived
  <2>3. ic.owner # LegacyOwner
    BY <1>3 DEF RfInputControl
  <2>4. ASSUME NEW e \in Demods, e # d, active_tuner'[e] # None
        PROVE  /\ active_tuner[e] # None /\ active_tuner'[e] = active_tuner[e]
               /\ rf_in_res'[active_tuner[e]].owner = rf_in_res[active_tuner[e]].owner
    <3>1. active_tuner'[e] = active_tuner[e]
      BY <1>2, <2>1, <2>4 DEF Arrived
    <3> QED
      BY <1>2, <2>1, <2>4, <3>1, ArrivalKeepsOthers
  <2> QED
    BY <2>1, <2>2, <2>3, <2>4 DEF QuattroKnown, Reserved
<1>5. ASSUME NEW ic \in Request, NEW bits \in BitsType, NEW hwErr \in HwErrs,
             NEW sec_ready \in BOOLEAN, Found(d, ic, bits, hwErr, sec_ready)
      PROVE  QuattroKnown'
  <2>1. Left(d, ic.rf_in) /\ Arrived(d, ic, ~hwErr, sec_ready)
    BY <1>5, FoundMoves
  <2>2. active_tuner'[d] = ic.rf_in
    BY <1>2, <2>1 DEF Arrived
  <2>3. /\ quattro'[d] = bits /\ \A e \in Demods : e # d => quattro'[e] = quattro[e]
        /\ MultiswitchMode = "quattro" =>
             bits.voltage # None /\ bits.tone # None /\ ic.rf_in = bits.voltage + bits.tone
    BY <1>2, <1>5 DEF Found
  <2>4. ASSUME NEW e \in Demods, e # d, active_tuner'[e] # None
        PROVE  /\ active_tuner[e] # None /\ active_tuner'[e] = active_tuner[e]
               /\ rf_in_res'[active_tuner[e]].owner = rf_in_res[active_tuner[e]].owner
    <3>1. active_tuner'[e] = active_tuner[e]
      BY <1>2, <2>1, <2>4 DEF Arrived
    <3> QED
      BY <1>2, <2>1, <2>4, <3>1, ArrivalKeepsOthers
  <2> QED
    BY <2>2, <2>3, <2>4 DEF QuattroKnown, Reserved
<1>6. ASSUME Sleep(d) PROVE QuattroKnown'
  <2>1. Left(d, None) /\ active_tuner' = [active_tuner EXCEPT ![d] = None]
    BY <1>6, SleepMoves
  <2>2. \A e \in Demods : e # d => quattro'[e] = quattro[e]
    BY <1>2, <1>6 DEF Sleep, Release
  <2>3. ASSUME NEW e \in Demods, active_tuner'[e] # None
        PROVE  /\ e # d /\ active_tuner[e] # None /\ active_tuner'[e] = active_tuner[e]
               /\ rf_in_res'[active_tuner[e]].owner = rf_in_res[active_tuner[e]].owner
    <3>1. e # d /\ active_tuner'[e] = active_tuner[e]
      BY <1>2, <2>1, <2>3
    <3> QED
      BY <1>2, <2>1, <2>3, <3>1, LeavingKeepsOthers
  <2> QED
    BY <2>2, <2>3 DEF QuattroKnown, Reserved
<1>7. ASSUME Tune(d) \/ VoltageCommit(d) \/ VoltageHw(d) PROVE QuattroKnown'
  <2>1. UNCHANGED <<rf_in_res, active_tuner, quattro>>
    BY <1>7, UpdateEffects
  <2> QED
    BY <2>1 DEF QuattroKnown, Reserved
<1>8. ASSUME Quiet(d) PROVE QuattroKnown'
  <2>1. PICK bits : /\ quattro' = [quattro EXCEPT ![d] = bits]
                    /\ quattro[d].voltage # None => bits.voltage = quattro[d].voltage
                    /\ quattro[d].tone # None => bits.tone = quattro[d].tone
    BY <1>8 DEF Quiet
  <2>2. UNCHANGED <<rf_in_res, active_tuner>>
    BY <1>8 DEF Quiet
  <2> QED
    BY <1>2, <2>1, <2>2 DEF QuattroKnown, Reserved
<1> QED
  BY <1>1, <1>4, <1>5, <1>6, <1>7, <1>8 DEF Kind

\* In quattro mode an application that knows of no reservations gets the rf_in of
\* its first voltage and tone, and keeps it whatever it and others ask for later
\* (stid135_set_voltage, stid135_set_tone, stid135_select_rf_in_legacy_): on any
\* card, with or without errors of the hardware.
THEOREM QuattroFollowsFirstRequests == Spec => []QuattroInputFollowsFirstRequests
<1>1. Init => QuattroKnown
  BY DEF Init, QuattroKnown
<1>2. IInv /\ QuattroKnown /\ [Next]_vars => QuattroKnown'
  <2>1. QuattroKnown /\ UNCHANGED vars => QuattroKnown'
    BY DEF QuattroKnown, Reserved, vars
  <2> QED
    BY <2>1, QuattroStep
<1>3. QuattroKnown => QuattroInputFollowsFirstRequests
  BY DEF QuattroKnown, QuattroInputFollowsFirstRequests
<1> QED
  BY <1>1, <1>2, <1>3, Invariance, PTL DEF Spec

-----------------------------------------------------------------------------
(***************************************************************************)
(* The voltage of a shared rf_in.                                          *)
(***************************************************************************)
\* Who is on a reserved rf_in is bound by the reservation.
ReservedNotLegacy ==
  \A d \in Demods :
    active_tuner[d] # None /\ Reserved(active_tuner[d]) => ~legacy_rf_in[d]

\* Nobody changes rf_in->voltage between another call's update of it and that
\* call's access to the chip.
HwAsRecorded ==
  \A d \in Demods :
    pc[d].at = "volt_hw" /\ Reserved(active_tuner[d])
      => rf_in[active_tuner[d]].voltage = pc[d].arg

VoltageInv == ReservedNotLegacy /\ HwAsRecorded /\ RecordedVoltageIsReal

\* Two demods on an rf_in are counted.
LEMMA SharedIsCounted ==
  ASSUME Core, NEW d \in Demods, NEW e \in Demods, e # d,
         active_tuner[d] = active_tuner[e], active_tuner[d] # None
  PROVE  rf_in_res[active_tuner[d]].use_count > 1
<1> DEFINE S == RfInUsers(active_tuner[d])
<1>1. active_tuner[d] \in RfIns /\ rf_in_res[active_tuner[d]].use_count = Cardinality(S)
  BY DEF Core, TypeCore, UseCountsExact
<1>2. d \in S /\ e \in S /\ IsFiniteSet(S)
  BY UsersFinite DEF RfInUsers
<1> HIDE DEF S
<1>3. Cardinality(S) \in Nat /\ Cardinality(S) # 0 /\ Cardinality(S) # 1
  BY <1>2, FS_EmptySet, FS_CardinalityType, LastUser
<1> QED
  BY <1>1, <1>3

LEMMA VoltageChosen ==
  ASSUME IInv, VoltageInv, NoNegativeIds, NEW d \in Demods,
         NEW ic \in RfInputControl, NEW hwErr \in HwErrs, Chosen(d, ic, hwErr)
  PROVE  VoltageInv'
<1> DEFINE x == ic.rf_in
<1>1. /\ Core /\ TypeCore /\ active_tuner \in [Demods -> RfIns \cup {None}]
      /\ legacy_rf_in \in [Demods -> BOOLEAN]
  BY DEF IInv, Core, TypeCore, TypeRest
<1>2. ic \in Request /\ Left(d, x) /\ Arrived(d, ic, ~hwErr, FALSE)
  BY ChosenMoves
<1>3. /\ pc[d] = Idle /\ UNCHANGED pc
      /\ legacy_rf_in' = [legacy_rf_in EXCEPT ![d] = ic.config_id < 0]
      /\ ~(ic.config_id < 0)
      /\ Idle.at # "volt_hw" /\ x \in RfIns /\ x # None
  <2>1. ic.config_id \in Nat /\ x \in RfIns
    BY DEF NoNegativeIds, RfInputControl
  <2>2. ~(ic.config_id < 0)
    BY <2>1
  <2> QED
    BY <2>1, <2>2, NoneIsNoRfIn DEF Chosen, Idle
<1>4. active_tuner' = [active_tuner EXCEPT ![d] = x]
  BY <1>2 DEF Arrived
<1>5. ASSUME NEW e \in Demods, e # d, active_tuner'[e] # None
      PROVE  LET r == active_tuner[e]
             IN  /\ r # None /\ active_tuner'[e] = r
                 /\ rf_in_res'[r].owner = rf_in_res[r].owner
                 /\ rf_in'[r].voltage = rf_in[r].voltage
  <2>1. active_tuner'[e] = active_tuner[e]
    BY <1>1, <1>4, <1>5
  <2> QED
    BY <1>1, <1>2, <1>5, <2>1, ArrivalKeepsOthers
<1>6. ReservedNotLegacy'
  BY <1>1, <1>3, <1>5 DEF ReservedNotLegacy, VoltageInv, Reserved
<1>7. HwAsRecorded'
  <2>1. \A e \in Demods : pc[e].at = "volt_hw" => e # d /\ active_tuner'[e] # None
    BY <1>1, <1>3, <1>4 DEF IInv, CommitHasTuner
  <2> QED
    BY <1>3, <1>5, <2>1 DEF HwAsRecorded, VoltageInv, Reserved
<1>8. RecordedVoltageIsReal'
  <2>1. \A r \in RfIns : RfInUsers(r)' = IF r = x THEN RfInUsers(r) \cup {d}
                                                  ELSE RfInUsers(r) \ {d}
    BY <1>1, <1>3, <1>4, MoveUsers
  <2>2. ASSUME NEW r \in RfIns, Reserved(r)' \/ RfInUsers(r)' = {},
               \A e \in RfInUsers(r)' : pc[e].at # "volt_hw"
        PROVE  lnb'[r] = rf_in'[r].voltage
    <3>1. \A e \in RfInUsers(r) : pc[e].at # "volt_hw"
      BY <1>3, <2>1, <2>2
    <3>2. CASE r = x /\ RfInUsers(r) = {}
      <4>1. lnb[r] = rf_in[r].voltage /\ rf_in[r].voltage = "off"
        BY <1>1, <3>2 DEF VoltageInv, RecordedVoltageIsReal, Core, PowerFollowsUse
      <4> QED
        BY <1>2, <3>2, <4>1 DEF Arrived
    <3>3. CASE r = x /\ RfInUsers(r) # {}
      <4>1. Reserved(r)
        BY <1>2, <2>1, <2>2, <3>3 DEF Arrived, Reserved
      <4>2. lnb[r] = rf_in[r].voltage
        BY <3>1, <4>1 DEF VoltageInv, RecordedVoltageIsReal
      <4> QED
        BY <1>2, <3>3, <4>2 DEF Arrived
    <3>4. CASE r # x /\ active_tuner[d] = r /\ RfInUsers(r) = {d}
      BY <1>2, <3>4 DEF Left
    <3>5. CASE r # x /\ ~(active_tuner[d] = r /\ RfInUsers(r) = {d})
      <4>1. /\ rf_in_res'[r].owner = rf_in_res[r].owner /\ lnb'[r] = lnb[r]
            /\ rf_in'[r] = rf_in[r]
        BY <1>2, <3>5 DEF Left
      <4>2. Reserved(r) \/ RfInUsers(r) = {}
        <5>1. d \in RfInUsers(r) => active_tuner[d] = r
          BY DEF RfInUsers
        <5> QED
          BY <2>1, <2>2, <3>5, <4>1, <5>1 DEF Reserved
      <4> QED
        BY <3>1, <4>1, <4>2 DEF VoltageInv, RecordedVoltageIsReal
    <3> QED
      BY <3>2, <3>3, <3>4, <3>5
  <2> QED
    BY <1>3, <2>2 DEF RecordedVoltageIsReal
<1> QED
  BY <1>6, <1>7, <1>8 DEF VoltageInv

LEMMA VoltageFound ==
  ASSUME IInv, VoltageInv, NEW d \in Demods, NEW ic \in Request, NEW bits \in BitsType,
         NEW hwErr \in HwErrs, NEW sec_ready \in BOOLEAN,
         Found(d, ic, bits, hwErr, sec_ready)
  PROVE  VoltageInv'
<1> DEFINE x == ic.rf_in
<1>1. /\ Core /\ TypeCore /\ active_tuner \in [Demods -> RfIns \cup {None}]
      /\ legacy_rf_in \in [Demods -> BOOLEAN]
  BY DEF IInv, Core, TypeCore, TypeRest
<1>2. Left(d, x) /\ Arrived(d, ic, ~hwErr, sec_ready)
  BY FoundMoves
<1>3. /\ pc[d] = Idle /\ active_tuner[d] = None
      /\ legacy_rf_in' = [legacy_rf_in EXCEPT ![d] = TRUE]
      /\ Idle.at # "volt_hw" /\ x \in RfIns /\ x # None /\ ic.owner = LegacyOwner
  BY NoneIsNoRfIn DEF Found, Request, Idle
<1>4. /\ active_tuner' = [active_tuner EXCEPT ![d] = x]
      /\ rf_in_res'[x].owner = LegacyOwner
  BY <1>2, <1>3 DEF Arrived
<1>5. ASSUME NEW e \in Demods, e # d, active_tuner'[e] # None
      PROVE  LET r == active_tuner[e]
             IN  /\ r # None /\ active_tuner'[e] = r
                 /\ rf_in_res'[r].owner = rf_in_res[r].owner
                 /\ rf_in'[r].voltage = rf_in[r].voltage
  <2>1. active_tuner'[e] = active_tuner[e]
    BY <1>1, <1>4, <1>5
  <2> QED
    BY <1>1, <1>2, <1>5, <2>1, ArrivalKeepsOthers
<1>6. PICK p : pc' = [pc EXCEPT ![d] = p] /\ p.at # "volt_hw"
  BY DEF Found
<1>7. pc'[d].at # "volt_hw" /\ \A e \in Demods : e # d => pc'[e] = pc[e]
  BY <1>6 DEF IInv, TypeRest
<1>8. ReservedNotLegacy'
  BY <1>1, <1>3, <1>4, <1>5 DEF ReservedNotLegacy, VoltageInv, Reserved
<1>9. HwAsRecorded'
  <2>1. \A e \in Demods : pc'[e].at = "volt_hw" =>
          e # d /\ active_tuner'[e] # None /\ pc'[e] = pc[e]
    BY <1>1, <1>4, <1>7 DEF IInv, CommitHasTuner
  <2> QED
    BY <1>5, <2>1 DEF HwAsRecorded, VoltageInv, Reserved
<1>10. RecordedVoltageIsReal'
  <2>1. \A r \in RfIns : RfInUsers(r)' = IF r = x THEN RfInUsers(r) \cup {d}
                                                  ELSE RfInUsers(r) \ {d}
    BY <1>1, <1>3, <1>4, MoveUsers
  <2>2. ASSUME NEW r \in RfIns, Reserved(r)' \/ RfInUsers(r)' = {},
               \A e \in RfInUsers(r)' : pc'[e].at # "volt_hw"
        PROVE  lnb'[r] = rf_in'[r].voltage
    <3>1. r # x
      BY <1>4, <2>1, <2>2 DEF Reserved
    <3>2. RfInUsers(r)' = RfInUsers(r) /\ d \notin RfInUsers(r)
      BY <1>3, <2>1, <3>1, NoneIsNoRfIn DEF RfInUsers
    <3>3. /\ rf_in_res'[r].owner = rf_in_res[r].owner /\ lnb'[r] = lnb[r]
          /\ rf_in'[r] = rf_in[r]
      BY <1>2, <1>3, <3>1, NoneIsNoRfIn DEF Left
    <3>4. \A e \in RfInUsers(r) : pc[e].at # "volt_hw"
      BY <1>7, <2>2, <3>2 DEF RfInUsers
    <3> QED
      BY <2>2, <3>2, <3>3, <3>4 DEF VoltageInv, RecordedVoltageIsReal, Reserved
  <2> QED
    BY <2>2 DEF RecordedVoltageIsReal
<1> QED
  BY <1>8, <1>9, <1>10 DEF VoltageInv

LEMMA VoltageSleep ==
  ASSUME IInv, VoltageInv, NEW d \in Demods, Sleep(d)
  PROVE  VoltageInv'
<1>1. /\ Core /\ TypeCore /\ active_tuner \in [Demods -> RfIns \cup {None}]
      /\ legacy_rf_in \in [Demods -> BOOLEAN]
  BY DEF IInv, Core, TypeCore, TypeRest
<1>2. Left(d, None) /\ active_tuner' = [active_tuner EXCEPT ![d] = None]
  BY SleepMoves
<1>3. /\ pc[d] = Idle /\ UNCHANGED pc
      /\ legacy_rf_in' = [legacy_rf_in EXCEPT ![d] = FALSE]
      /\ Idle.at # "volt_hw"
  BY DEF Sleep, Release, Idle
<1>4. ASSUME NEW e \in Demods, e # d, active_tuner'[e] # None
      PROVE  LET r == active_tuner[e]
             IN  /\ r # None /\ active_tuner'[e] = r
                 /\ rf_in_res'[r].owner = rf_in_res[r].owner
                 /\ rf_in'[r] = rf_in[r]
  <2>1. active_tuner'[e] = active_tuner[e]
    BY <1>1, <1>2, <1>4
  <2> QED
    BY <1>1, <1>2, <1>4, <2>1, LeavingKeepsOthers
<1>5. ReservedNotLegacy'
  BY <1>1, <1>3, <1>4 DEF ReservedNotLegacy, VoltageInv, Reserved
<1>6. HwAsRecorded'
  <2>1. \A e \in Demods : pc[e].at = "volt_hw" => e # d /\ active_tuner'[e] # None
    BY <1>1, <1>2, <1>3 DEF IInv, CommitHasTuner
  <2> QED
    BY <1>3, <1>4, <2>1 DEF HwAsRecorded, VoltageInv, Reserved
<1>7. RecordedVoltageIsReal'
  <2>1. \A r \in RfIns : RfInUsers(r)' = RfInUsers(r) \ {d}
    <3>1. None \in RfIns \cup {None} /\ None \notin RfIns
      BY NoneIsNoRfIn
    <3> QED
      BY <1>1, <1>2, <3>1, MoveUsers
  <2>2. ASSUME NEW r \in RfIns, Reserved(r)' \/ RfInUsers(r)' = {},
               \A e \in RfInUsers(r)' : pc[e].at # "volt_hw"
        PROVE  lnb'[r] = rf_in'[r].voltage
    <3>1. r # None
      BY NoneIsNoRfIn
    <3>2. CASE active_tuner[d] = r /\ RfInUsers(r) = {d}
      BY <1>2, <3>1, <3>2 DEF Left
    <3>3. CASE ~(active_tuner[d] = r /\ RfInUsers(r) = {d})
      <4>1. /\ rf_in_res'[r].owner = rf_in_res[r].owner /\ lnb'[r] = lnb[r]
            /\ rf_in'[r] = rf_in[r]
        BY <1>2, <3>1, <3>3 DEF Left
      <4>2. d \in RfInUsers(r) => active_tuner[d] = r
        BY DEF RfInUsers
      <4>3. Reserved(r) \/ RfInUsers(r) = {}
        BY <2>1, <2>2, <3>3, <4>1, <4>2 DEF Reserved
      <4>4. \A e \in RfInUsers(r) : pc[e].at # "volt_hw"
        BY <1>3, <2>1, <2>2
      <4> QED
        BY <4>1, <4>3, <4>4 DEF VoltageInv, RecordedVoltageIsReal
    <3> QED
      BY <3>2, <3>3
  <2> QED
    BY <1>3, <2>2 DEF RecordedVoltageIsReal
<1> QED
  BY <1>5, <1>6, <1>7 DEF VoltageInv

LEMMA VoltageStep ==
  ASSUME IInv, VoltageInv, NoNegativeIds, Next
  PROVE  VoltageInv'
<1>1. PICK d \in Demods : Kind(d)
  BY StepKinds
<1>2. /\ Core /\ TypeCore /\ active_tuner \in [Demods -> RfIns \cup {None}]
      /\ legacy_rf_in \in [Demods -> BOOLEAN] /\ lnb \in [RfIns -> Voltages]
      /\ DOMAIN pc = Demods
  BY DEF IInv, Core, TypeCore, TypeRest
<1>3. UNCHANGED active_tuner => \A r : RfInUsers(r)' = RfInUsers(r)
  BY DEF RfInUsers
<1>4. Idle.at # "volt_hw"
  BY DEF Idle
<1>5. ASSUME Tune(d) PROVE VoltageInv'
  <2>1. /\ UNCHANGED <<rf_in_res, active_tuner, legacy_rf_in, pc, lnb>>
        /\ \A r \in RfIns : rf_in'[r].voltage = rf_in[r].voltage
    BY <1>5, UpdateEffects
  <2>2. \A e \in Demods : pc[e].at = "volt_hw" => active_tuner[e] \in RfIns
    BY <1>2 DEF IInv, CommitHasTuner
  <2> QED
    BY <1>3, <2>1, <2>2
    DEF VoltageInv, ReservedNotLegacy, HwAsRecorded, RecordedVoltageIsReal, Reserved
<1>6. ASSUME VoltageCommit(d) PROVE VoltageInv'
  <2> DEFINE a == active_tuner[d]
  <2>1. /\ a \in RfIns /\ pc[d].at = "volt_commit"
        /\ UNCHANGED <<rf_in_res, active_tuner, legacy_rf_in, lnb>>
        /\ \/ UNCHANGED rf_in /\ Return(d)
           \/ /\ rf_in_res[a].use_count > 1 => legacy_rf_in[d]
              /\ Goto(d, "volt_hw", pc[d].arg)
              /\ rf_in'[a].voltage = pc[d].arg
              /\ \A r \in RfIns : r # a => rf_in'[r] = rf_in[r]
    BY <1>6, UpdateEffects
  <2>2. ReservedNotLegacy'
    BY <2>1 DEF VoltageInv, ReservedNotLegacy, Reserved
  <2>3. CASE UNCHANGED rf_in /\ Return(d)
    <3>1. pc'[d].at # "volt_hw" /\ \A e \in Demods : e # d => pc'[e] = pc[e]
      BY <1>2, <1>4, <2>3 DEF Return
    <3>2. HwAsRecorded'
      BY <2>1, <2>3, <3>1 DEF VoltageInv, HwAsRecorded, Reserved
    <3>3. \A r \in RfIns : (\A e \in RfInUsers(r) : pc'[e].at # "volt_hw")
                           => \A e \in RfInUsers(r) : pc[e].at # "volt_hw"
      BY <2>1, <3>1 DEF RfInUsers
    <3>4. RecordedVoltageIsReal'
      BY <1>3, <2>1, <2>3, <3>3 DEF VoltageInv, RecordedVoltageIsReal, Reserved
    <3> QED
      BY <2>2, <3>2, <3>4 DEF VoltageInv
  <2>4. CASE /\ rf_in_res[a].use_count > 1 => legacy_rf_in[d]
             /\ Goto(d, "volt_hw", pc[d].arg)
             /\ rf_in'[a].voltage = pc[d].arg
             /\ \A r \in RfIns : r # a => rf_in'[r] = rf_in[r]
    <3>1. /\ pc'[d].at = "volt_hw" /\ pc'[d].arg = pc[d].arg
          /\ \A e \in Demods : e # d => pc'[e] = pc[e]
      BY <1>2, <2>4 DEF Goto
    <3>2. ASSUME NEW e \in Demods, pc'[e].at = "volt_hw", Reserved(active_tuner[e])
          PROVE  rf_in'[active_tuner[e]].voltage = pc'[e].arg
      <4>1. CASE e = d
        BY <2>4, <3>1, <4>1
      <4>2. CASE e # d /\ active_tuner[e] = a
        <5>1. rf_in_res[a].use_count > 1
          BY <1>2, <2>1, <4>2, SharedIsCounted, NoneIsNoRfIn
        <5>2. ~legacy_rf_in[d]
          BY <2>1, <3>2, <4>2, NoneIsNoRfIn DEF VoltageInv, ReservedNotLegacy
        <5> QED
          BY <2>4, <5>1, <5>2
      <4>3. CASE e # d /\ active_tuner[e] # a
        <5>1. pc'[e] = pc[e] /\ active_tuner[e] \in RfIns
          BY <1>2, <3>1, <3>2, <4>3 DEF IInv, CommitHasTuner
        <5> QED
          BY <2>4, <3>2, <4>3, <5>1 DEF VoltageInv, HwAsRecorded
      <4> QED
        BY <4>1, <4>2, <4>3
    <3>3. HwAsRecorded'
      BY <2>1, <3>2 DEF HwAsRecorded, Reserved
    <3>4. ASSUME NEW r \in RfIns, Reserved(r) \/ RfInUsers(r) = {},
                 \A e \in RfInUsers(r) : pc'[e].at # "volt_hw"
          PROVE  lnb'[r] = rf_in'[r].voltage
      <4>1. r # a
        BY <3>1, <3>4 DEF RfInUsers
      <4>2. \A e \in RfInUsers(r) : pc[e].at # "volt_hw"
        BY <2>1, <3>1, <3>4 DEF RfInUsers
      <4> QED
        BY <2>1, <2>4, <3>4, <4>1, <4>2 DEF VoltageInv, RecordedVoltageIsReal
    <3>5. RecordedVoltageIsReal'
      BY <1>3, <2>1, <3>4 DEF RecordedVoltageIsReal, Reserved
    <3> QED
      BY <2>2, <3>3, <3>5 DEF VoltageInv
  <2> QED
    BY <2>1, <2>3, <2>4
<1>7. ASSUME VoltageHw(d) PROVE VoltageInv'
  <2> DEFINE a == active_tuner[d]
  <2>1. /\ a \in RfIns /\ pc[d].at = "volt_hw"
        /\ UNCHANGED <<rf_in_res, rf_in, active_tuner, legacy_rf_in>>
        /\ Return(d)
        /\ lnb' = [lnb EXCEPT ![a] = pc[d].arg]
    BY <1>7, UpdateEffects
  <2>2. pc'[d].at # "volt_hw" /\ \A e \in Demods : e # d => pc'[e] = pc[e]
    BY <1>2, <1>4, <2>1 DEF Return
  <2>3. ReservedNotLegacy'
    BY <2>1 DEF VoltageInv, ReservedNotLegacy, Reserved
  <2>4. HwAsRecorded'
    BY <2>1, <2>2 DEF VoltageInv, HwAsRecorded, Reserved
  <2>5. ASSUME NEW r \in RfIns, Reserved(r) \/ RfInUsers(r) = {},
               \A e \in RfInUsers(r) : pc'[e].at # "volt_hw"
        PROVE  lnb'[r] = rf_in'[r].voltage
    <3>1. CASE r = a
      <4>1. Reserved(a)
        BY <2>5, <3>1 DEF RfInUsers
      <4> QED
        BY <1>2, <2>1, <3>1, <4>1 DEF VoltageInv, HwAsRecorded
    <3>2. CASE r # a
      <4>1. \A e \in RfInUsers(r) : pc[e].at # "volt_hw"
        BY <2>2, <2>5, <3>2 DEF RfInUsers
      <4> QED
        BY <1>2, <2>1, <2>5, <3>2, <4>1 DEF VoltageInv, RecordedVoltageIsReal
    <3> QED
      BY <3>1, <3>2
  <2>6. RecordedVoltageIsReal'
    BY <1>3, <2>1, <2>5 DEF RecordedVoltageIsReal, Reserved
  <2> QED
    BY <2>3, <2>4, <2>6 DEF VoltageInv
<1>8. ASSUME Quiet(d) PROVE VoltageInv'
  <2>1. /\ UNCHANGED <<rf_in_res, active_tuner, lnb>> /\ pc[d].at # "volt_hw"
        /\ \A r \in RfIns : rf_in'[r].voltage = rf_in[r].voltage
    BY <1>8 DEF Quiet
  <2>2. PICK b \in BOOLEAN : /\ legacy_rf_in' = [legacy_rf_in EXCEPT ![d] = b]
                             /\ b => \/ active_tuner[d] = None
                                     \/ legacy_rf_in[d]
                                     \/ ~NoNegativeIds
    BY <1>8 DEF Quiet
  <2>3. PICK p : pc' = [pc EXCEPT ![d] = p] /\ p.at # "volt_hw"
    BY <1>8 DEF Quiet
  <2>4. pc'[d].at # "volt_hw" /\ \A e \in Demods : e # d => pc'[e] = pc[e]
    BY <1>2, <2>3
  <2>5. ReservedNotLegacy'
    BY <1>2, <2>1, <2>2 DEF VoltageInv, ReservedNotLegacy, Reserved
  <2>6. HwAsRecorded'
    <3>1. \A e \in Demods : pc'[e].at = "volt_hw" => pc'[e] = pc[e] /\ active_tuner[e] \in RfIns
      BY <1>2, <2>4 DEF IInv, CommitHasTuner
    <3> QED
      BY <2>1, <3>1 DEF VoltageInv, HwAsRecorded, Reserved
  <2>7. \A r \in RfIns : (\A e \in RfInUsers(r) : pc'[e].at # "volt_hw")
                         => \A e \in RfInUsers(r) : pc[e].at # "volt_hw"
    BY <2>1, <2>4 DEF RfInUsers
  <2>8. RecordedVoltageIsReal'
    BY <1>3, <2>1, <2>7 DEF VoltageInv, RecordedVoltageIsReal, Reserved
  <2> QED
    BY <2>5, <2>6, <2>8 DEF VoltageInv
<1> QED
  BY <1>1, <1>5, <1>6, <1>7, <1>8, VoltageChosen, VoltageFound, VoltageSleep DEF Kind

LEMMA VoltageInvariance ==
  ASSUME NoNegativeIds
  PROVE  Spec => []VoltageInv
<1>1. Init => VoltageInv
  BY DEF Init, VoltageInv, ReservedNotLegacy, HwAsRecorded, RecordedVoltageIsReal, Idle
<1>2. IInv /\ VoltageInv /\ [Next]_vars => VoltageInv'
  <2>1. VoltageInv /\ UNCHANGED vars => VoltageInv'
    BY DEF VoltageInv, ReservedNotLegacy, HwAsRecorded, RecordedVoltageIsReal,
           Reserved, RfInUsers, vars
  <2> QED
    BY <2>1, VoltageStep
<1> QED
  BY <1>1, <1>2, Invariance, PTL DEF Spec

\* Unless an application passes a negative configuration id, the LNB of a reserved
\* or free rf_in gets the voltage that rf_in->voltage records, except during a call
\* of stid135_set_voltage: on any card, although the chip is written after the card
\* mutex was released, and with or without errors of the hardware.
THEOREM RecordedVoltageIsAlwaysReal ==
  ASSUME NoNegativeIds
  PROVE  Spec => []RecordedVoltageIsReal
<1>1. VoltageInv => RecordedVoltageIsReal
  BY DEF VoltageInv
<1> QED
  BY <1>1, VoltageInvariance, PTL

\* Under the same condition nobody changes the recorded voltage of a reserved rf_in
\* while several demods share it (the use_count test of stid135_set_voltage, the
\* selections and the releases in stid135_select_rf_in_).
THEOREM SharedVoltageIsAlwaysStable ==
  ASSUME NoNegativeIds
  PROVE  Spec => SharedVoltageIsStable
<1> DEFINE Stable == \A r \in RfIns :
                       (Reserved(r) /\ Cardinality(RfInUsers(r)) > 1)
                       => rf_in'[r].voltage = rf_in[r].voltage
<1>1. ASSUME IInv, VoltageInv, Next PROVE Stable
  <2> SUFFICES ASSUME NEW r \in RfIns, Reserved(r), Cardinality(RfInUsers(r)) > 1
               PROVE  rf_in'[r].voltage = rf_in[r].voltage
    OBVIOUS
  <2>1. PICK d \in Demods : Kind(d)
    BY <1>1, StepKinds
  <2>2. Core /\ rf_in_res[r].use_count > 1 /\ None # r
    BY <1>1, NoneIsNoRfIn DEF IInv, Core, UseCountsExact
  <2>3. RfInUsers(r) # {d} /\ RfInUsers(r) # {}
    <3>1. Cardinality({}) = 0 /\ Cardinality({d}) = 1
      BY FS_EmptySet, FS_Singleton
    <3> QED
      BY <3>1
  <2>4. ASSUME NEW ic \in RfInputControl, NEW hwErr \in HwErrs, Chosen(d, ic, hwErr)
        PROVE  rf_in'[r].voltage = rf_in[r].voltage
    BY <1>1, <2>3, <2>4, ChosenMoves DEF Left, Arrived
  <2>5. ASSUME NEW ic \in Request, NEW bits \in BitsType, NEW hwErr \in HwErrs,
               NEW sec_ready \in BOOLEAN, Found(d, ic, bits, hwErr, sec_ready)
        PROVE  rf_in'[r].voltage = rf_in[r].voltage
    <3>1. Left(d, ic.rf_in) /\ Arrived(d, ic, ~hwErr, sec_ready)
      BY <1>1, <2>5, FoundMoves
    <3> QED
      BY <2>3, <3>1 DEF Left, Arrived
  <2>6. ASSUME Sleep(d) PROVE rf_in'[r].voltage = rf_in[r].voltage
    BY <1>1, <2>2, <2>3, <2>6, SleepMoves DEF Left
  <2>7. ASSUME Tune(d) \/ VoltageHw(d) \/ Quiet(d)
        PROVE  rf_in'[r].voltage = rf_in[r].voltage
    BY <1>1, <2>7, UpdateEffects DEF Quiet
  <2>8. ASSUME VoltageCommit(d) PROVE rf_in'[r].voltage = rf_in[r].voltage
    <3>1. active_tuner[d] = r => ~legacy_rf_in[d]
      BY <1>1, <2>2 DEF VoltageInv, ReservedNotLegacy
    <3> QED
      BY <1>1, <2>2, <2>8, <3>1, UpdateEffects
  <2> QED
    BY <2>1, <2>4, <2>5, <2>6, <2>7, <2>8 DEF Kind
<1>2. IInv /\ VoltageInv /\ [Next]_vars => [Stable]_vars
  BY <1>1
<1> QED
  BY <1>2, Invariance, VoltageInvariance, PTL DEF Spec, SharedVoltageIsStable

-----------------------------------------------------------------------------
(***************************************************************************)
(* The secondary equipment of a shared rf_in.                              *)
(***************************************************************************)
\* On a card with one chip a new master is alone on its rf_in.
LEMMA MasterAlone ==
  ASSUME Core, OneChipOnly, NEW d \in Demods, NEW ic \in Request, WillBeMaster(d, ic)
  PROVE  RfInUsers(ic.rf_in) \subseteq {d}
BY NotSharedAlone DEF WillBeMaster, OneChipOnly, RfInUsers

\* A slave that is not legacy was admitted because the equipment was ready.
LEMMA SlaveWasReady ==
  ASSUME NEW d \in Demods, NEW ic \in Request, Granted(d, ic, FALSE), ~WillBeMaster(d, ic)
  PROVE  rf_in[ic.rf_in].sec_configured
BY DEF Granted, Verdict

\* The secondary equipment of a reserved rf_in is configured for every slave on it,
\* whoever comes and goes (reserve_tuner_and_rf_in_, stid135_select_rf_in_): on a card
\* with one chip that can be accessed without errors, and whose applications pass no
\* negative configuration ids.
THEOREM SlavesAlwaysFindEquipmentReady ==
  ASSUME HwErrs = {FALSE}, OneChipOnly, NoNegativeIds
  PROVE  Spec => []SlavesFindEquipmentReady
<1> DEFINE Inv == SlavesFindEquipmentReady
<1>1. Init => Inv
  BY DEF Init, SlavesFindEquipmentReady
<1>2. ASSUME IInv, Inv, Next PROVE Inv'
  <2>1. PICK d \in Demods : Kind(d)
    BY <1>2, StepKinds
  <2>2. /\ Core /\ active_tuner \in [Demods -> RfIns \cup {None}]
        /\ is_master \in [Demods -> BOOLEAN] /\ rf_in \in [RfIns -> RfInType]
    BY <1>2 DEF IInv, Core, TypeCore, RfInType
  <2>3. ASSUME NEW ic \in RfInputControl, NEW hwErr \in HwErrs, Chosen(d, ic, hwErr)
        PROVE  Inv'
    <3> DEFINE x == ic.rf_in
               m == WillBeMaster(d, ic)
    <3>1. ic \in Request /\ Left(d, x) /\ Arrived(d, ic, TRUE, FALSE)
      BY <1>2, <2>3, ChosenMoves
    <3>2. Granted(d, ic, FALSE) /\ is_master' = [is_master EXCEPT ![d] = m]
      <4>1. ic.config_id \in Nat
        BY DEF NoNegativeIds, RfInputControl
      <4>2. (ic.config_id < 0) = FALSE
        BY <4>1
      <4> QED
        BY <2>3, <4>2 DEF Chosen, Select
    <3>3. rf_in'[x].sec_configured = (~m /\ rf_in[x].sec_configured)
          /\ active_tuner' = [active_tuner EXCEPT ![d] = x]
      BY <3>1 DEF Arrived
    <3>4. m => RfInUsers(x) \subseteq {d}
      BY <2>2, <3>1, MasterAlone
    <3>5. ~m => rf_in[x].sec_configured
      BY <3>1, <3>2, SlaveWasReady
    <3> HIDE DEF m
    <3>6. ASSUME NEW e \in Demods, active_tuner'[e] # None, ~is_master'[e],
                 rf_in_res'[active_tuner'[e]].owner # LegacyOwner
          PROVE  rf_in'[active_tuner'[e]].sec_configured
      <4>1. CASE e = d
        BY <2>2, <3>2, <3>3, <3>5, <3>6, <4>1
      <4>2. CASE e # d
        <5>1. active_tuner'[e] = active_tuner[e] /\ is_master'[e] = is_master[e]
          BY <2>2, <3>2, <3>3, <4>2
        <5>2. /\ rf_in_res'[active_tuner[e]].owner = rf_in_res[active_tuner[e]].owner
              /\ active_tuner[e] # x => rf_in'[active_tuner[e]] = rf_in[active_tuner[e]]
          BY <2>2, <3>1, <3>6, <4>2, <5>1, ArrivalKeepsOthers
        <5>3. rf_in[active_tuner[e]].sec_configured
          BY <1>2, <3>6, <5>1, <5>2 DEF SlavesFindEquipmentReady, Reserved
        <5>4. active_tuner[e] = x => ~m
          BY <3>4, <4>2 DEF RfInUsers
        <5> QED
          BY <3>3, <5>1, <5>2, <5>3, <5>4
      <4> QED
        BY <4>1, <4>2
    <3> QED
      BY <3>6 DEF SlavesFindEquipmentReady, Reserved
  <2>4. ASSUME NEW ic \in Request, NEW bits \in BitsType, NEW hwErr \in HwErrs,
               NEW sec_ready \in BOOLEAN, Found(d, ic, bits, hwErr, sec_ready)
        PROVE  Inv'
    <3> DEFINE x == ic.rf_in
    <3>1. Left(d, x) /\ Arrived(d, ic, ~hwErr, sec_ready)
      BY <1>2, <2>4, FoundMoves
    <3>2. /\ rf_in_res'[x].owner = LegacyOwner
          /\ active_tuner' = [active_tuner EXCEPT ![d] = x]
          /\ \A e \in Demods : e # d => is_master'[e] = is_master[e]
      BY <2>2, <2>4, <3>1 DEF Found, Arrived, Select
    <3>3. ASSUME NEW e \in Demods, active_tuner'[e] # None, ~is_master'[e],
                 rf_in_res'[active_tuner'[e]].owner # LegacyOwner
          PROVE  rf_in'[active_tuner'[e]].sec_configured
      <4>1. active_tuner'[e] # x
        BY <3>2, <3>3 DEF Reserved
      <4>2. e # d
        BY <2>2, <3>2, <4>1
      <4>3. active_tuner'[e] = active_tuner[e] /\ is_master'[e] = is_master[e]
        BY <2>2, <3>2, <4>2
      <4>4. /\ rf_in_res'[active_tuner[e]].owner = rf_in_res[active_tuner[e]].owner
            /\ rf_in'[active_tuner[e]] = rf_in[active_tuner[e]]
        BY <2>2, <3>1, <3>3, <4>1, <4>2, <4>3, ArrivalKeepsOthers
      <4> QED
        BY <1>2, <3>3, <4>3, <4>4 DEF SlavesFindEquipmentReady, Reserved
    <3> QED
      BY <3>3 DEF SlavesFindEquipmentReady, Reserved
  <2>5. ASSUME Sleep(d) PROVE Inv'
    <3>1. Left(d, None) /\ active_tuner' = [active_tuner EXCEPT ![d] = None]
      BY <1>2, <2>5, SleepMoves
    <3>2. \A e \in Demods : e # d => is_master'[e] = is_master[e]
      BY <2>2, <2>5 DEF Sleep, Release
    <3>3. ASSUME NEW e \in Demods, active_tuner'[e] # None, ~is_master'[e],
                 rf_in_res'[active_tuner'[e]].owner # LegacyOwner
          PROVE  rf_in'[active_tuner'[e]].sec_configured
      <4>1. e # d /\ active_tuner'[e] = active_tuner[e]
        BY <2>2, <3>1, <3>3
      <4>2. /\ rf_in_res'[active_tuner[e]].owner = rf_in_res[active_tuner[e]].owner
            /\ rf_in'[active_tuner[e]] = rf_in[active_tuner[e]]
        BY <2>2, <3>1, <3>3, <4>1, LeavingKeepsOthers
      <4> QED
        BY <1>2, <3>2, <3>3, <4>1, <4>2 DEF SlavesFindEquipmentReady, Reserved
    <3> QED
      BY <3>3 DEF SlavesFindEquipmentReady, Reserved
  <2>6. ASSUME Tune(d) \/ VoltageCommit(d) \/ VoltageHw(d) \/ Quiet(d) PROVE Inv'
    <3>1. /\ UNCHANGED <<rf_in_res, active_tuner, is_master>>
          /\ \A r \in RfIns : rf_in[r].sec_configured => rf_in'[r].sec_configured
      BY <1>2, <2>6, UpdateEffects DEF Quiet
    <3> QED
      BY <1>2, <2>2, <3>1 DEF SlavesFindEquipmentReady, Reserved
  <2> QED
    BY <2>1, <2>3, <2>4, <2>5, <2>6 DEF Kind
<1>3. Inv /\ UNCHANGED vars => Inv'
  BY DEF SlavesFindEquipmentReady, Reserved, vars
<1> QED
  BY <1>1, <1>2, <1>3, Invariance, PTL DEF Spec

-----------------------------------------------------------------------------
(***************************************************************************)
(* The refinement of RfInputSharing.                                       *)
(***************************************************************************)
\* A granted selection is the abstract move.
LEMMA ArrivalRefines ==
  ASSUME Core, NEW d \in Demods, NEW ic \in Request, NEW sec_ready \in BOOLEAN,
         NEW m \in BOOLEAN, m <=> WillBeMaster(d, ic),
         Left(d, ic.rf_in), Arrived(d, ic, TRUE, sec_ready),
         is_master' = [is_master EXCEPT ![d] = m]
  PROVE  Sharing!MoveTo(d, ic.rf_in, ic.owner,
                        sec_ready \/ (~m /\ rf_in[ic.rf_in].sec_configured),
                        IF m THEN {d} ELSE {})
<1> DEFINE x == ic.rf_in
           mst == IF m THEN {d} ELSE {}
<1>1. /\ x \in RfIns /\ active_tuner \in [Demods -> RfIns \cup {None}]
      /\ is_master \in [Demods -> BOOLEAN] /\ rf_in \in [RfIns -> RfInType]
  BY DEF Core, TypeCore, RfInType, Request
<1>2. /\ active_tuner' = [active_tuner EXCEPT ![d] = x]
      /\ rf_in_res'[x].owner = ic.owner
      /\ rf_in'[x].sec_configured = (sec_ready \/ (~m /\ rf_in[x].sec_configured))
  BY DEF Arrived
<1>3. \A s \in RfIns : RfInUsers(s)' = IF s = x THEN RfInUsers(s) \cup {d}
                                                ELSE RfInUsers(s) \ {d}
  BY <1>1, <1>2, MoveUsers
<1>4. \A s \in RfIns : {e \in RfInUsers(s)' : is_master'[e]}
        = ({e \in RfInUsers(s) : is_master[e]} \ {d}) \cup (IF s = x THEN mst ELSE {})
  <2>1. \A s : RfInUsers(s) \subseteq Demods
    BY DEF RfInUsers
  <2>2. is_master'[d] = m /\ \A e \in Demods : e # d => is_master'[e] = is_master[e]
    BY <1>1
  <2> QED
    BY <1>3, <2>1, <2>2
<1>5. \A s \in RfIns : RfInUsers(s) = {d} => active_tuner[d] = s
  BY DEF RfInUsers
<1>6. \A s \in RfIns : rf_in_res'[s].owner =
        IF s = x THEN ic.owner
        ELSE IF RfInUsers(s) = {d} THEN LegacyOwner ELSE rf_in_res[s].owner
  BY <1>2, <1>5 DEF Left, NoOwner, LegacyOwner
<1>7. \A s \in RfIns : rf_in'[s].sec_configured =
        IF s = x THEN sec_ready \/ (~m /\ rf_in[x].sec_configured)
        ELSE rf_in[s].sec_configured /\ ~(RfInUsers(s) = {d})
  <2>1. ASSUME NEW s \in RfIns, s # x
        PROVE  rf_in'[s].sec_configured =
                 (rf_in[s].sec_configured /\ ~(RfInUsers(s) = {d}))
    <3>1. rf_in[s].sec_configured \in BOOLEAN
      BY <1>1 DEF RfInType
    <3>2. CASE RfInUsers(s) = {d}
      BY <1>5, <2>1, <3>2 DEF Left
    <3>3. CASE RfInUsers(s) # {d}
      <4>1. rf_in'[s] = rf_in[s]
        BY <2>1, <3>3 DEF Left
      <4> QED
        BY <3>1, <3>3, <4>1
    <3> QED
      BY <3>2, <3>3
  <2> QED
    BY <1>2, <2>1
<1> HIDE DEF mst
<1> QED
  BY <1>1, <1>3, <1>4, <1>6, <1>7 DEF Sharing!MoveTo, Sharing!Vacated, mst

\* A selection that finds nobody, or the same application, is an abstract arrival.
LEMMA SelectionRefines ==
  ASSUME Core, OneChipOnly, NEW d \in Demods, NEW ic \in Request,
         NEW legacy \in BOOLEAN, NEW sec_ready \in BOOLEAN, Granted(d, ic, legacy),
         legacy => ic.owner = LegacyOwner, Select(d, ic, legacy, FALSE, sec_ready)
  PROVE  Sharing!AbsNext
<1> DEFINE x == ic.rf_in
           o == ic.owner
           m == WillBeMaster(d, ic)
<1>1. Left(d, x) /\ Arrived(d, ic, TRUE, sec_ready)
  BY SelectEffect
<1>2. is_master' = [is_master EXCEPT ![d] = m] /\ m \in BOOLEAN
  BY DEF Select, WillBeMaster
<1>3. x \in RfIns /\ o \in Owners \cup {LegacyOwner}
  BY DEF Request, NoOwner, LegacyOwner
<1>4. RfInUsers(x) = {} \/ rf_in_res[x].owner = o
  BY <1>1 DEF Arrived
<1>5. Sharing!MayUse(x, o)
  BY <1>3, <1>4 DEF Sharing!MayUse
<1>6. CASE m
  <2>1. Sharing!MoveTo(d, x, o, sec_ready, {d})
    <3>1. Sharing!MoveTo(d, x, o, sec_ready \/ (~TRUE /\ rf_in[x].sec_configured),
                         IF TRUE THEN {d} ELSE {})
      BY <1>1, <1>2, <1>6, ArrivalRefines
    <3>2. (sec_ready \/ (~TRUE /\ rf_in[x].sec_configured)) = sec_ready
      OBVIOUS
    <3> QED
      BY <3>1, <3>2
  <2>2. RfInUsers(x) \subseteq {d}
    BY <1>6, MasterAlone
  <2>3. Sharing!BecomeMaster(d, x, o, sec_ready)
    BY <1>3, <1>5, <2>1, <2>2 DEF Sharing!BecomeMaster
  <2> QED
    BY <1>3, <2>3 DEF Sharing!AbsNext
<1>7. CASE ~m
  <2>1. rf_in[x].sec_configured \in BOOLEAN
    BY <1>3 DEF Core, TypeCore
  <2>2. Sharing!MoveTo(d, x, o, sec_ready \/ rf_in[x].sec_configured, {})
    <3>1. Sharing!MoveTo(d, x, o, sec_ready \/ (~FALSE /\ rf_in[x].sec_configured),
                         IF FALSE THEN {d} ELSE {})
      BY <1>1, <1>2, <1>7, ArrivalRefines
    <3>2. (sec_ready \/ (~FALSE /\ rf_in[x].sec_configured))
            = (sec_ready \/ rf_in[x].sec_configured)
      OBVIOUS
    <3> QED
      BY <3>1, <3>2
  <2>3. rf_in[x].sec_configured \/ o = LegacyOwner
    BY <1>7, SlaveWasReady
  <2>4. Sharing!BecomeSlave(d, x, o, sec_ready)
    BY <1>3, <1>5, <2>2, <2>3 DEF Sharing!BecomeSlave
  <2> QED
    BY <1>3, <2>4 DEF Sharing!AbsNext
<1> QED
  BY <1>6, <1>7

\* stid135_sleep is the abstract departure.
LEMMA SleepRefines ==
  ASSUME IInv, NEW d \in Demods, Sleep(d)
  PROVE  Sharing!AbsNext
<1>1. /\ Core /\ active_tuner \in [Demods -> RfIns \cup {None}]
      /\ is_master \in [Demods -> BOOLEAN] /\ rf_in \in [RfIns -> RfInType]
  BY DEF IInv, Core, TypeCore, RfInType
<1>2. /\ Left(d, None) /\ active_tuner[d] # None
      /\ active_tuner' = [active_tuner EXCEPT ![d] = None]
      /\ is_master' = [is_master EXCEPT ![d] = FALSE]
  BY SleepMoves DEF Sleep, Release
<1>3. \A s \in RfIns : RfInUsers(s)' = RfInUsers(s) \ {d}
  <2>1. None \in RfIns \cup {None} /\ None \notin RfIns
    BY NoneIsNoRfIn
  <2> QED
    BY <1>1, <1>2, <2>1, MoveUsers
<1>4. \A s \in RfIns : {e \in RfInUsers(s)' : is_master'[e]}
                       = {e \in RfInUsers(s) : is_master[e]} \ {d}
  <2>1. \A s : RfInUsers(s) \subseteq Demods
    BY DEF RfInUsers
  <2>2. \A e \in Demods : e # d => is_master'[e] = is_master[e]
    BY <1>1, <1>2
  <2> QED
    BY <1>3, <2>1, <2>2
<1>5. \A s \in RfIns : (RfInUsers(s) = {d} => active_tuner[d] = s) /\ s # None
  BY NoneIsNoRfIn DEF RfInUsers
<1>6. \A s \in RfIns : rf_in_res'[s].owner =
        IF RfInUsers(s) = {d} THEN LegacyOwner ELSE rf_in_res[s].owner
  BY <1>2, <1>5 DEF Left, NoOwner, LegacyOwner
<1>7. ASSUME NEW s \in RfIns
      PROVE  rf_in'[s].sec_configured =
               (rf_in[s].sec_configured /\ ~(RfInUsers(s) = {d}))
  <2>1. rf_in[s].sec_configured \in BOOLEAN
    BY <1>1 DEF RfInType
  <2>2. CASE RfInUsers(s) = {d}
    BY <1>2, <1>5, <2>2 DEF Left
  <2>3. CASE RfInUsers(s) # {d}
    <3>1. rf_in'[s] = rf_in[s]
      BY <1>2, <1>5, <2>3 DEF Left
    <3> QED
      BY <2>1, <2>3, <3>1
  <2> QED
    BY <2>2, <2>3
<1>8. \E r \in RfIns : d \in RfInUsers(r)
  BY <1>1, <1>2 DEF RfInUsers
<1>9. Sharing!Leave(d)
  BY <1>3, <1>4, <1>6, <1>7, <1>8 DEF Sharing!Leave, Sharing!Vacated
<1> QED
  BY <1>9 DEF Sharing!AbsNext

\* A retune marks the equipment ready.
LEMMA TuneRefines ==
  ASSUME IInv, NEW d \in Demods, Tune(d)
  PROVE  Sharing!AbsNext
<1>1. PICK a \in RfIns : a = active_tuner[d]
  BY UpdateEffects
<1>2. /\ UNCHANGED <<rf_in_res, active_tuner, is_master>>
      /\ \A r \in RfIns :
           rf_in'[r].sec_configured = (rf_in[r].sec_configured \/ r = a)
  BY <1>1, UpdateEffects
<1>3. \A r \in RfIns : rf_in[r].sec_configured \in BOOLEAN
  BY DEF IInv, Core, TypeCore
<1>4. d \in RfInUsers(a) /\ \A r : RfInUsers(r)' = RfInUsers(r)
  BY <1>1, <1>2 DEF RfInUsers
<1>5. \A r \in RfIns : rf_in'[r].sec_configured =
        IF r = a THEN TRUE ELSE rf_in[r].sec_configured
  BY <1>2, <1>3
<1>6. Sharing!MarkReady(a)
  BY <1>2, <1>4, <1>5 DEF Sharing!MarkReady
<1> QED
  BY <1>6 DEF Sharing!AbsNext

\* The driver implements RfInputSharing: every granted FE_SET_RF_INPUT or legacy
\* selection is an abstract arrival, stid135_sleep a departure, a retune marks the
\* equipment ready, and every other step leaves the sharing as it is.  On a card with
\* one chip that can be accessed without errors, and whose applications pass no
\* negative configuration ids; for any number of demods, RF inputs and applications.
THEOREM SharingIsImplemented ==
  ASSUME HwErrs = {FALSE}, OneChipOnly, NoNegativeIds
  PROVE  Spec => ImplementsSharing
<1>1. Init => Sharing!AbsInit
  BY NoneIsNoRfIn DEF Init, Sharing!AbsInit, RfInUsers, Free, NoOwner, LegacyOwner
<1>2. ASSUME IInv, Next PROVE Sharing!AbsNext \/ UNCHANGED Sharing!absvars
  <2>1. PICK d \in Demods : Kind(d)
    BY <1>2, StepKinds
  <2>2. Core
    BY <1>2 DEF IInv
  <2>3. ASSUME NEW ic \in RfInputControl, NEW hwErr \in HwErrs, Chosen(d, ic, hwErr)
        PROVE  Sharing!AbsNext
    <3>1. ic.config_id \in Nat /\ ic \in Request
      BY RequestTypes DEF NoNegativeIds, RfInputControl
    <3>2. (ic.config_id < 0) = FALSE
      BY <3>1
    <3>3. Granted(d, ic, FALSE) /\ Select(d, ic, FALSE, FALSE, FALSE)
      BY <2>3, <3>2 DEF Chosen
    <3> QED
      BY <2>2, <3>1, <3>3, SelectionRefines
  <2>4. ASSUME NEW ic \in Request, NEW bits \in BitsType, NEW hwErr \in HwErrs,
               NEW sec_ready \in BOOLEAN, Found(d, ic, bits, hwErr, sec_ready)
        PROVE  Sharing!AbsNext
    <3>1. /\ Granted(d, ic, TRUE) /\ Select(d, ic, TRUE, FALSE, sec_ready)
          /\ ic.owner = LegacyOwner
      BY <2>4 DEF Found
    <3> QED
      BY <2>2, <3>1, SelectionRefines
  <2>5. ASSUME VoltageCommit(d) \/ VoltageHw(d) \/ Quiet(d)
        PROVE  UNCHANGED Sharing!absvars
    <3>1. /\ UNCHANGED <<rf_in_res, active_tuner, is_master>>
          /\ \A r \in RfIns : rf_in'[r].sec_configured = rf_in[r].sec_configured
      BY <1>2, <2>5, UpdateEffects DEF Quiet
    <3> QED
      BY <3>1 DEF Sharing!absvars, RfInUsers
  <2> QED
    BY <1>2, <2>1, <2>3, <2>4, <2>5, SleepRefines, TuneRefines DEF Kind
<1>3. UNCHANGED vars => UNCHANGED Sharing!absvars
  BY DEF vars, Sharing!absvars, RfInUsers
<1>4. IInv /\ [Next]_vars => [Sharing!AbsNext]_(Sharing!absvars)
  BY <1>2, <1>3
<1> QED
  BY <1>1, <1>4, Invariance, PTL DEF Spec, ImplementsSharing, Sharing!AbsSpec
=============================================================================
