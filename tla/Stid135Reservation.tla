------------------------- MODULE Stid135Reservation -------------------------
(***************************************************************************)
(* Sharing of RF inputs and tuners between the demodulators of a stid135   *)
(* card (src/neumo/frontends/stid135/stid135-fe.c).  A card has one or two *)
(* chips; the four RF inputs belong to the card, each chip has a tuner per *)
(* RF input, and each demodulator uses at most one tuner of its own chip.  *)
(* Tuner n of a chip is always connected to RF input n.                    *)
(*                                                                         *)
(* The first demodulator on a tuner is its master and drives the secondary *)
(* equipment (voltage, tone, DiSEqC); later ones join as slaves.           *)
(*                                                                         *)
(* A section of code that holds the card mutex is one step, because every  *)
(* writer of the reservations holds it.  set_voltage and set_tone work     *)
(* partly outside it, so each of their sections is a step of its own.  The *)
(* calls on one demodulator are serialised by the frontend semaphore.      *)
(***************************************************************************)
EXTENDS Integers, FiniteSets

CONSTANTS
  Chips,            \* the chips of the card (two on a tbs6916)
  Demods,           \* the demodulators of the card
  ChipOf,           \* the chip of each demodulator
  RfIns,            \* the RF inputs in use, numbers from 0..3
  DefaultRfIn,      \* info.default_rf_input of each demodulator
  MultiswitchMode,  \* chip->multiswitch_mode
  Owners,           \* process ids passed in fe_rf_input_control.owner
  ConfigIds,        \* values passed in fe_rf_input_control.config_id
  UnicableModes,    \* values passed in fe_rf_input_control.unicable_mode
  VoltageRequests,  \* voltages that FE_SET_VOLTAGE asks for
  ToneRequests,     \* tones that FE_SET_TONE asks for
  HwErrs,           \* {FALSE}, or BOOLEAN when accesses to the chip may fail
  None              \* the NULL pointer

NoOwner == -1
NoConfig == -1
LegacyOwner == -1        \* (pid_t)0xffffffff
LegacyConfig == 1
Voltages == {"off", "v13", "v18"}
Tones == {"off", "on"}
Modes == {"master_or_slave", "master", "slave"}
TunerIds == Chips \X RfIns

\* struct fe_rf_input_control, as an application may fill it in.
RfInputControl == [rf_in : RfIns, owner : Owners, config_id : ConfigIds,
                   mode : Modes, unicable_mode : UnicableModes]

\* The rf_in that stid135_select_rf_in_legacy_ picks in the modes where it
\* does not depend on earlier voltage and tone requests.
FixedLegacyRfIn == [d \in Demods |->
  IF MultiswitchMode = "unicable" THEN 3 ELSE DefaultRfIn[d]]

ASSUME ConstantsAssumption ==
  /\ IsFiniteSet(Demods)
  /\ ChipOf \in [Demods -> Chips]
  /\ DefaultRfIn \in [Demods -> RfIns]
  /\ RfIns \subseteq 0..3
  /\ MultiswitchMode \in {"quattro", "diseqc", "unicable"}
  /\ MultiswitchMode = "quattro" => RfIns = 0..3
  /\ MultiswitchMode = "unicable" => 3 \in RfIns
  /\ Owners \subseteq Nat
  /\ ConfigIds \subseteq Int
  /\ UnicableModes \subseteq BOOLEAN
  /\ VoltageRequests \subseteq Voltages
  /\ ToneRequests \subseteq Tones
  /\ HwErrs \subseteq BOOLEAN
  /\ None \notin Int /\ None \notin Chips /\ None \notin Voltages \cup Tones

VARIABLES
  rf_in_res,     \* rf_in -> struct stv_reservation_t of the rf_in
  tuner_res,     \* tuner -> struct stv_reservation_t of the tuner
  rf_in,         \* rf_in -> the other fields of struct stv_rf_in_t
  tuner,         \* tuner -> the other fields of struct stv_tuner_t
  active_tuner,  \* demod -> number of the tuner it uses, or None
  is_master,     \* demod -> it drives the secondary equipment
  legacy_rf_in,  \* demod -> it did not go through FE_SET_RF_INPUT
  quattro,       \* demod -> quattro_rf_in, one field per known bit
  pc,            \* demod -> the call in progress on it
  lnb            \* rf_in -> the voltage the LNB supply really delivers

res_vars == <<rf_in_res, tuner_res, rf_in, tuner, active_tuner, is_master>>
vars == <<rf_in_res, tuner_res, rf_in, tuner, active_tuner, is_master,
          legacy_rf_in, quattro, pc, lnb>>

Free == [owner |-> NoOwner, config_id |-> NoConfig, use_count |-> 0]
Idle == [at |-> "idle", arg |-> None]
NoBits == [voltage |-> None, tone |-> None]

Reservation == [owner : Owners \cup {NoOwner},
                config_id : ConfigIds \cup {NoConfig, LegacyConfig},
                use_count : Nat]

TypeOK ==
  /\ rf_in_res \in [RfIns -> Reservation]
  /\ tuner_res \in [TunerIds -> Reservation]
  /\ rf_in \in [RfIns -> [controlling_chip : Chips \cup {None},
                          voltage : Voltages, tone : Tones,
                          sec_configured : BOOLEAN, unicable_mode : BOOLEAN]]
  /\ tuner \in [TunerIds -> [powered_on : BOOLEAN,
                             active_rf_in : RfIns \cup {None}]]
  /\ active_tuner \in [Demods -> RfIns \cup {None}]
  /\ is_master \in [Demods -> BOOLEAN]
  /\ legacy_rf_in \in [Demods -> BOOLEAN]
  /\ quattro \in [Demods -> [voltage : {None, 0, 2}, tone : {None, 0, 1}]]
  /\ pc \in [Demods -> {Idle}
               \cup [at : {"volt_gate", "volt_commit", "volt_hw"}, arg : Voltages]
               \cup [at : {"tone_commit"}, arg : Tones]]
  /\ lnb \in [RfIns -> Voltages]

Init ==
  /\ rf_in_res = [r \in RfIns |-> Free]
  /\ tuner_res = [t \in TunerIds |-> Free]
  /\ rf_in = [r \in RfIns |->
                [controlling_chip |-> None, voltage |-> "off", tone |-> "off",
                 sec_configured |-> FALSE, unicable_mode |-> FALSE]]
  /\ tuner = [t \in TunerIds |-> [powered_on |-> FALSE, active_rf_in |-> None]]
  /\ active_tuner = [d \in Demods |-> None]
  /\ is_master = [d \in Demods |-> FALSE]
  /\ legacy_rf_in = [d \in Demods |-> FALSE]
  /\ quattro = [d \in Demods |-> NoBits]
  /\ pc = [d \in Demods |-> Idle]
  /\ lnb = [r \in RfIns |-> "off"]

-----------------------------------------------------------------------------
(***************************************************************************)
(* Reading the state.                                                      *)
(***************************************************************************)

\* The tuner with number n on the chip of demod d.
TunerOf(d, n) == <<ChipOf[d], n>>

ActiveRfIn(d) == IF active_tuner[d] = None
                   THEN None
                   ELSE tuner[TunerOf(d, active_tuner[d])].active_rf_in

HasRfIn(d) == ActiveRfIn(d) # None

SameTuner(d, ic) == active_tuner[d] = ic.rf_in
SameRfIn(d, ic) == ActiveRfIn(d) = ic.rf_in

-----------------------------------------------------------------------------
(***************************************************************************)
(* reserve_tuner_and_rf_in_: first the decision, which changes nothing.    *)
(***************************************************************************)

\* Mutant: only what d has is looked at, not what it wants.
OwnedByOtherOldOnly(d, ic) ==
  \/ active_tuner[d] # None /\ tuner_res[TunerOf(d, active_tuner[d])].owner # ic.owner
  \/ HasRfIn(d) /\ rf_in_res[ActiveRfIn(d)].owner # ic.owner

\* Another application holds what d has or wants.
OwnedByOther(d, ic) ==
  LET old == tuner_res[TunerOf(d, active_tuner[d])]
      new == tuner_res[TunerOf(d, ic.rf_in)]
      rf  == rf_in_res[ic.rf_in]
  IN  \/ active_tuner[d] # None /\ old.owner # ic.owner
      \/ HasRfIn(d) /\ rf_in_res[ActiveRfIn(d)].owner # ic.owner
      \/ new.use_count > 0 /\ new.owner # ic.owner
      \/ rf.use_count > 0 /\ rf.owner # ic.owner

\* d is not the only user of the tuner it wants.
TunerShared(d, ic) ==
  LET n == tuner_res[TunerOf(d, ic.rf_in)].use_count
  IN  n > 0 /\ ~(n = 1 /\ SameTuner(d, ic))

\* As the code decides that d is not the only user of the rf_in it wants.
\* The second test is on the use count of the tuner, not of the rf_in.
RfInShared(d, ic) ==
  /\ ~(rf_in_res[ic.rf_in].use_count = 1 /\ SameRfIn(d, ic))
  /\ tuner_res[TunerOf(d, ic.rf_in)].use_count > 0

\* Mutant: other users do not matter.
WillBeMasterAlways(d, ic) == ic.mode \in {"master", "master_or_slave"}

WillBeMaster(d, ic) ==
  /\ ic.mode \in {"master", "master_or_slave"}
  /\ ~TunerShared(d, ic)
  /\ ~RfInShared(d, ic)

\* The result of the reservation.  legacy is the value of legacy_rf_in[d].
Verdict(d, ic, legacy) ==
  LET must == ic.mode = "master"
      tcfg == tuner_res[TunerOf(d, ic.rf_in)].config_id
      rcfg == rf_in_res[ic.rf_in].config_id
      rf   == rf_in[ic.rf_in]
  IN  IF OwnedByOther(d, ic) THEN "failed"
      ELSE IF TunerShared(d, ic) /\ ic.config_id > tcfg THEN "retry"
      ELSE IF TunerShared(d, ic) /\ (must \/ ic.config_id < tcfg) THEN "failed"
      ELSE IF RfInShared(d, ic) /\ ic.config_id > tcfg THEN "retry"
      ELSE IF RfInShared(d, ic) /\ ic.config_id < rcfg /\ ~legacy THEN "failed"
      ELSE IF RfInShared(d, ic) /\ ic.config_id # rcfg THEN "retry"
      ELSE IF WillBeMaster(d, ic) THEN "master"
      ELSE IF ~legacy /\ ~rf.sec_configured THEN "retry"
      ELSE IF ic.unicable_mode /\ ~rf.unicable_mode THEN "failed"
      ELSE "slave"

(***************************************************************************)
(* Then the effect on the reservations.                                    *)
(***************************************************************************)

\* Mutants: the owner is not cleared; the count is decremented twice.
DropKeepsOwner(res) == [res EXCEPT !.use_count = @ - 1]
DropTwice(res) == [res EXCEPT !.use_count = @ - 2]

\* One user less; the last one clears the owner.
Drop(res) ==
  IF res.use_count = 1 THEN Free ELSE [res EXCEPT !.use_count = @ - 1]

\* Mutant: a user that is on it already is counted again.
TakeAgain(res, ic, same, master) ==
  [owner     |-> IF res.owner = NoOwner THEN ic.owner ELSE res.owner,
   config_id |-> IF master \/ res.owner = NoOwner
                   THEN ic.config_id ELSE res.config_id,
   use_count |-> res.use_count + 1]

\* One user more, unless the user is on it already.
Take(res, ic, same, master) ==
  [owner     |-> IF res.owner = NoOwner THEN ic.owner ELSE res.owner,
   config_id |-> IF master \/ res.owner = NoOwner
                   THEN ic.config_id ELSE res.config_id,
   use_count |-> IF same THEN res.use_count ELSE res.use_count + 1]

\* The reservations without d.
RfInResWithout(d) ==
  IF HasRfIn(d) THEN [rf_in_res EXCEPT ![ActiveRfIn(d)] = Drop(@)] ELSE rf_in_res
TunerResWithout(d) ==
  IF active_tuner[d] # None
    THEN [tuner_res EXCEPT ![TunerOf(d, active_tuner[d])] = Drop(@)]
    ELSE tuner_res

RfInResWith(d, ic, master) ==
  [IF SameRfIn(d, ic) THEN rf_in_res ELSE RfInResWithout(d)
     EXCEPT ![ic.rf_in] = Take(@, ic, SameRfIn(d, ic), master)]
TunerResWith(d, ic, master) ==
  [IF SameTuner(d, ic) THEN tuner_res ELSE TunerResWithout(d)
     EXCEPT ![TunerOf(d, ic.rf_in)] = Take(@, ic, SameTuner(d, ic), master)]

-----------------------------------------------------------------------------
(***************************************************************************)
(* stid135_select_rf_in_: the reservation, then the power of the tuners    *)
(* and of the secondary equipment.                                         *)
(***************************************************************************)

\* When d leaves: the last user of an rf_in switches tone and voltage off,
\* the last user of a tuner puts it in standby.
LastOnRfIn(d) ==
  /\ HasRfIn(d)
  /\ rf_in_res[ActiveRfIn(d)].use_count = 1
  /\ rf_in[ActiveRfIn(d)].controlling_chip # None
LastOnTuner(d) ==
  /\ active_tuner[d] # None
  /\ tuner_res[TunerOf(d, active_tuner[d])].use_count = 1

RfInWithout(d) ==
  IF LastOnRfIn(d)
    THEN [rf_in EXCEPT ![ActiveRfIn(d)] =
            [@ EXCEPT !.voltage = "off", !.tone = "off",
                      !.controlling_chip = None, !.sec_configured = FALSE]]
    ELSE rf_in
\* Mutant: the voltage is cleared in rf_in only.
LnbWithoutChip(d) == lnb
LnbWithout(d) ==
  IF LastOnRfIn(d) THEN [lnb EXCEPT ![ActiveRfIn(d)] = "off"] ELSE lnb
\* Mutant: no standby.
TunerWithoutStandby(d) == tuner
TunerWithout(d) ==
  IF LastOnTuner(d)
    THEN [tuner EXCEPT ![TunerOf(d, active_tuner[d])] =
            [powered_on |-> FALSE, active_rf_in |-> None]]
    ELSE tuner

\* Mutant: a slave too restarts the configuration.
RfInWithSlaveResets(d, ic, master, ok, sec_ready) ==
  [IF SameRfIn(d, ic) THEN rf_in ELSE RfInWithout(d) EXCEPT ![ic.rf_in] =
     [@ EXCEPT !.controlling_chip = ChipOf[d], !.sec_configured = ok /\ sec_ready]]

\* When d arrives: a tuner in standby is powered on and connected, and an
\* rf_in that no chip controls is taken over with voltage and tone off.  A
\* master starts a new configuration of the secondary equipment; ok is FALSE
\* when an access to the chip failed, sec_ready when the caller goes on to
\* mark the equipment as configured.
RfInWith(d, ic, master, ok, sec_ready) ==
  [IF SameRfIn(d, ic) THEN rf_in ELSE RfInWithout(d) EXCEPT ![ic.rf_in] =
     LET unclaimed == @.controlling_chip = None
     IN  [controlling_chip |-> IF unclaimed THEN ChipOf[d] ELSE @.controlling_chip,
          voltage          |-> IF unclaimed THEN "off" ELSE @.voltage,
          tone             |-> IF unclaimed THEN "off" ELSE @.tone,
          sec_configured   |-> (ok /\ sec_ready) \/ (~master /\ @.sec_configured),
          unicable_mode    |-> IF ok /\ master THEN ic.unicable_mode
                                               ELSE @.unicable_mode]]
TunerWith(d, ic) ==
  [IF SameTuner(d, ic) THEN tuner ELSE TunerWithout(d)
     EXCEPT ![TunerOf(d, ic.rf_in)] =
       [powered_on   |-> TRUE,
        active_rf_in |-> IF @.active_rf_in = None THEN ic.rf_in ELSE @.active_rf_in]]

\* The request repeats what d has already.
Unchanged(d, ic) ==
  /\ SameTuner(d, ic) /\ SameRfIn(d, ic)
  /\ tuner_res[TunerOf(d, active_tuner[d])].config_id = ic.config_id

Granted(d, ic, legacy) ==
  ~Unchanged(d, ic) /\ Verdict(d, ic, legacy) \in {"master", "slave"}

\* With ic # NULL.  An error of the hardware is reported after the reservation
\* was made, and leaves is_master as it was.
Select(d, ic, legacy, hwErr, sec_ready) ==
  LET master == WillBeMaster(d, ic)
  IN  \/ /\ ~Granted(d, ic, legacy)
         /\ UNCHANGED <<res_vars, lnb>>
      \/ /\ Granted(d, ic, legacy)
         /\ rf_in_res' = RfInResWith(d, ic, master)
         /\ tuner_res' = TunerResWith(d, ic, master)
         /\ rf_in' = RfInWith(d, ic, master, ~hwErr, sec_ready)
         /\ tuner' = TunerWith(d, ic)
         /\ lnb' = IF SameRfIn(d, ic) THEN lnb ELSE LnbWithout(d)
         /\ active_tuner' = [active_tuner EXCEPT ![d] = ic.rf_in]
         /\ is_master' = [is_master EXCEPT ![d] = IF hwErr THEN @ ELSE master]

\* With ic = NULL.
Release(d) ==
  /\ rf_in_res' = RfInResWithout(d)
  /\ tuner_res' = TunerResWithout(d)
  /\ rf_in' = RfInWithout(d)
  /\ tuner' = TunerWithout(d)
  /\ lnb' = LnbWithout(d)
  /\ active_tuner' = [active_tuner EXCEPT ![d] = None]
  /\ is_master' = [is_master EXCEPT ![d] = FALSE]
  /\ quattro' = [quattro EXCEPT ![d] = NoBits]
  /\ legacy_rf_in' = [legacy_rf_in EXCEPT ![d] = FALSE]

\* stid135_select_rf_in_legacy_, for applications that never choose an rf_in.
\* bits are the quattro bits known at this point.  The field mode of the
\* request is not initialised: any value may be found there.
LegacyRequest(d, bits, mode) ==
  [rf_in |-> IF MultiswitchMode = "quattro" THEN bits.voltage + bits.tone
                                            ELSE FixedLegacyRfIn[d],
   owner |-> LegacyOwner, config_id |-> LegacyConfig, mode |-> mode,
   unicable_mode |-> FALSE]

SelectLegacy(d, bits, hwErr, sec_ready) ==
  /\ legacy_rf_in' = [legacy_rf_in EXCEPT ![d] = TRUE]
  /\ IF MultiswitchMode = "quattro" /\ (bits.voltage = None \/ bits.tone = None)
       THEN UNCHANGED <<res_vars, lnb>>
       ELSE \E mode \in Modes :
              Select(d, LegacyRequest(d, bits, mode), TRUE, hwErr, sec_ready)

-----------------------------------------------------------------------------
(***************************************************************************)
(* The entry points of the driver.                                         *)
(***************************************************************************)

Goto(d, step, arg) == pc' = [pc EXCEPT ![d] = [at |-> step, arg |-> arg]]
Return(d) == pc' = [pc EXCEPT ![d] = Idle]

\* stid135_set_rf_input
SetRfInput(d, ic, hwErr) ==
  /\ pc[d] = Idle
  /\ legacy_rf_in' = [legacy_rf_in EXCEPT ![d] = ic.config_id < 0]
  /\ Select(d, ic, ic.config_id < 0, hwErr, FALSE)
  /\ UNCHANGED <<quattro, pc>>

\* stid135_sleep, called when the last writer has gone
Sleep(d) ==
  /\ pc[d] = Idle
  /\ active_tuner[d] # None /\ HasRfIn(d)
  /\ Release(d)
  /\ UNCHANGED pc

\* stid135_tune for a demod that has an rf_in: a retune marks the secondary
\* equipment as configured.  The early return on the uninitialised result is
\* a step that changes nothing.
Tune(d) ==
  /\ pc[d] = Idle
  /\ HasRfIn(d)
  /\ rf_in' = [rf_in EXCEPT ![ActiveRfIn(d)].sec_configured = TRUE]
  /\ UNCHANGED <<rf_in_res, tuner_res, tuner, active_tuner, is_master,
                 legacy_rf_in, quattro, pc, lnb>>

\* stid135_tune for a demod without an rf_in
TuneLegacy(d, re_tune, hwErr) ==
  /\ pc[d] = Idle
  /\ ~HasRfIn(d)
  /\ SelectLegacy(d, quattro[d], hwErr, re_tune)
  /\ UNCHANGED <<quattro, pc>>

\* The DiSEqC calls change shared state only by selecting an rf_in.
DiseqcLegacy(d, hwErr) ==
  /\ pc[d] = Idle
  /\ MultiswitchMode # "quattro"
  /\ ~HasRfIn(d)
  /\ SelectLegacy(d, quattro[d], hwErr, FALSE)
  /\ UNCHANGED <<quattro, pc>>

\* Mutant: a later voltage changes the bit.
QuattroVoltageAgain(d, v) == [quattro[d] EXCEPT !.voltage = IF v = "v18" THEN 2 ELSE 0]

\* In quattro mode the first voltage and the first tone select the rf_in.
QuattroVoltage(d, v) ==
  IF MultiswitchMode = "quattro" /\ quattro[d].voltage = None
    THEN [quattro[d] EXCEPT !.voltage = IF v = "v18" THEN 2 ELSE 0]
    ELSE quattro[d]
QuattroTone(d, t) ==
  IF MultiswitchMode = "quattro" /\ quattro[d].tone = None
    THEN [quattro[d] EXCEPT !.tone = IF t = "on" THEN 1 ELSE 0]
    ELSE quattro[d]

\* stid135_set_voltage up to and including the legacy selection
SetVoltage(d, v, hwErr) ==
  /\ pc[d] = Idle
  /\ quattro' = [quattro EXCEPT ![d] = QuattroVoltage(d, v)]
  /\ \/ /\ ~HasRfIn(d)
        /\ v = "off"
        /\ UNCHANGED <<res_vars, legacy_rf_in, pc, lnb>>
     \/ /\ ~HasRfIn(d)
        /\ v # "off"
        /\ SelectLegacy(d, QuattroVoltage(d, v), hwErr, FALSE)
        /\ Goto(d, "volt_gate", v)
     \/ /\ HasRfIn(d)
        /\ Goto(d, "volt_gate", v)
        /\ UNCHANGED <<res_vars, legacy_rf_in, lnb>>

\* The test that only a master, the last user or a unicable slave passes, and
\* the test for a unicable command in progress.  No lock is held here.
MayChangeVoltage(d, v) ==
  LET r == ActiveRfIn(d)
  IN  /\ HasRfIn(d)
      /\ \/ is_master[d]
         \/ rf_in_res[r].use_count = 1 /\ v # "off"
         \/ rf_in[r].unicable_mode /\ v # "off"
      /\ ~(rf_in[r].unicable_mode /\ rf_in[r].voltage = "v18" /\ v = "v18")

VoltageGate(d) ==
  /\ pc[d].at = "volt_gate"
  /\ IF MayChangeVoltage(d, pc[d].arg)
       THEN Goto(d, "volt_commit", pc[d].arg) ELSE Return(d)
  /\ UNCHANGED <<res_vars, legacy_rf_in, quattro, lnb>>

\* Mutant: no test of the use count under the card mutex.
VoltageCommitShared(d) ==
  /\ pc[d].at = "volt_commit"
  /\ rf_in' = [rf_in EXCEPT ![ActiveRfIn(d)].voltage = pc[d].arg]
  /\ Goto(d, "volt_hw", pc[d].arg)
  /\ UNCHANGED <<rf_in_res, tuner_res, tuner, active_tuner, is_master,
                 legacy_rf_in, quattro, lnb>>

\* The section under the card mutex.
VoltageCommit(d) ==
  LET r == ActiveRfIn(d)
  IN  /\ pc[d].at = "volt_commit"
      /\ IF rf_in_res[r].use_count > 1 /\ ~legacy_rf_in[d]
           THEN Return(d) /\ UNCHANGED rf_in
           ELSE /\ rf_in' = [rf_in EXCEPT ![r].voltage = pc[d].arg]
                /\ Goto(d, "volt_hw", pc[d].arg)
      /\ UNCHANGED <<rf_in_res, tuner_res, tuner, active_tuner, is_master,
                     legacy_rf_in, quattro, lnb>>

\* The call of chip->set_voltage, after the card mutex was released.
VoltageHw(d) ==
  /\ pc[d].at = "volt_hw"
  /\ lnb' = [lnb EXCEPT ![ActiveRfIn(d)] = pc[d].arg]
  /\ Return(d)
  /\ UNCHANGED <<res_vars, legacy_rf_in, quattro>>

\* stid135_set_tone, its two sections
SetTone(d, t, hwErr) ==
  /\ pc[d] = Idle
  /\ quattro' = [quattro EXCEPT ![d] = QuattroTone(d, t)]
  /\ IF HasRfIn(d) THEN UNCHANGED <<res_vars, legacy_rf_in, lnb>>
                   ELSE SelectLegacy(d, QuattroTone(d, t), hwErr, FALSE)
  /\ Goto(d, "tone_commit", t)

ToneCommit(d) ==
  /\ pc[d].at = "tone_commit"
  /\ Return(d)
  /\ IF HasRfIn(d) /\ is_master[d]
       THEN rf_in' = [rf_in EXCEPT ![ActiveRfIn(d)].tone = pc[d].arg]
       ELSE UNCHANGED rf_in
  /\ UNCHANGED <<rf_in_res, tuner_res, tuner, active_tuner, is_master,
                 legacy_rf_in, quattro, lnb>>

Next ==
  \E d \in Demods :
    \/ \E ic \in RfInputControl, hwErr \in HwErrs : SetRfInput(d, ic, hwErr)
    \/ Sleep(d)
    \/ Tune(d)
    \/ \E re_tune \in BOOLEAN, hwErr \in HwErrs : TuneLegacy(d, re_tune, hwErr)
    \/ \E hwErr \in HwErrs : DiseqcLegacy(d, hwErr)
    \/ \E v \in VoltageRequests, hwErr \in HwErrs : SetVoltage(d, v, hwErr)
    \/ VoltageGate(d)
    \/ VoltageCommit(d)
    \/ VoltageHw(d)
    \/ \E t \in ToneRequests, hwErr \in HwErrs : SetTone(d, t, hwErr)
    \/ ToneCommit(d)

Spec == Init /\ [][Next]_vars

-----------------------------------------------------------------------------
(***************************************************************************)
(* Properties.                                                             *)
(***************************************************************************)

TunerUsers(t) == {d \in Demods : ChipOf[d] = t[1] /\ active_tuner[d] = t[2]}
RfInUsers(r) == {d \in Demods : active_tuner[d] = r}

\* The use counts kept by reserve_tuner_and_rf_in_ are exact: each equals the
\* number of demods attached, over any sequence of selections, refusals and
\* releases.  So the unsigned counts never wrap and the last user is known.
UseCountsExact ==
  /\ \A t \in TunerIds : tuner_res[t].use_count = Cardinality(TunerUsers(t))
  /\ \A r \in RfIns : rf_in_res[r].use_count = Cardinality(RfInUsers(r))

\* What nobody uses is free, in standby and not controlled by any chip; what
\* somebody uses is powered, connected to its rf_in and controlled.  In
\* particular the return of stid135_set_tone that keeps the chip mutex
\* (controlling_chip == NULL) is never taken.
PowerFollowsUse ==
  /\ \A t \in TunerIds :
       IF TunerUsers(t) = {}
         THEN tuner_res[t] = Free /\ tuner[t].active_rf_in = None
                                  /\ ~tuner[t].powered_on
         ELSE tuner[t].powered_on /\ tuner[t].active_rf_in = t[2]
  /\ \A r \in RfIns :
       IF RfInUsers(r) = {}
         THEN rf_in_res[r] = Free /\ rf_in[r].controlling_chip = None
                                  /\ rf_in[r].voltage = "off"
         ELSE rf_in[r].controlling_chip # None

\* All users of a tuner and of its rf_in belong to one application.
OwnersAgree ==
  \A t \in TunerIds :
    TunerUsers(t) # {} => tuner_res[t].owner = rf_in_res[t[2]].owner

\* At most one demod drives the secondary equipment of a tuner, and only one
\* that is attached to it (is_master, set in stid135_select_rf_in_).
OneMasterPerTuner ==
  \A d, e \in Demods :
    /\ is_master[d] => active_tuner[d] # None
    /\ is_master[d] /\ is_master[e] /\ ChipOf[d] = ChipOf[e]
         /\ active_tuner[d] = active_tuner[e] => d = e

\* The comment in stid135_set_voltage: "when multiple adapters use the same
\* tuner, only one can change voltage, send tones, diseqc etc".  At most one
\* demod of the card drives the secondary equipment of an rf_in.
OneMasterPerRfIn ==
  \A d, e \in Demods :
    is_master[d] /\ is_master[e] /\ active_tuner[d] = active_tuner[e] => d = e

\* No message "BUG: unexpected owner", "BUG: unexpected config_id", "BUG: we
\* are not owner" or "BUG: active_rf_in" of reserve_tuner_and_rf_in_ and
\* stid135_select_rf_in_ can be printed for a request that is granted.
NoBugMessages ==
  \A d \in Demods, ic \in RfInputControl :
    (pc[d] = Idle /\ Granted(d, ic, ic.config_id < 0)) =>
      LET t == TunerOf(d, ic.rf_in)
          Consistent(res, same) ==
            /\ res.owner \in {NoOwner, ic.owner}
            /\ (WillBeMaster(d, ic) /\ res.config_id >= 0
                  /\ res.use_count > (IF same THEN 1 ELSE 0))
                 => res.config_id = ic.config_id
      IN  /\ Consistent(rf_in_res[ic.rf_in], SameRfIn(d, ic))
          /\ Consistent(tuner_res[t], SameTuner(d, ic))
          /\ tuner[t].powered_on => tuner[t].active_rf_in = ic.rf_in

\* An application chose this rf_in with FE_SET_RF_INPUT; nobody got it through
\* stid135_select_rf_in_legacy_.
Reserved(r) == rf_in_res[r].owner # LegacyOwner

\* A demod that shares a reserved rf_in without being its master finds the
\* secondary equipment configured: no master restarts the configuration under
\* a slave, in whatever order masters and slaves come and go.
SlavesFindEquipmentReady ==
  \A d \in Demods :
    (active_tuner[d] # None /\ ~is_master[d] /\ Reserved(active_tuner[d]))
      => rf_in[active_tuner[d]].sec_configured

\* The voltage recorded for an rf_in that is reserved or free is the one its
\* LNB gets, except while a call of stid135_set_voltage is between its update
\* of rf_in->voltage and the chip: the calls of two demods never overtake each
\* other there, although they write the chip after releasing the card mutex.
RecordedVoltageIsReal ==
  \A r \in RfIns :
    ( /\ Reserved(r) \/ RfInUsers(r) = {}
      /\ \A d \in RfInUsers(r) : pc[d].at # "volt_hw" )
    => lnb[r] = rf_in[r].voltage

\* While a reserved rf_in is shared, nobody changes its recorded voltage (the
\* use_count test of stid135_set_voltage), although the test of mastership is
\* made without a lock and the rf_in may become shared meanwhile.
SharedVoltageIsStable ==
  [][\A r \in RfIns :
       (Reserved(r) /\ Cardinality(RfInUsers(r)) > 1)
       => rf_in'[r].voltage = rf_in[r].voltage]_vars

\* In quattro mode an application that knows of no reservations gets the rf_in
\* that the first voltage and the first tone after its last release stand for,
\* whatever it sets later (quattro_rf_in_mask in stid135_set_voltage, set_tone).
QuattroInputFollowsFirstRequests ==
  \A d \in Demods :
    (active_tuner[d] # None /\ MultiswitchMode = "quattro"
       /\ ~Reserved(active_tuner[d]))
      => active_tuner[d] = quattro[d].voltage + quattro[d].tone

\* The reservation implements the sharing of RF inputs that RfInputSharing
\* specifies, on a card with one chip.
Sharing == INSTANCE RfInputSharing WITH
  users   <- [r \in RfIns |-> RfInUsers(r)],
  masters <- [r \in RfIns |-> {d \in RfInUsers(r) : is_master[d]}],
  owner   <- [r \in RfIns |-> rf_in_res[r].owner],
  ready   <- [r \in RfIns |-> rf_in[r].sec_configured]

ImplementsSharing == Sharing!AbsSpec

=============================================================================
