--------------------------- MODULE RfInputSharing ---------------------------
(***************************************************************************)
(* What the reservation of RF inputs promises to the applications that     *)
(* share them (the comment above reserve_tuner_and_rf_in_ in               *)
(* src/neumo/frontends/stid135/stid135-fe.c), without tuners, chips, use   *)
(* counts or configuration ids:                                            *)
(*   - the users of an rf_in belong to one application;                    *)
(*   - a demod becomes master only while it is alone on the rf_in, and     *)
(*     then has to configure the secondary equipment anew;                 *)
(*   - a demod joins as slave only once the equipment is ready, unless it  *)
(*     is driven by an application that knows of no reservations;          *)
(*   - a demod uses one rf_in at a time.                                   *)
(* Stid135Reservation implements this specification on a card with one     *)
(* chip whose registers can be accessed without errors.                    *)
(***************************************************************************)
EXTENDS Integers

CONSTANTS Demods, RfIns, Owners, LegacyOwner

VARIABLES
  users,     \* rf_in -> the demods attached to it
  masters,   \* rf_in -> those that may drive the secondary equipment
  owner,     \* rf_in -> the application
  ready      \* rf_in -> the secondary equipment is configured

absvars == <<users, masters, owner, ready>>

AbsInit ==
  /\ users = [r \in RfIns |-> {}]
  /\ masters = [r \in RfIns |-> {}]
  /\ owner = [r \in RfIns |-> LegacyOwner]
  /\ ready = [r \in RfIns |-> FALSE]

\* d leaves every rf_in but r; the last user to leave frees an rf_in.
Vacated(s, d) == users[s] = {d}
MoveTo(d, r, o, rdy, mst) ==
  /\ users' = [s \in RfIns |-> IF s = r THEN users[s] \cup {d} ELSE users[s] \ {d}]
  /\ masters' = [s \in RfIns |-> (masters[s] \ {d}) \cup (IF s = r THEN mst ELSE {})]
  /\ owner' = [s \in RfIns |-> IF s = r THEN o
                               ELSE IF Vacated(s, d) THEN LegacyOwner ELSE owner[s]]
  /\ ready' = [s \in RfIns |-> IF s = r THEN rdy
                               ELSE ready[s] /\ ~Vacated(s, d)]

MayUse(r, o) == users[r] = {} \/ owner[r] = o

\* ready is TRUE afterwards only if the caller tunes in the same breath.
BecomeMaster(d, r, o, rdy) ==
  /\ MayUse(r, o)
  /\ users[r] \subseteq {d}
  /\ MoveTo(d, r, o, rdy, {d})

BecomeSlave(d, r, o, rdy) ==
  /\ MayUse(r, o)
  /\ ready[r] \/ o = LegacyOwner
  /\ MoveTo(d, r, o, rdy \/ ready[r], {})

Leave(d) ==
  /\ \E r \in RfIns : d \in users[r]
  /\ users' = [s \in RfIns |-> users[s] \ {d}]
  /\ masters' = [s \in RfIns |-> masters[s] \ {d}]
  /\ owner' = [s \in RfIns |-> IF Vacated(s, d) THEN LegacyOwner ELSE owner[s]]
  /\ ready' = [s \in RfIns |-> ready[s] /\ ~Vacated(s, d)]

MarkReady(r) ==
  /\ users[r] # {}
  /\ ready' = [ready EXCEPT ![r] = TRUE]
  /\ UNCHANGED <<users, masters, owner>>

AbsNext ==
  \/ \E d \in Demods, r \in RfIns, o \in Owners \cup {LegacyOwner}, rdy \in BOOLEAN :
       BecomeMaster(d, r, o, rdy) \/ BecomeSlave(d, r, o, rdy)
  \/ \E d \in Demods : Leave(d)
  \/ \E r \in RfIns : MarkReady(r)

AbsSpec == AbsInit /\ [][AbsNext]_absvars
=============================================================================
