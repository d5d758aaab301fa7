----------------------------- MODULE MCFrontend -----------------------------
(***************************************************************************)
(* Instances of FrontendCore for TLC.                                      *)
(***************************************************************************)
EXTENDS FrontendCore, TLC

CONSTANTS p1, p2

\* Everybody makes every call.
UsesAll == [p \in Procs |-> {"ro", "rw", "ioctl", "stop", "event"}]

\* A tuning application, and another that only opens and closes the frontend.
UsesTuner == p1 :> {"rw", "ioctl", "stop", "event"} @@ p2 :> {"ro"}

ProcSymmetry == Permutations(Procs)
=============================================================================
