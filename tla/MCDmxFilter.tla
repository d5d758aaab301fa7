---------------------------- MODULE MCDmxFilter ----------------------------
(***************************************************************************)
(* Instances of DmxFilter for TLC.                                         *)
(***************************************************************************)
EXTENDS DmxFilter

Filter(type, timeout, oneshot) ==
  [type |-> type, timeout |-> timeout, oneshot |-> oneshot]

SectionFilters == {Filter("sec", TRUE, FALSE), Filter("sec", FALSE, TRUE)}
TimedSectionFilter == {Filter("sec", TRUE, FALSE)}
AllFilters == SectionFilters \cup {Filter("pes", FALSE, FALSE)}
PesFilter == {Filter("pes", FALSE, FALSE)}
=============================================================================
