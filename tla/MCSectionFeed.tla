--------------------------- MODULE MCSectionFeed ---------------------------
(***************************************************************************)
(* An instance of SectionFeed for TLC: a packet carries 4 or 6 bytes, a    *)
(* section has 3 or 7; the short one shares a packet with others, the long *)
(* one, which is as long as a section may be, needs several.               *)
(***************************************************************************)
EXTENDS SectionFeed

Section(len, table, syntax, looks) ==
  [len |-> len, table |-> table, syntax |-> syntax, looks |-> looks]

SomeSections == {Section(3, "a", FALSE, 3), Section(7, "b", TRUE, 4)}
SomeFilters == {{"a", "b"}, {"b"}}
=============================================================================
