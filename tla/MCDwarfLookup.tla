--------------------------- MODULE MCDwarfLookup ---------------------------
(* A module of three units: "a" spans the others, "b" has no usable lines  *)
(* and is nested in "a" together with "c"; it has a second range after it. *)
EXTENDS DwarfLookup

NestedAddrs == << [low |-> 1, high |-> 9, u |-> "a"],
                  [low |-> 2, high |-> 5, u |-> "b"],
                  [low |-> 3, high |-> 5, u |-> "c"],
                  [low |-> 9, high |-> 12, u |-> "b"] >>
NestedUnits == {"a", "b", "c"}
GapInC == {<<"c", 4>>}
=============================================================================
