------------------------------- MODULE LuaMap -------------------------------
(***************************************************************************)
(* What a table promises: it maps keys to values, and a traversal, during  *)
(* which fields may be changed or cleared but not added, comes to every    *)
(* field that is not cleared before, and to none twice.                    *)
(***************************************************************************)
CONSTANTS Keys, Values, Nil

VARIABLES
    map,      \* key -> value or Nil
    todo,     \* the fields the traversal has still to come to
    busy      \* a traversal is under way

vars == <<map, todo, busy>>

Fields == {k \in Keys : map[k] # Nil}

Init == map = [k \in Keys |-> Nil] /\ todo = {} /\ ~busy

Assign ==
    \E k \in Keys, v \in Values \cup {Nil} :
        /\ busy => k \in Fields
        /\ map' = [map EXCEPT ![k] = v]
        /\ todo' = IF v = Nil THEN todo \ {k} ELSE todo
        /\ busy' = busy

Begin == ~busy /\ busy' /\ todo' = Fields /\ map' = map

Visit == \E k \in todo : todo' = todo \ {k} /\ busy /\ busy' /\ map' = map

End == busy /\ ~busy' /\ todo = {} /\ todo' = {} /\ map' = map

Next == Assign \/ Begin \/ Visit \/ End
Spec == Init /\ [][Next]_vars
=============================================================================
