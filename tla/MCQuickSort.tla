----------------------------- MODULE MCQuickSort -----------------------------
(* Every array of N elements with a few keys.  An element also has the     *)
(* position it began at, which tells equal ones apart.                     *)
EXTENDS QuickSort

CONSTANT Keys

KeyedElems == [key : Keys, idx : 0..(N - 1)]
KeyedInputs ==
    {[j \in 0..(N - 1) |-> [key |-> f[j], idx |-> j]] : f \in [0..(N - 1) -> Keys]}

SymbolGreater(x, y) == x.key > y.key
=============================================================================
