------------------------------- MODULE MemPool -------------------------------
(***************************************************************************)
(* What backtrace_alloc and backtrace_free promise, whatever the free list *)
(* and the lock do: a caller gets memory no other caller has, of the size  *)
(* it asked for, or nothing; it keeps it until it gives it back.           *)
(***************************************************************************)
EXTENDS Integers

CONSTANTS Arena, \* the addresses memory is made of
          Sizes, \* the sizes callers ask for
          Align  \* the alignment of what they get

VARIABLE live    \* the blocks callers hold

Extent(b) == b.addr .. (b.addr + b.size - 1)

Init == live = {}

Alloc(n) ==
    \E addr \in Arena :
        LET b == [addr |-> addr, size |-> n]
        IN  /\ addr % Align = 0
            /\ Extent(b) \subseteq Arena
            /\ \A c \in live : Extent(b) \cap Extent(c) = {}
            /\ live' = live \cup {b}

Free(b) == live' = live \ {b}

\* A block keeps its first bytes and gives back the others.
Shrink(b) ==
    \E keep \in 0..b.size :
        live' = (live \ {b}) \cup {[addr |-> b.addr, size |-> keep]}

Next ==
    \/ \E n \in Sizes : Alloc(n)
    \/ \E b \in live : Free(b) \/ Shrink(b)

Spec == Init /\ [][Next]_live
=============================================================================
