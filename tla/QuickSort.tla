------------------------------ MODULE QuickSort ------------------------------
(***************************************************************************)
(* backtrace_qsort of backtrace/sort.c: the sort of the symbol, unit,      *)
(* function and line tables.  It works in place and allocates nothing, as  *)
(* it may run in a signal handler; it recurses into the smaller part of an *)
(* array and loops over the larger one.                                    *)
(*                                                                         *)
(* The recursion is the variable stack: the parts that are sorted when the *)
(* call at work returns.  One action is a pass through the head of the     *)
(* loop, a comparison with the pivot, or the cut into two parts.           *)
(***************************************************************************)
EXTENDS Integers, Sequences

CONSTANTS
    Elems,          \* what is sorted
    Greater(_, _),  \* compar(x, y) > 0
    N,              \* how many elements there are: bounds the model
    Inputs          \* the arrays sorted, among those of N distinct elements

ASSUME GreaterAssumption ==
    /\ \A x, y \in Elems : Greater(x, y) \in BOOLEAN
    /\ \A x, y \in Elems : Greater(x, y) => ~Greater(y, x)
    /\ \A x, y, z \in Elems : ~Greater(x, y) /\ ~Greater(y, z) => ~Greater(x, z)
ASSUME InputAssumption ==
    /\ N \in Nat
    /\ Inputs \subseteq [0..(N - 1) -> Elems]
    /\ \A f \in Inputs : \A i, j \in 0..(N - 1) : f[i] = f[j] => i = j

VARIABLES
    a,           \* the array
    input,       \* what it was before the sort
    phase,       \* what the sort is doing
    base, count, \* the part at work: from position base on, count elements
    i, mid,      \* the loop over it, and where the pivot will go
    stack        \* the parts that wait, the last one first

sortvars == <<a, input, phase, base, count, i, mid, stack>>

Part == [base : 0..N, count : 0..N]

SortInit ==
    /\ input \in Inputs
    /\ a = input
    /\ phase = "top"
    /\ base = 0
    /\ count = N
    /\ i = 0
    /\ mid = 0
    /\ stack = << >>

Swap(f, p, q) == [f EXCEPT ![p] = f[q], ![q] = f[p]]

-----------------------------------------------------------------------------
\* Nothing to sort in this part: back to the one that waits.
Return ==
    /\ phase = "top"
    /\ count < 2
    /\ IF stack = << >>
       THEN phase' = "done" /\ UNCHANGED <<base, count, stack>>
       ELSE /\ base' = stack[Len(stack)].base
            /\ count' = stack[Len(stack)].count
            /\ stack' = SubSeq(stack, 1, Len(stack) - 1)
            /\ UNCHANGED phase
    /\ UNCHANGED <<a, input, i, mid>>

\* The middle element becomes the pivot, at the start of the part.
Pivot ==
    /\ phase = "top"
    /\ count >= 2
    /\ a' = Swap(a, base, base + count \div 2)
    /\ mid' = 0
    /\ i' = 1
    /\ phase' = "scan"
    /\ UNCHANGED <<input, base, count, stack>>

\* Elements smaller than the pivot are gathered behind it.
Compare ==
    /\ phase = "scan"
    /\ i < count
    /\ IF Greater(a[base], a[base + i])
       THEN /\ mid' = mid + 1
            /\ a' = IF i # mid + 1 THEN Swap(a, base + mid + 1, base + i) ELSE a
       ELSE UNCHANGED <<a, mid>>
    /\ i' = i + 1
    /\ UNCHANGED <<input, phase, base, count, stack>>

Left(m) == [base |-> base, count |-> m]

Right(m) == [base |-> base + m + 1, count |-> count - (m + 1)]

\* Mutants: the pivot stays at the start; the larger part is sorted first.
CutLeavesPivot ==
    /\ phase = "scan"
    /\ i >= count
    /\ LET now   == IF 2 * mid < count THEN Left(mid) ELSE Right(mid)
           later == IF 2 * mid < count THEN Right(mid) ELSE Left(mid)
       IN  /\ base' = now.base
           /\ count' = now.count
           /\ stack' = Append(stack, later)
    /\ phase' = "top"
    /\ UNCHANGED <<a, input, i, mid>>
CutLargerFirst ==
    /\ phase = "scan"
    /\ i >= count
    /\ a' = IF mid > 0 THEN Swap(a, base, base + mid) ELSE a
    /\ LET now   == IF 2 * mid < count THEN Right(mid) ELSE Left(mid)
           later == IF 2 * mid < count THEN Left(mid) ELSE Right(mid)
       IN  /\ base' = now.base
           /\ count' = now.count
           /\ stack' = Append(stack, later)
    /\ phase' = "top"
    /\ UNCHANGED <<input, i, mid>>

\* The pivot goes between the two parts; the smaller one is sorted first.
Cut ==
    /\ phase = "scan"
    /\ i >= count
    /\ a' = IF mid > 0 THEN Swap(a, base, base + mid) ELSE a
    /\ LET now   == IF 2 * mid < count THEN Left(mid) ELSE Right(mid)
           later == IF 2 * mid < count THEN Right(mid) ELSE Left(mid)
       IN  /\ base' = now.base
           /\ count' = now.count
           /\ stack' = Append(stack, later)
    /\ phase' = "top"
    /\ UNCHANGED <<input, i, mid>>

Finished == phase = "done" /\ UNCHANGED sortvars

Work == Return \/ Pivot \/ Compare \/ Cut
SortNext == Work \/ Finished

SortSpec == SortInit /\ [][SortNext]_sortvars

\* The sort is a loop of one thread.
FairSpec == SortSpec /\ WF_sortvars(Work)

-----------------------------------------------------------------------------
(* Correctness                                                             *)

\* Every variable has its type, and the part at work lies in the array.
SortTypeOK ==
    /\ a \in [0..(N - 1) -> Elems]
    /\ input \in [0..(N - 1) -> Elems]
    /\ phase \in {"top", "scan", "done"}
    /\ base \in 0..N /\ count \in 0..N /\ base + count <= N
    /\ i \in 0..N /\ mid \in 0..N
    /\ stack \in Seq(Part)
    /\ \A k \in 1..Len(stack) : stack[k].base + stack[k].count <= N

\* The sort only moves elements: none is lost or doubled on the way.
Permuted ==
    /\ \A j \in 0..(N - 1) : \E k \in 0..(N - 1) : a[k] = input[j]
    /\ \A j, k \in 0..(N - 1) : a[j] = a[k] => j = k

\* At the end no element is greater than one after it.
Sorts ==
    phase = "done" =>
        \A j, k \in 0..(N - 1) : j < k => ~Greater(a[j], a[k])

\* "That ensures that our maximum stack depth is log count."  A call waits for
\* every part on the stack that it was made to return to, which a frame with
\* no elements left is too.
DepthIsLog == Len(stack) > 0 => 2 ^ Len(stack) <= N

\* At every point the array is a permutation and the parts lie in it; at the
\* end it is in order.
SortCorrect == SortTypeOK /\ Permuted /\ Sorts

\* The sort ends, and never needs more of the stack than the comment says.
SortEnds == [](DepthIsLog /\ <>(phase = "done"))
=============================================================================
