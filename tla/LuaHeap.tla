------------------------------ MODULE LuaHeap ------------------------------
(***************************************************************************)
(* What a collector promises: only what the program can no longer reach is *)
(* freed or has its finalizer called, finalizers are called one by one in  *)
(* the order they were queued, and closing the state runs them all.        *)
(***************************************************************************)
EXTENDS Naturals, Sequences, SequencesExt

VARIABLES
    live,      \* the objects there are
    held,      \* those the program or a finalizer to come can reach
    pending,   \* those whose finalizer is to be called, in order
    used,      \* how often the program used the heap
    closing    \* the state is being closed

vars == <<live, held, pending, used, closing>>

Init ==
    /\ held \subseteq live
    /\ pending = << >>
    /\ used \in Nat
    /\ ~closing

\* The program allocates an object, and moves or drops references.
Operate ==
    /\ used' = used + 1
    /\ ~closing /\ ~closing'
    /\ pending' = pending
    /\ live \subseteq live'
    /\ held' \subseteq live'

\* What is not held is freed, or awaits its finalizer and is held for it.  The
\* program may ask for it.
Collect ==
    /\ used' \in {used, used + 1}
    /\ ~closing /\ ~closing'
    /\ IsPrefix(pending, pending')
    /\ live' \subseteq live
    /\ held \subseteq held' \cap live'
    /\ \A i \in Len(pending) + 1 .. Len(pending') : pending'[i] \notin held

\* The next finalizer is called, on an object that is still whole.
Finalize ==
    /\ pending # << >> /\ pending' = Tail(pending)
    /\ used' = used /\ closing' = closing
    /\ live' \subseteq live
    /\ Head(pending) \in held
    /\ held' \subseteq held \cap live'

\* All finalizers there are will be called.
Shutdown ==
    /\ ~closing /\ closing'
    /\ used' = used
    /\ IsPrefix(pending, pending')
    /\ live' = live

\* With no finalizer left, everything but the main thread goes.
Free ==
    /\ closing /\ closing'
    /\ pending = << >> /\ pending' = << >>
    /\ used' = used
    /\ \E main \in live : live' \subseteq {main}

Next == Operate \/ Collect \/ Finalize \/ Shutdown \/ Free
Spec == Init /\ [][Next]_vars
=============================================================================
