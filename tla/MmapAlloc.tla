------------------------------ MODULE MmapAlloc ------------------------------
(***************************************************************************)
(* The memory allocator of backtrace/mmap.c: a first-fit free list that is *)
(* guarded by a try-lock, on top of anonymous mmap.  It is called by any   *)
(* thread and from signal handlers, so no operation ever waits: a caller   *)
(* that cannot take the lock maps fresh pages (alloc) or leaks (free).     *)
(*                                                                         *)
(* One action is one step another thread can observe or interleave with:   *)
(* the test-and-set, the walk of the list, the unlinking, the release, the *)
(* mmap and the munmap.                                                    *)
(***************************************************************************)
EXTENDS Integers, Sequences

CONSTANTS
    Threads,     \* the callers: threads, or signal handlers on top of them
    FairThreads, \* the callers the scheduler keeps running
    Threaded,    \* state->threaded
    Align,       \* allocations are rounded to this (8 in the code)
    PageSize,    \* getpagesize()
    MinBlock,    \* sizeof(struct backtrace_freelist_struct)
    MaxFree,     \* longest free list (16 in the code)
    UnmapMin,    \* blocks at least this long are unmapped (16 * 4096)
    Arena,       \* the addresses mmap may return: bounds the model's memory
    Sizes        \* the sizes callers ask for, and shrink to

ASSUME ThreadsAssumption ==
    /\ Threaded \in BOOLEAN
    /\ FairThreads \subseteq Threads
    /\ ~Threaded => \A t, u \in Threads : t = u
ASSUME SizeAssumption ==
    /\ Align \in Nat \ {0} /\ PageSize \in Nat \ {0} /\ PageSize % Align = 0
    /\ MinBlock \in Nat \ {0} /\ UnmapMin \in Nat /\ MaxFree \in Nat \ {0}
    /\ Sizes \subseteq Nat
ASSUME ArenaAssumption == Arena \subseteq Nat \ {0}

VARIABLES
    freelist,   \* state->freelist, head first
    lock_alloc, \* state->lock_alloc
    mapped,     \* the addresses obtained from mmap and not yet unmapped
    live,       \* the blocks callers hold, with the size they asked for
    pc,         \* where each caller is
    req,        \* the size argument of a caller's current allocation
    pp,         \* the position of the link found by a caller's walk
    ret,        \* the block an allocation is about to return, or NoBlock
    blk         \* the block a caller is giving back, or NoBlock

vars == <<freelist, lock_alloc, mapped, live, pc, req, pp, ret, blk>>

Block == [addr : Nat, size : Nat]
NoBlock == [addr |-> 0, size |-> 0]
Bytes(b) == b.addr .. (b.addr + b.size - 1)
Disjoint(b, c) == Bytes(b) \cap Bytes(c) = {}

\* (n + k - 1) & ~(k - 1) for a power of two k.
RoundUp(n, k) == n + ((-n) % k)

-----------------------------------------------------------------------------
(* The free list.                                                          *)

RemoveNth(list, i) == SubSeq(list, 1, i - 1) \o SubSeq(list, i + 1, Len(list))

\* The entry the walk of backtrace_free_locked leaves in ppsmall: the first
\* of the smallest ones.
IsSmallest(list, i) ==
    /\ i \in 1..Len(list)
    /\ \A j \in 1..Len(list) : list[i].size <= list[j].size
    /\ \A j \in 1..(i - 1) : list[i].size < list[j].size
Smallest(list) == CHOOSE i \in 1..Len(list) : IsSmallest(list, i)

\* Mutant: the new block always wins.
FreeLockedNewWins(list, b) ==
    IF b.size < MinBlock THEN list ELSE
    <<b>> \o (IF Len(list) >= MaxFree
              THEN RemoveNth(list, Smallest(list)) ELSE list)

\* backtrace_free_locked: small blocks are leaked, and a full list gives up
\* its smallest entry unless the new block is no larger.
FreeLocked(list, b) ==
    IF \/ b.size < MinBlock
       \/ /\ Len(list) >= MaxFree
          /\ b.size <= list[Smallest(list)].size
    THEN list
    ELSE <<b>> \o (IF Len(list) >= MaxFree
                   THEN RemoveNth(list, Smallest(list))
                   ELSE list)

\* What is left of free block p when rounded bytes are taken from its front.
Rest(p, rounded) == [addr |-> p.addr + rounded, size |-> p.size - rounded]

IsFirstFit(list, size, i) ==
    /\ i \in 1..Len(list)
    /\ list[i].size >= size
    /\ \A j \in 1..(i - 1) : list[j].size < size

-----------------------------------------------------------------------------
Init ==
    /\ freelist = << >>
    /\ lock_alloc = FALSE
    /\ mapped = {}
    /\ live = {}
    /\ pc = [t \in Threads |-> "idle"]
    /\ req = [t \in Threads |-> 0]
    /\ pp = [t \in Threads |-> 0]
    /\ ret = [t \in Threads |-> NoBlock]
    /\ blk = [t \in Threads |-> NoBlock]

Goto(t, label) == pc' = [pc EXCEPT ![t] = label]

\* Mutant: a busy lock is waited for.
TryLockSpins(t, locked, busy) ==
    IF Threaded /\ lock_alloc
    THEN UNCHANGED <<pc, lock_alloc>>
    ELSE Goto(t, locked) /\ lock_alloc' = Threaded

\* __sync_lock_test_and_set, skipped when the state is not threaded.
TryLock(t, locked, busy) ==
    IF Threaded /\ lock_alloc
    THEN Goto(t, busy) /\ UNCHANGED lock_alloc
    ELSE Goto(t, locked) /\ lock_alloc' = Threaded

\* __sync_lock_release.
Unlock == lock_alloc' = FALSE

-----------------------------------------------------------------------------
(* backtrace_alloc                                                         *)

AllocCall(t, n) ==
    /\ pc[t] = "idle"
    /\ req' = [req EXCEPT ![t] = n]
    /\ Goto(t, "alloc_lock")
    /\ UNCHANGED <<freelist, lock_alloc, mapped, live, pp, ret, blk>>

AllocTryLock(t) ==
    /\ pc[t] = "alloc_lock"
    /\ TryLock(t, "alloc_scan", "alloc_mmap")
    /\ UNCHANGED <<freelist, mapped, live, req, pp, ret, blk>>

\* Mutant: the lock is released after the walk, before the unlinking.
AllocScanHitUnlocks(t) ==
    /\ pc[t] = "alloc_scan"
    /\ \E i \in 1..Len(freelist) :
          /\ IsFirstFit(freelist, req[t], i)
          /\ pp' = [pp EXCEPT ![t] = i]
    /\ lock_alloc' = FALSE
    /\ Goto(t, "alloc_take")
    /\ UNCHANGED <<freelist, mapped, live, req, ret, blk>>

AllocScanHit(t) ==
    /\ pc[t] = "alloc_scan"
    /\ \E i \in 1..Len(freelist) :
          /\ IsFirstFit(freelist, req[t], i)
          /\ pp' = [pp EXCEPT ![t] = i]
    /\ Goto(t, "alloc_take")
    /\ UNCHANGED <<freelist, lock_alloc, mapped, live, req, ret, blk>>

AllocScanMiss(t) ==
    /\ pc[t] = "alloc_scan"
    /\ \A i \in 1..Len(freelist) : freelist[i].size < req[t]
    /\ Goto(t, "alloc_unlock")
    /\ UNCHANGED <<freelist, lock_alloc, mapped, live, req, pp, ret, blk>>

\* The entry found is unlinked; what it has beyond the rounded size goes
\* back.  A list entry may be shorter than the rounded size, never than the
\* size asked for.
AllocTake(t) ==
    /\ pc[t] = "alloc_take"
    /\ LET p       == freelist[pp[t]]
           rounded == RoundUp(req[t], Align)
           list    == RemoveNth(freelist, pp[t])
       IN  IF rounded < p.size
           THEN /\ freelist' = FreeLocked(list, Rest(p, rounded))
                /\ ret' = [ret EXCEPT ![t] = [addr |-> p.addr, size |-> rounded]]
           ELSE /\ freelist' = list
                /\ ret' = [ret EXCEPT ![t] = p]
    /\ pp' = [pp EXCEPT ![t] = 0]
    /\ Goto(t, "alloc_unlock")
    /\ UNCHANGED <<lock_alloc, mapped, live, req, blk>>

AllocUnlock(t) ==
    /\ pc[t] = "alloc_unlock"
    /\ Unlock
    /\ Goto(t, IF ret[t] = NoBlock THEN "alloc_mmap" ELSE "return")
    /\ UNCHANGED <<freelist, mapped, live, req, pp, ret, blk>>

\* mmap may fail at any time, and always does for zero bytes.
AllocMmapFail(t) ==
    /\ pc[t] = "alloc_mmap"
    /\ Goto(t, "return")
    /\ UNCHANGED <<freelist, lock_alloc, mapped, live, req, pp, ret, blk>>

\* Fresh pages; the part of the last one that is not asked for is given to
\* backtrace_free, which may unmap it, list it or leak it.
AllocMmap(t) ==
    /\ pc[t] = "alloc_mmap"
    /\ LET asksize == RoundUp(req[t], PageSize)
           rounded == RoundUp(req[t], Align)
       IN  \E addr \in Arena :
              LET page == [addr |-> addr, size |-> asksize]
              IN  /\ asksize > 0
                  /\ addr % PageSize = 0
                  /\ Bytes(page) \subseteq Arena \ mapped
                  /\ mapped' = mapped \cup Bytes(page)
                  /\ IF rounded < asksize
                     THEN /\ ret' = [ret EXCEPT ![t] =
                                       [addr |-> addr, size |-> rounded]]
                          /\ blk' = [blk EXCEPT ![t] = Rest(page, rounded)]
                          /\ Goto(t, "free_unmap")
                     ELSE /\ ret' = [ret EXCEPT ![t] = page]
                          /\ Goto(t, "return")
                          /\ UNCHANGED blk
    /\ UNCHANGED <<freelist, lock_alloc, live, req, pp>>

\* The end of either call: an allocation hands out what it found.
Return(t) ==
    /\ pc[t] = "return"
    /\ live' = IF ret[t] = NoBlock
               THEN live
               ELSE live \cup {[addr |-> ret[t].addr, size |-> req[t]]}
    /\ ret' = [ret EXCEPT ![t] = NoBlock]
    /\ req' = [req EXCEPT ![t] = 0]
    /\ Goto(t, "idle")
    /\ UNCHANGED <<freelist, lock_alloc, mapped, pp, blk>>

-----------------------------------------------------------------------------
(* backtrace_free                                                          *)

FreeCall(t, b) ==
    /\ pc[t] = "idle"
    /\ b \in live
    /\ live' = live \ {b}
    /\ blk' = [blk EXCEPT ![t] = b]
    /\ Goto(t, "free_unmap")
    /\ UNCHANGED <<freelist, lock_alloc, mapped, req, pp, ret>>

\* Mutant: the rest is not rounded.
ReleaseCallUnrounded(t, b, keep) ==
    /\ pc[t] = "idle"
    /\ b \in live
    /\ keep <= b.size
    /\ live' = (live \ {b}) \cup {[addr |-> b.addr, size |-> keep]}
    /\ blk' = [blk EXCEPT ![t] = Rest(b, keep)]
    /\ Goto(t, "free_unmap")
    /\ UNCHANGED <<freelist, lock_alloc, mapped, req, pp, ret>>

\* backtrace_vector_release: a block keeps its first keep bytes and the rest,
\* from the next aligned address on, is freed.
ReleaseCall(t, b, keep) ==
    /\ pc[t] = "idle"
    /\ b \in live
    /\ RoundUp(keep, Align) <= b.size
    /\ live' = (live \ {b}) \cup {[addr |-> b.addr, size |-> keep]}
    /\ blk' = [blk EXCEPT ![t] = Rest(b, RoundUp(keep, Align))]
    /\ Goto(t, "free_unmap")
    /\ UNCHANGED <<freelist, lock_alloc, mapped, req, pp, ret>>

Unmappable(b) ==
    /\ b.size >= UnmapMin
    /\ b.addr % PageSize = 0
    /\ b.size % PageSize = 0

FreeUnmap(t) ==
    /\ pc[t] = "free_unmap"
    /\ Unmappable(blk[t])
    /\ mapped' = mapped \ Bytes(blk[t])
    /\ blk' = [blk EXCEPT ![t] = NoBlock]
    /\ Goto(t, "return")
    /\ UNCHANGED <<freelist, lock_alloc, live, req, pp, ret>>

\* The block is not one to unmap, or munmap fails.
FreeKeep(t) ==
    /\ pc[t] = "free_unmap"
    /\ Goto(t, "free_lock")
    /\ UNCHANGED <<freelist, lock_alloc, mapped, live, req, pp, ret, blk>>

\* A caller that finds the lock taken leaks the block.
FreeTryLock(t) ==
    /\ pc[t] = "free_lock"
    /\ TryLock(t, "free_push", "return")
    /\ blk' = IF Threaded /\ lock_alloc
              THEN [blk EXCEPT ![t] = NoBlock] ELSE blk
    /\ UNCHANGED <<freelist, mapped, live, req, pp, ret>>

FreePush(t) ==
    /\ pc[t] = "free_push"
    /\ freelist' = FreeLocked(freelist, blk[t])
    /\ blk' = [blk EXCEPT ![t] = NoBlock]
    /\ Goto(t, "free_unlock")
    /\ UNCHANGED <<lock_alloc, mapped, live, req, pp, ret>>

FreeUnlock(t) ==
    /\ pc[t] = "free_unlock"
    /\ Unlock
    /\ Goto(t, "return")
    /\ UNCHANGED <<freelist, mapped, live, req, pp, ret, blk>>

-----------------------------------------------------------------------------
Call(t) ==
    \/ \E n \in Sizes : AllocCall(t, n)
    \/ \E b \in live : FreeCall(t, b)
    \/ \E b \in live : \E keep \in Sizes : ReleaseCall(t, b, keep)

\* What a caller does once its call has started.
Step(t) ==
    \/ AllocTryLock(t) \/ AllocScanHit(t) \/ AllocScanMiss(t) \/ AllocTake(t)
    \/ AllocUnlock(t)  \/ AllocMmapFail(t) \/ AllocMmap(t)   \/ Return(t)
    \/ FreeUnmap(t)    \/ FreeKeep(t)     \/ FreeTryLock(t)  \/ FreePush(t)
    \/ FreeUnlock(t)

Next == \E t \in Threads : Call(t) \/ Step(t)

Spec == Init /\ [][Next]_vars

\* Only the callers of FairThreads are known to be scheduled: the others may
\* stop anywhere, a holder of the lock included.
FairSpec == Spec /\ \A t \in FairThreads : WF_vars(Step(t))

-----------------------------------------------------------------------------
(* Correctness                                                             *)

Labels == {"idle", "alloc_lock", "alloc_scan", "alloc_take", "alloc_unlock",
           "alloc_mmap", "return", "free_unmap", "free_lock", "free_push",
           "free_unlock"}

\* Every variable has its type.
TypeOK ==
    /\ freelist \in Seq(Block)
    /\ lock_alloc \in BOOLEAN
    /\ mapped \subseteq Arena
    /\ live \subseteq Block
    /\ pc \in [Threads -> Labels]
    /\ req \in [Threads -> Nat]
    /\ pp \in [Threads -> Nat]
    /\ ret \in [Threads -> Block]
    /\ blk \in [Threads -> Block]

InCritical(t) ==
    pc[t] \in {"alloc_scan", "alloc_take", "alloc_unlock",
               "free_push", "free_unlock"}

\* The walk, the unlinking and the push of mmap.c run in one thread at a time:
\* lock_alloc is set while, and only while, some caller is between its
\* successful test-and-set and its release.
LockDiscipline ==
    /\ \A t, u \in Threads : InCritical(t) /\ InCritical(u) => t = u
    /\ lock_alloc <=> (Threaded /\ \E t \in Threads : InCritical(t))

\* "Don't put more than 16 entries on the free list": the bound holds also
\* after an allocation splits an entry.
FreeListBounded ==
    /\ Len(freelist) <= MaxFree
    /\ \A i \in 1..Len(freelist) : freelist[i].size >= MinBlock

\* The link an allocation found is still the first fit when it is unlinked.
FoundLinkValid ==
    \A t \in Threads :
        pc[t] = "alloc_take" => IsFirstFit(freelist, req[t], pp[t])

FreeDisjoint ==
    \A i, j \in 1..Len(freelist) : i # j => Disjoint(freelist[i], freelist[j])
FreeOrLive ==
    \A i \in 1..Len(freelist) : \A b \in live : Disjoint(freelist[i], b)
FreeOrHeld ==
    \A i \in 1..Len(freelist) : \A t \in Threads :
        Disjoint(freelist[i], ret[t]) /\ Disjoint(freelist[i], blk[t])
LiveDisjoint == \A b, c \in live : b # c => Disjoint(b, c)
LiveOrHeld ==
    \A b \in live : \A t \in Threads : Disjoint(b, ret[t]) /\ Disjoint(b, blk[t])
HeldDisjoint ==
    \A t, u \in Threads :
        /\ Disjoint(ret[t], blk[u])
        /\ t # u => Disjoint(ret[t], ret[u]) /\ Disjoint(blk[t], blk[u])
AllMapped ==
    /\ \A i \in 1..Len(freelist) : Bytes(freelist[i]) \subseteq mapped
    /\ \A b \in live : Bytes(b) \subseteq mapped
    /\ \A t \in Threads : Bytes(ret[t]) \cup Bytes(blk[t]) \subseteq mapped

\* No byte has two owners, and every owner's bytes are mapped: a block is on
\* the free list once, or with one caller, or on its way between them, however
\* allocations, frees, partial frees and munmap interleave.
NoOverlap ==
    /\ FreeDisjoint /\ FreeOrLive /\ FreeOrHeld
    /\ LiveDisjoint /\ LiveOrHeld /\ HeldDisjoint
    /\ AllMapped

\* What the callers share is safe: types, the lock, the link found, the bound
\* of the list, and above all the bytes.
AllocatorSafe ==
    TypeOK /\ LockDiscipline /\ FoundLinkValid /\ FreeListBounded /\ NoOverlap

Pool == INSTANCE MemPool

\* Every step of the allocator is one of the abstract pool, or invisible to
\* it: a block is handed out aligned, of the size asked for and of bytes no one
\* else has, or not at all, and stays as it is until its owner gives it back.
ImplementsPool == Pool!Spec

\* "leak the smallest entry": what a free drops from a full list, or does not
\* put on it, is no larger than anything it keeps.
LeaksTheSmallest ==
    [][\A t \in Threads :
         FreePush(t) /\ blk[t].size >= MinBlock =>
           LET before == {freelist[i] : i \in 1..Len(freelist)} \cup {blk[t]}
               after  == {freelist'[i] : i \in 1..Len(freelist')}
           IN  \A b \in before \ after : \A c \in after : b.size <= c.size]_vars

\* "This permits the backtrace functions to be invoked from a signal handler":
\* a call ends even if every other caller, one that holds the lock included,
\* has stopped for ever.
CallsTerminate ==
    \A t \in FairThreads : pc[t] # "idle" ~> pc[t] = "idle"
=============================================================================
