--------------------------- MODULE MmapAllocProofs ---------------------------
(* Theorems about the allocator of MmapAlloc, for every number of callers, *)
(* every size and every address range.                                     *)
EXTENDS MmapAlloc, WellFoundedInduction, SequenceTheorems, TLAPS

\* A non-empty set of natural numbers has a least element.
LEMMA LeastNatural ==
    ASSUME NEW S \in SUBSET Nat, S # {}
    PROVE  \E m \in S : \A n \in S : m <= n
<1>1. IsWellFoundedOn(OpToRel(<, Nat), Nat)
    BY NatLessThanWellFounded
<1>2. PICK m \in S : \A n \in S : ~(<<n, m>> \in OpToRel(<, Nat))
    BY <1>1, WFMin
<1>3. \A n \in S : ~(n < m)
    BY <1>2 DEF OpToRel
<1> QED BY <1>3
-----------------------------------------------------------------------------
(* The free list.                                                          *)

\* The walk of backtrace_free_locked finds an entry of a non-empty list.
LEMMA SmallestIsEntry ==
    ASSUME NEW list \in Seq(Block), Len(list) > 0
    PROVE  IsSmallest(list, Smallest(list))
<1> DEFINE S == {list[i].size : i \in 1..Len(list)}
<1>1. \A i \in 1..Len(list) : list[i].size \in Nat
    <2>1. \A i \in 1..Len(list) : list[i] \in Block
        OBVIOUS
    <2>2. \A b \in Block : b.size \in Nat
        BY DEF Block
    <2> QED BY <2>1, <2>2
<1>2. S \in SUBSET Nat /\ S # {}
    BY <1>1
<1>3. PICK m \in S : \A n \in S : m <= n
    BY <1>2, LeastNatural
<1> DEFINE I == {i \in 1..Len(list) : list[i].size = m}
<1>4. I \in SUBSET Nat /\ I # {}
    BY <1>3
<1>5. PICK i \in I : \A j \in I : i <= j
    BY <1>4, LeastNatural
<1>6. IsSmallest(list, i)
    <2>1. i \in 1..Len(list) /\ list[i].size = m
        BY <1>5
    <2>2. \A j \in 1..Len(list) : list[i].size <= list[j].size
        BY <2>1, <1>3
    <2>3. ASSUME NEW j \in 1..(i - 1)
          PROVE  list[i].size < list[j].size
        <3>1. j \in 1..Len(list) /\ j < i
            BY <2>1
        <3>2. list[j].size # m
            BY <3>1, <1>5, <2>1
        <3> QED BY <3>1, <3>2, <2>1, <2>2, <1>1, <1>3, <1>2
    <2> QED BY <2>1, <2>2, <2>3 DEF IsSmallest
<1>7. i \in 1..Len(list)
    BY <1>5
<1> QED BY <1>6, <1>7 DEF Smallest

\* Unlinking entry i keeps the others, in their order.
LEMMA RemoveNthEntries ==
    ASSUME NEW list \in Seq(Block), NEW i \in 1..Len(list)
    PROVE  /\ RemoveNth(list, i) \in Seq(Block)
           /\ Len(RemoveNth(list, i)) = Len(list) - 1
           /\ \A j \in 1..(Len(list) - 1) :
                 RemoveNth(list, i)[j] = IF j < i THEN list[j] ELSE list[j + 1]
<1> DEFINE a == SubSeq(list, 1, i - 1)
           b == SubSeq(list, i + 1, Len(list))
<1>1. /\ a \in Seq(Block) /\ Len(a) = i - 1
      /\ \A j \in 1..(i - 1) : a[j] = list[j]
    <2>1. \A j \in 1..(i - 1) : list[j] \in Block
        OBVIOUS
    <2> QED BY <2>1, SubSeqProperties
<1>2. /\ b \in Seq(Block) /\ Len(b) = Len(list) - i
      /\ \A j \in 1..(Len(list) - i) : b[j] = list[i + j]
    <2>1. \A j \in (i + 1)..Len(list) : list[j] \in Block
        OBVIOUS
    <2>2. /\ b \in Seq(Block)
          /\ Len(b) = IF i + 1 <= Len(list) THEN Len(list) - (i + 1) + 1 ELSE 0
          /\ \A j \in 1..(Len(list) - (i + 1) + 1) : b[j] = list[i + 1 + j - 1]
        <3>1. i + 1 \in Int /\ Len(list) \in Int
            OBVIOUS
        <3> QED BY <2>1, <3>1, SubSeqProperties
    <2> QED BY <2>2
<1>3. RemoveNth(list, i) = a \o b
    BY DEF RemoveNth
<1> HIDE DEF a, b
<1>4. /\ a \o b \in Seq(Block)
      /\ Len(a \o b) = Len(list) - 1
      /\ \A j \in 1..(Len(list) - 1) :
            (a \o b)[j] = IF j < i THEN a[j] ELSE b[j - (i - 1)]
    <2>1. Len(list) \in Nat /\ i \in Nat /\ i >= 1 /\ i <= Len(list)
        OBVIOUS
    <2>2. a \o b \in Seq(Block) /\ Len(a \o b) = Len(list) - 1
        <3>1. a \in Seq(Block) /\ b \in Seq(Block)
            BY <1>1, <1>2
        <3>2. a \o b \in Seq(Block) /\ Len(a \o b) = Len(a) + Len(b)
            BY <3>1, ConcatProperties
        <3>3. Len(a) = i - 1 /\ Len(b) = Len(list) - i
            BY <1>1, <1>2
        <3>4. (i - 1) + (Len(list) - i) = Len(list) - 1
            BY <2>1
        <3> QED BY <3>2, <3>3, <3>4
    <2>3. \A j \in 1..(Len(list) - 1) :
            (a \o b)[j] = IF j <= Len(a) THEN a[j] ELSE b[j - Len(a)]
        BY <1>1, <1>2, <2>1
    <2> QED BY <1>1, <2>1, <2>2, <2>3
<1>5. ASSUME NEW j \in 1..(Len(list) - 1)
      PROVE  (a \o b)[j] = IF j < i THEN list[j] ELSE list[j + 1]
    <2>1. CASE j < i
        BY <2>1, <1>1, <1>4
    <2>2. CASE ~(j < i)
        <3>1. j - (i - 1) \in 1..(Len(list) - i) /\ i + (j - (i - 1)) = j + 1
            BY <2>2
        <3>2. b[j - (i - 1)] = list[j + 1]
            BY <3>1, <1>2
        <3> QED BY <3>2, <2>2, <1>4
    <2> QED BY <2>1, <2>2
<1> QED BY <1>3, <1>4, <1>5

\* Pushing a block moves the others down by one.
LEMMA PushEntries ==
    ASSUME NEW list \in Seq(Block), NEW b \in Block
    PROVE  /\ <<b>> \o list \in Seq(Block)
           /\ Len(<<b>> \o list) = Len(list) + 1
           /\ (<<b>> \o list)[1] = b
           /\ \A k \in 2..(Len(list) + 1) : (<<b>> \o list)[k] = list[k - 1]
<1>1. <<b>> \in Seq(Block) /\ Len(<<b>>) = 1 /\ <<b>>[1] = b
    OBVIOUS
<1>2. <<b>> \o list \in Seq(Block) /\ Len(<<b>> \o list) = 1 + Len(list)
    BY <1>1, ConcatProperties
<1>3. Len(list) \in Nat
    OBVIOUS
<1>4. \A k \in 1..(1 + Len(list)) :
        (<<b>> \o list)[k] = IF k <= 1 THEN <<b>>[k] ELSE list[k - 1]
    BY <1>1, <1>3
<1> QED BY <1>1, <1>2, <1>3, <1>4

\* The entries of a list are disjoint from each other, and from a block.
Apart(list) == \A i, j \in 1..Len(list) : i # j => Disjoint(list[i], list[j])
AwayFrom(list, b) == \A i \in 1..Len(list) : Disjoint(list[i], b)
BigEnough(list) == \A i \in 1..Len(list) : list[i].size >= MinBlock

LEMMA DisjointSymmetric ==
    ASSUME NEW b, NEW c, Disjoint(b, c)
    PROVE  Disjoint(c, b)
BY DEF Disjoint

\* Unlinking an entry keeps a list disjoint, and puts the entry unlinked away
\* from the others.
LEMMA RemoveNthApart ==
    ASSUME NEW list \in Seq(Block), NEW i \in 1..Len(list), Apart(list)
    PROVE  Apart(RemoveNth(list, i)) /\ AwayFrom(RemoveNth(list, i), list[i])
<1> DEFINE rest == RemoveNth(list, i)
<1>1. /\ Len(rest) = Len(list) - 1
      /\ \A j \in 1..Len(rest) : rest[j] = IF j < i THEN list[j] ELSE list[j + 1]
    BY RemoveNthEntries
<1>2. Len(list) \in Nat
    OBVIOUS
<1> HIDE DEF rest
<1>3. Apart(rest)
    BY <1>1, <1>2 DEF Apart
<1>4. AwayFrom(rest, list[i])
    BY <1>1, <1>2 DEF Apart, AwayFrom
<1> QED BY <1>3, <1>4 DEF rest

\* backtrace_free_locked adds no entry but the block it is given, keeps the
\* list within its bound and its entries within theirs, and disjoint.
LEMMA FreeLockedEntries ==
    ASSUME NEW list \in Seq(Block), NEW b \in Block
    PROVE  /\ FreeLocked(list, b) \in Seq(Block)
           /\ Len(list) <= MaxFree => Len(FreeLocked(list, b)) <= MaxFree
           /\ BigEnough(list) => BigEnough(FreeLocked(list, b))
           /\ \A k \in 1..Len(FreeLocked(list, b)) :
                 \/ FreeLocked(list, b)[k] = b
                 \/ \E j \in 1..Len(list) : FreeLocked(list, b)[k] = list[j]
           /\ Apart(list) /\ AwayFrom(list, b) => Apart(FreeLocked(list, b))
<1> DEFINE full == Len(list) >= MaxFree
           rest == IF full THEN RemoveNth(list, Smallest(list)) ELSE list
<1>1. CASE \/ b.size < MinBlock
           \/ full /\ b.size <= list[Smallest(list)].size
    <2>1. FreeLocked(list, b) = list
        BY <1>1 DEF FreeLocked
    <2> QED BY <2>1
<1>2. CASE ~(\/ b.size < MinBlock
             \/ full /\ b.size <= list[Smallest(list)].size)
    <2>1. FreeLocked(list, b) = <<b>> \o rest
        BY <1>2 DEF FreeLocked
    <2>2. Len(list) \in Nat /\ MaxFree \in Nat /\ MaxFree > 0 /\ MinBlock \in Nat
        BY SizeAssumption
    <2>3. b.size \in Nat /\ b.size >= MinBlock
        BY <1>2, <2>2 DEF Block
    <2>4. /\ rest \in Seq(Block)
          /\ Len(rest) <= Len(list)
          /\ full => Len(rest) = Len(list) - 1
          /\ \A k \in 1..Len(rest) : \E j \in 1..Len(list) : rest[k] = list[j]
          /\ Apart(list) => Apart(rest)
        <3>1. CASE full
            <4>1. Smallest(list) \in 1..Len(list)
                BY <3>1, <2>2, SmallestIsEntry DEF IsSmallest
            <4>2. /\ rest \in Seq(Block) /\ Len(rest) = Len(list) - 1
                  /\ \A k \in 1..Len(rest) :
                        rest[k] = IF k < Smallest(list) THEN list[k] ELSE list[k + 1]
                BY <4>1, <3>1, RemoveNthEntries
            <4>3. Apart(list) => Apart(rest)
                BY <4>1, <3>1, RemoveNthApart
            <4>4. \A k \in 1..Len(rest) : k \in 1..Len(list) /\ k + 1 \in 1..Len(list)
                BY <4>2, <2>2
            <4> QED BY <4>2, <4>3, <4>4, <2>2
        <3>2. CASE ~full
            <4>1. rest = list
                BY <3>2
            <4> QED BY <4>1, <3>2, <2>2
        <3> QED BY <3>1, <3>2
    <2> HIDE DEF rest
    <2>5. /\ <<b>> \o rest \in Seq(Block)
          /\ Len(<<b>> \o rest) = Len(rest) + 1
          /\ (<<b>> \o rest)[1] = b
          /\ \A k \in 2..(Len(rest) + 1) : (<<b>> \o rest)[k] = rest[k - 1]
        BY <2>4, PushEntries
    <2> DEFINE new == <<b>> \o rest
    <2> HIDE DEF new
    <2>6. /\ new \in Seq(Block) /\ Len(new) = Len(rest) + 1 /\ new[1] = b
          /\ \A k \in 2..Len(new) : k - 1 \in 1..Len(rest) /\ new[k] = rest[k - 1]
          /\ Len(rest) \in Nat
        BY <2>5, <2>4 DEF new
    <2>7. Len(list) <= MaxFree => Len(new) <= MaxFree
        BY <2>2, <2>4, <2>6
    <2>8. \A k \in 1..Len(new) :
            new[k] = b \/ \E j \in 1..Len(list) : new[k] = list[j]
        <3>1. SUFFICES ASSUME NEW k \in 1..Len(new), k # 1
                       PROVE  \E j \in 1..Len(list) : new[k] = list[j]
            BY <2>6
        <3>2. k \in 2..Len(new)
            BY <3>1, <2>6
        <3>3. k - 1 \in 1..Len(rest) /\ new[k] = rest[k - 1]
            BY <3>2, <2>6
        <3> QED BY <3>3, <2>4
    <2>9. BigEnough(list) => BigEnough(new)
        BY <2>3, <2>8 DEF BigEnough
    <2>10. ASSUME Apart(list), AwayFrom(list, b)
           PROVE  Apart(new)
        <3>1. AwayFrom(rest, b)
            BY <2>10, <2>4 DEF AwayFrom
        <3>2. Apart(rest)
            BY <2>10, <2>4
        <3>3. SUFFICES ASSUME NEW i \in 1..Len(new), NEW j \in 1..Len(new), i # j
                       PROVE  Disjoint(new[i], new[j])
            BY DEF Apart
        <3>4. CASE i = 1
            <4>1. new[i] = b /\ j \in 2..Len(new)
                BY <3>4, <3>3, <2>6
            <4> QED BY <4>1, <2>6, <3>1, DisjointSymmetric DEF AwayFrom
        <3>5. CASE j = 1
            <4>1. new[j] = b /\ i \in 2..Len(new)
                BY <3>5, <3>3, <2>6
            <4> QED BY <4>1, <2>6, <3>1 DEF AwayFrom
        <3>6. CASE i # 1 /\ j # 1
            <4>1. i \in 2..Len(new) /\ j \in 2..Len(new) /\ i - 1 # j - 1
                BY <3>6, <3>3, <2>6
            <4> QED BY <4>1, <2>6, <3>2 DEF Apart
        <3> QED BY <3>4, <3>5, <3>6
    <2>11. FreeLocked(list, b) = new
        BY <2>1 DEF new
    <2> QED BY <2>6, <2>7, <2>8, <2>9, <2>10, <2>11
<1> QED BY <1>1, <1>2

-----------------------------------------------------------------------------
(* Blocks.                                                                 *)

LEMMA RoundUpBounds ==
    ASSUME NEW n \in Nat, NEW k \in Nat \ {0}
    PROVE  RoundUp(n, k) \in Nat /\ RoundUp(n, k) >= n
BY DEF RoundUp

LEMMA NoBlockEmpty == NoBlock \in Block /\ Bytes(NoBlock) = {}
BY DEF NoBlock, Block, Bytes

\* A block cut in two: the part kept and the rest have no byte in common and
\* none that the block did not have.
LEMMA Cut ==
    ASSUME NEW b \in Block, NEW keep \in Nat, NEW cut \in Nat,
           keep <= cut, cut <= b.size
    PROVE  LET kept == [addr |-> b.addr, size |-> keep]
           IN  /\ kept \in Block /\ Rest(b, cut) \in Block
               /\ Bytes(kept) \subseteq Bytes(b)
               /\ Bytes(Rest(b, cut)) \subseteq Bytes(b)
               /\ Disjoint(kept, Rest(b, cut))
BY DEF Block, Rest, Bytes, Disjoint

LEMMA DisjointParts ==
    ASSUME NEW b, NEW c, NEW d, Disjoint(b, c), Bytes(d) \subseteq Bytes(b)
    PROVE  Disjoint(d, c) /\ Disjoint(c, d)
BY DEF Disjoint

-----------------------------------------------------------------------------
(* The inductive invariant.                                                *)

\* What an allocation is about to return is at least what it was asked for,
\* and a caller that is not in a call is about to return nothing.
RetFits ==
    \A t \in Threads :
        /\ ret[t] # NoBlock => req[t] <= ret[t].size
        /\ pc[t] = "idle" => ret[t] = NoBlock

IInv ==
    /\ TypeOK /\ LockDiscipline /\ FoundLinkValid /\ RetFits
    /\ FreeListBounded /\ NoOverlap

LEMMA InitIInv == Init => IInv
<1> SUFFICES ASSUME Init PROVE IInv
    OBVIOUS
<1> USE NoBlockEmpty
<1>1. TypeOK
    <2>1. freelist \in Seq(Block)
        BY EmptySeq DEF Init
    <2>2. /\ pc \in [Threads -> Labels]
          /\ ret \in [Threads -> Block] /\ blk \in [Threads -> Block]
        BY DEF Init, Labels
    <2> QED BY <2>1, <2>2 DEF Init, TypeOK
<1>2. LockDiscipline /\ FoundLinkValid /\ RetFits
    BY DEF Init, LockDiscipline, InCritical, FoundLinkValid, RetFits
<1>3. FreeListBounded
    BY SizeAssumption DEF Init, FreeListBounded
<1>4. NoOverlap
    BY DEF Init, NoOverlap, FreeDisjoint, FreeOrLive, FreeOrHeld, LiveDisjoint,
           LiveOrHeld, HeldDisjoint, AllMapped, Disjoint
<1> QED BY <1>1, <1>2, <1>3, <1>4 DEF IInv

\* A caller's step changes its own program counter only; this is all the lock
\* discipline depends on.
LEMMA LockStep ==
    ASSUME TypeOK, LockDiscipline, NEW t \in Threads, Call(t) \/ Step(t)
    PROVE  LockDiscipline'
<1> USE DEF LockDiscipline, InCritical, Goto
<1>0. pc \in [Threads -> Labels] /\ lock_alloc \in BOOLEAN
    BY DEF TypeOK
<1>2. ASSUME NEW n \in Sizes, AllocCall(t, n) PROVE LockDiscipline'
    BY <1>0, <1>2 DEF AllocCall, Labels
<1>3. CASE AllocTryLock(t)
    BY <1>0, <1>3, ThreadsAssumption DEF AllocTryLock, TryLock
<1>4. CASE AllocScanHit(t)
    BY <1>0, <1>4 DEF AllocScanHit
<1>5. CASE AllocScanMiss(t)
    BY <1>0, <1>5 DEF AllocScanMiss
<1>6. CASE AllocTake(t)
    BY <1>0, <1>6 DEF AllocTake
<1>7. CASE AllocUnlock(t)
    BY <1>0, <1>7 DEF AllocUnlock, Unlock
<1>8. CASE AllocMmapFail(t)
    BY <1>0, <1>8 DEF AllocMmapFail
<1>9. CASE AllocMmap(t)
    BY <1>0, <1>9 DEF AllocMmap
<1>10. CASE Return(t)
    BY <1>0, <1>10 DEF Return
<1>11. ASSUME NEW b \in live, FreeCall(t, b) PROVE LockDiscipline'
    BY <1>0, <1>11 DEF FreeCall
<1>12. ASSUME NEW b \in live, NEW keep \in Sizes, ReleaseCall(t, b, keep)
       PROVE  LockDiscipline'
    BY <1>0, <1>12 DEF ReleaseCall
<1>13. CASE FreeUnmap(t)
    BY <1>0, <1>13 DEF FreeUnmap
<1>14. CASE FreeKeep(t)
    BY <1>0, <1>14 DEF FreeKeep
<1>15. CASE FreeTryLock(t)
    BY <1>0, <1>15, ThreadsAssumption DEF FreeTryLock, TryLock
<1>16. CASE FreePush(t)
    BY <1>0, <1>16 DEF FreePush
<1>17. CASE FreeUnlock(t)
    BY <1>0, <1>17 DEF FreeUnlock, Unlock
<1> QED BY <1>2, <1>3, <1>4, <1>5, <1>6, <1>7, <1>8, <1>9, <1>10, <1>11,
           <1>12, <1>13, <1>14, <1>15, <1>16, <1>17 DEF Call, Step

\* Rounded sizes, and blocks found by a walk, have their types.
LEMMA FoundBlock ==
    ASSUME TypeOK, FoundLinkValid, NEW t \in Threads, pc[t] = "alloc_take"
    PROVE  /\ pp[t] \in 1..Len(freelist)
           /\ freelist[pp[t]] \in Block
           /\ req[t] \in Nat
           /\ req[t] <= freelist[pp[t]].size
           /\ RoundUp(req[t], Align) \in Nat
           /\ req[t] <= RoundUp(req[t], Align)
<1>1. IsFirstFit(freelist, req[t], pp[t])
    BY DEF FoundLinkValid
<1>2. pp[t] \in 1..Len(freelist) /\ freelist[pp[t]].size >= req[t]
    BY <1>1 DEF IsFirstFit
<1>3. freelist \in Seq(Block) /\ req[t] \in Nat
    BY DEF TypeOK
<1>4. freelist[pp[t]] \in Block
    BY <1>2, <1>3
<1>5. freelist[pp[t]].size \in Nat
    BY <1>4 DEF Block
<1> QED BY <1>2, <1>3, <1>4, <1>5, RoundUpBounds, SizeAssumption

LEMMA TypeStep ==
    ASSUME TypeOK, FoundLinkValid, NEW t \in Threads, Call(t) \/ Step(t)
    PROVE  TypeOK'
<1>0. /\ freelist \in Seq(Block) /\ lock_alloc \in BOOLEAN
      /\ mapped \subseteq Arena /\ live \subseteq Block
      /\ pc \in [Threads -> Labels] /\ req \in [Threads -> Nat]
      /\ pp \in [Threads -> Nat] /\ ret \in [Threads -> Block]
      /\ blk \in [Threads -> Block]
    BY DEF TypeOK
<1>a. pc' \in [Threads -> Labels] /\ lock_alloc' \in BOOLEAN
    BY <1>0, ThreadsAssumption
    DEF Call, Step, AllocCall, AllocTryLock, AllocScanHit, AllocScanMiss,
        AllocTake, AllocUnlock, AllocMmapFail, AllocMmap, Return, FreeCall,
        ReleaseCall, FreeUnmap, FreeKeep, FreeTryLock, FreePush, FreeUnlock,
        Goto, TryLock, Unlock, Labels
<1> USE NoBlockEmpty, <1>0, <1>a
<1>1. ASSUME NEW n \in Sizes, AllocCall(t, n) PROVE TypeOK'
    BY <1>1, SizeAssumption DEF AllocCall, TypeOK
<1>2. CASE AllocTryLock(t)
    BY <1>2 DEF AllocTryLock, TypeOK
<1>3. CASE AllocScanHit(t)
    BY <1>3 DEF AllocScanHit, TypeOK
<1>4. CASE AllocScanMiss(t)
    BY <1>4 DEF AllocScanMiss, TypeOK
<1>5. CASE AllocTake(t)
    <2> DEFINE p == freelist[pp[t]]
               rounded == RoundUp(req[t], Align)
               list == RemoveNth(freelist, pp[t])
    <2>1. /\ pp[t] \in 1..Len(freelist) /\ p \in Block /\ rounded \in Nat
          /\ p.size \in Nat /\ p.addr \in Nat
        BY <1>5, FoundBlock DEF AllocTake, Block
    <2>2. list \in Seq(Block)
        BY <2>1, RemoveNthEntries
    <2>3. rounded < p.size =>
            /\ Rest(p, rounded) \in Block
            /\ [addr |-> p.addr, size |-> rounded] \in Block
        <3> HIDE DEF p, rounded
        <3>1. \A a, n \in Nat : [addr |-> a, size |-> n] \in Block
            BY DEF Block
        <3>2. rounded < p.size => p.addr + rounded \in Nat /\ p.size - rounded \in Nat
            BY <2>1
        <3> QED BY <2>1, <3>1, <3>2 DEF Rest
    <2>4. rounded < p.size => FreeLocked(list, Rest(p, rounded)) \in Seq(Block)
        BY <2>2, <2>3, FreeLockedEntries
    <2>5. /\ freelist' = IF rounded < p.size
                         THEN FreeLocked(list, Rest(p, rounded)) ELSE list
          /\ ret' = IF rounded < p.size
                    THEN [ret EXCEPT ![t] = [addr |-> p.addr, size |-> rounded]]
                    ELSE [ret EXCEPT ![t] = p]
        BY <1>5 DEF AllocTake
    <2> HIDE DEF p, rounded, list
    <2>6. freelist' \in Seq(Block)
        BY <2>2, <2>4, <2>5
    <2>7. ret' \in [Threads -> Block]
        BY <2>1, <2>3, <2>5
    <2> QED BY <1>5, <2>6, <2>7 DEF AllocTake, TypeOK
<1>6. CASE AllocUnlock(t)
    BY <1>6 DEF AllocUnlock, TypeOK
<1>7. CASE AllocMmapFail(t)
    BY <1>7 DEF AllocMmapFail, TypeOK
<1>8. CASE AllocMmap(t)
    <2> DEFINE asksize == RoundUp(req[t], PageSize)
               rounded == RoundUp(req[t], Align)
    <2>1. asksize \in Nat /\ rounded \in Nat
        BY RoundUpBounds, SizeAssumption
    <2>2. PICK addr \in Arena :
             /\ mapped' = mapped \cup Bytes([addr |-> addr, size |-> asksize])
             /\ Bytes([addr |-> addr, size |-> asksize]) \subseteq Arena \ mapped
             /\ IF rounded < asksize
                THEN /\ ret' = [ret EXCEPT ![t] = [addr |-> addr, size |-> rounded]]
                     /\ blk' = [blk EXCEPT ![t] =
                                  Rest([addr |-> addr, size |-> asksize], rounded)]
                ELSE /\ ret' = [ret EXCEPT ![t] = [addr |-> addr, size |-> asksize]]
                     /\ UNCHANGED blk
        BY <1>8 DEF AllocMmap
    <2>3. addr \in Nat
        BY ArenaAssumption
    <2> HIDE DEF asksize, rounded
    <2>4. ret' \in [Threads -> Block]
        <3>1. /\ [addr |-> addr, size |-> rounded] \in Block
              /\ [addr |-> addr, size |-> asksize] \in Block
            BY <2>1, <2>3 DEF Block
        <3> QED BY <2>2, <3>1
    <2>5. rounded < asksize =>
            Rest([addr |-> addr, size |-> asksize], rounded) \in Block
        BY <2>1, <2>3 DEF Block, Rest
    <2>6. blk' \in [Threads -> Block]
        BY <2>2, <2>5
    <2>7. mapped' \subseteq Arena
        BY <2>2
    <2> QED BY <1>8, <2>4, <2>6, <2>7 DEF AllocMmap, TypeOK
<1>9. CASE Return(t)
    <2>1. [addr |-> ret[t].addr, size |-> req[t]] \in Block
        BY DEF Block
    <2> QED BY <1>9, <2>1 DEF Return, TypeOK
<1>10. ASSUME NEW b \in live, FreeCall(t, b) PROVE TypeOK'
    BY <1>10 DEF FreeCall, TypeOK
<1>11. ASSUME NEW b \in live, NEW keep \in Sizes, ReleaseCall(t, b, keep)
       PROVE  TypeOK'
    <2>1. /\ b \in Block /\ keep \in Nat /\ RoundUp(keep, Align) \in Nat
          /\ keep <= RoundUp(keep, Align) /\ RoundUp(keep, Align) <= b.size
        BY <1>11, SizeAssumption, RoundUpBounds DEF ReleaseCall
    <2>2. /\ [addr |-> b.addr, size |-> keep] \in Block
          /\ Rest(b, RoundUp(keep, Align)) \in Block
        BY <2>1, Cut
    <2> QED BY <1>11, <2>2 DEF ReleaseCall, TypeOK
<1>12. CASE FreeUnmap(t)
    BY <1>12 DEF FreeUnmap, TypeOK
<1>13. CASE FreeKeep(t)
    BY <1>13 DEF FreeKeep, TypeOK
<1>14. CASE FreeTryLock(t)
    BY <1>14 DEF FreeTryLock, TypeOK
<1>15. CASE FreePush(t)
    <2>1. FreeLocked(freelist, blk[t]) \in Seq(Block)
        BY FreeLockedEntries
    <2> QED BY <1>15, <2>1 DEF FreePush, TypeOK
<1>16. CASE FreeUnlock(t)
    BY <1>16 DEF FreeUnlock, TypeOK
<1> QED BY <1>1, <1>2, <1>3, <1>4, <1>5, <1>6, <1>7, <1>8, <1>9, <1>10,
           <1>11, <1>12, <1>13, <1>14, <1>15, <1>16 DEF Call, Step

\* Only a caller inside the lock changes the free list, and it is alone there.
LEMMA FoundStep ==
    ASSUME TypeOK, LockDiscipline, FoundLinkValid,
           NEW t \in Threads, Call(t) \/ Step(t)
    PROVE  FoundLinkValid'
<1>0. pc \in [Threads -> Labels] /\ req \in [Threads -> Nat] /\ pp \in [Threads -> Nat]
    BY DEF TypeOK
<1>1. CASE UNCHANGED freelist
    <2>1. \A u \in Threads : pc'[u] = "alloc_take" =>
            \/ pc[u] = "alloc_take" /\ req'[u] = req[u] /\ pp'[u] = pp[u]
            \/ IsFirstFit(freelist, req'[u], pp'[u])
        BY <1>0, <1>1
        DEF Call, Step, AllocCall, AllocTryLock, AllocScanHit, AllocScanMiss,
            AllocTake, AllocUnlock, AllocMmapFail, AllocMmap, Return, FreeCall,
            ReleaseCall, FreeUnmap, FreeKeep, FreeTryLock, FreePush, FreeUnlock,
            Goto, TryLock
    <2> QED BY <1>1, <2>1 DEF FoundLinkValid
<1>2. CASE AllocTake(t) \/ FreePush(t)
    <2>1. \A u \in Threads : pc'[u] # "alloc_take"
        <3>1. \A u \in Threads : u # t => pc[u] # "alloc_take"
            BY <1>2 DEF LockDiscipline, InCritical, AllocTake, FreePush
        <3> QED BY <1>0, <1>2, <3>1 DEF AllocTake, FreePush, Goto
    <2> QED BY <2>1 DEF FoundLinkValid
<1>3. AllocTake(t) \/ FreePush(t) \/ UNCHANGED freelist
    BY DEF Call, Step, AllocCall, AllocTryLock, AllocScanHit, AllocScanMiss,
           AllocUnlock, AllocMmapFail, AllocMmap, Return, FreeCall,
           ReleaseCall, FreeUnmap, FreeKeep, FreeTryLock, FreeUnlock
<1> QED BY <1>1, <1>2, <1>3

LEMMA RetStep ==
    ASSUME TypeOK, FoundLinkValid, RetFits, NEW t \in Threads, Call(t) \/ Step(t)
    PROVE  RetFits'
<1>0. /\ pc \in [Threads -> Labels] /\ req \in [Threads -> Nat]
      /\ ret \in [Threads -> Block]
    BY DEF TypeOK
<1>1. ASSUME NEW n \in Sizes, AllocCall(t, n) PROVE RetFits'
    BY <1>0, <1>1 DEF AllocCall, RetFits, Goto
<1>2. CASE Return(t)
    BY <1>0, <1>2 DEF Return, RetFits, Goto
<1>3. CASE AllocTake(t)
    <2> DEFINE p == freelist[pp[t]]
    <2>1. req[t] <= p.size /\ req[t] <= RoundUp(req[t], Align)
        BY <1>3, FoundBlock DEF AllocTake
    <2>2. ret' = [ret EXCEPT ![t] =
                    IF RoundUp(req[t], Align) < p.size
                    THEN [addr |-> p.addr, size |-> RoundUp(req[t], Align)] ELSE p]
        BY <1>3 DEF AllocTake
    <2> HIDE DEF p
    <2>3. req[t] <= ret'[t].size
        BY <1>0, <2>1, <2>2
    <2>4. \A u \in Threads : u # t => ret'[u] = ret[u] /\ pc'[u] = pc[u]
        BY <1>0, <1>3, <2>2 DEF AllocTake, Goto
    <2>5. req' = req /\ pc'[t] # "idle"
        BY <1>0, <1>3 DEF AllocTake, Goto
    <2> QED BY <2>3, <2>4, <2>5 DEF RetFits
<1>4. CASE AllocMmap(t)
    <2> DEFINE asksize == RoundUp(req[t], PageSize)
               rounded == RoundUp(req[t], Align)
    <2>1. req[t] <= asksize /\ req[t] <= rounded
        BY <1>0, RoundUpBounds, SizeAssumption
    <2>2. PICK addr \in Arena :
             ret' = [ret EXCEPT ![t] = [addr |-> addr,
                       size |-> IF rounded < asksize THEN rounded ELSE asksize]]
        BY <1>4 DEF AllocMmap
    <2> HIDE DEF asksize, rounded
    <2>3. req[t] <= ret'[t].size
        BY <1>0, <2>1, <2>2
    <2>4. \A u \in Threads : u # t => ret'[u] = ret[u] /\ pc'[u] = pc[u]
        BY <1>0, <1>4, <2>2 DEF AllocMmap, Goto
    <2>5. req' = req /\ pc'[t] # "idle"
        BY <1>0, <1>4 DEF AllocMmap, Goto
    <2> QED BY <2>3, <2>4, <2>5 DEF RetFits
<1>5. CASE /\ UNCHANGED <<req, ret>>
           /\ \A u \in Threads : pc'[u] = "idle" => pc[u] = "idle"
    BY <1>5 DEF RetFits
<1>6. \/ AllocTryLock(t) \/ AllocScanHit(t) \/ AllocScanMiss(t) \/ AllocUnlock(t)
      \/ AllocMmapFail(t) \/ FreeUnmap(t) \/ FreeKeep(t) \/ FreeTryLock(t)
      \/ FreePush(t) \/ FreeUnlock(t)
      \/ \E b \in live : FreeCall(t, b)
      \/ \E b \in live : \E keep \in Sizes : ReleaseCall(t, b, keep)
      => /\ UNCHANGED <<req, ret>>
         /\ \A u \in Threads : pc'[u] = "idle" => pc[u] = "idle"
    BY <1>0 DEF AllocTryLock, AllocScanHit, AllocScanMiss, AllocUnlock,
       AllocMmapFail, FreeUnmap, FreeKeep, FreeTryLock, FreePush, FreeUnlock,
       FreeCall, ReleaseCall, Goto, TryLock
<1> QED BY <1>1, <1>2, <1>3, <1>4, <1>5, <1>6 DEF Call, Step

LEMMA BoundStep ==
    ASSUME TypeOK, FoundLinkValid, FreeListBounded,
           NEW t \in Threads, Call(t) \/ Step(t)
    PROVE  FreeListBounded'
<1>0. freelist \in Seq(Block) /\ blk \in [Threads -> Block] /\ MaxFree \in Nat
    BY SizeAssumption DEF TypeOK
<1> DEFINE Bounded(l) == Len(l) <= MaxFree /\ BigEnough(l)
<1>1. Bounded(freelist)
    BY DEF FreeListBounded, BigEnough
<1>2. CASE AllocTake(t)
    <2> DEFINE p == freelist[pp[t]]
               rounded == RoundUp(req[t], Align)
               list == RemoveNth(freelist, pp[t])
    <2>1. /\ pp[t] \in 1..Len(freelist) /\ p \in Block /\ rounded \in Nat
          /\ p.size \in Nat /\ p.addr \in Nat
        BY <1>2, FoundBlock DEF AllocTake, Block
    <2>2. /\ list \in Seq(Block) /\ Len(list) = Len(freelist) - 1
          /\ \A j \in 1..(Len(freelist) - 1) :
                list[j] = IF j < pp[t] THEN freelist[j] ELSE freelist[j + 1]
        BY <1>0, <2>1, RemoveNthEntries
    <2>3. freelist' = IF rounded < p.size
                      THEN FreeLocked(list, Rest(p, rounded)) ELSE list
        BY <1>2 DEF AllocTake
    <2> HIDE DEF p, rounded, list
    <2>4. Len(freelist) \in Nat
        BY <1>0
    <2>5. Bounded(list)
        <3>1. \A j \in 1..Len(list) : list[j].size >= MinBlock
            BY <1>1, <2>1, <2>2, <2>4 DEF BigEnough
        <3> QED BY <1>0, <1>1, <2>2, <2>4, <3>1 DEF BigEnough
    <2>6. ASSUME rounded < p.size
          PROVE  Rest(p, rounded) \in Block
        BY <2>1, <2>6 DEF Rest, Block
    <2>7. ASSUME rounded < p.size
          PROVE  Bounded(FreeLocked(list, Rest(p, rounded)))
        BY <2>2, <2>5, <2>6, <2>7, FreeLockedEntries
    <2> QED BY <2>3, <2>5, <2>7 DEF FreeListBounded, BigEnough
<1>3. CASE FreePush(t)
    <2>1. Bounded(FreeLocked(freelist, blk[t]))
        BY <1>0, <1>1, FreeLockedEntries
    <2> QED BY <1>3, <2>1 DEF FreePush, FreeListBounded, BigEnough
<1>4. CASE UNCHANGED freelist
    BY <1>4 DEF FreeListBounded
<1>5. AllocTake(t) \/ FreePush(t) \/ UNCHANGED freelist
    BY DEF Call, Step, AllocCall, AllocTryLock, AllocScanHit, AllocScanMiss,
           AllocUnlock, AllocMmapFail, AllocMmap, Return, FreeCall,
           ReleaseCall, FreeUnmap, FreeKeep, FreeTryLock, FreeUnlock
<1> QED BY <1>2, <1>3, <1>4, <1>5

-----------------------------------------------------------------------------
(* No byte has two owners.                                                 *)

\* A step that gives no caller a block it did not have changes nothing.
LEMMA OverlapQuiet ==
    ASSUME NoOverlap, UNCHANGED <<freelist, live, mapped>>,
           \A u \in Threads : ret'[u] \in {ret[u], NoBlock} /\ blk'[u] \in {blk[u], NoBlock}
    PROVE  NoOverlap'
<1>1. \A b : Disjoint(NoBlock, b) /\ Disjoint(b, NoBlock)
    BY NoBlockEmpty DEF Disjoint
<1>2. FreeDisjoint' /\ FreeOrLive' /\ LiveDisjoint'
    BY DEF NoOverlap, FreeDisjoint, FreeOrLive, LiveDisjoint
<1>3. FreeOrHeld' /\ LiveOrHeld'
    BY <1>1 DEF NoOverlap, FreeOrHeld, LiveOrHeld
<1>4. HeldDisjoint'
    BY <1>1 DEF NoOverlap, HeldDisjoint
<1>5. AllMapped'
    BY NoBlockEmpty DEF NoOverlap, AllMapped
<1> QED BY <1>2, <1>3, <1>4, <1>5 DEF NoOverlap

\* The entry an allocation takes is cut in two parts no one else has.
LEMMA OverlapAllocTake ==
    ASSUME TypeOK, FoundLinkValid, NoOverlap, NEW t \in Threads, AllocTake(t)
    PROVE  NoOverlap'
<1> DEFINE p == freelist[pp[t]]
           rounded == RoundUp(req[t], Align)
           list == RemoveNth(freelist, pp[t])
           r == IF rounded < p.size THEN [addr |-> p.addr, size |-> rounded] ELSE p
           q == Rest(p, rounded)
<1>0. freelist \in Seq(Block) /\ ret \in [Threads -> Block] /\ blk \in [Threads -> Block]
    BY DEF TypeOK
<1>1. /\ pp[t] \in 1..Len(freelist) /\ p \in Block /\ rounded \in Nat
      /\ p.size \in Nat
    BY FoundBlock DEF AllocTake, Block
<1>2. /\ list \in Seq(Block) /\ Len(list) = Len(freelist) - 1
      /\ \A j \in 1..(Len(freelist) - 1) :
            list[j] = IF j < pp[t] THEN freelist[j] ELSE freelist[j + 1]
    BY <1>0, <1>1, RemoveNthEntries
<1>3. Apart(freelist)
    BY DEF NoOverlap, FreeDisjoint, Apart
<1>4. Apart(list) /\ AwayFrom(list, p)
    BY <1>0, <1>1, <1>3, RemoveNthApart
<1>5. /\ freelist' = IF rounded < p.size THEN FreeLocked(list, q) ELSE list
      /\ ret' = [ret EXCEPT ![t] = r]
      /\ UNCHANGED <<live, mapped, blk>>
    BY DEF AllocTake
<1>6. /\ Bytes(r) \subseteq Bytes(p)
      /\ rounded < p.size => /\ q \in Block /\ Bytes(q) \subseteq Bytes(p)
                            /\ Disjoint(r, q)
    BY <1>1, Cut
<1> HIDE DEF p, rounded, list, r, q
<1>7. \A j \in 1..Len(list) : \E i \in 1..Len(freelist) : list[j] = freelist[i]
    <2>1. Len(freelist) \in Nat
        BY <1>0
    <2>2. \A j \in 1..(Len(freelist) - 1) : j \in 1..Len(freelist) /\ j + 1 \in 1..Len(freelist)
        BY <2>1
    <2> QED BY <1>2, <2>2
<1>8. AwayFrom(list, r) /\ (rounded < p.size => AwayFrom(list, q))
    BY <1>4, <1>6, DisjointParts DEF AwayFrom, Disjoint
<1>9. /\ Apart(freelist')
      /\ \A k \in 1..Len(freelist') :
            \/ rounded < p.size /\ freelist'[k] = q
            \/ \E j \in 1..Len(list) : freelist'[k] = list[j]
    <2>1. CASE rounded < p.size
        BY <2>1, <1>2, <1>4, <1>5, <1>6, <1>8, FreeLockedEntries
    <2>2. CASE ~(rounded < p.size)
        BY <2>2, <1>4, <1>5
    <2> QED BY <2>1, <2>2
<1>10. AwayFrom(freelist', r)
    BY <1>6, <1>8, <1>9 DEF AwayFrom, Disjoint
<1>11. \A k \in 1..Len(freelist') : \E i \in 1..Len(freelist) :
          Bytes(freelist'[k]) \subseteq Bytes(freelist[i])
    BY <1>1, <1>6, <1>7, <1>9 DEF p
<1>12. ASSUME NEW b, \A i \in 1..Len(freelist) : Disjoint(freelist[i], b)
       PROVE  Disjoint(r, b) /\ \A k \in 1..Len(freelist') : Disjoint(freelist'[k], b)
    BY <1>1, <1>6, <1>11, <1>12, DisjointParts DEF p
<1>13. ret'[t] = r /\ \A u \in Threads : u # t => ret'[u] = ret[u]
    BY <1>0, <1>5
<1>14. FreeDisjoint'
    BY <1>9 DEF FreeDisjoint, Apart
<1>15. FreeOrLive' /\ LiveDisjoint'
    BY <1>5, <1>12 DEF NoOverlap, FreeOrLive, LiveDisjoint
<1>16. FreeOrHeld'
    <2>1. SUFFICES ASSUME NEW k \in 1..Len(freelist'), NEW u \in Threads
                   PROVE  Disjoint(freelist'[k], ret'[u]) /\ Disjoint(freelist'[k], blk'[u])
        BY DEF FreeOrHeld
    <2>2. Disjoint(freelist'[k], blk'[u])
        BY <1>5, <1>12 DEF NoOverlap, FreeOrHeld
    <2>3. Disjoint(freelist'[k], ret'[u])
        BY <1>10, <1>12, <1>13 DEF NoOverlap, FreeOrHeld, AwayFrom
    <2> QED BY <2>2, <2>3
<1>17. LiveOrHeld'
    <2>1. \A b \in live : Disjoint(b, r)
        BY <1>12, DisjointSymmetric DEF NoOverlap, FreeOrLive
    <2> QED BY <1>5, <1>13, <2>1 DEF NoOverlap, LiveOrHeld
<1>18. HeldDisjoint'
    <2>1. \A u \in Threads : Disjoint(r, blk[u]) /\ Disjoint(r, ret[u]) /\ Disjoint(ret[u], r)
        BY <1>12, DisjointSymmetric DEF NoOverlap, FreeOrHeld
    <2> QED BY <1>5, <1>13, <2>1 DEF NoOverlap, HeldDisjoint
<1>19. AllMapped'
    <2>1. \A k \in 1..Len(freelist') : Bytes(freelist'[k]) \subseteq mapped
        BY <1>11 DEF NoOverlap, AllMapped
    <2>2. Bytes(r) \subseteq mapped
        BY <1>1, <1>6 DEF NoOverlap, AllMapped, p
    <2> QED BY <1>5, <1>13, <2>1, <2>2 DEF NoOverlap, AllMapped
<1> QED BY <1>14, <1>15, <1>16, <1>17, <1>18, <1>19 DEF NoOverlap

\* Fresh pages are no one's: every block in use lies in what was mapped before.
LEMMA OverlapAllocMmap ==
    ASSUME TypeOK, NoOverlap, NEW t \in Threads, AllocMmap(t)
    PROVE  NoOverlap'
<1> DEFINE asksize == RoundUp(req[t], PageSize)
           rounded == RoundUp(req[t], Align)
<1>0. ret \in [Threads -> Block] /\ blk \in [Threads -> Block] /\ req \in [Threads -> Nat]
    BY DEF TypeOK
<1>1. asksize \in Nat /\ rounded \in Nat
    BY <1>0, RoundUpBounds, SizeAssumption
<1>2. PICK addr \in Arena :
         LET page == [addr |-> addr, size |-> asksize]
         IN  /\ Bytes(page) \subseteq Arena \ mapped
             /\ mapped' = mapped \cup Bytes(page)
             /\ IF rounded < asksize
                THEN /\ ret' = [ret EXCEPT ![t] = [addr |-> addr, size |-> rounded]]
                     /\ blk' = [blk EXCEPT ![t] = Rest(page, rounded)]
                ELSE ret' = [ret EXCEPT ![t] = page] /\ UNCHANGED blk
    BY DEF AllocMmap
<1> DEFINE page == [addr |-> addr, size |-> asksize]
           r == IF rounded < asksize THEN [addr |-> addr, size |-> rounded] ELSE page
           q == IF rounded < asksize THEN Rest(page, rounded) ELSE blk[t]
<1>3. page \in Block /\ page.addr = addr /\ page.size = asksize
    BY <1>1, ArenaAssumption DEF Block
<1>4. /\ Bytes(r) \subseteq Bytes(page)
      /\ rounded < asksize => Bytes(q) \subseteq Bytes(page) /\ Disjoint(r, q)
    <2>1. CASE rounded < asksize
        BY <2>1, <1>1, <1>3, Cut
    <2>2. CASE ~(rounded < asksize)
        BY <2>2
    <2> QED BY <2>1, <2>2
<1>5. /\ Bytes(page) \cap mapped = {}
      /\ mapped' = mapped \cup Bytes(page)
      /\ ret' = [ret EXCEPT ![t] = r]
      /\ ~(rounded < asksize) => q = blk[t] /\ blk' = blk
      /\ rounded < asksize => blk' = [blk EXCEPT ![t] = q]
    BY <1>2
<1> HIDE DEF asksize, rounded, page, r, q
<1>6. UNCHANGED <<freelist, live>>
    BY DEF AllocMmap
<1>7. /\ ret'[t] = r /\ blk'[t] = q
      /\ \A u \in Threads : u # t => ret'[u] = ret[u] /\ blk'[u] = blk[u]
    BY <1>0, <1>5
<1>8. ASSUME NEW b, Bytes(b) \subseteq mapped
      PROVE  Disjoint(b, r) /\ Disjoint(r, b) /\ (rounded < asksize => Disjoint(b, q) /\ Disjoint(q, b))
    BY <1>4, <1>5, <1>8 DEF Disjoint
<1>9. Disjoint(r, q)
    <2>1. CASE rounded < asksize
        BY <2>1, <1>4
    <2>2. CASE ~(rounded < asksize)
        BY <2>2, <1>5, <1>8 DEF NoOverlap, AllMapped
    <2> QED BY <2>1, <2>2
<1>10. FreeDisjoint' /\ FreeOrLive' /\ LiveDisjoint'
    BY <1>6 DEF NoOverlap, FreeDisjoint, FreeOrLive, LiveDisjoint
<1>11. ASSUME NEW b, Bytes(b) \subseteq mapped,
              \A u \in Threads : Disjoint(b, ret[u]) /\ Disjoint(b, blk[u])
       PROVE  \A u \in Threads : Disjoint(b, ret'[u]) /\ Disjoint(b, blk'[u])
    BY <1>5, <1>7, <1>8, <1>11
<1>12. FreeOrHeld' /\ LiveOrHeld'
    BY <1>6, <1>11 DEF NoOverlap, FreeOrHeld, LiveOrHeld, AllMapped
<1>13. HeldDisjoint'
    <2>1. \A u \in Threads : /\ Disjoint(r, ret[u]) /\ Disjoint(ret[u], r)
                             /\ Disjoint(r, blk[u])
        BY <1>8 DEF NoOverlap, AllMapped
    <2>2. \A u \in Threads : u # t =>
             Disjoint(ret[u], q) /\ Disjoint(blk[u], q) /\ Disjoint(q, blk[u])
        BY <1>5, <1>8 DEF NoOverlap, HeldDisjoint, AllMapped
    <2> QED BY <1>7, <1>9, <2>1, <2>2 DEF NoOverlap, HeldDisjoint
<1>14. AllMapped'
    <2>1. Bytes(r) \subseteq mapped' /\ Bytes(q) \subseteq mapped'
        BY <1>4, <1>5 DEF NoOverlap, AllMapped
    <2> QED BY <1>5, <1>6, <1>7, <2>1 DEF NoOverlap, AllMapped
<1> QED BY <1>10, <1>12, <1>13, <1>14 DEF NoOverlap

\* What a caller gets back is part of what the allocation was carrying.
LEMMA OverlapReturn ==
    ASSUME TypeOK, RetFits, NoOverlap, NEW t \in Threads, Return(t)
    PROVE  NoOverlap'
<1>0. ret \in [Threads -> Block] /\ req \in [Threads -> Nat]
    BY DEF TypeOK
<1>1. CASE ret[t] = NoBlock
    <2>1. UNCHANGED <<freelist, live, mapped, blk>>
        BY <1>1 DEF Return
    <2>2. \A u \in Threads : ret'[u] \in {ret[u], NoBlock}
        BY <1>0 DEF Return
    <2> QED BY <2>1, <2>2, OverlapQuiet
<1>2. CASE ret[t] # NoBlock
    <2> DEFINE c == [addr |-> ret[t].addr, size |-> req[t]]
    <2>1. /\ live' = live \cup {c}
          /\ ret' = [ret EXCEPT ![t] = NoBlock]
          /\ UNCHANGED <<freelist, mapped, blk>>
        BY <1>2 DEF Return
    <2>2. Bytes(c) \subseteq Bytes(ret[t])
        <3>1. req[t] <= ret[t].size /\ req[t] \in Nat /\ ret[t] \in Block
            BY <1>0, <1>2 DEF RetFits
        <3> QED BY <3>1, Cut
    <2> HIDE DEF c
    <2>3. \A b : Disjoint(b, ret[t]) \/ Disjoint(ret[t], b) => Disjoint(b, c) /\ Disjoint(c, b)
        BY <2>2 DEF Disjoint
    <2>4. \A b : Disjoint(NoBlock, b) /\ Disjoint(b, NoBlock)
        BY NoBlockEmpty DEF Disjoint
    <2>5. ret'[t] = NoBlock /\ \A u \in Threads : u # t => ret'[u] = ret[u]
        BY <1>0, <2>1
    <2>6. FreeDisjoint' /\ FreeOrLive' /\ LiveDisjoint'
        BY <2>1, <2>3 DEF NoOverlap, FreeDisjoint, FreeOrLive, FreeOrHeld,
                          LiveDisjoint, LiveOrHeld
    <2>7. FreeOrHeld'
        BY <2>1, <2>4, <2>5 DEF NoOverlap, FreeOrHeld
    <2>8. LiveOrHeld'
        BY <2>1, <2>3, <2>4, <2>5 DEF NoOverlap, LiveOrHeld, HeldDisjoint
    <2>9. HeldDisjoint'
        BY <2>1, <2>4, <2>5 DEF NoOverlap, HeldDisjoint
    <2>10. AllMapped'
        <3>1. Bytes(c) \subseteq mapped
            BY <2>2 DEF NoOverlap, AllMapped
        <3> QED BY <2>1, <2>5, <3>1, NoBlockEmpty DEF NoOverlap, AllMapped
    <2> QED BY <2>6, <2>7, <2>8, <2>9, <2>10 DEF NoOverlap
<1> QED BY <1>1, <1>2

\* A block, or the end of one, changes hands.
LEMMA OverlapGiveBack ==
    ASSUME NoOverlap, TypeOK, NEW t \in Threads, NEW b \in live,
           NEW kept, NEW given,
           Bytes(given) \subseteq Bytes(b),
           \A c \in kept : Bytes(c) \subseteq Bytes(b) /\ Disjoint(c, given),
           \A c, d \in kept : c = d,
           live' = (live \ {b}) \cup kept,
           blk' = [blk EXCEPT ![t] = given],
           UNCHANGED <<freelist, mapped, ret>>
    PROVE  NoOverlap'
<1>0. blk \in [Threads -> Block]
    BY DEF TypeOK
<1>1. blk'[t] = given /\ \A u \in Threads : u # t => blk'[u] = blk[u]
    BY <1>0
<1>2. ASSUME NEW d, Disjoint(d, b) \/ Disjoint(b, d)
      PROVE  /\ Disjoint(d, given) /\ Disjoint(given, d)
             /\ \A c \in kept : Disjoint(d, c) /\ Disjoint(c, d)
    BY <1>2 DEF Disjoint
<1>3. FreeDisjoint' /\ FreeOrLive'
    BY <1>2 DEF NoOverlap, FreeDisjoint, FreeOrLive
<1>4. LiveDisjoint'
    BY <1>2 DEF NoOverlap, LiveDisjoint
<1>5. FreeOrHeld'
    BY <1>1, <1>2 DEF NoOverlap, FreeOrHeld, FreeOrLive
<1>6. LiveOrHeld'
    <2>1. \A c \in live' : Disjoint(c, given)
        BY <1>2 DEF NoOverlap, LiveDisjoint
    <2>2. \A c \in live' : \A u \in Threads : Disjoint(c, ret[u]) /\ Disjoint(c, blk[u])
        BY <1>2 DEF NoOverlap, LiveOrHeld
    <2> QED BY <1>1, <2>1, <2>2 DEF LiveOrHeld
<1>7. HeldDisjoint'
    <2>1. \A u \in Threads : /\ Disjoint(ret[u], given)
                             /\ Disjoint(blk[u], given) /\ Disjoint(given, blk[u])
        BY <1>2 DEF NoOverlap, LiveOrHeld
    <2> QED BY <1>1, <2>1 DEF NoOverlap, HeldDisjoint
<1>8. AllMapped'
    <2>1. Bytes(given) \subseteq mapped /\ \A c \in kept : Bytes(c) \subseteq mapped
        BY DEF NoOverlap, AllMapped
    <2> QED BY <1>1, <2>1 DEF NoOverlap, AllMapped
<1> QED BY <1>3, <1>4, <1>5, <1>6, <1>7, <1>8 DEF NoOverlap

LEMMA OverlapFreeCall ==
    ASSUME TypeOK, NoOverlap, NEW t \in Threads, NEW b \in live, FreeCall(t, b)
    PROVE  NoOverlap'
<1> DEFINE K == {}
<1>1. /\ Bytes(b) \subseteq Bytes(b)
      /\ \A c \in K : Bytes(c) \subseteq Bytes(b) /\ Disjoint(c, b)
      /\ \A c, d \in K : c = d
    OBVIOUS
<1>2. live' = (live \ {b}) \cup K
    BY DEF FreeCall
<1>3. blk' = [blk EXCEPT ![t] = b] /\ UNCHANGED <<freelist, mapped, ret>>
    BY DEF FreeCall
<1> HIDE DEF K
<1> QED BY <1>1, <1>2, <1>3, OverlapGiveBack

LEMMA OverlapReleaseCall ==
    ASSUME TypeOK, NoOverlap, NEW t \in Threads, NEW b \in live, NEW keep \in Sizes,
           ReleaseCall(t, b, keep)
    PROVE  NoOverlap'
<1> DEFINE kept == [addr |-> b.addr, size |-> keep]
           given == Rest(b, RoundUp(keep, Align))
<1>1. /\ b \in Block /\ keep \in Nat /\ RoundUp(keep, Align) \in Nat
      /\ keep <= RoundUp(keep, Align) /\ RoundUp(keep, Align) <= b.size
    BY SizeAssumption, RoundUpBounds DEF ReleaseCall, TypeOK
<1>2. /\ Bytes(kept) \subseteq Bytes(b) /\ Bytes(given) \subseteq Bytes(b)
      /\ Disjoint(kept, given)
    BY <1>1, Cut
<1>3. /\ live' = (live \ {b}) \cup {kept}
      /\ blk' = [blk EXCEPT ![t] = given]
      /\ UNCHANGED <<freelist, mapped, ret>>
    BY DEF ReleaseCall
<1> HIDE DEF kept, given
<1> DEFINE K == {kept}
<1>4. /\ \A c \in K : Bytes(c) \subseteq Bytes(b) /\ Disjoint(c, given)
      /\ \A c, d \in K : c = d
      /\ live' = (live \ {b}) \cup K
    BY <1>2, <1>3
<1> HIDE DEF K
<1> QED BY <1>2, <1>3, <1>4, OverlapGiveBack

\* What is unmapped is one caller's block, and that caller forgets it.
LEMMA OverlapFreeUnmap ==
    ASSUME TypeOK, NoOverlap, NEW t \in Threads, FreeUnmap(t)
    PROVE  NoOverlap'
<1>0. blk \in [Threads -> Block]
    BY DEF TypeOK
<1>1. /\ mapped' = mapped \ Bytes(blk[t])
      /\ blk' = [blk EXCEPT ![t] = NoBlock]
      /\ UNCHANGED <<freelist, live, ret>>
    BY DEF FreeUnmap
<1>2. blk'[t] = NoBlock /\ \A u \in Threads : u # t => blk'[u] = blk[u]
    BY <1>0, <1>1
<1>3. \A b : Disjoint(NoBlock, b) /\ Disjoint(b, NoBlock)
    BY NoBlockEmpty DEF Disjoint
<1>4. FreeDisjoint' /\ FreeOrLive' /\ LiveDisjoint'
    BY <1>1 DEF NoOverlap, FreeDisjoint, FreeOrLive, LiveDisjoint
<1>5. FreeOrHeld' /\ LiveOrHeld' /\ HeldDisjoint'
    BY <1>1, <1>2, <1>3 DEF NoOverlap, FreeOrHeld, LiveOrHeld, HeldDisjoint
<1>6. ASSUME NEW b, Bytes(b) \subseteq mapped, Disjoint(b, blk[t]) \/ Disjoint(blk[t], b)
      PROVE  Bytes(b) \subseteq mapped'
    BY <1>1, <1>6 DEF Disjoint
<1>7. AllMapped'
    <2>1. \A i \in 1..Len(freelist) : Bytes(freelist[i]) \subseteq mapped'
        BY <1>6 DEF NoOverlap, FreeOrHeld, AllMapped
    <2>2. \A b \in live : Bytes(b) \subseteq mapped'
        BY <1>6 DEF NoOverlap, LiveOrHeld, AllMapped
    <2>3. \A u \in Threads : Bytes(ret[u]) \subseteq mapped'
        BY <1>6 DEF NoOverlap, HeldDisjoint, AllMapped
    <2>4. \A u \in Threads : u # t => Bytes(blk[u]) \subseteq mapped'
        BY <1>6 DEF NoOverlap, HeldDisjoint, AllMapped
    <2> QED BY <1>1, <1>2, <2>1, <2>2, <2>3, <2>4, NoBlockEmpty DEF AllMapped
<1> QED BY <1>4, <1>5, <1>7 DEF NoOverlap

\* The block pushed is on the list or leaked, and its caller forgets it.
LEMMA OverlapFreePush ==
    ASSUME TypeOK, NoOverlap, NEW t \in Threads, FreePush(t)
    PROVE  NoOverlap'
<1>0. freelist \in Seq(Block) /\ blk \in [Threads -> Block]
    BY DEF TypeOK
<1>1. /\ freelist' = FreeLocked(freelist, blk[t])
      /\ blk' = [blk EXCEPT ![t] = NoBlock]
      /\ UNCHANGED <<live, mapped, ret>>
    BY DEF FreePush
<1>2. blk'[t] = NoBlock /\ \A u \in Threads : u # t => blk'[u] = blk[u]
    BY <1>0, <1>1
<1>3. \A b : Disjoint(NoBlock, b) /\ Disjoint(b, NoBlock)
    BY NoBlockEmpty DEF Disjoint
<1>4. Apart(freelist) /\ AwayFrom(freelist, blk[t])
    BY DEF NoOverlap, FreeDisjoint, FreeOrHeld, Apart, AwayFrom
<1>5. /\ Apart(freelist')
      /\ \A k \in 1..Len(freelist') :
            \/ freelist'[k] = blk[t]
            \/ \E i \in 1..Len(freelist) : freelist'[k] = freelist[i]
    <2>1. blk[t] \in Block
        BY <1>0
    <2> QED BY <1>0, <1>1, <1>4, <2>1, FreeLockedEntries
<1>6. FreeDisjoint' /\ LiveDisjoint'
    BY <1>1, <1>5 DEF NoOverlap, FreeDisjoint, LiveDisjoint, Apart
<1>7. FreeOrLive'
    BY <1>1, <1>5, DisjointSymmetric DEF NoOverlap, FreeOrLive, LiveOrHeld
<1>8. FreeOrHeld'
    <2>1. \A u \in Threads : /\ Disjoint(blk[t], ret[u])
                             /\ u # t => Disjoint(blk[t], blk[u])
        BY DisjointSymmetric DEF NoOverlap, HeldDisjoint
    <2> QED BY <1>1, <1>2, <1>3, <1>5, <2>1 DEF NoOverlap, FreeOrHeld
<1>9. LiveOrHeld' /\ HeldDisjoint'
    BY <1>1, <1>2, <1>3 DEF NoOverlap, LiveOrHeld, HeldDisjoint
<1>10. AllMapped'
    BY <1>1, <1>2, <1>5, NoBlockEmpty DEF NoOverlap, AllMapped
<1> QED BY <1>6, <1>7, <1>8, <1>9, <1>10 DEF NoOverlap

LEMMA OverlapStep ==
    ASSUME TypeOK, FoundLinkValid, RetFits, NoOverlap,
           NEW t \in Threads, Call(t) \/ Step(t)
    PROVE  NoOverlap'
<1>1. CASE \/ \E n \in Sizes : AllocCall(t, n)
           \/ AllocTryLock(t) \/ AllocScanHit(t) \/ AllocScanMiss(t)
           \/ AllocUnlock(t) \/ AllocMmapFail(t) \/ FreeKeep(t)
           \/ FreeTryLock(t) \/ FreeUnlock(t)
    <2>1. UNCHANGED <<freelist, live, mapped, ret>>
        BY <1>1 DEF AllocCall, AllocTryLock, AllocScanHit, AllocScanMiss,
             AllocUnlock, AllocMmapFail, FreeKeep, FreeTryLock, FreeUnlock
    <2>2. blk' = blk \/ blk' = [blk EXCEPT ![t] = NoBlock]
        BY <1>1 DEF AllocCall, AllocTryLock, AllocScanHit, AllocScanMiss,
             AllocUnlock, AllocMmapFail, FreeKeep, FreeTryLock, FreeUnlock
    <2>3. \A u \in Threads : blk'[u] \in {blk[u], NoBlock}
        BY <2>2 DEF TypeOK
    <2> QED BY <2>1, <2>3, OverlapQuiet
<1> QED BY <1>1, OverlapAllocTake, OverlapAllocMmap, OverlapReturn,
           OverlapFreeCall, OverlapReleaseCall, OverlapFreeUnmap,
           OverlapFreePush DEF Call, Step

-----------------------------------------------------------------------------
LEMMA NextIInv == IInv /\ [Next]_vars => IInv'
<1> SUFFICES ASSUME IInv, [Next]_vars PROVE IInv'
    OBVIOUS
<1>1. CASE UNCHANGED vars
    BY <1>1 DEF vars, IInv, TypeOK, LockDiscipline, InCritical, FoundLinkValid,
       RetFits, FreeListBounded, NoOverlap, FreeDisjoint, FreeOrLive,
       FreeOrHeld, LiveDisjoint, LiveOrHeld, HeldDisjoint, AllMapped
<1>2. ASSUME NEW t \in Threads, Call(t) \/ Step(t)
      PROVE  IInv'
    BY <1>2, TypeStep, LockStep, FoundStep, RetStep, BoundStep, OverlapStep DEF IInv
<1> QED BY <1>1, <1>2 DEF Next

THEOREM Invariance == Spec => []IInv
BY InitIInv, NextIInv, PTL DEF Spec

\* Every variable keeps its type; in particular no block ever gets a size
\* below zero, so no subtraction of mmap.c wraps round.
THEOREM TypeCorrect == Spec => []TypeOK
<1>1. IInv => TypeOK
    BY DEF IInv
<1> QED BY <1>1, Invariance, PTL

\* The walk, the unlinking and the push exclude each other, for any number of
\* threads and signal handlers.
THEOREM LockSafe == Spec => []LockDiscipline
<1>1. IInv => LockDiscipline
    BY DEF IInv
<1> QED BY <1>1, Invariance, PTL

\* The link an allocation found is still the first fit when it is unlinked.
THEOREM FoundLinkSafe == Spec => []FoundLinkValid
<1>1. IInv => FoundLinkValid
    BY DEF IInv
<1> QED BY <1>1, Invariance, PTL

\* The free list never has more than MaxFree entries, none too small to hold
\* the list's own node.
THEOREM FreeListSafe == Spec => []FreeListBounded
<1>1. IInv => FreeListBounded
    BY DEF IInv
<1> QED BY <1>1, Invariance, PTL

\* No byte is ever on the free list twice, with two callers, or with a caller
\* and on the free list, and no one holds memory that was unmapped.
THEOREM MemorySafe == Spec => []NoOverlap
<1>1. IInv => NoOverlap
    BY DEF IInv
<1> QED BY <1>1, Invariance, PTL

\* All of it together, as the run checks it.
THEOREM Safe == Spec => []AllocatorSafe
<1>1. IInv => AllocatorSafe
    BY DEF IInv, AllocatorSafe
<1> QED BY <1>1, Invariance, PTL
-----------------------------------------------------------------------------
(* MmapAlloc implements MemPool, for every number of callers, every size   *)
(* and every address range: an allocation that returns is an Alloc of the  *)
(* pool, a free is a Free, the release of a vector's tail is a Shrink, and *)
(* nothing else that happens can be seen there.                            *)

-----------------------------------------------------------------------------
(* Alignment.                                                              *)

Aligned(b) == b.addr % Align = 0

LEMMA Quotient ==
    ASSUME NEW k \in Nat \ {0}, NEW x \in Int
    PROVE  x = k * (x \div k) + (x % k) /\ x \div k \in Int
OBVIOUS

LEMMA Multiple == ASSUME NEW k \in Nat \ {0}, NEW q \in Int PROVE (k * q) % k = 0
OBVIOUS

\* What is added to a multiple of k to make a multiple of k is one.
LEMMA SumOfMultiples ==
    ASSUME NEW k \in Nat \ {0}, NEW a \in Int, NEW b \in Int, a % k = 0, b % k = 0
    PROVE  (a + b) % k = 0
<1> DEFINE p == a \div k
           q == b \div k
<1>1. a = k * p /\ b = k * q /\ p \in Int /\ q \in Int
    BY Quotient
<1> HIDE DEF p, q
<1>2. a + b = k * (p + q) /\ p + q \in Int
    BY <1>1
<1> QED BY <1>2, Multiple

LEMMA RoundUpMultiple ==
    ASSUME NEW k \in Nat \ {0}, NEW n \in Nat
    PROVE  RoundUp(n, k) % k = 0
<1> DEFINE q == (-n) \div k
<1>1. -n = k * q + ((-n) % k) /\ q \in Int
    BY Quotient
<1>2. RoundUp(n, k) = n + ((-n) % k)
    BY DEF RoundUp
<1> HIDE DEF q
<1>3. n + ((-n) % k) = k * (-q) /\ -q \in Int
    BY <1>1
<1> QED BY <1>2, <1>3, Multiple

\* A page is aligned.
LEMMA PageAligned ==
    ASSUME NEW a \in Nat, a % PageSize = 0
    PROVE  a % Align = 0
<1> DEFINE p == a \div PageSize
           q == PageSize \div Align
<1>1. a = PageSize * p /\ p \in Int /\ PageSize = Align * q /\ q \in Int
    BY Quotient, SizeAssumption
<1> HIDE DEF p, q
<1>2. a = (Align * q) * p
    BY <1>1
<1>3. (Align * q) * p = Align * (q * p) /\ q * p \in Int
    BY <1>1, SizeAssumption
<1> QED BY <1>2, <1>3, Multiple, SizeAssumption

\* What is left of an aligned block behind a rounded size is aligned.
LEMMA RestAligned ==
    ASSUME NEW b \in Block, NEW n \in Nat, Aligned(b)
    PROVE  Aligned(Rest(b, RoundUp(n, Align)))
<1>1. b.addr \in Nat /\ RoundUp(n, Align) \in Nat
    BY RoundUpBounds, SizeAssumption DEF Block
<1>2. (b.addr + RoundUp(n, Align)) % Align = 0
    BY <1>1, RoundUpMultiple, SumOfMultiples, SizeAssumption DEF Aligned
<1> QED BY <1>2 DEF Aligned, Rest

LEMMA NoBlockAligned == Aligned(NoBlock)
<1>1. 0 % Align = 0
    BY SizeAssumption
<1> QED BY <1>1 DEF Aligned, NoBlock

-----------------------------------------------------------------------------
(* The invariant: what can ever be handed out is aligned and lies where    *)
(* memory is, and its size is one that callers ask for.                    *)

AllAligned ==
    /\ \A i \in 1..Len(freelist) : Aligned(freelist[i])
    /\ \A b \in live : Aligned(b)
    /\ \A t \in Threads : Aligned(ret[t]) /\ Aligned(blk[t])

Allocating == {"alloc_lock", "alloc_scan", "alloc_take", "alloc_unlock", "alloc_mmap"}
AskedFor ==
    \A t \in Threads :
        /\ pc[t] \in Allocating \/ ret[t] # NoBlock => req[t] \in Sizes
        /\ ret[t] # NoBlock => ret[t].addr \in Arena

PInv == IInv /\ AllAligned /\ AskedFor

LEMMA InitPInv == Init => PInv
<1> SUFFICES ASSUME Init PROVE PInv
    OBVIOUS
<1>1. AllAligned
    BY NoBlockAligned DEF Init, AllAligned
<1>2. AskedFor
    BY DEF Init, AskedFor, Allocating
<1> QED BY <1>1, <1>2, InitIInv DEF PInv

\* A step that moves no block keeps them aligned.
LEMMA AlignedQuiet ==
    ASSUME AllAligned, UNCHANGED freelist,
           \A b \in live' : b \in live \/ Aligned(b),
           \A t \in Threads : /\ ret'[t] = ret[t] \/ Aligned(ret'[t])
                              /\ blk'[t] = blk[t] \/ Aligned(blk'[t])
    PROVE  AllAligned'
BY DEF AllAligned, Aligned

LEMMA AlignedAllocTake ==
    ASSUME IInv, AllAligned, NEW t \in Threads, AllocTake(t)
    PROVE  AllAligned'
<1> DEFINE p == freelist[pp[t]]
           rounded == RoundUp(req[t], Align)
           list == RemoveNth(freelist, pp[t])
<1>1. /\ pp[t] \in 1..Len(freelist) /\ p \in Block /\ rounded \in Nat /\ req[t] \in Nat
      /\ freelist \in Seq(Block) /\ ret \in [Threads -> Block]
    BY FoundBlock DEF IInv, AllocTake, TypeOK
<1>2. Aligned(p) /\ Aligned(Rest(p, rounded)) /\ Aligned([addr |-> p.addr, size |-> rounded])
    BY <1>1, RestAligned DEF AllAligned, Aligned
<1>3. rounded < p.size => Rest(p, rounded) \in Block
    <2>1. p.addr \in Nat /\ p.size \in Nat
        BY <1>1 DEF Block
    <2> HIDE DEF p, rounded, list
    <2>2. p.addr + rounded \in Nat /\ (rounded < p.size => p.size - rounded \in Nat)
        BY <1>1, <2>1
    <2> QED BY <2>2 DEF Rest, Block
<1>4. /\ list \in Seq(Block)
      /\ \A j \in 1..Len(list) : Aligned(list[j])
    <2>1. /\ list \in Seq(Block) /\ Len(list) = Len(freelist) - 1
          /\ \A j \in 1..(Len(freelist) - 1) :
                list[j] = IF j < pp[t] THEN freelist[j] ELSE freelist[j + 1]
        BY <1>1, RemoveNthEntries
    <2>2. \A j \in 1..Len(freelist) : Aligned(freelist[j])
        BY DEF AllAligned
    <2> HIDE DEF list
    <2>3. ASSUME NEW j \in 1..Len(list) PROVE Aligned(list[j])
        <3>1. j \in 1..(Len(freelist) - 1)
            BY <2>1
        <3>2. j \in 1..Len(freelist) /\ j + 1 \in 1..Len(freelist)
            BY <3>1, <1>1
        <3>3. list[j] = freelist[j] \/ list[j] = freelist[j + 1]
            BY <2>1, <3>1
        <3> QED BY <2>2, <3>2, <3>3
    <2> QED BY <2>1, <2>3
<1>5. /\ freelist' = IF rounded < p.size THEN FreeLocked(list, Rest(p, rounded)) ELSE list
      /\ ret' = IF rounded < p.size
                THEN [ret EXCEPT ![t] = [addr |-> p.addr, size |-> rounded]]
                ELSE [ret EXCEPT ![t] = p]
      /\ UNCHANGED <<live, blk>>
    BY DEF AllocTake
<1> HIDE DEF p, rounded, list
<1>6. \A k \in 1..Len(freelist') : Aligned(freelist'[k])
    <2>1. CASE rounded < p.size
        <3>1. \A k \in 1..Len(FreeLocked(list, Rest(p, rounded))) :
                 \/ FreeLocked(list, Rest(p, rounded))[k] = Rest(p, rounded)
                 \/ \E j \in 1..Len(list) : FreeLocked(list, Rest(p, rounded))[k] = list[j]
            BY <2>1, <1>3, <1>4, FreeLockedEntries
        <3> QED BY <3>1, <2>1, <1>2, <1>4, <1>5
    <2>2. CASE ~(rounded < p.size)
        BY <2>2, <1>4, <1>5
    <2> QED BY <2>1, <2>2
<1>7. \A u \in Threads : ret'[u] = ret[u] \/ Aligned(ret'[u])
    BY <1>1, <1>2, <1>5
<1> QED BY <1>5, <1>6, <1>7 DEF AllAligned, Aligned

LEMMA AlignedAllocMmap ==
    ASSUME IInv, AllAligned, NEW t \in Threads, AllocMmap(t)
    PROVE  AllAligned'
<1> DEFINE asksize == RoundUp(req[t], PageSize)
           rounded == RoundUp(req[t], Align)
<1>1. /\ asksize \in Nat /\ rounded \in Nat /\ req[t] \in Nat
      /\ ret \in [Threads -> Block] /\ blk \in [Threads -> Block]
    BY RoundUpBounds, SizeAssumption DEF IInv, TypeOK
<1>2. PICK addr \in Arena :
         /\ addr % PageSize = 0
         /\ IF rounded < asksize
            THEN /\ ret' = [ret EXCEPT ![t] = [addr |-> addr, size |-> rounded]]
                 /\ blk' = [blk EXCEPT ![t] =
                              Rest([addr |-> addr, size |-> asksize], rounded)]
            ELSE /\ ret' = [ret EXCEPT ![t] = [addr |-> addr, size |-> asksize]]
                 /\ UNCHANGED blk
         /\ UNCHANGED <<freelist, live>>
    BY DEF AllocMmap
<1>3. addr \in Nat /\ addr % Align = 0
    BY <1>2, ArenaAssumption, PageAligned
<1>4. Aligned(Rest([addr |-> addr, size |-> asksize], rounded))
    <2>1. [addr |-> addr, size |-> asksize] \in Block /\ Aligned([addr |-> addr, size |-> asksize])
        BY <1>1, <1>3 DEF Block, Aligned
    <2> QED BY <2>1, <1>1, RestAligned
<1>5. Aligned([addr |-> addr, size |-> rounded]) /\ Aligned([addr |-> addr, size |-> asksize])
    BY <1>3 DEF Aligned
<1> HIDE DEF asksize, rounded
<1>6. \A u \in Threads : /\ ret'[u] = ret[u] \/ Aligned(ret'[u])
                         /\ blk'[u] = blk[u] \/ Aligned(blk'[u])
    BY <1>1, <1>2, <1>4, <1>5
<1> QED BY <1>2, <1>6, AlignedQuiet

LEMMA AlignedFreePush ==
    ASSUME IInv, AllAligned, NEW t \in Threads, FreePush(t)
    PROVE  AllAligned'
<1>1. /\ freelist \in Seq(Block) /\ blk \in [Threads -> Block] /\ blk[t] \in Block
      /\ freelist' = FreeLocked(freelist, blk[t])
      /\ blk' = [blk EXCEPT ![t] = NoBlock]
      /\ UNCHANGED <<live, ret>>
    BY DEF IInv, TypeOK, FreePush
<1>2. \A k \in 1..Len(freelist') :
         \/ freelist'[k] = blk[t]
         \/ \E j \in 1..Len(freelist) : freelist'[k] = freelist[j]
    BY <1>1, FreeLockedEntries
<1>3. \A k \in 1..Len(freelist') : Aligned(freelist'[k])
    BY <1>2 DEF AllAligned
<1>4. \A u \in Threads : blk'[u] = blk[u] \/ blk'[u] = NoBlock
    BY <1>1
<1> QED BY <1>1, <1>3, <1>4, NoBlockAligned DEF AllAligned, Aligned

LEMMA AlignedStep ==
    ASSUME IInv, AllAligned, NEW t \in Threads, Call(t) \/ Step(t)
    PROVE  AllAligned'
<1>0. /\ ret \in [Threads -> Block] /\ blk \in [Threads -> Block]
      /\ live \subseteq Block /\ req \in [Threads -> Nat]
    BY DEF IInv, TypeOK
<1>1. CASE UNCHANGED <<freelist, live, ret, blk>>
    BY <1>1, AlignedQuiet
<1>2. \/ AllocTryLock(t) \/ AllocScanHit(t) \/ AllocScanMiss(t) \/ AllocUnlock(t)
      \/ AllocMmapFail(t) \/ FreeKeep(t) \/ FreeUnlock(t)
      \/ \E n \in Sizes : AllocCall(t, n)
      => UNCHANGED <<freelist, live, ret, blk>>
    BY DEF AllocTryLock, AllocScanHit, AllocScanMiss, AllocUnlock, AllocMmapFail,
       FreeKeep, FreeUnlock, AllocCall
<1>3. CASE FreeUnmap(t) \/ FreeTryLock(t)
    <2>1. /\ UNCHANGED <<freelist, live, ret>>
          /\ blk' = blk \/ blk' = [blk EXCEPT ![t] = NoBlock]
        BY <1>3 DEF FreeUnmap, FreeTryLock
    <2>2. \A u \in Threads : blk'[u] = blk[u] \/ blk'[u] = NoBlock
        BY <2>1, <1>0
    <2> QED BY <2>1, <2>2, NoBlockAligned, AlignedQuiet
<1>4. CASE Return(t)
    <2> DEFINE c == [addr |-> ret[t].addr, size |-> req[t]]
    <2>1. /\ UNCHANGED <<freelist, blk>>
          /\ ret' = [ret EXCEPT ![t] = NoBlock]
          /\ \A b \in live' : b \in live \/ b = c
        BY <1>4 DEF Return
    <2>2. Aligned(c)
        BY DEF AllAligned, Aligned
    <2> HIDE DEF c
    <2>3. \A u \in Threads : ret'[u] = ret[u] \/ ret'[u] = NoBlock
        BY <2>1, <1>0
    <2> QED BY <2>1, <2>2, <2>3, NoBlockAligned, AlignedQuiet
<1>5. ASSUME NEW b \in live, FreeCall(t, b) PROVE AllAligned'
    <2>1. /\ UNCHANGED <<freelist, ret>> /\ live' \subseteq live
          /\ blk' = [blk EXCEPT ![t] = b]
        BY <1>5 DEF FreeCall
    <2>2. \A u \in Threads : blk'[u] = blk[u] \/ blk'[u] = b
        BY <2>1, <1>0
    <2>3. Aligned(b)
        BY DEF AllAligned
    <2> QED BY <2>1, <2>2, <2>3, AlignedQuiet
<1>6. ASSUME NEW b \in live, NEW keep \in Sizes, ReleaseCall(t, b, keep)
      PROVE  AllAligned'
    <2> DEFINE c == [addr |-> b.addr, size |-> keep]
               r == Rest(b, RoundUp(keep, Align))
    <2>1. /\ UNCHANGED <<freelist, ret>>
          /\ \A d \in live' : d \in live \/ d = c
          /\ blk' = [blk EXCEPT ![t] = r]
        BY <1>6 DEF ReleaseCall
    <2>2. keep \in Nat /\ b \in Block /\ Aligned(b)
        BY <1>0, SizeAssumption DEF AllAligned
    <2>3. Aligned(c) /\ Aligned(r)
        BY <2>2, RestAligned DEF Aligned
    <2> HIDE DEF c, r
    <2>4. \A u \in Threads : blk'[u] = blk[u] \/ blk'[u] = r
        BY <2>1, <1>0
    <2> QED BY <2>1, <2>3, <2>4, AlignedQuiet
<1> QED BY <1>1, <1>2, <1>3, <1>4, <1>5, <1>6, AlignedAllocTake, AlignedAllocMmap,
           AlignedFreePush DEF Call, Step

-----------------------------------------------------------------------------
\* An entry of the free list has bytes, and they are where memory is.
LEMMA EntryInArena ==
    ASSUME TypeOK, FreeListBounded, NoOverlap, NEW i \in 1..Len(freelist)
    PROVE  freelist[i].addr \in Arena
<1>1. freelist[i] \in Block /\ freelist[i].size >= MinBlock
    BY DEF TypeOK, FreeListBounded
<1>2. freelist[i].addr \in Nat /\ freelist[i].size \in Nat /\ freelist[i].size >= 1
    BY <1>1, SizeAssumption DEF Block
<1>3. freelist[i].addr \in Bytes(freelist[i])
    BY <1>2 DEF Bytes
<1>4. Bytes(freelist[i]) \subseteq mapped /\ mapped \subseteq Arena
    BY DEF NoOverlap, AllMapped, TypeOK
<1> QED BY <1>3, <1>4

LEMMA AskedStep ==
    ASSUME IInv, AskedFor, NEW t \in Threads, Call(t) \/ Step(t)
    PROVE  AskedFor'
<1>0. /\ pc \in [Threads -> Labels] /\ req \in [Threads -> Nat] /\ ret \in [Threads -> Block]
      /\ \A u \in Threads : pc[u] = "idle" => ret[u] = NoBlock
    BY DEF IInv, TypeOK, RetFits
<1>1. ASSUME NEW n \in Sizes, AllocCall(t, n) PROVE AskedFor'
    BY <1>0, <1>1 DEF AllocCall, AskedFor, Allocating, Goto
<1>2. CASE AllocTake(t)
    <2>1. pp[t] \in 1..Len(freelist)
        BY <1>2, FoundBlock DEF IInv, AllocTake
    <2>2. freelist[pp[t]].addr \in Arena
        BY <2>1, EntryInArena DEF IInv
    <2>3. /\ ret' = [ret EXCEPT ![t] = ret'[t]] /\ ret'[t].addr = freelist[pp[t]].addr
          /\ UNCHANGED req /\ pc[t] = "alloc_take" /\ pc' = [pc EXCEPT ![t] = "alloc_unlock"]
        BY <1>0, <1>2 DEF AllocTake, Goto
    <2> QED BY <1>0, <2>2, <2>3 DEF AskedFor, Allocating
<1>3. CASE AllocMmap(t)
    <2>1. PICK addr \in Arena : ret' = [ret EXCEPT ![t] = ret'[t]] /\ ret'[t].addr = addr
        BY <1>0, <1>3 DEF AllocMmap
    <2>2. UNCHANGED req /\ pc[t] = "alloc_mmap" /\ pc' = [pc EXCEPT ![t] = pc'[t]] /\ pc'[t] \notin Allocating
        BY <1>0, <1>3 DEF AllocMmap, Goto, Allocating
    <2> QED BY <1>0, <2>1, <2>2 DEF AskedFor, Allocating
<1>4. CASE Return(t)
    BY <1>0, <1>4 DEF Return, Goto, AskedFor, Allocating
<1>5. CASE /\ UNCHANGED <<req, ret>>
           /\ \A u \in Threads : pc'[u] \in Allocating => pc[u] \in Allocating
    BY <1>5 DEF AskedFor
<1>6. \/ AllocTryLock(t) \/ AllocScanHit(t) \/ AllocScanMiss(t) \/ AllocUnlock(t)
      \/ AllocMmapFail(t) \/ FreeUnmap(t) \/ FreeKeep(t) \/ FreeTryLock(t)
      \/ FreePush(t) \/ FreeUnlock(t)
      \/ \E b \in live : FreeCall(t, b)
      \/ \E b \in live : \E keep \in Sizes : ReleaseCall(t, b, keep)
      => /\ UNCHANGED <<req, ret>>
         /\ \A u \in Threads : pc'[u] \in Allocating => pc[u] \in Allocating
    BY <1>0 DEF AllocTryLock, AllocScanHit, AllocScanMiss, AllocUnlock,
       AllocMmapFail, FreeUnmap, FreeKeep, FreeTryLock, FreePush, FreeUnlock,
       FreeCall, ReleaseCall, Goto, TryLock, Allocating
<1> QED BY <1>1, <1>2, <1>3, <1>4, <1>5, <1>6 DEF Call, Step

LEMMA NextPInv == PInv /\ [Next]_vars => PInv'
<1> SUFFICES ASSUME PInv, [Next]_vars PROVE PInv'
    OBVIOUS
<1>1. IInv'
    BY NextIInv DEF PInv
<1>2. CASE UNCHANGED vars
    BY <1>1, <1>2 DEF vars, PInv, AllAligned, Aligned, AskedFor
<1>3. ASSUME NEW t \in Threads, Call(t) \/ Step(t) PROVE PInv'
    BY <1>1, <1>3, AlignedStep, AskedStep DEF PInv
<1> QED BY <1>2, <1>3 DEF Next

-----------------------------------------------------------------------------
(* The refinement.                                                         *)

LEMMA InitPool == Init => Pool!Init
BY DEF Init, Pool!Init

\* An allocation that returns what it found.
LEMMA ReturnAllocates ==
    ASSUME PInv, NEW t \in Threads, Return(t), ret[t] # NoBlock
    PROVE  \E n \in Sizes : Pool!Alloc(n)
<1> DEFINE c == [addr |-> ret[t].addr, size |-> req[t]]
<1>1. /\ req[t] \in Sizes /\ ret[t].addr \in Arena /\ ret[t].addr % Align = 0
      /\ ret[t] \in Block /\ req[t] \in Nat /\ req[t] <= ret[t].size
      /\ live' = live \cup {c}
    BY DEF PInv, AskedFor, AllAligned, Aligned, IInv, TypeOK, RetFits, Return
<1>2. Bytes(c) \subseteq Bytes(ret[t])
    BY <1>1, Cut
<1>3. Bytes(ret[t]) \subseteq Arena /\ \A b \in live : Bytes(ret[t]) \cap Bytes(b) = {}
    BY DEF PInv, IInv, TypeOK, NoOverlap, AllMapped, LiveOrHeld, Disjoint
<1>4. Bytes(c) \subseteq Arena /\ \A b \in live : Bytes(c) \cap Bytes(b) = {}
    BY <1>2, <1>3
<1>5. \A b : Pool!Extent(b) = Bytes(b)
    BY DEF Pool!Extent, Bytes
<1>6. Pool!Alloc(req[t])
    BY <1>1, <1>4, <1>5 DEF Pool!Alloc
<1> QED BY <1>1, <1>6

LEMMA NextPool == PInv /\ [Next]_vars => [Pool!Next]_live
<1> SUFFICES ASSUME PInv, [Next]_vars PROVE [Pool!Next]_live
    OBVIOUS
<1>1. CASE UNCHANGED vars
    BY <1>1 DEF vars
<1>2. ASSUME NEW t \in Threads, Call(t) \/ Step(t) PROVE [Pool!Next]_live
    <2>1. CASE Return(t) /\ ret[t] # NoBlock
        BY <2>1, ReturnAllocates DEF Pool!Next
    <2>2. CASE Return(t) /\ ret[t] = NoBlock
        BY <2>2 DEF Return
    <2>3. ASSUME NEW b \in live, FreeCall(t, b) PROVE [Pool!Next]_live
        BY <2>3 DEF FreeCall, Pool!Next, Pool!Free
    <2>4. ASSUME NEW b \in live, NEW keep \in Sizes, ReleaseCall(t, b, keep)
          PROVE  [Pool!Next]_live
        <3>1. keep \in Nat /\ b \in Block /\ RoundUp(keep, Align) <= b.size
              /\ live' = (live \ {b}) \cup {[addr |-> b.addr, size |-> keep]}
            BY <2>4, SizeAssumption DEF PInv, IInv, TypeOK, ReleaseCall
        <3>2. RoundUp(keep, Align) \in Nat /\ keep <= RoundUp(keep, Align) /\ b.size \in Nat
            BY <3>1, RoundUpBounds, SizeAssumption DEF Block
        <3>3. keep \in 0..b.size
            BY <3>1, <3>2
        <3> QED BY <3>1, <3>3 DEF Pool!Next, Pool!Shrink
    <2>5. \/ AllocTryLock(t) \/ AllocScanHit(t) \/ AllocScanMiss(t) \/ AllocTake(t)
          \/ AllocUnlock(t) \/ AllocMmapFail(t) \/ AllocMmap(t) \/ FreeUnmap(t)
          \/ FreeKeep(t) \/ FreeTryLock(t) \/ FreePush(t) \/ FreeUnlock(t)
          \/ \E n \in Sizes : AllocCall(t, n)
          => UNCHANGED live
        BY DEF AllocTryLock, AllocScanHit, AllocScanMiss, AllocTake, AllocUnlock,
           AllocMmapFail, AllocMmap, FreeUnmap, FreeKeep, FreeTryLock, FreePush,
           FreeUnlock, AllocCall
    <2> QED BY <1>2, <2>1, <2>2, <2>3, <2>4, <2>5 DEF Call, Step
<1> QED BY <1>1, <1>2 DEF Next

\* Every behaviour of the allocator is one of the pool: what a caller is given
\* is aligned, of the size it asked for, and its own until it gives it back.
THEOREM Implements == Spec => ImplementsPool
<1>1. Spec => []PInv
    BY InitPInv, NextPInv, PTL DEF Spec
<1> QED BY <1>1, InitPool, NextPool, PTL DEF Spec, ImplementsPool, Pool!Spec

\* In particular no one is ever given, or can be given, a misaligned block.
THEOREM AlwaysAligned == Spec => []AllAligned
<1>1. Spec => []PInv
    BY InitPInv, NextPInv, PTL DEF Spec
<1>2. PInv => AllAligned
    BY DEF PInv
<1> QED BY <1>1, <1>2, PTL

-----------------------------------------------------------------------------
(* What is leaked.                                                         *)

\* What a push leaves out is no larger than anything it keeps.
LEMMA PushKeepsLargest ==
    ASSUME NEW list \in Seq(Block), NEW b \in Block, b.size >= MinBlock,
           NEW x \in {list[i] : i \in 1..Len(list)} \cup {b},
           \A k \in 1..Len(FreeLocked(list, b)) : FreeLocked(list, b)[k] # x
    PROVE  \A k \in 1..Len(FreeLocked(list, b)) : x.size <= FreeLocked(list, b)[k].size
<1> DEFINE full == Len(list) >= MaxFree
           s == Smallest(list)
           small == list[s].size
           rest == RemoveNth(list, s)
<1>0. /\ \A i \in 1..Len(list) : list[i] \in Block /\ list[i].size \in Nat
      /\ b.size \in Nat /\ Len(list) \in Nat
    <2>1. \A c \in Block : c.size \in Nat
        BY DEF Block
    <2> QED BY <2>1
<1>1. full => s \in 1..Len(list) /\ \A j \in 1..Len(list) : small <= list[j].size
    <2>1. full => Len(list) > 0
        BY SizeAssumption, <1>0
    <2> QED BY <2>1, SmallestIsEntry DEF IsSmallest
<1>2. CASE full /\ b.size <= small
    <2>1. FreeLocked(list, b) = list
        BY <1>2 DEF FreeLocked
    <2>2. x = b
        BY <2>1
    <2> QED BY <1>0, <1>1, <1>2, <2>1, <2>2
<1>3. CASE ~full
    <2>1. ~(b.size < MinBlock)
        BY <1>0, SizeAssumption
    <2>2. FreeLocked(list, b) = <<b>> \o list
        BY <1>3, <2>1 DEF FreeLocked
    <2>3. /\ Len(<<b>> \o list) = Len(list) + 1 /\ (<<b>> \o list)[1] = b
          /\ \A k \in 2..(Len(list) + 1) : (<<b>> \o list)[k] = list[k - 1]
        BY PushEntries
    <2>4. x # b
        BY <2>2, <2>3, <1>0
    <2>5. PICK i \in 1..Len(list) : x = list[i]
        BY <2>4
    <2>6. i + 1 \in 2..(Len(list) + 1) /\ i + 1 \in 1..(Len(list) + 1) /\ (i + 1) - 1 = i
        BY <2>5, <1>0
    <2>7. (<<b>> \o list)[i + 1] = x
        BY <2>3, <2>5, <2>6
    <2> QED BY <2>2, <2>3, <2>6, <2>7
<1>4. CASE full /\ ~(b.size <= small)
    <2>1. ~(b.size < MinBlock)
        BY <1>0, SizeAssumption
    <2>2. FreeLocked(list, b) = <<b>> \o rest
        BY <1>4, <2>1 DEF FreeLocked
    <2>3. /\ rest \in Seq(Block) /\ Len(rest) = Len(list) - 1
          /\ \A j \in 1..(Len(list) - 1) : rest[j] = IF j < s THEN list[j] ELSE list[j + 1]
        BY <1>1, <1>4, RemoveNthEntries
    <2> HIDE DEF rest, s
    <2>4. /\ Len(<<b>> \o rest) = Len(list) /\ (<<b>> \o rest)[1] = b
          /\ \A k \in 2..Len(list) : (<<b>> \o rest)[k] = rest[k - 1]
        <3>1. /\ Len(<<b>> \o rest) = Len(rest) + 1 /\ (<<b>> \o rest)[1] = b
              /\ \A k \in 2..(Len(rest) + 1) : (<<b>> \o rest)[k] = rest[k - 1]
            BY <2>3, PushEntries
        <3> QED BY <3>1, <2>3, <1>0
    <2>5. s \in 1..Len(list) /\ \A j \in 1..Len(list) : small <= list[j].size
        BY <1>1, <1>4
    <2>6. x # b
        BY <2>2, <2>4, <2>5, <1>0
    <2>7. PICK i \in 1..Len(list) : x = list[i]
        BY <2>6
    <2>8. ASSUME i # s PROVE FALSE
        <3>1. CASE i < s
            <4>1. i \in 1..(Len(list) - 1) /\ i + 1 \in 2..Len(list) /\ (i + 1) - 1 = i
                BY <3>1, <2>5, <2>7, <1>0
            <4>2. (<<b>> \o rest)[i + 1] = x
                BY <4>1, <3>1, <2>3, <2>4, <2>7
            <4>3. i + 1 \in 1..Len(<<b>> \o rest)
                BY <4>1, <2>4
            <4> QED BY <4>2, <4>3, <2>2
        <3>2. CASE i > s
            <4>1. i - 1 \in 1..(Len(list) - 1) /\ i \in 2..Len(list) /\ ~(i - 1 < s) /\ (i - 1) + 1 = i
                BY <3>2, <2>5, <2>7, <1>0
            <4>2. (<<b>> \o rest)[i] = x
                BY <4>1, <2>3, <2>4, <2>7
            <4>3. i \in 1..Len(<<b>> \o rest)
                BY <4>1, <2>4
            <4> QED BY <4>2, <4>3, <2>2
        <3> QED BY <3>1, <3>2, <2>8, <2>5, <2>7, <1>0
    <2>9. x.size = small
        BY <2>7, <2>8
    <2>10. ASSUME NEW k \in 1..Len(<<b>> \o rest) PROVE small <= (<<b>> \o rest)[k].size
        <3>1. CASE k = 1
            BY <3>1, <2>4, <1>4, <1>0, <2>5
        <3>2. CASE k # 1
            <4>1. k \in 2..Len(list) /\ k - 1 \in 1..(Len(list) - 1)
                BY <3>2, <2>4, <1>0
            <4>2. (<<b>> \o rest)[k] = list[k - 1] \/ (<<b>> \o rest)[k] = list[(k - 1) + 1]
                BY <4>1, <2>3, <2>4
            <4>3. k - 1 \in 1..Len(list) /\ (k - 1) + 1 \in 1..Len(list)
                BY <4>1, <1>0
            <4> QED BY <4>2, <4>3, <2>5
        <3> QED BY <3>1, <3>2
    <2> QED BY <2>2, <2>9, <2>10
<1> QED BY <1>2, <1>3, <1>4

\* "leak the smallest entry": a push drops from a full list, or refuses, only
\* what is no larger than everything that stays, for a list of any bound.
THEOREM DropsTheSmallest == Spec => LeaksTheSmallest
<1> DEFINE Drop == \A t \in Threads :
         FreePush(t) /\ blk[t].size >= MinBlock =>
           LET before == {freelist[i] : i \in 1..Len(freelist)} \cup {blk[t]}
               after  == {freelist'[i] : i \in 1..Len(freelist')}
           IN  \A b \in before \ after : \A c \in after : b.size <= c.size
<1>1. TypeOK /\ [Next]_vars => [Drop]_vars
    <2> SUFFICES ASSUME TypeOK, NEW t \in Threads, FreePush(t), blk[t].size >= MinBlock,
                        NEW x \in {freelist[i] : i \in 1..Len(freelist)} \cup {blk[t]},
                        x \notin {freelist'[i] : i \in 1..Len(freelist')},
                        NEW c \in {freelist'[i] : i \in 1..Len(freelist')}
                 PROVE  x.size <= c.size
        OBVIOUS
    <2>1. freelist \in Seq(Block) /\ blk[t] \in Block /\ freelist' = FreeLocked(freelist, blk[t])
        BY DEF TypeOK, FreePush
    <2>2. \A k \in 1..Len(FreeLocked(freelist, blk[t])) : FreeLocked(freelist, blk[t])[k] # x
        BY <2>1
    <2>3. \A k \in 1..Len(FreeLocked(freelist, blk[t])) : x.size <= FreeLocked(freelist, blk[t])[k].size
        BY <2>1, <2>2, PushKeepsLargest
    <2> QED BY <2>1, <2>3
<1>2. LeaksTheSmallest <=> [][Drop]_vars
    BY DEF LeaksTheSmallest
<1> QED BY <1>1, <1>2, TypeCorrect, PTL DEF Spec
=============================================================================
