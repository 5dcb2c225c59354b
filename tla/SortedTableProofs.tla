-------------------------- MODULE SortedTableProofs --------------------------
(***************************************************************************)
(* Proofs about the table of ranges, how it is built and searched          *)
(* (RangeSearch) and how it is sorted (QuickSort).                         *)
(*                                                                         *)
(* For every set of ranges, every table built from it and every program    *)
(* counter, the table covers what was added, and a lookup in a table that  *)
(* bsearch can search finds a range that contains the pc if there is one.  *)
(* An array of any length, of elements compared in any way that is a weak  *)
(* order, is permuted and in order when the sort ends.                     *)
(***************************************************************************)
EXTENDS RangeSearch, QuickSort, SequenceTheorems, TLAPS

\* Ranges end after they start, merged ones too, and where one of those added
\* for their unit does.
Ends ==
    \A k \in 1..Len(addrs) :
        /\ addrs[k].low <= addrs[k].high
        /\ \E r \in added : r.high = addrs[k].high /\ r.u = addrs[k].u

SortedOnceBuilt == at # "build" => Sorted(addrs)

\* While bsearch runs, what it looks for is between its bounds.
Between ==
    at = "bsearch" =>
        /\ entry = 0
        /\ Partitioned =>
             \A k \in 1..Len(addrs) : Contains(addrs[k], pc) => lo < k /\ k <= hi

HitContains == at \in {"forward", "done"} /\ entry # 0 => Within(entry, pc)

ForwardHasEntry == at = "forward" => entry # 0

IInv ==
    /\ TypeOK /\ Ends /\ TableExact /\ SortedOnceBuilt
    /\ Between /\ HitContains /\ ForwardHasEntry /\ LookupSound /\ LookupComplete

-----------------------------------------------------------------------------
(* Facts about ranges and tables                                           *)

LEMMA RangeFields ==
    ASSUME NEW r \in Ranges
    PROVE  r \in AddrRange /\ r.low \in Nat /\ r.high \in Nat /\ r.u \in Unit
           /\ r.low <= r.high
BY RangesAssumption DEF AddrRange, Unit

\* What the merge does to the last range.
LEMMA Longer ==
    ASSUME NEW q \in AddrRange, NEW h \in Nat
    PROVE  LET e == [q EXCEPT !.high = h]
           IN  /\ e \in AddrRange
               /\ e.low = q.low /\ e.high = h /\ e.u = q.u
               /\ h = q.high => e = q
BY DEF AddrRange

\* A step that changes neither the table nor what was added keeps what is
\* said of them.
LEMMA TableUnchanged ==
    ASSUME IInv, UNCHANGED <<addrs, added>>
    PROVE  Ends' /\ TableExact'
<1>1. Ends'
    BY DEF IInv, Ends
<1>2. TableExact'
    BY DEF IInv, TableExact, Contains
<1> QED
    BY <1>1, <1>2

-----------------------------------------------------------------------------
LEMMA InitInv == Init => IInv
<1> SUFFICES ASSUME Init PROVE IInv
    OBVIOUS
<1>1. addrs = << >> /\ Len(addrs) = 0 /\ added = {} /\ at = "build" /\ entry = 0
    BY DEF Init
<1>2. TypeOK
    BY <1>1 DEF Init, TypeOK
<1> QED
    BY <1>1, <1>2 DEF IInv, Ends, TableExact, SortedOnceBuilt, Between,
       HitContains, ForwardHasEntry, LookupSound, LookupComplete

-----------------------------------------------------------------------------
(* Building the table                                                      *)

LEMMA MergeStep ==
    ASSUME IInv, NEW r \in Ranges, at = "build", AddMerged(r),
           added' = added \cup {r}
    PROVE  addrs' \in Seq(AddrRange) /\ Len(addrs') = Len(addrs) /\ Ends' /\ TableExact'
<1> DEFINE n == Len(addrs)
           h == IF r.high > addrs[n].high THEN r.high ELSE addrs[n].high
<1>1. addrs \in Seq(AddrRange) /\ n \in Nat \ {0} /\ n \in 1..Len(addrs)
    <2>1. addrs \in Seq(AddrRange) /\ addrs # << >>
        BY DEF IInv, TypeOK, AddMerged
    <2> QED
        BY <2>1, EmptySeq, LenProperties
<1>2. addrs[n] \in AddrRange
    BY <1>1, ElementOfSeq
<1>3. r \in AddrRange /\ r.low \in Nat /\ r.high \in Nat /\ r.u \in Unit /\ r.low <= r.high
    BY RangeFields
<1>4. /\ r.low = addrs[n].high \/ r.low = addrs[n].high + 1
      /\ r.u = addrs[n].u
    BY DEF AddMerged, Merges
<1>5. /\ addrs[n].low \in Nat /\ addrs[n].high \in Nat
      /\ addrs[n].low <= addrs[n].high
      /\ h \in Nat /\ h >= addrs[n].high /\ h >= r.high
    BY <1>1, <1>2, <1>3 DEF IInv, Ends, AddrRange
<1>6. /\ addrs' \in Seq(AddrRange) /\ Len(addrs') = n
      /\ \A k \in 1..n : addrs'[k] = IF k = n THEN [addrs[n] EXCEPT !.high = h]
                                     ELSE addrs[k]
    <2>1. CASE r.high > addrs[n].high
        <3>1. addrs' = [addrs EXCEPT ![n] = [addrs[n] EXCEPT !.high = r.high]]
            BY <2>1 DEF AddMerged
        <3>2. [addrs[n] EXCEPT !.high = r.high] \in AddrRange
            BY <1>2, <1>3, Longer
        <3> QED
            BY <1>1, <2>1, <3>1, <3>2, ExceptSeq
    <2>2. CASE ~(r.high > addrs[n].high)
        <3>1. addrs' = addrs
            BY <2>2 DEF AddMerged
        <3>2. [addrs[n] EXCEPT !.high = h] = addrs[n]
            BY <1>2, <1>5, <2>2, Longer
        <3> QED
            BY <1>1, <3>1, <3>2
    <2> QED
        BY <2>1, <2>2
<1>7. /\ addrs'[n].low = addrs[n].low /\ addrs'[n].high = h /\ addrs'[n].u = addrs[n].u
      /\ \A k \in 1..n : k # n => addrs'[k] = addrs[k]
    <2>1. addrs'[n] = [addrs[n] EXCEPT !.high = h]
        BY <1>1, <1>6
    <2> QED
        BY <1>2, <1>5, <1>6, <2>1, Longer
<1>8. Ends'
    <2> SUFFICES ASSUME NEW k \in 1..n
                 PROVE  /\ addrs'[k].low <= addrs'[k].high
                        /\ \E q \in added' : q.high = addrs'[k].high /\ q.u = addrs'[k].u
        BY <1>6 DEF Ends
    <2>1. /\ addrs[k].low <= addrs[k].high
          /\ \E q \in added : q.high = addrs[k].high /\ q.u = addrs[k].u
        BY DEF IInv, Ends
    <2>2. CASE k # n
        BY <1>7, <2>1, <2>2
    <2>3. CASE k = n
        BY <1>4, <1>5, <1>7, <2>1, <2>3
    <2> QED
        BY <2>2, <2>3
<1>9. TableExact'
    <2>1. ASSUME NEW q \in added', NEW p \in q.low..(q.high - 1)
          PROVE  \E k \in 1..Len(addrs') : Contains(addrs'[k], p) /\ addrs'[k].u = q.u
        <3>1. CASE q \in added
            <4>1. PICK k \in 1..n : Contains(addrs[k], p) /\ addrs[k].u = q.u
                BY <3>1 DEF IInv, TableExact
            <4>2. q \in Ranges /\ p \in Int
                BY <3>1, RangeFields DEF IInv, TypeOK
            <4>3. Contains(addrs'[k], p) /\ addrs'[k].u = q.u
                BY <1>5, <1>7, <4>1, <4>2 DEF Contains
            <4> QED
                BY <1>6, <4>3
        <3>2. CASE q = r
            <4>1. Contains(addrs'[n], p) /\ addrs'[n].u = q.u
                BY <1>3, <1>4, <1>5, <1>7, <3>2 DEF Contains
            <4> QED
                BY <1>1, <1>6, <4>1
        <3> QED
            BY <3>1, <3>2
    <2>2. ASSUME NEW k \in 1..Len(addrs'), NEW p \in addrs'[k].low..(addrs'[k].high - 1)
          PROVE  \E q \in added' : q.low <= p /\ p <= q.high /\ q.u = addrs'[k].u
        <3>1. CASE k # n
            BY <1>6, <1>7, <3>1 DEF IInv, TableExact
        <3>2. CASE k = n
            <4>1. p \in Int /\ addrs[n].low <= p /\ p < h
                BY <1>5, <1>7, <3>2
            <4>2. CASE p < addrs[n].high
                <5>1. p \in addrs[n].low..(addrs[n].high - 1)
                    BY <1>5, <4>1, <4>2
                <5> QED
                    BY <1>1, <1>7, <3>2, <5>1 DEF IInv, TableExact
            <4>3. CASE p >= r.low
                BY <1>3, <1>4, <1>5, <1>7, <3>2, <4>1, <4>3
            <4>4. CASE p = addrs[n].high
                <5>1. PICK q \in added : q.high = addrs[n].high /\ q.u = addrs[n].u
                    BY <1>1 DEF IInv, Ends
                <5>2. q.low <= q.high
                    BY RangeFields DEF IInv, TypeOK
                <5> QED
                    BY <1>5, <1>7, <3>2, <4>4, <5>1, <5>2
            <4>5. p < addrs[n].high \/ p >= r.low \/ p = addrs[n].high
                BY <1>3, <1>4, <1>5, <4>1
            <4> QED
                BY <4>2, <4>3, <4>4, <4>5
        <3> QED
            BY <3>1, <3>2
    <2> QED
        BY <2>1, <2>2 DEF TableExact
<1> QED
    BY <1>6, <1>8, <1>9

LEMMA AppendStep ==
    ASSUME IInv, NEW r \in Ranges, at = "build", AddAppended(r),
           added' = added \cup {r}
    PROVE  /\ addrs' \in Seq(AddrRange) /\ Len(addrs') = Len(addrs) + 1
           /\ Ends' /\ TableExact'
<1> DEFINE n == Len(addrs)
<1>1. addrs \in Seq(AddrRange) /\ n \in Nat
    BY LenProperties DEF IInv, TypeOK
<1>2. r \in AddrRange /\ r.low \in Nat /\ r.high \in Nat /\ r.low <= r.high
    BY RangeFields
<1>3. /\ addrs' \in Seq(AddrRange) /\ Len(addrs') = n + 1
      /\ addrs'[n + 1] = r
      /\ \A k \in 1..n : addrs'[k] = addrs[k]
    BY <1>1, <1>2, AppendProperties DEF AddAppended
<1>4. Ends'
    <2> SUFFICES ASSUME NEW k \in 1..(n + 1)
                 PROVE  /\ addrs'[k].low <= addrs'[k].high
                        /\ \E q \in added' : q.high = addrs'[k].high /\ q.u = addrs'[k].u
        BY <1>3 DEF Ends
    <2>1. CASE k = n + 1
        BY <1>2, <1>3, <2>1
    <2>2. CASE k \in 1..n
        BY <1>3, <2>2 DEF IInv, Ends
    <2> QED
        BY <1>1, <2>1, <2>2
<1>5. TableExact'
    <2>1. ASSUME NEW q \in added', NEW p \in q.low..(q.high - 1)
          PROVE  \E k \in 1..Len(addrs') : Contains(addrs'[k], p) /\ addrs'[k].u = q.u
        <3>1. CASE q \in added
            <4>1. PICK k \in 1..n : Contains(addrs[k], p) /\ addrs[k].u = q.u
                BY <3>1 DEF IInv, TableExact
            <4> QED
                BY <1>1, <1>3, <4>1
        <3>2. CASE q = r
            <4>1. Contains(addrs'[n + 1], p) /\ addrs'[n + 1].u = q.u
                BY <1>2, <1>3, <3>2 DEF Contains
            <4> QED
                BY <1>1, <1>3, <4>1
        <3> QED
            BY <3>1, <3>2
    <2>2. ASSUME NEW k \in 1..Len(addrs'), NEW p \in addrs'[k].low..(addrs'[k].high - 1)
          PROVE  \E q \in added' : q.low <= p /\ p <= q.high /\ q.u = addrs'[k].u
        <3>1. CASE k \in 1..n
            BY <1>3, <3>1 DEF IInv, TableExact
        <3>2. CASE k = n + 1
            BY <1>2, <1>3, <3>2
        <3> QED
            BY <1>1, <1>3, <3>1, <3>2
    <2> QED
        BY <2>1, <2>2 DEF TableExact
<1> QED
    BY <1>3, <1>4, <1>5

LEMMA AddStep ==
    ASSUME IInv, NEW r \in Ranges, AddUnitAddr(r)
    PROVE  IInv'
<1>1. at = "build" /\ at' = "build" /\ added' = added \cup {r}
      /\ UNCHANGED <<pc, lo, hi, entry>>
    BY DEF AddUnitAddr
<1>2. /\ addrs' \in Seq(AddrRange) /\ Len(addrs') >= Len(addrs)
      /\ Len(addrs) \in Nat /\ Len(addrs') \in Nat
      /\ Ends' /\ TableExact'
    <2>1. addrs \in Seq(AddrRange) /\ Len(addrs) \in Nat
        BY LenProperties DEF IInv, TypeOK
    <2>2. CASE AddMerged(r)
        BY <1>1, <2>1, <2>2, MergeStep
    <2>3. CASE AddAppended(r)
        BY <1>1, <2>1, <2>3, AppendStep
    <2> QED
        BY <2>2, <2>3 DEF AddUnitAddr
<1>3. TypeOK'
    BY <1>1, <1>2 DEF IInv, TypeOK
<1> QED
    BY <1>1, <1>2, <1>3 DEF IInv, SortedOnceBuilt, Between, HitContains,
       ForwardHasEntry, LookupSound, LookupComplete

\* Rearranging the table keeps its ranges.
LEMMA SortStep ==
    ASSUME IInv, QSort
    PROVE  IInv'
<1> DEFINE n == Len(addrs)
<1>1. PICK f \in Rearrangements(addrs) : addrs' = [k \in 1..n |-> addrs[f[k]]]
    BY DEF QSort
<1>2. /\ at = "build" /\ at' = "ready" /\ Sorted(addrs')
      /\ UNCHANGED <<added, pc, lo, hi, entry>>
    BY DEF QSort
<1>3. addrs \in Seq(AddrRange) /\ n \in Nat
    BY LenProperties DEF IInv, TypeOK
<1>4. /\ f \in [1..n -> 1..n]
      /\ \A k \in 1..n : \E j \in 1..n : f[j] = k
    BY <1>1 DEF Rearrangements
<1>5. /\ \A k \in 1..n : addrs'[k] = addrs[f[k]] /\ addrs'[k] \in AddrRange
      /\ addrs' \in Seq(AddrRange) /\ Len(addrs') = n
    <2>1. \A k \in 1..n : addrs'[k] = addrs[f[k]] /\ addrs[f[k]] \in AddrRange
        BY <1>1, <1>3, <1>4, ElementOfSeq
    <2>2. addrs' \in Seq(AddrRange)
        BY <1>1, <1>3, <2>1, IsASeq
    <2> QED
        BY <1>1, <1>3, <2>1, <2>2, LenProperties
<1>6. Ends'
    <2> SUFFICES ASSUME NEW k \in 1..n
                 PROVE  /\ addrs'[k].low <= addrs'[k].high
                        /\ \E q \in added' : q.high = addrs'[k].high /\ q.u = addrs'[k].u
        BY <1>5 DEF Ends
    <2>1. f[k] \in 1..n /\ addrs'[k] = addrs[f[k]]
        BY <1>4, <1>5
    <2> QED
        BY <1>2, <2>1 DEF IInv, Ends
<1>7. TableExact'
    <2>1. ASSUME NEW q \in added', NEW p \in q.low..(q.high - 1)
          PROVE  \E k \in 1..Len(addrs') : Contains(addrs'[k], p) /\ addrs'[k].u = q.u
        <3>1. PICK k \in 1..n : Contains(addrs[k], p) /\ addrs[k].u = q.u
            BY <1>2 DEF IInv, TableExact
        <3>2. PICK j \in 1..n : f[j] = k
            BY <1>4
        <3> QED
            BY <1>5, <3>1, <3>2
    <2>2. ASSUME NEW k \in 1..Len(addrs'), NEW p \in addrs'[k].low..(addrs'[k].high - 1)
          PROVE  \E q \in added' : q.low <= p /\ p <= q.high /\ q.u = addrs'[k].u
        <3>1. f[k] \in 1..n /\ addrs'[k] = addrs[f[k]]
            BY <1>4, <1>5
        <3> QED
            BY <1>2, <3>1 DEF IInv, TableExact
    <2> QED
        BY <2>1, <2>2 DEF TableExact
<1>8. TypeOK'
    BY <1>2, <1>3, <1>5 DEF IInv, TypeOK
<1> QED
    BY <1>2, <1>6, <1>7, <1>8 DEF IInv, SortedOnceBuilt, Between, HitContains,
       ForwardHasEntry, LookupSound, LookupComplete

-----------------------------------------------------------------------------
(* Looking up a program counter                                            *)

LEMMA LookupStep ==
    ASSUME IInv, NEW p \in Pcs, Lookup(p)
    PROVE  IInv'
<1>1. /\ at = "ready" /\ at' = "bsearch" /\ pc' = p
      /\ lo' = 0 /\ hi' = Len(addrs) /\ entry' = 0
      /\ UNCHANGED <<addrs, added>>
    BY DEF Lookup
<1>2. p \in Nat /\ Len(addrs) \in Nat
    BY RangesAssumption, LenProperties DEF IInv, TypeOK
<1>3. TypeOK'
    BY <1>1, <1>2 DEF IInv, TypeOK
<1>4. Ends' /\ TableExact'
    BY <1>1, TableUnchanged
<1>5. SortedOnceBuilt'
    BY <1>1 DEF IInv, SortedOnceBuilt, Sorted, Before
<1>6. Between'
    BY <1>1, <1>2 DEF Between
<1> QED
    BY <1>1, <1>3, <1>4, <1>5, <1>6 DEF IInv, HitContains, ForwardHasEntry,
       LookupSound, LookupComplete

\* The range in the middle of an interval that is not empty.
LEMMA MiddleIsInside ==
    ASSUME IInv, lo < hi
    PROVE  /\ lo \in Nat /\ hi \in Nat /\ hi <= Len(addrs) /\ Len(addrs) \in Nat
           /\ Middle \in Nat /\ lo <= Middle /\ Middle < hi
           /\ Middle + 1 \in 1..Len(addrs)
           /\ addrs[Middle + 1] \in AddrRange
<1>1. lo \in Nat /\ hi \in Nat /\ hi <= Len(addrs) /\ Len(addrs) \in Nat
    BY LenProperties DEF IInv, TypeOK
<1>2. Middle \in Nat /\ lo <= Middle /\ Middle < hi
    BY <1>1 DEF Middle
<1> QED
    BY <1>1, <1>2, ElementOfSeq DEF IInv, TypeOK

\* Of a range that starts after the pc, and of those after it, none contains
\* the pc.
LEMMA GoLeftStep ==
    ASSUME IInv, GoLeft
    PROVE  IInv'
<1>1. /\ at = "bsearch" /\ lo < hi /\ pc < addrs[Middle + 1].low
      /\ hi' = Middle /\ UNCHANGED <<addrs, added, at, pc, lo, entry>>
    BY DEF GoLeft
<1>2. /\ lo \in Nat /\ hi \in Nat /\ hi <= Len(addrs) /\ Len(addrs) \in Nat
      /\ Middle \in Nat /\ lo <= Middle /\ Middle < hi
      /\ Middle + 1 \in 1..Len(addrs)
    BY <1>1, MiddleIsInside
<1>3. TypeOK'
    BY <1>1, <1>2 DEF IInv, TypeOK
<1>4. Ends' /\ TableExact'
    BY <1>1, TableUnchanged
<1>5. SortedOnceBuilt'
    BY <1>1 DEF IInv, SortedOnceBuilt, Sorted, Before
<1>6. Between'
    <2> SUFFICES ASSUME Partitioned, NEW k \in 1..Len(addrs), Contains(addrs[k], pc)
                 PROVE  lo < k /\ k <= Middle
        BY <1>1 DEF IInv, Between, Partitioned, Contains
    <2>1. lo < k /\ k <= hi
        BY <1>1 DEF IInv, Between
    <2>2. ~(Middle + 1 <= k)
        <3> SUFFICES ASSUME Middle + 1 <= k PROVE FALSE
            OBVIOUS
        <3>1. addrs[k] \in AddrRange /\ addrs[Middle + 1] \in AddrRange /\ pc \in Nat
            BY <1>2, ElementOfSeq DEF IInv, TypeOK
        <3>2. addrs[Middle + 1].low <= addrs[k].low
            <4>1. CASE k = Middle + 1
                BY <3>1, <4>1 DEF AddrRange
            <4>2. CASE Middle + 1 < k
                BY <1>1, <1>2, <3>1, <4>2
                   DEF IInv, SortedOnceBuilt, Sorted, Before, AddrRange
            <4> QED
                BY <1>2, <4>1, <4>2
        <3> QED
            BY <1>1, <3>1, <3>2 DEF Contains, AddrRange
    <2> QED
        BY <1>2, <2>1, <2>2
<1> QED
    BY <1>1, <1>3, <1>4, <1>5, <1>6 DEF IInv, HitContains, ForwardHasEntry,
       LookupSound, LookupComplete

\* Of a range that ends at the pc or before it, and of those before it, none
\* contains the pc, if the table is one bsearch can search.
LEMMA GoRightStep ==
    ASSUME IInv, GoRight
    PROVE  IInv'
<1>1. /\ at = "bsearch" /\ lo < hi /\ pc >= addrs[Middle + 1].high
      /\ lo' = Middle + 1 /\ UNCHANGED <<addrs, added, at, pc, hi, entry>>
    BY DEF GoRight
<1>2. /\ lo \in Nat /\ hi \in Nat /\ hi <= Len(addrs) /\ Len(addrs) \in Nat
      /\ Middle \in Nat /\ lo <= Middle /\ Middle < hi
      /\ Middle + 1 \in 1..Len(addrs)
    BY <1>1, MiddleIsInside
<1>3. TypeOK'
    BY <1>1, <1>2 DEF IInv, TypeOK
<1>4. Ends' /\ TableExact'
    BY <1>1, TableUnchanged
<1>5. SortedOnceBuilt'
    BY <1>1 DEF IInv, SortedOnceBuilt, Sorted, Before
<1>6. Between'
    <2> SUFFICES ASSUME Partitioned, NEW k \in 1..Len(addrs), Contains(addrs[k], pc)
                 PROVE  Middle + 1 < k /\ k <= hi
        BY <1>1 DEF IInv, Between, Partitioned, Contains
    <2>1. lo < k /\ k <= hi
        BY <1>1 DEF IInv, Between
    <2>2. addrs[k] \in AddrRange /\ addrs[Middle + 1] \in AddrRange /\ pc \in Nat
        BY <1>2, ElementOfSeq DEF IInv, TypeOK
    <2>3. k # Middle + 1
        BY <1>1, <2>2 DEF Contains, AddrRange
    <2>4. ~(k < Middle + 1)
        <3> SUFFICES ASSUME k < Middle + 1 PROVE FALSE
            OBVIOUS
        <3>1. addrs[Middle + 1].high <= pc
            BY <1>1, <2>2 DEF AddrRange
        <3>2. addrs[k].high <= pc
            BY <1>2, <3>1 DEF Partitioned
        <3> QED
            BY <2>2, <3>2 DEF Contains, AddrRange
    <2> QED
        BY <1>2, <2>1, <2>3, <2>4
<1> QED
    BY <1>1, <1>3, <1>4, <1>5, <1>6 DEF IInv, HitContains, ForwardHasEntry,
       LookupSound, LookupComplete

LEMMA HitStep ==
    ASSUME IInv, Hit
    PROVE  IInv'
<1>1. /\ at = "bsearch" /\ lo < hi /\ Contains(addrs[Middle + 1], pc)
      /\ entry' = Middle + 1 /\ at' = "forward"
      /\ UNCHANGED <<addrs, added, pc, lo, hi>>
    BY DEF Hit
<1>2. Len(addrs) \in Nat /\ Middle \in Nat /\ Middle + 1 \in 1..Len(addrs)
    BY <1>1, MiddleIsInside
<1>3. TypeOK'
    BY <1>1, <1>2 DEF IInv, TypeOK
<1>4. Ends' /\ TableExact'
    BY <1>1, TableUnchanged
<1>5. SortedOnceBuilt'
    BY <1>1 DEF IInv, SortedOnceBuilt, Sorted, Before
<1>6. HitContains' /\ ForwardHasEntry'
    BY <1>1, <1>2 DEF HitContains, ForwardHasEntry, Within, Contains
<1> QED
    BY <1>1, <1>3, <1>4, <1>5, <1>6 DEF IInv, Between, LookupSound, LookupComplete

LEMMA MissStep ==
    ASSUME IInv, Miss
    PROVE  IInv'
<1>1. /\ at = "bsearch" /\ lo >= hi /\ at' = "done"
      /\ UNCHANGED <<addrs, added, pc, lo, hi, entry>>
    BY DEF Miss
<1>2. TypeOK'
    BY <1>1 DEF IInv, TypeOK
<1>3. Ends' /\ TableExact'
    BY <1>1, TableUnchanged
<1>4. SortedOnceBuilt'
    BY <1>1 DEF IInv, SortedOnceBuilt, Sorted, Before
<1>5. entry = 0 /\ lo \in Nat /\ hi \in Nat
    BY <1>1, LenProperties DEF IInv, Between, TypeOK
<1>6. LookupComplete'
    <2> SUFFICES ASSUME Partitioned, NEW k \in 1..Len(addrs)
                 PROVE  ~Contains(addrs[k], pc)
        BY <1>1 DEF LookupComplete, Partitioned, Contains
    <2>1. Contains(addrs[k], pc) => lo < k /\ k <= hi
        BY <1>1 DEF IInv, Between
    <2> QED
        BY <1>1, <1>5, <2>1
<1> QED
    BY <1>1, <1>2, <1>3, <1>4, <1>5, <1>6 DEF IInv, Between, HitContains,
       ForwardHasEntry, LookupSound

LEMMA ForwardStep ==
    ASSUME IInv, Forward
    PROVE  IInv'
<1>1. at = "forward" /\ UNCHANGED <<addrs, added, pc, lo, hi>>
    BY DEF Forward
<1>2. entry # 0 /\ entry \in 1..Len(addrs) /\ Within(entry, pc) /\ Len(addrs) \in Nat
    BY <1>1, LenProperties DEF IInv, ForwardHasEntry, HitContains, Within, TypeOK
<1>3. Ends' /\ TableExact'
    BY <1>1, TableUnchanged
<1>4. SortedOnceBuilt'
    BY <1>1 DEF IInv, SortedOnceBuilt, Sorted, Before
<1>5. CASE Within(entry + 1, pc)
    <2>1. entry' = entry + 1 /\ at' = "forward"
        BY <1>1, <1>5 DEF Forward
    <2>2. entry + 1 \in 1..Len(addrs)
        BY <1>5 DEF Within
    <2>3. TypeOK'
        BY <1>1, <2>1, <2>2 DEF IInv, TypeOK
    <2>4. HitContains' /\ ForwardHasEntry'
        BY <1>1, <1>2, <1>5, <2>1 DEF HitContains, ForwardHasEntry, Within, Contains
    <2> QED
        BY <1>3, <1>4, <2>1, <2>3, <2>4 DEF IInv, Between, LookupSound, LookupComplete
<1>6. CASE ~Within(entry + 1, pc)
    <2>1. entry' = entry /\ at' = "done"
        BY <1>1, <1>6 DEF Forward
    <2>2. TypeOK'
        BY <1>1, <2>1 DEF IInv, TypeOK
    <2>3. HitContains' /\ LookupSound'
        BY <1>1, <1>2, <1>6, <2>1 DEF HitContains, LookupSound, Within, Contains
    <2> QED
        BY <1>2, <1>3, <1>4, <2>1, <2>2, <2>3 DEF IInv, Between, ForwardHasEntry,
           LookupComplete
<1> QED
    BY <1>5, <1>6

LEMMA DoneStep ==
    ASSUME IInv, Done
    PROVE  IInv'
<1>1. /\ at = "done" /\ at' = "ready"
      /\ UNCHANGED <<addrs, added, pc, lo, hi, entry>>
    BY DEF Done
<1>2. TypeOK'
    BY <1>1 DEF IInv, TypeOK
<1>3. Ends' /\ TableExact'
    BY <1>1, TableUnchanged
<1>4. SortedOnceBuilt'
    BY <1>1 DEF IInv, SortedOnceBuilt, Sorted, Before
<1> QED
    BY <1>1, <1>2, <1>3, <1>4 DEF IInv, Between, HitContains, ForwardHasEntry,
       LookupSound, LookupComplete

LEMMA Stutter ==
    ASSUME IInv, UNCHANGED vars
    PROVE  IInv'
<1>1. UNCHANGED <<addrs, added, at, pc, lo, hi, entry>>
    BY DEF vars
<1>2. TypeOK'
    BY <1>1 DEF IInv, TypeOK
<1>3. Ends' /\ TableExact'
    BY <1>1, TableUnchanged
<1>4. SortedOnceBuilt'
    BY <1>1 DEF IInv, SortedOnceBuilt, Sorted, Before
<1>5. Between' /\ HitContains' /\ ForwardHasEntry'
    BY <1>1 DEF IInv, Between, Partitioned, HitContains, ForwardHasEntry, Within,
       Contains
<1>6. LookupSound' /\ LookupComplete'
    BY <1>1 DEF IInv, LookupSound, LookupComplete, Partitioned, Within, Contains
<1> QED
    BY <1>2, <1>3, <1>4, <1>5, <1>6 DEF IInv

-----------------------------------------------------------------------------
\* The invariant the properties follow from holds in every reachable state.
THEOREM Invariance == Spec => []IInv
<1>1. IInv /\ [Next]_vars => IInv'
    <2> SUFFICES ASSUME IInv, [Next]_vars PROVE IInv'
        OBVIOUS
    <2>1. CASE \E r \in Ranges : AddUnitAddr(r)
        BY <2>1, AddStep
    <2>2. CASE QSort
        BY <2>2, SortStep
    <2>3. CASE \E p \in Pcs : Lookup(p)
        BY <2>3, LookupStep
    <2>4. CASE Search
        BY <2>4, GoLeftStep, GoRightStep, HitStep, MissStep, ForwardStep, DoneStep
           DEF Search
    <2>5. CASE UNCHANGED vars
        BY <2>5, Stutter
    <2> QED
        BY <2>1, <2>2, <2>3, <2>4, <2>5 DEF Next
<1> QED
    BY <1>1, InitInv, PTL DEF Spec

\* The variables have their types and bsearch stays inside the table.
THEOREM TypeCorrect == Spec => []TypeOK
BY Invariance, PTL DEF IInv

\* add_unit_addr: the table covers what was added for each unit, and at most
\* the byte between two merged ranges beyond that, before and after the sort.
THEOREM TableCorrect == Spec => []TableExact
BY Invariance, PTL DEF IInv

\* dwarf_lookup_pc: the range found contains the pc and is the last of its run.
THEOREM SoundLookup == Spec => []LookupSound
BY Invariance, PTL DEF IInv

\* dwarf_lookup_pc: bsearch misses no pc in a table it can search.
THEOREM CompleteLookup == Spec => []LookupComplete
BY Invariance, PTL DEF IInv

\* All of it together, as the run checks it.
THEOREM RightLookup == Spec => []LookupRight
<1>1. IInv => LookupRight
    BY DEF IInv, LookupRight
<1> QED
    BY <1>1, Invariance, PTL

-----------------------------------------------------------------------------
(* The sort.                                                               *)

Pos == 0..(N - 1)

\* The part at work, and a position within a part.
AtWork == [base |-> base, count |-> count]
InPart(p, part) == part.base <= p /\ p < part.base + part.count

\* Parts that share no position, with one before the other.
Apart(x, y) == x.base + x.count <= y.base \/ y.base + y.count <= x.base

PartsApart ==
    /\ \A k \in 1..Len(stack) : Apart(AtWork, stack[k])
    /\ \A j, k \in 1..Len(stack) : j < k => Apart(stack[j], stack[k])

\* What is out of order is within one part.
Together(p, q) ==
    \/ InPart(p, AtWork) /\ InPart(q, AtWork)
    \/ \E k \in 1..Len(stack) : InPart(p, stack[k]) /\ InPart(q, stack[k])

InOrder == \A p, q \in Pos : p < q /\ Greater(a[p], a[q]) => Together(p, q)

\* The loop: smaller elements up to mid, others up to i.
Scanned ==
    phase = "scan" =>
        /\ count >= 2 /\ i <= count /\ mid < i
        /\ \A r \in 1..mid : Greater(a[base], a[base + r])
        /\ \A r \in (mid + 1)..(i - 1) : ~Greater(a[base], a[base + r])

AllSorted == phase = "done" => count < 2 /\ stack = << >>

SortIInv == SortTypeOK /\ Permuted /\ PartsApart /\ InOrder /\ Scanned /\ AllSorted

-----------------------------------------------------------------------------
(* Swaps                                                                   *)

\* What a swap does to an array.
LEMMA SwapFacts ==
    ASSUME NEW f \in [Pos -> Elems], NEW p \in Pos, NEW q \in Pos
    PROVE  /\ Swap(f, p, q) \in [Pos -> Elems]
           /\ Swap(f, p, q)[p] = f[q] /\ Swap(f, p, q)[q] = f[p]
           /\ \A r \in Pos \ {p, q} : Swap(f, p, q)[r] = f[r]
BY DEF Swap

\* The same elements at other places.
IsPermuted(f) ==
    /\ \A j \in Pos : \E k \in Pos : f[k] = input[j]
    /\ \A j, k \in Pos : f[j] = f[k] => j = k

\* A swap loses and doubles no element.
LEMMA SwapPermutes ==
    ASSUME NEW f \in [Pos -> Elems], NEW p \in Pos, NEW q \in Pos, IsPermuted(f)
    PROVE  IsPermuted(Swap(f, p, q))
<1> DEFINE g == Swap(f, p, q)
<1>1. g \in [Pos -> Elems] /\ g[p] = f[q] /\ g[q] = f[p] /\ \A r \in Pos \ {p, q} : g[r] = f[r]
    BY SwapFacts
<1> HIDE DEF g
<1>2. ASSUME NEW j \in Pos PROVE \E k \in Pos : g[k] = input[j]
    <2>1. PICK k \in Pos : f[k] = input[j]
        BY DEF IsPermuted
    <2>2. CASE k = p
        BY <1>1, <2>1, <2>2
    <2>3. CASE k = q
        BY <1>1, <2>1, <2>3
    <2>4. CASE k \notin {p, q}
        BY <1>1, <2>1, <2>4
    <2> QED
        BY <2>2, <2>3, <2>4
<1>3. ASSUME NEW j \in Pos, NEW k \in Pos, g[j] = g[k] PROVE j = k
    BY <1>1, <1>3 DEF IsPermuted
<1>4. IsPermuted(g)
    BY <1>2, <1>3 DEF IsPermuted
<1> QED
    BY <1>4 DEF g

\* An array in order but for pairs within one part.
OrderedIn(f) == \A p, q \in Pos : p < q /\ Greater(f[p], f[q]) => Together(p, q)

\* A position of the part at work shares no other part with a position.
LEMMA WithinOne ==
    ASSUME SortTypeOK, PartsApart, NEW p \in Pos, NEW q \in Pos,
           InPart(p, AtWork), Together(p, q) \/ Together(q, p)
    PROVE  InPart(q, AtWork)
<1>1. \A k \in 1..Len(stack) : ~InPart(p, stack[k])
    <2> TAKE k \in 1..Len(stack)
    <2>1. stack[k] \in Part
        BY ElementOfSeq DEF SortTypeOK
    <2>2. Apart(AtWork, stack[k])
        BY DEF PartsApart
    <2> QED
        BY <2>1, <2>2, InputAssumption DEF Apart, AtWork, InPart, Part, Pos, SortTypeOK
<1> QED
    BY <1>1 DEF Together

\* A swap within the part at work puts nothing out of order elsewhere.
LEMMA SwapInOrder ==
    ASSUME SortTypeOK, PartsApart, NEW f \in [Pos -> Elems], OrderedIn(f),
           NEW x \in Pos, NEW y \in Pos, InPart(x, AtWork), InPart(y, AtWork)
    PROVE  OrderedIn(Swap(f, x, y))
<1> DEFINE g == Swap(f, x, y)
<1>1. g \in [Pos -> Elems] /\ g[x] = f[y] /\ g[y] = f[x] /\ \A r \in Pos \ {x, y} : g[r] = f[r]
    BY SwapFacts
<1> HIDE DEF g
<1>2. ASSUME NEW p \in Pos, NEW q \in Pos, p < q, Greater(g[p], g[q])
      PROVE  Together(p, q)
    <2>1. CASE InPart(p, AtWork) /\ InPart(q, AtWork)
        BY <2>1 DEF Together
    <2>2. CASE ~InPart(p, AtWork) /\ ~InPart(q, AtWork)
        <3>1. p \notin {x, y} /\ q \notin {x, y}
            BY <2>2
        <3>2. g[p] = f[p] /\ g[q] = f[q]
            BY <1>1, <3>1
        <3> QED
            BY <1>2, <3>2 DEF OrderedIn
    <2>3. CASE InPart(p, AtWork) /\ ~InPart(q, AtWork)
        <3>1. \A r \in Pos : InPart(r, AtWork) => r < q /\ ~Greater(f[r], f[q])
            <4> SUFFICES ASSUME NEW r \in Pos, InPart(r, AtWork)
                         PROVE  r < q /\ ~Greater(f[r], f[q])
                OBVIOUS
            <4>1. r < q
                BY <1>2, <2>3, InputAssumption DEF InPart, AtWork, Pos, SortTypeOK
            <4>2. ~Together(r, q)
                BY <2>3, WithinOne
            <4> QED
                BY <4>1, <4>2 DEF OrderedIn
        <3>2. g[q] = f[q] /\ (g[p] = f[p] \/ g[p] = f[x] \/ g[p] = f[y])
            BY <1>1, <2>3
        <3> QED
            BY <1>2, <2>3, <3>1, <3>2
    <2>4. CASE ~InPart(p, AtWork) /\ InPart(q, AtWork)
        <3>1. \A r \in Pos : InPart(r, AtWork) => p < r /\ ~Greater(f[p], f[r])
            <4> SUFFICES ASSUME NEW r \in Pos, InPart(r, AtWork)
                         PROVE  p < r /\ ~Greater(f[p], f[r])
                OBVIOUS
            <4>1. p < r
                BY <1>2, <2>4, InputAssumption DEF InPart, AtWork, Pos, SortTypeOK
            <4>2. ~Together(p, r)
                BY <2>4, WithinOne
            <4> QED
                BY <4>1, <4>2 DEF OrderedIn
        <3>2. g[p] = f[p] /\ (g[q] = f[q] \/ g[q] = f[x] \/ g[q] = f[y])
            BY <1>1, <2>4
        <3> QED
            BY <1>2, <2>4, <3>1, <3>2
    <2> QED
        BY <2>1, <2>2, <2>3, <2>4
<1>3. OrderedIn(g)
    BY <1>2 DEF OrderedIn
<1> QED
    BY <1>3 DEF g

-----------------------------------------------------------------------------
(* Steps                                                                   *)

\* The positions of the part at work are in the array.
LEMMA Positions ==
    ASSUME SortTypeOK, NEW r \in Nat, r < count
    PROVE  base + r \in Pos /\ InPart(base + r, AtWork)
BY InputAssumption DEF SortTypeOK, Pos, InPart, AtWork

\* A step that changes neither the parts nor anything but the array, which
\* it keeps permuted and in order.
LEMMA SamePartsStep ==
    ASSUME SortIInv, UNCHANGED <<input, base, count, stack>>,
           a' \in [Pos -> Elems], IsPermuted(a'), OrderedIn(a')
    PROVE  PartsApart' /\ InOrder' /\ Permuted'
<1>1. PartsApart'
    BY DEF SortIInv, PartsApart, AtWork, Apart
<1>2. \A p, q \in Pos : Together(p, q) <=> Together(p, q)'
    BY DEF Together, AtWork, InPart
<1>3. InOrder'
    BY <1>2 DEF InOrder, OrderedIn
<1>4. Permuted'
    BY DEF IsPermuted, Permuted, Pos
<1> QED
    BY <1>1, <1>3, <1>4

\* The property, of the array as it is.
LEMMA PermutedNow == Permuted <=> IsPermuted(a)
BY DEF Permuted, IsPermuted, Pos

\* The pivot is swapped with an element of its own part.
LEMMA PivotStep == SortIInv /\ Pivot => SortIInv'
<1> SUFFICES ASSUME SortIInv, Pivot PROVE SortIInv'
    OBVIOUS
<1> DEFINE m == count \div 2
<1>1. m \in Nat /\ 0 < count /\ m < count
    BY DEF SortIInv, SortTypeOK, Pivot
<1>2. /\ base \in Pos /\ InPart(base, AtWork)
      /\ base + m \in Pos /\ InPart(base + m, AtWork)
    <2>1. base + 0 = base
        BY DEF SortIInv, SortTypeOK
    <2> QED
        BY <1>1, <2>1, Positions DEF SortIInv
<1>3. a \in [Pos -> Elems] /\ OrderedIn(a) /\ IsPermuted(a)
    BY PermutedNow DEF SortIInv, SortTypeOK, Pos, InOrder, OrderedIn
<1>4. /\ a' \in [Pos -> Elems]
      /\ OrderedIn(a')
      /\ IsPermuted(a')
    BY <1>2, <1>3, SwapFacts, SwapInOrder, SwapPermutes DEF SortIInv, Pivot
<1>5. PartsApart' /\ InOrder' /\ Permuted'
    BY <1>4, SamePartsStep DEF Pivot
<1>6. SortTypeOK'
    BY <1>4, InputAssumption DEF SortIInv, SortTypeOK, Pivot, Pos
<1>7. Scanned' /\ AllSorted'
    BY DEF SortIInv, SortTypeOK, Pivot, Scanned, AllSorted
<1> QED
    BY <1>5, <1>6, <1>7 DEF SortIInv

\* The loop keeps smaller elements before mid, the others after it.
LEMMA CompareStep == SortIInv /\ Compare => SortIInv'
<1> SUFFICES ASSUME SortIInv, Compare PROVE SortIInv'
    OBVIOUS
<1>1. /\ phase = "scan" /\ i < count /\ mid < i /\ count >= 2
      /\ i \in Nat /\ mid \in Nat /\ count \in Nat /\ base \in Nat /\ N \in Nat
      /\ base + count <= N
    BY InputAssumption DEF SortIInv, SortTypeOK, Compare, Scanned
<1>2. /\ base \in Pos /\ InPart(base, AtWork)
      /\ base + i \in Pos /\ InPart(base + i, AtWork)
      /\ base + mid + 1 \in Pos /\ InPart(base + mid + 1, AtWork)
      /\ \A r \in 1..i : base + r \in Pos
    BY <1>1 DEF Pos, InPart, AtWork
<1>3. a \in [Pos -> Elems] /\ OrderedIn(a) /\ IsPermuted(a)
    BY PermutedNow DEF SortIInv, SortTypeOK, Pos, InOrder, OrderedIn
<1>4. /\ a' \in [Pos -> Elems]
      /\ OrderedIn(a')
      /\ IsPermuted(a')
    <2>1. a' = a \/ a' = Swap(a, base + mid + 1, base + i)
        BY DEF Compare
    <2> QED
        BY <1>2, <1>3, <2>1, SwapFacts, SwapInOrder, SwapPermutes DEF SortIInv
<1>5. PartsApart' /\ InOrder' /\ Permuted'
    BY <1>4, SamePartsStep DEF Compare
<1>6. SortTypeOK'
    BY <1>1, <1>4 DEF SortIInv, SortTypeOK, Compare, Pos
<1>7. AllSorted'
    BY DEF SortIInv, Compare, AllSorted
<1>8. /\ \A r \in 1..mid : Greater(a[base], a[base + r])
      /\ \A r \in (mid + 1)..(i - 1) : ~Greater(a[base], a[base + r])
    BY <1>1 DEF SortIInv, Scanned
<1>9. Scanned'
    <2>1. CASE ~Greater(a[base], a[base + i])
        <3>1. a' = a /\ mid' = mid /\ i' = i + 1 /\ base' = base /\ count' = count
            BY <2>1 DEF Compare
        <3>2. \A r \in (mid + 1)..i : ~Greater(a[base], a[base + r])
            BY <1>1, <1>8, <2>1
        <3> QED
            BY <1>1, <1>8, <3>1, <3>2 DEF Scanned
    <2>2. CASE Greater(a[base], a[base + i])
        <3>1. mid' = mid + 1 /\ i' = i + 1 /\ base' = base /\ count' = count
            BY <2>2 DEF Compare
        <3>2. CASE i = mid + 1
            <4>1. a' = a
                BY <2>2, <3>2 DEF Compare
            <4>2. \A r \in 1..(mid + 1) : Greater(a[base], a[base + r])
                BY <1>1, <1>8, <2>2, <3>2
            <4> QED
                BY <1>1, <3>1, <3>2, <4>1, <4>2 DEF Scanned
        <3>3. CASE i # mid + 1
            <4>1. a' = Swap(a, base + mid + 1, base + i)
                BY <2>2, <3>3 DEF Compare
            <4>2. /\ a'[base + mid + 1] = a[base + i]
                  /\ a'[base + i] = a[base + mid + 1]
                  /\ \A r \in Pos \ {base + mid + 1, base + i} : a'[r] = a[r]
                BY <1>2, <1>3, <4>1, SwapFacts
            <4>3. a'[base] = a[base]
                BY <1>1, <1>2, <4>2
            <4>4. ASSUME NEW r \in 1..(mid + 1) PROVE Greater(a'[base], a'[base + r])
                <5>1. CASE r = mid + 1
                    <6>1. base + r = base + mid + 1
                        BY <1>1, <5>1
                    <6> QED
                        BY <2>2, <4>2, <4>3, <6>1
                <5>2. CASE r \in 1..mid
                    <6>1. base + r \in Pos \ {base + mid + 1, base + i}
                        BY <1>1, <1>2, <5>2
                    <6> QED
                        BY <1>8, <4>2, <4>3, <5>2, <6>1
                <5> QED
                    BY <1>1, <5>1, <5>2
            <4>5. ASSUME NEW r \in (mid + 2)..i PROVE ~Greater(a'[base], a'[base + r])
                <5>1. CASE r = i
                    <6>1. mid + 1 \in (mid + 1)..(i - 1) /\ base + (mid + 1) = base + mid + 1
                        BY <1>1, <3>3
                    <6>2. ~Greater(a[base], a[base + mid + 1])
                        BY <1>8, <6>1
                    <6> QED
                        BY <4>2, <4>3, <5>1, <6>2
                <5>2. CASE r \in (mid + 2)..(i - 1)
                    <6>1. base + r \in Pos \ {base + mid + 1, base + i}
                        BY <1>1, <1>2, <5>2
                    <6>2. r \in (mid + 1)..(i - 1)
                        BY <1>1, <5>2
                    <6> QED
                        BY <1>8, <4>2, <4>3, <6>1, <6>2
                <5> QED
                    BY <1>1, <5>1, <5>2
            <4> QED
                BY <1>1, <3>1, <4>4, <4>5 DEF Scanned
        <3> QED
            BY <3>2, <3>3
    <2> QED
        BY <2>1, <2>2
<1> QED
    BY <1>5, <1>6, <1>7, <1>9 DEF SortIInv

\* A part that is returned from is too short to be out of order.
LEMMA ReturnStep == SortIInv /\ Return => SortIInv'
<1> SUFFICES ASSUME SortIInv, Return PROVE SortIInv'
    OBVIOUS
<1>1. /\ base \in Nat /\ count \in Nat /\ N \in Nat /\ count < 2
      /\ stack \in Seq(Part) /\ Len(stack) \in Nat
    BY InputAssumption, LenProperties DEF SortIInv, SortTypeOK, Return
<1>2. ASSUME NEW p \in Pos, NEW q \in Pos, p < q, Together(p, q)
      PROVE  \E k \in 1..Len(stack) : InPart(p, stack[k]) /\ InPart(q, stack[k])
    <2>1. ~(InPart(p, AtWork) /\ InPart(q, AtWork))
        BY <1>1, <1>2 DEF InPart, AtWork, Pos
    <2> QED
        BY <1>2, <2>1 DEF Together
<1>3. Permuted'
    BY DEF SortIInv, Permuted, Return
<1>4. Scanned'
    BY DEF Return, Scanned
<1>5. CASE stack = << >>
    <2>1. UNCHANGED <<a, input, base, count, i, mid, stack>> /\ phase' = "done"
        BY <1>5 DEF Return
    <2>2. SortTypeOK'
        BY <2>1 DEF SortIInv, SortTypeOK
    <2>3. PartsApart' /\ AllSorted'
        BY <1>1, <1>5, <2>1 DEF SortIInv, PartsApart, AtWork, Apart, AllSorted
    <2>4. InOrder'
        BY <2>1 DEF SortIInv, InOrder, Together, AtWork, InPart
    <2> QED
        BY <1>3, <1>4, <2>2, <2>3, <2>4 DEF SortIInv
<1>6. CASE stack # << >>
    <2> DEFINE top == Len(stack)
    <2>1. top \in Nat /\ top >= 1 /\ top \in 1..Len(stack)
        BY <1>1, <1>6, EmptySeq, LenProperties
    <2>2. /\ base' = stack[top].base /\ count' = stack[top].count
          /\ stack' = SubSeq(stack, 1, top - 1)
          /\ UNCHANGED <<a, input, phase, i, mid>>
        BY <1>6 DEF Return
    <2>3. \A k \in 1..Len(stack) : stack[k] \in Part
        BY <1>1, ElementOfSeq
    <2>4. /\ stack' \in Seq(Part)
          /\ Len(stack') = top - 1
          /\ \A k \in 1..(top - 1) : stack'[k] = stack[k]
        <3>1. \A k \in 1..(top - 1) : stack[k] \in Part
            BY <2>1, <2>3
        <3>2. /\ SubSeq(stack, 1, top - 1) \in Seq(Part)
              /\ Len(SubSeq(stack, 1, top - 1)) =
                    IF 1 <= top - 1 THEN (top - 1) - 1 + 1 ELSE 0
              /\ \A k \in 1..((top - 1) - 1 + 1) :
                    SubSeq(stack, 1, top - 1)[k] = stack[1 + k - 1]
            <4> HIDE DEF top
            <4>1. 1 \in Int /\ top - 1 \in Int
                BY <2>1
            <4> QED
                BY <3>1, <4>1, SubSeqProperties
        <3> HIDE DEF top
        <3> QED
            BY <2>1, <2>2, <3>2
    <2>5. AtWork' = stack[top]
        BY <2>1, <2>2, <2>3 DEF AtWork, Part
    <2> HIDE DEF top
    <2>6. SortTypeOK'
        <3>1. stack[top] \in Part /\ stack[top].base + stack[top].count <= N
            BY <2>1, <2>3 DEF SortIInv, SortTypeOK
        <3>2. base' \in 0..N /\ count' \in 0..N /\ base' + count' <= N
            BY <2>2, <3>1 DEF Part
        <3>3. \A k \in 1..Len(stack') : stack'[k].base + stack'[k].count <= N
            <4> SUFFICES ASSUME NEW k \in 1..Len(stack')
                         PROVE  stack'[k].base + stack'[k].count <= N
                OBVIOUS
            <4>1. k \in 1..(top - 1) /\ k \in 1..Len(stack)
                BY <2>1, <2>4 DEF top
            <4> QED
                BY <2>4, <4>1 DEF SortIInv, SortTypeOK
        <3> QED
            BY <2>2, <2>4, <3>2, <3>3 DEF SortIInv, SortTypeOK
    <2>7. PartsApart'
        <3>1. ASSUME NEW k \in 1..(top - 1) PROVE Apart(AtWork', stack'[k])
            <4>1. k \in 1..Len(stack) /\ k < top /\ stack'[k] = stack[k]
                BY <2>1, <2>4 DEF top
            <4>2. Apart(stack[k], stack[top])
                BY <2>1, <4>1 DEF SortIInv, PartsApart
            <4> QED
                BY <2>5, <4>1, <4>2 DEF Apart
        <3>2. ASSUME NEW j \in 1..(top - 1), NEW k \in 1..(top - 1), j < k
              PROVE  Apart(stack'[j], stack'[k])
            <4>1. j \in 1..Len(stack) /\ k \in 1..Len(stack)
                BY <2>1 DEF top
            <4> QED
                BY <2>4, <3>2, <4>1 DEF SortIInv, PartsApart
        <3> QED
            BY <2>4, <3>1, <3>2 DEF PartsApart, Apart
    <2>8. InOrder'
        <3> SUFFICES ASSUME NEW p \in Pos, NEW q \in Pos, p < q, Greater(a'[p], a'[q])
                     PROVE  Together(p, q)'
            BY DEF InOrder
        <3>1. Together(p, q)
            BY <2>2 DEF SortIInv, InOrder
        <3>2. PICK k \in 1..Len(stack) : InPart(p, stack[k]) /\ InPart(q, stack[k])
            BY <1>2, <3>1
        <3>3. CASE k = top
            BY <2>5, <3>2, <3>3 DEF Together, InPart
        <3>4. CASE k # top
            <4>1. k \in 1..(top - 1) /\ stack'[k] = stack[k]
                BY <2>1, <2>4, <3>4 DEF top
            <4> QED
                BY <2>4, <3>2, <4>1 DEF Together, InPart
        <3> QED
            BY <3>3, <3>4
    <2>9. AllSorted'
        BY <2>2 DEF AllSorted, Return
    <2> QED
        BY <1>3, <1>4, <2>6, <2>7, <2>8, <2>9 DEF SortIInv
<1> QED
    BY <1>5, <1>6

\* The cut puts the pivot between the elements smaller than it and the others.
LEMMA CutArray ==
    ASSUME SortIInv, Cut
    PROVE  /\ a' \in [Pos -> Elems] /\ IsPermuted(a') /\ OrderedIn(a')
           /\ a'[base + mid] \in Elems
           /\ \A r \in 0..(mid - 1) : Greater(a'[base + mid], a'[base + r])
           /\ \A r \in (mid + 1)..(count - 1) : ~Greater(a'[base + mid], a'[base + r])
<1>1. /\ phase = "scan" /\ i = count /\ mid < i /\ count >= 2
      /\ i \in Nat /\ mid \in Nat /\ count \in Nat /\ base \in Nat /\ N \in Nat
      /\ base + count <= N
    BY InputAssumption DEF SortIInv, SortTypeOK, Cut, Scanned
<1>2. /\ base \in Pos /\ InPart(base, AtWork)
      /\ base + mid \in Pos /\ InPart(base + mid, AtWork)
      /\ \A r \in 0..(count - 1) : base + r \in Pos
    BY <1>1 DEF Pos, InPart, AtWork
<1>3. a \in [Pos -> Elems] /\ OrderedIn(a) /\ IsPermuted(a)
    BY PermutedNow DEF SortIInv, SortTypeOK, Pos, InOrder, OrderedIn
<1>4. /\ \A r \in 1..mid : Greater(a[base], a[base + r])
      /\ \A r \in (mid + 1)..(count - 1) : ~Greater(a[base], a[base + r])
    BY <1>1 DEF SortIInv, Scanned
<1>5. CASE mid = 0
    <2>1. a' = a
        BY <1>5 DEF Cut
    <2>2. base + mid = base
        BY <1>1, <1>5
    <2>3. \A r \in 0..(mid - 1) : FALSE
        BY <1>5
    <2> QED
        BY <1>2, <1>3, <1>4, <2>1, <2>2, <2>3
<1>6. CASE mid > 0
    <2>1. a' = Swap(a, base, base + mid)
        BY <1>6 DEF Cut
    <2>2. a' \in [Pos -> Elems] /\ IsPermuted(a') /\ OrderedIn(a')
        BY <1>2, <1>3, <2>1, SwapFacts, SwapInOrder, SwapPermutes DEF SortIInv
    <2>3. /\ a'[base] = a[base + mid]
          /\ a'[base + mid] = a[base]
          /\ \A r \in Pos \ {base, base + mid} : a'[r] = a[r]
        BY <1>2, <1>3, <2>1, SwapFacts
    <2>4. ASSUME NEW r \in 0..(mid - 1) PROVE Greater(a[base], a'[base + r])
        <3>1. CASE r = 0
            <4>1. base + r = base /\ mid \in 1..mid
                BY <1>1, <1>6, <3>1
            <4> QED
                BY <1>4, <2>3, <4>1
        <3>2. CASE r # 0
            <4>1. r \in 1..mid /\ base + r \in Pos \ {base, base + mid}
                BY <1>1, <1>2, <3>2
            <4> QED
                BY <1>4, <2>3, <4>1
        <3> QED
            BY <3>1, <3>2
    <2>5. ASSUME NEW r \in (mid + 1)..(count - 1) PROVE ~Greater(a[base], a'[base + r])
        <3>1. base + r \in Pos \ {base, base + mid}
            BY <1>1, <1>2
        <3> QED
            BY <1>4, <2>3, <3>1
    <2> QED
        BY <1>2, <2>2, <2>3, <2>4, <2>5
<1> QED
    BY <1>1, <1>5, <1>6

\* The parts after a cut: the two made of the part at work, and the others.
Later == IF 2 * mid < count THEN Right(mid) ELSE Left(mid)

LEMMA CutParts ==
    ASSUME SortIInv, Cut
    PROVE  /\ Left(mid) \in Part /\ Right(mid) \in Part
           /\ base + mid <= N /\ base + mid + 1 + (count - (mid + 1)) <= N
           /\ \/ AtWork' = Left(mid) /\ Later = Right(mid)
              \/ AtWork' = Right(mid) /\ Later = Left(mid)
           /\ base' = AtWork'.base /\ count' = AtWork'.count
           /\ stack' \in Seq(Part) /\ Len(stack) \in Nat
           /\ Len(stack') = Len(stack) + 1
           /\ \A k \in 1..Len(stack) : stack'[k] = stack[k] /\ stack[k] \in Part
           /\ stack'[Len(stack) + 1] = Later
<1>1. /\ mid < count
      /\ mid \in Nat /\ count \in Nat /\ base \in Nat /\ N \in Nat
      /\ base + count <= N
    BY InputAssumption DEF SortIInv, SortTypeOK, Cut, Scanned
<1>2. Left(mid) \in Part /\ Right(mid) \in Part
    BY <1>1 DEF Left, Right, Part
<1>3. /\ base + mid <= N /\ base + mid + 1 + (count - (mid + 1)) <= N
    BY <1>1
<1>4. \/ AtWork' = Left(mid) /\ Later = Right(mid)
      \/ AtWork' = Right(mid) /\ Later = Left(mid)
    <2>1. CASE 2 * mid < count
        <3>1. base' = Left(mid).base /\ count' = Left(mid).count
            BY <2>1 DEF Cut
        <3> QED
            BY <2>1, <3>1 DEF AtWork, Left, Later
    <2>2. CASE ~(2 * mid < count)
        <3>1. base' = Right(mid).base /\ count' = Right(mid).count
            BY <2>2 DEF Cut
        <3> QED
            BY <2>2, <3>1 DEF AtWork, Right, Later
    <2> QED
        BY <2>1, <2>2
<1>5. base' = AtWork'.base /\ count' = AtWork'.count
    BY DEF AtWork
<1>6. stack \in Seq(Part) /\ Later \in Part
    BY <1>2, <1>4 DEF SortIInv, SortTypeOK
<1>7. stack' = Append(stack, Later)
    BY DEF Cut, Later
<1>8. \A k \in 1..Len(stack) : stack[k] \in Part
    BY <1>6, ElementOfSeq
<1> HIDE DEF Later
<1>9. /\ stack' \in Seq(Part) /\ Len(stack) \in Nat
      /\ Len(stack') = Len(stack) + 1
      /\ \A k \in 1..Len(stack) : stack'[k] = stack[k]
      /\ stack'[Len(stack) + 1] = Later
    BY <1>6, <1>7, AppendProperties, LenProperties
<1> QED
    BY <1>2, <1>3, <1>4, <1>5, <1>8, <1>9

\* Elements on two sides of the pivot are in order, so the parts can be sorted
\* apart.
LEMMA CutStep == SortIInv /\ Cut => SortIInv'
<1> SUFFICES ASSUME SortIInv, Cut PROVE SortIInv'
    OBVIOUS
<1> DEFINE last == Len(stack) + 1
<1>1. /\ mid < count
      /\ mid \in Nat /\ count \in Nat /\ base \in Nat /\ N \in Nat
      /\ base + count <= N
    BY InputAssumption DEF SortIInv, SortTypeOK, Cut, Scanned
<1>2. /\ \/ AtWork' = Left(mid) /\ stack'[last] = Right(mid)
         \/ AtWork' = Right(mid) /\ stack'[last] = Left(mid)
      /\ Len(stack) \in Nat /\ Len(stack') = last
      /\ \A k \in 1..Len(stack) : stack'[k] = stack[k] /\ stack[k] \in Part
    BY CutParts
<1>3. \A k \in 1..last : k # last => k \in 1..Len(stack)
    BY <1>2
<1> HIDE DEF last
<1>4. SortTypeOK'
    <2>1. base' \in 0..N /\ count' \in 0..N /\ base' + count' <= N
        <3>1. \/ base' = base /\ count' = mid
              \/ base' = base + mid + 1 /\ count' = count - (mid + 1)
            BY <1>2 DEF AtWork, Left, Right
        <3> QED
            BY <1>1, <3>1
    <2>2. stack' \in Seq(Part)
        BY CutParts
    <2>3. \A k \in 1..Len(stack') : stack'[k].base + stack'[k].count <= N
        <3> SUFFICES ASSUME NEW k \in 1..last PROVE stack'[k].base + stack'[k].count <= N
            BY <1>2
        <3>1. CASE k = last
            BY <1>1, <1>2, <3>1 DEF Left, Right
        <3>2. CASE k # last
            BY <1>2, <1>3, <3>2 DEF SortIInv, SortTypeOK
        <3> QED
            BY <3>1, <3>2
    <2>4. a' \in [0..(N - 1) -> Elems]
        BY CutArray DEF Pos
    <2>5. UNCHANGED <<input, i, mid>> /\ phase' = "top"
        BY DEF Cut
    <2> QED
        BY <2>1, <2>2, <2>3, <2>4, <2>5 DEF SortIInv, SortTypeOK
<1>5. Permuted'
    <2>1. UNCHANGED input /\ IsPermuted(a')
        BY CutArray DEF Cut
    <2> QED
        BY <2>1 DEF IsPermuted, Permuted, Pos
<1>6. PartsApart'
    <2>1. Apart(AtWork', stack'[last])
        BY <1>1, <1>2 DEF Apart, Left, Right
    <2>2. ASSUME NEW k \in 1..Len(stack)
          PROVE  Apart(Left(mid), stack[k]) /\ Apart(Right(mid), stack[k])
        <3>1. Apart(AtWork, stack[k]) /\ stack[k] \in Part
            BY <1>2 DEF SortIInv, PartsApart
        <3> QED
            BY <1>1, <3>1 DEF Apart, AtWork, Left, Right, Part
    <2>3. ASSUME NEW k \in 1..last PROVE Apart(AtWork', stack'[k])
        BY <1>2, <1>3, <2>1, <2>2
    <2>4. ASSUME NEW j \in 1..last, NEW k \in 1..last, j < k
          PROVE  Apart(stack'[j], stack'[k])
        <3>1. j \in 1..Len(stack)
            BY <1>2, <2>4 DEF last
        <3>2. CASE k = last
            <4>1. Apart(stack'[last], stack[j])
                BY <1>2, <2>2, <3>1
            <4> QED
                BY <1>2, <3>1, <3>2, <4>1 DEF Apart
        <3>3. CASE k # last
            BY <1>2, <1>3, <2>4, <3>1, <3>3 DEF SortIInv, PartsApart
        <3> QED
            BY <3>2, <3>3
    <2> QED
        BY <1>2, <2>3, <2>4 DEF PartsApart, Apart
<1>7. InOrder'
    <2> SUFFICES ASSUME NEW p \in Pos, NEW q \in Pos, p < q, Greater(a'[p], a'[q])
                 PROVE  Together(p, q)'
        BY DEF InOrder
    <2> DEFINE v == a'[base + mid]
    <2>1. /\ a' \in [Pos -> Elems] /\ OrderedIn(a') /\ v \in Elems
          /\ \A r \in 0..(mid - 1) : Greater(v, a'[base + r])
          /\ \A r \in (mid + 1)..(count - 1) : ~Greater(v, a'[base + r])
        BY CutArray
    <2> HIDE DEF v
    <2>2. Together(p, q)
        BY <2>1 DEF OrderedIn
    <2>3. \A part : (part = Left(mid) \/ part = Right(mid)) /\ InPart(p, part) /\ InPart(q, part)
                        => Together(p, q)'
        <3> SUFFICES ASSUME NEW part, part = Left(mid) \/ part = Right(mid),
                            InPart(p, part), InPart(q, part)
                     PROVE  Together(p, q)'
            OBVIOUS
        <3>1. CASE part = AtWork'
            BY <3>1 DEF Together, InPart
        <3>2. CASE part # AtWork'
            <4>1. part = stack'[last] /\ last \in 1..Len(stack')
                BY <1>2, <3>2 DEF last
            <4> QED
                BY <4>1 DEF Together, InPart
        <3> QED
            BY <3>1, <3>2
    <2>4. CASE InPart(p, AtWork) /\ InPart(q, AtWork)
        <3>1. CASE q < base + mid
            <4>1. InPart(p, Left(mid)) /\ InPart(q, Left(mid))
                BY <1>1, <2>4, <3>1 DEF InPart, AtWork, Left, Pos
            <4> QED
                BY <2>3, <4>1
        <3>2. CASE base + mid < p
            <4>1. InPart(p, Right(mid)) /\ InPart(q, Right(mid))
                BY <1>1, <2>4, <3>2 DEF InPart, AtWork, Right, Pos
            <4> QED
                BY <2>3, <4>1
        <3>3. CASE p <= base + mid /\ base + mid <= q
            <4>1. a'[p] \in Elems /\ a'[q] \in Elems
                BY <2>1
            <4>2. ~Greater(a'[p], v)
                <5>1. CASE p = base + mid
                    BY <2>1, <5>1, GreaterAssumption DEF v
                <5>2. CASE p # base + mid
                    <6>1. p - base \in 0..(mid - 1) /\ p = base + (p - base)
                        BY <1>1, <2>4, <3>3, <5>2 DEF InPart, AtWork, Pos
                    <6>2. Greater(v, a'[p])
                        BY <2>1, <6>1
                    <6> QED
                        BY <2>1, <4>1, <6>2, GreaterAssumption
                <5> QED
                    BY <5>1, <5>2
            <4>3. ~Greater(v, a'[q])
                <5>1. CASE q = base + mid
                    BY <2>1, <5>1, GreaterAssumption DEF v
                <5>2. CASE q # base + mid
                    <6>1. q - base \in (mid + 1)..(count - 1) /\ q = base + (q - base)
                        BY <1>1, <2>4, <3>3, <5>2 DEF InPart, AtWork, Pos
                    <6> QED
                        BY <2>1, <6>1
                <5> QED
                    BY <5>1, <5>2
            <4>4. ~Greater(a'[p], a'[q])
                BY <2>1, <4>1, <4>2, <4>3, GreaterAssumption
            <4> QED
                BY <4>4
        <3> QED
            BY <1>1, <3>1, <3>2, <3>3 DEF Pos
    <2>5. CASE \E k \in 1..Len(stack) : InPart(p, stack[k]) /\ InPart(q, stack[k])
        <3>1. PICK k \in 1..Len(stack) : InPart(p, stack[k]) /\ InPart(q, stack[k])
            BY <2>5
        <3>2. k \in 1..Len(stack') /\ stack'[k] = stack[k]
            BY <1>2 DEF last
        <3> QED
            BY <3>1, <3>2 DEF Together, InPart
    <2> QED
        BY <2>2, <2>4, <2>5 DEF Together
<1>8. Scanned' /\ AllSorted'
    BY DEF Cut, Scanned, AllSorted
<1> QED
    BY <1>4, <1>5, <1>6, <1>7, <1>8 DEF SortIInv

-----------------------------------------------------------------------------
(* The sort                                                                *)

\* At the start the whole array is the part at work.
LEMMA InitHolds == SortInit => SortIInv
<1> SUFFICES ASSUME SortInit PROVE SortIInv
    OBVIOUS
<1>1. /\ a \in [Pos -> Elems] /\ a = input
      /\ \A j, k \in Pos : a[j] = a[k] => j = k
      /\ base = 0 /\ count = N /\ stack = << >> /\ phase = "top" /\ i = 0 /\ mid = 0
    BY InputAssumption DEF SortInit, Pos
<1>2. stack \in Seq(Part) /\ Len(stack) = 0
    BY <1>1, EmptySeq
<1>3. SortTypeOK
    BY <1>1, <1>2, InputAssumption DEF SortTypeOK, Pos
<1>4. Permuted
    BY <1>1 DEF Permuted, Pos
<1>5. \A p \in Pos : InPart(p, AtWork)
    BY <1>1, InputAssumption DEF InPart, AtWork, Pos
<1>6. InOrder
    BY <1>5 DEF InOrder, Together
<1>7. PartsApart /\ Scanned /\ AllSorted
    BY <1>1, <1>2 DEF PartsApart, Scanned, AllSorted
<1> QED
    BY <1>3, <1>4, <1>6, <1>7 DEF SortIInv

\* The invariant holds at every step of the sort.
LEMMA Inductive == SortSpec => []SortIInv
<1>1. SortInit => SortIInv
    BY InitHolds
<1>2. SortIInv /\ [SortNext]_sortvars => SortIInv'
    <2> SUFFICES ASSUME SortIInv, [SortNext]_sortvars PROVE SortIInv'
        OBVIOUS
    <2>1. CASE UNCHANGED sortvars
        <3>1. UNCHANGED <<a, input, phase, base, count, i, mid, stack>>
            BY <2>1 DEF sortvars
        <3>2. SortTypeOK' /\ Permuted' /\ Scanned' /\ AllSorted'
            BY <3>1 DEF SortIInv, SortTypeOK, Permuted, Scanned, AllSorted
        <3>3. PartsApart' /\ InOrder'
            BY <3>1 DEF SortIInv, PartsApart, Apart, AtWork, InOrder, Together, InPart
        <3> QED
            BY <3>2, <3>3 DEF SortIInv
    <2>2. CASE SortNext
        <3>1. Return => SortIInv'
            BY ReturnStep
        <3>2. Pivot => SortIInv'
            BY PivotStep
        <3>3. Compare => SortIInv'
            BY CompareStep
        <3>4. Cut => SortIInv'
            BY CutStep
        <3>5. Finished => SortIInv'
            BY <2>1 DEF Finished
        <3> QED
            BY <2>2, <3>1, <3>2, <3>3, <3>4, <3>5 DEF SortNext, Work
    <2> QED
        BY <2>1, <2>2
<1> QED
    BY <1>1, <1>2, PTL DEF SortSpec

\* The part at work and the parts that wait are always in the array.
THEOREM SortTypeCorrect == SortSpec => []SortTypeOK
<1>1. SortIInv => SortTypeOK
    BY DEF SortIInv
<1> QED
    BY <1>1, Inductive, PTL

\* No element is lost or doubled, at any point of the sort.
THEOREM Permutes == SortSpec => []Permuted
<1>1. SortIInv => Permuted
    BY DEF SortIInv
<1> QED
    BY <1>1, Inductive, PTL

\* When the sort ends the array is in order, whatever its length, its
\* elements and the weak order they are compared with.
THEOREM SortsAll == SortSpec => []Sorts
<1>1. SortIInv => Sorts
    <2> SUFFICES ASSUME SortIInv, phase = "done", NEW p \in Pos, NEW q \in Pos, p < q
                 PROVE  ~Greater(a[p], a[q])
        BY DEF Sorts, Pos
    <2>1. count < 2 /\ Len(stack) = 0
        BY EmptySeq DEF SortIInv, AllSorted
    <2>2. ~(InPart(p, AtWork) /\ InPart(q, AtWork))
        BY <2>1, InputAssumption DEF SortIInv, SortTypeOK, InPart, AtWork, Pos
    <2>3. ~Together(p, q)
        BY <2>1, <2>2 DEF Together
    <2> QED
        BY <2>3 DEF SortIInv, InOrder
<1> QED
    BY <1>1, Inductive, PTL

\* All of it together, as the run checks it.
THEOREM Correct == SortSpec => []SortCorrect
<1>1. SortTypeOK /\ Permuted /\ Sorts => SortCorrect
    BY DEF SortCorrect
<1> QED
    BY <1>1, SortTypeCorrect, Permutes, SortsAll, PTL
=============================================================================
