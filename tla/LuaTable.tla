------------------------------ MODULE LuaTable ------------------------------
(***************************************************************************)
(* The tables of Lua 5.3 (lua_53/src/ltable.c): an array part, and a hash  *)
(* part that is a chained scatter table with Brent's variation, under a    *)
(* program that assigns, clears and traverses and a collector that turns   *)
(* the keys of empty entries into dead ones.                               *)
(*                                                                         *)
(* Keys and values are numbers; Hash tells a key's hash.  A node's next is *)
(* relative, as in the code, and 0 ends a chain.                           *)
(***************************************************************************)
EXTENDS Integers, Sequences, FiniteSets, FiniteSetsExt

CONSTANTS
    IntKeys,      \* integers
    OtherKeys,    \* strings, booleans and references: negative here
    Pointers,     \* the other keys whose hash is taken modulo an odd number
    Collected,    \* the other keys that the collector may find unmarked
    Floats,       \* float keys with an integral value -> that integer
    Hash,         \* other key -> hash
    Values,
    MaxArray, MaxHash,   \* the sizes the program asks for by itself
    MaxInt,       \* MAX_INT, the largest number of type int
    Budget        \* bounds the assignments to keys that are not there

Nil == -1000
Out == -1001         \* at, outside a traversal
Keys == IntKeys \cup OtherKeys

ASSUME KeysAssumption ==
    /\ IntKeys \subseteq Nat /\ OtherKeys \subseteq (Int \ Nat) \ {Nil, Out}
    /\ Pointers \subseteq OtherKeys /\ Collected \subseteq OtherKeys
    /\ Hash \in [OtherKeys -> Nat]
    /\ \A k \in DOMAIN Floats : k \notin Keys \cup Nat /\ Floats[k] \in IntKeys
    /\ MaxArray \in Nat /\ MaxHash \in Nat /\ Budget \in Nat /\ MaxInt \in Nat

VARIABLES
    t,       \* the table
    at,      \* the key next was last given in a traversal; Nil at its start
    news     \* new keys so far

vars == <<t, at, news>>

-----------------------------------------------------------------------------
(* Looking up                                                              *)

SizeNode(h) == Cardinality(DOMAIN h.node)
IsInt(k) == k >= 0
Normal(k) == IF k \in DOMAIN Floats THEN Floats[k] ELSE k

MainPosition(h, k) ==
    IF IsInt(k) THEN k % SizeNode(h)
    ELSE IF k \in Pointers THEN Hash[k] % (IF SizeNode(h) = 1 THEN 1 ELSE SizeNode(h) - 1)
    ELSE Hash[k] % SizeNode(h)

\* The first node of k's chain that has k, dead or not if evenDead, or None.
None == -1
InChain(h, k, evenDead) ==
    LET from[n \in DOMAIN h.node] ==
            IF h.node[n].key = k /\ (evenDead \/ ~h.node[n].dead) THEN n
            ELSE IF h.node[n].next = 0 THEN None ELSE from[n + h.node[n].next]
    IN  from[MainPosition(h, k)]

InArray(h, k) == IsInt(k) /\ k \in DOMAIN h.arr
NodeOf(h, k) == InChain(h, k, FALSE)

\* luaH_get.
Get(h, key) ==
    LET k == Normal(key)
        At(n) == IF n = None THEN Nil ELSE h.node[n].val
    IN  IF InArray(h, k) THEN h.arr[k] ELSE At(NodeOf(h, k))

-----------------------------------------------------------------------------
(* Growing                                                                 *)

twoto[i \in Nat] == IF i = 0 THEN 1 ELSE 2 * twoto[i - 1]
CeilLog2(n) == CHOOSE i \in 0..n : twoto[i] >= n /\ (i = 0 \/ twoto[i - 1] < n)
CeilPow2(n) == twoto[CeilLog2(n)]

EmptyNode == [key |-> Nil, val |-> Nil, next |-> 0, dead |-> FALSE]

\* The dummy node stands for a hash part without nodes.
SetNodeVector(h, size) ==
    IF size = 0
    THEN [h EXCEPT !.node = [n \in {0} |-> EmptyNode], !.dummy = TRUE, !.lastfree = 0]
    ELSE [h EXCEPT !.node = [n \in 0..(CeilPow2(size) - 1) |-> EmptyNode],
                   !.dummy = FALSE, !.lastfree = CeilPow2(size)]

SetArrayVector(h, size) ==
    [h EXCEPT !.arr = [i \in 1..size |-> IF i \in DOMAIN @ THEN @[i] ELSE Nil]]

\* Free places are looked for from the end down, and never twice.
FreePos(h) ==
    LET free == {n \in DOMAIN h.node : n < h.lastfree /\ h.node[n].key = Nil}
    IN  IF free = {} THEN None ELSE Max(free)
TakeFreePos(h) == [h EXCEPT !.lastfree = IF FreePos(h) = None THEN 0 ELSE FreePos(h)]

\* Keys that an array part can have.
Indices(keys) == {k \in keys : IsInt(k) /\ k > 0}

\* nums: the slices from 2^(i-1) + 1 to 2^i of the keys a rehash counts, as sets.
\* The array part is counted slice by slice (numusearray), the keys of nodes
\* and the key to come by their logarithms (numusehash, countint).
Counted(used, others) ==
    [i \in 0..Cardinality(used \cup Indices(others)) |->
        {k \in used : k <= twoto[i] /\ (i > 0 => k > twoto[i - 1])}
            \cup {k \in Indices(others) : CeilLog2(k) = i}]

\* Mutant: exactly half of the slots is enough.
ComputeSizesHalf(nums, pna) ==
    LET UpTo(i) == UNION {nums[j] : j \in 0..i}
        visited == {i \in 0..pna : pna > twoto[i] \div 2}
        filled == {i \in visited : nums[i] # {} /\ Cardinality(UpTo(i)) >= twoto[i] \div 2}
    IN  IF filled = {} THEN [optimal |-> 0, na |-> 0]
        ELSE [optimal |-> twoto[Max(filled)], na |-> Cardinality(UpTo(Max(filled)))]

\* The last slice to which more than half of the slots would be in use, of
\* those that all pna keys could fill so far; and the keys that there are then.
ComputeSizes(nums, pna) ==
    LET UpTo(i) == UNION {nums[j] : j \in 0..i}
        visited == {i \in 0..pna : pna > twoto[i] \div 2}
        filled == {i \in visited : nums[i] # {} /\ Cardinality(UpTo(i)) > twoto[i] \div 2}
    IN  IF filled = {} THEN [optimal |-> 0, na |-> 0]
        ELSE [optimal |-> twoto[Max(filled)], na |-> Cardinality(UpTo(Max(filled)))]

\* Mutant: the rest of the chain does not go with the node that moves.
MoveCollidingLosesNext(h, mp, f) ==
    LET start == MainPosition(h, h.node[mp].key)
        before[n \in DOMAIN h.node] ==
            IF n + h.node[n].next = mp THEN n ELSE before[n + h.node[n].next]
    IN  [h EXCEPT !.node[before[start]].next = f - before[start],
                  !.node[f] = [h.node[mp] EXCEPT !.next = 0],
                  !.node[mp] = [@ EXCEPT !.val = Nil, !.next = 0]]

\* The node that is not in its main position moves to the free place f.
MoveColliding(h, mp, f) ==
    LET start == MainPosition(h, h.node[mp].key)
        before[n \in DOMAIN h.node] ==
            IF n + h.node[n].next = mp THEN n ELSE before[n + h.node[n].next]
        next == h.node[mp].next
    IN  [h EXCEPT !.node[before[start]].next = f - before[start],
                  !.node[f] = [h.node[mp] EXCEPT !.next = IF next = 0 THEN 0 ELSE next + mp - f],
                  !.node[mp] = [@ EXCEPT !.val = Nil, !.next = 0]]

\* The free place f becomes the second of the chain of mp.
ChainAfter(h, mp, f) ==
    LET next == h.node[mp].next
    IN  [h EXCEPT !.node[f].next = IF next = 0 THEN 0 ELSE mp + next - f,
                  !.node[mp].next = f - mp]

PutNode(h, n, k, v) ==
    [h EXCEPT !.node[n] = [@ EXCEPT !.key = k, !.val = v, !.dead = FALSE]]

\* luaH_newkey where there is a place: k goes to its main position, or a free
\* one if a node that belongs there has it.
HasPlace(h, k) == (h.node[MainPosition(h, k)].val = Nil /\ ~h.dummy) \/ FreePos(h) # None
Insert(h, k, v) ==
    LET mp == MainPosition(h, k)
        f == FreePos(h)
    IN  IF h.node[mp].val = Nil /\ ~h.dummy THEN PutNode(h, mp, k, v)
        ELSE IF MainPosition(h, h.node[mp].key) # mp
        THEN PutNode(MoveColliding(TakeFreePos(h), mp, f), mp, k, v)
        ELSE PutNode(ChainAfter(TakeFreePos(h), mp, f), f, k, v)

\* luaH_set and the assignment to what it returns.
Put(h, k, v) ==
    IF InArray(h, k) THEN [h EXCEPT !.arr[k] = v]
    ELSE IF NodeOf(h, k) # None THEN [h EXCEPT !.node[NodeOf(h, k)].val = v]
    ELSE Insert(h, k, v)

\* The array part, then the nodes.
EntryAt(h, i) ==
    IF i <= Len(h.arr) THEN [key |-> i, val |-> h.arr[i]]
    ELSE [key |-> h.node[i - Len(h.arr) - 1].key, val |-> h.node[i - Len(h.arr) - 1].val]

\* What leaves the array part goes first, then the nodes, last to first.  The
\* new parts have a place for each.
Resize(h, nasize, nhsize) ==
    LET old == Len(h.arr)
        gone == IF nasize < old THEN old - nasize ELSE 0
        size == SizeNode(h)
        Entry(i) == EntryAt(h, IF i <= gone THEN nasize + i ELSE old + 1 + gone + size - i)
        into[i \in 0..gone + size] ==
            IF i = 0 THEN SetNodeVector(SetArrayVector(h, nasize), nhsize)
            ELSE IF Entry(i).val = Nil THEN into[i - 1]
            ELSE Put(into[i - 1], Entry(i).key, Entry(i).val)
    IN  into[gone + size]

\* Sizes for the keys in use and the one to come.
Rehash(h, k) ==
    LET used == {i \in DOMAIN h.arr : h.arr[i] # Nil}
        hashed == {h.node[n].key : n \in {m \in DOMAIN h.node : h.node[m].val # Nil}}
        others == hashed \cup {k}
        sizes == ComputeSizes(Counted(used, others), Cardinality(used \cup Indices(others)))
    IN  Resize(h, sizes.optimal, Cardinality(used \cup others) - sizes.na)

\* The same when there may be no place: the table is rehashed then.
Fits(h, k) == InArray(h, k) \/ NodeOf(h, k) # None \/ HasPlace(h, k)
SetKey(h, k, v) ==
    IF Fits(h, k) THEN Put(h, k, v)
    ELSE Put(Rehash(TakeFreePos(h), k), k, v)

-----------------------------------------------------------------------------
(* Traversal and length                                                    *)

\* Mutant: a dead key is not found.
FindNodeAlive(h, k) == NodeOf(h, k)

\* A dead key may still be the place a traversal has come to.
FindNode(h, k) == InChain(h, k, TRUE)

\* The place of a key in traversals, array part first; -1 for "invalid key".
FindIndex(h, k) ==
    IF k = Nil THEN 0
    ELSE IF InArray(h, k) THEN k
    ELSE IF FindNode(h, k) = None THEN None ELSE FindNode(h, k) + 1 + Len(h.arr)

After(h, i) ==
    {j \in (i + 1)..(Len(h.arr) + SizeNode(h)) : EntryAt(h, j).val # Nil}

\* Between a key that is there (or 0) and one that is not.
Bisect(h, i0, j0) ==
    LET between[p \in (0..j0) \X (0..j0)] ==
            LET m == (p[1] + p[2]) \div 2
            IN  IF p[2] - p[1] <= 1 THEN p[1]
                ELSE IF Get(h, m) = Nil THEN between[<<p[1], m>>] ELSE between[<<m, p[2]>>]
    IN  between[<<i0, j0>>]

\* From 1 on, one after the other.
LinearSearch(h) == Min({i \in 1..(Len(h.arr) + SizeNode(h) + 1) : Get(h, i) = Nil}) - 1

\* Doubling until a key is missing, then halving; a key that cannot be doubled
\* was put there with bad purposes.
UnboundSearch(h, j) ==
    LET Probe(n) == twoto[n] * (j + 1)
        first == CHOOSE n \in 0..SizeNode(h) :
                    Get(h, Probe(n)) = Nil /\ \A m \in 0..(n - 1) : Get(h, Probe(m)) # Nil
        last == IF first = 0 THEN j ELSE Probe(first - 1)
    IN  IF first # 0 /\ last > MaxInt \div 2 THEN LinearSearch(h)
        ELSE Bisect(h, last, Probe(first))

\* luaH_getn.
GetN(h) ==
    LET j == Len(h.arr)
    IN  IF j > 0 /\ h.arr[j] = Nil THEN Bisect(h, 0, j)
        ELSE IF h.dummy THEN j ELSE UnboundSearch(h, j)

-----------------------------------------------------------------------------
(* The program                                                             *)

Init ==
    /\ t = SetNodeVector([arr |-> << >>, node |-> << >>, dummy |-> TRUE, lastfree |-> 0], 0)
    /\ at = Out
    /\ news = 0

\* lua_createtable sizes a new table.
Create(na, nh) ==
    /\ news = 0 /\ t.arr = << >> /\ t.dummy /\ na + nh > 0 /\ na * nh = 0
    /\ t' = Resize(t, na, nh)
    /\ UNCHANGED <<at, news>>

\* An assignment.  In a traversal the program may not add keys (manual, next).
Assign(key, v) ==
    LET k == Normal(key) IN
    /\ IF Get(t, k) # Nil THEN news' = news
       ELSE at = Out /\ news < Budget /\ news' = news + 1
    /\ t' = SetKey(t, k, v)
    /\ UNCHANGED at

\* OP_SETLIST makes room for the items of a constructor.
GrowArray(n) ==
    /\ at = Out /\ n > Len(t.arr)
    /\ t' = Resize(t, n, IF t.dummy THEN 0 ELSE SizeNode(t))
    /\ UNCHANGED <<at, news>>

\* The collector: the key of an empty entry dies.
KeyDies(n) ==
    /\ t.node[n].key \in Collected /\ t.node[n].val = Nil /\ ~t.node[n].dead
    /\ t' = [t EXCEPT !.node[n].dead = TRUE]
    /\ UNCHANGED <<at, news>>

BeginTraversal == at = Out /\ at' = Nil /\ UNCHANGED <<t, news>>

\* luaH_next.
NextEntry ==
    /\ at # Out
    /\ LET i == FindIndex(t, at)
       IN  /\ i # None
           /\ at' = IF After(t, i) = {} THEN Out ELSE EntryAt(t, Min(After(t, i))).key
    /\ UNCHANGED <<t, news>>

Next ==
    \/ \E na \in 0..MaxArray, nh \in 0..MaxHash : Create(na, nh)
    \/ \E key \in Keys \cup DOMAIN Floats, v \in Values \cup {Nil} : Assign(key, v)
    \/ \E n \in 1..MaxArray : GrowArray(n)
    \/ \E n \in DOMAIN t.node : KeyDies(n)
    \/ BeginTraversal
    \/ NextEntry

Spec == Init /\ [][Next]_vars

-----------------------------------------------------------------------------
(* Properties                                                              *)

\* Sizes are powers of two, chains stay inside the hash part and the dummy
\* node is never written.
TypeOK ==
    /\ DOMAIN t.node = 0..(SizeNode(t) - 1)
    /\ CeilPow2(SizeNode(t)) = SizeNode(t)
    /\ \A n \in DOMAIN t.node : n + t.node[n].next \in DOMAIN t.node
    /\ t.lastfree \in 0..SizeNode(t)
    /\ t.dummy => t.node = [n \in {0} |-> EmptyNode]
    /\ at \in Keys \cup {Nil, Out}
    /\ news \in 0..Budget

Contents == [k \in Keys |-> Get(t, k)]
Pending == IF at = Out THEN {}
           ELSE IF FindIndex(t, at) = None THEN Keys
           ELSE {EntryAt(t, j).key : j \in After(t, FindIndex(t, at))}

Map == INSTANCE LuaMap WITH map <- Contents, todo <- Pending, busy <- at # Out

\* However nodes move, a table is a map; and a traversal comes to every key
\* that stays exactly once, though entries are cleared and their keys die.
ImplementsMap == Map!Spec

\* Nothing in the nodes but what looking up finds.
NoStrayEntry ==
    \A n \in DOMAIN t.node : t.node[n].val # Nil =>
        ~t.node[n].dead /\ ~InArray(t, t.node[n].key) /\ NodeOf(t, t.node[n].key) = n

\* The length is a border: the last of the keys from 1 on, in one of the ways
\* to break off where keys are missing.
IsBorder ==
    LET n == GetN(t)
    IN  (n = 0 \/ Get(t, n) # Nil) /\ Get(t, n + 1) = Nil

\* Nothing of its layout leads a search astray.
TableSound == TypeOK /\ NoStrayEntry /\ IsBorder

MoreThanHalf(h, n) == 2 * Cardinality({k \in IntKeys : 0 < k /\ k <= n /\ Get(h, k) # Nil}) > n
WellSized(h) ==
    /\ Len(h.arr) # 0 => MoreThanHalf(h, Len(h.arr))
    /\ \A i \in 0..(Len(h.arr) + SizeNode(h)) : twoto[i] > Len(h.arr) => ~MoreThanHalf(h, twoto[i])

\* A key for which there was no place makes the table rehash: then the array
\* part has the largest size, of those that are powers of two, with more than
\* half of the slots in use (ltable.c, at its top), however the keys were
\* counted.
ArrayOptimal == [][\A k \in Keys : ~Fits(t, k) /\ Get(t', k) # Nil => WellSized(t')]_vars

-----------------------------------------------------------------------------
(* The keys of run table: six that collide in every small hash part, and a *)
(* float that is an integer.                                               *)

MCIntKeys == {0, 1, 2, 3}
MCOther == {-10, -11, -12}
MCHash == [k \in MCOther |-> CASE k = -10 -> 1 [] k = -11 -> 5 [] k = -12 -> 3]
MCPointers == {-12}
MCCollected == {-11, -12}
MCFloats == [k \in {-21} |-> 1]
=============================================================================
