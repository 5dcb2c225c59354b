--------------------------- MODULE LuaTableProofs ---------------------------
(***************************************************************************)
(* Proofs about the tables of Lua (LuaTable, from ltable.c) and about the  *)
(* table of its short strings (LuaStringTable, from lstring.c).            *)
(*                                                                         *)
(* First the string table: PoolSpec keeps one object per text, in the      *)
(* bucket its hash tells.  Then tables: Sound is what holds of their       *)
(* layout between any two operations; each operation is shown to keep it   *)
(* and to change what looking up finds as it should; TInv is the inductive *)
(* invariant of Spec made of it; the theorems are at the end.              *)
(***************************************************************************)
EXTENDS LuaTable, LuaStringTable, FiniteSetTheorems, WellFoundedInduction, TLAPS

-----------------------------------------------------------------------------
(* The table of short strings.                                             *)

LEMMA LeastOne ==
    ASSUME NEW S \in SUBSET Nat, S # {}
    PROVE  LeastOf(S) \in S
<1>1. PICK m \in S : \A n \in S : ~(<<n, m>> \in OpToRel(<, Nat))
    BY NatLessThanWellFounded, WFMin
<1>2. \A n \in S : ~(n < m)
    BY <1>1 DEF OpToRel
<1>3. \A n \in S : m <= n
    BY <1>2
<1> QED BY <1>3 DEF LeastOf

Buckets(p, n) == n \in Nat \ {0} /\ p.hash \in [0..n - 1 -> SUBSET Addresses]

\* Types of a pool.
PoolTyped(p) ==
    /\ p = [str |-> p.str, hash |-> p.hash, nuse |-> p.nuse, cache |-> p.cache]
    /\ p.str \in [Objects(p) -> [key : Texts, color : 0..2]]
    /\ Objects(p) \subseteq Addresses
    /\ \E n : Buckets(p, n)
    /\ p.cache \in [Rows -> [1..Ways -> Objects(p)]]

\* A string for a text, in the bucket of its hash, and counted; Message is fixed.
Unique(p) == \A a, b \in Objects(p) : p.str[a].key = p.str[b].key => a = b
Hashed(p) == \A h \in DOMAIN p.hash : p.hash[h] = {a \in Objects(p) : Bucket(p, p.str[a].key) = h}
CountRight(p) == p.nuse = Cardinality(Objects(p))
MessageKept(p) == memerrmsg \in Objects(p) /\ p.str[memerrmsg] = [key |-> Message, color |-> Black]
Sane(p) == PoolTyped(p) /\ Unique(p) /\ Hashed(p) /\ CountRight(p) /\ MessageKept(p)

\* A string that is to be swept may have either colour, the others are of the
\* current one; nothing within the reach of the program has the other one.
Reached(p, h) == h \cup {p.cache[r][w] : r \in Rows, w \in 1..Ways}
Coloured(p, w, s) ==
    /\ s \subseteq Objects(p) \ {memerrmsg}
    /\ \A a \in Objects(p) \ {memerrmsg} : a \in s \/ p.str[a].color = w
Alive(p, w, h) == \A a \in Reached(p, h) : a \in Objects(p) /\ p.str[a].color # 1 - w
Good(p, w, s, h) == Sane(p) /\ Coloured(p, w, s) /\ Alive(p, w, h)
NotOver(p) == p.nuse <= Size(p)

PoolInv ==
    /\ white \in {0, 1} /\ sweeping \in BOOLEAN /\ (~sweeping => sweep = {})
    /\ Good(pool, white, sweep, held) /\ NotOver(pool)

-----------------------------------------------------------------------------
LEMMA RecordOf ==
    ASSUME NEW p, p = [str |-> p.str, hash |-> p.hash, nuse |-> p.nuse, cache |-> p.cache], NEW x
    PROVE  /\ [p EXCEPT !.hash = x] = [str |-> p.str, hash |-> x, nuse |-> p.nuse, cache |-> p.cache]
           /\ [p EXCEPT !.str = x] = [str |-> x, hash |-> p.hash, nuse |-> p.nuse, cache |-> p.cache]
           /\ [p EXCEPT !.cache = x] = [str |-> p.str, hash |-> p.hash, nuse |-> p.nuse, cache |-> x]
<1>1. PICK s, h, n, c : p = [str |-> s, hash |-> h, nuse |-> n, cache |-> c]
    OBVIOUS
<1> QED BY <1>1

LEMMA SizeIs ==
    ASSUME NEW p, NEW n, Buckets(p, n)
    PROVE  Size(p) = n /\ DOMAIN p.hash = 0..n - 1
<1>1. DOMAIN p.hash = 0..n - 1 /\ n \in Nat \ {0}
    BY DEF Buckets
<1>2. Cardinality(0..n - 1) = n
    BY <1>1, FS_Interval
<1> QED BY <1>1, <1>2 DEF Size

LEMMA SizeType ==
    ASSUME NEW p, PoolTyped(p)
    PROVE  Size(p) \in Nat \ {0} /\ Buckets(p, Size(p)) /\ DOMAIN p.hash = 0..Size(p) - 1
<1>1. PICK n : Buckets(p, n)
    BY DEF PoolTyped
<1> QED BY <1>1, SizeIs DEF Buckets

LEMMA BucketType ==
    ASSUME NEW p, PoolTyped(p), NEW key \in Texts
    PROVE  Bucket(p, key) \in DOMAIN p.hash
<1>1. Size(p) \in Nat \ {0} /\ DOMAIN p.hash = 0..Size(p) - 1
    BY SizeType
<1>2. HashOf[key] \in Nat
    BY StringAssumption
<1>3. \A m \in Nat, n \in Nat \ {0} : m % n \in 0..n - 1
    OBVIOUS
<1> QED BY <1>1, <1>2, <1>3 DEF Bucket

LEMMA ObjectsFinite ==
    ASSUME NEW p, PoolTyped(p)
    PROVE  IsFiniteSet(Objects(p)) /\ Cardinality(Objects(p)) \in Nat
<1>1. IsFiniteSet(Objects(p))
    BY StringAssumption, FS_Subset DEF PoolTyped
<1> QED BY <1>1, FS_CardinalityType

LEMMA MessageAddress == memerrmsg \in Addresses /\ memerrmsg \in Nat \ {0}
<1>1. Cardinality(Texts) # 0
    BY StringAssumption, FS_EmptySet
<1>2. Cardinality(Texts) \in Nat /\ Cardinality(Addresses) \in Nat
    BY StringAssumption, FS_CardinalityType
<1>3. Addresses # {}
    BY <1>1, <1>2, StringAssumption, FS_EmptySet
<1> QED BY <1>3, LeastOne, StringAssumption DEF memerrmsg

\* Where there is a string for the text, its bucket has it.
LEMMA InBucket ==
    ASSUME NEW p, Sane(p), NEW key \in Texts
    PROVE  {a \in p.hash[Bucket(p, key)] : p.str[a].key = key} = {a \in Objects(p) : p.str[a].key = key}
<1>1. Bucket(p, key) \in DOMAIN p.hash
    BY BucketType DEF Sane
<1>2. p.hash[Bucket(p, key)] = {a \in Objects(p) : Bucket(p, p.str[a].key) = Bucket(p, key)}
    BY <1>1 DEF Sane, Hashed
<1> QED BY <1>2

\* All the buckets together hold the strings.
LEMMA AllBuckets ==
    ASSUME NEW p, Sane(p)
    PROVE  UNION {p.hash[h] : h \in DOMAIN p.hash} = Objects(p)
<1>1. \A a \in Objects(p) : p.str[a].key \in Texts
    BY DEF Sane, PoolTyped
<1>2. \A a \in Objects(p) : Bucket(p, p.str[a].key) \in DOMAIN p.hash
    BY <1>1, BucketType DEF Sane
<1>3. \A h \in DOMAIN p.hash : p.hash[h] = {a \in Objects(p) : Bucket(p, p.str[a].key) = h}
    BY DEF Sane, Hashed
<1> QED BY <1>2, <1>3

\* There is an address for a text without a string.
LEMMA RoomForOne ==
    ASSUME NEW p, Sane(p), NEW key \in Texts, \A a \in Objects(p) : p.str[a].key # key
    PROVE  LeastOf(Addresses \ Objects(p)) \in Addresses \ Objects(p)
<1>1. Addresses \ Objects(p) # {}
    <2> SUFFICES ASSUME Objects(p) = Addresses
                 PROVE  FALSE
        BY DEF Sane, PoolTyped
    <2> DEFINE f == [a \in Objects(p) |-> p.str[a].key]
    <2>1. f \in Injection(Objects(p), Texts \ {key})
        BY DEF Sane, PoolTyped, Unique, Injection, IsInjective
    <2>2. IsFiniteSet(Texts \ {key}) /\ Cardinality(Texts \ {key}) = Cardinality(Texts) - 1
        BY StringAssumption, FS_RemoveElement
    <2> HIDE DEF f
    <2>3. Cardinality(Objects(p)) <= Cardinality(Texts \ {key})
        BY <2>1, <2>2, FS_Injection
    <2>4. Cardinality(Texts) \in Nat /\ Cardinality(Addresses) \in Nat
        BY StringAssumption, FS_CardinalityType
    <2> QED BY <2>2, <2>3, <2>4, StringAssumption
<1> QED BY <1>1, LeastOne, StringAssumption

-----------------------------------------------------------------------------
\* luaS_resize hashes every string anew and changes nothing else.
LEMMA ResizeKeeps ==
    ASSUME NEW p, Sane(p), NEW n \in Nat \ {0}
    PROVE  LET q == luaS_resize(p, n)
           IN  Sane(q) /\ q.str = p.str /\ q.cache = p.cache /\ q.nuse = p.nuse /\ Size(q) = n
<1> DEFINE q == luaS_resize(p, n)
<1>1. q = [str |-> p.str, hash |-> [h \in 0..n - 1 |-> {a \in Objects(p) : HashOf[p.str[a].key] % n = h}],
           nuse |-> p.nuse, cache |-> p.cache]
    <2>1. UNION {p.hash[h] : h \in DOMAIN p.hash} = Objects(p)
        BY AllBuckets
    <2> DEFINE new == [h \in 0..n - 1 |-> {a \in Objects(p) : HashOf[p.str[a].key] % n = h}]
    <2>2. q = [p EXCEPT !.hash = new]
        BY <2>1 DEF luaS_resize
    <2> HIDE DEF new, q
    <2>3. [p EXCEPT !.hash = new] = [str |-> p.str, hash |-> new, nuse |-> p.nuse, cache |-> p.cache]
        BY RecordOf DEF Sane, PoolTyped
    <2> QED BY <2>2, <2>3 DEF new
<1>2. q.hash = [h \in 0..n - 1 |-> {a \in Objects(p) : HashOf[p.str[a].key] % n = h}]
    BY <1>1
<1>3. Objects(q) = Objects(p)
    BY <1>1 DEF Objects
<1> HIDE DEF q
<1>4. Buckets(q, n)
    BY <1>2 DEF Buckets, Sane, PoolTyped
<1>5. Size(q) = n
    BY <1>4, SizeIs
<1>6. PoolTyped(q)
    BY <1>1, <1>3, <1>4 DEF Sane, PoolTyped
<1>7. Hashed(q)
    BY <1>1, <1>2, <1>3, <1>5 DEF Hashed, Bucket
<1>8. Unique(q) /\ CountRight(q) /\ MessageKept(q)
    BY <1>1, <1>3 DEF Sane, Unique, CountRight, MessageKept
<1>9. Sane(q)
    BY <1>6, <1>7, <1>8 DEF Sane
<1>10. q.str = p.str /\ q.cache = p.cache /\ q.nuse = p.nuse
    BY <1>1
<1> QED BY <1>5, <1>9, <1>10 DEF q

\* What is left of the cache once the strings that are not marked are gone.
LEMMA ClearedCache ==
    ASSUME NEW p, Sane(p), NEW marked, memerrmsg \in marked
    PROVE  LET q == luaS_clearcache(p, marked)
           IN  /\ q.str = p.str /\ q.hash = p.hash /\ q.nuse = p.nuse
               /\ q = [str |-> q.str, hash |-> q.hash, nuse |-> q.nuse, cache |-> q.cache]
               /\ q.cache \in [Rows -> [1..Ways -> Objects(p) \cap marked]]
<1> DEFINE q == luaS_clearcache(p, marked)
<1>1. /\ q.str = p.str /\ q.hash = p.hash /\ q.nuse = p.nuse
      /\ q = [str |-> q.str, hash |-> q.hash, nuse |-> q.nuse, cache |-> q.cache]
      /\ q.cache = [r \in Rows |-> [w \in 1..Ways |-> IF p.cache[r][w] \in marked THEN p.cache[r][w] ELSE memerrmsg]]
    <2> DEFINE new == [r \in Rows |-> [w \in 1..Ways |-> IF p.cache[r][w] \in marked THEN p.cache[r][w] ELSE memerrmsg]]
    <2>1. q = [p EXCEPT !.cache = new]
        BY DEF luaS_clearcache
    <2> HIDE DEF new, q
    <2>2. [p EXCEPT !.cache = new] = [str |-> p.str, hash |-> p.hash, nuse |-> p.nuse, cache |-> new]
        BY RecordOf DEF Sane, PoolTyped
    <2>3. q = [str |-> p.str, hash |-> p.hash, nuse |-> p.nuse, cache |-> new]
        BY <2>1, <2>2
    <2> QED BY <2>3 DEF new
<1>2. \A r \in Rows, w \in 1..Ways : p.cache[r][w] \in Objects(p)
    BY DEF Sane, PoolTyped
<1>3. memerrmsg \in Objects(p)
    BY DEF Sane, MessageKept
<1> HIDE DEF q
<1>4. q.cache \in [Rows -> [1..Ways -> Objects(p) \cap marked]]
    BY <1>1, <1>2, <1>3
<1> QED BY <1>1, <1>4 DEF q

\* A whole collection keeps what the program holds.
LEMMA EmergencyKeeps ==
    ASSUME NEW p, Sane(p), white \in {0, 1}, held \subseteq Objects(p)
    PROVE  LET q == Emergency(p)
           IN  /\ Good(q, white, {}, held)
               /\ Objects(q) \subseteq Objects(p) /\ \A a \in Objects(q) : q.str[a].key = p.str[a].key
               /\ Size(q) = Size(p) /\ q.nuse <= p.nuse
<1> DEFINE marked == held \cup {memerrmsg}
           gone == Objects(p) \ marked
           c == luaS_clearcache(p, marked)
           q == Emergency(p)
<1>0. memerrmsg \in Objects(p) /\ marked \subseteq Objects(p) /\ Objects(p) \ gone = marked
    BY DEF Sane, MessageKept
<1>1. /\ c.str = p.str /\ c.hash = p.hash /\ c.nuse = p.nuse
      /\ c = [str |-> c.str, hash |-> c.hash, nuse |-> c.nuse, cache |-> c.cache]
      /\ c.cache \in [Rows -> [1..Ways -> marked]]
    <2>1. memerrmsg \in marked
        OBVIOUS
    <2>2. Objects(p) \cap marked = marked
        BY <1>0
    <2> HIDE DEF marked
    <2> QED BY <2>1, <2>2, ClearedCache
<1>2. q = [c EXCEPT
             !.str = [a \in Objects(p) \ gone |-> [@[a] EXCEPT !.color = IF a = memerrmsg THEN Black ELSE white]],
             !.hash = [h \in DOMAIN @ |-> @[h] \ {a \in gone : Bucket(p, p.str[a].key) = h}],
             !.nuse = @ - Cardinality(gone)]
    BY DEF Emergency
<1> HIDE DEF q, c
<1>3. /\ q = [str |-> q.str, hash |-> q.hash, nuse |-> q.nuse, cache |-> q.cache]
      /\ q.str = [a \in marked |-> [p.str[a] EXCEPT !.color = IF a = memerrmsg THEN Black ELSE white]]
      /\ q.hash = [h \in DOMAIN p.hash |-> p.hash[h] \ {a \in gone : Bucket(p, p.str[a].key) = h}]
      /\ q.nuse = p.nuse - Cardinality(gone)
      /\ q.cache \in [Rows -> [1..Ways -> marked]]
    <2> HIDE DEF marked, gone
    <2> QED BY <1>0, <1>1, <1>2
<1> HIDE DEF marked
<1>4. Objects(q) = marked
    BY <1>3 DEF Objects
<1>5. \A a \in marked : p.str[a] \in [key : Texts, color : 0..2]
    BY <1>0 DEF Sane, PoolTyped
<1>6. \A a \in marked : /\ q.str[a] = [key |-> p.str[a].key, color |-> IF a = memerrmsg THEN Black ELSE white]
                        /\ q.str[a] \in [key : Texts, color : 0..2]
    BY <1>3, <1>5 DEF Black
<1>60. \A a \in marked : q.str[a].key = p.str[a].key /\ q.str[a].color = IF a = memerrmsg THEN Black ELSE white
    <2> SUFFICES ASSUME NEW a \in marked
                 PROVE  q.str[a].key = p.str[a].key /\ q.str[a].color = IF a = memerrmsg THEN Black ELSE white
        OBVIOUS
    <2> DEFINE c2 == IF a = memerrmsg THEN Black ELSE white
    <2>1. q.str[a] = [key |-> p.str[a].key, color |-> c2]
        BY <1>6
    <2> HIDE DEF c2
    <2>2. q.str[a].key = p.str[a].key /\ q.str[a].color = c2
        BY <2>1
    <2> QED BY <2>2 DEF c2
<1>7. PICK n : Buckets(p, n)
    BY DEF Sane, PoolTyped
<1>8. Buckets(q, n)
    BY <1>3, <1>7 DEF Buckets
<1>9. Size(q) = Size(p) /\ DOMAIN q.hash = DOMAIN p.hash
    BY <1>7, <1>8, SizeIs
<1>10. PoolTyped(q)
    <2>1. marked \subseteq Addresses
        BY <1>0 DEF Sane, PoolTyped
    <2>2. q.str \in [marked -> [key : Texts, color : 0..2]]
        BY <1>3, <1>6
    <2> QED BY <1>3, <1>4, <1>8, <2>1, <2>2 DEF PoolTyped
<1>11. Unique(q)
    BY <1>0, <1>4, <1>60 DEF Unique, Sane
<1>12. Hashed(q)
    <2> SUFFICES ASSUME NEW h \in DOMAIN p.hash
                 PROVE  q.hash[h] = {a \in marked : Bucket(q, q.str[a].key) = h}
        BY <1>4, <1>9 DEF Hashed
    <2>1. \A key : Bucket(q, key) = Bucket(p, key)
        BY <1>9 DEF Bucket
    <2>2. p.hash[h] = {a \in Objects(p) : Bucket(p, p.str[a].key) = h}
        BY DEF Sane, Hashed
    <2>3. q.hash[h] = p.hash[h] \ {a \in gone : Bucket(p, p.str[a].key) = h}
        BY <1>3
    <2>4. \A a \in marked : Bucket(q, q.str[a].key) = Bucket(p, p.str[a].key)
        BY <2>1, <1>60
    <2> QED BY <1>0, <2>2, <2>3, <2>4
<1>13. IsFiniteSet(Objects(p)) /\ Cardinality(Objects(p)) \in Nat
    BY ObjectsFinite DEF Sane
<1>14. CountRight(q) /\ q.nuse <= p.nuse
    <2>1. Objects(p) \cap marked = marked
        BY <1>0
    <2>2. Cardinality(gone) = Cardinality(Objects(p)) - Cardinality(marked)
        BY <1>13, <2>1, FS_Difference
    <2>3. Cardinality(marked) \in Nat
        BY <1>0, <1>13, FS_Subset, FS_CardinalityType
    <2>4. Cardinality(marked) <= Cardinality(Objects(p))
        BY <1>0, <1>13, FS_Subset
    <2>5. p.nuse = Cardinality(Objects(p))
        BY DEF Sane, CountRight
    <2> HIDE DEF gone
    <2> QED BY <1>3, <1>4, <1>13, <2>2, <2>3, <2>4, <2>5 DEF CountRight
<1>15. MessageKept(q)
    <2>1. memerrmsg \in marked
        BY DEF marked
    <2>2. p.str[memerrmsg].key = Message
        BY DEF Sane, MessageKept
    <2> QED BY <1>4, <1>6, <2>1, <2>2 DEF MessageKept
<1>16. Coloured(q, white, {})
    BY <1>4, <1>60 DEF Coloured
<1>17. Alive(q, white, held)
    <2>1. Reached(q, held) \subseteq marked
        <3>1. held \subseteq marked
            BY DEF marked
        <3>2. \A r \in Rows, w \in 1..Ways : q.cache[r][w] \in marked
            BY <1>3, ZenonT(40)
        <3> QED BY <3>1, <3>2 DEF Reached
    <2>2. \A a \in marked : q.str[a].color # 1 - white
        BY <1>60 DEF Black
    <2> QED BY <1>4, <2>1, <2>2 DEF Alive
<1>18. Sane(q)
    BY <1>10, <1>11, <1>12, <1>14, <1>15 DEF Sane
<1> QED BY <1>0, <1>4, <1>60, <1>9, <1>14, <1>16, <1>17, <1>18 DEF q, Good

\* createstrobj and the link into the list: one more string, white.
LEMMA LinkKeeps ==
    ASSUME NEW p, Sane(p), white \in {0, 1}, NEW key \in Texts, \A b \in Objects(p) : p.str[b].key # key,
           NEW a \in Addresses \ Objects(p)
    PROVE  LET q == Link(createstrobj(p, a, key), a)
           IN  /\ Sane(q) /\ Objects(q) = Objects(p) \cup {a}
               /\ \A b \in Objects(p) : q.str[b] = p.str[b]
               /\ q.str[a] = [key |-> key, color |-> white]
               /\ q.cache = p.cache /\ q.nuse = p.nuse + 1 /\ Size(q) = Size(p)
<1> DEFINE new == [b \in Objects(p) \cup {a} |-> IF b = a THEN [key |-> key, color |-> white] ELSE p.str[b]]
           m == createstrobj(p, a, key)
           q == Link(m, a)
           h == Bucket(p, key)
<1>1. m = [str |-> new, hash |-> p.hash, nuse |-> p.nuse, cache |-> p.cache]
    <2>1. m = [p EXCEPT !.str = new]
        BY DEF createstrobj
    <2> HIDE DEF new, m
    <2> QED BY <2>1, RecordOf DEF Sane, PoolTyped
<1>2. new[a] = [key |-> key, color |-> white] /\ \A b \in Objects(p) : new[b] = p.str[b]
    OBVIOUS
<1>3. Bucket(m, m.str[a].key) = h
    <2>1. m.hash = p.hash /\ m.str[a].key = key
        BY <1>1, <1>2
    <2> HIDE DEF m
    <2> QED BY <2>1 DEF Bucket, Size
<1>4. q = [str |-> new, hash |-> [p.hash EXCEPT ![h] = @ \cup {a}], nuse |-> p.nuse + 1, cache |-> p.cache]
    <2>1. q = [m EXCEPT !.hash[h] = @ \cup {a}, !.nuse = @ + 1]
        BY <1>3 DEF Link
    <2> HIDE DEF m, q, h, new
    <2> QED BY <1>1, <2>1
<1>5. h \in DOMAIN p.hash
    BY BucketType DEF Sane
<1>6. PICK n : Buckets(p, n)
    BY DEF Sane, PoolTyped
<1> HIDE DEF q, m, h
<1>7. /\ q.str = new /\ q.hash = [p.hash EXCEPT ![h] = @ \cup {a}] /\ q.nuse = p.nuse + 1 /\ q.cache = p.cache
      /\ q = [str |-> q.str, hash |-> q.hash, nuse |-> q.nuse, cache |-> q.cache]
    BY <1>4
<1>8. Objects(q) = Objects(p) \cup {a}
    BY <1>7 DEF Objects
<1> HIDE DEF new
<1>9. Buckets(q, n)
    BY <1>5, <1>6, <1>7 DEF Buckets
<1>10. Size(q) = Size(p) /\ DOMAIN q.hash = DOMAIN p.hash
    BY <1>6, <1>9, SizeIs
<1>11. /\ q.str[a] = [key |-> key, color |-> white] /\ q.str[a].key = key
       /\ \A b \in Objects(p) : q.str[b] = p.str[b]
    BY <1>2, <1>7
<1>12. PoolTyped(q)
    <2>1. q.str \in [Objects(q) -> [key : Texts, color : 0..2]]
        <3>1. \A b \in Objects(p) : p.str[b] \in [key : Texts, color : 0..2]
            BY DEF Sane, PoolTyped
        <3>2. q.str[a] \in [key : Texts, color : 0..2]
            BY <1>11
        <3>3. \A b \in Objects(q) : q.str[b] \in [key : Texts, color : 0..2]
            BY <1>8, <1>11, <3>1, <3>2
        <3>4. q.str = [b \in Objects(q) |-> q.str[b]]
            BY <1>7, <1>8 DEF new
        <3> QED BY <3>3, <3>4
    <2>2. Objects(q) \subseteq Addresses
        BY <1>8 DEF Sane, PoolTyped
    <2>3. q.cache \in [Rows -> [1..Ways -> Objects(q)]]
        BY <1>7, <1>8 DEF Sane, PoolTyped
    <2> QED BY <1>7, <1>9, <2>1, <2>2, <2>3 DEF PoolTyped
<1>13. Unique(q)
    BY <1>8, <1>11 DEF Sane, Unique
<1>14. Hashed(q)
    <2> SUFFICES ASSUME NEW i \in DOMAIN p.hash
                 PROVE  q.hash[i] = {b \in Objects(q) : Bucket(q, q.str[b].key) = i}
        BY <1>10 DEF Hashed
    <2>1. \A k : Bucket(q, k) = Bucket(p, k)
        BY <1>10 DEF Bucket
    <2>2. p.hash[i] = {b \in Objects(p) : Bucket(p, p.str[b].key) = i}
        BY DEF Sane, Hashed
    <2>3. q.hash[i] = IF i = h THEN p.hash[i] \cup {a} ELSE p.hash[i]
        BY <1>7
    <2>4. Bucket(q, q.str[a].key) = h
        BY <1>11, <2>1 DEF h
    <2>5. \A b \in Objects(p) : Bucket(q, q.str[b].key) = Bucket(p, p.str[b].key)
        BY <1>11, <2>1
    <2> QED BY <1>8, <2>2, <2>3, <2>4, <2>5
<1>15. CountRight(q)
    <2>1. IsFiniteSet(Objects(p))
        BY ObjectsFinite DEF Sane
    <2>2. Cardinality(Objects(q)) = Cardinality(Objects(p)) + 1
        BY <1>8, <2>1, FS_AddElement
    <2> QED BY <1>7, <2>2 DEF Sane, CountRight
<1>16. MessageKept(q)
    BY <1>8, <1>11 DEF Sane, MessageKept
<1>17. Sane(q)
    BY <1>12, <1>13, <1>14, <1>15, <1>16 DEF Sane
<1> QED BY <1>7, <1>8, <1>10, <1>11, <1>17 DEF q, m

\* A colour changes and nothing else.
LEMMA ColourKeeps ==
    ASSUME NEW p, Sane(p), NEW a \in Objects(p) \ {memerrmsg}, NEW w \in 0..2
    PROVE  LET q == [p EXCEPT !.str[a].color = w]
           IN  /\ Sane(q) /\ Objects(q) = Objects(p) /\ q.cache = p.cache /\ q.nuse = p.nuse /\ Size(q) = Size(p)
               /\ q.str[a].color = w /\ \A b \in Objects(p) \ {a} : q.str[b] = p.str[b]
<1> DEFINE q == [p EXCEPT !.str[a].color = w]
           new == [p.str EXCEPT ![a] = [@ EXCEPT !.color = w]]
<1>1. q = [str |-> new, hash |-> p.hash, nuse |-> p.nuse, cache |-> p.cache]
    <2>1. q = [p EXCEPT !.str = new]
        OBVIOUS
    <2> HIDE DEF q, new
    <2> QED BY <2>1, RecordOf DEF Sane, PoolTyped
<1> HIDE DEF q
<1>2. /\ q.str = new /\ q.hash = p.hash /\ q.nuse = p.nuse /\ q.cache = p.cache
      /\ q = [str |-> q.str, hash |-> q.hash, nuse |-> q.nuse, cache |-> q.cache]
    <2> HIDE DEF new
    <2> QED BY <1>1
<1>3. p.str \in [Objects(p) -> [key : Texts, color : 0..2]]
    BY DEF Sane, PoolTyped
<1>4. /\ new \in [Objects(p) -> [key : Texts, color : 0..2]]
      /\ new[a].color = w /\ new[a].key = p.str[a].key /\ \A b \in Objects(p) \ {a} : new[b] = p.str[b]
    BY <1>3
<1> HIDE DEF new
<1>5. Objects(q) = Objects(p)
    BY <1>2, <1>4 DEF Objects
<1>6. \A b \in Objects(p) : q.str[b].key = p.str[b].key
    BY <1>2, <1>4
<1>7. Size(q) = Size(p)
    BY <1>2 DEF Size
<1>8. PoolTyped(q)
    <2>1. \E n : Buckets(q, n)
        BY <1>2 DEF Sane, PoolTyped, Buckets
    <2> QED BY <1>2, <1>4, <1>5, <2>1 DEF Sane, PoolTyped
<1>9. Unique(q)
    BY <1>5, <1>6 DEF Sane, Unique
<1>10. Hashed(q)
    <2>1. \A k : Bucket(q, k) = Bucket(p, k)
        BY <1>7 DEF Bucket
    <2>2. \A b \in Objects(p) : Bucket(q, q.str[b].key) = Bucket(p, p.str[b].key)
        BY <1>6, <2>1
    <2> QED BY <1>2, <1>5, <2>2 DEF Sane, Hashed
<1>11. CountRight(q)
    BY <1>2, <1>5 DEF Sane, CountRight
<1>12. MessageKept(q)
    BY <1>2, <1>4, <1>5 DEF Sane, MessageKept
<1>13. Sane(q)
    BY <1>8, <1>9, <1>10, <1>11, <1>12 DEF Sane
<1> QED BY <1>2, <1>4, <1>5, <1>7, <1>13 DEF q

\* luaS_remove and the end of the string.
LEMMA FreeKeeps ==
    ASSUME NEW p, Sane(p), NEW a \in Objects(p) \ {memerrmsg}, \A r \in Rows, w \in 1..Ways : p.cache[r][w] # a
    PROVE  LET q == Free(p, a)
           IN  /\ Sane(q) /\ Objects(q) = Objects(p) \ {a} /\ q.cache = p.cache /\ q.nuse = p.nuse - 1 /\ Size(q) = Size(p)
               /\ \A b \in Objects(q) : q.str[b] = p.str[b]
<1> DEFINE h == Bucket(p, p.str[a].key)
           new == [b \in Objects(p) \ {a} |-> p.str[b]]
           q == Free(p, a)
<1>1. q = [str |-> new, hash |-> [p.hash EXCEPT ![h] = @ \ {a}], nuse |-> p.nuse - 1, cache |-> p.cache]
    <2>1. q = [[p EXCEPT !.hash[h] = @ \ {a}, !.nuse = @ - 1] EXCEPT !.str = new]
        BY DEF Free, luaS_remove
    <2> HIDE DEF h, q, new
    <2>2. PICK s, hh, u, c : p = [str |-> s, hash |-> hh, nuse |-> u, cache |-> c]
        BY DEF Sane, PoolTyped
    <2> QED BY <2>1, <2>2
<1> HIDE DEF q
<1>2. /\ q.str = new /\ q.hash = [p.hash EXCEPT ![h] = @ \ {a}] /\ q.nuse = p.nuse - 1 /\ q.cache = p.cache
      /\ q = [str |-> q.str, hash |-> q.hash, nuse |-> q.nuse, cache |-> q.cache]
    <2> HIDE DEF new, h
    <2> QED BY <1>1
<1>3. Objects(q) = Objects(p) \ {a} /\ \A b \in Objects(q) : q.str[b] = p.str[b]
    BY <1>2 DEF Objects
<1>4. PICK n : Buckets(p, n)
    BY DEF Sane, PoolTyped
<1>5. Buckets(q, n)
    <2> HIDE DEF h
    <2> QED BY <1>2, <1>4 DEF Buckets
<1>6. Size(q) = Size(p) /\ DOMAIN q.hash = DOMAIN p.hash
    BY <1>4, <1>5, SizeIs
<1>7. PoolTyped(q)
    <2>1. q.str \in [Objects(q) -> [key : Texts, color : 0..2]]
        BY <1>2, <1>3 DEF Sane, PoolTyped
    <2>2. q.cache \in [Rows -> [1..Ways -> Objects(q)]]
        <3>1. p.cache \in [Rows -> [1..Ways -> Objects(p)]]
            BY DEF Sane, PoolTyped
        <3>2. \A r \in Rows, w \in 1..Ways : p.cache[r][w] \in Objects(q)
            BY <1>3, <3>1
        <3>3. \A r \in Rows : p.cache[r] \in [1..Ways -> Objects(q)]
            BY <3>1, <3>2
        <3> QED BY <1>2, <3>1, <3>3
    <2> QED BY <1>2, <1>3, <1>5, <2>1, <2>2 DEF Sane, PoolTyped
<1>8. Unique(q)
    BY <1>3 DEF Sane, Unique
<1>9. Hashed(q)
    <2> SUFFICES ASSUME NEW i \in DOMAIN p.hash
                 PROVE  q.hash[i] = {b \in Objects(q) : Bucket(q, q.str[b].key) = i}
        BY <1>6 DEF Hashed
    <2>1. \A k : Bucket(q, k) = Bucket(p, k)
        BY <1>6 DEF Bucket
    <2>2. p.hash[i] = {b \in Objects(p) : Bucket(p, p.str[b].key) = i}
        BY DEF Sane, Hashed
    <2>3. q.hash[i] = IF i = h THEN p.hash[i] \ {a} ELSE p.hash[i]
        <3> HIDE DEF h
        <3> QED BY <1>2
    <2>4. \A b \in Objects(q) : Bucket(q, q.str[b].key) = Bucket(p, p.str[b].key)
        BY <1>3, <2>1
    <2>5. q.hash[i] = p.hash[i] \ {a}
        BY <2>2, <2>3
    <2> HIDE DEF h
    <2> QED BY <1>3, <2>2, <2>4, <2>5
<1>10. CountRight(q)
    <2>1. IsFiniteSet(Objects(p))
        BY ObjectsFinite DEF Sane
    <2>2. Cardinality(Objects(q)) = Cardinality(Objects(p)) - 1
        BY <1>3, <2>1, FS_RemoveElement
    <2> QED BY <1>2, <2>2 DEF Sane, CountRight
<1>11. MessageKept(q)
    BY <1>3 DEF Sane, MessageKept
<1>12. Sane(q)
    BY <1>7, <1>8, <1>9, <1>10, <1>11 DEF Sane
<1> QED BY <1>2, <1>3, <1>6, <1>12 DEF q

-----------------------------------------------------------------------------
\* What a call to the table of strings leaves behind.
LeftToSweep(o) == IF o.collected THEN {} ELSE sweep
OutcomeGood(o) ==
    /\ Good(o.pool, white, LeftToSweep(o), held) /\ NotOver(o.pool)
    /\ o.a = 0 \/ (o.a \in Objects(o.pool) /\ o.pool.str[o.a].color # 1 - white)

LEMMA FitsAfter ==
    ASSUME NEW p, Sane(p), NEW k \in Nat, p.nuse <= k
    PROVE  p.nuse \in Nat
BY ObjectsFinite DEF Sane, CountRight

\* A string that is taken into the reach of the program is not dead.
LEMMA AliveMore ==
    ASSUME NEW p, NEW w, NEW h, Alive(p, w, h), NEW a \in Objects(p), p.str[a].color # 1 - w
    PROVE  Alive(p, w, h \cup {a})
BY DEF Alive, Reached

\* The text has a string already, which may be dead.
LEMMA InternedFound ==
    ASSUME NEW p, Good(p, white, sweep, held), NotOver(p), white \in {0, 1}, NEW ts \in Objects(p),
           NEW q, q = IF isdead(p, ts) THEN [p EXCEPT !.str[ts].color = white] ELSE p
    PROVE  OutcomeGood(Got(q, ts, FALSE)) /\ q.cache = p.cache
<1>0. Sane(p) /\ Coloured(p, white, sweep) /\ Alive(p, white, held)
    BY DEF Good
<1>1. CASE ~isdead(p, ts)
    <2>1. q = p /\ p.str[ts].color # 1 - white
        BY <1>1 DEF isdead, otherwhite
    <2> DEFINE o == Got(q, ts, FALSE)
    <2>2. o.pool = p /\ o.a = ts /\ o.collected = FALSE
        BY <2>1 DEF Got
    <2> HIDE DEF o
    <2>3. OutcomeGood(o)
        BY <2>1, <2>2 DEF OutcomeGood, LeftToSweep
    <2> QED BY <2>1, <2>3 DEF o
<1>2. CASE isdead(p, ts)
    <2>1. ts # memerrmsg
        BY <1>0, <1>2 DEF Sane, MessageKept, isdead, otherwhite, Black
    <2>2. q = [p EXCEPT !.str[ts].color = white] /\ white \in 0..2
        BY <1>2
    <2>3. /\ Sane(q) /\ Objects(q) = Objects(p) /\ q.cache = p.cache /\ q.nuse = p.nuse /\ Size(q) = Size(p)
          /\ q.str[ts].color = white /\ \A b \in Objects(p) \ {ts} : q.str[b] = p.str[b]
        <3>1. ts \in Objects(p) \ {memerrmsg}
            BY <2>1
        <3>2. white \in 0..2
            BY <2>2
        <3> DEFINE r == [p EXCEPT !.str[ts].color = white]
        <3>3. /\ Sane(r) /\ Objects(r) = Objects(p) /\ r.cache = p.cache /\ r.nuse = p.nuse /\ Size(r) = Size(p)
              /\ r.str[ts].color = white /\ \A b \in Objects(p) \ {ts} : r.str[b] = p.str[b]
            BY <1>0, <3>1, <3>2, ColourKeeps, ZenonT(40)
        <3>4. q = r
            BY <2>2
        <3> HIDE DEF r
        <3> QED BY <3>3, <3>4
    <2>4. Coloured(q, white, sweep)
        BY <1>0, <2>3 DEF Coloured
    <2>5. Alive(q, white, held)
        <3>1. Reached(q, held) = Reached(p, held)
            BY <2>3 DEF Reached
        <3> QED BY <1>0, <2>3, <3>1 DEF Alive
    <2>6. NotOver(q)
        BY <2>3 DEF NotOver
    <2> DEFINE o == Got(q, ts, FALSE)
    <2>7. o.pool = q /\ o.a = ts /\ o.collected = FALSE
        BY DEF Got
    <2> HIDE DEF o
    <2>8. OutcomeGood(o)
        BY <2>3, <2>4, <2>5, <2>6, <2>7 DEF OutcomeGood, LeftToSweep, Good
    <2> QED BY <2>3, <2>8 DEF o
<1> QED BY <1>1, <1>2

\* A string is made in a pool with room for it.
LEMMA InternedNew ==
    ASSUME NEW p, NEW s, Good(p, white, s, held), white \in {0, 1}, p.nuse < Size(p),
           NEW key \in Texts, \A b \in Objects(p) : p.str[b].key # key,
           NEW a, a = LeastOf(Addresses \ Objects(p)), NEW collected, s = IF collected THEN {} ELSE sweep
    PROVE  LET o == Got(Link(createstrobj(p, a, key), a), a, collected)
           IN  OutcomeGood(o) /\ o.pool.cache = p.cache
<1> DEFINE q == Link(createstrobj(p, a, key), a)
           o == Got(q, a, collected)
<1>0. Sane(p) /\ Coloured(p, white, s) /\ Alive(p, white, held)
    BY DEF Good
<1>1. a \in Addresses \ Objects(p)
    BY <1>0, RoomForOne
<1>2. /\ Sane(q) /\ Objects(q) = Objects(p) \cup {a}
      /\ \A b \in Objects(p) : q.str[b] = p.str[b]
      /\ q.str[a] = [key |-> key, color |-> white]
      /\ q.cache = p.cache /\ q.nuse = p.nuse + 1 /\ Size(q) = Size(p)
    BY <1>0, <1>1, LinkKeeps, ZenonT(40)
<1> HIDE DEF q
<1>3. q.str[a].color = white
    BY <1>2
<1>4. Coloured(q, white, s)
    BY <1>0, <1>2, <1>3 DEF Coloured
<1>5. Alive(q, white, held)
    <2>1. Reached(q, held) = Reached(p, held)
        BY <1>2 DEF Reached
    <2> QED BY <1>0, <1>2, <2>1 DEF Alive
<1>6. NotOver(q)
    <2>1. p.nuse \in Nat /\ Size(p) \in Nat
        BY <1>0, ObjectsFinite, SizeType DEF Sane, CountRight
    <2> QED BY <1>2, <2>1 DEF NotOver
<1>7. o.pool = q /\ o.a = a /\ o.collected = collected
    BY DEF Got
<1> HIDE DEF o
<1>8. LeftToSweep(o) = s
    BY <1>7 DEF LeftToSweep
<1>9. a \in Objects(q) /\ q.str[a].color # 1 - white
    BY <1>2, <1>3
<1>10. OutcomeGood(o)
    BY <1>2, <1>4, <1>5, <1>6, <1>7, <1>8, <1>9 DEF OutcomeGood, Good
<1> QED BY <1>2, <1>7, <1>10 DEF o, q

\* luaS_resize in a pool that is good.
LEMMA ResizeGood ==
    ASSUME NEW p, NEW w, NEW s, NEW h, Good(p, w, s, h), NEW n \in Nat \ {0}
    PROVE  LET q == luaS_resize(p, n)
           IN  Good(q, w, s, h) /\ Size(q) = n /\ q.nuse = p.nuse /\ q.cache = p.cache /\ q.str = p.str
<1> DEFINE q == luaS_resize(p, n)
<1>1. Sane(q) /\ q.str = p.str /\ q.cache = p.cache /\ q.nuse = p.nuse /\ Size(q) = n
    BY ResizeKeeps DEF Good
<1> HIDE DEF q
<1>2. Coloured(q, w, s)
    BY <1>1 DEF Good, Coloured, Objects
<1>3. Alive(q, w, h)
    BY <1>1 DEF Good, Alive, Reached, Objects
<1> QED BY <1>1, <1>2, <1>3 DEF q, Good

\* An emergency in a pool that is good.
LEMMA EmergencyGood ==
    ASSUME NEW p, NEW s, Good(p, white, s, held), white \in {0, 1}
    PROVE  LET q == Emergency(p)
           IN  /\ Good(q, white, {}, held) /\ Size(q) = Size(p) /\ q.nuse <= p.nuse
               /\ Objects(q) \subseteq Objects(p) /\ \A a \in Objects(q) : q.str[a].key = p.str[a].key
<1>1. Sane(p)
    BY DEF Good
<1>2. held \subseteq Objects(p)
    BY DEF Good, Alive, Reached
<1> QED BY <1>1, <1>2, EmergencyKeeps

\* internshrstr.
LEMMA InternGood ==
    ASSUME NEW p, Good(p, white, sweep, held), NotOver(p), white \in {0, 1}, NEW key \in Texts,
           NEW memory, NEW fails \in BOOLEAN
    PROVE  OutcomeGood(internshrstr(p, key, memory, fails))
<1> DEFINE same == {a \in p.hash[Bucket(p, key)] : p.str[a].key = key}
           ts == CHOOSE a \in same : TRUE
           full == p.nuse >= Size(p)
           p1 == IF memory = "table" /\ full THEN Emergency(p) ELSE p
           p2 == IF full THEN luaS_resize(p1, 2 * Size(p)) ELSE p1
           p3 == IF memory = "object" THEN Emergency(p2) ELSE p2
           a == LeastOf(Addresses \ Objects(p3))
           c1 == memory = "table" /\ full
           o == internshrstr(p, key, memory, fails)
<1> SUFFICES OutcomeGood(o)
    OBVIOUS
<1>1. o = CASE same # {} -> Got(IF isdead(p, ts) THEN [p EXCEPT !.str[ts].color = white] ELSE p, ts, FALSE)
            [] same = {} /\ memory = "table" /\ full /\ fails -> Got(p1, 0, TRUE)
            [] same = {} /\ memory = "object" /\ fails -> Got(p3, 0, TRUE)
            [] OTHER -> Got(Link(createstrobj(p3, a, key), a), a, memory = "object" \/ (memory = "table" /\ full))
    BY DEF internshrstr
<1> HIDE DEF o
<1>2. Sane(p) /\ p.nuse \in Nat /\ Size(p) \in Nat \ {0} /\ p.nuse <= Size(p)
    BY ObjectsFinite, SizeType DEF Good, Sane, CountRight, NotOver
<1>3. same = {b \in Objects(p) : p.str[b].key = key}
    BY <1>2, InBucket
<1>4. CASE same # {}
    <2>1. ts \in Objects(p)
        BY <1>3, <1>4
    <2> DEFINE q == IF isdead(p, ts) THEN [p EXCEPT !.str[ts].color = white] ELSE p
    <2>2. o = Got(q, ts, FALSE)
        BY <1>1, <1>4
    <2>3. q = IF isdead(p, ts) THEN [p EXCEPT !.str[ts].color = white] ELSE p
        OBVIOUS
    <2> HIDE DEF q, ts, same
    <2>4. OutcomeGood(Got(q, ts, FALSE))
        BY <2>1, <2>3, InternedFound
    <2> QED BY <2>2, <2>4
<1>5. CASE same = {}
    <2>1. \A b \in Objects(p) : p.str[b].key # key
        BY <1>3, <1>5
    <2> DEFINE s1 == IF c1 THEN {} ELSE sweep
               s3 == IF memory = "object" \/ c1 THEN {} ELSE sweep
    <2>2. /\ Good(p1, white, s1, held) /\ Size(p1) = Size(p) /\ p1.nuse <= p.nuse
          /\ Objects(p1) \subseteq Objects(p) /\ \A b \in Objects(p1) : p1.str[b].key = p.str[b].key
        <3>1. CASE c1
            <4>1. p1 = Emergency(p) /\ s1 = {}
                BY <3>1
            <4> HIDE DEF p1, s1
            <4> QED BY <4>1, EmergencyGood
        <3>2. CASE ~c1
            <4>1. p1 = p /\ s1 = sweep
                BY <3>2
            <4> HIDE DEF p1, s1
            <4> QED BY <1>2, <4>1
        <3> QED BY <3>1, <3>2
    <2>3. CASE memory = "table" /\ full /\ fails
        <3>1. o = Got(p1, 0, TRUE)
            BY <1>1, <1>5, <2>3
        <3>2. s1 = {}
            BY <2>3
        <3> DEFINE g == Got(p1, 0, TRUE)
        <3>3. g.pool = p1 /\ g.a = 0 /\ g.collected = TRUE
            BY DEF Got
        <3> HIDE DEF p1, s1, g
        <3>4. p1.nuse \in Nat
            BY <2>2, ObjectsFinite DEF Good, Sane, CountRight
        <3>5. NotOver(p1)
            BY <1>2, <2>2, <3>4 DEF NotOver
        <3>6. OutcomeGood(g)
            BY <2>2, <3>2, <3>3, <3>5 DEF OutcomeGood, LeftToSweep
        <3> QED BY <3>1, <3>6 DEF g
    <2>4. /\ Good(p2, white, s1, held) /\ p2.nuse < Size(p2)
          /\ Objects(p2) \subseteq Objects(p) /\ \A b \in Objects(p2) : p2.str[b].key = p.str[b].key
        <3>0. p1.nuse \in Nat
            <4> HIDE DEF p1, s1
            <4> QED BY <2>2, ObjectsFinite DEF Good, Sane, CountRight
        <3>1. CASE full
            <4>1. p2 = luaS_resize(p1, 2 * Size(p))
                BY <3>1
            <4>2. 2 * Size(p) \in Nat \ {0} /\ p1.nuse < 2 * Size(p)
                <5> HIDE DEF p1
                <5> QED BY <1>2, <2>2, <3>0
            <4> HIDE DEF p1, p2, s1
            <4>3. Good(p2, white, s1, held) /\ Size(p2) = 2 * Size(p) /\ p2.nuse = p1.nuse /\ p2.str = p1.str
                BY <2>2, <4>1, <4>2, ResizeGood
            <4> QED BY <2>2, <4>2, <4>3 DEF Objects
        <3>2. CASE ~full
            <4>1. p2 = p1 /\ p.nuse < Size(p)
                BY <1>2, <3>2
            <4> HIDE DEF p1, p2, s1
            <4> QED BY <1>2, <2>2, <3>0, <4>1
        <3> QED BY <3>1, <3>2
    <2>5. /\ Good(p3, white, s3, held) /\ p3.nuse < Size(p3)
          /\ Objects(p3) \subseteq Objects(p) /\ \A b \in Objects(p3) : p3.str[b].key = p.str[b].key
        <3>1. CASE memory = "object"
            <4>1. p3 = Emergency(p2) /\ s3 = {}
                BY <3>1
            <4> HIDE DEF p2, p3, s1, s3
            <4>2. /\ Good(p3, white, {}, held) /\ Size(p3) = Size(p2) /\ p3.nuse <= p2.nuse
                  /\ Objects(p3) \subseteq Objects(p2) /\ \A b \in Objects(p3) : p3.str[b].key = p2.str[b].key
                BY <2>4, <4>1, EmergencyGood
            <4>3. p2.nuse \in Nat /\ p3.nuse \in Nat /\ Size(p2) \in Nat
                BY <2>4, <4>2, ObjectsFinite, SizeType DEF Good, Sane, CountRight
            <4> QED BY <2>4, <4>1, <4>2, <4>3
        <3>2. CASE memory # "object"
            <4>1. p3 = p2 /\ s3 = s1
                BY <3>2
            <4> HIDE DEF p2, p3, s1, s3
            <4> QED BY <2>4, <4>1
        <3> QED BY <3>1, <3>2
    <2>6. CASE memory = "object" /\ fails
        <3>1. o = Got(p3, 0, TRUE)
            <4>1. ~(memory = "table")
                BY <2>6
            <4> HIDE DEF p3, p1, a, full
            <4> QED BY <1>1, <1>5, <2>6, <4>1
        <3>2. s3 = {}
            BY <2>6
        <3> DEFINE g == Got(p3, 0, TRUE)
        <3>3. g.pool = p3 /\ g.a = 0 /\ g.collected = TRUE
            BY DEF Got
        <3> HIDE DEF p3, s3, g
        <3>4. p3.nuse \in Nat /\ Size(p3) \in Nat
            BY <2>5, ObjectsFinite, SizeType DEF Good, Sane, CountRight
        <3>5. NotOver(p3)
            BY <2>5, <3>4 DEF NotOver
        <3>6. OutcomeGood(g)
            BY <2>5, <3>2, <3>3, <3>5 DEF OutcomeGood, LeftToSweep
        <3> QED BY <3>1, <3>6 DEF g
    <2>7. CASE ~(memory = "table" /\ full /\ fails) /\ ~(memory = "object" /\ fails)
        <3> DEFINE col == memory = "object" \/ c1
                   g == Got(Link(createstrobj(p3, a, key), a), a, col)
        <3>1. o = g
            <4> HIDE DEF p3, p1, a, same, full
            <4> QED BY <1>1, <1>5, <2>7
        <3>2. s3 = IF col THEN {} ELSE sweep
            OBVIOUS
        <3>3. \A b \in Objects(p3) : p3.str[b].key # key
            <4> HIDE DEF p3
            <4> QED BY <2>1, <2>5
        <3>4. a = LeastOf(Addresses \ Objects(p3))
            OBVIOUS
        <3> HIDE DEF p3, s3, col, a
        <3>5. OutcomeGood(g)
            BY <2>5, <3>2, <3>3, <3>4, InternedNew
        <3> QED BY <3>1, <3>5
    <2> QED BY <2>3, <2>6, <2>7
<1> QED BY <1>4, <1>5

\* The cache takes strings that are not dead.
LEMMA CacheGood ==
    ASSUME NEW p, NEW s, NEW h, Good(p, white, s, h),
           NEW cache \in [Rows -> [1..Ways -> Objects(p)]],
           \A r \in Rows, w \in 1..Ways : p.str[cache[r][w]].color # 1 - white
    PROVE  LET q == [p EXCEPT !.cache = cache]
           IN  Good(q, white, s, h) /\ q.str = p.str /\ q.nuse = p.nuse /\ Size(q) = Size(p) /\ q.cache = cache
<1> DEFINE q == [p EXCEPT !.cache = cache]
<1>1. q = [str |-> p.str, hash |-> p.hash, nuse |-> p.nuse, cache |-> cache]
    BY RecordOf DEF Good, Sane, PoolTyped
<1> HIDE DEF q
<1>2. /\ q.str = p.str /\ q.hash = p.hash /\ q.nuse = p.nuse /\ q.cache = cache
      /\ q = [str |-> q.str, hash |-> q.hash, nuse |-> q.nuse, cache |-> q.cache]
    BY <1>1
<1>3. Size(q) = Size(p) /\ Objects(q) = Objects(p)
    BY <1>2 DEF Size, Objects
<1>4. PoolTyped(q)
    BY <1>2, <1>3 DEF Good, Sane, PoolTyped, Buckets
<1>5. Unique(q) /\ CountRight(q) /\ MessageKept(q)
    BY <1>2, <1>3 DEF Good, Sane, Unique, CountRight, MessageKept
<1>6. Hashed(q)
    BY <1>2, <1>3 DEF Good, Sane, Hashed, Bucket
<1>7. Coloured(q, white, s)
    BY <1>2, <1>3 DEF Good, Coloured
<1>8. Alive(q, white, h)
    <2>1. \A r \in Rows, w \in 1..Ways : cache[r][w] \in Objects(p)
        OBVIOUS
    <2>2. \A a \in h : a \in Objects(p) /\ p.str[a].color # 1 - white
        BY DEF Good, Alive, Reached
    <2> QED BY <1>2, <1>3, <2>1, <2>2 DEF Alive, Reached
<1> QED BY <1>2, <1>3, <1>4, <1>5, <1>6, <1>7, <1>8 DEF q, Good, Sane

LEMMA CacheAlive ==
    ASSUME NEW p, NEW s, NEW h, Good(p, white, s, h)
    PROVE  /\ p.cache \in [Rows -> [1..Ways -> Objects(p)]]
           /\ \A r \in Rows, w \in 1..Ways : p.cache[r][w] \in Objects(p) /\ p.str[p.cache[r][w]].color # 1 - white
<1>1. p.cache \in [Rows -> [1..Ways -> Objects(p)]]
    BY DEF Good, Sane, PoolTyped
<1>2. \A r \in Rows, w \in 1..Ways : p.cache[r][w] \in Reached(p, h)
    BY DEF Reached
<1> QED BY <1>1, <1>2 DEF Good, Alive

\* luaS_new.
LEMMA NewGood ==
    ASSUME NEW p, Good(p, white, sweep, held), NotOver(p), white \in {0, 1}, NEW key \in Texts, NEW row \in Rows,
           NEW memory, NEW fails \in BOOLEAN
    PROVE  OutcomeGood(luaS_new(p, row, key, memory, fails))
<1> DEFINE hits == {w \in 1..Ways : p.str[p.cache[row][w]].key = key}
           line == [w \in 1..Ways |-> IF w = 1 THEN p.cache[row][1] ELSE p.cache[row][w - 1]]
           cache == [p.cache EXCEPT ![row] = line]
           moved == [p EXCEPT !.cache = cache]
           made == internshrstr(moved, key, memory, fails)
           o == luaS_new(p, row, key, memory, fails)
<1> SUFFICES OutcomeGood(o)
    OBVIOUS
<1>1. /\ p.cache \in [Rows -> [1..Ways -> Objects(p)]]
      /\ \A r \in Rows, w \in 1..Ways : p.cache[r][w] \in Objects(p) /\ p.str[p.cache[r][w]].color # 1 - white
    BY CacheAlive
<1>2. o = IF hits # {} THEN Got(p, p.cache[row][LeastOf(hits)], FALSE)
          ELSE IF made.a = 0 THEN made ELSE [made EXCEPT !.pool.cache[row][1] = made.a]
    <2>1. moved = [p EXCEPT !.cache[row] = [w \in 1..Ways |-> IF w = 1 THEN @[1] ELSE @[w - 1]]]
        OBVIOUS
    <2> HIDE DEF moved
    <2> QED BY <2>1 DEF luaS_new
<1> HIDE DEF o
<1>3. CASE hits # {}
    <2>1. LeastOf(hits) \in 1..Ways
        <3>1. hits \in SUBSET Nat
            OBVIOUS
        <3>2. LeastOf(hits) \in hits
            <4> HIDE DEF hits
            <4> QED BY <1>3, <3>1, LeastOne
        <3> QED BY <3>2
    <2> DEFINE a == p.cache[row][LeastOf(hits)]
               g == Got(p, a, FALSE)
    <2>2. o = g
        <3> HIDE DEF hits, made
        <3> QED BY <1>2, <1>3
    <2> HIDE DEF hits
    <2>3. a \in Objects(p) /\ p.str[a].color # 1 - white
        BY <1>1, <2>1
    <2> HIDE DEF a
    <2>4. g.pool = p /\ g.a = a /\ g.collected = FALSE
        BY DEF Got
    <2> HIDE DEF g
    <2>5. OutcomeGood(g)
        BY <2>3, <2>4 DEF OutcomeGood, LeftToSweep
    <2> QED BY <2>2, <2>5
<1>4. CASE hits = {}
    <2>1. Ways \in Nat \ {0}
        BY StringAssumption
    <2>2. line \in [1..Ways -> Objects(p)] /\ \A w \in 1..Ways : p.str[line[w]].color # 1 - white
        <3>1. \A w \in 1..Ways : w # 1 => w - 1 \in 1..Ways
            BY <2>1
        <3>2. 1 \in 1..Ways
            BY <2>1
        <3> QED BY <1>1, <3>1, <3>2
    <2> HIDE DEF line
    <2>3. cache \in [Rows -> [1..Ways -> Objects(p)]]
        BY <1>1, <2>2
    <2>4. \A r \in Rows, w \in 1..Ways : p.str[cache[r][w]].color # 1 - white
        BY <1>1, <2>2
    <2> HIDE DEF cache
    <2>5. Good(moved, white, sweep, held) /\ moved.nuse = p.nuse /\ Size(moved) = Size(p)
        BY <2>3, <2>4, CacheGood
    <2>6. NotOver(moved)
        BY <2>5 DEF NotOver
    <2> HIDE DEF moved
    <2>7. OutcomeGood(made)
        BY <2>5, <2>6, InternGood
    <2>8. made = [pool |-> made.pool, a |-> made.a, collected |-> made.collected]
        <3>1. \E x, y, z : made = Got(x, y, z)
            BY DEF internshrstr
        <3>2. PICK x, y, z : made = [pool |-> x, a |-> y, collected |-> z]
            BY <3>1 DEF Got
        <3> HIDE DEF made
        <3> QED BY <3>2
    <2> HIDE DEF made, hits
    <2>9. CASE made.a = 0
        BY <1>2, <1>4, <2>7, <2>9
    <2>10. CASE made.a # 0
        <3> DEFINE m == made.pool
                   cache2 == [m.cache EXCEPT ![row] = [@ EXCEPT ![1] = made.a]]
                   q == [m EXCEPT !.cache = cache2]
        <3>1. o = [made EXCEPT !.pool.cache[row][1] = made.a]
            BY <1>2, <1>4, <2>10
        <3>2. o = [pool |-> q, a |-> made.a, collected |-> made.collected]
            <4>1. o = [made EXCEPT !.pool = q]
                BY <3>1
            <4> HIDE DEF q
            <4>2. PICK x, y, z : made = [pool |-> x, a |-> y, collected |-> z]
                BY <2>8
            <4> QED BY <4>1, <4>2
        <3>3. Good(m, white, LeftToSweep(made), held) /\ NotOver(m) /\ made.a \in Objects(m) /\ m.str[made.a].color # 1 - white
            BY <2>7, <2>10 DEF OutcomeGood
        <3> HIDE DEF m
        <3>4. /\ m.cache \in [Rows -> [1..Ways -> Objects(m)]]
              /\ \A r \in Rows, w \in 1..Ways : m.cache[r][w] \in Objects(m) /\ m.str[m.cache[r][w]].color # 1 - white
            BY <3>3, CacheAlive
        <3>5. cache2 \in [Rows -> [1..Ways -> Objects(m)]]
            BY <3>2, <3>3, <3>4
        <3>6. \A r \in Rows, w \in 1..Ways : m.str[cache2[r][w]].color # 1 - white
            BY <3>2, <3>3, <3>4
        <3> HIDE DEF cache2
        <3>7. /\ Good(q, white, LeftToSweep(made), held) /\ q.str = m.str /\ q.nuse = m.nuse /\ Size(q) = Size(m)
            BY <3>3, <3>5, <3>6, CacheGood
        <3> HIDE DEF q
        <3>8. o.pool = q /\ o.a = made.a /\ o.collected = made.collected
            BY <3>2
        <3>9. LeftToSweep(o) = LeftToSweep(made) /\ NotOver(q) /\ Objects(q) = Objects(m)
            BY <3>3, <3>7, <3>8 DEF LeftToSweep, NotOver, Objects
        <3> QED BY <3>3, <3>7, <3>8, <3>9 DEF OutcomeGood
    <2> QED BY <2>9, <2>10
<1> QED BY <1>3, <1>4

-----------------------------------------------------------------------------
LEMMA PoolInvInit == PoolInit => PoolInv
<1> SUFFICES ASSUME PoolInit PROVE PoolInv
    OBVIOUS
<1> DEFINE str == [a \in {memerrmsg} |-> [key |-> Message, color |-> Black]]
           cache == [r \in Rows |-> [w \in 1..Ways |-> memerrmsg]]
           first(n) == [h \in 0..n - 1 |-> IF h = HashOf[Message] % n THEN {memerrmsg} ELSE {}]
<1>1. PICK n \in TabSizes : pool = [str |-> str, hash |-> first(n), nuse |-> 1, cache |-> cache]
    BY DEF PoolInit
<1>2. n \in Nat \ {0} /\ Message \in Texts /\ memerrmsg \in Addresses
    BY StringAssumption, MessageAddress
<1> HIDE DEF str, cache, first
<1>3. /\ pool.str = str /\ pool.hash = first(n) /\ pool.nuse = 1 /\ pool.cache = cache
      /\ pool = [str |-> pool.str, hash |-> pool.hash, nuse |-> pool.nuse, cache |-> pool.cache]
    BY <1>1
<1>4. Objects(pool) = {memerrmsg} /\ pool.str[memerrmsg] = [key |-> Message, color |-> Black]
    BY <1>3 DEF Objects, str
<1>5. Buckets(pool, n)
    BY <1>2, <1>3 DEF Buckets, first
<1>6. Size(pool) = n /\ DOMAIN pool.hash = 0..n - 1
    BY <1>5, SizeIs
<1>7. PoolTyped(pool)
    <2>1. pool.str \in [{memerrmsg} -> [key : Texts, color : 0..2]]
        BY <1>2, <1>3 DEF str, Black
    <2>2. pool.cache \in [Rows -> [1..Ways -> {memerrmsg}]]
        BY <1>3 DEF cache
    <2> QED BY <1>2, <1>3, <1>4, <1>5, <2>1, <2>2 DEF PoolTyped
<1>8. Unique(pool) /\ MessageKept(pool)
    BY <1>4 DEF Unique, MessageKept
<1>9. Hashed(pool)
    <2> SUFFICES ASSUME NEW h \in 0..n - 1
                 PROVE  pool.hash[h] = {a \in Objects(pool) : Bucket(pool, pool.str[a].key) = h}
        BY <1>6 DEF Hashed
    <2>1. pool.hash[h] = IF h = HashOf[Message] % n THEN {memerrmsg} ELSE {}
        BY <1>3 DEF first
    <2>2. Bucket(pool, pool.str[memerrmsg].key) = HashOf[Message] % n
        BY <1>4, <1>6 DEF Bucket
    <2> QED BY <1>4, <2>1, <2>2
<1>10. CountRight(pool) /\ NotOver(pool)
    <2>1. Cardinality({memerrmsg}) = 1
        BY FS_Singleton
    <2> QED BY <1>2, <1>3, <1>4, <1>6, <2>1 DEF CountRight, NotOver
<1>11. white = 0 /\ held = {} /\ sweep = {} /\ sweeping = FALSE
    BY DEF PoolInit
<1>12. Coloured(pool, white, sweep)
    BY <1>4, <1>11 DEF Coloured
<1>13. Alive(pool, white, held)
    <2>1. \A r \in Rows, w \in 1..Ways : pool.cache[r][w] = memerrmsg
        BY <1>3 DEF cache
    <2>2. Reached(pool, held) \subseteq {memerrmsg}
        BY <1>11, <2>1 DEF Reached
    <2>3. pool.str[memerrmsg].color # 1 - white
        BY <1>4, <1>11 DEF Black
    <2> QED BY <1>4, <2>2, <2>3 DEF Alive
<1> QED BY <1>7, <1>8, <1>9, <1>10, <1>11, <1>12, <1>13 DEF PoolInv, Good, Sane

\* What a call gives is taken.
LEMMA TakeKeeps ==
    ASSUME PoolInv, NEW o, OutcomeGood(o), o.collected \in BOOLEAN, Take(o)
    PROVE  PoolInv'
<1>1. /\ pool' = o.pool /\ sweep' = LeftToSweep(o) /\ white' = white
      /\ held' = held \cup ({o.a} \ {0, memerrmsg})
    BY DEF Take, LeftToSweep
<1>2. sweeping' \in BOOLEAN /\ (~sweeping' => sweep' = {})
    BY DEF Take, PoolInv
<1>3. Sane(o.pool) /\ Coloured(o.pool, white, LeftToSweep(o)) /\ Alive(o.pool, white, held)
    BY DEF OutcomeGood, Good
<1>4. Alive(o.pool, white, held \cup ({o.a} \ {0, memerrmsg}))
    BY <1>3 DEF OutcomeGood, Alive, Reached
<1>5. Good(o.pool, white, LeftToSweep(o), held \cup ({o.a} \ {0, memerrmsg}))
    BY <1>3, <1>4 DEF Good
<1>6. Good(pool', white', sweep', held')
    BY <1>1, <1>5
<1>7. NotOver(pool')
    BY <1>1 DEF OutcomeGood
<1>8. white' \in {0, 1}
    BY <1>1 DEF PoolInv
<1> QED BY <1>2, <1>6, <1>7, <1>8 DEF PoolInv

LEMMA InternBoolean ==
    ASSUME NEW p, NEW key, NEW memory, NEW fails
    PROVE  internshrstr(p, key, memory, fails).collected \in BOOLEAN
BY DEF internshrstr, Got

LEMMA NewBoolean ==
    ASSUME NEW p, NEW row, NEW key, NEW memory, NEW fails
    PROVE  luaS_new(p, row, key, memory, fails).collected \in BOOLEAN
<1> DEFINE o == luaS_new(p, row, key, memory, fails)
           moved == [p EXCEPT !.cache[row] = [w \in 1..Ways |-> IF w = 1 THEN @[1] ELSE @[w - 1]]]
           made == internshrstr(moved, key, memory, fails)
<1>1. PICK x, y, z : made = [pool |-> x, a |-> y, collected |-> z] /\ z \in BOOLEAN
    <2>1. \E x, y, z : made = Got(x, y, z)
        BY DEF internshrstr
    <2>2. made.collected \in BOOLEAN
        BY InternBoolean
    <2> HIDE DEF made
    <2> QED BY <2>1, <2>2 DEF Got
<1>2. \/ \E a : o = Got(p, a, FALSE)
      \/ o = made
      \/ o = [made EXCEPT !.pool.cache[row][1] = made.a]
    BY DEF luaS_new
<1>3. o.collected = FALSE \/ o.collected = z
    <2> HIDE DEF made, o
    <2> QED BY <1>1, <1>2 DEF Got
<1> QED BY <1>1, <1>3

LEMMA AtomicKeeps ==
    ASSUME PoolInv, Atomic
    PROVE  PoolInv'
<1> DEFINE marked == held \cup {memerrmsg}
           c == luaS_clearcache(pool, marked)
           str == [a \in Objects(pool) |-> IF a \in marked THEN [pool.str[a] EXCEPT !.color = Black] ELSE pool.str[a]]
<1>0. Sane(pool) /\ Coloured(pool, white, sweep) /\ Alive(pool, white, held) /\ white \in {0, 1} /\ NotOver(pool)
    BY DEF PoolInv, Good
<1>1. /\ c.str = pool.str /\ c.hash = pool.hash /\ c.nuse = pool.nuse
      /\ c = [str |-> c.str, hash |-> c.hash, nuse |-> c.nuse, cache |-> c.cache]
      /\ c.cache \in [Rows -> [1..Ways -> Objects(pool) \cap marked]]
    <2>1. memerrmsg \in marked
        OBVIOUS
    <2> HIDE DEF marked
    <2> QED BY <1>0, <2>1, ClearedCache
<1>2. pool' = [c EXCEPT !.str = str]
    <2>1. pool' = [luaS_clearcache(pool, marked) EXCEPT
                     !.str = [a \in Objects(pool) |-> IF a \in marked THEN [@[a] EXCEPT !.color = Black] ELSE @[a]]]
        BY DEF Atomic
    <2> HIDE DEF marked
    <2>2. pool' = [c EXCEPT !.str = [a \in Objects(pool) |-> IF a \in marked THEN [c.str[a] EXCEPT !.color = Black] ELSE c.str[a]]]
        BY <2>1
    <2> HIDE DEF c
    <2>3. str = [a \in Objects(pool) |-> IF a \in marked THEN [c.str[a] EXCEPT !.color = Black] ELSE c.str[a]]
        BY <1>1
    <2> QED BY <2>2, <2>3
<1>3. white' = 1 - white /\ sweep' = Objects(pool) \ {memerrmsg} /\ sweeping' = TRUE /\ held' = held
    BY DEF Atomic, otherwhite
<1> HIDE DEF c, str
<1>4. pool' = [str |-> str, hash |-> c.hash, nuse |-> c.nuse, cache |-> c.cache]
    BY <1>1, <1>2, RecordOf
<1> DEFINE q == pool'
<1>5. /\ q.str = str /\ q.hash = pool.hash /\ q.nuse = pool.nuse /\ q.cache = c.cache
      /\ q = [str |-> q.str, hash |-> q.hash, nuse |-> q.nuse, cache |-> q.cache]
    BY <1>1, <1>4
<1> HIDE DEF q
<1>6. Size(q) = Size(pool) /\ Objects(q) = Objects(pool)
    BY <1>5 DEF Size, Objects, str
<1>7. pool.str \in [Objects(pool) -> [key : Texts, color : 0..2]] /\ memerrmsg \in Objects(pool)
    BY <1>0 DEF Sane, PoolTyped, MessageKept
<1>8. \A a \in Objects(pool) :
         /\ q.str[a] \in [key : Texts, color : 0..2] /\ q.str[a].key = pool.str[a].key
         /\ a \in marked => q.str[a] = [key |-> pool.str[a].key, color |-> Black]
    <2> HIDE DEF marked
    <2> QED BY <1>5, <1>7 DEF str, Black
<1>9. PoolTyped(q)
    <2>1. \E n : Buckets(q, n)
        BY <1>0, <1>5 DEF Sane, PoolTyped, Buckets
    <2>2. q.cache \in [Rows -> [1..Ways -> Objects(q)]]
        <3> HIDE DEF marked
        <3>1. \A r \in Rows : q.cache[r] \in [1..Ways -> Objects(q)]
            BY <1>1, <1>5, <1>6
        <3> QED BY <1>1, <1>5, <3>1
    <2>3. q.str \in [Objects(q) -> [key : Texts, color : 0..2]]
        BY <1>5, <1>6, <1>8 DEF str
    <2>4. Objects(q) \subseteq Addresses
        BY <1>0, <1>6 DEF Sane, PoolTyped
    <2> QED BY <1>5, <2>1, <2>2, <2>3, <2>4 DEF PoolTyped
<1>10. Unique(q)
    BY <1>0, <1>6, <1>8 DEF Sane, Unique
<1>11. Hashed(q)
    <2>1. \A k : Bucket(q, k) = Bucket(pool, k)
        BY <1>6 DEF Bucket
    <2>2. \A b \in Objects(pool) : Bucket(q, q.str[b].key) = Bucket(pool, pool.str[b].key)
        BY <1>8, <2>1
    <2> QED BY <1>0, <1>5, <1>6, <2>2 DEF Sane, Hashed
<1>12. CountRight(q) /\ NotOver(q)
    BY <1>0, <1>5, <1>6 DEF Sane, CountRight, NotOver
<1>13. MessageKept(q)
    BY <1>0, <1>6, <1>7, <1>8 DEF Sane, MessageKept
<1>14. Coloured(q, white', sweep')
    BY <1>3, <1>6 DEF Coloured
<1>15. Alive(q, white', held')
    <2>1. held \subseteq Objects(pool)
        BY <1>0 DEF Alive, Reached
    <2>2. \A a \in Reached(q, held') : a \in Objects(pool) /\ a \in marked
        <3>1. \A r \in Rows, w \in 1..Ways : q.cache[r][w] \in Objects(pool) \cap marked
            <4> HIDE DEF marked
            <4> QED BY <1>1, <1>5
        <3> QED BY <1>3, <2>1, <3>1 DEF Reached
    <2>3. \A a \in Objects(pool) : a \in marked => q.str[a].color = Black
        <3> HIDE DEF marked
        <3> SUFFICES ASSUME NEW a \in Objects(pool), a \in marked PROVE q.str[a].color = Black
            OBVIOUS
        <3>1. q.str[a] = [key |-> pool.str[a].key, color |-> Black]
            BY <1>8
        <3> QED BY <3>1
    <2>4. Black # 1 - white'
        BY <1>0, <1>3 DEF Black
    <2> HIDE DEF marked
    <2> QED BY <1>6, <2>2, <2>3, <2>4 DEF Alive
<1>16. Sane(q)
    BY <1>9, <1>10, <1>11, <1>12, <1>13 DEF Sane
<1>17. Good(pool', white', sweep', held') /\ NotOver(pool')
    BY <1>12, <1>14, <1>15, <1>16 DEF q, Good
<1>18. white' \in {0, 1} /\ sweeping' \in BOOLEAN /\ (~sweeping' => sweep' = {})
    BY <1>0, <1>3
<1> QED BY <1>17, <1>18 DEF PoolInv

LEMMA SweepKeeps ==
    ASSUME PoolInv, Sweep
    PROVE  PoolInv'
<1>0. /\ Sane(pool) /\ Coloured(pool, white, sweep) /\ Alive(pool, white, held) /\ white \in {0, 1} /\ NotOver(pool)
      /\ sweeping \in BOOLEAN /\ (~sweeping => sweep = {})
    BY DEF PoolInv, Good
<1>1. PICK a \in sweep : /\ pool' = IF isdead(pool, a) THEN Free(pool, a) ELSE [pool EXCEPT !.str[a].color = white]
                         /\ sweep' = sweep \ {a}
    BY DEF Sweep
<1>2. white' = white /\ held' = held /\ sweeping' = sweeping
    BY DEF Sweep
<1>3. a \in Objects(pool) \ {memerrmsg}
    BY <1>0 DEF Coloured
<1>4. CASE isdead(pool, a)
    <2>1. a \notin Reached(pool, held)
        BY <1>0, <1>4 DEF Alive, isdead, otherwhite
    <2>2. \A r \in Rows, w \in 1..Ways : pool.cache[r][w] # a
        BY <2>1 DEF Reached
    <2> DEFINE q == Free(pool, a)
    <2>3. pool' = q
        BY <1>1, <1>4
    <2>4. /\ Sane(q) /\ Objects(q) = Objects(pool) \ {a} /\ q.cache = pool.cache
          /\ q.nuse = pool.nuse - 1 /\ Size(q) = Size(pool)
          /\ \A b \in Objects(q) : q.str[b] = pool.str[b]
        BY <1>0, <1>3, <2>2, FreeKeeps
    <2> HIDE DEF q
    <2>5. Coloured(q, white, sweep \ {a})
        BY <1>0, <2>4 DEF Coloured
    <2>6. Alive(q, white, held)
        <3>1. Reached(q, held) = Reached(pool, held)
            BY <2>4 DEF Reached
        <3> QED BY <1>0, <2>1, <2>4, <3>1 DEF Alive
    <2>7. NotOver(q)
        <3>1. pool.nuse \in Nat /\ Size(pool) \in Nat
            BY <1>0, ObjectsFinite, SizeType DEF Sane, CountRight
        <3> QED BY <1>0, <2>4, <3>1 DEF NotOver
    <2>8. Good(q, white, sweep \ {a}, held)
        BY <2>4, <2>5, <2>6 DEF Good
    <2> QED BY <1>0, <1>1, <1>2, <2>3, <2>7, <2>8 DEF PoolInv
<1>5. CASE ~isdead(pool, a)
    <2> DEFINE q == [pool EXCEPT !.str[a].color = white]
    <2>1. pool' = q
        BY <1>1, <1>5
    <2>2. /\ Sane(q) /\ Objects(q) = Objects(pool) /\ q.cache = pool.cache /\ q.nuse = pool.nuse /\ Size(q) = Size(pool)
          /\ q.str[a].color = white /\ \A b \in Objects(pool) \ {a} : q.str[b] = pool.str[b]
        <3>1. white \in 0..2
            BY <1>0
        <3> QED BY <1>0, <1>3, <3>1, ColourKeeps, ZenonT(40)
    <2> HIDE DEF q
    <2>3. Coloured(q, white, sweep \ {a})
        BY <1>0, <2>2 DEF Coloured
    <2>4. Alive(q, white, held)
        <3>1. Reached(q, held) = Reached(pool, held)
            BY <2>2 DEF Reached
        <3>2. white # 1 - white
            BY <1>0
        <3> QED BY <1>0, <2>2, <3>1, <3>2 DEF Alive
    <2>5. NotOver(q)
        BY <1>0, <2>2 DEF NotOver
    <2>6. Good(q, white, sweep \ {a}, held)
        BY <2>2, <2>3, <2>4 DEF Good
    <2> QED BY <1>0, <1>1, <1>2, <2>1, <2>5, <2>6 DEF PoolInv
<1> QED BY <1>4, <1>5

LEMMA EndSweepKeeps ==
    ASSUME PoolInv, EndSweep
    PROVE  PoolInv'
<1>0. Good(pool, white, sweep, held) /\ NotOver(pool) /\ white \in {0, 1}
    BY DEF PoolInv
<1>1. white' = white /\ held' = held /\ sweep' = sweep /\ sweep = {} /\ sweeping' = FALSE
    BY DEF EndSweep
<1>2. pool.nuse \in Nat /\ Size(pool) \in Nat \ {0}
    BY <1>0, ObjectsFinite, SizeType DEF Good, Sane, CountRight
<1>3. CASE pool.nuse < Size(pool) \div 4
    <2> DEFINE n == Size(pool) \div 2
               q == luaS_resize(pool, n)
    <2>1. pool' = q
        BY <1>3 DEF EndSweep
    <2>2. n \in Nat \ {0} /\ pool.nuse <= n
        BY <1>2, <1>3
    <2> HIDE DEF n
    <2>3. Good(q, white, sweep, held) /\ Size(q) = n /\ q.nuse = pool.nuse
        BY <1>0, <2>2, ResizeGood
    <2> HIDE DEF q
    <2>4. NotOver(q)
        BY <2>2, <2>3 DEF NotOver
    <2> QED BY <1>0, <1>1, <2>1, <2>3, <2>4 DEF PoolInv
<1>4. CASE ~(pool.nuse < Size(pool) \div 4)
    <2>1. pool' = pool
        BY <1>4 DEF EndSweep
    <2> QED BY <1>0, <1>1, <2>1 DEF PoolInv
<1> QED BY <1>3, <1>4

LEMMA PoolInvNext == PoolInv /\ [PoolNext]_poolvars => PoolInv'
<1> SUFFICES ASSUME PoolInv, [PoolNext]_poolvars PROVE PoolInv'
    OBVIOUS
<1>0. Good(pool, white, sweep, held) /\ NotOver(pool) /\ white \in {0, 1}
    BY DEF PoolInv
<1>1. CASE NewString
    <2>1. PICK key \in Texts, memory \in {"enough", "table", "object"}, fails \in BOOLEAN :
             Take(internshrstr(pool, key, memory, fails))
        BY <1>1 DEF NewString
    <2>2. OutcomeGood(internshrstr(pool, key, memory, fails))
        BY <1>0, InternGood
    <2> QED BY <2>1, <2>2, InternBoolean, TakeKeeps
<1>2. CASE NewCached
    <2>1. PICK row \in Rows, key \in Texts, memory \in {"enough", "table", "object"}, fails \in BOOLEAN :
             Take(luaS_new(pool, row, key, memory, fails))
        BY <1>2 DEF NewCached
    <2>2. OutcomeGood(luaS_new(pool, row, key, memory, fails))
        BY <1>0, NewGood
    <2> QED BY <2>1, <2>2, NewBoolean, TakeKeeps
<1>3. CASE Forget
    <2>1. PICK a \in held : held' = held \ {a} /\ pool' = pool /\ white' = white /\ sweep' = sweep /\ sweeping' = sweeping
        BY <1>3 DEF Forget
    <2>2. Alive(pool, white, held \ {a})
        BY <1>0 DEF Good, Alive, Reached
    <2>3. Good(pool, white, sweep, held \ {a})
        BY <1>0, <2>2 DEF Good
    <2> QED BY <1>0, <2>1, <2>3 DEF PoolInv
<1>4. CASE Atomic
    BY <1>4, AtomicKeeps
<1>5. CASE Sweep
    BY <1>5, SweepKeeps
<1>6. CASE EndSweep
    BY <1>6, EndSweepKeeps
<1>7. CASE UNCHANGED poolvars
    <2>1. pool' = pool /\ white' = white /\ held' = held /\ sweep' = sweep /\ sweeping' = sweeping
        BY <1>7 DEF poolvars
    <2> QED BY <2>1 DEF PoolInv
<1> QED BY <1>1, <1>2, <1>3, <1>4, <1>5, <1>6, <1>7 DEF PoolNext

LEMMA PoolInvShared == PoolInv => StringsShared
<1> SUFFICES ASSUME PoolInv PROVE StringsShared
    OBVIOUS
<1>0. Sane(pool) /\ Coloured(pool, white, sweep) /\ Alive(pool, white, held) /\ white \in {0, 1} /\ NotOver(pool)
    BY DEF PoolInv, Good
<1>1. \A a, b \in Objects(pool) : pool.str[a].key = pool.str[b].key => a = b
    BY <1>0 DEF Sane, Unique
<1>2. memerrmsg \in Objects(pool) /\ ~isdead(pool, memerrmsg)
    BY <1>0 DEF Sane, MessageKept, isdead, otherwhite, Black
<1>3. \A a \in held \cup {pool.cache[r][w] : r \in Rows, w \in 1..Ways} \cup {memerrmsg} :
         a \in Objects(pool) /\ ~(sweeping /\ isdead(pool, a))
    BY <1>0, <1>2 DEF Alive, Reached, isdead, otherwhite
<1>4. \A h \in DOMAIN pool.hash : pool.hash[h] = {a \in Objects(pool) : Bucket(pool, pool.str[a].key) = h}
    BY <1>0 DEF Sane, Hashed
<1>5. pool.nuse = Cardinality(Objects(pool)) /\ pool.nuse <= Size(pool)
    BY <1>0 DEF Sane, CountRight, NotOver
<1> QED BY <1>1, <1>3, <1>4, <1>5 DEF StringsShared

\* THEOREM.  However the program makes, drops and asks for strings, whatever the
\* collector has swept and wherever memory runs out: one object for each text,
\* none within reach is dead, and each is in its bucket and counted
\* (internshrstr, luaS_resize, luaS_remove, sweeplist).
THEOREM StringsAreShared == PoolSpec => []StringsShared
<1>1. PoolSpec => []PoolInv
    BY PoolInvInit, PoolInvNext, PTL DEF PoolSpec
<1> QED BY <1>1, PoolInvShared, PTL

-----------------------------------------------------------------------------
(* Tables.                                                                 *)

LEMMA LeastExists ==
    ASSUME NEW S \in SUBSET Nat, S # {}
    PROVE  \E m \in S : \A n \in S : m <= n
<1>1. PICK m \in S : \A n \in S : ~(<<n, m>> \in OpToRel(<, Nat))
    BY NatLessThanWellFounded, WFMin
<1>2. \A n \in S : ~(n < m)
    BY <1>1 DEF OpToRel
<1> QED BY <1>2

\* A loop that goes on until it stops defines a function, though it may not end.
TailReach(D, stop, succ, a, b) ==
    \A S \in SUBSET D : a \in S /\ (\A n \in S : ~stop[n] => succ[n] \in S) => b \in S

TailSolves(D, stop, val, succ, f) == f = [n \in D |-> IF stop[n] THEN val[n] ELSE f[succ[n]]]

LEMMA TailRecursion ==
    ASSUME NEW D, NEW stop \in [D -> BOOLEAN], NEW val, NEW succ \in [D -> D]
    PROVE  \E f : TailSolves(D, stop, val, succ, f)
<1> DEFINE R(a, b) == TailReach(D, stop, succ, a, b)
           Ends(n) == {m \in D : stop[m] /\ R(n, m)}
           f == [n \in D |-> val[CHOOSE m : m \in Ends(n)]]
<1>1. ASSUME NEW n \in D, stop[n] PROVE f[n] = val[n]
    <2>1. R(n, n)
        BY DEF TailReach
    <2>2. ASSUME NEW m \in D, R(n, m) PROVE m = n
        <3>1. {n} \in SUBSET D /\ n \in {n} /\ \A x \in {n} : ~stop[x] => succ[x] \in {n}
            BY <1>1
        <3>2. m \in {n}
            BY <2>2, <3>1 DEF TailReach
        <3> QED BY <3>2
    <2>3. Ends(n) = {n}
        <3> HIDE DEF R
        <3> QED BY <1>1, <2>1, <2>2
    <2> HIDE DEF Ends
    <2> QED BY <2>3
<1>2. ASSUME NEW n \in D, ~stop[n] PROVE f[n] = f[succ[n]]
    <2>1. \A m : R(succ[n], m) => R(n, m)
        BY <1>2 DEF TailReach
    <2>2. ASSUME NEW m, R(n, m), m # n PROVE R(succ[n], m)
        <3> SUFFICES ASSUME NEW S \in SUBSET D, succ[n] \in S, \A x \in S : ~stop[x] => succ[x] \in S
                     PROVE  m \in S
            BY DEF TailReach
        <3> DEFINE U == S \cup {n}
        <3>1. U \in SUBSET D /\ n \in U /\ \A x \in U : ~stop[x] => succ[x] \in U
            OBVIOUS
        <3>2. m \in U
            <4> HIDE DEF U
            <4> QED BY <2>2, <3>1 DEF TailReach
        <3> QED BY <2>2, <3>2
    <2>3. Ends(n) = Ends(succ[n])
        <3> HIDE DEF R
        <3> QED BY <1>2, <2>1, <2>2
    <2>4. succ[n] \in D
        OBVIOUS
    <2> HIDE DEF Ends
    <2> QED BY <2>3, <2>4
<1>3. f = [n \in D |-> IF stop[n] THEN val[n] ELSE f[succ[n]]]
    <2>1. \A n \in D : f[n] = IF stop[n] THEN val[n] ELSE f[succ[n]]
        <3> HIDE DEF f
        <3> QED BY <1>1, <1>2
    <2>2. f = [n \in D |-> f[n]]
        OBVIOUS
    <2> HIDE DEF f
    <2> QED BY <2>1, <2>2
<1> HIDE DEF f
<1> QED BY <1>3 DEF TailSolves

-----------------------------------------------------------------------------
(* The nodes.                                                              *)

V == Values \cup {Nil}
K == Keys \cup Nat
NodeType == [key : Keys \cup {Nil}, val : V, next : Int, dead : BOOLEAN]
Nodes(h) == DOMAIN h.node
Linked(h, n) == h.node[n].next # 0
After1(h, n) == n + h.node[n].next

Sized(h, size) == size \in Nat \ {0} /\ h.node \in [0..size - 1 -> NodeType] /\ h.lastfree \in 0..size

TableTyped(h) ==
    /\ h = [arr |-> h.arr, node |-> h.node, dummy |-> h.dummy, lastfree |-> h.lastfree]
    /\ h.arr \in Seq(V) /\ h.dummy \in BOOLEAN
    /\ \E size : Sized(h, size)
    /\ \A n \in Nodes(h) : After1(h, n) \in Nodes(h)

\* b is on the chain from a on.
Closed(h, S) == \A n \in S : Linked(h, n) => After1(h, n) \in S
Reach(h, a, b) == \A S \in SUBSET Nodes(h) : a \in S /\ Closed(h, S) => b \in S

\* Chains: a free node is on none, no two nodes have the same next one, and
\* they end.
Lone(h) == \A n \in Nodes(h) : h.node[n].key = Nil =>
              ~Linked(h, n) /\ h.node[n].val = Nil /\ ~h.node[n].dead
NoneFree(h) == \A n \in Nodes(h) : Linked(h, n) => h.node[After1(h, n)].key # Nil
OneBefore(h) == \A n, m \in Nodes(h) : Linked(h, n) /\ Linked(h, m) /\ After1(h, n) = After1(h, m) => n = m
Ranks(h, rank) == rank \in [Nodes(h) -> Nat] /\ \A n \in Nodes(h) : Linked(h, n) => rank[After1(h, n)] < rank[n]
Ranked(h) == \E rank : Ranks(h, rank)

\* A key is on the chain from its main position on, where a key is at home; it
\* comes before the dead ones that were equal to it.
Home(h, n) == MainPosition(h, h.node[n].key)
Homes(h) == \A n \in Nodes(h) : h.node[n].key # Nil =>
               h.node[Home(h, n)].key # Nil /\ Home(h, Home(h, n)) = Home(h, n) /\ Reach(h, Home(h, n), n)
LiveFirst(h) == \A n, m \in Nodes(h) :
                   h.node[n].key # Nil /\ ~h.node[n].dead /\ h.node[m].key = h.node[n].key /\ m # n =>
                     h.node[m].dead /\ Reach(h, n, m)
Apart(h) == \A n \in Nodes(h) : h.node[n].key # Nil => ~InArray(h, h.node[n].key)
DeadEmpty(h) == \A n \in Nodes(h) : h.node[n].dead => h.node[n].val = Nil
UsedUp(h) == ~h.dummy => \A n \in Nodes(h) : n >= h.lastfree => h.node[n].key # Nil
DummyNode(h) == h.dummy => h.node = [n \in {0} |-> EmptyNode] /\ h.lastfree = 0
ArrayKeys(h) == \A i \in 1..Len(h.arr) : h.arr[i] # Nil => i \in Keys

Linkage(h) == Lone(h) /\ NoneFree(h) /\ OneBefore(h) /\ Ranked(h)
Sound(h) ==
    /\ TableTyped(h) /\ Linkage(h)
    /\ Homes(h) /\ LiveFirst(h) /\ Apart(h) /\ DeadEmpty(h) /\ UsedUp(h) /\ DummyNode(h) /\ ArrayKeys(h)

LEMMA KeyFacts ==
    /\ \A k \in K : k \in Int /\ k # Nil
    /\ \A k \in K : k \in Nat \/ (k \in OtherKeys /\ k < 0 /\ Hash[k] \in Nat)
    /\ \A k \in K : Normal(k) = k
    /\ Keys \subseteq K
BY KeysAssumption DEF K, Keys, Normal, Nil

LEMMA NodesAre ==
    ASSUME NEW h, NEW size, Sized(h, size)
    PROVE  SizeNode(h) = size /\ Nodes(h) = 0..size - 1 /\ \A n \in Nodes(h) : h.node[n] \in NodeType
<1>1. Nodes(h) = 0..size - 1 /\ size \in Nat \ {0} /\ \A n \in Nodes(h) : h.node[n] \in NodeType
    BY DEF Sized, Nodes
<1>2. Cardinality(0..size - 1) = size
    BY <1>1, FS_Interval
<1> QED BY <1>1, <1>2 DEF SizeNode, Nodes

LEMMA TableNodes ==
    ASSUME NEW h, TableTyped(h)
    PROVE  /\ SizeNode(h) \in Nat \ {0} /\ Nodes(h) = 0..SizeNode(h) - 1 /\ Sized(h, SizeNode(h))
           /\ \A n \in Nodes(h) : h.node[n] \in NodeType /\ After1(h, n) \in Nodes(h)
<1>1. PICK size : Sized(h, size)
    BY DEF TableTyped
<1>2. size \in Nat \ {0}
    BY <1>1 DEF Sized
<1> QED BY <1>1, <1>2, NodesAre DEF TableTyped

\* What a node is.
LEMMA NodeFields ==
    ASSUME NEW h, TableTyped(h), NEW n \in Nodes(h)
    PROVE  /\ h.node[n].key \in Keys \cup {Nil} /\ h.node[n].val \in V /\ h.node[n].next \in Int /\ h.node[n].dead \in BOOLEAN
           /\ h.node[n] = [key |-> h.node[n].key, val |-> h.node[n].val, next |-> h.node[n].next, dead |-> h.node[n].dead]
BY TableNodes DEF NodeType

LEMMA MainPositionType ==
    ASSUME NEW h, TableTyped(h), NEW k \in K
    PROVE  MainPosition(h, k) \in Nodes(h)
<1>1. SizeNode(h) \in Nat \ {0} /\ Nodes(h) = 0..SizeNode(h) - 1
    BY TableNodes
<1>2. \A m \in Nat, n \in Nat \ {0} : m % n \in 0..n - 1
    OBVIOUS
<1>3. k \in Nat \/ (k \in OtherKeys /\ k < 0 /\ Hash[k] \in Nat)
    BY KeyFacts
<1> DEFINE n == IF SizeNode(h) = 1 THEN 1 ELSE SizeNode(h) - 1
<1>4. n \in Nat \ {0} /\ n <= SizeNode(h)
    BY <1>1
<1>5. CASE k \in Nat
    BY <1>1, <1>2, <1>5, SMTT(30) DEF MainPosition, IsInt
<1>6. CASE k \in OtherKeys /\ k < 0 /\ Hash[k] \in Nat
    <2>1. ~IsInt(k)
        BY <1>6, KeyFacts DEF IsInt
    <2>2. Hash[k] % SizeNode(h) \in Nodes(h)
        BY <1>1, <1>2, <1>6
    <2>3. Hash[k] % n \in 0..n - 1
        <3> HIDE DEF n
        <3> QED BY <1>2, <1>4, <1>6
    <2>4. Hash[k] % n \in Nodes(h)
        <3> HIDE DEF n
        <3> QED BY <1>1, <1>4, <2>3
    <2> QED BY <2>1, <2>2, <2>4 DEF MainPosition
<1> QED BY <1>3, <1>5, <1>6

LEMMA SameMain ==
    ASSUME NEW h, NEW q, Nodes(q) = Nodes(h)
    PROVE  SizeNode(q) = SizeNode(h) /\ \A k : MainPosition(q, k) = MainPosition(h, k)
BY DEF Nodes, SizeNode, MainPosition

-----------------------------------------------------------------------------
LEMMA ReachSelf ==
    ASSUME NEW h, NEW a
    PROVE  Reach(h, a, a)
BY DEF Reach

LEMMA ReachNode ==
    ASSUME NEW h, TableTyped(h), NEW a \in Nodes(h), NEW b, Reach(h, a, b)
    PROVE  b \in Nodes(h)
<1>1. Nodes(h) \in SUBSET Nodes(h) /\ Closed(h, Nodes(h))
    BY DEF TableTyped, Closed
<1> QED BY <1>1 DEF Reach

LEMMA ReachStep ==
    ASSUME NEW h, NEW a, NEW b, Reach(h, a, b), Linked(h, b)
    PROVE  Reach(h, a, After1(h, b))
BY DEF Reach, Closed

\* What a node reaches, another one before it does.
LEMMA ReachBefore ==
    ASSUME NEW h, TableTyped(h), NEW a \in Nodes(h), NEW b, Reach(h, a, b), b # a
    PROVE  \E m \in Nodes(h) : Reach(h, a, m) /\ Linked(h, m) /\ After1(h, m) = b
<1> DEFINE S == {x \in Nodes(h) : x = a \/ \E m \in Nodes(h) : Reach(h, a, m) /\ Linked(h, m) /\ After1(h, m) = x}
<1>1. \A x \in S : Reach(h, a, x)
    <2> TAKE x \in S
    <2>1. CASE x = a
        BY <2>1, ReachSelf
    <2>2. CASE \E m \in Nodes(h) : Reach(h, a, m) /\ Linked(h, m) /\ After1(h, m) = x
        BY <2>2, ReachStep
    <2> QED BY <2>1, <2>2
<1>2. Closed(h, S)
    <2> SUFFICES ASSUME NEW x \in S, Linked(h, x) PROVE After1(h, x) \in S
        BY DEF Closed
    <2>1. After1(h, x) \in Nodes(h)
        BY DEF TableTyped
    <2>2. Reach(h, a, x)
        BY <1>1
    <2> QED BY <2>1, <2>2
<1>3. S \in SUBSET Nodes(h) /\ a \in S
    OBVIOUS
<1>4. b \in S
    <2> HIDE DEF S
    <2> QED BY <1>2, <1>3 DEF Reach
<1> QED BY <1>4

LEMMA ReachRank ==
    ASSUME NEW h, TableTyped(h), NEW rank, Ranks(h, rank), NEW a \in Nodes(h), NEW b, Reach(h, a, b)
    PROVE  rank[b] <= rank[a] /\ (b # a => rank[b] < rank[a])
<1> DEFINE S == {x \in Nodes(h) : x = a \/ rank[x] < rank[a]}
<1>1. rank \in [Nodes(h) -> Nat] /\ \A n \in Nodes(h) : Linked(h, n) => rank[After1(h, n)] < rank[n]
    BY DEF Ranks
<1>2. Closed(h, S)
    <2> SUFFICES ASSUME NEW x \in S, Linked(h, x) PROVE After1(h, x) \in S
        BY DEF Closed
    <2>1. After1(h, x) \in Nodes(h)
        BY DEF TableTyped
    <2>2. rank[After1(h, x)] < rank[x]
        BY <1>1
    <2>3. rank[After1(h, x)] \in Nat /\ rank[x] \in Nat /\ rank[a] \in Nat
        BY <1>1, <2>1
    <2> QED BY <2>1, <2>2, <2>3
<1>3. S \in SUBSET Nodes(h) /\ a \in S
    OBVIOUS
<1>4. b \in S
    <2> HIDE DEF S
    <2> QED BY <1>2, <1>3 DEF Reach
<1> QED BY <1>1, <1>4

\* The links alone tell what is reached.
LEMMA SameReach ==
    ASSUME NEW h, NEW q, Nodes(q) = Nodes(h), \A n \in Nodes(h) : q.node[n].next = h.node[n].next
    PROVE  \A a, b : Reach(q, a, b) <=> Reach(h, a, b)
<1>1. \A S \in SUBSET Nodes(h) : Closed(q, S) <=> Closed(h, S)
    BY DEF Closed, Linked, After1
<1> QED BY <1>1 DEF Reach

-----------------------------------------------------------------------------
(* Looking up.                                                             *)

Hit(h, k, evenDead, n) == h.node[n].key = k /\ (evenDead \/ ~h.node[n].dead)
Walk(h, k, evenDead, from) ==
    \A n \in Nodes(h) : from[n] = IF Hit(h, k, evenDead, n) THEN n
                                  ELSE IF ~Linked(h, n) THEN None ELSE from[After1(h, n)]

LEMMA ChainWalk ==
    ASSUME NEW h, TableTyped(h), NEW k, NEW evenDead
    PROVE  \E from : Walk(h, k, evenDead, from) /\ InChain(h, k, evenDead) = from[MainPosition(h, k)]
<1> DEFINE Def(f) == f = [n \in DOMAIN h.node |->
                            IF h.node[n].key = k /\ (evenDead \/ ~h.node[n].dead) THEN n
                            ELSE IF h.node[n].next = 0 THEN None ELSE f[n + h.node[n].next]]
           from == CHOOSE f : Def(f)
           stop == [n \in Nodes(h) |-> Hit(h, k, evenDead, n) \/ ~Linked(h, n)]
           val == [n \in Nodes(h) |-> IF Hit(h, k, evenDead, n) THEN n ELSE None]
           succ == [n \in Nodes(h) |-> After1(h, n)]
<1>1. InChain(h, k, evenDead) = from[MainPosition(h, k)]
    BY DEF InChain
<1>2. \E f : Def(f)
    <2>1. stop \in [Nodes(h) -> BOOLEAN] /\ succ \in [Nodes(h) -> Nodes(h)]
        BY TableNodes DEF Hit, Linked
    <2>2. PICK f : f = [n \in Nodes(h) |-> IF stop[n] THEN val[n] ELSE f[succ[n]]]
        <3> HIDE DEF stop, val, succ
        <3>1. \E f : TailSolves(Nodes(h), stop, val, succ, f)
            BY <2>1, TailRecursion
        <3> QED BY <3>1 DEF TailSolves
    <2>3. \A n \in Nodes(h) : (IF stop[n] THEN val[n] ELSE f[succ[n]]) =
             IF h.node[n].key = k /\ (evenDead \/ ~h.node[n].dead) THEN n
             ELSE IF h.node[n].next = 0 THEN None ELSE f[n + h.node[n].next]
        BY DEF Hit, Linked, After1
    <2> HIDE DEF stop, val, succ
    <2>4. Def(f)
        BY <2>2, <2>3 DEF Nodes
    <2> QED BY <2>4
<1>3. Def(from)
    BY <1>2
<1>4. Walk(h, k, evenDead, from)
    <2> HIDE DEF from
    <2> QED BY <1>3 DEF Walk, Nodes, Hit, Linked, After1
<1> HIDE DEF from
<1> QED BY <1>1, <1>4

\* A walk gives a node with the key, or none.
LEMMA WalkGives ==
    ASSUME NEW h, TableTyped(h), Ranked(h), NEW k, NEW evenDead, NEW from, Walk(h, k, evenDead, from)
    PROVE  \A n \in Nodes(h) : from[n] = None \/ (from[n] \in Nodes(h) /\ Hit(h, k, evenDead, from[n]))
<1> DEFINE Ok(n) == from[n] = None \/ (from[n] \in Nodes(h) /\ Hit(h, k, evenDead, from[n]))
<1> SUFFICES ASSUME NEW a \in Nodes(h), ~Ok(a) PROVE FALSE
    OBVIOUS
<1>1. PICK rank : rank \in [Nodes(h) -> Nat] /\ \A n \in Nodes(h) : Linked(h, n) => rank[After1(h, n)] < rank[n]
    BY DEF Ranked, Ranks
<1> DEFINE S == {rank[n] : n \in {m \in Nodes(h) : ~Ok(m)}}
<1>2. S \in SUBSET Nat /\ S # {}
    <2> HIDE DEF Ok
    <2> QED BY <1>1
<1>3. PICK least \in S : \A x \in S : least <= x
    <2> HIDE DEF S
    <2> QED BY <1>2, LeastExists
<1>4. PICK n \in Nodes(h) : ~Ok(n) /\ rank[n] = least
    <2> HIDE DEF Ok
    <2> QED BY <1>3
<1>5. ~Hit(h, k, evenDead, n) /\ Linked(h, n) /\ from[n] = from[After1(h, n)]
    BY <1>4 DEF Walk
<1>6. After1(h, n) \in Nodes(h)
    BY DEF TableTyped
<1>7. ~Ok(After1(h, n)) /\ rank[After1(h, n)] < rank[n]
    BY <1>1, <1>4, <1>5
<1>8. rank[After1(h, n)] \in S
    <2> HIDE DEF Ok
    <2> QED BY <1>6, <1>7
<1> HIDE DEF Ok
<1>9. rank[After1(h, n)] \in Nat /\ rank[n] \in Nat
    BY <1>1, <1>6
<1> HIDE DEF S
<1> QED BY <1>3, <1>4, <1>7, <1>8, <1>9

\* The walk from the main position of a key comes to it before a dead one.
LEMMA WalkFinds ==
    ASSUME NEW h, Sound(h), NEW k \in K, NEW evenDead \in BOOLEAN, NEW from, Walk(h, k, evenDead, from),
           NEW n \in Nodes(h), h.node[n].key = k, ~h.node[n].dead
    PROVE  from[MainPosition(h, k)] = n
<1> DEFINE a == MainPosition(h, k)
           S == {x \in Nodes(h) : from[x] # n /\ ~Reach(h, n, x)}
<1> SUFFICES ASSUME from[a] # n PROVE FALSE
    OBVIOUS
<1>0. TableTyped(h) /\ Homes(h) /\ LiveFirst(h) /\ OneBefore(h)
    BY DEF Sound, Linkage
<1>1. k # Nil /\ a \in Nodes(h)
    BY <1>0, KeyFacts, MainPositionType
<1>2. Reach(h, a, n)
    BY <1>0, <1>1 DEF Homes, Home
<1>3. from[n] = n
    BY DEF Walk, Hit
<1>4. a \in S
    <2>1. a # n
        BY <1>3
    <2>2. PICK rank : Ranks(h, rank)
        BY DEF Sound, Linkage, Ranked
    <2>3. rank[n] < rank[a]
        BY <1>0, <1>1, <1>2, <2>1, <2>2, ReachRank
    <2>4. ~Reach(h, n, a)
        <3> SUFFICES ASSUME Reach(h, n, a) PROVE FALSE
            OBVIOUS
        <3>1. rank[a] <= rank[n]
            BY <1>0, <2>2, ReachRank
        <3>2. rank[a] \in Nat /\ rank[n] \in Nat
            BY <1>1, <2>2 DEF Ranks
        <3> HIDE DEF a
        <3> QED BY <2>3, <3>1, <3>2
    <2> QED BY <1>1, <2>4
<1>5. Closed(h, S)
    <2> SUFFICES ASSUME NEW x \in S, Linked(h, x) PROVE After1(h, x) \in S
        BY DEF Closed
    <2> DEFINE y == After1(h, x)
    <2>1. y \in Nodes(h)
        BY <1>0 DEF TableTyped
    <2>2. ~Hit(h, k, evenDead, x)
        <3> SUFFICES ASSUME Hit(h, k, evenDead, x) PROVE FALSE
            OBVIOUS
        <3>1. x # n
            BY <1>3
        <3>2. Reach(h, n, x)
            BY <1>0, <1>1, <3>1 DEF LiveFirst, Hit
        <3> QED BY <3>2
    <2>3. from[y] = from[x]
        BY <2>2 DEF Walk
    <2>4. ~Reach(h, n, y)
        <3> SUFFICES ASSUME Reach(h, n, y) PROVE FALSE
            OBVIOUS
        <3>1. y # n
            BY <1>3, <2>3
        <3> HIDE DEF y
        <3>2. PICK m \in Nodes(h) : Reach(h, n, m) /\ Linked(h, m) /\ After1(h, m) = y
            BY <1>0, <3>1, ReachBefore
        <3>3. m = x
            BY <1>0, <3>2 DEF OneBefore, y
        <3> QED BY <3>2, <3>3
    <2> QED BY <2>1, <2>3, <2>4
<1>6. n \notin S
    BY <1>3
<1> HIDE DEF S, a
<1>7. S \in SUBSET Nodes(h)
    BY DEF S
<1> QED BY <1>2, <1>4, <1>5, <1>6, <1>7 DEF Reach

LEMMA FindLive ==
    ASSUME NEW h, Sound(h), NEW k \in K, NEW n \in Nodes(h), h.node[n].key = k, ~h.node[n].dead
    PROVE  NodeOf(h, k) = n /\ FindNode(h, k) = n
<1>1. \A e \in BOOLEAN : InChain(h, k, e) = n
    <2> TAKE e \in BOOLEAN
    <2>1. TableTyped(h)
        BY DEF Sound
    <2>2. PICK from : Walk(h, k, e, from) /\ InChain(h, k, e) = from[MainPosition(h, k)]
        BY <2>1, ChainWalk
    <2> QED BY <2>2, WalkFinds
<1> QED BY <1>1 DEF NodeOf, FindNode

LEMMA FindAny ==
    ASSUME NEW h, TableTyped(h), Ranked(h), NEW k \in K, NEW e
    PROVE  InChain(h, k, e) = None \/ (InChain(h, k, e) \in Nodes(h) /\ Hit(h, k, e, InChain(h, k, e)))
<1>1. PICK from : Walk(h, k, e, from) /\ InChain(h, k, e) = from[MainPosition(h, k)]
    BY ChainWalk
<1>2. MainPosition(h, k) \in Nodes(h)
    BY MainPositionType
<1> QED BY <1>1, <1>2, WalkGives

\* A node that has the key, and is not dead.
Has(h, k, n) == n \in Nodes(h) /\ h.node[n].key = k /\ ~h.node[n].dead

LEMMA NodeOfIs ==
    ASSUME NEW h, Sound(h), NEW k \in K
    PROVE  /\ NodeOf(h, k) = None => \A n : ~Has(h, k, n)
           /\ NodeOf(h, k) # None => Has(h, k, NodeOf(h, k))
           /\ \A n : Has(h, k, n) => NodeOf(h, k) = n /\ NodeOf(h, k) # None
<1>0. TableTyped(h) /\ Ranked(h)
    BY DEF Sound, Linkage
<1>1. \A n : Has(h, k, n) => NodeOf(h, k) = n
    BY FindLive DEF Has
<1>2. NodeOf(h, k) = None \/ Has(h, k, NodeOf(h, k))
    BY <1>0, FindAny DEF NodeOf, Has, Hit
<1>3. \A n \in Nodes(h) : n # None
    BY <1>0, TableNodes DEF None
<1> QED BY <1>1, <1>2, <1>3 DEF Has

LEMMA GetIs ==
    ASSUME NEW h, Sound(h), NEW k \in K
    PROVE  /\ InArray(h, k) => Get(h, k) = h.arr[k]
           /\ \A n : Has(h, k, n) /\ ~InArray(h, k) => Get(h, k) = h.node[n].val
           /\ (~InArray(h, k) /\ \A n : ~Has(h, k, n)) => Get(h, k) = Nil
<1>1. Normal(k) = k
    BY KeyFacts
<1> QED BY <1>1, NodeOfIs DEF Get

-----------------------------------------------------------------------------
(* What the operations on nodes make of a table.                           *)

Rec(k, v, next, dead) == [key |-> k, val |-> v, next |-> next, dead |-> dead]
Table(arr, node, dummy, lastfree) == [arr |-> arr, node |-> node, dummy |-> dummy, lastfree |-> lastfree]
Shaped(h) ==
    /\ h = Table(h.arr, h.node, h.dummy, h.lastfree)
    /\ h.node = [n \in Nodes(h) |-> h.node[n]]
    /\ \A n \in Nodes(h) : h.node[n] = Rec(h.node[n].key, h.node[n].val, h.node[n].next, h.node[n].dead)

Rebuilt(h, q) == Shaped(q) /\ Nodes(q) = Nodes(h) /\ q.arr = h.arr /\ q.dummy = h.dummy

LEMMA TypedShaped ==
    ASSUME NEW h, TableTyped(h)
    PROVE  Shaped(h)
<1>1. h = Table(h.arr, h.node, h.dummy, h.lastfree)
    BY DEF TableTyped, Table
<1>2. PICK size : Sized(h, size)
    BY DEF TableTyped
<1>3. h.node = [n \in Nodes(h) |-> h.node[n]]
    BY <1>2 DEF Sized, Nodes
<1>4. \A n \in Nodes(h) : h.node[n] = Rec(h.node[n].key, h.node[n].val, h.node[n].next, h.node[n].dead)
    BY NodeFields DEF Rec
<1> QED BY <1>1, <1>3, <1>4 DEF Shaped

TakeEffect(h, q) == Rebuilt(h, q) /\ q.node = h.node /\ q.lastfree = FreePos(h)

LEMMA TakeIs ==
    ASSUME NEW h, Shaped(h), FreePos(h) # None
    PROVE  TakeEffect(h, TakeFreePos(h))
<1> DEFINE q == TakeFreePos(h)
<1>1. h = Table(h.arr, h.node, h.dummy, h.lastfree)
    BY DEF Shaped
<1>2. q = [h EXCEPT !.lastfree = FreePos(h)]
    BY DEF TakeFreePos
<1> HIDE DEF q
<1>3. q = Table(h.arr, h.node, h.dummy, FreePos(h))
    BY <1>1, <1>2 DEF Table
<1>4. q.arr = h.arr /\ q.node = h.node /\ q.dummy = h.dummy /\ q.lastfree = FreePos(h)
    BY <1>3 DEF Table
<1>5. Nodes(q) = Nodes(h)
    BY <1>4 DEF Nodes
<1>6. Shaped(q)
    BY <1>3, <1>4, <1>5 DEF Shaped
<1> QED BY <1>4, <1>5, <1>6 DEF Rebuilt, q, TakeEffect

WithPut(r, k, v) == [r EXCEPT !.key = k, !.val = v, !.dead = FALSE]
LEMMA RecPut ==
    ASSUME NEW r, r = Rec(r.key, r.val, r.next, r.dead), NEW k, NEW v
    PROVE  WithPut(r, k, v) = Rec(k, v, r.next, FALSE)
<1> DEFINE q == [r EXCEPT !.key = k, !.val = v, !.dead = FALSE]
<1>1. DOMAIN r = {"key", "val", "next", "dead"}
    BY DEF Rec
<1>2. q = [x \in DOMAIN r |-> IF x = "dead" THEN FALSE ELSE IF x = "val" THEN v ELSE IF x = "key" THEN k ELSE r[x]]
    BY Zenon
<1> HIDE DEF q
<1>3. q = Rec(k, v, r.next, FALSE)
    BY <1>1, <1>2 DEF Rec
<1> QED BY <1>3, Zenon DEF q, WithPut

LEMMA RecNext ==
    ASSUME NEW r, NEW k0, NEW v0, NEW n0, NEW d0, r = Rec(k0, v0, n0, d0), NEW n
    PROVE  [r EXCEPT !.next = n] = Rec(k0, v0, n, d0)
BY DEF Rec

\* Other nodes, made node by node.
LEMMA NodesRebuilt ==
    ASSUME NEW h, Shaped(h), NEW q, NEW node,
           q = [h EXCEPT !.node = node], DOMAIN node = Nodes(h), node = [n \in Nodes(h) |-> node[n]],
           \A n \in Nodes(h) : node[n] = Rec(node[n].key, node[n].val, node[n].next, node[n].dead)
    PROVE  Rebuilt(h, q) /\ q.node = node /\ q.lastfree = h.lastfree
<1>1. h = Table(h.arr, h.node, h.dummy, h.lastfree)
    BY DEF Shaped
<1>3. q = Table(h.arr, node, h.dummy, h.lastfree)
    BY <1>1 DEF Table
<1>4. q.arr = h.arr /\ q.node = node /\ q.dummy = h.dummy /\ q.lastfree = h.lastfree
    BY <1>3 DEF Table
<1>5. Nodes(q) = Nodes(h)
    BY <1>4 DEF Nodes
<1>6. Shaped(q)
    BY <1>3, <1>4, <1>5 DEF Shaped
<1> QED BY <1>4, <1>5, <1>6 DEF Rebuilt

WithEmpty(r) == [r EXCEPT !.val = Nil, !.next = 0]
LEMMA RecEmpty ==
    ASSUME NEW r, r = Rec(r.key, r.val, r.next, r.dead)
    PROVE  WithEmpty(r) = Rec(r.key, Nil, 0, r.dead)
<1> DEFINE q == [r EXCEPT !.val = Nil, !.next = 0]
<1>1. DOMAIN r = {"key", "val", "next", "dead"}
    BY DEF Rec
<1>2. q = [x \in DOMAIN r |-> IF x = "next" THEN 0 ELSE IF x = "val" THEN Nil ELSE r[x]]
    BY Zenon
<1> HIDE DEF q
<1>3. q = Rec(r.key, Nil, 0, r.dead)
    BY <1>1, <1>2 DEF Rec
<1> QED BY <1>3, Zenon DEF q, WithEmpty

LEMMA NodePut ==
    ASSUME NEW h, Shaped(h), NEW a \in Nodes(h), NEW k, NEW v, NEW next, NEW dead
    PROVE  LET q == [h EXCEPT !.node[a] = Rec(k, v, next, dead)] IN
           /\ Rebuilt(h, q) /\ q.lastfree = h.lastfree
           /\ q.node[a] = Rec(k, v, next, dead)
           /\ \A n \in Nodes(h) : n # a => q.node[n] = h.node[n]
<1> DEFINE q == [h EXCEPT !.node[a] = Rec(k, v, next, dead)]
           node == [h.node EXCEPT ![a] = Rec(k, v, next, dead)]
<1>1. q = [h EXCEPT !.node = node]
    OBVIOUS
<1>4. node = [n \in Nodes(h) |-> node[n]] /\ DOMAIN node = Nodes(h)
    BY DEF Shaped, Nodes
<1>5. node[a] = Rec(k, v, next, dead)
    BY DEF Nodes
<1>6. \A n \in Nodes(h) : n # a => node[n] = h.node[n]
    BY DEF Nodes
<1> HIDE DEF node
<1>7. \A n \in Nodes(h) : node[n] = Rec(node[n].key, node[n].val, node[n].next, node[n].dead)
    <2> TAKE n \in Nodes(h)
    <2>1. CASE n = a
        BY <1>5, <2>1 DEF Rec
    <2>2. CASE n # a
        BY <1>6, <2>2 DEF Shaped
    <2> QED BY <2>1, <2>2
<1> HIDE DEF q
<1>8. Rebuilt(h, q) /\ q.node = node /\ q.lastfree = h.lastfree
    BY <1>1, <1>4, <1>7, NodesRebuilt
<1> QED BY <1>5, <1>6, <1>8 DEF q

PutEffect(h, q, a, k, v) ==
    /\ Rebuilt(h, q) /\ q.lastfree = h.lastfree
    /\ q.node[a] = Rec(k, v, h.node[a].next, FALSE)
    /\ \A n \in Nodes(h) : n # a => q.node[n] = h.node[n]

LEMMA PutIs ==
    ASSUME NEW h, Shaped(h), NEW a \in Nodes(h), NEW k, NEW v
    PROVE  PutEffect(h, PutNode(h, a, k, v), a, k, v)
<1> DEFINE q == PutNode(h, a, k, v)
           node == [h.node EXCEPT ![a] = WithPut(@, k, v)]
<1>1. q = [h EXCEPT !.node = node]
    BY Zenon DEF PutNode, WithPut
<1>2. h.node[a] = Rec(h.node[a].key, h.node[a].val, h.node[a].next, h.node[a].dead)
    BY DEF Shaped
<1>3. WithPut(h.node[a], k, v) = Rec(k, v, h.node[a].next, FALSE)
    BY <1>2, RecPut
<1>4. node = [n \in Nodes(h) |-> node[n]] /\ DOMAIN node = Nodes(h)
    BY DEF Shaped, Nodes
<1>5. node[a] = Rec(k, v, h.node[a].next, FALSE)
    BY <1>3 DEF Nodes
<1>6. \A n \in Nodes(h) : n # a => node[n] = h.node[n]
    BY DEF Nodes
<1> HIDE DEF node
<1>7. \A n \in Nodes(h) : node[n] = Rec(node[n].key, node[n].val, node[n].next, node[n].dead)
    <2> TAKE n \in Nodes(h)
    <2>1. CASE n = a
        BY <1>5, <2>1 DEF Rec
    <2>2. CASE n # a
        BY <1>6, <2>2 DEF Shaped
    <2> QED BY <2>1, <2>2
<1> HIDE DEF q
<1>8. Rebuilt(h, q) /\ q.node = node /\ q.lastfree = h.lastfree
    BY <1>1, <1>4, <1>7, NodesRebuilt
<1> QED BY <1>5, <1>6, <1>8 DEF q, PutEffect

ChainEffect(h, q, a, f) ==
    /\ Rebuilt(h, q) /\ q.lastfree = h.lastfree
    /\ q.node[a] = Rec(h.node[a].key, h.node[a].val, f - a, h.node[a].dead)
    /\ q.node[f].next = IF h.node[a].next = 0 THEN 0 ELSE a + h.node[a].next - f
    /\ \A n \in Nodes(h) : n # a /\ n # f => q.node[n] = h.node[n]

LEMMA ChainIs ==
    ASSUME NEW h, Shaped(h), NEW a \in Nodes(h), NEW f \in Nodes(h), a # f
    PROVE  ChainEffect(h, ChainAfter(h, a, f), a, f)
<1> DEFINE q == ChainAfter(h, a, f)
           next == h.node[a].next
           other == IF next = 0 THEN 0 ELSE a + next - f
           node == [h.node EXCEPT ![f].next = other, ![a].next = f - a]
<1>1. q = [h EXCEPT !.node = node]
    BY DEF ChainAfter
<1>2. \A n \in Nodes(h) : h.node[n] = Rec(h.node[n].key, h.node[n].val, h.node[n].next, h.node[n].dead)
    BY DEF Shaped
<1>3. [h.node[a] EXCEPT !.next = f - a] = Rec(h.node[a].key, h.node[a].val, f - a, h.node[a].dead)
    BY <1>2, RecNext
<1> HIDE DEF other
<1>3a. [h.node[f] EXCEPT !.next = other] = Rec(h.node[f].key, h.node[f].val, other, h.node[f].dead)
    BY <1>2, RecNext
<1>4. node = [n \in Nodes(h) |-> node[n]] /\ DOMAIN node = Nodes(h)
    BY DEF Shaped, Nodes
<1>5. node[a] = Rec(h.node[a].key, h.node[a].val, f - a, h.node[a].dead)
    BY <1>3 DEF Nodes
<1>5a. node[f] = Rec(h.node[f].key, h.node[f].val, other, h.node[f].dead)
    BY <1>3a DEF Nodes
<1>6. \A n \in Nodes(h) : n # a /\ n # f => node[n] = h.node[n]
    BY DEF Nodes
<1> HIDE DEF node
<1>7. \A n \in Nodes(h) : node[n] = Rec(node[n].key, node[n].val, node[n].next, node[n].dead)
    <2> TAKE n \in Nodes(h)
    <2>1. CASE n = a
        BY <1>5, <2>1 DEF Rec
    <2>2. CASE n = f
        BY <1>5a, <2>2 DEF Rec
    <2>3. CASE n # a /\ n # f
        BY <1>2, <1>6, <2>3
    <2> QED BY <2>1, <2>2, <2>3
<1> HIDE DEF q
<1>8. Rebuilt(h, q) /\ q.node = node /\ q.lastfree = h.lastfree
    BY <1>1, <1>4, <1>7, NodesRebuilt
<1>9. node[f].next = other
    BY <1>5a DEF Rec
<1> QED BY <1>5, <1>6, <1>8, <1>9 DEF q, other, ChainEffect

LEMMA FreeIs ==
    ASSUME NEW h, TableTyped(h), FreePos(h) # None
    PROVE  LET f == FreePos(h)
           IN  /\ f \in Nodes(h) /\ h.node[f].key = Nil /\ f < h.lastfree
               /\ \A n \in Nodes(h) : n < h.lastfree /\ h.node[n].key = Nil => n <= f
<1> DEFINE free == {n \in Nodes(h) : n < h.lastfree /\ h.node[n].key = Nil}
           size == SizeNode(h)
           S == {size - n : n \in free}
<1>1. size \in Nat \ {0} /\ Nodes(h) = 0..size - 1
    BY TableNodes
<1>2. FreePos(h) = Max(free) /\ free # {}
    BY DEF FreePos, Nodes
<1> HIDE DEF size
<1>3. S \in SUBSET Nat /\ S # {}
    BY <1>1, <1>2
<1>4. PICK m \in S : \A x \in S : m <= x
    <2> HIDE DEF S
    <2> QED BY <1>3, LeastExists
<1>5. PICK f \in free : m = size - f
    OBVIOUS
<1>6. \A n \in free : f >= n
    <2> TAKE n \in free
    <2>1. size - n \in S
        OBVIOUS
    <2>2. size - f <= size - n
        BY <1>4, <1>5, <2>1
    <2>3. n \in Int /\ f \in Int
        BY <1>1
    <2> QED BY <1>1, <2>2, <2>3
<1>7. Max(free) \in free /\ \A n \in free : Max(free) >= n
    <2> HIDE DEF free
    <2> QED BY <1>5, <1>6 DEF Max
<1>8. \A n \in free : n \in Int
    BY <1>1
<1> QED BY <1>2, <1>7, <1>8

LEMMA FreeSome ==
    ASSUME NEW h, TableTyped(h), NEW n \in Nodes(h), n < h.lastfree, h.node[n].key = Nil
    PROVE  FreePos(h) # None
<1> DEFINE free == {m \in Nodes(h) : m < h.lastfree /\ h.node[m].key = Nil}
           size == SizeNode(h)
           S == {size - m : m \in free}
<1>1. size \in Nat \ {0} /\ Nodes(h) = 0..size - 1
    BY TableNodes
<1>2. FreePos(h) = Max(free) /\ n \in free
    BY DEF FreePos, Nodes
<1> HIDE DEF size
<1>3. S \in SUBSET Nat /\ S # {}
    BY <1>1, <1>2
<1>4. PICK m \in S : \A x \in S : m <= x
    <2> HIDE DEF S
    <2> QED BY <1>3, LeastExists
<1>5. PICK f \in free : m = size - f
    OBVIOUS
<1>6. \A x \in free : f >= x
    <2> TAKE x \in free
    <2>1. size - x \in S
        OBVIOUS
    <2>2. size - f <= size - x
        BY <1>4, <1>5, <2>1
    <2>3. x \in Int /\ f \in Int
        BY <1>1
    <2> QED BY <1>1, <2>2, <2>3
<1>7. Max(free) \in free
    <2> HIDE DEF free
    <2> QED BY <1>5, <1>6 DEF Max
<1> QED BY <1>1, <1>2, <1>7 DEF None

\* The search along the chain finds the node before a.
LEMMA BeforeIs ==
    ASSUME NEW h, TableTyped(h), OneBefore(h), NEW start \in Nodes(h), NEW a \in Nodes(h), start # a, Reach(h, start, a),
           NEW p \in Nodes(h), Linked(h, p), After1(h, p) = a
    PROVE  LET before[n \in DOMAIN h.node] ==
                  IF n + h.node[n].next = a THEN n ELSE before[n + h.node[n].next]
           IN  before[start] = p
<1> DEFINE Def(f) == f = [n \in DOMAIN h.node |-> IF n + h.node[n].next = a THEN n ELSE f[n + h.node[n].next]]
           before == CHOOSE f : Def(f)
           stop == [n \in Nodes(h) |-> After1(h, n) = a]
           val == [n \in Nodes(h) |-> n]
           succ == [n \in Nodes(h) |-> After1(h, n)]
<1>1. \E f : Def(f)
    <2>1. stop \in [Nodes(h) -> BOOLEAN] /\ succ \in [Nodes(h) -> Nodes(h)]
        BY TableNodes
    <2>2. PICK f : f = [n \in Nodes(h) |-> IF stop[n] THEN val[n] ELSE f[succ[n]]]
        <3> HIDE DEF stop, val, succ
        <3>1. \E f : TailSolves(Nodes(h), stop, val, succ, f)
            BY <2>1, TailRecursion
        <3> QED BY <3>1 DEF TailSolves
    <2>3. \A n \in Nodes(h) : (IF stop[n] THEN val[n] ELSE f[succ[n]]) =
             IF n + h.node[n].next = a THEN n ELSE f[n + h.node[n].next]
        BY DEF After1
    <2> HIDE DEF stop, val, succ
    <2>4. Def(f)
        BY <2>2, <2>3 DEF Nodes
    <2> QED BY <2>4
<1>2. Def(before)
    BY <1>1
<1> SUFFICES before[start] = p
    OBVIOUS
<1> HIDE DEF before
<1>3. \A n \in Nodes(h) : before[n] = IF After1(h, n) = a THEN n ELSE before[After1(h, n)]
    BY <1>2 DEF Nodes, After1
<1> SUFFICES ASSUME before[start] # p PROVE FALSE
    OBVIOUS
<1> DEFINE S == {n \in Nodes(h) : before[n] # p /\ n # a}
<1>4. S \in SUBSET Nodes(h) /\ start \in S /\ a \notin S
    OBVIOUS
<1>5. Closed(h, S)
    <2> SUFFICES ASSUME NEW n \in S, Linked(h, n) PROVE After1(h, n) \in S
        BY DEF Closed
    <2>1. After1(h, n) # a
        <3> SUFFICES ASSUME After1(h, n) = a PROVE FALSE
            OBVIOUS
        <3>1. n = p
            BY DEF OneBefore
        <3> QED BY <1>3, <3>1
    <2>2. After1(h, n) \in Nodes(h)
        BY TableNodes
    <2> QED BY <1>3, <2>1, <2>2
<1> HIDE DEF S
<1> QED BY <1>4, <1>5 DEF Reach

MoveEffect(h, q, a, f, p) ==
    /\ Rebuilt(h, q) /\ q.lastfree = h.lastfree
    /\ q.node[p] = Rec(h.node[p].key, h.node[p].val, f - p, h.node[p].dead)
    /\ q.node[f] = Rec(h.node[a].key, h.node[a].val,
                        IF h.node[a].next = 0 THEN 0 ELSE h.node[a].next + a - f, h.node[a].dead)
    /\ q.node[a].next = 0
    /\ \A n \in Nodes(h) : n # a /\ n # f /\ n # p => q.node[n] = h.node[n]

LEMMA MoveIs ==
    ASSUME NEW h, TableTyped(h), OneBefore(h), NEW a \in Nodes(h), NEW f \in Nodes(h), NEW p \in Nodes(h),
           a # f, p # f, p # a, Linked(h, p), After1(h, p) = a,
           MainPosition(h, h.node[a].key) \in Nodes(h), MainPosition(h, h.node[a].key) # a,
           Reach(h, MainPosition(h, h.node[a].key), a)
    PROVE  MoveEffect(h, MoveColliding(h, a, f), a, f, p)
<1> DEFINE q == MoveColliding(h, a, f)
           start == MainPosition(h, h.node[a].key)
           before[n \in DOMAIN h.node] == IF n + h.node[n].next = a THEN n ELSE before[n + h.node[n].next]
           next == h.node[a].next
           other == IF next = 0 THEN 0 ELSE next + a - f
           q1 == [h EXCEPT !.node[p].next = f - p]
           q2 == [q1 EXCEPT !.node[f] = [h.node[a] EXCEPT !.next = other]]
           q3 == [q2 EXCEPT !.node[a] = WithEmpty(@)]
<1>0. Shaped(h)
    BY TypedShaped
<1>1. before[start] = p
    BY BeforeIs
<1>2. q = [h EXCEPT !.node[before[start]].next = f - before[start],
                    !.node[f] = [h.node[a] EXCEPT !.next = other],
                    !.node[a] = WithEmpty(@)]
    BY Zenon DEF MoveColliding, WithEmpty
<1> HIDE DEF before, other, q
<1>3. q = q3
    BY <1>1, <1>2, Zenon
<1>4. /\ Rebuilt(h, q1) /\ q1.lastfree = h.lastfree
      /\ q1.node[p] = Rec(h.node[p].key, h.node[p].val, f - p, h.node[p].dead)
      /\ \A n \in Nodes(h) : n # p => q1.node[n] = h.node[n]
    <2>1. [h.node[p] EXCEPT !.next = f - p] = Rec(h.node[p].key, h.node[p].val, f - p, h.node[p].dead)
        BY <1>0, RecNext DEF Shaped
    <2>2. q1 = [h EXCEPT !.node[p] = [h.node[p] EXCEPT !.next = f - p]]
        OBVIOUS
    <2> HIDE DEF q1
    <2>3. q1 = [h EXCEPT !.node[p] = Rec(h.node[p].key, h.node[p].val, f - p, h.node[p].dead)]
        BY <2>1, <2>2
    <2> QED BY <1>0, <2>3, NodePut
<1>5. /\ Rebuilt(q1, q2) /\ q2.lastfree = q1.lastfree
      /\ q2.node[f] = Rec(h.node[a].key, h.node[a].val, other, h.node[a].dead)
      /\ \A n \in Nodes(h) : n # f => q2.node[n] = q1.node[n]
    <2>1. [h.node[a] EXCEPT !.next = other] = Rec(h.node[a].key, h.node[a].val, other, h.node[a].dead)
        BY <1>0, RecNext DEF Shaped
    <2> HIDE DEF q1
    <2>2. q2 = [q1 EXCEPT !.node[f] = Rec(h.node[a].key, h.node[a].val, other, h.node[a].dead)]
        BY <2>1
    <2> HIDE DEF q2
    <2> QED BY <1>4, <2>2, NodePut DEF Rebuilt
<1>6. /\ Rebuilt(q2, q3) /\ q3.lastfree = q2.lastfree
      /\ q3.node[a].next = 0
      /\ \A n \in Nodes(h) : n # a => q3.node[n] = q2.node[n]
    <2> HIDE DEF q1
    <2>0. Nodes(q2) = Nodes(h) /\ Shaped(q2)
        BY <1>4, <1>5 DEF Rebuilt
    <2>1. WithEmpty(q2.node[a]) = Rec(q2.node[a].key, Nil, 0, q2.node[a].dead)
        <3>1. q2.node[a] = Rec(q2.node[a].key, q2.node[a].val, q2.node[a].next, q2.node[a].dead)
            BY <2>0 DEF Shaped
        <3> HIDE DEF q2
        <3> QED BY <3>1, RecEmpty
    <2> HIDE DEF q2
    <2>2. q3 = [q2 EXCEPT !.node[a] = Rec(q2.node[a].key, Nil, 0, q2.node[a].dead)]
        BY <2>1
    <2> HIDE DEF q3
    <2>3. q3.node[a] = Rec(q2.node[a].key, Nil, 0, q2.node[a].dead)
        BY <2>0, <2>2, NodePut
    <2>4. q3.node[a].next = 0
        BY <2>3 DEF Rec
    <2> QED BY <2>0, <2>2, <2>4, NodePut
<1> HIDE DEF q1, q2, q3
<1>7. Rebuilt(h, q) /\ q.lastfree = h.lastfree
    BY <1>3, <1>4, <1>5, <1>6 DEF Rebuilt
<1> QED BY <1>3, <1>4, <1>5, <1>6, <1>7 DEF q, other, MoveEffect

-----------------------------------------------------------------------------
(* A new key.                                                              *)

LEMMA TypedAgain ==
    ASSUME NEW h, TableTyped(h), NEW q, Rebuilt(h, q), q.lastfree \in 0..SizeNode(h),
           \A n \in Nodes(h) : /\ q.node[n].key \in Keys \cup {Nil} /\ q.node[n].val \in V
                               /\ q.node[n].next \in Int /\ q.node[n].dead \in BOOLEAN
                               /\ After1(q, n) \in Nodes(h)
    PROVE  TableTyped(q)
<1>1. Shaped(q) /\ Nodes(q) = Nodes(h) /\ q.arr = h.arr /\ q.dummy = h.dummy
    BY DEF Rebuilt
<1>2. h.arr \in Seq(V) /\ h.dummy \in BOOLEAN
    BY DEF TableTyped
<1>3. SizeNode(h) \in Nat \ {0} /\ Nodes(h) = 0..SizeNode(h) - 1
    BY TableNodes
<1>4. \A n \in Nodes(h) : q.node[n] \in NodeType
    <2> TAKE n \in Nodes(h)
    <2>1. q.node[n] = [key |-> q.node[n].key, val |-> q.node[n].val, next |-> q.node[n].next, dead |-> q.node[n].dead]
        BY <1>1 DEF Shaped, Rec
    <2> QED BY <2>1 DEF NodeType
<1>5. q.node \in [0..SizeNode(h) - 1 -> NodeType]
    BY <1>1, <1>3, <1>4 DEF Shaped
<1>6. Sized(q, SizeNode(h))
    BY <1>3, <1>5 DEF Sized
<1>7. q = [arr |-> q.arr, node |-> q.node, dummy |-> q.dummy, lastfree |-> q.lastfree]
    BY <1>1 DEF Shaped, Table
<1> QED BY <1>1, <1>2, <1>6, <1>7 DEF TableTyped

Fresh(h, k) == k \in Keys /\ ~InArray(h, k) /\ \A n : ~Has(h, k, n)

Like(h, n, q, m) ==
    q.node[m].key = h.node[n].key /\ q.node[m].dead = h.node[n].dead /\ q.node[m].val = h.node[n].val

\* What a table with a new key is.
Inserted(h, q, k, v) ==
    /\ Sound(q) /\ Nodes(q) = Nodes(h) /\ q.arr = h.arr /\ q.dummy = h.dummy
    /\ Get(q, k) = v
    /\ \A x \in K : x # k => Get(q, x) = Get(h, x)
    /\ \A m \in Nodes(q) : \/ q.node[m].key = k /\ ~q.node[m].dead
                           \/ \E n \in Nodes(h) : Like(h, n, q, m)

LEMMA Outcome ==
    ASSUME NEW h, Sound(h), NEW q, Sound(q), Nodes(q) = Nodes(h), q.arr = h.arr, q.dummy = h.dummy,
           NEW k, NEW v, Fresh(h, k),
           NEW place \in Nodes(h), q.node[place].key = k, q.node[place].val = v, ~q.node[place].dead,
           \A n \in Nodes(h) : h.node[n].val = Nil \/ \E m \in Nodes(h) : Like(h, n, q, m),
           \A m \in Nodes(h) : (q.node[m].key = k /\ ~q.node[m].dead) \/ \E n \in Nodes(h) : Like(h, n, q, m)
    PROVE  Inserted(h, q, k, v)
<1>1. Get(q, k) = v
    <2>1. k \in K /\ ~InArray(q, k)
        BY KeyFacts DEF Fresh, InArray
    <2>2. Has(q, k, place)
        BY DEF Has
    <2> QED BY <2>1, <2>2, GetIs
<1>2. ASSUME NEW x \in K, x # k PROVE Get(q, x) = Get(h, x)
    <2>1. CASE InArray(h, x)
        BY <2>1, GetIs DEF InArray
    <2>2. CASE ~InArray(h, x) /\ \E m : Has(q, x, m)
        <3>1. PICK m : Has(q, x, m)
            BY <2>2
        <3>2. m \in Nodes(h) /\ q.node[m].key # k
            BY <1>2, <3>1 DEF Has
        <3>3. PICK n \in Nodes(h) : Like(h, n, q, m)
            BY <3>2
        <3>4. Has(h, x, n) /\ q.node[m].val = h.node[n].val
            BY <3>1, <3>3 DEF Has, Like
        <3>5. ~InArray(q, x)
            BY <2>2 DEF InArray
        <3>6. Get(q, x) = q.node[m].val
            BY <3>1, <3>5, GetIs
        <3>7. Get(h, x) = h.node[n].val
            BY <2>2, <3>4, GetIs
        <3> QED BY <3>4, <3>6, <3>7
    <2>3. CASE ~InArray(h, x) /\ ~\E m : Has(q, x, m)
        <3>5. ~InArray(q, x)
            BY <2>3 DEF InArray
        <3>1. Get(q, x) = Nil
            BY <2>3, <3>5, GetIs
        <3>2. ASSUME NEW n, Has(h, x, n) PROVE h.node[n].val = Nil
            <4> SUFFICES ASSUME h.node[n].val # Nil PROVE FALSE
                OBVIOUS
            <4>1. n \in Nodes(h)
                BY <3>2 DEF Has
            <4>2. PICK m \in Nodes(h) : Like(h, n, q, m)
                BY <4>1
            <4>3. Has(q, x, m)
                BY <3>2, <4>2 DEF Has, Like
            <4> QED BY <2>3, <4>3
        <3>3. Get(h, x) = Nil
            BY <2>3, <3>2, GetIs
        <3> QED BY <3>1, <3>3
    <2> QED BY <2>1, <2>2, <2>3
<1> QED BY <1>1, <1>2 DEF Inserted

\* The main position is empty.
LEMMA InsertEmpty ==
    ASSUME NEW h, Sound(h), NEW k, Fresh(h, k), NEW v \in V,
           h.node[MainPosition(h, k)].val = Nil, ~h.dummy
    PROVE  Inserted(h, PutNode(h, MainPosition(h, k), k, v), k, v)
<1> DEFINE a == MainPosition(h, k)
           q == PutNode(h, a, k, v)
<1>0. TableTyped(h) /\ Shaped(h) /\ k \in Keys /\ k \in K /\ k # Nil
    BY TypedShaped, KeyFacts DEF Sound, Fresh
<1>1. a \in Nodes(h)
    BY <1>0, MainPositionType
<1>8. MainPosition(h, k) = a
    OBVIOUS
<1> HIDE DEF a
<1>2. /\ Rebuilt(h, q) /\ q.lastfree = h.lastfree
      /\ q.node[a] = Rec(k, v, h.node[a].next, FALSE)
      /\ \A n \in Nodes(h) : n # a => q.node[n] = h.node[n]
    <2>1. PutEffect(h, q, a, k, v)
        BY <1>0, <1>1, PutIs
    <2> QED BY <2>1 DEF PutEffect
<1> HIDE DEF q
<1>3. q.node[a].key = k /\ q.node[a].val = v /\ q.node[a].next = h.node[a].next /\ q.node[a].dead = FALSE
    BY <1>2 DEF Rec
<1>4. Nodes(q) = Nodes(h) /\ q.arr = h.arr /\ q.dummy = h.dummy /\ \A x : MainPosition(q, x) = MainPosition(h, x)
    BY <1>2, SameMain DEF Rebuilt
<1>5. \A n \in Nodes(h) : q.node[n].next = h.node[n].next
    BY <1>2, <1>3
<1>6. \A n \in Nodes(h) : (Linked(q, n) <=> Linked(h, n)) /\ After1(q, n) = After1(h, n)
    BY <1>5 DEF Linked, After1
<1>7. \A x, y : Reach(q, x, y) <=> Reach(h, x, y)
    BY <1>4, <1>5, SameReach
<1>9. \A n \in Nodes(h) : After1(h, n) \in Nodes(h)
    BY <1>0 DEF TableTyped
<1>10. TableTyped(q)
    <2>1. \A n \in Nodes(h) : /\ q.node[n].key \in Keys \cup {Nil} /\ q.node[n].val \in V
                              /\ q.node[n].next \in Int /\ q.node[n].dead \in BOOLEAN
                              /\ After1(q, n) \in Nodes(h)
        <3> TAKE n \in Nodes(h)
        <3>1. h.node[n].key \in Keys \cup {Nil} /\ h.node[n].val \in V /\ h.node[n].next \in Int /\ h.node[n].dead \in BOOLEAN
            BY <1>0, NodeFields
        <3>2. CASE n = a
            BY <1>0, <1>3, <1>6, <1>9, <3>1, <3>2
        <3>3. CASE n # a
            BY <1>2, <1>6, <1>9, <3>1, <3>3
        <3> QED BY <3>2, <3>3
    <2>2. h.lastfree \in 0..SizeNode(h)
        BY <1>0, TableNodes DEF Sized
    <2> QED BY <1>0, <1>2, <2>1, <2>2, TypedAgain
<1>11. Lone(q)
    BY <1>0, <1>2, <1>3, <1>4, <1>6 DEF Lone, Sound, Linkage
<1>12. NoneFree(q)
    BY <1>0, <1>2, <1>3, <1>4, <1>6, <1>9 DEF NoneFree, Sound, Linkage
<1>13. OneBefore(q)
    BY <1>4, <1>6 DEF OneBefore, Sound, Linkage
<1>14. Ranked(q)
    BY <1>4, <1>6 DEF Ranked, Ranks, Sound, Linkage
<1>15. Homes(q)
    <2> SUFFICES ASSUME NEW n \in Nodes(h), q.node[n].key # Nil
                 PROVE  q.node[Home(q, n)].key # Nil /\ Home(q, Home(q, n)) = Home(q, n) /\ Reach(q, Home(q, n), n)
        BY <1>4 DEF Homes
    <2>1. CASE n = a
        <3>1. Home(q, a) = a
            BY <1>3, <1>4, <1>8 DEF Home
        <3> QED BY <1>0, <1>3, <2>1, <3>1, ReachSelf
    <2>2. CASE n # a
        <3>1. Home(q, n) = Home(h, n) /\ h.node[n].key # Nil /\ h.node[n].key \in K
            <4>1. q.node[n] = h.node[n]
                BY <1>2, <2>2
            <4>2. h.node[n].key \in Keys \cup {Nil}
                BY <1>0, NodeFields
            <4> QED BY <1>4, <4>1, <4>2, KeyFacts DEF Home
        <3>2. h.node[Home(h, n)].key # Nil /\ Home(h, Home(h, n)) = Home(h, n) /\ Reach(h, Home(h, n), n)
            BY <3>1 DEF Homes, Sound
        <3>3. Home(h, n) \in Nodes(h)
            BY <1>0, <3>1, MainPositionType DEF Home
        <3>4. CASE Home(h, n) = a
            <4>1. Home(q, a) = a
                BY <1>3, <1>4, <1>8 DEF Home
            <4> QED BY <1>0, <1>3, <1>7, <3>1, <3>2, <3>4, <4>1
        <3>5. CASE Home(h, n) # a
            <4>1. q.node[Home(h, n)] = h.node[Home(h, n)]
                BY <1>2, <3>3, <3>5
            <4>2. Home(q, Home(h, n)) = Home(h, Home(h, n))
                BY <1>4, <4>1 DEF Home
            <4> QED BY <1>7, <3>1, <3>2, <4>1, <4>2
        <3> QED BY <3>4, <3>5
    <2> QED BY <2>1, <2>2
<1>16. LiveFirst(q)
    <2> SUFFICES ASSUME NEW n \in Nodes(h), NEW m \in Nodes(h),
                        q.node[n].key # Nil, ~q.node[n].dead, q.node[m].key = q.node[n].key, m # n
                 PROVE  q.node[m].dead /\ Reach(q, n, m)
        BY <1>4 DEF LiveFirst
    <2>1. CASE n = a
        <3>1. h.node[m].key = k /\ q.node[m] = h.node[m]
            BY <1>2, <1>3, <2>1
        <3>2. h.node[m].dead
            BY <3>1 DEF Fresh, Has
        <3>3. Reach(h, Home(h, m), m) /\ Home(h, m) = a
            BY <1>0, <1>8, <3>1 DEF Homes, Sound, Home
        <3> QED BY <1>7, <2>1, <3>1, <3>2, <3>3
    <2>2. CASE n # a /\ m = a
        BY <1>2, <1>3, <2>2 DEF Fresh, Has
    <2>3. CASE n # a /\ m # a
        BY <1>2, <1>7, <2>3 DEF LiveFirst, Sound
    <2> QED BY <2>1, <2>2, <2>3
<1>17. Apart(q) /\ DeadEmpty(q) /\ ArrayKeys(q) /\ DummyNode(q)
    <2>1. Apart(q)
        BY <1>0, <1>2, <1>3, <1>4 DEF Apart, Sound, InArray, Fresh
    <2>2. DeadEmpty(q)
        BY <1>2, <1>3, <1>4 DEF DeadEmpty, Sound
    <2>3. ArrayKeys(q) /\ DummyNode(q)
        BY <1>4 DEF ArrayKeys, DummyNode, Sound
    <2> QED BY <2>1, <2>2, <2>3
<1>18. UsedUp(q)
    BY <1>0, <1>2, <1>3, <1>4 DEF UsedUp, Sound
<1>19. Sound(q)
    BY <1>10, <1>11, <1>12, <1>13, <1>14, <1>15, <1>16, <1>17, <1>18 DEF Sound, Linkage
<1>20. \A n \in Nodes(h) : h.node[n].val = Nil \/ \E m \in Nodes(h) : Like(h, n, q, m)
    <2> TAKE n \in Nodes(h)
    <2>1. CASE n = a
        BY <2>1, <1>8
    <2>2. CASE n # a
        BY <1>2, <2>2 DEF Like
    <2> QED BY <2>1, <2>2
<1>21. \A m \in Nodes(h) : (q.node[m].key = k /\ ~q.node[m].dead) \/ \E n \in Nodes(h) : Like(h, n, q, m)
    BY <1>2, <1>3 DEF Like
<1>22. ~q.node[a].dead
    BY <1>3
<1>23. Inserted(h, q, k, v)
    BY <1>1, <1>3, <1>4, <1>19, <1>20, <1>21, <1>22, Outcome
<1> QED BY <1>23, <1>8 DEF q

\* What the free place is.
IsFree(h, f) ==
    /\ f \in Nodes(h) /\ h.node[f].key = Nil /\ f < h.lastfree
    /\ \A n \in Nodes(h) : n < h.lastfree /\ h.node[n].key = Nil => n <= f

LEMMA UsedAbove ==
    ASSUME NEW h, Sound(h), ~h.dummy, NEW f, IsFree(h, f)
    PROVE  f \in 0..SizeNode(h) /\ \A n \in Nodes(h) : n >= f /\ n # f => h.node[n].key # Nil
<1>0. TableTyped(h) /\ UsedUp(h)
    BY DEF Sound
<1>1. SizeNode(h) \in Nat \ {0} /\ Nodes(h) = 0..SizeNode(h) - 1 /\ h.lastfree \in 0..SizeNode(h)
    BY <1>0, TableNodes DEF Sized
<1>2. ASSUME NEW n \in Nodes(h), n >= f, n # f, h.node[n].key = Nil PROVE FALSE
    <2>1. n < h.lastfree
        BY <1>0, <1>1, <1>2 DEF UsedUp
    <2>2. n <= f
        BY <1>2, <2>1 DEF IsFree
    <2>3. n \in Int /\ f \in Int
        BY <1>1 DEF IsFree
    <2> QED BY <1>2, <2>2, <2>3
<1>3. f \in 0..SizeNode(h)
    BY <1>1 DEF IsFree
<1> QED BY <1>2, <1>3

\* The free place f, with k, comes after the main position a.
Behind(h, q, a, f, k, v) ==
    /\ Rebuilt(h, q) /\ q.lastfree = f
    /\ q.node[a] = Rec(h.node[a].key, h.node[a].val, f - a, h.node[a].dead)
    /\ q.node[f] = Rec(k, v, IF h.node[a].next = 0 THEN 0 ELSE a + h.node[a].next - f, FALSE)
    /\ \A n \in Nodes(h) : n # a /\ n # f => q.node[n] = h.node[n]

LEMMA BehindIs ==
    ASSUME NEW h, Shaped(h), FreePos(h) # None, NEW a \in Nodes(h), FreePos(h) \in Nodes(h), a # FreePos(h), NEW k, NEW v
    PROVE  Behind(h, PutNode(ChainAfter(TakeFreePos(h), a, FreePos(h)), FreePos(h), k, v), a, FreePos(h), k, v)
<1> DEFINE f == FreePos(h)
           h1 == TakeFreePos(h)
           h2 == ChainAfter(h1, a, f)
           q == PutNode(h2, f, k, v)
<1>1. Rebuilt(h, h1) /\ h1.node = h.node /\ h1.lastfree = f
    BY TakeIs DEF TakeEffect
<1> HIDE DEF h1
<1>2. Shaped(h1) /\ a \in Nodes(h1) /\ f \in Nodes(h1) /\ a # f
    BY <1>1 DEF Rebuilt
<1>3. ChainEffect(h1, h2, a, f)
    BY <1>2, ChainIs
<1> HIDE DEF h2
<1>4. Shaped(h2) /\ f \in Nodes(h2)
    BY <1>2, <1>3 DEF ChainEffect, Rebuilt
<1>5. PutEffect(h2, q, f, k, v)
    BY <1>4, PutIs
<1> HIDE DEF q, f
<1>6. Rebuilt(h, q) /\ q.lastfree = f
    BY <1>1, <1>3, <1>5 DEF Rebuilt, ChainEffect, PutEffect
<1>7. q.node[a] = Rec(h.node[a].key, h.node[a].val, f - a, h.node[a].dead)
    BY <1>1, <1>2, <1>3, <1>5 DEF ChainEffect, PutEffect, Rebuilt
<1>8. q.node[f] = Rec(k, v, IF h.node[a].next = 0 THEN 0 ELSE a + h.node[a].next - f, FALSE)
    BY <1>1, <1>3, <1>5 DEF ChainEffect, PutEffect
<1>9. \A n \in Nodes(h) : n # a /\ n # f => q.node[n] = h.node[n]
    BY <1>1, <1>3, <1>5 DEF ChainEffect, PutEffect, Rebuilt
<1>10. Behind(h, q, a, f, k, v)
    BY <1>6, <1>7, <1>8, <1>9 DEF Behind
<1> QED BY <1>10 DEF q, h2, h1, f

LEMMA InsertBehind ==
    ASSUME NEW h, Sound(h), NEW k, Fresh(h, k), NEW v \in V, ~h.dummy,
           h.node[MainPosition(h, k)].val # Nil, Home(h, MainPosition(h, k)) = MainPosition(h, k),
           NEW f, IsFree(h, f), NEW q, Behind(h, q, MainPosition(h, k), f, k, v)
    PROVE  Inserted(h, q, k, v)
<1> DEFINE a == MainPosition(h, k)
<1>0. /\ TableTyped(h) /\ Shaped(h) /\ k \in Keys /\ k \in K /\ k # Nil
      /\ Lone(h) /\ NoneFree(h) /\ OneBefore(h) /\ Ranked(h) /\ Homes(h) /\ LiveFirst(h)
    BY TypedShaped, KeyFacts DEF Sound, Fresh, Linkage
<1>1. a \in Nodes(h) /\ f \in Nodes(h) /\ h.node[f].key = Nil
    BY <1>0, MainPositionType DEF IsFree
<1>2. h.node[a].key # Nil /\ a # f /\ ~h.node[a].dead
    BY <1>0, <1>1 DEF Lone, DeadEmpty, Sound
<1>8. MainPosition(h, k) = a /\ Home(h, a) = a
    OBVIOUS
<1> HIDE DEF a
<1>3. /\ q.node[a].key = h.node[a].key /\ q.node[a].val = h.node[a].val /\ q.node[a].next = f - a /\ q.node[a].dead = h.node[a].dead
      /\ q.node[f].key = k /\ q.node[f].val = v /\ q.node[f].dead = FALSE
      /\ q.node[f].next = IF h.node[a].next = 0 THEN 0 ELSE a + h.node[a].next - f
      /\ \A n \in Nodes(h) : n # a /\ n # f => q.node[n] = h.node[n]
    BY <1>8 DEF Behind, Rec
<1>3a. \A n \in Nodes(h) : n # f => Like(h, n, q, n)
    BY <1>3 DEF Like
<1>4. Rebuilt(h, q) /\ q.lastfree = f /\ Nodes(q) = Nodes(h) /\ q.arr = h.arr /\ q.dummy = h.dummy /\ \A x : MainPosition(q, x) = MainPosition(h, x)
    BY SameMain DEF Rebuilt, Behind
<1>5. /\ \A n \in Nodes(h) : After1(h, n) \in Nodes(h) /\ n \in Int
      /\ \A n \in Nodes(h) : Linked(h, n) => After1(h, n) # f
      /\ ~Linked(h, f)
    <2>1. \A n \in Nodes(h) : After1(h, n) \in Nodes(h) /\ n \in Int
        BY <1>0, TableNodes
    <2> QED BY <1>0, <1>1, <2>1 DEF NoneFree, Lone
<1>5a. h.node[a].next \in Int
    BY <1>0, <1>1, NodeFields
<1>6. /\ Linked(q, a) /\ After1(q, a) = f
      /\ Linked(q, f) <=> Linked(h, a)
      /\ Linked(h, a) => After1(q, f) = After1(h, a)
    <2>1. Linked(q, a) /\ After1(q, a) = f
        BY <1>1, <1>2, <1>3, <1>5 DEF Linked, After1
    <2>2. Linked(h, a) => After1(q, f) = After1(h, a)
        BY <1>1, <1>3, <1>5, <1>5a DEF Linked, After1
    <2>3. Linked(q, f) <=> Linked(h, a)
        <3>1. CASE h.node[a].next = 0
            BY <1>3, <3>1 DEF Linked
        <3>2. CASE h.node[a].next # 0
            <4>1. a + h.node[a].next # f
                BY <1>1, <1>5, <3>2 DEF Linked, After1
            <4>2. q.node[f].next # 0
                <5>1. q.node[f].next = a + h.node[a].next - f
                    BY <1>3, <3>2
                <5>2. a \in Int /\ f \in Int
                    BY <1>1, <1>5
                <5>3. \A x, y, z \in Int : x + y # z => x + y - z # 0
                    OBVIOUS
                <5>4. a + h.node[a].next - f # 0
                    BY <1>5a, <4>1, <5>2, <5>3
                <5> QED BY <5>1, <5>4
            <4> QED BY <3>2, <4>2 DEF Linked
        <3> QED BY <3>1, <3>2
    <2> QED BY <2>1, <2>2, <2>3
<1>7. \A n \in Nodes(h) : n # a /\ n # f => (Linked(q, n) <=> Linked(h, n)) /\ After1(q, n) = After1(h, n)
    BY <1>3 DEF Linked, After1
<1>9. ASSUME NEW S \in SUBSET Nodes(h), Closed(q, S) PROVE Closed(h, S)
    <2> SUFFICES ASSUME NEW n \in S, Linked(h, n) PROVE After1(h, n) \in S
        BY DEF Closed
    <2>1. n # f
        BY <1>5
    <2>2. CASE n = a
        BY <1>6, <1>9, <2>2 DEF Closed
    <2>3. CASE n # a
        BY <1>7, <1>9, <2>1, <2>3 DEF Closed
    <2> QED BY <2>2, <2>3
<1>10. \A x, y : Reach(h, x, y) => Reach(q, x, y)
    BY <1>4, <1>9 DEF Reach
<1>11. TableTyped(q)
    <2>1. \A n \in Nodes(h) : /\ q.node[n].key \in Keys \cup {Nil} /\ q.node[n].val \in V
                              /\ q.node[n].next \in Int /\ q.node[n].dead \in BOOLEAN
                              /\ After1(q, n) \in Nodes(h)
        <3> TAKE n \in Nodes(h)
        <3>1. h.node[n].key \in Keys \cup {Nil} /\ h.node[n].val \in V /\ h.node[n].next \in Int /\ h.node[n].dead \in BOOLEAN
            BY <1>0, NodeFields
        <3>2. CASE n = f
            <4>1. q.node[f].next \in Int
                BY <1>1, <1>3, <1>5, <1>5a
            <4>2. After1(q, f) \in Nodes(h)
                <5>1. CASE Linked(h, a)
                    BY <1>1, <1>5, <1>6, <5>1
                <5>2. CASE ~Linked(h, a)
                    BY <1>1, <1>3, <1>5, <5>2 DEF Linked, After1
                <5> QED BY <5>1, <5>2
            <4> QED BY <1>0, <1>3, <3>2, <4>1, <4>2
        <3>3. CASE n = a
            <4>1. q.node[a].next \in Int /\ After1(q, a) \in Nodes(h)
                BY <1>1, <1>3, <1>5, <1>6
            <4> QED BY <1>3, <3>1, <3>3, <4>1
        <3>4. CASE n # a /\ n # f
            BY <1>3, <1>5, <1>7, <3>1, <3>4
        <3> QED BY <3>2, <3>3, <3>4
    <2>2. f \in 0..SizeNode(h)
        BY UsedAbove
    <2> QED BY <1>0, <1>4, <2>1, <2>2, TypedAgain
<1>12. Lone(q)
    <2> SUFFICES ASSUME NEW n \in Nodes(h), q.node[n].key = Nil
                 PROVE  ~Linked(q, n) /\ q.node[n].val = Nil /\ ~q.node[n].dead
        BY <1>4 DEF Lone
    <2>1. n # f /\ n # a
        BY <1>0, <1>2, <1>3
    <2> QED BY <1>0, <1>3, <1>7, <2>1 DEF Lone
<1>13. NoneFree(q)
    <2> SUFFICES ASSUME NEW n \in Nodes(h), Linked(q, n) PROVE q.node[After1(q, n)].key # Nil
        BY <1>4 DEF NoneFree
    <2>0. \A m \in Nodes(h) : h.node[m].key # Nil => q.node[m].key # Nil
        BY <1>0, <1>3
    <2>1. CASE n = a
        BY <1>0, <1>3, <1>6, <2>1
    <2>2. CASE n = f
        BY <1>0, <1>1, <1>5, <1>6, <2>0, <2>2 DEF NoneFree
    <2>3. CASE n # a /\ n # f
        BY <1>0, <1>5, <1>7, <2>0, <2>3 DEF NoneFree
    <2> QED BY <2>1, <2>2, <2>3
<1>14. OneBefore(q)
    <2> SUFFICES ASSUME NEW n \in Nodes(h), NEW m \in Nodes(h), Linked(q, n), Linked(q, m), After1(q, n) = After1(q, m)
                 PROVE  n = m
        BY <1>4 DEF OneBefore
    <2>1. CASE n = a \/ m = a
        BY <1>1, <1>5, <1>6, <1>7, <2>1
    <2>2. CASE n # a /\ m # a
        BY <1>0, <1>1, <1>6, <1>7, <2>2 DEF OneBefore
    <2> QED BY <2>1, <2>2
<1>15. Ranked(q)
    <2>1. PICK rank : rank \in [Nodes(h) -> Nat] /\ \A n \in Nodes(h) : Linked(h, n) => rank[After1(h, n)] < rank[n]
        BY <1>0 DEF Ranked, Ranks
    <2> DEFINE new == [n \in Nodes(h) |-> IF n = f THEN 2 * rank[a] + 1 ELSE 2 * rank[n] + 2]
    <2>2. new \in [Nodes(h) -> Nat]
        BY <1>1, <2>1
    <2>2a. \A n \in Nodes(h) : rank[n] \in Nat
        BY <2>1
    <2>3. new[f] = 2 * rank[a] + 1 /\ \A n \in Nodes(h) : n # f => new[n] = 2 * rank[n] + 2
        BY <1>1
    <2> HIDE DEF new
    <2>4. ASSUME NEW n \in Nodes(h), Linked(q, n) PROVE new[After1(q, n)] < new[n]
        <3>1. CASE n = a
            BY <1>1, <1>2, <1>6, <2>2a, <2>3, <3>1
        <3>2. CASE n = f
            <4>1. Linked(h, a) /\ After1(q, n) = After1(h, a) /\ After1(h, a) # f /\ After1(h, a) \in Nodes(h)
                BY <1>1, <1>5, <1>6, <2>4, <3>2
            <4>2. rank[After1(h, a)] < rank[a]
                BY <1>1, <2>1, <4>1
            <4>3. rank[After1(h, a)] \in Nat /\ rank[a] \in Nat
                BY <1>1, <2>2a, <4>1
            <4> QED BY <2>3, <3>2, <4>1, <4>2, <4>3
        <3>3. CASE n # a /\ n # f
            <4>1. Linked(h, n) /\ After1(q, n) = After1(h, n) /\ After1(h, n) # f /\ After1(h, n) \in Nodes(h)
                BY <1>5, <1>7, <2>4, <3>3
            <4>2. rank[After1(h, n)] < rank[n]
                BY <2>1, <4>1
            <4>3. rank[After1(h, n)] \in Nat /\ rank[n] \in Nat
                BY <2>2a, <4>1
            <4> QED BY <2>3, <3>3, <4>1, <4>2, <4>3
        <3> QED BY <3>1, <3>2, <3>3
    <2> QED BY <1>4, <2>2, <2>4 DEF Ranked, Ranks
<1>16. Homes(q)
    <2> SUFFICES ASSUME NEW n \in Nodes(h), q.node[n].key # Nil
                 PROVE  q.node[Home(q, n)].key # Nil /\ Home(q, Home(q, n)) = Home(q, n) /\ Reach(q, Home(q, n), n)
        BY <1>4 DEF Homes
    <2>1. CASE n = f
        <3>1. Home(q, f) = a /\ Home(q, a) = a
            BY <1>3, <1>4, <1>8 DEF Home
        <3>2. Reach(q, a, f)
            BY <1>6, ReachSelf, ReachStep
        <3> QED BY <1>2, <1>3, <2>1, <3>1, <3>2
    <2>2. CASE n # f
        <3>1. q.node[n].key = h.node[n].key /\ h.node[n].key \in K
            <4>1. h.node[n].key \in Keys \cup {Nil}
                BY <1>0, NodeFields
            <4>2. q.node[n].key = h.node[n].key
                BY <1>3, <2>2
            <4> QED BY <4>1, <4>2, KeyFacts
        <3>2. h.node[Home(h, n)].key # Nil /\ Home(h, Home(h, n)) = Home(h, n) /\ Reach(h, Home(h, n), n)
            BY <1>0, <3>1 DEF Homes
        <3>3. Home(h, n) \in Nodes(h) /\ Home(h, n) # f
            BY <1>0, <1>1, <3>1, <3>2, MainPositionType DEF Home
        <3>4. Home(q, n) = Home(h, n)
            BY <1>4, <3>1 DEF Home
        <3>5. q.node[Home(h, n)].key = h.node[Home(h, n)].key
            BY <1>3, <3>3
        <3>6. Home(q, Home(h, n)) = Home(h, Home(h, n))
            BY <1>4, <3>5 DEF Home
        <3> QED BY <1>10, <3>2, <3>4, <3>5, <3>6
    <2> QED BY <2>1, <2>2
<1>17. LiveFirst(q)
    <2> SUFFICES ASSUME NEW n \in Nodes(h), NEW m \in Nodes(h),
                        q.node[n].key # Nil, ~q.node[n].dead, q.node[m].key = q.node[n].key, m # n
                 PROVE  q.node[m].dead /\ Reach(q, n, m)
        BY <1>4 DEF LiveFirst
    <2>1. CASE n = f
        <3>1. h.node[m].key = k /\ q.node[m].dead = h.node[m].dead
            BY <1>3, <2>1
        <3>2. h.node[m].dead
            BY <3>1 DEF Fresh, Has
        <3>3. Reach(h, Home(h, m), m) /\ Home(h, m) = a
            BY <1>0, <1>8, <3>1 DEF Homes, Home
        <3>4. m # a
            BY <1>2, <3>2
        <3>5. ASSUME NEW S \in SUBSET Nodes(h), f \in S, Closed(q, S) PROVE m \in S
            <4> DEFINE U == S \cup {a}
            <4>1. Closed(h, U)
                <5> SUFFICES ASSUME NEW x \in U, Linked(h, x) PROVE After1(h, x) \in U
                    BY DEF Closed
                <5>1. x # f
                    BY <1>5
                <5>2. CASE x = a
                    BY <1>6, <3>5, <5>2 DEF Closed
                <5>3. CASE x # a
                    BY <1>7, <3>5, <5>1, <5>3 DEF Closed
                <5> QED BY <5>2, <5>3
            <4>2. U \in SUBSET Nodes(h) /\ a \in U
                BY <1>1
            <4>3. m \in U
                <5> HIDE DEF U
                <5> QED BY <3>3, <4>1, <4>2 DEF Reach
            <4> QED BY <3>4, <4>3
        <3>6. Reach(q, f, m)
            BY <1>4, <3>5 DEF Reach
        <3> QED BY <2>1, <3>1, <3>2, <3>6
    <2>2. CASE n # f /\ m = f
        <3>1. h.node[n].key = k /\ ~h.node[n].dead
            BY <1>3, <2>2
        <3> QED BY <3>1 DEF Fresh, Has
    <2>3. CASE n # f /\ m # f
        <3>1. h.node[n].key # Nil /\ ~h.node[n].dead /\ h.node[m].key = h.node[n].key /\ q.node[m].dead = h.node[m].dead
            BY <1>3, <2>3
        <3>2. h.node[m].dead /\ Reach(h, n, m)
            BY <1>0, <3>1 DEF LiveFirst
        <3> QED BY <1>10, <3>1, <3>2
    <2> QED BY <2>1, <2>2, <2>3
<1>18. Apart(q)
    <2> SUFFICES ASSUME NEW n \in Nodes(h), q.node[n].key # Nil PROVE ~InArray(q, q.node[n].key)
        BY <1>4 DEF Apart
    <2>1. CASE n = f
        BY <1>3, <1>4, <2>1 DEF InArray, Fresh
    <2>2. CASE n # f
        <3>1. q.node[n].key = h.node[n].key
            BY <1>3, <2>2
        <3> QED BY <1>4, <3>1 DEF Apart, Sound, InArray
    <2> QED BY <2>1, <2>2
<1>19. DeadEmpty(q)
    <2> SUFFICES ASSUME NEW n \in Nodes(h), q.node[n].dead PROVE q.node[n].val = Nil
        BY <1>4 DEF DeadEmpty
    <2>1. n # f
        BY <1>3
    <2> QED BY <1>3, <2>1 DEF DeadEmpty, Sound
<1>20. ArrayKeys(q) /\ DummyNode(q)
    BY <1>4 DEF ArrayKeys, DummyNode, Sound
<1>21. UsedUp(q)
    <2> SUFFICES ASSUME NEW n \in Nodes(h), n >= f PROVE q.node[n].key # Nil
        BY <1>4 DEF UsedUp
    <2>1. CASE n = f
        BY <1>0, <1>3, <2>1
    <2>2. CASE n # f
        <3>1. h.node[n].key # Nil
            BY <2>2, UsedAbove
        <3> QED BY <1>3, <2>2, <3>1
    <2> QED BY <2>1, <2>2
<1>22. Sound(q)
    BY <1>11, <1>12, <1>13, <1>14, <1>15, <1>16, <1>17, <1>18, <1>19, <1>20, <1>21 DEF Sound, Linkage
<1>23. \A n \in Nodes(h) : h.node[n].val = Nil \/ \E m \in Nodes(h) : Like(h, n, q, m)
    <2> TAKE n \in Nodes(h)
    <2>1. CASE n = f
        BY <1>0, <1>1, <2>1 DEF Lone
    <2>2. CASE n # f
        BY <1>3a, <2>2
    <2> QED BY <2>1, <2>2
<1>24. \A m \in Nodes(h) : (q.node[m].key = k /\ ~q.node[m].dead) \/ \E n \in Nodes(h) : Like(h, n, q, m)
    BY <1>3, <1>3a
<1>25. ~q.node[f].dead
    BY <1>3
<1> QED BY <1>1, <1>3, <1>4, <1>22, <1>23, <1>24, <1>25, Outcome

\* The node a, that is not at home, moves to the free place f, and k has its place;
\* p came before it.
Away(h, q, a, f, p, k, v) ==
    /\ Rebuilt(h, q) /\ q.lastfree = f
    /\ q.node[a] = Rec(k, v, 0, FALSE)
    /\ q.node[f] = Rec(h.node[a].key, h.node[a].val,
                       IF h.node[a].next = 0 THEN 0 ELSE h.node[a].next + a - f, h.node[a].dead)
    /\ q.node[p] = Rec(h.node[p].key, h.node[p].val, f - p, h.node[p].dead)
    /\ \A n \in Nodes(h) : n # a /\ n # f /\ n # p => q.node[n] = h.node[n]

LEMMA AwayIs ==
    ASSUME NEW h, TableTyped(h), OneBefore(h), FreePos(h) # None, NEW a \in Nodes(h), NEW p \in Nodes(h),
           FreePos(h) \in Nodes(h), a # FreePos(h), p # FreePos(h), p # a, Linked(h, p), After1(h, p) = a,
           Home(h, a) \in Nodes(h), Home(h, a) # a, Reach(h, Home(h, a), a), NEW k, NEW v
    PROVE  Away(h, PutNode(MoveColliding(TakeFreePos(h), a, FreePos(h)), a, k, v), a, FreePos(h), p, k, v)
<1> DEFINE f == FreePos(h)
           h1 == TakeFreePos(h)
           h2 == MoveColliding(h1, a, f)
           q == PutNode(h2, a, k, v)
<1>0. Shaped(h)
    BY TypedShaped
<1>1. Rebuilt(h, h1) /\ h1.node = h.node /\ h1.lastfree = f
    BY <1>0, TakeIs DEF TakeEffect
<1> HIDE DEF h1
<1>1a. f \in Nodes(h) /\ f # a /\ f # p
    OBVIOUS
<1> HIDE DEF f
<1>2. Nodes(h1) = Nodes(h) /\ \A n \in Nodes(h) : h1.node[n] = h.node[n]
    BY <1>1 DEF Nodes
<1>2a. \A n \in Nodes(h) : (Linked(h1, n) <=> Linked(h, n)) /\ After1(h1, n) = After1(h, n)
    BY <1>2 DEF Linked, After1
<1>2b. (\A x, y : Reach(h1, x, y) <=> Reach(h, x, y)) /\ \A x : MainPosition(h1, x) = MainPosition(h, x)
    BY <1>2, SameReach, SameMain
<1>2c. TableTyped(h1)
    <2>1. f \in 0..SizeNode(h)
        BY <1>1a, TableNodes
    <2>2. \A n \in Nodes(h) : /\ h1.node[n].key \in Keys \cup {Nil} /\ h1.node[n].val \in V
                              /\ h1.node[n].next \in Int /\ h1.node[n].dead \in BOOLEAN
                              /\ After1(h1, n) \in Nodes(h)
        <3> TAKE n \in Nodes(h)
        <3> QED BY <1>2, <1>2a, NodeFields, TableNodes
    <2> QED BY <1>1, <2>1, <2>2, TypedAgain
<1>2d. OneBefore(h1)
    BY <1>2, <1>2a DEF OneBefore
<1>2e. MainPosition(h1, h1.node[a].key) = Home(h, a)
    BY <1>2, <1>2b DEF Home
<1>3. MoveEffect(h1, h2, a, f, p)
    BY <1>1a, <1>2, <1>2a, <1>2b, <1>2c, <1>2d, <1>2e, MoveIs
<1> HIDE DEF h2
<1>4. Shaped(h2) /\ a \in Nodes(h2)
    BY <1>2, <1>3 DEF MoveEffect, Rebuilt
<1>5. PutEffect(h2, q, a, k, v)
    BY <1>4, PutIs
<1> HIDE DEF q
<1>6. Rebuilt(h, q) /\ q.lastfree = f
    BY <1>1, <1>3, <1>5 DEF Rebuilt, MoveEffect, PutEffect
<1>7. q.node[a] = Rec(k, v, 0, FALSE)
    BY <1>3, <1>5 DEF MoveEffect, PutEffect
<1>8. q.node[f] = Rec(h.node[a].key, h.node[a].val,
                      IF h.node[a].next = 0 THEN 0 ELSE h.node[a].next + a - f, h.node[a].dead)
    BY <1>1, <1>1a, <1>2, <1>3, <1>5 DEF MoveEffect, PutEffect, Rebuilt
<1>8a. q.node[p] = Rec(h.node[p].key, h.node[p].val, f - p, h.node[p].dead)
    BY <1>1, <1>2, <1>3, <1>5 DEF MoveEffect, PutEffect, Rebuilt
<1>9. \A n \in Nodes(h) : n # a /\ n # f /\ n # p => q.node[n] = h.node[n]
    BY <1>1, <1>2, <1>3, <1>5 DEF MoveEffect, PutEffect, Rebuilt
<1>10. Away(h, q, a, f, p, k, v)
    BY <1>6, <1>7, <1>8, <1>8a, <1>9 DEF Away
<1> QED BY <1>10 DEF q, h2, h1, f

LEMMA InsertAway ==
    ASSUME NEW h, Sound(h), NEW k, Fresh(h, k), NEW v \in V, ~h.dummy,
           h.node[MainPosition(h, k)].val # Nil, Home(h, MainPosition(h, k)) # MainPosition(h, k),
           NEW f, IsFree(h, f), NEW p \in Nodes(h), Linked(h, p), After1(h, p) = MainPosition(h, k),
           NEW q, Away(h, q, MainPosition(h, k), f, p, k, v)
    PROVE  Inserted(h, q, k, v)
<1> DEFINE a == MainPosition(h, k)
<1>0. /\ TableTyped(h) /\ Shaped(h) /\ k \in Keys /\ k \in K /\ k # Nil
      /\ Lone(h) /\ NoneFree(h) /\ OneBefore(h) /\ Ranked(h) /\ Homes(h) /\ LiveFirst(h)
    BY TypedShaped, KeyFacts DEF Sound, Fresh, Linkage
<1>1. a \in Nodes(h) /\ f \in Nodes(h) /\ h.node[f].key = Nil
    BY <1>0, MainPositionType DEF IsFree
<1>2. h.node[a].key # Nil /\ a # f
    BY <1>0, <1>1 DEF Lone
<1>8. MainPosition(h, k) = a /\ Home(h, a) # a /\ After1(h, p) = a
    OBVIOUS
<1>8a. Away(h, q, a, f, p, k, v)
    OBVIOUS
<1> HIDE DEF a
<1>2a. PICK rank : rank \in [Nodes(h) -> Nat] /\ \A n \in Nodes(h) : Linked(h, n) => rank[After1(h, n)] < rank[n]
    BY <1>0 DEF Ranked, Ranks
<1>2b. \A n \in Nodes(h) : rank[n] \in Nat
    BY <1>2a
<1>2c. p # f /\ p # a
    <2>1. p # f
        BY <1>0, <1>1 DEF Lone
    <2>2. rank[a] < rank[p] /\ rank[a] \in Nat /\ rank[p] \in Nat
        BY <1>1, <1>2a, <1>2b, <1>8
    <2> QED BY <2>1, <2>2
<1>3. /\ q.node[a].key = k /\ q.node[a].val = v /\ q.node[a].next = 0 /\ q.node[a].dead = FALSE
      /\ q.node[f].key = h.node[a].key /\ q.node[f].val = h.node[a].val /\ q.node[f].dead = h.node[a].dead
      /\ q.node[f].next = IF h.node[a].next = 0 THEN 0 ELSE h.node[a].next + a - f
      /\ q.node[p].key = h.node[p].key /\ q.node[p].val = h.node[p].val /\ q.node[p].next = f - p /\ q.node[p].dead = h.node[p].dead
      /\ \A n \in Nodes(h) : n # a /\ n # f /\ n # p => q.node[n] = h.node[n]
    BY <1>8a DEF Away, Rec
<1> DEFINE tr(n) == IF n = a THEN f ELSE n
<1>3a. /\ \A n \in Nodes(h) : n # f => Like(h, n, q, tr(n)) /\ tr(n) \in Nodes(h) /\ tr(n) # a
       /\ \A m \in Nodes(h) : m # a => \E n \in Nodes(h) : n # f /\ m = tr(n)
       /\ \A n, m \in Nodes(h) : n # f /\ m # f /\ tr(n) = tr(m) => n = m
       /\ tr(a) = f /\ \A n : n # a => tr(n) = n
    <2>1. ASSUME NEW n \in Nodes(h), n # f PROVE Like(h, n, q, tr(n)) /\ tr(n) \in Nodes(h) /\ tr(n) # a
        <3>1. CASE n = a
            BY <1>1, <1>2, <1>3, <3>1 DEF Like
        <3>2. CASE n = p
            BY <1>2, <1>2c, <1>3, <3>2 DEF Like
        <3>3. CASE n # a /\ n # p
            BY <1>3, <2>1, <3>3 DEF Like
        <3> QED BY <3>1, <3>2, <3>3
    <2>2. ASSUME NEW m \in Nodes(h), m # a PROVE \E n \in Nodes(h) : n # f /\ m = tr(n)
        <3>1. CASE m = f
            BY <1>1, <1>2, <3>1
        <3>2. CASE m # f
            BY <2>2, <3>2
        <3> QED BY <3>1, <3>2
    <2> QED BY <2>1, <2>2, <1>1, <1>2
<1> HIDE DEF tr
<1>4. Rebuilt(h, q) /\ q.lastfree = f /\ Nodes(q) = Nodes(h) /\ q.arr = h.arr /\ q.dummy = h.dummy /\ \A x : MainPosition(q, x) = MainPosition(h, x)
    BY <1>8a, SameMain DEF Rebuilt, Away
<1>5. /\ \A n \in Nodes(h) : After1(h, n) \in Nodes(h) /\ n \in Int
      /\ \A n \in Nodes(h) : Linked(h, n) => After1(h, n) # f
      /\ ~Linked(h, f)
    <2>1. \A n \in Nodes(h) : After1(h, n) \in Nodes(h) /\ n \in Int
        BY <1>0, TableNodes
    <2> QED BY <1>0, <1>1, <2>1 DEF NoneFree, Lone
<1>5a. h.node[a].next \in Int
    BY <1>0, <1>1, NodeFields
<1>5b. a \in Int /\ f \in Int /\ p \in Int
    BY <1>1, <1>5
<1>6. /\ ~Linked(q, a) /\ After1(q, a) = a
      /\ Linked(q, p) /\ After1(q, p) = f
      /\ Linked(q, f) <=> Linked(h, a)
      /\ Linked(h, a) => After1(q, f) = After1(h, a)
    <2>1. Linked(q, p) /\ After1(q, p) = f
        BY <1>2c, <1>3, <1>5b DEF Linked, After1
    <2>1a. ~Linked(q, a) /\ After1(q, a) = a
        BY <1>3, <1>5b DEF Linked, After1
    <2>2. Linked(h, a) => After1(q, f) = After1(h, a)
        BY <1>3, <1>5a, <1>5b DEF Linked, After1
    <2>3. Linked(q, f) <=> Linked(h, a)
        <3>1. CASE h.node[a].next = 0
            BY <1>3, <3>1 DEF Linked
        <3>2. CASE h.node[a].next # 0
            <4>1. a + h.node[a].next # f
                BY <1>1, <1>5, <3>2 DEF Linked, After1
            <4>3. \A x, y, z \in Int : x + y # z => y + x - z # 0
                OBVIOUS
            <4>4. h.node[a].next + a - f # 0
                BY <1>5a, <1>5b, <4>1, <4>3
            <4>5. q.node[f].next = h.node[a].next + a - f
                BY <1>3, <3>2
            <4> QED BY <3>2, <4>4, <4>5 DEF Linked
        <3> QED BY <3>1, <3>2
    <2> QED BY <2>1, <2>1a, <2>2, <2>3
<1>7. \A n \in Nodes(h) : n # a /\ n # f /\ n # p => (Linked(q, n) <=> Linked(h, n)) /\ After1(q, n) = After1(h, n)
    BY <1>3 DEF Linked, After1
<1>9. \A n \in Nodes(h) : n # f => /\ Linked(q, tr(n)) <=> Linked(h, n)
                                   /\ Linked(h, n) => After1(q, tr(n)) = tr(After1(h, n))
    <2> TAKE n \in Nodes(h)
    <2> HAVE n # f
    <2>0. Linked(h, n) => (After1(h, n) = a <=> n = p)
        BY <1>0, <1>1, <1>8 DEF OneBefore
    <2>1. CASE n = a
        BY <1>2c, <1>3a, <1>6, <2>0, <2>1
    <2>2. CASE n = p
        BY <1>2c, <1>3a, <1>6, <1>8, <2>2
    <2>3. CASE n # a /\ n # p
        BY <1>3a, <1>7, <2>0, <2>3
    <2> QED BY <2>1, <2>2, <2>3
<1>10. ASSUME NEW x \in Nodes(h), NEW y \in Nodes(h), x # f, y # f, Reach(h, x, y)
       PROVE  Reach(q, tr(x), tr(y))
    <2> SUFFICES ASSUME NEW S \in SUBSET Nodes(h), tr(x) \in S, Closed(q, S) PROVE tr(y) \in S
        BY <1>4 DEF Reach
    <2> DEFINE U == {z \in Nodes(h) : z # f /\ tr(z) \in S}
    <2>1. Closed(h, U)
        <3> SUFFICES ASSUME NEW z \in U, Linked(h, z) PROVE After1(h, z) \in U
            BY DEF Closed
        <3>1. After1(h, z) \in Nodes(h) /\ After1(h, z) # f
            BY <1>5
        <3>2. Linked(q, tr(z)) /\ After1(q, tr(z)) = tr(After1(h, z))
            BY <1>9
        <3>3. After1(q, tr(z)) \in S
            BY <3>2 DEF Closed
        <3> QED BY <3>1, <3>2, <3>3
    <2>2. U \in SUBSET Nodes(h) /\ x \in U
        BY <1>10
    <2>3. y \in U
        <3> HIDE DEF U
        <3> QED BY <1>10, <2>1, <2>2 DEF Reach
    <2> QED BY <2>3
<1>11. TableTyped(q)
    <2>1. \A n \in Nodes(h) : /\ q.node[n].key \in Keys \cup {Nil} /\ q.node[n].val \in V
                              /\ q.node[n].next \in Int /\ q.node[n].dead \in BOOLEAN
                              /\ After1(q, n) \in Nodes(h)
        <3> TAKE n \in Nodes(h)
        <3>1. \A m \in Nodes(h) : h.node[m].key \in Keys \cup {Nil} /\ h.node[m].val \in V /\ h.node[m].next \in Int /\ h.node[m].dead \in BOOLEAN
            BY <1>0, NodeFields
        <3>2. CASE n = f
            <4>1. q.node[f].next \in Int
                BY <1>3, <1>5a, <1>5b
            <4>2. After1(q, f) \in Nodes(h)
                <5>1. CASE Linked(h, a)
                    BY <1>1, <1>5, <1>6, <5>1
                <5>2. CASE ~Linked(h, a)
                    <6>1. q.node[f].next = 0
                        BY <1>3, <5>2 DEF Linked
                    <6> QED BY <1>1, <1>5b, <6>1 DEF After1
                <5> QED BY <5>1, <5>2
            <4>3. q.node[f].key \in Keys \cup {Nil} /\ q.node[f].val \in V /\ q.node[f].dead \in BOOLEAN
                BY <1>1, <1>3, <3>1
            <4> QED BY <3>2, <4>1, <4>2, <4>3
        <3>3. CASE n = a
            <4>1. q.node[a].key \in Keys \cup {Nil} /\ q.node[a].val \in V /\ q.node[a].dead \in BOOLEAN
                BY <1>0, <1>3
            <4>2. q.node[a].next \in Int /\ After1(q, a) \in Nodes(h)
                BY <1>1, <1>3, <1>6
            <4> QED BY <3>3, <4>1, <4>2
        <3>4. CASE n = p
            <4>1. q.node[p].next \in Int /\ After1(q, p) \in Nodes(h)
                BY <1>1, <1>3, <1>5b, <1>6
            <4>2. q.node[p].key \in Keys \cup {Nil} /\ q.node[p].val \in V /\ q.node[p].dead \in BOOLEAN
                BY <1>3, <3>1
            <4> QED BY <3>4, <4>1, <4>2
        <3>5. CASE n # a /\ n # f /\ n # p
            BY <1>3, <1>5, <1>7, <3>1, <3>5
        <3> QED BY <3>2, <3>3, <3>4, <3>5
    <2>2. f \in 0..SizeNode(h)
        BY UsedAbove
    <2> QED BY <1>0, <1>4, <2>1, <2>2, TypedAgain
<1>12. Lone(q)
    <2> SUFFICES ASSUME NEW m \in Nodes(h), q.node[m].key = Nil
                 PROVE  ~Linked(q, m) /\ q.node[m].val = Nil /\ ~q.node[m].dead
        BY <1>4 DEF Lone
    <2>1. m # a
        BY <1>0, <1>3
    <2>2. PICK n \in Nodes(h) : n # f /\ m = tr(n)
        BY <1>3a, <2>1
    <2>3. Like(h, n, q, m) /\ (Linked(q, m) <=> Linked(h, n))
        BY <1>3a, <1>9, <2>2
    <2> QED BY <1>0, <2>3 DEF Lone, Like
<1>13. NoneFree(q)
    <2> SUFFICES ASSUME NEW m \in Nodes(h), Linked(q, m) PROVE q.node[After1(q, m)].key # Nil
        BY <1>4 DEF NoneFree
    <2>1. m # a
        BY <1>6
    <2>2. PICK n \in Nodes(h) : n # f /\ m = tr(n)
        BY <1>3a, <2>1
    <2>3. Linked(h, n) /\ After1(q, m) = tr(After1(h, n)) /\ After1(h, n) \in Nodes(h) /\ After1(h, n) # f
        BY <1>5, <1>9, <2>2
    <2>4. Like(h, After1(h, n), q, After1(q, m)) /\ h.node[After1(h, n)].key # Nil
        BY <1>0, <1>3a, <2>3 DEF NoneFree
    <2> QED BY <2>4 DEF Like
<1>14. OneBefore(q)
    <2> SUFFICES ASSUME NEW m1 \in Nodes(h), NEW m2 \in Nodes(h), Linked(q, m1), Linked(q, m2), After1(q, m1) = After1(q, m2)
                 PROVE  m1 = m2
        BY <1>4 DEF OneBefore
    <2>1. m1 # a /\ m2 # a
        BY <1>6
    <2>2. PICK n1 \in Nodes(h) : n1 # f /\ m1 = tr(n1)
        BY <1>3a, <2>1
    <2>3. PICK n2 \in Nodes(h) : n2 # f /\ m2 = tr(n2)
        BY <1>3a, <2>1
    <2>4. Linked(h, n1) /\ After1(q, m1) = tr(After1(h, n1)) /\ After1(h, n1) \in Nodes(h) /\ After1(h, n1) # f
        BY <1>5, <1>9, <2>2
    <2>5. Linked(h, n2) /\ After1(q, m2) = tr(After1(h, n2)) /\ After1(h, n2) \in Nodes(h) /\ After1(h, n2) # f
        BY <1>5, <1>9, <2>3
    <2>6. After1(h, n1) = After1(h, n2)
        BY <1>3a, <2>4, <2>5
    <2> QED BY <1>0, <2>2, <2>3, <2>4, <2>5, <2>6 DEF OneBefore
<1>15. Ranked(q)
    <2> DEFINE new == [m \in Nodes(h) |-> IF m = f THEN rank[a] ELSE IF m = a THEN 0 ELSE rank[m]]
    <2>2. new \in [Nodes(h) -> Nat]
        BY <1>1, <1>2b
    <2>3. \A n \in Nodes(h) : n # f => new[tr(n)] = rank[n]
        BY <1>1, <1>2, <1>3a
    <2> HIDE DEF new
    <2>4. ASSUME NEW m \in Nodes(h), Linked(q, m) PROVE new[After1(q, m)] < new[m]
        <3>1. m # a
            BY <1>6, <2>4
        <3>2. PICK n \in Nodes(h) : n # f /\ m = tr(n)
            BY <1>3a, <3>1
        <3>3. Linked(h, n) /\ After1(q, m) = tr(After1(h, n)) /\ After1(h, n) \in Nodes(h) /\ After1(h, n) # f
            BY <1>5, <1>9, <2>4, <3>2
        <3> QED BY <1>2a, <2>3, <3>2, <3>3
    <2> QED BY <1>4, <2>2, <2>4 DEF Ranked, Ranks
<1>16. \A n \in Nodes(h) : h.node[n].key # Nil =>
          /\ h.node[Home(h, n)].key # Nil /\ Home(h, Home(h, n)) = Home(h, n) /\ Reach(h, Home(h, n), n)
          /\ Home(h, n) \in Nodes(h) /\ Home(h, n) # a /\ Home(h, n) # f /\ tr(Home(h, n)) = Home(h, n)
    <2> TAKE n \in Nodes(h)
    <2> HAVE h.node[n].key # Nil
    <2>1. h.node[Home(h, n)].key # Nil /\ Home(h, Home(h, n)) = Home(h, n) /\ Reach(h, Home(h, n), n)
        BY <1>0 DEF Homes
    <2>2. h.node[n].key \in K
        <3>1. h.node[n].key \in Keys \cup {Nil}
            BY <1>0, NodeFields
        <3> QED BY <3>1, KeyFacts
    <2>3. Home(h, n) \in Nodes(h)
        BY <1>0, <2>2, MainPositionType DEF Home
    <2> QED BY <1>1, <1>3a, <1>8, <2>1, <2>3
<1>17. Homes(q)
    <2> SUFFICES ASSUME NEW m \in Nodes(h), q.node[m].key # Nil
                 PROVE  q.node[Home(q, m)].key # Nil /\ Home(q, Home(q, m)) = Home(q, m) /\ Reach(q, Home(q, m), m)
        BY <1>4 DEF Homes
    <2>1. CASE m = a
        <3>1. Home(q, a) = a
            BY <1>3, <1>4, <1>8 DEF Home
        <3> QED BY <1>0, <1>3, <2>1, <3>1, ReachSelf
    <2>2. CASE m # a
        <3>0. PICK n \in Nodes(h) : n # f /\ m = tr(n)
            BY <1>3a, <2>2
        <3>1. Like(h, n, q, m)
            BY <1>3a, <3>0
        <3> DEFINE o == Home(h, n)
        <3>2. h.node[n].key # Nil
            BY <3>1 DEF Like
        <3>3. Home(q, m) = o
            BY <1>4, <3>1 DEF Home, Like
        <3>4. /\ h.node[o].key # Nil /\ Home(h, o) = o /\ Reach(h, o, n)
              /\ o \in Nodes(h) /\ o # a /\ o # f /\ tr(o) = o
            BY <1>16, <3>2
        <3> HIDE DEF o
        <3>5. Like(h, o, q, o)
            BY <1>3a, <3>4
        <3>6. q.node[o].key # Nil /\ Home(q, o) = o
            BY <1>4, <3>4, <3>5 DEF Like, Home
        <3>7. Reach(q, o, m)
            BY <1>10, <3>0, <3>4
        <3> QED BY <3>3, <3>6, <3>7
    <2> QED BY <2>1, <2>2
<1>18. LiveFirst(q)
    <2> SUFFICES ASSUME NEW m1 \in Nodes(h), NEW m2 \in Nodes(h),
                        q.node[m1].key # Nil, ~q.node[m1].dead, q.node[m2].key = q.node[m1].key, m2 # m1
                 PROVE  q.node[m2].dead /\ Reach(q, m1, m2)
        BY <1>4 DEF LiveFirst
    <2>0. \A n \in Nodes(h) : h.node[n].key # k
        <3> SUFFICES ASSUME NEW n \in Nodes(h), h.node[n].key = k PROVE FALSE
            OBVIOUS
        <3>1. Home(h, n) = a
            BY <1>8 DEF Home
        <3> QED BY <1>0, <1>16, <3>1
    <2>1. m1 # a /\ m2 # a
        <3>1. \A m \in Nodes(h) : m # a => q.node[m].key # k
            <4> SUFFICES ASSUME NEW m \in Nodes(h), m # a PROVE q.node[m].key # k
                OBVIOUS
            <4>1. PICK n \in Nodes(h) : n # f /\ m = tr(n)
                BY <1>3a
            <4> QED BY <1>3a, <2>0, <4>1 DEF Like
        <3> QED BY <1>3, <3>1
    <2>2. PICK n1 \in Nodes(h) : n1 # f /\ m1 = tr(n1)
        BY <1>3a, <2>1
    <2>3. PICK n2 \in Nodes(h) : n2 # f /\ m2 = tr(n2)
        BY <1>3a, <2>1
    <2>4. Like(h, n1, q, m1) /\ Like(h, n2, q, m2) /\ n1 # n2
        BY <1>3a, <2>2, <2>3
    <2>5. h.node[n2].dead /\ Reach(h, n1, n2)
        BY <1>0, <2>4 DEF LiveFirst, Like
    <2> QED BY <1>10, <2>2, <2>3, <2>4, <2>5 DEF Like
<1>19. Apart(q)
    <2> SUFFICES ASSUME NEW m \in Nodes(h), q.node[m].key # Nil PROVE ~InArray(q, q.node[m].key)
        BY <1>4 DEF Apart
    <2>1. CASE m = a
        BY <1>3, <1>4, <2>1 DEF InArray, Fresh
    <2>2. CASE m # a
        <3>0. PICK n \in Nodes(h) : n # f /\ m = tr(n)
            BY <1>3a, <2>2
        <3>1. Like(h, n, q, m)
            BY <1>3a, <3>0
        <3> QED BY <1>4, <3>1 DEF Apart, Sound, InArray, Like
    <2> QED BY <2>1, <2>2
<1>20. DeadEmpty(q)
    <2> SUFFICES ASSUME NEW m \in Nodes(h), q.node[m].dead PROVE q.node[m].val = Nil
        BY <1>4 DEF DeadEmpty
    <2>1. m # a
        BY <1>3
    <2>2. PICK n \in Nodes(h) : n # f /\ m = tr(n)
        BY <1>3a, <2>1
    <2> QED BY <1>3a, <2>2 DEF DeadEmpty, Sound, Like
<1>21. ArrayKeys(q) /\ DummyNode(q)
    BY <1>4 DEF ArrayKeys, DummyNode, Sound
<1>22. UsedUp(q)
    <2> SUFFICES ASSUME NEW m \in Nodes(h), m >= f PROVE q.node[m].key # Nil
        BY <1>4 DEF UsedUp
    <2>1. CASE m = f
        BY <1>2, <1>3, <2>1
    <2>2. CASE m = a
        BY <1>0, <1>3, <2>2
    <2>3. CASE m # f /\ m # a
        <3>1. h.node[m].key # Nil
            BY <2>3, UsedAbove
        <3>2. Like(h, m, q, m)
            BY <1>3a, <2>3
        <3> QED BY <3>1, <3>2 DEF Like
    <2> QED BY <2>1, <2>2, <2>3
<1>23. Sound(q)
    BY <1>11, <1>12, <1>13, <1>14, <1>15, <1>17, <1>18, <1>19, <1>20, <1>21, <1>22 DEF Sound, Linkage
<1>24. \A n \in Nodes(h) : h.node[n].val = Nil \/ \E m \in Nodes(h) : Like(h, n, q, m)
    <2> TAKE n \in Nodes(h)
    <2>1. CASE n = f
        BY <1>0, <1>1, <2>1 DEF Lone
    <2>2. CASE n # f
        BY <1>3a, <2>2
    <2> QED BY <2>1, <2>2
<1>25. \A m \in Nodes(h) : (q.node[m].key = k /\ ~q.node[m].dead) \/ \E n \in Nodes(h) : Like(h, n, q, m)
    <2> TAKE m \in Nodes(h)
    <2>1. CASE m = a
        BY <1>3, <2>1
    <2>2. CASE m # a
        BY <1>3a, <2>2
    <2> QED BY <2>1, <2>2
<1>26. ~q.node[a].dead
    BY <1>3
<1> QED BY <1>1, <1>3, <1>4, <1>23, <1>24, <1>25, <1>26, Outcome

LEMMA NotDummy ==
    ASSUME NEW h, Sound(h), FreePos(h) # None
    PROVE  ~h.dummy
<1> SUFFICES ASSUME h.dummy PROVE FALSE
    OBVIOUS
<1>1. h.lastfree = 0 /\ TableTyped(h)
    BY DEF Sound, DummyNode
<1>2. FreePos(h) \in Nodes(h) /\ FreePos(h) < 0
    BY <1>1, FreeIs
<1> QED BY <1>1, <1>2, TableNodes

\* A new key goes in where there is a place, and all others stay.
LEMMA InsertIs ==
    ASSUME NEW h, Sound(h), NEW k, Fresh(h, k), NEW v \in V, HasPlace(h, k)
    PROVE  Inserted(h, Insert(h, k, v), k, v)
<1> DEFINE a == MainPosition(h, k)
           f == FreePos(h)
<1>0. /\ TableTyped(h) /\ Shaped(h) /\ k \in Keys /\ k \in K
      /\ Lone(h) /\ OneBefore(h) /\ Homes(h)
    BY TypedShaped, KeyFacts DEF Sound, Fresh, Linkage
<1>1. a \in Nodes(h)
    BY <1>0, MainPositionType
<1>2. CASE h.node[a].val = Nil /\ ~h.dummy
    <2>1. Insert(h, k, v) = PutNode(h, a, k, v)
        BY <1>2 DEF Insert
    <2> QED BY <1>2, <2>1, InsertEmpty
<1>3. CASE ~(h.node[a].val = Nil /\ ~h.dummy)
    <2>1. FreePos(h) # None /\ ~h.dummy
        BY <1>3, NotDummy DEF HasPlace
    <2>2. h.node[a].val # Nil
        BY <1>3, <2>1
    <2>3. IsFree(h, f)
        BY <1>0, <2>1, FreeIs DEF IsFree
    <2>4. a # f /\ h.node[a].key # Nil /\ f \in Nodes(h) /\ h.node[f].key = Nil
        BY <1>0, <1>1, <2>2, <2>3 DEF Lone, IsFree
    <2>5. CASE Home(h, a) = a
        <3>1. Insert(h, k, v) = PutNode(ChainAfter(TakeFreePos(h), a, f), f, k, v)
            BY <1>3, <2>5 DEF Insert, Home
        <3>2. Behind(h, Insert(h, k, v), a, f, k, v)
            BY <1>0, <1>1, <2>1, <2>4, <3>1, BehindIs
        <3> QED BY <2>1, <2>2, <2>3, <2>5, <3>2, InsertBehind
    <2>6. CASE Home(h, a) # a
        <3>1. Insert(h, k, v) = PutNode(MoveColliding(TakeFreePos(h), a, f), a, k, v)
            BY <1>3, <2>6 DEF Insert, Home
        <3>2. h.node[a].key \in K
            <4>1. h.node[a].key \in Keys \cup {Nil}
                BY <1>0, <1>1, NodeFields
            <4> QED BY <2>4, <4>1, KeyFacts
        <3>3. Home(h, a) \in Nodes(h) /\ Reach(h, Home(h, a), a)
            BY <1>0, <1>1, <2>4, <3>2, MainPositionType DEF Homes, Home
        <3>4. PICK p \in Nodes(h) : Reach(h, Home(h, a), p) /\ Linked(h, p) /\ After1(h, p) = a
            BY <1>0, <2>6, <3>3, ReachBefore
        <3>5. p # f
            BY <1>0, <2>4, <3>4 DEF Lone
        <3>6. p # a
            <4>1. PICK rank : rank \in [Nodes(h) -> Nat] /\ \A n \in Nodes(h) : Linked(h, n) => rank[After1(h, n)] < rank[n]
                BY DEF Ranked, Ranks, Sound, Linkage
            <4>2. rank[a] < rank[p] /\ rank[a] \in Nat
                BY <1>1, <3>4, <4>1
            <4> QED BY <4>2
        <3>7. Away(h, Insert(h, k, v), a, f, p, k, v)
            <4> HIDE DEF a
            <4> QED BY <1>0, <1>1, <2>1, <2>4, <2>6, <3>1, <3>3, <3>4, <3>5, <3>6, AwayIs
        <3> QED BY <2>1, <2>2, <2>3, <2>6, <3>4, <3>7, InsertAway
    <2> QED BY <2>5, <2>6
<1> QED BY <1>2, <1>3

\* What a place there is depends on.
LEMMA PlaceWhereFree ==
    ASSUME NEW h, Sound(h), ~h.dummy, NEW n \in Nodes(h), h.node[n].key = Nil, NEW k
    PROVE  HasPlace(h, k)
<1>1. TableTyped(h) /\ UsedUp(h)
    BY DEF Sound
<1>2. Nodes(h) = 0..SizeNode(h) - 1 /\ SizeNode(h) \in Nat /\ h.lastfree \in 0..SizeNode(h)
    BY <1>1, TableNodes DEF Sized
<1>3. n < h.lastfree
    BY <1>1, <1>2 DEF UsedUp
<1> QED BY <1>1, <1>3, FreeSome DEF HasPlace

-----------------------------------------------------------------------------
(* Assignments.                                                            *)

\* Values change, and keys of empty entries die.
LEMMA Relabel ==
    ASSUME NEW h, Sound(h), NEW q, Rebuilt(h, q), q.lastfree = h.lastfree,
           \A n \in Nodes(h) : /\ q.node[n].key = h.node[n].key /\ q.node[n].next = h.node[n].next
                               /\ q.node[n].val \in V /\ q.node[n].dead \in BOOLEAN
                               /\ h.node[n].dead => q.node[n].dead
                               /\ q.node[n].dead => q.node[n].val = Nil
                               /\ h.node[n].key = Nil => q.node[n] = h.node[n]
    PROVE  Sound(q)
<1>0. /\ TableTyped(h) /\ Lone(h) /\ NoneFree(h) /\ OneBefore(h) /\ Ranked(h) /\ Homes(h) /\ LiveFirst(h)
      /\ Apart(h) /\ UsedUp(h) /\ DummyNode(h) /\ ArrayKeys(h)
    BY DEF Sound, Linkage
<1>1. Nodes(q) = Nodes(h) /\ q.arr = h.arr /\ q.dummy = h.dummy /\ \A x : MainPosition(q, x) = MainPosition(h, x)
    BY SameMain DEF Rebuilt
<1>2. \A n \in Nodes(h) : (Linked(q, n) <=> Linked(h, n)) /\ After1(q, n) = After1(h, n) /\ Home(q, n) = Home(h, n)
    BY <1>1 DEF Linked, After1, Home
<1>3. \A x, y : Reach(q, x, y) <=> Reach(h, x, y)
    BY <1>1, SameReach
<1>4. \A n \in Nodes(h) : After1(h, n) \in Nodes(h)
    BY <1>0, TableNodes
<1>5. TableTyped(q)
    <2>1. \A n \in Nodes(h) : /\ q.node[n].key \in Keys \cup {Nil} /\ q.node[n].val \in V
                              /\ q.node[n].next \in Int /\ q.node[n].dead \in BOOLEAN
                              /\ After1(q, n) \in Nodes(h)
        <3> TAKE n \in Nodes(h)
        <3>1. h.node[n].key \in Keys \cup {Nil} /\ h.node[n].next \in Int
            BY <1>0, NodeFields
        <3> QED BY <1>2, <1>4, <3>1
    <2>2. h.lastfree \in 0..SizeNode(h)
        BY <1>0, TableNodes DEF Sized
    <2> QED BY <1>0, <2>1, <2>2, TypedAgain
<1>6. Lone(q)
    BY <1>0, <1>1, <1>2 DEF Lone
<1>7. NoneFree(q)
    BY <1>0, <1>1, <1>2, <1>4 DEF NoneFree
<1>8. OneBefore(q)
    BY <1>0, <1>1, <1>2 DEF OneBefore
<1>9. Ranked(q)
    BY <1>0, <1>1, <1>2 DEF Ranked, Ranks
<1>10. Homes(q)
    <2> SUFFICES ASSUME NEW n \in Nodes(h), h.node[n].key # Nil
                 PROVE  q.node[Home(q, n)].key # Nil /\ Home(q, Home(q, n)) = Home(q, n) /\ Reach(q, Home(q, n), n)
        BY <1>1 DEF Homes
    <2>1. h.node[Home(h, n)].key # Nil /\ Home(h, Home(h, n)) = Home(h, n) /\ Reach(h, Home(h, n), n)
        BY <1>0 DEF Homes
    <2>2. h.node[n].key \in K
        <3>1. h.node[n].key \in Keys \cup {Nil}
            BY <1>0, NodeFields
        <3> QED BY <3>1, KeyFacts
    <2>3. Home(h, n) \in Nodes(h)
        BY <1>0, <2>2, MainPositionType DEF Home
    <2> QED BY <1>2, <1>3, <2>1, <2>3
<1>11. LiveFirst(q)
    <2> SUFFICES ASSUME NEW n \in Nodes(h), NEW m \in Nodes(h),
                        q.node[n].key # Nil, ~q.node[n].dead, q.node[m].key = q.node[n].key, m # n
                 PROVE  q.node[m].dead /\ Reach(q, n, m)
        BY <1>1 DEF LiveFirst
    <2>1. h.node[n].key # Nil /\ ~h.node[n].dead /\ h.node[m].key = h.node[n].key
        OBVIOUS
    <2> QED BY <1>0, <1>3, <2>1 DEF LiveFirst
<1>12. Apart(q) /\ DeadEmpty(q) /\ ArrayKeys(q) /\ UsedUp(q)
    BY <1>0, <1>1 DEF Apart, DeadEmpty, ArrayKeys, UsedUp, InArray
<1>13. DummyNode(q)
    <2> SUFFICES ASSUME h.dummy PROVE q.node = [n \in {0} |-> EmptyNode] /\ h.lastfree = 0
        BY <1>1 DEF DummyNode
    <2>1. h.node = [n \in {0} |-> EmptyNode] /\ h.lastfree = 0
        BY <1>0 DEF DummyNode
    <2>2. Nodes(h) = {0} /\ h.node[0].key = Nil
        BY <2>1 DEF Nodes, EmptyNode
    <2>3. q.node[0] = h.node[0]
        BY <2>2
    <2>4. q.node = [n \in {0} |-> q.node[n]]
        BY <1>1, <2>2 DEF Rebuilt, Shaped
    <2> QED BY <2>1, <2>3, <2>4
<1> QED BY <1>5, <1>6, <1>7, <1>8, <1>9, <1>10, <1>11, <1>12, <1>13 DEF Sound, Linkage

\* The nodes stay.
LEMMA OtherArray ==
    ASSUME NEW h, Sound(h), NEW q, q = Table(q.arr, h.node, h.dummy, q.lastfree),
           q.arr \in Seq(V), \A x : InArray(q, x) => InArray(h, x), ArrayKeys(q),
           \/ q.lastfree = h.lastfree
           \/ q.lastfree = 0 /\ (~h.dummy => \A n \in Nodes(h) : h.node[n].key # Nil)
    PROVE  Sound(q)
<1>0. /\ TableTyped(h) /\ Lone(h) /\ NoneFree(h) /\ OneBefore(h) /\ Ranked(h) /\ Homes(h) /\ LiveFirst(h)
      /\ Apart(h) /\ DeadEmpty(h) /\ UsedUp(h) /\ DummyNode(h)
    BY DEF Sound, Linkage
<1>1. q.node = h.node /\ q.dummy = h.dummy
    BY DEF Table
<1>2. Nodes(q) = Nodes(h) /\ \A x : MainPosition(q, x) = MainPosition(h, x)
    BY <1>1, SameMain DEF Nodes
<1>3. \A x, y : Reach(q, x, y) <=> Reach(h, x, y)
    BY <1>1, <1>2, SameReach
<1>4. \A n : (Linked(q, n) <=> Linked(h, n)) /\ After1(q, n) = After1(h, n) /\ Home(q, n) = Home(h, n)
    BY <1>1, <1>2 DEF Linked, After1, Home
<1>5. TableTyped(q)
    <2>1. \E size : Sized(q, size)
        <3>1. PICK size : Sized(h, size)
            BY <1>0 DEF TableTyped
        <3>2. size \in Nat /\ h.lastfree \in 0..size
            BY <3>1 DEF Sized
        <3>3. q.lastfree \in 0..size
            BY <3>2
        <3> QED BY <1>1, <3>1, <3>3 DEF Sized
    <2>2. q = [arr |-> q.arr, node |-> q.node, dummy |-> q.dummy, lastfree |-> q.lastfree]
        BY <1>1 DEF Table
    <2> QED BY <1>0, <1>1, <1>2, <1>4, <2>1, <2>2 DEF TableTyped
<1>6. Lone(q) /\ NoneFree(q) /\ OneBefore(q)
    BY <1>0, <1>1, <1>2, <1>4 DEF Lone, NoneFree, OneBefore
<1>7. Ranked(q)
    BY <1>0, <1>2, <1>4 DEF Ranked, Ranks
<1>8. Homes(q)
    BY <1>0, <1>1, <1>2, <1>3, <1>4 DEF Homes
<1>9. LiveFirst(q)
    BY <1>0, <1>1, <1>2, <1>3 DEF LiveFirst
<1>10. Apart(q)
    BY <1>0, <1>1, <1>2 DEF Apart
<1>11. DeadEmpty(q) /\ UsedUp(q) /\ DummyNode(q)
    <2>1. UsedUp(q)
        BY <1>0, <1>1, <1>2 DEF UsedUp
    <2>2. DummyNode(q)
        BY <1>0, <1>1 DEF DummyNode
    <2> QED BY <1>0, <1>1, <1>2, <2>1, <2>2 DEF DeadEmpty
<1> QED BY <1>5, <1>6, <1>7, <1>8, <1>9, <1>10, <1>11 DEF Sound, Linkage

\* What an assignment does.
Assigned(h, q, k, v) ==
    /\ Sound(q) /\ Nodes(q) = Nodes(h) /\ DOMAIN q.arr = DOMAIN h.arr /\ q.dummy = h.dummy
    /\ Get(q, k) = v
    /\ \A x \in K : x # k => Get(q, x) = Get(h, x)
    /\ \A m \in Nodes(q) : \/ q.node[m].key = k /\ ~q.node[m].dead
                           \/ \E n \in Nodes(h) : q.node[m].key = h.node[n].key /\ q.node[m].dead = h.node[n].dead

\* Where looking up agrees on what nodes have, it agrees.
LEMMA SameGet ==
    ASSUME NEW h, Sound(h), NEW q, Sound(q), NEW x \in K, InArray(q, x) <=> InArray(h, x),
           InArray(h, x) => q.arr[x] = h.arr[x],
           \A n : Has(q, x, n) <=> Has(h, x, n), \A n : Has(h, x, n) => q.node[n].val = h.node[n].val
    PROVE  Get(q, x) = Get(h, x)
<1>1. CASE InArray(h, x)
    BY <1>1, GetIs
<1>2. CASE ~InArray(h, x) /\ \E n : Has(h, x, n)
    <2>1. PICK n : Has(h, x, n)
        BY <1>2
    <2>2. Get(h, x) = h.node[n].val
        BY <1>2, <2>1, GetIs
    <2>3. Get(q, x) = q.node[n].val
        BY <1>2, <2>1, GetIs
    <2> QED BY <2>1, <2>2, <2>3
<1>3. CASE ~InArray(h, x) /\ ~\E n : Has(h, x, n)
    <2>2. Get(h, x) = Nil
        BY <1>3, GetIs
    <2>3. Get(q, x) = Nil
        BY <1>3, GetIs
    <2> QED BY <2>2, <2>3
<1> QED BY <1>1, <1>2, <1>3

LEMMA PutInArray ==
    ASSUME NEW h, Sound(h), NEW k \in Keys, NEW v \in V, InArray(h, k)
    PROVE  Assigned(h, [h EXCEPT !.arr[k] = v], k, v)
<1> DEFINE q == [h EXCEPT !.arr[k] = v]
           arr == [h.arr EXCEPT ![k] = v]
<1>0. TableTyped(h) /\ ArrayKeys(h) /\ h.arr \in Seq(V) /\ k \in K
    BY KeyFacts DEF Sound, TableTyped
<1>1. h = Table(h.arr, h.node, h.dummy, h.lastfree)
    BY <1>0, TypedShaped DEF Shaped
<1>2. q = [h EXCEPT !.arr = arr]
    OBVIOUS
<1> HIDE DEF q
<1>3. q = Table(arr, h.node, h.dummy, h.lastfree)
    <2> HIDE DEF arr
    <2> QED BY <1>1, <1>2 DEF Table
<1>4. q.arr = arr /\ q.node = h.node /\ q.dummy = h.dummy /\ q.lastfree = h.lastfree
    <2> HIDE DEF arr
    <2> QED BY <1>3 DEF Table
<1>5. arr \in Seq(V) /\ Len(arr) = Len(h.arr) /\ DOMAIN arr = DOMAIN h.arr /\ k \in DOMAIN h.arr
    BY <1>0 DEF InArray
<1>6. arr[k] = v /\ \A i \in DOMAIN h.arr : i # k => arr[i] = h.arr[i]
    BY <1>5
<1> HIDE DEF arr
<1>7. Nodes(q) = Nodes(h)
    BY <1>4 DEF Nodes
<1>8. \A x : InArray(q, x) <=> InArray(h, x)
    BY <1>4, <1>5 DEF InArray
<1>9. ArrayKeys(q)
    <2> SUFFICES ASSUME NEW i \in 1..Len(arr), arr[i] # Nil PROVE i \in Keys
        BY <1>4 DEF ArrayKeys
    <2>1. i \in DOMAIN h.arr /\ i \in 1..Len(h.arr)
        BY <1>0, <1>5
    <2> QED BY <1>0, <1>6, <2>1 DEF ArrayKeys
<1>10. Sound(q)
    BY <1>3, <1>4, <1>5, <1>8, <1>9, OtherArray DEF Table
<1>11. Get(q, k) = v
    BY <1>0, <1>4, <1>6, <1>8, <1>10, GetIs
<1>12. ASSUME NEW x \in K, x # k PROVE Get(q, x) = Get(h, x)
    <2>1. InArray(h, x) => q.arr[x] = h.arr[x]
        BY <1>4, <1>6, <1>12 DEF InArray
    <2>2. \A n : (Has(q, x, n) <=> Has(h, x, n)) /\ q.node[n].val = h.node[n].val
        BY <1>4, <1>7 DEF Has
    <2> QED BY <1>8, <1>10, <2>1, <2>2, SameGet
<1>13. Assigned(h, q, k, v)
    BY <1>4, <1>5, <1>7, <1>10, <1>11, <1>12 DEF Assigned
<1> QED BY <1>13 DEF q

LEMMA RecVal ==
    ASSUME NEW r, r = Rec(r.key, r.val, r.next, r.dead), NEW v
    PROVE  [r EXCEPT !.val = v] = Rec(r.key, v, r.next, r.dead)
BY DEF Rec

LEMMA PutInNode ==
    ASSUME NEW h, Sound(h), NEW k \in Keys, NEW v \in V, ~InArray(h, k), NEW a, Has(h, k, a)
    PROVE  Assigned(h, [h EXCEPT !.node[a].val = v], k, v)
<1> DEFINE q == [h EXCEPT !.node[a].val = v]
<1>0. TableTyped(h) /\ Shaped(h) /\ k \in K /\ k # Nil /\ a \in Nodes(h) /\ h.node[a].key = k /\ ~h.node[a].dead
    BY TypedShaped, KeyFacts DEF Sound, Has
<1>1. [h.node[a] EXCEPT !.val = v] = Rec(k, v, h.node[a].next, h.node[a].dead)
    <2>1. h.node[a] = Rec(h.node[a].key, h.node[a].val, h.node[a].next, h.node[a].dead)
        BY <1>0 DEF Shaped
    <2> QED BY <1>0, <2>1, RecVal
<1>2. q = [h EXCEPT !.node[a] = [h.node[a] EXCEPT !.val = v]]
    OBVIOUS
<1> HIDE DEF q
<1>3. q = [h EXCEPT !.node[a] = Rec(k, v, h.node[a].next, h.node[a].dead)]
    BY <1>1, <1>2
<1>4. /\ Rebuilt(h, q) /\ q.lastfree = h.lastfree
      /\ q.node[a] = Rec(k, v, h.node[a].next, h.node[a].dead)
      /\ \A n \in Nodes(h) : n # a => q.node[n] = h.node[n]
    BY <1>0, <1>3, NodePut
<1>5. q.node[a].key = k /\ q.node[a].val = v /\ q.node[a].next = h.node[a].next /\ q.node[a].dead = h.node[a].dead
    BY <1>4 DEF Rec
<1>6. Nodes(q) = Nodes(h) /\ q.arr = h.arr /\ q.dummy = h.dummy
    BY <1>4 DEF Rebuilt
<1>7. \A n \in Nodes(h) : /\ q.node[n].key = h.node[n].key /\ q.node[n].next = h.node[n].next /\ q.node[n].dead = h.node[n].dead
                          /\ n # a => q.node[n].val = h.node[n].val
    BY <1>0, <1>4, <1>5
<1>8. Sound(q)
    <2>1. \A n \in Nodes(h) : /\ q.node[n].val \in V /\ q.node[n].dead \in BOOLEAN
                              /\ q.node[n].dead => q.node[n].val = Nil
                              /\ h.node[n].key = Nil => q.node[n] = h.node[n]
        <3> TAKE n \in Nodes(h)
        <3>1. h.node[n].val \in V /\ h.node[n].dead \in BOOLEAN
            BY <1>0, NodeFields
        <3>2. h.node[n].dead => h.node[n].val = Nil
            BY DEF Sound, DeadEmpty
        <3> QED BY <1>0, <1>4, <1>5, <1>7, <3>1, <3>2
    <2> QED BY <1>4, <1>7, <2>1, Relabel
<1>9. \A x : InArray(q, x) <=> InArray(h, x)
    BY <1>6 DEF InArray
<1>10. \A x, n : Has(q, x, n) <=> Has(h, x, n)
    BY <1>6, <1>7 DEF Has
<1>11. Get(q, k) = v
    BY <1>0, <1>5, <1>8, <1>9, <1>10, GetIs
<1>12. ASSUME NEW x \in K, x # k PROVE Get(q, x) = Get(h, x)
    <2>1. \A n : Has(h, x, n) => q.node[n].val = h.node[n].val
        BY <1>0, <1>7, <1>12 DEF Has
    <2> QED BY <1>6, <1>8, <1>9, <1>10, <2>1, SameGet
<1>13. Assigned(h, q, k, v)
    BY <1>6, <1>7, <1>8, <1>11, <1>12 DEF Assigned
<1> QED BY <1>13 DEF q

LEMMA PutAssigns ==
    ASSUME NEW h, Sound(h), NEW k \in Keys, NEW v \in V,
           InArray(h, k) \/ NodeOf(h, k) # None \/ HasPlace(h, k)
    PROVE  Assigned(h, Put(h, k, v), k, v)
<1>0. k \in K
    BY KeyFacts
<1>1. CASE InArray(h, k)
    BY <1>1, PutInArray DEF Put
<1>2. CASE ~InArray(h, k) /\ NodeOf(h, k) # None
    <2>1. Has(h, k, NodeOf(h, k))
        BY <1>0, <1>2, NodeOfIs
    <2>2. Put(h, k, v) = [h EXCEPT !.node[NodeOf(h, k)].val = v]
        BY <1>2 DEF Put
    <2> QED BY <1>2, <2>1, <2>2, PutInNode
<1>3. CASE ~InArray(h, k) /\ NodeOf(h, k) = None
    <2>1. Fresh(h, k)
        BY <1>0, <1>3, NodeOfIs DEF Fresh
    <2>2. Put(h, k, v) = Insert(h, k, v) /\ HasPlace(h, k)
        BY <1>3 DEF Put
    <2>3. Inserted(h, Put(h, k, v), k, v)
        BY <2>1, <2>2, InsertIs
    <2> QED BY <2>3 DEF Inserted, Assigned, Like
<1> QED BY <1>1, <1>2, <1>3

-----------------------------------------------------------------------------
(* Powers of two.                                                          *)

LEMMA Induction ==
    ASSUME NEW n \in Nat, NEW S, 0 \in S, \A j \in 1..n : j - 1 \in S => j \in S
    PROVE  0..n \subseteq S
<1> SUFFICES ASSUME (0..n) \ S # {}
             PROVE  FALSE
    OBVIOUS
<1> DEFINE R == (0..n) \ S
<1>1. R \subseteq Nat
    OBVIOUS
<1>2. IsWellFoundedOn(OpToRel(<, Nat), Nat)
    BY NatLessThanWellFounded
<1>3. PICK m \in R : \A k \in R : ~(<<k, m>> \in OpToRel(<, Nat))
    BY <1>1, <1>2, WFMin
<1>4. \A k \in R : ~(k < m)
    BY <1>1, <1>3 DEF OpToRel
<1>5. m # 0 /\ m - 1 \in 0..n /\ m \in 1..n
    OBVIOUS
<1>6. m - 1 \in R
    BY <1>5
<1> QED BY <1>4, <1>5, <1>6

\* A loop that keeps within T has results, all of them in T.
Runs(n, T, start, step) ==
    \E f \in [0..n -> T] : f[0] = start /\ \A j \in 1..n : f[j] = step[<<j, f[j - 1]>>]

LEMMA Loop ==
    ASSUME NEW n \in Nat, NEW T, NEW start \in T, NEW step \in [(1..n) \X T -> T]
    PROVE  Runs(n, T, start, step)
<1> DEFINE S == {m \in 0..n : \E f \in [0..m -> T] :
                    f[0] = start /\ \A j \in 1..m : f[j] = step[<<j, f[j - 1]>>]}
<1>1. 0 \in S
    <2>1. [j \in 0..0 |-> start] \in [0..0 -> T]
        OBVIOUS
    <2>2. [j \in 0..0 |-> start][0] = start /\ \A j \in 1..0 : FALSE
        OBVIOUS
    <2>3. \E f \in [0..0 -> T] : f[0] = start /\ \A j \in 1..0 : f[j] = step[<<j, f[j - 1]>>]
        BY <2>1, <2>2
    <2> QED BY <2>3
<1>2. ASSUME NEW m \in 1..n, m - 1 \in S PROVE m \in S
    <2>1. PICK f \in [0..m - 1 -> T] :
            f[0] = start /\ \A j \in 1..m - 1 : f[j] = step[<<j, f[j - 1]>>]
        BY <1>2
    <2> DEFINE g == [j \in 0..m |-> IF j = m THEN step[<<m, f[m - 1]>>] ELSE f[j]]
    <2>2. f[m - 1] \in T
        OBVIOUS
    <2>3. <<m, f[m - 1]>> \in (1..n) \X T
        BY <2>2
    <2>4. step[<<m, f[m - 1]>>] \in T
        BY <2>3
    <2>5. g \in [0..m -> T]
        BY <2>4
    <2>6. \A j \in 0..m - 1 : g[j] = f[j]
        OBVIOUS
    <2>7. g[m] = step[<<m, f[m - 1]>>] /\ g[0] = start
        BY <2>1, <2>6
    <2>8. \A j \in 1..m : g[j] = step[<<j, g[j - 1]>>]
        <3> TAKE j \in 1..m
        <3> HIDE DEF g
        <3>1. CASE j = m
            BY <2>6, <2>7, <3>1
        <3>2. CASE j \in 1..m - 1
            BY <2>1, <2>6, <3>2
        <3> QED BY <3>1, <3>2
    <2>9. g[0] = start
        BY <2>7
    <2> HIDE DEF g
    <2>10. \E h \in [0..m -> T] : h[0] = start /\ \A j \in 1..m : h[j] = step[<<j, h[j - 1]>>]
        BY <2>5, <2>8, <2>9
    <2> QED BY <2>10
<1>3. 0..n \subseteq S
    <2> HIDE DEF S
    <2> QED BY <1>1, <1>2, Induction
<1> QED BY <1>3 DEF Runs

\* What a recursive definition of this form defines.
Powers(n, f) == f \in [0..n -> Nat] /\ f[0] = 1 /\ \A j \in 1..n : f[j] = 2 * f[j - 1]

LEMMA PowersExist ==
    ASSUME NEW n \in Nat
    PROVE  \E f : Powers(n, f)
<1> DEFINE step == [p \in (1..n) \X Nat |-> 2 * p[2]]
<1>1. step \in [(1..n) \X Nat -> Nat] /\ \A j \in 1..n, x \in Nat : step[<<j, x>>] = 2 * x
    OBVIOUS
<1> HIDE DEF step
<1>2. Runs(n, Nat, 1, step)
    <2>1. 1 \in Nat
        OBVIOUS
    <2> QED BY <1>1, <2>1, Loop
<1>3. PICK f \in [0..n -> Nat] : f[0] = 1 /\ \A j \in 1..n : f[j] = step[<<j, f[j - 1]>>]
    BY <1>2 DEF Runs
<1>4. \A j \in 1..n : f[j - 1] \in Nat
    OBVIOUS
<1> QED BY <1>1, <1>3, <1>4 DEF Powers

LEMMA PowersAgree ==
    ASSUME NEW n \in Nat, NEW m \in Nat, n <= m, NEW f, Powers(n, f), NEW g, Powers(m, g)
    PROVE  f[n] = g[n]
<1> DEFINE S == {j \in 0..n : f[j] = g[j]}
<1>1. 0 \in S
    BY DEF Powers
<1>2. ASSUME NEW j \in 1..n, j - 1 \in S PROVE j \in S
    <2>1. j \in 1..m
        OBVIOUS
    <2> QED BY <1>2, <2>1 DEF Powers
<1>3. 0..n \subseteq S
    <2> HIDE DEF S
    <2> QED BY <1>1, <1>2, Induction
<1> QED BY <1>3

LEMMA TwoTo ==
    /\ twoto[0] = 1
    /\ \A i \in Nat : twoto[i] \in Nat \ {0}
    /\ \A i \in Nat \ {0} : twoto[i] = 2 * twoto[i - 1]
<1> DEFINE Def(f) == f = [i \in Nat |-> IF i = 0 THEN 1 ELSE 2 * f[i - 1]]
           F == [n \in Nat |-> (CHOOSE f : Powers(n, f))[n]]
           G == CHOOSE f : Def(f)
<1>1. \A n \in Nat : Powers(n, CHOOSE f : Powers(n, f))
    BY PowersExist
<1>2. ASSUME NEW n \in Nat PROVE F[n] \in Nat /\ F[n] = IF n = 0 THEN 1 ELSE 2 * F[n - 1]
    <2> DEFINE f == CHOOSE f : Powers(n, f)
    <2>1. Powers(n, f) /\ F[n] = f[n]
        BY <1>1
    <2> HIDE DEF f
    <2>2. f[n] \in Nat /\ (n = 0 => f[n] = 1)
        BY <2>1 DEF Powers
    <2>3. ASSUME n # 0 PROVE f[n] = 2 * F[n - 1]
        <3> DEFINE m == n - 1
                   g == CHOOSE g : Powers(m, g)
        <3>1. m \in Nat /\ m <= n /\ n \in 1..n
            BY <2>3
        <3>2. Powers(m, g) /\ F[m] = g[m]
            BY <1>1, <3>1
        <3> HIDE DEF g
        <3>3. g[m] = f[m]
            <4> HIDE DEF m, F
            <4> QED BY <2>1, <3>1, <3>2, PowersAgree
        <3>4. f[n] = 2 * f[m]
            BY <2>1, <3>1 DEF Powers
        <3> HIDE DEF F
        <3> QED BY <3>2, <3>3, <3>4
    <2> HIDE DEF F
    <2> QED BY <2>1, <2>2, <2>3
<1>3. Def(F)
    <2>1. F = [n \in Nat |-> F[n]]
        OBVIOUS
    <2> HIDE DEF F
    <2> QED BY <1>2, <2>1
<1>4. Def(G)
    <2> HIDE DEF F
    <2> QED BY <1>3
<1>5. twoto = G
    BY DEF twoto
<1> HIDE DEF G
<1>6. twoto[0] = 1 /\ \A i \in Nat \ {0} : twoto[i] = 2 * twoto[i - 1]
    BY <1>4, <1>5
<1>7. ASSUME NEW n \in Nat PROVE twoto[n] \in Nat \ {0}
    <2> DEFINE S == {j \in 0..n : twoto[j] \in Nat \ {0}}
    <2>1. 0 \in S
        BY <1>6
    <2>2. ASSUME NEW j \in 1..n, j - 1 \in S PROVE j \in S
        BY <1>6, <2>2
    <2>3. 0..n \subseteq S
        <3> HIDE DEF S
        <3> QED BY <2>1, <2>2, Induction
    <2> QED BY <2>3
<1> QED BY <1>6, <1>7

LEMMA TwoToGrows ==
    /\ \A i \in Nat : i < twoto[i]
    /\ \A i, j \in Nat : i < j => twoto[i] < twoto[j]
<1>1. ASSUME NEW n \in Nat PROVE n < twoto[n]
    <2> DEFINE S == {j \in 0..n : j < twoto[j]}
    <2>1. 0 \in S
        BY TwoTo
    <2>2. ASSUME NEW j \in 1..n, j - 1 \in S PROVE j \in S
        <3>1. j \in Nat \ {0} /\ j - 1 \in Nat
            OBVIOUS
        <3>2. twoto[j] = 2 * twoto[j - 1] /\ twoto[j - 1] \in Nat
            BY <3>1, TwoTo
        <3> QED BY <2>2, <3>1, <3>2
    <2>3. 0..n \subseteq S
        <3> HIDE DEF S
        <3> QED BY <2>1, <2>2, Induction
    <2> QED BY <2>3
<1>2. ASSUME NEW i \in Nat, NEW j \in Nat, i < j PROVE twoto[i] < twoto[j]
    <2> DEFINE n == j - i - 1
               S == {k \in 0..n : twoto[i] < twoto[i + 1 + k]}
    <2>1. n \in Nat /\ j = i + 1 + n
        BY <1>2
    <2> HIDE DEF n
    <2>2. 0 \in S
        <3>1. i + 1 \in Nat \ {0} /\ (i + 1) - 1 = i /\ i + 1 + 0 = i + 1
            OBVIOUS
        <3>2. twoto[i + 1] = 2 * twoto[i] /\ twoto[i] \in Nat \ {0}
            BY <3>1, TwoTo
        <3> QED BY <2>1, <3>1, <3>2
    <2>3. ASSUME NEW k \in 1..n, k - 1 \in S PROVE k \in S
        <3>1. i + 1 + k \in Nat \ {0} /\ (i + 1 + k) - 1 = i + 1 + (k - 1) /\ i + 1 + (k - 1) \in Nat
            BY <2>1
        <3>2. twoto[i + 1 + k] = 2 * twoto[i + 1 + (k - 1)] /\ twoto[i + 1 + (k - 1)] \in Nat /\ twoto[i] \in Nat
            BY <3>1, TwoTo
        <3>3. twoto[i] < twoto[i + 1 + (k - 1)]
            BY <2>3
        <3> QED BY <2>1, <3>2, <3>3
    <2>4. 0..n \subseteq S
        <3> HIDE DEF S
        <3> QED BY <2>1, <2>2, <2>3, Induction
    <2> QED BY <2>1, <2>4
<1> QED BY <1>1, <1>2

IsPower(size) == \E i \in Nat : size = twoto[i]

\* The logarithm, rounded up, is the one slice that has the number.
LEMMA CeilLogIs ==
    ASSUME NEW n \in Nat \ {0}
    PROVE  /\ CeilLog2(n) \in Nat
           /\ \A j \in Nat : CeilLog2(n) = j <=> n <= twoto[j] /\ (j > 0 => n > twoto[j - 1])
<1> DEFINE S == {i \in Nat : twoto[i] >= n}
           i == CeilLog2(n)
<1>1. n \in S
    <2>1. n < twoto[n] /\ twoto[n] \in Nat
        BY TwoTo, TwoToGrows
    <2> QED BY <2>1
<1>2. PICK m \in S : \A j \in S : m <= j
    <2>1. S \in SUBSET Nat /\ S # {}
        BY <1>1
    <2> HIDE DEF S
    <2> QED BY <2>1, LeastExists
<1>3. m \in 0..n /\ twoto[m] >= n
    BY <1>1, <1>2
<1>4. m = 0 \/ twoto[m - 1] < n
    <2> SUFFICES ASSUME m # 0 PROVE twoto[m - 1] < n
        OBVIOUS
    <2>1. m - 1 \in Nat /\ m - 1 \notin S
        BY <1>2
    <2>2. twoto[m - 1] \in Nat
        BY <2>1, TwoTo
    <2> QED BY <2>1, <2>2
<1>5. i \in 0..n /\ twoto[i] >= n /\ (i = 0 \/ twoto[i - 1] < n)
    <2> HIDE DEF S
    <2> QED BY <1>3, <1>4 DEF CeilLog2
<1> HIDE DEF i, S
<1>6. i \in Nat /\ twoto[i] \in Nat
    BY <1>5, TwoTo
<1>7. ASSUME NEW a \in Nat, NEW b \in Nat, n <= twoto[a], b > 0, n > twoto[b - 1] PROVE b <= a
    <2> SUFFICES ASSUME a < b PROVE FALSE
        BY <1>7
    <2>1. b - 1 \in Nat /\ (a = b - 1 \/ a < b - 1)
        BY <1>7
    <2>2. twoto[a] <= twoto[b - 1] /\ twoto[b - 1] \in Nat /\ twoto[a] \in Nat
        BY <2>1, TwoTo, TwoToGrows
    <2> QED BY <1>7, <2>2
<1>8. n <= twoto[i] /\ (i > 0 => n > twoto[i - 1])
    <2>1. i > 0 => i - 1 \in Nat /\ twoto[i - 1] \in Nat
        BY <1>6, TwoTo
    <2> QED BY <1>5, <1>6, <2>1
<1>9. ASSUME NEW j \in Nat, n <= twoto[j], j > 0 => n > twoto[j - 1] PROVE i = j
    <2>1. j > 0 => j <= i
        BY <1>6, <1>7, <1>8, <1>9
    <2>2. i > 0 => i <= j
        BY <1>6, <1>7, <1>8, <1>9
    <2> QED BY <1>6, <2>1, <2>2
<1> QED BY <1>6, <1>8, <1>9 DEF i

LEMMA CeilPow ==
    ASSUME NEW n \in Nat \ {0}
    PROVE  CeilPow2(n) \in Nat /\ CeilPow2(n) >= n /\ IsPower(CeilPow2(n)) /\ (IsPower(n) => CeilPow2(n) = n)
<1> DEFINE i == CeilLog2(n)
<1>1. i \in Nat /\ n <= twoto[i] /\ twoto[i] \in Nat
    BY CeilLogIs, TwoTo
<1>2. CeilPow2(n) = twoto[i]
    BY DEF CeilPow2
<1>3. ASSUME NEW j \in Nat, n = twoto[j] PROVE i = j
    <2>1. j > 0 => n > twoto[j - 1]
        <3> SUFFICES ASSUME j > 0 PROVE n > twoto[j - 1]
            OBVIOUS
        <3>1. j - 1 \in Nat /\ j - 1 < j
            OBVIOUS
        <3>2. twoto[j - 1] < twoto[j]
            BY <3>1, TwoToGrows
        <3>3. twoto[j - 1] \in Nat
            BY <3>1, TwoTo
        <3> QED BY <1>3, <3>2, <3>3
    <2> QED BY <1>3, <2>1, CeilLogIs
<1> HIDE DEF i
<1> QED BY <1>1, <1>2, <1>3 DEF IsPower

-----------------------------------------------------------------------------
(* Growing.                                                                *)

WithParts(g, node, dummy, lastfree) == [g EXCEPT !.node = node, !.dummy = dummy, !.lastfree = lastfree]
LEMMA TableWith ==
    ASSUME NEW g, g = Table(g.arr, g.node, g.dummy, g.lastfree), NEW node, NEW dummy, NEW lastfree
    PROVE  WithParts(g, node, dummy, lastfree) = Table(g.arr, node, dummy, lastfree)
<1> DEFINE q == WithParts(g, node, dummy, lastfree)
<1>1. DOMAIN g = {"arr", "node", "dummy", "lastfree"}
    BY DEF Table
<1>2. q = [x \in DOMAIN g |-> IF x = "lastfree" THEN lastfree ELSE IF x = "dummy" THEN dummy
                              ELSE IF x = "node" THEN node ELSE g[x]]
    BY Zenon DEF WithParts
<1> HIDE DEF q
<1>3. q = Table(g.arr, node, dummy, lastfree)
    BY <1>1, <1>2 DEF Table
<1> QED BY <1>3 DEF q

LEMMA EmptyTable ==
    ASSUME NEW g, g = Table(g.arr, g.node, g.dummy, g.lastfree), g.arr \in Seq(V), ArrayKeys(g), NEW size \in Nat
    PROVE  LET q == SetNodeVector(g, size)
           IN  /\ Sound(q) /\ q.arr = g.arr /\ SizeNode(q) >= size /\ IsPower(SizeNode(q)) /\ (size > 0 => ~q.dummy)
               /\ \A n \in Nodes(q) : q.node[n].key = Nil /\ ~q.node[n].dead
<1> DEFINE q == SetNodeVector(g, size)
           s == IF size = 0 THEN 1 ELSE CeilPow2(size)
           d == (size = 0)
           l == IF size = 0 THEN 0 ELSE s
           node == [n \in 0..(s - 1) |-> EmptyNode]
<1>1. s \in Nat \ {0} /\ s >= size /\ IsPower(s) /\ l \in 0..s
    <2>1. CASE size = 0
        <3>1. twoto[0] = 1
            BY TwoTo
        <3> QED BY <2>1, <3>1 DEF IsPower
    <2>2. CASE size # 0
        BY <2>2, CeilPow
    <2> QED BY <2>1, <2>2
<1>2. q = Table(g.arr, node, d, l)
    <2>1. CASE size = 0
        <3>1. q = WithParts(g, [n \in {0} |-> EmptyNode], TRUE, 0)
            BY <2>1, Zenon DEF SetNodeVector, WithParts
        <3>2. 0..(1 - 1) = {0}
            OBVIOUS
        <3>3. node = [n \in {0} |-> EmptyNode] /\ d = TRUE /\ l = 0
            BY <2>1, <3>2
        <3> HIDE DEF q, node, d, l
        <3> QED BY <3>1, <3>3, TableWith
    <2>2. CASE size # 0
        <3>1. q = WithParts(g, [n \in 0..(CeilPow2(size) - 1) |-> EmptyNode], FALSE, CeilPow2(size))
            BY <2>2, Zenon DEF SetNodeVector, WithParts
        <3>3. node = [n \in 0..(CeilPow2(size) - 1) |-> EmptyNode] /\ d = FALSE /\ l = CeilPow2(size)
            BY <2>2
        <3> HIDE DEF q, node, d, l
        <3> QED BY <3>1, <3>3, TableWith
    <2> QED BY <2>1, <2>2
<1>3. q.arr = g.arr /\ q.node = node /\ q.dummy = d /\ q.lastfree = l
    <2> HIDE DEF q, node, d, l
    <2> QED BY <1>2 DEF Table
<1>3a. (size > 0 => ~q.dummy) /\ (q.dummy => s = 1 /\ l = 0) /\ (~q.dummy => l = s) /\ q.dummy \in BOOLEAN
    <2>1. CASE size = 0
        <3>1. s = 1 /\ l = 0 /\ d = TRUE
            BY <2>1
        <3> HIDE DEF q, node, s, l, d
        <3> QED BY <1>3, <2>1, <3>1
    <2>2. CASE size # 0
        <3>1. l = s /\ d = FALSE
            BY <2>2
        <3> HIDE DEF q, node, s, l, d
        <3> QED BY <1>3, <2>2, <3>1
    <2> QED BY <2>1, <2>2
<1>4. /\ node \in [0..s - 1 -> NodeType]
      /\ \A n \in 0..s - 1 : node[n].key = Nil /\ node[n].val = Nil /\ node[n].next = 0 /\ node[n].dead = FALSE
    <2>1. EmptyNode \in NodeType
        BY DEF EmptyNode, NodeType, V
    <2> HIDE DEF s
    <2> QED BY <2>1 DEF EmptyNode
<1>4a. s = 1 => node = [n \in {0} |-> EmptyNode]
    <2>1. 0..(1 - 1) = {0}
        OBVIOUS
    <2> HIDE DEF s
    <2> QED BY <2>1
<1> HIDE DEF q, s, d, l, node
<1>5. Sized(q, s)
    BY <1>1, <1>3, <1>4 DEF Sized
<1>6. SizeNode(q) = s /\ Nodes(q) = 0..s - 1
    BY <1>5, NodesAre
<1>7. \A n \in Nodes(q) : /\ q.node[n].key = Nil /\ q.node[n].val = Nil /\ q.node[n].next = 0 /\ q.node[n].dead = FALSE
                          /\ ~Linked(q, n) /\ After1(q, n) = n
    BY <1>3, <1>4, <1>6 DEF Linked, After1
<1>8. TableTyped(q)
    <2>1. q = [arr |-> q.arr, node |-> q.node, dummy |-> q.dummy, lastfree |-> q.lastfree]
        BY <1>2, <1>3 DEF Table
    <2> QED BY <1>3, <1>3a, <1>5, <1>7, <2>1 DEF TableTyped
<1>9. Lone(q) /\ NoneFree(q) /\ OneBefore(q)
    BY <1>7 DEF Lone, NoneFree, OneBefore
<1>10. Ranked(q)
    <2>1. Ranks(q, [n \in Nodes(q) |-> 0])
        BY <1>7 DEF Ranks
    <2> QED BY <2>1 DEF Ranked
<1>11. Homes(q) /\ LiveFirst(q) /\ Apart(q) /\ DeadEmpty(q)
    BY <1>7 DEF Homes, LiveFirst, Apart, DeadEmpty
<1>12. UsedUp(q)
    BY <1>1, <1>3, <1>3a, <1>6 DEF UsedUp
<1>13. DummyNode(q)
    BY <1>3, <1>3a, <1>4a DEF DummyNode
<1>14. ArrayKeys(q)
    BY <1>3 DEF ArrayKeys
<1>15. Sound(q)
    BY <1>8, <1>9, <1>10, <1>11, <1>12, <1>13, <1>14 DEF Sound, Linkage
<1>16. SizeNode(q) >= size
    BY <1>1, <1>6
<1> QED BY <1>1, <1>3, <1>3a, <1>6, <1>7, <1>15, <1>16 DEF q

\* Entries of nodes and of the array part.
LEMMA EntryIs ==
    ASSUME NEW h, Sound(h), NEW j \in 1..(Len(h.arr) + SizeNode(h)), EntryAt(h, j).val # Nil
    PROVE  /\ EntryAt(h, j).key \in Keys /\ Get(h, EntryAt(h, j).key) = EntryAt(h, j).val
           /\ EntryAt(h, j).val \in V
           /\ j <= Len(h.arr) => EntryAt(h, j).key = j
           /\ j > Len(h.arr) => ~InArray(h, EntryAt(h, j).key)
<1>0. TableTyped(h) /\ h.arr \in Seq(V) /\ Len(h.arr) \in Nat /\ DOMAIN h.arr = 1..Len(h.arr) /\ SizeNode(h) \in Nat
    BY TableNodes DEF Sound, TableTyped
<1>1. CASE j <= Len(h.arr)
    <2>1. EntryAt(h, j).key = j /\ EntryAt(h, j).val = h.arr[j]
        BY <1>1 DEF EntryAt
    <2>2. j \in 1..Len(h.arr)
        BY <1>0, <1>1
    <2>3. j \in Keys
        BY <2>1, <2>2 DEF Sound, ArrayKeys
    <2>4. InArray(h, j)
        BY <1>0, <2>2 DEF InArray, IsInt
    <2>5. Get(h, j) = h.arr[j]
        BY <2>3, <2>4, KeyFacts, GetIs
    <2>6. h.arr[j] \in V
        BY <1>0, <2>2
    <2> QED BY <1>0, <1>1, <2>1, <2>3, <2>5, <2>6
<1>2. CASE j > Len(h.arr)
    <2> DEFINE n == j - Len(h.arr) - 1
    <2>1. EntryAt(h, j).key = h.node[n].key /\ EntryAt(h, j).val = h.node[n].val
        BY <1>0, <1>2 DEF EntryAt
    <2>2. n \in Nodes(h)
        BY <1>0, <1>2, TableNodes
    <2> HIDE DEF n
    <2>3. h.node[n].key # Nil /\ ~h.node[n].dead
        BY <2>1, <2>2 DEF Sound, Linkage, Lone, DeadEmpty
    <2>4. h.node[n].key \in Keys /\ h.node[n].val \in V
        BY <1>0, <2>2, <2>3, NodeFields
    <2>5. ~InArray(h, h.node[n].key)
        BY <2>2, <2>3 DEF Sound, Apart
    <2>6. Has(h, h.node[n].key, n)
        BY <2>2, <2>3 DEF Has
    <2>7. Get(h, h.node[n].key) = h.node[n].val
        BY <2>4, <2>5, <2>6, KeyFacts, GetIs
    <2> QED BY <1>0, <1>2, <2>1, <2>4, <2>5, <2>7
<1> QED BY <1>0, <1>1, <1>2

LEMMA EntryOf ==
    ASSUME NEW h, Sound(h), NEW x \in K, Get(h, x) # Nil
    PROVE  \E j \in 1..(Len(h.arr) + SizeNode(h)) : EntryAt(h, j).key = x /\ EntryAt(h, j).val = Get(h, x)
<1>0. TableTyped(h) /\ h.arr \in Seq(V) /\ Len(h.arr) \in Nat /\ DOMAIN h.arr = 1..Len(h.arr) /\ SizeNode(h) \in Nat
    BY TableNodes DEF Sound, TableTyped
<1>1. CASE InArray(h, x)
    <2>1. x \in 1..Len(h.arr)
        BY <1>0, <1>1 DEF InArray
    <2>2. EntryAt(h, x).key = x /\ EntryAt(h, x).val = h.arr[x]
        BY <2>1 DEF EntryAt
    <2>3. Get(h, x) = h.arr[x]
        BY <1>1, GetIs
    <2>4. x \in 1..(Len(h.arr) + SizeNode(h))
        BY <1>0, <2>1
    <2> QED BY <2>2, <2>3, <2>4
<1>2. CASE ~InArray(h, x)
    <2>1. PICK n : Has(h, x, n)
        BY <1>2, GetIs
    <2>2. Get(h, x) = h.node[n].val /\ h.node[n].key = x /\ n \in Nodes(h)
        BY <1>2, <2>1, GetIs DEF Has
    <2> DEFINE j == Len(h.arr) + 1 + n
    <2>3. n \in 0..SizeNode(h) - 1
        BY <1>0, <2>2, TableNodes
    <2>4. j \in 1..(Len(h.arr) + SizeNode(h)) /\ j > Len(h.arr) /\ j - Len(h.arr) - 1 = n
        <3>1. \A a, s, m \in Nat : m \in 0..s - 1 => a + 1 + m \in 1..(a + s) /\ a + 1 + m > a /\ a + 1 + m - a - 1 = m
            OBVIOUS
        <3> DEFINE L == Len(h.arr)
                   s == SizeNode(h)
        <3>2. n \in Nat /\ n \in 0..s - 1 /\ L \in Nat /\ s \in Nat
            BY <1>0, <2>3
        <3> HIDE DEF L, s
        <3>3. L + 1 + n \in 1..(L + s) /\ L + 1 + n > L /\ L + 1 + n - L - 1 = n
            BY <3>1, <3>2
        <3>4. j = L + 1 + n
            BY Zenon DEF L
        <3> HIDE DEF j
        <3>5. j \in 1..(L + s) /\ j > L /\ j - L - 1 = n
            BY <3>2, <3>3, <3>4
        <3> QED BY <3>5, Zenon DEF L, s
    <2>5. EntryAt(h, j).key = x /\ EntryAt(h, j).val = Get(h, x)
        <3> HIDE DEF j
        <3> QED BY <1>0, <2>2, <2>4 DEF EntryAt
    <2> QED BY <2>4, <2>5
<1> QED BY <1>1, <1>2

\* Where fewer keys may be in nodes than there are nodes, there is a place.
LEMMA RoomFor ==
    ASSUME NEW q, Sound(q), ~q.dummy, NEW S, IsFiniteSet(S), Cardinality(S) < SizeNode(q),
           \A m \in Nodes(q) : ~q.node[m].dead /\ (q.node[m].key = Nil \/ q.node[m].key \in S), NEW k
    PROVE  HasPlace(q, k)
<1>0. TableTyped(q) /\ SizeNode(q) \in Nat
    BY TableNodes DEF Sound
<1> SUFFICES ASSUME \A m \in Nodes(q) : q.node[m].key # Nil PROVE FALSE
    BY PlaceWhereFree
<1> DEFINE f == [m \in Nodes(q) |-> q.node[m].key]
<1>1. f \in [Nodes(q) -> S]
    OBVIOUS
<1>2. \A m, n \in Nodes(q) : f[m] = f[n] => m = n
    BY DEF Sound, LiveFirst
<1> HIDE DEF f
<1>3. f \in Injection(Nodes(q), S)
    BY <1>1, <1>2 DEF Injection, IsInjective
<1>4. Cardinality(Nodes(q)) <= Cardinality(S)
    BY <1>3, FS_Injection
<1>5. Cardinality(Nodes(q)) = SizeNode(q) /\ Cardinality(S) \in Nat
    BY FS_CardinalityType DEF SizeNode, Nodes
<1> QED BY <1>0, <1>4, <1>5

\* The keys that go into the nodes of a table with an array part of size na.
Entering(h, na) == {x \in Keys : Get(h, x) # Nil /\ ~(x \in 1..na)}

Resized(h, q, na, nh) ==
    /\ Sound(q) /\ Len(q.arr) = na /\ DOMAIN q.arr = 1..na
    /\ SizeNode(q) >= nh /\ IsPower(SizeNode(q)) /\ (nh > 0 => ~q.dummy)
    /\ \A x \in K : Get(q, x) = Get(h, x)
    /\ \A m \in Nodes(q) : ~q.node[m].dead /\ (q.node[m].key = Nil \/ q.node[m].key \in Entering(h, na))

LEMMA ArrayVector ==
    ASSUME NEW h, Sound(h), NEW na \in Nat
    PROVE  LET g == SetArrayVector(h, na)
           IN  /\ g = Table(g.arr, g.node, g.dummy, g.lastfree) /\ g.arr \in Seq(V) /\ ArrayKeys(g)
               /\ Len(g.arr) = na /\ DOMAIN g.arr = 1..na
               /\ \A i \in 1..na : g.arr[i] = IF i \in DOMAIN h.arr THEN h.arr[i] ELSE Nil
<1> DEFINE g == SetArrayVector(h, na)
           arr == [i \in 1..na |-> IF i \in DOMAIN h.arr THEN h.arr[i] ELSE Nil]
<1>0. TableTyped(h) /\ h.arr \in Seq(V) /\ DOMAIN h.arr = 1..Len(h.arr) /\ ArrayKeys(h)
    BY DEF Sound, TableTyped
<1>1. h = Table(h.arr, h.node, h.dummy, h.lastfree)
    BY <1>0, TypedShaped DEF Shaped
<1>2. g = [h EXCEPT !.arr = arr]
    BY DEF SetArrayVector
<1>3. /\ \A i \in 1..na : arr[i] = IF i \in DOMAIN h.arr THEN h.arr[i] ELSE Nil
      /\ DOMAIN arr = 1..na
    OBVIOUS
<1>4. arr \in Seq(V) /\ Len(arr) = na
    <2>1. \A i \in 1..na : (IF i \in DOMAIN h.arr THEN h.arr[i] ELSE Nil) \in V
        BY <1>0 DEF V
    <2>2. arr \in [1..na -> V]
        BY <2>1
    <2> HIDE DEF arr
    <2> QED BY <2>2
<1> HIDE DEF arr, g
<1>5. g = Table(arr, h.node, h.dummy, h.lastfree)
    BY <1>1, <1>2 DEF Table
<1>6. g.arr = arr /\ g = Table(g.arr, g.node, g.dummy, g.lastfree)
    BY <1>5 DEF Table
<1>7. ArrayKeys(g)
    BY <1>0, <1>3, <1>4, <1>6 DEF ArrayKeys
<1> QED BY <1>3, <1>4, <1>6, <1>7 DEF g

LEMMA ResizeIs ==
    ASSUME NEW h, Sound(h), NEW na \in Nat, NEW nh \in Nat,
           IsFiniteSet(Entering(h, na)), Cardinality(Entering(h, na)) <= nh
    PROVE  Resized(h, Resize(h, na, nh), na, nh)
<1> DEFINE old == Len(h.arr)
           gone == IF na < old THEN old - na ELSE 0
           size == SizeNode(h)
           E(i) == EntryAt(h, IF i <= gone THEN na + i ELSE old + 1 + gone + size - i)
           base == SetNodeVector(SetArrayVector(h, na), nh)
           B(q, i) == IF E(i).val = Nil THEN q ELSE Put(q, E(i).key, E(i).val)
           Def(f) == f = [i \in 0..gone + size |->
                            IF i = 0 THEN base
                            ELSE IF E(i).val = Nil THEN f[i - 1] ELSE Put(f[i - 1], E(i).key, E(i).val)]
           into == CHOOSE f : Def(f)
           N == gone + size
<1>0. /\ TableTyped(h) /\ old \in Nat /\ size \in Nat /\ gone \in Nat /\ N \in Nat
      /\ h.arr \in Seq(V) /\ DOMAIN h.arr = 1..old
    <2>1. TableTyped(h) /\ h.arr \in Seq(V)
        BY DEF Sound, TableTyped
    <2>2. old \in Nat /\ DOMAIN h.arr = 1..old
        BY <2>1
    <2>3. size \in Nat
        BY <2>1, TableNodes
    <2> HIDE DEF old, size
    <2> QED BY <2>1, <2>2, <2>3
<1>1. Resize(h, na, nh) = into[N]
    BY DEF Resize
<1>2. \E f : Def(f)
    <2> DEFINE Upto(m, f) == f = [i \in 0..m |-> IF i = 0 THEN base ELSE B(f[i - 1], i)]
               S == {m \in 0..N : \E f : Upto(m, f)}
    <2> HIDE DEF B, base, N
    <2>1. 0 \in S
        <3>1. Upto(0, [i \in 0..0 |-> base])
            OBVIOUS
        <3> HIDE DEF Upto
        <3>2. 0 \in 0..N
            BY <1>0
        <3> QED BY <3>1, <3>2
    <2>2. ASSUME NEW m \in 1..N, m - 1 \in S PROVE m \in S
        <3>1. PICK f : f = [i \in 0..m - 1 |-> IF i = 0 THEN base ELSE B(f[i - 1], i)]
            BY <2>2
        <3> DEFINE g == [i \in 0..m |-> IF i = m THEN B(f[m - 1], m) ELSE f[i]]
        <3>2. \A i \in 0..m - 1 : g[i] = f[i]
            BY <1>0
        <3>3. g[m] = B(f[m - 1], m)
            BY <1>0
        <3>4. g = [i \in 0..m |-> g[i]]
            OBVIOUS
        <3> HIDE DEF g
        <3>5. ASSUME NEW i \in 0..m PROVE g[i] = IF i = 0 THEN base ELSE B(g[i - 1], i)
            <4>1. CASE i = m
                BY <1>0, <3>2, <3>3, <4>1
            <4>2. CASE i # m /\ i = 0
                BY <1>0, <3>1, <3>2, <4>2
            <4>3. CASE i # m /\ i # 0
                <5>1. i \in 0..m - 1 /\ i - 1 \in 0..m - 1
                    BY <1>0, <4>3
                <5>2. f[i] = B(f[i - 1], i)
                    BY <3>1, <4>3, <5>1
                <5> QED BY <3>2, <4>3, <5>1, <5>2
            <4> QED BY <4>1, <4>2, <4>3
        <3>6. Upto(m, g)
            BY <3>4, <3>5
        <3> HIDE DEF Upto
        <3>7. m \in 0..N
            BY <1>0
        <3> QED BY <3>6, <3>7
    <2>3. 0..N \subseteq S
        <3> HIDE DEF S
        <3> QED BY <1>0, <2>1, <2>2, Induction
    <2>4. PICK f : Upto(N, f)
        <3> HIDE DEF Upto
        <3>1. N \in 0..N
            BY <1>0
        <3> QED BY <2>3, <3>1
    <2>5. Def(f)
        BY <2>4 DEF B, N
    <2> QED BY <2>5
<1>3. Def(into)
    BY <1>2
<1> HIDE DEF into
<1>4. into[0] = base /\ \A i \in 1..N : into[i] = B(into[i - 1], i)
    <2>1. into = [i \in 0..N |-> IF i = 0 THEN base ELSE B(into[i - 1], i)]
        BY <1>3
    <2> HIDE DEF B, base, N
    <2>2. 0 \in 0..N /\ \A i \in 1..N : i \in 0..N /\ i # 0
        BY <1>0
    <2>3. into[0] = base
        BY <2>1, <2>2
    <2>4. \A i \in 1..N : into[i] = B(into[i - 1], i)
        BY <2>1, <2>2
    <2> QED BY <2>3, <2>4
<1>5. ASSUME NEW i \in 1..N, E(i).val # Nil
      PROVE  /\ E(i).key \in Keys /\ Get(h, E(i).key) = E(i).val /\ E(i).val \in V
             /\ ~(E(i).key \in 1..na /\ E(i).key \in DOMAIN h.arr)
    <2> DEFINE j == IF i <= gone THEN na + i ELSE old + 1 + gone + size - i
    <2>1. j \in 1..(old + size) /\ (j <= old => j > na)
        <3> HIDE DEF old, size, base, B, Def, E
        <3>0. old \in Nat /\ size \in Nat /\ gone \in Nat
            BY <1>0
        <3>1. i \in Nat /\ 1 <= i /\ i <= gone + size
            BY <3>0
        <3>2. CASE i <= gone
            <4>1. gone = old - na
                BY <3>1, <3>2
            <4>2. j = na + i
                BY <3>2
            <4> HIDE DEF gone, j
            <4> QED BY <3>0, <3>1, <3>2, <4>1, <4>2
        <3>3. CASE ~(i <= gone)
            <4>1. j = old + 1 + gone + size - i
                BY <3>3
            <4> HIDE DEF gone, j
            <4> QED BY <3>0, <3>1, <3>3, <4>1
        <3> QED BY <3>2, <3>3
    <2>2. E(i) = EntryAt(h, j)
        OBVIOUS
    <2> HIDE DEF E, j
    <2>3. /\ E(i).key \in Keys /\ Get(h, E(i).key) = E(i).val /\ E(i).val \in V
          /\ j <= old => E(i).key = j
          /\ j > old => ~InArray(h, E(i).key)
        BY <1>5, <2>1, <2>2, EntryIs
    <2>4. CASE j <= old
        BY <2>1, <2>3, <2>4
    <2>5. CASE j > old
        <3>1. \A x \in 1..na : IsInt(x)
            BY DEF IsInt
        <3> QED BY <2>3, <2>5, <3>1 DEF InArray
    <2>6. j <= old \/ j > old
        BY <1>0, <2>1
    <2> QED BY <2>3, <2>4, <2>5, <2>6
<1>6. ASSUME NEW x \in K, Get(h, x) # Nil
      PROVE  (x \in 1..na /\ x \in DOMAIN h.arr) \/ \E i \in 1..N : E(i).key = x /\ E(i).val # Nil
    <2>1. PICK j \in 1..(old + size) : EntryAt(h, j).key = x /\ EntryAt(h, j).val = Get(h, x)
        BY <1>6, EntryOf
    <2>2. CASE j <= old /\ j <= na
        <3>1. EntryAt(h, j).key = j
            BY <2>2 DEF EntryAt
        <3> HIDE DEF old, size
        <3>2. j \in 1..na /\ j \in 1..old
            BY <1>0, <2>2
        <3> QED BY <1>0, <2>1, <3>1, <3>2
    <2>3. CASE j <= old /\ j > na
        <3> DEFINE i == j - na
        <3>1. i \in 1..gone /\ i \in 1..N /\ na + i = j
            <4> HIDE DEF old, size
            <4> QED BY <1>0, <2>1, <2>3
        <3> HIDE DEF i
        <3>2. E(i) = EntryAt(h, j)
            <4> HIDE DEF gone, old, size
            <4> QED BY <3>1
        <3> HIDE DEF E
        <3> QED BY <1>6, <2>1, <3>1, <3>2
    <2>4. CASE j > old
        <3> DEFINE i == old + 1 + gone + size - j
        <3>1. i \in 1..N /\ ~(i <= gone) /\ old + 1 + gone + size - i = j
            <4> HIDE DEF old, size
            <4> QED BY <1>0, <2>1, <2>4
        <3> HIDE DEF i
        <3>2. E(i) = EntryAt(h, j)
            <4> HIDE DEF gone, old, size
            <4> QED BY <3>1
        <3> HIDE DEF E
        <3> QED BY <1>6, <2>1, <3>1, <3>2
    <2>5. j \in Int /\ old \in Int
        <3> HIDE DEF old, size
        <3> QED BY <1>0
    <2>6. (j <= old /\ j <= na) \/ (j <= old /\ j > na) \/ j > old
        <3> HIDE DEF old, size
        <3> QED BY <2>5
    <2> QED BY <2>2, <2>3, <2>4, <2>6
<1> DEFINE Done(i) == {x \in K : x \in 1..na /\ x \in DOMAIN h.arr}
                        \cup {E(j).key : j \in {l \in 1..i : E(l).val # Nil}}
           J(i, q) ==
             /\ Sound(q) /\ Len(q.arr) = na /\ DOMAIN q.arr = 1..na /\ Nodes(q) = Nodes(base) /\ q.dummy = base.dummy
             /\ \A x \in K : Get(q, x) = IF x \in Done(i) THEN Get(h, x) ELSE Nil
             /\ \A m \in Nodes(q) : ~q.node[m].dead /\ (q.node[m].key = Nil \/ q.node[m].key \in Entering(h, na))
<1>7. /\ Sound(base) /\ Len(base.arr) = na /\ DOMAIN base.arr = 1..na
      /\ \A i \in 1..na : base.arr[i] = IF i \in DOMAIN h.arr THEN h.arr[i] ELSE Nil
      /\ SizeNode(base) >= nh /\ IsPower(SizeNode(base)) /\ (nh > 0 => ~base.dummy)
      /\ \A n \in Nodes(base) : base.node[n].key = Nil /\ ~base.node[n].dead
    <2> DEFINE g == SetArrayVector(h, na)
    <2>1. /\ g = Table(g.arr, g.node, g.dummy, g.lastfree) /\ g.arr \in Seq(V) /\ ArrayKeys(g)
          /\ Len(g.arr) = na /\ DOMAIN g.arr = 1..na
          /\ \A i \in 1..na : g.arr[i] = IF i \in DOMAIN h.arr THEN h.arr[i] ELSE Nil
        BY ArrayVector
    <2>2. base = SetNodeVector(g, nh)
        OBVIOUS
    <2> HIDE DEF g, base
    <2>3. /\ Sound(base) /\ base.arr = g.arr /\ SizeNode(base) >= nh /\ IsPower(SizeNode(base)) /\ (nh > 0 => ~base.dummy)
          /\ \A n \in Nodes(base) : base.node[n].key = Nil /\ ~base.node[n].dead
        BY <2>1, <2>2, EmptyTable
    <2> QED BY <2>1, <2>3
<1> HIDE DEF base, N, E
<1>8. J(0, base)
    <2>1. ASSUME NEW x \in K PROVE Get(base, x) = IF x \in Done(0) THEN Get(h, x) ELSE Nil
        <3>0. \A y \in 1..na : IsInt(y)
            BY DEF IsInt
        <3>1. Done(0) = {y \in K : y \in 1..na /\ y \in DOMAIN h.arr}
            OBVIOUS
        <3>2. CASE InArray(base, x)
            <4>1. x \in 1..na /\ Get(base, x) = base.arr[x]
                BY <1>7, <3>2, GetIs DEF InArray
            <4>2. x \in DOMAIN h.arr => Get(h, x) = h.arr[x]
                BY <3>0, <4>1, GetIs DEF InArray
            <4> QED BY <1>7, <3>1, <4>1, <4>2
        <3>3. CASE ~InArray(base, x)
            <4>1. \A n : ~Has(base, x, n)
                BY <1>7, KeyFacts DEF Has
            <4>2. Get(base, x) = Nil /\ ~(x \in 1..na)
                BY <1>7, <3>0, <3>3, <4>1, GetIs DEF InArray
            <4> QED BY <3>1, <4>2
        <3> QED BY <3>2, <3>3
    <2> HIDE DEF Done
    <2> QED BY <1>7, <2>1
<1>9. ASSUME NEW i \in 1..N, J(i - 1, into[i - 1]) PROVE J(i, into[i])
    <2> DEFINE p == into[i - 1]
               q == into[i]
               k == E(i).key
               v == E(i).val
    <2>0. /\ Sound(p) /\ Len(p.arr) = na /\ DOMAIN p.arr = 1..na /\ Nodes(p) = Nodes(base) /\ p.dummy = base.dummy
          /\ \A x \in K : Get(p, x) = IF x \in Done(i - 1) THEN Get(h, x) ELSE Nil
          /\ \A m \in Nodes(p) : ~p.node[m].dead /\ (p.node[m].key = Nil \/ p.node[m].key \in Entering(h, na))
        <3> HIDE DEF Done
        <3> QED BY <1>9
    <2>1. CASE v = Nil
        <3>1. q = p
            BY <1>4, <2>1
        <3>2. Done(i) = Done(i - 1)
            <4>1. {l \in 1..i : E(l).val # Nil} = {l \in 1..i - 1 : E(l).val # Nil}
                BY <1>0, <2>1
            <4> QED BY <4>1
        <3> HIDE DEF p, q, Done
        <3> QED BY <1>9, <3>1, <3>2 DEF p, q
    <2>2. CASE v # Nil
        <3>1. q = Put(p, k, v)
            BY <1>4, <2>2
        <3>2. k \in Keys /\ Get(h, k) = v /\ v \in V /\ k \in K
            BY <1>5, <2>2, KeyFacts
        <3>3. Done(i) = Done(i - 1) \cup {k}
            <4>1. {l \in 1..i : E(l).val # Nil} = {l \in 1..i - 1 : E(l).val # Nil} \cup {i}
                BY <1>0, <2>2
            <4> QED BY <4>1
        <3> HIDE DEF p, q, k, v, Done
        <3>3a. k # Nil
            BY <3>2, KeyFacts
        <3>4. InArray(p, k) \/ NodeOf(p, k) # None \/ HasPlace(p, k)
            <4> SUFFICES ASSUME ~InArray(p, k), NodeOf(p, k) = None PROVE HasPlace(p, k)
                OBVIOUS
            <4> DEFINE T == Entering(h, na) \ {k}
            <4>1. \A n : ~Has(p, k, n)
                BY <2>0, <3>2, NodeOfIs
            <4>2. k \in Entering(h, na)
                <5>1. \A y \in 1..na : IsInt(y)
                    BY DEF IsInt
                <5>2. ~(k \in 1..na)
                    BY <2>0, <5>1 DEF InArray
                <5> QED BY <2>2, <3>2, <5>2 DEF Entering
            <4>3. IsFiniteSet(T) /\ Cardinality(T) = Cardinality(Entering(h, na)) - 1
                BY <4>2, FS_RemoveElement
            <4>4. Cardinality(Entering(h, na)) \in Nat /\ Cardinality(T) \in Nat
                BY <4>3, FS_CardinalityType
            <4>5. \A m \in Nodes(p) : ~p.node[m].dead /\ (p.node[m].key = Nil \/ p.node[m].key \in T)
                BY <2>0, <4>1 DEF Has
            <4>6. nh > 0 /\ SizeNode(p) = SizeNode(base) /\ SizeNode(base) \in Nat
                <5>1. TableTyped(base)
                    BY <1>7 DEF Sound
                <5> QED BY <2>0, <4>3, <4>4, <5>1, SameMain, TableNodes
            <4>7. Cardinality(T) < SizeNode(p) /\ ~p.dummy
                BY <1>7, <2>0, <4>3, <4>4, <4>6
            <4> HIDE DEF T
            <4> QED BY <2>0, <4>3, <4>5, <4>7, RoomFor
        <3>5. Assigned(p, q, k, v)
            BY <2>0, <3>1, <3>2, <3>4, PutAssigns
        <3>6. /\ Sound(q) /\ DOMAIN q.arr = 1..na /\ Nodes(q) = Nodes(base) /\ q.dummy = base.dummy
            BY <2>0, <3>5 DEF Assigned
        <3>6a. Len(q.arr) = na
            <4>1. q.arr \in Seq(V)
                BY <3>6 DEF Sound, TableTyped
            <4> QED BY <3>6, <4>1
        <3>7. ASSUME NEW x \in K PROVE Get(q, x) = IF x \in Done(i) THEN Get(h, x) ELSE Nil
            <4>1. CASE x = k
                BY <3>2, <3>3, <3>5, <4>1 DEF Assigned
            <4>2. CASE x # k
                BY <2>0, <3>3, <3>5, <4>2 DEF Assigned
            <4> QED BY <4>1, <4>2
        <3>8. ASSUME NEW m \in Nodes(q)
              PROVE  ~q.node[m].dead /\ (q.node[m].key = Nil \/ q.node[m].key \in Entering(h, na))
            <4>1. CASE q.node[m].key = k /\ ~q.node[m].dead
                <5>1. ~InArray(q, k)
                    BY <3>3a, <3>6, <4>1 DEF Sound, Apart
                <5>2. \A y \in 1..na : IsInt(y)
                    BY DEF IsInt
                <5>3. ~(k \in 1..na)
                    BY <3>6, <5>1, <5>2 DEF InArray
                <5>4. k \in Entering(h, na)
                    BY <2>2, <3>2, <5>3 DEF Entering
                <5> QED BY <4>1, <5>4
            <4>2. CASE \E n \in Nodes(p) : q.node[m].key = p.node[n].key /\ q.node[m].dead = p.node[n].dead
                BY <2>0, <4>2
            <4> QED BY <3>5, <4>1, <4>2 DEF Assigned
        <3> QED BY <3>6, <3>6a, <3>7, <3>8 DEF q
    <2> QED BY <2>1, <2>2
<1>10. J(N, into[N])
    <2> HIDE DEF J
    <2> DEFINE S == {i \in 0..N : J(i, into[i])}
    <2>1. 0 \in S
        BY <1>0, <1>4, <1>8
    <2>2. ASSUME NEW i \in 1..N, i - 1 \in S PROVE i \in S
        BY <1>0, <1>9, <2>2
    <2>3. 0..N \subseteq S
        <3> HIDE DEF S
        <3> QED BY <1>0, <2>1, <2>2, Induction
    <2> QED BY <1>0, <2>3
<1>11. ASSUME NEW x \in K PROVE Get(into[N], x) = Get(h, x)
    <2>1. x \notin Done(N) => Get(h, x) = Nil
        BY <1>6
    <2> HIDE DEF Done
    <2> QED BY <1>10, <2>1
<1> HIDE DEF Done
<1>12. SizeNode(into[N]) = SizeNode(base)
    BY <1>10, SameMain
<1>13. Resized(h, into[N], na, nh)
    BY <1>7, <1>10, <1>11, <1>12 DEF Resized
<1> QED BY <1>1, <1>13

\* What is in the table.
InTable(h) == {x \in Keys : Get(h, x) # Nil}

LEMMA InTableFinite ==
    ASSUME NEW h, Sound(h)
    PROVE  IsFiniteSet(InTable(h))
<1> DEFINE size == Len(h.arr) + SizeNode(h)
           D == {j \in 1..size : EntryAt(h, j).val # Nil}
           f == [j \in D |-> EntryAt(h, j).key]
<1>1. size \in Nat
    BY TableNodes DEF Sound, TableTyped
<1>2. IsFiniteSet(D)
    <2>1. IsFiniteSet(1..size)
        BY <1>1, FS_Interval
    <2> QED BY <2>1, FS_Subset
<1>3. \A j \in D : f[j] \in InTable(h)
    BY EntryIs DEF InTable
<1>4. \A x \in InTable(h) : \E j \in D : f[j] = x
    <2> TAKE x \in InTable(h)
    <2>1. x \in K /\ Get(h, x) # Nil
        BY KeyFacts DEF InTable
    <2>2. PICK j \in 1..size : EntryAt(h, j).key = x /\ EntryAt(h, j).val = Get(h, x)
        BY <2>1, EntryOf
    <2> QED BY <2>1, <2>2
<1>5. f \in Surjection(D, InTable(h))
    <2>1. f \in [D -> InTable(h)]
        BY <1>3
    <2> HIDE DEF f, D
    <2> QED BY <1>4, <2>1 DEF Surjection
<1> HIDE DEF f, D
<1> QED BY <1>2, <1>5, FS_Surjection

\* No more keys than nodes are in them.
LEMMA InNodes ==
    ASSUME NEW h, Sound(h), NEW na \in Nat, na >= Len(h.arr)
    PROVE  /\ IsFiniteSet(Entering(h, na)) /\ Cardinality(Entering(h, na)) <= SizeNode(h)
           /\ h.dummy => Cardinality(Entering(h, na)) = 0
<1> DEFINE T == Entering(h, na)
           D == {n \in Nodes(h) : h.node[n].val # Nil /\ h.node[n].key \in T}
           f == [n \in D |-> h.node[n].key]
<1>0. TableTyped(h) /\ SizeNode(h) \in Nat /\ Nodes(h) = 0..SizeNode(h) - 1 /\ h.arr \in Seq(V)
    BY TableNodes DEF Sound, TableTyped
<1>1. IsFiniteSet(Nodes(h)) /\ Cardinality(Nodes(h)) = SizeNode(h)
    <2>1. IsFiniteSet(0..SizeNode(h) - 1)
        BY <1>0, FS_Interval
    <2> QED BY <1>0, <2>1 DEF SizeNode, Nodes
<1>2. IsFiniteSet(D) /\ Cardinality(D) <= SizeNode(h)
    BY <1>1, FS_Subset
<1>3. \A n \in D : f[n] \in T
    OBVIOUS
<1>4. \A x \in T : \E n \in D : f[n] = x
    <2> TAKE x \in T
    <2>1. x \in Keys /\ x \in K /\ Get(h, x) # Nil /\ ~(x \in 1..na)
        BY KeyFacts DEF Entering
    <2>2. ~InArray(h, x)
        BY <1>0, <2>1 DEF InArray
    <2>3. PICK n : Has(h, x, n)
        BY <2>1, <2>2, GetIs
    <2>4. Get(h, x) = h.node[n].val
        BY <2>1, <2>2, <2>3, GetIs
    <2>5. n \in D /\ f[n] = x
        BY <2>1, <2>3, <2>4 DEF Has
    <2> HIDE DEF f, D
    <2> QED BY <2>5
<1>5. f \in Surjection(D, T)
    <2>1. f \in [D -> T]
        BY <1>3
    <2> HIDE DEF f, D
    <2> QED BY <1>4, <2>1 DEF Surjection
<1>6. ASSUME h.dummy PROVE D = {}
    <2>1. h.node = [n \in {0} |-> EmptyNode]
        BY <1>6 DEF Sound, DummyNode
    <2>2. \A n \in Nodes(h) : h.node[n].val = Nil
        BY <2>1 DEF Nodes, EmptyNode
    <2> QED BY <2>2
<1> HIDE DEF f, D, T
<1>7. IsFiniteSet(T) /\ Cardinality(T) <= Cardinality(D)
    BY <1>2, <1>5, FS_Surjection
<1>8. Cardinality(T) \in Nat /\ Cardinality(D) \in Nat
    BY <1>2, <1>7, FS_CardinalityType
<1>9. h.dummy => Cardinality(D) = 0
    BY <1>6, FS_EmptySet
<1> QED BY <1>0, <1>2, <1>7, <1>8, <1>9 DEF T

\* Of the keys that an array part can have, those up to n; and the best size:
\* more than half in use, which no larger one is.
Low(ints, n) == {k \in ints : k <= n}
SizedBy(ints, n) ==
    /\ n = 0 \/ 2 * Cardinality(Low(ints, n)) > n
    /\ \A i \in Nat : twoto[i] > n => 2 * Cardinality(Low(ints, twoto[i])) <= twoto[i]

LEMMA LowFinite ==
    ASSUME NEW ints \in SUBSET (Nat \ {0}), IsFiniteSet(ints), NEW n \in Nat
    PROVE  /\ Cardinality(Low(ints, n)) \in Nat /\ Cardinality(Low(ints, n)) <= n
           /\ Cardinality(Low(ints, n)) <= Cardinality(ints)
<1>1. Low(ints, n) \subseteq ints /\ Low(ints, n) \subseteq 1..n
    <2>1. \A k \in ints : k \in Nat /\ k # 0
        OBVIOUS
    <2>2. \A k \in Low(ints, n) : k \in ints /\ k <= n
        BY DEF Low
    <2>3. ASSUME NEW k \in Low(ints, n) PROVE k \in 1..n
        <3>1. k \in Nat /\ k # 0 /\ k <= n
            BY <2>1, <2>2
        <3> QED BY <3>1
    <2> QED BY <2>2, <2>3
<1>2. IsFiniteSet(1..n) /\ Cardinality(1..n) = n
    BY FS_Interval
<1>3. IsFiniteSet(Low(ints, n)) /\ Cardinality(Low(ints, n)) <= Cardinality(ints)
    BY <1>1, FS_Subset
<1>4. Cardinality(Low(ints, n)) <= n
    BY <1>1, <1>2, FS_Subset
<1> QED BY <1>3, <1>4, FS_CardinalityType

LEMMA LastOf ==
    ASSUME NEW c \in Nat, NEW S \in SUBSET (0..c), S # {}
    PROVE  Max(S) \in S /\ \A x \in S : x <= Max(S)
<1> DEFINE R == {c - x : x \in S}
<1>1. R \in SUBSET Nat /\ R # {}
    <2>1. \A x \in S : x \in 0..c
        OBVIOUS
    <2>2. \A x \in S : c - x \in Nat
        BY <2>1
    <2> QED BY <2>2
<1>2. PICK m \in R : \A x \in R : m <= x
    <2> HIDE DEF R
    <2> QED BY <1>1, LeastExists
<1>3. PICK f \in S : m = c - f
    OBVIOUS
<1>4. \A x \in S : x <= f
    <2> TAKE x \in S
    <2>1. c - f <= c - x
        BY <1>2, <1>3
    <2> QED BY <2>1
<1> HIDE DEF R
<1>5. \E x \in S : \A y \in S : x >= y
    BY <1>3, <1>4
<1>6. Max(S) \in S /\ \A x \in S : Max(S) >= x
    BY <1>5 DEF Max
<1> QED BY <1>6

\* However they are counted, a slice has the keys between two powers of two.
LEMMA SliceIs ==
    ASSUME NEW used \in SUBSET (Nat \ {0}), NEW others \in SUBSET Int,
           NEW j \in 0..Cardinality(used \cup Indices(others)), j \in Nat
    PROVE  Counted(used, others)[j] =
               {k \in used \cup Indices(others) : k <= twoto[j] /\ (j > 0 => k > twoto[j - 1])}
<1>1. Counted(used, others)[j] = {k \in used : k <= twoto[j] /\ (j > 0 => k > twoto[j - 1])}
                                     \cup {k \in Indices(others) : CeilLog2(k) = j}
    BY DEF Counted
<1>2. \A k \in Indices(others) : k \in Nat \ {0}
    BY DEF Indices, IsInt
<1>3. \A k \in Indices(others) : CeilLog2(k) = j <=> k <= twoto[j] /\ (j > 0 => k > twoto[j - 1])
    BY <1>2, CeilLogIs
<1> QED BY <1>1, <1>3

LEMMA SlicesAre ==
    ASSUME NEW used \in SUBSET (Nat \ {0}), NEW others \in SUBSET Int,
           Cardinality(used \cup Indices(others)) \in Nat,
           NEW i \in 0..Cardinality(used \cup Indices(others))
    PROVE  UNION {Counted(used, others)[j] : j \in 0..i} = Low(used \cup Indices(others), twoto[i])
<1> DEFINE ints == used \cup Indices(others)
           nums == Counted(used, others)
           Slice(j) == {k \in ints : k <= twoto[j] /\ (j > 0 => k > twoto[j - 1])}
<1>0. \A k \in ints : k \in Nat \ {0}
    <2>1. \A k \in Indices(others) : k \in Int /\ k > 0
        BY DEF Indices
    <2> QED BY <2>1
<1>1. i \in Nat /\ \A j \in 0..i : j \in Nat /\ nums[j] = Slice(j)
    <2>1. i \in Nat /\ \A j \in 0..i : j \in Nat /\ j \in 0..Cardinality(ints)
        <3> DEFINE c == Cardinality(ints)
        <3>1. c \in Nat /\ i \in 0..c
            OBVIOUS
        <3> HIDE DEF c
        <3>2. i \in Nat /\ \A j \in 0..i : j \in Nat /\ j \in 0..c
            BY <3>1
        <3> QED BY <3>2 DEF c
    <2> QED BY <2>1, SliceIs
<1> HIDE DEF nums, ints
<1>2. ASSUME NEW j \in 0..i, NEW k \in nums[j] PROVE k \in Low(ints, twoto[i])
    <2>1. k \in ints /\ k <= twoto[j] /\ j \in Nat
        BY <1>1, <1>2
    <2>2. (j = i \/ j < i) /\ twoto[j] \in Nat /\ twoto[i] \in Nat
        BY <1>1, TwoTo
    <2>3. twoto[j] <= twoto[i]
        BY <1>1, <2>1, <2>2, TwoToGrows
    <2> QED BY <1>0, <2>1, <2>2, <2>3 DEF Low
<1>3. ASSUME NEW k \in Low(ints, twoto[i]) PROVE \E j \in 0..i : k \in nums[j]
    <2> DEFINE j == CeilLog2(k)
    <2>1. k \in ints /\ k <= twoto[i] /\ k \in Nat \ {0}
        BY <1>0 DEF Low
    <2>2. j \in Nat /\ k <= twoto[j] /\ (j > 0 => k > twoto[j - 1])
        BY <2>1, CeilLogIs
    <2> HIDE DEF j
    <2>3. j <= i
        <3> SUFFICES ASSUME i < j PROVE FALSE
            BY <1>1, <2>2
        <3>1. j - 1 \in Nat /\ (i = j - 1 \/ i < j - 1) /\ j > 0
            BY <1>1, <2>2
        <3>2. twoto[i] <= twoto[j - 1] /\ twoto[j - 1] \in Nat /\ twoto[i] \in Nat
            BY <1>1, <3>1, TwoTo, TwoToGrows
        <3> QED BY <2>1, <2>2, <3>1, <3>2
    <2>4. j \in 0..i
        BY <1>1, <2>2, <2>3
    <2>5. k \in nums[j]
        BY <1>1, <2>1, <2>2, <2>4
    <2> QED BY <2>4, <2>5
<1>4. UNION {nums[j] : j \in 0..i} = Low(ints, twoto[i])
    BY <1>2, <1>3 DEF Low
<1> QED BY <1>4 DEF nums, ints

\* The size of the new array part.
SizesFor(ints, s) ==
    s.optimal \in Nat /\ s.na = Cardinality(Low(ints, s.optimal)) /\ SizedBy(ints, s.optimal)

LEMMA SizesIs ==
    ASSUME NEW used \in SUBSET (Nat \ {0}), NEW others \in SUBSET Int,
           IsFiniteSet(used \cup Indices(others))
    PROVE  SizesFor(used \cup Indices(others),
                    ComputeSizes(Counted(used, others), Cardinality(used \cup Indices(others))))
<1> DEFINE ints == used \cup Indices(others)
           c == Cardinality(ints)
           nums == Counted(used, others)
           visited == {i \in 0..c : c > twoto[i] \div 2}
           filled == {i \in visited : nums[i] # {} /\ Cardinality(UNION {nums[j] : j \in 0..i}) > twoto[i] \div 2}
           L(i) == Cardinality(Low(ints, twoto[i]))
           m == Max(filled)
           s == ComputeSizes(nums, c)
<1>0. ints \in SUBSET (Nat \ {0}) /\ (\A k \in ints : k \in Nat /\ k > 0) /\ IsFiniteSet(ints) /\ c \in Nat
    <2>1. \A k \in Indices(others) : k \in Int /\ k > 0
        BY DEF Indices
    <2>2. \A k \in used : k \in Nat /\ k > 0
        OBVIOUS
    <2>3. \A k \in ints : k \in Nat \ {0} /\ k > 0
        BY <2>1, <2>2
    <2>4. c \in Nat
        BY FS_CardinalityType
    <2> HIDE DEF ints, c
    <2> QED BY <2>3, <2>4 DEF ints
<1>1. s = IF filled = {} THEN [optimal |-> 0, na |-> 0]
          ELSE [optimal |-> twoto[m], na |-> Cardinality(UNION {nums[j] : j \in 0..m})]
    BY Zenon DEF ComputeSizes
<1>2. \A i \in 0..c : UNION {nums[j] : j \in 0..i} = Low(ints, twoto[i])
    BY <1>0, SlicesAre
<1>3. \A i \in 0..c : i \in Nat /\ nums[i] = {k \in ints : k <= twoto[i] /\ (i > 0 => k > twoto[i - 1])}
    <2>1. \A i \in 0..c : i \in Nat
        BY <1>0
    <2> QED BY <2>1, SliceIs
<1> HIDE DEF nums, s, ints
<1>4. \A i \in Nat : twoto[i] \in Nat \ {0} /\ L(i) \in Nat /\ L(i) <= twoto[i] /\ L(i) <= c
    <2> TAKE i \in Nat
    <2>1. twoto[i] \in Nat \ {0}
        BY TwoTo
    <2> QED BY <1>0, <2>1, LowFinite
<1>5. \A i \in 0..c : i \in filled <=> c > twoto[i] \div 2 /\ nums[i] # {} /\ L(i) > twoto[i] \div 2
    BY <1>2
<1>6. filled \in SUBSET (0..c)
    OBVIOUS
<1> HIDE DEF filled, L
<1> HIDE DEF c
<1>7. ASSUME NEW i \in Nat, i \notin filled PROVE 2 * L(i) <= twoto[i]
    <2>0. twoto[i] \in Nat /\ L(i) \in Nat /\ L(i) <= c
        BY <1>4
    <2>1. CASE i \notin 0..c
        <3>1. i - 1 \in Nat /\ i \in Nat \ {0} /\ c <= i - 1
            BY <1>0, <2>1
        <3>2. twoto[i] = 2 * twoto[i - 1] /\ i - 1 < twoto[i - 1] /\ twoto[i - 1] \in Nat
            BY <3>1, TwoTo, TwoToGrows
        <3> QED BY <1>0, <2>0, <3>1, <3>2
    <2>2. CASE i \in 0..c /\ c <= twoto[i] \div 2
        BY <1>0, <2>0, <2>2
    <2>3. CASE i \in 0..c /\ L(i) <= twoto[i] \div 2
        BY <2>0, <2>3
    <2>4. CASE i \in 0..c /\ nums[i] = {} /\ i > 0
        <3>1. i - 1 \in Nat /\ i \in Nat \ {0}
            BY <2>4
        <3>2. twoto[i] = 2 * twoto[i - 1] /\ twoto[i - 1] \in Nat
            BY <3>1, TwoTo
        <3>3. Low(ints, twoto[i]) = Low(ints, twoto[i - 1])
            <4>1. \A k \in ints : k <= twoto[i] => k <= twoto[i - 1]
                <5> TAKE k \in ints
                <5>1. ~(k <= twoto[i] /\ k > twoto[i - 1])
                    BY <1>3, <2>4
                <5>2. k \in Nat
                    BY <1>0
                <5> QED BY <2>0, <3>2, <5>1, <5>2
            <4>2. \A k \in ints : k <= twoto[i - 1] => k <= twoto[i]
                <5> TAKE k \in ints
                <5>1. k \in Nat
                    BY <1>0
                <5> QED BY <2>0, <3>2, <5>1
            <4> QED BY <4>1, <4>2 DEF Low
        <3>4. L(i) = L(i - 1)
            BY <3>3 DEF L
        <3>5. L(i - 1) <= twoto[i - 1] /\ L(i - 1) \in Nat
            BY <1>4, <3>1
        <3> QED BY <3>2, <3>4, <3>5
    <2>5. CASE i \in 0..c /\ nums[i] = {} /\ i = 0
        <3>1. Low(ints, twoto[i]) = {}
            BY <1>3, <2>5 DEF Low
        <3>2. L(i) = 0
            BY <3>1, FS_EmptySet DEF L
        <3> QED BY <2>0, <3>2
    <2> QED BY <1>0, <1>5, <1>7, <2>0, <2>1, <2>2, <2>3, <2>4, <2>5
<1>8. CASE filled = {}
    <2>1. s.optimal = 0 /\ s.na = 0
        BY <1>1, <1>8
    <2>2. Low(ints, 0) = {}
        <3>1. \A k \in ints : ~(k <= 0)
            BY <1>0
        <3> QED BY <3>1 DEF Low
    <2>3. \A i \in Nat : 2 * Cardinality(Low(ints, twoto[i])) <= twoto[i]
        BY <1>7, <1>8 DEF L
    <2>4. SizesFor(ints, s)
        BY <2>1, <2>2, <2>3, FS_EmptySet DEF SizesFor, SizedBy
    <2> QED BY <2>4 DEF s, c, nums, ints
<1>9. CASE filled # {}
    <2>1. m \in filled /\ \A i \in filled : i <= m
        BY <1>0, <1>6, <1>9, LastOf
    <2> HIDE DEF m
    <2>2. m \in 0..c /\ m \in Nat
        BY <1>0, <1>6, <2>1
    <2>3. s.optimal = twoto[m] /\ s.na = L(m)
        BY <1>1, <1>2, <1>9, <2>2 DEF L
    <2>4. twoto[m] \in Nat /\ L(m) \in Nat /\ L(m) > twoto[m] \div 2
        BY <1>4, <1>5, <2>1, <2>2
    <2>5. 2 * L(m) > twoto[m]
        BY <2>4
    <2>6. ASSUME NEW i \in Nat, twoto[i] > twoto[m] PROVE 2 * L(i) <= twoto[i]
        <3>1. i \notin filled
            <4> SUFFICES ASSUME i \in filled PROVE FALSE
                OBVIOUS
            <4>1. i = m \/ i < m
                BY <2>1, <2>2
            <4>2. twoto[i] <= twoto[m]
                BY <2>2, <2>4, <4>1, TwoToGrows, TwoTo
            <4>3. twoto[i] \in Nat
                BY TwoTo
            <4> QED BY <2>4, <2>6, <4>2, <4>3
        <3> QED BY <1>7, <3>1
    <2>7. SizesFor(ints, s)
        BY <2>3, <2>4, <2>5, <2>6 DEF SizesFor, SizedBy, L
    <2> QED BY <2>7 DEF s, c, nums, ints
<1> QED BY <1>8, <1>9

\* Where there is no free place, the search for one changes nothing but that.
LEMMA TakeNone ==
    ASSUME NEW h, Sound(h), FreePos(h) = None
    PROVE  LET q == TakeFreePos(h)
           IN  Sound(q) /\ q.node = h.node /\ q.arr = h.arr /\ q.dummy = h.dummy /\ \A x \in K : Get(q, x) = Get(h, x)
<1> DEFINE q == TakeFreePos(h)
<1>0. TableTyped(h) /\ h.arr \in Seq(V) /\ UsedUp(h) /\ ArrayKeys(h)
    BY DEF Sound, TableTyped
<1>1. h = Table(h.arr, h.node, h.dummy, h.lastfree)
    BY <1>0, TypedShaped DEF Shaped
<1>2. q = [h EXCEPT !.lastfree = 0]
    BY DEF TakeFreePos
<1> HIDE DEF q
<1>3. q = Table(h.arr, h.node, h.dummy, 0)
    BY <1>1, <1>2 DEF Table
<1>4. q.arr = h.arr /\ q.node = h.node /\ q.dummy = h.dummy /\ q.lastfree = 0
    BY <1>3 DEF Table
<1>5. ~h.dummy => \A n \in Nodes(h) : h.node[n].key # Nil
    <2> SUFFICES ASSUME ~h.dummy, NEW n \in Nodes(h), h.node[n].key = Nil PROVE FALSE
        OBVIOUS
    <2>1. Nodes(h) = 0..SizeNode(h) - 1 /\ h.lastfree \in 0..SizeNode(h) /\ SizeNode(h) \in Nat
        BY <1>0, TableNodes DEF Sized
    <2>2. n < h.lastfree
        BY <1>0, <2>1 DEF UsedUp
    <2> QED BY <1>0, <2>2, FreeSome
<1>6. ArrayKeys(q) /\ \A x : InArray(q, x) <=> InArray(h, x)
    BY <1>0, <1>4 DEF ArrayKeys, InArray
<1>7. Sound(q)
    BY <1>0, <1>3, <1>4, <1>5, <1>6, OtherArray
<1>8. ASSUME NEW x \in K PROVE Get(q, x) = Get(h, x)
    <2>1. \A n : Has(q, x, n) <=> Has(h, x, n)
        BY <1>4 DEF Has, Nodes
    <2> QED BY <1>4, <1>6, <1>7, <2>1, SameGet
<1> QED BY <1>4, <1>7, <1>8 DEF q

\* What an array part can have of a table that k comes to.
Due(h, k) == Indices(InTable(h) \cup {k})

\* Rehashing keeps what there is and makes a place for k.
Rehashed(h, q, k) ==
    /\ Sound(q) /\ IsPower(SizeNode(q)) /\ DOMAIN q.arr = 1..Len(q.arr)
    /\ \A x \in K : Get(q, x) = Get(h, x)
    /\ InArray(q, k) \/ HasPlace(q, k)
    /\ SizedBy(Due(h, k), Len(q.arr))

LEMMA CountedKeys ==
    ASSUME NEW h, Sound(h)
    PROVE  {i \in DOMAIN h.arr : h.arr[i] # Nil}
               \cup {h.node[n].key : n \in {m \in DOMAIN h.node : h.node[m].val # Nil}} = InTable(h)
<1> DEFINE used == {i \in DOMAIN h.arr : h.arr[i] # Nil}
           hashed == {h.node[n].key : n \in {m \in DOMAIN h.node : h.node[m].val # Nil}}
<1>0. TableTyped(h) /\ h.arr \in Seq(V) /\ DOMAIN h.arr = 1..Len(h.arr) /\ DOMAIN h.node = Nodes(h)
    BY DEF Sound, TableTyped, Nodes
<1>1. ASSUME NEW i \in used PROVE i \in InTable(h)
    <2>1. i \in Keys
        BY <1>0 DEF Sound, ArrayKeys
    <2>2. i \in K /\ InArray(h, i)
        BY <1>0, <2>1, KeyFacts DEF InArray, IsInt
    <2>3. Get(h, i) = h.arr[i]
        BY <2>2, GetIs
    <2> QED BY <2>1, <2>3 DEF InTable
<1>2. ASSUME NEW n \in Nodes(h), h.node[n].val # Nil PROVE h.node[n].key \in InTable(h)
    <2>1. h.node[n].key # Nil /\ ~h.node[n].dead
        BY <1>2 DEF Sound, Linkage, Lone, DeadEmpty
    <2>2. h.node[n].key \in Keys
        BY <1>0, <2>1, NodeFields
    <2>3. h.node[n].key \in K /\ ~InArray(h, h.node[n].key) /\ Has(h, h.node[n].key, n)
        BY <2>1, <2>2, KeyFacts DEF Sound, Apart, Has
    <2>4. Get(h, h.node[n].key) = h.node[n].val
        BY <2>3, GetIs
    <2> QED BY <1>2, <2>2, <2>4 DEF InTable
<1>3. ASSUME NEW x \in InTable(h) PROVE x \in used \/ \E n \in Nodes(h) : h.node[n].val # Nil /\ h.node[n].key = x
    <2>1. x \in K /\ Get(h, x) # Nil
        BY KeyFacts DEF InTable
    <2>2. CASE InArray(h, x)
        <3>1. Get(h, x) = h.arr[x]
            BY <2>1, <2>2, GetIs
        <3> QED BY <2>1, <2>2, <3>1 DEF InArray
    <2>3. CASE ~InArray(h, x)
        <3>1. PICK n : Has(h, x, n)
            BY <2>1, <2>3, GetIs
        <3>2. Get(h, x) = h.node[n].val
            BY <2>1, <2>3, <3>1, GetIs
        <3> QED BY <2>1, <3>1, <3>2 DEF Has
    <2> QED BY <2>2, <2>3
<1> HIDE DEF used
<1>4. \A x \in hashed : x \in InTable(h)
    BY <1>0, <1>2
<1>5. \A x \in InTable(h) : x \in used \/ x \in hashed
    BY <1>0, <1>3
<1>6. used \cup hashed = InTable(h)
    <2> HIDE DEF hashed
    <2> QED BY <1>1, <1>4, <1>5
<1> QED BY <1>6 DEF used

LEMMA RehashIs ==
    ASSUME NEW h, Sound(h), NEW k \in Keys, Get(h, k) = Nil
    PROVE  Rehashed(h, Rehash(h, k), k)
<1> DEFINE F == InTable(h)
           all == F \cup {k}
           used == {i \in DOMAIN h.arr : h.arr[i] # Nil}
           others == {h.node[n].key : n \in {m \in DOMAIN h.node : h.node[m].val # Nil}} \cup {k}
           ints == Due(h, k)
           sizes == ComputeSizes(Counted(used, others), Cardinality(used \cup Indices(others)))
           na == sizes.optimal
           low == Low(ints, na)
           nh == Cardinality(all) - sizes.na
           q == Resize(h, na, nh)
           T == Entering(h, na)
<1>0. used \cup others = all
    BY CountedKeys
<1>1. Rehash(h, k) = q
    BY <1>0 DEF Rehash
<1>2. \A x \in all : x \in Keys /\ x \in K /\ x \in Int
    BY KeyFacts DEF InTable
<1>2a. used \in SUBSET (Nat \ {0}) /\ others \in SUBSET Int
    <2>1. used \subseteq Nat \ {0}
        BY DEF Sound, TableTyped
    <2> HIDE DEF used, others, all
    <2> QED BY <1>0, <1>2, <2>1
<1>2b. used \cup Indices(others) = ints
    <2>1. ints = Indices(all)
        BY DEF Due
    <2> HIDE DEF used, others, all, ints
    <2>2. \A i \in used : IsInt(i) /\ i > 0
        BY <1>2a DEF IsInt
    <2> QED BY <1>0, <2>1, <2>2 DEF Indices
<1> HIDE DEF used, others
<1>3. IsFiniteSet(all) /\ Cardinality(all) \in Nat
    <2>1. IsFiniteSet(F)
        BY InTableFinite
    <2>2. IsFiniteSet(all)
        BY <2>1, FS_AddElement
    <2> QED BY <2>2, FS_CardinalityType
<1> HIDE DEF all
<1>4a. ints \subseteq all /\ \A i \in all : i \in ints <=> i > 0
    BY <1>2 DEF Due, Indices, IsInt, all
<1>4. IsFiniteSet(ints)
    <2> HIDE DEF ints
    <2> QED BY <1>3, <1>4a, FS_Subset
<1> HIDE DEF ints
<1>5. SizesFor(ints, sizes)
    <2> HIDE DEF sizes
    <2>1. sizes = ComputeSizes(Counted(used, others), Cardinality(used \cup Indices(others)))
        BY DEF sizes
    <2> QED BY <1>2a, <1>2b, <1>4, <2>1, SizesIs
<1> HIDE DEF sizes
<1>5a. na \in Nat /\ SizedBy(ints, na) /\ nh = Cardinality(all) - Cardinality(low)
    BY <1>5 DEF SizesFor
<1> HIDE DEF na
<1>6. \A i \in all : i \in low <=> i \in 1..na
    BY <1>2, <1>4a, <1>5a DEF Low
<1>6a. low \subseteq all
    BY <1>4a DEF Low
<1> HIDE DEF low
<1>7. IsFiniteSet(all \ low) /\ Cardinality(all \ low) = nh /\ nh \in Nat
    <2>1. all \cap low = low
        BY <1>6a
    <2>2. IsFiniteSet(all \ low) /\ Cardinality(all \ low) = Cardinality(all) - Cardinality(all \cap low)
        BY <1>3, FS_Difference
    <2>3. Cardinality(all \ low) \in Nat
        BY <2>2, FS_CardinalityType
    <2> HIDE DEF nh
    <2> QED BY <1>5a, <2>1, <2>2, <2>3
<1>8. T \subseteq all \ low /\ k \notin T
    <2>1. \A x \in T : x \in all /\ x \notin 1..na
        BY DEF Entering, InTable, all
    <2>2. k \notin T
        BY DEF Entering
    <2> HIDE DEF T
    <2> QED BY <1>6, <2>1, <2>2
<1> HIDE DEF nh
<1>9. IsFiniteSet(T) /\ Cardinality(T) <= nh
    <2> HIDE DEF T
    <2> QED BY <1>7, <1>8, FS_Subset
<1>10. Resized(h, q, na, nh)
    BY <1>5a, <1>7, <1>9, ResizeIs
<1> HIDE DEF q
<1>11. Sound(q) /\ IsPower(SizeNode(q)) /\ DOMAIN q.arr = 1..na /\ Len(q.arr) = na /\ \A x \in K : Get(q, x) = Get(h, x)
    BY <1>10 DEF Resized
<1>12. InArray(q, k) \/ HasPlace(q, k)
    <2>0. k \in all
        BY DEF all
    <2>1. CASE k \in 1..na
        BY <1>11, <2>1 DEF InArray, IsInt
    <2>2. CASE k \notin 1..na
        <3>1. k \in all \ low
            BY <1>6, <2>0, <2>2
        <3>2. IsFiniteSet((all \ low) \ {k}) /\ Cardinality((all \ low) \ {k}) = nh - 1
            BY <1>7, <3>1, FS_RemoveElement
        <3>3. T \subseteq (all \ low) \ {k}
            BY <1>8
        <3>4. Cardinality(T) <= nh - 1
            <4> HIDE DEF T
            <4> QED BY <3>2, <3>3, FS_Subset
        <3>5. Cardinality(T) \in Nat
            BY <1>9, FS_CardinalityType
        <3>6. SizeNode(q) \in Nat /\ SizeNode(q) >= nh /\ (nh > 0 => ~q.dummy)
            BY <1>10, <1>11, TableNodes DEF Resized, Sound
        <3>7. Cardinality(T) < SizeNode(q) /\ ~q.dummy
            <4> HIDE DEF T
            <4> QED BY <1>7, <3>4, <3>5, <3>6
        <3>8. \A m \in Nodes(q) : ~q.node[m].dead /\ (q.node[m].key = Nil \/ q.node[m].key \in T)
            BY <1>10 DEF Resized
        <3> HIDE DEF T
        <3> QED BY <1>9, <1>11, <3>7, <3>8, RoomFor
    <2> QED BY <2>1, <2>2
<1>13. Rehashed(h, q, k)
    BY <1>5a, <1>11, <1>12 DEF Rehashed, ints
<1> QED BY <1>1, <1>13

LEMMA SameLength ==
    ASSUME NEW h, Sound(h), NEW q, Sound(q), DOMAIN q.arr = DOMAIN h.arr
    PROVE  Len(q.arr) = Len(h.arr) /\ DOMAIN h.arr = 1..Len(h.arr) /\ Len(h.arr) \in Nat
<1>1. q.arr \in Seq(V) /\ h.arr \in Seq(V)
    BY DEF Sound, TableTyped
<1>2. DOMAIN q.arr = 1..Len(q.arr) /\ DOMAIN h.arr = 1..Len(h.arr) /\ Len(q.arr) \in Nat /\ Len(h.arr) \in Nat
    BY <1>1
<1>3. \A a, b \in Nat : 1..a = 1..b => a = b
    <2> TAKE a, b \in Nat
    <2> HAVE 1..a = 1..b
    <2>1. a > 0 => a \in 1..b
        OBVIOUS
    <2>2. b > 0 => b \in 1..a
        OBVIOUS
    <2> QED BY <2>1, <2>2
<1> QED BY <1>2, <1>3

\* What SetKey does.
KeySet(h, q, k, v) ==
    /\ Sound(q) /\ IsPower(SizeNode(q))
    /\ Get(q, k) = v
    /\ \A x \in K : x # k => Get(q, x) = Get(h, x)
    /\ ~Fits(h, k) => SizedBy(Due(h, k), Len(q.arr))

LEMMA SetKeyIs ==
    ASSUME NEW h, Sound(h), IsPower(SizeNode(h)), NEW k \in Keys, NEW v \in V
    PROVE  KeySet(h, SetKey(h, k, v), k, v)
<1>0. k \in K
    BY KeyFacts
<1>1. CASE Fits(h, k)
    <2> DEFINE q == Put(h, k, v)
    <2>1. SetKey(h, k, v) = q
        BY <1>1 DEF SetKey
    <2>2. Assigned(h, q, k, v)
        BY <1>1, PutAssigns DEF Fits
    <2> HIDE DEF q
    <2>3. Sound(q) /\ Nodes(q) = Nodes(h)
        BY <2>2 DEF Assigned
    <2>4. SizeNode(q) = SizeNode(h)
        BY <2>3 DEF SizeNode, Nodes
    <2>5. KeySet(h, q, k, v)
        BY <1>1, <2>2, <2>3, <2>4 DEF KeySet, Assigned
    <2> QED BY <2>1, <2>5
<1>2. CASE ~Fits(h, k)
    <2> DEFINE g == TakeFreePos(h)
               p == Rehash(g, k)
               q == Put(p, k, v)
    <2>1. SetKey(h, k, v) = q
        BY <1>2 DEF SetKey
    <2>2. FreePos(h) = None
        BY <1>2 DEF Fits, HasPlace
    <2>3. Sound(g) /\ g.arr = h.arr /\ \A x \in K : Get(g, x) = Get(h, x)
        BY <2>2, TakeNone
    <2>4. Get(h, k) = Nil
        BY <1>0, <1>2, GetIs, NodeOfIs DEF Fits
    <2>5. Rehashed(g, p, k)
        <3> HIDE DEF g
        <3> QED BY <1>0, <2>3, <2>4, RehashIs
    <2> HIDE DEF g, p
    <2>6. Assigned(p, q, k, v)
        BY <2>5, PutAssigns DEF Rehashed
    <2> HIDE DEF q
    <2>7. Sound(p) /\ Sound(q) /\ Nodes(q) = Nodes(p) /\ DOMAIN q.arr = DOMAIN p.arr
        BY <2>5, <2>6 DEF Assigned, Rehashed
    <2>8. Len(q.arr) = Len(p.arr) /\ DOMAIN p.arr = 1..Len(p.arr) /\ Len(p.arr) \in Nat
        BY <2>7, SameLength
    <2>9. SizeNode(q) = SizeNode(p)
        BY <2>7 DEF SizeNode, Nodes
    <2>10. SizedBy(Due(h, k), Len(q.arr))
        <3>1. InTable(g) = InTable(h)
            BY <2>3, KeyFacts DEF InTable
        <3>2. Due(g, k) = Due(h, k)
            BY <3>1 DEF Due
        <3> QED BY <2>5, <2>8, <3>2 DEF Rehashed
    <2>11. ASSUME NEW x \in K, x # k PROVE Get(q, x) = Get(h, x)
        BY <2>3, <2>5, <2>6, <2>11 DEF Rehashed, Assigned
    <2>12. KeySet(h, q, k, v)
        BY <2>5, <2>6, <2>7, <2>9, <2>10, <2>11 DEF KeySet, Assigned, Rehashed
    <2> QED BY <2>1, <2>12
<1> QED BY <1>1, <1>2

-----------------------------------------------------------------------------
(* Where a traversal is.                                                   *)

\* A walk has one outcome.
LEMMA WalkOnce ==
    ASSUME NEW h, TableTyped(h), Ranked(h), NEW k, NEW e, NEW f, NEW g, Walk(h, k, e, f), Walk(h, k, e, g)
    PROVE  \A n \in Nodes(h) : f[n] = g[n]
<1> SUFFICES ASSUME NEW a \in Nodes(h), f[a] # g[a] PROVE FALSE
    OBVIOUS
<1>1. PICK rank : rank \in [Nodes(h) -> Nat] /\ \A n \in Nodes(h) : Linked(h, n) => rank[After1(h, n)] < rank[n]
    BY DEF Ranked, Ranks
<1> DEFINE S == {rank[n] : n \in {m \in Nodes(h) : f[m] # g[m]}}
<1>2. S \in SUBSET Nat /\ S # {}
    BY <1>1
<1>3. PICK least \in S : \A x \in S : least <= x
    <2> HIDE DEF S
    <2> QED BY <1>2, LeastExists
<1>4. PICK n \in Nodes(h) : f[n] # g[n] /\ rank[n] = least
    BY <1>3
<1>5. ~Hit(h, k, e, n) /\ Linked(h, n) /\ f[n] = f[After1(h, n)] /\ g[n] = g[After1(h, n)]
    BY <1>4 DEF Walk
<1>6. After1(h, n) \in Nodes(h)
    BY DEF TableTyped
<1>7. rank[After1(h, n)] \in S /\ rank[After1(h, n)] < rank[n]
    BY <1>1, <1>4, <1>5, <1>6
<1>8. rank[After1(h, n)] \in Nat /\ rank[n] \in Nat
    BY <1>1, <1>6
<1> HIDE DEF S
<1> QED BY <1>3, <1>4, <1>7, <1>8

\* The same keys at the same places.
Steady(h, q) ==
    /\ Nodes(q) = Nodes(h) /\ DOMAIN q.arr = DOMAIN h.arr
    /\ \A n \in Nodes(h) : q.node[n].key = h.node[n].key /\ q.node[n].next = h.node[n].next

LEMMA SteadyFind ==
    ASSUME NEW h, Sound(h), NEW q, Sound(q), Steady(h, q), NEW k \in K
    PROVE  FindNode(q, k) = FindNode(h, k)
<1>0. TableTyped(h) /\ TableTyped(q) /\ Ranked(h)
    BY DEF Sound, Linkage
<1>1. PICK f : Walk(h, k, TRUE, f) /\ InChain(h, k, TRUE) = f[MainPosition(h, k)]
    BY <1>0, ChainWalk
<1>2. PICK g : Walk(q, k, TRUE, g) /\ InChain(q, k, TRUE) = g[MainPosition(q, k)]
    BY <1>0, ChainWalk
<1>3. Walk(h, k, TRUE, g)
    BY <1>2 DEF Walk, Steady, Hit, Linked, After1
<1>4. MainPosition(q, k) = MainPosition(h, k)
    BY SameMain DEF Steady
<1>5. MainPosition(h, k) \in Nodes(h)
    BY <1>0, MainPositionType
<1>6. f[MainPosition(h, k)] = g[MainPosition(h, k)]
    <2> DEFINE e == TRUE
    <2>1. Walk(h, k, e, f) /\ Walk(h, k, e, g)
        BY <1>1, <1>3
    <2> HIDE DEF e
    <2>2. \A n \in Nodes(h) : f[n] = g[n]
        BY <1>0, <2>1, WalkOnce
    <2> QED BY <1>5, <2>2
<1> QED BY <1>1, <1>2, <1>4, <1>6 DEF FindNode

LEMMA SteadyIndex ==
    ASSUME NEW h, Sound(h), NEW q, Sound(q), Steady(h, q)
    PROVE  /\ SizeNode(q) = SizeNode(h) /\ Len(q.arr) = Len(h.arr)
           /\ \A k \in Keys \cup {Nil} : FindIndex(q, k) = FindIndex(h, k)
           /\ \A j \in 1..(Len(h.arr) + SizeNode(h)) : EntryAt(q, j).key = EntryAt(h, j).key
<1>1. SizeNode(q) = SizeNode(h)
    BY DEF Steady, SizeNode, Nodes
<1>2. Len(q.arr) = Len(h.arr) /\ Len(h.arr) \in Nat
    BY SameLength DEF Steady
<1>3. ASSUME NEW k \in Keys \cup {Nil} PROVE FindIndex(q, k) = FindIndex(h, k)
    <2>1. CASE k = Nil
        BY <2>1 DEF FindIndex
    <2>2. CASE k # Nil
        <3>1. k \in K
            BY <2>2, KeyFacts
        <3>2. FindNode(q, k) = FindNode(h, k)
            BY <3>1, SteadyFind
        <3>3. InArray(q, k) <=> InArray(h, k)
            BY DEF InArray, Steady
        <3> QED BY <1>2, <2>2, <3>2, <3>3 DEF FindIndex
    <2> QED BY <2>1, <2>2
<1>4. ASSUME NEW j \in 1..(Len(h.arr) + SizeNode(h)) PROVE EntryAt(q, j).key = EntryAt(h, j).key
    <2>1. CASE j <= Len(h.arr)
        BY <1>2, <2>1 DEF EntryAt
    <2>2. CASE ~(j <= Len(h.arr))
        <3>1. SizeNode(h) \in Nat /\ Nodes(h) = 0..SizeNode(h) - 1
            BY TableNodes DEF Sound
        <3>2. j - Len(h.arr) - 1 \in Nodes(h)
            BY <1>2, <2>2, <3>1
        <3> QED BY <1>2, <2>2, <3>2 DEF EntryAt, Steady
    <2> QED BY <2>1, <2>2
<1> QED BY <1>1, <1>2, <1>3, <1>4

LEMMA SetKeySteady ==
    ASSUME NEW h, Sound(h), NEW k \in Keys, NEW v \in V, Get(h, k) # Nil
    PROVE  Steady(h, SetKey(h, k, v))
<1>0. k \in K
    BY KeyFacts
<1>1. InArray(h, k) \/ NodeOf(h, k) # None
    BY <1>0, GetIs, NodeOfIs
<1>2. SetKey(h, k, v) = Put(h, k, v)
    BY <1>1 DEF SetKey, Fits
<1>3. CASE InArray(h, k)
    <2> DEFINE q == [h EXCEPT !.arr[k] = v]
    <2>1. Put(h, k, v) = q
        BY <1>3 DEF Put
    <2>2. Assigned(h, q, k, v)
        BY <1>3, PutInArray
    <2>3. Shaped(h)
        BY TypedShaped DEF Sound
    <2>4. q.node = h.node
        BY <2>3 DEF Shaped, Table
    <2> HIDE DEF q
    <2> QED BY <1>2, <2>1, <2>2, <2>4 DEF Assigned, Steady
<1>4. CASE ~InArray(h, k)
    <2> DEFINE a == NodeOf(h, k)
               q == [h EXCEPT !.node[a].val = v]
    <2>1. Put(h, k, v) = q
        BY <1>1, <1>4 DEF Put
    <2>2. Has(h, k, a)
        BY <1>0, <1>1, <1>4, NodeOfIs
    <2> HIDE DEF a
    <2>3. Assigned(h, q, k, v)
        BY <1>4, <2>2, PutInNode
    <2>4. Shaped(h) /\ a \in Nodes(h)
        BY <2>2, TypedShaped DEF Sound, Has
    <2>5. h.node[a] = Rec(h.node[a].key, h.node[a].val, h.node[a].next, h.node[a].dead)
        BY <2>4 DEF Shaped
    <2>6. [h.node[a] EXCEPT !.val = v] = Rec(h.node[a].key, v, h.node[a].next, h.node[a].dead)
        BY <2>5, RecVal
    <2>7. q = [h EXCEPT !.node[a] = [h.node[a] EXCEPT !.val = v]]
        OBVIOUS
    <2> HIDE DEF q
    <2>8. /\ q.node[a] = Rec(h.node[a].key, v, h.node[a].next, h.node[a].dead)
          /\ \A n \in Nodes(h) : n # a => q.node[n] = h.node[n]
        BY <2>4, <2>6, <2>7, NodePut
    <2>9. q.node[a].key = h.node[a].key /\ q.node[a].next = h.node[a].next
        BY <2>8 DEF Rec
    <2>10. \A n \in Nodes(h) : q.node[n].key = h.node[n].key /\ q.node[n].next = h.node[n].next
        BY <2>8, <2>9
    <2> QED BY <1>2, <2>1, <2>3, <2>10 DEF Assigned, Steady
<1> QED BY <1>3, <1>4

\* The index of a key is a place, and that of an entry is where it is.
LEMMA IndexIs ==
    ASSUME NEW h, Sound(h)
    PROVE  /\ Len(h.arr) \in Nat /\ SizeNode(h) \in Nat
           /\ \A k \in Keys \cup {Nil} : FindIndex(h, k) = None \/ FindIndex(h, k) \in 0..(Len(h.arr) + SizeNode(h))
           /\ \A j \in 1..(Len(h.arr) + SizeNode(h)) : EntryAt(h, j).val # Nil => FindIndex(h, EntryAt(h, j).key) = j
<1> DEFINE L == Len(h.arr)
           s == SizeNode(h)
<1>0. /\ TableTyped(h) /\ Ranked(h) /\ DOMAIN h.arr = 1..L /\ L \in Nat /\ s \in Nat /\ Nodes(h) = 0..s - 1
    <2>1. TableTyped(h) /\ Ranked(h) /\ h.arr \in Seq(V)
        BY DEF Sound, Linkage, TableTyped
    <2> QED BY <2>1, TableNodes
<1> HIDE DEF L, s
<1>1. ASSUME NEW k \in Keys \cup {Nil} PROVE FindIndex(h, k) = None \/ FindIndex(h, k) \in 0..(L + s)
    <2>1. CASE k = Nil
        BY <1>0, <2>1 DEF FindIndex
    <2>2. CASE k # Nil
        <3>1. k \in K
            BY <2>2, KeyFacts
        <3>2. FindNode(h, k) = None \/ FindNode(h, k) \in Nodes(h)
            BY <1>0, <3>1, FindAny DEF FindNode
        <3>3. CASE InArray(h, k)
            BY <1>0, <2>2, <3>3 DEF FindIndex, InArray
        <3>4. CASE ~InArray(h, k)
            <4>1. FindIndex(h, k) = IF FindNode(h, k) = None THEN None ELSE FindNode(h, k) + 1 + L
                BY <2>2, <3>4 DEF FindIndex, L
            <4> QED BY <1>0, <3>2, <4>1
        <3> QED BY <3>3, <3>4
    <2> QED BY <2>1, <2>2
<1>2. ASSUME NEW j \in 1..(L + s), EntryAt(h, j).val # Nil PROVE FindIndex(h, EntryAt(h, j).key) = j
    <2>1. CASE j <= L
        <3>1. EntryAt(h, j).key = j /\ j \in 1..L
            BY <1>0, <2>1 DEF EntryAt, L
        <3>2. InArray(h, j) /\ j # Nil
            BY <1>0, <3>1 DEF InArray, IsInt, Nil
        <3> QED BY <3>1, <3>2 DEF FindIndex
    <2>2. CASE j > L
        <3> DEFINE n == j - L - 1
                   k == h.node[n].key
        <3>1. n \in Nodes(h)
            BY <1>0, <2>2
        <3>2. EntryAt(h, j).key = k /\ EntryAt(h, j).val = h.node[n].val
            BY <1>0, <2>2 DEF EntryAt, L
        <3>2a. n + 1 + L = j
            BY <1>0
        <3> HIDE DEF n
        <3>3. k # Nil /\ ~h.node[n].dead
            BY <1>2, <3>1, <3>2 DEF Sound, Linkage, Lone, DeadEmpty
        <3>4. k \in Keys
            BY <1>0, <3>1, <3>3, NodeFields
        <3>5. k \in K /\ ~InArray(h, k)
            BY <3>1, <3>3, <3>4, KeyFacts DEF Sound, Apart
        <3>6. FindNode(h, k) = n
            BY <3>1, <3>3, <3>5, FindLive
        <3>7. n # None
            BY <1>0, <3>1 DEF None
        <3>8. FindIndex(h, k) = n + 1 + L
            BY <3>3, <3>5, <3>6, <3>7 DEF FindIndex, L
        <3> QED BY <3>2, <3>2a, <3>8
    <2> QED BY <1>0, <2>1, <2>2
<1> QED BY <1>0, <1>1, <1>2 DEF L, s

\* The first entry after a place.
LEMMA FirstAfter ==
    ASSUME NEW h, Sound(h), NEW i, After(h, i) # {}, NEW j, j = Min(After(h, i)), i \in Nat
    PROVE  /\ j \in After(h, i) /\ j \in 1..(Len(h.arr) + SizeNode(h)) /\ EntryAt(h, j).val # Nil
           /\ After(h, j) = After(h, i) \ {j}
<1> DEFINE size == Len(h.arr) + SizeNode(h)
           S == After(h, i)
<1>0. size \in Nat
    BY IndexIs
<1>1. S \in SUBSET Nat /\ S # {} /\ \A x \in S : x \in (i + 1)..size /\ EntryAt(h, x).val # Nil
    BY <1>0 DEF After
<1>2. PICK m \in S : \A x \in S : m <= x
    <2> HIDE DEF S
    <2> QED BY <1>1, LeastExists
<1>3. j \in S /\ \A x \in S : j <= x
    <2> HIDE DEF S
    <2> QED BY <1>2 DEF Min, S
<1>4. \A x \in (j + 1)..size : x \in (i + 1)..size /\ x # j /\ x > j
    BY <1>0, <1>1, <1>3
<1>5. \A x \in S \ {j} : x \in (j + 1)..size
    <2> HIDE DEF S
    <2> QED BY <1>0, <1>1, <1>3
<1>6. After(h, j) = S \ {j}
    <2>1. \A x \in After(h, j) : x \in S \ {j}
        BY <1>4 DEF After
    <2>2. \A x \in S \ {j} : x \in After(h, j)
        BY <1>1, <1>5 DEF After
    <2> HIDE DEF S
    <2> QED BY <2>1, <2>2
<1>7. j \in 1..size /\ EntryAt(h, j).val # Nil
    BY <1>0, <1>1, <1>3
<1> QED BY <1>3, <1>6, <1>7

-----------------------------------------------------------------------------
(* The inductive invariant.                                                *)

TInv ==
    /\ Sound(t) /\ IsPower(SizeNode(t))
    /\ at \in Keys \cup {Nil, Out} /\ news \in 0..Budget
    /\ at # Out => FindIndex(t, at) # None

LEMMA InitTInv ==
    ASSUME Init PROVE TInv
<1> DEFINE g == [arr |-> << >>, node |-> << >>, dummy |-> TRUE, lastfree |-> 0]
<1>1. t = SetNodeVector(g, 0) /\ at = Out /\ news = 0
    BY DEF Init
<1>2. g = Table(g.arr, g.node, g.dummy, g.lastfree) /\ g.arr = << >>
    BY DEF Table
<1>3. << >> \in Seq(V) /\ Len(<< >>) = 0
    OBVIOUS
<1> HIDE DEF g
<1>4. g.arr \in Seq(V) /\ ArrayKeys(g)
    BY <1>2, <1>3 DEF ArrayKeys
<1>5. Sound(t) /\ IsPower(SizeNode(t))
    <2>1. 0 \in Nat
        OBVIOUS
    <2> QED BY <1>1, <1>2, <1>4, <2>1, EmptyTable
<1> QED BY <1>1, <1>5, KeysAssumption DEF TInv

LEMMA KeyOfFloat ==
    ASSUME NEW key \in Keys \cup DOMAIN Floats
    PROVE  Normal(key) \in Keys
BY KeysAssumption DEF Normal, Keys

\* An empty table has nothing in it.
LEMMA NothingIn ==
    ASSUME NEW h, Sound(h), h.arr = << >>, h.dummy, NEW na
    PROVE  Entering(h, na) = {}
<1>1. h.node = [n \in {0} |-> EmptyNode]
    BY DEF Sound, DummyNode
<1>2. \A n \in Nodes(h) : h.node[n].key = Nil
    BY <1>1 DEF Nodes, EmptyNode
<1>3. ASSUME NEW x \in Keys PROVE Get(h, x) = Nil
    <2>1. x \in K /\ x # Nil
        BY KeyFacts
    <2>2. ~InArray(h, x)
        BY DEF InArray
    <2>3. \A n : ~Has(h, x, n)
        BY <1>2, <2>1 DEF Has
    <2> QED BY <2>1, <2>2, <2>3, GetIs
<1> QED BY <1>3 DEF Entering

LEMMA CreateIs ==
    ASSUME TInv, NEW na \in 0..MaxArray, NEW nh \in 0..MaxHash, Create(na, nh)
    PROVE  Resized(t, t', na, nh)
<1>1. na \in Nat /\ nh \in Nat
    BY KeysAssumption
<1>2. Entering(t, na) = {}
    BY NothingIn DEF Create, TInv
<1>3. IsFiniteSet({}) /\ Cardinality({}) = 0
    BY FS_EmptySet
<1>4. t' = Resize(t, na, nh)
    BY DEF Create
<1> QED BY <1>1, <1>2, <1>3, <1>4, ResizeIs DEF TInv

LEMMA GrowArrayIs ==
    ASSUME TInv, NEW n \in 1..MaxArray, GrowArray(n)
    PROVE  Resized(t, t', n, IF t.dummy THEN 0 ELSE SizeNode(t))
<1> DEFINE nh == IF t.dummy THEN 0 ELSE SizeNode(t)
<1>1. n \in Nat /\ n > Len(t.arr) /\ SizeNode(t) \in Nat /\ Len(t.arr) \in Nat
    BY KeysAssumption, IndexIs DEF GrowArray, TInv
<1>2. /\ IsFiniteSet(Entering(t, n)) /\ Cardinality(Entering(t, n)) <= SizeNode(t)
      /\ t.dummy => Cardinality(Entering(t, n)) = 0
    <2>1. n >= Len(t.arr)
        BY <1>1
    <2> QED BY <1>1, <2>1, InNodes DEF TInv
<1>3. nh \in Nat /\ Cardinality(Entering(t, n)) <= nh
    BY <1>1, <1>2
<1>4. t' = Resize(t, n, nh)
    BY DEF GrowArray
<1> HIDE DEF nh
<1>5. Resized(t, t', n, nh)
    BY <1>1, <1>2, <1>3, <1>4, ResizeIs DEF TInv
<1> QED BY <1>5 DEF nh

LEMMA AssignIs ==
    ASSUME TInv, NEW key \in Keys \cup DOMAIN Floats, NEW v \in Values \cup {Nil}, Assign(key, v)
    PROVE  KeySet(t, t', Normal(key), v) /\ (Get(t, Normal(key)) # Nil => Steady(t, t'))
<1> DEFINE k == Normal(key)
<1>1. k \in Keys /\ v \in V
    BY KeyOfFloat DEF V
<1>2. t' = SetKey(t, k, v)
    BY DEF Assign
<1> HIDE DEF k
<1>3. KeySet(t, t', k, v) /\ (Get(t, k) # Nil => Steady(t, t'))
    BY <1>1, <1>2, SetKeyIs, SetKeySteady DEF TInv
<1> QED BY <1>3 DEF k

LEMMA RecDead ==
    ASSUME NEW r, r = Rec(r.key, r.val, r.next, r.dead), NEW d
    PROVE  [r EXCEPT !.dead = d] = Rec(r.key, r.val, r.next, d)
BY DEF Rec

\* Where a key dies, every other thing stays.
LEMMA DiesIs ==
    ASSUME TInv, NEW n \in DOMAIN t.node, KeyDies(n)
    PROVE  Sound(t') /\ Steady(t, t') /\ \A x \in K : Get(t', x) = Get(t, x)
<1> DEFINE d == TRUE
           q == [t EXCEPT !.node[n].dead = d]
           r == Rec(t.node[n].key, t.node[n].val, t.node[n].next, d)
<1>0. Sound(t) /\ TableTyped(t) /\ Shaped(t) /\ n \in Nodes(t) /\ t' = q /\ t.node[n].val = Nil
      /\ t.node[n].key # Nil /\ Lone(t) /\ DeadEmpty(t)
    <2>1. Sound(t) /\ TableTyped(t)
        BY DEF TInv, Sound
    <2>2. t' = q /\ t.node[n].val = Nil /\ t.node[n].key # Nil
        BY KeysAssumption DEF KeyDies
    <2> QED BY <2>1, <2>2, TypedShaped DEF Sound, Linkage, Nodes
<1>0a. d = TRUE
    OBVIOUS
<1> HIDE DEF d
<1>1. [t.node[n] EXCEPT !.dead = d] = r
    BY <1>0, RecDead DEF Shaped
<1>2. q = [t EXCEPT !.node[n] = [t.node[n] EXCEPT !.dead = d]]
    OBVIOUS
<1>2a. r.key = t.node[n].key /\ r.val = Nil /\ r.next = t.node[n].next /\ r.dead
    BY <1>0, <1>0a DEF Rec
<1> HIDE DEF q
<1>3. /\ Rebuilt(t, q) /\ q.lastfree = t.lastfree /\ q.node[n] = r
      /\ \A m \in Nodes(t) : m # n => q.node[m] = t.node[m]
    <2>1. q = [t EXCEPT !.node[n] = r]
        BY <1>1, <1>2
    <2> QED BY <1>0, <2>1, NodePut
<1> HIDE DEF r
<1>4. \A m \in Nodes(t) : /\ q.node[m].key = t.node[m].key /\ q.node[m].next = t.node[m].next /\ q.node[m].val = t.node[m].val
                          /\ m # n => q.node[m].dead = t.node[m].dead
    BY <1>0, <1>2a, <1>3
<1>5. Sound(q)
    <2>1. \A m \in Nodes(t) : /\ q.node[m].val \in V /\ q.node[m].dead \in BOOLEAN
                              /\ t.node[m].dead => q.node[m].dead
                              /\ q.node[m].dead => q.node[m].val = Nil
                              /\ t.node[m].key = Nil => q.node[m] = t.node[m]
        <3> TAKE m \in Nodes(t)
        <3>1. t.node[m].val \in V /\ t.node[m].dead \in BOOLEAN
            BY <1>0, NodeFields
        <3>2. t.node[m].dead => t.node[m].val = Nil
            BY <1>0 DEF DeadEmpty
        <3>3. CASE m = n
            BY <1>0, <1>2a, <1>3, <3>1, <3>3
        <3>4. CASE m # n
            BY <1>3, <3>1, <3>2, <3>4
        <3> QED BY <3>3, <3>4
    <2> QED BY <1>0, <1>3, <1>4, <2>1, Relabel
<1>6. Nodes(q) = Nodes(t) /\ q.arr = t.arr
    BY <1>3 DEF Rebuilt
<1>7. ASSUME NEW x \in K PROVE Get(q, x) = Get(t, x)
    <2>1. InArray(q, x) <=> InArray(t, x)
        BY <1>6 DEF InArray
    <2>2. CASE InArray(t, x)
        BY <1>0, <1>5, <1>6, <2>1, <2>2, GetIs
    <2>3. CASE ~InArray(t, x) /\ \E m : Has(t, x, m) /\ m # n
        <3>1. PICK m : Has(t, x, m) /\ m # n
            BY <2>3
        <3>2. Has(q, x, m) /\ q.node[m].val = t.node[m].val
            BY <1>4, <1>6, <3>1 DEF Has
        <3>3. Get(t, x) = t.node[m].val
            BY <1>0, <2>3, <3>1, GetIs
        <3>4. Get(q, x) = q.node[m].val
            BY <1>5, <2>1, <2>3, <3>2, GetIs
        <3> QED BY <3>2, <3>3, <3>4
    <2>4. CASE ~InArray(t, x) /\ \A m : Has(t, x, m) => m = n
        <3>1. \A m : ~Has(q, x, m)
            BY <1>2a, <1>3, <1>4, <1>6, <2>4 DEF Has
        <3>2. Get(q, x) = Nil
            BY <1>5, <2>1, <2>4, <3>1, GetIs
        <3>3. Get(t, x) = Nil
            <4>1. CASE Has(t, x, n)
                BY <1>0, <2>4, <4>1, GetIs
            <4>2. CASE ~Has(t, x, n)
                BY <1>0, <2>4, <4>2, GetIs
            <4> QED BY <4>1, <4>2
        <3> QED BY <3>2, <3>3
    <2> QED BY <2>2, <2>3, <2>4
<1>8. Steady(t, q)
    BY <1>4, <1>6 DEF Steady
<1> QED BY <1>0, <1>5, <1>7, <1>8

LEMMA NoTraversalYet ==
    ASSUME TInv, t.arr = << >>, t.dummy
    PROVE  at \in {Nil, Out}
<1> SUFFICES ASSUME at \in Keys, at # Out PROVE FALSE
    BY DEF TInv
<1>0. at \in K /\ at # Nil /\ TableTyped(t) /\ Ranked(t)
    BY KeyFacts DEF TInv, Sound, Linkage
<1>1. t.node = [n \in {0} |-> EmptyNode]
    BY DEF TInv, Sound, DummyNode
<1>2. \A n \in Nodes(t) : t.node[n].key = Nil
    BY <1>1 DEF Nodes, EmptyNode
<1>3. FindNode(t, at) = None
    <2> DEFINE e == TRUE
    <2>1. FindNode(t, at) = InChain(t, at, e)
        BY DEF FindNode
    <2> HIDE DEF e
    <2> QED BY <1>0, <1>2, <2>1, FindAny DEF Hit
<1>4. ~InArray(t, at)
    BY DEF InArray
<1> QED BY <1>0, <1>3, <1>4 DEF TInv, FindIndex

LEMMA NextEntryIs ==
    ASSUME TInv, NextEntry
    PROVE  /\ FindIndex(t, at) \in Nat /\ at # Out
           /\ After(t, FindIndex(t, at)) = {} => at' = Out
           /\ After(t, FindIndex(t, at)) # {} =>
                /\ at' \in Keys /\ at' # Out
                /\ FindIndex(t, at') \in After(t, FindIndex(t, at))
                /\ After(t, FindIndex(t, at')) = After(t, FindIndex(t, at)) \ {FindIndex(t, at')}
                /\ EntryAt(t, FindIndex(t, at')).key = at'
<1> DEFINE i == FindIndex(t, at)
           j == Min(After(t, i))
<1>0. Sound(t) /\ at \in Keys \cup {Nil} /\ at # Out /\ i # None
      /\ at' = IF After(t, i) = {} THEN Out ELSE EntryAt(t, j).key
    BY DEF TInv, NextEntry
<1>1. i \in Nat
    BY <1>0, IndexIs
<1> HIDE DEF i
<1>2. ASSUME After(t, i) # {}
      PROVE  /\ at' \in Keys /\ at' # Out /\ FindIndex(t, at') = j /\ j \in After(t, i)
             /\ After(t, j) = After(t, i) \ {j} /\ EntryAt(t, j).key = at'
    <2>1. /\ j \in After(t, i) /\ j \in 1..(Len(t.arr) + SizeNode(t)) /\ EntryAt(t, j).val # Nil
          /\ After(t, j) = After(t, i) \ {j}
        BY <1>0, <1>1, <1>2, FirstAfter
    <2>2. EntryAt(t, j).key \in Keys /\ FindIndex(t, EntryAt(t, j).key) = j
        BY <1>0, <2>1, EntryIs, IndexIs
    <2>3. \A x \in Keys : x # Out
        BY KeysAssumption DEF Keys, Out
    <2> QED BY <1>0, <1>2, <2>1, <2>2, <2>3
<1> QED BY <1>0, <1>1, <1>2 DEF i

LEMMA NextTInv ==
    ASSUME TInv, [Next]_vars PROVE TInv'
<1> USE DEF TInv
<1>1. ASSUME NEW na \in 0..MaxArray, NEW nh \in 0..MaxHash, Create(na, nh) PROVE TInv'
    <2>1. Resized(t, t', na, nh)
        BY <1>1, CreateIs
    <2>2. at' = at /\ news' = news /\ at \in {Nil, Out}
        BY <1>1, NoTraversalYet DEF Create
    <2>3. at' # Out => FindIndex(t', at') = 0
        BY <2>2 DEF FindIndex
    <2> QED BY <2>1, <2>2, <2>3 DEF Resized, None
<1>2. ASSUME NEW key \in Keys \cup DOMAIN Floats, NEW v \in Values \cup {Nil}, Assign(key, v) PROVE TInv'
    <2>1. KeySet(t, t', Normal(key), v) /\ (Get(t, Normal(key)) # Nil => Steady(t, t'))
        BY <1>2, AssignIs
    <2>2. Sound(t') /\ IsPower(SizeNode(t'))
        BY <2>1 DEF KeySet
    <2>3. at' = at /\ news' \in 0..Budget
        BY <1>2, KeysAssumption DEF Assign
    <2>4. ASSUME at # Out PROVE FindIndex(t', at) = FindIndex(t, at)
        <3>1. Get(t, Normal(key)) # Nil
            BY <1>2, <2>4 DEF Assign
        <3>2. at \in Keys \cup {Nil}
            BY <2>4
        <3> QED BY <2>1, <2>2, <3>1, <3>2, SteadyIndex
    <2> QED BY <2>2, <2>3, <2>4
<1>3. ASSUME NEW n \in 1..MaxArray, GrowArray(n) PROVE TInv'
    <2>1. Resized(t, t', n, IF t.dummy THEN 0 ELSE SizeNode(t))
        BY <1>3, GrowArrayIs
    <2>2. at' = Out /\ news' = news
        BY <1>3 DEF GrowArray
    <2> QED BY <2>1, <2>2 DEF Resized
<1>4. ASSUME NEW n \in DOMAIN t.node, KeyDies(n) PROVE TInv'
    <2>1. Sound(t') /\ Steady(t, t')
        BY <1>4, DiesIs
    <2>2. at' = at /\ news' = news
        BY <1>4 DEF KeyDies
    <2>3. SizeNode(t') = SizeNode(t) /\ \A k \in Keys \cup {Nil} : FindIndex(t', k) = FindIndex(t, k)
        BY <2>1, SteadyIndex
    <2> QED BY <2>1, <2>2, <2>3
<1>5. CASE BeginTraversal
    <2>1. t' = t /\ news' = news /\ at' = Nil
        BY <1>5 DEF BeginTraversal
    <2>2. FindIndex(t, Nil) = 0
        BY DEF FindIndex
    <2> QED BY <2>1, <2>2 DEF None
<1>6. CASE NextEntry
    <2>1. t' = t /\ news' = news
        BY <1>6 DEF NextEntry
    <2>2. at' = Out \/ (at' \in Keys /\ FindIndex(t, at') \in Nat)
        <3>1. CASE After(t, FindIndex(t, at)) = {}
            BY <1>6, <3>1, NextEntryIs
        <3>2. CASE After(t, FindIndex(t, at)) # {}
            <4>1. at' \in Keys /\ FindIndex(t, at') \in After(t, FindIndex(t, at)) /\ FindIndex(t, at) \in Nat
                BY <1>6, <3>2, NextEntryIs
            <4>2. FindIndex(t, at') \in Nat
                BY <4>1, IndexIs DEF After
            <4> QED BY <4>1, <4>2
        <3> QED BY <3>1, <3>2
    <2> QED BY <2>1, <2>2 DEF None
<1>7. CASE UNCHANGED vars
    BY <1>7 DEF vars
<1> QED BY <1>1, <1>2, <1>3, <1>4, <1>5, <1>6, <1>7 DEF Next

\* However keys come and go, the layout of the table stays sound.
LEMMA AlwaysTInv == Spec => []TInv
<1>1. Init => TInv
    BY InitTInv
<1>2. TInv /\ [Next]_vars => TInv'
    BY NextTInv
<1> QED BY <1>1, <1>2, PTL DEF Spec

-----------------------------------------------------------------------------
(* The length.                                                             *)

Border(h, r) == r \in Nat /\ (r = 0 \/ Get(h, r) # Nil) /\ Get(h, r + 1) = Nil
Between(h, i, j) == i \in Nat /\ j \in Nat /\ i < j /\ (i = 0 \/ Get(h, i) # Nil) /\ Get(h, j) = Nil

\* Halving ends at a border.
LEMMA BisectIs ==
    ASSUME NEW h, NEW i0, NEW j0, Between(h, i0, j0)
    PROVE  Border(h, Bisect(h, i0, j0))
<1> DEFINE D == (0..j0) \X (0..j0)
           mid(p) == (p[1] + p[2]) \div 2
           Def(f) == f = [p \in (0..j0) \X (0..j0) |->
                            LET m == (p[1] + p[2]) \div 2
                            IN  IF p[2] - p[1] <= 1 THEN p[1]
                                ELSE IF Get(h, m) = Nil THEN f[<<p[1], m>>] ELSE f[<<m, p[2]>>]]
           between == CHOOSE f : Def(f)
           stop == [p \in D |-> p[2] - p[1] <= 1]
           val == [p \in D |-> p[1]]
           succ == [p \in D |-> IF Get(h, mid(p)) = Nil THEN <<p[1], mid(p)>> ELSE <<mid(p), p[2]>>]
<1>0. i0 \in 0..j0 /\ j0 \in 0..j0 /\ j0 \in Nat
    BY DEF Between
<1>1. Bisect(h, i0, j0) = between[<<i0, j0>>]
    BY DEF Bisect
<1>2. \A p \in D : p[1] \in 0..j0 /\ p[2] \in 0..j0 /\ mid(p) \in 0..j0
    <2>1. \A a, b \in 0..j0 : (a + b) \div 2 \in 0..j0
        BY <1>0
    <2> QED BY <2>1
<1> HIDE DEF mid
<1>3. \E f : Def(f)
    <2>1. stop \in [D -> BOOLEAN] /\ succ \in [D -> D]
        <3>1. \A p \in D : stop[p] \in BOOLEAN
            BY <1>2
        <3>2. \A p \in D : succ[p] \in D
            BY <1>2
        <3> QED BY <3>1, <3>2
    <2>2. PICK f : f = [p \in D |-> IF stop[p] THEN val[p] ELSE f[succ[p]]]
        <3> HIDE DEF stop, val, succ, D
        <3>1. \E f : TailSolves(D, stop, val, succ, f)
            BY <2>1, TailRecursion
        <3> QED BY <3>1 DEF TailSolves
    <2>3. \A p \in D : (IF stop[p] THEN val[p] ELSE f[succ[p]]) =
                          IF p[2] - p[1] <= 1 THEN p[1]
                          ELSE IF Get(h, (p[1] + p[2]) \div 2) = Nil THEN f[<<p[1], (p[1] + p[2]) \div 2>>]
                          ELSE f[<<(p[1] + p[2]) \div 2, p[2]>>]
        BY DEF mid
    <2> HIDE DEF stop, val, succ
    <2>4. Def(f)
        BY <2>2, <2>3
    <2> QED BY <2>4
<1>4. Def(between)
    BY <1>3
<1>5. \A a, b \in 0..j0 : between[<<a, b>>] =
          IF b - a <= 1 THEN a
          ELSE IF Get(h, (a + b) \div 2) = Nil THEN between[<<a, (a + b) \div 2>>] ELSE between[<<(a + b) \div 2, b>>]
    <2> HIDE DEF between
    <2> QED BY <1>4
<1> HIDE DEF between
<1> DEFINE Bad(a, b) == Between(h, a, b) /\ ~Border(h, between[<<a, b>>])
           S == {d \in Nat : \E a, b \in 0..j0 : Bad(a, b) /\ d = b - a}
<1>6. ASSUME NEW a \in 0..j0, NEW b \in 0..j0, Between(h, a, b) PROVE ~Bad(a, b)
    <2> SUFFICES ASSUME Bad(a, b) PROVE FALSE
        OBVIOUS
    <2>1. S \in SUBSET Nat /\ S # {}
        <3>1. b - a \in Nat
            BY <1>6 DEF Between
        <3> HIDE DEF Bad
        <3> QED BY <3>1
    <2>2. PICK d \in S : \A x \in S : d <= x
        <3> HIDE DEF S
        <3> QED BY <2>1, LeastExists
    <2>3. PICK i \in 0..j0, j \in 0..j0 : Bad(i, j) /\ d = j - i
        <3> HIDE DEF Bad
        <3> QED BY <2>2
    <2>4. Between(h, i, j)
        BY <2>3
    <2>5. i \in Nat /\ j \in Nat /\ i < j /\ (i = 0 \/ Get(h, i) # Nil) /\ Get(h, j) = Nil
        BY <2>4 DEF Between
    <2>6. ~(j - i <= 1)
        <3> SUFFICES ASSUME j - i <= 1 PROVE FALSE
            OBVIOUS
        <3>1. j = i + 1
            BY <2>5
        <3>2. between[<<i, j>>] = i
            BY <1>5, <2>5, <3>1
        <3>3. Border(h, i)
            BY <2>5, <3>1 DEF Border
        <3> QED BY <2>3, <3>2, <3>3
    <2> DEFINE m == (i + j) \div 2
    <2>7. m \in 0..j0 /\ i < m /\ m < j /\ m \in Nat
        <3>1. \A x, y \in Nat : ~(y - x <= 1) /\ x < y => (x + y) \div 2 \in Nat /\ x < (x + y) \div 2 /\ (x + y) \div 2 < y
            OBVIOUS
        <3>2. m \in Nat /\ i < m /\ m < j
            BY <2>5, <2>6, <3>1
        <3> HIDE DEF m
        <3> QED BY <1>0, <3>2
    <2>8. between[<<i, j>>] = IF Get(h, m) = Nil THEN between[<<i, m>>] ELSE between[<<m, j>>]
        BY <1>5, <2>6
    <2> HIDE DEF m
    <2>9. CASE Get(h, m) = Nil
        <3>1. Bad(i, m)
            BY <2>3, <2>5, <2>7, <2>8, <2>9 DEF Between
        <3>2. m - i \in S
            <4> HIDE DEF Bad
            <4> QED BY <2>5, <2>7, <3>1
        <3>3. m - i < d
            BY <2>3, <2>5, <2>7
        <3> HIDE DEF S
        <3> QED BY <2>2, <2>3, <2>5, <2>7, <3>2, <3>3
    <2>10. CASE Get(h, m) # Nil
        <3>1. Bad(m, j)
            BY <2>3, <2>5, <2>7, <2>8, <2>10 DEF Between
        <3>2. j - m \in S
            <4> HIDE DEF Bad
            <4> QED BY <2>5, <2>7, <3>1
        <3>3. j - m < d
            BY <2>3, <2>5, <2>7
        <3> HIDE DEF S
        <3> QED BY <2>2, <2>3, <2>5, <2>7, <3>2, <3>3
    <2> QED BY <2>9, <2>10
<1> QED BY <1>0, <1>1, <1>6

\* Of more integers beyond the array part than there are nodes, one is missing.
LEMMA OneMissing ==
    ASSUME NEW h, Sound(h), NEW p, DOMAIN p = 0..SizeNode(h),
           \A n \in 0..SizeNode(h) : p[n] \in Nat /\ p[n] > Len(h.arr),
           \A n, m \in 0..SizeNode(h) : p[n] = p[m] => n = m
    PROVE  \E n \in 0..SizeNode(h) : Get(h, p[n]) = Nil
<1> SUFFICES ASSUME \A n \in 0..SizeNode(h) : Get(h, p[n]) # Nil PROVE FALSE
    OBVIOUS
<1> DEFINE s == SizeNode(h)
           f == [n \in 0..s |-> NodeOf(h, p[n])]
<1>0. TableTyped(h) /\ s \in Nat /\ Nodes(h) = 0..s - 1 /\ h.arr \in Seq(V)
    BY TableNodes DEF Sound, TableTyped
<1>1. ASSUME NEW n \in 0..s PROVE f[n] \in Nodes(h) /\ h.node[f[n]].key = p[n]
    <2>1. p[n] \in K /\ Get(h, p[n]) # Nil
        BY DEF K
    <2>2. ~InArray(h, p[n])
        BY <1>0 DEF InArray
    <2>3. \E m : Has(h, p[n], m)
        BY <2>1, <2>2, GetIs
    <2>4. Has(h, p[n], NodeOf(h, p[n]))
        BY <2>1, <2>3, NodeOfIs
    <2> QED BY <2>4 DEF Has
<1>2. f \in [0..s -> Nodes(h)] /\ \A n, m \in 0..s : f[n] = f[m] => n = m
    <2>1. f \in [0..s -> Nodes(h)]
        BY <1>1
    <2> HIDE DEF f
    <2> QED BY <1>1, <2>1
<1> HIDE DEF f
<1>3. f \in Injection(0..s, Nodes(h))
    BY <1>2 DEF Injection, IsInjective
<1>4. IsFiniteSet(Nodes(h)) /\ Cardinality(Nodes(h)) = s
    <2>1. IsFiniteSet(0..s - 1)
        BY <1>0, FS_Interval
    <2> QED BY <1>0, <2>1 DEF SizeNode, Nodes
<1>5. Cardinality(0..s) <= Cardinality(Nodes(h))
    BY <1>3, <1>4, FS_Injection
<1>6. Cardinality(0..s) = s + 1
    <2> HIDE DEF s
    <2>1. s + 1 \in Nat /\ 0 <= s
        BY <1>0
    <2> QED BY <1>0, <2>1, FS_Interval
<1> HIDE DEF s
<1> QED BY <1>0, <1>4, <1>5, <1>6

\* One after the other, a missing key is found.
LEMMA LinearIs ==
    ASSUME NEW h, Sound(h)
    PROVE  Border(h, LinearSearch(h))
<1> DEFINE s == SizeNode(h)
           j == Len(h.arr)
           p == [n \in 0..s |-> j + 1 + n]
           S == {i \in 1..(j + s + 1) : Get(h, i) = Nil}
<1>0. s \in Nat /\ j \in Nat
    BY IndexIs
<1>1. \E n \in 0..s : Get(h, j + 1 + n) = Nil
    <2>1. DOMAIN p = 0..s /\ \A n \in 0..s : p[n] \in Nat /\ p[n] > j
        BY <1>0
    <2>2. \A n, m \in 0..s : p[n] = p[m] => n = m
        BY <1>0
    <2>3. \A n \in 0..s : p[n] = j + 1 + n
        OBVIOUS
    <2> HIDE DEF p
    <2>4. \E n \in 0..s : Get(h, p[n]) = Nil
        BY <2>1, <2>2, OneMissing
    <2> QED BY <2>3, <2>4
<1>2. S \in SUBSET Nat /\ S # {}
    <2>1. PICK n \in 0..s : Get(h, j + 1 + n) = Nil
        BY <1>1
    <2>2. j + 1 + n \in 1..(j + s + 1)
        BY <1>0
    <2> HIDE DEF j, s
    <2> QED BY <1>0, <2>1, <2>2
<1>3. LinearSearch(h) = Min(S) - 1
    BY DEF LinearSearch
<1>4. \A i \in S : i \in Nat /\ i > 0 /\ Get(h, i) = Nil
    BY <1>0
<1>5. \A i \in Nat : i > 0 /\ Get(h, i) = Nil /\ (\E x \in S : i <= x) => i \in S
    BY <1>0
<1> HIDE DEF S
<1>6. PICK m \in S : \A x \in S : m <= x
    BY <1>2, LeastExists
<1>7. Min(S) \in S /\ \A x \in S : Min(S) <= x
    BY <1>6 DEF Min
<1> DEFINE r == Min(S) - 1
<1>8. r \in Nat /\ r + 1 = Min(S) /\ r < Min(S) /\ Min(S) \in Nat
    BY <1>4, <1>7
<1>9. r = 0 \/ Get(h, r) # Nil
    <2> HIDE DEF r
    <2>1. r \in S => Min(S) <= r
        BY <1>7
    <2>2. r \notin S
        BY <1>8, <2>1
    <2>3. \E x \in S : r <= x
        BY <1>7, <1>8
    <2> QED BY <1>5, <1>8, <2>2, <2>3
<1>10. Border(h, r)
    <2> HIDE DEF r
    <2> QED BY <1>4, <1>7, <1>8, <1>9 DEF Border
<1> QED BY <1>3, <1>10

\* A search beyond the array part ends at a border.
LEMMA UnboundIs ==
    ASSUME NEW h, Sound(h), NEW j, j = Len(h.arr), j = 0 \/ Get(h, j) # Nil
    PROVE  Border(h, UnboundSearch(h, j))
<1> DEFINE s == SizeNode(h)
           Probe(n) == twoto[n] * (j + 1)
           Is(n) == Get(h, Probe(n)) = Nil /\ \A m \in 0..(n - 1) : Get(h, Probe(m)) # Nil
           first == CHOOSE n \in 0..s : Is(n)
           last == IF first = 0 THEN j ELSE Probe(first - 1)
           p == [n \in 0..s |-> Probe(n)]
<1>0. s \in Nat /\ j \in Nat
    BY IndexIs
<1>1. UnboundSearch(h, j) = IF first # 0 /\ last > MaxInt \div 2 THEN LinearSearch(h)
                            ELSE Bisect(h, last, Probe(first))
    BY DEF UnboundSearch
<1>2. \A n \in Nat : Probe(n) \in Nat /\ Probe(n) > j
    <2>1. \A a, b \in Nat : a > 0 => a * (b + 1) \in Nat /\ a * (b + 1) > b
        OBVIOUS
    <2>2. \A n \in Nat : twoto[n] \in Nat /\ twoto[n] > 0
        BY TwoTo
    <2> QED BY <1>0, <2>1, <2>2
<1>3. \A n, m \in Nat : n < m => Probe(n) < Probe(m)
    <2>1. \A a, b, c \in Nat : a < b => a * (c + 1) < b * (c + 1)
        OBVIOUS
    <2>2. \A n, m \in Nat : n < m => twoto[n] \in Nat /\ twoto[m] \in Nat /\ twoto[n] < twoto[m]
        BY TwoTo, TwoToGrows
    <2> QED BY <1>0, <2>1, <2>2
<1>4. twoto[0] * (j + 1) = j + 1
    BY <1>0, TwoTo
<1>4a. Probe(0) = j + 1
    BY <1>4
<1> HIDE DEF Probe
<1>5. \E n \in 0..s : Get(h, Probe(n)) = Nil
    <2>1. \A n \in 0..s : p[n] \in Nat /\ p[n] > j
        BY <1>2
    <2>2. \A n, m \in 0..s : p[n] = p[m] => n = m
        <3> SUFFICES ASSUME NEW n \in 0..s, NEW m \in 0..s, n < m PROVE p[n] # p[m]
            BY <1>0
        <3>1. Probe(n) < Probe(m) /\ Probe(n) \in Nat /\ Probe(m) \in Nat
            BY <1>0, <1>2, <1>3
        <3> QED BY <3>1
    <2>3. DOMAIN p = 0..s
        OBVIOUS
    <2>4. \E n \in 0..s : Get(h, p[n]) = Nil
        <3> HIDE DEF p
        <3> QED BY <2>1, <2>2, <2>3, OneMissing
    <2> QED BY <2>4
<1>6. \E n \in 0..s : Is(n)
    <2> DEFINE S == {n \in 0..s : Get(h, Probe(n)) = Nil}
    <2>1. S \in SUBSET Nat /\ S # {}
        BY <1>0, <1>5
    <2>2. PICK n \in S : \A x \in S : n <= x
        <3> HIDE DEF S
        <3> QED BY <2>1, LeastExists
    <2>3. n \in 0..s /\ Get(h, Probe(n)) = Nil
        BY <2>2
    <2>4. \A m \in 0..(n - 1) : m \in 0..s /\ m < n
        BY <1>0, <2>3
    <2>5. \A m \in 0..(n - 1) : Get(h, Probe(m)) # Nil
        <3> TAKE m \in 0..(n - 1)
        <3>1. m \in S => n <= m
            BY <2>2
        <3>2. m \in 0..s /\ m \in Nat /\ n \in Nat /\ m < n
            BY <2>3, <2>4
        <3>3. m \notin S
            <4> HIDE DEF S
            <4> QED BY <3>1, <3>2
        <3> QED BY <3>2, <3>3
    <2> QED BY <2>3, <2>5
<1> HIDE DEF s
<1>7. first \in 0..s /\ Is(first)
    <2> HIDE DEF Is
    <2> QED BY <1>6
<1> HIDE DEF first
<1>8. CASE first = 0
    <2>1. Between(h, j, j + 1)
        BY <1>0, <1>4a, <1>7, <1>8 DEF Between
    <2> QED BY <1>1, <1>4a, <1>8, <2>1, BisectIs
<1>9. CASE first # 0
    <2>1. first \in Nat /\ first - 1 \in Nat /\ first - 1 < first /\ first - 1 \in 0..(first - 1)
        BY <1>0, <1>7, <1>9
    <2>2. Get(h, Probe(first - 1)) # Nil /\ Get(h, Probe(first)) = Nil
        BY <1>7, <2>1
    <2>3. Between(h, Probe(first - 1), Probe(first))
        <3>1. Probe(first - 1) \in Nat /\ Probe(first) \in Nat /\ Probe(first - 1) < Probe(first)
            BY <1>2, <1>3, <2>1
        <3> QED BY <2>2, <3>1 DEF Between
    <2>4. Border(h, LinearSearch(h)) /\ Border(h, Bisect(h, Probe(first - 1), Probe(first)))
        BY <2>3, BisectIs, LinearIs
    <2> QED BY <1>1, <1>9, <2>4
<1> QED BY <1>8, <1>9

LEMMA LengthIsBorder ==
    ASSUME NEW h, Sound(h)
    PROVE  Border(h, GetN(h))
<1> DEFINE j == Len(h.arr)
<1>0. TableTyped(h) /\ h.arr \in Seq(V) /\ j \in Nat /\ DOMAIN h.arr = 1..j
    BY DEF Sound, TableTyped
<1>1. j > 0 => Get(h, j) = h.arr[j]
    <2> SUFFICES ASSUME j > 0 PROVE Get(h, j) = h.arr[j]
        OBVIOUS
    <2>1. j \in K /\ InArray(h, j)
        BY <1>0 DEF K, InArray, IsInt
    <2> QED BY <2>1, GetIs
<1> HIDE DEF j
<1>2. CASE j > 0 /\ h.arr[j] = Nil
    <2>1. GetN(h) = Bisect(h, 0, j)
        BY <1>2 DEF GetN, j
    <2>2. Between(h, 0, j)
        BY <1>0, <1>1, <1>2 DEF Between
    <2> QED BY <2>1, <2>2, BisectIs
<1>3. CASE ~(j > 0 /\ h.arr[j] = Nil) /\ h.dummy
    <2>1. GetN(h) = j
        BY <1>3 DEF GetN, j
    <2>2. j = 0 \/ Get(h, j) # Nil
        BY <1>0, <1>1, <1>3
    <2>3. h.node = [n \in {0} |-> EmptyNode]
        BY <1>3 DEF Sound, DummyNode
    <2>4. \A n \in Nodes(h) : h.node[n].key = Nil
        BY <2>3 DEF Nodes, EmptyNode
    <2>5. j + 1 \in K /\ j + 1 # Nil /\ ~InArray(h, j + 1)
        BY <1>0 DEF K, InArray, Nil
    <2>6. \A n : ~Has(h, j + 1, n)
        BY <2>4, <2>5 DEF Has
    <2>7. Get(h, j + 1) = Nil
        BY <2>5, <2>6, GetIs
    <2> QED BY <1>0, <2>1, <2>2, <2>7 DEF Border
<1>4. CASE ~(j > 0 /\ h.arr[j] = Nil) /\ ~h.dummy
    <2>1. GetN(h) = UnboundSearch(h, j)
        BY <1>4 DEF GetN, j
    <2>2. j = 0 \/ Get(h, j) # Nil
        BY <1>0, <1>1, <1>4
    <2> QED BY <2>1, <2>2, UnboundIs DEF j
<1> QED BY <1>2, <1>3, <1>4

-----------------------------------------------------------------------------
(* The theorems about tables.                                              *)

\* Whatever the program assigns, clears and traverses and whichever keys die:
\* the sizes are powers of two, no chain leaves the hash part, every entry is
\* where looking up finds it, and the length is a border.
THEOREM TablesAreSound == Spec => []TableSound
<1>1. TInv => TypeOK
    <2> SUFFICES ASSUME TInv PROVE TypeOK
        OBVIOUS
    <2>1. TableTyped(t) /\ DummyNode(t) /\ IsPower(SizeNode(t))
        BY DEF TInv, Sound
    <2>2. /\ SizeNode(t) \in Nat \ {0} /\ DOMAIN t.node = 0..SizeNode(t) - 1 /\ t.lastfree \in 0..SizeNode(t)
          /\ \A n \in DOMAIN t.node : n + t.node[n].next \in DOMAIN t.node
        BY <2>1, TableNodes DEF Nodes, Sized, After1
    <2>3. CeilPow2(SizeNode(t)) = SizeNode(t)
        BY <2>1, <2>2, CeilPow
    <2>4. t.dummy => t.node = [n \in {0} |-> EmptyNode]
        BY <2>1 DEF DummyNode
    <2> QED BY <2>2, <2>3, <2>4 DEF TypeOK, TInv
<1>2. TInv => NoStrayEntry
    <2> SUFFICES ASSUME TInv, NEW n \in DOMAIN t.node, t.node[n].val # Nil
                 PROVE  ~t.node[n].dead /\ ~InArray(t, t.node[n].key) /\ NodeOf(t, t.node[n].key) = n
        BY DEF NoStrayEntry
    <2>1. Sound(t) /\ TableTyped(t) /\ n \in Nodes(t)
        BY DEF TInv, Sound, Nodes
    <2>2. ~t.node[n].dead /\ t.node[n].key # Nil
        BY <2>1 DEF Sound, Linkage, Lone, DeadEmpty
    <2>3. t.node[n].key \in K
        BY <2>1, <2>2, NodeFields, KeyFacts
    <2>4. ~InArray(t, t.node[n].key)
        BY <2>1, <2>2 DEF Sound, Apart
    <2> QED BY <2>1, <2>2, <2>3, <2>4, FindLive
<1>3. TInv => IsBorder
    BY LengthIsBorder DEF TInv, Border, IsBorder
<1> QED BY <1>1, <1>2, <1>3, AlwaysTInv, PTL DEF TableSound

LEMMA FitsWhatIsThere ==
    ASSUME NEW h, Sound(h), NEW k \in Keys, Get(h, k) # Nil
    PROVE  Fits(h, k)
BY KeyFacts, GetIs, NodeOfIs DEF Fits

LEMMA SizedWell ==
    ASSUME NEW h, NEW q, NEW k \in Keys, SizedBy(Due(h, k), Len(q.arr)), Len(q.arr) \in Nat,
           SizeNode(q) \in Nat, Get(q, k) # Nil, \A x \in K : x # k => Get(q, x) = Get(h, x)
    PROVE  WellSized(q)
<1> DEFINE ints == Due(h, k)
           There(n) == {x \in IntKeys : 0 < x /\ x <= n /\ Get(q, x) # Nil}
<1>1. \A x \in Keys : x \in K /\ x \in Int /\ (x >= 0 => x \in IntKeys) /\ (x # k => Get(q, x) = Get(h, x))
    BY KeyFacts, KeysAssumption DEF Keys
<1>2. \A x \in IntKeys : x \in Keys /\ x \in Nat
    BY KeysAssumption DEF Keys
<1>3. \A x : x \in ints <=> x \in IntKeys /\ 0 < x /\ Get(q, x) # Nil
    BY <1>1, <1>2 DEF Due, Indices, InTable, IsInt
<1>4. ASSUME NEW n \in Nat PROVE There(n) = Low(ints, n)
    <2> HIDE DEF ints
    <2> QED BY <1>3 DEF Low
<1> HIDE DEF ints
<1>5. \A n \in Nat : MoreThanHalf(q, n) <=> 2 * Cardinality(Low(ints, n)) > n
    BY <1>4 DEF MoreThanHalf
<1>6. SizedBy(ints, Len(q.arr))
    BY DEF ints
<1>7. \A n \in Nat : Cardinality(Low(ints, n)) \in Nat
    <2> TAKE n \in Nat
    <2>1. IsFiniteSet(1..n)
        BY FS_Interval
    <2>2. Low(ints, n) \subseteq 1..n
        BY <1>2, <1>3 DEF Low
    <2> QED BY <2>1, <2>2, FS_Subset, FS_CardinalityType
<1>8. Len(q.arr) # 0 => MoreThanHalf(q, Len(q.arr))
    BY <1>5, <1>6 DEF SizedBy
<1>9. ASSUME NEW i \in 0..(Len(q.arr) + SizeNode(q)), twoto[i] > Len(q.arr) PROVE ~MoreThanHalf(q, twoto[i])
    <2>1. i \in Nat /\ twoto[i] \in Nat
        BY TwoTo
    <2>2. 2 * Cardinality(Low(ints, twoto[i])) <= twoto[i]
        BY <1>6, <1>9, <2>1 DEF SizedBy
    <2>3. Cardinality(Low(ints, twoto[i])) \in Nat
        BY <1>7, <2>1
    <2> QED BY <1>5, <2>1, <2>2, <2>3
<1> QED BY <1>8, <1>9 DEF WellSized

\* A table that rehashes for a key gets the largest array part, of the sizes
\* that are powers of two, with more than half of its slots in use.
THEOREM ArraysAreUsed == Spec => ArrayOptimal
<1> DEFINE Best == \A k \in Keys : ~Fits(t, k) /\ Get(t', k) # Nil => WellSized(t')
<1>1. TInv /\ [Next]_vars => [Best]_vars
    <2> SUFFICES ASSUME TInv, Next, NEW k \in Keys, ~Fits(t, k), Get(t', k) # Nil
                 PROVE  WellSized(t')
        BY DEF vars
    <2>0. TInv'
        BY NextTInv
    <2>1. Get(t, k) = Nil /\ k \in K
        BY FitsWhatIsThere, KeyFacts DEF TInv
    <2>2. ASSUME NEW na \in 0..MaxArray, NEW nh \in 0..MaxHash, Create(na, nh) PROVE FALSE
        <3>1. Resized(t, t', na, nh)
            BY <2>2, CreateIs
        <3> QED BY <2>1, <3>1 DEF Resized
    <2>3. ASSUME NEW n \in 1..MaxArray, GrowArray(n) PROVE FALSE
        <3>1. Resized(t, t', n, IF t.dummy THEN 0 ELSE SizeNode(t))
            BY <2>3, GrowArrayIs
        <3> QED BY <2>1, <3>1 DEF Resized
    <2>4. ASSUME NEW n \in DOMAIN t.node, KeyDies(n) PROVE FALSE
        BY <2>1, <2>4, DiesIs
    <2>5. ASSUME BeginTraversal \/ NextEntry PROVE FALSE
        <3>1. t' = t
            BY <2>5 DEF BeginTraversal, NextEntry
        <3> QED BY <2>1, <3>1
    <2>6. PICK key \in Keys \cup DOMAIN Floats, v \in Values \cup {Nil} : Assign(key, v)
        BY <2>2, <2>3, <2>4, <2>5 DEF Next
    <2> DEFINE x == Normal(key)
    <2>7. KeySet(t, t', x, v)
        BY <2>6, AssignIs
    <2> HIDE DEF x
    <2>8. x = k
        BY <2>1, <2>7 DEF KeySet
    <2>9. SizedBy(Due(t, k), Len(t'.arr)) /\ \A y \in K : y # k => Get(t', y) = Get(t, y)
        BY <2>7, <2>8 DEF KeySet
    <2>10. Len(t'.arr) \in Nat /\ SizeNode(t') \in Nat
        BY <2>0, IndexIs DEF TInv
    <2> QED BY <2>9, <2>10, SizedWell
<1> QED BY <1>1, AlwaysTInv, PTL DEF Spec, ArrayOptimal

\* The keys a traversal has still to come to, by where looking up finds them.
Ahead(h, i) == {x \in Keys : Get(h, x) # Nil /\ FindIndex(h, x) > i}

LEMMA AheadIs ==
    ASSUME NEW h, Sound(h), NEW i \in Nat
    PROVE  {EntryAt(h, j).key : j \in After(h, i)} = Ahead(h, i)
<1> DEFINE size == Len(h.arr) + SizeNode(h)
<1>0. size \in Nat
    BY IndexIs
<1>1. ASSUME NEW j \in After(h, i) PROVE EntryAt(h, j).key \in Ahead(h, i)
    <2>1. j \in 1..size /\ j > i /\ EntryAt(h, j).val # Nil
        BY <1>0 DEF After
    <2>2. EntryAt(h, j).key \in Keys /\ Get(h, EntryAt(h, j).key) # Nil
        BY <2>1, EntryIs
    <2>3. FindIndex(h, EntryAt(h, j).key) = j
        BY <2>1, IndexIs
    <2> QED BY <2>1, <2>2, <2>3 DEF Ahead
<1>2. ASSUME NEW x \in Ahead(h, i) PROVE \E j \in After(h, i) : EntryAt(h, j).key = x
    <2>1. x \in K /\ Get(h, x) # Nil /\ FindIndex(h, x) > i
        BY KeyFacts DEF Ahead
    <2>2. PICK j \in 1..size : EntryAt(h, j).key = x /\ EntryAt(h, j).val = Get(h, x)
        BY <2>1, EntryOf
    <2>3. FindIndex(h, x) = j
        BY <2>1, <2>2, IndexIs
    <2>4. j \in (i + 1)..size
        BY <1>0, <2>1, <2>3
    <2> QED BY <2>1, <2>2, <2>4 DEF After
<1> QED BY <1>1, <1>2

LEMMA AllAhead ==
    ASSUME NEW h, Sound(h)
    PROVE  Ahead(h, 0) = InTable(h)
<1>1. ASSUME NEW x \in InTable(h) PROVE FindIndex(h, x) > 0
    <2>1. x \in K /\ Get(h, x) # Nil
        BY KeyFacts DEF InTable
    <2>2. PICK j \in 1..(Len(h.arr) + SizeNode(h)) : EntryAt(h, j).key = x /\ EntryAt(h, j).val = Get(h, x)
        BY <2>1, EntryOf
    <2>3. FindIndex(h, x) = j
        BY <2>1, <2>2, IndexIs
    <2> QED BY <2>3
<1> QED BY <1>1 DEF Ahead, InTable

LEMMA PendingIs ==
    ASSUME TInv
    PROVE  /\ Pending = IF at = Out THEN {} ELSE Ahead(t, FindIndex(t, at))
           /\ at # Out => FindIndex(t, at) \in Nat
           /\ at = Nil => FindIndex(t, at) = 0
<1>1. CASE at = Out
    BY <1>1 DEF Pending, Nil, Out
<1>2. CASE at # Out
    <2>1. FindIndex(t, at) # None /\ FindIndex(t, at) \in Nat
        BY <1>2, IndexIs DEF TInv
    <2>2. {EntryAt(t, j).key : j \in After(t, FindIndex(t, at))} = Ahead(t, FindIndex(t, at))
        BY <2>1, AheadIs DEF TInv
    <2>3. at = Nil => FindIndex(t, at) = 0
        BY DEF FindIndex
    <2> QED BY <1>2, <2>1, <2>2, <2>3 DEF Pending
<1> QED BY <1>1, <1>2

LEMMA FieldsAre == Map!Fields = InTable(t)
BY DEF Map!Fields, Contents, InTable

LEMMA SameContents ==
    ASSUME \A x \in Keys : Get(t', x) = Get(t, x)
    PROVE  Contents' = Contents /\ InTable(t') = InTable(t)
BY DEF Contents, InTable

LEMMA AssignMaps ==
    ASSUME TInv, TInv', NEW key \in Keys \cup DOMAIN Floats, NEW v \in Values \cup {Nil}, Assign(key, v)
    PROVE  Map!Assign
<1> DEFINE k == Normal(key)
<1>0. k \in Keys /\ at' = at /\ (at # Out => Get(t, k) # Nil)
    BY KeyOfFloat DEF Assign
<1>1. KeySet(t, t', k, v) /\ (Get(t, k) # Nil => Steady(t, t'))
    BY AssignIs
<1> HIDE DEF k
<1>2. Get(t', k) = v /\ \A x \in Keys : x # k => Get(t', x) = Get(t, x)
    BY <1>1, KeyFacts DEF KeySet
<1>3. Contents' = [Contents EXCEPT ![k] = v]
    BY <1>0, <1>2 DEF Contents
<1>4. at # Out => k \in Map!Fields
    BY <1>0, FieldsAre DEF InTable
<1>5. Pending' = IF v = Nil THEN Pending \ {k} ELSE Pending
    <2>1. CASE at = Out
        BY <1>0, <2>1 DEF Pending
    <2>2. CASE at # Out
        <3> DEFINE i == FindIndex(t, at)
        <3>1. Steady(t, t') /\ Get(t, k) # Nil /\ Sound(t) /\ Sound(t') /\ at \in Keys \cup {Nil}
            BY <1>0, <1>1, <2>2 DEF TInv
        <3>2. \A x \in Keys \cup {Nil} : FindIndex(t', x) = FindIndex(t, x)
            BY <3>1, SteadyIndex
        <3>3. Pending = Ahead(t, i)
            BY <2>2, PendingIs
        <3>4. Pending' = Ahead(t', i)
            <4>1. i \in Nat /\ i # None
                BY <2>2, PendingIs DEF TInv
            <4>2. FindIndex(t', at') = i
                BY <1>0, <3>1, <3>2
            <4> HIDE DEF i
            <4>3. {EntryAt(t', j).key : j \in After(t', i)} = Ahead(t', i)
                BY <3>1, <4>1, AheadIs
            <4> QED BY <1>0, <2>2, <4>1, <4>2, <4>3 DEF Pending
        <3> HIDE DEF i
        <3>5. CASE v = Nil
            BY <1>2, <3>2, <3>3, <3>4, <3>5 DEF Ahead
        <3>6. CASE v # Nil
            BY <1>2, <3>1, <3>2, <3>3, <3>4, <3>6 DEF Ahead
        <3> QED BY <3>5, <3>6
    <2> QED BY <2>1, <2>2
<1>6. (at # Out)' <=> (at # Out)
    BY <1>0
<1> QED BY <1>0, <1>3, <1>4, <1>5, <1>6 DEF Map!Assign

\* Where nothing that can be seen changes, the map stutters.
LEMMA Unseen ==
    ASSUME TInv, TInv', at' = at, \A x \in K : Get(t', x) = Get(t, x),
           at = Out \/ at = Nil \/ Steady(t, t')
    PROVE  UNCHANGED Map!vars
<1>1. Contents' = Contents /\ InTable(t') = InTable(t)
    BY SameContents, KeyFacts
<1>2. Pending' = Pending
    <2>1. CASE at = Out
        BY <2>1 DEF Pending
    <2>2. CASE at = Nil
        <3>1. Nil # Out
            BY DEF Nil, Out
        <3>2. Pending = InTable(t)
            BY <2>2, <3>1, PendingIs, AllAhead DEF TInv
        <3>3. Pending' = {EntryAt(t', j).key : j \in After(t', 0)}
            <4>1. FindIndex(t', at') = 0 /\ 0 # None
                BY <2>2 DEF FindIndex, None
            <4> QED BY <2>2, <3>1, <4>1 DEF Pending
        <3>4. {EntryAt(t', j).key : j \in After(t', 0)} = InTable(t')
            <4>1. Sound(t') /\ 0 \in Nat
                BY DEF TInv
            <4>2. {EntryAt(t', j).key : j \in After(t', 0)} = Ahead(t', 0)
                BY <4>1, AheadIs
            <4>3. Ahead(t', 0) = InTable(t')
                BY <4>1, AllAhead
            <4> QED BY <4>2, <4>3
        <3> QED BY <1>1, <3>2, <3>3, <3>4
    <2>3. CASE at # Out /\ at # Nil /\ Steady(t, t')
        <3> DEFINE i == FindIndex(t, at)
        <3>1. Sound(t) /\ Sound(t') /\ at \in Keys \cup {Nil}
            BY <2>3 DEF TInv
        <3>2. \A x \in Keys \cup {Nil} : FindIndex(t', x) = FindIndex(t, x)
            BY <2>3, <3>1, SteadyIndex
        <3>3. Pending = Ahead(t, i) /\ i \in Nat /\ i # None
            BY <2>3, PendingIs DEF TInv
        <3>4. FindIndex(t', at') = i
            BY <3>1, <3>2
        <3> HIDE DEF i
        <3>5. {EntryAt(t', j).key : j \in After(t', i)} = Ahead(t', i)
            BY <3>1, <3>3, AheadIs
        <3>6. Pending' = Ahead(t', i)
            BY <2>3, <3>3, <3>4, <3>5 DEF Pending
        <3>7. Ahead(t', i) = Ahead(t, i)
            BY <3>2, KeyFacts DEF Ahead
        <3> QED BY <3>3, <3>6, <3>7
    <2> QED BY <2>1, <2>2, <2>3
<1> QED BY <1>1, <1>2 DEF Map!vars

LEMMA BeginMaps ==
    ASSUME TInv, TInv', BeginTraversal
    PROVE  Map!Begin
<1>1. at = Out /\ at' = Nil /\ t' = t /\ Nil # Out
    BY DEF BeginTraversal, Nil, Out
<1>2. Contents' = Contents
    BY <1>1 DEF Contents
<1>3. Pending' = {EntryAt(t, j).key : j \in After(t, 0)}
    <2>1. FindIndex(t', at') = 0 /\ 0 # None
        BY <1>1 DEF FindIndex, None
    <2> QED BY <1>1, <2>1 DEF Pending
<1>4. {EntryAt(t, j).key : j \in After(t, 0)} = InTable(t)
    <2>1. {EntryAt(t, j).key : j \in After(t, 0)} = Ahead(t, 0)
        BY AheadIs DEF TInv
    <2>2. Ahead(t, 0) = InTable(t)
        BY AllAhead DEF TInv
    <2> QED BY <2>1, <2>2
<1> QED BY <1>1, <1>2, <1>3, <1>4, FieldsAre DEF Map!Begin

LEMMA VisitMaps ==
    ASSUME TInv, TInv', NextEntry
    PROVE  Map!Visit \/ Map!End
<1> DEFINE i == FindIndex(t, at)
           j == FindIndex(t, at')
<1>0. t' = t /\ at # Out /\ i \in Nat /\ i # None
    BY NextEntryIs DEF NextEntry, TInv
<1>1. Contents' = Contents
    BY <1>0 DEF Contents
<1>2. Pending = {EntryAt(t, x).key : x \in After(t, i)}
    BY <1>0 DEF Pending
<1>3. CASE After(t, i) = {}
    <2>1. at' = Out
        BY <1>3, NextEntryIs
    <2>2. Pending' = {}
        BY <2>1 DEF Pending
    <2>3. Pending = {}
        BY <1>2, <1>3
    <2> QED BY <1>0, <1>1, <2>1, <2>2, <2>3 DEF Map!End
<1>4. CASE After(t, i) # {}
    <2>1. /\ at' \in Keys /\ at' # Out /\ j \in After(t, i)
          /\ After(t, j) = After(t, i) \ {j} /\ EntryAt(t, j).key = at'
        BY <1>4, NextEntryIs
    <2>2. j # None
        BY <1>0, <2>1 DEF TInv
    <2>3. Pending' = {EntryAt(t, x).key : x \in After(t, j)}
        BY <1>0, <2>1, <2>2 DEF Pending
    <2>4. \A x \in After(t, i) : EntryAt(t, x).key = at' => x = j
        <3> SUFFICES ASSUME NEW x \in After(t, i), EntryAt(t, x).key = at' PROVE x = j
            OBVIOUS
        <3>1. x \in 1..(Len(t.arr) + SizeNode(t)) /\ EntryAt(t, x).val # Nil
            BY <1>0, IndexIs DEF After, TInv
        <3>2. FindIndex(t, EntryAt(t, x).key) = x
            BY <3>1, IndexIs DEF TInv
        <3> QED BY <3>2
    <2> HIDE DEF i, j
    <2>5. at' \in Pending
        BY <1>2, <2>1
    <2>6. Pending' = Pending \ {at'}
        BY <1>2, <2>1, <2>3, <2>4
    <2> QED BY <1>0, <1>1, <2>1, <2>5, <2>6 DEF Map!Visit
<1> QED BY <1>3, <1>4

\* A table is a map to the program, and a traversal comes to every field that
\* is not cleared before it, once: every step is one of LuaMap or none.
THEOREM TablesAreMaps == Spec => ImplementsMap
<1>1. Init => Map!Init
    <2> SUFFICES ASSUME Init PROVE Map!Init
        OBVIOUS
    <2>1. TInv /\ at = Out
        BY InitTInv DEF Init
    <2>2. t.arr = << >> /\ t.dummy
        <3>1. t = [[arr |-> << >>, node |-> << >>, dummy |-> TRUE, lastfree |-> 0]
                       EXCEPT !.node = [n \in {0} |-> EmptyNode], !.dummy = TRUE, !.lastfree = 0]
            BY DEF Init, SetNodeVector
        <3> DEFINE g == [arr |-> << >>, node |-> << >>, dummy |-> TRUE, lastfree |-> 0]
                   d == TRUE
        <3>2. t = WithParts(g, [n \in {0} |-> EmptyNode], d, 0)
            BY <3>1, Zenon DEF WithParts
        <3>3. g = Table(g.arr, g.node, g.dummy, g.lastfree) /\ g.arr = << >>
            BY DEF Table
        <3> HIDE DEF g, d
        <3>4. t = Table(<< >>, [n \in {0} |-> EmptyNode], d, 0)
            BY <3>2, <3>3, TableWith
        <3> QED BY <3>4 DEF Table, d
    <2>3. Entering(t, 0) = {}
        BY <2>1, <2>2, NothingIn DEF TInv
    <2>4. \A x \in Keys : Get(t, x) = Nil
        <3>1. \A x : x \notin 1..0
            OBVIOUS
        <3> QED BY <2>3, <3>1 DEF Entering
    <2>5. Contents = [k \in Keys |-> Nil] /\ Pending = {}
        BY <2>1, <2>4 DEF Contents, Pending
    <2> QED BY <2>1, <2>5 DEF Map!Init
<1>2. TInv /\ TInv' /\ [Next]_vars => [Map!Next]_(Map!vars)
    <2> SUFFICES ASSUME TInv, TInv', [Next]_vars PROVE Map!Next \/ UNCHANGED Map!vars
        OBVIOUS
    <2>1. ASSUME NEW na \in 0..MaxArray, NEW nh \in 0..MaxHash, Create(na, nh) PROVE UNCHANGED Map!vars
        <3>1. Resized(t, t', na, nh) /\ at' = at /\ (at = Out \/ at = Nil)
            BY <2>1, CreateIs, NoTraversalYet DEF Create
        <3>2. \A x \in K : Get(t', x) = Get(t, x)
            BY <3>1 DEF Resized
        <3> QED BY <3>1, <3>2, Unseen
    <2>2. ASSUME NEW key \in Keys \cup DOMAIN Floats, NEW v \in Values \cup {Nil}, Assign(key, v) PROVE Map!Next
        BY <2>2, AssignMaps DEF Map!Next
    <2>3. ASSUME NEW n \in 1..MaxArray, GrowArray(n) PROVE UNCHANGED Map!vars
        <3>1. Resized(t, t', n, IF t.dummy THEN 0 ELSE SizeNode(t)) /\ at' = at /\ at = Out
            BY <2>3, GrowArrayIs DEF GrowArray
        <3>2. \A x \in K : Get(t', x) = Get(t, x)
            BY <3>1 DEF Resized
        <3> QED BY <3>1, <3>2, Unseen
    <2>4. ASSUME NEW n \in DOMAIN t.node, KeyDies(n) PROVE UNCHANGED Map!vars
        <3>1. Steady(t, t') /\ \A x \in K : Get(t', x) = Get(t, x)
            BY <2>4, DiesIs
        <3>2. at' = at
            BY <2>4 DEF KeyDies
        <3> QED BY <3>1, <3>2, Unseen
    <2>5. CASE BeginTraversal
        BY <2>5, BeginMaps DEF Map!Next
    <2>6. CASE NextEntry
        BY <2>6, VisitMaps DEF Map!Next
    <2>7. CASE UNCHANGED vars
        BY <2>7 DEF vars, Map!vars, Contents, Pending
    <2> QED BY <2>1, <2>2, <2>3, <2>4, <2>5, <2>6, <2>7 DEF Next
<1> QED BY <1>1, <1>2, AlwaysTInv, PTL DEF Spec, ImplementsMap, Map!Spec
=============================================================================
