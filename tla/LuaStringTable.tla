---------------------------- MODULE LuaStringTable ----------------------------
(* The table that keeps one object for each short string (lstring.c), and     *)
(* what the collector does to it: strings that the program dropped are dead   *)
(* after the mark and go one by one, and until one is gone the program may    *)
(* ask for the same text again.  A cache remembers what C strings gave.       *)
(* When memory runs out a whole collection runs inside the call.              *)
(* A bucket is the set of the strings on its list: a string has one hnext,    *)
(* and which of them is first tells nothing as long as no two are equal.      *)
EXTENDS Naturals, FiniteSets

CONSTANTS Texts,      \* the texts
          HashOf,     \* luaS_hash, as a function on the texts
          Message,    \* "not enough memory", which is never collected
          Addresses,  \* where a string may lie
          TabSizes,   \* MINSTRTABSIZE is one of these
          Rows, Ways  \* STRCACHE_N rows of STRCACHE_M strings
ASSUME StringAssumption ==
  /\ IsFiniteSet(Texts) /\ Message \in Texts /\ HashOf \in [Texts -> Nat]
  /\ Addresses \subseteq Nat \ {0} /\ IsFiniteSet(Addresses) /\ Cardinality(Addresses) >= Cardinality(Texts)
  /\ TabSizes \subseteq Nat \ {0} /\ Ways \in Nat \ {0}

VARIABLES
  pool,    \* [str, hash, nuse, cache]: the strings by address, the buckets,
           \* how many strings they hold, the cache
  white,   \* currentwhite, 0 or 1
  held,    \* the strings the program can reach
  sweep,   \* what is still to be swept
  sweeping \* whether a sweep is going on
poolvars == <<pool, white, held, sweep, sweeping>>

Black == 2   \* marked, or fixed
otherwhite == 1 - white
isdead(p, a) == p.str[a].color = otherwhite
Size(p) == Cardinality(DOMAIN p.hash)
Bucket(p, key) == HashOf[key] % Size(p)
Objects(p) == DOMAIN p.str

\* The address of Message, which luaS_init made first.
LeastOf(S) == CHOOSE a \in S : \A b \in S : a <= b
memerrmsg == LeastOf(Addresses)

----------------------------------------------------------------------------
(* The string table.                                                         *)
luaS_resize(p, newsize) ==
  LET all == UNION {p.hash[h] : h \in DOMAIN p.hash}
  IN [p EXCEPT !.hash = [h \in 0..newsize - 1 |-> {a \in all : HashOf[p.str[a].key] % newsize = h}]]

luaS_remove(p, a) == [p EXCEPT !.hash[Bucket(p, p.str[a].key)] = @ \ {a}, !.nuse = @ - 1]

\* freeobj
Free(p, a) == [luaS_remove(p, a) EXCEPT !.str = [b \in Objects(p) \ {a} |-> p.str[b]]]

\* luaS_clearcache: of a collection that marks the strings "marked".
luaS_clearcache(p, marked) ==
  [p EXCEPT !.cache = [r \in Rows |-> [w \in 1..Ways |-> IF @[r][w] \in marked THEN @[r][w] ELSE memerrmsg]]]

\* luaC_fullgc in an emergency: what the program does not hold is freed, each
\* string from the bucket that its hash tells.  The table keeps its size (checkSizes).
Emergency(p) ==
  LET marked == held \cup {memerrmsg}
      gone == Objects(p) \ marked
  IN [luaS_clearcache(p, marked) EXCEPT
        !.str = [a \in Objects(p) \ gone |-> [@[a] EXCEPT !.color = IF a = memerrmsg THEN Black ELSE white]],
        !.hash = [h \in DOMAIN @ |-> @[h] \ {a \in gone : Bucket(p, p.str[a].key) = h}],
        !.nuse = @ - Cardinality(gone)]

createstrobj(p, a, key) ==
  [p EXCEPT !.str = [b \in Objects(p) \cup {a} |-> IF b = a THEN [key |-> key, color |-> white] ELSE @[b]]]

\* The outcome of a call: the pool, the string or 0 for an error, and whether
\* a whole collection ran.
Got(p, a, collected) == [pool |-> p, a |-> a, collected |-> collected]

\* Adds the string a to its bucket.
Link(p, a) == [p EXCEPT !.hash[Bucket(p, p.str[a].key)] = @ \cup {a}, !.nuse = @ + 1]

\* Mutant: a dead string is passed over, not brought back.
internshrstrPassesOver(p, key, memory, fails) ==
  LET list == p.hash[Bucket(p, key)]
      same == {a \in list : p.str[a].key = key /\ ~isdead(p, a)}
      a == LeastOf(Addresses \ Objects(p))
  IN IF same # {} \/ Addresses = Objects(p) THEN Got(p, CHOOSE ts \in list : TRUE, FALSE)
     ELSE Got(Link(createstrobj(p, a, key), a), a, FALSE)

\* internshrstr.  "memory" tells where memory runs out on the way: nowhere,
\* when the table grows, when the string is made; "fails" tells whether the
\* emergency collection was of no use.
internshrstr(p, key, memory, fails) ==
  LET same == {a \in p.hash[Bucket(p, key)] : p.str[a].key = key}
      ts == CHOOSE a \in same : TRUE
      full == p.nuse >= Size(p)
      p1 == IF memory = "table" /\ full THEN Emergency(p) ELSE p
      p2 == IF full THEN luaS_resize(p1, 2 * Size(p)) ELSE p1
      p3 == IF memory = "object" THEN Emergency(p2) ELSE p2
      a == LeastOf(Addresses \ Objects(p3))
  IN CASE same # {} ->
            Got(IF isdead(p, ts) THEN [p EXCEPT !.str[ts].color = white] ELSE p, ts, FALSE)
       [] same = {} /\ memory = "table" /\ full /\ fails -> Got(p1, 0, TRUE)
       [] same = {} /\ memory = "object" /\ fails -> Got(p3, 0, TRUE)
       [] OTHER -> Got(Link(createstrobj(p3, a, key), a), a, memory = "object" \/ (memory = "table" /\ full))

\* luaS_new: the cached string with this text, or the one luaS_newlstr gives,
\* which becomes the first of the row.
luaS_new(p, row, key, memory, fails) ==
  LET hits == {w \in 1..Ways : p.str[p.cache[row][w]].key = key}
      moved == [p EXCEPT !.cache[row] = [w \in 1..Ways |-> IF w = 1 THEN @[1] ELSE @[w - 1]]]
      made == internshrstr(moved, key, memory, fails)
  IN IF hits # {} THEN Got(p, p.cache[row][LeastOf(hits)], FALSE)
     ELSE IF made.a = 0 THEN made ELSE [made EXCEPT !.pool.cache[row][1] = made.a]

----------------------------------------------------------------------------
(* What the program and the collector do.                                    *)
PoolInit ==
  /\ \E size \in TabSizes :
       pool = [str |-> [a \in {memerrmsg} |-> [key |-> Message, color |-> Black]],
               hash |-> [h \in 0..size - 1 |-> IF h = HashOf[Message] % size THEN {memerrmsg} ELSE {}],
               nuse |-> 1,
               cache |-> [r \in Rows |-> [w \in 1..Ways |-> memerrmsg]]]
  /\ white = 0 /\ held = {} /\ sweep = {} /\ sweeping = FALSE

\* The program holds what it is given (Message needs no holding); a whole collection ends the sweep.
Take(outcome) ==
  /\ pool' = outcome.pool
  /\ held' = held \cup ({outcome.a} \ {0, memerrmsg})
  /\ sweep' = IF outcome.collected THEN {} ELSE sweep
  /\ sweeping' = (sweeping /\ ~outcome.collected)
  /\ white' = white

NewString == \E key \in Texts, memory \in {"enough", "table", "object"}, fails \in BOOLEAN :
               Take(internshrstr(pool, key, memory, fails))
NewCached == \E row \in Rows, key \in Texts, memory \in {"enough", "table", "object"}, fails \in BOOLEAN :
               Take(luaS_new(pool, row, key, memory, fails))

Forget == \E a \in held : held' = held \ {a} /\ UNCHANGED <<pool, white, sweep, sweeping>>

\* The mark ends (atomic): the strings the program holds are black, the cache
\* lets go of the others, and these are dead once the white is the other one.
Atomic ==
  /\ ~sweeping
  /\ LET marked == held \cup {memerrmsg}
     IN pool' = [luaS_clearcache(pool, marked) EXCEPT
                   !.str = [a \in Objects(pool) |-> IF a \in marked THEN [@[a] EXCEPT !.color = Black] ELSE @[a]]]
  /\ white' = otherwhite
  /\ sweep' = Objects(pool) \ {memerrmsg}
  /\ sweeping' = TRUE
  /\ held' = held

\* One string is freed, or made white for the next collection (sweeplist).
Sweep ==
  /\ \E a \in sweep :
       /\ pool' = IF isdead(pool, a) THEN Free(pool, a) ELSE [pool EXCEPT !.str[a].color = white]
       /\ sweep' = sweep \ {a}
  /\ UNCHANGED <<white, held, sweeping>>

\* The sweep ends: the table shrinks if few strings are left (checkSizes).
EndSweep ==
  /\ sweeping /\ sweep = {}
  /\ pool' = IF pool.nuse < Size(pool) \div 4 THEN luaS_resize(pool, Size(pool) \div 2) ELSE pool
  /\ sweeping' = FALSE
  /\ UNCHANGED <<white, held, sweep>>

PoolNext == NewString \/ NewCached \/ Forget \/ Atomic \/ Sweep \/ EndSweep
PoolSpec == PoolInit /\ [][PoolNext]_poolvars

----------------------------------------------------------------------------
\* PROPERTY.  There is one object for a text, so that strings may be compared
\* by address: also while a string nobody held any more waits to be swept and
\* is asked for again, and when a collection runs in the middle of the call.
\* What the program holds and what the cache may give out is never dead; every
\* string is in its bucket and in no other, and counted.
StringsShared ==
  /\ \A a, b \in Objects(pool) : pool.str[a].key = pool.str[b].key => a = b
  /\ \A a \in held \cup {pool.cache[r][w] : r \in Rows, w \in 1..Ways} \cup {memerrmsg} :
       a \in Objects(pool) /\ ~(sweeping /\ isdead(pool, a))
  /\ \A h \in DOMAIN pool.hash : pool.hash[h] = {a \in Objects(pool) : Bucket(pool, pool.str[a].key) = h}
  /\ pool.nuse = Cardinality(Objects(pool)) /\ pool.nuse <= Size(pool)
=============================================================================
