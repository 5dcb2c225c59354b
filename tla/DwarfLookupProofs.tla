------------------------- MODULE DwarfLookupProofs -------------------------
(* Theorems about dwarf_lookup_pc, for every number of threads, every table *)
(* of ranges and whichever units cannot be read.                            *)
EXTENDS DwarfLookup, WellFoundedInduction, TLAPS

-----------------------------------------------------------------------------
(* The search.                                                             *)

LEMMA LeastNumber ==
    ASSUME NEW S \in SUBSET Nat, S # {}
    PROVE  \E m \in S : \A n \in S : m <= n
<1>1. PICK m \in S : \A n \in S : ~(<<n, m>> \in OpToRel(<, Nat))
    BY NatLessThanWellFounded, WFMin
<1>2. \A n \in S : ~(n < m)
    BY <1>1 DEF OpToRel
<1> QED BY <1>2

\* The scan forward ends at an entry that contains the pc.
LEMMA ForwardContains ==
    ASSUME NEW pc \in Nat, NEW i \in 1..Len(Addrs), Contains(i, pc)
    PROVE  Forward(i, pc) \in 1..Len(Addrs) /\ Contains(Forward(i, pc), pc)
<1>0. Len(Addrs) \in Nat
    BY AddrsAssumption
<1> DEFINE S == {k \in Nat : k > i /\ ~Contains(k, pc)}
<1>1. S \in SUBSET Nat /\ Len(Addrs) + 1 \in S
    BY <1>0 DEF Contains
<1>2. PICK m \in S : \A n \in S : m <= n
    BY <1>1, LeastNumber
<1>3. m - 1 \in i..Len(Addrs)
    BY <1>0, <1>1, <1>2
<1>4. \A j \in i..(m - 1) : Contains(j, pc)
    <2> SUFFICES ASSUME NEW j \in i..(m - 1) PROVE Contains(j, pc)
        OBVIOUS
    <2>1. j = i \/ (j \in Nat /\ j > i /\ j < m)
        BY <1>2
    <2> QED BY <1>2, <2>1
<1>5. ~Contains((m - 1) + 1, pc)
    BY <1>2
<1>6. \E k \in i..Len(Addrs) :
         (\A j \in i..k : Contains(j, pc)) /\ ~Contains(k + 1, pc)
    BY <1>3, <1>4, <1>5
<1>7. /\ Forward(i, pc) \in i..Len(Addrs)
      /\ \A j \in i..Forward(i, pc) : Contains(j, pc)
    BY <1>6 DEF Forward
<1> QED BY <1>7, <1>0

-----------------------------------------------------------------------------
(* The invariant.                                                          *)

\* What every complete read of a unit finds.
Right(u) ==
    IF u \in Useless THEN [lines |-> "bad", count |-> 0, funcs |-> "null", funcs_count |-> 0]
    ELSE IF u \in FuncUnits THEN [lines |-> "good", count |-> 1, funcs |-> "set", funcs_count |-> 1]
    ELSE [lines |-> "good", count |-> 1, funcs |-> "null", funcs_count |-> 0]

Storing == {"store_count", "store_funcs", "store_funcs_count", "store_lines"}
Using == {"decide", "find_line", "name_file", "find_count", "find_function"}

\* The fields of a unit are those of a complete read, or not yet stored, and
\* all stored once lines is.
UnitsRight ==
    \A u \in Units \ starved :
        /\ lines_count[u] \in {0, Right(u).count}
        /\ function_addrs[u] \in {"null", Right(u).funcs}
        /\ function_addrs_count[u] \in {0, Right(u).funcs_count}
        /\ lines[u] \in {"null", Right(u).lines}
        /\ lines[u] # "null" =>
              /\ lines_count[u] = Right(u).count
              /\ function_addrs[u] = Right(u).funcs
              /\ function_addrs_count[u] = Right(u).funcs_count

\* What a thread is storing is what it should, and what it has stored is
\* there, whoever else stores the same.
StoresRight ==
    \A t \in Threads :
        at[t] \in Storing /\ Unit(t) \notin starved =>
            /\ new[t] = Right(Unit(t))
            /\ at[t] # "store_count" => lines_count[Unit(t)] = Right(Unit(t)).count
            /\ at[t] \in {"store_funcs_count", "store_lines"} =>
                  function_addrs[Unit(t)] = Right(Unit(t)).funcs
            /\ at[t] = "store_lines" =>
                  function_addrs_count[Unit(t)] = Right(Unit(t)).funcs_count

\* A read finds something or fails, and a unit in use has been read.
ReadOnceStored ==
    \A t \in Threads :
        /\ at[t] \in Storing => new[t].lines # "null" /\ rd[t] = new[t].lines
        /\ at[t] \in Using =>
              /\ lines[Unit(t)] # "null" /\ rd[t] # "null"
              /\ Unit(t) \notin starved => rd[t] = Right(Unit(t)).lines
        /\ at[t] \in Using \ {"decide"} => rd[t] = "good"

IInv == TypeOK /\ EntryContainsPc /\ UnitsRight /\ StoresRight /\ ReadOnceStored

LEMMA UnitInUnits ==
    ASSUME NEW t \in Threads, entry[t] \in 1..Len(Addrs)
    PROVE  Unit(t) \in Units
<1> DEFINE R == [low : Nat, high : Nat, u : Units]
<1>1. Addrs \in Seq(R)
    BY AddrsAssumption
<1>2. \A r \in R : r.u \in Units
    OBVIOUS
<1> HIDE DEF R
<1>3. Addrs[entry[t]] \in R
    BY <1>1
<1> QED BY <1>2, <1>3 DEF Unit

LEMMA RightType ==
    ASSUME NEW u \in Units
    PROVE  /\ Right(u) \in [lines : LineStates, count : 0..1,
                            funcs : {"null", "set"}, funcs_count : 0..1]
           /\ Right(u).lines # "null"
           /\ Right(u).lines = "good" =>
                 /\ Right(u).count = 1
                 /\ u \in FuncUnits => Right(u).funcs_count = 1
                 /\ Right(u).funcs_count # 0 => Right(u).funcs = "set"
BY DEF Right, LineStates

LEMMA InitIInv == Init => IInv
<1> SUFFICES ASSUME Init PROVE IInv
    OBVIOUS
<1>1. TypeOK
    BY AddrsAssumption DEF Init, TypeOK, LineStates, Labels, Answers, Nothing
<1>2. EntryContainsPc /\ StoresRight /\ ReadOnceStored
    BY DEF Init, EntryContainsPc, StoresRight, ReadOnceStored, Storing, Using
<1>3. UnitsRight
    BY DEF Init, UnitsRight
<1> QED BY <1>1, <1>2, <1>3 DEF IInv

-----------------------------------------------------------------------------
(* The steps.                                                              *)

\* Every step keeps the types, and a thread past the search in its range.
LEMMA TypeStep ==
    ASSUME IInv, NEW t \in Threads, Step(t) \/ \E pc \in Pcs : Call(t, pc)
    PROVE  TypeOK' /\ EntryContainsPc'
<1>0. /\ lines \in [Units -> LineStates] /\ lines_count \in [Units -> 0..1]
      /\ function_addrs \in [Units -> {"null", "set"}]
      /\ function_addrs_count \in [Units -> 0..1]
      /\ abs_filename \in [Units -> BOOLEAN] /\ starved \subseteq Units
      /\ at \in [Threads -> Labels] /\ key \in [Threads -> Pcs \cup {0}]
      /\ entry \in [Threads -> 0..Len(Addrs)]
      /\ rd \in [Threads -> LineStates] /\ new_data \in [Threads -> BOOLEAN]
      /\ answer \in [Threads -> Answers]
      /\ new \in [Threads -> [lines : LineStates, count : 0..1,
                              funcs : {"null", "set"}, funcs_count : 0..1]]
    BY DEF IInv, TypeOK
<1>1. Len(Addrs) \in Nat /\ Pcs \subseteq Nat
    BY AddrsAssumption
<1>2. \A u \in Threads : at[u] \notin {"idle", "search", "return"} => Contains(entry[u], key[u])
    BY DEF IInv, EntryContainsPc
<1>3. \A i, pc : Contains(i, pc) => i \in 1..Len(Addrs)
    BY DEF Contains
<1>4. at[t] \notin {"idle", "search", "return"} => Unit(t) \in Units
    BY <1>2, <1>3, UnitInUnits
<1>5. Nothing \in [lines : LineStates, count : 0..1, funcs : {"null", "set"}, funcs_count : 0..1]
    BY DEF Nothing, LineStates
<1> DEFINE Others == \A u \in Threads \ {t} : at'[u] = at[u] /\ entry'[u] = entry[u] /\ key'[u] = key[u]
           Past == at'[t] \notin {"idle", "search", "return"} => Contains(entry'[t], key'[t])
<1>6. ASSUME Others, Past, at' \in [Threads -> Labels], entry' \in [Threads -> 0..Len(Addrs)]
      PROVE  /\ EntryContainsPc'
             /\ \A u \in Threads : at'[u] \notin {"idle", "search", "return"} => entry'[u] # 0
    <2>1. \A u \in Threads : at'[u] \notin {"idle", "search", "return"} => Contains(entry'[u], key'[u])
        BY <1>2, <1>6
    <2>2. EntryContainsPc'
        BY <2>1 DEF EntryContainsPc, Contains
    <2> QED BY <2>1, <2>2, <1>3
<1> DEFINE Typed ==
        /\ lines' \in [Units -> LineStates] /\ lines_count' \in [Units -> 0..1]
        /\ function_addrs' \in [Units -> {"null", "set"}]
        /\ function_addrs_count' \in [Units -> 0..1]
        /\ abs_filename' \in [Units -> BOOLEAN] /\ starved' \subseteq Units
        /\ at' \in [Threads -> Labels] /\ key' \in [Threads -> Pcs \cup {0}]
        /\ entry' \in [Threads -> 0..Len(Addrs)]
        /\ rd' \in [Threads -> LineStates] /\ new_data' \in [Threads -> BOOLEAN]
        /\ answer' \in [Threads -> Answers]
        /\ new' \in [Threads -> [lines : LineStates, count : 0..1,
                                 funcs : {"null", "set"}, funcs_count : 0..1]]
<1>7. Typed /\ Others /\ Past => TypeOK' /\ EntryContainsPc'
    <2> SUFFICES ASSUME Typed, Others, Past PROVE TypeOK' /\ EntryContainsPc'
        OBVIOUS
    <2>1. /\ EntryContainsPc'
          /\ \A u \in Threads : at'[u] \notin {"idle", "search", "return"} => entry'[u] # 0
        BY <1>6
    <2> QED BY <2>1 DEF TypeOK
<1> SUFFICES Typed /\ Others /\ Past
    BY <1>7
<1>71. ASSUME UNCHANGED <<unit_fields, key, entry, rd, new, new_data>>,
              at[t] \notin {"idle", "search", "return"},
              \/ UNCHANGED answer /\ \E l \in Labels : Goto(t, l)
              \/ \E a \in Answers : Answer(t, a)
       PROVE  Typed /\ Others /\ Past
    <2>1. at' \in [Threads -> Labels] /\ \A u \in Threads \ {t} : at'[u] = at[u]
        BY <1>0, <1>71 DEF Goto, Answer, Labels
    <2>2. answer' \in [Threads -> Answers]
        BY <1>0, <1>71 DEF Answer
    <2> QED BY <1>0, <1>2, <1>71, <2>1, <2>2 DEF unit_fields
<1> USE DEF unit_fields, Goto, Labels, LineStates, Answers, Answer
<1>8. ASSUME NEW pc \in Pcs, Call(t, pc) PROVE Typed /\ Others /\ Past
    BY <1>0, <1>8 DEF Call
<1>9. CASE Search(t)
    <2>1. PICK i \in 1..Len(Addrs) :
            /\ Contains(i, key[t])
            /\ entry' = [entry EXCEPT ![t] = Forward(i, key[t])]
            /\ rd' = [rd EXCEPT ![t] = lines[Addrs[Forward(i, key[t])].u]]
        BY <1>9 DEF Search
    <2>2. key[t] \in Nat
        <3>1. key[t] \in Pcs \cup {0}
            BY <1>0
        <3>2. \A p \in Pcs \cup {0} : p \in Nat
            BY <1>1
        <3> QED BY <3>1, <3>2
    <2>3. Forward(i, key[t]) \in 1..Len(Addrs) /\ Contains(Forward(i, key[t]), key[t])
        BY <2>1, <2>2, ForwardContains
    <2> DEFINE f == Forward(i, key[t])
    <2> HIDE DEF f
    <2>4. Addrs[f].u \in Units
        <3> DEFINE R == [low : Nat, high : Nat, u : Units]
        <3>1. Addrs \in Seq(R) /\ \A r \in R : r.u \in Units
            BY AddrsAssumption
        <3> HIDE DEF R
        <3>2. Addrs[f] \in R
            BY <3>1, <2>3 DEF f
        <3> QED BY <3>1, <3>2
    <2>5. lines[Addrs[f].u] \in LineStates
        BY <1>0, <2>4
    <2>6. /\ entry' = [entry EXCEPT ![t] = f] /\ rd' = [rd EXCEPT ![t] = lines[Addrs[f].u]]
          /\ f \in 1..Len(Addrs) /\ Contains(f, key[t])
        BY <2>1, <2>3 DEF f
    <2> HIDE DEF LineStates
    <2>7. /\ rd' \in [Threads -> LineStates] /\ entry' \in [Threads -> 0..Len(Addrs)]
          /\ entry'[t] = f /\ \A u \in Threads \ {t} : entry'[u] = entry[u]
        BY <1>0, <1>1, <2>5, <2>6
    <2>8. /\ at' = [at EXCEPT ![t] = "skip"]
          /\ UNCHANGED <<unit_fields, key, new, new_data, answer>>
        BY <1>9 DEF Search
    <2> QED BY <1>0, <2>6, <2>7, <2>8
<1>10. CASE SearchMiss(t)
    BY <1>0, <1>10 DEF SearchMiss
<1>11. CASE Skip(t)
    <2>1. at[t] = "skip" /\ entry[t] \in 1..Len(Addrs) /\ Unit(t) \in Units
        BY <1>2, <1>3, <1>4, <1>11 DEF Skip
    <2>2. lines[Unit(t)] \in LineStates
        BY <1>0, <2>1
    <2>3. /\ rd' = [rd EXCEPT ![t] = lines[Unit(t)]]
          /\ UNCHANGED <<unit_fields, key, new, new_data, answer>>
          /\ \/ /\ Contains(entry[t] - 1, key[t])
                /\ entry' = [entry EXCEPT ![t] = entry[t] - 1] /\ UNCHANGED at
             \/ at' = [at EXCEPT ![t] = "load"] /\ UNCHANGED entry
        BY <1>11 DEF Skip
    <2> HIDE DEF LineStates
    <2>4. rd' \in [Threads -> LineStates]
        BY <1>0, <2>2, <2>3
    <2>5. CASE /\ Contains(entry[t] - 1, key[t])
               /\ entry' = [entry EXCEPT ![t] = entry[t] - 1] /\ UNCHANGED at
        <3>1. entry[t] - 1 \in 1..Len(Addrs)
            BY <2>5, <1>3
        <3> QED BY <1>0, <1>1, <2>3, <2>4, <2>5, <3>1
    <2>6. CASE at' = [at EXCEPT ![t] = "load"] /\ UNCHANGED entry
        BY <1>0, <1>2, <2>1, <2>3, <2>4, <2>6
    <2> QED BY <2>3, <2>5, <2>6
<1>12. CASE Load(t)
    BY <1>0, <1>2, <1>4, <1>12 DEF Load
<1>13. CASE ReadFails(t)
    BY <1>0, <1>2, <1>4, <1>5, <1>13 DEF ReadFails
<1>14. CASE Read(t)
    <2>1. \A u \in {Unit(t)} : u \in Units
        BY <1>4, <1>14 DEF Read
    <2>2. new' \in [Threads -> [lines : LineStates, count : 0..1,
                                funcs : {"null", "set"}, funcs_count : 0..1]]
        <3> DEFINE N == [lines : LineStates, count : 0..1, funcs : {"null", "set"}, funcs_count : 0..1]
                   a == [lines |-> "good", count |-> 1, funcs |-> "set", funcs_count |-> 1]
                   b == [lines |-> "good", count |-> 1, funcs |-> "null", funcs_count |-> 0]
        <3>1. a \in N /\ b \in N
            OBVIOUS
        <3>2. new' = [new EXCEPT ![t] = a] \/ new' = [new EXCEPT ![t] = b]
            BY <1>14 DEF Read
        <3>3. new \in [Threads -> N]
            BY <1>0
        <3> HIDE DEF N, a, b
        <3>4. new' \in [Threads -> N]
            BY <3>1, <3>2, <3>3
        <3> QED BY <3>4 DEF N
    <2>3. starved' \subseteq Units
        BY <1>0, <1>14, <2>1 DEF Read
    <2> QED BY <1>0, <1>2, <1>14, <2>2, <2>3 DEF Read
<1>15. CASE StoreCount(t)
    BY <1>0, <1>2, <1>4, <1>15 DEF StoreCount
<1>16. CASE StoreFuncs(t)
    BY <1>0, <1>2, <1>4, <1>16 DEF StoreFuncs
<1>17. CASE StoreFuncsCount(t)
    BY <1>0, <1>2, <1>4, <1>17 DEF StoreFuncsCount
<1>18. CASE StoreLines(t)
    BY <1>0, <1>2, <1>4, <1>5, <1>18 DEF StoreLines
<1>19. CASE Decide(t)
    <2>1. /\ at[t] = "decide" /\ UNCHANGED <<unit_fields, key, entry, rd, new, new_data>>
          /\ \/ Goto(t, "search") /\ UNCHANGED answer
             \/ Answer(t, "nothing")
             \/ Goto(t, "find_line") /\ UNCHANGED answer
        BY <1>19 DEF Decide
    <2> HIDE DEF Goto, Answer
    <2> QED BY <1>71, <2>1
<1>20. CASE FindLine(t)
    <2>1. /\ at[t] = "find_line" /\ UNCHANGED <<unit_fields, key, entry, rd, new, new_data, answer>>
          /\ Goto(t, "name_file") \/ Goto(t, "find_count")
        BY <1>20 DEF FindLine
    <2> HIDE DEF Goto, Answer
    <2> QED BY <1>71, <2>1
<1>21. CASE NameFile(t) \/ NameFileFails(t)
    <2>1. CASE NameFile(t)
        BY <1>0, <1>2, <1>4, <2>1 DEF NameFile
    <2>2. CASE NameFileFails(t)
        <3>1. /\ at[t] = "name_file" /\ UNCHANGED <<unit_fields, key, entry, rd, new, new_data>>
              /\ Answer(t, "not_found")
            BY <2>2 DEF NameFileFails
        <3> HIDE DEF Answer
        <3> QED BY <1>71, <3>1
    <2> QED BY <1>21, <2>1, <2>2
<1>22. CASE FindCount(t) \/ FindFunction(t)
    <2>1. /\ at[t] \in {"find_count", "find_function"}
          /\ UNCHANGED <<unit_fields, key, entry, rd, new, new_data>>
          /\ \/ Goto(t, "find_function") /\ UNCHANGED answer
             \/ \E a \in {"line", "function"} : Answer(t, a)
        BY <1>22 DEF FindCount, FindFunction
    <2>2. \/ Goto(t, "find_function") /\ UNCHANGED answer
          \/ Answer(t, "line")
          \/ Answer(t, "function")
        BY <2>1
    <2> HIDE DEF Goto, Answer
    <2> QED BY <1>71, <2>1, <2>2
<1>23. CASE Return(t)
    BY <1>0, <1>1, <1>23 DEF Return
<1> QED BY <1>8, <1>9, <1>10, <1>11, <1>12, <1>13, <1>14, <1>15, <1>16, <1>17,
           <1>18, <1>19, <1>20, <1>21, <1>22, <1>23 DEF Step

\* Every step keeps what the units hold, what is being stored and what is
\* in use in agreement with a complete read.
LEMMA RightStep ==
    ASSUME IInv, NEW t \in Threads, Step(t) \/ \E pc \in Pcs : Call(t, pc)
    PROVE  UnitsRight' /\ StoresRight' /\ ReadOnceStored'
<1>0. /\ lines \in [Units -> LineStates] /\ lines_count \in [Units -> 0..1]
      /\ function_addrs \in [Units -> {"null", "set"}]
      /\ function_addrs_count \in [Units -> 0..1] /\ starved \subseteq Units
      /\ at \in [Threads -> Labels] /\ entry \in [Threads -> 0..Len(Addrs)]
      /\ rd \in [Threads -> LineStates]
      /\ new \in [Threads -> [lines : LineStates, count : 0..1,
                              funcs : {"null", "set"}, funcs_count : 0..1]]
    BY DEF IInv, TypeOK
<1>1. \A u \in Threads : at[u] \notin {"idle", "search", "return"} => Unit(u) \in Units
    <2>1. \A u \in Threads : at[u] \notin {"idle", "search", "return"} => entry[u] \in 1..Len(Addrs)
        BY DEF IInv, EntryContainsPc, Contains
    <2> QED BY <2>1, UnitInUnits
<1> DEFINE Reading == at[t] \notin {"idle", "search", "return"}
           v == Unit(t)
           Others == \A u \in Threads \ {t} :
                        /\ at'[u] = at[u] /\ Unit(u)' = Unit(u)
                        /\ rd'[u] = rd[u] /\ new'[u] = new[u]
<1>2. UnitsRight /\ StoresRight /\ ReadOnceStored
    BY DEF IInv
<1>3. \A u \in Units : Right(u).lines \in {"good", "bad"}
    BY RightType DEF LineStates
<1> HIDE DEF Reading
\* Steps that store nothing.
<1>4. ASSUME Others, UNCHANGED <<lines, lines_count, function_addrs, function_addrs_count>>,
             starved \subseteq starved',
             at'[t] \in Storing => /\ at'[t] = "store_count" /\ new'[t].lines # "null" /\ rd'[t] = new'[t].lines
                                   /\ Unit(t)' \notin starved' => new'[t] = Right(Unit(t)'),
             at'[t] \in Using =>
                /\ lines[Unit(t)'] # "null" /\ rd'[t] # "null"
                /\ Unit(t)' \notin starved => rd'[t] = Right(Unit(t)').lines,
             at'[t] \in Using \ {"decide"} => rd'[t] = "good"
      PROVE  UnitsRight' /\ StoresRight' /\ ReadOnceStored'
    <2>1. UnitsRight'
        BY <1>2, <1>4 DEF UnitsRight
    <2>2. StoresRight'
        BY <1>2, <1>4 DEF StoresRight, Storing
    <2>3. ReadOnceStored'
        BY <1>2, <1>4 DEF ReadOnceStored, Storing
    <2> QED BY <2>1, <2>2, <2>3
<1>5. ASSUME entry' = entry PROVE \A u \in Threads : Unit(u)' = Unit(u)
    BY <1>5 DEF Unit
<1>6. ASSUME NEW l \in Labels, Goto(t, l)
      PROVE  at'[t] = l /\ \A u \in Threads \ {t} : at'[u] = at[u]
    BY <1>0, <1>6 DEF Goto
<1>7. ASSUME UNCHANGED <<unit_fields, rd, new>>, at'[t] \notin Storing, at'[t] \notin Using,
             \A u \in Threads \ {t} : at'[u] = at[u] /\ entry'[u] = entry[u]
      PROVE  UnitsRight' /\ StoresRight' /\ ReadOnceStored'
    BY <1>4, <1>7 DEF unit_fields, Unit
<1>8. ASSUME UNCHANGED <<lines, lines_count, function_addrs, function_addrs_count, starved>>,
             UNCHANGED <<entry, rd, new>>, at[t] \in Using, at'[t] \in Using \cup {"search", "return"},
             at'[t] \in Using => rd[t] # "bad",
             \A u \in Threads \ {t} : at'[u] = at[u]
      PROVE  UnitsRight' /\ StoresRight' /\ ReadOnceStored'
    <2>1. /\ lines[v] # "null" /\ rd[t] # "null"
          /\ v \notin starved => rd[t] = Right(v).lines
        BY <1>2, <1>8 DEF ReadOnceStored
    <2>2. at'[t] \in Using => rd[t] = "good"
        BY <1>0, <1>8, <2>1 DEF LineStates
    <2>3. at'[t] \notin Storing
        BY <1>8 DEF Using, Storing
    <2> QED BY <1>4, <1>5, <1>8, <2>1, <2>2, <2>3
<1>9. CASE \E pc \in Pcs : Call(t, pc)
    BY <1>6, <1>7, <1>9 DEF Call, Storing, Using, Labels
<1>10. CASE Search(t)
    <2>1. at'[t] = "skip" /\ \A u \in Threads \ {t} :
             at'[u] = at[u] /\ entry'[u] = entry[u] /\ rd'[u] = rd[u]
        BY <1>0, <1>6, <1>10 DEF Search, Labels
    <2>2. UNCHANGED <<unit_fields, new>>
        BY <1>10 DEF Search
    <2> QED BY <1>4, <2>1, <2>2 DEF unit_fields, Unit, Storing, Using
<1>11. CASE SearchMiss(t)
    BY <1>6, <1>7, <1>11 DEF SearchMiss, Storing, Using, Labels
<1>12. CASE Skip(t)
    <2>1. at'[t] \in {"skip", "load"} /\ \A u \in Threads \ {t} :
             at'[u] = at[u] /\ entry'[u] = entry[u] /\ rd'[u] = rd[u]
        BY <1>0, <1>6, <1>12 DEF Skip, Labels
    <2>2. UNCHANGED <<unit_fields, new>>
        BY <1>12 DEF Skip
    <2> QED BY <1>4, <2>1, <2>2 DEF unit_fields, Unit, Storing, Using
<1>13. CASE Load(t)
    <2>1. v \in Units /\ UNCHANGED <<unit_fields, new, entry>> /\ rd' = [rd EXCEPT ![t] = lines[v]]
        BY <1>1, <1>13 DEF Load
    <2>2. at'[t] = IF lines[v] = "null" THEN "read" ELSE "decide"
        BY <1>0, <1>13 DEF Load, Goto
    <2>3. \A u \in Threads \ {t} : at'[u] = at[u]
        BY <1>0, <1>13 DEF Load, Goto
    <2>4. rd'[t] = lines[v] /\ \A u \in Threads \ {t} : rd'[u] = rd[u]
        BY <1>0, <2>1
    <2>5. v \notin starved => lines[v] \in {"null", Right(v).lines}
        BY <1>2, <2>1 DEF UnitsRight
    <2>6. \A u \in Threads : Unit(u)' = Unit(u)
        BY <1>5, <2>1
    <2> QED BY <1>4, <2>1, <2>2, <2>3, <2>4, <2>5, <2>6 DEF unit_fields, Storing, Using
<1>14. CASE ReadFails(t)
    <2>1. /\ v \in Units /\ UNCHANGED <<lines, lines_count, function_addrs, function_addrs_count, entry>>
          /\ rd' = [rd EXCEPT ![t] = "bad"] /\ starved' = starved \cup ({v} \ Useless)
          /\ new' = [new EXCEPT ![t] = [Nothing EXCEPT !.lines = "bad"]]
        BY <1>1, <1>14 DEF ReadFails
    <2>2. at'[t] = "store_count" /\ \A u \in Threads \ {t} : at'[u] = at[u]
        BY <1>6, <1>14 DEF ReadFails, Labels
    <2>3. [Nothing EXCEPT !.lines = "bad"]
              = [lines |-> "bad", count |-> 0, funcs |-> "null", funcs_count |-> 0]
        BY DEF Nothing
    <2>4. /\ new'[t] = [lines |-> "bad", count |-> 0, funcs |-> "null", funcs_count |-> 0]
          /\ rd'[t] = "bad" /\ \A u \in Threads \ {t} : rd'[u] = rd[u] /\ new'[u] = new[u]
        BY <1>0, <2>1, <2>3
    <2>5. v \notin starved' => new'[t] = Right(v)
        BY <2>1, <2>4 DEF Right
    <2>6. \A u \in Threads : Unit(u)' = Unit(u)
        BY <1>5, <2>1
    <2> QED BY <1>4, <2>1, <2>2, <2>4, <2>5, <2>6 DEF Using
<1>15. CASE Read(t)
    <2> DEFINE full == [lines |-> "good", count |-> 1, funcs |-> "set", funcs_count |-> 1]
               bare == [lines |-> "good", count |-> 1, funcs |-> "null", funcs_count |-> 0]
    <2>1. /\ v \in Units \ Useless
          /\ UNCHANGED <<lines, lines_count, function_addrs, function_addrs_count, entry>>
          /\ rd' = [rd EXCEPT ![t] = "good"]
        BY <1>1, <1>15 DEF Read
    <2>2. at'[t] = "store_count" /\ \A u \in Threads \ {t} : at'[u] = at[u]
        BY <1>6, <1>15 DEF Read, Labels
    <2>3. \/ v \in FuncUnits /\ new' = [new EXCEPT ![t] = full] /\ starved' = starved
          \/ new' = [new EXCEPT ![t] = bare] /\ starved' = starved \cup ({v} \cap FuncUnits)
        BY <1>15 DEF Read
    <2>4. \A u \in Threads \ {t} : rd'[u] = rd[u] /\ new'[u] = new[u]
        BY <1>0, <2>1, <2>3
    <2>5. rd'[t] = "good" /\ starved \subseteq starved' /\ new'[t].lines = "good"
        BY <1>0, <2>1, <2>3
    <2>6. v \notin starved' => new'[t] = Right(v)
        BY <1>0, <2>1, <2>3 DEF Right
    <2>7. \A u \in Threads : Unit(u)' = Unit(u)
        BY <1>5, <2>1
    <2> QED BY <1>4, <2>1, <2>2, <2>4, <2>5, <2>6, <2>7 DEF Using
<1>16. CASE StoreCount(t)
    <2>1. /\ at[t] = "store_count" /\ v \in Units
          /\ UNCHANGED <<lines, function_addrs, function_addrs_count, starved, entry, rd, new>>
          /\ lines_count' = [lines_count EXCEPT ![v] = new[t].count]
        BY <1>1, <1>16 DEF StoreCount
    <2>2. at'[t] = "store_funcs" /\ \A u \in Threads \ {t} : at'[u] = at[u]
        BY <1>6, <1>16 DEF StoreCount, Labels
    <2>3. v \notin starved => new[t] = Right(v)
        BY <1>2, <2>1 DEF StoresRight, Storing
    <2>4. \A u \in Units : u \notin starved /\ lines_count'[u] # lines_count[u]
                            => lines_count'[u] = Right(u).count
        BY <1>0, <2>1, <2>3
    <2>5. v \notin starved => lines_count'[v] = Right(v).count
        BY <1>0, <2>1, <2>3
    <2>6. \A u \in Threads : Unit(u)' = Unit(u)
        BY <1>5, <2>1
    <2>7. UnitsRight'
        BY <1>2, <2>1, <2>4 DEF UnitsRight
    <2>8. StoresRight'
        <3> SUFFICES ASSUME NEW u \in Threads, at'[u] \in Storing, Unit(u) \notin starved
                     PROVE  /\ new[u] = Right(Unit(u))
                            /\ at'[u] # "store_count" => lines_count'[Unit(u)] = Right(Unit(u)).count
                            /\ at'[u] \in {"store_funcs_count", "store_lines"} =>
                                  function_addrs[Unit(u)] = Right(Unit(u)).funcs
                            /\ at'[u] = "store_lines" =>
                                  function_addrs_count[Unit(u)] = Right(Unit(u)).funcs_count
            BY <2>1, <2>6 DEF StoresRight
        <3>1. CASE u = t
            BY <2>2, <2>3, <2>5, <3>1
        <3>2. CASE u # t
            <4>1. at'[u] = at[u] /\ Unit(u) \in Units
                BY <1>1, <2>2, <3>2 DEF Storing
            <4> QED BY <1>2, <2>4, <4>1 DEF StoresRight
        <3> QED BY <3>1, <3>2
    <2>9. ReadOnceStored'
        BY <1>2, <2>1, <2>2, <2>6 DEF ReadOnceStored, Storing, Using
    <2> QED BY <2>7, <2>8, <2>9
<1>17. CASE StoreFuncs(t)
    <2>1. /\ at[t] = "store_funcs" /\ v \in Units
          /\ UNCHANGED <<lines, lines_count, function_addrs_count, starved, entry, rd, new>>
          /\ function_addrs' = [function_addrs EXCEPT ![v] = new[t].funcs]
        BY <1>1, <1>17 DEF StoreFuncs
    <2>2. at'[t] = "store_funcs_count" /\ \A u \in Threads \ {t} : at'[u] = at[u]
        BY <1>6, <1>17 DEF StoreFuncs, Labels
    <2>3. v \notin starved => new[t] = Right(v) /\ lines_count[v] = Right(v).count
        BY <1>2, <2>1 DEF StoresRight, Storing
    <2>4. \A u \in Units : u \notin starved /\ function_addrs'[u] # function_addrs[u]
                            => function_addrs'[u] = Right(u).funcs
        BY <1>0, <2>1, <2>3
    <2>5. v \notin starved => function_addrs'[v] = Right(v).funcs
        BY <1>0, <2>1, <2>3
    <2>6. \A u \in Threads : Unit(u)' = Unit(u)
        BY <1>5, <2>1
    <2>7. UnitsRight'
        BY <1>2, <2>1, <2>4 DEF UnitsRight
    <2>8. StoresRight'
        <3> SUFFICES ASSUME NEW u \in Threads, at'[u] \in Storing, Unit(u) \notin starved
                     PROVE  /\ new[u] = Right(Unit(u))
                            /\ at'[u] # "store_count" => lines_count[Unit(u)] = Right(Unit(u)).count
                            /\ at'[u] \in {"store_funcs_count", "store_lines"} =>
                                  function_addrs'[Unit(u)] = Right(Unit(u)).funcs
                            /\ at'[u] = "store_lines" =>
                                  function_addrs_count[Unit(u)] = Right(Unit(u)).funcs_count
            BY <2>1, <2>6 DEF StoresRight
        <3>1. CASE u = t
            BY <2>2, <2>3, <2>5, <3>1
        <3>2. CASE u # t
            <4>1. at'[u] = at[u] /\ Unit(u) \in Units
                BY <1>1, <2>2, <3>2 DEF Storing
            <4> QED BY <1>2, <2>4, <4>1 DEF StoresRight
        <3> QED BY <3>1, <3>2
    <2>9. ReadOnceStored'
        BY <1>2, <2>1, <2>2, <2>6 DEF ReadOnceStored, Storing, Using
    <2> QED BY <2>7, <2>8, <2>9
<1>18. CASE StoreFuncsCount(t)
    <2>1. /\ at[t] = "store_funcs_count" /\ v \in Units
          /\ UNCHANGED <<lines, lines_count, function_addrs, starved, entry, rd, new>>
          /\ function_addrs_count' = [function_addrs_count EXCEPT ![v] = new[t].funcs_count]
        BY <1>1, <1>18 DEF StoreFuncsCount
    <2>2. at'[t] = "store_lines" /\ \A u \in Threads \ {t} : at'[u] = at[u]
        BY <1>6, <1>18 DEF StoreFuncsCount, Labels
    <2>3. v \notin starved => /\ new[t] = Right(v) /\ lines_count[v] = Right(v).count
                              /\ function_addrs[v] = Right(v).funcs
        BY <1>2, <2>1 DEF StoresRight, Storing
    <2>4. \A u \in Units : u \notin starved /\ function_addrs_count'[u] # function_addrs_count[u]
                            => function_addrs_count'[u] = Right(u).funcs_count
        BY <1>0, <2>1, <2>3
    <2>5. v \notin starved => function_addrs_count'[v] = Right(v).funcs_count
        BY <1>0, <2>1, <2>3
    <2>6. \A u \in Threads : Unit(u)' = Unit(u)
        BY <1>5, <2>1
    <2>7. UnitsRight'
        BY <1>2, <2>1, <2>4 DEF UnitsRight
    <2>8. StoresRight'
        <3> SUFFICES ASSUME NEW u \in Threads, at'[u] \in Storing, Unit(u) \notin starved
                     PROVE  /\ new[u] = Right(Unit(u))
                            /\ at'[u] # "store_count" => lines_count[Unit(u)] = Right(Unit(u)).count
                            /\ at'[u] \in {"store_funcs_count", "store_lines"} =>
                                  function_addrs[Unit(u)] = Right(Unit(u)).funcs
                            /\ at'[u] = "store_lines" =>
                                  function_addrs_count'[Unit(u)] = Right(Unit(u)).funcs_count
            BY <2>1, <2>6 DEF StoresRight
        <3>1. CASE u = t
            BY <2>2, <2>3, <2>5, <3>1
        <3>2. CASE u # t
            <4>1. at'[u] = at[u] /\ Unit(u) \in Units
                BY <1>1, <2>2, <3>2 DEF Storing
            <4> QED BY <1>2, <2>4, <4>1 DEF StoresRight
        <3> QED BY <3>1, <3>2
    <2>9. ReadOnceStored'
        BY <1>2, <2>1, <2>2, <2>6 DEF ReadOnceStored, Storing, Using
    <2> QED BY <2>7, <2>8, <2>9
<1>19. CASE StoreLines(t)
    <2>1. /\ at[t] = "store_lines" /\ v \in Units
          /\ UNCHANGED <<lines_count, function_addrs, function_addrs_count, starved, entry, rd>>
          /\ lines' = [lines EXCEPT ![v] = new[t].lines]
          /\ new' = [new EXCEPT ![t] = Nothing]
        BY <1>1, <1>19 DEF StoreLines
    <2>2. at'[t] = "decide" /\ \A u \in Threads \ {t} : at'[u] = at[u]
        BY <1>6, <1>19 DEF StoreLines, Labels
    <2>3. v \notin starved => /\ new[t] = Right(v) /\ lines_count[v] = Right(v).count
                              /\ function_addrs[v] = Right(v).funcs
                              /\ function_addrs_count[v] = Right(v).funcs_count
        BY <1>2, <2>1 DEF StoresRight, Storing
    <2>4. new[t].lines # "null" /\ rd[t] = new[t].lines
        BY <1>2, <2>1 DEF ReadOnceStored, Storing
    <2>5. lines'[v] = new[t].lines /\ \A u \in Units \ {v} : lines'[u] = lines[u]
        BY <1>0, <2>1
    <2>6. \A u \in Threads : Unit(u)' = Unit(u)
        BY <1>5, <2>1
    <2>7. UnitsRight'
        <3> SUFFICES ASSUME NEW u \in Units \ starved
                     PROVE  /\ lines_count[u] \in {0, Right(u).count}
                            /\ function_addrs[u] \in {"null", Right(u).funcs}
                            /\ function_addrs_count[u] \in {0, Right(u).funcs_count}
                            /\ lines'[u] \in {"null", Right(u).lines}
                            /\ lines'[u] # "null" =>
                                  /\ lines_count[u] = Right(u).count
                                  /\ function_addrs[u] = Right(u).funcs
                                  /\ function_addrs_count[u] = Right(u).funcs_count
            BY <2>1 DEF UnitsRight
        <3>1. CASE u = v
            BY <2>3, <2>5, <3>1
        <3>2. CASE u # v
            BY <1>2, <2>5, <3>2 DEF UnitsRight
        <3> QED BY <3>1, <3>2
    <2>8. \A u \in Threads \ {t} : new'[u] = new[u]
        BY <1>0, <2>1
    <2>9. StoresRight'
        BY <1>2, <2>1, <2>2, <2>6, <2>8 DEF StoresRight, Storing
    <2>10. ReadOnceStored'
        <3> SUFFICES ASSUME NEW u \in Threads
                     PROVE  /\ at'[u] \in Storing => new'[u].lines # "null" /\ rd[u] = new'[u].lines
                            /\ at'[u] \in Using =>
                                  /\ lines'[Unit(u)] # "null" /\ rd[u] # "null"
                                  /\ Unit(u) \notin starved => rd[u] = Right(Unit(u)).lines
                            /\ at'[u] \in Using \ {"decide"} => rd[u] = "good"
            BY <2>1, <2>6 DEF ReadOnceStored
        <3>1. CASE u = t
            BY <2>2, <2>3, <2>4, <2>5, <3>1 DEF Storing
        <3>2. CASE u # t
            <4>1. at'[u] = at[u] /\ (at[u] \in Using => Unit(u) \in Units)
                BY <1>1, <2>2, <3>2 DEF Using
            <4>2. at[u] \in Using => lines'[Unit(u)] # "null"
                BY <1>2, <2>4, <2>5, <4>1 DEF ReadOnceStored
            <4> QED BY <1>2, <2>8, <3>2, <4>1, <4>2 DEF ReadOnceStored
        <3> QED BY <3>1, <3>2
    <2> QED BY <2>7, <2>9, <2>10
<1>20. CASE Decide(t)
    <2>1. /\ at[t] = "decide" /\ UNCHANGED <<unit_fields, entry, rd, new>>
          /\ \/ rd[t] = "bad" /\ (Goto(t, "search") \/ Goto(t, "return"))
             \/ rd[t] # "bad" /\ Goto(t, "find_line")
        BY <1>20 DEF Decide, Answer
    <2>2. /\ \A u \in Threads \ {t} : at'[u] = at[u]
          /\ \/ rd[t] = "bad" /\ at'[t] \in {"search", "return"}
             \/ rd[t] # "bad" /\ at'[t] = "find_line"
        BY <1>6, <2>1 DEF Labels
    <2> QED BY <1>8, <2>1, <2>2 DEF unit_fields, Using
<1>21. CASE FindLine(t) \/ NameFile(t) \/ NameFileFails(t) \/ FindCount(t) \/ FindFunction(t)
    <2>1. /\ at[t] \in Using \ {"decide"}
          /\ UNCHANGED <<lines, lines_count, function_addrs, function_addrs_count, starved>>
          /\ UNCHANGED <<entry, rd, new>>
          /\ \E l \in {"name_file", "find_count", "find_function", "return"} : Goto(t, l)
        BY <1>21 DEF FindLine, NameFile, NameFileFails, FindCount, FindFunction, Answer,
                     Using, unit_fields
    <2>2. /\ \A u \in Threads \ {t} : at'[u] = at[u]
          /\ at'[t] \in {"name_file", "find_count", "find_function", "return"}
        BY <1>6, <2>1 DEF Labels
    <2>3. rd[t] = "good"
        BY <1>2, <2>1 DEF ReadOnceStored
    <2> QED BY <1>8, <2>1, <2>2, <2>3 DEF Using
<1>22. CASE Return(t)
    <2>1. at'[t] = "idle" /\ \A u \in Threads \ {t} :
             at'[u] = at[u] /\ entry'[u] = entry[u] /\ rd'[u] = rd[u]
        BY <1>0, <1>6, <1>22 DEF Return, Labels
    <2>2. UNCHANGED <<unit_fields, new>>
        BY <1>22 DEF Return
    <2> QED BY <1>4, <2>1, <2>2 DEF unit_fields, Unit, Storing, Using
<1> QED BY <1>9, <1>10, <1>11, <1>12, <1>13, <1>14, <1>15, <1>16, <1>17, <1>18,
           <1>19, <1>20, <1>21, <1>22 DEF Step

LEMMA NextIInv == IInv /\ [Next]_vars => IInv'
<1> SUFFICES ASSUME IInv, [Next]_vars PROVE IInv'
    OBVIOUS
<1>1. CASE Next
    <2>1. PICK t \in Threads : Step(t) \/ \E pc \in Pcs : Call(t, pc)
        BY <1>1 DEF Next
    <2> QED BY <2>1, TypeStep, RightStep DEF IInv
<1>2. CASE UNCHANGED vars
    BY <1>2 DEF vars, unit_fields, IInv, TypeOK, EntryContainsPc, UnitsRight,
                StoresRight, ReadOnceStored, Contains, Unit
<1> QED BY <1>1, <1>2

LEMMA AlwaysIInv == Spec => []IInv
BY InitIInv, NextIInv, PTL DEF Spec

-----------------------------------------------------------------------------
(* The theorems.                                                           *)

\* The fields of a unit a thread searches are those that go with its lines.
LEMMA IInvFields == IInv => FieldsBeforeLines
<1> SUFFICES ASSUME IInv, NEW t \in Threads,
                    at[t] \in {"find_line", "name_file", "find_count", "find_function"},
                    Unit(t) \notin starved
             PROVE  /\ lines_count[Unit(t)] = 1
                    /\ Unit(t) \in FuncUnits => function_addrs_count[Unit(t)] = 1
                    /\ function_addrs_count[Unit(t)] # 0 =>
                          function_addrs[Unit(t)] # "null"
    BY DEF FieldsBeforeLines
<1> DEFINE u == Unit(t)
<1>1. u \in Units
    BY UnitInUnits DEF IInv, EntryContainsPc, Contains
<1>2. lines[u] # "null" /\ rd[t] = "good" /\ rd[t] = Right(u).lines
    BY DEF IInv, ReadOnceStored, Using
<1>3. /\ lines_count[u] = Right(u).count
      /\ function_addrs[u] = Right(u).funcs
      /\ function_addrs_count[u] = Right(u).funcs_count
    BY <1>1, <1>2 DEF IInv, UnitsRight
<1>4. /\ Right(u).count = 1
      /\ u \in FuncUnits => Right(u).funcs_count = 1
      /\ Right(u).funcs_count # 0 => Right(u).funcs = "set"
    BY <1>1, <1>2, RightType
<1> QED BY <1>3, <1>4

\* dwarf_lookup_pc, for any number of threads: a lookup works on a range that
\* contains its pc, and finds the counts and functions of a unit stored before
\* the lines it loaded.
THEOREM LookupIsSafe == Spec => []LookupSafe
<1>1. IInv => LookupSafe
    BY IInvFields DEF IInv, LookupSafe
<1> QED BY <1>1, AlwaysIInv, PTL

\* The store of lines in dwarf_lookup_pc: what is stored is never "not read",
\* so no unit is read again once any thread has read it.
THEOREM ReadOnce == Spec => NeverUnread
<1>1. IInv /\ [Next]_vars => [\A u \in Units : lines[u] # "null" => lines'[u] # "null"]_lines
    <2> SUFFICES ASSUME IInv, Next, NEW u \in Units, lines[u] # "null" PROVE lines'[u] # "null"
        BY DEF vars, unit_fields
    <2>1. PICK t \in Threads : Step(t) \/ \E pc \in Pcs : Call(t, pc)
        BY DEF Next
    <2>2. CASE StoreLines(t)
        <3>1. new[t].lines # "null"
            BY <2>2 DEF StoreLines, IInv, ReadOnceStored, Storing
        <3>2. lines \in [Units -> LineStates] /\ lines' = [lines EXCEPT ![Unit(t)] = new[t].lines]
            BY <2>2 DEF StoreLines, IInv, TypeOK
        <3> QED BY <3>1, <3>2
    <2>3. CASE ~StoreLines(t)
        <3>1. UNCHANGED lines
            BY <2>1, <2>3 DEF Step, Call, Search, SearchMiss, Skip, Load, ReadFails, Read,
                  StoreCount, StoreFuncs, StoreFuncsCount, Decide, FindLine, NameFile,
                  NameFileFails, FindCount, FindFunction, Return, unit_fields
        <3> QED BY <3>1
    <2> QED BY <2>2, <2>3
<1> QED BY <1>1, AlwaysIInv, PTL DEF Spec, NeverUnread
=============================================================================
