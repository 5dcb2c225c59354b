---------------------------- MODULE DwarfLookup ----------------------------
(***************************************************************************)
(* dwarf_lookup_pc of backtrace/dwarf.c, for one module: find the          *)
(* compilation unit of a program counter, read the unit's line and function*)
(* information if no one has, store it in the unit for all threads, and    *)
(* search it.  Nothing is locked: threads that meet an unread unit each    *)
(* read it, and each stores the four fields one by one, lines last.        *)
(*                                                                         *)
(* Line tables are abstracted to what their readers tell apart: not read   *)
(* ("null"), unreadable ("bad", the pointer -1 of the code) or read        *)
(* ("good"); a count is 0 or 1 for any other number.                       *)
(***************************************************************************)
EXTENDS Integers, Sequences

CONSTANTS
    Threads,
    Units,     \* the compilation units of the module
    Addrs,     \* ddata->addrs: the sorted ranges, [low, high, u]
    Pcs,       \* the program counters looked up
    Useless,   \* units whose line information cannot be read
    FuncUnits, \* units with at least one named function
    Gaps,      \* <<unit, pc>> pairs the unit's line table does not cover
    MayRunOut  \* threads whose allocations may fail

ASSUME AddrsAssumption ==
    /\ Addrs \in Seq([low : Nat, high : Nat, u : Units])
    /\ \A i, j \in 1..Len(Addrs) : i < j => Addrs[i].low <= Addrs[j].low
    /\ Pcs \subseteq Nat
    /\ Useless \subseteq Units /\ FuncUnits \subseteq Units
    /\ MayRunOut \subseteq Threads

VARIABLES
    lines, lines_count, function_addrs, function_addrs_count, \* of each unit
    abs_filename, \* whether a unit's is set
    starved,   \* history: the units a read of which ended for lack of memory
    at,        \* where each thread is
    key,       \* the pc it looks up
    entry,     \* its position in Addrs, 0 before the search
    rd,        \* its local copy of the unit's lines
    new,       \* what it read and is storing
    new_data,  \* its local of that name
    answer     \* what it reported

unit_fields ==
    <<lines, lines_count, function_addrs, function_addrs_count, abs_filename,
      starved>>
vars == <<unit_fields, at, key, entry, rd, new, new_data, answer>>

Nothing == [lines |-> "null", count |-> 0, funcs |-> "null", funcs_count |-> 0]

Init ==
    /\ lines = [u \in Units |-> "null"]
    /\ lines_count = [u \in Units |-> 0]
    /\ function_addrs = [u \in Units |-> "null"]
    /\ function_addrs_count = [u \in Units |-> 0]
    /\ abs_filename = [u \in Units |-> FALSE]
    /\ starved = {}
    /\ at = [t \in Threads |-> "idle"]
    /\ key = [t \in Threads |-> 0]
    /\ entry = [t \in Threads |-> 0]
    /\ rd = [t \in Threads |-> "null"]
    /\ new = [t \in Threads |-> Nothing]
    /\ new_data = [t \in Threads |-> FALSE]
    /\ answer = [t \in Threads |-> "none"]

Goto(t, label) == at' = [at EXCEPT ![t] = label]
Unit(t) == Addrs[entry[t]].u
Contains(i, pc) == i \in 1..Len(Addrs) /\ Addrs[i].low <= pc /\ pc < Addrs[i].high

\* Ranges that end before the pc come before those that do not, as bsearch
\* demands of its table; ranges nested in others break this.
Partitioned(pc) ==
    \A i, j \in 1..Len(Addrs) :
        i < j /\ Addrs[j].high <= pc => Addrs[i].high <= pc

\* "use the last one": from the entry bsearch returned, over the entries that
\* follow it and contain the pc.
Forward(i, pc) ==
    CHOOSE k \in i..Len(Addrs) :
        /\ \A j \in i..k : Contains(j, pc)
        /\ ~Contains(k + 1, pc)

-----------------------------------------------------------------------------
(* Finding the unit                                                        *)

Call(t, pc) ==
    /\ at[t] = "idle"
    /\ key' = [key EXCEPT ![t] = pc]
    /\ answer' = [answer EXCEPT ![t] = "none"]
    /\ Goto(t, "search")
    /\ UNCHANGED <<unit_fields, entry, rd, new, new_data>>

\* unit_addrs_search leaves it open which of the ranges that contain the pc
\* bsearch returns.
Search(t) ==
    /\ at[t] = "search"
    /\ \E i \in 1..Len(Addrs) :
          /\ Contains(i, key[t])
          /\ entry' = [entry EXCEPT ![t] = Forward(i, key[t])]
          /\ rd' = [rd EXCEPT ![t] = lines[Addrs[Forward(i, key[t])].u]]
    /\ Goto(t, "skip")
    /\ UNCHANGED <<unit_fields, key, new, new_data, answer>>

\* No range contains the pc, or bsearch went past the one that does: module
\* RangeSearch has the search step by step.
SearchMiss(t) ==
    /\ at[t] = "search"
    /\ \/ \A i \in 1..Len(Addrs) : ~Contains(i, key[t])
       \/ ~Partitioned(key[t])
    /\ answer' = [answer EXCEPT ![t] = "not_found"]
    /\ Goto(t, "return")
    /\ UNCHANGED <<unit_fields, key, entry, rd, new, new_data>>

\* Mutant: a bad unit is never left.
SkipStays(t) ==
    /\ at[t] = "skip"
    /\ rd' = [rd EXCEPT ![t] = lines[Unit(t)]]
    /\ IF Contains(entry[t] - 1, key[t]) /\ rd'[t] = "bad"
       THEN UNCHANGED <<at, entry>>
       ELSE Goto(t, "load") /\ UNCHANGED entry
    /\ UNCHANGED <<unit_fields, key, new, new_data, answer>>

\* "Skip units with no useful line number information by walking backward."
Skip(t) ==
    /\ at[t] = "skip"
    /\ rd' = [rd EXCEPT ![t] = lines[Unit(t)]]
    /\ IF Contains(entry[t] - 1, key[t]) /\ rd'[t] = "bad"
       THEN entry' = [entry EXCEPT ![t] = @ - 1] /\ UNCHANGED at
       ELSE Goto(t, "load") /\ UNCHANGED entry
    /\ UNCHANGED <<unit_fields, key, new, new_data, answer>>

Load(t) ==
    /\ at[t] = "load"
    /\ rd' = [rd EXCEPT ![t] = lines[Unit(t)]]
    /\ new_data' = [new_data EXCEPT ![t] = FALSE]
    /\ Goto(t, IF lines[Unit(t)] = "null" THEN "read" ELSE "decide")
    /\ UNCHANGED <<unit_fields, key, entry, new, answer>>

-----------------------------------------------------------------------------
(* Reading a unit and storing what was read                                *)

\* read_line_info fails: lines is the pointer -1, and no functions are read.
ReadFails(t) ==
    /\ at[t] = "read"
    /\ Unit(t) \in Useless \/ t \in MayRunOut
    /\ new' = [new EXCEPT ![t] = [Nothing EXCEPT !.lines = "bad"]]
    /\ rd' = [rd EXCEPT ![t] = "bad"]
    /\ starved' = starved \cup ({Unit(t)} \ Useless)
    /\ Goto(t, "store_count")
    /\ UNCHANGED <<lines, lines_count, function_addrs, function_addrs_count,
                   abs_filename, key, entry, new_data, answer>>

\* read_line_info succeeds; read_function_info finds the unit's functions, or
\* returns early and leaves none.
Read(t) ==
    /\ at[t] = "read"
    /\ Unit(t) \notin Useless
    /\ \/ /\ Unit(t) \in FuncUnits
          /\ new' = [new EXCEPT ![t] = [lines |-> "good", count |-> 1,
                                        funcs |-> "set", funcs_count |-> 1]]
          /\ UNCHANGED starved
       \/ /\ Unit(t) \notin FuncUnits \/ t \in MayRunOut
          /\ new' = [new EXCEPT ![t] = [lines |-> "good", count |-> 1,
                                        funcs |-> "null", funcs_count |-> 0]]
          /\ starved' = starved \cup ({Unit(t)} \cap FuncUnits)
    /\ rd' = [rd EXCEPT ![t] = "good"]
    /\ new_data' = [new_data EXCEPT ![t] = TRUE]
    /\ Goto(t, "store_count")
    /\ UNCHANGED <<lines, lines_count, function_addrs, function_addrs_count,
                   abs_filename, key, entry, answer>>

StoreCount(t) ==
    /\ at[t] = "store_count"
    /\ lines_count' = [lines_count EXCEPT ![Unit(t)] = new[t].count]
    /\ Goto(t, "store_funcs")
    /\ UNCHANGED <<lines, function_addrs, function_addrs_count, abs_filename, starved,
                   key, entry, rd, new, new_data, answer>>

\* Mutant: lines is stored before the functions.
StoreFuncsLate(t) ==
    /\ at[t] = "store_funcs"
    /\ lines' = [lines EXCEPT ![Unit(t)] = new[t].lines]
    /\ function_addrs_count' =
          [function_addrs_count EXCEPT ![Unit(t)] = new[t].funcs_count]
    /\ Goto(t, "store_funcs_count")
    /\ UNCHANGED <<lines_count, function_addrs, abs_filename, starved,
                   key, entry, rd, new, new_data, answer>>

StoreFuncs(t) ==
    /\ at[t] = "store_funcs"
    /\ function_addrs' = [function_addrs EXCEPT ![Unit(t)] = new[t].funcs]
    /\ Goto(t, "store_funcs_count")
    /\ UNCHANGED <<lines, lines_count, function_addrs_count, abs_filename, starved,
                   key, entry, rd, new, new_data, answer>>

StoreFuncsCount(t) ==
    /\ at[t] = "store_funcs_count"
    /\ function_addrs_count' =
          [function_addrs_count EXCEPT ![Unit(t)] = new[t].funcs_count]
    /\ Goto(t, "store_lines")
    /\ UNCHANGED <<lines, lines_count, function_addrs, abs_filename, starved,
                   key, entry, rd, new, new_data, answer>>

\* Mutant: a failed read is stored as if there had been none.
StoreLinesForgets(t) ==
    /\ at[t] = "store_lines"
    /\ lines' = [lines EXCEPT ![Unit(t)] = IF new[t].lines = "bad" THEN "null"
                                          ELSE new[t].lines]
    /\ new' = [new EXCEPT ![t] = Nothing]
    /\ Goto(t, "decide")
    /\ UNCHANGED <<lines_count, function_addrs, function_addrs_count,
                   abs_filename, starved, key, entry, rd, new_data, answer>>

StoreLines(t) ==
    /\ at[t] = "store_lines"
    /\ lines' = [lines EXCEPT ![Unit(t)] = new[t].lines]
    /\ new' = [new EXCEPT ![t] = Nothing]
    /\ Goto(t, "decide")
    /\ UNCHANGED <<lines_count, function_addrs, function_addrs_count,
                   abs_filename, starved, key, entry, rd, new_data, answer>>

-----------------------------------------------------------------------------
(* Searching the unit                                                      *)

Answer(t, a) == answer' = [answer EXCEPT ![t] = a] /\ Goto(t, "return")

\* No line information: look again if this call has just read it, else report
\* the pc with no file, no line and no function.
Decide(t) ==
    /\ at[t] = "decide"
    /\ IF rd[t] = "bad"
       THEN IF new_data[t]
            THEN Goto(t, "search") /\ UNCHANGED answer
            ELSE Answer(t, "nothing")
       ELSE Goto(t, "find_line") /\ UNCHANGED answer
    /\ UNCHANGED <<unit_fields, key, entry, rd, new, new_data>>

\* The search for the line takes the lines this thread loaded and the count
\* the unit has now.
FindLine(t) ==
    /\ at[t] = "find_line"
    /\ Goto(t, IF lines_count[Unit(t)] = 0 \/ <<Unit(t), key[t]>> \in Gaps
               THEN "name_file" ELSE "find_count")
    /\ UNCHANGED <<unit_fields, key, entry, rd, new, new_data, answer>>

\* No line covers the pc: the unit's own file is reported.
NameFile(t) ==
    /\ at[t] = "name_file"
    /\ abs_filename' = [abs_filename EXCEPT ![Unit(t)] = TRUE]
    /\ Answer(t, "file")
    /\ UNCHANGED <<lines, lines_count, function_addrs, function_addrs_count, starved,
                   key, entry, rd, new, new_data>>

NameFileFails(t) ==
    /\ at[t] = "name_file"
    /\ t \in MayRunOut /\ ~abs_filename[Unit(t)]
    /\ Answer(t, "not_found")
    /\ UNCHANGED <<unit_fields, key, entry, rd, new, new_data>>

FindCount(t) ==
    /\ at[t] = "find_count"
    /\ IF function_addrs_count[Unit(t)] = 0
       THEN Answer(t, "line")
       ELSE Goto(t, "find_function") /\ UNCHANGED answer
    /\ UNCHANGED <<unit_fields, key, entry, rd, new, new_data>>

\* A function covers the pc, or none does.
FindFunction(t) ==
    /\ at[t] = "find_function"
    /\ \E a \in {"line", "function"} : Answer(t, a)
    /\ UNCHANGED <<unit_fields, key, entry, rd, new, new_data>>

Return(t) ==
    /\ at[t] = "return"
    /\ entry' = [entry EXCEPT ![t] = 0]
    /\ key' = [key EXCEPT ![t] = 0]
    /\ rd' = [rd EXCEPT ![t] = "null"]
    /\ new_data' = [new_data EXCEPT ![t] = FALSE]
    /\ answer' = [answer EXCEPT ![t] = "none"]
    /\ Goto(t, "idle")
    /\ UNCHANGED <<unit_fields, new>>

-----------------------------------------------------------------------------
Step(t) ==
    \/ Search(t)   \/ SearchMiss(t) \/ Skip(t)       \/ Load(t)
    \/ ReadFails(t) \/ Read(t)      \/ StoreCount(t) \/ StoreFuncs(t)
    \/ StoreFuncsCount(t)           \/ StoreLines(t) \/ Decide(t)
    \/ FindLine(t) \/ NameFile(t)   \/ NameFileFails(t)
    \/ FindCount(t) \/ FindFunction(t) \/ Return(t)

Next == \E t \in Threads : Step(t) \/ \E pc \in Pcs : Call(t, pc)

Spec == Init /\ [][Next]_vars
FairSpec == Spec /\ \A t \in Threads : WF_vars(Step(t))

-----------------------------------------------------------------------------
(* Correctness                                                             *)

LineStates == {"null", "bad", "good"}
Labels == {"idle", "search", "skip", "load", "read", "store_count",
           "store_funcs", "store_funcs_count", "store_lines", "decide",
           "find_line", "name_file", "find_count", "find_function", "return"}
Answers == {"none", "not_found", "nothing", "file", "line", "function"}

\* Every variable has its type, and a thread past the search an entry.
TypeOK ==
    /\ lines \in [Units -> LineStates]
    /\ lines_count \in [Units -> 0..1]
    /\ function_addrs \in [Units -> {"null", "set"}]
    /\ function_addrs_count \in [Units -> 0..1]
    /\ abs_filename \in [Units -> BOOLEAN]
    /\ starved \subseteq Units
    /\ at \in [Threads -> Labels]
    /\ key \in [Threads -> Pcs \cup {0}]
    /\ entry \in [Threads -> 0..Len(Addrs)]
    /\ \A t \in Threads :
          at[t] \notin {"idle", "search", "return"} => entry[t] # 0
    /\ rd \in [Threads -> LineStates]
    /\ new \in [Threads -> [lines : LineStates, count : 0..1,
                            funcs : {"null", "set"}, funcs_count : 0..1]]
    /\ new_data \in [Threads -> BOOLEAN]
    /\ answer \in [Threads -> Answers]

\* A lookup that has a unit has one whose range contains the pc, also after
\* walking back over units without lines.
EntryContainsPc ==
    \A t \in Threads :
        at[t] \notin {"idle", "search", "return"} => Contains(entry[t], key[t])

\* "We do have to write the lines field last, so that the acquire-loads above
\* ensure that the other fields are set": a thread that searches a unit finds
\* the counts and the functions that go with the lines it loaded, whoever read
\* them, and never searches a null table.  "If another thread is
\* simultaneously writing, it presumably read the same information": where one
\* read ended early for lack of memory it did not, and fields may be mixed.
FieldsBeforeLines ==
    \A t \in Threads :
        at[t] \in {"find_line", "name_file", "find_count", "find_function"}
        /\ Unit(t) \notin starved =>
            /\ lines_count[Unit(t)] = 1
            /\ Unit(t) \in FuncUnits => function_addrs_count[Unit(t)] = 1
            /\ function_addrs_count[Unit(t)] # 0 =>
                  function_addrs[Unit(t)] # "null"

\* Whether a unit is readable is found out once: what is stored is never taken
\* back to "not read", so no unit is read over and over.
NeverUnread == [][\A u \in Units : lines[u] # "null" => lines'[u] # "null"]_lines

\* A lookup never reads what does not belong to its pc or is not complete.
LookupSafe == TypeOK /\ EntryContainsPc /\ FieldsBeforeLines

\* Every lookup ends.
LookupsEnd == \A t \in Threads : at[t] # "idle" ~> at[t] = "idle"
=============================================================================
