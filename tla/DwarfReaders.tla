----------------------------- MODULE DwarfReaders -----------------------------
(***************************************************************************)
(* The readers of backtrace/dwarf.c as one lookup after another uses them. *)
(* The table of address ranges is built and sorted, RangeSearch finds a    *)
(* program counter in it, and dwarf_lookup_pc reads the lines and the      *)
(* functions of its unit when it meets the unit for the first time, and    *)
(* reports where the program counter is.                                   *)
(* First read_function_info: the entries of a unit once more, for the      *)
(* names and addresses of its functions, and within each for the calls     *)
(* that were inlined into it.  Without threads the vector that gathers the *)
(* functions is kept from one unit to the next.                            *)
(***************************************************************************)
EXTENDS DwarfLines

LOCAL S == INSTANCE SequencesExt

CONSTANT NamesInOrder   \* the names of functions, as strcmp orders them
ASSUME NamesDiffer == S!IsInjective(NamesInOrder)

VARIABLES
    at_die,  \* the next entry of the unit
    calls,   \* the calls of read_function_entry: [base, vec, owner]
    vecs,    \* the function vectors they fill, [low, high, fn]; the first is that of the unit
    heap,    \* the functions: [name, file, line, addrs]
    fvec     \* what ddata->fvec holds between units

functionVars == <<at_die, calls, vecs, heap, fvec>>

FunctionsInit == at_die = 1 /\ calls = << >> /\ vecs = << >> /\ heap = << >> /\ fvec = << >>

KeepLines == Keep /\ UNCHANGED <<cu, header, ip, reg, rows>>
Dies == module.units[cu].dies
AbbrevAt(i) == LookupAbbrev(units[cu].abbrevs, Dies[i].code)
AttrsAt(i) == Attributes(AbbrevAt(i), Dies[i].vals)
Top == calls[Len(calls)]

ReadFunctionInfo ==
    /\ doing = "functions"
    /\ at_die' = 1
    /\ calls' = <<[base |-> 0, vec |-> 1, owner |-> 0]>>
    /\ vecs' = <<IF module.threaded THEN << >> ELSE fvec>>
    /\ doing' = "function" /\ Allocates
    /\ KeepLines /\ UNCHANGED <<read, heap, fvec>>

\* The unit has its lines and these functions.
Stored(functions) == read' = [read EXCEPT ![cu] = [@ EXCEPT !.lines = "good", !.functions = functions]]

\* read_function_entry returns 0: what was gathered is dropped, or stays in the
\* shared vector.
Abandon ==
    /\ Stored(<< >>)
    /\ fvec' = IF module.threaded THEN fvec ELSE vecs[1]
    /\ calls' = << >> /\ doing' = "lookup"
    /\ KeepLines /\ UNCHANGED <<at_die, vecs>>

\* function_addrs_compare: as the ranges of units are ordered, and those that
\* are equal by the names of their functions.
Rank(fn) == CHOOSE i \in DOMAIN NamesInOrder : NamesInOrder[i] = heap[fn].name
Precedes(a, b) ==
    \/ a.low < b.low
    \/ a.low = b.low /\ a.high > b.high
    \/ a.low = b.low /\ a.high = b.high /\ Rank(a.fn) < Rank(b.fn)
Ordered(vec) == SortSeq(vec, Precedes)

\* A call ends: the inlined calls of a function are complete.
MoreDies == at_die <= Len(Dies)
LeaveFunction ==
    /\ doing = "function" /\ (MoreDies => Dies[at_die].code = 0)
    /\ at_die' = IF MoreDies THEN at_die + 1 ELSE at_die
    /\ IF Len(calls) > 1
       THEN /\ calls' = S!Front(calls)
            /\ IF Top.owner # 0
               THEN /\ heap' = [heap EXCEPT ![Top.owner] = [@ EXCEPT !.addrs = Ordered(vecs[Top.vec])]]
                    /\ vecs' = S!Front(vecs)
               ELSE UNCHANGED <<heap, vecs>>
            /\ UNCHANGED <<doing, read, fvec>>
       ELSE IF at_die' <= Len(Dies)
       THEN calls' = <<[Top EXCEPT !.base = 0]>> /\ UNCHANGED <<doing, read, fvec, heap, vecs>>
       ELSE /\ Stored(Ordered(vecs[1]))
            /\ fvec' = IF module.threaded THEN fvec ELSE << >>
            /\ calls' = << >> /\ doing' = "lookup" /\ UNCHANGED <<heap, vecs>>
    /\ Allocates /\ KeepLines

-----------------------------------------------------------------------------
(* The name of a function                                                  *)

\* References to other units are not followed.
Refers(a) ==
    a.name \in {"specification", "abstract_origin"} /\ a.form \notin {"ref_addr", "ref_sig8"} /\ a.e \in {"uint", "ref_unit"}

\* read_referenced_name: "" for NULL.  A linkage name ends the search; an
\* origin is not looked at here.
RECURSIVE ReferencedName(_)
ReferencedName(i) ==
    IF i \notin 1..Len(Dies) \/ Dies[i].code = 0 \/ AbbrevAt(i) = NoAbbrev THEN ""
    ELSE LET attrs == AttrsAt(i)
             links == {j \in 1..Len(attrs) : attrs[j].name = "linkage_name" /\ attrs[j].e = "string"}
             Name(n, a) ==
                 IF a.name = "name" /\ a.e = "string" THEN a.v
                 ELSE IF a.name = "specification" /\ Refers(a)
                 THEN LET r == ReferencedName(a.v) IN IF r # "" THEN r ELSE n
                 ELSE n
             Until(j) == SubSeq(attrs, 1, j)
             first == CHOOSE j \in links : \A k \in links : j <= k
         IN IF links # {} /\ ~Unread(Until(first)) THEN attrs[first].v
            ELSE IF Unread(attrs) THEN ""
            ELSE S!FoldLeft(Name, "", attrs)

NameOf(attrs) ==
    LET Name(n, a) ==
            IF a.name = "linkage_name" /\ a.e = "string" THEN a.v
            ELSE IF a.name = "name" /\ a.e = "string" THEN IF n = "" THEN a.v ELSE n
            ELSE IF Refers(a) THEN LET r == ReferencedName(a.v) IN IF r # "" THEN r ELSE n
            ELSE n
    IN S!FoldLeft(Name, "", attrs)

-----------------------------------------------------------------------------
(* read_function_entry                                                     *)

\* add_function_range: ranges of a function that are next to each other are one.
AddFunctionRange(vec, fn, p) ==
    LET low == p.low + module.base
        high == p.high + module.base
        n == Len(vec)
    IN IF vec # << >> /\ low \in {vec[n].high, vec[n].high + 1} /\ vec[n].fn = fn
       THEN IF high > vec[n].high THEN [vec EXCEPT ![n] = [@ EXCEPT !.high = high]] ELSE vec
       ELSE Append(vec, [low |-> low, high |-> high, fn |-> fn])
AddFunctionRanges(vec, fn, pairs) == S!FoldLeft(LAMBDA v, p : AddFunctionRange(v, fn, p), vec, pairs)

IsFunction(tag) == tag \in {"subprogram", "entry_point", "inlined_subroutine"}

\* The base for the ranges of the entries in a unit.
BaseOf(abbrev, attrs, base) ==
    IF abbrev.tag = "compile_unit" THEN Value(attrs, "low_pc", {"address"}, base) ELSE base

CallFile(attrs) == Value(attrs, "call_file", {"uint"}, 0)
BadCallFile(attrs) == \E i \in 1..Len(attrs) : attrs[i].name = "call_file" /\ attrs[i].e = "uint" /\ attrs[i].v > Len(header.files)

FunctionOf(attrs) ==
    [name |-> NameOf(attrs), addrs |-> << >>,
     file |-> IF CallFile(attrs) = 0 THEN NoFile ELSE header.files[CallFile(attrs)],
     line |-> Value(attrs, "call_line", {"uint"}, 0)]

\* The call returns to the next entry, or enters the children of this one: to
\* gather the calls inlined into it if it is a function that is kept.
Descend(abbrev, base, kept) ==
    LET now == [calls EXCEPT ![Len(calls)] = [@ EXCEPT !.base = base]]
        new == IF kept THEN [base |-> base, vec |-> Len(vecs) + 1, owner |-> Len(heap) + 1]
               ELSE [Top EXCEPT !.base = base, !.owner = 0]
    IN calls' = IF abbrev.children THEN Append(now, new) ELSE now

Into(abbrev) == IF abbrev.tag = "inlined_subroutine" THEN Top.vec ELSE 1

\* It returns 0 when some ranges are in its vector already.
PartlyRead(gathered, function) ==
    /\ Stored(<< >>)
    /\ heap' = Append(heap, function)
    /\ fvec' = IF module.threaded THEN fvec ELSE gathered[1]
    /\ calls' = << >> /\ doing' = "lookup"
    /\ KeepLines /\ UNCHANGED <<at_die, vecs>>

\* The ranges of a function that is kept; there may be no memory for one more.
Gather(abbrev, function, base, endless, pairs) ==
    LET into == Into(abbrev)
        Added(n) == AddFunctionRanges(vecs[into], Len(heap) + 1, SubSeq(pairs, 1, n))
    IN \/ \E n \in 0..Len(pairs) - 1 :
             /\ RunsOut /\ Len(Added(n + 1)) > Len(Added(n))
             /\ PartlyRead([vecs EXCEPT ![into] = Added(n)], function)
       \/ endless /\ Allocates /\ PartlyRead([vecs EXCEPT ![into] = Added(Len(pairs))], function)
       \/ /\ ~endless
          /\ vecs' = LET v == [vecs EXCEPT ![into] = Added(Len(pairs))]
                     IN IF abbrev.children THEN Append(v, << >>) ELSE v
          /\ heap' = Append(heap, function)
          /\ Descend(abbrev, base, TRUE)
          /\ at_die' = at_die + 1
          /\ Allocates /\ KeepLines /\ UNCHANGED <<doing, read, fvec>>

\* An entry whose attributes are read; function is what they say of one.
Entered(abbrev, attrs, function, base) ==
    LET is == IsFunction(abbrev.tag)
        listed == HasRanges(attrs)
        kept == is /\ function.name # "" /\ (listed \/ HasBounds(attrs))
        offset == RangesOf(attrs)
    IN IF kept /\ listed /\ ~InSection(offset) THEN Abandon /\ UNCHANGED heap /\ Allocates
       ELSE IF ~kept
       THEN /\ Descend(abbrev, base, FALSE)
            /\ at_die' = at_die + 1
            /\ Allocates /\ KeepLines /\ UNCHANGED <<doing, read, vecs, heap, fvec>>
       ELSE Gather(abbrev, function, base, listed /\ Endless(offset),
                   IF listed THEN Listed(module.ranges[offset].entries, base) ELSE <<Bounds(attrs)>>)

\* A function is allocated before its attributes are read.
FunctionEntry ==
    /\ doing = "function" /\ MoreDies /\ Dies[at_die].code # 0
    /\ LET Known(abbrev, attrs) ==
              \/ IsFunction(abbrev.tag) /\ RunsOut /\ Abandon /\ UNCHANGED heap
              \/ IF Unread(attrs) \/ (IsFunction(abbrev.tag) /\ BadCallFile(attrs)) THEN Abandon /\ UNCHANGED heap /\ Allocates
                 ELSE Entered(abbrev, attrs, FunctionOf(attrs), BaseOf(abbrev, attrs, Top.base))
       IN IF AbbrevAt(at_die) = NoAbbrev THEN Abandon /\ UNCHANGED heap /\ Allocates
          ELSE Known(AbbrevAt(at_die), AttrsAt(at_die))

ReadFunctions == ReadFunctionInfo \/ LeaveFunction \/ FunctionEntry

-----------------------------------------------------------------------------
(* Searching the functions                                                 *)

\* bsearch, and on to the last of the ranges that contain the pc.
RECURSIVE Bsearch(_, _, _, _)
Bsearch(table, p, from, to) ==
    LET m == (from + to) \div 2
    IN IF from >= to THEN 0
       ELSE IF p < table[m + 1].low THEN Bsearch(table, p, from, m)
       ELSE IF p >= table[m + 1].high THEN Bsearch(table, p, m + 1, to)
       ELSE m + 1
RECURSIVE LastOf(_, _, _)
LastOf(table, p, i) ==
    IF i < Len(table) /\ Contains(table[i + 1], p) THEN LastOf(table, p, i + 1) ELSE i
FunctionAt(table, p) ==
    LET i == Bsearch(table, p, 0, Len(table)) IN IF i = 0 THEN 0 ELSE table[LastOf(table, p, i)].fn

\* report_inlined_functions: the innermost call first, and for each the place
\* it was called from.
Frame(file, line, name) == [file |-> file, line |-> line, name |-> name]
RECURSIVE Frames(_, _, _, _)
Frames(p, fn, file, line) ==
    LET inlined == FunctionAt(heap[fn].addrs, p)
    IN IF inlined = 0 THEN <<Frame(file, line, heap[fn].name)>>
       ELSE Append(Frames(p, inlined, file, line), Frame(heap[inlined].file, heap[inlined].line, heap[fn].name))
-----------------------------------------------------------------------------
(* Lookups                                                                 *)

VARIABLES
    asked,  \* how many lookups there were
    frames  \* what the last one reported

readersVars == <<vars, unitsVars, linesVars, functionVars, asked, frames>>

ReadersInit == Init /\ UnitsInit /\ LinesInit /\ FunctionsInit /\ asked = 0 /\ frames = << >>

Ask(p) ==
    /\ doing = "lookup" /\ asked < module.lookups
    /\ Lookup(p)
    /\ asked' = asked + 1 /\ frames' = << >> /\ cu' = 0
    /\ UNCHANGED <<unitsVars, header, ip, reg, rows, read, functionVars>>

FindRange ==
    /\ doing = "lookup" /\ (GoLeft \/ GoRight \/ Hit \/ Miss \/ Forward)
    /\ UNCHANGED <<unitsVars, linesVars, functionVars, asked, frames>>

\* Units without useful lines are left by going back.
RECURSIVE Skip(_)
Skip(i) ==
    IF i > 1 /\ Contains(addrs[i - 1], pc) /\ read[addrs[i].u].lines = "bad" THEN Skip(i - 1) ELSE i

UseUnit ==
    /\ doing = "lookup" /\ at = "done" /\ entry # 0 /\ cu = 0
    /\ cu' = addrs[Skip(entry)].u
    /\ doing' = IF read[cu'].lines = "null" THEN "header" ELSE "lookup"
    /\ Keep /\ UNCHANGED <<spare, header, ip, reg, rows, read, functionVars, asked, frames>>

\* The name of the unit, in its directory.
AbsFilename ==
    LET u == units[cu]
    IN IF u.filename = "" THEN NoFile
       ELSE IF module.units[cu].absolute \/ u.comp_dir = "" THEN Alone(u.filename)
       ELSE Path(u.comp_dir, u.filename)

\* Of rows, none before the pc: the unit is named, which takes an allocation.
JoinsFilename == entry # 0 /\ read[cu].lines = "good" /\ RowAt(read[cu].rows, pc) = NoRow /\ Len(AbsFilename) = 2

Answer ==
    LET row == RowAt(read[cu].rows, pc)
        fn == FunctionAt(read[cu].functions, pc)
    IN IF read[cu].lines = "bad" THEN <<Frame(NoFile, 0, "")>>
       ELSE IF row = NoRow THEN <<Frame(AbsFilename, 0, "")>>
       ELSE IF fn = 0 THEN <<Frame(row.file, row.line, "")>>
       ELSE Frames(pc, fn, row.file, row.line)

Report ==
    /\ doing = "lookup" /\ at = "done" /\ (entry # 0 => cu # 0)
    /\ Done
    /\ \/ frames' = (IF entry = 0 THEN << >> ELSE Answer) /\ Allocates
       \/ JoinsFilename /\ RunsOut /\ frames' = << >>   \* as if nothing were found
    /\ UNCHANGED <<module, doing, unit, die, depth, pending, after, units, linesVars, functionVars, asked>>

\* The sections cannot be read; all that can be asked was.
End == doing = "failed" \/ (doing = "lookup" /\ at = "ready" /\ asked = module.lookups)

Work ==
    \/ BuildMap /\ UNCHANGED <<linesVars, functionVars, asked, frames>>
    \/ FindRange \/ UseUnit \/ Report
    \/ ReadLines /\ UNCHANGED <<functionVars, asked, frames>>
    \/ ReadFunctions /\ UNCHANGED <<asked, frames>>
ReadersNext == Work \/ (\E p \in Pcs : p \in module.pcs /\ Ask(p)) \/ (End /\ UNCHANGED readersVars)

ReadersSpec == ReadersInit /\ [][ReadersNext]_readersVars
===============================================================================
