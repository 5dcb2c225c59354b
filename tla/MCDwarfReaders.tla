---------------------------- MODULE MCDwarfReaders ----------------------------
(***************************************************************************)
(* DwarfReaders on small debug sections, compared with what DwarfTree says *)
(* they mean: units whose ranges nest, touch and overlap; line programs of *)
(* a few instructions; functions with their names here or elsewhere and    *)
(* with calls inlined into them; abbreviations with any codes; entries     *)
(* that cannot be read; and allocations that fail.                         *)
(***************************************************************************)
EXTENDS DwarfReaders

T == INSTANCE DwarfTree
Q == INSTANCE SequencesExt

Entity(tag, id, attrs, kids) == [tag |-> tag, id |-> id, attrs |-> attrs, kids |-> kids]
UnitOf(tree, n) == [tree |-> tree, version |-> 4, abbrevs_found |-> TRUE, absolute |-> FALSE, codes |-> [i \in 1..n |-> i]]
Op(op, n) == [op |-> op, n |-> n]
File(name, dir) == [name |-> name, dir |-> dir, absolute |-> FALSE]
Lines(code) ==
    [version |-> 3, dirs |-> <<"inc">>, files |-> <<File("a.c", 0), File("b.h", 1)>>,
     min |-> 1, maxops |-> 1, base |-> 0, range |-> 2, opcode_base |-> 10, code |-> code]
Debug(us, ranges, lines) ==
    [base |-> 0, threaded |-> TRUE, shortage |-> 0, lookups |-> 1, pcs |-> 0..7, bad |-> FALSE, dropped |-> FALSE,
     units |-> us, ranges |-> ranges, lines |-> lines]
Low(a) == <<"low_pc", "addr", a>>
HighAt(a) == <<"high_pc", "addr", a>>
HighAfter(n) == <<"high_pc", "data4", n>>
InList(i) == <<"ranges", "sec_offset", i>>
StmtList(n) == <<"stmt_list", "sec_offset", n>>
Named(x) == <<"name", "string", x>>
In(x) == <<"comp_dir", "strp", x>>

-----------------------------------------------------------------------------
(* Units and their ranges                                                  *)

Sequence(r, line) ==
    <<Op("set_address", r[1]), Op("advance_line", line - 1), Op("copy", 0), Op("advance_pc", r[2] - r[1]), Op("end_sequence", 0)>>
Program2(rs, line) == Lines(Q!FlattenSeq([i \in DOMAIN rs |-> Sequence(rs[i], line + i)]))
Head2(k) == <<Named(IF k = 1 THEN "a.c" ELSE "z.c"), In("src"), StmtList(k - 1)>>

\* A unit with these ranges: by bounds, by a list, or by its functions.
RangedUnit(k, rs, how) ==
    CASE how = "bounds" -> UnitOf(Entity("compile_unit", 0, Head2(k) \o <<Low(rs[1][1]), HighAt(rs[1][2])>>, << >>), 1)
      [] how = "list" -> UnitOf(Entity("compile_unit", 0, <<InList(k)>> \o Head2(k), << >>), 1)
      [] how = "functions" ->
           UnitOf(Entity("compile_unit", 0, Head2(k),
                         [i \in DOMAIN rs |-> Entity("subprogram", i, <<Named("f"), Low(rs[i][1]), HighAfter(rs[i][2] - rs[i][1])>>, << >>)]),
                  1 + Len(rs))
TwoUnits(as, bs, how, base) ==
    [Debug(<<RangedUnit(1, as, how), RangedUnit(2, bs, how)>>,
              <<[entries |-> as, ends |-> TRUE], [entries |-> bs, ends |-> TRUE]>>,
              <<Program2(as, 10), Program2(bs, 20)>>) EXCEPT !.base = base, !.pcs = base..(base + 5)]
Pairs == {<<i, j>> \in (0..4) \X (1..5) : i < j}
RangeCases ==
    {<<"ranges", <<p>>, <<q>>, "bounds", 0>> : p \in Pairs, q \in Pairs}
    \cup {<<"ranges", <<p, q>>, <<r>>, how, 1>> :
             p \in {<<0, 1>>, <<2, 4>>}, q \in {<<1, 2>>, <<2, 3>>, <<3, 5>>}, r \in {<<0, 4>>, <<1, 2>>, <<3, 4>>}, how \in {"list", "functions"}}

-----------------------------------------------------------------------------
(* Line programs                                                           *)

\* Of the special ones 11 goes one line further, 14 one line and two addresses.
Instructions == {
    Op("special", 11), Op("special", 14), Op("copy", 0), Op("advance_pc", 2), Op("const_add_pc", 0), Op("fixed_advance_pc", 1),
    Op("advance_line", 3), Op("set_file", 2), Op("set_column", 0),
    [op |-> "define_file", name |-> "c.h", dir |-> 1, absolute |-> FALSE]}
Some == {Op("special", 14), Op("copy", 0), Op("advance_pc", 2), Op("advance_line", 3), Op("set_file", 2)}
Codes == {<<a, b>> : a, b \in Instructions} \cup {<<a, b, c>> : a, b, c \in Some}
Start(address) == <<Op("set_address", address), Op("copy", 0)>>
Stop(n) == <<Op("advance_pc", n), Op("end_sequence", 0)>>
LineUnit == UnitOf(Entity("compile_unit", 0, Head2(1) \o <<Low(0), HighAfter(14)>>, << >>), 1)
LineProgram(code, maxops) == [Lines(code) EXCEPT !.range = IF Len(code) > 8 THEN 120 ELSE 2, !.maxops = maxops]

\* Two sequences, neither of which has addresses of the other, or a last row
\* without addresses.
Second(code, start) == Start(2) \o code \o Stop(1) \o Start(start) \o Stop(2)
Apart(code) ==
    LET ss == T!LineSequences(LineUnit, LineProgram(code, 1))
        From(x) == x.rows[1].address
    IN ss[1].end <= From(ss[2]) \/ ss[2].end <= From(ss[1])
LineCases ==
    {<<"lines", Start(2) \o code \o Stop(1), base, 1>> : code \in Codes, base \in {3}}
    \cup {<<"lines", Start(2) \o code \o Stop(2), 0, 2>> : code \in Codes}
    \cup {<<"lines", code, 0, 1>> :
            code \in {c \in {Second(<<a, b>>, start) : a, b \in Instructions, start \in {0, 5, 7, 9}} : Apart(c)}}

OneUnit(code, base, maxops) ==
    [Debug(<<LineUnit>>, << >>, <<LineProgram(code, maxops)>>) EXCEPT !.base = base, !.pcs = {base + p : p \in {2, 4, 5, 7}}]

-----------------------------------------------------------------------------
(* Functions                                                               *)

Linkage(x) == <<"linkage_name", "string", x>>
Of(id) == <<"specification", "ref4", id>>
From(id) == <<"abstract_origin", "ref4", id>>
Indirectly(a) == Append(a, "indirect")
NamesOfF == <<
    <<Named("f")>>, <<Named("f"), Linkage("_f")>>, <<Linkage("_f"), Named("f")>>,
    <<Of(20)>>, <<Named("f"), Of(21)>>, <<From(22)>>, <<From(23), Named("f")>>, << >>,
    <<Indirectly(Named("f"))>>, <<<<"specification", "ref_addr", 20>>, <<"name", "strp", "f">>>>,
    <<<<"frame_base", "exprloc", 0>>, <<"location", "block1", 0>>, <<"external", "flag_present", 0>>, Indirectly(Of(20))>> >>
Declared == <<
    Entity("subprogram", 20, <<Named("d")>>, << >>), Entity("subprogram", 21, <<Named("d"), Linkage("_d")>>, << >>),
    Entity("subprogram", 22, <<Of(20)>>, << >>), Entity("subprogram", 23, <<Named("e"), Of(21)>>, << >>)>>
BoundsOfF == [addr |-> <<Low(1), HighAt(6)>>, offset |-> <<HighAfter(5), Low(1)>>, ranges |-> <<InList(1)>>, none |-> << >>]
Lists == <<[entries |-> <<<<1, 3>>, <<3, 4>>, <<255, 2>>, <<2, 4>>>>, ends |-> TRUE], [entries |-> <<<<2, 3>>, <<5, 6>>>>, ends |-> TRUE]>>

Call(file, line) == <<<<"call_file", "data1", file>>, <<"call_line", "udata", line>>>>
Inlined(id, attrs, bounds, kids) == Entity("inlined_subroutine", id, attrs \o bounds, kids)
G == Inlined(2, <<From(20)>> \o Call(2, 7), <<Low(2), HighAt(4)>>, << >>)
H == Inlined(3, <<Named("h")>> \o Call(1, 9), <<Low(2), HighAfter(1)>>, << >>)
Inside == <<
    << >>, <<G>>, <<[G EXCEPT !.kids = <<H>>]>>, <<Entity("lexical_block", 4, <<Low(1), HighAt(5)>>, <<G>>)>>,
    <<H, Inlined(5, <<From(21)>> \o Call(0, 8), <<Low(3), HighAt(5)>>, << >>)>>,
    <<Inlined(2, << >>, <<Low(2), HighAt(4)>>, <<H>>)>>,
    <<G, Entity("subprogram", 6, <<Named("l"), Low(4), HighAt(5)>>, << >>)>>,
    <<Inlined(2, <<From(20)>> \o Call(2, 7), <<InList(2)>>, <<H>>)>>,
    <<Entity("variable", 7, <<Named("v")>>, << >>), Inlined(2, <<From(20)>>, << >>, <<H>>)>>,
    <<Entity("subprogram", 6, <<Named("e"), Low(1), HighAt(6)>>, << >>)>> >>

FunctionUnit(names, bounds, inside, codes) ==
    LET f == Entity("subprogram", 1, NamesOfF[names] \o BoundsOfF[bounds], Inside[inside])
        k == Entity("namespace", 8, << >>, <<Entity("subprogram", 9, <<Named("k"), Low(7), HighAt(8)>>, << >>)>>)
    IN [UnitOf(Entity("compile_unit", 0, Head2(1) \o <<Low(0), HighAt(9)>>, <<f, k>> \o Declared), 20) EXCEPT !.codes = codes]
FunctionLines == Lines(<<Op("set_address", 0), Op("special", 11), Op("special", 15), Op("advance_pc", 7), Op("end_sequence", 0)>>)
InOrder == [i \in 1..20 |-> i]
Functions(names, bounds, inside, codes) ==
    [Debug(<<FunctionUnit(names, bounds, inside, codes)>>, Lists, <<FunctionLines>>) EXCEPT !.base = 1, !.pcs = {2, 3, 4, 6}]
FunctionCases == {<<"functions", n, b, i, InOrder>> : n \in DOMAIN NamesOfF, b \in DOMAIN BoundsOfF, i \in DOMAIN Inside}
CodeCases ==
    {<<"functions", 4, "addr", 3, codes>> :
        codes \in {[i \in 1..20 |-> 21 - i], [i \in 1..20 |-> 100 * i], [i \in 1..20 |-> IF i < 10 THEN i ELSE 7 * i]}}

-----------------------------------------------------------------------------
(* Sections that cannot be read, and too little memory                     *)

\* Two units, the second with functions too, looked up one after the other.
SecondUnit ==
    UnitOf(Entity("compile_unit", 30, Head2(2) \o <<Low(10), HighAfter(2)>>,
                  <<Entity("subprogram", 31, <<Named("m"), Low(10), HighAfter(2)>>, <<Inlined(32, <<Named("n")>> \o Call(1, 4), <<Low(11), HighAt(12)>>, << >>)>>)>>), 3)
SecondLines == Lines(<<Op("set_address", 10), Op("special", 11), Op("special", 13), Op("advance_pc", 1), Op("end_sequence", 0)>>)
Both(names, bounds, inside) ==
    [Debug(<<FunctionUnit(names, bounds, inside, InOrder), SecondUnit>>, Lists, <<FunctionLines, SecondLines>>)
        EXCEPT !.lookups = 2, !.pcs = {2, 7, 11}]

\* One thing wrong in the first unit, which must not make the answers wrong.
Faults == {"version 1", "version 5", "form", "indirect form", "string", "abbreviation", "abbreviations", "call file", "list", "endless list",
           "no lines", "lines version", "directory", "file", "defined file", "operand"}
Attribute(m, a) == [m EXCEPT !.units[1].tree.kids[1].attrs = Append(@, a)]
Spoilt(m, fault) ==
    CASE fault = "version 1" -> [m EXCEPT !.units[1].version = 1]
      [] fault = "version 5" -> [m EXCEPT !.units[2].version = 5]
      [] fault = "form" -> Attribute(m, <<"name", "line_strp", "x">>)
      [] fault = "indirect form" -> Attribute(m, <<"name", "strx", "x", "indirect">>)
      [] fault = "string" -> Attribute(m, <<"linkage_name", "strp", OutsideSection>>)
      [] fault = "abbreviation" -> [m EXCEPT !.dropped = TRUE]
      [] fault = "abbreviations" -> [m EXCEPT !.units[2].abbrevs_found = FALSE]
      [] fault = "call file" -> [m EXCEPT !.units[1].tree.kids[1].kids = <<Inlined(2, <<Named("g")>> \o Call(9, 7), <<Low(2), HighAt(4)>>, << >>)>>]
      [] fault = "list" -> Attribute(m, InList(9))
      [] fault = "endless list" -> [Attribute(m, InList(2)) EXCEPT !.ranges[2].ends = FALSE]
      [] fault = "no lines" -> [m EXCEPT !.units[1].tree.attrs[3] = StmtList(7)]
      [] fault = "lines version" -> [m EXCEPT !.lines[1].version = 5]
      [] fault = "directory" -> [m EXCEPT !.lines[1].files[2].dir = 3]
      [] fault = "file" -> [m EXCEPT !.lines[1].code[3] = Op("set_file", 5)]
      [] fault = "defined file" -> [m EXCEPT !.lines[1].code[3] = [op |-> "define_file", name |-> "x.h", dir |-> 4, absolute |-> FALSE]]
      [] fault = "operand" -> [m EXCEPT !.lines[1].code[4] = Op("truncated", 0)]
\* The last abbreviation of the first unit is missing.
Dropped(m) == [m EXCEPT !.units[1].abbrevs = Q!Front(@)]
Laid(m) == IF m.dropped THEN Dropped(T!Laid(m)) ELSE T!Laid(m)

FaultCases == {<<"faults", fault, threaded>> : fault \in Faults, threaded \in BOOLEAN}
MemoryCases ==
    {<<"memory", n, b, i, threaded>> : n \in {1, 4}, b \in DOMAIN BoundsOfF, i \in {3, 5}, threaded \in BOOLEAN}

-----------------------------------------------------------------------------
MCCases == RangeCases \cup LineCases \cup FunctionCases \cup CodeCases \cup FaultCases \cup MemoryCases
Meant(c) ==
    CASE c[1] = "ranges" -> TwoUnits(c[2], c[3], c[4], c[5])
      [] c[1] = "lines" -> OneUnit(c[2], c[3], c[4])
      [] c[1] = "functions" -> Functions(c[2], c[3], c[4], c[5])
      [] c[1] = "faults" -> [Both(1, "offset", 3) EXCEPT !.bad = TRUE, !.threaded = c[3]]
      [] c[1] = "memory" -> [Both(c[2], c[3], c[4]) EXCEPT !.shortage = 1, !.threaded = c[5]]
MCSections(c) == [case |-> c] @@ (IF c[1] = "faults" THEN Laid(Spoilt(Meant(c), c[2])) ELSE T!Laid(Meant(c)))
MCRanges == {r \in [low : 0..20, high : 0..20, u : 1..2] : r.low <= r.high}
MCPcs == 0..20
MCNames == T!Alphabetical
\* A search goes on.
Fair == ReadersSpec /\ WF_readersVars(FindRange)

-----------------------------------------------------------------------------
Right(u) == LET m == Meant(module.case) IN T!Expected(m, m.units[u], pc)
Reported == doing = "lookup" /\ at = "ready" /\ asked > 0

\* The ranges that contain the pc inside of those of other units that do.
InRange(r, s) == s.low <= r.low /\ r.high <= s.high /\ (r.low # s.low \/ r.high # s.high)
Containing == {i \in DOMAIN addrs : Contains(addrs[i], pc)}
Innermost == {i \in Containing : \A j \in Containing : addrs[j].u = addrs[i].u \/ InRange(addrs[i], addrs[j])}

\* bsearch can search the tables: that of ranges, and those of the functions.
Searchable(table) == \A i, j \in DOMAIN table : i < j /\ table[j].high <= pc => table[i].high <= pc
AllSearchable ==
    /\ Searchable(addrs)
    /\ cu # 0 => Searchable(read[cu].functions)
    /\ \A f \in DOMAIN heap : Searchable(heap[f].addrs)

\* Where nothing is wrong with the sections, a lookup reports the file, the
\* line and the functions, inlined calls included, that they say: those of the
\* innermost range of the pc, whichever units were read before.
ReportsRight ==
    Reported /\ spare = module.shortage /\ ~module.bad /\ AllSearchable =>
        \A i \in Innermost : LET right == Right(addrs[i].u) IN right # << >> => frames = right

\* What can be missing of an answer: everything but the place, or all of it.
Lacks(answer, right) ==
    \/ answer = << >>
    \/ Len(answer) = 1 /\ answer[1].name = "" /\ (answer[1].line = 0 \/ answer[1] = [right[1] EXCEPT !.name = ""])
\* A row for which there was no memory is missing, and the one before is found.
RowLost == spare # module.shortage /\ cu # 0 /\ read[cu].lines = "good" /\ Len(read[cu].rows) < 2
Blurred(answer) == IF answer = << >> THEN answer ELSE [answer EXCEPT ![1].file = NoFile, ![1].line = 0]
\* Where a section cannot be read or memory runs out, a lookup, this one and
\* the ones after it, reports less than it should and nothing else; but for
\* the row that is lost when the vector of lines cannot grow (see the findings).
NeverWrong ==
    Reported /\ (spare # module.shortage \/ module.bad) /\ AllSearchable =>
        \A i \in Innermost :
            LET right == Right(addrs[i].u) IN
            \/ right = << >>
            \/ frames = right \/ Lacks(frames, right)
            \/ RowLost /\ Blurred(frames) = Blurred(right)
===============================================================================
