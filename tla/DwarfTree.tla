------------------------------ MODULE DwarfTree ------------------------------
(***************************************************************************)
(* Debug information as a compiler means it: units that are trees of       *)
(* entries, and line programs; how they are laid out in the sections that  *)
(* DwarfReaders reads; and what they say of an address, as the DWARF       *)
(* standard (versions 2 to 4) has it.                                      *)
(*                                                                         *)
(* An entry is [tag, id, attrs, kids]; an attribute is <<name, form,       *)
(* value>>, or <<name, form, value, "indirect">> where the form is given   *)
(* with the value; a reference names the id of an entry of the unit.       *)
(***************************************************************************)
EXTENDS Integers, Sequences, SequencesExt, FiniteSetsExt

\* The names that functions have here, in alphabetical order.
Alphabetical == <<"_d", "_f", "d", "e", "f", "g", "h", "k", "l", "m", "n", "x">>

\* A module: [base, units, ranges, lines]; a unit: [tree, version, codes], where
\* codes[i] is the code for the abbreviation of its i-th entry.
End == [tag |-> "end"]
RECURSIVE Preorder(_)
Preorder(e) ==
    <<e>> \o (IF e.kids = << >> THEN << >>
              ELSE FlattenSeq([i \in DOMAIN e.kids |-> Preorder(e.kids[i])]) \o <<End>>)
References == {"specification", "abstract_origin"}

\* A unit in its sections.
Encoded(u) ==
    LET all == Preorder(u.tree)
        Place(id) == CHOOSE i \in DOMAIN all : all[i].tag # "end" /\ all[i].id = id
        Plain(a) == IF a[1] \in References /\ a[2] \notin {"ref_addr", "ref_sig8"} THEN Place(a[3]) ELSE a[3]
        Indirect(a) == Len(a) = 4
        V(a) == IF Indirect(a) THEN [form |-> a[2], v |-> Plain(a)] ELSE Plain(a)
        F(a) == IF Indirect(a) THEN "indirect" ELSE a[2]
        Number(i) == Cardinality({j \in 1..i : all[j].tag # "end"})
        real == SelectSeq(all, LAMBDA e : e.tag # "end")
    IN [version |-> u.version, abbrevs_found |-> u.abbrevs_found, absolute |-> u.absolute,
        abbrevs |-> [i \in DOMAIN real |->
                       [code |-> u.codes[i], tag |-> real[i].tag, children |-> real[i].kids # << >>,
                        attrs |-> [k \in DOMAIN real[i].attrs |-> [name |-> real[i].attrs[k][1], form |-> F(real[i].attrs[k])]]]],
        dies |-> [i \in DOMAIN all |->
                    IF all[i].tag = "end" THEN [code |-> 0, vals |-> << >>]
                    ELSE [code |-> u.codes[Number(i)], vals |-> [k \in DOMAIN all[i].attrs |-> V(all[i].attrs[k])]]]]
Laid(m) == [units |-> [i \in DOMAIN m.units |-> Encoded(m.units[i])]] @@ m

-----------------------------------------------------------------------------
(* What an entry says                                                      *)

Attr(e, name) == {i \in DOMAIN e.attrs : e.attrs[i][1] = name}
Says(e, name) == Attr(e, name) # {}
What(e, name) == e.attrs[CHOOSE i \in Attr(e, name) : TRUE][3]
IsAddress(e, name) == \E i \in Attr(e, name) : e.attrs[i][2] = "addr"

Entries(u) == SelectSeq(Preorder(u.tree), LAMBDA e : e.tag # "end")
IsFunction(e) == e.tag \in {"subprogram", "entry_point", "inlined_subroutine"}

\* The addresses of a list: pairs are relative to a base, which begins as the
\* lowest address of the unit.
Highest == 255
RECURSIVE ListAddresses(_, _)
ListAddresses(list, base) ==
    IF list = << >> THEN {}
    ELSE IF list[1][1] = Highest THEN ListAddresses(Tail(list), list[1][2])
    ELSE (list[1][1] + base)..(list[1][2] + base - 1) \cup ListAddresses(Tail(list), base)
UnitBase(u) == IF Says(u.tree, "low_pc") THEN What(u.tree, "low_pc") ELSE 0
Addresses(m, u, e) ==
    IF Says(e, "ranges") THEN ListAddresses(m.ranges[What(e, "ranges")].entries, UnitBase(u))
    ELSE IF Says(e, "low_pc") /\ Says(e, "high_pc")
    THEN What(e, "low_pc")..(IF IsAddress(e, "high_pc") THEN What(e, "high_pc") - 1 ELSE What(e, "low_pc") + What(e, "high_pc") - 1)
    ELSE {}
UnitAddresses(m, u) ==
    IF Says(u.tree, "ranges") \/ (Says(u.tree, "low_pc") /\ Says(u.tree, "high_pc")) THEN Addresses(m, u, u.tree)
    ELSE LET all == Entries(u)
              functions == {i \in DOMAIN all : all[i].tag = "subprogram"}
          IN UNION {Addresses(m, u, all[i]) : i \in functions}

\* A linkage name before the one of what it refers to, before its own name.
RECURSIVE Name(_, _)
Name(u, e) ==
    LET refs == {i \in DOMAIN e.attrs : e.attrs[i][1] \in References /\ e.attrs[i][2] \notin {"ref_addr", "ref_sig8"}}
        all == Entries(u)
        Target(i) == all[CHOOSE k \in DOMAIN all : all[k].id = e.attrs[i][3]]
        far == IF refs = {} THEN "" ELSE Name(u, Target(CHOOSE i \in refs : TRUE))
    IN IF Says(e, "linkage_name") THEN What(e, "linkage_name")
       ELSE IF far # "" THEN far
       ELSE IF Says(e, "name") THEN What(e, "name") ELSE ""

\* The functions at an address, the outermost first.
RECURSIVE ChainFrom(_, _, _, _)
ChainFrom(m, u, e, p) ==
    LET here == IF IsFunction(e) /\ Name(u, e) # "" /\ p \in Addresses(m, u, e) THEN <<e>> ELSE << >>
    IN here \o FlattenSeq([i \in DOMAIN e.kids |-> ChainFrom(m, u, e.kids[i], p)])

\* Of functions with the same code the one whose name is last counts, wherever it is.
Place(name) == CHOOSE n \in DOMAIN Alphabetical : Alphabetical[n] = name
Counts(code, place) ==
    CHOOSE i \in DOMAIN code :
        /\ code[i] = code[Max(DOMAIN code)]
        /\ \A j \in DOMAIN code : code[j] = code[i] => place[j] <= place[i]
UpToNext(all, own, first) == SubSeq(all, first, Min({i \in own : i > first} \cup {Len(all) + 1}) - 1)

\* Calls are inlined into the innermost function that is not.
FromInnermost(m, u, all) ==
    LET own == {i \in DOMAIN all : all[i].tag # "inlined_subroutine"}
        code == [i \in own |-> Addresses(m, u, all[i])]
        place == [i \in own |-> Place(Name(u, all[i]))]
    IN IF own = {} THEN all ELSE UpToNext(all, own, Counts(code, place))
Chain(m, u, p) == FromInnermost(m, u, ChainFrom(m, u, u.tree, p))

-----------------------------------------------------------------------------
(* What a line program says                                                *)

FileName(u, dirs, f) ==
    LET comp == IF Says(u.tree, "comp_dir") THEN What(u.tree, "comp_dir") ELSE ""
    IN IF f.absolute \/ (f.dir = 0 /\ comp = "") THEN <<f.name>> ELSE <<IF f.dir = 0 THEN comp ELSE dirs[f.dir], f.name>>

\* The state machine of section 6.2: sequences, each of rows and an end.
StartRow(u, l) == [address |-> 0, op_index |-> 0, line |-> 1, file |-> IF l.files = << >> THEN << >> ELSE FileName(u, l.dirs, l.files[1])]
Moved(l, r, n) ==
    [r EXCEPT !.address = @ + l.min * ((r.op_index + n) \div l.maxops), !.op_index = (r.op_index + n) % l.maxops]
Do(u, l, s, i) ==
    LET r == s.row
        Set(row) == [s EXCEPT !.row = row]
        Emit(row) == [s EXCEPT !.row = row, !.rows = Append(@, row)]
        n == IF i.op = "special" THEN i.n - l.opcode_base ELSE 255 - l.opcode_base
    IN CASE i.op = "special" -> Emit([Moved(l, r, n \div l.range) EXCEPT !.line = @ + l.base + (n % l.range)])
         [] i.op = "copy" -> Emit(r)
         [] i.op = "advance_pc" -> Set(Moved(l, r, i.n))
         [] i.op = "const_add_pc" -> Set(Moved(l, r, n \div l.range))
         [] i.op = "fixed_advance_pc" -> Set([r EXCEPT !.address = @ + i.n, !.op_index = 0])
         [] i.op = "advance_line" -> Set([r EXCEPT !.line = @ + i.n])
         [] i.op = "set_address" -> Set([r EXCEPT !.address = i.n, !.op_index = 0])
         [] i.op = "set_file" -> Set([r EXCEPT !.file = IF i.n = 0 THEN << >> ELSE FileName(u, l.dirs, l.files[i.n])])
         [] i.op = "define_file" -> Set([r EXCEPT !.file = FileName(u, l.dirs, i)])
         [] i.op = "end_sequence" ->
              [row |-> StartRow(u, l), rows |-> << >>, done |-> Append(s.done, [rows |-> s.rows, end |-> r.address])]
         [] OTHER -> s
LineSequences(u, l) ==
    FoldLeft(LAMBDA s, i : Do(u, l, s, i), [row |-> StartRow(u, l), rows |-> << >>, done |-> << >>], l.code).done

LinesOf(m, u) ==
    IF Says(u.tree, "stmt_list") /\ What(u.tree, "stmt_list") < Len(m.lines) THEN LineSequences(u, m.lines[What(u.tree, "stmt_list") + 1]) ELSE << >>
Covers(s, p) == s.rows # << >> /\ s.rows[1].address <= p /\ p < s.end
RowFor(s, p) == s.rows[Max({i \in DOMAIN s.rows : s.rows[i].address <= p})]

-----------------------------------------------------------------------------
(* What is to be reported of an address                                    *)

Unspecified == << >>
Reported(file, line, name) == [file |-> file, line |-> line, name |-> name]
CallFile(m, u, e) ==
    IF ~Says(e, "call_file") \/ What(e, "call_file") = 0 THEN << >>
    ELSE LET l == m.lines[What(u.tree, "stmt_list") + 1] IN FileName(u, l.dirs, l.files[What(e, "call_file")])
CallLine(e) == IF Says(e, "call_line") THEN What(e, "call_line") ELSE 0

\* A row, and the functions that were inlined at it, the outermost first.
Told(m, u, row, chain) ==
    LET n == Len(chain)
    IN IF n = 0 THEN <<Reported(row.file, row.line, "")>>
       ELSE [k \in 1..n |->
               IF k = 1 THEN Reported(row.file, row.line, Name(u, chain[n]))
               ELSE Reported(CallFile(m, u, chain[n - k + 2]), CallLine(chain[n - k + 2]), Name(u, chain[n - k + 1]))]

\* Of an address of a unit that exactly one sequence of lines has.
Expected(m, u, p) ==
    LET at == p - m.base
        ss == LinesOf(m, u)
        covering == {i \in DOMAIN ss : Covers(ss[i], at)}
        row == RowFor(ss[CHOOSE i \in covering : TRUE], at)
    IN IF at \notin UnitAddresses(m, u) \/ Cardinality(covering) # 1 THEN Unspecified
       ELSE Told(m, u, row, Chain(m, u, at))
===============================================================================
