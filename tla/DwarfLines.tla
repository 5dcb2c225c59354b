------------------------------ MODULE DwarfLines ------------------------------
(***************************************************************************)
(* read_line_info of backtrace/dwarf.c: when a program counter of a unit   *)
(* is looked up for the first time, the program that makes the table of    *)
(* its lines is run.  The table is sorted by address; of several rows of   *)
(* an address the last one made is found.                                  *)
(*                                                                         *)
(* An instruction is a record; its number and how its operands are encoded *)
(* are left out, but for the special ones, which are computed from theirs. *)
(***************************************************************************)
EXTENDS DwarfUnits

VARIABLES
    cu,      \* the unit that a lookup uses, 0 before it does
    header,  \* what was read of its header: [files]
    ip,      \* the next instruction
    reg,     \* address, op_index, filename, lineno
    rows,    \* the rows made
    read     \* of each unit its lines, and the functions of it

linesVars == <<cu, header, ip, reg, rows, read>>

\* A file name: a name in a directory, a name, or none.
NoFile == << >>
Path(dir, name) == <<dir, name>>
Alone(name) == <<name>>

Unknown == [lines |-> "null", rows |-> << >>, functions |-> << >>]
LinesInit ==
    /\ cu = 0 /\ header = [files |-> << >>] /\ ip = 1 /\ rows = << >>
    /\ reg = [address |-> 0, op_index |-> 0, file |-> NoFile, line |-> 1]
    /\ read = [u \in 1..Len(module.units) |-> Unknown]

Keep == Stay /\ UNCHANGED <<module, unit, die, depth, pending, after, units>>

\* The line program at the offset of the unit; a unit that names none has
\* offset 0.
HasProgram == units[cu].lineoff < Len(module.lines)
Program == module.lines[units[cu].lineoff + 1]

\* Directory 0 is that of the unit; one that is missing is left out.
HeaderFile(f, dirs, comp_dir) ==
    IF f.absolute \/ (f.dir = 0 /\ comp_dir = "") THEN Alone(f.name)
    ELSE Path(IF f.dir = 0 THEN comp_dir ELSE dirs[f.dir], f.name)

First(files) == IF files = << >> THEN NoFile ELSE files[1]
Begin(files) == [address |-> 0, op_index |-> 0, file |-> First(files), line |-> 1]

\* Mutant: what was read before is kept.
NoLinesButSome ==
    /\ read' = [read EXCEPT ![cu] = [@ EXCEPT !.lines = "good", !.rows = rows]]
    /\ doing' = "lookup" /\ Keep /\ UNCHANGED <<cu, header, ip, reg, rows>>
\* Nothing could be read: the unit is marked, for all later lookups.
NoLines ==
    /\ read' = [read EXCEPT ![cu] = [Unknown EXCEPT !.lines = "bad"]]
    /\ doing' = "lookup" /\ Keep /\ UNCHANGED <<cu, header, ip, reg, rows>>

ReadLineHeader ==
    /\ doing = "header"
    /\ IF ~HasProgram \/ Program.version \notin 2..4
          \/ \E i \in 1..Len(Program.files) : ~Program.files[i].absolute /\ Program.files[i].dir > Len(Program.dirs)
       THEN NoLines /\ Allocates
       ELSE \/ RunsOut /\ NoLines
            \/ LET files == [i \in 1..Len(Program.files) |-> HeaderFile(Program.files[i], Program.dirs, units[cu].comp_dir)]
               IN /\ header' = [files |-> files] /\ reg' = Begin(files)
                  /\ ip' = 1 /\ rows' = << >> /\ doing' = "program"
                  /\ Allocates /\ Keep /\ UNCHANGED <<cu, read>>

-----------------------------------------------------------------------------
(* read_line_program                                                       *)

\* So many operations further on; several fit into an instruction.
Advance(r, n) ==
    [r EXCEPT !.address = @ + (Program.min * (r.op_index + n)) \div Program.maxops,
              !.op_index = (@ + n) % Program.maxops]

\* The registers after an instruction.
After(r, i) ==
    CASE i.op = "special" ->
           LET n == i.n - Program.opcode_base
           IN [Advance(r, n \div Program.range) EXCEPT !.line = @ + Program.base + (n % Program.range)]
      [] i.op = "advance_pc" -> Advance(r, i.n)
      [] i.op = "const_add_pc" -> Advance(r, (255 - Program.opcode_base) \div Program.range)
      [] i.op = "fixed_advance_pc" -> [r EXCEPT !.address = @ + i.n, !.op_index = 0]
      [] i.op = "advance_line" -> [r EXCEPT !.line = @ + i.n]
      [] i.op = "set_address" -> [r EXCEPT !.address = i.n]
      [] i.op = "set_file" -> [r EXCEPT !.file = IF i.n = 0 THEN NoFile ELSE header.files[i.n]]
      [] i.op = "define_file" ->
           [r EXCEPT !.file = IF i.absolute THEN Alone(i.name)
                              ELSE Path(IF i.dir = 0 THEN units[cu].comp_dir ELSE Program.dirs[i.dir], i.name)]
      [] i.op = "end_sequence" -> Begin(header.files)
      [] OTHER -> r   \* copy, set_column, negate_stmt, set_discriminator, ...

BadOperand(i) ==
    \/ i.op = "set_file" /\ i.n > Len(header.files)
    \/ i.op = "define_file" /\ ~i.absolute /\ i.dir > Len(Program.dirs)
    \/ i.op = "truncated"

\* Mutant: the row before is compared by its line only.
SameRowByLine(r) == rows # << >> /\ rows[Len(rows)].line = r.line
\* add_line: "If we are adding the same mapping, ignore it": the address is
\* compared with that of the row before, to which the base was added.
SameRow(r) == rows # << >> /\ rows[Len(rows)].pc = r.address /\ rows[Len(rows)].file = r.file /\ rows[Len(rows)].line = r.line
Row(r) == [pc |-> r.address + module.base, file |-> r.file, line |-> r.line, idx |-> Len(rows)]
Makes(i) == i.op \in {"special", "copy"}

Instruction ==
    /\ doing = "program" /\ ip <= Len(Program.code)
    /\ LET i == Program.code[ip] IN
       IF BadOperand(i) THEN NoLines /\ Allocates
       ELSE \/ /\ reg' = After(reg, i) /\ ip' = ip + 1
               /\ IF Makes(i) /\ ~SameRow(reg')
                  THEN \/ rows' = Append(rows, Row(reg')) /\ Allocates
                       \/ RunsOut /\ UNCHANGED rows   \* the result of add_line is not looked at
                  ELSE UNCHANGED rows /\ Allocates
               /\ Keep /\ UNCHANGED <<cu, doing, header, read>>
            \/ i.op = "define_file" /\ ~i.absolute /\ RunsOut /\ NoLines

\* line_compare: by address, and of one address in the order they were made.
LineBefore(a, b) == a.pc < b.pc \/ (a.pc = b.pc /\ a.idx < b.idx)

\* A table without rows is no use; the functions are read next.
ProgramEnds ==
    /\ doing = "program" /\ ip > Len(Program.code)
    /\ IF rows = << >> THEN NoLines /\ Allocates
       ELSE \/ RunsOut /\ NoLines
            \/ /\ read' = [read EXCEPT ![cu] = [@ EXCEPT !.rows = SortSeq(rows, LineBefore)]]
               /\ doing' = "functions" /\ Allocates
               /\ Keep /\ UNCHANGED <<cu, header, ip, reg, rows>>

ReadLines == ReadLineHeader \/ Instruction \/ ProgramEnds

\* line_search: the row the pc is at or after, and the next one after the pc.
NoRow == [line |-> 0]
RowAt(table, p) ==
    LET before == {i \in 1..Len(table) : table[i].pc <= p /\ (i = Len(table) \/ p < table[i + 1].pc)}
    IN IF before = {} THEN NoRow ELSE table[CHOOSE i \in before : TRUE]
===============================================================================
