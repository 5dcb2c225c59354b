------------------------------ MODULE LuaCompile ------------------------------
(***************************************************************************)
(* A program is compiled (LuaParser) and then run (LuaVM); what it does is *)
(* compared with what it means (LuaSource).                                *)
(***************************************************************************)
EXTENDS LuaParser, LuaVM

CONSTANT Programs   \* syntax trees; each is a sequence of statements

VARIABLE program

vars == <<program, pvars, vmvars>>

Source == INSTANCE LuaSource

Init == /\ program \in Programs
        /\ ParserInit(Source!TextBlock(program))
        /\ VMInit

Rejected == fs # <<>> /\ F.sem

Finished == Rejected \/ status \in {"done", "error"}

Next == \/ /\ Parse
           /\ UNCHANGED <<program, vmvars>>
        \/ /\ main # <<>> /\ Load(main)
           /\ UNCHANGED <<program, pvars>>
        \/ /\ Execute(main)
           /\ UNCHANGED <<program, pvars>>
        \/ Finished /\ UNCHANGED vars

\* The compiler and the machine do not stop half way: what is not finished
\* takes steps (WF_vars(Next), as Next is enabled in every state).
Fairness == []<>Finished \/ []<><<TRUE>>_vars

Spec == Init /\ [][Next]_vars /\ Fairness

---------------------------------------------------------------------------
(* Properties *)

\* What can be seen of values: of functions and tables, that they are.
Seen(vals) == [i \in DOMAIN vals |-> IF vals[i].t \in {"fun", "tab"} THEN [t |-> vals[i].t] ELSE vals[i]]
SeenCalls(calls) == [i \in DOMAIN calls |-> Seen(calls[i])]

\* A compiled program calls f with the same arguments in the same order,
\* returns the same values and fails at the same point as the source says:
\* registers, jump lists, patched tests, upvalues and open results of the code
\* (lcode.c, lparser.c) and their execution (lvm.c) do not show.
MeansTheSame ==
  status \in {"done", "error"} =>
    LET Same(m) == /\ SeenCalls(trace) = SeenCalls(m.trace)
                   /\ Seen(results) = Seen(m.values)
                   /\ (status = "error") = m.err
    IN Same(Source!Meaning(program))

\* The assertions of lcode.c and lparser.c (lua_assert) hold: registers are
\* freed in the reverse order of their reservation, a block is entered with
\* no temporary register in use, an operand list has no wrong jumps.
AssertionsHold == (\A i \in DOMAIN fs : fs[i].ok) /\ (main # <<>> => main.ok)

\* The compiler refuses what the rules for goto, break, labels and "..."
\* forbid, and nothing else.
RefusesTheIllegal ==
  /\ Rejected => ~Source!Legal(program)
  /\ main # <<>> /\ status = "compile" => Source!Legal(program)

\* Registers an instruction reads.
Reads(i) ==
  LET Regs(first, last) == first..last
      RKs(os) == {o \in os : ~IsK(o)}
      open == Fr.top - 1
  IN CASE i.op \in {"MOVE", "NOT", "LEN", "UNM", "TESTSET"} -> {i.b}
       [] i.op = "TEST" \/ i.op = "SETUPVAL" -> {i.a}
       [] i.op \in Arith \cup {"EQ", "LT", "LE"} -> RKs({i.b, i.c})
       [] i.op \in {"GETTABLE", "SELF"} -> {i.b} \cup RKs({i.c})
       [] i.op = "GETTABUP" -> RKs({i.c})
       [] i.op = "SETTABLE" -> {i.a} \cup RKs({i.b, i.c})
       [] i.op = "SETTABUP" -> RKs({i.b, i.c})
       [] i.op = "CONCAT" -> Regs(i.b, i.c)
       [] i.op \in {"CALL", "TAILCALL"} -> Regs(i.a, IF i.b = 0 THEN open ELSE i.a + i.b - 1)
       [] i.op = "RETURN" -> Regs(i.a, IF i.b = 0 THEN open ELSE i.a + i.b - 2)
       [] i.op = "SETLIST" -> Regs(i.a, IF i.b = 0 THEN open ELSE i.a + i.b)
       [] i.op \in {"FORPREP", "FORLOOP", "TFORCALL"} -> Regs(i.a, i.a + 2)
       [] i.op = "TFORLOOP" -> {i.a + 1}
       [] OTHER -> {}

\* No instruction reads a register that was not set since the function began
\* or that a call has overwritten: it would give a value from another
\* expression.
ReadsSet ==
  status = "run" =>
    LET i == Ins(main) IN
    /\ \A r \in Reads(i) : r \in DOMAIN Fr.regs /\ Reg(r) # Junk
    /\ i.op = "GETUPVAL" => UpvalValue(Cl.ups[i.b + 1]) # Junk

\* An open number of values (a call with C = 0, "..." with B = 0) is read by the
\* very next instruction of its function, and an instruction that reads one
\* (B = 0) comes right after one that left it: none is left unread, read twice,
\* or read where there is none (L->top is then ci->top, and unset registers
\* would be taken for values).
OpenReadOnce ==
  status = "run" =>
    LET i == Ins(main)
        reads == i.op \in {"CALL", "TAILCALL", "RETURN", "SETLIST"} /\ i.b = 0
    IN (Fr.top # CiTop) <=> reads

\* What the compiler assumes of its own bookkeeping and of its code holds.
CodeSound == AssertionsHold /\ ReadsSet /\ OpenReadOnce

\* Every compilation and every run of these programs ends.
Ends == <>Finished
=============================================================================
