------------------------------- MODULE LuaCode -------------------------------
(***************************************************************************)
(* The code generator of Lua 5.3 (lcode.c): operators on a function state  *)
(* f (struct FuncState and the Proto it fills) and on an expression        *)
(* description e (struct expdesc).                                         *)
(*                                                                         *)
(* A list of jumps, which the C code threads through the jump instructions *)
(* themselves, is the set of their positions.  An instruction has three    *)
(* operands; that of a jump is the position it goes to, in b.  Floating    *)
(* point constants, bitwise operators, OP_LOADKX and line numbers are left *)
(* out.                                                                    *)
(***************************************************************************)
EXTENDS Integers, Sequences, FiniteSets

CONSTANTS
  MaxIndexRK,      \* largest constant index that fits in an operand
  FieldsPerFlush,  \* LFIELDS_PER_FLUSH
  MaxRegs          \* MAXREGS

ASSUME CodeLimits == /\ MaxIndexRK \in 0..255
                     /\ FieldsPerFlush \in Nat \ {0}
                     /\ MaxRegs \in 2..255

\* Operands: a register, or a constant (RKASK); no register; no target yet.
BitRK == 256
IsK(o) == o >= BitRK
NoReg == 255
NoJump == -1

I(op, a, b, c) == [op |-> op, a |-> a, b |-> b, c |-> c]

\* The operators that test and skip (testTMode of lopcodes.c).
TMode == {"EQ", "LT", "LE", "TEST", "TESTSET"}

Exp(k, info) == [k |-> k, info |-> info, idx |-> 0, vt |-> "", t |-> {}, f |-> {}]
HasJumps(e) == e.t # e.f
Numeral(e) == e.k = "KINT" /\ ~HasJumps(e)
MultRet(e) == e.k \in {"CALL", "VARARG"}

\* A function state just opened; h is the scanner's table of constants.
NewFunc(h) ==
  [code |-> <<>>, k |-> <<>>, h |-> h, p |-> <<>>, ups |-> <<>>,
   vars |-> <<>>, nact |-> 0, free |-> 0, max |-> 2, jpc |-> {}, last |-> 0,
   blocks |-> <<[nact |-> 0, loop |-> FALSE, upval |-> FALSE, label |-> 0, goto |-> 0]>>,
   labels |-> <<>>, gotos |-> <<>>, vararg |-> FALSE, params |-> 0, ok |-> TRUE, sem |-> FALSE]

Pc(f) == Len(f.code)
At(f, pc) == f.code[pc + 1]

\* An assertion of the C code; ok tells whether all of them held.
Claim(f, p) == [f EXCEPT !.ok = @ /\ p]

---------------------------------------------------------------------------
(* Jumps *)

\* The instruction that controls the jump at pc: the test before it, or itself.
Control(f, pc) == IF pc >= 1 /\ At(f, pc - 1).op \in TMode THEN pc - 1 ELSE pc

NeedValue(f, list) == \E pc \in list : At(f, Control(f, pc)).op # "TESTSET"

PatchTestReg(i, reg) ==
  IF reg # NoReg /\ reg # i.b THEN [i EXCEPT !.a = reg] ELSE I("TEST", i.b, 0, i.c)

\* Every jump of the list whose value is set by its test goes to vtarget with
\* the value in reg, the others to dtarget.
PatchAux(f, list, reg, vtarget, dtarget) ==
  LET ByValue(pc) == At(f, Control(f, pc)).op = "TESTSET" IN
  [f EXCEPT !.code = [j \in DOMAIN f.code |->
     IF j - 1 \in list
     THEN [f.code[j] EXCEPT !.b = IF ByValue(j - 1) THEN vtarget ELSE dtarget]
     ELSE IF j \in list /\ f.code[j].op = "TESTSET"
     THEN PatchTestReg(f.code[j], reg)
     ELSE f.code[j]]]

\* No jump of the list sets a value any more.
RemoveValues(f, list) ==
  [f EXCEPT !.code = [j \in DOMAIN f.code |->
     IF j \in list /\ f.code[j].op = "TESTSET"
     THEN PatchTestReg(f.code[j], NoReg) ELSE f.code[j]]]

GetLabel(f) == [f EXCEPT !.last = Pc(f)]

PatchToHere(f, list) == [GetLabel(f) EXCEPT !.jpc = @ \cup list]

PatchList(f, list, target) ==
  IF target = Pc(f) THEN PatchToHere(f, list)
  ELSE PatchAux(Claim(f, target < Pc(f)), list, NoReg, target, target)

\* The jumps of the list close the upvalues from level up.
PatchClose(f, list, level) ==
  [f EXCEPT !.code = [j \in DOMAIN f.code |->
     IF j - 1 \in list THEN [f.code[j] EXCEPT !.a = level + 1] ELSE f.code[j]],
            !.ok = @ /\ \A pc \in list : At(f, pc).op = "JMP" /\ (At(f, pc).a = 0 \/ At(f, pc).a >= level + 1)]

\* luaK_code: the jumps on hold come here, then the instruction is added.
Emit(f, i) ==
  LET Add(g) == [g EXCEPT !.code = Append(@, i), !.jpc = {}]
  IN Add(PatchAux(f, f.jpc, NoReg, Pc(f), Pc(f)))

\* A jump, which takes over the jumps on hold; JumpList(f) is its list.
Jump(f) == Emit([f EXCEPT !.jpc = {}], I("JMP", 0, NoJump, 0))
JumpList(f) == f.jpc \cup {Pc(f)}

\* A test followed by a jump, which is at position Pc(f) + 1.
CondJump(f, i) == Jump(Emit(f, i))

---------------------------------------------------------------------------
(* Registers and constants *)

CheckStack(f, n) == [f EXCEPT !.max = IF f.free + n > @ THEN f.free + n ELSE @,
                              !.ok = @ /\ f.free + n < MaxRegs]
ReserveRegs(f, n) == [CheckStack(f, n) EXCEPT !.free = @ + n]

FreeReg(f, reg) ==
  IF ~IsK(reg) /\ reg >= f.nact
  THEN Claim([f EXCEPT !.free = @ - 1], reg = f.free - 1)
  ELSE f

\* The scanner's table is shared by all functions, so the index it has may be
\* that of another function's constant.
Cached(f, v) == /\ v \in DOMAIN f.h
                /\ f.h[v] < Len(f.k)
                /\ f.k[f.h[v] + 1] = v
IndexK(f, v) == IF Cached(f, v) THEN f.h[v] ELSE Len(f.k)
AddK(f, v) ==
  IF Cached(f, v) THEN f
  ELSE [f EXCEPT !.k = Append(@, v),
                 !.h = [w \in DOMAIN f.h \cup {v} |-> IF w = v THEN Len(f.k) ELSE f.h[w]]]

Nil == [t |-> "nil"]
Bool(b) == [t |-> "bool", b |-> b]
Num(n) == [t |-> "int", n |-> n]
Str(s) == [t |-> "str", s |-> s]

\* n registers become nil; a LOADNIL just before is extended when no jump
\* comes in between and the two ranges touch.
LoadNil(f, from, n) ==
  LET last == from + n - 1
      Least(a, b) == IF a < b THEN a ELSE b
      Joins(i) == /\ i.op = "LOADNIL"
                  /\ \/ i.a <= from /\ from <= i.a + i.b + 1
                     \/ from <= i.a /\ i.a <= last + 1
      Joined(i) == I("LOADNIL", Least(from, i.a), -(Least(-last, -(i.a + i.b))) - Least(from, i.a), 0)
  IN IF Pc(f) > f.last /\ Joins(f.code[Pc(f)])
     THEN [f EXCEPT !.code[Pc(f)] = Joined(@)]
     ELSE Emit(f, I("LOADNIL", from, n - 1, 0))

---------------------------------------------------------------------------
(* Expressions: operators on a pair x of a function state and an expression *)

X(f, e) == [f |-> f, e |-> e]
As(e, k, info) == [e EXCEPT !.k = k, !.info = info]

FreeExp(x) == IF x.e.k = "NONRELOC" THEN [x EXCEPT !.f = FreeReg(@, x.e.info)] ELSE x

\* An open call or vararg gives n values; n = -1 means all of them.
SetReturns(x, n) ==
  CASE x.e.k = "CALL" -> [x EXCEPT !.f.code[x.e.info + 1].c = n + 1]
    [] x.e.k = "VARARG" ->
         [x EXCEPT !.f = ReserveRegs([@ EXCEPT !.code[x.e.info + 1].b = n + 1,
                                               !.code[x.e.info + 1].a = x.f.free], 1)]
    [] OTHER -> x

SetOneRet(x) ==
  CASE x.e.k = "CALL" -> [x EXCEPT !.e = As(@, "NONRELOC", At(x.f, x.e.info).a)]
    [] x.e.k = "VARARG" -> [x EXCEPT !.f.code[x.e.info + 1].b = 2, !.e.k = "RELOCABLE"]
    [] OTHER -> x

\* The table of an indexed expression is in a register or in an upvalue.
FreeIndexed(f, e) ==
  IF e.vt = "LOCAL" THEN FreeReg(FreeReg(f, e.idx), e.info) ELSE FreeReg(f, e.idx)

DischargeVars(x) ==
  CASE x.e.k = "LOCAL" -> [x EXCEPT !.e.k = "NONRELOC"]
    [] x.e.k = "UPVAL" ->
         X(Emit(x.f, I("GETUPVAL", 0, x.e.info, 0)), As(x.e, "RELOCABLE", Pc(x.f)))
    [] x.e.k = "INDEXED" ->
         X(Emit(FreeIndexed(x.f, x.e),
                I(IF x.e.vt = "LOCAL" THEN "GETTABLE" ELSE "GETTABUP", 0, x.e.info, x.e.idx)),
           As(x.e, "RELOCABLE", Pc(x.f)))
    [] OTHER -> SetOneRet(x)

\* The value of a discharged expression is put in reg; a jump has none.
ToReg(x, reg) ==
  LET Done(f) == X(f, As(x.e, "NONRELOC", reg))
      k == x.e.k
      load == CASE k \in {"TRUE", "FALSE"} -> I("LOADBOOL", reg, IF k = "TRUE" THEN 1 ELSE 0, 0)
                [] k = "K" -> I("LOADK", reg, x.e.info, 0)
                [] k = "KINT" -> I("LOADK", reg, IndexK(x.f, Num(x.e.info)), 0)
                [] OTHER -> I("MOVE", reg, x.e.info, 0)
  IN CASE k = "NIL" -> Done(LoadNil(x.f, reg, 1))
       [] k = "RELOCABLE" -> Done([x.f EXCEPT !.code[x.e.info + 1].a = reg])
       [] k = "NONRELOC" /\ reg = x.e.info -> x
       [] k \in {"VOID", "JMP"} -> x
       [] OTHER -> Done(Emit(IF k = "KINT" THEN AddK(x.f, Num(x.e.info)) ELSE x.f, load))

Discharge2Reg(x, reg) == ToReg(DischargeVars(x), reg)

Discharge2AnyReg(x) ==
  IF x.e.k = "NONRELOC" THEN x
  ELSE Discharge2Reg([x EXCEPT !.f = ReserveRegs(@, 1)], x.f.free)

\* The two instructions that load false and true, for jumps without a value;
\* a value already in place jumps over them.
LoadBools(f, reg, isJump) ==
  LET Load(g, b, skip) == Emit(GetLabel(g), I("LOADBOOL", reg, b, skip))
      Two(g) == Load(Load(g, 0, 1), 1, 0)
      Land(g) == IF isJump THEN g ELSE PatchToHere(g, JumpList(f))
  IN Land(Two(IF isJump THEN f ELSE Jump(f)))

\* All jumps out of the expression come here with a value in reg.
CloseJumps(x, reg) ==
  LET isJump == x.e.k = "JMP"
      first == Pc(x.f) + (IF isJump THEN 0 ELSE 1)   \* LOADBOOL false, if any
      Patched(f, final) == PatchAux(PatchAux(f, x.e.f, reg, final, first), x.e.t, reg, final, first + 1)
      Final(f) == Patched(GetLabel(f), Pc(f))
  IN Final(IF NeedValue(x.f, x.e.t \cup x.e.f) THEN LoadBools(x.f, reg, isJump) ELSE x.f)

Exp2Reg(x, reg) ==
  LET Own(y) == IF y.e.k = "JMP" THEN [y EXCEPT !.e.t = @ \cup {y.e.info}] ELSE y
      Closed(y) == X(IF HasJumps(y.e) THEN CloseJumps(y, reg) ELSE y.f, Exp("NONRELOC", reg))
  IN Closed(Own(Discharge2Reg(x, reg)))

Exp2NextReg(x) ==
  LET Next(y) == Exp2Reg([y EXCEPT !.f = ReserveRegs(@, 1)], y.f.free)
  IN Next(FreeExp(DischargeVars(x)))

Exp2AnyReg(x) ==
  LET Own(y) == y.e.k = "NONRELOC" /\ y.e.info >= y.f.nact     \* it has a register
      Next(y) == [y EXCEPT !.f = ReserveRegs(FreeExp(y).f, 1)]
      Place(y) ==
        IF y.e.k = "NONRELOC" /\ ~HasJumps(y.e) THEN y
        ELSE Exp2Reg(IF Own(y) THEN y ELSE Next(y), IF Own(y) THEN y.e.info ELSE FreeExp(y).f.free)
  IN Place(DischargeVars(x))

Exp2AnyRegUp(x) == IF x.e.k # "UPVAL" \/ HasJumps(x.e) THEN Exp2AnyReg(x) ELSE x

Exp2Val(x) == IF HasJumps(x.e) THEN Exp2AnyReg(x) ELSE DischargeVars(x)

\* The expression as an operand: a constant that fits, else a register (where
\* luaK_exp2val has put it already when it has jumps).
Constant(e) == CASE e.k = "NIL" -> Nil [] e.k = "TRUE" -> Bool(TRUE)
                 [] e.k = "FALSE" -> Bool(FALSE) [] OTHER -> Num(e.info)
AsConstant(x) ==
  IF HasJumps(x.e) THEN x
  ELSE IF x.e.k = "KINT" \/ (x.e.k \in {"NIL", "TRUE", "FALSE"} /\ Len(x.f.k) <= MaxIndexRK)
  THEN X(AddK(x.f, Constant(x.e)), As(x.e, "K", IndexK(x.f, Constant(x.e))))
  ELSE x
Exp2RK(x) ==
  LET Fit(y) == IF y.e.k = "K" /\ y.e.info <= MaxIndexRK /\ ~HasJumps(y.e) THEN y ELSE Exp2AnyReg(y)
  IN Fit(AsConstant(DischargeVars(x)))
Operand(e) == IF e.k = "K" THEN BitRK + e.info ELSE e.info

StringExp(f, s) == X(AddK(f, Str(s)), Exp("K", IndexK(f, Str(s))))

\* var = ex
StoreVar(x, var) ==
  CASE var.k = "LOCAL" -> Exp2Reg(FreeExp(x), var.info).f
    [] var.k = "UPVAL" ->
         LET Set(y) == FreeExp([y EXCEPT !.f = Emit(@, I("SETUPVAL", y.e.info, var.info, 0))]).f
         IN Set(Exp2AnyReg(x))
    [] OTHER ->
         LET Set(y) == FreeExp([y EXCEPT !.f = Emit(@, I(IF var.vt = "LOCAL" THEN "SETTABLE" ELSE "SETTABUP",
                                                        var.info, var.idx, Operand(y.e)))]).f
         IN Set(Exp2RK(x))

\* t[k], with both of them ready
Indexed(x, t) ==
  LET Of(y) == X(y.f, [Exp("INDEXED", t.info) EXCEPT
                         !.idx = Operand(y.e), !.vt = IF t.k = "UPVAL" THEN "UPVAL" ELSE "LOCAL"])
  IN Of(Exp2RK([x EXCEPT !.f = Claim(@, ~HasJumps(t) /\ t.k \in {"UPVAL", "LOCAL", "NONRELOC"})]))

\* e:key -- the function and e itself in two registers
Self(x, name) ==
  LET Key(y) == Exp2RK(StringExp(y.f, name))
      Call(z, ereg, base) ==
        X(FreeExp([z EXCEPT !.f = Emit(@, I("SELF", base, ereg, Operand(z.e)))]).f, Exp("NONRELOC", base))
      Base(y, ereg) == Call(Key([y EXCEPT !.f = ReserveRegs(@, 2)]), ereg, y.f.free)
      Own(y) == Base(FreeExp(y), y.e.info)
  IN Own(Exp2AnyReg(x))

---------------------------------------------------------------------------
(* Conditions *)

InvertJump(f, pc) ==
  [f EXCEPT !.code[Control(f, pc) + 1].a = 1 - @,
            !.ok = @ /\ At(f, Control(f, pc)).op \in {"EQ", "LT", "LE"}]

\* A jump taken when the expression is cond; "not" is removed, not computed.
JumpOnCond(x, cond) ==
  LET Bit(b) == IF b THEN 1 ELSE 0
      Test(y) == X(CondJump(y.f, I("TESTSET", NoReg, y.e.info, Bit(cond))), y.e)
      i == At(x.f, x.e.info)
  IN IF x.e.k = "RELOCABLE" /\ i.op = "NOT"
     THEN X(CondJump([x.f EXCEPT !.code = SubSeq(@, 1, Len(@) - 1)], I("TEST", i.b, 0, Bit(~cond))), x.e)
     ELSE Test(FreeExp(Discharge2AnyReg(x)))

\* Go on when the expression is true (cond = FALSE: jump when it is false),
\* or the other way round.
GoIf(x, value) ==
  LET jumps == IF value THEN x.e.f ELSE x.e.t
      Out(y, list) ==
        IF value THEN X(PatchToHere(y.f, x.e.t), [y.e EXCEPT !.f = jumps \cup list, !.t = {}])
        ELSE X(PatchToHere(y.f, x.e.f), [y.e EXCEPT !.t = jumps \cup list, !.f = {}])
      always == IF value THEN {"K", "KINT", "TRUE"} ELSE {"NIL", "FALSE"}
      Jumped(y) == Out(y, {Pc(y.f) - 1})
  IN IF x.e.k = "JMP"
     THEN Out(IF value THEN [x EXCEPT !.f = InvertJump(@, x.e.info)] ELSE x, {x.e.info})
     ELSE IF x.e.k \in always THEN Out(x, {})
     ELSE Jumped(JumpOnCond(x, ~value))
GoIfTrue(x) == GoIf(DischargeVars(x), TRUE)
GoIfFalse(x) == GoIf(DischargeVars(x), FALSE)

CodeNot(x) ==
  LET Swap(y) == X(RemoveValues(y.f, y.e.t \cup y.e.f), [y.e EXCEPT !.t = y.e.f, !.f = y.e.t])
      InReg(y) == X(Emit(y.f, I("NOT", 0, y.e.info, 0)), As(y.e, "RELOCABLE", Pc(y.f)))
      Negated(y) ==
        CASE y.e.k \in {"NIL", "FALSE"} -> [y EXCEPT !.e.k = "TRUE"]
          [] y.e.k \in {"K", "KINT", "TRUE"} -> [y EXCEPT !.e.k = "FALSE"]
          [] y.e.k = "JMP" -> [y EXCEPT !.f = InvertJump(@, y.e.info)]
          [] OTHER -> InReg(FreeExp(Discharge2AnyReg(y)))
  IN Swap(Negated(DischargeVars(x)))

---------------------------------------------------------------------------
(* Operators *)

Arith == {"ADD", "SUB", "MUL"}
Compare == [eq |-> "EQ", lt |-> "LT", le |-> "LE", ne |-> "EQ", gt |-> "LT", ge |-> "LE"]

Calculate(op, m, n) == CASE op = "ADD" -> m + n [] op = "SUB" -> m - n
                         [] op = "MUL" -> m * n [] op = "UNM" -> -m

Free2(f, e1, e2) ==
  LET Two(g, d1, d2) == FreeExp(X(FreeExp(X(g, d1)).f, d2)).f
  IN IF Operand(e1) > Operand(e2) THEN Two(f, e1, e2) ELSE Two(f, e2, e1)

\* Unary minus and length: constants are folded, others go through a register.
CodeUnary(x, op) ==
  LET InReg(y) == X(Emit(FreeExp(y).f, I(op, 0, y.e.info, 0)), As(y.e, "RELOCABLE", Pc(y.f)))
  IN IF op = "UNM" /\ Numeral(x.e) THEN [x EXCEPT !.e.info = -@] ELSE InReg(Exp2AnyReg(x))

\* Binary operators that give a value; e1 was read first, x has the second.
CodeBinary(x, e1, op) ==
  LET Both(y, e2) == X(Emit(Free2(y.f, y.e, e2), I(op, 0, Operand(y.e), Operand(e2))),
                       As(y.e, "RELOCABLE", Pc(y.f)))
      First(y) == Both(Exp2RK(X(y.f, e1)), y.e)
  IN IF op \in Arith /\ Numeral(e1) /\ Numeral(x.e)
     THEN X(x.f, As(e1, "KINT", Calculate(op, e1.info, x.e.info)))
     ELSE First(Exp2RK(x))

\* Concatenation is right associative: the operands are in successive registers.
CodeConcat(x, e1) ==
  LET Join(y) ==
        IF y.e.k = "RELOCABLE" /\ At(y.f, y.e.info).op = "CONCAT"
        THEN X([FreeExp(X(Claim(y.f, e1.info = At(y.f, y.e.info).b - 1), e1)).f
                  EXCEPT !.code[y.e.info + 1].b = e1.info], As(e1, "RELOCABLE", y.e.info))
        ELSE CodeBinary(Exp2NextReg(y), e1, "CONCAT")
  IN Join(Exp2Val(x))

CodeCompare(x, e1, op) ==
  LET swapped == op \in {"gt", "ge"}
      cond == IF op = "ne" THEN 0 ELSE 1
      Test(f, o1, o2) == X(CondJump(f, I(Compare[op], cond, IF swapped THEN o2 ELSE o1, IF swapped THEN o1 ELSE o2)),
                           Exp("JMP", Pc(f) + 1))
      Both(y, d1) == Test(FreeExp(X(FreeExp(y).f, d1)).f, Operand(d1), Operand(y.e))
      Second(y) == Both(Exp2RK(X(y.f, x.e)), y.e)
  IN Second(Exp2RK(X(x.f, e1)))

Prefix(x, op) == IF op = "NOT" THEN CodeNot(x) ELSE CodeUnary(x, op)

\* After the first operand and before the second.
Infix(x, op) ==
  CASE op = "and" -> GoIfTrue(x)
    [] op = "or" -> GoIfFalse(x)
    [] op = "CONCAT" -> Exp2NextReg(x)
    [] op \in Arith /\ Numeral(x.e) -> x
    [] OTHER -> Exp2RK(x)

\* After the second operand, which is in x.
Posfix(x, e1, op) ==
  LET AndOr(y) == IF op = "and" THEN [y EXCEPT !.e.f = @ \cup e1.f, !.f = Claim(@, e1.t = {})]
                  ELSE [y EXCEPT !.e.t = @ \cup e1.t, !.f = Claim(@, e1.f = {})]
  IN CASE op \in {"and", "or"} -> AndOr(DischargeVars(x))
       [] op = "CONCAT" -> CodeConcat(x, e1)
       [] op \in Arith -> CodeBinary(x, e1, op)
       [] OTHER -> CodeCompare(x, e1, op)

Ret(f, first, n) == Emit(f, I("RETURN", first, n + 1, 0))

\* n values (-1: all up to the top) above base go to the table in base.
SetList(f, base, nelems, n) ==
  [Emit(f, I("SETLIST", base, IF n = -1 THEN 0 ELSE n, (nelems - 1) \div FieldsPerFlush + 1))
     EXCEPT !.free = base + 1]
=============================================================================
