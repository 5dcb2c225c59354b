------------------------------ MODULE LuaParser ------------------------------
(***************************************************************************)
(* The one-pass compiler of Lua 5.3 (lparser.c): it reads tokens and emits *)
(* code through LuaCode.                                                   *)
(*                                                                         *)
(* The parser is a recursive descent.  Its C stack is todo, a sequence of  *)
(* tasks <<function or rest of a function, its local variables...>>; the   *)
(* expression descriptions that are local to those functions are the stack *)
(* vs; the function states (ls->fs and prev) are fs, the innermost last.   *)
(* An action is the part of a parse function up to its next call of        *)
(* another one.  The lists of labels and pending gotos are kept with the   *)
(* function they belong to, as no block looks beyond its own function.     *)
(***************************************************************************)
EXTENDS LuaCode, SequencesExt

VARIABLES
  toks,   \* tokens not yet read
  todo,   \* tasks of the parser, the next one first
  fs,     \* function states, the innermost last
  vs,     \* expressions being read, the last one last
  main    \* the compiled main function, once it is there

pvars == <<toks, todo, fs, vs, main>>

Kind == IF toks = <<>> THEN "eos" ELSE Head(toks).t
Ahead == IF Len(toks) < 2 THEN "eos" ELSE toks[2].t
After(n) == toks' = SubSeq(toks, n + 1, Len(toks))

F == Last(fs)
V == Last(vs)
TopX == X(F, V)

Doing(name) == todo # <<>> /\ Head(todo)[1] = name /\ ~F.sem
Arg(i) == Head(todo)[i + 1]
Then(tasks) == todo' = tasks \o Tail(todo)

WithF(f) == fs' = [fs EXCEPT ![Len(fs)] = f]
WithX(x) == WithF(x.f) /\ vs' = [vs EXCEPT ![Len(vs)] = x.e]
PushX(x) == WithF(x.f) /\ vs' = Append(vs, x.e)
PopX(f) == WithF(f) /\ vs' = Front(vs)
Pop2(x) == WithF(x.f) /\ vs' = Append(Front(Front(vs)), x.e)   \* one for two

Expr == <<"expr", 0>>
ExpList == <<Expr, <<"more", 1>>>>

BlockFollow(withUntil) == \/ Kind \in {"else", "elseif", "end", "eos"}
                          \/ withUntil /\ Kind = "until"

---------------------------------------------------------------------------
(* Variables and blocks *)

NewLocals(f, names) == [f EXCEPT !.vars = @ \o names]
AdjustLocals(f, n) == [f EXCEPT !.nact = @ + n]

Block(f) == Last(f.blocks)

EnterBlock(f, loop) ==
  [Claim(f, f.free = f.nact) EXCEPT
     !.blocks = Append(@, [nact |-> f.nact, loop |-> loop, upval |-> FALSE,
                           label |-> Len(f.labels), goto |-> Len(f.gotos)])]

Label(f, name) == [name |-> name, pc |-> Pc(f), nact |-> f.nact]

\* Mutant: jumping into the scope of a local is not refused.
CloseGotoAnywhere(f, gt, lb) == PatchList(f, gt.pc, lb.pc)
\* The goto is resolved by the label, unless it enters the scope of a local.
CloseGoto(f, gt, lb) ==
  IF gt.nact < lb.nact THEN [f EXCEPT !.sem = TRUE] ELSE PatchList(f, gt.pc, lb.pc)

\* The first label of the current block with that name; 0 if none.
VisibleLabel(f, name) ==
  LET found == {i \in Block(f).label + 1 .. Len(f.labels) : f.labels[i].name = name}
  IN IF found = {} THEN 0 ELSE CHOOSE i \in found : \A j \in found : i <= j

\* A goto is resolved by a label already seen, or becomes pending.
AddGoto(f, gt) ==
  LET i == VisibleLabel(f, gt.name)
      Back(lb) == CloseGoto(IF gt.nact > lb.nact THEN PatchClose(f, gt.pc, lb.nact) ELSE f, gt, lb)
  IN IF i = 0 THEN [f EXCEPT !.gotos = Append(@, gt)] ELSE Back(f.labels[i])

NewGoto(f, name, list) == AddGoto(f, [name |-> name, pc |-> list, nact |-> f.nact])

\* The pending gotos of the current block that name this label are resolved.
FindGotos(f, lb) ==
  LET first == Block(f).goto
      Mine(gt) == gt.name = lb.name
      pending == SubSeq(f.gotos, first + 1, Len(f.gotos))
      Rest(g) == [g EXCEPT !.gotos = SubSeq(@, 1, first) \o SelectSeq(pending, LAMBDA gt : ~Mine(gt))]
  IN FoldLeft(LAMBDA g, gt : IF Mine(gt) THEN CloseGoto(g, gt, lb) ELSE g, Rest(f), pending)

\* The gotos that leave the block bl are tried against the labels around it.
MoveGotosOut(f, bl) ==
  LET Out(g, gt) ==
        IF gt.nact <= bl.nact THEN AddGoto(g, gt)
        ELSE AddGoto(IF bl.upval THEN PatchClose(g, gt.pc, bl.nact) ELSE g, [gt EXCEPT !.nact = bl.nact])
  IN FoldLeft(Out, [f EXCEPT !.gotos = SubSeq(@, 1, bl.goto)], SubSeq(f.gotos, bl.goto + 1, Len(f.gotos)))

\* A jump to the next instruction closes the upvalues of the block.
CloseUpvalues(f, bl) ==
  IF Len(f.blocks) > 1 /\ bl.upval
  THEN PatchToHere(PatchClose(Jump(f), JumpList(f), bl.nact), JumpList(f))
  ELSE f

BreakLabel(f) == FindGotos([f EXCEPT !.labels = Append(@, Label(f, "break"))], Label(f, "break"))

RemoveBlock(f, bl) ==
  [f EXCEPT !.blocks = Front(@), !.vars = SubSeq(@, 1, Len(@) - (f.nact - bl.nact)),
            !.nact = bl.nact, !.free = bl.nact, !.labels = SubSeq(@, 1, bl.label)]

LeaveBlock(f) ==
  LET bl == Block(f)
      Left(g) == RemoveBlock(IF bl.loop THEN BreakLabel(g) ELSE g, bl)
      Out(g) == IF g.blocks # <<>> THEN MoveGotosOut(g, bl)
                ELSE [g EXCEPT !.sem = @ \/ Len(g.gotos) > bl.goto]
  IN Out(Left(CloseUpvalues(f, bl)))

\* Where a name is looked up: active locals of a function, then its upvalues.
LocalsNamed(f, name) == {i \in 1..f.nact : f.vars[i] = name}
UpvalsNamed(f, name) == {i \in 1..Len(f.ups) : f.ups[i].name = name}
Greatest(S) == CHOOSE i \in S : \A j \in S : j <= i
LocalOf(f, name) == Greatest(LocalsNamed(f, name)) - 1
UpvalOf(f, name) == Greatest(UpvalsNamed(f, name)) - 1
Level(name) ==
  LET levels == {l \in 1..Len(fs) : LocalsNamed(fs[l], name) \cup UpvalsNamed(fs[l], name) # {}}
  IN IF levels = {} THEN 0 ELSE Greatest(levels)

\* The block that declares the local marks that it is captured.
MarkUpval(f, level) ==
  LET b == Greatest({i \in 1..Len(f.blocks) : f.blocks[i].nact <= level})
  IN [f EXCEPT !.blocks[b].upval = TRUE]

\* The functions between the one that declares the name and the current one
\* get it as an upvalue; the variable is then described in the current one.
Capture(name, level) ==
  LET isLocal == LocalsNamed(fs[level], name) # {}
      Source(l) == IF l > level + 1 THEN Len(fs[l - 1].ups)
                   ELSE IF isLocal THEN LocalOf(fs[level], name) ELSE UpvalOf(fs[level], name)
      New(l) == [name |-> name, instack |-> l = level + 1 /\ isLocal, idx |-> Source(l)]
  IN [l \in DOMAIN fs |->
        IF l > level THEN [fs[l] EXCEPT !.ups = Append(@, New(l))]
        ELSE IF l = level /\ isLocal /\ level < Len(fs) THEN MarkUpval(fs[l], LocalOf(fs[l], name))
        ELSE fs[l]]
VarExp(f, name) ==
  IF LocalsNamed(f, name) # {} THEN Exp("LOCAL", LocalOf(f, name)) ELSE Exp("UPVAL", UpvalOf(f, name))

\* The functions, and the variable, after the name was resolved; a global
\* name is a field of _ENV.
Resolved(name) ==
  LET Found(n) == Capture(n, Level(n))
      Global(all) == LET x == Indexed(StringExp(Last(all), name), VarExp(Last(all), "_ENV"))
                     IN [fs |-> [all EXCEPT ![Len(all)] = x.f], e |-> x.e]
      Own(all) == [fs |-> all, e |-> VarExp(Last(all), name)]
  IN IF Level(name) = 0 THEN Global(Found("_ENV")) ELSE Own(Found(name))

\* nexps expressions, the last one in x, for nvars variables.
AdjustAssign(x, nvars, nexps) ==
  LET extra == nvars - nexps
      wanted == IF extra < 0 THEN 0 ELSE extra + 1
      More(f, n) == IF n > 1 THEN ReserveRegs(f, n - 1) ELSE f
      Nils(f) == IF extra > 0 THEN LoadNil(ReserveRegs(f, extra), f.free, extra) ELSE f
  IN IF MultRet(x.e) THEN More(SetReturns(x, wanted).f, wanted)
     ELSE Nils(IF x.e.k = "VOID" THEN x.f ELSE Exp2NextReg(x).f)

---------------------------------------------------------------------------
(* Expressions *)

\* Left and right priorities of the binary operators.
Priority == [or |-> <<1, 1>>, and |-> <<2, 2>>, eq |-> <<3, 3>>, lt |-> <<3, 3>>, le |-> <<3, 3>>,
             ne |-> <<3, 3>>, gt |-> <<3, 3>>, ge |-> <<3, 3>>, CONCAT |-> <<9, 8>>,
             ADD |-> <<10, 10>>, SUB |-> <<10, 10>>, MUL |-> <<11, 11>>]
UnaryPriority == 12

\* Tokens of unary operators; "-" is a binary one too.
UnOp == [NOT |-> "NOT", SUB |-> "UNM", LEN |-> "LEN"]

\* subexpr: an operator before the first operand.
Subexpr ==
  /\ Doing("expr")
  /\ IF Kind \in DOMAIN UnOp
     THEN /\ After(1)
          /\ Then(<<<<"expr", UnaryPriority>>, <<"prefix", UnOp[Kind]>>, <<"operators", Arg(1)>>>>)
     ELSE /\ Then(<<<<"simple">>, <<"operators", Arg(1)>>>>)
          /\ UNCHANGED toks
  /\ UNCHANGED <<fs, vs, main>>

PrefixOp == /\ Doing("prefix") /\ WithX(Prefix(TopX, Arg(1)))
            /\ Then(<<>>) /\ UNCHANGED <<toks, main>>

\* An operator of higher priority than the limit: its second operand is next.
InfixOp ==
  /\ Doing("operators")
  /\ Kind \in DOMAIN Priority /\ Priority[Kind][1] > Arg(1)
  /\ After(1)
  /\ WithX(Infix(TopX, Kind))
  /\ Then(<<<<"expr", Priority[Kind][2]>>, <<"posfix", Kind>>, <<"operators", Arg(1)>>>>)
  /\ UNCHANGED main

EndOperators == /\ Doing("operators")
                /\ ~(Kind \in DOMAIN Priority /\ Priority[Kind][1] > Arg(1))
                /\ Then(<<>>) /\ UNCHANGED <<toks, fs, vs, main>>

PosfixOp == /\ Doing("posfix")
            /\ Pop2(Posfix(TopX, vs[Len(vs) - 1], Arg(1)))
            /\ Then(<<>>) /\ UNCHANGED <<toks, main>>

\* simpleexp: the constants and "...".
SimpleToken ==
  LET literal == [nil |-> "NIL", true |-> "TRUE", false |-> "FALSE"] IN
  /\ Doing("simple") /\ Kind \in DOMAIN literal \cup {"int", "string", "..."}
  /\ CASE Kind \in DOMAIN literal -> PushX(X(F, Exp(literal[Kind], 0)))
       [] Kind = "int" -> PushX(X(F, Exp("KINT", Head(toks).n)))
       [] Kind = "string" -> PushX(StringExp(F, Head(toks).s))
       [] Kind = "..." -> IF F.vararg
                          THEN PushX(X(Emit(F, I("VARARG", 0, 1, 0)), Exp("VARARG", Pc(F))))
                          ELSE PushX(X([F EXCEPT !.sem = TRUE], Exp("NIL", 0)))
  /\ After(1) /\ Then(<<>>) /\ UNCHANGED main

SimpleOther ==
  /\ Doing("simple") /\ Kind \in {"{", "function", "name", "("}
  /\ CASE Kind = "{" -> Then(<<<<"constructor">>>>) /\ UNCHANGED toks
       [] Kind = "function" -> Then(<<<<"body", FALSE>>>>) /\ After(1)
       [] OTHER -> Then(<<<<"suffixed">>>>) /\ UNCHANGED toks
  /\ UNCHANGED <<fs, vs, main>>

\* suffixedexp and primaryexp: a name or an expression in parentheses.
PushVar(r) == fs' = r.fs /\ vs' = Append(vs, r.e)
SingleVar ==
  /\ Doing("suffixed") /\ Kind = "name"
  /\ PushVar(Resolved(Head(toks).s))
  /\ After(1) /\ Then(<<<<"suffixes">>>>) /\ UNCHANGED main

OpenParen == /\ Doing("suffixed") /\ Kind = "("
             /\ After(1) /\ Then(<<Expr, <<"closeparen">>, <<"suffixes">>>>)
             /\ UNCHANGED <<fs, vs, main>>

CloseParen == /\ Doing("closeparen") /\ Kind = ")"
              /\ WithX(DischargeVars(TopX))
              /\ After(1) /\ Then(<<>>) /\ UNCHANGED main

\* x.name, with x in a register or an upvalue.
FieldSel(x, name) == LET Sel(y) == Indexed(StringExp(y.f, name), y.e) IN Sel(Exp2AnyRegUp(x))

SuffixField == /\ Doing("suffixes") /\ Kind = "."
               /\ WithX(FieldSel(TopX, toks[2].s))
               /\ After(2) /\ UNCHANGED <<todo, main>>

SuffixIndex == /\ Doing("suffixes") /\ Kind = "["
               /\ WithX(Exp2AnyRegUp(TopX))
               /\ After(1) /\ Then(<<Expr, <<"index">>, <<"suffixes">>>>) /\ UNCHANGED main

\* The key of x[key]: yindex, then luaK_indexed.
IndexEnd ==
  /\ Doing("index") /\ Kind = "]"
  /\ Pop2(Indexed(Exp2Val(TopX), vs[Len(vs) - 1]))
  /\ After(1) /\ Then(<<>>) /\ UNCHANGED main

SuffixMethod == /\ Doing("suffixes") /\ Kind = ":"
                /\ WithX(Self(TopX, toks[2].s))
                /\ After(2) /\ Then(<<<<"funcargs">>, <<"suffixes">>>>) /\ UNCHANGED main

SuffixCall == /\ Doing("suffixes") /\ Kind \in {"(", "{", "string"}
              /\ WithX(Exp2NextReg(TopX))
              /\ Then(<<<<"funcargs">>, <<"suffixes">>>>) /\ UNCHANGED <<toks, main>>

EndSuffixes == /\ Doing("suffixes") /\ Kind \notin {".", "[", ":", "(", "{", "string"}
               /\ Then(<<>>) /\ UNCHANGED <<toks, fs, vs, main>>

\* explist: one expression was read; n is passed to the next task.
MoreExprs ==
  /\ Doing("more")
  /\ IF Kind = ","
     THEN /\ PopX(Exp2NextReg(TopX).f) /\ After(1)
          /\ Then(<<Expr, <<"more", Arg(1) + 1>>>>)
     ELSE /\ todo' = <<Append(todo[2], Arg(1))>> \o SubSeq(todo, 3, Len(todo))
          /\ UNCHANGED <<fs, vs, toks>>
  /\ UNCHANGED main

\* The arguments of a call: none, a list, a string or a table.
FuncArgs ==
  /\ Doing("funcargs")
  /\ \/ /\ Kind = "(" /\ Ahead = ")"
        /\ PushX(X(F, Exp("VOID", 0)))
        /\ After(2) /\ Then(<<<<"call">>>>)
     \/ /\ Kind = "(" /\ Ahead # ")"
        /\ After(1) /\ Then(ExpList \o <<<<"args">>>>)
        /\ UNCHANGED <<fs, vs>>
     \/ /\ Kind = "{"
        /\ Then(<<<<"constructor">>, <<"call">>>>)
        /\ UNCHANGED <<toks, fs, vs>>
     \/ /\ Kind = "string"
        /\ PushX(StringExp(F, Head(toks).s))
        /\ After(1) /\ Then(<<<<"call">>>>)
  /\ UNCHANGED main

ArgsEnd == /\ Doing("args") /\ Kind = ")"
           /\ WithX(SetReturns(TopX, -1))
           /\ After(1) /\ Then(<<<<"call">>>>) /\ UNCHANGED main

\* The call instruction; the function is below its arguments.
CodeCall(x, base) ==
  LET Call(f, n) == X([Emit(f, I("CALL", base, n + 1, 2)) EXCEPT !.free = base + 1], Exp("CALL", Pc(f)))
      Closed(f) == Call(f, f.free - (base + 1))
  IN IF MultRet(x.e) THEN Call(x.f, -1)
     ELSE Closed(IF x.e.k = "VOID" THEN x.f ELSE Exp2NextReg(x).f)
CallEnd ==
  LET fn == vs[Len(vs) - 1] IN
  /\ Doing("call")
  /\ Pop2(CodeCall([TopX EXCEPT !.f = Claim(@, fn.k = "NONRELOC")], fn.info))
  /\ Then(<<>>) /\ UNCHANGED <<toks, main>>

---------------------------------------------------------------------------
(* Constructors: the table and the last list item (or none) are on vs; na   *)
(* counts list items, pending those not yet stored.                         *)

Constructor ==
  LET Table(x) == WithF(x.f) /\ vs' = vs \o <<x.e, Exp("VOID", 0)>> IN
  /\ Doing("constructor") /\ Kind = "{"
  /\ Table(Exp2NextReg(X(Emit(F, I("NEWTABLE", 0, 0, 0)), Exp("RELOCABLE", Pc(F)))))
  /\ After(1) /\ Then(<<<<"fields", 0, 0>>>>) /\ UNCHANGED main

\* closelistfield: the item read goes to its register, and to the table with
\* the others when there are enough.
CloseListField(x, base, na, pending) ==
  IF x.e.k = "VOID" THEN x.f
  ELSE LET Flush(f) == IF pending = FieldsPerFlush THEN SetList(f, base, na, pending) ELSE f
       IN Flush(Exp2NextReg(x).f)
Pending(n) == IF V.k # "VOID" /\ n = FieldsPerFlush THEN 0 ELSE n

Fields ==
  LET na == Arg(1)
      pending == Pending(Arg(2))
      base == vs[Len(vs) - 1].info IN
  /\ Doing("fields") /\ Kind # "}"
  /\ WithF(CloseListField(TopX, base, na, Arg(2)))
  /\ \/ /\ Kind = "name" /\ Ahead = "="
        /\ vs' = [vs EXCEPT ![Len(vs)] = Exp("VOID", 0)]
        /\ Then(<<<<"namefield">>, <<"fieldsep", na, pending>>>>)
     \/ /\ Kind = "["
        /\ vs' = [vs EXCEPT ![Len(vs)] = Exp("VOID", 0)]
        /\ Then(<<<<"keyfield">>, <<"fieldsep", na, pending>>>>)
     \/ /\ Kind # "[" /\ ~(Kind = "name" /\ Ahead = "=")
        /\ vs' = Front(vs)
        /\ Then(<<Expr, <<"fieldsep", na + 1, pending + 1>>>>)
  /\ UNCHANGED <<toks, main>>

\* recfield, whose registers are all free again after it.
NameField ==
  /\ Doing("namefield")
  /\ PushX(Exp2RK(StringExp(F, Head(toks).s))) /\ After(2)
  /\ Then(<<Expr, <<"store", F.free>>>>) /\ UNCHANGED main

KeyField == /\ Doing("keyfield") /\ After(1)
            /\ Then(<<Expr, <<"key", F.free>>>>) /\ UNCHANGED <<fs, vs, main>>

KeyEnd == /\ Doing("key") /\ Kind = "]"
          /\ WithX(Exp2RK(Exp2Val(TopX))) /\ After(2)
          /\ Then(<<Expr, <<"store", Arg(1)>>>>) /\ UNCHANGED main

StoreField ==
  LET n == Len(vs)
      Set(x) == Emit(x.f, I("SETTABLE", vs[n - 3].info, Operand(vs[n - 1]), Operand(x.e))) IN
  /\ Doing("store")
  /\ WithF([Set(Exp2RK(TopX)) EXCEPT !.free = Arg(1)])
  /\ vs' = SubSeq(vs, 1, n - 2)
  /\ Then(<<>>) /\ UNCHANGED <<toks, main>>

FieldSep ==
  /\ Doing("fieldsep")
  /\ IF Kind \in {",", ";"} THEN After(1) /\ Then(<<<<"fields", Arg(1), Arg(2)>>>>)
     ELSE UNCHANGED toks /\ Then(<<<<"fields", Arg(1), Arg(2)>>>>) /\ Kind = "}"
  /\ UNCHANGED <<fs, vs, main>>

\* Mutant: an open call counts as one pending item.
LastListFieldOne(x, base, na, pending) ==
  IF pending = 0 THEN x.f
  ELSE SetList(IF MultRet(x.e) THEN SetReturns(x, -1).f ELSE Exp2NextReg(x).f, base, na, pending)
\* lastlistfield: what is pending is stored, an open call with all its values.
LastListField(x, base, na, pending) ==
  IF pending = 0 THEN x.f
  ELSE IF MultRet(x.e) THEN SetList(SetReturns(x, -1).f, base, na, -1)
  ELSE SetList(IF x.e.k = "VOID" THEN x.f ELSE Exp2NextReg(x).f, base, na, pending)
EndFields ==
  /\ Doing("fields") /\ Kind = "}"
  /\ PopX(LastListField(TopX, vs[Len(vs) - 1].info, Arg(1), Arg(2)))
  /\ After(1) /\ Then(<<>>) /\ UNCHANGED main

---------------------------------------------------------------------------
(* Functions *)

\* The names before something else, separated by commas.
NamesAt(i) ==
  LET IsName(j) == i + 2 * j <= Len(toks) /\ toks[i + 2 * j].t = "name"
      n == CHOOSE n \in 0..Len(toks) :
             /\ \A j \in 0..n - 1 : IsName(j) /\ (j > 0 => toks[i + 2 * j - 1].t = ",")
             /\ ~(IsName(n) /\ (n > 0 => toks[i + 2 * n - 1].t = ","))
  IN [j \in 1..n |-> toks[i + 2 * (j - 1)].s]
NamesLength(names) == IF names = <<>> THEN 0 ELSE 2 * Len(names) - 1

\* body, as far as the end of the parameters.
Body ==
  LET names == NamesAt(2)
      dots == toks[NamesLength(names) + 2].t # ")"     \* "..." or ", ..."
      length == IF ~dots THEN NamesLength(names) ELSE IF names = <<>> THEN 1 ELSE NamesLength(names) + 2
      params == (IF Arg(1) THEN <<"self">> ELSE <<>>) \o names
      Open(f) == [AdjustLocals(NewLocals(f, params), Len(params)) EXCEPT !.params = Len(params), !.vararg = dots]
  IN
  /\ Doing("body") /\ Kind = "("
  /\ fs' = [fs EXCEPT ![Len(fs)].p = Append(@, <<>>)]
             \o <<ReserveRegs(Open(NewFunc(F.h)), Len(params))>>
  /\ After(length + 2)
  /\ Then(<<<<"statlist">>, <<"endbody">>>>) /\ UNCHANGED <<vs, main>>

Compiled(f) == [code |-> f.code, k |-> f.k, p |-> f.p, ups |-> f.ups,
                params |-> f.params, vararg |-> f.vararg, max |-> f.max, ok |-> f.ok]
CloseFunc(f) == LeaveBlock(Ret(f, 0, 0))

\* The closure is made in the function around this one.
BodyEnd ==
  LET Outer(f, done) == [f EXCEPT !.p[Len(f.p)] = Compiled(done), !.h = done.h, !.sem = done.sem,
                                  !.ok = @ /\ done.ok]
      Closure(f) == Exp2NextReg(X(Emit(f, I("CLOSURE", 0, Len(f.p) - 1, 0)), Exp("RELOCABLE", Pc(f))))
      Close(x) == fs' = Append(Front(Front(fs)), x.f) /\ vs' = Append(vs, x.e) IN
  /\ Doing("endbody") /\ Kind = "end"
  /\ Close(Closure(Outer(fs[Len(fs) - 1], CloseFunc(F))))
  /\ After(1) /\ Then(<<>>) /\ UNCHANGED main

MainEnd ==
  LET End(done) == IF done.sem THEN WithF(done) /\ main' = main ELSE fs' = <<>> /\ main' = Compiled(done) IN
  /\ Doing("endmain") /\ Kind = "eos" /\ End(CloseFunc(F))
  /\ Then(<<>>) /\ UNCHANGED <<toks, vs>>

---------------------------------------------------------------------------
(* Statements *)

StatList ==
  /\ Doing("statlist")
  /\ IF BlockFollow(TRUE) THEN Then(<<>>)
     ELSE Then(<<<<"statement">>, <<"endstatement">>>> \o IF Kind = "return" THEN <<>> ELSE <<<<"statlist">>>>)
  /\ UNCHANGED <<toks, fs, vs, main>>

\* Registers above the local variables are free after a statement.
EndStatement ==
  /\ Doing("endstatement")
  /\ WithF([Claim(F, F.max >= F.free /\ F.free >= F.nact) EXCEPT !.free = F.nact])
  /\ Then(<<>>) /\ UNCHANGED <<toks, vs, main>>

Statement(first) == Doing("statement") /\ Kind = first
Goes(tasks) == Then(tasks) /\ UNCHANGED <<vs, main>>

\* Mutant: the token is not read.
EmptyUnread == Statement(";") /\ Goes(<<>>) /\ UNCHANGED <<toks, fs>>
Empty == Statement(";") /\ After(1) /\ Goes(<<>>) /\ UNCHANGED fs

Do == /\ Statement("do") /\ After(1)
      /\ WithF(EnterBlock(F, FALSE))
      /\ Goes(<<<<"statlist">>, <<"endblock">>, <<"expect", "end">>>>)

\* The rest of block, and the keyword that must follow.
BlockEnd == /\ Doing("endblock") /\ WithF(LeaveBlock(F)) /\ UNCHANGED toks /\ Goes(<<>>)
Expect == /\ Doing("expect") /\ Kind = Arg(1) /\ After(1) /\ UNCHANGED fs /\ Goes(<<>>)

\* esc holds the jumps from the ends of the blocks already read.
If == /\ Statement("if")
      /\ Goes(<<<<"testthen", {}>>>>) /\ UNCHANGED <<toks, fs>>

TestThen == /\ Doing("testthen") /\ Kind \in {"if", "elseif"} /\ After(1)
            /\ Goes(<<Expr, <<"then", Arg(1)>>>>) /\ UNCHANGED fs

ThenBlock ==
  LET Block1(x) == /\ PopX(EnterBlock(x.f, FALSE))
                   /\ Then(<<<<"statlist">>, <<"endthen", Arg(1), x.e.f>>>>) IN
  /\ Doing("then") /\ Kind = "then" /\ Ahead \notin {"goto", "break"}
  /\ Block1(GoIfTrue(TopX)) /\ After(1) /\ UNCHANGED main

\* The block begins with a goto: the condition jumps to the label itself.
ThenGoto ==
  LET isBreak == Ahead = "break"
      Leap(x) == NewGoto(EnterBlock(x.f, FALSE), IF isBreak THEN "break" ELSE toks[3].s, x.e.t) IN
  /\ Doing("then") /\ Kind = "then" /\ Ahead \in {"goto", "break"}
  /\ PopX(Leap(GoIfFalse(TopX)))
  /\ After(IF isBreak THEN 2 ELSE 3)
  /\ Then(<<<<"skipnoop">>, <<"aftergoto", Arg(1)>>>>) /\ UNCHANGED main

SkipNoOp ==
  /\ Doing("skipnoop")
  /\ Then(IF Kind \in {";", "::"} THEN <<<<"statement">>, <<"endstatement">>, <<"skipnoop">>>> ELSE <<>>)
  /\ UNCHANGED <<toks, fs, vs, main>>

\* Nothing after the goto, or the rest of the block, which is jumped over.
AfterGoto ==
  /\ Doing("aftergoto")
  /\ IF BlockFollow(FALSE) THEN WithF(LeaveBlock(F)) /\ Goes(<<<<"nextif", Arg(1)>>>>)
     ELSE WithF(Jump(F)) /\ Goes(<<<<"statlist">>, <<"endthen", Arg(1), JumpList(F)>>>>)
  /\ UNCHANGED toks

ThenEnd ==
  LET more == Kind \in {"else", "elseif"}
      End(g) == /\ WithF(PatchToHere(IF more THEN Jump(g) ELSE g, Arg(2)))
                /\ Goes(<<<<"nextif", Arg(1) \cup (IF more THEN JumpList(g) ELSE {})>>>>) IN
  /\ Doing("endthen") /\ End(LeaveBlock(F)) /\ UNCHANGED toks

NextIf ==
  /\ Doing("nextif")
  /\ \/ /\ Kind = "elseif"
        /\ Goes(<<<<"testthen", Arg(1)>>>>) /\ UNCHANGED <<toks, fs>>
     \/ /\ Kind = "else" /\ After(1) /\ WithF(EnterBlock(F, FALSE))
        /\ Goes(<<<<"statlist">>, <<"endblock">>, <<"nextif", Arg(1)>>>>)
     \/ /\ Kind = "end" /\ After(1) /\ WithF(PatchToHere(F, Arg(1))) /\ Goes(<<>>)

\* cond: a jump when the condition is false.
Cond(x) == GoIfTrue(IF x.e.k = "NIL" THEN [x EXCEPT !.e.k = "FALSE"] ELSE x)

While == /\ Statement("while") /\ After(1) /\ WithF(GetLabel(F))
         /\ Goes(<<Expr, <<"while", Pc(F)>>>>)

WhileBlock ==
  LET Loop(x) == /\ PopX(EnterBlock(EnterBlock(x.f, TRUE), FALSE))
                 /\ Then(<<<<"statlist">>, <<"endblock">>, <<"endwhile", Arg(1), x.e.f>>>>) IN
  /\ Doing("while") /\ Kind = "do" /\ Loop(Cond(TopX)) /\ After(1) /\ UNCHANGED main

WhileEnd == /\ Doing("endwhile") /\ Kind = "end" /\ After(1)
            /\ WithF(PatchToHere(LeaveBlock(PatchList(Jump(F), JumpList(F), Arg(1))), Arg(2)))
            /\ Goes(<<>>)

Repeat == /\ Statement("repeat") /\ After(1)
          /\ WithF(EnterBlock(EnterBlock(GetLabel(F), TRUE), FALSE))
          /\ Goes(<<<<"statlist">>, <<"expect", "until">>, Expr, <<"until", Pc(F)>>>>)

\* The condition is inside the scope of the block.
RepeatEnd ==
  LET bl == Block(F)
      Inner(x) == LeaveBlock(IF bl.upval THEN PatchClose(x.f, x.e.f, bl.nact) ELSE x.f)
      Outer(x) == LeaveBlock(PatchList(Inner(x), x.e.f, Arg(1))) IN
  /\ Doing("until")
  /\ PopX(Outer(Cond(TopX)))
  /\ Then(<<>>) /\ UNCHANGED <<toks, main>>

\* for: the control variables are not active before the body.
ForNum ==
  /\ Statement("for") /\ toks[3].t = "=" /\ After(3)
  /\ WithF(NewLocals(EnterBlock(F, TRUE), <<"(index)", "(limit)", "(step)", toks[2].s>>))
  /\ Goes(<<Expr, <<"bound", F.free, 1>>>>)

\* The initial value, the limit and the step, each in the next register.
ForBound ==
  LET Step(g) == ReserveRegs(Emit(AddK(g, Num(1)), I("LOADK", g.free, IndexK(g, Num(1)), 0)), 1)
      Bound(f) ==
        IF Kind = ","
        THEN PopX(f) /\ After(1) /\ Then(<<Expr, <<"bound", Arg(1), Arg(2) + 1>>>>)
        ELSE /\ PopX(IF Arg(2) = 2 THEN Step(f) ELSE f) /\ UNCHANGED toks
             /\ Then(<<<<"forbody", Arg(1), 1, TRUE>>>>) IN
  /\ Doing("bound") /\ Bound(Exp2NextReg(TopX).f)
  /\ UNCHANGED main

ForList ==
  LET names == NamesAt(2) IN
  /\ Statement("for") /\ toks[3].t # "="
  /\ After(NamesLength(names) + 2)
  /\ WithF(NewLocals(EnterBlock(F, TRUE), <<"(generator)", "(state)", "(control)">> \o names))
  /\ Goes(ExpList \o <<<<"forlist", F.free, Len(names)>>>>)

ForListEnd ==
  /\ Doing("forlist")
  /\ PopX(CheckStack(AdjustAssign(TopX, 3, Arg(3)), 3))
  /\ Then(<<<<"forbody", Arg(1), Arg(2), FALSE>>>>) /\ UNCHANGED <<toks, main>>

\* forbody: registers base .. base + 2 control the loop, those after them are
\* the declared variables.
ForBody ==
  LET f == AdjustLocals(F, 3)
      prep == Pc(f)
      list == IF Arg(3) THEN {prep} ELSE JumpList(f)
      Enter(g) == EnterBlock(ReserveRegs(AdjustLocals(EnterBlock(g, FALSE), Arg(2)), Arg(2)), FALSE) IN
  /\ Doing("forbody") /\ Kind = "do" /\ After(1)
  /\ WithF(Enter(IF Arg(3) THEN Emit(f, I("FORPREP", Arg(1), NoJump, 0)) ELSE Jump(f)))
  /\ Goes(<<<<"statlist">>, <<"endblock">>, <<"endblock">>, <<"forloop", Arg(1), Arg(2), Arg(3), prep, list>>,
            <<"expect", "end">>, <<"endblock">>>>)

ForLoop ==
  LET base == Arg(1)
      Loop(f, i) == PatchList(Emit(f, i), {Pc(f)}, Arg(4) + 1)
      f == PatchToHere(F, Arg(5)) IN
  /\ Doing("forloop")
  /\ WithF(IF Arg(3) THEN Loop(f, I("FORLOOP", base, NoJump, 0))
           ELSE Loop(Emit(f, I("TFORCALL", base, 0, Arg(2))), I("TFORLOOP", base + 2, NoJump, 0)))
  /\ Goes(<<>>) /\ UNCHANGED toks

FuncStat == /\ Statement("function") /\ Ahead = "name"
            /\ PushVar(Resolved(toks[2].s))
            /\ After(2) /\ Then(<<<<"funcname">>>>) /\ UNCHANGED main

\* funcname: fields of the variable, the last of which may be a method.
FuncName ==
  /\ Doing("funcname")
  /\ IF Kind \in {".", ":"}
     THEN /\ WithX(FieldSel(TopX, toks[2].s)) /\ After(2)
          /\ Then(IF Kind = "." THEN <<<<"funcname">>>> ELSE <<<<"body", TRUE>>, <<"funcstat">>>>)
     ELSE /\ Then(<<<<"body", FALSE>>, <<"funcstat">>>>) /\ UNCHANGED <<toks, fs, vs>>
  /\ UNCHANGED main

FuncStatEnd == /\ Doing("funcstat")
               /\ WithF(StoreVar(TopX, vs[Len(vs) - 1])) /\ vs' = Front(Front(vs))
               /\ Then(<<>>) /\ UNCHANGED <<toks, main>>

LocalFunc == /\ Statement("local") /\ Ahead = "function" /\ After(3)
             /\ WithF(AdjustLocals(NewLocals(F, <<toks[3].s>>), 1))
             /\ Goes(<<<<"body", FALSE>>, <<"localfunc">>>>)

LocalFuncEnd == Doing("localfunc") /\ PopX(F) /\ Then(<<>>) /\ UNCHANGED <<toks, main>>

\* The variables of a local statement are active after its expressions.
Local ==
  LET names == NamesAt(2)
      n == NamesLength(names)
      f == NewLocals(F, names)
      more == Len(toks) > n + 1 /\ toks[n + 2].t = "=" IN
  /\ Statement("local") /\ Ahead = "name"
  /\ After(IF more THEN n + 2 ELSE n + 1)
  /\ WithF(IF more THEN f ELSE AdjustLocals(AdjustAssign(X(f, Exp("VOID", 0)), Len(names), 0), Len(names)))
  /\ Goes(IF more THEN ExpList \o <<<<"local", Len(names)>>>> ELSE <<>>)

LocalEnd == /\ Doing("local")
            /\ PopX(AdjustLocals(AdjustAssign(TopX, Arg(1), Arg(2)), Arg(1)))
            /\ Then(<<>>) /\ UNCHANGED <<toks, main>>

\* A label takes the position of the statement after the labels that follow it;
\* at the end of a block the local variables are already out of scope.
LabelStat ==
  LET f == [F EXCEPT !.sem = VisibleLabel(F, toks[2].s) # 0, !.labels = Append(@, Label(F, toks[2].s))] IN
  /\ Statement("::") /\ After(3) /\ WithF(f)
  /\ Goes(<<<<"skipnoop">>, <<"label", Len(f.labels)>>>>)

LabelEnd ==
  LET f == IF BlockFollow(FALSE) THEN [F EXCEPT !.labels[Arg(1)].nact = Block(F).nact] ELSE F IN
  /\ Doing("label") /\ WithF(FindGotos(f, f.labels[Arg(1)]))
  /\ Goes(<<>>) /\ UNCHANGED toks

Goto == /\ Statement("goto") /\ After(2)
        /\ WithF(NewGoto(Jump(F), toks[2].s, JumpList(F))) /\ Goes(<<>>)
Break == /\ Statement("break") /\ After(1)
         /\ WithF(NewGoto(Jump(F), "break", JumpList(F))) /\ Goes(<<>>)

\* retstat: one value from any register, or the last registers.
Return ==
  /\ Statement("return")
  /\ \/ /\ Ahead \in {"else", "elseif", "end", "eos", "until", ";"}
        /\ WithF(Ret(F, 0, 0)) /\ After(IF Ahead = ";" THEN 2 ELSE 1) /\ Goes(<<>>)
     \/ /\ Ahead \notin {"else", "elseif", "end", "eos", "until", ";"}
        /\ After(1) /\ Goes(ExpList \o <<<<"return">>>>) /\ UNCHANGED fs

\* An open call that is the only value is a tail call.
ReturnOpen(x, n) ==
  LET All(f) == Ret(f, f.nact, -1)
      Tail1(f) == [Claim(f, At(f, x.e.info).a = f.nact) EXCEPT !.code[x.e.info + 1].op = "TAILCALL"]
      open == SetReturns(x, -1).f
  IN All(IF x.e.k = "CALL" /\ n = 1 THEN Tail1(open) ELSE open)
ReturnValues(x, n) ==
  LET One(y) == Ret(y.f, y.e.info, 1)
      Many(f) == Ret(Claim(f, n = f.free - f.nact), f.nact, n)
  IN IF n = 1 THEN One(Exp2AnyReg(x)) ELSE Many(Exp2NextReg(x).f)
ReturnEnd == /\ Doing("return")
             /\ PopX(IF MultRet(V) THEN ReturnOpen(TopX, Arg(1)) ELSE ReturnValues(TopX, Arg(1)))
             /\ After(IF Kind = ";" THEN 1 ELSE 0)
             /\ Then(<<>>) /\ UNCHANGED main

---------------------------------------------------------------------------
(* Calls and assignments *)

ExprStat == /\ Doing("statement") /\ Kind \in {"name", "("}
            /\ Goes(<<<<"suffixed">>, <<"exprstat">>>>) /\ UNCHANGED <<toks, fs>>

CallStat == /\ Doing("exprstat") /\ Kind \notin {"=", ","}
            /\ PopX([F EXCEPT !.code[V.info + 1].c = 1])
            /\ Then(<<>>) /\ UNCHANGED <<toks, main>>

AssignStat == /\ Doing("exprstat") /\ Kind \in {"=", ","}
              /\ Goes(<<<<"assign", 1>>>>) /\ UNCHANGED <<toks, fs>>

\* check_conflict: the variable on top is used in an earlier variable of the
\* same assignment as its table or as its key; those take a copy of it.
UsesTable(e, v) == e.k = "INDEXED" /\ e.vt = v.k /\ e.info = v.info
UsesKey(e, v) == e.k = "INDEXED" /\ v.k = "LOCAL" /\ e.idx = v.info
\* Mutant: an earlier table that is assigned to is not copied.
SafeCopyKeyOnly(e, v, extra) == IF UsesKey(e, v) THEN [e EXCEPT !.idx = extra] ELSE e
SafeCopy(e, v, extra) ==
  LET Table(d) == IF UsesTable(e, v) THEN [d EXCEPT !.vt = "LOCAL", !.info = extra] ELSE d
      Key(d) == IF UsesKey(e, v) THEN [d EXCEPT !.idx = extra] ELSE d
  IN Key(Table(e))
CheckConflict ==
  LET earlier == {Len(vs) - i : i \in 1..Arg(1)}
      conflict == V.k # "INDEXED" /\ \E i \in earlier : UsesTable(vs[i], V) \/ UsesKey(vs[i], V) IN
  /\ Doing("conflict")
  /\ IF conflict
     THEN /\ vs' = [i \in DOMAIN vs |-> IF i \in earlier THEN SafeCopy(vs[i], V, F.free) ELSE vs[i]]
          /\ WithF(ReserveRegs(Emit(F, I(IF V.k = "LOCAL" THEN "MOVE" ELSE "GETUPVAL", F.free, V.info, 0)), 1))
     ELSE UNCHANGED <<fs, vs>>
  /\ Then(<<>>) /\ UNCHANGED <<toks, main>>

Assignment ==
  /\ Doing("assign") /\ Kind \in {",", "="} /\ After(1)
  /\ Goes(IF Kind = "," THEN <<<<"suffixed">>, <<"conflict", Arg(1)>>, <<"assign", Arg(1) + 1>>>>
          ELSE ExpList \o <<<<"assigned", Arg(1)>>>>)
  /\ UNCHANGED fs

\* The last variable gets its value; the others are stored from the last
\* register down, one by one.
StoreLast(x, var, nvars, nexps) ==
  LET Fewer(f) == IF nexps > nvars THEN [f EXCEPT !.free = @ - (nexps - nvars)] ELSE f
      FromTop(f) == StoreVar(X(f, Exp("NONRELOC", f.free - 1)), var)
  IN IF nexps = nvars THEN StoreVar(SetOneRet(x), var) ELSE FromTop(Fewer(AdjustAssign(x, nvars, nexps)))
Assigned ==
  /\ Doing("assigned")
  /\ WithF(StoreLast(TopX, vs[Len(vs) - 1], Arg(1), Arg(2)))
  /\ vs' = Front(Front(vs))
  /\ Then(<<<<"storerest", Arg(1) - 1>>>>) /\ UNCHANGED <<toks, main>>
StoreRest ==
  /\ Doing("storerest")
  /\ IF Arg(1) = 0 THEN Then(<<>>) /\ UNCHANGED <<fs, vs>>
     ELSE /\ PopX(StoreVar(X(F, Exp("NONRELOC", F.free - 1)), V))
          /\ Then(<<<<"storerest", Arg(1) - 1>>>>)
  /\ UNCHANGED <<toks, main>>

---------------------------------------------------------------------------
\* mainfunc: a vararg function whose only upvalue is _ENV.
ParserInit(source) ==
  /\ toks = source
  /\ todo = <<<<"statlist">>, <<"endmain">>>>
  /\ fs = <<[NewFunc(<<>>) EXCEPT !.ups = <<[name |-> "_ENV", instack |-> TRUE, idx |-> 0]>>, !.vararg = TRUE]>>
  /\ vs = <<>>
  /\ main = <<>>

Expressions == \/ Subexpr \/ PrefixOp \/ InfixOp \/ EndOperators \/ PosfixOp \/ SimpleToken \/ SimpleOther
               \/ SingleVar \/ OpenParen \/ CloseParen \/ SuffixField \/ SuffixIndex \/ IndexEnd
               \/ SuffixMethod \/ SuffixCall \/ EndSuffixes \/ MoreExprs \/ FuncArgs \/ ArgsEnd \/ CallEnd
               \/ Constructor \/ Fields \/ NameField \/ KeyField \/ KeyEnd \/ StoreField \/ FieldSep
               \/ EndFields \/ Body \/ BodyEnd

Statements == \/ StatList \/ EndStatement \/ Empty \/ Do \/ BlockEnd \/ Expect
              \/ If \/ TestThen \/ ThenBlock \/ ThenGoto \/ SkipNoOp \/ AfterGoto \/ ThenEnd \/ NextIf
              \/ While \/ WhileBlock \/ WhileEnd \/ Repeat \/ RepeatEnd
              \/ ForNum \/ ForBound \/ ForList \/ ForListEnd \/ ForBody \/ ForLoop
              \/ FuncStat \/ FuncName \/ FuncStatEnd \/ LocalFunc \/ LocalFuncEnd \/ Local \/ LocalEnd
              \/ LabelStat \/ LabelEnd \/ Goto \/ Break \/ Return \/ ReturnEnd
              \/ ExprStat \/ CallStat \/ AssignStat \/ CheckConflict \/ Assignment \/ Assigned \/ StoreRest

Parse == Expressions \/ Statements \/ MainEnd
=============================================================================
