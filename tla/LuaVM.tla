-------------------------------- MODULE LuaVM --------------------------------
(***************************************************************************)
(* The virtual machine of Lua 5.3 (luaV_execute in lvm.c, with the calls   *)
(* of ldo.c and the upvalues of lfunc.c that it needs): one action per     *)
(* instruction.                                                            *)
(*                                                                         *)
(* Each active function has its registers in a record of frames; a         *)
(* register that was not set, or that a call has overwritten, holds Junk.  *)
(* Metamethods, floating point numbers and collection are left out; an     *)
(* operation they would be needed for is a run-time error.  The only       *)
(* function that is not a Lua function, f, stands for any C function: it   *)
(* records its arguments and returns them.                                 *)
(***************************************************************************)
EXTENDS LuaCode, SequencesExt, TLC

VARIABLES
  frames,   \* active functions, the running one last
  clos,     \* closures: the path of their prototype and their upvalues
  uvs,      \* upvalues, open (a register of a frame) or closed (a value)
  tabs,     \* tables
  trace,    \* arguments of the calls of f
  results,  \* what main returned
  status    \* "compile", "run", "done" or "error"

vmvars == <<frames, clos, uvs, tabs, trace, results, status>>

Junk == [t |-> "junk"]
Fun(id) == [t |-> "fun", id |-> id]
Tab(id) == [t |-> "tab", id |-> id]
ExtF == [t |-> "ext"]

\* L->top of a Lua function is ci->top, above its registers, except after an
\* instruction that leaves an open number of values: then it is their end.
CiTop == -1

Truth(v) == v # Nil /\ v # Bool(FALSE)

\* Prototypes are named by their path from the main function.
ProtoAt(main, path) == FoldLeft(LAMBDA p, i : p.p[i], main, path)

Fr == Last(frames)
Cl == clos[Fr.cl]
Reg(r) == Fr.regs[r]

SetFrame(fr) == frames' = [frames EXCEPT ![Len(frames)] = fr]
Goto1(fr, n) == [fr EXCEPT !.pc = @ + n]
Put(regs, r, v) == [i \in DOMAIN regs \cup {r} |-> IF i = r THEN v ELSE regs[i]]
Write(r, v) == SetFrame([Goto1(Fr, 1) EXCEPT !.regs = Put(@, r, v)])

\* Values from register a up to b - 1, and values put from a up.
Values(fr, a, b) == [i \in 1..b - a |-> fr.regs[a + i - 1]]
PutAll(regs, a, vals) ==
  [r \in DOMAIN regs \cup {a + i - 1 : i \in DOMAIN vals} |->
     IF r >= a /\ r < a + Len(vals) THEN vals[r - a + 1] ELSE regs[r]]
AtMost(vals, n) == [i \in 1..n |-> IF i <= Len(vals) THEN vals[i] ELSE Nil]

Fail == status' = "error" /\ UNCHANGED <<frames, clos, uvs, tabs, trace, results>>
Keep == UNCHANGED <<clos, uvs, tabs, trace, results, status>>

UpvalValue(u) == IF uvs[u].open THEN frames[uvs[u].frame].regs[uvs[u].reg] ELSE uvs[u].val

\* luaF_close: the open upvalues of a frame from a register up.
Close(frame, level) ==
  [u \in DOMAIN uvs |->
     IF uvs[u].open /\ uvs[u].frame = frame /\ uvs[u].reg >= level
     THEN [open |-> FALSE, frame |-> 0, reg |-> 0, val |-> UpvalValue(u)] ELSE uvs[u]]

Get(t, key) == IF key \in DOMAIN tabs[t.id] THEN tabs[t.id][key] ELSE Nil
PutField(h, key, v) ==
  IF v = Nil THEN [k \in DOMAIN h \ {key} |-> h[k]]
  ELSE [k \in DOMAIN h \cup {key} |-> IF k = key THEN v ELSE h[k]]
\* The length of a table without holes.
Border(h) == Cardinality({k \in DOMAIN h : k.t = "int" /\ k.n > 0})

---------------------------------------------------------------------------
(* Calls *)

\* A new frame: parameters, extra arguments, other registers as they were.
NewFrame(main, cl, args, ret, nres) ==
  LET p == ProtoAt(main, clos[cl].path) IN
  [cl |-> cl, pc |-> 0, top |-> CiTop, ret |-> ret, nres |-> nres,
   regs |-> [r \in 0..p.max - 1 |-> IF r >= p.params THEN Junk
                                     ELSE IF r < Len(args) THEN args[r + 1] ELSE Nil],
   varargs |-> IF p.vararg THEN SubSeq(args, p.params + 1, Len(args)) ELSE <<>>]

\* luaD_poscall: results in the caller from register ret up; what the called
\* function used above them is overwritten.  A fixed number of results leaves
\* the top at ci->top (OP_CALL, OP_RETURN and OP_TFORCALL restore it).
Deliver(fr, ret, nres, vals) ==
  LET some == IF nres = -1 THEN vals ELSE AtMost(vals, nres)
      left == [r \in DOMAIN fr.regs |-> IF r >= ret THEN Junk ELSE fr.regs[r]]
  IN [fr EXCEPT !.regs = PutAll(left, ret, some), !.top = IF nres = -1 THEN ret + Len(vals) ELSE CiTop]

\* luaD_precall from the instruction of fr: func, its arguments, and where the
\* nres results go.  The arguments, open or not, are taken from the stack.
Call(main, fr, func, args, ret, nres) ==
  CASE func.t = "fun" ->
         /\ frames' = Append([frames EXCEPT ![Len(frames)] = [fr EXCEPT !.top = CiTop]], NewFrame(main, func.id, args, ret, nres))
         /\ UNCHANGED <<clos, uvs, tabs, trace, results, status>>
    [] func.t = "ext" ->
         /\ SetFrame(Deliver(fr, ret, nres, args))
         /\ trace' = Append(trace, args)
         /\ UNCHANGED <<clos, uvs, tabs, results, status>>
    [] OTHER -> Fail

---------------------------------------------------------------------------
(* Instructions; main is the compiled program *)

ProtoOf(main) == ProtoAt(main, Cl.path)
Ins(main) == ProtoOf(main).code[Fr.pc + 1]
Op(main, names) == status = "run" /\ Ins(main).op \in names
K(main, i) == ProtoOf(main).k[i + 1]
RK(main, o) == IF IsK(o) THEN K(main, o - BitRK) ELSE Reg(o)

Loads(main) ==
  LET i == Ins(main) IN
  /\ Op(main, {"MOVE", "LOADK", "GETUPVAL"})
  /\ Write(i.a, CASE i.op = "MOVE" -> Reg(i.b)
                  [] i.op = "LOADK" -> K(main, i.b)
                  [] i.op = "GETUPVAL" -> UpvalValue(Cl.ups[i.b + 1]))
  /\ Keep

LoadBool(main) ==
  LET i == Ins(main) IN
  /\ Op(main, {"LOADBOOL"})
  /\ SetFrame([Goto1(Fr, 1 + i.c) EXCEPT !.regs = Put(@, i.a, Bool(i.b = 1))])
  /\ Keep

LoadNils(main) ==
  LET i == Ins(main) IN
  /\ Op(main, {"LOADNIL"})
  /\ SetFrame([Goto1(Fr, 1) EXCEPT !.regs = PutAll(@, i.a, [j \in 1..i.b + 1 |-> Nil])])
  /\ Keep

\* An open upvalue is a register of some frame.
SetUpval(main) ==
  LET i == Ins(main)
      u == Cl.ups[i.b + 1] IN
  /\ Op(main, {"SETUPVAL"})
  /\ IF uvs[u].open
     THEN /\ frames' = [[frames EXCEPT ![uvs[u].frame].regs[uvs[u].reg] = Reg(i.a)] EXCEPT ![Len(frames)].pc = @ + 1]
          /\ UNCHANGED uvs
     ELSE SetFrame(Goto1(Fr, 1)) /\ uvs' = [uvs EXCEPT ![u].val = Reg(i.a)]
  /\ UNCHANGED <<clos, tabs, trace, results, status>>

GetTable(main) ==
  LET i == Ins(main)
      t == IF i.op = "GETTABUP" THEN UpvalValue(Cl.ups[i.b + 1]) ELSE Reg(i.b) IN
  /\ Op(main, {"GETTABUP", "GETTABLE", "SELF"})
  /\ IF t.t # "tab" THEN Fail
     ELSE /\ SetFrame([Goto1(Fr, 1) EXCEPT !.regs =
               Put(IF i.op = "SELF" THEN Put(@, i.a + 1, t) ELSE @, i.a, Get(t, RK(main, i.c)))])
          /\ Keep

SetTable(main) ==
  LET i == Ins(main)
      t == IF i.op = "SETTABUP" THEN UpvalValue(Cl.ups[i.a + 1]) ELSE Reg(i.a) IN
  /\ Op(main, {"SETTABUP", "SETTABLE"})
  /\ IF t.t # "tab" \/ RK(main, i.b) = Nil THEN Fail
     ELSE /\ tabs' = [tabs EXCEPT ![t.id] = PutField(@, RK(main, i.b), RK(main, i.c))]
          /\ SetFrame(Goto1(Fr, 1))
          /\ UNCHANGED <<clos, uvs, trace, results, status>>

NewTable(main) ==
  /\ Op(main, {"NEWTABLE"})
  /\ tabs' = Append(tabs, <<>>)
  /\ Write(Ins(main).a, Tab(Len(tabs) + 1))
  /\ UNCHANGED <<clos, uvs, trace, results, status>>

\* n values above register a, or all up to the top, become list items.
StoreList(main) ==
  LET i == Ins(main)
      n == IF i.b = 0 THEN Fr.top - i.a - 1 ELSE i.b
      first == (i.c - 1) * FieldsPerFlush
      Item(h, j) == PutField(h, Num(first + j), Reg(i.a + j)) IN
  /\ Op(main, {"SETLIST"})
  /\ tabs' = [tabs EXCEPT ![Reg(i.a).id] = FoldLeft(Item, @, [j \in 1..n |-> j])]
  /\ SetFrame([Goto1(Fr, 1) EXCEPT !.top = CiTop])
  /\ UNCHANGED <<clos, uvs, trace, results, status>>

Arithmetic(main) ==
  LET i == Ins(main)
      l == RK(main, i.b)
      r == IF i.op = "UNM" THEN l ELSE RK(main, i.c) IN
  /\ Op(main, Arith \cup {"UNM"})
  /\ IF l.t # "int" \/ r.t # "int" THEN Fail
     ELSE Write(i.a, Num(Calculate(i.op, l.n, r.n))) /\ Keep

Not(main) ==
  /\ Op(main, {"NOT"})
  /\ Write(Ins(main).a, Bool(~Truth(Reg(Ins(main).b)))) /\ Keep

Length(main) ==
  LET v == Reg(Ins(main).b) IN
  /\ Op(main, {"LEN"})
  /\ IF v.t \notin {"tab", "str"} THEN Fail
     ELSE Write(Ins(main).a, Num(IF v.t = "tab" THEN Border(tabs[v.id]) ELSE Len(v.s))) /\ Keep

\* A number is written in decimal.
AsString(v) == IF v.t = "int" THEN ToString(v.n) ELSE v.s
Joined(vals) == Str(FoldRight(LAMBDA v, s : AsString(v) \o s, vals, ""))
Concat(main) ==
  LET i == Ins(main)
      vals == Values(Fr, i.b, i.c + 1) IN
  /\ Op(main, {"CONCAT"})
  /\ IF \E j \in DOMAIN vals : vals[j].t \notin {"int", "str"} THEN Fail
     ELSE /\ SetFrame([Goto1(Fr, 1) EXCEPT !.regs = Put(@, i.a, Joined(vals)), !.top = CiTop])
          /\ Keep

\* A jump, which first closes upvalues.
DoJump(fr, j) ==
  /\ SetFrame([fr EXCEPT !.pc = j.b])
  /\ uvs' = IF j.a = 0 THEN uvs ELSE Close(Len(frames), j.a - 1)
  /\ UNCHANGED <<clos, tabs, trace, results, status>>

JumpIns(main) == Op(main, {"JMP"}) /\ DoJump(Fr, Ins(main))

\* A test skips the jump after it, or takes it.
Branch(main, fr, jumps) ==
  IF jumps THEN DoJump(fr, ProtoOf(main).code[fr.pc + 2])
  ELSE SetFrame(Goto1(fr, 2)) /\ Keep

Comparison(main) ==
  LET i == Ins(main)
      l == RK(main, i.b)
      r == RK(main, i.c)
      holds == CASE i.op = "EQ" -> l = r [] i.op = "LT" -> l.n < r.n [] i.op = "LE" -> l.n <= r.n IN
  /\ Op(main, {"EQ", "LT", "LE"})
  /\ IF i.op # "EQ" /\ (l.t # "int" \/ r.t # "int") THEN Fail
     ELSE Branch(main, Fr, (i.a = 1) = holds)

Test(main) ==
  /\ Op(main, {"TEST"})
  /\ Branch(main, Fr, (Ins(main).c = 1) = Truth(Reg(Ins(main).a)))

TestSet(main) ==
  LET i == Ins(main)
      jumps == (i.c = 1) = Truth(Reg(i.b)) IN
  /\ Op(main, {"TESTSET"})
  /\ Branch(main, IF jumps THEN [Fr EXCEPT !.regs = Put(@, i.a, Reg(i.b))] ELSE Fr, jumps)

CallIns(main) ==
  LET i == Ins(main)
      end == IF i.b = 0 THEN Fr.top ELSE i.a + i.b IN
  /\ Op(main, {"CALL"})
  /\ Call(main, Goto1(Fr, 1), Reg(i.a), Values(Fr, i.a + 1, end), i.a, i.c - 1)

\* The called function takes the frame of the calling one, whose upvalues are
\* closed first.
TailCall(main) ==
  LET i == Ins(main)
      end == IF i.b = 0 THEN Fr.top ELSE i.a + i.b
      args == Values(Fr, i.a + 1, end) IN
  /\ Op(main, {"TAILCALL"})
  /\ IF Reg(i.a).t = "fun"
     THEN /\ uvs' = IF ProtoOf(main).p # <<>> THEN Close(Len(frames), 0) ELSE uvs
          /\ SetFrame(NewFrame(main, Reg(i.a).id, args, Fr.ret, Fr.nres))
          /\ UNCHANGED <<clos, tabs, trace, results, status>>
     ELSE Call(main, Goto1(Fr, 1), Reg(i.a), args, i.a, -1)

ReturnIns(main) ==
  LET i == Ins(main)
      vals == Values(Fr, i.a, IF i.b = 0 THEN Fr.top ELSE i.a + i.b - 1)
      n == Len(frames) IN
  /\ Op(main, {"RETURN"})
  /\ uvs' = IF ProtoOf(main).p # <<>> THEN Close(n, 0) ELSE uvs
  /\ IF n = 1 THEN frames' = <<>> /\ results' = vals /\ status' = "done"
     ELSE /\ frames' = [Front(frames) EXCEPT ![n - 1] = Deliver(@, Fr.ret, Fr.nres, vals)]
          /\ UNCHANGED <<results, status>>
  /\ UNCHANGED <<clos, tabs, trace>>

ForPrep(main) ==
  LET i == Ins(main) IN
  /\ Op(main, {"FORPREP"})
  /\ IF \E j \in 0..2 : Reg(i.a + j).t # "int" THEN Fail
     ELSE /\ SetFrame([Fr EXCEPT !.pc = i.b, !.regs[i.a] = Num(Reg(i.a).n - Reg(i.a + 2).n)])
          /\ Keep

ForLoopIns(main) ==
  LET i == Ins(main)
      step == Reg(i.a + 2).n
      idx == Reg(i.a).n + step
      limit == Reg(i.a + 1).n IN
  /\ Op(main, {"FORLOOP"})
  /\ IF IF 0 < step THEN idx <= limit ELSE limit <= idx
     THEN SetFrame([Fr EXCEPT !.pc = i.b, !.regs[i.a] = Num(idx), !.regs[i.a + 3] = Num(idx)])
     ELSE SetFrame(Goto1(Fr, 1))
  /\ Keep

\* The generator is called on copies of the control registers.
TForCall(main) ==
  LET i == Ins(main) IN
  /\ Op(main, {"TFORCALL"})
  /\ Call(main, Goto1(Fr, 1), Reg(i.a), <<Reg(i.a + 1), Reg(i.a + 2)>>, i.a + 3, i.c)

TForLoop(main) ==
  LET i == Ins(main) IN
  /\ Op(main, {"TFORLOOP"})
  /\ IF Reg(i.a + 1) # Nil
     THEN SetFrame([Fr EXCEPT !.pc = i.b, !.regs[i.a] = Reg(i.a + 1)])
     ELSE SetFrame(Goto1(Fr, 1))
  /\ Keep

\* luaF_findupval: an open upvalue of that register, if there is one.
OpenAt(r) == {u \in DOMAIN uvs : uvs[u].open /\ uvs[u].frame = Len(frames) /\ uvs[u].reg = r}

\* The upvalues of a new closure; captured registers without one get new ones.
NewRegs(p) == SetToSortSeq({p.ups[j].idx : j \in {j \in DOMAIN p.ups : p.ups[j].instack /\ OpenAt(p.ups[j].idx) = {}}},
                           LAMBDA a, b : a < b)
Upvalue(p, j) ==
  LET d == p.ups[j] IN
  IF ~d.instack THEN Cl.ups[d.idx + 1]
  ELSE IF OpenAt(d.idx) # {} THEN CHOOSE u \in OpenAt(d.idx) : TRUE
  ELSE Len(uvs) + CHOOSE n \in DOMAIN NewRegs(p) : NewRegs(p)[n] = d.idx

\* getcached: the last closure of the prototype is used again when it has the
\* same upvalues.
Cache(path, ups) ==
  LET same == {c \in DOMAIN clos : clos[c].path = path}
  IN {c \in same : (\A d \in same : d <= c) /\ clos[c].ups = ups}

MakeClosure(main) ==
  LET i == Ins(main)
      path == Append(Cl.path, i.b + 1)
      p == ProtoAt(main, path)
      ups == [j \in DOMAIN p.ups |-> Upvalue(p, j)] IN
  /\ Op(main, {"CLOSURE"})
  /\ IF Cache(path, ups) # {}
     THEN Write(i.a, Fun(CHOOSE c \in Cache(path, ups) : TRUE)) /\ UNCHANGED <<clos, uvs>>
     ELSE /\ clos' = Append(clos, [path |-> path, ups |-> ups])
          /\ uvs' = uvs \o [n \in DOMAIN NewRegs(p) |->
                              [open |-> TRUE, frame |-> Len(frames), reg |-> NewRegs(p)[n], val |-> Nil]]
          /\ Write(i.a, Fun(Len(clos) + 1))
  /\ UNCHANGED <<tabs, trace, results, status>>

Vararg(main) ==
  LET i == Ins(main)
      n == Len(Fr.varargs) IN
  /\ Op(main, {"VARARG"})
  /\ SetFrame([Goto1(Fr, 1) EXCEPT !.regs = PutAll(@, i.a, IF i.b = 0 THEN Fr.varargs ELSE AtMost(Fr.varargs, i.b - 1)),
                                   !.top = IF i.b = 0 THEN i.a + n ELSE @])
  /\ Keep

---------------------------------------------------------------------------
VMInit == /\ frames = <<>> /\ clos = <<>> /\ uvs = <<>> /\ tabs = <<>>
          /\ trace = <<>> /\ results = <<>> /\ status = "compile"

\* The main closure, with the table of globals as its upvalue, is called.
Load(main) ==
  /\ status = "compile" /\ status' = "run"
  /\ tabs' = <<PutField(<<>>, Str("f"), ExtF)>>
  /\ uvs' = <<[open |-> FALSE, frame |-> 0, reg |-> 0, val |-> Tab(1)]>>
  /\ clos' = <<[path |-> <<>>, ups |-> <<1>>]>>
  /\ frames' = <<[cl |-> 1, pc |-> 0, top |-> CiTop, ret |-> 0, nres |-> -1,
                  regs |-> [r \in 0..main.max - 1 |-> Junk], varargs |-> <<Num(8), Num(9)>>]>>
  /\ UNCHANGED <<trace, results>>

Execute(main) ==
  \/ Loads(main) \/ LoadBool(main) \/ LoadNils(main) \/ SetUpval(main) \/ GetTable(main) \/ SetTable(main)
  \/ NewTable(main) \/ StoreList(main) \/ Arithmetic(main) \/ Not(main) \/ Length(main) \/ Concat(main)
  \/ JumpIns(main) \/ Comparison(main) \/ Test(main) \/ TestSet(main) \/ CallIns(main) \/ TailCall(main)
  \/ ReturnIns(main) \/ ForPrep(main) \/ ForLoopIns(main) \/ TForCall(main) \/ TForLoop(main)
  \/ MakeClosure(main) \/ Vararg(main)
=============================================================================
