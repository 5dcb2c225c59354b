------------------------------- MODULE LuaCall -------------------------------
(***************************************************************************)
(* Calls, protected calls, errors and coroutines (ldo.c, with lcorolib.c   *)
(* and pcall, xpcall, error and dofile of lbaselib.c).  Every thread has a *)
(* stack of values and a list of CallInfos; all threads share one C stack, *)
(* whose records are what is left to do of the C functions in progress.    *)
(* An error, and a yield, is a long jump that cuts the C stack.            *)
(*                                                                         *)
(* Lua functions execute any of the Instructions; hooks are not set.       *)
(***************************************************************************)
EXTENDS Integers, Sequences, SequencesExt, FiniteSetsExt

CONSTANTS
  Coroutines,   \* made before the program runs, and not started
  Starts,       \* records: what Lua functions may call, with how many results wanted,
                \* call last, and do otherwise; how many values they return; and how
                \* many instructions are executed in all
  MaxCCalls,    \* LUAI_MAXCCALLS
  MaxStack,     \* LUAI_MAXSTACK
  ErrorStack    \* ERRORSTACKSIZE

\* An eighth of the C calls is for the handlers of an overflow (llimits.h: 200).
ASSUME MaxCCallsAssumption == MaxCCalls \in Nat /\ MaxCCalls >= 8

VARIABLES
  L,       \* thread -> its state
  C,       \* the C stack
  ret,     \* the status the C function that just returned gives
  uv,      \* the upvalue of the closure that captures a variable
  start, left, op, seen,   \* the program: what it may do, and what it did
  meddled  \* a thread that was not suspended has been resumed

vars == <<L, C, ret, uv, start, left, op, seen, meddled>>

Main == "main"
Threads == Coroutines \cup {Main}
MULTRET == -1
FrameSize == 4      \* maxstacksize: the parameter, and three registers for calls
MinStack == 2       \* LUA_MINSTACK
LuaFunctions == {"fun", "vfun"}
CFunctions == {"pcall", "xpcall", "sort", "dofile", "error", "yield", "resume", "wrap1", "wrap2"}
WrappedBy == [wrap1 |-> "co1", wrap2 |-> "co2"]
Literals == <<"a", "b", "c", "d", "e", "f", "g", "h", "i", "j">>

th == Last(C).th
l == L[th]
Ci(s) == Last(s.ci)
Depth(s) == Len(s.ci)
Top(s) == Len(s.stk)

---------------------------------------------------------------------------
(* The stack of a thread *)

\* What is above the top is lost; what comes below it again is junk.
SetTop(s, n) ==
  [s EXCEPT !.stk = [i \in 1..n |-> IF i <= Len(@) THEN @[i] ELSE "junk"]]
Put(s, v) == [s EXCEPT !.stk = Append(@, v)]
GetTop(s) == Top(s) - Ci(s).func
Insert(s, idx, v) ==
  [s EXCEPT !.stk = InsertAt(@, Ci(s).func + idx, v)]

\* Mutant: the variable at the level itself stays open.
CloseAbove(u, t, level, s) == IF u.open /\ u.th = t /\ u.at > level THEN [open |-> FALSE, v |-> s.stk[u.at]] ELSE u

\* luaF_close: the variables from the level on get a place of their own.
Close(u, t, level, s) == IF u.open /\ u.th = t /\ u.at >= level THEN [open |-> FALSE, v |-> s.stk[u.at]] ELSE u
UpValue(u, LL) == IF u.open THEN LL[u.th].stk[u.at] ELSE u.v

Limit(s) == IF s.big THEN ErrorStack ELSE MaxStack
InUse(s) == Max({Top(s)} \cup {s.ci[i].top : i \in DOMAIN s.ci})
Shrink(s) == [s EXCEPT !.big = @ /\ InUse(s) > MaxStack]

\* Where an error message goes.
ErrorObject(s, status, at) ==
  LET msg == CASE status = "ERRMEM" -> "nomem" [] status = "ERRERR" -> "errerr" [] OTHER -> Last(s.stk)
  IN Put(SetTop(s, at - 1), msg)

---------------------------------------------------------------------------
(* Calls *)

CallInfo(func, nres, top) ==
  [func |-> func, nres |-> nres, top |-> top, lua |-> FALSE, base |-> 0, fresh |-> FALSE,
   want |-> 0, k |-> "none", ctx |-> 0, extra |-> 0, olderr |-> 0, yp |-> FALSE]

\* tryfuncTM: the value called becomes the first argument of its __call.
CallTM(s, func) ==
  IF s.stk[func] = "obj" THEN [s EXCEPT !.stk = InsertAt(@, func, "fun")] ELSE s

\* The arguments of a vararg function stay below its frame.
PrepareLua(s, func) ==
  LET n == Top(s) - func
      first == IF n = 0 THEN "nil" ELSE s.stk[func + 1]
  IN IF s.stk[func] = "fun"
     THEN [s |-> IF n = 0 THEN Put(s, "nil") ELSE s, base |-> func + 1]
     ELSE [s |-> Put(IF n = 0 THEN s ELSE [s EXCEPT !.stk[func + 1] = "nil"], first), base |-> Top(s) + 1]

EnterLua(s, func, nres) ==
  LET p == PrepareLua(s, func)
      top == p.base + FrameSize - 1
  IN [SetTop(p.s, top) EXCEPT
        !.ci = Append(@, [CallInfo(func, nres, top) EXCEPT !.lua = TRUE, !.base = p.base])]

EnterC(s, func, nres) == [s EXCEPT !.ci = Append(@, CallInfo(func, nres, Top(s) + MinStack))]

\* luaD_precall.  next is what happens then.
Precall(s0, func, nres) ==
  LET s == CallTM(s0, func)
      f == s.stk[func]
      room == IF f \in LuaFunctions THEN FrameSize ELSE IF f \in CFunctions THEN MinStack ELSE 1
      Is(next, t) == [next |-> next, f |-> f, s |-> t]
  IN IF Top(s) + room > Limit(s)
     THEN IF s.big THEN Is("errerr", s) ELSE Is("overflow", [s EXCEPT !.big = TRUE])
     ELSE CASE f \in LuaFunctions -> Is("lua", EnterLua(s, func, nres))
            [] f \in CFunctions -> Is("c", EnterC(s, func, nres))
            [] OTHER -> Is("uncallable", s)

\* luaD_poscall: n results from the top go where the function was.
Poscall(s, n) ==
  LET c == Ci(s)
      res == SubSeq(s.stk, Top(s) - n + 1, Top(s))
      moved == IF c.nres = MULTRET THEN res
               ELSE [i \in 1..c.nres |-> IF i <= n THEN res[i] ELSE "nil"]
  IN [s EXCEPT !.ci = Front(@), !.stk = SubSeq(@, 1, c.func - 1) \o moved]

\* After a call from Lua code with a fixed number of results, the top is that
\* of the frame again.
Restore(s) == IF Ci(s).want = MULTRET THEN s ELSE SetTop(s, Ci(s).top)

---------------------------------------------------------------------------
(* The C stack *)

Thread(s) == L' = [L EXCEPT ![th] = s]
\* The function on top waits at a place for one, or several, that it calls.
Calls(at, recs) == C' = [C EXCEPT ![Len(C)].at = at] \o recs
Returns == C' = Front(C)

Rec(at, t) == [at |-> at, th |-> t]
CallRec(t, func, nres, noyield) ==
  [at |-> "call", th |-> t, func |-> func, nres |-> nres, noyield |-> noyield]
\* luaD_rawrunprotected; s is the thread, n its place on the C stack.
TryRec(t, s) == [at |-> "trying", th |-> t, prev |-> s.jmp, oldnc |-> s.nc, status |-> "OK"]

\* luaD_throw: the innermost luaD_rawrunprotected of the thread returns.
Throw(s, status) ==
  /\ C' = [SubSeq(C, 1, s.jmp) EXCEPT ![s.jmp].at = "caught", ![s.jmp].status = status]
  /\ Thread(s)

\* luaG_errormsg: the handler, if there is one, replaces the message.
ErrorMsg(s, msg) ==
  IF s.errf = 0 THEN Throw(Put(s, msg), "ERRRUN")
  ELSE /\ Thread(Put(Put(s, s.stk[s.errf]), msg))
       /\ Calls("raising", <<[at |-> "handled", th |-> th, frame |-> Depth(s)],
                             CallRec(th, Top(s) + 1, 1, 1)>>)

\* What luaD_precall leaves to its callers; "recs" are the C functions between.
Enter(p, at) ==
  CASE p.next = "c" -> Thread(p.s) /\ Calls(at, <<Rec(p.f, th)>>)
    [] p.next = "errerr" -> Throw(p.s, "ERRERR")
    [] p.next = "lua" /\ at = "run" -> Thread(p.s) /\ C' = C
    [] p.next = "lua" /\ at # "run" ->
         /\ Thread([p.s EXCEPT !.ci[Depth(p.s)].fresh = TRUE])
         /\ Calls(at, <<Rec("run", th)>>)
    [] OTHER -> ErrorMsg(p.s, p.next)

\* A C function returns its last n values to luaV_execute or to luaD_call.
CReturn(s, n) ==
  LET t == Poscall(s, n)
  IN Returns /\ Thread(IF C[Len(C) - 1].at = "run" THEN Restore(t) ELSE t)

Same == UNCHANGED <<uv, start, left, op, meddled>>
At(at) == C # <<>> /\ Last(C).at = at

---------------------------------------------------------------------------
(* luaD_call and luaD_callnoyield *)

\* Mutant: an overflow of C calls is reported once.
CallUnbounded ==
  /\ At("call") /\ Same /\ UNCHANGED ret
  /\ LET c == Last(C)
         s == [l EXCEPT !.nc = @ + 1, !.nny = @ + c.noyield]
     IN IF s.nc = MaxCCalls THEN ErrorMsg(s, "overflow")
        ELSE Enter(Precall(s, c.func, c.nres), "called")

Call ==
  /\ At("call") /\ Same /\ UNCHANGED ret
  /\ LET c == Last(C)
         s == [l EXCEPT !.nc = @ + 1, !.nny = @ + c.noyield]
     IN CASE s.nc = MaxCCalls -> ErrorMsg(s, "overflow")
          [] s.nc >= MaxCCalls + MaxCCalls \div 8 -> Throw(s, "ERRERR")
          [] OTHER -> Enter(Precall(s, c.func, c.nres), "called")

Called ==
  /\ At("called") /\ Same /\ UNCHANGED ret
  /\ Thread([l EXCEPT !.nc = @ - 1, !.nny = @ - Last(C).noyield])
  /\ Returns

\* The handler has returned; its value is the message.
Handled == At("handled") /\ Same /\ UNCHANGED ret /\ Throw(l, "ERRRUN")

---------------------------------------------------------------------------
(* Protected calls *)

\* luaD_rawrunprotected returns a status.
TryReturns ==
  /\ At("trying") \/ At("caught")
  /\ Same
  /\ Thread([l EXCEPT !.jmp = Last(C).prev, !.nc = Last(C).oldnc])
  /\ ret' = Last(C).status
  /\ Returns

PcallRec(t, s, func) ==
  [at |-> "protected", th |-> t, ci |-> Depth(s), nny |-> s.nny, errf |-> s.errf, func |-> func]

\* luaD_pcall, when luaD_rawrunprotected has returned.
PcallReturns ==
  /\ At("protected")
  /\ LET c == Last(C)
         undo == [ErrorObject(l, ret, c.func) EXCEPT !.ci = SubSeq(@, 1, c.ci), !.nny = c.nny]
     IN IF ret = "OK" THEN Thread([l EXCEPT !.errf = c.errf]) /\ uv' = uv
        ELSE /\ Thread([Shrink(undo) EXCEPT !.errf = c.errf])
             /\ uv' = Close(uv, th, c.func, l)
  /\ Returns
  /\ UNCHANGED <<ret, start, left, op, meddled>>

\* finishpcall: the results to return, or false and the message; and the thread.
FinishPcall(s, status, skip) ==
  IF status \notin {"OK", "YIELD"} THEN [s |-> Put(Put(s, "false"), Last(s.stk)), n |-> 2]
  ELSE [s |-> s, n |-> GetTop(s) - skip]

\* luaB_pcall and luaB_xpcall up to lua_pcallk.
PcallStart ==
  \E f \in {"pcall", "xpcall"} :
    /\ At(f) /\ Same /\ UNCHANGED ret
    /\ LET plain == Insert(l, 1, "true")
           args == SubSeq(l.stk, Ci(l).func + 3, Top(l))
           withHandler == [l EXCEPT !.stk = SubSeq(@, 1, Ci(l).func + 2) \o <<"true", @[Ci(l).func + 1]>> \o args]
           s == IF f = "pcall" THEN plain ELSE withHandler
           skip == IF f = "pcall" THEN 0 ELSE 2
           func == Ci(l).func + 2 + skip
           errf == IF f = "pcall" THEN 0 ELSE Ci(l).func + 2
           try == TryRec(th, s)
           cont == [s EXCEPT !.errf = errf, !.ci[Depth(s)] =
                      [@ EXCEPT !.k = "finishpcall", !.ctx = skip, !.extra = func, !.olderr = s.errf, !.yp = TRUE]]
       IN IF l.nny > 0
          THEN /\ Thread([s EXCEPT !.errf = errf, !.jmp = Len(C) + 2])
               /\ Calls("pcalled", <<PcallRec(th, s, func), try, CallRec(th, func, MULTRET, 1)>>)
          ELSE Thread(cont) /\ Calls("pcallked", <<CallRec(th, func, MULTRET, 0)>>)

Skip(s) == IF s.stk[Ci(s).func] = "pcall" THEN 0 ELSE 2

\* The rest of lua_pcallk, and the C function returns.
PcallEnds ==
  /\ Same /\ UNCHANGED ret
  /\ \/ /\ At("pcalled")
        /\ LET r == FinishPcall(l, ret, Skip(l)) IN CReturn(r.s, r.n)
     \/ /\ At("pcallked")
        /\ LET s == [l EXCEPT !.errf = Ci(l).olderr, !.ci[Depth(l)].yp = FALSE]
               r == FinishPcall(s, "OK", Ci(s).ctx)
           IN CReturn(r.s, r.n)

---------------------------------------------------------------------------
(* Other C functions *)

\* The comparison function of table.sort is called with lua_call.
SortStart ==
  /\ At("sort") /\ Same /\ UNCHANGED ret
  /\ Thread(Put(Put(Put(l, l.stk[Ci(l).func + 1]), "x"), "y"))
  /\ Calls("sorted", <<CallRec(th, Top(l) + 1, 1, 1)>>)
SortEnds == At("sorted") /\ Same /\ UNCHANGED ret /\ CReturn(SetTop(l, Top(l) - 1), 0)

\* dofile: the file read is the Lua function; lua_callk with a continuation.
DofileStart ==
  /\ At("dofile") /\ Same /\ UNCHANGED ret
  /\ LET s == Put(SetTop(Put(l, "nil"), Ci(l).func + 1), "fun")
     IN IF l.nny = 0
        THEN /\ Thread([s EXCEPT !.ci[Depth(s)].k = "dofilecont"])
             /\ Calls("didfile", <<CallRec(th, Top(s), MULTRET, 0)>>)
        ELSE Thread(s) /\ Calls("didfile", <<CallRec(th, Top(s), MULTRET, 1)>>)
DofileEnds == At("didfile") /\ Same /\ UNCHANGED ret /\ CReturn(l, GetTop(l) - 1)

\* error: settop(1) and lua_error.
Error ==
  /\ At("error") /\ Same /\ UNCHANGED ret
  /\ LET msg == IF GetTop(l) = 0 THEN "nil" ELSE l.stk[Ci(l).func + 1]
     IN ErrorMsg(SetTop(l, Ci(l).func), msg)

---------------------------------------------------------------------------
(* Coroutines *)

\* lua_yieldk without continuation: the results stay above a false function.
Yield ==
  /\ At("yield") /\ Same /\ UNCHANGED ret
  /\ IF l.nny > 0 THEN ErrorMsg(l, "noyield")
     ELSE Throw([l EXCEPT !.st = "YIELD",
                          !.ci[Depth(l)] = [@ EXCEPT !.extra = Ci(l).func, !.k = "none", !.func = Top(l) - GetTop(l)]],
                "YIELD")

\* The coroutine a C function resumes, and with how many values.
Target(s) ==
  LET f == s.stk[Ci(s).func]
  IN IF f # "resume" THEN WrappedBy[f] ELSE IF GetTop(s) = 0 THEN "nil" ELSE s.stk[Ci(s).func + 1]
Values(s) == IF s.stk[Ci(s).func] = "resume" THEN GetTop(s) - 1 ELSE GetTop(s)

\* coroutine.resume fails with a message; a wrapped function raises it.
ResumeFails(s, msg) ==
  IF s.stk[Ci(s).func] = "resume" THEN CReturn(Put(Put(s, "false"), msg), 2)
  ELSE ErrorMsg(s, msg)

Finished(s) == s.st = "OK" /\ GetTop(s) = 0

\* auxresume up to lua_resume, and lua_resume up to the protected resume.
ResumeStart ==
  \E f \in {"resume", "wrap1", "wrap2"} :
    /\ At(f) /\ UNCHANGED <<uv, start, left, op, ret>>
    /\ LET co == Target(l)
           n == Values(l)
           from == IF co = th THEN l ELSE SetTop(l, Top(l) - n)
           to == IF co = th THEN l ELSE [L[co] EXCEPT !.stk = @ \o SubSeq(l.stk, Top(l) - n + 1, Top(l))]
           s == [to EXCEPT !.nc = l.nc + 1, !.nny = 0]
           rec == [at |-> "resumed", th |-> co, from |-> th, nny |-> to.nny]
           try == TryRec(co, s)
       IN IF co \notin Threads THEN ErrorMsg(l, "nothread") /\ UNCHANGED meddled
          ELSE IF Finished(L[co]) THEN ResumeFails(l, "refused") /\ UNCHANGED meddled
          ELSE /\ L' = [L EXCEPT ![th] = from, ![co] = [s EXCEPT !.jmp = Len(C) + 2]]
               /\ Calls("resuming", <<rec, try, [at |-> "resumes", th |-> co, n |-> n, nc |-> s.nc]>>)
               /\ meddled' = (meddled \/ (co # th /\ to.st = "OK" /\ Depth(to) > 1))

\* resume, in the protected call.  Errors about the call itself have a status
\* of their own.
Resume ==
  /\ At("resumes") /\ Same /\ UNCHANGED ret
  /\ LET n == Last(C).n
         back == [l EXCEPT !.st = "OK", !.ci[Depth(l)].func = Ci(l).extra]
         Refuse(msg) == Throw(Put(SetTop(l, Top(l) - n), msg), "refused")
     IN IF Last(C).nc >= MaxCCalls THEN Refuse("overflow")
        ELSE IF l.st = "OK" /\ Depth(l) = 1 THEN Enter(Precall(l, Top(l) - n, MULTRET), "unroll")
        ELSE IF l.st = "YIELD" THEN Thread(Poscall(back, n)) /\ Calls("unroll", <<>>)
        ELSE Refuse("refused")

\* finishCcall: what lua_pcallk or lua_callk had left, and its continuation.
FinishCcall(s, status) ==
  LET c == Ci(s)
      t == IF c.yp THEN [s EXCEPT !.errf = c.olderr, !.ci[Depth(s)].yp = FALSE] ELSE s
      r == IF c.k = "finishpcall" THEN FinishPcall(t, status, c.ctx) ELSE [s |-> t, n |-> GetTop(t) - 1]
  IN Poscall(r.s, r.n)

\* luaV_finishOp: the result of a metamethod goes to its register, the top is
\* that of the frame.
Register == 1
MetaResult(s) == SetTop([s EXCEPT !.stk[Ci(s).base + Register] = Last(s.stk)], Top(s) - 1)
FinishOp(s) == IF Ci(s).want = -2 THEN MetaResult(s) ELSE Restore(s)

\* unroll: what a yield, or an error that was caught, has interrupted.
Unroll ==
  /\ At("unroll") /\ Same
  /\ IF Depth(l) = 1 THEN Returns /\ UNCHANGED <<L, ret>>
     ELSE IF Ci(l).lua
     THEN /\ Thread([FinishOp(l) EXCEPT !.ci[Depth(l)].fresh = TRUE])
          /\ Calls("unroll", <<Rec("run", th)>>)
          /\ UNCHANGED ret
     ELSE Thread(FinishCcall(l, "YIELD")) /\ UNCHANGED <<C, ret>>

UnrollError ==
  /\ At("unrollerr") /\ Same /\ UNCHANGED ret
  /\ Thread(FinishCcall(l, Last(C).status))
  /\ Calls("unroll", <<>>)

\* findpcall and recover: the innermost protected call that a yield may cross.
Recoverable(s) == {i \in DOMAIN s.ci : s.ci[i].yp}
\* Mutant: the calls a yield could not cross at the error still count.
RecoverKeepsNny(s, status, i) ==
  LET c == s.ci[i]
  IN [Shrink([ErrorObject(s, status, c.extra) EXCEPT !.ci = SubSeq(@, 1, i)]) EXCEPT !.errf = c.olderr]

Recover(s, status, i) ==
  LET c == s.ci[i]
  IN [Shrink([ErrorObject(s, status, c.extra) EXCEPT !.ci = SubSeq(@, 1, i), !.nny = 0]) EXCEPT !.errf = c.olderr]

\* lua_resume, when the protected call has returned.
ResumeReturns ==
  /\ At("resumed") /\ UNCHANGED <<start, left, op, meddled>>
  /\ LET c == Last(C)
         failed == ret \in {"ERRRUN", "ERRMEM", "ERRERR"}
         Done(s) == L' = [L EXCEPT ![th] = [s EXCEPT !.nny = c.nny, !.nc = @ - 1]]
         i == Max(Recoverable(l))
         r == Recover(l, ret, i)
     IN IF failed /\ Recoverable(l) # {}
        THEN /\ Thread([r EXCEPT !.jmp = Len(C) + 1])
             /\ Calls("resumed", <<TryRec(th, r), [at |-> "unrollerr", th |-> th, status |-> ret]>>)
             /\ uv' = Close(uv, th, l.ci[i].extra, l)
             /\ ret' = ret
        ELSE /\ Done(IF failed THEN [ErrorObject(l, ret, Top(l) + 1) EXCEPT !.st = ret] ELSE l)
             /\ Returns
             /\ ret' = (IF ret = "refused" THEN "ERRRUN" ELSE ret)
             /\ UNCHANGED uv

\* The rest of auxresume: the values, or the message, move to the resumer.
ResumeMoves ==
  /\ At("resuming") /\ Same /\ UNCHANGED ret
  /\ LET co == Target(l)
         s == L[co]
         ok == ret \in {"OK", "YIELD"}
         n == IF ok THEN GetTop(s) ELSE 1
         vals == SubSeq(s.stk, Top(s) - n + 1, Top(s))
     IN /\ L' = IF co = th THEN L ELSE [L EXCEPT ![co] = SetTop(s, Top(s) - n), ![th].stk = @ \o vals]
        /\ C' = [C EXCEPT ![Len(C)] = [at |-> IF ok THEN "gave" ELSE "failed", th |-> th, n |-> n]]

\* coroutine.resume puts true before the values, or false before the message.
ResumeEnds ==
  /\ Same /\ UNCHANGED ret
  /\ LET n == Last(C).n
         plain == l.stk[Ci(l).func] = "resume"
     IN \/ /\ At("gave")
           /\ IF plain THEN CReturn([l EXCEPT !.stk = InsertAt(@, Top(l) - n + 1, "true")], n + 1)
              ELSE CReturn(l, n)
        \/ At("failed") /\ ResumeFails(SetTop(l, Top(l) - 1), Last(l.stk))

---------------------------------------------------------------------------
(* luaV_execute: the instructions of the running Lua function *)

Frame == Ci(l)
Ready == At("run") /\ left > 0 /\ Frame.want # MULTRET
Do(o) == op' = o /\ UNCHANGED <<ret, start, meddled>>
Spends(o) == left' = left - 1 /\ Do(o)
Literal == Literals[left + 1]
With(args) == [i \in DOMAIN args |-> IF args[i] = "$" THEN Literal ELSE args[i]]
\* The registers after the parameter.
Registers(vals) == [l EXCEPT !.stk = SubSeq(@, 1, Frame.base) \o vals]
Wanting(s, n) == [s EXCEPT !.ci[Depth(s)].want = n]

CallIns ==
  /\ Ready
  /\ \E a \in start.calls, n \in start.wants :
       LET args == With(a)
       IN /\ Spends([o |-> "call", args |-> args, want |-> n])
          /\ Enter(Precall(Wanting(Registers(args), n), Frame.base + 1, n), "run")
  /\ UNCHANGED uv

\* The called frame takes the place of the caller's.
Replace(s) ==
  LET new == Ci(s)
      old == s.ci[Depth(s) - 1]
      moved == SubSeq(s.stk, new.func, new.base)
      base == old.func + new.base - new.func
      top == old.func + Top(s) - new.func
  IN [SetTop([s EXCEPT !.stk = SubSeq(@, 1, old.func - 1) \o moved], top)
        EXCEPT !.ci = Append(Front(Front(@)), [old EXCEPT !.base = base, !.top = top, !.want = 0])]

TailCall ==
  /\ Ready
  /\ \E a \in start.tails :
       LET args == With(a)
           p == Precall(Wanting(Registers(args), MULTRET), Frame.base + 1, MULTRET)
       IN /\ Spends([o |-> "tail", args |-> args])
          /\ IF p.next = "lua"
             THEN Thread(Replace(p.s)) /\ C' = C /\ uv' = Close(uv, th, Frame.base, l)
             ELSE Enter(p, "run") /\ UNCHANGED uv

\* luaT_callTM: the result goes to a register.
Meta ==
  /\ Ready /\ "meta" \in start.others
  /\ Spends([o |-> "meta", v |-> Literal])
  /\ Thread(Wanting([l EXCEPT !.stk = @ \o <<"fun", Literal, Literal>>], -2))
  /\ Calls("meta", <<CallRec(th, Top(l) + 1, 1, 0)>>)
  /\ UNCHANGED uv
MetaReturns ==
  /\ At("meta") /\ Same /\ UNCHANGED ret
  /\ Thread(MetaResult(l))
  /\ Calls("run", <<>>)

\* The frame ends: the rest of luaV_execute is for the caller, unless it was
\* a function of C that called.
Leave(s, n) ==
  LET t == Poscall(s, n)
  IN /\ uv' = Close(uv, th, Frame.base, l)
     /\ IF Frame.fresh THEN Returns /\ Thread(t) ELSE C' = C /\ Thread(Restore(t))

Return ==
  /\ At("run") /\ Frame.want # MULTRET
  /\ \E n \in (IF left > 0 THEN start.returns ELSE {1}) :
       LET vals == SubSeq(<<l.stk[Frame.base], Literal>>, 1, n)
       IN /\ Do([o |-> "return", n |-> n, v |-> Literal])
          /\ Leave(Registers(vals), n)
  /\ UNCHANGED left

\* return f(...): all results of the call.
ReturnAll ==
  /\ At("run") /\ Frame.want = MULTRET
  /\ Do([o |-> "returnall"])
  /\ Leave(l, Top(l) - Frame.base)
  /\ UNCHANGED left

NoMemory ==
  /\ Ready /\ "nomem" \in start.others
  /\ Spends([o |-> "nomem"])
  /\ Throw(l, "ERRMEM")
  /\ UNCHANGED uv

\* A closure captures the parameter; it, or the function, assigns to it.
Capture ==
  /\ Ready /\ "capture" \in start.others
  /\ Spends([o |-> "capture"])
  /\ uv' = [open |-> TRUE, th |-> th, at |-> Frame.base]
  /\ UNCHANGED <<L, C>>
Set ==
  /\ Ready /\ "capture" \in start.others
  /\ Spends([o |-> "set", v |-> Literal])
  /\ Thread([l EXCEPT !.stk[Frame.base] = Literal])
  /\ UNCHANGED <<C, uv>>
SetCap ==
  /\ Ready /\ "capture" \in start.others
  /\ Spends([o |-> "setcap", v |-> Literal])
  /\ IF uv.open THEN L' = [L EXCEPT ![uv.th].stk[uv.at] = Literal] /\ UNCHANGED uv
     ELSE uv' = [uv EXCEPT !.v = Literal] /\ UNCHANGED L
  /\ UNCHANGED C

---------------------------------------------------------------------------
(* What the program sees: at every instruction, and at the end *)

HandlerAt(CC, t, i) == \E j \in DOMAIN CC : CC[j].at = "handled" /\ CC[j].th = t /\ CC[j].frame = i
Chain(CC) == <<Main>> \o [i \in DOMAIN SelectSeq(CC, LAMBDA c : c.at = "resumed") |->
                            SelectSeq(CC, LAMBDA c : c.at = "resumed")[i].th]
Dead(s) == s.st \notin {"OK", "YIELD"} \/ (s.st = "OK" /\ Depth(s) = 1 /\ GetTop(s) = 0)
Life(s) == IF Dead(s) THEN "dead" ELSE IF s.st = "OK" /\ Depth(s) = 1 THEN "fresh" ELSE "live"

LuaFrame(s, c, now) ==
  [k |-> "lua", x |-> s.stk[c.base], want |-> IF now THEN 0 ELSE c.want,
   r |-> IF ~now THEN <<>>
         ELSE SubSeq(s.stk, c.base + 1,
                     CASE c.want = MULTRET -> Top(s) [] c.want = -2 -> c.base + 1 [] OTHER -> c.base + c.want)]
CFrame(s, c) ==
  LET f == s.stk[c.func]
  IN IF f = "xpcall" THEN [k |-> f, h |-> s.stk[c.func + 2]]
     ELSE [k |-> IF f \in DOMAIN WrappedBy THEN "wrap" ELSE f]
Raises == {"error", "yield", "wrap1", "wrap2"}

\* The frames of a thread, each with the place of its variable.
Located(CC, LL, t) ==
  LET s == LL[t]
      running == CC # <<>> /\ Last(CC).th = t
      h(i) == IF HandlerAt(CC, t, i) THEN <<[f |-> [k |-> "handler"], at |-> 0]>> ELSE <<>>
      Of(i) == LET c == s.ci[i]
               IN IF c.lua THEN <<[f |-> LuaFrame(s, c, running /\ i = Depth(s) /\ h(i) = <<>>), at |-> c.base]>>
                  ELSE IF (s.st = "YIELD" /\ i = Depth(s)) \/ (h(i) # <<>> /\ s.stk[c.func] \in Raises) THEN <<>>
                  ELSE <<[f |-> CFrame(s, c), at |-> 0]>>
  IN IF Dead(s) THEN <<>> ELSE FlattenSeq([i \in 1..Depth(s) - 1 |-> Of(i + 1) \o h(i + 1)])

View(CC, LL, u, o, status) ==
  LET fr == [t \in Threads |-> Located(CC, LL, t)]
      bare == [t \in Threads |-> [i \in DOMAIN fr[t] |-> fr[t][i].f]]
  IN [op |-> o,
      m |-> [chain |-> IF CC = <<>> THEN <<>> ELSE Chain(CC),
             fr |-> bare,
             life |-> [t \in Threads |-> IF t # Main THEN Life(LL[t]) ELSE IF CC = <<>> THEN "dead" ELSE "live"],
             cap |-> IF u.open /\ ~Dead(LL[u.th])
                     THEN [th |-> u.th, d |-> CHOOSE d \in DOMAIN fr[u.th] : fr[u.th][d].at = u.at]
                     ELSE [v |-> UpValue(u, LL)],
             out |-> IF CC # <<>> THEN <<>>
                     ELSE <<IF status = "OK" THEN "true" ELSE "false">> \o Tail(LL[Main].stk)]]

Settled(CC) == CC = <<>> \/ Last(CC).at = "run"
Sees == seen' = IF Settled(C') THEN View(C', L', uv', op', ret') ELSE seen

---------------------------------------------------------------------------
(* The whole *)

NewThread(stk) == [stk |-> stk, ci |-> <<CallInfo(1, 0, 1 + MinStack)>>, nny |-> 1, nc |-> 0, errf |-> 0,
                   jmp |-> 0, st |-> "OK", big |-> FALSE]

\* What there is to see before the first call.
Begin == [chain |-> <<Main>>,
          fr |-> [t \in Threads |-> IF t = Main THEN <<[k |-> "lua", x |-> "nil", r |-> <<>>, want |-> 0]>> ELSE <<>>],
          life |-> [t \in Threads |-> IF t = Main THEN "live" ELSE "fresh"], cap |-> [v |-> "nil"], out |-> <<>>]

Init ==
  /\ start \in Starts
  /\ left = start.budget
  /\ L = [t \in Threads |-> [NewThread(<<"nil", "fun">>) EXCEPT !.jmp = IF t = Main THEN 2 ELSE 0]]
  /\ C = <<PcallRec(Main, L[Main], 2), [TryRec(Main, L[Main]) EXCEPT !.prev = 0], CallRec(Main, 2, MULTRET, 1)>>
  /\ ret = "OK" /\ uv = [open |-> FALSE, v |-> "nil"]
  /\ op = [o |-> "none"] /\ meddled = FALSE
  /\ seen = [m |-> Begin, op |-> op]

Steps ==
  \/ Call \/ Called \/ Handled \/ TryReturns \/ PcallReturns \/ PcallStart \/ PcallEnds
  \/ SortStart \/ SortEnds \/ DofileStart \/ DofileEnds \/ Error \/ Yield
  \/ ResumeStart \/ Resume \/ Unroll \/ UnrollError \/ ResumeReturns \/ ResumeMoves \/ ResumeEnds
  \/ CallIns \/ TailCall \/ Meta \/ MetaReturns \/ Return \/ ReturnAll \/ NoMemory
  \/ Capture \/ Set \/ SetCap

Next == \/ Steps /\ Sees
        \/ C = <<>> /\ UNCHANGED vars

Spec == Init /\ [][Next]_vars

---------------------------------------------------------------------------
(* Properties *)

\* The assertions of ldo.c: a C function that is continued has a continuation
\* and may yield, an error is only given to a protected call, a resume ends
\* with the status of its thread and, if no thread was resumed that was not
\* suspended, with the C calls it began with; frames are inside the stack.
AssertionsHold ==
  /\ At("unroll") /\ Depth(l) > 1 /\ ~Ci(l).lua => Ci(l).k # "none" /\ l.nny = 0
  /\ At("unrollerr") => Ci(l).yp /\ l.nny = 0
  /\ At("unroll") /\ Depth(l) = 1 /\ "nc" \in DOMAIN Last(C) => meddled \/ l.nc = Last(C).nc
  /\ At("resumed") /\ ret \in {"OK", "YIELD"} => l.st = ret
  /\ \A t \in Threads : \A i \in DOMAIN L[t].ci : L[t].ci[i].top <= Limit(L[t])

\* At every instruction the running thread counts all calls of C on the C
\* stack, and those of its own that a yield may not cross; its innermost
\* protected call is on the C stack.  A resume of a thread that was not
\* suspended makes that thread count too many.
CCalls(t) == {i \in DOMAIN C : "noyield" \in DOMAIN C[i] /\ C[i].th \in t}
CountersMatch ==
  At("run") =>
    LET counted == Cardinality(CCalls(Threads) \cup {i \in DOMAIN C : C[i].at = "resumed"})
    IN /\ l.nc >= counted /\ (meddled \/ l.nc = counted)
       /\ l.nny = Cardinality({i \in CCalls({th}) : C[i].noyield = 1}) + (IF th = Main THEN 1 ELSE 0)
       /\ l.jmp = Max({i \in DOMAIN C : C[i].at = "trying" /\ C[i].th = th})
       /\ l.jmp < Len(C)

\* What ldo.c asserts and counts is true of the C stack and the frames.
CallsConsistent == AssertionsHold /\ CountersMatch

\* A handler that fails is called for its own error, and so on; the C stack
\* grows by an eighth of its limit for this, and no more.
DepthBounded == Cardinality(CCalls(Threads)) <= MaxCCalls + MaxCCalls \div 8
================================================================================
