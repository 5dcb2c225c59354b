------------------------------ MODULE LuaControl ------------------------------
(***************************************************************************)
(* What calls, errors and coroutines mean, without stacks of values, C     *)
(* frames, long jumps and continuations: each thread is a sequence of      *)
(* frames and the threads that resumed one another form a chain.           *)
(***************************************************************************)
EXTENDS Integers, Sequences, SequencesExt

CONSTANTS
  Coroutines,      \* threads other than the main one
  Operations,      \* the instructions a Lua function may execute
  Levels,          \* calls of C before an overflow is reported
  Room             \* the size a stack always has

VARIABLES
  m,    \* the machine: chain, frames of every thread, the captured variable
  op    \* the instruction executed last

Main == "main"
Threads == Coroutines \cup {Main}

\* x is the parameter, r the results of the last call, want how many a call
\* that has not returned is to give: Open for as many as there are, Meta for
\* the one of a metamethod.
Open == -1
Meta == -2
Lua(x) == [k |-> "lua", x |-> x, r |-> <<>>, want |-> 0]
Special(kind) == [k |-> kind]
Protected == {"pcall", "xpcall"}
\* A yield cannot cross the frames of C functions without a continuation.
Barriers == {"sort", "handler"}

Start == [chain |-> <<Main>>, fr |-> [t \in Threads |-> IF t = Main THEN <<Lua("nil")>> ELSE <<>>],
          life |-> [t \in Threads |-> IF t = Main THEN "live" ELSE "fresh"],
          cap |-> [v |-> "nil"], out |-> <<>>]

Running(a) == Last(a.chain)
Frames(a) == a.fr[Running(a)]
Current(a) == Last(Frames(a))
First(vals) == IF vals = <<>> THEN "nil" ELSE vals[1]

Push(a, f) == [a EXCEPT !.fr[Running(a)] = Append(@, f)]
\* A frame goes; a captured variable of it lives on as a value.
Pop(a) ==
  LET t == Running(a) n == Len(Frames(a))
  IN [a EXCEPT !.fr[t] = Front(@), !.cap = IF @ = [th |-> t, d |-> n] THEN [v |-> Current(a).x] ELSE @]

RECURSIVE PopTo(_, _)
PopTo(a, n) == IF Len(Frames(a)) = n THEN a ELSE PopTo(Pop(a), n)

Adjust(vals, want) ==
  IF want = Open THEN vals ELSE [i \in 1..(IF want = Meta THEN 1 ELSE want) |-> IF i <= Len(vals) THEN vals[i] ELSE "nil"]

\* The innermost protected call of the running thread; 0 if none.
Guard(a) ==
  LET is == {i \in DOMAIN Frames(a) : Frames(a)[i].k \in Protected}
  IN IF is = {} THEN 0 ELSE CHOOSE i \in is : \A j \in is : j <= i

\* An overflow may be reported when there are as many C functions in progress,
\* or when the frames, at their largest, do not fit in the stack; handlers run until there are somewhat more
\* C functions.
Nested(a) ==
  LET Count(t) == Len(SelectSeq(a.fr[t], LAMBDA f : f.k # "lua" \/ f.want = Meta))
  IN FoldLeft(LAMBDA n, t : n + Count(t) + 1, 0, a.chain)
Size(a) == FoldLeft(LAMBDA n, f : n + (CASE f.k = "lua" -> 8 [] f.k = "handler" -> 2 [] OTHER -> 4), 0, Frames(a))
Deep(a) == Nested(a) + 1 >= Levels \/ Size(a) + 8 > Room
TooDeep(a) == Nested(a) > Levels + Levels \div 8 + 1

RECURSIVE Deliver(_, _), Unwind(_, _), Raise(_, _), Enter(_, _, _), Callee(_, _, _)

\* The thread ends, with values or with an error, and its resumer goes on.
Ended(a, ok, vals) ==
  LET back == [a EXCEPT !.life[Running(a)] = "dead", !.chain = Front(@)]
  IN IF Running(a) = Main THEN {[back EXCEPT !.out = <<IF ok THEN "true" ELSE "false">> \o vals]}
     ELSE CASE Current(back).k = "resume" ->
                 Deliver(Pop(back), <<IF ok THEN "true" ELSE "false">> \o vals)
            [] ok -> Deliver(Pop(back), vals)
            [] OTHER -> Raise(Pop(back), First(vals))

\* The frame on top gets the results of what it called.
Deliver(a, vals) ==
  IF Frames(a) = <<>> THEN Ended(a, TRUE, vals)
  ELSE CASE Current(a).k = "lua" ->
              {[a EXCEPT !.fr[Running(a)][Len(Frames(a))] =
                           [@ EXCEPT !.r = Adjust(vals, Current(a).want), !.want = 0]]}
         [] Current(a).k \in Protected -> Deliver(Pop(a), <<"true">> \o vals)
         [] Current(a).k = "sort" -> Deliver(Pop(a), <<>>)
         [] Current(a).k = "dofile" -> Deliver(Pop(a), vals)
         [] Current(a).k = "handler" -> Unwind(Pop(a), First(vals))

\* An error reaches the innermost protected call, or ends the thread.
Unwind(a, msg) ==
  IF Guard(a) = 0 THEN Ended(PopTo(a, 0), FALSE, <<msg>>)
  ELSE Deliver(Pop(PopTo(a, Guard(a))), <<"false", msg>>)

\* Before that the handler of the protected call sees it.  A handler that only
\* fails is called for its own errors, until that overflows.
Handler(a) == Frames(a)[Guard(a)].h
Raise(a, msg) ==
  IF Guard(a) = 0 \/ Frames(a)[Guard(a)].k = "pcall" THEN Unwind(a, msg)
  ELSE IF Handler(a) = "error" THEN Unwind(a, "errerr")
  ELSE Enter(Push(a, Special("handler")), Handler(a), <<msg>>)

Overflows(a) ==
  (IF Deep(a) THEN Unwind(a, "errerr") ELSE {})
    \cup IF Deep(a) /\ ~TooDeep(a) THEN Raise(a, "overflow") ELSE {}

Suspended(a, t) == t \in Coroutines /\ t \notin Range(a.chain) /\ a.life[t] # "dead"

\* The thread t is given values: it starts, or its yield returns them.
Resume(a, t, vals) ==
  LET on == [a EXCEPT !.chain = Append(@, t)]
  IN IF a.life[t] = "fresh" THEN Enter([on EXCEPT !.life[t] = "live"], "fun", vals) ELSE Deliver(on, vals)

Yield(a, vals) ==
  IF Running(a) = Main \/ \E i \in DOMAIN Frames(a) : Frames(a)[i].k \in Barriers
  THEN Raise(a, "noyield")
  ELSE LET back == [a EXCEPT !.chain = Front(@)]
       IN Deliver(Pop(back), IF Current(back).k = "resume" THEN <<"true">> \o vals ELSE vals)

\* The coroutine a function made by coroutine.wrap resumes.
Wrapped == [wrap1 |-> "co1", wrap2 |-> "co2"]

Callee(a, fn, args) ==
  CASE fn \in {"fun", "vfun"} -> {Push(a, Lua(First(args)))}
    [] fn = "obj" -> {Push(a, Lua("obj"))}
    [] fn = "pcall" -> Enter(Push(a, Special("pcall")), args[1], Tail(args))
    [] fn = "xpcall" -> Enter(Push(a, [k |-> "xpcall", h |-> args[2]]), args[1], Tail(Tail(args)))
    [] fn = "sort" -> Enter(Push(a, Special("sort")), args[1], <<"x", "y">>)
    [] fn = "dofile" -> Enter(Push(a, Special("dofile")), "fun", <<>>)
    [] fn = "error" -> Raise(a, First(args))
    [] fn = "yield" -> Yield(a, args)
    [] fn = "resume" ->
         IF First(args) \notin Threads THEN Raise(a, "nothread")
         ELSE IF Suspended(a, args[1]) THEN Resume(Push(a, Special("resume")), args[1], Tail(args))
         ELSE Deliver(a, <<"false", "refused">>)
    [] fn \in DOMAIN Wrapped ->
         IF Suspended(a, Wrapped[fn]) THEN Resume(Push(a, Special("wrap")), Wrapped[fn], args)
         ELSE Raise(a, "refused")
    [] OTHER -> Raise(a, "uncallable")

\* The function fn is called.
Enter(a, fn, args) ==
  Overflows(a) \cup IF TooDeep(a) THEN {} ELSE Callee(a, fn, args)

Wanting(a, n) == [a EXCEPT !.fr[Running(a)][Len(Frames(a))].want = n,
                           !.fr[Running(a)][Len(Frames(a))].r = <<>>]

\* The value of the captured variable.
CapValue(a) == IF "v" \in DOMAIN a.cap THEN a.cap.v ELSE a.fr[a.cap.th][a.cap.d].x
Assign(a, v) == [a EXCEPT !.fr[Running(a)][Len(Frames(a))].x = v]

\* What may come of an instruction of the running Lua function.
Outcomes(a, o) ==
  CASE o.o = "call" -> Enter(Wanting(a, o.want), o.args[1], Tail(o.args))
    [] o.o = "meta" -> Enter(Wanting(a, Meta), "fun", <<o.v>>)
    [] o.o = "tail" -> IF o.args[1] \in {"fun", "vfun", "obj"}
                       THEN UNION {Enter(Pop(a), o.args[1], Tail(o.args)), Overflows(Wanting(a, Open))}
                       ELSE Enter(Wanting(a, Open), o.args[1], Tail(o.args))
    [] o.o = "return" -> Deliver(Pop(a), SubSeq(<<Current(a).x, o.v>>, 1, o.n))
    [] o.o = "returnall" -> Deliver(Pop(a), Current(a).r)
    [] o.o = "nomem" -> Unwind(a, "nomem")
    [] o.o = "capture" -> {[a EXCEPT !.cap = [th |-> Running(a), d |-> Len(Frames(a))]]}
    [] o.o = "set" -> {Assign(a, o.v)}
    [] o.o = "setcap" -> {IF "v" \in DOMAIN a.cap THEN [a EXCEPT !.cap = [v |-> o.v]]
                          ELSE [a EXCEPT !.fr[a.cap.th][a.cap.d].x = o.v]}

Init == m = Start /\ op = [o |-> "none"]

Next == \E o \in Operations :
          /\ op' = o
          /\ m.chain # <<>>
          /\ m' \in Outcomes(m, o)

Spec == Init /\ [][Next]_<<m, op>>
================================================================================
