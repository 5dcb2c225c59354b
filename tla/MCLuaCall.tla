------------------------------ MODULE MCLuaCall ------------------------------
(* What the programs of run call may do, and what LuaControl says of them. *)
EXTENDS LuaCall

Program(calls, wants, tails, others, returns, budget) ==
  [calls |-> calls, wants |-> wants, tails |-> tails, others |-> others, returns |-> returns, budget |-> budget]

Fun == <<"fun", "$">>
Co1 == <<"resume", "co1", "$">>
Yields == <<"yield", "$">>
Fails == <<"error", "$">>
Guarded == <<"pcall", "fun", "$">>

\* Errors and yields across protected calls.
Mixed == Program({Fun, Co1, Yields, Guarded, Fails}, {1, MULTRET}, {}, {}, {2}, 4)
\* Handlers, which may fail themselves, and errors of the machine.
Handlers == Program({<<"xpcall", "fun", "fun", "$">>, <<"xpcall", "fun", "error", "$">>, Fails, <<"nil", "$">>},
                    {1}, {}, {"nomem"}, {1}, 4)
\* Functions of C that a yield may, or may not, cross.
Crossed == Program({Co1, <<"yield", "$", "$">>, <<"dofile">>, <<"pcall", "sort", "fun">>,
                    <<"xpcall", "yield", "fun">>},
                   {MULTRET}, {}, {"meta"}, {0, 2}, 4)
\* Resuming what is not suspended, and functions that resume.
Wraps == Program({<<"wrap1", "$">>, <<"wrap2">>, <<"resume", "main">>, <<"resume">>, Co1, <<"resume", "co2">>,
                  Yields, Fails}, {1}, {}, {}, {1}, 4)
\* Calls in the place of the caller.
Tails == Program({Co1, Guarded}, {MULTRET, 0}, {Fun, <<"vfun", "$", "$">>, <<"obj">>, <<"yield", "$">>, <<"nil">>}, {"capture"}, {2}, 3)
\* Variables of frames that are left by an error, or suspended.
Captures == Program({Co1, Yields, Guarded, Fails}, {0}, {}, {"capture"}, {1}, 5)
\* More frames than a stack holds.
Deepens == Program({<<"vfun", "$", "b", "c", "d">>, <<"obj", "$">>, Guarded}, {2}, {}, {"meta"}, {1}, 5)
MCStarts == {Mixed, Handlers, Crossed, Wraps, Tails, Captures, Deepens}

Instructions ==
  LET lits == Range(Literals)
      Args(a) == {[i \in DOMAIN a |-> IF a[i] = "$" THEN v ELSE a[i]] : v \in lits}
  IN UNION {UNION {{[o |-> "call", args |-> b, want |-> n] : b \in Args(a), n \in s.wants} : a \in s.calls} : s \in Starts}
       \cup UNION {UNION {{[o |-> "tail", args |-> b] : b \in Args(a)} : a \in s.tails} : s \in Starts}
       \cup {[o |-> i, v |-> v] : i \in {"meta", "set", "setcap"}, v \in lits}
       \cup {[o |-> "return", n |-> n, v |-> v] : n \in 0..2, v \in lits}
       \cup {[o |-> i] : i \in {"returnall", "nomem", "capture"}}

Control == INSTANCE LuaControl
             WITH m <- seen.m, op <- seen.op, Operations <- Instructions, Levels <- MaxCCalls,
                  Room <- MaxStack

\* Long jumps, continuations, recovery from errors and moved results do not
\* show: what a program sees at each instruction (frames, results, variables,
\* who runs and who is suspended) is what LuaControl allows.
ImplementsControl == Control!Spec
===============================================================================
