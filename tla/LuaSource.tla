------------------------------ MODULE LuaSource ------------------------------
(***************************************************************************)
(* What a Lua program means, without registers, jumps and upvalues: its    *)
(* text (the tokens of a syntax tree, by the precedences the manual gives) *)
(* and the calls of f it makes and values it returns.                      *)
(*                                                                         *)
(* A syntax tree is a tuple whose first element names the construct.  Only *)
(* TLC's runs use this module.                                             *)
(***************************************************************************)
EXTENDS Integers, Sequences, FiniteSets, SequencesExt

Values == INSTANCE LuaCode WITH MaxIndexRK <- 255, FieldsPerFlush <- 50, MaxRegs <- 255

NilV == Values!Nil
BoolV(b) == Values!Bool(b)
NumV(n) == Values!Num(n)
StrV(s) == Values!Str(s)
True(v) == v # NilV /\ v # BoolV(FALSE)

---------------------------------------------------------------------------
(* Text *)

\* Precedence, from low to high; only .. is right associative.
Precedence == [or |-> 1, and |-> 2, eq |-> 3, ne |-> 3, lt |-> 3, le |-> 3, gt |-> 3, ge |-> 3,
               CONCAT |-> 4, ADD |-> 5, SUB |-> 5, MUL |-> 6]
RightAssociative == {"CONCAT"}

Token(t) == <<[t |-> t]>>
Name(x) == <<[t |-> "name", s |-> x]>>
Commas(lists) == IF lists = <<>> THEN <<>> ELSE FoldLeft(LAMBDA l, r : l \o Token(",") \o r, lists[1], Tail(lists))
Names(xs) == Commas([i \in DOMAIN xs |-> Name(xs[i])])

RECURSIVE Text(_)
TextList(ns) == Commas([i \in DOMAIN ns |-> Text(ns[i])])
TextBlock(ns) == FlattenSeq([i \in DOMAIN ns |-> Text(ns[i])])
Paren(n, yes) == IF yes THEN Token("(") \o Text(n) \o Token(")") ELSE Text(n)
Lower(n, op, right) ==
  n[1] = "bin" /\ \/ Precedence[n[2]] < Precedence[op]
                  \/ Precedence[n[2]] = Precedence[op] /\ (op \in RightAssociative) # right
FunText(params, dots, body) ==
  Token("(") \o Names(params)
    \o (IF ~dots THEN <<>> ELSE IF params = <<>> THEN Token("...") ELSE Token(",") \o Token("..."))
    \o Token(")") \o TextBlock(body) \o Token("end")
Text(n) ==
  CASE n[1] \in {"nil", "true", "false", "...", ";", "break"} -> Token(n[1])
    [] n[1] = "int" -> <<[t |-> "int", n |-> n[2]]>>
    [] n[1] = "string" -> <<[t |-> "string", s |-> n[2]]>>
    [] n[1] = "var" -> Name(n[2])
    [] n[1] = "paren" -> Paren(n[2], TRUE)
    [] n[1] = "bin" -> Paren(n[3], Lower(n[3], n[2], FALSE)) \o Token(n[2]) \o Paren(n[4], Lower(n[4], n[2], TRUE))
    [] n[1] = "un" -> Token(n[2]) \o Paren(n[3], n[3][1] = "bin")
    [] n[1] = "index" -> Text(n[2]) \o Token("[") \o Text(n[3]) \o Token("]")
    [] n[1] = "field" -> Text(n[2]) \o Token(".") \o Name(n[3])
    [] n[1] = "call" -> Text(n[2]) \o Token("(") \o TextList(n[3]) \o Token(")")
    [] n[1] = "callwith" -> Text(n[2]) \o Text(n[3])
    [] n[1] = "method" -> Text(n[2]) \o Token(":") \o Name(n[3]) \o Token("(") \o TextList(n[4]) \o Token(")")
    [] n[1] = "fun" -> Token("function") \o FunText(n[2], n[3], n[4])
    [] n[1] = "table" -> Token("{") \o TextList(n[2]) \o Token("}")
    [] n[1] = "item" -> Text(n[2])
    [] n[1] = "named" -> Name(n[2]) \o Token("=") \o Text(n[3])
    [] n[1] = "keyed" -> Token("[") \o Text(n[2]) \o Token("]") \o Token("=") \o Text(n[3])
    [] n[1] = "local" -> Token("local") \o Names(n[2]) \o (IF n[3] = <<>> THEN <<>> ELSE Token("=") \o TextList(n[3]))
    [] n[1] = "assign" -> TextList(n[2]) \o Token("=") \o TextList(n[3])
    [] n[1] = "do" -> Token("do") \o TextBlock(n[2]) \o Token("end")
    [] n[1] = "if" -> Token("if") \o Text(n[2]) \o Token("then") \o TextBlock(n[3])
                      \o FlattenSeq([i \in DOMAIN n[4] |-> Token("elseif") \o Text(n[4][i][1]) \o Token("then") \o TextBlock(n[4][i][2])])
                      \o (IF n[5] = <<>> THEN <<>> ELSE Token("else") \o TextBlock(n[5])) \o Token("end")
    [] n[1] = "while" -> Token("while") \o Text(n[2]) \o Token("do") \o TextBlock(n[3]) \o Token("end")
    [] n[1] = "repeat" -> Token("repeat") \o TextBlock(n[2]) \o Token("until") \o Text(n[3])
    [] n[1] = "fornum" -> Token("for") \o Name(n[2]) \o Token("=") \o TextList(n[3]) \o Token("do") \o TextBlock(n[4]) \o Token("end")
    [] n[1] = "forin" -> Token("for") \o Names(n[2]) \o Token("in") \o TextList(n[3]) \o Token("do") \o TextBlock(n[4]) \o Token("end")
    [] n[1] = "function" -> Token("function") \o Name(n[2]) \o FlattenSeq([i \in DOMAIN n[3] |-> Token(".") \o Name(n[3][i])])
                            \o (IF n[4] = "" THEN <<>> ELSE Token(":") \o Name(n[4])) \o FunText(n[5], FALSE, n[6])
    [] n[1] = "localfunc" -> Token("local") \o Token("function") \o Name(n[2]) \o FunText(n[3], FALSE, n[4])
    [] n[1] = "label" -> Token("::") \o Name(n[2]) \o Token("::")
    [] n[1] = "goto" -> Token("goto") \o Name(n[2])
    [] n[1] = "return" -> Token("return") \o TextList(n[2])

---------------------------------------------------------------------------
(* Legality: break is in a loop, "..." in a vararg function, a goto sees its *)
(* label without entering the scope of a local, and no block has a label     *)
(* twice.  p tells what is around: labels in sight, loop, vararg.            *)

LocalStat(n) == n[1] \in {"local", "localfunc"}
Void(n) == n[1] \in {"label", ";"}

\* The labels the i-th statement sees in its own block: not one after a local
\* declaration, unless only void statements follow it (and no "until", whose
\* condition is in the scope too).
Sees(ns, i, until) ==
  {ns[j][2] : j \in {j \in DOMAIN ns :
     /\ ns[j][1] = "label"
     /\ \/ j < i
        \/ \A k \in i..j : ~LocalStat(ns[k])
        \/ ~until /\ \A k \in j..Len(ns) : Void(ns[k])}}

RECURSIVE Lawful(_, _)
AllLawful(ns, p) == \A n \in Range(ns) : Lawful(n, p)
LawfulSeq(ns, p, until) ==
  /\ \A i, j \in DOMAIN ns : i < j /\ ns[i][1] = "label" => ns[i] # ns[j]
  /\ \A i \in DOMAIN ns : Lawful(ns[i], [p EXCEPT !.labels = @ \cup Sees(ns, i, until)])
LawfulBlock(ns, p) == LawfulSeq(ns, p, FALSE)
Lawful(n, p) ==
  LET Loop(ns) == LawfulBlock(ns, [p EXCEPT !.loop = TRUE])
      Body(ns, vararg) == LawfulBlock(ns, [labels |-> {}, loop |-> FALSE, dots |-> vararg])
  IN CASE n[1] = "break" -> p.loop
       [] n[1] = "goto" -> n[2] \in p.labels
       [] n[1] = "..." -> p.dots
       [] n[1] = "fun" -> Body(n[4], n[3])
       [] n[1] = "function" -> Body(n[6], FALSE)
       [] n[1] = "localfunc" -> Body(n[4], FALSE)
       [] n[1] = "do" -> LawfulBlock(n[2], p)
       [] n[1] = "while" -> Lawful(n[2], p) /\ Loop(n[3])
       [] n[1] = "repeat" -> LawfulSeq(n[2], [p EXCEPT !.loop = TRUE], TRUE) /\ Lawful(n[3], p)
       [] n[1] \in {"fornum", "forin"} -> AllLawful(n[3], p) /\ Loop(n[4])
       [] n[1] = "if" -> /\ Lawful(n[2], p) /\ LawfulBlock(n[3], p) /\ LawfulBlock(n[5], p)
                         /\ \A e \in Range(n[4]) : Lawful(e[1], p) /\ LawfulBlock(e[2], p)
       [] n[1] \in {"call", "callwith"} -> Lawful(n[2], p) /\ IF n[1] = "call" THEN AllLawful(n[3], p) ELSE Lawful(n[3], p)
       [] n[1] = "method" -> Lawful(n[2], p) /\ AllLawful(n[4], p)
       [] n[1] = "bin" -> Lawful(n[3], p) /\ Lawful(n[4], p)
       [] n[1] \in {"un", "named"} -> Lawful(n[3], p)
       [] n[1] \in {"index", "keyed"} -> Lawful(n[2], p) /\ Lawful(n[3], p)
       [] n[1] \in {"field", "paren", "item"} -> Lawful(n[2], p)
       [] n[1] \in {"table", "return"} -> AllLawful(n[2], p)
       [] n[1] = "local" -> AllLawful(n[3], p)
       [] n[1] = "assign" -> AllLawful(n[2], p) /\ AllLawful(n[3], p)
       [] OTHER -> TRUE

Legal(program) == LawfulBlock(program, [labels |-> {}, loop |-> FALSE, dots |-> TRUE])

---------------------------------------------------------------------------
(* Meaning.  A state s has a cell for each variable, the tables, the        *)
(* closures, the calls of f so far, and whether an error has happened; a    *)
(* result has the state, values, the environment after a statement and how  *)
(* it ended: <<>>, <<"break">>, <<"goto", label>> or <<"return">>.           *)

First(v) == IF v = <<>> THEN NilV ELSE v[1]
Fit(v, n) == [i \in 1..n |-> IF i <= Len(v) THEN v[i] ELSE NilV]
R(s, v, env, go) == [s |-> s, v |-> v, env |-> env, go |-> go]
Failed(s, env) == R([s EXCEPT !.err = TRUE], <<NilV>>, env, <<"error">>)

NewCells(s, vals) == [s EXCEPT !.cells = @ \o vals]
Bind(env, s, xs) ==   \* the cells are those added after the state s
  [env EXCEPT !.vars = [x \in DOMAIN env.vars \cup Range(xs) |->
     IF x \in Range(xs) THEN Len(s.cells) + CHOOSE i \in DOMAIN xs : xs[i] = x /\ \A j \in DOMAIN xs : xs[j] = x => j <= i
     ELSE env.vars[x]]]
Field(s, t, k) == IF k \in DOMAIN s.tabs[t.id] THEN s.tabs[t.id][k] ELSE NilV
SetField(s, t, k, v) ==
  [s EXCEPT !.tabs[t.id] = IF v = NilV THEN [j \in DOMAIN @ \ {k} |-> @[j]]
                           ELSE [j \in DOMAIN @ \cup {k} |-> IF j = k THEN v ELSE @[j]]]
LengthOf(s, v) == IF v.t = "str" THEN Len(v.s) ELSE Cardinality({k \in DOMAIN s.tabs[v.id] : k.t = "int" /\ k.n > 0})
Written(v) == IF v.t = "int" THEN ToString(v.n) ELSE v.s
Global == [t |-> "tab", id |-> 1]

Binary(op, a, b) ==   \* <<>> for an error
  CASE op = "eq" -> <<BoolV(a = b)>> [] op = "ne" -> <<BoolV(a # b)>>
    [] op = "CONCAT" -> IF {a.t, b.t} \subseteq {"int", "str"} THEN <<StrV(Written(a) \o Written(b))>> ELSE <<>>
    [] a.t # "int" \/ b.t # "int" -> <<>>
    [] op = "ADD" -> <<NumV(a.n + b.n)>> [] op = "SUB" -> <<NumV(a.n - b.n)>> [] op = "MUL" -> <<NumV(a.n * b.n)>>
    [] op = "lt" -> <<BoolV(a.n < b.n)>> [] op = "le" -> <<BoolV(a.n <= b.n)>>
    [] op = "gt" -> <<BoolV(a.n > b.n)>> [] op = "ge" -> <<BoolV(a.n >= b.n)>>
Unary(s, op, a) ==
  CASE op = "NOT" -> <<BoolV(~True(a))>>
    [] op = "SUB" -> IF a.t = "int" THEN <<NumV(-a.n)>> ELSE <<>>
    [] op = "LEN" -> IF a.t \in {"tab", "str"} THEN <<NumV(LengthOf(s, a))>> ELSE <<>>

RECURSIVE Ev(_, _, _)

Or(r, v) == IF v = <<>> THEN Failed(r.s, r.env) ELSE R(r.s, v, r.env, <<>>)

\* A list: one value each, and all values of the last one.
EvList(ns, env, s) ==
  LET Step(acc, n) == LET r == Ev(n, env, acc.s) IN [s |-> r.s, v |-> acc.v \o (IF acc.left = 1 THEN r.v ELSE <<First(r.v)>>), left |-> acc.left - 1]
  IN FoldLeft(Step, [s |-> s, v |-> <<>>, left |-> Len(ns)], ns)

Apply(s, env, fn, args) ==
  CASE s.err -> Failed(s, env)
    [] fn.t = "ext" -> R([s EXCEPT !.trace = Append(@, args)], args, env, <<>>)
    [] fn.t = "fun" ->
         LET c == s.clos[fn.id]
             inner == [Bind(c.env, s, c.params) EXCEPT !.dots = IF c.dots THEN SubSeq(args, Len(c.params) + 1, Len(args)) ELSE <<>>]
             r == Ev(<<"seq", c.body, 1, <<>>>>, inner, NewCells(s, Fit(args, Len(c.params))))
         IN R(r.s, IF r.go = <<"return">> THEN r.v ELSE <<>>, env, <<>>)
    [] OTHER -> Failed(s, env)

\* The place a variable of an assignment stands for.
Place(acc, n, env) ==
  CASE n[1] = "var" -> [s |-> acc.s, v |-> Append(acc.v, IF n[2] \in DOMAIN env.vars THEN <<"cell", env.vars[n[2]]>>
                                                         ELSE <<"field", Global, StrV(n[2])>>)]
    [] n[1] \in {"index", "field"} ->
         LET t == Ev(n[2], env, acc.s)
             k == IF n[1] = "field" THEN R(t.s, <<StrV(n[3])>>, env, <<>>) ELSE Ev(n[3], env, t.s)
         IN [s |-> k.s, v |-> Append(acc.v, <<"field", First(t.v), First(k.v)>>)]
Assign(s, place, v) ==
  CASE s.err -> s
    [] place[1] = "cell" -> [s EXCEPT !.cells[place[2]] = v]
    [] OTHER -> IF place[2].t # "tab" \/ place[3] = NilV THEN [s EXCEPT !.err = TRUE] ELSE SetField(s, place[2], place[3], v)

\* The items of a constructor, list items numbered from acc.n.
Item(acc, n, env) ==
  LET k == IF n[1] = "keyed" THEN Ev(n[2], env, acc.s) ELSE R(acc.s, <<IF n[1] = "named" THEN StrV(n[2]) ELSE NumV(acc.n)>>, env, <<>>)
      r == Ev(n[Len(n)], env, k.s)
      vals == IF n[1] = "item" /\ acc.left = 1 THEN r.v ELSE <<First(r.v)>>
      Store(s, i) == SetField(s, acc.t, IF n[1] = "item" THEN NumV(acc.n + i - 1) ELSE First(k.v), vals[i])
  IN [acc EXCEPT !.s = IF r.s.err THEN r.s ELSE FoldLeft(Store, r.s, [i \in DOMAIN vals |-> i]),
                 !.n = IF n[1] = "item" THEN @ + Len(vals) ELSE @, !.left = @ - 1]

\* After the body of a loop: go on, stop, or leave with a return or a goto.
AfterBody(r, env, again) ==
  CASE r.s.err -> Failed(r.s, env)
    [] r.go = <<>> -> Ev(again, env, r.s)
    [] r.go = <<"break">> -> R(r.s, <<>>, env, <<>>)
    [] OTHER -> [r EXCEPT !.env = env]
Scope(r, env) == [r EXCEPT !.env = env]

LabelAt(ns, go) == IF Len(go) = 2 THEN {j \in DOMAIN ns : ns[j] = <<"label", go[2]>>} ELSE {}

Ev(n, env, s) ==
  CASE s.err -> Failed(s, env)
    [] n[1] = "nil" -> R(s, <<NilV>>, env, <<>>)
    [] n[1] \in {"true", "false"} -> R(s, <<BoolV(n[1] = "true")>>, env, <<>>)
    [] n[1] = "int" -> R(s, <<NumV(n[2])>>, env, <<>>)
    [] n[1] = "string" -> R(s, <<StrV(n[2])>>, env, <<>>)
    [] n[1] = "..." -> R(s, env.dots, env, <<>>)
    [] n[1] = "var" -> R(s, <<IF n[2] \in DOMAIN env.vars THEN s.cells[env.vars[n[2]]] ELSE Field(s, Global, StrV(n[2]))>>, env, <<>>)
    [] n[1] = "paren" -> LET r == Ev(n[2], env, s) IN [r EXCEPT !.v = <<First(@)>>]
    [] n[1] = "fun" -> R([s EXCEPT !.clos = Append(@, [params |-> n[2], dots |-> n[3], body |-> n[4], env |-> env])],
                         <<[t |-> "fun", id |-> Len(s.clos) + 1]>>, env, <<>>)
    [] n[1] = "un" -> LET a == Ev(n[3], env, s) IN IF a.s.err THEN a ELSE Or(a, Unary(a.s, n[2], First(a.v)))
    [] n[1] = "bin" /\ n[2] \in {"and", "or"} ->
         LET a == Ev(n[3], env, s)
             b == Ev(n[4], env, a.s)
         IN IF a.s.err \/ True(First(a.v)) = (n[2] = "or") THEN R(a.s, <<First(a.v)>>, env, <<>>) ELSE R(b.s, <<First(b.v)>>, env, <<>>)
    [] n[1] = "bin" -> LET a == Ev(n[3], env, s)
                           b == Ev(n[4], env, a.s)
                       IN IF b.s.err THEN b ELSE Or(b, Binary(n[2], First(a.v), First(b.v)))
    [] n[1] \in {"index", "field"} ->
         LET p == Place([s |-> s, v |-> <<>>], n, env) IN
         IF p.s.err \/ p.v[1][2].t # "tab" THEN Failed(p.s, env) ELSE R(p.s, <<Field(p.s, p.v[1][2], p.v[1][3])>>, env, <<>>)
    [] n[1] \in {"call", "callwith"} ->
         LET fn == Ev(n[2], env, s)
             args == EvList(IF n[1] = "call" THEN n[3] ELSE <<n[3]>>, env, fn.s)
         IN Apply(args.s, env, First(fn.v), args.v)
    [] n[1] = "method" ->
         LET o == Ev(n[2], env, s)
             self == First(o.v)
             args == EvList(n[4], env, o.s)
         IN IF o.s.err \/ self.t # "tab" THEN Failed(o.s, env)
            ELSE Apply(args.s, env, Field(o.s, self, StrV(n[3])), <<self>> \o args.v)
    [] n[1] = "table" ->
         LET t == [t |-> "tab", id |-> Len(s.tabs) + 1]
             r == FoldLeft(LAMBDA acc, i : Item(acc, i, env),
                           [s |-> [s EXCEPT !.tabs = Append(@, <<>>)], t |-> t, n |-> 1, left |-> Len(n[2])], n[2])
         IN R(r.s, <<t>>, env, <<>>)
    [] n[1] = "local" -> LET r == EvList(n[3], env, s)
                         IN R(NewCells(r.s, Fit(r.v, Len(n[2]))), <<>>, Bind(env, r.s, n[2]), <<>>)
    [] n[1] = "localfunc" ->
         LET inner == Bind(env, s, <<n[2]>>)
             r == Ev(<<"fun", n[3], FALSE, n[4]>>, inner, NewCells(s, <<NilV>>))
         IN R([r.s EXCEPT !.cells[Len(s.cells) + 1] = r.v[1]], <<>>, inner, <<>>)
    [] n[1] = "function" ->
         LET into == FoldLeft(LAMBDA e, x : <<"field", e, x>>, <<"var", n[2]>>, n[3] \o (IF n[4] = "" THEN <<>> ELSE <<n[4]>>))
         IN Ev(<<"assign", <<into>>, <<<<"fun", (IF n[4] = "" THEN <<>> ELSE <<"self">>) \o n[5], FALSE, n[6]>>>>>>, env, s)
    [] n[1] = "assign" ->
         LET places == FoldLeft(LAMBDA acc, p : Place(acc, p, env), [s |-> s, v |-> <<>>], n[2])
             r == EvList(n[3], env, places.s)
             vals == Fit(r.v, Len(n[2]))
             after == FoldRight(LAMBDA i, st : Assign(st, places.v[i], vals[i]), [i \in DOMAIN n[2] |-> i], r.s)
         IN R(after, <<>>, env, IF after.err THEN <<"error">> ELSE <<>>)
    [] n[1] \in {";", "label"} -> R(s, <<>>, env, <<>>)
    [] n[1] = "goto" -> R(s, <<>>, env, n)
    [] n[1] = "break" -> R(s, <<>>, env, n)
    [] n[1] = "return" -> LET r == EvList(n[2], env, s) IN R(r.s, r.v, env, <<"return">>)
    [] n[1] = "do" -> Scope(Ev(<<"seq", n[2], 1, <<>>>>, env, s), env)
    [] n[1] = "if" ->
         LET c == Ev(n[2], env, s)
             others == IF n[4] = <<>> THEN <<"do", n[5]>> ELSE <<"if", n[4][1][1], n[4][1][2], Tail(n[4]), n[5]>>
         IN IF c.s.err THEN c
            ELSE IF True(First(c.v)) THEN Scope(Ev(<<"seq", n[3], 1, <<>>>>, env, c.s), env)
            ELSE Ev(others, env, c.s)
    [] n[1] = "while" ->
         LET c == Ev(n[2], env, s) IN
         IF c.s.err \/ ~True(First(c.v)) THEN R(c.s, <<>>, env, <<>>)
         ELSE AfterBody(Ev(<<"seq", n[3], 1, <<>>>>, env, c.s), env, n)
    [] n[1] = "repeat" ->
         LET r == Ev(<<"seq", n[2], 1, <<>>>>, env, s)
             c == Ev(n[3], r.env, r.s)
         IN IF r.go # <<>> THEN AfterBody(r, env, n)
            ELSE IF c.s.err THEN c
            ELSE IF True(First(c.v)) THEN R(c.s, <<>>, env, <<>>) ELSE Ev(n, env, c.s)
    [] n[1] = "fornum" ->
         LET r == EvList(n[3], env, s)
             step == IF Len(n[3]) = 3 THEN r.v[3] ELSE NumV(1)
         IN IF r.s.err \/ r.v[1].t # "int" \/ r.v[2].t # "int" \/ step.t # "int" THEN Failed(r.s, env)
            ELSE Ev(<<"counting", n[2], r.v[1].n, r.v[2].n, step.n, n[4]>>, env, r.s)
    [] n[1] = "counting" ->
         IF IF n[5] > 0 THEN n[3] > n[4] ELSE n[3] < n[4] THEN R(s, <<>>, env, <<>>)
         ELSE AfterBody(Ev(<<"seq", n[6], 1, <<>>>>, Bind(env, s, <<n[2]>>), NewCells(s, <<NumV(n[3])>>)),
                        env, [n EXCEPT ![3] = @ + n[5]])
    [] n[1] = "forin" ->
         LET r == EvList(n[3], env, s)
             v == Fit(r.v, 3)
         IN Ev(<<"iterating", n[2], v[1], v[2], v[3], n[4]>>, env, r.s)
    [] n[1] = "iterating" ->
         LET r == Apply(s, env, n[3], <<n[4], n[5]>>)
             v == Fit(r.v, Len(n[2]))
         IN IF r.s.err THEN r
            ELSE IF v[1] = NilV THEN R(r.s, <<>>, env, <<>>)
            ELSE AfterBody(Ev(<<"seq", n[6], 1, <<>>>>, Bind(env, r.s, n[2]), NewCells(r.s, v)), env, [n EXCEPT ![5] = v[1]])
    [] n[1] = "seq" ->   \* the statements from the i-th on; n[4]: the environment at each label passed
         LET ns == n[2]
             i == n[3]
             passed == [j \in 1..i |-> IF j = i THEN env ELSE n[4][j]]
             r == Ev(ns[i], env, s)
             to == LabelAt(ns, r.go)
             j == CHOOSE j \in to : TRUE
         IN IF i > Len(ns) THEN R(s, <<>>, env, <<>>)
            ELSE IF r.go = <<>> THEN Ev(<<"seq", ns, i + 1, passed>>, r.env, r.s)
            ELSE IF to = {} \/ r.s.err THEN r
            ELSE IF j <= i THEN Ev(<<"seq", ns, j, SubSeq(passed, 1, j - 1)>>, passed[j], r.s)
            ELSE Ev(<<"seq", ns, j, passed \o [k \in 1..j - i - 1 |-> env]>>, env, r.s)

\* The program runs with the arguments 8 and 9 and the global f.
Meaning(program) ==
  LET start == [cells |-> <<>>, tabs |-> <<[k \in {StrV("f")} |-> [t |-> "ext"]]>>, clos |-> <<>>, trace |-> <<>>, err |-> FALSE]
      r == Ev(<<"seq", program, 1, <<>>>>, [vars |-> <<>>, dots |-> <<NumV(8), NumV(9)>>], start)
  IN [trace |-> r.s.trace, err |-> r.s.err,
      values |-> IF r.s.err \/ r.go # <<"return">> THEN <<>> ELSE r.v]
=============================================================================
