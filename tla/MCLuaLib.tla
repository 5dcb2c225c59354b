------------------------------ MODULE MCLuaLib ------------------------------
(* The calls of run library. *)
EXTENDS LuaStrLib, LuaTabLib, LuaStringTable, LuaUtf8

Strings(chars, n) == UNION {[1..k -> chars] : k \in 0..n}

A(rep) == P!Chars({"a"}, <<"a">>, rep)
Any(rep) == P!Chars(Alphabet, <<".">>, rep)
Word(rep) == P!Chars(Class.w, <<"%", "w">>, rep)
NotWord(rep) == P!Chars(Alphabet \ Class.w, <<"%", "W">>, rep)
AorB(rep) == P!Chars({"a", "b"}, <<"[", "a", "-", "b", "]">>, rep)
NotA(rep) == P!Chars(Alphabet \ {"a"}, <<"[", "^", "a", "]">>, rep)
Bracket(rep) == P!Chars({"]", "(", "-"}, <<"[", "]", "%", "(", "-", "]">>, rep)
Paren(rep) == P!Chars({"("}, <<"%", "(">>, rep)
Back1 == P!Back(1, "1")

NoRepl == [kind |-> "string", text |-> <<>>, parts |-> <<>>, fields |-> <<>>, returns |-> "nil"]
CallOf(fn, src, pat) ==
  [fn |-> fn, src |-> src, pat |-> pat, i |-> 1, j |-> 100, plain |-> FALSE, repl |-> NoRepl, items |-> <<>>, anchored |-> FALSE]
Looks(fn, p, anchored, src) ==
  [CallOf(fn, src, IF anchored THEN <<"^">> \o P!Write(p) ELSE P!Write(p)) EXCEPT !.items = p, !.anchored = anchored]

\* The patterns of up to n of the items, where the text says what the items do:
\* "(" and ")" side by side are something else, and so is what follows a "%"
\* or a "[" that is not ended.
Patterns(S, n) ==
  {p \in UNION {[1..k -> S] : k \in 0..n} :
     \A i \in 1..Len(p) - 1 : p[i].kind # "malformed" /\ ~(p[i] = P!Open /\ p[i + 1] = P!Close)}

\* Items that backtrack, on every short string of two characters.
Backtracking ==
  {Looks("match", p, FALSE, s) :
     p \in Patterns({A(""), A("*"), A("-"), AorB("?"), Any("+"), P!Open, P!Close, Back1}, 3), s \in Strings({"a", "b"}, 3)}
Nested ==
  {<<P!Open, A("*"), P!Open, Any("-"), P!Close, AorB("?"), P!Close, P!Back(2, "2"), A("")>>,
   <<P!Open, AorB("*"), P!Close, Any("-"), Back1, P!End>>,
   <<P!Place, A("*"), P!Open, NotA("+"), P!Place, P!Close>>,
   <<P!Open, P!Open, A("?"), P!Close, AorB("*"), P!Close, P!Back(2, "2"), Back1>>,
   <<P!Open, P!Open, P!Open, P!Open>>}
Deep == {Looks(fn, p, anchored, s) : fn \in {"match", "find", "gmatch"}, p \in Nested, anchored \in {TRUE, FALSE},
                                     s \in Strings({"a", "b"}, 4)}

\* Every kind of item, on subjects with brackets and marks.
Kinds == {A(""), Any("-"), Word("+"), NotWord(""), NotA("*"), Bracket("?"), Paren(""), P!Open, P!Close, P!Place, Back1,
          P!Balance("(", ")"), P!Balance("a", "a"), P!Frontier(Class.w, <<"[", "%", "w", "]">>),
          P!Frontier(Alphabet \ {"a"}, <<"[", "^", "a", "]">>), P!End,
          P!Malformed(<<"%">>), P!Malformed(<<"[", "a">>), P!Malformed(<<"%", "b", "a">>), P!Malformed(<<"%", "f", "a">>),
          P!Malformed(<<"%", "0">>)}
Subjects == {<<>>, <<"a">>, <<"a", " ", "b", "1">>, <<"(", "a", "(", ")", ")", "a">>, <<"a", ")", "(", "]", "-">>, <<"a", "b", "a", "a">>}
AllKinds == {Looks(fn, p, anchored, s) : fn \in {"find", "gmatch"}, p \in Patterns(Kinds, 2), anchored \in {TRUE, FALSE}, s \in Subjects}

\* find with no special character, or asked to ignore them, from any position.
Plain == {[Looks("find", p, FALSE, s) EXCEPT !.i = i, !.plain = plain] :
            p \in Patterns({A(""), A("*"), P!Close}, 2), s \in Strings({"a", "*"}, 3), i \in -4..5, plain \in {TRUE, FALSE}}

Lit(written, text) == [kind |-> "text", written |-> written, text |-> text, n |-> 0]
X == Lit(<<"x">>, <<"x">>)
Percent == Lit(<<"%", "%">>, <<"%">>)
Whole == [X EXCEPT !.kind = "whole", !.written = <<"%", "0">>]
Cap(n, digit) == [X EXCEPT !.kind = "capture", !.written = <<"%", digit>>, !.n = n]
BadPart(written) == [X EXCEPT !.kind = "bad", !.written = written]
RECURSIVE Written(_)
Written(parts) == IF parts = <<>> THEN <<>> ELSE Head(parts).written \o Written(Tail(parts))

Replacements ==
  {[NoRepl EXCEPT !.text = Written(parts), !.parts = parts] :
     parts \in {<<>>, <<X>>, <<Cap(1, "1"), X>>, <<Percent, Whole>>, <<Cap(2, "2")>>, <<X, BadPart(<<"%">>)>>, <<BadPart(<<"%", "x">>)>>}}
  \cup {[NoRepl EXCEPT !.kind = "function", !.returns = r] : r \in {"nil", "text", "other"}}
  \cup {[NoRepl EXCEPT !.kind = "table", !.fields = [t \in {<<"a">>, <<"b">>, <<>>} |->
            [kind |-> CASE t = <<"a">> -> "text" [] t = <<"b">> -> "nil" [] OTHER -> other, text |-> <<"x", "x">>]]] : other \in {"text", "other"}}
Substitutions ==
  {[Looks("gsub", p, anchored, s) EXCEPT !.repl = r, !.j = max] :
     p \in {<<A("*")>>, <<Any("")>>, <<P!Place, AorB("")>>, <<P!Open, A("-"), P!Close, AorB("")>>, <<P!Open, AorB("-"), P!Close, P!Place>>,
            <<P!Frontier({"a"}, <<"[", "a", "]">>)>>, <<P!Open, A("")>>, <<P!Malformed(<<"%">>)>>},
     anchored \in {TRUE, FALSE}, s \in {<<>>, <<"a">>, <<"b", "a">>, <<"a", "a", "b", "a">>, <<"b", "b", "a">>}, r \in Replacements, max \in {0, 1, 100}}

Pieces ==
  {[CallOf(fn, s, <<>>) EXCEPT !.i = i, !.j = j] : fn \in {"sub", "byte"}, s \in {<<>>, <<"a">>, <<"a", "b", "c">>}, i \in -5..5, j \in -5..5 \cup {100}}
  \cup {[CallOf("rep", s, sep) EXCEPT !.i = n] : s \in {<<>>, <<"a">>, <<"a", "b">>}, sep \in {<<>>, <<" ">>}, n \in -1..9}
  \cup {CallOf("reverse", s, <<>>) : s \in {<<>>, <<"a">>, <<"a", "b", "c">>}}

MCFamilies == {"backtracking", "deep", "kinds", "plain", "substitutions", "pieces"}
MCCalls(family) ==
  CASE family = "backtracking" -> Backtracking [] family = "deep" -> Deep [] family = "kinds" -> AllKinds
    [] family = "plain" -> Plain [] family = "substitutions" -> Substitutions [] OTHER -> Pieces
MCLimits == {[depth |-> 200, areps |-> 4, breps |-> 100000], [depth |-> 4, areps |-> 1, breps |-> 1]}

----------------------------------------------------------------------------
(* Tables: with holes, with values that are no strings; integers at both ends. *)
Table(seq) == [k \in Integer |-> IF k \in DOMAIN seq THEN seq[k] ELSE nil]
TabCall(fn, seq) ==
  [fn |-> fn, table |-> Table(seq), table2 |-> Table(<<3, 3>>), i |-> NotGiven, j |-> NotGiven, k |-> 0, v |-> 3,
   to |-> "none", order |-> "less"]
Rows3 == {<<>>, <<1>>, <<1, 2, 3>>, <<1, nil, 3>>, <<nil, 2>>, <<1, Other, 2, 1>>}
Few == {-8, -7, -1, 0, 1, 2, 3, 4, 6, 7}
Edits == {[TabCall(fn, s) EXCEPT !.i = i] : fn \in {"insert", "remove"}, s \in Rows3, i \in Few \cup {NotGiven}}
Reads == {[TabCall(fn, s) EXCEPT !.i = i, !.j = j] : fn \in {"concat", "unpack"}, s \in Rows3, i \in Few, j \in Few \cup {NotGiven}}
Moves == {[TabCall("move", <<1, 2, 3, nil, 1>>) EXCEPT !.i = i, !.j = j, !.k = k, !.to = to] :
            i \in Integer, j \in Integer, k \in Few, to \in {"none", "same", "other"}}
Sorts ==
  {TabCall("sort", s) : s \in UNION {[1..n -> 1..3] : n \in 0..5}}
  \cup {TabCall("sort", s) : s \in {<<6, 5, 4, 3, 2, 1>>, <<2, 1, 1, 1, 1, 1>>, <<1, 2, 3, 4, 5, 6>>, <<4, 2, 6, 1, 3, 5>>}}
\* Any answer to any comparison: which values there are does not matter.
Chaos == {[TabCall("sort", [i \in 1..n |-> i]) EXCEPT !.order = "any"] : n \in 2..6}
MCTabFamilies == {"edits", "reads", "moves", "sorts", "chaos"}
MCTabCalls(family) ==
  CASE family = "edits" -> Edits [] family = "reads" -> Reads [] family = "moves" -> Moves
    [] family = "sorts" -> Sorts [] OTHER -> Chaos

MCHashOf == [k \in Texts |-> CASE k = "m" -> 0 [] k = "a" -> 2 [] k = "b" -> 4 [] OTHER -> 1]

----------------------------------------------------------------------------
(* Bytes: every sequence of a first byte and up to three others, at both ends *)
(* of each range; characters of each length, whole and cut.                   *)
Utf8Call(fn, s) == [fn |-> fn, s |-> s, i |-> Omitted, j |-> Omitted]
Firsts == {65, 128, 193, 194, 224, 237, 239, 240, 244, 245, 248, 255}
Others == {65, 128, 143, 144, 159, 160, 191}
Sequences == {<<c>> \o s : c \in Firsts, s \in UNION {[1..k -> Others] : k \in 0..3}}
Pieces8 == {<<>>, <<65>>, <<195, 169>>, <<226, 130, 172>>, <<240, 159, 152, 128>>, <<130>>, <<226, 130>>, <<0>>}
Short == {a \o b : a \in Pieces8, b \in Pieces8}
Points == {-1, 0, 127, 128, 2047, 2048, 65535, 65536, MAXUNICODE, MAXUNICODE + 1}
MCUtf8Families == {"sequences", "parts", "offsets", "characters"}
MCUtf8Calls(family) ==
  CASE family = "sequences" ->
         {Utf8Call(fn, s) : fn \in {"len", "codes"}, s \in Sequences} \cup {[Utf8Call("codepoint", s) EXCEPT !.j = -1] : s \in Sequences}
    [] family = "parts" ->
         {[Utf8Call(fn, s) EXCEPT !.i = i, !.j = j] :
            fn \in {"len", "codepoint"}, s \in Short, i \in -5..5 \cup {Omitted}, j \in {-3, -1, 0, 1, 3, 5, Omitted}}
    [] family = "offsets" -> {[Utf8Call("offset", s) EXCEPT !.i = i, !.j = n] : s \in Short, i \in -5..7 \cup {Omitted}, n \in -3..4}
    [] OTHER -> {Utf8Call("char", s) : s \in UNION {[1..k -> Points] : k \in 0..2}}

----------------------------------------------------------------------------
(* One of the four at a time: the others have not begun. *)
NoCall == CallOf("none", <<>>, <<>>)
NoTabCall == TabCall("none", <<>>)
NoStrings == call = NoCall /\ limits = (CHOOSE l \in MCLimits : TRUE) /\ StrStart
NoTables == tcall = NoTabCall /\ TabStart
NoUtf8Call == Utf8Call("none", <<>>)
NoUtf8 == ucall = NoUtf8Call /\ Utf8Start

LibraryInit ==
  \/ StrInit /\ NoTables /\ NoUtf8 /\ PoolInit
  \/ TabInit /\ NoStrings /\ NoUtf8 /\ PoolInit
  \/ Utf8Init /\ NoStrings /\ NoTables /\ PoolInit
  \/ PoolInit /\ NoStrings /\ NoTables /\ NoUtf8
LibraryNext ==
  \/ StrNext /\ UNCHANGED <<tabvars, poolvars, utf8vars>>
  \/ TabNext /\ UNCHANGED <<strvars, poolvars, utf8vars>>
  \/ Utf8Next /\ UNCHANGED <<strvars, tabvars, poolvars>>
  \/ /\ call = NoCall /\ tcall = NoTabCall /\ ucall = NoUtf8Call
     /\ PoolNext /\ UNCHANGED <<strvars, tabvars, utf8vars>>
Spec == LibraryInit /\ [][LibraryNext]_<<strvars, tabvars, poolvars, utf8vars>>
=============================================================================
