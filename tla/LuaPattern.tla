------------------------------ MODULE LuaPattern ------------------------------
(* What a pattern means, as Lua's manual (6.4.1) says it: a pattern is a      *)
(* sequence of items, a match a way to lay the items side by side over the    *)
(* subject, and of all the ways the preferred one counts: the one in which    *)
(* the first item that differs takes more characters, or fewer if it is lazy. *)
(* Nothing is tried and undone here.  The matcher is held against this.       *)
EXTENDS Naturals, Integers, Sequences, FiniteSets

LOCAL Least(S) == CHOOSE x \in S : \A y \in S : x <= y

\* The items, each with the text that writes it.
Chars(set, text, rep) == [kind |-> "chars", set |-> set, rep |-> rep,
                          text |-> IF rep = "" THEN text ELSE Append(text, rep)]
Open == [kind |-> "open", text |-> <<"(">>]
Close == [kind |-> "close", text |-> <<")">>]
Place == [kind |-> "position", text |-> <<"(", ")">>]
Balance(x, y) == [kind |-> "balance", open |-> x, close |-> y, text |-> <<"%", "b", x, y>>]
Frontier(set, text) == [kind |-> "frontier", set |-> set, text |-> <<"%", "f">> \o text]
Back(n, digit) == [kind |-> "back", n |-> n, text |-> <<"%", digit>>]
End == [kind |-> "end", text |-> <<"$">>]
Malformed(text) == [kind |-> "malformed", text |-> text]

RECURSIVE Write(_)
Write(items) == IF items = <<>> THEN <<>> ELSE Head(items).text \o Write(Tail(items))

----------------------------------------------------------------------------
(* Captures, numbered by where they open.                                    *)
Openers(items) == {i \in DOMAIN items : items[i].kind \in {"open", "position"}}
\* The captures that item i closes: those open before it with no close left.
Opens(items, i, j) == Cardinality({k \in i..j : items[k].kind = "open"})
Closes(items, i, j) == Cardinality({k \in i..j : items[k].kind = "close"})
ClosersOf(items, i) == {j \in i..Len(items) : Opens(items, i, j) = Closes(items, i, j)}
Opener(items, n) == CHOOSE i \in Openers(items) : Cardinality({k \in Openers(items) : k <= i}) = n

\* A pattern the manual gives a meaning to.
Legal(items) ==
  /\ \A i \in DOMAIN items : items[i].kind # "malformed"
  /\ \A i \in DOMAIN items : items[i].kind = "open" => ClosersOf(items, i) # {}
  /\ \A i \in DOMAIN items : Closes(items, 1, i) <= Opens(items, 1, i)
  /\ \A i \in DOMAIN items : items[i].kind = "end" => i = Len(items)
  /\ \A i \in DOMAIN items : items[i].kind = "back" =>
       /\ items[i].n \in 1..Cardinality(Openers(items))
       /\ LET o == Opener(items, items[i].n)
          IN items[o].kind = "open" /\ Least(ClosersOf(items, o)) < i

\* The capture that opens at i: what lies between, or a place.  d[i] is where
\* item i begins.
CaptureAt(items, d, i) ==
  IF items[i].kind = "position" THEN [init |-> d[i], len |-> -2]
  ELSE [init |-> d[i], len |-> d[Least(ClosersOf(items, i))] - d[i]]
CapturesOf(items, d) ==
  [n \in 1..Cardinality(Openers(items)) |-> CaptureAt(items, d, Opener(items, n))]

----------------------------------------------------------------------------
(* Where item i may end when it begins at d[i].                              *)
Times(rep) == CASE rep = "" -> {1} [] rep = "?" -> {0, 1} [] rep = "+" -> 1..50 [] OTHER -> 0..50
LOCAL CharAt(src, i) == IF i \in DOMAIN src THEN src[i] ELSE "NUL"
Count(src, c, i, j) == Cardinality({k \in i..j : src[k] = c})

BalancedEnds(src, x, y, a) ==
  LET ends == {b \in a + 2..Len(src) + 1 :
                 IF x = y THEN src[b - 1] = y ELSE Count(src, x, a, b - 1) = Count(src, y, a, b - 1)}
  IN IF CharAt(src, a) # x \/ ends = {} THEN {} ELSE {Least(ends)}

Ends(items, src, d) ==
  LET i == Len(d)
      a == d[i]
      item == items[i]
      end == Len(src) + 1
      Captured == CaptureAt(items, d, Opener(items, item.n))
  IN CASE item.kind = "chars" ->
            {b \in a..end : b - a \in Times(item.rep) /\ \A k \in a..b - 1 : src[k] \in item.set}
       [] item.kind \in {"open", "close", "position"} -> {a}
       [] item.kind = "balance" -> BalancedEnds(src, item.open, item.close, a)
       [] item.kind = "frontier" ->
            IF CharAt(src, a - 1) \notin item.set /\ CharAt(src, a) \in item.set THEN {a} ELSE {}
       [] item.kind = "back" ->
            {b \in a..end : SubSeq(src, a, b - 1) = SubSeq(src, Captured.init, Captured.init + Captured.len - 1)}
       [] OTHER -> {end} \cap {a}

\* All ways to lay the items over the subject from s on.
RECURSIVE Extend(_, _, _)
Extend(items, src, D) ==
  IF \A d \in D : Len(d) = Len(items) + 1 THEN D
  ELSE Extend(items, src, UNION {{Append(d, b) : b \in Ends(items, src, d)} : d \in D})
Layouts(items, src, s) == Extend(items, src, {<<s>>})

Lazy(item) == item.kind = "chars" /\ item.rep = "-"
Preferred(items, d, e) ==
  \/ d = e
  \/ LET i == Least({k \in DOMAIN d : d[k] # e[k]})
     IN IF Lazy(items[i - 1]) THEN d[i] < e[i] ELSE d[i] > e[i]

----------------------------------------------------------------------------
(* The match at s, and the first one from s on; 0 says that there is none.   *)
None == [from |-> 0, to |-> 0, captures |-> <<>>]
MatchAt(items, src, s) ==
  LET Laid(d) == [from |-> s, to |-> d[Len(d)], captures |-> CapturesOf(items, d)]
      Best(D) == IF D = {} THEN None ELSE Laid(CHOOSE d \in D : \A e \in D : Preferred(items, d, e))
  IN Best(Layouts(items, src, s))

FirstMatch(items, src, s, anchored) ==
  LET First(M) == IF M = {} THEN None ELSE CHOOSE m \in M : \A m2 \in M : m.from <= m2.from
  IN First({MatchAt(items, src, i) : i \in s..(IF anchored THEN s ELSE Len(src) + 1)} \ {None})

\* The matches gmatch gives and gsub replaces, from s on, "max" at most: each
\* is looked for where the one before ended, or one character further on if
\* that one was empty.  An anchored pattern has one match.
RECURSIVE AllMatches(_, _, _, _, _)
AllMatches(items, src, s, anchored, max) ==
  LET Next(m) == IF m.to = m.from THEN m.to + 1 ELSE m.to
      From(m) == IF m.from = 0 THEN <<>>
                 ELSE <<m>> \o (IF anchored THEN <<>> ELSE AllMatches(items, src, Next(m), FALSE, max - 1))
  IN IF max <= 0 \/ s > Len(src) + 1 THEN <<>> ELSE From(FirstMatch(items, src, s, anchored))

\* The subject from s on with new[i] for the i-th of the matches.
RECURSIVE Substituted(_, _, _, _)
Substituted(src, s, matches, new) ==
  IF matches = <<>> THEN SubSeq(src, s, Len(src))
  ELSE SubSeq(src, s, Head(matches).from - 1) \o Head(new)
       \o Substituted(src, Head(matches).to, Tail(matches), Tail(new))
=============================================================================
