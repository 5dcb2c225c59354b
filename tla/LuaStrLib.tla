------------------------------ MODULE LuaStrLib ------------------------------
(* The functions of Lua's string library that cut strings, look for a        *)
(* pattern and replace it (lstrlib.c:61-815).  First the pattern matcher: a  *)
(* backtracking one whose state, the captures above all, is changed and      *)
(* changed back while alternatives are tried.  Then the functions: a         *)
(* behaviour is one call, except that gmatch's iterator is called again and  *)
(* again and keeps the state of the matcher from one call to the next.  Last *)
(* what they are for, next to what they do.                                  *)
(* A string is a sequence of characters, followed as in C by a NUL; a        *)
(* position is 1 for the first.                                              *)
EXTENDS Naturals, Integers, Sequences, FiniteSets

CONSTANT MaxCaptures   \* LUA_MAXCAPTURES
ASSUME CapturesAssumption == MaxCaptures \in Nat \ {0}

----------------------------------------------------------------------------
(* The characters, in the order of their codes, and isalpha and the others.  *)
NUL == "NUL"
Codes == <<NUL, " ", "$", "%", "(", ")", "*", "+", "-", ".", "0", "1", "2", "3", "4", "5", "?", "A", "W",
           "[", "]", "^", "a", "b", "c", "d", "f", "w", "x">>
Alphabet == {Codes[i] : i \in DOMAIN Codes}
Code(c) == CHOOSE i \in DOMAIN Codes : Codes[i] = c
Upper == {"A", "W"}
Lower == {"a", "b", "c", "d", "f", "w", "x"}
Digits == {"0", "1", "2", "3", "4", "5"}
Punct == {"$", "%", "(", ")", "*", "+", "-", ".", "?", "[", "]", "^"}
DigitValue(c) == Code(c) - Code("0")
tolower(c) == CASE c = "A" -> "a" [] c = "W" -> "w" [] OTHER -> c

\* What a class letter stands for; its capital stands for the others.
Class == [a |-> Upper \cup Lower, c |-> {NUL}, d |-> Digits, w |-> Upper \cup Lower \cup Digits,
          x |-> Digits \cup {"A", "a", "b", "c", "d", "f"}]

match_class(c, cl) ==
  IF tolower(cl) \in DOMAIN Class THEN (c \in Class[tolower(cl)]) <=> (cl \in Lower) ELSE c = cl

----------------------------------------------------------------------------
(* The state of a match: the strings, the captures, of which the first       *)
(* "level" count, and what is left of two limits.                            *)
Unfinished == -1   \* CAP_UNFINISHED
Position == -2     \* CAP_POSITION
NULL == 0

At(str, i) == IF i \in DOMAIN str THEN str[i] ELSE NUL

prepstate(src, pat, depth, reps) ==
  [src |-> src, pat |-> pat, level |-> 0, matchdepth |-> depth, nrep |-> reps,
   capture |-> [i \in 1..MaxCaptures |-> [init |-> 1, len |-> Unfinished]]]
reprepstate(ms) == [ms EXCEPT !.level = 0]

src_end(ms) == Len(ms.src) + 1
p_end(ms) == Len(ms.pat) + 1

\* What a function of the matcher does: a position or NULL and the state it
\* leaves, or an error, which leaves the state as it is at that point.
Return(ms, s) == [ms |-> ms, s |-> s, err |-> "none"]
Raise(ms, e) == [ms |-> ms, s |-> NULL, err |-> e]
Raised(r) == r.err # "none"

check_capture(ms, l) ==
  IF l \notin 1..ms.level \/ ms.capture[l].len = Unfinished THEN NULL ELSE l

\* The last capture that is still open, or NULL.
capture_to_close(ms) ==
  LET open == {l \in 1..ms.level : ms.capture[l].len = Unfinished}
  IN IF open = {} THEN NULL ELSE CHOOSE l \in open : \A k \in open : k <= l

\* The end of a set whose next character is at p (the do loop), or NULL.
RECURSIVE set_end(_, _)
set_end(ms, p) ==
  IF p = p_end(ms) THEN NULL
  ELSE LET q == IF ms.pat[p] = "%" /\ p + 1 < p_end(ms) THEN p + 2 ELSE p + 1
       IN IF At(ms.pat, q) = "]" THEN q + 1 ELSE set_end(ms, q)

\* The position after the single-character class at p, or NULL: an error.
classend(ms, p) ==
  CASE ms.pat[p] = "%" -> IF p + 1 = p_end(ms) THEN NULL ELSE p + 2
    [] ms.pat[p] = "[" -> set_end(ms, IF At(ms.pat, p + 1) = "^" THEN p + 2 ELSE p + 1)
    [] OTHER -> p + 1
ClassError(ms, p) ==
  IF ms.pat[p] = "%" THEN "malformed pattern (ends with '%')" ELSE "malformed pattern (missing ']')"

\* Whether c is one of the characters from p to the ']' at ec (the while loop).
RECURSIVE in_set(_, _, _, _)
in_set(pat, c, p, ec) ==
  /\ p < ec
  /\ CASE pat[p] = "%" -> match_class(c, pat[p + 1]) \/ in_set(pat, c, p + 2, ec)
       [] pat[p] # "%" /\ pat[p + 1] = "-" /\ p + 2 < ec ->
            \/ Code(c) \in Code(pat[p])..Code(pat[p + 2])
            \/ in_set(pat, c, p + 3, ec)
       [] OTHER -> pat[p] = c \/ in_set(pat, c, p + 1, ec)

matchbracketclass(pat, c, p, ec) ==
  IF pat[p + 1] = "^" THEN ~in_set(pat, c, p + 2, ec) ELSE in_set(pat, c, p + 1, ec)

singlematch(ms, s, p, ep) ==
  /\ s < src_end(ms)
  /\ LET c == ms.src[s]
     IN CASE ms.pat[p] = "." -> TRUE
          [] ms.pat[p] = "%" -> match_class(c, ms.pat[p + 1])
          [] ms.pat[p] = "[" -> matchbracketclass(ms.pat, c, p, ep - 1)
          [] OTHER -> ms.pat[p] = c

\* The end of the string that opens with b before s and has "cont" to close.
RECURSIVE balance(_, _, _, _, _)
balance(ms, s, b, e, cont) ==
  CASE s >= src_end(ms) -> NULL
    [] s < src_end(ms) /\ ms.src[s] = e /\ cont = 1 -> s + 1
    [] s < src_end(ms) /\ ms.src[s] = e /\ cont # 1 -> balance(ms, s + 1, b, e, cont - 1)
    [] OTHER -> balance(ms, s + 1, b, e, IF ms.src[s] = b THEN cont + 1 ELSE cont)
matchbalance(ms, s, p) ==
  IF At(ms.src, s) # ms.pat[p] THEN NULL ELSE balance(ms, s + 1, ms.pat[p], ms.pat[p + 1], 1)

match_capture(ms, s, l) ==
  LET len == ms.capture[l].len
      \* A position capture's length is a size_t: longer than any subject.
      fits == len # Position /\ src_end(ms) - s >= len
  IN IF fits /\ \A i \in 0..len - 1 : ms.src[ms.capture[l].init + i] = ms.src[s + i] THEN s + len ELSE NULL

\* How often the class at p matches from s on.
Expansion(ms, s, p, ep) ==
  CHOOSE k \in 0..src_end(ms) - s :
    (\A i \in 0..k - 1 : singlematch(ms, s + i, p, ep)) /\ ~singlematch(ms, s + k, p, ep)

----------------------------------------------------------------------------
(* The matcher: whether the pattern from p on matches at s, and where its    *)
(* match ends.  match counts its depth; do_match is its loop ("goto init").     *)
RECURSIVE match(_, _, _), do_match(_, _, _)

\* What the first alternative gives; if it does not match, the second one.
OrElse(r, Second(_)) == IF Raised(r) \/ r.s # NULL THEN r ELSE Second(r.ms)

match(ms, s, p) ==
  LET down == [ms EXCEPT !.matchdepth = @ - 1]
      Up(r) == IF Raised(r) THEN r ELSE [r EXCEPT !.ms.matchdepth = @ + 1]
  IN IF ms.matchdepth = 0 THEN Raise(down, "pattern too complex") ELSE Up(do_match(down, s, p))

\* max_expand: with i repetitions, with one less, ... with none.
RECURSIVE from_longest(_, _, _, _)
from_longest(ms, s, i, ep) ==
  LET OneLess(m) == IF i = 0 THEN Return(m, NULL) ELSE from_longest(m, s, i - 1, ep)
  IN OrElse(match(ms, s + i, ep + 1), OneLess)

\* min_expand: with none, with one, ... as long as the class matches.
RECURSIVE from_shortest(_, _, _, _)
from_shortest(ms, s, p, ep) ==
  LET OneMore(m) == IF singlematch(m, s, p, ep) THEN from_shortest(m, s + 1, p, ep) ELSE Return(m, NULL)
  IN OrElse(match(ms, s, ep + 1), OneMore)

start_capture(ms, s, p, what) ==
  LET level == ms.level + 1
      Undo(m) == Return([m EXCEPT !.level = @ - 1], NULL)
  IN IF ms.level >= MaxCaptures THEN Raise(ms, "too many captures")
     ELSE OrElse(match([ms EXCEPT !.level = level, !.capture[level] = [init |-> s, len |-> what]], s, p), Undo)

\* Mutant: a capture that was closed stays closed when the rest fails.
end_captureKeeps(ms, s, p) ==
  LET l == capture_to_close(ms)
  IN IF l = NULL THEN Raise(ms, "invalid pattern capture")
     ELSE match([ms EXCEPT !.capture[l].len = s - ms.capture[l].init], s, p)
end_capture(ms, s, p) ==
  LET l == capture_to_close(ms)
      Undo(m) == Return([m EXCEPT !.capture[l].len = Unfinished], NULL)
  IN IF l = NULL THEN Raise(ms, "invalid pattern capture")
     ELSE OrElse(match([ms EXCEPT !.capture[l].len = s - ms.capture[l].init], s, p), Undo)

\* ep is the end of the class at p.
frontier(ms, s, p, ep) ==
  IF ep = NULL THEN Raise(ms, ClassError(ms, p))
  ELSE IF /\ ~matchbracketclass(ms.pat, At(ms.src, s - 1), p, ep - 1)
          /\ matchbracketclass(ms.pat, At(ms.src, s), p, ep - 1)
    THEN do_match(ms, s, ep) ELSE Return(ms, NULL)

\* A class, from p to ep, and its suffix (the label dflt).
single(ms, s, p, ep) ==
  LET suffix == At(ms.pat, ep)
      less == [ms EXCEPT !.nrep = @ - 1]
      Without(m) == do_match(m, s, ep + 1)
  IN IF ep = NULL THEN Raise(ms, ClassError(ms, p))
     ELSE IF ~singlematch(ms, s, p, ep)
       THEN IF suffix \in {"*", "?", "-"} THEN Without(ms) ELSE Return(ms, NULL)
     ELSE IF ms.nrep = 0 THEN Raise(less, "pattern too complex")
     ELSE CASE suffix = "?" -> OrElse(match(less, s + 1, ep + 1), Without)
            [] suffix = "+" -> from_longest(less, s + 1, Expansion(ms, s + 1, p, ep), ep)
            [] suffix = "*" -> from_longest(less, s, Expansion(ms, s, p, ep), ep)
            [] suffix = "-" -> from_shortest(less, s, p, ep)
            [] OTHER -> do_match(less, s + 1, ep)

\* The matcher goes on with p at the position an item gave, if it gave one.
Then(ms, at, p) == IF at = NULL THEN Return(ms, NULL) ELSE do_match(ms, at, p)

do_match(ms, s, p) ==
  LET c == At(ms.pat, p)
      d == At(ms.pat, p + 1)
  IN CASE p = p_end(ms) -> Return(ms, s)
       [] c = "(" /\ d = ")" -> start_capture(ms, s, p + 2, Position)
       [] c = "(" /\ d # ")" -> start_capture(ms, s, p + 1, Unfinished)
       [] c = ")" -> end_capture(ms, s, p + 1)
       [] c = "$" /\ p + 1 = p_end(ms) -> Return(ms, IF s = src_end(ms) THEN s ELSE NULL)
       [] c = "%" /\ d = "b" ->
            IF p + 3 >= p_end(ms) THEN Raise(ms, "malformed pattern (missing arguments to '%b')")
            ELSE Then(ms, matchbalance(ms, s, p + 2), p + 4)
       [] c = "%" /\ d = "f" ->
            IF At(ms.pat, p + 2) # "[" THEN Raise(ms, "missing '[' after '%f' in pattern")
            ELSE frontier(ms, s, p + 2, classend(ms, p + 2))
       [] c = "%" /\ d \in Digits ->
            LET l == check_capture(ms, DigitValue(d))
            IN IF l = NULL THEN Raise(ms, "invalid capture index") ELSE Then(ms, match_capture(ms, s, l), p + 2)
       [] OTHER -> single(ms, s, p, classend(ms, p))
----------------------------------------------------------------------------
(* The functions.                                                            *)

CONSTANTS Families, Calls(_),   \* the calls a program may make, in families
          Limits,    \* sets of limits: MAXCCALLS, A_REPS and B_REPS
          MaxSize    \* MAXSIZE, the length of the longest string
ASSUME SizeAssumption == MaxSize \in Nat

VARIABLES call,      \* the function and its arguments
          limits,
          ms, next,  \* GMatchState: the matcher, and where it goes on
          results    \* what the calls so far gave
strvars == <<call, limits, ms, next, results>>

\* What a call gives: the error, a piece of text, the values it returns.  A
\* value is a piece of the subject, or a position, as the matcher keeps them.
Error(e) == [err |-> e, text |-> <<>>, values |-> <<>>, at |-> 0, count |-> 0]
Nothing == Error("nil")
Text(t) == [Nothing EXCEPT !.err = "none", !.text = t]
Values(v) == [Text(<<>>) EXCEPT !.values = v]

----------------------------------------------------------------------------
(* Pieces of strings.                                                        *)
posrelat(pos, len) == CASE pos >= 0 -> pos [] pos < 0 /\ -pos > len -> 0 [] OTHER -> len + pos + 1

AtLeast(n, low) == IF n < low THEN low ELSE n
AtMost(n, high) == IF n > high THEN high ELSE n

str_sub(s, i, j) ==
  LET first == AtLeast(posrelat(i, Len(s)), 1)
      last == AtMost(posrelat(j, Len(s)), Len(s))
  IN Text(IF first <= last THEN SubSeq(s, first, last) ELSE <<>>)

str_reverse(s) == Text([i \in 1..Len(s) |-> s[Len(s) - i + 1]])

RECURSIVE copies(_, _, _)
copies(s, sep, n) == IF n = 1 THEN s ELSE s \o sep \o copies(s, sep, n - 1)
str_rep(s, n, sep) ==
  IF n <= 0 THEN Text(<<>>)
  ELSE IF Len(s) + Len(sep) > MaxSize \div n THEN Error("resulting string too large")
  ELSE Text(copies(s, sep, n))

\* An end that is not given is the first position: taken relative to the end
\* once more, which changes nothing.
Absent == 100
str_byte(s, i, j) ==
  LET posi == posrelat(i, Len(s))
      pose == posrelat(IF j = Absent THEN posi ELSE j, Len(s))
      first == AtLeast(posi, 1)
      last == AtMost(pose, Len(s))
  IN Values(IF first > last THEN <<>> ELSE [k \in 1..last - first + 1 |-> Code(s[first + k - 1])])

----------------------------------------------------------------------------
(* What a match captured.                                                    *)
\* The i-th capture of a match from s to e, which is the match itself when
\* the pattern has none.
CaptureError(m, i) ==
  CASE i > m.level /\ i > 1 -> "invalid capture index"
    [] i <= m.level /\ m.capture[i].len = Unfinished -> "unfinished capture"
    [] OTHER -> "none"
push_onecapture(m, i, s, e) == IF i > m.level THEN [init |-> s, len |-> e - s] ELSE m.capture[i]

\* All of them; "whole" tells whether the match counts when there is none.
push_captures(m, s, e, whole) ==
  LET nlevels == IF m.level = 0 /\ whole THEN 1 ELSE m.level
      bad == {i \in 1..nlevels : CaptureError(m, i) # "none"}
  IN IF bad # {} THEN Error("unfinished capture")
     ELSE Values([i \in 1..nlevels |-> push_onecapture(m, i, s, e)])

Piece(str, v) == IF v.len = Position THEN <<Codes[Code("0") + v.init]>> ELSE SubSeq(str, v.init, v.init + v.len - 1)

----------------------------------------------------------------------------
(* find and match.                                                           *)
Specials == {"^", "$", "*", "+", "?", ".", "(", "[", "%", "-"}
nospecials(p) == \A i \in DOMAIN p : p[i] \notin Specials

lmemfind(s, init, p) ==
  LET found == {i \in init..Len(s) + 1 - Len(p) : SubSeq(s, i, i + Len(p) - 1) = p}
  IN IF found = {} THEN NULL ELSE CHOOSE i \in found : \A j \in found : i <= j

Anchored(p) == At(p, 1) = "^"
FirstItem(p) == IF Anchored(p) THEN 2 ELSE 1

\* The first position from s on at which the pattern matches (the do loop).
RECURSIVE search(_, _, _)
search(m, s, p) ==
  LET Found(r) == IF Raised(r) \/ r.s # NULL THEN [from |-> s, r |-> r]
                  ELSE IF s < src_end(m) /\ p = 1 THEN search(r.ms, s + 1, p) ELSE [from |-> NULL, r |-> r]
  IN Found(match(reprepstate(m), s, p))

\* Where a search ends: with an error, with nothing, or with a match.
Outcome(found, find) ==
  LET r == found.r
      Matched(v) == IF v.err # "none" THEN v ELSE [v EXCEPT !.at = found.from, !.count = r.s - found.from]
  IN CASE Raised(r) -> Error(r.err)
       [] ~Raised(r) /\ r.s = NULL -> Nothing
       [] OTHER -> Matched(push_captures(r.ms, found.from, r.s, ~find))

str_find_aux(m, init, plain, find) ==
  LET from == AtLeast(posrelat(init, Len(m.src)), 1)
      i == lmemfind(m.src, from, m.pat)
  IN CASE from > Len(m.src) + 1 -> Nothing
       [] from <= Len(m.src) + 1 /\ find /\ (plain \/ nospecials(m.pat)) ->
            IF i = NULL THEN Nothing ELSE [Values(<<>>) EXCEPT !.at = i, !.count = Len(m.pat)]
       [] OTHER -> Outcome(search(m, from, FirstItem(m.pat)), find)

----------------------------------------------------------------------------
(* gmatch and gsub.                                                          *)
\* The iterator: where it goes on from, and what it gives.
gmatch_aux(m, s) ==
  LET After(found) ==
        LET r == found.r
        IN [ms |-> r.ms,
            next |-> CASE Raised(r) \/ r.s = NULL -> s [] r.s = found.from -> r.s + 1 [] OTHER -> r.s,
            result |-> Outcome(found, FALSE)]
  IN IF s > src_end(m) THEN [ms |-> m, next |-> s, result |-> Nothing] ELSE After(search(m, s, 1))

\* The replacement string from i on, for a match from s to e.
RECURSIVE add_s(_, _, _, _, _)
add_s(m, news, i, s, e) ==
  LET d == At(news, i + 1)
      l == DigitValue(d)
      piece == CASE d = "%" -> <<"%">> [] d = "0" -> SubSeq(m.src, s, e - 1)
                 [] OTHER -> Piece(m.src, push_onecapture(m, l, s, e))
      Follow(t, rest) == IF rest.err # "none" THEN rest ELSE Text(t \o rest.text)
      After(t) == Follow(t, add_s(m, news, IF news[i] = "%" THEN i + 2 ELSE i + 1, s, e))
  IN CASE i > Len(news) -> Text(<<>>)
       [] i <= Len(news) /\ news[i] = "%" /\ d \notin Digits \cup {"%"} -> Error("invalid use of '%' in replacement string")
       [] i <= Len(news) /\ news[i] = "%" /\ d \in Digits \ {"0"} /\ CaptureError(m, l) # "none" -> Error(CaptureError(m, l))
       [] OTHER -> After(IF news[i] = "%" THEN piece ELSE <<news[i]>>)

\* What the table holds for a match, or what the function returns for it.
\* A table has no field for a position; a function that is given the captures
\* returns the last of them.
Lookup(m, repl, v) ==
  LET key == Piece(m.src, v)
  IN IF v.len # Position /\ key \in DOMAIN repl.fields THEN repl.fields[key] ELSE [kind |-> "nil", text |-> <<>>]
Returned(m, repl, v) ==
  [kind |-> repl.returns, text |-> Piece(m.src, v[Len(v)])]

add_value(m, repl, s, e) ==
  LET all == push_captures(m, s, e, TRUE)
      value == IF repl.kind = "table" THEN Lookup(m, repl, push_onecapture(m, 1, s, e))
               ELSE Returned(m, repl, all.values)
  IN CASE repl.kind = "string" -> add_s(m, repl.text, 1, s, e)
       [] repl.kind = "table" /\ CaptureError(m, 1) # "none" -> Error(CaptureError(m, 1))
       [] repl.kind = "function" /\ all.err # "none" -> all
       [] OTHER -> CASE value.kind = "nil" -> Text(SubSeq(m.src, s, e - 1))
                     [] value.kind = "text" -> Text(value.text)
                     [] OTHER -> Error("invalid replacement value")

\* The rest of the result, from s on, after n replacements of at most max.
RECURSIVE gsub_from(_, _, _, _, _, _)
\* After the attempt r at s, which gave the text "value" if it matched.
gsub_after(m, s, p, repl, n, max, r, value) ==
  LET new == IF r.s # NULL THEN value.text ELSE <<>>
      total == IF r.s # NULL THEN n + 1 ELSE n
      skips == r.s # NULL /\ r.s > s
      copied == IF ~skips /\ s < src_end(m) THEN <<m.src[s]>> ELSE <<>>
      after == IF skips THEN r.s ELSE s + Len(copied)
      Follow(rest) == IF rest.err # "none" THEN rest ELSE [rest EXCEPT !.text = new \o copied \o @]
  IN IF r.s # NULL /\ value.err # "none" THEN value
     ELSE IF (~skips /\ s >= src_end(m)) \/ p = 2
       THEN Follow([Text(SubSeq(m.src, after, Len(m.src))) EXCEPT !.count = total])
     ELSE Follow(gsub_from(r.ms, after, p, repl, total, max))
gsub_from(m, s, p, repl, n, max) ==
  LET Try(r) == IF Raised(r) THEN Error(r.err) ELSE gsub_after(m, s, p, repl, n, max, r, add_value(r.ms, repl, s, r.s))
  IN IF n >= max THEN [Text(SubSeq(m.src, s, Len(m.src))) EXCEPT !.count = n]
     ELSE Try(match(reprepstate(m), s, p))

str_gsub(m, repl, max) == gsub_from(m, 1, FirstItem(m.pat), repl, 0, max)

----------------------------------------------------------------------------
StrStart ==
  /\ ms = prepstate(call.src, call.pat, limits.depth, limits.areps * Len(call.src) + limits.breps)
  /\ next = 1
  /\ results = <<>>
StrInit == (\E family \in Families : call \in Calls(family)) /\ limits \in Limits /\ StrStart

Called(fn) == call.fn = fn /\ results = <<>>
Give(result) == results' = <<result>> /\ UNCHANGED <<call, limits, ms, next>>

Sub == Called("sub") /\ Give(str_sub(call.src, call.i, call.j))
Reverse == Called("reverse") /\ Give(str_reverse(call.src))
Rep == Called("rep") /\ Give(str_rep(call.src, call.i, call.pat))
Byte == Called("byte") /\ Give(str_byte(call.src, call.i, call.j))
Find == Called("find") /\ Give(str_find_aux(ms, call.i, call.plain, TRUE))
Match == Called("match") /\ Give(str_find_aux(ms, call.i, FALSE, FALSE))
Gsub == Called("gsub") /\ Give(str_gsub(ms, call.repl, call.j))

\* The program calls the iterator until it gives nothing or fails.
GmatchAux ==
  /\ call.fn = "gmatch"
  /\ \A i \in DOMAIN results : results[i].err = "none"
  /\ \E g \in {gmatch_aux(ms, next)} :
       /\ ms' = g.ms
       /\ next' = g.next
       /\ results' = Append(results, g.result)
  /\ UNCHANGED <<call, limits>>

StrNext == Sub \/ Reverse \/ Rep \/ Byte \/ Find \/ Match \/ Gsub \/ GmatchAux
----------------------------------------------------------------------------
(* What they are for.  A call carries what its pattern and its replacement   *)
(* were written from.                                                        *)

P == INSTANCE LuaPattern

Subject == call.src
\* A position counted from the end if it is negative (manual, 6.4).
FromEnd(i) == IF i < 0 THEN Len(Subject) + i + 1 ELSE i
Between(i, j) == {k \in 1..Len(Subject) : FromEnd(i) <= k /\ k <= FromEnd(j)}

----------------------------------------------------------------------------
(* Pieces.                                                                   *)
SubRight(r) ==
  LET B == Between(call.i, call.j)
  IN r.err = "none" /\ Len(r.text) = Cardinality(B) /\ \A k \in B : r.text[Cardinality(B \cap 1..k)] = Subject[k]
ByteRight(r) ==
  LET B == Between(call.i, IF call.j = Absent THEN call.i ELSE call.j)
  IN r.err = "none" /\ Len(r.values) = Cardinality(B) /\ \A k \in B : r.values[Cardinality(B \cap 1..k)] = Code(Subject[k])
ReverseRight(r) == Len(r.text) = Len(Subject) /\ \A k \in DOMAIN r.text : r.text[k] = Subject[Len(Subject) + 1 - k]
\* Refused only if the copies and as many separators do not fit.
RepRight(r) ==
  LET unit == Subject \o call.pat
      n == call.i
  IN IF r.err # "none" THEN n * Len(unit) > MaxSize
     ELSE /\ Len(r.text) <= MaxSize
          /\ Len(r.text) = IF n <= 0 THEN 0 ELSE n * Len(unit) - Len(call.pat)
          /\ \A k \in DOMAIN r.text : r.text[k] = unit[((k - 1) % Len(unit)) + 1]

----------------------------------------------------------------------------
(* Searches.                                                                 *)
Legal == P!Legal(call.items) /\ Cardinality(P!Openers(call.items)) <= MaxCaptures
Fails(r) == r.err # "none"
\* A match r that is m; without captures it is the whole match that is given.
Gives(r, m, whole) ==
  IF m.from = 0 THEN r.err = "nil"
  ELSE /\ r.err = "none" /\ r.at = m.from /\ r.count = m.to - m.from
       /\ r.values = IF m.captures = <<>> /\ whole THEN <<[init |-> m.from, len |-> m.to - m.from]>> ELSE m.captures

\* The text of the pattern, taken as it is.
FirstCopy(from) ==
  LET S == {k \in from..Len(Subject) + 1 - Len(call.pat) : \A i \in DOMAIN call.pat : Subject[k + i - 1] = call.pat[i]}
  IN IF S = {} THEN P!None
     ELSE LET k == CHOOSE k \in S : \A l \in S : k <= l IN [from |-> k, to |-> k + Len(call.pat), captures |-> <<>>]

FindRight(r) ==
  LET from == IF FromEnd(call.i) < 1 THEN 1 ELSE FromEnd(call.i)
      \* A pattern with no special character; a ")" alone is taken as one.
      asIs == call.fn = "find" /\ (call.plain \/ nospecials(call.pat))
  IN IF asIs THEN Gives(r, FirstCopy(from), FALSE)
     ELSE IF ~Legal THEN Fails(r)
     ELSE Gives(r, P!FirstMatch(call.items, Subject, from, call.anchored), call.fn = "match")

\* A caret means itself in gmatch, and no subject here has one.
Expected == IF call.anchored THEN <<>> ELSE P!AllMatches(call.items, Subject, 1, FALSE, 100)
GmatchRight(n) ==
  LET Nth(matches) == IF n \in DOMAIN matches THEN matches[n] ELSE P!None
  IN IF Legal THEN Gives(results[n], Nth(Expected), TRUE) ELSE Fails(results[n])

----------------------------------------------------------------------------
(* Replacements, written as a sequence of parts, a function, or a table.     *)
PartText(part, m, all) ==
  CASE part.kind = "text" -> part.text
    [] part.kind = "whole" -> SubSeq(Subject, m.from, m.to - 1)
    [] OTHER -> Piece(Subject, all[part.n])
RECURSIVE PartsText(_, _, _)
PartsText(parts, m, all) ==
  IF parts = <<>> THEN <<>> ELSE PartText(Head(parts), m, all) \o PartsText(Tail(parts), m, all)

\* The captures of m, or m itself; what is looked up; whether it is an error.
AllOf(m) == IF m.captures = <<>> THEN <<[init |-> m.from, len |-> m.to - m.from]>> ELSE m.captures
Chosen(m) ==
  LET all == AllOf(m)
      key == Piece(Subject, all[1])
      repl == call.repl
  IN CASE repl.kind = "function" -> [kind |-> repl.returns, text |-> Piece(Subject, all[Len(all)])]
       [] repl.kind = "table" /\ all[1].len # Position /\ key \in DOMAIN repl.fields -> repl.fields[key]
       [] OTHER -> [kind |-> "nil", text |-> <<>>]
BadReplacement(m) ==
  IF call.repl.kind = "string"
  THEN \E i \in DOMAIN call.repl.parts :
         LET part == call.repl.parts[i]
         IN part.kind = "bad" \/ (part.kind = "capture" /\ part.n > Len(AllOf(m)))
  ELSE Chosen(m).kind = "other"
NewText(m) ==
  CASE call.repl.kind = "string" -> PartsText(call.repl.parts, m, AllOf(m))
    [] call.repl.kind # "string" /\ Chosen(m).kind = "text" -> Chosen(m).text
    [] OTHER -> SubSeq(Subject, m.from, m.to - 1)

\* A pattern that is not legal may go unnoticed: no capture may be asked for.
GsubRight(r) ==
  LET Replaces(matches) ==
        IF \E i \in DOMAIN matches : BadReplacement(matches[i]) THEN Fails(r)
        ELSE /\ r.err = "none" /\ r.count = Len(matches)
             /\ r.text = P!Substituted(Subject, 1, matches, [i \in DOMAIN matches |-> NewText(matches[i])])
  IN Legal => Replaces(P!AllMatches(call.items, Subject, 1, call.anchored, call.j))

----------------------------------------------------------------------------
\* The library gives up on a match only at a limit.
GivesUp(r) == r.err = "pattern too complex" /\ limits.depth < 100

ResultRight(n) ==
  LET r == results[n]
  IN CASE call.fn = "sub" -> SubRight(r)
       [] call.fn = "byte" -> ByteRight(r)
       [] call.fn = "reverse" -> ReverseRight(r)
       [] call.fn = "rep" -> RepRight(r)
       [] call.fn = "gsub" -> GivesUp(r) \/ GsubRight(r)
       [] call.fn = "gmatch" -> GivesUp(r) \/ GmatchRight(n)
       [] OTHER -> GivesUp(r) \/ FindRight(r)

\* Between two calls of gmatch's iterator the matcher is as it was made (the
\* lua_assert of reprepstate), unless the last one failed: an error leaves the
\* depth as it is, and the program may catch it.
MatcherRestored ==
  (\A n \in DOMAIN results : results[n].err \in {"none", "nil"}) => ms.matchdepth = limits.depth

\* PROPERTY.  Every function gives what the manual says it gives: the match
\* that the pattern's items prefer, found by backtracking with captures that
\* are set and taken back; the matches in turn; the text with the matches
\* replaced.  Nothing but a limit makes it give up, and no other error comes
\* of a legal call.
MatchesRight == MatcherRestored /\ \A n \in DOMAIN results : ResultRight(n)
=============================================================================
