------------------------------- MODULE LuaUtf8 -------------------------------
(* The utf8 library of Lua (lutf8lib.c): char, codepoint, len, offset and     *)
(* codes.  A string is a sequence of bytes; C counts them from 0 and finds a   *)
(* zero after the last one.  Each call is one step but the loop over codes,   *)
(* which is one step of its iterator at a time.                               *)
EXTENDS Integers, Sequences, FiniteSets, FiniteSetsExt

CONSTANTS Utf8Families, Utf8Calls(_)   \* the calls a program may make, in families

MAXUNICODE == 1114111
Omitted == 100       \* an argument that is not given

VARIABLES ucall,     \* the function and its arguments
          uresult    \* what the call gave
utf8vars == <<ucall, uresult>>

Answer(err, values) == [err |-> err, values |-> values]
Pending == Answer("working", <<>>)
Yields(values) == Answer("none", values)
Refused == Answer("error", <<>>)

byte(s, p) == IF p < Len(s) THEN s[p + 1] ELSE 0
iscont(s, p) == byte(s, p) \div 64 = 2

u_posrelat(pos, len) ==
  IF pos >= 0 THEN pos ELSE IF -pos > len THEN 0 ELSE len + pos + 1
Optional(arg, default, len) == u_posrelat(IF arg = Omitted THEN default ELSE arg, len)

----------------------------------------------------------------------------
(* One character.                                                            *)
\* How many continuation bytes the first byte c announces.
Announced(c) == Cardinality({first \in {192, 224, 240, 248, 252, 254, 255} : c >= first})
\* What fits in fewer bytes: limits[count].
Smaller(count) == <<255, 127, 2047, 65535>>[count + 1]
RECURSIVE low_bits(_, _, _)
low_bits(s, o, count) == IF count = 0 THEN 0 ELSE low_bits(s, o, count - 1) * 64 + (byte(s, o + count) % 64)
Invalid8 == [val |-> -1, next |-> -1]
Decoded(val, next) == [val |-> val, next |-> next]

\* Mutant: a character may take more bytes than it needs.
utf8_decodeOverlong(s, o) ==
  LET c == byte(s, o)
      count == Announced(c)
      res == low_bits(s, o, count) + ((c * 2^count) % 128) * 2^(5 * count)
  IN CASE c < 128 -> Decoded(c, o + 1)
       [] c >= 128 /\ (count \notin 1..3 \/ \E k \in 1..count : ~iscont(s, o + k)) -> Invalid8
       [] OTHER -> IF res > MAXUNICODE THEN Invalid8 ELSE Decoded(res, o + count + 1)
utf8_decode(s, o) ==
  LET c == byte(s, o)
      count == Announced(c)
      res == low_bits(s, o, count) + ((c * 2^count) % 128) * 2^(5 * count)
  IN CASE c < 128 -> Decoded(c, o + 1)
       [] c >= 128 /\ (count > 3 \/ \E k \in 1..count : ~iscont(s, o + k)) -> Invalid8
       [] OTHER -> IF res > MAXUNICODE \/ res <= Smaller(count) THEN Invalid8 ELSE Decoded(res, o + count + 1)

\* luaO_utf8esc: the bytes before "tail" of what is left of x; mfb is the most
\* that fits in a first byte.
RECURSIVE continuation(_, _, _)
continuation(x, mfb, tail) ==
  LET last == <<128 + (x % 64)>> \o tail
      rest == x \div 64
      fits == mfb \div 2
  IN IF rest > fits THEN continuation(rest, fits, last) ELSE <<254 - 2 * fits + rest>> \o last
luaO_utf8esc(x) == IF x < 128 THEN <<x>> ELSE continuation(x, 63, <<>>)

----------------------------------------------------------------------------
(* The functions.                                                            *)
\* The characters that start at p or later and at "last" or before, from 0.
RECURSIVE decode_from(_, _, _, _)
decode_from(s, p, last, codes) ==
  LET d == utf8_decode(s, p)
  IN IF p > last THEN [bad |-> -1, codes |-> codes]
     ELSE IF d = Invalid8 THEN [bad |-> p, codes |-> codes]
     ELSE decode_from(s, d.next, last, Append(codes, d.val))

utflen(s, i, j) ==
  LET posi == Optional(i, 1, Len(s))
      posj == Optional(j, -1, Len(s))
      d == decode_from(s, posi - 1, posj - 1, <<>>)
  IN IF posi \notin 1..Len(s) + 1 \/ posj > Len(s) THEN Refused
     ELSE IF d.bad # -1 THEN Answer("nil", <<d.bad + 1>>)
     ELSE Yields(<<Len(d.codes)>>)

codepoint(s, i, j) ==
  LET posi == Optional(i, 1, Len(s))
      pose == Optional(j, posi, Len(s))
      d == decode_from(s, posi - 1, pose - 1, <<>>)
  IN IF posi < 1 \/ pose > Len(s) THEN Refused
     ELSE IF posi > pose THEN Yields(<<>>)
     ELSE IF d.bad # -1 THEN Refused
     ELSE Yields(d.codes)

RECURSIVE utfchar(_)
utfchar(codes) ==
  IF codes = <<>> THEN Yields(<<>>)
  ELSE LET rest == utfchar(Tail(codes))
       IN IF Head(codes) \notin 0..MAXUNICODE \/ rest = Refused THEN Refused
          ELSE Yields(luaO_utf8esc(Head(codes)) \o rest.values)

\* The beginning at or before p, before it, and after it, from 0.
BeginningOf(s, p) == Max({q \in 0..p : q = 0 \/ ~iscont(s, q)})
Previous(s, p) == BeginningOf(s, p - 1)
After8(s, p) == Min({q \in p + 1..Len(s) : ~iscont(s, q)} \cup {Len(s)})

RECURSIVE move_back(_, _, _), move_on(_, _, _)
move_back(s, p, n) == IF n < 0 /\ p > 0 THEN move_back(s, Previous(s, p), n + 1) ELSE <<p, n>>
move_on(s, p, n) == IF n > 0 /\ p < Len(s) THEN move_on(s, After8(s, p), n - 1) ELSE <<p, n>>

byteoffset(s, n, i) ==
  LET p == Optional(i, IF n >= 0 THEN 1 ELSE Len(s) + 1, Len(s)) - 1
      moved == IF n < 0 THEN move_back(s, p, n) ELSE move_on(s, p, n - 1)
  IN IF p \notin 0..Len(s) THEN Refused
     ELSE IF n = 0 THEN Yields(<<BeginningOf(s, p) + 1>>)
     ELSE IF iscont(s, p) THEN Refused
     ELSE IF moved[2] = 0 THEN Yields(<<moved[1] + 1>>)
     ELSE Answer("nil", <<>>)

----------------------------------------------------------------------------
Utf8Start == uresult = Pending
Utf8Init == (\E family \in Utf8Families : ucall \in Utf8Calls(family)) /\ Utf8Start

Replies(fn, answer) == ucall.fn = fn /\ uresult = Pending /\ uresult' = answer /\ ucall' = ucall

\* One turn of "for p, c in utf8.codes(s)": the pairs that were given are the
\* values, and the last position is where the iterator goes on.
iter_aux ==
  /\ ucall.fn = "codes" /\ uresult.err = "working" /\ ucall' = ucall
  /\ LET s == ucall.s
         given == uresult.values
         n == IF given = <<>> THEN 0 ELSE After8(s, given[Len(given)][1] - 1)
         d == utf8_decode(s, n)
     IN uresult' = IF n >= Len(s) THEN Yields(given)
                   ELSE IF d = Invalid8 \/ iscont(s, d.next) THEN Answer("error", given)
                   ELSE Answer("working", Append(given, <<n + 1, d.val>>))

Utf8Next ==
  \/ Replies("len", utflen(ucall.s, ucall.i, ucall.j))
  \/ Replies("codepoint", codepoint(ucall.s, ucall.i, ucall.j))
  \/ Replies("char", utfchar(ucall.s))
  \/ Replies("offset", byteoffset(ucall.s, ucall.j, ucall.i))
  \/ iter_aux

----------------------------------------------------------------------------
(* UTF-8 as it is defined: the bytes of a code point, from the number of bits *)
(* it has, and what a few bytes would be the bytes of.                        *)
Cont(x) == 128 + (x % 64)
Encoding(x) ==
  CASE x < 128 -> <<x>>
    [] x \in 128..2047 -> <<192 + (x \div 64), Cont(x)>>
    [] x \in 2048..65535 -> <<224 + (x \div 4096), Cont(x \div 64), Cont(x)>>
    [] OTHER -> <<240 + (x \div 262144), Cont(x \div 4096), Cont(x \div 64), Cont(x)>>
CodeOf(b) ==
  CASE Len(b) = 1 -> b[1]
    [] Len(b) = 2 -> (b[1] - 192) * 64 + b[2] - 128
    [] Len(b) = 3 -> (b[1] - 224) * 4096 + (b[2] - 128) * 64 + b[3] - 128
    [] OTHER -> (b[1] - 240) * 262144 + (b[2] - 128) * 4096 + (b[3] - 128) * 64 + b[4] - 128
IsCharacter(b) == CodeOf(b) \in 0..MAXUNICODE /\ Encoding(CodeOf(b)) = b
\* The ends of a character that starts at p: one or none.
EndsFrom(s, p) == {e \in p..p + 3 : e <= Len(s) /\ IsCharacter(SubSeq(s, p, e))}

\* The characters of s from p up to what is not one: each with its position.
RECURSIVE Reading(_, _), Stop(_, _)
Reading(s, p) ==
  IF EndsFrom(s, p) = {} THEN <<>>
  ELSE LET e == Max(EndsFrom(s, p)) IN <<<<p, CodeOf(SubSeq(s, p, e))>>>> \o Reading(s, e + 1)
Stop(s, p) == IF EndsFrom(s, p) = {} THEN p ELSE Stop(s, Max(EndsFrom(s, p)) + 1)
Valid(s) == Stop(s, 1) = Len(s) + 1

\* An index, from the end if it is negative (manual, 6.5).
Index(arg, default) == LET k == IF arg = Omitted THEN default ELSE arg IN IF k < 0 THEN Len(ucall.s) + k + 1 ELSE k
UpTo(i, j) == SelectSeq(Reading(ucall.s, i), LAMBDA c : c[1] <= j)
\* Everything that starts at i up to j is a character.
AllRead(i, j) == i > j \/ Stop(ucall.s, i) > j

LenRight ==
  LET i == Index(ucall.i, 1)
      j == Index(ucall.j, -1)
  IN uresult = IF i \notin 1..Len(ucall.s) + 1 \/ j > Len(ucall.s) THEN Refused
               ELSE IF AllRead(i, j) THEN Yields(<<Len(UpTo(i, j))>>)
               ELSE Answer("nil", <<Stop(ucall.s, i)>>)
CodepointRight ==
  LET i == Index(ucall.i, 1)
      j == Index(ucall.j, i)
  IN uresult = IF i < 1 \/ j > Len(ucall.s) \/ ~AllRead(i, j) THEN Refused
               ELSE Yields([k \in DOMAIN UpTo(i, j) |-> UpTo(i, j)[k][2]])
\* The manual promises something for valid strings only.
OffsetRight ==
  LET n == ucall.j
      i == Index(ucall.i, IF n >= 0 THEN 1 ELSE Len(ucall.s) + 1)
      starts == {c[1] : c \in {Reading(ucall.s, 1)[k] : k \in DOMAIN Reading(ucall.s, 1)}} \cup {Len(ucall.s) + 1}
      nth == {q \in starts : IF n > 0 THEN q >= i /\ Cardinality(starts \cap i..q) = n
                                      ELSE q < i /\ Cardinality(starts \cap q..i - 1) = -n}
  IN Valid(ucall.s) =>
       uresult = IF i \notin 1..Len(ucall.s) + 1 \/ (n # 0 /\ i \notin starts) THEN Refused
                 ELSE IF n = 0 THEN Yields(<<Max({q \in starts : q <= i})>>)
                 ELSE IF nth = {} THEN Answer("nil", <<>>)
                 ELSE Yields(<<Max(nth)>>)
CodesRight ==
  LET all == Reading(ucall.s, 1)
      given == uresult.values
  IN /\ given = SubSeq(all, 1, Len(given))
     /\ uresult.err = "none" => Valid(ucall.s) /\ given = all
     /\ uresult.err = "error" => ~Valid(ucall.s)
RECURSIVE Concatenated(_)
Concatenated(codes) == IF codes = <<>> THEN <<>> ELSE Encoding(Head(codes)) \o Concatenated(Tail(codes))
CharRight ==
  uresult = IF \E k \in DOMAIN ucall.s : ucall.s[k] \notin 0..MAXUNICODE THEN Refused ELSE Yields(Concatenated(ucall.s))

\* PROPERTY.  The decoder takes exactly the sequences that encode a code point
\* in the fewest bytes, wherever a string is cut short, and what is built on
\* it counts, locates and lists the characters the standard sees there; an
\* invalid byte is told with its place, and never stepped over.
Utf8Right ==
  /\ ucall.fn = "codes" => CodesRight
  /\ uresult.err # "working" =>
       CASE ucall.fn = "len" -> LenRight [] ucall.fn = "codepoint" -> CodepointRight
         [] ucall.fn = "offset" -> OffsetRight [] ucall.fn = "char" -> CharRight [] OTHER -> TRUE
=============================================================================
