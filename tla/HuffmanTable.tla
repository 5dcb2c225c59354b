----------------------------- MODULE HuffmanTable -----------------------------
(***************************************************************************)
(* elf_zlib_inflate_table of elf.c: from the lengths of the codes to the   *)
(* table that decodes them.  The first 2^Primary entries are indexed by    *)
(* the next bits of the stream; an entry is a value and the bits it takes, *)
(* or the place and size of a secondary table, which follows them.  Bits   *)
(* come from the stream lowest first, so the numbers of the codes have     *)
(* their bits reversed.                                                    *)
(***************************************************************************)
EXTENDS Integers, Sequences, SequencesExt, FiniteSetsExt

CONSTANTS
  Primary,      \* bits of the first index: 8
  MaxLength,    \* the length of the longest code: 15
  ValueMask     \* HUFFMAN_VALUE_MASK: the largest value, or place, of an entry

Failed == <<>>

\* The value 0 with a code of one bit is the same as no entry at all.
Entry(v, b, secondary) == [v |-> v, b |-> b, secondary |-> secondary]
Empty == Entry(0, 0, FALSE)

TwoTo(n) == 2^n

\* The number of n bits, or a number of which the bits are given; lowest first.
Number == [bits \in Seq({0, 1}) |->
  LET number[n \in 0..Len(bits)] == IF n = 0 THEN 0 ELSE number[n - 1] + bits[n] * TwoTo(n - 1)
  IN number[Len(bits)]]
BitsOf(x, n) == [i \in 1..n |-> (x \div TwoTo(i - 1)) % 2]
Reversed(x, j) == Number[Reverse(BitsOf(x, j))]

\* The j-bit code n after this one, and how many codes after it another is.
After(code, j, n) == Reversed((Reversed(code, j) + n) % TwoTo(j), j)
Between(code, other, j) == (Reversed(other, j) - Reversed(code, j)) % TwoTo(j)

\* Values are counted from 0; those of a length have codes one after another.
\* There are at most 2^9: those from the n-th on, twice as many for each k.
Values(lens, j) ==
  LET values[k \in 0..9] ==
        IF k = 0 THEN [n \in 1..Len(lens) |-> IF lens[n] = j THEN <<n - 1>> ELSE <<>>]
        ELSE [n \in 1..Len(lens) |->
                values[k - 1][n] \o (IF n + TwoTo(k - 1) <= Len(lens) THEN values[k - 1][n + TwoTo(k - 1)] ELSE <<>>)]
  IN IF lens = <<>> THEN <<>> ELSE values[9][1]

\* Entries are filled, which must not have been filled before.
Fill(t, entries) ==
  IF \E p \in DOMAIN entries : t.table[p] # Empty THEN [t EXCEPT !.ok = FALSE]
  ELSE [t EXCEPT !.table = [p \in DOMAIN @ |-> IF p \in DOMAIN entries THEN entries[p] ELSE @[p]]]

\* A code of at most Primary bits: the bits after it may be anything.
FillPrimary(t, lens, j) ==
  LET vs == Values(lens, j)
      At(p) == Between(t.code, p % TwoTo(j), j) + 1
      entries == [p \in {q \in DOMAIN t.table : At(q) <= Len(vs)} |-> Entry(vs[At(p)], j - 1, FALSE)]
  IN IF ~t.ok \/ Len(vs) > TwoTo(j) \/ \E v \in ToSet(vs) : v > ValueMask THEN [t EXCEPT !.ok = FALSE]
     ELSE [Fill(t, entries) EXCEPT !.code = After(@, j, Len(vs))]

\* The first code of each length that needs a secondary table.
FirstCode(lens, code, j) ==
  LET first[k \in 0..j - Primary - 1] ==
        IF k = 0 THEN code ELSE After(first[k - 1], Primary + k, Len(Values(lens, Primary + k)))
  IN first[j - Primary - 1]

\* Secondary tables are made for the longest codes first; shorter ones may
\* share them.
Secondary(t, p, j) ==
  LET e == t.table[p]
      bits == j - Primary
  IN CASE e = Empty /\ t.used > ValueMask -> [t EXCEPT !.ok = FALSE]
       [] e = Empty /\ t.used <= ValueMask ->
            [table |-> [i \in 0..TwoTo(Primary) + t.used + TwoTo(bits) - 1 |->
                          CASE i = p -> Entry(t.used, bits, TRUE)
                            [] i # p /\ i \in DOMAIN t.table -> t.table[i]
                            [] OTHER -> Empty],
             code |-> t.code, used |-> t.used + TwoTo(bits), at |-> t.used, bits |-> bits, ok |-> t.ok]
       [] e # Empty /\ (~e.secondary \/ e.b < bits) -> [t EXCEPT !.ok = FALSE]
       [] OTHER -> [table |-> t.table, code |-> t.code, used |-> t.used, at |-> e.v, bits |-> e.b, ok |-> t.ok]

\* The codes of a length that begin with the same bits as its i-th.
FillSecondary(t, lens, j, first, i) ==
  LET vs == Values(lens, j)
      p == After(first, j, i - 1) % TwoTo(Primary)
      s == Secondary(t, p, j)
      base == TwoTo(Primary) + s.at
      At(q) == Between(first, p + TwoTo(Primary) * ((q - base) % TwoTo(j - Primary)), j) + 1
  IN IF ~t.ok \/ ~s.ok THEN s
     ELSE Fill(s, [q \in {q \in base..base + TwoTo(s.bits) - 1 : At(q) <= Len(vs)} |-> Entry(vs[At(q)], j - Primary, FALSE)])

FillLong(t, lens, j, first) ==
  LET Begins(i) == i = 1 \/ After(first, j, i - 1) % TwoTo(Primary) # After(first, j, i - 2) % TwoTo(Primary)
      filled[i \in 0..Len(Values(lens, j))] ==
        IF i = 0 THEN t
        ELSE IF Begins(i) THEN FillSecondary(filled[i - 1], lens, j, first, i) ELSE filled[i - 1]
  IN IF ~t.ok THEN t ELSE filled[Len(Values(lens, j))]

Unfilled == [table |-> [i \in 0..TwoTo(Primary) - 1 |-> Empty], code |-> 0, used |-> 0, at |-> 0, bits |-> 0, ok |-> TRUE]
Short(lens) ==
  LET short[j \in 0..Primary] == IF j = 0 THEN Unfilled ELSE FillPrimary(short[j - 1], lens, j)
  IN short[Primary]

\* Mutant: for the shortest first.
LongUp(t, lens) ==
  LET long[k \in 0..MaxLength - Primary] ==
        IF k = 0 THEN t ELSE FillLong(long[k - 1], lens, Primary + k, FirstCode(lens, t.code, Primary + k))
  IN long[MaxLength - Primary]
Long(t, lens) ==
  LET long[k \in 0..MaxLength - Primary] ==
        IF k = 0 THEN t ELSE FillLong(long[k - 1], lens, MaxLength + 1 - k, FirstCode(lens, t.code, MaxLength + 1 - k))
  IN long[MaxLength - Primary]

Build(lens) == LET t == Long(Short(lens), lens) IN IF t.ok THEN t.table ELSE Failed

\* The value the next bits stand for, and how many of them.
Decode(table, bits) ==
  LET At(from, n) == Number[[i \in 1..n |-> IF from + i <= Len(bits) THEN bits[from + i] ELSE 0]]
      e == table[At(0, Primary)]
      s == table[TwoTo(Primary) + e.v + At(Primary, e.b)]
  IN IF e.secondary THEN [v |-> s.v, n |-> Primary + s.b] ELSE [v |-> e.v, n |-> e.b + 1]

---------------------------------------------------------------------------
(* What it is to do: RFC 1951, 3.2.2.  Codes of one length are consecutive  *)
(* numbers in the order of their values, shorter codes come first, and the  *)
(* bits of a code come highest first.                                       *)

Lengths(lens, js) == {v \in DOMAIN lens : lens[v] \in js}
\* In units of the longest code: what the codes of a length up to j take.
Weight(lens, j) ==
  FoldLeft(LAMBDA w, k : w + Cardinality(Lengths(lens, {k})) * 2^(MaxLength - k), 0, [k \in 1..j |-> k])
Canonical(lens, v) ==
  LET j == lens[v + 1]
      before == Weight(lens, j - 1) + Cardinality({u \in Lengths(lens, {j}) : u <= v}) * 2^(MaxLength - j)
  IN Reverse(BitsOf(before \div 2^(MaxLength - j), j))
Prefix(lens) == Weight(lens, MaxLength) <= 2^MaxLength
===============================================================================
