------------------------------- MODULE Inflate -------------------------------
(***************************************************************************)
(* The decompression of debug sections (elf.c): a zlib stream is inflated  *)
(* into a buffer of the size the section names, and its checksum is        *)
(* compared.  Bytes are read four at a time, from an aligned address;      *)
(* "val" holds the bits that were read and not used, lowest first.         *)
(***************************************************************************)
EXTENDS Integers, Sequences, SequencesExt

CONSTANTS
  Sections,     \* records: what kind of stream and of what data, its bytes and
                \* its address modulo 4, the size named, and whether its header
                \* is good
  Allocates,    \* the answers of backtrace_alloc
  CodeLengths   \* lengths of codes to make tables of

ASSUME SectionsAssumption ==
  \A s \in Sections : s.bytes \in Seq(0..255) /\ s.at \in 0..3 /\ s.size \in Nat /\ "kind" \in DOMAIN s

VARIABLES
  sec,      \* the section
  pc,       \* the part of elf_zlib_inflate that is next
  pin, val, out,
  last,     \* this is the last block
  want, lens,     \* lengths of codes to be read, and those read
  clen, tlit, tdist,    \* the decoding tables
  result,   \* what elf_uncompress_* returns
  uncompressed    \* the section for the reader of DWARF; <<>> for NULL

vars == <<sec, pc, pin, val, out, last, want, lens, clen, tlit, tdist, result, uncompressed>>

H == INSTANCE HuffmanTable WITH Primary <- 8, MaxLength <- 15, ValueMask <- 511
\* The fixed codes, as the program that generates their tables has them.
FixedLit == [i \in 1..288 |-> IF i <= 144 THEN 8 ELSE IF i <= 256 THEN 9 ELSE IF i <= 280 THEN 7 ELSE 8]
FixedDist == [i \in 1..32 |-> 5]
LitTable == H!Build(FixedLit)
DistTable == H!Build(FixedDist)
\* Or it stops and says so.
ASSUME FixedAssumption == LitTable # H!Failed /\ DistTable # H!Failed

\* The same for codes of which all possible lengths can be tried.
Small == INSTANCE HuffmanTable WITH Primary <- 2, MaxLength <- 4, ValueMask <- 31

Size == Len(sec.bytes)
Remaining == Size - pin
\* What follows the section is in memory too.
Byte(i) == IF i < Size THEN sec.bytes[i + 1] ELSE 0
BytesAt(from, n) == [k \in 1..8 * n |-> (Byte(from + (k - 1) \div 8) \div H!TwoTo((k - 1) % 8)) % 2]
Num(bits, from, n) == H!Number[SubSeq(bits, from + 1, from + n)]
Drop(s, n) == SubSeq(s, n + 1, Len(s))

\* elf_zlib_fetch: 15 bits are enough for what is done until the next one.
CanFetch(p, v) == Len(v) >= 15 \/ Size - p >= 4
Fetch(p, v) == IF Len(v) >= 15 THEN [p |-> p, v |-> v] ELSE [p |-> p + 4, v |-> v \o BytesAt(p, 4)]

\* Up to an aligned address bytes are read one by one.
Aligned(p) ==
  LET n == (4 - ((sec.at + p) % 4)) % 4
  IN [p |-> p + n, v |-> BytesAt(p, n)]

Still(names) == UNCHANGED <<sec, result, uncompressed, names>>
Tables == <<want, lens, clen, tlit, tdist>>
Read(f) == pin' = f.p /\ val' = f.v
\* elf_zlib_inflate returns 0, and its callers give up the section.
Fail ==
  /\ pc' = "done" /\ result' = 1 /\ uncompressed' = <<>>
  /\ UNCHANGED <<sec, pin, val, out, last, Tables>>

---------------------------------------------------------------------------
(* elf_uncompress_zdebug and elf_uncompress_chdr *)

Uncompress ==
  /\ pc = "section"
  /\ \E allocated \in Allocates :
       CASE ~sec.header -> Fail
         [] sec.header /\ ~allocated ->
              pc' = "done" /\ result' = 0 /\ uncompressed' = <<>> /\ UNCHANGED <<sec, pin, val, out, last, Tables>>
         [] OTHER -> pc' = "stream" /\ Still(<<pin, val, out, last, Tables>>)

Total(xs) ==
  LET total[from \in 0..Len(xs), to \in 0..Len(xs)] ==
        IF to - from < 2 THEN IF to = from THEN 0 ELSE xs[to]
        ELSE LET m == (from + to) \div 2 IN total[from, m] + total[m, to]
  IN total[0, Len(xs)]

\* elf_zlib_verify_checksum: the sum of the bytes, and that of these sums.
\* The remainders are taken before 32 bits overflow.
Modulus == 65521
Checksum(bytes) ==
  LET n == Len(bytes)
      s1 == (1 + Total(bytes)) % Modulus
      s2 == (n + Total([i \in 1..n |-> (n + 1 - i) * bytes[i]])) % Modulus
  IN <<s2 \div 256, s2 % 256, s1 \div 256, s1 % 256>>

---------------------------------------------------------------------------
(* elf_zlib_inflate *)

\* The header of a stream; as long as there is more than a checksum, there is
\* a stream.
Stream ==
  /\ pc = "stream" /\ Remaining > 4
  /\ LET h1 == Byte(pin) h2 == Byte(pin + 1)
     IN IF h1 % 16 # 8 \/ h1 \div 16 > 7 \/ (h2 \div 32) % 2 # 0 \/ (h1 * 256 + h2) % 31 # 0 THEN Fail
        ELSE Read(Aligned(pin + 2)) /\ pc' = "block" /\ last' = FALSE /\ Still(<<out, Tables>>)

\* The output must be full; elf_zlib_inflate_and_verify.
Verify ==
  /\ pc = "stream" /\ Remaining <= 4
  /\ IF Len(out) = sec.size /\ Checksum(out) = SubSeq(sec.bytes, Size - 3, Size)
     THEN pc' = "done" /\ result' = 1 /\ uncompressed' = out /\ UNCHANGED <<sec, pin, val, out, last, Tables>>
     ELSE Fail

Block ==
  /\ pc = "block"
  /\ LET f == Fetch(pin, val)
         type == Num(f.v, 1, 2)
     IN IF ~CanFetch(pin, val) \/ type = 3 THEN Fail
        ELSE /\ last' = (f.v[1] = 1)
             /\ Read([f EXCEPT !.v = Drop(@, 3)])
             /\ pc' = <<"stored", "symbols", "dynamic">>[type + 1]
             /\ tlit' = (IF type = 1 THEN LitTable ELSE tlit)
             /\ tdist' = (IF type = 1 THEN DistTable ELSE tdist)
             /\ Still(<<out, want, lens, clen>>)

EndBlock(isLast) == pc' = IF isLast THEN "stream" ELSE "block"

\* Mutant: the last of the bytes read ahead is not given back.
BackUpOneLess(p, v) == p - (IF Len(v) > 16 THEN (Len(v) - 9) \div 8 ELSE 0)
\* Bytes that were read ahead are given back.
BackUp(p, v) == p - (IF Len(v) > 8 THEN (Len(v) - 1) \div 8 ELSE 0)

Word(p) == Byte(p) + 256 * Byte(p + 1)
Input(p, n) == SubSeq(sec.bytes, p + 1, p + n)
Stored ==
  /\ pc = "stored"
  /\ LET p == BackUp(pin, val)
         len == Word(p)
     IN IF Size - p < 4 \/ len + Word(p + 2) # 65535 \/ len > Size - p - 4 \/ len > sec.size - Len(out) THEN Fail
        ELSE /\ out' = out \o Input(p + 4, len)
             /\ Read(Aligned(p + 4 + len))
             /\ EndBlock(last)
             /\ Still(<<last, Tables>>)

\* The order in which the lengths of the codes for lengths come.
Order == <<16, 17, 18, 0, 8, 7, 9, 6, 10, 5, 11, 4, 12, 3, 13, 2, 14, 1, 15>>
\* Fetches are made before the first, and then after every few of them.
CodeBit(c, i) ==
  LET refill == i \in {1, 6, 11, 16}
      g == IF refill THEN Fetch(c.f.p, c.f.v) ELSE c.f
  IN IF ~c.ok \/ (refill /\ ~CanFetch(c.f.p, c.f.v)) THEN [c EXCEPT !.ok = FALSE]
     ELSE [ok |-> TRUE, f |-> [g EXCEPT !.v = Drop(@, 3)], bits |-> Append(c.bits, Num(g.v, 0, 3))]
CodeBits(start, n) ==
  LET codebits[i \in 0..n] ==
        IF i = 0 THEN [ok |-> TRUE, f |-> start, bits |-> <<>>] ELSE CodeBit(codebits[i - 1], i)
  IN codebits[n]

Dynamic ==
  /\ pc = "dynamic"
  /\ LET f == Fetch(pin, val)
         nlit == Num(f.v, 0, 5) + 257
         ndist == Num(f.v, 5, 5) + 1
         nclen == Num(f.v, 10, 4) + 4
         c == CodeBits([f EXCEPT !.v = Drop(@, 14)], nclen)
         codebits == [v \in 1..19 |-> IF \E i \in 1..nclen : Order[i] = v - 1
                                      THEN c.bits[CHOOSE i \in 1..nclen : Order[i] = v - 1] ELSE 0]
         table == H!Build(codebits)
     IN IF ~CanFetch(pin, val) THEN Fail
        ELSE IF nlit > 286 \/ ndist > 30 THEN Fail
        ELSE IF ~c.ok THEN Fail
        ELSE IF table = H!Failed THEN Fail
        ELSE /\ Read(c.f) /\ clen' = table
             /\ want' = [lit |-> nlit, dist |-> ndist] /\ lens' = <<>>
             /\ pc' = "lengths"
             /\ Still(<<out, last, tlit, tdist>>)

\* One code for a length, or for several that are equal.
CodeLength ==
  /\ pc = "lengths" /\ Len(lens) < want.lit + want.dist
  /\ LET f == Fetch(pin, val)
         d == H!Decode(clen, f.v)
         v == Drop(f.v, d.n)
         extra == IF d.v = 16 THEN 2 ELSE IF d.v = 17 THEN 3 ELSE IF d.v = 18 THEN 7 ELSE 0
         count == CASE d.v < 16 -> 1 [] d.v = 18 -> 11 + Num(v, 0, 7) [] OTHER -> 3 + Num(v, 0, extra)
         what == CASE d.v < 16 -> d.v [] d.v = 16 -> Last(lens) [] OTHER -> 0
     IN IF ~CanFetch(pin, val) THEN Fail
        ELSE IF d.v > 18 \/ (d.v = 16 /\ lens = <<>>) THEN Fail
        ELSE IF Len(lens) + count > want.lit + want.dist THEN Fail
        ELSE /\ lens' = lens \o [i \in 1..count |-> what]
             /\ Read([f EXCEPT !.v = Drop(v, extra)])
             /\ Still(<<pc, out, last, want, clen, tlit, tdist>>)

\* There must be an end of the block.
MakeTables ==
  /\ pc = "lengths" /\ Len(lens) = want.lit + want.dist
  /\ LET lit == H!Build(SubSeq(lens, 1, want.lit))
         dist == H!Build(Drop(lens, want.lit))
     IN IF lens[257] = 0 \/ lit = H!Failed \/ dist = H!Failed THEN Fail
        ELSE /\ tlit' = lit /\ tdist' = dist /\ pc' = "symbols"
             /\ Still(<<pin, val, out, last, want, lens, clen>>)

\* The next value of the block, and the stream after it.
Symbol == LET f == Fetch(pin, val) IN [d |-> H!Decode(tlit, f.v), f |-> f]
AfterSymbol == [Symbol.f EXCEPT !.v = Drop(@, Symbol.d.n)]

OutOfInput == pc = "symbols" /\ ~CanFetch(pin, val) /\ Fail

\* Mutant: there is room for one more.
LiteralOneMore ==
  /\ pc = "symbols" /\ CanFetch(pin, val) /\ Symbol.d.v < 256
  /\ IF Len(out) > sec.size THEN Fail
     ELSE out' = Append(out, Symbol.d.v) /\ Read(AfterSymbol) /\ Still(<<pc, last, Tables>>)
Literal ==
  /\ pc = "symbols" /\ CanFetch(pin, val) /\ Symbol.d.v < 256
  /\ IF Len(out) = sec.size THEN Fail
     ELSE out' = Append(out, Symbol.d.v) /\ Read(AfterSymbol) /\ Still(<<pc, last, Tables>>)

EndOfBlock ==
  /\ pc = "symbols" /\ CanFetch(pin, val) /\ Symbol.d.v = 256
  /\ EndBlock(last) /\ Read(AfterSymbol) /\ Still(<<out, last, Tables>>)

\* Values above a limit take more bits: "group" codes for each number of them.
Extra(v, limit, group) == IF v < limit THEN 0 ELSE (v - limit) \div group + 1
\* RFC 1951 3.2.5, as elf.c computes it.
LengthOf(v, bits) ==
  IF v < 265 THEN v - 257 + 3
  ELSE IF v = 285 THEN 258
  ELSE LET e == Extra(v, 265, 4)
       IN (((v - 265) % 4) * H!TwoTo(e)) + 11 + ((H!TwoTo(e - 1) - 1) * 8) + Num(bits, 0, e)
LengthBits(v) == IF v = 285 THEN 0 ELSE Extra(v, 265, 4)
DistanceOf(v, bits) ==
  IF v < 4 THEN v + 1
  ELSE LET e == Extra(v, 4, 2)
       IN (((v - 4) % 2) * H!TwoTo(e)) + 5 + ((H!TwoTo(e - 1) - 1) * 4) + Num(bits, 0, e)

\* What is copied may be what the copy makes.
Copied(bytes, dist, len) ==
  bytes \o [i \in 1..len |-> bytes[Len(bytes) - dist + 1 + ((i - 1) % dist)]]

\* The distance, when the length is known; its bits are fetched in two parts.
Distance(f0, len) ==
  LET f == Fetch(f0.p, f0.v)
      d == H!Decode(tdist, f.v)
      v == [f EXCEPT !.v = Drop(@, d.n)]
      g == IF d.v < 4 THEN v ELSE Fetch(v.p, v.v)
      dist == DistanceOf(d.v, g.v)
  IN IF ~CanFetch(f0.p, f0.v) THEN Fail
     ELSE IF d.v > 29 \/ (d.v >= 4 /\ ~CanFetch(v.p, v.v)) THEN Fail
     ELSE IF Len(out) < dist \/ sec.size - Len(out) < len THEN Fail
     ELSE /\ out' = Copied(out, dist, len)
          /\ Read([g EXCEPT !.v = Drop(@, Extra(d.v, 4, 2))])
          /\ Still(<<pc, last, Tables>>)

Match ==
  /\ pc = "symbols" /\ CanFetch(pin, val) /\ Symbol.d.v > 256
  /\ LET v == Symbol.d.v
         s == AfterSymbol
         f == IF LengthBits(v) = 0 THEN s ELSE Fetch(s.p, s.v)
     IN IF v > 285 \/ (LengthBits(v) > 0 /\ ~CanFetch(s.p, s.v)) THEN Fail
        ELSE Distance([f EXCEPT !.v = Drop(@, LengthBits(v))], LengthOf(v, f.v))

---------------------------------------------------------------------------

\* A table that is made for itself.
Generate ==
  /\ pc = "generate"
  /\ pc' = "done" /\ clen' = Small!Build(sec.codes)
  /\ UNCHANGED <<sec, pin, val, out, last, want, lens, tlit, tdist, result, uncompressed>>

Init ==
  /\ \/ sec \in Sections /\ pc = "section"
     \/ sec \in [codes : CodeLengths] /\ pc = "generate"
  /\ pin = 0 /\ val = <<>> /\ out = <<>> /\ last = FALSE
  /\ want = [lit |-> 0, dist |-> 0] /\ lens = <<>> /\ clen = H!Failed /\ tlit = H!Failed /\ tdist = H!Failed
  /\ result = -1 /\ uncompressed = <<>>

Done == pc = "done" /\ UNCHANGED vars

Next == \/ Uncompress \/ Stream \/ Verify \/ Block \/ Stored \/ Dynamic \/ CodeLength \/ MakeTables
        \/ OutOfInput \/ Literal \/ EndOfBlock \/ Match \/ Generate \/ Done

Spec == Init /\ [][Next]_vars

---------------------------------------------------------------------------
(* Properties *)

IsSection == "kind" \in DOMAIN sec
Read1(kind) == IsSection /\ pc = "done" /\ sec.kind = kind /\ sec.header

\* What a valid stream was made of comes out of it, wherever its bytes lie,
\* however its codes are chosen and its blocks follow one another; but for
\* the two kinds that elf.c gives up (see the findings).
Inflates == Read1("valid") /\ result = 1 /\ uncompressed # sec.data => sec.ends \/ sec.short

\* A section that is anything else (bytes missing, a header or a size that is
\* wrong, a copy of what is not there, codes that cannot be, another checksum)
\* is not handed to the reader of DWARF, and neither is one for which there was
\* no memory.
RefusesOthers ==
  pc = "done" /\ IsSection =>
    /\ Read1("invalid") \/ ~sec.header \/ result = 0 => uncompressed = <<>>
    /\ uncompressed # <<>> => uncompressed = sec.data /\ Len(out) = sec.size

\* A section is given back as what it was made of, or not at all.
Decompresses == Inflates /\ RefusesOthers

\* The buffer is never written past its end, and only the bytes up to an
\* aligned address are read past that of the section.
StaysInside == Len(out) <= (IF IsSection THEN sec.size ELSE 0) /\ (IsSection => pin <= Size + 3)

\* Whatever the lengths: if codes of these lengths can exist, the table decodes
\* every one, whatever bits come after it; if not, there is no table, unless
\* the code of the value 0 is the bit 0 (see the findings).
TablesDecode ==
  pc = "done" /\ ~IsSection =>
    LET c == sec.codes
        After(v) == {Small!Canonical(c, v) \o r : r \in [1..4 - c[v + 1] -> {0, 1}]}
    IN IF Small!Prefix(c)
       THEN /\ clen # Small!Failed
            /\ \A v \in 0..Len(c) - 1 : c[v + 1] > 0 =>
                 \A bits \in After(v) : Small!Decode(clen, bits) = [v |-> v, n |-> c[v + 1]]
       ELSE clen = Small!Failed \/ c[1] = 1
===============================================================================
