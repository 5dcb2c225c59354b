------------------------------- MODULE Deflate -------------------------------
(***************************************************************************)
(* The format of compressed sections (RFC 1950 and 1951): what the bytes   *)
(* of a stream are, and what they stand for.  A block is stored, or is a   *)
(* sequence of bytes and of copies of what came before, in codes that are  *)
(* fixed or given in the block.                                            *)
(***************************************************************************)
EXTENDS Integers, Sequences, SequencesExt, FiniteSetsExt

LOCAL H == INSTANCE HuffmanTable WITH Primary <- 8, MaxLength <- 15, ValueMask <- 511
LOCAL Fixed == [lit |-> [i \in 1..288 |-> IF i <= 144 THEN 8 ELSE IF i <= 256 THEN 9 ELSE IF i <= 280 THEN 7 ELSE 8],
                dist |-> [i \in 1..32 |-> 5]]

\* Blocks: bytes; items in fixed codes; items in codes of which the lengths
\* are given, for the values that have a code.
StoredBlock(bytes) == [k |-> "stored", bytes |-> bytes]
FixedBlock(items) == [k |-> "fixed", items |-> items]
DynamicBlock(lit, dist, items) == [k |-> "dynamic", lit |-> lit, dist |-> dist, items |-> items]
Byte(b) == [byte |-> b]
CopyOf(len, dist) == [len |-> len, dist |-> dist]

---------------------------------------------------------------------------
(* What it stands for *)

IsCopy(item) == "len" \in DOMAIN item
CopyBytes(out, dist, len) ==
  LET byte[i \in 1..Len(out) + len] == IF i <= Len(out) THEN out[i] ELSE byte[i - dist]
  IN [i \in 1..Len(out) + len |-> byte[i]]
Meaning(blocks) ==
  LET Item(out, item) == IF IsCopy(item) THEN CopyBytes(out, item.dist, item.len) ELSE Append(out, item.byte)
  IN FoldLeft(LAMBDA out, b : IF b.k = "stored" THEN out \o b.bytes ELSE FoldLeft(Item, out, b.items), <<>>, blocks)

---------------------------------------------------------------------------
(* Its bits *)

LengthBase == <<3, 4, 5, 6, 7, 8, 9, 10, 11, 13, 15, 17, 19, 23, 27, 31, 35, 43, 51, 59, 67, 83, 99, 115, 131, 163, 195, 227, 258>>
LengthExtra == <<0, 0, 0, 0, 0, 0, 0, 0, 1, 1, 1, 1, 2, 2, 2, 2, 3, 3, 3, 3, 4, 4, 4, 4, 5, 5, 5, 5, 0>>
DistBase == <<1, 2, 3, 4, 5, 7, 9, 13, 17, 25, 33, 49, 65, 97, 129, 193, 257, 385>>
DistExtra == <<0, 0, 0, 0, 1, 1, 2, 2, 3, 3, 4, 4, 5, 5, 6, 6, 7, 7>>
Class(base, x) == Max({i \in DOMAIN base : base[i] <= x})

\* Values without a code cannot be written; a stream that tries is not valid.
CodeOf(lens, v) == IF v < Len(lens) THEN H!Canonical(lens, v) ELSE <<>>
ItemBits(item, codes) ==
  IF ~IsCopy(item) THEN CodeOf(codes.lit, item.byte)
  ELSE LET l == Class(LengthBase, item.len)
           d == Class(DistBase, item.dist)
       IN CodeOf(codes.lit, 256 + l) \o H!BitsOf(item.len - LengthBase[l], LengthExtra[l])
            \o CodeOf(codes.dist, d - 1) \o H!BitsOf(item.dist - DistBase[d], DistExtra[d])

\* Lengths of codes, themselves in a code; these have four or five bits.
Order == <<16, 17, 18, 0, 8, 7, 9, 6, 10, 5, 11, 4, 12, 3, 13, 2, 14, 1, 15>>
LengthLens == [i \in 1..19 |-> IF i <= 13 THEN 4 ELSE 5]
RECURSIVE LensBits(_, _)
LensBits(lens, before) ==
  IF lens = <<>> THEN <<>>
  ELSE LET same == {n \in 1..Len(lens) : \A i \in 1..n : lens[i] = lens[1]}
           run == Max(same)
           C(v, x, n) == H!Canonical(LengthLens, v) \o H!BitsOf(x, n)
           Rest(n) == LensBits(SubSeq(lens, n + 1, Len(lens)), lens[1])
       IN CASE lens[1] = 0 /\ run >= 11 -> C(18, Min({run, 138}) - 11, 7) \o Rest(Min({run, 138}))
            [] lens[1] = 0 /\ run \in 3..10 -> C(17, run - 3, 3) \o Rest(run)
            [] lens[1] # 0 /\ lens[1] = before /\ run >= 3 -> C(16, Min({run, 6}) - 3, 2) \o Rest(Min({run, 6}))
            [] OTHER -> C(lens[1], 0, 0) \o Rest(1)

LensOf(given, least) ==
  LET n == Max({least} \cup {g[1] + 1 : g \in given})
  IN [i \in 1..n |-> LET g == {x \in given : x[1] = i - 1} IN IF g = {} THEN 0 ELSE (CHOOSE x \in g : TRUE)[2]]
Codes(b) == IF b.k = "fixed" THEN Fixed ELSE [lit |-> LensOf(b.lit, 257), dist |-> LensOf(b.dist, 1)]

Header(b) ==
  LET c == Codes(b)
  IN IF b.k = "fixed" THEN <<>>
     ELSE H!BitsOf(Len(c.lit) - 257, 5) \o H!BitsOf(Len(c.dist) - 1, 5) \o H!BitsOf(15, 4)
            \o FlattenSeq([i \in 1..19 |-> H!BitsOf(LengthLens[Order[i] + 1], 3)])
            \o LensBits(c.lit \o c.dist, 0)

Padding(bits) == [i \in 1..((8 - (Len(bits) % 8)) % 8) |-> 0]
BytesBits(bytes) == FlattenSeq([i \in DOMAIN bytes |-> H!BitsOf(bytes[i], 8)])
Start(b, isLast) == <<IF isLast THEN 1 ELSE 0>> \o H!BitsOf(CASE b.k = "stored" -> 0 [] b.k = "fixed" -> 1 [] OTHER -> 2, 2)
EndCode(b) == CodeOf(Codes(b).lit, 256)

BlockBits(bits, b, isLast) ==
  LET started == bits \o Start(b, isLast)
      n == Len(b.bytes)
  IN IF b.k = "stored"
     THEN started \o Padding(started) \o H!BitsOf(n, 16) \o H!BitsOf(65535 - n, 16) \o BytesBits(b.bytes)
     ELSE started \o Header(b) \o FlattenSeq([i \in DOMAIN b.items |-> ItemBits(b.items[i], Codes(b))]) \o EndCode(b)

AllBits(blocks) == FoldLeft(LAMBDA bits, i : BlockBits(bits, blocks[i], i = Len(blocks)), <<>>, [i \in DOMAIN blocks |-> i])
ToBytes(bits) ==
  LET all == bits \o Padding(bits)
  IN [i \in 1..Len(all) \div 8 |-> H!Number[SubSeq(all, 8 * i - 7, 8 * i)]]

RECURSIVE Total(_)
Total(xs) ==
  LET n == Len(xs)
  IN IF n = 0 THEN 0 ELSE IF n = 1 THEN xs[1]
     ELSE Total(SubSeq(xs, 1, n \div 2)) + Total(SubSeq(xs, n \div 2 + 1, n))
Adler(bytes) ==
  LET n == Len(bytes)
      Sum(k) == 1 + Total(SubSeq(bytes, 1, k))
      a == Sum(n) % 65521
      b == Total([k \in 1..n |-> Sum(k)]) % 65521
  IN <<b \div 256, b % 256, a \div 256, a % 256>>

ZlibHeader == <<120, 156>>
Stream(blocks) == ZlibHeader \o ToBytes(AllBits(blocks)) \o Adler(Meaning(blocks))

---------------------------------------------------------------------------
(* Two kinds of streams that elf.c does not read *)

\* A stored block of which the three bits before the length end a byte.
EndsByte(blocks) ==
  \E i \in DOMAIN blocks :
    blocks[i].k = "stored" /\ (Len(FoldLeft(LAMBDA bits, j : BlockBits(bits, blocks[j], FALSE), <<>>, [j \in 1..i - 1 |-> j])) + 3) % 8 = 0

\* The data ends one byte before an aligned address, with less than seven bits
\* for the end of the last block and the padding after it.
ShortEnd(blocks, at) ==
  LET b == Last(blocks)
      bits == AllBits(blocks)
  IN /\ b.k # "stored"
     /\ (at + 2 + Len(ToBytes(bits))) % 4 = 3
     /\ Len(EndCode(b)) + Len(Padding(bits)) < 7
===============================================================================
