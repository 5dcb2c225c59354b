------------------------------ MODULE MCInflate ------------------------------
(* The sections and the codes of run inflate. *)
EXTENDS Inflate, FiniteSets

D == INSTANCE Deflate

Text(s) == [i \in DOMAIN s |-> D!Byte(s[i])]
Abc == Text(<<97, 98, 97>>)
\* A copy that overlaps what it makes, a long one, and one with all kinds of
\* further bits.
Overlap == Abc \o <<D!CopyOf(7, 2)>>
Run == Text([i \in 1..40 |-> i]) \o <<D!CopyOf(258, 40), D!CopyOf(11, 200), D!CopyOf(5, 1)>>
Far == Text(<<97, 98, 99, 97, 97, 97>>) \o <<D!CopyOf(4, 5), D!CopyOf(20, 6)>>

\* Codes for a, b, c, the end, and copies of 3, 4, 7, 11 and 19 bytes.
Flat == {<<97, 3>>, <<98, 3>>, <<99, 3>>, <<256, 3>>, <<257, 3>>, <<258, 3>>, <<261, 3>>, <<269, 3>>}
\* Codes that need secondary tables.
Steep == {<<97, 1>>, <<98, 2>>, <<99, 3>>, <<1, 4>>, <<2, 5>>, <<3, 6>>, <<4, 7>>, <<5, 8>>, <<6, 9>>, <<261, 10>>, <<256, 11>>, <<257, 12>>, <<258, 12>>}
EarlyEnd == {<<97, 2>>, <<98, 2>>, <<256, 1>>}
NoEnd == {<<97, 1>>, <<98, 1>>}
TooMany == {<<97, 1>>, <<98, 1>>, <<256, 1>>}
Zeros == {<<0, 1>>, <<256, 1>>}
Dists == {<<0, 1>>, <<1, 2>>, <<4, 2>>}
OneDist == {<<1, 1>>}
TooManyDists == {<<0, 1>>, <<1, 1>>, <<2, 1>>}
None == {}
Nines == {<<d, 9>> : d \in 0..4} \cup {<<5, 8>>}

Dyn(lit, dist, items) == D!DynamicBlock(lit, dist, items)
ValidBlocks == {
  <<D!FixedBlock(<<>>)>>,
  <<D!FixedBlock(Overlap)>>,
  <<D!FixedBlock(Run)>>,
  <<D!FixedBlock(Far)>>,
  <<D!StoredBlock(<<1, 2, 3>>)>>,
  <<D!StoredBlock(<<>>), D!StoredBlock(<<255>>), D!FixedBlock(Abc)>>,
  <<Dyn(EarlyEnd, None, Text(<<97>>)), Dyn(Flat, OneDist, Abc \o <<D!CopyOf(4, 2)>>)>>,
  <<Dyn(Zeros, None, Text(<<0, 0, 0>>))>>,
  <<Dyn(Flat, Dists, Far)>>,
  <<Dyn(Steep, Nines, Text(<<97, 1, 2, 3, 4, 5, 6>>) \o <<D!CopyOf(4, 3), D!CopyOf(7, 5), D!CopyOf(3, 7)>>)>>}
  \* Blocks that end, and stored blocks that begin, at every bit of a byte.
  \cup {<<D!FixedBlock(Text([i \in 1..n |-> 200])), D!StoredBlock(<<4, 5>>), D!FixedBlock(<<D!CopyOf(3, 2)>>)>> : n \in 0..8}
  \cup {<<Dyn(EarlyEnd, None, Text([i \in 1..n |-> 97]))>> : n \in 0..16}
  \cup {<<Dyn(EarlyEnd, None, Text([i \in 1..n |-> 97])), D!StoredBlock(<<7>>)>> : n \in 0..3}

Section(kind, data, bytes, at, size, header, blocks) ==
  [kind |-> kind, data |-> data, bytes |-> bytes, at |-> at, size |-> size, header |-> header,
   ends |-> blocks # <<>> /\ D!EndsByte(blocks), short |-> blocks # <<>> /\ D!ShortEnd(blocks, at)]
Of(blocks, at) == LET m == D!Meaning(blocks) IN Section("valid", m, D!Stream(blocks), at, Len(m), TRUE, blocks)
\* A byte is changed, left out, or added; the size is wrong.
Bad(bytes, at, size) == Section("invalid", <<>>, bytes, at, size, TRUE, <<>>)
BadOnes ==
  LET m == D!Meaning(<<D!FixedBlock(Overlap)>>)
      s == D!Stream(<<D!FixedBlock(Overlap)>>)
      t == D!Stream(<<D!StoredBlock(<<1, 2, 3>>)>>)
      Raw(blocks) == D!ZlibHeader \o D!ToBytes(D!AllBits(blocks)) \o <<0, 0, 0, 1>>
      Bits(bits) == D!ZlibHeader \o D!ToBytes(bits) \o <<0, 0, 0, 0, 0, 0, 0, 1>>
      Num5(x) == H!BitsOf(x, 5)
      Fixed == <<1, 1, 0>>
      Lens(hlit, hdist, codes) ==
        <<1, 0, 1>> \o Num5(hlit) \o Num5(hdist) \o H!BitsOf(15, 4)
          \o FlattenSeq([i \in 1..19 |-> H!BitsOf(D!LengthLens[D!Order[i] + 1], 3)])
          \o FlattenSeq([i \in DOMAIN codes |-> H!Canonical(D!LengthLens, codes[i])])
  IN {Bad([s EXCEPT ![i] = IF @ = 255 THEN 0 ELSE @ + 1], 0, Len(m)) : i \in DOMAIN s}
       \cup {Bad([t EXCEPT ![i] = IF @ = 255 THEN 0 ELSE @ + 1], 1, 3) : i \in DOMAIN t}
       \cup {Bad(SubSeq(s, 1, n), 0, Len(m)) : n \in 0..Len(s) - 1}
       \cup {Bad(s, at, Len(m) + d) : at \in 0..3, d \in {-1, 1}}
       \cup {Bad(Raw(<<b>>), 2, 9) : b \in {
             D!FixedBlock(<<D!CopyOf(3, 1)>>), D!FixedBlock(<<D!Byte(97), D!CopyOf(3, 2)>>),
             D!FixedBlock(Text(<<97, 286>>)), D!FixedBlock(Abc \o <<D!CopyOf(7, 3)>>),
             Dyn(NoEnd, None, Abc), Dyn(TooMany, None, Abc), Dyn(EarlyEnd, TooManyDists, Abc),
             D!StoredBlock(<<1, 2, 3, 4, 5, 6, 7, 8, 9, 10>>)}}
       \cup {Bad(Bits(bits), 2, 9) : bits \in {
             <<1, 1, 1>>, Fixed \o H!Canonical(FixedLit, 97) \o H!Canonical(FixedLit, 257) \o H!Canonical(FixedDist, 30),
             Lens(30, 0, <<>>), Lens(0, 30, <<>>), Lens(0, 0, <<16>>), Lens(0, 0, <<18>>), Lens(15, 15, <<>>)}}
       \cup {Bad(<<120, 187>> \o Drop(s, 2), 0, Len(m)), Bad(<<136, 28>> \o Drop(s, 2), 0, Len(m))}

\* Two streams in one section: they come out, or nothing does.
Two(at) ==
  LET m == D!Meaning(<<D!FixedBlock(Abc)>>) s == D!Stream(<<D!FixedBlock(Abc)>>)
  IN Section("two", m \o m, s \o SubSeq(s, 1, Len(s) - 4) \o D!Adler(m \o m), at, 2 * Len(m), TRUE, <<>>)

MCSections ==
  {Of(b, at) : b \in ValidBlocks, at \in 0..3} \cup BadOnes \cup {Two(at) : at \in 0..3}
    \cup {[Of(<<D!FixedBlock(Abc)>>, 0) EXCEPT !.header = FALSE]}
MCCodeLengths == UNION {[1..n -> 0..4] : n \in 1..5}
===============================================================================
