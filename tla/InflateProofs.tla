---------------------------- MODULE InflateProofs ----------------------------
EXTENDS Inflate, SequenceTheorems, WellFoundedInduction, TLAPS

-----------------------------------------------------------------------------
(* Loops.                                                                  *)

LEMMA Induction ==
    ASSUME NEW n \in Nat, NEW S, 0 \in S, \A j \in 1..n : j - 1 \in S => j \in S
    PROVE  0..n \subseteq S
<1> SUFFICES ASSUME (0..n) \ S # {}
             PROVE  FALSE
    OBVIOUS
<1> DEFINE R == (0..n) \ S
<1>1. R \subseteq Nat
    OBVIOUS
<1>2. IsWellFoundedOn(OpToRel(<, Nat), Nat)
    BY NatLessThanWellFounded
<1>3. PICK m \in R : \A k \in R : ~(<<k, m>> \in OpToRel(<, Nat))
    BY <1>1, <1>2, WFMin
<1>4. \A k \in R : ~(k < m)
    BY <1>1, <1>3 DEF OpToRel
<1>5. m # 0 /\ m - 1 \in 0..n /\ m \in 1..n
    OBVIOUS
<1>6. m - 1 \in R
    BY <1>5
<1> QED BY <1>4, <1>5, <1>6

\* A loop that keeps within T has results, all of them in T.
Runs(n, T, start, step) ==
    \E f \in [0..n -> T] : f[0] = start /\ \A j \in 1..n : f[j] = step[<<j, f[j - 1]>>]

LEMMA Loop ==
    ASSUME NEW n \in Nat, NEW T, NEW start \in T, NEW step \in [(1..n) \X T -> T]
    PROVE  Runs(n, T, start, step)
<1> DEFINE S == {m \in 0..n : \E f \in [0..m -> T] :
                    f[0] = start /\ \A j \in 1..m : f[j] = step[<<j, f[j - 1]>>]}
<1>1. 0 \in S
    <2>1. [j \in 0..0 |-> start] \in [0..0 -> T]
        OBVIOUS
    <2>2. [j \in 0..0 |-> start][0] = start /\ \A j \in 1..0 : FALSE
        OBVIOUS
    <2>3. \E f \in [0..0 -> T] : f[0] = start /\ \A j \in 1..0 : f[j] = step[<<j, f[j - 1]>>]
        BY <2>1, <2>2
    <2> QED BY <2>3
<1>2. ASSUME NEW m \in 1..n, m - 1 \in S PROVE m \in S
    <2>1. PICK f \in [0..m - 1 -> T] :
            f[0] = start /\ \A j \in 1..m - 1 : f[j] = step[<<j, f[j - 1]>>]
        BY <1>2
    <2> DEFINE g == [j \in 0..m |-> IF j = m THEN step[<<m, f[m - 1]>>] ELSE f[j]]
    <2>2. f[m - 1] \in T
        OBVIOUS
    <2>3. <<m, f[m - 1]>> \in (1..n) \X T
        BY <2>2
    <2>4. step[<<m, f[m - 1]>>] \in T
        BY <2>3
    <2>5. g \in [0..m -> T]
        BY <2>4
    <2>6. \A j \in 0..m - 1 : g[j] = f[j]
        OBVIOUS
    <2>7. g[m] = step[<<m, f[m - 1]>>] /\ g[0] = start
        BY <2>1, <2>6
    <2>8. \A j \in 1..m : g[j] = step[<<j, g[j - 1]>>]
        <3> TAKE j \in 1..m
        <3> HIDE DEF g
        <3>1. CASE j = m
            BY <2>6, <2>7, <3>1
        <3>2. CASE j \in 1..m - 1
            BY <2>1, <2>6, <3>2
        <3> QED BY <3>1, <3>2
    <2>9. g[0] = start
        BY <2>7
    <2> HIDE DEF g
    <2>10. \E h \in [0..m -> T] : h[0] = start /\ \A j \in 1..m : h[j] = step[<<j, h[j - 1]>>]
        BY <2>5, <2>8, <2>9
    <2> QED BY <2>10
<1>3. 0..n \subseteq S
    <2> HIDE DEF S
    <2> QED BY <1>1, <1>2, Induction
<1> QED BY <1>3 DEF Runs

\* What a recursive definition of this form defines.
LEMMA LoopStays ==
    ASSUME NEW n \in Nat, NEW T, NEW f, f[0] \in T,
           \A j \in 1..n : f[j - 1] \in T => f[j] \in T
    PROVE  \A j \in 0..n : f[j] \in T
<1> DEFINE S == {j \in 0..n : f[j] \in T}
<1>1. 0 \in S /\ \A j \in 1..n : j - 1 \in S => j \in S
    OBVIOUS
<1>2. 0..n \subseteq S
    <2> HIDE DEF S
    <2> QED BY <1>1, Induction
<1> QED BY <1>2

-----------------------------------------------------------------------------
(* Bits.                                                                   *)

Bits == {0, 1}

LEMMA PowersOfTwo ==
    /\ H!TwoTo(0) = 1 /\ H!TwoTo(1) = 2 /\ H!TwoTo(2) = 4 /\ H!TwoTo(3) = 8
    /\ H!TwoTo(4) = 16 /\ H!TwoTo(5) = 32 /\ H!TwoTo(6) = 64 /\ H!TwoTo(7) = 128
    /\ H!TwoTo(8) = 256 /\ H!TwoTo(9) = 512 /\ H!TwoTo(10) = 1024 /\ H!TwoTo(11) = 2048
    /\ H!TwoTo(12) = 4096 /\ H!TwoTo(13) = 8192 /\ H!TwoTo(14) = 16384 /\ H!TwoTo(15) = 32768
BY DEF H!TwoTo

LEMMA UpTo15 ==
    ASSUME NEW n \in 0..15
    PROVE  \/ n = 0 \/ n = 1 \/ n = 2 \/ n = 3 \/ n = 4 \/ n = 5 \/ n = 6 \/ n = 7
           \/ n = 8 \/ n = 9 \/ n = 10 \/ n = 11 \/ n = 12 \/ n = 13 \/ n = 14 \/ n = 15
OBVIOUS

LEMMA Power == ASSUME NEW n \in 0..15 PROVE H!TwoTo(n) \in Nat \ {0}
BY UpTo15, PowersOfTwo

LEMMA PowerStep == ASSUME NEW n \in 1..15 PROVE H!TwoTo(n) = 2 * H!TwoTo(n - 1)
<1>1. n - 1 \in 0..14
    OBVIOUS
<1> QED BY <1>1, UpTo15, PowersOfTwo
\* The number of n bits.
LEMMA NumberBound ==
    ASSUME NEW n \in 0..15, NEW bits \in Seq(Bits), Len(bits) = n
    PROVE  H!Number[bits] \in Nat /\ H!Number[bits] < H!TwoTo(n)
<1> DEFINE Def(f) == f = [j \in 0..n |-> IF j = 0 THEN 0 ELSE f[j - 1] + bits[j] * H!TwoTo(j - 1)]
           number == CHOOSE f : Def(f)
           step == [p \in (1..n) \X Nat |-> p[2] + bits[p[1]] * H!TwoTo(p[1] - 1)]
<1>0. n \in Nat /\ \A j \in 1..n : bits[j] \in {0, 1} /\ j - 1 \in 0..15 /\ j \in 1..15
    BY DEF Bits
<1>1. \A j \in 1..n : bits[j] * H!TwoTo(j - 1) \in Nat /\ bits[j] * H!TwoTo(j - 1) <= H!TwoTo(j - 1)
    <2> TAKE j \in 1..n
    <2>1. H!TwoTo(j - 1) \in Nat
        BY <1>0, Power
    <2> QED BY <1>0, <2>1
<1>2. step \in [(1..n) \X Nat -> Nat]
    BY <1>1
<1>3. \A j \in 1..n, x \in Nat : step[<<j, x>>] = x + bits[j] * H!TwoTo(j - 1)
    OBVIOUS
<1>4. PICK f \in [0..n -> Nat] : f[0] = 0 /\ \A j \in 1..n : f[j] = step[<<j, f[j - 1]>>]
    <2> HIDE DEF step
    <2>1. 0 \in Nat
        OBVIOUS
    <2>2. Runs(n, Nat, 0, step)
        BY <1>0, <1>2, <2>1, Loop
    <2> QED BY <2>2 DEF Runs
<1>5. Def(f)
    <2>1. \A j \in 1..n : f[j - 1] \in Nat
        BY <1>0
    <2>2. \A j \in 1..n : f[j] = f[j - 1] + bits[j] * H!TwoTo(j - 1)
        BY <1>3, <1>4, <2>1
    <2> HIDE DEF step
    <2>3. \A j \in 0..n : f[j] = IF j = 0 THEN 0 ELSE f[j - 1] + bits[j] * H!TwoTo(j - 1)
        <3> TAKE j \in 0..n
        <3>1. CASE j = 0
            BY <1>4, <3>1
        <3>2. CASE j # 0
            <4>1. j \in 1..n
                BY <3>2
            <4> QED BY <2>2, <3>2, <4>1
        <3> QED BY <3>1, <3>2
    <2> DEFINE g == [j \in 0..n |-> IF j = 0 THEN 0 ELSE f[j - 1] + bits[j] * H!TwoTo(j - 1)]
    <2>4. DOMAIN f = DOMAIN g /\ \A j \in DOMAIN f : f[j] = g[j]
        BY <2>3
    <2>5. f = [j \in DOMAIN f |-> f[j]] /\ g = [j \in DOMAIN g |-> g[j]]
        OBVIOUS
    <2>6. f = g
        <3> HIDE DEF g
        <3> QED BY <2>4, <2>5
    <2> QED BY <2>6
<1>6. Def(number)
    <2> HIDE DEF Def
    <2> QED BY <1>5
<1>7. H!Number[bits] = number[n]
    BY DEF H!Number, Bits
<1>8. number[0] = 0 /\ \A j \in 1..n : number[j] = number[j - 1] + bits[j] * H!TwoTo(j - 1)
    <2> HIDE DEF number
    <2> QED BY <1>0, <1>6
<1>9. 0..n \subseteq {j \in 0..n : number[j] \in Nat /\ number[j] < H!TwoTo(j)}
    <2> HIDE DEF number
    <2> DEFINE S == {j \in 0..n : number[j] \in Nat /\ number[j] < H!TwoTo(j)}
    <2>1. 0 \in S
        <3>1. number[0] = 0 /\ H!TwoTo(0) = 1 /\ 0 \in 0..n
            BY <1>0, <1>8, PowersOfTwo
        <3> QED BY <3>1
    <2>2. ASSUME NEW j \in 1..n, j - 1 \in S PROVE j \in S
        <3> DEFINE p == H!TwoTo(j - 1)
                   x == bits[j] * p
        <3>1. p \in Nat /\ H!TwoTo(j) = 2 * p
            BY <1>0, Power, PowerStep
        <3>2. x \in Nat /\ x <= p
            BY <1>1
        <3>3. number[j] = number[j - 1] + x
            BY <1>8
        <3>4. number[j - 1] \in Nat /\ number[j - 1] < p
            BY <2>2
        <3> HIDE DEF p, x
        <3>5. \A a, y, q \in Nat : a < q /\ y <= q => a + y \in Nat /\ a + y < 2 * q
            OBVIOUS
        <3>6. number[j - 1] + x \in Nat /\ number[j - 1] + x < 2 * p
            BY <3>1, <3>2, <3>4, <3>5, Zenon
        <3>7. number[j] \in Nat /\ number[j] < H!TwoTo(j)
            BY <3>1, <3>3, <3>6, Zenon
        <3>8. j \in 0..n
            BY <1>0
        <3> QED BY <3>7, <3>8, Zenon
    <2>3. 0..n \subseteq S
        <3> HIDE DEF S
        <3> QED BY <1>0, <2>1, <2>2, Induction
    <2> QED BY <2>3
<1> QED BY <1>0, <1>7, <1>9

LEMMA BitOf == ASSUME NEW x \in Int, NEW d \in Nat \ {0} PROVE (x \div d) % 2 \in Bits
BY DEF Bits

LEMMA BitsOfType ==
    ASSUME NEW x \in Int, NEW n \in 0..15
    PROVE  H!BitsOf(x, n) \in Seq(Bits) /\ Len(H!BitsOf(x, n)) = n
<1>1. \A i \in 1..n : H!TwoTo(i - 1) \in Nat \ {0}
    BY Power
<1>2. \A i \in 1..n : (x \div H!TwoTo(i - 1)) % 2 \in Bits
    BY <1>1, BitOf
<1> QED BY <1>2 DEF H!BitsOf

LEMMA ReversedBound ==
    ASSUME NEW x \in Int, NEW j \in 0..15
    PROVE  H!Reversed(x, j) \in Nat /\ H!Reversed(x, j) < H!TwoTo(j)
<1> DEFINE b == H!BitsOf(x, j)
<1>1. b \in Seq(Bits) /\ Len(b) = j
    BY BitsOfType
<1> HIDE DEF b
<1>2. Reverse(b) \in Seq(Bits) /\ Len(Reverse(b)) = j
    BY <1>1 DEF Reverse
<1>3. H!Reversed(x, j) = H!Number[Reverse(b)]
    BY DEF H!Reversed, H!Reverse, Reverse, b
<1> QED BY <1>2, <1>3, NumberBound

LEMMA RemainderBound ==
    ASSUME NEW x \in Int, NEW j \in 0..15
    PROVE  x % H!TwoTo(j) \in Nat /\ x % H!TwoTo(j) < H!TwoTo(j)
<1>1. H!TwoTo(j) \in Nat \ {0}
    BY Power
<1>2. \A d \in Nat \ {0} : x % d \in Nat /\ x % d < d
    OBVIOUS
<1> QED BY <1>1, <1>2

LEMMA AfterBound ==
    ASSUME NEW code \in Int, NEW j \in 0..15, NEW n \in Int
    PROVE  H!After(code, j, n) \in Nat
<1>0. H!Reversed(code, j) \in Int
    <2>1. H!Reversed(code, j) \in Nat
        BY ReversedBound
    <2> QED BY <2>1
<1>1. H!Reversed(code, j) + n \in Int
    BY <1>0
<1> DEFINE r == H!Reversed(code, j) + n
<1> HIDE DEF r
<1>2. r % H!TwoTo(j) \in Nat
    BY <1>1, RemainderBound DEF r
<1>3. \A k \in Nat : k \in Int
    OBVIOUS
<1>4. H!Reversed(r % H!TwoTo(j), j) \in Nat
    BY <1>2, <1>3, ReversedBound
<1> QED BY <1>4 DEF H!After, r

LEMMA BetweenBound ==
    ASSUME NEW code \in Int, NEW other \in Int, NEW j \in 0..15
    PROVE  H!Between(code, other, j) \in Nat
<1>1. H!Reversed(other, j) \in Int /\ H!Reversed(code, j) \in Int
    <2>1. H!Reversed(other, j) \in Nat
        BY ReversedBound
    <2>2. H!Reversed(code, j) \in Nat
        BY ReversedBound
    <2> QED BY <2>1, <2>2
<1> DEFINE r == H!Reversed(other, j) - H!Reversed(code, j)
<1>2. r \in Int
    BY <1>1
<1> HIDE DEF r
<1>3. r % H!TwoTo(j) \in Nat
    BY <1>2, RemainderBound
<1> QED BY <1>3 DEF H!Between, r
-----------------------------------------------------------------------------
(* The values of the codes of a length.                                    *)

\* The values of a length, put together from those of each place.
LEMMA ValuesIn ==
    ASSUME NEW ls \in Seq(Nat), NEW j \in Nat, NEW S, <<>> \in S, \A x, y \in S : x \o y \in S,
           \A k \in 1..Len(ls) : ls[k] = j => <<k - 1>> \in S
    PROVE  H!Values(ls, j) \in S
<1> DEFINE m == Len(ls)
           T == [1..m -> S]
           n == 9
           start == [i \in 1..m |-> IF ls[i] = j THEN <<i - 1>> ELSE <<>>]
           Body(x, k) == [i \in 1..m |-> x[i] \o (IF i + H!TwoTo(k - 1) <= m THEN x[i + H!TwoTo(k - 1)] ELSE <<>>)]
<1> DEFINE Def(f) == f = [k \in 0..n |-> IF k = 0 THEN start ELSE Body(f[k - 1], k)]
           loop == CHOOSE f : Def(f)
           step == [p \in (1..n) \X T |-> Body(p[2], p[1])]
<1>0. n \in Nat /\ start \in T
    OBVIOUS
<1>1. \A k \in 1..n, x \in T : Body(x, k) \in T
    <2> TAKE k \in 1..n, x \in T
    <2>1. H!TwoTo(k - 1) \in Nat
        <3>1. k - 1 \in 0..15
            OBVIOUS
        <3> QED BY <3>1, Power
    <2>2. m \in Nat
        OBVIOUS
    <2> DEFINE y == [i \in 1..m |-> IF i + H!TwoTo(k - 1) <= m THEN x[i + H!TwoTo(k - 1)] ELSE <<>>]
    <2>3. \A i \in 1..m : x[i] \in S /\ y[i] \in S
        BY <2>1, <2>2
    <2>4. \A i \in 1..m : x[i] \o y[i] \in S
        BY <2>3
    <2> QED BY <2>4
<1>2. m = 0 \/ 1 \in 1..m
    <2>1. m \in Nat
        OBVIOUS
    <2> HIDE DEF m
    <2> QED BY <2>1
<1>3. H!Values(ls, j) = IF ls = <<>> THEN <<>> ELSE loop[n][1]
    BY DEF H!Values
<1>4. ls = <<>> \/ m # 0
    OBVIOUS
<1> HIDE DEF n, start, m, Body
<1>5. step \in [(1..n) \X T -> T]
    BY <1>1
<1>6. \A k \in 1..n, x \in T : step[<<k, x>>] = Body(x, k)
    OBVIOUS
<1> HIDE DEF step, T
<1>7. PICK f \in [0..n -> T] : f[0] = start /\ \A k \in 1..n : f[k] = step[<<k, f[k - 1]>>]
    <2>1. Runs(n, T, start, step)
        BY <1>0, <1>5, Loop
    <2> QED BY <2>1 DEF Runs
<1>8. Def(f)
    <2>1. \A k \in 1..n : f[k - 1] \in T
        BY <1>0
    <2>2. \A k \in 1..n : f[k] = Body(f[k - 1], k)
        BY <1>6, <1>7, <2>1
    <2> DEFINE g == [k \in 0..n |-> IF k = 0 THEN start ELSE Body(f[k - 1], k)]
    <2>3. f[0] = g[0] /\ \A k \in 1..n : f[k] = g[k]
        BY <1>0, <1>7, <2>2
    <2>4. f = [k \in 0..n |-> f[k]] /\ g = [k \in 0..n |-> g[k]]
        OBVIOUS
    <2>5. f = g
        <3> HIDE DEF g
        <3>1. \A k \in 0..n : k = 0 \/ k \in 1..n
            BY <1>0
        <3>2. \A k \in 0..n : f[k] = g[k]
            BY <2>3, <3>1, Zenon
        <3>3. [k \in 0..n |-> f[k]] = [k \in 0..n |-> g[k]]
            BY <3>2, Zenon
        <3> QED BY <2>4, <3>3, Zenon
    <2> QED BY <2>5
<1>9. Def(loop)
    <2> HIDE DEF Def
    <2> QED BY <1>8
<1> HIDE DEF loop
<1>10. loop[0] = start /\ \A k \in 1..n : loop[k] = Body(loop[k - 1], k)
    <2>1. loop = [k \in 0..n |-> IF k = 0 THEN start ELSE Body(loop[k - 1], k)]
        BY <1>9
    <2> HIDE DEF Def
    <2>2. \A k \in 0..n : loop[k] = IF k = 0 THEN start ELSE Body(loop[k - 1], k)
        BY <2>1, Zenon
    <2>3. 0 \in 0..n /\ \A k \in 1..n : k \in 0..n /\ k # 0
        BY <1>0
    <2> QED BY <2>2, <2>3, Zenon
<1> HIDE DEF Def
<1>11. loop[0] \in T /\ \A k \in 1..n : loop[k - 1] \in T => loop[k] \in T
    BY <1>0, <1>1, <1>10
<1>12. \A k \in 0..n : loop[k] \in T
    BY <1>0, <1>11, LoopStays
<1>13. loop[n] \in T
    BY <1>0, <1>12
<1>14. ls # <<>> => loop[n][1] \in S
    BY <1>2, <1>4, <1>13 DEF T
<1> QED BY <1>3, <1>14

\* They are numbers.
LEMMA ValuesType ==
    ASSUME NEW ls \in Seq(Nat), NEW j \in Nat
    PROVE  H!Values(ls, j) \in Seq(Nat)
<1>1. <<>> \in Seq(Nat) /\ \A x, y \in Seq(Nat) : x \o y \in Seq(Nat)
    OBVIOUS
<1>2. \A k \in 1..Len(ls) : <<k - 1>> \in Seq(Nat)
    <2> TAKE k \in 1..Len(ls)
    <2>1. k - 1 \in Nat
        OBVIOUS
    <2> QED BY <2>1
<1> QED BY <1>1, <1>2, ValuesIn

\* The first code of a length is a number.
LEMMA FirstCodeType ==
    ASSUME NEW ls \in Seq(Nat), NEW code \in Nat, NEW j \in 9..15
    PROVE  H!FirstCode(ls, code, j) \in Nat
<1> DEFINE n == j - 8 - 1
           Body(x, k) == H!After(x, 8 + k, Len(H!Values(ls, 8 + k)))
<1> DEFINE Def(f) == f = [k \in 0..n |-> IF k = 0 THEN code ELSE Body(f[k - 1], k)]
           loop == CHOOSE f : Def(f)
           step == [p \in (1..n) \X Nat |-> Body(p[2], p[1])]
<1>0. n \in Nat /\ code \in Nat
    OBVIOUS
<1>1. \A k \in 1..n, x \in Nat : Body(x, k) \in Nat
    <2> TAKE k \in 1..n, x \in Nat
    <2>1. 8 + k \in 0..15 /\ 8 + k \in Nat /\ x \in Int
        OBVIOUS
    <2>2. H!Values(ls, 8 + k) \in Seq(Nat)
        BY <2>1, ValuesType
    <2>3. Len(H!Values(ls, 8 + k)) \in Int
        BY <2>2
    <2> QED BY <2>1, <2>3, AfterBound
<1> HIDE DEF n, Body
<1>2. step \in [(1..n) \X Nat -> Nat]
    BY <1>1
<1>3. \A k \in 1..n, x \in Nat : step[<<k, x>>] = Body(x, k)
    OBVIOUS
<1> HIDE DEF step
<1>4. PICK f \in [0..n -> Nat] : f[0] = code /\ \A k \in 1..n : f[k] = step[<<k, f[k - 1]>>]
    <2>1. Runs(n, Nat, code, step)
        BY <1>0, <1>2, Loop
    <2> QED BY <2>1 DEF Runs
<1>5. Def(f)
    <2>1. \A k \in 1..n : f[k - 1] \in Nat
        BY <1>0
    <2>2. \A k \in 1..n : f[k] = Body(f[k - 1], k)
        BY <1>3, <1>4, <2>1
    <2> DEFINE g == [k \in 0..n |-> IF k = 0 THEN code ELSE Body(f[k - 1], k)]
    <2>3. f[0] = g[0] /\ \A k \in 1..n : f[k] = g[k]
        BY <1>0, <1>4, <2>2
    <2>4. f = [k \in 0..n |-> f[k]] /\ g = [k \in 0..n |-> g[k]]
        OBVIOUS
    <2>5. f = g
        <3> HIDE DEF g
        <3>1. \A k \in 0..n : k = 0 \/ k \in 1..n
            BY <1>0
        <3>2. \A k \in 0..n : f[k] = g[k]
            BY <2>3, <3>1, Zenon
        <3>3. [k \in 0..n |-> f[k]] = [k \in 0..n |-> g[k]]
            BY <3>2, Zenon
        <3> QED BY <2>4, <3>3, Zenon
    <2> QED BY <2>5
<1>6. Def(loop)
    <2> HIDE DEF Def
    <2> QED BY <1>5
<1>7. H!FirstCode(ls, code, j) = loop[n]
    BY DEF H!FirstCode, Body, n
<1> HIDE DEF loop
<1>8. loop[0] = code /\ \A k \in 1..n : loop[k] = Body(loop[k - 1], k)
    <2>1. loop = [k \in 0..n |-> IF k = 0 THEN code ELSE Body(loop[k - 1], k)]
        BY <1>6
    <2> HIDE DEF Def
    <2>2. \A k \in 0..n : loop[k] = IF k = 0 THEN code ELSE Body(loop[k - 1], k)
        BY <2>1, Zenon
    <2>3. 0 \in 0..n /\ \A k \in 1..n : k \in 0..n /\ k # 0
        BY <1>0
    <2> QED BY <2>2, <2>3, Zenon
<1> HIDE DEF Def
<1>9. loop[0] \in Nat /\ \A k \in 1..n : loop[k - 1] \in Nat => loop[k] \in Nat
    BY <1>0, <1>1, <1>8
<1>10. \A k \in 0..n : loop[k] \in Nat
    BY <1>0, <1>9, LoopStays
<1> QED BY <1>0, <1>7, <1>10

Nothing == {<<>>}

\* No value has a code of a length that does not occur.
LEMMA ValuesNone ==
    ASSUME NEW ls \in Seq(Nat), ls \in Seq(0..7), NEW j \in 8..15
    PROVE  Len(H!Values(ls, j)) = 0
<1>1. <<>> \in Nothing /\ \A x, y \in Nothing : x \o y \in Nothing
    <2>1. <<>> \o <<>> = <<>>
        OBVIOUS
    <2> QED BY <2>1 DEF Nothing
<1>2. \A k \in 1..Len(ls) : ls[k] # j
    <2>1. \A S : \A s \in Seq(S) : \A i \in 1..Len(s) : s[i] \in S
        OBVIOUS
    <2>2. \A k \in 1..Len(ls) : ls[k] \in 0..7
        BY <2>1, Zenon
    <2>3. \A l \in 0..7 : l # j
        OBVIOUS
    <2> QED BY <2>2, <2>3, Zenon
<1>3. j \in Nat /\ \A k \in 1..Len(ls) : ls[k] = j => <<k - 1>> \in Nothing
    BY <1>2
<1>4. H!Values(ls, j) \in Nothing
    BY <1>1, <1>3, ValuesIn
<1>5. H!Values(ls, j) = <<>>
    BY <1>4 DEF Nothing
<1> QED BY <1>5

-----------------------------------------------------------------------------
(* Tables.                                                                 *)

\* A place of the first 2^8 names a secondary table that is part of the
\* table; no table needs more than 895 of the 1024 places elf.c allows it.
Most == 639
Entries == [v : Nat, b : 0..7, secondary : BOOLEAN]
Closed(table, used) ==
    /\ table \in [0..255 + used -> Entries]
    /\ \A p \in 0..255 : table[p].secondary => table[p].v + H!TwoTo(table[p].b) <= used
Places(u) == [0..255 + u -> Entries]
Records == [table : UNION {Places(u) : u \in 0..Most}, code : Nat, used : 0..Most, at : Nat, bits : Nat, ok : BOOLEAN]
\* With lengths of at most 7 there are no secondary tables.
Plain(table) == \A p \in 0..255 : table[p].b <= 6 /\ ~table[p].secondary
Goods(short) == {t \in Records : Closed(t.table, t.used) /\ (short => t.used = 0 /\ Plain(t.table))}

LEMMA MakeGood ==
    ASSUME NEW short \in BOOLEAN, NEW table, NEW used \in 0..Most, Closed(table, used),
           short => used = 0 /\ Plain(table),
           NEW code \in Nat, NEW at \in Nat, NEW bits \in Nat, NEW ok \in BOOLEAN
    PROVE  [table |-> table, code |-> code, used |-> used, at |-> at, bits |-> bits, ok |-> ok] \in Goods(short)
<1>1. table \in Places(used)
    BY DEF Closed, Places
<1>2. table \in UNION {Places(u) : u \in 0..Most}
    BY <1>1
<1> DEFINE t == [table |-> table, code |-> code, used |-> used, at |-> at, bits |-> bits, ok |-> ok]
<1>3. t \in Records
    BY <1>2 DEF Records
<1>4. t.table = table /\ t.used = used
    OBVIOUS
<1> HIDE DEF t
<1>5. t \in Goods(short)
    BY <1>3, <1>4 DEF Goods
<1> QED BY <1>5 DEF t

LEMMA GoodParts ==
    ASSUME NEW short \in BOOLEAN, NEW t \in Goods(short)
    PROVE  /\ t = [table |-> t.table, code |-> t.code, used |-> t.used, at |-> t.at, bits |-> t.bits, ok |-> t.ok]
           /\ Closed(t.table, t.used)
           /\ short => t.used = 0 /\ Plain(t.table)
           /\ t.code \in Nat /\ t.used \in 0..Most /\ t.at \in Nat /\ t.bits \in Nat /\ t.ok \in BOOLEAN
           /\ DOMAIN t.table = 0..255 + t.used
BY DEF Goods, Records, Closed

LEMMA EmptyIs == H!Empty = [v |-> 0, b |-> 0, secondary |-> FALSE] /\ H!Empty \in Entries
BY DEF H!Empty, H!Entry, Entries

\* A table that is given up.
LEMMA GiveUp ==
    ASSUME NEW short \in BOOLEAN, NEW t \in Goods(short)
    PROVE  [t EXCEPT !.ok = FALSE] \in Goods(short)
<1> DEFINE A == UNION {Places(u) : u \in 0..Most}
           B == 0..Most
           r == [t EXCEPT !.ok = FALSE]
<1>1. t \in [table : A, code : Nat, used : B, at : Nat, bits : Nat, ok : BOOLEAN] /\ Closed(t.table, t.used)
    BY DEF Goods, Records
<1>0. short => t.used = 0 /\ Plain(t.table)
    BY DEF Goods
<1> HIDE DEF A, B
<1>2. r \in [table : A, code : Nat, used : B, at : Nat, bits : Nat, ok : BOOLEAN]
    BY <1>1
<1>3. r.table = t.table /\ r.used = t.used
    BY <1>1
<1> HIDE DEF r
<1>4. r \in Goods(short)
    BY <1>0, <1>1, <1>2, <1>3 DEF Goods, Records, A, B
<1> QED BY <1>4 DEF r

\* Places are filled with values.
LEMMA FillGood ==
    ASSUME NEW short \in BOOLEAN, NEW t \in Goods(short), NEW entries,
           \A p \in DOMAIN entries : entries[p] \in Entries /\ ~entries[p].secondary /\ (short => entries[p].b <= 6)
    PROVE  H!Fill(t, entries) \in Goods(short)
<1> DEFINE table == [p \in DOMAIN t.table |-> IF p \in DOMAIN entries THEN entries[p] ELSE t.table[p]]
<1>1. Closed(t.table, t.used)
    BY GoodParts
<1>2. Closed(table, t.used)
    <2>1. DOMAIN t.table = 0..255 + t.used /\ t.used \in Nat
        <3>1. DOMAIN t.table = 0..255 + t.used
            BY GoodParts, Zenon
        <3>2. t.used \in 0..Most
            BY GoodParts, Zenon
        <3>3. t.used \in Nat
            BY <3>2 DEF Most
        <3> QED BY <3>1, <3>3
    <2>2. \A p \in 0..255 + t.used : table[p] \in Entries
        BY <1>1, <2>1 DEF Closed
    <2>3. table \in [0..255 + t.used -> Entries]
        BY <2>1, <2>2
    <2>4. \A p \in 0..255 : p \in DOMAIN t.table
        BY <2>1
    <2>5. \A p \in 0..255 : table[p].secondary => table[p] = t.table[p]
        BY <2>4
    <2> HIDE DEF table
    <2> QED BY <1>1, <2>3, <2>5 DEF Closed
<1>6. short => t.used = 0 /\ Plain(table)
    <2> SUFFICES ASSUME short PROVE t.used = 0 /\ Plain(table)
        OBVIOUS
    <2>1. t.used = 0 /\ Plain(t.table) /\ DOMAIN t.table = 0..255 + t.used
        BY GoodParts, Zenon
    <2>2. \A p \in 0..255 : p \in DOMAIN t.table
        BY <2>1
    <2>3. \A p \in 0..255 : table[p].b <= 6 /\ ~table[p].secondary
        <3> TAKE p \in 0..255
        <3>1. t.table[p].b <= 6 /\ ~t.table[p].secondary
            BY <2>1, Zenon DEF Plain
        <3>2. table[p] = IF p \in DOMAIN entries THEN entries[p] ELSE t.table[p]
            BY <2>2
        <3> HIDE DEF table
        <3> QED BY <3>1, <3>2
    <2> HIDE DEF table
    <2> QED BY <2>1, <2>3 DEF Plain
<1>3. [t EXCEPT !.table = [p \in DOMAIN @ |-> IF p \in DOMAIN entries THEN entries[p] ELSE @[p]]]
        = [table |-> table, code |-> t.code, used |-> t.used, at |-> t.at, bits |-> t.bits, ok |-> t.ok]
    <2>1. t = [table |-> t.table, code |-> t.code, used |-> t.used, at |-> t.at, bits |-> t.bits, ok |-> t.ok]
        BY GoodParts, Zenon
    <2> QED BY <2>1
<1>4. [table |-> table, code |-> t.code, used |-> t.used, at |-> t.at, bits |-> t.bits, ok |-> t.ok] \in Goods(short)
    <2> HIDE DEF table
    <2> QED BY <1>2, <1>6, GoodParts, MakeGood
<1>5. [t EXCEPT !.ok = FALSE] \in Goods(short)
    BY GiveUp
<1> QED BY <1>3, <1>4, <1>5 DEF H!Fill

LEMMA UnfilledGood == \A short \in BOOLEAN : H!Unfilled \in Goods(short)
<1> TAKE short \in BOOLEAN
<1> DEFINE table == [i \in 0..H!TwoTo(8) - 1 |-> H!Empty]
<1>1. H!TwoTo(8) - 1 = 255 + 0
    BY PowersOfTwo
<1>2. table \in [0..255 + 0 -> Entries]
    BY <1>1, EmptyIs
<1>3. \A p \in 0..255 : table[p] = H!Empty
    BY <1>1
<1> HIDE DEF table
<1>4. Closed(table, 0)
    <2>1. ~H!Empty.secondary
        BY EmptyIs
    <2>2. \A p \in 0..255 : ~table[p].secondary
        BY <1>3, <2>1, Zenon
    <2> QED BY <1>2, <2>2 DEF Closed
<1>7. Plain(table)
    <2>1. H!Empty.b <= 6 /\ ~H!Empty.secondary
        BY EmptyIs
    <2>2. \A p \in 0..255 : table[p].b <= 6 /\ ~table[p].secondary
        BY <1>3, <2>1, Zenon
    <2> QED BY <2>2 DEF Plain
<1>5. 0 \in Nat /\ 0 \in 0..Most /\ TRUE \in BOOLEAN
    BY DEF Most
<1>6. [table |-> table, code |-> 0, used |-> 0, at |-> 0, bits |-> 0, ok |-> TRUE] \in Goods(short)
    BY <1>4, <1>5, <1>7, MakeGood
<1> QED BY <1>6 DEF H!Unfilled, table

\* The code of a good table may be set.
LEMMA SetCode ==
    ASSUME NEW short \in BOOLEAN, NEW t \in Goods(short), NEW c \in Nat
    PROVE  [t EXCEPT !.code = c] \in Goods(short)
<1> DEFINE A == UNION {Places(u) : u \in 0..Most}
           B == 0..Most
           r == [t EXCEPT !.code = c]
<1>1. t \in [table : A, code : Nat, used : B, at : Nat, bits : Nat, ok : BOOLEAN] /\ Closed(t.table, t.used)
    BY DEF Goods, Records
<1>0. short => t.used = 0 /\ Plain(t.table)
    BY DEF Goods
<1> HIDE DEF A, B
<1>2. r \in [table : A, code : Nat, used : B, at : Nat, bits : Nat, ok : BOOLEAN]
    BY <1>1
<1>3. r.table = t.table /\ r.used = t.used
    BY <1>1
<1> HIDE DEF r
<1>4. r \in Goods(short)
    BY <1>0, <1>1, <1>2, <1>3 DEF Goods, Records, A, B
<1> QED BY <1>4 DEF r

\* The value of a code of which there are "vs".
LEMMA ValueOf ==
    ASSUME NEW vs \in Seq(Nat), NEW code \in Nat, NEW other \in Nat, NEW j \in 0..15,
           H!Between(code, other, j) + 1 <= Len(vs)
    PROVE  vs[H!Between(code, other, j) + 1] \in Nat
<1>1. H!Between(code, other, j) \in Nat
    <2>1. code \in Int /\ other \in Int
        OBVIOUS
    <2> QED BY <2>1, BetweenBound
<1>2. H!Between(code, other, j) + 1 \in 1..Len(vs)
    BY <1>1
<1> QED BY <1>2

LEMMA EntryIs ==
    ASSUME NEW v \in Nat, NEW b \in 0..7
    PROVE  H!Entry(v, b, FALSE) \in Entries /\ ~H!Entry(v, b, FALSE).secondary /\ H!Entry(v, b, FALSE).b = b
BY DEF H!Entry, Entries

LEMMA FillPrimaryGood ==
    ASSUME NEW short \in BOOLEAN, NEW t \in Goods(short), NEW ls \in Seq(Nat), NEW j \in 1..8,
           short => ls \in Seq(0..7)
    PROVE  H!FillPrimary(t, ls, j) \in Goods(short)
<1> DEFINE vs == H!Values(ls, j)
           At(p) == H!Between(t.code, p % H!TwoTo(j), j) + 1
           entries == [p \in {q \in DOMAIN t.table : At(q) <= Len(vs)} |-> H!Entry(vs[At(p)], j - 1, FALSE)]
           filled == H!Fill(t, entries)
           code == H!After(filled.code, j, Len(vs))
<1>1. j \in Nat /\ j \in 0..15 /\ j - 1 \in 0..7
    OBVIOUS
<1>2. vs \in Seq(Nat)
    BY <1>1, ValuesType
<1>3. t.code \in Nat /\ \A p \in DOMAIN t.table : p \in Int
    <2>1. t.code \in Nat /\ DOMAIN t.table = 0..255 + t.used
        BY GoodParts, Zenon
    <2>2. \A p \in 0..255 + t.used : p \in Int
        OBVIOUS
    <2> QED BY <2>1, <2>2, Zenon
<1> HIDE DEF vs
<1>12. short /\ j = 8 => Len(vs) = 0
    <2>1. \A x : x \in 8..15 => x \in Nat
        OBVIOUS
    <2>2. 8 \in 8..15 /\ Len(<<>>) = 0
        OBVIOUS
    <2> QED BY <2>2, ValuesNone DEF vs
<1>4. \A p \in DOMAIN entries : entries[p] \in Entries /\ ~entries[p].secondary /\ (short => entries[p].b <= 6)
    <2> TAKE p \in DOMAIN entries
    <2>1. p \in Int /\ At(p) <= Len(vs) /\ entries[p] = H!Entry(vs[At(p)], j - 1, FALSE)
        BY <1>3
    <2>2. p % H!TwoTo(j) \in Nat
        BY <1>1, <2>1, RemainderBound
    <2>3. vs[At(p)] \in Nat
        BY <1>1, <1>2, <1>3, <2>1, <2>2, ValueOf
    <2>4. At(p) \in Nat \ {0}
        <3>1. p % H!TwoTo(j) \in Int /\ t.code \in Int
            BY <1>3, <2>2
        <3>2. H!Between(t.code, p % H!TwoTo(j), j) \in Nat
            BY <1>1, <3>1, BetweenBound
        <3> QED BY <3>2
    <2>5. short => j - 1 <= 6
        <3>1. Len(vs) # 0
            <4> DEFINE a == At(p)
            <4>1. a \in Nat \ {0} /\ a <= Len(vs)
                BY <2>1, <2>4
            <4> HIDE DEF a
            <4> QED BY <4>1
        <3>2. ~(short /\ j = 8)
            BY <1>12, <3>1
        <3> QED BY <3>2
    <2> DEFINE x == vs[At(p)]
               y == H!Entry(x, j - 1, FALSE)
    <2>6. x \in Nat /\ entries[p] = y
        BY <2>1, <2>3, Zenon
    <2> HIDE DEF At, entries, x
    <2>7. y \in Entries /\ ~y.secondary /\ y.b = j - 1
        BY <1>1, <2>6, EntryIs
    <2> HIDE DEF y
    <2> QED BY <2>5, <2>6, <2>7, Zenon
<1>5. filled \in Goods(short)
    <2> HIDE DEF entries
    <2> QED BY <1>4, FillGood
<1>6. filled.code \in Nat
    <2> HIDE DEF filled
    <2> QED BY <1>5, GoodParts
<1>7. code \in Nat
    <2> HIDE DEF filled
    <2>1. filled.code \in Int /\ Len(vs) \in Int
        BY <1>2, <1>6
    <2> QED BY <1>1, <2>1, AfterBound
<1>8. [filled EXCEPT !.code = code] \in Goods(short)
    <2> HIDE DEF filled, code
    <2> QED BY <1>5, <1>7, SetCode
<1>9. [t EXCEPT !.ok = FALSE] \in Goods(short)
    BY GiveUp
<1>10. [filled EXCEPT !.code = H!After(@, j, Len(vs))] = [filled EXCEPT !.code = code]
    OBVIOUS
<1>11. H!FillPrimary(t, ls, j) \in {[t EXCEPT !.ok = FALSE], [filled EXCEPT !.code = H!After(@, j, Len(vs))]}
    BY DEF H!FillPrimary, vs
<1> HIDE DEF filled, code
<1> QED BY <1>8, <1>9, <1>10, <1>11

\* A secondary table is part of the table.
LEMMA SecondaryGood ==
    ASSUME NEW t \in Goods(FALSE), NEW p \in 0..255, NEW j \in 9..15
    PROVE  LET s == H!Secondary(t, p, j) IN
           s \in Goods(FALSE) /\ (s.ok => s.at + H!TwoTo(s.bits) <= s.used)
<1> DEFINE e == t.table[p]
           bits == j - 8
           s == H!Secondary(t, p, j)
<1>1. Closed(t.table, t.used) /\ t.code \in Nat /\ t.used \in 0..Most /\ t.ok \in BOOLEAN
    BY GoodParts, Zenon
<1>2. bits \in 1..7 /\ bits \in Nat /\ bits \in 0..7
    OBVIOUS
<1>3. t.used \in Nat /\ p \in 0..255 + t.used
    <2> DEFINE u == t.used
    <2>1. u \in 0..639
        BY <1>1, Zenon DEF Most
    <2> HIDE DEF u, bits, e, s
    <2>2. u \in Nat /\ p \in 0..255 + u
        BY <2>1
    <2> QED BY <2>2, Zenon DEF u
<1>4. e \in Entries
    BY <1>1, <1>3 DEF Closed
<1>5. CASE e = H!Empty /\ t.used <= 511
    <2> DEFINE used == t.used + H!TwoTo(bits)
               table == [i \in 0..H!TwoTo(8) + t.used + H!TwoTo(bits) - 1 |->
                          CASE i = p -> H!Entry(t.used, bits, TRUE)
                            [] i # p /\ i \in DOMAIN t.table -> t.table[i]
                            [] OTHER -> H!Empty]
    <2>1. H!TwoTo(bits) \in 0..128 /\ H!TwoTo(8) = 256
        <3>1. bits = 1 \/ bits = 2 \/ bits = 3 \/ bits = 4 \/ bits = 5 \/ bits = 6 \/ bits = 7
            OBVIOUS
        <3> HIDE DEF bits
        <3> QED BY <3>1, PowersOfTwo
    <2>2. used \in 0..Most /\ used \in Nat /\ t.used <= used
        <3>1. t.used \in 0..511
            BY <1>3, <1>5
        <3> HIDE DEF bits
        <3>2. \A x \in 0..511, y \in 0..128 : x + y \in 0..639 /\ x + y \in Nat /\ x <= x + y
            OBVIOUS
        <3>3. H!TwoTo(bits) \in 0..128
            BY <2>1, Zenon
        <3> QED BY <3>1, <3>2, <3>3, Zenon DEF Most
    <2>3. H!Entry(t.used, bits, TRUE) = [v |-> t.used, b |-> bits, secondary |-> TRUE]
        BY DEF H!Entry
    <2>4. H!Entry(t.used, bits, TRUE) \in Entries
        <3> DEFINE u == t.used
        <3>1. u \in Nat
            BY <1>3
        <3> HIDE DEF u, bits
        <3>2. [v |-> u, b |-> bits, secondary |-> TRUE] \in Entries
            BY <1>2, <3>1 DEF Entries
        <3> QED BY <2>3, <3>2 DEF u
    <2>5. DOMAIN t.table = 0..255 + t.used /\ \A i \in 0..255 + t.used : t.table[i] \in Entries
        BY <1>1 DEF Closed
    <2>6. table \in [0..255 + used -> Entries]
        <3>1. H!TwoTo(8) + t.used + H!TwoTo(bits) - 1 = 255 + used
            BY <1>3, <2>1
        <3>2. \A i \in 0..255 + used : (CASE i = p -> H!Entry(t.used, bits, TRUE)
                            [] i # p /\ i \in DOMAIN t.table -> t.table[i]
                            [] OTHER -> H!Empty) \in Entries
            BY <2>4, <2>5, EmptyIs
        <3> QED BY <3>1, <3>2
    <2>7. \A i \in 0..255 : table[i] = IF i = p THEN H!Entry(t.used, bits, TRUE) ELSE t.table[i]
        <3> TAKE i \in 0..255
        <3>1. i \in 0..255 + t.used /\ i \in 0..H!TwoTo(8) + t.used + H!TwoTo(bits) - 1
            BY <1>3, <2>1
        <3> QED BY <2>5, <3>1
    <2>8. \A i \in 0..255 : t.table[i].secondary => t.table[i].v + H!TwoTo(t.table[i].b) <= t.used
        BY <1>1 DEF Closed
    <2>9. \A i \in 0..255 : table[i].secondary => table[i].v + H!TwoTo(table[i].b) <= used
        <3> TAKE i \in 0..255
        <3>1. CASE i = p
            <4>1. table[i].v = t.used /\ table[i].b = bits
                <5>1. table[i] = H!Entry(t.used, bits, TRUE)
                    BY <2>7, <3>1, Zenon
                <5> HIDE DEF table, bits
                <5>2. table[i] = [v |-> t.used, b |-> bits, secondary |-> TRUE]
                    BY <2>3, <5>1, Zenon
                <5> QED BY <5>2
            <4> HIDE DEF table, bits
            <4> QED BY <1>3, <2>1, <4>1
        <3>2. CASE i # p
            <4>1. table[i] = t.table[i] /\ i \in 0..255 + t.used
                <5>1. i \in 0..255 + t.used
                    BY <1>3
                <5> QED BY <2>7, <3>2, <5>1, Zenon
            <4>2. t.table[i] \in Entries
                BY <2>5, <4>1
            <4>3. t.table[i].v \in Nat /\ H!TwoTo(t.table[i].b) \in Nat
                <5>1. t.table[i].v \in Nat /\ t.table[i].b \in 0..7
                    BY <4>2 DEF Entries
                <5>2. t.table[i].b \in 0..15
                    BY <5>1
                <5> QED BY <5>1, <5>2, Power
            <4>4. table[i].secondary => t.table[i].v + H!TwoTo(t.table[i].b) <= t.used
                BY <2>8, <4>1
            <4> HIDE DEF table, used
            <4> QED BY <1>3, <2>2, <4>1, <4>3, <4>4
        <3> QED BY <3>1, <3>2
    <2> HIDE DEF table
    <2>10. Closed(table, used)
        BY <2>6, <2>9 DEF Closed
    <2> HIDE DEF used
    <2> DEFINE r == [table |-> table, code |-> t.code, used |-> used, at |-> t.used, bits |-> bits, ok |-> t.ok]
    <2>11. r \in Goods(FALSE)
        BY <1>1, <1>2, <1>3, <2>2, <2>10, MakeGood
    <2>12. s = r
        BY <1>5 DEF H!Secondary, table, used
    <2>13. r.at + H!TwoTo(r.bits) <= r.used
        <3> HIDE DEF bits
        <3>1. r.at = t.used /\ r.bits = bits /\ r.used = used
            OBVIOUS
        <3> HIDE DEF r
        <3> QED BY <1>3, <2>1, <3>1 DEF used
    <2> HIDE DEF r, s
    <2> QED BY <2>11, <2>12, <2>13 DEF s
<1>6. CASE (e = H!Empty /\ ~(t.used <= 511)) \/ (e # H!Empty /\ (~e.secondary \/ e.b < bits))
    <2>1. t.used > 511 \/ t.used <= 511
        BY <1>3
    <2>2. s = [t EXCEPT !.ok = FALSE]
        BY <1>3, <1>6, <2>1 DEF H!Secondary
    <2>3. s \in Goods(FALSE)
        <3> HIDE DEF s
        <3> QED BY <2>2, GiveUp
    <2>4. ~s.ok
        <3>1. t \in Records
            BY DEF Goods
        <3> HIDE DEF s
        <3> QED BY <2>2, <3>1 DEF Records
    <2> QED BY <2>3, <2>4
<1>7. CASE e # H!Empty /\ e.secondary /\ ~(e.b < bits)
    <2> DEFINE r == [table |-> t.table, code |-> t.code, used |-> t.used, at |-> e.v, bits |-> e.b, ok |-> t.ok]
    <2>1. s = r
        BY <1>7 DEF H!Secondary
    <2>2. e.v \in Nat /\ e.b \in Nat
        BY <1>4 DEF Entries
    <2>3. r \in Goods(FALSE)
        <3> HIDE DEF e
        <3> QED BY <1>1, <2>2, MakeGood
    <2>4. e.v + H!TwoTo(e.b) <= t.used
        BY <1>1, <1>7 DEF Closed
    <2>5. r.at = e.v /\ r.bits = e.b /\ r.used = t.used
        OBVIOUS
    <2> HIDE DEF r, s
    <2> QED BY <2>1, <2>3, <2>4, <2>5 DEF s
<1> QED BY <1>5, <1>6, <1>7

\* A secondary table is filled within its bounds.
LEMMA FillSecondaryGood ==
    ASSUME NEW t \in Goods(FALSE), NEW ls \in Seq(Nat), NEW j \in 9..15, NEW first \in Nat, NEW i \in Nat
    PROVE  H!FillSecondary(t, ls, j, first, i) \in Goods(FALSE)
<1> DEFINE vs == H!Values(ls, j)
           p == H!After(first, j, i - 1) % H!TwoTo(8)
           s == H!Secondary(t, p, j)
           base == H!TwoTo(8) + s.at
           Other(q) == p + H!TwoTo(8) * ((q - base) % H!TwoTo(j - 8))
           At(q) == H!Between(first, Other(q), j) + 1
           entries == [q \in {q \in base..base + H!TwoTo(s.bits) - 1 : At(q) <= Len(vs)} |-> H!Entry(vs[At(q)], j - 8, FALSE)]
<1>1. j \in Nat /\ j \in 0..15 /\ j - 8 \in 0..7 /\ j - 8 \in 0..15 /\ first \in Int /\ i - 1 \in Int
    OBVIOUS
<1>2. vs \in Seq(Nat)
    BY <1>1, ValuesType
<1>3. H!TwoTo(8) = 256
    BY PowersOfTwo
<1>4. p \in 0..255
    <2>1. H!After(first, j, i - 1) \in Nat
        BY <1>1, AfterBound
    <2> DEFINE a == H!After(first, j, i - 1)
    <2> HIDE DEF a
    <2>2. a % 256 \in 0..255
        <3>1. a \in Nat
            BY <2>1 DEF a
        <3> QED BY <3>1
    <2> QED BY <1>3, <2>2 DEF a
<1> HIDE DEF vs, p
<1>5. s \in Goods(FALSE)
    BY <1>4, SecondaryGood
<1> HIDE DEF s
<1>6. base \in Nat
    <2>1. s.at \in Nat
        BY <1>5, GoodParts
    <2> QED BY <1>3, <2>1
<1> HIDE DEF base
<1>7. \A q \in DOMAIN entries : entries[q] \in Entries /\ ~entries[q].secondary /\ (FALSE => entries[q].b <= 6)
    <2> TAKE q \in DOMAIN entries
    <2>1. q \in base..base + H!TwoTo(s.bits) - 1 /\ At(q) <= Len(vs) /\ entries[q] = H!Entry(vs[At(q)], j - 8, FALSE)
        OBVIOUS
    <2>2. q - base \in Int
        BY <1>6, <2>1
    <2> DEFINE d == q - base
    <2> HIDE DEF d
    <2>3. d % H!TwoTo(j - 8) \in Nat
        BY <1>1, <2>2, RemainderBound DEF d
    <2>4. Other(q) \in Nat
        <3> DEFINE m == d % H!TwoTo(j - 8)
        <3> HIDE DEF m
        <3>1. p + 256 * m \in Nat
            <4>1. m \in Nat
                BY <2>3 DEF m
            <4> QED BY <1>4, <4>1
        <3> QED BY <1>3, <3>1 DEF m, d
    <2> HIDE DEF Other
    <2>5. vs[At(q)] \in Nat
        BY <1>1, <1>2, <2>1, <2>4, ValueOf
    <2> HIDE DEF At, entries
    <2> QED BY <1>1, <2>1, <2>5, EntryIs
<1>8. H!Fill(s, entries) \in Goods(FALSE)
    <2> HIDE DEF entries
    <2> QED BY <1>5, <1>7, FillGood
<1>9. H!FillSecondary(t, ls, j, first, i) \in {s, H!Fill(s, entries)}
    BY DEF H!FillSecondary, vs, p, s, base
<1> HIDE DEF entries
<1> QED BY <1>5, <1>8, <1>9

LEMMA FillLongGood ==
    ASSUME NEW short \in BOOLEAN, NEW t \in Goods(short), NEW ls \in Seq(Nat), NEW j \in 9..15, NEW first \in Nat,
           short => ls \in Seq(0..7)
    PROVE  H!FillLong(t, ls, j, first) \in Goods(short)
<1> DEFINE Begins(i) == i = 1 \/ H!After(first, j, i - 1) % H!TwoTo(8) # H!After(first, j, i - 2) % H!TwoTo(8)
           n == Len(H!Values(ls, j))
           Body(x, k) == IF Begins(k) THEN H!FillSecondary(x, ls, j, first, k) ELSE x
<1> DEFINE Def(f) == f = [k \in 0..n |-> IF k = 0 THEN t ELSE Body(f[k - 1], k)]
           loop == CHOOSE f : Def(f)
           step == [p \in (1..n) \X Goods(short) |-> Body(p[2], p[1])]
<1>0. n \in Nat /\ t \in Goods(short)
    <2>1. j \in Nat
        OBVIOUS
    <2>2. H!Values(ls, j) \in Seq(Nat)
        BY <2>1, ValuesType
    <2> QED BY <2>2
<1>1. \A k \in 1..n, x \in Goods(short) : Body(x, k) \in Goods(short)
    <2> TAKE k \in 1..n, x \in Goods(short)
    <2>1. k \in Nat
        OBVIOUS
    <2>2. CASE short
        <3>1. j \in 8..15
            OBVIOUS
        <3>2. n = 0
            BY <2>2, <3>1, ValuesNone
        <3> QED BY <3>2
    <2>3. CASE ~short
        <3>1. short = FALSE
            BY <2>3
        <3>2. H!FillSecondary(x, ls, j, first, k) \in Goods(short)
            BY <2>1, <3>1, FillSecondaryGood
        <3> HIDE DEF Begins
        <3> QED BY <3>2
    <2> QED BY <2>2, <2>3
<1> HIDE DEF n, Begins, Body
<1>2. step \in [(1..n) \X Goods(short) -> Goods(short)]
    BY <1>1
<1>3. \A k \in 1..n, x \in Goods(short) : step[<<k, x>>] = Body(x, k)
    OBVIOUS
<1> HIDE DEF step
<1>4. PICK f \in [0..n -> Goods(short)] : f[0] = t /\ \A k \in 1..n : f[k] = step[<<k, f[k - 1]>>]
    <2>1. Runs(n, Goods(short), t, step)
        BY <1>0, <1>2, Loop
    <2> QED BY <2>1 DEF Runs
<1>5. Def(f)
    <2>1. \A k \in 1..n : f[k - 1] \in Goods(short)
        BY <1>0
    <2>2. \A k \in 1..n : f[k] = Body(f[k - 1], k)
        BY <1>3, <1>4, <2>1
    <2> DEFINE g == [k \in 0..n |-> IF k = 0 THEN t ELSE Body(f[k - 1], k)]
    <2>3. f[0] = g[0] /\ \A k \in 1..n : f[k] = g[k]
        BY <1>0, <1>4, <2>2
    <2>4. f = [k \in 0..n |-> f[k]] /\ g = [k \in 0..n |-> g[k]]
        OBVIOUS
    <2>5. f = g
        <3> HIDE DEF g
        <3>1. \A k \in 0..n : k = 0 \/ k \in 1..n
            BY <1>0
        <3>2. \A k \in 0..n : f[k] = g[k]
            BY <2>3, <3>1, Zenon
        <3>3. [k \in 0..n |-> f[k]] = [k \in 0..n |-> g[k]]
            BY <3>2, Zenon
        <3> QED BY <2>4, <3>3, Zenon
    <2> QED BY <2>5
<1>6. Def(loop)
    <2> HIDE DEF Def
    <2> QED BY <1>5
<1>7. H!FillLong(t, ls, j, first) = IF ~t.ok THEN t ELSE loop[n]
    BY DEF H!FillLong, Body, n, Begins
<1> HIDE DEF loop
<1>8. loop[0] = t /\ \A k \in 1..n : loop[k] = Body(loop[k - 1], k)
    <2>1. loop = [k \in 0..n |-> IF k = 0 THEN t ELSE Body(loop[k - 1], k)]
        BY <1>6
    <2> HIDE DEF Def
    <2>2. \A k \in 0..n : loop[k] = IF k = 0 THEN t ELSE Body(loop[k - 1], k)
        BY <2>1, Zenon
    <2>3. 0 \in 0..n /\ \A k \in 1..n : k \in 0..n /\ k # 0
        BY <1>0
    <2> QED BY <2>2, <2>3, Zenon
<1> HIDE DEF Def
<1>9. loop[0] \in Goods(short) /\ \A k \in 1..n : loop[k - 1] \in Goods(short) => loop[k] \in Goods(short)
    BY <1>0, <1>1, <1>8
<1>10. \A k \in 0..n : loop[k] \in Goods(short)
    BY <1>0, <1>9, LoopStays
<1> QED BY <1>0, <1>7, <1>10

LEMMA ShortGood ==
    ASSUME NEW short \in BOOLEAN, NEW ls \in Seq(Nat), short => ls \in Seq(0..7)
    PROVE  H!Short(ls) \in Goods(short)
<1> DEFINE n == 8
           Body(x, k) == H!FillPrimary(x, ls, k)
<1> DEFINE Def(f) == f = [k \in 0..n |-> IF k = 0 THEN H!Unfilled ELSE Body(f[k - 1], k)]
           loop == CHOOSE f : Def(f)
           step == [p \in (1..n) \X Goods(short) |-> Body(p[2], p[1])]
<1>0. n \in Nat /\ H!Unfilled \in Goods(short)
    BY UnfilledGood
<1>1. \A k \in 1..n, x \in Goods(short) : Body(x, k) \in Goods(short)
    <2> TAKE k \in 1..n, x \in Goods(short)
    <2>1. k \in 1..8
        OBVIOUS
    <2> QED BY <2>1, FillPrimaryGood
<1> HIDE DEF n, Body
<1>2. step \in [(1..n) \X Goods(short) -> Goods(short)]
    BY <1>1
<1>3. \A k \in 1..n, x \in Goods(short) : step[<<k, x>>] = Body(x, k)
    OBVIOUS
<1> HIDE DEF step
<1>4. PICK f \in [0..n -> Goods(short)] : f[0] = H!Unfilled /\ \A k \in 1..n : f[k] = step[<<k, f[k - 1]>>]
    <2>1. Runs(n, Goods(short), H!Unfilled, step)
        BY <1>0, <1>2, Loop
    <2> QED BY <2>1 DEF Runs
<1>5. Def(f)
    <2>1. \A k \in 1..n : f[k - 1] \in Goods(short)
        BY <1>0
    <2>2. \A k \in 1..n : f[k] = Body(f[k - 1], k)
        BY <1>3, <1>4, <2>1
    <2> DEFINE g == [k \in 0..n |-> IF k = 0 THEN H!Unfilled ELSE Body(f[k - 1], k)]
    <2>3. f[0] = g[0] /\ \A k \in 1..n : f[k] = g[k]
        BY <1>0, <1>4, <2>2
    <2>4. f = [k \in 0..n |-> f[k]] /\ g = [k \in 0..n |-> g[k]]
        OBVIOUS
    <2>5. f = g
        <3> HIDE DEF g
        <3>1. \A k \in 0..n : k = 0 \/ k \in 1..n
            BY <1>0
        <3>2. \A k \in 0..n : f[k] = g[k]
            BY <2>3, <3>1, Zenon
        <3>3. [k \in 0..n |-> f[k]] = [k \in 0..n |-> g[k]]
            BY <3>2, Zenon
        <3> QED BY <2>4, <3>3, Zenon
    <2> QED BY <2>5
<1>6. Def(loop)
    <2> HIDE DEF Def
    <2> QED BY <1>5
<1>7. H!Short(ls) = loop[n]
    BY DEF H!Short, Body, n
<1> HIDE DEF loop
<1>8. loop[0] = H!Unfilled /\ \A k \in 1..n : loop[k] = Body(loop[k - 1], k)
    <2>1. loop = [k \in 0..n |-> IF k = 0 THEN H!Unfilled ELSE Body(loop[k - 1], k)]
        BY <1>6
    <2> HIDE DEF Def
    <2>2. \A k \in 0..n : loop[k] = IF k = 0 THEN H!Unfilled ELSE Body(loop[k - 1], k)
        BY <2>1, Zenon
    <2>3. 0 \in 0..n /\ \A k \in 1..n : k \in 0..n /\ k # 0
        BY <1>0
    <2> QED BY <2>2, <2>3, Zenon
<1> HIDE DEF Def
<1>9. loop[0] \in Goods(short) /\ \A k \in 1..n : loop[k - 1] \in Goods(short) => loop[k] \in Goods(short)
    BY <1>0, <1>1, <1>8
<1>10. \A k \in 0..n : loop[k] \in Goods(short)
    BY <1>0, <1>9, LoopStays
<1> QED BY <1>0, <1>7, <1>10

LEMMA LongGood ==
    ASSUME NEW short \in BOOLEAN, NEW t \in Goods(short), NEW ls \in Seq(Nat),
           short => ls \in Seq(0..7)
    PROVE  H!Long(t, ls) \in Goods(short)
<1> DEFINE n == 15 - 8
           Body(x, k) == H!FillLong(x, ls, 15 + 1 - k, H!FirstCode(ls, t.code, 15 + 1 - k))
<1> DEFINE Def(f) == f = [k \in 0..n |-> IF k = 0 THEN t ELSE Body(f[k - 1], k)]
           loop == CHOOSE f : Def(f)
           step == [p \in (1..n) \X Goods(short) |-> Body(p[2], p[1])]
<1>0. n \in Nat /\ t \in Goods(short)
    OBVIOUS
<1>1. \A k \in 1..n, x \in Goods(short) : Body(x, k) \in Goods(short)
    <2> TAKE k \in 1..n, x \in Goods(short)
    <2>1. 15 + 1 - k \in 9..15
        OBVIOUS
    <2>2. t.code \in Nat
        BY GoodParts
    <2>3. H!FirstCode(ls, t.code, 15 + 1 - k) \in Nat
        BY <2>1, <2>2, FirstCodeType
    <2> QED BY <2>1, <2>3, FillLongGood
<1> HIDE DEF n, Body
<1>2. step \in [(1..n) \X Goods(short) -> Goods(short)]
    BY <1>1
<1>3. \A k \in 1..n, x \in Goods(short) : step[<<k, x>>] = Body(x, k)
    OBVIOUS
<1> HIDE DEF step
<1>4. PICK f \in [0..n -> Goods(short)] : f[0] = t /\ \A k \in 1..n : f[k] = step[<<k, f[k - 1]>>]
    <2>1. Runs(n, Goods(short), t, step)
        BY <1>0, <1>2, Loop
    <2> QED BY <2>1 DEF Runs
<1>5. Def(f)
    <2>1. \A k \in 1..n : f[k - 1] \in Goods(short)
        BY <1>0
    <2>2. \A k \in 1..n : f[k] = Body(f[k - 1], k)
        BY <1>3, <1>4, <2>1
    <2> DEFINE g == [k \in 0..n |-> IF k = 0 THEN t ELSE Body(f[k - 1], k)]
    <2>3. f[0] = g[0] /\ \A k \in 1..n : f[k] = g[k]
        BY <1>0, <1>4, <2>2
    <2>4. f = [k \in 0..n |-> f[k]] /\ g = [k \in 0..n |-> g[k]]
        OBVIOUS
    <2>5. f = g
        <3> HIDE DEF g
        <3>1. \A k \in 0..n : k = 0 \/ k \in 1..n
            BY <1>0
        <3>2. \A k \in 0..n : f[k] = g[k]
            BY <2>3, <3>1, Zenon
        <3>3. [k \in 0..n |-> f[k]] = [k \in 0..n |-> g[k]]
            BY <3>2, Zenon
        <3> QED BY <2>4, <3>3, Zenon
    <2> QED BY <2>5
<1>6. Def(loop)
    <2> HIDE DEF Def
    <2> QED BY <1>5
<1>7. H!Long(t, ls) = loop[n]
    BY DEF H!Long, Body, n
<1> HIDE DEF loop
<1>8. loop[0] = t /\ \A k \in 1..n : loop[k] = Body(loop[k - 1], k)
    <2>1. loop = [k \in 0..n |-> IF k = 0 THEN t ELSE Body(loop[k - 1], k)]
        BY <1>6
    <2> HIDE DEF Def
    <2>2. \A k \in 0..n : loop[k] = IF k = 0 THEN t ELSE Body(loop[k - 1], k)
        BY <2>1, Zenon
    <2>3. 0 \in 0..n /\ \A k \in 1..n : k \in 0..n /\ k # 0
        BY <1>0
    <2> QED BY <2>2, <2>3, Zenon
<1> HIDE DEF Def
<1>9. loop[0] \in Goods(short) /\ \A k \in 1..n : loop[k - 1] \in Goods(short) => loop[k] \in Goods(short)
    BY <1>0, <1>1, <1>8
<1>10. \A k \in 0..n : loop[k] \in Goods(short)
    BY <1>0, <1>9, LoopStays
<1> QED BY <1>0, <1>7, <1>10

\* What elf_zlib_inflate_table builds is a table of at most 895 places.
IsTable(table) == \E used \in 0..Most : Closed(table, used)

\* Whatever the lengths, a table that is built fits into the 1024 places elf.c
\* has for it, and its secondary tables are within it; a code for lengths of
\* codes, whose own are at most seven, has no secondary tables.
THEOREM BuildGood ==
    ASSUME NEW short \in BOOLEAN, NEW ls \in Seq(Nat), short => ls \in Seq(0..7),
           H!Build(ls) # H!Failed
    PROVE  IsTable(H!Build(ls)) /\ (short => Plain(H!Build(ls)))
<1> DEFINE t == H!Long(H!Short(ls), ls)
<1>1. t \in Goods(short)
    BY ShortGood, LongGood
<1>2. H!Build(ls) = t.table
    BY DEF H!Build
<1> HIDE DEF t
<1> QED BY <1>1, <1>2, GoodParts DEF IsTable

-----------------------------------------------------------------------------
(* Decoding.                                                               *)

\* The next bits as a number, with zeros after the last.
LEMMA NextBits ==
    ASSUME NEW bits \in Seq(Bits), NEW from \in Nat, NEW n \in 0..15
    PROVE  LET x == H!Number[[i \in 1..n |-> IF from + i <= Len(bits) THEN bits[from + i] ELSE 0]]
           IN x \in Nat /\ x < H!TwoTo(n)
<1> DEFINE b == [i \in 1..n |-> IF from + i <= Len(bits) THEN bits[from + i] ELSE 0]
<1>1. \A i \in 1..n : (IF from + i <= Len(bits) THEN bits[from + i] ELSE 0) \in Bits
    <2> TAKE i \in 1..n
    <2>1. 0 \in Bits
        BY DEF Bits
    <2>2. ASSUME from + i <= Len(bits) PROVE bits[from + i] \in Bits
        <3>1. from + i \in 1..Len(bits)
            BY <2>2
        <3> QED BY <3>1
    <2> QED BY <2>1, <2>2
<1>2. b \in Seq(Bits) /\ Len(b) = n
    BY <1>1
<1> HIDE DEF b
<1>3. H!Number[b] \in Nat /\ H!Number[b] < H!TwoTo(n)
    BY <1>2, NumberBound
<1> QED BY <1>3 DEF b

\* Whatever bits come, a table is read within its bounds, and its values take
\* at most 15 bits.
LEMMA DecodeGood ==
    ASSUME NEW table, IsTable(table), NEW bits \in Seq(Bits)
    PROVE  LET At(from, n) == H!Number[[i \in 1..n |-> IF from + i <= Len(bits) THEN bits[from + i] ELSE 0]]
               e == table[At(0, 8)]
               d == H!Decode(table, bits)
           IN /\ At(0, 8) \in DOMAIN table
              /\ e.secondary => 256 + e.v + At(8, e.b) \in DOMAIN table
              /\ d.v \in Nat /\ d.n \in 0..15
              /\ Plain(table) => d.n <= 7
<1> DEFINE At(from, n) == H!Number[[i \in 1..n |-> IF from + i <= Len(bits) THEN bits[from + i] ELSE 0]]
           e == table[At(0, 8)]
           s == table[H!TwoTo(8) + e.v + At(8, e.b)]
           d == H!Decode(table, bits)
<1>1. PICK used \in 0..Most : Closed(table, used)
    BY DEF IsTable
<1>2. used \in Nat
    BY <1>1 DEF Most
<1>3. H!TwoTo(8) = 256
    BY PowersOfTwo
<1>4. At(0, 8) \in 0..255
    <2>1. 0 \in Nat /\ 8 \in 0..15
        OBVIOUS
    <2>2. At(0, 8) \in Nat /\ At(0, 8) < H!TwoTo(8)
        BY <2>1, NextBits
    <2> DEFINE a == At(0, 8)
    <2>3. a \in Nat /\ a < 256
        BY <1>3, <2>2, Zenon
    <2> HIDE DEF a
    <2>4. a \in 0..255
        BY <2>3
    <2> QED BY <2>4 DEF a
<1> HIDE DEF At
<1>5. DOMAIN table = 0..255 + used /\ (\A i \in 0..255 + used : table[i] \in Entries)
    BY <1>1 DEF Closed
<1>6. At(0, 8) \in 0..255 + used
    <2>1. \A a \in 0..255 : a \in 0..255 + used
        BY <1>2
    <2> QED BY <1>4, <2>1, Zenon
<1>7. e \in Entries
    BY <1>5, <1>6
<1>8. e.v \in Nat /\ e.b \in 0..7 /\ e.secondary \in BOOLEAN
    <2> HIDE DEF e
    <2> QED BY <1>7 DEF Entries
<1>9. d = IF e.secondary THEN [v |-> s.v, n |-> 8 + s.b] ELSE [v |-> e.v, n |-> e.b + 1]
    BY DEF H!Decode, At
<1>10. e.secondary => e.v + H!TwoTo(e.b) <= used
    BY <1>1, <1>4 DEF Closed
<1> HIDE DEF e
<1>11. At(8, e.b) \in Nat /\ At(8, e.b) < H!TwoTo(e.b)
    <2>1. 8 \in Nat /\ e.b \in 0..15
        BY <1>8
    <2> QED BY <2>1, NextBits DEF At
<1>12. H!TwoTo(e.b) \in Nat
    <2>1. e.b \in 0..15
        BY <1>8
    <2> QED BY <2>1, Power
<1>13. CASE e.secondary
    <2>1. 256 + e.v + At(8, e.b) \in 0..255 + used
        BY <1>2, <1>8, <1>10, <1>11, <1>12, <1>13
    <2>2. s \in Entries
        BY <1>3, <1>5, <2>1
    <2> HIDE DEF s, d
    <2>3. s.v \in Nat /\ s.b \in 0..7
        BY <2>2 DEF Entries
    <2>4. d.v = s.v /\ d.n = 8 + s.b
        BY <1>9, <1>13
    <2>5. d.v \in Nat /\ d.n \in 0..15
        <3>1. \A x \in 0..7 : 8 + x \in 0..15
            OBVIOUS
        <3> QED BY <2>3, <2>4, <3>1, Zenon
    <2>6. ~Plain(table)
        BY <1>4, <1>13 DEF Plain, e
    <2> QED BY <1>5, <1>6, <1>13, <2>1, <2>5, <2>6 DEF e, d, At
<1>14. CASE ~e.secondary
    <2> HIDE DEF s, d
    <2>1. d.v = e.v /\ d.n = e.b + 1
        BY <1>9, <1>14
    <2>2. d.v \in Nat /\ d.n \in 0..15
        <3>1. \A x \in 0..7 : x + 1 \in 0..15
            OBVIOUS
        <3> QED BY <1>8, <2>1, <3>1, Zenon
    <2>3. Plain(table) => e.b <= 6
        BY <1>4 DEF Plain, e
    <2>4. Plain(table) => d.n <= 7
        BY <1>8, <2>1, <2>3
    <2> QED BY <1>5, <1>6, <1>14, <2>1, <2>2, <2>4 DEF e, d, At
<1> QED BY <1>8, <1>13, <1>14

-----------------------------------------------------------------------------
(* The stream.                                                             *)

LEMMA DropType ==
    ASSUME NEW S, NEW s \in Seq(S), NEW n \in 0..Len(s)
    PROVE  Drop(s, n) \in Seq(S) /\ Len(Drop(s, n)) = Len(s) - n
BY DEF Drop

LEMMA NumType ==
    ASSUME NEW bits \in Seq(Bits), NEW from \in Nat, NEW n \in 0..15, from + n <= Len(bits)
    PROVE  Num(bits, from, n) \in Nat /\ Num(bits, from, n) < H!TwoTo(n)
<1> DEFINE b == SubSeq(bits, from + 1, from + n)
<1>1. b \in Seq(Bits) /\ Len(b) = n
    OBVIOUS
<1> HIDE DEF b
<1>2. H!Number[b] \in Nat /\ H!Number[b] < H!TwoTo(n)
    BY <1>1, NumberBound
<1> QED BY <1>2 DEF Num, b

IsStream == sec.bytes \in Seq(0..255) /\ sec.at \in Nat /\ sec.size \in Nat

LEMMA BytesType ==
    ASSUME IsStream, NEW from \in Nat, NEW n \in Nat
    PROVE  Byte(from) \in 0..255 /\ BytesAt(from, n) \in Seq(Bits) /\ Len(BytesAt(from, n)) = 8 * n
<1>1. \A i \in Nat : Byte(i) \in 0..255
    <2> TAKE i \in Nat
    <2>1. Len(sec.bytes) \in Nat /\ sec.bytes \in Seq(0..255)
        BY DEF IsStream
    <2>2. ASSUME i < Len(sec.bytes) PROVE sec.bytes[i + 1] \in 0..255
        <3>1. i + 1 \in 1..Len(sec.bytes)
            BY <2>1, <2>2
        <3>2. \A S : \A s \in Seq(S) : \A k \in 1..Len(s) : s[k] \in S
            OBVIOUS
        <3> QED BY <2>1, <3>1, <3>2, Zenon
    <2>3. 0 \in 0..255
        OBVIOUS
    <2> QED BY <2>2, <2>3 DEF Byte, Size
<1>2. \A k \in 1..8 * n : (Byte(from + (k - 1) \div 8) \div H!TwoTo((k - 1) % 8)) % 2 \in Bits
    <2> TAKE k \in 1..8 * n
    <2>1. from + (k - 1) \div 8 \in Nat /\ (k - 1) % 8 \in 0..15
        OBVIOUS
    <2>2. Byte(from + (k - 1) \div 8) \in Int
        <3>1. Byte(from + (k - 1) \div 8) \in 0..255
            BY <1>1, <2>1
        <3> QED BY <3>1
    <2>3. H!TwoTo((k - 1) % 8) \in Nat \ {0}
        BY <2>1, Power
    <2> QED BY <2>2, <2>3, BitOf
<1>3. 8 * n \in Nat
    OBVIOUS
<1> QED BY <1>1, <1>2, <1>3 DEF BytesAt

\* Bits that were read and not used are among those before the place that is
\* read next.
Held(f) ==
    /\ f \in [p : Nat, v : Seq(Bits)]
    /\ Len(f.v) <= 8 * f.p
    /\ f.p <= Size + 3

LEMMA SizeType == ASSUME IsStream PROVE Size \in Nat
BY DEF Size, IsStream

LEMMA FetchHeld ==
    ASSUME IsStream, NEW p, NEW v, Held([p |-> p, v |-> v]), CanFetch(p, v)
    PROVE  Held(Fetch(p, v)) /\ Len(Fetch(p, v).v) >= 15
<1>1. p \in Nat /\ v \in Seq(Bits) /\ Len(v) \in Nat
    BY DEF Held
<1>2. Len(v) <= 8 * p /\ p <= Size + 3
    BY DEF Held
<1>3. Size \in Nat
    BY SizeType
<1>4. CASE Len(v) >= 15
    BY <1>4 DEF Fetch
<1>5. CASE ~(Len(v) >= 15)
    <2> DEFINE b == BytesAt(p, 4)
    <2>1. 4 \in Nat
        OBVIOUS
    <2>2. b \in Seq(Bits) /\ Len(b) = 8 * 4
        BY <1>1, <2>1, BytesType
    <2> HIDE DEF b
    <2>3. v \o b \in Seq(Bits) /\ Len(v \o b) = Len(v) + 32
        <3>1. \A x, y \in Seq(Bits) : x \o y \in Seq(Bits) /\ Len(x \o y) = Len(x) + Len(y)
            OBVIOUS
        <3>2. v \o b \in Seq(Bits) /\ Len(v \o b) = Len(v) + Len(b)
            BY <1>1, <2>2, <3>1, Zenon
        <3> QED BY <2>2, <3>2
    <2> DEFINE w == v \o b
    <2> HIDE DEF w
    <2>4. w \in Seq(Bits) /\ Len(w) = Len(v) + 32
        BY <2>3 DEF w
    <2>5. p + 4 <= Size
        BY <1>1, <1>3, <1>5 DEF CanFetch
    <2>6. Held([p |-> p + 4, v |-> w]) /\ Len(w) >= 15
        <3> DEFINE f == [p |-> p + 4, v |-> w]
        <3>1. f.p = p + 4 /\ f.v = w
            OBVIOUS
        <3>2. f \in [p : Nat, v : Seq(Bits)]
            BY <1>1, <2>4
        <3>3. Len(w) <= 8 * (p + 4) /\ p + 4 <= Size + 3 /\ Len(w) >= 15
            BY <1>1, <1>2, <1>3, <2>4, <2>5
        <3> HIDE DEF f
        <3>4. Held(f)
            BY <3>1, <3>2, <3>3 DEF Held
        <3> QED BY <3>3, <3>4 DEF f
    <2>7. Fetch(p, v) = [p |-> p + 4, v |-> w]
        BY <1>5 DEF Fetch, w, b
    <2> QED BY <2>6, <2>7
<1> QED BY <1>4, <1>5

LEMMA SkipHeld ==
    ASSUME NEW f, Held(f), NEW n \in 0..Len(f.v)
    PROVE  /\ Held([f EXCEPT !.v = Drop(@, n)])
           /\ [f EXCEPT !.v = Drop(@, n)].v = Drop(f.v, n)
           /\ Len([f EXCEPT !.v = Drop(@, n)].v) = Len(f.v) - n
<1> DEFINE w == Drop(f.v, n)
           g == [f EXCEPT !.v = Drop(@, n)]
<1>1. f \in [p : Nat, v : Seq(Bits)] /\ Len(f.v) <= 8 * f.p /\ f.p <= Size + 3
    BY DEF Held
<1>2. f.v \in Seq(Bits) /\ f.p \in Nat
    BY <1>1
<1>3. w \in Seq(Bits) /\ Len(w) = Len(f.v) - n
    BY <1>2, DropType
<1>4. g = [f EXCEPT !.v = w]
    OBVIOUS
<1> HIDE DEF w, g
<1>5. g \in [p : Nat, v : Seq(Bits)] /\ g.p = f.p /\ g.v = w
    BY <1>1, <1>3, <1>4
<1>6. Len(f.v) \in Nat
    BY <1>2
<1>7. Len(w) <= 8 * f.p
    BY <1>1, <1>2, <1>3, <1>6
<1>8. Held(g)
    BY <1>1, <1>5, <1>7 DEF Held
<1> QED BY <1>3, <1>5, <1>8 DEF g, w

LEMMA AlignedHeld ==
    ASSUME IsStream, NEW p \in Nat, p <= Size
    PROVE  Held(Aligned(p))
<1> DEFINE n == (4 - ((sec.at + p) % 4)) % 4
           b == BytesAt(p, n)
<1>1. sec.at \in Nat /\ Size \in Nat
    BY SizeType DEF IsStream
<1>2. n \in 0..3 /\ n \in Nat
    BY <1>1
<1> HIDE DEF n
<1>3. b \in Seq(Bits) /\ Len(b) = 8 * n
    BY <1>2, BytesType
<1> HIDE DEF b
<1> DEFINE f == [p |-> p + n, v |-> b]
<1>4. f \in [p : Nat, v : Seq(Bits)] /\ f.p = p + n /\ f.v = b
    BY <1>2, <1>3
<1>5. Aligned(p) = f
    BY DEF Aligned, n, b
<1> HIDE DEF f
<1>6. Len(f.v) <= 8 * f.p /\ f.p <= Size + 3
    BY <1>1, <1>2, <1>3, <1>4
<1> QED BY <1>4, <1>5, <1>6 DEF Held

-----------------------------------------------------------------------------
(* Lengths and distances.                                                  *)

LEMMA Products == \A x, y \in Nat : x * y \in Nat
OBVIOUS

LEMMA LengthType ==
    ASSUME NEW v \in 257..285
    PROVE  /\ LengthBits(v) \in 0..5
           /\ \A bits \in Seq(Bits) : LengthBits(v) <= Len(bits) => LengthOf(v, bits) \in Nat
<1>1. CASE v < 265
    BY <1>1 DEF LengthBits, LengthOf, Extra
<1>2. CASE v = 285
    BY <1>2 DEF LengthBits, LengthOf
<1>3. CASE v \in 265..284
    <2> DEFINE e == Extra(v, 265, 4)
    <2>1. e \in 1..5
        BY <1>3 DEF Extra
    <2>2. LengthBits(v) = e
        BY <1>3 DEF LengthBits
    <2> HIDE DEF e
    <2> SUFFICES ASSUME NEW bits \in Seq(Bits), e <= Len(bits) PROVE LengthOf(v, bits) \in Nat
        BY <2>1, <2>2
    <2>3. Num(bits, 0, e) \in Nat
        <3>1. e \in 0..15 /\ 0 \in Nat /\ 0 + e <= Len(bits)
            BY <2>1
        <3> QED BY <3>1, NumType
    <2>4. H!TwoTo(e) \in Nat /\ H!TwoTo(e - 1) \in Nat \ {0}
        <3>1. e \in 0..15 /\ e - 1 \in 0..15
            BY <2>1
        <3> QED BY <3>1, Power
    <2> DEFINE m == (v - 265) % 4
               x == m * H!TwoTo(e)
               y == H!TwoTo(e - 1)
               z == Num(bits, 0, e)
    <2>5. m \in Nat
        BY <1>3
    <2> HIDE DEF m
    <2>6. x \in Nat
        BY <2>4, <2>5, Products
    <2>7. LengthOf(v, bits) = x + 11 + ((y - 1) * 8) + z
        BY <1>3 DEF LengthOf, e, m
    <2>8. y \in Nat \ {0} /\ z \in Nat
        BY <2>3, <2>4
    <2> HIDE DEF x, y, z
    <2> QED BY <2>6, <2>7, <2>8
<1> QED BY <1>1, <1>2, <1>3

LEMMA DistanceType ==
    ASSUME NEW v \in 0..29
    PROVE  /\ Extra(v, 4, 2) \in 0..13
           /\ \A bits \in Seq(Bits) : Extra(v, 4, 2) <= Len(bits) => DistanceOf(v, bits) \in Nat \ {0}
<1>1. CASE v < 4
    BY <1>1 DEF DistanceOf, Extra
<1>2. CASE v \in 4..29
    <2> DEFINE e == Extra(v, 4, 2)
    <2>1. e \in 1..13
        BY <1>2 DEF Extra
    <2> HIDE DEF e
    <2> SUFFICES ASSUME NEW bits \in Seq(Bits), e <= Len(bits) PROVE DistanceOf(v, bits) \in Nat \ {0}
        BY <2>1 DEF e
    <2>3. Num(bits, 0, e) \in Nat
        <3>1. e \in 0..15 /\ 0 \in Nat /\ 0 + e <= Len(bits)
            BY <2>1
        <3> QED BY <3>1, NumType
    <2>4. H!TwoTo(e) \in Nat /\ H!TwoTo(e - 1) \in Nat \ {0}
        <3>1. e \in 0..15 /\ e - 1 \in 0..15
            BY <2>1
        <3> QED BY <3>1, Power
    <2> DEFINE m == (v - 4) % 2
               x == m * H!TwoTo(e)
               y == H!TwoTo(e - 1)
               z == Num(bits, 0, e)
    <2>5. m \in Nat
        BY <1>2
    <2> HIDE DEF m
    <2>6. x \in Nat
        BY <2>4, <2>5, Products
    <2>7. DistanceOf(v, bits) = x + 5 + ((y - 1) * 4) + z
        BY <1>2 DEF DistanceOf, e, m
    <2>8. y \in Nat \ {0} /\ z \in Nat
        BY <2>3, <2>4
    <2> HIDE DEF x, y, z
    <2> QED BY <2>6, <2>7, <2>8
<1> QED BY <1>1, <1>2

\* What is copied is already there, or was copied just before.
LEMMA CopiedType ==
    ASSUME NEW S, NEW bytes \in Seq(S), NEW dist \in Nat \ {0}, NEW len \in Nat, dist <= Len(bytes)
    PROVE  Copied(bytes, dist, len) \in Seq(S) /\ Len(Copied(bytes, dist, len)) = Len(bytes) + len
<1> DEFINE copy == [i \in 1..len |-> bytes[Len(bytes) - dist + 1 + ((i - 1) % dist)]]
<1>1. \A i \in 1..len : bytes[Len(bytes) - dist + 1 + ((i - 1) % dist)] \in S
    <2> TAKE i \in 1..len
    <2>1. i - 1 \in Int
        OBVIOUS
    <2>2. \A a \in Int : a % dist \in Nat /\ a % dist < dist
        OBVIOUS
    <2> DEFINE r == (i - 1) % dist
    <2>3. r \in Nat /\ r < dist
        BY <2>1, <2>2
    <2> HIDE DEF r
    <2>4. Len(bytes) - dist + 1 + r \in 1..Len(bytes)
        BY <2>3
    <2> QED BY <2>4 DEF r
<1>2. copy \in Seq(S) /\ Len(copy) = len
    BY <1>1
<1> HIDE DEF copy
<1>3. bytes \o copy \in Seq(S) /\ Len(bytes \o copy) = Len(bytes) + len
    BY <1>2
<1> QED BY <1>3 DEF Copied, copy

-----------------------------------------------------------------------------
(* The lengths of the codes for lengths.                                   *)

\* A loop that goes through the sets T.
RunsThrough(n, U, T, start, step) ==
    \E f \in [0..n -> U] :
        /\ f[0] = start
        /\ \A j \in 1..n : f[j] = step[<<j, f[j - 1]>>]
        /\ \A j \in 0..n : f[j] \in T[j]

LEMMA LoopThrough ==
    ASSUME NEW n \in Nat, NEW U, NEW T, \A j \in 0..n : T[j] \subseteq U,
           NEW start \in T[0], NEW step, \A j \in 1..n : \A x \in T[j - 1] : step[<<j, x>>] \in T[j]
    PROVE  RunsThrough(n, U, T, start, step)
<1> DEFINE Is(f, m) == /\ f[0] = start
                       /\ \A j \in 1..m : f[j] = step[<<j, f[j - 1]>>]
                       /\ \A j \in 0..m : f[j] \in T[j]
           S == {m \in 0..n : \E f \in [0..m -> U] : Is(f, m)}
<1>1. 0 \in S
    <2> DEFINE g == [j \in 0..0 |-> start]
    <2>1. start \in U /\ 0 \in 0..n
        OBVIOUS
    <2>2. g \in [0..0 -> U] /\ g[0] = start /\ (\A j \in 0..0 : j = 0) /\ \A j \in 1..0 : FALSE
        BY <2>1
    <2> HIDE DEF g
    <2>3. Is(g, 0)
        BY <2>2
    <2> HIDE DEF Is
    <2> QED BY <2>1, <2>2, <2>3
<1>2. ASSUME NEW m \in 1..n, m - 1 \in S PROVE m \in S
    <2>1. PICK f \in [0..m - 1 -> U] : Is(f, m - 1)
        BY <1>2
    <2> DEFINE g == [j \in 0..m |-> IF j = m THEN step[<<m, f[m - 1]>>] ELSE f[j]]
    <2>2. m - 1 \in 0..m - 1 /\ m \in 0..n /\ m \in 1..n
        OBVIOUS
    <2>3. f[m - 1] \in T[m - 1]
        BY <2>1, <2>2
    <2>4. step[<<m, f[m - 1]>>] \in T[m]
        BY <2>2, <2>3
    <2>5. step[<<m, f[m - 1]>>] \in U
        BY <2>2, <2>4
    <2>6. g \in [0..m -> U]
        BY <2>5
    <2>7. \A j \in 0..m - 1 : g[j] = f[j]
        OBVIOUS
    <2>8. g[m] = step[<<m, f[m - 1]>>] /\ g[0] = start
        BY <2>1, <2>7
    <2> HIDE DEF g
    <2>9. \A j \in 1..m : g[j] = step[<<j, g[j - 1]>>]
        <3> TAKE j \in 1..m
        <3>1. CASE j = m
            BY <2>7, <2>8, <3>1
        <3>2. CASE j \in 1..m - 1
            BY <2>1, <2>7, <3>2
        <3> QED BY <3>1, <3>2
    <2>10. \A j \in 0..m : g[j] \in T[j]
        <3> TAKE j \in 0..m
        <3>1. CASE j = m
            BY <2>4, <2>8, <3>1
        <3>2. CASE j \in 0..m - 1
            BY <2>1, <2>7, <3>2
        <3> QED BY <3>1, <3>2
    <2>11. Is(g, m)
        BY <2>8, <2>9, <2>10
    <2> HIDE DEF Is
    <2> QED BY <2>2, <2>6, <2>11
<1>3. 0..n \subseteq S
    <2> HIDE DEF S
    <2> QED BY <1>1, <1>2, Induction
<1>4. \E f \in [0..n -> U] : Is(f, n)
    <2>1. n \in 0..n
        OBVIOUS
    <2> HIDE DEF Is
    <2> QED BY <1>3, <2>1
<1> QED BY <1>4 DEF RunsThrough

\* Bits that are there for the codes until the next fetch.
Left(k) == 3 * ((5 - (k % 5)) % 5)
CodeStates == [ok : BOOLEAN, f : [p : Nat, v : Seq(Bits)], bits : Seq(0..7)]
CodesRead(k) == {c \in CodeStates : c.ok => Held(c.f) /\ Len(c.bits) = k /\ Left(k) <= Len(c.f.v)}

LEMMA CodeBitStays ==
    ASSUME IsStream, NEW i \in 1..19, NEW c \in CodesRead(i - 1)
    PROVE  CodeBit(c, i) \in CodesRead(i)
<1> DEFINE refill == i \in {1, 6, 11, 16}
           g == IF refill THEN Fetch(c.f.p, c.f.v) ELSE c.f
           h == [g EXCEPT !.v = Drop(@, 3)]
           code == Num(g.v, 0, 3)
<1>1. c \in CodeStates /\ (c.ok => Held(c.f) /\ Len(c.bits) = i - 1 /\ Left(i - 1) <= Len(c.f.v))
    BY DEF CodesRead
<1>2. c.bits \in Seq(0..7) /\ c.f \in [p : Nat, v : Seq(Bits)]
    BY <1>1 DEF CodeStates
<1>3. CASE ~c.ok \/ (refill /\ ~CanFetch(c.f.p, c.f.v))
    <2> DEFINE F == [p : Nat, v : Seq(Bits)]
               B == Seq(0..7)
               r == [c EXCEPT !.ok = FALSE]
    <2>1. c \in [ok : BOOLEAN, f : F, bits : B]
        BY <1>1 DEF CodeStates
    <2> HIDE DEF F, B
    <2>2. r \in [ok : BOOLEAN, f : F, bits : B] /\ ~r.ok
        BY <2>1
    <2>3. CodeBit(c, i) = r
        BY <1>3 DEF CodeBit
    <2> HIDE DEF r
    <2> QED BY <2>2, <2>3 DEF CodesRead, CodeStates, F, B
<1>4. CASE c.ok /\ ~(refill /\ ~CanFetch(c.f.p, c.f.v))
    <2>1. Held(c.f) /\ Len(c.bits) = i - 1 /\ Left(i - 1) <= Len(c.f.v)
        BY <1>1, <1>4
    <2>2. Held(g) /\ 3 + Left(i) <= Len(g.v)
        <3>1. CASE refill
            <4>1. c.f = [p |-> c.f.p, v |-> c.f.v]
                BY <1>2
            <4>2. Held([p |-> c.f.p, v |-> c.f.v]) /\ CanFetch(c.f.p, c.f.v)
                BY <1>4, <2>1, <3>1, <4>1
            <4>3. Held(g) /\ Len(g.v) >= 15
                BY <3>1, <4>2, FetchHeld
            <4>4. Len(g.v) \in Nat
                BY <4>3 DEF Held
            <4> HIDE DEF g
            <4>5. Left(i) \in 0..12
                BY DEF Left
            <4> QED BY <4>3, <4>4, <4>5
        <3>2. CASE ~refill
            <4>1. g = c.f
                BY <3>2
            <4>2. i \in {2, 3, 4, 5, 7, 8, 9, 10, 12, 13, 14, 15, 17, 18, 19}
                BY <3>2
            <4>3. Left(i - 1) = 3 + Left(i)
                BY <4>2 DEF Left
            <4> QED BY <2>1, <4>1, <4>3
        <3> QED BY <3>1, <3>2
    <2>3. Len(g.v) \in Nat /\ g.v \in Seq(Bits) /\ Left(i) \in Nat
        <3>1. g.v \in Seq(Bits)
            BY <2>2 DEF Held
        <3>2. Left(i) \in Nat
            BY DEF Left
        <3> HIDE DEF g
        <3> QED BY <3>1, <3>2
    <2> HIDE DEF g
    <2>4. 3 \in 0..Len(g.v) /\ 3 \in 0..15 /\ 0 \in Nat /\ 0 + 3 <= Len(g.v)
        BY <2>2, <2>3
    <2>5. Held(h) /\ Len(h.v) = Len(g.v) - 3
        BY <2>2, <2>4, SkipHeld
    <2>6. code \in 0..7
        <3>1. code \in Nat /\ code < H!TwoTo(3)
            BY <2>3, <2>4, NumType
        <3> HIDE DEF code
        <3> QED BY <3>1, PowersOfTwo
    <2> HIDE DEF h, code
    <2>7. Append(c.bits, code) \in Seq(0..7) /\ Len(Append(c.bits, code)) = i
        <3>1. \A S : \A s \in Seq(S), x \in S : Append(s, x) \in Seq(S) /\ Len(Append(s, x)) = Len(s) + 1
            OBVIOUS
        <3>2. Append(c.bits, code) \in Seq(0..7) /\ Len(Append(c.bits, code)) = Len(c.bits) + 1
            BY <1>2, <2>6, <3>1, Zenon
        <3> QED BY <2>1, <3>2
    <2>8. CodeBit(c, i) = [ok |-> TRUE, f |-> h, bits |-> Append(c.bits, code)]
        BY <1>4 DEF CodeBit, g, h, code
    <2> DEFINE r == [ok |-> TRUE, f |-> h, bits |-> Append(c.bits, code)]
    <2>9. h \in [p : Nat, v : Seq(Bits)]
        BY <2>5 DEF Held
    <2> DEFINE F == [p : Nat, v : Seq(Bits)]
               B == Seq(0..7)
               bits == Append(c.bits, code)
    <2>10. h \in F /\ bits \in B
        BY <2>7, <2>9
    <2> HIDE DEF F, B, bits
    <2>11. [ok |-> TRUE, f |-> h, bits |-> bits] \in [ok : BOOLEAN, f : F, bits : B]
        BY <2>10
    <2>12. r \in CodeStates
        BY <2>11 DEF CodeStates, F, B, bits
    <2>13. r.f = h /\ r.bits = Append(c.bits, code)
        OBVIOUS
    <2> HIDE DEF r
    <2>14. Left(i) <= Len(h.v)
        BY <2>2, <2>3, <2>5
    <2>15. r \in CodesRead(i)
        BY <2>5, <2>7, <2>12, <2>13, <2>14 DEF CodesRead
    <2> QED BY <2>8, <2>15 DEF r
<1> QED BY <1>3, <1>4
LEMMA CodeBitsGood ==
    ASSUME IsStream, NEW start, Held(start), NEW n \in 0..19, CodeBits(start, n).ok
    PROVE  LET c == CodeBits(start, n)
           IN Held(c.f) /\ c.bits \in Seq(0..7) /\ Len(c.bits) = n
<1> DEFINE first == [ok |-> TRUE, f |-> start, bits |-> <<>>]
           Def(f) == f = [i \in 0..n |-> IF i = 0 THEN first ELSE CodeBit(f[i - 1], i)]
           codebits == CHOOSE f : Def(f)
           T == [k \in 0..n |-> CodesRead(k)]
           step == [p \in (1..n) \X CodeStates |-> CodeBit(p[2], p[1])]
<1>0. n \in Nat /\ 0 \in 0..n /\ n \in 0..n /\ \A k \in 1..n : k \in 1..19 /\ k \in 0..n /\ k - 1 \in 0..n /\ k # 0
    OBVIOUS
<1>1. first \in CodesRead(0)
    <2> DEFINE F == [p : Nat, v : Seq(Bits)]
               B == Seq(0..7)
               none == <<>>
    <2>1. start \in F /\ Len(start.v) \in Nat
        BY DEF Held
    <2>2. none \in B /\ Len(none) = 0
        OBVIOUS
    <2> HIDE DEF F, B, none
    <2>3. [ok |-> TRUE, f |-> start, bits |-> none] \in [ok : BOOLEAN, f : F, bits : B]
        BY <2>1, <2>2
    <2>4. first \in CodeStates
        BY <2>3 DEF CodeStates, F, B, none
    <2>5. Left(0) = 0
        BY DEF Left
    <2>6. Left(0) <= Len(start.v)
        BY <2>1, <2>5
    <2>7. first.f = start /\ first.bits = none
        BY DEF none
    <2> HIDE DEF first
    <2> QED BY <2>2, <2>4, <2>6, <2>7 DEF CodesRead
<1>2. \A k \in 0..n : T[k] = CodesRead(k)
    OBVIOUS
<1>3. \A k \in 1..n, x \in CodeStates : step[<<k, x>>] = CodeBit(x, k)
    OBVIOUS
<1>4. \A k \in Nat : CodesRead(k) \subseteq CodeStates
    BY DEF CodesRead
<1> HIDE DEF T, step, first
<1>5. \A k \in 0..n : T[k] \subseteq CodeStates
    <2>1. \A k \in 0..n : k \in Nat
        OBVIOUS
    <2> QED BY <1>2, <1>4, <2>1
<1>6. \A k \in 1..n : \A x \in T[k - 1] : x \in CodeStates /\ x \in CodesRead(k - 1) /\ step[<<k, x>>] \in T[k]
    <2> TAKE k \in 1..n
    <2> TAKE x \in T[k - 1]
    <2>1. x \in CodeStates /\ x \in CodesRead(k - 1)
        BY <1>0, <1>2, <1>5
    <2>2. CodeBit(x, k) \in CodesRead(k)
        BY <1>0, <2>1, CodeBitStays
    <2> QED BY <1>0, <1>2, <1>3, <2>1, <2>2
<1>7. PICK f \in [0..n -> CodeStates] :
        /\ f[0] = first
        /\ \A j \in 1..n : f[j] = step[<<j, f[j - 1]>>]
        /\ \A j \in 0..n : f[j] \in T[j]
    <2>1. first \in T[0]
        BY <1>0, <1>1, <1>2
    <2>2. RunsThrough(n, CodeStates, T, first, step)
        BY <1>0, <1>5, <1>6, <2>1, LoopThrough
    <2> QED BY <2>2 DEF RunsThrough
<1>8. Def(f)
    <2>1. \A k \in 1..n : f[k - 1] \in CodeStates
        BY <1>0
    <2>2. \A k \in 1..n : f[k] = CodeBit(f[k - 1], k)
        BY <1>3, <1>7, <2>1
    <2> DEFINE g == [i \in 0..n |-> IF i = 0 THEN first ELSE CodeBit(f[i - 1], i)]
    <2>3. f[0] = g[0] /\ \A k \in 1..n : f[k] = g[k]
        BY <1>0, <1>7, <2>2
    <2>4. f = [k \in 0..n |-> f[k]] /\ g = [k \in 0..n |-> g[k]]
        OBVIOUS
    <2>5. f = g
        <3> HIDE DEF g
        <3>1. \A k \in 0..n : k = 0 \/ k \in 1..n
            BY <1>0
        <3>2. \A k \in 0..n : f[k] = g[k]
            BY <2>3, <3>1, Zenon
        <3>3. [k \in 0..n |-> f[k]] = [k \in 0..n |-> g[k]]
            BY <3>2, Zenon
        <3> QED BY <2>4, <3>3, Zenon
    <2> QED BY <2>5
<1>9. Def(codebits)
    <2> HIDE DEF Def
    <2> QED BY <1>8
<1>10. CodeBits(start, n) = codebits[n]
    BY DEF CodeBits, first
<1> HIDE DEF codebits
<1>11. codebits[0] = first /\ \A k \in 1..n : codebits[k] = CodeBit(codebits[k - 1], k)
    <2>1. codebits = [i \in 0..n |-> IF i = 0 THEN first ELSE CodeBit(codebits[i - 1], i)]
        BY <1>9
    <2> HIDE DEF Def
    <2>2. \A k \in 0..n : codebits[k] = IF k = 0 THEN first ELSE CodeBit(codebits[k - 1], k)
        BY <2>1, Zenon
    <2> QED BY <1>0, <2>2, Zenon
<1> HIDE DEF Def
<1> DEFINE S == {k \in 0..n : codebits[k] \in CodesRead(k)}
<1>12. 0 \in S
    BY <1>0, <1>1, <1>11
<1>13. ASSUME NEW k \in 1..n, k - 1 \in S PROVE k \in S
    <2>1. codebits[k - 1] \in CodesRead(k - 1)
        BY <1>13
    <2>2. CodeBit(codebits[k - 1], k) \in CodesRead(k)
        BY <1>0, <2>1, CodeBitStays
    <2>3. codebits[k] \in CodesRead(k)
        BY <1>11, <2>2
    <2> QED BY <1>0, <2>3
<1>14. 0..n \subseteq S
    <2> HIDE DEF S
    <2> QED BY <1>0, <1>12, <1>13, Induction
<1>15. CodeBits(start, n) \in CodesRead(n)
    BY <1>0, <1>10, <1>14
<1> QED BY <1>15 DEF CodesRead, CodeStates
-----------------------------------------------------------------------------
(* The invariant.                                                          *)

\* What was uncompressed has the size and the checksum the section names.
Verified ==
    uncompressed # <<>> => pc = "done" /\ uncompressed = out /\ Len(out) = sec.size
                             /\ Checksum(out) = SubSeq(sec.bytes, Size - 3, Size)
Sound ==
    /\ IsStream
    /\ Held([p |-> pin, v |-> val])
    /\ out \in Seq(0..255) /\ Len(out) <= sec.size
Lengthy ==
    /\ IsTable(clen) /\ Plain(clen)
    /\ lens \in Seq(Nat) /\ want.lit \in 257..286 /\ want.dist \in 1..30
Symbolic == IsTable(tlit) /\ IsTable(tdist)
Streaming == {"section", "stream", "block", "stored", "dynamic", "lengths", "symbols", "done"}
\* A stream is held within its bounds, and each part of it has what it needs.
IInv ==
    /\ IF IsSection THEN pc \in Streaming /\ Sound ELSE pc \in {"generate", "done"} /\ out = <<>>
    /\ pc = "lengths" => Lengthy
    /\ pc = "symbols" => Symbolic
    /\ Verified

\* The next state of a stream.
LEMMA Carry ==
    ASSUME IInv, IsSection, pc # "done", sec' = sec, uncompressed' = uncompressed,
           pc' \in Streaming, Held([p |-> pin', v |-> val']),
           out' \in Seq(0..255), Len(out') <= sec.size,
           pc' = "lengths" => Lengthy', pc' = "symbols" => Symbolic'
    PROVE  IInv'
<1>1. IsSection' /\ IsStream'
    BY DEF IInv, IsSection, Sound, IsStream
<1>2. Held([p |-> pin, v |-> val])'
    BY DEF Held, Size
<1>3. Sound'
    BY <1>1, <1>2 DEF Sound
<1>4. uncompressed = <<>>
    BY DEF IInv, Verified
<1>5. Verified'
    BY <1>4 DEF Verified
<1> QED BY <1>1, <1>3, <1>5 DEF IInv

LEMMA FailKeeps == IInv /\ IsSection /\ pc # "done" /\ Fail => IInv'
<1> SUFFICES ASSUME IInv, IsSection, pc # "done", Fail PROVE IInv'
    OBVIOUS
<1>1. sec' = sec /\ pin' = pin /\ val' = val /\ out' = out /\ pc' = "done" /\ uncompressed' = <<>>
    BY DEF Fail
<1>2. IsSection' /\ Sound'
    BY <1>1 DEF IInv, IsSection, Sound, IsStream, Held, Size
<1>3. Verified'
    BY <1>1 DEF Verified
<1> QED BY <1>1, <1>2, <1>3 DEF IInv, Streaming

LEMMA Initially == Init => IInv
<1> SUFFICES ASSUME Init PROVE IInv
    OBVIOUS
<1>1. out = <<>> /\ pin = 0 /\ val = <<>> /\ uncompressed = <<>>
    BY DEF Init
<1>2. Verified
    BY <1>1 DEF Verified
<1>3. CASE sec \in Sections /\ pc = "section"
    <2>1. sec.bytes \in Seq(0..255) /\ sec.at \in 0..3 /\ sec.size \in Nat /\ IsSection
        BY <1>3, SectionsAssumption DEF IsSection
    <2>2. IsStream
        BY <2>1 DEF IsStream
    <2>3. Held([p |-> 0, v |-> <<>>])
        <3> DEFINE none == <<>>
        <3>1. none \in Seq(Bits) /\ Len(none) = 0 /\ Size \in Nat
            BY <2>2, SizeType
        <3> HIDE DEF none
        <3>2. Held([p |-> 0, v |-> none])
            BY <3>1 DEF Held
        <3> QED BY <3>2 DEF none
    <2>4. out \in Seq(0..255) /\ Len(out) <= sec.size
        <3>1. <<>> \in Seq(0..255) /\ Len(<<>>) = 0
            OBVIOUS
        <3> QED BY <1>1, <2>1, <3>1
    <2>5. Sound
        BY <1>1, <2>2, <2>3, <2>4 DEF Sound
    <2> QED BY <1>2, <1>3, <2>1, <2>5 DEF IInv, Streaming
<1>4. CASE sec \in [codes : CodeLengths] /\ pc = "generate"
    <2>1. DOMAIN sec = {"codes"}
        BY <1>4
    <2>2. ~IsSection
        BY <2>1 DEF IsSection
    <2> QED BY <1>1, <1>2, <1>4, <2>2 DEF IInv
<1> QED BY <1>3, <1>4 DEF Init

\* What every part of a stream has.
LEMMA Parts ==
    ASSUME IInv, pc # "done", pc # "generate"
    PROVE  /\ IsSection /\ IsStream /\ Size \in Nat /\ sec.size \in Nat
           /\ Held([p |-> pin, v |-> val]) /\ pin \in Nat /\ val \in Seq(Bits)
           /\ out \in Seq(0..255) /\ Len(out) \in Nat /\ Len(out) <= sec.size
<1>1. IsSection /\ Sound
    BY DEF IInv
<1>2. Size \in Nat
    BY <1>1, SizeType DEF Sound
<1>3. pin \in Nat /\ val \in Seq(Bits)
    BY <1>1 DEF Sound, Held
<1> QED BY <1>1, <1>2, <1>3 DEF Sound, IsStream

LEMMA UncompressKeeps == IInv /\ Uncompress => IInv'
<1> SUFFICES ASSUME IInv, Uncompress PROVE IInv'
    OBVIOUS
<1>1. pc = "section" /\ pc # "done" /\ pc # "generate"
    BY DEF Uncompress
<1>2. CASE Fail
    BY <1>1, <1>2, FailKeeps, Parts
<1>3. CASE pc' = "done" /\ uncompressed' = <<>> /\ UNCHANGED <<sec, pin, val, out, last, Tables>>
    <2>1. sec' = sec /\ pin' = pin /\ val' = val /\ out' = out /\ uncompressed = <<>>
        BY <1>1, <1>3 DEF IInv, Verified
    <2>2. pc' \in Streaming
        BY <1>3 DEF Streaming
    <2> QED BY <1>1, <1>3, <2>1, <2>2, Parts, Carry
<1>4. CASE pc' = "stream" /\ Still(<<pin, val, out, last, Tables>>)
    <2>1. sec' = sec /\ pin' = pin /\ val' = val /\ out' = out /\ uncompressed' = uncompressed
        BY <1>4 DEF Still
    <2>2. pc' \in Streaming
        BY <1>4 DEF Streaming
    <2> QED BY <1>1, <1>4, <2>1, <2>2, Parts, Carry
<1> QED BY <1>2, <1>3, <1>4 DEF Uncompress

LEMMA VerifyKeeps == IInv /\ Verify => IInv'
<1> SUFFICES ASSUME IInv, Verify PROVE IInv'
    OBVIOUS
<1>1. pc = "stream" /\ pc # "done" /\ pc # "generate"
    BY DEF Verify
<1>2. CASE Fail
    BY <1>1, <1>2, FailKeeps, Parts
<1>3. CASE ~Fail
    <2>1. /\ Len(out) = sec.size /\ Checksum(out) = SubSeq(sec.bytes, Size - 3, Size)
          /\ pc' = "done" /\ uncompressed' = out /\ UNCHANGED <<sec, pin, val, out, last, Tables>>
        BY <1>3 DEF Verify
    <2>2. sec' = sec /\ pin' = pin /\ val' = val /\ out' = out
        BY <2>1
    <2>3. IsSection' /\ Sound'
        BY <1>1, <2>2, Parts DEF IsSection, Sound, IsStream, Held, Size
    <2>4. Verified'
        <3>1. Size' = Size
            BY <2>2 DEF Size
        <3> QED BY <2>1, <2>2, <3>1 DEF Verified
    <2> QED BY <2>1, <2>3, <2>4 DEF IInv, Streaming
<1> QED BY <1>2, <1>3

LEMMA GenerateKeeps == IInv /\ Generate => IInv'
<1> SUFFICES ASSUME IInv, Generate PROVE IInv'
    OBVIOUS
<1>1. pc = "generate" /\ pc' = "done" /\ sec' = sec /\ out' = out /\ uncompressed' = uncompressed
    BY DEF Generate
<1>2. ~IsSection /\ out = <<>> /\ uncompressed = <<>>
    BY <1>1 DEF IInv, Streaming, Verified
<1> QED BY <1>1, <1>2 DEF IInv, IsSection, Verified

LEMMA StreamKeeps == IInv /\ Stream => IInv'
<1> SUFFICES ASSUME IInv, Stream PROVE IInv'
    OBVIOUS
<1>1. pc = "stream" /\ pc # "done" /\ pc # "generate"
    BY DEF Stream
<1>2. CASE Fail
    BY <1>1, <1>2, FailKeeps, Parts
<1>3. CASE ~Fail
    <2>1. Remaining > 4 /\ Read(Aligned(pin + 2)) /\ pc' = "block" /\ Still(<<out, Tables>>)
        BY <1>3 DEF Stream
    <2>2. pin + 2 \in Nat /\ pin + 2 <= Size
        BY <1>1, <2>1, Parts DEF Remaining
    <2>3. Held(Aligned(pin + 2))
        BY <1>1, <2>2, Parts, AlignedHeld
    <2>4. Held([p |-> pin', v |-> val'])
        BY <2>1, <2>3 DEF Read, Aligned
    <2>5. sec' = sec /\ out' = out /\ uncompressed' = uncompressed
        BY <2>1 DEF Still
    <2>6. pc' \in Streaming
        BY <2>1 DEF Streaming
    <2> QED BY <1>1, <2>1, <2>4, <2>5, <2>6, Parts, Carry
<1> QED BY <1>2, <1>3
\* What a fetch gives to a part of a stream.
LEMMA Fetched ==
    ASSUME IInv, pc # "done", pc # "generate", CanFetch(pin, val)
    PROVE  LET f == Fetch(pin, val)
           IN Held(f) /\ f.v \in Seq(Bits) /\ Len(f.v) \in Nat /\ Len(f.v) >= 15
                /\ f \in [p : Nat, v : Seq(Bits)]
<1>1. IsStream /\ Held([p |-> pin, v |-> val])
    BY Parts
<1>2. Held(Fetch(pin, val)) /\ Len(Fetch(pin, val).v) >= 15
    BY <1>1, FetchHeld
<1> QED BY <1>2 DEF Held

LEMMA ReadHeld == ASSUME NEW f, Held(f), Read(f) PROVE Held([p |-> pin', v |-> val'])
<1>1. f = [p |-> f.p, v |-> f.v]
    BY DEF Held
<1>2. Held([p |-> f.p, v |-> f.v])
    BY <1>1
<1> QED BY <1>2 DEF Read

LEMMA FixedTables == IsTable(LitTable) /\ IsTable(DistTable)
<1>1. FixedLit \in Seq(Nat) /\ FixedDist \in Seq(Nat)
    BY DEF FixedLit, FixedDist
<1>2. FALSE \in BOOLEAN /\ H!Build(FixedLit) # H!Failed /\ H!Build(FixedDist) # H!Failed
    BY FixedAssumption DEF LitTable, DistTable
<1> QED BY <1>1, <1>2, BuildGood DEF LitTable, DistTable

LEMMA BlockKeeps == IInv /\ Block => IInv'
<1> SUFFICES ASSUME IInv, Block PROVE IInv'
    OBVIOUS
<1> DEFINE f == Fetch(pin, val)
           type == Num(f.v, 1, 2)
           g == [f EXCEPT !.v = Drop(@, 3)]
<1>1. pc = "block" /\ pc # "done" /\ pc # "generate"
    BY DEF Block
<1>2. CASE Fail
    BY <1>1, <1>2, FailKeeps, Parts
<1>3. CASE ~Fail
    <2>1. /\ CanFetch(pin, val) /\ type # 3
          /\ Read(g)
          /\ pc' = <<"stored", "symbols", "dynamic">>[type + 1]
          /\ tlit' = (IF type = 1 THEN LitTable ELSE tlit)
          /\ tdist' = (IF type = 1 THEN DistTable ELSE tdist)
          /\ Still(<<out, want, lens, clen>>)
        BY <1>3 DEF Block
    <2>2. Held(f) /\ f.v \in Seq(Bits) /\ Len(f.v) \in Nat /\ Len(f.v) >= 15
        BY <1>1, <2>1, Fetched
    <2> HIDE DEF f
    <2>3. type \in Nat /\ type < 4
        <3>1. 1 \in Nat /\ 2 \in 0..15 /\ 1 + 2 <= Len(f.v)
            BY <2>2
        <3>2. type \in Nat /\ type < H!TwoTo(2)
            BY <2>2, <3>1, NumType
        <3> HIDE DEF type
        <3> QED BY <3>2, PowersOfTwo
    <2>4. type \in 0..2
        <3> HIDE DEF type
        <3> QED BY <2>1, <2>3
    <2>5. 3 \in 0..Len(f.v)
        BY <2>2
    <2>6. Held([p |-> pin', v |-> val'])
        BY <2>1, <2>2, <2>5, SkipHeld, ReadHeld
    <2> HIDE DEF type
    <2>7. pc' \in {"stored", "symbols", "dynamic"} /\ (pc' = "symbols" => type = 1)
        BY <2>1, <2>4
    <2>8. pc' = "symbols" => Symbolic'
        BY <2>1, <2>7, FixedTables DEF Symbolic, IsTable, Closed
    <2>9. sec' = sec /\ out' = out /\ uncompressed' = uncompressed
        BY <2>1 DEF Still
    <2>10. pc' \in Streaming /\ pc' # "lengths"
        BY <2>7 DEF Streaming
    <2> QED BY <1>1, <2>6, <2>8, <2>9, <2>10, Parts, Carry
<1> QED BY <1>2, <1>3

\* The bytes that were read ahead were read.
LEMMA BackUpType ==
    ASSUME NEW p \in Nat, NEW v \in Seq(Bits), Len(v) <= 8 * p
    PROVE  BackUp(p, v) \in 0..p
<1>1. Len(v) \in Nat
    OBVIOUS
<1>2. CASE Len(v) > 8
    <2> DEFINE n == (Len(v) - 1) \div 8
    <2>1. n \in Nat /\ n <= p
        BY <1>1, <1>2
    <2> HIDE DEF n
    <2>2. p - n \in 0..p
        BY <2>1
    <2> QED BY <1>2, <2>2 DEF BackUp, n
<1>3. CASE ~(Len(v) > 8)
    BY <1>3 DEF BackUp
<1> QED BY <1>2, <1>3

LEMMA InputType ==
    ASSUME IsStream, NEW p \in Nat, NEW n \in Nat, p + n <= Size
    PROVE  Input(p, n) \in Seq(0..255) /\ Len(Input(p, n)) = n
<1> DEFINE T == 0..255
           bytes == sec.bytes
<1>1. bytes \in Seq(T) /\ Len(bytes) = Size
    BY DEF IsStream, Size
<1> HIDE DEF T, bytes
<1>2. \A i \in p + 1..p + n : bytes[i] \in T
    <2>1. \A S : \A s \in Seq(S) : \A i \in 1..Len(s) : s[i] \in S
        OBVIOUS
    <2>2. \A i \in 1..Len(bytes) : bytes[i] \in T
        BY <1>1, <2>1, Zenon
    <2>3. Size \in Nat
        BY SizeType
    <2>4. \A i \in p + 1..p + n : i \in 1..Size
        BY <2>3
    <2> QED BY <1>1, <2>2, <2>4
<1>3. p + 1 \in Int /\ p + n \in Int /\ (IF p + 1 <= p + n THEN p + n - (p + 1) + 1 ELSE 0) = n
    OBVIOUS
<1>4. SubSeq(bytes, p + 1, p + n) \in Seq(T) /\ Len(SubSeq(bytes, p + 1, p + n)) = n
    BY <1>2, <1>3, SubSeqProperties
<1> QED BY <1>4 DEF Input, T, bytes

LEMMA StoredKeeps == IInv /\ Stored => IInv'
<1> SUFFICES ASSUME IInv, Stored PROVE IInv'
    OBVIOUS
<1> DEFINE p == BackUp(pin, val)
           len == Word(p)
<1>1. pc = "stored" /\ pc # "done" /\ pc # "generate"
    BY DEF Stored
<1>2. CASE Fail
    BY <1>1, <1>2, FailKeeps, Parts
<1>3. CASE ~Fail
    <2>1. /\ ~(Size - p < 4) /\ ~(len > Size - p - 4) /\ ~(len > sec.size - Len(out))
          /\ out' = out \o Input(p + 4, len)
          /\ Read(Aligned(p + 4 + len))
          /\ EndBlock(last)
          /\ Still(<<last, Tables>>)
        BY <1>3 DEF Stored
    <2>2. pin \in Nat /\ val \in Seq(Bits) /\ Len(val) <= 8 * pin /\ Size \in Nat /\ IsStream
        BY <1>1, Parts DEF Held
    <2>3. p \in Nat
        <3>1. p \in 0..pin
            BY <2>2, BackUpType
        <3> HIDE DEF p
        <3> QED BY <2>2, <3>1
    <2> HIDE DEF p
    <2>4. len \in Nat
        <3>1. p + 1 \in Nat /\ 0 \in Nat
            BY <2>3
        <3>2. Byte(p) \in 0..255 /\ Byte(p + 1) \in 0..255
            BY <2>2, <2>3, <3>1, BytesType
        <3>3. \A a, b \in 0..255 : a + 256 * b \in Nat
            OBVIOUS
        <3>4. Byte(p) + 256 * Byte(p + 1) \in Nat
            BY <3>2, <3>3, Zenon
        <3> QED BY <3>4 DEF Word
    <2> HIDE DEF len
    <2>5. p + 4 + len \in Nat /\ p + 4 + len <= Size /\ p + 5 \in Nat
        BY <2>1, <2>2, <2>3, <2>4
    <2>6. Held([p |-> pin', v |-> val'])
        BY <2>1, <2>2, <2>5, AlignedHeld, ReadHeld
    <2>7. out' \in Seq(0..255) /\ Len(out') <= sec.size
        <3> DEFINE bytes == Input(p + 4, len)
        <3>3. bytes \in Seq(0..255) /\ Len(bytes) = len
            <4>1. p + 4 \in Nat
                BY <2>3
            <4> QED BY <2>2, <2>4, <2>5, <4>1, InputType
        <3>4. Len(bytes) = len
            BY <3>3
        <3>5. \A S : \A s, t \in Seq(S) : s \o t \in Seq(S) /\ Len(s \o t) = Len(s) + Len(t)
            OBVIOUS
        <3>6. out \in Seq(0..255) /\ Len(out) \in Nat /\ sec.size \in Nat
            BY <1>1, Parts
        <3> HIDE DEF bytes
        <3>7. out \o bytes \in Seq(0..255) /\ Len(out \o bytes) = Len(out) + Len(bytes)
            BY <3>3, <3>5, <3>6, Zenon
        <3>8. Len(out) + len <= sec.size
            BY <2>1, <2>4, <3>6
        <3>9. out' = out \o bytes
            BY <2>1 DEF bytes
        <3> QED BY <3>4, <3>7, <3>8, <3>9
    <2>8. sec' = sec /\ uncompressed' = uncompressed
        BY <2>1 DEF Still
    <2>9. pc' \in Streaming /\ pc' # "lengths" /\ pc' # "symbols"
        BY <2>1 DEF EndBlock, Streaming
    <2> QED BY <1>1, <2>6, <2>7, <2>8, <2>9, Parts, Carry
<1> QED BY <1>2, <1>3

LEMMA DynamicKeeps == IInv /\ Dynamic => IInv'
<1> SUFFICES ASSUME IInv, Dynamic PROVE IInv'
    OBVIOUS
<1> DEFINE f == Fetch(pin, val)
           nlit == Num(f.v, 0, 5) + 257
           ndist == Num(f.v, 5, 5) + 1
           nclen == Num(f.v, 10, 4) + 4
           g == [f EXCEPT !.v = Drop(@, 14)]
           c == CodeBits(g, nclen)
           codebits == [v \in 1..19 |-> IF \E i \in 1..nclen : Order[i] = v - 1
                                        THEN c.bits[CHOOSE i \in 1..nclen : Order[i] = v - 1] ELSE 0]
           table == H!Build(codebits)
<1>1. pc = "dynamic" /\ pc # "done" /\ pc # "generate"
    BY DEF Dynamic
<1>2. CASE Fail
    BY <1>1, <1>2, FailKeeps, Parts
<1>3. CASE ~Fail
    <2>1. /\ CanFetch(pin, val) /\ ~(nlit > 286 \/ ndist > 30) /\ c.ok /\ table # H!Failed
          /\ Read(c.f) /\ clen' = table
          /\ want' = [lit |-> nlit, dist |-> ndist] /\ lens' = <<>>
          /\ pc' = "lengths"
          /\ Still(<<out, last, tlit, tdist>>)
        BY <1>3 DEF Dynamic
    <2>2. Held(f) /\ f.v \in Seq(Bits) /\ Len(f.v) \in Nat /\ Len(f.v) >= 15 /\ IsStream
        BY <1>1, <2>1, Fetched, Parts
    <2> HIDE DEF f
    <2>3. Num(f.v, 0, 5) \in Nat /\ Num(f.v, 5, 5) \in Nat
        <3>1. 0 \in Nat /\ 5 \in Nat /\ 5 \in 0..15 /\ 0 + 5 <= Len(f.v) /\ 5 + 5 <= Len(f.v)
            BY <2>2
        <3> QED BY <2>2, <3>1, NumType
    <2>4. nlit \in 257..286 /\ ndist \in 1..30
        <3> DEFINE x == Num(f.v, 0, 5)
                   y == Num(f.v, 5, 5)
        <3>1. x \in Nat /\ y \in Nat /\ ~(x + 257 > 286 \/ y + 1 > 30)
            BY <2>1, <2>3
        <3> HIDE DEF x, y
        <3>2. x + 257 \in 257..286 /\ y + 1 \in 1..30
            BY <3>1
        <3> QED BY <3>2 DEF x, y
    <2>5. nclen \in 0..19
        <3>1. 10 \in Nat /\ 4 \in 0..15 /\ 10 + 4 <= Len(f.v)
            BY <2>2
        <3> DEFINE x == Num(f.v, 10, 4)
        <3>4. x \in Nat /\ x < H!TwoTo(4)
            BY <2>2, <3>1, NumType
        <3> HIDE DEF x
        <3>2. x \in Nat /\ x < 16
            BY <3>4, PowersOfTwo
        <3>3. x + 4 \in 0..19
            BY <3>2
        <3> QED BY <3>3 DEF x
    <2>6. Held(g)
        <3>1. 14 \in 0..Len(f.v)
            BY <2>2
        <3> QED BY <2>2, <3>1, SkipHeld
    <2> HIDE DEF g, nclen, nlit, ndist
    <2>7. Held(c.f) /\ c.bits \in Seq(0..7) /\ Len(c.bits) = nclen
        BY <2>1, <2>2, <2>5, <2>6, CodeBitsGood
    <2> HIDE DEF c
    <2>8. codebits \in Seq(0..7) /\ codebits \in Seq(Nat)
        <3>1. \A i \in 1..nclen : c.bits[i] \in 0..7
            <4>1. \A S : \A s \in Seq(S) : \A i \in 1..Len(s) : s[i] \in S
                OBVIOUS
            <4> QED BY <2>7, <4>1, Zenon
        <3>2. \A v \in 1..19 : (IF \E i \in 1..nclen : Order[i] = v - 1
                                THEN c.bits[CHOOSE i \in 1..nclen : Order[i] = v - 1] ELSE 0) \in 0..7
            <4> TAKE v \in 1..19
            <4> DEFINE i == CHOOSE i \in 1..nclen : Order[i] = v - 1
            <4>1. (\E k \in 1..nclen : Order[k] = v - 1) => i \in 1..nclen
                OBVIOUS
            <4>2. 0 \in 0..7
                OBVIOUS
            <4> HIDE DEF i
            <4>3. (IF \E k \in 1..nclen : Order[k] = v - 1 THEN c.bits[i] ELSE 0) \in 0..7
                BY <3>1, <4>1, <4>2, Zenon
            <4> QED BY <4>3 DEF i
        <3>3. codebits \in [1..19 -> 0..7]
            BY <3>2
        <3>4. \A x \in 0..7 : x \in Nat
            OBVIOUS
        <3> HIDE DEF codebits
        <3>5. codebits \in [1..19 -> Nat]
            BY <3>3, <3>4
        <3>6. \A S : [1..19 -> S] \subseteq Seq(S)
            <4>1. 19 \in Nat
                OBVIOUS
            <4> QED BY <4>1, SeqDef
        <3> QED BY <3>3, <3>5, <3>6, Zenon
    <2> HIDE DEF codebits
    <2>9. IsTable(table) /\ Plain(table)
        <3>1. TRUE \in BOOLEAN
            OBVIOUS
        <3> QED BY <2>1, <2>8, <3>1, BuildGood
    <2> HIDE DEF table
    <2>10. Held([p |-> pin', v |-> val'])
        BY <2>1, <2>7, ReadHeld
    <2>11. Lengthy'
        <3>1. IsTable(clen') /\ Plain(clen')
            BY <2>1, <2>9
        <3>2. IsTable(clen)' /\ Plain(clen)'
            BY <3>1 DEF IsTable, Closed, Plain
        <3>3. lens' \in Seq(Nat)
            BY <2>1
        <3>4. want'.lit \in 257..286 /\ want'.dist \in 1..30
            BY <2>1, <2>4
        <3> QED BY <3>2, <3>3, <3>4 DEF Lengthy
    <2>12. sec' = sec /\ out' = out /\ uncompressed' = uncompressed
        BY <2>1 DEF Still
    <2>13. pc' \in Streaming /\ pc' # "symbols"
        BY <2>1 DEF Streaming
    <2> QED BY <1>1, <2>10, <2>11, <2>12, <2>13, Parts, Carry
<1> QED BY <1>2, <1>3
LEMMA CodeLengthKeeps == IInv /\ CodeLength => IInv'
<1> SUFFICES ASSUME IInv, CodeLength PROVE IInv'
    OBVIOUS
<1> DEFINE f == Fetch(pin, val)
           d == H!Decode(clen, f.v)
           v == Drop(f.v, d.n)
           extra == IF d.v = 16 THEN 2 ELSE IF d.v = 17 THEN 3 ELSE IF d.v = 18 THEN 7 ELSE 0
           count == CASE d.v < 16 -> 1 [] d.v = 18 -> 11 + Num(v, 0, 7) [] OTHER -> 3 + Num(v, 0, extra)
           what == CASE d.v < 16 -> d.v [] d.v = 16 -> Last(lens) [] OTHER -> 0
           g == [f EXCEPT !.v = Drop(v, extra)]
<1>1. pc = "lengths" /\ pc # "done" /\ pc # "generate"
    BY DEF CodeLength
<1>2. CASE Fail
    BY <1>1, <1>2, FailKeeps, Parts
<1>3. CASE ~Fail
    <2>1. /\ CanFetch(pin, val) /\ ~(d.v > 18 \/ (d.v = 16 /\ lens = <<>>))
          /\ lens' = lens \o [i \in 1..count |-> what]
          /\ Read(g)
          /\ Still(<<pc, out, last, want, clen, tlit, tdist>>)
        BY <1>3 DEF CodeLength
    <2>2. Held(f) /\ f.v \in Seq(Bits) /\ Len(f.v) \in Nat /\ Len(f.v) >= 15 /\ f \in [p : Nat, v : Seq(Bits)]
        BY <1>1, <2>1, Fetched
    <2>3. IsTable(clen) /\ Plain(clen) /\ lens \in Seq(Nat)
        BY <1>1 DEF IInv, Lengthy
    <2> HIDE DEF f
    <2>4. d.v \in Nat /\ d.n \in 0..15 /\ d.n <= 7
        BY <2>2, <2>3, DecodeGood
    <2> HIDE DEF d
    <2>5. v \in Seq(Bits) /\ Len(v) = Len(f.v) - d.n
        <3>1. d.n \in 0..Len(f.v)
            BY <2>2, <2>4
        <3> QED BY <2>2, <3>1, DropType
    <2> HIDE DEF v
    <2>6. Len(v) \in Nat /\ Len(v) >= 8
        <3> DEFINE a == Len(f.v)
                   b == d.n
        <3>1. a \in Nat /\ a >= 15 /\ b \in 0..15 /\ b <= 7 /\ Len(v) = a - b
            BY <2>2, <2>4, <2>5
        <3> HIDE DEF a, b
        <3> QED BY <3>1
    <2>7. extra \in 0..7 /\ extra \in 0..15 /\ extra \in 0..Len(v) /\ 0 + extra <= Len(v)
        BY <2>6
    <2>8. Num(v, 0, extra) \in Nat /\ Num(v, 0, 7) \in Nat
        <3>1. 0 \in Nat /\ 7 \in 0..15 /\ 0 + 7 <= Len(v)
            BY <2>6
        <3> HIDE DEF extra
        <3> QED BY <2>5, <2>7, <3>1, NumType
    <2> HIDE DEF extra
    <2>9. count \in Nat
        <3> DEFINE x == Num(v, 0, 7)
                   y == Num(v, 0, extra)
        <3>1. x \in Nat /\ y \in Nat
            BY <2>8
        <3>2. d.v < 16 \/ d.v = 18 \/ ~(d.v < 16 \/ d.v = 18)
            OBVIOUS
        <3>3. 11 + x \in Nat /\ 3 + y \in Nat /\ 1 \in Nat
            BY <3>1
        <3>4. count \in {1, 11 + x, 3 + y}
            <4>1. d.v < 16 => ~(d.v = 18)
                BY <2>4
            <4> HIDE DEF x, y
            <4> QED BY <4>1 DEF x, y
        <3> HIDE DEF count
        <3> QED BY <3>3, <3>4
    <2>10. what \in Nat
        <3>1. lens # <<>> => Last(lens) \in Nat
            BY <2>3 DEF Last
        <3>2. ~(d.v = 16 /\ lens = <<>>)
            BY <2>1
        <3> QED BY <2>4, <3>1, <3>2
    <2> HIDE DEF count, what
    <2>11. lens' \in Seq(Nat)
        <3>1. [i \in 1..count |-> what] \in Seq(Nat)
            BY <2>9, <2>10
        <3>2. \A s, t \in Seq(Nat) : s \o t \in Seq(Nat)
            OBVIOUS
        <3> QED BY <2>1, <2>3, <3>1, <3>2, Zenon
    <2>12. Held(g)
        <3> DEFINE h == [f EXCEPT !.v = Drop(@, d.n)]
        <3>1. d.n \in 0..Len(f.v)
            BY <2>2, <2>4
        <3>2. Held(h) /\ h.v = v
            BY <2>2, <3>1, SkipHeld DEF v
        <3>3. [h EXCEPT !.v = Drop(@, extra)] = g
            <4>1. h = [f EXCEPT !.v = v]
                BY DEF v
            <4> QED BY <2>2, <4>1
        <3>4. extra \in 0..Len(h.v)
            BY <2>7, <3>2
        <3> HIDE DEF h, g
        <3> QED BY <3>2, <3>3, <3>4, SkipHeld
    <2>13. Held([p |-> pin', v |-> val'])
        BY <2>1, <2>12, ReadHeld
    <2>14. sec' = sec /\ out' = out /\ uncompressed' = uncompressed /\ pc' = pc /\ want' = want /\ clen' = clen
        BY <2>1 DEF Still
    <2>15. Lengthy'
        BY <1>1, <2>11, <2>14 DEF IInv, Lengthy, IsTable, Closed, Plain
    <2>16. pc' \in Streaming /\ pc' # "symbols"
        BY <1>1, <2>14 DEF Streaming
    <2> QED BY <1>1, <2>13, <2>14, <2>15, <2>16, Parts, Carry
<1> QED BY <1>2, <1>3

LEMMA MakeTablesKeeps == IInv /\ MakeTables => IInv'
<1> SUFFICES ASSUME IInv, MakeTables PROVE IInv'
    OBVIOUS
<1> DEFINE ls == SubSeq(lens, 1, want.lit)
           ds == Drop(lens, want.lit)
           lit == H!Build(ls)
           dist == H!Build(ds)
<1>1. pc = "lengths" /\ pc # "done" /\ pc # "generate"
    BY DEF MakeTables
<1>2. CASE Fail
    BY <1>1, <1>2, FailKeeps, Parts
<1>3. CASE ~Fail
    <2>1. /\ lit # H!Failed /\ dist # H!Failed
          /\ tlit' = lit /\ tdist' = dist /\ pc' = "symbols"
          /\ Still(<<pin, val, out, last, want, lens, clen>>)
        BY <1>3 DEF MakeTables
    <2>2. lens \in Seq(Nat) /\ want.lit \in 257..286 /\ want.dist \in 1..30 /\ Len(lens) = want.lit + want.dist
        BY <1>1 DEF IInv, Lengthy, MakeTables
    <2>3. want.lit \in 0..Len(lens)
        <3> DEFINE a == want.lit
                   b == want.dist
        <3>1. a \in 257..286 /\ b \in 1..30 /\ Len(lens) = a + b
            BY <2>2
        <3> HIDE DEF a, b
        <3>2. a \in 0..Len(lens)
            BY <3>1
        <3> QED BY <3>2 DEF a
    <2>4. ls \in Seq(Nat) /\ ds \in Seq(Nat)
        <3>1. ds \in Seq(Nat)
            BY <2>2, <2>3, DropType
        <3>2. ls \in Seq(Nat)
            BY <2>2, <2>3
        <3> QED BY <3>1, <3>2
    <2> HIDE DEF ls, ds
    <2>5. IsTable(lit) /\ IsTable(dist)
        <3>1. FALSE \in BOOLEAN
            OBVIOUS
        <3> QED BY <2>1, <2>4, <3>1, BuildGood
    <2>6. IsTable(tlit') /\ IsTable(tdist')
        BY <2>1, <2>5
    <2>7. Symbolic'
        BY <2>6 DEF Symbolic, IsTable, Closed
    <2>8. sec' = sec /\ out' = out /\ uncompressed' = uncompressed /\ pin' = pin /\ val' = val
        BY <2>1 DEF Still
    <2>9. pc' \in Streaming /\ pc' # "lengths"
        BY <2>1 DEF Streaming
    <2> QED BY <1>1, <2>7, <2>8, <2>9, Parts, Carry
<1> QED BY <1>2, <1>3

LEMMA OutOfInputKeeps == IInv /\ OutOfInput => IInv'
BY FailKeeps, Parts DEF OutOfInput

LEMMA SymbolGood ==
    ASSUME IInv, pc = "symbols", CanFetch(pin, val)
    PROVE  Symbol.d.v \in Nat /\ Held(AfterSymbol)
<1> DEFINE f == Fetch(pin, val)
           d == H!Decode(tlit, f.v)
<1>1. Held(f) /\ f.v \in Seq(Bits) /\ Len(f.v) \in Nat /\ Len(f.v) >= 15
    BY Fetched
<1>2. IsTable(tlit)
    BY DEF IInv, Symbolic
<1>3. Symbol.d = d /\ Symbol.f = f
    BY DEF Symbol
<1> HIDE DEF f
<1>4. d.v \in Nat /\ d.n \in 0..15
    BY <1>1, <1>2, DecodeGood
<1> HIDE DEF d
<1>5. d.n \in 0..Len(f.v)
    <2>1. \A x \in 0..15, y \in Nat : y >= 15 => x \in 0..y
        OBVIOUS
    <2> QED BY <1>1, <1>4, <2>1, Zenon
<1>6. Held([f EXCEPT !.v = Drop(@, d.n)])
    BY <1>1, <1>5, SkipHeld
<1> QED BY <1>3, <1>4, <1>6 DEF AfterSymbol

\* Within a block the tables stay.
LEMMA Symbols ==
    ASSUME IInv, pc = "symbols", UNCHANGED <<sec, uncompressed>>, Held([p |-> pin', v |-> val']),
           out' \in Seq(0..255), Len(out') <= sec.size,
           pc' \in {"stream", "block", "symbols"}, pc' = "symbols" => tlit' = tlit /\ tdist' = tdist
    PROVE  IInv'
<1>1. pc' = "symbols" => Symbolic'
    <2>1. Symbolic
        BY DEF IInv
    <2> QED BY <2>1 DEF Symbolic
<1>2. pc' \in Streaming /\ pc' # "lengths"
    BY DEF Streaming
<1> QED BY <1>1, <1>2, Parts, Carry

LEMMA LiteralKeeps == IInv /\ Literal => IInv'
<1> SUFFICES ASSUME IInv, Literal PROVE IInv'
    OBVIOUS
<1>1. pc = "symbols" /\ pc # "done" /\ pc # "generate" /\ CanFetch(pin, val) /\ Symbol.d.v < 256
    BY DEF Literal
<1>2. CASE Fail
    BY <1>1, <1>2, FailKeeps, Parts
<1>3. CASE ~Fail
    <2>1. Len(out) # sec.size /\ out' = Append(out, Symbol.d.v) /\ Read(AfterSymbol) /\ Still(<<pc, last, Tables>>)
        BY <1>3 DEF Literal
    <2>2. Symbol.d.v \in Nat /\ Held(AfterSymbol)
        BY <1>1, SymbolGood
    <2>3. Held([p |-> pin', v |-> val'])
        BY <2>1, <2>2, ReadHeld
    <2> DEFINE x == Symbol.d.v
    <2>4. x \in Nat /\ x < 256 /\ out' = Append(out, x)
        BY <1>1, <2>1, <2>2
    <2> HIDE DEF x
    <2>5. out' \in Seq(0..255) /\ Len(out') = Len(out) + 1
        <3>1. x \in 0..255 /\ out \in Seq(0..255)
            BY <1>1, <2>4, Parts
        <3>2. \A S : \A s \in Seq(S), y \in S : Append(s, y) \in Seq(S) /\ Len(Append(s, y)) = Len(s) + 1
            OBVIOUS
        <3>3. Append(out, x) \in Seq(0..255) /\ Len(Append(out, x)) = Len(out) + 1
            BY <3>1, <3>2, Zenon
        <3> QED BY <2>4, <3>3
    <2>6. Len(out') <= sec.size
        BY <1>1, <2>1, <2>5, Parts
    <2>7. sec' = sec /\ uncompressed' = uncompressed /\ pc' = pc /\ tlit' = tlit /\ tdist' = tdist
        BY <2>1 DEF Still, Tables
    <2> QED BY <1>1, <2>3, <2>5, <2>6, <2>7, Symbols
<1> QED BY <1>2, <1>3

LEMMA EndOfBlockKeeps == IInv /\ EndOfBlock => IInv'
<1> SUFFICES ASSUME IInv, EndOfBlock PROVE IInv'
    OBVIOUS
<1>1. pc = "symbols" /\ pc # "done" /\ pc # "generate" /\ CanFetch(pin, val)
    BY DEF EndOfBlock
<1>2. Read(AfterSymbol) /\ EndBlock(last) /\ Still(<<out, last, Tables>>)
    BY DEF EndOfBlock
<1>3. Held(AfterSymbol)
    BY <1>1, SymbolGood
<1>4. Held([p |-> pin', v |-> val'])
    BY <1>2, <1>3, ReadHeld
<1>5. sec' = sec /\ uncompressed' = uncompressed /\ out' = out /\ pc' \in {"stream", "block"}
    BY <1>2 DEF Still, EndBlock
<1> QED BY <1>1, <1>4, <1>5, Parts, Symbols

\* The distance and the copy.
LEMMA DistanceKeeps ==
    ASSUME IInv, pc = "symbols", NEW f0, Held(f0), NEW len \in Nat, Distance(f0, len)
    PROVE  IInv'
<1> DEFINE f == Fetch(f0.p, f0.v)
           d == H!Decode(tdist, f.v)
           v == [f EXCEPT !.v = Drop(@, d.n)]
           g == IF d.v < 4 THEN v ELSE Fetch(v.p, v.v)
           dist == DistanceOf(d.v, g.v)
           h == [g EXCEPT !.v = Drop(@, Extra(d.v, 4, 2))]
<1>1. pc # "done" /\ pc # "generate"
    OBVIOUS
<1>2. CASE Fail
    BY <1>1, <1>2, FailKeeps, Parts
<1>3. CASE ~Fail
    <2>1. /\ CanFetch(f0.p, f0.v) /\ ~(d.v > 29 \/ (d.v >= 4 /\ ~CanFetch(v.p, v.v)))
          /\ ~(Len(out) < dist \/ sec.size - Len(out) < len)
          /\ out' = Copied(out, dist, len)
          /\ Read(h)
          /\ Still(<<pc, last, Tables>>)
        BY <1>3 DEF Distance
    <2>2. IsStream
        BY <1>1, Parts
    <2>3. Held(f) /\ Len(f.v) >= 15
        <3>1. f0 = [p |-> f0.p, v |-> f0.v]
            BY DEF Held
        <3>2. Held([p |-> f0.p, v |-> f0.v])
            BY <3>1
        <3> QED BY <2>1, <2>2, <3>2, FetchHeld
    <2>4. f.v \in Seq(Bits) /\ Len(f.v) \in Nat /\ f \in [p : Nat, v : Seq(Bits)]
        BY <2>3 DEF Held
    <2> HIDE DEF f
    <2>5. d.v \in Nat /\ d.n \in 0..15
        <3>1. IsTable(tdist)
            BY DEF IInv, Symbolic
        <3> QED BY <2>4, <3>1, DecodeGood
    <2> HIDE DEF d
    <2>6. Held(v)
        <3>1. \A x \in 0..15, y \in Nat : y >= 15 => x \in 0..y
            OBVIOUS
        <3>2. d.n \in 0..Len(f.v)
            BY <2>3, <2>4, <2>5, <3>1, Zenon
        <3> QED BY <2>3, <3>2, SkipHeld
    <2> HIDE DEF v
    <2>7. d.v \in 0..29
        <3>1. ~(d.v > 29)
            BY <2>1
        <3> DEFINE x == d.v
        <3>2. x \in Nat /\ ~(x > 29)
            BY <2>5, <3>1
        <3> HIDE DEF x
        <3>3. x \in 0..29
            BY <3>2
        <3> QED BY <3>3 DEF x
    <2>8. Extra(d.v, 4, 2) \in 0..13
        BY <2>7, DistanceType
    <2>9. Held(g) /\ Extra(d.v, 4, 2) <= Len(g.v)
        <3>1. CASE d.v < 4
            <4>1. g = v /\ Extra(d.v, 4, 2) = 0
                BY <3>1 DEF Extra
            <4>2. Len(v.v) \in Nat
                BY <2>6 DEF Held
            <4> QED BY <2>6, <4>1, <4>2
        <3>2. CASE ~(d.v < 4)
            <4>1. CanFetch(v.p, v.v)
                <5>1. ~(d.v >= 4 /\ ~CanFetch(v.p, v.v))
                    BY <2>1
                <5>2. \A x \in 0..29 : ~(x < 4) => x >= 4
                    OBVIOUS
                <5>3. d.v >= 4
                    BY <2>7, <3>2, <5>2, Zenon
                <5> QED BY <5>1, <5>3, Zenon
            <4>2. v = [p |-> v.p, v |-> v.v]
                BY <2>6 DEF Held
            <4>3. Held([p |-> v.p, v |-> v.v])
                BY <2>6, <4>2
            <4>4. Held(Fetch(v.p, v.v)) /\ Len(Fetch(v.p, v.v).v) >= 15
                BY <2>2, <4>1, <4>3, FetchHeld
            <4>5. g = Fetch(v.p, v.v)
                BY <3>2
            <4> HIDE DEF g
            <4>6. Len(g.v) \in Nat
                BY <4>4, <4>5 DEF Held
            <4> QED BY <2>8, <4>4, <4>5, <4>6
        <3> QED BY <3>1, <3>2
    <2> HIDE DEF g
    <2>10. g.v \in Seq(Bits) /\ Len(g.v) \in Nat
        BY <2>9 DEF Held
    <2>11. dist \in Nat \ {0}
        BY <2>7, <2>9, <2>10, DistanceType
    <2>12. Held(h)
        <3>1. Extra(d.v, 4, 2) \in 0..Len(g.v)
            BY <2>8, <2>9, <2>10
        <3> QED BY <2>9, <3>1, SkipHeld
    <2> HIDE DEF dist, h
    <2>13. Held([p |-> pin', v |-> val'])
        BY <2>1, <2>12, ReadHeld
    <2>14. Len(out) \in Nat /\ sec.size \in Nat /\ out \in Seq(0..255)
        BY <1>1, Parts
    <2>15. dist <= Len(out) /\ Len(out) + len <= sec.size
        BY <2>1, <2>11, <2>14
    <2>16. out' \in Seq(0..255) /\ Len(out') = Len(out) + len
        BY <2>1, <2>11, <2>14, <2>15, CopiedType
    <2>17. sec' = sec /\ uncompressed' = uncompressed /\ pc' = pc /\ tlit' = tlit /\ tdist' = tdist
        BY <2>1 DEF Still, Tables
    <2>18. Len(out') <= sec.size
        BY <2>15, <2>16
    <2> QED BY <2>13, <2>16, <2>17, <2>18, Symbols
<1> QED BY <1>2, <1>3

LEMMA MatchKeeps == IInv /\ Match => IInv'
<1> SUFFICES ASSUME IInv, Match PROVE IInv'
    OBVIOUS
<1> DEFINE v == Symbol.d.v
           s == AfterSymbol
           f == IF LengthBits(v) = 0 THEN s ELSE Fetch(s.p, s.v)
           g == [f EXCEPT !.v = Drop(@, LengthBits(v))]
           len == LengthOf(v, f.v)
<1>1. pc = "symbols" /\ pc # "done" /\ pc # "generate" /\ CanFetch(pin, val) /\ v > 256
    BY DEF Match
<1>2. CASE Fail
    BY <1>1, <1>2, FailKeeps, Parts
<1>3. CASE ~Fail
    <2>1. ~(v > 285 \/ (LengthBits(v) > 0 /\ ~CanFetch(s.p, s.v))) /\ Distance(g, len)
        BY <1>3 DEF Match
    <2>2. v \in Nat /\ Held(s) /\ IsStream
        BY <1>1, SymbolGood, Parts
    <2> HIDE DEF v, s
    <2>3. v \in 257..285
        BY <1>1, <2>1, <2>2
    <2>4. LengthBits(v) \in 0..5
        BY <2>3, LengthType
    <2>5. Held(f) /\ LengthBits(v) <= Len(f.v)
        <3>1. CASE LengthBits(v) = 0
            <4>1. f = s
                BY <3>1
            <4>2. Len(s.v) \in Nat
                BY <2>2 DEF Held
            <4> QED BY <2>2, <3>1, <4>1, <4>2
        <3>2. CASE LengthBits(v) # 0
            <4>1. CanFetch(s.p, s.v)
                BY <2>1, <2>4, <3>2
            <4>2. s = [p |-> s.p, v |-> s.v]
                BY <2>2 DEF Held
            <4>3. Held([p |-> s.p, v |-> s.v])
                BY <2>2, <4>2
            <4>4. Held(Fetch(s.p, s.v)) /\ Len(Fetch(s.p, s.v).v) >= 15
                BY <2>2, <4>1, <4>3, FetchHeld
            <4>5. f = Fetch(s.p, s.v)
                BY <3>2
            <4> HIDE DEF f
            <4>6. Len(f.v) \in Nat
                BY <4>4, <4>5 DEF Held
            <4> QED BY <2>4, <4>4, <4>5, <4>6
        <3> QED BY <3>1, <3>2
    <2> HIDE DEF f
    <2>6. f.v \in Seq(Bits) /\ Len(f.v) \in Nat
        BY <2>5 DEF Held
    <2>7. Held(g)
        <3>1. LengthBits(v) \in 0..Len(f.v)
            BY <2>4, <2>5, <2>6
        <3> QED BY <2>5, <3>1, SkipHeld
    <2>8. len \in Nat
        BY <2>3, <2>5, <2>6, LengthType
    <2> HIDE DEF g, len
    <2> QED BY <1>1, <2>1, <2>7, <2>8, DistanceKeeps
<1> QED BY <1>2, <1>3

LEMMA Inductive == IInv /\ [Next]_vars => IInv'
<1> SUFFICES ASSUME IInv, [Next]_vars PROVE IInv'
    OBVIOUS
<1>1. CASE UNCHANGED vars
    <2> USE <1>1 DEF vars
    <2>1. IsSection' = IsSection /\ IsStream' = IsStream /\ Held([p |-> pin, v |-> val])' = Held([p |-> pin, v |-> val])
        BY DEF IsSection, IsStream, Held, Size
    <2>2. Sound' = Sound
        BY <2>1 DEF Sound
    <2>3. Lengthy' = Lengthy
        BY DEF Lengthy, IsTable, Closed, Plain
    <2>4. Symbolic' = Symbolic
        BY DEF Symbolic, IsTable, Closed
    <2>5. Verified' = Verified
        BY DEF Verified, Size
    <2> QED BY <2>1, <2>2, <2>3, <2>4, <2>5 DEF IInv
<1>2. CASE Uncompress
    BY <1>2, UncompressKeeps
<1>3. CASE Stream
    BY <1>3, StreamKeeps
<1>4. CASE Verify
    BY <1>4, VerifyKeeps
<1>5. CASE Block
    BY <1>5, BlockKeeps
<1>6. CASE Stored
    BY <1>6, StoredKeeps
<1>7. CASE Dynamic
    BY <1>7, DynamicKeeps
<1>8. CASE CodeLength
    BY <1>8, CodeLengthKeeps
<1>9. CASE MakeTables
    BY <1>9, MakeTablesKeeps
<1>10. CASE OutOfInput
    BY <1>10, OutOfInputKeeps
<1>11. CASE Literal
    BY <1>11, LiteralKeeps
<1>12. CASE EndOfBlock
    BY <1>12, EndOfBlockKeeps
<1>13. CASE Match
    BY <1>13, MatchKeeps
<1>14. CASE Generate
    BY <1>14, GenerateKeeps
<1>15. CASE Done
    BY <1>1, <1>15 DEF Done
<1> QED BY <1>1, <1>2, <1>3, <1>4, <1>5, <1>6, <1>7, <1>8, <1>9, <1>10, <1>11, <1>12, <1>13, <1>14, <1>15 DEF Next

\* The stream that is read, what was written and the tables in use stay
\* within their bounds, in every part of elf_zlib_inflate.
THEOREM Invariance == Spec => []IInv
<1>1. Init => IInv
    BY Initially
<1>2. IInv /\ [Next]_vars => IInv'
    BY Inductive
<1> QED BY <1>1, <1>2, PTL DEF Spec

\* Whatever the bytes of a section, nothing is written past the end of the
\* buffer for it, and at most the three bytes up to an aligned address are
\* read past its own end.
LEMMA Enough == IInv => StaysInside
<1> SUFFICES ASSUME IInv PROVE StaysInside
    OBVIOUS
<1>1. CASE IsSection
    BY <1>1 DEF IInv, Sound, Held, StaysInside
<1>2. CASE ~IsSection
    <2>1. Len(<<>>) <= 0
        OBVIOUS
    <2> QED BY <1>2, <2>1 DEF IInv, StaysInside
<1> QED BY <1>1, <1>2

THEOREM Safe == Spec => []StaysInside
BY Invariance, Enough, PTL

\* What is handed to the reader of DWARF has the size and the checksum the
\* section names.
THEOREM OnlyVerified == Spec => []Verified
<1>1. IInv => Verified
    BY DEF IInv
<1> QED BY <1>1, Invariance, PTL
=============================================================================
