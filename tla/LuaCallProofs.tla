---------------------------- MODULE LuaCallProofs ----------------------------
(* Theorems about the C stack of LuaCall, for all programs, all coroutines *)
(* and every limit.  The frames and the stacks of values do not matter:    *)
(* the proofs follow, of a thread, its count of C calls and its innermost  *)
(* protected call, and of the C stack whose each record is, what it is and *)
(* what it puts back.                                                      *)
EXTENDS LuaCall, FiniteSetTheorems, TLAPS

-----------------------------------------------------------------------------
(* Sequences whose elements need no type.                                  *)

IsSeq(s) == \E S : s \in Seq(S)

LEMMA SeqParts ==
    ASSUME NEW s, IsSeq(s)
    PROVE  Len(s) \in Nat /\ DOMAIN s = 1..Len(s)
BY DEF IsSeq

LEMMA AppendIs ==
    ASSUME NEW s, IsSeq(s), NEW x
    PROVE  /\ IsSeq(Append(s, x)) /\ Len(Append(s, x)) = Len(s) + 1
           /\ DOMAIN Append(s, x) = 1..(Len(s) + 1)
           /\ \A i \in 1..Len(s) : Append(s, x)[i] = s[i]
           /\ Append(s, x)[Len(s) + 1] = x
<1>1. PICK S : s \in Seq(S)
    BY DEF IsSeq
<1>2. s \in Seq(S \cup {x}) /\ x \in S \cup {x}
    BY <1>1
<1>3. Append(s, x) \in Seq(S \cup {x})
    BY <1>2
<1> QED BY <1>2, <1>3 DEF IsSeq

LEMMA UpdateIs ==
    ASSUME NEW s, IsSeq(s), NEW n \in 1..Len(s), NEW x
    PROVE  LET t == [s EXCEPT ![n] = x] IN
           /\ IsSeq(t) /\ Len(t) = Len(s) /\ DOMAIN t = 1..Len(s)
           /\ t[n] = x /\ \A i \in 1..Len(s) : i # n => t[i] = s[i]
<1> DEFINE t == [s EXCEPT ![n] = x]
<1>1. PICK S : s \in Seq(S)
    BY DEF IsSeq
<1>2. s \in Seq(S \cup {x}) /\ x \in S \cup {x}
    BY <1>1
<1>3. t \in Seq(S \cup {x})
    BY <1>2
<1> QED BY <1>2, <1>3 DEF IsSeq

LEMMA CutIs ==
    ASSUME NEW s, IsSeq(s), NEW k \in 0..Len(s)
    PROVE  LET t == SubSeq(s, 1, k) IN
           IsSeq(t) /\ Len(t) = k /\ DOMAIN t = 1..k /\ \A i \in 1..k : t[i] = s[i]
<1>1. PICK S : s \in Seq(S)
    BY DEF IsSeq
<1>2. SubSeq(s, 1, k) \in Seq(S)
    BY <1>1
<1> QED BY <1>1, <1>2 DEF IsSeq

LEMMA ConcatIs ==
    ASSUME NEW s, IsSeq(s), NEW a, NEW b, NEW c
    PROVE  /\ s \o <<>> = s
           /\ s \o <<a>> = Append(s, a)
           /\ s \o <<a, b>> = Append(Append(s, a), b)
           /\ s \o <<a, b, c>> = Append(Append(Append(s, a), b), c)
<1>1. PICK S : s \in Seq(S)
    BY DEF IsSeq
<1> DEFINE T == S \cup {a, b, c}
<1>2. s \in Seq(T) /\ a \in T /\ b \in T /\ c \in T
    BY <1>1
<1> HIDE DEF T
<1>3. s \o <<>> = s /\ s \o <<a>> = Append(s, a)
    BY <1>2
<1>4. s \o <<a, b>> = Append(Append(s, a), b)
    BY <1>2
<1>5. s \o <<a, b, c>> = Append(Append(Append(s, a), b), c)
    BY <1>2
<1> QED BY <1>3, <1>4, <1>5

-----------------------------------------------------------------------------
(* The invariant.                                                          *)

\* A call to luaD_rawrunprotected, which an error comes back to; a call of C
\* that has been entered; what a thread counts.
IsTry(c) == c.at \in {"trying", "caught"}
Enters(c) == "noyield" \in DOMAIN c /\ c.at # "call"
Counted(c) == c.at = "resumed" \/ Enters(c)
Entered(CC) == {i \in 1..Len(CC) : Enters(CC[i])}
CountedTo(CC, i) == {j \in 1..i : Counted(CC[j])}
Count(CC, i) == Cardinality(CountedTo(CC, i))
Tries(CC, t) == {i \in 1..Len(CC) : IsTry(CC[i]) /\ CC[i].th = t}

\* What there is of a thread, and of a record.
IsThread(s) == "nc" \in DOMAIN s /\ "jmp" \in DOMAIN s /\ s.nc \in Int /\ s.jmp \in Nat
AreThreads(LL) == DOMAIN LL = Threads /\ \A t \in Threads : IsThread(LL[t])
IsRecord(c) ==
  /\ "at" \in DOMAIN c /\ "th" \in DOMAIN c /\ c.th \in Threads
  /\ c.at \in {"call", "called"} => "noyield" \in DOMAIN c
  /\ IsTry(c) => "prev" \in DOMAIN c /\ "oldnc" \in DOMAIN c /\ c.prev \in Nat /\ c.oldnc \in Int

\* A call that has not been entered is on top.
Records(CC) == \A i \in 1..Len(CC) : IsRecord(CC[i]) /\ (CC[i].at = "call" => i = Len(CC))
\* Another thread comes after its resume, which is protected.
Segments(CC) ==
  /\ \A i, j \in 1..Len(CC) : i < j /\ CC[i].th # CC[j].th =>
       \E m \in (i + 1)..j : CC[m].at = "resumed" /\ CC[m].th = CC[j].th
  /\ \A m \in 1..Len(CC) : CC[m].at = "resumed" /\ m < Len(CC) => IsTry(CC[m + 1]) /\ CC[m + 1].th = CC[m].th
\* i is the last of the places, or 0.
Innermost(places, i) == (i = 0 \/ i \in places) /\ \A j \in places : j <= i
Jumps(LL, CC) ==
  /\ \A t \in Threads : Innermost(Tries(CC, t), LL[t].jmp)
  /\ \A i \in 1..Len(CC) : IsTry(CC[i]) => Innermost({j \in Tries(CC, CC[i].th) : j < i}, CC[i].prev)
\* A thread counts all that is below it.
Counts(LL, CC) ==
  /\ \A i \in 1..Len(CC) : Count(CC, i) <= LL[CC[i].th].nc
  /\ \A i \in 1..Len(CC) : IsTry(CC[i]) => Count(CC, i) <= CC[i].oldnc
\* The program is run by a protected call.
Base(CC) ==
  /\ Len(CC) >= 1 => CC[1].at = "protected" /\ CC[1].th = Main
  /\ Len(CC) >= 2 => IsTry(CC[2]) /\ CC[2].th = Main
Most == MaxCCalls + MaxCCalls \div 8
Bounded(CC) == Cardinality(Entered(CC)) <= Most - 1

Good(LL, CC) ==
  /\ IsSeq(CC) /\ AreThreads(LL) /\ Base(CC)
  /\ Records(CC) /\ Segments(CC) /\ Jumps(LL, CC) /\ Counts(LL, CC) /\ Bounded(CC)
IInv == Good(L, C)

LEMMA MostIs == Most \in Nat /\ MaxCCalls \in Nat /\ MaxCCalls <= Most - 1
BY MaxCCallsAssumption DEF Most

-----------------------------------------------------------------------------
(* Counting.                                                               *)

LEMMA CountType ==
    ASSUME NEW CC, NEW i \in Int
    PROVE  IsFiniteSet(CountedTo(CC, i)) /\ Count(CC, i) \in Nat
<1>1. IsFiniteSet(1..i)
    BY FS_Interval
<1>2. CountedTo(CC, i) \in SUBSET (1..i)
    BY DEF CountedTo
<1>3. IsFiniteSet(CountedTo(CC, i))
    BY <1>1, <1>2, FS_Subset
<1> QED BY <1>3, FS_CardinalityType DEF Count

LEMMA CountSame ==
    ASSUME NEW CC, NEW DD, NEW n \in Int, \A j \in 1..n : Counted(CC[j]) <=> Counted(DD[j])
    PROVE  \A i \in 1..n : Count(DD, i) = Count(CC, i)
<1> SUFFICES ASSUME NEW i \in 1..n PROVE Count(DD, i) = Count(CC, i)
    OBVIOUS
<1>1. \A j \in 1..i : j \in 1..n
    OBVIOUS
<1>2. CountedTo(CC, i) = CountedTo(DD, i)
    BY <1>1 DEF CountedTo
<1> QED BY <1>2 DEF Count

LEMMA CountGrows ==
    ASSUME NEW CC, NEW i \in Int, NEW j \in Int, i <= j
    PROVE  Count(CC, i) <= Count(CC, j)
<1>1. CountedTo(CC, i) \in SUBSET CountedTo(CC, j)
    BY DEF CountedTo
<1> QED BY <1>1, CountType, FS_Subset DEF Count

LEMMA CountLast ==
    ASSUME NEW CC, NEW n \in Int, n >= 1
    PROVE  Count(CC, n) = IF Counted(CC[n]) THEN Count(CC, n - 1) + 1 ELSE Count(CC, n - 1)
<1>1. IsFiniteSet(CountedTo(CC, n - 1)) /\ n \notin CountedTo(CC, n - 1)
    <2>1. n - 1 \in Int /\ n \notin 1..(n - 1)
        OBVIOUS
    <2> QED BY <2>1, CountType DEF CountedTo
<1>2. CASE Counted(CC[n])
    <2>1. CountedTo(CC, n) = CountedTo(CC, n - 1) \cup {n}
        BY <1>2 DEF CountedTo
    <2> QED BY <1>1, <1>2, <2>1, FS_AddElement DEF Count
<1>3. CASE ~Counted(CC[n])
    <2>1. CountedTo(CC, n) = CountedTo(CC, n - 1)
        BY <1>3 DEF CountedTo
    <2> QED BY <1>3, <2>1 DEF Count
<1> QED BY <1>2, <1>3

LEMMA EnteredFinite ==
    ASSUME NEW CC, IsSeq(CC)
    PROVE  IsFiniteSet(Entered(CC)) /\ Cardinality(Entered(CC)) \in Nat
           /\ Cardinality(Entered(CC)) <= Count(CC, Len(CC))
<1>1. Len(CC) \in Nat
    BY SeqParts
<1>2. Entered(CC) \in SUBSET CountedTo(CC, Len(CC))
    BY DEF Entered, CountedTo, Counted
<1> QED BY <1>1, <1>2, CountType, FS_Subset, FS_CardinalityType DEF Count

LEMMA BoundedLess ==
    ASSUME NEW CC, NEW DD, IsSeq(CC), Entered(DD) \subseteq Entered(CC), Bounded(CC)
    PROVE  Bounded(DD)
<1>1. Cardinality(Entered(DD)) <= Cardinality(Entered(CC)) /\ Cardinality(Entered(DD)) \in Nat
    BY EnteredFinite, FS_Subset, FS_CardinalityType
<1>2. Cardinality(Entered(CC)) \in Nat
    BY EnteredFinite
<1> QED BY <1>1, <1>2, MostIs DEF Bounded

-----------------------------------------------------------------------------
(* What may be done to the threads and to the C stack.                     *)

\* A thread gets another count.
LEMMA Recount ==
    ASSUME NEW LL, NEW CC, Good(LL, CC), NEW t \in Threads, NEW s, IsThread(s), s.jmp = LL[t].jmp,
           \A i \in 1..Len(CC) : CC[i].th = t => Count(CC, i) <= s.nc
    PROVE  Good([LL EXCEPT ![t] = s], CC)
<1> DEFINE MM == [LL EXCEPT ![t] = s]
<1>1. DOMAIN MM = Threads /\ \A u \in Threads : MM[u] = IF u = t THEN s ELSE LL[u]
    BY DEF Good, AreThreads
<1> HIDE DEF MM
<1>2. AreThreads(MM)
    BY <1>1 DEF Good, AreThreads
<1>3. \A u \in Threads : MM[u].jmp = LL[u].jmp
    BY <1>1
<1>4. Jumps(MM, CC)
    BY <1>3 DEF Good, Jumps
<1>5. \A i \in 1..Len(CC) : CC[i].th \in Threads
    BY DEF Good, Records, IsRecord
<1>6. Counts(MM, CC)
    BY <1>1, <1>5 DEF Good, Counts
<1> QED BY <1>2, <1>4, <1>6 DEF Good, MM

LEMMA ThreadKeeps ==
    ASSUME NEW LL, NEW CC, Good(LL, CC), NEW t \in Threads, NEW s, IsThread(s), s.jmp = LL[t].jmp,
           s.nc >= LL[t].nc
    PROVE  Good([LL EXCEPT ![t] = s], CC)
<1>1. \A i \in 1..Len(CC) : CC[i].th = t => Count(CC, i) <= s.nc
    <2> TAKE i \in 1..Len(CC)
    <2>1. Len(CC) \in Nat /\ i \in Int
        BY SeqParts DEF Good
    <2>2. Count(CC, i) \in Nat
        BY <2>1, CountType
    <2>3. Count(CC, i) <= LL[CC[i].th].nc
        BY DEF Good, Counts
    <2>4. LL[t].nc \in Int /\ s.nc \in Int
        BY DEF Good, AreThreads, IsThread
    <2> QED BY <2>2, <2>3, <2>4
<1> QED BY <1>1, Recount

\* Records of the same kind.
Alike(c, x) ==
  /\ x.th = c.th /\ (IsTry(x) <=> IsTry(c)) /\ (IsTry(c) => x.prev = c.prev /\ x.oldnc = c.oldnc)
  /\ (x.at = "resumed" <=> c.at = "resumed") /\ (c.at = "protected" => x.at = "protected")

LEMMA ShapeKept ==
    ASSUME NEW LL, NEW CC, Good(LL, CC), NEW DD, IsSeq(DD), Len(DD) = Len(CC),
           \A i \in 1..Len(CC) : Alike(CC[i], DD[i])
    PROVE  Base(DD) /\ Segments(DD) /\ Jumps(LL, DD)
<1>0. Len(CC) \in Nat /\ \A i \in 1..Len(CC) : CC[i].th \in Threads
    BY SeqParts DEF Good, Records, IsRecord
<1>1. \A i \in 1..Len(CC) : /\ DD[i].th = CC[i].th /\ (IsTry(DD[i]) <=> IsTry(CC[i]))
                            /\ (DD[i].at = "resumed" <=> CC[i].at = "resumed")
    BY DEF Alike
<1>2. Base(DD)
    <2>1. ASSUME Len(CC) >= 1 PROVE DD[1].at = "protected" /\ DD[1].th = Main
        <3>1. 1 \in 1..Len(CC)
            BY <1>0, <2>1
        <3> QED BY <2>1, <3>1 DEF Good, Base, Alike
    <2>2. ASSUME Len(CC) >= 2 PROVE IsTry(DD[2]) /\ DD[2].th = Main
        <3>1. 2 \in 1..Len(CC)
            BY <1>0, <2>2
        <3> QED BY <1>1, <2>2, <3>1 DEF Good, Base
    <2> QED BY <2>1, <2>2 DEF Base
<1>3. Segments(DD)
    <2>1. ASSUME NEW i \in 1..Len(CC), NEW j \in 1..Len(CC), i < j, DD[i].th # DD[j].th
          PROVE  \E m \in (i + 1)..j : DD[m].at = "resumed" /\ DD[m].th = DD[j].th
        <3>1. PICK m \in (i + 1)..j : CC[m].at = "resumed" /\ CC[m].th = CC[j].th
            BY <1>1, <2>1 DEF Good, Segments
        <3>2. m \in 1..Len(CC)
            BY <1>0
        <3> QED BY <1>1, <3>1, <3>2
    <2>2. ASSUME NEW m \in 1..Len(CC), DD[m].at = "resumed", m < Len(CC)
          PROVE  IsTry(DD[m + 1]) /\ DD[m + 1].th = DD[m].th
        <3>1. m + 1 \in 1..Len(CC)
            BY <1>0, <2>2
        <3> QED BY <1>1, <2>2, <3>1 DEF Good, Segments
    <2> QED BY <2>1, <2>2 DEF Segments
<1>4. \A t : Tries(DD, t) = Tries(CC, t)
    BY <1>1 DEF Tries
<1>5. Jumps(LL, DD)
    <2>1. \A t \in Threads : Innermost(Tries(DD, t), LL[t].jmp)
        BY <1>4 DEF Good, Jumps
    <2>2. ASSUME NEW i \in 1..Len(CC), IsTry(DD[i])
          PROVE  Innermost({j \in Tries(DD, DD[i].th) : j < i}, DD[i].prev)
        <3>1. DD[i].prev = CC[i].prev /\ DD[i].th = CC[i].th /\ IsTry(CC[i])
            BY <2>2 DEF Alike
        <3>2. Tries(DD, DD[i].th) = Tries(CC, CC[i].th)
            BY <1>4, <3>1
        <3>3. Innermost({j \in Tries(CC, CC[i].th) : j < i}, CC[i].prev)
            BY <3>1 DEF Good, Jumps
        <3> QED BY <3>1, <3>2, <3>3
    <2> QED BY <2>1, <2>2 DEF Jumps
<1> QED BY <1>2, <1>3, <1>5

LEMMA CountLess ==
    ASSUME NEW CC, NEW DD, NEW n \in Int, \A j \in 1..n : Counted(DD[j]) => Counted(CC[j])
    PROVE  \A i \in 1..n : Count(DD, i) <= Count(CC, i) /\ Count(DD, i) \in Nat /\ Count(CC, i) \in Nat
<1> SUFFICES ASSUME NEW i \in 1..n
             PROVE  Count(DD, i) <= Count(CC, i) /\ Count(DD, i) \in Nat /\ Count(CC, i) \in Nat
    OBVIOUS
<1>1. \A j \in 1..i : j \in 1..n
    OBVIOUS
<1>2. CountedTo(DD, i) \in SUBSET CountedTo(CC, i)
    BY <1>1 DEF CountedTo
<1> QED BY <1>2, CountType, FS_Subset DEF Count

\* The record on top, or the one an error comes back to, changes.
LEMMA Relabel ==
    ASSUME NEW LL, NEW CC, Good(LL, CC), NEW n \in 1..Len(CC), NEW x,
           IsRecord(x), x.at # "call", Alike(CC[n], x), Enters(x) => Enters(CC[n])
    PROVE  Good(LL, [CC EXCEPT ![n] = x])
<1> DEFINE DD == [CC EXCEPT ![n] = x]
<1>1. /\ IsSeq(DD) /\ Len(DD) = Len(CC) /\ DD[n] = x /\ Len(CC) \in Nat
      /\ \A i \in 1..Len(CC) : i # n => DD[i] = CC[i]
    BY UpdateIs, SeqParts DEF Good
<1> HIDE DEF DD
<1>2. \A i \in 1..Len(CC) : Alike(CC[i], DD[i])
    BY <1>1 DEF Alike
<1>3. Base(DD) /\ Segments(DD) /\ Jumps(LL, DD)
    BY <1>1, <1>2, ShapeKept
<1>4. Records(DD)
    BY <1>1 DEF Good, Records
<1>5. \A i \in 1..Len(CC) : Enters(DD[i]) => Enters(CC[i])
    BY <1>1
<1>6. \A i \in 1..Len(CC) : Counted(DD[i]) => Counted(CC[i])
    BY <1>2, <1>5 DEF Counted, Alike
<1>7. \A i \in 1..Len(CC) : Count(DD, i) <= Count(CC, i) /\ Count(DD, i) \in Nat /\ Count(CC, i) \in Nat
    <2> DEFINE m == Len(CC)
    <2>1. m \in Int /\ \A i \in 1..m : Counted(DD[i]) => Counted(CC[i])
        BY <1>1, <1>6
    <2> HIDE DEF m
    <2>2. \A i \in 1..m : Count(DD, i) <= Count(CC, i) /\ Count(DD, i) \in Nat /\ Count(CC, i) \in Nat
        BY <2>1, CountLess
    <2> QED BY <2>2 DEF m
<1>8. Counts(LL, DD)
    <2>1. ASSUME NEW i \in 1..Len(CC) PROVE Count(DD, i) <= LL[DD[i].th].nc
        <3>1. Count(CC, i) <= LL[CC[i].th].nc /\ LL[CC[i].th].nc \in Int /\ DD[i].th = CC[i].th
            BY <1>2 DEF Good, Counts, Records, IsRecord, AreThreads, IsThread, Alike
        <3> QED BY <1>7, <3>1
    <2>2. ASSUME NEW i \in 1..Len(CC), IsTry(DD[i]) PROVE Count(DD, i) <= DD[i].oldnc
        <3>1. IsTry(CC[i]) /\ DD[i].oldnc = CC[i].oldnc
            BY <1>2, <2>2 DEF Alike
        <3>2. Count(CC, i) <= CC[i].oldnc /\ CC[i].oldnc \in Int
            BY <3>1 DEF Good, Counts, Records, IsRecord
        <3> QED BY <1>7, <3>1, <3>2
    <2> QED BY <1>1, <2>1, <2>2 DEF Counts
<1>9. Bounded(DD)
    <2>1. Entered(DD) \subseteq Entered(CC)
        BY <1>1, <1>5 DEF Entered
    <2> QED BY <2>1, BoundedLess DEF Good
<1> QED BY <1>1, <1>3, <1>4, <1>8, <1>9 DEF Good, DD

\* A call is entered, or its overflow reported.
LEMMA EnterCall ==
    ASSUME NEW LL, NEW CC, Good(LL, CC), NEW n \in 1..Len(CC), Len(CC) <= n, CC[n].at = "call", NEW x,
           IsRecord(x), x.at # "call", x.at # "resumed", ~IsTry(x), x.th = CC[n].th,
           NEW s, IsThread(s), s.jmp = LL[x.th].jmp, s.nc = LL[x.th].nc + 1, s.nc <= Most - 1
    PROVE  Good([LL EXCEPT ![x.th] = s], [CC EXCEPT ![n] = x])
<1> DEFINE t == x.th
           DD == [CC EXCEPT ![n] = x]
           MM == [LL EXCEPT ![t] = s]
<1>0. n \in Nat /\ n \in 1..Len(CC) /\ t \in Threads /\ n = Len(CC)
    BY SeqParts DEF Good, Records, IsRecord
<1>1. /\ IsSeq(DD) /\ Len(DD) = n /\ DD[n] = x
      /\ \A i \in 1..n : i # n => DD[i] = CC[i]
    <2>1. IsSeq(CC)
        BY DEF Good
    <2>2. n \in 1..Len(CC)
        BY <1>0
    <2>3. /\ IsSeq(DD) /\ Len(DD) = Len(CC) /\ DD[n] = x
          /\ \A i \in 1..Len(CC) : i # n => DD[i] = CC[i]
        BY <2>1, <2>2, UpdateIs
    <2> QED BY <1>0, <2>3
<1>2. DOMAIN MM = Threads /\ \A u \in Threads : MM[u] = IF u = t THEN s ELSE LL[u]
    BY <1>0 DEF Good, AreThreads
<1> HIDE DEF DD, MM
<1>3. \A i \in 1..n : Alike(CC[i], DD[i])
    BY <1>0, <1>1 DEF Alike, IsTry
<1>4. Base(DD) /\ Segments(DD) /\ Jumps(LL, DD)
    BY <1>0, <1>1, <1>3, ShapeKept
<1>5. Jumps(MM, DD)
    <2>1. \A u \in Threads : MM[u].jmp = LL[u].jmp
        BY <1>2
    <2> QED BY <1>4, <2>1 DEF Jumps
<1>6. AreThreads(MM)
    BY <1>2 DEF Good, AreThreads
<1>7. Records(DD)
    BY <1>0, <1>1 DEF Good, Records
<1>8. \A i \in 1..(n - 1) : Count(DD, i) = Count(CC, i)
    <2> DEFINE m == n - 1
    <2>1. m \in Int /\ \A i \in 1..m : Counted(CC[i]) <=> Counted(DD[i])
        BY <1>0, <1>1
    <2> HIDE DEF m
    <2>2. \A i \in 1..m : Count(DD, i) = Count(CC, i)
        BY <2>1, CountSame
    <2> QED BY <2>2 DEF m
<1>9. Count(DD, n) <= Count(CC, n) + 1
    <2>1. \A j \in 1..(n - 1) : Counted(CC[j]) <=> Counted(DD[j])
        BY <1>0, <1>1
    <2>2. CountedTo(CC, n - 1) = CountedTo(DD, n - 1)
        BY <2>1 DEF CountedTo
    <2>3. Count(DD, n - 1) = Count(CC, n - 1)
        BY <2>2 DEF Count
    <2>4. Count(DD, n) <= Count(DD, n - 1) + 1
        BY <1>0, CountLast, CountType
    <2>5. Count(CC, n - 1) <= Count(CC, n)
        BY <1>0, CountGrows
    <2>6. Count(CC, n) \in Nat /\ Count(CC, n - 1) \in Nat /\ Count(DD, n) \in Nat
        BY <1>0, CountType
    <2> QED BY <2>3, <2>4, <2>5, <2>6
<1>10. Count(CC, n) <= LL[t].nc /\ Count(CC, n) \in Nat /\ Count(DD, n) \in Nat /\ LL[t].nc \in Int
    BY <1>0, CountType DEF Good, Counts, AreThreads, IsThread
<1>11. Counts(MM, DD)
    <2>1. ASSUME NEW i \in 1..n PROVE Count(DD, i) <= MM[DD[i].th].nc
        <3>1. CASE i = n
            BY <1>0, <1>1, <1>2, <1>9, <1>10, <3>1
        <3>2. CASE i # n
            <4>1. i \in 1..(n - 1) /\ DD[i] = CC[i] /\ CC[i].th \in Threads
                BY <1>0, <1>1, <3>2 DEF Good, Records, IsRecord
            <4>2. Count(DD, i) = Count(CC, i) /\ Count(CC, i) <= LL[CC[i].th].nc /\ Count(CC, i) \in Nat
                BY <1>0, <1>8, <4>1, CountType DEF Good, Counts
            <4>3. LL[CC[i].th].nc \in Int
                BY <4>1 DEF Good, AreThreads, IsThread
            <4>4. MM[CC[i].th].nc = LL[CC[i].th].nc \/ MM[CC[i].th].nc = LL[CC[i].th].nc + 1
                BY <1>2, <4>1
            <4> QED BY <4>1, <4>2, <4>3, <4>4
        <3> QED BY <3>1, <3>2
    <2>2. ASSUME NEW i \in 1..n, IsTry(DD[i]) PROVE Count(DD, i) <= DD[i].oldnc
        <3>1. i # n
            BY <1>1, <2>2
        <3>2. i \in 1..(n - 1) /\ DD[i] = CC[i]
            BY <1>0, <1>1, <3>1
        <3> QED BY <1>0, <1>8, <2>2, <3>2 DEF Good, Counts
    <2> QED BY <1>1, <2>1, <2>2 DEF Counts
<1>12. Bounded(DD)
    <2>1. Cardinality(Entered(DD)) <= Count(DD, n) /\ Cardinality(Entered(DD)) \in Nat
        BY <1>1, EnteredFinite
    <2>2. s.nc \in Int
        BY DEF IsThread
    <2> QED BY <1>9, <1>10, <2>1, <2>2, MostIs DEF Bounded
<1> QED BY <1>1, <1>4, <1>5, <1>6, <1>7, <1>11, <1>12 DEF Good, MM, DD

\* What a record that is pushed does not disturb.
LEMMA PushShape ==
    ASSUME NEW LL, NEW CC, Good(LL, CC), NEW n \in Nat, Len(CC) = n, n >= 2, CC[n].at # "call",
           NEW r, IsRecord(r), r.th = CC[n].th \/ r.at = "resumed",
           CC[n].at = "resumed" => IsTry(r) /\ r.th = CC[n].th
    PROVE  LET DD == Append(CC, r) IN
           /\ IsSeq(DD) /\ Len(DD) = n + 1 /\ DD[n + 1] = r /\ \A i \in 1..n : DD[i] = CC[i]
           /\ Base(DD) /\ Records(DD) /\ Segments(DD)
<1> DEFINE DD == Append(CC, r)
<1>1. IsSeq(DD) /\ Len(DD) = n + 1 /\ DD[n + 1] = r /\ \A i \in 1..n : DD[i] = CC[i]
    BY AppendIs DEF Good
<1> HIDE DEF DD
<1>2. 1 \in 1..n /\ 2 \in 1..n /\ n \in 1..n /\ \A i \in 1..(n + 1) : i = n + 1 \/ i \in 1..n
    OBVIOUS
<1>3. Base(DD)
    BY <1>1, <1>2 DEF Good, Base
<1>4. Records(DD)
    <2>1. ASSUME NEW i \in 1..(n + 1) PROVE IsRecord(DD[i]) /\ (DD[i].at = "call" => i = n + 1)
        <3>1. CASE i = n + 1
            BY <1>1, <3>1
        <3>2. CASE i \in 1..n
            BY <1>1, <3>2 DEF Good, Records
        <3> QED BY <1>2, <3>1, <3>2
    <2> QED BY <1>1, <2>1 DEF Records
<1>5. Segments(DD)
    <2>1. ASSUME NEW i \in 1..(n + 1), NEW j \in 1..(n + 1), i < j, DD[i].th # DD[j].th
          PROVE  \E m \in (i + 1)..j : DD[m].at = "resumed" /\ DD[m].th = DD[j].th
        <3>1. i \in 1..n
            BY <2>1
        <3>2. CASE j \in 1..n
            <4>1. PICK m \in (i + 1)..j : CC[m].at = "resumed" /\ CC[m].th = CC[j].th
                BY <1>1, <2>1, <3>1, <3>2 DEF Good, Segments
            <4>2. m \in 1..n
                BY <3>2
            <4> QED BY <1>1, <3>2, <4>1, <4>2
        <3>3. CASE j = n + 1 /\ r.at = "resumed"
            <4>1. j \in (i + 1)..j
                BY <2>1
            <4> QED BY <1>1, <3>3, <4>1
        <3>4. CASE j = n + 1 /\ r.th = CC[n].th
            <4>1. i # n /\ CC[i].th # CC[n].th
                BY <1>1, <1>2, <2>1, <3>1, <3>4
            <4>2. i < n
                BY <3>1, <4>1
            <4>3. PICK m \in (i + 1)..n : CC[m].at = "resumed" /\ CC[m].th = CC[n].th
                BY <1>2, <3>1, <4>1, <4>2 DEF Good, Segments
            <4>4. m \in 1..n /\ m \in (i + 1)..j
                BY <3>4, <4>2
            <4> QED BY <1>1, <3>4, <4>3, <4>4
        <3> QED BY <1>2, <3>2, <3>3, <3>4
    <2>2. ASSUME NEW m \in 1..(n + 1), DD[m].at = "resumed", m < n + 1
          PROVE  IsTry(DD[m + 1]) /\ DD[m + 1].th = DD[m].th
        <3>1. m \in 1..n
            BY <2>2
        <3>2. CASE m = n
            BY <1>1, <1>2, <2>2, <3>2
        <3>3. CASE m # n
            <4>1. m < n /\ m + 1 \in 1..n
                BY <3>1, <3>3
            <4> QED BY <1>1, <2>2, <3>1, <4>1 DEF Good, Segments
        <3> QED BY <3>2, <3>3
    <2> QED BY <1>1, <2>1, <2>2 DEF Segments
<1> QED BY <1>1, <1>3, <1>4, <1>5 DEF DD

LEMMA PushCount ==
    ASSUME NEW CC, NEW DD, NEW n \in Nat, \A i \in 1..n : DD[i] = CC[i]
    PROVE  /\ \A i \in 1..n : Count(DD, i) = Count(CC, i)
           /\ Count(DD, n + 1) = IF Counted(DD[n + 1]) THEN Count(CC, n) + 1 ELSE Count(CC, n)
<1>1. \A i \in 1..n : Counted(CC[i]) <=> Counted(DD[i])
    OBVIOUS
<1>2. \A i \in 1..n : Count(DD, i) = Count(CC, i)
    BY <1>1, CountSame
<1>3. CountedTo(CC, n) = CountedTo(DD, n)
    BY <1>1 DEF CountedTo
<1>4. Count(DD, n) = Count(CC, n)
    BY <1>3 DEF Count
<1> DEFINE k == n + 1
<1>5. k \in Int /\ k >= 1 /\ k - 1 = n
    OBVIOUS
<1> HIDE DEF k
<1>6. Count(DD, k) = IF Counted(DD[k]) THEN Count(DD, n) + 1 ELSE Count(DD, n)
    BY <1>5, CountLast
<1> QED BY <1>2, <1>4, <1>6 DEF k

LEMMA PushBounded ==
    ASSUME NEW CC, NEW DD, IsSeq(CC), NEW n \in Nat, Len(CC) = n, Len(DD) = n + 1,
           \A i \in 1..n : DD[i] = CC[i], ~Enters(DD[n + 1]), Bounded(CC)
    PROVE  Bounded(DD)
<1>1. Entered(DD) \subseteq Entered(CC)
    <2>1. \A i \in 1..(n + 1) : i = n + 1 \/ i \in 1..n
        OBVIOUS
    <2> QED BY <2>1 DEF Entered
<1> QED BY <1>1, BoundedLess

\* A function of C is called.
LEMMA Push ==
    ASSUME NEW LL, NEW CC, Good(LL, CC), NEW n \in Nat, Len(CC) = n, n >= 2,
           CC[n].at # "call", CC[n].at # "resumed",
           NEW r, IsRecord(r), r.th = CC[n].th, ~IsTry(r), ~Counted(r)
    PROVE  Good(LL, Append(CC, r))
<1> DEFINE DD == Append(CC, r)
<1>1. /\ IsSeq(DD) /\ Len(DD) = n + 1 /\ DD[n + 1] = r /\ \A i \in 1..n : DD[i] = CC[i]
      /\ Base(DD) /\ Records(DD) /\ Segments(DD)
    BY PushShape
<1> HIDE DEF DD
<1>2. n \in 1..n /\ \A i \in 1..(n + 1) : i = n + 1 \/ i \in 1..n
    OBVIOUS
<1>3. \A t : Tries(DD, t) = Tries(CC, t)
    BY <1>1, <1>2 DEF Tries
<1>4. Jumps(LL, DD)
    <2>1. ASSUME NEW i \in 1..(n + 1), IsTry(DD[i]) PROVE i \in 1..n /\ DD[i] = CC[i]
        BY <1>1, <1>2, <2>1
    <2> QED BY <1>1, <1>3, <2>1 DEF Good, Jumps
<1>5. Count(DD, n + 1) = Count(CC, n) /\ \A i \in 1..n : Count(DD, i) = Count(CC, i)
    BY <1>1, PushCount
<1>6. Counts(LL, DD)
    <2>1. ASSUME NEW i \in 1..(n + 1) PROVE Count(DD, i) <= LL[DD[i].th].nc
        <3>1. CASE i = n + 1
            BY <1>1, <1>2, <1>5, <3>1 DEF Good, Counts
        <3>2. CASE i \in 1..n
            BY <1>1, <1>5, <3>2 DEF Good, Counts
        <3> QED BY <1>2, <3>1, <3>2
    <2>2. ASSUME NEW i \in 1..(n + 1), IsTry(DD[i]) PROVE Count(DD, i) <= DD[i].oldnc
        <3>1. i \in 1..n
            BY <1>1, <1>2, <2>2
        <3> QED BY <1>1, <1>5, <2>2, <3>1 DEF Good, Counts
    <2> QED BY <1>1, <2>1, <2>2 DEF Counts
<1>7. Bounded(DD)
    BY <1>1, PushBounded DEF Good, Counted
<1> QED BY <1>1, <1>4, <1>6, <1>7 DEF Good, DD

\* A protected call begins.
LEMMA PushTry ==
    ASSUME NEW LL, NEW CC, Good(LL, CC), NEW n \in Nat, Len(CC) = n, n >= 2, CC[n].at # "call",
           NEW r, IsRecord(r), r.th = CC[n].th, IsTry(r), ~Counted(r),
           r.prev = LL[r.th].jmp, r.oldnc = LL[r.th].nc,
           NEW s, IsThread(s), s.jmp = n + 1, s.nc = LL[r.th].nc
    PROVE  Good([LL EXCEPT ![r.th] = s], Append(CC, r))
<1> DEFINE DD == Append(CC, r)
           t == r.th
           MM == [LL EXCEPT ![t] = s]
<1>0. t \in Threads
    BY DEF IsRecord
<1>1. /\ IsSeq(DD) /\ Len(DD) = n + 1 /\ DD[n + 1] = r /\ \A i \in 1..n : DD[i] = CC[i]
      /\ Base(DD) /\ Records(DD) /\ Segments(DD)
    BY PushShape
<1>2. DOMAIN MM = Threads /\ \A u \in Threads : MM[u] = IF u = t THEN s ELSE LL[u]
    BY <1>0 DEF Good, AreThreads
<1> HIDE DEF DD, MM
<1>3. n \in 1..n /\ \A i \in 1..(n + 1) : i = n + 1 \/ i \in 1..n
    OBVIOUS
<1>4. AreThreads(MM)
    BY <1>2 DEF Good, AreThreads
<1>5. \A u : Tries(DD, u) = IF u = t THEN Tries(CC, u) \cup {n + 1} ELSE Tries(CC, u)
    BY <1>1, <1>3 DEF Tries
<1>6. \A u : Tries(CC, u) \subseteq 1..n
    BY DEF Tries
<1>7. Jumps(MM, DD)
    <2>1. ASSUME NEW u \in Threads PROVE Innermost(Tries(DD, u), MM[u].jmp)
        <3>1. CASE u = t
            BY <1>2, <1>5, <1>6, <3>1 DEF Innermost
        <3>2. CASE u # t
            BY <1>2, <1>5, <3>2 DEF Good, Jumps
        <3> QED BY <3>1, <3>2
    <2>2. ASSUME NEW i \in 1..(n + 1), IsTry(DD[i])
          PROVE  Innermost({j \in Tries(DD, DD[i].th) : j < i}, DD[i].prev)
        <3>1. CASE i = n + 1
            <4>1. {j \in Tries(DD, t) : j < i} = Tries(CC, t)
                BY <1>5, <1>6, <3>1
            <4>2. Innermost(Tries(CC, t), LL[t].jmp)
                BY <1>0 DEF Good, Jumps
            <4> QED BY <1>1, <3>1, <4>1, <4>2
        <3>2. CASE i \in 1..n
            <4>1. DD[i] = CC[i] /\ IsTry(CC[i])
                BY <1>1, <2>2, <3>2
            <4>2. {j \in Tries(DD, DD[i].th) : j < i} = {j \in Tries(CC, CC[i].th) : j < i}
                BY <1>5, <3>2, <4>1
            <4> QED BY <3>2, <4>1, <4>2 DEF Good, Jumps
        <3> QED BY <1>3, <3>1, <3>2
    <2> QED BY <1>1, <2>1, <2>2 DEF Jumps
<1>8. Count(DD, n + 1) = Count(CC, n) /\ \A i \in 1..n : Count(DD, i) = Count(CC, i)
    BY <1>1, PushCount
<1>9. \A u \in Threads : MM[u].nc = LL[u].nc
    BY <1>2
<1>10. Count(CC, n) <= LL[t].nc
    BY <1>3 DEF Good, Counts
<1>11. Counts(MM, DD)
    <2>1. ASSUME NEW i \in 1..(n + 1) PROVE Count(DD, i) <= MM[DD[i].th].nc
        <3>1. CASE i = n + 1
            BY <1>0, <1>1, <1>8, <1>9, <1>10, <3>1
        <3>2. CASE i \in 1..n
            <4>1. CC[i].th \in Threads
                BY <3>2 DEF Good, Records, IsRecord
            <4> QED BY <1>1, <1>8, <1>9, <3>2, <4>1 DEF Good, Counts
        <3> QED BY <1>3, <3>1, <3>2
    <2>2. ASSUME NEW i \in 1..(n + 1), IsTry(DD[i]) PROVE Count(DD, i) <= DD[i].oldnc
        <3>1. CASE i = n + 1
            BY <1>1, <1>8, <1>10, <3>1
        <3>2. CASE i \in 1..n
            BY <1>1, <1>8, <2>2, <3>2 DEF Good, Counts
        <3> QED BY <1>3, <3>1, <3>2
    <2> QED BY <1>1, <2>1, <2>2 DEF Counts
<1>12. Bounded(DD)
    BY <1>1, PushBounded DEF Good, Counted
<1> QED BY <1>1, <1>4, <1>7, <1>11, <1>12 DEF Good, DD, MM

\* A thread is resumed: it counts one more than the one that resumes it.
LEMMA PushResumed ==
    ASSUME NEW LL, NEW CC, Good(LL, CC), NEW n \in Nat, Len(CC) = n, n >= 2,
           CC[n].at # "call", CC[n].at # "resumed",
           NEW r, IsRecord(r), r.at = "resumed", ~Enters(r),
           NEW s, IsThread(s), s.jmp = LL[r.th].jmp, s.nc = LL[CC[n].th].nc + 1
    PROVE  Good([LL EXCEPT ![r.th] = s], Append(CC, r))
<1> DEFINE DD == Append(CC, r)
           t == r.th
           MM == [LL EXCEPT ![t] = s]
<1>0. t \in Threads /\ ~IsTry(r)
    BY DEF IsRecord, IsTry
<1>1. /\ IsSeq(DD) /\ Len(DD) = n + 1 /\ DD[n + 1] = r /\ \A i \in 1..n : DD[i] = CC[i]
      /\ Base(DD) /\ Records(DD) /\ Segments(DD)
    BY PushShape
<1>2. DOMAIN MM = Threads /\ \A u \in Threads : MM[u] = IF u = t THEN s ELSE LL[u]
    BY <1>0 DEF Good, AreThreads
<1> HIDE DEF DD, MM
<1>3. n \in 1..n /\ \A i \in 1..(n + 1) : i = n + 1 \/ i \in 1..n
    OBVIOUS
<1>4. AreThreads(MM)
    BY <1>2 DEF Good, AreThreads
<1>5. \A u : Tries(DD, u) = Tries(CC, u)
    BY <1>0, <1>1, <1>3 DEF Tries
<1>6. Jumps(MM, DD)
    <2>1. \A u \in Threads : MM[u].jmp = LL[u].jmp
        BY <1>2
    <2>2. ASSUME NEW i \in 1..(n + 1), IsTry(DD[i]) PROVE i \in 1..n /\ DD[i] = CC[i]
        BY <1>0, <1>1, <1>3, <2>2
    <2> QED BY <1>1, <1>5, <2>1, <2>2 DEF Good, Jumps
<1>7. Count(DD, n + 1) = Count(CC, n) + 1 /\ \A i \in 1..n : Count(DD, i) = Count(CC, i)
    <2>1. Counted(DD[n + 1])
        BY <1>1 DEF Counted
    <2> QED BY <1>1, <2>1, PushCount
<1>8. Count(CC, n) \in Nat /\ Count(CC, n) <= LL[CC[n].th].nc /\ LL[CC[n].th].nc \in Int
    BY <1>3, CountType DEF Good, Counts, Records, IsRecord, AreThreads, IsThread
<1>9. \A i \in 1..n : Count(CC, i) <= Count(CC, n) /\ Count(CC, i) \in Nat
    BY CountGrows, CountType
<1>10. Counts(MM, DD)
    <2>1. ASSUME NEW i \in 1..(n + 1) PROVE Count(DD, i) <= MM[DD[i].th].nc
        <3>1. CASE i = n + 1
            BY <1>0, <1>1, <1>2, <1>7, <1>8, <3>1
        <3>2. CASE i \in 1..n
            <4>1. DD[i] = CC[i] /\ CC[i].th \in Threads /\ Count(DD, i) = Count(CC, i)
                BY <1>1, <1>7, <3>2 DEF Good, Records, IsRecord
            <4>2. CASE CC[i].th = t
                <5>1. Count(CC, i) <= Count(CC, n) /\ Count(CC, i) \in Nat
                    BY <1>9, <3>2
                <5>2. MM[DD[i].th].nc = LL[CC[n].th].nc + 1
                    BY <1>2, <4>1, <4>2
                <5> QED BY <1>8, <4>1, <5>1, <5>2
            <4>3. CASE CC[i].th # t
                BY <1>2, <3>2, <4>1, <4>3 DEF Good, Counts
            <4> QED BY <4>2, <4>3
        <3> QED BY <1>3, <3>1, <3>2
    <2>2. ASSUME NEW i \in 1..(n + 1), IsTry(DD[i]) PROVE Count(DD, i) <= DD[i].oldnc
        <3>1. i \in 1..n
            BY <1>0, <1>1, <1>3, <2>2
        <3> QED BY <1>1, <1>7, <2>2, <3>1 DEF Good, Counts
    <2> QED BY <1>1, <2>1, <2>2 DEF Counts
<1>11. Bounded(DD)
    BY <1>1, PushBounded DEF Good
<1> QED BY <1>1, <1>4, <1>6, <1>10, <1>11 DEF Good, DD, MM

\* What a cut of the C stack does not disturb.
LEMMA CutShape ==
    ASSUME NEW LL, NEW CC, Good(LL, CC), NEW k \in 0..Len(CC)
    PROVE  LET DD == SubSeq(CC, 1, k) IN
           /\ IsSeq(DD) /\ Len(DD) = k /\ \A i \in 1..k : DD[i] = CC[i] /\ Count(DD, i) = Count(CC, i)
           /\ Base(DD) /\ Records(DD) /\ Segments(DD) /\ Bounded(DD)
           /\ \A u : Tries(DD, u) = {i \in Tries(CC, u) : i <= k}
           /\ \A i \in 1..k : IsTry(DD[i]) => Innermost({j \in Tries(DD, DD[i].th) : j < i}, DD[i].prev)
<1> DEFINE DD == SubSeq(CC, 1, k)
<1>1. IsSeq(DD) /\ Len(DD) = k /\ \A i \in 1..k : DD[i] = CC[i]
    BY CutIs DEF Good
<1> HIDE DEF DD
<1>2. k \in Nat /\ Len(CC) \in Nat /\ k <= Len(CC) /\ \A i \in 1..k : i \in 1..Len(CC)
    BY SeqParts DEF Good
<1>3. \A i \in 1..k : Count(DD, i) = Count(CC, i)
    <2>1. \A i \in 1..k : Counted(CC[i]) <=> Counted(DD[i])
        BY <1>1
    <2> QED BY <1>2, <2>1, CountSame
<1>4. Base(DD)
    <2>1. ASSUME k >= 1 PROVE DD[1] = CC[1]
        BY <1>1, <1>2, <2>1
    <2>2. ASSUME k >= 2 PROVE DD[2] = CC[2]
        BY <1>1, <1>2, <2>2
    <2> QED BY <1>1, <1>2, <2>1, <2>2 DEF Good, Base
<1>5. Records(DD)
    <2>1. ASSUME NEW i \in 1..k PROVE IsRecord(DD[i]) /\ (DD[i].at = "call" => i = k)
        BY <1>1, <1>2 DEF Good, Records
    <2> QED BY <1>1, <2>1 DEF Records
<1>6. Segments(DD)
    <2>1. ASSUME NEW i \in 1..k, NEW j \in 1..k, i < j, DD[i].th # DD[j].th
          PROVE  \E m \in (i + 1)..j : DD[m].at = "resumed" /\ DD[m].th = DD[j].th
        <3>1. PICK m \in (i + 1)..j : CC[m].at = "resumed" /\ CC[m].th = CC[j].th
            BY <1>1, <1>2, <2>1 DEF Good, Segments
        <3>2. m \in 1..k
            BY <1>2
        <3> QED BY <1>1, <3>1, <3>2
    <2>2. ASSUME NEW m \in 1..k, DD[m].at = "resumed", m < k
          PROVE  IsTry(DD[m + 1]) /\ DD[m + 1].th = DD[m].th
        <3>1. m + 1 \in 1..k /\ m < Len(CC)
            BY <1>2, <2>2
        <3> QED BY <1>1, <1>2, <2>2, <3>1 DEF Good, Segments
    <2> QED BY <1>1, <2>1, <2>2 DEF Segments
<1>7. Bounded(DD)
    <2>1. Entered(DD) \subseteq Entered(CC)
        BY <1>1, <1>2 DEF Entered
    <2> QED BY <2>1, BoundedLess DEF Good
<1>8. \A u : Tries(DD, u) = {i \in Tries(CC, u) : i <= k}
    BY <1>1, <1>2 DEF Tries
<1>9. ASSUME NEW i \in 1..k, IsTry(DD[i])
      PROVE  Innermost({j \in Tries(DD, DD[i].th) : j < i}, DD[i].prev)
    <2>1. DD[i] = CC[i] /\ i \in 1..Len(CC) /\ IsTry(CC[i])
        BY <1>1, <1>2, <1>9
    <2>2. \A j \in Tries(CC, CC[i].th) : j \in Int
        BY DEF Tries
    <2>3. {j \in Tries(DD, DD[i].th) : j < i} = {j \in Tries(CC, CC[i].th) : j < i}
        BY <1>2, <1>8, <2>1, <2>2
    <2> QED BY <2>1, <2>3 DEF Good, Jumps
<1> QED BY <1>1, <1>3, <1>4, <1>5, <1>6, <1>7, <1>8, <1>9 DEF DD

\* Records above the protected calls of every thread go.
LEMMA Cut ==
    ASSUME NEW LL, NEW CC, Good(LL, CC), NEW k \in 0..Len(CC), \A u \in Threads : LL[u].jmp <= k
    PROVE  Good(LL, SubSeq(CC, 1, k))
<1> DEFINE DD == SubSeq(CC, 1, k)
<1>1. /\ IsSeq(DD) /\ Len(DD) = k /\ \A i \in 1..k : DD[i] = CC[i] /\ Count(DD, i) = Count(CC, i)
      /\ Base(DD) /\ Records(DD) /\ Segments(DD) /\ Bounded(DD)
      /\ \A u : Tries(DD, u) = {i \in Tries(CC, u) : i <= k}
      /\ \A i \in 1..k : IsTry(DD[i]) => Innermost({j \in Tries(DD, DD[i].th) : j < i}, DD[i].prev)
    BY CutShape
<1> HIDE DEF DD
<1>2. \A i \in 1..k : i \in 1..Len(CC)
    BY SeqParts DEF Good
<1>3. \A u \in Threads : Innermost(Tries(DD, u), LL[u].jmp)
    BY <1>1 DEF Good, Jumps, Innermost
<1>4. Jumps(LL, DD)
    BY <1>1, <1>3 DEF Jumps
<1>5. Counts(LL, DD)
    BY <1>1, <1>2 DEF Good, Counts
<1> QED BY <1>1, <1>4, <1>5 DEF Good, DD

LEMMA TriesBelow ==
    ASSUME NEW LL, NEW CC, Good(LL, CC)
    PROVE  /\ \A u \in Threads : LL[u].jmp \in Nat /\ LL[u].jmp <= Len(CC)
           /\ \A i \in 1..Len(CC) : IsTry(CC[i]) => CC[i].th \in Threads /\ i <= LL[CC[i].th].jmp
           /\ \A u \in Threads : LL[u].jmp > 0 =>
                LL[u].jmp \in 1..Len(CC) /\ IsTry(CC[LL[u].jmp]) /\ CC[LL[u].jmp].th = u
<1>1. Len(CC) \in Nat
    BY SeqParts DEF Good
<1>2. \A u \in Threads : LL[u].jmp \in Nat /\ Innermost(Tries(CC, u), LL[u].jmp)
    BY DEF Good, AreThreads, IsThread, Jumps
<1>3. \A u : Tries(CC, u) \subseteq 1..Len(CC)
    BY DEF Tries
<1>4. \A u \in Threads : LL[u].jmp = 0 \/ LL[u].jmp \in Tries(CC, u)
    BY <1>2 DEF Innermost
<1>5. \A i \in 1..Len(CC) : IsTry(CC[i]) => CC[i].th \in Threads /\ i <= LL[CC[i].th].jmp
    BY <1>2 DEF Good, Records, IsRecord, Innermost, Tries
<1>6. \A u \in Threads : LL[u].jmp > 0 => LL[u].jmp \in Tries(CC, u)
    BY <1>2, <1>4
<1>7. \A u \in Threads : LL[u].jmp > 0 => LL[u].jmp \in 1..Len(CC) /\ IsTry(CC[LL[u].jmp]) /\ CC[LL[u].jmp].th = u
    BY <1>6 DEF Tries
<1>8. \A u \in Threads : LL[u].jmp <= Len(CC)
    BY <1>1, <1>2, <1>7
<1> QED BY <1>2, <1>5, <1>7, <1>8

\* A function of C that is not a protected call returns.
LEMMA Pop ==
    ASSUME NEW LL, NEW CC, Good(LL, CC), NEW n \in Nat, Len(CC) = n, n >= 1, ~IsTry(CC[n])
    PROVE  Good(LL, SubSeq(CC, 1, n - 1))
<1>1. n - 1 \in 0..Len(CC)
    OBVIOUS
<1>2. ASSUME NEW u \in Threads PROVE LL[u].jmp <= n - 1
    <2>1. LL[u].jmp \in Nat /\ LL[u].jmp <= n /\ (LL[u].jmp > 0 => IsTry(CC[LL[u].jmp]))
        BY TriesBelow
    <2>2. LL[u].jmp # n
        BY <2>1
    <2> QED BY <2>1, <2>2
<1> QED BY <1>1, <1>2, Cut

\* Then the thread counts one less, if it did count the call.
LEMMA PopCounted ==
    ASSUME NEW LL, NEW CC, Good(LL, CC), NEW n \in Nat, Len(CC) = n, n >= 1, ~IsTry(CC[n]), Counted(CC[n]),
           NEW t, t = CC[n].th, NEW s, IsThread(s), s.jmp = LL[t].jmp, s.nc = LL[t].nc - 1
    PROVE  Good([LL EXCEPT ![t] = s], SubSeq(CC, 1, n - 1))
<1> DEFINE DD == SubSeq(CC, 1, n - 1)
<1>1. Good(LL, DD)
    BY Pop
<1>2. n - 1 \in 0..Len(CC) /\ n \in 1..Len(CC)
    OBVIOUS
<1>3. Len(DD) = n - 1 /\ \A i \in 1..(n - 1) : Count(DD, i) = Count(CC, i)
    BY <1>2, CutShape
<1> HIDE DEF DD
<1>4. t \in Threads /\ LL[t].nc \in Int /\ Count(CC, n) <= LL[t].nc
    BY <1>2 DEF Good, Records, IsRecord, Counts, AreThreads, IsThread
<1>5. Count(CC, n) = Count(CC, n - 1) + 1
    BY CountLast
<1>6. \A i \in 1..(n - 1) : Count(CC, i) \in Nat /\ Count(CC, i) <= Count(CC, n - 1) /\ Count(CC, n - 1) \in Nat
    BY CountGrows, CountType
<1>7. \A i \in 1..Len(DD) : Count(DD, i) <= s.nc
    BY <1>3, <1>4, <1>5, <1>6
<1>8. Good([LL EXCEPT ![t] = s], DD)
    BY <1>1, <1>4, <1>7, Recount
<1> QED BY <1>8 DEF DD

\* A protected call returns, and puts back what it has kept.
LEMMA PopTry ==
    ASSUME NEW LL, NEW CC, Good(LL, CC), NEW n \in Nat, Len(CC) = n, n >= 1, IsTry(CC[n]),
           NEW t, t = CC[n].th, NEW s, IsThread(s), s.jmp = CC[n].prev, s.nc = CC[n].oldnc
    PROVE  Good([LL EXCEPT ![t] = s], SubSeq(CC, 1, n - 1))
<1> DEFINE DD == SubSeq(CC, 1, n - 1)
           MM == [LL EXCEPT ![t] = s]
<1>0. n - 1 \in 0..Len(CC) /\ n \in 1..n /\ n \in 1..Len(CC)
    OBVIOUS
<1>1. /\ IsSeq(DD) /\ Len(DD) = n - 1 /\ \A i \in 1..(n - 1) : DD[i] = CC[i] /\ Count(DD, i) = Count(CC, i)
      /\ Base(DD) /\ Records(DD) /\ Segments(DD) /\ Bounded(DD)
      /\ \A u : Tries(DD, u) = {i \in Tries(CC, u) : i <= n - 1}
      /\ \A i \in 1..(n - 1) : IsTry(DD[i]) => Innermost({j \in Tries(DD, DD[i].th) : j < i}, DD[i].prev)
    BY <1>0, CutShape
<1>2. t \in Threads /\ \A i \in 1..n : CC[i].th \in Threads
    BY <1>0 DEF Good, Records, IsRecord
<1>3. DOMAIN MM = Threads /\ \A u \in Threads : MM[u] = IF u = t THEN s ELSE LL[u]
    BY <1>2 DEF Good, AreThreads
<1> HIDE DEF DD, MM
<1>4. AreThreads(MM)
    BY <1>3 DEF Good, AreThreads
<1>5. \A u : Tries(CC, u) \subseteq 1..n
    BY DEF Tries
<1>6. Jumps(MM, DD)
    <2>1. ASSUME NEW u \in Threads PROVE Innermost(Tries(DD, u), MM[u].jmp)
        <3>1. CASE u = t
            <4>1. Innermost({j \in Tries(CC, t) : j < n}, CC[n].prev)
                BY <1>0 DEF Good, Jumps
            <4>2. Tries(DD, t) = {j \in Tries(CC, t) : j < n}
                BY <1>1, <1>5
            <4> QED BY <1>3, <3>1, <4>1, <4>2
        <3>2. CASE u # t
            <4>1. n \notin Tries(CC, u)
                BY <3>2 DEF Tries
            <4>2. ASSUME NEW i \in Tries(CC, u) PROVE i <= n - 1
                <5>1. i \in 1..n /\ i # n
                    BY <1>5, <4>1
                <5> QED BY <5>1
            <4>3. Tries(DD, u) = {i \in Tries(CC, u) : i <= n - 1}
                BY <1>1
            <4>4. Tries(DD, u) = Tries(CC, u)
                BY <4>2, <4>3
            <4> QED BY <1>3, <3>2, <4>4 DEF Good, Jumps
        <3> QED BY <3>1, <3>2
    <2> QED BY <1>1, <2>1 DEF Jumps
<1>7. Count(CC, n) <= s.nc /\ Count(CC, n) \in Nat /\ s.nc \in Int
    BY <1>0, CountType DEF Good, Counts, IsThread
<1>8. \A i \in 1..n : Count(CC, i) <= Count(CC, n) /\ Count(CC, i) \in Nat
    BY CountGrows, CountType
<1>9. Counts(MM, DD)
    <2>1. ASSUME NEW i \in 1..(n - 1) PROVE Count(DD, i) <= MM[DD[i].th].nc
        <3>1. DD[i] = CC[i] /\ Count(DD, i) = Count(CC, i) /\ i \in 1..n /\ CC[i].th \in Threads
            BY <1>1, <1>2
        <3>2. CASE CC[i].th = t
            BY <1>3, <1>7, <1>8, <3>1, <3>2
        <3>3. CASE CC[i].th # t
            BY <1>3, <3>1, <3>3 DEF Good, Counts
        <3> QED BY <3>2, <3>3
    <2>2. ASSUME NEW i \in 1..(n - 1), IsTry(DD[i]) PROVE Count(DD, i) <= DD[i].oldnc
        <3>1. DD[i] = CC[i] /\ Count(DD, i) = Count(CC, i) /\ i \in 1..n
            BY <1>1
        <3> QED BY <2>2, <3>1 DEF Good, Counts
    <2> QED BY <1>1, <2>1, <2>2 DEF Counts
<1> QED BY <1>1, <1>4, <1>6, <1>9 DEF Good, DD, MM

\* The innermost protected call of the thread that runs is above those of all
\* others: an error takes nothing from another thread.
LEMMA ThrowReach ==
    ASSUME NEW LL, NEW CC, Good(LL, CC), NEW n \in Nat, Len(CC) = n, n >= 2, CC[n].at # "resumed"
    PROVE  /\ LL[CC[n].th].jmp \in 1..n /\ IsTry(CC[LL[CC[n].th].jmp]) /\ CC[LL[CC[n].th].jmp].th = CC[n].th
           /\ \A u \in Threads : LL[u].jmp <= LL[CC[n].th].jmp
<1> DEFINE t == CC[n].th
<1>1. t \in Threads /\ n \in 1..n /\ 2 \in 1..n
    BY DEF Good, Records, IsRecord
<1>2. ASSUME NEW k \in 1..n, CC[k].th # t PROVE k < LL[t].jmp
    <2>1. k < n
        BY <1>2
    <2>2. PICK m \in (k + 1)..n : CC[m].at = "resumed" /\ CC[m].th = t
        BY <1>1, <1>2, <2>1 DEF Good, Segments
    <2>3. m # n
        BY <2>2
    <2>4. m \in 1..n /\ m < n /\ m + 1 \in 1..n
        BY <2>3
    <2>5. IsTry(CC[m + 1]) /\ CC[m + 1].th = t
        BY <2>2, <2>4 DEF Good, Segments
    <2>6. m + 1 <= LL[t].jmp /\ LL[t].jmp \in Nat
        BY <1>1, <2>4, <2>5, TriesBelow
    <2> QED BY <2>6
<1>3. LL[t].jmp \in Nat /\ LL[t].jmp > 0
    <2>1. LL[t].jmp \in Nat
        BY <1>1, TriesBelow
    <2>2. CASE t = Main
        <3>1. 2 <= LL[t].jmp
            BY <1>1, <2>2, TriesBelow DEF Good, Base
        <3> QED BY <2>1, <3>1
    <2>3. CASE t # Main
        <3>1. 1 \in 1..n /\ CC[1].th = Main
            BY DEF Good, Base
        <3>2. 1 < LL[t].jmp
            BY <1>2, <2>3, <3>1
        <3> QED BY <2>1, <3>2
    <2> QED BY <2>2, <2>3
<1>4. LL[t].jmp \in 1..n /\ IsTry(CC[LL[t].jmp]) /\ CC[LL[t].jmp].th = t
    BY <1>1, <1>3, TriesBelow
<1>5. ASSUME NEW u \in Threads PROVE LL[u].jmp <= LL[t].jmp
    <2>1. CASE u = t
        BY <1>3, <2>1
    <2>2. CASE u # t
        <3>1. LL[u].jmp \in Nat /\ (LL[u].jmp > 0 => LL[u].jmp \in 1..n /\ CC[LL[u].jmp].th = u)
            BY TriesBelow
        <3>2. LL[u].jmp = 0 \/ LL[u].jmp < LL[t].jmp
            BY <1>2, <2>2, <3>1
        <3> QED BY <1>3, <3>1, <3>2
    <2> QED BY <2>1, <2>2
<1> QED BY <1>4, <1>5

\* A record of this kind is neither a protected call, nor a resume, nor a call
\* by luaD_call.
Plain(at) == at \notin {"call", "called", "trying", "caught", "resumed", "protected"}

LEMMA PlainTop ==
    ASSUME NEW LL, NEW CC, Good(LL, CC), NEW n \in Nat, Len(CC) = n, n >= 1, CC[n].at # "protected"
    PROVE  n >= 2 /\ n \in 1..n /\ IsRecord(CC[n]) /\ IsThread(LL[CC[n].th]) /\ CC[n].th \in Threads
<1>1. n # 1
    BY DEF Good, Base
<1>2. n \in 1..n /\ n >= 2
    BY <1>1
<1>3. IsRecord(CC[n]) /\ CC[n].th \in Threads
    BY <1>2 DEF Good, Records, IsRecord
<1> QED BY <1>2, <1>3 DEF Good, AreThreads

LEMMA LabelIs ==
    ASSUME NEW s, IsSeq(s), NEW n \in 1..Len(s), NEW a
    PROVE  [s EXCEPT ![n].at = a] = [s EXCEPT ![n] = [s[n] EXCEPT !.at = a]]
OBVIOUS

\* An error, or a yield, goes back to the innermost protected call.
LEMMA Thrown ==
    ASSUME NEW LL, NEW CC, Good(LL, CC), NEW n \in Nat, Len(CC) = n, n >= 2, CC[n].at # "resumed",
           NEW t, t = CC[n].th, NEW s, IsThread(s), s.jmp = LL[t].jmp, s.nc >= LL[t].nc, NEW status
    PROVE  Good([LL EXCEPT ![t] = s],
                [SubSeq(CC, 1, s.jmp) EXCEPT ![s.jmp].at = "caught", ![s.jmp].status = status])
<1> DEFINE k == s.jmp
           MM == [LL EXCEPT ![t] = s]
           DD == SubSeq(CC, 1, k)
           x == [DD[k] EXCEPT !.at = "caught", !.status = status]
<1>1. t \in Threads
    <2>1. n \in 1..n
        OBVIOUS
    <2> QED BY <2>1 DEF Good, Records, IsRecord
<1>2. Good(MM, CC)
    BY <1>1, ThreadKeeps
<1>3. k \in 1..n /\ IsTry(CC[k]) /\ CC[k].th = t /\ \A u \in Threads : LL[u].jmp <= k
    BY ThrowReach
<1>4. \A u \in Threads : MM[u].jmp <= k
    BY <1>1, <1>3 DEF Good, AreThreads
<1>5. k \in 0..Len(CC)
    BY <1>3
<1>6. Good(MM, DD)
    <2> HIDE DEF MM, k
    <2> QED BY <1>2, <1>4, <1>5, Cut
<1>7. IsSeq(DD) /\ Len(DD) = k /\ DD[k] = CC[k]
    <2>1. IsSeq(CC)
        BY DEF Good
    <2> HIDE DEF k
    <2>2. IsSeq(DD) /\ Len(DD) = k /\ \A i \in 1..k : DD[i] = CC[i]
        BY <1>5, <2>1, CutIs
    <2>3. k \in 1..k
        BY <1>3
    <2> QED BY <2>2, <2>3
<1>8. IsRecord(CC[k])
    BY <1>3 DEF Good, Records
<1>9. IsRecord(x) /\ x.at = "caught" /\ Alike(DD[k], x) /\ (Enters(x) <=> Enters(DD[k]))
    <2> DEFINE c == DD[k]
    <2>1. IsRecord(c) /\ IsTry(c)
        BY <1>3, <1>7, <1>8
    <2> HIDE DEF c
    <2> SUFFICES LET y == [c EXCEPT !.at = "caught", !.status = status]
                 IN IsRecord(y) /\ y.at = "caught" /\ Alike(c, y) /\ (Enters(y) <=> Enters(c))
        BY DEF c
    <2> QED BY <2>1 DEF IsRecord, IsTry, Alike, Enters
<1>10. k \in 1..Len(DD)
    <2> HIDE DEF k, DD
    <2> QED BY <1>3, <1>7
<1>11. Good(MM, [DD EXCEPT ![k] = x])
    <2> HIDE DEF MM, DD, k, x
    <2> QED BY <1>6, <1>9, <1>10, Relabel
<1>12. [DD EXCEPT ![k].at = "caught", ![k].status = status] = [DD EXCEPT ![k] = x]
    <2> HIDE DEF DD, k
    <2> QED BY <1>7, <1>10 DEF IsSeq
<1> QED BY <1>11, <1>12

\* A function of C, on top, waits at a place.
Waiting(c, a) == [c EXCEPT !.at = a]

LEMMA WaitingIs ==
    ASSUME NEW c, IsRecord(c), Plain(c.at), NEW a, Plain(a)
    PROVE  LET x == Waiting(c, a)
           IN IsRecord(x) /\ x.at = a /\ a # "call" /\ x.th = c.th /\ Alike(c, x) /\ (Enters(x) <=> Enters(c))
BY DEF Waiting, IsRecord, IsTry, Alike, Enters, Plain

LEMMA Waits ==
    ASSUME NEW LL, NEW CC, Good(LL, CC), NEW n \in 1..Len(CC), Plain(CC[n].at), NEW a, Plain(a)
    PROVE  LET DD == [CC EXCEPT ![n] = Waiting(CC[n], a)] IN
           /\ Good(LL, DD) /\ IsSeq(DD) /\ Len(DD) = Len(CC) /\ DD[n] = Waiting(CC[n], a)
<1>1. IsRecord(CC[n]) /\ IsSeq(CC)
    BY DEF Good, Records
<1> DEFINE x == Waiting(CC[n], a)
<1>2. IsRecord(x) /\ x.at = a /\ x.at # "call" /\ Alike(CC[n], x) /\ (Enters(x) <=> Enters(CC[n]))
    BY <1>1, WaitingIs
<1> HIDE DEF x
<1>3. Good(LL, [CC EXCEPT ![n] = x])
    BY <1>1, <1>2, Relabel
<1>4. \A m \in 1..Len(CC) : \A y : LET EE == [CC EXCEPT ![m] = y] IN IsSeq(EE) /\ Len(EE) = Len(CC) /\ EE[m] = y
    BY <1>1, UpdateIs
<1> QED BY <1>1, <1>3, <1>4 DEF x

LEMMA CallRecIs ==
    ASSUME NEW t \in Threads, NEW func, NEW nres, NEW noyield
    PROVE  LET r == CallRec(t, func, nres, noyield) IN
           IsRecord(r) /\ r.th = t /\ r.at = "call" /\ ~IsTry(r) /\ ~Counted(r)
BY DEF CallRec, IsRecord, IsTry, Counted, Enters

LEMMA RecIs ==
    ASSUME NEW t \in Threads, NEW at, Plain(at)
    PROVE  LET r == Rec(at, t) IN
           IsRecord(r) /\ r.th = t /\ r.at = at /\ ~IsTry(r) /\ ~Counted(r)
BY DEF Rec, IsRecord, IsTry, Counted, Enters, Plain

\* What a plain function on top waits for: nothing of C, a call, another
\* function, a handler.
LEMMA Calling ==
    ASSUME NEW LL, NEW CC, Good(LL, CC), NEW n \in Nat, Len(CC) = n, n >= 1, Plain(CC[n].at), NEW a, Plain(a)
    PROVE  LET DD == [CC EXCEPT ![n].at = a]
               t == CC[n].th
           IN /\ Good(LL, DD \o <<>>)
              /\ \A func, nres, noyield : Good(LL, DD \o <<CallRec(t, func, nres, noyield)>>)
              /\ \A at : Plain(at) => Good(LL, DD \o <<Rec(at, t)>>)
<1> DEFINE DD == [CC EXCEPT ![n].at = a]
           t == CC[n].th
<1>1. Good(LL, DD) /\ IsSeq(DD) /\ Len(DD) = n /\ DD[n].at = a /\ DD[n].th = CC[n].th
    <2> DEFINE EE == [CC EXCEPT ![n] = Waiting(CC[n], a)]
    <2>1. IsSeq(CC) /\ n \in 1..Len(CC) /\ IsRecord(CC[n])
        BY PlainTop DEF Good, Plain
    <2>2. DD = EE
        BY <2>1, LabelIs DEF Waiting
    <2>3. Good(LL, EE)
        BY <2>1, Waits
    <2>4. EE[n] = Waiting(CC[n], a)
        BY <2>1, Waits
    <2>5. Len(EE) = n
        BY <2>1, Waits
    <2>6. Waiting(CC[n], a).at = a /\ Waiting(CC[n], a).th = CC[n].th
        BY <2>1, WaitingIs
    <2> HIDE DEF DD, EE
    <2> QED BY <2>2, <2>3, <2>4, <2>5, <2>6 DEF Good
<1>2. t \in Threads /\ n >= 2
    BY PlainTop DEF Plain
<1>3. a # "call" /\ a # "resumed"
    BY DEF Plain
<1> HIDE DEF DD
<1>4. Good(LL, DD \o <<>>)
    BY <1>1, ConcatIs
<1>5. ASSUME NEW r, IsRecord(r), r.th = t, ~IsTry(r), ~Counted(r)
      PROVE  Good(LL, DD \o <<r>>)
    <2>1. Good(LL, Append(DD, r))
        BY <1>1, <1>2, <1>3, <1>5, Push
    <2> QED BY <1>1, <2>1, ConcatIs
<1> HIDE DEF t
<1>6. ASSUME NEW func, NEW nres, NEW noyield PROVE Good(LL, DD \o <<CallRec(t, func, nres, noyield)>>)
    BY <1>2, <1>5, CallRecIs
<1>7. ASSUME NEW at, Plain(at) PROVE Good(LL, DD \o <<Rec(at, t)>>)
    BY <1>2, <1>5, <1>7, RecIs
<1> QED BY <1>4, <1>6, <1>7 DEF DD, t

\* A message handler is called from where the error is raised.
LEMMA Handles ==
    ASSUME NEW LL, NEW CC, Good(LL, CC), NEW n \in Nat, Len(CC) = n, n >= 2, Plain(CC[n].at),
           NEW frame, NEW func, NEW nres, NEW noyield
    PROVE  Good(LL, CC \o <<[at |-> "handled", th |-> CC[n].th, frame |-> frame],
                            CallRec(CC[n].th, func, nres, noyield)>>)
<1> DEFINE t == CC[n].th
           h == [at |-> "handled", th |-> t, frame |-> frame]
           r == CallRec(t, func, nres, noyield)
           DD == Append(CC, h)
<1>1. t \in Threads /\ CC[n].at # "call" /\ CC[n].at # "resumed" /\ IsSeq(CC)
    BY PlainTop DEF Plain, Good
<1>2. IsRecord(h) /\ h.th = t /\ ~IsTry(h) /\ ~Counted(h) /\ h.at = "handled"
    BY <1>1 DEF IsRecord, IsTry, Counted, Enters
<1>3. IsRecord(r) /\ r.th = t /\ ~IsTry(r) /\ ~Counted(r)
    BY <1>1, CallRecIs
<1>4. CC \o <<h, r>> = Append(DD, r)
    BY <1>1, ConcatIs
<1> HIDE DEF h, r, t
<1>5. Good(LL, DD)
    BY <1>1, <1>2, Push DEF t
<1>6. Len(DD) = n + 1 /\ DD[n + 1] = h
    BY <1>1, AppendIs
<1> HIDE DEF DD
<1> DEFINE m == n + 1
<1>7. m \in Nat /\ m >= 2 /\ Len(DD) = m /\ DD[m].th = t /\ DD[m].at # "call" /\ DD[m].at # "resumed"
    BY <1>2, <1>6
<1> HIDE DEF m
<1>8. Good(LL, Append(DD, r))
    BY <1>3, <1>5, <1>7, Push
<1> QED BY <1>4, <1>8 DEF h, r, t

-----------------------------------------------------------------------------
(* What is done to a thread keeps its count and its protected call.        *)

\* s is t with other values, frames or flags.
Keeps(s, t) == IsThread(s) /\ s.nc = t.nc /\ s.jmp = t.jmp

LEMMA FieldKept ==
    ASSUME NEW s, IsThread(s), NEW v
    PROVE  /\ Keeps([s EXCEPT !.stk = v], s) /\ Keeps([s EXCEPT !.ci = v], s)
           /\ Keeps([s EXCEPT !.errf = v], s) /\ Keeps([s EXCEPT !.nny = v], s)
           /\ Keeps([s EXCEPT !.st = v], s) /\ Keeps([s EXCEPT !.big = v], s)
BY DEF Keeps, IsThread

LEMMA StackKept ==
    ASSUME NEW s, IsThread(s), NEW n, NEW v
    PROVE  Keeps(SetTop(s, n), s) /\ Keeps(Put(s, v), s) /\ Keeps(Insert(s, n, v), s)
BY DEF SetTop, Put, Insert, Keeps, IsThread

LEMMA ErrorKept ==
    ASSUME NEW s, IsThread(s), NEW status, NEW at, NEW i
    PROVE  Keeps(ErrorObject(s, status, at), s) /\ Keeps(Shrink(s), s) /\ Keeps(Recover(s, status, i), s)
<1>1. \A u, v : IsThread(u) => Keeps(SetTop(u, v), u) /\ Keeps(Put(u, v), u)
    BY StackKept
<1>2. ASSUME NEW v PROVE Keeps(ErrorObject(s, status, v), s)
    BY <1>1 DEF ErrorObject, Keeps
<1>3. \A u : IsThread(u) => Keeps(Shrink(u), u)
    BY FieldKept DEF Shrink
<1>4. \A u, v : IsThread(u) => Keeps([u EXCEPT !.ci = v, !.nny = 0], u)
    BY DEF Keeps, IsThread
<1>5. \A u, v : IsThread(u) => Keeps([u EXCEPT !.errf = v], u)
    BY FieldKept
<1> DEFINE e == ErrorObject(s, status, s.ci[i].extra)
           cut == [e EXCEPT !.ci = SubSeq(@, 1, i), !.nny = 0]
           shrunk == Shrink(cut)
           back == [shrunk EXCEPT !.errf = s.ci[i].olderr]
<1>6. Keeps(e, s)
    BY <1>2
<1>7. Keeps(cut, e)
    <2> HIDE DEF e
    <2> QED BY <1>4, <1>6 DEF Keeps
<1>8. Keeps(shrunk, cut)
    <2> HIDE DEF cut
    <2> QED BY <1>3, <1>7 DEF Keeps
<1>9. Keeps(back, shrunk)
    <2> HIDE DEF shrunk
    <2> QED BY <1>5, <1>8 DEF Keeps
<1>10. Recover(s, status, i) = back
    BY Zenon DEF Recover
<1>11. Keeps(back, s)
    <2> HIDE DEF e, cut, shrunk, back
    <2> QED BY <1>6, <1>7, <1>8, <1>9 DEF Keeps
<1> QED BY <1>2, <1>3, <1>10, <1>11

LEMMA ReturnKept ==
    ASSUME NEW s, IsThread(s), NEW n
    PROVE  Keeps(Poscall(s, n), s) /\ Keeps(Restore(s), s)
BY StackKept DEF Poscall, Restore, Keeps, IsThread

LEMMA EnterKept ==
    ASSUME NEW s, IsThread(s), NEW func, NEW nres
    PROVE  /\ Keeps(EnterC(s, func, nres), s) /\ Keeps(EnterLua(s, func, nres), s)
           /\ Keeps(CallTM(s, func), s)
<1>1. Keeps(EnterC(s, func, nres), s) /\ Keeps(CallTM(s, func), s)
    BY DEF EnterC, CallTM, Keeps, IsThread
<1>2. \A u, v : IsThread(u) => Keeps(SetTop(u, v), u) /\ Keeps(Put(u, v), u)
    BY StackKept
<1> DEFINE p == PrepareLua(s, func)
           top == p.base + FrameSize - 1
<1>3. Keeps(p.s, s)
    <2> DEFINE n == Top(s) - func
               first == IF n = 0 THEN "nil" ELSE s.stk[func + 1]
               moved == [s EXCEPT !.stk[func + 1] = "nil"]
    <2>1. Keeps(moved, s) /\ IsThread(moved)
        BY DEF Keeps, IsThread
    <2> HIDE DEF moved
    <2>2. Keeps(Put(s, "nil"), s) /\ Keeps(Put(s, first), s) /\ Keeps(Put(moved, first), s) /\ Keeps(s, s)
        BY <1>2, <2>1 DEF Keeps
    <2>3. \/ p.s = Put(s, "nil") \/ p.s = s \/ p.s = Put(s, first) \/ p.s = Put(moved, first)
        BY DEF PrepareLua, moved
    <2> QED BY <2>2, <2>3
<1> HIDE DEF p
<1>4. \A u, v : IsThread(u) => Keeps([u EXCEPT !.ci = v], u)
    BY FieldKept
<1> DEFINE t == SetTop(p.s, top)
<1>5. Keeps(t, p.s)
    BY <1>2, <1>3 DEF Keeps
<1>6. \E v : EnterLua(s, func, nres) = [t EXCEPT !.ci = v]
    BY DEF EnterLua, p
<1> HIDE DEF t
<1>7. Keeps(EnterLua(s, func, nres), s)
    BY <1>3, <1>4, <1>5, <1>6 DEF Keeps
<1> QED BY <1>1, <1>7

LEMMA PrecallIs ==
    ASSUME NEW s, IsThread(s), NEW func, NEW nres
    PROVE  LET p == Precall(s, func, nres) IN
           Keeps(p.s, s) /\ (p.next = "c" => p.f \in CFunctions)
<1>1. IsThread(CallTM(s, func)) /\ Keeps(CallTM(s, func), s)
    BY EnterKept DEF Keeps
<1> DEFINE u == CallTM(s, func)
<1>2. Keeps(EnterLua(u, func, nres), u) /\ Keeps(EnterC(u, func, nres), u)
    BY <1>1, EnterKept
<1>3. Keeps([u EXCEPT !.big = TRUE], u)
    BY <1>1, FieldKept
<1> QED BY <1>1, <1>2, <1>3 DEF Precall, Keeps

-----------------------------------------------------------------------------
(* What the actions are made of.                                           *)

LEMMA SameThreads ==
    ASSUME NEW LL, NEW CC, Good(LL, CC), NEW MM, DOMAIN MM = Threads,
           \A t \in Threads : Keeps(MM[t], LL[t])
    PROVE  Good(MM, CC)
<1>1. \A t \in Threads : IsThread(MM[t]) /\ MM[t].nc = LL[t].nc /\ MM[t].jmp = LL[t].jmp
    BY DEF Keeps
<1>2. AreThreads(MM)
    BY <1>1 DEF AreThreads
<1>3. Jumps(MM, CC)
    BY <1>1 DEF Good, Jumps
<1>4. \A i \in 1..Len(CC) : CC[i].th \in Threads
    BY DEF Good, Records, IsRecord
<1>5. Counts(MM, CC)
    BY <1>1, <1>4 DEF Good, Counts
<1> QED BY <1>2, <1>3, <1>5 DEF Good

LEMMA SameThread ==
    ASSUME NEW LL, NEW CC, Good(LL, CC), NEW t, NEW s, t \in Threads => Keeps(s, LL[t])
    PROVE  Good([LL EXCEPT ![t] = s], CC)
<1> DEFINE MM == [LL EXCEPT ![t] = s]
<1>1. DOMAIN MM = Threads /\ \A u \in Threads : MM[u] = IF u = t THEN s ELSE LL[u]
    BY DEF Good, AreThreads
<1>2. \A u \in Threads : Keeps(LL[u], LL[u])
    BY DEF Good, AreThreads, Keeps
<1> HIDE DEF MM
<1>3. \A u \in Threads : Keeps(MM[u], LL[u])
    BY <1>1, <1>2
<1> QED BY <1>1, <1>3, SameThreads DEF MM

\* Where the machine is when a function of C is at a place.
LEMMA Here ==
    ASSUME IInv, NEW a, At(a)
    PROVE  /\ Len(C) \in Nat /\ Len(C) >= 1 /\ C[Len(C)].at = a /\ th = C[Len(C)].th /\ Last(C) = C[Len(C)]
           /\ IsRecord(C[Len(C)]) /\ th \in Threads /\ l = L[th] /\ IsThread(l) /\ IsSeq(C)
           /\ a # "protected" => Len(C) >= 2
<1> DEFINE n == Len(C)
<1>1. Good(L, C) /\ IsSeq(C)
    BY DEF IInv, Good
<1>2. n \in Nat /\ C # <<>> /\ Last(C) = C[n] /\ C[n].at = a
    BY <1>1, SeqParts DEF At, Last
<1>3. n >= 1
    <2>1. PICK S : C \in Seq(S)
        BY <1>1 DEF IsSeq
    <2> QED BY <1>2, <2>1
<1>4. n \in 1..n
    BY <1>2, <1>3
<1>5. IsRecord(C[n]) /\ C[n].th \in Threads
    BY <1>1, <1>4 DEF Good, Records, IsRecord
<1>6. IsThread(L[C[n].th])
    BY <1>1, <1>5 DEF Good, AreThreads
<1>7. a # "protected" => n >= 2
    <2>1. C[1].at = "protected"
        BY <1>1, <1>3 DEF Good, Base
    <2> QED BY <1>2, <1>3, <2>1
<1> QED BY <1>1, <1>2, <1>3, <1>5, <1>6, <1>7 DEF th, l

\* An error is thrown.
LEMMA Throws ==
    ASSUME IInv, NEW a, At(a), a # "protected", a # "resumed",
           NEW s, IsThread(s), s.jmp = l.jmp, s.nc >= l.nc, NEW status, Throw(s, status)
    PROVE  IInv'
<1> DEFINE n == Len(C)
<1>1. /\ n \in Nat /\ n >= 2 /\ Len(C) = n /\ C[n].at # "resumed" /\ th = C[n].th /\ Good(L, C)
      /\ s.jmp = L[th].jmp /\ s.nc >= L[th].nc
    BY Here DEF IInv
<1>2. Good([L EXCEPT ![th] = s], [SubSeq(C, 1, s.jmp) EXCEPT ![s.jmp].at = "caught", ![s.jmp].status = status])
    <2> HIDE DEF n
    <2> QED BY <1>1, Thrown
<1> QED BY <1>2 DEF Throw, Thread, IInv

\* The thread changes, and the C stack does not.
LEMMA Stays ==
    ASSUME IInv, NEW a, At(a), NEW s, Keeps(s, l), Thread(s), C' = C
    PROVE  IInv'
<1>1. l = L[th] /\ Good(L, C)
    BY Here DEF IInv
<1>2. Good([L EXCEPT ![th] = s], C)
    BY <1>1, SameThread
<1> QED BY <1>2 DEF IInv, Thread

\* A function of C returns.
LEMMA Leaves ==
    ASSUME IInv, NEW a, At(a), a \notin {"trying", "caught"}, Returns,
           L' = L \/ \E s : Keeps(s, l) /\ Thread(s)
    PROVE  IInv'
<1> DEFINE n == Len(C)
<1>1. /\ n \in Nat /\ n >= 1 /\ Len(C) = n /\ C[n].at = a /\ l = L[th] /\ Good(L, C)
    BY Here DEF IInv
<1>2. ~IsTry(C[n])
    BY <1>1 DEF IsTry
<1>3. Good(L', C)
    BY <1>1, SameThread DEF Thread
<1>4. Good(L', SubSeq(C, 1, n - 1))
    <2> HIDE DEF n
    <2> QED BY <1>1, <1>2, <1>3, Pop
<1> QED BY <1>4 DEF IInv, Returns, Front

LEMMA CReturns ==
    ASSUME IInv, NEW a, At(a), a \notin {"trying", "caught"}, NEW s, Keeps(s, l), NEW n, CReturn(s, n)
    PROVE  IInv'
<1> DEFINE t == Poscall(s, n)
<1>1. IsThread(s)
    BY DEF Keeps
<1>2. Keeps(t, s)
    BY <1>1, ReturnKept
<1> HIDE DEF t
<1>3. Keeps(Restore(t), t)
    BY <1>2, ReturnKept DEF Keeps
<1>4. Keeps(t, l) /\ Keeps(Restore(t), l)
    BY <1>2, <1>3 DEF Keeps
<1>5. Returns /\ (Thread(t) \/ Thread(Restore(t)))
    BY DEF CReturn, t
<1> QED BY <1>4, <1>5, Leaves

\* A plain function of C calls.
LEMMA CallsOn ==
    ASSUME IInv, NEW a, At(a), Plain(a), NEW s, Keeps(s, l), Thread(s), NEW b, Plain(b), NEW recs, Calls(b, recs),
           \/ recs = <<>>
           \/ \E func, nres, noyield : recs = <<CallRec(th, func, nres, noyield)>>
           \/ \E at : Plain(at) /\ recs = <<Rec(at, th)>>
    PROVE  IInv'
<1> DEFINE n == Len(C)
           MM == [L EXCEPT ![th] = s]
           DD == [C EXCEPT ![n].at = b]
<1>1. n \in Nat /\ n >= 1 /\ Len(C) = n /\ Plain(C[n].at) /\ C[n].th = th /\ l = L[th] /\ Good(L, C)
    BY Here DEF IInv
<1>2. Good(MM, C)
    BY <1>1, SameThread
<1>3. L' = MM /\ C' = DD \o recs
    BY DEF Thread, Calls
<1> HIDE DEF n, MM
<1>4. /\ Good(MM, DD \o <<>>)
      /\ \A func, nres, noyield : Good(MM, DD \o <<CallRec(C[n].th, func, nres, noyield)>>)
      /\ \A at : Plain(at) => Good(MM, DD \o <<Rec(at, C[n].th)>>)
    BY <1>1, <1>2, Calling
<1> HIDE DEF DD
<1>5. Good(MM, DD \o recs)
    BY <1>1, <1>4
<1> QED BY <1>3, <1>5 DEF IInv

\* An error is raised: thrown, or given to the handler.
LEMMA Errs ==
    ASSUME IInv, NEW a, At(a), Plain(a), NEW s, Keeps(s, l), NEW msg, ErrorMsg(s, msg)
    PROVE  IInv'
<1> DEFINE n == Len(C)
           DD == [C EXCEPT ![n].at = "raising"]
<1>1. CASE s.errf = 0
    <2>1. Keeps(Put(s, msg), s)
        BY StackKept DEF Keeps
    <2>2. Throw(Put(s, msg), "ERRRUN")
        BY <1>1 DEF ErrorMsg
    <2> DEFINE t == Put(s, msg)
    <2>3. IsThread(t) /\ t.jmp = l.jmp /\ t.nc >= l.nc
        BY <2>1 DEF Keeps, IsThread
    <2> HIDE DEF t
    <2> QED BY <2>2, <2>3, Throws DEF t, Plain
<1>2. CASE s.errf # 0
    <2> DEFINE t == Put(Put(s, s.stk[s.errf]), msg)
               MM == [L EXCEPT ![th] = t]
    <2>1. Keeps(t, l)
        <3>1. \A u, v : IsThread(u) => Keeps(Put(u, v), u)
            BY StackKept
        <3> QED BY <3>1 DEF Keeps
    <2>2. \E frame, func : L' = MM /\ C' = DD \o <<[at |-> "handled", th |-> th, frame |-> frame], CallRec(th, func, 1, 1)>>
        BY <1>2 DEF ErrorMsg, Thread, Calls
    <2>3. n \in Nat /\ n >= 2 /\ Len(C) = n /\ Plain(C[n].at) /\ C[n].th = th /\ l = L[th] /\ Good(L, C)
          /\ IsSeq(C) /\ n \in 1..Len(C) /\ IsRecord(C[n]) /\ Plain("raising")
        BY Here DEF IInv, Plain
    <2> HIDE DEF n, t
    <2>4. Good(MM, C)
        BY <2>1, <2>3, SameThread
    <2> HIDE DEF MM
    <2>5. DD = [C EXCEPT ![n] = Waiting(C[n], "raising")]
        BY <2>3, LabelIs DEF Waiting
    <2> HIDE DEF DD
    <2>6. Good(MM, DD)
        BY <2>3, <2>4, <2>5, Waits
    <2>7. Len(DD) = n
        BY <2>3, <2>5, UpdateIs
    <2>8. DD[n] = Waiting(C[n], "raising")
        BY <2>3, <2>5, UpdateIs
    <2>9. DD[n].th = th /\ Plain(DD[n].at)
        BY <2>3, <2>8, WaitingIs
    <2>10. \A frame, func : Good(MM, DD \o <<[at |-> "handled", th |-> DD[n].th, frame |-> frame],
                                             CallRec(DD[n].th, func, 1, 1)>>)
        BY <2>3, <2>6, <2>7, <2>9, Handles
    <2> QED BY <2>2, <2>9, <2>10 DEF IInv
<1> QED BY <1>1, <1>2

\* A function is entered by a plain function of C, or by luaV_execute.
LEMMA EntersOn ==
    ASSUME IInv, NEW a, At(a), Plain(a), NEW p, Keeps(p.s, l), p.next = "c" => p.f \in CFunctions,
           NEW b, Plain(b), Enter(p, b)
    PROVE  IInv'
<1>1. CASE p.next = "c"
    <2>1. Plain(p.f) /\ Thread(p.s) /\ Calls(b, <<Rec(p.f, th)>>)
        BY <1>1 DEF Enter, CFunctions, Plain
    <2> QED BY <2>1, CallsOn
<1>2. CASE p.next = "errerr"
    <2>1. Throw(p.s, "ERRERR")
        BY <1>2 DEF Enter
    <2>2. IsThread(p.s) /\ p.s.jmp = l.jmp /\ p.s.nc >= l.nc
        BY DEF Keeps, IsThread
    <2> QED BY <2>1, <2>2, Throws DEF Plain
<1>3. CASE p.next = "lua" /\ b = "run"
    <2>1. Thread(p.s) /\ C' = C
        BY <1>3 DEF Enter
    <2> QED BY <2>1, Stays
<1>4. CASE p.next = "lua" /\ b # "run"
    <2> DEFINE s == [p.s EXCEPT !.ci[Depth(p.s)].fresh = TRUE]
    <2>1. Thread(s) /\ Calls(b, <<Rec("run", th)>>)
        BY <1>4 DEF Enter
    <2>2. Keeps(s, l)
        BY DEF Keeps, IsThread
    <2>3. Plain("run")
        BY DEF Plain
    <2> HIDE DEF s
    <2> QED BY <2>1, <2>2, <2>3, CallsOn
<1>5. CASE p.next \notin {"c", "errerr", "lua"}
    <2>1. ErrorMsg(p.s, p.next)
        BY <1>5 DEF Enter
    <2> QED BY <2>1, Errs
<1> QED BY <1>1, <1>2, <1>3, <1>4, <1>5

-----------------------------------------------------------------------------
(* The actions.                                                            *)

LEMMA CalledStep == IInv /\ Called => IInv'
<1> SUFFICES ASSUME IInv, Called PROVE IInv'
    OBVIOUS
<1> DEFINE n == Len(C)
           s == [l EXCEPT !.nc = @ - 1, !.nny = @ - Last(C).noyield]
<1>1. At("called") /\ L' = [L EXCEPT ![th] = s] /\ C' = SubSeq(C, 1, n - 1)
    BY DEF Called, Thread, Returns, Front
<1>2. /\ n \in Nat /\ n >= 1 /\ Len(C) = n /\ C[n].at = "called" /\ th = C[n].th /\ IsRecord(C[n])
      /\ l = L[th] /\ IsThread(l) /\ Good(L, C)
    BY <1>1, Here DEF IInv
<1>3. ~IsTry(C[n]) /\ Counted(C[n])
    BY <1>2 DEF IsTry, Counted, Enters, IsRecord
<1>4. IsThread(s) /\ s.jmp = L[th].jmp /\ s.nc = L[th].nc - 1
    BY <1>2 DEF IsThread
<1> HIDE DEF n, s
<1>5. Good([L EXCEPT ![th] = s], SubSeq(C, 1, n - 1))
    BY <1>2, <1>3, <1>4, PopCounted
<1> QED BY <1>1, <1>5 DEF IInv

LEMMA HandledStep == IInv /\ Handled => IInv'
<1> SUFFICES ASSUME IInv, Handled PROVE IInv'
    OBVIOUS
<1>1. At("handled") /\ Throw(l, "ERRRUN")
    BY DEF Handled
<1>2. IsThread(l) /\ l.nc >= l.nc
    BY <1>1, Here DEF IsThread
<1> QED BY <1>1, <1>2, Throws

LEMMA TryReturnsStep == IInv /\ TryReturns => IInv'
<1> SUFFICES ASSUME IInv, TryReturns PROVE IInv'
    OBVIOUS
<1> DEFINE n == Len(C)
           s == [l EXCEPT !.jmp = C[n].prev, !.nc = C[n].oldnc]
<1>1. PICK a \in {"trying", "caught"} : At(a)
    BY DEF TryReturns
<1>2. /\ n \in Nat /\ n >= 1 /\ Len(C) = n /\ C[n].at = a /\ th = C[n].th /\ IsRecord(C[n])
      /\ l = L[th] /\ IsThread(l) /\ Good(L, C) /\ Last(C) = C[n]
    BY <1>1, Here DEF IInv
<1>3. L' = [L EXCEPT ![th] = s] /\ C' = SubSeq(C, 1, n - 1)
    BY <1>2 DEF TryReturns, Thread, Returns, Front
<1>4. IsTry(C[n])
    BY <1>2 DEF IsTry
<1>5. IsThread(s) /\ s.jmp = C[n].prev /\ s.nc = C[n].oldnc
    BY <1>2, <1>4 DEF IsThread, IsRecord
<1> HIDE DEF n, s
<1>6. Good([L EXCEPT ![th] = s], SubSeq(C, 1, n - 1))
    BY <1>2, <1>4, <1>5, PopTry
<1> QED BY <1>3, <1>6 DEF IInv

LEMMA PcallReturnsStep == IInv /\ PcallReturns => IInv'
<1> SUFFICES ASSUME IInv, PcallReturns PROVE IInv'
    OBVIOUS
<1>1. At("protected") /\ Returns
    BY DEF PcallReturns
<1>2. IsThread(l)
    BY <1>1, Here
<1> DEFINE c == Last(C)
           e == ErrorObject(l, ret, c.func)
           undo == [e EXCEPT !.ci = SubSeq(@, 1, c.ci), !.nny = c.nny]
           s == Shrink(undo)
<1>3. Thread([l EXCEPT !.errf = c.errf]) \/ Thread([s EXCEPT !.errf = c.errf])
    BY DEF PcallReturns
<1>4. Keeps([l EXCEPT !.errf = c.errf], l)
    BY <1>2, FieldKept
<1>5. Keeps(e, l)
    BY <1>2, ErrorKept
<1>6. Keeps(undo, e)
    <2> HIDE DEF e
    <2> QED BY <1>5 DEF Keeps, IsThread
<1>7. Keeps(s, undo)
    <2> HIDE DEF undo
    <2> QED BY <1>6, ErrorKept DEF Keeps
<1>8. Keeps([s EXCEPT !.errf = c.errf], s)
    <2> HIDE DEF s
    <2> QED BY <1>7, FieldKept DEF Keeps
<1>9. Keeps([s EXCEPT !.errf = c.errf], l)
    <2> DEFINE x == [s EXCEPT !.errf = c.errf]
    <2> HIDE DEF e, undo, s, x
    <2>1. Keeps(x, l)
        BY <1>5, <1>6, <1>7, <1>8 DEF Keeps, x
    <2> QED BY <2>1 DEF x
<1> QED BY <1>1, <1>3, <1>4, <1>9, Leaves

\* More records are pushed, one of them a protected call.
LEMMA PushMore ==
    ASSUME NEW LL, NEW CC, Good(LL, CC), NEW n \in Nat, Len(CC) = n, n >= 2,
           Plain(CC[n].at) \/ CC[n].at \in {"trying", "protected"},
           NEW r, IsRecord(r), r.th = CC[n].th, ~IsTry(r), ~Counted(r)
    PROVE  Good(LL, Append(CC, r))
BY Push DEF Plain

LEMMA PcallStartStep == IInv /\ PcallStart => IInv'
<1> SUFFICES ASSUME IInv, PcallStart PROVE IInv'
    OBVIOUS
<1>1. PICK f \in {"pcall", "xpcall"} :
    /\ At(f)
    /\ LET plain == Insert(l, 1, "true")
           args == SubSeq(l.stk, Ci(l).func + 3, Top(l))
           withHandler == [l EXCEPT !.stk = SubSeq(@, 1, Ci(l).func + 2) \o <<"true", @[Ci(l).func + 1]>> \o args]
           s == IF f = "pcall" THEN plain ELSE withHandler
           skip == IF f = "pcall" THEN 0 ELSE 2
           func == Ci(l).func + 2 + skip
           errf == IF f = "pcall" THEN 0 ELSE Ci(l).func + 2
           try == TryRec(th, s)
           cont == [s EXCEPT !.errf = errf, !.ci[Depth(s)] =
                      [@ EXCEPT !.k = "finishpcall", !.ctx = skip, !.extra = func, !.olderr = s.errf, !.yp = TRUE]]
       IN IF l.nny > 0
          THEN /\ Thread([s EXCEPT !.errf = errf, !.jmp = Len(C) + 2])
               /\ Calls("pcalled", <<PcallRec(th, s, func), try, CallRec(th, func, MULTRET, 1)>>)
          ELSE Thread(cont) /\ Calls("pcallked", <<CallRec(th, func, MULTRET, 0)>>)
    BY Zenon DEF PcallStart
<1> DEFINE plain == Insert(l, 1, "true")
           args == SubSeq(l.stk, Ci(l).func + 3, Top(l))
           withHandler == [l EXCEPT !.stk = SubSeq(@, 1, Ci(l).func + 2) \o <<"true", @[Ci(l).func + 1]>> \o args]
           s == IF f = "pcall" THEN plain ELSE withHandler
           skip == IF f = "pcall" THEN 0 ELSE 2
           func == Ci(l).func + 2 + skip
           errf == IF f = "pcall" THEN 0 ELSE Ci(l).func + 2
           cont == [s EXCEPT !.errf = errf, !.ci[Depth(s)] =
                      [@ EXCEPT !.k = "finishpcall", !.ctx = skip, !.extra = func, !.olderr = s.errf, !.yp = TRUE]]
           n == Len(C)
<1>2. /\ n \in Nat /\ n >= 2 /\ Len(C) = n /\ Plain(C[n].at) /\ C[n].th = th /\ IsRecord(C[n])
      /\ l = L[th] /\ IsThread(l) /\ Good(L, C) /\ IsSeq(C) /\ th \in Threads /\ n \in 1..Len(C)
    BY <1>1, Here DEF IInv, Plain
<1>3. Plain("pcalled") /\ Plain("pcallked") /\ Plain(f)
    BY DEF Plain
<1>4. Keeps(s, l)
    <2>1. Keeps(plain, l)
        BY <1>2, StackKept
    <2>2. Keeps(withHandler, l)
        BY <1>2, FieldKept
    <2> QED BY <2>1, <2>2
<1>5. CASE ~(l.nny > 0)
    <2>1. Thread(cont) /\ Calls("pcallked", <<CallRec(th, func, MULTRET, 0)>>)
        BY <1>1, <1>5
    <2> HIDE DEF s
    <2>2. Keeps(cont, l)
        BY <1>4 DEF Keeps, IsThread
    <2> HIDE DEF cont, func
    <2> QED BY <1>1, <1>3, <2>1, <2>2, CallsOn
<1>6. CASE l.nny > 0
    <2> DEFINE t == [s EXCEPT !.errf = errf, !.jmp = n + 2]
               r1 == PcallRec(th, s, func)
               r2 == TryRec(th, s)
               r3 == CallRec(th, func, MULTRET, 1)
               D0 == [C EXCEPT ![n].at = "pcalled"]
               D1 == Append(D0, r1)
               D2 == Append(D1, r2)
               L1 == [L EXCEPT ![th] = s]
               L2 == [L EXCEPT ![th] = t]
    <2>1. L' = L2 /\ C' = D0 \o <<r1, r2, r3>>
        BY <1>1, <1>6 DEF Thread, Calls
    <2> HIDE DEF s, func, n, errf
    <2>2. Good(L1, C)
        BY <1>2, <1>4, SameThread
    <2>3. /\ IsRecord(r1) /\ r1.th = th /\ ~IsTry(r1) /\ ~Counted(r1) /\ r1.at = "protected"
          /\ IsRecord(r2) /\ r2.th = th /\ IsTry(r2) /\ ~Counted(r2) /\ r2.prev = s.jmp /\ r2.oldnc = s.nc
          /\ r2.at = "trying"
          /\ IsRecord(r3) /\ r3.th = th /\ ~IsTry(r3) /\ ~Counted(r3)
        BY <1>2, <1>4 DEF PcallRec, TryRec, CallRec, IsRecord, IsTry, Counted, Enters, Keeps, IsThread
    <2>4. IsThread(t) /\ t.jmp = n + 2 /\ t.nc = s.nc
        BY <1>2, <1>4 DEF Keeps, IsThread
    <2>5. L1[th] = s /\ L2 = [L1 EXCEPT ![th] = t]
        BY <1>2 DEF Good, AreThreads
    <2>6. D0 = [C EXCEPT ![n] = Waiting(C[n], "pcalled")]
        BY <1>2, LabelIs DEF Waiting
    <2> HIDE DEF r1, r2, r3, t, L1, L2, D0
    <2>7. Good(L1, D0)
        BY <1>2, <1>3, <2>2, <2>6, Waits
    <2>8. Len(D0) = n
        BY <1>2, <2>6, UpdateIs
    <2>9. D0[n] = Waiting(C[n], "pcalled")
        BY <1>2, <2>6, UpdateIs
    <2>10. D0[n].th = th /\ Plain(D0[n].at) /\ IsSeq(D0)
        BY <1>2, <1>3, <2>7, <2>9, WaitingIs DEF Good
    <2>11. D0 \o <<r1, r2, r3>> = Append(D2, r3)
        BY <2>10, ConcatIs
    <2>12. Good(L1, D1)
        BY <1>2, <2>3, <2>7, <2>8, <2>10, PushMore
    <2>13. IsSeq(D1) /\ Len(D1) = n + 1 /\ D1[n + 1] = r1
        BY <2>8, <2>10, AppendIs
    <2> HIDE DEF D1
    <2>14. IsSeq(D2) /\ Len(D2) = n + 2 /\ D2[n + 2] = r2
        <3>1. Len(D2) = (n + 1) + 1 /\ D2[(n + 1) + 1] = r2 /\ IsSeq(D2)
            BY <2>13, AppendIs
        <3> QED BY <1>2, <3>1
    <2> HIDE DEF D2
    <2> DEFINE m == n + 1
               k == n + 2
    <2>15. m \in Nat /\ m >= 2 /\ Len(D1) = m /\ D1[m].at # "call" /\ D1[m].th = th
        BY <1>2, <2>3, <2>13
    <2>16. k \in Nat /\ k >= 2 /\ Len(D2) = k /\ D2[k].at = "trying" /\ D2[k].th = th /\ k = m + 1
        BY <1>2, <2>3, <2>14
    <2>17. t.jmp = m + 1 /\ t.nc = L1[r2.th].nc /\ r2.prev = L1[r2.th].jmp /\ r2.oldnc = L1[r2.th].nc
        BY <2>3, <2>4, <2>5, <2>16
    <2> HIDE DEF m, k
    <2>18. Good([L1 EXCEPT ![r2.th] = t], Append(D1, r2))
        BY <2>3, <2>4, <2>12, <2>15, <2>17, PushTry
    <2>19. Good(L2, D2)
        BY <2>3, <2>5, <2>18 DEF D2
    <2>20. Good(L2, Append(D2, r3))
        BY <2>3, <2>16, <2>19, PushMore
    <2> QED BY <2>1, <2>11, <2>20 DEF IInv
<1> QED BY <1>5, <1>6

LEMMA FinishKept ==
    ASSUME NEW s, IsThread(s), NEW status, NEW skip
    PROVE  Keeps(FinishPcall(s, status, skip).s, s) /\ Keeps(FinishCcall(s, status), s)
<1>1. \A u, v : IsThread(u) => Keeps(Put(u, v), u)
    BY StackKept
<1>2. ASSUME NEW u, IsThread(u), NEW v, NEW w PROVE Keeps(FinishPcall(u, v, w).s, u)
    <2>1. FinishPcall(u, v, w).s \in {u, Put(Put(u, "false"), Last(u.stk))}
        BY DEF FinishPcall
    <2>2. Keeps(Put(Put(u, "false"), Last(u.stk)), u) /\ Keeps(u, u)
        BY <1>1, <1>2 DEF Keeps
    <2> QED BY <2>1, <2>2
<1>3. Keeps(FinishCcall(s, status), s)
    <2> DEFINE c == Ci(s)
               t == IF c.yp THEN [s EXCEPT !.errf = c.olderr, !.ci[Depth(s)].yp = FALSE] ELSE s
               r == IF c.k = "finishpcall" THEN FinishPcall(t, status, c.ctx) ELSE [s |-> t, n |-> GetTop(t) - 1]
    <2>1. Keeps(t, s) /\ IsThread(t)
        BY DEF Keeps, IsThread
    <2> HIDE DEF t
    <2>2. Keeps(r.s, t)
        <3>1. Keeps(t, t)
            BY <2>1 DEF Keeps
        <3>2. r.s \in {t, FinishPcall(t, status, c.ctx).s}
            OBVIOUS
        <3> QED BY <1>2, <2>1, <3>1, <3>2
    <2>3. FinishCcall(s, status) = Poscall(r.s, r.n)
        BY Zenon DEF FinishCcall, t
    <2> HIDE DEF r
    <2>4. Keeps(Poscall(r.s, r.n), r.s)
        BY <2>2, ReturnKept DEF Keeps
    <2> QED BY <2>1, <2>2, <2>3, <2>4 DEF Keeps
<1> QED BY <1>2, <1>3

LEMMA PcallEndsStep == IInv /\ PcallEnds => IInv'
<1> SUFFICES ASSUME IInv, PcallEnds PROVE IInv'
    OBVIOUS
<1>1. CASE At("pcalled")
    <2>1. IsThread(l)
        BY <1>1, Here
    <2>2. ASSUME At("pcallked") PROVE FALSE
        BY <1>1, <2>2 DEF At
    <2> DEFINE r == FinishPcall(l, ret, Skip(l))
    <2>3. CReturn(r.s, r.n)
        BY <2>2 DEF PcallEnds
    <2>4. Keeps(r.s, l)
        BY <2>1, FinishKept
    <2> HIDE DEF r
    <2> QED BY <1>1, <2>3, <2>4, CReturns
<1>2. CASE At("pcallked")
    <2>1. IsThread(l)
        BY <1>2, Here
    <2>2. ASSUME At("pcalled") PROVE FALSE
        BY <1>2, <2>2 DEF At
    <2> DEFINE s == [l EXCEPT !.errf = Ci(l).olderr, !.ci[Depth(l)].yp = FALSE]
               r == FinishPcall(s, "OK", Ci(s).ctx)
    <2>3. CReturn(r.s, r.n)
        BY <2>2 DEF PcallEnds
    <2>4. Keeps(s, l) /\ IsThread(s)
        BY <2>1 DEF Keeps, IsThread
    <2> HIDE DEF s
    <2>5. Keeps(r.s, s)
        BY <2>4, FinishKept
    <2>6. Keeps(r.s, l)
        BY <2>4, <2>5 DEF Keeps
    <2> HIDE DEF r
    <2> QED BY <1>2, <2>3, <2>6, CReturns
<1> QED BY <1>1, <1>2 DEF PcallEnds

LEMMA SortStep == IInv /\ (SortStart \/ SortEnds) => IInv'
<1>1. ASSUME IInv, SortStart PROVE IInv'
    <2> DEFINE s == Put(Put(Put(l, l.stk[Ci(l).func + 1]), "x"), "y")
               func == Top(l) + 1
    <2>1. At("sort") /\ Thread(s) /\ Calls("sorted", <<CallRec(th, func, 1, 1)>>)
        BY <1>1 DEF SortStart
    <2>2. Keeps(s, l)
        <3>1. \A u, v : IsThread(u) => Keeps(Put(u, v), u)
            BY StackKept
        <3> QED BY <1>1, <2>1, <3>1, Here DEF Keeps
    <2>3. Plain("sort") /\ Plain("sorted")
        BY DEF Plain
    <2> HIDE DEF s, func
    <2> QED BY <1>1, <2>1, <2>2, <2>3, CallsOn
<1>2. ASSUME IInv, SortEnds PROVE IInv'
    <2> DEFINE s == SetTop(l, Top(l) - 1)
    <2>1. At("sorted") /\ CReturn(s, 0)
        BY <1>2 DEF SortEnds
    <2>2. Keeps(s, l)
        BY <1>2, <2>1, Here, StackKept
    <2> HIDE DEF s
    <2> QED BY <1>2, <2>1, <2>2, CReturns
<1> QED BY <1>1, <1>2

LEMMA DofileStep == IInv /\ (DofileStart \/ DofileEnds) => IInv'
<1>1. ASSUME IInv, DofileStart PROVE IInv'
    <2> DEFINE s == Put(SetTop(Put(l, "nil"), Ci(l).func + 1), "fun")
               t == [s EXCEPT !.ci[Depth(s)].k = "dofilecont"]
    <2>1. /\ At("dofile")
          /\ \/ Thread(t) /\ Calls("didfile", <<CallRec(th, Top(s), MULTRET, 0)>>)
             \/ Thread(s) /\ Calls("didfile", <<CallRec(th, Top(s), MULTRET, 1)>>)
        BY <1>1 DEF DofileStart
    <2>2. Keeps(s, l)
        <3>1. \A u, v : IsThread(u) => Keeps(Put(u, v), u) /\ Keeps(SetTop(u, v), u)
            BY StackKept
        <3> QED BY <1>1, <2>1, <3>1, Here DEF Keeps
    <2>3. Plain("dofile") /\ Plain("didfile")
        BY DEF Plain
    <2> HIDE DEF s
    <2>4. Keeps(t, l)
        BY <2>2 DEF Keeps, IsThread
    <2> HIDE DEF t
    <2>5. CASE Thread(t) /\ Calls("didfile", <<CallRec(th, Top(s), MULTRET, 0)>>)
        BY <1>1, <2>1, <2>3, <2>4, <2>5, CallsOn
    <2>6. CASE Thread(s) /\ Calls("didfile", <<CallRec(th, Top(s), MULTRET, 1)>>)
        BY <1>1, <2>1, <2>2, <2>3, <2>6, CallsOn
    <2> QED BY <2>1, <2>5, <2>6
<1>2. ASSUME IInv, DofileEnds PROVE IInv'
    <2>1. At("didfile") /\ CReturn(l, GetTop(l) - 1)
        BY <1>2 DEF DofileEnds
    <2>2. Keeps(l, l)
        BY <1>2, <2>1, Here DEF Keeps
    <2> QED BY <1>2, <2>1, <2>2, CReturns
<1> QED BY <1>1, <1>2

LEMMA ErrorStep == IInv /\ Error => IInv'
<1> SUFFICES ASSUME IInv, Error PROVE IInv'
    OBVIOUS
<1> DEFINE s == SetTop(l, Ci(l).func)
<1>1. At("error") /\ \E msg : ErrorMsg(s, msg)
    BY DEF Error
<1>2. Keeps(s, l) /\ Plain("error")
    BY <1>1, Here, StackKept DEF Plain
<1> HIDE DEF s
<1> QED BY <1>1, <1>2, Errs

LEMMA YieldStep == IInv /\ Yield => IInv'
<1> SUFFICES ASSUME IInv, Yield PROVE IInv'
    OBVIOUS
<1> DEFINE s == [l EXCEPT !.st = "YIELD",
                          !.ci[Depth(l)] = [@ EXCEPT !.extra = Ci(l).func, !.k = "none", !.func = Top(l) - GetTop(l)]]
<1>1. At("yield") /\ (ErrorMsg(l, "noyield") \/ Throw(s, "YIELD"))
    BY DEF Yield
<1>2. IsThread(l) /\ Keeps(l, l) /\ Plain("yield")
    BY <1>1, Here DEF Keeps, Plain
<1>3. IsThread(s) /\ s.jmp = l.jmp /\ s.nc >= l.nc
    BY <1>2 DEF IsThread
<1> HIDE DEF s
<1>4. CASE ErrorMsg(l, "noyield")
    BY <1>1, <1>2, <1>4, Errs
<1>5. CASE Throw(s, "YIELD")
    BY <1>1, <1>3, <1>5, Throws
<1> QED BY <1>1, <1>4, <1>5

\* The call of a function of C: a first error, a thread that is over the limit
\* twice, or a function that is entered.
LEMMA CallStep == IInv /\ Call => IInv'
<1> SUFFICES ASSUME IInv, Call PROVE IInv'
    OBVIOUS
<1> DEFINE n == Len(C)
           c == Last(C)
           s == [l EXCEPT !.nc = @ + 1, !.nny = @ + c.noyield]
           p == Precall(s, c.func, c.nres)
<1>1. At("call")
    BY DEF Call
<1>2. /\ n \in Nat /\ n >= 2 /\ Len(C) = n /\ C[n].at = "call" /\ th = C[n].th /\ IsRecord(C[n]) /\ th \in Threads
      /\ l = L[th] /\ IsThread(l) /\ Good(L, C) /\ IsSeq(C) /\ n \in 1..Len(C) /\ Len(C) <= n
    BY <1>1, Here DEF IInv
<1>3. IsThread(s) /\ s.jmp = L[th].jmp /\ s.nc = L[th].nc + 1 /\ s.jmp = l.jmp /\ s.nc >= l.nc
    BY <1>2 DEF IsThread
<1>4. \/ s.nc = MaxCCalls /\ ErrorMsg(s, "overflow")
      \/ s.nc >= Most /\ Throw(s, "ERRERR")
      \/ ~(s.nc >= Most) /\ Enter(p, "called")
    BY DEF Call, Most
<1> HIDE DEF s
<1>5. Keeps(p.s, s) /\ (p.next = "c" => p.f \in CFunctions)
    BY <1>3, PrecallIs
<1> HIDE DEF n, p
\* The stack and the threads when a record is pushed on the call.
<1>6. ASSUME NEW a \in {"called", "raising"}, NEW t, Keeps(t, s), s.nc <= Most - 1
      PROVE  LET DD == [C EXCEPT ![n].at = a]
                 MM == [L EXCEPT ![th] = t]
             IN /\ Good(MM, DD) /\ IsSeq(DD) /\ Len(DD) = n /\ DD[n].at = a /\ DD[n].th = th
    <2> DEFINE DD == [C EXCEPT ![n].at = a]
               MM == [L EXCEPT ![th] = t]
               x == Waiting(C[n], a)
    <2>1. DD = [C EXCEPT ![n] = x]
        BY <1>2, LabelIs DEF Waiting
    <2>2. IsRecord(x) /\ x.at = a /\ ~IsTry(x) /\ x.th = th
        BY <1>2 DEF Waiting, IsRecord, IsTry
    <2>3. IsThread(t) /\ t.jmp = L[x.th].jmp /\ t.nc = L[x.th].nc + 1 /\ t.nc <= Most - 1
        BY <1>3, <1>6, <2>2 DEF Keeps
    <2>4. x.at # "call" /\ x.at # "resumed" /\ x.th = C[n].th
        BY <1>2, <1>6, <2>2
    <2> HIDE DEF x
    <2>5. Good([L EXCEPT ![x.th] = t], [C EXCEPT ![n] = x])
        BY <1>2, <2>2, <2>3, <2>4, EnterCall
    <2>6. Len([C EXCEPT ![n] = x]) = n
        BY <1>2, UpdateIs
    <2>7. [C EXCEPT ![n] = x][n] = x
        BY <1>2, UpdateIs
    <2>8. Good(MM, DD)
        BY <2>1, <2>2, <2>5
    <2> HIDE DEF DD, MM
    <2>9. IsSeq(DD) /\ Len(DD) = n /\ DD[n].at = a /\ DD[n].th = th
        BY <2>1, <2>2, <2>6, <2>7, <2>8 DEF Good
    <2> QED BY <2>8, <2>9 DEF DD, MM
<1>7. ASSUME NEW t, Keeps(t, s), s.nc <= Most - 1, NEW msg, ErrorMsg(t, msg) PROVE IInv'
    <2>0. IsThread(t) /\ t.jmp = l.jmp /\ t.nc >= l.nc
        BY <1>3, <1>7 DEF Keeps
    <2>1. CASE t.errf = 0
        <3> DEFINE u == Put(t, msg)
        <3>1. Throw(u, "ERRRUN")
            BY <1>7, <2>1 DEF ErrorMsg
        <3>2. Keeps(u, t)
            BY <2>0, StackKept
        <3> HIDE DEF u
        <3>3. IsThread(u) /\ u.jmp = l.jmp /\ u.nc >= l.nc
            BY <2>0, <3>2 DEF Keeps
        <3> QED BY <1>1, <3>1, <3>3, Throws
    <2>2. CASE t.errf # 0
        <3> DEFINE u == Put(Put(t, t.stk[t.errf]), msg)
                   DD == [C EXCEPT ![n].at = "raising"]
                   MM == [L EXCEPT ![th] = u]
        <3>1. \E frame, func : L' = MM /\ C' = DD \o <<[at |-> "handled", th |-> th, frame |-> frame], CallRec(th, func, 1, 1)>>
            BY <1>7, <2>2 DEF ErrorMsg, Thread, Calls, n
        <3>2. Keeps(u, s)
            <4>1. \A v, w : IsThread(v) => Keeps(Put(v, w), v)
                BY StackKept
            <4> QED BY <1>7, <2>0, <4>1 DEF Keeps
        <3> HIDE DEF u
        <3>3. Good(MM, DD) /\ Len(DD) = n /\ DD[n].at = "raising" /\ DD[n].th = th
            BY <1>6, <1>7, <3>2
        <3>4. Plain(DD[n].at)
            BY <3>3 DEF Plain
        <3> HIDE DEF MM, DD
        <3>5. \A frame, func : Good(MM, DD \o <<[at |-> "handled", th |-> DD[n].th, frame |-> frame],
                                                CallRec(DD[n].th, func, 1, 1)>>)
            BY <1>2, <3>3, <3>4, Handles
        <3> QED BY <3>1, <3>3, <3>5 DEF IInv
    <2> QED BY <2>1, <2>2
<1>8. ASSUME NEW t, Keeps(t, s), s.nc <= Most - 1, NEW at, Plain(at), Thread(t), Calls("called", <<Rec(at, th)>>)
      PROVE  IInv'
    <2> DEFINE DD == [C EXCEPT ![n].at = "called"]
               MM == [L EXCEPT ![th] = t]
               r == Rec(at, th)
    <2>1. L' = MM /\ C' = DD \o <<r>>
        BY <1>8 DEF Thread, Calls, n
    <2>2. Good(MM, DD) /\ IsSeq(DD) /\ Len(DD) = n /\ DD[n].at = "called" /\ DD[n].th = th
        BY <1>6, <1>8
    <2>3. IsRecord(r) /\ r.th = th /\ ~IsTry(r) /\ ~Counted(r)
        BY <1>2, <1>8, RecIs
    <2> HIDE DEF DD, MM, r
    <2>4. Good(MM, Append(DD, r))
        BY <1>2, <2>2, <2>3, Push
    <2> QED BY <2>1, <2>2, <2>4, ConcatIs DEF IInv
<1>9. CASE s.nc = MaxCCalls /\ ErrorMsg(s, "overflow")
    <2>1. s.nc <= Most - 1 /\ Keeps(s, s)
        BY <1>3, <1>9, MostIs DEF Keeps
    <2> QED BY <1>7, <1>9, <2>1
<1>10. CASE s.nc >= Most /\ Throw(s, "ERRERR")
    BY <1>1, <1>3, <1>10, Throws
<1>11. CASE ~(s.nc >= Most) /\ Enter(p, "called")
    <2>1. s.nc <= Most - 1
        BY <1>3, <1>11, MostIs DEF IsThread
    <2>2. CASE p.next = "c"
        <3>1. Plain(p.f) /\ Thread(p.s) /\ Calls("called", <<Rec(p.f, th)>>)
            BY <1>5, <1>11, <2>2 DEF Enter, CFunctions, Plain
        <3> QED BY <1>5, <1>8, <2>1, <3>1
    <2>3. CASE p.next = "errerr"
        <3>1. Throw(p.s, "ERRERR")
            BY <1>11, <2>3 DEF Enter
        <3>2. IsThread(p.s) /\ p.s.jmp = l.jmp /\ p.s.nc >= l.nc
            BY <1>3, <1>5 DEF Keeps
        <3> QED BY <1>1, <3>1, <3>2, Throws
    <2>4. CASE p.next = "lua"
        <3> DEFINE t == [p.s EXCEPT !.ci[Depth(p.s)].fresh = TRUE]
        <3>1. Thread(t) /\ Calls("called", <<Rec("run", th)>>)
            BY <1>11, <2>4 DEF Enter
        <3>2. Keeps(t, s)
            BY <1>5 DEF Keeps, IsThread
        <3>3. Plain("run")
            BY DEF Plain
        <3> HIDE DEF t
        <3> QED BY <1>8, <2>1, <3>1, <3>2, <3>3
    <2>5. CASE p.next \notin {"c", "errerr", "lua"}
        <3>1. ErrorMsg(p.s, p.next)
            BY <1>11, <2>5 DEF Enter
        <3> QED BY <1>5, <1>7, <2>1, <3>1
    <2> QED BY <2>2, <2>3, <2>4, <2>5
<1> QED BY <1>4, <1>9, <1>10, <1>11

\* A coroutine is resumed by C, in a protected call that runs it.
LEMMA Resumed ==
    ASSUME IInv, NEW a, At(a), Plain(a), NEW co \in Threads, NEW from, Keeps(from, l),
           NEW s, IsThread(s), s.jmp = L[co].jmp, s.nc = l.nc + 1,
           NEW m \in Nat, m = Len(C) + 2, NEW w, w = [s EXCEPT !.jmp = m],
           L' = [L EXCEPT ![th] = from, ![co] = w],
           NEW rec, IsRecord(rec), rec.at = "resumed", rec.th = co, ~Enters(rec),
           NEW more, IsRecord(more), more.th = co, ~IsTry(more), ~Counted(more),
           C' = [C EXCEPT ![Len(C)].at = "resuming"] \o <<rec, TryRec(co, s), more>>
    PROVE  IInv'
<1> DEFINE n == Len(C)
           k == n + 1
           try == TryRec(co, s)
           D0 == [C EXCEPT ![n].at = "resuming"]
           D1 == Append(D0, rec)
           D2 == Append(D1, try)
           L1 == [L EXCEPT ![th] = from]
           L2 == [L1 EXCEPT ![co] = s]
           L3 == [L2 EXCEPT ![co] = w]
<1>1. /\ n \in Nat /\ n >= 2 /\ Len(C) = n /\ Plain(C[n].at) /\ C[n].th = th /\ IsRecord(C[n])
      /\ l = L[th] /\ IsThread(l) /\ Good(L, C) /\ IsSeq(C) /\ th \in Threads /\ n \in 1..Len(C)
      /\ Plain("resuming")
    BY Here DEF IInv, Plain
<1>2. k \in Nat /\ k >= 2 /\ m \in Nat /\ m >= 2 /\ m = k + 1 /\ k = n + 1
    BY <1>1
<1>3. C' = D0 \o <<rec, try, more>>
    OBVIOUS
<1>4. IsRecord(try) /\ try.th = co /\ IsTry(try) /\ ~Counted(try) /\ try.prev = s.jmp /\ try.oldnc = s.nc /\ try.at = "trying"
    BY DEF TryRec, IsRecord, IsTry, Counted, Enters, IsThread
<1>5. IsThread(w) /\ w.jmp = m /\ w.nc = s.nc
    BY DEF IsThread
<1>6. DOMAIN L1 = Threads /\ \A u \in Threads : L1[u] = IF u = th THEN from ELSE L[u]
    BY <1>1 DEF Good, AreThreads
<1>7. L1[th].nc = l.nc /\ L1[co].jmp = L[co].jmp
    BY <1>1, <1>6 DEF Keeps
<1>8. L' = L3
    BY <1>1 DEF Good, AreThreads
<1>9. Good(L1, C)
    BY <1>1, SameThread
<1>10. D0 = [C EXCEPT ![n] = Waiting(C[n], "resuming")]
    BY <1>1, LabelIs DEF Waiting
<1> HIDE DEF n, k, try, D0, L1
<1>11. Good(L1, D0)
    BY <1>1, <1>9, <1>10, Waits
<1>12. Len(D0) = n
    BY <1>1, <1>10, UpdateIs
<1>13. D0[n] = Waiting(C[n], "resuming")
    BY <1>1, <1>10, UpdateIs
<1>14. D0[n].th = th /\ D0[n].at = "resuming" /\ IsSeq(D0)
    BY <1>1, <1>11, <1>13, WaitingIs DEF Good
<1>15. D0 \o <<rec, try, more>> = Append(D2, more)
    BY <1>14, ConcatIs
<1>16. IsSeq(D1) /\ Len(D1) = k /\ D1[k] = rec
    BY <1>2, <1>12, <1>14, AppendIs
<1>17. IsSeq(D2) /\ Len(D2) = m /\ D2[m] = try
    <2> HIDE DEF D1
    <2> QED BY <1>2, <1>16, AppendIs
<1>18. s.jmp = L1[rec.th].jmp /\ s.nc = L1[D0[n].th].nc + 1
    BY <1>7, <1>14
<1>19. D0[n].at # "call" /\ D0[n].at # "resumed"
    BY <1>14
<1>20. Good([L1 EXCEPT ![rec.th] = s], D1)
    <2> HIDE DEF D1
    <2> SUFFICES Good([L1 EXCEPT ![rec.th] = s], Append(D0, rec))
        BY DEF D1
    <2> QED BY <1>1, <1>11, <1>12, <1>18, <1>19, PushResumed
<1>21. Good(L2, D1)
    BY <1>20
<1>22. L2[co] = s
    BY <1>6
<1> HIDE DEF L2, D1
<1>23. D1[k].at # "call" /\ try.th = D1[k].th /\ w.jmp = k + 1 /\ w.nc = L2[try.th].nc
       /\ try.prev = L2[try.th].jmp /\ try.oldnc = L2[try.th].nc
    BY <1>2, <1>4, <1>5, <1>16, <1>22
<1>24. Good([L2 EXCEPT ![try.th] = w], Append(D1, try))
    BY <1>2, <1>4, <1>5, <1>16, <1>21, <1>23, PushTry
<1>25. Good(L3, D2)
    BY <1>4, <1>24
<1> HIDE DEF L3, D2
<1>26. Good(L3, Append(D2, more))
    BY <1>2, <1>4, <1>17, <1>25, PushMore
<1> QED BY <1>3, <1>8, <1>15, <1>26 DEF IInv

LEMMA ResumeFailsIs ==
    ASSUME IInv, NEW a, At(a), Plain(a), NEW s, Keeps(s, l), NEW msg, ResumeFails(s, msg)
    PROVE  IInv'
<1> DEFINE t == Put(Put(s, "false"), msg)
<1>1. CReturn(t, 2) \/ ErrorMsg(s, msg)
    BY DEF ResumeFails
<1>2. Keeps(t, l)
    <2>1. \A u, v : IsThread(u) => Keeps(Put(u, v), u)
        BY StackKept
    <2> QED BY <2>1 DEF Keeps
<1> HIDE DEF t
<1>3. CASE CReturn(t, 2)
    BY <1>2, <1>3, CReturns DEF Plain
<1>4. CASE ErrorMsg(s, msg)
    BY <1>4, Errs
<1> QED BY <1>1, <1>3, <1>4

LEMMA ResumeStartStep == IInv /\ ResumeStart => IInv'
<1> SUFFICES ASSUME IInv, ResumeStart PROVE IInv'
    OBVIOUS
<1>1. PICK f \in {"resume", "wrap1", "wrap2"} :
    /\ At(f)
    /\ LET co == Target(l)
           n == Values(l)
           from == IF co = th THEN l ELSE SetTop(l, Top(l) - n)
           to == IF co = th THEN l ELSE [L[co] EXCEPT !.stk = @ \o SubSeq(l.stk, Top(l) - n + 1, Top(l))]
           s == [to EXCEPT !.nc = l.nc + 1, !.nny = 0]
           rec == [at |-> "resumed", th |-> co, from |-> th, nny |-> to.nny]
           try == TryRec(co, s)
       IN IF co \notin Threads THEN ErrorMsg(l, "nothread") /\ UNCHANGED meddled
          ELSE IF Finished(L[co]) THEN ResumeFails(l, "refused") /\ UNCHANGED meddled
          ELSE /\ L' = [L EXCEPT ![th] = from, ![co] = [s EXCEPT !.jmp = Len(C) + 2]]
               /\ Calls("resuming", <<rec, try, [at |-> "resumes", th |-> co, n |-> n, nc |-> s.nc]>>)
               /\ meddled' = (meddled \/ (co # th /\ to.st = "OK" /\ Depth(to) > 1))
    BY Zenon DEF ResumeStart
<1> DEFINE co == Target(l)
           n == Values(l)
           from == IF co = th THEN l ELSE SetTop(l, Top(l) - n)
           to == IF co = th THEN l ELSE [L[co] EXCEPT !.stk = @ \o SubSeq(l.stk, Top(l) - n + 1, Top(l))]
           s == [to EXCEPT !.nc = l.nc + 1, !.nny = 0]
           rec == [at |-> "resumed", th |-> co, from |-> th, nny |-> to.nny]
           more == [at |-> "resumes", th |-> co, n |-> n, nc |-> s.nc]
           m == Len(C) + 2
           w == [s EXCEPT !.jmp = m]
<1>2. Plain(f) /\ IsThread(l) /\ Keeps(l, l) /\ l = L[th] /\ Len(C) \in Nat /\ Good(L, C)
    BY <1>1, Here DEF Plain, Keeps, IInv
<1>3. CASE co \notin Threads
    <2>1. ErrorMsg(l, "nothread")
        BY <1>1, <1>3
    <2> QED BY <1>1, <1>2, <2>1, Errs
<1>4. CASE co \in Threads /\ Finished(L[co])
    <2>1. ResumeFails(l, "refused")
        BY <1>1, <1>4
    <2> QED BY <1>1, <1>2, <2>1, ResumeFailsIs
<1>5. CASE co \in Threads /\ ~Finished(L[co])
    <2>1. L' = [L EXCEPT ![th] = from, ![co] = w] /\ Calls("resuming", <<rec, TryRec(co, s), more>>)
        BY <1>1, <1>5
    <2> HIDE DEF co, n
    <2>2. Keeps(from, l)
        BY <1>2, StackKept
    <2>3. IsThread(L[co])
        BY <1>2, <1>5 DEF Good, AreThreads
    <2>4. Keeps(to, L[co])
        BY <1>2, <2>3 DEF Keeps, IsThread
    <2> HIDE DEF from, to
    <2>5. IsThread(s) /\ s.jmp = L[co].jmp /\ s.nc = l.nc + 1
        BY <1>2, <2>4 DEF Keeps, IsThread
    <2>6. IsRecord(rec) /\ rec.at = "resumed" /\ rec.th = co /\ ~Enters(rec)
        BY <1>5 DEF IsRecord, IsTry, Enters
    <2>7. IsRecord(more) /\ more.th = co /\ ~IsTry(more) /\ ~Counted(more)
        BY <1>5 DEF IsRecord, IsTry, Counted, Enters
    <2> HIDE DEF s, rec, more
    <2>8. m \in Nat /\ m = Len(C) + 2 /\ w = [s EXCEPT !.jmp = m]
        BY <1>2
    <2>9. C' = [C EXCEPT ![Len(C)].at = "resuming"] \o <<rec, TryRec(co, s), more>>
        BY <2>1 DEF Calls
    <2> HIDE DEF m, w
    <2> QED BY <1>1, <1>2, <1>5, <2>1, <2>2, <2>5, <2>6, <2>7, <2>8, <2>9, Resumed
<1> QED BY <1>3, <1>4, <1>5

LEMMA ResumeStep == IInv /\ Resume => IInv'
<1> SUFFICES ASSUME IInv, Resume PROVE IInv'
    OBVIOUS
<1> DEFINE n == Last(C).n
           back == [l EXCEPT !.st = "OK", !.ci[Depth(l)].func = Ci(l).extra]
           p == Precall(l, Top(l) - n, MULTRET)
           x == SetTop(l, Top(l) - n)
<1>1. /\ At("resumes")
      /\ \/ \E msg : Throw(Put(x, msg), "refused")
         \/ Enter(p, "unroll")
         \/ Thread(Poscall(back, n)) /\ Calls("unroll", <<>>)
    BY DEF Resume
<1>2. IsThread(l) /\ Plain("resumes") /\ Plain("unroll")
    BY <1>1, Here DEF Plain
<1>3. Keeps(x, l)
    BY <1>2, StackKept
<1>4. Keeps(p.s, l) /\ (p.next = "c" => p.f \in CFunctions)
    BY <1>2, PrecallIs
<1>5. Keeps(back, l)
    BY <1>2 DEF Keeps, IsThread
<1> HIDE DEF n, back, p, x
<1>6. CASE \E msg : Throw(Put(x, msg), "refused")
    <2>1. PICK msg : Throw(Put(x, msg), "refused")
        BY <1>6
    <2> DEFINE y == Put(x, msg)
    <2>2. Keeps(y, x)
        BY <1>3, StackKept DEF Keeps
    <2> HIDE DEF y
    <2>3. IsThread(y) /\ y.jmp = l.jmp /\ y.nc >= l.nc
        BY <1>2, <1>3, <2>2 DEF Keeps, IsThread
    <2> QED BY <1>1, <2>1, <2>3, Throws DEF y
<1>7. CASE Enter(p, "unroll")
    BY <1>1, <1>2, <1>4, <1>7, EntersOn
<1>8. CASE Thread(Poscall(back, n)) /\ Calls("unroll", <<>>)
    <2> DEFINE y == Poscall(back, n)
    <2>1. Keeps(y, back)
        BY <1>5, ReturnKept DEF Keeps
    <2> HIDE DEF y
    <2>2. Keeps(y, l)
        BY <1>5, <2>1 DEF Keeps
    <2> QED BY <1>1, <1>2, <1>8, <2>2, CallsOn DEF y
<1> QED BY <1>1, <1>6, <1>7, <1>8

LEMMA MetaKept ==
    ASSUME NEW s, IsThread(s)
    PROVE  Keeps(MetaResult(s), s) /\ Keeps(FinishOp(s), s)
<1> DEFINE t == [s EXCEPT !.stk[Ci(s).base + Register] = Last(s.stk)]
<1>1. Keeps(t, s)
    BY DEF Keeps, IsThread
<1> HIDE DEF t
<1>2. Keeps(SetTop(t, Top(s) - 1), t)
    BY <1>1, StackKept DEF Keeps
<1>3. Keeps(MetaResult(s), s)
    BY <1>1, <1>2 DEF MetaResult, Keeps, t
<1>4. Keeps(Restore(s), s)
    BY ReturnKept
<1> QED BY <1>3, <1>4 DEF FinishOp

LEMMA UnrollStep == IInv /\ (Unroll \/ UnrollError) => IInv'
<1>1. ASSUME IInv, Unroll PROVE IInv'
    <2> DEFINE e == FinishOp(l)
               s == [e EXCEPT !.ci[Depth(l)].fresh = TRUE]
    <2>1. /\ At("unroll")
          /\ \/ Returns /\ L' = L
             \/ Thread(s) /\ Calls("unroll", <<Rec("run", th)>>)
             \/ Thread(FinishCcall(l, "YIELD")) /\ C' = C
        BY <1>1 DEF Unroll
    <2>2. IsThread(l) /\ Plain("unroll") /\ Plain("run")
        BY <1>1, <2>1, Here DEF Plain
    <2>3. Keeps(e, l) /\ Keeps(FinishCcall(l, "YIELD"), l)
        BY <2>2, MetaKept, FinishKept
    <2> HIDE DEF e
    <2>4. Keeps(s, l)
        BY <2>3 DEF Keeps, IsThread
    <2> HIDE DEF s
    <2>5. CASE Returns /\ L' = L
        BY <1>1, <2>1, <2>5, Leaves
    <2>6. CASE Thread(s) /\ Calls("unroll", <<Rec("run", th)>>)
        BY <1>1, <2>1, <2>2, <2>4, <2>6, CallsOn
    <2>7. CASE Thread(FinishCcall(l, "YIELD")) /\ C' = C
        BY <1>1, <2>1, <2>3, <2>7, Stays
    <2> QED BY <2>1, <2>5, <2>6, <2>7
<1>2. ASSUME IInv, UnrollError PROVE IInv'
    <2> DEFINE s == FinishCcall(l, Last(C).status)
    <2>1. At("unrollerr") /\ Thread(s) /\ Calls("unroll", <<>>)
        BY <1>2 DEF UnrollError
    <2>2. Keeps(s, l) /\ Plain("unrollerr") /\ Plain("unroll")
        BY <1>2, <2>1, Here, FinishKept DEF Plain
    <2> HIDE DEF s
    <2> QED BY <1>2, <2>1, <2>2, CallsOn
<1> QED BY <1>1, <1>2

\* A resume ends, or the coroutine goes on from a protected call of its own.
LEMMA ResumeReturnsStep == IInv /\ ResumeReturns => IInv'
<1> SUFFICES ASSUME IInv, ResumeReturns PROVE IInv'
    OBVIOUS
<1> DEFINE n == Len(C)
           k == n + 1
           i == Max(Recoverable(l))
           r == Recover(l, ret, i)
           w == [r EXCEPT !.jmp = k]
           e == ErrorObject(l, ret, Top(l) + 1)
           failure == [e EXCEPT !.st = ret]
           Done(s) == [s EXCEPT !.nny = Last(C).nny, !.nc = @ - 1]
           more == [at |-> "unrollerr", th |-> th, status |-> ret]
           x == Waiting(C[n], "resumed")
           D0 == [C EXCEPT ![n].at = "resumed"]
           try == TryRec(th, r)
           D1 == Append(D0, try)
           L1 == [L EXCEPT ![th] = r]
           L2 == [L EXCEPT ![th] = w]
<1>1. /\ At("resumed")
      /\ \/ L' = L2 /\ C' = D0 \o <<try, more>>
         \/ \E s \in {failure, l} : L' = [L EXCEPT ![th] = Done(s)] /\ C' = SubSeq(C, 1, n - 1)
    BY DEF ResumeReturns, Thread, Calls, Returns, Front
<1>2. /\ n \in Nat /\ n >= 2 /\ Len(C) = n /\ C[n].at = "resumed" /\ C[n].th = th /\ IsRecord(C[n])
      /\ l = L[th] /\ IsThread(l) /\ Good(L, C) /\ IsSeq(C) /\ th \in Threads /\ n \in 1..Len(C)
    BY <1>1, Here DEF IInv
<1>3. CASE L' = L2 /\ C' = D0 \o <<try, more>>
    <2>1. Keeps(r, l)
        BY <1>2, ErrorKept
    <2> HIDE DEF r
    <2>2. IsThread(w) /\ w.jmp = k /\ w.nc = r.nc
        BY <1>2, <2>1 DEF Keeps, IsThread
    <2>3. IsRecord(try) /\ try.th = th /\ IsTry(try) /\ ~Counted(try) /\ try.prev = r.jmp /\ try.oldnc = r.nc /\ try.at = "trying"
        BY <1>2, <2>1 DEF TryRec, IsRecord, IsTry, Counted, Enters, Keeps, IsThread
    <2>4. IsRecord(more) /\ more.th = th /\ ~IsTry(more) /\ ~Counted(more)
        BY <1>2 DEF IsRecord, IsTry, Counted, Enters
    <2>5. L1[th] = r /\ L2 = [L1 EXCEPT ![th] = w]
        BY <1>2 DEF Good, AreThreads
    <2>6. D0 = [C EXCEPT ![n] = x]
        BY <1>2, LabelIs DEF Waiting
    <2>7. IsRecord(x) /\ x.at # "call" /\ x.at = "resumed" /\ x.th = th /\ Alike(C[n], x) /\ (Enters(x) <=> Enters(C[n]))
        BY <1>2 DEF Waiting, IsRecord, IsTry, Alike, Enters
    <2>8. Good(L1, C)
        BY <1>2, <2>1, SameThread
    <2> HIDE DEF n, L1, L2, D0, x, try, more, w, k
    <2>9. Good(L1, D0)
        BY <1>2, <2>6, <2>7, <2>8, Relabel
    <2>10. Len(D0) = n
        BY <1>2, <2>6, UpdateIs
    <2>11. D0[n] = x
        BY <1>2, <2>6, UpdateIs
    <2>12. IsSeq(D0) /\ D0[n].at # "call" /\ D0[n].th = th /\ k = n + 1 /\ k \in Nat /\ k >= 2
        BY <1>2, <2>7, <2>9, <2>11 DEF Good, k
    <2>13. D0 \o <<try, more>> = Append(D1, more)
        BY <2>12, ConcatIs
    <2>14. IsSeq(D1) /\ Len(D1) = k /\ D1[k] = try
        BY <2>10, <2>12, AppendIs
    <2>15. w.jmp = n + 1 /\ w.nc = L1[try.th].nc /\ try.prev = L1[try.th].jmp /\ try.oldnc = L1[try.th].nc
           /\ try.th = D0[n].th
        BY <2>2, <2>3, <2>5, <2>12
    <2>16. Good([L1 EXCEPT ![try.th] = w], Append(D0, try))
        BY <1>2, <2>2, <2>3, <2>9, <2>10, <2>12, <2>15, PushTry
    <2>17. Good(L2, D1)
        BY <2>3, <2>5, <2>16
    <2> HIDE DEF D1
    <2>18. Good(L2, Append(D1, more))
        BY <2>3, <2>4, <2>12, <2>14, <2>17, PushMore
    <2> QED BY <1>3, <2>13, <2>18 DEF IInv
<1>4. CASE \E s \in {failure, l} : L' = [L EXCEPT ![th] = Done(s)] /\ C' = SubSeq(C, 1, n - 1)
    <2>1. PICK s \in {failure, l} : L' = [L EXCEPT ![th] = Done(s)] /\ C' = SubSeq(C, 1, n - 1)
        BY <1>4
    <2>2. Keeps(e, l)
        BY <1>2, ErrorKept
    <2> HIDE DEF e
    <2>3. Keeps(failure, l)
        BY <2>2 DEF Keeps, IsThread
    <2>4. Keeps(s, l)
        BY <1>2, <2>3 DEF Keeps
    <2> DEFINE y == Done(s)
    <2>5. IsThread(y) /\ y.jmp = L[th].jmp /\ y.nc = L[th].nc - 1
        BY <1>2, <2>4 DEF Keeps, IsThread
    <2>6. ~IsTry(C[n]) /\ Counted(C[n])
        BY <1>2 DEF IsTry, Counted
    <2> HIDE DEF n, y
    <2>7. Good([L EXCEPT ![th] = y], SubSeq(C, 1, n - 1))
        BY <1>2, <2>5, <2>6, PopCounted
    <2> QED BY <2>1, <2>7 DEF IInv, y
<1> QED BY <1>1, <1>3, <1>4

LEMMA ResumeMovesStep == IInv /\ ResumeMoves => IInv'
<1> SUFFICES ASSUME IInv, ResumeMoves PROVE IInv'
    OBVIOUS
<1> DEFINE n == Len(C)
           co == Target(l)
<1>1. /\ At("resuming")
      /\ \/ L' = L
         \/ \E m, v : co # th /\ L' = [L EXCEPT ![co] = SetTop(L[co], m), ![th].stk = v]
      /\ \E b \in {"gave", "failed"} : \E v : C' = [C EXCEPT ![n] = [at |-> b, th |-> th, n |-> v]]
    BY DEF ResumeMoves
<1>2. /\ n \in Nat /\ n >= 2 /\ Len(C) = n /\ C[n].at = "resuming" /\ C[n].th = th /\ IsRecord(C[n])
      /\ l = L[th] /\ IsThread(l) /\ Good(L, C) /\ IsSeq(C) /\ th \in Threads /\ n \in 1..Len(C)
    BY <1>1, Here DEF IInv
<1> HIDE DEF co, n
<1>3. Good(L', C)
    <2>1. CASE L' = L
        BY <1>2, <2>1
    <2>2. ASSUME NEW m, NEW v, co # th, L' = [L EXCEPT ![co] = SetTop(L[co], m), ![th].stk = v] PROVE Good(L', C)
        <3> DEFINE a == SetTop(L[co], m)
                   b == [L[th] EXCEPT !.stk = v]
        <3>1. co \in Threads => Keeps(a, L[co])
            BY <1>2, StackKept DEF Good, AreThreads
        <3>2. Keeps(b, L[th])
            BY <1>2, FieldKept
        <3>3. L' = [[L EXCEPT ![co] = a] EXCEPT ![th] = b]
            BY <1>2, <2>2 DEF Good, AreThreads
        <3> HIDE DEF a, b
        <3> DEFINE MM == [L EXCEPT ![co] = a]
        <3>4. Good(MM, C)
            BY <1>2, <3>1, SameThread
        <3>5. MM[th] = L[th]
            BY <1>2, <2>2 DEF Good, AreThreads
        <3> HIDE DEF MM
        <3>6. Good([MM EXCEPT ![th] = b], C)
            BY <3>2, <3>4, <3>5, SameThread
        <3> QED BY <3>3, <3>6 DEF MM
    <2> QED BY <1>1, <2>1, <2>2
<1>4. PICK b \in {"gave", "failed"} : \E v : C' = [C EXCEPT ![n] = [at |-> b, th |-> th, n |-> v]]
    BY <1>1
<1>5. PICK v : C' = [C EXCEPT ![n] = [at |-> b, th |-> th, n |-> v]]
    BY <1>4
<1> DEFINE x == [at |-> b, th |-> th, n |-> v]
<1>6. IsRecord(x) /\ x.at # "call" /\ Alike(C[n], x) /\ ~Enters(x)
    BY <1>2 DEF IsRecord, Alike, IsTry, Enters
<1>7. Good(L', [C EXCEPT ![n] = x])
    <2> HIDE DEF x
    <2> QED BY <1>2, <1>3, <1>6, Relabel
<1> QED BY <1>5, <1>7 DEF IInv

LEMMA ResumeEndsStep == IInv /\ ResumeEnds => IInv'
<1> SUFFICES ASSUME IInv, ResumeEnds PROVE IInv'
    OBVIOUS
<1> DEFINE n == Last(C).n
           s == [l EXCEPT !.stk = InsertAt(@, Top(l) - n + 1, "true")]
           t == SetTop(l, Top(l) - 1)
<1>1. \/ At("gave") /\ CReturn(s, n + 1)
      \/ At("gave") /\ CReturn(l, n)
      \/ At("failed") /\ \E msg : ResumeFails(t, msg)
    BY DEF ResumeEnds
<1>2. IsThread(l)
    BY <1>1, Here
<1>3. Keeps(s, l) /\ Keeps(l, l) /\ Keeps(t, l) /\ Plain("gave") /\ Plain("failed")
    <2>1. Keeps(s, l)
        BY <1>2, FieldKept
    <2>2. Keeps(t, l)
        BY <1>2, StackKept
    <2>3. Keeps(l, l) /\ Plain("gave") /\ Plain("failed")
        BY <1>2 DEF Plain, Keeps
    <2> QED BY <2>1, <2>2, <2>3
<1> HIDE DEF s, t
<1>4. CASE At("gave") /\ CReturn(s, n + 1)
    BY <1>3, <1>4, CReturns DEF Plain
<1>5. CASE At("gave") /\ CReturn(l, n)
    BY <1>3, <1>5, CReturns DEF Plain
<1>6. CASE At("failed") /\ \E msg : ResumeFails(t, msg)
    BY <1>3, <1>6, ResumeFailsIs
<1> QED BY <1>1, <1>4, <1>5, <1>6

-----------------------------------------------------------------------------
(* The instructions.                                                       *)

LEMMA RegistersKept ==
    ASSUME IsThread(l), NEW vals, NEW n
    PROVE  Keeps(Registers(vals), l) /\ Keeps(Wanting(Registers(vals), n), l)
<1>1. Keeps(Registers(vals), l)
    BY FieldKept DEF Registers
<1>2. \A u : IsThread(u) => Keeps(Wanting(u, n), u)
    BY DEF Wanting, Keeps, IsThread
<1> QED BY <1>1, <1>2 DEF Keeps

LEMMA CallInsStep == IInv /\ CallIns => IInv'
<1> SUFFICES ASSUME IInv, CallIns PROVE IInv'
    OBVIOUS
<1>1. At("run") /\ \E args, func, n : Enter(Precall(Wanting(Registers(args), n), func, n), "run")
    BY DEF CallIns, Ready
<1>2. PICK args, func, n : Enter(Precall(Wanting(Registers(args), n), func, n), "run")
    BY <1>1
<1> DEFINE s == Wanting(Registers(args), n)
           p == Precall(s, func, n)
<1>3. Keeps(s, l) /\ Plain("run")
    BY <1>1, Here, RegistersKept DEF Plain
<1> HIDE DEF s
<1>4. Keeps(p.s, s) /\ (p.next = "c" => p.f \in CFunctions)
    BY <1>3, PrecallIs DEF Keeps
<1>5. Enter(p, "run")
    BY <1>2 DEF s
<1> HIDE DEF p
<1>6. Keeps(p.s, l)
    BY <1>3, <1>4 DEF Keeps
<1> QED BY <1>1, <1>3, <1>4, <1>5, <1>6, EntersOn

LEMMA ReplaceKept ==
    ASSUME NEW s, IsThread(s)
    PROVE  Keeps(Replace(s), s)
<1>1. PICK u, n, v : Replace(s) = [SetTop([s EXCEPT !.stk = u], n) EXCEPT !.ci = v]
    BY DEF Replace
<1> DEFINE t == [s EXCEPT !.stk = u]
           w == SetTop(t, n)
<1>2. Keeps(t, s)
    BY FieldKept
<1> HIDE DEF t
<1>3. Keeps(w, t)
    BY <1>2, StackKept DEF Keeps
<1> HIDE DEF w
<1>4. Keeps([w EXCEPT !.ci = v], w)
    BY <1>3, FieldKept DEF Keeps
<1>5. Replace(s) = [w EXCEPT !.ci = v]
    BY <1>1 DEF w, t
<1> QED BY <1>2, <1>3, <1>4, <1>5 DEF Keeps

LEMMA TailCallStep == IInv /\ TailCall => IInv'
<1> SUFFICES ASSUME IInv, TailCall PROVE IInv'
    OBVIOUS
<1>1. At("run") /\ \E args, func : LET p == Precall(Wanting(Registers(args), MULTRET), func, MULTRET)
                                   IN (Thread(Replace(p.s)) /\ C' = C) \/ Enter(p, "run")
    BY DEF TailCall, Ready
<1>2. PICK args, func : LET p == Precall(Wanting(Registers(args), MULTRET), func, MULTRET)
                        IN (Thread(Replace(p.s)) /\ C' = C) \/ Enter(p, "run")
    BY <1>1
<1> DEFINE s == Wanting(Registers(args), MULTRET)
           p == Precall(s, func, MULTRET)
<1>3. Keeps(s, l) /\ Plain("run")
    BY <1>1, Here, RegistersKept DEF Plain
<1>4. (Thread(Replace(p.s)) /\ C' = C) \/ Enter(p, "run")
    BY <1>2
<1> HIDE DEF s
<1>5. Keeps(p.s, s) /\ (p.next = "c" => p.f \in CFunctions)
    BY <1>3, PrecallIs DEF Keeps
<1> HIDE DEF p
<1>6. Keeps(p.s, l)
    BY <1>3, <1>5 DEF Keeps
<1>7. CASE Thread(Replace(p.s)) /\ C' = C
    <2> DEFINE t == Replace(p.s)
    <2>1. Keeps(t, p.s)
        BY <1>6, ReplaceKept DEF Keeps
    <2> HIDE DEF t
    <2>2. Keeps(t, l)
        BY <1>6, <2>1 DEF Keeps
    <2> QED BY <1>1, <1>7, <2>2, Stays DEF t
<1>8. CASE Enter(p, "run")
    BY <1>1, <1>3, <1>5, <1>6, <1>8, EntersOn
<1> QED BY <1>4, <1>7, <1>8

LEMMA MetaStep == IInv /\ (Meta \/ MetaReturns) => IInv'
<1>1. ASSUME IInv, Meta PROVE IInv'
    <2> DEFINE t == [l EXCEPT !.stk = @ \o <<"fun", Literal, Literal>>]
               s == Wanting(t, -2)
               func == Top(l) + 1
    <2>1. At("run") /\ Thread(s) /\ Calls("meta", <<CallRec(th, func, 1, 0)>>)
        BY <1>1 DEF Meta, Ready
    <2>2. Keeps(t, l) /\ Plain("run") /\ Plain("meta")
        BY <1>1, <2>1, Here, FieldKept DEF Plain
    <2> HIDE DEF t
    <2>3. Keeps(s, l)
        BY <2>2 DEF Wanting, Keeps, IsThread
    <2> HIDE DEF s, func
    <2> QED BY <1>1, <2>1, <2>2, <2>3, CallsOn
<1>2. ASSUME IInv, MetaReturns PROVE IInv'
    <2>1. At("meta") /\ Thread(MetaResult(l)) /\ Calls("run", <<>>)
        BY <1>2 DEF MetaReturns
    <2>2. Keeps(MetaResult(l), l) /\ Plain("run") /\ Plain("meta")
        BY <1>2, <2>1, Here, MetaKept DEF Plain
    <2> QED BY <1>2, <2>1, <2>2, CallsOn
<1> QED BY <1>1, <1>2

LEMMA LeaveStep ==
    ASSUME IInv, At("run"), NEW s, Keeps(s, l), NEW n, Leave(s, n)
    PROVE  IInv'
<1> DEFINE t == Poscall(s, n)
<1>1. (Returns /\ Thread(t)) \/ (C' = C /\ Thread(Restore(t)))
    BY DEF Leave
<1>2. Keeps(t, s)
    BY ReturnKept DEF Keeps
<1> HIDE DEF t
<1>3. Keeps(Restore(t), t)
    BY <1>2, ReturnKept DEF Keeps
<1>4. Keeps(t, l) /\ Keeps(Restore(t), l)
    BY <1>2, <1>3 DEF Keeps
<1>5. CASE Returns /\ Thread(t)
    BY <1>4, <1>5, Leaves
<1>6. CASE C' = C /\ Thread(Restore(t))
    BY <1>4, <1>6, Stays
<1> QED BY <1>1, <1>5, <1>6

LEMMA ReturnStep == IInv /\ (Return \/ ReturnAll) => IInv'
<1>1. ASSUME IInv, Return PROVE IInv'
    <2>1. At("run") /\ \E vals, n : Leave(Registers(vals), n)
        BY <1>1 DEF Return
    <2>2. \A vals : Keeps(Registers(vals), l)
        BY <1>1, <2>1, Here, RegistersKept
    <2> QED BY <1>1, <2>1, <2>2, LeaveStep
<1>2. ASSUME IInv, ReturnAll PROVE IInv'
    <2>1. At("run") /\ Leave(l, Top(l) - Frame.base)
        BY <1>2 DEF ReturnAll
    <2>2. Keeps(l, l)
        BY <1>2, <2>1, Here DEF Keeps
    <2> QED BY <1>2, <2>1, <2>2, LeaveStep
<1> QED BY <1>1, <1>2

LEMMA NoMemoryStep == IInv /\ NoMemory => IInv'
<1> SUFFICES ASSUME IInv, NoMemory PROVE IInv'
    OBVIOUS
<1>1. At("run") /\ Throw(l, "ERRMEM")
    BY DEF NoMemory, Ready
<1>2. IsThread(l) /\ l.nc >= l.nc
    BY <1>1, Here DEF IsThread
<1> QED BY <1>1, <1>2, Throws

LEMMA CaptureStep == IInv /\ (Capture \/ Set \/ SetCap) => IInv'
<1>1. ASSUME IInv, Capture PROVE IInv'
    BY <1>1 DEF Capture, IInv
<1>2. ASSUME IInv, Set PROVE IInv'
    <2> DEFINE s == [l EXCEPT !.stk[Frame.base] = Literal]
    <2>1. At("run") /\ Thread(s) /\ C' = C
        BY <1>2 DEF Set, Ready
    <2>2. Keeps(s, l)
        BY <1>2, <2>1, Here DEF Keeps, IsThread
    <2> HIDE DEF s
    <2> QED BY <1>2, <2>1, <2>2, Stays
<1>3. ASSUME IInv, SetCap PROVE IInv'
    <2> DEFINE s == [L[uv.th] EXCEPT !.stk[uv.at] = Literal]
    <2>1. C' = C /\ (L' = L \/ L' = [L EXCEPT ![uv.th] = s])
        BY <1>3 DEF SetCap
    <2>2. Good(L, C)
        BY <1>3 DEF IInv
    <2>3. uv.th \in Threads => Keeps(s, L[uv.th])
        BY <2>2 DEF Good, AreThreads, Keeps, IsThread
    <2> HIDE DEF s
    <2>4. Good([L EXCEPT ![uv.th] = s], C)
        BY <2>2, <2>3, SameThread
    <2> QED BY <2>1, <2>2, <2>4 DEF IInv
<1> QED BY <1>1, <1>2, <1>3

-----------------------------------------------------------------------------
(* The theorems.                                                           *)

LEMMA InitGood == Init => IInv
<1> SUFFICES ASSUME Init PROVE IInv
    OBVIOUS
<1> DEFINE r1 == PcallRec(Main, L[Main], 2)
           r2 == [TryRec(Main, L[Main]) EXCEPT !.prev = 0]
           r3 == CallRec(Main, 2, MULTRET, 1)
<1>1. Main \in Threads
    BY DEF Threads
<1>2. DOMAIN L = Threads /\ \A t \in Threads : IsThread(L[t]) /\ L[t].nc = 0 /\ L[t].jmp = IF t = Main THEN 2 ELSE 0
    BY DEF Init, NewThread, IsThread
<1>3. C = <<r1, r2, r3>>
    BY DEF Init
<1>4. /\ IsRecord(r1) /\ r1.th = Main /\ ~IsTry(r1) /\ ~Counted(r1) /\ r1.at = "protected"
      /\ IsRecord(r2) /\ r2.th = Main /\ IsTry(r2) /\ ~Counted(r2) /\ r2.prev = 0 /\ r2.oldnc = 0 /\ r2.at = "trying"
      /\ IsRecord(r3) /\ r3.th = Main /\ ~IsTry(r3) /\ ~Counted(r3) /\ r3.at = "call"
    BY <1>1, <1>2 DEF PcallRec, TryRec, CallRec, IsRecord, IsTry, Counted, Enters
<1> HIDE DEF r1, r2, r3
<1>5. IsSeq(C) /\ Len(C) = 3 /\ C[1] = r1 /\ C[2] = r2 /\ C[3] = r3
    <2>1. C \in Seq({r1, r2, r3})
        BY <1>3
    <2> QED BY <1>3, <2>1 DEF IsSeq
<1>6. \A i \in 1..3 : i = 1 \/ i = 2 \/ i = 3
    OBVIOUS
<1>7. AreThreads(L)
    BY <1>2 DEF AreThreads
<1>8. Base(C) /\ Records(C)
    BY <1>4, <1>5, <1>6 DEF Base, Records
<1>9. Segments(C)
    <2>1. \A i \in 1..3 : C[i].th = Main /\ C[i].at # "resumed"
        BY <1>4, <1>5, <1>6
    <2> QED BY <1>5, <2>1 DEF Segments
<1>10. Jumps(L, C)
    <2>1. \A t : Tries(C, t) = IF t = Main THEN {2} ELSE {}
        BY <1>4, <1>5, <1>6 DEF Tries
    <2>2. \A t \in Threads : Innermost(Tries(C, t), L[t].jmp)
        BY <1>2, <2>1 DEF Innermost
    <2>3. ASSUME NEW i \in 1..3, IsTry(C[i]) PROVE Innermost({j \in Tries(C, C[i].th) : j < i}, C[i].prev)
        <3>1. i = 2
            BY <1>4, <1>5, <1>6, <2>3
        <3>2. {j \in Tries(C, C[i].th) : j < i} = {} /\ C[i].prev = 0
            BY <1>4, <1>5, <2>1, <3>1
        <3> QED BY <3>2 DEF Innermost
    <2> QED BY <1>5, <2>2, <2>3 DEF Jumps
<1>11. \A i \in 1..3 : ~Counted(C[i])
    BY <1>4, <1>5, <1>6
<1>12. \A i \in 1..3 : Count(C, i) = 0
    <2> SUFFICES ASSUME NEW i \in 1..3 PROVE Count(C, i) = 0
        OBVIOUS
    <2>1. CountedTo(C, i) = {}
        BY <1>11 DEF CountedTo
    <2> QED BY <2>1, FS_EmptySet DEF Count
<1>13. Counts(L, C)
    <2>1. \A i \in 1..3 : C[i].th \in Threads /\ (IsTry(C[i]) => C[i].oldnc = 0)
        BY <1>1, <1>4, <1>5, <1>6
    <2> QED BY <1>2, <1>5, <1>12, <2>1 DEF Counts
<1>14. Bounded(C)
    <2>1. Entered(C) = {}
        BY <1>5, <1>11 DEF Entered, Counted
    <2>2. Cardinality({}) = 0
        BY FS_EmptySet
    <2> QED BY <2>1, <2>2, MostIs DEF Bounded
<1> QED BY <1>5, <1>7, <1>8, <1>9, <1>10, <1>13, <1>14 DEF IInv, Good

LEMMA NextGood == IInv /\ [Next]_vars => IInv'
<1> SUFFICES ASSUME IInv, [Next]_vars PROVE IInv'
    OBVIOUS
<1>1. CASE UNCHANGED vars
    BY <1>1 DEF vars, IInv
<1>2. CASE Call \/ Called \/ Handled \/ TryReturns
    BY <1>2, CallStep, CalledStep, HandledStep, TryReturnsStep
<1>3. CASE PcallReturns \/ PcallStart \/ PcallEnds
    BY <1>3, PcallReturnsStep, PcallStartStep, PcallEndsStep
<1>4. CASE SortStart \/ SortEnds \/ DofileStart \/ DofileEnds \/ Error \/ Yield
    BY <1>4, SortStep, DofileStep, ErrorStep, YieldStep
<1>5. CASE ResumeStart \/ Resume \/ Unroll \/ UnrollError \/ ResumeReturns \/ ResumeMoves \/ ResumeEnds
    BY <1>5, ResumeStartStep, ResumeStep, UnrollStep, ResumeReturnsStep, ResumeMovesStep, ResumeEndsStep
<1>6. CASE CallIns \/ TailCall \/ Meta \/ MetaReturns
    BY <1>6, CallInsStep, TailCallStep, MetaStep
<1>7. CASE Return \/ ReturnAll \/ NoMemory \/ Capture \/ Set \/ SetCap
    BY <1>7, ReturnStep, NoMemoryStep, CaptureStep
<1> QED BY <1>1, <1>2, <1>3, <1>4, <1>5, <1>6, <1>7 DEF Next, Steps

\* IInv is an invariant: whatever the program does, the C stack is made of the
\* calls that are in progress, every thread counts those that are below it,
\* and its innermost protected call is the one an error goes to.
THEOREM Invariance == Spec => []IInv
<1> QED BY InitGood, NextGood, PTL DEF Spec

\* A call that is not entered is the last.
LEMMA BoundedEnough == IInv => DepthBounded
<1> SUFFICES ASSUME IInv PROVE DepthBounded
    OBVIOUS
<1> DEFINE n == Len(C)
<1>1. Good(L, C) /\ IsSeq(C) /\ n \in Nat /\ DOMAIN C = 1..n
    BY SeqParts DEF IInv, Good
<1>2. IsFiniteSet(Entered(C)) /\ Cardinality(Entered(C)) \in Nat /\ Cardinality(Entered(C)) <= Most - 1
    BY <1>1, EnteredFinite DEF Good, Bounded
<1>3. CCalls(Threads) \in SUBSET (Entered(C) \cup {n})
    <2> SUFFICES ASSUME NEW i \in CCalls(Threads) PROVE i \in Entered(C) \cup {n}
        OBVIOUS
    <2>1. i \in 1..n /\ "noyield" \in DOMAIN C[i]
        BY <1>1 DEF CCalls
    <2>2. C[i].at = "call" => i = n
        BY <1>1, <2>1 DEF Good, Records
    <2> QED BY <2>1, <2>2 DEF Entered, Enters
<1>4. IsFiniteSet(Entered(C) \cup {n}) /\ Cardinality(Entered(C) \cup {n}) <= Cardinality(Entered(C)) + 1
    <2> DEFINE S == Entered(C)
    <2> HIDE DEF S, n
    <2>1. IsFiniteSet(S \cup {n}) /\ Cardinality(S \cup {n}) = IF n \in S THEN Cardinality(S) ELSE Cardinality(S) + 1
        BY <1>2, FS_AddElement DEF S
    <2>2. Cardinality(S) \in Nat
        BY <1>2 DEF S
    <2> QED BY <2>1, <2>2 DEF S
<1>5. Cardinality(CCalls(Threads)) <= Cardinality(Entered(C) \cup {n})
      /\ Cardinality(CCalls(Threads)) \in Nat /\ Cardinality(Entered(C) \cup {n}) \in Nat
    BY <1>3, <1>4, FS_Subset, FS_CardinalityType
<1>6. Cardinality(CCalls(Threads)) <= Most
    BY <1>2, <1>4, <1>5, MostIs
<1> QED BY <1>6 DEF DepthBounded, Most

\* luaD_call's two limits hold for every program, number of coroutines and
\* LUAI_MAXCCALLS: handlers of handlers, protected calls that give the count
\* back and resumes nest calls of C to nine eighths of the limit and no deeper.
THEOREM Bound == Spec => []DepthBounded
<1>1. IInv => DepthBounded
    BY BoundedEnough
<1> QED BY <1>1, Invariance, PTL

\* An error always has somewhere to go: the innermost protected call of the
\* thread that runs is on the C stack and is the thread's own, and no other
\* thread's protected call is above it, so that the long jump of luaD_throw
\* skips nobody's.
ErrorsGoHome ==
  C # <<>> /\ Last(C).at \notin {"protected", "resumed"} =>
    /\ l.jmp \in 1..Len(C) /\ C[l.jmp].at \in {"trying", "caught"} /\ C[l.jmp].th = th
    /\ \A t \in Threads : L[t].jmp <= l.jmp

LEMMA HomeEnough == IInv => ErrorsGoHome
<1> SUFFICES ASSUME IInv, C # <<>>, Last(C).at \notin {"protected", "resumed"}
             PROVE  /\ l.jmp \in 1..Len(C) /\ C[l.jmp].at \in {"trying", "caught"} /\ C[l.jmp].th = th
                    /\ \A t \in Threads : L[t].jmp <= l.jmp
    BY DEF ErrorsGoHome
<1> DEFINE n == Len(C)
<1>1. At(Last(C).at)
    BY DEF At
<1>2. n \in Nat /\ n >= 2 /\ Len(C) = n /\ C[n].at # "resumed" /\ th = C[n].th /\ l = L[th] /\ Good(L, C)
    BY <1>1, Here DEF IInv
<1> HIDE DEF n
<1>3. /\ L[C[n].th].jmp \in 1..n /\ IsTry(C[L[C[n].th].jmp]) /\ C[L[C[n].th].jmp].th = C[n].th
      /\ \A u \in Threads : L[u].jmp <= L[C[n].th].jmp
    BY <1>2, ThrowReach
<1> QED BY <1>2, <1>3 DEF IsTry

THEOREM Home == Spec => []ErrorsGoHome
<1>1. IInv => ErrorsGoHome
    BY HomeEnough
<1> QED BY <1>1, Invariance, PTL

\* The running function's thread counts every call of C on the C stack, those
\* of other threads included: what luaD_call and lua_resume compare with the
\* limit is never less than the depth of the machine's own stack.
NothingUncounted ==
  C # <<>> => Cardinality({i \in DOMAIN C : Counted(C[i])}) <= l.nc

LEMMA CountedEnough == IInv => NothingUncounted
<1> SUFFICES ASSUME IInv, C # <<>>
             PROVE  Cardinality({i \in DOMAIN C : Counted(C[i])}) <= l.nc
    BY DEF NothingUncounted
<1> DEFINE n == Len(C)
           S == {i \in DOMAIN C : Counted(C[i])}
<1>1. At(Last(C).at)
    BY DEF At
<1>2. n \in Nat /\ n >= 1 /\ th = C[n].th /\ l = L[th] /\ Good(L, C) /\ DOMAIN C = 1..n /\ th \in Threads /\ IsThread(l)
    BY <1>1, Here, SeqParts DEF IInv
<1>3. Count(C, n) <= l.nc
    BY <1>2 DEF Good, Counts
<1>4. S \in SUBSET CountedTo(C, n)
    BY <1>2 DEF CountedTo
<1>5. IsFiniteSet(CountedTo(C, n)) /\ Count(C, n) \in Nat
    BY <1>2, CountType
<1>6. Cardinality(S) <= Count(C, n) /\ Cardinality(S) \in Nat
    BY <1>4, <1>5, FS_Subset, FS_CardinalityType DEF Count
<1>7. l.nc \in Int
    BY <1>2 DEF IsThread
<1> QED BY <1>3, <1>5, <1>6, <1>7

THEOREM Counting == Spec => []NothingUncounted
<1>1. IInv => NothingUncounted
    BY CountedEnough
<1> QED BY <1>1, Invariance, PTL
================================================================================
