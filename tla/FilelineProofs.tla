--------------------------- MODULE FilelineProofs ---------------------------
(***************************************************************************)
(* Proofs about Fileline: for any number of threads and modules, with any  *)
(* of them failing, no call goes through a null pointer, a function is     *)
(* published only after the data it searches, the lists only grow, and no  *)
(* thread reads a module twice.                                            *)
(***************************************************************************)
EXTENDS Fileline, SequenceTheorems, TLAPS

Appending == {"walk", "swap"}
Reading == {"elf", "elf_syms", "elf_dwarf"} \cup Appending
Ending == {"set_syminfo", "load_fn", "set_fn"}

\* A thread that reads has a module, and one that appends has a list.
Placed ==
    \A t \in Threads :
        /\ pc[t] \in Reading => mod[t] \in 1..NMods
        /\ pc[t] \in Appending => list[t] \in Lists

Typed == TypeOK /\ Placed

\* The two pointers: syminfo_fn is set first, and both are when a call has
\* initialised or found that it need not.
FnsInOrder ==
    /\ fileline_fn # "NULL" => syminfo_fn # "NULL"
    /\ \A t \in Threads :
        /\ pc[t] \in Reading \cup Ending => elf_fn[t] # "NULL"
        /\ pc[t] \in {"load_fn", "set_fn"} => syminfo_fn # "NULL"
        /\ pc[t] \in {"recheck", "apply"} => fileline_fn # "NULL"

\* What a thread knows to be published is.
FoundIsThere ==
    \A t \in Threads :
        /\ found_sym[t] /\ ~(pc[t] \in Appending /\ list[t] = "syms") =>
             data["syms"] # << >>
        /\ elf_fn[t] = "dwarf_fileline" => data["dwarf"] # << >>

\* The entries of thread t are of modules before m.
EntriesBefore(l, t, m) ==
    \A i \in 1..Len(data[l]) : data[l][i].by = t => data[l][i].mod < m

SymsDone(t) == pc[t] = "elf_dwarf" \/ (pc[t] \in Appending /\ list[t] = "dwarf")
Upto(l, t) == IF l = "syms" /\ SymsDone(t) THEN mod[t] + 1 ELSE mod[t]
ReadNothing(t) == \A l \in Lists : EntriesBefore(l, t, 1)

\* How far a thread has read, and that it reads only if it has not yet.
ReadSoFar ==
    \A t \in Threads :
        /\ pc[t] \in Reading => \A l \in Lists : EntriesBefore(l, t, Upto(l, t))
        /\ pc[t] = "open" => ReadNothing(t)
        /\ pc[t] = "check_fn" => ReadNothing(t) \/ fileline_fn # "NULL"
        /\ pc[t] \in {"idle", "check_failed", "return"} =>
             ReadNothing(t) \/ fileline_fn # "NULL" \/ fileline_initialization_failed

IInv ==
    /\ Typed /\ FnsInOrder /\ FoundIsThere /\ PublishedAfterData
    /\ ReadSoFar /\ ReadOnce /\ AnswersUnlessFailed

-----------------------------------------------------------------------------
(* The lists                                                               *)

\* What appending one entry does.
LEMMA AppendFacts ==
    ASSUME NEW s \in Seq(Entry), NEW e \in Entry
    PROVE  /\ Append(s, e) \in Seq(Entry)
           /\ Append(s, e) # << >>
           /\ Len(Append(s, e)) = Len(s) + 1
           /\ \A i \in 1..Len(s) : Append(s, e)[i] = s[i]
           /\ Append(s, e)[Len(s) + 1] = e
           /\ SubSeq(Append(s, e), 1, Len(s)) = s
<1>1. /\ Append(s, e) \in Seq(Entry)
      /\ Len(Append(s, e)) = Len(s) + 1
      /\ \A i \in 1..Len(s) : Append(s, e)[i] = s[i]
      /\ Append(s, e)[Len(s) + 1] = e
    BY AppendProperties
<1>2. Len(s) \in Nat
    BY LenProperties
<1>3. Append(s, e) # << >>
    BY <1>1, <1>2, EmptySeq
<1>4. SubSeq(Append(s, e), 1, Len(s)) = s
    <2> DEFINE p == SubSeq(Append(s, e), 1, Len(s))
    <2>1. \A i \in 1..Len(s) : Append(s, e)[i] \in Entry
        BY <1>1, ElementOfSeq
    <2>2. /\ p \in Seq(Entry)
          /\ Len(p) = IF 1 <= Len(s) THEN Len(s) - 1 + 1 ELSE 0
          /\ \A i \in 1..(Len(s) - 1 + 1) : p[i] = Append(s, e)[1 + i - 1]
        BY <1>2, <2>1, SubSeqProperties
    <2> HIDE DEF p
    <2>3. Len(p) = Len(s) /\ \A i \in 1..Len(s) : p[i] = s[i]
        BY <1>1, <1>2, <2>2
    <2>4. p = s
        BY <2>2, <2>3, SeqEqual
    <2> QED
        BY <2>4 DEF p
<1> QED
    BY <1>1, <1>3, <1>4

\* A thread appends its module to its list.
Appends(t) ==
    /\ pc[t] = "swap"
    /\ list[t] \in Lists
    /\ mod[t] \in 1..NMods
    /\ data' = [data EXCEPT ![list[t]] = Append(@, [mod |-> mod[t], by |-> t])]

\* The only step that changes the lists is a swap that succeeds.
LEMMA DataSteps ==
    ASSUME Typed, [Next]_vars
    PROVE  data' = data \/ \E t \in Threads : Appends(t) /\ Swap(t) /\ Appended(t)
<1>1. CASE UNCHANGED vars
    BY <1>1 DEF vars, shared
<1>2. ASSUME NEW t \in Threads, Swap(t)
      PROVE  data' = data \/ (Appends(t) /\ Swap(t) /\ Appended(t))
    BY <1>2 DEF Swap, Typed, Placed, Appends, Reading, Appending
<1>3. ASSUME NEW t \in Threads, Step(t), ~Swap(t)
      PROVE  data' = data
    BY <1>3 DEF Step, CheckFailed, CheckFn, OpenFails, Open, SkipMissing, ElfAdd,
                ElfFail, ElfSyms, ElfDwarf, Walk, SetSyminfo, LoadFn, SetFn,
                SetFailed, Recheck, Apply, Return, shared
<1>4. ASSUME NEW t \in Threads, NEW f, Call(t, f)
      PROVE  data' = data
    BY <1>4 DEF Call, shared
<1> QED
    BY <1>1, <1>2, <1>3, <1>4 DEF Next

\* What is left of a list after an append, and what is new in it.
LEMMA Grown ==
    ASSUME Typed, NEW t \in Threads, Appends(t), NEW l \in Lists
    PROVE  /\ l # list[t] => data'[l] = data[l]
           /\ l = list[t] =>
                /\ data'[l] # << >>
                /\ Len(data'[l]) = Len(data[l]) + 1
                /\ \A i \in 1..Len(data[l]) : data'[l][i] = data[l][i]
                /\ data'[l][Len(data[l]) + 1] = [mod |-> mod[t], by |-> t]
                /\ SubSeq(data'[l], 1, Len(data[l])) = data[l]
           /\ data'[l] \in Seq(Entry)
           /\ Len(data[l]) \in Nat
<1>1. data \in [Lists -> Seq(Entry)] /\ list[t] \in Lists
    BY DEF Typed, TypeOK, Appends
<1>2. [mod |-> mod[t], by |-> t] \in Entry
    BY DEF Appends, Entry
<1>3. CASE l # list[t]
    BY <1>1, <1>3, LenProperties DEF Appends
<1>4. CASE l = list[t]
    <2>1. data'[l] = Append(data[l], [mod |-> mod[t], by |-> t])
        BY <1>1, <1>4 DEF Appends
    <2>2. data[l] \in Seq(Entry)
        BY <1>1
    <2>3. Len(data[l]) \in Nat
        BY <2>2, LenProperties
    <2>4. /\ data'[l] \in Seq(Entry)
          /\ data'[l] # << >>
          /\ Len(data'[l]) = Len(data[l]) + 1
          /\ \A i \in 1..Len(data[l]) : data'[l][i] = data[l][i]
          /\ data'[l][Len(data[l]) + 1] = [mod |-> mod[t], by |-> t]
          /\ SubSeq(data'[l], 1, Len(data[l])) = data[l]
        BY <1>2, <2>1, <2>2, AppendFacts
    <2> QED
        BY <1>4, <2>3, <2>4
<1> QED
    BY <1>3, <1>4
-----------------------------------------------------------------------------
(* Types                                                                   *)

LEMMA TypedInit == Init => Typed
<1> SUFFICES ASSUME Init PROVE Typed
    OBVIOUS
<1>1. TypeOK
    <2>1. data \in [Lists -> Seq(Entry)]
        BY EmptySeq DEF Init
    <2> QED
        <3>1. found_sym \in [Threads -> BOOLEAN] /\ fileline_initialization_failed \in BOOLEAN
            BY DEF Init
        <3>2. /\ mod \in [Threads -> 0..NMods]
              /\ at \in [Threads -> Nat]
              /\ calls \in [Threads -> 0..2]
            BY ModsAssumption DEF Init
        <3>3. /\ pc \in [Threads -> Labels]
              /\ op \in [Threads -> {"none", "pcinfo", "syminfo"}]
              /\ elf_fn \in [Threads -> FilelineFns]
              /\ list \in [Threads -> Lists \cup {"none"}]
            BY DEF Init, FilelineFns, Labels
        <3>4. /\ fileline_fn \in FilelineFns
              /\ syminfo_fn \in {"NULL", "elf_nosyms", "elf_syminfo"}
            BY DEF Init, FilelineFns
        <3> QED
            BY <2>1, <3>1, <3>2, <3>3, <3>4 DEF TypeOK
<1>2. Placed
    BY DEF Init, Placed, Reading, Appending
<1> QED
    BY <1>1, <1>2 DEF Typed

\* The steps that touch counters, as functions.
LEMMA CountsTyped ==
    ASSUME Typed, NEW t \in Threads
    PROVE  /\ CallBack(t) => calls' \in [Threads -> 0..2]
           /\ mod[t] < NMods => [mod EXCEPT ![t] = @ + 1] \in [Threads -> 0..NMods]
<1>1. CallBack(t) => calls' \in [Threads -> 0..2]
    BY DEF Typed, TypeOK, CallBack
<1>2. mod[t] < NMods => [mod EXCEPT ![t] = @ + 1] \in [Threads -> 0..NMods]
    BY ModsAssumption DEF Typed, TypeOK
<1> QED
    BY <1>1, <1>2

LEMMA TypedNext == Typed /\ [Next]_vars => Typed'
<1> SUFFICES ASSUME Typed, [Next]_vars PROVE Typed'
    OBVIOUS
<1> USE ModsAssumption
<1> USE DEF Labels, FilelineFns
<1>0. data' \in [Lists -> Seq(Entry)]
    <2>1. CASE data' = data
        BY <2>1 DEF Typed, TypeOK
    <2>2. ASSUME NEW t \in Threads, Appends(t) PROVE data' \in [Lists -> Seq(Entry)]
        <3>1. \A l \in Lists : data'[l] \in Seq(Entry)
            BY <2>2, Grown
        <3> QED
            BY <2>2, <3>1 DEF Appends, Typed, TypeOK
    <2> QED
        BY <2>1, <2>2, DataSteps
<1> DEFINE
    Step1(t) == CheckFailed(t) \/ CheckFn(t) \/ OpenFails(t) \/ Recheck(t) \/ Apply(t)
    Step2(t) == SetFailed(t) \/ SetFn(t) \/ SetSyminfo(t)
    Step3(t) == Open(t) \/ ElfAdd(t) \/ ElfSyms(t) \/ LoadFn(t) \/ Return(t)
    Step4(t) == SkipMissing(t) \/ ElfFail(t) \/ ElfDwarf(t)
<1>1. CASE UNCHANGED vars
    BY <1>1 DEF Typed, TypeOK, Placed, vars, shared, locals
<1>2. ASSUME NEW t \in Threads, NEW f \in {"pcinfo", "syminfo"}, Call(t, f)
      PROVE  Typed'
    BY <1>2 DEF Typed, TypeOK, Placed, Call, Goto, shared, locals, Reading, Appending
<1>3. ASSUME NEW t \in Threads, Step1(t)
      PROVE  Typed'
    <2>1. TypeOK'
        <3>1. pc' \in [Threads -> Labels]
            <4>1. PICK x \in {"return", "check_fn", "open", "recheck", "set_failed", "apply"} :
                        Goto(t, x)
                BY <1>3 DEF CheckFailed, CheckFn, OpenFails, Recheck, Apply
            <4> QED
                BY <4>1 DEF Typed, TypeOK, Goto
        <3>2. calls' \in [Threads -> 0..2]
            BY <1>3, CountsTyped DEF Typed, TypeOK, CheckFailed, CheckFn, OpenFails, Recheck,
                    Apply
        <3>3. UNCHANGED <<shared, op, locals>>
            BY <1>3 DEF CheckFailed, CheckFn, OpenFails, Recheck, Apply
        <3> QED
            BY <3>1, <3>2, <3>3 DEF Typed, TypeOK, shared, locals
    <2>2. Placed'
        BY <1>3 DEF Typed, TypeOK, Placed, CheckFailed, CheckFn, OpenFails, Recheck, Apply,
                    Goto, locals, Reading, Appending
    <2> QED
        BY <2>1, <2>2 DEF Typed
<1>4. ASSUME NEW t \in Threads, Step2(t)
      PROVE  Typed'
    <2>1. TypeOK'
        BY <1>4 DEF Typed, TypeOK, SetFailed, SetFn, SetSyminfo, Goto, locals
    <2>2. Placed'
        BY <1>4 DEF Typed, TypeOK, Placed, SetFailed, SetFn, SetSyminfo, Goto, locals,
                    Reading, Appending
    <2> QED
        BY <2>1, <2>2 DEF Typed
<1>5. ASSUME NEW t \in Threads, Step3(t)
      PROVE  Typed'
    <2>1. TypeOK'
        <3>1. pc' \in [Threads -> Labels] /\ op' \in [Threads -> {"none", "pcinfo", "syminfo"}]
            BY <1>5 DEF Typed, TypeOK, Open, ElfAdd, ElfSyms, LoadFn, Return, Goto
        <3>2. /\ mod' \in [Threads -> 0..NMods]
              /\ at' \in [Threads -> Nat]
              /\ calls' \in [Threads -> 0..2]
            BY <1>5 DEF Typed, TypeOK, Open, ElfAdd, ElfSyms, LoadFn, Return
        <3>3. found_sym' \in [Threads -> BOOLEAN]
            BY <1>5 DEF Typed, TypeOK, Open, ElfAdd, ElfSyms, LoadFn, Return
        <3>4. /\ elf_fn' \in [Threads -> FilelineFns]
              /\ list' \in [Threads -> Lists \cup {"none"}]
            BY <1>5 DEF Typed, TypeOK, Open, ElfAdd, ElfSyms, LoadFn, Return, Lists
        <3>5. UNCHANGED shared
            BY <1>5 DEF Open, ElfAdd, ElfSyms, LoadFn, Return
        <3> QED
            BY <1>0, <3>1, <3>2, <3>3, <3>4, <3>5 DEF Typed, TypeOK, shared
    <2>2. Placed'
        BY <1>5 DEF Typed, TypeOK, Placed, Open, ElfAdd, ElfSyms, LoadFn, Return, Goto,
                    Reading, Appending, Lists
    <2> QED
        BY <2>1, <2>2 DEF Typed
<1>6. ASSUME NEW t \in Threads, Step4(t)
      PROVE  Typed'
    <2>1. TypeOK'
        <3>1. pc' \in [Threads -> Labels]
            <4>1. PICK x \in {"elf", "set_syminfo", "set_failed", "walk"} : Goto(t, x)
                BY <1>6 DEF SkipMissing, ElfFail, ElfDwarf, NextMod
            <4> QED
                BY <4>1 DEF Typed, TypeOK, Goto
        <3>2. mod' \in [Threads -> 0..NMods]
            BY <1>6, CountsTyped DEF Typed, TypeOK, SkipMissing, ElfFail, ElfDwarf, NextMod
        <3>3. calls' \in [Threads -> 0..2]
            BY <1>6, CountsTyped DEF Typed, TypeOK, SkipMissing, ElfFail, ElfDwarf
        <3>4. list' \in [Threads -> Lists \cup {"none"}]
            BY <1>6 DEF Typed, TypeOK, SkipMissing, ElfFail, ElfDwarf, Lists
        <3>5. UNCHANGED <<shared, op, found_sym, elf_fn, at>>
            BY <1>6 DEF SkipMissing, ElfFail, ElfDwarf
        <3> QED
            BY <1>0, <3>1, <3>2, <3>3, <3>4, <3>5 DEF Typed, TypeOK, shared
    <2>2. Placed'
        BY <1>6 DEF Typed, TypeOK, Placed, SkipMissing, ElfFail, ElfDwarf, NextMod, Goto,
                    Reading, Appending, Lists
    <2> QED
        BY <2>1, <2>2 DEF Typed
<1>7. ASSUME NEW t \in Threads, Walk(t)
      PROVE  Typed'
    <2>1. Len(data[list[t]]) \in Nat
        BY <1>7, LenProperties DEF Typed, TypeOK, Placed, Walk, Appending
    <2> QED
        BY <1>7, <2>1 DEF Typed, TypeOK, Placed, Walk, Goto, shared, Reading, Appending
<1>8. ASSUME NEW t \in Threads, Swap(t)
      PROVE  Typed'
    <2>1. TypeOK'
        <3>1. pc' \in [Threads -> Labels]
            BY <1>8 DEF Typed, TypeOK, Swap, Appended, NextMod, Goto
        <3>2. mod' \in [Threads -> 0..NMods]
            BY <1>8, CountsTyped DEF Typed, TypeOK, Swap, Appended, NextMod
        <3>3. elf_fn' \in [Threads -> FilelineFns]
            BY <1>8 DEF Typed, TypeOK, Swap, Appended
        <3>4. UNCHANGED <<fileline_initialization_failed, fileline_fn, syminfo_fn,
                          op, found_sym, list, at, calls>>
            BY <1>8 DEF Swap
        <3> QED
            BY <1>0, <3>1, <3>2, <3>3, <3>4 DEF Typed, TypeOK
    <2>2. Placed'
        BY <1>8 DEF Typed, TypeOK, Placed, Swap, Appended, NextMod, Goto, Reading, Appending
    <2> QED
        BY <2>1, <2>2 DEF Typed
<1> QED
    BY <1>1, <1>2, <1>3, <1>4, <1>5, <1>6, <1>7, <1>8 DEF Next, Step

\* A step of t as seen by the others.
LEMMA Frame ==
    ASSUME NEW t \in Threads, Typed, Step(t) \/ \E f \in {"pcinfo", "syminfo"} : Call(t, f),
           NEW u \in Threads, u # t
    PROVE  pc'[u] = pc[u] /\ mod'[u] = mod[u] /\ list'[u] = list[u]
<1> USE DEF Typed, TypeOK
<1>1. ASSUME NEW x, Goto(t, x) PROVE pc'[u] = pc[u]
    BY <1>1 DEF Goto
<1>2. ASSUME NextMod(t) PROVE pc'[u] = pc[u] /\ mod'[u] = mod[u]
    BY <1>1, <1>2 DEF NextMod
<1>3. CASE SkipMissing(t) \/ ElfFail(t) \/ ElfDwarf(t)
    BY <1>1, <1>2, <1>3 DEF SkipMissing, ElfFail, ElfDwarf
<1>4. CASE Swap(t)
    BY <1>1, <1>2, <1>4 DEF Swap, Appended
<1>5. CASE CheckFailed(t) \/ CheckFn(t) \/ OpenFails(t) \/ Open(t) \/ ElfAdd(t) \/ ElfSyms(t)
    BY <1>1, <1>5 DEF CheckFailed, CheckFn, OpenFails, Open, ElfAdd, ElfSyms, locals
<1>6. CASE Walk(t) \/ SetSyminfo(t) \/ LoadFn(t) \/ SetFn(t) \/ SetFailed(t)
           \/ Recheck(t) \/ Apply(t) \/ Return(t)
    BY <1>1, <1>6 DEF Walk, SetSyminfo, LoadFn, SetFn, SetFailed, Recheck, Apply, Return, locals
<1>7. CASE \E f \in {"pcinfo", "syminfo"} : Call(t, f)
    BY <1>1, <1>7 DEF Call, locals
<1> QED
    BY <1>3, <1>4, <1>5, <1>6, <1>7 DEF Step

-----------------------------------------------------------------------------
(* The function pointers                                                   *)

LEMMA FnsNext == Typed /\ FnsInOrder /\ [Next]_vars => FnsInOrder'
<1> SUFFICES ASSUME Typed, FnsInOrder, [Next]_vars PROVE FnsInOrder'
    OBVIOUS
<1> USE DEF Typed, TypeOK, FnsInOrder, Reading, Appending, Ending, Labels, FilelineFns
<1>1. CASE UNCHANGED vars
    BY <1>1 DEF vars, shared, locals
<1>2. ASSUME NEW t \in Threads, NEW f \in {"pcinfo", "syminfo"}, Call(t, f)
      PROVE  FnsInOrder'
    BY <1>2 DEF Call, Goto, shared, locals
<1>3. ASSUME NEW t \in Threads,
             CheckFailed(t) \/ CheckFn(t) \/ OpenFails(t) \/ Recheck(t) \/ Apply(t)
             \/ SetFailed(t) \/ Open(t) \/ ElfAdd(t) \/ ElfSyms(t) \/ Walk(t) \/ Return(t)
      PROVE  FnsInOrder'
    BY <1>3 DEF CheckFailed, CheckFn, OpenFails, Recheck, Apply, SetFailed, Open, ElfAdd,
                ElfSyms, Walk, Return, Goto, shared, locals
<1>4. ASSUME NEW t \in Threads, SkipMissing(t) \/ ElfFail(t) \/ ElfDwarf(t)
      PROVE  FnsInOrder'
    BY <1>4 DEF SkipMissing, ElfFail, ElfDwarf, NextMod, Goto, shared
<1>5. ASSUME NEW t \in Threads, Swap(t)
      PROVE  FnsInOrder'
    BY <1>5 DEF Swap, Appended, NextMod, Goto
<1>6. ASSUME NEW t \in Threads, SetSyminfo(t) \/ LoadFn(t) \/ SetFn(t)
      PROVE  FnsInOrder'
    BY <1>6 DEF SetSyminfo, LoadFn, SetFn, Goto, shared, locals
<1> QED
    BY <1>1, <1>2, <1>3, <1>4, <1>5, <1>6 DEF Next, Step

-----------------------------------------------------------------------------
(* What is published                                                       *)

\* A list that has entries keeps some.
LEMMA StaysNonempty ==
    ASSUME Typed, [Next]_vars, NEW l \in Lists, data[l] # << >>
    PROVE  data'[l] # << >>
<1>1. CASE data' = data
    BY <1>1
<1>2. ASSUME NEW t \in Threads, Appends(t) PROVE data'[l] # << >>
    BY <1>2, Grown
<1> QED
    BY <1>1, <1>2, DataSteps

LEMMA FoundNext ==
    Typed /\ FoundIsThere /\ PublishedAfterData /\ [Next]_vars
        => FoundIsThere' /\ PublishedAfterData'
<1> SUFFICES ASSUME Typed, FoundIsThere, PublishedAfterData, [Next]_vars
             PROVE  FoundIsThere' /\ PublishedAfterData'
    OBVIOUS
<1>a. /\ data["syms"] # << >> => data'["syms"] # << >>
      /\ data["dwarf"] # << >> => data'["dwarf"] # << >>
    BY StaysNonempty DEF Lists
<1>1. CASE UNCHANGED vars
    BY <1>1 DEF FoundIsThere, PublishedAfterData, vars, shared, locals
<1> USE DEF Typed, TypeOK, FoundIsThere, PublishedAfterData, Appending, Labels
<1>2. ASSUME NEW t \in Threads, NEW f \in {"pcinfo", "syminfo"}, Call(t, f)
      PROVE  FoundIsThere' /\ PublishedAfterData'
    BY <1>2 DEF Call, Goto, shared, locals
<1>3. ASSUME NEW t \in Threads,
             CheckFailed(t) \/ CheckFn(t) \/ OpenFails(t) \/ Recheck(t) \/ Apply(t)
             \/ SetFailed(t)
      PROVE  FoundIsThere' /\ PublishedAfterData'
    <2>1. UNCHANGED <<data, fileline_fn, syminfo_fn, locals>>
        BY <1>3 DEF CheckFailed, CheckFn, OpenFails, Recheck, Apply, SetFailed, shared
    <2>2. pc[t] \notin Appending
        BY <1>3 DEF CheckFailed, CheckFn, OpenFails, Recheck, Apply, SetFailed
    <2>3. \A u \in Threads \ {t} : pc'[u] = pc[u]
        BY <1>3, Frame DEF Step
    <2> QED
        BY <2>1, <2>2, <2>3 DEF locals
<1>7. ASSUME NEW t \in Threads, Open(t) \/ ElfAdd(t)
      PROVE  FoundIsThere' /\ PublishedAfterData'
    <2>1. PublishedAfterData'
        BY <1>a, <1>7 DEF Open, ElfAdd, shared
    <2>2. /\ found_sym' = [found_sym EXCEPT ![t] = FALSE]
          /\ elf_fn' = elf_fn \/ elf_fn' = [elf_fn EXCEPT ![t] = "elf_nodebug"]
          /\ data' = data /\ list' = list
          /\ \A u \in Threads \ {t} : pc'[u] = pc[u]
        BY <1>7 DEF Open, ElfAdd, Goto, shared
    <2> QED
        BY <2>1, <2>2
<1>8. ASSUME NEW t \in Threads, ElfSyms(t)
      PROVE  FoundIsThere' /\ PublishedAfterData'
    <2>1. PublishedAfterData' /\ data' = data /\ elf_fn' = elf_fn
        BY <1>8 DEF ElfSyms, shared
    <2>2. ASSUME NEW u \in Threads, found_sym'[u], ~(pc'[u] \in Appending /\ list'[u] = "syms")
          PROVE  data["syms"] # << >>
        <3>1. CASE u = t
            BY <1>8, <2>2, <3>1 DEF ElfSyms, Goto
        <3>2. CASE u # t
            BY <1>8, <2>2, <3>2 DEF ElfSyms, Goto
        <3> QED
            BY <3>1, <3>2
    <2> QED
        BY <2>1, <2>2
<1>9. ASSUME NEW t \in Threads, Walk(t)
      PROVE  FoundIsThere' /\ PublishedAfterData'
    BY <1>9 DEF Walk, Goto, shared
<1>10. ASSUME NEW t \in Threads, Return(t)
      PROVE  FoundIsThere' /\ PublishedAfterData'
    BY <1>10 DEF Return, Goto, shared
<1>4. ASSUME NEW t \in Threads, SkipMissing(t) \/ ElfFail(t) \/ ElfDwarf(t)
      PROVE  FoundIsThere' /\ PublishedAfterData'
    <2>1. UNCHANGED <<shared, found_sym, elf_fn>>
        BY <1>4 DEF SkipMissing, ElfFail, ElfDwarf
    <2>2. pc[t] \notin Appending
        BY <1>4 DEF SkipMissing, ElfFail, ElfDwarf
    <2>3. ASSUME NEW u \in Threads, u # t
          PROVE  pc'[u] = pc[u] /\ list'[u] = list[u]
        BY <1>4, <2>3, Frame DEF Step
    <2>4. found_sym[t] => data["syms"] # << >>
        BY <2>2
    <2> QED
        BY <2>1, <2>3, <2>4 DEF shared
<1>5. ASSUME NEW t \in Threads, Swap(t)
      PROVE  FoundIsThere' /\ PublishedAfterData'
    <2>1. CASE at[t] = Len(data[list[t]])
        <3>1. Appends(t)
            BY <1>5, <2>1 DEF Swap, Placed, Appends, Reading
        <3>2. data'[list[t]] # << >> /\ list[t] \in Lists
            BY <3>1, Grown DEF Appends
        <3> QED
            BY <1>a, <1>5, <2>1, <3>2 DEF Swap, Appended, NextMod, Goto, Lists
    <2>2. CASE at[t] # Len(data[list[t]])
        BY <1>5, <2>2 DEF Swap, Goto
    <2> QED
        BY <2>1, <2>2
<1>6. ASSUME NEW t \in Threads, SetSyminfo(t) \/ LoadFn(t) \/ SetFn(t)
      PROVE  FoundIsThere' /\ PublishedAfterData'
    <2>1. UNCHANGED <<data, found_sym, list>> /\ pc[t] \notin Appending
        BY <1>6 DEF SetSyminfo, LoadFn, SetFn, shared, locals
    <2>2. \A u \in Threads \ {t} : pc'[u] = pc[u]
        BY <1>6, Frame DEF Step
    <2>3. /\ syminfo_fn' = "elf_syminfo" => syminfo_fn = "elf_syminfo" \/ found_sym[t]
          /\ fileline_fn' = "dwarf_fileline" =>
               fileline_fn = "dwarf_fileline" \/ elf_fn[t] = "dwarf_fileline"
        BY <1>6 DEF SetSyminfo, LoadFn, SetFn, shared
    <2>4. \A u \in Threads : elf_fn'[u] = "dwarf_fileline" =>
               elf_fn[u] = "dwarf_fileline" \/ fileline_fn = "dwarf_fileline"
        BY <1>6 DEF SetSyminfo, LoadFn, SetFn, locals
    <2> QED
        BY <2>1, <2>2, <2>3, <2>4
<1> QED
    BY <1>1, <1>2, <1>3, <1>4, <1>5, <1>6, <1>7, <1>8, <1>9, <1>10 DEF Next, Step

LEMMA GrowNext ==
    ASSUME Typed, [Next]_vars, NEW l \in Lists
    PROVE  /\ Len(data'[l]) >= Len(data[l])
           /\ SubSeq(data'[l], 1, Len(data[l])) = data[l]
<1>1. data[l] \in Seq(Entry) /\ Len(data[l]) \in Nat
    BY LenProperties DEF Typed, TypeOK
<1>2. SubSeq(data[l], 1, Len(data[l])) = data[l]
    <2> DEFINE p == SubSeq(data[l], 1, Len(data[l]))
    <2>1. \A i \in 1..Len(data[l]) : data[l][i] \in Entry
        BY <1>1, ElementOfSeq
    <2>2. /\ p \in Seq(Entry)
          /\ Len(p) = IF 1 <= Len(data[l]) THEN Len(data[l]) - 1 + 1 ELSE 0
          /\ \A i \in 1..(Len(data[l]) - 1 + 1) : p[i] = data[l][1 + i - 1]
        BY <1>1, <2>1, SubSeqProperties
    <2> HIDE DEF p
    <2>3. Len(p) = Len(data[l]) /\ \A i \in 1..Len(data[l]) : p[i] = data[l][i]
        BY <1>1, <2>2
    <2>4. p = data[l]
        BY <1>1, <2>2, <2>3, SeqEqual
    <2> QED
        BY <2>4 DEF p
<1>3. CASE data' = data
    BY <1>1, <1>2, <1>3
<1>4. ASSUME NEW t \in Threads, Appends(t)
      PROVE  /\ Len(data'[l]) >= Len(data[l])
             /\ SubSeq(data'[l], 1, Len(data[l])) = data[l]
    <2>1. CASE l # list[t]
        <3>1. data'[l] = data[l]
            BY <1>4, <2>1, Grown
        <3> QED
            BY <1>1, <1>2, <3>1
    <2>2. CASE l = list[t]
        <3>1. /\ Len(data'[l]) = Len(data[l]) + 1
              /\ SubSeq(data'[l], 1, Len(data[l])) = data[l]
            BY <1>4, <2>2, Grown
        <3> QED
            BY <1>1, <3>1
    <2> QED
        BY <2>1, <2>2
<1> QED
    BY <1>3, <1>4, DataSteps

-----------------------------------------------------------------------------
(* Each module once                                                        *)

\* The thread whose entry is new has made its step.
LEMMA AppendMoves ==
    ASSUME Typed, [Next]_vars, NEW t \in Threads, Appends(t)
    PROVE  pc'[t] # "swap"
<1>1. list[t] \in Lists
    BY DEF Appends
<1>2. /\ data'[list[t]][Len(data[list[t]]) + 1] = [mod |-> mod[t], by |-> t]
      /\ Len(data'[list[t]]) = Len(data[list[t]]) + 1
      /\ Len(data[list[t]]) \in Nat
    BY <1>1, Grown
<1>3. data' # data
    BY <1>2
<1>4. PICK u \in Threads : Appends(u) /\ Swap(u) /\ Appended(u)
    BY <1>3, DataSteps
<1>5. u = t
    <2>1. CASE list[u] = list[t]
        <3>1. data'[list[t]][Len(data[list[t]]) + 1] = [mod |-> mod[u], by |-> u]
            BY <1>1, <1>4, <2>1, Grown
        <3> QED
            BY <1>2, <3>1
    <2>2. CASE list[u] # list[t]
        <3>1. data'[list[t]] = data[list[t]]
            BY <1>1, <1>4, <2>2, Grown
        <3> QED
            BY <1>2, <3>1
    <2> QED
        BY <2>1, <2>2
<1> QED
    BY <1>4, <1>5 DEF Appended, NextMod, Goto, Typed, TypeOK

\* Entries of a thread that does not append are as before.
LEMMA OthersEntries ==
    ASSUME Typed, [Next]_vars, NEW t \in Threads, ~Appends(t),
           NEW l \in Lists, NEW m \in Nat, EntriesBefore(l, t, m)
    PROVE  EntriesBefore(l, t, m)'
<1>1. CASE data' = data
    BY <1>1 DEF EntriesBefore
<1>2. ASSUME NEW u \in Threads, Appends(u) PROVE EntriesBefore(l, t, m)'
    <2>1. u # t
        BY <1>2
    <2>2. CASE l # list[u]
        <3>1. data'[l] = data[l]
            BY <1>2, <2>2, Grown
        <3> QED
            BY <3>1 DEF EntriesBefore
    <2>3. CASE l = list[u]
        <3>1. /\ Len(data'[l]) = Len(data[l]) + 1
              /\ \A i \in 1..Len(data[l]) : data'[l][i] = data[l][i]
              /\ data'[l][Len(data[l]) + 1] = [mod |-> mod[u], by |-> u]
              /\ Len(data[l]) \in Nat
            BY <1>2, <2>3, Grown
        <3>2. ASSUME NEW i \in 1..Len(data'[l]), data'[l][i].by = t
              PROVE  data'[l][i].mod < m
            <4>1. i # Len(data[l]) + 1
                BY <2>1, <3>1, <3>2
            <4>2. i \in 1..Len(data[l])
                BY <3>1, <4>1
            <4> QED
                BY <3>1, <3>2, <4>2 DEF EntriesBefore
        <3> QED
            BY <3>2 DEF EntriesBefore
    <2> QED
        BY <2>2, <2>3
<1> QED
    BY <1>1, <1>2, DataSteps

\* A thread that appends its module has then read up to it.
LEMMA OwnEntries ==
    ASSUME Typed, NEW t \in Threads, Appends(t), NEW l \in Lists,
           NEW m \in Nat, EntriesBefore(l, t, m),
           NEW k \in Nat, k = mod[t] + 1, m <= k
    PROVE  /\ l # list[t] => EntriesBefore(l, t, m)'
           /\ EntriesBefore(l, t, k)'
<1>1. mod[t] \in Nat /\ NMods \in Nat
    BY ModsAssumption DEF Appends
<1>2. \A i \in 1..Len(data[l]) : data[l][i].mod \in Nat
    <2> TAKE i \in 1..Len(data[l])
    <2>1. data[l] \in Seq(Entry)
        BY DEF Typed, TypeOK
    <2>2. data[l][i] \in Entry
        BY <2>1, ElementOfSeq
    <2> QED
        BY <1>1, <2>2 DEF Entry
<1>3. CASE l # list[t]
    <2>1. data'[l] = data[l]
        BY <1>3, Grown
    <2> QED
        BY <1>1, <1>2, <1>3, <2>1 DEF EntriesBefore
<1>4. CASE l = list[t]
    <2>1. /\ Len(data'[l]) = Len(data[l]) + 1
          /\ \A i \in 1..Len(data[l]) : data'[l][i] = data[l][i]
          /\ data'[l][Len(data[l]) + 1] = [mod |-> mod[t], by |-> t]
          /\ Len(data[l]) \in Nat
        BY <1>4, Grown
    <2>2. ASSUME NEW i \in 1..Len(data'[l]), data'[l][i].by = t
          PROVE  data'[l][i].mod < k
        <3>1. CASE i = Len(data[l]) + 1
            BY <1>1, <2>1, <3>1
        <3>2. CASE i \in 1..Len(data[l])
            <4>1. data[l][i].by = t /\ data'[l][i].mod = data[l][i].mod
                BY <2>1, <2>2, <3>2
            <4>2. data[l][i].mod < m
                BY <3>2, <4>1 DEF EntriesBefore
            <4> QED
                BY <1>1, <1>2, <3>2, <4>1, <4>2
        <3> QED
            BY <2>1, <3>1, <3>2
    <2> QED
        BY <1>4, <2>2 DEF EntriesBefore
<1> QED
    BY <1>3, <1>4
\* Entries before m are before anything larger.
LEMMA EntriesWeaken ==
    ASSUME Typed', NEW t \in Threads, NEW l \in Lists, NEW m \in Nat, NEW k \in Nat,
           EntriesBefore(l, t, m)', m <= k
    PROVE  EntriesBefore(l, t, k)'
<1>1. ASSUME NEW i \in 1..Len(data'[l])
      PROVE  data'[l][i].mod \in Nat
    <2>1. data'[l] \in Seq(Entry)
        BY DEF Typed, TypeOK
    <2>2. data'[l][i] \in Entry
        BY <2>1, ElementOfSeq
    <2> QED
        BY <2>2, ModsAssumption DEF Entry
<1> QED
    BY <1>1 DEF EntriesBefore

\* What thread t needs of ReadSoFar.
Read(t) ==
    /\ pc[t] \in Reading => \A l \in Lists : EntriesBefore(l, t, Upto(l, t))
    /\ pc[t] = "open" => ReadNothing(t)
    /\ pc[t] = "check_fn" => ReadNothing(t) \/ fileline_fn # "NULL"
    /\ pc[t] \in {"idle", "check_failed", "return"} =>
         ReadNothing(t) \/ fileline_fn # "NULL" \/ fileline_initialization_failed

LEMMA FlagsStay ==
    ASSUME Typed, FnsInOrder, [Next]_vars
    PROVE  /\ fileline_fn # "NULL" => fileline_fn' # "NULL"
           /\ fileline_initialization_failed => fileline_initialization_failed'
<1>1. CASE UNCHANGED vars
    BY <1>1 DEF vars, shared
<1>2. ASSUME NEW t \in Threads, SetFn(t)
      PROVE  /\ fileline_fn' # "NULL"
             /\ fileline_initialization_failed' = fileline_initialization_failed
    BY <1>2 DEF SetFn, FnsInOrder, Ending
<1>3. ASSUME NEW t \in Threads, SetFailed(t)
      PROVE  fileline_fn' = fileline_fn /\ fileline_initialization_failed' = TRUE
    BY <1>3 DEF SetFailed
<1>4. ASSUME NEW t \in Threads, Step(t), ~SetFn(t), ~SetFailed(t)
      PROVE  /\ fileline_fn' = fileline_fn
             /\ fileline_initialization_failed' = fileline_initialization_failed
    BY <1>4 DEF Step, CheckFailed, CheckFn, OpenFails, Open, SkipMissing, ElfAdd,
                ElfFail, ElfSyms, ElfDwarf, Walk, Swap, SetSyminfo, LoadFn,
                Recheck, Apply, Return, shared
<1>5. ASSUME NEW t \in Threads, NEW f, Call(t, f)
      PROVE  /\ fileline_fn' = fileline_fn
             /\ fileline_initialization_failed' = fileline_initialization_failed
    BY <1>5 DEF Call, shared
<1> QED
    BY <1>1, <1>2, <1>3, <1>4, <1>5 DEF Next

\* A thread that appends nothing keeps what it knows of its entries.
LEMMA EntriesStay ==
    ASSUME Typed, [Next]_vars, NEW t \in Threads, ~Appends(t)
    PROVE  /\ \A l \in Lists, m \in Nat : EntriesBefore(l, t, m) => EntriesBefore(l, t, m)'
           /\ ReadNothing(t) => ReadNothing(t)'
<1>1. \A l \in Lists, m \in Nat : EntriesBefore(l, t, m) => EntriesBefore(l, t, m)'
    BY OthersEntries
<1>2. ReadNothing(t) => ReadNothing(t)'
    BY <1>1 DEF ReadNothing
<1> QED
    BY <1>1, <1>2

LEMMA UptoNat ==
    ASSUME Typed, NEW t \in Threads, NEW l \in Lists
    PROVE  Upto(l, t) \in Nat
BY ModsAssumption DEF Typed, TypeOK, Upto

\* A thread that did not append and has not gone back.
LEMMA ReadsOn ==
    ASSUME Typed, Typed', [Next]_vars, NEW t \in Threads, ~Appends(t),
           Read(t), pc[t] \in Reading,
           \A l \in Lists : Upto(l, t) <= Upto(l, t)'
    PROVE  \A l \in Lists : EntriesBefore(l, t, Upto(l, t))'
<1> SUFFICES ASSUME NEW l \in Lists PROVE EntriesBefore(l, t, Upto(l, t))'
    OBVIOUS
<1>1. PICK m \in Nat : m = Upto(l, t)
    BY UptoNat
<1>2. PICK k \in Nat : k = Upto(l, t)'
    BY ModsAssumption DEF Typed, TypeOK, Upto
<1>3. EntriesBefore(l, t, m)
    BY <1>1 DEF Read
<1>4. EntriesBefore(l, t, m)'
    BY <1>3, EntriesStay
<1>5. m <= k
    BY <1>1, <1>2
<1>6. EntriesBefore(l, t, k)'
    BY <1>4, <1>5, EntriesWeaken
<1> QED
    BY <1>2, <1>6 DEF EntriesBefore

\* A step of another thread.
LEMMA ReadOthers ==
    ASSUME Typed, Typed', FnsInOrder, [Next]_vars, NEW t \in Threads, Read(t), ~Appends(t),
           pc'[t] = pc[t], mod'[t] = mod[t], list'[t] = list[t]
    PROVE  Read(t)'
<1>1. pc'[t] \in Reading => \A l \in Lists : EntriesBefore(l, t, Upto(l, t))'
    <2> SUFFICES ASSUME pc'[t] \in Reading
                 PROVE  \A l \in Lists : EntriesBefore(l, t, Upto(l, t))'
        OBVIOUS
    <2>1. \A l \in Lists : Upto(l, t) <= Upto(l, t)'
        BY UptoNat DEF Upto, SymsDone
    <2> QED
        BY <2>1, ReadsOn
<1>2. ReadNothing(t) => ReadNothing(t)'
    BY EntriesStay
<1> QED
    BY <1>1, <1>2, FlagsStay DEF Read

\* A step of t as seen by itself: between modules, within one, and outside.
LEMMA ReadOwn ==
    ASSUME Typed, Typed', FnsInOrder, [Next]_vars, NEW t \in Threads, Read(t),
           Step(t) \/ \E f \in {"pcinfo", "syminfo"} : Call(t, f)
    PROVE  Read(t)'
<1> USE DEF Typed, TypeOK
<1>n. mod[t] \in Nat /\ NMods \in Nat
    BY ModsAssumption
\* What remains to be shown in a step that reads on.
<1>r. ASSUME pc[t] \in Reading, pc'[t] \in Reading, ~Appends(t),
             \A l \in Lists : Upto(l, t) <= Upto(l, t)'
      PROVE  Read(t)'
    <2>1. \A l \in Lists : EntriesBefore(l, t, Upto(l, t))'
        BY <1>r, ReadsOn
    <2> QED
        BY <1>r, <2>1 DEF Read, Reading, Appending
\* In a step to a place where nothing is asked of it.
<1>e. ASSUME pc'[t] \in Ending \cup {"set_failed", "recheck", "apply"}
      PROVE  Read(t)'
    BY <1>e DEF Read, Reading, Appending, Ending
<1>m. ASSUME NextMod(t), pc[t] \in Reading, ~Appends(t), list' = list \/ pc'[t] = "elf"
      PROVE  Read(t)'
    <2>1. CASE mod[t] < NMods
        <3>1. mod'[t] = mod[t] + 1 /\ pc'[t] = "elf"
            BY <1>m, <2>1 DEF NextMod, Goto
        <3>2. \A l \in Lists : Upto(l, t) <= Upto(l, t)'
            BY <1>n, <3>1 DEF Upto, SymsDone, Appending
        <3> QED
            BY <1>m, <1>r, <3>1, <3>2 DEF Reading
    <2>2. CASE ~(mod[t] < NMods)
        BY <1>m, <1>e, <2>2 DEF NextMod, Goto, Ending
    <2> QED
        BY <2>1, <2>2
<1>c. CASE \E f \in {"pcinfo", "syminfo"} : Call(t, f)
    <2>1. pc[t] = "idle" /\ pc'[t] = "check_failed"
        BY <1>c DEF Call, Goto
    <2>2. ~Appends(t)
        BY <2>1 DEF Appends
    <2> QED
        BY <2>1, <2>2, EntriesStay, FlagsStay DEF Read, Reading, Appending
<1>1. CASE CheckFailed(t) \/ CheckFn(t) \/ Return(t)
    <2>1. ~Appends(t)
        BY <1>1 DEF CheckFailed, CheckFn, Return, Appends
    <2>2. UNCHANGED shared
        BY <1>1 DEF CheckFailed, CheckFn, Return
    <2>3. \/ pc'[t] = "return" /\ fileline_initialization_failed
          \/ pc[t] = "check_failed" /\ ~fileline_initialization_failed /\ pc'[t] = "check_fn"
          \/ pc[t] = "check_fn" /\ fileline_fn = "NULL" /\ pc'[t] = "open"
          \/ pc'[t] = "recheck"
          \/ pc[t] = "return" /\ pc'[t] = "idle"
        BY <1>1 DEF CheckFailed, CheckFn, Return, Goto
    <2> QED
        BY <2>1, <2>2, <2>3, EntriesStay DEF Read, Reading, Appending, shared
<1>2. CASE OpenFails(t) \/ SetSyminfo(t) \/ LoadFn(t) \/ SetFn(t)
    <2>1. pc'[t] \in Ending \cup {"set_failed", "recheck", "apply"}
        BY <1>2 DEF OpenFails, SetSyminfo, LoadFn, SetFn, Goto, Ending
    <2> QED
        BY <1>e, <2>1
<1>3. CASE Recheck(t) \/ Apply(t) \/ SetFailed(t)
    <2>1. \/ pc'[t] = "apply"
          \/ pc'[t] = "return" /\ (fileline_fn' # "NULL" \/ fileline_initialization_failed')
        BY <1>3 DEF Recheck, Apply, SetFailed, Goto, FnsInOrder, shared
    <2> QED
        BY <2>1 DEF Read, Reading, Appending
<1>4. CASE Open(t)
    <2>1. pc[t] = "open" /\ pc'[t] = "elf" /\ mod'[t] = 1 /\ data' = data
        BY <1>4 DEF Open, Goto, shared
    <2>2. \A l \in Lists : EntriesBefore(l, t, 1)
        BY <2>1 DEF Read, ReadNothing
    <2>3. \A l \in Lists : Upto(l, t)' = 1
        BY <2>1 DEF Upto, SymsDone, Appending
    <2>4. \A l \in Lists : EntriesBefore(l, t, Upto(l, t))'
        BY <2>1, <2>2, <2>3 DEF EntriesBefore
    <2> QED
        BY <2>1, <2>4 DEF Read, Reading, Appending
<1>5. CASE SkipMissing(t) \/ ElfFail(t)
    <2>1. /\ NextMod(t) \/ pc'[t] = "set_failed"
          /\ pc[t] \in Reading /\ pc[t] # "swap" /\ list' = list
        BY <1>5 DEF SkipMissing, ElfFail, Goto, Reading
    <2> QED
        BY <1>m, <1>e, <2>1 DEF Appends
<1>6. CASE ElfAdd(t) \/ ElfSyms(t) \/ Walk(t)
    <2>1. pc[t] \in {"elf", "elf_syms", "walk"} /\ pc'[t] \in Reading /\ mod' = mod
        BY <1>6 DEF ElfAdd, ElfSyms, Walk, Goto, Reading, Appending
    <2>2. SymsDone(t) => SymsDone(t)'
        BY <1>6 DEF ElfAdd, ElfSyms, Walk, Goto, SymsDone, Appending
    <2>3. \A l \in Lists : Upto(l, t) <= Upto(l, t)'
        BY <1>n, <2>1, <2>2 DEF Upto
    <2> QED
        BY <1>r, <2>1, <2>3 DEF Reading, Appending, Appends
<1>7. CASE ElfDwarf(t)
    <2>1. pc[t] = "elf_dwarf"
        BY <1>7 DEF ElfDwarf
    <2>2. CASE mod[t] \in DwarfMods
        <3>1. pc'[t] = "walk" /\ list'[t] = "dwarf" /\ mod' = mod
            BY <1>7, <2>2 DEF ElfDwarf, Goto
        <3>2. \A l \in Lists : Upto(l, t) <= Upto(l, t)'
            BY <1>n, <3>1 DEF Upto, SymsDone, Appending
        <3> QED
            BY <1>r, <2>1, <3>1, <3>2 DEF Reading, Appending, Appends
    <2>3. CASE mod[t] \notin DwarfMods
        BY <1>7, <1>m, <2>1, <2>3 DEF ElfDwarf, Reading, Appends
    <2> QED
        BY <2>2, <2>3
<1>8. CASE Swap(t)
    <2>1. pc[t] = "swap" /\ list[t] \in Lists /\ mod[t] \in 1..NMods /\ list' = list
        BY <1>8 DEF Swap, Placed, Reading, Appending
    <2>2. CASE ~Appends(t)
        <3>1. pc'[t] = "walk" /\ mod' = mod
            BY <1>8, <2>1, <2>2 DEF Swap, Goto, Appends
        <3>2. \A l \in Lists : Upto(l, t) <= Upto(l, t)'
            BY <1>n, <2>1, <3>1 DEF Upto, SymsDone, Appending
        <3> QED
            BY <1>r, <2>1, <2>2, <3>1, <3>2 DEF Reading, Appending
    <2>3. CASE Appends(t)
        <3>0. Appended(t)
            BY <1>8, <2>3 DEF Swap, Appends, Goto
        <3>1. PICK k \in Nat : k = mod[t] + 1
            BY <1>n
        <3>2. ASSUME NEW l \in Lists, NEW m \in Nat, m = Upto(l, t)
              PROVE  /\ l # list[t] => EntriesBefore(l, t, m)'
                     /\ EntriesBefore(l, t, k)'
            <4>1. m <= k
                BY <1>n, <3>1, <3>2 DEF Upto
            <4>2. EntriesBefore(l, t, m)
                BY <2>1, <3>2 DEF Read, Reading, Appending
            <4> QED
                BY <2>3, <3>1, <4>1, <4>2, OwnEntries
        <3>3. ASSUME NEW l \in Lists PROVE EntriesBefore(l, t, k)'
            BY <3>2, UptoNat
        <3>4. CASE list[t] = "syms"
            <4>1. pc'[t] = "elf_dwarf" /\ mod' = mod
                BY <3>0, <3>4 DEF Appended, Goto
            <4>2. EntriesBefore("syms", t, Upto("syms", t))'
                <5>1. Upto("syms", t)' = k
                    BY <3>1, <4>1 DEF Upto, SymsDone
                <5> QED
                    BY <3>3, <5>1 DEF EntriesBefore, Lists
            <4>3. EntriesBefore("dwarf", t, Upto("dwarf", t))'
                <5>1. Upto("dwarf", t)' = Upto("dwarf", t)
                    BY <4>1 DEF Upto
                <5>2. PICK m \in Nat : m = Upto("dwarf", t)
                    BY UptoNat DEF Lists
                <5>3. EntriesBefore("dwarf", t, m)'
                    BY <3>2, <3>4, <5>2 DEF Lists
                <5> QED
                    BY <5>1, <5>2, <5>3 DEF EntriesBefore
            <4> QED
                BY <4>1, <4>2, <4>3 DEF Read, Lists
        <3>5. CASE list[t] = "dwarf"
            <4>1. NextMod(t)
                BY <3>0, <3>5 DEF Appended
            <4>2. CASE mod[t] < NMods
                <5>1. pc'[t] = "elf" /\ mod'[t] = k
                    BY <3>1, <4>1, <4>2 DEF NextMod, Goto
                <5>2. \A l \in Lists : Upto(l, t)' = k
                    BY <5>1 DEF Upto, SymsDone, Appending
                <5>3. \A l \in Lists : EntriesBefore(l, t, Upto(l, t))'
                    BY <3>3, <5>2 DEF EntriesBefore
                <5> QED
                    BY <5>1, <5>3 DEF Read
            <4>3. CASE ~(mod[t] < NMods)
                BY <1>e, <4>1, <4>3 DEF NextMod, Goto, Ending
            <4> QED
                BY <4>2, <4>3
        <3> QED
            BY <2>1, <3>4, <3>5 DEF Lists
    <2> QED
        BY <2>2, <2>3
<1> QED
    BY <1>c, <1>1, <1>2, <1>3, <1>4, <1>5, <1>6, <1>7, <1>8 DEF Step

LEMMA ReadSoFarNext ==
    Typed /\ Typed' /\ FnsInOrder /\ ReadSoFar /\ [Next]_vars => ReadSoFar'
<1> SUFFICES ASSUME Typed, Typed', FnsInOrder, ReadSoFar, [Next]_vars, NEW u \in Threads
             PROVE  Read(u)'
    BY DEF ReadSoFar, Read
<1>1. Read(u)
    BY DEF ReadSoFar, Read
<1>2. CASE UNCHANGED vars
    <2>1. /\ \A l \in Lists : Upto(l, u)' = Upto(l, u)
          /\ \A l \in Lists : \A m : EntriesBefore(l, u, m)' <=> EntriesBefore(l, u, m)
        BY <1>2 DEF vars, shared, locals, Upto, SymsDone, EntriesBefore
    <2> QED
        BY <1>1, <1>2, <2>1 DEF Read, ReadNothing, EntriesBefore, vars, shared, locals
<1>3. ASSUME NEW t \in Threads,
             Step(t) \/ \E f \in {"pcinfo", "syminfo"} : Call(t, f)
      PROVE  Read(u)'
    <2>1. CASE u = t
        BY <1>1, <1>3, <2>1, ReadOwn
    <2>2. CASE u # t
        <3>1. pc'[u] = pc[u] /\ mod'[u] = mod[u] /\ list'[u] = list[u]
            BY <1>3, <2>2, Frame
        <3>2. CASE Appends(u)
            <4>1. pc'[u] # "swap"
                BY <3>2, AppendMoves
            <4> QED
                BY <3>1, <3>2, <4>1 DEF Appends
        <3>3. CASE ~Appends(u)
            BY <1>1, <3>1, <3>3, ReadOthers
        <3> QED
            BY <3>2, <3>3
    <2> QED
        BY <2>1, <2>2
<1> QED
    BY <1>2, <1>3 DEF Next

\* An entry appended is not there yet.
LEMMA ReadOnceNext ==
    Typed /\ ReadSoFar /\ ReadOnce /\ [Next]_vars => ReadOnce'
<1> SUFFICES ASSUME Typed, ReadSoFar, ReadOnce, [Next]_vars,
                    NEW l \in Lists, NEW i \in 1..Len(data'[l]), NEW j \in 1..Len(data'[l]),
                    data'[l][i] = data'[l][j]
             PROVE  i = j
    BY DEF ReadOnce
<1>1. CASE data'[l] = data[l]
    BY <1>1 DEF ReadOnce
<1>2. ASSUME NEW t \in Threads, Appends(t), l = list[t]
      PROVE  i = j
    <2>1. /\ Len(data'[l]) = Len(data[l]) + 1
          /\ \A k \in 1..Len(data[l]) : data'[l][k] = data[l][k]
          /\ data'[l][Len(data[l]) + 1] = [mod |-> mod[t], by |-> t]
          /\ Len(data[l]) \in Nat
        BY <1>2, Grown
    <2>2. ASSUME NEW k \in 1..Len(data[l])
          PROVE  data[l][k] # [mod |-> mod[t], by |-> t]
        <3>1. EntriesBefore(l, t, mod[t])
            <4>1. pc[t] = "swap" /\ Upto(l, t) = mod[t]
                BY <1>2 DEF Appends, Upto, SymsDone
            <4> QED
                BY <4>1 DEF ReadSoFar, Reading, Appending
        <3>2. ~(mod[t] < mod[t])
            BY <1>2, ModsAssumption DEF Appends
        <3> QED
            <4>1. SUFFICES ASSUME data[l][k] = [mod |-> mod[t], by |-> t] PROVE FALSE
                OBVIOUS
            <4>2. data[l][k].by = t /\ data[l][k].mod = mod[t]
                BY <4>1
            <4> QED
                BY <3>1, <3>2, <4>2 DEF EntriesBefore
    <2>3. CASE i \in 1..Len(data[l]) /\ j \in 1..Len(data[l])
        <3>1. data[l][i] = data[l][j]
            BY <2>1, <2>3
        <3> QED
            BY <2>3, <3>1 DEF ReadOnce
    <2>4. CASE i = Len(data[l]) + 1 \/ j = Len(data[l]) + 1
        <3>1. ASSUME NEW k \in 1..Len(data[l]) PROVE data'[l][k] # data'[l][Len(data[l]) + 1]
            BY <2>1, <2>2
        <3>2. /\ i = Len(data[l]) + 1 \/ i \in 1..Len(data[l])
              /\ j = Len(data[l]) + 1 \/ j \in 1..Len(data[l])
            BY <2>1
        <3> QED
            BY <2>4, <3>1, <3>2
    <2> QED
        BY <2>1, <2>3, <2>4
<1>3. ASSUME NEW t \in Threads, Appends(t), l # list[t]
      PROVE  data'[l] = data[l]
    BY <1>3, Grown
<1> QED
    BY <1>1, <1>2, <1>3, DataSteps

-----------------------------------------------------------------------------
(* Silent calls                                                            *)

\* Who goes to set_failed has just called back; only the second look at the
\* failure flag lets a call return without.
LEMMA AnswersNext == Typed /\ AnswersUnlessFailed /\ [Next]_vars => AnswersUnlessFailed'
<1> SUFFICES ASSUME Typed, AnswersUnlessFailed, [Next]_vars PROVE AnswersUnlessFailed'
    OBVIOUS
<1> USE DEF Typed, TypeOK, AnswersUnlessFailed, Labels
<1>1. CASE UNCHANGED vars
    BY <1>1 DEF vars, shared, locals
<1>2. ASSUME NEW t \in Threads, NEW f \in {"pcinfo", "syminfo"}, Call(t, f)
      PROVE  AnswersUnlessFailed'
    BY <1>2 DEF Call, Goto, shared, locals
<1>0. ASSUME NEW t \in Threads, CallBack(t)
      PROVE  calls'[t] # 0 /\ \A u \in Threads : u # t => calls'[u] = calls[u]
    <2>1. calls \in [Threads -> 0..2] /\ calls[t] \in 0..2
        OBVIOUS
    <2>2. calls'[t] = IF calls[t] < 2 THEN calls[t] + 1 ELSE calls[t]
        BY <1>0, <2>1 DEF CallBack
    <2>3. \A u \in Threads : u # t => calls'[u] = calls[u]
        BY <1>0, <2>1 DEF CallBack
    <2> QED
        BY <2>1, <2>2, <2>3
<1>3. ASSUME NEW t \in Threads, CheckFailed(t) \/ OpenFails(t) \/ Apply(t)
      PROVE  AnswersUnlessFailed'
    <2>1. CallBack(t) \/ (UNCHANGED calls /\ pc'[t] = "check_fn")
        BY <1>3 DEF CheckFailed, OpenFails, Apply, Goto
    <2>2. /\ \A u \in Threads : u # t => pc'[u] = pc[u]
          /\ UNCHANGED fileline_initialization_failed
        BY <1>3 DEF CheckFailed, OpenFails, Apply, Goto, shared
    <2>3. CASE CallBack(t)
        BY <1>0, <2>2, <2>3
    <2>4. CASE UNCHANGED calls /\ pc'[t] = "check_fn"
        BY <2>2, <2>4
    <2> QED
        BY <2>1, <2>3, <2>4
<1>4. ASSUME NEW t \in Threads,
             CheckFn(t) \/ Open(t) \/ ElfAdd(t) \/ ElfSyms(t) \/ Walk(t)
             \/ SetSyminfo(t) \/ LoadFn(t) \/ SetFn(t) \/ Recheck(t)
      PROVE  AnswersUnlessFailed'
    BY <1>4 DEF CheckFn, Open, ElfAdd, ElfSyms, Walk, SetSyminfo, LoadFn, SetFn, Recheck,
                Goto, shared, locals
<1>5. ASSUME NEW t \in Threads, SkipMissing(t) \/ ElfFail(t) \/ ElfDwarf(t)
      PROVE  AnswersUnlessFailed'
    <2>1. /\ CallBack(t) \/ (UNCHANGED calls /\ ~ElfFail(t))
          /\ UNCHANGED fileline_initialization_failed
        BY <1>5 DEF SkipMissing, ElfFail, ElfDwarf, shared
    <2>2. \A u \in Threads : u # t => pc'[u] = pc[u]
        BY <1>5 DEF SkipMissing, ElfFail, ElfDwarf, NextMod, Goto
    <2>3. pc'[t] \in {"elf", "set_syminfo", "walk"} \/ (pc'[t] = "set_failed" /\ ElfFail(t))
        BY <1>5 DEF SkipMissing, ElfFail, ElfDwarf, NextMod, Goto
    <2>4. CASE CallBack(t)
        BY <1>0, <2>1, <2>2, <2>3, <2>4
    <2>5. CASE UNCHANGED calls /\ ~ElfFail(t)
        BY <2>1, <2>2, <2>3, <2>5
    <2> QED
        BY <2>1, <2>4, <2>5
<1>6. ASSUME NEW t \in Threads, Swap(t)
      PROVE  AnswersUnlessFailed'
    BY <1>6 DEF Swap, Appended, NextMod, Goto
<1>7. ASSUME NEW t \in Threads, SetFailed(t) \/ Return(t)
      PROVE  AnswersUnlessFailed'
    BY <1>7 DEF SetFailed, Return, Goto, shared, locals
<1> QED
    BY <1>1, <1>2, <1>3, <1>4, <1>5, <1>6, <1>7 DEF Next, Step

-----------------------------------------------------------------------------
(* Theorems                                                                *)

LEMMA InductiveInit == Init => IInv
<1> SUFFICES ASSUME Init PROVE IInv
    OBVIOUS
<1>1. Typed
    BY TypedInit
<1>2. \A l \in Lists : Len(data[l]) = 0 /\ data[l] = << >>
    BY EmptySeq DEF Init
<1>3. FnsInOrder
    BY DEF Init, FnsInOrder, Reading, Appending, Ending
<1>4. FoundIsThere /\ PublishedAfterData
    BY DEF Init, FoundIsThere, PublishedAfterData
<1>5. ReadSoFar /\ ReadOnce
    BY <1>2 DEF Init, ReadSoFar, ReadOnce, ReadNothing, EntriesBefore, Reading, Appending
<1>6. AnswersUnlessFailed
    BY DEF Init, AnswersUnlessFailed
<1> QED
    BY <1>1, <1>3, <1>4, <1>5, <1>6 DEF IInv

LEMMA InductiveNext == IInv /\ [Next]_vars => IInv'
BY TypedNext, FnsNext, FoundNext, ReadSoFarNext, ReadOnceNext, AnswersNext DEF IInv

THEOREM Inductive == Spec => []IInv
BY InductiveInit, InductiveNext, PTL DEF Spec

\* The type invariant, for any threads and modules.
THEOREM TypeCorrect == Spec => []TypeOK
<1>1. IInv => TypeOK
    BY DEF IInv, Typed
<1> QED
    BY <1>1, Inductive, PTL

\* No call goes through a null pointer, however first calls race and fail:
\* syminfo_fn is stored before fileline_fn, which is never taken back.
THEOREM NoNull == Spec => []NoNullCall
<1>1. IInv => NoNullCall
    BY DEF IInv, FnsInOrder, NoNullCall, FnCalled
<1> QED
    BY <1>1, Inductive, PTL

\* A function pointer is stored only when there is data for it.
THEOREM DataFirst == Spec => []PublishedAfterData
<1>1. IInv => PublishedAfterData
    BY DEF IInv
<1> QED
    BY <1>1, Inductive, PTL

\* No thread reads a module twice, over all its calls.
THEOREM EachOnce == Spec => []ReadOnce
<1>1. IInv => ReadOnce
    BY DEF IInv
<1> QED
    BY <1>1, Inductive, PTL

\* A call returns without a callback only if the failure flag is set.
THEOREM NeverSilent == Spec => []AnswersUnlessFailed
<1>1. IInv => AnswersUnlessFailed
    BY DEF IInv
<1> QED
    BY <1>1, Inductive, PTL

\* All of it together, as the run checks it.
THEOREM Safe == Spec => []FilelineSafe
<1>1. IInv => FilelineSafe
    BY DEF IInv, Typed, FnsInOrder, NoNullCall, FnCalled, FilelineSafe
<1> QED
    BY <1>1, Inductive, PTL

\* Whatever the threads append, each list only grows at its end.
THEOREM ListsGrow == Spec => ListsOnlyGrow
<1>1. IInv /\ [Next]_vars =>
        [\A l \in Lists :
            /\ Len(data'[l]) >= Len(data[l])
            /\ SubSeq(data'[l], 1, Len(data[l])) = data[l]]_data
    BY GrowNext DEF IInv
<1> QED
    BY <1>1, Inductive, PTL DEF Spec, ListsOnlyGrow
=============================================================================
