------------------------------ MODULE Fileline ------------------------------
(***************************************************************************)
(* Initialisation on first use: backtrace_pcinfo and backtrace_syminfo of  *)
(* backtrace/fileline.c, with the part of backtrace/elf.c and dwarf.c that *)
(* reads the executable and its shared libraries and publishes what it     *)
(* found.  Any number of threads may make the first call at once: nothing  *)
(* is locked, each thread reads every file for itself, appends what it read*)
(* to two shared lists by compare-and-swap and stores two function pointers*)
(* that later calls go through.                                            *)
(*                                                                         *)
(* Module 1 is the executable, the others the libraries dl_iterate_phdr    *)
(* reports after it.                                                       *)
(***************************************************************************)
EXTENDS Integers, Sequences

CONSTANTS
    Threads,   \* the threads that call the library
    NMods,     \* how many modules the process has
    SymMods,   \* the modules with a symbol table
    DwarfMods, \* the modules with debug info
    Flaky,     \* the modules whose reading may fail at some step
    Pie        \* is the executable ET_DYN

ASSUME ModsAssumption ==
    /\ NMods \in Nat \ {0} /\ Pie \in BOOLEAN
    /\ SymMods \subseteq 1..NMods /\ DwarfMods \subseteq 1..NMods
    /\ Flaky \subseteq 1..NMods

VARIABLES
    fileline_initialization_failed, fileline_fn, syminfo_fn, \* of the state
    data,      \* the lists syminfo_data ("syms") and fileline_data ("dwarf")
    pc,        \* where each thread is
    op,        \* the function a thread called
    mod,       \* the module a thread is reading
    found_sym, \* locals of backtrace_initialize
    elf_fn,    \* its elf_fileline_fn
    list, at,  \* the list a thread appends to, and the end its walk found
    calls      \* how often this call has called its callbacks

shared == <<fileline_initialization_failed, fileline_fn, syminfo_fn, data>>
locals == <<mod, found_sym, elf_fn, list, at>>
vars == <<shared, pc, op, locals, calls>>

Lists == {"syms", "dwarf"}
Entry == [mod : 1..NMods, by : Threads]

Init ==
    /\ fileline_initialization_failed = FALSE
    /\ fileline_fn = "NULL"
    /\ syminfo_fn = "NULL"
    /\ data = [l \in Lists |-> << >>]
    /\ pc = [t \in Threads |-> "idle"]
    /\ op = [t \in Threads |-> "none"]
    /\ mod = [t \in Threads |-> 0]
    /\ found_sym = [t \in Threads |-> FALSE]
    /\ elf_fn = [t \in Threads |-> "NULL"]
    /\ list = [t \in Threads |-> "none"]
    /\ at = [t \in Threads |-> 0]
    /\ calls = [t \in Threads |-> 0]

Goto(t, label) == pc' = [pc EXCEPT ![t] = label]

\* A call of the user's callback or error callback; the model counts to two.
CallBack(t) == calls' = [calls EXCEPT ![t] = IF @ < 2 THEN @ + 1 ELSE @]

-----------------------------------------------------------------------------
(* fileline_initialize                                                     *)

Call(t, f) ==
    /\ pc[t] = "idle"
    /\ op' = [op EXCEPT ![t] = f]
    /\ calls' = [calls EXCEPT ![t] = 0]
    /\ Goto(t, "check_failed")
    /\ UNCHANGED <<shared, locals>>

CheckFailed(t) ==
    /\ pc[t] = "check_failed"
    /\ IF fileline_initialization_failed
       THEN CallBack(t) /\ Goto(t, "return")
       ELSE Goto(t, "check_fn") /\ UNCHANGED calls
    /\ UNCHANGED <<shared, op, locals>>

CheckFn(t) ==
    /\ pc[t] = "check_fn"
    /\ Goto(t, IF fileline_fn = "NULL" THEN "open" ELSE "recheck")
    /\ UNCHANGED <<shared, op, locals, calls>>

\* The passes over the names of the executable: none can be opened, or one is
\* and backtrace_initialize starts with it.
OpenFails(t) ==
    /\ pc[t] = "open"
    /\ 1 \in Flaky
    /\ CallBack(t)
    /\ Goto(t, "set_failed")
    /\ UNCHANGED <<shared, op, locals>>

\* elf_add returns -1 for an ET_DYN executable, having found nothing: it is
\* read when dl_iterate_phdr reports its address.
Open(t) ==
    /\ pc[t] = "open"
    /\ mod' = [mod EXCEPT ![t] = 1]
    /\ found_sym' = [found_sym EXCEPT ![t] = FALSE]
    /\ elf_fn' = [elf_fn EXCEPT ![t] = "elf_nodebug"]
    /\ Goto(t, "elf")
    /\ UNCHANGED <<shared, op, list, at, calls>>

-----------------------------------------------------------------------------
(* elf_add, for one module                                                 *)

\* The next module dl_iterate_phdr reports, or the end of the iteration.
NextMod(t) ==
    IF mod[t] < NMods
    THEN mod' = [mod EXCEPT ![t] = @ + 1] /\ Goto(t, "elf")
    ELSE UNCHANGED mod /\ Goto(t, "set_syminfo")

\* A library that cannot be opened is skipped: in silence if it is not there,
\* else with an error.
SkipMissing(t) ==
    /\ pc[t] = "elf"
    /\ mod[t] > 1 /\ mod[t] \in Flaky
    /\ NextMod(t)
    /\ CallBack(t) \/ UNCHANGED calls
    /\ UNCHANGED <<shared, op, found_sym, elf_fn, list, at>>

\* elf_add starts by resetting the found_sym of its caller.
ElfAdd(t) ==
    /\ pc[t] = "elf"
    /\ found_sym' = [found_sym EXCEPT ![t] = FALSE]
    /\ Goto(t, "elf_syms")
    /\ UNCHANGED <<shared, op, mod, elf_fn, list, at, calls>>

\* Reading fails before or after the symbols are published.  Only the
\* executable matters, and only if it is not position independent.
ElfFail(t) ==
    /\ pc[t] \in {"elf_syms", "elf_dwarf"}
    /\ mod[t] \in Flaky
    /\ CallBack(t)
    /\ IF mod[t] = 1 /\ ~Pie
       THEN Goto(t, "set_failed") /\ UNCHANGED mod
       ELSE NextMod(t)
    /\ UNCHANGED <<shared, op, found_sym, elf_fn, list, at>>

ElfSyms(t) ==
    /\ pc[t] = "elf_syms"
    /\ IF mod[t] \in SymMods
       THEN /\ found_sym' = [found_sym EXCEPT ![t] = TRUE]
            /\ list' = [list EXCEPT ![t] = "syms"]
            /\ Goto(t, "walk")
       ELSE /\ Goto(t, "elf_dwarf")
            /\ UNCHANGED <<found_sym, list>>
    /\ UNCHANGED <<shared, op, mod, elf_fn, at, calls>>

ElfDwarf(t) ==
    /\ pc[t] = "elf_dwarf"
    /\ IF mod[t] \in DwarfMods
       THEN /\ list' = [list EXCEPT ![t] = "dwarf"]
            /\ Goto(t, "walk")
            /\ UNCHANGED mod
       ELSE NextMod(t) /\ UNCHANGED list
    /\ UNCHANGED <<shared, op, found_sym, elf_fn, at, calls>>

\* elf_add_syminfo_data and backtrace_dwarf_add: walk to the null link, then
\* compare-and-swap it; a link once set does not change, so only the moment
\* the null is read matters.
Walk(t) ==
    /\ pc[t] = "walk"
    /\ at' = [at EXCEPT ![t] = Len(data[list[t]])]
    /\ Goto(t, "swap")
    /\ UNCHANGED <<shared, op, mod, found_sym, elf_fn, list, calls>>

\* What follows the append: dwarf info after the symbols, the next module
\* after the dwarf info, which also makes dwarf_fileline the function to use.
Appended(t) ==
    IF list[t] = "syms"
    THEN Goto(t, "elf_dwarf") /\ UNCHANGED <<mod, elf_fn>>
    ELSE NextMod(t) /\ elf_fn' = [elf_fn EXCEPT ![t] = "dwarf_fileline"]

\* Mutants: the link is stored to without comparing; a failed swap is tried
\* again without walking on; the function is published with the data.
SwapBlind(t) ==
    /\ pc[t] = "swap"
    /\ data' = [data EXCEPT ![list[t]] =
                  Append(SubSeq(@, 1, at[t]), [mod |-> mod[t], by |-> t])]
    /\ Appended(t)
    /\ UNCHANGED <<fileline_initialization_failed, fileline_fn, syminfo_fn,
                   op, found_sym, list, at, calls>>
SwapNoWalk(t) ==
    /\ pc[t] = "swap"
    /\ at[t] = Len(data[list[t]])
    /\ data' = [data EXCEPT ![list[t]] = Append(@, [mod |-> mod[t], by |-> t])]
    /\ Appended(t)
    /\ UNCHANGED <<fileline_initialization_failed, fileline_fn, syminfo_fn,
                   op, found_sym, list, at, calls>>

SwapPublishes(t) ==
    /\ pc[t] = "swap"
    /\ at[t] = Len(data[list[t]])
    /\ data' = [data EXCEPT ![list[t]] = Append(@, [mod |-> mod[t], by |-> t])]
    /\ Appended(t)
    /\ fileline_fn' = IF list[t] = "dwarf" THEN "dwarf_fileline" ELSE fileline_fn
    /\ UNCHANGED <<fileline_initialization_failed, syminfo_fn, op, found_sym,
                   list, at, calls>>

Swap(t) ==
    /\ pc[t] = "swap"
    /\ IF at[t] = Len(data[list[t]])
       THEN /\ data' = [data EXCEPT ![list[t]] =
                          Append(@, [mod |-> mod[t], by |-> t])]
            /\ Appended(t)
       ELSE /\ Goto(t, "walk")
            /\ UNCHANGED <<data, mod, elf_fn>>
    /\ UNCHANGED <<fileline_initialization_failed, fileline_fn, syminfo_fn,
                   op, found_sym, list, at, calls>>

-----------------------------------------------------------------------------
(* The end of backtrace_initialize and of fileline_initialize              *)

SetSyminfo(t) ==
    /\ pc[t] = "set_syminfo"
    /\ syminfo_fn' = IF found_sym[t] THEN "elf_syminfo"
                     ELSE IF syminfo_fn = "NULL" THEN "elf_nosyms" ELSE syminfo_fn
    /\ Goto(t, "load_fn")
    /\ UNCHANGED <<fileline_initialization_failed, fileline_fn, data, op, locals,
                   calls>>

\* backtrace_initialize keeps a function another thread stored, unless that is
\* elf_nodebug.
LoadFn(t) ==
    /\ pc[t] = "load_fn"
    /\ elf_fn' = [elf_fn EXCEPT ![t] =
                    IF fileline_fn \in {"NULL", "elf_nodebug"} THEN @ ELSE fileline_fn]
    /\ Goto(t, "set_fn")
    /\ UNCHANGED <<shared, op, mod, found_sym, list, at, calls>>

SetFn(t) ==
    /\ pc[t] = "set_fn"
    /\ fileline_fn' = elf_fn[t]
    /\ Goto(t, "recheck")
    /\ UNCHANGED <<fileline_initialization_failed, syminfo_fn, data, op, locals, calls>>

SetFailed(t) ==
    /\ pc[t] = "set_failed"
    /\ fileline_initialization_failed' = TRUE
    /\ Goto(t, "return")
    /\ UNCHANGED <<fileline_fn, syminfo_fn, data, op, locals, calls>>

-----------------------------------------------------------------------------
(* backtrace_pcinfo and backtrace_syminfo                                  *)

\* The flag is read again, after this call's own initialisation succeeded.
Recheck(t) ==
    /\ pc[t] = "recheck"
    /\ Goto(t, IF fileline_initialization_failed THEN "return" ELSE "apply")
    /\ UNCHANGED <<shared, op, locals, calls>>

\* The function called, read from the state at that moment.  Each of the four
\* calls one of the two callbacks.
FnCalled(t) == IF op[t] = "pcinfo" THEN fileline_fn ELSE syminfo_fn

Apply(t) ==
    /\ pc[t] = "apply"
    /\ CallBack(t)
    /\ Goto(t, "return")
    /\ UNCHANGED <<shared, op, locals>>

Return(t) ==
    /\ pc[t] = "return"
    /\ op' = [op EXCEPT ![t] = "none"]
    /\ mod' = [mod EXCEPT ![t] = 0]
    /\ found_sym' = [found_sym EXCEPT ![t] = FALSE]
    /\ elf_fn' = [elf_fn EXCEPT ![t] = "NULL"]
    /\ list' = [list EXCEPT ![t] = "none"]
    /\ at' = [at EXCEPT ![t] = 0]
    /\ calls' = [calls EXCEPT ![t] = 0]
    /\ Goto(t, "idle")
    /\ UNCHANGED shared

-----------------------------------------------------------------------------
Step(t) ==
    \/ CheckFailed(t) \/ CheckFn(t)  \/ OpenFails(t) \/ Open(t)
    \/ SkipMissing(t) \/ ElfAdd(t)   \/ ElfFail(t)   \/ ElfSyms(t) \/ ElfDwarf(t)
    \/ Walk(t)        \/ Swap(t)     \/ SetSyminfo(t) \/ LoadFn(t) \/ SetFn(t)
    \/ SetFailed(t)   \/ Recheck(t)  \/ Apply(t)     \/ Return(t)

Next == \E t \in Threads : Step(t) \/ \E f \in {"pcinfo", "syminfo"} : Call(t, f)

Spec == Init /\ [][Next]_vars

\* A thread inside a call is scheduled; whether it calls again is its affair.
FairSpec == Spec /\ \A t \in Threads : WF_vars(Step(t))

-----------------------------------------------------------------------------
(* Correctness                                                             *)

Labels == {"idle", "check_failed", "check_fn", "open", "elf", "elf_syms",
           "elf_dwarf", "walk", "swap", "set_syminfo", "load_fn", "set_fn",
           "set_failed", "recheck", "apply", "return"}
FilelineFns == {"NULL", "elf_nodebug", "dwarf_fileline"}

\* Every variable has its type.
TypeOK ==
    /\ fileline_initialization_failed \in BOOLEAN
    /\ fileline_fn \in FilelineFns
    /\ syminfo_fn \in {"NULL", "elf_nosyms", "elf_syminfo"}
    /\ data \in [Lists -> Seq(Entry)]
    /\ pc \in [Threads -> Labels]
    /\ op \in [Threads -> {"none", "pcinfo", "syminfo"}]
    /\ mod \in [Threads -> 0..NMods]
    /\ found_sym \in [Threads -> BOOLEAN]
    /\ elf_fn \in [Threads -> FilelineFns]
    /\ list \in [Threads -> Lists \cup {"none"}]
    /\ at \in [Threads -> Nat]
    /\ calls \in [Threads -> 0..2]

\* A call never goes through a null pointer: whoever sees fileline_fn set,
\* having initialised nothing itself, finds syminfo_fn set too.
NoNullCall == \A t \in Threads : pc[t] = "apply" => FnCalled(t) # "NULL"

\* Threads that append at once lose no entry, and a walk that has begun is not
\* cut off: each list only grows at its end.
ListsOnlyGrow ==
    [][\A l \in Lists :
         /\ Len(data'[l]) >= Len(data[l])
         /\ SubSeq(data'[l], 1, Len(data[l])) = data[l]]_data

\* What a function pointer promises is there: the function that searches
\* symbols, or debug info, is stored only when some have been appended.
PublishedAfterData ==
    /\ syminfo_fn = "elf_syminfo" => data["syms"] # << >>
    /\ fileline_fn = "dwarf_fileline" => data["dwarf"] # << >>

\* Threads that initialise at once may each read every module, but no thread
\* reads one twice: after its own initialisation it finds fileline_fn or the
\* failure flag set.
ReadOnce ==
    \A l \in Lists : \A i, j \in 1..Len(data[l]) : data[l][i] = data[l][j] => i = j

\* backtrace.h on backtrace_pcinfo: "This will make at least one call to
\* either CALLBACK or ERROR_CALLBACK": a call that returns in silence does so
\* only because a thread has set the failure flag; who sets it has called back.
AnswersUnlessFailed ==
    \A t \in Threads :
        /\ pc[t] = "return" /\ calls[t] = 0 => fileline_initialization_failed
        /\ pc[t] = "set_failed" => calls[t] # 0

\* Racing first calls leave nothing that a later call trips over.
FilelineSafe ==
    TypeOK /\ NoNullCall /\ PublishedAfterData /\ ReadOnce /\ AnswersUnlessFailed

\* Every call ends: a thread whose compare-and-swap fails has a longer list to
\* walk, not another wait.
CallsTerminate == \A t \in Threads : pc[t] # "idle" ~> pc[t] = "idle"
=============================================================================
