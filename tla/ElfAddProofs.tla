---------------------------- MODULE ElfAddProofs ----------------------------
(***************************************************************************)
(* Proofs about ElfAdd: whatever kinds of sections files have and whatever *)
(* fails, elf_add releases every view once and closes every descriptor.    *)
(***************************************************************************)
EXTENDS ElfAdd, TLAPS

Steps ==
    {"ehdr", "abandon", "shdrs", "names", "scan", "symtab", "strtab", "syminfo",
     "sections", "buildid", "debuglink", "debug_view", "close", "uncompress",
     "dwarf", "fail", "return", "done"}

\* The steps at which a call may hold a part; code at fail releases the rest.
NeededAt(part) ==
    CASE part = "shdrs" ->
            {"names", "scan", "symtab", "strtab", "syminfo", "sections", "fail"}
      [] part = "names" ->
            {"scan", "symtab", "strtab", "syminfo", "sections", "fail"}
      [] part = "buildid" ->
            {"scan", "symtab", "strtab", "syminfo", "sections", "buildid", "fail"}
      [] part = "debuglink" ->
            {"scan", "symtab", "strtab", "syminfo", "sections", "buildid",
             "debuglink", "fail"}
      [] part = "symtab" -> {"strtab", "syminfo", "fail"}
      [] part = "strtab" -> IF symbols THEN Steps ELSE {"syminfo", "fail"}
      [] part = "debug" ->
            {"close", "uncompress", "dwarf", "fail"}
              \cup (IF dwarf = file THEN {"return", "done"} ELSE {})

Located ==
    /\ at \in Steps
    /\ pie => file = "main" /\ at \in {"ehdr", "fail", "return", "done"}
    /\ at = "abandon" => file = "main"

\* The views: those of the running call are of use to it, and of the call
\* that waits for it only the string table is left.
ViewsInUse ==
    /\ \A part \in Parts : <<file, part>> \in views => at \in NeededAt(part)
    /\ file = "debug" =>
         \A part \in Parts : <<"main", part>> \in views => part = "strtab" /\ symbols
    /\ file = "main" => valid["debug"] = {} /\ \A part \in Parts : <<"debug", part>> \notin views
    /\ <<"debug", "strtab">> \notin views

\* Symbols: they are published once their views are there.
SymbolsOrder ==
    /\ symbols /\ file = "main" =>
         at \notin {"ehdr", "abandon", "shdrs", "names", "scan", "symtab", "strtab", "syminfo"}
    /\ at = "syminfo" => <<file, "strtab">> \in views
    /\ at \in {"symtab", "strtab", "syminfo"} => file = "main"
    /\ symbols /\ (file = "main" => at # "fail" /\ (at \in {"return", "done"} => ret = 1)) =>
         <<"main", "strtab">> \in views

\* Debug info: published last, by a call that keeps what it points into.
DwarfOrder ==
    /\ dwarf # "none" => at \in {"return", "done"} /\ dwarf = file
    /\ at \in {"close", "uncompress"} => <<file, "debug">> \in views
    /\ at = "dwarf" => (<<file, "debug">> \in views <=> "plain" \in sections)

\* Descriptors: a call closes its own, again only after a close that failed;
\* the one of the caller is still open.
Closing ==
    /\ file = "main" => descriptor["debug"] = "unopened" /\ closes["debug"] = 0
    /\ file = "debug" => descriptor["main"] = "open" /\ closes["main"] = IF at = "done" THEN 1 ELSE 0
    /\ CASE at \in {"uncompress", "dwarf"} ->
              descriptor[file] = "cleared" /\ closes[file] = 1
         [] at = "fail" ->
              \/ descriptor[file] = "cleared" /\ closes[file] = 1
              \/ descriptor[file] = "open" /\ closes[file] = 0
              \/ descriptor[file] = "open" /\ closes[file] = 1 /\ file \in refused
         [] at \in {"return", "done"} ->
              closes[file] = 1 \/ (closes[file] = 2 /\ file \in refused)
         [] OTHER -> descriptor[file] = "open" /\ closes[file] = 0

IInv ==
    /\ TypeOK /\ Located /\ FlagsMatch /\ ViewsInUse
    /\ SymbolsOrder /\ DwarfOrder /\ DwarfDataHeld /\ Closing

-----------------------------------------------------------------------------
(* One lemma for each action                                               *)

USE DEF Notes, Files, FileParts, Parts, debuginfo, sections, mapped, descriptors,
        published, found

LEMMA FailsStep ==
    ASSUME IInv, Fails
    PROVE  IInv'
<1>1. (TypeOK /\ Located)'
    BY DEF Fails, IInv, Steps, TypeOK, Located, Closing
<1>2. (FlagsMatch /\ ViewsInUse)'
    BY DEF Fails, IInv, Steps, NeededAt, TypeOK, Located, FlagsMatch,
           ViewsInUse, SymbolsOrder, DwarfOrder
<1>3. (SymbolsOrder /\ DwarfOrder /\ DwarfDataHeld)'
    BY DEF Fails, IInv, NeededAt, TypeOK, Located, FlagsMatch, ViewsInUse,
           SymbolsOrder, DwarfOrder, DwarfDataHeld
<1>4. Closing'
    BY DEF Fails, IInv, TypeOK, Located, Closing
<1> QED BY <1>1, <1>2, <1>3, <1>4 DEF IInv

LEMMA ReadEhdrStep ==
    ASSUME IInv, ReadEhdr
    PROVE  IInv'
<1>1. (TypeOK /\ Located)'
    BY DEF ReadEhdr, IInv, Steps, TypeOK, Located, Closing
<1>2. (FlagsMatch /\ ViewsInUse)'
    BY DEF ReadEhdr, IInv, Steps, NeededAt, TypeOK, Located, FlagsMatch,
           ViewsInUse, SymbolsOrder, DwarfOrder
<1>3. (SymbolsOrder /\ DwarfOrder /\ DwarfDataHeld)'
    BY DEF ReadEhdr, IInv, NeededAt, TypeOK, Located, FlagsMatch,
           ViewsInUse, SymbolsOrder, DwarfOrder, DwarfDataHeld
<1>4. Closing'
    BY DEF ReadEhdr, IInv, TypeOK, Located, Closing
<1> QED BY <1>1, <1>2, <1>3, <1>4 DEF IInv

LEMMA WaitForPhdrStep ==
    ASSUME IInv, WaitForPhdr
    PROVE  IInv'
<1>1. (TypeOK /\ Located)'
    BY DEF WaitForPhdr, IInv, Steps, TypeOK, Located, Closing
<1>2. (FlagsMatch /\ ViewsInUse)'
    BY DEF WaitForPhdr, IInv, Steps, NeededAt, TypeOK, Located, FlagsMatch,
           ViewsInUse, SymbolsOrder, DwarfOrder
<1>3. (SymbolsOrder /\ DwarfOrder /\ DwarfDataHeld)'
    BY DEF WaitForPhdr, IInv, NeededAt, TypeOK, Located, FlagsMatch,
           ViewsInUse, SymbolsOrder, DwarfOrder, DwarfDataHeld
<1>4. Closing'
    BY DEF WaitForPhdr, IInv, TypeOK, Located, Closing
<1> QED BY <1>1, <1>2, <1>3, <1>4 DEF IInv

LEMMA AbandonStep ==
    ASSUME IInv, Abandon
    PROVE  IInv'
<1>1. (TypeOK /\ Located)'
    BY DEF Abandon, Close, IInv, Steps, TypeOK, Located, Closing
<1>2. (FlagsMatch /\ ViewsInUse)'
    BY DEF Abandon, Close, IInv, Steps, NeededAt, TypeOK, Located,
           FlagsMatch, ViewsInUse, SymbolsOrder, DwarfOrder
<1>3. (SymbolsOrder /\ DwarfOrder /\ DwarfDataHeld)'
    BY DEF Abandon, Close, IInv, NeededAt, TypeOK, Located, FlagsMatch,
           ViewsInUse, SymbolsOrder, DwarfOrder, DwarfDataHeld
<1>4. Closing'
    BY DEF Abandon, Close, IInv, TypeOK, Located, Closing
<1> QED BY <1>1, <1>2, <1>3, <1>4 DEF IInv

LEMMA GetShdrsStep ==
    ASSUME IInv, GetShdrs
    PROVE  IInv'
<1>1. (TypeOK /\ Located)'
    BY DEF GetShdrs, Get, Map, IInv, Steps, TypeOK, Located, Closing
<1>2. (FlagsMatch /\ ViewsInUse)'
    BY DEF GetShdrs, Get, Map, IInv, Steps, NeededAt, TypeOK, Located,
           FlagsMatch, ViewsInUse, SymbolsOrder, DwarfOrder
<1>3. (SymbolsOrder /\ DwarfOrder /\ DwarfDataHeld)'
    BY DEF GetShdrs, Get, Map, IInv, NeededAt, TypeOK, Located, FlagsMatch,
           ViewsInUse, SymbolsOrder, DwarfOrder, DwarfDataHeld
<1>4. Closing'
    BY DEF GetShdrs, Get, Map, IInv, TypeOK, Located, Closing
<1> QED BY <1>1, <1>2, <1>3, <1>4 DEF IInv

LEMMA GetNamesStep ==
    ASSUME IInv, GetNames
    PROVE  IInv'
<1>1. (TypeOK /\ Located)'
    BY DEF GetNames, Get, Map, IInv, Steps, TypeOK, Located, Closing
<1>2. (FlagsMatch /\ ViewsInUse)'
    BY DEF GetNames, Get, Map, IInv, Steps, NeededAt, TypeOK, Located,
           FlagsMatch, ViewsInUse, SymbolsOrder, DwarfOrder
<1>3. (SymbolsOrder /\ DwarfOrder /\ DwarfDataHeld)'
    BY DEF GetNames, Get, Map, IInv, NeededAt, TypeOK, Located, FlagsMatch,
           ViewsInUse, SymbolsOrder, DwarfOrder, DwarfDataHeld
<1>4. Closing'
    BY DEF GetNames, Get, Map, IInv, TypeOK, Located, Closing
<1> QED BY <1>1, <1>2, <1>3, <1>4 DEF IInv

LEMMA ScanNoteStep ==
    ASSUME IInv, ScanNote
    PROVE  IInv'
<1>1. (TypeOK /\ Located)'
    BY DEF ScanNote, Get, Map, Unmet, IInv, Steps, TypeOK, Located, Closing
<1>2. (FlagsMatch /\ ViewsInUse)'
    BY DEF ScanNote, Get, Map, Unmet, IInv, Steps, NeededAt, TypeOK,
           Located, FlagsMatch, ViewsInUse, SymbolsOrder, DwarfOrder
<1>3. (SymbolsOrder /\ DwarfOrder /\ DwarfDataHeld)'
    BY DEF ScanNote, Get, Map, Unmet, IInv, NeededAt, TypeOK, Located,
           FlagsMatch, ViewsInUse, SymbolsOrder, DwarfOrder, DwarfDataHeld
<1>4. Closing'
    BY DEF ScanNote, Get, Map, Unmet, IInv, TypeOK, Located, Closing
<1> QED BY <1>1, <1>2, <1>3, <1>4 DEF IInv

LEMMA ScanEndStep ==
    ASSUME IInv, ScanEnd
    PROVE  IInv'
<1>1. (TypeOK /\ Located)'
    BY DEF ScanEnd, Unmet, IInv, Steps, TypeOK, Located, Closing
<1>2. (FlagsMatch /\ ViewsInUse)'
    BY DEF ScanEnd, Unmet, IInv, Steps, NeededAt, TypeOK, Located,
           FlagsMatch, ViewsInUse, SymbolsOrder, DwarfOrder
<1>3. (SymbolsOrder /\ DwarfOrder /\ DwarfDataHeld)'
    BY DEF ScanEnd, Unmet, IInv, NeededAt, TypeOK, Located, FlagsMatch,
           ViewsInUse, SymbolsOrder, DwarfOrder, DwarfDataHeld
<1>4. Closing'
    BY DEF ScanEnd, Unmet, IInv, TypeOK, Located, Closing
<1> QED BY <1>1, <1>2, <1>3, <1>4 DEF IInv

LEMMA GetSymtabStep ==
    ASSUME IInv, GetSymtab
    PROVE  IInv'
<1>1. (TypeOK /\ Located)'
    BY DEF GetSymtab, Get, Map, IInv, Steps, TypeOK, Located, Closing
<1>2. (FlagsMatch /\ ViewsInUse)'
    BY DEF GetSymtab, Get, Map, IInv, Steps, NeededAt, TypeOK, Located,
           FlagsMatch, ViewsInUse, SymbolsOrder, DwarfOrder
<1>3. (SymbolsOrder /\ DwarfOrder /\ DwarfDataHeld)'
    BY DEF GetSymtab, Get, Map, IInv, NeededAt, TypeOK, Located, FlagsMatch,
           ViewsInUse, SymbolsOrder, DwarfOrder, DwarfDataHeld
<1>4. Closing'
    BY DEF GetSymtab, Get, Map, IInv, TypeOK, Located, Closing
<1> QED BY <1>1, <1>2, <1>3, <1>4 DEF IInv

LEMMA GetStrtabStep ==
    ASSUME IInv, GetStrtab
    PROVE  IInv'
<1>1. (TypeOK /\ Located)'
    BY DEF GetStrtab, Get, Map, IInv, Steps, TypeOK, Located, Closing
<1>2. (FlagsMatch /\ ViewsInUse)'
    BY DEF GetStrtab, Get, Map, IInv, Steps, NeededAt, TypeOK, Located,
           FlagsMatch, ViewsInUse, SymbolsOrder, DwarfOrder
<1>3. (SymbolsOrder /\ DwarfOrder /\ DwarfDataHeld)'
    BY DEF GetStrtab, Get, Map, IInv, NeededAt, TypeOK, Located, FlagsMatch,
           ViewsInUse, SymbolsOrder, DwarfOrder, DwarfDataHeld
<1>4. Closing'
    BY DEF GetStrtab, Get, Map, IInv, TypeOK, Located, Closing
<1> QED BY <1>1, <1>2, <1>3, <1>4 DEF IInv

LEMMA PublishStep ==
    ASSUME IInv, Publish
    PROVE  IInv'
<1>1. (TypeOK /\ Located)'
    BY DEF Publish, Release, IInv, Steps, TypeOK, Located, Closing
<1>2. (FlagsMatch /\ ViewsInUse)'
    BY DEF Publish, Release, IInv, Steps, NeededAt, TypeOK, Located,
           FlagsMatch, ViewsInUse, SymbolsOrder, DwarfOrder
<1>3. (SymbolsOrder /\ DwarfOrder /\ DwarfDataHeld)'
    BY DEF Publish, Release, IInv, NeededAt, TypeOK, Located, FlagsMatch,
           ViewsInUse, SymbolsOrder, DwarfOrder, DwarfDataHeld
<1>4. Closing'
    BY DEF Publish, Release, IInv, TypeOK, Located, Closing
<1> QED BY <1>1, <1>2, <1>3, <1>4 DEF IInv

LEMMA ReleaseHeadersStep ==
    ASSUME IInv, ReleaseHeaders
    PROVE  IInv'
<1>1. (TypeOK /\ Located)'
    BY DEF ReleaseHeaders, Release, IInv, Steps, TypeOK, Located, Closing
<1>2. (FlagsMatch /\ ViewsInUse)'
    BY DEF ReleaseHeaders, Release, IInv, Steps, NeededAt, TypeOK, Located,
           FlagsMatch, ViewsInUse, SymbolsOrder, DwarfOrder
<1>3. (SymbolsOrder /\ DwarfOrder /\ DwarfDataHeld)'
    BY DEF ReleaseHeaders, Release, IInv, NeededAt, TypeOK, Located,
           FlagsMatch, ViewsInUse, SymbolsOrder, DwarfOrder, DwarfDataHeld
<1>4. Closing'
    BY DEF ReleaseHeaders, Release, IInv, TypeOK, Located, Closing
<1> QED BY <1>1, <1>2, <1>3, <1>4 DEF IInv

LEMMA FoundByNoteStep ==
    ASSUME NEW note \in Notes, IInv, FoundByNote(note)
    PROVE  IInv'
<1>1. (TypeOK /\ Located)'
    BY DEF FoundByNote, Usable, IInv, Steps, TypeOK, Located, Closing
<1>2. (FlagsMatch /\ ViewsInUse)'
    BY DEF FoundByNote, Usable, IInv, Steps, NeededAt, TypeOK, Located,
           FlagsMatch, ViewsInUse, SymbolsOrder, DwarfOrder
<1>3. (SymbolsOrder /\ DwarfOrder /\ DwarfDataHeld)'
    BY DEF FoundByNote, Usable, IInv, NeededAt, TypeOK, Located, FlagsMatch,
           ViewsInUse, SymbolsOrder, DwarfOrder, DwarfDataHeld
<1>4. Closing'
    BY DEF FoundByNote, Usable, IInv, TypeOK, Located, Closing
<1> QED BY <1>1, <1>2, <1>3, <1>4 DEF IInv

LEMMA NotFoundByNoteStep ==
    ASSUME NEW note \in Notes, IInv, NotFoundByNote(note)
    PROVE  IInv'
<1>1. (TypeOK /\ Located)'
    BY DEF NotFoundByNote, Usable, Release, next_step, IInv, Steps, TypeOK,
           Located, Closing
<1>2. (FlagsMatch /\ ViewsInUse)'
    BY DEF NotFoundByNote, Usable, Release, next_step, IInv, Steps,
           NeededAt, TypeOK, Located, FlagsMatch, ViewsInUse, SymbolsOrder,
           DwarfOrder
<1>3. (SymbolsOrder /\ DwarfOrder /\ DwarfDataHeld)'
    BY DEF NotFoundByNote, Usable, Release, next_step, IInv, NeededAt,
           TypeOK, Located, FlagsMatch, ViewsInUse, SymbolsOrder,
           DwarfOrder, DwarfDataHeld
<1>4. Closing'
    BY DEF NotFoundByNote, Usable, Release, next_step, IInv, TypeOK,
           Located, Closing
<1> QED BY <1>1, <1>2, <1>3, <1>4 DEF IInv

LEMMA NoDebugSectionsStep ==
    ASSUME IInv, NoDebugSections
    PROVE  IInv'
<1>1. (TypeOK /\ Located)'
    BY DEF NoDebugSections, Close, IInv, Steps, TypeOK, Located, Closing
<1>2. (FlagsMatch /\ ViewsInUse)'
    BY DEF NoDebugSections, Close, IInv, Steps, NeededAt, TypeOK, Located,
           FlagsMatch, ViewsInUse, SymbolsOrder, DwarfOrder
<1>3. (SymbolsOrder /\ DwarfOrder /\ DwarfDataHeld)'
    BY DEF NoDebugSections, Close, IInv, NeededAt, TypeOK, Located,
           FlagsMatch, ViewsInUse, SymbolsOrder, DwarfOrder, DwarfDataHeld
<1>4. Closing'
    BY DEF NoDebugSections, Close, IInv, TypeOK, Located, Closing
<1> QED BY <1>1, <1>2, <1>3, <1>4 DEF IInv

LEMMA GetDebugViewStep ==
    ASSUME IInv, GetDebugView
    PROVE  IInv'
<1>1. (TypeOK /\ Located)'
    BY DEF GetDebugView, Get, Map, IInv, Steps, TypeOK, Located, Closing
<1>2. (FlagsMatch /\ ViewsInUse)'
    BY DEF GetDebugView, Get, Map, IInv, Steps, NeededAt, TypeOK, Located,
           FlagsMatch, ViewsInUse, SymbolsOrder, DwarfOrder
<1>3. (SymbolsOrder /\ DwarfOrder /\ DwarfDataHeld)'
    BY DEF GetDebugView, Get, Map, IInv, NeededAt, TypeOK, Located,
           FlagsMatch, ViewsInUse, SymbolsOrder, DwarfOrder, DwarfDataHeld
<1>4. Closing'
    BY DEF GetDebugView, Get, Map, IInv, TypeOK, Located, Closing
<1> QED BY <1>1, <1>2, <1>3, <1>4 DEF IInv

LEMMA CloseFileStep ==
    ASSUME IInv, CloseFile
    PROVE  IInv'
<1>1. (TypeOK /\ Located)'
    BY DEF CloseFile, Close, IInv, Steps, TypeOK, Located, Closing
<1>2. (FlagsMatch /\ ViewsInUse)'
    BY DEF CloseFile, Close, IInv, Steps, NeededAt, TypeOK, Located,
           FlagsMatch, ViewsInUse, SymbolsOrder, DwarfOrder
<1>3. (SymbolsOrder /\ DwarfOrder /\ DwarfDataHeld)'
    BY DEF CloseFile, Close, IInv, NeededAt, TypeOK, Located, FlagsMatch,
           ViewsInUse, SymbolsOrder, DwarfOrder, DwarfDataHeld
<1>4. Closing'
    BY DEF CloseFile, Close, IInv, TypeOK, Located, Closing
<1> QED BY <1>1, <1>2, <1>3, <1>4 DEF IInv

LEMMA UncompressStep ==
    ASSUME IInv, Uncompress
    PROVE  IInv'
<1>1. (TypeOK /\ Located)'
    BY DEF Uncompress, UsingDebugView, Release, IInv, Steps, TypeOK,
           Located, Closing
<1>2. (FlagsMatch /\ ViewsInUse)'
    BY DEF Uncompress, UsingDebugView, Release, IInv, Steps, NeededAt,
           TypeOK, Located, FlagsMatch, ViewsInUse, SymbolsOrder, DwarfOrder
<1>3. (SymbolsOrder /\ DwarfOrder /\ DwarfDataHeld)'
    BY DEF Uncompress, UsingDebugView, Release, IInv, NeededAt, TypeOK,
           Located, FlagsMatch, ViewsInUse, SymbolsOrder, DwarfOrder,
           DwarfDataHeld
<1>4. Closing'
    BY DEF Uncompress, UsingDebugView, Release, IInv, TypeOK, Located,
           Closing
<1> QED BY <1>1, <1>2, <1>3, <1>4 DEF IInv

LEMMA AddDwarfStep ==
    ASSUME IInv, AddDwarf
    PROVE  IInv'
<1>1. (TypeOK /\ Located)'
    BY DEF AddDwarf, IInv, Steps, TypeOK, Located, Closing
<1>2. (FlagsMatch /\ ViewsInUse)'
    BY DEF AddDwarf, IInv, Steps, NeededAt, TypeOK, Located, FlagsMatch,
           ViewsInUse, SymbolsOrder, DwarfOrder
<1>3. (SymbolsOrder /\ DwarfOrder /\ DwarfDataHeld)'
    BY DEF AddDwarf, IInv, NeededAt, TypeOK, Located, FlagsMatch,
           ViewsInUse, SymbolsOrder, DwarfOrder, DwarfDataHeld
<1>4. Closing'
    BY DEF AddDwarf, IInv, TypeOK, Located, Closing
<1> QED BY <1>1, <1>2, <1>3, <1>4 DEF IInv

LEMMA FailStep ==
    ASSUME IInv, Fail
    PROVE  IInv'
<1>1. (TypeOK /\ Located)'
    BY DEF Fail, Release, Close, IInv, Steps, TypeOK, Located, Closing
<1>2. (FlagsMatch /\ ViewsInUse)'
    BY DEF Fail, Release, Close, IInv, Steps, NeededAt, TypeOK, Located,
           FlagsMatch, ViewsInUse, SymbolsOrder, DwarfOrder
<1>3. (SymbolsOrder /\ DwarfOrder /\ DwarfDataHeld)'
    BY DEF Fail, Release, Close, IInv, NeededAt, TypeOK, Located,
           FlagsMatch, ViewsInUse, SymbolsOrder, DwarfOrder, DwarfDataHeld
<1>4. Closing'
    BY DEF Fail, Release, Close, IInv, TypeOK, Located, Closing
<1> QED BY <1>1, <1>2, <1>3, <1>4 DEF IInv

LEMMA ReturnStep ==
    ASSUME IInv, Return
    PROVE  IInv'
<1>1. (TypeOK /\ Located)'
    BY DEF Return, Close, IInv, Steps, TypeOK, Located, Closing
<1>2. (FlagsMatch /\ ViewsInUse)'
    BY DEF Return, Close, IInv, Steps, NeededAt, TypeOK, Located,
           FlagsMatch, ViewsInUse, SymbolsOrder, DwarfOrder
<1>3. (SymbolsOrder /\ DwarfOrder /\ DwarfDataHeld)'
    BY DEF Return, Close, IInv, NeededAt, TypeOK, Located, FlagsMatch,
           ViewsInUse, SymbolsOrder, DwarfOrder, DwarfDataHeld
<1>4. Closing'
    BY DEF Return, Close, IInv, TypeOK, Located, Closing
<1> QED BY <1>1, <1>2, <1>3, <1>4 DEF IInv

-----------------------------------------------------------------------------
(* The theorems                                                            *)

LEMMA Initially == Init => IInv
<1> SUFFICES ASSUME Init PROVE IInv
    OBVIOUS
<1>1. TypeOK
    <2>1. valid \in [Files -> SUBSET Parts] /\ closes \in [Files -> 0..2]
        BY DEF Init
    <2>2. descriptor \in [Files -> {"unopened", "open", "cleared"}]
        BY DEF Init
    <2> QED BY <2>1, <2>2 DEF Init, TypeOK
<1>4. Located
    BY DEF Init, Steps, Located
<1>2. FlagsMatch /\ ViewsInUse
    BY DEF Init, FlagsMatch, ViewsInUse
<1>3. SymbolsOrder /\ DwarfOrder /\ DwarfDataHeld /\ Closing
    BY DEF Init, SymbolsOrder, DwarfOrder, DwarfDataHeld, Closing
<1> QED BY <1>1, <1>2, <1>3, <1>4 DEF IInv

LEMMA Inductive == IInv /\ [Next]_vars => IInv'
<1> SUFFICES ASSUME IInv, [Next]_vars PROVE IInv'
    OBVIOUS
<1>1. CASE Step
    <2>1. CASE \E note \in Notes : FoundByNote(note) \/ NotFoundByNote(note)
        BY <2>1, FoundByNoteStep, NotFoundByNoteStep
    <2> QED
        BY <1>1, <2>1, FailsStep, ReadEhdrStep, WaitForPhdrStep, AbandonStep,
           GetShdrsStep, GetNamesStep, ScanNoteStep, ScanEndStep, GetSymtabStep,
           GetStrtabStep, PublishStep, ReleaseHeadersStep, NoDebugSectionsStep,
           GetDebugViewStep, CloseFileStep, UncompressStep, AddDwarfStep,
           FailStep, ReturnStep DEF Step
<1>2. CASE UNCHANGED vars
    BY <1>2 DEF vars, IInv, NeededAt, TypeOK, Located, FlagsMatch, ViewsInUse,
                SymbolsOrder, DwarfOrder, DwarfDataHeld, Closing
<1> QED BY <1>1, <1>2 DEF Next, Finished

LEMMA Enough == IInv => ElfSafe
<1> SUFFICES ASSUME IInv PROVE ElfSafe
    OBVIOUS
<1>1. NothingLeaked
    <2> SUFFICES ASSUME at = "done", NEW v \in views
                 PROVE  \/ symbols /\ v = <<"main", "strtab">>
                        \/ \E f \in {dwarf} \cap Files : v = <<f, "debug">>
        BY DEF NothingLeaked
    <2>1. PICK f \in Files, part \in Parts : v = <<f, part>>
        BY DEF IInv, TypeOK
    <2>2. CASE f = file
        <3>1. at \in NeededAt(part)
            BY <2>1, <2>2 DEF IInv, ViewsInUse
        <3>2. (part = "strtab" /\ symbols) \/ (part = "debug" /\ f = dwarf)
            BY <2>2, <3>1 DEF NeededAt
        <3> QED BY <2>1, <2>2, <3>2 DEF IInv, ViewsInUse
    <2>3. CASE f # file
        BY <2>1, <2>3 DEF IInv, TypeOK, ViewsInUse
    <2> QED BY <2>2, <2>3
<1>2. ClosedOnce
    BY DEF ClosedOnce, IInv, TypeOK, Closing
<1>3. StringTableHeld
    BY DEF StringTableHeld, IInv, TypeOK, SymbolsOrder
<1> QED BY <1>1, <1>2, <1>3 DEF ElfSafe, IInv

LEMMA Invariance == Spec => []IInv
BY Initially, Inductive, PTL DEF Spec

\* Whatever parts a file has and whichever step fails, the flags of a call say
\* what it holds, no view outlives the call but those that published symbols
\* and debug info point into, and each descriptor is closed, twice only after
\* a close that failed.
THEOREM Safe == Spec => []ElfSafe
BY Invariance, Enough, PTL
=============================================================================
