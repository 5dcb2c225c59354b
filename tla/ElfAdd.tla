------------------------------- MODULE ElfAdd -------------------------------
(***************************************************************************)
(* elf_add of backtrace/elf.c: read one ELF file.  Parts of the file are   *)
(* mapped one after the other (views) and each may fail to be; symbols are *)
(* published as soon as they are read, debug info at the end; if the debug *)
(* info is in a file of its own, elf_add calls itself for that file.       *)
(* Whatever fails, the code at the label fail releases the views whose     *)
(* flags are set and closes the descriptor.                                *)
(*                                                                         *)
(* A file is abstracted to the parts it has.  Views that are released by   *)
(* the statement after their use (the ELF header, the first section        *)
(* header) and the .opd view of PowerPC files are left out.                *)
(***************************************************************************)
EXTENDS Integers, FiniteSets

CONSTANTS
    Kinds \* the kinds of debug sections files have, among the three below

\* "gabi" and "zdebug": the two compressed formats.
ASSUME KindsAssumption == Kinds \subseteq {"plain", "gabi", "zdebug"}

VARIABLES
    has,        \* the parts of the file
    debug_has,  \* the kinds of debug sections of the separate debug file
    pie,        \* the argument exe is set and the file is ET_DYN
    at,         \* the step of the running call
    file,       \* "main", or "debug" inside the call for the debug file
    views,      \* the views mapped: <<file, part>>
    valid,      \* the ..._view_valid flags of each call
    descriptor, \* of each file: "unopened", "open", or "cleared" (set to -1)
    closes,     \* how often each descriptor was closed
    refused,    \* the descriptors whose close reported an error
    tried,      \* the ways a separate debug file was looked for
    symbols,    \* have the symbols been published
    dwarf,      \* the file whose debug info has been published, or "none"
    ret         \* what the last call to return returned

vars == <<has, debug_has, pie, at, file, views, valid, descriptor, closes,
          refused, tried, symbols, dwarf, ret>>
mapped == <<views, valid>>
descriptors == <<descriptor, closes, refused>>
published == <<symbols, dwarf>>
found == <<debug_has, tried>>

Files == {"main", "debug"}

\* A build id note is whole, or says it is longer than its section is; a
\* debug link has room for its checksum or not.
FileParts == [symtab : BOOLEAN, sections : SUBSET Kinds,
              buildid : {"none", "whole", "cut"},
              debuglink : {"none", "whole", "cut"}]
Notes == {"buildid", "debuglink"}

Init ==
    /\ has \in FileParts
    /\ debug_has = {}
    /\ pie \in BOOLEAN
    /\ at = "ehdr"
    /\ file = "main"
    /\ views = {}
    /\ valid = [f \in Files |-> {}]
    /\ descriptor = [f \in Files |-> IF f = "main" THEN "open" ELSE "unopened"]
    /\ closes = [f \in Files |-> 0]
    /\ refused = {}
    /\ tried = {}
    /\ symbols = FALSE
    /\ dwarf = "none"
    /\ ret = 0

debuginfo == file = "debug"
sections == IF debuginfo THEN debug_has ELSE has.sections

Map(part) ==
    /\ views' = views \cup {<<file, part>>}
    /\ valid' = [valid EXCEPT ![file] = @ \cup {part}]

\* backtrace_release_view; the flag is cleared with it.
Release(parts) ==
    /\ views' = views \ ({file} \X parts)
    /\ valid' = [valid EXCEPT ![file] = @ \ parts]

Close(f) ==
    /\ closes' = [closes EXCEPT ![f] = @ + 1]
    /\ refused' \in {refused, refused \cup {f}}

\* Any view, allocation, check or decompression may fail.
Fails ==
    /\ \/ at \in {"ehdr", "shdrs", "names", "scan", "symtab", "strtab", "syminfo", "dwarf"}
       \/ at = "debug_view" /\ sections # {}
       \/ at = "uncompress" /\ sections \cap {"gabi", "zdebug"} # {}
    /\ at' = "fail"
    /\ UNCHANGED <<has, pie, file, mapped, descriptors, found, published, ret>>

-----------------------------------------------------------------------------
(* Headers, names and notes                                                *)

ReadEhdr ==
    /\ at = "ehdr"
    /\ ~pie
    /\ at' = "shdrs"
    /\ UNCHANGED <<has, pie, file, mapped, descriptors, found, published, ret>>

\* "We need to wait for dl_iterate_phdr": -1, and the descriptor stays open.
\* phdr_callback then calls again for it, with exe = 0, or closes it.
WaitForPhdr ==
    /\ at = "ehdr"
    /\ pie
    /\ pie' = FALSE
    /\ at' \in {"ehdr", "abandon"}
    /\ ret' = -1
    /\ UNCHANGED <<has, file, mapped, descriptors, found, published>>

Abandon ==
    /\ at = "abandon"
    /\ Close("main")
    /\ at' = "done"
    /\ UNCHANGED <<has, pie, file, mapped, descriptor, found, published, ret>>

Get(step, part, next) ==
    /\ at = step
    /\ Map(part)
    /\ at' = next
    /\ UNCHANGED <<has, pie, file, descriptors, found, published, ret>>

GetShdrs == Get("shdrs", "shdrs", "names")
GetNames == Get("names", "names", "scan")

\* The loop over the sections maps the notes where it meets them, in the main
\* file only.
Unmet == {note \in Notes : ~debuginfo /\ has[note] # "none" /\ note \notin valid[file]}

ScanNote == \E note \in Unmet : Get("scan", note, "scan")

ScanEnd ==
    /\ at = "scan"
    /\ Unmet = {}
    /\ at' = IF has.symtab /\ ~debuginfo THEN "symtab" ELSE "sections"
    /\ UNCHANGED <<has, pie, file, mapped, descriptors, found, published, ret>>

-----------------------------------------------------------------------------
(* Symbols                                                                 *)

GetSymtab == Get("symtab", "symtab", "strtab")
GetStrtab == Get("strtab", "strtab", "syminfo")

\* elf_initialize_syminfo has succeeded; the string table stays mapped, as
\* the symbols point into it.
Publish ==
    /\ at = "syminfo"
    /\ Release({"symtab"})
    /\ symbols' = TRUE
    /\ at' = "sections"
    /\ UNCHANGED <<has, pie, file, descriptors, found, dwarf, ret>>

ReleaseHeaders ==
    /\ at = "sections"
    /\ Release({"shdrs", "names"})
    /\ at' = "buildid"
    /\ UNCHANGED <<has, pie, file, descriptors, found, published, ret>>

-----------------------------------------------------------------------------
(* The separate debug file                                                 *)

\* The test of the note's size accepts the notes that do not fit.
\* Mutant: the notes of the debug file are followed as well.
UsableAgain(note) == has[note] = IF note = "buildid" THEN "cut" ELSE "whole"
Usable(note) == ~debuginfo /\ has[note] = IF note = "buildid" THEN "cut" ELSE "whole"

next_step == [buildid |-> "debuglink", debuglink |-> "debug_view"]

\* The debug file is found, and elf_add calls itself for it.
FoundByNote(note) ==
    /\ at = note
    /\ Usable(note)
    /\ views' = views \ ({file} \X Notes)
    /\ file' = "debug"
    /\ descriptor' = [descriptor EXCEPT !["debug"] = "open"]
    /\ debug_has' \in SUBSET Kinds
    /\ tried' = tried \cup {note}
    /\ at' = "ehdr"
    /\ UNCHANGED <<has, pie, valid, closes, refused, published, ret>>

NotFoundByNote(note) ==
    /\ at = note
    /\ Release({note})
    /\ tried' = IF Usable(note) THEN tried \cup {note} ELSE tried
    /\ at' = next_step[note]
    /\ UNCHANGED <<has, debug_has, pie, file, descriptors, published, ret>>

-----------------------------------------------------------------------------
(* Debug sections                                                          *)

NoDebugSections ==
    /\ at = "debug_view"
    /\ sections = {}
    /\ Close(file)
    /\ \/ file \notin refused' /\ ret' = 1 /\ at' = "return"
       \/ file \in refused' /\ at' = "fail" /\ UNCHANGED ret
    /\ UNCHANGED <<has, pie, file, mapped, descriptor, found, published>>

\* "Read all the debug sections in a single view."
GetDebugView ==
    /\ sections # {}
    /\ Get("debug_view", "debug", "close")

\* "We've read all we need from the executable."
CloseFile ==
    /\ at = "close"
    /\ Close(file)
    /\ \/ /\ file \notin refused'
          /\ descriptor' = [descriptor EXCEPT ![file] = "cleared"]
          /\ at' = "uncompress"
       \/ /\ file \in refused'
          /\ at' = "fail"
          /\ UNCHANGED descriptor
    /\ UNCHANGED <<has, pie, file, mapped, found, published, ret>>

\* Both formats are uncompressed into memory of their own; using_debug_view
\* counts the sections still used where they are.
\* Mutant: the old format's sections count as well.
UsingDebugViewZdebug == sections \cap {"plain", "zdebug"}
UsingDebugView == sections \cap {"plain"}

Uncompress ==
    /\ at = "uncompress"
    /\ IF UsingDebugView = {} THEN Release({"debug"}) ELSE UNCHANGED mapped
    /\ at' = "dwarf"
    /\ UNCHANGED <<has, pie, file, descriptors, found, published, ret>>

\* backtrace_dwarf_add has succeeded.
AddDwarf ==
    /\ at = "dwarf"
    /\ dwarf' = file
    /\ ret' = 1
    /\ at' = "return"
    /\ UNCHANGED <<has, pie, file, mapped, descriptors, found, symbols>>

-----------------------------------------------------------------------------
(* Failure and return                                                      *)

Fail ==
    /\ at = "fail"
    /\ Release(valid[file])
    /\ IF descriptor[file] = "open" THEN Close(file) ELSE UNCHANGED <<closes, refused>>
    /\ ret' = 0
    /\ at' = "return"
    /\ UNCHANGED <<has, pie, file, descriptor, found, published>>

\* The call for the debug file never returns -1: its caller closes its own
\* descriptor and returns what that call returned.
Return ==
    /\ at = "return"
    /\ IF debuginfo THEN Close("main") ELSE UNCHANGED <<closes, refused>>
    /\ at' = "done"
    /\ UNCHANGED <<has, pie, file, mapped, descriptor, found, published, ret>>

Finished == at = "done" /\ UNCHANGED vars

Step ==
    \/ Fails \/ ReadEhdr \/ WaitForPhdr \/ Abandon \/ GetShdrs \/ GetNames
    \/ ScanNote \/ ScanEnd \/ GetSymtab \/ GetStrtab \/ Publish \/ ReleaseHeaders
    \/ \E note \in Notes : FoundByNote(note) \/ NotFoundByNote(note)
    \/ NoDebugSections \/ GetDebugView \/ CloseFile \/ Uncompress \/ AddDwarf
    \/ Fail \/ Return

Next == Step \/ Finished

Spec == Init /\ [][Next]_vars

\* One thread runs elf_add, and runs on.
FairSpec == Spec /\ WF_vars(Step)

-----------------------------------------------------------------------------
(* Properties                                                              *)

Parts == {"shdrs", "names", "buildid", "debuglink", "symtab", "strtab", "debug"}

\* The types of the variables.
TypeOK ==
    /\ has \in FileParts
    /\ debug_has \in SUBSET Kinds
    /\ pie \in BOOLEAN
    /\ file \in Files
    /\ views \subseteq Files \X Parts
    /\ valid \in [Files -> SUBSET Parts]
    /\ descriptor \in [Files -> {"unopened", "open", "cleared"}]
    /\ closes \in [Files -> 0..2]
    /\ refused \subseteq Files
    /\ tried \subseteq Notes
    /\ symbols \in BOOLEAN
    /\ dwarf \in Files \cup {"none"}
    /\ ret \in {-1, 0, 1}

\* While a call runs, its flags say which views it holds: what the code at
\* fail releases was mapped, was not released before, and is all there is.
FlagsMatch ==
    at \notin {"return", "done"} =>
        valid[file] = {part \in Parts : <<file, part>> \in views}

\* When elf_add has returned, the only views left are the string table of
\* published symbols and the debug sections of published debug info.
NothingLeaked ==
    at = "done" =>
        views \subseteq (IF symbols THEN {<<"main", "strtab">>} ELSE {})
                        \cup {<<f, "debug">> : f \in {dwarf} \cap Files}

\* Published debug info that points into the debug view keeps it mapped;
\* debug info that was all uncompressed into other memory does not.
DwarfDataHeld ==
    dwarf # "none" =>
        (<<dwarf, "debug">> \in views <=>
            "plain" \in IF dwarf = "main" THEN has.sections ELSE debug_has)

\* "In both cases descriptor is closed": on every way out each descriptor
\* opened is closed, and it is closed again only after a close that failed.
ClosedOnce ==
    /\ at = "done" =>
        \A f \in Files : descriptor[f] # "unopened" => closes[f] > 0
    /\ \A f \in Files : closes[f] > 1 => f \in refused

\* "We hold on to the string table permanently": symbols that have been
\* published keep the string table they point into, while the call goes well.
StringTableHeld == at = "done" /\ symbols /\ ret = 1 => <<"main", "strtab">> \in views

\* Whatever fails, every view and descriptor has one end.
ElfSafe ==
    TypeOK /\ FlagsMatch /\ NothingLeaked /\ DwarfDataHeld /\ ClosedOnce /\ StringTableHeld

\* elf_add returns.
Ends == <>(at = "done")
=============================================================================
