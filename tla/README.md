# A TLA+ verification of VkPlayground's libraries

The repository holds an application stub (`src/main.cpp`), the Lua scripts that
generate its shaders and assets (`Scripts/`), and two libraries compiled with
it: a stack-trace library (`backtrace/`: libbacktrace with the mmap allocator and
the ELF reader) and the Lua 5.3 interpreter that runs the scripts (`lua_53/`).
The two libraries hold what is hard to test: `backtrace/` has threads, signal
handlers and partial failures; `lua_53/` has an incremental collector under a
running program, tables whose nodes move, errors and coroutines that cut the C
stack, and a one-pass compiler. Both are modelled here.

Paths are relative to the repository's root. `PROJECT.json` lists every component
with its status, every run, the code lines each definition stands for, every
hazard at its line with the properties that would catch it, and the findings.

## Inventory

| component | files | state | operations | hard behaviour |
|---|---|---|---|---|
| mmap allocator | `backtrace/mmap.c`, `state.c` | free list, `lock_alloc`, mapped pages | alloc, free, release of a vector's tail | a try-lock nobody may wait for (signal handlers), splits and evictions under it, leaks by design, munmap |
| initialisation on first use | `backtrace/fileline.c`, end of `elf.c`, `backtrace_dwarf_add` | two function pointers, a failure flag, two lists | pcinfo, syminfo, initialise | racing first callers, compare-and-swap appends, failure of one module |
| ELF reader | `backtrace/elf.c` (`elf_add`) | views of a file, a descriptor | headers, symbols, debug sections, debug file | an error at every step must release exactly what is held and not published |
| zlib inflate | `backtrace/elf.c` | bit buffer, decoding tables | uncompress a section | reading ahead, copies that overlap, malformed codes |
| DWARF lookup | `backtrace/dwarf.c` (`dwarf_lookup_pc`) | four fields per unit | find a unit, read it once, publish, search | unlocked publication by several threads, failed reads |
| DWARF range table | `backtrace/dwarf.c` (`add_unit_addr`, `unit_addrs_search`) | sorted table | add, merge, sort, bsearch, scan forward | nested ranges, bsearch's precondition |
| DWARF readers | `backtrace/dwarf.c` | abbreviations, line rows, functions, one vector for all units | build the map, run a line program, read functions, report | errors in mid-section, carried-over state, inlined calls |
| sort | `backtrace/sort.c` | an array in place | sort | no allocation, logarithmic stack |
| Lua collector | `lua_53/src/lgc.c`, `lstate.c` | colours, gray lists, phases | step, barriers, finalizers, close | the incremental invariant, weak tables, resurrection |
| Lua tables, strings | `lua_53/src/ltable.c`, `lstring.c` | array and hash part; string table, cache | get, set, rehash, next, length; intern | free pointer, main positions, dead keys, dead strings that return |
| Lua calls, errors, coroutines | `lua_53/src/ldo.c`, `lfunc.c`, `lcorolib.c` | CallInfos, C stack, open upvalues | call, tail call, pcall, resume, yield, throw | long jumps, continuations, both stacks' overflow |
| Lua compiler and VM | `lua_53/src/lparser.c`, `lcode.c`, `lvm.c` | registers, jump lists, labels, upvalues | parse, emit, execute | patching, goto and closures, register discipline |
| Lua libraries | `lua_53/src/lstrlib.c`, `ltablib.c`, `lutf8lib.c` | matcher with captures; a table; bytes | match, find, gmatch, gsub, ...; insert, sort, move, ...; utf8.* | backtracking, index arithmetic at the ends of the integers, wrong order functions |

The rest (printing, other ports, tests, the lexer, `lapi.c` and thin libraries,
the scripts and templates) is listed under "What is not modelled".

**How they interact.** `backtrace_pcinfo` initialises (`Fileline`): each module
is read by `elf_add` (`ElfAdd`), which inflates compressed sections (`Inflate`) and
whose symbols and DWARF data are appended to two lists. `build_address_map`
(`DwarfUnits`) fills the table of ranges (`RangeSearch`), sorted by
`backtrace_qsort` (`QuickSort`). Later calls look a pc up in each module
(`DwarfLookup` with its threads; `DwarfReaders` with what is read), read a unit
the first time and report the lines and the inlined calls. Every table comes
from `backtrace_alloc` (`MmapAlloc`), from any thread and from signal handlers.

In Lua, `LuaParser` calls `LuaCode` for each construct and `LuaVM` executes the
result. `LuaCall` is the protocol between the interpreter's loop, C functions,
errors and threads; `LuaGC` runs between any two operations that allocate; it
kills keys of `LuaTable` and strings of `LuaStringTable`. The libraries call the
program back (order functions, gsub's functions, iterators).

## The modules

| module | models | relation |
|---|---|---|
| `MemPool` | what an allocator promises | abstract |
| `MmapAlloc` | `backtrace/mmap.c` | implements `MemPool` |
| `MmapAllocProofs` | safety; refinement, alignment, leak | extend `MmapAlloc` |
| `Fileline`, `FilelineProofs` | `fileline.c`, `backtrace_initialize`, `phdr_callback`, the lists | |
| `ElfAdd`, `ElfAddProofs` | `elf_add` and its call for a debug file | |
| `HuffmanTable`, `Inflate`, `InflateProofs` | `elf_zlib_inflate_table`; `elf_uncompress_*`, `elf_zlib_inflate` | |
| `Deflate` | the format (RFC 1950, 1951) | reference for `Inflate` |
| `DwarfLookup`, `DwarfLookupProofs` | `dwarf_lookup_pc`, any number of threads | |
| `RangeSearch`, `SortedTableProofs` | the range table and its search | |
| `DwarfUnits`, `DwarfLines`, `DwarfReaders` | `build_address_map`; `read_line_info`; `read_function_info` and the report | each extends the one before, the first `RangeSearch` |
| `DwarfTree` | what debug information means (DWARF 2 to 4) | reference for `DwarfReaders` |
| `QuickSort`, `SortedTableProofs` | `backtrace/sort.c` | |
| `LuaGC` / `LuaHeap` | `lgc.c` / what a collector promises | refinement |
| `LuaTable`, `LuaTableProofs` / `LuaMap` | `ltable.c` / what a table promises | refinement |
| `LuaStringTable`, `LuaTableProofs` | `lstring.c` with the collector's sweep | |
| `LuaCall`, `LuaCallProofs` / `LuaControl` | `ldo.c`, `lcorolib.c`, pcall / what calls, errors and coroutines mean | refinement |
| `LuaCode`, `LuaParser`, `LuaVM`, `LuaCompile` | `lcode.c`; `lparser.c`; `lvm.c`; one after the other | |
| `LuaSource` | what a program means | reference for `LuaCompile` |
| `LuaStrLib` / `LuaPattern` | `lstrlib.c` / what a pattern means | reference |
| `LuaTabLib`, `LuaUtf8` | `ltablib.c`, `lutf8lib.c` | |
| `MC...` | values for TLC | extend the above |

Definitions under a comment "Mutant" are plausible bugs in the definition whose
name they begin with; nothing uses them. Each property of each run is known to
fail when one of them takes the definition's place.

### MmapAlloc

The state is that of `struct backtrace_state` (`freelist`, `lock_alloc`) and of
the address space (`mapped`), with the blocks callers hold (`live`) and each
caller's program counter and locals. A block is an address and a size: what
matters here is who owns which byte. A walk of the list is one action, as it
happens under the lock; taking the lock, walking, unlinking, unlocking and
mapping are separate actions. A caller that finds the lock busy maps fresh pages
or leaks what it was to free; `mmap` and `munmap` may fail at any time.
`Threaded = FALSE` is the unthreaded state. The numbers of the code (8, 16,
16 * 4096, the size of a list header) are CONSTANTS.

`MemPool` has no list and no lock: a caller gets aligned bytes no other caller
has, or nothing. `ImplementsPool` maps `live` to `live`.

### Fileline

Module 1 is the executable, the others its libraries. Reading a file is reduced
to what the shared state can tell: it has symbols or not, debug info or not, and
fails before or after its symbols are published (`Flaky`). Loads and stores of
shared fields are actions of their own. `Walk` and `Swap` are the append: the
walk ends at the null link it saw, and the compare-and-swap succeeds when it is
still null.

### ElfAdd

One call of `elf_add`, or two when the debug info is in a file of its own. `at`
is the step, `file` tells which call runs, `views` is what is mapped, `valid` the
flags the code keeps about it. Any step that maps, allocates or checks may fail
(`Fails`) and then runs the code at the label `fail`.

### Inflate, HuffmanTable

A section is a sequence of bytes with the alignment it is mapped at, because the
code reads four bytes at a time from aligned addresses; `val` is the sequence of
bits it has read and not used. `HuffmanTable` builds the two-level table;
`Primary` is 8 as in the code for streams and 2 where all codes of up to five
symbols are tried. Codes of up to eight bits (`Short`) and longer ones (`Long`) are
the two halves of `elf_zlib_inflate_table`; its loops are recursive functions, so
that they can be proved about. `Deflate` is an encoder written from the format: TLC takes
its streams, and damaged ones, and compares.

### DwarfLookup and RangeSearch

`Addrs` is the sorted table; `bsearch` may return any entry that contains the
pc, and may miss it when the table is not partitioned (the search step by step
is `RangeSearch`). The loads of `lines`, the four stores and the later reads of
counts and tables are separate actions, since nothing is locked. A table is
`"null"`, `"bad"` (the code's `(struct line *) -1`) or `"good"`. In `RangeSearch`
the halving steps are those of the C library's `bsearch`, marked external.

### DwarfUnits, DwarfLines, DwarfReaders

Sections are sequences of entries, not bytes: an attribute keeps its form, which
decides what the code makes of its value, but not its encoding. Every allocation
may fail (`spare`), every check that calls the error callback is there, and so is
the vector that `read_function_info` keeps between units when there are no
threads. Functions of the same addresses are in the order of their names, as
`function_addrs_compare` puts them (`NamesInOrder`). `DwarfTree` lays out trees of entries and line programs as sections and
says what they mean for a pc; a lookup is compared with it.

### QuickSort

The recursion is a stack of parts still to do. `Pivot`, `Compare` and `Cut` are
the loop head, one comparison and the end of the loop.

### LuaGC

One action is one `singlestep`, one finalizer call or one operation of the
program (create, link, unlink, set a metatable, drop, yield a coroutine, close an
upvalue), each with the barrier the code has there. The three gray lists, the
ephemeron, weak and all-weak lists, the three object lists, the sweep pointer and
its list positions are the code's. `LuaHeap` knows only which objects are alive,
held, or queued to be finalized.

### LuaTable

`ltable.c` with its nodes: chains are relative links, the free pointer goes down,
a colliding node that is not in its main position is moved. The program assigns,
clears and traverses, the collector kills keys of empty entries, and a rehash
counts the keys of each slice between two powers of two, as `numusearray`,
`numusehash` and `countint` do (`Counted`), and goes over the slices as
`computesizes` does.
`LuaMap` is a function and a traversal.

### LuaCall

All threads share one C stack, whose records are what is left to do of each C
function in progress; an error or a yield is a long jump that cuts it, and
`finishCcall` and `unroll` go on from the CallInfos alone. `LuaControl` has frames
and a chain of threads, and no C stack, jumps or continuations. The programs
(mixtures of operations), the refinement mapping and the lists of instructions are
in `MCLuaCall`. `MaxCCalls` is at least 8, as `stackerror` leaves an eighth of it to
handlers of the overflow (`llimits.h` sets 200).

### LuaCode, LuaParser, LuaVM, LuaSource

The parser's recursive descent is a stack of tasks: an action is the part of a
parse function up to its next call of another one. Expression descriptions,
registers, jump lists, constants, blocks, labels, pending gotos and upvalues are
the code's; a jump list, threaded through the instructions in C, is a set. `LuaVM`
executes an instruction per action; a register never written, or one a call has
overwritten, holds `Junk`. `L->top` tells how many values there are while their
number is open; the next instruction uses it and puts it back to `ci->top`, which
`OpenReadOnce` asks of every path. `LuaSource` gives the meaning of the syntax tree that
the tokens were written from: the calls of the C function `f` it makes and the
values it returns. The limits `MAXINDEXRK`, `LFIELDS_PER_FLUSH` and `MAXREGS` are
CONSTANTS.

### LuaStrLib, LuaPattern, LuaTabLib, LuaStringTable, LuaUtf8

The matcher is the C code's: a stack of alternatives and a record of captures
that is changed and changed back. `LuaPattern` lays items over the subject without
trying anything. `sort`'s steps are comparisons, whose answers an inconsistent
order function gives at will; integers have `IntBits` bits and wrap. In
`LuaStringTable` a string is dead after the mark and until its sweep, and may be
asked for in between; an allocation may run a whole collection.

## What the runs show

| run | bounds | result |
|---|---|---|
| `mmap` | 2 threads, one of which may stop anywhere; 2 pages of 8 bytes, list of 2, sizes 3 and 8, header of 3, unmap from 8 | types, lock, link, list bound and owners of bytes (`AllocatorSafe`); `MemPool` is implemented; only the smallest is leaked; every call of the other thread returns |
| `fileline` | 2 threads, 2 modules, one without symbols, all may fail | no null call, publication after data, each module read once, no silent call but after a failure (`FilelineSafe`); lists only grow; calls return |
| `elf` | every file with the three kinds of debug sections, a failure anywhere | flags match views, nothing leaked, published data keeps its views, descriptors closed once (`ElfSafe`); the call returns |
| `dwarf` | 2 threads, 3 nested units, 3 pcs, one thread may run out of memory | the unit contains the pc and its fields are complete (`LookupSafe`), nothing is unread, lookups end |
| `readers` | two thousand sections: one and two units with up to three ranges, line programs of two or three of ten instructions, 9 bodies of a function by 11 ways to name it by 4 ways to bound it, 16 faults, each allocation failing | reports are right (`ReportsRight`), or say less when something cannot be read (`NeverWrong`); the table is exact and the search right (`LookupRight`), and ends |
| `sort` | all arrays of 6 elements with 3 keys | permutation and order, logarithmic depth, termination |
| `inflate` | 40 streams at 4 alignments, blocks ending at every bit, every byte of a stream damaged, all codes of up to 5 symbols of up to 4 bits | what a stream stands for comes out, of others nothing; no byte is written beyond the buffer; tables decode |
| `gc` | three heaps of 7 to 9 objects (ephemerons in a chain, a finalizer's object in weak tables, a closure of a coroutine), 2 operations of the program at any points of the cycles | nothing reachable is freed or changed, lgc.h's invariants, refinement of `LuaHeap`, what is dropped is freed |
| `table` | integer keys 0 to 3, three keys that are not integers, two of them collectable, a float key; array to 2, hash to 4, 4 assignments, integers to 5 | layout, border, a rehash gives the array part the largest size of which more than half is used (`ArrayOptimal`), refinement of `LuaMap` with its traversal |
| `call` | 7 mixtures of operations, 2 coroutines, 3 to 5 operations each, 16 C calls, stack of 32 | ldo.c's assertions and counters, C stack bounded, refinement of `LuaControl` |
| `compile` | 424 programs; `MAXINDEXRK` 1, 2 fields per flush, 20 registers | programs do what they mean, illegal ones and only those are refused, assertions hold, no unset register is read, an open number of values is used once and at once (`CodeSound`), compiling and running end |
| `library` | all patterns of up to 3 items on short subjects, all item kinds in pairs, replacements; tables of up to 4 fields, sorts of up to 6, with 4-bit integers; 4 strings in hash tables of 1 to 8; byte strings of up to 8 | what the manual says of each function; one object per text |

Why the bounds are enough. The allocator's cases are an exact hit, a split, a
miss, a busy lock, a full list and a block that can be unmapped; a list of two
with two pages reaches each, in every interleaving of two callers, and a third
caller adds only another busy lock. In `Fileline` and `DwarfLookup` each race is
between one writer and one other thread; two modules are the least at which one
fails after another was published; three units are the least that nest with a
sibling. Six elements make the sort recurse twice on either side. In `gc` each
heap holds one kind of weak table, ephemeron or upvalue with what it depends on,
and two operations are the least that hide a white object behind a black one and
drop the other reference. A hash part of four with keys that all collide moves
nodes in every way, and four assignments reach a rehash that changes both parts.
The small limits of `compile` make constants too many for an operand, tables
longer than a flush and functions short of registers ordinary cases.

**Deadlock** is checked except in `table` and `library`, whose behaviours end
when the budget of assignments is spent or the one call has returned.

**Fairness.** `FairSpec` gives weak fairness to the steps of a thread inside a
call: a started call is scheduled, starting another is the caller's choice. In
`MmapAlloc` only the threads of `FairThreads` have it: the others may stop for
good anywhere, which is how a signal handler sees the thread it interrupted. The
single thread of `QuickSort`, `ElfAdd` and a search in `RangeSearch` goes on. In
`LuaGC` the state is closed, or the program goes on allocating and the collector
is driven (the debt does this in the code). A program being compiled and run in
`LuaCompile` goes on.

**Exceptions stated in properties.** They are visible in the definitions, and each
is a finding or a choice of the code:

- `AnswersUnlessFailed` lets a call end silently after another thread's failure.
- `StringTableHeld` holds of calls of `elf_add` that succeed.
- `FieldsBeforeLines` exempts units a read of which ran out of memory
  (`starved`): the comment's "it presumably read the same information" fails there.
- `ReportsRight` and `NeverWrong` speak of tables bsearch can search
  (`AllSearchable`), and `NeverWrong` of `RowLost` rows.
- `Decompresses` leaves out the sections for which `ends` or `short` is set, and
  `TablesDecode` incomplete codes where the value 0 has one bit.
- `CountersMatch` exempts a thread that was resumed while it was running.
- `MatcherRestored` leaves out calls after an error of the same iterator.
- `compile` has no program with two `nil` locals around a label, and `gc` no start
  with two pending finalizers, so that their order is not checked either. With
  `Finalizers` added to `MCStarts` TLC shows the finding on `lgc.c:797`.

## Findings

Disagreements of the code with its own comments, headers or manual, met while
modelling; `PROJECT.json` quotes the lines.

| code | what it does |
|---|---|
| `fileline.c:180` | a call makes no callback when another thread's initialisation failed after its own succeeded |
| `elf.c:2683` | `found_sym` is reset for each module, so the last one decides whether symbols are searched |
| `elf.c:2871` | the size test of the build id note is inverted |
| `elf.c:3198` | a failure after the symbols are published releases the strings they point into |
| `elf.c:1078`, `:1676`, `:1757` | valid streams are refused: some short ones, concatenated ones, and stored blocks after exactly one whole byte read ahead |
| `elf.c:1286` | an entry for the value 0 looks like a free one, so impossible codes are accepted |
| `dwarf.c:1628`, `:1868`, `:2195` | repeated rows are not recognised with a base address; a row is lost silently; a later name replaces a linkage name |
| `dwarf.c:2747` | with nested ranges bsearch may miss the one that contains the pc |
| `dwarf.c:2857` | the retry for a better unit is dead code |
| `lgc.c:797` | a finalizer called while its list is swept leaves the rest of the list black for a cycle, in which what only they lead to is freed |
| `lparser.c:1229` | a label is no jump target for `luaK_nil`, which merges across it |
| `ldo.c:654` | resuming a thread that is running changes its counters |
| `ltablib.c:142` | `table.move` copies upwards over its source when the destination is named and the same |
| `lstrlib.c:240`, `:619` | the matcher's counters are kept over the matches of a call, and after an error |

Seen as well, and ruled out by no sentence: the load, test and store of
`fileline_fn` at the end of `backtrace_initialize` are three steps, and
`dwarf_fileline` may be overwritten with `elf_nodebug`; `backtrace_syminfo` may
report an error and then call back as well.

## What is proved

`MmapAllocProofs` proves `AllocatorSafe` for every set of threads, sizes, page
size, arena and list bound that the assumptions of `MmapAlloc` allow. None of its
parts is inductive alone: that no byte has two owners depends on the list's
changing only under the lock and on a caller's locals being empty outside the
steps that use them, and the validity of the found link on both. The invariant is
their conjunction with the facts tying each caller's locals to its program
counter. One lemma for each list operation, one step per action.

It also proves that `MmapAlloc` implements `MemPool`
(`Spec => ImplementsPool`): the returning step of an allocation is `Alloc`, the
start of a free `Free`, the release of a tail `Shrink`, all else a stutter. It
needs a second invariant, that every block anywhere, in the list or in a caller's
locals, is aligned and has an aligned size, which splits and shrinks keep because
requests are rounded; this is the theorem `AlwaysAligned`. `DropsTheSmallest`
proves `LeaksTheSmallest`: the entry evicted is the least of the full list, and
the block pushed is compared with it.

`FilelineProofs` proves `FilelineSafe` and `ListsOnlyGrow` for any threads and
modules, any of them failing. That no call goes through a null pointer needs the
order of the stores: `syminfo_fn` is set whenever `fileline_fn` is, and a thread
past the initialisation has seen `fileline_fn` set. That no thread reads a module
twice needs that every entry a thread appended is of a module before the one it
reads. That a call ends silently only after a failure needs that a thread past
its own initialisation finds functions stored.

`DwarfLookupProofs` proves `LookupSafe` and `NeverUnread` for any number of
threads, any table and any unreadable units. The key is what every complete read
of a unit finds (`Right`): each field of a unit is unset or that of `Right`, all
are set once `lines` is, and each thread that stores has stored so far what
`Right` says, whoever else stores in between. That the scan forward ends at a
range that contains the pc is proved from the well-ordering of the numbers.

`SortedTableProofs` proves `LookupRight`: bsearch stays inside the table, merging
and sorting keep the addresses of every unit, and a lookup is sound for every
table and complete for partitioned ones. The strengthening says that every entry
outside `lo + 1 .. hi` lies on its side of the pc.

It also proves `SortCorrect` for arrays of any length, any elements and
any weak order. The invariant is that two elements out of order always lie in one
part, at work or waiting, and that the parts do not overlap.

`ElfAddProofs` proves `ElfSafe`. Its parts are not inductive: that nothing is leaked
needs to know, for each step, which views can be mapped there and which flags
say so, and for the call of the debug file what the first call left behind. The
invariant is the conjunction of the type invariant with these facts, one lemma
per step of `elf_add`.

`InflateProofs` proves `StaysInside` for sections of any bytes, and `OnlyVerified`:
what is handed on has the size and the checksum the section names. The decoding
loop is safe only if what it is given by the tables is, so half of the module is
about `HuffmanTable`: `BuildGood` says that for any lengths of codes, possible or
not, a table takes at most 895 of its 1024 places (a secondary table begins at 511
at the latest and has at most 128 places) and that each entry that names a
secondary table names one that is inside it; `DecodeGood`, that no bits lead out of
such a table. The loops of the table are functions defined by recursion, which
the lemmas `Loop` and `LoopStays` handle once. The rest of the invariant `IInv` is
that bits read ahead and not used are among those before the next place, which is
what makes giving them back safe, and that the code for lengths has no secondary
tables, as it has no length above seven. TLC has checked `IInv` on the sections of
run `inflate`. `SectionsAssumption` is that sections are bytes somewhere in memory,
`FixedAssumption` that the program that generates the fixed tables has not
failed, as it then stops.

`LuaCallProofs` proves `DepthBounded`: whatever a program calls, resumes, catches
and yields, in any number of coroutines and for every limit of at least 8, calls
of C nest to nine eighths of `LUAI_MAXCCALLS` and no deeper. The counters are per thread, are copied at a resume and put back after an error, so no
counter alone bounds the stack. The invariant `IInv` says that each thread counts
at least the C calls and resumes below any of its records, whosever they are
(`Counts`); that what a protected call puts back covers what is below it; that
`errorJmp` and `previous` name the innermost protected calls of their thread
(`Jumps`); and that a thread's records come after those of the thread that resumed
it, behind a protected call (`Segments`). Then only the thread on top has to be
compared with the limit. A step pushes, pops, relabels or cuts records: one lemma
for each (`Push`, `PushTry`, `Pop`, `Relabel`, `Thrown`, ...), and one per action
over them. `Home` adds that an error is always caught by a protected call of the
thread it is raised in, and `Counting` that no thread, running or not, counts less
than its records need. The frames and values do not matter to these proofs.
TLC has checked `IInv` on the mixtures of run `call`.

`LuaTableProofs` proves what run `table` checks of `ltable.c`, for any keys,
hashes, sizes and number of assignments: `TableSound`, `ArrayOptimal` and
`ImplementsMap`. `TableSound` is not inductive: an insertion that moves a node is
right only if the node before the moved one is the only one, if the free node is on
no chain, and if no chain comes back to itself. `Sound` says so: chains are acyclic
(each node has a rank that goes down along `next`); no two nodes have the same
next; a node without a key is on no chain, and its key's main position heads the
chain of each other node and is itself at home; a live key comes before a dead
equal; no key in a node belongs to the array part; dead entries are empty; every node above the
free pointer is used, which is why a failed search for one means the hash part is
full; and the dummy node is never written. An assignment that finds no free node
rehashes: whether an index is counted in the array part or by its logarithm, the
slices up to one are the keys up to its power of two (`SlicesAre`), so that
`computesizes` yields the largest size of which more than half is used, be it among
the sizes it tries or beyond them (`SizedBy`); the parts that `luaH_resize` builds hold what was to be entered, so the key then has a place
(`Rehashed`), and every other key keeps its value (`Resized`). Each loop is a
recursive function with one lemma that unfolds it. The border that `luaH_getn`
returns, including the doubling of `unbound_search` and the linear search where
doubling would overflow, is found because finitely
many keys have values. `TInv` adds to `Sound` that the size of the hash part is a
power of two and that a traversal stands at a key that `findindex` finds; TLC has
checked it on run `table`. For `LuaMap` each step is shown to be the map's: a
rehash changes no value, only an assignment to a new key can do one, and so a
traversal under way, during which there is none, visits what lies ahead of it.

The same module proves `StringsShared` of `LuaStringTable`, for any texts, hashes,
addresses and sizes of the table, with collections inside an allocation: the
bucket of a hash holds exactly the strings of that hash (`Hashed`), no two strings
have one text (`Unique`), and whatever the program or the cache of `luaS_new` can
reach is not of the dead colour (`Alive`), which is what finding a dead string and
reviving it, the clearing of the cache before a sweep and the sweep itself keep.

The theorems rest on the named assumptions about the constants in each module,
which every run evaluates. `Threaded = FALSE` and requests of any size, zero
included, are covered by the proofs and not by a run.

**Only model-checked**: liveness (`CallsTerminate`, `Ends`, `LookupsEnd`,
`SearchEnds`, `SortEnds`, `Reclaims`), which is beyond the proof system, as is the
logarithmic depth of the sort (a power of two); what is compared with a reference
over data (`Decompresses`, `TablesDecode`; `ReportsRight` and `NeverWrong` of the
readers; `MeansTheSame`, `RefusesTheIllegal` and `CodeSound` of the compiler;
`MatchesRight`, `TablesRight` and `Utf8Right` of the libraries), most of which
use recursive definitions whose induction the provers cannot do; and of `LuaGC`
the invariants and the refinement of `LuaHeap`, for the marking of the collector
and the meaning of ephemerons are such definitions too. Of `LuaCall`, the
refinement of `LuaControl` and `CallsConsistent` (counts that are exact, and what
`ldo.c` asserts of frames and of `nny`) stay with TLC: they relate each record to
the frames of its thread.

## What is not modelled

Within modelled parts:

- mmap: growing and finishing a vector, which only call and copy; the release of
  a vector whose element size is no multiple of eight, where rounding may not fit.
- ELF: the `.opd` section of 64-bit PowerPC, the search of the symbol table, the
  names of debug files.
- DWARF: byte encodings (LEB128, 64-bit DWARF, sizes of forms).
- Collector: a weak mode that becomes stronger during a cycle, emergency
  collections other than those of the string table, a finalizer that itself runs a
  full collection, the debt arithmetic.
- Tables and strings: long strings, the conversions of `lobject.c`.
- Calls: hooks, debug information, dump and undump; an error without a handler
  (the panic function: all programs run in a protected call), and coroutines whose
  stack cannot take what is passed to them (`lua_checkstack` in `auxresume`).
- Compiler and VM: the limits on nesting (`enterlevel`), local variables and
  upvalues of a function, which only refuse a program; floats, bitwise operators, division, metamethods, `LOADKX`, line
  numbers.
- Libraries: `string.format`, `pack`, `unpack`, `upper`, `lower`, `char`, `dump`;
  `table.pack`; tables with metamethods.

Whole parts: stack capture and printing (wrappers without state), the ports that
are not built (`pecoff.c`, `xcoff.c`, `alloc.c`, `read.c`, ...), libbacktrace's
tests, the lexer, `lapi.c`, the binary chunks and the other libraries of Lua (thin
layers over the modules above or over the C library), the shader parser and the
other scripts (one pass over text, input and output), vendored Lua modules, shell
helpers, the application stub and templates.

## Plan

What would come next, in this order: metamethods and the emergency collection in
`LuaGC` and `LuaVM`; the lexer and the number conversions; a proof of
`CallsConsistent`, and one of the collector's invariant once its marking is stated
without recursion; `string.pack` and `string.unpack`; the symbol table's search.
