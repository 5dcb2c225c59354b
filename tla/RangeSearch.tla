----------------------------- MODULE RangeSearch -----------------------------
(***************************************************************************)
(* The table of address ranges backtrace/dwarf.c keeps for a module:       *)
(* add_unit_addr appends the range of a compilation unit, or merges it     *)
(* with the last one; build_dwarf_data sorts the table; dwarf_lookup_pc    *)
(* finds a program counter by bsearch, then moves forward over the ranges  *)
(* that contain it too.  The table of the functions of a unit is sorted    *)
(* and searched in the same way.                                           *)
(*                                                                         *)
(* bsearch is the C library's: the build links glibc, which halves the     *)
(* interval at its middle.                                                 *)
(***************************************************************************)
EXTENDS Integers, Sequences

CONSTANTS
    Ranges,  \* the ranges read from the debug info: [low, high, u]
    MaxAdds, \* how many are read: bounds the model's table
    Pcs      \* the program counters looked up

ASSUME RangesAssumption ==
    /\ \A r \in Ranges : r.low \in Nat /\ r.high \in Nat /\ r.low <= r.high
    /\ \A r \in Ranges : r = [low |-> r.low, high |-> r.high, u |-> r.u]
    /\ MaxAdds \in Nat
    /\ Pcs \subseteq Nat

VARIABLES
    addrs,  \* the table
    added,  \* the ranges that went into it
    at,     \* what the program is doing
    pc,     \* the program counter looked up
    lo, hi, \* bsearch looks at positions lo + 1 to hi
    entry   \* the position found, 0 for NULL

vars == <<addrs, added, at, pc, lo, hi, entry>>

Unit == {r.u : r \in Ranges}
AddrRange == [low : Nat, high : Nat, u : Unit]

Contains(r, p) == r.low <= p /\ p < r.high
Within(i, p) == i \in 1..Len(addrs) /\ Contains(addrs[i], p)

Init ==
    /\ addrs = << >>
    /\ added = {}
    /\ at = "build"
    /\ pc = 0
    /\ lo = 0
    /\ hi = 0
    /\ entry = 0

-----------------------------------------------------------------------------
(* Building the table                                                      *)

\* Mutant: the ranges of different units are merged.
MergesUnits(p, r) == r.low \in {p.high, p.high + 1}
Merges(p, r) == r.low \in {p.high, p.high + 1} /\ r.u = p.u

AddMerged(r) ==
    LET n == Len(addrs) IN
    /\ addrs # << >> /\ Merges(addrs[n], r)
    /\ addrs' = IF r.high > addrs[n].high
                THEN [addrs EXCEPT ![n] = [@ EXCEPT !.high = r.high]]
                ELSE addrs
AddAppended(r) ==
    /\ addrs # << >> => ~Merges(addrs[Len(addrs)], r)
    /\ addrs' = Append(addrs, r)

AddUnitAddr(r) ==
    /\ at = "build"
    /\ Len(addrs) < MaxAdds
    /\ AddMerged(r) \/ AddAppended(r)
    /\ added' = added \cup {r}
    /\ UNCHANGED <<at, pc, lo, hi, entry>>

\* unit_addrs_compare: by start; of two that start together the longer first.
\* Units of two equal ranges are ordered by the offset of their lines, which
\* the model leaves open.
Before(r, s) == r.low < s.low \/ (r.low = s.low /\ r.high >= s.high)

Sorted(s) == \A i, j \in 1..Len(s) : i < j => Before(s[i], s[j])

\* The ways to rearrange s: position j gets what was at f[j].
Rearrangements(s) ==
    {f \in [1..Len(s) -> 1..Len(s)] :
        \A i \in 1..Len(s) : \E j \in 1..Len(s) : f[j] = i}

\* backtrace_qsort: module QuickSort has how it gets there.
QSort ==
    /\ at = "build"
    /\ \E f \in Rearrangements(addrs) :
          addrs' = [i \in 1..Len(addrs) |-> addrs[f[i]]]
    /\ Sorted(addrs')
    /\ at' = "ready"
    /\ UNCHANGED <<added, pc, lo, hi, entry>>

-----------------------------------------------------------------------------
(* Looking up a program counter                                            *)

Lookup(p) ==
    /\ at = "ready"
    /\ pc' = p
    /\ lo' = 0
    /\ hi' = Len(addrs)
    /\ entry' = 0
    /\ at' = "bsearch"
    /\ UNCHANGED <<addrs, added>>

Middle == (lo + hi) \div 2

\* Mutant: a range that ends at the pc is looked at again.
GoRightStays ==
    /\ at = "bsearch" /\ lo < hi
    /\ pc >= addrs[Middle + 1].low
    /\ pc >= addrs[Middle + 1].high
    /\ lo' = Middle
    /\ UNCHANGED <<addrs, added, at, pc, hi, entry>>

GoLeft ==
    /\ at = "bsearch" /\ lo < hi
    /\ pc < addrs[Middle + 1].low
    /\ hi' = Middle
    /\ UNCHANGED <<addrs, added, at, pc, lo, entry>>

GoRight ==
    /\ at = "bsearch" /\ lo < hi
    /\ pc >= addrs[Middle + 1].low
    /\ pc >= addrs[Middle + 1].high
    /\ lo' = Middle + 1
    /\ UNCHANGED <<addrs, added, at, pc, hi, entry>>

Hit ==
    /\ at = "bsearch" /\ lo < hi
    /\ Contains(addrs[Middle + 1], pc)
    /\ entry' = Middle + 1
    /\ at' = "forward"
    /\ UNCHANGED <<addrs, added, pc, lo, hi>>

Miss ==
    /\ at = "bsearch" /\ lo >= hi
    /\ at' = "done"
    /\ UNCHANGED <<addrs, added, pc, lo, hi, entry>>

\* "use the last one": on to the next range while it contains the pc.
Forward ==
    /\ at = "forward"
    /\ IF Within(entry + 1, pc)
       THEN entry' = entry + 1 /\ UNCHANGED at
       ELSE at' = "done" /\ UNCHANGED entry
    /\ UNCHANGED <<addrs, added, pc, lo, hi>>

Done ==
    /\ at = "done"
    /\ at' = "ready"
    /\ UNCHANGED <<addrs, added, pc, lo, hi, entry>>

-----------------------------------------------------------------------------
Search == GoLeft \/ GoRight \/ Hit \/ Miss \/ Forward \/ Done

Next ==
    \/ \E r \in Ranges : AddUnitAddr(r)
    \/ QSort
    \/ \E p \in Pcs : Lookup(p)
    \/ Search

Spec == Init /\ [][Next]_vars

-----------------------------------------------------------------------------
(* Correctness                                                             *)

\* Every variable has its type, and bsearch stays inside the table.
TypeOK ==
    /\ addrs \in Seq(AddrRange)
    /\ added \subseteq Ranges
    /\ at \in {"build", "ready", "bsearch", "forward", "done"}
    /\ pc \in Nat
    /\ lo \in 0..Len(addrs) /\ hi \in 0..Len(addrs)
    /\ entry \in 0..Len(addrs)

\* add_unit_addr loses no address and invents none but the one byte between
\* two ranges it merges: the table covers for a unit what was added for it.
TableExact ==
    /\ \A r \in added : \A p \in r.low..(r.high - 1) :
          \E i \in 1..Len(addrs) : Contains(addrs[i], p) /\ addrs[i].u = r.u
    /\ \A i \in 1..Len(addrs) : \A p \in addrs[i].low..(addrs[i].high - 1) :
          \E r \in added : r.low <= p /\ p <= r.high /\ r.u = addrs[i].u

\* The range a lookup ends with contains the pc and is the last of a run of
\* such ranges, so which one of a run bsearch hits makes no difference.
LookupSound ==
    at = "done" /\ entry # 0 => Within(entry, pc) /\ ~Within(entry + 1, pc)

\* What bsearch asks of its table: no range that ends after the pc comes
\* before one that ends at it or earlier.
Partitioned ==
    \A i, j \in 1..Len(addrs) :
        i < j /\ addrs[j].high <= pc => addrs[i].high <= pc

\* In such a table a pc that some range contains is found.
LookupComplete ==
    at = "done" /\ Partitioned /\ entry = 0 =>
        \A i \in 1..Len(addrs) : ~Contains(addrs[i], pc)

\* The table says what was added, and a lookup finds what it says.
LookupRight == TableExact /\ LookupSound /\ LookupComplete

\* Every search ends.
SearchEnds == at \in {"bsearch", "forward"} ~> at = "done"
=============================================================================
