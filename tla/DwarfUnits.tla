------------------------------ MODULE DwarfUnits ------------------------------
(***************************************************************************)
(* build_address_map of backtrace/dwarf.c: the compilation units of a      *)
(* module are read one after another, each as far as is needed to know its *)
(* addresses, which go into the table of RangeSearch.                      *)
(*                                                                         *)
(* A section is a sequence of entries, not of bytes: a number or a string  *)
(* is a value, and how it is encoded is left out, but for the form of an   *)
(* attribute, which decides what its value is.                             *)
(***************************************************************************)
EXTENDS RangeSearch, TLC

LOCAL S == INSTANCE SequencesExt

CONSTANTS
    Cases,        \* names of modules
    Sections(_)   \* their debug sections: [base, threaded, shortage, lookups, pcs, units, ranges, lines]

VARIABLES
    module,   \* the sections read
    spare,    \* how many allocations may still fail
    doing,    \* the function at work
    unit,     \* the unit read
    die,      \* the position of the next entry in it
    depth,    \* the calls of find_address_ranges
    pending,  \* ranges of the last entry, not yet added
    after,    \* what is done once they are
    units     \* what is known of the units read

unitsVars == <<module, spare, doing, unit, die, depth, pending, after, units>>

Source == module.units[unit]

UnitsInit ==
    /\ \E c \in Cases : module = Sections(c)
    /\ spare = module.shortage
    /\ doing = "unit" /\ unit = 0 /\ die = 1 /\ depth = 0
    /\ pending = << >> /\ after = "sibling" /\ units = << >>

\* An allocation, and one that fails.
Allocates == UNCHANGED spare
RunsOut == spare > 0 /\ spare' = spare - 1

-----------------------------------------------------------------------------
(* Abbreviations and attributes                                            *)

\* read_abbrevs: sorted by their codes.
ReadAbbrevs(abbrevs) == SortSeq(abbrevs, LAMBDA a, b : a.code < b.code)

\* lookup_abbrev: at its number in the table, or found by bsearch.
NoAbbrev == [code |-> 0]
LookupAbbrev(abbrevs, code) ==
    IF code \in 1..Len(abbrevs) /\ abbrevs[code].code = code THEN abbrevs[code]
    ELSE LET found == {i \in 1..Len(abbrevs) : abbrevs[i].code = code}
         IN IF found = {} THEN NoAbbrev ELSE abbrevs[CHOOSE i \in found : TRUE]

\* read_attribute: the encoding of the value of a form, "none" if the form is
\* unknown; an indirect form is before its value.
Encoding(form) ==
    CASE form = "addr" -> "address"
      [] form \in {"data1", "data2", "data4", "data8", "udata", "flag", "flag_present"} -> "uint"
      [] form = "sdata" -> "sint"
      [] form \in {"string", "strp"} -> "string"
      [] form \in {"block", "block1", "block2", "block4"} -> "block"
      [] form = "exprloc" -> "expr"
      [] form \in {"ref1", "ref2", "ref4", "ref8", "ref_udata"} -> "ref_unit"
      [] form = "ref_addr" -> "ref_info"
      [] form = "ref_sig8" -> "ref_type"
      [] form \in {"sec_offset", "GNU_addr_index", "GNU_str_index", "GNU_ref_alt", "GNU_strp_alt"} -> "ref_section"
      [] OTHER -> "none"
OutsideSection == "?"   \* an offset that is not in .debug_str
ReadAttribute(form, val) ==
    IF form = "indirect" THEN [e |-> Encoding(val.form), v |-> val.v]
    ELSE IF form = "strp" /\ val = OutsideSection THEN [e |-> "none", v |-> val]
    ELSE IF form = "flag_present" THEN [e |-> "uint", v |-> 1]
    ELSE [e |-> Encoding(form), v |-> val]

\* The attributes of an entry, in order: [name, form, e, v].
Attributes(abbrev, vals) ==
    [i \in 1..Len(abbrev.attrs) |->
        LET a == abbrev.attrs[i] r == ReadAttribute(a.form, vals[i])
        IN [name |-> a.name, form |-> a.form, e |-> r.e, v |-> r.v]]
Unread(attrs) == \E i \in 1..Len(attrs) : attrs[i].e = "none"

\* Of several attributes of a name the last one counts; "else" if there is none.
Value(attrs, name, encodings, else) ==
    LET is == {i \in 1..Len(attrs) : attrs[i].name = name /\ attrs[i].e \in encodings}
    IN IF is = {} THEN else ELSE attrs[CHOOSE i \in is : \A j \in is : j <= i].v
Has(attrs, name, encodings) == \E i \in 1..Len(attrs) : attrs[i].name = name /\ attrs[i].e \in encodings

\* DW_AT_high_pc is an address, or an offset from DW_AT_low_pc: a UINT anywhere
\* makes it one.
Bounds(attrs) ==
    LET low == Value(attrs, "low_pc", {"address"}, 0)
        high == Value(attrs, "high_pc", {"address", "uint"}, 0)
    IN [low |-> low, high |-> IF Has(attrs, "high_pc", {"uint"}) THEN low + high ELSE high]
HasBounds(attrs) == Has(attrs, "low_pc", {"address"}) /\ Has(attrs, "high_pc", {"address", "uint"})
HasRanges(attrs) == Has(attrs, "ranges", {"uint", "ref_section"})
RangesOf(attrs) == Value(attrs, "ranges", {"uint", "ref_section"}, 0)

\* add_unit_ranges and add_function_ranges: the pairs of a list, from a base
\* that an entry of the highest address changes.  A list that has no end is
\* read as far as it goes.
Highest == 255
Listed(entries, base) ==
    S!FoldLeft(LAMBDA s, e : IF e[1] = Highest THEN [s EXCEPT !.base = e[2]]
                           ELSE [s EXCEPT !.pairs = Append(@, [low |-> e[1] + s.base, high |-> e[2] + s.base])],
             [base |-> base, pairs |-> << >>], entries).pairs
InSection(offset) == offset \in 1..Len(module.ranges)
Endless(offset) == ~module.ranges[offset].ends

-----------------------------------------------------------------------------
(* build_address_map                                                       *)

Stay == UNCHANGED vars
Fail == doing' = "failed" /\ Stay /\ UNCHANGED <<module, unit, die, depth, pending, after, units>>

\* The header of the next unit, and its abbreviations, if they are in their
\* section.
NextUnit ==
    /\ doing = "unit" /\ unit < Len(module.units)
    /\ LET u == module.units[unit + 1] IN
       IF u.version \notin 2..4 \/ ~u.abbrevs_found THEN Fail /\ Allocates
       ELSE \/ RunsOut /\ Fail
            \/ /\ doing' = "die" /\ unit' = unit + 1 /\ die' = 1 /\ depth' = 1
               /\ units' = Append(units, [abbrevs |-> ReadAbbrevs(u.abbrevs), lineoff |-> 0, filename |-> "", comp_dir |-> ""])
               /\ Allocates /\ Stay
               /\ UNCHANGED <<module, pending, after>>

\* The entry read next, if there is one; an entry with code 0 ends its parent.
More == die <= Len(Source.dies)
Entry == Source.dies[die]
Abbrev == LookupAbbrev(units[unit].abbrevs, Entry.code)
Attrs == Attributes(Abbrev, Entry.vals)

\* find_address_ranges comes to the end of a call, or of the unit.
LeaveEntry ==
    /\ doing = "die" /\ (More => Entry.code = 0)
    /\ die' = die + 1
    /\ IF More /\ depth > 1 THEN depth' = depth - 1 /\ UNCHANGED doing
       ELSE depth' = 0 /\ doing' = "unit"
    /\ Allocates /\ Stay
    /\ UNCHANGED <<module, unit, pending, after, units>>

\* What an entry of a compile unit says of it.
Noted(u, attrs) ==
    [u EXCEPT !.lineoff = Value(attrs, "stmt_list", {"uint", "ref_section"}, @),
              !.filename = Value(attrs, "name", {"string"}, @),
              !.comp_dir = Value(attrs, "comp_dir", {"string"}, @)]

EntryPairs(attrs) ==
    IF HasRanges(attrs) THEN Listed(module.ranges[RangesOf(attrs)].entries, Bounds(attrs).low)
    ELSE IF HasBounds(attrs) THEN <<Bounds(attrs)>> ELSE << >>

\* An entry: the ranges of a unit, or, if it has none, those of its functions.
FindEntry ==
    /\ doing = "die" /\ More /\ Entry.code # 0
    /\ IF Abbrev = NoAbbrev \/ Unread(Attrs) THEN Fail /\ Allocates
       ELSE LET attrs == Attrs
                unitTag == Abbrev.tag = "compile_unit"
                counts == Abbrev.tag \in {"compile_unit", "subprogram"}
                found == unitTag /\ (HasRanges(attrs) \/ HasBounds(attrs))
                lost == counts /\ HasRanges(attrs) /\ ~InSection(RangesOf(attrs))
                endless == counts /\ HasRanges(attrs) /\ InSection(RangesOf(attrs)) /\ Endless(RangesOf(attrs))
            IN IF lost THEN Fail /\ Allocates
               ELSE /\ pending' = IF counts THEN EntryPairs(attrs) ELSE << >>
                    /\ after' = IF endless THEN "fail" ELSE IF found THEN "return"
                                ELSE IF Abbrev.children THEN "children" ELSE "sibling"
                    /\ units' = IF unitTag THEN [units EXCEPT ![unit] = Noted(@, attrs)] ELSE units
                    /\ doing' = "add" /\ Allocates /\ Stay
                    /\ UNCHANGED <<module, unit, die, depth>>

\* add_unit_addr, for each of them, with the address the module is loaded at.
AddRange ==
    /\ doing = "add" /\ pending # << >>
    /\ LET p == Head(pending)
           r == [low |-> p.low + module.base, high |-> p.high + module.base, u |-> unit]
       IN \/ Allocates /\ AddUnitAddr(r) /\ pending' = Tail(pending)
             /\ UNCHANGED <<module, doing, unit, die, depth, after, units>>
          \/ RunsOut /\ ~(addrs # << >> /\ Merges(addrs[Len(addrs)], r)) /\ Fail

EntryDone ==
    /\ doing = "add" /\ pending = << >>
    /\ CASE after = "fail" -> Fail /\ Allocates
         [] after = "return" ->
              /\ doing' = (IF depth = 1 THEN "unit" ELSE "die")
              /\ depth' = depth - 1 /\ die' = die + 1
              /\ Allocates /\ Stay /\ UNCHANGED <<module, unit, pending, after, units>>
         [] OTHER ->
              /\ doing' = "die" /\ die' = die + 1
              /\ depth' = IF after = "children" THEN depth + 1 ELSE depth
              /\ Allocates /\ Stay /\ UNCHANGED <<module, unit, pending, after, units>>

\* build_dwarf_data: the table is sorted, and the data of the module allocated.
SortTable ==
    /\ doing = "unit" /\ unit = Len(module.units)
    /\ QSort
    /\ \/ Allocates /\ doing' = "lookup"
       \/ RunsOut /\ doing' = "failed"
    /\ UNCHANGED <<module, unit, die, depth, pending, after, units>>

BuildMap == NextUnit \/ LeaveEntry \/ FindEntry \/ AddRange \/ EntryDone \/ SortTable
===============================================================================
