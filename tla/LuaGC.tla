------------------------------- MODULE LuaGC -------------------------------
(***************************************************************************)
(* The incremental collector of Lua 5.3 (lua_53/src/lgc.c) beneath a       *)
(* program that allocates, links and drops objects between its steps.      *)
(*                                                                         *)
(* g is global_State with the heap it governs; the functions of lgc.c are  *)
(* operators from one g to the next.  One action is one singlestep, one    *)
(* finalizer call or one operation of the program.  A list of objects is a *)
(* sequence, head first, and a pointer into a list is the object whose     *)
(* field next it points to, or "head".                                     *)
(***************************************************************************)
EXTENDS Integers, Sequences, SequencesExt, FiniteSets, TLC

CONSTANTS
    Names,      \* tt -> the names its objects may have; none is used twice
    Weak,       \* table -> "", "k", "v" or "kv": its __mode as a metatable
    HasGc,      \* the tables that have __gc, as metatables
    Main, Registry,
    Slots,      \* the size of a stack
    Nodes,      \* the size of the hash part of a table
    SweepMax,   \* GCSWEEPMAX
    FinMax,     \* bounds gcfinnum, which doubles
    Starts,     \* the heaps a run starts from, and the operations made so far
    Budget,     \* how many operations the program makes
    Watched     \* the object whose end Reclaims waits for

VARIABLES
    g,          \* the collector and the heap
    pc,         \* where the call into the collector is, or "mutator"
    back,       \* where the loop over finalizers goes on
    fi,         \* the loop's counter
    freed,      \* names of the objects that are no more
    ops         \* operations made

vars == <<g, pc, back, fi, freed, ops>>

Nil == "nil"
DeadKey == "dead"
Obj == UNION {Names[tt] : tt \in DOMAIN Names}

Kind(h, o) == h.obj[o].tt
Collectable(v) == v \in Obj
IsString(h, v) == Collectable(v) /\ Kind(h, v) = "string"

-----------------------------------------------------------------------------
(* Colors                                                                  *)

Whites == {"white0", "white1"}
OtherWhite(h) == CHOOSE w \in Whites : w # h.white
IsWhite(h, o) == h.color[o] \in Whites
IsBlack(h, o) == h.color[o] = "black"
IsDead(h, o) == h.color[o] = OtherWhite(h)
MakeWhite(h, o) == [h EXCEPT !.color[o] = h.white]
ValIsWhite(h, v) == Collectable(v) /\ IsWhite(h, v)

KeepInvariant(h) == h.state \in {"propagate", "atomic"}
IsSweepPhase(h) == h.state \in {"swpallgc", "swpfinobj", "swptobefnz", "swpend"}

Link(h, list, o) == [h EXCEPT ![list] = <<o>> \o @]

-----------------------------------------------------------------------------
(* Marking                                                                 *)

\* An object without references turns black at once, a userdata after its
\* metatable and value; the others wait in the gray list.
RECURSIVE ReallyMark(_, _)
MarkValue(h, v) == IF ValIsWhite(h, v) THEN ReallyMark(h, v) ELSE h
ReallyMark(h, o) ==
    CASE Kind(h, o) = "string" -> [h EXCEPT !.color[o] = "black"]
      [] Kind(h, o) = "udata" ->
            LET gray == [h EXCEPT !.color[o] = "gray"]
                mt   == MarkValue(gray, h.obj[o].mt)
            IN  MarkValue([mt EXCEPT !.color[o] = "black"], h.obj[o].user)
      [] OTHER -> Link([h EXCEPT !.color[o] = "gray"], "gray", o)

MarkAll(h, vs) == FoldLeft(MarkValue, h, vs)

\* Strings are values, never weak: asking for one marks it.
Cleared(h, v) == Collectable(v) /\ ~IsString(h, v) /\ IsWhite(h, v)
AfterCleared(h, v) == IF IsString(h, v) THEN MarkValue(h, v) ELSE h

UvValue(h, u) ==
    IF h.uv[u].open THEN h.obj[h.uv[u].th].stack[h.uv[u].level] ELSE h.uv[u].value

\* Values of open upvalues that a live closure has and a thread that was not
\* marked.
RemarkUpvals(h) ==
    LET InList(x, th) == x.color[th] = "gray" /\ x.obj[th].openupval # << >>
        Touched(x, u) == [MarkValue(x, UvValue(x, u)) EXCEPT !.uv[u].touched = FALSE]
        One(x, th) ==
            IF InList(x, th) THEN x
            ELSE FoldLeft(Touched, [x EXCEPT !.twups = SelectSeq(@, LAMBDA t : t # th)],
                          SelectSeq(x.obj[th].openupval, LAMBDA u : x.uv[u].touched))
    IN  FoldLeft(One, h, h.twups)

RestartCollection(h) ==
    LET empty == [h EXCEPT !.gray = << >>, !.grayagain = << >>, !.weak = << >>,
                           !.allweak = << >>, !.ephemeron = << >>]
    IN  MarkAll(empty, <<Main, Registry>> \o h.tobefnz)

-----------------------------------------------------------------------------
(* Traversal                                                               *)

Mode(h, t) == IF h.obj[t].mt = Nil THEN "" ELSE Weak[h.obj[t].mt]

\* An entry without a value keeps no white key.
RemoveEntry(h, t, n) ==
    IF ValIsWhite(h, h.obj[t].nodes[n].key)
    THEN [h EXCEPT !.obj[t].nodes[n].key = DeadKey] ELSE h
ClearEntry(h, t, n) ==
    RemoveEntry([h EXCEPT !.obj[t].nodes[n].val = Nil], t, n)

EachNode(h, F(_, _)) == FoldLeft(F, h, [n \in 1..Nodes |-> n])

TraverseWeakValue(h, t) ==
    LET Value(x, v) ==
            IF x.clears THEN x ELSE [g |-> AfterCleared(x.g, v), clears |-> Cleared(x.g, v)]
        One(x, n) ==
            LET node == x.g.obj[t].nodes[n] IN
            IF node.val = Nil THEN [x EXCEPT !.g = RemoveEntry(x.g, t, n)]
            ELSE Value([x EXCEPT !.g = MarkValue(@, node.key)], node.val)
        \* A table with an array part is taken to have something to clear.
        Listed(r) == IF h.state = "propagate" THEN Link(r.g, "grayagain", t)
                     ELSE IF r.clears THEN Link(r.g, "weak", t) ELSE r.g
    IN  Listed(EachNode([g |-> h, clears |-> h.obj[t].arr # << >>], One))

\* Mutant: a white value of a white key is not noticed.
EphemeronListBlind(r) == IF r.clears THEN "allweak" ELSE "none"

\* Where an ephemeron table waits in the atomic phase.
EphemeronList(r) ==
    IF r.whitewhite THEN "ephemeron" ELSE IF r.clears THEN "allweak" ELSE "none"

\* [g, marked]: marked tells whether anything was.
TraverseEphemeron(h, t) ==
    LET Mark(x, v) ==
            IF ValIsWhite(x.g, v) THEN [x EXCEPT !.g = ReallyMark(x.g, v), !.marked = TRUE]
            ELSE x
        One(x, n) ==
            LET node == x.g.obj[t].nodes[n] IN
            IF node.val = Nil THEN [x EXCEPT !.g = RemoveEntry(x.g, t, n)]
            ELSE IF Cleared(x.g, node.key)
            THEN [x EXCEPT !.clears = TRUE, !.whitewhite = @ \/ ValIsWhite(x.g, node.val)]
            ELSE Mark([x EXCEPT !.g = AfterCleared(x.g, node.key)], node.val)
        start == [g |-> h, marked |-> FALSE, clears |-> FALSE, whitewhite |-> FALSE]
        List(r) == IF h.state = "propagate" THEN "grayagain" ELSE EphemeronList(r)
        Listed(r) == [g |-> IF List(r) = "none" THEN r.g ELSE Link(r.g, List(r), t),
                      marked |-> r.marked]
    IN  Listed(EachNode(FoldLeft(Mark, start, h.obj[t].arr), One))

TraverseStrong(h, t) ==
    LET One(x, n) ==
            LET node == x.obj[t].nodes[n] IN
            IF node.val = Nil THEN RemoveEntry(x, t, n)
            ELSE MarkAll(x, <<node.key, node.val>>)
    IN  EachNode(MarkAll(h, h.obj[t].arr), One)

\* Mutant: a table with weak values is traversed like any other.
TraverseTableWeakIsStrong(h, t) ==
    LET mode == Mode(h, t)
        Gray(m) == [m EXCEPT !.color[t] = "gray"]
        Entries(m) == CASE mode \in {"", "v"} -> TraverseStrong(m, t)
                        [] mode = "k"  -> TraverseEphemeron(Gray(m), t).g
                        [] mode = "kv" -> Link(Gray(m), "allweak", t)
    IN  Entries(MarkValue(h, h.obj[t].mt))

TraverseTable(h, t) ==
    LET mode == Mode(h, t)
        Gray(m) == [m EXCEPT !.color[t] = "gray"]
        Entries(m) == CASE mode = ""   -> TraverseStrong(m, t)
                        [] mode = "v"  -> TraverseWeakValue(Gray(m), t)
                        [] mode = "k"  -> TraverseEphemeron(Gray(m), t).g
                        [] mode = "kv" -> Link(Gray(m), "allweak", t)
    IN  Entries(MarkValue(h, h.obj[t].mt))

\* The cache of a prototype keeps no closure alive.
TraverseProto(h, p) ==
    LET forgets == ValIsWhite(h, h.obj[p].cache)
    IN  MarkValue(IF forgets THEN [h EXCEPT !.obj[p].cache = Nil] ELSE h, h.obj[p].k)

TraverseLclosure(h, c) ==
    LET One(x, u) ==
            IF x.uv[u].open /\ x.state # "insideatomic"
            THEN [x EXCEPT !.uv[u].touched = TRUE]
            ELSE MarkValue(x, UvValue(x, u))
    IN  FoldLeft(One, MarkValue(h, h.obj[c].p), h.obj[c].upvals)

TraverseThread(h, th) ==
    LET m == MarkAll(h, h.obj[th].stack)
        back_in == /\ h.state = "insideatomic"
                   /\ h.obj[th].openupval # << >>
                   /\ th \notin ToSet(h.twups)
    IN  IF back_in THEN Link(m, "twups", th) ELSE m

\* Mutant: a thread is traversed for good, like any object.
PropagateMarkThreadBlack(h) ==
    LET o == Head(h.gray)
        b == [h EXCEPT !.gray = Tail(@), !.color[o] = "black"]
    IN  CASE Kind(h, o) = "table"  -> TraverseTable(b, o)
          [] Kind(h, o) = "lcl"    -> TraverseLclosure(b, o)
          [] Kind(h, o) = "proto"  -> TraverseProto(b, o)
          [] Kind(h, o) = "thread" -> TraverseThread(b, o)

\* One gray object turns black; a thread is gray for ever and comes again.
PropagateMark(h) ==
    LET o == Head(h.gray)
        rest  == [h EXCEPT !.gray = Tail(@)]
        black == [rest EXCEPT !.color[o] = "black"]
    IN  CASE Kind(h, o) = "table"  -> TraverseTable(black, o)
          [] Kind(h, o) = "lcl"    -> TraverseLclosure(black, o)
          [] Kind(h, o) = "proto"  -> TraverseProto(black, o)
          [] Kind(h, o) = "thread" -> TraverseThread(Link(rest, "grayagain", o), o)

RECURSIVE PropagateAll(_)
PropagateAll(h) == IF h.gray = << >> THEN h ELSE PropagateAll(PropagateMark(h))

RECURSIVE ConvergeEphemerons(_)
ConvergeEphemerons(h) ==
    LET Onward(x, r) == IF r.marked THEN [g |-> PropagateAll(r.g), changed |-> TRUE]
                        ELSE [x EXCEPT !.g = r.g]
        One(x, t) == Onward(x, TraverseEphemeron(x.g, t))
        Repeat(r) == IF r.changed THEN ConvergeEphemerons(r.g) ELSE r.g
    IN  Repeat(FoldLeft(One, [g |-> [h EXCEPT !.ephemeron = << >>], changed |-> FALSE],
                        h.ephemeron))

-----------------------------------------------------------------------------
(* Clearing and sweeping                                                   *)

ClearKeys(h, tables) ==
    LET One(x, t) ==
            LET Clear(y, n) ==
                    LET node == y.obj[t].nodes[n] IN
                    IF node.val = Nil THEN y
                    ELSE IF Cleared(y, node.key) THEN ClearEntry(y, t, n)
                    ELSE AfterCleared(y, node.key)
            IN  EachNode(x, Clear)
    IN  FoldLeft(One, h, tables)

ClearValues(h, tables) ==
    LET One(x, t) ==
            LET Slot(y, i) ==
                    IF Cleared(y, y.obj[t].arr[i]) THEN [y EXCEPT !.obj[t].arr[i] = Nil]
                    ELSE AfterCleared(y, y.obj[t].arr[i])
                Clear(y, n) ==
                    LET node == y.obj[t].nodes[n] IN
                    IF node.val = Nil THEN y
                    ELSE IF Cleared(y, node.val) THEN ClearEntry(y, t, n)
                    ELSE AfterCleared(y, node.val)
            IN  EachNode(FoldLeft(Slot, x, [i \in 1..Len(x.obj[t].arr) |-> i]), Clear)
    IN  FoldLeft(One, h, tables)

\* Upvalues are counted, and stay when a closure or a thread goes.
Forget(f, S) == [x \in DOMAIN f \ S |-> f[x]]
UpvDecCount(h, u) ==
    IF h.uv[u].refcount = 1 /\ ~h.uv[u].open THEN [h EXCEPT !.uv = Forget(@, {u})]
    ELSE [h EXCEPT !.uv[u].refcount = @ - 1]

UpvalBarrier(h, u) ==
    IF ~h.uv[u].open /\ KeepInvariant(h) THEN MarkValue(h, UvValue(h, u)) ELSE h

\* Mutant: the value leaves the stack without a barrier.
CloseUpvalNoBarrier(h, u) ==
    IF h.uv[u].refcount = 0 THEN [h EXCEPT !.uv = Forget(@, {u})]
    ELSE [h EXCEPT !.uv[u].value = UvValue(h, u), !.uv[u].open = FALSE]

CloseUpval(h, u) ==
    IF h.uv[u].refcount = 0 THEN [h EXCEPT !.uv = Forget(@, {u})]
    ELSE UpvalBarrier([h EXCEPT !.uv[u].value = UvValue(h, u), !.uv[u].open = FALSE], u)

\* luaF_close: the upvalues of a thread from a level up.
Close(h, th, level) ==
    LET closing == SelectSeq(h.obj[th].openupval, LAMBDA u : h.uv[u].level >= level)
        kept    == SelectSeq(h.obj[th].openupval, LAMBDA u : h.uv[u].level < level)
    IN  FoldLeft(CloseUpval, [h EXCEPT !.obj[th].openupval = kept], closing)

FreeObj(h, o) ==
    LET before == CASE Kind(h, o) = "lcl"    -> FoldLeft(UpvDecCount, h, h.obj[o].upvals)
                    [] Kind(h, o) = "thread" -> Close(h, o, 1)
                    [] OTHER                 -> h
    IN  [before EXCEPT !.obj = Forget(@, {o}), !.color = Forget(@, {o})]

\* The list a pointer into a list points into, and the place after it.
ListOf(h, list, p) ==
    IF p = "head" THEN list
    ELSE CHOOSE l \in {"allgc", "finobj", "tobefnz"} : p \in ToSet(h[l])
PlaceAfter(h, list, p) ==
    IF p = "head" THEN 1 ELSE 1 + CHOOSE i \in 1..Len(h[list]) : h[list][i] = p

\* Sweep at most count objects from place i on: [g, i].
RECURSIVE SweepFrom(_, _, _, _)
SweepFrom(h, list, i, count) ==
    IF count = 0 \/ i > Len(h[list]) THEN [g |-> h, i |-> i]
    ELSE LET o == h[list][i]
         IN  IF IsDead(h, o)
             THEN SweepFrom(FreeObj([h EXCEPT ![list] = RemoveAt(@, i)], o), list, i, count - 1)
             ELSE SweepFrom(MakeWhite(h, o), list, i + 1, count - 1)

Pointer(r, list) ==
    IF r.i > Len(r.g[list]) THEN "NULL" ELSE IF r.i = 1 THEN "head" ELSE r.g[list][r.i - 1]

SweepList(h, list0, p, count) ==
    LET list == ListOf(h, list0, p)
        Swept(r) == [r.g EXCEPT !.sweepgc = Pointer(r, list)]
    IN  Swept(SweepFrom(h, list, PlaceAfter(h, list, p), count))

\* Sweep until an object that lives, or the end.
RECURSIVE SweepToLive(_, _, _)
SweepToLive(h, list, p) ==
    LET Again(s) == IF s.sweepgc = p THEN SweepToLive(s, list, p) ELSE s
    IN  Again(SweepList(h, list, p, 1))

EnterSweep(h) ==
    SweepToLive([h EXCEPT !.state = "swpallgc"], "allgc", "head")

SweepStep(h, list, next, nextp) ==
    LET End(s) ==
            IF s.sweepgc # "NULL" THEN s ELSE [s EXCEPT !.state = next, !.sweepgc = nextp]
    IN  End(IF h.sweepgc = "NULL" THEN h ELSE SweepList(h, list, h.sweepgc, SweepMax))

-----------------------------------------------------------------------------
(* Finalizers                                                              *)

\* Unreachable objects with a finalizer, or all of them, go to the end of
\* tobefnz.
SeparateToBeFnz(h, all) ==
    LET Goes(o) == all \/ IsWhite(h, o)
    IN  [h EXCEPT !.tobefnz = @ \o SelectSeq(h.finobj, Goes),
                  !.finobj  = SelectSeq(@, LAMBDA o : ~Goes(o))]

Without(s, o) == SelectSeq(s, LAMBDA x : x # o)

\* An object that gets a finalizer moves from allgc to finobj.
CheckFinalizer(h, o) ==
    IF o \in h.final \/ h.obj[o].mt = Nil \/ h.obj[o].mt \notin HasGc THEN h
    ELSE LET white == IF IsSweepPhase(h) THEN MakeWhite(h, o) ELSE h
             moved == IF IsSweepPhase(h) /\ h.sweepgc = o
                      THEN SweepToLive(white, "allgc", o) ELSE white
         IN  Link([moved EXCEPT !.allgc = Without(@, o), !.final = @ \cup {o}], "finobj", o)

\* The first object to be finalized is a normal one again.
UdataToFinalize(h) ==
    LET o == Head(h.tobefnz)
        n == Link([h EXCEPT !.tobefnz = Tail(@), !.final = @ \ {o}], "allgc", o)
    IN  IF IsSweepPhase(h) THEN MakeWhite(n, o) ELSE n

-----------------------------------------------------------------------------
(* The cycle                                                               *)

Newer(new, old) == SubSeq(new, 1, Len(new) - Len(old))

MarkReachable(h) ==
    LET start == MarkAll([h EXCEPT !.state = "insideatomic"], <<Main, Registry>>)
        First(m) == [PropagateAll(RemarkUpvals(m)) EXCEPT !.gray = h.grayagain]
    IN  ConvergeEphemerons(PropagateAll(First(start)))
Resurrect(h) == ConvergeEphemerons(PropagateAll(MarkAll(h, h.tobefnz)))
ToBeFinalized(h) == [SeparateToBeFnz(h, FALSE) EXCEPT !.finnum = 1]

ClearAllValues(h) == ClearValues(ClearValues(h, h.weak), h.allweak)
ClearAllKeys(h) == ClearKeys(ClearKeys(h, h.ephemeron), h.allweak)
ClearNewValues(h, old) ==
    ClearValues(ClearValues(h, Newer(h.weak, old.weak)), Newer(h.allweak, old.allweak))
FlipWhite(h) == [h EXCEPT !.white = OtherWhite(h)]

\* Mutant: finalizers are looked for when keys are cleared already.
ClearNoResurrection(h) ==
    FlipWhite(ToBeFinalized(ClearAllKeys(ClearAllValues(h))))

\* Values that are not marked are cleared from weak tables; what has a
\* finalizer is marked too; dead keys, and dead values of the tables this
\* brought back, are cleared.
Clear(h) ==
    FlipWhite(ClearNewValues(ClearAllKeys(Resurrect(ToBeFinalized(ClearAllValues(h)))), h))

Atomic(h) == Clear(MarkReachable(h))

\* One step, but for the calls of finalizers at the end of a cycle.
SingleStep(h) ==
    CASE h.state = "pause" -> [RestartCollection(h) EXCEPT !.state = "propagate"]
      [] h.state = "propagate" ->
            LET p == PropagateMark(h)
            IN  IF p.gray = << >> THEN [p EXCEPT !.state = "atomic"] ELSE p
      [] h.state = "atomic" -> EnterSweep(Atomic(PropagateAll(h)))
      [] h.state = "swpallgc" -> SweepStep(h, "allgc", "swpfinobj", "head")
      [] h.state = "swpfinobj" -> SweepStep(h, "finobj", "swptobefnz", "head")
      [] h.state = "swptobefnz" -> SweepStep(h, "tobefnz", "swpend", "NULL")
      [] h.state = "swpend" -> [MakeWhite(h, Main) EXCEPT !.state = "callfin"]
      [] h.state = "callfin" -> [h EXCEPT !.state = "pause"]

\* Finalizers are called at the end of a cycle, unless memory has run out.
CallsFinalizers(h) ==
    h.state = "callfin" /\ h.tobefnz # << >> /\ h.kind # "emergency"

-----------------------------------------------------------------------------
(* The program                                                             *)

Init ==
    /\ \E start \in Starts : g = start[1] /\ ops = start[2]
    /\ pc = "mutator"
    /\ back = "mutator"
    /\ fi = 0
    /\ freed = {}

Stack(h) == h.obj[Main].stack
Held(h) == ToSet(Stack(h)) \ {Nil}
HeldOf(h, tt) == {o \in Held(h) : Kind(h, o) = tt}

\* What an object gives to a program that reads it.
Readable(h, o) ==
    LET r == h.obj[o]
    IN  CASE r.tt = "table" -> ToSet(r.arr) \cup {r.mt} \cup
                UNION {{r.nodes[n].key, r.nodes[n].val} :
                       n \in {k \in 1..Nodes : r.nodes[k].val # Nil}}
          [] r.tt = "udata" -> {r.mt, r.user}
          [] r.tt = "lcl"   -> {UvValue(h, u) : u \in ToSet(r.upvals)}
          [] OTHER          -> {}

SetSlot(h, i, v) == [h EXCEPT !.obj[Main].stack[i] = v]

Barrier(h, o, v) ==
    IF ~(IsBlack(h, o) /\ ValIsWhite(h, v)) THEN h
    ELSE IF KeepInvariant(h) THEN ReallyMark(h, v) ELSE MakeWhite(h, o)

BarrierBack(h, t, v) ==
    IF IsBlack(h, t) /\ ValIsWhite(h, v)
    THEN Link([h EXCEPT !.color[t] = "gray"], "grayagain", t) ELSE h

Unused(tt) == Names[tt] \ (DOMAIN g.obj \cup freed)
Blank(tt) ==
    CASE tt = "table"  -> [tt |-> tt, mt |-> Nil, arr |-> <<Nil>>,
                           nodes |-> [n \in 1..Nodes |-> [key |-> Nil, val |-> Nil]]]
      [] tt = "udata"  -> [tt |-> tt, mt |-> Nil, user |-> Nil]
      [] tt = "thread" -> [tt |-> tt, stack |-> [i \in 1..Slots |-> Nil], openupval |-> << >>]
      [] tt = "string" -> [tt |-> tt]
Adding(f, x, v) == [y \in DOMAIN f \cup {x} |-> IF y = x THEN v ELSE f[y]]
NewObj(h, o, r) ==
    Link([h EXCEPT !.obj = Adding(@, o, r), !.color = Adding(@, o, h.white)], "allgc", o)

Create(tt, i) ==
    /\ Unused(tt) # {}
    /\ LET o == CHOOSE n \in Unused(tt) : TRUE
       IN  g' = SetSlot(NewObj(g, o, Blank(tt)), i, o)

Drop(i) == Stack(g)[i] # Nil /\ g' = SetSlot(g, i, Nil)

Load(o, v, i) == v \in Readable(g, o) /\ v # Stack(g)[i] /\ g' = SetSlot(g, i, v)

\* t[k] = v, in the node of the key or in a free one.
SetField(t, k, v) ==
    LET nodes == g.obj[t].nodes
        Has   == {n \in 1..Nodes : nodes[n].key = k}
        Free  == {n \in 1..Nodes : nodes[n].val = Nil}
        keyed == IF Has # {} THEN g
                 ELSE BarrierBack([g EXCEPT !.obj[t].nodes[CHOOSE n \in Free : TRUE].key = k], t, k)
        at    == IF Has # {} THEN CHOOSE n \in Has : TRUE ELSE CHOOSE n \in Free : TRUE
    IN  /\ k # Nil
        /\ Has \cup Free # {}
        /\ g' = BarrierBack([keyed EXCEPT !.obj[t].nodes[at].val = v], t, v)

SetArray(t, v) == g' = BarrierBack([g EXCEPT !.obj[t].arr[1] = v], t, v)

\* What a table loses when its mode changes is left to the cycle under way
\* (manual, 2.5.2): the program only makes strong tables weak.
SetMetatable(o, mt) ==
    /\ g.obj[o].mt # mt
    /\ Kind(g, o) = "table" => Mode(g, o) = ""
    /\ LET set == [g EXCEPT !.obj[o].mt = mt]
       IN  g' = CheckFinalizer(Barrier(set, o, mt), o)

SetUserValue(o, v) == g' = Barrier([g EXCEPT !.obj[o].user = v], o, v)

SetUpval(c, v) ==
    LET u == Head(g.obj[c].upvals)
    IN  g' = IF g.uv[u].open
             THEN [g EXCEPT !.obj[g.uv[u].th].stack[g.uv[u].level] = v]
             ELSE UpvalBarrier([g EXCEPT !.uv[u].value = v], u)

\* The upvalue of a stack slot, a new one if there is none: [g, u].
FindUpval(h, th, level) ==
    LET open == h.obj[th].openupval
        Same == {u \in ToSet(open) : h.uv[u].level = level}
        u    == CHOOSE n \in 1..(Cardinality(DOMAIN h.uv) + 1) : n \notin DOMAIN h.uv
        new  == [open |-> TRUE, th |-> th, level |-> level, value |-> Nil,
                 touched |-> TRUE, refcount |-> 0]
        above == SelectSeq(open, LAMBDA n : h.uv[n].level > level)
        below == SelectSeq(open, LAMBDA n : h.uv[n].level < level)
        made == [h EXCEPT !.uv = Adding(@, u, new),
                          !.obj[th].openupval = above \o <<u>> \o below]
    IN  IF Same # {} THEN [g |-> h, u |-> CHOOSE n \in Same : TRUE]
        ELSE [g |-> IF th \in ToSet(h.twups) THEN made ELSE Link(made, "twups", th), u |-> u]

\* A closure of prototype p over the slot at level: the cached one if its
\* upvalue is there.
NewClosure(p, level, i) ==
    LET cache == g.obj[p].cache
        Fits  == /\ cache # Nil
                 /\ LET u == g.uv[Head(g.obj[cache].upvals)]
                    IN  u.open /\ u.th = Main /\ u.level = level
        f == FindUpval(g, Main, level)
        c == CHOOSE n \in Unused("lcl") : TRUE
        made == [NewObj(f.g, c, [tt |-> "lcl", p |-> p, upvals |-> <<f.u>>])
                    EXCEPT !.uv[f.u].refcount = @ + 1]
        kept == IF IsBlack(made, p) THEN made ELSE [made EXCEPT !.obj[p].cache = c]
    IN  IF Fits THEN g' = SetSlot(g, i, cache)
        ELSE Unused("lcl") # {} /\ g' = SetSlot(kept, i, c)

CloseUpvals(level) == g.obj[Main].openupval # << >> /\ g' = Close(g, Main, level)

\* lua_xmove: to the stack of another thread, which needs no barrier.
XMove(th, v) == th # Main /\ g' = [g EXCEPT !.obj[th].stack[1] = v]

Operation ==
    /\ pc = "mutator"
    /\ ops < Budget
    /\ ops' = ops + 1
    /\ \/ \E tt \in DOMAIN Names \ {"lcl", "proto"} : Create(tt, Slots)
       \/ \E o \in Held(g) \cup {Registry} : \E v \in Readable(g, o) : Load(o, v, Slots)
       \/ \E i \in 1..Slots : Drop(i)
       \/ \E t \in HeldOf(g, "table"), k \in Held(g), v \in Held(g) \cup {Nil} : SetField(t, k, v)
       \/ \E t \in HeldOf(g, "table"), v \in Held(g) \cup {Nil} : SetArray(t, v)
       \/ \E o \in HeldOf(g, "table") \cup HeldOf(g, "udata"), mt \in HeldOf(g, "table") :
            SetMetatable(o, mt)
       \/ \E o \in HeldOf(g, "udata"), v \in Held(g) : SetUserValue(o, v)
       \/ \E c \in HeldOf(g, "lcl"), v \in Held(g) : SetUpval(c, v)
       \/ \E c \in HeldOf(g, "lcl"), level \in 1..Slots :
            /\ Collectable(g.obj[g.obj[c].p].k)
            /\ Kind(g, g.obj[g.obj[c].p].k) = "proto"
            /\ NewClosure(g.obj[g.obj[c].p].k, level, Slots)
       \/ \E level \in 1..Slots : CloseUpvals(level)
       \/ \E th \in HeldOf(g, "thread"), v \in Held(g) : XMove(th, v)
    /\ UNCHANGED <<pc, back, fi, freed>>

-----------------------------------------------------------------------------
(* Calls into the collector                                                *)

Removed == freed' = freed \cup (DOMAIN g.obj \ DOMAIN g'.obj)

RunAFewFinalizers(to) == pc' = "fin" /\ back' = to /\ fi' = 0

\* singlestep from a call that goes on at again.
OneStep(again) ==
    IF CallsFinalizers(g) THEN RunAFewFinalizers(again) /\ UNCHANGED <<g, freed>>
    ELSE g' = SingleStep(g) /\ Removed /\ pc' = again /\ UNCHANGED <<back, fi>>

\* luaC_step, called where the program allocates: steps until the debt is
\* paid, and a few finalizers unless the cycle is over.
CollectStep ==
    /\ pc \in {"mutator", "step"}
    /\ OneStep("step")
    /\ UNCHANGED ops

EndStep ==
    /\ pc = "step"
    /\ IF g.state = "pause" THEN pc' = "mutator" /\ UNCHANGED <<back, fi>>
       ELSE RunAFewFinalizers("mutator")
    /\ UNCHANGED <<g, freed, ops>>

\* luaC_fullgc: finish the cycle there is, run one, call the finalizers.
BeginFull(emergency) ==
    /\ pc = "mutator"
    /\ ops < Budget /\ ops' = ops + 1
    /\ g' = LET h == [g EXCEPT !.kind = IF emergency THEN "emergency" ELSE "normal"]
            IN  IF KeepInvariant(h) THEN EnterSweep(h) ELSE h
    /\ Removed
    /\ pc' = "full1"
    /\ UNCHANGED <<back, fi>>

FullPhases == [full1 |-> {"pause"},
               full2 |-> {"propagate", "atomic", "swpallgc", "swpfinobj",
                          "swptobefnz", "swpend", "callfin"},
               full3 |-> {"callfin"},
               full4 |-> {"pause"}]
NextPhase == [full1 |-> "full2", full2 |-> "full3", full3 |-> "full4", full4 |-> "mutator"]

RunTilState ==
    /\ pc \in DOMAIN FullPhases
    /\ IF g.state \notin FullPhases[pc] THEN OneStep(pc)
       ELSE /\ pc' = NextPhase[pc]
            /\ g' = IF pc = "full4" THEN [g EXCEPT !.kind = "normal"] ELSE g
            /\ UNCHANGED <<back, fi, freed>>
    /\ UNCHANGED ops

\* GCTM: the finalizer of the first object is called, if its metatable still
\* has one.  It may keep the object, ask for another call or fail.
Finalizer(h, o, outcome) ==
    CASE outcome = "keeps"  -> BarrierBack([h EXCEPT !.obj[Registry].arr[1] = o], Registry, o)
      [] outcome = "rearms" -> CheckFinalizer(h, o)
      [] OTHER              -> h

Gctm(outcome) ==
    LET o == Head(g.tobefnz)
        called == g.obj[o].mt \in HasGc
    IN  /\ called \/ outcome = "returns"
        /\ g' = Finalizer(UdataToFinalize(g), o, outcome)

Outcomes == {"returns", "keeps", "rearms", "fails"}

\* One turn of runafewfinalizers; an error leaves the collector.
CallFinalizer ==
    /\ pc = "fin" /\ g.tobefnz # << >> /\ fi < g.finnum
    /\ \E outcome \in Outcomes :
        /\ Gctm(outcome)
        /\ Removed
        /\ IF outcome = "fails" THEN pc' = "mutator" /\ fi' = 0 /\ back' = "mutator"
           ELSE fi' = fi + 1 /\ UNCHANGED <<pc, back>>
    /\ UNCHANGED ops

Least(a, b) == IF a < b THEN a ELSE b

EndFinalizers ==
    /\ pc = "fin" /\ (g.tobefnz = << >> \/ fi >= g.finnum)
    /\ g' = [g EXCEPT !.finnum = IF g.tobefnz = << >> THEN 0 ELSE Least(2 * @, FinMax)]
    /\ pc' = back /\ back' = "mutator" /\ fi' = 0
    /\ UNCHANGED <<freed, ops>>

\* lua_close: every finalizer is called, errors or not, and all is freed.
BeginClose ==
    /\ pc = "mutator" /\ ops = Budget
    /\ g' = SeparateToBeFnz(Close(g, Main, 1), TRUE)
    /\ pc' = "closing"
    /\ UNCHANGED <<back, fi, freed, ops>>

CloseFinalizer ==
    /\ pc = "closing" /\ g.tobefnz # << >>
    /\ \E outcome \in Outcomes \ {"fails"} : Gctm(outcome)
    /\ Removed
    /\ UNCHANGED <<pc, back, fi, ops>>

\* Objects are freed one by one, and with them the upvalues they count.
FreeAllObjects ==
    /\ pc = "closing" /\ g.tobefnz = << >>
    /\ g' = [FoldLeft(FreeObj, g, g.finobj \o g.allgc)
                EXCEPT !.finobj = << >>, !.allgc = << >>]
    /\ Removed
    /\ pc' = "closed"
    /\ UNCHANGED <<back, fi, ops>>

Closed == pc = "closed" /\ UNCHANGED vars

Collector == CollectStep \/ EndStep \/ RunTilState \/ CallFinalizer \/ EndFinalizers
Closing == BeginClose \/ CloseFinalizer \/ FreeAllObjects

Next ==
    \/ Operation
    \/ Collector
    \/ \E emergency \in BOOLEAN : BeginFull(emergency)
    \/ Closing
    \/ Closed

\* A program that goes on allocating runs the collector again and again: weak
\* fairness, where some step of it is enabled until the state is closed.
Fairness == \/ []<>(pc = "closed")
            \/ []<><<Collector \/ CloseFinalizer \/ FreeAllObjects>>_vars

Spec == Init /\ [][Next]_vars /\ Fairness

-----------------------------------------------------------------------------
(* Properties                                                              *)

Targets(h, o) ==
    LET r == h.obj[o] IN
    CASE r.tt = "proto"  -> {r.k}
      [] r.tt = "lcl"    -> {r.p} \cup {UvValue(h, u) : u \in ToSet(r.upvals)}
      [] r.tt = "thread" -> ToSet(r.stack)
      [] r.tt = "table"  -> Readable(h, o)
      [] OTHER           -> Readable(h, o)

\* What o keeps alive, given that S is alive already.
Keeps(h, S, o) ==
    LET r == h.obj[o]
        mode == Mode(h, o)
        used == {n \in 1..Nodes : r.nodes[n].val # Nil}
        Lives(v) == ~Collectable(v) \/ IsString(h, v) \/ v \in S
        keys   == IF mode \in {"", "v"} THEN {r.nodes[n].key : n \in used} ELSE {}
        values == CASE mode = ""  -> {r.nodes[n].val : n \in used}
                    [] mode = "k" -> {r.nodes[n].val : n \in {m \in used : Lives(r.nodes[m].key)}}
                    [] OTHER      -> {}
        array  == IF mode \in {"", "k"} THEN ToSet(r.arr) ELSE {}
    IN  IF r.tt # "table" THEN Targets(h, o) ELSE {r.mt} \cup array \cup keys \cup values

\* What o leads a program to: weak tables give what they still have, and a
\* prototype its cached closure.
Gives(h, o) ==
    Targets(h, o) \cup (IF Kind(h, o) = "proto" THEN {h.obj[o].cache} ELSE {})

Roots(h) == {Main, Registry} \cup ToSet(h.tobefnz)

\* What the program, or a finalizer that waits, can rely on; and what it may
\* come upon.
Alive(h) ==
    LET More(S) == S \cup (UNION {Keeps(h, S, o) : o \in S \cap DOMAIN h.obj} \cap Obj)
        closure[S \in SUBSET Obj] == IF More(S) = S THEN S ELSE closure[More(S)]
    IN  closure[Roots(h)]
Accessible(h) ==
    LET More(S) == S \cup (UNION {Gives(h, o) : o \in S \cap DOMAIN h.obj} \cap Obj)
        closure[S \in SUBSET Obj] == IF More(S) = S THEN S ELSE closure[More(S)]
    IN  closure[Roots(h)]

TypeOK ==
    /\ g.state \in {"pause"} \cup FullPhases.full2
    /\ g.kind = "emergency" => pc \in DOMAIN FullPhases
    /\ DOMAIN g.color = DOMAIN g.obj
    /\ \A o \in DOMAIN g.obj : g.color[o] \in Whites \cup {"gray", "black"}
    /\ pc \in {"mutator", "step", "fin", "closing", "closed"} \cup DOMAIN FullPhases
    /\ fi \in 0..FinMax
    /\ freed \cap DOMAIN g.obj = {}

\* lgc.h:26-31 and the barriers: while the collector marks, no black object
\* refers to a white one, but through an upvalue that is still open, whose
\* value is marked at the end.
NoBlackToWhite ==
    KeepInvariant(g) /\ pc # "closed" =>
        \A o \in DOMAIN g.obj : IsBlack(g, o) =>
            \A v \in Keeps(g, DOMAIN g.obj, o) \cap Obj :
                IsWhite(g, v) => /\ Kind(g, o) = "lcl"
                                 /\ \E u \in ToSet(g.obj[o].upvals) : g.uv[u].open /\ UvValue(g, u) = v

\* lgc.h:20-24: while the collector marks, a gray object waits in exactly one
\* list, and the lists have no other.
GrayListed ==
    KeepInvariant(g) /\ pc # "closed" =>
        LET listed == g.gray \o g.grayagain \o g.weak \o g.allweak \o g.ephemeron
        IN  /\ ToSet(listed) = {o \in DOMAIN g.obj : g.color[o] = "gray"}
            /\ Cardinality(ToSet(listed)) = Len(listed)

\* lgc.h:52-57: "The invariant is restored when sweep ends and all objects
\* are white again."
AllWhiteAfterSweep ==
    g.state \in {"callfin", "pause"} /\ pc # "closed" =>
        \A o \in DOMAIN g.obj : g.color[o] = g.white

\* The invariants lgc.h states, for every order of steps of the collector,
\* barriers, emergencies and finalizers.
CollectorInvariants == TypeOK /\ NoBlackToWhite /\ GrayListed /\ AllWhiteAfterSweep

\* Nothing that the program or a finalizer may come upon has been freed, and
\* every object is in the one list it belongs to.
NoDangling ==
    pc # "closed" =>
        /\ Accessible(g) \subseteq DOMAIN g.obj
        /\ LET all == g.allgc \o g.finobj \o g.tobefnz
           IN  /\ ToSet(all) = DOMAIN g.obj \ {Main}
               /\ Cardinality(ToSet(all)) = Len(all)
        /\ g.final = ToSet(g.finobj \o g.tobefnz)

\* What an entry of a weak table may become: its key or value was all that
\* kept it.
EntryKept(old, new, held) ==
    \/ new = old
    \/ old.val = Nil /\ new.val = Nil
    \/ new.val = Nil /\ {old.key, old.val} \cap (Obj \ held) # {}

ContentKept(h, k, o, held) ==
    LET r == h.obj[o]
        s == k.obj[o]
    IN  CASE r.tt = "table" ->
                /\ s.mt = r.mt
                /\ \A i \in DOMAIN r.arr :
                        s.arr[i] = r.arr[i] \/ (s.arr[i] = Nil /\ r.arr[i] \notin held)
                /\ \A n \in 1..Nodes : EntryKept(r.nodes[n], s.nodes[n], held)
          [] r.tt = "proto" -> s.k = r.k /\ s.cache \in {r.cache, Nil}
          [] r.tt = "lcl" -> /\ s = r
                             /\ \A u \in ToSet(r.upvals) : UvValue(k, u) = UvValue(h, u)
          [] OTHER -> s = r

\* The program cannot tell that the collector ran, but by what it clears from
\* weak tables: entries that only their table refers to.
Transparent ==
    [][(g' # g /\ (ops' = ops \/ pc' = "full1") /\ pc \notin {"fin", "closing"} /\ pc' # "closing") =>
        \A o \in Alive(g) : o \in DOMAIN g'.obj /\ ContentKept(g, g', o, Alive(g))]_vars

Heap == INSTANCE LuaHeap WITH
    live    <- DOMAIN g.obj,
    held    <- Alive(g) \cap DOMAIN g.obj,
    pending <- g.tobefnz,
    used    <- ops,
    closing <- pc \in {"closing", "closed"}

\* To the program the collector is a heap that keeps what is held and queues
\* finalizers.
ImplementsHeap == Heap!Spec

\* Objects the program can no longer come upon.
Dropped(o) == o \in DOMAIN g.obj /\ o \notin Alive(g)

\* What is dropped is freed, or comes back, once the program has gone on
\* allocating for long enough.
Reclaims == Dropped(Watched) ~> ~Dropped(Watched)
=============================================================================
