------------------------------ MODULE MCLuaGC ------------------------------
(* Small heaps that the collector starts from, each with the objects of one *)
(* part of it.                                                              *)
EXTENDS LuaGC

\* The objects there are, by kind.
MCNames == [table  |-> {"reg", "mk", "mv", "mg", "a", "b", "c"},
            udata  |-> {"d", "e"},
            lcl    |-> {"f", "f2"},
            proto  |-> {"p", "q"},
            thread |-> {"main", "co"},
            string |-> {"s"}]
MCWeak == [t \in MCNames.table |->
            IF t = "mk" THEN "k" ELSE IF t = "mv" THEN "v" ELSE IF t = "mg" THEN "kv" ELSE ""]

Tab(mt, x, k, v) ==
    [tt |-> "table", mt |-> mt, arr |-> <<x>>, nodes |-> [n \in 1..1 |-> [key |-> k, val |-> v]]]
Thread(s, open) == [tt |-> "thread", stack |-> s, openupval |-> open]

\* A heap at rest, objs without Main in the order of their creation.
AtRest(objs, uv, all, fin) ==
    [state |-> "pause", kind |-> "normal", white |-> "white0", color |-> [o \in DOMAIN objs |-> "white0"],
     final |-> ToSet(fin), obj |-> objs, uv |-> uv, gray |-> << >>, grayagain |-> << >>,
     weak |-> << >>, allweak |-> << >>, ephemeron |-> << >>, allgc |-> all, finobj |-> fin,
     tobefnz |-> << >>, sweepgc |-> "NULL", finnum |-> 0,
     twups |-> SelectSeq(<<"main", "co">>, LAMBDA t : t \in DOMAIN objs /\ objs[t].openupval # << >>)]

\* Ephemerons that lead from one to the other.
Ephemerons == AtRest(
    [main |-> Thread(<<"a", Nil>>, << >>), reg |-> Tab(Nil, Nil, "c", "b"),
     mk |-> Tab(Nil, Nil, Nil, Nil), a |-> Tab(Nil, Nil, Nil, Nil),
     b |-> Tab("mk", Nil, "a", "d"), c |-> Tab("mk", Nil, "d", "e"),
     d |-> [tt |-> "udata", mt |-> Nil, user |-> Nil],
     e |-> [tt |-> "udata", mt |-> Nil, user |-> "s"], s |-> [tt |-> "string"]],
    << >>, <<"e", "s", "d", "c", "b", "a", "mk", "reg">>, << >>)

\* A finalizer's object, in weak tables.
Finalized == AtRest(
    [main |-> Thread(<<"b", Nil>>, << >>), reg |-> Tab(Nil, Nil, "c", "s"),
     mg |-> Tab(Nil, Nil, Nil, Nil), mv |-> Tab(Nil, Nil, Nil, Nil), a |-> Tab(Nil, Nil, Nil, Nil),
     b |-> Tab("mg", Nil, "d", "a"), c |-> Tab("mv", "d", "s", "a"),
     d |-> [tt |-> "udata", mt |-> "mg", user |-> "a"], s |-> [tt |-> "string"]],
    << >>, <<"s", "c", "b", "a", "mv", "mg", "reg">>, <<"d">>)

\* A closure of a coroutine that may be dropped, over an open upvalue.
Closures == AtRest(
    [main |-> Thread(<<"f", "co">>, << >>), reg |-> Tab(Nil, Nil, Nil, Nil),
     a |-> Tab(Nil, Nil, Nil, Nil), p |-> [tt |-> "proto", cache |-> Nil, k |-> "q"],
     q |-> [tt |-> "proto", cache |-> Nil, k |-> Nil], co |-> Thread(<<"a", Nil>>, <<1>>),
     f |-> [tt |-> "lcl", p |-> "p", upvals |-> <<1>>]],
    (1 :> [open |-> TRUE, th |-> "co", level |-> 1, value |-> Nil, touched |-> TRUE, refcount |-> 1]),
    <<"f", "co", "q", "p", "a", "reg">>, << >>)

\* Two objects with finalizers, one that only the other leads to.  Run gc does
\* not begin here: a finalizer may run while tobefnz is swept (see README.md).
Finalizers == AtRest(
    [main |-> Thread(<<"b", Nil>>, << >>), reg |-> Tab(Nil, Nil, Nil, Nil),
     mg |-> Tab(Nil, Nil, Nil, Nil), a |-> Tab(Nil, Nil, Nil, Nil),
     b |-> Tab("mg", "e", Nil, Nil),
     d |-> [tt |-> "udata", mt |-> "mg", user |-> "a"],
     e |-> [tt |-> "udata", mt |-> "mg", user |-> "d"]],
    << >>, <<"b", "a", "mg", "reg">>, <<"e", "d">>)

MCStarts == {<<Ephemerons, 0>>, <<Finalized, 1>>, <<Closures, 0>>}
=============================================================================
