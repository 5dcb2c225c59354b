------------------------------ MODULE LuaTabLib ------------------------------
(* The table library of Lua (ltablib.c): insert, remove, move, concat,        *)
(* unpack and sort.  Each is one call and one step but sort, which calls the  *)
(* program's order function at every comparison: its steps are comparisons.   *)
(* A table is a function from the integers, of IntBits bits, to values.       *)
EXTENDS Naturals, Integers, Sequences, FiniteSets

CONSTANTS IntBits,     \* the bits of a lua_Integer
          MaxResults,  \* how many values a call may return
          TabFamilies, TabCalls(_),   \* the calls a program may make, in families
          RanLimit,    \* RANLIMIT: from here on a pivot may be random
          Imbalance,   \* 128: how much larger a part makes the pivots random
          Randoms      \* what l_randomizePivot may return
ASSUME TabAssumption ==
  /\ IntBits \in Nat \ {0} /\ MaxResults \in Nat
  /\ RanLimit \in Nat /\ RanLimit >= 4
  /\ Imbalance \in Nat \ {0} /\ Randoms \subseteq Nat

MaxInteger == 2^(IntBits - 1) - 1
Integer == -MaxInteger - 1..MaxInteger
Wrap(n) == ((n + MaxInteger + 1) % 2^IntBits) - MaxInteger - 1
Unsigned(n) == n % 2^IntBits

VARIABLES tcall,    \* the function and its arguments
          tabs,     \* the table that is its first argument, and another
          tresult,  \* what the call gave
          sorting   \* the state of a sort
tabvars == <<tcall, tabs, tresult, sorting>>

nil == 0
\* A value that is neither a string nor a number.
Other == -1
NotGiven == 100   \* an argument that is not given

Result(err, values) == [err |-> err, values |-> values]
Working == Result("working", <<>>)
Done(values) == Result("none", values)
ArgError == Result("error", <<>>)

\* What "#" may give (ltable.c: any border).
Borders(t) ==
  {n \in 0..MaxInteger - 1 : (n = 0 \/ t[n] # nil) /\ t[n + 1] = nil}

----------------------------------------------------------------------------
(* insert and remove.                                                        *)
RECURSIVE move_up(_, _, _), move_down(_, _, _)
\* t[i] = t[i - 1], from i down to above pos.
move_up(t, i, pos) == IF i > pos THEN move_up([t EXCEPT ![i] = t[i - 1]], i - 1, pos) ELSE t
\* t[pos] = t[pos + 1], from pos up to below size; then the last is nil.
move_down(t, pos, size) ==
  IF pos < size THEN move_down([t EXCEPT ![pos] = t[pos + 1]], pos + 1, size) ELSE [t EXCEPT ![pos] = nil]

Leave == UNCHANGED <<tcall, sorting>>
Ask(fn) == tcall.fn = fn /\ tresult = Working

tinsert ==
  /\ Ask("insert") /\ Leave
  /\ \E n \in Borders(tabs[1]) :
       LET e == n + 1
           pos == IF tcall.i = NotGiven THEN e ELSE tcall.i
       IN IF pos \in 1..e
          THEN /\ tabs' = [tabs EXCEPT ![1] = [move_up(@, e, pos) EXCEPT ![pos] = tcall.v]]
               /\ tresult' = Done(<<n>>)
          ELSE tabs' = tabs /\ tresult' = ArgError

tremove ==
  /\ Ask("remove") /\ Leave
  /\ \E size \in Borders(tabs[1]) :
       LET pos == IF tcall.i = NotGiven THEN size ELSE tcall.i
       IN IF pos = size \/ pos \in 1..size + 1
          THEN /\ tabs' = [tabs EXCEPT ![1] = move_down(@, pos, size)]
               /\ tresult' = Done(<<tabs[1][pos], size>>)
          ELSE tabs' = tabs /\ tresult' = ArgError

----------------------------------------------------------------------------
(* move: from i..j of the first table to k.. of the table tt.                *)
RECURSIVE copy(_, _, _, _, _)
\* The elements f + i for each i of the sequence, in its order.
copy(ts, tt, f, t, order) ==
  IF order = <<>> THEN ts
  ELSE LET i == Head(order)
       IN copy([ts EXCEPT ![tt][Wrap(t + i)] = ts[1][Wrap(f + i)]], tt, f, t, Tail(order))

Upwards(n) == [i \in 1..n |-> i - 1]
Downwards(n) == [i \in 1..n |-> n - i]

\* "to" is the fifth argument: not given, the first table again, or another.
tmove ==
  /\ Ask("move") /\ Leave
  /\ LET f == tcall.i
         e == tcall.j
         t == tcall.k
         n == Wrap(e - f + 1)
         tt == IF tcall.to = "other" THEN 2 ELSE 1
         upwards == t > e \/ t <= f \/ tcall.to # "none"
     IN IF e < f THEN tabs' = tabs /\ tresult' = Done(<<>>)
        ELSE IF /\ f > 0 \/ e < MaxInteger + f
                /\ t <= MaxInteger - n + 1
        THEN /\ tabs' = copy(tabs, tt, f, t, IF upwards THEN Upwards(n) ELSE Downwards(n))
             /\ tresult' = Done(<<>>)
        ELSE tabs' = tabs /\ tresult' = ArgError

----------------------------------------------------------------------------
(* concat and unpack; the separator is the value v.                          *)
RECURSIVE addfields(_, _, _)
\* The fields from i on with separators; the last one only if i reaches it.
addfields(t, i, last) ==
  LET rest == addfields(t, i + 1, last)
  IN CASE i < last -> IF t[i] \in {nil, Other} \/ rest.err # "none" THEN ArgError
                      ELSE Done(<<t[i], tcall.v>> \o rest.values)
       [] i = last -> IF t[i] \in {nil, Other} THEN ArgError ELSE Done(<<t[i]>>)
       [] OTHER -> Done(<<>>)

tconcat ==
  /\ Ask("concat") /\ Leave
  /\ \E n \in Borders(tabs[1]) :
       LET last == IF tcall.j = NotGiven THEN n ELSE tcall.j
       IN tresult' = addfields(tabs[1], tcall.i, last)
  /\ tabs' = tabs

\* Elements i..e - 1, so that i does not go past the last integer, then e.
RECURSIVE elements(_, _, _)
elements(t, i, e) == IF i < e THEN <<t[i]>> \o elements(t, i + 1, e) ELSE <<t[e]>>

unpack ==
  /\ Ask("unpack") /\ Leave
  /\ \E len \in Borders(tabs[1]) :
       LET i == tcall.i
           e == IF tcall.j = NotGiven THEN len ELSE tcall.j
           n == Unsigned(e - i)
       IN tresult' = CASE i > e -> Done(<<>>)
                       [] i <= e /\ n >= MaxResults -> ArgError
                       [] OTHER -> Done(elements(tabs[1], i, e))
  /\ tabs' = tabs

----------------------------------------------------------------------------
(* sort: quicksort with the median of three, the larger part by a tail call. *)
\* A frame of auxsort; n is kept over the recursive call.
Frame(lo, up, rnd) == [lo |-> lo, up |-> up, rnd |-> rnd, n |-> 0]
Idle == [frames |-> <<>>, at |-> "idle", p |-> 0, i |-> 0, j |-> 0]

array == tabs[1]
top == sorting.frames[Len(sorting.frames)]
low == top.lo
high == top.up
SetTop(frame) == [sorting.frames EXCEPT ![Len(sorting.frames)] = frame]
Swap(i, j) == tabs' = [tabs EXCEPT ![1][i] = array[j], ![1][j] = array[i]]
Keep == tabs' = tabs
Goto(place) == sorting' = [sorting EXCEPT !.at = place]

\* What the order function says of a < b: the order of the integers, or
\* anything at all.
Less(a, b) == IF tcall.order = "less" THEN {a < b} ELSE BOOLEAN

Sort ==
  /\ Ask("sort") /\ sorting.at = "idle"
  /\ \E n \in Borders(array) :
       IF n > 1 THEN sorting' = [sorting EXCEPT !.frames = <<Frame(1, n, 0)>>, !.at = "loop"] /\ tresult' = tresult
       ELSE sorting' = sorting /\ tresult' = Done(<<>>)
  /\ UNCHANGED <<tcall, tabs>>

\* auxsort returns: to the call that made it, or to sort.
ReturnFrame ==
  LET frames == SubSeq(sorting.frames, 1, Len(sorting.frames) - 1)
  IN /\ sorting' = [sorting EXCEPT !.frames = frames, !.at = IF frames = <<>> THEN "idle" ELSE "after"]
     /\ tresult' = IF frames = <<>> THEN Done(<<>>) ELSE tresult

Loop ==
  /\ sorting.at = "loop"
  /\ IF low < high THEN Goto("ends") /\ tresult' = tresult ELSE ReturnFrame
  /\ UNCHANGED <<tcall, tabs>>

choosePivot(rnd) ==
  LET r4 == (high - low) \div 4 IN (rnd % (r4 * 2)) + (low + r4)
Pivot == IF high - low < RanLimit \/ top.rnd = 0 THEN (low + high) \div 2 ELSE choosePivot(top.rnd)

\* a[up] < a[lo]?
CompareEnds ==
  /\ sorting.at = "ends"
  /\ \E less \in Less(array[high], array[low]) : IF less THEN Swap(low, high) ELSE Keep
  /\ IF high - low = 1 THEN ReturnFrame
     ELSE sorting' = [sorting EXCEPT !.at = "middle", !.p = Pivot] /\ tresult' = tresult
  /\ tcall' = tcall

\* The three are in order: that was all, or the pivot goes next to the end
\* (after the swap that the comparison asked for) and the partition begins.
Partition(new) ==
  IF high - low = 2 THEN tabs' = [tabs EXCEPT ![1] = new] /\ ReturnFrame
  ELSE /\ tabs' = [tabs EXCEPT ![1] = [new EXCEPT ![sorting.p] = new[high - 1], ![high - 1] = new[sorting.p]]]
       /\ sorting' = [sorting EXCEPT !.at = "up", !.i = low, !.j = high - 1]
       /\ tresult' = tresult
Swapped(i, j) == [array EXCEPT ![i] = array[j], ![j] = array[i]]

\* a[p] < a[lo]?
CompareMiddle ==
  /\ sorting.at = "middle"
  /\ \E less \in Less(array[sorting.p], array[low]) :
       IF less THEN Partition(Swapped(sorting.p, low)) ELSE Goto("last") /\ Keep /\ tresult' = tresult
  /\ tcall' = tcall
\* a[up] < a[p]?
CompareLast ==
  /\ sorting.at = "last"
  /\ \E less \in Less(array[high], array[sorting.p]) : Partition(IF less THEN Swapped(sorting.p, high) ELSE array)
  /\ tcall' = tcall

Invalid == tresult' = Result("invalid order function", <<>>)
PivotValue == array[high - 1]   \* the pivot

\* while a[++i] < P
CompareUp ==
  /\ sorting.at = "up"
  /\ LET i == sorting.i + 1
     IN \E less \in Less(array[i], PivotValue) :
          IF less /\ i = high - 1 THEN Invalid /\ sorting' = [sorting EXCEPT !.at = "idle", !.i = i]
          ELSE tresult' = tresult /\ sorting' = [sorting EXCEPT !.i = i, !.at = IF less THEN "up" ELSE "down"]
  /\ UNCHANGED <<tcall, tabs>>

\* The part that is smaller is sorted by a call, the other one by the loop.
Recur(p) ==
  LET smaller == p - low < high - p
      callee == IF smaller THEN Frame(low, p - 1, top.rnd) ELSE Frame(p + 1, high, top.rnd)
      rest == IF smaller THEN [top EXCEPT !.n = p - low, !.lo = p + 1] ELSE [top EXCEPT !.n = high - p, !.up = p - 1]
  IN sorting' = [sorting EXCEPT !.at = "loop", !.frames = Append(SetTop(rest), callee)]

\* Mutant: nothing stops j at the lower end.
CompareDownBlind ==
  /\ sorting.at = "down"
  /\ LET j == sorting.j - 1
         i == sorting.i
     IN \E less \in Less(PivotValue, array[j]) :
          CASE less -> tresult' = tresult /\ Keep /\ sorting' = [sorting EXCEPT !.j = j]
            [] ~less /\ j < i -> Swap(high - 1, i) /\ Recur(i) /\ tresult' = tresult
            [] OTHER -> Swap(i, j) /\ sorting' = [sorting EXCEPT !.j = j, !.at = "up"] /\ tresult' = tresult
  /\ tcall' = tcall
\* while P < a[--j]
CompareDown ==
  /\ sorting.at = "down"
  /\ LET j == sorting.j - 1
         i == sorting.i
     IN \E less \in Less(PivotValue, array[j]) :
          CASE less /\ j < i -> Invalid /\ Keep /\ sorting' = [sorting EXCEPT !.at = "idle", !.j = j]
            [] less /\ j >= i -> tresult' = tresult /\ Keep /\ sorting' = [sorting EXCEPT !.j = j]
            [] ~less /\ j < i -> Swap(high - 1, i) /\ Recur(i) /\ tresult' = tresult
            [] OTHER -> Swap(i, j) /\ sorting' = [sorting EXCEPT !.j = j, !.at = "up"] /\ tresult' = tresult
  /\ tcall' = tcall

\* After the recursive call: a bad partition makes the pivots random.
After ==
  /\ sorting.at = "after"
  /\ IF Unsigned(high - low) \div Imbalance > top.n
     THEN \E rnd \in Randoms : sorting' = [sorting EXCEPT !.at = "loop", !.frames = SetTop([top EXCEPT !.rnd = rnd])]
     ELSE Goto("loop")
  /\ UNCHANGED <<tcall, tabs, tresult>>

\* The order function raises an error: what is on the stack is lost.
OrderFails ==
  /\ sorting.at \in {"ends", "middle", "last", "up", "down"}
  /\ tcall.order = "any"
  /\ tresult' = Result("error in the order function", <<>>)
  /\ sorting' = [sorting EXCEPT !.at = "idle"]
  /\ UNCHANGED <<tcall, tabs>>

TabStart ==
  /\ tabs = <<tcall.table, tcall.table2>>
  /\ tresult = Working
  /\ sorting = Idle
TabInit == (\E family \in TabFamilies : tcall \in TabCalls(family)) /\ TabStart

SortStep ==
  \/ Sort \/ Loop \/ CompareEnds \/ CompareMiddle \/ CompareLast
  \/ CompareUp \/ CompareDown \/ After \/ OrderFails
TabNext == tinsert \/ tremove \/ tmove \/ tconcat \/ unpack \/ SortStep

----------------------------------------------------------------------------
(* What the functions are for.  A table before the call, and after it.       *)
Before == tcall.table
Sizes == Borders(Before)
Ended(fn) == tcall.fn = fn /\ tresult # Working
Succeeds(fn) == Ended(fn) /\ tresult.err = "none"
Given(argument, default) == IF argument = NotGiven THEN default ELSE argument

InsertRight ==
  /\ Succeeds("insert") =>
       LET n == tresult.values[1]
           pos == Given(tcall.i, n + 1)
       IN array = [k \in Integer |-> CASE k = pos -> tcall.v [] k \in pos + 1..n + 1 -> Before[k - 1] [] OTHER -> Before[k]]
  /\ Ended("insert") /\ ~Succeeds("insert") => array = Before /\ \E n \in Sizes : tcall.i \notin 1..n + 1

RemoveRight ==
  /\ Succeeds("remove") =>
       LET n == tresult.values[2]
           pos == Given(tcall.i, n)
           gone == IF pos < n THEN n ELSE pos
       IN /\ tresult.values[1] = Before[pos]
          /\ array = [k \in Integer |-> CASE k = gone -> nil [] k \in pos..n - 1 -> Before[k + 1] [] OTHER -> Before[k]]
  /\ Ended("remove") /\ ~Succeeds("remove") => array = Before /\ \E n \in Sizes : tcall.i \notin 1..n + 1

\* As if all were read before any is written, the tables overlap or not;
\* except when the first table is given once more as the destination.
MoveRight ==
  LET shift == tcall.k - tcall.i
      target == {k \in Integer : tcall.k <= k /\ k <= tcall.j + shift}
      tt == IF tcall.to = "other" THEN 2 ELSE 1
      old == <<Before, tcall.table2>>
      clobbers == tcall.to = "same" /\ tcall.k \in tcall.i + 1..tcall.j
      many == tcall.j - tcall.i + 1
  IN /\ Succeeds("move") /\ ~clobbers =>
          tabs = [old EXCEPT ![tt] = [k \in Integer |-> IF k \in target THEN Before[k - shift] ELSE old[tt][k]]]
     /\ Succeeds("move") /\ many > 0 => tcall.j + shift <= MaxInteger
     /\ Ended("move") /\ ~Succeeds("move") => tabs = old /\ (many > MaxInteger \/ tcall.j + shift > MaxInteger)

AllStrings(i, j) == \A k \in i..j : Before[k] \notin {nil, Other}
ConcatRight ==
  Ended("concat") => \E n \in Sizes :
    LET i == tcall.i
        j == Given(tcall.j, n)
    IN tresult = IF ~AllStrings(i, j) THEN ArgError
                 ELSE Done([k \in 1..2 * (j - i) + 1 |-> IF k % 2 = 1 THEN Before[i + k \div 2] ELSE tcall.v])
UnpackRight ==
  Ended("unpack") => \E n \in Sizes :
    LET i == tcall.i
        j == Given(tcall.j, n)
    IN tresult = IF j - i >= MaxResults THEN ArgError ELSE Done([k \in 1..j - i + 1 |-> Before[i + k - 1]])

\* A sort permutes the table at every comparison, whatever the order function
\* says, reads nothing outside the interval it sorts, picks its pivot from the
\* middle (the lua_assert of choosePivot), and its recursion is no deeper than
\* the logarithm of the size; with an order, the table is sorted in the end.
Occurrences(table, v) == Cardinality({k \in Integer : table[k] = v})
SortRight ==
  tcall.fn = "sort" =>
    LET at == sorting.at
        size == CHOOSE n \in Sizes : TRUE
    IN /\ \A k \in Integer : Occurrences(array, Before[k]) = Occurrences(Before, Before[k])
       /\ at \in {"middle", "last"} => sorting.p \in low..high
       /\ at = "middle" /\ high - low >= RanLimit /\ top.rnd # 0 =>
            LET r4 == (high - low) \div 4 IN sorting.p \in low + r4..high - r4
       /\ at = "up" => sorting.i + 1 \in low..high - 1
       /\ at = "down" => sorting.j - 1 \in low..high
       /\ at = "after" => high >= low
       /\ sorting.frames # <<>> => 2^(Len(sorting.frames) - 1) <= size
       /\ tcall.order = "less" => tresult.err \in {"working", "none"}
       /\ tcall.order = "less" /\ Succeeds("sort") => \A k \in 1..size - 1 : array[k] <= array[k + 1]

\* PROPERTY.  What insert, remove, move, concat, unpack and sort do to a table
\* is what the manual says, for holes in the table, for positions at both ends
\* of the integers, where a loop that counts past its last index would not
\* end, and for order functions that are no order.
TablesRight == InsertRight /\ RemoveRight /\ MoveRight /\ ConcatRight /\ UnpackRight /\ SortRight
=============================================================================
