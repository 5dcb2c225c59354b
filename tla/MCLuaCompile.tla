----------------------------- MODULE MCLuaCompile -----------------------------
(* The programs of run compile. *)
EXTENDS LuaCompile

\* Syntax trees.
nil == <<"nil">>
true == <<"true">>
false == <<"false">>
dots == <<"...">>
int(n) == <<"int", n>>
str(s) == <<"string", s>>
var(x) == <<"var", x>>
bin(op, x, y) == <<"bin", op, x, y>>
no(x) == <<"un", "NOT", x>>
minus(x) == <<"un", "SUB", x>>
len(x) == <<"un", "LEN", x>>
index(t, k) == <<"index", t, k>>
field(t, x) == <<"field", t, x>>
call(fn, args) == <<"call", fn, args>>
method(o, x, args) == <<"method", o, x, args>>
fun(params, body) == <<"fun", params, FALSE, body>>
vfun(params, body) == <<"fun", params, TRUE, body>>
table(items) == <<"table", items>>
item(x) == <<"item", x>>
named(x, y) == <<"named", x, y>>
keyed(x, y) == <<"keyed", x, y>>
paren(x) == <<"paren", x>>

local(xs, es) == <<"local", xs, es>>
set(vars1, es) == <<"assign", vars1, es>>
if(c, body, else) == <<"if", c, body, <<>>, else>>
while(c, body) == <<"while", c, body>>
repeat(body, c) == <<"repeat", body, c>>
fornum(x, es, body) == <<"fornum", x, es, body>>
forin(xs, es, body) == <<"forin", xs, es, body>>
localfun(x, params, body) == <<"localfunc", x, params, body>>
label(x) == <<"label", x>>
goto(x) == <<"goto", x>>
break == <<"break">>
return(es) == <<"return", es>>
do(body) == <<"do", body>>

a == var("a")
b == var("b")
c == var("c")
g == var("g")
t == var("t")
f(args) == call(var("f"), args)

---------------------------------------------------------------------------
(* Expressions over the parameters a and b, in every place a value goes. *)

Atoms == {a, nil, int(3), f(<<a>>), bin("eq", a, int(1))}
Conditions ==
  {bin(op, x, y) : op \in {"and", "or"}, x \in Atoms, y \in {b, no(b), false, int(4)}}
    \cup {bin(op, bin(op2, a, b), x) : op \in {"and", "or"}, op2 \in {"and", "or"}, x \in {int(4), no(a)}}
    \cup {bin("or", no(a), bin("and", b, int(4))), bin("and", no(bin("or", a, b)), int(4)),
          no(no(a)), no(bin("and", a, no(b))), no(int(0)), no(nil), bin("ne", a, b), bin("eq", a, bin("or", b, int(1))),
          bin("or", bin("lt", int(0), int(1)), a), bin("and", bin("gt", int(0), int(1)), a),
          no(bin("le", int(2), int(1))), no(bin("ge", int(2), int(2)))}

Places(e) ==
  { <<return(<<e>>)>>,
    <<return(<<a, e>>)>>,
    <<if(e, <<return(<<int(1)>>)>>, <<return(<<int(2)>>)>>)>>,
    <<set(<<a>>, <<e>>), return(<<a, b>>)>>,
    <<local(<<"x">>, <<table(<<item(e)>>)>>), return(<<index(var("x"), int(1))>>)>>,
    <<repeat(<<f(<<>>)>>, bin("or", e, bin("lt", int(0), int(1)))), return(<<bin("eq", e, b)>>)>> }

\* A function of a and b applied to four pairs of values.
Applied(body) ==
  <<localfun("g", <<"a", "b">>, body),
    f(<<call(g, <<nil, false>>)>>), f(<<call(g, <<int(1), int(2)>>)>>),
    f(<<call(g, <<false, int(5)>>)>>), return(<<call(g, <<int(7), nil>>)>>)>>

Evaluations == UNION {{Applied(body) : body \in Places(e)} : e \in Conditions}

---------------------------------------------------------------------------
(* Statements. *)

one == int(1)
two == int(2)
i == var("i")
x == var("x")
y == var("y")
add(p, q) == bin("ADD", p, q)
cat(p, q) == bin("CONCAT", p, q)
eq(p, q) == bin("eq", p, q)
lt(p, q) == bin("lt", p, q)
get(n) == return(<<var(n)>>)

Assignments ==
  { <<local(<<"a", "b">>, <<one, two>>), set(<<a, b>>, <<b, a>>), return(<<a, b>>)>>,
    <<local(<<"a", "b", "c">>, <<f(<<one, two>>)>>), return(<<a, b, c>>)>>,
    <<local(<<"a">>, <<f(<<one, two>>), f(<<int(3)>>)>>), return(<<a>>)>>,
    <<local(<<"a", "b">>, <<one>>), set(<<a, b>>, <<f(<<int(5), int(6)>>)>>), return(<<b, a>>)>>,
    <<local(<<"a", "b">>, <<>>), set(<<a, b>>, <<int(3)>>), set(<<a>>, <<int(4), f(<<a>>)>>), return(<<a, b>>)>>,
    <<local(<<"t", "i">>, <<table(<<>>), one>>), set(<<i, index(t, i)>>, <<add(i, one), int(20)>>),
      return(<<i, index(t, one), index(t, two)>>)>>,
    <<local(<<"t">>, <<table(<<item(table(<<item(int(7))>>))>>)>>), local(<<"x">>, <<t>>),
      set(<<index(t, one), t>>, <<int(8), nil>>), return(<<t, index(x, one)>>)>>,
    <<local(<<"t", "i">>, <<table(<<>>), one>>),
      localfun("g", <<>>, <<set(<<t, index(t, i), i>>, <<nil, int(20), int(5)>>)>>),
      local(<<"x">>, <<t>>), call(g, <<>>), return(<<t, i, index(x, one), index(x, int(5))>>)>>,
    <<set(<<a, b>>, <<one, f(<<two, int(3)>>)>>), set(<<a, b, c>>, <<b, a>>), return(<<a, b, c>>)>>,
    <<set(<<t>>, <<table(<<named("x", one), keyed(two, int(5)), item(int(6)), item(int(7)), item(int(8)), named("y", nil), item(dots)>>)>>),
      return(<<len(t), field(t, "x"), index(t, two), index(t, int(5)), field(t, "y")>>)>>,
    <<local(<<"t">>, <<table(<<item(dots), item(dots)>>)>>), f(<<len(t), index(t, one), index(t, int(3))>>),
      return(<<len(table(<<item(one), item(f(<<two, two>>))>>)), len(table(<<item(one), item(paren(f(<<two, two>>)))>>))>>)>>,
    <<local(<<"a", "b">>, <<dots>>), local(<<"x">>, <<paren(dots)>>), local(<<"y">>, <<cat(cat(a, b), cat(x, str("z")))>>),
      return(<<y, len(y), add(add(a, one), bin("MUL", b, minus(two)))>>)>>,
    <<local(<<"a">>, <<str("p")>>), set(<<a>>, <<cat(a, cat(paren(cat(a, two)), a))>>), f(<<a>>), return(<<cat(nil, a)>>)>>,
    <<local(<<"a">>, <<true>>), set(<<field(a, "x")>>, <<one>>), f(<<>>)>>,
    <<local(<<"a">>, <<table(<<>>)>>), set(<<index(a, nil)>>, <<one>>), f(<<>>)>>,
    <<f(<<minus(int(5)), minus(minus(f(<<two>>))), len(str("abc"))>>), return(<<lt(one, nil)>>)>>,
    <<f(<<add(f(<<one>>), f(<<two>>)), bin("SUB", int(50), f(<<one>>)), lt(f(<<two>>), f(<<one>>))>>), return(<<bin("MUL", f(<<two>>), paren(dots))>>)>>,
    <<f(<<one>>), return(<<minus(str("x"))>>)>>, <<f(<<>>), return(<<len(nil)>>)>>, <<return(<<call(paren(one), <<>>)>>)>>,
    <<local(<<"a">>, <<nil>>), local(<<"b", "c">>, <<>>), local(<<"x">>, <<int(3)>>), local(<<"y">>, <<>>), return(<<a, b, c, x, y>>)>>,
    <<do(<<local(<<"a", "b">>, <<one, two>>), f(<<a, b>>)>>), local(<<"x", "y">>, <<>>), <<";">>, return(<<x, y>>)>> }

Loops ==
  { <<local(<<"a">>, <<int(0)>>), while(lt(a, two), <<set(<<a>>, <<add(a, one)>>), f(<<a>>)>>), get("a")>>,
    <<local(<<"a">>, <<int(0)>>), while(true, <<set(<<a>>, <<add(a, one)>>), if(eq(a, two), <<break>>, <<>>), f(<<a>>)>>), get("a")>>,
    <<local(<<"a">>, <<int(0)>>), while(true, <<if(eq(a, two), <<f(<<>>), break>>, <<set(<<a>>, <<add(a, one)>>)>>)>>), get("a")>>,
    <<repeat(<<local(<<"a">>, <<f(<<one>>)>>)>>, eq(a, one)), return(<<a>>)>>,
    <<local(<<"x">>, <<table(<<>>)>>), local(<<"a">>, <<int(0)>>),
      repeat(<<set(<<a>>, <<add(a, one)>>), local(<<"b">>, <<a>>),
               set(<<index(x, a)>>, <<fun(<<>>, <<set(<<b>>, <<add(b, int(10))>>), return(<<b>>)>>)>>)>>, eq(b, two)),
      return(<<call(index(x, one), <<>>), call(index(x, one), <<>>), call(index(x, two), <<>>)>>)>>,
    <<fornum("i", <<one, int(3)>>, <<if(eq(i, two), <<goto("next")>>, <<>>), f(<<i>>), label("next")>>), get("i")>>,
    <<fornum("i", <<int(4), one, minus(two)>>, <<f(<<i>>), set(<<i>>, <<nil>>)>>)>>,
    <<fornum("i", <<two, one>>, <<f(<<i>>)>>), fornum("i", <<one, str("x")>>, <<f(<<i>>)>>)>>,
    <<local(<<"t">>, <<table(<<>>)>>),
      fornum("i", <<one, two>>, <<set(<<index(t, i)>>, <<fun(<<>>, <<set(<<i>>, <<add(i, one)>>), get("i")>>)>>),
                                  if(eq(i, two), <<break>>, <<>>)>>),
      return(<<call(index(t, one), <<>>), call(index(t, two), <<>>), call(index(t, two), <<>>)>>)>>,
    <<local(<<"t">>, <<table(<<>>)>>),
      fornum("i", <<one, two>>, <<set(<<index(t, i)>>, <<fun(<<>>, <<return(<<one>>)>>)>>)>>),
      return(<<call(index(t, two), <<>>)>>)>>,
    <<localfun("g", <<"x", "i">>, <<if(lt(i, x), <<return(<<add(i, one), i>>)>>, <<>>)>>),
      forin(<<"a", "b">>, <<g, two, int(0)>>, <<f(<<a, b>>)>>), forin(<<"a">>, <<g, one, int(0)>>, <<break>>),
      forin(<<"a">>, <<f(<<g, one, int(0)>>)>>, <<f(<<a>>)>>), forin(<<"a">>, <<one>>, <<>>)>>,
    <<local(<<"g", "a">>, <<>>), localfun("x", <<>>, <<return(<<fun(<<"y", "i">>, <<if(eq(i, two), <<>>, <<return(<<add(i, one)>>)>>)>>), one, int(0)>>)>>),
      forin(<<"b">>, <<call(x, <<>>)>>, <<f(<<b>>), local(<<"a">>, <<fun(<<>>, <<get("b")>>)>>), f(<<call(a, <<>>)>>)>>), return(<<a, g>>)>>,
    <<local(<<"a">>, <<int(0)>>), label("top"), set(<<a>>, <<add(a, one)>>), if(lt(a, two), <<goto("top")>>, <<>>), f(<<a>>), get("a")>>,
    <<local(<<"a", "c">>, <<int(0), nil>>), label("top"), local(<<"b">>, <<a>>), set(<<a>>, <<add(a, one)>>),
      if(eq(a, one), <<set(<<c>>, <<fun(<<>>, <<get("b")>>)>>), goto("top")>>, <<>>), return(<<call(c, <<>>), b>>)>>,
    <<local(<<"a">>, <<int(0)>>), do(<<label("top"), local(<<"b">>, <<a>>), set(<<a>>, <<add(a, one)>>),
      local(<<"c">>, <<fun(<<>>, <<get("b")>>)>>), if(lt(a, two), <<f(<<call(c, <<>>)>>), goto("top")>>, <<>>)>>), get("a")>>,
    <<goto("l1"), label("l2"), f(<<two>>), goto("l3"), label("l1"), f(<<one>>), goto("l2"), label("l3"), label("l4"), return(<<int(3)>>)>>,
    <<do(<<goto("l1"), local(<<"a">>, <<>>), f(<<a>>), label("l1"), label("l2"), <<";">>>>), label("l1"), return(<<one>>)>>,
    <<local(<<"a">>, <<int(0)>>), while(lt(a, int(3)), <<set(<<a>>, <<add(a, one)>>),
      if(eq(a, one), <<goto("next")>>, <<>>), while(true, <<f(<<a>>), if(eq(a, two), <<break>>, <<goto("next")>>)>>), f(<<>>), label("next")>>), get("a")>>,
    <<<<"if", f(<<nil>>), <<f(<<one>>)>>, <<<<f(<<false>>), <<f(<<two>>)>>>>, <<f(<<true>>), <<f(<<int(3)>>)>>>>>>, <<f(<<int(4)>>)>>>>, return(<<>>)>>,
    <<<<"if", f(<<>>), <<return(<<>>)>>, <<<<nil, <<>>>>>>, <<return(<<int(5)>>)>>>>>>,
    <<while(nil, <<f(<<>>)>>), while(false, <<break>>), repeat(<<break>>, nil), repeat(<<f(<<one>>)>>, true)>> }

Functions ==
  { <<localfun("g", <<"a">>, <<if(eq(a, int(0)), <<return(<<f(<<a>>)>>)>>, <<>>), return(<<call(g, <<bin("SUB", a, one)>>)>>)>>), return(<<call(g, <<two>>)>>)>>,
    <<<<"function", "t", <<>>, "", <<"a">>, <<return(<<a, a>>)>>>>, return(<<call(t, <<one>>), call(t, <<two>>)>>)>>,
    <<local(<<"t">>, <<table(<<named("x", table(<<>>))>>)>>), <<"function", "t", <<"x", "y">>, "", <<>>, <<return(<<one>>)>>>>,
      <<"function", "t", <<"x">>, "g", <<"a">>, <<set(<<field(var("self"), "a")>>, <<a>>), return(<<var("self")>>)>>>>,
      f(<<field(method(field(t, "x"), "g", <<int(5)>>), "a"), call(field(field(t, "x"), "y"), <<>>)>>), return(<<method(t, "none", <<>>)>>)>>,
    <<local(<<"g">>, <<vfun(<<"a">>, <<local(<<"b", "c">>, <<dots>>), f(<<a, dots>>), return(<<c, dots>>)>>)>>),
      f(<<call(g, <<>>), call(g, <<one, two>>), call(g, <<one, two, int(3), int(4)>>)>>), return(<<paren(call(g, <<dots>>))>>)>>,
    <<localfun("g", <<"a">>, <<return(<<fun(<<>>, <<set(<<a>>, <<add(a, one)>>), get("a")>>), fun(<<"b">>, <<set(<<a>>, <<b>>)>>)>>)>>),
      local(<<"x", "y">>, <<call(g, <<one>>)>>), local(<<"c">>, <<call(g, <<int(10)>>)>>), f(<<call(x, <<>>), call(c, <<>>)>>),
      call(y, <<int(5)>>), return(<<call(x, <<>>), call(c, <<>>)>>)>>,
    <<local(<<"a">>, <<one>>), local(<<"g">>, <<fun(<<>>, <<return(<<fun(<<>>, <<set(<<a, b>>, <<add(a, one), a>>), return(<<a, b>>)>>)>>)>>)>>),
      return(<<call(call(g, <<>>), <<>>)>>)>>,
    <<<<"callwith", var("f"), str("s")>>, <<"callwith", var("f"), table(<<>>)>>, local(<<"t">>, <<table(<<named("f", var("f"))>>)>>),
      return(<<paren(method(t, "f", <<>>)), field(paren(<<"callwith", var("f"), table(<<named("a", two)>>)>>), "a")>>)>>,
    <<local(<<"g">>, <<fun(<<"a">>, <<local(<<"b">>, <<a>>), return(<<call(paren(fun(<<>>, <<return(<<b>>)>>)), <<>>)>>)>>)>>), f(<<call(g, <<one>>), call(g, <<two>>)>>)>>,
    <<localfun("g", <<"a", "b">>, <<f(<<a, b>>)>>), call(g, <<one>>), call(g, <<one, two, int(3)>>), return(<<call(g, <<>>), one>>)>>,
    <<do(<<return(<<dots>>)>>)>>, <<return(<<f(<<f(<<one, two>>), f(<<int(3), int(4)>>)>>)>>)>>, <<>>,
    <<local(<<"a">>, <<fun(<<>>, <<>>)>>), return(<<call(a, <<>>), eq(a, a), no(a)>>)>> }

\* Programs the compiler must refuse.
Refused ==
  { <<break>>, <<goto("l1")>>, <<goto("l1"), local(<<"a">>, <<>>), label("l1"), f(<<>>)>>,
    <<label("l1"), label("l1")>>, <<do(<<label("l1")>>), goto("l1")>>, <<localfun("g", <<>>, <<return(<<dots>>)>>)>>,
    <<label("l1"), localfun("g", <<>>, <<goto("l1")>>)>>, <<while(true, <<localfun("g", <<>>, <<break>>)>>)>>,
    <<repeat(<<goto("l1"), local(<<"a">>, <<>>), label("l1")>>, a)>> }

MCPrograms == Evaluations \cup Assignments \cup Loops \cup Functions \cup Refused
================================================================================
