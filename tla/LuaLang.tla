------------------------------ MODULE LuaLang ------------------------------
(***************************************************************************)
(* The language that lua-5.1 implements, against which the compiler and    *)
(* the interpreter are checked: programs as trees, the tokens a tree is    *)
(* written with, and what a tree means, by recursion over the tree.        *)
(*                                                                         *)
(* Expressions:  <<"const", value>>  <<"var", name>>  <<"dots">>           *)
(*   <<"index", e, key>>  <<"call", e, args>>  <<"method", e, name, args>> *)
(*   <<"paren", e>>  <<"un", op, e>>  <<"bin", op, e1, e2>>                *)
(*   <<"table", items>>, an item being <<e>> or <<key, e>>                 *)
(*   <<"func", params, rest, block>>, rest one of "none", "dots", "arg".   *)
(* Statements:  <<"local", names, es>>  <<"assign", vars, es>>             *)
(*   <<"do", e>> (a call)  <<"block", b>>  <<"while", e, b>>               *)
(*   <<"repeat", b, e>>  <<"if", clauses, b>>, a clause being <<e, b>>     *)
(*   <<"fornum", name, es, b>>  <<"forin", names, es, b>>                  *)
(*   <<"function", path, method, f>>  <<"localfunction", name, f>>         *)
(*   <<"return", es>>  <<"break">>.   A block is a sequence of them.       *)
(***************************************************************************)
EXTENDS Integers, Sequences, FiniteSets, SequencesExt, TLC

Nil == <<"nil">>
NotANumber == <<"nan">>
N(n) == <<"num", n>>
B(b) == <<"bool", b>>
Truthy(v) == v \notin {Nil, B(FALSE)}
Whole(f) == <<>> \o f  \* a function on 1..n as a tuple, computed once
Flat(ss) == FoldLeft(LAMBDA x, y : x \o y, <<>>, Whole(ss))
Separated(ss, t) ==
  LET all == Whole(ss) IN Flat([i \in DOMAIN all |-> IF i = 1 THEN all[i] ELSE <<t>> \o all[i]])
-----------------------------------------------------------------------------
(* The tokens of a tree, with the fewest parentheses: Level is how tightly *)
(* an expression binds, as the reference manual says.                      *)

T(k) == [k |-> k, v |-> ""]
TName(n) == [k |-> "name", v |-> n]
Level(e) ==
  CASE e[1] = "un" -> 7
    [] e[1] = "bin" ->
         CASE e[2] = "or" -> 1 [] e[2] = "and" -> 2 [] e[2] = ".." -> 4
           [] e[2] \in {"+", "-"} -> 5 [] e[2] \in {"*", "%"} -> 6
           [] OTHER -> 3
    [] OTHER -> 8
ConstToken(v) ==
  CASE v = Nil -> T("nil")
    [] v[1] = "bool" -> T(IF v[2] THEN "true" ELSE "false")
    [] v[1] = "num" -> [k |-> "number", v |-> v[2]]
    [] v[1] = "str" -> [k |-> "string", v |-> v[2]]

RECURSIVE Write(_, _)
RECURSIVE WriteBlock(_)
List(es) == Separated([i \in DOMAIN es |-> Write(es[i], 1)], T(","))
NameList(ns) == Separated([i \in DOMAIN ns |-> <<TName(ns[i])>>], T(","))
Args(es) == <<T("(")>> \o List(es) \o <<T(")")>>
Body(f) ==
  LET ps == [i \in DOMAIN f[2] |-> <<TName(f[2][i])>>]
      all == IF f[3] = "none" THEN ps ELSE Append(ps, <<T("...")>>)
  IN  <<T("(")>> \o Separated(all, T(",")) \o <<T(")")>> \o WriteBlock(f[4])
        \o <<T("end")>>
Prefix(e) == IF e[1] \in {"var", "index", "call", "method", "paren"} THEN Write(e, 8)
             ELSE <<T("(")>> \o Write(e, 1) \o <<T(")")>>
Item(x) == IF Len(x) = 1 THEN Write(x[1], 1)
           ELSE <<T("[")>> \o Write(x[1], 1) \o <<T("]"), T("=")>> \o Write(x[2], 1)
Write(e, min) ==
  IF Level(e) < min THEN <<T("(")>> \o Write(e, 1) \o <<T(")")>>
  ELSE CASE e[1] = "const" -> <<ConstToken(e[2])>>
         [] e[1] = "var" -> <<TName(e[2])>>
         [] e[1] = "dots" -> <<T("...")>>
         [] e[1] = "index" -> Prefix(e[2]) \o
              (IF e[3][1] = "const" /\ e[3][2][1] = "str" THEN <<T("."), TName(e[3][2][2])>>
               ELSE <<T("[")>> \o Write(e[3], 1) \o <<T("]")>>)
         [] e[1] = "call" -> Prefix(e[2]) \o Args(e[3])
         [] e[1] = "method" -> Prefix(e[2]) \o <<T(":"), TName(e[3])>> \o Args(e[4])
         [] e[1] = "paren" -> <<T("(")>> \o Write(e[2], 1) \o <<T(")")>>
         [] e[1] = "un" -> <<T(e[2])>> \o Write(e[3], 7)
         [] e[1] = "bin" ->
              LET l == Level(e)
                  right == e[2] = ".."
              IN  Write(e[3], IF right THEN l + 1 ELSE l) \o <<T(e[2])>>
                    \o Write(e[4], IF right THEN l ELSE l + 1)
         [] e[1] = "table" ->
              <<T("{")>> \o Separated([i \in DOMAIN e[2] |-> Item(e[2][i])], T(","))
                \o <<T("}")>>
         [] e[1] = "func" -> <<T("function")>> \o Body(e)

WriteStat(s) ==
  CASE s[1] = "local" -> <<T("local")>> \o NameList(s[2])
                           \o (IF s[3] = <<>> THEN <<>> ELSE <<T("=")>> \o List(s[3]))
    [] s[1] = "assign" -> List(s[2]) \o <<T("=")>> \o List(s[3])
    [] s[1] = "do" -> Write(s[2], 1)
    [] s[1] = "block" -> <<T("do")>> \o WriteBlock(s[2]) \o <<T("end")>>
    [] s[1] = "while" -> <<T("while")>> \o Write(s[2], 1) \o <<T("do")>>
                           \o WriteBlock(s[3]) \o <<T("end")>>
    [] s[1] = "repeat" -> <<T("repeat")>> \o WriteBlock(s[2]) \o <<T("until")>>
                            \o Write(s[3], 1)
    [] s[1] = "if" ->
         Flat([i \in DOMAIN s[2] |-> <<T(IF i = 1 THEN "if" ELSE "elseif")>>
                 \o Write(s[2][i][1], 1) \o <<T("then")>> \o WriteBlock(s[2][i][2])])
           \o (IF s[3] = <<>> THEN <<>> ELSE <<T("else")>> \o WriteBlock(s[3]))
           \o <<T("end")>>
    [] s[1] = "fornum" -> <<T("for"), TName(s[2]), T("=")>> \o List(s[3]) \o <<T("do")>>
                            \o WriteBlock(s[4]) \o <<T("end")>>
    [] s[1] = "forin" -> <<T("for")>> \o NameList(s[2]) \o <<T("in")>> \o List(s[3])
                           \o <<T("do")>> \o WriteBlock(s[4]) \o <<T("end")>>
    [] s[1] = "function" ->
         <<T("function")>> \o Separated([i \in DOMAIN s[2] |-> <<TName(s[2][i])>>], T("."))
           \o (IF s[3] = "" THEN <<>> ELSE <<T(":"), TName(s[3])>>) \o Body(s[4])
    [] s[1] = "localfunction" ->
         <<T("local"), T("function"), TName(s[2])>> \o Body(s[3])
    [] s[1] = "return" -> <<T("return")>> \o List(s[2])
    [] s[1] = "break" -> <<T("break")>>
WriteBlock(b) == Separated([i \in DOMAIN b |-> WriteStat(b[i])], T(";"))
Tokens(program) == WriteBlock(program) \o <<T("eos")>>
-----------------------------------------------------------------------------
(* The meaning.  A store s is [loc, tab, fn, sig, ret]: the variables, the *)
(* tables (the first holds the globals), the functions [f, env], how the   *)
(* statement before ended ("run", "break", "return" or "error") and the    *)
(* values returned.  An environment maps a name to its variable.           *)

V(s, v) == [s |-> s, v |-> v]
Fail(s) == [s EXCEPT !.sig = "error"]
Fresh(s, env, name, v) ==
  [s |-> [s EXCEPT !.loc = Append(@, v)], env |-> (name :> (Len(s.loc) + 1)) @@ env]
FreshAll(s, env, names, vs) ==
  FoldLeft(LAMBDA r, i : Fresh(r.s, r.env, names[i], IF i <= Len(vs) THEN vs[i] ELSE Nil),
           [s |-> s, env |-> env], [i \in DOMAIN names |-> i])
Lookup(t, k) == IF k \in DOMAIN t THEN t[k] ELSE Nil
Store(t, k, v) == IF v = Nil THEN [x \in DOMAIN t \ {k} |-> t[x]] ELSE (k :> v) @@ t
Index(s, t, k) == IF t[1] = "tab" THEN V(s, Lookup(s.tab[t[2]], k)) ELSE V(Fail(s), Nil)
Update(s, t, k, v) == IF t[1] = "tab" /\ k \notin {Nil, NotANumber}
                      THEN [s EXCEPT !.tab[t[2]] = Store(@, k, v)] ELSE Fail(s)
NewTable(s, t) == V([s EXCEPT !.tab = Append(@, t)], <<"tab", Len(s.tab) + 1>>)
Quotient(x, y) == IF y > 0 THEN x \div y ELSE (-x) \div (-y)
Numeric(v) == v[1] \in {"num", "nan"}
Textual(v) == Numeric(v) \/ v[1] = "str"
AsText(v) == CASE v[1] = "str" -> v[2] [] v[1] = "nan" -> "nan" [] OTHER -> ToString(v[2])
Sizes(t) == {n \in 0..Cardinality(DOMAIN t) : /\ \A i \in 1..n : N(i) \in DOMAIN t
                                              /\ N(n + 1) \notin DOMAIN t}
Calculate(op, x, y) ==
  CASE op = "+" -> N(x + y) [] op = "-" -> N(x - y) [] op = "*" -> N(x * y)
    [] op = "%" -> IF y = 0 THEN NotANumber ELSE N(x - y * Quotient(x, y))
Order(op, x, y) ==
  CASE op = "<" -> x < y [] op = "<=" -> x <= y [] op = ">" -> x > y [] op = ">=" -> x >= y
Binary(s, op, v, w) ==
  CASE op \in {"==", "~="} -> V(s, B((v = w /\ v # NotANumber) = (op = "==")))
    [] op = ".." -> IF Textual(v) /\ Textual(w) THEN V(s, <<"str", AsText(v) \o AsText(w)>>)
                    ELSE V(Fail(s), Nil)
    [] ~(Numeric(v) /\ Numeric(w)) -> V(Fail(s), Nil)
    [] op \in {"<", "<=", ">", ">="} ->
         V(s, B(NotANumber \notin {v, w} /\ Order(op, v[2], w[2])))
    [] OTHER -> V(s, IF NotANumber \in {v, w} THEN NotANumber ELSE Calculate(op, v[2], w[2]))
Unary(s, op, v) ==
  CASE op = "not" -> V(s, B(~Truthy(v)))
    [] op = "-" -> IF Numeric(v) THEN V(s, IF v = NotANumber THEN v ELSE N(-v[2]))
                   ELSE V(Fail(s), Nil)
    [] op = "#" -> IF v[1] = "tab"
                   THEN V(s, N(CHOOSE n \in Sizes(s.tab[v[2]]) : TRUE))
                   ELSE IF v[1] = "str" THEN V(s, N(Len(v[2]))) ELSE V(Fail(s), Nil)

RECURSIVE Eval(_, _, _)
RECURSIVE Exec(_, _, _)
First(r) == V(r.s, IF r.v = <<>> THEN Nil ELSE r.v[1])

\* A block in an environment of its own; statements declare names for later ones.
RECURSIVE ExecSeq(_, _, _)
ExecSeq(s, env, b) ==
  IF b = <<>> \/ s.sig # "run" THEN [s |-> s, env |-> env]
  ELSE LET Then(r) == ExecSeq(r.s, r.env, Tail(b)) IN Then(Exec(s, env, b[1]))
Run(s, env, b) == ExecSeq(s, env, b).s

Apply(s, f, args) ==
  LET Returned(r) == IF r.sig = "return" THEN V([r EXCEPT !.sig = "run", !.ret = <<>>], r.ret)
                     ELSE V(r, <<>>)
      Extra(extra) ==
        [x \in {N(i) : i \in DOMAIN extra} \cup {<<"str", "n">>} |->
           IF x[1] = "str" THEN N(Len(extra)) ELSE extra[x[2]]]
      Arg(p, t) == Fresh(t.s, p.env, "arg", t.v)
      Rest(c, p, extra) == CASE c.f[3] = "none" -> p
                             [] c.f[3] = "arg" -> Arg(p, NewTable(p.s, Extra(extra)))
                             [] c.f[3] = "dots" -> Fresh(p.s, p.env, "...", extra)
      Enter(c, q) == Returned(Run(q.s, q.env, c.f[4]))
      Call(c) == Enter(c, Rest(c, FreshAll(s, c.env, c.f[2], args),
                               SubSeq(args, Len(c.f[2]) + 1, Len(args))))
  IN  IF s.sig # "run" \/ f[1] # "fn" THEN V(Fail(s), <<>>) ELSE Call(s.fn[f[2]])

\* All values of a list: the last expression gives all of its own.
Eval1(s, env, e) == First(Eval(s, env, e))
EvalList(s, env, es) ==
  LET Joined(r, i, x) == V(x.s, r.v \o (IF i = Len(es) THEN x.v ELSE <<First(x).v>>))
      add(r, i) == Joined(r, i, Eval(r.s, env, es[i]))
  IN  FoldLeft(add, V(s, <<>>), [i \in DOMAIN es |-> i])

\* A table constructor: positional items in order, the last may give several.
Construct(s, env, items) ==
  LET Keyed(r, y, z) == [s |-> IF y.v = Nil THEN Fail(z.s) ELSE z.s,
                         t |-> Store(r.t, y.v, z.v), n |-> r.n]
      WithKey(r, y, e) == Keyed(r, y, Eval1(y.s, env, e))
      Listed(r, st, vs) ==
        [s |-> st, n |-> r.n + Len(vs),
         t |-> FoldLeft(LAMBDA t, j : Store(t, N(r.n + j), vs[j]), r.t,
                        [j \in DOMAIN vs |-> j])]
      Open(r, x, last) == Listed(r, x.s, IF last THEN x.v ELSE <<First(x).v>>)
      add(r, i) == IF Len(items[i]) = 2
                   THEN WithKey(r, Eval1(r.s, env, items[i][1]), items[i][2])
                   ELSE Open(r, Eval(r.s, env, items[i][1]), i = Len(items))
      New(c) == NewTable(c.s, c.t)
  IN  New(FoldLeft(add, [s |-> s, t |-> <<>>, n |-> 0], [i \in DOMAIN items |-> i]))

Eval(s, env, e) ==
  LET one(r) == V(r.s, <<r.v>>)
      Indexed(x, k) == one(Index(k.s, x.v, k.v))
      In(x) == Indexed(x, Eval1(x.s, env, e[3]))
      Called(f, before, a) == Apply(a.s, f, before \o a.v)
      Method(x, m) == Called(m.v, <<x.v>>, EvalList(m.s, env, e[4]))
      Of(x) == CASE e[1] = "index" -> In(x)
                 [] e[1] = "call" -> Called(x.v, <<>>, EvalList(x.s, env, e[3]))
                 [] e[1] = "method" -> Method(x, Index(x.s, x.v, <<"str", e[3]>>))
                 [] e[1] = "paren" -> one(x)
      Both(l, r) == IF e[2] \in {"and", "or"} THEN one(r) ELSE one(Binary(r.s, e[2], l.v, r.v))
      Op(l) == CASE e[1] = "un" -> one(Unary(l.s, e[2], l.v))
                 [] e[1] = "bin" -> IF e[2] \in {"and", "or"} /\ Truthy(l.v) = (e[2] = "or")
                                    THEN one(l) ELSE Both(l, Eval1(l.s, env, e[4]))
  IN  CASE e[1] = "const" -> V(s, <<e[2]>>)
        [] e[1] = "var" -> V(s, <<IF e[2] \in DOMAIN env THEN s.loc[env[e[2]]]
                                  ELSE Lookup(s.tab[1], <<"str", e[2]>>)>>)
        [] e[1] = "dots" -> V(s, s.loc[env["..."]])
        [] e[1] \in {"index", "call", "method", "paren"} -> Of(Eval1(s, env, e[2]))
        [] e[1] \in {"un", "bin"} -> Op(Eval1(s, env, e[3]))
        [] e[1] = "table" -> one(Construct(s, env, e[2]))
        [] e[1] = "func" -> V([s EXCEPT !.fn = Append(@, [f |-> e, env |-> env])],
                              <<<<"fn", Len(s.fn) + 1>>>>)

\* Targets are found from the left, then assigned to from the right.
Target(s, env, v) ==
  LET Place(t, k) == V(k.s, <<t.v, k.v>>)
      Of(t) == Place(t, Eval1(t.s, env, v[3]))
  IN  CASE v[1] = "index" -> Of(Eval1(s, env, v[2]))
        [] v[1] # "index" /\ v[2] \in DOMAIN env -> V(s, <<<<"loc", env[v[2]]>>>>)
        [] OTHER -> V(s, <<<<"tab", 1>>, <<"str", v[2]>>>>)
SetTarget(s, t, v) ==
  IF t[1][1] = "loc" THEN [s EXCEPT !.loc[t[1][2]] = v] ELSE Update(s, t[1], t[2], v)
SetAllTargets(s, ts, vs) ==
  FoldRight(LAMBDA i, x : SetTarget(x, ts[i], IF i <= Len(vs) THEN vs[i] ELSE Nil),
            [i \in DOMAIN ts |-> i], s)
Targets(s, env, vars) ==
  LET Joined(r, t) == V(t.s, Append(r.v, t.v))
      add(r, v) == Joined(r, Target(r.s, env, v))
  IN  FoldLeft(add, V(s, <<>>), vars)

\* What is left of a loop after its body ended.
Looped(s) == IF s.sig = "break" THEN [s EXCEPT !.sig = "run"] ELSE s
RECURSIVE While(_, _, _)
While(s, env, st) ==
  LET Again(r) == IF r.sig = "run" THEN While(r, env, st) ELSE Looped(r)
      Test(c) == IF ~Truthy(c.v) \/ c.s.sig # "run" THEN c.s
                 ELSE Again(Run(c.s, env, st[3]))
  IN  Test(Eval1(s, env, st[2]))
RECURSIVE Repeat(_, _, _)
Repeat(s, env, st) ==
  LET Until(c) == IF Truthy(c.v) \/ c.s.sig # "run" THEN c.s ELSE Repeat(c.s, env, st)
      Test(r) == IF r.s.sig # "run" THEN Looped(r.s) ELSE Until(Eval1(r.s, r.env, st[3]))
  IN  Test(ExecSeq(s, env, st[2]))
RECURSIVE Count(_, _, _, _, _, _)
Count(s, env, st, i, limit, step) ==
  LET Again(r) == IF r.sig = "run" THEN Count(r, env, st, i + step, limit, step)
                  ELSE Looped(r)
      With(v) == Again(Run(v.s, v.env, st[4]))
  IN  IF IF step > 0 THEN i > limit ELSE i < limit THEN s
      ELSE With(Fresh(s, env, st[2], N(i)))
RECURSIVE Iterate(_, _, _, _, _, _)
Iterate(s, env, st, f, state, control) ==
  LET Again(r, first) == IF r.sig = "run" THEN Iterate(r, env, st, f, state, first)
                         ELSE Looped(r)
      With(v, first) == Again(Run(v.s, v.env, st[4]), first)
      Called(c) == IF c.s.sig # "run" \/ First(c).v = Nil THEN c.s
                   ELSE With(FreshAll(c.s, env, st[2], c.v), First(c).v)
  IN  Called(Apply(s, f, <<state, control>>))
RECURSIVE Clause(_, _, _, _)
Clause(s, env, cs, otherwise) ==
  LET Test(c) == IF c.s.sig # "run" THEN c.s
                 ELSE IF Truthy(c.v) THEN Run(c.s, env, cs[1][2])
                 ELSE Clause(c.s, env, Tail(cs), otherwise)
  IN  IF cs = <<>> THEN Run(s, env, otherwise) ELSE Test(Eval1(s, env, cs[1][1]))

PathExpr(p) == FoldLeft(LAMBDA e, n : <<"index", e, <<"const", <<"str", n>>>>>>,
                        <<"var", p[1]>>, Tail(p))
Exec(s, env, st) ==
  LET same(x) == [s |-> x, env |-> env]
      Assign(ts, vs) == SetAllTargets(vs.s, ts.v, vs.v)
      Assigned(ts) == Assign(ts, EvalList(ts.s, env, st[3]))
      Number(x, n) ==
        IF \A i \in DOMAIN n : n[i][1] = "num"
        THEN Count(x.s, env, st, n[1][2], n[2][2], IF Len(n) = 3 THEN n[3][2] ELSE 1)
        ELSE Fail(x.s)
      In(x, a) == Iterate(x.s, env, st, a[1], a[2], a[3])
      Of(x) == CASE st[1] = "local" -> FreshAll(x.s, env, st[2], x.v)
                 [] st[1] = "fornum" -> same(Number(x, x.v))
                 [] st[1] = "forin" -> same(In(x, x.v \o <<Nil, Nil>>))
      f == IF st[3] = "" THEN st[4] ELSE [st[4] EXCEPT ![2] = <<"self">> \o @]
      path == PathExpr(IF st[3] = "" THEN st[2] ELSE Append(st[2], st[3]))
      SetIt(t, x) == SetTarget(x.s, t.v, x.v)
      Define(t) == SetIt(t, Eval1(t.s, env, f))
      Bound(new, x) == [s |-> [x.s EXCEPT !.loc[new.env[st[2]]] = x.v], env |-> new.env]
      Local(new) == Bound(new, Eval1(new.s, new.env, st[3]))
      Return(x) == [x.s EXCEPT !.sig = IF @ = "run" THEN "return" ELSE @, !.ret = x.v]
  IN  CASE st[1] \in {"local", "fornum", "forin"} -> Of(EvalList(s, env, st[3]))
        [] st[1] = "assign" -> same(Assigned(Targets(s, env, st[2])))
        [] st[1] = "do" -> same(Eval(s, env, st[2]).s)
        [] st[1] = "block" -> same(Run(s, env, st[2]))
        [] st[1] = "while" -> same(While(s, env, st))
        [] st[1] = "repeat" -> same(Repeat(s, env, st))
        [] st[1] = "if" -> same(Clause(s, env, st[2], st[3]))
        [] st[1] = "function" -> same(Define(Target(s, env, path)))
        [] st[1] = "localfunction" -> Local(Fresh(s, env, st[2], Nil))
        [] st[1] = "return" -> same(Return(EvalList(s, env, st[2])))
        [] st[1] = "break" -> same([s EXCEPT !.sig = "break"])

Empty == <<>>
Meaning(program) ==
  Run([loc |-> <<Empty>>, tab |-> <<Empty>>, fn |-> <<>>, sig |-> "run", ret |-> <<>>],
      "..." :> 1, program)

\* A value without the names of tables and functions, to a depth.
RECURSIVE Shown(_, _, _)
Shown(v, tab, depth) ==
  CASE v[1] = "tab" /\ depth > 0 ->
         <<"tab", {<<k, Shown(tab[v[2]][k], tab, depth - 1)>> :
                     k \in {k \in DOMAIN tab[v[2]] : k[1] \notin {"tab", "fn"}}}>>
    [] v[1] \in {"tab", "fn"} -> <<v[1]>>
    [] OTHER -> v
=============================================================================
