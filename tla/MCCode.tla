------------------------------- MODULE MCCode -------------------------------
(* The scripts that LuaRun compiles, saves, loads and runs.                *)
EXTENDS LuaRun

Nm(n) == <<"var", n>>
Co(n) == <<"const", Num(n)>>
St(s) == <<"const", <<"str", s>>>>
TrueE == <<"const", Bool(TRUE)>>
FalseE == <<"const", Bool(FALSE)>>
NilE == <<"const", NIL>>
Bin(op, a, b) == <<"bin", op, a, b>>
Un(op, a) == <<"un", op, a>>
Call(f, as) == <<"call", f, as>>
Call1(f, a) == <<"call", Nm(f), <<a>>>>
Ix(e, k) == <<"index", e, k>>
Dot(e, n) == <<"index", e, St(n)>>
Fn(ps, b) == <<"func", ps, "none", b>>
Tab(items) == <<"table", items>>
Dots == <<"dots">>
Ret(es) == <<"return", es>>
Ret1(e) == <<"return", <<e>>>>
Loc(ns, es) == <<"local", ns, es>>
Loc1(n, e) == <<"local", <<n>>, <<e>>>>
LocFn(n, f) == <<"localfunction", n, f>>
Set1(v, e) == <<"assign", <<v>>, <<e>>>>
SetN(vs, es) == <<"assign", vs, es>>
If(c, b, d) == <<"if", <<<<c, b>>>>, d>>
CallOf(e) == <<"do", e>>
Pick(ss, i) == ss[(i % Len(ss)) + 1]
Some(i, m) == (i \div m) % 2 = 0
Inc(v, e) == Set1(v, Bin("+", v, e))
-----------------------------------------------------------------------------
(* Two logical operators over eight kinds of operand, one of them negated  *)
(* or none, as a value and as a condition.                                 *)
Leaves == << Nm("a"), Nm("g"), Co(3), TrueE, FalseE, NilE,
             Bin("<", Nm("a"), Nm("b")), Un("not", Nm("b")) >>
LogicOps == <<"and", "or">>
LogicExpr(i) ==
  LET l == Pick(Leaves, i)
      m == Pick(Leaves, i \div 8)
      r == Pick(Leaves, i \div 64)
      o == Pick(LogicOps, i \div 512)
      q == Pick(LogicOps, i \div 1024)
  IN  IF Some(i, 2048) THEN Bin(q, Bin(o, l, m), r) ELSE Bin(o, l, Bin(q, m, r))
LogicProgram(i) ==
  LET e == LogicExpr(i)
      n == IF i % 3 = 0 THEN Un("not", e) ELSE e
      start == Loc(<<"a", "b">>, <<Co(1), Co(2)>>)
  IN  IF Some(i, 4096) THEN <<start, Loc1("x", n), Ret1(Nm("x"))>>
      ELSE <<start, <<"if", <<<<n, <<Ret1(Co(1))>>>>>>, <<Ret1(Co(2))>>>>>>

(* Two operators on numbers, strings and tables, with more constants than  *)
(* an operand can name.  A number is no left operand (see WrongPrograms).     *)
Terms == << Nm("a"), Co(7), Dot(Nm("t"), "x"), Co(2), Nm("g"), Un("-", Nm("a")),
            Un("#", Nm("t")), Call1("f", Nm("a")), St("s"), Co(0) >>
Left(e) == IF e[1] = "const" THEN Dot(Nm("t"), "z") ELSE e
Ops == <<"+", "-", "*", "%", "..", "==", "<", "<=", "~=", ">", ">=">>
ArithProgram(i) ==
  LET o == Pick(Ops, i)
      q == Pick(Ops, i \div 11)
      l == Pick(Terms, i)
      m == Pick(Terms, i \div 10)
      r == Pick(Terms, (i \div 100) + (i \div 7))
      e == IF Some(i, 121) THEN Bin(q, Bin(o, Left(l), m), r)
           ELSE Bin(o, Left(l), Bin(q, Left(m), r))
  IN  << SetN(<<Nm("g")>>, <<Co(5)>>), LocFn("f", Fn(<<"v">>, <<Ret1(Bin("+", Nm("v"), Co(1)))>>)),
         Loc(<<"a", "t">>, <<Co(3), Tab(<<<<St("x"), Co(4)>>, <<St("z"), Co(1)>>, <<Co(6)>>>>)>>),
         IF Some(i, 242) THEN Ret1(e) ELSE Set1(Dot(Nm("t"), "y"), e) >>

(* As many names as values, more and fewer, the last value a call, the     *)
(* extra arguments or a constant, in every place that takes a list.        *)
Lasts == << Co(9), Call(Nm("f"), <<>>), Dots, <<"paren", Dots>>, NilE >>
Names3 == <<"x", "y", "z">>
ListProgram(i) ==
  LET n == (i % 3) + 1
      k == (i \div 3) % 3
      last == Pick(Lasts, i \div 9)
      es == Append([j \in 1..k |-> Co(j)], last)
      ns == SubSeq(Names3, 1, n)
      vs == [j \in 1..n |-> Nm(ns[j])]
      place == (i \div 45) % 6
      two == <<Co(21), Co(22)>>
      inner == CASE place = 0 -> <<Loc(ns, es), Ret(vs)>>
                [] place = 1 -> <<SetN(vs, es), Ret(vs)>>
                [] place = 2 -> <<Ret(es)>>
                [] place = 3 -> <<Ret1(Call(Nm("h"), es))>>
                [] place = 4 -> <<Loc1("t", Tab([j \in DOMAIN es |-> <<es[j]>>])),
                                  Ret(<<Nm("t"), Ix(Nm("t"), Co(n))>>)>>
                [] place = 5 -> <<Loc(<<"x", "y">>, two),
                                  SetN([j \in 1..n |-> Pick(<<Nm("x"), Nm("y"), Nm("g")>>, j)], es),
                                  Ret(<<Nm("x"), Nm("y"), Nm("g")>>)>>
  IN  << LocFn("f", Fn(<<>>, <<Ret(<<Co(11), Co(12)>>)>>)),
         LocFn("h", <<"func", <<"p", "q">>, IF i % 2 = 0 THEN "arg" ELSE "none",
                      IF i % 2 = 0 THEN <<Ret(<<Nm("q"), Dot(Nm("arg"), "n")>>)>>
                                   ELSE <<Ret(<<Nm("p"), Nm("q")>>)>>>>),
         LocFn("k", <<"func", <<>>, "dots", inner>>),
         Ret1(Call(Nm("k"), IF i % 4 = 0 THEN <<>> ELSE two)) >>

(* Loops of each kind, left by a break or not, whose body captures a       *)
(* variable of the body, of the loop, of a block around it, or none.       *)
LoopProgram(i) ==
  LET kind == i % 4
      captured == Pick(<<"c", "v", "o", "">>, i \div 4)
      how == (i \div 16) % 3
      grow == Inc(Nm("n"), Co(1))
      keep == IF captured = "" THEN grow
              ELSE Set1(Ix(Nm("fs"), Nm("n")),
                        Fn(<<>>, <<Inc(Nm(captured), Co(1)), Ret1(Nm(captured))>>))
      stop == CASE how = 0 -> grow
                [] how = 1 -> If(Bin("==", Nm("n"), Co(2)), <<<<"break">>>>, <<grow>>)
                [] how = 2 -> <<"block", <<Loc1("d", Nm("n")),
                                If(Bin("==", Nm("d"), Co(2)),
                                   <<Set1(Nm("g"), Fn(<<>>, <<Ret1(Nm("d"))>>)), <<"break">>>>, <<>>),
                                grow>>>>
      b == <<Loc1("c", Bin("*", Nm("n"), Co(10)))>>
             \o (IF kind \in {0, 1} THEN <<Loc1("v", Nm("n"))>> ELSE <<>>) \o <<keep, stop>>
      loop == CASE kind = 0 -> <<"while", Bin("<", Nm("n"), Co(4)), b>>
                [] kind = 1 -> <<"repeat", b, Bin(">=", Nm("n"), Nm("v"))>>
                [] kind = 2 -> <<"fornum", "v",
                                 IF how = 0 THEN <<Co(5), Co(1), Un("-", Co(2))>>
                                            ELSE <<Co(1), Co(4)>>, b>>
                [] kind = 3 -> <<"forin", <<"v", "w">>,
                                 <<Fn(<<"s", "q">>, <<If(Bin("<", Nm("q"), Nm("s")),
                                     <<Ret(<<Bin("+", Nm("q"), Co(1)), Nm("s")>>)>>, <<>>)>>),
                                   Co(3), Co(0)>>, b>>
  IN  << Loc(<<"n", "o", "fs">>, <<Co(1), Co(50), Tab(<<>>)>>), loop,
         Loc(<<"r", "s">>, <<Co(0), Ix(Nm("fs"), Co(1))>>),
         If(Nm("s"), <<CallOf(Call(Nm("s"), <<>>)), Set1(Nm("r"), Call(Nm("s"), <<>>))>>, <<>>),
         If(Nm("g"), <<Set1(Nm("r"), Bin("+", Nm("r"), Call(Nm("g"), <<>>)))>>, <<>>),
         Ret(<<Nm("n"), Nm("o"), Nm("r"), Ix(Nm("fs"), Nm("n"))>>) >>

(* Scripts for what the families leave out.                                *)
Counter(n) == Fn(<<>>, <<Inc(Nm(n), Co(1)), Ret1(Nm(n))>>)
Special == <<
  \* recursion, and tail calls with fewer and with more arguments
  << LocFn("f", Fn(<<"x">>, <<If(Bin("==", Nm("x"), Co(0)), <<Ret1(Co(1))>>, <<>>),
       Ret1(Bin("*", Nm("x"), Call1("f", Bin("-", Nm("x"), Co(1)))))>>)),
     Ret1(Call1("f", Co(4))) >>,
  << LocFn("f", Fn(<<"n", "s", "z">>, <<If(Bin("<", Nm("n"), Co(1)), <<Ret(<<Nm("s"), Nm("z")>>)>>, <<>>),
       Ret1(Call(Nm("f"), <<Bin("-", Nm("n"), Co(1)), Bin("+", Nm("s"), Nm("n"))>>))>>)),
     Ret1(Call(Nm("f"), <<Co(4), Co(0), Co(9), Co(8)>>)) >>,
  << LocFn("h", <<"func", <<"p">>, "dots", <<Ret(<<Nm("p"), Dots>>)>>>>),
     LocFn("k", <<"func", <<>>, "dots", <<Ret1(Call(Nm("h"), <<Dots>>))>>>>),
     Ret1(Call(Nm("k"), <<Co(1), Co(2), Co(3)>>)) >>,
  \* assignments that read what they change
  << Loc(<<"i", "a">>, <<Co(1), Tab(<<>>)>>),
     SetN(<<Nm("i"), Ix(Nm("a"), Nm("i"))>>, <<Bin("+", Nm("i"), Co(1)), Co(20)>>),
     Ret(<<Nm("i"), Ix(Nm("a"), Co(1)), Ix(Nm("a"), Co(2))>>) >>,
  << Loc(<<"i", "a">>, <<Co(1), Tab(<<>>)>>), Loc1("b", Nm("a")),
     SetN(<<Ix(Nm("a"), Nm("i")), Nm("a"), Nm("i")>>, <<Co(20), Co(30), Co(40)>>),
     Ret(<<Nm("i"), Nm("a"), Ix(Nm("b"), Co(1))>>) >>,
  << Loc(<<"x", "y">>, <<Co(1), Co(2)>>), SetN(<<Nm("x"), Nm("y")>>, <<Nm("y"), Nm("x")>>),
     Ret(<<Nm("x"), Nm("y")>>) >>,
  \* methods and the paths of function names
  << Loc1("o", Tab(<<<<St("n"), Co(0)>>, <<St("m"), Tab(<<>>)>>>>)),
     <<"function", <<"o">>, "inc", Fn(<<"k">>, <<Inc(Dot(Nm("self"), "n"), Nm("k")), Ret1(Nm("self"))>>)>>,
     <<"function", <<"o", "m", "f">>, "", Fn(<<"k">>, <<Ret1(Bin("+", Nm("k"), Co(1)))>>)>>,
     CallOf(<<"method", Nm("o"), "inc", <<Co(2)>>>>),
     Ret(<<Dot(<<"method", Nm("o"), "inc", <<Co(3)>>>>, "n"), Call(Dot(Dot(Nm("o"), "m"), "f"), <<Co(7)>>)>>) >>,
  \* variables shared by closures, and passed on by functions in between
  << LocFn("make", Fn(<<>>, <<Loc1("n", Co(0)), Ret(<<Counter("n"), Counter("n")>>)>>)),
     Loc(<<"c", "d">>, <<Call(Nm("make"), <<>>)>>), Loc1("e", Call(Nm("make"), <<>>)),
     Ret(<<Call(Nm("c"), <<>>), Call(Nm("d"), <<>>), Call(Nm("e"), <<>>), Call(Nm("c"), <<>>)>>) >>,
  << Loc(<<"a", "b">>, <<Co(1), Co(2)>>),
     LocFn("f", Fn(<<"x">>, <<Ret1(Fn(<<"y">>, <<Ret1(Fn(<<>>,
       <<Inc(Nm("a"), Nm("x")), Inc(Nm("b"), Nm("y")), Ret(<<Nm("a"), Nm("b")>>)>>))>>))>>)),
     Loc1("g3", Call(Call1("f", Co(10)), <<Co(100)>>)), CallOf(Call(Nm("g3"), <<>>)),
     Ret(<<Nm("a"), Call(Nm("g3"), <<>>)>>) >>,
  << <<"block", <<Loc1("n", Co(5)), Set1(Nm("g"), Counter("n"))>>>>, Loc1("m", Co(100)),
     CallOf(Call(Nm("g"), <<>>)), Ret(<<Nm("m"), Call(Nm("g"), <<>>)>>) >>,
  \* table constructors of more items than one batch
  << LocFn("f", Fn(<<>>, <<Ret(<<Co(11), Co(12)>>)>>)),
     Ret1(Tab(<<<<Co(1)>>, <<St("x"), Co(6)>>, <<Co(2)>>, <<Co(3)>>, <<Tab(<<<<Co(1)>>>>)>>,
                <<Call(Nm("f"), <<>>)>>, <<Call(Nm("f"), <<>>)>>>>)) >>,
  << LocFn("f", <<"func", <<>>, "dots", <<Ret1(Tab(<<<<Co(1)>>, <<Co(2)>>, <<Dots>>>>))>>>>),
     Ret1(Call(Nm("f"), <<Co(3), Co(4), Co(5)>>)) >>,
  \* clauses, nested loops, conditions
  << LocFn("f", Fn(<<"x">>, <<<<"if", <<<<Bin("<", Nm("x"), Co(1)), <<Ret1(Co(10))>>>>,
       <<Bin("==", Nm("x"), Co(1)), <<Ret1(Co(20))>>>>, <<Bin("==", Nm("x"), Co(2)), <<Set1(Nm("x"), Co(30))>>>>>>,
       <<Set1(Nm("x"), Co(40))>>>>, Ret1(Nm("x"))>>)),
     Ret(<<Call1("f", Co(0)), Call1("f", Co(1)), Call1("f", Co(2)), Call1("f", Co(3))>>) >>,
  << Loc1("n", Co(0)),
     <<"fornum", "i", <<Co(1), Co(3)>>, <<<<"fornum", "j", <<Co(1), Co(3)>>,
       <<If(Bin("==", Nm("j"), Nm("i")), <<<<"break">>>>, <<>>), Inc(Nm("n"), Nm("j"))>>>>>>>>,
     Ret1(Nm("n")) >>,
  << Loc1("n", Co(0)),
     <<"while", TrueE, <<Inc(Nm("n"), Co(1)), If(Bin("and", Bin(">", Nm("n"), Co(2)), Un("not", Nm("g"))),
       <<<<"break">>>>, <<>>)>>>>, Ret1(Nm("n")) >>,
  << Loc1("n", Co(0)),
     <<"repeat", <<Loc1("z", Nm("n")), Inc(Nm("n"), Co(1)), Set1(Nm("g"), Counter("z"))>>,
       Bin("or", Bin(">", Nm("z"), Co(1)), Bin("==", Nm("z"), Co(5)))>>,
     Ret(<<Nm("n"), Call(Nm("g"), <<>>)>>) >>,
  << <<"fornum", "i", <<Co(2), Co(1)>>, <<Set1(Nm("g"), Co(1))>>>>,
     <<"fornum", "i", <<Co(1), Co(2)>>, <<Inc(Nm("i"), Co(5)), Set1(Nm("g"), Nm("i"))>>>>, Ret1(Nm("g")) >>,
  << LocFn("range", Fn(<<"n">>, <<Loc1("i", Co(0)), Ret1(Fn(<<>>,
       <<Inc(Nm("i"), Co(1)), If(Bin("<=", Nm("i"), Nm("n")), <<Ret1(Nm("i"))>>, <<>>)>>))>>)),
     Loc1("s", Co(0)), <<"forin", <<"k">>, <<Call1("range", Co(3))>>, <<Inc(Nm("s"), Nm("k"))>>>>,
     Ret1(Nm("s")) >>,
  \* comparisons as values and as keys, concatenation
  << Loc(<<"a", "b", "t">>, <<Co(1), Co(2), Tab(<<>>)>>),
     Set1(Ix(Nm("t"), Bin("<", Nm("a"), Nm("b"))), Bin("==", Nm("a"), Nm("b"))),
     Set1(Dot(Nm("t"), "y"), Un("not", Bin("<=", Nm("b"), Nm("a")))),
     Ret(<<Nm("t"), Bin("and", Bin("..", Nm("a"), Bin("..", St("x"), Nm("b"))), Dot(Nm("t"), "y"))>>) >>,
  << Ret(<<Bin("-", Co(2), Bin("%", Bin("*", Co(3), Co(4)), Co(5))), Un("-", Bin("+", Co(2), Co(3))),
           Bin("%", Co(7), Un("-", Co(3))), Bin("%", Un("-", Co(7)), Co(3)), Un("not", Un("-", Co(1))),
           Un("#", St("abc")), Bin("%", Co(1), Co(0))>>) >>,
  \* variables that begin as nil in registers used before
  << <<"block", <<Loc(<<"a", "b">>, <<Co(1), Co(2)>>)>>>>, Loc(<<"c", "d">>, <<>>), Ret(<<Nm("c"), Nm("d")>>) >>,
  << <<"fornum", "i", <<Co(1), Co(2)>>, <<Loc(<<"u", "w">>, <<>>), Set1(Nm("g"), Nm("u")), SetN(<<Nm("u"), Nm("w")>>, <<Nm("i"), Nm("i")>>)>>>>,
     Ret1(Nm("g")) >>,
  << LocFn("f", Fn(<<"x">>, <<Set1(Nm("g"), Nm("x")), Set1(Nm("x"), NilE), Ret1(Nm("x"))>>)), Ret1(Call1("f", Co(3))) >>,
  << Loc1("a", Dots), Set1(Nm("g"), NilE), Ret(<<Nm("a"), Dots, Nm("g")>>) >>,
  << <<"block", <<Loc(<<"y", "z">>, <<Co(7), Co(8)>>)>>>>, If(Nm("g"), <<Loc(<<"p", "q">>, <<>>)>>, <<>>),
     Loc(<<"c", "d">>, <<>>), Ret(<<Nm("c"), Nm("d")>>) >>,
  << Loc1("t", Tab(<<>>)), Set1(Dot(Nm("t"), "x"), FalseE),
     Ret(<<Nm("t"), Bin("==", Dot(Nm("t"), "x"), FalseE), Bin("==", NilE, Dot(Nm("t"), "y"))>>) >>,
  << LocFn("keep", Fn(<<"x">>, <<Ret1(Fn(<<>>, <<Ret1(Nm("x"))>>))>>)), LocFn("id", Fn(<<"x">>, <<Ret1(Nm("x"))>>)),
     Loc1("c", Call1("keep", Co(3))),
     Ret1(Bin("+", Call1("id", Call1("id", Call1("id", Co(5)))), Call(Nm("c"), <<>>))) >>,
  \* scripts that fail
  << CallOf(Call(Nm("g"), <<Co(1)>>)) >>,
  << Set1(Dot(Nm("g"), "x"), Co(1)) >>,
  << Loc1("a", Co(1)), Ret1(Dot(Nm("a"), "x")) >>,
  << Ret1(Bin("<", Co(1), St("a"))) >>,
  << Ret1(Bin("..", Co(1), TrueE)) >>,
  << <<"fornum", "i", <<Co(1), St("x")>>, <<>>>> >>,
  << Loc1("t", Tab(<<>>)), Set1(Ix(Nm("t"), Dot(Nm("t"), "x")), Co(1)) >>,
  << LocFn("f", Fn(<<"x">>, <<Ret1(Call(Nm("x"), <<>>))>>)), Ret1(Call1("f", Co(1))) >>
>>

(* Scripts that do not do what they say: a logical operator on the         *)
(* constant that ends another one, nil given to a parameter by the first   *)
(* statement, and a number before an operand that needs a register when    *)
(* the constants are more than an instruction can name.                    *)
WrongPrograms == <<
  << Ret1(Bin("or", Bin("and", Bin("or", Co(1), FalseE), TrueE), FalseE)) >>,
  << LocFn("f", Fn(<<"x">>, <<Set1(Nm("x"), NilE), Ret1(Nm("x"))>>)), Ret1(Call1("f", Co(3))) >>,
  << Loc1("t", Tab(<<<<St("i")>>, <<St("j")>>, <<St("k")>>, <<St("x"), Co(4)>>>>)),
     Ret1(Bin(">", Co(7), Dot(Nm("t"), "x"))) >> >>
(* Scripts whose bytecode is refused: a unary minus on each such constant. *)
MinusPrograms == << <<Ret1(Un("-", NilE))>>, <<Ret1(Un("-", TrueE))>>, <<Ret1(Un("-", FalseE))>> >>
Listed == Special \o WrongPrograms \o MinusPrograms

MCPrograms ==
  [i \in 1..(9478 + Len(Listed)) |->
     CASE i <= 8192 -> LogicProgram(i - 1)
       [] i \in 8193..9160 -> ArithProgram(i - 8193)
       [] i \in 9161..9430 -> ListProgram(i - 9161)
       [] i \in 9431..9478 -> LoopProgram(i - 9431)
       [] i > 9478 -> Listed[i - 9478]]

(* What is known to be wrong with them, by their numbers in MCPrograms.     *)
MCFaults ==
  LET wrong(i) == 9478 + Len(Special) + i
  IN  {<<wrong(1), "meaning">>, <<wrong(2), "meaning">>, <<wrong(3), "meaning">>,
       <<wrong(3), "order">>}
        \cup {<<wrong(Len(WrongPrograms) + i), "check">> : i \in DOMAIN MinusPrograms}

(* The second one alone, not taken for an exception.                       *)
NilProgram == <<WrongPrograms[2]>>
OneWorld == {[space |-> 1000, host |-> "here"]}
MCWorlds == {[space |-> 1000, host |-> "here"], [space |-> 20, host |-> "here"],
             [space |-> 0, host |-> "here"], [space |-> 1000, host |-> "there"]}
=============================================================================
