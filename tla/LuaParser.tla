----------------------------- MODULE LuaParser -----------------------------
(***************************************************************************)
(* The one-pass compiler: lua-5.1/lparser.c.                               *)
(*                                                                         *)
(* The source is a sequence of tokens [k, v] that ends with "eos"; k is    *)
(* "name", "number", "string" or the token itself.  The state of the       *)
(* parser, ls, is [t, p, F, err]: the tokens, the position of the current  *)
(* one, the chain of FuncStates with the current function last, and        *)
(* whether a syntax error was raised: the longjmp then leaves the rest     *)
(* unread.  A nonterminal that leaves an expression returns [ls, e].       *)
(* The limits on nesting, variables and items are left out.                *)
(***************************************************************************)
EXTENDS LuaCode

Token(k, v) == [k |-> k, v |-> v]
Tok(ls) == ls.t[ls.p].k
luaX_next(ls) == IF Tok(ls) = "eos" THEN ls ELSE [ls EXCEPT !.p = @ + 1]
luaX_syntaxerror(ls) == [ls EXCEPT !.p = Len(ls.t), !.err = TRUE]
checknext(ls, c) == IF Tok(ls) = c THEN luaX_next(ls) ELSE luaX_syntaxerror(ls)
Skip(ls, c) == IF Tok(ls) = c THEN luaX_next(ls) ELSE ls  \* testnext
LE(ls, e) == [ls |-> ls, e |-> e]  \* called x below
Fs(ls) == Last(ls.F)
With(ls, fs) == [ls EXCEPT !.F[Len(ls.F)] = fs]
Do(ls, r) == LE(With(ls, r.fs), r.e)

\* What calls itself in the end, by name: the nonterminals, of which x is the
\* limit of subexpr, and the routines of the code generator on an expression.
RECURSIVE Rule(_, _, _)
NextReg(x) == Rule("exp2nextreg", x.ls, x.e)
AnyReg(x) == Rule("exp2anyreg", x.ls, x.e)
RKOperand(x) == Rule("exp2RK", x.ls, x.e)
StoreVar(ls, var, e) == Rule("storevar", ls, <<var, e>>).ls
VOID == init_exp("VVOID", 0)
hasmultret(k) == k \in {"VCALL", "VVARARG"}
block_follow == {"else", "elseif", "end", "until", "eos"}

\* open_func: the FuncState of a function that is to be compiled.
NewFs ==
  [code |-> <<>>, lasttarget |-> -1, jpc |-> NO_JUMP, freereg |-> 0, k |-> <<>>,
   p |-> <<>>, names |-> <<>>, nactvar |-> 0, bl |-> <<>>, ups |-> <<>>,
   maxstack |-> 2, numparams |-> 0, vararg |-> {}, ok |-> TRUE]
MainFs == [NewFs EXCEPT !.vararg = {"is"}]
-----------------------------------------------------------------------------
(* Variables and blocks. *)

new_localvar(ls, name, n) ==
  LET fs == Fs(ls)
  IN  With(ls, [fs EXCEPT !.names = Append(SubSeq(@, 1, fs.nactvar + n), name)])
adjustlocalvars(ls, n) == With(ls, [Fs(ls) EXCEPT !.nactvar = @ + n])

searchvar(fs, n) ==
  LET I == {i \in 1..fs.nactvar : fs.names[i] = n}
  IN  IF I = {} THEN -1 ELSE (CHOOSE i \in I : \A j \in I : j <= i) - 1

markupval(fs, level) ==
  LET I == {i \in DOMAIN fs.bl : fs.bl[i].nactvar <= level}
      i == CHOOSE i \in I : \A j \in I : j <= i
  IN  IF I = {} THEN fs ELSE [fs EXCEPT !.bl[i].upval = TRUE]

indexupvalue(fs, v) ==
  LET u == [k |-> v.k, info |-> v.info]
      I == {i \in DOMAIN fs.ups : fs.ups[i] = u}
  IN  IF I # {} THEN R(fs, (CHOOSE i \in I : TRUE) - 1)
      ELSE R([fs EXCEPT !.ups = Append(@, u)], Len(fs.ups))

\* singlevaraux: a local of this function, an upvalue that the enclosing ones
\* pass on, or a global.
RECURSIVE singlevaraux(_, _, _)
singlevaraux(F, n, base) ==
  IF F = <<>> THEN [F |-> F, e |-> init_exp("VGLOBAL", NO_REG)]
  ELSE LET fs == Last(F)
           v == searchvar(fs, n)
           r == singlevaraux(Front(F), n, FALSE)
           u == indexupvalue(fs, r.e)
       IN  IF v >= 0
           THEN [F |-> Append(Front(F), IF base THEN fs ELSE markupval(fs, v)),
                 e |-> init_exp("VLOCAL", v)]
           ELSE IF r.e.k = "VGLOBAL" THEN [F |-> F, e |-> r.e]
           ELSE [F |-> Append(r.F, u.fs), e |-> init_exp("VUPVAL", u.e)]

codestring(ls, s) ==
  LET Known(r) == LE(With(ls, r.fs), init_exp("VK", r.e))
  IN  Known(addk(Fs(ls), <<"str", s>>))

\* str_checkname and checkname.
Name(ls) == ls.t[ls.p].v
String(ls) ==
  LET Read(r) == LE(luaX_next(r.ls), r.e) IN Read(codestring(ls, Name(ls)))
checkname(ls) ==
  IF Tok(ls) # "name" THEN LE(luaX_syntaxerror(ls), VOID) ELSE String(ls)

singlevar(ls) ==
  LET Global(k, e) == LE(luaX_next(k.ls), [e EXCEPT !.info = k.e.info])
      Found(r) == IF r.e.k = "VGLOBAL"
                  THEN Global(codestring([ls EXCEPT !.F = r.F], Name(ls)), r.e)
                  ELSE LE(luaX_next([ls EXCEPT !.F = r.F]), r.e)
  IN  Found(singlevaraux(ls.F, Name(ls), TRUE))

NilsInto(ls, fs, n) ==
  IF n > 0 THEN With(ls, luaK_nil(luaK_reserveregs(fs, n), fs.freereg, n)) ELSE ls

\* Slip: a call that gives all values missing does not reserve their registers.
SlipAdjustAssign(ls, nvars, nexps, e) ==
  LET extra == nvars - nexps
      more == IF extra + 1 < 0 THEN 0 ELSE extra + 1
      Filled(s) == NilsInto(s, Fs(s), extra)
  IN  IF hasmultret(e.k) THEN With(ls, luaK_setreturns(Fs(ls), e, more))
      ELSE Filled(IF e.k = "VVOID" THEN ls ELSE NextReg(LE(ls, e)).ls)

adjust_assign(ls, nvars, nexps, e) ==
  LET extra == nvars - nexps
      more == IF extra + 1 < 0 THEN 0 ELSE extra + 1
      Filled(s) == NilsInto(s, Fs(s), extra)
      Open(fs) == IF more > 1 THEN luaK_reserveregs(fs, more - 1) ELSE fs
  IN  IF hasmultret(e.k) THEN With(ls, Open(luaK_setreturns(Fs(ls), e, more)))
      ELSE Filled(IF e.k = "VVOID" THEN ls ELSE NextReg(LE(ls, e)).ls)

enterblock(ls, breakable) ==
  LET fs == Fs(ls)
  IN  With(ls, [fs EXCEPT
        !.bl = Append(@, [breaklist |-> NO_JUMP, nactvar |-> fs.nactvar,
                          upval |-> FALSE, breakable |-> breakable]),
        !.ok = @ /\ fs.freereg = fs.nactvar])

leaveblock(ls) ==
  LET b == Last(Fs(ls).bl)
      s == [Fs(ls) EXCEPT !.bl = Front(@), !.nactvar = b.nactvar]
      Left(c) == luaK_patchtohere(
                   [c EXCEPT !.freereg = c.nactvar,
                             !.ok = @ /\ ~(b.breakable /\ b.upval)], b.breaklist)
  IN  With(ls, Left(IF b.upval THEN luaK_codeABC(s, "CLOSE", b.nactvar, 0, 0) ELSE s))

\* close_func: the prototype of the function.
Proto(fs) ==
  LET Closed(s) ==
        [code |-> s.code, k |-> s.k, p |-> s.p, nups |-> Len(s.ups),
         numparams |-> s.numparams, vararg |-> s.vararg, maxstack |-> s.maxstack,
         ok |-> s.ok /\ \A i \in DOMAIN s.p : s.p[i].ok]
  IN  Closed(luaK_ret(fs, 0, 0))
close_func(ls) == [ls EXCEPT !.F = Front(@)]

pushclosure(ls, func) ==
  LET fs == [Fs(ls) EXCEPT !.p = Append(@, Proto(func))]
      Capture(x, u) == luaK_codeABC(x, IF u.k = "VLOCAL" THEN "MOVE" ELSE "GETUPVAL",
                                    0, u.info, 0)
      Captured(c) == LE(With(ls, FoldLeft(Capture, c.fs, func.ups)), c.e)
  IN  Captured(Reloc(fs, init_exp("VRELOCABLE", 0), Ins("CLOSURE", 0, Len(fs.p) - 1, 0)))
-----------------------------------------------------------------------------
(* Expressions. *)

getunopr == {"not", "-", "#"}
left == [x \in {"+", "-", "*", "%", "..", "~=", "==", "<", "<=", ">", ">=",
                "and", "or"} |->
           CASE x \in {"+", "-"} -> 6 [] x \in {"*", "%"} -> 7 [] x = ".." -> 5
             [] x = "and" -> 2 [] x = "or" -> 1 [] OTHER -> 3]
right == [left EXCEPT ![".."] = 4]
getbinopr == DOMAIN left
UNARY_PRIORITY == 8

subexpr(ls, limit) == Rule("subexpr", ls, limit)
expr(ls) == subexpr(ls, 0)
primaryexp(ls) == Rule("primaryexp", ls, 0)
constructor(ls) == Rule("constructor", ls, 0)
body(ls, needself) == Rule("body", ls, needself)
explist1(ls) == Rule("explist1", ls, 0)
chunk(ls) == Rule("chunk", ls, 0)
block(ls) == Rule("block", ls, 0)

Indexed(t, k) == Rule("indexed", k.ls, <<t.e, k.e>>)
field(x) ==
  LET Key(t) == Indexed(t, checkname(luaX_next(t.ls))) IN Key(AnyReg(x))
yindex(ls) ==
  LET Closed(v) == LE(checknext(v.ls, "]"), v.e)
      Val(v) == Rule("exp2val", v.ls, v.e)
  IN  Closed(Val(expr(luaX_next(ls))))

\* recfield, with the table in the register of t: the key and the value become
\* operands, the key once more after the value.
recfield(ls, t) ==
  LET reg == Fs(ls).freereg
      Set(s, k, v) == [luaK_codeABC(s, "SETTABLE", t.info, k, v) EXCEPT !.freereg = reg]
      Code(k, v) == With(v.ls, Set(Fs(v.ls), RK(k.e), RK(v.e)))
      Again(k, e) == Code(k, RKOperand(LE(k.ls, e)))
      Both(k, v) == Again(RKOperand(LE(v.ls, k.e)), v.e)
      Value(k) == Both(k, expr(k.ls))
      Key(k) == Value(RKOperand(LE(checknext(k.ls, "="), k.e)))
  IN  Key(IF Tok(ls) = "name" THEN checkname(ls) ELSE yindex(ls))

\* The loop of constructor; cc is [v, na, nh, tostore].
closelistfield(ls, t, cc) ==
  LET full == cc.tostore = LFIELDS_PER_FLUSH
      Flushed(s) == IF full THEN With(s, luaK_setlist(Fs(s), t.info, cc.na, cc.tostore))
                    ELSE s
  IN  IF cc.v.k = "VVOID" THEN [ls |-> ls, cc |-> cc]
      ELSE [ls |-> Flushed(NextReg(LE(ls, cc.v)).ls),
            cc |-> [cc EXCEPT !.v = VOID, !.tostore = IF full THEN 0 ELSE @]]

lastlistfield(ls, t, cc) ==
  LET mult == hasmultret(cc.v.k)
      Flushed(s) == With(s, luaK_setlist(Fs(s), t.info, cc.na,
                                         IF mult THEN LUA_MULTRET ELSE cc.tostore))
  IN  IF cc.tostore = 0 THEN ls
      ELSE Flushed(IF mult THEN With(ls, luaK_setreturns(Fs(ls), cc.v, LUA_MULTRET))
                   ELSE IF cc.v.k = "VVOID" THEN ls ELSE NextReg(LE(ls, cc.v)).ls)

RECURSIVE Items(_, _, _)
Items(ls0, t, cc0) ==
  LET Listed(v, cc) ==
        [ls |-> v.ls,
         cc |-> [cc EXCEPT !.v = v.e, !.na = @ + 1, !.tostore = @ + 1]]
      IsRec(ls) == Tok(ls) = "[" \/ (Tok(ls) = "name" /\ ls.t[ls.p + 1].k = "=")
      Item(c) == IF IsRec(c.ls)
                 THEN [ls |-> recfield(c.ls, t), cc |-> [c.cc EXCEPT !.nh = @ + 1]]
                 ELSE Listed(expr(c.ls), c.cc)
      More(i) == IF Tok(i.ls) \in {",", ";"} THEN Items(luaX_next(i.ls), t, i.cc)
                 ELSE i
  IN  IF Tok(ls0) = "}" THEN [ls |-> ls0, cc |-> cc0]
      ELSE More(Item(closelistfield(ls0, t, cc0)))

Constructor(ls0) ==
  LET pc == Pc(Fs(ls0))
      new == luaK_codeABC(Fs(ls0), "NEWTABLE", 0, 0, 0)
      Sized(ls, cc) == With(ls, [Fs(ls) EXCEPT !.code[pc + 1].b = cc.na,
                                               !.code[pc + 1].c = cc.nh])
      Closed(r, t) == LE(Sized(lastlistfield(checknext(r.ls, "}"), t, r.cc), r.cc), t)
      Filled(t) == Closed(Items(checknext(t.ls, "{"), t.e,
                                [v |-> VOID, na |-> 0, nh |-> 0, tostore |-> 0]), t.e)
  IN  Filled(NextReg(LE(With(ls0, new), init_exp("VRELOCABLE", pc))))

RECURSIVE parlist(_, _)
parlist(ls, n) ==
  CASE Tok(ls) = "name" ->
         LET s == luaX_next(new_localvar(ls, Name(ls), n))
         IN  IF Tok(s) = "," THEN parlist(luaX_next(s), n + 1) ELSE [ls |-> s, n |-> n + 1]
    [] Tok(ls) = "..." ->
         LET s == new_localvar(luaX_next(ls), "arg", n)
         IN  [ls |-> With(s, [Fs(s) EXCEPT !.vararg = {"is", "has", "needs"}]),
              n |-> n + 1]
    [] OTHER -> [ls |-> IF n = 0 THEN ls ELSE luaX_syntaxerror(ls), n |-> n]

\* Body: a new FuncState, whose prototype the enclosing function gets.
Body(ls0, needself) ==
  LET o == checknext([ls0 EXCEPT !.F = Append(@, NewFs)], "(")
      self == adjustlocalvars(new_localvar(o, "self", 0), 1)
      Params(ls, fs) ==
        With(ls, luaK_reserveregs(
                   [fs EXCEPT !.numparams = fs.nactvar - (IF "has" \in fs.vararg THEN 1
                                                          ELSE 0)], fs.nactvar))
      Named(r) == Params(r.ls, Fs(adjustlocalvars(r.ls, r.n)))
      Closed(ls) == pushclosure(close_func(ls), Fs(ls))
      params == Named(parlist(IF needself THEN self ELSE o, 0))
  IN  Closed(checknext(chunk(checknext(params, ")")), "end"))

Explist1(ls) ==
  LET More(v) == IF Tok(v.ls) = ","
                 THEN [explist1(luaX_next(NextReg(v).ls)) EXCEPT !.n = @ + 1]
                 ELSE [ls |-> v.ls, e |-> v.e, n |-> 1]
  IN  More(expr(ls))

\* funcargs: x is the function, in the register base.
funcargs(x) ==
  LET ls == x.ls
      base == x.e.info
      inner == luaX_next(ls)
      List(l) == LE(checknext(With(l.ls, luaK_setreturns(Fs(l.ls), l.e, LUA_MULTRET)),
                              ")"), l.e)
      args == CASE Tok(ls) = "(" /\ Tok(inner) = ")" -> LE(luaX_next(inner), VOID)
                [] Tok(ls) = "(" /\ Tok(inner) # ")" -> List(explist1(inner))
                [] Tok(ls) = "{" -> constructor(ls)
                [] Tok(ls) = "string" -> String(ls)
                [] OTHER -> LE(luaX_syntaxerror(ls), VOID)
      Code(s, n) == LE(With(s, [luaK_codeABC(Fs(s), "CALL", base, n + 1, 2)
                                  EXCEPT !.freereg = base + 1]),
                       init_exp("VCALL", Pc(Fs(s))))
      Fixed(s) == Code(s, Fs(s).freereg - (base + 1))
      Passed(a) == IF hasmultret(a.e.k) THEN Code(a.ls, LUA_MULTRET)
                   ELSE Fixed(IF a.e.k = "VVOID" THEN a.ls ELSE NextReg(a).ls)
  IN  Passed(args)

prefixexp(ls) ==
  LET Discharged(s, e) == Rule("dischargevars", s, e)
      Closed(v) == Discharged(checknext(v.ls, ")"), v.e)
  IN  CASE Tok(ls) = "(" -> Closed(expr(luaX_next(ls)))
        [] Tok(ls) = "name" -> singlevar(ls)
        [] OTHER -> LE(luaX_syntaxerror(ls), VOID)

RECURSIVE PrimaryRest(_)
PrimaryRest(x) ==
  LET Bracket(t) == Indexed(t, yindex(t.ls))
      Method(key) == Rule("self", key.ls, <<x.e, key.e>>)
      next == CASE Tok(x.ls) = "." -> field(x)
                [] Tok(x.ls) = "[" -> Bracket(AnyReg(x))
                [] OTHER -> funcargs(IF Tok(x.ls) = ":"
                                     THEN Method(checkname(luaX_next(x.ls)))
                                     ELSE NextReg(x))
  IN  IF Tok(x.ls) \in {".", "[", ":", "(", "string", "{"} THEN PrimaryRest(next)
      ELSE x

Literal == [nil |-> "VNIL", true |-> "VTRUE", false |-> "VFALSE"]
simpleexp(ls) ==
  LET fs == Fs(ls)
      va == luaK_codeABC([fs EXCEPT !.vararg = @ \ {"needs"}], "VARARG", 0, 1, 0)
  IN  CASE Tok(ls) = "number" -> LE(luaX_next(ls), init_exp("VKNUM", Name(ls)))
        [] Tok(ls) = "string" -> String(ls)
        [] Tok(ls) \in DOMAIN Literal ->
             LE(luaX_next(ls), init_exp(Literal[Tok(ls)], 0))
        [] Tok(ls) = "..." ->
             IF fs.vararg = {} THEN LE(luaX_syntaxerror(ls), VOID)
             ELSE LE(luaX_next(With(ls, va)), init_exp("VVARARG", Pc(fs)))
        [] Tok(ls) = "{" -> constructor(ls)
        [] Tok(ls) = "function" -> body(luaX_next(ls), FALSE)
        [] OTHER -> primaryexp(ls)

\* The operators that bind more tightly than limit, one after the other.
RECURSIVE Operators(_, _)
Operators(x, limit) ==
  LET op == Tok(x.ls)
      Code(v, v2) == Rule("posfix", v2.ls, <<op, v.e, v2.e>>)
      Second(v) == Code(v, subexpr(v.ls, right[op]))
      first == Rule("infix", luaX_next(x.ls), <<op, x.e>>)
  IN  IF op \in getbinopr /\ left[op] > limit THEN Operators(Second(first), limit)
      ELSE x
Subexpr(ls, limit) ==
  LET Unary(u) == Rule("prefix", u.ls, <<Tok(ls), u.e>>)
  IN  Operators(IF Tok(ls) \in getunopr
                THEN Unary(subexpr(luaX_next(ls), UNARY_PRIORITY))
                ELSE simpleexp(ls), limit)
-----------------------------------------------------------------------------
(* Statements. *)

Block(ls) == leaveblock(chunk(enterblock(ls, FALSE)))

\* cond: the list of jumps to take when the condition is false is e.
cond(ls) ==
  LET False(e) == IF e.k = "VNIL" THEN [e EXCEPT !.k = "VFALSE"] ELSE e
      Exit(x) == LE(x.ls, x.e.f)
      Test(v) == Exit(Rule("goiftrue", v.ls, False(v.e)))
  IN  Test(expr(ls))

\* The jump of the last instruction joins the list, which is in e.
JumpTo(ls, list) ==
  LET Join(s) == Do(ls, luaK_concat(s, list, Pc(s) - 1)) IN Join(luaK_jump(Fs(ls)))
PatchHere(ls, list) == With(ls, luaK_patchtohere(Fs(ls), list))
JumpBack(ls, target) ==
  LET Back(s) == With(ls, luaK_patchlist(s, Pc(s) - 1, target)) IN Back(luaK_jump(Fs(ls)))

breakstat(ls) ==
  LET fs == Fs(ls)
      L == {i \in DOMAIN fs.bl : fs.bl[i].breakable}
      i == CHOOSE i \in L : \A j \in L : j <= i
      Listed(r, n) == With(r.ls, [Fs(r.ls) EXCEPT !.bl[n].breaklist = r.e])
      Jump(n) ==
        LET upval == \E j \in (n + 1)..Len(fs.bl) : fs.bl[j].upval
            s == IF upval THEN luaK_codeABC(fs, "CLOSE", fs.bl[n].nactvar, 0, 0) ELSE fs
        IN  Listed(JumpTo(With(ls, s), fs.bl[n].breaklist), n)
  IN  IF L = {} THEN luaX_syntaxerror(ls) ELSE Jump(i)

whilestat(ls) ==
  LET s == With(ls, luaK_getlabel(Fs(ls)))
      Inside(x) == block(checknext(enterblock(x, TRUE), "do"))
      Loop(c) ==
        PatchHere(leaveblock(checknext(JumpBack(Inside(c.ls), Pc(Fs(s))), "end")), c.e)
  IN  Loop(cond(luaX_next(s)))

repeatstat(ls) ==
  LET s == With(ls, luaK_getlabel(Fs(ls)))
      init == Pc(Fs(s))
      Plain(x, exit) == With(x, luaK_patchlist(Fs(x), exit, init))
      Closing(c) == JumpBack(leaveblock(PatchHere(breakstat(c.ls), c.e)), init)
      Until(c) == leaveblock(IF ~Last(Fs(c.ls).bl).upval THEN Plain(leaveblock(c.ls), c.e)
                             ELSE Closing(c))
      both == enterblock(enterblock(s, TRUE), FALSE)
  IN  Until(cond(checknext(chunk(luaX_next(both)), "until")))

exp1(ls) == NextReg(expr(ls)).ls

\* forbody, for the loop over numbers (isnum) or the generic one.
forbody(ls, base, nvars, isnum) ==
  LET Prepared(s) == With(s, IF isnum THEN luaK_codeABx(Fs(s), "FORPREP", base, NO_JUMP)
                             ELSE luaK_jump(Fs(s)))
      Variables(s) == With(s, luaK_reserveregs(Fs(s), nvars))
      Inside(p) ==
        leaveblock(block(Variables(adjustlocalvars(enterblock(p, FALSE), nvars))))
      Numeric(e, loop, prep) == With(e, luaK_patchlist(loop, Pc(loop) - 1, prep + 1))
      End(e, prep) ==
        IF isnum THEN Numeric(e, luaK_codeABx(Fs(e), "FORLOOP", base, NO_JUMP), prep)
        ELSE JumpBack(With(e, luaK_codeABC(Fs(e), "TFORLOOP", base, 0, nvars)), prep + 1)
      Loop(s) == End(PatchHere(Inside(Prepared(s)), Pc(Fs(s))), Pc(Fs(s)))
  IN  Loop(checknext(adjustlocalvars(ls, 3), "do"))

Control(ls) ==
  new_localvar(new_localvar(new_localvar(ls, "(for 1)", 0), "(for 2)", 1),
               "(for 3)", 2)

fornum(ls, var) ==
  LET base == Fs(ls).freereg
      One(l, k) == With(l, luaK_reserveregs(
                             luaK_codeABx(k.fs, "LOADK", k.fs.freereg, k.e), 1))
      Step(l) == IF Tok(l) = "," THEN exp1(luaX_next(l)) ELSE One(l, addk(Fs(l), Num(1)))
      start == checknext(new_localvar(Control(ls), var, 3), "=")
  IN  forbody(Step(exp1(checknext(exp1(start), ","))), base, 1, TRUE)

RECURSIVE Names(_, _)
Names(ls, n) ==
  IF Tok(ls) # "," THEN [ls |-> ls, n |-> n]
  ELSE LET s == luaX_next(ls)
       IN  Names(luaX_next(new_localvar(s, Name(s), n)), n + 1)

forlist(ls, var) ==
  LET base == Fs(ls).freereg
      Space(s) == With(s, luaK_checkstack(Fs(s), 3))
      Explist(x) == Space(adjust_assign(x.ls, 3, x.n, x.e))
      In(v) == forbody(Explist(explist1(checknext(v.ls, "in"))), base, v.n - 3, FALSE)
  IN  In(Names(new_localvar(Control(ls), var, 3), 4))

forstat(ls) ==
  LET s == luaX_next(enterblock(ls, TRUE))
      n == luaX_next(s)
  IN  leaveblock(checknext(CASE Tok(n) = "=" -> fornum(n, Name(s))
                             [] Tok(n) \in {",", "in"} -> forlist(n, Name(s))
                             [] OTHER -> luaX_syntaxerror(n), "end"))

test_then_block(ls) ==
  LET Then(c) == LE(block(checknext(c.ls, "then")), c.e) IN Then(cond(luaX_next(ls)))

\* The clauses after the first; escape is the list of jumps out.
RECURSIVE Clauses(_, _)
Clauses(x, escape) ==
  LET ls == x.ls
      Elseif(j) == Clauses(test_then_block(PatchHere(j.ls, x.e)), j.e)
      Else(j) == PatchHere(block(luaX_next(PatchHere(j.ls, x.e))), j.e)
      NoElse(r) == PatchHere(With(ls, r.fs), r.e)
  IN  CASE Tok(ls) = "elseif" -> Elseif(JumpTo(ls, escape))
        [] Tok(ls) = "else" -> Else(JumpTo(ls, escape))
        [] OTHER -> NoElse(luaK_concat(Fs(ls), escape, x.e))
ifstat(ls) == checknext(Clauses(test_then_block(ls), NO_JUMP), "end")

localfunc(ls) ==
  LET s == luaX_next(new_localvar(ls, Name(ls), 0))
      v == init_exp("VLOCAL", Fs(s).freereg)
      Store(b) == StoreVar(b.ls, v, b.e)
  IN  Store(body(adjustlocalvars(With(s, luaK_reserveregs(Fs(s), 1)), 1), FALSE))

localstat(ls) ==
  LET Given(x, n) == adjust_assign(x.ls, n, x.n, x.e)
      Attribs(v) ==
        adjustlocalvars(Given(IF Tok(v.ls) = "=" THEN explist1(luaX_next(v.ls))
                                ELSE [ls |-> v.ls, e |-> VOID, n |-> 0], v.n), v.n)
  IN  Attribs(Names(luaX_next(new_localvar(ls, Name(ls), 0)), 1))

RECURSIVE Fields(_)
Fields(x) == IF Tok(x.ls) # "." THEN x ELSE Fields(field(x))
funcstat(ls) ==
  LET Store(v, b) == StoreVar(b.ls, v, b.e)
      Func(v, needself) == Store(v.e, body(v.ls, needself))
      Named(x) == Func(IF Tok(x.ls) = ":" THEN field(x) ELSE x, Tok(x.ls) = ":")
  IN  Named(Fields(singlevar(luaX_next(ls))))

\* check_conflict: a local that is assigned to after it served as the table or
\* the key of an earlier variable is copied first.
check_conflict(ls, lh, v) ==
  LET fs == Fs(ls)
      hit(e) == e.k = "VINDEXED" /\ v.info \in {e.info, e.aux}
      safe(r) == IF r = v.info THEN fs.freereg ELSE r
  IN  IF v.k = "VLOCAL" /\ \E i \in DOMAIN lh : hit(lh[i])
      THEN [ls |-> With(ls, luaK_reserveregs(
                              luaK_codeABC(fs, "MOVE", fs.freereg, v.info, 0), 1)),
            lh |-> [i \in DOMAIN lh |->
                      IF hit(lh[i]) THEN [lh[i] EXCEPT !.info = safe(@), !.aux = safe(@)]
                      ELSE lh[i]]]
      ELSE [ls |-> ls, lh |-> lh]

\* assignment: lh are the variables, stored to from the last to the first, each
\* from the last register in use.
Default(ls, var) == StoreVar(ls, var, init_exp("VNONRELOC", Fs(ls).freereg - 1))
StoreAll(ls, lh) == FoldLeft(Default, ls, Reverse(lh))

RECURSIVE assignment(_, _)
assignment(ls, lh) ==
  LET nvars == Len(lh)
      Conflict(c, e) == assignment(c.ls, Append(c.lh, e))
      Variable(v) == Conflict(check_conflict(v.ls, lh, v.e), v.e)
      extra(n) == IF n > nvars THEN n - nvars ELSE 0
      One(x) == StoreVar(x.ls, Last(lh), x.e)
      Drop(s, n) == With(s, [Fs(s) EXCEPT !.freereg = @ - n])
      Store(x) ==
        IF x.n # nvars
        THEN StoreAll(Drop(adjust_assign(x.ls, nvars, x.n, x.e), extra(x.n)), lh)
        ELSE StoreAll(One(Do(x.ls, luaK_setoneret(Fs(x.ls), x.e))), Front(lh))
  IN  IF Last(lh).k \notin {"VLOCAL", "VUPVAL", "VGLOBAL", "VINDEXED"}
      THEN luaX_syntaxerror(ls)
      ELSE IF Tok(ls) = "," THEN Variable(primaryexp(luaX_next(ls)))
      ELSE Store(explist1(checknext(ls, "=")))

exprstat(ls) ==
  LET Stat(v) == IF v.e.k = "VCALL"
                 THEN With(v.ls, [Fs(v.ls) EXCEPT !.code[v.e.info + 1].c = 1])
                 ELSE assignment(v.ls, <<v.e>>)
  IN  Stat(primaryexp(ls))

retstat(ls0) ==
  LET ls == luaX_next(ls0)
      TailCalled(m, x, n) == IF x.e.k = "VCALL" /\ x.n = 1
                       THEN [m EXCEPT !.code[x.e.info + 1].op = "TAILCALL",
                                      !.ok = @ /\ At(m, x.e.info).a = n] ELSE m
      Ret(s, fs, first, nret) == With(s, luaK_ret(fs, first, nret))
      One(a) == Ret(a.ls, Fs(a.ls), a.e.info, 1)
      All(s, fs, n) == Ret(s, [fs EXCEPT !.ok = @ /\ n = fs.freereg - fs.nactvar],
                           fs.nactvar, n)
      Values(s, n) == All(s, Fs(s), n)
      Multiple(x, fs) ==
        Ret(x.ls, TailCalled(luaK_setreturns(fs, x.e, LUA_MULTRET), x, fs.nactvar),
            fs.nactvar, LUA_MULTRET)
      Explist(x) == IF hasmultret(x.e.k) THEN Multiple(x, Fs(x.ls))
                    ELSE IF x.n = 1 THEN One(AnyReg(LE(x.ls, x.e)))
                    ELSE Values(NextReg(LE(x.ls, x.e)).ls, x.n)
  IN  IF Tok(ls) \in block_follow \cup {";"} THEN With(ls, luaK_ret(Fs(ls), 0, 0))
      ELSE Explist(explist1(ls))

statement(ls) ==
  CASE Tok(ls) = "if" -> ifstat(ls)
    [] Tok(ls) = "while" -> whilestat(ls)
    [] Tok(ls) = "do" -> checknext(block(luaX_next(ls)), "end")
    [] Tok(ls) = "for" -> forstat(ls)
    [] Tok(ls) = "repeat" -> repeatstat(ls)
    [] Tok(ls) = "function" -> funcstat(ls)
    [] Tok(ls) = "local" ->
         LET s == luaX_next(ls)
         IN  IF Tok(s) = "function" THEN localfunc(luaX_next(s)) ELSE localstat(s)
    [] Tok(ls) = "return" -> retstat(ls)
    [] Tok(ls) = "break" -> breakstat(luaX_next(ls))
    [] OTHER -> exprstat(ls)

Chunk(ls) ==
  LET Freed(s, fs) == With(s, [fs EXCEPT !.freereg = fs.nactvar,
                                 !.ok = @ /\ fs.maxstack >= fs.freereg
                                          /\ fs.freereg >= fs.nactvar])
      Done(s) == Freed(s, Fs(s))
      More(s) == IF Tok(ls) \in {"return", "break"} THEN s ELSE chunk(s)
  IN  IF Tok(ls) \in block_follow THEN ls
      ELSE More(Done(Skip(statement(ls), ";")))

Rule(r, ls, x) ==
  CASE r = "chunk" -> Chunk(ls)
    [] r = "block" -> Block(ls)
    [] r = "body" -> Body(ls, x)
    [] r = "explist1" -> Explist1(ls)
    [] r = "subexpr" -> Subexpr(ls, x)
    [] r = "primaryexp" -> PrimaryRest(prefixexp(ls))
    [] r = "constructor" -> Constructor(ls)
    [] OTHER -> Do(ls, luaK(r, Fs(ls), x))

\* luaY_parser: the prototype of the main function, and if there was an error.
luaY_parser(tokens) ==
  LET Main(ls) == [err |-> ls.err \/ Tok(ls) # "eos", main |-> Proto(Fs(ls))]
  IN  Main(chunk([t |-> tokens, p |-> 1, err |-> FALSE, F |-> <<MainFs>>]))
=============================================================================
