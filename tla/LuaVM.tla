------------------------------- MODULE LuaVM -------------------------------
(***************************************************************************)
(* The interpreter: luaV_execute of lua-5.1/lvm.c, with what calls and     *)
(* returns do to the stack (ldo.c) and with upvalues (lfunc.c).            *)
(*                                                                         *)
(* A machine is a record: stk, the stack; top; ci, the frames [cl, func,   *)
(* base, top, pc, nres], the last one running; cell, the upvalues [slot,   *)
(* v], slot -1 when closed; fn, the closures [p, ups]; tab, the tables,    *)
(* the first one with the globals; status; ret, what the main function     *)
(* returned.  Metamethods, C functions and the conversion of strings to    *)
(* numbers are left out: what needs them is an error here.                 *)
(***************************************************************************)
EXTENDS LuaCheck, TLC

CONSTANT STACK  \* the size of the stack
ASSUME StackSize == STACK \in Nat

Ref(kind, id) == <<kind, id>>
Kind(v) == v[1]
isfalse(v) == v \in {NIL, <<"bool", FALSE>>}
rawequal(v, w) == v = w /\ v # NAN
Error(m) == [m EXCEPT !.status = "error"]

(* Values: luaV_gettable, luaV_settable, Arith, lessthan, concat, len. *)
rawget(t, k) == IF k \in DOMAIN t THEN t[k] ELSE NIL
rawset(t, k, v) ==
  IF v = NIL THEN [x \in DOMAIN t \ {k} |-> t[x]] ELSE (k :> v) @@ t
Border(t) == CHOOSE n \in 0..Cardinality(DOMAIN t) :
               /\ \A i \in 1..n : Num(i) \in DOMAIN t
               /\ Num(n + 1) \notin DOMAIN t
Arith(op, v, w) ==
  CASE v = NAN \/ w = NAN \/ (op = "MOD" /\ w = Num(0)) -> NAN
    [] OTHER -> Num(NumOp(op, v[2], w[2]))
IsNumber(v) == Kind(v) \in {"num", "nan"}
Less(op, v, w) == /\ NAN \notin {v, w}
                  /\ IF op = "LT" THEN v[2] < w[2] ELSE v[2] <= w[2]
Text(v) == IF v = NAN THEN "nan" ELSE IF Kind(v) = "num" THEN ToString(v[2]) ELSE v[2]
IsText(v) == IsNumber(v) \/ Kind(v) = "str"
-----------------------------------------------------------------------------
(* The stack. *)

Frame(m) == Last(m.ci)
Set(m, slot, v) == [m EXCEPT !.stk[slot] = v]
\* A range of slots gets new values, taken from the stack before.
SetAll(m, first, vs) ==
  [m EXCEPT !.stk = [i \in DOMAIN @ |-> IF i >= first /\ i < first + Len(vs)
                                        THEN vs[i - first + 1] ELSE @[i]]]
Values(m, first, n) == [i \in 1..n |-> m.stk[first + i - 1]]
Nils(n) == [i \in 1..n |-> NIL]
Adjust(vs, n) == [i \in 1..n |-> IF i <= Len(vs) THEN vs[i] ELSE NIL]

\* luaF_close, luaF_findupval and the value of an upvalue.
luaF_close(m, level) ==
  [m EXCEPT !.cell = [i \in DOMAIN @ |->
     IF @[i].slot >= level THEN [slot |-> -1, v |-> m.stk[@[i].slot]] ELSE @[i]]]
OpenAt(m, slot) == {i \in DOMAIN m.cell : m.cell[i].slot = slot}
findupval(m, slot) ==
  IF OpenAt(m, slot) # {} THEN R(m, CHOOSE i \in OpenAt(m, slot) : TRUE)
  ELSE R([m EXCEPT !.cell = Append(@, [slot |-> slot, v |-> NIL])], Len(m.cell) + 1)
upvalue(m, i) == LET u == m.cell[Last(m.ci).ups[i + 1]]
                 IN  IF u.slot >= 0 THEN m.stk[u.slot] ELSE u.v
setupvalue(m, i, v) ==
  LET id == Last(m.ci).ups[i + 1]
      u == m.cell[id]
  IN  IF u.slot >= 0 THEN Set(m, u.slot, v) ELSE [m EXCEPT !.cell[id].v = v]

\* luaD_precall of a Lua function, with adjust_varargs.
luaD_precall(m, func, nres) ==
  LET f == m.fn[m.stk[func][2]]
      p == f.p
      nargs == m.top - func - 1
      args == Values(m, func + 1, nargs)
      actual == IF nargs < p.numparams THEN p.numparams ELSE nargs
      extra == SubSeq(args, p.numparams + 1, nargs)
      arg == [x \in {Num(i) : i \in DOMAIN extra} \cup {<<"str", "n">>} |->
                IF x = <<"str", "n">> THEN Num(Len(extra)) ELSE extra[x[2]]]
      needs == "needs" \in p.vararg
      base == IF p.vararg = {} THEN func + 1 ELSE func + 1 + actual
      fixed == Adjust(args, p.numparams)
      moved == IF p.vararg = {} THEN m
               ELSE SetAll(m, func + 1, Nils(p.numparams))
      regs == fixed \o (IF needs THEN <<Ref("tab", Len(m.tab) + 1)>> ELSE <<>>)
  IN  IF Kind(m.stk[func]) # "fn" THEN Error(m)
      ELSE [SetAll(moved, base, Adjust(regs, p.maxstack)) EXCEPT
              !.top = base + p.maxstack,
              !.tab = IF needs THEN Append(@, arg) ELSE @,
              !.ci = Append(@, [p |-> p, ups |-> f.ups, func |-> func,
                                base |-> base, top |-> base + p.maxstack,
                                pc |-> 0, nres |-> nres])]

\* luaD_poscall: as many of the results as were wanted.
luaD_poscall(m, first) ==
  LET f == Frame(m)
      all == Values(m, first, m.top - first)
      res == IF f.nres = LUA_MULTRET THEN all ELSE Adjust(all, f.nres)
  IN  [SetAll(m, f.func, res) EXCEPT !.ci = Front(@), !.top = f.func + Len(res)]
-----------------------------------------------------------------------------
(* One instruction. *)

Reg(m, r) == Frame(m).base + r
RKval(m, r) == IF ISK(r) THEN Frame(m).p.k[INDEXK(r) + 1] ELSE m.stk[Reg(m, r)]
Goto(m, d) == [m EXCEPT !.ci[Len(m.ci)].pc = @ + d]
Assign(m, a, v) == Set(m, Reg(m, a), v)
\* A test: the jump that follows is taken, or skipped.
Branch(m, taken) ==
  LET f == Frame(m) IN Goto(m, 1 + (IF taken THEN f.p.code[f.pc + 1].b ELSE 0))
gettable(m, t, k, a) ==
  IF Kind(t) = "tab" THEN Assign(m, a, rawget(m.tab[t[2]], k)) ELSE Error(m)
settable(m, t, k, v) ==
  IF Kind(t) = "tab" /\ k \notin {NIL, NAN}
  THEN [m EXCEPT !.tab[t[2]] = rawset(@, k, v)] ELSE Error(m)
Globals == Ref("tab", 1)

\* Slip: the top is only restored after results that were left open.
SlipReturn(m0, a, b) ==
  LET r == Reg(m0, a)
      m == luaF_close(IF b # 0 THEN [m0 EXCEPT !.top = r + b - 1] ELSE m0,
                      Frame(m0).base)
      wanted == Frame(m).nres
      n == luaD_poscall(m, r)
      f == Frame(n)
      i == f.p.code[f.pc]
      t == [n EXCEPT !.top = f.top]
      cb == f.base + i.a + 3
  IN  IF Len(m.ci) = 1
      THEN [m EXCEPT !.status = "done", !.ret = Values(m, r, m.top - r)]
      ELSE IF i.op = "TFORLOOP"
      THEN Branch(IF t.stk[cb] # NIL THEN Set(t, cb - 1, t.stk[cb]) ELSE t,
                  t.stk[cb] # NIL)
      ELSE IF wanted = LUA_MULTRET THEN t ELSE n

\* OP_RETURN; the caller may be in the middle of OP_TFORLOOP.
Return(m0, a, b) ==
  LET r == Reg(m0, a)
      m == luaF_close(IF b # 0 THEN [m0 EXCEPT !.top = r + b - 1] ELSE m0,
                      Frame(m0).base)
      wanted == Frame(m).nres
      n == luaD_poscall(m, r)
      f == Frame(n)
      i == f.p.code[f.pc]
      t == [n EXCEPT !.top = f.top]
      cb == f.base + i.a + 3
  IN  IF Len(m.ci) = 1
      THEN [m EXCEPT !.status = "done", !.ret = Values(m, r, m.top - r)]
      ELSE IF i.op = "TFORLOOP"
      THEN Branch(IF t.stk[cb] # NIL THEN Set(t, cb - 1, t.stk[cb]) ELSE t,
                  t.stk[cb] # NIL)
      ELSE IF wanted # LUA_MULTRET THEN t ELSE n

TailCall(m0, a, b) ==
  LET ra == Reg(m0, a)
      m == IF b # 0 THEN [m0 EXCEPT !.top = ra + b] ELSE m0
      old == Frame(m)
      n == luaD_precall(m, ra, LUA_MULTRET)
      new == Frame(n)
      c == luaF_close(n, old.base)
      base == old.func + (new.base - new.func)
      moved == SetAll(c, old.func, Values(c, new.func, c.top - new.func))
      top == old.func + (c.top - new.func)
  IN  IF n.status = "error" THEN n
      ELSE [moved EXCEPT !.top = top,
              !.ci = Append(Front(Front(@)),
                       [new EXCEPT !.func = old.func, !.base = base, !.top = top,
                                   !.nres = old.nres])]

\* OP_CLOSURE: the instructions that follow name the upvalues.
Closure(m, a, bx) ==
  LET f == Frame(m)
      p == f.p.p[bx + 1]
      capture(r, j) ==
        LET i == f.p.code[f.pc + j]
            u == findupval(r.fs, f.base + i.b)
        IN  IF i.op = "GETUPVAL" THEN R(r.fs, Append(r.e, f.ups[i.b + 1]))
            ELSE R(u.fs, Append(r.e, u.e))
      c == FoldLeft(capture, R(m, <<>>), [j \in 1..p.nups |-> j])
      n == [c.fs EXCEPT !.fn = Append(@, [p |-> p, ups |-> c.e])]
  IN  Goto(Assign(n, a, Ref("fn", Len(n.fn))), p.nups)

SetList(m, a, b, c) ==
  LET ra == Reg(m, a)
      n == IF b = 0 THEN m.top - ra - 1 ELSE b
      t == m.stk[ra][2]
      first == (c - 1) * LFIELDS_PER_FLUSH
  IN  [m EXCEPT !.top = IF b = 0 THEN Frame(m).top ELSE @,
                !.tab[t] = FoldLeft(LAMBDA x, i : rawset(x, Num(first + i), m.stk[ra + i]),
                                    @, [i \in 1..n |-> i])]

VarArg(m, a, b) ==
  LET f == Frame(m)
      n == f.base - f.func - f.p.numparams - 1
      all == Values(m, f.base - n, n)
      r == Reg(m, a)
  IN  IF b = 0 THEN [SetAll(m, r, all) EXCEPT !.top = r + n]
      ELSE SetAll(m, r, Adjust(all, b - 1))

ForPrep(m, a, d) ==
  LET r == Reg(m, a)
  IN  IF \A j \in 0..2 : IsNumber(m.stk[r + j])
      THEN Goto(Set(m, r, Arith("SUB", m.stk[r], m.stk[r + 2])), d) ELSE Error(m)
ForLoop(m, a, d) ==
  LET r == Reg(m, a)
      step == m.stk[r + 2]
      idx == Arith("ADD", m.stk[r], step)
      limit == m.stk[r + 1]
  IN  IF IF Less("LT", Num(0), step) THEN Less("LE", idx, limit)
                                     ELSE Less("LE", limit, idx)
      THEN Goto(SetAll(Set(m, r, idx), r + 3, <<idx>>), d) ELSE m

\* OP_TFORLOOP calls the iterator; Return does what follows the call.
TForLoop(m, ra, n) ==
  luaD_precall([SetAll(m, ra + 3, Values(m, ra, 3)) EXCEPT !.top = ra + 6], ra + 3, n)

Concatenate(m, a, b, c) ==
  LET vs == Values(m, Reg(m, b), c - b + 1)
  IN  IF \A j \in DOMAIN vs : IsText(vs[j])
      THEN Assign(m, a, <<"str", FoldRight(LAMBDA v, s : Text(v) \o s, vs, "")>>)
      ELSE Error(m)

luaV_execute(m0) ==
  LET f == Frame(m0)
      i == f.p.code[f.pc + 1]
      m == Goto(m0, 1)
      a == i.a
      rb == m.stk[Reg(m, i.b)]
      kb == RKval(m, i.b)
      kc == RKval(m, i.c)
      ra == Reg(m, a)
      op == i.op
  IN  CASE op = "MOVE" -> Assign(m, a, rb)
        [] op = "LOADK" -> Assign(m, a, f.p.k[i.b + 1])
        [] op = "LOADBOOL" -> Goto(Assign(m, a, Bool(i.b = 1)), i.c)
        [] op = "LOADNIL" -> SetAll(m, ra, Nils(i.b - a + 1))
        [] op = "GETUPVAL" -> Assign(m, a, upvalue(m, i.b))
        [] op = "SETUPVAL" -> setupvalue(m, i.b, m.stk[ra])
        [] op = "GETGLOBAL" -> gettable(m, Globals, f.p.k[i.b + 1], a)
        [] op = "SETGLOBAL" -> settable(m, Globals, f.p.k[i.b + 1], m.stk[ra])
        [] op = "GETTABLE" -> gettable(m, rb, kc, a)
        [] op = "SETTABLE" -> settable(m, m.stk[ra], kb, kc)
        [] op = "NEWTABLE" -> Assign([m EXCEPT !.tab = Append(@, <<>>)], a,
                                     Ref("tab", Len(m.tab) + 1))
        [] op = "SELF" -> gettable(Assign(m, a + 1, rb), rb, kc, a)
        [] op \in Arithmetic -> IF IsNumber(kb) /\ IsNumber(kc)
                                THEN Assign(m, a, Arith(op, kb, kc)) ELSE Error(m)
        [] op = "UNM" -> IF IsNumber(rb) THEN Assign(m, a, Arith(op, rb, rb)) ELSE Error(m)
        [] op = "NOT" -> Assign(m, a, Bool(isfalse(rb)))
        [] op = "LEN" -> IF Kind(rb) = "tab" THEN Assign(m, a, Num(Border(m.tab[rb[2]])))
                         ELSE IF Kind(rb) = "str" THEN Assign(m, a, Num(Len(rb[2])))
                         ELSE Error(m)
        [] op = "CONCAT" -> Concatenate(m, a, i.b, i.c)
        [] op = "JMP" -> Goto(m, i.b)
        [] op = "EQ" -> Branch(m, rawequal(kb, kc) = (a = 1))
        [] op \in {"LT", "LE"} -> IF IsNumber(kb) /\ IsNumber(kc)
                                  THEN Branch(m, Less(op, kb, kc) = (a = 1)) ELSE Error(m)
        [] op = "TEST" -> Branch(m, isfalse(m.stk[ra]) # (i.c = 1))
        [] op = "TESTSET" -> IF isfalse(rb) # (i.c = 1) THEN Branch(Assign(m, a, rb), TRUE)
                             ELSE Branch(m, FALSE)
        [] op = "CALL" -> luaD_precall(IF i.b # 0 THEN [m EXCEPT !.top = ra + i.b] ELSE m,
                                       ra, i.c - 1)
        [] op = "TAILCALL" -> TailCall(m, a, i.b)
        [] op = "RETURN" -> Return(m, a, i.b)
        [] op = "FORPREP" -> ForPrep(m, a, i.b)
        [] op = "FORLOOP" -> ForLoop(m, a, i.b)
        [] op = "TFORLOOP" -> TForLoop(m, ra, i.c)
        [] op = "SETLIST" -> SetList(m, a, i.b, i.c)
        [] op = "CLOSE" -> luaF_close(m, ra)
        [] op = "CLOSURE" -> Closure(m, a, i.b)
        [] op = "VARARG" -> VarArg(m, a, i.b)

\* A machine about to run the main function.
Start(main) ==
  LET m == [stk |-> [s \in 0..STACK |-> IF s = 0 THEN Ref("fn", 1) ELSE NIL],
            top |-> 1, ci |-> <<>>, cell |-> <<>>,
            fn |-> <<[p |-> main, ups |-> <<>>]>>, tab |-> <<<<>>>>,
            status |-> "run", ret |-> <<>>]
  IN  luaD_precall(m, 0, LUA_MULTRET)
=============================================================================
