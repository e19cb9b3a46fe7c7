------------------------------ MODULE LuaCode ------------------------------
(***************************************************************************)
(* The code generator: lua-5.1/lcode.c with the table of opcode modes of   *)
(* lopcodes.c.                                                             *)
(*                                                                         *)
(* The state of a function being compiled (FuncState) is a record; its pc  *)
(* is the length of its code.  An instruction is [op, a, b, c], where b is *)
(* also the operand Bx or sBx.  An expression descriptor is [k, info, aux, *)
(* t, f], where info is also the value of a VKNUM.  A function that        *)
(* changes both returns them as [fs, e].  The flag `ok' of a FuncState is  *)
(* lost when a lua_assert of the generator fails.  Line information and    *)
(* the limits on sizes are left out.                                       *)
(***************************************************************************)
EXTENDS Integers, Sequences, SequencesExt

CONSTANTS MAXINDEXRK, LFIELDS_PER_FLUSH

ASSUME CodeAssumption ==
  MAXINDEXRK \in 0..255 /\ LFIELDS_PER_FLUSH \in Nat \ {0}

NO_JUMP == -1
NO_REG == 255
LUA_MULTRET == -1
BITRK == 256
ISK(x) == x >= BITRK
RKASK(x) == x + BITRK
INDEXK(x) == x - BITRK
NIL == <<"nil">>
NAN == <<"nan">>
Num(n) == <<"num", n>>
Bool(b) == <<"bool", b>>

Ins(op, a, b, c) == [op |-> op, a |-> a, b |-> b, c |-> c]
init_exp(k, i) == [k |-> k, info |-> i, aux |-> 0, t |-> NO_JUMP, f |-> NO_JUMP]
R(fs, e) == [fs |-> fs, e |-> e]

(* luaP_opmodes: what each opcode does with its operands. *)
iABx == {"LOADK", "GETGLOBAL", "SETGLOBAL", "CLOSURE"}
iAsBx == {"JMP", "FORLOOP", "FORPREP"}
Arithmetic == {"ADD", "SUB", "MUL", "MOD"}
testTMode == {"EQ", "LT", "LE", "TEST", "TESTSET", "TFORLOOP"}
testAMode == {"MOVE", "LOADK", "LOADBOOL", "LOADNIL", "GETUPVAL", "GETGLOBAL",
              "GETTABLE", "NEWTABLE", "SELF", "UNM", "NOT", "LEN", "CONCAT",
              "TEST", "TESTSET", "CALL", "TAILCALL", "FORLOOP", "FORPREP",
              "CLOSURE", "VARARG"} \cup Arithmetic
getBMode(op) ==
  CASE op \in {"MOVE", "LOADNIL", "GETTABLE", "SELF", "UNM", "NOT", "LEN",
               "CONCAT", "JMP", "TEST", "TESTSET", "FORLOOP", "FORPREP"} -> "R"
    [] op \in {"LOADK", "GETGLOBAL", "SETGLOBAL", "SETTABLE", "EQ", "LT", "LE"}
              \cup Arithmetic -> "K"
    [] op \in {"TFORLOOP", "CLOSE"} -> "N"
    [] OTHER -> "U"
getCMode(op) ==
  CASE op \in {"GETTABLE", "SETTABLE", "SELF", "EQ", "LT", "LE"} \cup Arithmetic
         -> "K"
    [] op = "CONCAT" -> "R"
    [] op \in {"LOADBOOL", "NEWTABLE", "TEST", "TESTSET", "CALL", "TAILCALL",
               "TFORLOOP", "SETLIST"} -> "U"
    [] OTHER -> "N"
-----------------------------------------------------------------------------
(* Jumps. *)

Pc(fs) == Len(fs.code)
At(fs, pc) == fs.code[pc + 1]
hasjumps(e) == e.t # e.f
isnumeral(e) == e.k = "VKNUM" /\ e.t = NO_JUMP /\ e.f = NO_JUMP

fixjump(fs, pc, dest) == [fs EXCEPT !.code[pc + 1].b = dest - (pc + 1)]
luaK_getlabel(fs) == [fs EXCEPT !.lasttarget = Pc(fs)]
getjump(fs, pc) ==
  IF At(fs, pc).b = NO_JUMP THEN NO_JUMP ELSE pc + 1 + At(fs, pc).b
getjumpcontrol(fs, pc) ==
  IF pc >= 1 /\ At(fs, pc - 1).op \in testTMode THEN pc - 1 ELSE pc

\* The positions of the jumps in a list.
RECURSIVE Jumps(_, _)
Jumps(fs, list) ==
  IF list = NO_JUMP THEN <<>> ELSE <<list>> \o Jumps(fs, getjump(fs, list))

IsTestSet(fs, node) == At(fs, getjumpcontrol(fs, node)).op = "TESTSET"
need_value(fs, list) == \E j \in ToSet(Jumps(fs, list)) : ~IsTestSet(fs, j)

patchtestreg(fs, node, reg) ==
  LET Retarget(c, i) ==
        IF i.op # "TESTSET" THEN fs
        ELSE IF reg # NO_REG /\ reg # i.b THEN [fs EXCEPT !.code[c + 1].a = reg]
        ELSE [fs EXCEPT !.code[c + 1] = Ins("TEST", i.b, 0, i.c)]
  IN  Retarget(getjumpcontrol(fs, node), At(fs, getjumpcontrol(fs, node)))
removevalues(fs, list) ==
  FoldLeft(LAMBDA s, j : patchtestreg(s, j, NO_REG), fs, Jumps(fs, list))
patchlistaux(fs, list, vtarget, reg, dtarget) ==
  FoldLeft(LAMBDA s, j : fixjump(patchtestreg(s, j, reg), j,
                                 IF IsTestSet(s, j) THEN vtarget ELSE dtarget),
           fs, Jumps(fs, list))

dischargejpc(fs) ==
  [patchlistaux(fs, fs.jpc, Pc(fs), NO_REG, Pc(fs)) EXCEPT !.jpc = NO_JUMP]

\* luaK_concat: the two lists as one, in e.
luaK_concat(fs, l1, l2) ==
  IF l2 = NO_JUMP THEN R(fs, l1)
  ELSE IF l1 = NO_JUMP THEN R(fs, l2)
  ELSE R(fixjump(fs, Last(Jumps(fs, l1)), l2), l1)

luaK_patchtohere(fs, list) ==
  LET r == luaK_concat(luaK_getlabel(fs), fs.jpc, list)
  IN  [r.fs EXCEPT !.jpc = r.e]
luaK_patchlist(fs, list, target) ==
  IF target = Pc(fs) THEN luaK_patchtohere(fs, list)
  ELSE patchlistaux(fs, list, target, NO_REG, target)

luaK_code(fs, i) == [dischargejpc(fs) EXCEPT !.code = Append(@, i)]
luaK_codeABC(fs, op, a, b, c) == luaK_code(fs, Ins(op, a, b, c))
luaK_codeABx(fs, op, a, b) == luaK_code(fs, Ins(op, a, b, 0))

\* luaK_jump: the jump is at the present pc, before the jumps on hold.
luaK_jump(fs) ==
  luaK_concat(luaK_codeABx([fs EXCEPT !.jpc = NO_JUMP], "JMP", 0, NO_JUMP),
              Pc(fs), fs.jpc).fs
condjump(fs, op, a, b, c) == luaK_jump(luaK_codeABC(fs, op, a, b, c))
luaK_ret(fs, first, nret) == luaK_codeABC(fs, "RETURN", first, nret + 1, 0)

\* Slip: a jump to the present position does not end the basic block.
SlipNil(fs, from, n) ==
  LET last == At(fs, Pc(fs) - 1)
      clean == Pc(fs) = 0
      joins == last.op = "LOADNIL" /\ last.a <= from /\ from <= last.b + 1
  IN  IF ~(clean \/ joins) THEN luaK_codeABC(fs, "LOADNIL", from, from + n - 1, 0)
      ELSE IF clean \/ from + n - 1 <= last.b THEN fs
      ELSE [fs EXCEPT !.code[Pc(fs)].b = from + n - 1]

luaK_nil(fs, from, n) ==
  LET last == At(fs, Pc(fs) - 1)
      sameblock == Pc(fs) > fs.lasttarget
      clean == sameblock /\ Pc(fs) = 0
      joins == /\ sameblock /\ last.op = "LOADNIL"
               /\ last.a <= from /\ from <= last.b + 1
  IN  IF ~(clean \/ joins) THEN luaK_codeABC(fs, "LOADNIL", from, from + n - 1, 0)
      ELSE IF clean \/ from + n - 1 <= last.b THEN fs
      ELSE [fs EXCEPT !.code[Pc(fs)].b = from + n - 1]
-----------------------------------------------------------------------------
(* Registers and constants. *)

luaK_checkstack(fs, n) ==
  [fs EXCEPT !.maxstack = IF fs.freereg + n > @ THEN fs.freereg + n ELSE @]
luaK_reserveregs(fs, n) == [luaK_checkstack(fs, n) EXCEPT !.freereg = @ + n]
freereg(fs, reg) ==
  IF ISK(reg) \/ reg < fs.nactvar THEN fs
  ELSE [fs EXCEPT !.freereg = @ - 1, !.ok = @ /\ reg = fs.freereg - 1]
freeexp(fs, e) == IF e.k = "VNONRELOC" THEN freereg(fs, e.info) ELSE fs

\* addk: the index of a constant, which is entered once.
addk(fs, v) ==
  LET I == {i \in DOMAIN fs.k : fs.k[i] = v}
  IN  IF I # {} THEN R(fs, (CHOOSE i \in I : TRUE) - 1)
      ELSE R([fs EXCEPT !.k = Append(@, v)], Len(fs.k))

luaK_setreturns(fs, e, n) ==
  CASE e.k = "VCALL" -> [fs EXCEPT !.code[e.info + 1].c = n + 1]
    [] e.k = "VVARARG" ->
         luaK_reserveregs([fs EXCEPT !.code[e.info + 1].b = n + 1,
                                     !.code[e.info + 1].a = fs.freereg], 1)
    [] OTHER -> fs
luaK_setoneret(fs, e) ==
  CASE e.k = "VCALL" ->
         R(fs, [e EXCEPT !.k = "VNONRELOC", !.info = At(fs, e.info).a])
    [] e.k = "VVARARG" ->
         R([fs EXCEPT !.code[e.info + 1].b = 2], [e EXCEPT !.k = "VRELOCABLE"])
    [] OTHER -> R(fs, e)

\* An instruction is coded whose result register is not known yet.
Reloc(fs, e, i) ==
  R(luaK_code(fs, i), [e EXCEPT !.k = "VRELOCABLE", !.info = Pc(fs)])

luaK_dischargevars(fs, e) ==
  LET indexed == e.k = "VINDEXED"
      read == CASE e.k = "VUPVAL" -> Ins("GETUPVAL", 0, e.info, 0)
                [] e.k = "VGLOBAL" -> Ins("GETGLOBAL", 0, e.info, 0)
                [] indexed -> Ins("GETTABLE", 0, e.info, e.aux)
  IN  CASE e.k = "VLOCAL" -> R(fs, [e EXCEPT !.k = "VNONRELOC"])
        [] e.k \in {"VUPVAL", "VGLOBAL", "VINDEXED"} ->
             Reloc(IF indexed THEN freereg(freereg(fs, e.aux), e.info) ELSE fs, e, read)
        [] OTHER -> luaK_setoneret(fs, e)

code_label(fs, a, b, jump) ==
  luaK_codeABC(luaK_getlabel(fs), "LOADBOOL", a, b, jump)
-----------------------------------------------------------------------------
(* Expressions into registers. *)

\* The routines that call one another, by name; x are the arguments beside fs.
RECURSIVE luaK(_, _, _)
ToReg(fs, e, reg) == luaK("exp2reg", fs, <<e, reg>>)
ToNextReg(fs, e) == luaK("exp2nextreg", fs, e)
ToAnyReg(fs, e) == luaK("exp2anyreg", fs, e)
ToVal(fs, e) == luaK("exp2val", fs, e)
ToRK(fs, e) == luaK("exp2RK", fs, e)
Discharge(fs, e) == luaK("dischargevars", fs, e)

discharge2reg(fs, e, reg) ==
  LET K(d) == IF d.e.k = "VKNUM" THEN addk(d.fs, Num(d.e.info)) ELSE R(d.fs, d.e.info)
      Load(d, k) ==
        CASE d.e.k = "VNIL" -> luaK_nil(d.fs, reg, 1)
          [] d.e.k \in {"VFALSE", "VTRUE"} ->
               luaK_codeABC(d.fs, "LOADBOOL", reg, IF d.e.k = "VTRUE" THEN 1 ELSE 0, 0)
          [] d.e.k \in {"VK", "VKNUM"} -> luaK_codeABx(k.fs, "LOADK", reg, k.e)
          [] d.e.k = "VRELOCABLE" -> [d.fs EXCEPT !.code[d.e.info + 1].a = reg]
          [] d.e.k = "VNONRELOC" /\ reg # d.e.info ->
               luaK_codeABC(d.fs, "MOVE", reg, d.e.info, 0)
          [] OTHER -> d.fs
      Into(d) == IF d.e.k \in {"VVOID", "VJMP"} THEN d
                 ELSE R(Load(d, K(d)), [d.e EXCEPT !.k = "VNONRELOC", !.info = reg])
  IN  Into(Discharge(fs, e))

discharge2anyreg(fs, e) ==
  IF e.k = "VNONRELOC" THEN R(fs, e)
  ELSE luaK("discharge2reg", luaK_reserveregs(fs, 1), <<e, fs.freereg>>)

\* exp2reg: jumps that leave no value go to instructions that load one.
LoadBools(fs, reg, fj) ==
  luaK_patchtohere(code_label(code_label(fs, reg, 0, 1), reg, 1, 0), fj)
exp2reg(fs0, e0, reg) ==
  LET Joined(d) ==
        LET c == luaK_concat(d.fs, d.e.t, IF d.e.k = "VJMP" THEN d.e.info ELSE NO_JUMP)
        IN  R(c.fs, [d.e EXCEPT !.t = c.e])
      Patched(fs, e, final, pos) ==
        patchlistaux(patchlistaux(fs, e.f, final, reg, pos), e.t, final, reg,
                     IF pos = NO_JUMP THEN NO_JUMP ELSE pos + 1)
      Valued(fs, e) ==  \* pos: where false is loaded, true is loaded next
        LET isjump == e.k = "VJMP"
            pos == Pc(fs) + (IF isjump THEN 0 ELSE 1)
            fj == IF isjump THEN NO_JUMP ELSE Pc(fs)
            s == LoadBools(IF isjump THEN fs ELSE luaK_jump(fs), reg, fj)
        IN  IF need_value(fs, e.t) \/ need_value(fs, e.f)
            THEN Patched(luaK_getlabel(s), e, pos + 2, pos)
            ELSE Patched(luaK_getlabel(fs), e, Pc(fs), NO_JUMP)
      Settled(x) ==
        R(IF hasjumps(x.e) THEN Valued(x.fs, x.e) ELSE x.fs,
          [x.e EXCEPT !.k = "VNONRELOC", !.info = reg, !.t = NO_JUMP, !.f = NO_JUMP])
  IN  Settled(Joined(luaK("discharge2reg", fs0, <<e0, reg>>)))

luaK_exp2nextreg(fs, e) ==
  LET Freed(d) == R(freeexp(d.fs, d.e), d.e)
      NextReg(x) == ToReg(luaK_reserveregs(x.fs, 1), x.e, x.fs.freereg)
  IN  NextReg(Freed(Discharge(fs, e)))

luaK_exp2anyreg(fs, e) ==
  LET AnyReg(d) == IF d.e.k = "VNONRELOC" /\ ~hasjumps(d.e) THEN d
                ELSE IF d.e.k = "VNONRELOC" /\ d.e.info >= d.fs.nactvar
                THEN ToReg(d.fs, d.e, d.e.info)
                ELSE ToNextReg(d.fs, d.e)
  IN  AnyReg(Discharge(fs, e))

luaK_exp2val(fs, e) ==
  IF hasjumps(e) THEN ToAnyReg(fs, e) ELSE Discharge(fs, e)

\* luaK_exp2RK: RK gives the operand it returns.
luaK_exp2RK(fs, e) ==
  LET Constant(v) == addk(v.fs, CASE v.e.k = "VKNUM" -> Num(v.e.info)
                                  [] v.e.k = "VNIL" -> NIL
                                  [] OTHER -> Bool(v.e.k = "VTRUE"))
      AsK(k, v) == R(k.fs, [v.e EXCEPT !.k = "VK", !.info = k.e])
      Operand(v) ==
        IF v.e.k \in {"VKNUM", "VTRUE", "VFALSE", "VNIL"} /\ Len(v.fs.k) <= MAXINDEXRK
        THEN AsK(Constant(v), v)
        ELSE IF v.e.k = "VK" /\ v.e.info <= MAXINDEXRK THEN v
        ELSE ToAnyReg(v.fs, v.e)
  IN  Operand(ToVal(fs, e))
RK(e) == IF e.k = "VK" THEN RKASK(e.info) ELSE e.info

luaK_storevar(fs, var, ex) ==
  LET Store(x) ==
        freeexp(luaK_code(x.fs,
                  CASE var.k = "VUPVAL" -> Ins("SETUPVAL", x.e.info, var.info, 0)
                    [] var.k = "VGLOBAL" -> Ins("SETGLOBAL", x.e.info, var.info, 0)
                    [] var.k = "VINDEXED" ->
                         Ins("SETTABLE", var.info, var.aux, RK(x.e))), x.e)
  IN  CASE var.k = "VLOCAL" -> ToReg(freeexp(fs, ex), ex, var.info).fs
        [] var.k \in {"VUPVAL", "VGLOBAL"} -> Store(ToAnyReg(fs, ex))
        [] var.k = "VINDEXED" -> Store(ToRK(fs, ex))

luaK_self(fs, e, key) ==
  LET Code(a, func, k) ==
        R(freeexp(luaK_codeABC(k.fs, "SELF", func, a.e.info, RK(k.e)), k.e),
          [a.e EXCEPT !.k = "VNONRELOC", !.info = func])
      Self(a, s) == Code(a, s.freereg, ToRK(luaK_reserveregs(s, 2), key))
      Freed(a) == Self(a, freeexp(a.fs, a.e))
  IN  Freed(ToAnyReg(fs, e))

luaK_indexed(fs, t, k) ==
  LET Indexed(r) == R(r.fs, [t EXCEPT !.k = "VINDEXED", !.aux = RK(r.e)])
  IN  Indexed(ToRK(fs, k))
-----------------------------------------------------------------------------
(* Operators. *)

invertjump(fs, e) ==
  LET c == getjumpcontrol(fs, e.info)
  IN  [fs EXCEPT !.code[c + 1].a = 1 - @,
                 !.ok = @ /\ At(fs, c).op \in {"EQ", "LT", "LE"}]

\* The jump is the last instruction.
jumponcond(fs, e, cond) ==
  LET i == At(fs, e.info)
      Test(d) == condjump(freeexp(d.fs, d.e), "TESTSET", NO_REG, d.e.info, cond)
  IN  IF e.k = "VRELOCABLE" /\ i.op = "NOT"
      THEN condjump([fs EXCEPT !.code = Front(@)], "TEST", i.b, 0, 1 - cond)
      ELSE Test(discharge2anyreg(fs, e))
LastJump(fs) == R(fs, Pc(fs) - 1)
JumpOn(d, cond) == LastJump(luaK("jumponcond", d.fs, <<d.e, cond>>).fs)

luaK_goiftrue(fs, e) ==
  LET Jump(d) == CASE d.e.k \in {"VK", "VKNUM", "VTRUE"} -> R(d.fs, NO_JUMP)
                   [] d.e.k = "VFALSE" -> LastJump(luaK_jump(d.fs))
                   [] d.e.k = "VJMP" -> R(invertjump(d.fs, d.e), d.e.info)
                   [] OTHER -> JumpOn(d, 0)
      Insert(j, x) == luaK_concat(j.fs, x.f, j.e)
      Patch(c, x) == R(luaK_patchtohere(c.fs, x.t), [x EXCEPT !.f = c.e, !.t = NO_JUMP])
      Go(d) == Patch(Insert(Jump(d), d.e), d.e)
  IN  Go(Discharge(fs, e))

luaK_goiffalse(fs, e) ==
  LET Jump(d) == CASE d.e.k \in {"VNIL", "VFALSE"} -> R(d.fs, NO_JUMP)
                   [] d.e.k = "VTRUE" -> LastJump(luaK_jump(d.fs))
                   [] d.e.k = "VJMP" -> R(d.fs, d.e.info)
                   [] OTHER -> JumpOn(d, 1)
      Insert(j, x) == luaK_concat(j.fs, x.t, j.e)
      Patch(c, x) == R(luaK_patchtohere(c.fs, x.f), [x EXCEPT !.t = c.e, !.f = NO_JUMP])
      Go(d) == Patch(Insert(Jump(d), d.e), d.e)
  IN  Go(Discharge(fs, e))

codenot(fs, e) ==
  LET Code(a) == Reloc(freeexp(a.fs, a.e), a.e, Ins("NOT", 0, a.e.info, 0))
      Not(d) == CASE d.e.k \in {"VNIL", "VFALSE"} -> R(d.fs, [d.e EXCEPT !.k = "VTRUE"])
                  [] d.e.k \in {"VK", "VKNUM", "VTRUE"} ->
                       R(d.fs, [d.e EXCEPT !.k = "VFALSE"])
                  [] d.e.k = "VJMP" -> R(invertjump(d.fs, d.e), d.e)
                  [] OTHER -> Code(discharge2anyreg(d.fs, d.e))
      Exchanged(r) == R(removevalues(removevalues(r.fs, r.e.t), r.e.f),
                        [r.e EXCEPT !.t = r.e.f, !.f = r.e.t])
  IN  Exchanged(Not(Discharge(fs, e)))

\* luai_numadd to luai_nummod on the numbers of the model, the integers.
NumOp(op, x, y) ==
  CASE op = "ADD" -> x + y
    [] op = "SUB" -> x - y
    [] op = "MUL" -> x * y
    [] op = "MOD" -> IF y > 0 THEN x % y ELSE -((-x) % (-y))
    [] op = "UNM" -> -x
constfolding(op, e1, e2) ==
  /\ isnumeral(e1) /\ isnumeral(e2)
  /\ op \in Arithmetic \cup {"UNM"}
  /\ op = "MOD" => e2.info # 0

FreeBoth(r1, r2) == freeexp(freeexp(r2.fs, r2.e), r1.e)
codearith(fs, op, e1, e2) ==
  LET unary == op \in {"UNM", "LEN"}
      Code(r1, r2) == Reloc(FreeBoth(r1, r2), r1.e,
                            Ins(op, 0, RK(r1.e), IF unary THEN 0 ELSE RK(r2.e)))
      Second(r1) == Code(r1, IF unary THEN R(r1.fs, e2) ELSE ToRK(r1.fs, e2))
  IN  IF constfolding(op, e1, e2)
      THEN R(fs, [e1 EXCEPT !.info = NumOp(op, e1.info, e2.info)])
      ELSE Second(ToRK(fs, e1))

codecomp(fs, op, cond, e1, e2) ==
  LET Compare(s, o1, o2) == IF cond = 0 /\ op # "EQ" THEN condjump(s, op, 1, o2, o1)
                            ELSE condjump(s, op, cond, o1, o2)
      Jump(j, e) == R(j, [e EXCEPT !.k = "VJMP", !.info = Pc(j) - 1])
      Code(r1, r2) == Jump(Compare(FreeBoth(r1, r2), RK(r1.e), RK(r2.e)), r1.e)
      Second(r1) == Code(r1, ToRK(r1.fs, e2))
  IN  Second(ToRK(fs, e1))

ToArith(fs, op, e1, e2) == luaK("codearith", fs, <<op, e1, e2>>)
luaK_prefix(fs, op, e) ==
  LET Code(a) == ToArith(a.fs, IF op = "-" THEN "UNM" ELSE "LEN", a.e,
                       init_exp("VKNUM", 0))
  IN  IF op = "not" THEN codenot(fs, e)
      ELSE Code(IF op = "#" \/ e.k = "VK" THEN ToAnyReg(fs, e) ELSE R(fs, e))

luaK_infix(fs, op, v) ==
  CASE op = "and" -> luaK("goiftrue", fs, v)
    [] op = "or" -> luaK("goiffalse", fs, v)
    [] op = ".." -> ToNextReg(fs, v)
    [] OTHER -> IF isnumeral(v) THEN R(fs, v) ELSE ToRK(fs, v)

\* luaK_posfix: e1 is the operand that luaK_infix treated.
ArithOp == [x \in {"+", "-", "*", "%"} |->
              CASE x = "+" -> "ADD" [] x = "-" -> "SUB"
                [] x = "*" -> "MUL" [] OTHER -> "MOD"]
CompOp == [x \in {"==", "~=", "<", "<=", ">", ">="} |->
             CASE x \in {"==", "~="} -> "EQ" [] x \in {"<", ">"} -> "LT"
               [] OTHER -> "LE"]

luaK_posfix(fs, op, e1, e2) ==
  LET And(d, f) == R([f.fs EXCEPT !.ok = @ /\ e1.t = NO_JUMP], [d.e EXCEPT !.f = f.e])
      Or(d, t) == R([t.fs EXCEPT !.ok = @ /\ e1.f = NO_JUMP], [d.e EXCEPT !.t = t.e])
      Logic(d) == IF op = "and" THEN And(d, luaK_concat(d.fs, e1.f, d.e.f))
                  ELSE Or(d, luaK_concat(d.fs, e1.t, d.e.t))
      After(x) == ToArith(x.fs, "CONCAT", e1, x.e)
      Concat(v, i) ==
        IF v.e.k = "VRELOCABLE" /\ i.op = "CONCAT"
        THEN R([freeexp(v.fs, e1) EXCEPT !.code[v.e.info + 1].b = e1.info,
                                         !.ok = @ /\ e1.info = i.b - 1],
               [e1 EXCEPT !.k = v.e.k, !.info = v.e.info])
        ELSE After(ToNextReg(v.fs, v.e))
      Cat(v) == Concat(v, At(v.fs, v.e.info))
  IN  CASE op \in {"and", "or"} -> Logic(Discharge(fs, e2))
        [] op = ".." -> Cat(ToVal(fs, e2))
        [] op \in DOMAIN ArithOp -> ToArith(fs, ArithOp[op], e1, e2)
        [] op \in DOMAIN CompOp ->
             codecomp(fs, CompOp[op], IF op \in {"~=", ">", ">="} THEN 0 ELSE 1,
                      e1, e2)

luaK(routine, fs, x) ==
  CASE routine = "dischargevars" -> luaK_dischargevars(fs, x)
    [] routine = "discharge2reg" -> discharge2reg(fs, x[1], x[2])
    [] routine = "exp2reg" -> exp2reg(fs, x[1], x[2])
    [] routine = "exp2nextreg" -> luaK_exp2nextreg(fs, x)
    [] routine = "exp2anyreg" -> luaK_exp2anyreg(fs, x)
    [] routine = "exp2val" -> luaK_exp2val(fs, x)
    [] routine = "exp2RK" -> luaK_exp2RK(fs, x)
    [] routine = "storevar" -> R(luaK_storevar(fs, x[1], x[2]), x[2])
    [] routine = "self" -> luaK_self(fs, x[1], x[2])
    [] routine = "indexed" -> luaK_indexed(fs, x[1], x[2])
    [] routine = "jumponcond" -> R(jumponcond(fs, x[1], x[2]), x[1])
    [] routine = "goiftrue" -> luaK_goiftrue(fs, x)
    [] routine = "goiffalse" -> luaK_goiffalse(fs, x)
    [] routine = "codearith" -> codearith(fs, x[1], x[2], x[3])
    [] routine = "prefix" -> luaK_prefix(fs, x[1], x[2])
    [] routine = "infix" -> luaK_infix(fs, x[1], x[2])
    [] routine = "posfix" -> luaK_posfix(fs, x[1], x[2], x[3])

\* luaK_setlist: the number of the batch is operand C.
luaK_setlist(fs, base, nelems, tostore) ==
  [luaK_codeABC(fs, "SETLIST", base, IF tostore = LUA_MULTRET THEN 0 ELSE tostore,
                (nelems - 1) \div LFIELDS_PER_FLUSH + 1)
     EXCEPT !.freereg = base + 1]
=============================================================================
