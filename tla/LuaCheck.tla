------------------------------ MODULE LuaCheck ------------------------------
(***************************************************************************)
(* The code checker of lua-5.1/ldebug.c, which every loaded function has   *)
(* to pass.  The part of symbexec that finds the instruction which set a   *)
(* register, for error messages, is left out.                              *)
(***************************************************************************)
EXTENDS LuaCode

precheck(pt) ==
  /\ "needs" \in pt.vararg => "has" \in pt.vararg
  /\ pt.numparams + (IF "has" \in pt.vararg THEN 1 ELSE 0) <= pt.maxstack
  /\ Len(pt.code) > 0 /\ Last(pt.code).op = "RETURN"

luaG_checkopenop(i) == i.op \in {"CALL", "TAILCALL", "RETURN", "SETLIST"} /\ i.b = 0

checkreg(pt, r) == r < pt.maxstack
checkArgMode(pt, r, mode) ==
  CASE mode = "N" -> r = 0
    [] mode = "U" -> TRUE
    [] mode = "R" -> checkreg(pt, r)
    [] mode = "K" -> IF ISK(r) THEN INDEXK(r) < Len(pt.k) ELSE checkreg(pt, r)

\* What every instruction of a mode needs, and what each opcode needs.
Operands(pt, pc, i) ==
  IF i.op \in iABx THEN getBMode(i.op) = "K" => i.b < Len(pt.k)
  ELSE IF i.op \in iAsBx THEN pc + 1 + i.b \in 0..(Len(pt.code) - 1)
  ELSE /\ checkArgMode(pt, i.b, getBMode(i.op))
       /\ checkArgMode(pt, i.c, getCMode(i.op))

OpenOrFits(pt, pc, i, n) ==  \* n values from register a on, or open
  IF n = LUA_MULTRET THEN luaG_checkopenop(pt.code[pc + 2])
  ELSE n > 0 => checkreg(pt, i.a + n - 1)

Opcode(pt, pc, i) ==
  CASE i.op = "LOADBOOL" -> i.c = 0 \/ pc + 2 < Len(pt.code)
    [] i.op \in {"GETUPVAL", "SETUPVAL"} -> i.b < pt.nups
    [] i.op \in {"GETGLOBAL", "SETGLOBAL"} -> pt.k[i.b + 1][1] = "str"
    [] i.op = "SELF" -> checkreg(pt, i.a + 1)
    [] i.op = "CONCAT" -> i.b < i.c
    [] i.op = "TFORLOOP" -> i.c >= 1 /\ checkreg(pt, i.a + 2 + i.c)
    [] i.op \in {"FORLOOP", "FORPREP"} -> checkreg(pt, i.a + 3)
    [] i.op \in {"CALL", "TAILCALL"} ->
         /\ i.b # 0 => checkreg(pt, i.a + i.b - 1)
         /\ OpenOrFits(pt, pc, i, i.c - 1)
    [] i.op = "RETURN" -> i.b > 1 => checkreg(pt, i.a + i.b - 2)
    [] i.op = "SETLIST" -> i.b > 0 => checkreg(pt, i.a + i.b)
    [] i.op = "CLOSURE" ->
         /\ i.b < Len(pt.p)
         /\ pc + pt.p[i.b + 1].nups < Len(pt.code)
         /\ \A n \in 1..pt.p[i.b + 1].nups :
              pt.code[pc + 1 + n].op \in {"GETUPVAL", "MOVE"}
    [] i.op = "VARARG" ->
         /\ "is" \in pt.vararg /\ "needs" \notin pt.vararg
         /\ OpenOrFits(pt, pc, i, i.b - 1)
    [] OTHER -> TRUE

symbexec(pt, pc) ==
  LET i == pt.code[pc + 1]
  IN  /\ checkreg(pt, i.a)
      /\ Operands(pt, pc, i)
      /\ i.op \in testTMode =>
           pc + 2 < Len(pt.code) /\ pt.code[pc + 2].op = "JMP"
      /\ Opcode(pt, pc, i)

luaG_checkcode(pt) ==
  /\ precheck(pt)
  /\ \A pc \in 0..(Len(pt.code) - 1) : symbexec(pt, pc)
RECURSIVE CheckAll(_)
CheckAll(pt) == luaG_checkcode(pt) /\ \A i \in DOMAIN pt.p : CheckAll(pt.p[i])
=============================================================================
