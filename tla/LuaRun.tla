------------------------------- MODULE LuaRun -------------------------------
(***************************************************************************)
(* The way of a script: luacompile.c compiles it and writes the bytecode   *)
(* to a file, a host loads that file and the interpreter runs it, one      *)
(* instruction a step.  LuaParser compiles, LuaDump writes and loads,      *)
(* LuaVM runs; LuaLang says what the script means.                         *)
(***************************************************************************)
EXTENDS LuaDump, LuaParser, LuaVM

Lang == INSTANCE LuaLang

CONSTANTS
  Programs,  \* the scripts, a sequence of trees of LuaLang
  Worlds,    \* [space, host]: the blocks the disk takes, the host that loads
  Faults     \* <<i, what>>: what is known to be wrong with the code of script i

VARIABLES prog, world, phase, proto, file, vm
vars == <<prog, world, phase, proto, file, vm>>

None == <<>>
Init ==
  /\ prog \in DOMAIN Programs
  /\ world \in Worlds
  /\ phase = "source"
  /\ proto = None /\ file = None /\ vm = None

\* What a text compiles to and what it means depend on the text alone: both are
\* constants, which TLC evaluates once.  0 is the empty text.
Compiled ==
  [i \in 0..Len(Programs) |->
     luaY_parser(IF i = 0 THEN <<Token("eos", "")>> ELSE Lang!Tokens(Programs[i]))]
Meanings == [i \in DOMAIN Programs |-> Lang!Meaning(Programs[i])]

\* luaL_loadfile of a script, in the compiler: a syntax error ends it.
Compile ==
  /\ phase = "source"
  /\ \E r \in {Compiled[prog]} :
       /\ proto' = r.main
       /\ phase' = IF r.err THEN "rejected" ELSE "compiled"
  /\ UNCHANGED <<prog, world, file, vm>>

\* lua_dump with the writer of luacompile.c, which reports no error: what the
\* disk does not take is lost, and the compiler says that it saved the file.
writer(blocks) ==
  SubSeq(blocks, 1, IF Len(blocks) < world.space THEN Len(blocks) ELSE world.space)
Dump ==
  /\ phase = "compiled"
  /\ file' = writer(luaU_dump(proto, "here"))
  /\ phase' = "saved"
  /\ UNCHANGED <<prog, world, proto, vm>>

\* luaL_loadfile and f_parser: what does not begin with the signature of a
\* precompiled chunk is source text, an empty file too.
f_parser ==
  LET Source(r) == [err |-> r.err, v |-> r.main]
      Binary(S) == [err |-> S.err, v |-> S.v]
  IN  IF file = None THEN Source(Compiled[0])
      ELSE Binary(luaU_undump(file, world.host))
Load ==
  /\ phase = "saved"
  /\ \E r \in {f_parser} :
       IF r.err THEN phase' = "refused" /\ UNCHANGED vm
       ELSE phase' = "run" /\ vm' = Start(r.v)
  /\ UNCHANGED <<prog, world, proto, file>>

Execute ==
  /\ phase = "run" /\ vm.status = "run"
  /\ vm' = luaV_execute(vm)
  /\ UNCHANGED <<prog, world, phase, proto, file>>

Next == Compile \/ Dump \/ Load \/ Execute
Spec == Init /\ [][Next]_vars
-----------------------------------------------------------------------------
Running == phase = "run" /\ vm.status = "run"
Ended == phase = "run" /\ vm.status # "run"
\* The machine is well formed: the top is over the function of the last frame,
\* every frame is above the one that called it, an upvalue is open on a slot of
\* some frame, never on one that holds a running function, and no two on one;
\* and what luaV_execute asserts of the top: it is the top of the frame unless
\* the instruction at hand is one that takes open results (lvm.c:400).
TypeOK ==
  Running =>
    /\ LET f == Frame(vm)
       IN  vm.top = f.top \/ luaG_checkopenop(f.p.code[f.pc + 1])
    /\ vm.ci # <<>> /\ vm.top \in Frame(vm).func..STACK
    /\ \A i \in DOMAIN vm.ci :
         /\ vm.ci[i].base > vm.ci[i].func /\ vm.ci[i].top <= STACK
         /\ vm.ci[i].top = vm.ci[i].base + vm.ci[i].p.maxstack
         /\ vm.ci[i].pc \in 0..(Len(vm.ci[i].p.code) - 1)
         /\ i > 1 => vm.ci[i].func >= vm.ci[i - 1].base
    /\ \A i, j \in DOMAIN vm.cell :
         vm.cell[i].slot = vm.cell[j].slot => i = j \/ vm.cell[i].slot = -1
    /\ \A i \in DOMAIN vm.cell :
         /\ vm.cell[i].slot < Frame(vm).top
         /\ \A j \in DOMAIN vm.ci : vm.cell[i].slot # vm.ci[j].func

\* A script does what it says: the registers, jumps and constants that one pass
\* over the text gave it make the machine return the values, and leave in the
\* tables, what the meaning of the tree says, and fail when that fails.
Agrees(m) ==
  IF m.sig = "error" THEN vm.status = "error"
  ELSE /\ vm.status = "done"
       /\ Lang!Shown(Globals, vm.tab, 3) = Lang!Shown(Globals, m.tab, 3)
       /\ [i \in DOMAIN vm.ret |-> Lang!Shown(vm.ret[i], vm.tab, 3)]
            = [i \in DOMAIN m.ret |-> Lang!Shown(m.ret[i], m.tab, 3)]
Written == file # None  \* anything at all reached the disk

\* Every script does what it says, but for those listed as faults, which do not.
RunsAsWritten ==
  Ended /\ Written => (Agrees(Meanings[prog]) <=> <<prog, "meaning">> \notin Faults)

\* The compiler takes every script of the family. Its assertions hold: registers are
\* freed in the order they were taken (lcode.c:213), a block begins with no temporary
\* register; and the last one does, that the checker takes the bytecode of each function
\* (lparser.c:373). Exactly the scripts listed as faults fail the one or the other: a
\* comparison whose constants are too many, which frees the registers of its operands in
\* the wrong order, and a unary minus on nil, true or false, as luaK_prefix brings only a
\* constant of the table to a register before it negates it (lcode.c:691).
CompilesCleanly ==
  /\ phase # "rejected"
  /\ phase = "compiled" => /\ proto.ok <=> <<prog, "order">> \notin Faults
                           /\ CheckAll(proto) <=> <<prog, "check">> \notin Faults

\* What a host runs is what was compiled: a file written for another kind of machine,
\* or one that a full disk cut behind its first block, is refused, wherever it ends. If
\* nothing was written at all the host takes the empty file for the source of an empty
\* script, and runs that one instead.
LoadedIsCompiled ==
  phase = "run" =>
    IF Written THEN vm.fn[1].p = proto /\ world.host = "here"
    ELSE world.space = 0 /\ vm.fn[1].p = Compiled[0].main
=============================================================================
