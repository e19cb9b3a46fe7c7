------------------------------ MODULE LuaStack ------------------------------
(***************************************************************************)
(* Calls, errors and coroutines: lua-5.1/ldo.c with the parts of lstate.c, *)
(* lfunc.c, lvm.c, lapi.c, ldebug.c, lgc.c and lbaselib.c that move the    *)
(* stack and the list of CallInfo's.                                       *)
(*                                                                         *)
(* A thread is modelled by its positions: what is stored in a slot of the  *)
(* stack is left out, except that an open upvalue refers to a level.  The  *)
(* C stack, which all threads share, is the sequence `cs' of the C         *)
(* functions under way; a longjmp cuts it.  One step is what one C         *)
(* function does up to the call of the next.                               *)
(***************************************************************************)
EXTENDS Integers, Sequences, FiniteSets

CONSTANTS
  Main,        \* the main thread
  Coroutines,  \* the threads that may be created
  Fn,          \* the functions of the program
  Shape,       \* [Fn -> [isC, params, vararg, size, tm, visits]]: is it a C
               \* function, numparams, is_vararg, maxstacksize; or an object
               \* with __call; visits, for a call of an old-style vararg
               \* function, which makes a table: how often the collector visits
               \* the stack meanwhile (one function is here once for each)
  BASIC_STACK_SIZE, EXTRA_STACK, LUA_MINSTACK, BASIC_CI_SIZE,
  LUAI_MAXCALLS,
  CErrors,     \* LUAI_MAXCCALLS >> 3: the calls left for handling an overflow
  Args,        \* how many arguments calls have
  Worlds       \* the programs: the functions and coroutines they use, how
               \* many results functions give and calls want, the room that
               \* C functions reserve, whether a hook is set, whether the
               \* main thread does more than to resume, LUAI_MAXCCALLS, and
               \* a bound on the C functions under way

LUA_MULTRET == -1
Thread == {Main} \cup Coroutines

ASSUME StackAssumption ==
  /\ Main \notin Coroutines
  /\ Shape \in [Fn -> [isC : BOOLEAN, params : Nat, vararg : BOOLEAN,
                       size : Nat \ {0, 1}, tm : BOOLEAN, visits : 0..2]]
  /\ \A f \in Fn : Shape[f].visits > 0 => Shape[f].vararg /\ ~Shape[f].isC
  /\ {BASIC_STACK_SIZE, EXTRA_STACK, LUA_MINSTACK, BASIC_CI_SIZE,
      LUAI_MAXCALLS, CErrors} \subseteq Nat \ {0}
  /\ LUA_MINSTACK < BASIC_STACK_SIZE - 1 /\ BASIC_CI_SIZE <= LUAI_MAXCALLS
  /\ Args \subseteq Nat
  /\ Worlds \subseteq [fn : SUBSET Fn, co : SUBSET Coroutines,
                       give : SUBSET Nat, want : SUBSET (Nat \cup {LUA_MULTRET}), room : SUBSET Nat,
                       hook : BOOLEAN, main : BOOLEAN, ccalls : Nat, depth : Nat]

VARIABLES
  st,  \* [Thread -> the state of a thread]
  cs,  \* the C stack
  world
vars == <<st, cs, world>>
LUAI_MAXCCALLS == world.ccalls

(***************************************************************************)
(* A thread: status; top, base, last (stack_last) as indices into the      *)
(* stack; ci and sizeci; ncc (nCcalls); hookok (allowhook); errfunc, 0 for *)
(* none; open, the levels of open upvalues.                                *)
(*                                                                         *)
(* An entry of cs: k is "host" (the program that embeds Lua), "c" (a C     *)
(* function called by Lua), "hook", "exec" (luaV_execute, n its            *)
(* nexeccalls), "call" (luaD_call, `for' whom), "pcall" (luaD_pcall with   *)
(* what it saved), "resume" (lua_resume, `by' whom), "raise" (luaG_runerror*)
(* about to run), "throw" (luaD_throw about to run).                       *)
(***************************************************************************)
Dead == {"errrun", "errerr"}
Top == cs[Len(cs)]
Below == SubSeq(cs, 1, Len(cs) - 1)
LastCI(L) == L.ci[Len(L.ci)]
stacksize(L) == L.last + 1 + EXTRA_STACK
Never == [status |-> "none", top |-> 0, base |-> 0, last |-> 0, ci |-> <<>>,
          sizeci |-> 0, ncc |-> 0, hookok |-> TRUE, errfunc |-> 0, open |-> {}]

\* stack_init and preinit_state.
stack_init ==
  [status |-> "ok", top |-> 1, base |-> 1, last |-> BASIC_STACK_SIZE - 1,
   ci |-> <<[func |-> 0, base |-> 1, top |-> 1 + LUA_MINSTACK, nres |-> 0,
             fn |-> "none"]>>,
   sizeci |-> BASIC_CI_SIZE, ncc |-> 0, hookok |-> TRUE, errfunc |-> 0,
   open |-> {}]
-----------------------------------------------------------------------------
(* The stack and the CallInfo's of one thread. *)

\* luaD_checkstack and luaD_growstack.  All positions are relative to the
\* stack, so that correctstack leaves them as they are.
checkstack(L, n) ==
  IF L.last - L.top > n THEN L
  ELSE [L EXCEPT !.last = IF n <= stacksize(L) THEN 2 * stacksize(L)
                                               ELSE stacksize(L) + n]
incr_top(L) == [checkstack(L, 1) EXCEPT !.top = @ + 1]

\* lua_checkstack: room for n values above the top.
lua_checkstack(L, n) ==
  LET i == Len(L.ci)
      L1 == checkstack(L, n)
  IN  [L1 EXCEPT !.ci[i].top = IF @ < L1.top + n THEN L1.top + n ELSE @]

\* What auxresume does for the values it moves.
Receive(L, n) == [lua_checkstack(L, n) EXCEPT !.top = @ + n]

\* Slip: an overflow while an overflow is handled grows the list again.
SlipIncCI(L) ==
  IF Len(L.ci) < L.sizeci THEN [L |-> L, err |-> "no"]
  ELSE [L |-> [L EXCEPT !.sizeci = 2 * @],
        err |-> IF 2 * L.sizeci > LUAI_MAXCALLS THEN "errrun" ELSE "no"]

\* inc_ci and growCI: the thread and the error it ends with, if any.
inc_ci(L) ==
  IF Len(L.ci) < L.sizeci THEN [L |-> L, err |-> "no"]
  ELSE IF L.sizeci > LUAI_MAXCALLS THEN [L |-> L, err |-> "errerr"]
  ELSE [L |-> [L EXCEPT !.sizeci = 2 * @],
        err |-> IF 2 * L.sizeci > LUAI_MAXCALLS THEN "errrun" ELSE "no"]

\* What checkstacksizes compares: the top of the stack and that of each frame.
Tops(L) == {L.top} \cup {L.ci[i].top : i \in DOMAIN L.ci}

\* Slip: the tops of the frames are not looked at.
SlipCheckStackSizes(L) ==
  IF L.sizeci > LUAI_MAXCALLS THEN L
  ELSE [L EXCEPT
          !.sizeci = IF 4 * (Len(L.ci) - 1) < @ /\ 2 * BASIC_CI_SIZE < @
                     THEN @ \div 2 ELSE @,
          !.last = IF /\ 4 * L.top < stacksize(L)
                      /\ 2 * (BASIC_STACK_SIZE + EXTRA_STACK) < stacksize(L)
                   THEN stacksize(L) \div 2 ELSE @]

\* checkstacksizes, by the collector, when it visits the stack.
checkstacksizes(L) ==
  IF L.sizeci > LUAI_MAXCALLS THEN L
  ELSE [L EXCEPT
          !.sizeci = IF 4 * (Len(L.ci) - 1) < @ /\ 2 * BASIC_CI_SIZE < @
                     THEN @ \div 2 ELSE @,
          !.last = IF /\ \A p \in Tops(L) : 4 * p < stacksize(L)
                      /\ 2 * (BASIC_STACK_SIZE + EXTRA_STACK) < stacksize(L)
                   THEN stacksize(L) \div 2 ELSE @]

\* The collector visits the stack while n slots above the top are in use.
Visit(L, n) == [checkstacksizes([L EXCEPT !.top = @ + n]) EXCEPT !.top = L.top]

\* luaC_checkGC, at most one cycle: a stack is traversed when it is marked and
\* once more in atomic.
luaC_checkGC(L, n, visits) ==
  IF visits = 0 THEN L ELSE IF visits = 1 THEN Visit(L, n) ELSE Visit(Visit(L, n), n)

\* luaD_precall with the function at func and the arguments up to top:
\* tryfuncTM puts the method below the object; a Lua function gets a frame of
\* maxstacksize above its parameters, which adjust_varargs copies. It does so
\* after it made the table of an old-style vararg function, for which it lets
\* the collector run: the stack that was checked before may be shrunk by then.
luaD_precall(L0, func, nres, f) ==
  LET s == Shape[f]
      L1 == IF s.tm THEN incr_top(L0) ELSE L0
      L2 == checkstack(L1, IF s.isC THEN LUA_MINSTACK ELSE s.size)
      nargs == L2.top - func - 1
      missing == IF nargs < s.params THEN s.params - nargs ELSE 0
      base == IF s.vararg /\ ~s.isC THEN L2.top + missing ELSE func + 1
      L3 == luaC_checkGC(L2, missing, s.visits)
      grown == inc_ci(L3)
      ctop == IF s.isC THEN L2.top + LUA_MINSTACK ELSE base + s.size
      frame == [func |-> func, base |-> base, top |-> ctop, nres |-> nres,
                fn |-> f]
  IN  IF grown.err # "no" THEN grown
      ELSE [L |-> [grown.L EXCEPT !.ci = Append(@, frame), !.base = base,
                                  !.top = IF s.isC THEN @ ELSE ctop],
            err |-> "no"]

\* luaD_poscall: the results from `first' to the top move to the place of the
\* function, as many as were wanted.
luaD_poscall(L, first) ==
  LET f == LastCI(L)
      ci == SubSeq(L.ci, 1, Len(L.ci) - 1)
      n == IF f.nres = LUA_MULTRET THEN L.top - first ELSE f.nres
  IN  [L EXCEPT !.ci = ci, !.base = ci[Len(ci)].base, !.top = f.func + n]

luaF_close(L, level) == [L EXCEPT !.open = {l \in @ : l < level}]

\* restore_stack_limit: undo the growth that an overflow needed.
restore_stack_limit(L) ==
  IF L.sizeci > LUAI_MAXCALLS /\ Len(L.ci) < LUAI_MAXCALLS
  THEN [L EXCEPT !.sizeci = LUAI_MAXCALLS] ELSE L

\* adjustresults, at the end of lua_call and lua_pcall.
adjustresults(L, nres) ==
  LET i == Len(L.ci)
  IN  IF nres = LUA_MULTRET /\ L.top >= L.ci[i].top
      THEN [L EXCEPT !.ci[i].top = L.top] ELSE L
-----------------------------------------------------------------------------
(* Steps of the C stack.  Each operator gives the next value of st and cs. *)

Become(th, L, c) == st' = [st EXCEPT ![th] = L] /\ cs' = c
Raise(th) == [k |-> "raise", th |-> th]
Throw(th, code) == [k |-> "throw", th |-> th, code |-> code]
Failed(th, err) == IF err = "errerr" THEN Throw(th, "errerr") ELSE Raise(th)

\* What follows luaD_precall: a Lua function is executed (by a luaV_execute
\* under way when `same'), a C function called, or an error raised.
Enter(th, r, c, f, same) ==
  LET n == Len(c)
  IN  Become(th, r.L,
        IF r.err # "no" THEN Append(c, Failed(th, r.err))
        ELSE IF Shape[f].isC THEN Append(c, [k |-> "c", th |-> th])
        ELSE IF same THEN [c EXCEPT ![n].n = @ + 1]
        ELSE Append(c, [k |-> "exec", th |-> th, n |-> 1]))

\* Slip: the call of a metamethod is not counted.
SlipCall(th, L, func, nres, f, for, c) ==
  LET L1 == [L EXCEPT !.ncc = @ + (IF for = "tm" THEN 0 ELSE 1)]
      c1 == Append(c, [k |-> "call", th |-> th, for |-> for, nres |-> nres])
  IN  IF L1.ncc = LUAI_MAXCCALLS THEN Become(th, L1, Append(c1, Raise(th)))
      ELSE IF L1.ncc >= LUAI_MAXCCALLS + CErrors
      THEN Become(th, L1, Append(c1, Throw(th, "errerr")))
      ELSE Enter(th, luaD_precall(L1, func, nres, f), c1, f, FALSE)

\* luaD_call, which counts the nested C calls of its thread.
luaD_call(th, L, func, nres, f, for, c) ==
  LET L1 == [L EXCEPT !.ncc = @ + 1]
      c1 == Append(c, [k |-> "call", th |-> th, for |-> for, nres |-> nres])
  IN  IF L1.ncc = LUAI_MAXCCALLS THEN Become(th, L1, Append(c1, Raise(th)))
      ELSE IF L1.ncc >= LUAI_MAXCCALLS + CErrors
      THEN Become(th, L1, Append(c1, Throw(th, "errerr")))
      ELSE Enter(th, luaD_precall(L1, func, nres, f), c1, f, FALSE)

\* Slip: lua_pcall returns and its handler stays the error function.
SlipFinish(th, L, c) ==
  LET act == c[Len(c)]
      rest == SubSeq(c, 1, Len(c) - 1)
      L1 == [L EXCEPT !.ncc = @ - 1]
      L2 == adjustresults(L1, act.nres)
  IN  IF act.k = "resume" THEN FALSE
      ELSE IF act.for = "tm" THEN Become(th, [L1 EXCEPT !.top = @ - 1], rest)
      ELSE IF act.for = "handler"
      THEN Become(th, L1, Append(rest, Throw(th, "errrun")))
      ELSE Become(th, L2, IF act.for = "pcall" THEN SubSeq(rest, 1, Len(rest) - 1)
                                             ELSE rest)

\* What follows the return of a function whose results are in place: c is the
\* C stack without its activation.
Finish(th, L, c) ==
  LET act == c[Len(c)]
      rest == SubSeq(c, 1, Len(c) - 1)
      L1 == [L EXCEPT !.ncc = @ - 1]
      L2 == adjustresults(L1, act.nres)
  IN  CASE act.k = "call" /\ act.for = "tm" ->
             Become(th, [L1 EXCEPT !.top = @ - 1], rest)
        [] act.k = "call" /\ act.for = "api" -> Become(th, L2, rest)
        [] act.k = "call" /\ act.for = "handler" ->
             Become(th, L1, Append(rest, Throw(th, "errrun")))
        [] act.k = "call" /\ act.for = "pcall" ->
             LET p == rest[Len(rest)]
             IN  Become(th, [L2 EXCEPT !.errfunc = p.errfunc],
                        SubSeq(rest, 1, Len(rest) - 1))
        [] act.k = "resume" ->  \* auxresume moves all values to the resumer
             LET n == L.top - L.base
             IN  /\ st' = [st EXCEPT
                             ![th] = [L EXCEPT !.top = @ - n],
                             ![act.by] = Receive(@, n)]
                 /\ cs' = rest
-----------------------------------------------------------------------------
(* luaV_execute. *)

Running(kinds, th) == Top.k \in kinds /\ Top.th = th

\* The frame's own top; after an open call the results end the stack instead.
AtFrameTop(L) == L.top = LastCI(L).top

\* The register that is free for a call: above the variables in use, those
\* that closures refer to.
FreeRegs(L) == {r \in L.base .. LastCI(L).top :
                  /\ r = L.base \/ r - 1 \in L.open
                  /\ \A l \in L.open : l < r}
Fits(L, r, nargs) == r + nargs < L.base + Shape[LastCI(L).fn].size

\* OP_CALL: the function and its arguments from a free register on, or, when
\* the previous instruction left them open, up to the top.
OpCall(th, f, nargs, nres) ==
  LET L == st[th]
  IN  /\ Running({"exec"}, th)
      /\ \E r \in FreeRegs(L) :
           LET top == IF AtFrameTop(L) THEN r + 1 + nargs ELSE L.top
           IN  /\ Fits(L, r, nargs)
               /\ top > r
               /\ Enter(th, luaD_precall([L EXCEPT !.top = top], r, nres, f), cs,
                        f, TRUE)

\* Slip: a tail call leaves the upvalues of the replaced function open.
SlipTailCall(th, f, nargs) ==
  LET L == st[th]
      n == Len(L.ci)
      old == LastCI(L)
  IN  /\ Running({"exec"}, th)
      /\ AtFrameTop(L)
      /\ ~Shape[f].isC
      /\ \E r \in FreeRegs(L) :
           LET p == luaD_precall([L EXCEPT !.top = r + 1 + nargs], r, LUA_MULTRET, f)
               new == LastCI(p.L)
               base == old.func + (new.base - new.func)
               top == old.func + (p.L.top - new.func)
           IN  /\ Fits(L, r, nargs)
               /\ p.err = "no"
               /\ st' = [st EXCEPT ![th] =
                           [p.L EXCEPT !.base = base, !.top = top,
                              !.ci = [SubSeq(@, 1, n) EXCEPT ![n].base = base,
                                        ![n].top = top, ![n].fn = f]]]
      /\ UNCHANGED cs

\* OP_TAILCALL of a Lua function: the new frame replaces the previous one.
OpTailCall(th, f, nargs) ==
  LET L == st[th]
      n == Len(L.ci)
      old == LastCI(L)
  IN  /\ Running({"exec"}, th)
      /\ AtFrameTop(L)
      /\ ~Shape[f].isC
      /\ \E r \in FreeRegs(L) :
           LET p == luaD_precall([L EXCEPT !.top = r + 1 + nargs], r, LUA_MULTRET, f)
               new == LastCI(p.L)
               base == old.func + (new.base - new.func)
               top == old.func + (p.L.top - new.func)
           IN  /\ Fits(L, r, nargs)
               /\ IF p.err # "no" THEN Enter(th, p, cs, f, TRUE)
                  ELSE /\ st' = [st EXCEPT ![th] =
                                   [luaF_close(p.L, old.base) EXCEPT
                                      !.base = base, !.top = top,
                                      !.ci = [SubSeq(@, 1, n) EXCEPT
                                                ![n].base = base, ![n].top = top,
                                                ![n].fn = f]]]
                       /\ UNCHANGED cs

\* OP_RETURN with n results, or all up to the top: upvalues are closed.
OpReturn(th, n) ==
  LET L == st[th]
      L1 == IF AtFrameTop(L) THEN [L EXCEPT !.top = L.base + n] ELSE L
      L2 == luaD_poscall(luaF_close(L1, L.base), L.base)
      L3 == IF LastCI(L).nres # LUA_MULTRET
            THEN [L2 EXCEPT !.top = LastCI(L2).top] ELSE L2
  IN  /\ Running({"exec"}, th)
      /\ Shape[LastCI(L).fn].size >= n
      /\ IF Top.n = 1 THEN Finish(th, L2, Below)
         ELSE Become(th, L3, Append(Below, [Top EXCEPT !.n = @ - 1]))

\* OP_SETLIST: an open list ends, the frame has its top again.
OpSetList(th) ==
  LET L == st[th]
  IN  /\ Running({"exec"}, th)
      /\ ~AtFrameTop(L)
      /\ Become(th, [L EXCEPT !.top = LastCI(L).top], cs)

\* callTMres: any operation with a metamethod; three values are pushed above
\* the frame.
CallTM(th, f) ==
  LET L == st[th]
      L1 == [checkstack(L, 3) EXCEPT !.top = @ + 3]
  IN  /\ Running({"exec"}, th)
      /\ AtFrameTop(L)
      /\ luaD_call(th, L1, L.top, 1, f, "tm", cs)

\* OP_CLOSURE: luaF_findupval of a local variable of the running function.
Capture(th, level) ==
  LET L == st[th]
  IN  /\ Running({"exec"}, th)
      /\ AtFrameTop(L)
      /\ level \in L.base..(L.top - 1)
      /\ Become(th, [L EXCEPT !.open = @ \cup {level}], cs)

\* Any error of an instruction, luaG_runerror.
OpError(th) ==
  /\ Running({"exec"}, th)
  /\ AtFrameTop(st[th])
  /\ Become(th, st[th], Append(cs, Raise(th)))

\* luaD_callhook from traceexec.
Hook(th) ==
  LET L == st[th]
      i == Len(L.ci)
      L1 == checkstack(L, LUA_MINSTACK)
  IN  /\ Running({"exec"}, th)
      /\ world.hook /\ L.hookok
      /\ Become(th, [L1 EXCEPT !.hookok = FALSE,
                               !.ci[i].top = L1.top + LUA_MINSTACK],
                Append(cs, [k |-> "hook", th |-> th, top |-> L.top,
                            ctop |-> L.ci[i].top]))
-----------------------------------------------------------------------------
(* C functions, the host program and hooks: the API. *)

InC(th) == Running({"c", "host", "hook"}, th)
Room(L, n) == L.top + n <= LastCI(L).top

\* lua_call of a function pushed with its arguments; there is room for the
\* results (checkresults).
lua_call(th, f, nargs, nres) ==
  LET L == [st[th] EXCEPT !.top = @ + nargs + 1]
  IN  /\ InC(th)
      /\ Room(st[th], 1 + nargs)
      /\ nres # LUA_MULTRET => Room(st[th], 1 + nres)
      /\ luaD_call(th, L, st[th].top, nres, f, "api", cs)

\* lua_pcall and luaD_pcall; the handler h, 0 for none, is below the function.
lua_pcall(th, f, nargs, h) ==
  LET L == st[th]
      func == L.top + (IF h THEN 1 ELSE 0)
      L1 == [L EXCEPT !.top = func + nargs + 1,
                      !.errfunc = IF h THEN L.top ELSE 0]
      act == [k |-> "pcall", th |-> th, top |-> func, ncc |-> L.ncc,
              ci |-> Len(L.ci), hookok |-> L.hookok, errfunc |-> L.errfunc]
  IN  /\ InC(th)
      /\ Room(L, 2 + nargs)
      /\ luaD_call(th, L1, func, LUA_MULTRET, f, "pcall", Append(cs, act))

\* The C function returns n results; a hook restores the top.
CReturn(th, n) ==
  LET L == st[th]
      i == Len(L.ci)
      L1 == luaD_poscall(L, L.top - n)
  IN  \/ /\ Running({"c"}, th)
         /\ n <= L.top - L.base
         /\ IF cs[Len(cs) - 1].k = "exec"
            THEN Become(th, IF LastCI(L).nres >= 0
                            THEN [L1 EXCEPT !.top = LastCI(L1).top] ELSE L1,
                        Below)
            ELSE Finish(th, L1, Below)
      \/ /\ Running({"hook"}, th)
         /\ n = 0
         /\ Become(th, [L EXCEPT !.hookok = TRUE, !.top = Top.top,
                                 !.ci[i].top = Top.ctop], Below)

lua_error(th) ==
  /\ Running({"c", "hook"}, th)
  /\ Become(th, st[th], Append(cs, Raise(th)))

luaE_newthread(co) == [st EXCEPT ![co] = stack_init]

\* coroutine.create: the function is on the stack of the new thread.
CoCreate(th, co) ==
  /\ InC(th)
  /\ st[co].status = "none"
  /\ st' = [luaE_newthread(co) EXCEPT ![co].top = @ + 1]
  /\ UNCHANGED cs

\* lua_checkstack by a C function.
Reserve(th, n) ==
  /\ Running({"c"}, th)
  /\ Become(th, lua_checkstack(st[th], n), cs)

\* resume, of a coroutine that yielded: what follows the call of yield, which
\* returns the n values on top, or the hook.
Resumed(C, n) ==
  LET y == LastCI(C)
      P == luaD_poscall(C, C.top - n)
  IN  IF Shape[y.fn].isC
      THEN [P EXCEPT !.status = "ok",
                     !.top = IF y.nres # LUA_MULTRET THEN LastCI(P).top ELSE @]
      ELSE [C EXCEPT !.status = "ok", !.base = y.base]

\* lua_resume, from auxresume (lbaselib.c), with n arguments, of a coroutine
\* whose body is f: it starts, or goes on after the call of yield, in Lua.
Startable(co) == st[co].status = "ok" /\ Len(st[co].ci) = 1 /\ st[co].top > 1
Resumable(co) == st[co].status = "yield" \/ Startable(co)
CoResume(th, co, f, n) ==
  LET C == Receive(st[co], n)
      c1 == Append(cs, [k |-> "resume", th |-> co, by |-> th])
      C1 == Resumed(C, n)
  IN  /\ InC(th)
      /\ Room(st[th], 1)
      /\ IF Startable(co)
         THEN /\ ~Shape[f].isC
              /\ Enter(co, luaD_precall(C, C.top - n - 1, LUA_MULTRET, f), c1,
                       f, FALSE)
         ELSE /\ st[co].status = "yield"
              /\ ~Shape[LastCI(C).fn].isC => n = 0
              /\ Become(co, C1, Append(c1, [k |-> "exec", th |-> co,
                                            n |-> Len(C1.ci) - 1]))

\* lua_resume of any other coroutine: the message replaces what the frame of
\* the coroutine holds, and auxresume takes it away again.
BadResume(th, co) ==
  LET L == st[co]
  IN  /\ InC(th)
      /\ co # th
      /\ L.status # "none" /\ ~Resumable(co)
      /\ Room(st[th], 1)
      /\ st' = [st EXCEPT
                  ![co].top = IF L.status = "ok" /\ L.top = L.base THEN @
                              ELSE LastCI(L).base,
                  ![th].top = @ + 1]
      /\ UNCHANGED cs

\* lua_yield: the C function returns at once, and so do luaV_execute and
\* lua_resume; the resumer gets the n values.  Across a C call it is an error.
lua_yield(th, n) ==
  LET L == st[th]
      i == Len(L.ci)
      call == cs[Len(cs) - 2]
      ishook == Top.k = "hook"
      L1 == IF ishook THEN [L EXCEPT !.hookok = TRUE, !.top = Top.top,
                                     !.ci[i].top = Top.ctop] ELSE L
  IN  /\ Running({"c", "hook"}, th)
      /\ n <= L.top - L.base
      /\ IF L.ncc > 0 THEN Become(th, L, Append(cs, Raise(th)))
         ELSE /\ ishook => n = 0
              /\ st' = [st EXCEPT
                          ![th] = [L1 EXCEPT !.status = "yield",
                                             !.base = L1.top - n,
                                             !.top = L1.top - n],
                          ![call.by] = Receive(@, n)]
              /\ cs' = SubSeq(cs, 1, Len(cs) - 3)

\* lua_settop(L, 0): a C function or the host drops what it has.
lua_settop(th) ==
  /\ InC(th)
  /\ Top.k # "hook"
  /\ st' = [st EXCEPT ![th].top = st[th].base]
  /\ UNCHANGED cs
-----------------------------------------------------------------------------
(* Errors. *)

\* luaG_runerror and luaG_errormsg: the message is pushed and the handler of
\* the innermost lua_pcall, if any, called before the jump.
luaG_runerror(f) ==
  LET th == Top.th
      L == incr_top(st[th])
      L1 == incr_top(L)
  IN  /\ Top.k = "raise"
      /\ IF L.errfunc = 0
         THEN Become(th, L, Append(Below, Throw(th, "errrun")))
         ELSE luaD_call(th, L1, L1.top - 2, 1, f, "handler", Below)

\* luaD_throw: the jump to the innermost lua_pcall or lua_resume of the
\* thread, and what these do then; without one the program exits.
Catchers(th) == {i \in DOMAIN cs : cs[i].k \in {"pcall", "resume"} /\ cs[i].th = th}

\* Slip: an error caught leaves the calls it cut counted.
SlipCaught(L, p) ==
  LET L1 == luaF_close(L, p.top)
      L2 == [L1 EXCEPT !.top = p.top + 1, !.ci = SubSeq(@, 1, p.ci),
                       !.base = L.ci[p.ci].base, !.hookok = p.hookok,
                       !.errfunc = p.errfunc]
  IN  adjustresults(restore_stack_limit(L2), LUA_MULTRET)

\* luaD_pcall after an error.
Caught(L, p) ==
  LET L1 == luaF_close(L, p.top)
      L2 == [L1 EXCEPT !.top = p.top + 1, !.ncc = p.ncc,
                       !.ci = SubSeq(@, 1, p.ci), !.base = L.ci[p.ci].base,
                       !.hookok = p.hookok, !.errfunc = p.errfunc]
  IN  adjustresults(restore_stack_limit(L2), LUA_MULTRET)

\* resetstack, before the panic function is called and the program exits.
resetstack(L, code) ==
  restore_stack_limit(
    [L EXCEPT !.status = code, !.ci = SubSeq(@, 1, 1), !.base = L.ci[1].base,
              !.open = {}, !.top = L.ci[1].base + 1, !.ncc = 0,
              !.hookok = TRUE, !.errfunc = 0])

luaD_throw ==
  LET th == Top.th
      L == st[th]
      C == Catchers(th)
      i == CHOOSE m \in C : \A j \in C : j <= m
      n == Len(L.ci)
  IN  /\ Top.k = "throw"
      /\ IF C = {}
         THEN /\ st' = [st EXCEPT ![th] = resetstack(@, Top.code)]
              /\ cs' = <<>>
         ELSE /\ cs' = SubSeq(cs, 1, i - 1)
              /\ IF cs[i].k = "pcall"
                 THEN st' = [st EXCEPT ![th] = Caught(L, cs[i])]
                 ELSE st' = [st EXCEPT
                               ![th] = [L EXCEPT !.status = Top.code,
                                                 !.ci[n].top = L.top + 1],
                               ![cs[i].by].top = @ + 1]
-----------------------------------------------------------------------------
\* traversestack, by the collector, on any thread.
Shrink(th) ==
  /\ st[th].status # "none"
  /\ st' = [st EXCEPT ![th] = checkstacksizes(@)]
  /\ UNCHANGED cs

Init ==
  /\ st = [th \in Thread |-> IF th = Main THEN stack_init ELSE Never]
  /\ cs = <<[k |-> "host", th |-> Main]>>
  /\ world \in Worlds

Call(th) ==
  \E f \in world.fn, n \in Args :
    \/ \E co \in world.co : CoResume(th, co, f, n)
    \/ /\ world.main \/ th # Main
       /\ \/ \E w \in world.want : lua_call(th, f, n, w)
          \/ \E h \in BOOLEAN : lua_pcall(th, f, n, h)
          \/ CallTM(th, f)

Step(th) ==
  \/ Len(cs) < world.depth /\ Call(th)
  \/ \E f \in world.fn, n \in Args :
       \/ \E w \in world.want : OpCall(th, f, n, w)
       \/ OpTailCall(th, f, n)
  \/ \E n \in world.give : OpReturn(th, n) \/ CReturn(th, n) \/ lua_yield(th, n)
  \/ \E level \in 0..LUA_MINSTACK : Capture(th, st[th].base + level)
  \/ \E n \in world.room : Reserve(th, n)
  \/ OpSetList(th) \/ OpError(th) \/ lua_error(th) \/ Hook(th)
  \/ \E co \in world.co : CoCreate(th, co) \/ BadResume(th, co)
  \/ lua_settop(th)

Next ==
  /\ cs # <<>>
  /\ \/ Top.k \in {"exec", "c", "host", "hook"} /\ Step(Top.th)
     \/ \E f \in world.fn : luaG_runerror(f)
     \/ luaD_throw
     \/ \E th \in Thread : Shrink(th)
  /\ UNCHANGED world

Spec == Init /\ [][Next]_vars
-----------------------------------------------------------------------------
(* Properties. *)

Used(th) == st[th].status # "none"
Count(kind, th) == Cardinality({i \in DOMAIN cs : cs[i].k = kind /\ cs[i].th = th})

\* Every variable has its type, and the base of a thread
\* is that of its last CallInfo.
TypeOK ==
  \A th \in Thread : Used(th) =>
    LET L == st[th]
    IN  /\ L.status \in {"ok", "yield"} \cup Dead
        /\ {L.top, L.base, L.last, L.sizeci, L.ncc, L.errfunc} \subseteq Nat
        /\ L.open \subseteq Nat
        /\ L.ci[1].base = 1
        /\ L.status = "ok" => L.base = LastCI(L).base
        /\ \A i \in 2..Len(L.ci) : L.ci[i].fn \in Fn

\* "lua_assert(ci->top <= L->stack_last)" (ldo.c:292, lgc.c:262): no frame
\* reaches over the end of the stack, and the top stays in the part that may
\* be used without a check, through growth, tail calls, hooks, resumption and
\* the shrinking by the collector.  Every variable has its type.
FramesInStack ==
  /\ TypeOK
  /\ \A th \in Thread : Used(th) =>
       /\ \A i \in DOMAIN st[th].ci : st[th].ci[i].top <= st[th].last
       /\ st[th].top <= st[th].last + EXTRA_STACK

\* nCcalls counts the calls of luaD_call under way in the thread, however
\* they are left (ldo.c:374 to 385, 458 to 480): so the limit is never lowered
\* by errors caught, and lua_yield allows exactly what it can do.
CallsCounted ==
  \A th \in Thread :
    st[th].status \in {"ok", "yield"} => st[th].ncc = Count("call", th)

\* A function that lua_yield lets yield was called by luaV_execute, and that
\* by lua_resume: no C function in between would be skipped (ldo.c:446 to 455).
YieldReachesResume ==
  cs # <<>> /\ Top.k \in {"c", "hook"} /\ st[Top.th].ncc = 0 =>
    /\ cs[Len(cs) - 1].k = "exec"
    /\ cs[Len(cs) - 2].k = "resume" /\ cs[Len(cs) - 2].th = Top.th

\* An open upvalue belongs to a Lua function whose frame is still there: the
\* variables of functions that returned, were replaced by a tail call or were
\* left by an error are closed (lfunc.c:96 to 112).
NoStaleUpvalue ==
  \A th \in Thread : \A l \in st[th].open :
    \E i \in 2..Len(st[th].ci) :
      /\ ~Shape[st[th].ci[i].fn].isC
      /\ st[th].ci[i].base <= l /\ l < st[th].ci[i].top

\* The error function is that of the innermost lua_pcall of the thread under
\* way (ldo.c:465, 482), and never one whose frame is gone.
HandlerIsInnermost ==
  \A th \in Thread : st[th].status \in {"ok", "yield"} =>
    LET P == {i \in DOMAIN cs : cs[i].k = "pcall" /\ cs[i].th = th}
    IN  IF P = {} THEN st[th].errfunc = 0
        ELSE LET i == CHOOSE m \in P : \A j \in P : j <= m
             IN  st[th].errfunc \in {0, cs[i].top - 1}

\* The list of CallInfo's is larger than the limit only while an overflow is
\* handled, and a nested overflow ends in an error (ldo.c:66 to 73, 169 to 178).
OverflowContained ==
  \A th \in Thread : Used(th) =>
    LET L == st[th]
    IN  /\ L.sizeci <= 2 * LUAI_MAXCALLS /\ L.ncc <= LUAI_MAXCCALLS + CErrors
        /\ Len(L.ci) <= L.sizeci
=============================================================================
