------------------------------- MODULE LuaGC -------------------------------
(***************************************************************************)
(* The incremental collector of lua-5.1/lgc.c together with the operations *)
(* of the program (lapi.c, lvm.c, lfunc.c, lstring.c, lstate.c) that       *)
(* create objects and change references between two of its steps.          *)
(*                                                                         *)
(* An object is a member of Obj with a fixed kind; "free" in the mark      *)
(* field stands for memory that is not an object.  The two white bits and  *)
(* the black bit are one colour.  The lists linked through `gclist' are    *)
(* sets: the order in which gray objects are visited is any order.  The    *)
(* list of userdata keeps its order, which is the order of finalization.   *)
(* A table has one entry; a thread has its stack of collectable values.    *)
(***************************************************************************)
EXTENDS Naturals, Sequences, FiniteSets

CONSTANTS
  Obj,        \* every address an object may have
  Nil,        \* no object: NULL, nil, or a value that is not collectable
  Main,       \* g->mainthread
  Globals,    \* gt(g->mainthread) when the state is created
  Registry,   \* registry(L)
  Kind,       \* [Obj -> Kinds]: the tag gch.tt
  Mode,       \* [Obj -> SUBSET {"k", "v"}]: __mode of a table, as metatable
  HasGC,      \* the tables that have a __gc field
  Worlds,     \* sets of addresses: a behaviour allocates in one of them
  Bounds      \* [Worlds -> record]: what the program does in that world

(***************************************************************************)
(* The fields of Bounds[W]:                                                *)
(*   targets  the tables the program assigns to                            *)
(*   keys, values  the objects it uses as keys and stores in tables        *)
(*   metas, envs   the tables it sets as metatables and environments       *)
(*   depth    the number of values on the stack of each thread             *)
(*   ends     whether it calls collectgarbage and lua_close, and passes    *)
(*            values between coroutines                                    *)
(***************************************************************************)
Kinds == {"table", "udata", "lclosure", "cclosure", "upval", "thread",
          "string", "proto"}
Slots == {"mt", "env", "key", "val"}
OfKind(k) == {o \in Obj : Kind[o] = k}
Threads == OfKind("thread")
UpVals == OfKind("upval")
Udata == OfKind("udata")

ASSUME GCAssumption ==
  /\ IsFiniteSet(Obj) /\ Nil \notin Obj
  /\ Kind \in [Obj -> Kinds]
  /\ Main \in Threads
  /\ {Globals, Registry} \subseteq OfKind("table")
  /\ Globals # Registry
  /\ Mode \in [Obj -> SUBSET {"k", "v"}]
  /\ HasGC \subseteq OfKind("table")
  /\ Bounds \in [Worlds -> [targets : SUBSET OfKind("table"),
                            keys : SUBSET Obj, values : SUBSET Obj,
                            metas : SUBSET OfKind("table"),
                            envs : SUBSET OfKind("table"),
                            depth : [Threads -> Nat \ {0}], ends : BOOLEAN]]
  /\ \A W \in Worlds : W \subseteq Obj /\ {Main, Globals, Registry} \subseteq W

VARIABLES
  world,      \* the addresses of this behaviour
  mark,       \* colour of an object, "free" where there is none
  fin,        \* userdata whose FINALIZEDBIT is set
  fld,        \* the references an object holds
  stack,      \* the live part of each thread's stack
  open,       \* open upvalue -> thread and level; the empty record otherwise
  cur,        \* the running thread
  basic,      \* g->mt: a metatable of a basic type
  gcstate,    \* the collector's state; the phases of `atomic' have their own
  white,      \* g->currentwhite
  gray, grayagain, weak,     \* the lists of the mark phase
  udlist,     \* the userdata of the list after the main thread, newest first
  tmudata,    \* userdata to be finalized, first to go first
  unswept,    \* what the sweep has still to visit
  sweepgc,    \* the userdata whose `next' is the sweep's position, if any
  full,       \* luaC_fullgc: 0 not running, 1 finishing a sweep, 2 collecting
  closing,    \* lua_close has begun
  calls       \* history: how often the __gc of each userdata has been called

gcvars == <<gcstate, white, gray, grayagain, weak, unswept, sweepgc, full>>
vars == <<world, mark, fin, fld, stack, open, cur, basic, gcstate, white,
          gray, grayagain, weak, udlist, tmudata, unswept, sweepgc, full,
          closing, calls>>

Bound == Bounds[world]
Whites == {"w0", "w1"}
OtherWhite == IF white = "w0" THEN "w1" ELSE "w0"
IsWhite(o) == mark[o] \in Whites
IsDead(o) == mark[o] = OtherWhite
Alive(o) == mark[o] # "free"
NotOpen == [th |-> Nil, lvl |-> 0]
IsOpen(uv) == open[uv] # NotOpen
OpenOf(th) == {uv \in UpVals : open[uv].th = th}
NoRefs == [s \in Slots |-> Nil]
AtomicStates == {"remark1", "remark2", "remark3", "remark4"}
MarkStates == {"propagate"} \cup AtomicStates
SweepStates == {"sweepstring", "sweep"}
\* The program runs: not during `atomic' or luaC_fullgc, and once lua_close
\* has begun only in the finalizers it calls.
Idle == closing /\ cur = Main /\ stack[Main] = <<>>
Stopped == full # 0 \/ Idle \/ gcstate \in AtomicStates \cup {"closed"}

\* The value an upvalue refers to: a stack slot or its own field.
UpValue(uv) == IF IsOpen(uv) THEN stack[open[uv].th][open[uv].lvl]
                             ELSE fld[uv]["val"]
ModeOf(t) == IF fld[t]["mt"] = Nil THEN {} ELSE Mode[fld[t]["mt"]]
NeedsGC(u) == fld[u]["mt"] # Nil /\ fld[u]["mt"] \in HasGC
StackValues(th) == {stack[th][i] : i \in DOMAIN stack[th]}
\* A prototype is on the stack while it is compiled, but is not a Lua value.
LuaValues(th) == StackValues(th) \ OfKind("proto")
-----------------------------------------------------------------------------
(* Marking. *)

UdataRefs(S) == UNION {{fld[u]["mt"], fld[u]["env"]} : u \in S \cap Udata}
WhiteOf(S) == {o \in S \ {Nil} : IsWhite(o)}

\* reallymarkobject on every white object of S: an upvalue marks its value
\* and a userdata its two tables at once, the rest goes to the gray list.
Reached(S) ==
  LET direct == WhiteOf(S)
      values == direct \cup WhiteOf({UpValue(uv) : uv \in direct \cap UpVals})
  IN  values \cup WhiteOf(UdataRefs(values))

Colour(o) == IF o \in Udata \/ (o \in UpVals /\ ~IsOpen(o))
             THEN "black" ELSE "gray"
Marked(S) == LET R == Reached(S)
             IN  [o \in Obj |-> IF o \in R THEN Colour(o) ELSE mark[o]]
Grayed(S) == Reached(S) \ (Udata \cup UpVals \cup OfKind("string"))

\* What traversetable, traverseclosure, traverseproto and traversestack mark.
Traversed(o) ==
  CASE Kind[o] = "table" ->
         {fld[o]["mt"]}
           \cup (IF fld[o]["val"] = Nil \/ "k" \in ModeOf(o) THEN {}
                 ELSE {fld[o]["key"]})
           \cup (IF "v" \in ModeOf(o) THEN {} ELSE {fld[o]["val"]})
    [] Kind[o] = "thread" -> {fld[o]["env"]} \cup StackValues(o)
    [] OTHER -> {fld[o][s] : s \in Slots}

\* markroot: the lists are reset and the roots marked.
MarkRoot ==
  LET roots == {Main, fld[Main]["env"], Registry, basic}
  IN  /\ mark' = Marked(roots)
      /\ gray' = Grayed(roots)
      /\ grayagain' = {}
      /\ weak' = {}
      /\ gcstate' = "propagate"

StartCycle ==
  /\ \/ gcstate = "pause" /\ UNCHANGED full
     \/ full = 1 /\ gcstate = "finalize" /\ full' = 2
  /\ MarkRoot
  /\ UNCHANGED <<world, fin, fld, stack, open, cur, basic, white, udlist,
                 tmudata, unswept, sweepgc, closing, calls>>

\* propagatemark: one gray object is traversed; a weak table stays gray on
\* its list, a thread stays gray and will be visited again.
Propagate(o) ==
  /\ gcstate \in MarkStates
  /\ o \in gray
  /\ LET S == Traversed(o)
         isweak == Kind[o] = "table" /\ ModeOf(o) # {}
     IN  /\ mark' = [Marked(S) EXCEPT
                       ![o] = IF isweak \/ o \in Threads
                              THEN "gray" ELSE "black"]
         /\ gray' = (gray \ {o}) \cup Grayed(S)
         /\ weak' = IF isweak THEN weak \cup {o} ELSE weak
         /\ grayagain' = IF o \in Threads THEN grayagain \cup {o}
                                          ELSE grayagain
  /\ UNCHANGED <<world, fin, fld, stack, open, cur, basic, gcstate, white,
                 udlist, tmudata, unswept, sweepgc, full, closing,
                 calls>>

\* atomic, up to its first propagateall: remarkupvals.
RemarkUpvals ==
  /\ gcstate = "propagate"
  /\ gray = {}
  /\ LET S == {UpValue(uv) : uv \in {x \in UpVals :
                                       IsOpen(x) /\ mark[x] = "gray"}}
     IN  mark' = Marked(S) /\ gray' = Grayed(S)
  /\ gcstate' = "remark1"
  /\ UNCHANGED <<world, fin, fld, stack, open, cur, basic, white, grayagain,
                 weak, udlist, tmudata, unswept, sweepgc, full, closing,
                 calls>>

\* atomic, second part: the weak tables again, the running thread and the
\* basic metatables.
RemarkWeak ==
  /\ gcstate = "remark1"
  /\ gray = {}
  /\ mark' = Marked({cur, basic})
  /\ gray' = weak \cup Grayed({cur, basic})
  /\ weak' = {}
  /\ gcstate' = "remark2"
  /\ UNCHANGED <<world, fin, fld, stack, open, cur, basic, white, grayagain,
                 udlist, tmudata, unswept, sweepgc, full, closing,
                 calls>>

\* atomic, third part: what the barriers and the threads left to be redone.
RemarkAgain ==
  /\ gcstate = "remark2"
  /\ gray = {}
  /\ gray' = grayagain
  /\ grayagain' = {}
  /\ gcstate' = "remark3"
  /\ UNCHANGED <<world, mark, fin, fld, stack, open, cur, basic, white, weak,
                 udlist, tmudata, unswept, sweepgc, full, closing,
                 calls>>

\* Slip: a userdata already finalized is taken again.
SlipSeparable(all) == {i \in DOMAIN udlist : IsWhite(udlist[i]) \/ all}

\* The elements of a list that are in T, in their order.
Only(list, T) ==
  LET I == {i \in DOMAIN list : list[i] \in T}
      n == Cardinality(I)
      at == CHOOSE f \in [1..n -> I] : \A i, j \in 1..n : i < j => f[i] < f[j]
  IN  [i \in 1..n |-> list[at[i]]]

\* luaC_separateudata: `dead' userdata that need it go to tmudata, in order.
Separable(all) ==
  {i \in DOMAIN udlist : (IsWhite(udlist[i]) \/ all) /\ udlist[i] \notin fin}
Separate(all) ==
  LET seen == {udlist[i] : i \in Separable(all)}
      go == {u \in seen : NeedsGC(u)}
  IN  /\ fin' = fin \cup seen
      /\ tmudata' = tmudata \o Only(udlist, go)
      /\ udlist' = Only(udlist, Udata \ go)

\* atomic, fourth part: separate the userdata to be finalized, and marktmu
\* makes each one white and marks it, whatever it was.
SeparateAndMark ==
  /\ gcstate = "remark3"
  /\ gray = {}
  /\ Separate(FALSE)
  /\ LET T == {tmudata'[i] : i \in DOMAIN tmudata'}
         S == WhiteOf(UdataRefs(T))
     IN  /\ mark' = [o \in Obj |-> IF o \in T THEN "black"
                                   ELSE IF o \in S THEN "gray" ELSE mark[o]]
         /\ gray' = S
  /\ gcstate' = "remark4"
  /\ UNCHANGED <<world, fld, stack, open, cur, basic, white, grayagain, weak,
                 unswept, sweepgc, full, closing, calls>>

\* iscleared: strings are never cleared (they are marked instead); userdata
\* being finalized are kept as keys and not as values.
IsCleared(o, iskey) ==
  /\ o # Nil
  /\ Kind[o] # "string"
  /\ IsWhite(o) \/ (o \in Udata /\ ~iskey /\ o \in fin)
Clears(t) == /\ fld[t]["val"] # Nil
             /\ IsCleared(fld[t]["key"], TRUE) \/ IsCleared(fld[t]["val"], FALSE)
\* The strings iscleared is asked about: a key that is cleared first hides
\* its value.
AskedStrings(t) ==
  IF fld[t]["val"] = Nil THEN {}
  ELSE {o \in {fld[t]["key"]} \cup
              (IF IsCleared(fld[t]["key"], TRUE) THEN {} ELSE {fld[t]["val"]}) :
          o # Nil /\ Kind[o] = "string" /\ IsWhite(o)}

\* atomic, the end: weak tables are cleared and the current white flips; the
\* open upvalues and tmudata are not in the lists to sweep.
ClearAndFlip ==
  /\ gcstate = "remark4"
  /\ gray = {}
  /\ fld' = [o \in Obj |-> IF o \in weak /\ Clears(o)
                           THEN [fld[o] EXCEPT !["key"] = Nil, !["val"] = Nil]
                           ELSE fld[o]]
  /\ LET asked == UNION {AskedStrings(t) : t \in weak}
     IN  mark' = [o \in Obj |-> IF o \in asked THEN "gray" ELSE mark[o]]
  /\ white' = OtherWhite
  /\ unswept' = {o \in Obj : /\ Alive(o)
                             /\ ~(o \in UpVals /\ IsOpen(o))
                             /\ \A i \in DOMAIN tmudata : tmudata[i] # o}
  /\ sweepgc' = Nil
  /\ gcstate' = "sweepstring"
  /\ UNCHANGED <<world, fin, stack, open, cur, basic, gray, grayagain, weak,
                 udlist, tmudata, full, closing, calls>>
-----------------------------------------------------------------------------
(* Sweeping. *)

\* sweeplist on a set of objects: the dead are erased, the others become
\* white; an erased thread first closes the upvalues still open (luaF_close
\* from luaE_freethread), which are then swept already.
Sweep(S) ==
  LET dead == {o \in S : IsDead(o)}
      closed == {uv \in UpVals \ dead : IsOpen(uv) /\ open[uv].th \in dead}
  IN  /\ mark' = [o \in Obj |-> IF o \in dead THEN "free"
                                ELSE IF o \in S THEN white ELSE mark[o]]
      /\ fld' = [o \in Obj |-> IF o \in dead THEN NoRefs
                               ELSE IF o \in closed
                               THEN [NoRefs EXCEPT !["val"] = UpValue(o)]
                               ELSE fld[o]]
      /\ open' = [uv \in UpVals |-> IF uv \in dead \cup closed THEN NotOpen
                                    ELSE open[uv]]
      /\ stack' = [th \in Threads |-> IF th \in dead THEN <<>> ELSE stack[th]]
      /\ udlist' = Only(udlist, Udata \ dead)
      /\ fin' = fin \ dead
      /\ calls' = [u \in Udata |-> IF u \in dead THEN 0 ELSE calls[u]]

Strings == OfKind("string")
SweepString(o) ==
  /\ gcstate = "sweepstring"
  /\ o \in unswept \cap Strings
  /\ Sweep({o})
  /\ unswept' = unswept \ {o}
  /\ UNCHANGED <<world, cur, basic, gcstate, white, gray, grayagain, weak,
                 tmudata, sweepgc, full, closing>>

SweepStringEnd ==
  /\ gcstate = "sweepstring"
  /\ unswept \cap Strings = {}
  /\ gcstate' = "sweep"
  /\ UNCHANGED <<world, mark, fin, fld, stack, open, cur, basic, white, gray,
                 grayagain, weak, udlist, tmudata, unswept, sweepgc, full,
                 closing, calls>>

\* The sweep's position is inside the circular list tmudata: lua_close has
\* moved there the userdata whose `next' is the position.
Astray == \E i \in DOMAIN tmudata : tmudata[i] = sweepgc

\* One element of sweeplist(rootgc): a thread takes its open upvalues along;
\* the userdata are the last of the list, and are swept in its order.
SweepObject(o) ==
  /\ gcstate = "sweep"
  /\ o \in unswept
  /\ ~Astray
  /\ o \in Udata =>
       /\ unswept \subseteq Udata
       /\ \A i, j \in DOMAIN udlist :
            udlist[j] = o /\ i < j => udlist[i] \notin unswept
  /\ Sweep({o} \cup (IF o \in Threads THEN OpenOf(o) ELSE {}))
  /\ unswept' = unswept \ {o}
  /\ sweepgc' = IF o \in Udata /\ ~IsDead(o) THEN o ELSE sweepgc
  /\ UNCHANGED <<world, cur, basic, gcstate, white, gray, grayagain, weak,
                 tmudata, full, closing>>


\* One element of a list that has no end.
SweepAstray(u) ==
  /\ gcstate = "sweep"
  /\ Astray
  /\ \E i \in DOMAIN tmudata : tmudata[i] = u
  /\ mark' = [mark EXCEPT ![u] = white]
  /\ UNCHANGED <<world, fin, fld, stack, open, cur, basic, gcvars, udlist,
                 tmudata, closing, calls>>

SweepEnd ==
  /\ gcstate = "sweep"
  /\ unswept = {}
  /\ ~Astray
  /\ gcstate' = "finalize"
  /\ sweepgc' = Nil
  /\ UNCHANGED <<world, mark, fin, fld, stack, open, cur, basic, white, gray,
                 grayagain, weak, udlist, tmudata, unswept, full, closing,
                 calls>>
-----------------------------------------------------------------------------
(* Finalization. *)

\* GCTM: the userdata goes back to the list, white, and its method is called
\* with it on the stack of the running thread.
GCTM ==
  LET ud == Head(tmudata)
  IN  /\ tmudata # <<>>
      /\ tmudata' = Tail(tmudata)
      /\ udlist' = <<ud>> \o udlist
      /\ mark' = [mark EXCEPT ![ud] = white]
      /\ IF NeedsGC(ud)
         THEN /\ stack' = [stack EXCEPT ![cur] = Append(@, ud)]
              /\ calls' = [calls EXCEPT ![ud] = @ + 1]
         ELSE UNCHANGED <<stack, calls>>

\* The program runs again from the first finalizer called, also when it is
\* luaC_fullgc that calls it.
Finalize ==
  /\ gcstate = "finalize"
  /\ full # 1
  /\ GCTM
  /\ full' = 0
  /\ UNCHANGED <<world, fin, fld, open, cur, basic, gcstate, white, gray,
                 grayagain, weak, unswept, sweepgc, closing>>

EndCycle ==
  /\ gcstate = "finalize"
  /\ full # 1
  /\ tmudata = <<>>
  /\ gcstate' = "pause"
  /\ full' = 0
  /\ UNCHANGED <<world, mark, fin, fld, stack, open, cur, basic, white, gray,
                 grayagain, weak, udlist, tmudata, unswept, sweepgc, closing,
                 calls>>

\* luaC_fullgc: a mark phase is abandoned and everything swept back to
\* white; a sweep is completed; then a whole cycle runs without the program.
FullGC ==
  /\ ~Stopped
  /\ Bound.ends
  /\ full' = 1
  /\ IF gcstate \in {"pause", "propagate"}
     THEN /\ gray' = {} /\ grayagain' = {} /\ weak' = {}
          /\ unswept' = {o \in Obj : /\ Alive(o)
                                     /\ ~(o \in UpVals /\ IsOpen(o))
                                     /\ \A i \in DOMAIN tmudata : tmudata[i] # o}
          /\ sweepgc' = Nil
          /\ gcstate' = "sweepstring"
     ELSE UNCHANGED <<gray, grayagain, weak, unswept, sweepgc, gcstate>>
  /\ UNCHANGED <<world, mark, fin, fld, stack, open, cur, basic, white,
                 udlist, tmudata, closing, calls>>

\* luaC_step: any one step of the collector; it is the program that takes it,
\* or luaC_fullgc.
GCStep ==
  /\ ~Idle \/ full # 0 \/ gcstate \in AtomicStates
  /\ \/ StartCycle
     \/ \E o \in Obj : Propagate(o)
     \/ RemarkUpvals \/ RemarkWeak \/ RemarkAgain \/ SeparateAndMark
     \/ ClearAndFlip
     \/ \E o \in Obj : SweepString(o) \/ SweepObject(o) \/ SweepAstray(o)
     \/ SweepStringEnd \/ SweepEnd \/ Finalize \/ EndCycle
-----------------------------------------------------------------------------
(* The write barriers. *)

\* Slip: the table turns gray and is not put on the list.
SlipBarrierBack(t, S) ==
  IF mark[t] = "black" /\ WhiteOf(S) # {}
  THEN mark' = [mark EXCEPT ![t] = "gray"] /\ UNCHANGED grayagain
  ELSE UNCHANGED <<mark, grayagain>>
\* Slip: only an object of the other white counts as white.
SlipBarrierForward(o, v) ==
  IF mark[o] = "black" /\ v # Nil /\ IsDead(v)
  THEN mark' = Marked({v}) /\ gray' = gray \cup Grayed({v})
  ELSE UNCHANGED <<mark, gray>>

\* luaC_barriert: a black table that gets a white reference is gray again.
\* It leaves `mark' and `grayagain' for the table t and the new values S.
BarrierBack(t, S) ==
  IF mark[t] = "black" /\ WhiteOf(S) # {}
  THEN /\ mark' = [mark EXCEPT ![t] = "gray"]
       /\ grayagain' = grayagain \cup {t}
  ELSE UNCHANGED <<mark, grayagain>>

\* luaC_barrierf: the mark phase marks the value, a sweep whitens the object.
BarrierForward(o, v) ==
  IF mark[o] = "black" /\ WhiteOf({v}) # {}
  THEN IF gcstate = "propagate"
       THEN mark' = Marked({v}) /\ gray' = gray \cup Grayed({v})
       ELSE mark' = [mark EXCEPT ![o] = white] /\ UNCHANGED gray
  ELSE UNCHANGED <<mark, gray>>
-----------------------------------------------------------------------------
(* The program. *)

\* Objects an operation can name: the stack of the running thread, its
\* globals, the registry.
Named == (StackValues(cur) \cup {fld[cur]["env"], Registry}) \ {Nil}
CanPush == ~Stopped /\ Len(stack[cur]) < Bound.depth[cur]
\* Bound: the finalizers called by lua_close create no objects but strings.
Fresh(kinds) == {o \in world : ~closing /\ ~Alive(o) /\ Kind[o] \in kinds}
Push(v) == stack' = [stack EXCEPT ![cur] = Append(@, v)]

\* luaC_link and luaS_newudata: a new object is of the current white.  A
\* thread shares the globals of its creator, a userdata gets the running
\* function's environment, a C closure closes over the value v.
New(o, v) ==
  /\ CanPush
  /\ o \in Fresh({"table", "udata", "cclosure", "thread", "proto"})
  /\ v \in IF Kind[o] \in {"cclosure", "proto"}
            THEN StackValues(cur) \cup {Nil} ELSE {Nil}
  /\ v # Nil /\ Kind[o] = "proto" => Kind[v] \in {"string", "proto"}
  /\ mark' = [mark EXCEPT ![o] = white]
  /\ fld' = [fld EXCEPT ![o] =
               [NoRefs EXCEPT !["val"] = v,
                              !["env"] = IF Kind[o] \in {"table", "proto"}
                                         THEN Nil ELSE fld[cur]["env"]]]
  /\ udlist' = IF o \in Udata THEN <<o>> \o udlist ELSE udlist
  /\ Push(o)
  /\ UNCHANGED <<world, fin, open, cur, basic, gcvars, tmudata, closing,
                 calls>>

\* Slip: a dead string found in the table is left dead.
SlipNewString(o) ==
  /\ CanPush
  /\ o \in world \cap Strings
  /\ mark' = [mark EXCEPT ![o] = IF Alive(o) THEN @ ELSE white]
  /\ Push(o)
  /\ UNCHANGED <<world, fin, fld, open, cur, basic, gcvars, udlist, tmudata,
                 closing, calls>>

\* luaS_newlstr: the string is in the table, dead or not, or it is created.
NewString(o) ==
  /\ CanPush
  /\ o \in world \cap Strings
  /\ mark' = [mark EXCEPT ![o] = IF ~Alive(o) \/ IsDead(o) THEN white ELSE @]
  /\ Push(o)
  /\ UNCHANGED <<world, fin, fld, open, cur, basic, gcvars, udlist, tmudata,
                 closing, calls>>

\* luaF_findupval: the open upvalue of the stack slot, resurrected if dead,
\* or a new one.
FindUpval(uv, lvl) ==
  /\ lvl \in DOMAIN stack[cur]
  /\ IF \E x \in OpenOf(cur) : open[x].lvl = lvl
     THEN open[uv] = [th |-> cur, lvl |-> lvl]
     ELSE uv \in Fresh({"upval"})

\* OP_CLOSURE: a Lua closure over a slot of the running function or over an
\* upvalue of a function on the stack.
NewLClosure(o, p, uv, lvl) ==
  /\ CanPush
  /\ o \in Fresh({"lclosure"})
  /\ \E f \in Named : p = IF Kind[f] = "proto" THEN f
                         ELSE IF Kind[f] = "lclosure" THEN fld[f]["key"]
                         ELSE Nil
  /\ p # Nil
  /\ \/ FindUpval(uv, lvl)
     \/ /\ lvl = 0
        /\ \E f \in StackValues(cur) \cap OfKind("lclosure") : fld[f]["val"] = uv
  /\ mark' = [x \in Obj |-> IF x = o \/ (x = uv /\ lvl # 0 /\
                                          (~Alive(x) \/ IsDead(x)))
                            THEN white ELSE mark[x]]
  /\ open' = IF lvl # 0 THEN [open EXCEPT ![uv] = [th |-> cur, lvl |-> lvl]]
                        ELSE open
  /\ fld' = [fld EXCEPT ![o] = [NoRefs EXCEPT !["env"] = fld[cur]["env"],
                                              !["key"] = p, !["val"] = uv]]
  /\ Push(o)
  /\ UNCHANGED <<world, fin, cur, basic, gcvars, udlist, tmudata, closing,
                 calls>>

\* What the program can read of an object: the contents of a table and its
\* metatable, the value of an upvalue, a constant of a function, ...
Readable(o) ==
  CASE Kind[o] = "table" -> {fld[o][s] : s \in {"mt", "key", "val"}}
    [] Kind[o] = "udata" -> {fld[o][s] : s \in {"mt", "env"}}
    [] Kind[o] = "cclosure" -> {fld[o][s] : s \in {"env", "val"}}
    [] Kind[o] = "lclosure" -> {fld[o]["env"], UpValue(fld[o]["val"])}
                                 \cup ({fld[fld[o]["key"]]["val"]} \cap Strings)
    [] Kind[o] = "thread" -> {fld[o]["env"]}
    [] OTHER -> {}

\* Any read: lua_gettable, lua_next, lua_getmetatable, lua_getfenv, OP_LOADK,
\* OP_GETUPVAL ... push it; there is no barrier for the stack.
Read(v) ==
  /\ CanPush
  /\ v \in (UNION {Readable(o) : o \in Named}) \ {Nil}
  /\ Push(v)
  /\ UNCHANGED <<world, mark, fin, fld, open, cur, basic, gcvars, udlist,
                 tmudata, closing, calls>>

\* lua_rawset, luaV_settable: luaH_newkey has the barrier for a new key, the
\* caller has the one for the value.  Assigning nil empties the entry.
SetTable(t, k, v) ==
  /\ ~Stopped
  /\ t \in Named \cap Bound.targets
  /\ k \in (LuaValues(cur) \cap Bound.keys) \cup {Nil}
  /\ v \in (LuaValues(cur) \cap Bound.values) \cup {Nil}
  /\ IF v = Nil
     THEN /\ fld[t]["val"] # Nil /\ fld[t]["key"] = k
          /\ fld' = [fld EXCEPT ![t]["key"] = Nil, ![t]["val"] = Nil]
          /\ UNCHANGED <<mark, grayagain>>
     ELSE /\ fld[t]["val"] = Nil \/ fld[t]["key"] = k
          /\ fld' = [fld EXCEPT ![t]["key"] = k, ![t]["val"] = v]
          /\ BarrierBack(t, {k, v})
  /\ UNCHANGED <<world, fin, stack, open, cur, basic, gcstate, white, gray,
                 weak, udlist, tmudata, unswept, sweepgc, full, closing,
                 calls>>

\* lua_setmetatable: back for a table, forward for a userdata, none for a
\* basic type.
SetMetatable(o, mt) ==
  /\ ~Stopped
  /\ o \in Named
  /\ mt \in (Named \cap Bound.metas) \cup {Nil}
  /\ CASE Kind[o] = "table" ->
            /\ fld' = [fld EXCEPT ![o]["mt"] = mt]
            /\ BarrierBack(o, {mt})
            /\ UNCHANGED <<gray, basic>>
       [] Kind[o] = "udata" ->
            /\ fld' = [fld EXCEPT ![o]["mt"] = mt]
            /\ BarrierForward(o, mt)
            /\ UNCHANGED <<grayagain, basic>>
       [] OTHER ->
            /\ basic' = mt
            /\ UNCHANGED <<fld, mark, gray, grayagain>>
  /\ UNCHANGED <<world, fin, stack, open, cur, gcstate, white, weak, udlist,
                 tmudata, unswept, sweepgc, full, closing, calls>>

\* lua_setfenv on a function, a userdata or a thread.
SetFEnv(o, t) ==
  /\ ~Stopped
  /\ o \in StackValues(cur)
  /\ Kind[o] \in {"lclosure", "cclosure", "udata", "thread"}
  /\ t \in Named \cap Bound.envs
  /\ fld' = [fld EXCEPT ![o]["env"] = t]
  /\ BarrierForward(o, t)
  /\ UNCHANGED <<world, fin, stack, open, cur, basic, gcstate, white,
                 grayagain, weak, udlist, tmudata, unswept, sweepgc, full,
                 closing, calls>>

\* OP_SETUPVAL and lua_setupvalue: into the stack slot, the closed upvalue or
\* the C closure itself.
SetUpvalue(f, v) ==
  /\ ~Stopped
  /\ {f, v} \subseteq LuaValues(cur)
  /\ Kind[f] \in {"lclosure", "cclosure"}
  /\ LET uv == fld[f]["val"]
     IN  IF Kind[f] = "lclosure" /\ IsOpen(uv)
         THEN /\ stack' = [stack EXCEPT ![open[uv].th][open[uv].lvl] = v]
              /\ UNCHANGED <<fld, mark, gray>>
         ELSE LET o == IF Kind[f] = "lclosure" THEN uv ELSE f
              IN  /\ fld' = [fld EXCEPT ![o]["val"] = v]
                  /\ BarrierForward(o, v)
                  /\ UNCHANGED stack
  /\ UNCHANGED <<world, fin, open, cur, basic, gcstate, white, grayagain,
                 weak, udlist, tmudata, unswept, sweepgc, full, closing,
                 calls>>

\* Slip: an upvalue closed during the sweep keeps its gray mark.
SlipCloseUpvals(th, lvl) ==
  LET S == {uv \in OpenOf(th) : open[uv].lvl >= lvl}
      dead == {uv \in S : IsDead(uv)}
      blackened == {uv \in S : mark[uv] = "gray" /\ gcstate = "propagate"}
      values == {UpValue(uv) : uv \in blackened}
  IN  /\ mark' = [o \in Obj |-> IF o \in dead THEN "free"
                                ELSE IF o \in blackened THEN "black"
                                ELSE Marked(values)[o]]
      /\ gray' = gray \cup Grayed(values)
      /\ open' = [uv \in UpVals |-> IF uv \in S THEN NotOpen ELSE open[uv]]
      /\ fld' = [o \in Obj |-> IF o \in S \ dead
                               THEN [NoRefs EXCEPT !["val"] = UpValue(o)]
                               ELSE fld[o]]

\* luaF_close at level lvl of thread th, with luaC_linkupval: a dead upvalue
\* is freed; a gray one is closed black in the mark phase (and its value
\* marked) and white in a sweep.
CloseUpvals(th, lvl) ==
  LET S == {uv \in OpenOf(th) : open[uv].lvl >= lvl}
      dead == {uv \in S : IsDead(uv)}
      blackened == {uv \in S : mark[uv] = "gray" /\ gcstate = "propagate"}
      whitened == {uv \in S : mark[uv] = "gray" /\ gcstate # "propagate"}
      values == {UpValue(uv) : uv \in blackened}
      marked == Marked(values)
  IN  /\ mark' = [o \in Obj |-> IF o \in dead THEN "free"
                                ELSE IF o \in blackened THEN "black"
                                ELSE IF o \in whitened THEN white
                                ELSE marked[o]]
      /\ gray' = gray \cup Grayed(values)
      /\ open' = [uv \in UpVals |-> IF uv \in S THEN NotOpen ELSE open[uv]]
      /\ fld' = [o \in Obj |-> IF o \in S \ dead
                               THEN [NoRefs EXCEPT !["val"] = UpValue(o)]
                               ELSE fld[o]]

\* The end of a function or block: its upvalues are closed (luaF_close) and
\* its values leave the stack.
Pop ==
  /\ ~Stopped
  /\ stack[cur] # <<>>
  /\ CloseUpvals(cur, Len(stack[cur]))
  /\ stack' = [stack EXCEPT ![cur] = SubSeq(@, 1, Len(@) - 1)]
  /\ UNCHANGED <<world, fin, cur, basic, gcstate, white, grayagain, weak,
                 udlist, tmudata, unswept, sweepgc, full, closing, calls>>

\* lua_resume of a coroutine on the stack, and lua_yield, with the value on
\* top moved along (lua_xmove) when there is one to move.
Switch(th, n) ==
  /\ ~Stopped
  /\ \/ cur = Main /\ th \in StackValues(cur) \cap Threads
     \/ cur # Main /\ th = Main
  /\ th # cur
  /\ LET top == Len(stack[cur])
     IN  \/ n = 0 /\ UNCHANGED stack
         \/ /\ n = 1 /\ Bound.ends /\ top > 0 /\ Len(stack[th]) < Bound.depth[th]
            /\ stack[cur][top] # th
            /\ \A uv \in OpenOf(cur) : open[uv].lvl # top
            /\ stack' = [stack EXCEPT ![th] = Append(@, stack[cur][top]),
                                      ![cur] = SubSeq(@, 1, top - 1)]
  /\ cur' = th
  /\ UNCHANGED <<world, mark, fin, fld, open, basic, gcvars, udlist, tmudata,
                 closing, calls>>

\* lua_close: the main thread's upvalues are closed, all userdata with a __gc
\* not yet called are separated ...
Close ==
  /\ ~Stopped
  /\ Bound.ends
  /\ ~closing
  /\ cur = Main
  /\ CloseUpvals(Main, 1)
  /\ Separate(TRUE)
  /\ closing' = TRUE
  /\ stack' = [stack EXCEPT ![Main] = <<>>]
  /\ unswept' = unswept \ {tmudata'[i] : i \in DOMAIN tmudata'}
  /\ UNCHANGED <<world, cur, basic, gcstate, white, grayagain, weak, sweepgc,
                 full, calls>>

\* ... their methods are called one after the other, whatever the state of
\* the collector and whether or not one raises an error ...
CloseGCTM ==
  /\ Idle
  /\ full = 0 /\ gcstate \notin AtomicStates \cup {"closed"}
  /\ GCTM
  /\ UNCHANGED <<world, fin, fld, open, cur, basic, gcvars, closing>>

\* ... and luaC_freeall erases everything but the main thread.
FreeAll ==
  /\ Idle
  /\ full = 0 /\ gcstate \notin AtomicStates \cup {"closed"}
  /\ tmudata = <<>>
  /\ gcstate' = "closed"
  /\ mark' = [o \in Obj |-> "free"]
  /\ fld' = [o \in Obj |-> NoRefs]
  /\ open' = [uv \in UpVals |-> NotOpen]
  /\ stack' = [th \in Threads |-> <<>>]
  /\ udlist' = <<>>
  /\ UNCHANGED <<world, fin, cur, basic, white, gray, grayagain, weak,
                 tmudata, unswept, sweepgc, full, closing, calls>>

Program ==
  \/ \E o \in world \cap Strings : NewString(o)
  \/ \E o \in Fresh(Kinds), v \in StackValues(cur) \cup {Nil} : New(o, v)
  \/ \E o \in Fresh({"lclosure"}), p \in world, uv \in world \cap UpVals,
        lvl \in 0..Bound.depth[cur] : NewLClosure(o, p, uv, lvl)
  \/ \E v \in world : Read(v)
  \/ \E t \in Named \cap Bound.targets, k, v \in LuaValues(cur) \cup {Nil} :
        SetTable(t, k, v)
  \/ \E o \in Named, mt \in (Named \cap Bound.metas) \cup {Nil} :
        SetMetatable(o, mt)
  \/ \E o \in StackValues(cur), t \in Named \cap Bound.envs : SetFEnv(o, t)
  \/ \E f, v \in LuaValues(cur) : SetUpvalue(f, v)
  \/ Pop
  \/ \E th \in world \cap Threads, n \in {0, 1} : Switch(th, n)
  \/ FullGC \/ Close \/ CloseGCTM \/ FreeAll
-----------------------------------------------------------------------------
\* lua_newstate: the main thread, its globals and the registry are white.
Init ==
  /\ world \in Worlds
  /\ mark = [o \in Obj |-> IF o \in {Main, Globals, Registry}
                            THEN "w0" ELSE "free"]
  /\ fin = {}
  /\ fld = [o \in Obj |-> IF o = Main THEN [NoRefs EXCEPT !["env"] = Globals]
                                      ELSE NoRefs]
  /\ stack = [th \in Threads |-> <<>>]
  /\ open = [uv \in UpVals |-> NotOpen]
  /\ cur = Main
  /\ basic = Nil
  /\ gcstate = "pause"
  /\ white = "w0"
  /\ gray = {} /\ grayagain = {} /\ weak = {}
  /\ udlist = <<>> /\ tmudata = <<>>
  /\ unswept = {} /\ sweepgc = Nil
  /\ full = 0
  /\ closing = FALSE
  /\ calls = [u \in Udata |-> 0]

Next == GCStep \/ Program
Spec == Init /\ [][Next]_vars
-----------------------------------------------------------------------------
(* Properties. *)

\* Every variable has its type.
TypeOK ==
  /\ world \in Worlds
  /\ mark \in [Obj -> Whites \cup {"gray", "black", "free"}]
  /\ fin \subseteq Udata
  /\ fld \in [Obj -> [Slots -> Obj \cup {Nil}]]
  /\ stack \in [Threads -> Seq(Obj)]
  /\ open \in [UpVals -> [th : Threads \cup {Nil}, lvl : Nat]]
  /\ cur \in Threads
  /\ basic \in Obj \cup {Nil}
  /\ gcstate \in {"pause", "finalize", "closed"} \cup MarkStates \cup SweepStates
  /\ white \in Whites
  /\ {gray, grayagain, weak, unswept} \subseteq SUBSET Obj
  /\ udlist \in Seq(Udata) /\ tmudata \in Seq(Udata)
  /\ sweepgc \in Udata \cup {Nil}
  /\ full \in 0..2
  /\ closing \in BOOLEAN
  /\ calls \in [Udata -> Nat]

\* The references of an object that keep what they refer to.
StrongRefs(o) ==
  IF o \in UpVals THEN {UpValue(o)} \ {Nil} ELSE Traversed(o) \ {Nil}
AllRefs(o) ==
  IF o \in UpVals THEN {UpValue(o)} \ {Nil}
  ELSE ({fld[o][s] : s \in Slots} \ {Nil})
         \cup (IF o \in Threads THEN StackValues(o) ELSE {})

\* What the program can still get hold of, through weak references as well.
Roots == {Main, cur, Registry, basic} \ {Nil}
Grow[S \in SUBSET Obj] ==
  LET more == S \cup UNION {AllRefs(o) : o \in S}
  IN  IF more = S THEN S ELSE Grow[more]
Accessible == Grow[Roots]

\* The incremental invariant: while objects are being marked, no black object
\* refers to a white one, whatever the program did between two steps
\* (lgc.c:660 to 668 and the barriers of lapi.c, lvm.c and ltable.c).
TriColour ==
  gcstate \in MarkStates /\ ~closing =>
    \A o \in Obj : mark[o] = "black" /\ (\A i \in DOMAIN tmudata : tmudata[i] # o)
       => \A r \in StrongRefs(o) : ~IsWhite(r)

\* The lists of the mark phase share the field `gclist': an object is in one
\* of them at most, it is gray there, and every gray object that has
\* references to be followed is in one (strings and open upvalues have no
\* list).  Every variable has its type.
ListsHoldGray ==
  /\ TypeOK
  /\ gcstate \in MarkStates =>
       /\ gray \cap grayagain = {} /\ gray \cap weak = {}
       /\ grayagain \cap weak = {}
       /\ gray \cup grayagain \cup weak =
            {o \in Obj : mark[o] = "gray"} \ (UpVals \cup Strings)

\* What the program can still name is an object, and once the mark phase is
\* over it is not dead, so that the sweep leaves it (lgc.c:405 to 426): this
\* covers entries of weak tables, dead strings and upvalues found again, and
\* what a finalizer resurrects.
AccessibleAlive ==
  ~closing =>
    \A o \in Accessible :
       Alive(o) /\ (gcstate \in SweepStates \cup {"finalize"} => ~IsDead(o))

\* The method of a userdata is called once in its life (lgc.c:134 to 142).
FinalizedOnce == \A u \in Udata : calls[u] <= 1

\* Between collections no object is gray or black except those waiting for
\* their finalizer: what the next cycle finds is white (lgc.c:414).
WhiteAtRest ==
  gcstate \in {"pause", "finalize"} =>
    \A o \in Obj : mark[o] \in {"gray", "black"} =>
       \E i \in DOMAIN tmudata : tmudata[i] = o
=============================================================================
