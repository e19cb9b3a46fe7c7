------------------------------ MODULE LuaGCInv ------------------------------
(* The inductive invariant of LuaGC. Its first part holds for the whole life  *)
(* of the state; the second, what makes the collector safe, until lua_close,  *)
(* whose finalizers run in every state of the collector.                      *)
EXTENDS LuaGC

InTmu(u) == \E i \in DOMAIN tmudata : tmudata[i] = u
InList(u) == \E i \in DOMAIN udlist : udlist[i] = u
Tables == OfKind("table")
Values == Obj \ UpVals
Opt(S) == S \cup {Nil}
Resting == SweepStates \cup {"pause", "finalize"}

-----------------------------------------------------------------------------
(* Always. *)

\* A userdata has tables for its metatable and environment, and is never on
\* a gray list.
UdataOK == \A u \in Udata : /\ mark[u] # "gray"
                            /\ {fld[u]["mt"], fld[u]["env"]} \subseteq Opt(Tables)

\* An open upvalue is an object, of a slot of a thread that is one, and never
\* black.
OpenOK ==
  \A uv \in UpVals : IsOpen(uv) =>
    /\ Alive(uv) /\ mark[uv] # "black"
    /\ open[uv].th \in Threads /\ Alive(open[uv].th)
    /\ open[uv].lvl \in 1..Len(stack[open[uv].th])

\* The second part of ListsHoldGray.
Partition ==
  /\ gray \cap grayagain = {} /\ gray \cap weak = {} /\ grayagain \cap weak = {}
  /\ gray \cup grayagain \cup weak =
       {o \in Obj : mark[o] = "gray"} \ (UpVals \cup Strings)
ListsOK == gcstate \in MarkStates => Partition

\* What the sweep has not come to: an open upvalue is swept with its thread.
Left(o) == o \in unswept \/ (o \in UpVals /\ IsOpen(o) /\ open[o].th \in unswept)
RestOK == gcstate \in Resting =>
            \A o \in Obj : mark[o] \in {"gray", "black"} => Left(o) \/ InTmu(o)
UnsweptOK ==
  /\ gcstate \notin SweepStates \cup {"closed"} => unswept = {}
  /\ gcstate # "closed" =>
       \A o \in unswept : Alive(o) /\ ~InTmu(o) /\ ~(o \in UpVals /\ IsOpen(o))

\* The two lists of userdata have nothing in common, and what waits for its
\* finalizer is marked as finalized and has not been called.
Injective(s) == \A i, j \in DOMAIN s : s[i] = s[j] => i = j
FinsOK ==
  /\ Injective(udlist) /\ Injective(tmudata)
  /\ \A u \in Udata : /\ InTmu(u) => ~InList(u) /\ Alive(u) /\ u \in fin
                      /\ InList(u) => Alive(u)
                      /\ calls[u] \in {0, 1}
                      /\ calls[u] = 1 => u \in fin /\ ~InTmu(u)

Always == /\ TypeOK /\ UdataOK /\ OpenOK
          /\ ListsOK /\ RestOK /\ UnsweptOK /\ FinsOK

-----------------------------------------------------------------------------
(* Until lua_close. *)

\* A closed upvalue is never gray.
ShutOK == \A uv \in UpVals : ~IsOpen(uv) => mark[uv] # "gray"

\* What the fields of an object of each kind may refer to.
FieldsOK(o) ==
  /\ Kind[o] = "string" => fld[o] = NoRefs
  /\ Alive(o) =>
       /\ Kind[o] = "table" =>
            /\ fld[o]["mt"] \in Opt(Tables) /\ fld[o]["env"] = Nil
            /\ fld[o]["key"] \in Opt(Values) /\ fld[o]["val"] \in Opt(Values)
            /\ fld[o]["val"] = Nil => fld[o]["key"] = Nil
       /\ Kind[o] = "thread" =>
            /\ fld[o]["mt"] = Nil /\ fld[o]["env"] \in Tables
            /\ fld[o]["key"] = Nil /\ fld[o]["val"] = Nil
       /\ Kind[o] = "udata" => fld[o]["key"] = Nil /\ fld[o]["val"] = Nil
       /\ Kind[o] = "lclosure" =>
            /\ fld[o]["key"] \in OfKind("proto") /\ fld[o]["val"] \in UpVals
            /\ fld[o]["env"] \in Tables
       /\ Kind[o] = "cclosure" =>
            fld[o]["val"] \in Opt(Values) /\ fld[o]["env"] \in Tables
       /\ Kind[o] = "upval" /\ ~IsOpen(o) => fld[o]["val"] \in Opt(Values)
RefsOK ==
  /\ \A th \in Threads : /\ mark[th] # "black" /\ stack[th] \in Seq(Values)
                         /\ ~Alive(th) => stack[th] = <<>>
  /\ \A o \in Obj : FieldsOK(o)

\* The dead are what the sweep has not come to.
DeadOK == \A o \in Obj : IsDead(o) => Left(o)

\* What the program can get hold of is closed under references.
Kept == {o \in Obj : Alive(o) /\ ~IsDead(o)}
KeptOK == /\ Roots \subseteq Kept
          /\ \A o \in Kept : AllRefs(o) \subseteq Kept

\* How far the marking has come.
NonWhite == {o \in Obj : ~IsWhite(o)}
Past1 == gcstate \in {"remark1", "remark2", "remark3", "remark4"}
Past2 == gcstate \in {"remark2", "remark3", "remark4"}
Past3 == gcstate \in {"remark3", "remark4"}
BlackOK == \A o \in Obj : mark[o] = "black" /\ ~InTmu(o) => AllRefs(o) \subseteq NonWhite
RootsOK == {Main, Registry} \subseteq NonWhite
UpvalsOK == Past1 => \A uv \in UpVals : IsOpen(uv) /\ mark[uv] = "gray" =>
                                          UpValue(uv) \in NonWhite
AtomicOK == Past2 => /\ cur \in NonWhite /\ basic \in Opt(NonWhite)
                     /\ \A o \in weak : StrongRefs(o) \subseteq NonWhite
AgainOK == Past3 => \A o \in grayagain : AllRefs(o) \subseteq NonWhite
WeakOK == \A o \in weak : Kind[o] = "table"
TmuOK == gcstate = "remark4" =>
           \A u \in Udata : InTmu(u) => mark[u] = "black" /\ AllRefs(u) \subseteq NonWhite
MarksOK == gcstate \in MarkStates =>
             /\ BlackOK /\ RootsOK /\ UpvalsOK /\ AtomicOK /\ AgainOK /\ WeakOK /\ TmuOK

Open == RefsOK /\ ShutOK /\ DeadOK /\ KeptOK /\ MarksOK
IInv == Always /\ (~closing => Open)
=============================================================================
