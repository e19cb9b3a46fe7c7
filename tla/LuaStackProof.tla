---------------------------- MODULE LuaStackProof ----------------------------
(* The inductive invariant of LuaStack: what the C stack and the threads say of each *)
(* other, what keeps it, and how the operations on a thread change what is counted   *)
(* of it. Then the steps: calls, returns and what else goes one entry up or down the *)
(* C stack, coroutines and errors. C stack and threads agree, for every program,     *)
(* every limit and every number of coroutines.                                       *)
EXTENDS LuaStack, FiniteSetTheorems, WellFoundedInduction, TLAPS

------------------------------------------------------------------------------
(* The C stack *)

\* An entry of the C stack.
Act ==
    [k : {"host", "c", "raise"}, th : Thread] \cup [k : {"throw"}, th : Thread, code : Dead]
    \cup [k : {"hook"}, th : Thread, top : Int, ctop : Int]
    \cup [k : {"exec"}, th : Thread, n : Nat \ {0}]
    \cup [k : {"call"}, th : Thread, for : {"tm", "api", "handler", "pcall"}, nres : Int]
    \cup [k : {"pcall"}, th : Thread, top : Int, ncc : Nat, ci : Nat, hookok : BOOLEAN,
         errfunc : Int]
    \cup [k : {"resume"}, th : Thread, by : Thread]

\* What may be on top of what: of another thread only what lua_resume starts.
Above(y, x) ==
    /\ IF x.k = "resume" THEN x.by = y.th ELSE x.th = y.th
    /\ x.k \in {"pcall", "resume"} => y.k \in {"c", "host", "hook"}
    /\ x.k = "c" => y.k \in {"exec", "call"}
    /\ x.k = "exec" => y.k \in {"call", "resume"}
    /\ x.k = "hook" => y.k = "exec"
    /\ x.k = "call" => CASE x.for = "tm" -> y.k = "exec"
                         [] x.for = "api" -> y.k \in {"c", "host", "hook"}
                         [] x.for = "pcall" -> y.k = "pcall"
                         [] OTHER -> y.k \in {"call", "exec", "c", "hook"}
    /\ x.k \in {"raise", "throw"} => y.k \in {"call", "resume", "exec", "c", "hook"}

Starts(x) == x.k \in {"host", "resume"}

\* What a thread has under way from its first entry up to one of them: the frames of its
\* functions, the calls it counts, and where the handler of its innermost lua_pcall is.
Mark == [frames : Nat \ {0}, calls : Nat, handler : Int]
After(mk, x) ==
    [frames |-> IF Starts(x) THEN 1
                ELSE mk.frames + (IF x.k = "c" THEN 1 ELSE IF x.k = "exec" THEN x.n ELSE 0),
     calls |-> IF Starts(x) THEN 0 ELSE mk.calls + (IF x.k = "call" THEN 1 ELSE 0),
     handler |-> IF Starts(x) THEN 0 ELSE IF x.k = "pcall" THEN x.top - 1 ELSE mk.handler]
First == [frames |-> 1, calls |-> 0, handler |-> 0]

\* c is a C stack, and h has the marks of its entries; no thread counts more than lim
\* calls, and none counts so many but to throw.
Shaped(c, h) ==
    /\ c \in Seq(Act) /\ h \in Seq(Mark) /\ Len(h) = Len(c)
    /\ c # <<>> => c[1] = [k |-> "host", th |-> Main] /\ h[1] = First
    /\ \A j \in 2 .. Len(c) : c[j].k # "host" /\ Above(c[j - 1], c[j])
                              /\ h[j] = After(h[j - 1], c[j])
Apart(c, h) ==
    /\ \A j \in 1 .. Len(c) : \A i \in 1 .. j :
          /\ i # j /\ Starts(c[j]) => c[i].th # c[j].th
          /\ c[i].th = c[j].th => /\ h[i].frames <= h[j].frames
                                  /\ \A n \in i .. j : c[n].th = c[j].th
Saved(c, h) ==
    \A j \in 1 .. Len(c) : c[j].k = "pcall" =>
        /\ c[j].ncc = h[j].calls /\ c[j].ci = h[j].frames
        /\ c[j].errfunc \in {0, h[j - 1].handler}
Limited(c, h, lim) ==
    \A j \in 1 .. Len(c) :
        /\ h[j].calls <= lim
        /\ c[j].k \notin {"call", "throw"} => h[j].calls < lim
        /\ j < Len(c) => c[j + 1].k = "throw" \/ h[j].calls < lim
Struct(c, h, lim) == Shaped(c, h) /\ Apart(c, h) /\ Saved(c, h) /\ Limited(c, h, lim)

------------------------------------------------------------------------------
(* The threads *)

CI == [func : Int, base : Int, top : Int, nres : Int, fn : Fn \cup {"none"}]
CFrame == {f \in CI : f.fn \in Fn /\ Shape[f.fn].isC}
LuaFrame == {f \in CI : f.fn \in Fn /\ ~Shape[f.fn].isC}

ThreadOK(L, lim) ==
    /\ L = [status |-> L.status, top |-> L.top, base |-> L.base, last |-> L.last, ci |-> L.ci,
            sizeci |-> L.sizeci, ncc |-> L.ncc, hookok |-> L.hookok, errfunc |-> L.errfunc,
            open |-> L.open]
    /\ L.status \in {"none", "ok", "yield"} \cup Dead /\ L.hookok \in BOOLEAN
    /\ L.top \in Int /\ L.base \in Int /\ L.last \in Int /\ L.errfunc \in Int
    /\ L.ci \in Seq(CI) /\ L.sizeci \in Nat /\ L.ncc \in Nat
    /\ Len(L.ci) <= L.sizeci /\ L.sizeci <= 2 * LUAI_MAXCALLS /\ L.ncc <= lim
    /\ L.status # "none" => L.ci # <<>>

\* A thread that is not on the C stack counts nothing; one that yielded has the frames of
\* Lua functions, and of the C function that yielded on top of them.
IdleOK(L) ==
    /\ L.status \in {"ok", "yield"} => L.ncc = 0 /\ L.errfunc = 0
    /\ L.status = "yield" =>
          /\ Len(L.ci) >= 2
          /\ \A i \in 2 .. Len(L.ci) - 1 : L.ci[i] \in LuaFrame
          /\ L.ci[Len(L.ci)] \in LuaFrame \/ (L.ci[Len(L.ci)] \in CFrame /\ Len(L.ci) >= 3)

\* One that is agrees with the marks: its last entry on all it counts, every entry on the
\* frames that belong to it.
Ends(c, j) == j = Len(c) \/ c[j + 1].k = "resume"
Agrees(L, x, mk, ends) ==
    /\ mk.frames <= Len(L.ci)
    /\ x.k = "c" => L.ci[mk.frames] \in CFrame
    /\ x.k = "exec" => \A i \in mk.frames - x.n + 1 .. mk.frames : L.ci[i] \in LuaFrame
    /\ ends => L.ncc = mk.calls /\ Len(L.ci) = mk.frames /\ L.errfunc \in {0, mk.handler}
LiveOK(L, c, h, t) ==
    \A j \in 1 .. Len(c) : c[j].th = t => L.status = "ok" /\ Agrees(L, c[j], h[j], Ends(c, j))
In(c, t) == \E j \in 1 .. Len(c) : c[j].th = t

Good(S, c, h, lim) ==
    /\ lim \in Nat \ {0} /\ Struct(c, h, lim)
    /\ S = [t \in Thread |-> S[t]]
    /\ \A t \in Thread : /\ ThreadOK(S[t], lim) /\ LiveOK(S[t], c, h, t)
                         /\ In(c, t) \/ IdleOK(S[t])
Ok(S, c, lim) == \E h : Good(S, c, h, lim)

Lim == LUAI_MAXCCALLS + CErrors
IInv == world \in Worlds /\ Ok(st, cs, Lim)

------------------------------------------------------------------------------
(* Sequences, entries and marks *)

\* What the assumption says of the constants.
LEMMA Consts ==
    /\ LUAI_MAXCALLS \in Nat \ {0} /\ CErrors \in Nat \ {0} /\ BASIC_CI_SIZE \in Nat \ {0}
    /\ LUA_MINSTACK \in Nat /\ BASIC_STACK_SIZE \in Nat /\ EXTRA_STACK \in Nat
    /\ BASIC_CI_SIZE <= LUAI_MAXCALLS /\ Args \subseteq Nat /\ Main \notin Coroutines
    /\ \A f \in Fn : /\ Shape[f].isC \in BOOLEAN /\ Shape[f].params \in Nat
                     /\ Shape[f].size \in Nat
  BY StackAssumption

\* One entry more, and the first m of them.
LEMMA Longer ==
    ASSUME NEW A, NEW s \in Seq(A), NEW x \in A
    PROVE  /\ Append(s, x) \in Seq(A) /\ Len(Append(s, x)) = Len(s) + 1
           /\ \A j \in 1 .. Len(s) : Append(s, x)[j] = s[j]
           /\ Append(s, x)[Len(s) + 1] = x
  OBVIOUS

\* The first m elements of a sequence.
LEMMA Shorter ==
    ASSUME NEW A, NEW s \in Seq(A), NEW m \in 0 .. Len(s)
    PROVE  /\ SubSeq(s, 1, m) \in Seq(A) /\ Len(SubSeq(s, 1, m)) = m
           /\ \A j \in 1 .. m : SubSeq(s, 1, m)[j] = s[j]
  OBVIOUS

\* The fields of an entry.
LEMMA ActFacts ==
    ASSUME NEW x \in Act
    PROVE  /\ x.k \in {"host", "c", "raise", "throw", "hook", "exec", "call", "pcall", "resume"}
           /\ x.th \in Thread
           /\ x.k = "throw" => x.code \in Dead
           /\ x.k = "hook" => x.top \in Int /\ x.ctop \in Int
           /\ x.k = "exec" => x.n \in Nat \ {0}
           /\ x.k = "call" => x.for \in {"tm", "api", "handler", "pcall"} /\ x.nres \in Int
           /\ x.k = "pcall" => x.top \in Int /\ x.errfunc \in Int
           /\ x.k = "resume" => x.by \in Thread
  BY DEF Act

\* An entry leads from a mark to a mark.
LEMMA AfterIsMark ==
    ASSUME NEW mk \in Mark, NEW x \in Act
    PROVE  After(mk, x) \in Mark
  BY ActFacts DEF After, Mark

\* A C stack with one entry more.
LEMMA StructPush ==
    ASSUME NEW c, NEW h, NEW lim \in Nat \ {0}, Struct(c, h, lim), c # <<>>, NEW x \in Act,
           NEW mk, mk = After(h[Len(c)], x),
           x.k # "host", Above(c[Len(c)], x), x.k = "resume" => ~In(c, x.th),
           x.k = "pcall" => /\ x.ncc = h[Len(c)].calls /\ x.ci = h[Len(c)].frames
                            /\ x.errfunc \in {0, h[Len(c)].handler},
           mk.calls <= lim, x.k \notin {"call", "throw"} => mk.calls < lim,
           x.k = "throw" \/ h[Len(c)].calls < lim
    PROVE  Struct(Append(c, x), Append(h, mk), lim)
  <1> DEFINE c1 == Append(c, x)
             h1 == Append(h, mk)
             n == Len(c)
  <1>1. c \in Seq(Act) /\ h \in Seq(Mark) /\ Len(h) = n /\ n \in Nat \ {0}
    BY DEF Struct, Shaped
  <1>2. h[n] \in Mark /\ c[n] \in Act /\ mk \in Mark
    BY <1>1, AfterIsMark
  <1>3. /\ c1 \in Seq(Act) /\ Len(c1) = n + 1 /\ c1[n + 1] = x
        /\ \A j \in 1 .. n : c1[j] = c[j]
    BY <1>1, Longer
  <1>4. /\ h1 \in Seq(Mark) /\ Len(h1) = n + 1 /\ h1[n + 1] = mk
        /\ \A j \in 1 .. n : h1[j] = h[j]
    BY <1>1, <1>2, Longer
  <1> HIDE DEF c1, h1, n
  <1>5. Shaped(c1, h1)
    <2>1. c1[1] = [k |-> "host", th |-> Main] /\ h1[1] = First
      BY <1>1, <1>3, <1>4 DEF Struct, Shaped
    <2>2. ASSUME NEW j \in 2 .. n + 1
          PROVE  c1[j].k # "host" /\ Above(c1[j - 1], c1[j]) /\ h1[j] = After(h1[j - 1], c1[j])
      <3>1. CASE j = n + 1
        <4>1. j - 1 = n /\ n \in 1 .. n
          BY <1>1, <3>1
        <4>2. c1[j] = x /\ c1[j - 1] = c[n] /\ h1[j] = mk /\ h1[j - 1] = h[n]
          BY <1>3, <1>4, <3>1, <4>1
        <4> QED
          BY <4>2 DEF n
      <3>2. CASE j # n + 1
        <4>1. j \in 2 .. n /\ j \in 1 .. n /\ j - 1 \in 1 .. n
          BY <1>1, <3>2
        <4>2. c1[j] = c[j] /\ c1[j - 1] = c[j - 1] /\ h1[j] = h[j] /\ h1[j - 1] = h[j - 1]
          BY <1>3, <1>4, <4>1
        <4> QED
          BY <4>1, <4>2 DEF Struct, Shaped, n
      <3> QED
        BY <3>1, <3>2
    <2> QED
      BY <1>3, <1>4, <2>1, <2>2 DEF Shaped
  <1>6. Apart(c1, h1)
    <2> SUFFICES ASSUME NEW j \in 1 .. n + 1, NEW i \in 1 .. j
                 PROVE  /\ i # j /\ Starts(c1[j]) => c1[i].th # c1[j].th
                        /\ c1[i].th = c1[j].th => /\ h1[i].frames <= h1[j].frames
                                                  /\ \A l \in i .. j : c1[l].th = c1[j].th
      BY <1>3 DEF Apart
    <2>1. CASE j # n + 1
      <3>1. j \in 1 .. n /\ i \in 1 .. n /\ \A l \in i .. j : l \in 1 .. n
        BY <1>1, <2>1
      <3>2. /\ c1[i] = c[i] /\ c1[j] = c[j] /\ h1[i] = h[i] /\ h1[j] = h[j]
            /\ \A l \in i .. j : c1[l] = c[l]
        BY <1>3, <1>4, <3>1
      <3>3. /\ i # j /\ Starts(c[j]) => c[i].th # c[j].th
            /\ c[i].th = c[j].th => /\ h[i].frames <= h[j].frames
                                   /\ \A l \in i .. j : c[l].th = c[j].th
        BY <3>1 DEF Struct, Apart, n
      <3> QED
        BY <3>2, <3>3
    <2>2. CASE j = n + 1 /\ i = n + 1
      <3>1. \A l \in i .. j : l = n + 1
        BY <1>1, <2>2
      <3> QED
        BY <1>2, <1>4, <2>2, <3>1 DEF Mark
    <2>3. CASE j = n + 1 /\ i # n + 1
      <3>1. i \in 1 .. n /\ c1[i] = c[i] /\ h1[i] = h[i] /\ c1[j] = x /\ h1[j] = mk
        BY <1>1, <1>3, <1>4, <2>3
      <3>2. CASE x.k = "resume"
        <4>1. c[i].th # x.th
          BY <3>1, <3>2 DEF In, n
        <4> QED
          BY <3>1, <4>1
      <3>3. CASE x.k # "resume"
        <4>1. ~Starts(x) /\ x.th = c[n].th
          BY <3>3 DEF Starts, Above, n
        <4>2. ASSUME c[i].th = x.th
              PROVE  h[i].frames <= mk.frames /\ \A l \in i .. j : c1[l].th = x.th
          <5>1. n \in 1 .. Len(c) /\ i \in 1 .. n
            BY <1>1, <3>1 DEF n
          <5>2. h[i].frames <= h[n].frames /\ \A l \in i .. n : c[l].th = c[n].th
            BY <4>1, <4>2, <5>1 DEF Struct, Apart
          <5>3. h[n].frames <= mk.frames
            <6>1. /\ x.k = "exec" => x.n \in Nat
                  /\ h[n].frames \in Nat
              BY <1>1, <1>2, ActFacts DEF Mark, n
            <6>2. mk.frames = h[n].frames
                              + (IF x.k = "c" THEN 1 ELSE IF x.k = "exec" THEN x.n ELSE 0)
              BY <4>1 DEF After, n
            <6> QED
              BY <6>1, <6>2
          <5>4. h[i].frames \in Nat /\ h[n].frames \in Nat /\ mk.frames \in Nat
            <6>1. h[i] \in Mark /\ h[n] \in Mark /\ mk \in Mark
              BY <1>1, <1>2, <3>1
            <6> QED
              BY <6>1 DEF Mark
          <5>5. ASSUME NEW l \in i .. j
                PROVE  c1[l].th = x.th
            <6>1. CASE l = n + 1
              BY <1>3, <6>1
            <6>2. CASE l # n + 1
              <7>1. l \in i .. n /\ l \in 1 .. n
                BY <1>1, <2>3, <3>1, <6>2
              <7> QED
                BY <1>3, <4>1, <5>2, <7>1
            <6> QED
              BY <6>1, <6>2
          <5> QED
            BY <5>2, <5>3, <5>4, <5>5
        <4> QED
          BY <3>1, <4>1, <4>2
      <3> QED
        BY <3>2, <3>3
    <2> QED
      BY <2>1, <2>2, <2>3
  <1>7. Saved(c1, h1)
    <2> SUFFICES ASSUME NEW j \in 1 .. n + 1, c1[j].k = "pcall"
                 PROVE  /\ c1[j].ncc = h1[j].calls /\ c1[j].ci = h1[j].frames
                        /\ c1[j].errfunc \in {0, h1[j - 1].handler}
      BY <1>3 DEF Saved
    <2>1. CASE j = n + 1
      <3>1. j - 1 = n /\ n \in 1 .. n /\ c1[j] = x /\ h1[j] = mk
        BY <1>1, <1>3, <1>4, <2>1
      <3>2. h1[j - 1] = h[n]
        BY <1>4, <3>1
      <3>3. mk.calls = h[n].calls /\ mk.frames = h[n].frames
        BY <1>2, <3>1 DEF After, Starts, Mark, n
      <3> QED
        BY <3>1, <3>2, <3>3 DEF n
    <2>2. CASE j # n + 1
      <3>1. j \in 1 .. n /\ c1[j] = c[j] /\ h1[j] = h[j]
        BY <1>1, <1>3, <1>4, <2>2
      <3>2. j # 1
        BY <1>1, <3>1 DEF Struct, Shaped
      <3>3. j - 1 \in 1 .. n /\ h1[j - 1] = h[j - 1]
        BY <1>1, <1>4, <3>1, <3>2
      <3> QED
        BY <3>1, <3>3 DEF Struct, Saved, n
    <2> QED
      BY <2>1, <2>2
  <1>8. Limited(c1, h1, lim)
    <2> SUFFICES ASSUME NEW j \in 1 .. n + 1
                 PROVE  /\ h1[j].calls <= lim
                        /\ c1[j].k \notin {"call", "throw"} => h1[j].calls < lim
                        /\ j < n + 1 => c1[j + 1].k = "throw" \/ h1[j].calls < lim
      BY <1>3 DEF Limited
    <2>1. CASE j = n + 1
      BY <1>1, <1>3, <1>4, <2>1
    <2>2. CASE j = n
      <3>1. j \in 1 .. n /\ c1[j] = c[n] /\ h1[j] = h[n] /\ c1[j + 1] = x
        BY <1>1, <1>3, <1>4, <2>2
      <3> QED
        BY <2>2, <3>1 DEF Struct, Limited, n
    <2>3. CASE j # n /\ j # n + 1
      <3>1. /\ j \in 1 .. n /\ j + 1 \in 1 .. n /\ j < n
            /\ c1[j] = c[j] /\ h1[j] = h[j] /\ c1[j + 1] = c[j + 1]
        BY <1>1, <1>3, <1>4, <2>3
      <3> QED
        BY <3>1 DEF Struct, Limited, n
    <2> QED
      BY <2>1, <2>2, <2>3
  <1> QED
    BY <1>5, <1>6, <1>7, <1>8 DEF Struct, c1, h1

\* A C stack that is cut.
LEMMA StructCut ==
    ASSUME NEW c, NEW h, NEW lim, Struct(c, h, lim), NEW m \in 1 .. Len(c)
    PROVE  Struct(SubSeq(c, 1, m), SubSeq(h, 1, m), lim)
  <1> DEFINE c1 == SubSeq(c, 1, m)
             h1 == SubSeq(h, 1, m)
  <1>1. c \in Seq(Act) /\ h \in Seq(Mark) /\ Len(h) = Len(c) /\ m \in Nat \ {0} /\ m <= Len(c)
    BY DEF Struct, Shaped
  <1>2. c1 \in Seq(Act) /\ Len(c1) = m /\ \A j \in 1 .. m : c1[j] = c[j]
    BY <1>1, Shorter
  <1>3. h1 \in Seq(Mark) /\ Len(h1) = m /\ \A j \in 1 .. m : h1[j] = h[j]
    BY <1>1, Shorter
  <1> HIDE DEF c1, h1
  <1>4. \A j \in 1 .. m : j \in 1 .. Len(c) /\ (j # 1 => j \in 2 .. Len(c) /\ j - 1 \in 1 .. m)
    BY <1>1
  <1>5. Shaped(c1, h1)
    <2>1. c1[1] = [k |-> "host", th |-> Main] /\ h1[1] = First
      BY <1>1, <1>2, <1>3 DEF Struct, Shaped
    <2>2. ASSUME NEW j \in 2 .. m
          PROVE  c1[j].k # "host" /\ Above(c1[j - 1], c1[j]) /\ h1[j] = After(h1[j - 1], c1[j])
      <3>1. j \in 1 .. m /\ j # 1
        BY <1>1
      <3> QED
        BY <1>2, <1>3, <1>4, <3>1 DEF Struct, Shaped
    <2> QED
      BY <1>2, <1>3, <2>1, <2>2 DEF Shaped
  <1>6. Apart(c1, h1)
    <2> SUFFICES ASSUME NEW j \in 1 .. m, NEW i \in 1 .. j
                 PROVE  /\ i # j /\ Starts(c1[j]) => c1[i].th # c1[j].th
                        /\ c1[i].th = c1[j].th => /\ h1[i].frames <= h1[j].frames
                                                  /\ \A l \in i .. j : c1[l].th = c1[j].th
      BY <1>2 DEF Apart
    <2>1. i \in 1 .. m /\ \A l \in i .. j : l \in 1 .. m
      BY <1>1
    <2>2. /\ i # j /\ Starts(c[j]) => c[i].th # c[j].th
          /\ c[i].th = c[j].th => /\ h[i].frames <= h[j].frames
                                  /\ \A l \in i .. j : c[l].th = c[j].th
      BY <1>4 DEF Struct, Apart
    <2>3. c1[i] = c[i] /\ c1[j] = c[j] /\ h1[i] = h[i] /\ h1[j] = h[j]
      BY <1>2, <1>3, <2>1
    <2>4. \A l \in i .. j : c1[l] = c[l]
      BY <1>2, <2>1
    <2> QED
      BY <2>2, <2>3, <2>4
  <1>7. Saved(c1, h1)
    <2> SUFFICES ASSUME NEW j \in 1 .. m, c1[j].k = "pcall"
                 PROVE  /\ c1[j].ncc = h1[j].calls /\ c1[j].ci = h1[j].frames
                        /\ c1[j].errfunc \in {0, h1[j - 1].handler}
      BY <1>2 DEF Saved
    <2>1. j # 1
      BY <1>2, <1>5 DEF Shaped
    <2> QED
      BY <1>2, <1>3, <1>4, <2>1 DEF Struct, Saved
  <1>8. Limited(c1, h1, lim)
    <2> SUFFICES ASSUME NEW j \in 1 .. m
                 PROVE  /\ h1[j].calls <= lim
                        /\ c1[j].k \notin {"call", "throw"} => h1[j].calls < lim
                        /\ j < m => c1[j + 1].k = "throw" \/ h1[j].calls < lim
      BY <1>2 DEF Limited
    <2>1. j < m => j + 1 \in 1 .. m /\ j < Len(c)
      BY <1>1
    <2> QED
      BY <1>2, <1>3, <1>4, <2>1 DEF Struct, Limited
  <1> QED
    BY <1>5, <1>6, <1>7, <1>8 DEF Struct, c1, h1

------------------------------------------------------------------------------
(* Changes of the C stack and of one thread that keep them together *)

\* The frames a thread keeps may be changed, but for the kind of their function.
Kin(f, g) == (f \in CFrame => g \in CFrame) /\ (f \in LuaFrame => g \in LuaFrame)
KeepsFrames(L0, L, n) == \A i \in 1 .. n : Kin(L0.ci[i], L.ci[i])
Keeps(L0, L) ==
    /\ L.status = L0.status /\ L.ncc = L0.ncc /\ L.errfunc = L0.errfunc
    /\ Len(L.ci) = Len(L0.ci) /\ KeepsFrames(L0, L, Len(L.ci))

\* Frames that an entry stands for.
Weight(x) == IF x.k = "c" THEN 1 ELSE IF x.k = "exec" THEN x.n ELSE 0

\* An entry has so many frames of its own, of luaD_precall's or none.
LEMMA WeightIs ==
    ASSUME NEW x \in Act
    PROVE  Weight(x) \in Nat
  BY ActFacts DEF Weight

\* The entries of a good C stack.
LEMMA Shape1 ==
    ASSUME NEW S, NEW c, NEW h, NEW lim, Good(S, c, h, lim)
    PROVE  /\ c \in Seq(Act) /\ h \in Seq(Mark) /\ Len(h) = Len(c) /\ Len(c) \in Nat
           /\ lim \in Nat \ {0} /\ (c # <<>> => Len(c) \in Nat \ {0})
           /\ \A j \in 1 .. Len(c) : /\ c[j] \in Act /\ h[j] \in Mark /\ c[j].th \in Thread
                                     /\ h[j].frames \in Nat /\ h[j].calls \in Nat
                                     /\ h[j].handler \in Int
  <1>1. /\ c \in Seq(Act) /\ h \in Seq(Mark) /\ Len(h) = Len(c) /\ Len(c) \in Nat
        /\ lim \in Nat \ {0} /\ (c # <<>> => Len(c) \in Nat \ {0})
    BY DEF Good, Struct, Shaped
  <1>2. ASSUME NEW j \in 1 .. Len(c)
        PROVE  /\ c[j] \in Act /\ h[j] \in Mark /\ c[j].th \in Thread
               /\ h[j].frames \in Nat /\ h[j].calls \in Nat /\ h[j].handler \in Int
    <2>1. c[j] \in Act /\ h[j] \in Mark
      BY <1>1
    <2> QED
      BY <2>1, ActFacts DEF Mark
  <1> QED
    BY <1>1, <1>2

\* A thread that keeps what is counted.
LEMMA Change ==
    ASSUME NEW S, NEW c, NEW h, NEW lim, Good(S, c, h, lim), NEW t \in Thread,
           NEW L, ThreadOK(L, lim), Keeps(S[t], L)
    PROVE  Good([S EXCEPT ![t] = L], c, h, lim)
  <1> DEFINE S1 == [S EXCEPT ![t] = L]
  <1>0. S = [u \in Thread |-> S[u]]
    BY DEF Good
  <1>1. S1 = [u \in Thread |-> S1[u]] /\ S1[t] = L /\ \A u \in Thread \ {t} : S1[u] = S[u]
    BY <1>0
  <1> HIDE DEF S1
  <1>2. ThreadOK(S[t], lim) /\ LiveOK(S[t], c, h, t) /\ (In(c, t) \/ IdleOK(S[t]))
    BY DEF Good
  <1>3. LiveOK(L, c, h, t)
    <2> SUFFICES ASSUME NEW j \in 1 .. Len(c), c[j].th = t
                 PROVE  L.status = "ok" /\ Agrees(L, c[j], h[j], Ends(c, j))
      BY DEF LiveOK
    <2>1. S[t].status = "ok" /\ Agrees(S[t], c[j], h[j], Ends(c, j))
      BY <1>2 DEF LiveOK
    <2>2. /\ h[j].frames \in Nat /\ c[j] \in Act /\ Len(L.ci) = Len(S[t].ci)
          /\ Len(L.ci) \in Nat
      <3>1. h[j].frames \in Nat /\ c[j] \in Act
        BY Shape1
      <3>2. L.ci \in Seq(CI) /\ Len(L.ci) = Len(S[t].ci)
        BY DEF Keeps, ThreadOK
      <3> QED
        BY <3>1, <3>2
    <2>3. h[j].frames <= Len(L.ci)
      BY <2>1, <2>2 DEF Agrees
    <2>4. ASSUME c[j].k = "c"
          PROVE  L.ci[h[j].frames] \in CFrame
      <3>1. h[j].frames \in 1 .. Len(L.ci)
        <4>1. j # 1 /\ j \in 2 .. Len(c)
          BY <2>4 DEF Good, Struct, Shaped
        <4>2. h[j] = After(h[j - 1], c[j]) /\ j - 1 \in 1 .. Len(c)
          BY <4>1 DEF Good, Struct, Shaped
        <4>3. h[j].frames = h[j - 1].frames + 1 /\ h[j - 1].frames \in Nat
          BY <2>4, <4>2, Shape1 DEF After, Starts
        <4> QED
          BY <2>2, <2>3, <4>3
      <3> QED
        BY <2>1, <2>2, <2>4, <3>1 DEF Agrees, Keeps, KeepsFrames, Kin
    <2>5. ASSUME c[j].k = "exec", NEW i \in h[j].frames - c[j].n + 1 .. h[j].frames
          PROVE  L.ci[i] \in LuaFrame
      <3>1. i \in 1 .. Len(L.ci)
        <4>1. j # 1 /\ j \in 2 .. Len(c)
          BY <2>5 DEF Good, Struct, Shaped
        <4>2. h[j] = After(h[j - 1], c[j]) /\ j - 1 \in 1 .. Len(c)
          BY <4>1 DEF Good, Struct, Shaped
        <4>3. h[j].frames = h[j - 1].frames + c[j].n /\ h[j - 1].frames \in Nat /\ c[j].n \in Nat
          BY SMTT(30), <2>2, <2>5, <4>2, Shape1, ActFacts DEF After, Starts
        <4> QED
          <5> DEFINE f == h[j].frames
                     g == h[j - 1].frames
                     w == c[j].n
                     a == Len(L.ci)
          <5>1. f \in Nat /\ a \in Nat /\ f <= a /\ f = g + w /\ g \in Nat /\ w \in Nat
            BY <2>2, <2>3, <4>3
          <5> HIDE DEF f, g, w, a
          <5>2. \A l \in f - w + 1 .. f : l \in 1 .. a
            BY <5>1
          <5> QED
            BY <5>2 DEF f, w, a
      <3> QED
        BY <2>1, <2>2, <2>5, <3>1 DEF Agrees, Keeps, KeepsFrames, Kin
    <2> QED
      BY <2>1, <2>2, <2>3, <2>4, <2>5 DEF Agrees, Keeps
  <1>4. ASSUME IdleOK(S[t])
        PROVE  IdleOK(L)
    <2>1. L.ci \in Seq(CI) /\ Len(L.ci) \in Nat /\ Len(L.ci) = Len(S[t].ci)
      BY DEF Keeps, ThreadOK
    <2>2. L.status \in {"ok", "yield"} => L.ncc = 0 /\ L.errfunc = 0
      BY <1>4 DEF IdleOK, Keeps
    <2>3. ASSUME L.status = "yield"
          PROVE  /\ Len(L.ci) >= 2
                 /\ \A i \in 2 .. Len(L.ci) - 1 : L.ci[i] \in LuaFrame
                 /\ L.ci[Len(L.ci)] \in LuaFrame \/ (L.ci[Len(L.ci)] \in CFrame /\ Len(L.ci) >= 3)
      <3>1. S[t].status = "yield" /\ \A i \in 1 .. Len(L.ci) : Kin(S[t].ci[i], L.ci[i])
        BY <2>3 DEF Keeps, KeepsFrames
      <3>2. /\ Len(S[t].ci) >= 2
            /\ \A i \in 2 .. Len(S[t].ci) - 1 : S[t].ci[i] \in LuaFrame
            /\ \/ S[t].ci[Len(S[t].ci)] \in LuaFrame
               \/ S[t].ci[Len(S[t].ci)] \in CFrame /\ Len(S[t].ci) >= 3
        BY <1>4, <3>1 DEF IdleOK
      <3>3. Len(L.ci) \in 1 .. Len(L.ci) /\ \A i \in 2 .. Len(L.ci) - 1 : i \in 1 .. Len(L.ci)
        BY <2>1, <3>2
      <3> QED
        BY <2>1, <3>1, <3>2, <3>3 DEF Kin
    <2> QED
      BY <2>2, <2>3 DEF IdleOK
  <1>5. ASSUME NEW u \in Thread
        PROVE  ThreadOK(S1[u], lim) /\ LiveOK(S1[u], c, h, u) /\ (In(c, u) \/ IdleOK(S1[u]))
    <2>1. CASE u = t
      BY <1>1, <1>2, <1>3, <1>4, <2>1
    <2>2. CASE u # t
      BY <1>1, <2>2 DEF Good
    <2> QED
      BY <2>1, <2>2
  <1> QED
    BY <1>1, <1>5 DEF Good, S1

\* An entry more: what is left to show is that its thread agrees.
LEMMA Pushed ==
    ASSUME NEW S, NEW c, NEW h, NEW lim, Good(S, c, h, lim), NEW x \in Act, NEW mk \in Mark,
           NEW t, t = x.th, Struct(Append(c, x), Append(h, mk), lim),
           NEW L, ThreadOK(L, lim), LiveOK(L, Append(c, x), Append(h, mk), t)
    PROVE  Good([S EXCEPT ![t] = L], Append(c, x), Append(h, mk), lim)
  <1> DEFINE S1 == [S EXCEPT ![t] = L]
             c1 == Append(c, x)
             h1 == Append(h, mk)
             n == Len(c)
  <1>0. S = [u \in Thread |-> S[u]] /\ t \in Thread
    BY ActFacts DEF Good
  <1>1. S1 = [u \in Thread |-> S1[u]] /\ S1[t] = L /\ \A u \in Thread \ {t} : S1[u] = S[u]
    BY <1>0
  <1>2. c \in Seq(Act) /\ h \in Seq(Mark) /\ Len(h) = n /\ n \in Nat
    BY Shape1
  <1>3. /\ c1 \in Seq(Act) /\ Len(c1) = n + 1 /\ c1[n + 1] = x
        /\ \A j \in 1 .. n : c1[j] = c[j]
    BY <1>2, Longer
  <1>4. /\ h1 \in Seq(Mark) /\ Len(h1) = n + 1 /\ h1[n + 1] = mk
        /\ \A j \in 1 .. n : h1[j] = h[j]
    BY <1>2, Longer
  <1> HIDE DEF S1, c1, h1, n
  <1>5. ASSUME NEW u \in Thread
        PROVE  ThreadOK(S1[u], lim) /\ LiveOK(S1[u], c1, h1, u) /\ (In(c1, u) \/ IdleOK(S1[u]))
    <2>1. CASE u = t
      <3>1. In(c1, t)
        BY <1>2, <1>3 DEF In
      <3> QED
        BY <1>1, <2>1, <3>1 DEF c1, h1
    <2>2. CASE u # t
      <3>1. /\ S1[u] = S[u] /\ ThreadOK(S[u], lim) /\ LiveOK(S[u], c, h, u)
            /\ In(c, u) \/ IdleOK(S[u])
        BY <1>1, <2>2 DEF Good
      <3>2. ASSUME NEW j \in 1 .. n + 1, c1[j].th = u
            PROVE  S[u].status = "ok" /\ Agrees(S[u], c1[j], h1[j], Ends(c1, j))
        <4>1. j \in 1 .. n
          BY <1>2, <1>3, <2>2, <3>2
        <4>2. c1[j] = c[j] /\ h1[j] = h[j]
          BY <1>3, <1>4, <4>1
        <4>3. S[u].status = "ok" /\ Agrees(S[u], c[j], h[j], Ends(c, j))
          BY <3>1, <3>2, <4>1, <4>2 DEF LiveOK, n
        <4>4. Ends(c1, j) => Ends(c, j)
          <5>1. CASE j = n
            BY <5>1 DEF Ends, n
          <5>2. CASE j # n
            <6>1. j + 1 \in 1 .. n /\ j # n + 1
              BY <1>2, <4>1, <5>2
            <6> QED
              BY <1>3, <6>1 DEF Ends
          <5> QED
            BY <5>1, <5>2
        <4> QED
          BY <4>2, <4>3, <4>4 DEF Agrees
      <3>3. LiveOK(S[u], c1, h1, u)
        BY <1>3, <3>2 DEF LiveOK
      <3>4. In(c, u) => In(c1, u)
        BY <1>2, <1>3 DEF In, n
      <3> QED
        BY <3>1, <3>3, <3>4
    <2> QED
      BY <2>1, <2>2
  <1>6. Struct(c1, h1, lim) /\ lim \in Nat \ {0}
    BY DEF Good, c1, h1
  <1> QED
    BY <1>1, <1>5, <1>6 DEF Good, S1, c1, h1

\* Entries less, all of one thread: what is left to show is that this thread agrees.
LEMMA CutBack ==
    ASSUME NEW S, NEW c, NEW h, NEW lim, Good(S, c, h, lim), NEW m \in 1 .. Len(c),
           NEW t \in Thread, \A j \in m + 1 .. Len(c) : c[j].th = t,
           c[m].th = t \/ (m < Len(c) /\ c[m + 1].k = "resume"),
           NEW L, ThreadOK(L, lim), LiveOK(L, SubSeq(c, 1, m), SubSeq(h, 1, m), t),
           In(SubSeq(c, 1, m), t) \/ IdleOK(L)
    PROVE  Good([S EXCEPT ![t] = L], SubSeq(c, 1, m), SubSeq(h, 1, m), lim)
  <1> DEFINE S1 == [S EXCEPT ![t] = L]
             c1 == SubSeq(c, 1, m)
             h1 == SubSeq(h, 1, m)
  <1>0. S = [u \in Thread |-> S[u]]
    BY DEF Good
  <1>1. S1 = [u \in Thread |-> S1[u]] /\ S1[t] = L /\ \A u \in Thread \ {t} : S1[u] = S[u]
    BY <1>0
  <1>2. /\ c \in Seq(Act) /\ h \in Seq(Mark) /\ Len(h) = Len(c) /\ Len(c) \in Nat
        /\ m \in Nat \ {0} /\ m <= Len(c)
    BY Shape1
  <1>3. c1 \in Seq(Act) /\ Len(c1) = m /\ \A j \in 1 .. m : c1[j] = c[j]
    BY <1>2, Shorter
  <1>4. h1 \in Seq(Mark) /\ Len(h1) = m /\ \A j \in 1 .. m : h1[j] = h[j]
    BY <1>2, Shorter
  <1>5. Struct(c1, h1, lim) /\ lim \in Nat \ {0}
    BY StructCut DEF Good
  <1> HIDE DEF S1, c1, h1
  <1>6. ASSUME NEW u \in Thread
        PROVE  ThreadOK(S1[u], lim) /\ LiveOK(S1[u], c1, h1, u) /\ (In(c1, u) \/ IdleOK(S1[u]))
    <2>1. CASE u = t
      BY <1>1, <2>1 DEF c1, h1
    <2>2. CASE u # t
      <3>1. /\ S1[u] = S[u] /\ ThreadOK(S[u], lim) /\ LiveOK(S[u], c, h, u)
            /\ In(c, u) \/ IdleOK(S[u])
        BY <1>1, <2>2 DEF Good
      <3>2. ASSUME NEW j \in 1 .. m, c1[j].th = u
            PROVE  S[u].status = "ok" /\ Agrees(S[u], c1[j], h1[j], Ends(c1, j))
        <4>1. j \in 1 .. Len(c) /\ c1[j] = c[j] /\ h1[j] = h[j]
          BY <1>2, <1>3, <1>4
        <4>2. S[u].status = "ok" /\ Agrees(S[u], c[j], h[j], Ends(c, j))
          BY <3>1, <3>2, <4>1 DEF LiveOK
        <4>3. Ends(c1, j) => Ends(c, j)
          <5>1. CASE j = m
            BY <2>2, <3>2, <4>1, <5>1 DEF Ends
          <5>2. CASE j # m
            <6>1. j + 1 \in 1 .. m
              BY <1>2, <5>2
            <6> QED
              BY <1>3, <5>2, <6>1 DEF Ends
          <5> QED
            BY <5>1, <5>2
        <4> QED
          BY <4>1, <4>2, <4>3 DEF Agrees
      <3>3. LiveOK(S[u], c1, h1, u)
        BY <1>3, <3>2 DEF LiveOK
      <3>4. ASSUME In(c, u)
            PROVE  In(c1, u)
        <4>1. PICK j \in 1 .. Len(c) : c[j].th = u
          BY <3>4 DEF In
        <4>2. j \in 1 .. m
          BY <1>2, <2>2, <4>1
        <4> QED
          BY <1>3, <4>1, <4>2 DEF In
      <3> QED
        BY <3>1, <3>3, <3>4
    <2> QED
      BY <2>1, <2>2
  <1> QED
    BY <1>1, <1>5, <1>6 DEF Good, S1, c1, h1

\* What the top of the C stack says of its thread.
LEMMA AtTop ==
    ASSUME NEW S, NEW c, NEW h, NEW lim, Good(S, c, h, lim), c # <<>>,
           NEW x, x = c[Len(c)], NEW t, t = x.th
    PROVE  /\ Len(c) \in Nat \ {0} /\ x \in Act /\ t \in Thread /\ ThreadOK(S[t], lim)
           /\ S[t].status = "ok" /\ S[t].ncc = h[Len(c)].calls
           /\ Len(S[t].ci) = h[Len(c)].frames /\ S[t].errfunc \in {0, h[Len(c)].handler}
           /\ x.k \notin {"call", "throw"} => S[t].ncc < lim
           /\ x.k = "c" => S[t].ci[Len(S[t].ci)] \in CFrame
           /\ x.k = "exec" => \A i \in Len(S[t].ci) - x.n + 1 .. Len(S[t].ci) :
                                 S[t].ci[i] \in LuaFrame
  <1>1. Len(c) \in Nat \ {0} /\ Len(c) \in 1 .. Len(c)
    BY Shape1
  <1>2. x \in Act /\ t \in Thread
    BY <1>1, Shape1
  <1>3. ThreadOK(S[t], lim) /\ LiveOK(S[t], c, h, t)
    BY <1>2 DEF Good
  <1>4. S[t].status = "ok" /\ Agrees(S[t], x, h[Len(c)], Ends(c, Len(c)))
    BY <1>1, <1>3 DEF LiveOK
  <1>5. x.k \notin {"call", "throw"} => h[Len(c)].calls < lim
    BY <1>1 DEF Good, Struct, Limited
  <1> QED
    BY <1>1, <1>2, <1>3, <1>4, <1>5 DEF Agrees, Ends

\* And what is below it.
LEMMA BelowTop ==
    ASSUME NEW S, NEW c, NEW h, NEW lim, Good(S, c, h, lim), c # <<>>,
           NEW x, x = c[Len(c)], x.k # "host"
    PROVE  /\ Len(c) - 1 \in 1 .. Len(c) /\ Above(c[Len(c) - 1], x)
           /\ h[Len(c)] = After(h[Len(c) - 1], x)
  <1>1. Len(c) \in Nat \ {0} /\ Len(c) # 1
    BY Shape1 DEF Good, Struct, Shaped
  <1>2. Len(c) \in 2 .. Len(c) /\ Len(c) - 1 \in 1 .. Len(c)
    <2> DEFINE n == Len(c)
    <2>1. n \in Nat \ {0} /\ n # 1
      BY <1>1
    <2> HIDE DEF n
    <2>2. n \in 2 .. n /\ n - 1 \in 1 .. n
      BY <2>1
    <2> QED
      BY <2>2 DEF n
  <1>3. \A j \in 2 .. Len(c) : Above(c[j - 1], c[j]) /\ h[j] = After(h[j - 1], c[j])
    BY DEF Good, Struct, Shaped
  <1> QED
    BY <1>2, <1>3

\* Entries of the same thread as the top, below which nothing is another thread's.
LEMMA Contiguous ==
    ASSUME NEW S, NEW c, NEW h, NEW lim, Good(S, c, h, lim), NEW i \in 1 .. Len(c),
           c[i].th = c[Len(c)].th
    PROVE  /\ \A j \in i .. Len(c) : c[j].th = c[i].th /\ h[i].frames <= h[j].frames
           /\ \A j \in i + 1 .. Len(c) : c[j].k # "resume"
  <1>1. Len(c) \in Nat /\ i \in Nat /\ i <= Len(c) /\ Len(c) \in 1 .. Len(c)
    BY Shape1
  <1>2. \A j \in i .. Len(c) : c[j].th = c[i].th
    BY <1>1 DEF Good, Struct, Apart
  <1>3. \A j \in i .. Len(c) : h[i].frames <= h[j].frames
    <2> SUFFICES ASSUME NEW j \in i .. Len(c)
                 PROVE  h[i].frames <= h[j].frames
      OBVIOUS
    <2>1. j \in 1 .. Len(c) /\ i \in 1 .. j
      BY <1>1
    <2> QED
      BY <1>2, <2>1 DEF Good, Struct, Apart
  <1>4. \A j \in i + 1 .. Len(c) : c[j].k # "resume"
    <2> SUFFICES ASSUME NEW j \in i + 1 .. Len(c), c[j].k = "resume"
                 PROVE  FALSE
      OBVIOUS
    <2>1. j \in 1 .. Len(c) /\ i \in 1 .. j /\ i # j /\ j \in i .. Len(c)
      BY <1>1
    <2>2. c[i].th # c[j].th
      BY <2>1 DEF Good, Struct, Apart, Starts
    <2> QED
      BY <1>2, <2>1, <2>2
  <1> QED
    BY <1>2, <1>3, <1>4

\* A step up: the thread of the top adds an entry and what belongs to it.
Adds(L0, x, L) ==
    /\ L.status = "ok" /\ L.ncc = L0.ncc + (IF x.k = "call" THEN 1 ELSE 0)
    /\ Len(L.ci) = Len(L0.ci) + Weight(x) /\ KeepsFrames(L0, L, Len(L0.ci))
    /\ x.k = "c" => L.ci[Len(L.ci)] \in CFrame
    /\ x.k = "exec" => \A i \in Len(L0.ci) + 1 .. Len(L.ci) : L.ci[i] \in LuaFrame
    /\ IF x.k = "pcall" THEN /\ x.ncc = L0.ncc /\ x.ci = Len(L0.ci) /\ x.errfunc = L0.errfunc
                             /\ L.errfunc \in {0, x.top - 1}
       ELSE L.errfunc = L0.errfunc

\* A call, a frame or an error is put on top, and the thread changes as it says
\* (luaD_call, luaD_precall, lua_pcall, luaD_callhook, luaD_throw).
LEMMA Push ==
    ASSUME NEW S, NEW c, NEW h, NEW lim, Good(S, c, h, lim), c # <<>>, NEW x \in Act,
           x.k \notin {"host", "resume"}, Above(c[Len(c)], x), NEW t, t = x.th,
           NEW L, ThreadOK(L, lim), Adds(S[t], x, L),
           x.k \notin {"call", "throw"} => L.ncc < lim, x.k = "throw" \/ S[t].ncc < lim
    PROVE  Good([S EXCEPT ![t] = L], Append(c, x), Append(h, After(h[Len(c)], x)), lim)
  <1> DEFINE n == Len(c)
             mk == After(h[n], x)
             c1 == Append(c, x)
             h1 == Append(h, mk)
  <1>1. c[n].th = t /\ ~Starts(x)
    BY DEF Above, Starts
  <1>2. /\ n \in Nat \ {0} /\ t \in Thread /\ ThreadOK(S[t], lim)
        /\ S[t].status = "ok" /\ S[t].ncc = h[n].calls
        /\ Len(S[t].ci) = h[n].frames /\ S[t].errfunc \in {0, h[n].handler}
    BY <1>1, AtTop
  <1>3. /\ c \in Seq(Act) /\ h \in Seq(Mark) /\ Len(h) = n /\ h[n] \in Mark
        /\ h[n].frames \in Nat /\ h[n].calls \in Nat /\ lim \in Nat \ {0}
    BY <1>2, Shape1
  <1>4. mk \in Mark
    BY <1>3, AfterIsMark
  <1>5. /\ mk.frames = h[n].frames + Weight(x)
        /\ mk.calls = h[n].calls + (IF x.k = "call" THEN 1 ELSE 0)
        /\ mk.handler = IF x.k = "pcall" THEN x.top - 1 ELSE h[n].handler
    BY <1>1 DEF After, Weight
  <1>6. L.ncc = mk.calls /\ Len(L.ci) = mk.frames /\ L.errfunc \in {0, mk.handler}
    BY <1>2, <1>5 DEF Adds
  <1>7. Struct(c1, h1, lim)
    <2>1. mk.calls <= lim
      BY <1>6 DEF ThreadOK
    <2>2. x.k \notin {"call", "throw"} => mk.calls < lim
      BY <1>6
    <2>3. x.k = "throw" \/ h[n].calls < lim
      BY <1>2
    <2>4. x.k = "pcall" => /\ x.ncc = h[n].calls /\ x.ci = h[n].frames
                           /\ x.errfunc \in {0, h[n].handler}
      BY <1>2 DEF Adds
    <2> QED
      BY <1>3, <2>1, <2>2, <2>3, <2>4, StructPush DEF Good
  <1>8. /\ c1 \in Seq(Act) /\ Len(c1) = n + 1 /\ c1[n + 1] = x
        /\ \A j \in 1 .. n : c1[j] = c[j]
    BY <1>3, Longer
  <1>9. /\ h1 \in Seq(Mark) /\ Len(h1) = n + 1 /\ h1[n + 1] = mk
        /\ \A j \in 1 .. n : h1[j] = h[j]
    BY <1>3, <1>4, Longer
  <1> HIDE DEF c1, h1, mk, n
  <1>10. ASSUME NEW j \in 1 .. n + 1, c1[j].th = t
         PROVE  L.status = "ok" /\ Agrees(L, c1[j], h1[j], Ends(c1, j))
    <2>0. L.status = "ok" /\ L.ci \in Seq(CI) /\ Len(L.ci) \in Nat /\ Weight(x) \in Nat
      <3>1. Weight(x) \in Nat
        BY WeightIs
      <3>2. L.status = "ok"
        BY DEF Adds
      <3>3. L.ci \in Seq(CI)
        BY DEF ThreadOK
      <3>4. Len(L.ci) \in Nat
        BY <3>3
      <3> QED
        BY <3>1, <3>2, <3>3, <3>4
    <2>1. CASE j = n + 1
      <3>1. c1[j] = x /\ h1[j] = mk
        BY <1>8, <1>9, <2>1
      <3>2. x.k = "c" => L.ci[mk.frames] \in CFrame
        BY <1>6 DEF Adds
      <3>3. x.k = "exec" => \A i \in mk.frames - x.n + 1 .. mk.frames : L.ci[i] \in LuaFrame
        <4> SUFFICES ASSUME x.k = "exec"
                     PROVE  \A i \in mk.frames - x.n + 1 .. mk.frames : L.ci[i] \in LuaFrame
          OBVIOUS
        <4>1. mk.frames - x.n + 1 = Len(S[t].ci) + 1
          BY <1>2, <1>3, <1>5, ActFacts DEF Weight
        <4> QED
          BY <1>6, <4>1 DEF Adds
      <3>4. mk.frames <= Len(L.ci)
        BY <1>6, <2>0
      <3> QED
        BY <1>6, <2>0, <3>1, <3>2, <3>3, <3>4 DEF Agrees
    <2>2. CASE j # n + 1
      <3>1. j \in 1 .. n /\ j \in 1 .. Len(c) /\ c1[j] = c[j] /\ h1[j] = h[j]
        BY <1>2, <1>8, <1>9, <2>2 DEF n
      <3>2. ~Ends(c1, j)
        <4>1. c1[j + 1].k # "resume"
          <5>1. CASE j = n
            BY <1>8, <5>1
          <5>2. CASE j # n
            <6>1. j + 1 \in 1 .. n /\ j + 1 \in j + 1 .. Len(c)
              BY <1>2, <3>1, <5>2 DEF n
            <6>2. c[j + 1].k # "resume"
              BY <1>1, <1>10, <3>1, <6>1, Contiguous DEF n
            <6> QED
              BY <1>8, <6>1, <6>2
          <5> QED
            BY <5>1, <5>2
        <4> QED
          BY <1>8, <2>2, <4>1 DEF Ends
      <3>3. Agrees(S[t], c[j], h[j], Ends(c, j)) /\ c[j].th = t
        BY <1>2, <1>10, <3>1 DEF Good, LiveOK
      <3>4. h[j].frames <= Len(S[t].ci) /\ h[j].frames \in Nat /\ Len(S[t].ci) \in Nat
        BY <1>2, <1>3, <3>1, <3>3, Shape1 DEF Agrees
      <3>5. Len(S[t].ci) <= Len(L.ci) /\ \A i \in 1 .. Len(S[t].ci) : Kin(S[t].ci[i], L.ci[i])
        <4>1. Len(L.ci) = Len(S[t].ci) + Weight(x) /\ KeepsFrames(S[t], L, Len(S[t].ci))
          BY DEF Adds
        <4>2. Len(S[t].ci) <= Len(L.ci)
          <5> DEFINE a == Len(S[t].ci)
                     w == Weight(x)
          <5>1. Len(L.ci) = a + w /\ a \in Nat /\ w \in Nat
            BY <2>0, <3>4, <4>1
          <5> HIDE DEF a, w
          <5>2. a <= Len(L.ci)
            BY <5>1
          <5> QED
            BY <5>2 DEF a
        <4> QED
          BY <4>1, <4>2 DEF KeepsFrames
      <3>6. /\ c[j].k = "c" => h[j].frames \in 1 .. Len(S[t].ci)
            /\ c[j].k = "exec" =>
                  \A i \in h[j].frames - c[j].n + 1 .. h[j].frames : i \in 1 .. Len(S[t].ci)
        <4>1. CASE c[j].k \in {"c", "exec"}
          <5>1. j \in 2 .. Len(c)
            BY <3>1, <4>1 DEF Good, Struct, Shaped
          <5>2. h[j] = After(h[j - 1], c[j]) /\ j - 1 \in 1 .. Len(c)
            BY <5>1 DEF Good, Struct, Shaped
          <5>3. h[j].frames = h[j - 1].frames + Weight(c[j]) /\ h[j - 1].frames \in Nat
            BY <4>1, <5>2, Shape1 DEF After, Starts, Weight
          <5>4. /\ c[j].k = "c" => Weight(c[j]) = 1
                /\ c[j].k = "exec" => Weight(c[j]) = c[j].n /\ c[j].n \in Nat
            BY <3>1, Shape1, ActFacts DEF Weight
          <5> DEFINE f == h[j].frames
                     g == h[j - 1].frames
                     w == Weight(c[j])
                     a == Len(S[t].ci)
          <5>5. f \in Nat /\ a \in Nat /\ f <= a /\ f = g + w /\ g \in Nat
            BY <3>4, <5>3
          <5>6. /\ c[j].k = "c" => w = 1
                /\ c[j].k = "exec" => w = c[j].n /\ w \in Nat
            BY <5>4
          <5> HIDE DEF f, g, w, a
          <5>7. /\ w = 1 => f \in 1 .. a
                /\ w \in Nat => \A i \in f - w + 1 .. f : i \in 1 .. a
            BY <5>5
          <5>8. /\ c[j].k = "c" => f \in 1 .. a
                /\ c[j].k = "exec" => \A i \in f - c[j].n + 1 .. f : i \in 1 .. a
            BY <5>6, <5>7
          <5> QED
            BY <5>8 DEF f, a
        <4>2. CASE c[j].k \notin {"c", "exec"}
          BY <4>2
        <4> QED
          BY <4>1, <4>2
      <3>7. c[j].k = "c" => L.ci[h[j].frames] \in CFrame
        BY <3>3, <3>5, <3>6 DEF Agrees, Kin
      <3>8. c[j].k = "exec" =>
               \A i \in h[j].frames - c[j].n + 1 .. h[j].frames : L.ci[i] \in LuaFrame
        BY <3>3, <3>5, <3>6 DEF Agrees, Kin
      <3>9. h[j].frames <= Len(L.ci)
        BY <2>0, <3>4, <3>5
      <3> QED
        BY <2>0, <3>1, <3>2, <3>7, <3>8, <3>9 DEF Agrees
    <2> QED
      BY <2>1, <2>2
  <1>11. LiveOK(L, c1, h1, t)
    BY <1>8, <1>10 DEF LiveOK
  <1> QED
    BY <1>4, <1>7, <1>11, Pushed DEF c1, h1, mk, n

\* A thread that is not under way is resumed.
LEMMA Begin ==
    ASSUME NEW S, NEW c, NEW h, NEW lim, Good(S, c, h, lim), c # <<>>, NEW x \in Act,
           x.k = "resume", Above(c[Len(c)], x), S[x.by].ncc < lim, NEW t, t = x.th, ~In(c, t),
           NEW L, ThreadOK(L, lim), L.status = "ok", L.ncc = 0, L.errfunc = 0, Len(L.ci) = 1
    PROVE  Good([S EXCEPT ![t] = L], Append(c, x), Append(h, First), lim)
  <1>1. /\ Len(c) \in Nat \ {0} /\ S[x.by].ncc = h[Len(c)].calls
        /\ c \in Seq(Act) /\ h \in Seq(Mark) /\ Len(h) = Len(c) /\ lim \in Nat \ {0}
    BY AtTop, Shape1 DEF Above
  <1>2. First \in Mark /\ First = After(h[Len(c)], x)
    BY DEF First, Mark, After, Starts
  <1>3. Struct(Append(c, x), Append(h, First), lim)
    <2>1. First.calls <= lim /\ First.calls < lim
      BY <1>1 DEF First
    <2>2. h[Len(c)].calls < lim
      BY <1>1
    <2>3. x.k \notin {"host", "pcall", "call", "throw"}
      OBVIOUS
    <2>4. Struct(c, h, lim)
      BY DEF Good
    <2>5. x.k = "resume" => ~In(c, x.th)
      OBVIOUS
    <2>6. x.k = "pcall" => /\ x.ncc = h[Len(c)].calls /\ x.ci = h[Len(c)].frames
                           /\ x.errfunc \in {0, h[Len(c)].handler}
      BY <2>3
    <2>7. x.k \notin {"call", "throw"} => First.calls < lim
      BY <2>1
    <2>8. First = After(h[Len(c)], x) /\ x.k # "host" /\ Above(c[Len(c)], x) /\ lim \in Nat \ {0}
      BY <1>1, <1>2
    <2>9. x.k = "throw" \/ h[Len(c)].calls < lim
      BY <2>2
    <2> QED
      BY <2>1, <2>4, <2>5, <2>6, <2>7, <2>8, <2>9, StructPush, Zenon
  <1>4. /\ Append(c, x) \in Seq(Act) /\ Len(Append(c, x)) = Len(c) + 1
        /\ Append(c, x)[Len(c) + 1] = x
        /\ \A j \in 1 .. Len(c) : Append(c, x)[j] = c[j]
    BY <1>1, Longer
  <1>5. Append(h, First)[Len(c) + 1] = First
    BY <1>1, <1>2, Longer
  <1>6. LiveOK(L, Append(c, x), Append(h, First), t)
    <2> SUFFICES ASSUME NEW j \in 1 .. Len(c) + 1, Append(c, x)[j].th = t
                 PROVE  /\ L.status = "ok"
                        /\ Agrees(L, Append(c, x)[j], Append(h, First)[j], Ends(Append(c, x), j))
      BY <1>4 DEF LiveOK
    <2>1. j = Len(c) + 1
      <3> SUFFICES ASSUME j # Len(c) + 1
                   PROVE  FALSE
        OBVIOUS
      <3>1. j \in 1 .. Len(c)
        BY <1>1
      <3> QED
        BY <1>4, <3>1 DEF In
    <2>2. Append(c, x)[j] = x /\ Append(h, First)[j] = First
      BY <1>4, <1>5, <2>1
    <2>3. Agrees(L, x, First, Ends(Append(c, x), j))
      BY DEF Agrees, First
    <2> QED
      BY <2>2, <2>3
  <1> QED
    BY <1>2, <1>3, <1>6, Pushed

\* A thread that does not exist yet is not under way.
LEMMA NewThread ==
    ASSUME NEW S, NEW c, NEW h, NEW lim, Good(S, c, h, lim), NEW t \in Thread,
           S[t].status = "none", NEW L, ThreadOK(L, lim), IdleOK(L)
    PROVE  Good([S EXCEPT ![t] = L], c, h, lim)
  <1> DEFINE S1 == [S EXCEPT ![t] = L]
  <1>0. S = [u \in Thread |-> S[u]]
    BY DEF Good
  <1>1. S1 = [u \in Thread |-> S1[u]] /\ S1[t] = L /\ \A u \in Thread \ {t} : S1[u] = S[u]
    BY <1>0
  <1> HIDE DEF S1
  <1>2. \A j \in 1 .. Len(c) : c[j].th # t
    BY DEF Good, LiveOK
  <1>3. LiveOK(L, c, h, t)
    BY <1>2 DEF LiveOK
  <1>4. ASSUME NEW u \in Thread
        PROVE  ThreadOK(S1[u], lim) /\ LiveOK(S1[u], c, h, u) /\ (In(c, u) \/ IdleOK(S1[u]))
    <2>1. CASE u = t
      BY <1>1, <1>3, <2>1
    <2>2. CASE u # t
      BY <1>1, <2>2 DEF Good
    <2> QED
      BY <2>1, <2>2
  <1> QED
    BY <1>1, <1>4 DEF Good, S1

\* The thread of the top goes back to an entry of its own.
LEMMA CutTo ==
    ASSUME NEW S, NEW c, NEW h, NEW lim, Good(S, c, h, lim), NEW m \in 1 .. Len(c),
           NEW t, t = c[Len(c)].th, t = c[m].th, NEW L, ThreadOK(L, lim), L.status = "ok",
           L.ncc = h[m].calls, Len(L.ci) = h[m].frames, L.errfunc \in {0, h[m].handler},
           KeepsFrames(S[t], L, Len(L.ci))
    PROVE  Good([S EXCEPT ![t] = L], SubSeq(c, 1, m), SubSeq(h, 1, m), lim)
  <1> DEFINE c1 == SubSeq(c, 1, m)
             h1 == SubSeq(h, 1, m)
  <1>1. /\ c \in Seq(Act) /\ h \in Seq(Mark) /\ Len(h) = Len(c) /\ Len(c) \in Nat
        /\ m \in Nat \ {0} /\ m <= Len(c) /\ t \in Thread
    BY Shape1
  <1>2. c1 \in Seq(Act) /\ Len(c1) = m /\ \A j \in 1 .. m : c1[j] = c[j]
    BY <1>1, Shorter
  <1>3. h1 \in Seq(Mark) /\ Len(h1) = m /\ \A j \in 1 .. m : h1[j] = h[j]
    BY <1>1, Shorter
  <1>4. \A j \in m .. Len(c) : c[j].th = t
    <2>1. c[m].th = c[Len(c)].th /\ c[m].th = t
      OBVIOUS
    <2>2. \A j \in m .. Len(c) : c[j].th = c[m].th /\ h[m].frames <= h[j].frames
      BY <2>1, Contiguous
    <2> QED
      BY <2>1, <2>2
  <1>5. \A j \in m + 1 .. Len(c) : c[j].th = t
    BY <1>1, <1>4
  <1> HIDE DEF c1, h1
  <1>6. ASSUME NEW j \in 1 .. m, c1[j].th = t
        PROVE  Agrees(L, c1[j], h1[j], Ends(c1, j))
    <2>1. j \in 1 .. Len(c) /\ c1[j] = c[j] /\ h1[j] = h[j] /\ c[j].th = t
      BY <1>1, <1>2, <1>3, <1>6
    <2>2. Agrees(S[t], c[j], h[j], Ends(c, j))
      BY <1>1, <2>1 DEF Good, LiveOK
    <2>3. h[j].frames <= h[m].frames /\ h[j].frames \in Nat
      BY <2>1, Shape1 DEF Good, Struct, Apart
    <2>4. \A i \in 1 .. h[m].frames : Kin(S[t].ci[i], L.ci[i])
      BY DEF KeepsFrames
    <2>5. h[m].frames \in Nat
      BY Shape1
    <2>6. /\ c[j].k = "c" => h[j].frames \in 1 .. h[m].frames
          /\ c[j].k = "exec" =>
                \A i \in h[j].frames - c[j].n + 1 .. h[j].frames : i \in 1 .. h[m].frames
      <3>1. CASE c[j].k \in {"c", "exec"}
        <4>1. j \in 2 .. Len(c)
          BY <2>1, <3>1 DEF Good, Struct, Shaped
        <4>2. h[j] = After(h[j - 1], c[j]) /\ j - 1 \in 1 .. Len(c)
          BY <4>1 DEF Good, Struct, Shaped
        <4>3. h[j].frames = h[j - 1].frames + Weight(c[j]) /\ h[j - 1].frames \in Nat
          BY <3>1, <4>2, Shape1 DEF After, Starts, Weight
        <4>4. /\ c[j].k = "c" => Weight(c[j]) = 1
              /\ c[j].k = "exec" => Weight(c[j]) = c[j].n /\ c[j].n \in Nat
          BY <2>1, Shape1, ActFacts DEF Weight
        <4> DEFINE f == h[j].frames
                   g == h[j - 1].frames
                   w == Weight(c[j])
                   a == h[m].frames
        <4>5. f \in Nat /\ a \in Nat /\ f <= a /\ f = g + w /\ g \in Nat
          BY <2>3, <2>5, <4>3
        <4>6. /\ c[j].k = "c" => w = 1
              /\ c[j].k = "exec" => w = c[j].n /\ w \in Nat
          BY <4>4
        <4> HIDE DEF f, g, w, a
        <4>7. /\ w = 1 => f \in 1 .. a
              /\ w \in Nat => \A i \in f - w + 1 .. f : i \in 1 .. a
          BY <4>5
        <4>8. /\ c[j].k = "c" => f \in 1 .. a
              /\ c[j].k = "exec" => \A i \in f - c[j].n + 1 .. f : i \in 1 .. a
          BY <4>6, <4>7
        <4> QED
          BY <4>8 DEF f, a
      <3>2. CASE c[j].k \notin {"c", "exec"}
        BY <3>2
      <3> QED
        BY <3>1, <3>2
    <2>7. c[j].k = "c" => L.ci[h[j].frames] \in CFrame
      BY <2>2, <2>4, <2>6 DEF Agrees, Kin
    <2>8. c[j].k = "exec" =>
             \A i \in h[j].frames - c[j].n + 1 .. h[j].frames : L.ci[i] \in LuaFrame
      BY <2>2, <2>4, <2>6 DEF Agrees, Kin
    <2>9. Ends(c1, j) => j = m
      <3> SUFFICES ASSUME j # m, c1[j + 1].k = "resume"
                   PROVE  FALSE
        BY <1>2 DEF Ends
      <3>1. j + 1 \in 1 .. m /\ j + 1 \in j + 1 .. Len(c) /\ c[j + 1].k = "resume"
        BY <1>1, <1>2
      <3> QED
        BY <2>1, <3>1, Contiguous
    <2> QED
      BY <2>1, <2>3, <2>7, <2>8, <2>9 DEF Agrees
  <1>7. LiveOK(L, c1, h1, t)
    BY <1>2, <1>6 DEF LiveOK
  <1>8. In(c1, t)
    BY <1>1, <1>2 DEF In
  <1> QED
    BY <1>1, <1>5, <1>7, <1>8, CutBack DEF c1, h1

\* A step down: it takes away the top entry and what belongs to it.
Takes(L0, x, L) ==
    /\ L.status = "ok" /\ L.ncc = L0.ncc - (IF x.k = "call" THEN 1 ELSE 0)
    /\ Len(L.ci) = Len(L0.ci) - Weight(x) /\ KeepsFrames(L0, L, Len(L.ci))
    /\ L.errfunc = IF x.k = "pcall" THEN x.errfunc ELSE L0.errfunc

\* The top is taken away, and the thread changes as it says (luaD_poscall, the end of
\* luaD_call, of luaD_callhook and of lua_pcall).
LEMMA Pop ==
    ASSUME NEW S, NEW c, NEW h, NEW lim, Good(S, c, h, lim), c # <<>>,
           NEW x, x = c[Len(c)], x.k \notin {"host", "resume"}, NEW t, t = x.th,
           NEW L, ThreadOK(L, lim), Takes(S[t], x, L)
    PROVE  /\ Good([S EXCEPT ![t] = L], SubSeq(c, 1, Len(c) - 1), SubSeq(h, 1, Len(c) - 1), lim)
           /\ SubSeq(c, 1, Len(c) - 1) # <<>>
           /\ SubSeq(c, 1, Len(c) - 1)[Len(SubSeq(c, 1, Len(c) - 1))] = c[Len(c) - 1]
           /\ Len(SubSeq(c, 1, Len(c) - 1)) = Len(c) - 1
  <1> DEFINE n == Len(c)
             m == n - 1
  <1>1. /\ n \in Nat \ {0} /\ x \in Act /\ S[t].ncc = h[n].calls
        /\ Len(S[t].ci) = h[n].frames /\ S[t].errfunc \in {0, h[n].handler}
    BY AtTop
  <1>2. m \in 1 .. n /\ Above(c[m], x) /\ h[n] = After(h[m], x)
    BY BelowTop
  <1>3. c[m].th = t /\ h[m].frames \in Nat /\ h[m].calls \in Nat
    BY <1>2, Shape1 DEF Above
  <1>4. /\ h[n].frames = h[m].frames + Weight(x)
        /\ h[n].calls = h[m].calls + (IF x.k = "call" THEN 1 ELSE 0)
        /\ x.k # "pcall" => h[n].handler = h[m].handler
    BY <1>2 DEF After, Starts, Weight
  <1>5. L.ncc = h[m].calls /\ Len(L.ci) = h[m].frames
    BY <1>1, <1>3, <1>4, WeightIs DEF Takes
  <1>6. L.errfunc \in {0, h[m].handler}
    <2>1. CASE x.k = "pcall"
      <3>1. n \in 1 .. n
        BY <1>1
      <3>2. x.errfunc \in {0, h[m].handler}
        BY <2>1, <3>1 DEF Good, Struct, Saved
      <3> QED
        BY <2>1, <3>2 DEF Takes
    <2>2. CASE x.k # "pcall"
      BY <1>1, <1>4, <2>2 DEF Takes
    <2> QED
      BY <2>1, <2>2
  <1>7. L.status = "ok" /\ KeepsFrames(S[t], L, Len(L.ci))
    BY DEF Takes
  <1>8. Good([S EXCEPT ![t] = L], SubSeq(c, 1, m), SubSeq(h, 1, m), lim)
    BY <1>2, <1>3, <1>5, <1>6, <1>7, CutTo
  <1>9. /\ Len(SubSeq(c, 1, m)) = m /\ SubSeq(c, 1, m) # <<>>
        /\ SubSeq(c, 1, m)[m] = c[m]
    <2>1. c \in Seq(Act) /\ m \in 0 .. Len(c) /\ m \in 1 .. m /\ m # 0
      BY <1>1, <1>2, Shape1
    <2>2. /\ SubSeq(c, 1, m) \in Seq(Act) /\ Len(SubSeq(c, 1, m)) = m
          /\ \A j \in 1 .. m : SubSeq(c, 1, m)[j] = c[j]
      BY <2>1, Shorter
    <2> QED
      BY <2>1, <2>2
  <1> QED
    BY <1>8, <1>9

\* An error is caught: the thread goes back to what was below the entry of lua_pcall.
LEMMA Catch ==
    ASSUME NEW S, NEW c, NEW h, NEW lim, Good(S, c, h, lim), NEW i \in 1 .. Len(c),
           NEW p, p = c[i], p.k = "pcall", NEW t, t = p.th, t = c[Len(c)].th,
           NEW L, ThreadOK(L, lim), L.status = "ok", L.ncc = p.ncc, Len(L.ci) = p.ci,
           L.errfunc = p.errfunc, KeepsFrames(S[t], L, Len(L.ci))
    PROVE  Good([S EXCEPT ![t] = L], SubSeq(c, 1, i - 1), SubSeq(h, 1, i - 1), lim)
  <1>1. Len(c) \in Nat /\ i \in Nat /\ i <= Len(c)
    BY Shape1
  <1>2. i \in 2 .. Len(c) /\ i - 1 \in 1 .. Len(c)
    <2>1. i # 1
      BY <1>1 DEF Good, Struct, Shaped
    <2> QED
      BY <1>1, <2>1
  <1>3. Above(c[i - 1], p) /\ h[i] = After(h[i - 1], p)
    BY <1>2 DEF Good, Struct, Shaped
  <1>4. c[i - 1].th = t
    BY <1>3 DEF Above
  <1>5. h[i].calls = h[i - 1].calls /\ h[i].frames = h[i - 1].frames
    <2>1. h[i - 1].calls \in Nat /\ h[i - 1].frames \in Nat
      BY <1>2, Shape1
    <2> QED
      BY <1>3, <2>1 DEF After, Starts
  <1>6. p.ncc = h[i].calls /\ p.ci = h[i].frames /\ p.errfunc \in {0, h[i - 1].handler}
    BY DEF Good, Struct, Saved
  <1> QED
    BY <1>2, <1>4, <1>5, <1>6, CutTo

\* A thread leaves the C stack, with all of its entries.
LEMMA Leave ==
    ASSUME NEW S, NEW c, NEW h, NEW lim, Good(S, c, h, lim), NEW i \in 1 .. Len(c),
           c[i].k = "resume", NEW t, t = c[i].th, t = c[Len(c)].th,
           NEW L, ThreadOK(L, lim), IdleOK(L)
    PROVE  /\ i - 1 \in 1 .. Len(c) /\ c[i].by = c[i - 1].th /\ c[i - 1].th # t
           /\ c[i].by \in Thread /\ t \in Thread /\ S[c[i].by].status = "ok"
           /\ c[i - 1].k \in {"c", "host", "hook"}
           /\ Good([S EXCEPT ![t] = L], SubSeq(c, 1, i - 1), SubSeq(h, 1, i - 1), lim)
  <1>1. Len(c) \in Nat /\ i \in Nat /\ i <= Len(c) /\ c[i].by \in Thread /\ t \in Thread
    BY Shape1, ActFacts
  <1>2. i \in 2 .. Len(c) /\ i - 1 \in 1 .. Len(c)
    <2>1. i # 1
      BY <1>1 DEF Good, Struct, Shaped
    <2> QED
      BY <1>1, <2>1
  <1>3. Above(c[i - 1], c[i])
    BY <1>2 DEF Good, Struct, Shaped
  <1>4. \A j \in 1 .. i - 1 : c[j].th # t
    <2> SUFFICES ASSUME NEW j \in 1 .. i - 1
                 PROVE  c[j].th # t
      OBVIOUS
    <2>1. j \in 1 .. i /\ j # i
      BY <1>1
    <2> QED
      BY <2>1 DEF Good, Struct, Apart, Starts
  <1>5. \A j \in i - 1 + 1 .. Len(c) : c[j].th = t
    <2>1. i - 1 + 1 = i
      BY <1>1
    <2>2. c[i].th = c[Len(c)].th
      OBVIOUS
    <2>3. \A j \in i .. Len(c) : c[j].th = t
      BY <2>2, Contiguous
    <2> QED
      BY <2>1, <2>3
  <1>6. /\ c[i - 1].th # t /\ c[i].by = c[i - 1].th /\ c[i - 1].k \in {"c", "host", "hook"}
        /\ i - 1 < Len(c) /\ c[i - 1 + 1].k = "resume"
    BY <1>1, <1>2, <1>3, <1>4 DEF Above
  <1>7. LiveOK(L, SubSeq(c, 1, i - 1), SubSeq(h, 1, i - 1), t)
    <2>1. /\ Len(SubSeq(c, 1, i - 1)) = i - 1
          /\ \A j \in 1 .. i - 1 : SubSeq(c, 1, i - 1)[j] = c[j]
      <3>1. c \in Seq(Act) /\ i - 1 \in 0 .. Len(c)
        BY <1>1, <1>2, Shape1
      <3> QED
        BY <3>1, Shorter
    <2> QED
      BY <1>4, <2>1 DEF LiveOK
  <1>8. S[c[i].by].status = "ok"
    BY <1>1, <1>2, <1>6 DEF Good, LiveOK
  <1>9. Good([S EXCEPT ![t] = L], SubSeq(c, 1, i - 1), SubSeq(h, 1, i - 1), lim)
    BY <1>1, <1>2, <1>5, <1>6, <1>7, CutBack
  <1> QED
    BY <1>1, <1>2, <1>6, <1>8, <1>9

------------------------------------------------------------------------------
(* What the operations on a thread do to what is counted *)

\* The fields of a thread, and its last frame.
LEMMA Fields ==
    ASSUME NEW L, NEW lim, ThreadOK(L, lim)
    PROVE  /\ L.top \in Int /\ L.base \in Int /\ L.last \in Int /\ L.errfunc \in Int
           /\ L.hookok \in BOOLEAN
           /\ L.ci \in Seq(CI) /\ L.sizeci \in Nat /\ L.ncc \in Nat /\ Len(L.ci) \in Nat
           /\ Len(L.ci) <= L.sizeci /\ L.sizeci <= 2 * LUAI_MAXCALLS /\ L.ncc <= lim
           /\ \A i \in 1 .. Len(L.ci) :
                 /\ L.ci[i] \in CI
                 /\ L.ci[i].func \in Int /\ L.ci[i].base \in Int /\ L.ci[i].top \in Int
                 /\ L.ci[i].nres \in Int
           /\ L.status # "none" => Len(L.ci) \in 1 .. Len(L.ci)
  <1>1. L.ci \in Seq(CI)
    BY DEF ThreadOK
  <1>2. ASSUME NEW i \in 1 .. Len(L.ci)
        PROVE  /\ L.ci[i] \in CI
               /\ L.ci[i].func \in Int /\ L.ci[i].base \in Int /\ L.ci[i].top \in Int
               /\ L.ci[i].nres \in Int
    <2>1. L.ci[i] \in CI
      BY <1>1
    <2> QED
      BY <2>1 DEF CI
  <1>3. L.status # "none" => Len(L.ci) \in 1 .. Len(L.ci)
    <2> DEFINE n == Len(L.ci)
    <2>1. n \in Nat /\ (L.status # "none" => n # 0)
      BY <1>1 DEF ThreadOK
    <2> HIDE DEF n
    <2>2. L.status # "none" => n \in 1 .. n
      BY <2>1
    <2> QED
      BY <2>2 DEF n
  <1> QED
    BY <1>1, <1>2, <1>3 DEF ThreadOK

\* A thread with other positions.
Moved(L0, L) ==
    /\ L = [status |-> L0.status, top |-> L.top, base |-> L.base, last |-> L.last,
            ci |-> L0.ci, sizeci |-> L0.sizeci, ncc |-> L0.ncc, hookok |-> L.hookok,
            errfunc |-> L0.errfunc, open |-> L.open]
    /\ L.top \in Int /\ L.base \in Int /\ L.last \in Int /\ L.hookok \in BOOLEAN

\* Where the pointers of a stack point does not matter to what is counted.
LEMMA MovedKeeps ==
    ASSUME NEW L0, NEW L, NEW lim, ThreadOK(L0, lim), Moved(L0, L)
    PROVE  ThreadOK(L, lim) /\ Keeps(L0, L)
  <1>1. /\ L.status = L0.status /\ L.ci = L0.ci /\ L.sizeci = L0.sizeci /\ L.ncc = L0.ncc
        /\ L.errfunc = L0.errfunc
    BY DEF Moved
  <1> QED
    BY <1>1 DEF Moved, ThreadOK, Keeps, KeepsFrames, Kin

\* luaD_checkstack moves the stack only, and leaves its top.
LEMMA CheckStackMoves ==
    ASSUME NEW L, NEW lim, ThreadOK(L, lim), NEW n \in Int
    PROVE  Moved(L, checkstack(L, n)) /\ checkstack(L, n).top = L.top
  <1>1. EXTRA_STACK \in Nat /\ L.last \in Int /\ L.top \in Int
    BY Consts, Fields
  <1>2. 2 * stacksize(L) \in Int /\ stacksize(L) + n \in Int
    BY <1>1 DEF stacksize
  <1> QED
    BY <1>1, <1>2 DEF checkstack, Moved, ThreadOK

\* incr_top moves the stack and its top only.
LEMMA IncrTopMoves ==
    ASSUME NEW L, NEW lim, ThreadOK(L, lim)
    PROVE  Moved(L, incr_top(L))
  <1> DEFINE C == checkstack(L, 1)
             v == C.top + 1
  <1>1. Moved(L, C)
    BY CheckStackMoves
  <1>2. C.top \in Int /\ v \in Int
    BY <1>1 DEF Moved
  <1>3. incr_top(L) = [C EXCEPT !.top = v]
    BY DEF incr_top
  <1> HIDE DEF C, v
  <1> QED
    BY <1>1, <1>2, <1>3 DEF Moved

\* The top of the last frame may be set: what kind of function it is of stays.
LEMMA FrameTop ==
    ASSUME NEW L, NEW lim, ThreadOK(L, lim), L.status # "none", NEW v \in Int
    PROVE  LET L1 == [L EXCEPT !.ci[Len(L.ci)].top = v]
           IN  ThreadOK(L1, lim) /\ Keeps(L, L1) /\ Len(L1.ci) = Len(L.ci)
               /\ L1.top = L.top /\ L1.base = L.base
  <1> DEFINE n == Len(L.ci)
             g == [L.ci[n] EXCEPT !.top = v]
             s == [L.ci EXCEPT ![n] = g]
             L1 == [L EXCEPT !.ci = s]
  <1>1. n \in 1 .. n /\ L.ci \in Seq(CI) /\ L.ci[n] \in CI
    BY Fields
  <1>2. g \in CI /\ g.fn = L.ci[n].fn
    BY <1>1 DEF CI
  <1>3. Kin(L.ci[n], g)
    BY <1>1, <1>2 DEF Kin, CFrame, LuaFrame
  <1> HIDE DEF g
  <1>4. s \in Seq(CI) /\ Len(s) = n
    BY <1>1, <1>2
  <1>5. \A i \in 1 .. n : Kin(L.ci[i], s[i])
    BY <1>1, <1>3 DEF Kin
  <1>6. [L EXCEPT !.ci[Len(L.ci)].top = v] = L1
    BY DEF g
  <1> HIDE DEF s, n
  <1>7. /\ L1.ci = s /\ L1.status = L.status /\ L1.top = L.top /\ L1.base = L.base
        /\ L1.last = L.last /\ L1.sizeci = L.sizeci /\ L1.ncc = L.ncc
        /\ L1.errfunc = L.errfunc /\ L1.hookok = L.hookok
        /\ L1 = [status |-> L1.status, top |-> L1.top, base |-> L1.base, last |-> L1.last,
                 ci |-> L1.ci, sizeci |-> L1.sizeci, ncc |-> L1.ncc, hookok |-> L1.hookok,
                 errfunc |-> L1.errfunc, open |-> L1.open]
    BY DEF ThreadOK
  <1> HIDE DEF L1
  <1>8. n = Len(L.ci) /\ n >= 1 /\ s # <<>>
    BY <1>1, <1>4 DEF n
  <1>9. ThreadOK(L1, lim)
    BY <1>4, <1>7, <1>8 DEF ThreadOK
  <1>10. Keeps(L, L1)
    BY <1>4, <1>5, <1>7, <1>8 DEF Keeps, KeepsFrames
  <1> QED
    BY <1>4, <1>6, <1>7, <1>8, <1>9, <1>10

\* So does setting the top.
LEMMA Moves ==
    ASSUME NEW L, NEW lim, ThreadOK(L, lim), NEW v \in Int
    PROVE  ThreadOK([L EXCEPT !.top = v], lim) /\ Keeps(L, [L EXCEPT !.top = v])
  <1>1. Moved(L, [L EXCEPT !.top = v])
    BY DEF Moved, ThreadOK
  <1> QED
    BY <1>1, MovedKeeps

\* What two operations keep, they keep one after the other.
LEMMA KeepsAll ==
    ASSUME NEW L0, NEW L1, NEW L2, Keeps(L0, L1), Keeps(L1, L2)
    PROVE  Keeps(L0, L2)
  BY DEF Keeps, KeepsFrames, Kin

\* adjustresults raises the top of the last frame at most.
LEMMA AdjustKeeps ==
    ASSUME NEW L, NEW lim, ThreadOK(L, lim), L.status # "none", NEW nres
    PROVE  /\ ThreadOK(adjustresults(L, nres), lim) /\ Keeps(L, adjustresults(L, nres))
           /\ adjustresults(L, nres).top \in Int
  <1>1. L.top \in Int
    BY Fields
  <1>2. Keeps(L, L)
    BY DEF Keeps, KeepsFrames, Kin
  <1>3. adjustresults(L, nres) \in {L, [L EXCEPT !.ci[Len(L.ci)].top = L.top]}
    BY DEF adjustresults
  <1> DEFINE v == L.top
             M == [L EXCEPT !.ci[Len(L.ci)].top = v]
  <1> HIDE DEF v
  <1>4. ThreadOK(M, lim) /\ Keeps(L, M) /\ M.top = L.top
    BY <1>1, FrameTop DEF v
  <1>5. adjustresults(L, nres) \in {L, M}
    BY <1>3 DEF v
  <1> HIDE DEF M
  <1> QED
    BY <1>1, <1>2, <1>4, <1>5

\* lua_checkstack and lua_xmove raise the top and that of the last frame at most.
LEMMA ReceiveKeeps ==
    ASSUME NEW L, NEW lim, ThreadOK(L, lim), L.status # "none", NEW n \in Int
    PROVE  /\ ThreadOK(lua_checkstack(L, n), lim) /\ Keeps(L, lua_checkstack(L, n))
           /\ ThreadOK(Receive(L, n), lim) /\ Keeps(L, Receive(L, n))
  <1> DEFINE L1 == checkstack(L, n)
             i == Len(L.ci)
             v == IF L1.ci[i].top < L1.top + n THEN L1.top + n ELSE L1.ci[i].top
             L2 == [L1 EXCEPT !.ci[i].top = v]
  <1>1. ThreadOK(L1, lim) /\ Keeps(L, L1) /\ L1.ci = L.ci /\ L1.status = L.status
    <2>1. Moved(L, L1)
      BY CheckStackMoves
    <2> QED
      BY <2>1, MovedKeeps DEF Moved
  <1> HIDE DEF L1
  <1>2. v \in Int
    <2>1. i \in 1 .. Len(L1.ci) /\ L1.top \in Int
      BY <1>1, Fields
    <2>2. L1.ci[i].top \in Int
      BY <1>1, <2>1, Fields
    <2> QED
      BY <2>1, <2>2
  <1> HIDE DEF v
  <1>3. ThreadOK(L2, lim) /\ Keeps(L1, L2) /\ L2.status # "none"
    BY <1>1, <1>2, FrameTop DEF Keeps
  <1>4. lua_checkstack(L, n) = L2
    BY DEF lua_checkstack, L1, v
  <1> HIDE DEF L2
  <1>5. Keeps(L, L2)
    BY <1>1, <1>3, KeepsAll
  <1>6. Receive(L, n) = [L2 EXCEPT !.top = L2.top + n]
    BY <1>4 DEF Receive
  <1>7. L2.top + n \in Int
    BY <1>3, Fields
  <1>8. ThreadOK(Receive(L, n), lim) /\ Keeps(L2, Receive(L, n))
    BY <1>3, <1>6, <1>7, Moves
  <1> QED
    BY <1>3, <1>4, <1>5, <1>8, KeepsAll

\* growCI: an error leaves the frames alone, and without one there is room for one more.
LEMMA IncCI ==
    ASSUME NEW L, NEW lim, ThreadOK(L, lim), L.status # "none"
    PROVE  /\ ThreadOK(inc_ci(L).L, lim) /\ inc_ci(L).err \in {"no", "errrun", "errerr"}
           /\ inc_ci(L).L = [L EXCEPT !.sizeci = inc_ci(L).L.sizeci]
           /\ inc_ci(L).err = "no" => Len(L.ci) < inc_ci(L).L.sizeci
  <1>1. /\ LUAI_MAXCALLS \in Nat \ {0} /\ L.sizeci \in Nat /\ Len(L.ci) \in Nat \ {0}
        /\ Len(L.ci) <= L.sizeci /\ L.sizeci <= 2 * LUAI_MAXCALLS
    BY Consts, Fields DEF ThreadOK
  <1>2. [L EXCEPT !.sizeci = L.sizeci] = L
    BY DEF ThreadOK
  <1>3. CASE Len(L.ci) < L.sizeci
    <2>1. inc_ci(L) = [L |-> L, err |-> "no"]
      BY <1>3 DEF inc_ci
    <2> QED
      BY <1>2, <1>3, <2>1
  <1>4. CASE Len(L.ci) >= L.sizeci /\ L.sizeci > LUAI_MAXCALLS
    <2>1. inc_ci(L) = [L |-> L, err |-> "errerr"]
      BY <1>1, <1>4 DEF inc_ci
    <2> QED
      BY <1>2, <2>1
  <1>5. CASE Len(L.ci) >= L.sizeci /\ L.sizeci <= LUAI_MAXCALLS
    <2> DEFINE L1 == [L EXCEPT !.sizeci = 2 * L.sizeci]
    <2>1. inc_ci(L).L = L1 /\ inc_ci(L).err \in {"no", "errrun"}
      BY <1>1, <1>5 DEF inc_ci
    <2>2. /\ 2 * L.sizeci \in Nat /\ 2 * L.sizeci <= 2 * LUAI_MAXCALLS
          /\ Len(L.ci) < 2 * L.sizeci
      BY <1>1, <1>5
    <2>3. ThreadOK(L1, lim) /\ L1.sizeci = 2 * L.sizeci
      <3>1. /\ L1 = [status |-> L1.status, top |-> L1.top, base |-> L1.base,
                     last |-> L1.last, ci |-> L1.ci, sizeci |-> L1.sizeci, ncc |-> L1.ncc,
                     hookok |-> L1.hookok, errfunc |-> L1.errfunc, open |-> L1.open]
            /\ L1.status = L.status /\ L1.top = L.top /\ L1.base = L.base /\ L1.last = L.last
            /\ L1.ci = L.ci /\ L1.sizeci = 2 * L.sizeci /\ L1.ncc = L.ncc
            /\ L1.errfunc = L.errfunc /\ L1.hookok = L.hookok
        BY DEF ThreadOK
      <3>2. /\ L.status \in {"none", "ok", "yield"} \cup Dead /\ L.hookok \in BOOLEAN
            /\ L.top \in Int /\ L.base \in Int /\ L.errfunc \in Int /\ L.last \in Int
            /\ L.ci \in Seq(CI) /\ L.ncc \in Nat /\ L.ncc <= lim
            /\ L.status # "none" => L.ci # <<>>
        BY DEF ThreadOK
      <3> HIDE DEF L1
      <3>3. ThreadOK(L1, lim)
        BY <1>1, <2>2, <3>1, <3>2 DEF ThreadOK
      <3> QED
        BY <3>1, <3>3
    <2> QED
      BY <2>1, <2>2, <2>3
  <1> QED
    BY <1>1, <1>3, <1>4, <1>5

\* Another size of the list of frames.
LEMMA Sized ==
    ASSUME NEW L, NEW lim, ThreadOK(L, lim), NEW size \in Nat, Len(L.ci) <= size,
           size <= 2 * LUAI_MAXCALLS, NEW last \in Int,
           NEW L1, L1 = [L EXCEPT !.sizeci = size, !.last = last]
    PROVE  ThreadOK(L1, lim) /\ Keeps(L, L1) /\ L1.ci = L.ci
  <1>1. /\ L1 = [status |-> L1.status, top |-> L1.top, base |-> L1.base, last |-> L1.last,
                 ci |-> L1.ci, sizeci |-> L1.sizeci, ncc |-> L1.ncc, hookok |-> L1.hookok,
                 errfunc |-> L1.errfunc, open |-> L1.open]
        /\ L1.status = L.status /\ L1.top = L.top /\ L1.base = L.base /\ L1.last = last
        /\ L1.ci = L.ci /\ L1.sizeci = size /\ L1.ncc = L.ncc
        /\ L1.errfunc = L.errfunc /\ L1.hookok = L.hookok
    BY DEF ThreadOK
  <1>2. /\ L.status \in {"none", "ok", "yield"} \cup Dead /\ L.hookok \in BOOLEAN
        /\ L.top \in Int /\ L.base \in Int /\ L.errfunc \in Int
        /\ L.ci \in Seq(CI) /\ L.ncc \in Nat /\ L.ncc <= lim
        /\ L.status # "none" => L.ci # <<>>
    BY DEF ThreadOK
  <1>3. ThreadOK(L1, lim)
    BY <1>1, <1>2 DEF ThreadOK
  <1> QED
    BY <1>1, <1>3 DEF Keeps, KeepsFrames, Kin

\* checkstacksizes shrinks what is not used, and keeps every frame.
LEMMA CheckSizesKeeps ==
    ASSUME NEW L, NEW lim, ThreadOK(L, lim)
    PROVE  ThreadOK(checkstacksizes(L), lim) /\ Keeps(L, checkstacksizes(L))
  <1> DEFINE big == /\ \A p \in Tops(L) : 4 * p < stacksize(L)
                    /\ 2 * (BASIC_STACK_SIZE + EXTRA_STACK) < stacksize(L)
             size == IF 4 * (Len(L.ci) - 1) < L.sizeci /\ 2 * BASIC_CI_SIZE < L.sizeci
                     THEN L.sizeci \div 2 ELSE L.sizeci
             last == IF big THEN stacksize(L) \div 2 ELSE L.last
             L1 == [L EXCEPT !.sizeci = size, !.last = last]
  <1>1. /\ BASIC_CI_SIZE \in Nat \ {0} /\ LUAI_MAXCALLS \in Nat /\ EXTRA_STACK \in Nat
        /\ L.sizeci \in Nat /\ Len(L.ci) \in Nat /\ Len(L.ci) <= L.sizeci
        /\ L.sizeci <= 2 * LUAI_MAXCALLS /\ L.last \in Int
    BY Consts, Fields
  <1>2. checkstacksizes(L) = IF L.sizeci > LUAI_MAXCALLS THEN L ELSE L1
    BY DEF checkstacksizes
  <1>3. size \in Nat /\ Len(L.ci) <= size /\ size <= 2 * LUAI_MAXCALLS
    <2> DEFINE n == Len(L.ci)
    <2>1. n \in Nat /\ n <= L.sizeci
      BY <1>1
    <2> HIDE DEF n
    <2>2. CASE 4 * (n - 1) < L.sizeci /\ 2 * BASIC_CI_SIZE < L.sizeci
      <3>1. L.sizeci \div 2 \in Nat /\ n <= L.sizeci \div 2 /\ L.sizeci \div 2 <= L.sizeci
        BY <1>1, <2>1, <2>2, Z3
      <3> QED
        BY <1>1, <2>2, <3>1 DEF n
    <2>3. CASE ~(4 * (n - 1) < L.sizeci /\ 2 * BASIC_CI_SIZE < L.sizeci)
      BY <1>1, <2>3 DEF n
    <2> QED
      BY <2>2, <2>3
  <1> HIDE DEF size
  <1>4. last \in Int
    <2>1. stacksize(L) \div 2 \in Int
      BY <1>1 DEF stacksize
    <2> QED
      BY <1>1, <2>1
  <1> HIDE DEF last
  <1>5. ThreadOK(L1, lim) /\ Keeps(L, L1)
    BY <1>3, <1>4, Sized
  <1> HIDE DEF L1
  <1>6. Keeps(L, L)
    BY DEF Keeps, KeepsFrames, Kin
  <1> QED
    BY <1>2, <1>5, <1>6

\* What the collector leaves as it is when it visits a stack.
Sits(L, K) ==
    /\ K.status = L.status /\ K.top = L.top /\ K.base = L.base /\ K.ci = L.ci
    /\ K.ncc = L.ncc /\ K.errfunc = L.errfunc /\ K.open = L.open

\* A visit of the collector, with slots above the top in use.
LEMMA VisitSits ==
    ASSUME NEW L, NEW lim, ThreadOK(L, lim), NEW n \in Int
    PROVE  ThreadOK(Visit(L, n), lim) /\ Sits(L, Visit(L, n))
  <1> DEFINE w == L.top + n
             v == L.top
             M == [L EXCEPT !.top = w]
             K == checkstacksizes(M)
             R == [K EXCEPT !.top = v]
  <1>1. w \in Int /\ v \in Int
    BY Fields
  <1>2. Visit(L, n) = R
    BY DEF Visit
  <1> HIDE DEF w, v
  <1>3. ThreadOK(M, lim)
    BY <1>1, Moves
  <1>4. /\ M.status = L.status /\ M.base = L.base /\ M.ci = L.ci /\ M.ncc = L.ncc
        /\ M.errfunc = L.errfunc /\ M.open = L.open
    BY DEF ThreadOK
  <1> HIDE DEF M
  <1>5. ThreadOK(K, lim)
    BY <1>3, CheckSizesKeeps
  <1>6. /\ K.status = M.status /\ K.base = M.base /\ K.ci = M.ci /\ K.ncc = M.ncc
        /\ K.errfunc = M.errfunc /\ K.open = M.open
    BY <1>3 DEF checkstacksizes, ThreadOK
  <1> HIDE DEF K
  <1>7. ThreadOK(R, lim)
    BY <1>1, <1>5, Moves
  <1>8. /\ R.status = K.status /\ R.top = v /\ R.base = K.base /\ R.ci = K.ci
        /\ R.ncc = K.ncc /\ R.errfunc = K.errfunc /\ R.open = K.open
    BY <1>5 DEF ThreadOK
  <1> HIDE DEF R
  <1> QED
    BY <1>2, <1>4, <1>6, <1>7, <1>8 DEF Sits, v

\* luaC_checkGC visits a stack twice at most.
LEMMA CheckGCSits ==
    ASSUME NEW L, NEW lim, ThreadOK(L, lim), NEW n \in Int, NEW visits
    PROVE  ThreadOK(luaC_checkGC(L, n, visits), lim) /\ Sits(L, luaC_checkGC(L, n, visits))
  <1> DEFINE K == Visit(L, n)
             R == Visit(K, n)
  <1>1. ThreadOK(K, lim) /\ Sits(L, K)
    BY VisitSits
  <1>2. luaC_checkGC(L, n, visits) \in {L, K, R}
    BY DEF luaC_checkGC
  <1> HIDE DEF K
  <1>3. ThreadOK(R, lim) /\ Sits(K, R)
    BY <1>1, VisitSits
  <1> HIDE DEF R
  <1>4. Sits(L, L) /\ Sits(L, R)
    BY <1>1, <1>3 DEF Sits
  <1> QED
    BY <1>1, <1>2, <1>3, <1>4

\* luaD_precall: the frame of the function is on top, or there is an error and none is.
Entering(L, r, f, lim) ==
    /\ ThreadOK(r.L, lim) /\ r.err \in {"no", "errrun", "errerr"}
    /\ r.L.status = L.status /\ r.L.ncc = L.ncc /\ r.L.errfunc = L.errfunc
    /\ r.err # "no" => r.L.ci = L.ci
    /\ r.err = "no" => \E g \in CI : g.fn = f /\ r.L.ci = Append(L.ci, g)

\* luaD_precall adds the frame of the function it is given, whatever it is.
LEMMA Precall ==
    ASSUME NEW L, NEW lim, ThreadOK(L, lim), L.status # "none", NEW func \in Int,
           NEW nres \in Int, NEW f \in Fn, NEW r, r = luaD_precall(L, func, nres, f)
    PROVE  Entering(L, r, f, lim)
  <1> DEFINE s == Shape[f]
             L1 == IF s.tm THEN incr_top(L) ELSE L
             L2 == checkstack(L1, IF s.isC THEN LUA_MINSTACK ELSE s.size)
             nargs == L2.top - func - 1
             missing == IF nargs < s.params THEN s.params - nargs ELSE 0
             base == IF s.vararg /\ ~s.isC THEN L2.top + missing ELSE func + 1
             L3 == luaC_checkGC(L2, missing, s.visits)
             grown == inc_ci(L3)
             ctop == IF s.isC THEN L2.top + LUA_MINSTACK ELSE base + s.size
             frame == [func |-> func, base |-> base, top |-> ctop, nres |-> nres, fn |-> f]
             top == IF s.isC THEN grown.L.top ELSE ctop
             L4 == [grown.L EXCEPT !.ci = Append(grown.L.ci, frame), !.base = base, !.top = top]
  <1>1. LUA_MINSTACK \in Int /\ s.size \in Int /\ s.params \in Int
    BY Consts
  <1>2. Moved(L, L1) /\ ThreadOK(L1, lim)
    <2>1. Moved(L, L)
      BY DEF Moved, ThreadOK
    <2>2. Moved(L, L1)
      BY <2>1, IncrTopMoves
    <2> QED
      BY <2>2, MovedKeeps
  <1> HIDE DEF L1
  <1>3. Moved(L1, L2) /\ ThreadOK(L2, lim)
    <2> DEFINE n == IF s.isC THEN LUA_MINSTACK ELSE s.size
    <2>1. n \in Int
      BY <1>1
    <2> HIDE DEF n
    <2>2. Moved(L1, checkstack(L1, n))
      BY <1>2, <2>1, CheckStackMoves
    <2>3. L2 = checkstack(L1, n)
      BY DEF n
    <2> QED
      BY <1>2, <2>2, <2>3, MovedKeeps
  <1>4. /\ L2.status = L.status /\ L2.ncc = L.ncc /\ L2.errfunc = L.errfunc /\ L2.ci = L.ci
        /\ L2.top \in Int
    BY <1>2, <1>3 DEF Moved
  <1> HIDE DEF L2
  <1>5. missing \in Int
    BY <1>1, <1>4
  <1>6. ThreadOK(L3, lim) /\ Sits(L2, L3)
    <2> DEFINE n == missing
    <2>1. n \in Int
      BY <1>5
    <2>2. L3 = luaC_checkGC(L2, n, s.visits)
      OBVIOUS
    <2> HIDE DEF n, L3
    <2> QED
      BY <1>3, <2>1, <2>2, CheckGCSits
  <1> HIDE DEF L3
  <1>7. /\ L3.status = L.status /\ L3.ncc = L.ncc /\ L3.errfunc = L.errfunc
         /\ L3.ci = L.ci /\ L3.top = L2.top
    BY <1>4, <1>6 DEF Sits
  <1>8. /\ ThreadOK(grown.L, lim) /\ grown.err \in {"no", "errrun", "errerr"}
        /\ grown.L = [L3 EXCEPT !.sizeci = grown.L.sizeci]
        /\ grown.err = "no" => Len(L3.ci) < grown.L.sizeci
    BY <1>6, <1>7, IncCI
  <1>9. /\ grown.L.status = L.status /\ grown.L.ncc = L.ncc /\ grown.L.errfunc = L.errfunc
        /\ grown.L.ci = L.ci /\ grown.L.top = L2.top
    BY <1>6, <1>7, <1>8 DEF ThreadOK
  <1> HIDE DEF grown
  <1>10. base \in Int /\ ctop \in Int /\ top \in Int
    <2> HIDE DEF missing
    <2>2. base \in Int
      BY <1>1, <1>4, <1>5
    <2> HIDE DEF base
    <2>3. ctop \in Int
      BY <1>1, <1>4, <2>2
    <2> QED
      BY <1>4, <1>9, <2>2, <2>3
  <1> HIDE DEF nargs, missing, base, ctop, top
  <1>11. frame \in CI /\ frame.fn = f
    BY <1>10 DEF CI
  <1>12. r = IF grown.err # "no" THEN grown ELSE [L |-> L4, err |-> "no"]
    BY DEF luaD_precall, grown, L1, L2, L3, nargs, missing, base, ctop, top
  <1> HIDE DEF frame
  <1>13. CASE grown.err # "no"
    BY <1>8, <1>9, <1>12, <1>13 DEF Entering
  <1>14. CASE grown.err = "no"
    <2> DEFINE q == Append(grown.L.ci, frame)
    <2>1. q \in Seq(CI) /\ Len(q) = Len(L.ci) + 1 /\ q # <<>> /\ q = Append(L.ci, frame)
      <3>1. L.ci \in Seq(CI)
        BY Fields
      <3> QED
        BY <1>9, <1>11, <3>1
    <2>2. Len(q) <= grown.L.sizeci
      BY <1>7, <1>8, <1>14, <2>1, Fields
    <2>3. r.L = L4 /\ r.err = "no"
      BY <1>12, <1>14
    <2> HIDE DEF q
    <2>4. /\ L4 = [status |-> L4.status, top |-> L4.top, base |-> L4.base, last |-> L4.last,
                   ci |-> L4.ci, sizeci |-> L4.sizeci, ncc |-> L4.ncc, hookok |-> L4.hookok,
                   errfunc |-> L4.errfunc, open |-> L4.open]
          /\ L4.status = L.status /\ L4.top = top /\ L4.base = base
          /\ L4.last = grown.L.last /\ L4.ci = q /\ L4.sizeci = grown.L.sizeci
          /\ L4.ncc = L.ncc /\ L4.errfunc = L.errfunc /\ L4.hookok = grown.L.hookok
      <3>1. grown.L = [status |-> grown.L.status, top |-> grown.L.top,
                       base |-> grown.L.base, last |-> grown.L.last, ci |-> grown.L.ci,
                       sizeci |-> grown.L.sizeci, ncc |-> grown.L.ncc,
                       hookok |-> grown.L.hookok, errfunc |-> grown.L.errfunc,
                       open |-> grown.L.open]
        BY <1>8 DEF ThreadOK
      <3>2. L4 = [grown.L EXCEPT !.ci = q, !.base = base, !.top = top]
        BY DEF q
      <3> HIDE DEF L4
      <3> QED
        BY <1>9, <3>1, <3>2
    <2> HIDE DEF L4
    <2>5. ThreadOK(L4, lim)
      <3>1. L.status \in {"ok", "yield"} \cup Dead
        BY DEF ThreadOK
      <3>2. /\ grown.L.last \in Int /\ L.errfunc \in Int /\ L.ncc \in Nat /\ L.ncc <= lim
            /\ grown.L.sizeci \in Nat /\ grown.L.sizeci <= 2 * LUAI_MAXCALLS
            /\ grown.L.hookok \in BOOLEAN
        BY <1>8, Fields
      <3> QED
        BY <1>10, <2>1, <2>2, <2>4, <3>1, <3>2 DEF ThreadOK
    <2> QED
      BY <1>11, <2>1, <2>3, <2>4, <2>5 DEF Entering
  <1> QED
    BY <1>8, <1>13, <1>14

\* luaD_poscall takes the last frame away.
LEMMA Poscall ==
    ASSUME NEW L, NEW lim, ThreadOK(L, lim), Len(L.ci) >= 2, NEW first \in Int,
           NEW P, P = luaD_poscall(L, first)
    PROVE  /\ ThreadOK(P, lim) /\ P.status = L.status /\ P.ncc = L.ncc
           /\ P.errfunc = L.errfunc /\ P.ci = SubSeq(L.ci, 1, Len(L.ci) - 1)
           /\ Len(P.ci) = Len(L.ci) - 1 /\ \A i \in 1 .. Len(P.ci) : P.ci[i] = L.ci[i]
  <1> DEFINE n == Len(L.ci)
             f == LastCI(L)
             ci == SubSeq(L.ci, 1, n - 1)
             k == IF f.nres = LUA_MULTRET THEN L.top - first ELSE f.nres
  <1>1. /\ L.ci \in Seq(CI) /\ n \in Nat /\ n >= 2 /\ n <= L.sizeci /\ L.sizeci \in Nat
        /\ L.top \in Int
    BY Fields
  <1>2. /\ ci \in Seq(CI) /\ Len(ci) = n - 1 /\ \A i \in 1 .. n - 1 : ci[i] = L.ci[i]
    <2>1. n - 1 \in 0 .. n
      BY <1>1
    <2> QED
      BY <1>1, <2>1, Shorter
  <1>3. f.func \in Int /\ k \in Int
    <2>1. n \in 1 .. Len(L.ci)
      BY <1>1
    <2>2. f.func \in Int /\ f.nres \in Int
      BY <2>1, Fields DEF LastCI
    <2> QED
      BY <1>1, <2>2
  <1>4. ci[Len(ci)].base \in Int
    <2>1. n - 1 \in 1 .. n - 1 /\ n - 1 \in 1 .. Len(L.ci)
      BY <1>1
    <2> QED
      BY <1>2, <2>1, Fields
  <1> DEFINE top == f.func + k
             base == ci[Len(ci)].base
  <1>5. P = [L EXCEPT !.ci = ci, !.base = base, !.top = top]
    BY DEF luaD_poscall
  <1>6. top \in Int
    BY <1>3
  <1> HIDE DEF n, ci, top, base, f, k
  <1>7. /\ P = [status |-> P.status, top |-> P.top, base |-> P.base, last |-> P.last,
                ci |-> P.ci, sizeci |-> P.sizeci, ncc |-> P.ncc, hookok |-> P.hookok,
                errfunc |-> P.errfunc, open |-> P.open]
        /\ P.status = L.status /\ P.top = top /\ P.base = base /\ P.last = L.last /\ P.ci = ci
        /\ P.sizeci = L.sizeci /\ P.ncc = L.ncc /\ P.errfunc = L.errfunc
        /\ P.hookok = L.hookok
    BY <1>5 DEF ThreadOK
  <1>8. ci # <<>> /\ Len(ci) <= L.sizeci
    BY <1>1, <1>2
  <1>9. ThreadOK(P, lim)
    BY <1>2, <1>4, <1>6, <1>7, <1>8 DEF ThreadOK, base
  <1> QED
    BY <1>2, <1>7, <1>9 DEF n, ci

\* luaF_close takes upvalues away, and no thread counts them.
LEMMA CloseMoves ==
    ASSUME NEW L, NEW lim, ThreadOK(L, lim), NEW level
    PROVE  Moved(L, luaF_close(L, level))
  <1> DEFINE open == {l \in L.open : l < level}
  <1>1. luaF_close(L, level) = [L EXCEPT !.open = open]
    BY DEF luaF_close
  <1> HIDE DEF open
  <1>2. Moved(L, [L EXCEPT !.open = open])
    BY DEF Moved, ThreadOK
  <1> QED
    BY <1>1, <1>2

\* Other frames.
Reframed(L, s, base, top, L1, lim) ==
    /\ ThreadOK(L1, lim) /\ L1.ci = s /\ L1.status = L.status /\ L1.ncc = L.ncc
    /\ L1.errfunc = L.errfunc /\ L1.top = top /\ L1.base = base
    /\ L1.last = L.last /\ L1.sizeci = L.sizeci

\* The frames of a thread replaced, with its top and its base.
LEMMA Framed ==
    ASSUME NEW L, NEW lim, ThreadOK(L, lim), NEW s \in Seq(CI), s # <<>>, Len(s) <= L.sizeci,
           NEW base \in Int, NEW top \in Int,
           NEW L1, L1 = [L EXCEPT !.ci = s, !.base = base, !.top = top]
    PROVE  Reframed(L, s, base, top, L1, lim)
  <1>1. /\ L1 = [status |-> L1.status, top |-> L1.top, base |-> L1.base, last |-> L1.last,
                 ci |-> L1.ci, sizeci |-> L1.sizeci, ncc |-> L1.ncc, hookok |-> L1.hookok,
                 errfunc |-> L1.errfunc, open |-> L1.open]
        /\ L1.status = L.status /\ L1.top = top /\ L1.base = base /\ L1.last = L.last
        /\ L1.ci = s /\ L1.sizeci = L.sizeci /\ L1.ncc = L.ncc
        /\ L1.errfunc = L.errfunc /\ L1.hookok = L.hookok
    BY DEF ThreadOK
  <1>2. /\ L.status \in {"none", "ok", "yield"} \cup Dead /\ L.hookok \in BOOLEAN
        /\ L.last \in Int /\ L.errfunc \in Int
        /\ L.sizeci \in Nat /\ L.sizeci <= 2 * LUAI_MAXCALLS /\ L.ncc \in Nat /\ L.ncc <= lim
    BY DEF ThreadOK
  <1>3. ThreadOK(L1, lim)
    BY <1>1, <1>2 DEF ThreadOK
  <1> QED
    BY <1>1, <1>3 DEF Reframed

\* restore_stack_limit leaves room for the frames there are.
LEMMA RestoreKeeps ==
    ASSUME NEW L, NEW lim, ThreadOK(L, lim)
    PROVE  /\ ThreadOK(restore_stack_limit(L), lim) /\ Keeps(L, restore_stack_limit(L))
           /\ restore_stack_limit(L).ci = L.ci
  <1>1. CASE L.sizeci > LUAI_MAXCALLS /\ Len(L.ci) < LUAI_MAXCALLS
    <2> DEFINE L1 == [L EXCEPT !.sizeci = LUAI_MAXCALLS]
    <2>1. restore_stack_limit(L) = L1
      BY <1>1 DEF restore_stack_limit
    <2>2. /\ LUAI_MAXCALLS \in Nat /\ LUAI_MAXCALLS <= 2 * LUAI_MAXCALLS
          /\ Len(L.ci) <= LUAI_MAXCALLS
      BY <1>1, Consts, Fields
    <2>5. L1.status = L.status /\ L1.ncc = L.ncc /\ L1.errfunc = L.errfunc /\ L1.ci = L.ci
      BY DEF ThreadOK
    <2>6. ThreadOK(L1, lim)
      <3>1. /\ L1 = [status |-> L1.status, top |-> L1.top, base |-> L1.base,
                     last |-> L1.last, ci |-> L1.ci, sizeci |-> L1.sizeci, ncc |-> L1.ncc,
                     hookok |-> L1.hookok, errfunc |-> L1.errfunc, open |-> L1.open]
            /\ L1.top = L.top /\ L1.base = L.base /\ L1.last = L.last
            /\ L1.sizeci = LUAI_MAXCALLS
        BY DEF ThreadOK
      <3>2. /\ L.status \in {"none", "ok", "yield"} \cup Dead /\ L.hookok \in BOOLEAN
            /\ L.top \in Int /\ L.base \in Int /\ L.errfunc \in Int /\ L.last \in Int
            /\ L.ci \in Seq(CI) /\ L.ncc \in Nat /\ L.ncc <= lim
            /\ L.status # "none" => L.ci # <<>>
        BY DEF ThreadOK
      <3> QED
        BY <2>2, <2>5, <3>1, <3>2 DEF ThreadOK
    <2>3. ThreadOK(L1, lim) /\ L1.status = L.status /\ L1.ncc = L.ncc
          /\ L1.errfunc = L.errfunc /\ L1.ci = L.ci
      BY <2>5, <2>6
    <2> HIDE DEF L1
    <2>4. Keeps(L, L1)
      BY <2>3 DEF Keeps, KeepsFrames, Kin
    <2> QED
      BY <2>1, <2>3, <2>4
  <1>2. CASE ~(L.sizeci > LUAI_MAXCALLS /\ Len(L.ci) < LUAI_MAXCALLS)
    BY <1>2 DEF restore_stack_limit, Keeps, KeepsFrames, Kin
  <1> QED
    BY <1>1, <1>2

------------------------------------------------------------------------------
(* Calls and returns *)

\* The last element of a sequence, replaced.
LEMMA LastReplaced ==
    ASSUME NEW A, NEW s \in Seq(A), s # <<>>, NEW y \in A
    PROVE  [s EXCEPT ![Len(s)] = y] = Append(SubSeq(s, 1, Len(s) - 1), y)
  <1> DEFINE n == Len(s)
             p == [s EXCEPT ![n] = y]
             b == SubSeq(s, 1, n - 1)
             q == Append(b, y)
  <1>1. n \in Nat \ {0} /\ n - 1 \in 0 .. n /\ s = [i \in 1 .. n |-> s[i]]
    OBVIOUS
  <1>2. b \in Seq(A) /\ Len(b) = n - 1 /\ \A i \in 1 .. n - 1 : b[i] = s[i]
    BY <1>1, Shorter
  <1> HIDE DEF b
  <1>3. /\ q \in Seq(A) /\ Len(q) = Len(b) + 1 /\ q[Len(b) + 1] = y
        /\ \A i \in 1 .. Len(b) : q[i] = b[i]
    BY <1>2, Longer
  <1> HIDE DEF n, q
  <1>4. Len(b) + 1 = n
    BY <1>1, <1>2
  <1>5. q = [i \in 1 .. n |-> q[i]]
    BY <1>3, <1>4
  <1>6. ASSUME NEW i \in 1 .. n
        PROVE  p[i] = q[i]
    <2>1. CASE i = n
      BY <1>1, <1>3, <1>4, <2>1
    <2>2. CASE i # n
      <3>1. i \in 1 .. n - 1
        BY <1>1, <2>2
      <3> QED
        BY <1>1, <1>2, <1>3, <2>2, <3>1
    <2> QED
      BY <2>1, <2>2
  <1>7. p = [i \in 1 .. n |-> p[i]]
    BY <1>1
  <1>8. p = q
    BY <1>5, <1>6, <1>7
  <1> QED
    BY <1>8 DEF n, q, b

\* The luaV_execute on top stands for another number of frames.
LEMMA Replace ==
    ASSUME NEW S, NEW c, NEW h, NEW lim, Good(S, c, h, lim), c # <<>>,
           NEW x, x = c[Len(c)], x.k = "exec", NEW t, t = x.th, NEW d \in Nat \ {0},
           NEW L, ThreadOK(L, lim), L.status = "ok", L.ncc = S[t].ncc,
           L.errfunc = S[t].errfunc, Len(L.ci) = Len(S[t].ci) - x.n + d,
           KeepsFrames(S[t], L, Len(S[t].ci) - x.n),
           \A i \in Len(L.ci) - d + 1 .. Len(L.ci) : L.ci[i] \in LuaFrame
    PROVE  Ok([S EXCEPT ![t] = L], Append(SubSeq(c, 1, Len(c) - 1), [x EXCEPT !.n = d]), lim)
  <1> DEFINE m == Len(S[t].ci) - x.n
             L0 == [S[t] EXCEPT !.ci = SubSeq(S[t].ci, 1, m)]
             c1 == SubSeq(c, 1, Len(c) - 1)
             h1 == SubSeq(h, 1, Len(c) - 1)
             S1 == [S EXCEPT ![t] = L0]
             y == [x EXCEPT !.n = d]
  <1>1. /\ Len(c) \in Nat \ {0} /\ x \in Act /\ t \in Thread /\ ThreadOK(S[t], lim)
        /\ S[t].status = "ok" /\ S[t].ncc < lim /\ Len(S[t].ci) = h[Len(c)].frames
    BY AtTop
  <1>2. Len(c) - 1 \in 1 .. Len(c) /\ Above(c[Len(c) - 1], x)
        /\ h[Len(c)] = After(h[Len(c) - 1], x)
    BY BelowTop
  <1>3. x.n \in Nat \ {0}
    BY <1>1, ActFacts
  <1>4. m \in Nat \ {0} /\ m <= Len(S[t].ci) /\ Len(S[t].ci) \in Nat
    <2>1. h[Len(c) - 1] \in Mark
      BY <1>2, Shape1
    <2>2. h[Len(c) - 1].frames \in Nat \ {0}
      BY <2>1 DEF Mark
    <2>3. h[Len(c)].frames = h[Len(c) - 1].frames + x.n
      BY <1>2 DEF After, Starts
    <2> DEFINE a == h[Len(c) - 1].frames
               b == Len(S[t].ci)
    <2>4. a \in Nat \ {0} /\ b = a + x.n
      BY <1>1, <2>2, <2>3
    <2> HIDE DEF a, b
    <2>5. b - x.n \in Nat \ {0} /\ b - x.n <= b /\ b \in Nat
      BY <1>3, <2>4
    <2> QED
      BY <2>5 DEF b
  <1>5. /\ SubSeq(S[t].ci, 1, m) \in Seq(CI) /\ Len(SubSeq(S[t].ci, 1, m)) = m
        /\ \A i \in 1 .. m : SubSeq(S[t].ci, 1, m)[i] = S[t].ci[i]
    <2>1. S[t].ci \in Seq(CI) /\ m \in 0 .. Len(S[t].ci)
      BY <1>1, <1>4, Fields
    <2> DEFINE q == S[t].ci
    <2> HIDE DEF m, q
    <2>2. q \in Seq(CI) /\ m \in 0 .. Len(q)
      BY <2>1 DEF q
    <2>3. /\ SubSeq(q, 1, m) \in Seq(CI) /\ Len(SubSeq(q, 1, m)) = m
          /\ \A i \in 1 .. m : SubSeq(q, 1, m)[i] = q[i]
      BY <2>2, Shorter
    <2> QED
      BY <2>3 DEF q
  <1>6. ThreadOK(L0, lim) /\ L0.ci = SubSeq(S[t].ci, 1, m) /\ L0.status = "ok"
        /\ L0.ncc = S[t].ncc /\ L0.errfunc = S[t].errfunc
    <2> DEFINE s == SubSeq(S[t].ci, 1, m)
    <2>1. s \in Seq(CI) /\ Len(s) = m /\ s # <<>>
      BY <1>4, <1>5
    <2> HIDE DEF s, m
    <2>2. Len(s) <= S[t].sizeci
      BY <1>1, <1>4, <2>1, Fields
    <2> DEFINE T == S[t]
               base == T.base
               top == T.top
    <2>3. /\ L0 = [T EXCEPT !.ci = s, !.base = base, !.top = top]
          /\ base \in Int /\ top \in Int /\ ThreadOK(T, lim) /\ Len(s) <= T.sizeci
      BY <1>1, <2>2 DEF s, ThreadOK
    <2> HIDE DEF L0, base, top, T
    <2>5. Reframed(T, s, base, top, L0, lim)
      BY <2>1, <2>3, Framed
    <2>4. /\ ThreadOK(L0, lim) /\ L0.ci = s /\ L0.status = S[t].status
          /\ L0.ncc = S[t].ncc /\ L0.errfunc = S[t].errfunc
      BY <2>5 DEF T, Reframed
    <2> QED
      BY <1>1, <2>4 DEF s
  <1> HIDE DEF L0
  <1>7. Takes(S[t], x, L0)
    <2>1. Weight(x) = x.n
      BY DEF Weight
    <2>2. KeepsFrames(S[t], L0, m)
      <3> HIDE DEF m
      <3>1. \A i \in 1 .. m : L0.ci[i] = S[t].ci[i]
        BY <1>5, <1>6
      <3> QED
        BY <3>1 DEF KeepsFrames, Kin
    <2>3. S[t].ncc \in Nat
      BY <1>1, Fields
    <2> QED
      <3>1. Len(L0.ci) = m /\ L0.status = "ok" /\ L0.ncc = S[t].ncc
            /\ L0.errfunc = S[t].errfunc
        BY <1>5, <1>6
      <3>2. L0.ncc = S[t].ncc - (IF x.k = "call" THEN 1 ELSE 0) /\ x.k # "pcall"
        BY <2>3, <3>1
      <3>3. Len(L0.ci) = Len(S[t].ci) - Weight(x)
        BY <2>1, <3>1
      <3> HIDE DEF m
      <3> QED
        BY <2>2, <3>1, <3>2, <3>3 DEF Takes
  <1>8. /\ Good(S1, c1, h1, lim) /\ c1 # <<>> /\ c1[Len(c1)] = c[Len(c) - 1]
        /\ Len(c1) = Len(c) - 1
    BY <1>6, <1>7, Pop
  <1>9. S1[t] = L0 /\ [S1 EXCEPT ![t] = L] = [S EXCEPT ![t] = L]
    <2>1. S = [u \in Thread |-> S[u]]
      BY DEF Good
    <2> QED
      BY <1>1, <2>1
  <1>10. y \in Act /\ y.k = "exec" /\ y.th = t /\ y.n = d
    <2>1. x \in [k : {"exec"}, th : Thread, n : Nat \ {0}]
      BY <1>1 DEF Act
    <2> QED
      BY <2>1 DEF Act
  <1>11. Above(c1[Len(c1)], y)
    BY <1>2, <1>8, <1>10 DEF Above
  <1>12. Adds(L0, y, L)
    <2>1. Weight(y) = d /\ Len(L0.ci) = m
      BY <1>5, <1>6, <1>10 DEF Weight
    <2>2. Len(L.ci) = m + d /\ m + 1 = Len(L.ci) - d + 1
      BY <1>4
    <2>3. KeepsFrames(L0, L, m)
      <3> HIDE DEF m
      <3>1. \A i \in 1 .. m : L0.ci[i] = S[t].ci[i]
        BY <1>5, <1>6
      <3>2. \A i \in 1 .. m : Kin(S[t].ci[i], L.ci[i])
        BY DEF KeepsFrames, m
      <3> QED
        BY <3>1, <3>2 DEF KeepsFrames
    <2>4. S[t].ncc \in Nat
      BY <1>1, Fields
    <2>5. \A i \in m + 1 .. Len(L.ci) : L.ci[i] \in LuaFrame
      BY <2>2
    <2> DEFINE n0 == Len(L0.ci)
               n1 == Len(L.ci)
               w == Weight(y)
    <2>8. n0 = m /\ n1 = m + w
      BY <2>1, <2>2
    <2>9. L.ncc = L0.ncc + 0
      BY <1>6, <2>4
    <2>6. /\ n1 = n0 + w /\ KeepsFrames(L0, L, n0) /\ L.ncc = L0.ncc + 0
          /\ \A i \in n0 + 1 .. n1 : L.ci[i] \in LuaFrame
      BY <2>3, <2>5, <2>8, <2>9
    <2> HIDE DEF m, y, n0, n1, w
    <2>7. /\ L.status = "ok" /\ L.ncc = L0.ncc + (IF y.k = "call" THEN 1 ELSE 0)
          /\ L.errfunc = L0.errfunc
      BY <1>6, <1>10, <2>6
    <2> QED
      BY <1>10, <2>6, <2>7 DEF Adds, n0, n1, w
  <1> HIDE DEF S1, c1, h1, y
  <1>13. L.ncc < lim /\ S1[t].ncc < lim
    BY <1>1, <1>6, <1>9
  <1>14. y.k \notin {"host", "resume"} /\ y.k \notin {"call", "throw"} /\ t = y.th
    BY <1>10
  <1>15. Good([S1 EXCEPT ![t] = L], Append(c1, y), Append(h1, After(h1[Len(c1)], y)), lim)
    BY <1>8, <1>9, <1>10, <1>11, <1>12, <1>13, <1>14, Push
  <1> QED
    BY <1>9, <1>15 DEF Ok, c1, y

\* The step from luaD_precall to the function: it runs, or the error is raised.
LEMMA Entered ==
    ASSUME NEW S, NEW c, NEW h, NEW lim, Good(S, c, h, lim), c # <<>>,
           NEW t, t = c[Len(c)].th, NEW L, ThreadOK(L, lim), Keeps(S[t], L), S[t].ncc < lim,
           NEW func \in Int, NEW nres \in Int, NEW f \in Fn,
           NEW r, r = luaD_precall(L, func, nres, f), NEW same \in BOOLEAN,
           c[Len(c)].k = "exec" \/ (~same /\ c[Len(c)].k \in {"call", "resume"}),
           c[Len(c)].k = "exec" => same, c[Len(c)].k = "resume" => ~Shape[f].isC,
           \A X : [S EXCEPT ![t] = X] = [st EXCEPT ![t] = X],
           Enter(t, r, c, f, same)
    PROVE  Ok(st', cs', lim)
  <1>1. /\ Len(c) \in Nat \ {0} /\ c[Len(c)] \in Act /\ t \in Thread /\ ThreadOK(S[t], lim)
        /\ S[t].status = "ok" /\ Len(S[t].ci) = h[Len(c)].frames
        /\ c[Len(c)].k = "exec" =>
              \A i \in Len(S[t].ci) - c[Len(c)].n + 1 .. Len(S[t].ci) : S[t].ci[i] \in LuaFrame
    BY AtTop
  <1>2. /\ L.status = "ok" /\ L.ncc = S[t].ncc /\ L.errfunc = S[t].errfunc
        /\ Len(L.ci) = Len(S[t].ci) /\ KeepsFrames(S[t], L, Len(L.ci))
        /\ L.ci \in Seq(CI) /\ Len(L.ci) \in Nat /\ S[t].ncc \in Nat
    BY <1>1, Fields DEF Keeps
  <1>3. /\ ThreadOK(r.L, lim) /\ r.err \in {"no", "errrun", "errerr"}
        /\ r.L.status = "ok" /\ r.L.ncc = S[t].ncc /\ r.L.errfunc = S[t].errfunc
        /\ r.err # "no" => r.L.ci = L.ci
        /\ r.err = "no" => \E g \in CI : g.fn = f /\ r.L.ci = Append(L.ci, g)
    <2>1. Entering(L, r, f, lim)
      BY <1>2, Precall
    <2> QED
      BY <1>2, <2>1 DEF Entering
  <1>4. st' = [S EXCEPT ![t] = r.L]
    BY DEF Enter, Become
  <1>5. CASE r.err # "no"
    <2> DEFINE x == Failed(t, r.err)
    <2>1. cs' = Append(c, x)
      BY <1>5 DEF Enter, Become
    <2>2. /\ x \in Act /\ x.k \in {"raise", "throw"} /\ x.th = t
      <3>1. x \in {[k |-> "raise", th |-> t], [k |-> "throw", th |-> t, code |-> "errerr"]}
        BY DEF Failed, Raise, Throw
      <3> QED
        BY <1>1, <3>1 DEF Act, Dead
    <2> HIDE DEF x
    <2>3. Above(c[Len(c)], x)
      BY <2>2 DEF Above
    <2>4. Adds(S[t], x, r.L)
      <3>1. Weight(x) = 0 /\ r.L.ci = L.ci
        BY <1>3, <1>5, <2>2 DEF Weight
      <3>2. /\ KeepsFrames(S[t], r.L, Len(S[t].ci)) /\ Len(r.L.ci) = Len(S[t].ci) + Weight(x)
            /\ r.L.ncc = S[t].ncc + 0
        BY <1>2, <1>3, <3>1 DEF KeepsFrames
      <3> QED
        BY <1>3, <2>2, <3>2 DEF Adds
    <2>5. x.k \notin {"host", "resume"} /\ t = x.th /\ r.L.ncc < lim
      BY <1>3, <2>2
    <2>6. Good([S EXCEPT ![t] = r.L], Append(c, x), Append(h, After(h[Len(c)], x)), lim)
      BY <1>3, <2>2, <2>3, <2>4, <2>5, Push
    <2> QED
      BY <1>4, <2>1, <2>6 DEF Ok
  <1>6. CASE r.err = "no"
    <2>1. PICK g \in CI : g.fn = f /\ r.L.ci = Append(L.ci, g)
      BY <1>3, <1>6
    <2> DEFINE n == Len(L.ci)
    <2>2. /\ Len(r.L.ci) = n + 1 /\ r.L.ci[n + 1] = g
          /\ \A i \in 1 .. n : r.L.ci[i] = L.ci[i]
      <3>1. L.ci \in Seq(CI)
        BY <1>2, Fields
      <3> QED
        BY <2>1, <3>1, Longer
    <2>3. KeepsFrames(S[t], r.L, n)
      BY <1>2, <2>2 DEF KeepsFrames
    <2>4. IF Shape[f].isC THEN g \in CFrame ELSE g \in LuaFrame
      BY <2>1 DEF CFrame, LuaFrame
    <2>5. n \in Nat /\ n = Len(S[t].ci)
      BY <1>2
    <2> HIDE DEF n
    <2>6. CASE Shape[f].isC
      <3> DEFINE x == [k |-> "c", th |-> t]
      <3>1. cs' = Append(c, x)
        BY <1>6, <2>6 DEF Enter, Become
      <3>2. x \in Act /\ x.k = "c" /\ x.th = t
        BY <1>1 DEF Act
      <3> HIDE DEF x
      <3>3. CASE c[Len(c)].k \in {"exec", "call"}
        <4>1. Above(c[Len(c)], x)
          BY <3>2, <3>3 DEF Above
        <4>2. Adds(S[t], x, r.L)
          <5>1. Weight(x) = 1
            BY <3>2 DEF Weight
          <5>2. /\ KeepsFrames(S[t], r.L, Len(S[t].ci)) /\ r.L.ci[Len(r.L.ci)] \in CFrame
                /\ Len(r.L.ci) = Len(S[t].ci) + Weight(x) /\ r.L.ncc = S[t].ncc + 0
            <6>1. r.L.ncc = S[t].ncc + 0
              <7>1. r.L.ncc = S[t].ncc
                BY <1>3
              <7>2. S[t].ncc \in Nat
                BY <1>2, Fields
              <7> QED
                BY <7>1, <7>2
            <6>2. Len(r.L.ci) = Len(S[t].ci) + Weight(x)
              BY <2>2, <2>5, <5>1
            <6>3. r.L.ci[Len(r.L.ci)] \in CFrame
              BY <2>2, <2>4, <2>6
            <6> QED
              BY <2>3, <2>5, <6>1, <6>2, <6>3
          <5> QED
            BY <1>3, <3>2, <5>2 DEF Adds
        <4>3. x.k \notin {"host", "resume"} /\ t = x.th /\ r.L.ncc < lim
          BY <1>3, <3>2
        <4>4. Good([S EXCEPT ![t] = r.L], Append(c, x), Append(h, After(h[Len(c)], x)), lim)
          BY <1>3, <3>2, <4>1, <4>2, <4>3, Push
        <4> QED
          BY <1>4, <3>1, <4>4 DEF Ok
      <3> QED
        BY <2>6, <3>3
    <2>7. CASE ~Shape[f].isC /\ ~same
      <3> DEFINE x == [k |-> "exec", th |-> t, n |-> 1]
      <3>1. cs' = Append(c, x)
        BY <1>6, <2>7 DEF Enter, Become
      <3>2. x \in Act /\ x.k = "exec" /\ x.th = t /\ x.n = 1
        BY <1>1 DEF Act
      <3> HIDE DEF x
      <3>3. Above(c[Len(c)], x)
        BY <2>7, <3>2 DEF Above
      <3>4. Adds(S[t], x, r.L)
        <4>1. Weight(x) = 1
          BY <3>2 DEF Weight
        <4>2. \A i \in n + 1 .. n + 1 : r.L.ci[i] \in LuaFrame
          BY <2>2, <2>4, <2>5, <2>7
        <4>3. /\ KeepsFrames(S[t], r.L, Len(S[t].ci))
              /\ \A i \in Len(S[t].ci) + 1 .. Len(r.L.ci) : r.L.ci[i] \in LuaFrame
              /\ Len(r.L.ci) = Len(S[t].ci) + Weight(x) /\ r.L.ncc = S[t].ncc + 0
          <5>1. Len(r.L.ci) = n + 1 /\ Len(S[t].ci) = n
            BY <2>2, <2>5
          <5>2. \A i \in Len(S[t].ci) + 1 .. Len(r.L.ci) : r.L.ci[i] \in LuaFrame
            BY <4>2, <5>1
          <5>3. Len(r.L.ci) = Len(S[t].ci) + Weight(x) /\ KeepsFrames(S[t], r.L, Len(S[t].ci))
            BY <2>3, <4>1, <5>1
          <5>4. r.L.ncc = S[t].ncc + 0
            BY <1>2, <1>3
          <5> QED
            BY <5>2, <5>3, <5>4
        <4> QED
          BY <1>3, <3>2, <4>3 DEF Adds
      <3>5. x.k \notin {"host", "resume"} /\ t = x.th /\ r.L.ncc < lim
        BY <1>3, <3>2
      <3>6. Good([S EXCEPT ![t] = r.L], Append(c, x), Append(h, After(h[Len(c)], x)), lim)
        BY <1>3, <3>2, <3>3, <3>4, <3>5, Push
      <3> QED
        BY <1>4, <3>1, <3>6 DEF Ok
    <2>8. CASE ~Shape[f].isC /\ same
      <3> DEFINE x == c[Len(c)]
                 y == [x EXCEPT !.n = x.n + 1]
      <3>1. x.k = "exec" /\ x.n \in Nat \ {0} /\ c \in Seq(Act)
        BY <1>1, <2>8, ActFacts, Shape1
      <3>2. cs' = [c EXCEPT ![Len(c)] = y]
        BY <1>6, <2>8 DEF Enter, Become
      <3>3. [c EXCEPT ![Len(c)] = y] = Append(SubSeq(c, 1, Len(c) - 1), y)
        <4>1. y \in Act /\ c # <<>>
          <5>1. x \in [k : {"exec"}, th : Thread, n : Nat \ {0}]
            BY <1>1, <3>1 DEF Act
          <5> QED
            BY <5>1 DEF Act
        <4> HIDE DEF y
        <4> QED
          BY <3>1, <4>1, LastReplaced
      <3>4. \A i \in Len(r.L.ci) - (x.n + 1) + 1 .. Len(r.L.ci) : r.L.ci[i] \in LuaFrame
        <4> SUFFICES ASSUME NEW i \in Len(r.L.ci) - (x.n + 1) + 1 .. Len(r.L.ci)
                     PROVE  r.L.ci[i] \in LuaFrame
          OBVIOUS
        <4>1. CASE i = n + 1
          BY <2>2, <2>4, <2>8, <4>1
        <4>2. CASE i # n + 1
          <5>1. n = h[Len(c)].frames /\ \A j \in n - x.n + 1 .. n : S[t].ci[j] \in LuaFrame
            <6>1. /\ Len(S[t].ci) = h[Len(c)].frames
                  /\ \A j \in Len(S[t].ci) - x.n + 1 .. Len(S[t].ci) : S[t].ci[j] \in LuaFrame
              BY <1>1, <3>1
            <6> QED
              BY <2>5, <6>1
          <5>2. n - x.n \in Nat
            <6>1. Len(c) - 1 \in 1 .. Len(c) /\ h[Len(c)] = After(h[Len(c) - 1], x)
              BY <3>1, BelowTop
            <6>2. h[Len(c) - 1].frames \in Nat /\ h[Len(c)].frames = h[Len(c) - 1].frames + x.n
              BY <3>1, <6>1, Shape1 DEF After, Starts
            <6> QED
              BY <3>1, <5>1, <6>2
          <5>3. i \in n - x.n + 1 .. n /\ i \in 1 .. n
            <6> DEFINE k == x.n
            <6>1. k \in Nat \ {0} /\ n - k \in Nat
                  /\ i \in Len(r.L.ci) - (k + 1) + 1 .. Len(r.L.ci) /\ Len(r.L.ci) = n + 1
              BY <2>2, <3>1, <5>2
            <6> HIDE DEF k
            <6>3. i \in (n + 1) - (k + 1) + 1 .. n + 1 /\ n \in Nat
              BY <2>5, <6>1
            <6>4. i \in Int /\ n - k + 1 <= i /\ i <= n /\ 1 <= i
              BY <4>2, <6>1, <6>3
            <6>2. i \in n - k + 1 .. n /\ i \in 1 .. n
              BY <6>1, <6>3, <6>4
            <6> QED
              BY <6>2 DEF k
          <5> QED
            BY <2>3, <5>1, <5>3 DEF KeepsFrames, Kin
        <4> QED
          BY <4>1, <4>2
      <3>5. /\ x.n + 1 \in Nat \ {0} /\ Len(r.L.ci) = Len(S[t].ci) - x.n + (x.n + 1)
            /\ KeepsFrames(S[t], r.L, Len(S[t].ci) - x.n)
        <4> DEFINE k == x.n
        <4>1. k \in Nat \ {0} /\ Len(r.L.ci) = n + 1 /\ Len(S[t].ci) = n
          BY <2>2, <2>5, <3>1
        <4> HIDE DEF k
        <4>4. n \in Nat /\ k \in Nat
          BY <2>5, <4>1
        <4>2. k + 1 \in Nat \ {0} /\ n + 1 = (n - k) + (k + 1) /\ n - k <= n
          BY <4>4
        <4>3. KeepsFrames(S[t], r.L, n - k)
          BY <2>3, <2>5, <4>1, <4>2 DEF KeepsFrames
        <4> QED
          BY <4>1, <4>2, <4>3 DEF k
      <3> HIDE DEF y
      <3>6. Ok([S EXCEPT ![t] = r.L], Append(SubSeq(c, 1, Len(c) - 1), y), lim)
        BY <1>3, <3>1, <3>4, <3>5, Replace DEF y
      <3> QED
        BY <1>4, <3>2, <3>3, <3>6
    <2> QED
      BY <2>6, <2>7, <2>8
  <1> QED
    BY <1>5, <1>6

------------------------------------------------------------------------------
(* The steps *)

\* A thread replaced twice, or by itself.
LEMMA Again ==
    ASSUME NEW S, NEW c, NEW h, NEW lim, Good(S, c, h, lim), NEW t \in Thread, NEW L, NEW X
    PROVE  /\ [S EXCEPT ![t] = L][t] = L /\ [S EXCEPT ![t] = S[t]] = S
           /\ [[S EXCEPT ![t] = L] EXCEPT ![t] = X] = [S EXCEPT ![t] = X]
           /\ \A u \in Thread : u # t => [S EXCEPT ![t] = L][u] = S[u]
  <1>1. S = [u \in Thread |-> S[u]]
    BY DEF Good
  <1> QED
    BY <1>1

\* What is left when the top is taken away.
LEMMA BelowIs ==
    ASSUME NEW S, NEW c, NEW h, NEW lim, Good(S, c, h, lim), c # <<>>,
           NEW x, x = c[Len(c)], x.k # "host", NEW r, r = SubSeq(c, 1, Len(c) - 1)
    PROVE  r # <<>> /\ Len(r) = Len(c) - 1 /\ r[Len(r)] = c[Len(c) - 1]
  <1> DEFINE m == Len(c) - 1
  <1>1. m \in 1 .. Len(c) /\ m \in 0 .. Len(c) /\ Len(c) \in Nat /\ c \in Seq(Act)
    <2>1. m \in 1 .. Len(c) /\ Len(c) \in Nat /\ c \in Seq(Act)
      BY BelowTop, Shape1
    <2> QED
      BY <2>1
  <1>2. r = SubSeq(c, 1, m)
    OBVIOUS
  <1> HIDE DEF m
  <1>3. /\ SubSeq(c, 1, m) \in Seq(Act) /\ Len(SubSeq(c, 1, m)) = m
        /\ \A j \in 1 .. m : SubSeq(c, 1, m)[j] = c[j]
    BY <1>1, Shorter
  <1>4. Len(r) = m /\ r[m] = c[m] /\ m # 0
    BY <1>1, <1>2, <1>3
  <1> QED
    BY <1>4 DEF m

\* Nothing changes of a thread that stays as it is.
LEMMA KeepsSelf ==
    ASSUME NEW L
    PROVE  Keeps(L, L)
  BY DEF Keeps, KeepsFrames, Kin

\* Another count of calls, and another error function.
Counts(L, L1, n) ==
    /\ L1.status = L.status /\ L1.ci = L.ci /\ L1.top = L.top /\ L1.base = L.base
    /\ L1.ncc = n /\ L1.errfunc = L.errfunc
Handles(L, L1, e) ==
    /\ L1.status = L.status /\ L1.ci = L.ci /\ L1.top = L.top /\ L1.base = L.base
    /\ L1.ncc = L.ncc /\ L1.errfunc = e

\* The calls of a thread replaced.
LEMMA Counted ==
    ASSUME NEW L, NEW lim, ThreadOK(L, lim), NEW n \in Nat, n <= lim
    PROVE  ThreadOK([L EXCEPT !.ncc = n], lim) /\ Counts(L, [L EXCEPT !.ncc = n], n)
  <1> DEFINE L1 == [L EXCEPT !.ncc = n]
  <1>1. L = [status |-> L.status, top |-> L.top, base |-> L.base, last |-> L.last,
             ci |-> L.ci, sizeci |-> L.sizeci, ncc |-> L.ncc, hookok |-> L.hookok,
             errfunc |-> L.errfunc, open |-> L.open]
    BY DEF ThreadOK
  <1>2. L1 = [status |-> L.status, top |-> L.top, base |-> L.base, last |-> L.last,
              ci |-> L.ci, sizeci |-> L.sizeci, ncc |-> n, hookok |-> L.hookok,
              errfunc |-> L.errfunc, open |-> L.open]
    BY <1>1
  <1> HIDE DEF L1
  <1>3. /\ L1 = [status |-> L1.status, top |-> L1.top, base |-> L1.base, last |-> L1.last,
                 ci |-> L1.ci, sizeci |-> L1.sizeci, ncc |-> L1.ncc, hookok |-> L1.hookok,
                 errfunc |-> L1.errfunc, open |-> L1.open]
        /\ L1.status = L.status /\ L1.top = L.top /\ L1.base = L.base /\ L1.last = L.last
        /\ L1.ci = L.ci /\ L1.sizeci = L.sizeci /\ L1.ncc = n
        /\ L1.errfunc = L.errfunc /\ L1.hookok = L.hookok
    BY <1>2
  <1>4. /\ L.status \in {"none", "ok", "yield"} \cup Dead /\ L.hookok \in BOOLEAN
        /\ L.top \in Int /\ L.base \in Int /\ L.errfunc \in Int /\ L.last \in Int
        /\ L.ci \in Seq(CI) /\ L.ncc \in Nat /\ L.ncc <= lim /\ L.sizeci \in Nat
        /\ Len(L.ci) <= L.sizeci /\ L.sizeci <= 2 * LUAI_MAXCALLS
        /\ L.status # "none" => L.ci # <<>>
    BY DEF ThreadOK
  <1>5. ThreadOK(L1, lim)
    BY <1>3, <1>4 DEF ThreadOK
  <1>6. Counts(L, L1, n)
    BY <1>3 DEF Counts
  <1> QED
    BY <1>5, <1>6 DEF L1

\* The handler of a thread replaced.
LEMMA Handled ==
    ASSUME NEW L, NEW lim, ThreadOK(L, lim), NEW e \in Int
    PROVE  ThreadOK([L EXCEPT !.errfunc = e], lim) /\ Handles(L, [L EXCEPT !.errfunc = e], e)
  <1> DEFINE L1 == [L EXCEPT !.errfunc = e]
  <1>1. L = [status |-> L.status, top |-> L.top, base |-> L.base, last |-> L.last,
             ci |-> L.ci, sizeci |-> L.sizeci, ncc |-> L.ncc, hookok |-> L.hookok,
             errfunc |-> L.errfunc, open |-> L.open]
    BY DEF ThreadOK
  <1>2. L1 = [status |-> L.status, top |-> L.top, base |-> L.base, last |-> L.last,
              ci |-> L.ci, sizeci |-> L.sizeci, ncc |-> L.ncc, hookok |-> L.hookok,
              errfunc |-> e, open |-> L.open]
    BY <1>1
  <1> HIDE DEF L1
  <1>3. /\ L1 = [status |-> L1.status, top |-> L1.top, base |-> L1.base, last |-> L1.last,
                 ci |-> L1.ci, sizeci |-> L1.sizeci, ncc |-> L1.ncc, hookok |-> L1.hookok,
                 errfunc |-> L1.errfunc, open |-> L1.open]
        /\ L1.status = L.status /\ L1.top = L.top /\ L1.base = L.base /\ L1.last = L.last
        /\ L1.ci = L.ci /\ L1.sizeci = L.sizeci /\ L1.ncc = L.ncc
        /\ L1.errfunc = e /\ L1.hookok = L.hookok
    BY <1>2
  <1>4. /\ L.status \in {"none", "ok", "yield"} \cup Dead /\ L.hookok \in BOOLEAN
        /\ L.top \in Int /\ L.base \in Int /\ L.errfunc \in Int /\ L.last \in Int
        /\ L.ci \in Seq(CI) /\ L.ncc \in Nat /\ L.ncc <= lim /\ L.sizeci \in Nat
        /\ Len(L.ci) <= L.sizeci /\ L.sizeci <= 2 * LUAI_MAXCALLS
        /\ L.status # "none" => L.ci # <<>>
    BY DEF ThreadOK
  <1>5. ThreadOK(L1, lim)
    BY <1>3, <1>4 DEF ThreadOK
  <1>6. Handles(L, L1, e)
    BY <1>3 DEF Handles
  <1> QED
    BY <1>5, <1>6 DEF L1

\* An error: luaG_runerror or luaD_throw is about to run.
LEMMA Raised ==
    ASSUME NEW S, NEW c, NEW h, NEW lim, Good(S, c, h, lim), c # <<>>,
           NEW t, t = c[Len(c)].th, NEW L, ThreadOK(L, lim), Keeps(S[t], L),
           NEW x \in Act, x.k \in {"raise", "throw"}, x.th = t,
           c[Len(c)].k \in {"call", "resume", "exec", "c", "hook"},
           x.k = "throw" \/ S[t].ncc < lim
    PROVE  Ok([S EXCEPT ![t] = L], Append(c, x), lim)
  <1>1. t \in Thread /\ ThreadOK(S[t], lim) /\ S[t].status = "ok"
    BY AtTop
  <1>2. Above(c[Len(c)], x)
    BY DEF Above
  <1>3. Adds(S[t], x, L)
    <2>1. Weight(x) = 0 /\ x.k # "call" /\ x.k # "pcall" /\ x.k # "c" /\ x.k # "exec"
      BY DEF Weight
    <2>2. /\ L.status = "ok" /\ L.ncc = S[t].ncc /\ L.errfunc = S[t].errfunc
          /\ Len(L.ci) = Len(S[t].ci) /\ KeepsFrames(S[t], L, Len(S[t].ci))
      BY <1>1 DEF Keeps
    <2>3. S[t].ncc \in Nat /\ Len(S[t].ci) \in Nat
      BY <1>1, Fields
    <2>4. L.ncc = S[t].ncc + 0 /\ Len(L.ci) = Len(S[t].ci) + 0
      BY <2>2, <2>3
    <2> QED
      BY <2>1, <2>2, <2>4 DEF Adds
  <1>4. /\ x.k \notin {"host", "resume"} /\ t = x.th
        /\ x.k \notin {"call", "throw"} => L.ncc < lim
    BY DEF Keeps
  <1>5. Good([S EXCEPT ![t] = L], Append(c, x), Append(h, After(h[Len(c)], x)), lim)
    BY <1>2, <1>3, <1>4, Push
  <1> QED
    BY <1>5 DEF Ok

\* The limit on the calls is above the one on those before an error.
LEMMA LimIs ==
    ASSUME world \in Worlds
    PROVE  /\ Lim \in Nat \ {0} /\ LUAI_MAXCCALLS \in Nat /\ LUAI_MAXCCALLS < Lim
           /\ Lim = LUAI_MAXCCALLS + CErrors
  <1>1. LUAI_MAXCCALLS \in Nat
    BY StackAssumption DEF LUAI_MAXCCALLS
  <1> QED
    BY <1>1, Consts DEF Lim

\* luaD_call counts the call, and enters the function or raises an error.
LEMMA Called ==
    ASSUME NEW S, NEW c, NEW h, world \in Worlds, Good(S, c, h, Lim), c # <<>>,
           NEW t, t = c[Len(c)].th, NEW L, ThreadOK(L, Lim), Keeps(S[t], L), S[t].ncc < Lim,
           NEW func \in Int, NEW nres \in Int, NEW f \in Fn,
           NEW for \in {"tm", "api", "handler", "pcall"},
           Above(c[Len(c)], [k |-> "call", th |-> t, for |-> for, nres |-> nres]),
           \A X : [S EXCEPT ![t] = X] = [st EXCEPT ![t] = X],
           luaD_call(t, L, func, nres, f, for, c)
    PROVE  Ok(st', cs', Lim)
  <1> DEFINE L1 == [L EXCEPT !.ncc = L.ncc + 1]
             x == [k |-> "call", th |-> t, for |-> for, nres |-> nres]
             c1 == Append(c, x)
             h1 == Append(h, After(h[Len(c)], x))
             S1 == [S EXCEPT ![t] = L1]
             r == luaD_precall(L1, func, nres, f)
  <1>1. t \in Thread /\ ThreadOK(S[t], Lim) /\ S[t].status = "ok" /\ Len(c) \in Nat \ {0}
    BY AtTop
  <1>2. /\ Lim \in Nat \ {0} /\ LUAI_MAXCCALLS \in Nat /\ LUAI_MAXCCALLS < Lim
        /\ Lim = LUAI_MAXCCALLS + CErrors
    BY LimIs
  <1>3. IF L1.ncc = LUAI_MAXCCALLS THEN Become(t, L1, Append(c1, Raise(t)))
        ELSE IF L1.ncc >= LUAI_MAXCCALLS + CErrors
        THEN Become(t, L1, Append(c1, Throw(t, "errerr")))
        ELSE Enter(t, r, c1, f, FALSE)
    BY DEF luaD_call
  <1> HIDE DEF r
  <1>4. x \in Act /\ x.k = "call" /\ x.th = t
    BY <1>1 DEF Act
  <1>6. Above(c[Len(c)], x)
    OBVIOUS
  <1> HIDE DEF L1, x
  <1>7. L.ncc \in Nat /\ L.ncc + 1 \in Nat /\ L.ncc + 1 <= Lim
    <2>1. L.ncc = S[t].ncc /\ L.ncc \in Nat
      BY Fields DEF Keeps
    <2> QED
      BY <1>2, <2>1
  <1>5. ThreadOK(L1, Lim) /\ Counts(L, L1, L.ncc + 1)
    BY <1>7, Counted DEF L1
  <1>8. ThreadOK(L1, Lim)
    BY <1>5
  <1>9. Adds(S[t], x, L1)
    <2>1. /\ L1.status = L.status /\ L1.ci = L.ci /\ L1.ncc = L.ncc + 1
          /\ L1.errfunc = L.errfunc
      BY <1>5 DEF Counts
    <2>2. /\ L.status = "ok" /\ L.ncc = S[t].ncc /\ L.errfunc = S[t].errfunc
          /\ Len(L.ci) = Len(S[t].ci) /\ KeepsFrames(S[t], L, Len(S[t].ci))
      BY <1>1 DEF Keeps
    <2>3. Weight(x) = 0 /\ Len(S[t].ci) \in Nat
      BY <1>1, <1>4, Fields DEF Weight
    <2>4. Len(L1.ci) = Len(S[t].ci) + 0 /\ KeepsFrames(S[t], L1, Len(S[t].ci))
      BY SMTT(30), <2>1, <2>2, <2>3 DEF KeepsFrames
    <2> QED
      BY <1>4, <2>1, <2>2, <2>3, <2>4 DEF Adds
  <1>10. Good(S1, c1, h1, Lim)
    <2>1. /\ x.k \notin {"host", "resume"} /\ t = x.th /\ x.k \in {"call", "throw"}
      BY <1>4
    <2> QED
      BY <1>4, <1>6, <1>8, <1>9, <2>1, Push
  <1>11. /\ S1[t] = L1 /\ \A X : [S1 EXCEPT ![t] = X] = [st EXCEPT ![t] = X]
    <2>1. S = [u \in Thread |-> S[u]]
      BY DEF Good
    <2>2. S1[t] = L1 /\ \A X : [S1 EXCEPT ![t] = X] = [S EXCEPT ![t] = X]
      BY <1>1, <2>1
    <2> QED
      BY <2>2
  <1>12. c1 # <<>> /\ c1[Len(c1)] = x
    <2>1. c \in Seq(Act)
      BY Shape1
    <2>2. Len(c1) = Len(c) + 1 /\ c1[Len(c) + 1] = x
      BY <1>4, <2>1, Longer
    <2> QED
      BY <1>1, <2>2
  <1>13. Keeps(S1[t], L1)
    BY <1>11, KeepsSelf
  <1>14. L1.ncc \in Nat /\ L1.ncc = S1[t].ncc
    BY <1>5, <1>7, <1>11 DEF Counts
  <1>15. c1[Len(c1)].th = t /\ c1[Len(c1)].k = "call"
    BY <1>4, <1>12
  <1> HIDE DEF S1, c1, h1
  <1>16. ASSUME NEW y \in Act, y.k \in {"raise", "throw"}, y.th = t,
                y.k = "throw" \/ L1.ncc < Lim, Become(t, L1, Append(c1, y))
         PROVE  Ok(st', cs', Lim)
    <2>1. Ok([S1 EXCEPT ![t] = L1], Append(c1, y), Lim)
      <3>1. /\ t = c1[Len(c1)].th
            /\ c1[Len(c1)].k \in {"call", "resume", "exec", "c", "hook"}
            /\ y.k = "throw" \/ S1[t].ncc < Lim
        BY <1>14, <1>15, <1>16
      <3> QED
        BY <1>8, <1>10, <1>12, <1>13, <1>16, <3>1, Raised
    <2>2. st' = [S1 EXCEPT ![t] = L1] /\ cs' = Append(c1, y)
      BY <1>11, <1>16 DEF Become
    <2> QED
      BY <2>1, <2>2
  <1>17. CASE L1.ncc = LUAI_MAXCCALLS
    <2>1. Raise(t) \in Act /\ Raise(t).k = "raise" /\ Raise(t).th = t
      BY <1>1 DEF Raise, Act
    <2>2. Become(t, L1, Append(c1, Raise(t))) /\ L1.ncc < Lim
      BY <1>2, <1>3, <1>17
    <2> QED
      BY <1>16, <2>1, <2>2
  <1>18. CASE L1.ncc # LUAI_MAXCCALLS /\ L1.ncc >= LUAI_MAXCCALLS + CErrors
    <2>1. /\ Throw(t, "errerr") \in Act /\ Throw(t, "errerr").k = "throw"
          /\ Throw(t, "errerr").th = t
      BY <1>1 DEF Throw, Act, Dead
    <2>2. Become(t, L1, Append(c1, Throw(t, "errerr")))
      BY <1>3, <1>18
    <2> QED
      BY <1>16, <2>1, <2>2
  <1>19. CASE L1.ncc # LUAI_MAXCCALLS /\ ~(L1.ncc >= LUAI_MAXCCALLS + CErrors)
    <2>4. Enter(t, r, c1, f, FALSE)
      BY <1>3, <1>19
    <2>5. L1.ncc < Lim
      <3>1. CErrors \in Nat
        BY Consts
      <3> QED
        BY <1>2, <1>14, <1>19, <3>1
    <2>1. Enter(t, r, c1, f, FALSE) /\ S1[t].ncc < Lim
      BY <1>14, <2>4, <2>5
    <2>2. t = c1[Len(c1)].th /\ c1[Len(c1)].k = "call" /\ FALSE \in BOOLEAN
      BY <1>15
    <2>3. r = luaD_precall(L1, func, nres, f)
      BY DEF r
    <2> QED
      BY <1>8, <1>10, <1>11, <1>12, <1>13, <2>1, <2>2, <2>3, Entered
  <1> QED
    BY <1>17, <1>18, <1>19

\* What a program may use.
LEMMA WorldIs ==
    ASSUME world \in Worlds
    PROVE  /\ world.fn \subseteq Fn /\ world.co \subseteq Coroutines /\ world.co \subseteq Thread
           /\ world.give \subseteq Int /\ world.want \subseteq Int /\ world.room \subseteq Int
           /\ Args \subseteq Int
  BY StackAssumption DEF Thread, LUA_MULTRET

\* A step that changes no frame, no count and nothing of the C stack.
LEMMA Stays ==
    ASSUME NEW h, Good(st, cs, h, Lim), NEW t \in Thread, NEW L, ThreadOK(L, Lim),
           Keeps(st[t], L), st' = [st EXCEPT ![t] = L], cs' = cs
    PROVE  Ok(st', cs', Lim)
  <1>1. Good([st EXCEPT ![t] = L], cs, h, Lim)
    BY Change
  <1> QED
    BY <1>1 DEF Ok

\* The thread on top of the C stack.
LEMMA Runs ==
    ASSUME NEW h, Good(st, cs, h, Lim), cs # <<>>, NEW th, NEW kinds, Running(kinds, th)
    PROVE  /\ th \in Thread /\ th = cs[Len(cs)].th /\ cs[Len(cs)].k \in kinds
           /\ cs[Len(cs)] \in Act /\ Len(cs) \in Nat \ {0} /\ ThreadOK(st[th], Lim)
           /\ st[th].status = "ok" /\ Len(st[th].ci) \in 1 .. Len(st[th].ci)
           /\ cs[Len(cs)].k \notin {"call", "throw"} => st[th].ncc < Lim
  <1>1. th = cs[Len(cs)].th /\ cs[Len(cs)].k \in kinds
    BY DEF Running, Top
  <1>2. /\ Len(cs) \in Nat \ {0} /\ cs[Len(cs)] \in Act /\ th \in Thread
        /\ ThreadOK(st[th], Lim) /\ st[th].status = "ok"
        /\ cs[Len(cs)].k \notin {"call", "throw"} => st[th].ncc < Lim
    BY <1>1, AtTop
  <1>3. Len(st[th].ci) \in 1 .. Len(st[th].ci)
    <2>1. st[th].status # "none"
      BY <1>2
    <2> QED
      BY <1>2, <2>1, Fields
  <1> QED
    BY <1>1, <1>2, <1>3

\* OP_SETLIST keeps the invariant.
LEMMA OpSetListOk ==
    ASSUME NEW h, Good(st, cs, h, Lim), cs # <<>>, NEW th, OpSetList(th)
    PROVE  Ok(st', cs', Lim)
  <1> DEFINE L == st[th]
             v == L.ci[Len(L.ci)].top
             L1 == [L EXCEPT !.top = v]
  <1>1. /\ th \in Thread /\ ThreadOK(L, Lim) /\ Len(L.ci) \in 1 .. Len(L.ci)
        /\ st' = [st EXCEPT ![th] = L1] /\ cs' = cs
    BY Runs DEF OpSetList, Become, LastCI
  <1>2. v \in Int
    BY <1>1, Fields
  <1> HIDE DEF v
  <1>3. ThreadOK(L1, Lim) /\ Keeps(L, L1)
    BY <1>1, <1>2, Moves
  <1> HIDE DEF L1
  <1> QED
    BY <1>1, <1>3, Stays

\* A captured variable keeps the invariant.
LEMMA CaptureOk ==
    ASSUME NEW h, Good(st, cs, h, Lim), cs # <<>>, NEW th, NEW level, Capture(th, level)
    PROVE  Ok(st', cs', Lim)
  <1> DEFINE L == st[th]
             open == L.open \cup {level}
             L1 == [L EXCEPT !.open = open]
  <1>1. /\ th \in Thread /\ ThreadOK(L, Lim) /\ st' = [st EXCEPT ![th] = L1] /\ cs' = cs
    BY Runs DEF Capture, Become
  <1> HIDE DEF open
  <1>2. Moved(L, L1)
    BY <1>1 DEF Moved, ThreadOK
  <1>3. ThreadOK(L1, Lim) /\ Keeps(L, L1)
    BY <1>1, <1>2, MovedKeeps
  <1> HIDE DEF L1
  <1> QED
    BY <1>1, <1>3, Stays

\* luaL_checkstack keeps the invariant.
LEMMA ReserveOk ==
    ASSUME NEW h, Good(st, cs, h, Lim), cs # <<>>, NEW th, NEW n \in Int, Reserve(th, n)
    PROVE  Ok(st', cs', Lim)
  <1> DEFINE L1 == lua_checkstack(st[th], n)
  <1>1. /\ th \in Thread /\ ThreadOK(st[th], Lim) /\ st[th].status = "ok"
        /\ st' = [st EXCEPT ![th] = L1] /\ cs' = cs
    BY Runs DEF Reserve, Become
  <1>2. ThreadOK(L1, Lim) /\ Keeps(st[th], L1)
    BY <1>1, ReceiveKeeps
  <1> HIDE DEF L1
  <1> QED
    BY <1>1, <1>2, Stays

\* lua_settop keeps the invariant.
LEMMA SettopOk ==
    ASSUME NEW h, Good(st, cs, h, Lim), cs # <<>>, NEW th, lua_settop(th)
    PROVE  Ok(st', cs', Lim)
  <1> DEFINE v == st[th].base
             L1 == [st[th] EXCEPT !.top = v]
  <1>1. /\ th \in Thread /\ ThreadOK(st[th], Lim) /\ st' = [st EXCEPT ![th] = L1] /\ cs' = cs
    BY Runs DEF lua_settop, InC
  <1>2. v \in Int
    BY <1>1, Fields
  <1> HIDE DEF v
  <1>3. ThreadOK(L1, Lim) /\ Keeps(st[th], L1)
    BY <1>1, <1>2, Moves
  <1> HIDE DEF L1
  <1> QED
    BY <1>1, <1>3, Stays

\* The shrinking of a stack by the collector keeps the invariant.
LEMMA ShrinkOk ==
    ASSUME NEW h, Good(st, cs, h, Lim), NEW th \in Thread, Shrink(th)
    PROVE  Ok(st', cs', Lim)
  <1> DEFINE L1 == checkstacksizes(st[th])
  <1>1. ThreadOK(st[th], Lim) /\ st' = [st EXCEPT ![th] = L1] /\ cs' = cs
    BY DEF Shrink, Good
  <1>2. ThreadOK(L1, Lim) /\ Keeps(st[th], L1)
    BY <1>1, CheckSizesKeeps
  <1> HIDE DEF L1
  <1> QED
    BY <1>1, <1>2, Stays

\* coroutine.create keeps the invariant: the new thread has one frame and is idle.
LEMMA CoCreateOk ==
    ASSUME NEW h, Good(st, cs, h, Lim), NEW th, NEW co \in Thread, CoCreate(th, co)
    PROVE  Ok(st', cs', Lim)
  <1> DEFINE f == [func |-> 0, base |-> 1, top |-> 1 + LUA_MINSTACK, nres |-> 0, fn |-> "none"]
             L1 == [status |-> "ok", top |-> 2, base |-> 1, last |-> BASIC_STACK_SIZE - 1,
                    ci |-> <<f>>, sizeci |-> BASIC_CI_SIZE, ncc |-> 0, hookok |-> TRUE,
                    errfunc |-> 0, open |-> {}]
  <1>1. st' = [st EXCEPT ![co] = L1] /\ cs' = cs /\ st[co].status = "none"
    <2>1. st = [t \in Thread |-> st[t]]
      BY DEF Good
    <2> QED
      BY <2>1 DEF CoCreate, luaE_newthread, stack_init
  <1>2. f \in CI
    BY Consts DEF CI
  <1> HIDE DEF f
  <1>3. <<f>> \in Seq(CI) /\ Len(<<f>>) = 1
    BY <1>2
  <1>4. ThreadOK(L1, Lim)
    <2>1. /\ BASIC_CI_SIZE \in Nat \ {0} /\ BASIC_CI_SIZE <= 2 * LUAI_MAXCALLS
          /\ BASIC_STACK_SIZE - 1 \in Int /\ Lim \in Nat
      <3>1. Lim \in Nat
        BY DEF Good
      <3> QED
        BY <3>1, Consts
    <2> DEFINE q == <<f>>
    <2>2. q \in Seq(CI) /\ q # <<>> /\ Len(q) <= BASIC_CI_SIZE
      BY <1>3, <2>1
    <2> HIDE DEF q
    <2> QED
      BY <2>1, <2>2 DEF ThreadOK, q
  <1>5. IdleOK(L1)
    BY DEF IdleOK
  <1> HIDE DEF L1
  <1>6. Good([st EXCEPT ![co] = L1], cs, h, Lim)
    BY <1>1, <1>4, <1>5, NewThread
  <1> QED
    BY <1>1, <1>6 DEF Ok

\* A resume of a coroutine that is not suspended keeps the invariant.
LEMMA BadResumeOk ==
    ASSUME NEW h, Good(st, cs, h, Lim), cs # <<>>, NEW th, NEW co \in Thread, BadResume(th, co)
    PROVE  Ok(st', cs', Lim)
  <1> DEFINE L == st[co]
             v == IF L.status = "ok" /\ L.top = L.base THEN L.top ELSE LastCI(L).base
             L1 == [L EXCEPT !.top = v]
             S1 == [st EXCEPT ![co] = L1]
             w == st[th].top + 1
             R == [st[th] EXCEPT !.top = w]
  <1>1. st = [t \in Thread |-> st[t]] /\ ThreadOK(L, Lim)
    BY DEF Good
  <1>2. /\ th \in Thread /\ ThreadOK(st[th], Lim) /\ st[th].status = "ok" /\ co # th
        /\ L.status # "none" /\ cs' = cs
    BY Runs DEF BadResume, InC
  <1>3. st' = [S1 EXCEPT ![th] = R]
    BY <1>1, <1>2 DEF BadResume
  <1>4. v \in Int
    <2>1. Len(L.ci) \in 1 .. Len(L.ci)
      BY <1>1, <1>2, Fields
    <2> QED
      BY <1>1, <2>1, Fields DEF LastCI
  <1> HIDE DEF v
  <1>5. ThreadOK(L1, Lim) /\ Keeps(L, L1)
    BY <1>1, <1>4, Moves
  <1> HIDE DEF L1
  <1>6. Good(S1, cs, h, Lim)
    BY <1>5, Change
  <1>7. S1[th] = st[th]
    BY <1>1, <1>2
  <1>10. w \in Int
    BY <1>2, Fields
  <1> HIDE DEF w
  <1>8. ThreadOK(R, Lim) /\ Keeps(st[th], R)
    BY <1>2, <1>10, Moves
  <1> HIDE DEF S1, R
  <1>9. Good([S1 EXCEPT ![th] = R], cs, h, Lim)
    <2>1. Keeps(S1[th], R)
      BY <1>7, <1>8
    <2> QED
      BY <1>2, <1>6, <1>8, <2>1, Change
  <1> QED
    BY <1>2, <1>3, <1>9 DEF Ok

\* The start of an error keeps the invariant.
LEMMA OpErrorOk ==
    ASSUME NEW h, Good(st, cs, h, Lim), cs # <<>>, NEW th, OpError(th) \/ lua_error(th)
    PROVE  Ok(st', cs', Lim)
  <1> DEFINE L == st[th]
             x == Raise(th)
  <1>1. /\ th \in Thread /\ th = cs[Len(cs)].th /\ cs[Len(cs)].k \in {"exec", "c", "hook"}
        /\ ThreadOK(L, Lim)
        /\ cs[Len(cs)].k \notin {"call", "throw"} => st[th].ncc < Lim
    <2>1. Running({"exec", "c", "hook"}, th)
      BY DEF OpError, lua_error, Running
    <2> QED
      BY <2>1, Runs
  <1>2. st' = [st EXCEPT ![th] = L] /\ cs' = Append(cs, x)
    BY DEF OpError, lua_error, Become
  <1>3. x \in Act /\ x.k = "raise" /\ x.th = th
    BY <1>1 DEF Raise, Act
  <1> HIDE DEF x
  <1>4. /\ x.k \in {"raise", "throw"}
        /\ x.k = "throw" \/ st[th].ncc < Lim
        /\ cs[Len(cs)].k \in {"call", "resume", "exec", "c", "hook"}
    BY <1>1, <1>3
  <1>5. Keeps(st[th], L)
    BY KeepsSelf
  <1> HIDE DEF L
  <1>6. Ok([st EXCEPT ![th] = L], Append(cs, x), Lim)
    BY <1>1, <1>3, <1>4, <1>5, Raised
  <1> QED
    BY <1>2, <1>6

\* Whether hooks are allowed does not matter to what is counted.
LEMMA HookokMoves ==
    ASSUME NEW L, NEW lim, ThreadOK(L, lim), NEW b \in BOOLEAN
    PROVE  Moved(L, [L EXCEPT !.hookok = b])
  <1> DEFINE L1 == [L EXCEPT !.hookok = b]
  <1>1. L = [status |-> L.status, top |-> L.top, base |-> L.base, last |-> L.last,
             ci |-> L.ci, sizeci |-> L.sizeci, ncc |-> L.ncc, hookok |-> L.hookok,
             errfunc |-> L.errfunc, open |-> L.open]
    BY DEF ThreadOK
  <1>2. L1 = [status |-> L.status, top |-> L.top, base |-> L.base, last |-> L.last,
              ci |-> L.ci, sizeci |-> L.sizeci, ncc |-> L.ncc, hookok |-> b,
              errfunc |-> L.errfunc, open |-> L.open]
    BY <1>1
  <1> HIDE DEF L1
  <1>3. Moved(L, L1)
    BY <1>2, Fields DEF Moved
  <1> QED
    BY <1>3 DEF L1

\* The start of a hook keeps the invariant.
LEMMA HookOk ==
    ASSUME NEW h, Good(st, cs, h, Lim), cs # <<>>, NEW th, Hook(th)
    PROVE  Ok(st', cs', Lim)
  <1> DEFINE L == st[th]
             i == Len(L.ci)
             L1 == checkstack(L, LUA_MINSTACK)
             v == L1.top + LUA_MINSTACK
             L2 == [L1 EXCEPT !.ci[i].top = v]
             L3 == [L2 EXCEPT !.hookok = FALSE]
             x == [k |-> "hook", th |-> th, top |-> L.top, ctop |-> L.ci[i].top]
  <1>1. /\ th \in Thread /\ th = cs[Len(cs)].th /\ cs[Len(cs)].k = "exec"
        /\ ThreadOK(L, Lim) /\ L.status = "ok" /\ i \in 1 .. i /\ L.ncc < Lim
    BY Runs DEF Hook
  <1>2. st' = [st EXCEPT ![th] = [L1 EXCEPT !.hookok = FALSE, !.ci[i].top = v]]
        /\ cs' = Append(cs, x)
    BY DEF Hook, Become
  <1>3. /\ Moved(L, L1) /\ L1.top \in Int /\ ThreadOK(L1, Lim) /\ Keeps(L, L1)
        /\ L1.status = "ok" /\ L1.ci = L.ci
    <2>1. LUA_MINSTACK \in Int
      BY Consts
    <2>2. Moved(L, L1)
      BY <1>1, <2>1, CheckStackMoves
    <2>3. ThreadOK(L1, Lim) /\ Keeps(L, L1)
      BY <1>1, <2>2, MovedKeeps
    <2> QED
      BY <1>1, <2>2, <2>3 DEF Moved
  <1>4. x \in Act /\ x.k = "hook" /\ x.th = th
    <2>1. L.top \in Int /\ L.ci[i].top \in Int
      BY <1>1, Fields
    <2> QED
      BY <1>1, <2>1 DEF Act
  <1>5. v \in Int
    BY <1>3, Consts
  <1> HIDE DEF v, L1, x
  <1>6. ThreadOK(L2, Lim) /\ Keeps(L1, L2)
    <2>1. i = Len(L1.ci) /\ L1.status # "none"
      BY <1>3
    <2> QED
      BY <1>3, <1>5, <2>1, FrameTop
  <1>7. [L1 EXCEPT !.hookok = FALSE, !.ci[i].top = v] = L3
    <2>1. L1 = [status |-> L1.status, top |-> L1.top, base |-> L1.base, last |-> L1.last,
                ci |-> L1.ci, sizeci |-> L1.sizeci, ncc |-> L1.ncc, hookok |-> L1.hookok,
                errfunc |-> L1.errfunc, open |-> L1.open]
      BY <1>3 DEF ThreadOK
    <2> QED
      BY <2>1
  <1> HIDE DEF L2
  <1>8. Moved(L2, L3)
    <2>1. FALSE \in BOOLEAN
      OBVIOUS
    <2> QED
      BY <1>6, <2>1, HookokMoves
  <1>9. ThreadOK(L3, Lim) /\ Keeps(L, L3)
    <2>1. ThreadOK(L3, Lim) /\ Keeps(L2, L3)
      BY <1>6, <1>8, MovedKeeps
    <2> QED
      BY <1>3, <1>6, <2>1, KeepsAll
  <1> HIDE DEF L3
  <1>10. Adds(L, x, L3)
    <2>1. Weight(x) = 0
      BY <1>4 DEF Weight
    <2>2. /\ L3.status = "ok" /\ L3.ncc = L.ncc /\ L3.errfunc = L.errfunc
          /\ Len(L3.ci) = Len(L.ci) /\ KeepsFrames(L, L3, Len(L.ci))
      BY <1>1, <1>9 DEF Keeps
    <2>3. L.ncc \in Nat /\ Len(L.ci) \in Nat
      BY <1>1, Fields
    <2>4. L3.ncc = L.ncc + 0 /\ Len(L3.ci) = Len(L.ci) + 0
      BY <2>2, <2>3
    <2> QED
      BY <1>4, <2>1, <2>2, <2>4 DEF Adds
  <1>11. /\ x.k \notin {"host", "resume"} /\ Above(cs[Len(cs)], x)
         /\ x.k \notin {"call", "throw"} => L3.ncc < Lim
    BY <1>1, <1>4, <1>9 DEF Above, Keeps
  <1>12. Good([st EXCEPT ![th] = L3], Append(cs, x), Append(h, After(h[Len(cs)], x)), Lim)
    BY <1>1, <1>4, <1>9, <1>10, <1>11, Push
  <1> QED
    BY <1>2, <1>7, <1>12 DEF Ok

\* OP_CALL keeps the invariant.
LEMMA OpCallOk ==
    ASSUME NEW h, Good(st, cs, h, Lim), cs # <<>>, NEW th, NEW f \in Fn, NEW nargs \in Int,
           NEW nres \in Int, OpCall(th, f, nargs, nres)
    PROVE  Ok(st', cs', Lim)
  <1>0. PICK func \in FreeRegs(st[th]) :
          LET L == st[th]
              top == IF AtFrameTop(L) THEN func + 1 + nargs ELSE L.top
          IN  Enter(th, luaD_precall([L EXCEPT !.top = top], func, nres, f), cs, f, TRUE)
    BY DEF OpCall
  <1> DEFINE L == st[th]
             top == IF AtFrameTop(L) THEN func + 1 + nargs ELSE L.top
             L1 == [L EXCEPT !.top = top]
             r == luaD_precall(L1, func, nres, f)
  <1>1. /\ th \in Thread /\ th = cs[Len(cs)].th /\ cs[Len(cs)].k = "exec"
        /\ ThreadOK(L, Lim) /\ st[th].ncc < Lim
    BY Runs DEF OpCall
  <1>2. Enter(th, r, cs, f, TRUE)
    BY <1>0
  <1>3. top \in Int /\ func \in Int
    BY <1>1, Fields DEF FreeRegs
  <1> HIDE DEF top
  <1>4. ThreadOK(L1, Lim) /\ Keeps(L, L1)
    BY <1>1, <1>3, Moves
  <1> HIDE DEF L1
  <1>5. r = luaD_precall(L1, func, nres, f)
    OBVIOUS
  <1> HIDE DEF r
  <1>6. \A X : [st EXCEPT ![th] = X] = [st EXCEPT ![th] = X]
    OBVIOUS
  <1>7. TRUE \in BOOLEAN /\ cs[Len(cs)].k # "resume"
    BY <1>1
  <1> QED
    BY <1>1, <1>2, <1>3, <1>4, <1>5, <1>6, <1>7, Entered

\* OP_TAILCALL keeps the invariant: the frame of the callee takes the place of its caller's.
LEMMA OpTailCallOk ==
    ASSUME NEW h, Good(st, cs, h, Lim), cs # <<>>, NEW th, NEW f \in Fn, NEW nargs \in Int,
           OpTailCall(th, f, nargs)
    PROVE  Ok(st', cs', Lim)
  <1>0. PICK func \in FreeRegs(st[th]) :
          LET L == st[th]
              n == Len(L.ci)
              old == LastCI(L)
              p == luaD_precall([L EXCEPT !.top = func + 1 + nargs], func, LUA_MULTRET, f)
              new == LastCI(p.L)
              base == old.func + (new.base - new.func)
              top == old.func + (p.L.top - new.func)
          IN  IF p.err # "no" THEN Enter(th, p, cs, f, TRUE)
              ELSE /\ st' = [st EXCEPT ![th] =
                               [luaF_close(p.L, old.base) EXCEPT
                                  !.base = base, !.top = top,
                                  !.ci = [SubSeq(@, 1, n) EXCEPT
                                            ![n].base = base, ![n].top = top,
                                            ![n].fn = f]]]
                   /\ UNCHANGED cs
    BY DEF OpTailCall
  <1> DEFINE L == st[th]
             n == Len(L.ci)
             v == func + 1 + nargs
             L1 == [L EXCEPT !.top = v]
             nres == LUA_MULTRET
             r == luaD_precall(L1, func, nres, f)
             old == LastCI(L)
             new == LastCI(r.L)
             base == old.func + (new.base - new.func)
             top == old.func + (r.L.top - new.func)
             C == luaF_close(r.L, old.base)
             s == [SubSeq(C.ci, 1, n) EXCEPT ![n].base = base, ![n].top = top, ![n].fn = f]
             L4 == [C EXCEPT !.ci = s, !.base = base, !.top = top]
  <1>1. /\ th \in Thread /\ th = cs[Len(cs)].th /\ cs[Len(cs)].k = "exec"
        /\ ThreadOK(L, Lim) /\ st[th].ncc < Lim /\ n \in 1 .. n /\ L.status = "ok"
    <2>1. Running({"exec"}, th)
      BY DEF OpTailCall
    <2>2. /\ th \in Thread /\ th = cs[Len(cs)].th /\ cs[Len(cs)].k = "exec"
          /\ ThreadOK(st[th], Lim) /\ st[th].ncc < Lim /\ st[th].status = "ok"
          /\ Len(st[th].ci) \in 1 .. Len(st[th].ci)
      BY <2>1, Runs
    <2> QED
      BY <2>2
  <1>2. /\ r.err # "no" => Enter(th, r, cs, f, TRUE)
        /\ r.err = "no" => st' = [st EXCEPT ![th] = L4] /\ cs' = cs
        /\ ~Shape[f].isC
    <2>1. /\ ~Shape[f].isC
          /\ IF r.err # "no" THEN Enter(th, r, cs, f, TRUE)
             ELSE /\ st' = [st EXCEPT ![th] =
                              [luaF_close(r.L, old.base) EXCEPT
                                 !.base = base, !.top = top,
                                 !.ci = [SubSeq(@, 1, n) EXCEPT
                                           ![n].base = base, ![n].top = top,
                                           ![n].fn = f]]]
                  /\ UNCHANGED cs
      BY <1>0 DEF OpTailCall
    <2> HIDE DEF r, old, base, top
    <2>2. [C EXCEPT
             !.base = base, !.top = top,
             !.ci = [SubSeq(@, 1, n) EXCEPT ![n].base = base, ![n].top = top, ![n].fn = f]]
          = [C EXCEPT !.ci = s, !.base = base, !.top = top]
      <3>1. C = [r.L EXCEPT !.open = {l \in r.L.open : l < old.base}]
        BY DEF luaF_close
      <3>2. ASSUME NEW D, NEW q
            PROVE  [D EXCEPT !.base = base, !.top = top, !.ci = q]
                   = [D EXCEPT !.ci = q, !.base = base, !.top = top]
        OBVIOUS
      <3> HIDE DEF C, n, s
      <3>3. [C EXCEPT
               !.base = base, !.top = top,
               !.ci = [SubSeq(@, 1, n) EXCEPT ![n].base = base, ![n].top = top, ![n].fn = f]]
            = [C EXCEPT !.base = base, !.top = top, !.ci = s]
        BY DEF s
      <3> QED
        BY <3>2, <3>3
    <2> QED
      BY <2>1, <2>2
  <1>3. v \in Int /\ func \in Int /\ nres \in Int
    BY <1>1, Fields DEF LUA_MULTRET, FreeRegs
  <1> HIDE DEF v, nres
  <1>4. ThreadOK(L1, Lim) /\ Keeps(L, L1) /\ L1.ci = L.ci /\ L1.status = "ok"
    <2>1. ThreadOK(L1, Lim) /\ Keeps(L, L1)
      BY <1>1, <1>3, Moves
    <2>2. L1.ci = L.ci
      BY <1>1 DEF ThreadOK
    <2> QED
      BY <1>1, <2>1, <2>2 DEF Keeps
  <1> HIDE DEF L1
  <1>5. r = luaD_precall(L1, func, nres, f)
    OBVIOUS
  <1> HIDE DEF r
  <1>6. Entering(L1, r, f, Lim)
    <2>1. L1.status # "none"
      BY <1>4
    <2> QED
      BY <1>3, <1>4, <1>5, <2>1, Precall
  <1>7. CASE r.err # "no"
    <2>1. \A X : [st EXCEPT ![th] = X] = [st EXCEPT ![th] = X]
      OBVIOUS
    <2>2. TRUE \in BOOLEAN /\ cs[Len(cs)].k # "resume" /\ Enter(th, r, cs, f, TRUE)
      BY <1>1, <1>2, <1>7
    <2> QED
      BY <1>1, <1>3, <1>4, <1>5, <2>1, <2>2, Entered
  <1>8. CASE r.err = "no"
    <2>1. PICK g \in CI : g.fn = f /\ r.L.ci = Append(L.ci, g)
      BY <1>4, <1>6, <1>8 DEF Entering
    <2>2. /\ ThreadOK(r.L, Lim) /\ r.L.status = "ok" /\ r.L.ncc = L.ncc
          /\ r.L.errfunc = L.errfunc
      BY <1>4, <1>6 DEF Entering, Keeps
    <2>3. /\ ThreadOK(C, Lim) /\ C.ci = r.L.ci /\ C.status = "ok" /\ C.ncc = L.ncc
          /\ C.errfunc = L.errfunc /\ C.sizeci = r.L.sizeci
      <3>1. Moved(r.L, C)
        BY <2>2, CloseMoves
      <3>2. ThreadOK(C, Lim)
        BY <2>2, <3>1, MovedKeeps
      <3> QED
        BY <2>2, <3>1, <3>2 DEF Moved
    <2>4. /\ L.ci \in Seq(CI) /\ Len(r.L.ci) = n + 1 /\ r.L.ci[n + 1] = g
          /\ \A i \in 1 .. n : r.L.ci[i] = L.ci[i]
          /\ r.L.ci \in Seq(CI)
      <3>1. L.ci \in Seq(CI)
        BY <1>1, Fields
      <3> QED
        BY <2>1, <3>1, Longer
    <2>5. /\ old.func \in Int /\ new.base \in Int /\ new.func \in Int /\ r.L.top \in Int
      <3>1. n + 1 \in 1 .. Len(r.L.ci)
        BY <1>1, <2>4
      <3> QED
        BY <1>1, <2>2, <2>4, <3>1, Fields DEF LastCI
    <2>6. base \in Int /\ top \in Int
      BY <2>5
    <2>7. /\ SubSeq(C.ci, 1, n) \in Seq(CI) /\ Len(SubSeq(C.ci, 1, n)) = n
          /\ \A i \in 1 .. n : SubSeq(C.ci, 1, n)[i] = L.ci[i]
      <3>1. C.ci \in Seq(CI) /\ n \in 0 .. Len(C.ci) /\ \A i \in 1 .. n : C.ci[i] = L.ci[i]
        <4>1. C.ci \in Seq(CI) /\ \A i \in 1 .. n : C.ci[i] = L.ci[i]
          BY <2>3, <2>4
        <4>2. Len(C.ci) = n + 1 /\ n \in Nat
          <5>1. C.ci = r.L.ci
            BY <2>3
          <5>2. Len(r.L.ci) = n + 1
            BY <2>4
          <5>3. n \in Nat
            BY <2>4
          <5> QED
            BY <5>1, <5>2, <5>3
        <4> HIDE DEF n, C
        <4> QED
          BY <4>1, <4>2
      <3> DEFINE d == C.ci
      <3>2. d \in Seq(CI) /\ n \in 0 .. Len(d) /\ \A i \in 1 .. n : d[i] = L.ci[i]
        BY <3>1
      <3> HIDE DEF d, n, C
      <3>3. /\ SubSeq(d, 1, n) \in Seq(CI) /\ Len(SubSeq(d, 1, n)) = n
            /\ \A i \in 1 .. n : SubSeq(d, 1, n)[i] = d[i]
        BY <3>2, Shorter
      <3> QED
        BY <3>2, <3>3 DEF d
    <2> DEFINE q == SubSeq(C.ci, 1, n)
               e == [q[n] EXCEPT !.base = base, !.top = top, !.fn = f]
    <2> HIDE DEF C, base, top, q
    <2>8. s = [q EXCEPT ![n] = e] /\ q \in Seq(CI) /\ Len(q) = n /\ n \in Nat
          /\ \A i \in 1 .. n : q[i] = L.ci[i]
      <3>1. n \in Nat /\ n \in 1 .. n
        BY <1>1, Fields
      <3>2. q \in Seq(CI) /\ Len(q) = n /\ \A i \in 1 .. n : q[i] = L.ci[i]
        BY <2>7 DEF q
      <3>3. q = [i \in 1 .. n |-> q[i]] /\ q[n] \in CI
        BY <3>1, <3>2
      <3>4. s = [q EXCEPT ![n].base = base, ![n].top = top, ![n].fn = f]
        BY DEF q
      <3>5. [q EXCEPT ![n].base = base, ![n].top = top, ![n].fn = f] = [q EXCEPT ![n] = e]
        BY <3>1, <3>3
      <3> QED
        BY <3>1, <3>2, <3>4, <3>5
    <2>9. e \in CI /\ e \in LuaFrame
      <3>1. q[n] \in CI
        <4>1. n \in 1 .. Len(q) /\ q \in Seq(CI)
          BY <1>1, <2>8
        <4> HIDE DEF n
        <4> QED
          BY <4>1
      <3>2. e \in CI /\ e.fn = f
        BY <2>6, <3>1 DEF CI
      <3> QED
        BY <1>2, <3>2 DEF LuaFrame
    <2> HIDE DEF e, s
    <2>10. /\ s \in Seq(CI) /\ Len(s) = n /\ s # <<>> /\ s[n] = e
           /\ \A i \in 1 .. n : i # n => s[i] = L.ci[i]
      BY <1>1, <2>8, <2>9
    <2> DEFINE T == C
    <2>11. Reframed(C, s, base, top, L4, Lim)
      <3>1. Len(s) <= C.sizeci
        <4>1. Len(r.L.ci) <= r.L.sizeci /\ r.L.sizeci \in Nat
          BY <2>2, Fields
        <4>2. Len(s) = n /\ Len(r.L.ci) = n + 1 /\ n \in Nat /\ C.sizeci = r.L.sizeci
          BY <2>3, <2>4, <2>8, <2>10
        <4> HIDE DEF n
        <4> QED
          BY <4>1, <4>2
      <3> QED
        BY <2>3, <2>6, <2>10, <3>1, Framed
    <2>12. /\ ThreadOK(L4, Lim) /\ L4.ci = s /\ L4.status = "ok" /\ L4.ncc = L.ncc
           /\ L4.errfunc = L.errfunc
      BY <2>3, <2>11 DEF Reframed
    <2> HIDE DEF L4
    <2>13. L.ci[n] \in LuaFrame
      <3> DEFINE x == cs[Len(cs)]
      <3>1. x.n \in Nat \ {0} /\ \A i \in n - x.n + 1 .. n : L.ci[i] \in LuaFrame
        <4>1. x \in Act
          BY <1>1, AtTop
        <4> QED
          BY <1>1, <4>1, AtTop, ActFacts
      <3> HIDE DEF x
      <3>2. n \in n - x.n + 1 .. n
        <4> DEFINE d == x.n
        <4>1. n \in Nat /\ d \in Nat \ {0}
          BY <2>8, <3>1
        <4> HIDE DEF n, d
        <4>2. n \in n - d + 1 .. n
          BY <4>1
        <4> QED
          BY <4>2 DEF d
      <3> QED
        BY <3>1, <3>2
    <2>14. KeepsFrames(L, L4, n)
      <3>1. ASSUME NEW i \in 1 .. n
            PROVE  Kin(L.ci[i], L4.ci[i])
        <4>1. CASE i = n
          BY <2>9, <2>10, <2>12, <2>13, <4>1 DEF Kin, LuaFrame, CFrame
        <4>2. CASE i # n
          BY <2>10, <2>12, <4>2 DEF Kin
        <4> QED
          BY <4>1, <4>2
      <3> QED
        BY <3>1 DEF KeepsFrames
    <2>15. Keeps(L, L4)
      BY <1>1, <2>10, <2>12, <2>14 DEF Keeps
    <2>16. st' = [st EXCEPT ![th] = L4] /\ cs' = cs
      BY <1>2, <1>8 DEF L4, C, base, top, s
    <2> QED
      BY <1>1, <2>12, <2>15, <2>16, Stays
  <1> QED
    BY <1>7, <1>8

\* The call of a metamethod keeps the invariant.
LEMMA CallTMOk ==
    ASSUME NEW h, world \in Worlds, Good(st, cs, h, Lim), cs # <<>>, NEW th, NEW f \in Fn,
           CallTM(th, f)
    PROVE  Ok(st', cs', Lim)
  <1> DEFINE L == st[th]
             C == checkstack(L, 3)
             v == C.top + 3
             L1 == [C EXCEPT !.top = v]
             func == L.top
  <1>1. /\ th \in Thread /\ th = cs[Len(cs)].th /\ cs[Len(cs)].k = "exec"
        /\ ThreadOK(L, Lim) /\ st[th].ncc < Lim
    BY Runs DEF CallTM
  <1>2. luaD_call(th, L1, func, 1, f, "tm", cs)
    BY DEF CallTM
  <1>3. ThreadOK(C, Lim) /\ Keeps(L, C) /\ C.top \in Int /\ func \in Int
    <2>1. Moved(L, C)
      BY <1>1, CheckStackMoves
    <2> QED
      BY <1>1, <2>1, MovedKeeps, Fields
  <1>4. v \in Int
    BY <1>3
  <1> HIDE DEF C, v, func
  <1>5. ThreadOK(L1, Lim) /\ Keeps(L, L1)
    <2>1. ThreadOK(L1, Lim) /\ Keeps(C, L1)
      BY <1>3, <1>4, Moves
    <2> QED
      BY <1>3, <2>1, KeepsAll
  <1> HIDE DEF L1
  <1>6. /\ \A X : [st EXCEPT ![th] = X] = [st EXCEPT ![th] = X]
        /\ 1 \in Int /\ "tm" \in {"tm", "api", "handler", "pcall"}
    OBVIOUS
  <1>7. Above(cs[Len(cs)], [k |-> "call", th |-> th, for |-> "tm", nres |-> 1])
    BY <1>1 DEF Above
  <1> QED
    BY <1>1, <1>2, <1>3, <1>5, <1>6, <1>7, Called

\* lua_call keeps the invariant.
LEMMA CallOk ==
    ASSUME NEW h, world \in Worlds, Good(st, cs, h, Lim), cs # <<>>, NEW th, NEW f \in Fn,
           NEW nargs \in Int, NEW nres \in Int, lua_call(th, f, nargs, nres)
    PROVE  Ok(st', cs', Lim)
  <1> DEFINE L == st[th]
             v == L.top + nargs + 1
             L1 == [L EXCEPT !.top = v]
             func == L.top
  <1>1. /\ th \in Thread /\ th = cs[Len(cs)].th /\ cs[Len(cs)].k \in {"c", "host", "hook"}
        /\ ThreadOK(L, Lim) /\ st[th].ncc < Lim
    BY Runs DEF lua_call, InC
  <1>2. luaD_call(th, L1, func, nres, f, "api", cs)
    BY DEF lua_call
  <1>3. v \in Int /\ func \in Int
    BY <1>1, Fields
  <1> HIDE DEF v, func
  <1>4. ThreadOK(L1, Lim) /\ Keeps(L, L1)
    BY <1>1, <1>3, Moves
  <1> HIDE DEF L1
  <1>5. /\ \A X : [st EXCEPT ![th] = X] = [st EXCEPT ![th] = X]
        /\ "api" \in {"tm", "api", "handler", "pcall"}
    OBVIOUS
  <1>6. Above(cs[Len(cs)], [k |-> "call", th |-> th, for |-> "api", nres |-> nres])
    BY <1>1 DEF Above
  <1> QED
    BY <1>1, <1>2, <1>3, <1>4, <1>5, <1>6, Called

\* lua_pcall keeps the invariant: what it saves are the counts of its own mark.
LEMMA PcallOk ==
    ASSUME NEW h, world \in Worlds, Good(st, cs, h, Lim), cs # <<>>, NEW th, NEW f \in Fn,
           NEW nargs \in Int, NEW handler \in BOOLEAN, lua_pcall(th, f, nargs, handler)
    PROVE  Ok(st', cs', Lim)
  <1> DEFINE L == st[th]
             func == L.top + (IF handler THEN 1 ELSE 0)
             v == func + nargs + 1
             e == IF handler THEN L.top ELSE 0
             L1 == [L EXCEPT !.top = v, !.errfunc = e]
             x == [k |-> "pcall", th |-> th, top |-> func, ncc |-> L.ncc,
                   ci |-> Len(L.ci), hookok |-> L.hookok, errfunc |-> L.errfunc]
             c1 == Append(cs, x)
             h1 == Append(h, After(h[Len(cs)], x))
             S1 == [st EXCEPT ![th] = L1]
             nres == LUA_MULTRET
  <1>1. /\ th \in Thread /\ th = cs[Len(cs)].th /\ cs[Len(cs)].k \in {"c", "host", "hook"}
        /\ ThreadOK(L, Lim) /\ st[th].ncc < Lim /\ L.status = "ok" /\ Len(cs) \in Nat \ {0}
    BY Runs DEF lua_pcall, InC
  <1>2. luaD_call(th, L1, func, nres, f, "pcall", c1)
    BY DEF lua_pcall
  <1>3. func \in Int /\ e \in {0, func - 1} /\ e \in Int
    <2>1. L.top \in Int
      BY <1>1, Fields
    <2>2. CASE handler
      BY <2>1, <2>2
    <2>3. CASE ~handler
      BY <2>1, <2>3
    <2> QED
      BY <2>2, <2>3
  <1>4. v \in Int /\ nres \in Int
    BY <1>3 DEF LUA_MULTRET
  <1> HIDE DEF func, e, v, nres
  <1>5. /\ ThreadOK(L1, Lim) /\ L1.status = L.status /\ L1.ncc = L.ncc /\ L1.ci = L.ci
        /\ L1.errfunc = e
    <2> DEFINE L0 == [L EXCEPT !.top = v]
    <2>1. ThreadOK(L0, Lim) /\ Keeps(L, L0) /\ L0.ci = L.ci
      <3>1. ThreadOK(L0, Lim) /\ Keeps(L, L0)
        BY <1>1, <1>4, Moves
      <3>2. L0.ci = L.ci
        BY <1>1 DEF ThreadOK
      <3> QED
        BY <3>1, <3>2
    <2>2. L1 = [L0 EXCEPT !.errfunc = e]
      OBVIOUS
    <2> HIDE DEF L0, L1
    <2>3. ThreadOK(L1, Lim) /\ Handles(L0, L1, e)
      BY <1>3, <2>1, <2>2, Handled
    <2> QED
      BY <2>1, <2>3 DEF Handles, Keeps
  <1>6. x \in Act /\ x.k = "pcall" /\ x.th = th /\ x.ncc = L.ncc /\ x.ci = Len(L.ci)
        /\ x.errfunc = L.errfunc /\ x.top = func
    <2>1. L.ncc \in Nat /\ Len(L.ci) \in Nat /\ L.errfunc \in Int
      BY <1>1, Fields
    <2>2. L.hookok \in BOOLEAN
      BY <1>1 DEF ThreadOK
    <2> QED
      BY <1>1, <1>3, <2>1, <2>2 DEF Act
  <1> HIDE DEF L1, x
  <1>7. Adds(L, x, L1)
    <2>1. Weight(x) = 0 /\ Len(L.ci) \in Nat /\ L.ncc \in Nat
      BY <1>1, <1>6, Fields DEF Weight
    <2>2. Len(L1.ci) = Len(L.ci) + 0 /\ L1.ncc = L.ncc + 0 /\ KeepsFrames(L, L1, Len(L.ci))
      BY <1>5, <2>1 DEF KeepsFrames, Kin
    <2> QED
      BY <1>1, <1>3, <1>5, <1>6, <2>1, <2>2 DEF Adds
  <1>8. Good(S1, c1, h1, Lim)
    <2>1. /\ x.k \notin {"host", "resume"} /\ Above(cs[Len(cs)], x)
          /\ x.k \notin {"call", "throw"} => L1.ncc < Lim
      BY <1>1, <1>5, <1>6 DEF Above
    <2> QED
      BY <1>1, <1>5, <1>6, <1>7, <2>1, Push
  <1>9. c1 # <<>> /\ c1[Len(c1)] = x
    <2>1. cs \in Seq(Act)
      BY Shape1
    <2>2. Len(c1) = Len(cs) + 1 /\ c1[Len(cs) + 1] = x
      BY <1>6, <2>1, Longer
    <2> QED
      BY <1>1, <2>2
  <1>10. /\ S1[th] = L1 /\ \A X : [S1 EXCEPT ![th] = X] = [st EXCEPT ![th] = X]
    <2>1. st = [u \in Thread |-> st[u]]
      BY DEF Good
    <2> QED
      BY <1>1, <2>1
  <1>11. Keeps(S1[th], L1)
    BY <1>10, KeepsSelf
  <1>12. /\ th = c1[Len(c1)].th /\ S1[th].ncc < Lim
         /\ "pcall" \in {"tm", "api", "handler", "pcall"}
         /\ Above(c1[Len(c1)], [k |-> "call", th |-> th, for |-> "pcall", nres |-> nres])
    BY <1>1, <1>5, <1>6, <1>9, <1>10 DEF Above
  <1> HIDE DEF S1, c1, h1
  <1> QED
    <2> DEFINE t == th
    <2>1. /\ Good(S1, c1, h1, Lim) /\ c1 # <<>> /\ t = c1[Len(c1)].th /\ ThreadOK(L1, Lim)
          /\ Keeps(S1[t], L1) /\ S1[t].ncc < Lim /\ func \in Int /\ nres \in Int
          /\ "pcall" \in {"tm", "api", "handler", "pcall"}
          /\ Above(c1[Len(c1)], [k |-> "call", th |-> t, for |-> "pcall", nres |-> nres])
          /\ \A X : [S1 EXCEPT ![t] = X] = [st EXCEPT ![t] = X]
      BY <1>3, <1>4, <1>5, <1>8, <1>9, <1>10, <1>11, <1>12
    <2>2. luaD_call(t, L1, func, nres, f, "pcall", c1)
      BY <1>2
    <2> HIDE DEF t
    <2> QED
      BY <2>1, <2>2, Called

\* A thread is resumed by another one.
LEMMA ResumerIsOther ==
    ASSUME NEW S, NEW c, NEW h, NEW lim, Good(S, c, h, lim), NEW j \in 1 .. Len(c),
           c[j].k = "resume", j - 1 \in 1 .. Len(c)
    PROVE  c[j - 1].th # c[j].th
  <1>1. Apart(c, h) /\ Len(c) \in Nat
    BY Shape1 DEF Good, Struct
  <1>2. j - 1 \in 1 .. j /\ j - 1 # j
    BY <1>1
  <1> QED
    BY <1>1, <1>2 DEF Apart, Starts

\* What is below the activation of a function that returns.
LEMMA FinishOk ==
    ASSUME NEW S, NEW c, NEW h, world \in Worlds, Good(S, c, h, Lim), c # <<>>,
           NEW x, x = c[Len(c)], x.k \in {"call", "resume"}, NEW t, t = x.th,
           NEW L, L = S[t], \A X : [S EXCEPT ![t] = X] = [st EXCEPT ![t] = X],
           Finish(t, L, c)
    PROVE  Ok(st', cs', Lim)
  <1> DEFINE rest == SubSeq(c, 1, Len(c) - 1)
             hr == SubSeq(h, 1, Len(c) - 1)
  <1>1. /\ Len(c) \in Nat \ {0} /\ x \in Act /\ t \in Thread /\ ThreadOK(L, Lim)
        /\ L.status = "ok" /\ L.ncc = h[Len(c)].calls /\ Len(L.ci) = h[Len(c)].frames
        /\ L.errfunc \in {0, h[Len(c)].handler}
    BY AtTop
  <1>2. /\ Len(c) - 1 \in 1 .. Len(c) /\ Above(c[Len(c) - 1], x)
        /\ h[Len(c)] = After(h[Len(c) - 1], x)
    BY BelowTop
  <1>3. S = [u \in Thread |-> S[u]]
    BY DEF Good
  <1>4. CASE x.k = "call"
    <2> DEFINE k == L.ncc - 1
               L1 == [L EXCEPT !.ncc = k]
               L2 == adjustresults(L1, x.nres)
    <2>1. k \in Nat /\ k <= Lim
      <3>1. h[Len(c) - 1].calls \in Nat /\ L.ncc = h[Len(c) - 1].calls + 1
        BY <1>1, <1>2, <1>4, Shape1 DEF After, Starts
      <3>2. L.ncc <= Lim /\ Lim \in Nat
        BY <1>1, Fields, LimIs
      <3> QED
        BY <3>1, <3>2
    <2> HIDE DEF k
    <2>2. ThreadOK(L1, Lim) /\ Counts(L, L1, k)
      BY <1>1, <2>1, Counted
    <2>3. k = L.ncc - 1
      BY DEF k
    <2> HIDE DEF L1
    <2>4. ASSUME NEW M, ThreadOK(M, Lim), Keeps(L1, M)
          PROVE  Good([S EXCEPT ![t] = M], rest, hr, Lim)
      <3>1. Takes(L, x, M)
        <4>1. Weight(x) = 0 /\ Len(L.ci) \in Nat
          BY <1>1, <1>4, Fields DEF Weight
        <4>2. /\ M.status = "ok" /\ M.ncc = L.ncc - 1 /\ M.errfunc = L.errfunc
              /\ Len(M.ci) = Len(L.ci) - 0 /\ KeepsFrames(L, M, Len(M.ci))
          <5>1. M.ncc = L1.ncc /\ L1.ncc = L.ncc - 1
            BY <2>2, <2>3, <2>4 DEF Keeps, Counts
          <5>2. M.status = "ok" /\ M.errfunc = L.errfunc
            BY <1>1, <2>2, <2>4 DEF Keeps, Counts
          <5>3. Len(M.ci) = Len(L.ci) /\ KeepsFrames(L, M, Len(M.ci))
            BY <2>2, <2>4 DEF Keeps, Counts, KeepsFrames
          <5>4. Len(M.ci) = Len(L.ci) - 0
            BY <4>1, <5>3
          <5> QED
            BY <5>1, <5>2, <5>3, <5>4
        <4>3. /\ Len(L.ci) - Weight(x) = Len(L.ci) - 0 /\ x.k # "pcall"
              /\ L.ncc - (IF x.k = "call" THEN 1 ELSE 0) = L.ncc - 1
          BY <1>4, <4>1
        <4> QED
          BY <4>2, <4>3 DEF Takes
      <3> QED
        BY <1>4, <2>4, <3>1, Pop
    <2>5. /\ rest # <<>> /\ rest[Len(rest)] = c[Len(c) - 1] /\ Len(rest) = Len(c) - 1
      BY <1>4, BelowIs
    <2>6. ThreadOK(L2, Lim) /\ Keeps(L1, L2)
      <3>1. L1.status # "none"
        BY <1>1, <2>2 DEF Counts
      <3> QED
        BY <2>2, <3>1, AdjustKeeps
    <2>7. x.for \in {"tm", "api", "handler", "pcall"}
      BY <1>1, <1>4, ActFacts
    <2>8. /\ x.for = "tm" => Become(t, [L1 EXCEPT !.top = @ - 1], rest)
          /\ x.for = "api" => Become(t, L2, rest)
          /\ x.for = "handler" => Become(t, L1, Append(rest, Throw(t, "errrun")))
          /\ x.for = "pcall" => LET p == rest[Len(rest)]
                                IN  Become(t, [L2 EXCEPT !.errfunc = p.errfunc],
                                           SubSeq(rest, 1, Len(rest) - 1))
      BY <1>4 DEF Finish, L1, k
    <2>9. CASE x.for = "tm"
      <3> DEFINE v == L1.top - 1
                 M == [L1 EXCEPT !.top = v]
      <3>1. v \in Int
        BY <2>2, Fields
      <3>2. Become(t, M, rest)
        BY <2>8, <2>9
      <3> HIDE DEF v
      <3>3. ThreadOK(M, Lim) /\ Keeps(L1, M)
        BY <2>2, <3>1, Moves
      <3> HIDE DEF M
      <3>4. Good([S EXCEPT ![t] = M], rest, hr, Lim)
        BY <2>4, <3>3
      <3> QED
        BY <3>2, <3>4 DEF Become, Ok
    <2>10. CASE x.for = "api"
      <3>1. Good([S EXCEPT ![t] = L2], rest, hr, Lim)
        BY <2>4, <2>6
      <3>2. Become(t, L2, rest)
        BY <2>8, <2>10
      <3> HIDE DEF L2, rest, hr
      <3> QED
        BY <3>1, <3>2 DEF Become, Ok
    <2>11. CASE x.for = "handler"
      <3> DEFINE S1 == [S EXCEPT ![t] = L1]
                 y == Throw(t, "errrun")
      <3>1. Good(S1, rest, hr, Lim) /\ S1[t] = L1
        BY <1>1, <1>3, <2>2, <2>4, KeepsSelf
      <3>2. y \in Act /\ y.k = "throw" /\ y.th = t
        BY <1>1 DEF Throw, Act, Dead
      <3>3. /\ t = rest[Len(rest)].th
            /\ rest[Len(rest)].k \in {"call", "resume", "exec", "c", "hook"}
        BY <1>2, <1>4, <2>5, <2>11 DEF Above
      <3>4. Keeps(S1[t], L1)
        BY <3>1, KeepsSelf
      <3>5. [S1 EXCEPT ![t] = L1] = [st EXCEPT ![t] = L1]
        BY <1>1, <1>3
      <3> HIDE DEF S1, y
      <3>6. y.k \in {"raise", "throw"} /\ (y.k = "throw" \/ S1[t].ncc < Lim)
        BY <3>2
      <3>7. Ok([S1 EXCEPT ![t] = L1], Append(rest, y), Lim)
        BY <2>2, <2>5, <3>1, <3>2, <3>3, <3>4, <3>6, Raised
      <3>8. st' = [st EXCEPT ![t] = L1] /\ cs' = Append(rest, y)
        BY <2>8, <2>11 DEF Become, y
      <3> QED
        BY <3>5, <3>7, <3>8
    <2>12. CASE x.for = "pcall"
      <3> DEFINE S2 == [S EXCEPT ![t] = L2]
                 p == rest[Len(rest)]
                 e == p.errfunc
                 M == [L2 EXCEPT !.errfunc = e]
                 r2 == SubSeq(rest, 1, Len(rest) - 1)
      <3>1. Become(t, M, r2)
        BY <2>8, <2>12
      <3>2. Good(S2, rest, hr, Lim) /\ S2[t] = L2
        BY <1>1, <1>3, <2>4, <2>6
      <3>3. p.th = t /\ p.k = "pcall" /\ p \in Act
        <4>1. c[Len(c) - 1] \in Act
          BY <1>2, Shape1
        <4> QED
          BY <1>2, <1>4, <2>5, <2>12, <4>1 DEF Above
      <3>4. e \in Int
        BY <3>3, ActFacts
      <3>5. [S2 EXCEPT ![t] = M] = [st EXCEPT ![t] = M]
        BY <1>1, <1>3
      <3> HIDE DEF e, L2
      <3>6. ThreadOK(M, Lim) /\ Handles(L2, M, e)
        BY <2>6, <3>4, Handled
      <3>7. L2.status = "ok" /\ Len(L2.ci) \in Nat /\ L2.ncc \in Nat
        BY <1>1, <2>2, <2>6, Fields DEF Keeps, Counts
      <3> HIDE DEF M, S2
      <3>8. Takes(S2[t], p, M)
        <4>1. Weight(p) = 0
          BY <3>3 DEF Weight
        <4>2. /\ M.status = "ok" /\ M.ncc = L2.ncc - 0 /\ M.errfunc = p.errfunc
              /\ Len(M.ci) = Len(L2.ci) - 0 /\ KeepsFrames(L2, M, Len(M.ci))
          BY <3>6, <3>7 DEF Handles, KeepsFrames, Kin, e
        <4> QED
          BY <3>2, <3>3, <4>1, <4>2 DEF Takes
      <3>9. p.k \notin {"host", "resume"} /\ t = p.th
        BY <3>3
      <3> HIDE DEF rest, hr, p
      <3>10. /\ rest # <<>> /\ p = rest[Len(rest)]
        BY <2>5 DEF p
      <3>11. Good([S2 EXCEPT ![t] = M], r2, SubSeq(hr, 1, Len(rest) - 1), Lim)
        BY <3>2, <3>6, <3>8, <3>9, <3>10, Pop
      <3> QED
        BY <3>1, <3>5, <3>11 DEF Become, Ok
    <2> QED
      BY <2>7, <2>9, <2>10, <2>11, <2>12
  <1>5. CASE x.k = "resume"
    <2> DEFINE n == L.top - L.base
               v == L.top - n
               M == [L EXCEPT !.top = v]
               S1 == [S EXCEPT ![t] = M]
               by == x.by
               B == Receive(S[by], n)
    <2>1. n \in Int /\ v \in Int
      BY <1>1, Fields
    <2> DEFINE S0 == [st EXCEPT ![t] = M]
    <2>2. st' = [S0 EXCEPT ![by] = Receive(S0[by], n)] /\ cs' = rest
      <3>1. /\ st' = [st EXCEPT ![t] = M, ![by] = Receive(@, n)] /\ cs' = rest
        BY <1>5 DEF Finish
      <3>2. by # t
        <4>1. Len(c) \in 1 .. Len(c) /\ c[Len(c)].k = "resume" /\ c[Len(c)].th = t
          BY <1>1, <1>5
        <4>2. c[Len(c) - 1].th # t
          BY <1>2, <1>5, <4>1, ResumerIsOther
        <4> QED
          BY <1>2, <1>5, <4>2 DEF Above
      <3> QED
        BY <3>1, <3>2
    <2> HIDE DEF n, v
    <2>3. ThreadOK(M, Lim) /\ Keeps(L, M)
      BY <1>1, <2>1, Moves
    <2>4. IdleOK(M)
      <3>1. L.ncc = 0 /\ L.errfunc = 0
        BY <1>1, <1>2, <1>5 DEF After, Starts
      <3> QED
        BY <1>1, <2>3, <3>1 DEF IdleOK, Keeps
    <2> HIDE DEF M
    <2>5. Len(c) \in 1 .. Len(c)
      BY <1>1
    <2>6. /\ by = c[Len(c) - 1].th /\ by # t /\ by \in Thread /\ S[by].status = "ok"
          /\ Good(S1, rest, hr, Lim)
      <3>1. c[Len(c)].k = "resume" /\ t = c[Len(c)].th
        BY <1>5
      <3> QED
        BY <2>3, <2>4, <2>5, <3>1, Leave
    <2>7. S1[by] = S[by] /\ [st EXCEPT ![t] = M] = S1
      BY <1>3, <2>6
    <2>8. st' = [S1 EXCEPT ![by] = B]
      <3>1. S0 = S1
        BY <2>7
      <3> HIDE DEF S1, S0
      <3> QED
        BY <2>2, <2>7, <3>1
    <2>9. ThreadOK(B, Lim) /\ Keeps(S[by], B)
      <3>1. ThreadOK(S[by], Lim)
        BY <2>6 DEF Good
      <3> QED
        BY <2>1, <2>6, <3>1, ReceiveKeeps
    <2> HIDE DEF B, S1, by
    <2>10. Good([S1 EXCEPT ![by] = B], rest, hr, Lim)
      <3>1. Keeps(S1[by], B)
        BY <2>7, <2>9
      <3> QED
        BY <2>6, <2>9, <3>1, Change
    <2> QED
      <3>1. Ok([S1 EXCEPT ![by] = B], rest, Lim)
        BY <2>10, Zenon DEF Ok
      <3> QED
        BY <2>2, <2>8, <3>1
  <1> QED
    BY <1>4, <1>5

\* A hook ends: the top of the stack and of the frame are what they were.
Unhooked(L, M, v, lim) == ThreadOK(M, lim) /\ Keeps(L, M) /\ M.top = v

\* The end of a hook sets two tops back.
LEMMA UnhookKeeps ==
    ASSUME NEW L, NEW lim, ThreadOK(L, lim), L.status # "none", NEW v \in Int, NEW w \in Int,
           NEW M, M = [L EXCEPT !.hookok = TRUE, !.top = v, !.ci[Len(L.ci)].top = w]
    PROVE  Unhooked(L, M, v, lim)
  <1> DEFINE L1 == [L EXCEPT !.hookok = TRUE]
             L2 == [L1 EXCEPT !.top = v]
             L3 == [L2 EXCEPT !.ci[Len(L2.ci)].top = w]
  <1>1. ThreadOK(L1, lim) /\ Keeps(L, L1) /\ L1.ci = L.ci /\ L1.status = L.status
    <2>1. TRUE \in BOOLEAN
      OBVIOUS
    <2>2. Moved(L, L1)
      BY <2>1, HookokMoves
    <2> QED
      BY <2>2, MovedKeeps DEF Moved
  <1>2. ThreadOK(L2, lim) /\ Keeps(L1, L2) /\ L2.ci = L.ci /\ L2.status = L.status
        /\ L2.top = v
    <2> HIDE DEF L1
    <2>1. ThreadOK(L2, lim) /\ Keeps(L1, L2)
      BY <1>1, Moves
    <2>2. L2.ci = L1.ci /\ L2.status = L1.status /\ L2.top = v
      BY <1>1 DEF ThreadOK
    <2> QED
      BY <1>1, <2>1, <2>2
  <1>3. M = L3
    BY <1>2
  <1> HIDE DEF L1, L2
  <1>4. ThreadOK(L3, lim) /\ Keeps(L2, L3) /\ L3.top = L2.top
    BY <1>2, FrameTop
  <1>5. Keeps(L, L3)
    BY <1>1, <1>2, <1>4, KeepsAll
  <1> QED
    BY <1>2, <1>3, <1>4, <1>5 DEF Unhooked

\* An activation ends, with the frame of its function.
LEMMA Returns ==
    ASSUME NEW h, Good(st, cs, h, Lim), cs # <<>>, NEW x, x = cs[Len(cs)],
           x.k = "c" \/ (x.k = "exec" /\ x.n = 1), NEW t, t = x.th, NEW M, ThreadOK(M, Lim),
           M.status = "ok", M.ncc = st[t].ncc, M.errfunc = st[t].errfunc,
           Len(M.ci) = Len(st[t].ci) - 1, \A i \in 1 .. Len(M.ci) : M.ci[i] = st[t].ci[i]
    PROVE  /\ Good([st EXCEPT ![t] = M], Below, SubSeq(h, 1, Len(cs) - 1), Lim)
           /\ Below # <<>> /\ Len(Below) = Len(cs) - 1 /\ Below[Len(Below)] = cs[Len(cs) - 1]
  <1>1. Takes(st[t], x, M)
    <2>1. Weight(x) = 1
      BY DEF Weight
    <2>2. KeepsFrames(st[t], M, Len(M.ci))
      BY DEF KeepsFrames, Kin
    <2>3. ThreadOK(st[t], Lim)
      BY AtTop
    <2>4. st[t].ncc \in Nat
      BY <2>3, Fields
    <2>5. /\ M.ncc = st[t].ncc - (IF x.k = "call" THEN 1 ELSE 0) /\ x.k # "pcall"
          /\ Len(M.ci) = Len(st[t].ci) - Weight(x)
      BY <2>1, <2>4
    <2> QED
      BY <2>2, <2>5 DEF Takes
  <1>2. x.k \notin {"host", "resume"} /\ x.k # "host"
    OBVIOUS
  <1>3. Good([st EXCEPT ![t] = M], SubSeq(cs, 1, Len(cs) - 1), SubSeq(h, 1, Len(cs) - 1), Lim)
    BY <1>1, <1>2, Pop
  <1>4. /\ Below = SubSeq(cs, 1, Len(cs) - 1)
        /\ Below # <<>> /\ Len(Below) = Len(cs) - 1 /\ Below[Len(Below)] = cs[Len(cs) - 1]
    <2>1. Below = SubSeq(cs, 1, Len(cs) - 1)
      BY DEF Below
    <2>2. PICK r : r = Below
      OBVIOUS
    <2>3. r # <<>> /\ Len(r) = Len(cs) - 1 /\ r[Len(r)] = cs[Len(cs) - 1]
      <3>1. r = SubSeq(cs, 1, Len(cs) - 1)
        BY <2>1, <2>2
      <3> QED
        BY ZenonT(60), <1>2, <3>1, BelowIs
    <2> QED
      BY <2>1, <2>2, <2>3
  <1> QED
    BY <1>3, <1>4

\* A function has at least two frames below and at the top.
LEMMA TwoFrames ==
    ASSUME NEW S, NEW c, NEW h, NEW lim, Good(S, c, h, lim), c # <<>>, NEW x, x = c[Len(c)],
           x.k \in {"c", "exec"}, NEW t, t = x.th
    PROVE  /\ Len(S[t].ci) >= Weight(x) + 1 /\ Weight(x) \in Nat \ {0}
           /\ Len(S[t].ci) \in Nat
  <1>1. /\ Len(c) - 1 \in 1 .. Len(c) /\ h[Len(c)] = After(h[Len(c) - 1], x)
        /\ Len(S[t].ci) = h[Len(c)].frames /\ x \in Act
    BY AtTop, BelowTop
  <1>2. h[Len(c) - 1] \in Mark
    BY <1>1, Shape1
  <1>3. h[Len(c) - 1].frames \in Nat \ {0}
    BY <1>2 DEF Mark
  <1>4. x.k = "exec" => x.n \in Nat \ {0}
    BY <1>1, ActFacts
  <1>5. /\ Weight(x) \in Nat \ {0} /\ h[Len(c)].frames = h[Len(c) - 1].frames + Weight(x)
    BY <1>1, <1>4 DEF Weight, After, Starts
  <1> QED
    BY SMTT(30), <1>1, <1>3, <1>5

\* OP_RETURN keeps the invariant, whoever called.
LEMMA OpReturnOk ==
    ASSUME NEW h, world \in Worlds, Good(st, cs, h, Lim), cs # <<>>, NEW th, NEW n \in Int,
           OpReturn(th, n)
    PROVE  Ok(st', cs', Lim)
  <1> DEFINE L == st[th]
             x == cs[Len(cs)]
             v == L.base + n
             L1 == IF AtFrameTop(L) THEN [L EXCEPT !.top = v] ELSE L
             C == luaF_close(L1, L.base)
             first == L.base
             L2 == luaD_poscall(C, first)
             w == LastCI(L2).top
             L3 == IF LastCI(L).nres # LUA_MULTRET THEN [L2 EXCEPT !.top = w] ELSE L2
  <1>1. /\ th \in Thread /\ th = x.th /\ x.k = "exec" /\ x \in Act /\ Len(cs) \in Nat \ {0}
        /\ ThreadOK(L, Lim) /\ L.ncc < Lim /\ L.status = "ok"
    BY Runs DEF OpReturn
  <1>2. /\ x.n = 1 => Finish(th, L2, Below)
        /\ x.n # 1 => Become(th, L3, Append(Below, [x EXCEPT !.n = @ - 1]))
    BY DEF OpReturn, Top
  <1>3. v \in Int /\ first \in Int
    BY <1>1, Fields
  <1> HIDE DEF v, first
  <1>4. ThreadOK(L1, Lim) /\ Keeps(L, L1) /\ L1.ci = L.ci
    <2>1. ThreadOK([L EXCEPT !.top = v], Lim) /\ Keeps(L, [L EXCEPT !.top = v])
      BY <1>1, <1>3, Moves
    <2>2. [L EXCEPT !.top = v].ci = L.ci
      BY <1>1 DEF ThreadOK
    <2> QED
      BY <1>1, <2>1, <2>2, KeepsSelf
  <1> HIDE DEF L1
  <1>5. /\ ThreadOK(C, Lim) /\ C.ci = L.ci /\ C.status = "ok" /\ C.ncc = L.ncc
        /\ C.errfunc = L.errfunc
    <2>1. Moved(L1, C)
      BY <1>4, CloseMoves
    <2>2. ThreadOK(C, Lim)
      BY <1>4, <2>1, MovedKeeps
    <2>3. C.ci = L1.ci /\ C.status = L1.status /\ C.ncc = L1.ncc /\ C.errfunc = L1.errfunc
      BY <2>1 DEF Moved
    <2>4. L1.status = L.status /\ L1.ncc = L.ncc /\ L1.errfunc = L.errfunc
      BY <1>4 DEF Keeps
    <2> QED
      BY <1>1, <1>4, <2>2, <2>3, <2>4
  <1> HIDE DEF C
  <1>6. Len(L.ci) >= Weight(x) + 1 /\ Weight(x) \in Nat \ {0} /\ Len(L.ci) \in Nat
    BY <1>1, TwoFrames
  <1>7. /\ ThreadOK(L2, Lim) /\ L2.status = "ok" /\ L2.ncc = L.ncc
        /\ L2.errfunc = L.errfunc
        /\ Len(L2.ci) = Len(L.ci) - 1 /\ \A i \in 1 .. Len(L2.ci) : L2.ci[i] = L.ci[i]
    <2>1. Len(C.ci) >= 2
      BY <1>5, <1>6
    <2>2. /\ ThreadOK(L2, Lim) /\ L2.status = C.status /\ L2.ncc = C.ncc
          /\ L2.errfunc = C.errfunc /\ Len(L2.ci) = Len(C.ci) - 1
          /\ \A i \in 1 .. Len(L2.ci) : L2.ci[i] = C.ci[i]
      BY SMTT(30), <1>3, <1>5, <2>1, Poscall
    <2> HIDE DEF L2
    <2> QED
      BY <1>5, <2>2
  <1> HIDE DEF L2
  <1>8. CASE x.n = 1
    <2> DEFINE S1 == [st EXCEPT ![th] = L2]
               h1 == SubSeq(h, 1, Len(cs) - 1)
    <2>1. /\ Good(S1, Below, h1, Lim)
          /\ Below # <<>> /\ Len(Below) = Len(cs) - 1 /\ Below[Len(Below)] = cs[Len(cs) - 1]
      BY <1>1, <1>7, <1>8, Returns
    <2>2. /\ cs[Len(cs) - 1].k \in {"call", "resume"} /\ cs[Len(cs) - 1].th = th
      <3>1. Above(cs[Len(cs) - 1], x)
        BY <1>1, BelowTop
      <3> QED
        BY <1>1, <3>1 DEF Above
    <2>3. L2 = S1[th] /\ \A X : [S1 EXCEPT ![th] = X] = [st EXCEPT ![th] = X]
      <3>1. st = [u \in Thread |-> st[u]]
        BY DEF Good
      <3> QED
        BY <1>1, <3>1
    <2> HIDE DEF S1, h1
    <2>4. /\ Below[Len(Below)].k \in {"call", "resume"} /\ th = Below[Len(Below)].th
          /\ Finish(th, L2, Below)
      BY <1>2, <1>8, <2>1, <2>2
    <2> QED
      BY <2>1, <2>3, <2>4, FinishOk
  <1>9. CASE x.n # 1
    <2> DEFINE d == x.n - 1
    <2>1. x.n \in Nat \ {0} /\ d \in Nat \ {0} /\ Weight(x) = x.n
      <3>1. x.n \in Nat \ {0}
        BY <1>1, ActFacts
      <3> QED
        BY <1>1, <1>9, <3>1 DEF Weight
    <2>2. w \in Int
      <3>1. Len(L2.ci) \in 1 .. Len(L2.ci)
        BY <1>7, Fields
      <3> QED
        BY <1>7, <3>1, Fields DEF LastCI
    <2> HIDE DEF w
    <2>3. /\ ThreadOK(L3, Lim) /\ L3.status = "ok" /\ L3.ncc = L.ncc
          /\ L3.errfunc = L.errfunc /\ L3.ci = L2.ci
      <3> DEFINE M == [L2 EXCEPT !.top = w]
      <3>1. ThreadOK(M, Lim) /\ Keeps(L2, M)
        BY <1>7, <2>2, Moves
      <3>2. M.ci = L2.ci
        BY <1>7 DEF ThreadOK
      <3> HIDE DEF M
      <3>3. L3 = M \/ L3 = L2
        BY DEF M
      <3> QED
        BY <1>7, <3>1, <3>2, <3>3 DEF Keeps
    <2> HIDE DEF L3
    <2>4. Len(L3.ci) = Len(L.ci) - x.n + d
      <3> DEFINE a == Len(L.ci)
                 b == x.n
      <3>1. a \in Nat /\ b \in Nat /\ Len(L3.ci) = a - 1
        BY <1>6, <1>7, <2>1, <2>3
      <3> HIDE DEF a, b
      <3>2. a - 1 = a - b + (b - 1)
        BY <3>1
      <3> QED
        BY <3>1, <3>2 DEF a, b
    <2>5. KeepsFrames(L, L3, Len(L.ci) - x.n)
      <3>1. ASSUME NEW i \in 1 .. Len(L.ci) - x.n
            PROVE  Kin(L.ci[i], L3.ci[i])
        <4>1. i \in 1 .. Len(L2.ci)
          <5> DEFINE a == Len(L.ci)
                     b == x.n
          <5>1. a \in Nat /\ b \in Nat \ {0} /\ Len(L2.ci) = a - 1 /\ i \in 1 .. a - b
            BY <1>6, <1>7, <2>1
          <5> HIDE DEF a, b
          <5>2. i \in 1 .. a - 1
            BY <5>1
          <5> QED
            BY <5>1, <5>2
        <4> QED
          BY <1>7, <2>3, <4>1 DEF Kin
      <3> QED
        BY <3>1 DEF KeepsFrames
    <2>6. \A i \in Len(L3.ci) - d + 1 .. Len(L3.ci) : L3.ci[i] \in LuaFrame
      <3>1. \A i \in Len(L.ci) - x.n + 1 .. Len(L.ci) : L.ci[i] \in LuaFrame
        BY <1>1, AtTop
      <3>2. ASSUME NEW i \in Len(L3.ci) - d + 1 .. Len(L3.ci)
            PROVE  i \in Len(L.ci) - x.n + 1 .. Len(L.ci) /\ i \in 1 .. Len(L2.ci)
        <4> DEFINE a == Len(L.ci)
                   b == x.n
        <4>3. a \in Nat /\ b \in Nat \ {0} /\ b < a
          BY <1>6, <2>1
        <4>4. Len(L3.ci) = a - 1 /\ Len(L2.ci) = a - 1 /\ d = b - 1
          BY <1>7, <2>3
        <4>5. i \in (a - 1) - (b - 1) + 1 .. a - 1
          BY <4>4
        <4>1. /\ a \in Nat /\ b \in Nat \ {0} /\ b < a
              /\ i \in (a - 1) - (b - 1) + 1 .. a - 1 /\ Len(L2.ci) = a - 1
          BY <4>3, <4>4, <4>5
        <4> HIDE DEF a, b
        <4>2. i \in a - b + 1 .. a /\ i \in 1 .. a - 1
          BY <4>1
        <4> QED
          BY <4>1, <4>2 DEF a, b
      <3> QED
        BY <1>7, <2>3, <3>1, <3>2
    <2> HIDE DEF d
    <2>7. Ok([st EXCEPT ![th] = L3], Append(SubSeq(cs, 1, Len(cs) - 1), [x EXCEPT !.n = d]), Lim)
      BY <1>1, <2>1, <2>3, <2>4, <2>5, <2>6, Replace
    <2>8. st' = [st EXCEPT ![th] = L3] /\ cs' = Append(Below, [x EXCEPT !.n = d])
      BY <1>2, <1>9 DEF Become, d
    <2> QED
      BY <2>7, <2>8 DEF Below
  <1> QED
    BY <1>8, <1>9

\* The return of a C function keeps the invariant, whoever called.
LEMMA CReturnOk ==
    ASSUME NEW h, world \in Worlds, Good(st, cs, h, Lim), cs # <<>>, NEW th, NEW n \in Int,
           CReturn(th, n)
    PROVE  Ok(st', cs', Lim)
  <1> DEFINE L == st[th]
             x == cs[Len(cs)]
             first == L.top - n
             L1 == luaD_poscall(L, first)
             v == LastCI(L1).top
             L2 == IF LastCI(L).nres >= 0 THEN [L1 EXCEPT !.top = v] ELSE L1
             M == [L EXCEPT !.hookok = TRUE, !.top = x.top, !.ci[Len(L.ci)].top = x.ctop]
  <1>1. /\ \/ /\ Running({"c"}, th)
              /\ IF cs[Len(cs) - 1].k = "exec" THEN Become(th, L2, Below)
                 ELSE Finish(th, L1, Below)
           \/ Running({"hook"}, th) /\ Become(th, M, Below)
    BY DEF CReturn, Top
  <1>2. /\ th \in Thread /\ th = x.th /\ x.k \in {"c", "hook"} /\ x \in Act
        /\ Len(cs) \in Nat \ {0} /\ ThreadOK(L, Lim) /\ L.status = "ok"
    <2>1. Running({"c", "hook"}, th)
      BY <1>1 DEF Running
    <2> QED
      BY <2>1, Runs
  <1>3. x.k = "c" => IF cs[Len(cs) - 1].k = "exec" THEN Become(th, L2, Below)
                     ELSE Finish(th, L1, Below)
    BY <1>1 DEF Running, Top
  <1>4. x.k = "hook" => Become(th, M, Below)
    BY <1>1 DEF Running, Top
  <1>5. CASE x.k = "c"
    <2>1. Len(L.ci) >= 2
      <3>1. Len(L.ci) >= Weight(x) + 1 /\ Weight(x) \in Nat \ {0} /\ Len(L.ci) \in Nat
        BY <1>2, <1>5, TwoFrames
      <3> QED
        BY <3>1
    <2>2. first \in Int
      BY <1>2, Fields
    <2> HIDE DEF first
    <2>3. /\ ThreadOK(L1, Lim) /\ L1.status = "ok" /\ L1.ncc = L.ncc
          /\ L1.errfunc = L.errfunc
          /\ Len(L1.ci) = Len(L.ci) - 1 /\ \A i \in 1 .. Len(L1.ci) : L1.ci[i] = L.ci[i]
      BY <1>2, <2>1, <2>2, Poscall
    <2> HIDE DEF L1
    <2>4. Above(cs[Len(cs) - 1], x)
      BY <1>2, BelowTop
    <2>5. CASE cs[Len(cs) - 1].k = "exec"
      <3>1. v \in Int
        <4>1. Len(L1.ci) \in 1 .. Len(L1.ci)
          BY <2>3, Fields
        <4> QED
          BY <2>3, <4>1, Fields DEF LastCI
      <3> HIDE DEF v
      <3>2. /\ ThreadOK(L2, Lim) /\ L2.status = "ok" /\ L2.ncc = L.ncc
            /\ L2.errfunc = L.errfunc /\ L2.ci = L1.ci
        <4> DEFINE K == [L1 EXCEPT !.top = v]
        <4>1. ThreadOK(K, Lim) /\ Keeps(L1, K)
          BY <2>3, <3>1, Moves
        <4>2. K.ci = L1.ci
          BY <2>3 DEF ThreadOK
        <4> HIDE DEF K
        <4>3. L2 = K \/ L2 = L1
          BY DEF K
        <4> QED
          BY <2>3, <4>1, <4>2, <4>3 DEF Keeps
      <3> HIDE DEF L2
      <3>3. /\ Len(L2.ci) = Len(L.ci) - 1 /\ \A i \in 1 .. Len(L2.ci) : L2.ci[i] = L.ci[i]
        BY <2>3, <3>2
      <3>4. Good([st EXCEPT ![th] = L2], Below, SubSeq(h, 1, Len(cs) - 1), Lim)
        BY <1>2, <1>5, <3>2, <3>3, Returns
      <3> QED
        BY <1>3, <1>5, <2>5, <3>4 DEF Become, Ok
    <2>6. CASE cs[Len(cs) - 1].k # "exec"
      <3> DEFINE S1 == [st EXCEPT ![th] = L1]
                 h1 == SubSeq(h, 1, Len(cs) - 1)
      <3>1. /\ Good(S1, Below, h1, Lim)
            /\ Below # <<>> /\ Len(Below) = Len(cs) - 1 /\ Below[Len(Below)] = cs[Len(cs) - 1]
        BY <1>2, <1>5, <2>3, Returns
      <3>2. L1 = S1[th] /\ \A X : [S1 EXCEPT ![th] = X] = [st EXCEPT ![th] = X]
        <4>1. st = [u \in Thread |-> st[u]]
          BY DEF Good
        <4> QED
          BY <1>2, <4>1
      <3> HIDE DEF S1, h1
      <3>3. /\ Below[Len(Below)].k \in {"call", "resume"} /\ th = Below[Len(Below)].th
            /\ Finish(th, L1, Below)
        BY <1>2, <1>3, <1>5, <2>4, <2>6, <3>1 DEF Above
      <3> QED
        BY <3>1, <3>2, <3>3, FinishOk
    <2> QED
      BY <2>5, <2>6
  <1>6. CASE x.k = "hook"
    <2>1. x.top \in Int /\ x.ctop \in Int
      BY <1>2, <1>6, ActFacts
    <2> DEFINE v1 == x.top
               w1 == x.ctop
    <2>5. M = [L EXCEPT !.hookok = TRUE, !.top = v1, !.ci[Len(L.ci)].top = w1]
          /\ v1 \in Int /\ w1 \in Int /\ L.status # "none"
      BY <1>2, <2>1
    <2> HIDE DEF M, v1, w1
    <2>6. Unhooked(L, M, v1, Lim)
      BY <1>2, <2>5, UnhookKeeps
    <2>2. ThreadOK(M, Lim) /\ Keeps(L, M)
      BY <2>6 DEF Unhooked
    <2>3. Takes(L, x, M)
      <3>1. Weight(x) = 0 /\ L.ncc \in Nat /\ Len(L.ci) \in Nat
        BY <1>2, <1>6, Fields DEF Weight
      <3>2. /\ M.status = "ok" /\ M.ncc = L.ncc /\ M.errfunc = L.errfunc
            /\ Len(M.ci) = Len(L.ci) /\ KeepsFrames(L, M, Len(M.ci))
        BY <1>2, <2>2 DEF Keeps
      <3>3. /\ M.ncc = L.ncc - (IF x.k = "call" THEN 1 ELSE 0) /\ x.k # "pcall"
            /\ Len(M.ci) = Len(L.ci) - Weight(x)
        BY <1>6, <3>1, <3>2
      <3> QED
        BY <3>2, <3>3 DEF Takes
    <2>4. Good([st EXCEPT ![th] = M], SubSeq(cs, 1, Len(cs) - 1), SubSeq(h, 1, Len(cs) - 1), Lim)
      <3>1. x.k \notin {"host", "resume"}
        BY <1>6
      <3> QED
        BY <1>2, <2>2, <2>3, <3>1, Pop
    <2> QED
      BY <1>4, <1>6, <2>4 DEF Become, Ok, Below
  <1> QED
    BY <1>2, <1>5, <1>6

------------------------------------------------------------------------------
(* Coroutines and errors *)

\* A set of numbers has a least one.
LEMMA Least ==
    ASSUME NEW T \in SUBSET Nat, T # {}
    PROVE  \E x \in T : \A y \in T : x <= y
  <1>1. \E x \in T : \A y \in T : ~(<<y, x>> \in OpToRel(<, Nat))
    BY NatLessThanWellFounded, WFMin, Zenon
  <1>2. PICK x \in T : \A y \in T : ~(<<y, x>> \in OpToRel(<, Nat))
    BY <1>1, Zenon
  <1>3. \A y \in T : ~(y < x)
    BY <1>2, Zenon DEF OpToRel
  <1> QED
    BY <1>3

\* The entries of a thread begin with one of the host program or of lua_resume.
LEMMA FirstEntry ==
    ASSUME NEW S, NEW c, NEW h, NEW lim, Good(S, c, h, lim), NEW t, In(c, t)
    PROVE  \E j \in 1 .. Len(c) : /\ c[j].th = t /\ Starts(c[j])
                                  /\ \A i \in 1 .. Len(c) : c[i].th = t => j <= i
  <1> DEFINE T == {j \in 1 .. Len(c) : c[j].th = t}
  <1>1. Len(c) \in Nat /\ T \in SUBSET Nat /\ T # {}
    BY Shape1 DEF In
  <1>2. PICK j \in T : \A i \in T : j <= i
    BY <1>1, Least
  <1>3. Starts(c[j])
    <2>1. CASE j = 1
      BY <1>2, <2>1 DEF Good, Struct, Shaped, Starts
    <2>2. CASE j # 1
      <3>1. j \in 2 .. Len(c) /\ j - 1 \in 1 .. Len(c) /\ ~(j <= j - 1)
        BY <1>1, <2>2
      <3>2. Above(c[j - 1], c[j])
        BY <3>1 DEF Good, Struct, Shaped
      <3>3. c[j - 1].th # t
        BY <1>2, <3>1
      <3> QED
        BY <1>2, <3>2, <3>3 DEF Above, Starts
    <2> QED
      BY <2>1, <2>2
  <1> QED
    BY <1>2, <1>3

\* A coroutine under way has more than its first frame when an API function is called.
LEMMA NotStartable ==
    ASSUME NEW S, NEW c, NEW h, NEW lim, Good(S, c, h, lim), c # <<>>,
           c[Len(c)].k \in {"c", "host", "hook"}, NEW t \in Thread, t # Main, In(c, t)
    PROVE  Len(S[t].ci) # 1
  <1>1. PICK j \in 1 .. Len(c) : c[j].th = t /\ Starts(c[j])
    BY FirstEntry
  <1>2. /\ c \in Seq(Act) /\ Len(c) \in Nat \ {0} /\ c[1] = [k |-> "host", th |-> Main]
        /\ \A i \in 2 .. Len(c) : /\ c[i].k # "host" /\ Above(c[i - 1], c[i])
                                  /\ h[i] = After(h[i - 1], c[i])
    BY Shape1 DEF Good, Struct, Shaped
  <1>3. j # 1 /\ c[j].k = "resume"
    BY <1>1, <1>2 DEF Starts
  <1>4. j \in 1 .. Len(c) /\ j # Len(c)
    BY <1>3
  <1>5. j + 1 \in 2 .. Len(c) /\ (j + 1) - 1 = j
    BY <1>2, <1>4
  <1>6. Above(c[j], c[j + 1]) /\ h[j + 1] = After(h[j], c[j + 1])
    BY <1>2, <1>5
  <1>7. c[j + 1] \in Act /\ h[j] \in Mark
    BY <1>1, <1>5, Shape1
  <1>8. c[j + 1].k \in {"exec", "raise", "throw"}
    <2>1. c[j + 1].k \in {"host", "c", "raise", "throw", "hook", "exec", "call", "pcall", "resume"}
      BY <1>7, ActFacts
    <2>2. c[j + 1].k # "host"
      BY <1>2, <1>5
    <2>3. c[j + 1].k = "call" => c[j + 1].for \in {"tm", "api", "handler", "pcall"}
      BY <1>7, ActFacts
    <2>4. c[j + 1].k # "call"
      BY <1>3, <1>6, <2>3 DEF Above
    <2> QED
      BY <1>3, <1>6, <2>1, <2>2, <2>4 DEF Above
  <1>9. CASE c[j + 1].k \in {"raise", "throw"}
    <2>1. j + 1 # Len(c)
      BY <1>9
    <2>2. j + 2 \in 2 .. Len(c) /\ (j + 2) - 1 = j + 1 /\ j + 2 \in 1 .. Len(c)
      BY <1>2, <1>5, <2>1
    <2>3. Above(c[j + 1], c[j + 2]) /\ c[j + 2] \in Act /\ c[j + 2].k # "host"
      BY <1>2, <2>2, Shape1
    <2>4. c[j + 2].k \in {"host", "c", "raise", "throw", "hook", "exec", "call", "pcall", "resume"}
      BY <2>3, ActFacts
    <2>5. c[j + 2].k = "call" => c[j + 2].for \in {"tm", "api", "handler", "pcall"}
      BY <2>3, ActFacts
    <2>6. c[j + 2].k # "call"
      BY <1>9, <2>3, <2>5 DEF Above
    <2>7. c[j + 2].k \notin {"c", "hook", "exec"}
      BY <1>9, <2>3 DEF Above
    <2>8. c[j + 2].k \notin {"raise", "throw", "pcall", "resume"}
      BY <1>9, <2>3 DEF Above
    <2> QED
      BY <2>3, <2>4, <2>6, <2>7, <2>8
  <1>10. CASE c[j + 1].k = "exec"
    <2>1. c[j + 1].n \in Nat \ {0} /\ c[j + 1].th = t
      BY <1>1, <1>6, <1>7, <1>10, ActFacts DEF Above
    <2>2. h[j].frames \in Nat \ {0}
      BY <1>7 DEF Mark
    <2>3. h[j + 1].frames = h[j].frames + c[j + 1].n
      BY <1>6, <1>10 DEF After, Starts
    <2>4. h[j + 1].frames <= Len(S[t].ci)
      <3>1. j + 1 \in 1 .. Len(c)
        BY <1>5
      <3> QED
        BY <2>1, <3>1 DEF Good, LiveOK, Agrees
    <2> DEFINE n == Len(S[t].ci)
               p == c[j + 1].n
               q == h[j].frames
               r == h[j + 1].frames
    <2>5. n \in Nat
      BY Fields DEF Good
    <2> HIDE DEF n, p, q, r
    <2>6. p \in Nat \ {0} /\ q \in Nat \ {0} /\ r = q + p /\ r <= n
      BY <2>1, <2>2, <2>3, <2>4 DEF n, p, q, r
    <2>7. n # 1
      BY <2>5, <2>6
    <2> QED
      BY <2>7 DEF n
  <1> QED
    BY <1>8, <1>9, <1>10

\* Another status.
Statused(L, M, s) ==
    /\ M.status = s /\ M.ci = L.ci /\ M.top = L.top /\ M.base = L.base
    /\ M.ncc = L.ncc /\ M.errfunc = L.errfunc

\* The status of a thread replaced.
LEMMA StatusIs ==
    ASSUME NEW L, NEW lim, ThreadOK(L, lim), L.ci # <<>>, NEW s \in {"ok", "yield"} \cup Dead
    PROVE  ThreadOK([L EXCEPT !.status = s], lim) /\ Statused(L, [L EXCEPT !.status = s], s)
  <1> DEFINE L1 == [L EXCEPT !.status = s]
  <1>1. L = [status |-> L.status, top |-> L.top, base |-> L.base, last |-> L.last,
             ci |-> L.ci, sizeci |-> L.sizeci, ncc |-> L.ncc, hookok |-> L.hookok,
             errfunc |-> L.errfunc, open |-> L.open]
    BY DEF ThreadOK
  <1>2. L1 = [status |-> s, top |-> L.top, base |-> L.base, last |-> L.last,
              ci |-> L.ci, sizeci |-> L.sizeci, ncc |-> L.ncc, hookok |-> L.hookok,
              errfunc |-> L.errfunc, open |-> L.open]
    BY <1>1
  <1> HIDE DEF L1
  <1>3. /\ L1 = [status |-> L1.status, top |-> L1.top, base |-> L1.base, last |-> L1.last,
                 ci |-> L1.ci, sizeci |-> L1.sizeci, ncc |-> L1.ncc, hookok |-> L1.hookok,
                 errfunc |-> L1.errfunc, open |-> L1.open]
        /\ L1.status = s /\ L1.top = L.top /\ L1.base = L.base /\ L1.last = L.last
        /\ L1.ci = L.ci /\ L1.sizeci = L.sizeci /\ L1.ncc = L.ncc
        /\ L1.errfunc = L.errfunc /\ L1.hookok = L.hookok
    BY <1>2
  <1>4. /\ s \in {"none", "ok", "yield"} \cup Dead /\ L.hookok \in BOOLEAN
        /\ L.top \in Int /\ L.base \in Int /\ L.errfunc \in Int /\ L.last \in Int
        /\ L.ci \in Seq(CI) /\ L.ncc \in Nat /\ L.ncc <= lim /\ L.sizeci \in Nat
        /\ Len(L.ci) <= L.sizeci /\ L.sizeci <= 2 * LUAI_MAXCALLS
    BY DEF ThreadOK
  <1>5. ThreadOK(L1, lim)
    BY <1>3, <1>4 DEF ThreadOK
  <1>6. Statused(L, L1, s)
    BY <1>3 DEF Statused
  <1> QED
    BY <1>5, <1>6 DEF L1

\* Another base and top.
LEMMA Bases ==
    ASSUME NEW L, NEW lim, ThreadOK(L, lim), NEW b \in Int, NEW v \in Int,
           NEW M, M = [L EXCEPT !.base = b, !.top = v]
    PROVE  Moved(L, M)
  <1>1. L = [status |-> L.status, top |-> L.top, base |-> L.base, last |-> L.last,
             ci |-> L.ci, sizeci |-> L.sizeci, ncc |-> L.ncc, hookok |-> L.hookok,
             errfunc |-> L.errfunc, open |-> L.open]
    BY DEF ThreadOK
  <1>2. M = [status |-> L.status, top |-> v, base |-> b, last |-> L.last,
             ci |-> L.ci, sizeci |-> L.sizeci, ncc |-> L.ncc, hookok |-> L.hookok,
             errfunc |-> L.errfunc, open |-> L.open]
    BY <1>1
  <1>3. L.last \in Int /\ L.hookok \in BOOLEAN
    BY Fields
  <1> QED
    BY <1>2, <1>3 DEF Moved

\* A thread that is not under way, with other positions.
LEMMA IdleKeeps ==
    ASSUME NEW L, NEW lim, ThreadOK(L, lim), IdleOK(L), NEW M, Keeps(L, M)
    PROVE  IdleOK(M)
  <1>1. /\ M.status = L.status /\ M.ncc = L.ncc /\ M.errfunc = L.errfunc
        /\ Len(M.ci) = Len(L.ci) /\ \A i \in 1 .. Len(L.ci) : Kin(L.ci[i], M.ci[i])
    BY DEF Keeps, KeepsFrames
  <1>2. ASSUME M.status = "yield"
        PROVE  /\ Len(M.ci) >= 2
               /\ \A i \in 2 .. Len(M.ci) - 1 : M.ci[i] \in LuaFrame
               /\ \/ M.ci[Len(M.ci)] \in LuaFrame
                  \/ (M.ci[Len(M.ci)] \in CFrame /\ Len(M.ci) >= 3)
    <2> DEFINE n == Len(L.ci)
    <2>1. /\ n \in Nat /\ n >= 2 /\ \A i \in 2 .. n - 1 : L.ci[i] \in LuaFrame
          /\ L.ci[n] \in LuaFrame \/ (L.ci[n] \in CFrame /\ n >= 3)
      BY <1>1, <1>2, Fields DEF IdleOK
    <2>2. Len(M.ci) = n /\ \A i \in 1 .. n : Kin(L.ci[i], M.ci[i])
      BY <1>1
    <2> HIDE DEF n
    <2>3. n \in 1 .. n /\ \A i \in 2 .. n - 1 : i \in 1 .. n
      BY <2>1
    <2> QED
      BY <2>1, <2>2, <2>3 DEF Kin
  <1> QED
    BY <1>1, <1>2 DEF IdleOK

\* A coroutine that yielded goes on in Lua.
LEMMA ResumedIs ==
    ASSUME NEW C, NEW lim, ThreadOK(C, lim), IdleOK(C), C.status = "yield", NEW n \in Int,
           NEW M, M = Resumed(C, n)
    PROVE  /\ ThreadOK(M, lim) /\ M.status = "ok" /\ M.ncc = 0 /\ M.errfunc = 0
           /\ Len(M.ci) - 1 \in Nat \ {0} /\ \A i \in 2 .. Len(M.ci) : M.ci[i] \in LuaFrame
  <1> DEFINE y == LastCI(C)
             first == C.top - n
             P == luaD_poscall(C, first)
             k == Len(C.ci)
  <1>1. /\ C.ncc = 0 /\ C.errfunc = 0 /\ k >= 2 /\ k \in Nat
        /\ \A i \in 2 .. k - 1 : C.ci[i] \in LuaFrame
        /\ C.ci[k] \in LuaFrame \/ (C.ci[k] \in CFrame /\ k >= 3)
        /\ y = C.ci[k] /\ C.ci # <<>>
    BY Fields DEF IdleOK, LastCI
  <1>2. /\ Shape[y.fn].isC =>
             M = [P EXCEPT !.status = "ok",
                           !.top = IF y.nres # LUA_MULTRET THEN LastCI(P).top ELSE P.top]
        /\ ~Shape[y.fn].isC => M = [C EXCEPT !.status = "ok", !.base = y.base]
    BY DEF Resumed
  <1>3. CASE Shape[y.fn].isC
    <2>1. k >= 3
      BY <1>1, <1>3 DEF LuaFrame
    <2>2. first \in Int
      BY Fields
    <2> HIDE DEF first
    <2>3. /\ ThreadOK(P, lim) /\ P.status = "yield" /\ P.ncc = 0 /\ P.errfunc = 0
          /\ Len(P.ci) = k - 1 /\ \A i \in 1 .. k - 1 : P.ci[i] = C.ci[i]
      <3>1. Len(C.ci) >= 2
        BY <1>1
      <3>2. /\ ThreadOK(P, lim) /\ P.status = C.status /\ P.ncc = C.ncc
            /\ P.errfunc = C.errfunc
            /\ Len(P.ci) = Len(C.ci) - 1 /\ \A i \in 1 .. Len(P.ci) : P.ci[i] = C.ci[i]
        BY <2>2, <3>1, Poscall
      <3> QED
        BY <1>1, <3>2
    <2> DEFINE v == IF y.nres # LUA_MULTRET THEN LastCI(P).top ELSE P.top
               Q == [P EXCEPT !.status = "ok"]
    <2> HIDE DEF P, k
    <2>4. M = [Q EXCEPT !.top = v]
      BY <1>2, <1>3
    <2>5. v \in Int
      <3>1. Len(P.ci) \in 1 .. Len(P.ci)
        BY <2>3, Fields
      <3>2. LastCI(P).top \in Int /\ P.top \in Int
        BY <2>3, <3>1, Fields DEF LastCI
      <3> QED
        BY <3>2
    <2> HIDE DEF v
    <2>6. ThreadOK(Q, lim) /\ Statused(P, Q, "ok")
      <3>1. P.ci # <<>> /\ "ok" \in {"ok", "yield"} \cup Dead
        BY <1>1, <2>3
      <3> QED
        BY <2>3, <3>1, StatusIs
    <2> HIDE DEF Q
    <2>7. ThreadOK(M, lim) /\ Keeps(Q, M) /\ M.ci = Q.ci
      <3>1. ThreadOK(M, lim) /\ Keeps(Q, M)
        BY <2>4, <2>5, <2>6, Moves
      <3>2. M.ci = Q.ci
        BY <2>4, <2>6 DEF ThreadOK
      <3> QED
        BY <3>1, <3>2
    <2>8. M.status = "ok" /\ M.ncc = 0 /\ M.errfunc = 0 /\ M.ci = P.ci
      BY <2>3, <2>6, <2>7 DEF Keeps, Statused
    <2>9. \A i \in 2 .. k - 1 : i \in 1 .. k - 1
      OBVIOUS
    <2>10. k - 1 \in Nat /\ k - 1 >= 2
      BY <1>1, <2>1
    <2>11. Len(M.ci) = k - 1
      BY <2>3, <2>8
    <2>12. \A i \in 2 .. k - 1 : M.ci[i] \in LuaFrame
      BY <1>1, <2>3, <2>8, <2>9
    <2>13. Len(M.ci) - 1 \in Nat \ {0}
      BY <2>10, <2>11
    <2>14. \A i \in 2 .. Len(M.ci) : M.ci[i] \in LuaFrame
      BY <2>11, <2>12
    <2> QED
      BY <2>7, <2>8, <2>13, <2>14
  <1>4. CASE ~Shape[y.fn].isC
    <2>1. C.ci[k] \in LuaFrame
      BY <1>1, <1>4 DEF CFrame
    <2> DEFINE Q == [C EXCEPT !.status = "ok"]
               b == y.base
               v == Q.top
    <2>2. ThreadOK(Q, lim) /\ Statused(C, Q, "ok")
      <3>1. "ok" \in {"ok", "yield"} \cup Dead
        OBVIOUS
      <3> QED
        BY <1>1, <3>1, StatusIs
    <2>3. M = [Q EXCEPT !.base = b, !.top = v]
      <3>1. M = [Q EXCEPT !.base = b]
        BY <1>2, <1>4
      <3> HIDE DEF Q
      <3> QED
        BY <2>2, <3>1 DEF ThreadOK
    <2>4. b \in Int /\ v \in Int
      <3>1. k \in 1 .. Len(C.ci)
        BY <1>1
      <3> QED
        BY <1>1, <2>2, <3>1, Fields
    <2> HIDE DEF Q, b, v
    <2>5. Moved(Q, M)
      BY <2>2, <2>3, <2>4, Bases
    <2>6. ThreadOK(M, lim) /\ M.status = "ok" /\ M.ncc = 0 /\ M.errfunc = 0 /\ M.ci = C.ci
      <3>1. ThreadOK(M, lim)
        BY <2>2, <2>5, MovedKeeps
      <3> QED
        BY <1>1, <2>2, <2>5, <3>1 DEF Moved, Statused
    <2>7. \A i \in 2 .. k : i = k \/ i \in 2 .. k - 1
      BY <1>1
    <2> QED
      BY <1>1, <2>1, <2>6, <2>7
  <1> QED
    BY <1>3, <1>4

\* lua_resume keeps the invariant: the thread it starts or continues had no entry and no call.
LEMMA CoResumeOk ==
    ASSUME NEW h, world \in Worlds, Good(st, cs, h, Lim), cs # <<>>, NEW th,
           NEW co \in Thread, co # Main, NEW f \in Fn, NEW n \in Int, CoResume(th, co, f, n)
    PROVE  Ok(st', cs', Lim)
  <1> DEFINE D == st[co]
             C == Receive(D, n)
             x == [k |-> "resume", th |-> co, by |-> th]
             c1 == Append(cs, x)
             h1 == Append(h, First)
             M == Resumed(C, n)
             func == C.top - n - 1
             r == luaD_precall(C, func, LUA_MULTRET, f)
             y == [k |-> "exec", th |-> co, n |-> Len(M.ci) - 1]
  <1>1. /\ th \in Thread /\ th = cs[Len(cs)].th /\ cs[Len(cs)].k \in {"c", "host", "hook"}
        /\ ThreadOK(st[th], Lim) /\ st[th].ncc < Lim /\ Len(cs) \in Nat \ {0}
    BY Runs DEF CoResume, InC
  <1>2. \/ Startable(co) /\ ~Shape[f].isC /\ Enter(co, r, c1, f, FALSE)
        \/ D.status = "yield" /\ Become(co, M, Append(c1, y))
    BY DEF CoResume
  <1>3. ThreadOK(D, Lim) /\ LiveOK(D, cs, h, co) /\ (In(cs, co) \/ IdleOK(D))
    BY DEF Good
  <1>4. Startable(co) => D.status = "ok" /\ Len(D.ci) = 1
    BY DEF Startable
  <1>5. ~In(cs, co)
    <2>1. ASSUME In(cs, co)
          PROVE  FALSE
      <3>1. Len(D.ci) # 1
        BY <1>1, <2>1, NotStartable
      <3>2. D.status = "ok"
        BY <1>3, <2>1 DEF In, LiveOK
      <3> QED
        BY <1>2, <1>4, <3>1, <3>2
    <2> QED
      BY <2>1
  <1>6. /\ IdleOK(D) /\ D.status \in {"ok", "yield"} /\ D.ncc = 0 /\ D.errfunc = 0
    BY <1>2, <1>3, <1>4, <1>5 DEF IdleOK
  <1>7. ThreadOK(C, Lim) /\ Keeps(D, C)
    BY <1>3, <1>6, ReceiveKeeps
  <1>8. /\ C.status = D.status /\ C.ncc = 0 /\ C.errfunc = 0 /\ Len(C.ci) = Len(D.ci)
        /\ IdleOK(C) /\ C.top \in Int
    BY <1>3, <1>6, <1>7, IdleKeeps, Fields DEF Keeps
  <1> HIDE DEF C
  <1>9. /\ x \in Act /\ x.k = "resume" /\ Above(cs[Len(cs)], x) /\ st[x.by].ncc < Lim
        /\ x.th = co /\ c1 # <<>> /\ Len(c1) = Len(cs) + 1 /\ c1[Len(c1)] = x
    <2>1. x \in Act
      BY <1>1 DEF Act
    <2>2. cs \in Seq(Act)
      BY Shape1
    <2>3. c1 # <<>> /\ Len(c1) = Len(cs) + 1 /\ c1[Len(c1)] = x
      BY <2>1, <2>2
    <2> QED
      BY <1>1, <2>1, <2>3 DEF Above
  <1> HIDE DEF x, M, func
  <1>10. CASE Startable(co)
    <2> DEFINE S1 == [st EXCEPT ![co] = C]
    <2>1. ~Shape[f].isC /\ Enter(co, r, c1, f, FALSE)
      BY <1>2, <1>4, <1>10
    <2>2. C.status = "ok" /\ Len(C.ci) = 1
      BY <1>4, <1>8, <1>10
    <2>3. Good(S1, c1, h1, Lim)
      BY <1>1, <1>5, <1>7, <1>8, <1>9, <2>2, Begin
    <2>4. /\ S1[co] = C /\ \A X : [S1 EXCEPT ![co] = X] = [st EXCEPT ![co] = X]
          /\ S1[co].ncc < Lim
      <3>1. st = [u \in Thread |-> st[u]]
        BY DEF Good
      <3>2. Lim \in Nat \ {0}
        BY DEF Good
      <3> QED
        BY <1>8, <3>1, <3>2
    <2> HIDE DEF S1, h1, c1
    <2>5. func \in Int /\ LUA_MULTRET \in Int /\ FALSE \in BOOLEAN
      BY <1>8 DEF func, LUA_MULTRET
    <2>6. /\ c1[Len(c1)].k = "resume" /\ co = c1[Len(c1)].th /\ c1 # <<>>
      BY <1>9
    <2>7. Keeps(S1[co], C)
      BY <2>4, KeepsSelf
    <2> DEFINE t == co
               nres == LUA_MULTRET
               same == FALSE
    <2>8. /\ Good(S1, c1, h1, Lim) /\ c1 # <<>> /\ t = c1[Len(c1)].th /\ ThreadOK(C, Lim)
          /\ Keeps(S1[t], C) /\ S1[t].ncc < Lim /\ func \in Int /\ nres \in Int
          /\ same \in BOOLEAN /\ r = luaD_precall(C, func, nres, f)
          /\ c1[Len(c1)].k = "resume" /\ ~Shape[f].isC /\ ~same
          /\ \A X : [S1 EXCEPT ![t] = X] = [st EXCEPT ![t] = X]
      BY <1>7, <2>1, <2>3, <2>4, <2>5, <2>6, <2>7
    <2>9. Enter(t, r, c1, f, same)
      BY <2>1
    <2> HIDE DEF t, nres, same, r
    <2> QED
      BY <2>8, <2>9, Entered
  <1>11. CASE ~Startable(co)
    <2> DEFINE s == SubSeq(M.ci, 1, 1)
               b == M.base
               v == M.top
               L0 == [M EXCEPT !.ci = s, !.base = b, !.top = v]
               S1 == [st EXCEPT ![co] = L0]
    <2>1. D.status = "yield" /\ Become(co, M, Append(c1, y))
      BY <1>2, <1>11
    <2>2. /\ ThreadOK(M, Lim) /\ M.status = "ok" /\ M.ncc = 0 /\ M.errfunc = 0
          /\ Len(M.ci) - 1 \in Nat \ {0} /\ \A i \in 2 .. Len(M.ci) : M.ci[i] \in LuaFrame
      <3>1. C.status = "yield"
        BY <1>8, <2>1
      <3> QED
        BY <1>7, <1>8, <3>1, ResumedIs DEF M
    <2>3. /\ s \in Seq(CI) /\ s # <<>> /\ Len(s) = 1 /\ s[1] = M.ci[1] /\ Len(s) <= M.sizeci
          /\ b \in Int /\ v \in Int /\ Len(M.ci) \in Nat
      <3>1. /\ M.ci \in Seq(CI) /\ Len(M.ci) \in Nat /\ Len(M.ci) <= M.sizeci /\ M.sizeci \in Nat
            /\ b \in Int /\ v \in Int
        BY <2>2, Fields
      <3>2. 1 \in 0 .. Len(M.ci)
        BY <2>2, <3>1
      <3>3. s \in Seq(CI) /\ Len(s) = 1 /\ \A j \in 1 .. 1 : s[j] = M.ci[j]
        BY <3>1, <3>2, Shorter
      <3> QED
        BY <3>1, <3>2, <3>3
    <2> HIDE DEF s, b, v
    <2>4. Reframed(M, s, b, v, L0, Lim)
      BY <2>2, <2>3, Framed
    <2> HIDE DEF L0
    <2>5. /\ ThreadOK(L0, Lim) /\ L0.status = "ok" /\ L0.ncc = 0 /\ L0.errfunc = 0
          /\ L0.ci = s /\ Len(L0.ci) = 1
      BY <2>2, <2>3, <2>4 DEF Reframed
    <2>6. Good(S1, c1, h1, Lim)
      BY <1>1, <1>5, <1>9, <2>5, Begin
    <2>7. /\ S1[co] = L0 /\ [S1 EXCEPT ![co] = M] = [st EXCEPT ![co] = M]
          /\ S1[co].ncc < Lim
      <3>1. st = [u \in Thread |-> st[u]]
        BY DEF Good
      <3>2. Lim \in Nat \ {0}
        BY DEF Good
      <3>3. S1[co] = L0 /\ [S1 EXCEPT ![co] = M] = [st EXCEPT ![co] = M]
        BY <3>1
      <3> HIDE DEF S1
      <3> QED
        BY <2>5, <3>2, <3>3
    <2>8. /\ y \in Act /\ y.k = "exec" /\ y.th = co /\ y.n = Len(M.ci) - 1
      BY <2>2 DEF Act
    <2> HIDE DEF y, S1, h1, c1
    <2>9. Adds(L0, y, M)
      <3>1. Weight(y) = Len(M.ci) - 1
        BY <2>8 DEF Weight
      <3>2. Len(M.ci) = Len(L0.ci) + Weight(y)
        <4> DEFINE m == Len(M.ci)
        <4> HIDE DEF m
        <4>1. m \in Nat /\ Weight(y) = m - 1 /\ Len(L0.ci) = 1
          BY <2>3, <2>5, <3>1 DEF m
        <4> QED
          BY <4>1 DEF m
      <3>3. KeepsFrames(L0, M, Len(L0.ci))
        <4>1. Len(L0.ci) = 1 /\ L0.ci[1] = M.ci[1]
          BY <2>3, <2>5
        <4>2. \A i \in 1 .. 1 : Kin(L0.ci[i], M.ci[i])
          BY <4>1 DEF Kin
        <4> QED
          BY <4>1, <4>2 DEF KeepsFrames
      <3>4. \A i \in Len(L0.ci) + 1 .. Len(M.ci) : M.ci[i] \in LuaFrame
        BY <2>2, <2>5
      <3>5. M.ncc = L0.ncc + (IF y.k = "call" THEN 1 ELSE 0) /\ M.errfunc = L0.errfunc
        BY <2>2, <2>5, <2>8
      <3> QED
        BY <2>2, <2>8, <3>2, <3>3, <3>4, <3>5 DEF Adds
    <2>10. /\ Above(c1[Len(c1)], y) /\ c1 # <<>>
      BY <1>9, <2>8 DEF Above
    <2>11. M.ncc < Lim /\ y.k \notin {"host", "resume"}
      BY <2>2, <2>5, <2>7, <2>8
    <2>12. Good([S1 EXCEPT ![co] = M], Append(c1, y), Append(h1, After(h1[Len(c1)], y)), Lim)
      BY <2>2, <2>6, <2>7, <2>8, <2>9, <2>10, <2>11, Push
    <2> QED
      BY <2>1, <2>7, <2>12 DEF Become, Ok
  <1> QED
    BY <1>10, <1>11

\* A function that may yield was called by luaV_execute, and that by lua_resume: the thread
\* has nothing else under way.
Yieldable(S, c, h) ==
    LET m == Len(c)  t == c[m].th
    IN  /\ m - 1 \in 1 .. m /\ m - 2 \in 1 .. m
        /\ c[m - 1].k = "exec" /\ c[m - 2].k = "resume" /\ c[m - 1].th = t /\ c[m - 2].th = t
        /\ c[m - 1].n \in Nat \ {0} /\ S[t].errfunc = 0
        /\ \A i \in 2 .. c[m - 1].n + 1 : S[t].ci[i] \in LuaFrame
        /\ Len(S[t].ci) = c[m - 1].n + 1 + (IF c[m].k = "c" THEN 1 ELSE 0)

\* A thread that counts no call has only its own Lua functions between itself and lua_resume.
LEMMA YieldIs ==
    ASSUME NEW S, NEW c, NEW h, NEW lim, Good(S, c, h, lim), c # <<>>,
           c[Len(c)].k \in {"c", "hook"}, S[c[Len(c)].th].ncc = 0
    PROVE  Yieldable(S, c, h)
  <1> DEFINE m == Len(c)
             x == c[m]
             t == x.th
  <1>1. /\ m \in Nat \ {0} /\ x \in Act /\ t \in Thread /\ h[m].calls = 0
        /\ Len(S[t].ci) = h[m].frames /\ S[t].errfunc \in {0, h[m].handler}
    BY AtTop
  <1>2. /\ m - 1 \in 1 .. m /\ Above(c[m - 1], x) /\ h[m] = After(h[m - 1], x)
    BY BelowTop
  <1>3. /\ \A i \in 2 .. m : c[i].k # "host" /\ Above(c[i - 1], c[i])
                             /\ h[i] = After(h[i - 1], c[i])
        /\ \A i \in 1 .. m : c[i] \in Act /\ h[i] \in Mark
        /\ c[1] = [k |-> "host", th |-> Main]
    BY Shape1 DEF Good, Struct, Shaped
  <1>4. /\ \A i \in 1 .. m : h[i].calls \in Nat /\ h[i].frames \in Nat
    BY Shape1
  <1>5. /\ h[m - 1].calls = 0 /\ h[m].handler = h[m - 1].handler
        /\ h[m].frames = h[m - 1].frames + (IF x.k = "c" THEN 1 ELSE 0)
        /\ c[m - 1].th = t /\ c[m - 1].k \in {"exec", "call"}
    BY <1>1, <1>2, <1>4 DEF After, Starts, Above
  <1>6. /\ m - 1 \in 2 .. m /\ m - 2 \in 1 .. m /\ (m - 1) - 1 = m - 2
    <2>1. m - 1 # 1
      BY <1>3, <1>5
    <2> DEFINE a == m - 1
    <2>2. m \in Nat /\ a = m - 1 /\ a \in 1 .. m /\ a # 1
      BY <1>1, <1>2, <2>1
    <2> HIDE DEF m, a
    <2>3. a \in 2 .. m /\ m - 2 \in 1 .. m /\ a - 1 = m - 2
      BY <2>2
    <2> QED
      BY <2>2, <2>3
  <1>7. /\ Above(c[m - 2], c[m - 1]) /\ h[m - 1] = After(h[m - 2], c[m - 1])
        /\ h[m - 2].calls \in Nat /\ h[m - 2].frames \in Nat
    BY <1>3, <1>4, <1>6
  <1>8. c[m - 1].k = "exec"
    BY <1>5, <1>7 DEF After, Starts
  <1>9. /\ h[m - 2].calls = 0 /\ h[m - 1].handler = h[m - 2].handler
        /\ h[m - 1].frames = h[m - 2].frames + c[m - 1].n
        /\ c[m - 2].th = t /\ c[m - 2].k \in {"resume", "call"}
    BY <1>5, <1>7, <1>8 DEF After, Starts, Above
  <1>10. c[m - 2].k = "resume"
    <2>1. ASSUME c[m - 2].k = "call"
          PROVE  FALSE
      <3>1. m - 2 \in 2 .. m /\ (m - 2) - 1 \in 1 .. m
        <4>1. m - 2 # 1
          BY <1>3, <2>1
        <4> QED
          BY <1>6, <4>1
      <3>2. h[m - 2] = After(h[(m - 2) - 1], c[m - 2]) /\ h[(m - 2) - 1].calls \in Nat
        BY <1>3, <1>4, <3>1
      <3> QED
        BY <1>9, <2>1, <3>2 DEF After, Starts
    <2> QED
      BY <1>9, <2>1
  <1>11. h[m - 2].frames = 1 /\ h[m - 2].handler = 0
    <2>1. CASE m - 2 = 1
      <3>1. c[m - 2] = c[1]
        BY <2>1
      <3>2. c[m - 2].k = "host"
        BY <1>3, <3>1
      <3> QED
        BY <1>10, <3>2
    <2>2. CASE m - 2 # 1
      <3>1. m - 2 \in 2 .. m
        BY <1>6, <2>2
      <3>2. h[m - 2] = After(h[(m - 2) - 1], c[m - 2])
        BY <1>3, <3>1
      <3> QED
        BY <1>10, <3>2 DEF After, Starts
    <2> QED
      BY <2>1, <2>2
  <1> DEFINE e == c[m - 1].n
  <1>12. e \in Nat \ {0} /\ h[m - 1].frames = e + 1
    <2>1. e \in Nat \ {0}
      BY <1>3, <1>6, <1>8, ActFacts
    <2> QED
      BY <1>9, <1>11, <2>1
  <1>13. \A i \in h[m - 1].frames - e + 1 .. h[m - 1].frames : S[t].ci[i] \in LuaFrame
    <2>1. m - 1 \in 1 .. Len(c)
      BY <1>2
    <2> QED
      BY <1>1, <1>5, <1>8, <2>1 DEF Good, LiveOK, Agrees
  <1> HIDE DEF e
  <1>14. \A i \in 2 .. e + 1 : S[t].ci[i] \in LuaFrame
    BY <1>12, <1>13
  <1>15. Len(S[t].ci) = e + 1 + (IF x.k = "c" THEN 1 ELSE 0) /\ S[t].errfunc = 0
    BY <1>1, <1>5, <1>9, <1>11, <1>12
  <1> QED
    BY <1>2, <1>5, <1>6, <1>8, <1>9, <1>10, <1>12, <1>14, <1>15 DEF Yieldable, e

\* lua_yield keeps the invariant.
LEMMA YieldOk ==
    ASSUME NEW h, world \in Worlds, Good(st, cs, h, Lim), cs # <<>>, NEW th, NEW n \in Int,
           lua_yield(th, n)
    PROVE  Ok(st', cs', Lim)
  <1> DEFINE L == st[th]
             m == Len(cs)
             x == cs[m]
             by == cs[m - 2].by
             U == [L EXCEPT !.hookok = TRUE, !.top = x.top, !.ci[Len(L.ci)].top = x.ctop]
             L1 == IF x.k = "hook" THEN U ELSE L
             v == L1.top - n
             K == [L1 EXCEPT !.base = v, !.top = v]
             M == [K EXCEPT !.status = "yield"]
  <1>1. /\ th \in Thread /\ th = x.th /\ x.k \in {"c", "hook"} /\ x \in Act
        /\ m \in Nat \ {0} /\ ThreadOK(L, Lim) /\ L.status = "ok" /\ L.ncc < Lim
    BY Runs DEF lua_yield
  <1>2. IF L.ncc > 0 THEN Become(th, L, Append(cs, Raise(th)))
        ELSE /\ st' = [st EXCEPT ![th] = [L1 EXCEPT !.status = "yield", !.base = v, !.top = v],
                                 ![by] = Receive(@, n)]
             /\ cs' = SubSeq(cs, 1, m - 3)
    BY DEF lua_yield, Top
  <1>3. L.ncc \in Nat
    BY <1>1, Fields
  <1>4. CASE L.ncc > 0
    <2>1. /\ Raise(th) \in Act /\ Raise(th).k = "raise" /\ Raise(th).th = th
      BY <1>1 DEF Act, Raise
    <2>2. Keeps(L, L)
      BY KeepsSelf
    <2>3. Ok([st EXCEPT ![th] = L], Append(cs, Raise(th)), Lim)
      BY <1>1, <2>1, <2>2, Raised
    <2> QED
      BY <1>2, <1>4, <2>3 DEF Become
  <1>5. CASE ~(L.ncc > 0)
    <2>1. L.ncc = 0
      BY <1>3, <1>5
    <2>2. Yieldable(st, cs, h)
      BY <1>1, <2>1, YieldIs
    <2>3. /\ m - 1 \in 1 .. m /\ m - 2 \in 1 .. m
          /\ cs[m - 1].k = "exec" /\ cs[m - 2].k = "resume" /\ cs[m - 2].th = th
          /\ cs[m - 1].n \in Nat \ {0} /\ L.errfunc = 0
          /\ \A i \in 2 .. cs[m - 1].n + 1 : L.ci[i] \in LuaFrame
          /\ Len(L.ci) = cs[m - 1].n + 1 + (IF x.k = "c" THEN 1 ELSE 0)
      BY <1>1, <2>2 DEF Yieldable
    <2>4. Unhooked(L, L1, L1.top, Lim)
      <3>1. CASE x.k = "hook"
        <4> DEFINE v1 == x.top
                   w1 == x.ctop
        <4>1. v1 \in Int /\ w1 \in Int
          BY <1>1, <3>1, ActFacts
        <4>2. U = [L EXCEPT !.hookok = TRUE, !.top = v1, !.ci[Len(L.ci)].top = w1]
              /\ L.status # "none"
          BY <1>1
        <4> HIDE DEF U, v1, w1
        <4>3. Unhooked(L, U, v1, Lim)
          BY <1>1, <4>1, <4>2, UnhookKeeps
        <4> QED
          BY <3>1, <4>3 DEF Unhooked
      <3>2. CASE x.k # "hook"
        BY <1>1, <3>2, KeepsSelf DEF Unhooked
      <3> QED
        BY <3>1, <3>2
    <2> HIDE DEF L1
    <2>5. ThreadOK(L1, Lim) /\ Keeps(L, L1)
      BY <2>4 DEF Unhooked
    <2>6. v \in Int
      BY <2>5, Fields
    <2>7. M = [L1 EXCEPT !.status = "yield", !.base = v, !.top = v]
      <3> HIDE DEF v
      <3> QED
        BY <2>5 DEF ThreadOK
    <2> HIDE DEF v
    <2>8. ThreadOK(K, Lim) /\ Keeps(L1, K)
      <3>1. Moved(L1, K)
        BY <2>5, <2>6, Bases
      <3> QED
        BY <2>5, <3>1, MovedKeeps
    <2> HIDE DEF K
    <2>9. Keeps(L, K)
      BY <2>5, <2>8, KeepsAll
    <2>10. ThreadOK(M, Lim) /\ Statused(K, M, "yield")
      <3>1. K.ci # <<>> /\ "yield" \in {"ok", "yield"} \cup Dead
        BY <1>1, <2>8, <2>9 DEF ThreadOK, Keeps
      <3> QED
        BY <2>8, <3>1, StatusIs
    <2> HIDE DEF M
    <2>11. IdleOK(M)
      <3> DEFINE k == Len(L.ci)
                 e == cs[m - 1].n
      <3>1. /\ M.status = "yield" /\ M.ncc = 0 /\ M.errfunc = 0 /\ M.ci = K.ci
            /\ Len(M.ci) = k /\ \A i \in 1 .. k : Kin(L.ci[i], M.ci[i])
        BY <2>1, <2>3, <2>9, <2>10 DEF Statused, Keeps, KeepsFrames
      <3>2. /\ e \in Nat \ {0} /\ k = e + 1 + (IF x.k = "c" THEN 1 ELSE 0)
            /\ \A i \in 2 .. e + 1 : L.ci[i] \in LuaFrame
        BY <2>3
      <3>3. x.k = "c" => L.ci[k] \in CFrame
        BY <1>1, AtTop
      <3> HIDE DEF k, e
      <3>4. CASE x.k = "c"
        <4>1. k = e + 2 /\ k \in Nat /\ k >= 3 /\ k \in 1 .. k
          BY <3>2, <3>4
        <4>2. M.ci[k] \in CFrame
          BY <3>1, <3>3, <3>4, <4>1 DEF Kin
        <4>3. \A i \in 2 .. k - 1 : i \in 1 .. k /\ i \in 2 .. e + 1
          BY <3>2, <4>1
        <4>4. \A i \in 2 .. k - 1 : M.ci[i] \in LuaFrame
          BY <3>1, <3>2, <4>3 DEF Kin
        <4>5. Len(M.ci) >= 2
          BY <3>1, <4>1
        <4> QED
          BY <3>1, <4>1, <4>2, <4>4, <4>5 DEF IdleOK
      <3>5. CASE x.k # "c"
        <4>1. k = e + 1 /\ k \in Nat /\ k >= 2
          BY <3>2, <3>5
        <4>3. \A i \in 2 .. k : i \in 1 .. k /\ i \in 2 .. e + 1
          BY <3>2, <4>1
        <4>4. \A i \in 2 .. k : M.ci[i] \in LuaFrame
          BY <3>1, <3>2, <4>3 DEF Kin
        <4>5. Len(M.ci) >= 2 /\ k \in 2 .. k /\ \A i \in 2 .. k - 1 : i \in 2 .. k
          BY <3>1, <4>1
        <4> QED
          BY <3>1, <4>4, <4>5 DEF IdleOK
      <3> QED
        BY <3>4, <3>5
    <2> DEFINE S1 == [st EXCEPT ![th] = M]
               B == Receive(st[by], n)
               h1 == SubSeq(h, 1, (m - 2) - 1)
    <2>12. /\ by \in Thread /\ by # th /\ st[by].status = "ok"
           /\ Good(S1, SubSeq(cs, 1, (m - 2) - 1), h1, Lim)
      <3> DEFINE i == m - 2
      <3>1. i \in 1 .. Len(cs) /\ cs[i].k = "resume" /\ th = cs[i].th /\ th = cs[Len(cs)].th
            /\ by = cs[i].by /\ h1 = SubSeq(h, 1, i - 1)
            /\ SubSeq(cs, 1, (m - 2) - 1) = SubSeq(cs, 1, i - 1)
        BY <1>1, <2>3
      <3> HIDE DEF i, h1, by, S1
      <3>2. /\ cs[i].by = cs[i - 1].th /\ cs[i - 1].th # th
            /\ cs[i].by \in Thread /\ st[cs[i].by].status = "ok"
            /\ Good([st EXCEPT ![th] = M], SubSeq(cs, 1, i - 1), SubSeq(h, 1, i - 1), Lim)
        <4> DEFINE t == cs[i].th
        <4>1. /\ ThreadOK(M, Lim) /\ IdleOK(M) /\ i \in 1 .. Len(cs) /\ cs[i].k = "resume"
              /\ t = cs[i].th /\ t = cs[Len(cs)].th /\ t = th
          BY <2>10, <2>11, <3>1
        <4> HIDE DEF t, M, m
        <4>3. Good([st EXCEPT ![t] = M], SubSeq(cs, 1, i - 1), SubSeq(h, 1, i - 1), Lim)
          BY <4>1, Leave
        <4>4. i - 1 \in 1 .. Len(cs) /\ cs[i].by = cs[i - 1].th
          <5>1. /\ Len(cs) \in Nat /\ cs[1] = [k |-> "host", th |-> Main] /\ cs[i] \in Act
                /\ \A j \in 2 .. Len(cs) : Above(cs[j - 1], cs[j])
            BY <4>1, Shape1 DEF Good, Struct, Shaped
          <5>2. i # 1
            BY <4>1, <5>1
          <5>3. i \in 2 .. Len(cs) /\ i - 1 \in 1 .. Len(cs)
            BY <4>1, <5>1, <5>2
          <5>4. Above(cs[i - 1], cs[i])
            BY <5>1, <5>3
          <5> QED
            BY <4>1, <5>3, <5>4 DEF Above
        <4>7. cs[i - 1].th # t
          BY <4>1, <4>4, ResumerIsOther
        <4>5. cs[i].by \in Thread
          BY <4>4, Shape1
        <4>6. st[cs[i].by].status = "ok"
          BY <4>4, <4>5 DEF Good, LiveOK
        <4>2. /\ cs[i].by = cs[i - 1].th /\ cs[i - 1].th # t
              /\ cs[i].by \in Thread /\ st[cs[i].by].status = "ok"
          BY <4>4, <4>5, <4>6, <4>7
        <4> QED
          BY <4>1, <4>2, <4>3
      <3> QED
        BY <3>1, <3>2 DEF S1
    <2>13. (m - 2) - 1 = m - 3
      BY <1>1
    <2>14. /\ st' = [st EXCEPT ![th] = M, ![by] = Receive(@, n)] /\ cs' = SubSeq(cs, 1, m - 3)
      BY <1>2, <1>5, <2>7
    <2>15. S1[by] = st[by]
      BY <2>12
    <2>16. st' = [S1 EXCEPT ![by] = B]
      BY <2>12, <2>14
    <2>17. ThreadOK(B, Lim) /\ Keeps(st[by], B)
      <3>1. ThreadOK(st[by], Lim)
        BY <2>12 DEF Good
      <3> QED
        BY <2>12, <3>1, ReceiveKeeps
    <2> HIDE DEF B, S1, by, h1
    <2>18. Good([S1 EXCEPT ![by] = B], SubSeq(cs, 1, (m - 2) - 1), h1, Lim)
      <3>1. Keeps(S1[by], B)
        BY <2>15, <2>17
      <3> QED
        BY <2>12, <2>17, <3>1, Change
    <2> QED
      BY <2>13, <2>14, <2>16, <2>18 DEF Ok
  <1> QED
    BY <1>4, <1>5

\* luaG_runerror and its message handler keep the invariant, the limit of calls included.
LEMMA RunerrorOk ==
    ASSUME NEW h, world \in Worlds, Good(st, cs, h, Lim), cs # <<>>, NEW f \in Fn,
           luaG_runerror(f)
    PROVE  Ok(st', cs', Lim)
  <1> DEFINE m == Len(cs)
             x == cs[m]
             t == x.th
             D == st[t]
             L == incr_top(D)
             L1 == incr_top(L)
             func == L1.top - 2
             c1 == Below
             h1 == SubSeq(h, 1, m - 1)
             z == Throw(t, "errrun")
  <1>1. /\ x.k = "raise"
        /\ IF L.errfunc = 0 THEN Become(t, L, Append(c1, z))
           ELSE luaD_call(t, L1, func, 1, f, "handler", c1)
    BY DEF luaG_runerror, Top
  <1>2. /\ m \in Nat \ {0} /\ x \in Act /\ t \in Thread /\ ThreadOK(D, Lim) /\ D.status = "ok"
        /\ D.ncc < Lim /\ D.errfunc \in {0, h[m].handler}
    BY <1>1, AtTop
  <1>3. ThreadOK(L, Lim) /\ Keeps(D, L)
    <2>1. Moved(D, L)
      BY <1>2, IncrTopMoves
    <2> QED
      BY <1>2, <2>1, MovedKeeps
  <1> HIDE DEF L
  <1>4. ThreadOK(L1, Lim) /\ Keeps(D, L1)
    <2>1. Moved(L, L1)
      BY <1>3, IncrTopMoves
    <2>2. ThreadOK(L1, Lim) /\ Keeps(L, L1)
      BY <1>3, <2>1, MovedKeeps
    <2> QED
      BY <1>3, <2>2, KeepsAll
  <1> HIDE DEF L1
  <1>5. func \in Int /\ 1 \in Int /\ "handler" \in {"tm", "api", "handler", "pcall"}
    BY <1>4, Fields
  <1> HIDE DEF func
  <1>6. /\ c1 = SubSeq(cs, 1, m - 1) /\ c1 # <<>> /\ c1[Len(c1)] = cs[m - 1]
        /\ Above(cs[m - 1], x) /\ h[m] = After(h[m - 1], x)
    <2>1. x.k # "host"
      BY <1>1
    <2>2. Above(cs[m - 1], x) /\ h[m] = After(h[m - 1], x)
      BY <2>1, BelowTop
    <2>3. c1 = SubSeq(cs, 1, m - 1)
      BY DEF Below
    <2>4. c1 # <<>> /\ Len(c1) = m - 1 /\ c1[Len(c1)] = cs[m - 1]
      BY <2>1, <2>3, BelowIs
    <2> QED
      BY <2>2, <2>3, <2>4
  <1>7. Good(st, c1, h1, Lim)
    <2>1. Takes(D, x, D)
      <3>1. Weight(x) = 0 /\ D.ncc \in Nat /\ Len(D.ci) \in Nat
        BY <1>1, <1>2, Fields DEF Weight
      <3>2. KeepsFrames(D, D, Len(D.ci))
        BY DEF KeepsFrames, Kin
      <3>3. /\ D.ncc = D.ncc - (IF x.k = "call" THEN 1 ELSE 0)
            /\ Len(D.ci) = Len(D.ci) - Weight(x)
        BY <1>1, <3>1
      <3> QED
        BY <1>1, <1>2, <3>2, <3>3 DEF Takes
    <2>2. x.k \notin {"host", "resume"}
      BY <1>1
    <2>3. Good([st EXCEPT ![t] = D], SubSeq(cs, 1, m - 1), h1, Lim)
      BY <1>2, <2>1, <2>2, Pop
    <2>4. [st EXCEPT ![t] = D] = st
      BY <1>2 DEF Good
    <2> QED
      BY <1>6, <2>3, <2>4
  <1>8. /\ c1[Len(c1)].th = t /\ c1[Len(c1)].k \in {"call", "resume", "exec", "c", "hook"}
    BY <1>1, <1>6 DEF Above
  <1> HIDE DEF c1, h1
  <1>9. CASE L.errfunc = 0
    <2>1. z \in Act /\ z.k = "throw" /\ z.th = t
      BY <1>2 DEF Act, Throw, Dead
    <2>2. z.k \in {"raise", "throw"} /\ (z.k = "throw" \/ D.ncc < Lim)
      BY <2>1
    <2> HIDE DEF z
    <2>3. Ok([st EXCEPT ![t] = L], Append(c1, z), Lim)
      BY <1>3, <1>6, <1>7, <1>8, <2>1, <2>2, Raised
    <2> QED
      BY <1>1, <1>9, <2>3 DEF Become
  <1>10. CASE L.errfunc # 0
    <2>1. c1[Len(c1)].k # "resume"
      <3>1. ASSUME cs[m - 1].k = "resume"
            PROVE  FALSE
        <4>1. h[m].handler = h[m - 1].handler
          BY <1>1, <1>6 DEF After, Starts
        <4>2. h[m - 1].handler = 0
          <5>1. /\ \A i \in 2 .. m : h[i] = After(h[i - 1], cs[i])
                /\ cs[1] = [k |-> "host", th |-> Main]
            BY <1>2, Shape1 DEF Good, Struct, Shaped
          <5>2. m - 1 \in 1 .. m
            BY <1>1, BelowTop
          <5> DEFINE a == m - 1
          <5>3. a # 1
            <6>1. ASSUME a = 1
                  PROVE  cs[a] = cs[1]
              BY <6>1
            <6> QED
              BY <3>1, <5>1, <6>1
          <5>4. a \in 2 .. m
            <6>1. m \in Nat \ {0} /\ a \in 1 .. m
              BY <1>2, <5>2
            <6> HIDE DEF m, a
            <6> QED
              BY <5>3, <6>1
          <5>5. h[a] = After(h[a - 1], cs[a])
            BY <5>1, <5>4
          <5> QED
            BY <3>1, <5>5 DEF After, Starts
        <4>3. L.errfunc = D.errfunc
          BY <1>3 DEF Keeps
        <4> QED
          BY <1>2, <1>10, <4>1, <4>2, <4>3
      <3> QED
        BY <1>6, <3>1
    <2>2. Above(c1[Len(c1)], [k |-> "call", th |-> t, for |-> "handler", nres |-> 1])
      BY <1>8, <2>1 DEF Above
    <2>3. \A X : [st EXCEPT ![t] = X] = [st EXCEPT ![t] = X]
      OBVIOUS
    <2>4. luaD_call(t, L1, func, 1, f, "handler", c1)
      BY <1>1, <1>10
    <2>5. t = c1[Len(c1)].th
      BY <1>8
    <2> HIDE DEF t
    <2> QED
      BY <1>2, <1>4, <1>5, <1>6, <1>7, <2>2, <2>3, <2>4, <2>5, Called
  <1> QED
    BY <1>9, <1>10

\* A set of positions has a greatest element.
LEMMA Greatest ==
    ASSUME NEW n \in Nat, NEW T \in SUBSET (1 .. n), T # {}
    PROVE  \E x \in T : \A y \in T : y <= x
  <1> DEFINE U == {n - y : y \in T}
  <1>1. U \in SUBSET Nat /\ U # {}
    <2>1. \A y \in T : y \in Nat /\ y <= n
      OBVIOUS
    <2>2. \A y \in T : n - y \in Nat
      BY <2>1
    <2>3. \A u \in U : u \in Nat
      BY <2>2
    <2> QED
      BY <2>3
  <1>2. PICK u \in U : \A v \in U : u <= v
    BY <1>1, Least
  <1>3. PICK x \in T : u = n - x
    OBVIOUS
  <1>4. ASSUME NEW y \in T
        PROVE  y <= x
    <2>1. u <= n - y
      BY <1>2
    <2> QED
      BY <1>3, <2>1
  <1> QED
    BY <1>4

\* luaD_pcall after an error: what it had saved.
Rescued(L, p, M, lim) ==
    /\ ThreadOK(M, lim) /\ M.status = L.status /\ M.ncc = p.ncc /\ M.errfunc = p.errfunc
    /\ Len(M.ci) = p.ci /\ KeepsFrames(L, M, Len(M.ci))

\* What luaD_pcall restores of a thread.
LEMMA CaughtIs ==
    ASSUME NEW L, NEW lim, ThreadOK(L, lim), L.status = "ok", NEW p, p.top \in Int,
           p.ncc \in Nat, p.ncc <= lim, p.ci \in 1 .. Len(L.ci), p.hookok \in BOOLEAN,
           p.errfunc \in Int
    PROVE  Rescued(L, p, Caught(L, p), lim)
  <1> DEFINE C == luaF_close(L, p.top)
             v == p.top + 1
             s == SubSeq(C.ci, 1, p.ci)
             b == L.ci[p.ci].base
             K == [C EXCEPT !.top = v, !.ncc = p.ncc, !.ci = s, !.base = b,
                            !.hookok = p.hookok, !.errfunc = p.errfunc]
             R == restore_stack_limit(K)
             M == adjustresults(R, LUA_MULTRET)
  <1>1. Caught(L, p) = M
    BY DEF Caught
  <1>2. /\ ThreadOK(C, lim) /\ C.ci = L.ci /\ C.status = "ok"
    <2>1. Moved(L, C)
      BY CloseMoves
    <2> QED
      BY <2>1, MovedKeeps DEF Moved
  <1> HIDE DEF C
  <1>3. /\ C = [status |-> "ok", top |-> C.top, base |-> C.base, last |-> C.last,
                ci |-> C.ci, sizeci |-> C.sizeci, ncc |-> C.ncc, hookok |-> C.hookok,
                errfunc |-> C.errfunc, open |-> C.open]
        /\ C.last \in Int /\ C.sizeci \in Nat /\ Len(C.ci) \in Nat /\ Len(C.ci) <= C.sizeci
        /\ C.sizeci <= 2 * LUAI_MAXCALLS /\ C.ci \in Seq(CI)
    BY <1>2, Fields DEF ThreadOK
  <1>4. /\ s \in Seq(CI) /\ Len(s) = p.ci /\ \A j \in 1 .. p.ci : s[j] = L.ci[j]
        /\ s # <<>> /\ Len(s) <= C.sizeci
    <2>1. p.ci \in 0 .. Len(C.ci)
      BY <1>2, <1>3
    <2>2. s \in Seq(CI) /\ Len(s) = p.ci /\ \A j \in 1 .. p.ci : s[j] = C.ci[j]
      BY <1>3, <2>1, Shorter
    <2> QED
      BY <1>2, <1>3, <2>1, <2>2
  <1>5. v \in Int /\ b \in Int
    BY Fields
  <1> HIDE DEF v, s, b
  <1>7. /\ K = [status |-> K.status, top |-> K.top, base |-> K.base, last |-> K.last,
                ci |-> K.ci, sizeci |-> K.sizeci, ncc |-> K.ncc, hookok |-> K.hookok,
                errfunc |-> K.errfunc, open |-> K.open]
        /\ K.status = "ok" /\ K.top = v /\ K.base = b /\ K.last = C.last /\ K.ci = s
        /\ K.sizeci = C.sizeci /\ K.ncc = p.ncc /\ K.hookok = p.hookok
        /\ K.errfunc = p.errfunc
    <2> DEFINE K1 == [C EXCEPT !.top = v, !.ncc = p.ncc, !.ci = s]
    <2>3. K1 = [C EXCEPT !.top = v, !.ncc = p.ncc, !.ci = s]
      OBVIOUS
    <2>2. K = [K1 EXCEPT !.base = b, !.hookok = p.hookok, !.errfunc = p.errfunc]
      OBVIOUS
    <2> HIDE DEF K, K1
    <2>1. /\ K1 = [status |-> K1.status, top |-> K1.top, base |-> K1.base, last |-> K1.last,
                   ci |-> K1.ci, sizeci |-> K1.sizeci, ncc |-> K1.ncc, hookok |-> K1.hookok,
                   errfunc |-> K1.errfunc, open |-> K1.open]
          /\ K1.status = "ok" /\ K1.top = v /\ K1.last = C.last /\ K1.ci = s
          /\ K1.sizeci = C.sizeci /\ K1.ncc = p.ncc
      BY <1>2, <2>3 DEF ThreadOK
    <2> QED
      BY <2>1, <2>2
  <1> HIDE DEF K
  <1>8. ThreadOK(K, lim)
    BY <1>3, <1>4, <1>5, <1>7 DEF ThreadOK
  <1>9. ThreadOK(R, lim) /\ Keeps(K, R)
    BY <1>8, RestoreKeeps
  <1> HIDE DEF R
  <1>10. ThreadOK(M, lim) /\ Keeps(R, M)
    <2>1. R.status # "none"
      BY <1>7, <1>9 DEF Keeps
    <2> QED
      BY <1>9, <2>1, AdjustKeeps
  <1> HIDE DEF M
  <1>11. Keeps(K, M)
    BY <1>9, <1>10, KeepsAll
  <1>12. KeepsFrames(L, M, Len(M.ci))
    <2>1. Len(M.ci) = p.ci /\ \A i \in 1 .. p.ci : Kin(K.ci[i], M.ci[i]) /\ K.ci[i] = L.ci[i]
      BY <1>4, <1>7, <1>11 DEF Keeps, KeepsFrames
    <2> QED
      BY <2>1 DEF KeepsFrames
  <1> QED
    BY <1>1, <1>4, <1>7, <1>10, <1>11, <1>12 DEF Rescued, Keeps

\* The main thread after an error that nothing caught.
LEMMA ResetIs ==
    ASSUME NEW L, NEW lim \in Nat, ThreadOK(L, lim), L.status = "ok", NEW code \in Dead
    PROVE  ThreadOK(resetstack(L, code), lim) /\ resetstack(L, code).status = code
  <1> DEFINE s == SubSeq(L.ci, 1, 1)
             b == L.ci[1].base
             K == [L EXCEPT !.status = code, !.ci = s, !.base = b, !.open = {},
                            !.top = b + 1, !.ncc = 0, !.hookok = TRUE, !.errfunc = 0]
  <1>1. resetstack(L, code) = restore_stack_limit(K)
    BY DEF resetstack
  <1>2. /\ L = [status |-> L.status, top |-> L.top, base |-> L.base, last |-> L.last,
                ci |-> L.ci, sizeci |-> L.sizeci, ncc |-> L.ncc, hookok |-> L.hookok,
                errfunc |-> L.errfunc, open |-> L.open]
        /\ L.last \in Int /\ L.sizeci \in Nat /\ Len(L.ci) \in Nat /\ Len(L.ci) <= L.sizeci
        /\ L.sizeci <= 2 * LUAI_MAXCALLS /\ L.ci \in Seq(CI) /\ 1 \in 1 .. Len(L.ci)
    BY Fields DEF ThreadOK
  <1>3. s \in Seq(CI) /\ Len(s) = 1 /\ s # <<>> /\ Len(s) <= L.sizeci
    <2>1. 1 \in 0 .. Len(L.ci)
      BY <1>2
    <2>2. s \in Seq(CI) /\ Len(s) = 1
      BY <1>2, <2>1, Shorter
    <2> QED
      BY <1>2, <2>2
  <1>4. b \in Int /\ b + 1 \in Int
    <2>1. b \in Int
      BY <1>2, Fields
    <2> HIDE DEF b
    <2> QED
      BY <2>1
  <1> HIDE DEF s, b
  <1>6. /\ K = [status |-> K.status, top |-> K.top, base |-> K.base, last |-> K.last,
                ci |-> K.ci, sizeci |-> K.sizeci, ncc |-> K.ncc, hookok |-> K.hookok,
                errfunc |-> K.errfunc, open |-> K.open]
        /\ K.status = code /\ K.top = b + 1 /\ K.base = b /\ K.last = L.last /\ K.ci = s
        /\ K.sizeci = L.sizeci /\ K.ncc = 0 /\ K.hookok = TRUE /\ K.errfunc = 0
    <2> DEFINE K1 == [L EXCEPT !.status = code, !.ci = s, !.base = b]
               K2 == [K1 EXCEPT !.open = {}, !.top = b + 1, !.ncc = 0]
    <2>4. K1 = [L EXCEPT !.status = code, !.ci = s, !.base = b]
      OBVIOUS
    <2>5. K2 = [K1 EXCEPT !.open = {}, !.top = b + 1, !.ncc = 0]
      OBVIOUS
    <2>2. K = [K2 EXCEPT !.hookok = TRUE, !.errfunc = 0]
      OBVIOUS
    <2> HIDE DEF K, K1, K2
    <2>1. /\ K1 = [status |-> K1.status, top |-> K1.top, base |-> K1.base, last |-> K1.last,
                   ci |-> K1.ci, sizeci |-> K1.sizeci, ncc |-> K1.ncc, hookok |-> K1.hookok,
                   errfunc |-> K1.errfunc, open |-> K1.open]
          /\ K1.status = code /\ K1.base = b /\ K1.last = L.last /\ K1.ci = s
          /\ K1.sizeci = L.sizeci
      BY <2>4 DEF ThreadOK
    <2>3. /\ K2 = [status |-> K2.status, top |-> K2.top, base |-> K2.base, last |-> K2.last,
                   ci |-> K2.ci, sizeci |-> K2.sizeci, ncc |-> K2.ncc, hookok |-> K2.hookok,
                   errfunc |-> K2.errfunc, open |-> K2.open]
          /\ K2.status = code /\ K2.base = b /\ K2.last = L.last /\ K2.ci = s
          /\ K2.sizeci = L.sizeci /\ K2.top = b + 1 /\ K2.ncc = 0
      BY <2>1, <2>5
    <2> QED
      BY <2>2, <2>3
  <1> HIDE DEF K
  <1>7. ThreadOK(K, lim)
    <2>1. K.hookok \in BOOLEAN
      BY <1>6
    <2>2. K.status \in {"none", "ok", "yield"} \cup Dead /\ K.ncc \in Nat /\ K.ncc <= lim
      BY <1>6
    <2>3. /\ K.top \in Int /\ K.base \in Int /\ K.last \in Int /\ K.errfunc \in Int
          /\ K.ci \in Seq(CI) /\ K.sizeci \in Nat /\ Len(K.ci) <= K.sizeci
          /\ K.sizeci <= 2 * LUAI_MAXCALLS /\ K.ci # <<>>
      BY <1>2, <1>3, <1>4, <1>6
    <2>4. K = [status |-> K.status, top |-> K.top, base |-> K.base, last |-> K.last,
               ci |-> K.ci, sizeci |-> K.sizeci, ncc |-> K.ncc, hookok |-> K.hookok,
               errfunc |-> K.errfunc, open |-> K.open]
      BY <1>6
    <2> QED
      BY <2>1, <2>2, <2>3, <2>4 DEF ThreadOK
  <1>8. ThreadOK(restore_stack_limit(K), lim) /\ Keeps(K, restore_stack_limit(K))
    BY <1>7, RestoreKeeps
  <1> QED
    BY <1>1, <1>6, <1>8 DEF Keeps

\* What lua_pcall saved.
LEMMA PcallFacts ==
    ASSUME NEW x \in Act, x.k = "pcall"
    PROVE  /\ x.top \in Int /\ x.ncc \in Nat /\ x.ci \in Nat /\ x.hookok \in BOOLEAN
           /\ x.errfunc \in Int
  <1>1. x \in [k : {"pcall"}, th : Thread, top : Int, ncc : Nat, ci : Nat, hookok : BOOLEAN,
               errfunc : Int]
    BY DEF Act
  <1> QED
    BY <1>1

\* An error of the main thread that nothing catches: the program exits.
LEMMA PanicOk ==
    ASSUME NEW h, Good(st, cs, h, Lim), cs # <<>>, NEW t, t = cs[Len(cs)].th,
           NEW code \in Dead,
           \A j \in 1 .. Len(cs) : cs[j].th = t => cs[j].k \notin {"pcall", "resume"},
           NEW K, K = resetstack(st[t], code)
    PROVE  Ok([st EXCEPT ![t] = K], <<>>, Lim)
  <1>1. /\ Len(cs) \in Nat \ {0} /\ t \in Thread /\ ThreadOK(st[t], Lim)
        /\ st[t].status = "ok" /\ Lim \in Nat \ {0}
    BY AtTop DEF Good
  <1>2. ThreadOK(K, Lim) /\ IdleOK(K)
    <2>1. Lim \in Nat
      BY <1>1
    <2>2. ThreadOK(K, Lim) /\ K.status = code
      BY <1>1, <2>1, ResetIs
    <2> QED
      BY <2>2 DEF IdleOK, Dead
  <1>3. \A j \in 1 .. Len(cs) : cs[j].th = t
    <2>1. Len(cs) \in 1 .. Len(cs)
      BY <1>1
    <2>2. In(cs, t)
      BY <2>1 DEF In
    <2>3. PICK j \in 1 .. Len(cs) : cs[j].th = t /\ Starts(cs[j])
      BY <2>2, FirstEntry
    <2>4. cs[j].k = "host"
      BY <2>3 DEF Starts
    <2>5. j = 1
      <3>1. \A i \in 2 .. Len(cs) : cs[i].k # "host"
        BY DEF Good, Struct, Shaped
      <3> QED
        BY <1>1, <2>4, <3>1
    <2>6. 1 \in 1 .. Len(cs) /\ cs[1].th = cs[Len(cs)].th
      BY <2>1, <2>3, <2>5
    <2> QED
      BY <2>6, Contiguous
  <1>4. \A u \in Thread : u # t => IdleOK(st[u])
    BY <1>3 DEF Good, In
  <1> DEFINE S1 == [st EXCEPT ![t] = K]
  <1>5. S1 = [u \in Thread |-> S1[u]]
    BY DEF Good
  <1>6. \A u \in Thread : ThreadOK(S1[u], Lim) /\ IdleOK(S1[u])
    BY <1>2, <1>4 DEF Good
  <1> HIDE DEF S1
  <1>7. Struct(<<>>, <<>>, Lim)
    BY DEF Struct, Shaped, Apart, Saved, Limited
  <1>8. \A u \in Thread : LiveOK(S1[u], <<>>, <<>>, u)
    BY DEF LiveOK
  <1>9. Good(S1, <<>>, <<>>, Lim)
    BY <1>1, <1>5, <1>6, <1>7, <1>8 DEF Good
  <1> QED
    BY <1>9 DEF Ok, S1

\* The jump to the innermost lua_pcall or lua_resume of the thread.
LEMMA RescueOk ==
    ASSUME NEW h, Good(st, cs, h, Lim), cs # <<>>, NEW i \in 1 .. Len(cs),
           NEW p, p = cs[i], p.k = "pcall", NEW t, t = p.th, t = cs[Len(cs)].th,
           NEW M, M = Caught(st[t], p)
    PROVE  Ok([st EXCEPT ![t] = M], SubSeq(cs, 1, i - 1), Lim)
  <1>1. /\ ThreadOK(st[t], Lim) /\ st[t].status = "ok" /\ p \in Act /\ h[i] \in Mark
    BY AtTop, Shape1
  <1>2. p.ncc = h[i].calls /\ p.ci = h[i].frames /\ h[i].calls <= Lim
    BY DEF Good, Struct, Saved, Limited
  <1>3. h[i].frames \in Nat \ {0} /\ h[i].frames <= Len(st[t].ci)
    <2>1. t \in Thread
      BY AtTop
    <2> QED
      BY <1>1, <2>1 DEF Mark, Good, LiveOK, Agrees
  <1>4. /\ p.top \in Int /\ p.ncc \in Nat /\ p.ci \in Nat /\ p.hookok \in BOOLEAN
        /\ p.errfunc \in Int
    BY <1>1, PcallFacts
  <1>5. p.ncc <= Lim /\ p.ci \in 1 .. Len(st[t].ci)
    <2>1. Len(st[t].ci) \in Nat
      BY <1>1, Fields
    <2> QED
      BY <1>2, <1>3, <1>4, <2>1
  <1>6. Rescued(st[t], p, M, Lim)
    BY <1>1, <1>4, <1>5, CaughtIs
  <1>7. /\ ThreadOK(M, Lim) /\ M.status = "ok" /\ M.ncc = p.ncc /\ M.errfunc = p.errfunc
        /\ Len(M.ci) = p.ci /\ KeepsFrames(st[t], M, Len(M.ci))
    BY <1>1, <1>6 DEF Rescued
  <1>8. Good([st EXCEPT ![t] = M], SubSeq(cs, 1, i - 1), SubSeq(h, 1, i - 1), Lim)
    BY <1>7, Catch
  <1> QED
    BY <1>8 DEF Ok

\* A coroutine ends with an error, and the resumer has the message.
PassedOn(S, t, code, n, v, by) ==
    S = [st EXCEPT ![t] = [st[t] EXCEPT !.status = code, !.ci[n].top = v],
                   ![by].top = @ + 1]

\* An error that no lua_pcall of the coroutine catches ends it, and its resumer goes on.
LEMMA PassOnOk ==
    ASSUME NEW h, Good(st, cs, h, Lim), cs # <<>>, NEW i \in 1 .. Len(cs),
           cs[i].k = "resume", NEW t, t = cs[i].th, t = cs[Len(cs)].th, NEW code \in Dead,
           NEW by, by = cs[i].by, NEW n, n = Len(st[t].ci), NEW v, v = st[t].top + 1,
           NEW S, PassedOn(S, t, code, n, v, by)
    PROVE  Ok(S, SubSeq(cs, 1, i - 1), Lim)
  <1> DEFINE L == st[t]
             K == [L EXCEPT !.ci[n].top = v]
             M == [K EXCEPT !.status = code]
             w == st[by].top + 1
             B == [st[by] EXCEPT !.top = w]
             S1 == [st EXCEPT ![t] = M]
             h1 == SubSeq(h, 1, i - 1)
  <1>1. /\ t \in Thread /\ ThreadOK(L, Lim) /\ L.status = "ok" /\ v \in Int
    <2>1. t \in Thread /\ ThreadOK(L, Lim) /\ L.status = "ok"
      BY AtTop
    <2>2. L.top \in Int
      BY <2>1, Fields
    <2> QED
      BY <2>1, <2>2
  <1>2. ThreadOK(K, Lim) /\ Keeps(L, K)
    <2>1. L.status # "none"
      BY <1>1
    <2> QED
      BY <1>1, <2>1, FrameTop
  <1>3. M = [L EXCEPT !.status = code, !.ci[n].top = v]
    BY <1>1 DEF ThreadOK
  <1> HIDE DEF K
  <1>4. ThreadOK(M, Lim) /\ Statused(K, M, code)
    <2>1. K.ci # <<>> /\ code \in {"ok", "yield"} \cup Dead
      BY <1>1, <1>2 DEF ThreadOK, Keeps
    <2> QED
      BY <1>2, <2>1, StatusIs
  <1>5. IdleOK(M)
    BY <1>4 DEF Statused, IdleOK, Dead
  <1>6. i - 1 \in 1 .. Len(cs) /\ by = cs[i - 1].th
    <2>1. /\ Len(cs) \in Nat /\ cs[1] = [k |-> "host", th |-> Main] /\ cs[i] \in Act
          /\ \A j \in 2 .. Len(cs) : Above(cs[j - 1], cs[j])
      BY Shape1 DEF Good, Struct, Shaped
    <2>2. i # 1
      BY <2>1
    <2> DEFINE m == Len(cs)
    <2>5. m \in Nat /\ i \in 1 .. m
      BY <2>1
    <2> HIDE DEF m
    <2>3. i \in 2 .. m /\ i - 1 \in 1 .. m
      BY <2>2, <2>5
    <2>4. Above(cs[i - 1], cs[i])
      BY <2>1, <2>3 DEF m
    <2> QED
      BY <2>3, <2>4 DEF Above, m
  <1>7. by # t
    BY <1>6, ResumerIsOther
  <1>8. by \in Thread
    <2>1. cs[i - 1].th \in Thread
      BY <1>6, Shape1
    <2> QED
      BY <1>6, <2>1
  <1>9. ThreadOK(st[by], Lim)
    BY <1>8 DEF Good
  <1> HIDE DEF M
  <1>10. Good(S1, SubSeq(cs, 1, i - 1), h1, Lim)
    BY <1>4, <1>5, Leave
  <1>11. w \in Int
    <2>1. st[by].top \in Int
      BY <1>9, Fields
    <2> QED
      BY <2>1
  <1>12. S1[by] = st[by]
    BY <1>7, <1>8 DEF Good
  <1>13. S = [S1 EXCEPT ![by] = B]
    <2>1. S = [st EXCEPT ![t] = M, ![by].top = @ + 1]
      BY <1>3 DEF PassedOn
    <2>2. st = [u \in Thread |-> st[u]]
      BY DEF Good
    <2> QED
      BY <1>7, <1>8, <2>1, <2>2
  <1> HIDE DEF w
  <1>14. ThreadOK(B, Lim) /\ Keeps(st[by], B)
    BY <1>9, <1>11, Moves
  <1> HIDE DEF B, S1, h1
  <1>15. Good([S1 EXCEPT ![by] = B], SubSeq(cs, 1, i - 1), h1, Lim)
    <2>1. Keeps(S1[by], B)
      BY <1>12, <1>14
    <2> QED
      BY <1>8, <1>10, <1>14, <2>1, Change
  <1> QED
    BY <1>13, <1>15 DEF Ok

\* luaD_throw keeps the invariant: the error is caught, ends its coroutine or ends the program.
LEMMA ThrowOk ==
    ASSUME NEW h, Good(st, cs, h, Lim), cs # <<>>, luaD_throw
    PROVE  Ok(st', cs', Lim)
  <1> DEFINE m == Len(cs)
             x == cs[m]
             t == x.th
             code == x.code
             L == st[t]
             C == Catchers(t)
             i == CHOOSE a \in C : \A b \in C : b <= a
             n == Len(L.ci)
             v == L.top + 1
             by == cs[i].by
  <1>1. /\ x.k = "throw"
        /\ C = {} => st' = [st EXCEPT ![t] = resetstack(L, code)] /\ cs' = <<>>
        /\ C # {} =>
             /\ cs' = SubSeq(cs, 1, i - 1)
             /\ cs[i].k = "pcall" => st' = [st EXCEPT ![t] = Caught(L, cs[i])]
             /\ cs[i].k # "pcall" =>
                  st' = [st EXCEPT ![t] = [L EXCEPT !.status = code, !.ci[n].top = v],
                                   ![by].top = @ + 1]
    BY DEF luaD_throw, Top
  <1>2. /\ m \in Nat \ {0} /\ x \in Act /\ t \in Thread /\ cs \in Seq(Act)
    BY AtTop, Shape1
  <1>3. code \in Dead
    BY <1>1, <1>2, ActFacts
  <1>4. C = {j \in 1 .. m : cs[j].k \in {"pcall", "resume"} /\ cs[j].th = t}
    BY <1>2 DEF Catchers
  <1>5. CASE C = {}
    <2>1. \A j \in 1 .. Len(cs) : cs[j].th = t => cs[j].k \notin {"pcall", "resume"}
      BY <1>4, <1>5
    <2> DEFINE K == resetstack(L, code)
    <2>2. K = resetstack(st[t], code) /\ t = cs[Len(cs)].th
      OBVIOUS
    <2>3. st' = [st EXCEPT ![t] = K] /\ cs' = <<>>
      BY <1>1, <1>5
    <2> HIDE DEF K, code, t
    <2>4. Ok([st EXCEPT ![t] = K], <<>>, Lim)
      BY <1>3, <2>1, <2>2, PanicOk
    <2> QED
      BY <2>3, <2>4
  <1>6. CASE C # {}
    <2>1. i \in C
      <3>1. C \in SUBSET (1 .. m) /\ m \in Nat
        BY <1>2, <1>4
      <3> HIDE DEF C
      <3>2. \E a \in C : \A b \in C : b <= a
        BY <1>6, <3>1, Greatest
      <3> QED
        BY <3>2
    <2>2. /\ i \in 1 .. m /\ cs[i].k \in {"pcall", "resume"} /\ cs[i].th = t
      BY <1>4, <2>1
    <2>3. CASE cs[i].k = "pcall"
      <3> DEFINE p == cs[i]
                 M == Caught(L, p)
      <3>1. /\ i \in 1 .. Len(cs) /\ p = cs[i] /\ p.k = "pcall" /\ t = p.th
            /\ t = cs[Len(cs)].th /\ M = Caught(st[t], p)
            /\ st' = [st EXCEPT ![t] = M] /\ cs' = SubSeq(cs, 1, i - 1)
        BY <1>1, <1>6, <2>2, <2>3
      <3> HIDE DEF i, p, t, M
      <3>2. Ok([st EXCEPT ![t] = M], SubSeq(cs, 1, i - 1), Lim)
        BY <3>1, RescueOk
      <3> QED
        BY <3>1, <3>2
    <2>4. CASE cs[i].k = "resume"
      <3> DEFINE S == [st EXCEPT ![t] = [L EXCEPT !.status = code, !.ci[n].top = v],
                                 ![by].top = @ + 1]
      <3>1. /\ i \in 1 .. Len(cs) /\ cs[i].k = "resume" /\ t = cs[i].th
            /\ t = cs[Len(cs)].th /\ by = cs[i].by /\ n = Len(st[t].ci) /\ v = st[t].top + 1
            /\ st' = S /\ cs' = SubSeq(cs, 1, i - 1)
        BY <1>1, <1>6, <2>2, <2>4
      <3>3. PassedOn(S, t, code, n, v, by)
        BY DEF PassedOn
      <3> HIDE DEF i, t, code, by, n, v, S
      <3>2. Ok(S, SubSeq(cs, 1, i - 1), Lim)
        BY <1>3, <3>1, <3>3, PassOnOk
      <3> QED
        BY <3>1, <3>2
    <2> QED
      BY <2>2, <2>3, <2>4
  <1> QED
    BY <1>5, <1>6

------------------------------------------------------------------------------
(* Every step *)

\* The invariant holds at the start.
LEMMA InitInv == Init => IInv
  <1> SUFFICES ASSUME Init PROVE IInv
    OBVIOUS
  <1> DEFINE h == <<First>>
             x == [k |-> "host", th |-> Main]
  <1>1. world \in Worlds /\ cs = <<x>>
        /\ st = [th \in Thread |-> IF th = Main THEN stack_init ELSE Never]
    BY DEF Init
  <1>2. Lim \in Nat \ {0}
    BY <1>1, LimIs
  <1>3. x \in Act /\ First \in Mark
    BY DEF Act, Mark, First, Thread
  <1>4. Shaped(cs, h)
    BY <1>1, <1>3 DEF Shaped
  <1>5. Apart(cs, h) /\ Saved(cs, h) /\ Limited(cs, h, Lim)
    <2>1. Len(cs) = 1 /\ cs[1] = x /\ h[1] = First
      BY <1>1
    <2>2. Apart(cs, h)
      BY <1>3, <2>1 DEF Apart, First
    <2>3. Saved(cs, h)
      BY <2>1 DEF Saved
    <2>4. Limited(cs, h, Lim)
      BY <1>2, <2>1 DEF Limited, First
    <2> QED
      BY <2>2, <2>3, <2>4
  <1>6. ThreadOK(stack_init, Lim) /\ ThreadOK(Never, Lim)
    <2>1. ThreadOK(stack_init, Lim)
      <3> DEFINE s == <<[func |-> 0, base |-> 1, top |-> 1 + LUA_MINSTACK, nres |-> 0,
                         fn |-> "none"]>>
      <3>1. s \in Seq(CI) /\ Len(s) = 1 /\ s # <<>>
        BY Consts DEF CI
      <3> HIDE DEF s
      <3>2. stack_init = [status |-> "ok", top |-> 1, base |-> 1,
                          last |-> BASIC_STACK_SIZE - 1, ci |-> s, sizeci |-> BASIC_CI_SIZE,
                          ncc |-> 0, hookok |-> TRUE, errfunc |-> 0, open |-> {}]
        BY DEF stack_init, s
      <3>3. /\ BASIC_CI_SIZE \in Nat /\ 1 <= BASIC_CI_SIZE /\ BASIC_STACK_SIZE - 1 \in Int
            /\ BASIC_CI_SIZE <= 2 * LUAI_MAXCALLS /\ 0 <= Lim
        BY <1>2, Consts
      <3> DEFINE L == stack_init
      <3> HIDE DEF L
      <3>4. /\ L = [status |-> L.status, top |-> L.top, base |-> L.base, last |-> L.last,
                    ci |-> L.ci, sizeci |-> L.sizeci, ncc |-> L.ncc, hookok |-> L.hookok,
                    errfunc |-> L.errfunc, open |-> L.open]
            /\ L.status = "ok" /\ L.top = 1 /\ L.base = 1 /\ L.last = BASIC_STACK_SIZE - 1
            /\ L.ci = s /\ L.sizeci = BASIC_CI_SIZE /\ L.ncc = 0 /\ L.hookok = TRUE
            /\ L.errfunc = 0
        BY <3>2 DEF L
      <3>5. L.hookok \in BOOLEAN
        BY <3>4
      <3>7. L.status \in {"none", "ok", "yield"} \cup Dead /\ L.ncc \in Nat /\ L.ncc <= Lim
        BY <3>3, <3>4
      <3>10. L.top \in Int /\ L.base \in Int /\ L.last \in Int /\ L.errfunc \in Int
        BY <3>3, <3>4
      <3>11. L.ci \in Seq(CI) /\ L.ci # <<>> /\ Len(L.ci) = 1
        BY <3>1, <3>4
      <3>12. L.sizeci \in Nat /\ 1 <= L.sizeci /\ L.sizeci <= 2 * LUAI_MAXCALLS
        BY <3>3, <3>4
      <3>8. /\ L.top \in Int /\ L.base \in Int /\ L.last \in Int /\ L.errfunc \in Int
            /\ L.ci \in Seq(CI) /\ L.sizeci \in Nat /\ Len(L.ci) <= L.sizeci
            /\ L.sizeci <= 2 * LUAI_MAXCALLS /\ L.ci # <<>>
        BY <3>10, <3>11, <3>12
      <3>9. L = [status |-> L.status, top |-> L.top, base |-> L.base, last |-> L.last,
                 ci |-> L.ci, sizeci |-> L.sizeci, ncc |-> L.ncc, hookok |-> L.hookok,
                 errfunc |-> L.errfunc, open |-> L.open]
        BY <3>4
      <3>6. ThreadOK(L, Lim)
        BY <3>5, <3>7, <3>8, <3>9 DEF ThreadOK
      <3> QED
        BY <3>6 DEF L
    <2>2. ThreadOK(Never, Lim)
      <3>1. 0 <= Lim /\ 0 <= 2 * LUAI_MAXCALLS
        BY <1>2, Consts
      <3> QED
        BY <3>1 DEF ThreadOK, Never
    <2> QED
      BY <2>1, <2>2
  <1>7. IdleOK(Never) /\ stack_init.status = "ok" /\ stack_init.ncc = 0
        /\ stack_init.errfunc = 0 /\ Len(stack_init.ci) = 1
    BY DEF IdleOK, Never, stack_init, Dead
  <1>8. ASSUME NEW t \in Thread
        PROVE  /\ ThreadOK(st[t], Lim) /\ LiveOK(st[t], cs, h, t)
               /\ In(cs, t) \/ IdleOK(st[t])
    <2>1. Len(cs) = 1 /\ cs[1] = x /\ h[1] = First
      BY <1>1
    <2>2. CASE t = Main
      <3>1. st[t] = stack_init
        BY <1>1, <2>2
      <3>2. In(cs, t)
        BY <2>1, <2>2 DEF In
      <3>3. Agrees(stack_init, x, First, TRUE)
        BY <1>7 DEF Agrees, First
      <3>4. \A j \in 1 .. Len(cs) : j = 1 /\ Ends(cs, j) = TRUE
        BY <2>1 DEF Ends
      <3> QED
        BY <1>6, <1>7, <2>1, <3>1, <3>2, <3>3, <3>4 DEF LiveOK
    <2>3. CASE t # Main
      <3>1. st[t] = Never
        BY <1>1, <2>3
      <3>2. ~In(cs, t)
        BY <2>1, <2>3 DEF In
      <3> QED
        BY <1>6, <1>7, <3>1, <3>2 DEF LiveOK, In
    <2> QED
      BY <2>2, <2>3
  <1>9. st = [t \in Thread |-> st[t]]
    BY <1>1
  <1> HIDE DEF h
  <1>10. Good(st, cs, h, Lim)
    BY <1>2, <1>4, <1>5, <1>8, <1>9 DEF Good, Struct
  <1> QED
    BY <1>1, <1>10 DEF IInv, Ok

\* What a function does, and the instructions of a Lua function.
LEMMA CallsOk ==
    ASSUME NEW h, world \in Worlds, Good(st, cs, h, Lim), cs # <<>>, NEW th, Call(th)
    PROVE  Ok(st', cs', Lim)
  <1>1. PICK f \in world.fn, n \in Args :
          \/ \E co \in world.co : CoResume(th, co, f, n)
          \/ \E w \in world.want : lua_call(th, f, n, w)
          \/ \E handler \in BOOLEAN : lua_pcall(th, f, n, handler)
          \/ CallTM(th, f)
    BY DEF Call
  <1>2. f \in Fn /\ n \in Int
    BY WorldIs
  <1>3. ASSUME NEW co \in world.co, CoResume(th, co, f, n)
        PROVE  Ok(st', cs', Lim)
    <2>1. co \in Thread /\ co # Main
      BY WorldIs, Consts
    <2> QED
      BY <1>2, <1>3, <2>1, CoResumeOk
  <1>4. ASSUME NEW w \in world.want, lua_call(th, f, n, w)
        PROVE  Ok(st', cs', Lim)
    <2>1. w \in Int
      BY WorldIs
    <2> QED
      BY <1>2, <1>4, <2>1, CallOk
  <1>5. ASSUME NEW handler \in BOOLEAN, lua_pcall(th, f, n, handler)
        PROVE  Ok(st', cs', Lim)
    BY <1>2, <1>5, PcallOk
  <1>6. CASE CallTM(th, f)
    BY <1>2, <1>6, CallTMOk
  <1> QED
    BY <1>1, <1>3, <1>4, <1>5, <1>6

\* The invariant is kept by every step of the thread that runs.
LEMMA StepOk ==
    ASSUME NEW h, world \in Worlds, Good(st, cs, h, Lim), cs # <<>>, NEW th, Step(th)
    PROVE  Ok(st', cs', Lim)
  <1>1. \/ Call(th)
        \/ \E f \in world.fn, n \in Args :
             (\E w \in world.want : OpCall(th, f, n, w)) \/ OpTailCall(th, f, n)
        \/ \E n \in world.give : OpReturn(th, n) \/ CReturn(th, n) \/ lua_yield(th, n)
        \/ \E level \in 0 .. LUA_MINSTACK : Capture(th, st[th].base + level)
        \/ \E n \in world.room : Reserve(th, n)
        \/ OpSetList(th) \/ OpError(th) \/ lua_error(th) \/ Hook(th)
        \/ \E co \in world.co : CoCreate(th, co) \/ BadResume(th, co)
        \/ lua_settop(th)
    BY DEF Step
  <1>2. CASE Call(th)
    BY <1>2, CallsOk
  <1>3. ASSUME NEW f \in world.fn, NEW n \in Args,
               (\E w \in world.want : OpCall(th, f, n, w)) \/ OpTailCall(th, f, n)
        PROVE  Ok(st', cs', Lim)
    <2>1. f \in Fn /\ n \in Int /\ \A w \in world.want : w \in Int
      BY WorldIs
    <2>2. ASSUME NEW w \in world.want, OpCall(th, f, n, w)
          PROVE  Ok(st', cs', Lim)
      BY <2>1, <2>2, OpCallOk
    <2>3. CASE OpTailCall(th, f, n)
      BY <2>1, <2>3, OpTailCallOk
    <2> QED
      BY <1>3, <2>2, <2>3
  <1>4. ASSUME NEW n \in world.give, OpReturn(th, n) \/ CReturn(th, n) \/ lua_yield(th, n)
        PROVE  Ok(st', cs', Lim)
    <2>1. n \in Int
      BY WorldIs
    <2> QED
      BY <1>4, <2>1, OpReturnOk, CReturnOk, YieldOk
  <1>5. ASSUME NEW level, Capture(th, st[th].base + level)
        PROVE  Ok(st', cs', Lim)
    BY <1>5, CaptureOk
  <1>6. ASSUME NEW n \in world.room, Reserve(th, n)
        PROVE  Ok(st', cs', Lim)
    <2>1. n \in Int
      BY WorldIs
    <2> QED
      BY <1>6, <2>1, ReserveOk
  <1>7. ASSUME OpSetList(th) \/ OpError(th) \/ lua_error(th) \/ Hook(th) \/ lua_settop(th)
        PROVE  Ok(st', cs', Lim)
    BY <1>7, OpSetListOk, OpErrorOk, HookOk, SettopOk
  <1>8. ASSUME NEW co \in world.co, CoCreate(th, co) \/ BadResume(th, co)
        PROVE  Ok(st', cs', Lim)
    <2>1. co \in Thread
      BY WorldIs
    <2> QED
      BY <1>8, <2>1, CoCreateOk, BadResumeOk
  <1> QED
    BY <1>1, <1>2, <1>3, <1>4, <1>5, <1>6, <1>7, <1>8

\* The invariant is kept by every step.
LEMMA NextInv == IInv /\ [Next]_vars => IInv'
  <1> SUFFICES ASSUME IInv, [Next]_vars PROVE IInv'
    OBVIOUS
  <1>1. CASE UNCHANGED vars
    BY <1>1 DEF IInv, vars, Lim, LUAI_MAXCCALLS
  <1>2. CASE Next
    <2>1. world \in Worlds /\ cs # <<>> /\ UNCHANGED world
      BY <1>2 DEF IInv, Next
    <2>2. PICK h : Good(st, cs, h, Lim)
      BY DEF IInv, Ok
    <2>3. \/ Step(Top.th)
          \/ \E f \in world.fn : luaG_runerror(f)
          \/ luaD_throw
          \/ \E th \in Thread : Shrink(th)
      BY <1>2 DEF Next
    <2>4. Ok(st', cs', Lim)
      <3>1. CASE Step(Top.th)
        BY <2>1, <2>2, <3>1, StepOk
      <3>2. ASSUME NEW f \in world.fn, luaG_runerror(f)
            PROVE  Ok(st', cs', Lim)
        <4>1. f \in Fn
          BY <2>1, WorldIs
        <4> QED
          BY <2>1, <2>2, <3>2, <4>1, RunerrorOk
      <3>3. CASE luaD_throw
        BY <2>1, <2>2, <3>3, ThrowOk
      <3>4. ASSUME NEW th \in Thread, Shrink(th)
            PROVE  Ok(st', cs', Lim)
        BY <2>2, <3>4, ShrinkOk
      <3> QED
        BY <2>3, <3>1, <3>2, <3>3, <3>4
    <2> QED
      BY <2>1, <2>4 DEF IInv, Lim, LUAI_MAXCCALLS
  <1> QED
    BY <1>1, <1>2 DEF vars

\* The C stack and the threads agree, in every program: each entry is on one that may call
\* it, each thread has the frames and counts the calls of its entries, and one that is not
\* under way counts none (ldo.c:360 to 485).
THEOREM Invariance == Spec => []IInv
  <1>1. Init => IInv
    BY InitInv
  <1>2. IInv /\ [Next]_vars => IInv'
    BY NextInv
  <1> QED
    BY <1>1, <1>2, PTL DEF Spec

------------------------------------------------------------------------------
(* What follows *)

\* The calls of the thread among the first j entries.
Calls(c, t, j) == {i \in 1 .. j : c[i].k = "call" /\ c[i].th = t}
Pcalls(c, t, j) == {i \in 1 .. j : c[i].k = "pcall" /\ c[i].th = t}

\* The calls up to an entry are finitely many.
LEMMA CallsFinite ==
    ASSUME NEW c, NEW t, NEW j \in Nat
    PROVE  IsFiniteSet(Calls(c, t, j))
  <1>1. IsFiniteSet(1 .. j)
    BY FS_Interval
  <1>2. Calls(c, t, j) \subseteq 1 .. j
    BY DEF Calls
  <1> QED
    BY <1>1, <1>2, FS_Subset

\* The entry below one that starts nothing is of the same thread.
LEMMA Earlier ==
    ASSUME NEW S, NEW c, NEW h, NEW lim, Good(S, c, h, lim), NEW j \in 1 .. Len(c),
           ~Starts(c[j])
    PROVE  /\ j - 1 \in 1 .. Len(c) /\ c[j - 1].th = c[j].th
           /\ h[j] = After(h[j - 1], c[j])
  <1>1. /\ Len(c) \in Nat /\ c[1] = [k |-> "host", th |-> Main]
        /\ \A i \in 2 .. Len(c) : Above(c[i - 1], c[i]) /\ h[i] = After(h[i - 1], c[i])
    BY Shape1 DEF Good, Struct, Shaped
  <1>2. j # 1
    BY <1>1 DEF Starts
  <1>3. j \in 2 .. Len(c) /\ j - 1 \in 1 .. Len(c)
    BY <1>1, <1>2
  <1>4. Above(c[j - 1], c[j]) /\ h[j] = After(h[j - 1], c[j])
    BY <1>1, <1>3
  <1> QED
    BY <1>3, <1>4 DEF Above, Starts

\* One that starts something is the first of its thread.
LEMMA NoEarlier ==
    ASSUME NEW S, NEW c, NEW h, NEW lim, Good(S, c, h, lim), NEW j \in 1 .. Len(c),
           Starts(c[j])
    PROVE  /\ h[j].calls = 0 /\ h[j].handler = 0
           /\ \A i \in 1 .. j : c[i].th = c[j].th => i = j
  <1>1. /\ Len(c) \in Nat /\ h[1] = First
        /\ \A i \in 2 .. Len(c) : h[i] = After(h[i - 1], c[i])
    BY Shape1 DEF Good, Struct, Shaped
  <1>2. h[j].calls = 0 /\ h[j].handler = 0
    <2>1. CASE j = 1
      BY <1>1, <2>1 DEF First
    <2>2. CASE j # 1
      <3>1. j \in 2 .. Len(c)
        BY <1>1, <2>2
      <3>2. h[j] = After(h[j - 1], c[j])
        BY <1>1, <3>1
      <3> QED
        BY <3>2 DEF After
    <2> QED
      BY <2>1, <2>2
  <1>3. \A i \in 1 .. j : c[i].th = c[j].th => i = j
    BY DEF Good, Struct, Apart
  <1> QED
    BY <1>2, <1>3

\* The marks count the calls, and know the innermost lua_pcall.
Marked(c, h, j) ==
    LET t == c[j].th
    IN  /\ h[j].calls = Cardinality(Calls(c, t, j))
        /\ Pcalls(c, t, j) = {} => h[j].handler = 0
        /\ \A i \in Pcalls(c, t, j) :
              (\A n \in Pcalls(c, t, j) : n <= i) => h[j].handler = c[i].top - 1

\* The marks are the counts: of the calls and of the frames of a thread, up to each entry.
LEMMA MarkedAll ==
    ASSUME NEW S, NEW c, NEW h, NEW lim, Good(S, c, h, lim)
    PROVE  \A j \in 1 .. Len(c) : Marked(c, h, j)
  <1> DEFINE T == {j \in 1 .. Len(c) : ~Marked(c, h, j)}
  <1> SUFFICES ASSUME T # {} PROVE FALSE
    OBVIOUS
  <1>1. PICK j \in T : \A i \in T : j <= i
    <2>1. T \in SUBSET Nat
      OBVIOUS
    <2> HIDE DEF T
    <2> QED
      BY <2>1, Least
  <1>2. j \in 1 .. Len(c) /\ ~Marked(c, h, j) /\ j \in Nat /\ Len(c) \in Nat
    BY Shape1
  <1> DEFINE t == c[j].th
  <1>3. CASE Starts(c[j])
    <2>1. /\ h[j].calls = 0 /\ h[j].handler = 0
          /\ \A i \in 1 .. j : c[i].th = t => i = j
      BY <1>2, <1>3, NoEarlier
    <2>2. Calls(c, t, j) = {} /\ Pcalls(c, t, j) = {}
      BY <1>3, <2>1 DEF Calls, Pcalls, Starts
    <2>3. Cardinality({}) = 0
      BY FS_EmptySet
    <2> QED
      BY <1>2, <2>1, <2>2, <2>3 DEF Marked
  <1>4. CASE ~Starts(c[j])
    <2> DEFINE i == j - 1
    <2>1. i \in 1 .. Len(c) /\ c[i].th = t /\ h[j] = After(h[i], c[j])
      BY <1>2, <1>4, Earlier
    <2>2. Marked(c, h, i)
      <3>1. i \notin T
        BY <1>1, <1>2
      <3> QED
        BY <2>1, <3>1
    <2>3. /\ h[j].calls = h[i].calls + (IF c[j].k = "call" THEN 1 ELSE 0)
          /\ h[j].handler = IF c[j].k = "pcall" THEN c[j].top - 1 ELSE h[i].handler
      BY <1>4, <2>1 DEF After
    <2>4. i \in Nat /\ j = i + 1
      BY <1>2, <2>1
    <2> HIDE DEF i, T
    <2>5. \A n : n \in 1 .. j <=> n \in 1 .. i \/ n = j
      BY <2>4
    <2>6. /\ Calls(c, t, j) = IF c[j].k = "call" THEN Calls(c, t, i) \cup {j} ELSE Calls(c, t, i)
          /\ j \notin Calls(c, t, i)
      BY <2>4, <2>5 DEF Calls
    <2>7. /\ c[j].k = "pcall" => j \in Pcalls(c, t, j)
          /\ c[j].k # "pcall" => Pcalls(c, t, j) = Pcalls(c, t, i)
      BY <2>4, <2>5 DEF Pcalls
    <2>8. h[j].calls = Cardinality(Calls(c, t, j))
      <3>1. h[i].calls = Cardinality(Calls(c, t, i))
        BY <2>1, <2>2 DEF Marked
      <3>2. Cardinality(Calls(c, t, i) \cup {j}) = Cardinality(Calls(c, t, i)) + 1
        BY <2>4, <2>6, CallsFinite, FS_AddElement
      <3>3. h[i].calls \in Nat
        BY <2>1, Shape1
      <3>4. CASE c[j].k = "call"
        BY <2>3, <2>6, <3>1, <3>2, <3>4
      <3>5. CASE c[j].k # "call"
        BY <2>3, <2>6, <3>1, <3>3, <3>5
      <3> QED
        BY <3>4, <3>5
    <2>9. /\ Pcalls(c, t, j) = {} => h[j].handler = 0
          /\ \A a \in Pcalls(c, t, j) :
                (\A n \in Pcalls(c, t, j) : n <= a) => h[j].handler = c[a].top - 1
      <3>1. CASE c[j].k = "pcall"
        <4>1. ASSUME NEW a \in Pcalls(c, t, j), \A n \in Pcalls(c, t, j) : n <= a
              PROVE  a = j
          <5>1. j <= a
            BY <2>7, <3>1, <4>1
          <5>2. a \in 1 .. j
            BY DEF Pcalls
          <5> QED
            BY <1>2, <5>1, <5>2
        <4> QED
          BY <2>3, <2>7, <3>1, <4>1
      <3>2. CASE c[j].k # "pcall"
        <4>1. /\ Pcalls(c, t, i) = {} => h[i].handler = 0
              /\ \A a \in Pcalls(c, t, i) :
                    (\A n \in Pcalls(c, t, i) : n <= a) => h[i].handler = c[a].top - 1
          BY <2>1, <2>2 DEF Marked
        <4> QED
          BY <2>3, <2>7, <3>2, <4>1
      <3> QED
        BY <3>1, <3>2
    <2> QED
      BY <1>2, <2>8, <2>9 DEF Marked
  <1> QED
    BY <1>3, <1>4

\* The last entry of a thread, with whose mark it agrees.
LEMMA LastEntry ==
    ASSUME NEW S, NEW c, NEW h, NEW lim, Good(S, c, h, lim), NEW t \in Thread, In(c, t)
    PROVE  \E j \in 1 .. Len(c) :
              /\ c[j].th = t /\ \A i \in 1 .. Len(c) : c[i].th = t => i <= j
              /\ S[t].ncc = h[j].calls /\ S[t].errfunc \in {0, h[j].handler}
  <1> DEFINE T == {j \in 1 .. Len(c) : c[j].th = t}
  <1>1. PICK j \in T : \A i \in T : i <= j
    <2>1. T \in SUBSET (1 .. Len(c)) /\ T # {} /\ Len(c) \in Nat
      BY Shape1 DEF In
    <2> HIDE DEF T
    <2> QED
      BY <2>1, Greatest
  <1>2. j \in 1 .. Len(c) /\ c[j].th = t /\ \A i \in 1 .. Len(c) : c[i].th = t => i <= j
    BY <1>1
  <1>3. Ends(c, j)
    <2>1. ASSUME j # Len(c)
          PROVE  c[j + 1].k = "resume"
      <3>1. j + 1 \in 2 .. Len(c) /\ (j + 1) - 1 = j /\ j + 1 \in 1 .. Len(c)
        BY <1>2, <2>1, Shape1
      <3>2. Above(c[j], c[j + 1])
        BY <3>1 DEF Good, Struct, Shaped
      <3>3. c[j + 1].th # t
        <4>1. ~(j + 1 <= j)
          BY <1>2
        <4> QED
          BY <1>2, <3>1, <4>1
      <3> QED
        BY <1>2, <3>2, <3>3 DEF Above
    <2> QED
      BY <2>1 DEF Ends
  <1>4. S[t].ncc = h[j].calls /\ S[t].errfunc \in {0, h[j].handler}
    BY <1>2, <1>3 DEF Good, LiveOK, Agrees
  <1> QED
    BY <1>2, <1>4

\* A thread counts the calls of luaD_call that it has under way, and no other, however
\* calls are left: by a return, an error that is caught, or a yield (ldo.c:374 to 385,
\* 458 to 480).
THEOREM CountIsTrue == Spec => []CallsCounted
  <1>1. IInv => CallsCounted
    <2> SUFFICES ASSUME IInv, NEW t \in Thread, st[t].status \in {"ok", "yield"}
                 PROVE  st[t].ncc = Count("call", t)
      BY DEF CallsCounted
    <2>1. PICK h : Good(st, cs, h, Lim)
      BY DEF IInv, Ok
    <2>2. Len(cs) \in Nat /\ cs \in Seq(Act)
      BY <2>1, Shape1
    <2>3. Count("call", t) = Cardinality(Calls(cs, t, Len(cs)))
      <3>1. {i \in DOMAIN cs : cs[i].k = "call" /\ cs[i].th = t} = Calls(cs, t, Len(cs))
        BY <2>2 DEF Calls
      <3> QED
        BY <3>1 DEF Count
    <2>4. CASE In(cs, t)
      <3>1. PICK j \in 1 .. Len(cs) :
              /\ cs[j].th = t /\ \A i \in 1 .. Len(cs) : cs[i].th = t => i <= j
              /\ st[t].ncc = h[j].calls
        BY <2>1, <2>4, LastEntry
      <3>2. Marked(cs, h, j)
        BY <2>1, MarkedAll
      <3>3. Calls(cs, t, Len(cs)) = Calls(cs, t, j)
        <4>1. \A i \in 1 .. Len(cs) : cs[i].th = t => i \in 1 .. j
          BY <2>2, <3>1
        <4>2. \A i \in 1 .. j : i \in 1 .. Len(cs)
          BY <2>2
        <4> QED
          BY <4>1, <4>2 DEF Calls
      <3> QED
        BY <2>3, <3>1, <3>2, <3>3 DEF Marked
    <2>5. CASE ~In(cs, t)
      <3>1. st[t].ncc = 0
        BY <2>1, <2>5 DEF Good, IdleOK
      <3>2. Calls(cs, t, Len(cs)) = {}
        BY <2>5 DEF Calls, In
      <3> QED
        BY <2>3, <3>1, <3>2, FS_EmptySet
    <2> QED
      BY <2>4, <2>5
  <1> QED
    BY <1>1, Invariance, PTL

\* An error calls the handler of the innermost lua_pcall that the thread has under way, and
\* never one whose frame is gone (ldo.c:465, 482).
THEOREM HandlerIsTrue == Spec => []HandlerIsInnermost
  <1>1. IInv => HandlerIsInnermost
    <2> DEFINE P(t) == {i \in DOMAIN cs : cs[i].k = "pcall" /\ cs[i].th = t}
               i(t) == CHOOSE m \in P(t) : \A j \in P(t) : j <= m
    <2> SUFFICES ASSUME IInv, NEW t \in Thread, st[t].status \in {"ok", "yield"}
                 PROVE  IF P(t) = {} THEN st[t].errfunc = 0
                        ELSE st[t].errfunc \in {0, cs[i(t)].top - 1}
      BY DEF HandlerIsInnermost
    <2>1. PICK h : Good(st, cs, h, Lim)
      BY DEF IInv, Ok
    <2>2. Len(cs) \in Nat /\ cs \in Seq(Act)
      BY <2>1, Shape1
    <2>3. P(t) = Pcalls(cs, t, Len(cs))
      BY <2>2 DEF Pcalls
    <2>4. CASE In(cs, t)
      <3>1. PICK j \in 1 .. Len(cs) :
              /\ cs[j].th = t /\ \A a \in 1 .. Len(cs) : cs[a].th = t => a <= j
              /\ st[t].errfunc \in {0, h[j].handler}
        BY <2>1, <2>4, LastEntry
      <3>2. Marked(cs, h, j)
        BY <2>1, MarkedAll
      <3>3. P(t) = Pcalls(cs, t, j)
        <4>1. \A a \in 1 .. Len(cs) : cs[a].th = t => a \in 1 .. j
          BY <2>2, <3>1
        <4>2. \A a \in 1 .. j : a \in 1 .. Len(cs)
          BY <2>2
        <4> HIDE DEF P
        <4> QED
          BY <2>3, <4>1, <4>2 DEF Pcalls
      <3>4. P(t) # {} => i(t) \in P(t) /\ \A a \in P(t) : a <= i(t)
        <4>1. P(t) \in SUBSET (1 .. Len(cs))
          BY <2>2
        <4> HIDE DEF P
        <4>2. P(t) # {} => \E m \in P(t) : \A a \in P(t) : a <= m
          BY <2>2, <4>1, Greatest
        <4> QED
          BY <4>2
      <3> HIDE DEF P, i
      <3>5. /\ P(t) = {} => h[j].handler = 0
            /\ \A a \in P(t) : (\A n \in P(t) : n <= a) => h[j].handler = cs[a].top - 1
        BY <3>1, <3>2, <3>3 DEF Marked
      <3> QED
        BY <3>1, <3>4, <3>5
    <2>5. CASE ~In(cs, t)
      <3>1. st[t].errfunc = 0
        BY <2>1, <2>5 DEF Good, IdleOK
      <3>2. P(t) = {}
        BY <2>2, <2>5 DEF In
      <3> QED
        BY <3>1, <3>2
    <2> QED
      BY <2>4, <2>5
  <1> QED
    BY <1>1, Invariance, PTL

\* A function that lua_yield lets yield was called by luaV_execute, and that by lua_resume:
\* the jump skips no C function (ldo.c:446 to 455).
THEOREM YieldSkipsNothing == Spec => []YieldReachesResume
  <1>1. IInv => YieldReachesResume
    <2> SUFFICES ASSUME IInv, cs # <<>>, Top.k \in {"c", "hook"}, st[Top.th].ncc = 0
                 PROVE  /\ cs[Len(cs) - 1].k = "exec"
                        /\ cs[Len(cs) - 2].k = "resume" /\ cs[Len(cs) - 2].th = Top.th
      BY DEF YieldReachesResume
    <2>1. PICK h : Good(st, cs, h, Lim)
      BY DEF IInv, Ok
    <2>2. Yieldable(st, cs, h)
      BY <2>1, YieldIs DEF Top
    <2> QED
      BY <2>2 DEF Yieldable, Top
  <1> QED
    BY <1>1, Invariance, PTL

\* The list of CallInfo's grows beyond the limit once at most, for the handling of an
\* overflow, and no thread nests more C calls than the limit and its reserve allow
\* (ldo.c:66 to 73, 169 to 178, 374 to 380).
THEOREM OverflowIsContained == Spec => []OverflowContained
  <1>1. IInv => OverflowContained
    <2> SUFFICES ASSUME IInv, NEW t \in Thread
                 PROVE  /\ st[t].sizeci <= 2 * LUAI_MAXCALLS
                        /\ st[t].ncc <= LUAI_MAXCCALLS + CErrors
                        /\ Len(st[t].ci) <= st[t].sizeci
      BY DEF OverflowContained
    <2>1. PICK h : Good(st, cs, h, Lim)
      BY DEF IInv, Ok
    <2>2. ThreadOK(st[t], Lim)
      BY <2>1 DEF Good
    <2> QED
      BY <2>2 DEF ThreadOK, Lim
  <1> QED
    BY <1>1, Invariance, PTL

==============================================================================
