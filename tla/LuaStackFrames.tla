---------------------------- MODULE LuaStackFrames ----------------------------
(* Where the frames of a thread lie: each begins above the base of those before it, *)
(* and every open upvalue has an owner among them. What a lua_pcall saved lies in   *)
(* its caller's frame, below all that came later, so that an error that is caught   *)
(* closes exactly the variables of the frames it takes away.                        *)
EXTENDS LuaStackProof

------------------------------------------------------------------------------
(* The frames of a thread *)

\* A variable at level l belongs to the Lua function of frame i: it is below all later
\* frames, and below the top while that frame is the last.
Owns(L, i, l) ==
    /\ L.ci[i] \in LuaFrame /\ L.ci[i].base <= l /\ l < L.ci[i].top
    /\ \A k \in i + 1 .. Len(L.ci) : l < L.ci[k].func
    /\ i = Len(L.ci) => L.status \in Dead \/ l < L.top

\* Each frame begins above the base of those before, and each open upvalue has an owner.
Nested(L) ==
    /\ \A i \in 1 .. Len(L.ci) :
          /\ L.ci[i].func < L.ci[i].base /\ L.ci[i].base <= L.ci[i].top
          /\ L.ci[i].nres >= -1
          /\ \A k \in i + 1 .. Len(L.ci) : L.ci[i].base <= L.ci[k].func
    /\ L.ci[1].base = 1 /\ LastCI(L).base <= L.top
    /\ L.status = "ok" => L.base = LastCI(L).base
    /\ L.open \subseteq Int /\ \A l \in L.open : \E i \in 2 .. Len(L.ci) : Owns(L, i, l)

\* A frame at the same place, of the same kind.
SamePlace(f, g) ==
    /\ g.func = f.func /\ g.base = f.base /\ g.nres = f.nres
    /\ f \in LuaFrame => g \in LuaFrame

\* No frame more or less: the tops of thread and frame may change above the variables.
LEMMA Adjusted ==
    ASSUME NEW lim, NEW L, NEW M, ThreadOK(L, lim), ThreadOK(M, lim), Nested(L),
           L.status # "none", Len(M.ci) = Len(L.ci),
           \A i \in 1 .. Len(L.ci) : /\ SamePlace(L.ci[i], M.ci[i])
                                     /\ i < Len(L.ci) => L.ci[i].top <= M.ci[i].top,
           LastCI(L).base <= LastCI(M).top, LastCI(L).base <= M.top,
           M.status = "ok" => M.base = LastCI(L).base, M.open \subseteq L.open,
           \A l \in M.open : Len(L.ci) # 1 /\ Owns(L, Len(L.ci), l) =>
              l < LastCI(M).top /\ (M.status \in Dead \/ l < M.top)
    PROVE  Nested(M)
  <1> DEFINE n == Len(L.ci)
  <1>1. n \in Nat /\ n \in 1 .. n /\ Len(M.ci) = n
    BY Fields
  <1>2. \A i \in 1 .. n : /\ L.ci[i].func \in Int /\ L.ci[i].base \in Int /\ L.ci[i].top \in Int
                          /\ M.ci[i].func \in Int /\ M.ci[i].base \in Int /\ M.ci[i].top \in Int
    BY <1>1, Fields
  <1>3. \A i \in 1 .. n : M.ci[i].func = L.ci[i].func /\ M.ci[i].base = L.ci[i].base
                          /\ M.ci[i].nres = L.ci[i].nres
    BY DEF SamePlace
  <1>4. L.ci[n].base <= M.ci[n].top /\ L.ci[n].base <= M.top
    BY <1>1 DEF LastCI
  <1>5. \A i \in 1 .. n : /\ M.ci[i].func < M.ci[i].base /\ M.ci[i].nres >= -1
                          /\ \A k \in i + 1 .. n : M.ci[i].base <= M.ci[k].func
    BY <1>1, <1>3 DEF Nested
  <1>6. \A i \in 1 .. n : M.ci[i].base <= M.ci[i].top
    <2> SUFFICES ASSUME NEW i \in 1 .. n PROVE M.ci[i].base <= M.ci[i].top
      OBVIOUS
    <2>1. L.ci[i].base <= L.ci[i].top
      BY DEF Nested
    <2>2. CASE i = n
      BY <1>3, <1>4, <2>2
    <2>3. CASE i # n
      <3>1. i < n
        BY <1>1, <2>3
      <3>2. L.ci[i].top <= M.ci[i].top
        BY <3>1
      <3> QED
        BY <1>2, <1>3, <2>1, <3>2
    <2> QED
      BY <2>2, <2>3
  <1>7. ASSUME NEW l \in M.open
        PROVE  l \in Int /\ \E i \in 2 .. n : Owns(M, i, l)
    <2>1. l \in L.open /\ l \in Int
      BY DEF Nested
    <2>2. PICK i \in 2 .. n : Owns(L, i, l)
      BY <2>1 DEF Nested
    <2>3. M.ci[i] \in LuaFrame
      BY <2>2 DEF Owns, SamePlace
    <2>4. \A k \in i + 1 .. n : l < M.ci[k].func
      BY <1>1, <1>3, <2>2 DEF Owns
    <2>5. M.ci[i].base <= l
      BY <1>3, <2>2 DEF Owns
    <2>6. l < M.ci[i].top /\ (i = n => M.status \in Dead \/ l < M.top)
      <3>1. CASE i = n
        <4>1. n # 1 /\ Owns(L, Len(L.ci), l)
          BY <1>1, <2>2, <3>1
        <4> QED
          BY <1>1, <3>1, <4>1 DEF LastCI
      <3>2. CASE i # n
        <4>1. i < n /\ i \in 1 .. n
          BY <1>1, <3>2
        <4>2. L.ci[i].top <= M.ci[i].top /\ l < L.ci[i].top
          BY <2>2, <4>1 DEF Owns
        <4> QED
          BY <1>2, <2>1, <3>2, <4>1, <4>2
      <3> QED
        BY <3>1, <3>2
    <2> QED
      BY <1>1, <2>1, <2>3, <2>4, <2>5, <2>6 DEF Owns
  <1>8. M.ci[1].base = 1
    BY <1>1, <1>3 DEF Nested
  <1> QED
    BY <1>1, <1>3, <1>4, <1>5, <1>6, <1>7, <1>8 DEF Nested, LastCI

\* Tops that only rise, and a stack that is moved, change nothing.
Rises(L, M) ==
    /\ Len(M.ci) = Len(L.ci) /\ M.open = L.open /\ M.base = L.base /\ M.status = L.status
    /\ L.top <= M.top
    /\ \A i \in 1 .. Len(L.ci) : SamePlace(L.ci[i], M.ci[i]) /\ L.ci[i].top <= M.ci[i].top

LEMMA Risen ==
    ASSUME NEW lim, NEW L, NEW M, ThreadOK(L, lim), ThreadOK(M, lim), Nested(L),
           L.status # "none", Rises(L, M)
    PROVE  Nested(M)
  <1> DEFINE n == Len(L.ci)
  <1>1. n \in Nat /\ n \in 1 .. n /\ Len(M.ci) = n /\ L.top \in Int /\ M.top \in Int
    BY Fields DEF Rises
  <1>2. L.ci[n].top \in Int /\ M.ci[n].top \in Int /\ L.ci[n].base \in Int
    BY <1>1, Fields
  <1>3. L.ci[n].top <= M.ci[n].top /\ L.top <= M.top
    BY <1>1 DEF Rises
  <1>4. L.ci[n].base <= L.ci[n].top /\ L.ci[n].base <= L.top
    BY <1>1 DEF Nested, LastCI
  <1>5. \A l \in M.open : l \in Int
    BY DEF Nested, Rises
  <1>6. \A l \in M.open : Owns(L, Len(L.ci), l) =>
              l < LastCI(M).top /\ (M.status \in Dead \/ l < M.top)
    BY <1>1, <1>2, <1>3, <1>5 DEF Owns, LastCI, Rises
  <1>7. LastCI(L).base <= LastCI(M).top /\ LastCI(L).base <= M.top
    BY <1>1, <1>2, <1>3, <1>4 DEF LastCI
  <1>8. M.status = "ok" => M.base = LastCI(L).base
    BY DEF Rises, Nested
  <1> QED
    BY <1>6, <1>7, <1>8, Adjusted DEF Rises

\* A frame more, above the variables.
LEMMA Onlaid ==
    ASSUME NEW lim, NEW L, NEW M, NEW f \in CI, ThreadOK(L, lim), ThreadOK(M, lim), Nested(L),
           L.status # "none", M.ci = Append(L.ci, f), M.open = L.open, M.base = f.base,
           f.func < f.base, f.base <= f.top, f.nres >= -1, f.base <= M.top,
           LastCI(L).base <= f.func, \A l \in L.open : l < f.func
    PROVE  Nested(M)
  <1> DEFINE n == Len(L.ci)
  <1>1. n \in Nat /\ n \in 1 .. n /\ L.ci \in Seq(CI)
    BY Fields
  <1>2. Len(M.ci) = n + 1 /\ M.ci[n + 1] = f /\ \A i \in 1 .. n : M.ci[i] = L.ci[i]
    BY <1>1, Longer
  <1>3. \A i \in 1 .. n : /\ L.ci[i].func \in Int /\ L.ci[i].base \in Int /\ L.ci[i].top \in Int
    BY <1>1, Fields
  <1>4. f.func \in Int /\ f.base \in Int /\ f.top \in Int
    BY DEF CI
  <1>5. \A i \in 1 .. n : L.ci[i].base <= f.func
    <2> SUFFICES ASSUME NEW i \in 1 .. n PROVE L.ci[i].base <= f.func
      OBVIOUS
    <2>1. L.ci[n].base <= f.func
      BY DEF LastCI
    <2>2. CASE i # n
      <3>1. n \in i + 1 .. n
        BY <1>1, <2>2
      <3>2. L.ci[i].base <= L.ci[n].func /\ L.ci[n].func < L.ci[n].base
        BY <1>1, <3>1 DEF Nested
      <3>3. /\ L.ci[i].base \in Int /\ L.ci[n].func \in Int /\ L.ci[n].base \in Int
            /\ f.func \in Int
        BY <1>1, <1>3, <1>4
      <3> QED
        BY <2>1, <3>2, <3>3
    <2>3. CASE i = n
      BY <2>1, <2>3
    <2> QED
      BY <2>2, <2>3
  <1>6. ASSUME NEW i \in 1 .. n + 1
        PROVE  /\ M.ci[i].func < M.ci[i].base /\ M.ci[i].base <= M.ci[i].top
               /\ M.ci[i].nres >= -1
               /\ \A k \in i + 1 .. n + 1 : M.ci[i].base <= M.ci[k].func
    <2>1. CASE i = n + 1
      BY <1>1, <1>2, <2>1
    <2>2. CASE i \in 1 .. n
      <3>1. /\ L.ci[i].func < L.ci[i].base /\ L.ci[i].base <= L.ci[i].top /\ L.ci[i].nres >= -1
            /\ \A k \in i + 1 .. n : L.ci[i].base <= L.ci[k].func
        BY <2>2 DEF Nested
      <3>2. \A k \in i + 1 .. n + 1 : k = n + 1 \/ (k \in i + 1 .. n /\ k \in 1 .. n)
        BY <1>1, <2>2
      <3>3. \A k \in i + 1 .. n + 1 : M.ci[i].base <= M.ci[k].func
        BY <1>2, <1>5, <2>2, <3>1, <3>2
      <3> QED
        BY <1>2, <2>2, <3>1, <3>3
    <2> QED
      BY <1>1, <2>1, <2>2
  <1>7. ASSUME NEW l \in M.open
        PROVE  l \in Int /\ \E i \in 2 .. n + 1 : Owns(M, i, l)
    <2>1. l \in L.open /\ l \in Int /\ l < f.func
      BY DEF Nested
    <2>2. PICK i \in 2 .. n : Owns(L, i, l)
      BY <2>1 DEF Nested
    <2>3. i \in 1 .. n /\ i # n + 1 /\ i \in 2 .. n + 1
      BY <1>1, <2>2
    <2>4. M.ci[i] = L.ci[i]
      BY <1>2, <2>3
    <2>5. \A k \in i + 1 .. n + 1 : k = n + 1 \/ (k \in i + 1 .. n /\ k \in 1 .. n)
      BY <1>1, <2>2
    <2>6. \A k \in i + 1 .. n + 1 : l < M.ci[k].func
      BY <1>2, <2>1, <2>2, <2>5 DEF Owns
    <2>7. Owns(M, i, l)
      BY <1>2, <2>2, <2>3, <2>4, <2>6 DEF Owns
    <2> QED
      BY <2>1, <2>3, <2>7
  <1>8. M.ci[1].base = 1
    BY <1>1, <1>2 DEF Nested
  <1> QED
    BY <1>2, <1>6, <1>7, <1>8 DEF Nested, LastCI

\* Only the first m frames are left.
LEMMA Cut ==
    ASSUME NEW lim, NEW L, NEW M, NEW m, ThreadOK(L, lim), ThreadOK(M, lim), Nested(L),
           m \in 1 .. Len(L.ci), m # Len(L.ci), Len(M.ci) = m,
           \A i \in 1 .. m : SamePlace(L.ci[i], M.ci[i]) /\ L.ci[i].top <= M.ci[i].top,
           M.base = L.ci[m].base, M.base <= M.top,
           M.open \subseteq L.open, \A l \in M.open : l < L.ci[m + 1].base,
           \A l \in M.open : m # 1 /\ l < L.ci[m + 1].func /\ Owns(L, m, l)
                               => M.status \in Dead \/ l < M.top
    PROVE  Nested(M)
  <1> DEFINE n == Len(L.ci)
  <1>1. n \in Nat /\ m \in Nat /\ m + 1 \in 1 .. n
    BY Fields
  <1>2. \A i \in 1 .. n : /\ L.ci[i].func \in Int /\ L.ci[i].base \in Int /\ L.ci[i].top \in Int
    BY <1>1, Fields
  <1>3. \A i \in 1 .. m : /\ i \in 1 .. n /\ M.ci[i].func = L.ci[i].func
                          /\ M.ci[i].base = L.ci[i].base /\ M.ci[i].nres = L.ci[i].nres
                          /\ M.ci[i].top \in Int
    BY <1>1, Fields DEF SamePlace
  <1>4. \A i \in 1 .. m : /\ M.ci[i].func < M.ci[i].base /\ M.ci[i].base <= M.ci[i].top
                          /\ M.ci[i].nres >= -1
    <2> SUFFICES ASSUME NEW i \in 1 .. m
                 PROVE  /\ M.ci[i].func < M.ci[i].base /\ M.ci[i].base <= M.ci[i].top
                        /\ M.ci[i].nres >= -1
      OBVIOUS
    <2>1. /\ L.ci[i].func < L.ci[i].base /\ L.ci[i].base <= L.ci[i].top /\ L.ci[i].nres >= -1
      BY <1>3 DEF Nested
    <2>2. L.ci[i].top <= M.ci[i].top
      OBVIOUS
    <2>3. i \in 1 .. m
      OBVIOUS
    <2> QED
      BY ONLY <1>2, <1>3, <2>1, <2>2, <2>3
  <1>5. \A i \in 1 .. m : \A k \in i + 1 .. m : M.ci[i].base <= M.ci[k].func
    BY <1>1, <1>3 DEF Nested
  <1>6. ASSUME NEW l \in M.open
        PROVE  l \in Int /\ \E i \in 2 .. m : Owns(M, i, l)
    <2>1. l \in L.open /\ l \in Int /\ l < L.ci[m + 1].base
      BY DEF Nested
    <2>2. PICK i \in 2 .. n : Owns(L, i, l)
      BY <2>1 DEF Nested
    <2>3. i \in 1 .. n /\ i \in Nat
      BY <1>1, <2>2
    <2>4. i <= m
      <3>1. CASE i = m + 1
        BY <1>2, <2>1, <2>2, <3>1, <1>1 DEF Owns
      <3>2. CASE m + 1 < i
        <4>1. i \in (m + 1) + 1 .. n
          BY <1>1, <2>3, <3>2
        <4>2. L.ci[m + 1].base <= L.ci[i].func /\ L.ci[i].func < L.ci[i].base
          BY <1>1, <2>3, <4>1 DEF Nested
        <4>3. L.ci[i].base <= l
          BY <2>2 DEF Owns
        <4> QED
          BY <1>1, <1>2, <2>1, <2>3, <4>2, <4>3
      <3> QED
        BY <1>1, <2>3, <3>1, <3>2
    <2>5. i \in 1 .. m /\ i \in 2 .. m
      BY <1>1, <2>2, <2>4
    <2>6. M.ci[i] \in LuaFrame /\ M.ci[i].base <= l
      BY <1>3, <2>2, <2>5 DEF Owns, SamePlace
    <2>7. l < M.ci[i].top
      <3>1. l < L.ci[i].top /\ L.ci[i].top <= M.ci[i].top
        BY <2>2, <2>5 DEF Owns
      <3> QED
        BY <1>2, <1>3, <2>1, <2>3, <2>5, <3>1
    <2>8. \A k \in i + 1 .. m : k \in i + 1 .. n /\ k \in 1 .. m
      BY <1>1, <2>5
    <2>9. \A k \in i + 1 .. m : l < M.ci[k].func
      BY <1>3, <2>2, <2>8 DEF Owns
    <2>10. i = m => M.status \in Dead \/ l < M.top
      <3> SUFFICES ASSUME i = m PROVE M.status \in Dead \/ l < M.top
        OBVIOUS
      <3>1. m + 1 \in i + 1 .. n
        BY <1>1
      <3>2. l < L.ci[m + 1].func
        BY <2>2, <3>1 DEF Owns
      <3>3. Owns(L, m, l) /\ m # 1
        BY <1>1, <2>2
      <3> QED
        BY <3>2, <3>3
    <2> QED
      BY <1>1, <2>1, <2>5, <2>6, <2>7, <2>9, <2>10 DEF Owns
  <1>7. M.ci[1].base = 1 /\ LastCI(M).base = M.base
    <2>1. m \in 1 .. m /\ 1 \in 1 .. m
      BY <1>1
    <2>2. M.ci[m].base = L.ci[m].base /\ M.ci[1].base = L.ci[1].base
      BY <1>3, <2>1
    <2> QED
      BY <2>2 DEF LastCI, Nested
  <1> QED
    BY <1>4, <1>5, <1>6, <1>7 DEF Nested, LastCI

------------------------------------------------------------------------------
(* The entries of the C stack and the frames *)

\* What a lua_pcall saved lies in its caller's frame, below all that came later.
Clear(L, p) ==
    /\ L.ci[p.ci].base <= p.top
    /\ \A k \in p.ci + 1 .. Len(L.ci) : p.top <= L.ci[k].func
    /\ p.ci = Len(L.ci) => p.top <= L.top

\* An entry, and the frame of the function a luaD_call has called.
Placed(S, c, h, j) ==
    /\ c[j].k # "hook"
    /\ c[j].k = "pcall" => Clear(S[c[j].th], c[j])
    /\ c[j].k = "call" =>
          /\ c[j].for \in {"tm", "handler"} => c[j].nres = 1
          /\ c[j].for = "pcall" => c[j].nres = -1
          /\ j < Len(c) /\ c[j + 1].k \in {"c", "exec"}
                => S[c[j].th].ci[h[j].frames + 1].nres = c[j].nres

LiesIn(L) == IF L.status = "none" THEN L.open = {} ELSE Nested(L)
Waits(S, c) == c # <<>> => \A t \in Thread : S[t].status = "ok" /\ ~In(c, t) => Len(S[t].ci) = 1
Lies(S, c, h) ==
    /\ \A t \in Thread : LiesIn(S[t])
    /\ Waits(S, c)
    /\ \A j \in 1 .. Len(c) : Placed(S, c, h, j)

\* Equal entries have equal marks.
LEMMA MarksAgree ==
    ASSUME NEW c, NEW h, NEW c1, NEW h1, Shaped(c, h), Shaped(c1, h1), NEW m \in 0 .. Len(c),
           m <= Len(c1), \A j \in 1 .. m : c1[j] = c[j]
    PROVE  \A j \in 1 .. m : h1[j] = h[j]
  <1> DEFINE T == {j \in 1 .. m : h1[j] # h[j]}
  <1>1. Len(c) \in Nat /\ Len(c1) \in Nat /\ m \in Nat /\ T \in SUBSET Nat
    BY DEF Shaped
  <1>2. ASSUME T # {} PROVE FALSE
    <2>1. PICK j \in T : \A i \in T : j <= i
      BY <1>1, <1>2, Least
    <2>2. CASE j = 1
      <3>1. c # <<>> /\ c1 # <<>>
        BY <1>1, <2>1, <2>2
      <3> QED
        BY <2>1, <2>2, <3>1 DEF Shaped
    <2>3. CASE j # 1
      <3>1. j \in 2 .. Len(c) /\ j \in 2 .. Len(c1) /\ j - 1 \in 1 .. m /\ ~(j <= j - 1)
        BY <1>1, <2>1, <2>3
      <3>2. h1[j - 1] = h[j - 1]
        BY <2>1, <3>1
      <3>3. h1[j] = After(h1[j - 1], c1[j]) /\ h[j] = After(h[j - 1], c[j])
        BY <3>1 DEF Shaped
      <3> QED
        BY <2>1, <3>2, <3>3
    <2> QED
      BY <2>2, <2>3
  <1> QED
    BY <1>2

\* The frame of a function that luaD_call has called.
LEMMA CallFrame ==
    ASSUME NEW S, NEW c, NEW h, NEW lim, Good(S, c, h, lim), NEW j \in 1 .. Len(c),
           j < Len(c), c[j].k = "call", c[j + 1].k \in {"c", "exec"}
    PROVE  c[j + 1].th = c[j].th /\ h[j].frames + 1 \in 1 .. Len(S[c[j].th].ci)
  <1>1. j \in Nat /\ j + 1 \in 1 .. Len(c) /\ j + 1 \in 2 .. Len(c) /\ (j + 1) - 1 = j
    BY Shape1
  <1>2. /\ c[j + 1] \in Act /\ h[j].frames \in Nat /\ h[j + 1].frames \in Nat
        /\ c[j].th \in Thread
    BY <1>1, Shape1
  <1>3. Above(c[j], c[j + 1]) /\ h[j + 1] = After(h[j], c[j + 1])
    BY <1>1 DEF Good, Struct, Shaped
  <1>4. c[j + 1].th = c[j].th
    BY <1>3 DEF Above
  <1>5. c[j + 1].k = "exec" => c[j + 1].n \in Nat \ {0}
    BY <1>2, ActFacts
  <1>6. h[j + 1].frames >= h[j].frames + 1
    BY <1>2, <1>3, <1>5 DEF After, Starts
  <1>7. LiveOK(S[c[j].th], c, h, c[j].th) /\ ThreadOK(S[c[j].th], lim)
    BY <1>2 DEF Good
  <1>8. h[j + 1].frames <= Len(S[c[j].th].ci) /\ Len(S[c[j].th].ci) \in Nat
    BY <1>1, <1>4, <1>7, Fields DEF LiveOK, Agrees
  <1> DEFINE a == h[j].frames
             b == h[j + 1].frames
             n == Len(S[c[j].th].ci)
  <1>9. a \in Nat /\ b \in Nat /\ n \in Nat /\ a + 1 <= b /\ b <= n
    BY <1>2, <1>6, <1>8
  <1> HIDE DEF a, b, n
  <1>10. a + 1 \in 1 .. n
    BY <1>9
  <1> QED
    BY <1>4, <1>10 DEF a, n

\* The frame of the function that called lua_pcall.
LEMMA PcallFrame ==
    ASSUME NEW S, NEW c, NEW h, NEW lim, Good(S, c, h, lim), NEW j \in 1 .. Len(c),
           c[j].k = "pcall"
    PROVE  /\ c[j].ci \in 1 .. Len(S[c[j].th].ci) /\ c[j].ci = h[j].frames
           /\ c[j].top \in Int /\ c[j].th \in Thread
  <1>1. c[j] \in Act /\ h[j] \in Mark /\ c[j].th \in Thread /\ c[j].top \in Int
    BY Shape1, ActFacts
  <1>2. c[j].ci = h[j].frames
    BY DEF Good, Struct, Saved
  <1>3. LiveOK(S[c[j].th], c, h, c[j].th) /\ ThreadOK(S[c[j].th], lim)
    BY <1>1 DEF Good
  <1>4. h[j].frames <= Len(S[c[j].th].ci) /\ Len(S[c[j].th].ci) \in Nat
    BY <1>3, Fields DEF LiveOK, Agrees
  <1>5. h[j].frames \in Nat \ {0}
    BY <1>1 DEF Mark
  <1> QED
    BY <1>1, <1>2, <1>4, <1>5

\* The last function of a thread is none of those that called a lua_pcall under way.
LEMMA PcallBelow ==
    ASSUME NEW S, NEW c, NEW h, NEW lim, Good(S, c, h, lim), NEW e \in 1 .. Len(c), Ends(c, e),
           c[e].k \in {"c", "exec", "host"}, NEW j \in 1 .. Len(c), c[j].k = "pcall",
           c[j].th = c[e].th
    PROVE  c[j].ci < Len(S[c[e].th].ci)
  <1>1. /\ Len(c) \in Nat /\ e \in Nat /\ j \in Nat /\ c[e] \in Act /\ c[e].th \in Thread
        /\ h[j].frames \in Nat /\ h[e].frames \in Nat
    BY Shape1
  <1>2. j < e
    <2>1. j # e
      OBVIOUS
    <2>2. ASSUME e < j PROVE FALSE
      <3>1. e \in 1 .. j /\ e + 1 \in e .. j /\ e + 1 \in 1 .. Len(c) /\ e \in 1 .. e + 1
            /\ e # e + 1 /\ e # Len(c)
        BY <1>1, <2>2
      <3>2. c[e + 1].th = c[j].th
        BY <3>1 DEF Good, Struct, Apart
      <3>3. Starts(c[e + 1])
        BY <3>1 DEF Ends, Starts
      <3>4. c[e].th # c[e + 1].th
        BY <3>1, <3>3 DEF Good, Struct, Apart
      <3> QED
        BY <3>2, <3>4
    <2> QED
      BY <1>1, <2>1, <2>2
  <1>3. e \in 2 .. Len(c) /\ e - 1 \in 1 .. Len(c) /\ j \in 1 .. e - 1 /\ j \in 1 .. e
        /\ e - 1 \in j .. e
    BY <1>1, <1>2
  <1>4. c[e - 1].th = c[e].th
    BY <1>3 DEF Good, Struct, Apart
  <1>5. h[j].frames <= h[e - 1].frames
    BY <1>3, <1>4 DEF Good, Struct, Apart
  <1>6. c[e].k # "host" /\ h[e] = After(h[e - 1], c[e])
    BY <1>3 DEF Good, Struct, Shaped
  <1>7. c[e].k = "exec" => c[e].n \in Nat \ {0}
    BY <1>1, ActFacts
  <1>8. h[e - 1].frames \in Nat
    BY <1>3, Shape1
  <1>9. h[e].frames >= h[e - 1].frames + 1
    BY <1>1, <1>6, <1>7, <1>8 DEF After, Starts
  <1>10. LiveOK(S[c[e].th], c, h, c[e].th)
    BY <1>1 DEF Good
  <1>11. Len(S[c[e].th].ci) = h[e].frames
    BY <1>10 DEF LiveOK, Agrees
  <1>12. c[j].ci = h[j].frames
    BY PcallFrame
  <1> QED
    BY <1>1, <1>5, <1>8, <1>9, <1>11, <1>12

\* A step of the C stack, of which the first m entries stay, and of the threads.
Settles(S, S1, c, h, c1, h1, m) ==
    /\ \A u \in Thread : LiesIn(S1[u])
    /\ \A u \in Thread : In(c, u) =>
          \A i \in 1 .. Len(S[u].ci) : i <= Len(S1[u].ci) => S1[u].ci[i].nres = S[u].ci[i].nres
    /\ \A j \in 1 .. m : c[j].k = "pcall" => Clear(S1[c[j].th], c[j])
    /\ \A j \in m + 1 .. Len(c1) : Placed(S1, c1, h1, j)
    /\ m \in 1 .. Len(c1) - 1 /\ c[m].k = "call" /\ c1[m + 1].k \in {"c", "exec"}
          => m < Len(c) /\ c[m + 1].k \in {"c", "exec"}
    /\ Waits(S1, c1)

LEMMA LiesStep ==
    ASSUME NEW S, NEW c, NEW h, NEW lim, Good(S, c, h, lim), Lies(S, c, h),
           NEW S1, NEW c1, NEW h1, Good(S1, c1, h1, lim), NEW m \in 0 .. Len(c),
           m <= Len(c1), \A j \in 1 .. m : c1[j] = c[j], Settles(S, S1, c, h, c1, h1, m)
    PROVE  Lies(S1, c1, h1)
  <1>1. Len(c) \in Nat /\ Len(c1) \in Nat /\ m \in Nat /\ Shaped(c, h) /\ Shaped(c1, h1)
    BY Shape1 DEF Good, Struct
  <1>2. \A j \in 1 .. m : h1[j] = h[j] /\ j \in 1 .. Len(c) /\ j \in 1 .. Len(c1)
    BY <1>1, MarksAgree
  <1>3. ASSUME NEW j \in 1 .. m
        PROVE  Placed(S1, c1, h1, j)
    <2>1. /\ c1[j] = c[j] /\ h1[j] = h[j] /\ j \in 1 .. Len(c) /\ j \in 1 .. Len(c1)
          /\ Placed(S, c, h, j)
      BY <1>2 DEF Lies
    <2>2. c1[j].k = "pcall" => Clear(S1[c1[j].th], c1[j])
      BY <2>1 DEF Settles
    <2>3. ASSUME c1[j].k = "call", j < Len(c1), c1[j + 1].k \in {"c", "exec"}
          PROVE  S1[c1[j].th].ci[h1[j].frames + 1].nres = c1[j].nres
      <3>1. j < Len(c) /\ c[j + 1].k \in {"c", "exec"}
        <4>1. CASE j < m
          <5>1. j + 1 \in 1 .. m
            BY <1>1, <4>1
          <5>2. c1[j + 1] = c[j + 1] /\ j + 1 \in 1 .. Len(c)
            BY <1>2, <5>1
          <5> QED
            BY <1>1, <2>3, <5>2
        <4>2. CASE j = m
          <5>1. m \in 1 .. Len(c1) - 1
            BY <1>1, <2>3, <4>2
          <5> QED
            BY <2>1, <2>3, <4>2, <5>1 DEF Settles
        <4> QED
          BY <1>1, <4>1, <4>2
      <3>2. h[j].frames + 1 \in 1 .. Len(S[c[j].th].ci)
        BY <2>1, <2>3, <3>1, CallFrame
      <3>3. h1[j].frames + 1 \in 1 .. Len(S1[c1[j].th].ci)
        BY <2>1, <2>3, CallFrame
      <3>4. S[c[j].th].ci[h[j].frames + 1].nres = c[j].nres
        BY <2>1, <2>3, <3>1 DEF Placed
      <3>5. c[j].th \in Thread /\ In(c, c[j].th)
        BY <2>1, Shape1 DEF In
      <3>6. h[j].frames + 1 <= Len(S1[c[j].th].ci)
        BY <2>1, <3>3
      <3> QED
        BY <2>1, <3>2, <3>4, <3>5, <3>6 DEF Settles
    <2> QED
      BY <2>1, <2>2, <2>3 DEF Placed
  <1>4. ASSUME NEW j \in 1 .. Len(c1)
        PROVE  Placed(S1, c1, h1, j)
    <2>1. j \in 1 .. m \/ j \in m + 1 .. Len(c1)
      BY <1>1
    <2> QED
      BY <1>3, <2>1 DEF Settles
  <1> QED
    BY <1>4 DEF Lies, Settles

\* What a thread is beneath the first m entries of a C stack, before and after a step.
Fares(L, M, c, m, t) ==
    /\ LiesIn(M)
    /\ In(c, t) => \A i \in 1 .. Len(L.ci) : i <= Len(M.ci) => M.ci[i].nres = L.ci[i].nres
    /\ \A j \in 1 .. m : c[j].k = "pcall" /\ c[j].th = t => Clear(M, c[j])

\* A thread that is as it was, or whose tops have risen, fares well.
LEMMA RisesFares ==
    ASSUME NEW S, NEW c, NEW h, NEW lim, Good(S, c, h, lim), Lies(S, c, h), NEW t \in Thread,
           NEW M, ThreadOK(M, lim), Rises(S[t], M), S[t].status # "none", NEW m \in 0 .. Len(c)
    PROVE  Fares(S[t], M, c, m, t)
  <1>1. ThreadOK(S[t], lim) /\ Nested(S[t])
    BY DEF Good, Lies, LiesIn
  <1>2. Nested(M) /\ M.status = S[t].status
    BY <1>1, Risen DEF Rises
  <1>3. \A i \in 1 .. Len(S[t].ci) : /\ M.ci[i].nres = S[t].ci[i].nres
                                     /\ M.ci[i].func = S[t].ci[i].func
                                     /\ M.ci[i].base = S[t].ci[i].base
    BY DEF Rises, SamePlace
  <1>4. ASSUME NEW j \in 1 .. m, c[j].k = "pcall", c[j].th = t
        PROVE  Clear(M, c[j])
    <2>1. j \in 1 .. Len(c)
      BY Shape1
    <2>2. c[j].ci \in 1 .. Len(S[t].ci) /\ c[j].top \in Int /\ Clear(S[t], c[j])
      BY <1>4, <2>1, PcallFrame DEF Lies, Placed
    <2>3. Len(M.ci) = Len(S[t].ci) /\ S[t].top <= M.top /\ S[t].top \in Int /\ M.top \in Int
      BY <1>1, Fields DEF Rises
    <2>4. Len(S[t].ci) \in Nat
      BY <1>1, Fields
    <2>5. \A k \in c[j].ci + 1 .. Len(M.ci) : c[j].top <= M.ci[k].func
      BY ONLY <1>3, <2>2, <2>3, <2>4 DEF Clear
    <2> QED
      BY ONLY <1>3, <2>2, <2>3, <2>5 DEF Clear
  <1> QED
    BY <1>2, <1>3, <1>4 DEF Fares, LiesIn

\* One that nothing changes.
LEMMA StaysFares ==
    ASSUME NEW S, NEW c, NEW h, NEW lim, Good(S, c, h, lim), Lies(S, c, h), NEW t \in Thread,
           NEW m \in 0 .. Len(c)
    PROVE  Fares(S[t], S[t], c, m, t)
  <1>1. LiesIn(S[t])
    BY DEF Lies
  <1>2. \A j \in 1 .. m : c[j].k = "pcall" /\ c[j].th = t => Clear(S[t], c[j])
    <2>1. \A j \in 1 .. m : j \in 1 .. Len(c)
      BY Shape1
    <2> QED
      BY <2>1 DEF Lies, Placed
  <1> QED
    BY <1>1, <1>2 DEF Fares

\* A step of any threads that changes entries from the m-th on.
LEMMA LiesAll ==
    ASSUME NEW S, NEW c, NEW h, NEW lim, Good(S, c, h, lim), Lies(S, c, h),
           NEW S1, NEW c1, NEW h1, Good(S1, c1, h1, lim), NEW m \in 0 .. Len(c),
           m <= Len(c1), \A j \in 1 .. m : c1[j] = c[j],
           \A u \in Thread : Fares(S[u], S1[u], c, m, u), Waits(S1, c1),
           \A j \in m + 1 .. Len(c1) : Placed(S1, c1, h1, j),
           m \in 1 .. Len(c1) - 1 /\ c[m].k = "call" /\ c1[m + 1].k \in {"c", "exec"}
              => m < Len(c) /\ c[m + 1].k \in {"c", "exec"}
    PROVE  Lies(S1, c1, h1)
  <1>1. \A j \in 1 .. m : c[j].k = "pcall" => Clear(S1[c[j].th], c[j])
    <2> SUFFICES ASSUME NEW j \in 1 .. m, c[j].k = "pcall"
                 PROVE  Clear(S1[c[j].th], c[j])
      OBVIOUS
    <2>1. c[j].th \in Thread
      BY Shape1
    <2> QED
      BY <2>1 DEF Fares
  <1>2. Settles(S, S1, c, h, c1, h1, m)
    BY <1>1 DEF Settles, Fares
  <1> QED
    BY <1>2, LiesStep

\* A step that changes one thread, and entries from the m-th on.
LEMMA LiesOne ==
    ASSUME NEW S, NEW c, NEW h, NEW lim, Good(S, c, h, lim), Lies(S, c, h), c # <<>>,
           NEW S1, NEW c1, NEW h1, Good(S1, c1, h1, lim), NEW m \in 0 .. Len(c),
           m <= Len(c1), \A j \in 1 .. m : c1[j] = c[j],
           NEW t \in Thread, NEW M, S1 = [S EXCEPT ![t] = M], Fares(S[t], M, c, m, t),
           \A j \in m + 1 .. Len(c1) : Placed(S1, c1, h1, j),
           m \in 1 .. Len(c1) - 1 /\ c[m].k = "call" /\ c1[m + 1].k \in {"c", "exec"}
              => m < Len(c) /\ c[m + 1].k \in {"c", "exec"},
           M.status = "ok" /\ ~In(c1, t) => Len(M.ci) = 1,
           \A u \in Thread : u # t /\ In(c, u) => In(c1, u)
    PROVE  Lies(S1, c1, h1)
  <1>1. S = [u \in Thread |-> S[u]]
    BY DEF Good
  <1>2. S1[t] = M /\ \A u \in Thread : u # t => S1[u] = S[u]
    BY <1>1
  <1>3. \A u \in Thread : Fares(S[u], S1[u], c, m, u)
    BY <1>2, StaysFares
  <1>4. Waits(S1, c1)
    BY <1>2 DEF Waits, Lies
  <1> QED
    BY <1>3, <1>4, LiesAll

\* A step that leaves the C stack and changes one thread.
LEMMA LiesSame ==
    ASSUME NEW h, NEW g, Good(st, cs, h, Lim), Lies(st, cs, h), cs # <<>>,
           Good(st', cs', g, Lim), cs' = cs, NEW t \in Thread, NEW M,
           st' = [st EXCEPT ![t] = M], Fares(st[t], M, cs, Len(cs), t),
           M.status = "ok" /\ ~In(cs, t) => Len(M.ci) = 1
    PROVE  Lies(st', cs', g)
  <1> DEFINE n == Len(cs)
  <1>1. n \in Nat
    BY Shape1
  <1>2. \A j \in n + 1 .. n : Placed(st', cs', g, j)
    BY <1>1
  <1>3. n \in 0 .. n /\ n <= n /\ ~(n \in 1 .. n - 1)
    BY <1>1
  <1> QED
    BY <1>2, <1>3, LiesOne

\* Entries that are neither calls nor hooks need no frame.
Plain(x) == x.k \notin {"hook", "pcall", "call"}
LEMMA PlainPlaced ==
    ASSUME NEW S, NEW c, NEW h, NEW j, Plain(c[j])
    PROVE  Placed(S, c, h, j)
  BY DEF Plain, Placed

\* A plain entry more, on top of the C stack.
LEMMA LiesPush ==
    ASSUME NEW h, NEW g, Good(st, cs, h, Lim), Lies(st, cs, h), cs # <<>>,
           Good(st', cs', g, Lim), NEW x, Plain(x), cs' = Append(cs, x),
           x.k \in {"c", "exec"} => cs[Len(cs)].k # "call",
           NEW t \in Thread, t = cs[Len(cs)].th, NEW M,
           st' = [st EXCEPT ![t] = M], Fares(st[t], M, cs, Len(cs), t)
    PROVE  Lies(st', cs', g)
  <1> DEFINE n == Len(cs)
  <1>1. n \in Nat \ {0} /\ cs \in Seq(Act)
    BY Shape1
  <1>2. Len(cs') = n + 1 /\ cs'[n + 1] = x /\ \A j \in 1 .. n : cs'[j] = cs[j]
    BY <1>1
  <1>3. \A j \in n + 1 .. n + 1 : Placed(st', cs', g, j)
    <2>1. \A j \in n + 1 .. n + 1 : j = n + 1
      BY <1>1
    <2> QED
      BY <1>2, <2>1, PlainPlaced
  <1>4. \A u \in Thread : In(cs, u) => In(cs', u)
    BY <1>1, <1>2 DEF In
  <1>5. In(cs, t)
    BY <1>1 DEF In
  <1>6. n \in 0 .. n /\ n <= n + 1
    BY <1>1
  <1>7. n \in 1 .. (n + 1) - 1 /\ cs[n].k = "call" /\ cs'[n + 1].k \in {"c", "exec"} => FALSE
    BY <1>2
  <1> QED
    BY <1>2, <1>3, <1>4, <1>5, <1>6, <1>7, LiesOne

------------------------------------------------------------------------------
(* Steps that change one frame at most *)

\* An operation that lets the tops of a thread rise.
LEMMA LiesRisen ==
    ASSUME NEW h, NEW g, Good(st, cs, h, Lim), Lies(st, cs, h), cs # <<>>,
           Good(st', cs', g, Lim), cs' = cs, NEW t \in Thread, st[t].status # "none",
           NEW M, st' = [st EXCEPT ![t] = M], Rises(st[t], M)
    PROVE  Lies(st', cs', g)
  <1>1. st = [u \in Thread |-> st[u]] /\ st'[t] = M
    BY DEF Good
  <1>2. ThreadOK(M, Lim)
    BY <1>1 DEF Good
  <1>3. Len(cs) \in 0 .. Len(cs)
    BY Shape1
  <1>4. Fares(st[t], M, cs, Len(cs), t)
    BY <1>2, <1>3, RisesFares
  <1>5. M.status = "ok" /\ ~In(cs, t) => Len(M.ci) = 1
    BY DEF Rises, Lies, Waits
  <1> QED
    BY <1>4, <1>5, LiesSame

\* A thread rises to itself.
LEMMA RisesSelf ==
    ASSUME NEW lim, NEW L, ThreadOK(L, lim)
    PROVE  Rises(L, L)
  <1>1. L.top \in Int /\ \A i \in 1 .. Len(L.ci) : L.ci[i].top \in Int
    BY Fields
  <1> QED
    BY <1>1 DEF Rises, SamePlace

LEMMA CheckStackRises ==
    ASSUME NEW lim, NEW L, ThreadOK(L, lim), NEW n
    PROVE  Rises(L, checkstack(L, n))
  <1> DEFINE M == checkstack(L, n)
  <1>1. L.top \in Int /\ \A i \in 1 .. Len(L.ci) : L.ci[i].top \in Int
    BY Fields
  <1>2. /\ M.ci = L.ci /\ M.open = L.open /\ M.base = L.base /\ M.status = L.status
        /\ M.top = L.top
    BY DEF checkstack, ThreadOK
  <1> HIDE DEF M
  <1>3. Rises(L, M)
    BY <1>1, <1>2 DEF Rises, SamePlace
  <1> QED
    BY <1>3 DEF M

\* OP_ERROR and lua_error leave the frames.
LEMMA ErrorLies ==
    ASSUME NEW h, Good(st, cs, h, Lim), Lies(st, cs, h), cs # <<>>, NEW th,
           OpError(th) \/ lua_error(th), NEW g, Good(st', cs', g, Lim)
    PROVE  Lies(st', cs', g)
  <1>1. /\ th \in Thread /\ th = cs[Len(cs)].th /\ ThreadOK(st[th], Lim)
        /\ st[th].status = "ok"
    <2>1. Running({"exec", "c", "hook"}, th)
      BY DEF OpError, lua_error, Running
    <2> QED
      BY <2>1, Runs
  <1>2. st' = [st EXCEPT ![th] = st[th]] /\ cs' = Append(cs, Raise(th))
    BY DEF OpError, lua_error, Become
  <1>3. Plain(Raise(th)) /\ Raise(th).k = "raise"
    BY DEF Plain, Raise
  <1>4. Len(cs) \in 0 .. Len(cs)
    BY Shape1
  <1>5. Fares(st[th], st[th], cs, Len(cs), th)
    BY <1>1, <1>4, StaysFares
  <1> QED
    BY <1>1, <1>2, <1>3, <1>5, LiesPush

\* The last function of a thread that calls lua_resume or runs is a C function, the host
\* program's frame, or a Lua function.
LEMMA LastIs ==
    ASSUME NEW S, NEW c, NEW h, NEW lim, Good(S, c, h, lim), NEW e \in 1 .. Len(c), Ends(c, e),
           NEW t, t = c[e].th
    PROVE  /\ t \in Thread /\ In(c, t) /\ S[t].status = "ok"
           /\ c[e].k = "host" => Len(S[t].ci) = 1
           /\ c[e].k = "c" => LastCI(S[t]) \notin LuaFrame
           /\ c[e].k = "exec" => LastCI(S[t]) \in LuaFrame /\ Len(S[t].ci) # 1
  <1>1. /\ c[e] \in Act /\ t \in Thread /\ e \in Nat /\ Len(c) \in Nat /\ h[e].frames \in Nat
    BY Shape1
  <1>2. S[t].status = "ok" /\ Agrees(S[t], c[e], h[e], TRUE)
    BY <1>1 DEF Good, LiveOK
  <1>3. Len(S[t].ci) = h[e].frames
    BY <1>2 DEF Agrees
  <1>4. ASSUME c[e].k = "host" PROVE Len(S[t].ci) = 1
    <2>1. e = 1
      <3>1. ~(e \in 2 .. Len(c))
        BY <1>4 DEF Good, Struct, Shaped
      <3> QED
        BY <1>1, <3>1
    <2>2. c # <<>>
      BY <1>1, <2>1
    <2>3. h[1] = First /\ First.frames = 1
      BY <2>2 DEF Good, Struct, Shaped, First
    <2> QED
      BY <1>3, <2>1, <2>3
  <1>5. c[e].k = "c" => LastCI(S[t]) \notin LuaFrame
    BY <1>2, <1>3 DEF Agrees, LastCI, CFrame, LuaFrame
  <1>6. ASSUME c[e].k = "exec" PROVE LastCI(S[t]) \in LuaFrame /\ Len(S[t].ci) # 1
    <2>1. c[e].n \in Nat \ {0} /\ e # 1
      <3>1. e = 1 => c[e].k = "host"
        <4>1. e = 1 => c # <<>>
          BY <1>1
        <4> QED
          BY <4>1 DEF Good, Struct, Shaped
      <3> QED
        BY <1>1, <1>6, <3>1, ActFacts
    <2>2. e \in 2 .. Len(c) /\ e - 1 \in 1 .. Len(c)
      BY <1>1, <2>1
    <2>3. h[e] = After(h[e - 1], c[e]) /\ h[e - 1] \in Mark
      BY <2>2, Shape1 DEF Good, Struct, Shaped
    <2>4. h[e].frames = h[e - 1].frames + c[e].n /\ h[e - 1].frames \in Nat \ {0}
      BY <1>6, <2>3 DEF After, Starts, Mark
    <2> DEFINE n == Len(S[t].ci)
    <2>5. n \in Nat /\ n - c[e].n + 1 \in 1 .. n /\ n # 1
      <3>1. \A a, b, d : a \in Nat \ {0} /\ b \in Nat \ {0} /\ d = a + b
                         => d \in Nat /\ d - b + 1 \in 1 .. d /\ d # 1
        OBVIOUS
      <3>2. n = h[e].frames
        BY <1>3
      <3> HIDE DEF n
      <3> QED
        BY ONLY <2>1, <2>4, <3>1, <3>2
    <2> HIDE DEF n
    <2>6. n \in n - c[e].n + 1 .. n
      BY <2>1, <2>5
    <2>7. S[t].ci[n] \in LuaFrame
      BY <1>2, <1>3, <1>6, <2>6 DEF Agrees, n
    <2> QED
      BY <2>5, <2>7 DEF LastCI, n
  <1>7. In(c, t)
    BY DEF In
  <1> QED
    BY <1>1, <1>2, <1>4, <1>5, <1>6, <1>7

\* The top of a thread is set.
LEMMA TopFares ==
    ASSUME NEW S, NEW c, NEW h, NEW lim, Good(S, c, h, lim), Lies(S, c, h), NEW t \in Thread,
           NEW M, ThreadOK(M, lim), S[t].status # "none", NEW m \in 0 .. Len(c),
           M.ci = S[t].ci, M.open = S[t].open, M.status = S[t].status, M.base = S[t].base,
           LastCI(M).base <= M.top,
           \A l \in M.open : Len(M.ci) # 1 /\ Owns(S[t], Len(M.ci), l)
              => M.status \in Dead \/ l < M.top,
           \A j \in 1 .. m : c[j].k = "pcall" /\ c[j].th = t /\ c[j].ci = Len(M.ci)
                               => c[j].top <= M.top
    PROVE  Fares(S[t], M, c, m, t)
  <1>1. ThreadOK(S[t], lim) /\ Nested(S[t])
    BY DEF Good, Lies, LiesIn
  <1>2. /\ Len(M.ci) \in 1 .. Len(M.ci) /\ Len(S[t].ci) = Len(M.ci) /\ Len(M.ci) \in Nat
        /\ \A i \in 1 .. Len(M.ci) : M.ci[i].top \in Int
    BY <1>1, Fields
  <1>3. \A i \in 1 .. Len(M.ci) : SamePlace(S[t].ci[i], M.ci[i]) /\ S[t].ci[i].top <= M.ci[i].top
    BY <1>2 DEF SamePlace
  <1>4. \A l \in M.open : Len(M.ci) # 1 /\ Owns(S[t], Len(M.ci), l) => l < LastCI(M).top
    BY DEF Owns, LastCI
  <1>5. LastCI(S[t]).base <= LastCI(M).top
    BY <1>1, <1>2 DEF Nested, LastCI
  <1>6. M.status = "ok" => M.base = LastCI(S[t]).base
    BY <1>1 DEF Nested
  <1>7. LastCI(S[t]) = LastCI(M)
    BY DEF LastCI
  <1>8. Nested(M)
    BY <1>1, <1>2, <1>3, <1>4, <1>5, <1>6, <1>7, Adjusted
  <1>9. ASSUME NEW j \in 1 .. m, c[j].k = "pcall", c[j].th = t
        PROVE  Clear(M, c[j])
    <2>1. j \in 1 .. Len(c)
      BY Shape1
    <2>2. Clear(S[t], c[j])
      BY <1>9, <2>1 DEF Lies, Placed
    <2> QED
      BY <1>9, <2>2 DEF Clear
  <1> QED
    BY <1>8, <1>9 DEF Fares, LiesIn

\* The top of the C stack is the last entry of its thread.
LEMMA TopEnds ==
    ASSUME NEW h, Good(st, cs, h, Lim), Lies(st, cs, h), cs # <<>>, NEW th, NEW kinds,
           Running(kinds, th)
    PROVE  /\ Len(cs) \in 1 .. Len(cs) /\ Ends(cs, Len(cs)) /\ th = cs[Len(cs)].th
           /\ cs[Len(cs)].k \in kinds \ {"hook"} /\ th \in Thread /\ In(cs, th)
           /\ ThreadOK(st[th], Lim) /\ st[th].status = "ok" /\ Nested(st[th])
           /\ Len(st[th].ci) \in 1 .. Len(st[th].ci)
           /\ cs[Len(cs)].k \in {"c", "exec", "host"} =>
                 \A j \in 1 .. Len(cs) : cs[j].k = "pcall" /\ cs[j].th = th
                                           => cs[j].ci < Len(st[th].ci)
  <1>1. /\ th \in Thread /\ th = cs[Len(cs)].th /\ cs[Len(cs)].k \in kinds
        /\ Len(cs) \in Nat \ {0} /\ ThreadOK(st[th], Lim) /\ st[th].status = "ok"
        /\ Len(st[th].ci) \in 1 .. Len(st[th].ci)
    BY Runs
  <1>2. Len(cs) \in 1 .. Len(cs) /\ Ends(cs, Len(cs))
    BY <1>1 DEF Ends
  <1>3. cs[Len(cs)].k # "hook" /\ Nested(st[th])
    BY <1>1, <1>2 DEF Lies, Placed, LiesIn
  <1>4. In(cs, th)
    BY <1>1, <1>2 DEF In
  <1>5. cs[Len(cs)].k \in {"c", "exec", "host"} =>
                 \A j \in 1 .. Len(cs) : cs[j].k = "pcall" /\ cs[j].th = th
                                           => cs[j].ci < Len(st[th].ci)
    BY <1>1, <1>2, PcallBelow
  <1> QED
    BY <1>1, <1>2, <1>3, <1>4, <1>5

\* OP_SETLIST.
LEMMA OpSetListLies ==
    ASSUME NEW h, Good(st, cs, h, Lim), Lies(st, cs, h), cs # <<>>, NEW th, OpSetList(th),
           NEW g, Good(st', cs', g, Lim)
    PROVE  Lies(st', cs', g)
  <1> DEFINE L == st[th]
             v == LastCI(L).top
             M == [L EXCEPT !.top = v]
  <1>0. Running({"exec"}, th) /\ st' = [st EXCEPT ![th] = M] /\ cs' = cs
    BY DEF OpSetList, Become
  <1>1. /\ th \in Thread /\ ThreadOK(L, Lim) /\ Nested(L) /\ Len(L.ci) \in 1 .. Len(L.ci)
        /\ L.status = "ok" /\ In(cs, th)
        /\ \A j \in 1 .. Len(cs) : cs[j].k = "pcall" /\ cs[j].th = th
                                           => cs[j].ci < Len(L.ci)
    BY <1>0, TopEnds
  <1>2. M.ci = L.ci /\ M.top = v /\ M.open = L.open /\ M.base = L.base /\ M.status = "ok"
    BY <1>1 DEF ThreadOK
  <1>3. st'[th] = M
    BY <1>0, <1>1 DEF Good
  <1>4. ThreadOK(M, Lim)
    BY <1>1, <1>3 DEF Good
  <1>5. LastCI(M) = LastCI(L) /\ LastCI(L).base <= v
    BY <1>1, <1>2 DEF LastCI, Nested
  <1> HIDE DEF M
  <1>6. \A l \in M.open : Owns(L, Len(M.ci), l) => l < M.top
    BY <1>2 DEF Owns, LastCI
  <1>7. Len(cs) \in 0 .. Len(cs) /\ Len(M.ci) \in Nat
    BY <1>4, Shape1, Fields
  <1>9. \A j \in 1 .. Len(cs) : cs[j].k = "pcall" /\ cs[j].th = th => cs[j].ci # Len(M.ci)
    BY <1>1, <1>2, <1>7
  <1>8. Fares(L, M, cs, Len(cs), th)
    BY <1>1, <1>2, <1>4, <1>5, <1>6, <1>7, <1>9, TopFares
  <1> QED
    BY <1>0, <1>1, <1>8, LiesSame

\* OP_CLOSURE: the variable belongs to the running function.
LEMMA CaptureLies ==
    ASSUME NEW h, Good(st, cs, h, Lim), Lies(st, cs, h), cs # <<>>, NEW th, NEW level \in Int,
           Capture(th, level), NEW g, Good(st', cs', g, Lim)
    PROVE  Lies(st', cs', g)
  <1> DEFINE L == st[th]
             M == [L EXCEPT !.open = @ \cup {level}]
             n == Len(L.ci)
  <1>0. Running({"exec"}, th) /\ st' = [st EXCEPT ![th] = M] /\ cs' = cs
    BY DEF Capture, Become
  <1>1. /\ th \in Thread /\ ThreadOK(L, Lim) /\ Nested(L) /\ n \in 1 .. n
        /\ L.status = "ok" /\ In(cs, th)
        /\ LastCI(L) \in LuaFrame /\ n # 1
    BY <1>0, TopEnds, LastIs
  <1>2. /\ M.ci = L.ci /\ M.top = L.top /\ M.open = L.open \cup {level} /\ M.base = L.base
        /\ M.status = "ok"
    BY <1>1 DEF ThreadOK
  <1>3. st'[th] = M
    BY <1>0, <1>1 DEF Good
  <1>4. ThreadOK(M, Lim)
    BY <1>1, <1>3 DEF Good
  <1> HIDE DEF M
  <1>5. /\ L.base <= level /\ level <= L.top - 1 /\ L.top = LastCI(L).top
        /\ L.top \in Int /\ L.base \in Int
    BY <1>1, Fields DEF Capture, AtFrameTop
  <1>6. ASSUME NEW l \in M.open
        PROVE  l \in Int /\ \E i \in 2 .. n : Owns(M, i, l)
    <2>1. CASE l \in L.open
      <3>1. l \in Int
        BY <1>1, <2>1 DEF Nested
      <3>2. PICK i \in 2 .. n : Owns(L, i, l)
        BY <1>1, <2>1 DEF Nested
      <3>3. Owns(M, i, l)
        BY <1>1, <1>2, <3>2 DEF Owns
      <3> QED
        BY <3>1, <3>3
    <2>2. CASE l = level
      <3>1. n \in Nat /\ n \in 2 .. n
        <4>1. n \in Nat /\ n \in 1 .. n /\ n # 1
          BY <1>1, Fields
        <4> HIDE DEF n
        <4> QED
          BY <4>1
      <3>2. L.base = L.ci[n].base /\ L.ci[n] \in LuaFrame /\ L.top = L.ci[n].top
        BY <1>1, <1>5 DEF Nested, LastCI
      <3>3. \A k \in n + 1 .. n : FALSE
        BY <3>1
      <3>4. Owns(M, n, level)
        BY <1>2, <1>5, <3>2, <3>3 DEF Owns
      <3> QED
        BY <2>2, <3>1, <3>4
    <2> QED
      BY <1>2, <2>1, <2>2
  <1>7. Nested(M)
    BY <1>1, <1>2, <1>6 DEF Nested, LastCI
  <1>8. Len(cs) \in 0 .. Len(cs)
    BY Shape1
  <1>9. ASSUME NEW j \in 1 .. Len(cs), cs[j].k = "pcall", cs[j].th = th
        PROVE  Clear(M, cs[j])
    <2>1. Clear(L, cs[j])
      BY <1>9 DEF Lies, Placed
    <2> QED
      BY <1>2, <2>1 DEF Clear
  <1>10. Fares(L, M, cs, Len(cs), th)
    BY <1>2, <1>7, <1>9 DEF Fares, LiesIn
  <1> QED
    BY <1>0, <1>1, <1>10, LiesSame

\* lua_settop: neither a C function nor the host program has variables there.
LEMMA SettopLies ==
    ASSUME NEW h, Good(st, cs, h, Lim), Lies(st, cs, h), cs # <<>>, NEW th, lua_settop(th),
           NEW g, Good(st', cs', g, Lim)
    PROVE  Lies(st', cs', g)
  <1> DEFINE L == st[th]
             v == L.base
             M == [L EXCEPT !.top = v]
  <1>0. Running({"c", "host", "hook"}, th) /\ st' = [st EXCEPT ![th] = M] /\ cs' = cs
    BY DEF lua_settop, InC
  <1>1. /\ th \in Thread /\ ThreadOK(L, Lim) /\ Nested(L) /\ Len(L.ci) \in 1 .. Len(L.ci)
        /\ L.status = "ok" /\ In(cs, th)
        /\ \A j \in 1 .. Len(cs) : cs[j].k = "pcall" /\ cs[j].th = th
                                           => cs[j].ci < Len(L.ci)
        /\ Len(L.ci) # 1 => LastCI(L) \notin LuaFrame
    BY <1>0, TopEnds, LastIs
  <1>2. M.ci = L.ci /\ M.top = v /\ M.open = L.open /\ M.base = L.base /\ M.status = "ok"
    BY <1>1 DEF ThreadOK
  <1>3. st'[th] = M
    BY <1>0, <1>1 DEF Good
  <1>4. ThreadOK(M, Lim)
    BY <1>1, <1>3 DEF Good
  <1>5. LastCI(M).base <= v
    BY <1>1, <1>2, Fields DEF LastCI, Nested
  <1> HIDE DEF M
  <1>6. \A l \in M.open : ~(Len(M.ci) # 1 /\ Owns(L, Len(M.ci), l))
    BY <1>1, <1>2 DEF Owns, LastCI
  <1>7. Len(cs) \in 0 .. Len(cs) /\ Len(M.ci) \in Nat
    BY <1>4, Shape1, Fields
  <1>9. \A j \in 1 .. Len(cs) : cs[j].k = "pcall" /\ cs[j].th = th => cs[j].ci # Len(M.ci)
    BY <1>1, <1>2, <1>7
  <1>8. Fares(L, M, cs, Len(cs), th)
    BY <1>1, <1>2, <1>4, <1>5, <1>6, <1>7, <1>9, TopFares
  <1> QED
    BY <1>0, <1>1, <1>8, LiesSame

\* The top of the last frame may rise.
LEMMA FrameRises ==
    ASSUME NEW lim, NEW L, ThreadOK(L, lim), L.status # "none", NEW v \in Int,
           LastCI(L).top <= v
    PROVE  Rises(L, [L EXCEPT !.ci[Len(L.ci)].top = v])
  <1> DEFINE n == Len(L.ci)
             f == [L.ci[n] EXCEPT !.top = v]
             s == [L.ci EXCEPT ![n] = f]
             M == [L EXCEPT !.ci = s]
  <1>1. n \in 1 .. n /\ L.ci \in Seq(CI) /\ L.ci[n] \in CI /\ L.top \in Int
        /\ \A i \in 1 .. n : L.ci[i].top \in Int
    BY Fields
  <1>2. f \in CI /\ f.top = v /\ f.func = L.ci[n].func /\ f.base = L.ci[n].base
        /\ f.nres = L.ci[n].nres /\ f.fn = L.ci[n].fn
    BY <1>1 DEF CI
  <1>3. SamePlace(L.ci[n], f)
    BY <1>1, <1>2 DEF SamePlace, LuaFrame
  <1>4. L.ci[n].top <= f.top
    BY <1>2 DEF LastCI
  <1> HIDE DEF f
  <1>5. Len(s) = n /\ \A i \in 1 .. n : s[i] = IF i = n THEN f ELSE L.ci[i]
    BY <1>1, <1>2
  <1> HIDE DEF s
  <1>6. \A i \in 1 .. n : SamePlace(L.ci[i], s[i]) /\ L.ci[i].top <= s[i].top
    BY <1>1, <1>3, <1>4, <1>5 DEF SamePlace
  <1>7. /\ M.ci = s /\ M.status = L.status /\ M.top = L.top /\ M.base = L.base
        /\ M.open = L.open
    BY DEF ThreadOK
  <1>8. M = [L EXCEPT !.ci[Len(L.ci)].top = v]
    BY DEF s, f
  <1> HIDE DEF M
  <1>9. Rises(L, M)
    BY <1>1, <1>5, <1>6, <1>7 DEF Rises
  <1> QED
    BY <1>8, <1>9

\* One rise after the other.
LEMMA RisesTwice ==
    ASSUME NEW lim, NEW L, NEW M, NEW N, ThreadOK(L, lim), ThreadOK(M, lim), ThreadOK(N, lim),
           Rises(L, M), Rises(M, N)
    PROVE  Rises(L, N)
  <1>1. /\ L.top \in Int /\ M.top \in Int /\ N.top \in Int /\ Len(L.ci) \in Nat
        /\ \A i \in 1 .. Len(L.ci) : L.ci[i].top \in Int
        /\ \A i \in 1 .. Len(M.ci) : M.ci[i].top \in Int
        /\ \A i \in 1 .. Len(N.ci) : N.ci[i].top \in Int
    BY Fields
  <1>2. Len(M.ci) = Len(L.ci) /\ Len(N.ci) = Len(L.ci) /\ L.top <= N.top
    BY <1>1 DEF Rises
  <1>3. ASSUME NEW i \in 1 .. Len(L.ci)
        PROVE  SamePlace(L.ci[i], N.ci[i]) /\ L.ci[i].top <= N.ci[i].top
    <2>1. /\ SamePlace(L.ci[i], M.ci[i]) /\ L.ci[i].top <= M.ci[i].top
          /\ SamePlace(M.ci[i], N.ci[i]) /\ M.ci[i].top <= N.ci[i].top
      BY <1>2 DEF Rises
    <2>2. L.ci[i].top \in Int /\ M.ci[i].top \in Int /\ N.ci[i].top \in Int
      BY <1>1, <1>2
    <2> QED
      BY <2>1, <2>2 DEF SamePlace
  <1> QED
    BY <1>2, <1>3 DEF Rises

\* The top of a thread may rise.
LEMMA TopRises ==
    ASSUME NEW lim, NEW L, ThreadOK(L, lim), NEW v \in Int, L.top <= v
    PROVE  Rises(L, [L EXCEPT !.top = v])
  <1> DEFINE M == [L EXCEPT !.top = v]
  <1>1. /\ M.ci = L.ci /\ M.status = L.status /\ M.top = v /\ M.base = L.base
        /\ M.open = L.open
    BY DEF ThreadOK
  <1>2. Rises(L, L)
    BY RisesSelf
  <1> HIDE DEF M
  <1>3. Rises(L, M)
    BY <1>1, <1>2 DEF Rises
  <1> QED
    BY <1>3 DEF M

\* lua_checkstack and lua_xmove let tops rise.
LEMMA ReceiveRises ==
    ASSUME NEW L, NEW lim, ThreadOK(L, lim), L.status # "none", NEW n \in Int
    PROVE  Rises(L, lua_checkstack(L, n)) /\ (n >= 0 => Rises(L, Receive(L, n)))
  <1> DEFINE L1 == checkstack(L, n)
             i == Len(L.ci)
             v == IF L1.ci[i].top < L1.top + n THEN L1.top + n ELSE L1.ci[i].top
             L2 == [L1 EXCEPT !.ci[i].top = v]
             w == L2.top + n
  <1>1. ThreadOK(L1, lim) /\ Rises(L, L1) /\ L1.ci = L.ci /\ L1.status = L.status
    <2>1. Moved(L, L1)
      BY CheckStackMoves
    <2> QED
      BY <2>1, MovedKeeps, CheckStackRises DEF Moved
  <1> HIDE DEF L1
  <1>2. v \in Int /\ LastCI(L1).top <= v
    <2>1. i \in 1 .. Len(L1.ci) /\ L1.top \in Int
      BY <1>1, Fields
    <2>2. L1.ci[i].top \in Int
      BY <1>1, <2>1, Fields
    <2> QED
      BY <1>1, <2>1, <2>2 DEF LastCI
  <1> HIDE DEF v
  <1>3. ThreadOK(L2, lim) /\ Rises(L1, L2)
    BY <1>1, <1>2, FrameTop, FrameRises
  <1>4. lua_checkstack(L, n) = L2
    BY DEF lua_checkstack, L1, v
  <1> HIDE DEF L2
  <1>5. Rises(L, L2)
    BY <1>1, <1>3, RisesTwice
  <1>6. Receive(L, n) = [L2 EXCEPT !.top = w]
    BY <1>4 DEF Receive
  <1>7. w \in Int /\ (n >= 0 => L2.top <= w)
    BY <1>3, Fields
  <1> HIDE DEF w
  <1>8. ThreadOK(Receive(L, n), lim) /\ (n >= 0 => Rises(L2, Receive(L, n)))
    BY <1>3, <1>6, <1>7, Moves, TopRises
  <1> QED
    BY <1>3, <1>4, <1>5, <1>8, RisesTwice

\* luaL_checkstack.
LEMMA ReserveLies ==
    ASSUME NEW h, Good(st, cs, h, Lim), Lies(st, cs, h), cs # <<>>, NEW th, NEW n \in Int,
           Reserve(th, n), NEW g, Good(st', cs', g, Lim)
    PROVE  Lies(st', cs', g)
  <1> DEFINE M == lua_checkstack(st[th], n)
  <1>1. Running({"c"}, th) /\ st' = [st EXCEPT ![th] = M] /\ cs' = cs
    BY DEF Reserve, Become
  <1>2. th \in Thread /\ ThreadOK(st[th], Lim) /\ st[th].status = "ok"
    BY <1>1, TopEnds
  <1>3. Rises(st[th], M)
    BY <1>2, ReceiveRises
  <1> HIDE DEF M
  <1> QED
    BY <1>1, <1>2, <1>3, LiesRisen

\* The collector moves stacks, nothing in them.
LEMMA ShrinkLies ==
    ASSUME NEW h, Good(st, cs, h, Lim), Lies(st, cs, h), cs # <<>>, NEW th \in Thread,
           Shrink(th), NEW g, Good(st', cs', g, Lim)
    PROVE  Lies(st', cs', g)
  <1> DEFINE L == st[th]
             M == checkstacksizes(L)
  <1>1. ThreadOK(L, Lim) /\ st' = [st EXCEPT ![th] = M] /\ cs' = cs /\ L.status # "none"
    BY DEF Shrink, Good
  <1>2. /\ M.ci = L.ci /\ M.status = L.status /\ M.top = L.top /\ M.base = L.base
        /\ M.open = L.open
    BY <1>1 DEF checkstacksizes, ThreadOK
  <1> HIDE DEF M
  <1>3. Rises(L, L)
    BY <1>1, RisesSelf
  <1>4. Rises(L, M)
    BY <1>2, <1>3 DEF Rises
  <1> QED
    BY <1>1, <1>4, LiesRisen

\* coroutine.create: the new thread has one frame.
LEMMA CoCreateLies ==
    ASSUME NEW h, Good(st, cs, h, Lim), Lies(st, cs, h), cs # <<>>, NEW th, NEW co \in Thread,
           CoCreate(th, co), NEW g, Good(st', cs', g, Lim)
    PROVE  Lies(st', cs', g)
  <1> DEFINE f == [func |-> 0, base |-> 1, top |-> 1 + LUA_MINSTACK, nres |-> 0, fn |-> "none"]
             M == [status |-> "ok", top |-> 2, base |-> 1, last |-> BASIC_STACK_SIZE - 1,
                   ci |-> <<f>>, sizeci |-> BASIC_CI_SIZE, ncc |-> 0, hookok |-> TRUE,
                   errfunc |-> 0, open |-> {}]
  <1>1. st' = [st EXCEPT ![co] = M] /\ cs' = cs /\ st[co].status = "none"
    <2>1. st = [t \in Thread |-> st[t]]
      BY DEF Good
    <2> QED
      BY <2>1 DEF CoCreate, luaE_newthread, stack_init
  <1>2. Len(M.ci) = 1 /\ M.ci[1] = f /\ M.open = {} /\ M.base = 1 /\ M.top = 2
    OBVIOUS
  <1>3. Nested(M)
    <2>1. \A i \in 1 .. 1 : i = 1 /\ \A k \in i + 1 .. 1 : FALSE
      OBVIOUS
    <2>2. LastCI(M) = f
      BY <1>2 DEF LastCI
    <2>3. f.func = 0 /\ f.base = 1 /\ f.top = 1 + LUA_MINSTACK /\ f.nres = 0
          /\ LUA_MINSTACK \in Nat
      BY Consts
    <2> HIDE DEF f, M
    <2> QED
      BY <1>2, <2>1, <2>2, <2>3 DEF Nested
  <1>4. ~In(cs, co)
    <2>1. \A j \in 1 .. Len(cs) : cs[j].th = co => st[co].status = "ok"
      BY DEF Good, LiveOK
    <2> QED
      BY <1>1, <2>1 DEF In
  <1>5. \A j \in 1 .. Len(cs) : cs[j].th # co
    BY <1>4 DEF In
  <1>6. M.status = "ok"
    OBVIOUS
  <1> HIDE DEF M
  <1>7. Fares(st[co], M, cs, Len(cs), co)
    BY <1>3, <1>4, <1>5, <1>6 DEF Fares, LiesIn
  <1> QED
    BY <1>1, <1>2, <1>7, LiesSame

\* The last entry of a thread.
LEMMA LastOf ==
    ASSUME NEW S, NEW c, NEW h, NEW lim, Good(S, c, h, lim), NEW t \in Thread, In(c, t)
    PROVE  \E j \in 1 .. Len(c) : c[j].th = t /\ Ends(c, j)
                                  /\ \A i \in 1 .. Len(c) : c[i].th = t => i <= j
  <1>1. PICK j \in 1 .. Len(c) : c[j].th = t /\ \A i \in 1 .. Len(c) : c[i].th = t => i <= j
    BY LastEntry
  <1>2. ASSUME j # Len(c)
        PROVE  c[j + 1].k = "resume"
    <2>1. j + 1 \in 2 .. Len(c) /\ (j + 1) - 1 = j /\ j + 1 \in 1 .. Len(c) /\ ~(j + 1 <= j)
      BY <1>2, Shape1
    <2>2. Above(c[j], c[j + 1])
      BY <2>1 DEF Good, Struct, Shaped
    <2>3. c[j + 1].th # t
      BY <1>1, <2>1
    <2> QED
      BY <1>1, <2>2, <2>3 DEF Above
  <1> QED
    BY <1>1, <1>2 DEF Ends

\* A thread that resumed another is in a C function, or is the host program.
LEMMA Resumer ==
    ASSUME NEW S, NEW c, NEW h, NEW lim, Good(S, c, h, lim), Lies(S, c, h), NEW t \in Thread,
           In(c, t), t # c[Len(c)].th
    PROVE  /\ S[t].status = "ok" /\ (Len(S[t].ci) # 1 => LastCI(S[t]) \notin LuaFrame)
           /\ \A j \in 1 .. Len(c) : c[j].k = "pcall" /\ c[j].th = t => c[j].ci < Len(S[t].ci)
  <1>1. PICK e \in 1 .. Len(c) : c[e].th = t /\ Ends(c, e)
    BY LastOf
  <1>2. Len(c) \in Nat /\ e \in Nat /\ e # Len(c)
    BY <1>1, Shape1
  <1>3. c[e + 1].k = "resume" /\ e + 1 \in 2 .. Len(c) /\ (e + 1) - 1 = e
    BY <1>1, <1>2 DEF Ends
  <1>4. Above(c[e], c[e + 1])
    BY <1>3 DEF Good, Struct, Shaped
  <1>5. c[e].k \in {"c", "host"}
    BY <1>3, <1>4 DEF Above, Lies, Placed
  <1>6. /\ S[t].status = "ok" /\ (c[e].k = "host" => Len(S[t].ci) = 1)
        /\ (c[e].k = "c" => LastCI(S[t]) \notin LuaFrame)
    BY <1>1, LastIs
  <1>7. \A j \in 1 .. Len(c) : c[j].k = "pcall" /\ c[j].th = t => c[j].ci < Len(S[t].ci)
    BY <1>1, <1>5, PcallBelow
  <1> QED
    BY <1>5, <1>6, <1>7

\* lua_resume of a coroutine that cannot go on.
LEMMA BadResumeLies ==
    ASSUME NEW h, NEW g, Good(st, cs, h, Lim), Lies(st, cs, h), cs # <<>>,
           Good(st', cs', g, Lim), NEW th, NEW co \in Thread, BadResume(th, co)
    PROVE  Lies(st', cs', g)
  <1> DEFINE L == st[co]
             n == Len(L.ci)
             v == IF L.status = "ok" /\ L.top = L.base THEN L.top ELSE LastCI(L).base
             w == st[th].top + 1
             M == [L EXCEPT !.top = v]
             N == [st[th] EXCEPT !.top = w]
             k == Len(cs)
  <1>1. Running({"c", "host", "hook"}, th) /\ cs' = cs /\ co # th /\ L.status # "none"
        /\ L.status # "yield" /\ ~Startable(co)
    BY DEF BadResume, InC, Resumable
  <1>2. /\ th \in Thread /\ ThreadOK(st[th], Lim) /\ st[th].status = "ok" /\ th = cs[Len(cs)].th
        /\ k \in 1 .. k /\ k \in 0 .. k
    BY <1>1, TopEnds, Shape1
  <1>3. ThreadOK(L, Lim) /\ Nested(L)
    BY <1>1 DEF Good, Lies, LiesIn
  <1>4. st'[co] = M /\ st'[th] = N /\ \A u \in Thread : u # co /\ u # th => st'[u] = st[u]
    <2>1. st = [u \in Thread |-> st[u]]
      BY DEF Good
    <2>2. st' = [st EXCEPT ![co].top = v, ![th].top = w]
      BY <1>1, <2>1 DEF BadResume
    <2> QED
      BY <1>1, <1>2, <2>1, <2>2
  <1>5. ThreadOK(M, Lim) /\ ThreadOK(N, Lim)
    BY <1>2, <1>4 DEF Good
  <1>6. /\ M.ci = L.ci /\ M.top = v /\ M.open = L.open /\ M.base = L.base
        /\ M.status = L.status
    BY <1>3 DEF ThreadOK
  <1>7. /\ N.ci = st[th].ci /\ N.status = st[th].status
    BY <1>2 DEF ThreadOK
  <1>8. Rises(st[th], N)
    <2>1. w \in Int /\ st[th].top <= w
      BY <1>2, Fields
    <2> HIDE DEF w
    <2> QED
      BY <1>2, <2>1, TopRises
  <1> HIDE DEF M, N
  <1>9. Fares(st[th], N, cs, k, th)
    BY <1>2, <1>5, <1>8, RisesFares
  <1>10. n \in 1 .. n /\ L.top \in Int /\ LastCI(L).base \in Int /\ LastCI(L).base <= L.top
    BY <1>1, <1>3, Fields DEF Nested, LastCI
  <1>11. LastCI(M) = LastCI(L) /\ LastCI(L).base <= v
    BY <1>6, <1>10 DEF LastCI
  <1>12. ASSUME NEW l \in M.open, n # 1, Owns(L, n, l), L.status \notin Dead PROVE l < v
    <2>1. L.status = "ok"
      BY <1>1, <1>3, <1>12 DEF ThreadOK
    <2>2. LastCI(L) \in LuaFrame
      BY <1>12 DEF Owns, LastCI
    <2>3. In(cs, co)
      BY <1>12, <2>1 DEF Lies, Waits
    <2> QED
      BY <1>1, <1>2, <1>12, <2>2, <2>3, Resumer
  <1>13. ASSUME NEW j \in 1 .. k, cs[j].k = "pcall", cs[j].th = co PROVE cs[j].ci # n
    <2>1. In(cs, co)
      BY <1>13 DEF In
    <2>2. cs[j].ci < n
      BY <1>1, <1>2, <1>13, <2>1, Resumer
    <2> QED
      BY <1>10, <2>2
  <1>14. Fares(L, M, cs, k, co)
    <2>1. \A l \in M.open : Len(M.ci) # 1 /\ Owns(L, Len(M.ci), l)
              => M.status \in Dead \/ l < M.top
      BY <1>6, <1>12
    <2>2. \A j \in 1 .. k : cs[j].k = "pcall" /\ cs[j].th = co /\ cs[j].ci = Len(M.ci)
                               => cs[j].top <= M.top
      BY <1>6, <1>13
    <2>3. LastCI(M).base <= M.top
      BY <1>6, <1>11
    <2> HIDE DEF v
    <2> QED
      BY <1>1, <1>2, <1>3, <1>5, <1>6, <2>1, <2>2, <2>3, TopFares
  <1>15. \A u \in Thread : Fares(st[u], st'[u], cs, k, u)
    <2> SUFFICES ASSUME NEW u \in Thread PROVE Fares(st[u], st'[u], cs, k, u)
      OBVIOUS
    <2>1. u # co /\ u # th => Fares(st[u], st'[u], cs, k, u)
      BY <1>2, <1>4, StaysFares
    <2> HIDE DEF k
    <2> QED
      BY <1>4, <1>9, <1>14, <2>1
  <1>16. Waits(st', cs')
    BY <1>1, <1>2, <1>4, <1>6, <1>7 DEF Waits, Lies
  <1>17. k <= k /\ (\A j \in k + 1 .. k : FALSE) /\ ~(k \in 1 .. k - 1)
    BY <1>2
  <1> QED
    BY <1>1, <1>2, <1>15, <1>16, <1>17, LiesAll

------------------------------------------------------------------------------
(* Calls *)

\* The new frame begins at the function; without one the tops have risen.
Laid(L, r, func, nres, f) ==
    /\ r.err # "no" => Rises(L, r.L)
    /\ r.err = "no" =>
          /\ r.L.status = L.status /\ r.L.open = L.open
          /\ \E x \in CI : /\ r.L.ci = Append(L.ci, x) /\ r.L.base = x.base /\ x.fn = f
                           /\ x.func = func /\ x.nres = nres /\ func < x.base
                           /\ x.base <= x.top /\ x.base <= r.L.top
                           /\ ~Shape[f].isC => r.L.top = x.top

\* incr_top.
LEMMA IncrRises ==
    ASSUME NEW L, NEW lim, ThreadOK(L, lim)
    PROVE  Rises(L, incr_top(L)) /\ ThreadOK(incr_top(L), lim) /\ incr_top(L).top = L.top + 1
  <1> DEFINE K == checkstack(L, 1)
             v == K.top + 1
  <1>1. Rises(L, K) /\ Moved(L, K) /\ K.top = L.top
    BY CheckStackRises, CheckStackMoves
  <1>2. ThreadOK(K, lim)
    BY <1>1, MovedKeeps
  <1>3. incr_top(L) = [K EXCEPT !.top = v]
    BY DEF incr_top
  <1>4. v \in Int /\ K.top <= v /\ v = L.top + 1
    BY <1>1, <1>2, Fields
  <1> HIDE DEF K, v
  <1>5. Rises(K, incr_top(L)) /\ ThreadOK(incr_top(L), lim)
    BY <1>2, <1>3, <1>4, TopRises, Moves
  <1>6. incr_top(L).top = v
    BY <1>2, <1>3 DEF ThreadOK
  <1> QED
    BY <1>1, <1>2, <1>4, <1>5, <1>6, RisesTwice

\* luaD_precall, whatever it is given.
LEMMA PrecallLays ==
    ASSUME NEW L, NEW lim, ThreadOK(L, lim), L.status # "none", NEW func \in Int,
           func < L.top, NEW nres \in Int, NEW f \in Fn, NEW r, r = luaD_precall(L, func, nres, f)
    PROVE  Laid(L, r, func, nres, f)
  <1> DEFINE s == Shape[f]
             L1 == IF s.tm THEN incr_top(L) ELSE L
             L2 == checkstack(L1, IF s.isC THEN LUA_MINSTACK ELSE s.size)
             nargs == L2.top - func - 1
             missing == IF nargs < s.params THEN s.params - nargs ELSE 0
             base == IF s.vararg /\ ~s.isC THEN L2.top + missing ELSE func + 1
             L3 == luaC_checkGC(L2, missing, s.visits)
             grown == inc_ci(L3)
             ctop == IF s.isC THEN L2.top + LUA_MINSTACK ELSE base + s.size
             frame == [func |-> func, base |-> base, top |-> ctop, nres |-> nres, fn |-> f]
             top == IF s.isC THEN grown.L.top ELSE ctop
             L4 == [grown.L EXCEPT !.ci = Append(grown.L.ci, frame), !.base = base, !.top = top]
  <1>1. LUA_MINSTACK \in Nat /\ s.size \in Nat /\ s.params \in Nat
    BY Consts
  <1>2. Rises(L, L1) /\ ThreadOK(L1, lim) /\ L1.status # "none"
    <2>1. Rises(L, L)
      BY RisesSelf
    <2>2. Rises(L, incr_top(L)) /\ ThreadOK(incr_top(L), lim)
      BY IncrRises
    <2> QED
      BY <2>1, <2>2 DEF Rises
  <1> HIDE DEF L1
  <1>3. Rises(L1, L2) /\ ThreadOK(L2, lim)
    <2> DEFINE n == IF s.isC THEN LUA_MINSTACK ELSE s.size
    <2>1. n \in Int
      BY <1>1
    <2> HIDE DEF n
    <2>2. Moved(L1, checkstack(L1, n)) /\ Rises(L1, checkstack(L1, n))
      BY <1>2, <2>1, CheckStackMoves, CheckStackRises
    <2>3. L2 = checkstack(L1, n)
      BY DEF n
    <2> QED
      BY <1>2, <2>2, <2>3, MovedKeeps
  <1>4. Rises(L, L2) /\ L2.ci = L.ci /\ L2.top \in Int
    <2>1. L1.ci = L.ci
      <3>1. Moved(L, L) /\ Moved(L, incr_top(L))
        BY IncrTopMoves DEF Moved, ThreadOK
      <3> QED
        BY <3>1 DEF Moved, L1
    <2>2. L2.ci = L1.ci
      BY <1>2 DEF checkstack, ThreadOK
    <2> HIDE DEF L2
    <2> QED
      BY <1>2, <1>3, <2>1, <2>2, RisesTwice, Fields
  <1> HIDE DEF L2
  <1>5. missing \in Nat
    BY <1>1, <1>4
  <1>6. ThreadOK(L3, lim) /\ Sits(L2, L3)
    <2> DEFINE n == missing
    <2>1. n \in Int
      BY <1>5
    <2>2. L3 = luaC_checkGC(L2, n, s.visits)
      OBVIOUS
    <2> HIDE DEF n, L3
    <2> QED
      BY <1>3, <2>1, <2>2, CheckGCSits
  <1> HIDE DEF L3
  <1>7. /\ L3.status = L.status /\ L3.ci = L.ci /\ L3.top = L2.top
         /\ L3.open = L.open /\ L3.base = L.base
    BY <1>4, <1>6 DEF Sits, Rises
  <1>8. /\ ThreadOK(grown.L, lim) /\ grown.err \in {"no", "errrun", "errerr"}
        /\ grown.L = [L3 EXCEPT !.sizeci = grown.L.sizeci]
    BY <1>2, <1>6, <1>7, IncCI DEF Rises
  <1>9. /\ grown.L.status = L.status /\ grown.L.ci = L.ci /\ grown.L.top = L2.top
        /\ grown.L.open = L.open /\ grown.L.base = L.base
    BY <1>6, <1>7, <1>8 DEF ThreadOK
  <1> HIDE DEF grown
  <1>10. Rises(L, grown.L)
    BY <1>4, <1>9 DEF Rises
  <1>11. L.top <= L2.top /\ L.top \in Int
    BY <1>4, Fields DEF Rises
  <1>12. /\ base \in Int /\ ctop \in Int /\ top \in Int /\ func < base /\ base <= ctop
        /\ base <= top
    <2> HIDE DEF missing
    <2>2. base \in Int /\ func < base /\ (s.isC => base <= L2.top)
      BY <1>1, <1>4, <1>11, <1>5
    <2> HIDE DEF base
    <2>3. ctop \in Int /\ base <= ctop
      BY <1>1, <1>4, <2>2
    <2> QED
      BY <1>4, <1>9, <2>2, <2>3
  <1> HIDE DEF nargs, missing, base, ctop
  <1>13. frame \in CI /\ frame.fn = f /\ frame.func = func /\ frame.nres = nres
         /\ frame.base = base /\ frame.top = ctop
    BY <1>12 DEF CI
  <1>14. r = IF grown.err # "no" THEN grown ELSE [L |-> L4, err |-> "no"]
    BY DEF luaD_precall, grown, L1, L2, L3, nargs, missing, base, ctop, top
  <1> HIDE DEF frame
  <1>15. CASE grown.err # "no"
    BY <1>10, <1>14, <1>15 DEF Laid
  <1>16. CASE grown.err = "no"
    <2> DEFINE q == Append(grown.L.ci, frame)
    <2>1. r.L = L4 /\ r.err = "no" /\ q = Append(L.ci, frame)
      BY <1>9, <1>14, <1>16
    <2>2. ~s.isC => top = ctop
      OBVIOUS
    <2> HIDE DEF top, q
    <2>3. L4 = [grown.L EXCEPT !.ci = q, !.base = base, !.top = top]
      BY DEF q
    <2> HIDE DEF L4
    <2>4. /\ L4.status = L.status /\ L4.top = top /\ L4.base = base /\ L4.ci = q
          /\ L4.open = L.open
      BY <1>8, <1>9, <2>3 DEF ThreadOK
    <2> HIDE DEF s
    <2> QED
      BY <1>12, <1>13, <2>1, <2>2, <2>4 DEF Laid, s
  <1> QED
    BY <1>15, <1>16

\* The place of a function that is called: above the variables in use, below the top.
Beneath(L, func) == LastCI(L).base <= func /\ func < L.top /\ \A l \in L.open : l < func

\* What lies below the function stays, with a frame more or without.
LEMMA CalledClear ==
    ASSUME NEW L, NEW lim, ThreadOK(L, lim), L.status # "none", Nested(L), NEW func \in Int,
           Beneath(L, func), NEW nres, NEW f, NEW r, ThreadOK(r.L, lim), Laid(L, r, func, nres, f),
           NEW p, p.ci \in 1 .. Len(L.ci), p.top \in Int, Clear(L, p),
           p.ci = Len(L.ci) => p.top <= func
    PROVE  Clear(r.L, p)
  <1> DEFINE n == Len(L.ci)
  <1>1. n \in Nat /\ n \in 1 .. n /\ L.ci \in Seq(CI) /\ L.top \in Int
        /\ \A i \in 1 .. n : L.ci[i].func \in Int /\ L.ci[i].base \in Int
    BY Fields
  <1>2. p.top <= func
    <2>1. CASE p.ci = n
      BY <2>1
    <2>2. CASE p.ci # n
      <3>1. n \in p.ci + 1 .. n
        BY <1>1, <2>2
      <3>2. p.top <= L.ci[n].func /\ L.ci[n].func < L.ci[n].base /\ L.ci[n].base <= func
        BY <1>1, <3>1 DEF Clear, Nested, Beneath, LastCI
      <3> QED
        BY <1>1, <3>2
    <2> QED
      BY <2>1, <2>2
  <1>3. CASE r.err # "no"
    <2>1. Rises(L, r.L)
      BY <1>3 DEF Laid
    <2>2. Len(r.L.ci) = n /\ L.top <= r.L.top /\ r.L.top \in Int
          /\ \A i \in 1 .. n : r.L.ci[i].base = L.ci[i].base /\ r.L.ci[i].func = L.ci[i].func
      BY <2>1, Fields DEF Rises, SamePlace
    <2>3. \A k \in p.ci + 1 .. n : k \in 1 .. n
      BY <1>1
    <2>4. p.top <= r.L.top
      BY <1>1, <1>2, <2>2 DEF Beneath
    <2> QED
      BY <2>2, <2>3, <2>4 DEF Clear
  <1>4. CASE r.err = "no"
    <2>1. PICK x \in CI : r.L.ci = Append(L.ci, x) /\ x.func = func
      BY <1>4 DEF Laid
    <2>2. Len(r.L.ci) = n + 1 /\ r.L.ci[n + 1] = x /\ \A i \in 1 .. n : r.L.ci[i] = L.ci[i]
      BY <1>1, <2>1, Longer
    <2>3. \A k \in p.ci + 1 .. n + 1 : k = n + 1 \/ (k \in 1 .. n /\ k \in p.ci + 1 .. n)
      <3>1. p.ci \in 1 .. n
        OBVIOUS
      <3> HIDE DEF n
      <3> QED
        BY <1>1, <3>1
    <2>4. \A k \in p.ci + 1 .. n + 1 : p.top <= r.L.ci[k].func
      BY <1>2, <2>1, <2>2, <2>3 DEF Clear
    <2>5. p.ci # n + 1
      BY <1>1
    <2> QED
      BY <2>2, <2>4, <2>5 DEF Clear
  <1> QED
    BY <1>3, <1>4

\* The state L of a thread that calls the function at func, when the first m entries of the
\* C stack stay.
Ready(S, c, m, t, L, func) ==
    /\ L.status = "ok" /\ Fares(S[t], L, c, m, t) /\ Len(L.ci) = Len(S[t].ci)
    /\ Beneath(L, func)
    /\ \A j \in 1 .. m : c[j].k = "pcall" /\ c[j].th = t /\ c[j].ci = Len(L.ci)
                           => c[j].top <= func

\* A thread whose function is called: as it was, but for the frame.
LEMMA CalledFares ==
    ASSUME NEW S, NEW c, NEW h, NEW lim, Good(S, c, h, lim), NEW t \in Thread,
           NEW m \in 0 .. Len(c), NEW L, ThreadOK(L, lim), NEW func \in Int,
           Ready(S, c, m, t, L, func), NEW nres \in Int, nres >= -1, NEW f, NEW r,
           ThreadOK(r.L, lim),
           Laid(L, r, func, nres, f)
    PROVE  Fares(S[t], r.L, c, m, t) /\ r.L.status = "ok"
  <1> DEFINE n == Len(L.ci)
  <1>0. /\ L.status = "ok" /\ Fares(S[t], L, c, m, t) /\ n = Len(S[t].ci)
        /\ Beneath(L, func)
        /\ \A j \in 1 .. m : c[j].k = "pcall" /\ c[j].th = t /\ c[j].ci = n
                               => c[j].top <= func
    BY DEF Ready
  <1>1. n \in Nat /\ n \in 1 .. n /\ L.ci \in Seq(CI) /\ Nested(L)
    BY <1>0, Fields DEF Fares, LiesIn
  <1>2. ASSUME NEW j \in 1 .. m, c[j].k = "pcall", c[j].th = t
        PROVE  Clear(r.L, c[j])
    <2>1. j \in 1 .. Len(c)
      BY Shape1
    <2>2. c[j].ci \in 1 .. n /\ c[j].top \in Int
      BY <1>0, <1>2, <2>1, PcallFrame
    <2>3. Clear(L, c[j])
      BY <1>0, <1>2 DEF Fares
    <2> QED
      BY <1>0, <1>1, <1>2, <2>2, <2>3, CalledClear
  <1>3. CASE r.err # "no"
    <2>1. Rises(L, r.L)
      BY <1>3 DEF Laid
    <2>2. Nested(r.L) /\ r.L.status = "ok"
      BY <1>0, <1>1, <2>1, Risen DEF Rises
    <2>3. \A i \in 1 .. n : r.L.ci[i].nres = L.ci[i].nres
      BY <2>1 DEF Rises, SamePlace
    <2> QED
      BY <1>0, <1>2, <2>2, <2>3 DEF Fares, LiesIn
  <1>4. CASE r.err = "no"
    <2>1. PICK x \in CI : /\ r.L.ci = Append(L.ci, x) /\ r.L.base = x.base
                          /\ x.func = func /\ x.nres = nres /\ func < x.base
                          /\ x.base <= x.top /\ x.base <= r.L.top
      BY <1>4 DEF Laid
    <2>2. r.L.status = "ok" /\ r.L.open = L.open
      BY <1>0, <1>4 DEF Laid
    <2>3. Nested(r.L)
      BY <1>0, <1>1, <2>1, <2>2, Onlaid DEF Beneath
    <2>4. \A i \in 1 .. n : r.L.ci[i] = L.ci[i]
      BY <1>1, <2>1, Longer
    <2>5. In(c, t) => \A i \in 1 .. n : r.L.ci[i].nres = S[t].ci[i].nres
      BY <1>0, <2>4 DEF Fares
    <2>6. LiesIn(r.L)
      BY <2>2, <2>3 DEF LiesIn
    <2> HIDE DEF n
    <2> QED
      BY <1>0, <1>2, <2>2, <2>5, <2>6 DEF Fares
  <1> QED
    BY <1>3, <1>4

\* The frame of the function that is called gives the results that luaD_call wants.
LEMMA LastFrame ==
    ASSUME NEW S, NEW c, NEW g, NEW lim, Good(S, c, g, lim), NEW i \in 1 .. Len(c),
           i + 1 = Len(c), NEW t, t = c[Len(c)].th, c[Len(c)].k \in {"c", "exec"},
           c[Len(c)].k = "exec" => c[Len(c)].n = 1
    PROVE  g[i].frames + 1 = Len(S[t].ci)
  <1>1. c # <<>> /\ Len(c) \in Nat /\ i \in Nat /\ g[i].frames \in Nat
    BY Shape1
  <1>2. Len(S[t].ci) = g[Len(c)].frames
    BY <1>1, AtTop
  <1>3. g[Len(c)] = After(g[i], c[Len(c)])
    <2>1. Len(c) \in 2 .. Len(c) /\ Len(c) - 1 = i
      BY <1>1
    <2> QED
      BY <2>1 DEF Good, Struct, Shaped
  <1>4. g[Len(c)].frames = g[i].frames + 1
    BY <1>3 DEF After, Starts
  <1> QED
    BY <1>2, <1>4

\* luaD_call from a C stack c, which has the first m entries of cs, and what lua_pcall saved.
LEMMA CallLies ==
    ASSUME NEW h, NEW g, Good(st, cs, h, Lim), Lies(st, cs, h), cs # <<>>,
           Good(st', cs', g, Lim), NEW t, t = cs[Len(cs)].th, NEW m \in 0 .. Len(cs),
           \A j \in m + 1 .. Len(cs) : cs[j].th = t,
           NEW c \in Seq(Act), m <= Len(c), \A j \in 1 .. m : c[j] = cs[j],
           NEW L, ThreadOK(L, Lim), NEW func \in Int, Ready(st, cs, m, t, L, func),
           \A j \in m + 1 .. Len(c) : c[j].k = "pcall" /\ c[j].th = t
                                      /\ c[j].ci = Len(L.ci) /\ c[j].top = func,
           NEW nres \in Int, nres >= -1, NEW f \in Fn, NEW for,
           for \in {"tm", "handler"} => nres = 1, for = "pcall" => nres = -1,
           luaD_call(t, L, func, nres, f, for, c)
    PROVE  Lies(st', cs', g)
  <1> DEFINE L1 == [L EXCEPT !.ncc = @ + 1]
             y == [k |-> "call", th |-> t, for |-> for, nres |-> nres]
             c1 == Append(c, y)
             r == luaD_precall(L1, func, nres, f)
             x == IF L1.ncc = LUAI_MAXCCALLS THEN Raise(t)
                  ELSE IF L1.ncc >= LUAI_MAXCCALLS + CErrors THEN Throw(t, "errerr")
                  ELSE IF r.err # "no" THEN Failed(t, r.err)
                  ELSE IF Shape[f].isC THEN [k |-> "c", th |-> t]
                  ELSE [k |-> "exec", th |-> t, n |-> 1]
             M == IF L1.ncc = LUAI_MAXCCALLS \/ L1.ncc >= LUAI_MAXCCALLS + CErrors THEN L1
                  ELSE r.L
             n == Len(c)
  <1>0. /\ L.status = "ok" /\ Fares(st[t], L, cs, m, t) /\ Len(L.ci) = Len(st[t].ci)
        /\ Beneath(L, func)
        /\ \A j \in 1 .. m : cs[j].k = "pcall" /\ cs[j].th = t /\ cs[j].ci = Len(L.ci)
                               => cs[j].top <= func
    BY DEF Ready
  <1>1. st' = [st EXCEPT ![t] = M] /\ cs' = Append(c1, x)
    BY DEF luaD_call, Enter, Become
  <1>2. t \in Thread /\ Len(cs) \in Nat \ {0} /\ m \in Nat /\ In(cs, t) /\ n \in Nat
    BY Shape1 DEF In
  <1>3. st'[t] = M /\ st = [u \in Thread |-> st[u]]
    BY <1>1, <1>2 DEF Good
  <1>4. ThreadOK(M, Lim)
    BY <1>2, <1>3 DEF Good
  <1>5. /\ L1.status = L.status /\ L1.top = L.top /\ L1.ci = L.ci /\ L1.base = L.base
        /\ L1.open = L.open
    BY DEF ThreadOK
  <1>6. ThreadOK(L1, Lim)
    <2>1. CASE L1.ncc = LUAI_MAXCCALLS \/ L1.ncc >= LUAI_MAXCCALLS + CErrors
      BY <1>4, <2>1
    <2>2. CASE ~(L1.ncc >= LUAI_MAXCCALLS + CErrors)
      <3>1. L1.ncc = L.ncc + 1 /\ L.ncc \in Nat /\ L.ncc <= Lim /\ Lim \in Nat \ {0}
        BY Fields DEF ThreadOK, Good
      <3>2. L1.ncc \in Nat /\ L1.ncc <= Lim
        BY <2>2, <3>1 DEF Lim
      <3>3. L1.ncc \in Nat /\ L1.ncc <= Lim /\ L1 = [L EXCEPT !.ncc = L1.ncc]
        BY <3>1, <3>2
      <3> HIDE DEF L1
      <3> QED
        BY <3>3 DEF ThreadOK
    <2> QED
      BY <2>1, <2>2
  <1> HIDE DEF L1
  <1>7. Rises(L, L1)
    <2>1. Rises(L, L)
      BY RisesSelf
    <2> QED
      BY <1>5, <2>1 DEF Rises
  <1>8. Ready(st, cs, m, t, L1, func) /\ Nested(L1) /\ Beneath(L1, func)
    <2>1. Nested(L)
      BY <1>0 DEF Fares, LiesIn
    <2>2. Nested(L1)
      BY <1>0, <1>6, <1>7, <2>1, Risen
    <2>3. \A j \in 1 .. m : cs[j].k = "pcall" /\ cs[j].th = t => Clear(L1, cs[j])
      BY <1>0, <1>5 DEF Fares, Clear
    <2>4. Fares(st[t], L1, cs, m, t) /\ Beneath(L1, func)
      BY <1>0, <1>5, <2>2, <2>3 DEF Fares, LiesIn, Beneath, LastCI
    <2> QED
      BY <1>0, <1>5, <2>2, <2>4 DEF Ready
  <1>9. func < L1.top /\ L1.status # "none"
    BY <1>8 DEF Beneath, Ready
  <1>10. Laid(L1, r, func, nres, f) /\ ThreadOK(r.L, Lim)
    <2>1. PICK z : z = r
      OBVIOUS
    <2>2. Laid(L1, z, func, nres, f) /\ Entering(L1, z, f, Lim)
      BY <1>6, <1>9, <2>1, Precall, PrecallLays
    <2> QED
      BY <2>1, <2>2 DEF Entering
  <1> HIDE DEF r
  <1>11. Fares(st[t], M, cs, m, t) /\ M.status = "ok"
    <2>1. PICK z : z = r
      OBVIOUS
    <2>2. Laid(L1, z, func, nres, f) /\ ThreadOK(z.L, Lim)
      BY <1>10, <2>1
    <2>3. Fares(st[t], z.L, cs, m, t) /\ z.L.status = "ok"
      BY <1>2, <1>6, <1>8, <2>2, CalledFares
    <2>4. Fares(st[t], L1, cs, m, t) /\ L1.status = "ok"
      BY <1>8 DEF Ready
    <2> QED
      BY <2>1, <2>3, <2>4
  <1>12. ASSUME NEW p, p.ci = Len(L.ci), p.top = func
         PROVE  Clear(M, p)
    <2>1. Clear(L1, p)
      <3>1. Len(L.ci) \in Nat /\ L1.top \in Int
        BY <1>6, Fields
      <3>2. \A k \in p.ci + 1 .. Len(L.ci) : FALSE
        BY <1>12, <3>1
      <3>3. func <= L1.top /\ L1.ci[p.ci].base <= p.top
        BY <1>5, <1>8, <1>9, <1>12, <3>1 DEF Beneath, LastCI
      <3> QED
        BY <1>5, <1>12, <3>2, <3>3 DEF Clear
    <2>2. p.ci \in 1 .. Len(L1.ci) /\ p.top \in Int
      BY <1>5, <1>6, <1>9, <1>12, Fields
    <2>3. func <= func
      OBVIOUS
    <2>4. Clear(r.L, p)
      BY <1>6, <1>8, <1>9, <1>10, <1>12, <2>1, <2>2, <2>3, CalledClear
    <2> QED
      BY <2>1, <2>4
  <1>13. x.k \in {"c", "exec"} =>
            \E e \in CI : M.ci = Append(L.ci, e) /\ e.nres = nres
    <2> SUFFICES ASSUME x.k \in {"c", "exec"}
                 PROVE  \E e \in CI : M.ci = Append(L.ci, e) /\ e.nres = nres
      OBVIOUS
    <2>1. M = r.L /\ r.err = "no"
      BY DEF Raise, Throw, Failed
    <2> QED
      BY <1>5, <1>10, <2>1 DEF Laid
  <1>14. x.k \in {"raise", "throw", "c", "exec"} /\ (x.k = "exec" => x.n = 1) /\ x.th = t
    BY DEF Raise, Throw, Failed
  <1> HIDE DEF x, M
  <1>15. /\ Len(cs') = n + 2 /\ cs'[n + 1] = y /\ cs'[n + 2] = x
         /\ \A j \in 1 .. n : cs'[j] = c[j]
    BY <1>1, <1>2
  <1>16. \A j \in m + 1 .. n + 2 : j = n + 1 \/ j = n + 2 \/ (j \in m + 1 .. n /\ j \in 1 .. n)
    <2>1. m <= n
      OBVIOUS
    <2> HIDE DEF n
    <2> QED
      BY <1>2, <2>1
  <1>17. ASSUME NEW j \in m + 1 .. n + 2
         PROVE  Placed(st', cs', g, j)
    <2>1. CASE j = n + 2
      BY <1>14, <1>15, <2>1, PlainPlaced DEF Plain
    <2>2. CASE j = n + 1
      <3>1. x.k \in {"c", "exec"} => st'[t].ci[g[n + 1].frames + 1].nres = nres
        <4> SUFFICES ASSUME x.k \in {"c", "exec"}
                     PROVE  st'[t].ci[g[n + 1].frames + 1].nres = nres
          OBVIOUS
        <4>1. PICK e \in CI : M.ci = Append(L.ci, e) /\ e.nres = nres
          BY <1>13
        <4>2. n + 1 \in 1 .. Len(cs') /\ (n + 1) + 1 = Len(cs')
          BY <1>2, <1>15
        <4>3. cs'[Len(cs')] = x
          BY <1>15
        <4>4. g[n + 1].frames + 1 = Len(st'[t].ci)
          <5>1. /\ t = cs'[Len(cs')].th /\ cs'[Len(cs')].k \in {"c", "exec"}
                /\ cs'[Len(cs')].k = "exec" => cs'[Len(cs')].n = 1
            BY <1>14, <4>3
          <5>2. PICK i : i = n + 1
            OBVIOUS
          <5>3. i \in 1 .. Len(cs') /\ i + 1 = Len(cs')
            BY <4>2, <5>2
          <5>4. g[i].frames + 1 = Len(st'[t].ci)
            <6>1. Good(st', cs', g, Lim)
              OBVIOUS
            <6> QED
              BY ONLY <5>1, <5>3, <6>1, LastFrame
          <5> QED
            BY <5>2, <5>4
        <4>5. L.ci \in Seq(CI)
          BY Fields
        <4>6. M.ci[Len(M.ci)] = e
          BY <4>1, <4>5
        <4> QED
          BY <1>3, <4>1, <4>4, <4>6
      <3>2. cs'[j] = y /\ cs'[j + 1] = x /\ y.k = "call" /\ y.th = t /\ y.nres = nres /\ y.for = for
        BY <1>2, <1>15, <2>2
      <3> HIDE DEF y
      <3> QED
        BY <2>2, <3>1, <3>2 DEF Placed
    <2>3. CASE j \in m + 1 .. n /\ j \in 1 .. n
      <3>1. cs'[j].k = "pcall" /\ cs'[j].th = t /\ cs'[j].ci = Len(L.ci) /\ cs'[j].top = func
        BY <1>15, <2>3
      <3>2. Clear(M, cs'[j])
        BY <1>12, <3>1
      <3> QED
        BY <1>3, <3>1, <3>2 DEF Placed
    <2> QED
      BY <1>16, <2>1, <2>2, <2>3
  <1>18. \A j \in 1 .. m : cs'[j] = cs[j]
    BY <1>2, <1>15
  <1>19. In(cs', t)
    <2>1. n + 2 \in 1 .. Len(cs')
      BY <1>2, <1>15
    <2> QED
      BY <1>14, <1>15, <2>1 DEF In
  <1>20. \A u \in Thread : u # t /\ In(cs, u) => In(cs', u)
    <2> SUFFICES ASSUME NEW u \in Thread, u # t, NEW j \in 1 .. Len(cs), cs[j].th = u
                 PROVE  In(cs', u)
      BY DEF In
    <2>1. j \in 1 .. m
      BY <1>2
    <2>2. j \in 1 .. Len(cs') /\ cs'[j].th = u
      BY <1>2, <1>15, <1>18, <2>1
    <2> QED
      BY <2>2 DEF In
  <1>21. ~(m \in 1 .. Len(cs') - 1 /\ cs[m].k = "call" /\ cs'[m + 1].k \in {"c", "exec"})
    <2>1. CASE m = n
      BY <1>15, <2>1
    <2>2. CASE m # n
      <3>1. m + 1 \in 1 .. n /\ m + 1 \in m + 1 .. n
        BY <1>2, <2>2
      <3> QED
        BY <1>15, <3>1
    <2> QED
      BY <2>1, <2>2
  <1>22. m <= Len(cs') /\ \A j \in m + 1 .. Len(cs') : Placed(st', cs', g, j)
    BY <1>2, <1>15, <1>17
  <1> HIDE DEF y, c1
  <1> QED
    BY <1>1, <1>2, <1>11, <1>18, <1>19, <1>20, <1>21, <1>22, LiesOne

\* All variables are below the top of a thread that runs.
LEMMA OpenBelow ==
    ASSUME NEW L, NEW lim, ThreadOK(L, lim), Nested(L), L.status = "ok"
    PROVE  \A l \in L.open : l \in Int /\ l < L.top
  <1> DEFINE n == Len(L.ci)
  <1>1. n \in Nat /\ n \in 1 .. n /\ L.top \in Int
        /\ \A i \in 1 .. n : L.ci[i].func \in Int /\ L.ci[i].base \in Int
    BY Fields
  <1> SUFFICES ASSUME NEW l \in L.open PROVE l \in Int /\ l < L.top
    OBVIOUS
  <1>2. l \in Int
    BY DEF Nested
  <1>3. PICK i \in 2 .. n : Owns(L, i, l)
    BY DEF Nested
  <1>4. CASE i = n
    BY <1>2, <1>3, <1>4 DEF Owns, Dead
  <1>5. CASE i # n
    <2>1. n \in i + 1 .. n
      BY <1>1, <1>5
    <2>2. l < L.ci[n].func /\ L.ci[n].func < L.ci[n].base /\ L.ci[n].base <= L.top
      BY <1>1, <1>3, <2>1 DEF Owns, Nested, LastCI
    <2> QED
      BY <1>1, <1>2, <2>2
  <1> QED
    BY <1>4, <1>5

\* A function above the top is above all that is in use.
LEMMA ReadyAbove ==
    ASSUME NEW S, NEW c, NEW h, NEW lim, Good(S, c, h, lim), Lies(S, c, h), NEW t \in Thread,
           S[t].status = "ok", NEW M, ThreadOK(M, lim), Rises(S[t], M), NEW func \in Int,
           S[t].top <= func, func < M.top, NEW m \in 0 .. Len(c)
    PROVE  Ready(S, c, m, t, M, func)
  <1> DEFINE L == S[t]
  <1>1. ThreadOK(L, lim) /\ Nested(L) /\ L.top \in Int
    <2>1. ThreadOK(L, lim)
      BY DEF Good
    <2> QED
      BY <2>1, Fields DEF Lies, LiesIn
  <1>2. Fares(L, M, c, m, t)
    BY RisesFares
  <1>3. M.status = "ok" /\ Len(M.ci) = Len(L.ci) /\ M.open = L.open
    BY DEF Rises
  <1>4. Len(L.ci) \in 1 .. Len(L.ci) /\ LastCI(L).base \in Int /\ LastCI(L).base <= L.top
    BY <1>1, Fields DEF LastCI, Nested
  <1>5. LastCI(M).base = LastCI(L).base
    BY <1>4 DEF Rises, SamePlace, LastCI
  <1>6. \A l \in M.open : l < func
    <2>1. \A l \in L.open : l \in Int /\ l < L.top
      BY <1>1, OpenBelow
    <2> QED
      BY <1>1, <1>3, <2>1
  <1>7. Beneath(M, func)
    BY <1>1, <1>4, <1>5, <1>6 DEF Beneath
  <1>8. ASSUME NEW j \in 1 .. m, c[j].k = "pcall", c[j].th = t, c[j].ci = Len(M.ci)
        PROVE  c[j].top <= func
    <2>1. j \in 1 .. Len(c)
      BY Shape1
    <2>2. Clear(L, c[j]) /\ c[j].top \in Int
      BY <1>8, <2>1, PcallFrame DEF Lies, Placed
    <2>3. c[j].top <= L.top
      BY <1>3, <1>8, <2>2 DEF Clear
    <2> QED
      BY <1>1, <2>2, <2>3
  <1> QED
    BY <1>2, <1>3, <1>7, <1>8 DEF Ready

\* A call by the running function, of a function above its top.
LEMMA CallAbove ==
    ASSUME NEW h, NEW g, Good(st, cs, h, Lim), Lies(st, cs, h), cs # <<>>,
           Good(st', cs', g, Lim), NEW t \in Thread, t = cs[Len(cs)].th, st[t].status = "ok",
           NEW M, ThreadOK(M, Lim), Rises(st[t], M), NEW func \in Int,
           st[t].top <= func, func < M.top, NEW nres \in Int, nres >= -1, NEW f \in Fn, NEW for,
           for = "tm" => nres = 1, for \in {"tm", "api"}, luaD_call(t, M, func, nres, f, for, cs)
    PROVE  Lies(st', cs', g)
  <1>1. Len(cs) \in Nat /\ cs \in Seq(Act)
    BY Shape1
  <1>2. PICK m : m = Len(cs)
    OBVIOUS
  <1>3. m \in 0 .. Len(cs) /\ m <= Len(cs) /\ \A j \in m + 1 .. Len(cs) : FALSE
    BY <1>1, <1>2
  <1>4. Ready(st, cs, m, t, M, func)
    BY <1>3, ReadyAbove
  <1>5. for \in {"tm", "handler"} => nres = 1
    OBVIOUS
  <1>6. for = "pcall" => nres = -1
    OBVIOUS
  <1> QED
    BY <1>1, <1>3, <1>4, <1>5, <1>6, CallLies

\* A metamethod is called above the frame.
LEMMA CallTMLies ==
    ASSUME NEW h, NEW g, Good(st, cs, h, Lim), Lies(st, cs, h), cs # <<>>,
           Good(st', cs', g, Lim), NEW th, NEW f \in Fn, CallTM(th, f)
    PROVE  Lies(st', cs', g)
  <1> DEFINE L == st[th]
             K == checkstack(L, 3)
             v == K.top + 3
             M == [K EXCEPT !.top = v]
             func == L.top
  <1>1. Running({"exec"}, th) /\ luaD_call(th, M, func, 1, f, "tm", cs)
    BY DEF CallTM
  <1>2. th \in Thread /\ ThreadOK(L, Lim) /\ L.status = "ok" /\ th = cs[Len(cs)].th
    BY <1>1, TopEnds
  <1>3. Moved(L, K) /\ Rises(L, K) /\ K.top = L.top
    BY <1>2, CheckStackMoves, CheckStackRises
  <1> HIDE DEF K
  <1>4. ThreadOK(K, Lim)
    BY <1>2, <1>3, MovedKeeps
  <1>5. v \in Int /\ K.top <= v /\ func \in Int /\ func <= func /\ func < v
    BY <1>2, <1>3, <1>4, Fields
  <1> HIDE DEF v
  <1>6. ThreadOK(M, Lim) /\ Rises(K, M) /\ M.top = v
    BY <1>4, <1>5, Moves, TopRises DEF ThreadOK
  <1> HIDE DEF M
  <1>7. Rises(L, M)
    BY <1>2, <1>3, <1>4, <1>6, RisesTwice
  <1> QED
    BY <1>1, <1>2, <1>5, <1>6, <1>7, CallAbove

\* lua_call.
LEMMA LuaCallLies ==
    ASSUME NEW h, NEW g, Good(st, cs, h, Lim), Lies(st, cs, h), cs # <<>>,
           Good(st', cs', g, Lim), NEW th, NEW f \in Fn, NEW nargs \in Nat, NEW nres \in Int,
           nres >= -1, lua_call(th, f, nargs, nres)
    PROVE  Lies(st', cs', g)
  <1> DEFINE L == st[th]
             v == L.top + nargs + 1
             M == [L EXCEPT !.top = v]
             func == L.top
  <1>1. Running({"c", "host", "hook"}, th) /\ luaD_call(th, M, func, nres, f, "api", cs)
    BY DEF lua_call, InC
  <1>2. th \in Thread /\ ThreadOK(L, Lim) /\ L.status = "ok" /\ th = cs[Len(cs)].th
    BY <1>1, TopEnds
  <1>3. v \in Int /\ L.top <= v /\ func \in Int /\ func <= func /\ func < v
    BY <1>2, Fields
  <1> HIDE DEF v
  <1>4. ThreadOK(M, Lim) /\ Rises(L, M) /\ M.top = v
    <2>1. M.top = v
      BY <1>2 DEF ThreadOK
    <2> HIDE DEF L
    <2> QED
      BY <1>2, <1>3, <2>1, Moves, TopRises
  <1> HIDE DEF M
  <1> QED
    BY <1>1, <1>2, <1>3, <1>4, CallAbove

\* lua_pcall: what it saves lies where the function is.
LEMMA PcallLies ==
    ASSUME NEW h, NEW g, Good(st, cs, h, Lim), Lies(st, cs, h), cs # <<>>,
           Good(st', cs', g, Lim), NEW th, NEW f \in Fn, NEW nargs \in Nat, NEW handler,
           lua_pcall(th, f, nargs, handler)
    PROVE  Lies(st', cs', g)
  <1> DEFINE L == st[th]
             func == L.top + (IF handler THEN 1 ELSE 0)
             v == func + nargs + 1
             e == IF handler THEN L.top ELSE 0
             M == [L EXCEPT !.top = v, !.errfunc = e]
             act == [k |-> "pcall", th |-> th, top |-> func, ncc |-> L.ncc,
                     ci |-> Len(L.ci), hookok |-> L.hookok, errfunc |-> L.errfunc]
             c == Append(cs, act)
             m == Len(cs)
  <1>1. /\ Running({"c", "host", "hook"}, th)
        /\ luaD_call(th, M, func, LUA_MULTRET, f, "pcall", c)
    BY DEF lua_pcall, InC
  <1>2. /\ th \in Thread /\ ThreadOK(L, Lim) /\ L.status = "ok" /\ th = cs[m].th
        /\ m \in Nat /\ cs \in Seq(Act)
    BY <1>1, TopEnds, Shape1
  <1>3. /\ v \in Int /\ L.top <= v /\ func \in Int /\ L.top <= func /\ func < v
        /\ e \in Int
    <2>1. L.top \in Int
      BY <1>2, Fields
    <2>2. PICK a : a = L.top
      OBVIOUS
    <2>3. func \in {a, a + 1} /\ v = func + nargs + 1 /\ e \in {a, 0} /\ nargs \in Nat
          /\ a \in Int
      BY <2>1, <2>2
    <2> HIDE DEF func, v, e
    <2> QED
      BY ONLY <2>2, <2>3
  <1>4. act \in Act
    <2>1. L.ncc \in Nat /\ Len(L.ci) \in Nat /\ L.hookok \in BOOLEAN /\ L.errfunc \in Int
      BY <1>2, Fields
    <2>2. PICK a, b, d, x, y : a = func /\ b = L.ncc /\ d = Len(L.ci) /\ x = L.hookok
                              /\ y = L.errfunc
      OBVIOUS
    <2>3. /\ th \in Thread /\ a \in Int /\ b \in Nat /\ d \in Nat /\ x \in BOOLEAN /\ y \in Int
          /\ act = [k |-> "pcall", th |-> th, top |-> a, ncc |-> b, ci |-> d, hookok |-> x,
                    errfunc |-> y]
      BY <1>2, <1>3, <2>1, <2>2
    <2> HIDE DEF act
    <2> QED
      BY ONLY <2>3 DEF Act
  <1>5. act.k = "pcall" /\ act.th = th /\ act.ci = Len(L.ci) /\ act.top = func
    OBVIOUS
  <1> HIDE DEF func, v, e, act
  <1>6. /\ M.ci = L.ci /\ M.top = v /\ M.open = L.open /\ M.base = L.base
        /\ M.status = L.status
    BY <1>2 DEF ThreadOK
  <1>7. ThreadOK(M, Lim)
    <2> HIDE DEF L
    <2>1. /\ M = [status |-> M.status, top |-> M.top, base |-> M.base, last |-> M.last,
                  ci |-> M.ci, sizeci |-> M.sizeci, ncc |-> M.ncc, hookok |-> M.hookok,
                  errfunc |-> M.errfunc, open |-> M.open]
          /\ M.last = L.last /\ M.sizeci = L.sizeci /\ M.ncc = L.ncc /\ M.hookok = L.hookok
          /\ M.errfunc = e
      <3>1. L = [status |-> L.status, top |-> L.top, base |-> L.base, last |-> L.last,
                 ci |-> L.ci, sizeci |-> L.sizeci, ncc |-> L.ncc, hookok |-> L.hookok,
                 errfunc |-> L.errfunc, open |-> L.open]
        BY <1>2 DEF ThreadOK
      <3>2. M = [L EXCEPT !.top = v, !.errfunc = e]
        OBVIOUS
      <3> HIDE DEF M
      <3> QED
        BY <3>1, <3>2
    <2> HIDE DEF M
    <2> QED
      BY <1>2, <1>3, <1>6, <2>1 DEF ThreadOK
  <1> HIDE DEF M
  <1>8. Rises(L, M)
    <2>1. Rises(L, L)
      BY <1>2, RisesSelf
    <2> QED
      BY <1>3, <1>6, <2>1 DEF Rises
  <1>9. /\ c \in Seq(Act) /\ Len(c) = m + 1 /\ c[m + 1] = act
        /\ \A j \in 1 .. m : c[j] = cs[j]
    BY <1>2, <1>4, Longer
  <1>10. Ready(st, cs, m, th, M, func)
    <2>1. m \in 0 .. Len(cs) /\ func < M.top
      BY <1>2, <1>3, <1>6
    <2> QED
      BY <1>2, <1>3, <1>7, <1>8, <2>1, ReadyAbove
  <1>11. \A j \in m + 1 .. Len(c) : c[j].k = "pcall" /\ c[j].th = th
                                      /\ c[j].ci = Len(M.ci) /\ c[j].top = func
    <2>1. \A j \in m + 1 .. Len(c) : j = m + 1
      BY <1>2, <1>9
    <2> QED
      BY <1>5, <1>6, <1>9, <2>1
  <1>12. /\ m \in 0 .. Len(cs) /\ m <= Len(c) /\ \A j \in m + 1 .. Len(cs) : cs[j].th = th
    BY <1>2, <1>9
  <1> HIDE DEF c, m
  <1>13. PICK nres : nres = LUA_MULTRET
    OBVIOUS
  <1>14. PICK for : for = "pcall"
    OBVIOUS
  <1>15. nres \in Int /\ nres >= -1 /\ nres = -1
    BY <1>13 DEF LUA_MULTRET
  <1>16. luaD_call(th, M, func, nres, f, for, c)
    BY <1>1, <1>13, <1>14
  <1>17. \A j \in 1 .. m : c[j] = cs[j]
    BY <1>9
  <1>18. (for \in {"tm", "handler"} => nres = 1) /\ (for = "pcall" => nres = -1)
         /\ th = cs[Len(cs)].th /\ c \in Seq(Act)
    BY <1>2, <1>9, <1>14, <1>15 DEF m
  <1> QED
    BY <1>3, <1>7, <1>10, <1>11, <1>12, <1>15, <1>16, <1>17, <1>18, CallLies

\* The top of the C stack is replaced by an entry that starts no function.
LEMMA LiesInstead ==
    ASSUME NEW h, NEW g, Good(st, cs, h, Lim), Lies(st, cs, h), cs # <<>>,
           Good(st', cs', g, Lim), NEW m, m = Len(cs) - 1, NEW x, Plain(x),
           x.k \notin {"c", "exec"}, x.th = cs[Len(cs)].th, cs' = Append(SubSeq(cs, 1, m), x),
           NEW t \in Thread, t = cs[Len(cs)].th, NEW M, st' = [st EXCEPT ![t] = M],
           Fares(st[t], M, cs, m, t)
    PROVE  Lies(st', cs', g)
  <1>1. Len(cs) \in Nat \ {0} /\ cs \in Seq(Act) /\ m \in 0 .. Len(cs)
    BY Shape1
  <1>2. Len(cs') = m + 1 /\ cs'[m + 1] = x /\ \A j \in 1 .. m : cs'[j] = cs[j]
    BY <1>1
  <1>3. \A j \in m + 1 .. Len(cs') : Placed(st', cs', g, j)
    <2>1. \A j \in m + 1 .. Len(cs') : j = m + 1
      BY <1>1, <1>2
    <2> QED
      BY <1>2, <2>1, PlainPlaced
  <1>4. In(cs', t)
    BY <1>1, <1>2 DEF In
  <1>5. \A u \in Thread : u # t /\ In(cs, u) => In(cs', u)
    <2> SUFFICES ASSUME NEW u \in Thread, u # t, NEW j \in 1 .. Len(cs), cs[j].th = u
                 PROVE  In(cs', u)
      BY DEF In
    <2>1. j \in 1 .. m /\ j \in 1 .. Len(cs')
      BY <1>1, <1>2
    <2> QED
      BY <1>2, <2>1 DEF In
  <1>6. ~(m \in 1 .. Len(cs') - 1 /\ cs[m].k = "call" /\ cs'[m + 1].k \in {"c", "exec"})
    BY <1>2
  <1>7. m <= Len(cs')
    BY <1>1, <1>2
  <1>8. M.status = "ok" /\ ~In(cs', t) => Len(M.ci) = 1
    BY <1>4
  <1>9. PICK n : n = m
    OBVIOUS
  <1>10. /\ n \in 0 .. Len(cs) /\ n <= Len(cs') /\ Fares(st[t], M, cs, n, t)
         /\ \A j \in 1 .. n : cs'[j] = cs[j]
         /\ \A j \in n + 1 .. Len(cs') : Placed(st', cs', g, j)
         /\ n \in 1 .. Len(cs') - 1 /\ cs[n].k = "call" /\ cs'[n + 1].k \in {"c", "exec"}
               => n < Len(cs) /\ cs[n + 1].k \in {"c", "exec"}
    BY <1>1, <1>2, <1>3, <1>6, <1>7, <1>9
  <1>11. /\ Good(st, cs, h, Lim) /\ Lies(st, cs, h) /\ cs # <<>> /\ Good(st', cs', g, Lim)
         /\ st' = [st EXCEPT ![t] = M] /\ t \in Thread
    OBVIOUS
  <1> QED
    BY ONLY <1>5, <1>8, <1>10, <1>11, LiesOne

\* luaG_runerror: the message is pushed, and the handler called above it.
LEMMA RunerrorLies ==
    ASSUME NEW h, NEW g, Good(st, cs, h, Lim), Lies(st, cs, h), cs # <<>>,
           Good(st', cs', g, Lim), NEW f \in Fn, luaG_runerror(f)
    PROVE  Lies(st', cs', g)
  <1> DEFINE th == cs[Len(cs)].th
             m == Len(cs) - 1
             K == incr_top(st[th])
             M == incr_top(K)
             func == M.top - 2
  <1>1. /\ cs[Len(cs)].k = "raise"
        /\ K.errfunc = 0 => st' = [st EXCEPT ![th] = K]
                            /\ cs' = Append(Below, Throw(th, "errrun"))
        /\ K.errfunc # 0 => luaD_call(th, M, func, 1, f, "handler", Below)
    BY DEF luaG_runerror, Top, Become
  <1>2. /\ th \in Thread /\ ThreadOK(st[th], Lim) /\ st[th].status = "ok"
        /\ Len(cs) \in Nat \ {0} /\ cs \in Seq(Act) /\ m \in 0 .. Len(cs)
    BY AtTop, Shape1
  <1>3. Rises(st[th], K) /\ ThreadOK(K, Lim) /\ K.top = st[th].top + 1
    BY <1>2, IncrRises
  <1>4. Rises(K, M) /\ ThreadOK(M, Lim) /\ M.top = K.top + 1
    BY <1>3, IncrRises
  <1>5. CASE K.errfunc = 0
    <2>1. Fares(st[th], K, cs, m, th)
      BY <1>2, <1>3, RisesFares
    <2>2. PICK x : x = Throw(th, "errrun")
      OBVIOUS
    <2>3. Plain(x) /\ x.k \notin {"c", "exec"} /\ x.th = th
      BY <2>2 DEF Plain, Throw
    <2>4. cs' = Append(SubSeq(cs, 1, m), x) /\ st' = [st EXCEPT ![th] = K]
      BY <1>1, <1>5, <2>2 DEF Below
    <2> HIDE DEF K
    <2> QED
      BY <1>2, <2>1, <2>3, <2>4, LiesInstead
  <1>6. CASE K.errfunc # 0
    <2>1. Rises(st[th], M)
      BY <1>2, <1>3, <1>4, RisesTwice
    <2>2. func \in Int /\ st[th].top <= func /\ func < M.top
      BY <1>2, <1>3, <1>4, Fields
    <2> HIDE DEF M, K, func
    <2>3. Ready(st, cs, m, th, M, func)
      BY <1>2, <1>4, <2>1, <2>2, ReadyAbove
    <2>4. PICK c : c = SubSeq(cs, 1, m)
      OBVIOUS
    <2>5. /\ c \in Seq(Act) /\ Len(c) = m /\ \A j \in 1 .. m : c[j] = cs[j]
      BY <1>2, <2>4, Shorter
    <2>6. PICK for : for = "handler"
      OBVIOUS
    <2>7. luaD_call(th, M, func, 1, f, for, c)
      BY <1>1, <1>6, <2>4, <2>6 DEF Below
    <2>8. PICK n : n = m
      OBVIOUS
    <2>9. PICK t : t = th
      OBVIOUS
    <2>10. \A j \in n + 1 .. Len(cs) : cs[j].th = t
      <3>1. \A j \in n + 1 .. Len(cs) : j = Len(cs)
        BY <1>2, <2>8
      <3> QED
        BY <2>9, <3>1
    <2>11. \A j \in n + 1 .. Len(c) : FALSE
      BY <1>2, <2>5, <2>8
    <2>12. /\ (for \in {"tm", "handler"} => 1 = 1) /\ (for = "pcall" => 1 = -1)
           /\ 1 \in Int /\ 1 >= -1
      BY <2>6
    <2>13. /\ n \in 0 .. Len(cs) /\ n <= Len(c) /\ (\A j \in 1 .. n : c[j] = cs[j])
           /\ Ready(st, cs, n, t, M, func) /\ t = cs[Len(cs)].th
           /\ luaD_call(t, M, func, 1, f, for, c)
      BY <1>2, <2>3, <2>5, <2>7, <2>8, <2>9
    <2>14. ThreadOK(M, Lim) /\ func \in Int
      BY <1>4, <2>2
    <2>15. PICK nres : nres = 1
      OBVIOUS
    <2>16. /\ luaD_call(t, M, func, nres, f, for, c) /\ nres \in Int /\ nres >= -1
           /\ (for \in {"tm", "handler"} => nres = 1) /\ (for = "pcall" => nres = -1)
      BY <2>12, <2>13, <2>15
    <2>17. /\ Good(st, cs, h, Lim) /\ Lies(st, cs, h) /\ cs # <<>> /\ Good(st', cs', g, Lim)
           /\ f \in Fn
      OBVIOUS
    <2> QED
      BY ONLY <2>5, <2>10, <2>11, <2>13, <2>14, <2>16, <2>17, CallLies
  <1> QED
    BY <1>5, <1>6

\* The count of a luaV_execute changes.
LEMMA LiesCounted ==
    ASSUME NEW h, NEW g, Good(st, cs, h, Lim), Lies(st, cs, h), cs # <<>>,
           Good(st', cs', g, Lim), Len(cs') = Len(cs),
           \A j \in 1 .. Len(cs) - 1 : cs'[j] = cs[j],
           cs[Len(cs)].k = "exec", cs'[Len(cs)].k = "exec", cs'[Len(cs)].th = cs[Len(cs)].th,
           NEW t \in Thread, t = cs[Len(cs)].th, NEW M, st' = [st EXCEPT ![t] = M],
           NEW m, m = Len(cs) - 1, Fares(st[t], M, cs, m, t)
    PROVE  Lies(st', cs', g)
  <1>1. Len(cs) \in Nat \ {0} /\ m \in 0 .. Len(cs) /\ m + 1 = Len(cs)
    BY Shape1
  <1>2. \A j \in m + 1 .. Len(cs') : Placed(st', cs', g, j)
    <2>1. \A j \in m + 1 .. Len(cs') : j = Len(cs)
      BY <1>1
    <2>2. Plain(cs'[Len(cs)])
      BY DEF Plain
    <2> QED
      BY <2>1, <2>2, PlainPlaced
  <1>3. In(cs', t)
    BY <1>1 DEF In
  <1>4. \A u \in Thread : u # t /\ In(cs, u) => In(cs', u)
    <2> SUFFICES ASSUME NEW u \in Thread, u # t, NEW j \in 1 .. Len(cs), cs[j].th = u
                 PROVE  In(cs', u)
      BY DEF In
    <2>1. j \in 1 .. Len(cs) - 1 /\ j \in 1 .. Len(cs')
      BY <1>1
    <2> QED
      BY <2>1 DEF In
  <1>5. m \in 1 .. Len(cs') - 1 /\ cs[m].k = "call" /\ cs'[m + 1].k \in {"c", "exec"}
               => m < Len(cs) /\ cs[m + 1].k \in {"c", "exec"}
    BY <1>1
  <1>6. PICK n : n = m
    OBVIOUS
  <1>7. /\ n \in 0 .. Len(cs) /\ n <= Len(cs') /\ Fares(st[t], M, cs, n, t)
        /\ \A j \in 1 .. n : cs'[j] = cs[j]
        /\ \A j \in n + 1 .. Len(cs') : Placed(st', cs', g, j)
        /\ n \in 1 .. Len(cs') - 1 /\ cs[n].k = "call" /\ cs'[n + 1].k \in {"c", "exec"}
               => n < Len(cs) /\ cs[n + 1].k \in {"c", "exec"}
    <2>1. m <= Len(cs') /\ \A j \in 1 .. m : cs'[j] = cs[j]
      BY <1>1
    <2> QED
      BY <1>1, <1>2, <1>5, <1>6, <2>1
  <1>8. /\ Good(st, cs, h, Lim) /\ Lies(st, cs, h) /\ cs # <<>> /\ Good(st', cs', g, Lim)
        /\ st' = [st EXCEPT ![t] = M] /\ t \in Thread
        /\ M.status = "ok" /\ ~In(cs', t) => Len(M.ci) = 1
    BY <1>3
  <1> QED
    BY ONLY <1>4, <1>7, <1>8, LiesOne

\* A function is called from a register, in the luaV_execute that runs.
LEMMA EnterLies ==
    ASSUME NEW h, NEW g, Good(st, cs, h, Lim), Lies(st, cs, h), cs # <<>>,
           Good(st', cs', g, Lim), NEW th, Running({"exec"}, th), NEW top \in Int,
           NEW r \in FreeRegs(st[th]), r \in Int, r < top, NEW nres \in Int, nres >= -1,
           NEW f \in Fn, NEW p, p = luaD_precall([st[th] EXCEPT !.top = top], r, nres, f),
           Enter(th, p, cs, f, TRUE)
    PROVE  Lies(st', cs', g)
  <1> DEFINE L == st[th]
             M == [L EXCEPT !.top = top]
             n == Len(cs)
  <1>1. /\ th \in Thread /\ ThreadOK(L, Lim) /\ L.status = "ok" /\ th = cs[n].th
        /\ Nested(L) /\ Len(L.ci) \in 1 .. Len(L.ci) /\ cs[n].k = "exec" /\ In(cs, th)
        /\ \A j \in 1 .. n : cs[j].k = "pcall" /\ cs[j].th = th => cs[j].ci < Len(L.ci)
    BY TopEnds
  <1>2. n \in Nat \ {0} /\ cs \in Seq(Act) /\ Len(L.ci) \in Nat
    BY <1>1, Shape1, Fields
  <1>3. L.base = LastCI(L).base /\ L.base <= r /\ \A l \in L.open : l < r
    <2>1. L.base \in Int /\ LastCI(L).top \in Int
      BY <1>1, Fields DEF LastCI
    <2>2. L.base = LastCI(L).base
      BY <1>1 DEF Nested
    <2>3. r \in L.base .. LastCI(L).top /\ \A l \in L.open : l < r
      BY DEF FreeRegs
    <2> HIDE DEF L
    <2> QED
      BY <2>1, <2>2, <2>3
  <1>4. ThreadOK(M, Lim)
    BY <1>1, Moves
  <1>5. /\ M.ci = L.ci /\ M.top = top /\ M.open = L.open /\ M.base = L.base
        /\ M.status = "ok"
    BY <1>1 DEF ThreadOK
  <1> HIDE DEF M
  <1>6. Beneath(M, r)
    BY <1>3, <1>5 DEF Beneath, LastCI
  <1>7. ASSUME NEW m \in 0 .. n
        PROVE  Ready(st, cs, m, th, M, r)
    <2>1. \A j \in 1 .. m : cs[j].k = "pcall" /\ cs[j].th = th => cs[j].ci # Len(M.ci)
      <3>1. \A j \in 1 .. m : j \in 1 .. n
        BY <1>2
      <3> QED
        BY <1>1, <1>2, <1>5, <3>1
    <2>2. LastCI(M).base <= M.top
      <3>1. LastCI(M).base = L.base /\ M.top = top
        BY <1>3, <1>5 DEF LastCI
      <3>2. L.base \in Int
        BY <1>1, Fields
      <3>3. L.base <= r /\ r < top /\ r \in Int /\ top \in Int
        BY <1>3
      <3> HIDE DEF L
      <3> QED
        BY ONLY <3>1, <3>2, <3>3
    <2>3. \A l \in M.open : l < M.top
      <3>1. \A l \in M.open : l \in Int /\ l < r
        BY <1>1, <1>3, <1>5, Zenon DEF Nested
      <3>2. M.top = top /\ r < top /\ r \in Int /\ top \in Int
        BY <1>5
      <3> QED
        BY ONLY <3>1, <3>2
    <2>4. Fares(L, M, cs, m, th)
      BY <1>1, <1>4, <1>5, <2>1, <2>2, <2>3, TopFares
    <2> QED
      BY <1>5, <1>6, <2>1, <2>4 DEF Ready
  <1>8. Laid(M, p, r, nres, f) /\ ThreadOK(p.L, Lim) /\ p.err \in {"no", "errrun", "errerr"}
    <2>1. p = luaD_precall(M, r, nres, f)
      BY DEF M
    <2>2. M.status # "none" /\ r < M.top
      BY <1>5
    <2> QED
      BY <1>4, <2>1, <2>2, Precall, PrecallLays DEF Entering
  <1>9. ASSUME NEW m \in 0 .. n
        PROVE  Fares(L, p.L, cs, m, th)
    <2>1. Ready(st, cs, m, th, M, r)
      BY <1>7
    <2> QED
      BY <1>1, <1>4, <1>8, <2>1, CalledFares
  <1>10. st' = [st EXCEPT ![th] = p.L]
    BY DEF Enter, Become
  <1>11. CASE p.err # "no" \/ Shape[f].isC
    <2> DEFINE x == IF p.err # "no" THEN Failed(th, p.err) ELSE [k |-> "c", th |-> th]
    <2>1. cs' = Append(cs, x)
      BY <1>11 DEF Enter, Become
    <2>2. Plain(x)
      BY DEF Plain, Failed, Throw, Raise
    <2>3. Fares(L, p.L, cs, n, th)
      BY <1>2, <1>9
    <2> HIDE DEF x, L
    <2> QED
      BY <1>1, <1>10, <2>1, <2>2, <2>3, LiesPush DEF L
  <1>12. CASE ~(p.err # "no" \/ Shape[f].isC)
    <2>1. cs' = [cs EXCEPT ![n].n = @ + 1]
      BY <1>12 DEF Enter, Become
    <2>2. /\ Len(cs') = n /\ (\A j \in 1 .. n - 1 : cs'[j] = cs[j])
          /\ cs'[n].k = "exec" /\ cs'[n].th = th
      <3>1. PICK y : y = [cs[n] EXCEPT !.n = @ + 1]
        OBVIOUS
      <3>2. cs' = [cs EXCEPT ![n] = y]
        BY <2>1, <3>1
      <3>3. cs[n] \in [k : {"exec"}, th : Thread, n : Nat \ {0}]
        <4>1. cs[n] \in Act
          BY <1>2
        <4> QED
          BY <1>1, <4>1 DEF Act
      <3>4. y.k = "exec" /\ y.th = th
        BY <1>1, <3>1, <3>3
      <3>5. Len(cs') = n /\ cs'[n] = y /\ \A j \in 1 .. n - 1 : cs'[j] = cs[j]
        BY <1>2, <3>2
      <3> QED
        BY <3>4, <3>5
    <2>3. PICK m : m = n - 1
      OBVIOUS
    <2>4. m \in 0 .. n
      BY <1>2, <2>3
    <2>5. Fares(L, p.L, cs, m, th)
      BY <1>9, <2>4
    <2> HIDE DEF L
    <2> QED
      BY <1>1, <1>10, <2>2, <2>3, <2>5, LiesCounted DEF L
  <1> QED
    BY <1>11, <1>12

\* OP_CALL.
LEMMA OpCallLies ==
    ASSUME NEW h, NEW g, Good(st, cs, h, Lim), Lies(st, cs, h), cs # <<>>,
           Good(st', cs', g, Lim), NEW th, NEW f \in Fn, NEW nargs \in Nat, NEW nres \in Int,
           nres >= -1, OpCall(th, f, nargs, nres)
    PROVE  Lies(st', cs', g)
  <1> DEFINE L == st[th]
  <1>1. Running({"exec"}, th)
    BY DEF OpCall
  <1>2. th \in Thread /\ ThreadOK(L, Lim)
    BY <1>1, TopEnds
  <1>3. PICK r \in FreeRegs(L) :
           LET top == IF AtFrameTop(L) THEN r + 1 + nargs ELSE L.top
           IN  top > r /\ Enter(th, luaD_precall([L EXCEPT !.top = top], r, nres, f), cs,
                                f, TRUE)
    BY DEF OpCall
  <1>4. r \in Int /\ L.top \in Int
    BY <1>2, Fields DEF FreeRegs
  <1>5. PICK top : top = IF AtFrameTop(L) THEN r + 1 + nargs ELSE L.top
    OBVIOUS
  <1>6. top \in Int /\ r < top
    BY <1>3, <1>4, <1>5
  <1>7. PICK p : p = luaD_precall([L EXCEPT !.top = top], r, nres, f)
    OBVIOUS
  <1>8. Enter(th, p, cs, f, TRUE)
    BY <1>3, <1>5, <1>7
  <1> QED
    BY <1>1, <1>3, <1>4, <1>6, <1>7, <1>8, EnterLies

\* A tail call: the last frame is replaced, its variables are closed.
LEMMA Replaced ==
    ASSUME NEW lim, NEW L, ThreadOK(L, lim), Nested(L), L.status = "ok", Len(L.ci) # 1,
           NEW M, ThreadOK(M, lim), Len(M.ci) = Len(L.ci), M.status = "ok",
           \A i \in 1 .. Len(L.ci) - 1 : M.ci[i] = L.ci[i],
           LastCI(M).func = LastCI(L).func, LastCI(M).nres = LastCI(L).nres,
           LastCI(M).func < LastCI(M).base, LastCI(M).base <= LastCI(M).top,
           LastCI(M).base <= M.top, M.base = LastCI(M).base,
           M.open = {l \in L.open : l < LastCI(L).base}
    PROVE  Nested(M)
  <1> DEFINE n == Len(L.ci)
  <1>1. n \in Nat /\ n \in 1 .. n /\ n - 1 \in Nat /\ n # 1 /\ n - 1 \in 1 .. n
        /\ \A i \in 1 .. n : L.ci[i].func \in Int /\ L.ci[i].base \in Int
    <2>1. n \in Nat /\ n \in 1 .. n /\ n # 1
          /\ \A i \in 1 .. n : L.ci[i].func \in Int /\ L.ci[i].base \in Int
      BY Fields
    <2> HIDE DEF n
    <2> QED
      BY <2>1
  <1>2. M.ci[n].func = L.ci[n].func /\ M.ci[n].nres = L.ci[n].nres
    BY DEF LastCI
  <1>3. \A i \in 1 .. n : i = n \/ i \in 1 .. n - 1
    BY <1>1
  <1>4. \A i \in 1 .. n : M.ci[i].func = L.ci[i].func /\ M.ci[i].nres = L.ci[i].nres
    BY <1>2, <1>3
  <1>5. ASSUME NEW i \in 1 .. n
        PROVE  /\ M.ci[i].func < M.ci[i].base /\ M.ci[i].base <= M.ci[i].top
               /\ M.ci[i].nres >= -1
               /\ \A k \in i + 1 .. n : M.ci[i].base <= M.ci[k].func
    <2>1. M.ci[i].nres >= -1
      BY <1>4 DEF Nested
    <2>2. CASE i = n
      <3>1. \A k \in i + 1 .. n : FALSE
        BY <1>1, <2>2
      <3> QED
        BY <2>1, <2>2, <3>1 DEF LastCI
    <2>3. CASE i \in 1 .. n - 1
      <3>1. M.ci[i] = L.ci[i]
        BY <2>3
      <3>2. \A k \in i + 1 .. n : k \in 1 .. n
        BY <1>1
      <3> QED
        BY <1>4, <2>1, <3>1, <3>2 DEF Nested
    <2> QED
      BY <1>3, <2>2, <2>3
  <1>6. ASSUME NEW l \in M.open
        PROVE  l \in Int /\ \E i \in 2 .. n : Owns(M, i, l)
    <2>1. l \in L.open /\ l \in Int /\ l < L.ci[n].base
      BY DEF Nested, LastCI
    <2>2. PICK i \in 2 .. n : Owns(L, i, l)
      BY <2>1 DEF Nested
    <2>3. i \in 1 .. n /\ i # n
      BY <1>1, <2>1, <2>2 DEF Owns
    <2>4. M.ci[i] = L.ci[i]
      BY <1>3, <2>3
    <2>5. \A k \in i + 1 .. n : k \in 1 .. n
      BY <1>1, <2>3
    <2>6. \A k \in i + 1 .. n : l < M.ci[k].func
      BY <1>4, <2>2, <2>5 DEF Owns
    <2> QED
      BY <2>1, <2>2, <2>3, <2>4, <2>6 DEF Owns
  <1>7. M.ci[1].base = 1
    <2>1. 1 \in 1 .. n - 1
      <3> HIDE DEF n
      <3> QED
        BY <1>1
    <2> QED
      BY <2>1 DEF Nested
  <1> QED
    BY <1>5, <1>6, <1>7 DEF Nested, LastCI

\* OP_TAILCALL.
LEMMA OpTailCallLies ==
    ASSUME NEW h, NEW g, Good(st, cs, h, Lim), Lies(st, cs, h), cs # <<>>,
           Good(st', cs', g, Lim), NEW th, NEW f \in Fn, NEW nargs \in Nat,
           OpTailCall(th, f, nargs)
    PROVE  Lies(st', cs', g)
  <1> DEFINE L == st[th]
             n == Len(L.ci)
             old == LastCI(L)
  <1>1. Running({"exec"}, th) /\ ~Shape[f].isC
    BY DEF OpTailCall
  <1>2. /\ th \in Thread /\ ThreadOK(L, Lim) /\ L.status = "ok" /\ th = cs[Len(cs)].th
        /\ Nested(L) /\ n \in 1 .. n /\ cs[Len(cs)].k = "exec" /\ In(cs, th)
        /\ \A j \in 1 .. Len(cs) : cs[j].k = "pcall" /\ cs[j].th = th => cs[j].ci < n
    BY <1>1, TopEnds
  <1>3. old \in LuaFrame /\ n # 1
    BY <1>1, <1>2, TopEnds, LastIs
  <1>4. PICK r, top, p :
           /\ r \in FreeRegs(L) /\ top = r + 1 + nargs
           /\ p = luaD_precall([L EXCEPT !.top = top], r, LUA_MULTRET, f)
           /\ p.err # "no" => Enter(th, p, cs, f, TRUE)
           /\ p.err = "no" => LET new == LastCI(p.L)
                                  base == old.func + (new.base - new.func)
                                  t == old.func + (p.L.top - new.func)
                              IN  /\ st' = [st EXCEPT ![th] =
                                   [luaF_close(p.L, old.base) EXCEPT
                                      !.base = base, !.top = t,
                                      !.ci = [SubSeq(@, 1, n) EXCEPT
                                                ![n].base = base, ![n].top = t,
                                                ![n].fn = f]]]
                                  /\ cs' = cs
    BY ZenonT(60) DEF OpTailCall
  <1>5. r \in Int /\ r < top /\ top \in Int
    <2>1. r \in Int
      <3>1. L.base \in Int /\ LastCI(L).top \in Int
        BY <1>2, Fields DEF LastCI
      <3>2. r \in FreeRegs(L)
        BY <1>4
      <3>3. r \in L.base .. LastCI(L).top
        BY ONLY <3>2 DEF FreeRegs
      <3> QED
        BY ONLY <3>1, <3>3
    <2> QED
      BY <1>4, <2>1
  <1>6. PICK nres : nres = LUA_MULTRET
    OBVIOUS
  <1>7. nres \in Int /\ nres >= -1 /\ p = luaD_precall([L EXCEPT !.top = top], r, nres, f)
    BY <1>4, <1>6 DEF LUA_MULTRET
  <1>8. CASE p.err # "no"
    BY <1>1, <1>4, <1>5, <1>7, <1>8, EnterLies
  <1>9. CASE p.err = "no"
    <2> DEFINE N == [L EXCEPT !.top = top]
    <2>1. ThreadOK(N, Lim) /\ N.ci = L.ci /\ N.top = top /\ N.open = L.open /\ N.status = "ok"
      <3>1. N.ci = L.ci /\ N.top = top /\ N.open = L.open /\ N.status = "ok"
        BY <1>2 DEF ThreadOK
      <3> QED
        BY <1>2, <1>5, <3>1, Moves
    <2> HIDE DEF N
    <2>2. Laid(N, p, r, nres, f) /\ ThreadOK(p.L, Lim)
      <3>1. p = luaD_precall(N, r, nres, f)
        BY <1>7 DEF N
      <3> QED
        BY <1>5, <1>7, <2>1, <3>1, Precall, PrecallLays DEF Entering
    <2>3. PICK x \in CI : /\ p.L.ci = Append(L.ci, x) /\ x.fn = f /\ x.func = r
                          /\ r < x.base /\ x.base <= x.top /\ p.L.top = x.top
      BY <1>1, <1>9, <2>1, <2>2 DEF Laid
    <2>4. p.L.status = "ok" /\ p.L.open = L.open
      BY <1>9, <2>1, <2>2 DEF Laid
    <2>5. L.ci \in Seq(CI) /\ n \in Nat \ {0} /\ old \in CI /\ old = L.ci[n]
      BY <1>2, Fields DEF LastCI
    <2>6. LastCI(p.L) = x /\ SubSeq(p.L.ci, 1, n) = L.ci
      <3>1. Len(p.L.ci) = n + 1 /\ p.L.ci[n + 1] = x
        BY <2>3, <2>5
      <3> QED
        BY <2>3, <2>5, <3>1 DEF LastCI
    <2> DEFINE base == old.func + (x.base - x.func)
               t == old.func + (x.top - x.func)
               y == [old EXCEPT !.base = base, !.top = t, !.fn = f]
               q == [L.ci EXCEPT ![n] = y]
               K == luaF_close(p.L, old.base)
               M == [K EXCEPT !.base = base, !.top = t, !.ci = q]
    <2>7. base \in Int /\ t \in Int /\ old.func < base /\ base <= t
      <3>1. x.func \in Int /\ x.base \in Int /\ x.top \in Int /\ old.func \in Int
        BY <2>5 DEF CI
      <3> QED
        BY <2>3, <3>1
    <2> HIDE DEF base, t
    <2>8. y.func = old.func /\ y.nres = old.nres /\ y.base = base /\ y.top = t /\ y.fn = f
      BY <2>5 DEF CI
    <2>9. K.ci = p.L.ci /\ K.status = "ok" /\ K.open = {l \in L.open : l < old.base}
          /\ ThreadOK(K, Lim)
      <3>1. Moved(p.L, K)
        BY <2>2, CloseMoves
      <3>2. K.open = {l \in L.open : l < old.base}
        BY <2>2, <2>4 DEF luaF_close, ThreadOK
      <3> HIDE DEF K
      <3> QED
        BY <2>2, <2>4, <3>1, <3>2, MovedKeeps DEF Moved
    <2> HIDE DEF K
    <2>10. st' = [st EXCEPT ![th] = M] /\ cs' = cs
      <3>1. K.ci = p.L.ci
        BY <2>9
      <3>2. [L.ci EXCEPT ![n].base = base, ![n].top = t, ![n].fn = f] = q
        BY <2>5
      <3>3. cs' = cs /\ st' = [st EXCEPT ![th] =
                                   [K EXCEPT !.base = base, !.top = t,
                                      !.ci = [SubSeq(@, 1, n) EXCEPT
                                                ![n].base = base, ![n].top = t,
                                                ![n].fn = f]]]
        BY <1>4, <1>9, <2>3, <2>6 DEF K, base, t
      <3> QED
        BY <2>6, <3>1, <3>2, <3>3
    <2> HIDE DEF y
    <2>11. Len(q) = n /\ q[n] = y /\ \A i \in 1 .. n - 1 : q[i] = L.ci[i]
      BY <2>5
    <2> HIDE DEF q
    <2>12. M.ci = q /\ M.base = base /\ M.top = t /\ M.open = K.open /\ M.status = "ok"
      BY <2>9 DEF ThreadOK
    <2> HIDE DEF M
    <2>13. ThreadOK(M, Lim)
      <3>1. st'[th] = M
        BY <1>2, <2>10 DEF Good
      <3> QED
        BY <1>2, <3>1 DEF Good
    <2>14. LastCI(M) = y
      BY <2>11, <2>12 DEF LastCI
    <2>15. Nested(M)
      <3>1. /\ Len(M.ci) = n /\ \A i \in 1 .. n - 1 : M.ci[i] = L.ci[i]
        BY <2>11, <2>12
      <3>2. M.open = {l \in L.open : l < LastCI(L).base}
        BY <2>9, <2>12
      <3>3. /\ LastCI(M).func = LastCI(L).func /\ LastCI(M).nres = LastCI(L).nres
            /\ LastCI(M).func < LastCI(M).base /\ LastCI(M).base <= LastCI(M).top
            /\ LastCI(M).base <= M.top /\ M.base = LastCI(M).base
        BY <2>7, <2>8, <2>12, <2>14
      <3> HIDE DEF L
      <3> QED
        BY <1>2, <1>3, <2>12, <2>13, <3>1, <3>2, <3>3, Replaced
    <2>16. \A i \in 1 .. n : M.ci[i].nres = L.ci[i].nres /\ M.ci[i].func = L.ci[i].func
      <3>1. \A i \in 1 .. n : i = n \/ i \in 1 .. n - 1
        BY <2>5
      <3> QED
        BY <2>5, <2>8, <2>11, <2>12, <3>1
    <2>17. ASSUME NEW j \in 1 .. Len(cs), cs[j].k = "pcall", cs[j].th = th
           PROVE  Clear(M, cs[j])
      <3>1. Clear(L, cs[j]) /\ cs[j].ci < n
        BY <1>2, <2>17 DEF Lies, Placed
      <3>2. cs[j].ci \in 1 .. n
        BY <2>17, PcallFrame
      <3>3. cs[j].ci \in 1 .. n - 1 /\ cs[j].ci # n
        BY <2>5, <3>1, <3>2
      <3>4. \A k \in cs[j].ci + 1 .. n : k \in 1 .. n
        BY <2>5, <3>2
      <3> QED
        BY <2>11, <2>12, <2>16, <3>1, <3>3, <3>4 DEF Clear
    <2>18. Fares(L, M, cs, Len(cs), th)
      BY <2>12, <2>15, <2>16, <2>17 DEF Fares, LiesIn
    <2> HIDE DEF L
    <2> QED
      BY <1>2, <2>10, <2>18, LiesSame DEF L
  <1> QED
    BY <1>8, <1>9

------------------------------------------------------------------------------
(* Coroutines that start or end, and what is left of a frame *)

\* A coroutine that has one frame has no variables.
LEMMA NoOpen ==
    ASSUME NEW lim, NEW L, ThreadOK(L, lim), Nested(L), Len(L.ci) = 1
    PROVE  L.open = {} /\ LastCI(L).base = 1
  BY DEF Nested, LastCI

\* A thread that is started or goes on was not on the C stack.
LEMMA Fresh ==
    ASSUME NEW S, NEW c, NEW g, NEW lim, Good(S, c, g, lim), NEW i \in 1 .. Len(c),
           c[i].k = "resume", NEW j \in 1 .. Len(c), j < i
    PROVE  c[j].th # c[i].th
  <1>1. i \in Nat /\ j \in 1 .. i /\ j # i /\ Starts(c[i])
    BY Shape1 DEF Starts
  <1> QED
    BY <1>1 DEF Good, Struct, Apart

\* A coroutine starts or goes on: entries for lua_resume and for what it does.
LEMMA LiesResumed ==
    ASSUME NEW h, NEW g, Good(st, cs, h, Lim), Lies(st, cs, h), cs # <<>>,
           Good(st', cs', g, Lim), NEW n, n = Len(cs), Len(cs') = n + 2,
           \A j \in 1 .. n : cs'[j] = cs[j], cs'[n + 1].k = "resume",
           cs'[n + 2].k \in {"raise", "throw", "exec"},
           NEW t \in Thread, cs'[n + 1].th = t, NEW M, st' = [st EXCEPT ![t] = M],
           Fares(st[t], M, cs, Len(cs), t)
    PROVE  Lies(st', cs', g)
  <1>1. n \in Nat \ {0}
    BY Shape1
  <1>3. \A j \in n + 1 .. n + 2 : Placed(st', cs', g, j)
    <2>1. \A j \in n + 1 .. n + 2 : j = n + 1 \/ j = n + 2
      BY <1>1
    <2>2. Plain(cs'[n + 1]) /\ Plain(cs'[n + 2])
      BY DEF Plain
    <2> QED
      BY <2>1, <2>2, PlainPlaced
  <1>4. In(cs', t) /\ \A u \in Thread : In(cs, u) => In(cs', u)
    <2>1. n + 1 \in 1 .. Len(cs') /\ \A j \in 1 .. n : j \in 1 .. Len(cs')
      BY <1>1
    <2> QED
      BY <2>1 DEF In
  <1>5. n \in 0 .. Len(cs) /\ n <= Len(cs')
    BY <1>1
  <1>6. n \in 1 .. Len(cs') - 1 /\ cs[n].k = "call" /\ cs'[n + 1].k \in {"c", "exec"} => FALSE
    OBVIOUS
  <1>7. \A j \in n + 1 .. Len(cs') : Placed(st', cs', g, j)
    BY <1>3
  <1>8. Fares(st[t], M, cs, n, t)
    OBVIOUS
  <1> QED
    BY <1>4, <1>5, <1>6, <1>7, <1>8, LiesOne

\* lua_resume of a new coroutine.
LEMMA StartLies ==
    ASSUME NEW h, NEW g, Good(st, cs, h, Lim), Lies(st, cs, h), cs # <<>>,
           Good(st', cs', g, Lim), NEW th, NEW co \in Thread, NEW f \in Fn, NEW n \in Nat,
           Startable(co), CoResume(th, co, f, n)
    PROVE  Lies(st', cs', g)
  <1> DEFINE L == st[co]
             C == Receive(L, n)
             func == C.top - n - 1
             p == luaD_precall(C, func, LUA_MULTRET, f)
             y == [k |-> "resume", th |-> co, by |-> th]
             x == IF p.err # "no" THEN Failed(co, p.err) ELSE [k |-> "exec", th |-> co, n |-> 1]
             m == Len(cs)
  <1>1. L.status = "ok" /\ Len(L.ci) = 1 /\ L.top > 1
    BY DEF Startable
  <1>2. ~Shape[f].isC /\ Enter(co, p, Append(cs, y), f, FALSE)
    BY DEF CoResume
  <1>3. st' = [st EXCEPT ![co] = p.L] /\ cs' = Append(Append(cs, y), x)
    BY <1>2 DEF Enter, Become
  <1>4. ThreadOK(L, Lim) /\ Nested(L)
    BY <1>1 DEF Good, Lies, LiesIn
  <1>5. ThreadOK(C, Lim) /\ Rises(L, C)
    BY <1>1, <1>4, ReceiveKeeps, ReceiveRises
  <1>6. C.top = L.top + n
    <2> DEFINE K == lua_checkstack(L, n)
    <2>1. K.top = L.top
      <3>1. Moved(L, checkstack(L, n)) /\ checkstack(L, n).top = L.top
        BY <1>4, CheckStackMoves
      <3> QED
        BY <3>1 DEF lua_checkstack, Moved
    <2>2. ThreadOK(K, Lim) /\ C = [K EXCEPT !.top = @ + n]
      <3>1. C = [K EXCEPT !.top = @ + n]
        BY DEF Receive
      <3>2. ThreadOK(K, Lim)
        <4> HIDE DEF L, C
        <4> QED
          BY <1>1, <1>4, ReceiveKeeps
      <3> QED
        BY <3>1, <3>2
    <2> HIDE DEF K, C, L
    <2> QED
      BY <2>1, <2>2 DEF ThreadOK
  <1>7. func \in Int /\ func = L.top - 1 /\ func < C.top /\ 1 <= func /\ L.top \in Int
    BY <1>1, <1>4, <1>6, Fields
  <1>8. Len(C.ci) = 1 /\ C.status = "ok" /\ C.open = L.open
    BY <1>1, <1>5 DEF Rises
  <1>9. Nested(C)
    BY <1>1, <1>4, <1>5, Risen
  <1> HIDE DEF C, func
  <1>10. Beneath(C, func)
    BY <1>5, <1>7, <1>8, <1>9, NoOpen DEF Beneath
  <1>11. m \in Nat \ {0} /\ cs \in Seq(Act)
    BY Shape1
  <1>12. \A j \in 1 .. m : cs[j].th # co
    <2>1. /\ Len(cs') = m + 2 /\ cs'[m + 1] = y /\ \A j \in 1 .. m : cs'[j] = cs[j]
      BY <1>3, <1>11
    <2>2. m + 1 \in 1 .. Len(cs') /\ \A j \in 1 .. m : j \in 1 .. Len(cs') /\ j < m + 1
      BY <1>11, <2>1
    <2> QED
      BY <2>1, <2>2, Fresh
  <1>13. Fares(L, C, cs, m, co)
    BY <1>1, <1>5, <1>11, RisesFares
  <1>14. Ready(st, cs, m, co, C, func)
    BY <1>1, <1>8, <1>10, <1>12, <1>13 DEF Ready
  <1>15. PICK nres : nres = LUA_MULTRET
    OBVIOUS
  <1>16. nres \in Int /\ nres >= -1 /\ C.status # "none"
    BY <1>8, <1>15 DEF LUA_MULTRET
  <1>17. PICK r : r = p
    OBVIOUS
  <1>18. Laid(C, r, func, nres, f) /\ ThreadOK(r.L, Lim)
    <2>1. r = luaD_precall(C, func, nres, f)
      BY <1>15, <1>17
    <2> QED
      BY <1>5, <1>7, <1>16, <2>1, Precall, PrecallLays DEF Entering
  <1>19. Fares(L, r.L, cs, m, co)
    <2>1. m \in 0 .. Len(cs)
      BY <1>11
    <2> QED
      BY <1>5, <1>7, <1>14, <1>16, <1>18, <2>1, CalledFares
  <1>20. x.k \in {"raise", "throw", "exec"} /\ y.k = "resume" /\ y.th = co
    BY DEF Failed, Raise, Throw
  <1>21. st' = [st EXCEPT ![co] = r.L]
    BY <1>3, <1>17
  <1>22. cs' = Append(Append(cs, y), x) /\ Fares(st[co], r.L, cs, Len(cs), co)
    BY <1>3, <1>19
  <1> HIDE DEF x, y, p, L, m
  <1>23. PICK k : k = Len(cs)
    OBVIOUS
  <1>24. /\ k = Len(cs) /\ Len(cs') = k + 2 /\ cs'[k + 1] = y /\ cs'[k + 2] = x
         /\ \A j \in 1 .. k : cs'[j] = cs[j]
    BY <1>11, <1>22, <1>23
  <1>25. /\ cs'[k + 1].k = "resume" /\ cs'[k + 1].th = co
         /\ cs'[k + 2].k \in {"raise", "throw", "exec"}
    BY <1>20, <1>24
  <1> QED
    BY <1>21, <1>22, <1>24, <1>25, LiesResumed

\* No variable belongs to a C function.
LEMMA OpenUnderC ==
    ASSUME NEW lim, NEW L, ThreadOK(L, lim), L.status # "none", Nested(L),
           LastCI(L) \notin LuaFrame
    PROVE  \A l \in L.open : l < LastCI(L).func
  <1> DEFINE n == Len(L.ci)
  <1> SUFFICES ASSUME NEW l \in L.open PROVE l < LastCI(L).func
    OBVIOUS
  <1>1. n \in Nat /\ n \in 1 .. n
    BY Fields
  <1>2. PICK i \in 2 .. n : Owns(L, i, l)
    BY DEF Nested
  <1>3. i # n
    BY <1>2 DEF Owns, LastCI
  <1>4. n \in i + 1 .. n
    BY <1>1, <1>3
  <1> QED
    BY <1>2, <1>4 DEF Owns, LastCI

\* M is L without its last frame, and without the variables that were in it.
Popped(L, M) ==
    /\ Len(M.ci) = Len(L.ci) - 1 /\ M.status = "ok" /\ M.open \subseteq L.open
    /\ \A i \in 1 .. Len(M.ci) : SamePlace(L.ci[i], M.ci[i]) /\ L.ci[i].top <= M.ci[i].top
    /\ M.base = L.ci[Len(M.ci)].base
    /\ \A l \in M.open : l < LastCI(L).base

\* The top is where the function was, or at the top of the frame.
LEMMA PopFares ==
    ASSUME NEW S, NEW c, NEW h, NEW lim, Good(S, c, h, lim), Lies(S, c, h), NEW t \in Thread,
           S[t].status # "none", Len(S[t].ci) >= 2, NEW M, ThreadOK(M, lim), Popped(S[t], M),
           NEW m \in 0 .. Len(c),
           \A j \in 1 .. m : c[j].k = "pcall" /\ c[j].th = t => c[j].ci < Len(S[t].ci),
           \/ LastCI(S[t]).func <= M.top
           \/ /\ S[t].ci[Len(M.ci)].top <= M.top
              /\ \A j \in 1 .. m : c[j].k = "pcall" /\ c[j].th = t => c[j].ci # Len(M.ci)
    PROVE  Fares(S[t], M, c, m, t)
  <1> DEFINE L == S[t]
             n == Len(L.ci)
             k == Len(M.ci)
  <1>1. ThreadOK(L, lim) /\ Nested(L)
    BY DEF Good, Lies, LiesIn
  <1>2. /\ n \in Nat /\ k \in Nat /\ k + 1 = n /\ k \in 1 .. n /\ k \in 1 .. k /\ k # n
        /\ n \in 1 .. n /\ M.top \in Int
        /\ \A i \in 1 .. n : L.ci[i].func \in Int /\ L.ci[i].base \in Int /\ L.ci[i].top \in Int
    <2>1. /\ n \in Nat /\ n >= 2 /\ k = n - 1 /\ M.top \in Int
          /\ \A i \in 1 .. n : L.ci[i].func \in Int /\ L.ci[i].base \in Int
                               /\ L.ci[i].top \in Int
      BY <1>1, Fields DEF Popped
    <2> HIDE DEF n, k
    <2> QED
      BY <2>1
  <1>3. LastCI(L) = L.ci[n] /\ LastCI(L).func < LastCI(L).base
    BY <1>1, <1>2 DEF LastCI, Nested
  <1>4. L.ci[k].base <= LastCI(L).func /\ L.ci[k].base <= L.ci[k].top
    <2>1. n \in k + 1 .. n
      BY <1>2
    <2> QED
      BY <1>1, <1>2, <1>3, <2>1 DEF Nested
  <1>11. /\ LastCI(L).func \in Int /\ L.ci[k].base \in Int /\ L.ci[k].top \in Int
         /\ M.base = L.ci[k].base
         /\ LastCI(L).func <= M.top \/ L.ci[k].top <= M.top
    BY <1>2, <1>3 DEF Popped
  <1>5. M.base <= M.top
    <2> HIDE DEF L, k
    <2> QED
      BY ONLY <1>2, <1>4, <1>11
  <1>6. ASSUME NEW l \in M.open, l < L.ci[k + 1].func, Owns(L, k, l)
        PROVE  l < M.top
    <2>1. l \in Int
      BY <1>1 DEF Nested, Popped
    <2>2. l < LastCI(L).func /\ l < L.ci[k].top
      BY <1>2, <1>3, <1>6 DEF Owns
    <2> HIDE DEF L, k
    <2> QED
      BY ONLY <1>2, <1>11, <2>1, <2>2
  <1>7. Nested(M)
    <2>1. \A l \in M.open : l < L.ci[k + 1].base
      BY <1>2, <1>3 DEF Popped
    <2>2. /\ Len(M.ci) = k /\ M.base = L.ci[k].base /\ M.open \subseteq L.open
          /\ \A i \in 1 .. k : SamePlace(L.ci[i], M.ci[i]) /\ L.ci[i].top <= M.ci[i].top
      BY DEF Popped
    <2>3. k \in 1 .. Len(L.ci) /\ k # Len(L.ci)
      BY <1>2
    <2>4. \A l \in M.open : k # 1 /\ l < L.ci[k + 1].func /\ Owns(L, k, l)
                               => M.status \in Dead \/ l < M.top
      BY <1>6
    <2> HIDE DEF L, k
    <2> QED
      BY <1>1, <1>5, <2>1, <2>2, <2>3, <2>4, Cut
  <1>8. \A i \in 1 .. k : M.ci[i].nres = L.ci[i].nres /\ M.ci[i].func = L.ci[i].func
                          /\ M.ci[i].base = L.ci[i].base
    BY DEF Popped, SamePlace
  <1>9. ASSUME NEW j \in 1 .. m, c[j].k = "pcall", c[j].th = t
        PROVE  Clear(M, c[j])
    <2>1. j \in 1 .. Len(c)
      BY Shape1
    <2>2. c[j].ci \in 1 .. n /\ c[j].top \in Int /\ Clear(L, c[j]) /\ c[j].ci < n
      BY <1>9, <2>1, PcallFrame DEF Lies, Placed
    <2>3. c[j].ci \in 1 .. k /\ \A i \in c[j].ci + 1 .. k : i \in 1 .. k /\ i \in c[j].ci + 1 .. n
      <3>1. n \in Nat /\ k \in Nat /\ k + 1 = n
        BY <1>2
      <3>2. c[j].ci \in 1 .. n /\ c[j].ci < n
        BY <2>2
      <3> HIDE DEF n, k
      <3> QED
        BY ONLY <3>1, <3>2
    <2>4. c[j].ci = k => c[j].top <= LastCI(L).func
      <3>1. c[j].ci = k => n \in c[j].ci + 1 .. n
        BY <1>2
      <3> QED
        BY <1>3, <2>2, <3>1 DEF Clear
    <2>5. c[j].ci = k => c[j].top <= M.top
      <3>1. LastCI(L).func <= M.top \/ c[j].ci # k
        BY <1>9
      <3> HIDE DEF L, k
      <3> QED
        BY <1>2, <1>11, <2>2, <2>4, <3>1
    <2> QED
      BY <1>8, <2>2, <2>3, <2>5 DEF Clear
  <1>10. LiesIn(M)
    BY <1>7 DEF LiesIn, Popped
  <1> QED
    BY <1>8, <1>9, <1>10 DEF Fares

\* luaD_poscall: the results begin where the function was.
LEMMA PoscallPops ==
    ASSUME NEW L, NEW lim, ThreadOK(L, lim), Len(L.ci) >= 2, L.status = "ok",
           LastCI(L).nres >= -1, \A l \in L.open : l < LastCI(L).base,
           NEW first \in Int, first <= L.top, NEW P, P = luaD_poscall(L, first)
    PROVE  /\ Popped(L, P) /\ ThreadOK(P, lim) /\ P.ncc = L.ncc /\ P.open = L.open
           /\ LastCI(L).func <= P.top
           /\ LastCI(L).nres # -1 => P.top = LastCI(L).func + LastCI(L).nres
           /\ P.ci = SubSeq(L.ci, 1, Len(L.ci) - 1)
           /\ \A i \in 1 .. Len(P.ci) : P.ci[i] = L.ci[i]
  <1> DEFINE n == Len(L.ci)
             k == n - 1
             ci == SubSeq(L.ci, 1, k)
             f == LastCI(L)
             w == IF f.nres = LUA_MULTRET THEN L.top - first ELSE f.nres
             base == ci[Len(ci)].base
             top == f.func + w
  <1>1. /\ ThreadOK(P, lim) /\ P.status = L.status /\ P.ncc = L.ncc
        /\ P.ci = ci /\ Len(P.ci) = k /\ \A i \in 1 .. Len(P.ci) : P.ci[i] = L.ci[i]
    BY Poscall
  <1>2. /\ n \in Nat /\ n >= 2 /\ L.top \in Int
        /\ \A i \in 1 .. n : L.ci[i].top \in Int /\ L.ci[i].base \in Int
    BY Fields
  <1>3. k \in 1 .. k /\ \A i \in 1 .. k : i \in 1 .. n
    BY <1>2
  <1>4. f.func \in Int /\ f.nres \in Int
    <2>1. n \in 1 .. n
      BY <1>2
    <2> QED
      BY <2>1, Fields DEF LastCI
  <1>5. w \in Int /\ 0 <= w /\ (f.nres # -1 => w = f.nres)
    <2>1. f.nres # -1 => f.nres >= 0
      BY <1>4
    <2>2. L.top - first \in Int /\ 0 <= L.top - first
      BY <1>2
    <2> HIDE DEF f
    <2> QED
      BY <1>4, <2>1, <2>2 DEF LUA_MULTRET
  <1> HIDE DEF w
  <1>6. P = [L EXCEPT !.ci = ci, !.base = base, !.top = top]
    BY DEF luaD_poscall, w
  <1>7. P.open = L.open /\ P.base = base /\ P.top = top
    <2> HIDE DEF ci, base, top
    <2> QED
      BY <1>6 DEF ThreadOK
  <1>8. base = L.ci[Len(P.ci)].base
    BY <1>1, <1>3
  <1>9. f.func <= top
    BY <1>4, <1>5
  <1>10. \A i \in 1 .. Len(P.ci) : SamePlace(L.ci[i], P.ci[i]) /\ L.ci[i].top <= P.ci[i].top
    BY <1>1, <1>2, <1>3 DEF SamePlace
  <1> QED
    BY <1>1, <1>5, <1>7, <1>8, <1>9, <1>10 DEF Popped

------------------------------------------------------------------------------
(* Coroutines that go on *)

\* A coroutine that yielded goes on in Lua, and what its last function gives lies where that
\* function was.
LEMMA ResumedNested ==
    ASSUME NEW C, NEW lim, ThreadOK(C, lim), IdleOK(C), C.status = "yield", Nested(C),
           NEW n \in Nat, NEW M, M = Resumed(C, n), ThreadOK(M, lim)
    PROVE  Nested(M)
  <1> DEFINE y == LastCI(C)
             P == luaD_poscall(C, C.top - n)
             k == Len(C.ci) - 1
             w == IF y.nres = LUA_MULTRET THEN n ELSE y.nres
             v == IF y.nres # LUA_MULTRET THEN LastCI(P).top ELSE P.top
  <1>1. /\ k \in Nat \ {0} /\ Len(C.ci) = k + 1 /\ k \in 1 .. k /\ k \in 1 .. Len(C.ci)
        /\ k + 1 \in 1 .. Len(C.ci)
    <2>1. Len(C.ci) \in Nat /\ Len(C.ci) >= 2
      BY Fields DEF IdleOK
    <2>2. PICK z : z = Len(C.ci)
      OBVIOUS
    <2>3. z \in Nat /\ z >= 2 /\ k = z - 1
      BY <2>1, <2>2
    <2> HIDE DEF k
    <2>4. PICK j : j = k
      OBVIOUS
    <2>5. j \in Nat \ {0} /\ z = j + 1
      BY <2>3, <2>4
    <2>6. j \in 1 .. j /\ j \in 1 .. z /\ j + 1 \in 1 .. z
      BY <2>5
    <2> QED
      BY <2>2, <2>4, <2>5, <2>6
  <1>2. /\ C.top \in Int /\ y = C.ci[k + 1] /\ y \in CI
        /\ \A i \in 1 .. Len(C.ci) : /\ C.ci[i].func \in Int /\ C.ci[i].base \in Int
                                     /\ C.ci[i].top \in Int /\ C.ci[i].nres \in Int
    BY <1>1, Fields DEF LastCI
  <1>3. /\ C.ci[k].base <= C.ci[k].top /\ C.ci[k].base <= y.func /\ y.func < y.base
        /\ y.base <= y.top /\ y.nres >= -1 /\ y.base <= C.top
    <2>1. k + 1 \in k + 1 .. Len(C.ci)
      BY <1>1
    <2> QED
      BY <1>1, <1>2, <2>1 DEF Nested
  <1>4. CASE Shape[y.fn].isC
    <2>1. M = [P EXCEPT !.status = "ok", !.top = v]
      <3>1. M = [P EXCEPT !.status = "ok",
                          !.top = IF y.nres # LUA_MULTRET THEN LastCI(P).top ELSE @]
        BY <1>4 DEF Resumed
      <3> QED
        BY <3>1
    <2>2. /\ ThreadOK(P, lim) /\ P.ci = SubSeq(C.ci, 1, k) /\ Len(P.ci) = k
          /\ \A i \in 1 .. k : P.ci[i] = C.ci[i]
      <3>1. C.top - n \in Int /\ Len(C.ci) >= 2
        BY <1>1, <1>2
      <3> QED
        BY <1>1, <3>1, Poscall
    <2>3. /\ P.base = C.ci[k].base /\ P.open = C.open
          /\ y.nres = LUA_MULTRET => P.top = y.func + n
      <3> DEFINE ci == SubSeq(C.ci, 1, k)
                 b == ci[Len(ci)].base
                 u == IF y.nres = LUA_MULTRET THEN C.top - (C.top - n) ELSE y.nres
                 top == y.func + u
      <3>1. P = [C EXCEPT !.ci = ci, !.base = b, !.top = top]
        BY <1>1 DEF luaD_poscall
      <3>2. b = C.ci[k].base
        BY <1>1, <2>2
      <3>3. y.nres = LUA_MULTRET => top = y.func + n
        BY <1>2
      <3> HIDE DEF ci, b, top, P
      <3>4. P.base = b /\ P.open = C.open /\ P.top = top
        BY <3>1 DEF ThreadOK
      <3> QED
        BY <3>2, <3>3, <3>4
    <2>4. LastCI(P).top = C.ci[k].top
      BY <1>1, <2>2 DEF LastCI
    <2> HIDE DEF P
    <2>5. /\ M.ci = P.ci /\ M.base = C.ci[k].base /\ M.open = C.open /\ M.top = v
      <3> HIDE DEF v
      <3> QED
        BY <2>1, <2>2, <2>3 DEF ThreadOK
    <2>6. v = C.ci[k].top \/ v = y.func + n
      BY <2>3, <2>4
    <2>7. /\ v \in Int /\ M.base <= v
      <3>1. y.func \in Int
        BY <1>2 DEF CI
      <3>2. C.ci[k].base \in Int /\ C.ci[k].top \in Int
        BY <1>1, <1>2
      <3> HIDE DEF v, y, k
      <3> QED
        BY <1>3, <2>5, <2>6, <3>1, <3>2
    <2>8. \A i \in 1 .. k : SamePlace(C.ci[i], M.ci[i]) /\ C.ci[i].top <= M.ci[i].top
      <3>1. \A i \in 1 .. k : i \in 1 .. Len(C.ci)
        BY <1>1
      <3>2. \A i \in 1 .. k : M.ci[i] = C.ci[i] /\ C.ci[i].top \in Int
        BY <1>2, <2>2, <2>5, <3>1
      <3> QED
        BY ONLY <3>2 DEF SamePlace
    <2>9. y \notin LuaFrame
      BY <1>4 DEF LuaFrame
    <2>10. \A l \in C.open : l < y.func /\ l \in Int
      BY <2>9, OpenUnderC DEF Nested
    <2>11. \A l \in M.open : l < C.ci[k + 1].base
      <3>1. y.func \in Int /\ y.base \in Int
        BY <1>2 DEF CI
      <3> HIDE DEF y
      <3> QED
        BY <1>2, <1>3, <2>5, <2>10, <3>1
    <2>12. \A l \in M.open : Owns(C, k, l) => l < M.top
      <3> SUFFICES ASSUME NEW l \in M.open, Owns(C, k, l) PROVE l < M.top
        OBVIOUS
      <3>1. l < C.ci[k].top /\ l < y.func /\ l \in Int
        BY <2>5, <2>10 DEF Owns
      <3>2. M.top = C.ci[k].top \/ M.top = y.func + n
        BY <2>5, <2>6
      <3>3. y.func \in Int
        BY <1>2 DEF CI
      <3> QED
        BY <3>1, <3>2, <3>3
    <2>13. k # Len(C.ci) /\ Len(M.ci) = k
      BY <1>1, <2>2, <2>5
    <2> QED
      BY <1>1, <2>5, <2>7, <2>8, <2>11, <2>12, <2>13, Cut
  <1>5. CASE ~Shape[y.fn].isC
    <2>1. M = [C EXCEPT !.status = "ok", !.base = y.base]
      BY <1>5 DEF Resumed
    <2>2. /\ M.ci = C.ci /\ M.base = y.base /\ M.open = C.open /\ M.top = C.top
          /\ M.status = "ok"
      <3> HIDE DEF y
      <3> QED
        BY <2>1 DEF ThreadOK
    <2>3. \A i \in 1 .. Len(C.ci) : SamePlace(C.ci[i], M.ci[i]) /\ C.ci[i].top <= M.ci[i].top
      BY <1>2, <2>2 DEF SamePlace
    <2>4. /\ LastCI(C).base <= LastCI(M).top /\ LastCI(C).base <= M.top
      BY <1>3, <2>2 DEF LastCI
    <2>5. C.status \notin Dead /\ C.status # "none"
      BY DEF Dead
    <2>6. \A l \in M.open : Owns(C, Len(C.ci), l) => l < LastCI(M).top /\ l < M.top
      BY <2>2, <2>5 DEF Owns, LastCI
    <2> QED
      BY <2>2, <2>3, <2>4, <2>5, <2>6, Adjusted
  <1> QED
    BY <1>4, <1>5

\* lua_resume of a coroutine that yielded.
LEMMA ResumedLies ==
    ASSUME NEW h, NEW g, Good(st, cs, h, Lim), Lies(st, cs, h), cs # <<>>,
           Good(st', cs', g, Lim), NEW th, NEW co \in Thread, NEW f \in Fn, NEW n \in Nat,
           ~Startable(co), CoResume(th, co, f, n)
    PROVE  Lies(st', cs', g)
  <1> DEFINE L == st[co]
             C == Receive(L, n)
             M == Resumed(C, n)
             y == [k |-> "resume", th |-> co, by |-> th]
             x == [k |-> "exec", th |-> co, n |-> Len(M.ci) - 1]
             m == Len(cs)
  <1>1. /\ L.status = "yield" /\ st' = [st EXCEPT ![co] = M]
        /\ cs' = Append(Append(cs, y), x)
    BY DEF CoResume, Become
  <1>2. m \in Nat \ {0} /\ cs \in Seq(Act)
    BY Shape1
  <1>3. /\ Len(cs') = m + 2 /\ cs'[m + 1] = y /\ cs'[m + 2] = x
        /\ \A j \in 1 .. m : cs'[j] = cs[j]
    BY <1>1, <1>2
  <1>4. \A j \in 1 .. m : cs[j].th # co
    <2>1. m + 1 \in 1 .. Len(cs') /\ \A j \in 1 .. m : j \in 1 .. Len(cs') /\ j < m + 1
      BY <1>2, <1>3
    <2> QED
      BY <1>3, <2>1, Fresh
  <1>5. ~In(cs, co)
    BY <1>4 DEF In
  <1>6. ThreadOK(L, Lim) /\ Nested(L) /\ IdleOK(L)
    BY <1>1, <1>5 DEF Good, Lies, LiesIn
  <1> HIDE DEF L
  <1>7. ThreadOK(C, Lim) /\ Rises(L, C) /\ Keeps(L, C)
    BY <1>1, <1>6, ReceiveKeeps, ReceiveRises
  <1>8. C.status = "yield" /\ IdleOK(C) /\ Nested(C)
    BY <1>1, <1>6, <1>7, IdleKeeps, Risen DEF Keeps
  <1> HIDE DEF C
  <1>9. ThreadOK(M, Lim) /\ M.status = "ok"
    BY <1>7, <1>8, ResumedIs
  <1>10. LiesIn(M)
    BY <1>7, <1>8, <1>9, ResumedNested DEF LiesIn
  <1>11. Fares(st[co], M, cs, Len(cs), co)
    BY <1>4, <1>5, <1>10 DEF Fares
  <1> HIDE DEF M
  <1>12. PICK k : k = Len(cs)
    OBVIOUS
  <1>13. /\ k = Len(cs) /\ Len(cs') = k + 2 /\ \A j \in 1 .. k : cs'[j] = cs[j]
         /\ cs'[k + 1].k = "resume" /\ cs'[k + 1].th = co
         /\ cs'[k + 2].k \in {"raise", "throw", "exec"}
    BY <1>3, <1>12
  <1> HIDE DEF x, y, m
  <1> QED
    BY <1>1, <1>11, <1>13, LiesResumed

------------------------------------------------------------------------------
(* Returns *)

\* The thread that runs goes back to the first m entries, or raises an error there.
LEMMA LiesBack ==
    ASSUME NEW h, NEW g, Good(st, cs, h, Lim), Lies(st, cs, h), cs # <<>>,
           Good(st', cs', g, Lim), NEW m \in 0 .. Len(cs), m <= Len(cs'),
           \A j \in 1 .. m : cs'[j] = cs[j],
           \A j \in m + 1 .. Len(cs') : Plain(cs'[j]) /\ cs'[j].k \notin {"c", "exec"},
           NEW t \in Thread, \A j \in m + 1 .. Len(cs) : cs[j].th = t,
           NEW M, st' = [st EXCEPT ![t] = M], Fares(st[t], M, cs, m, t),
           M.status = "ok" => In(cs', t)
    PROVE  Lies(st', cs', g)
  <1>1. Len(cs) \in Nat /\ Len(cs') \in Nat /\ m \in Nat
    BY Shape1
  <1>2. \A j \in m + 1 .. Len(cs') : Placed(st', cs', g, j)
    BY PlainPlaced
  <1>3. m \in 1 .. Len(cs') - 1 => m + 1 \in m + 1 .. Len(cs')
    BY <1>1
  <1>4. m \in 1 .. Len(cs') - 1 => cs'[m + 1].k \notin {"c", "exec"}
    BY <1>3
  <1>5. \A u \in Thread : u # t /\ In(cs, u) => In(cs', u)
    <2> SUFFICES ASSUME NEW u \in Thread, u # t, In(cs, u) PROVE In(cs', u)
      OBVIOUS
    <2>1. PICK j \in 1 .. Len(cs) : cs[j].th = u
      BY DEF In
    <2>2. j \in 1 .. m
      BY <1>1, <2>1
    <2>3. j \in 1 .. Len(cs') /\ cs'[j].th = u
      BY <1>1, <2>1, <2>2
    <2> QED
      BY <2>3 DEF In
  <1> QED
    BY <1>2, <1>4, <1>5, LiesOne

\* A thread leaves the C stack, and the one that had resumed it goes on.
LEMMA LiesLeave ==
    ASSUME NEW h, NEW g, Good(st, cs, h, Lim), Lies(st, cs, h), cs # <<>>,
           Good(st', cs', g, Lim), NEW i \in 1 .. Len(cs), cs[i].k = "resume",
           NEW t, t = cs[i].th, t = cs[Len(cs)].th, NEW m, m = i - 1,
           Len(cs') = m, \A j \in 1 .. m : cs'[j] = cs[j], NEW by \in Thread, by # t, NEW M, NEW N,
           st' = [st EXCEPT ![t] = M, ![by] = N], LiesIn(M), M.status = "ok" => Len(M.ci) = 1,
           \A k \in 1 .. Len(st[t].ci) : k <= Len(M.ci) => M.ci[k].nres = st[t].ci[k].nres,
           Rises(st[by], N), st[by].status # "none"
    PROVE  Lies(st', cs', g)
  <1>1. Len(cs) \in Nat /\ cs \in Seq(Act) /\ t \in Thread
    BY Shape1
  <1>2. i \in Nat /\ m \in Nat /\ m + 1 = i /\ m \in 0 .. Len(cs)
    BY <1>1
  <1>3. Len(cs') = m /\ \A j \in 1 .. m : cs'[j] = cs[j]
    OBVIOUS
  <1>4. \A j \in i .. Len(cs) : cs[j].th = t
    <2>1. Good(st, cs, h, Lim) /\ i \in 1 .. Len(cs) /\ cs[i].th = cs[Len(cs)].th /\ t = cs[i].th
      OBVIOUS
    <2> QED
      BY ONLY <2>1, Contiguous
  <1>5. \A j \in 1 .. m : cs[j].th # t
    <2>1. \A j \in 1 .. m : j \in 1 .. Len(cs) /\ j < i
      BY <1>1, <1>2
    <2> QED
      BY <2>1, Fresh, ZenonT(60)
  <1>6. /\ st'[t] = M /\ st'[by] = N /\ \A u \in Thread : u # t /\ u # by => st'[u] = st[u]
        /\ \A u \in Thread : ThreadOK(st'[u], Lim)
    <2>1. st = [u \in Thread |-> st[u]] /\ \A u \in Thread : ThreadOK(st'[u], Lim)
      BY DEF Good
    <2> QED
      BY <1>1, <2>1
  <1>7. Fares(st[t], M, cs, m, t)
    BY <1>5 DEF Fares
  <1>8. Fares(st[by], N, cs, m, by)
    BY <1>2, <1>6, RisesFares
  <1>9. \A u \in Thread : Fares(st[u], st'[u], cs, m, u)
    <2> SUFFICES ASSUME NEW u \in Thread PROVE Fares(st[u], st'[u], cs, m, u)
      OBVIOUS
    <2>1. CASE u = t
      BY <1>6, <1>7, <2>1
    <2>2. CASE u = by
      BY <1>6, <1>8, <2>2
    <2>3. CASE u # t /\ u # by
      BY <1>2, <1>6, <2>3, StaysFares
    <2> QED
      BY <2>1, <2>2, <2>3
  <1>10. Waits(st', cs')
    <2> SUFFICES ASSUME NEW u \in Thread, st'[u].status = "ok", ~In(cs', u)
                 PROVE  Len(st'[u].ci) = 1
      BY DEF Waits
    <2>1. CASE u = t
      BY <1>6, <2>1
    <2>2. CASE u # t
      <3>1. ~In(cs, u)
        <4> SUFFICES ASSUME In(cs, u) PROVE FALSE
          OBVIOUS
        <4>1. PICK j \in 1 .. Len(cs) : cs[j].th = u
          BY DEF In
        <4>2. j \in 1 .. m
          BY <1>1, <1>2, <1>4, <2>2, <4>1
        <4>3. j \in 1 .. Len(cs') /\ cs'[j].th = u
          BY <1>3, <4>1, <4>2
        <4> QED
          BY <4>3 DEF In
      <3>2. st'[u].status = st[u].status /\ Len(st'[u].ci) = Len(st[u].ci)
        BY <1>6, <2>2 DEF Rises
      <3> QED
        BY <3>1, <3>2 DEF Lies, Waits
    <2> QED
      BY <2>1, <2>2
  <1>11. /\ m <= Len(cs') /\ ~(m \in 1 .. Len(cs') - 1)
         /\ \A j \in m + 1 .. Len(cs') : Placed(st', cs', g, j)
    BY <1>2, <1>3
  <1>12. m \in 1 .. Len(cs') - 1 /\ cs[m].k = "call" /\ cs'[m + 1].k \in {"c", "exec"}
            => m < Len(cs) /\ cs[m + 1].k \in {"c", "exec"}
    BY <1>11
  <1>13. Good(st, cs, h, Lim) /\ Lies(st, cs, h) /\ Good(st', cs', g, Lim)
    OBVIOUS
  <1> QED
    BY ONLY <1>2, <1>3, <1>9, <1>10, <1>11, <1>12, <1>13, LiesAll

\* The end of lua_call and lua_pcall lets the top of a frame rise.
LEMMA AdjustRises ==
    ASSUME NEW L, NEW lim, ThreadOK(L, lim), L.status # "none", NEW nres
    PROVE  Rises(L, adjustresults(L, nres)) /\ ThreadOK(adjustresults(L, nres), lim)
  <1>1. LastCI(L).top = L.ci[Len(L.ci)].top /\ L.top \in Int /\ L.ci[Len(L.ci)].top \in Int
    BY Fields DEF LastCI
  <1>2. CASE nres = LUA_MULTRET /\ L.top >= L.ci[Len(L.ci)].top
    <2>1. adjustresults(L, nres) = [L EXCEPT !.ci[Len(L.ci)].top = L.top]
      BY <1>2 DEF adjustresults
    <2>2. LastCI(L).top <= L.top
      BY <1>1, <1>2
    <2>3. Rises(L, [L EXCEPT !.ci[Len(L.ci)].top = L.top])
      BY <1>1, <2>2, FrameRises
    <2> QED
      BY <2>1, <2>3, AdjustKeeps
  <1>3. CASE ~(nres = LUA_MULTRET /\ L.top >= L.ci[Len(L.ci)].top)
    BY <1>3, RisesSelf DEF adjustresults
  <1> QED
    BY <1>2, <1>3

\* A return, and a rise after it.
LEMMA PoppedRises ==
    ASSUME NEW lim, NEW L, NEW P, NEW M, ThreadOK(L, lim), ThreadOK(P, lim), ThreadOK(M, lim),
           Popped(L, P), Rises(P, M)
    PROVE  Popped(L, M) /\ P.top <= M.top
  <1>1. /\ Len(M.ci) = Len(P.ci) /\ Len(P.ci) \in Nat /\ Len(P.ci) = Len(L.ci) - 1
        /\ M.open = P.open /\ M.base = P.base /\ M.status = P.status
    BY Fields DEF Popped, Rises
  <1>2. \A i \in 1 .. Len(M.ci) : SamePlace(L.ci[i], M.ci[i]) /\ L.ci[i].top <= M.ci[i].top
    <2> SUFFICES ASSUME NEW i \in 1 .. Len(M.ci)
                 PROVE  SamePlace(L.ci[i], M.ci[i]) /\ L.ci[i].top <= M.ci[i].top
      OBVIOUS
    <2>1. i \in 1 .. Len(P.ci) /\ i \in 1 .. Len(L.ci)
      <3>1. Len(L.ci) \in Nat
        BY Fields
      <3> QED
        BY <1>1, <3>1
    <2>2. L.ci[i].top \in Int /\ P.ci[i].top \in Int /\ M.ci[i].top \in Int
      BY <1>1, <2>1, Fields
    <2>3. SamePlace(L.ci[i], P.ci[i]) /\ L.ci[i].top <= P.ci[i].top
      BY <2>1 DEF Popped
    <2>4. SamePlace(P.ci[i], M.ci[i]) /\ P.ci[i].top <= M.ci[i].top
      BY <2>1 DEF Rises
    <2> QED
      BY <2>2, <2>3, <2>4 DEF SamePlace
  <1>3. Len(M.ci) = Len(L.ci) - 1 /\ M.base = L.ci[Len(M.ci)].base
    BY <1>1 DEF Popped
  <1> QED
    BY <1>1, <1>2, <1>3 DEF Popped, Rises

\* The function that runs returns, and with it entries of its thread.
LEMMA LiesPopped ==
    ASSUME NEW h, NEW g, Good(st, cs, h, Lim), Lies(st, cs, h), cs # <<>>,
           Good(st', cs', g, Lim), cs[Len(cs)].k \in {"c", "exec"},
           NEW m \in 0 .. Len(cs), m <= Len(cs'), \A j \in 1 .. m : cs'[j] = cs[j],
           \A j \in m + 1 .. Len(cs') : Plain(cs'[j]) /\ cs'[j].k \notin {"c", "exec"},
           NEW t, t = cs[Len(cs)].th, \A j \in m + 1 .. Len(cs) : cs[j].th = t,
           NEW M, st' = [st EXCEPT ![t] = M], ThreadOK(M, Lim), Popped(st[t], M),
           LastCI(st[t]).func <= M.top, In(cs', t)
    PROVE  Lies(st', cs', g)
  <1>1. Running({"c", "exec"}, t)
    BY DEF Running, Top
  <1>2. /\ t \in Thread /\ st[t].status = "ok"
        /\ \A j \in 1 .. Len(cs) : cs[j].k = "pcall" /\ cs[j].th = t => cs[j].ci < Len(st[t].ci)
    BY <1>1, TopEnds
  <1>3. Len(st[t].ci) >= 2
    <2>1. PICK w : w = Weight(cs[Len(cs)])
      OBVIOUS
    <2>2. Len(st[t].ci) >= w + 1 /\ w \in Nat \ {0} /\ Len(st[t].ci) \in Nat
      BY <2>1, TwoFrames
    <2> QED
      BY <2>2
  <1>4. \A j \in 1 .. m : cs[j].k = "pcall" /\ cs[j].th = t => cs[j].ci < Len(st[t].ci)
    <2>1. \A j \in 1 .. m : j \in 1 .. Len(cs)
      BY Shape1
    <2> QED
      BY <1>2, <2>1
  <1>5. Fares(st[t], M, cs, m, t)
    BY <1>2, <1>3, <1>4, PopFares
  <1> QED
    BY <1>2, <1>5, LiesBack

\* The C stack beneath the function that runs, when luaD_call has called it.
OnCall(S, cc, n, t, x, c, rest) ==
    /\ n \in Nat /\ n - 1 \in 1 .. n /\ n - 2 \in 1 .. n /\ x \in Act /\ t \in Thread
    /\ c \in Seq(Act) /\ Len(c) = n - 1 /\ c # <<>> /\ x = c[Len(c)] /\ x.th = t
    /\ rest \in Seq(Act) /\ Len(rest) = n - 2 /\ \A j \in 1 .. n - 2 : rest[j] = cc[j]
    /\ Above(cc[n - 2], x) /\ cc[n - 2].th = t /\ rest[Len(rest)] = cc[n - 2]
    /\ \A j \in n - 1 .. n : cc[j].th = t
    /\ S[t].ncc \in Nat \ {0}

\* What luaD_call, lua_pcall and Lua functions have put there.
LEMMA BeneathCall ==
    ASSUME NEW S, NEW cc, NEW h, NEW lim, Good(S, cc, h, lim), cc # <<>>,
           NEW n, n = Len(cc), cc[n].k \in {"c", "exec"}, NEW t, t = cc[n].th,
           NEW x, x = cc[n - 1], x.k = "call", NEW c, c = SubSeq(cc, 1, n - 1),
           NEW rest, rest = SubSeq(c, 1, Len(c) - 1)
    PROVE  OnCall(S, cc, n, t, x, c, rest)
  <1>1. /\ n \in Nat \ {0} /\ cc \in Seq(Act) /\ n - 1 \in 1 .. n /\ cc[n].k # "host"
        /\ h[n] = After(h[n - 1], cc[n])
    BY Shape1, BelowTop
  <1>2. n - 1 \in Nat \ {0} /\ n - 1 \in 1 .. n - 1 /\ n - 1 \in 0 .. n
    BY <1>1
  <1>3. /\ Len(c) = n - 1 /\ \A j \in 1 .. n - 1 : c[j] = cc[j]
        /\ c \in Seq(Act)
    BY <1>1, <1>2, Shorter
  <1>4. c # <<>> /\ x = c[Len(c)]
    BY <1>2, <1>3
  <1>5. x \in Act /\ cc[n].th = x.th
    <2>1. PICK j : j = n - 1
      OBVIOUS
    <2>2. j \in 1 .. Len(cc) /\ j + 1 = n /\ j < Len(cc)
      BY <1>1, <2>1
    <2>3. cc[j].k = "call" /\ cc[j + 1].k \in {"c", "exec"}
      BY <2>1, <2>2
    <2>4. cc[j + 1].th = cc[j].th
      BY <2>2, <2>3, CallFrame
    <2> QED
      BY <2>1, <2>2, <2>4, Shape1
  <1>6. /\ n - 2 \in 1 .. n /\ cc[n - 2].th = x.th /\ Above(cc[n - 2], x)
        /\ h[n - 1] = After(h[n - 2], x)
    <2>1. PICK j : j = n - 1
      OBVIOUS
    <2>2. j \in 1 .. Len(cc) /\ j - 1 = n - 2 /\ cc[j] = x
      BY <1>1, <2>1
    <2>3. ~Starts(cc[j])
      BY <2>2 DEF Starts
    <2>4. j - 1 \in 1 .. Len(cc) /\ cc[j - 1].th = cc[j].th /\ h[j] = After(h[j - 1], cc[j])
      BY <2>2, <2>3, Earlier
    <2>5. j \in 2 .. Len(cc)
      BY <2>2, <2>4
    <2>6. Above(cc[j - 1], cc[j])
      BY <2>5 DEF Good, Struct, Shaped
    <2> QED
      BY <2>1, <2>2, <2>4, <2>6
  <1>7. /\ rest \in Seq(Act) /\ Len(rest) = n - 2 /\ \A j \in 1 .. n - 2 : rest[j] = cc[j]
    <2>1. PICK j : j = n - 2
      OBVIOUS
    <2>2. rest = SubSeq(c, 1, j) /\ j \in 0 .. Len(c) /\ \A i \in 1 .. j : i \in 1 .. n - 1
      BY <1>1, <1>3, <1>6, <2>1
    <2>3. rest \in Seq(Act) /\ Len(rest) = j /\ \A i \in 1 .. j : rest[i] = c[i]
      BY <1>3, <2>2, Shorter
    <2> QED
      BY <1>3, <2>1, <2>2, <2>3
  <1>8. rest[Len(rest)] = cc[n - 2]
    <2>1. n - 2 \in 1 .. n - 2
      BY <1>6
    <2> QED
      BY <1>7, <2>1
  <1>9. \A j \in n - 1 .. n : cc[j].th = t
    <2>1. \A j \in n - 1 .. n : j = n - 1 \/ j = n
      BY <1>1
    <2> QED
      BY <1>5, <2>1
  <1>10. S[t].ncc \in Nat \ {0}
    <2>1. S[t].ncc = h[n].calls
      BY AtTop
    <2>2. h[n].calls = h[n - 1].calls
      <3>1. h[n - 1].calls \in Nat
        BY <1>1, Shape1
      <3> QED
        BY <1>1, <3>1 DEF After, Starts
    <2>3. h[n - 1].calls = h[n - 2].calls + 1 /\ h[n - 2].calls \in Nat
      <3>1. h[n - 2].calls \in Nat
        BY <1>6, Shape1
      <3> QED
        BY <1>6, <3>1 DEF After, Starts
    <2> QED
      BY <2>1, <2>2, <2>3
  <1>11. t \in Thread
    BY <1>1, Shape1
  <1> QED
    BY <1>1, <1>3, <1>4, <1>5, <1>6, <1>7, <1>8, <1>9, <1>10, <1>11 DEF OnCall

\* A function that luaD_call has called returns to C: P is what is left of the thread.
LEMMA FinishCallLies ==
    ASSUME NEW h, NEW g, Good(st, cs, h, Lim), Lies(st, cs, h), cs # <<>>,
           Good(st', cs', g, Lim), NEW n, n = Len(cs), cs[n].k \in {"c", "exec"},
           cs[n].k = "exec" => cs[n].n = 1,
           NEW t, t = cs[n].th, NEW x, x = cs[n - 1], x.k = "call",
           NEW c, c = SubSeq(cs, 1, n - 1), NEW L, L = st[t],
           NEW P, ThreadOK(P, Lim), Popped(L, P), P.ncc = L.ncc, LastCI(L).func <= P.top,
           LastCI(L).nres # -1 => P.top = LastCI(L).func + LastCI(L).nres,
           Finish(t, P, c)
    PROVE  Lies(st', cs', g)
  <1>1. PICK rest : rest = SubSeq(c, 1, Len(c) - 1)
    OBVIOUS
  <1>2. /\ n \in Nat /\ n - 1 \in 1 .. n /\ n - 2 \in 1 .. n /\ x \in Act /\ t \in Thread
        /\ c \in Seq(Act) /\ Len(c) = n - 1 /\ c # <<>> /\ x = c[Len(c)] /\ x.th = t
        /\ rest \in Seq(Act) /\ Len(rest) = n - 2 /\ \A j \in 1 .. n - 2 : rest[j] = cs[j]
        /\ Above(cs[n - 2], x) /\ cs[n - 2].th = t /\ rest[Len(rest)] = cs[n - 2]
        /\ \A j \in n - 1 .. n : cs[j].th = t
        /\ L.ncc \in Nat \ {0}
    <2>1. /\ Good(st, cs, h, Lim) /\ cs # <<>> /\ n = Len(cs) /\ cs[n].k \in {"c", "exec"}
          /\ t = cs[n].th /\ x = cs[n - 1] /\ x.k = "call" /\ c = SubSeq(cs, 1, n - 1)
          /\ rest = SubSeq(c, 1, Len(c) - 1)
      BY <1>1
    <2>2. st[t].ncc = L.ncc
      OBVIOUS
    <2>3. OnCall(st, cs, n, t, x, c, rest)
      BY ONLY <2>1, BeneathCall
    <2> QED
      BY ONLY <2>3, <2>2 DEF OnCall
  <1> DEFINE k == P.ncc - 1
             L1 == [P EXCEPT !.ncc = k]
             L2 == adjustresults(L1, x.nres)
  <1>3. /\ x.for = "tm" => Become(t, [L1 EXCEPT !.top = @ - 1], rest)
        /\ x.for = "api" => Become(t, L2, rest)
        /\ x.for = "handler" => Become(t, L1, Append(rest, Throw(t, "errrun")))
        /\ x.for = "pcall" => LET p == rest[Len(rest)]
                              IN  Become(t, [L2 EXCEPT !.errfunc = p.errfunc],
                                         SubSeq(rest, 1, Len(rest) - 1))
    BY <1>1, <1>2, ZenonT(60) DEF Finish, L1, k
  <1>4. k \in Nat /\ k <= Lim
    <2>1. P.ncc <= Lim
      BY Fields
    <2>2. Lim \in Nat
      BY Shape1
    <2>3. PICK w : w = L.ncc
      OBVIOUS
    <2>4. w \in Nat \ {0} /\ k = w - 1 /\ w <= Lim
      BY <1>2, <2>1, <2>3
    <2> HIDE DEF k
    <2> QED
      BY <2>2, <2>4
  <1> HIDE DEF k
  <1>5. /\ ThreadOK(L1, Lim) /\ L1.ci = P.ci /\ L1.top = P.top /\ L1.open = P.open
        /\ L1.base = P.base /\ L1.status = P.status
    <2>1. ThreadOK(L1, Lim)
      BY <1>4, Counted
    <2> QED
      BY <2>1 DEF ThreadOK
  <1> HIDE DEF L1
  <1>6. Popped(L, L1) /\ LastCI(L).func <= L1.top
    BY <1>5 DEF Popped
  <1>7. ThreadOK(L, Lim) /\ L.status = "ok"
    BY AtTop
  <1>8. LastCI(L).func \in Int /\ L1.top \in Int /\ L1.status # "none"
    BY <1>5, <1>6, <1>7, Fields DEF LastCI, Popped
  <1>9. /\ ThreadOK(L2, Lim) /\ Popped(L, L2) /\ LastCI(L).func <= L2.top
    <2>1. Rises(L1, L2) /\ ThreadOK(L2, Lim)
      BY <1>5, <1>8, AdjustRises
    <2>2. Popped(L, L2) /\ L1.top <= L2.top /\ L2.top \in Int
      BY <1>5, <1>6, <1>7, <2>1, PoppedRises, Fields
    <2> QED
      BY <1>6, <1>8, <2>1, <2>2
  <1> HIDE DEF L2
  <1>10. x.for \in {"tm", "api", "handler", "pcall"}
    BY <1>2, ActFacts
  <1>11. n - 2 \in 0 .. Len(cs) /\ n - 2 \in 1 .. n - 2 /\ n - 2 \in Nat
    BY <1>2
  <1>12. \A j \in (n - 2) + 1 .. Len(cs) : cs[j].th = t
    <2>1. \A j \in (n - 2) + 1 .. Len(cs) : j \in n - 1 .. n
      BY <1>2
    <2> QED
      BY <1>2, <2>1
  <1>13. PICK m : m = n - 2
    OBVIOUS
  <1>14. /\ m \in 0 .. Len(cs) /\ m \in 1 .. m /\ m \in Nat /\ Len(rest) = m
         /\ \A j \in 1 .. m : rest[j] = cs[j]
         /\ \A j \in m + 1 .. Len(cs) : cs[j].th = t
         /\ rest[m] = cs[m] /\ cs[m].th = t
    BY <1>2, <1>11, <1>12, <1>13
  <1>15. ASSUME NEW M, ThreadOK(M, Lim), Popped(L, M), LastCI(L).func <= M.top,
                st' = [st EXCEPT ![t] = M], cs' = rest
         PROVE  Lies(st', cs', g)
    <2>1. /\ m <= Len(cs') /\ \A j \in 1 .. m : cs'[j] = cs[j]
          /\ \A j \in m + 1 .. Len(cs') : Plain(cs'[j]) /\ cs'[j].k \notin {"c", "exec"}
          /\ In(cs', t)
      BY <1>14, <1>15 DEF In
    <2> QED
      BY <1>14, <1>15, <2>1, LiesPopped
  <1>16. CASE x.for = "tm"
    <2> DEFINE v == L1.top - 1
               M == [L1 EXCEPT !.top = v]
    <2>1. st' = [st EXCEPT ![t] = M] /\ cs' = rest
      BY <1>3, <1>16 DEF Become
    <2>2. LastCI(L).nres = 1
      <3>1. PICK i : i = n - 1
        OBVIOUS
      <3>2. i \in 1 .. Len(cs) /\ i + 1 = Len(cs) /\ i < Len(cs)
        BY <1>2, <3>1
      <3>3. Placed(st, cs, h, i) /\ cs[i] = x
        BY <3>1, <3>2 DEF Lies
      <3>4. h[i].frames + 1 = Len(st[t].ci)
        BY <3>2, LastFrame
      <3>5. st[t].ci[h[i].frames + 1].nres = 1
        BY <1>2, <1>16, <3>1, <3>2, <3>3 DEF Placed
      <3> QED
        BY <3>4, <3>5 DEF LastCI
    <2>3. v \in Int /\ LastCI(L).func <= v
      BY <1>5, <1>8, <2>2
    <2> HIDE DEF v
    <2>4. ThreadOK(M, Lim)
      BY <1>5, <2>3, Moves
    <2>5. M.ci = L1.ci /\ M.top = v /\ M.open = L1.open /\ M.base = L1.base
          /\ M.status = L1.status
      BY <1>5 DEF ThreadOK
    <2> HIDE DEF M
    <2>6. Popped(L, M)
      BY <1>6, <2>5 DEF Popped
    <2> QED
      BY <1>15, <2>1, <2>3, <2>4, <2>5, <2>6
  <1>17. CASE x.for = "api"
    BY <1>3, <1>9, <1>15, <1>17 DEF Become
  <1>18. CASE x.for = "handler"
    <2>1. PICK y : y = Throw(t, "errrun")
      OBVIOUS
    <2>2. y.th = t /\ y.k = "throw"
      BY <2>1 DEF Throw
    <2>3. st' = [st EXCEPT ![t] = L1] /\ cs' = Append(rest, y)
      BY <1>3, <1>18, <2>1 DEF Become
    <2>4. /\ Len(cs') = m + 1 /\ cs'[m + 1] = y /\ \A j \in 1 .. m : cs'[j] = cs[j]
      <3>1. rest \in Seq(Act) /\ Len(rest) = m
        BY <1>2, <1>14
      <3>2. /\ Len(Append(rest, y)) = m + 1 /\ Append(rest, y)[m + 1] = y
            /\ \A j \in 1 .. m : Append(rest, y)[j] = rest[j]
        BY ONLY <3>1
      <3> QED
        BY <1>14, <2>3, <3>2
    <2>5. In(cs', t)
      <3>1. m + 1 \in 1 .. Len(cs') /\ cs'[m + 1].th = t
        BY <1>14, <2>2, <2>4
      <3> QED
        BY <3>1 DEF In
    <2>6. /\ m <= Len(cs')
          /\ \A j \in m + 1 .. Len(cs') : Plain(cs'[j]) /\ cs'[j].k \notin {"c", "exec"}
      BY <1>14, <2>2, <2>4 DEF Plain
    <2> QED
      BY <1>5, <1>6, <1>14, <2>3, <2>4, <2>5, <2>6, LiesPopped
  <1>19. CASE x.for = "pcall"
    <2> DEFINE e == rest[Len(rest)].errfunc
               M == [L2 EXCEPT !.errfunc = e]
    <2>1. st' = [st EXCEPT ![t] = M] /\ cs' = SubSeq(rest, 1, Len(rest) - 1)
      BY <1>3, <1>19 DEF Become
    <2>2. cs[m].k = "pcall" /\ cs[m] \in Act /\ e \in Int
      <3>1. cs[m] \in Act
        BY <1>14, Shape1
      <3>2. cs[m].k = "pcall"
        BY <1>2, <1>13, <1>19 DEF Above
      <3> QED
        BY <1>14, <3>1, <3>2, ActFacts
    <2> HIDE DEF e
    <2>3. ThreadOK(M, Lim) /\ Handles(L2, M, e)
      BY <1>9, <2>2, Handled
    <2>4. M.open = L2.open
      BY <1>9 DEF ThreadOK
    <2> HIDE DEF M
    <2>5. Popped(L, M) /\ LastCI(L).func <= M.top
      BY <1>9, <2>3, <2>4 DEF Popped, Handles
    <2>6. PICK q : q = m - 1
      OBVIOUS
    <2>7. q \in 1 .. Len(cs) /\ cs[q].th = t
      <3>1. ~Starts(cs[m]) /\ m \in 1 .. Len(cs)
        BY <1>2, <1>14, <2>2 DEF Starts
      <3> QED
        BY <1>14, <2>6, <3>1, Earlier
    <2>8. q \in Nat /\ q + 1 = m /\ q \in 0 .. Len(cs) /\ q \in 1 .. q /\ q \in 0 .. Len(rest)
      BY <1>14, <2>6, <2>7
    <2>9. Len(cs') = q /\ \A j \in 1 .. q : cs'[j] = rest[j]
      BY <1>2, <1>14, <2>1, <2>6, <2>8, Shorter
    <2>10. \A j \in 1 .. q : cs'[j] = cs[j]
      <3>1. \A j \in 1 .. q : j \in 1 .. m
        BY <2>8
      <3> QED
        BY <1>14, <2>9, <3>1
    <2>11. \A j \in q + 1 .. Len(cs) : cs[j].th = t
      <3>1. \A j \in q + 1 .. Len(cs) : j = m \/ j \in m + 1 .. Len(cs)
        BY <1>2, <1>14, <2>8
      <3> QED
        BY <1>14, <3>1
    <2>12. In(cs', t)
      BY <2>7, <2>8, <2>9, <2>10 DEF In
    <2>13. /\ q <= Len(cs')
           /\ \A j \in q + 1 .. Len(cs') : Plain(cs'[j]) /\ cs'[j].k \notin {"c", "exec"}
      BY <2>8, <2>9
    <2> QED
      BY <2>1, <2>3, <2>5, <2>8, <2>10, <2>11, <2>12, <2>13, LiesPopped
  <1> QED
    BY <1>10, <1>16, <1>17, <1>18, <1>19

\* Who resumed a coroutine.
LEMMA ResumedBy ==
    ASSUME NEW S, NEW c, NEW h, NEW lim, Good(S, c, h, lim), NEW i \in 1 .. Len(c),
           c[i].k = "resume"
    PROVE  /\ i - 1 \in 1 .. Len(c) /\ c[i].by = c[i - 1].th /\ c[i].by \in Thread
           /\ c[i].by # c[i].th /\ S[c[i].by].status = "ok" /\ ThreadOK(S[c[i].by], lim)
           /\ h[i].frames = 1 /\ c[i - 1].k \in {"c", "host", "hook"}
  <1>1. Len(c) \in Nat /\ \A j \in 1 .. Len(c) : c[j].th \in Thread
    BY Shape1
  <1>2. i \in 2 .. Len(c)
    <2>1. i # 1
      BY DEF Good, Struct, Shaped
    <2> QED
      BY <1>1, <2>1
  <1>3. Above(c[i - 1], c[i]) /\ h[i] = After(h[i - 1], c[i])
    BY <1>2 DEF Good, Struct, Shaped
  <1>4. i - 1 \in 1 .. Len(c)
    BY <1>1, <1>2
  <1>5. c[i].by = c[i - 1].th /\ c[i - 1].k \in {"c", "host", "hook"}
    BY <1>3 DEF Above
  <1>6. c[i - 1].th # c[i].th
    BY <1>4, ResumerIsOther
  <1>7. c[i - 1].th \in Thread
    BY <1>1, <1>4
  <1>8. S[c[i - 1].th].status = "ok" /\ ThreadOK(S[c[i - 1].th], lim)
    BY <1>4, <1>7 DEF Good, LiveOK
  <1>9. h[i].frames = 1
    BY <1>3 DEF After, Starts
  <1> QED
    BY <1>4, <1>5, <1>6, <1>7, <1>8, <1>9

\* The function of a coroutine returns, and its resumer has the results.
LEMMA FinishResumeLies ==
    ASSUME NEW h, NEW g, Good(st, cs, h, Lim), Lies(st, cs, h), cs # <<>>,
           Good(st', cs', g, Lim), NEW n, n = Len(cs), cs[n].k \in {"c", "exec"},
           cs[n].k = "exec" => cs[n].n = 1,
           NEW t, t = cs[n].th, NEW x, x = cs[n - 1], x.k = "resume",
           NEW c, c = SubSeq(cs, 1, n - 1), NEW L, L = st[t],
           NEW P, ThreadOK(P, Lim), Popped(L, P), LastCI(L).func <= P.top,
           Finish(t, P, c)
    PROVE  Lies(st', cs', g)
  <1>1. /\ n \in Nat \ {0} /\ cs \in Seq(Act) /\ n - 1 \in 1 .. n /\ t = x.th /\ t \in Thread
    <2>1. /\ n \in Nat \ {0} /\ cs \in Seq(Act) /\ n \in 1 .. Len(cs)
      BY Shape1
    <2>2. n - 1 \in 1 .. n /\ Above(cs[n - 1], cs[n])
      BY BelowTop
    <2> QED
      BY <2>1, <2>2, Shape1 DEF Above
  <1>2. PICK i : i = n - 1
    OBVIOUS
  <1>3. /\ i \in 1 .. Len(cs) /\ i \in Nat /\ i + 1 = n /\ cs[i] = x
        /\ i \in 0 .. Len(cs) /\ i \in 1 .. i
    BY <1>1, <1>2
  <1>4. PICK by : by = x.by
    OBVIOUS
  <1>5. /\ i - 1 \in 1 .. Len(cs) /\ by \in Thread /\ by # t /\ st[by].status = "ok"
        /\ ThreadOK(st[by], Lim) /\ h[i].frames = 1
    BY <1>1, <1>3, <1>4, ResumedBy
  <1>6. PICK m : m = i - 1
    OBVIOUS
  <1>7. m \in Nat /\ m + 1 = i /\ m \in 0 .. i /\ m \in 0 .. Len(cs)
    BY <1>3, <1>5, <1>6
  <1>8. /\ c \in Seq(Act) /\ Len(c) = i /\ (\A j \in 1 .. i : c[j] = cs[j]) /\ c[Len(c)] = x
    <2>1. c \in Seq(Act) /\ Len(c) = i /\ (\A j \in 1 .. i : c[j] = cs[j])
      BY <1>1, <1>2, <1>3, Shorter
    <2> QED
      BY <1>3, <2>1
  <1>9. PICK nv : nv = P.top - P.base
    OBVIOUS
  <1>10. PICK M : M = [P EXCEPT !.top = @ - nv]
    OBVIOUS
  <1>11. PICK N : N = Receive(st[by], nv)
    OBVIOUS
  <1>12. st' = [st EXCEPT ![t] = M, ![by] = N] /\ cs' = SubSeq(c, 1, Len(c) - 1)
    <2>1. /\ st' = [st EXCEPT ![t] = [P EXCEPT !.top = @ - nv], ![by] = Receive(@, nv)]
          /\ cs' = SubSeq(c, 1, Len(c) - 1)
      BY <1>4, <1>8, <1>9 DEF Finish
    <2>2. st = [u \in Thread |-> st[u]]
      BY DEF Good
    <2> QED
      BY <1>1, <1>5, <1>10, <1>11, <2>1, <2>2
  <1>13. Len(cs') = m /\ \A j \in 1 .. m : cs'[j] = cs[j]
    <2>1. Len(cs') = m /\ \A j \in 1 .. m : cs'[j] = c[j]
      BY <1>6, <1>7, <1>8, <1>12, Shorter
    <2>2. \A j \in 1 .. m : j \in 1 .. i
      BY <1>7
    <2> QED
      BY <1>8, <2>1, <2>2
  <1>14. /\ ThreadOK(L, Lim) /\ L.status = "ok" /\ Len(L.ci) = 2 /\ Nested(L)
    <2>1. h[i].frames + 1 = Len(st[t].ci)
      BY <1>3, LastFrame
    <2>2. ThreadOK(L, Lim) /\ L.status = "ok"
      BY AtTop
    <2> QED
      BY <1>1, <1>5, <2>1, <2>2 DEF Lies, LiesIn
  <1>15. Nested(P)
    <2>1. \A j \in 1 .. 0 : cs[j].k = "pcall" /\ cs[j].th = t => cs[j].ci < Len(L.ci)
      OBVIOUS
    <2>2. 0 \in 0 .. Len(cs)
      BY <1>1
    <2>3. Len(L.ci) >= 2 /\ L.status # "none"
      BY <1>14
    <2>4. Fares(L, P, cs, 0, t)
      BY <1>1, <2>1, <2>2, <2>3, PopFares
    <2> QED
      BY <2>4 DEF Fares, LiesIn, Popped
  <1>16. /\ Len(P.ci) = 1 /\ P.status = "ok" /\ P.open = {} /\ P.base = LastCI(P).base
         /\ P.base <= P.top /\ P.base \in Int /\ P.top \in Int
    <2>1. Len(P.ci) = 1 /\ P.status = "ok"
      BY <1>14 DEF Popped
    <2> QED
      BY <1>15, <2>1, NoOpen, Fields DEF Nested
  <1>17. nv \in Int /\ nv >= 0 /\ P.top - nv = P.base
    BY <1>9, <1>16
  <1>18. /\ M.ci = P.ci /\ M.open = P.open /\ M.base = P.base /\ M.status = P.status
         /\ M.top = P.base
    BY <1>10, <1>17 DEF ThreadOK
  <1>19. LiesIn(M)
    <2>1. Nested(M)
      BY <1>15, <1>16, <1>18 DEF Nested, LastCI
    <2> QED
      BY <1>16, <1>18, <2>1 DEF LiesIn
  <1>20. Rises(st[by], N)
    BY <1>5, <1>11, <1>17, ReceiveRises
  <1>21. \A k \in 1 .. Len(st[t].ci) : k <= Len(M.ci) => M.ci[k].nres = st[t].ci[k].nres
    <2>1. Len(M.ci) = 1 /\ 1 \in 1 .. Len(P.ci)
      BY <1>16, <1>18
    <2>2. M.ci[1].nres = st[t].ci[1].nres
      BY <1>18, <2>1 DEF Popped, SamePlace
    <2>3. \A k \in 1 .. Len(st[t].ci) : k <= 1 => k = 1
      BY <1>14
    <2> QED
      BY <2>1, <2>2, <2>3
  <1>22. cs[i].k = "resume" /\ t = cs[i].th /\ t = cs[Len(cs)].th
    BY <1>1, <1>3
  <1>23. (M.status = "ok" => Len(M.ci) = 1) /\ st[by].status # "none"
    BY <1>5, <1>16, <1>18
  <1>24. Good(st, cs, h, Lim) /\ Lies(st, cs, h) /\ cs # <<>> /\ Good(st', cs', g, Lim)
    OBVIOUS
  <1> QED
    BY ONLY <1>3, <1>5, <1>6, <1>12, <1>13, <1>19, <1>20, <1>21, <1>22, <1>23, <1>24, LiesLeave

\* What OP_RETURN does to the thread: its results begin where the function was.
LEMMA ReturnPops ==
    ASSUME NEW L, NEW lim, ThreadOK(L, lim), Len(L.ci) >= 2, L.status = "ok", Nested(L),
           NEW n \in Nat, NEW K, K = IF AtFrameTop(L) THEN [L EXCEPT !.top = L.base + n] ELSE L,
           NEW P, P = luaD_poscall(luaF_close(K, L.base), L.base)
    PROVE  /\ Popped(L, P) /\ ThreadOK(P, lim) /\ P.ncc = L.ncc /\ LastCI(L).func <= P.top
           /\ LastCI(L).nres # -1 => P.top = LastCI(L).func + LastCI(L).nres
           /\ Len(P.ci) \in 1 .. Len(L.ci) /\ \A i \in 1 .. Len(P.ci) : P.ci[i] = L.ci[i]
  <1> DEFINE v == L.base + n
             J == luaF_close(K, L.base)
  <1>1. /\ L.base \in Int /\ L.top \in Int /\ Len(L.ci) \in Nat /\ v \in Int /\ L.base <= v
    BY Fields
  <1>2. L.base = LastCI(L).base /\ L.base <= L.top /\ LastCI(L).nres >= -1
    <2>1. Len(L.ci) \in 1 .. Len(L.ci)
      BY <1>1
    <2> QED
      BY <2>1 DEF Nested, LastCI
  <1> HIDE DEF v
  <1>3. /\ ThreadOK(K, lim) /\ K.ci = L.ci /\ K.open = L.open /\ K.status = "ok"
        /\ K.ncc = L.ncc /\ L.base <= K.top
    <2>1. CASE AtFrameTop(L)
      <3>1. K = [L EXCEPT !.top = v]
        BY <2>1 DEF v
      <3>2. ThreadOK(K, lim)
        BY <1>1, <3>1, Moves
      <3>3. /\ K.ci = L.ci /\ K.open = L.open /\ K.status = "ok" /\ K.ncc = L.ncc /\ K.top = v
        BY <3>1 DEF ThreadOK
      <3> QED
        BY <1>1, <3>2, <3>3
    <2>2. CASE ~AtFrameTop(L)
      BY <1>2, <2>2
    <2> QED
      BY <2>1, <2>2
  <1> HIDE DEF J
  <1>4. /\ ThreadOK(J, lim) /\ J.ci = L.ci /\ J.open = {l \in L.open : l < L.base}
        /\ J.status = "ok" /\ J.ncc = L.ncc /\ J.top = K.top
    <2>1. J = [K EXCEPT !.open = {l \in L.open : l < L.base}]
      BY <1>3 DEF J, luaF_close
    <2>2. Moved(K, J)
      BY <1>3, CloseMoves DEF J
    <2>3. ThreadOK(J, lim)
      BY <1>3, <2>2, MovedKeeps
    <2> QED
      BY <1>3, <2>1, <2>3 DEF ThreadOK
  <1>5. LastCI(J) = LastCI(L) /\ \A l \in J.open : l < LastCI(J).base
    BY <1>2, <1>4 DEF LastCI
  <1>6. P = luaD_poscall(J, L.base)
    BY DEF J
  <1>7. /\ Popped(J, P) /\ ThreadOK(P, lim) /\ P.ncc = J.ncc /\ LastCI(J).func <= P.top
        /\ LastCI(J).nres # -1 => P.top = LastCI(J).func + LastCI(J).nres
        /\ \A i \in 1 .. Len(P.ci) : P.ci[i] = J.ci[i]
    <2>1. LastCI(J).nres >= -1 /\ L.base <= J.top /\ Len(J.ci) >= 2
      BY <1>2, <1>3, <1>4, <1>5
    <2>2. PICK first : first = L.base
      OBVIOUS
    <2>3. /\ ThreadOK(J, lim) /\ Len(J.ci) >= 2 /\ J.status = "ok" /\ LastCI(J).nres >= -1
          /\ (\A l \in J.open : l < LastCI(J).base) /\ first \in Int /\ first <= J.top
          /\ P = luaD_poscall(J, first)
      BY <1>1, <1>4, <1>5, <1>6, <2>1, <2>2
    <2> QED
      BY ONLY <2>3, PoscallPops
  <1>8. Popped(L, P)
    <2>1. P.open \subseteq L.open
      BY <1>4, <1>7 DEF Popped
    <2> QED
      BY <1>4, <1>5, <1>7, <2>1 DEF Popped
  <1>9. Len(P.ci) \in 1 .. Len(L.ci)
    <2>1. Len(P.ci) = Len(L.ci) - 1
      BY <1>8 DEF Popped
    <2> QED
      BY <1>1, <2>1
  <1> QED
    BY <1>4, <1>5, <1>7, <1>8, <1>9

\* Back in luaV_execute the top is that of the frame, or the results end the stack.
LEMMA ToExec ==
    ASSUME NEW h, NEW g, Good(st, cs, h, Lim), Lies(st, cs, h), cs # <<>>,
           Good(st', cs', g, Lim), cs[Len(cs)].k \in {"c", "exec"},
           NEW m \in 0 .. Len(cs), m <= Len(cs'), \A j \in 1 .. m : cs'[j] = cs[j],
           NEW t, t = cs[Len(cs)].th, Len(cs') \in 1 .. Len(cs'), cs'[Len(cs')].k = "exec",
           cs'[Len(cs')].th = t, NEW L, L = st[t], NEW P, ThreadOK(P, Lim), Popped(L, P),
           LastCI(L).func <= P.top, Len(P.ci) \in 1 .. Len(L.ci),
           \A i \in 1 .. Len(P.ci) : P.ci[i] = L.ci[i],
           NEW Q, Q = IF LastCI(L).nres # LUA_MULTRET THEN [P EXCEPT !.top = LastCI(P).top] ELSE P,
           st' = [st EXCEPT ![t] = Q]
    PROVE  Fares(L, Q, cs, m, t)
  <1>1. Running({"c", "exec"}, t)
    BY DEF Running, Top
  <1>2. /\ t \in Thread /\ ThreadOK(L, Lim) /\ L.status = "ok" /\ L.status # "none"
        /\ \A j \in 1 .. Len(cs) : cs[j].k = "pcall" /\ cs[j].th = t => cs[j].ci < Len(L.ci)
    BY <1>1, TopEnds
  <1>3. Len(L.ci) >= 2
    <2>1. PICK w : w = Weight(cs[Len(cs)])
      OBVIOUS
    <2>2. Len(L.ci) >= w + 1 /\ w \in Nat \ {0} /\ Len(L.ci) \in Nat
      BY <2>1, TwoFrames
    <2> QED
      BY <2>2
  <1>4. ThreadOK(Q, Lim) /\ st'[t] = Q
    <2>1. st = [u \in Thread |-> st[u]] /\ \A u \in Thread : ThreadOK(st'[u], Lim)
      BY DEF Good
    <2>2. st'[t] = Q
      BY <1>2, <2>1
    <2> QED
      BY <1>2, <2>1, <2>2
  <1>5. \A j \in 1 .. m : cs[j].k = "pcall" /\ cs[j].th = t =>
           cs[j].ci < Len(L.ci) /\ cs[j].ci < Len(Q.ci)
    <2> SUFFICES ASSUME NEW j \in 1 .. m, cs[j].k = "pcall", cs[j].th = t
                 PROVE  cs[j].ci < Len(L.ci) /\ cs[j].ci < Len(Q.ci)
      OBVIOUS
    <2>1. PICK e : e = Len(cs')
      OBVIOUS
    <2>2. j \in 1 .. Len(cs) /\ j \in 1 .. Len(cs') /\ cs'[j] = cs[j] /\ e \in 1 .. Len(cs')
      BY <2>1, Shape1
    <2>3. Ends(cs', e) /\ cs'[e].k \in {"c", "exec", "host"} /\ cs'[j].th = cs'[e].th
          /\ cs'[j].k = "pcall" /\ Good(st', cs', g, Lim)
      BY <2>1, <2>2 DEF Ends
    <2>4. cs'[j].ci < Len(st'[cs'[e].th].ci)
      BY ONLY <2>2, <2>3, PcallBelow
    <2> QED
      BY <1>2, <1>4, <2>1, <2>2, <2>4
  <1>6. Len(L.ci) \in Nat /\ Len(Q.ci) \in Nat
    BY <1>2, <1>4, Fields
  <1>7. \A j \in 1 .. m : cs[j].k = "pcall" /\ cs[j].th = t => cs[j].ci < Len(L.ci)
    BY <1>5
  <1>8. CASE LastCI(L).nres = LUA_MULTRET
    <2>1. Q = P
      BY <1>8
    <2>2. Popped(L, Q) /\ LastCI(L).func <= Q.top
      BY <2>1
    <2> QED
      BY <1>2, <1>3, <1>4, <1>7, <2>2, PopFares
  <1>9. CASE LastCI(L).nres # LUA_MULTRET
    <2>1. PICK v : v = LastCI(P).top
      OBVIOUS
    <2>2. Q = [P EXCEPT !.top = v]
      BY <1>9, <2>1
    <2>3. /\ Q.ci = P.ci /\ Q.open = P.open /\ Q.base = P.base /\ Q.status = P.status
          /\ Q.top = v
      BY <2>2 DEF ThreadOK
    <2>4. Popped(L, Q)
      BY <2>3 DEF Popped
    <2>5. L.ci[Len(Q.ci)].top <= Q.top
      <3>1. PICK k : k = Len(P.ci)
        OBVIOUS
      <3>2. k \in 1 .. k /\ k \in 1 .. Len(L.ci)
        BY <1>6, <3>1
      <3>3. P.ci[k] = L.ci[k] /\ L.ci[k].top \in Int
        BY <1>2, <3>1, <3>2, Fields
      <3>4. Q.top = P.ci[k].top /\ Len(Q.ci) = k
        BY <2>1, <2>3, <3>1 DEF LastCI
      <3> QED
        BY ONLY <3>3, <3>4
    <2>6. \A j \in 1 .. m : cs[j].k = "pcall" /\ cs[j].th = t => cs[j].ci # Len(Q.ci)
      BY <1>5, <1>6
    <2> QED
      BY <1>2, <1>3, <1>4, <1>7, <2>4, <2>5, <2>6, PopFares
  <1> QED
    BY <1>8, <1>9

\* OP_RETURN, whoever called the function.
LEMMA OpReturnLies ==
    ASSUME NEW h, NEW g, Good(st, cs, h, Lim), Lies(st, cs, h), cs # <<>>,
           Good(st', cs', g, Lim), NEW t, NEW r \in Nat, OpReturn(t, r)
    PROVE  Lies(st', cs', g)
  <1>1. PICK L : L = st[t]
    OBVIOUS
  <1>2. PICK n : n = Len(cs)
    OBVIOUS
  <1>3. PICK K : K = IF AtFrameTop(L) THEN [L EXCEPT !.top = L.base + r] ELSE L
    OBVIOUS
  <1>4. PICK P : P = luaD_poscall(luaF_close(K, L.base), L.base)
    OBVIOUS
  <1>5. PICK Q : Q = IF LastCI(L).nres # LUA_MULTRET THEN [P EXCEPT !.top = LastCI(P).top] ELSE P
    OBVIOUS
  <1>6. /\ Running({"exec"}, t)
        /\ IF Top.n = 1 THEN Finish(t, P, Below)
           ELSE Become(t, Q, Append(Below, [Top EXCEPT !.n = @ - 1]))
    BY <1>1, <1>3, <1>4, <1>5 DEF OpReturn
  <1>7. /\ n \in Nat \ {0} /\ cs \in Seq(Act) /\ n \in 1 .. Len(cs) /\ t = cs[n].th
        /\ cs[n].k = "exec" /\ cs[n] \in Act
    BY <1>2, <1>6, Shape1 DEF Running, Top
  <1>8. /\ t \in Thread /\ ThreadOK(L, Lim) /\ L.status = "ok" /\ Nested(L)
        /\ \A j \in 1 .. Len(cs) : cs[j].k = "pcall" /\ cs[j].th = t => cs[j].ci < Len(L.ci)
    <2>1. /\ t \in Thread /\ ThreadOK(L, Lim) /\ L.status = "ok" /\ Nested(L)
          /\ (cs[Len(cs)].k \in {"c", "exec", "host"} =>
                 \A j \in 1 .. Len(cs) : cs[j].k = "pcall" /\ cs[j].th = t
                                           => cs[j].ci < Len(L.ci))
      BY <1>1, <1>6, TopEnds
    <2> QED
      BY <1>2, <1>7, <2>1
  <1>9. Len(L.ci) >= 2
    <2>1. PICK w : w = Weight(cs[Len(cs)])
      OBVIOUS
    <2>2. Len(L.ci) >= w + 1 /\ w \in Nat \ {0} /\ Len(L.ci) \in Nat
      BY <1>1, <1>2, <1>7, <2>1, TwoFrames
    <2> QED
      BY <2>2
  <1>10. /\ Popped(L, P) /\ ThreadOK(P, Lim) /\ P.ncc = L.ncc /\ LastCI(L).func <= P.top
         /\ LastCI(L).nres # -1 => P.top = LastCI(L).func + LastCI(L).nres
         /\ Len(P.ci) \in 1 .. Len(L.ci) /\ \A i \in 1 .. Len(P.ci) : P.ci[i] = L.ci[i]
    BY <1>3, <1>4, <1>8, <1>9, ReturnPops
  <1>11. n - 1 \in 1 .. n /\ cs[n - 1].k \in {"call", "resume"}
    BY <1>2, <1>7, BelowTop DEF Above
  <1>12. CASE cs[n].n = 1
    <2>1. PICK x : x = cs[n - 1]
      OBVIOUS
    <2>2. PICK c : c = SubSeq(cs, 1, n - 1)
      OBVIOUS
    <2>3. Finish(t, P, c)
      BY <1>2, <1>6, <1>12, <2>2 DEF Below, Top
    <2>4. /\ Good(st, cs, h, Lim) /\ Lies(st, cs, h) /\ cs # <<>> /\ Good(st', cs', g, Lim)
          /\ cs[n].k \in {"c", "exec"} /\ (cs[n].k = "exec" => cs[n].n = 1)
      BY <1>7, <1>12
    <2>5. CASE x.k = "call"
      BY ONLY <1>1, <1>2, <1>7, <1>10, <2>1, <2>2, <2>3, <2>4, <2>5, FinishCallLies
    <2>6. CASE x.k = "resume"
      BY ONLY <1>1, <1>2, <1>7, <1>10, <2>1, <2>2, <2>3, <2>4, <2>6, FinishResumeLies
    <2> QED
      BY <1>11, <2>1, <2>5, <2>6
  <1>13. CASE cs[n].n # 1
    <2>1. PICK y : y = [cs[n] EXCEPT !.n = @ - 1]
      OBVIOUS
    <2>2. PICK m : m = n - 1
      OBVIOUS
    <2>3. PICK c : c = SubSeq(cs, 1, m)
      OBVIOUS
    <2>4. st' = [st EXCEPT ![t] = Q] /\ cs' = Append(c, y)
      BY <1>2, <1>6, <1>13, <2>1, <2>2, <2>3 DEF Become, Below, Top
    <2>5. y.k = "exec" /\ y.th = t
      BY <1>7, <2>1 DEF Act
    <2>6. m \in Nat /\ m + 1 = n /\ m \in 0 .. Len(cs) /\ m \in 1 .. Len(cs)
      BY <1>2, <1>7, <1>11, <2>2
    <2>7. c \in Seq(Act) /\ Len(c) = m /\ \A j \in 1 .. m : c[j] = cs[j]
      BY <1>7, <2>3, <2>6, Shorter
    <2>8. Len(cs') = n /\ cs'[n] = y /\ \A j \in 1 .. m : cs'[j] = cs[j]
      BY <2>4, <2>6, <2>7
    <2>9. ThreadOK(Q, Lim) /\ st'[t] = Q
      <3>1. st = [u \in Thread |-> st[u]] /\ \A u \in Thread : ThreadOK(st'[u], Lim)
        BY DEF Good
      <3>2. st'[t] = Q
        BY <1>8, <2>4, <3>1
      <3> QED
        BY <1>8, <3>1, <3>2
    <2>10. Len(cs') \in 1 .. Len(cs') /\ m <= Len(cs') /\ cs'[Len(cs')].k = "exec"
           /\ cs'[Len(cs')].th = t
      BY <1>7, <2>5, <2>6, <2>8
    <2>11. m \in 0 .. Len(cs) /\ cs[Len(cs)].k \in {"c", "exec"} /\ t = cs[Len(cs)].th
           /\ Good(st, cs, h, Lim) /\ Lies(st, cs, h) /\ cs # <<>> /\ Good(st', cs', g, Lim)
      BY <1>2, <1>7, <2>6
    <2>12. Fares(L, Q, cs, m, t)
      BY ONLY <1>1, <1>5, <1>10, <2>4, <2>8, <2>10, <2>11, ToExec
    <2>13. /\ Len(cs') = Len(cs) /\ (\A j \in 1 .. Len(cs) - 1 : cs'[j] = cs[j])
           /\ cs[Len(cs)].k = "exec" /\ cs'[Len(cs)].k = "exec"
           /\ cs'[Len(cs)].th = cs[Len(cs)].th /\ t = cs[Len(cs)].th /\ m = Len(cs) - 1
      BY <1>2, <1>7, <2>2, <2>5, <2>8
    <2>14. Fares(st[t], Q, cs, m, t) /\ t \in Thread
      BY <1>1, <1>8, <2>12
    <2>15. Good(st, cs, h, Lim) /\ Lies(st, cs, h) /\ cs # <<>> /\ Good(st', cs', g, Lim)
      OBVIOUS
    <2> QED
      BY ONLY <2>4, <2>13, <2>14, <2>15, LiesCounted
  <1> QED
    BY <1>12, <1>13

\* The return of a C function, whoever called it.
LEMMA CReturnLies ==
    ASSUME NEW h, NEW g, Good(st, cs, h, Lim), Lies(st, cs, h), cs # <<>>,
           Good(st', cs', g, Lim), NEW t, NEW r \in Nat, CReturn(t, r)
    PROVE  Lies(st', cs', g)
  <1>1. PICK L : L = st[t]
    OBVIOUS
  <1>2. PICK n : n = Len(cs)
    OBVIOUS
  <1>3. PICK P : P = luaD_poscall(L, L.top - r)
    OBVIOUS
  <1>4. PICK Q : Q = IF LastCI(L).nres >= 0 THEN [P EXCEPT !.top = LastCI(P).top] ELSE P
    OBVIOUS
  <1>5. ~Running({"hook"}, t)
    <2> SUFFICES ASSUME Running({"hook"}, t) PROVE FALSE
      OBVIOUS
    <2> QED
      BY TopEnds
  <1>6. /\ Running({"c"}, t)
        /\ IF cs[n - 1].k = "exec" THEN Become(t, Q, Below) ELSE Finish(t, P, Below)
    BY <1>1, <1>2, <1>3, <1>4, <1>5 DEF CReturn
  <1>7. /\ n \in Nat \ {0} /\ cs \in Seq(Act) /\ n \in 1 .. Len(cs) /\ t = cs[n].th
        /\ cs[n].k = "c" /\ cs[n] \in Act
    BY <1>2, <1>6, Shape1 DEF Running, Top
  <1>8. /\ t \in Thread /\ ThreadOK(L, Lim) /\ L.status = "ok" /\ Nested(L)
    BY <1>1, <1>6, TopEnds
  <1>9. Len(L.ci) >= 2 /\ Len(L.ci) \in Nat
    <2>1. PICK w : w = Weight(cs[Len(cs)])
      OBVIOUS
    <2>2. Len(L.ci) >= w + 1 /\ w \in Nat \ {0} /\ Len(L.ci) \in Nat
      BY <1>1, <1>2, <1>7, <2>1, TwoFrames
    <2> QED
      BY <2>2
  <1>10. LastCI(L) \notin LuaFrame
    <2>1. Ends(cs, n)
      BY <1>2 DEF Ends
    <2> QED
      BY <1>1, <1>7, <2>1, LastIs
  <1>11. LastCI(L).nres >= -1 /\ LastCI(L).nres \in Int /\ \A l \in L.open : l < LastCI(L).base
    <2>1. Len(L.ci) \in 1 .. Len(L.ci)
      BY <1>9
    <2>2. /\ LastCI(L).func < LastCI(L).base /\ LastCI(L).nres >= -1
          /\ LastCI(L).func \in Int /\ LastCI(L).base \in Int /\ LastCI(L).nres \in Int
      BY <1>8, <2>1, Fields DEF Nested, LastCI
    <2>3. \A l \in L.open : l < LastCI(L).func /\ l \in Int
      BY <1>8, <1>10, OpenUnderC DEF Nested
    <2> QED
      BY <2>2, <2>3
  <1>12. PICK first : first = L.top - r
    OBVIOUS
  <1>13. /\ ThreadOK(L, Lim) /\ Len(L.ci) >= 2 /\ L.status = "ok" /\ LastCI(L).nres >= -1
         /\ (\A l \in L.open : l < LastCI(L).base) /\ first \in Int /\ first <= L.top
         /\ P = luaD_poscall(L, first)
    <2>1. L.top \in Int
      BY <1>8, Fields
    <2> QED
      BY <1>3, <1>8, <1>9, <1>11, <1>12, <2>1
  <1>14. /\ Popped(L, P) /\ ThreadOK(P, Lim) /\ P.ncc = L.ncc /\ LastCI(L).func <= P.top
         /\ LastCI(L).nres # -1 => P.top = LastCI(L).func + LastCI(L).nres
         /\ \A i \in 1 .. Len(P.ci) : P.ci[i] = L.ci[i]
    BY ONLY <1>13, PoscallPops
  <1>15. n - 1 \in 1 .. n /\ cs[n - 1].k \in {"call", "exec"} /\ cs[n - 1].th = t
    BY <1>2, <1>7, BelowTop DEF Above
  <1>16. CASE cs[n - 1].k = "call"
    <2>1. PICK x : x = cs[n - 1]
      OBVIOUS
    <2>2. PICK c : c = SubSeq(cs, 1, n - 1)
      OBVIOUS
    <2>3. Finish(t, P, c)
      BY <1>2, <1>6, <1>16, <2>2 DEF Below
    <2>4. /\ Good(st, cs, h, Lim) /\ Lies(st, cs, h) /\ cs # <<>> /\ Good(st', cs', g, Lim)
          /\ cs[n].k \in {"c", "exec"} /\ (cs[n].k = "exec" => cs[n].n = 1)
          /\ x.k = "call"
      BY <1>7, <1>16, <2>1
    <2> QED
      BY ONLY <1>1, <1>2, <1>7, <1>14, <2>1, <2>2, <2>3, <2>4, FinishCallLies
  <1>17. CASE cs[n - 1].k = "exec"
    <2>1. PICK m : m = n - 1
      OBVIOUS
    <2>2. st' = [st EXCEPT ![t] = Q] /\ cs' = SubSeq(cs, 1, m)
      BY <1>2, <1>6, <1>17, <2>1 DEF Become, Below
    <2>3. m \in Nat /\ m + 1 = n /\ m \in 0 .. Len(cs) /\ m \in 1 .. m
      BY <1>2, <1>7, <1>15, <2>1
    <2>4. Len(cs') = m /\ \A j \in 1 .. m : cs'[j] = cs[j]
      BY <1>7, <2>2, <2>3, Shorter
    <2>5. /\ Len(cs') \in 1 .. Len(cs') /\ m <= Len(cs') /\ cs'[Len(cs')].k = "exec"
          /\ cs'[Len(cs')].th = t
      BY <1>15, <1>17, <2>1, <2>3, <2>4
    <2>6. Q = IF LastCI(L).nres # LUA_MULTRET THEN [P EXCEPT !.top = LastCI(P).top] ELSE P
      BY <1>4, <1>11 DEF LUA_MULTRET
    <2>7. m \in 0 .. Len(cs) /\ cs[Len(cs)].k \in {"c", "exec"} /\ t = cs[Len(cs)].th
          /\ Good(st, cs, h, Lim) /\ Lies(st, cs, h) /\ cs # <<>> /\ Good(st', cs', g, Lim)
      BY <1>2, <1>7, <2>3
    <2>8. Len(P.ci) \in 1 .. Len(L.ci)
      <3>1. Len(P.ci) = Len(L.ci) - 1
        BY <1>14 DEF Popped
      <3> QED
        BY <1>9, <3>1
    <2>9. Fares(L, Q, cs, m, t)
      BY ONLY <1>1, <1>14, <2>2, <2>4, <2>5, <2>6, <2>7, <2>8, ToExec
    <2>10. /\ (\A j \in m + 1 .. Len(cs') : Plain(cs'[j]) /\ cs'[j].k \notin {"c", "exec"})
           /\ In(cs', t) /\ \A j \in m + 1 .. Len(cs) : cs[j].th = t
      <3>1. \A j \in m + 1 .. Len(cs) : j = n
        BY <1>2, <2>3
      <3>2. \A j \in m + 1 .. Len(cs') : FALSE
        BY <2>3, <2>4
      <3> QED
        BY <1>7, <2>5, <3>1, <3>2 DEF In
    <2>11. Fares(st[t], Q, cs, m, t)
      BY <1>1, <2>9
    <2> QED
      BY ONLY <1>8, <2>2, <2>4, <2>5, <2>7, <2>10, <2>11, LiesBack
  <1> QED
    BY <1>15, <1>16, <1>17

\* lua_yield: the resumer has the values, and the coroutine keeps its frames.
LEMMA YieldLies ==
    ASSUME NEW h, NEW g, Good(st, cs, h, Lim), Lies(st, cs, h), cs # <<>>,
           Good(st', cs', g, Lim), NEW t, NEW r \in Nat, lua_yield(t, r)
    PROVE  Lies(st', cs', g)
  <1>1. PICK L : L = st[t]
    OBVIOUS
  <1>2. PICK n : n = Len(cs)
    OBVIOUS
  <1>3. Running({"c", "hook"}, t) /\ r <= L.top - L.base
    BY <1>1 DEF lua_yield
  <1>4. /\ n \in Nat \ {0} /\ cs \in Seq(Act) /\ n \in 1 .. Len(cs) /\ t = cs[n].th
        /\ cs[n].k = "c" /\ t \in Thread /\ ThreadOK(L, Lim) /\ L.status = "ok" /\ Nested(L)
    <2>1. /\ n \in Nat \ {0} /\ cs \in Seq(Act)
      BY <1>2, Shape1
    <2>2. /\ t = cs[n].th /\ cs[n].k \in {"c", "hook"} \ {"hook"} /\ t \in Thread
          /\ ThreadOK(L, Lim) /\ L.status = "ok" /\ Nested(L)
      BY <1>1, <1>2, <1>3, TopEnds
    <2> QED
      BY <1>2, <2>1, <2>2
  <1>5. L.ncc \in Nat /\ L.top \in Int /\ L.base \in Int
    BY <1>4, Fields
  <1>6. CASE L.ncc > 0
    <2>1. lua_error(t)
      BY <1>1, <1>6 DEF lua_yield, lua_error
    <2> QED
      BY <2>1, ErrorLies
  <1>7. CASE L.ncc = 0
    <2>1. PICK v : v = L.top - r
      OBVIOUS
    <2>2. PICK i : i = n - 2
      OBVIOUS
    <2>3. PICK by : by = cs[i].by
      OBVIOUS
    <2>4. PICK M : M = [L EXCEPT !.status = "yield", !.base = v, !.top = v]
      OBVIOUS
    <2>5. PICK N : N = Receive(st[by], r)
      OBVIOUS
    <2>6. /\ cs[i].k = "resume" /\ cs[i].th = t /\ i \in 1 .. Len(cs)
      <3>1. Yieldable(st, cs, h)
        <4>1. cs[Len(cs)].k \in {"c", "hook"} /\ st[cs[Len(cs)].th].ncc = 0
          BY <1>1, <1>2, <1>4, <1>7
        <4> QED
          BY <4>1, YieldIs
      <3> QED
        BY <1>2, <1>4, <2>2, <3>1 DEF Yieldable
    <2>7. /\ i - 1 \in 1 .. Len(cs) /\ by \in Thread /\ by # t /\ st[by].status = "ok"
          /\ ThreadOK(st[by], Lim)
      BY <2>3, <2>6, ResumedBy
    <2>8. PICK m : m = i - 1
      OBVIOUS
    <2>9. m \in Nat /\ m = n - 3 /\ m \in 0 .. Len(cs)
      BY <1>2, <1>4, <2>2, <2>6, <2>7, <2>8
    <2>10. st' = [st EXCEPT ![t] = M, ![by] = N] /\ cs' = SubSeq(cs, 1, m)
      <3>1. /\ st' = [st EXCEPT ![t] = [L EXCEPT !.status = "yield", !.base = L.top - r,
                                                 !.top = L.top - r],
                                ![by] = Receive(@, r)]
            /\ cs' = SubSeq(cs, 1, n - 3)
        BY <1>1, <1>2, <1>4, <1>7, <2>2, <2>3 DEF lua_yield, Top
      <3>2. st = [u \in Thread |-> st[u]]
        BY DEF Good
      <3> QED
        BY <1>4, <2>1, <2>4, <2>5, <2>7, <2>9, <3>1, <3>2
    <2>11. Len(cs') = m /\ \A j \in 1 .. m : cs'[j] = cs[j]
      BY <1>4, <2>9, <2>10, Shorter
    <2>12. /\ M.ci = L.ci /\ M.open = L.open /\ M.base = v /\ M.top = v /\ M.status = "yield"
      BY <1>4, <2>4 DEF ThreadOK
    <2>13. ThreadOK(M, Lim)
      <3>1. st = [u \in Thread |-> st[u]] /\ \A u \in Thread : ThreadOK(st'[u], Lim)
        BY DEF Good
      <3>2. st'[t] = M
        BY <1>4, <2>7, <2>10, <3>1
      <3> QED
        BY <1>4, <3>1, <3>2
    <2>14. Len(L.ci) \in 1 .. Len(L.ci) /\ \A k \in 1 .. Len(L.ci) : L.ci[k].top \in Int
      BY <1>4, Fields
    <2>15. Nested(M)
      <3>1. LastCI(L) \notin LuaFrame
        <4>1. Ends(cs, n)
          BY <1>2 DEF Ends
        <4> QED
          BY <1>1, <1>4, <4>1, LastIs
      <3>2. LastCI(L).base <= LastCI(M).top /\ LastCI(L).base <= M.top
        <4>1. LastCI(L).base <= LastCI(L).top /\ LastCI(L).base = L.base
          BY <1>4, <2>14 DEF Nested, LastCI
        <4> QED
          BY <1>3, <1>5, <2>1, <2>12, <4>1 DEF LastCI
      <3>3. \A l \in M.open : Owns(L, Len(L.ci), l) => FALSE
        BY <3>1 DEF Owns, LastCI
      <3>4. /\ Len(M.ci) = Len(L.ci) /\ L.status # "none" /\ M.status # "ok"
            /\ M.open \subseteq L.open
            /\ \A k \in 1 .. Len(L.ci) : /\ SamePlace(L.ci[k], M.ci[k])
                                         /\ k < Len(L.ci) => L.ci[k].top <= M.ci[k].top
        BY <1>4, <2>12, <2>14 DEF SamePlace
      <3> QED
        BY <1>4, <2>13, <3>2, <3>3, <3>4, Adjusted
    <2>16. LiesIn(M) /\ (M.status = "ok" => Len(M.ci) = 1)
      BY <2>12, <2>15 DEF LiesIn
    <2>17. \A k \in 1 .. Len(st[t].ci) : k <= Len(M.ci) => M.ci[k].nres = st[t].ci[k].nres
      BY <1>1, <2>12
    <2>18. Rises(st[by], N) /\ st[by].status # "none"
      BY <2>5, <2>7, ReceiveRises
    <2>19. /\ Good(st, cs, h, Lim) /\ Lies(st, cs, h) /\ cs # <<>> /\ Good(st', cs', g, Lim)
           /\ t = cs[i].th /\ t = cs[Len(cs)].th
      BY <1>2, <1>4, <2>6
    <2> QED
      BY ONLY <2>6, <2>7, <2>8, <2>10, <2>11, <2>16, <2>17, <2>18, <2>19, LiesLeave
  <1> QED
    BY <1>5, <1>6, <1>7

------------------------------------------------------------------------------
(* Errors that are caught, or end a coroutine or the program *)

\* The main thread after an error that nothing caught.
LEMMA ResetNested ==
    ASSUME NEW L, NEW lim, ThreadOK(L, lim), L.status = "ok", Nested(L), NEW code \in Dead,
           NEW M, M = resetstack(L, code)
    PROVE  LiesIn(M)
  <1> DEFINE s == SubSeq(L.ci, 1, 1)
             b == L.ci[1].base
             K == [L EXCEPT !.status = code, !.ci = s, !.base = b, !.open = {},
                            !.top = b + 1, !.ncc = 0, !.hookok = TRUE, !.errfunc = 0]
  <1>1. M = restore_stack_limit(K)
    BY DEF resetstack
  <1>2. 1 \in 1 .. Len(L.ci) /\ 1 \in 0 .. Len(L.ci) /\ L.ci \in Seq(CI)
    BY Fields
  <1>3. s \in Seq(CI) /\ Len(s) = 1 /\ s[1] = L.ci[1]
    BY <1>2, Shorter
  <1>4. b = 1 /\ L.ci[1].func < 1 /\ 1 <= L.ci[1].top /\ L.ci[1].nres >= -1
    BY <1>2 DEF Nested
  <1> HIDE DEF s, b
  <1>5. /\ K = [status |-> code, top |-> b + 1, base |-> b, last |-> L.last, ci |-> s,
                sizeci |-> L.sizeci, ncc |-> 0, hookok |-> TRUE, errfunc |-> 0, open |-> {}]
    <2> DEFINE K1 == [L EXCEPT !.status = code, !.ci = s, !.base = b]
               K2 == [K1 EXCEPT !.open = {}, !.top = b + 1, !.ncc = 0]
    <2>1. K1 = [L EXCEPT !.status = code, !.ci = s, !.base = b]
      OBVIOUS
    <2>2. K2 = [K1 EXCEPT !.open = {}, !.top = b + 1, !.ncc = 0]
      OBVIOUS
    <2>3. K = [K2 EXCEPT !.hookok = TRUE, !.errfunc = 0]
      OBVIOUS
    <2> HIDE DEF K, K1, K2
    <2>4. K1 = [status |-> code, top |-> L.top, base |-> b, last |-> L.last, ci |-> s,
                sizeci |-> L.sizeci, ncc |-> L.ncc, hookok |-> L.hookok, errfunc |-> L.errfunc,
                open |-> L.open]
      BY <2>1 DEF ThreadOK
    <2>5. K2 = [status |-> code, top |-> b + 1, base |-> b, last |-> L.last, ci |-> s,
                sizeci |-> L.sizeci, ncc |-> 0, hookok |-> L.hookok, errfunc |-> L.errfunc,
                open |-> {}]
      BY <2>2, <2>4
    <2> QED
      BY <2>3, <2>5
  <1> HIDE DEF K
  <1>6. /\ M.status = code /\ M.ci = s /\ M.base = b /\ M.top = b + 1 /\ M.open = {}
    BY <1>1, <1>5 DEF restore_stack_limit
  <1>7. LastCI(M) = L.ci[1] /\ L.ci[1].base = 1
    BY <1>3, <1>4, <1>6 DEF LastCI, b
  <1>8. \A i \in 1 .. Len(M.ci) : i = 1 /\ \A k \in i + 1 .. Len(M.ci) : FALSE
    <2>1. Len(M.ci) = 1
      BY <1>3, <1>6
    <2>2. SUFFICES ASSUME NEW i \in 1 .. 1
                   PROVE  i = 1 /\ \A k \in i + 1 .. 1 : FALSE
      BY ONLY <2>1
    <2>3. i = 1
      BY ONLY <2>2
    <2>4. \A k \in 2 .. 1 : FALSE
      OBVIOUS
    <2> QED
      BY ONLY <2>3, <2>4
  <1>9. M.ci[1] = L.ci[1]
    BY <1>3, <1>6
  <1>10. Nested(M)
    BY <1>4, <1>6, <1>7, <1>8, <1>9 DEF Nested
  <1> QED
    BY <1>6, <1>10 DEF LiesIn, Dead

\* What luaD_pcall restores, after an error, of the frames L: those up to the one that called
\* lua_pcall.
Restored(L, p, M) ==
    /\ Nested(M) /\ M.status = "ok" /\ Len(M.ci) = p.ci
    /\ \A k \in 1 .. p.ci : SamePlace(L.ci[k], M.ci[k]) /\ L.ci[k].top <= M.ci[k].top

\* The variables of the frames that are cut are closed, and the others lie where they were.
LEMMA CaughtLays ==
    ASSUME NEW L, NEW lim, ThreadOK(L, lim), L.status = "ok", Nested(L), NEW p, p.top \in Int,
           p.ncc \in Nat, p.ncc <= lim, p.ci \in 1 .. Len(L.ci), p.hookok \in BOOLEAN,
           p.errfunc \in Int, Clear(L, p), NEW M, M = Caught(L, p)
    PROVE  Restored(L, p, M)
  <1> DEFINE C == luaF_close(L, p.top)
             v == p.top + 1
             s == SubSeq(C.ci, 1, p.ci)
             b == L.ci[p.ci].base
             K == [C EXCEPT !.top = v, !.ncc = p.ncc, !.ci = s, !.base = b,
                            !.hookok = p.hookok, !.errfunc = p.errfunc]
             R == restore_stack_limit(K)
  <1>1. M = adjustresults(R, LUA_MULTRET)
    BY DEF Caught
  <1>2. ThreadOK(C, lim) /\ C.ci = L.ci /\ C.status = "ok"
    <2>1. Moved(L, C)
      BY CloseMoves
    <2> QED
      BY <2>1, MovedKeeps DEF Moved
  <1>3. C.open = {l \in L.open : l < p.top}
    BY DEF luaF_close, ThreadOK
  <1> HIDE DEF C
  <1>4. /\ C.last \in Int /\ C.sizeci \in Nat /\ Len(C.ci) \in Nat /\ Len(C.ci) <= C.sizeci
        /\ C.sizeci <= 2 * LUAI_MAXCALLS /\ C.ci \in Seq(CI)
    BY <1>2, Fields DEF ThreadOK
  <1>5. /\ s \in Seq(CI) /\ Len(s) = p.ci /\ \A j \in 1 .. p.ci : s[j] = L.ci[j]
        /\ s # <<>> /\ Len(s) <= C.sizeci
    <2>1. p.ci \in 0 .. Len(C.ci)
      BY <1>2, <1>4
    <2>2. s \in Seq(CI) /\ Len(s) = p.ci /\ \A j \in 1 .. p.ci : s[j] = C.ci[j]
      BY <1>4, <2>1, Shorter
    <2> QED
      BY <1>2, <1>4, <2>1, <2>2
  <1>6. v \in Int /\ b \in Int /\ v = p.top + 1 /\ b = L.ci[p.ci].base
    BY Fields
  <1> HIDE DEF v, s, b
  <1>7. /\ K = [status |-> K.status, top |-> K.top, base |-> K.base, last |-> K.last,
                ci |-> K.ci, sizeci |-> K.sizeci, ncc |-> K.ncc, hookok |-> K.hookok,
                errfunc |-> K.errfunc, open |-> K.open]
        /\ K.status = "ok" /\ K.top = v /\ K.base = b /\ K.last = C.last /\ K.ci = s
        /\ K.sizeci = C.sizeci /\ K.ncc = p.ncc /\ K.hookok = p.hookok
        /\ K.errfunc = p.errfunc /\ K.open = C.open
    <2> DEFINE K1 == [C EXCEPT !.top = v, !.ncc = p.ncc, !.ci = s]
    <2>1. K1 = [C EXCEPT !.top = v, !.ncc = p.ncc, !.ci = s]
      OBVIOUS
    <2>2. K = [K1 EXCEPT !.base = b, !.hookok = p.hookok, !.errfunc = p.errfunc]
      OBVIOUS
    <2> HIDE DEF K, K1
    <2>3. /\ K1 = [status |-> K1.status, top |-> K1.top, base |-> K1.base, last |-> K1.last,
                   ci |-> K1.ci, sizeci |-> K1.sizeci, ncc |-> K1.ncc, hookok |-> K1.hookok,
                   errfunc |-> K1.errfunc, open |-> K1.open]
          /\ K1.status = "ok" /\ K1.top = v /\ K1.last = C.last /\ K1.ci = s
          /\ K1.sizeci = C.sizeci /\ K1.ncc = p.ncc /\ K1.open = C.open
      BY <1>2, <2>1 DEF ThreadOK
    <2> QED
      BY <2>2, <2>3
  <1> HIDE DEF K
  <1>8. ThreadOK(K, lim)
    BY <1>4, <1>5, <1>6, <1>7 DEF ThreadOK
  <1>9. /\ ThreadOK(R, lim) /\ R.status = "ok" /\ R.top = v /\ R.base = b /\ R.ci = s
        /\ R.open = C.open
    BY <1>7, <1>8, RestoreKeeps DEF restore_stack_limit
  <1> HIDE DEF R
  <1>10. Rises(R, M) /\ ThreadOK(M, lim)
    <2>1. R.status # "none"
      BY <1>9
    <2> QED
      BY <1>1, <1>9, <2>1, AdjustRises
  <1>11. PICK m : m = p.ci
    OBVIOUS
  <1>12. /\ m \in 1 .. Len(L.ci) /\ Len(L.ci) \in Nat /\ Len(R.ci) = m /\ L.open \subseteq Int
         /\ \A k \in 1 .. m : R.ci[k] = L.ci[k]
    BY <1>2, <1>4, <1>5, <1>9, <1>11 DEF Nested
  <1>13. \A k \in 1 .. m : SamePlace(L.ci[k], R.ci[k]) /\ L.ci[k].top <= R.ci[k].top
    <2>1. \A k \in 1 .. m : k \in 1 .. Len(L.ci)
      BY <1>12
    <2>2. \A k \in 1 .. Len(L.ci) : L.ci[k].top \in Int
      BY Fields
    <2> QED
      BY <1>12, <2>1, <2>2 DEF SamePlace
  <1>14. b <= p.top /\ b <= v /\ L.ci[m].base = b
    BY <1>6, <1>11 DEF Clear
  <1>15. R.open \subseteq L.open /\ \A l \in R.open : l \in Int /\ l < p.top /\ l < R.top
    BY <1>3, <1>6, <1>9, <1>12
  <1>16. Nested(R)
    <2>1. CASE m = Len(L.ci)
      <3>1. LastCI(L).base = b /\ LastCI(R) = LastCI(L)
        BY <1>12, <1>14, <2>1 DEF LastCI
      <3>2. LastCI(L).base <= LastCI(R).top /\ LastCI(L).base <= R.top
        BY <1>9, <1>12, <1>14, <2>1, <3>1 DEF Nested, LastCI
      <3>3. \A l \in R.open : Owns(L, Len(L.ci), l) => l < LastCI(R).top
        BY <3>1 DEF Owns, LastCI
      <3>4. /\ Len(R.ci) = Len(L.ci) /\ L.status # "none" /\ R.base = LastCI(L).base
            /\ \A k \in 1 .. Len(L.ci) : SamePlace(L.ci[k], R.ci[k]) /\ L.ci[k].top <= R.ci[k].top
        BY <1>9, <1>12, <1>13, <2>1, <3>1
      <3> QED
        BY <1>9, <1>15, <3>2, <3>3, <3>4, Adjusted
    <2>2. CASE m # Len(L.ci)
      <3>1. m + 1 \in 1 .. Len(L.ci) /\ m + 1 \in m + 1 .. Len(L.ci)
        BY ONLY <1>12, <2>2
      <3>2. /\ p.top <= L.ci[m + 1].func /\ L.ci[m + 1].func < L.ci[m + 1].base
            /\ L.ci[m + 1].func \in Int /\ L.ci[m + 1].base \in Int
        BY <1>11, <3>1, Fields DEF Clear, Nested
      <3>3. \A l \in R.open : l < L.ci[m + 1].base
        BY <1>15, <3>2
      <3>4. R.base = L.ci[m].base /\ R.base <= R.top
        BY <1>9, <1>14
      <3> QED
        BY <1>9, <1>12, <1>13, <1>15, <2>2, <3>3, <3>4, Cut
    <2> QED
      BY <2>1, <2>2
  <1>17. Nested(M)
    BY <1>9, <1>10, <1>16, Risen
  <1>18. M.status = "ok" /\ Len(M.ci) = m
    BY <1>9, <1>10, <1>12 DEF Rises
  <1>19. \A k \in 1 .. m : SamePlace(L.ci[k], M.ci[k]) /\ L.ci[k].top <= M.ci[k].top
    BY <1>10, <1>12 DEF Rises
  <1> QED
    BY <1>11, <1>17, <1>18, <1>19 DEF Restored

\* luaD_pcall goes on after an error: what other lua_pcalls saved is below its frame.
LEMMA RescueLies ==
    ASSUME NEW h, NEW g, Good(st, cs, h, Lim), Lies(st, cs, h), cs # <<>>,
           Good(st', cs', g, Lim), NEW i \in 1 .. Len(cs), NEW p, p = cs[i], p.k = "pcall",
           NEW t, t = p.th, t = cs[Len(cs)].th, NEW M, M = Caught(st[t], p),
           st' = [st EXCEPT ![t] = M], cs' = SubSeq(cs, 1, i - 1)
    PROVE  Lies(st', cs', g)
  <1>1. PICK L : L = st[t]
    OBVIOUS
  <1>2. /\ t \in Thread /\ ThreadOK(L, Lim) /\ L.status = "ok" /\ p \in Act /\ h[i] \in Mark
        /\ Len(cs) \in Nat /\ cs \in Seq(Act)
    BY <1>1, AtTop, Shape1
  <1>3. p.ncc = h[i].calls /\ h[i].calls <= Lim /\ p.ci \in 1 .. Len(L.ci)
    <2>1. p.ncc = h[i].calls /\ h[i].calls <= Lim
      BY DEF Good, Struct, Saved, Limited
    <2>2. cs[i].ci \in 1 .. Len(st[cs[i].th].ci)
      BY PcallFrame
    <2>3. p.ci = cs[i].ci /\ L = st[cs[i].th]
      BY <1>1
    <2> QED
      BY ONLY <2>1, <2>2, <2>3
  <1>4. /\ p.top \in Int /\ p.ncc \in Nat /\ p.ci \in Nat /\ p.hookok \in BOOLEAN
        /\ p.errfunc \in Int
    BY <1>2, PcallFacts
  <1>5. Nested(L) /\ Clear(L, p)
    BY <1>1, <1>2 DEF Lies, LiesIn, Placed
  <1>6. Restored(L, p, M)
    BY <1>1, <1>2, <1>3, <1>4, <1>5, CaughtLays
  <1>7. PICK m : m = i - 1
    OBVIOUS
  <1>8. m \in 1 .. Len(cs) /\ cs[m].th = t /\ cs[m].k \in {"c", "host"}
    <2>1. ~Starts(cs[i])
      BY DEF Starts
    <2>2. m \in 1 .. Len(cs) /\ cs[m].th = t
      <3>9. Good(st, cs, h, Lim) /\ i \in 1 .. Len(cs) /\ ~Starts(cs[i])
        BY <2>1
      <3>1. i - 1 \in 1 .. Len(cs) /\ cs[i - 1].th = cs[i].th
        BY ONLY <3>9, Earlier
      <3> QED
        BY <1>7, <3>1
    <2>3. i \in 2 .. Len(cs) /\ i - 1 = m
      BY <1>2, <1>7, <2>2
    <2>4. Above(cs[m], cs[i])
      BY <2>3 DEF Good, Struct, Shaped
    <2>5. cs[m].k # "hook"
      BY <2>2 DEF Lies, Placed
    <2> QED
      BY <2>2, <2>4, <2>5 DEF Above
  <1>9. m \in 0 .. Len(cs) /\ m \in Nat /\ i = m + 1 /\ \A j \in 1 .. m : j \in 1 .. Len(cs)
    BY <1>2, <1>7, <1>8
  <1>10. Len(cs') = m /\ \A j \in 1 .. m : cs'[j] = cs[j]
    BY <1>2, <1>7, <1>9, Shorter
  <1>11. \A j \in m + 1 .. Len(cs) : cs[j].th = t
    BY <1>9, Contiguous
  <1>12. In(cs', t)
    <2>1. m \in 1 .. m
      BY <1>8, <1>9
    <2> QED
      BY <1>8, <1>10, <2>1 DEF In
  <1>13. Fares(L, M, cs, m, t)
    <2>1. LiesIn(M)
      BY <1>6 DEF Restored, LiesIn
    <2>2. \A k \in 1 .. Len(L.ci) : k <= Len(M.ci) => M.ci[k].nres = L.ci[k].nres
      <3>1. \A k \in 1 .. Len(L.ci) : k <= p.ci => k \in 1 .. p.ci
        BY <1>4
      <3> QED
        BY <1>6, <3>1 DEF Restored, SamePlace
    <2>3. ASSUME NEW j \in 1 .. m, cs[j].k = "pcall", cs[j].th = t
          PROVE  Clear(M, cs[j])
      <3>1. PICK q : q = cs[j]
        OBVIOUS
      <3>2. j \in 1 .. Len(cs)
        BY <1>9
      <3>3. q.ci \in 1 .. Len(L.ci) /\ Clear(L, q)
        BY <1>1, <2>3, <3>1, <3>2, PcallFrame DEF Lies, Placed
      <3>4. q.ci < p.ci
        <4>1. m \in 1 .. m /\ m \in 1 .. Len(cs') /\ j \in 1 .. Len(cs') /\ cs'[m] = cs[m]
              /\ cs'[j] = q
          BY <1>8, <1>9, <1>10, <3>1
        <4>2. Ends(cs', m)
          BY <1>10 DEF Ends
        <4>3. q.ci < Len(st'[t].ci)
          <5>1. /\ Good(st', cs', g, Lim) /\ m \in 1 .. Len(cs') /\ Ends(cs', m)
                /\ cs'[m].k \in {"c", "exec", "host"} /\ j \in 1 .. Len(cs')
                /\ cs'[j].k = "pcall" /\ cs'[j].th = cs'[m].th
            BY <1>8, <2>3, <3>1, <4>1, <4>2
          <5>2. cs'[j].ci < Len(st'[cs'[m].th].ci)
            BY ONLY <5>1, PcallBelow
          <5> QED
            BY <1>8, <4>1, <5>2
        <4>4. st'[t] = M
          BY <1>2 DEF Good
        <4> QED
          BY <1>6, <4>3, <4>4 DEF Restored
      <3>5. PICK a : a = q.ci
        OBVIOUS
      <3>6. PICK b : b = p.ci
        OBVIOUS
      <3>7. a \in Nat /\ b \in Nat /\ a < b /\ a >= 1 /\ b <= Len(L.ci) /\ Len(L.ci) \in Nat
        BY <1>2, <1>3, <3>3, <3>4, <3>5, <3>6, Fields
      <3>8. a \in 1 .. b /\ \A k \in a + 1 .. b : k \in 1 .. b /\ k \in a + 1 .. Len(L.ci)
        BY ONLY <3>7
      <3>9. /\ Len(M.ci) = b
            /\ \A k \in 1 .. b : M.ci[k].base = L.ci[k].base /\ M.ci[k].func = L.ci[k].func
        BY <1>6, <3>6 DEF Restored, SamePlace
      <3>10. a # Len(M.ci)
        BY <3>7, <3>9
      <3> QED
        BY <3>1, <3>3, <3>5, <3>8, <3>9, <3>10 DEF Clear
    <2> QED
      BY <2>1, <2>2, <2>3 DEF Fares
  <1>14. Good(st, cs, h, Lim) /\ Lies(st, cs, h) /\ cs # <<>> /\ Good(st', cs', g, Lim)
    OBVIOUS
  <1>15. /\ m <= Len(cs') /\ (M.status = "ok" => In(cs', t))
         /\ \A j \in m + 1 .. Len(cs') : Plain(cs'[j]) /\ cs'[j].k \notin {"c", "exec"}
    BY <1>9, <1>10, <1>12
  <1> QED
    BY <1>1, <1>2, <1>9, <1>10, <1>11, <1>13, <1>14, <1>15, LiesBack

\* A coroutine ends with an error that none of its lua_pcalls catches.
LEMMA PassOnLies ==
    ASSUME NEW h, NEW g, Good(st, cs, h, Lim), Lies(st, cs, h), cs # <<>>,
           Good(st', cs', g, Lim), NEW i \in 1 .. Len(cs), cs[i].k = "resume",
           NEW t, t = cs[i].th, t = cs[Len(cs)].th, NEW code \in Dead,
           NEW by, by = cs[i].by, NEW n, n = Len(st[t].ci), NEW v, v = st[t].top + 1,
           PassedOn(st', t, code, n, v, by), cs' = SubSeq(cs, 1, i - 1)
    PROVE  Lies(st', cs', g)
  <1>1. PICK L : L = st[t]
    OBVIOUS
  <1>2. /\ t \in Thread /\ ThreadOK(L, Lim) /\ L.status = "ok" /\ Nested(L)
        /\ Len(cs) \in Nat /\ cs \in Seq(Act)
    <2>1. /\ t \in Thread /\ ThreadOK(L, Lim) /\ L.status = "ok"
          /\ Len(cs) \in Nat /\ cs \in Seq(Act)
      <3>1. PICK x : x = cs[Len(cs)]
        OBVIOUS
      <3>2. Good(st, cs, h, Lim) /\ cs # <<>> /\ x = cs[Len(cs)] /\ t = x.th
        BY <3>1
      <3>3. t \in Thread /\ ThreadOK(st[t], Lim) /\ st[t].status = "ok"
        BY ONLY <3>2, AtTop
      <3>4. Len(cs) \in Nat /\ cs \in Seq(Act)
        BY ONLY <3>2, Shape1
      <3> QED
        BY <1>1, <3>3, <3>4
    <2>2. Nested(L)
      BY <1>1, <2>1 DEF Lies, LiesIn
    <2> QED
      BY <2>1, <2>2
  <1>3. /\ i - 1 \in 1 .. Len(cs) /\ by \in Thread /\ by # t /\ st[by].status = "ok"
        /\ ThreadOK(st[by], Lim)
    <2>1. /\ i - 1 \in 1 .. Len(cs) /\ cs[i].by \in Thread /\ cs[i].by # cs[i].th
          /\ st[cs[i].by].status = "ok" /\ ThreadOK(st[cs[i].by], Lim)
      <3>1. Good(st, cs, h, Lim) /\ i \in 1 .. Len(cs) /\ cs[i].k = "resume"
        OBVIOUS
      <3> QED
        BY ONLY <3>1, ResumedBy
    <2>2. by = cs[i].by /\ t = cs[i].th
      OBVIOUS
    <2> QED
      BY ONLY <2>1, <2>2
  <1>4. PICK m : m = i - 1
    OBVIOUS
  <1>5. m \in Nat /\ m \in 0 .. Len(cs)
    BY <1>2, <1>3, <1>4
  <1>6. Len(cs') = m /\ \A j \in 1 .. m : cs'[j] = cs[j]
    BY <1>2, <1>4, <1>5, Shorter
  <1>7. v \in Int /\ L.top \in Int /\ v = L.top + 1 /\ st[by].top \in Int
        /\ Len(L.ci) \in 1 .. Len(L.ci) /\ n = Len(L.ci)
    <2>1. L.top \in Int /\ Len(L.ci) \in 1 .. Len(L.ci)
      <3>1. L.status # "none"
        BY <1>2
      <3> QED
        BY ONLY <1>2, <3>1, Fields
    <2>2. st[by].top \in Int
      BY ONLY <1>3, Fields
    <2>3. n = Len(st[t].ci) /\ v = st[t].top + 1
      OBVIOUS
    <2> QED
      BY ONLY <1>1, <2>1, <2>2, <2>3
  <1>8. PICK f : f = [L.ci[n] EXCEPT !.top = v]
    OBVIOUS
  <1>9. PICK s : s = [L.ci EXCEPT ![n] = f]
    OBVIOUS
  <1>10. PICK M : M = [L EXCEPT !.status = code, !.ci = s]
    OBVIOUS
  <1>11. PICK w : w = st[by].top + 1
    OBVIOUS
  <1>12. PICK N : N = [st[by] EXCEPT !.top = w]
    OBVIOUS
  <1>13. st' = [st EXCEPT ![t] = M, ![by] = N]
    <2>1. M = [L EXCEPT !.status = code, !.ci[n].top = v]
      BY <1>2, <1>8, <1>9, <1>10 DEF ThreadOK
    <2>2. st' = [st EXCEPT ![t] = M, ![by].top = @ + 1]
      BY <1>1, <2>1 DEF PassedOn
    <2>3. st = [u \in Thread |-> st[u]]
      BY DEF Good
    <2> QED
      BY <1>2, <1>3, <1>11, <1>12, <2>2, <2>3
  <1>14. ThreadOK(M, Lim)
    <2>1. st = [u \in Thread |-> st[u]] /\ \A u \in Thread : ThreadOK(st'[u], Lim)
      BY DEF Good
    <2>2. st'[t] = M
      BY <1>2, <1>3, <1>13, <2>1
    <2> QED
      BY <1>2, <2>1, <2>2
  <1>15. /\ M.ci = s /\ M.top = L.top /\ M.open = L.open /\ M.status = code
    BY <1>2, <1>10 DEF ThreadOK
  <1>16. L.ci \in Seq(CI) /\ (\A k \in 1 .. Len(L.ci) : L.ci[k] \in CI) /\ L.ci[n] \in CI
    BY <1>2, <1>7, Fields
  <1>17. f \in CI /\ f.top = v /\ SamePlace(L.ci[n], f)
    <2>1. /\ f \in CI /\ f.top = v /\ f.func = L.ci[n].func /\ f.base = L.ci[n].base
          /\ f.nres = L.ci[n].nres /\ f.fn = L.ci[n].fn
      BY <1>7, <1>8, <1>16 DEF CI
    <2> QED
      BY <1>16, <2>1 DEF SamePlace, LuaFrame
  <1>18. Len(M.ci) = Len(L.ci) /\ \A k \in 1 .. Len(L.ci) : M.ci[k] = IF k = n THEN f ELSE L.ci[k]
    BY <1>7, <1>9, <1>17, <1>15, <1>16
  <1>19. /\ LastCI(L) \in CI /\ LastCI(L) = L.ci[n] /\ LastCI(M) = f /\ LastCI(M).top = v
         /\ SamePlace(LastCI(L), LastCI(M))
    BY <1>7, <1>17, <1>16, <1>18 DEF LastCI
  <1>20. Nested(M)
    <2>1. \A k \in 1 .. Len(L.ci) : /\ SamePlace(L.ci[k], M.ci[k])
                                    /\ k < Len(L.ci) => L.ci[k].top <= M.ci[k].top
      <3>1. ASSUME NEW k \in 1 .. Len(L.ci)
            PROVE  /\ SamePlace(L.ci[k], M.ci[k])
                   /\ k < Len(L.ci) => L.ci[k].top <= M.ci[k].top
        <4>1. CASE k = n
          <5>1. M.ci[k] = f /\ ~(k < Len(L.ci))
            BY <1>7, <1>18, <4>1
          <5> QED
            BY ONLY <1>17, <4>1, <5>1
        <4>2. CASE k # n
          <5>1. M.ci[k] = L.ci[k] /\ L.ci[k].top \in Int
            BY <1>2, <1>18, <4>2, Fields
          <5> QED
            BY <5>1 DEF SamePlace
        <4> QED
          BY <4>1, <4>2
      <3> QED
        BY <3>1
    <2>2. LastCI(L).base <= LastCI(M).top /\ LastCI(L).base <= M.top
      <3>1. LastCI(L).base <= L.top /\ LastCI(L).base \in Int
        BY <1>2, <1>19, Fields DEF Nested, CI
      <3> QED
        BY <1>7, <1>15, <1>19, <3>1
    <2>3. \A l \in L.open : l \in Int /\ l < L.top
      BY <1>2, OpenBelow
    <2>4. \A l \in M.open : l < LastCI(M).top /\ M.status \in Dead
      BY <1>7, <1>15, <1>19, <2>3
    <2>5. L.status # "none" /\ M.status # "ok"
      BY <1>2, <1>15 DEF Dead
    <2> QED
      BY <1>2, <1>14, <1>15, <1>18, <2>1, <2>2, <2>4, <2>5, Adjusted
  <1>21. LiesIn(M) /\ (M.status = "ok" => Len(M.ci) = 1)
    BY <1>15, <1>20 DEF LiesIn, Dead
  <1>22. \A k \in 1 .. Len(st[t].ci) : k <= Len(M.ci) => M.ci[k].nres = st[t].ci[k].nres
    <2>1. ASSUME NEW k \in 1 .. Len(L.ci)
          PROVE  M.ci[k].nres = L.ci[k].nres
      <3>1. CASE k = n
        BY <1>17, <1>18, <3>1 DEF SamePlace
      <3>2. CASE k # n
        BY <1>18, <3>2
      <3> QED
        BY <3>1, <3>2
    <2> QED
      BY <1>1, <2>1
  <1>23. Rises(st[by], N) /\ st[by].status # "none"
    <2>1. w \in Int /\ st[by].top <= w
      BY ONLY <1>7, <1>11
    <2> QED
      BY <1>3, <1>12, <2>1, TopRises
  <1>24. Good(st, cs, h, Lim) /\ Lies(st, cs, h) /\ cs # <<>> /\ Good(st', cs', g, Lim)
    OBVIOUS
  <1>25. i \in 1 .. Len(cs) /\ cs[i].k = "resume" /\ t = cs[i].th /\ t = cs[Len(cs)].th
    OBVIOUS
  <1> QED
    BY ONLY <1>3, <1>4, <1>6, <1>13, <1>21, <1>22, <1>23, <1>24, <1>25, LiesLeave

\* luaD_throw: the error is caught, ends its coroutine or ends the program.
LEMMA ThrowLies ==
    ASSUME NEW h, NEW g, Good(st, cs, h, Lim), Lies(st, cs, h), cs # <<>>,
           Good(st', cs', g, Lim), luaD_throw
    PROVE  Lies(st', cs', g)
  <1>1. PICK m : m = Len(cs)
    OBVIOUS
  <1>2. PICK t : t = cs[m].th
    OBVIOUS
  <1>3. PICK code : code = cs[m].code
    OBVIOUS
  <1>4. PICK C : C = Catchers(t)
    OBVIOUS
  <1>5. PICK i : i = CHOOSE a \in C : \A b \in C : b <= a
    OBVIOUS
  <1>6. PICK n : n = Len(st[t].ci)
    OBVIOUS
  <1>7. PICK v : v = st[t].top + 1
    OBVIOUS
  <1>8. PICK by : by = cs[i].by
    OBVIOUS
  <1>9. /\ cs[m].k = "throw"
        /\ C = {} => st' = [st EXCEPT ![t] = resetstack(st[t], code)] /\ cs' = <<>>
        /\ C # {} =>
             /\ cs' = SubSeq(cs, 1, i - 1)
             /\ cs[i].k = "pcall" => st' = [st EXCEPT ![t] = Caught(st[t], cs[i])]
             /\ cs[i].k # "pcall" =>
                  st' = [st EXCEPT ![t] = [st[t] EXCEPT !.status = code, !.ci[n].top = v],
                                   ![by].top = @ + 1]
    BY <1>1, <1>2, <1>3, <1>4, <1>5, <1>6, <1>7, <1>8, ZenonT(60) DEF luaD_throw, Top
  <1>10. /\ m \in Nat \ {0} /\ cs[m] \in Act /\ t \in Thread /\ cs \in Seq(Act)
         /\ ThreadOK(st[t], Lim) /\ st[t].status = "ok"
    BY <1>1, <1>2, AtTop, Shape1
  <1>11. code \in Dead
    BY <1>3, <1>9, <1>10, ActFacts
  <1>12. C = {j \in 1 .. m : cs[j].k \in {"pcall", "resume"} /\ cs[j].th = t}
    BY <1>1, <1>4, <1>10 DEF Catchers
  <1>13. CASE C = {}
    <2>1. PICK M : M = resetstack(st[t], code)
      OBVIOUS
    <2>2. st' = [st EXCEPT ![t] = M] /\ cs' = <<>>
      BY <1>9, <1>13, <2>1
    <2>3. Nested(st[t])
      BY <1>10 DEF Lies, LiesIn
    <2>4. LiesIn(M)
      BY <1>10, <1>11, <2>1, <2>3, ResetNested
    <2>5. \A u \in Thread : LiesIn(st'[u])
      BY <2>2, <2>4 DEF Good, Lies
    <2>6. Waits(st', cs') /\ Len(cs') = 0
      BY <2>2 DEF Waits
    <2> QED
      BY <2>5, <2>6 DEF Lies
  <1>14. CASE C # {}
    <2>1. i \in C
      <3>1. C \in SUBSET (1 .. m) /\ m \in Nat
        BY <1>10, <1>12
      <3>2. \E a \in C : \A b \in C : b <= a
        BY <1>14, <3>1, Greatest
      <3> QED
        BY <1>5, <3>2
    <2>2. i \in 1 .. Len(cs) /\ cs[i].k \in {"pcall", "resume"} /\ cs[i].th = t
      BY <1>1, <1>12, <2>1
    <2>3. CASE cs[i].k = "pcall"
      <3>1. PICK p : p = cs[i]
        OBVIOUS
      <3>2. PICK M : M = Caught(st[t], p)
        OBVIOUS
      <3>3. /\ i \in 1 .. Len(cs) /\ p = cs[i] /\ p.k = "pcall" /\ t = p.th
            /\ t = cs[Len(cs)].th /\ M = Caught(st[t], p)
            /\ st' = [st EXCEPT ![t] = M] /\ cs' = SubSeq(cs, 1, i - 1)
        BY <1>1, <1>2, <1>9, <1>14, <2>2, <2>3, <3>1, <3>2
      <3>4. Good(st, cs, h, Lim) /\ Lies(st, cs, h) /\ cs # <<>> /\ Good(st', cs', g, Lim)
        OBVIOUS
      <3> QED
        BY ONLY <3>3, <3>4, RescueLies
    <2>4. CASE cs[i].k = "resume"
      <3>1. PassedOn(st', t, code, n, v, by)
        BY <1>9, <1>14, <2>4 DEF PassedOn
      <3>2. /\ i \in 1 .. Len(cs) /\ cs[i].k = "resume" /\ t = cs[i].th
            /\ t = cs[Len(cs)].th /\ by = cs[i].by /\ n = Len(st[t].ci) /\ v = st[t].top + 1
            /\ cs' = SubSeq(cs, 1, i - 1) /\ code \in Dead
        BY <1>1, <1>2, <1>6, <1>7, <1>8, <1>9, <1>11, <1>14, <2>2, <2>4
      <3>3. Good(st, cs, h, Lim) /\ Lies(st, cs, h) /\ cs # <<>> /\ Good(st', cs', g, Lim)
        OBVIOUS
      <3> QED
        BY ONLY <3>1, <3>2, <3>3, PassOnLies
    <2> QED
      BY <2>2, <2>3, <2>4
  <1> QED
    BY <1>13, <1>14

------------------------------------------------------------------------------
(* Every step *)

\* Calls from C and from a metamethod.
LEMMA CallsLies ==
    ASSUME NEW h, NEW g, world \in Worlds, Good(st, cs, h, Lim), Lies(st, cs, h), cs # <<>>,
           Good(st', cs', g, Lim), NEW th, Call(th)
    PROVE  Lies(st', cs', g)
  <1>1. PICK f \in world.fn, n \in Args :
          \/ \E co \in world.co : CoResume(th, co, f, n)
          \/ \E w \in world.want : lua_call(th, f, n, w)
          \/ \E handler \in BOOLEAN : lua_pcall(th, f, n, handler)
          \/ CallTM(th, f)
    BY DEF Call
  <1>2. f \in Fn /\ n \in Nat /\ \A w \in world.want : w \in Int /\ w >= -1
    <2>1. world \in Worlds /\ f \in world.fn /\ n \in Args
      BY <1>1
    <2>2. /\ world.fn \subseteq Fn /\ world.want \subseteq Nat \cup {LUA_MULTRET}
          /\ Args \subseteq Nat
      BY ONLY <2>1, StackAssumption
    <2> QED
      BY ONLY <2>1, <2>2 DEF LUA_MULTRET
  <1>3. ASSUME NEW co \in world.co, CoResume(th, co, f, n)
        PROVE  Lies(st', cs', g)
    <2>1. co \in Thread
      BY WorldIs
    <2>2. CASE Startable(co)
      BY <1>2, <1>3, <2>1, <2>2, StartLies
    <2>3. CASE ~Startable(co)
      BY <1>2, <1>3, <2>1, <2>3, ResumedLies
    <2> QED
      BY <2>2, <2>3
  <1>4. ASSUME NEW w \in world.want, lua_call(th, f, n, w)
        PROVE  Lies(st', cs', g)
    <2>1. w \in Int /\ w >= -1
      BY <1>2
    <2> QED
      BY <1>2, <1>4, <2>1, LuaCallLies
  <1>5. ASSUME NEW handler \in BOOLEAN, lua_pcall(th, f, n, handler)
        PROVE  Lies(st', cs', g)
    BY <1>2, <1>5, PcallLies
  <1>6. CASE CallTM(th, f)
    BY <1>2, <1>6, CallTMLies
  <1> QED
    BY <1>1, <1>3, <1>4, <1>5, <1>6

\* The steps of the thread that runs, when no hook is set.
LEMMA StepLies ==
    ASSUME NEW h, NEW g, world \in Worlds, ~world.hook, Good(st, cs, h, Lim), Lies(st, cs, h),
           cs # <<>>, Good(st', cs', g, Lim), NEW th, th \in Thread, Step(th)
    PROVE  Lies(st', cs', g)
  <1>1. \/ Call(th)
        \/ \E f \in world.fn, n \in Args :
             (\E w \in world.want : OpCall(th, f, n, w)) \/ OpTailCall(th, f, n)
        \/ \E n \in world.give : OpReturn(th, n) \/ CReturn(th, n) \/ lua_yield(th, n)
        \/ \E level \in 0 .. LUA_MINSTACK : Capture(th, st[th].base + level)
        \/ \E n \in world.room : Reserve(th, n)
        \/ OpSetList(th) \/ OpError(th) \/ lua_error(th) \/ Hook(th)
        \/ \E co \in world.co : CoCreate(th, co) \/ BadResume(th, co)
        \/ lua_settop(th)
    BY DEF Step
  <1>2. CASE Call(th)
    BY <1>2, CallsLies
  <1>3. ASSUME NEW f \in world.fn, NEW n \in Args,
               (\E w \in world.want : OpCall(th, f, n, w)) \/ OpTailCall(th, f, n)
        PROVE  Lies(st', cs', g)
    <2>1. f \in Fn /\ n \in Nat /\ \A w \in world.want : w \in Int /\ w >= -1
      BY StackAssumption DEF LUA_MULTRET
    <2>2. ASSUME NEW w \in world.want, OpCall(th, f, n, w)
          PROVE  Lies(st', cs', g)
      <3>1. w \in Int /\ w >= -1
        BY <2>1
      <3> QED
        BY <2>1, <2>2, <3>1, OpCallLies
    <2>3. CASE OpTailCall(th, f, n)
      BY <2>1, <2>3, OpTailCallLies
    <2> QED
      BY <1>3, <2>2, <2>3
  <1>4. ASSUME NEW n \in world.give, OpReturn(th, n) \/ CReturn(th, n) \/ lua_yield(th, n)
        PROVE  Lies(st', cs', g)
    <2>1. n \in Nat
      BY StackAssumption
    <2>2. CASE OpReturn(th, n)
      BY <2>1, <2>2, OpReturnLies
    <2>3. CASE CReturn(th, n)
      BY <2>1, <2>3, CReturnLies
    <2>4. CASE lua_yield(th, n)
      BY <2>1, <2>4, YieldLies
    <2> QED
      BY <1>4, <2>2, <2>3, <2>4
  <1>5. ASSUME NEW level \in 0 .. LUA_MINSTACK, Capture(th, st[th].base + level)
        PROVE  Lies(st', cs', g)
    <2>1. ThreadOK(st[th], Lim)
      BY DEF Good
    <2>2. st[th].base \in Int /\ level \in Int
      BY <2>1, Fields
    <2>3. PICK place : place = st[th].base + level
      OBVIOUS
    <2>4. place \in Int /\ Capture(th, place)
      BY <1>5, <2>2, <2>3
    <2> QED
      BY <2>4, CaptureLies
  <1>6. ASSUME NEW n \in world.room, Reserve(th, n)
        PROVE  Lies(st', cs', g)
    <2>1. n \in Int
      BY WorldIs
    <2> QED
      BY <1>6, <2>1, ReserveLies
  <1>7. CASE OpSetList(th)
    BY <1>7, OpSetListLies
  <1>8. CASE OpError(th) \/ lua_error(th)
    BY <1>8, ErrorLies
  <1>9. CASE lua_settop(th)
    BY <1>9, SettopLies
  <1>10. ~Hook(th)
    BY DEF Hook
  <1>11. ASSUME NEW co \in world.co, CoCreate(th, co) \/ BadResume(th, co)
         PROVE  Lies(st', cs', g)
    <2>1. co \in Thread
      BY WorldIs
    <2>2. CASE CoCreate(th, co)
      BY <2>1, <2>2, CoCreateLies
    <2>3. CASE BadResume(th, co)
      BY <2>1, <2>3, BadResumeLies
    <2> QED
      BY <1>11, <2>2, <2>3
  <1> QED
    BY <1>1, <1>2, <1>3, <1>4, <1>5, <1>6, <1>7, <1>8, <1>9, <1>10, <1>11

\* The frames of every thread lie as they should, when no hook is set.
LaidOut == \E h : Good(st, cs, h, Lim) /\ Lies(st, cs, h)
FInv == IInv /\ (~world.hook => LaidOut)

\* At the start there is the frame of the host program.
LEMMA InitLies == Init => FInv
  <1> SUFFICES ASSUME Init PROVE FInv
    OBVIOUS
  <1>1. IInv
    BY InitInv
  <1>2. PICK h : Good(st, cs, h, Lim)
    BY <1>1 DEF IInv, Ok
  <1>3. /\ cs = <<[k |-> "host", th |-> Main]>>
        /\ st = [th \in Thread |-> IF th = Main THEN stack_init ELSE Never]
    BY DEF Init
  <1>4. Len(cs) = 1 /\ cs[1].k = "host" /\ cs[1].th = Main
    BY <1>3
  <1>5. Nested(stack_init)
    <2>1. PICK f : f = stack_init.ci[1]
      OBVIOUS
    <2>2. /\ stack_init.status = "ok" /\ stack_init.top = 1 /\ stack_init.base = 1
          /\ stack_init.open = {} /\ Len(stack_init.ci) = 1
          /\ f.func = 0 /\ f.base = 1 /\ f.top = 1 + LUA_MINSTACK /\ f.nres = 0
      BY <2>1 DEF stack_init
    <2>3. \A i \in 1 .. 1 : i = 1
      OBVIOUS
    <2>4. \A k \in 1 + 1 .. 1 : FALSE
      OBVIOUS
    <2>5. LUA_MINSTACK \in Nat
      BY Consts
    <2>6. f.func < f.base /\ f.base <= f.top /\ f.nres >= -1
      BY <2>2, <2>5
    <2>7. LastCI(stack_init) = f
      BY <2>1, <2>2 DEF LastCI
    <2> QED
      BY <2>1, <2>2, <2>3, <2>4, <2>6, <2>7 DEF Nested
  <1>6. \A t \in Thread : LiesIn(st[t])
    BY <1>3, <1>5 DEF LiesIn, Never, stack_init
  <1>7. Waits(st, cs)
    <2>1. In(cs, Main)
      BY <1>4 DEF In
    <2>2. \A t \in Thread : t # Main => st[t].status = "none"
      BY <1>3 DEF Never
    <2> QED
      BY <2>1, <2>2 DEF Waits
  <1>8. \A j \in 1 .. Len(cs) : Placed(st, cs, h, j)
    BY <1>4 DEF Placed
  <1> QED
    BY <1>1, <1>2, <1>6, <1>7, <1>8 DEF FInv, LaidOut, Lies

\* Every step of a program without a hook leaves the frames so.
LEMMA NextLies == FInv /\ [Next]_vars => FInv'
  <1> SUFFICES ASSUME FInv, [Next]_vars PROVE FInv'
    OBVIOUS
  <1>1. IInv'
    BY NextInv DEF FInv
  <1>2. CASE UNCHANGED vars
    BY <1>1, <1>2 DEF FInv, LaidOut, vars, Lim, LUAI_MAXCCALLS
  <1>3. CASE Next
    <2>1. world \in Worlds /\ cs # <<>> /\ world' = world /\ Lim' = Lim
      BY <1>3 DEF FInv, IInv, Next, Lim, LUAI_MAXCCALLS
    <2>2. SUFFICES ASSUME ~world.hook
                   PROVE  LaidOut'
      BY <1>1, <2>1 DEF FInv
    <2>3. PICK h : Good(st, cs, h, Lim) /\ Lies(st, cs, h)
      BY <2>2 DEF FInv, LaidOut
    <2>4. PICK g : Good(st', cs', g, Lim)
      BY <1>1, <2>1 DEF IInv, Ok
    <2>5. Lies(st', cs', g)
      <3>1. \/ Step(Top.th)
            \/ \E f \in world.fn : luaG_runerror(f)
            \/ luaD_throw
            \/ \E th \in Thread : Shrink(th)
        BY <1>3 DEF Next
      <3>2. CASE Step(Top.th)
        <4>1. PICK th : th = Top.th
          OBVIOUS
        <4>2. th \in Thread
          BY <2>1, <2>3, <4>1, AtTop DEF Top
        <4> QED
          BY <2>1, <2>2, <2>3, <2>4, <3>2, <4>1, <4>2, StepLies
      <3>3. ASSUME NEW f \in world.fn, luaG_runerror(f)
            PROVE  Lies(st', cs', g)
        <4>1. f \in Fn
          BY <2>1, WorldIs
        <4> QED
          BY <2>1, <2>3, <2>4, <3>3, <4>1, RunerrorLies
      <3>4. CASE luaD_throw
        BY <2>1, <2>3, <2>4, <3>4, ThrowLies
      <3>5. ASSUME NEW th \in Thread, Shrink(th)
            PROVE  Lies(st', cs', g)
        BY <2>1, <2>3, <2>4, <3>5, ShrinkLies
      <3> QED
        BY <3>1, <3>2, <3>3, <3>4, <3>5
    <2> QED
      BY <2>1, <2>4, <2>5 DEF LaidOut
  <1> QED
    BY <1>2, <1>3 DEF vars

\* In every program without a hook, each open upvalue refers to a variable of a Lua function
\* whose frame is on the stack: returns, tail calls, errors that are caught and coroutines
\* that end close the variables of the frames that they take away (lfunc.c:96 to 112).
THEOREM NoUpvalueIsStale == Spec => [](~world.hook => NoStaleUpvalue)
  <1>1. FInv => (~world.hook => NoStaleUpvalue)
    <2> SUFFICES ASSUME FInv, ~world.hook, NEW t \in Thread, NEW l \in st[t].open
                 PROVE  \E i \in 2 .. Len(st[t].ci) :
                          /\ ~Shape[st[t].ci[i].fn].isC
                          /\ st[t].ci[i].base <= l /\ l < st[t].ci[i].top
      BY DEF NoStaleUpvalue
    <2>1. PICK h : Good(st, cs, h, Lim) /\ Lies(st, cs, h)
      BY DEF FInv, LaidOut
    <2>2. Nested(st[t])
      BY <2>1 DEF Lies, LiesIn
    <2>3. PICK i \in 2 .. Len(st[t].ci) : Owns(st[t], i, l)
      BY <2>2 DEF Nested
    <2> QED
      BY <2>3 DEF Owns, LuaFrame
  <1>2. Init => FInv
    BY InitLies
  <1>3. FInv /\ [Next]_vars => FInv'
    BY NextLies
  <1> QED
    BY <1>1, <1>2, <1>3, PTL DEF Spec

==============================================================================
