----------------------------- MODULE LuaGCProof -----------------------------
(* Proofs about LuaGC: the collector keeps what the program can get hold of,  *)
(* for every heap, every program and every interleaving of the two.           *)
EXTENDS LuaGCInv, FiniteSetTheorems, WellFoundedInduction, TLAPS

-----------------------------------------------------------------------------
(* Lists and sets. *)

\* A set of numbers has a least one.
LEMMA Least ==
    ASSUME NEW T \in SUBSET Nat, T # {}
    PROVE  \E x \in T : \A y \in T : x <= y
  <1>1. \E x \in T : \A y \in T : ~(<<y, x>> \in OpToRel(<, Nat))
    BY NatLessThanWellFounded, WFMin, Zenon
  <1>2. PICK x \in T : \A y \in T : ~(<<y, x>> \in OpToRel(<, Nat))
    BY <1>1, Zenon
  <1>3. \A y \in T : ~(y < x)
    BY <1>2, Zenon DEF OpToRel
  <1> QED
    BY <1>3

\* The positions a list is cut to, in their order.
Orders(f, I) ==
  /\ f \in [1..Cardinality(I) -> I]
  /\ \A i, j \in 1..Cardinality(I) : i < j => f[i] < f[j]

\* Every finite set of numbers can be listed in increasing order.
LEMMA Enumeration ==
    ASSUME NEW I \in SUBSET Nat, IsFiniteSet(I)
    PROVE  \E f : Orders(f, I)
  <1> DEFINE Bad(J) == IsFiniteSet(J) /\ ~(\E f : Orders(f, J))
             N == {n \in Nat : \E J \in SUBSET Nat : Bad(J) /\ Cardinality(J) = n}
  <1> SUFFICES ASSUME Bad(I)
               PROVE  FALSE
    OBVIOUS
  <1>1. N # {} /\ N \in SUBSET Nat
    <2>1. Cardinality(I) \in Nat
      BY FS_CardinalityType
    <2> QED
      BY <2>1
  <1>2. PICK n \in N : \A k \in N : n <= k
    BY <1>1, Least
  <1>3. PICK J \in SUBSET Nat : Bad(J) /\ Cardinality(J) = n
    BY <1>2
  <1>4. CASE J = {}
    <2>1. Cardinality(J) = 0
      BY <1>4, FS_EmptySet
    <2>2. Orders([i \in 1..0 |-> 0], J)
      BY <2>1, <1>4 DEF Orders
    <2> QED
      BY <1>3, <2>2
  <1>5. CASE J # {}
    <2>1. PICK m \in J : \A k \in J : m <= k
      BY <1>5, Least
    <2> DEFINE K == J \ {m}
    <2>2. IsFiniteSet(K) /\ Cardinality(K) = n - 1 /\ n - 1 \in Nat /\ n \in Nat
      <3>1. IsFiniteSet(K) /\ Cardinality(K) = n - 1
        BY <1>3, <2>1, FS_RemoveElement
      <3>2. Cardinality(K) \in Nat
        BY <3>1, FS_CardinalityType
      <3> QED
        BY <3>1, <3>2
    <2>3. ~Bad(K)
      BY <1>2, <2>2
    <2>4. PICK g : Orders(g, K)
      BY <2>2, <2>3
    <2> DEFINE f == [i \in 1..n |-> IF i = 1 THEN m ELSE g[i - 1]]
    <2>5. g \in [1..n - 1 -> K] /\ \A i, j \in 1..n - 1 : i < j => g[i] < g[j]
      BY <2>2, <2>4 DEF Orders
    <2>6. \A i \in 1..n : i # 1 => i - 1 \in 1..n - 1
      BY <2>2
    <2>7. f \in [1..n -> J]
      BY <2>1, <2>5, <2>6
    <2>8. ASSUME NEW i \in 1..n, NEW j \in 1..n, i < j
          PROVE  f[i] < f[j]
      <3>1. j # 1 /\ f[j] = g[j - 1] /\ g[j - 1] \in K
        BY <2>2, <2>5, <2>6, <2>8
      <3>2. CASE i = 1
        <4>1. f[i] = m /\ m <= g[j - 1] /\ m # g[j - 1] /\ m \in Nat /\ g[j - 1] \in Nat
          BY <2>1, <3>1, <3>2
        <4> QED
          BY <3>1, <4>1
      <3>3. CASE i # 1
        <4>1. f[i] = g[i - 1] /\ i - 1 \in 1..n - 1 /\ j - 1 \in 1..n - 1 /\ i - 1 < j - 1
          BY <2>2, <2>6, <2>8, <3>1, <3>3
        <4> QED
          BY <2>5, <3>1, <4>1
      <3> QED
        BY <3>2, <3>3
    <2>9. Orders(f, J)
      BY <1>3, <2>7, <2>8 DEF Orders
    <2> QED
      BY <1>3, <2>9
  <1> QED
    BY <1>4, <1>5

\* Only keeps elements of a list that are in T, each where it was once.
LEMMA OnlyIs ==
    ASSUME NEW A, NEW s \in Seq(A), NEW T, NEW r, r = Only(s, T)
    PROVE  /\ r \in Seq(A)
           /\ \A i \in DOMAIN r : r[i] \in T /\ \E j \in DOMAIN s : s[j] = r[i]
           /\ Injective(s) => Injective(r)
  <1> DEFINE I == {i \in DOMAIN s : s[i] \in T}
             n == Cardinality(I)
             at == CHOOSE f \in [1..n -> I] : \A i, j \in 1..n : i < j => f[i] < f[j]
  <1>1. I \in SUBSET Nat /\ IsFiniteSet(I) /\ I \in SUBSET DOMAIN s
    <2>1. DOMAIN s = 1..Len(s) /\ Len(s) \in Nat
      OBVIOUS
    <2>2. IsFiniteSet(1..Len(s))
      BY <2>1, FS_Interval
    <2>3. I \in SUBSET (1..Len(s))
      BY <2>1
    <2> QED
      BY <2>1, <2>2, <2>3, FS_Subset
  <1>2. n \in Nat
    BY <1>1, FS_CardinalityType
  <1>3. \E f \in [1..n -> I] : \A i, j \in 1..n : i < j => f[i] < f[j]
    BY <1>1, Enumeration DEF Orders
  <1>4. r = [i \in 1..n |-> s[at[i]]]
    BY DEF Only
  <1> HIDE DEF n
  <1>5. at \in [1..n -> I] /\ \A i, j \in 1..n : i < j => at[i] < at[j]
    BY <1>3
  <1> HIDE DEF at
  <1>6. \A i \in 1..n : at[i] \in DOMAIN s /\ s[at[i]] \in T /\ s[at[i]] \in A
    BY <1>5
  <1>7. r \in Seq(A) /\ DOMAIN r = 1..n
    BY <1>2, <1>4, <1>6
  <1>8. \A i \in 1..n : r[i] = s[at[i]]
    BY <1>4
  <1>9. ASSUME Injective(s), NEW i \in 1..n, NEW j \in 1..n, r[i] = r[j]
        PROVE  i = j
    <2>1. at[i] = at[j]
      BY <1>6, <1>8, <1>9 DEF Injective
    <2>2. at[i] \in Nat
      BY <1>1, <1>5
    <2>3. ~(i < j) /\ ~(j < i)
      BY <1>5, <2>1, <2>2
    <2> QED
      BY <1>2, <2>3
  <1>10. Injective(s) => Injective(r)
    BY <1>7, <1>9 DEF Injective
  <1> QED
    BY <1>6, <1>7, <1>8, <1>10

\* What can be reached is in every set that has the start and is closed under
\* references.
More(S) == S \cup UNION {AllRefs(o) : o \in S}
Closed(T) == \A o \in T : AllRefs(o) \subseteq T

\* Grow is the function its definition recurses on: the references of a set are added
\* until there are none.
LEMMA GrowIs ==
    ASSUME \A o \in Obj : AllRefs(o) \subseteq Obj
    PROVE  \A S \in SUBSET Obj : Grow[S] = IF More(S) = S THEN S ELSE Grow[More(S)]
  <1> DEFINE Hull(S) == {o \in Obj : \A T \in SUBSET Obj : S \subseteq T /\ Closed(T) => o \in T}
             H == [S \in SUBSET Obj |-> Hull(S)]
             Step(g) == [S \in SUBSET Obj |-> IF More(S) = S THEN S ELSE g[More(S)]]
  <1>1. \A S \in SUBSET Obj : More(S) \in SUBSET Obj
    BY DEF More
  <1>2. ASSUME NEW S \in SUBSET Obj
        PROVE  H[S] = IF More(S) = S THEN S ELSE H[More(S)]
    <2>1. CASE More(S) = S
      <3>1. Closed(S)
        BY <2>1 DEF Closed, More
      <3>2. Hull(S) = S
        BY <3>1
      <3> QED
        BY <2>1, <3>2
    <2>2. CASE More(S) # S
      <3>1. \A T \in SUBSET Obj : Closed(T) => (S \subseteq T <=> More(S) \subseteq T)
        BY DEF Closed, More
      <3>2. Hull(S) = Hull(More(S))
        BY <3>1
      <3> QED
        BY <1>1, <2>2, <3>2
    <2> QED
      BY <2>1, <2>2
  <1>3. H = Step(H)
    <2> HIDE DEF H
    <2> SUFFICES H = [S \in SUBSET Obj |-> H[S]]
      BY <1>2
    <2> QED
      BY DEF H
  <1>4. Grow = CHOOSE g : g = Step(g)
    BY DEF Grow, More
  <1> HIDE DEF H, Step
  <1>5. Grow = Step(Grow)
    BY <1>3, <1>4
  <1> QED
    BY <1>5 DEF Step

\* Every closed set that has the start has what can be reached from it.
LEMMA GrowIn ==
    ASSUME \A o \in Obj : AllRefs(o) \subseteq Obj, NEW C \in SUBSET Obj, Closed(C),
           NEW S \in SUBSET C
    PROVE  Grow[S] \subseteq C
  <1> DEFINE Size(X) == Cardinality(Obj \ X)
             N == {n \in Nat : \E X \in SUBSET C : Size(X) = n /\ ~(Grow[X] \subseteq C)}
  <1>1. \A X \in SUBSET Obj : IsFiniteSet(Obj \ X) /\ Size(X) \in Nat
    BY GCAssumption, FS_Subset, FS_CardinalityType
  <1> SUFFICES ASSUME ~(Grow[S] \subseteq C)
               PROVE  FALSE
    OBVIOUS
  <1>2. N # {} /\ N \in SUBSET Nat
    BY <1>1
  <1>3. PICK n \in N : \A k \in N : n <= k
    BY <1>2, Least
  <1>4. PICK X \in SUBSET C : Size(X) = n /\ ~(Grow[X] \subseteq C)
    BY <1>3
  <1>5. More(X) \in SUBSET C /\ X \subseteq More(X)
    BY DEF More, Closed
  <1>6. Grow[X] = IF More(X) = X THEN X ELSE Grow[More(X)]
    BY GrowIs
  <1>7. More(X) # X /\ ~(Grow[More(X)] \subseteq C)
    BY <1>4, <1>6
  <1>8. Size(More(X)) < Size(X)
    <2>1. Obj \ More(X) \in SUBSET (Obj \ X) /\ Obj \ More(X) # Obj \ X
      BY <1>5, <1>7
    <2>2. Size(More(X)) <= Size(X) /\ Size(More(X)) # Size(X)
      BY <1>1, <2>1, FS_Subset
    <2> QED
      BY <1>1, <1>5, <2>2
  <1>9. Size(More(X)) \in N
    BY <1>1, <1>5, <1>7
  <1>10. n <= Size(More(X)) /\ Size(More(X)) < n /\ n \in Nat /\ Size(More(X)) \in Nat
    BY <1>1, <1>3, <1>4, <1>5, <1>8, <1>9
  <1> QED
    BY <1>10

-----------------------------------------------------------------------------
(* Kinds, references and marks. *)

\* The kinds divide the objects.
LEMMA KindsAre ==
    /\ Kind \in [Obj -> Kinds] /\ Nil \notin Obj /\ IsFiniteSet(Obj)
    /\ \A o \in Obj : /\ o \in UpVals <=> Kind[o] = "upval"
                      /\ o \in Udata <=> Kind[o] = "udata"
                      /\ o \in Threads <=> Kind[o] = "thread"
                      /\ o \in Strings <=> Kind[o] = "string"
                      /\ o \in Tables <=> Kind[o] = "table"
                      /\ o \in Values <=> Kind[o] # "upval"
    /\ UpVals \subseteq Obj /\ Udata \subseteq Obj /\ Threads \subseteq Obj
    /\ Strings \subseteq Obj /\ Tables \subseteq Obj /\ Values \subseteq Obj
    /\ Main \in Threads /\ Registry \in Tables /\ Globals \in Tables /\ Globals # Registry
  BY GCAssumption DEF OfKind, UpVals, Udata, Threads, Strings, Tables, Values

\* What the fields and stacks hold are objects.
LEMMA FieldsAre ==
    ASSUME TypeOK
    PROVE  /\ \A o \in Obj, s \in Slots : fld[o][s] \in Opt(Obj)
           /\ \A th \in Threads : /\ StackValues(th) \subseteq Obj /\ Len(stack[th]) \in Nat
                                  /\ DOMAIN stack[th] = 1..Len(stack[th])
                                  /\ \A i \in 1..Len(stack[th]) : stack[th][i] \in Obj
           /\ {"mt", "env", "key", "val"} = Slots
  <1>1. ASSUME NEW th \in Threads
        PROVE  /\ StackValues(th) \subseteq Obj /\ Len(stack[th]) \in Nat
               /\ DOMAIN stack[th] = 1..Len(stack[th])
               /\ \A i \in 1..Len(stack[th]) : stack[th][i] \in Obj
    <2>1. stack[th] \in Seq(Obj)
      BY DEF TypeOK
    <2> QED
      BY <2>1 DEF StackValues
  <1>2. \A o \in Obj, s \in Slots : fld[o][s] \in Opt(Obj)
    BY DEF TypeOK, Opt
  <1> QED
    BY <1>1, <1>2 DEF Slots

\* What an upvalue stands for is an object, or nil when the upvalue is closed.
LEMMA UpValuesAre ==
    ASSUME TypeOK, OpenOK, NEW uv \in UpVals
    PROVE  UpValue(uv) \in Opt(Obj) /\ (IsOpen(uv) => UpValue(uv) \in Obj)
  <1>1. CASE IsOpen(uv)
    BY <1>1, FieldsAre DEF OpenOK, UpValue, Opt
  <1>2. CASE ~IsOpen(uv)
    BY <1>2, KindsAre, FieldsAre DEF UpValue
  <1> QED
    BY <1>1, <1>2

\* The references of an object, kind by kind.
LEMMA RefsAre ==
    ASSUME TypeOK, OpenOK, NEW o \in Obj
    PROVE  /\ AllRefs(o) \subseteq Obj /\ StrongRefs(o) \subseteq AllRefs(o)
           /\ o \notin UpVals => StrongRefs(o) = Traversed(o) \ {Nil}
           /\ Traversed(o) \subseteq Opt(Obj)
  <1>1. CASE o \in UpVals
    BY <1>1, UpValuesAre, KindsAre, FieldsAre DEF AllRefs, StrongRefs, Traversed, Opt
  <1>2. CASE o \notin UpVals
    <2>1. AllRefs(o) \subseteq Obj
      BY <1>2, FieldsAre DEF AllRefs, Opt
    <2>2. StrongRefs(o) = Traversed(o) \ {Nil}
      BY <1>2 DEF StrongRefs
    <2>3. Traversed(o) \subseteq AllRefs(o) \cup {Nil}
      <3>1. CASE Kind[o] = "thread"
        BY <1>2, <3>1, FieldsAre, KindsAre DEF AllRefs, Traversed
      <3>2. CASE Kind[o] # "thread"
        BY <1>2, <3>2, FieldsAre, KindsAre DEF AllRefs, Traversed
      <3> QED
        BY <3>1, <3>2
    <2> QED
      BY <2>1, <2>2, <2>3 DEF Opt
  <1> QED
    BY <1>1, <1>2

\* Marking: white objects turn gray or black, and the gray ones that have a list
\* go to it.
Marks == Whites \cup {"gray", "black", "free"}
Grown(m, G) ==
  /\ m \in [Obj -> Marks]
  /\ \A o \in Obj : m[o] = mark[o] \/ (IsWhite(o) /\ m[o] = Colour(o))
  /\ G = {o \in Obj : IsWhite(o) /\ m[o] # mark[o]} \ (Udata \cup UpVals \cup Strings)

\* A marking reaches white objects only, and every white object it starts from.
LEMMA ReachedIn ==
    ASSUME TypeOK, OpenOK, NEW S \in SUBSET Opt(Obj)
    PROVE  /\ Reached(S) \subseteq {o \in Obj : IsWhite(o)}
           /\ WhiteOf(S) \subseteq Reached(S)
  <1>1. UdataRefs(Obj) \subseteq Opt(Obj)
    BY FieldsAre, KindsAre DEF UdataRefs
  <1>2. \A X : UdataRefs(X) \subseteq UdataRefs(Obj)
    BY KindsAre DEF UdataRefs
  <1>3. \A X \in SUBSET Opt(Obj) : WhiteOf(X) \subseteq {o \in Obj : IsWhite(o)}
    BY DEF WhiteOf, Opt
  <1>4. \A X : {UpValue(uv) : uv \in X \cap UpVals} \subseteq Opt(Obj)
    BY UpValuesAre
  <1> QED
    BY <1>1, <1>2, <1>3, <1>4 DEF Reached

\* A marking turns white objects gray or black, and every object it starts from.
LEMMA MarkedIs ==
    ASSUME TypeOK, OpenOK, NEW S \in SUBSET Opt(Obj), NEW m, m = Marked(S), NEW G, G = Grayed(S)
    PROVE  Grown(m, G) /\ \A x \in S \ {Nil} : m[x] \notin Whites
  <1> DEFINE R == Reached(S)
  <1>1. R \subseteq {o \in Obj : IsWhite(o)} /\ WhiteOf(S) \subseteq R
    BY ReachedIn
  <1>2. m = [o \in Obj |-> IF o \in R THEN Colour(o) ELSE mark[o]]
        /\ G = R \ (Udata \cup UpVals \cup Strings)
    BY DEF Marked, Grayed, Strings
  <1> HIDE DEF R
  <1>3. \A o \in Obj : Colour(o) \in {"gray", "black"} /\ mark[o] \in Marks
    BY DEF Colour, TypeOK, Marks
  <1>4. \A o \in Obj : IsWhite(o) => mark[o] \in {"w0", "w1"}
    BY DEF IsWhite, Whites
  <1>5. R = {o \in Obj : IsWhite(o) /\ m[o] # mark[o]}
    BY <1>1, <1>2, <1>3, <1>4
  <1>6. \A o \in Obj : m[o] \in Marks
    BY <1>2, <1>3 DEF Marks
  <1>7. Grown(m, G)
    BY <1>1, <1>2, <1>5, <1>6 DEF Grown
  <1>8. ASSUME NEW x \in S \ {Nil}
        PROVE  m[x] \notin Whites
    <2>1. x \in Obj
      BY DEF Opt
    <2>2. x \in R \/ ~IsWhite(x)
      BY <1>1, <1>8 DEF WhiteOf
    <2> QED
      BY <1>2, <1>3, <2>1, <2>2 DEF IsWhite, Whites
  <1> QED
    BY <1>7, <1>8

\* What is marked black at once, and an open upvalue, has its references marked.
Sound(m) ==
  /\ \A u \in Udata : IsWhite(u) /\ m[u] # mark[u] =>
        \A x \in {fld[u]["mt"], fld[u]["env"]} \ {Nil} : m[x] \notin Whites
  /\ \A uv \in UpVals : IsWhite(uv) /\ m[uv] # mark[uv] /\ UpValue(uv) # Nil =>
        m[UpValue(uv)] \notin Whites

\* What an upvalue stands for is a value.
UpValuesOK == \A uv \in UpVals : Alive(uv) => UpValue(uv) \in Opt(Values)

\* A marking goes on from what it marks black, and from open upvalues.
LEMMA MarkedSound ==
    ASSUME TypeOK, OpenOK, UdataOK, UpValuesOK, NEW S \in SUBSET Opt(Obj)
    PROVE  Sound(Marked(S))
  <1> DEFINE R == Reached(S)
             m == Marked(S)
             direct == WhiteOf(S)
             values == direct \cup WhiteOf({UpValue(uv) : uv \in direct \cap UpVals})
  <1>1. R = values \cup WhiteOf(UdataRefs(values))
    BY DEF Reached
  <1>2. R \subseteq {o \in Obj : IsWhite(o)}
    BY ReachedIn
  <1>3. m = [o \in Obj |-> IF o \in R THEN Colour(o) ELSE mark[o]]
    BY DEF Marked
  <1>4. \A o \in Obj : Colour(o) \in {"gray", "black"}
    BY DEF Colour
  <1>5. \A o \in Obj : IsWhite(o) /\ m[o] # mark[o] => o \in R
    BY <1>3
  <1>6. \A o \in Obj : o \in R \/ ~IsWhite(o) => m[o] \notin Whites
    BY <1>3, <1>4 DEF IsWhite, Whites
  <1>7. \A X : WhiteOf(UdataRefs(X)) \cap (Udata \cup UpVals) = {}
    BY KindsAre DEF UdataOK, UdataRefs, WhiteOf, Opt
  <1>8. WhiteOf({UpValue(uv) : uv \in direct \cap UpVals}) \cap UpVals = {}
    BY KindsAre DEF UpValuesOK, WhiteOf, Alive, IsWhite, Whites, Opt
  <1> HIDE DEF m, R
  <1>9. ASSUME NEW u \in Udata, u \in R, NEW x \in {fld[u]["mt"], fld[u]["env"]} \ {Nil}
        PROVE  m[x] \notin Whites
    <2>1. u \in values
      BY <1>1, <1>7, <1>9
    <2>2. x \in UdataRefs(values)
      BY <2>1 DEF UdataRefs
    <2>3. x \in Obj
      BY KindsAre DEF UdataOK, Opt
    <2>4. IsWhite(x) => x \in R
      BY <1>1, <2>2 DEF WhiteOf
    <2> QED
      BY <1>6, <2>3, <2>4
  <1>10. ASSUME NEW uv \in UpVals, uv \in R, UpValue(uv) # Nil
         PROVE  m[UpValue(uv)] \notin Whites
    <2>1. uv \in direct
      BY <1>1, <1>7, <1>8, <1>10
    <2>2. UpValue(uv) \in Obj
      BY <1>10, UpValuesAre DEF Opt
    <2>3. IsWhite(UpValue(uv)) => UpValue(uv) \in R
      BY <1>1, <1>10, <2>1 DEF WhiteOf
    <2> QED
      BY <1>6, <2>2, <2>3
  <1>11. Udata \subseteq Obj /\ UpVals \subseteq Obj
    BY KindsAre
  <1> QED
    BY <1>5, <1>9, <1>10, <1>11 DEF Sound, m

-----------------------------------------------------------------------------
(* The mark phase. *)

\* A step that only turns objects gray or black.
Frame == UNCHANGED <<world, fin, fld, stack, open, cur, basic, white, udlist, tmudata, unswept,
                     sweepgc, closing, calls>>
Darker ==
  /\ mark' \in [Obj -> Marks]
  /\ \A o \in Obj : mark'[o] = mark[o] \/ (Alive(o) /\ mark'[o] \in {"gray", "black"})
  /\ \A u \in Udata : mark'[u] # "gray"
  /\ \A uv \in UpVals : IsOpen(uv) => mark'[uv] # "black"
Before == gcstate \notin SweepStates \cup {"closed"}

\* Frame keeps every reference.
LEMMA FrameRefs ==
    ASSUME Frame, NEW o
    PROVE  /\ AllRefs(o)' = AllRefs(o) /\ StrongRefs(o)' = StrongRefs(o)
           /\ UpValue(o)' = UpValue(o) /\ IsOpen(o)' = IsOpen(o)
           /\ InTmu(o)' = InTmu(o) /\ InList(o)' = InList(o) /\ Left(o)' = Left(o)
  <1>1. /\ fld' = fld /\ stack' = stack /\ open' = open /\ tmudata' = tmudata
        /\ udlist' = udlist /\ unswept' = unswept
    BY DEF Frame
  <1>2. UpValue(o)' = UpValue(o) /\ IsOpen(o)' = IsOpen(o) /\ Traversed(o)' = Traversed(o)
    BY <1>1 DEF UpValue, IsOpen, Traversed, StackValues, ModeOf
  <1>3. AllRefs(o)' = AllRefs(o) /\ StrongRefs(o)' = StrongRefs(o)
    BY <1>1, <1>2 DEF AllRefs, StrongRefs, StackValues
  <1> QED
    BY <1>1, <1>2, <1>3 DEF InTmu, InList, Left

\* A step that only turns objects gray or black keeps Always, when the lists of gray
\* objects follow.
LEMMA DarkerAlways ==
    ASSUME Always, Frame, Darker, Before, gcstate' \in MarkStates, full' \in 0..2,
           {gray', grayagain', weak'} \subseteq SUBSET Obj, Partition'
    PROVE  Always'
  <1>1. /\ fin' = fin /\ fld' = fld /\ stack' = stack /\ open' = open /\ tmudata' = tmudata
        /\ udlist' = udlist /\ unswept' = unswept /\ world' = world /\ cur' = cur
        /\ basic' = basic /\ white' = white /\ sweepgc' = sweepgc /\ closing' = closing
        /\ calls' = calls
    BY DEF Frame
  <1>2. \A o : IsOpen(o)' = IsOpen(o) /\ InTmu(o)' = InTmu(o) /\ InList(o)' = InList(o)
    BY FrameRefs
  <1>3. \A o \in Obj : Alive(o)' = Alive(o)
    BY DEF Darker, Alive
  <1>4. TypeOK'
    BY <1>1 DEF Always, TypeOK, Darker, Marks
  <1>5. UdataOK'
    BY <1>1 DEF Always, UdataOK, Darker, Tables
  <1>6. OpenOK'
    <2>1. \A uv \in UpVals : Alive(uv)' = Alive(uv)
      BY <1>3, KindsAre
    <2>2. \A th \in Threads : Alive(th)' = Alive(th)
      BY <1>3, KindsAre
    <2> QED
      BY <1>1, <1>2, <2>1, <2>2 DEF Always, OpenOK, Darker
  <1>7. ListsOK'
    BY DEF ListsOK
  <1>8. gcstate' \notin Resting /\ gcstate' # "closed" /\ unswept = {}
    BY DEF Resting, SweepStates, MarkStates, AtomicStates, Always, UnsweptOK, Before
  <1>9. RestOK' /\ UnsweptOK'
    BY <1>1, <1>8 DEF RestOK, UnsweptOK, SweepStates, Resting
  <1>10. FinsOK'
    BY <1>1, <1>2, <1>3, KindsAre DEF Always, FinsOK
  <1> QED
    BY <1>4, <1>5, <1>6, <1>7, <1>9, <1>10 DEF Always

\* Outside a sweep nothing is dead.
LEMMA NoneDead ==
    ASSUME Always, DeadOK, Before, NEW o \in Obj
    PROVE  ~IsDead(o)
  BY DEF Always, UnsweptOK, DeadOK, Left, Before

\* It keeps Open when what has been marked so far stays right.
LEMMA DarkerOpen ==
    ASSUME Always, Open, Frame, Darker, Before, MarksOK',
           \A th \in Threads : mark'[th] # "black",
           \A uv \in UpVals : ~IsOpen(uv) => mark'[uv] # "gray"
    PROVE  Open'
  <1>1. /\ fld' = fld /\ stack' = stack /\ open' = open /\ cur' = cur
        /\ basic' = basic /\ white' = white /\ closing' = closing
    BY DEF Frame
  <1>2. \A o : IsOpen(o)' = IsOpen(o) /\ AllRefs(o)' = AllRefs(o)
    BY FrameRefs
  <1>3. \A o \in Obj : Alive(o)' = Alive(o)
    BY DEF Darker, Alive
  <1>4. \A o \in Obj : ~IsDead(o) /\ ~IsDead(o)'
    <2>1. TAKE o \in Obj
    <2>2. ~IsDead(o)
      BY NoneDead DEF Open
    <2>3. OtherWhite' = OtherWhite /\ OtherWhite \notin {"gray", "black"}
      BY <1>1 DEF OtherWhite
    <2> QED
      BY <2>2, <2>3 DEF Darker, IsDead
  <1>5. RefsOK'
    <2>1. \A th \in Threads : Alive(th)' = Alive(th)
      BY <1>3, KindsAre
    <2> QED
      BY <1>1, <1>2, <1>3, <2>1 DEF Open, RefsOK, FieldsOK
  <1>6. ShutOK'
    BY <1>2 DEF ShutOK
  <1>7. DeadOK'
    BY <1>4 DEF DeadOK
  <1>8. Kept' = Kept
    BY <1>3, <1>4 DEF Kept
  <1>9. Roots' = Roots
    BY <1>1 DEF Roots
  <1>10. KeptOK'
    BY <1>2, <1>8, <1>9 DEF Open, KeptOK
  <1> QED
    BY <1>5, <1>6, <1>7, <1>10 DEF Open

\* It turns no object white.
LEMMA DarkerNonWhite ==
    ASSUME TypeOK, Darker
    PROVE  NonWhite \subseteq NonWhite'
  BY DEF Darker, NonWhite, IsWhite, Whites

\* The gray objects that have a list.
Listed(m) == {o \in Obj : m[o] = "gray"} \ (UpVals \cup Strings)

\* A marking only turns objects gray or black; what it turns gray is what its list gains.
LEMMA GrownIs ==
    ASSUME TypeOK, OpenOK, UdataOK, NEW G, Grown(mark', G)
    PROVE  /\ Darker /\ \A o \in Obj : Alive(o)' = Alive(o)
           /\ Listed(mark') = Listed(mark) \cup G /\ Listed(mark) \cap G = {} /\ G \subseteq Obj
           /\ \A th \in Threads : mark[th] # "black" => mark'[th] # "black"
           /\ ShutOK => \A uv \in UpVals : ~IsOpen(uv) => mark'[uv] # "gray"
  <1>1. \A o \in Obj : IsWhite(o) => Alive(o) /\ mark[o] # "gray"
    BY DEF IsWhite, Whites, Alive
  <1>2. \A o \in Obj : /\ Colour(o) \in {"gray", "black"} /\ (o \in Udata => Colour(o) = "black")
                       /\ o \in UpVals /\ IsOpen(o) => Colour(o) = "gray"
                       /\ o \notin Udata \cup UpVals => Colour(o) = "gray"
                       /\ o \in UpVals /\ ~IsOpen(o) => Colour(o) = "black"
    BY KindsAre DEF Colour
  <1>3. Udata \subseteq Obj /\ UpVals \subseteq Obj /\ Threads \subseteq Obj
        /\ Threads \cap (Udata \cup UpVals) = {}
    BY KindsAre
  <1>4. Darker
    <2>1. \A u \in Udata : mark'[u] # "gray"
      BY <1>2, <1>3 DEF Grown, UdataOK
    <2>2. \A uv \in UpVals : IsOpen(uv) => mark'[uv] # "black"
      BY <1>2, <1>3 DEF Grown, OpenOK
    <2> QED
      BY <1>1, <1>2, <2>1, <2>2 DEF Grown, Darker
  <1>5. \A o \in Obj : Alive(o)' = Alive(o)
    BY <1>4 DEF Darker, Alive
  <1>6. Listed(mark') = Listed(mark) \cup G
    <2>1. ASSUME NEW o \in Obj \ (UpVals \cup Strings)
          PROVE  mark'[o] = "gray" <=> mark[o] = "gray" \/ o \in G
      <3>1. CASE o \in Udata
        BY <1>4, <2>1, <3>1 DEF Darker, Grown, UdataOK
      <3>2. CASE o \notin Udata
        BY <1>1, <1>2, <2>1, <3>2 DEF Grown
      <3> QED
        BY <3>1, <3>2
    <2>2. G \subseteq Obj \ (UpVals \cup Strings)
      BY DEF Grown
    <2> QED
      BY <2>1, <2>2 DEF Listed
  <1>7. Listed(mark) \cap G = {} /\ G \subseteq Obj
    BY <1>1 DEF Listed, Grown
  <1>8. \A th \in Threads : mark[th] # "black" => mark'[th] # "black"
    BY <1>2, <1>3 DEF Grown
  <1>9. ShutOK => \A uv \in UpVals : ~IsOpen(uv) => mark'[uv] # "gray"
    BY <1>2, <1>3 DEF Grown, ShutOK
  <1> QED
    BY <1>4, <1>5, <1>6, <1>7, <1>8, <1>9

\* The states of the collector, by name.
LEMMA MarkStatesAre ==
    MarkStates \subseteq {"propagate", "remark1", "remark2", "remark3", "remark4"}
    /\ {"propagate", "remark1", "remark2", "remark3", "remark4"} \subseteq MarkStates
    /\ SweepStates \cap MarkStates = {} /\ "closed" \notin MarkStates
    /\ MarkStates \cap Resting = {}
    /\ SweepStates = {"sweepstring", "sweep"}
    /\ Resting = {"sweepstring", "sweep", "pause", "finalize"}
  BY DEF MarkStates, AtomicStates, SweepStates, Resting

\* Before a cycle begins nothing is gray, and nothing but tmudata is black.
LEMMA AtRest ==
    ASSUME Always, gcstate \in {"pause", "finalize"}, NEW o \in Obj
    PROVE  mark[o] # "gray" /\ (mark[o] = "black" => InTmu(o) /\ o \in Udata)
  <1>1. unswept = {} /\ gcstate \in Resting
    BY MarkStatesAre DEF Always, UnsweptOK
  <1>2. mark[o] \in {"gray", "black"} => InTmu(o)
    BY <1>1 DEF Always, RestOK, Left
  <1>3. InTmu(o) => o \in Udata
    <2>1. tmudata \in Seq(Udata)
      BY DEF Always, TypeOK
    <2> QED
      BY <2>1 DEF InTmu
  <1>4. o \in Udata => mark[o] # "gray"
    BY DEF Always, UdataOK
  <1> QED
    BY <1>2, <1>3, <1>4

\* markroot keeps Always: it starts from an empty mark phase.
LEMMA StartCycleAlways ==
    ASSUME Always, StartCycle
    PROVE  Always' /\ Frame /\ Darker /\ Before
  <1> DEFINE roots == {Main, fld[Main]["env"], Registry, basic}
  <1>1. mark' = Marked(roots) /\ gray' = Grayed(roots) /\ grayagain' = {} /\ weak' = {}
        /\ gcstate' = "propagate" /\ full' \in 0..2
    BY DEF StartCycle, MarkRoot, Always, TypeOK
  <1>2. roots \in SUBSET Opt(Obj)
    BY FieldsAre, KindsAre DEF Always, TypeOK, Opt
  <1> HIDE DEF roots
  <1>3. Grown(mark', gray')
    BY <1>1, <1>2, MarkedIs DEF Always
  <1>4. Frame
    BY DEF StartCycle, Frame
  <1>5. gcstate \in {"pause", "finalize"} /\ Before
    BY DEF StartCycle, Before, SweepStates
  <1>6. Listed(mark) = {}
    BY <1>5, AtRest DEF Listed
  <1>7. /\ Darker
        /\ Listed(mark') = gray' /\ gray' \subseteq Obj
    BY <1>3, <1>6, GrownIs DEF Always
  <1>8. Partition'
    BY <1>1, <1>7 DEF Partition, Listed
  <1> QED
    BY <1>1, <1>4, <1>5, <1>7, <1>8, MarkStatesAre, DarkerAlways

\* propagatemark keeps Always: the object leaves gray, for weak or grayagain or as black.
LEMMA PropagateAlways ==
    ASSUME Always, NEW o \in Obj, Propagate(o)
    PROVE  Always' /\ Frame /\ Darker /\ Before
  <1> DEFINE S == Traversed(o)
             m == Marked(S)
             G == Grayed(S)
             isweak == Kind[o] = "table" /\ ModeOf(o) # {}
  <1>1. /\ mark' = [m EXCEPT ![o] = IF isweak \/ o \in Threads THEN "gray" ELSE "black"]
        /\ gray' = (gray \ {o}) \cup G
        /\ weak' = IF isweak THEN weak \cup {o} ELSE weak
        /\ grayagain' = IF o \in Threads THEN grayagain \cup {o} ELSE grayagain
        /\ gcstate' = gcstate /\ full' = full /\ gcstate \in MarkStates /\ o \in gray
    BY DEF Propagate
  <1>2. S \in SUBSET Opt(Obj)
    BY RefsAre DEF Always
  <1>3. Grown(m, G)
    BY <1>2, MarkedIs DEF Always
  <1>4. isweak => o \notin Threads
    BY KindsAre
  <1> HIDE DEF S, m, G, isweak
  <1>5. Frame
    BY DEF Propagate, Frame
  <1>6. Before
    BY <1>1, MarkStatesAre DEF Before
  <1>7. Partition /\ mark[o] = "gray" /\ o \notin UpVals \cup Strings \cup Udata /\ Alive(o)
    BY <1>1 DEF Always, ListsOK, Partition, UdataOK, Alive
  <1>8. \A x \in Obj : IsWhite(x) => Alive(x) /\ mark[x] # "gray"
    BY DEF IsWhite, Whites, Alive
  <1>9. \A x \in Obj : /\ Colour(x) \in {"gray", "black"} /\ (x \in Udata => Colour(x) = "black")
                       /\ x \in UpVals /\ IsOpen(x) => Colour(x) = "gray"
                       /\ x \notin Udata \cup UpVals => Colour(x) = "gray"
    BY KindsAre DEF Colour
  <1>10. mark' \in [Obj -> Marks] /\ \A x \in Obj \ {o} : mark'[x] = m[x]
    BY <1>1, <1>3 DEF Grown, Marks
  <1>11. mark'[o] = IF isweak \/ o \in Threads THEN "gray" ELSE "black"
    BY <1>1, <1>3 DEF Grown
  <1>12. Darker
    <2>1. \A x \in Obj : mark'[x] = mark[x] \/ (Alive(x) /\ mark'[x] \in {"gray", "black"})
      BY <1>3, <1>7, <1>8, <1>9, <1>10, <1>11 DEF Grown
    <2>2. \A u \in Udata : mark'[u] # "gray"
      BY <1>3, <1>7, <1>9, <1>10, KindsAre DEF Grown, Always, UdataOK
    <2>3. \A uv \in UpVals : IsOpen(uv) => mark'[uv] # "black"
      BY <1>3, <1>7, <1>9, <1>10, KindsAre DEF Grown, Always, OpenOK
    <2> QED
      BY <1>10, <2>1, <2>2, <2>3 DEF Darker
  <1>13. \A x \in Obj \ (UpVals \cup Strings) :
            m[x] = "gray" <=> x \in gray \cup grayagain \cup weak \cup G
    <2>1. \A x \in Obj \ (UpVals \cup Strings) :
            mark[x] = "gray" <=> x \in gray \cup grayagain \cup weak
      BY <1>7 DEF Partition
    <2>2. TAKE x \in Obj \ (UpVals \cup Strings)
    <2>3. x \in Udata => m[x] # "gray" /\ mark[x] # "gray" /\ x \notin G
      BY <1>3, <1>9 DEF Grown, Always, UdataOK
    <2>4. x \notin Udata => (m[x] = "gray" <=> mark[x] = "gray" \/ x \in G)
      BY <1>3, <1>8, <1>9 DEF Grown
    <2> QED
      BY <2>1, <2>3, <2>4
  <1>14. G \subseteq Obj \ (UpVals \cup Strings) /\ \A x \in G : mark[x] # "gray"
    BY <1>3, <1>8 DEF Grown
  <1>15. gray \cup grayagain \cup weak \subseteq
           {x \in Obj : mark[x] = "gray"} \ (UpVals \cup Strings)
    BY <1>7 DEF Partition
  <1>16. {gray', grayagain', weak'} \subseteq SUBSET Obj
    BY <1>1, <1>14, <1>15
  <1>17. Partition'
    <2>1. /\ gray' \cap grayagain' = {} /\ gray' \cap weak' = {} /\ grayagain' \cap weak' = {}
      BY <1>1, <1>4, <1>7, <1>14, <1>15 DEF Partition
    <2>2. o \in gray' \cup grayagain' \cup weak' <=> isweak \/ o \in Threads
      BY <1>1, <1>7, <1>14 DEF Partition
    <2>3. \A x \in Obj \ {o} : x \in gray' \cup grayagain' \cup weak' <=>
                                  x \in gray \cup grayagain \cup weak \cup G
      BY <1>1
    <2>4. \A x \in Obj : x \in gray' \cup grayagain' \cup weak' <=>
                            mark'[x] = "gray" /\ x \notin UpVals \cup Strings
      BY <1>7, <1>10, <1>11, <1>13, <1>14, <1>15, <2>2, <2>3
    <2>5. gray' \cup grayagain' \cup weak' =
             {x \in Obj : mark'[x] = "gray"} \ (UpVals \cup Strings)
      BY <1>16, <2>4
    <2> QED
      BY <2>1, <2>5 DEF Partition
  <1>18. full' \in 0..2 /\ gcstate' \in MarkStates
    BY <1>1 DEF Always, TypeOK
  <1> QED
    BY <1>5, <1>6, <1>12, <1>16, <1>17, <1>18, DarkerAlways

\* The three remarks of atomic keep Always: each list is moved to gray once gray is empty.
LEMMA RemarkAlways ==
    ASSUME Always, RemarkUpvals \/ RemarkWeak \/ RemarkAgain
    PROVE  Always' /\ Frame /\ Darker /\ Before
  <1> DEFINE U == {UpValue(uv) : uv \in {x \in UpVals : IsOpen(x) /\ mark[x] = "gray"}}
  <1>1. gcstate \in MarkStates /\ gcstate' \in MarkStates /\ full' = full /\ gray = {}
    BY MarkStatesAre DEF RemarkUpvals, RemarkWeak, RemarkAgain
  <1>2. Before
    BY <1>1, MarkStatesAre DEF Before
  <1>3. Frame
    BY DEF RemarkUpvals, RemarkWeak, RemarkAgain, Frame
  <1>4. Partition /\ Listed(mark) = grayagain \cup weak
    BY <1>1 DEF Always, ListsOK, Partition, Listed
  <1>5. {U, {cur, basic}} \subseteq SUBSET Opt(Obj)
    BY UpValuesAre, KindsAre DEF Always, TypeOK, Opt
  <1>6. U \in SUBSET Opt(Obj) /\ {cur, basic} \in SUBSET Opt(Obj)
    BY <1>5
  <1>7. gray' \cup grayagain' \cup weak' \subseteq Obj /\ Darker /\ Partition'
    <2>1. CASE RemarkUpvals
      <3>1. mark' = Marked(U) /\ gray' = Grayed(U) /\ grayagain' = grayagain /\ weak' = weak
        BY <2>1 DEF RemarkUpvals
      <3> HIDE DEF U
      <3>2. Grown(mark', gray')
        BY <1>6, <3>1, MarkedIs DEF Always
      <3>3. Darker /\ Listed(mark') = Listed(mark) \cup gray'
            /\ Listed(mark) \cap gray' = {} /\ gray' \subseteq Obj
        BY <3>2, GrownIs DEF Always
      <3> QED
        BY <1>4, <3>1, <3>3 DEF Partition, Listed
    <2>2. CASE RemarkWeak
      <3> DEFINE C == {cur, basic}
      <3>1. mark' = Marked(C) /\ gray' = weak \cup Grayed(C) /\ grayagain' = grayagain
            /\ weak' = {}
        BY <2>2 DEF RemarkWeak
      <3>2. C \in SUBSET Opt(Obj)
        BY <1>6
      <3> HIDE DEF C
      <3>3. Grown(mark', Grayed(C))
        BY <3>1, <3>2, MarkedIs DEF Always
      <3>4. Darker /\ Listed(mark') = Listed(mark) \cup Grayed(C)
            /\ Listed(mark) \cap Grayed(C) = {} /\ Grayed(C) \subseteq Obj
        BY <3>3, GrownIs DEF Always
      <3> QED
        BY <1>4, <3>1, <3>4 DEF Partition, Listed
    <2>3. CASE RemarkAgain
      <3>1. mark' = mark /\ gray' = grayagain /\ grayagain' = {} /\ weak' = weak
        BY <2>3 DEF RemarkAgain
      <3>2. Darker
        BY <3>1 DEF Darker, Always, TypeOK, OpenOK, UdataOK, Marks
      <3> QED
        BY <1>1, <1>4, <3>1, <3>2 DEF Partition, Listed
    <2> QED
      BY <2>1, <2>2, <2>3
  <1>8. full' \in 0..2
    BY <1>1 DEF Always, TypeOK
  <1>9. {gray', grayagain', weak'} \subseteq SUBSET Obj
    BY <1>7
  <1> QED
    BY <1>1, <1>2, <1>3, <1>7, <1>8, <1>9, DarkerAlways

\* A list put behind another has the elements of both, each where it was once.
Joined(r, s, t, a, b) ==
  /\ a \in Nat /\ b \in Nat
  /\ DOMAIN s = 1..a /\ DOMAIN t = 1..b /\ DOMAIN r = 1..(a + b)
  /\ \A i \in DOMAIN r : \/ i \in DOMAIN s /\ r[i] = s[i]
                         \/ i - a \in DOMAIN t /\ r[i] = t[i - a]
  /\ \A i \in DOMAIN s : i \in DOMAIN r /\ r[i] = s[i]
  /\ \A i \in DOMAIN t : i + a \in DOMAIN r /\ r[i + a] = t[i]

\* Joined describes a concatenation.
LEMMA ConcatIs ==
    ASSUME NEW A, NEW s \in Seq(A), NEW t \in Seq(A), NEW r, r = s \o t
    PROVE  Joined(r, s, t, Len(s), Len(t))
  <1> DEFINE a == Len(s)
             b == Len(t)
  <1>1. a \in Nat /\ b \in Nat /\ DOMAIN s = 1..a /\ DOMAIN t = 1..b /\ DOMAIN r = 1..(a + b)
    OBVIOUS
  <1>2. \A i \in 1..(a + b) : r[i] = IF i <= a THEN s[i] ELSE t[i - a]
    OBVIOUS
  <1> HIDE DEF a, b
  <1>3. \A i \in DOMAIN r : \/ i \in DOMAIN s /\ r[i] = s[i]
                            \/ i - a \in DOMAIN t /\ r[i] = t[i - a]
    <2>1. TAKE i \in DOMAIN r
    <2>2. CASE i <= a
      <3>1. i \in DOMAIN s /\ i \in 1..(a + b)
        BY <1>1, <2>2
      <3> QED
        BY <1>2, <2>2, <3>1
    <2>3. CASE ~(i <= a)
      <3>1. i - a \in DOMAIN t /\ i \in 1..(a + b)
        BY <1>1, <2>3
      <3> QED
        BY <1>2, <2>3, <3>1
    <2> QED
      BY <2>2, <2>3
  <1>4. \A i \in DOMAIN s : i \in DOMAIN r /\ r[i] = s[i]
    BY <1>1, <1>2
  <1>5. \A i \in DOMAIN t : i + a \in DOMAIN r /\ r[i + a] = t[i]
    <2>1. TAKE i \in DOMAIN t
    <2>2. i + a \in 1..(a + b) /\ ~(i + a <= a) /\ (i + a) - a = i
      BY <1>1
    <2> QED
      BY <1>1, <1>2, <2>2
  <1>6. Joined(r, s, t, a, b)
    BY <1>1, <1>3, <1>4, <1>5 DEF Joined
  <1> QED
    BY <1>6 DEF a, b

\* What is in a list.
InSeq(x, s) == \E i \in DOMAIN s : s[i] = x

\* A concatenation has the elements of both lists.
LEMMA ConcatHas ==
    ASSUME NEW A, NEW s \in Seq(A), NEW t \in Seq(A), NEW x
    PROVE  InSeq(x, s \o t) <=> InSeq(x, s) \/ InSeq(x, t)
  <1> DEFINE r == s \o t
  <1>0. Joined(r, s, t, Len(s), Len(t))
    BY ConcatIs
  <1> HIDE DEF r
  <1>1. ASSUME NEW i \in DOMAIN r, r[i] = x
        PROVE  InSeq(x, s) \/ InSeq(x, t)
    BY <1>1, <1>0 DEF InSeq, Joined
  <1>2. ASSUME NEW i \in DOMAIN s, s[i] = x
        PROVE  InSeq(x, r)
    BY <1>2, <1>0 DEF InSeq, Joined
  <1>3. ASSUME NEW i \in DOMAIN t, t[i] = x
        PROVE  InSeq(x, r)
    BY <1>3, <1>0 DEF InSeq, Joined
  <1> QED
    BY <1>1, <1>2, <1>3 DEF InSeq, r

\* A concatenation has none twice when the two lists have nothing in common.
LEMMA ConcatInjective ==
    ASSUME NEW A, NEW s \in Seq(A), NEW t \in Seq(A), Injective(s), Injective(t),
           \A i \in DOMAIN s, j \in DOMAIN t : s[i] # t[j]
    PROVE  Injective(s \o t)
  <1> DEFINE r == s \o t
             a == Len(s)
             b == Len(t)
  <1>0. Joined(r, s, t, a, b)
    BY ConcatIs
  <1> HIDE DEF r, a, b
  <1>1. /\ a \in Nat /\ b \in Nat /\ DOMAIN s = 1..a /\ DOMAIN t = 1..b /\ DOMAIN r = 1..(a + b)
        /\ \A i \in DOMAIN r : \/ i \in DOMAIN s /\ r[i] = s[i]
                               \/ i - a \in DOMAIN t /\ r[i] = t[i - a]
    BY <1>0 DEF Joined
  <1>2. ASSUME NEW i \in DOMAIN r, NEW j \in DOMAIN r, r[i] = r[j]
        PROVE  i = j
    <2>1. CASE i \in DOMAIN s /\ r[i] = s[i] /\ j \in DOMAIN s /\ r[j] = s[j]
      BY <1>2, <2>1 DEF Injective
    <2>2. CASE i - a \in DOMAIN t /\ r[i] = t[i - a] /\ j - a \in DOMAIN t /\ r[j] = t[j - a]
      <3>1. i - a = j - a
        BY <1>2, <2>2 DEF Injective
      <3> QED
        BY <1>1, <3>1
    <2> QED
      BY <1>1, <1>2, <2>1, <2>2
  <1> QED
    BY <1>2 DEF Injective, r

\* What luaC_separateudata takes was not finalized, and leaves the list.
Taken(u) == InTmu(u) \/ (InList(u) /\ u \notin fin)

\* luaC_separateudata moves userdata from one list to the other: none is in both.
LEMMA SeparateIs ==
    ASSUME Always, NEW all, Separate(all)
    PROVE  /\ fin' \subseteq Udata /\ fin \subseteq fin'
           /\ tmudata' \in Seq(Udata) /\ udlist' \in Seq(Udata)
           /\ Injective(tmudata') /\ Injective(udlist')
           /\ \A u \in Udata : /\ InTmu(u)' => Taken(u) /\ u \in fin' /\ ~InList(u)'
                               /\ InList(u)' => InList(u)
                               /\ InTmu(u) => InTmu(u)'
  <1> DEFINE seen == {udlist[i] : i \in Separable(all)}
             go == {u \in seen : NeedsGC(u)}
             more == Only(udlist, go)
             keep == Udata \ go
             rest == Only(udlist, keep)
             both == tmudata \o more
  <1>1. fin' = fin \cup seen /\ tmudata' = tmudata \o more
        /\ udlist' = Only(udlist, Udata \ go)
    BY DEF Separate
  <1>2. /\ udlist \in Seq(Udata) /\ tmudata \in Seq(Udata) /\ fin \subseteq Udata
        /\ Injective(udlist) /\ Injective(tmudata)
        /\ \A u \in Udata : InTmu(u) => ~InList(u) /\ u \in fin
    BY DEF Always, TypeOK, FinsOK
  <1>3. \A u \in seen : u \in Udata /\ InList(u) /\ u \notin fin
    BY <1>2 DEF Separable, InList
  <1>4. go \subseteq seen /\ keep \subseteq Udata \ go
        /\ udlist' = rest /\ tmudata' = both /\ both = tmudata \o more
    BY <1>1
  <1> HIDE DEF seen, go, keep, both
  <1>5. /\ more \in Seq(Udata)
        /\ \A i \in DOMAIN more : more[i] \in go /\ \E j \in DOMAIN udlist : udlist[j] = more[i]
        /\ Injective(more)
    BY <1>2, OnlyIs
  <1>6. /\ rest \in Seq(Udata)
        /\ \A i \in DOMAIN rest : /\ rest[i] \in keep
                                 /\ \E j \in DOMAIN udlist : udlist[j] = rest[i]
        /\ Injective(rest)
    BY <1>2, OnlyIs
  <1> HIDE DEF more
  <1>7. \A i \in DOMAIN tmudata, j \in DOMAIN more : tmudata[i] # more[j]
    <2>1. \A i \in DOMAIN tmudata : tmudata[i] \in fin
      BY <1>2 DEF InTmu
    <2> QED
      BY <1>3, <1>4, <1>5, <2>1
  <1>8. /\ both \in Seq(Udata) /\ Injective(both)
        /\ \A x : InSeq(x, both) <=> InSeq(x, tmudata) \/ InSeq(x, more)
    <2>1. both \in Seq(Udata)
      BY <1>2, <1>4, <1>5
    <2>2. Injective(both)
      BY <1>2, <1>4, <1>5, <1>7, ConcatInjective
    <2>3. \A x : InSeq(x, both) <=> InSeq(x, tmudata) \/ InSeq(x, more)
      BY <1>2, <1>4, <1>5, ConcatHas
    <2> QED
      BY <2>1, <2>2, <2>3
  <1>9. ASSUME NEW u \in Udata
        PROVE  /\ InTmu(u)' <=> InTmu(u) \/ InSeq(u, more)
               /\ InList(u)' => InList(u) /\ u \notin go
    <2> HIDE DEF rest, more
    <2>1. InTmu(u) = InSeq(u, tmudata) /\ InTmu(u)' = InSeq(u, tmudata')
      BY DEF InTmu, InSeq
    <2>2. tmudata' = both
      BY <1>4
    <2>3. InTmu(u)' <=> InTmu(u) \/ InSeq(u, more)
      BY <1>8, <2>1, <2>2
    <2>4. InList(u)' => InList(u) /\ u \notin go
      BY <1>4, <1>6 DEF InList
    <2> QED
      BY <2>3, <2>4
  <1>10. ASSUME NEW u \in Udata, InTmu(u)'
         PROVE  Taken(u) /\ u \in fin' /\ ~InList(u)'
    <2>1. InTmu(u) \/ u \in go
      BY <1>5, <1>9, <1>10 DEF InSeq
    <2> QED
      BY <1>1, <1>2, <1>3, <1>4, <1>9, <2>1 DEF Taken
  <1>11. fin' \subseteq Udata /\ fin \subseteq fin'
    BY <1>1, <1>2, <1>3
  <1> HIDE DEF rest
  <1> QED
    BY <1>4, <1>6, <1>8, <1>9, <1>10, <1>11

\* luaC_separateudata keeps FinsOK: what it takes is marked as finalized.
LEMMA SeparateFins ==
    ASSUME Always, NEW all, Separate(all), calls' = calls,
           \A u \in Udata : Alive(u) => Alive(u)'
    PROVE  FinsOK'
  <1>1. \A u \in Udata : /\ InTmu(u) => Alive(u) /\ u \in fin
                         /\ InList(u) => Alive(u)
                         /\ calls[u] \in {0, 1}
                         /\ calls[u] = 1 => u \in fin /\ ~InTmu(u)
    BY DEF Always, FinsOK
  <1>2. /\ fin \subseteq fin' /\ Injective(tmudata') /\ Injective(udlist')
        /\ \A u \in Udata : /\ InTmu(u)' => Taken(u) /\ u \in fin' /\ ~InList(u)'
                            /\ InList(u)' => InList(u)
    BY SeparateIs
  <1>3. Injective(tmudata)' /\ Injective(udlist)'
    BY <1>2 DEF Injective
  <1> QED
    BY <1>1, <1>2, <1>3 DEF FinsOK, Taken

\* The separation in atomic keeps Always: what the userdata refer to is gray again.
LEMMA SeparateAndMarkAlways ==
    ASSUME Always, SeparateAndMark
    PROVE  Always'
  <1> DEFINE T == {tmudata'[i] : i \in DOMAIN tmudata'}
             S == WhiteOf(UdataRefs(T))
  <1>1. /\ mark' = [o \in Obj |-> IF o \in T THEN "black"
                                  ELSE IF o \in S THEN "gray" ELSE mark[o]]
        /\ gray' = S /\ gcstate' = "remark4" /\ gcstate = "remark3" /\ gray = {}
        /\ Separate(FALSE)
        /\ UNCHANGED <<world, fld, stack, open, cur, basic, white, grayagain, weak, unswept,
                       sweepgc, full, closing, calls>>
    BY DEF SeparateAndMark
  <1>2. /\ fin' \subseteq Udata /\ tmudata' \in Seq(Udata) /\ udlist' \in Seq(Udata)
        /\ \A u \in Udata : /\ InTmu(u)' => Taken(u)
                            /\ InTmu(u) => InTmu(u)'
    BY <1>1, SeparateIs
  <1>3. T \subseteq Udata /\ \A u \in Udata : u \in T => Alive(u)
    <2>1. T \subseteq Udata
      BY <1>2
    <2>2. \A u \in Udata : Taken(u) => Alive(u)
      BY DEF Taken, Always, FinsOK
    <2>3. \A u \in T : InTmu(u)'
      BY DEF InTmu
    <2> QED
      BY <1>2, <2>1, <2>2, <2>3
  <1>4. S \subseteq Tables /\ \A o \in S : IsWhite(o)
    BY <1>3 DEF WhiteOf, UdataRefs, Always, UdataOK, Opt
  <1> HIDE DEF T, S
  <1>5. \A o \in Obj : Alive(o)' = Alive(o)
    BY <1>1, <1>3, <1>4 DEF Alive, IsWhite, Whites
  <1>6. mark' \in [Obj -> Marks] /\ S \subseteq Obj
    BY <1>1, <1>4, KindsAre DEF Always, TypeOK, Marks
  <1>7. TypeOK'
    BY <1>1, <1>2, <1>6 DEF Always, TypeOK, Marks, MarkStates, AtomicStates
  <1>8. UdataOK'
    BY <1>1, <1>3, <1>4, KindsAre DEF Always, UdataOK
  <1>9. OpenOK'
    <2>1. \A uv \in UpVals : IsOpen(uv)' = IsOpen(uv) /\ Alive(uv)' = Alive(uv)
                             /\ (mark'[uv] = "black" => mark[uv] = "black")
      BY <1>1, <1>3, <1>5, KindsAre DEF IsOpen
    <2>2. \A th \in Threads : Alive(th)' = Alive(th)
      BY <1>5, KindsAre
    <2> QED
      BY <1>1, <2>1, <2>2 DEF Always, OpenOK
  <1>10. ListsOK'
    <2>1. Partition
      BY <1>1, MarkStatesAre DEF Always, ListsOK
    <2>2. \A o \in S : o \in Obj /\ mark[o] # "gray" /\ o \notin UpVals \cup Strings \cup T
      BY <1>3, <1>4, KindsAre DEF IsWhite, Whites
    <2>3. \A o \in T : o \in Obj /\ mark[o] # "gray" /\ o \notin UpVals \cup Strings
      BY <1>3, KindsAre DEF Always, UdataOK
    <2>4. Partition'
      BY <1>1, <2>1, <2>2, <2>3 DEF Partition
    <2> QED
      BY <2>4 DEF ListsOK
  <1>11. RestOK' /\ UnsweptOK'
    <2>1. unswept = {} /\ gcstate' \in MarkStates
      BY <1>1, MarkStatesAre DEF Always, UnsweptOK
    <2> QED
      BY <1>1, <2>1, MarkStatesAre DEF RestOK, UnsweptOK
  <1>12. FinsOK'
    BY <1>1, <1>5, SeparateFins, KindsAre
  <1> QED
    BY <1>7, <1>8, <1>9, <1>10, <1>11, <1>12 DEF Always

\* An object is dead when it has the white that is not the current one.
LEMMA Flipped ==
    ASSUME TypeOK, NEW o \in Obj
    PROVE  /\ OtherWhite \in Whites /\ OtherWhite # white
           /\ IsDead(o) <=> mark[o] = OtherWhite
           /\ IsWhite(o) <=> mark[o] \in {white, OtherWhite}
           /\ IsDead(o) => Alive(o)
  BY DEF TypeOK, OtherWhite, Whites, IsDead, IsWhite, Alive

-----------------------------------------------------------------------------
(* The sweep. *)

\* Every object is in what a new sweep has to visit, or is not swept.
AllToSweep == {o \in Obj : /\ Alive(o)
                           /\ ~(o \in UpVals /\ IsOpen(o))
                           /\ \A i \in DOMAIN tmudata : tmudata[i] # o}

\* When a sweep starts, an object is to be swept or waits for its finalizer.
LEMMA ToSweep ==
    ASSUME Always, unswept' = AllToSweep, open' = open, tmudata' = tmudata,
           NEW o \in Obj, Alive(o)
    PROVE  Left(o)' \/ InTmu(o)'
  <1>1. CASE o \in UpVals /\ IsOpen(o)
    <2> DEFINE th == open[o].th
    <2>1. th \in Threads /\ Alive(th)
      BY <1>1 DEF Always, OpenOK
    <2>2. tmudata \in Seq(Udata)
      BY DEF Always, TypeOK
    <2>3. \A i \in DOMAIN tmudata : tmudata[i] # th
      BY <2>1, <2>2, KindsAre
    <2>4. th \in AllToSweep
      BY <2>1, <2>3, KindsAre DEF AllToSweep
    <2> QED
      BY <1>1, <2>4 DEF Left, IsOpen
  <1>2. CASE ~(o \in UpVals /\ IsOpen(o))
    BY <1>2 DEF AllToSweep, Left, InTmu
  <1> QED
    BY <1>1, <1>2

\* When a sweep starts, what it has to visit is alive and does not wait.
LEMMA ToSweepUnswept ==
    ASSUME unswept' = AllToSweep, open' = open, tmudata' = tmudata, gcstate' \in SweepStates,
           \A o \in Obj : Alive(o) => Alive(o)'
    PROVE  UnsweptOK'
  <1>1. \A o \in AllToSweep : /\ o \in Obj /\ Alive(o) /\ ~(o \in UpVals /\ IsOpen(o))
                              /\ \A i \in DOMAIN tmudata : tmudata[i] # o
    BY DEF AllToSweep
  <1>2. \A o \in unswept' : Alive(o)' /\ ~InTmu(o)' /\ ~(o \in UpVals /\ IsOpen(o)')
    BY <1>1 DEF InTmu, IsOpen
  <1> QED
    BY <1>2 DEF UnsweptOK

\* The strings atomic marks when it clears weak tables are white.
LEMMA AskedAre ==
    ASSUME TypeOK, NEW asked, asked = UNION {AskedStrings(t) : t \in weak}
    PROVE  asked \subseteq Strings /\ \A o \in asked : IsWhite(o)
  <1>1. weak \subseteq Obj
    BY DEF TypeOK
  <1>2. \A t \in weak : \A o \in AskedStrings(t) : o \in Strings /\ IsWhite(o)
    <2>1. TAKE t \in weak
    <2>2. fld[t]["key"] \in Opt(Obj) /\ fld[t]["val"] \in Opt(Obj)
      BY <1>1, FieldsAre
    <2>3. ASSUME NEW o \in AskedStrings(t)
          PROVE  o \in {fld[t]["key"], fld[t]["val"]} /\ o # Nil /\ Kind[o] = "string" /\ IsWhite(o)
      <3> DEFINE C == IsCleared(fld[t]["key"], TRUE)
      <3> HIDE DEF C
      <3> QED
        BY <2>3 DEF AskedStrings, C
    <2>4. ASSUME NEW o \in AskedStrings(t)
          PROVE  o \in Strings /\ IsWhite(o)
      BY <2>2, <2>3, <2>4, KindsAre DEF Opt
    <2> QED
      BY <2>4
  <1> QED
    BY <1>2

\* The end of atomic keeps Always: what was marked is left to the sweep.
LEMMA ClearAndFlipAlways ==
    ASSUME Always, ClearAndFlip
    PROVE  Always'
  <1> DEFINE asked == UNION {AskedStrings(t) : t \in weak}
  <1>1. /\ fld' = [o \in Obj |-> IF o \in weak /\ Clears(o)
                                 THEN [fld[o] EXCEPT !["key"] = Nil, !["val"] = Nil]
                                 ELSE fld[o]]
        /\ mark' = [o \in Obj |-> IF o \in asked THEN "gray" ELSE mark[o]]
        /\ white' = OtherWhite /\ unswept' = AllToSweep /\ sweepgc' = Nil
        /\ gcstate' = "sweepstring" /\ gcstate = "remark4"
        /\ UNCHANGED <<world, fin, stack, open, cur, basic, gray, grayagain, weak, udlist,
                       tmudata, full, closing, calls>>
    BY DEF ClearAndFlip, AllToSweep
  <1>2. asked \subseteq Strings /\ \A o \in asked : IsWhite(o)
    BY AskedAre DEF Always
  <1> HIDE DEF asked
  <1>3. mark' \in [Obj -> Marks] /\ \A o \in Obj : Alive(o)' = Alive(o)
    <2>1. mark' \in [Obj -> Marks]
      BY <1>1 DEF Always, TypeOK, Marks
    <2> QED
      BY <1>1, <1>2, <2>1 DEF Alive, IsWhite, Whites
  <1>4. fld' \in [Obj -> [Slots -> Opt(Obj)]] /\
        \A o \in Obj : fld'[o]["mt"] = fld[o]["mt"] /\ fld'[o]["env"] = fld[o]["env"]
    <2>1. fld \in [Obj -> [Slots -> Opt(Obj)]] /\ {"mt", "env", "key", "val"} = Slots
      BY FieldsAre DEF Always, TypeOK, Opt
    <2> QED
      BY <1>1, <2>1 DEF Opt
  <1>5. white' \in Whites
    BY <1>1, Flipped DEF Always, OtherWhite, Whites
  <1>6. TypeOK'
    BY <1>1, <1>3, <1>4, <1>5 DEF Always, TypeOK, Marks, Opt, AllToSweep, SweepStates
  <1>7. UdataOK'
    BY <1>1, <1>2, <1>4, KindsAre DEF Always, UdataOK
  <1>8. OpenOK'
    <2>1. \A uv \in UpVals : IsOpen(uv)' = IsOpen(uv) /\ Alive(uv)' = Alive(uv)
                             /\ (mark'[uv] = "black" => mark[uv] = "black")
      BY <1>1, <1>3, KindsAre DEF IsOpen
    <2>2. \A th \in Threads : Alive(th)' = Alive(th)
      BY <1>3, KindsAre
    <2> QED
      BY <1>1, <2>1, <2>2 DEF Always, OpenOK
  <1>9. ListsOK'
    BY <1>1, MarkStatesAre DEF ListsOK
  <1>10. RestOK'
    <2>1. \A o \in Obj : mark'[o] \in {"gray", "black"} => Alive(o)
      BY <1>3 DEF Alive
    <2> QED
      BY <1>1, <2>1, ToSweep DEF RestOK
  <1>11. UnsweptOK'
    BY <1>1, <1>3, ToSweepUnswept, MarkStatesAre
  <1>12. FinsOK'
    BY <1>1, <1>3, KindsAre DEF Always, FinsOK, InTmu, InList
  <1> QED
    BY <1>6, <1>7, <1>8, <1>9, <1>10, <1>11, <1>12 DEF Always

\* luaC_fullgc keeps Always, whichever state the collector is in.
LEMMA FullGCAlways ==
    ASSUME Always, FullGC
    PROVE  Always'
  <1>1. UNCHANGED <<world, mark, fin, fld, stack, open, cur, basic, white, udlist, tmudata,
                    closing, calls>> /\ full' = 1
    BY DEF FullGC
  <1>2. CASE gcstate \in {"pause", "propagate"}
    <2>1. /\ gray' = {} /\ grayagain' = {} /\ weak' = {} /\ unswept' = AllToSweep
          /\ sweepgc' = Nil /\ gcstate' = "sweepstring"
      BY <1>2 DEF FullGC, AllToSweep
    <2>2. TypeOK'
      BY <1>1, <2>1 DEF Always, TypeOK, AllToSweep, SweepStates
    <2>3. UdataOK' /\ OpenOK' /\ FinsOK'
      BY <1>1 DEF Always, UdataOK, OpenOK, FinsOK, InTmu, InList, IsOpen, Alive
    <2>4. ListsOK'
      BY <2>1, MarkStatesAre DEF ListsOK
    <2>5. RestOK'
      <3>1. \A o \in Obj : mark'[o] \in {"gray", "black"} => Alive(o)
        BY <1>1 DEF Alive
      <3> QED
        BY <1>1, <2>1, <3>1, ToSweep DEF RestOK
    <2>6. UnsweptOK'
      <3>1. \A o \in Obj : Alive(o) => Alive(o)'
        BY <1>1 DEF Alive
      <3> QED
        BY <1>1, <2>1, <3>1, ToSweepUnswept, MarkStatesAre
    <2> QED
      BY <2>2, <2>3, <2>4, <2>5, <2>6 DEF Always
  <1>3. CASE gcstate \notin {"pause", "propagate"}
    <2>1. UNCHANGED <<gray, grayagain, weak, unswept, sweepgc, gcstate>>
      BY <1>3 DEF FullGC
    <2>2. TypeOK'
      BY <1>1, <2>1 DEF Always, TypeOK
    <2>3. UdataOK' /\ OpenOK' /\ FinsOK' /\ ListsOK' /\ RestOK' /\ UnsweptOK'
      BY <1>1, <2>1 DEF Always, UdataOK, OpenOK, FinsOK, InTmu, InList, IsOpen, Alive,
                        ListsOK, Partition, RestOK, UnsweptOK, Left
    <2> QED
      BY <2>2, <2>3 DEF Always
  <1> QED
    BY <1>2, <1>3

\* The steps between two states of the collector.
LEMMA TurnAlways ==
    ASSUME Always, SweepStringEnd \/ SweepEnd \/ EndCycle
    PROVE  Always'
  <1>1. UNCHANGED <<world, mark, fin, fld, stack, open, cur, basic, white, gray, grayagain, weak,
                    udlist, tmudata, unswept, closing, calls>>
    BY DEF SweepStringEnd, SweepEnd, EndCycle
  <1>2. gcstate \in Resting /\ gcstate' \in Resting /\ full' \in 0..2
        /\ sweepgc' \in Udata \cup {Nil}
    BY MarkStatesAre DEF SweepStringEnd, SweepEnd, EndCycle, Always, TypeOK
  <1>3. TypeOK'
    BY <1>1, <1>2 DEF Always, TypeOK, Resting
  <1>4. UdataOK' /\ OpenOK' /\ FinsOK' /\ RestOK'
    BY <1>1, <1>2 DEF Always, UdataOK, OpenOK, FinsOK, InTmu, InList, IsOpen, Alive, RestOK, Left
  <1>5. ListsOK'
    BY <1>2, MarkStatesAre DEF ListsOK
  <1>6. gcstate' \in SweepStates \/ unswept' = {}
    BY <1>1, MarkStatesAre DEF SweepStringEnd, SweepEnd, EndCycle, Always, UnsweptOK
  <1>7. UnsweptOK'
    BY <1>1, <1>2, <1>6, MarkStatesAre DEF Always, UnsweptOK, InTmu, Alive, IsOpen
  <1> QED
    BY <1>3, <1>4, <1>5, <1>7 DEF Always

\* A sweep astray in the finalized userdata keeps Always: it makes one of them white.
LEMMA SweepAstrayAlways ==
    ASSUME Always, NEW u, SweepAstray(u)
    PROVE  Always'
  <1>1. /\ gcstate = "sweep" /\ InTmu(u) /\ mark' = [mark EXCEPT ![u] = white]
        /\ UNCHANGED <<world, fin, fld, stack, open, cur, basic, gcvars, udlist, tmudata,
                       closing, calls>>
    BY DEF SweepAstray, InTmu
  <1>2. gcstate' = gcstate /\ white' = white /\ gray' = gray /\ grayagain' = grayagain
        /\ weak' = weak /\ unswept' = unswept /\ sweepgc' = sweepgc /\ full' = full
    BY <1>1 DEF gcvars
  <1>3. u \in Udata /\ Alive(u)
    <2>1. tmudata \in Seq(Udata)
      BY DEF Always, TypeOK
    <2> QED
      BY <1>1, <2>1 DEF Always, FinsOK, InTmu
  <1>4. /\ white \in Whites /\ white \notin {"gray", "black", "free"}
        /\ mark' \in [Obj -> Marks] /\ mark \in [Obj -> Marks]
    BY <1>1 DEF Always, TypeOK, Marks, Whites
  <1>5. \A o \in Obj : /\ Alive(o)' = Alive(o)
                       /\ mark'[o] \in {"gray", "black"} => mark'[o] = mark[o]
    BY <1>1, <1>3, <1>4 DEF Alive
  <1>6. \A o : InTmu(o)' = InTmu(o) /\ InList(o)' = InList(o) /\ IsOpen(o)' = IsOpen(o)
               /\ Left(o)' = Left(o)
    BY <1>1, <1>2 DEF InTmu, InList, IsOpen, Left
  <1>7. TypeOK'
    BY <1>1, <1>2, <1>4 DEF Always, TypeOK, Marks
  <1>8. UdataOK'
    BY <1>1, <1>5, KindsAre DEF Always, UdataOK
  <1>9. OpenOK'
    <2>1. \A uv \in UpVals : IsOpen(uv)' = IsOpen(uv) /\ Alive(uv)' = Alive(uv)
                             /\ (mark'[uv] = "black" => mark[uv] = "black")
      BY <1>5, <1>6, KindsAre
    <2>2. \A th \in Threads : Alive(th)' = Alive(th)
      BY <1>5, KindsAre
    <2> QED
      BY <1>1, <2>1, <2>2 DEF Always, OpenOK
  <1>10. ListsOK'
    BY <1>1, <1>2, MarkStatesAre DEF ListsOK
  <1>11. RestOK'
    BY <1>2, <1>5, <1>6 DEF Always, RestOK
  <1>12. UnsweptOK'
    <2>1. unswept \subseteq Obj
      BY DEF Always, TypeOK
    <2> QED
      BY <1>2, <1>5, <1>6, <2>1 DEF Always, UnsweptOK
  <1>13. FinsOK'
    BY <1>1, <1>5, <1>6, KindsAre DEF Always, FinsOK
  <1> QED
    BY <1>7, <1>8, <1>9, <1>10, <1>11, <1>12, <1>13 DEF Always

\* One step of the sweep: an object, and with a thread its open upvalues.
Swept(o) == {o} \cup (IF o \in Threads THEN OpenOf(o) ELSE {})
SweepOne(o) ==
  /\ gcstate \in SweepStates /\ gcstate' = gcstate /\ o \in unswept
  /\ Sweep(Swept(o))
  /\ unswept' = unswept \ {o}
  /\ sweepgc' \in Udata \cup {Nil}
  /\ UNCHANGED <<world, cur, basic, white, gray, grayagain, weak, tmudata, full, closing>>

\* A step of either sweep visits one object.
LEMMA SweepSteps ==
    ASSUME Always, NEW o \in Obj, SweepString(o) \/ SweepObject(o)
    PROVE  SweepOne(o)
  <1>1. CASE SweepString(o)
    <2>1. o \in Strings /\ o \in unswept
      BY <1>1 DEF SweepString
    <2>2. Swept(o) = {o}
      BY <2>1, KindsAre DEF Swept
    <2> QED
      BY <1>1, <2>1, <2>2 DEF SweepString, SweepOne, SweepStates, Always, TypeOK
  <1>2. CASE SweepObject(o)
    BY <1>2 DEF SweepObject, SweepOne, SweepStates, Swept, Always, TypeOK
  <1> QED
    BY <1>1, <1>2

\* What a step of the sweep does: what is dead is erased, the upvalues of a
\* thread that is are closed.
Erased(o) == {x \in Swept(o) : IsDead(x)}
Closed1(o) == {uv \in UpVals \ Erased(o) : IsOpen(uv) /\ open[uv].th \in Erased(o)}

\* A step of the sweep visits objects that are alive and do not wait for a finalizer;
\* what it visits it does not visit again.
LEMMA SweptAre ==
    ASSUME Always, NEW o \in Obj, SweepOne(o)
    PROVE  /\ Swept(o) \subseteq Obj /\ Erased(o) \subseteq Swept(o)
           /\ Closed1(o) \subseteq Swept(o) \ Erased(o)
           /\ \A x \in Swept(o) : Alive(x) /\ ~InTmu(x)
           /\ \A x \in unswept' : x \notin Swept(o)
           /\ \A uv \in UpVals : IsOpen(uv) /\ open[uv].th \in Swept(o) => uv \in Swept(o)
           /\ \A th \in Threads : th \in Swept(o) => th = o
           /\ \A u \in Udata : u \in Swept(o) => u = o
  <1>1. unswept' = unswept \ {o} /\ o \in unswept /\ gcstate \in SweepStates
    BY DEF SweepOne
  <1>2. \A x \in unswept : x \in Obj /\ Alive(x) /\ ~InTmu(x) /\ ~(x \in UpVals /\ IsOpen(x))
    BY <1>1, MarkStatesAre DEF Always, UnsweptOK, TypeOK
  <1>3. \A x \in Swept(o) : x = o \/ (x \in UpVals /\ open[x].th = o /\ o \in Threads)
    BY DEF Swept, OpenOf
  <1>4. \A uv \in UpVals : IsOpen(uv) => open[uv].th \in Threads /\ Alive(uv)
    BY DEF Always, OpenOK
  <1>5. \A uv \in UpVals : o \in Threads /\ open[uv].th = o => IsOpen(uv)
    BY KindsAre DEF IsOpen, NotOpen
  <1>6. \A x \in Swept(o) : x # o => x \in UpVals /\ IsOpen(x) /\ open[x].th = o
    BY <1>3, <1>5
  <1>7. \A x \in UpVals : ~InTmu(x)
    <2>1. tmudata \in Seq(Udata)
      BY DEF Always, TypeOK
    <2> QED
      BY <2>1, KindsAre DEF InTmu
  <1>8. \A uv \in UpVals : IsOpen(uv) /\ open[uv].th \in Swept(o) => uv \in Swept(o)
    <2>1. TAKE uv \in UpVals
    <2>2. HAVE IsOpen(uv) /\ open[uv].th \in Swept(o)
    <2>3. open[uv].th \in Threads /\ open[uv].th = o
      BY <1>3, <1>4, <2>2, KindsAre
    <2> QED
      BY <2>3 DEF Swept, OpenOf
  <1>9. Erased(o) \subseteq Swept(o)
    BY DEF Erased
  <1>10. Closed1(o) \subseteq Swept(o) \ Erased(o)
    BY <1>8, <1>9 DEF Closed1
  <1>11. Swept(o) \subseteq Obj
    BY <1>3, KindsAre
  <1>12. \A x \in Swept(o) : Alive(x) /\ ~InTmu(x)
    BY <1>1, <1>2, <1>4, <1>6, <1>7
  <1>13. \A x \in unswept' : x \notin Swept(o)
    BY <1>1, <1>2, <1>6
  <1>14. /\ \A th \in Threads : th \in Swept(o) => th = o
         /\ \A u \in Udata : u \in Swept(o) => u = o
    BY <1>3, KindsAre
  <1> QED
    BY <1>8, <1>9, <1>10, <1>11, <1>12, <1>13, <1>14

\* A step of the sweep, variable by variable.
LEMMA SweepIs ==
    ASSUME Always, NEW o \in Obj, SweepOne(o), NEW D, D = Erased(o), NEW C, C = Closed1(o)
    PROVE  /\ mark' = [x \in Obj |-> IF x \in D THEN "free"
                                     ELSE IF x \in Swept(o) THEN white ELSE mark[x]]
           /\ fld' = [x \in Obj |-> IF x \in D THEN NoRefs
                                    ELSE IF x \in C THEN [NoRefs EXCEPT !["val"] = UpValue(x)]
                                    ELSE fld[x]]
           /\ open' = [uv \in UpVals |-> IF uv \in D \cup C THEN NotOpen ELSE open[uv]]
           /\ stack' = [th \in Threads |-> IF th \in D THEN <<>> ELSE stack[th]]
           /\ udlist' = Only(udlist, Udata \ D) /\ fin' = fin \ D
           /\ calls' = [u \in Udata |-> IF u \in D THEN 0 ELSE calls[u]]
  BY DEF SweepOne, Sweep, Erased, Closed1

\* A step of the sweep keeps Always.
LEMMA SweepAlways ==
    ASSUME Always, NEW o \in Obj, SweepOne(o)
    PROVE  Always'
  <1> DEFINE D == Erased(o)
             C == Closed1(o)
             S == Swept(o)
  <1>1. /\ mark' = [x \in Obj |-> IF x \in D THEN "free" ELSE IF x \in S THEN white ELSE mark[x]]
        /\ fld' = [x \in Obj |-> IF x \in D THEN NoRefs
                                 ELSE IF x \in C THEN [NoRefs EXCEPT !["val"] = UpValue(x)]
                                 ELSE fld[x]]
        /\ open' = [uv \in UpVals |-> IF uv \in D \cup C THEN NotOpen ELSE open[uv]]
        /\ stack' = [th \in Threads |-> IF th \in D THEN <<>> ELSE stack[th]]
        /\ udlist' = Only(udlist, Udata \ D) /\ fin' = fin \ D
        /\ calls' = [u \in Udata |-> IF u \in D THEN 0 ELSE calls[u]]
    BY SweepIs
  <1>2. /\ gcstate \in SweepStates /\ gcstate' = gcstate /\ unswept' = unswept \ {o}
        /\ sweepgc' \in Udata \cup {Nil}
        /\ UNCHANGED <<world, cur, basic, white, gray, grayagain, weak, tmudata, full, closing>>
    BY DEF SweepOne
  <1>3. /\ S \subseteq Obj /\ D \subseteq S /\ C \subseteq S \ D
        /\ \A x \in S : Alive(x) /\ ~InTmu(x)
        /\ \A x \in unswept' : x \notin S
        /\ \A uv \in UpVals : IsOpen(uv) /\ open[uv].th \in S => uv \in S
        /\ \A th \in Threads : th \in S => th = o
        /\ \A u \in Udata : u \in S => u = o
    BY SweptAre
  <1>4. \A uv \in UpVals : /\ uv \in C <=> uv \notin D /\ IsOpen(uv) /\ open[uv].th \in D
                           /\ IsOpen(uv) <=> open[uv] # NotOpen
    BY DEF Closed1, IsOpen
  <1> HIDE DEF D, C, S
  <1>5. white \in Whites /\ white \notin {"gray", "black", "free"} /\ mark \in [Obj -> Marks]
    BY DEF Always, TypeOK, Marks, Whites
  <1>6. \A x \in Obj : /\ Alive(x)' <=> Alive(x) /\ x \notin D
                       /\ mark'[x] \in {"gray", "black"} => mark'[x] = mark[x] /\ x \notin S
    BY <1>1, <1>3, <1>5 DEF Alive
  <1>7. \A uv \in UpVals : IsOpen(uv)' <=> IsOpen(uv) /\ uv \notin D \cup C
    BY <1>1 DEF IsOpen
  <1>8. \A uv \in UpVals : IsOpen(uv)' => open'[uv] = open[uv]
    BY <1>1 DEF IsOpen
  <1>9. \A u : InTmu(u)' = InTmu(u)
    BY <1>2 DEF InTmu
  <1>10. udlist' \in Seq(Udata) /\ Injective(udlist') /\
         \A u \in Udata : InList(u)' => InList(u) /\ u \notin D
    <2> DEFINE keep == Udata \ D
               r == Only(udlist, keep)
    <2>1. udlist \in Seq(Udata) /\ Injective(udlist)
      BY DEF Always, TypeOK, FinsOK
    <2>2. keep \subseteq Udata /\ (\A x \in keep : x \notin D) /\ udlist' = r
      BY <1>1
    <2> HIDE DEF keep
    <2>3. /\ r \in Seq(Udata)
          /\ \A i \in DOMAIN r : r[i] \in keep /\ \E j \in DOMAIN udlist : udlist[j] = r[i]
          /\ Injective(r)
      BY <2>1, OnlyIs
    <2> HIDE DEF r
    <2> QED
      BY <2>2, <2>3 DEF InList
  <1>11. TypeOK'
    <2>1. mark' \in [Obj -> Marks]
      BY <1>1, <1>5 DEF Marks, Whites
    <2>2. fld' \in [Obj -> [Slots -> Opt(Obj)]]
      <3>1. fld \in [Obj -> [Slots -> Opt(Obj)]]
        BY DEF Always, TypeOK, Opt
      <3>2. NoRefs \in [Slots -> Opt(Obj)]
        BY DEF NoRefs, Opt
      <3>3. \A uv \in C : UpValue(uv) \in Opt(Obj)
        BY <1>4, UpValuesAre DEF Always, C, Closed1
      <3>4. \A uv \in C : [NoRefs EXCEPT !["val"] = UpValue(uv)] \in [Slots -> Opt(Obj)]
        BY <3>2, <3>3
      <3> QED
        BY <1>1, <3>1, <3>2, <3>4
    <2>3. stack' \in [Threads -> Seq(Obj)]
      <3>1. stack \in [Threads -> Seq(Obj)] /\ <<>> \in Seq(Obj)
        BY DEF Always, TypeOK
      <3> QED
        BY <1>1, <3>1
    <2>4. open' \in [UpVals -> [th : Threads \cup {Nil}, lvl : Nat]]
      <3>1. open \in [UpVals -> [th : Threads \cup {Nil}, lvl : Nat]]
        BY DEF Always, TypeOK
      <3>2. NotOpen \in [th : Threads \cup {Nil}, lvl : Nat]
        BY DEF NotOpen
      <3> QED
        BY <1>1, <3>1, <3>2
    <2>5. calls' \in [Udata -> Nat] /\ fin' \subseteq Udata
      BY <1>1 DEF Always, TypeOK
    <2>6. {gray', grayagain', weak', unswept'} \subseteq SUBSET Obj
      BY <1>2 DEF Always, TypeOK
    <2> QED
      BY <1>2, <1>10, <2>1, <2>2, <2>3, <2>4, <2>5, <2>6 DEF Always, TypeOK, Marks, Opt
  <1>12. UdataOK'
    <2> SUFFICES ASSUME NEW u \in Udata
                 PROVE  /\ mark'[u] # "gray"
                        /\ {fld'[u]["mt"], fld'[u]["env"]} \subseteq Opt(Tables)
      BY DEF UdataOK, Opt, Tables
    <2>2. u \in Obj /\ u \notin C
      BY <1>4, KindsAre DEF C, Closed1
    <2>3. fld'[u] = NoRefs \/ fld'[u] = fld[u]
      BY <1>1, <2>2
    <2>4. NoRefs["mt"] = Nil /\ NoRefs["env"] = Nil
      BY DEF NoRefs, Slots
    <2>5. mark'[u] # "gray"
      BY <1>6, <2>2 DEF Always, UdataOK
    <2>6. {fld[u]["mt"], fld[u]["env"]} \subseteq Opt(Tables)
      BY DEF Always, UdataOK
    <2>7. Nil \in Opt(Tables)
      BY DEF Opt
    <2> QED
      BY <2>3, <2>4, <2>5, <2>6, <2>7
  <1>13. OpenOK'
    <2> SUFFICES ASSUME NEW uv \in UpVals, IsOpen(uv)'
                 PROVE  /\ Alive(uv)' /\ mark'[uv] # "black"
                        /\ open'[uv].th \in Threads /\ mark'[open'[uv].th] # "free"
                        /\ open'[uv].lvl \in 1..Len(stack'[open'[uv].th])
      BY DEF OpenOK, Alive
    <2>0. PICK th : th = open[uv].th
      OBVIOUS
    <2>1. IsOpen(uv) /\ uv \notin D /\ uv \notin C /\ open'[uv] = open[uv] /\ uv \in Obj
      BY <1>7, <1>8, KindsAre
    <2>2. /\ Alive(uv) /\ mark[uv] # "black" /\ th \in Threads /\ Alive(th)
          /\ open[uv].lvl \in 1..Len(stack[th])
      BY <2>0, <2>1 DEF Always, OpenOK
    <2>3. th \notin D /\ th \in Obj
      BY <1>4, <2>0, <2>1, <2>2, KindsAre
    <2>4. Alive(uv)' /\ Alive(th)' /\ mark'[uv] # "black"
      BY <1>6, <2>1, <2>2, <2>3
    <2>5. stack'[th] = stack[th]
      BY <1>1, <2>2, <2>3
    <2> QED
      BY <2>0, <2>1, <2>2, <2>4, <2>5 DEF Alive
  <1>14. ListsOK'
    BY <1>2, MarkStatesAre DEF ListsOK
  <1>15. RestOK'
    <2> SUFFICES ASSUME NEW x \in Obj, mark'[x] \in {"gray", "black"}
                 PROVE  Left(x)' \/ InTmu(x)'
      BY DEF RestOK
    <2>1. mark'[x] = mark[x] /\ x \notin S
      BY <1>6
    <2>2. Left(x) \/ InTmu(x)
      BY <1>2, <2>1, MarkStatesAre DEF Always, RestOK
    <2>3. o \in S
      BY DEF S, Swept
    <2>4. CASE x \in unswept
      BY <1>2, <2>1, <2>3, <2>4 DEF Left
    <2>5. CASE x \in UpVals /\ IsOpen(x) /\ open[x].th \in unswept
      <3>1. x \notin D /\ x \notin C
        BY <1>3, <2>1
      <3>2. open[x].th \notin S
        BY <1>3, <2>1, <2>5
      <3> QED
        BY <1>2, <1>7, <1>8, <2>3, <2>5, <3>1, <3>2 DEF Left
    <2> QED
      BY <1>9, <2>2, <2>4, <2>5 DEF Left
  <1>16. UnsweptOK'
    <2>1. \A x \in unswept : x \in Obj /\ Alive(x) /\ ~InTmu(x) /\ ~(x \in UpVals /\ IsOpen(x))
      BY <1>2, MarkStatesAre DEF Always, UnsweptOK, TypeOK
    <2>2. ASSUME NEW x \in unswept'
          PROVE  Alive(x)' /\ ~InTmu(x)' /\ ~(x \in UpVals /\ IsOpen(x)')
      BY <1>2, <1>3, <1>6, <1>7, <1>9, <2>1, <2>2
    <2> QED
      BY <1>2, <2>2 DEF UnsweptOK
  <1>17. FinsOK'
    <2>1. Injective(tmudata') /\ Injective(udlist')
      BY <1>2, <1>10 DEF Always, FinsOK
    <2>2. ASSUME NEW u \in Udata
          PROVE  /\ InTmu(u)' => ~InList(u)' /\ Alive(u)' /\ u \in fin'
                 /\ InList(u)' => Alive(u)'
                 /\ calls'[u] \in {0, 1}
                 /\ calls'[u] = 1 => u \in fin' /\ ~InTmu(u)'
      <3>1. /\ InTmu(u) => ~InList(u) /\ Alive(u) /\ u \in fin
            /\ InList(u) => Alive(u)
            /\ calls[u] \in {0, 1}
            /\ calls[u] = 1 => u \in fin /\ ~InTmu(u)
        BY DEF Always, FinsOK
      <3>2. InTmu(u) => u \notin D
        BY <1>3
      <3>3. u \in Obj
        BY KindsAre
      <3>4. calls'[u] = IF u \in D THEN 0 ELSE calls[u]
        BY <1>1
      <3> QED
        BY <1>1, <1>6, <1>9, <1>10, <3>1, <3>2, <3>3, <3>4
    <2>3. Injective(tmudata)' /\ Injective(udlist)'
      BY <2>1 DEF Injective
    <2> QED
      BY <2>2, <2>3 DEF FinsOK
  <1> QED
    BY <1>11, <1>12, <1>13, <1>14, <1>15, <1>16, <1>17 DEF Always

-----------------------------------------------------------------------------
(* Stacks and finalizers. *)

\* A value pushed on the stack of the running thread.
LEMMA PushIs ==
    ASSUME TypeOK, NEW v \in Obj, stack' = [stack EXCEPT ![cur] = Append(@, v)]
    PROVE  /\ stack' \in [Threads -> Seq(Obj)]
           /\ \A th \in Threads :
                /\ 1..Len(stack[th]) \subseteq 1..Len(stack'[th])
                /\ \A i \in 1..Len(stack[th]) : stack'[th][i] = stack[th][i]
                /\ th # cur => stack'[th] = stack[th]
           /\ {stack'[cur][i] : i \in DOMAIN stack'[cur]} \subseteq StackValues(cur) \cup {v}
  <1>1. stack \in [Threads -> Seq(Obj)] /\ cur \in Threads
    BY DEF TypeOK
  <1>2. stack'[cur] = Append(stack[cur], v) /\ stack[cur] \in Seq(Obj)
    BY <1>1
  <1>3. \A th \in Threads : th # cur => stack'[th] = stack[th]
    BY <1>1
  <1>4. stack' \in [Threads -> Seq(Obj)]
    BY <1>1, <1>2, <1>3
  <1>5. /\ Len(stack'[cur]) = Len(stack[cur]) + 1 /\ Len(stack[cur]) \in Nat
        /\ DOMAIN stack'[cur] = 1..(Len(stack[cur]) + 1)
        /\ DOMAIN stack[cur] = 1..Len(stack[cur])
        /\ \A i \in 1..Len(stack[cur]) : stack'[cur][i] = stack[cur][i]
        /\ stack'[cur][Len(stack[cur]) + 1] = v
    BY <1>2
  <1>6. \A th \in Threads : /\ 1..Len(stack[th]) \subseteq 1..Len(stack'[th])
                            /\ \A i \in 1..Len(stack[th]) : stack'[th][i] = stack[th][i]
    BY <1>3, <1>5
  <1>7. \A i \in 1..(Len(stack[cur]) + 1) :
           i \in 1..Len(stack[cur]) \/ i = Len(stack[cur]) + 1
    BY <1>5
  <1>8. {stack'[cur][i] : i \in DOMAIN stack'[cur]} \subseteq StackValues(cur) \cup {v}
    BY <1>5, <1>7 DEF StackValues
  <1> QED
    BY <1>3, <1>4, <1>6, <1>8

\* The open upvalues when none is closed and no stack is cut.
Deeper == \A th \in Threads : 1..Len(stack[th]) \subseteq 1..Len(stack'[th])

\* The open upvalues stay right while no thread loses a value.
LEMMA OpenSame ==
    ASSUME Always, open' = open, \A o \in Obj : Alive(o) => Alive(o)', Deeper,
           \A uv \in UpVals : IsOpen(uv) /\ mark[uv] # "black" => mark'[uv] # "black"
    PROVE  OpenOK'
  <1>1. \A uv \in UpVals : IsOpen(uv)' = IsOpen(uv) /\ (Alive(uv) => Alive(uv)')
    BY KindsAre DEF IsOpen
  <1>2. \A th \in Threads : Alive(th) => Alive(th)'
    BY KindsAre
  <1> QED
    BY <1>1, <1>2 DEF Always, OpenOK, Deeper

\* A list and its first element.
LEMMA HeadIs ==
    ASSUME NEW A, NEW s \in Seq(A), s # <<>>, Injective(s)
    PROVE  /\ Head(s) \in A /\ Tail(s) \in Seq(A) /\ Injective(Tail(s))
           /\ InSeq(Head(s), s) /\ ~InSeq(Head(s), Tail(s))
           /\ \A x : InSeq(x, s) => x = Head(s) \/ InSeq(x, Tail(s))
           /\ \A x : InSeq(x, Tail(s)) => InSeq(x, s)
  <1> DEFINE n == Len(s)
             t == Tail(s)
  <1>1. /\ n \in Nat /\ n >= 1 /\ DOMAIN s = 1..n /\ DOMAIN t = 1..(n - 1)
        /\ Head(s) = s[1] /\ Head(s) \in A /\ t \in Seq(A)
    OBVIOUS
  <1>2. \A i \in 1..(n - 1) : t[i] = s[i + 1]
    OBVIOUS
  <1> HIDE DEF n, t
  <1>3. \A i \in DOMAIN t : i + 1 \in DOMAIN s /\ i + 1 # 1 /\ t[i] = s[i + 1] /\ i \in Nat
    BY <1>1, <1>2
  <1>4. \A i \in DOMAIN s : i # 1 => i - 1 \in DOMAIN t /\ t[i - 1] = s[i]
    <2>1. TAKE i \in DOMAIN s
    <2>2. HAVE i # 1
    <2>3. i - 1 \in 1..(n - 1) /\ (i - 1) + 1 = i
      BY <1>1, <2>2
    <2>4. t[i - 1] = s[(i - 1) + 1]
      BY <1>2, <2>3
    <2> QED
      BY <1>1, <2>3, <2>4
  <1>5. 1 \in DOMAIN s
    BY <1>1
  <1>6. ASSUME NEW i \in DOMAIN t, NEW j \in DOMAIN t, t[i] = t[j]
        PROVE  i = j
    <2>1. i + 1 = j + 1
      BY <1>3, <1>6 DEF Injective
    <2> QED
      BY <1>3, <2>1
  <1>7. Injective(t)
    BY <1>6 DEF Injective
  <1>8. ~InSeq(s[1], t)
    BY <1>3, <1>5 DEF InSeq, Injective
  <1>9. \A x : InSeq(x, t) => InSeq(x, s)
    BY <1>3 DEF InSeq
  <1>10. \A x : InSeq(x, s) => x = s[1] \/ InSeq(x, t)
    BY <1>4 DEF InSeq
  <1>11. InSeq(s[1], s)
    BY <1>5 DEF InSeq
  <1> QED
    BY <1>1, <1>7, <1>8, <1>9, <1>10, <1>11 DEF t

\* A list with an element put before it.
LEMMA FrontIs ==
    ASSUME NEW A, NEW s \in Seq(A), NEW x \in A, Injective(s), ~InSeq(x, s)
    PROVE  /\ <<x>> \o s \in Seq(A) /\ Injective(<<x>> \o s)
           /\ \A y : InSeq(y, <<x>> \o s) <=> y = x \/ InSeq(y, s)
  <1>1. <<x>> \in Seq(A) /\ DOMAIN <<x>> = {1} /\ <<x>>[1] = x
    OBVIOUS
  <1>2. Injective(<<x>>) /\ \A y : InSeq(y, <<x>>) <=> y = x
    BY <1>1 DEF Injective, InSeq
  <1>3. \A i \in DOMAIN <<x>>, j \in DOMAIN s : <<x>>[i] # s[j]
    BY <1>1 DEF InSeq
  <1>4. <<x>> \o s \in Seq(A)
    BY <1>1
  <1>5. Injective(<<x>> \o s)
    BY <1>1, <1>2, <1>3, ConcatInjective
  <1>6. \A y : InSeq(y, <<x>> \o s) <=> InSeq(y, <<x>>) \/ InSeq(y, s)
    BY <1>1, ConcatHas
  <1> QED
    BY <1>2, <1>4, <1>5, <1>6

\* A finalizer call keeps Always: the userdata is white, back on its list, called once.
LEMMA GCTMAlways ==
    ASSUME Always, GCTM, full' \in 0..2,
           UNCHANGED <<world, fin, fld, open, cur, basic, gcstate, white, gray, grayagain, weak,
                       unswept, sweepgc, closing>>
    PROVE  Always'
  <1>0. PICK ud : ud = Head(tmudata)
    OBVIOUS
  <1>1. /\ tmudata # <<>> /\ tmudata' = Tail(tmudata) /\ udlist' = <<ud>> \o udlist
        /\ mark' = [mark EXCEPT ![ud] = white]
        /\ \/ /\ stack' = [stack EXCEPT ![cur] = Append(@, ud)]
              /\ calls' = [calls EXCEPT ![ud] = @ + 1]
           \/ stack' = stack /\ calls' = calls
    BY <1>0 DEF GCTM
  <1>2. /\ tmudata \in Seq(Udata) /\ udlist \in Seq(Udata)
        /\ Injective(tmudata) /\ Injective(udlist)
    BY DEF Always, TypeOK, FinsOK
  <1>3. \A x : /\ InTmu(x) <=> InSeq(x, tmudata)
               /\ InList(x) <=> InSeq(x, udlist)
               /\ InTmu(x)' <=> InSeq(x, tmudata')
               /\ InList(x)' <=> InSeq(x, udlist')
    BY DEF InTmu, InList, InSeq
  <1>4. /\ ud \in Udata /\ tmudata' \in Seq(Udata) /\ Injective(tmudata')
        /\ InTmu(ud) /\ ~InTmu(ud)'
        /\ \A x : InTmu(x) => x = ud \/ InTmu(x)'
        /\ \A x : InTmu(x)' => InTmu(x)
    <2>1. /\ ud \in Udata /\ Tail(tmudata) \in Seq(Udata) /\ Injective(Tail(tmudata))
          /\ InSeq(ud, tmudata) /\ ~InSeq(ud, Tail(tmudata))
          /\ \A x : InSeq(x, tmudata) => x = ud \/ InSeq(x, Tail(tmudata))
          /\ \A x : InSeq(x, Tail(tmudata)) => InSeq(x, tmudata)
      BY <1>0, <1>1, <1>2, HeadIs
    <2> QED
      BY <1>1, <1>3, <2>1
  <1>5. Alive(ud) /\ ~InList(ud) /\ ud \in fin /\ calls[ud] = 0 /\ ud \in Obj
    BY <1>4, KindsAre DEF Always, FinsOK
  <1>6. /\ udlist' \in Seq(Udata) /\ Injective(udlist')
        /\ \A x : InList(x)' => x = ud \/ InList(x)
    <2>1. ~InSeq(ud, udlist)
      BY <1>3, <1>5
    <2>2. /\ <<ud>> \o udlist \in Seq(Udata) /\ Injective(<<ud>> \o udlist)
          /\ \A y : InSeq(y, <<ud>> \o udlist) <=> y = ud \/ InSeq(y, udlist)
      BY <1>2, <1>4, <2>1, FrontIs
    <2> QED
      BY <1>1, <1>3, <2>2
  <1>7. white \in Whites /\ white \notin {"gray", "black", "free"} /\ mark \in [Obj -> Marks]
    BY DEF Always, TypeOK, Marks, Whites
  <1>8. \A x \in Obj : /\ Alive(x)' = Alive(x)
                       /\ mark'[x] \in {"gray", "black"} => mark'[x] = mark[x] /\ x # ud
                       /\ x # ud => mark'[x] = mark[x]
    BY <1>1, <1>5, <1>7 DEF Alive
  <1>9. stack' \in [Threads -> Seq(Obj)] /\ Deeper
    <2>1. CASE stack' = [stack EXCEPT ![cur] = Append(@, ud)]
      BY <1>5, <2>1, PushIs DEF Always, Deeper
    <2>2. CASE stack' = stack
      BY <2>2 DEF Always, TypeOK, Deeper
    <2> QED
      BY <1>1, <2>1, <2>2
  <1>10. /\ calls' \in [Udata -> Nat]
         /\ \A u \in Udata : u # ud => calls'[u] = calls[u]
         /\ calls'[ud] \in {0, 1}
    <2>1. calls \in [Udata -> Nat] /\ calls[ud] + 1 = 1
      BY <1>5 DEF Always, TypeOK
    <2>2. CASE calls' = [calls EXCEPT ![ud] = @ + 1]
      BY <1>4, <2>1, <2>2
    <2>3. CASE calls' = calls
      BY <1>5, <2>1, <2>3
    <2> QED
      BY <1>1, <2>2, <2>3
  <1>11. TypeOK'
    <2>1. mark' \in [Obj -> Marks]
      BY <1>1, <1>7 DEF Marks, Whites
    <2> QED
      BY <1>4, <1>6, <1>9, <1>10, <2>1 DEF Always, TypeOK, Marks
  <1>12. UdataOK'
    BY <1>8, KindsAre DEF Always, UdataOK
  <1>13. OpenOK'
    <2>1. \A uv \in UpVals : IsOpen(uv) /\ mark[uv] # "black" => mark'[uv] # "black"
      BY <1>8, KindsAre
    <2> QED
      BY <1>8, <1>9, <2>1, OpenSame
  <1>14. ListsOK'
    <2>1. ASSUME gcstate \in MarkStates
          PROVE  Partition'
      <3>1. Partition
        BY <2>1 DEF Always, ListsOK
      <3>2. \A x \in Obj : mark'[x] = "gray" <=> mark[x] = "gray"
        BY <1>4, <1>7, <1>8 DEF Always, UdataOK
      <3> QED
        BY <3>1, <3>2 DEF Partition
    <2> QED
      BY <2>1 DEF ListsOK
  <1>15. \A x : Left(x)' = Left(x) /\ IsOpen(x)' = IsOpen(x)
    BY DEF Left, IsOpen
  <1>16. RestOK'
    BY <1>4, <1>8, <1>15 DEF Always, RestOK
  <1>17. UnsweptOK'
    <2>1. unswept \subseteq Obj
      BY DEF Always, TypeOK
    <2> QED
      BY <1>4, <1>8, <1>15, <2>1 DEF Always, UnsweptOK
  <1>18. FinsOK'
    <2>1. ASSUME NEW u \in Udata
          PROVE  /\ InTmu(u)' => ~InList(u)' /\ Alive(u)' /\ u \in fin'
                 /\ InList(u)' => Alive(u)'
                 /\ calls'[u] \in {0, 1}
                 /\ calls'[u] = 1 => u \in fin' /\ ~InTmu(u)'
      <3>1. /\ InTmu(u) => ~InList(u) /\ Alive(u) /\ u \in fin
            /\ InList(u) => Alive(u)
            /\ calls[u] \in {0, 1}
            /\ calls[u] = 1 => u \in fin /\ ~InTmu(u)
        BY DEF Always, FinsOK
      <3>2. u \in Obj /\ Alive(u)' = Alive(u)
        BY <1>8, KindsAre
      <3>3. fin' = fin
        OBVIOUS
      <3>4. CASE u = ud
        BY <1>4, <1>5, <1>10, <3>2, <3>3, <3>4
      <3>5. CASE u # ud
        <4>1. calls'[u] = calls[u] /\ (InTmu(u)' => InTmu(u)) /\ (InList(u)' => InList(u))
          BY <1>4, <1>6, <1>10, <3>5
        <4> QED
          BY <3>1, <3>2, <3>3, <4>1
      <3> QED
        BY <3>4, <3>5
    <2>2. Injective(tmudata)' /\ Injective(udlist)'
      BY <1>4, <1>6 DEF Injective
    <2> QED
      BY <2>1, <2>2 DEF FinsOK
  <1> QED
    BY <1>11, <1>12, <1>13, <1>14, <1>16, <1>17, <1>18 DEF Always

-----------------------------------------------------------------------------
(* The program. *)

\* What an operation of the program may do to the marks: objects turn gray or
\* black only while they are being marked.
Barred ==
  /\ mark' \in [Obj -> Marks]
  /\ \A o \in Obj : /\ Alive(o) => Alive(o)'
                    /\ mark'[o] \in {"gray", "black"} =>
                         mark[o] \in {"gray", "black"} \/ gcstate = "propagate"
  /\ \A u \in Udata : mark[u] # "gray" => mark'[u] # "gray"
  /\ \A uv \in UpVals : IsOpen(uv) /\ mark[uv] # "black" => mark'[uv] # "black"
  /\ gray' \cup grayagain' \cup weak' \subseteq Obj
  /\ gcstate \in MarkStates => Partition'

\* luaC_barrierback: a black table turns gray and is listed again.
LEMMA BackIs ==
    ASSUME Always, NEW t \in Tables, NEW S, BarrierBack(t, S), gray' = gray, weak' = weak
    PROVE  Barred
  <1>1. mark \in [Obj -> Marks] /\ gray \cup grayagain \cup weak \subseteq Obj /\ t \in Obj
        /\ t \notin Udata \cup UpVals \cup Strings
    BY KindsAre DEF Always, TypeOK, Marks
  <1>2. CASE mark' = mark /\ grayagain' = grayagain
    BY <1>1, <1>2 DEF Barred, Alive, Always, ListsOK, Partition
  <1>3. CASE mark[t] = "black" /\ mark' = [mark EXCEPT ![t] = "gray"]
             /\ grayagain' = grayagain \cup {t}
    <2>1. mark' \in [Obj -> Marks] /\ mark'[t] = "gray" /\ \A o \in Obj \ {t} : mark'[o] = mark[o]
      BY <1>1, <1>3 DEF Marks
    <2>2. ASSUME gcstate \in MarkStates
          PROVE  Partition'
      <3>1. Partition
        BY <2>2 DEF Always, ListsOK
      <3>2. t \notin gray \cup grayagain \cup weak
        BY <1>3, <3>1 DEF Partition
      <3> QED
        BY <1>1, <1>3, <2>1, <3>1, <3>2 DEF Partition
    <2> QED
      BY <1>1, <1>3, <2>1, <2>2, KindsAre DEF Barred, Alive
  <1> QED
    BY <1>2, <1>3 DEF BarrierBack

\* luaC_barrierf: the value is marked, or the object turns white while it is swept.
LEMMA ForwardIs ==
    ASSUME Always, NEW o, NEW v \in Opt(Obj), BarrierForward(o, v), ~Stopped,
           grayagain' = grayagain, weak' = weak
    PROVE  Barred
  <1>1. mark \in [Obj -> Marks] /\ gray \cup grayagain \cup weak \subseteq Obj
    BY DEF Always, TypeOK, Marks
  <1>2. CASE mark' = mark /\ gray' = gray
    BY <1>1, <1>2 DEF Barred, Alive, Always, ListsOK, Partition
  <1>3. CASE gcstate = "propagate" /\ mark' = Marked({v}) /\ gray' = gray \cup Grayed({v})
    <2> DEFINE G == Grayed({v})
    <2>1. Grown(mark', G)
      <3>1. {v} \in SUBSET Opt(Obj)
        OBVIOUS
      <3> QED
        BY <1>3, <3>1, MarkedIs DEF Always
    <2> HIDE DEF G
    <2>2. /\ Darker /\ \A x \in Obj : Alive(x)' = Alive(x)
          /\ Listed(mark') = Listed(mark) \cup G /\ Listed(mark) \cap G = {} /\ G \subseteq Obj
      BY <2>1, GrownIs DEF Always
    <2>3. Partition
      BY <1>3, MarkStatesAre DEF Always, ListsOK
    <2>4. gray' = gray \cup G
      BY <1>3 DEF G
    <2>5. Partition'
      BY <2>2, <2>3, <2>4 DEF Partition, Listed
    <2> QED
      BY <1>1, <1>3, <2>2, <2>4, <2>5 DEF Barred, Darker
  <1>4. CASE gcstate # "propagate" /\ mark[o] = "black" /\ mark' = [mark EXCEPT ![o] = white]
             /\ gray' = gray
    <2>1. gcstate \notin MarkStates
      BY <1>4 DEF Stopped, MarkStates
    <2>2. white \in Whites /\ white \notin {"gray", "black", "free"} /\ Whites \subseteq Marks
      BY DEF Always, TypeOK, Whites, Marks
    <2>3. mark' \in [Obj -> Marks] /\ \A x \in Obj : mark'[x] = mark[x] \/ mark'[x] = white
      BY <1>1, <1>4, <2>2
    <2> QED
      BY <1>1, <1>4, <2>1, <2>2, <2>3, KindsAre DEF Barred, Alive
  <1> QED
    BY <1>2, <1>3, <1>4 DEF BarrierForward

\* No barrier.
LEMMA StillIs ==
    ASSUME Always, mark' = mark, gray' = gray, grayagain' = grayagain, weak' = weak
    PROVE  Barred
  BY DEF Barred, Alive, Always, TypeOK, Marks, ListsOK, Partition

\* An operation that creates no object and closes no upvalue.
LEMMA ProgramAlways ==
    ASSUME Always, Barred, TypeOK', OpenOK',
           \A u \in Udata : {fld'[u]["mt"], fld'[u]["env"]} \subseteq Opt(Tables),
           UNCHANGED <<fin, open, gcstate, tmudata, unswept, udlist, calls>>
    PROVE  Always'
  <1>1. /\ fin' = fin /\ open' = open /\ gcstate' = gcstate /\ tmudata' = tmudata
        /\ unswept' = unswept /\ udlist' = udlist /\ calls' = calls
    OBVIOUS
  <1>2. \A o : InTmu(o)' = InTmu(o) /\ InList(o)' = InList(o) /\ IsOpen(o)' = IsOpen(o)
               /\ Left(o)' = Left(o)
    BY <1>1 DEF InTmu, InList, IsOpen, Left
  <1>3. \A o \in Obj : Alive(o) => Alive(o)'
    BY DEF Barred
  <1>4. UdataOK'
    BY DEF Barred, Always, UdataOK, Opt, Tables
  <1>5. ListsOK'
    BY <1>1 DEF Barred, ListsOK
  <1>6. RestOK'
    BY <1>1, <1>2, MarkStatesAre DEF Barred, Always, RestOK
  <1>7. UnsweptOK'
    <2>1. unswept \subseteq Obj
      BY DEF Always, TypeOK
    <2> QED
      BY <1>1, <1>2, <1>3, <2>1 DEF Always, UnsweptOK
  <1>8. FinsOK'
    <2>1. Injective(tmudata)' /\ Injective(udlist)'
      BY <1>1 DEF Always, FinsOK, Injective
    <2> QED
      BY <1>1, <1>2, <1>3, <2>1, KindsAre DEF Always, FinsOK
  <1> QED
    BY <1>4, <1>5, <1>6, <1>7, <1>8 DEF Always

\* One field of one object is set.
LEMMA FieldSet ==
    ASSUME TypeOK, NEW o, NEW s \in Slots, NEW v \in Opt(Obj), fld' = [fld EXCEPT ![o][s] = v]
    PROVE  /\ fld' \in [Obj -> [Slots -> Opt(Obj)]]
           /\ \A x \in Obj, r \in Slots : x # o \/ r # s => fld'[x][r] = fld[x][r]
           /\ o \in Obj => fld'[o][s] = v
  <1>1. fld \in [Obj -> [Slots -> Opt(Obj)]]
    BY DEF TypeOK, Opt
  <1>2. CASE o \in Obj
    <2> DEFINE f == [fld[o] EXCEPT ![s] = v]
    <2>1. fld[o] \in [Slots -> Opt(Obj)]
      BY <1>1, <1>2
    <2>2. f \in [Slots -> Opt(Obj)] /\ f[s] = v /\ \A r \in Slots : r # s => f[r] = fld[o][r]
      BY <2>1
    <2>3. fld' = [fld EXCEPT ![o] = f]
      OBVIOUS
    <2> HIDE DEF f
    <2>4. fld'[o] = f /\ \A x \in Obj : x # o => fld'[x] = fld[x]
      BY <1>1, <1>2, <2>3
    <2>5. fld' \in [Obj -> [Slots -> Opt(Obj)]]
      BY <1>1, <2>2, <2>3
    <2> QED
      BY <2>2, <2>4, <2>5
  <1>3. CASE o \notin Obj
    <2>1. fld' = fld
      BY <1>1, <1>3
    <2> QED
      BY <1>1, <1>3, <2>1
  <1> QED
    BY <1>2, <1>3

\* One slot of one stack is replaced.
Replaced(th, i, v) ==
  /\ stack' \in [Threads -> Seq(Obj)]
  /\ \A t \in Threads : /\ Len(stack'[t]) = Len(stack[t])
                        /\ t # th => stack'[t] = stack[t]
                        /\ \A j \in 1..Len(stack[t]) :
                             stack'[t][j] = IF t = th /\ j = i THEN v ELSE stack[t][j]

\* An assignment to a stack slot replaces it.
LEMMA StackSet ==
    ASSUME TypeOK, NEW th, NEW i, NEW v \in Obj, stack' = [stack EXCEPT ![th][i] = v]
    PROVE  Replaced(th, i, v)
  <1>1. stack \in [Threads -> Seq(Obj)]
    BY DEF TypeOK
  <1>2. CASE th \in Threads
    <2> DEFINE f == [stack[th] EXCEPT ![i] = v]
    <2>1. stack[th] \in Seq(Obj) /\ DOMAIN stack[th] = 1..Len(stack[th]) /\ Len(stack[th]) \in Nat
      BY <1>1, <1>2
    <2>2. /\ f \in Seq(Obj) /\ Len(f) = Len(stack[th])
          /\ \A j \in 1..Len(stack[th]) : f[j] = IF j = i THEN v ELSE stack[th][j]
      <3>1. PICK n \in Nat : n = Len(stack[th])
        BY <2>1
      <3>2. stack[th] \in [1..n -> Obj]
        BY <2>1, <3>1
      <3>3. /\ f \in [1..n -> Obj]
            /\ \A j \in 1..n : f[j] = IF j = i THEN v ELSE stack[th][j]
        BY <3>2
      <3> HIDE DEF f
      <3>4. f \in Seq(Obj) /\ Len(f) = n
        BY <3>3
      <3> QED
        BY <3>1, <3>3, <3>4
    <2>3. stack' = [stack EXCEPT ![th] = f]
      OBVIOUS
    <2> HIDE DEF f
    <2>4. stack'[th] = f /\ \A t \in Threads : t # th => stack'[t] = stack[t]
      BY <1>1, <1>2, <2>3
    <2>5. stack' \in [Threads -> Seq(Obj)]
      BY <1>1, <2>2, <2>3
    <2> QED
      BY <2>2, <2>4, <2>5 DEF Replaced
  <1>3. CASE th \notin Threads
    <2>1. stack' = stack
      BY <1>1, <1>3
    <2> QED
      BY <1>1, <1>3, <2>1 DEF Replaced
  <1> QED
    BY <1>2, <1>3

\* The bounds of a world are about its objects.
LEMMA WorldIs ==
    ASSUME TypeOK
    PROVE  /\ world \subseteq Obj /\ Bound.targets \subseteq Tables /\ Bound.metas \subseteq Tables
           /\ Bound.envs \subseteq Tables
  <1>1. world \in Worlds
    BY DEF TypeOK
  <1>2. Bounds[world] \in [targets : SUBSET OfKind("table"), keys : SUBSET Obj,
                           values : SUBSET Obj, metas : SUBSET OfKind("table"),
                           envs : SUBSET OfKind("table"), depth : [Threads -> Nat \ {0}],
                           ends : BOOLEAN]
    BY <1>1, GCAssumption
  <1>3. world \subseteq Obj
    BY <1>1, GCAssumption
  <1> QED
    BY <1>2, <1>3 DEF Bound, Tables

\* What the program can name is an object.
LEMMA NamedIs ==
    ASSUME TypeOK
    PROVE  Named \subseteq Obj /\ StackValues(cur) \subseteq Obj /\ cur \in Obj
  BY FieldsAre, KindsAre DEF Named, TypeOK, Opt

\* luaS_newlstr keeps Always, whether it makes a string or finds one, dead or alive.
LEMMA NewStringAlways ==
    ASSUME Always, NEW o, NewString(o)
    PROVE  Always' /\ o \in Strings
  <1>1. /\ o \in Strings /\ o \in Obj /\ o \notin UpVals \cup Udata
        /\ mark' = [mark EXCEPT ![o] = IF ~Alive(o) \/ IsDead(o) THEN white ELSE @]
        /\ stack' = [stack EXCEPT ![cur] = Append(@, o)]
        /\ UNCHANGED <<world, fin, fld, open, cur, basic, udlist, tmudata, closing, calls>>
        /\ UNCHANGED <<gcstate, white, gray, grayagain, weak, unswept, sweepgc, full>>
    BY KindsAre DEF NewString, Push, gcvars
  <1>2. mark \in [Obj -> Marks] /\ white \in Whites /\ white \notin {"gray", "black", "free"}
        /\ Whites \subseteq Marks
    BY DEF Always, TypeOK, Marks, Whites
  <1>3. /\ mark' \in [Obj -> Marks]
        /\ \A x \in Obj : /\ Alive(x) => Alive(x)'
                          /\ mark'[x] \in {"gray", "black"} => mark'[x] = mark[x]
                          /\ x # o => mark'[x] = mark[x]
    BY <1>1, <1>2 DEF Alive
  <1>4. Barred
    <2>1. gcstate \in MarkStates => Partition'
      BY <1>1, <1>3 DEF Always, ListsOK, Partition
    <2> QED
      BY <1>1, <1>3, <2>1, KindsAre DEF Barred, Always, TypeOK
  <1>5. stack' \in [Threads -> Seq(Obj)] /\ Deeper
    BY <1>1, PushIs DEF Always, Deeper
  <1>6. TypeOK'
    BY <1>1, <1>3, <1>5 DEF Always, TypeOK, Marks
  <1>7. OpenOK'
    BY <1>1, <1>4, <1>5, OpenSame DEF Barred
  <1>8. \A u \in Udata : {fld'[u]["mt"], fld'[u]["env"]} \subseteq Opt(Tables)
    BY <1>1 DEF Always, UdataOK
  <1> QED
    BY <1>1, <1>4, <1>6, <1>7, <1>8, ProgramAlways

\* A read keeps Always.
LEMMA ReadAlways ==
    ASSUME Always, NEW v \in world, Read(v)
    PROVE  Always'
  <1>1. /\ stack' = [stack EXCEPT ![cur] = Append(@, v)]
        /\ UNCHANGED <<world, mark, fin, fld, open, cur, basic, udlist, tmudata, closing, calls>>
        /\ UNCHANGED <<gcstate, white, gray, grayagain, weak, unswept, sweepgc, full>>
    BY DEF Read, Push, gcvars
  <1>2. v \in Obj
    BY WorldIs DEF Always
  <1>3. Barred
    BY <1>1, StillIs
  <1>4. stack' \in [Threads -> Seq(Obj)] /\ Deeper
    BY <1>1, <1>2, PushIs DEF Always, Deeper
  <1>5. TypeOK'
    BY <1>1, <1>4 DEF Always, TypeOK
  <1>6. OpenOK'
    BY <1>1, <1>3, <1>4, OpenSame DEF Barred
  <1>7. \A u \in Udata : {fld'[u]["mt"], fld'[u]["env"]} \subseteq Opt(Tables)
    BY <1>1 DEF Always, UdataOK
  <1> QED
    BY <1>1, <1>3, <1>5, <1>6, <1>7, ProgramAlways

\* Assignments to a table, a metatable, an environment, an upvalue.
LEMMA SetTableIs ==
    ASSUME Always, NEW t, NEW k, NEW v, SetTable(t, k, v)
    PROVE  /\ t \in Tables /\ {k, v} \subseteq Opt(Obj) /\ Barred
           /\ fld' \in [Obj -> [Slots -> Opt(Obj)]]
           /\ \A x \in Obj, s \in Slots : x # t \/ s \notin {"key", "val"} => fld'[x][s] = fld[x][s]
           /\ fld'[t]["val"] = v /\ fld'[t]["key"] = IF v = Nil THEN Nil ELSE k
  <1>1. /\ t \in Tables /\ {k, v} \subseteq Opt(Obj)
        /\ t \in Obj /\ v \in Opt(Obj) /\ k \in Opt(Obj)
        /\ weak' = weak /\ gray' = gray
    BY NamedIs, WorldIs, KindsAre DEF SetTable, LuaValues, Always, Opt
  <1>2. Barred
    <2>1. CASE v = Nil
      BY <1>1, <2>1, StillIs DEF SetTable
    <2>2. CASE v # Nil
      BY <1>1, <2>2, BackIs DEF SetTable
    <2> QED
      BY <2>1, <2>2
  <1> DEFINE key == IF v = Nil THEN Nil ELSE k
             f == [fld[t] EXCEPT !["key"] = key, !["val"] = v]
  <1>3. fld' = [fld EXCEPT ![t] = f]
    <2>1. CASE v = Nil
      BY <2>1 DEF SetTable
    <2>2. CASE v # Nil
      BY <2>2 DEF SetTable
    <2> QED
      BY <2>1, <2>2
  <1>4. fld \in [Obj -> [Slots -> Opt(Obj)]] /\ fld[t] \in [Slots -> Opt(Obj)]
        /\ {"key", "val"} \subseteq Slots /\ key \in Opt(Obj)
    BY <1>1 DEF Always, TypeOK, Slots, Opt
  <1> HIDE DEF key
  <1>5. /\ f \in [Slots -> Opt(Obj)] /\ f["key"] = key /\ f["val"] = v
        /\ \A s \in Slots : s \notin {"key", "val"} => f[s] = fld[t][s]
    BY <1>1, <1>4
  <1> HIDE DEF f
  <1>6. /\ fld' \in [Obj -> [Slots -> Opt(Obj)]] /\ fld'[t] = f
        /\ \A x \in Obj : x # t => fld'[x] = fld[x]
    BY <1>1, <1>3, <1>4, <1>5
  <1> QED
    BY <1>1, <1>2, <1>5, <1>6 DEF key

\* An assignment to a table keeps Always.
LEMMA SetTableAlways ==
    ASSUME Always, NEW t, NEW k, NEW v, SetTable(t, k, v)
    PROVE  Always'
  <1>1. /\ UNCHANGED <<world, fin, stack, open, cur, basic, gcstate, white, gray, weak, udlist,
                       tmudata, unswept, sweepgc, full, closing, calls>>
    BY DEF SetTable
  <1>2. /\ t \in Tables /\ Barred /\ fld' \in [Obj -> [Slots -> Opt(Obj)]]
        /\ \A x \in Obj, s \in Slots : x # t \/ s \notin {"key", "val"} => fld'[x][s] = fld[x][s]
    BY SetTableIs
  <1>3. TypeOK'
    BY <1>1, <1>2 DEF Always, TypeOK, Barred, Marks, Opt
  <1>4. OpenOK'
    <2>1. Deeper
      BY <1>1 DEF Deeper
    <2> QED
      BY <1>1, <1>2, <2>1, OpenSame DEF Barred
  <1>5. \A u \in Udata : {fld'[u]["mt"], fld'[u]["env"]} \subseteq Opt(Tables)
    BY <1>2, KindsAre DEF Always, UdataOK, Slots
  <1> QED
    BY <1>1, <1>2, <1>3, <1>4, <1>5, ProgramAlways

\* lua_setmetatable keeps Always.
LEMMA SetMetatableAlways ==
    ASSUME Always, NEW o, NEW mt, SetMetatable(o, mt)
    PROVE  Always'
  <1>1. /\ UNCHANGED <<world, fin, stack, open, cur, gcstate, white, weak, udlist, tmudata,
                       unswept, sweepgc, full, closing, calls>> /\ ~Stopped
        /\ o \in Obj /\ mt \in Opt(Tables) /\ mt \in Opt(Obj)
    BY NamedIs, WorldIs, KindsAre DEF SetMetatable, Always, Opt
  <1>2. /\ Barred /\ basic' \in Opt(Obj)
        /\ fld' = fld \/ fld' = [fld EXCEPT ![o]["mt"] = mt]
    <2>1. CASE Kind[o] = "table"
      <3>1. /\ fld' = [fld EXCEPT ![o]["mt"] = mt] /\ BarrierBack(o, {mt})
            /\ gray' = gray /\ basic' = basic
        BY <2>1 DEF SetMetatable
      <3> QED
        BY <1>1, <2>1, <3>1, BackIs, KindsAre DEF Always, TypeOK, Opt
    <2>2. CASE Kind[o] = "udata"
      <3>1. /\ fld' = [fld EXCEPT ![o]["mt"] = mt] /\ BarrierForward(o, mt)
            /\ grayagain' = grayagain /\ basic' = basic
        BY <2>2 DEF SetMetatable
      <3>2. Barred
        BY <1>1, <3>1, ForwardIs
      <3> QED
        BY <3>1, <3>2 DEF Always, TypeOK, Opt
    <2>3. CASE Kind[o] \notin {"table", "udata"}
      <3>1. /\ basic' = mt /\ UNCHANGED <<fld, mark, gray, grayagain>>
        BY <2>3 DEF SetMetatable
      <3> QED
        BY <1>1, <3>1, StillIs
    <2> QED
      BY <2>1, <2>2, <2>3
  <1>3. /\ fld' \in [Obj -> [Slots -> Opt(Obj)]]
        /\ \A x \in Obj, s \in Slots : fld'[x][s] = fld[x][s] \/ (s = "mt" /\ fld'[x][s] = mt)
    <2>1. CASE fld' = fld
      BY <2>1 DEF Always, TypeOK, Opt
    <2>2. CASE fld' = [fld EXCEPT ![o]["mt"] = mt]
      <3>1. "mt" \in Slots
        BY DEF Slots
      <3>2. /\ fld' \in [Obj -> [Slots -> Opt(Obj)]]
            /\ \A x \in Obj, r \in Slots : x # o \/ r # "mt" => fld'[x][r] = fld[x][r]
            /\ o \in Obj => fld'[o]["mt"] = mt
        BY <1>1, <2>2, <3>1, FieldSet DEF Always
      <3> QED
        BY <1>1, <3>2
    <2> QED
      BY <1>2, <2>1, <2>2
  <1>4. TypeOK'
    BY <1>1, <1>2, <1>3 DEF Always, TypeOK, Barred, Marks, Opt
  <1>5. OpenOK'
    <2>1. Deeper
      BY <1>1 DEF Deeper
    <2> QED
      BY <1>1, <1>2, <2>1, OpenSame DEF Barred
  <1>6. \A u \in Udata : {fld'[u]["mt"], fld'[u]["env"]} \subseteq Opt(Tables)
    BY <1>1, <1>3, KindsAre DEF Always, UdataOK, Slots
  <1> QED
    BY <1>1, <1>2, <1>4, <1>5, <1>6, ProgramAlways

\* lua_setfenv keeps Always.
LEMMA SetFEnvAlways ==
    ASSUME Always, NEW o, NEW t, SetFEnv(o, t)
    PROVE  Always'
  <1>1. /\ UNCHANGED <<world, fin, stack, open, cur, basic, gcstate, white, grayagain, weak, udlist,
                       tmudata, unswept, sweepgc, full, closing, calls>> /\ ~Stopped
        /\ o \in Obj /\ t \in Tables /\ t \in Opt(Obj)
        /\ fld' = [fld EXCEPT ![o]["env"] = t] /\ BarrierForward(o, t)
    BY NamedIs, WorldIs, KindsAre DEF SetFEnv, Always, Opt
  <1>2. Barred
    BY <1>1, ForwardIs
  <1>3. "env" \in Slots
    BY DEF Slots
  <1>4. /\ fld' \in [Obj -> [Slots -> Opt(Obj)]]
        /\ \A x \in Obj, r \in Slots : x # o \/ r # "env" => fld'[x][r] = fld[x][r]
        /\ o \in Obj => fld'[o]["env"] = t
    BY <1>1, <1>3, FieldSet DEF Always
  <1>5. TypeOK'
    BY <1>1, <1>2, <1>4 DEF Always, TypeOK, Barred, Marks, Opt
  <1>6. OpenOK'
    <2>1. Deeper
      BY <1>1 DEF Deeper
    <2> QED
      BY <1>1, <1>2, <2>1, OpenSame DEF Barred
  <1>7. \A u \in Udata : {fld'[u]["mt"], fld'[u]["env"]} \subseteq Opt(Tables)
    BY <1>1, <1>4, KindsAre DEF Always, UdataOK, Slots, Opt
  <1> QED
    BY <1>1, <1>2, <1>5, <1>6, <1>7, ProgramAlways

\* OP_SETUPVAL keeps Always.
LEMMA SetUpvalueAlways ==
    ASSUME Always, NEW f, NEW v, SetUpvalue(f, v)
    PROVE  Always'
  <1> DEFINE uv == fld[f]["val"]
             o == IF Kind[f] = "lclosure" THEN uv ELSE f
  <1>1. /\ UNCHANGED <<world, fin, open, cur, basic, gcstate, white, grayagain, weak, udlist,
                       tmudata, unswept, sweepgc, full, closing, calls>> /\ ~Stopped
        /\ v \in Obj /\ v \in Opt(Obj)
    BY NamedIs DEF SetUpvalue, LuaValues, Always, Opt
  <1>2. \/ /\ stack' = [stack EXCEPT ![open[uv].th][open[uv].lvl] = v]
           /\ UNCHANGED <<fld, mark, gray>>
        \/ /\ fld' = [fld EXCEPT ![o]["val"] = v]
           /\ BarrierForward(o, v) /\ stack' = stack
    BY DEF SetUpvalue
  <1> HIDE DEF uv, o
  <1>3. Barred
    BY <1>1, <1>2, StillIs, ForwardIs
  <1>4. /\ fld' \in [Obj -> [Slots -> Opt(Obj)]]
        /\ \A x \in Obj, r \in Slots : r # "val" => fld'[x][r] = fld[x][r]
    <2>1. CASE fld' = fld
      BY <2>1 DEF Always, TypeOK, Opt
    <2>2. CASE fld' = [fld EXCEPT ![o]["val"] = v]
      <3>1. "val" \in Slots
        BY DEF Slots
      <3>2. /\ fld' \in [Obj -> [Slots -> Opt(Obj)]]
            /\ \A x \in Obj, r \in Slots : x # o \/ r # "val" => fld'[x][r] = fld[x][r]
            /\ o \in Obj => fld'[o]["val"] = v
        BY <1>1, <2>2, <3>1, FieldSet DEF Always
      <3> QED
        BY <3>2
    <2> QED
      BY <1>2, <2>1, <2>2
  <1>5. stack' \in [Threads -> Seq(Obj)] /\ Deeper
    <2>1. CASE stack' = stack
      BY <2>1 DEF Always, TypeOK, Deeper
    <2>2. CASE stack' = [stack EXCEPT ![open[uv].th][open[uv].lvl] = v]
      <3>1. stack' \in [Threads -> Seq(Obj)] /\ \A t \in Threads : Len(stack'[t]) = Len(stack[t])
        BY <1>1, <2>2, StackSet DEF Always, Replaced
      <3> QED
        BY <3>1 DEF Deeper
    <2> QED
      BY <1>2, <2>1, <2>2
  <1>6. TypeOK'
    BY <1>1, <1>3, <1>4, <1>5 DEF Always, TypeOK, Barred, Marks, Opt
  <1>7. OpenOK'
    BY <1>1, <1>3, <1>5, OpenSame DEF Barred
  <1>8. \A u \in Udata : {fld'[u]["mt"], fld'[u]["env"]} \subseteq Opt(Tables)
    BY <1>4, KindsAre DEF Always, UdataOK, Slots, Opt
  <1> QED
    BY <1>1, <1>3, <1>6, <1>7, <1>8, ProgramAlways

\* A resume or a yield keeps Always.
LEMMA SwitchAlways ==
    ASSUME Always, NEW th \in world \cap Threads, NEW n, Switch(th, n)
    PROVE  Always'
  <1>1. /\ UNCHANGED <<world, mark, fin, fld, open, basic, udlist, tmudata, closing, calls>>
        /\ UNCHANGED <<gcstate, white, gray, grayagain, weak, unswept, sweepgc, full>>
        /\ cur' = th /\ th # cur
    BY DEF Switch, gcvars
  <1>2. Barred
    BY <1>1, StillIs
  <1>3. cur \in Threads /\ stack \in [Threads -> Seq(Obj)]
    BY DEF Always, TypeOK
  <1>4. stack' \in [Threads -> Seq(Obj)] /\ OpenOK'
    <2>1. CASE stack' = stack
      <3>1. stack' \in [Threads -> Seq(Obj)] /\ Deeper
        BY <1>3, <2>1 DEF Deeper
      <3> QED
        BY <1>1, <1>2, <3>1, OpenSame DEF Barred
    <2>2. CASE stack' # stack
      <3> DEFINE top == Len(stack[cur])
                 x == stack[cur][top]
                 s1 == Append(stack[th], x)
                 s2 == SubSeq(stack[cur], 1, top - 1)
      <3>1. /\ top > 0 /\ \A uv \in OpenOf(cur) : open[uv].lvl # top
            /\ stack' = [stack EXCEPT ![th] = s1, ![cur] = s2]
        BY <1>1, <1>3, <2>2 DEF Switch
      <3>2. /\ stack[cur] \in Seq(Obj) /\ stack[th] \in Seq(Obj) /\ top \in Nat
            /\ x \in Obj
        BY <1>3, <3>1
      <3>3. /\ s1 \in Seq(Obj) /\ 1..Len(stack[th]) \subseteq 1..Len(s1)
            /\ s2 \in Seq(Obj) /\ Len(s2) = top - 1
        <4>1. s1 \in Seq(Obj) /\ Len(s1) = Len(stack[th]) + 1 /\ Len(stack[th]) \in Nat
          BY <3>2
        <4>2. s2 \in Seq(Obj) /\ Len(s2) = top - 1
          BY <3>1, <3>2
        <4> QED
          BY <4>1, <4>2
      <3> HIDE DEF s1, s2, x
      <3>4. /\ stack' \in [Threads -> Seq(Obj)] /\ stack'[th] = s1 /\ stack'[cur] = s2
            /\ \A t \in Threads : t # th /\ t # cur => stack'[t] = stack[t]
        BY <1>1, <1>3, <3>1, <3>3
      <3>5. ASSUME NEW uv \in UpVals, IsOpen(uv)
            PROVE  open[uv].lvl \in 1..Len(stack'[open[uv].th])
        <4>1. open[uv].th \in Threads /\ open[uv].lvl \in 1..Len(stack[open[uv].th])
          BY <3>5 DEF Always, OpenOK
        <4>2. CASE open[uv].th = cur
          <5>1. open[uv].lvl # top
            BY <3>1, <4>2 DEF OpenOf
          <5>2. open[uv].lvl \in 1..top /\ stack'[open[uv].th] = s2
            BY <3>4, <4>1, <4>2
          <5> HIDE DEF top
          <5> QED
            BY <3>2, <3>3, <5>1, <5>2
        <4>3. CASE open[uv].th # cur
          BY <3>3, <3>4, <4>1, <4>3
        <4> QED
          BY <4>2, <4>3
      <3>6. \A uv \in UpVals : IsOpen(uv)' = IsOpen(uv)
        BY <1>1 DEF IsOpen
      <3>7. OpenOK'
        BY <1>1, <3>5, <3>6 DEF Always, OpenOK, Alive
      <3> QED
        BY <3>4, <3>7
    <2> QED
      BY <2>1, <2>2
  <1>5. TypeOK'
    BY <1>1, <1>4 DEF Always, TypeOK
  <1>6. \A u \in Udata : {fld'[u]["mt"], fld'[u]["env"]} \subseteq Opt(Tables)
    BY <1>1 DEF Always, UdataOK
  <1> QED
    BY <1>1, <1>2, <1>4, <1>5, <1>6, ProgramAlways

\* luaF_close on the upvalues of a thread from a level on: none of them is gray
\* or black afterwards outside the mark phase, and nothing else but what their
\* values refer to changes colour.
Above(th, lvl) == {uv \in OpenOf(th) : open[uv].lvl >= lvl}
Closes(S) ==
  /\ S \subseteq UpVals /\ \A uv \in S : IsOpen(uv)
  /\ mark' \in [Obj -> Marks] /\ gray' \subseteq Obj
  /\ \A x \in Obj \ S : /\ Alive(x)' = Alive(x)
                        /\ mark'[x] = mark[x] \/ (gcstate = "propagate" /\ IsWhite(x)
                                                   /\ mark'[x] = Colour(x))
  /\ \A uv \in S : \/ IsDead(uv) /\ mark'[uv] = "free"
                   \/ ~IsDead(uv) /\ mark'[uv] # "free"
  /\ \A uv \in S : mark'[uv] \in {"gray", "black"} => gcstate = "propagate"
  /\ fld' \in [Obj -> [Slots -> Opt(Obj)]]
  /\ \A x \in Obj : fld'[x] = IF x \in S /\ ~IsDead(x)
                              THEN [NoRefs EXCEPT !["val"] = UpValue(x)] ELSE fld[x]
  /\ open' = [uv \in UpVals |-> IF uv \in S THEN NotOpen ELSE open[uv]]
  /\ gcstate \in MarkStates /\ grayagain' = grayagain /\ weak' = weak => Partition'

\* luaF_close closes the upvalues of a thread from a level on.
LEMMA CloseIs ==
    ASSUME Always, NEW th \in Threads, NEW lvl, CloseUpvals(th, lvl), ~Stopped,
           NEW S, S = Above(th, lvl)
    PROVE  Closes(S)
  <1> DEFINE dead == {uv \in S : IsDead(uv)}
             blackened == {uv \in S : mark[uv] = "gray" /\ gcstate = "propagate"}
             whitened == {uv \in S : mark[uv] = "gray" /\ gcstate # "propagate"}
             values == {UpValue(uv) : uv \in blackened}
             marked == Marked(values)
             G == Grayed(values)
  <1>1. /\ mark' = [o \in Obj |-> IF o \in dead THEN "free"
                                  ELSE IF o \in blackened THEN "black"
                                  ELSE IF o \in whitened THEN white ELSE marked[o]]
        /\ gray' = gray \cup G
        /\ open' = [uv \in UpVals |-> IF uv \in S THEN NotOpen ELSE open[uv]]
        /\ fld' = [o \in Obj |-> IF o \in S \ dead THEN [NoRefs EXCEPT !["val"] = UpValue(o)]
                                 ELSE fld[o]]
    BY DEF CloseUpvals, Above
  <1>2. S \subseteq UpVals /\ (\A uv \in S : IsOpen(uv)) /\ S \subseteq Obj
    BY KindsAre DEF Above, OpenOf, IsOpen, NotOpen
  <1>3. values \in SUBSET Opt(Obj)
    BY <1>2, UpValuesAre DEF Always
  <1>4. gcstate # "propagate" => values = {}
    OBVIOUS
  <1>5. \A o \in S : mark[o] # "black" /\ Alive(o) /\ (IsDead(o) => mark[o] # "gray")
    BY <1>2, KindsAre, Flipped DEF Always, OpenOK, Whites
  <1>6. /\ white \in Whites /\ white \notin {"gray", "black", "free"} /\ mark \in [Obj -> Marks]
        /\ Whites \subseteq Marks /\ {"gray", "black", "free"} \subseteq Marks
    BY DEF Always, TypeOK, Marks, Whites
  <1>7. \A x \in S : x \in dead <=> IsDead(x)
    OBVIOUS
  <1>8. /\ \A x \in S : x \in blackened <=> mark[x] = "gray" /\ gcstate = "propagate"
        /\ \A x \in S : x \in whitened <=> mark[x] = "gray" /\ gcstate # "propagate"
        /\ dead \cup blackened \cup whitened \subseteq S
    OBVIOUS
  <1>9. \A uv \in S \ dead : UpValue(uv) \in Opt(Obj)
    BY <1>2, UpValuesAre DEF Always
  <1> HIDE DEF values, dead, blackened, whitened, marked, G
  <1>10. Grown(marked, G)
    BY <1>3, MarkedIs DEF Always, marked, G
  <1>11. gcstate # "propagate" => marked = mark /\ G = {}
    <2>1. Reached({}) = {}
      BY DEF Reached, WhiteOf, UdataRefs
    <2>2. Marked({}) = mark /\ Grayed({}) = {}
      BY <1>6, <2>1 DEF Marked, Grayed
    <2> QED
      BY <1>4, <2>2 DEF marked, G
  <1>12. \A o \in Obj : /\ marked[o] \in Marks
                        /\ marked[o] = mark[o] \/ (IsWhite(o) /\ marked[o] = Colour(o))
                        /\ IsWhite(o) => Alive(o)
                        /\ Colour(o) \in {"gray", "black"}
    BY <1>10 DEF Grown, IsWhite, Whites, Alive, Colour
  <1>13. mark' \in [Obj -> Marks]
    BY <1>1, <1>6, <1>12
  <1>14. gray' \subseteq Obj
    BY <1>1, <1>10 DEF Grown, Always, TypeOK
  <1>15. \A x \in Obj \ S : /\ Alive(x)' = Alive(x)
                            /\ mark'[x] = mark[x] \/ (gcstate = "propagate" /\ IsWhite(x)
                                                       /\ mark'[x] = Colour(x))
    <2>1. TAKE x \in Obj \ S
    <2>2. mark'[x] = marked[x]
      BY <1>1, <1>8
    <2> QED
      BY <1>11, <1>12, <2>2 DEF Alive
  <1>16. \A uv \in S : \/ IsDead(uv) /\ mark'[uv] = "free"
                       \/ ~IsDead(uv) /\ mark'[uv] # "free"
    <2>1. TAKE uv \in S
    <2>2. uv \in Obj /\ marked[uv] # "free"
      BY <1>2, <1>5, <1>12 DEF Alive
    <2> QED
      BY <1>1, <1>6, <1>7, <2>2
  <1>17. \A uv \in S : mark'[uv] \in {"gray", "black"} => gcstate = "propagate"
    <2>1. TAKE uv \in S
    <2>2. uv \in Obj /\ (gcstate # "propagate" => marked[uv] = mark[uv])
      BY <1>2, <1>11
    <2> QED
      BY <1>1, <1>5, <1>6, <1>7, <1>8, <2>2
  <1>18. fld' \in [Obj -> [Slots -> Opt(Obj)]]
    <2>1. NoRefs \in [Slots -> Opt(Obj)]
      BY DEF NoRefs, Opt
    <2>2. \A uv \in S \ dead : [NoRefs EXCEPT !["val"] = UpValue(uv)] \in [Slots -> Opt(Obj)]
      BY <1>9, <2>1
    <2>3. fld \in [Obj -> [Slots -> Opt(Obj)]]
      BY DEF Always, TypeOK, Opt
    <2> QED
      BY <1>1, <2>2, <2>3
  <1>19. \A x \in Obj : fld'[x] = IF x \in S /\ ~IsDead(x)
                                  THEN [NoRefs EXCEPT !["val"] = UpValue(x)] ELSE fld[x]
    BY <1>1, <1>7
  <1>20. ASSUME gcstate \in MarkStates, grayagain' = grayagain, weak' = weak
         PROVE  Partition'
    <2>1. Partition
      BY <1>20 DEF Always, ListsOK
    <2>2. Listed(marked) = Listed(mark) \cup G /\ Listed(mark) \cap G = {} /\ G \subseteq Obj
      <3> DEFINE L(m) == {o \in Obj : m[o] = "gray"} \ (UpVals \cup Strings)
      <3>1. \A o \in Obj : /\ IsWhite(o) => mark[o] # "gray"
                           /\ o \notin Udata \cup UpVals => Colour(o) = "gray"
                           /\ o \in Udata => Colour(o) = "black" /\ mark[o] # "gray"
        BY DEF IsWhite, Whites, Colour, Always, UdataOK
      <3>2. ASSUME NEW o \in Obj \ (UpVals \cup Strings)
            PROVE  marked[o] = "gray" <=> mark[o] = "gray" \/ o \in G
        <4>1. CASE o \in Udata
          BY <1>10, <1>12, <3>1, <4>1 DEF Grown
        <4>2. CASE o \notin Udata
          BY <1>10, <1>12, <3>1, <3>2, <4>2 DEF Grown
        <4> QED
          BY <4>1, <4>2
      <3>3. G \subseteq Obj \ (UpVals \cup Strings) /\ \A o \in G : mark[o] # "gray"
        BY <1>10, <3>1 DEF Grown
      <3> QED
        BY <3>2, <3>3 DEF Listed
    <2>3. Listed(mark') = Listed(marked)
      BY <1>1, <1>2, <1>8 DEF Listed
    <2> QED
      BY <1>1, <1>20, <2>1, <2>2, <2>3 DEF Partition, Listed
  <1> QED
    BY <1>1, <1>2, <1>13, <1>14, <1>15, <1>16, <1>17, <1>18, <1>19, <1>20 DEF Closes

\* A thread is cut at a level, after its upvalues from there on are closed.
Cut(th, lvl) ==
  /\ CloseUpvals(th, lvl) /\ ~Stopped
  /\ stack' \in [Threads -> Seq(Obj)]
  /\ \A t \in Threads : t # th => stack'[t] = stack[t]
  /\ \A i \in 1..Len(stack[th]) : i < lvl => i \in 1..Len(stack'[th])
  /\ UNCHANGED <<world, cur, basic, gcstate, white, grayagain, weak, sweepgc, full>>

\* Cutting a thread keeps Always: no open upvalue is left without its slot.
LEMMA CutAlways ==
    ASSUME Always, NEW th \in Threads, NEW lvl \in Nat, Cut(th, lvl),
           unswept' \subseteq unswept, \A o \in unswept' : ~InTmu(o)',
           \A o \in unswept \ unswept' : InTmu(o)' /\ o \in Udata,
           \A u : InTmu(u) => InTmu(u)',
           fin' \subseteq Udata, udlist' \in Seq(Udata), tmudata' \in Seq(Udata),
           closing' \in BOOLEAN, calls' = calls, FinsOK'
    PROVE  Always'
  <1> DEFINE S == Above(th, lvl)
  <1>0. Closes(S)
    BY CloseIs DEF Cut
  <1>1. /\ S \subseteq UpVals /\ \A uv \in S : IsOpen(uv)
        /\ mark' \in [Obj -> Marks] /\ gray' \subseteq Obj
        /\ \A x \in Obj \ S : /\ Alive(x)' = Alive(x)
                              /\ mark'[x] = mark[x] \/ (gcstate = "propagate" /\ IsWhite(x)
                                                         /\ mark'[x] = Colour(x))
        /\ \A uv \in S : mark'[uv] \in {"gray", "black"} => gcstate = "propagate"
        /\ fld' \in [Obj -> [Slots -> Opt(Obj)]]
        /\ \A x \in Obj : fld'[x] = IF x \in S /\ ~IsDead(x)
                                    THEN [NoRefs EXCEPT !["val"] = UpValue(x)] ELSE fld[x]
        /\ open' = [uv \in UpVals |-> IF uv \in S THEN NotOpen ELSE open[uv]]
        /\ gcstate \in MarkStates /\ grayagain' = grayagain /\ weak' = weak => Partition'
    BY <1>0 DEF Closes
  <1>2. \A uv \in UpVals : uv \in S <=> open[uv].th = th /\ open[uv].lvl >= lvl
    BY DEF Above, OpenOf
  <1> HIDE DEF S
  <1>3. /\ world' = world /\ cur' = cur /\ basic' = basic /\ gcstate' = gcstate /\ white' = white
        /\ grayagain' = grayagain /\ weak' = weak /\ sweepgc' = sweepgc /\ full' = full
        /\ stack' \in [Threads -> Seq(Obj)]
        /\ \A t \in Threads : t # th => stack'[t] = stack[t]
        /\ \A i \in 1..Len(stack[th]) : i < lvl => i \in 1..Len(stack'[th])
    BY DEF Cut
  <1>4. \A uv \in UpVals : IsOpen(uv)' <=> IsOpen(uv) /\ uv \notin S
    BY <1>1 DEF IsOpen
  <1>5. \A uv \in UpVals : IsOpen(uv)' => open'[uv] = open[uv]
    BY <1>1 DEF IsOpen
  <1>6. TypeOK'
    <2>1. open' \in [UpVals -> [th : Threads \cup {Nil}, lvl : Nat]]
      <3>1. open \in [UpVals -> [th : Threads \cup {Nil}, lvl : Nat]]
        BY DEF Always, TypeOK
      <3>2. NotOpen \in [th : Threads \cup {Nil}, lvl : Nat]
        BY DEF NotOpen
      <3> QED
        BY <1>1, <3>1, <3>2
    <2>2. {gray', grayagain', weak', unswept'} \subseteq SUBSET Obj
      BY <1>1, <1>3 DEF Always, TypeOK
    <2> QED
      BY <1>1, <1>3, <2>1, <2>2 DEF Always, TypeOK, Marks, Opt
  <1>7. \A x \in Obj \ S : /\ Colour(x) \in {"gray", "black"}
                           /\ x \in Udata => Colour(x) = "black"
                           /\ x \in UpVals /\ IsOpen(x) => Colour(x) = "gray"
    BY KindsAre DEF Colour
  <1>8. UdataOK'
    <2>1. ASSUME NEW u \in Udata
          PROVE  mark'[u] # "gray" /\ {fld'[u]["mt"], fld'[u]["env"]} \subseteq Opt(Tables)
      <3>1. u \in Obj \ S
        BY <1>1, KindsAre
      <3> QED
        BY <1>1, <1>7, <3>1 DEF Always, UdataOK
    <2> QED
      BY <2>1 DEF UdataOK, Opt, Tables
  <1>9. OpenOK'
    <2> SUFFICES ASSUME NEW uv \in UpVals, IsOpen(uv)'
                 PROVE  /\ Alive(uv)' /\ mark'[uv] # "black"
                        /\ open'[uv].th \in Threads /\ mark'[open'[uv].th] # "free"
                        /\ open'[uv].lvl \in 1..Len(stack'[open'[uv].th])
      BY DEF OpenOK, Alive
    <2>0. PICK t : t = open[uv].th
      OBVIOUS
    <2>1. IsOpen(uv) /\ uv \notin S /\ open'[uv] = open[uv] /\ uv \in Obj
      BY <1>4, <1>5, KindsAre
    <2>2. /\ Alive(uv) /\ mark[uv] # "black" /\ t \in Threads /\ Alive(t)
          /\ open[uv].lvl \in 1..Len(stack[t])
      BY <2>0, <2>1 DEF Always, OpenOK
    <2>3. t \in Obj \ S
      BY <1>1, <2>2, KindsAre
    <2>4. Alive(uv)' /\ Alive(t)' /\ mark'[uv] # "black"
      BY <1>1, <1>7, <2>1, <2>2, <2>3
    <2>5. open[uv].lvl \in 1..Len(stack'[t])
      <3>1. CASE t = th
        <4>1. ~(open[uv].lvl >= lvl)
          BY <1>2, <2>0, <2>1, <3>1
        <4>2. open[uv].lvl \in Nat
          BY DEF Always, TypeOK
        <4>3. open[uv].lvl < lvl
          BY <4>1, <4>2
        <4> QED
          BY <1>3, <2>2, <3>1, <4>3
      <3>2. CASE t # th
        BY <1>3, <2>2, <3>2
      <3> QED
        BY <3>1, <3>2
    <2> QED
      BY <2>0, <2>1, <2>2, <2>4, <2>5 DEF Alive
  <1>10. ListsOK'
    BY <1>1, <1>3 DEF ListsOK
  <1>11. RestOK'
    <2> SUFFICES ASSUME gcstate \in Resting, NEW x \in Obj, mark'[x] \in {"gray", "black"}
                 PROVE  Left(x)' \/ InTmu(x)'
      BY <1>3 DEF RestOK
    <2>1. x \notin S /\ mark'[x] = mark[x]
      BY <1>1, MarkStatesAre
    <2>2. Left(x) \/ InTmu(x)
      BY <2>1 DEF Always, RestOK
    <2>3. CASE x \in unswept
      BY <2>3 DEF Left
    <2>4. CASE x \in UpVals /\ IsOpen(x) /\ open[x].th \in unswept
      <3>1. open[x].th \in Threads
        BY <2>4 DEF Always, OpenOK
      <3>2. open[x].th \in unswept'
        BY <2>4, <3>1, KindsAre
      <3> QED
        BY <1>4, <1>5, <2>1, <2>4, <3>2 DEF Left
    <2> QED
      BY <2>2, <2>3, <2>4 DEF Left
  <1>12. UnsweptOK'
    <2>1. gcstate \notin SweepStates \cup {"closed"} => unswept' = {}
      BY DEF Always, UnsweptOK
    <2>2. ASSUME gcstate # "closed", NEW o \in unswept'
          PROVE  Alive(o)' /\ ~InTmu(o)' /\ ~(o \in UpVals /\ IsOpen(o)')
      <3>1. o \in unswept
        BY <2>2
      <3>2. o \in Obj /\ Alive(o) /\ ~(o \in UpVals /\ IsOpen(o))
        BY <2>2, <3>1 DEF Always, UnsweptOK, TypeOK
      <3>3. o \notin S
        BY <1>1, <3>2
      <3>4. ~InTmu(o)'
        BY <2>2
      <3> QED
        BY <1>1, <1>4, <3>2, <3>3, <3>4
    <2> QED
      BY <1>3, <2>1, <2>2 DEF UnsweptOK
  <1> QED
    BY <1>6, <1>8, <1>9, <1>10, <1>11, <1>12 DEF Always

\* The end of a block cuts the running thread by one value.
LEMMA PopCuts ==
    ASSUME TypeOK, Pop
    PROVE  Cut(cur, Len(stack[cur])) /\ Len(stack[cur]) \in Nat \ {0}
           /\ stack' = [stack EXCEPT ![cur] = SubSeq(@, 1, Len(@) - 1)]
  <1> DEFINE n == Len(stack[cur])
             s == SubSeq(stack[cur], 1, n - 1)
  <1>1. stack \in [Threads -> Seq(Obj)] /\ cur \in Threads
    BY DEF TypeOK
  <1>2. /\ stack[cur] # <<>> /\ CloseUpvals(cur, n) /\ ~Stopped
        /\ stack' = [stack EXCEPT ![cur] = s]
        /\ stack' = [stack EXCEPT ![cur] = SubSeq(@, 1, Len(@) - 1)]
        /\ UNCHANGED <<world, cur, basic, gcstate, white, grayagain, weak, sweepgc, full>>
    BY DEF Pop
  <1>3. stack[cur] \in Seq(Obj) /\ n \in Nat \ {0} /\ s \in Seq(Obj) /\ Len(s) = n - 1
    <2>1. stack[cur] \in Seq(Obj)
      BY <1>1
    <2>2. n \in Nat \ {0}
      BY <1>2, <2>1
    <2>3. s \in Seq(Obj) /\ Len(s) = n - 1
      BY <2>1, <2>2
    <2> QED
      BY <2>1, <2>2, <2>3
  <1> HIDE DEF s
  <1>4. /\ stack' \in [Threads -> Seq(Obj)] /\ stack'[cur] = s
        /\ \A t \in Threads : t # cur => stack'[t] = stack[t]
    BY <1>1, <1>2, <1>3
  <1>5. \A i \in 1..n : i < n => i \in 1..Len(stack'[cur])
    BY <1>3, <1>4
  <1> QED
    BY <1>2, <1>3, <1>4, <1>5 DEF Cut

\* The end of a block keeps Always.
LEMMA PopAlways ==
    ASSUME Always, Pop
    PROVE  Always'
  <1>1. PICK lvl \in Nat : Cut(cur, lvl)
    BY PopCuts DEF Always
  <1>2. cur \in Threads
    BY DEF Always, TypeOK
  <1>3. UNCHANGED <<fin, udlist, tmudata, unswept, closing, calls>>
    BY DEF Pop
  <1>4. \A u : InTmu(u)' = InTmu(u) /\ InList(u)' = InList(u)
    BY <1>3 DEF InTmu, InList
  <1>5. \A u \in Udata : Alive(u) => Alive(u)'
    <2>1. Above(cur, lvl) \subseteq UpVals /\ \A x \in Obj \ Above(cur, lvl) : Alive(x)' = Alive(x)
      BY <1>1, <1>2, CloseIs DEF Cut, Closes
    <2> QED
      BY <2>1, KindsAre
  <1>6. FinsOK'
    <2>1. Injective(tmudata)' /\ Injective(udlist)'
      BY <1>3 DEF Always, FinsOK, Injective
    <2> QED
      BY <1>3, <1>4, <1>5, <2>1 DEF Always, FinsOK
  <1>7. \A o \in unswept' : ~InTmu(o)'
    <2>1. gcstate # "closed"
      BY DEF Pop, Stopped
    <2> QED
      BY <1>3, <1>4, <2>1 DEF Always, UnsweptOK
  <1>8. fin' \subseteq Udata /\ udlist' \in Seq(Udata) /\ tmudata' \in Seq(Udata)
        /\ closing' \in BOOLEAN
    BY <1>3 DEF Always, TypeOK
  <1> QED
    BY <1>1, <1>2, <1>3, <1>4, <1>6, <1>7, <1>8, CutAlways

\* lua_close up to its finalizers keeps Always: every userdata with __gc is taken once.
LEMMA CloseAlways ==
    ASSUME Always, Close
    PROVE  Always'
  <1>1. /\ CloseUpvals(Main, 1) /\ Separate(TRUE) /\ closing' = TRUE /\ ~Stopped
        /\ stack' = [stack EXCEPT ![Main] = <<>>]
        /\ unswept' = unswept \ {tmudata'[i] : i \in DOMAIN tmudata'}
        /\ UNCHANGED <<world, cur, basic, gcstate, white, grayagain, weak, sweepgc, full, calls>>
    BY DEF Close
  <1>2. Main \in Threads
    BY KindsAre
  <1>3. Cut(Main, 1)
    <2>1. stack \in [Threads -> Seq(Obj)] /\ <<>> \in Seq(Obj)
      BY DEF Always, TypeOK
    <2>2. stack' \in [Threads -> Seq(Obj)] /\ \A t \in Threads : t # Main => stack'[t] = stack[t]
      BY <1>1, <2>1
    <2>3. \A i \in 1..Len(stack[Main]) : ~(i < 1)
      OBVIOUS
    <2> QED
      BY <1>1, <2>2, <2>3 DEF Cut
  <1>4. /\ fin' \subseteq Udata /\ tmudata' \in Seq(Udata) /\ udlist' \in Seq(Udata)
        /\ \A u \in Udata : InTmu(u) => InTmu(u)'
    BY <1>1, SeparateIs
  <1>5. /\ \A u : InTmu(u) => u \in Udata
        /\ \A u : InTmu(u)' => u \in Udata
    <2>1. tmudata \in Seq(Udata)
      BY DEF Always, TypeOK
    <2> QED
      BY <1>4, <2>1 DEF InTmu
  <1>6. \A o : o \in {tmudata'[i] : i \in DOMAIN tmudata'} <=> InTmu(o)'
    BY DEF InTmu
  <1>7. \A o \in unswept' : ~InTmu(o)'
    BY <1>1, <1>6
  <1>8. \A o \in unswept \ unswept' : InTmu(o)' /\ o \in Udata
    BY <1>1, <1>5, <1>6
  <1>9. \A u \in Udata : Alive(u) => Alive(u)'
    <2>1. Above(Main, 1) \subseteq UpVals /\ \A x \in Obj \ Above(Main, 1) : Alive(x)' = Alive(x)
      BY <1>1, <1>2, CloseIs DEF Closes
    <2> QED
      BY <2>1, KindsAre
  <1>10. FinsOK'
    BY <1>1, <1>9, SeparateFins
  <1>11. calls' = calls /\ closing' \in BOOLEAN /\ unswept' \subseteq unswept /\ 1 \in Nat
         /\ \A u : InTmu(u) => InTmu(u)'
    BY <1>1, <1>4, <1>5
  <1> QED
    BY <1>2, <1>3, <1>4, <1>7, <1>8, <1>10, <1>11, CutAlways

\* luaC_freeall keeps Always.
LEMMA FreeAllAlways ==
    ASSUME Always, FreeAll
    PROVE  Always'
  <1>1. /\ gcstate' = "closed" /\ mark' = [o \in Obj |-> "free"] /\ fld' = [o \in Obj |-> NoRefs]
        /\ open' = [uv \in UpVals |-> NotOpen] /\ stack' = [th \in Threads |-> <<>>]
        /\ udlist' = <<>> /\ tmudata = <<>>
        /\ UNCHANGED <<world, fin, cur, basic, white, gray, grayagain, weak, tmudata, unswept,
                       sweepgc, full, closing, calls>>
    BY DEF FreeAll
  <1>2. NoRefs \in [Slots -> Opt(Obj)] /\ NoRefs["mt"] = Nil /\ NoRefs["env"] = Nil
    BY DEF NoRefs, Opt, Slots
  <1>3. NotOpen \in [th : Threads \cup {Nil}, lvl : Nat]
    BY DEF NotOpen
  <1>4. <<>> \in Seq(Obj) /\ <<>> \in Seq(Udata)
    OBVIOUS
  <1>5. TypeOK'
    BY <1>1, <1>2, <1>3, <1>4 DEF Always, TypeOK, Opt
  <1>6. UdataOK' /\ OpenOK'
    BY <1>1, <1>2, KindsAre DEF UdataOK, OpenOK, IsOpen, Opt
  <1>7. ListsOK' /\ RestOK' /\ UnsweptOK'
    BY <1>1, MarkStatesAre DEF ListsOK, RestOK, UnsweptOK
  <1>8. FinsOK'
    <2>1. \A u : ~InTmu(u)' /\ ~InList(u)'
      BY <1>1 DEF InTmu, InList
    <2>2. Injective(tmudata)' /\ Injective(udlist)'
      BY <1>1 DEF Injective
    <2> QED
      BY <1>1, <2>1, <2>2 DEF Always, FinsOK
  <1> QED
    BY <1>5, <1>6, <1>7, <1>8 DEF Always

\* A new state satisfies Always.
LEMMA InitAlways ==
    ASSUME Init
    PROVE  Always
  <1>1. NoRefs \in [Slots -> Opt(Obj)] /\ NoRefs["mt"] = Nil /\ NoRefs["env"] = Nil
        /\ Globals \in Opt(Obj) /\ Main \notin Udata
    BY KindsAre DEF NoRefs, Opt, Slots
  <1>2. NotOpen \in [th : Threads \cup {Nil}, lvl : Nat]
    BY DEF NotOpen
  <1>3. <<>> \in Seq(Obj) /\ <<>> \in Seq(Udata)
    OBVIOUS
  <1>4. /\ fld \in [Obj -> [Slots -> Opt(Obj)]] /\ mark \in [Obj -> Marks]
        /\ \A o \in Obj : mark[o] \notin {"gray", "black"}
        /\ \A u \in Udata : fld[u] = NoRefs
    BY <1>1, KindsAre DEF Init, Marks, Whites
  <1>5. TypeOK
    <2>1. stack \in [Threads -> Seq(Obj)]
      BY <1>3 DEF Init
    <2>2. open \in [UpVals -> [th : Threads \cup {Nil}, lvl : Nat]]
      BY <1>2 DEF Init
    <2>3. calls \in [Udata -> Nat]
      BY DEF Init
    <2>0. /\ world \in Worlds /\ fin = {} /\ cur = Main /\ basic = Nil /\ gcstate = "pause"
          /\ white = "w0" /\ sweepgc = Nil /\ full = 0 /\ closing = FALSE
      BY DEF Init
    <2>4. /\ world \in Worlds /\ fin \subseteq Udata /\ cur \in Threads
          /\ basic \in Obj \cup {Nil} /\ gcstate = "pause" /\ white \in Whites
          /\ sweepgc \in Udata \cup {Nil} /\ full \in 0..2 /\ closing \in BOOLEAN
      <3>1. Main \in Threads
        BY KindsAre
      <3>2. cur \in Threads /\ full \in 0..2
        BY <2>0, <3>1
      <3>4. closing \in BOOLEAN
        BY <2>0, Zenon
      <3>3. /\ fin \subseteq Udata /\ basic \in Obj \cup {Nil} /\ white \in Whites
            /\ sweepgc \in Udata \cup {Nil}
        BY <2>0 DEF Whites
      <3> QED
        BY <2>0, <3>2, <3>3, <3>4
    <2>5. udlist \in Seq(Udata) /\ tmudata \in Seq(Udata)
      BY <1>3 DEF Init
    <2>6. {gray, grayagain, weak, unswept} \subseteq SUBSET Obj
      BY DEF Init
    <2> QED
      BY <1>4, <2>1, <2>2, <2>3, <2>4, <2>5, <2>6 DEF TypeOK, Opt, Marks
  <1>6. UdataOK /\ OpenOK
    BY <1>1, <1>4, KindsAre DEF Init, UdataOK, OpenOK, IsOpen, Opt
  <1>7. ListsOK /\ RestOK /\ UnsweptOK
    BY <1>4, MarkStatesAre DEF Init, ListsOK, RestOK, UnsweptOK
  <1>8. FinsOK
    <2>1. \A u : ~InTmu(u) /\ ~InList(u)
      BY DEF Init, InTmu, InList
    <2>2. Injective(tmudata) /\ Injective(udlist)
      BY DEF Init, Injective
    <2> QED
      BY <2>1, <2>2 DEF Init, FinsOK
  <1> QED
    BY <1>5, <1>6, <1>7, <1>8 DEF Always

-----------------------------------------------------------------------------
(* Until lua_close: the mark phase. *)

\* What the fields of upvalues may refer to.
LEMMA UpValuesRefs ==
    ASSUME Always, RefsOK
    PROVE  UpValuesOK
  <1>1. ASSUME NEW uv \in UpVals, Alive(uv)
        PROVE  UpValue(uv) \in Opt(Values)
    <2>1. CASE IsOpen(uv)
      <3>1. open[uv].th \in Threads /\ open[uv].lvl \in 1..Len(stack[open[uv].th])
        BY <2>1 DEF Always, OpenOK
      <3>2. stack[open[uv].th] \in Seq(Values)
        BY <3>1 DEF RefsOK, FieldsOK
      <3>3. stack[open[uv].th][open[uv].lvl] \in Values
        BY <3>1, <3>2
      <3> QED
        BY <2>1, <3>3 DEF UpValue, Opt
    <2>2. CASE ~IsOpen(uv)
      BY <1>1, <2>2, KindsAre DEF RefsOK, FieldsOK, UpValue
    <2> QED
      BY <2>1, <2>2
  <1> QED
    BY <1>1 DEF UpValuesOK

\* A step that marks with m and may turn the gray object p black.
Marking(m, G, p) ==
  /\ Grown(m, G) /\ Sound(m) /\ Frame /\ Darker /\ Before
  /\ mark' \in [Obj -> Marks]
  /\ \A x \in Obj : /\ mark'[x] \in Whites <=> m[x] \in Whites
                    /\ mark'[x] = m[x] \/ (x = p /\ mark[x] = "gray")
  /\ p \in Obj /\ mark'[p] = "black" /\ mark[p] = "gray" =>
       \A x \in AllRefs(p) : m[x] \notin Whites

\* A step that marks keeps the marks that were right before, open upvalues included.
LEMMA MarkingIs ==
    ASSUME Always, Open, NEW m, NEW G, NEW p, Marking(m, G, p)
    PROVE  /\ NonWhite' = {x \in Obj : m[x] \notin Whites} /\ NonWhite \subseteq NonWhite'
           /\ \A x \in Obj : mark[x] = "black" => mark'[x] = "black"
           /\ BlackOK => BlackOK'
           /\ \A uv \in UpVals : IsOpen(uv) /\ mark'[uv] = "gray" /\ mark[uv] # "gray" =>
                UpValue(uv) \in NonWhite'
           /\ \A th \in Threads : mark'[th] = "black" => th = p /\ mark[th] = "gray"
           /\ \A uv \in UpVals : ~IsOpen(uv) => mark'[uv] # "gray"
  <1>1. /\ Grown(m, G) /\ Sound(m) /\ Frame /\ Darker /\ mark' \in [Obj -> Marks]
        /\ \A x \in Obj : /\ mark'[x] \in Whites <=> m[x] \in Whites
                          /\ mark'[x] = m[x] \/ (x = p /\ mark[x] = "gray")
    BY DEF Marking
  <1>2. NonWhite' = {x \in Obj : m[x] \notin Whites} /\ NonWhite \subseteq NonWhite'
    BY <1>1, DarkerNonWhite DEF NonWhite, IsWhite, Always
  <1>3. \A x \in Obj : /\ m[x] = mark[x] \/ (IsWhite(x) /\ m[x] = Colour(x))
                       /\ IsWhite(x) => mark[x] \notin {"gray", "black"} /\ Alive(x)
                       /\ Colour(x) \in {"gray", "black"}
                       /\ Colour(x) = "black" <=> x \in Udata \/ (x \in UpVals /\ ~IsOpen(x))
    BY <1>1 DEF Grown, IsWhite, Whites, Colour, Alive
  <1>4. \A x \in Obj : mark[x] = "black" => mark'[x] = "black"
    BY <1>1, <1>3
  <1>5. ASSUME NEW x \in Obj, mark'[x] = "black", mark[x] # "black"
        PROVE  AllRefs(x) \subseteq NonWhite'
    <2>0. AllRefs(x) \subseteq Obj
      BY RefsAre DEF Always
    <2>1. CASE x = p /\ mark[x] = "gray"
      BY <1>2, <1>5, <2>0, <2>1 DEF Marking
    <2>2. CASE ~(x = p /\ mark[x] = "gray")
      <3>1. IsWhite(x) /\ m[x] # mark[x] /\ Alive(x)
        BY <1>1, <1>3, <1>5, <2>2
      <3>2. x \in Udata \/ (x \in UpVals /\ ~IsOpen(x))
        BY <1>1, <1>3, <1>5, <2>2
      <3>3. CASE x \in Udata
        <4>1. fld[x]["key"] = Nil /\ fld[x]["val"] = Nil /\ x \notin UpVals /\ x \notin Threads
          BY <3>1, <3>3, KindsAre DEF Open, RefsOK, FieldsOK
        <4>2. AllRefs(x) \subseteq {fld[x]["mt"], fld[x]["env"]} \ {Nil}
          BY <4>1, FieldsAre DEF AllRefs, Slots
        <4>3. \A y \in AllRefs(x) : m[y] \notin Whites
          BY <1>1, <3>1, <3>3, <4>2 DEF Sound
        <4> QED
          BY <1>2, <2>0, <4>3
      <3>4. CASE x \in UpVals
        <4>1. AllRefs(x) = {UpValue(x)} \ {Nil}
          BY <3>4 DEF AllRefs
        <4>2. \A y \in AllRefs(x) : m[y] \notin Whites
          BY <1>1, <3>1, <3>4, <4>1 DEF Sound
        <4> QED
          BY <1>2, <2>0, <4>2
      <3> QED
        BY <3>2, <3>3, <3>4
    <2> QED
      BY <2>1, <2>2
  <1>6. BlackOK => BlackOK'
    <2>1. \A x : InTmu(x)' = InTmu(x) /\ AllRefs(x)' = AllRefs(x)
      BY <1>1, FrameRefs
    <2>2. SUFFICES ASSUME BlackOK, NEW x \in Obj, mark'[x] = "black", ~InTmu(x)
                   PROVE  AllRefs(x) \subseteq NonWhite'
      BY <2>1 DEF BlackOK
    <2>3. mark[x] = "black" => AllRefs(x) \subseteq NonWhite
      BY <2>2 DEF BlackOK
    <2> QED
      BY <1>2, <1>5, <2>2, <2>3
  <1>7. ASSUME NEW uv \in UpVals, IsOpen(uv), mark'[uv] = "gray", mark[uv] # "gray"
        PROVE  UpValue(uv) \in NonWhite'
    <2>1. uv \in Obj /\ UpValue(uv) \in Obj /\ UpValue(uv) # Nil
      BY <1>7, UpValuesAre, KindsAre DEF Always
    <2>2. IsWhite(uv) /\ m[uv] # mark[uv]
      BY <1>1, <1>3, <1>7, <2>1
    <2>3. m[UpValue(uv)] \notin Whites
      BY <1>1, <2>1, <2>2 DEF Sound
    <2> QED
      BY <1>2, <2>1, <2>3
  <1>8. \A th \in Threads : mark'[th] = "black" => th = p /\ mark[th] = "gray"
    BY <1>1, <1>3, KindsAre DEF Open, RefsOK, FieldsOK
  <1>9. \A uv \in UpVals : ~IsOpen(uv) => mark'[uv] # "gray"
    <2>1. TAKE uv \in UpVals
    <2>2. HAVE ~IsOpen(uv)
    <2>3. uv \in Obj /\ mark[uv] # "gray"
      BY <2>2, KindsAre DEF Open, ShutOK
    <2> QED
      BY <1>1, <1>3, <2>2, <2>3
  <1> QED
    BY <1>2, <1>4, <1>6, <1>7, <1>8, <1>9

\* A step that marks keeps Open when the lists of the phase it enters are right.
LEMMA MarkingOpen ==
    ASSUME Always, Open, NEW m, NEW G, NEW p, Marking(m, G, p), gcstate' \in MarkStates,
           BlackOK, RootsOK', AtomicOK', AgainOK', WeakOK',
           Past1' => \A uv \in UpVals : IsOpen(uv) /\ mark[uv] = "gray" =>
                                          UpValue(uv) \in NonWhite',
           gcstate' = "remark4" => gcstate = "remark4",
           p \in Threads => mark'[p] # "black"
    PROVE  Open'
  <1>1. /\ NonWhite \subseteq NonWhite'
        /\ \A x \in Obj : mark[x] = "black" => mark'[x] = "black"
        /\ BlackOK'
        /\ \A uv \in UpVals : IsOpen(uv) /\ mark'[uv] = "gray" /\ mark[uv] # "gray" =>
             UpValue(uv) \in NonWhite'
        /\ \A th \in Threads : mark'[th] = "black" => th = p /\ mark[th] = "gray"
        /\ \A uv \in UpVals : ~IsOpen(uv) => mark'[uv] # "gray"
    BY MarkingIs
  <1>2. Frame /\ Darker /\ Before
    BY DEF Marking
  <1>3. \A x : /\ InTmu(x)' = InTmu(x) /\ AllRefs(x)' = AllRefs(x)
               /\ UpValue(x)' = UpValue(x) /\ IsOpen(x)' = IsOpen(x)
    BY <1>2, FrameRefs
  <1>4. UpvalsOK'
    BY <1>1, <1>3 DEF UpvalsOK
  <1>5. TmuOK'
    BY <1>1, <1>3, MarkStatesAre, KindsAre DEF TmuOK, Open, MarksOK
  <1>6. MarksOK'
    BY <1>1, <1>4, <1>5 DEF MarksOK
  <1> QED
    BY <1>1, <1>2, <1>6, DarkerOpen

\* The values of roots, lists and fields that an object has are nonwhite once
\* they are marked.
LEMMA NonWhiteAre ==
    ASSUME Always, NEW S \in SUBSET Opt(Obj), NEW m, NEW G, Grown(m, G),
           \A x \in S \ {Nil} : m[x] \notin Whites,
           \A x \in Obj : mark'[x] \in Whites <=> m[x] \in Whites
    PROVE  S \ {Nil} \subseteq NonWhite'
  BY DEF NonWhite, IsWhite, Opt

\* markroot keeps Open: the roots are marked.
LEMMA StartCycleOpen ==
    ASSUME Always, Open, StartCycle
    PROVE  Open'
  <1> DEFINE S == {Main, fld[Main]["env"], Registry, basic}
             m == Marked(S)
             G == Grayed(S)
  <1>1. mark' = m /\ gray' = G /\ grayagain' = {} /\ weak' = {} /\ gcstate' = "propagate"
    BY DEF StartCycle, MarkRoot
  <1>2. S \in SUBSET Opt(Obj)
    BY FieldsAre, KindsAre DEF Always, TypeOK, Opt
  <1>3. Main \in S \ {Nil} /\ Registry \in S \ {Nil}
    BY KindsAre
  <1> HIDE DEF S
  <1>4. Grown(m, G) /\ \A x \in S \ {Nil} : m[x] \notin Whites
    BY <1>2, MarkedIs DEF Always
  <1>5. Sound(m)
    BY <1>2, MarkedSound, UpValuesRefs DEF Always, Open
  <1> HIDE DEF m, G
  <1>6. Frame /\ Darker /\ Before
    BY StartCycleAlways
  <1>7. Marking(m, G, Nil)
    BY <1>1, <1>4, <1>5, <1>6, KindsAre DEF Marking, Darker
  <1>8. BlackOK
    <2>1. gcstate \in {"pause", "finalize"}
      BY DEF StartCycle
    <2> QED
      BY <2>1, AtRest DEF BlackOK
  <1>9. RootsOK'
    <2>1. S \ {Nil} \subseteq NonWhite'
      BY <1>1, <1>2, <1>4, NonWhiteAre
    <2> QED
      BY <1>3, <2>1 DEF RootsOK
  <1>10. ~Past1' /\ ~Past2' /\ ~Past3' /\ gcstate' \in MarkStates /\ gcstate' # "remark4"
    BY <1>1, MarkStatesAre DEF Past1, Past2, Past3
  <1>11. AtomicOK' /\ AgainOK' /\ WeakOK'
    BY <1>1, <1>10 DEF AtomicOK, AgainOK, WeakOK
  <1>12. Nil \notin Threads
    BY KindsAre
  <1> QED
    BY <1>7, <1>8, <1>9, <1>10, <1>11, <1>12, MarkingOpen

\* propagatemark keeps Open: an object turns black with its references marked.
LEMMA PropagateOpen ==
    ASSUME Always, Open, NEW o \in Obj, Propagate(o)
    PROVE  Open'
  <1> DEFINE S == Traversed(o)
             m == Marked(S)
             G == Grayed(S)
             isweak == Kind[o] = "table" /\ ModeOf(o) # {}
  <1>1. /\ mark' = [m EXCEPT ![o] = IF isweak \/ o \in Threads THEN "gray" ELSE "black"]
        /\ weak' = IF isweak THEN weak \cup {o} ELSE weak
        /\ grayagain' = IF o \in Threads THEN grayagain \cup {o} ELSE grayagain
        /\ gcstate' = gcstate /\ gcstate \in MarkStates /\ o \in gray
    BY DEF Propagate
  <1>2. S \in SUBSET Opt(Obj)
    BY RefsAre DEF Always
  <1>3. Grown(m, G) /\ \A x \in S \ {Nil} : m[x] \notin Whites
    BY <1>2, MarkedIs DEF Always
  <1>4. Sound(m)
    BY <1>2, MarkedSound, UpValuesRefs DEF Always, Open
  <1>5. Frame /\ Darker /\ Before
    BY PropagateAlways
  <1>6. mark[o] = "gray" /\ Alive(o) /\ o \notin UpVals /\ o \notin Strings /\ o \notin Udata
    BY <1>1 DEF Always, ListsOK, Partition, UdataOK, Alive
  <1>7. Kind[o] # "table" => ~isweak
    OBVIOUS
  <1>8. Kind[o] = "thread" => AllRefs(o) = S \ {Nil}
    <2>1. HAVE Kind[o] = "thread"
    <2>2. fld[o]["mt"] = Nil /\ fld[o]["key"] = Nil /\ fld[o]["val"] = Nil /\ o \in Threads
      BY <1>6, <2>1, KindsAre DEF Open, RefsOK, FieldsOK
    <2>3. AllRefs(o) = ({fld[o]["env"]} \cup StackValues(o)) \ {Nil}
      BY <1>6, <2>2, FieldsAre, KindsAre DEF AllRefs, Slots, Always
    <2> QED
      BY <2>1, <2>3 DEF Traversed
  <1>9. Kind[o] # "thread" /\ ~isweak => AllRefs(o) = S \ {Nil}
    <2>1. HAVE Kind[o] # "thread" /\ ~isweak
    <2>2. AllRefs(o) = {fld[o]["mt"], fld[o]["env"], fld[o]["key"], fld[o]["val"]} \ {Nil}
      BY <1>6, <2>1, FieldsAre, KindsAre DEF AllRefs, Slots, Always
    <2>3. CASE Kind[o] = "table"
      <3>1. fld[o]["env"] = Nil /\ (fld[o]["val"] = Nil => fld[o]["key"] = Nil)
        BY <1>6, <2>3 DEF Open, RefsOK, FieldsOK
      <3>2. ModeOf(o) = {}
        BY <2>1, <2>3
      <3>3. S = {fld[o]["mt"]} \cup (IF fld[o]["val"] = Nil THEN {} ELSE {fld[o]["key"]})
                  \cup {fld[o]["val"]}
        BY <2>3, <3>2 DEF Traversed
      <3> QED
        BY <2>2, <3>1, <3>3
    <2>4. CASE Kind[o] # "table"
      <3>1. S = {fld[o]["mt"], fld[o]["env"], fld[o]["key"], fld[o]["val"]}
        BY <2>1, <2>4 DEF Traversed, Slots
      <3> QED
        BY <2>2, <3>1
    <2> QED
      BY <2>3, <2>4
  <1>10. StrongRefs(o) = S \ {Nil}
    BY <1>6 DEF StrongRefs
  <1> HIDE DEF S, m, G, isweak
  <1>11. o \in Threads <=> Kind[o] = "thread"
    BY KindsAre
  <1>12. mark' \in [Obj -> Marks] /\ \A x \in Obj \ {o} : mark'[x] = m[x]
    BY <1>1, <1>3 DEF Grown, Marks
  <1>13. mark'[o] = IF isweak \/ o \in Threads THEN "gray" ELSE "black"
    BY <1>1, <1>3 DEF Grown
  <1>14. m[o] = "gray" /\ mark'[o] \in {"gray", "black"}
    BY <1>3, <1>6, <1>13 DEF Grown, IsWhite, Whites
  <1>15. \A x \in Obj : /\ mark'[x] \in Whites <=> m[x] \in Whites
                        /\ mark'[x] = m[x] \/ (x = o /\ mark[x] = "gray")
    BY <1>6, <1>12, <1>14 DEF Whites
  <1>16. mark'[o] = "black" => AllRefs(o) = S \ {Nil}
    BY <1>9, <1>11, <1>13
  <1>17. Marking(m, G, o)
    BY <1>3, <1>4, <1>5, <1>12, <1>15, <1>16 DEF Marking
  <1>18. S \ {Nil} \subseteq NonWhite'
    BY <1>2, <1>3, <1>15, NonWhiteAre
  <1>19. NonWhite \subseteq NonWhite'
    BY <1>17, MarkingIs
  <1>20. /\ \A x : AllRefs(x)' = AllRefs(x) /\ StrongRefs(x)' = StrongRefs(x)
         /\ cur' = cur /\ basic' = basic
    BY <1>5, FrameRefs DEF Frame
  <1>21. BlackOK /\ RootsOK /\ UpvalsOK /\ AtomicOK /\ AgainOK /\ WeakOK
    BY <1>1 DEF Open, MarksOK
  <1>22. RootsOK'
    BY <1>19, <1>21 DEF RootsOK
  <1>23. Past1' = Past1 /\ Past2' = Past2 /\ Past3' = Past3
    BY <1>1 DEF Past1, Past2, Past3
  <1>24. AtomicOK'
    BY <1>1, <1>10, <1>18, <1>19, <1>20, <1>21, <1>23 DEF AtomicOK, Opt
  <1>25. AgainOK'
    BY <1>1, <1>8, <1>11, <1>18, <1>19, <1>20, <1>21, <1>23 DEF AgainOK
  <1>26. WeakOK'
    BY <1>1, <1>7, <1>21 DEF WeakOK
  <1>27. Past1' => \A uv \in UpVals : IsOpen(uv) /\ mark[uv] = "gray" => UpValue(uv) \in NonWhite'
    BY <1>19, <1>21, <1>23 DEF UpvalsOK
  <1> QED
    BY <1>1, <1>13, <1>17, <1>21, <1>22, <1>24, <1>25, <1>26, <1>27, MarkingOpen

\* remarkupvals keeps Open: the values of open gray upvalues are marked.
LEMMA RemarkUpvalsOpen ==
    ASSUME Always, Open, RemarkUpvals
    PROVE  Open'
  <1> DEFINE S == {UpValue(uv) : uv \in {x \in UpVals : IsOpen(x) /\ mark[x] = "gray"}}
             m == Marked(S)
             G == Grayed(S)
  <1>1. /\ mark' = m /\ gray' = G /\ grayagain' = grayagain /\ weak' = weak
        /\ gcstate = "propagate" /\ gcstate' = "remark1"
    BY DEF RemarkUpvals
  <1>2. S \in SUBSET Opt(Obj)
    BY UpValuesAre DEF Always
  <1>3. \A uv \in UpVals : IsOpen(uv) /\ mark[uv] = "gray" => UpValue(uv) \in S \ {Nil}
    BY UpValuesAre, KindsAre DEF Always
  <1> HIDE DEF S
  <1>4. Grown(m, G) /\ \A x \in S \ {Nil} : m[x] \notin Whites
    BY <1>2, MarkedIs DEF Always
  <1>5. Sound(m)
    BY <1>2, MarkedSound, UpValuesRefs DEF Always, Open
  <1> HIDE DEF m, G
  <1>6. Frame /\ Darker /\ Before
    BY RemarkAlways
  <1>7. Marking(m, G, Nil)
    BY <1>1, <1>4, <1>5, <1>6, KindsAre DEF Marking, Darker
  <1>8. BlackOK /\ RootsOK /\ WeakOK
    BY <1>1, MarkStatesAre DEF Open, MarksOK
  <1>9. S \ {Nil} \subseteq NonWhite'
    BY <1>1, <1>2, <1>4, NonWhiteAre
  <1>10. NonWhite \subseteq NonWhite'
    BY <1>7, MarkingIs
  <1>11. RootsOK' /\ WeakOK'
    BY <1>1, <1>8, <1>10 DEF RootsOK, WeakOK
  <1>12. ~Past2' /\ ~Past3' /\ gcstate' \in MarkStates /\ gcstate' # "remark4"
    BY <1>1, MarkStatesAre DEF Past2, Past3
  <1>13. AtomicOK' /\ AgainOK'
    BY <1>12 DEF AtomicOK, AgainOK
  <1>14. Nil \notin Threads
    BY KindsAre
  <1>15. \A uv \in UpVals : IsOpen(uv) /\ mark[uv] = "gray" => UpValue(uv) \in NonWhite'
    BY <1>3, <1>9
  <1> QED
    BY <1>7, <1>8, <1>11, <1>12, <1>13, <1>14, <1>15, MarkingOpen

\* atomic's second step keeps Open: the running thread, the metatables of the basic types
\* and the strong sides of weak tables are marked.
LEMMA RemarkWeakOpen ==
    ASSUME Always, Open, RemarkWeak
    PROVE  Open'
  <1> DEFINE S == {cur, basic}
             m == Marked(S)
             G == Grayed(S)
  <1>1. /\ mark' = m /\ grayagain' = grayagain /\ weak' = {}
        /\ gcstate = "remark1" /\ gcstate' = "remark2"
    BY DEF RemarkWeak
  <1>2. S \in SUBSET Opt(Obj) /\ cur \in Obj
    BY KindsAre DEF Always, TypeOK, Opt
  <1>3. cur \in S \ {Nil} /\ basic \in Opt(S \ {Nil})
    BY <1>2, KindsAre DEF Opt
  <1> HIDE DEF S
  <1>4. Grown(m, G) /\ \A x \in S \ {Nil} : m[x] \notin Whites
    BY <1>2, MarkedIs DEF Always
  <1>5. Sound(m)
    BY <1>2, MarkedSound, UpValuesRefs DEF Always, Open
  <1> HIDE DEF m, G
  <1>6. Frame /\ Darker /\ Before
    BY RemarkAlways
  <1>7. Marking(m, G, Nil)
    BY <1>1, <1>4, <1>5, <1>6, KindsAre DEF Marking, Darker
  <1>8. BlackOK /\ RootsOK /\ UpvalsOK /\ Past1
    BY <1>1, MarkStatesAre DEF Open, MarksOK, Past1
  <1>9. S \ {Nil} \subseteq NonWhite'
    BY <1>1, <1>2, <1>4, NonWhiteAre
  <1>10. NonWhite \subseteq NonWhite'
    BY <1>7, MarkingIs
  <1>11. RootsOK' /\ WeakOK'
    BY <1>1, <1>8, <1>10 DEF RootsOK, WeakOK
  <1>12. ~Past3' /\ gcstate' \in MarkStates /\ gcstate' # "remark4"
    BY <1>1, MarkStatesAre DEF Past3
  <1>13. AtomicOK' /\ AgainOK'
    <2>1. cur' = cur /\ basic' = basic
      BY <1>6 DEF Frame
    <2> QED
      BY <1>1, <1>3, <1>9, <1>12, <2>1 DEF AtomicOK, AgainOK, Opt
  <1>14. Nil \notin Threads
    BY KindsAre
  <1>15. \A uv \in UpVals : IsOpen(uv) /\ mark[uv] = "gray" => UpValue(uv) \in NonWhite'
    BY <1>8, <1>10 DEF UpvalsOK
  <1> QED
    BY <1>7, <1>8, <1>11, <1>12, <1>13, <1>14, <1>15, MarkingOpen

\* atomic's third step keeps Open: what is on grayagain, the threads with it, is traversed.
LEMMA RemarkAgainOpen ==
    ASSUME Always, Open, RemarkAgain
    PROVE  Open'
  <1>1. /\ mark' = mark /\ grayagain' = {} /\ weak' = weak
        /\ gcstate = "remark2" /\ gcstate' = "remark3"
    BY DEF RemarkAgain
  <1>2. Grown(mark, {}) /\ Sound(mark)
    BY DEF Grown, Sound, Always, TypeOK, Marks
  <1>3. Frame /\ Darker /\ Before
    BY RemarkAlways
  <1>4. Marking(mark, {}, Nil)
    BY <1>1, <1>2, <1>3, KindsAre DEF Marking, Darker
  <1>5. BlackOK /\ RootsOK /\ UpvalsOK /\ AtomicOK /\ WeakOK /\ Past1 /\ Past2
    BY <1>1, MarkStatesAre DEF Open, MarksOK, Past1, Past2
  <1>6. NonWhite \subseteq NonWhite'
    BY <1>4, MarkingIs
  <1>7. gcstate' \in MarkStates /\ gcstate' # "remark4"
    BY <1>1, MarkStatesAre
  <1>8. RootsOK' /\ WeakOK'
    BY <1>1, <1>5, <1>6 DEF RootsOK, WeakOK
  <1>9. AtomicOK' /\ AgainOK'
    <2>1. \A x : StrongRefs(x)' = StrongRefs(x)
      BY <1>3, FrameRefs
    <2>2. cur' = cur /\ basic' = basic
      BY <1>3 DEF Frame
    <2> QED
      BY <1>1, <1>5, <1>6, <2>1, <2>2 DEF AtomicOK, AgainOK, Opt
  <1>10. Nil \notin Threads
    BY KindsAre
  <1>11. \A uv \in UpVals : IsOpen(uv) /\ mark[uv] = "gray" => UpValue(uv) \in NonWhite'
    BY <1>5, <1>6 DEF UpvalsOK
  <1> QED
    BY <1>4, <1>5, <1>7, <1>8, <1>9, <1>10, <1>11, MarkingOpen

\* References are what fields, stacks and open upvalues say.
LEMMA SameRefs ==
    ASSUME fld' = fld, stack' = stack, open' = open, NEW o
    PROVE  /\ AllRefs(o)' = AllRefs(o) /\ StrongRefs(o)' = StrongRefs(o)
           /\ UpValue(o)' = UpValue(o) /\ IsOpen(o)' = IsOpen(o)
  <1>1. UpValue(o)' = UpValue(o) /\ IsOpen(o)' = IsOpen(o) /\ Traversed(o)' = Traversed(o)
    BY DEF UpValue, IsOpen, Traversed, StackValues, ModeOf
  <1> QED
    BY <1>1 DEF AllRefs, StrongRefs, StackValues

\* A userdata refers to its metatable and its environment.
LEMMA UdataRefsAre ==
    ASSUME Always, RefsOK, NEW u \in Udata, Alive(u)
    PROVE  AllRefs(u) = {fld[u]["mt"], fld[u]["env"]} \ {Nil}
  <1>1. fld[u]["key"] = Nil /\ fld[u]["val"] = Nil /\ u \notin UpVals /\ u \notin Threads
    BY KindsAre DEF RefsOK, FieldsOK
  <1> QED
    BY <1>1, FieldsAre DEF AllRefs, Slots, Always

\* The separation in atomic keeps Open: what is to be finalized is marked with what it
\* refers to.
LEMMA SeparateAndMarkOpen ==
    ASSUME Always, Open, SeparateAndMark
    PROVE  Open'
  <1> DEFINE T == {tmudata'[i] : i \in DOMAIN tmudata'}
             S == WhiteOf(UdataRefs(T))
  <1>1. /\ mark' = [o \in Obj |-> IF o \in T THEN "black"
                                  ELSE IF o \in S THEN "gray" ELSE mark[o]]
        /\ gray' = S /\ gcstate' = "remark4" /\ gcstate = "remark3"
        /\ Separate(FALSE)
        /\ UNCHANGED <<world, fld, stack, open, cur, basic, white, grayagain, weak>>
    BY DEF SeparateAndMark
  <1>2. /\ tmudata' \in Seq(Udata)
        /\ \A u \in Udata : /\ InTmu(u)' => Taken(u)
                            /\ InTmu(u) => InTmu(u)'
    BY <1>1, SeparateIs
  <1>3. T \subseteq Udata /\ (\A u : u \in T <=> InTmu(u)') /\ \A u \in T : Alive(u)
    <2>1. T \subseteq Udata
      BY <1>2
    <2>2. \A u \in Udata : Taken(u) => Alive(u)
      BY DEF Taken, Always, FinsOK
    <2>3. \A u : u \in T <=> InTmu(u)'
      BY DEF InTmu
    <2> QED
      BY <1>2, <2>1, <2>2, <2>3
  <1>4. S \subseteq Tables /\ \A o \in S : IsWhite(o)
    BY <1>3 DEF WhiteOf, UdataRefs, Always, UdataOK, Opt
  <1>5. \A u \in T : \A x \in {fld[u]["mt"], fld[u]["env"]} \ {Nil} : x \in S \/ ~IsWhite(x)
    BY <1>3 DEF WhiteOf, UdataRefs
  <1> HIDE DEF T, S
  <1>6. \A o \in Obj : Alive(o)' = Alive(o)
    BY <1>1, <1>3, <1>4 DEF Alive, IsWhite, Whites
  <1>7. Before
    BY <1>1, MarkStatesAre DEF Before
  <1>8. \A o \in Obj : ~IsDead(o) /\ ~IsDead(o)'
    <2>1. TAKE o \in Obj
    <2>2. ~IsDead(o)
      BY <1>7, NoneDead DEF Open
    <2>3. OtherWhite' = OtherWhite /\ OtherWhite \notin {"gray", "black"}
      BY <1>1 DEF OtherWhite
    <2> QED
      BY <1>1, <2>2, <2>3 DEF IsDead
  <1>9. \A o : /\ AllRefs(o)' = AllRefs(o) /\ StrongRefs(o)' = StrongRefs(o)
               /\ UpValue(o)' = UpValue(o) /\ IsOpen(o)' = IsOpen(o)
    BY <1>1, SameRefs
  <1>10. RefsOK'
    <2>1. \A th \in Threads : Alive(th)' = Alive(th) /\ mark'[th] = mark[th]
      BY <1>1, <1>3, <1>4, <1>6, KindsAre
    <2> QED
      BY <1>1, <1>6, <1>9, <2>1 DEF Open, RefsOK, FieldsOK
  <1>11. ShutOK'
    <2>1. \A uv \in UpVals : mark'[uv] = mark[uv]
      BY <1>1, <1>3, <1>4, KindsAre
    <2> QED
      BY <1>9, <2>1 DEF Open, ShutOK
  <1>12. DeadOK'
    BY <1>8 DEF DeadOK
  <1>13. KeptOK'
    <2>1. Kept' = Kept
      BY <1>6, <1>8 DEF Kept
    <2>2. Roots' = Roots
      BY <1>1 DEF Roots
    <2> QED
      BY <1>9, <2>1, <2>2 DEF Open, KeptOK
  <1>14. MarksOK'
    <2>1. /\ BlackOK /\ RootsOK /\ UpvalsOK /\ AtomicOK /\ AgainOK /\ WeakOK
          /\ Past1 /\ Past2 /\ Past3
      BY <1>1, MarkStatesAre DEF Open, MarksOK, Past1, Past2, Past3
    <2>2. NonWhite \subseteq NonWhite'
      BY <1>1 DEF NonWhite, IsWhite, Whites
    <2>3. BlackOK'
      <3>1. SUFFICES ASSUME NEW o \in Obj, mark'[o] = "black", o \notin T
                     PROVE  AllRefs(o) \subseteq NonWhite'
        BY <1>3, <1>9 DEF BlackOK
      <3>2. mark[o] = "black"
        BY <1>1, <3>1
      <3>3. ~InTmu(o)
        <4>1. InTmu(o) => o \in Udata
          BY DEF InTmu, Always, TypeOK
        <4> QED
          BY <1>2, <1>3, <3>1, <4>1
      <3> QED
        BY <2>1, <2>2, <3>2, <3>3 DEF BlackOK
    <2>4. RootsOK' /\ WeakOK'
      BY <1>1, <2>1, <2>2 DEF RootsOK, WeakOK
    <2>5. UpvalsOK'
      <3>1. \A uv \in UpVals : mark'[uv] = mark[uv]
        BY <1>1, <1>3, <1>4, KindsAre
      <3> QED
        BY <1>9, <2>1, <2>2, <3>1 DEF UpvalsOK
    <2>6. AtomicOK' /\ AgainOK'
      BY <1>1, <1>9, <2>1, <2>2 DEF AtomicOK, AgainOK, Opt
    <2>7. TmuOK'
      <3>1. SUFFICES ASSUME NEW u \in Udata, u \in T
                     PROVE  mark'[u] = "black" /\ AllRefs(u) \subseteq NonWhite'
        BY <1>3, <1>9 DEF TmuOK
      <3>2. u \in Obj
        BY KindsAre
      <3>3. mark'[u] = "black"
        BY <1>1, <3>1, <3>2
      <3>4. AllRefs(u) = {fld[u]["mt"], fld[u]["env"]} \ {Nil}
        BY <1>3, <3>1, UdataRefsAre DEF Open
      <3>5. AllRefs(u) \subseteq Obj
        BY <3>2, RefsAre DEF Always
      <3>6. \A x \in AllRefs(u) : mark'[x] \notin Whites
        BY <1>1, <1>5, <3>1, <3>4, <3>5 DEF IsWhite, Whites
      <3> QED
        BY <3>3, <3>5, <3>6 DEF NonWhite, IsWhite
    <2> QED
      BY <2>3, <2>4, <2>5, <2>6, <2>7 DEF MarksOK
  <1> QED
    BY <1>10, <1>11, <1>12, <1>13, <1>14 DEF Open

\* A weak table that is not cleared has its key and its value marked, or they
\* are strings that iscleared has been asked about.
LEMMA NotCleared ==
    ASSUME Always, NEW t \in Obj, ~Clears(t), fld[t]["val"] = Nil => fld[t]["key"] = Nil,
           NEW x \in {fld[t]["key"], fld[t]["val"]} \ {Nil}
    PROVE  ~IsWhite(x) \/ x \in AskedStrings(t)
  <1> DEFINE C == IsCleared(fld[t]["key"], TRUE)
  <1>1. fld[t]["val"] # Nil
    OBVIOUS
  <1>2. ~C /\ ~IsCleared(fld[t]["val"], FALSE)
    BY <1>1 DEF Clears
  <1>3. CASE Kind[x] = "string"
    <2> HIDE DEF C
    <2>1. x \in AskedStrings(t) <=> x # Nil /\ Kind[x] = "string" /\ IsWhite(x)
      BY <1>1, <1>2 DEF AskedStrings, C
    <2> QED
      BY <1>3, <2>1
  <1>4. CASE Kind[x] # "string"
    BY <1>2, <1>4 DEF IsCleared
  <1> QED
    BY <1>3, <1>4

\* The end of atomic keeps Open: nothing that is marked refers to what is white, once the
\* weak tables are cleared, so what the flip makes dead cannot be got hold of.
LEMMA ClearAndFlipOpen ==
    ASSUME Always, Open, ClearAndFlip
    PROVE  Open'
  <1> DEFINE asked == UNION {AskedStrings(t) : t \in weak}
  <1>1. /\ fld' = [o \in Obj |-> IF o \in weak /\ Clears(o)
                                 THEN [fld[o] EXCEPT !["key"] = Nil, !["val"] = Nil]
                                 ELSE fld[o]]
        /\ mark' = [o \in Obj |-> IF o \in asked THEN "gray" ELSE mark[o]]
        /\ white' = OtherWhite /\ unswept' = AllToSweep
        /\ gcstate' = "sweepstring" /\ gcstate = "remark4" /\ gray = {}
        /\ UNCHANGED <<stack, open, cur, basic, tmudata>>
    BY DEF ClearAndFlip, AllToSweep
  <1>2. asked \subseteq Strings /\ \A o \in asked : IsWhite(o)
    BY AskedAre DEF Always
  <1>3. \A t \in weak : AskedStrings(t) \subseteq asked
    OBVIOUS
  <1> HIDE DEF asked
  <1>4. /\ BlackOK /\ RootsOK /\ UpvalsOK /\ AtomicOK /\ AgainOK /\ WeakOK /\ TmuOK
        /\ Past1 /\ Past2 /\ Past3 /\ Partition
    BY <1>1, MarkStatesAre DEF Open, MarksOK, Past1, Past2, Past3, Always, ListsOK
  <1>5. \A o \in Obj : Alive(o)' = Alive(o)
    BY <1>1, <1>2 DEF Alive, IsWhite, Whites
  <1>6. Before
    BY <1>1, MarkStatesAre DEF Before
  <1>7. \A o \in Obj : ~IsDead(o)
    BY <1>6, NoneDead DEF Open
  <1>8. \A o \in Obj : IsDead(o)' <=> IsWhite(o) /\ o \notin asked
    <2>1. TAKE o \in Obj
    <2>2. white \in Whites /\ OtherWhite' = white
      BY <1>1 DEF Always, TypeOK, OtherWhite, Whites
    <2>3. IsWhite(o) <=> mark[o] = white
      BY <1>7, Flipped DEF Always
    <2>4. white # "gray"
      BY <2>2 DEF Whites
    <2> QED
      BY <1>1, <2>2, <2>3, <2>4 DEF IsDead
  <1>9. weak \subseteq Tables /\ weak \cap UpVals = {} /\ weak \cap Threads = {}
        /\ weak \cap Strings = {}
    <2>1. weak \subseteq Obj
      BY DEF Always, TypeOK
    <2> QED
      BY <1>4, <2>1, KindsAre DEF WeakOK
  <1>10. \A o \in Obj : o \notin weak => fld'[o] = fld[o]
    BY <1>1
  <1>11. ASSUME NEW o \in weak
         PROVE  /\ o \in Obj /\ fld'[o]["mt"] = fld[o]["mt"] /\ fld'[o]["env"] = fld[o]["env"]
                /\ \/ Clears(o) /\ fld'[o]["key"] = Nil /\ fld'[o]["val"] = Nil
                   \/ ~Clears(o) /\ fld'[o] = fld[o]
    <2>1. o \in Obj
      BY <1>9, KindsAre
    <2>2. fld[o] \in [Slots -> Opt(Obj)] /\ {"mt", "env", "key", "val"} = Slots
      BY <2>1, FieldsAre DEF Always, TypeOK, Opt
    <2>3. CASE Clears(o)
      <3>1. fld'[o] = [fld[o] EXCEPT !["key"] = Nil, !["val"] = Nil]
        BY <1>1, <2>1, <2>3
      <3> QED
        BY <2>1, <2>2, <2>3, <3>1
    <2>4. CASE ~Clears(o)
      BY <1>1, <2>1, <2>4
    <2> QED
      BY <2>3, <2>4
  <1>12. \A o : IsOpen(o)' = IsOpen(o) /\ InTmu(o)' = InTmu(o)
    BY <1>1 DEF IsOpen, InTmu
  <1>13. RefsOK'
    <2>1. ASSUME NEW th \in Threads
          PROVE  /\ mark'[th] # "black" /\ stack'[th] \in Seq(Values)
                 /\ ~Alive(th)' => stack'[th] = <<>>
      BY <1>1, <1>2, <1>5, KindsAre DEF Open, RefsOK, FieldsOK
    <2>2. ASSUME NEW o \in weak
          PROVE  /\ Kind[o] = "table"
                 /\ Alive(o) => fld'[o]["mt"] \in Opt(Tables) /\ fld'[o]["env"] = Nil
                      /\ fld'[o]["key"] \in Opt(Values) /\ fld'[o]["val"] \in Opt(Values)
                      /\ (fld'[o]["val"] = Nil => fld'[o]["key"] = Nil)
      <3>1. o \in Obj /\ Kind[o] = "table"
        BY <1>9, KindsAre
      <3> QED
        BY <1>11, <3>1 DEF Open, RefsOK, FieldsOK, Opt
    <2>3. \A o \in Obj : Alive(o)' = Alive(o) /\ IsOpen(o)' = IsOpen(o)
      BY <1>5, <1>12
    <2> QED
      BY <1>10, <2>1, <2>2, <2>3 DEF Open, RefsOK, FieldsOK
  <1>14. ShutOK'
    <2>1. \A uv \in UpVals : mark'[uv] = mark[uv]
      BY <1>1, <1>2, KindsAre
    <2> QED
      BY <1>12, <2>1 DEF Open, ShutOK
  <1>15. DeadOK'
    <2>1. SUFFICES ASSUME NEW o \in Obj, IsDead(o)'
                   PROVE  Left(o)'
      BY DEF DeadOK
    <2>2. IsWhite(o) /\ Alive(o)
      BY <1>8, <2>1 DEF IsWhite, Whites, Alive
    <2>3. Left(o)' \/ InTmu(o)'
      BY <1>1, <2>2, ToSweep
    <2>4. ~InTmu(o)
      <3>1. InTmu(o) => o \in Udata
        BY DEF InTmu, Always, TypeOK
      <3> QED
        BY <1>1, <1>4, <2>2, <3>1 DEF TmuOK, IsWhite, Whites
    <2> QED
      BY <1>12, <2>3, <2>4
  <1>16. \A o \in Obj : o \in Kept <=> Alive(o)
    BY <1>7 DEF Kept
  <1>17. \A o \in Obj : o \in Kept' <=> Alive(o) /\ (~IsWhite(o) \/ o \in asked)
    BY <1>5, <1>8 DEF Kept
  <1>18. ASSUME NEW o \in Obj
         PROVE  AllRefs(o)' \subseteq AllRefs(o)
    <2>1. CASE o \in UpVals
      <3>1. fld'[o] = fld[o]
        BY <1>9, <1>10, <2>1
      <3>2. UpValue(o)' = UpValue(o)
        BY <1>1, <1>12, <3>1 DEF UpValue
      <3> QED
        BY <2>1, <3>2 DEF AllRefs
    <2>2. CASE o \notin UpVals /\ o \notin weak
      <3>1. fld'[o] = fld[o]
        BY <1>10, <2>2
      <3> QED
        BY <1>1, <2>2, <3>1 DEF AllRefs, StackValues
    <2>3. CASE o \in weak
      <3>1. o \notin Threads /\ o \notin UpVals
        BY <1>9, <2>3
      <3>2. \A s \in Slots : fld'[o][s] = fld[o][s] \/ fld'[o][s] = Nil
        BY <1>11, <2>3 DEF Slots
      <3> QED
        BY <3>1, <3>2 DEF AllRefs
    <2> QED
      BY <2>1, <2>2, <2>3
  <1>19. ASSUME NEW o \in Obj, o \in Kept'
         PROVE  AllRefs(o)' \subseteq Kept'
    <2>1. Alive(o) /\ (~IsWhite(o) \/ o \in asked)
      BY <1>17, <1>19
    <2>2. \A x \in AllRefs(o)' : x \in AllRefs(o) /\ x \in Obj /\ Alive(x)
      <3>1. AllRefs(o) \subseteq Kept /\ Kept \subseteq Obj
        BY <1>16, <2>1 DEF Open, KeptOK, Kept
      <3> QED
        BY <1>16, <1>18, <3>1
    <2>3. SUFFICES ASSUME NEW x \in AllRefs(o)'
                   PROVE  x \in NonWhite \/ x \in asked
      BY <1>17, <2>2 DEF NonWhite
    <2>4. x \in AllRefs(o) /\ x \in Obj
      BY <2>2
    <2>5. mark[o] \in {"black", "gray"} \/ o \in asked
      BY <2>1 DEF Alive, IsWhite, Always, TypeOK
    <2>6. CASE o \in Strings
      <3>1. fld'[o] = NoRefs /\ o \notin UpVals /\ o \notin Threads
        BY <1>9, <1>10, <2>6, KindsAre DEF Open, RefsOK, FieldsOK
      <3> QED
        BY <3>1 DEF AllRefs, NoRefs
    <2>7. CASE mark[o] = "black"
      <3>1. CASE InTmu(o)
        <4>1. o \in Udata
          BY <3>1 DEF InTmu, Always, TypeOK
        <4> QED
          BY <1>1, <1>4, <2>4, <3>1, <4>1 DEF TmuOK
      <3>2. CASE ~InTmu(o)
        BY <1>4, <2>4, <2>7, <3>2 DEF BlackOK
      <3> QED
        BY <3>1, <3>2
    <2>8. CASE mark[o] = "gray" /\ o \in UpVals
      <3>1. IsOpen(o)
        BY <2>8 DEF Open, ShutOK
      <3>2. AllRefs(o) = {UpValue(o)} \ {Nil}
        BY <2>8 DEF AllRefs
      <3> QED
        BY <1>4, <2>4, <2>8, <3>1, <3>2 DEF UpvalsOK
    <2>9. CASE o \in grayagain
      BY <1>4, <2>4, <2>9 DEF AgainOK
    <2>10. CASE o \in weak
      <3>1. o \in Tables /\ Kind[o] = "table" /\ o \notin UpVals /\ o \notin Threads
        BY <1>9, <2>10, KindsAre
      <3>2. fld[o]["env"] = Nil /\ (fld[o]["val"] = Nil => fld[o]["key"] = Nil)
        BY <2>1, <3>1 DEF Open, RefsOK, FieldsOK
      <3>3. x \in {fld'[o]["mt"], fld'[o]["key"], fld'[o]["val"]} \ {Nil}
        <4>1. x \in {fld'[o][s] : s \in Slots} \ {Nil}
          BY <2>3, <3>1 DEF AllRefs
        <4>2. fld'[o]["env"] = Nil
          BY <1>11, <2>10, <3>2
        <4> QED
          BY <4>1, <4>2 DEF Slots
      <3>4. CASE x = fld'[o]["mt"]
        <4>1. x \in StrongRefs(o)
          BY <1>11, <2>10, <3>1, <3>3, <3>4 DEF StrongRefs, Traversed
        <4> QED
          BY <1>4, <2>10, <4>1 DEF AtomicOK
      <3>5. CASE x \in {fld'[o]["key"], fld'[o]["val"]}
        <4>1. ~Clears(o) /\ x \in {fld[o]["key"], fld[o]["val"]} \ {Nil}
          BY <1>11, <2>10, <3>3, <3>5
        <4>2. ~IsWhite(x) \/ x \in AskedStrings(o)
          BY <3>2, <4>1, NotCleared
        <4> QED
          BY <1>3, <2>4, <2>10, <4>2 DEF NonWhite
      <3> QED
        BY <3>3, <3>4, <3>5
    <2> QED
      BY <1>1, <1>2, <1>4, <2>5, <2>6, <2>7, <2>8, <2>9, <2>10 DEF Partition
  <1>20. KeptOK'
    <2>1. Roots' = Roots
      BY <1>1 DEF Roots
    <2>2. Roots \subseteq NonWhite
      BY <1>4, KindsAre DEF RootsOK, AtomicOK, Roots, Opt
    <2>3. Roots \subseteq Kept'
      BY <1>16, <1>17, <2>2 DEF Open, KeptOK, NonWhite, Kept
    <2>4. Kept' \subseteq Obj
      BY DEF Kept
    <2> QED
      BY <1>19, <2>1, <2>3, <2>4 DEF KeptOK
  <1>21. MarksOK'
    BY <1>1, MarkStatesAre DEF MarksOK
  <1> QED
    BY <1>13, <1>14, <1>15, <1>20, <1>21 DEF Open

-----------------------------------------------------------------------------
(* Until lua_close: the sweep. *)

\* A step of the sweep keeps Open: what it erases is not kept.
LEMMA SweepOpen ==
    ASSUME Always, Open, NEW o \in Obj, SweepOne(o)
    PROVE  Open'
  <1> DEFINE D == Erased(o)
             C == Closed1(o)
             S == Swept(o)
  <1>1. /\ mark' = [x \in Obj |-> IF x \in D THEN "free" ELSE IF x \in S THEN white ELSE mark[x]]
        /\ fld' = [x \in Obj |-> IF x \in D THEN NoRefs
                                 ELSE IF x \in C THEN [NoRefs EXCEPT !["val"] = UpValue(x)]
                                 ELSE fld[x]]
        /\ open' = [uv \in UpVals |-> IF uv \in D \cup C THEN NotOpen ELSE open[uv]]
        /\ stack' = [th \in Threads |-> IF th \in D THEN <<>> ELSE stack[th]]
        /\ udlist' = Only(udlist, Udata \ D) /\ fin' = fin \ D
        /\ calls' = [u \in Udata |-> IF u \in D THEN 0 ELSE calls[u]]
    BY SweepIs
  <1>2. /\ gcstate \in SweepStates /\ gcstate' = gcstate /\ o \in unswept
        /\ unswept' = unswept \ {o} /\ cur' = cur /\ basic' = basic /\ white' = white
    BY DEF SweepOne
  <1>3. /\ S \subseteq Obj /\ D \subseteq S /\ C \subseteq S \ D /\ o \in S
        /\ \A x \in S : Alive(x)
        /\ \A uv \in UpVals : IsOpen(uv) /\ open[uv].th \in S => uv \in S
    BY SweptAre DEF Swept
  <1>4. \A x \in S : x \in D <=> IsDead(x)
    BY DEF Erased
  <1>5. C \subseteq UpVals /\ \A uv \in UpVals : /\ uv \in C => IsOpen(uv)
                                                 /\ uv \notin D \cup C /\ IsOpen(uv) =>
                                                      open[uv].th \notin D
    BY DEF Closed1
  <1> HIDE DEF D, C, S
  <1>6. \A uv \in UpVals : /\ uv \in D \cup C => ~IsOpen(uv)'
                           /\ uv \notin D \cup C => open'[uv] = open[uv] /\ IsOpen(uv)' = IsOpen(uv)
    BY <1>1 DEF IsOpen
  <1>7. white \in Whites /\ OtherWhite' = OtherWhite /\ OtherWhite \in Whites /\ OtherWhite # white
    BY <1>2 DEF Always, TypeOK, OtherWhite, Whites
  <1>8. \A x \in Obj : /\ Alive(x)' <=> Alive(x) /\ x \notin D
                       /\ IsDead(x)' <=> IsDead(x) /\ x \notin S
    BY <1>1, <1>3, <1>4, <1>7 DEF Alive, IsDead, Whites
  <1>9. Kept' = Kept
    <2>1. \A x \in Obj : x \in Kept' <=> x \in Kept
      <3>1. TAKE x \in Obj
      <3>2. CASE x \in S
        BY <1>3, <1>4, <1>8, <3>2 DEF Kept
      <3>3. CASE x \notin S
        BY <1>3, <1>8, <3>3 DEF Kept
      <3> QED
        BY <3>2, <3>3
    <2> QED
      BY <2>1 DEF Kept
  <1>10. RefsOK'
    <2>1. ASSUME NEW th \in Threads
          PROVE  /\ mark'[th] # "black" /\ stack'[th] \in Seq(Values)
                 /\ ~Alive(th)' => stack'[th] = <<>>
      <3>1. th \in Obj /\ mark[th] # "black" /\ stack[th] \in Seq(Values)
            /\ (~Alive(th) => stack[th] = <<>>)
        BY KindsAre DEF Open, RefsOK, FieldsOK
      <3>2. mark'[th] # "black"
        BY <1>1, <1>7, <3>1 DEF Whites
      <3>3. CASE th \in D
        BY <1>1, <3>2, <3>3
      <3>4. CASE th \notin D
        BY <1>1, <1>8, <3>1, <3>2, <3>4
      <3> QED
        BY <3>3, <3>4
    <2>2. ASSUME NEW x \in C
          PROVE  Kind[x] = "upval" /\ fld'[x]["val"] \in Opt(Values)
      <3>1. x \in UpVals /\ x \in Obj /\ x \notin D /\ Alive(x)
        BY <1>3, <1>5
      <3>2. fld'[x] = [NoRefs EXCEPT !["val"] = UpValue(x)]
        BY <1>1, <2>2, <3>1
      <3>3. fld'[x]["val"] = UpValue(x)
        BY <3>2 DEF NoRefs, Slots
      <3>4. UpValue(x) \in Opt(Values)
        BY <3>1, UpValuesRefs DEF UpValuesOK, Open
      <3> QED
        BY <3>1, <3>3, <3>4, KindsAre
    <2>3. \A x \in Obj : x \in D => fld'[x] = NoRefs /\ ~Alive(x)'
      BY <1>1, <1>8
    <2>4. \A x \in Obj : x \notin D \cup C =>
             /\ fld'[x] = fld[x] /\ (Alive(x)' <=> Alive(x))
             /\ Kind[x] = "upval" => IsOpen(x)' = IsOpen(x)
      BY <1>1, <1>6, <1>8, KindsAre
    <2>5. ASSUME NEW x \in Obj, x \in C
          PROVE  Kind[x] = "upval" /\ fld'[x]["val"] \in Opt(Values)
      BY <2>2, <2>5
    <2> QED
      BY <2>1, <2>3, <2>4, <2>5 DEF Open, RefsOK, FieldsOK
  <1>11. ShutOK'
    <2>1. SUFFICES ASSUME NEW uv \in UpVals, ~IsOpen(uv)'
                   PROVE  mark'[uv] # "gray"
      BY DEF ShutOK
    <2>2. uv \in Obj
      BY KindsAre
    <2>3. CASE uv \in S
      BY <1>1, <1>7, <2>2, <2>3 DEF Whites
    <2>4. CASE uv \notin S
      BY <1>1, <1>3, <1>6, <2>1, <2>2, <2>4 DEF Open, ShutOK
    <2> QED
      BY <2>3, <2>4
  <1>12. DeadOK'
    <2>1. SUFFICES ASSUME NEW x \in Obj, IsDead(x)'
                   PROVE  Left(x)'
      BY DEF DeadOK
    <2>2. IsDead(x) /\ x \notin S /\ x # o
      BY <1>3, <1>8, <2>1
    <2>3. Left(x)
      BY <2>2 DEF Open, DeadOK
    <2>4. CASE x \in unswept
      BY <1>2, <2>2, <2>4 DEF Left
    <2>5. CASE x \in UpVals /\ IsOpen(x) /\ open[x].th \in unswept
      <3>1. open[x].th # o
        BY <1>3, <2>2, <2>5
      <3>2. open'[x] = open[x] /\ IsOpen(x)'
        BY <1>3, <1>6, <2>2, <2>5
      <3> QED
        BY <1>2, <2>5, <3>1, <3>2 DEF Left
    <2> QED
      BY <2>3, <2>4, <2>5 DEF Left
  <1>13. KeptOK'
    <2>1. ASSUME NEW x \in Kept
          PROVE  AllRefs(x)' = AllRefs(x)
      <3>1. x \in Obj /\ x \notin D
        BY <1>3, <1>4 DEF Kept
      <3>2. CASE x \in UpVals
        <4>1. UpValue(x)' = UpValue(x)
          <5>1. CASE x \in C
            <6>1. fld'[x] = [NoRefs EXCEPT !["val"] = UpValue(x)]
              BY <1>1, <3>1, <5>1
            <6>2. fld'[x]["val"] = UpValue(x)
              BY <6>1 DEF NoRefs, Slots
            <6>3. ~IsOpen(x)'
              BY <1>6, <3>2, <5>1
            <6>4. UpValue(x)' = fld'[x]["val"]
              BY <6>3 DEF UpValue
            <6> QED
              BY <6>2, <6>4
          <5>2. CASE x \notin C
            <6>1. fld'[x] = fld[x] /\ open'[x] = open[x] /\ IsOpen(x)' = IsOpen(x)
              BY <1>1, <1>6, <3>1, <3>2, <5>2
            <6>2. IsOpen(x) => stack'[open[x].th] = stack[open[x].th]
              <7>1. HAVE IsOpen(x)
              <7>2. open[x].th \in Threads /\ open[x].th \notin D
                BY <1>5, <3>1, <3>2, <5>2, <7>1 DEF Always, OpenOK
              <7> QED
                BY <1>1, <7>2
            <6> QED
              BY <6>1, <6>2 DEF UpValue
          <5> QED
            BY <5>1, <5>2
        <4> QED
          BY <3>2, <4>1 DEF AllRefs
      <3>3. CASE x \notin UpVals
        <4>1. fld'[x] = fld[x]
          BY <1>1, <1>5, <3>1, <3>3
        <4>2. x \in Threads => stack'[x] = stack[x]
          BY <1>1, <3>1
        <4> QED
          BY <3>3, <4>1, <4>2 DEF AllRefs, StackValues
      <3> QED
        BY <3>2, <3>3
    <2>2. Roots' = Roots
      BY <1>2 DEF Roots
    <2> QED
      BY <1>9, <2>1, <2>2 DEF Open, KeptOK
  <1>14. MarksOK'
    BY <1>2, MarkStatesAre DEF MarksOK
  <1> QED
    BY <1>10, <1>11, <1>12, <1>13, <1>14 DEF Open

\* The sweep ends when nothing is left, the cycle when nothing waits.
LEMMA TurnOpen ==
    ASSUME Always, Open, SweepStringEnd \/ SweepEnd \/ EndCycle
    PROVE  Open'
  <1>1. UNCHANGED <<world, mark, fin, fld, stack, open, cur, basic, white, udlist, tmudata,
                    unswept>>
    BY DEF SweepStringEnd, SweepEnd, EndCycle
  <1>2. gcstate' \notin MarkStates
    BY MarkStatesAre DEF SweepStringEnd, SweepEnd, EndCycle
  <1>3. \A o : AllRefs(o)' = AllRefs(o) /\ IsOpen(o)' = IsOpen(o)
    BY <1>1, SameRefs
  <1>4. \A o : /\ Alive(o)' = Alive(o) /\ IsDead(o)' = IsDead(o) /\ Left(o)' = Left(o)
    BY <1>1 DEF Alive, IsDead, Left, OtherWhite, IsOpen
  <1>5. RefsOK'
    BY <1>1, <1>3, <1>4 DEF Open, RefsOK, FieldsOK
  <1>6. ShutOK' /\ DeadOK'
    BY <1>1, <1>3, <1>4 DEF Open, ShutOK, DeadOK
  <1>7. KeptOK'
    <2>1. Kept' = Kept /\ Roots' = Roots
      BY <1>1, <1>4 DEF Kept, Roots
    <2> QED
      BY <1>3, <2>1 DEF Open, KeptOK
  <1>8. MarksOK'
    BY <1>2 DEF MarksOK
  <1> QED
    BY <1>5, <1>6, <1>7, <1>8 DEF Open

\* luaC_fullgc keeps Open: an unfinished mark phase is dropped without killing an object.
LEMMA FullGCOpen ==
    ASSUME Always, Open, FullGC
    PROVE  Open'
  <1>1. UNCHANGED <<world, mark, fin, fld, stack, open, cur, basic, white, udlist, tmudata>>
    BY DEF FullGC
  <1>2. gcstate' \notin MarkStates
    BY MarkStatesAre DEF FullGC, Stopped, MarkStates
  <1>3. \A o : AllRefs(o)' = AllRefs(o) /\ IsOpen(o)' = IsOpen(o)
    BY <1>1, SameRefs
  <1>4. \A o : Alive(o)' = Alive(o) /\ IsDead(o)' = IsDead(o)
    BY <1>1 DEF Alive, IsDead, OtherWhite
  <1>5. RefsOK'
    BY <1>1, <1>3, <1>4 DEF Open, RefsOK, FieldsOK
  <1>6. ShutOK'
    BY <1>1, <1>3 DEF Open, ShutOK
  <1>7. DeadOK'
    <2>1. CASE gcstate \in {"pause", "propagate"}
      <3>1. Before
        BY <2>1 DEF Before, SweepStates
      <3> QED
        BY <1>4, <3>1, NoneDead DEF DeadOK, Open
    <2>2. CASE gcstate \notin {"pause", "propagate"}
      <3>1. unswept' = unswept
        BY <2>2 DEF FullGC
      <3>2. \A o : Left(o)' = Left(o)
        BY <1>1, <3>1 DEF Left, IsOpen
      <3> QED
        BY <1>4, <3>2 DEF DeadOK, Open
    <2> QED
      BY <2>1, <2>2
  <1>8. KeptOK'
    <2>1. Kept' = Kept /\ Roots' = Roots
      BY <1>1, <1>4 DEF Kept, Roots
    <2> QED
      BY <1>3, <2>1 DEF Open, KeptOK
  <1>9. MarksOK'
    BY <1>2 DEF MarksOK
  <1> QED
    BY <1>5, <1>6, <1>7, <1>8, <1>9 DEF Open

-----------------------------------------------------------------------------
(* Until lua_close: what the program pushes. *)

\* The program runs while objects are marked, swept or nothing is done.
LEMMA Running ==
    ASSUME Always, ~Stopped
    PROVE  gcstate = "propagate" \/ gcstate \notin MarkStates
  BY MarkStatesAre DEF Stopped, AtomicStates

\* Of the mark phase only black objects and roots concern the program.
LEMMA ProgramMarks ==
    ASSUME Always, MarksOK, ~Stopped, gcstate' = gcstate, weak' = weak,
           gcstate = "propagate" /\ BlackOK /\ RootsOK => BlackOK' /\ RootsOK'
    PROVE  MarksOK'
  <1>1. CASE gcstate \notin MarkStates
    BY <1>1 DEF MarksOK
  <1>2. CASE gcstate = "propagate"
    <2>1. BlackOK /\ RootsOK /\ WeakOK
      BY <1>2, MarkStatesAre DEF MarksOK
    <2>2. ~Past1' /\ ~Past2' /\ ~Past3' /\ gcstate' # "remark4"
      BY <1>2 DEF Past1, Past2, Past3
    <2>3. UpvalsOK' /\ AtomicOK' /\ AgainOK' /\ TmuOK' /\ WeakOK'
      BY <2>1, <2>2 DEF UpvalsOK, AtomicOK, AgainOK, TmuOK, WeakOK
    <2> QED
      BY <1>2, <2>1, <2>3 DEF MarksOK
  <1> QED
    BY <1>1, <1>2, Running

\* What the program can name is kept.
LEMMA NamedKept ==
    ASSUME Always, Open
    PROVE  /\ cur \in Kept /\ cur \in Threads /\ Kept \subseteq Obj /\ Named \subseteq Kept
           /\ StackValues(cur) \subseteq Kept \cap Values
           /\ fld[cur]["env"] \in Kept \cap Tables
  <1>1. cur \in Threads /\ cur \in Obj /\ cur # Nil /\ cur \notin UpVals /\ Kept \subseteq Obj
    BY KindsAre DEF Always, TypeOK, Kept
  <1>2. cur \in Kept /\ Registry \in Kept /\ AllRefs(cur) \subseteq Kept
    BY <1>1, KindsAre DEF Open, KeptOK, Roots
  <1>3. fld[cur]["env"] \in Tables
    <2>1. Alive(cur) /\ Kind[cur] = "thread"
      BY <1>1, <1>2, KindsAre DEF Kept
    <2> QED
      BY <1>1, <2>1 DEF Open, RefsOK, FieldsOK
  <1>4. StackValues(cur) \subseteq Values /\ Nil \notin StackValues(cur)
    <2>1. stack[cur] \in Seq(Values)
      BY <1>1 DEF Open, RefsOK, FieldsOK
    <2> QED
      BY <2>1, KindsAre DEF StackValues
  <1>5. AllRefs(cur) = ({fld[cur][s] : s \in Slots} \ {Nil}) \cup StackValues(cur)
    BY <1>1 DEF AllRefs
  <1>6. fld[cur]["env"] # Nil /\ "env" \in Slots
    BY <1>3, KindsAre DEF Slots
  <1> QED
    BY <1>1, <1>2, <1>3, <1>4, <1>5, <1>6 DEF Named

\* A value is pushed, or nothing is.
Pushed(v) ==
  /\ stack' = stack \/ stack' = [stack EXCEPT ![cur] = Append(@, v)]
  /\ UNCHANGED <<fld, open, cur>>

\* A push adds one reference, of the running thread.
LEMMA PushedRefs ==
    ASSUME Always, Open, NEW v \in Values, Pushed(v)
    PROVE  /\ \A th \in Threads : stack'[th] \in Seq(Values) /\ (th # cur => stack'[th] = stack[th])
           /\ \A x \in Obj : /\ AllRefs(x)' \subseteq AllRefs(x) \cup {v}
                             /\ x \notin Threads => AllRefs(x)' = AllRefs(x)
  <1>1. CASE stack' = stack
    BY <1>1, SameRefs DEF Pushed, Open, RefsOK, FieldsOK
  <1>2. CASE stack' = [stack EXCEPT ![cur] = Append(@, v)]
    <2>1. fld' = fld /\ open' = open /\ cur' = cur /\ v \in Obj /\ v # Nil
      BY KindsAre DEF Pushed
    <2>2. /\ \A th \in Threads :
               /\ 1..Len(stack[th]) \subseteq 1..Len(stack'[th])
               /\ \A i \in 1..Len(stack[th]) : stack'[th][i] = stack[th][i]
               /\ th # cur => stack'[th] = stack[th]
          /\ {stack'[cur][i] : i \in DOMAIN stack'[cur]} \subseteq StackValues(cur) \cup {v}
      BY <1>2, <2>1, PushIs DEF Always
    <2>3. ASSUME NEW th \in Threads
          PROVE  stack'[th] \in Seq(Values)
      <3>1. stack[th] \in Seq(Values) /\ stack \in [Threads -> Seq(Obj)]
        BY DEF Open, RefsOK, FieldsOK, Always, TypeOK
      <3> QED
        BY <1>2, <3>1
    <2>4. ASSUME NEW uv \in UpVals
          PROVE  UpValue(uv)' = UpValue(uv)
      <3>1. IsOpen(uv)' = IsOpen(uv) /\ fld'[uv] = fld[uv] /\ open'[uv] = open[uv]
        BY <2>1 DEF IsOpen
      <3>2. IsOpen(uv) => stack'[open[uv].th][open[uv].lvl] = stack[open[uv].th][open[uv].lvl]
        BY <2>2 DEF Always, OpenOK
      <3> QED
        BY <3>1, <3>2 DEF UpValue
    <2>5. ASSUME NEW th \in Threads
          PROVE  StackValues(th)' \subseteq StackValues(th) \cup {v}
      <3>1. CASE th = cur
        BY <2>2, <3>1 DEF StackValues
      <3>2. CASE th # cur
        BY <2>2, <3>2 DEF StackValues
      <3> QED
        BY <3>1, <3>2
    <2>6. ASSUME NEW x \in Obj
          PROVE  /\ AllRefs(x)' \subseteq AllRefs(x) \cup {v}
                 /\ x \notin Threads => AllRefs(x)' = AllRefs(x)
      BY <2>1, <2>4, <2>5 DEF AllRefs
    <2> QED
      BY <2>2, <2>3, <2>6
  <1> QED
    BY <1>1, <1>2 DEF Pushed

\* A push of a value that is kept keeps Open.
LEMMA PushOpen ==
    ASSUME Always, Open, NEW v \in Kept' \cap Values, Pushed(v),
           UNCHANGED <<basic, white, unswept>>, MarksOK',
           \A x \in Obj : /\ Alive(x) => Alive(x)'
                          /\ Alive(x)' => Alive(x) \/ x \in Strings
                          /\ IsDead(x)' => IsDead(x)
                          /\ x \in Kept' => x \in Kept \/ x \in Strings,
           \A th \in Threads : mark'[th] # "black",
           \A uv \in UpVals : mark'[uv] = mark[uv]
    PROVE  Open'
  <1>1. fld' = fld /\ open' = open /\ cur' = cur /\ basic' = basic /\ unswept' = unswept
    BY DEF Pushed
  <1>2. /\ \A th \in Threads : stack'[th] \in Seq(Values) /\ (th # cur => stack'[th] = stack[th])
        /\ \A x \in Obj : /\ AllRefs(x)' \subseteq AllRefs(x) \cup {v}
                          /\ x \notin Threads => AllRefs(x)' = AllRefs(x)
    BY PushedRefs
  <1>3. \A o : IsOpen(o)' = IsOpen(o) /\ Left(o)' = Left(o)
    BY <1>1 DEF IsOpen, Left
  <1>4. RefsOK'
    <2>1. ASSUME NEW th \in Threads
          PROVE  ~Alive(th)' => stack'[th] = <<>>
      <3>1. th \in Obj /\ (~Alive(th)' => ~Alive(th)) /\ Alive(cur)
        BY NamedKept, KindsAre DEF Kept
      <3> QED
        BY <1>2, <3>1 DEF Open, RefsOK, FieldsOK
    <2>2. \A x \in Obj : (Alive(x)' => Alive(x) \/ Kind[x] = "string") /\ IsOpen(x)' = IsOpen(x)
      BY <1>3, KindsAre
    <2> QED
      BY <1>1, <1>2, <2>1, <2>2 DEF Open, RefsOK, FieldsOK
  <1>5. ShutOK'
    BY <1>3 DEF Open, ShutOK
  <1>6. DeadOK'
    BY <1>3 DEF Open, DeadOK
  <1>7. Kept \subseteq Kept' /\ Kept' \subseteq Obj
    <2>1. \A x \in Obj : x \in Kept => x \in Kept'
      BY DEF Kept
    <2> QED
      BY <2>1 DEF Kept
  <1>8. KeptOK'
    <2>1. Roots' = Roots
      BY <1>1 DEF Roots
    <2>2. ASSUME NEW x \in Kept'
          PROVE  AllRefs(x)' \subseteq Kept'
      <3>1. x \in Obj
        BY <1>7
      <3>2. CASE x \in Kept
        BY <1>2, <1>7, <3>1, <3>2 DEF Open, KeptOK
      <3>3. CASE x \in Strings
        <4>1. fld[x] = NoRefs /\ x \notin UpVals /\ x \notin Threads
          BY <3>1, <3>3, KindsAre DEF Open, RefsOK, FieldsOK
        <4>2. AllRefs(x) = {}
          BY <4>1 DEF AllRefs, NoRefs
        <4> QED
          BY <1>2, <3>1, <4>1, <4>2
      <3> QED
        BY <3>1, <3>2, <3>3
    <2> QED
      BY <1>7, <2>1, <2>2 DEF Open, KeptOK
  <1> QED
    BY <1>4, <1>5, <1>6, <1>8 DEF Open

\* What waits for its finalizer is not dead: the sweep does not visit it.
LEMMA WaitingKept ==
    ASSUME Always, Open, gcstate # "closed", NEW u \in Udata, InTmu(u)
    PROVE  u \in Kept /\ u \in Obj /\ u \in Values
  <1>1. u \in Obj /\ u \notin UpVals /\ u \in Values
    BY KindsAre
  <1>2. Alive(u)
    BY DEF Always, FinsOK
  <1>3. ~Left(u)
    BY <1>1 DEF Left, Always, UnsweptOK
  <1> QED
    BY <1>1, <1>2, <1>3 DEF Open, DeadOK, Kept

\* GCTM keeps Open: the userdata it calls the finalizer with was kept.
LEMMA FinalizeOpen ==
    ASSUME Always, Open, Finalize
    PROVE  Open'
  <1>0. PICK ud : ud = Head(tmudata)
    OBVIOUS
  <1>1. /\ tmudata # <<>> /\ mark' = [mark EXCEPT ![ud] = white] /\ Pushed(ud)
        /\ gcstate = "finalize" /\ gcstate' = gcstate
        /\ UNCHANGED <<basic, white, unswept>>
    BY <1>0 DEF Finalize, GCTM, Pushed
  <1>2. InTmu(ud) /\ ud \in Udata
    <2>1. tmudata \in Seq(Udata) /\ Injective(tmudata)
      BY DEF Always, TypeOK, FinsOK
    <2>2. InSeq(ud, tmudata) /\ ud \in Udata
      BY <1>0, <1>1, <2>1, HeadIs
    <2> QED
      BY <2>2 DEF InTmu, InSeq
  <1>3. ud \in Kept /\ ud \in Obj /\ ud \in Values /\ ud \notin Threads /\ ud \notin UpVals
    BY <1>1, <1>2, WaitingKept, KindsAre
  <1>4. /\ mark' \in [Obj -> Marks] /\ mark'[ud] = white /\ \A x \in Obj \ {ud} : mark'[x] = mark[x]
        /\ white \in Whites /\ white # "free" /\ white # OtherWhite /\ OtherWhite' = OtherWhite
    BY <1>1, <1>3 DEF Always, TypeOK, Marks, Whites, OtherWhite
  <1>5. \A x \in Obj : Alive(x)' = Alive(x) /\ IsDead(x)' = IsDead(x)
    <2>1. Alive(ud) /\ ~IsDead(ud)
      BY <1>3 DEF Kept
    <2> QED
      BY <1>4, <2>1 DEF Alive, IsDead
  <1>6. Kept' = Kept
    BY <1>5 DEF Kept
  <1>7. MarksOK'
    BY <1>1, MarkStatesAre DEF MarksOK
  <1>8. \A th \in Threads : mark'[th] # "black"
    BY <1>3, <1>4, KindsAre DEF Open, RefsOK, FieldsOK
  <1>9. \A uv \in UpVals : mark'[uv] = mark[uv]
    BY <1>3, <1>4, KindsAre
  <1>10. ud \in Kept' \cap Values
    BY <1>3, <1>6
  <1> QED
    BY <1>1, <1>5, <1>6, <1>7, <1>8, <1>9, <1>10, PushOpen

\* A sweep astray keeps Open.
LEMMA SweepAstrayOpen ==
    ASSUME Always, Open, NEW u, SweepAstray(u)
    PROVE  Open'
  <1>1. /\ gcstate = "sweep" /\ gcstate' = gcstate /\ InTmu(u) /\ mark' = [mark EXCEPT ![u] = white]
        /\ stack' = stack /\ UNCHANGED <<fld, open, cur>>
        /\ UNCHANGED <<basic, white, unswept>>
    BY DEF SweepAstray, InTmu, gcvars
  <1>2. u \in Udata
    BY <1>1 DEF InTmu, Always, TypeOK
  <1>3. u \in Kept /\ u \in Obj /\ u \in Values /\ u \notin Threads /\ u \notin UpVals
    BY <1>1, <1>2, WaitingKept, KindsAre
  <1>4. /\ mark' \in [Obj -> Marks] /\ mark'[u] = white /\ \A x \in Obj \ {u} : mark'[x] = mark[x]
        /\ white \in Whites /\ white # "free" /\ white # OtherWhite /\ OtherWhite' = OtherWhite
    BY <1>1, <1>3 DEF Always, TypeOK, Marks, Whites, OtherWhite
  <1>5. \A x \in Obj : Alive(x)' = Alive(x) /\ IsDead(x)' = IsDead(x)
    <2>1. Alive(u) /\ ~IsDead(u)
      BY <1>3 DEF Kept
    <2> QED
      BY <1>4, <2>1 DEF Alive, IsDead
  <1>6. Kept' = Kept
    BY <1>5 DEF Kept
  <1>7. MarksOK'
    BY <1>1, MarkStatesAre DEF MarksOK
  <1>8. \A th \in Threads : mark'[th] # "black"
    BY <1>3, <1>4, KindsAre DEF Open, RefsOK, FieldsOK
  <1>9. \A uv \in UpVals : mark'[uv] = mark[uv]
    BY <1>3, <1>4, KindsAre
  <1>10. u \in Kept' \cap Values /\ Pushed(u)
    BY <1>1, <1>3, <1>6 DEF Pushed
  <1> QED
    BY <1>1, <1>5, <1>6, <1>7, <1>8, <1>9, <1>10, PushOpen

\* A black object is kept with all it refers to, and is no thread.
LEMMA BlackKept ==
    ASSUME Always, Open, NEW x \in Obj, mark[x] = "black"
    PROVE  x \in Kept /\ AllRefs(x) \subseteq Kept /\ x \notin Threads
           /\ (x \in UpVals => ~IsOpen(x))
  <1>1. x \in Kept
    BY DEF Kept, Alive, IsDead, OtherWhite
  <1> QED
    BY <1>1 DEF Open, KeptOK, RefsOK, FieldsOK, Always, OpenOK

\* While objects are marked a new object, or one found again, is not what a
\* black object refers to.
LEMMA NewMarks ==
    ASSUME Always, Open, ~Stopped, gcstate' = gcstate, weak' = weak, tmudata' = tmudata,
           \A x \in Kept : mark'[x] = mark[x],
           \A x \in Obj \ Kept : mark'[x] # "black",
           \A x \in Kept \ Threads : AllRefs(x)' = AllRefs(x) \/ (x \in UpVals /\ IsOpen(x))
    PROVE  MarksOK'
  <1>1. NonWhite \cap Kept \subseteq NonWhite'
    BY DEF NonWhite, Kept, IsWhite
  <1>2. ASSUME BlackOK
        PROVE  BlackOK'
    <2>1. SUFFICES ASSUME NEW x \in Obj, mark'[x] = "black", ~InTmu(x)'
                   PROVE  AllRefs(x)' \subseteq NonWhite'
      BY DEF BlackOK
    <2>2. mark[x] = "black" /\ ~InTmu(x) /\ x \in Kept
      BY <2>1 DEF InTmu
    <2>3. AllRefs(x) \subseteq Kept /\ x \notin Threads /\ (x \in UpVals => ~IsOpen(x))
      BY <2>2, BlackKept
    <2> QED
      BY <1>1, <1>2, <2>2, <2>3 DEF BlackOK
  <1>3. ASSUME RootsOK
        PROVE  RootsOK'
    <2>1. {Main, Registry} \subseteq Kept
      BY KindsAre DEF Open, KeptOK, Roots
    <2> QED
      BY <1>1, <1>3, <2>1 DEF RootsOK
  <1> QED
    BY <1>2, <1>3, ProgramMarks DEF Open

\* luaS_newlstr keeps Open: a dead string it finds is changed to the current white.
LEMMA NewStringOpen ==
    ASSUME Always, Open, NEW o, NewString(o)
    PROVE  Open'
  <1>1. /\ o \in Strings /\ ~Stopped /\ Pushed(o)
        /\ mark' = [mark EXCEPT ![o] = IF ~Alive(o) \/ IsDead(o) THEN white ELSE @]
        /\ UNCHANGED <<basic, white, unswept>>
        /\ gcstate' = gcstate /\ weak' = weak /\ tmudata' = tmudata
    BY DEF NewString, CanPush, Push, Pushed, gcvars
  <1>2. o \in Obj /\ o \in Values /\ o \notin Threads /\ o \notin UpVals
    BY <1>1, KindsAre
  <1>3. o \in Kept <=> Alive(o) /\ ~IsDead(o)
    BY <1>2 DEF Kept
  <1>4. /\ mark' \in [Obj -> Marks] /\ \A x \in Obj \ {o} : mark'[x] = mark[x]
        /\ white \in Whites /\ white \notin {"free", "black"} /\ white # OtherWhite
        /\ OtherWhite' = OtherWhite
    BY <1>1, <1>2 DEF Always, TypeOK, Marks, Whites, OtherWhite
  <1>5. mark'[o] = IF o \in Kept THEN mark[o] ELSE white
    BY <1>1, <1>2, <1>3 DEF Always, TypeOK
  <1>6. Alive(o)' /\ ~IsDead(o)'
    BY <1>3, <1>4, <1>5 DEF Alive, IsDead
  <1>7. \A x \in Obj \ {o} : Alive(x)' = Alive(x) /\ IsDead(x)' = IsDead(x)
    BY <1>4 DEF Alive, IsDead
  <1>8. \A x \in Obj : /\ Alive(x) => Alive(x)'
                       /\ Alive(x)' => Alive(x) \/ x \in Strings
                       /\ IsDead(x)' => IsDead(x)
                       /\ x \in Kept' => x \in Kept \/ x \in Strings
    BY <1>1, <1>6, <1>7 DEF Kept
  <1>9. o \in Kept' \cap Values
    BY <1>2, <1>6 DEF Kept
  <1>10. \A th \in Threads : mark'[th] # "black"
    BY <1>2, <1>4, KindsAre DEF Open, RefsOK, FieldsOK
  <1>11. \A uv \in UpVals : mark'[uv] = mark[uv]
    BY <1>2, <1>4, KindsAre
  <1>12. \A x \in Kept : mark'[x] = mark[x] /\ x \in Obj
    BY <1>4, <1>5 DEF Kept
  <1>13. \A x \in Obj \ Kept : mark'[x] # "black"
    <2>1. \A x \in Obj : mark[x] = "black" => x \in Kept
      BY BlackKept
    <2> QED
      BY <1>4, <1>5, <2>1
  <1>14. \A x \in Obj : x \notin Threads => AllRefs(x)' = AllRefs(x)
    BY <1>1, <1>2, PushedRefs
  <1>15. MarksOK'
    BY <1>1, <1>12, <1>13, <1>14, NewMarks
  <1> QED
    BY <1>1, <1>8, <1>9, <1>10, <1>11, <1>15, PushOpen

\* What can be read is kept, and is a value.
LEMMA ReadableKept ==
    ASSUME Always, Open, NEW o \in Kept
    PROVE  Readable(o) \subseteq Opt(Kept \cap Values)
  <1>1. o \in Obj /\ Alive(o) /\ AllRefs(o) \subseteq Kept /\ Kept \subseteq Obj
    BY DEF Kept, Open, KeptOK
  <1>2. Opt(Tables) \subseteq Opt(Values) /\ Strings \subseteq Values /\ "mt" \in Slots
        /\ "env" \in Slots /\ "key" \in Slots /\ "val" \in Slots
    BY KindsAre DEF Opt, Slots
  <1>3. o \notin UpVals => \A s \in Slots : fld[o][s] \in Opt(Kept)
    BY <1>1 DEF AllRefs, Opt
  <1>4. CASE Kind[o] = "table"
    <2>1. {fld[o]["mt"], fld[o]["key"], fld[o]["val"]} \subseteq Opt(Values)
      BY <1>1, <1>2, <1>4 DEF Open, RefsOK, FieldsOK
    <2>2. o \notin UpVals /\ Readable(o) = {fld[o][s] : s \in {"mt", "key", "val"}}
      BY <1>1, <1>4, KindsAre DEF Readable
    <2> QED
      BY <1>2, <1>3, <2>1, <2>2 DEF Opt
  <1>5. CASE Kind[o] = "udata"
    <2>1. {fld[o]["mt"], fld[o]["env"]} \subseteq Opt(Values) /\ o \notin UpVals
      BY <1>1, <1>2, <1>5, KindsAre DEF Always, UdataOK
    <2>2. Readable(o) = {fld[o][s] : s \in {"mt", "env"}}
      BY <1>5 DEF Readable
    <2> QED
      BY <1>2, <1>3, <2>1, <2>2 DEF Opt
  <1>6. CASE Kind[o] = "cclosure"
    <2>1. {fld[o]["env"], fld[o]["val"]} \subseteq Opt(Values) /\ o \notin UpVals
      BY <1>1, <1>2, <1>6, KindsAre DEF Open, RefsOK, FieldsOK, Opt
    <2>2. Readable(o) = {fld[o][s] : s \in {"env", "val"}}
      BY <1>6 DEF Readable
    <2> QED
      BY <1>2, <1>3, <2>1, <2>2 DEF Opt
  <1>7. CASE Kind[o] = "lclosure"
    <2> DEFINE uv == fld[o]["val"]
               p == fld[o]["key"]
    <2>1. uv \in UpVals /\ p \in OfKind("proto") /\ fld[o]["env"] \in Tables /\ o \notin UpVals
      BY <1>1, <1>7, KindsAre DEF Open, RefsOK, FieldsOK
    <2>2. uv \in Kept /\ p \in Kept /\ p \notin UpVals /\ Nil \notin Kept
      BY <1>1, <1>2, <1>3, <2>1, KindsAre DEF Opt, OfKind
    <2>3. UpValue(uv) \in Opt(Kept \cap Values)
      <3>1. UpValue(uv) \in Opt(Values)
        BY <2>1, <2>2, UpValuesRefs DEF UpValuesOK, Open, Kept
      <3>2. {UpValue(uv)} \ {Nil} \subseteq Kept
        BY <2>1, <2>2 DEF Open, KeptOK, AllRefs
      <3> QED
        BY <3>1, <3>2 DEF Opt
    <2>4. fld[p]["val"] \in Opt(Kept)
      BY <1>2, <2>2 DEF Open, KeptOK, AllRefs, Opt
    <2>5. {fld[p]["val"]} \cap Strings \subseteq Opt(Kept \cap Values)
      BY <1>2, <2>4, KindsAre DEF Opt
    <2>6. fld[o]["env"] \in Opt(Kept \cap Values)
      BY <1>2, <1>3, <2>1 DEF Opt
    <2>7. Readable(o) = {fld[o]["env"], UpValue(uv)} \cup ({fld[p]["val"]} \cap Strings)
      BY <1>7 DEF Readable
    <2> QED
      BY <2>3, <2>5, <2>6, <2>7
  <1>8. CASE Kind[o] = "thread"
    <2>1. fld[o]["env"] \in Opt(Values) /\ o \notin UpVals
      BY <1>1, <1>2, <1>8, KindsAre DEF Open, RefsOK, FieldsOK, Opt
    <2>2. Readable(o) = {fld[o]["env"]}
      BY <1>8 DEF Readable
    <2> QED
      BY <1>2, <1>3, <2>1, <2>2 DEF Opt
  <1>9. CASE Kind[o] \notin {"table", "udata", "cclosure", "lclosure", "thread"}
    BY <1>9 DEF Readable
  <1> QED
    BY <1>4, <1>5, <1>6, <1>7, <1>8, <1>9

\* A read keeps Open.
LEMMA ReadOpen ==
    ASSUME Always, Open, NEW v, Read(v)
    PROVE  Open'
  <1>1. /\ ~Stopped /\ Pushed(v) /\ mark' = mark /\ v # Nil
        /\ UNCHANGED <<basic, white, unswept>>
        /\ gcstate' = gcstate /\ weak' = weak /\ tmudata' = tmudata
    BY DEF Read, CanPush, Push, Pushed, gcvars
  <1>2. PICK o \in Named : v \in Readable(o)
    BY DEF Read
  <1>3. v \in Kept \cap Values
    BY <1>1, <1>2, NamedKept, ReadableKept DEF Opt
  <1>4. OtherWhite' = OtherWhite
    BY <1>1 DEF OtherWhite
  <1>5. \A x \in Obj : Alive(x)' = Alive(x) /\ IsDead(x)' = IsDead(x)
    BY <1>1, <1>4 DEF Alive, IsDead
  <1>6. Kept' = Kept
    BY <1>5 DEF Kept
  <1>7. \A x \in Obj : x \notin Threads => AllRefs(x)' = AllRefs(x)
    BY <1>1, <1>3, PushedRefs
  <1>8. \A x \in Obj \ Kept : mark'[x] # "black"
    BY <1>1, BlackKept
  <1>9. Kept \subseteq Obj
    BY DEF Kept
  <1>10. MarksOK'
    BY <1>1, <1>7, <1>8, <1>9, NewMarks
  <1>11. \A th \in Threads : mark'[th] # "black"
    BY <1>1 DEF Open, RefsOK, FieldsOK
  <1> QED
    BY <1>1, <1>3, <1>5, <1>6, <1>10, <1>11, PushOpen

-----------------------------------------------------------------------------
(* Until lua_close: assignments and their barriers. *)

\* What a barrier leaves alone: what is an object, what is dead.
Calm ==
  /\ \A x \in Obj : Alive(x)' = Alive(x) /\ IsDead(x)' = IsDead(x)
  /\ \A th \in Threads : mark'[th] # "black"
  /\ \A uv \in UpVals : ~IsOpen(uv) => mark'[uv] # "gray"

\* What a barrier is for: o, when it stays black, refers to marked objects only.
Safe(o, V) ==
  gcstate = "propagate" =>
    /\ NonWhite \subseteq NonWhite'
    /\ \A x \in Obj : mark'[x] = "black" =>
         /\ mark[x] = "black" \/ (x # o /\ AllRefs(x) \subseteq NonWhite')
         /\ x = o => V \subseteq NonWhite'

\* No barrier is needed for what is marked.
LEMMA StillCalm ==
    ASSUME Always, Open, mark' = mark, white' = white, NEW o, NEW V,
           mark[o] = "black" => V \subseteq NonWhite
    PROVE  Calm /\ Safe(o, V)
  <1>1. OtherWhite' = OtherWhite
    BY DEF OtherWhite
  <1>2. Calm
    BY <1>1 DEF Calm, Alive, IsDead, Open, ShutOK, RefsOK
  <1>3. NonWhite' = NonWhite
    BY DEF NonWhite, IsWhite
  <1> QED
    BY <1>2, <1>3 DEF Safe

\* luaC_barrierback is a barrier: the table is black no longer.
LEMMA BackSafe ==
    ASSUME Always, Open, NEW t \in Tables, NEW S \in SUBSET Opt(Obj), BarrierBack(t, S),
           white' = white
    PROVE  Calm /\ Safe(t, S \ {Nil})
  <1>1. CASE mark[t] = "black" /\ WhiteOf(S) # {}
    <2>1. mark' = [mark EXCEPT ![t] = "gray"] /\ mark \in [Obj -> Marks] /\ t \in Obj
          /\ t \notin Threads /\ t \notin UpVals
      BY <1>1, KindsAre DEF BarrierBack, Always, TypeOK, Marks
    <2>2. mark'[t] = "gray" /\ \A x \in Obj \ {t} : mark'[x] = mark[x]
      BY <2>1
    <2>3. OtherWhite' = OtherWhite /\ OtherWhite \in {"w0", "w1"}
      BY DEF OtherWhite
    <2>4. \A x \in Obj : Alive(x)' = Alive(x) /\ IsDead(x)' = IsDead(x)
      BY <1>1, <2>2, <2>3 DEF Alive, IsDead
    <2>5. Calm
      BY <2>1, <2>2, <2>4, KindsAre DEF Calm, Open, ShutOK, RefsOK
    <2>6. NonWhite \subseteq NonWhite'
      BY <2>2 DEF NonWhite, IsWhite, Whites
    <2>7. \A x \in Obj : mark'[x] = "black" => mark[x] = "black" /\ x # t
      BY <2>2
    <2> QED
      BY <2>5, <2>6, <2>7 DEF Safe
  <1>2. CASE ~(mark[t] = "black" /\ WhiteOf(S) # {})
    <2>1. mark' = mark
      BY <1>2 DEF BarrierBack
    <2>2. mark[t] = "black" => S \ {Nil} \subseteq NonWhite
      BY <1>2 DEF WhiteOf, NonWhite, Opt
    <2> QED
      BY <2>1, <2>2, StillCalm
  <1> QED
    BY <1>1, <1>2

\* What is marked black at once has its references marked.
LEMMA SoundRefs ==
    ASSUME Always, RefsOK, NEW m, NEW G, Grown(m, G), Sound(m), NEW x \in Obj,
           m[x] = "black", mark[x] # "black"
    PROVE  \A y \in AllRefs(x) : m[y] \notin Whites
  <1>1. IsWhite(x) /\ m[x] = Colour(x) /\ Alive(x) /\ m[x] # mark[x]
    BY DEF Grown, IsWhite, Whites, Alive
  <1>2. x \in Udata \/ x \in UpVals
    BY <1>1 DEF Colour
  <1>3. CASE x \in Udata
    BY <1>1, <1>3, UdataRefsAre DEF Sound
  <1>4. CASE x \in UpVals
    BY <1>1, <1>4 DEF Sound, AllRefs
  <1> QED
    BY <1>2, <1>3, <1>4

\* luaC_barrierf is a barrier: the value is marked.
LEMMA ForwardSafe ==
    ASSUME Always, Open, ~Stopped, NEW o \in Obj, NEW v \in Opt(Obj), BarrierForward(o, v),
           white' = white
    PROVE  Calm /\ Safe(o, {v} \ {Nil})
  <1>1. OtherWhite' = OtherWhite /\ OtherWhite \notin {"gray", "black", "free"}
    BY DEF OtherWhite
  <1>2. CASE mark[o] = "black" /\ WhiteOf({v}) # {} /\ gcstate = "propagate"
    <2> DEFINE m == Marked({v})
               G == Grayed({v})
    <2>1. mark' = m
      BY <1>2 DEF BarrierForward
    <2>2. {v} \in SUBSET Opt(Obj)
      OBVIOUS
    <2>3. Grown(m, G) /\ \A x \in {v} \ {Nil} : m[x] \notin Whites
      BY <2>2, MarkedIs DEF Always
    <2>4. Sound(m)
      BY <2>2, MarkedSound, UpValuesRefs DEF Always, Open
    <2> HIDE DEF m, G
    <2>5. /\ Darker /\ \A x \in Obj : Alive(x)' = Alive(x)
          /\ \A th \in Threads : mark[th] # "black" => mark'[th] # "black"
          /\ ShutOK => \A uv \in UpVals : ~IsOpen(uv) => mark'[uv] # "gray"
      BY <2>1, <2>3, GrownIs DEF Always
    <2>6. \A x \in Obj : ~IsDead(x) /\ ~IsDead(x)'
      <3>1. Before
        BY <1>2 DEF Before, SweepStates
      <3>2. \A x \in Obj : ~IsDead(x)
        BY <3>1, NoneDead DEF Open
      <3> QED
        BY <1>1, <2>5, <3>2 DEF Darker, IsDead
    <2>7. Calm
      BY <2>5, <2>6 DEF Calm, Open, RefsOK, IsDead
    <2>8. NonWhite \subseteq NonWhite'
      BY <2>5, DarkerNonWhite DEF Always
    <2>9. {v} \ {Nil} \subseteq NonWhite'
      BY <2>1, <2>3 DEF NonWhite, IsWhite, Opt
    <2>10. ASSUME NEW x \in Obj, mark'[x] = "black", mark[x] # "black"
           PROVE  x # o /\ AllRefs(x) \subseteq NonWhite'
      <3>1. \A y \in AllRefs(x) : m[y] \notin Whites
        BY <2>1, <2>3, <2>4, <2>10, SoundRefs DEF Open
      <3>2. AllRefs(x) \subseteq Obj
        BY RefsAre DEF Always
      <3> QED
        BY <1>2, <2>1, <2>10, <3>1, <3>2 DEF NonWhite, IsWhite
    <2> QED
      BY <2>7, <2>8, <2>9, <2>10 DEF Safe
  <1>3. CASE mark[o] = "black" /\ gcstate # "propagate" /\ mark' = [mark EXCEPT ![o] = white]
    <2>1. o \notin Threads /\ mark \in [Obj -> Marks]
      BY <1>3 DEF Open, RefsOK, Always, TypeOK, Marks
    <2>2. mark'[o] = white /\ \A x \in Obj \ {o} : mark'[x] = mark[x]
      BY <1>3, <2>1
    <2>3. white \in Whites /\ white # OtherWhite /\ white \notin {"gray", "black", "free"}
      BY DEF Always, TypeOK, OtherWhite, Whites
    <2>4. \A x \in Obj : Alive(x)' = Alive(x) /\ IsDead(x)' = IsDead(x)
      BY <1>1, <1>3, <2>2, <2>3 DEF Alive, IsDead
    <2>5. Calm
      BY <2>1, <2>2, <2>3, <2>4, KindsAre DEF Calm, Open, ShutOK, RefsOK
    <2> QED
      BY <1>3, <2>5 DEF Safe
  <1>4. CASE ~(mark[o] = "black" /\ WhiteOf({v}) # {})
    <2>1. mark' = mark
      BY <1>4 DEF BarrierForward
    <2>2. mark[o] = "black" => {v} \ {Nil} \subseteq NonWhite
      BY <1>4 DEF WhiteOf, NonWhite, Opt
    <2> QED
      BY <2>1, <2>2, StillCalm
  <1> QED
    BY <1>2, <1>3, <1>4 DEF BarrierForward

\* A field of an object the program can name is given a value it can name.
LEMMA FieldOpen ==
    ASSUME Always, Open, ~Stopped, Calm, NEW o \in Kept, NEW V \in SUBSET Kept, Safe(o, V),
           UNCHANGED <<stack, open, cur, white, unswept, tmudata, gcstate, weak>>,
           basic' \in Opt(Kept), FieldsOK(o)', ~(o \in UpVals /\ IsOpen(o)),
           \A x \in Obj \ {o} : fld'[x] = fld[x],
           \A s \in Slots : fld'[o][s] \in {fld[o][s], Nil} \cup V
    PROVE  Open'
  <1>1. /\ stack' = stack /\ open' = open /\ cur' = cur /\ unswept' = unswept
        /\ tmudata' = tmudata /\ gcstate' = gcstate /\ weak' = weak
    OBVIOUS
  <1>2. \A x : IsOpen(x)' = IsOpen(x) /\ Left(x)' = Left(x) /\ InTmu(x)' = InTmu(x)
    BY <1>1 DEF IsOpen, Left, InTmu
  <1>3. o \in Obj /\ Kept \subseteq Obj /\ Nil \notin V
    BY KindsAre DEF Kept
  <1>4. \A x \in Obj \ {o} : AllRefs(x)' = AllRefs(x)
    <2>1. \A uv \in UpVals : uv # o => UpValue(uv)' = UpValue(uv)
      BY <1>1, <1>2, KindsAre DEF UpValue
    <2> QED
      BY <1>1, <2>1 DEF AllRefs, StackValues
  <1>5. AllRefs(o)' \subseteq AllRefs(o) \cup V
    <2>1. CASE o \in UpVals
      <3>1. UpValue(o)' = fld'[o]["val"] /\ UpValue(o) = fld[o]["val"] /\ "val" \in Slots
        BY <1>2, <2>1 DEF UpValue, Slots
      <3> QED
        BY <2>1, <3>1 DEF AllRefs
    <2>2. CASE o \notin UpVals
      BY <1>1, <2>2 DEF AllRefs, StackValues
    <2> QED
      BY <2>1, <2>2
  <1>6. RefsOK'
    <2>1. \A th \in Threads : Alive(th)' = Alive(th)
      BY KindsAre DEF Calm
    <2>2. \A x \in Obj \ {o} : FieldsOK(x)'
      <3>1. \A x \in Obj : Alive(x)' = Alive(x)
        BY DEF Calm
      <3> QED
        BY <1>2, <3>1 DEF Open, RefsOK, FieldsOK
    <2> QED
      BY <1>1, <2>1, <2>2 DEF RefsOK, Open, Calm
  <1>7. ShutOK'
    BY <1>2 DEF Calm, ShutOK
  <1>8. DeadOK'
    BY <1>2 DEF Calm, DeadOK, Open
  <1>9. Kept' = Kept
    BY DEF Calm, Kept
  <1>10. KeptOK'
    <2>1. Roots' \subseteq Kept
      BY <1>1 DEF Roots, Opt, Open, KeptOK
    <2>2. \A x \in Kept : AllRefs(x)' \subseteq Kept
      BY <1>3, <1>4, <1>5 DEF Open, KeptOK
    <2> QED
      BY <1>9, <2>1, <2>2 DEF KeptOK
  <1>11. MarksOK'
    <2>1. ASSUME gcstate = "propagate", BlackOK, RootsOK
          PROVE  BlackOK' /\ RootsOK'
      <3>1. /\ NonWhite \subseteq NonWhite'
            /\ \A x \in Obj : mark'[x] = "black" =>
                 /\ mark[x] = "black" \/ (x # o /\ AllRefs(x) \subseteq NonWhite')
                 /\ x = o => V \subseteq NonWhite'
        BY <2>1 DEF Safe
      <3>2. RootsOK'
        BY <2>1, <3>1 DEF RootsOK
      <3>3. SUFFICES ASSUME NEW x \in Obj, mark'[x] = "black", ~InTmu(x)
                     PROVE  AllRefs(x)' \subseteq NonWhite'
        BY <1>2, <3>2 DEF BlackOK
      <3>4. AllRefs(x) \subseteq NonWhite'
        BY <2>1, <3>1, <3>3 DEF BlackOK
      <3> QED
        BY <1>4, <1>5, <3>1, <3>3, <3>4
    <2> QED
      BY <1>1, <2>1, ProgramMarks DEF Open
  <1> QED
    BY <1>6, <1>7, <1>8, <1>10, <1>11 DEF Open

\* Two records of references that agree everywhere are one.
LEMMA SameFields ==
    ASSUME TypeOK, fld' \in [Obj -> [Slots -> Opt(Obj)]], NEW x \in Obj,
           \A s \in Slots : fld'[x][s] = fld[x][s]
    PROVE  fld'[x] = fld[x]
  <1>1. fld'[x] \in [Slots -> Opt(Obj)] /\ fld[x] \in [Slots -> Opt(Obj)]
    BY DEF TypeOK, Opt
  <1> QED
    BY <1>1

\* An assignment to a table keeps Open.
LEMMA SetTableOpen ==
    ASSUME Always, Open, NEW t, NEW k, NEW v, SetTable(t, k, v)
    PROVE  Open'
  <1> DEFINE V == IF v = Nil THEN {} ELSE {k, v} \ {Nil}
  <1>1. /\ UNCHANGED <<stack, open, cur, white, unswept, tmudata, gcstate, weak>> /\ ~Stopped
        /\ basic' = basic
        /\ t \in Named /\ {k, v} \subseteq StackValues(cur) \cup {Nil}
    BY DEF SetTable, LuaValues
  <1>2. t \in Kept /\ V \in SUBSET Kept /\ {k, v} \subseteq Opt(Values)
    BY <1>1, NamedKept DEF Opt
  <1>3. /\ t \in Tables /\ {k, v} \subseteq Opt(Obj) /\ Barred
        /\ fld' \in [Obj -> [Slots -> Opt(Obj)]]
        /\ \A x \in Obj, s \in Slots : x # t \/ s \notin {"key", "val"} => fld'[x][s] = fld[x][s]
        /\ fld'[t]["val"] = v /\ fld'[t]["key"] = IF v = Nil THEN Nil ELSE k
    BY SetTableIs
  <1>4. /\ t \in Obj /\ Kind[t] = "table" /\ t \notin UpVals /\ Alive(t)
        /\ Slots = {"mt", "env", "key", "val"}
    BY <1>2, <1>3, KindsAre DEF Kept, Slots
  <1>5. Calm /\ Safe(t, V)
    <2>1. CASE v = Nil
      <3>1. mark' = mark /\ V = {}
        BY <2>1 DEF SetTable
      <3> HIDE DEF V
      <3> QED
        BY <1>1, <3>1, StillCalm
    <2>2. CASE v # Nil
      <3>1. BarrierBack(t, {k, v}) /\ V = {k, v} \ {Nil}
        BY <2>2 DEF SetTable
      <3> HIDE DEF V
      <3>2. {k, v} \in SUBSET Opt(Obj)
        BY <1>3
      <3> QED
        BY <1>1, <1>3, <3>1, <3>2, BackSafe
    <2> QED
      BY <2>1, <2>2
  <1>6. FieldsOK(t)
    BY <1>4 DEF Open, RefsOK
  <1>7. FieldsOK(t)'
    <2>1. fld'[t]["mt"] = fld[t]["mt"] /\ fld'[t]["env"] = fld[t]["env"]
      BY <1>3, <1>4
    <2> QED
      BY <1>2, <1>3, <1>4, <1>6, <2>1 DEF FieldsOK, Opt
  <1>8. \A x \in Obj \ {t} : fld'[x] = fld[x]
    BY <1>3, SameFields DEF Always
  <1>9. \A s \in Slots : fld'[t][s] \in {fld[t][s], Nil} \cup V
    BY <1>3, <1>4
  <1>10. basic' \in Opt(Kept)
    BY <1>1 DEF Open, KeptOK, Roots, Opt
  <1> HIDE DEF V
  <1> QED
    BY <1>1, <1>2, <1>4, <1>5, <1>7, <1>8, <1>9, <1>10, FieldOpen

\* One field of an object is set.
LEMMA OneField ==
    ASSUME Always, NEW o \in Obj, NEW s \in Slots, NEW v \in Opt(Obj),
           fld' = [fld EXCEPT ![o][s] = v]
    PROVE  /\ \A x \in Obj \ {o} : fld'[x] = fld[x]
           /\ \A r \in Slots : r # s => fld'[o][r] = fld[o][r]
           /\ fld'[o][s] = v
  <1>1. /\ fld' \in [Obj -> [Slots -> Opt(Obj)]]
        /\ \A x \in Obj, r \in Slots : x # o \/ r # s => fld'[x][r] = fld[x][r]
        /\ o \in Obj => fld'[o][s] = v
    BY FieldSet DEF Always
  <1>2. \A x \in Obj \ {o} : fld'[x] = fld[x]
    BY <1>1, SameFields DEF Always
  <1> QED
    BY <1>1, <1>2

\* The metatables of the basic types are kept.
LEMMA BasicKept ==
    ASSUME Always, Open
    PROVE  basic \in Opt(Kept)
  BY DEF Open, KeptOK, Roots, Opt

\* lua_setmetatable keeps Open: a metatable of a basic type needs no barrier.
LEMMA SetMetatableOpen ==
    ASSUME Always, Open, NEW o, NEW mt, SetMetatable(o, mt)
    PROVE  Open'
  <1>1. /\ UNCHANGED <<stack, open, cur, white, unswept, tmudata, gcstate, weak>> /\ ~Stopped
        /\ o \in Named /\ mt \in (Named \cap Bound.metas) \cup {Nil}
    BY DEF SetMetatable
  <1>2. o \in Kept /\ mt \in Opt(Kept \cap Tables)
    BY <1>1, NamedKept, WorldIs DEF Opt, Always
  <1>3. /\ o \in Obj /\ Alive(o) /\ mt \in Opt(Obj) /\ mt \in Opt(Tables) /\ mt \in Opt(Kept)
        /\ {mt} \ {Nil} \in SUBSET Kept /\ {mt} \in SUBSET Opt(Obj)
        /\ Slots = {"mt", "env", "key", "val"}
    BY <1>2, KindsAre DEF Kept, Opt, Slots
  <1>4. basic \in Opt(Kept)
    BY BasicKept
  <1>5. FieldsOK(o)
    BY <1>3 DEF Open, RefsOK
  <1>6. CASE Kind[o] \in {"table", "udata"}
    <2>1. fld' = [fld EXCEPT ![o]["mt"] = mt] /\ basic' = basic
      BY <1>6 DEF SetMetatable
    <2>2. "mt" \in Slots
      BY <1>3
    <2>3. /\ \A x \in Obj \ {o} : fld'[x] = fld[x]
          /\ \A r \in Slots : r # "mt" => fld'[o][r] = fld[o][r]
          /\ fld'[o]["mt"] = mt
      BY <1>3, <2>1, <2>2, OneField
    <2>4. Calm /\ Safe(o, {mt} \ {Nil})
      <3>1. CASE Kind[o] = "table"
        <4>1. BarrierBack(o, {mt}) /\ o \in Tables
          BY <1>3, <3>1, KindsAre DEF SetMetatable
        <4> QED
          BY <1>1, <1>3, <4>1, BackSafe
      <3>2. CASE Kind[o] = "udata"
        <4>1. BarrierForward(o, mt)
          BY <3>2 DEF SetMetatable
        <4> QED
          BY <1>1, <1>3, <4>1, ForwardSafe
      <3> QED
        BY <1>6, <3>1, <3>2
    <2>5. FieldsOK(o)'
      <3>1. fld'[o]["env"] = fld[o]["env"] /\ fld'[o]["key"] = fld[o]["key"]
            /\ fld'[o]["val"] = fld[o]["val"]
        BY <1>3, <2>3
      <3> QED
        BY <1>3, <1>5, <1>6, <2>3, <3>1 DEF FieldsOK
    <2>6. \A s \in Slots : fld'[o][s] \in {fld[o][s], Nil} \cup ({mt} \ {Nil})
      BY <2>3
    <2>7. o \notin UpVals /\ basic' \in Opt(Kept)
      BY <1>3, <1>4, <1>6, <2>1, KindsAre
    <2> DEFINE V == {mt} \ {Nil}
    <2>8. V \in SUBSET Kept /\ Safe(o, V) /\ \A s \in Slots : fld'[o][s] \in {fld[o][s], Nil} \cup V
      BY <1>3, <2>4, <2>6
    <2> HIDE DEF V
    <2> QED
      BY <1>1, <1>2, <2>3, <2>4, <2>5, <2>7, <2>8, FieldOpen
  <1>7. CASE Kind[o] \notin {"table", "udata"}
    <2>1. basic' = mt /\ UNCHANGED <<fld, mark>>
      BY <1>7 DEF SetMetatable
    <2>2. white' = white
      BY <1>1
    <2>3. PICK th : th = cur
      OBVIOUS
    <2>4. th \in Kept /\ th \in Obj /\ th \notin UpVals /\ Kind[th] = "thread"
      BY <2>3, NamedKept, KindsAre
    <2>5. Calm /\ Safe(th, {})
      BY <2>1, <2>2, StillCalm
    <2>6. FieldsOK(th)'
      <3>1. FieldsOK(th) /\ Alive(th)
        BY <2>4 DEF Open, RefsOK, Kept
      <3> QED
        BY <2>1, <2>4, <3>1 DEF FieldsOK
    <2>7. /\ {} \in SUBSET Kept /\ basic' \in Opt(Kept)
          /\ \A x \in Obj \ {th} : fld'[x] = fld[x]
          /\ \A s \in Slots : fld'[th][s] \in {fld[th][s], Nil} \cup {}
      BY <1>3, <2>1
    <2> QED
      BY <1>1, <2>4, <2>5, <2>6, <2>7, FieldOpen
  <1> QED
    BY <1>6, <1>7

\* lua_setfenv keeps Open.
LEMMA SetFEnvOpen ==
    ASSUME Always, Open, NEW o, NEW t, SetFEnv(o, t)
    PROVE  Open'
  <1>1. /\ UNCHANGED <<stack, open, cur, white, unswept, tmudata, gcstate, weak>> /\ ~Stopped
        /\ basic' = basic /\ o \in StackValues(cur) /\ t \in Named \cap Bound.envs
        /\ Kind[o] \in {"lclosure", "cclosure", "udata", "thread"}
        /\ fld' = [fld EXCEPT ![o]["env"] = t] /\ BarrierForward(o, t)
    BY DEF SetFEnv
  <1>2. o \in Kept /\ t \in Kept /\ t \in Tables
    BY <1>1, NamedKept, WorldIs DEF Always
  <1> DEFINE V == {t} \ {Nil}
  <1>3. /\ o \in Obj /\ Alive(o) /\ t \in Opt(Obj) /\ o \notin UpVals /\ V \in SUBSET Kept
        /\ Slots = {"mt", "env", "key", "val"} /\ "env" \in Slots
    BY <1>1, <1>2, KindsAre DEF Kept, Opt, Slots
  <1>4. /\ \A x \in Obj \ {o} : fld'[x] = fld[x]
        /\ \A r \in Slots : r # "env" => fld'[o][r] = fld[o][r]
        /\ fld'[o]["env"] = t
    BY <1>1, <1>3, OneField
  <1>5. \A s \in Slots : fld'[o][s] \in {fld[o][s], Nil} \cup V
    BY <1>4
  <1>6. Calm /\ Safe(o, V)
    BY <1>1, <1>3, ForwardSafe
  <1>7. FieldsOK(o)'
    <2>1. fld'[o]["mt"] = fld[o]["mt"] /\ fld'[o]["key"] = fld[o]["key"]
          /\ fld'[o]["val"] = fld[o]["val"] /\ FieldsOK(o)
      BY <1>3, <1>4 DEF Open, RefsOK
    <2> QED
      BY <1>1, <1>2, <1>3, <1>4, <2>1 DEF FieldsOK
  <1>8. basic' \in Opt(Kept)
    BY <1>1, BasicKept
  <1> HIDE DEF V
  <1> QED
    BY <1>1, <1>2, <1>3, <1>4, <1>5, <1>6, <1>7, <1>8, FieldOpen

\* Values move on the stacks, or are replaced by others the program can name.
LEMMA StackOpen ==
    ASSUME Always, Open, ~Stopped, NEW V \in SUBSET Kept, mark' = mark, cur' \in Kept,
           UNCHANGED <<fld, open, basic, white, unswept, gcstate, weak, tmudata>>,
           \A th \in Threads : /\ stack'[th] \in Seq(Values)
                               /\ ~Alive(th) => stack'[th] = <<>>
                               /\ StackValues(th)' \subseteq StackValues(th) \cup V,
           \A uv \in UpVals : IsOpen(uv) =>
              stack'[open[uv].th][open[uv].lvl] \in {UpValue(uv)} \cup V
    PROVE  Open'
  <1>1. /\ fld' = fld /\ open' = open /\ basic' = basic /\ white' = white /\ unswept' = unswept
        /\ gcstate' = gcstate /\ weak' = weak /\ tmudata' = tmudata
    OBVIOUS
  <1>2. \A x : /\ IsOpen(x)' = IsOpen(x) /\ Left(x)' = Left(x)
               /\ Alive(x)' = Alive(x) /\ IsDead(x)' = IsDead(x)
    BY <1>1 DEF IsOpen, Left, Alive, IsDead, OtherWhite
  <1>3. Kept' = Kept /\ Kept \subseteq Obj /\ Nil \notin V
    BY <1>2, KindsAre DEF Kept
  <1>4. ASSUME NEW x \in Obj
        PROVE  /\ AllRefs(x)' \subseteq AllRefs(x) \cup V
               /\ x \notin Threads /\ ~(x \in UpVals /\ IsOpen(x)) => AllRefs(x)' = AllRefs(x)
    <2>1. CASE x \in UpVals /\ IsOpen(x)
      <3>1. UpValue(x)' \in {UpValue(x)} \cup V
        BY <1>1, <1>2, <2>1 DEF UpValue
      <3> QED
        BY <2>1, <3>1 DEF AllRefs
    <2>2. CASE x \in UpVals /\ ~IsOpen(x)
      <3>1. UpValue(x)' = UpValue(x)
        BY <1>1, <1>2, <2>2 DEF UpValue
      <3> QED
        BY <2>2, <3>1 DEF AllRefs
    <2>3. CASE x \notin UpVals
      BY <1>1, <2>3 DEF AllRefs
    <2> QED
      BY <2>1, <2>2, <2>3
  <1>5. RefsOK'
    BY <1>1, <1>2 DEF Open, RefsOK, FieldsOK, Alive
  <1>6. ShutOK'
    BY <1>2 DEF Open, ShutOK
  <1>7. DeadOK'
    BY <1>2 DEF Open, DeadOK
  <1>8. KeptOK'
    <2>1. Roots' \subseteq Kept
      BY <1>1 DEF Roots, Open, KeptOK
    <2>2. \A x \in Kept : AllRefs(x)' \subseteq Kept
      BY <1>3, <1>4 DEF Open, KeptOK
    <2> QED
      BY <1>3, <2>1, <2>2 DEF KeptOK
  <1>9. MarksOK'
    <2>1. \A x \in Obj \ Kept : mark'[x] # "black"
      BY BlackKept
    <2>2. \A x \in Kept \ Threads : AllRefs(x)' = AllRefs(x) \/ (x \in UpVals /\ IsOpen(x))
      BY <1>3, <1>4
    <2> QED
      BY <1>1, <2>1, <2>2, NewMarks
  <1> QED
    BY <1>5, <1>6, <1>7, <1>8, <1>9 DEF Open

\* OP_SETUPVAL keeps Open: an open upvalue is never black, a closed one has a barrier.
LEMMA SetUpvalueOpen ==
    ASSUME Always, Open, NEW f, NEW v, SetUpvalue(f, v)
    PROVE  Open'
  <1> DEFINE uv == fld[f]["val"]
             o == IF Kind[f] = "lclosure" THEN uv ELSE f
  <1>1. /\ UNCHANGED <<open, cur, basic, white, unswept, tmudata, gcstate, weak>> /\ ~Stopped
        /\ {f, v} \subseteq StackValues(cur) /\ Kind[f] \in {"lclosure", "cclosure"}
    BY DEF SetUpvalue, LuaValues
  <1>2. {f, v} \subseteq Kept /\ v \in Values /\ Kept \subseteq Obj
    BY <1>1, NamedKept
  <1>3. /\ f \in Obj /\ Alive(f) /\ v \in Obj /\ v # Nil /\ "val" \in Slots
        /\ f \notin UpVals /\ AllRefs(f) \subseteq Kept
    BY <1>1, <1>2, KindsAre DEF Kept, Slots, Open, KeptOK
  <1>4. Kind[f] = "lclosure" => uv \in UpVals /\ uv \in Kept
    <2>1. Kind[f] = "lclosure" => uv \in UpVals /\ uv # Nil
      BY <1>3, KindsAre DEF Open, RefsOK, FieldsOK
    <2>2. uv # Nil => uv \in AllRefs(f)
      BY <1>3 DEF AllRefs
    <2> QED
      BY <1>3, <2>1, <2>2
  <1>5. CASE Kind[f] = "lclosure" /\ IsOpen(uv)
    <2>0. PICK t, l : t = open[uv].th /\ l = open[uv].lvl
      OBVIOUS
    <2>1. stack' = [stack EXCEPT ![t][l] = v] /\ fld' = fld /\ mark' = mark
      BY <1>5, <2>0 DEF SetUpvalue
    <2>2. t \in Threads /\ Alive(t)
      BY <1>4, <1>5, <2>0 DEF Always, OpenOK
    <2>3. /\ stack' \in [Threads -> Seq(Obj)]
          /\ \A th \in Threads : /\ Len(stack'[th]) = Len(stack[th])
                                 /\ th # t => stack'[th] = stack[th]
                                 /\ \A j \in 1..Len(stack[th]) :
                                      stack'[th][j] = IF th = t /\ j = l THEN v ELSE stack[th][j]
      <3>1. TypeOK /\ v \in Obj
        BY <1>3 DEF Always
      <3>2. Replaced(t, l, v)
        BY <2>1, <3>1, StackSet
      <3> QED
        BY <3>2 DEF Replaced
    <2>4. ASSUME NEW th \in Threads
          PROVE  /\ stack'[th] \in Seq(Values) /\ (~Alive(th) => stack'[th] = <<>>)
                 /\ StackValues(th)' \subseteq StackValues(th) \cup {v}
      <3>1. /\ stack[th] \in Seq(Values) /\ (~Alive(th) => stack[th] = <<>>)
            /\ stack'[th] \in Seq(Obj)
        BY <2>3 DEF Open, RefsOK
      <3>2. /\ DOMAIN stack'[th] = 1..Len(stack[th]) /\ DOMAIN stack[th] = 1..Len(stack[th])
            /\ Len(stack[th]) \in Nat
        BY <2>3, <3>1
      <3>3. \A j \in 1..Len(stack[th]) : stack'[th][j] \in Values
        BY <1>2, <2>3, <3>1
      <3>4. stack'[th] \in Seq(Values)
        BY <3>1, <3>2, <3>3
      <3>5. ~Alive(th) => stack'[th] = <<>>
        BY <2>2, <2>3, <3>1
      <3>6. StackValues(th)' \subseteq StackValues(th) \cup {v}
        BY <2>3, <3>2 DEF StackValues
      <3> QED
        BY <3>4, <3>5, <3>6
    <2>5. \A x \in UpVals : IsOpen(x) => stack'[open[x].th][open[x].lvl] \in {UpValue(x)} \cup {v}
      BY <2>3 DEF Always, OpenOK, UpValue
    <2>6. cur' \in Kept
      BY <1>1, NamedKept
    <2>7. {v} \in SUBSET Kept
      BY <1>2
    <2> QED
      BY <1>1, <2>1, <2>4, <2>5, <2>6, <2>7, StackOpen
  <1>6. CASE ~(Kind[f] = "lclosure" /\ IsOpen(uv))
    <2>1. fld' = [fld EXCEPT ![o]["val"] = v] /\ BarrierForward(o, v) /\ stack' = stack
      BY <1>6 DEF SetUpvalue
    <2>2. o \in Kept /\ o \in Obj /\ ~(o \in UpVals /\ IsOpen(o)) /\ Alive(o)
          /\ (Kind[o] = "cclosure" \/ (Kind[o] = "upval" /\ ~IsOpen(o)))
      BY <1>1, <1>2, <1>3, <1>4, <1>6, KindsAre DEF Kept
    <2> HIDE DEF o, uv
    <2> DEFINE V == {v} \ {Nil}
    <2>3. v \in Opt(Obj) /\ V \in SUBSET Kept /\ basic' \in Opt(Kept)
      BY <1>1, <1>2, <1>3, BasicKept DEF Opt
    <2>6. PICK p : p = o
      OBVIOUS
    <2>4. /\ \A x \in Obj \ {p} : fld'[x] = fld[x]
          /\ \A r \in Slots : r # "val" => fld'[p][r] = fld[p][r]
          /\ fld'[p]["val"] = v
      <3>1. p \in Obj
        BY <2>2, <2>6
      <3>2. fld' = [fld EXCEPT ![p]["val"] = v]
        BY <2>1, <2>6
      <3>3. "val" \in Slots
        BY DEF Slots
      <3> QED
        <4>1. PICK s : s = "val"
          OBVIOUS
        <4>2. s \in Slots /\ fld' = [fld EXCEPT ![p][s] = v] /\ v \in Opt(Obj)
          BY <2>3, <3>2, <3>3, <4>1
        <4>3. /\ \A x \in Obj \ {p} : fld'[x] = fld[x]
              /\ \A r \in Slots : r # s => fld'[p][r] = fld[p][r]
              /\ fld'[p][s] = v
          BY <3>1, <4>2, OneField
        <4> QED
          BY <4>1, <4>3
    <2>5. Calm /\ Safe(p, V)
      <3>1. p \in Obj /\ BarrierForward(p, v)
        BY <2>1, <2>2, <2>6
      <3> QED
        BY <1>1, <2>3, <3>1, ForwardSafe
    <2>7. FieldsOK(p)'
      <3>1. FieldsOK(p) /\ fld'[p]["env"] = fld[p]["env"] /\ fld'[p]["val"] = v
        BY <2>2, <2>4, <2>6 DEF Open, RefsOK, Slots
      <3> QED
        BY <1>2, <2>2, <2>6, <3>1 DEF FieldsOK, Opt
    <2>8. \A s \in Slots : fld'[p][s] \in {fld[p][s], Nil} \cup V
      BY <1>3, <2>4, <2>6
    <2>9. /\ p \in Kept /\ ~(p \in UpVals /\ IsOpen(p)) /\ Safe(p, V)
          /\ \A x \in Obj \ {p} : fld'[x] = fld[x]
      BY <2>2, <2>4, <2>5, <2>6
    <2> HIDE DEF V
    <2> QED
      BY <1>1, <2>1, <2>3, <2>5, <2>7, <2>8, <2>9, FieldOpen
  <1> QED
    BY <1>5, <1>6

\* A resume or a yield keeps Open: no thread is ever black.
LEMMA SwitchOpen ==
    ASSUME Always, Open, NEW th \in world \cap Threads, NEW n, Switch(th, n)
    PROVE  Open'
  <1>1. /\ UNCHANGED <<fld, open, basic, white, unswept, gcstate, weak, tmudata>> /\ ~Stopped
        /\ mark' = mark /\ cur' = th /\ th # cur
        /\ th \in StackValues(cur) \/ th = Main
    BY DEF Switch, gcvars
  <1>2. /\ cur \in Kept /\ cur \in Threads /\ th \in Kept /\ th \in Threads
        /\ StackValues(cur) \subseteq Kept \cap Values
    BY <1>1, NamedKept, KindsAre DEF Open, KeptOK, Roots
  <1>3. Alive(cur) /\ Alive(th)
    BY <1>2 DEF Kept
  <1>4. \A t \in Threads : stack[t] \in Seq(Values) /\ (~Alive(t) => stack[t] = <<>>)
    BY DEF Open, RefsOK
  <1>5. stack \in [Threads -> Seq(Obj)]
    BY DEF Always, TypeOK
  <1>6. CASE stack' = stack
    <2>1. \A t \in Threads : StackValues(t)' \subseteq StackValues(t) \cup {}
      BY <1>6 DEF StackValues
    <2>2. \A uv \in UpVals : IsOpen(uv) =>
            stack'[open[uv].th][open[uv].lvl] \in {UpValue(uv)} \cup {}
      BY <1>6 DEF UpValue
    <2>3. {} \in SUBSET Kept /\ cur' \in Kept
      BY <1>1, <1>2
    <2> QED
      BY <1>1, <1>4, <1>6, <2>1, <2>2, <2>3, StackOpen
  <1>7. CASE stack' # stack
    <2>0. PICK c : c = cur
      OBVIOUS
    <2> DEFINE top == Len(stack[c])
               x == stack[c][top]
               s1 == Append(stack[th], x)
               s2 == SubSeq(stack[c], 1, top - 1)
    <2>1. /\ top > 0 /\ (\A uv \in OpenOf(c) : open[uv].lvl # top)
          /\ stack' = [stack EXCEPT ![th] = s1, ![c] = s2] /\ th # c /\ c \in Threads /\ Alive(c)
      BY <1>1, <1>2, <1>3, <1>7, <2>0 DEF Switch
    <2>2. /\ top \in Nat /\ stack[c] \in Seq(Values) /\ stack[th] \in Seq(Values)
          /\ DOMAIN stack[c] = 1..top
          /\ x \in Values /\ x \in StackValues(c)
      <3>1. stack[c] \in Seq(Values) /\ stack[th] \in Seq(Values)
        BY <1>2, <1>4, <2>1
      <3>2. top \in Nat /\ DOMAIN stack[c] = 1..top /\ top \in 1..top
        BY <2>1, <3>1
      <3> QED
        BY <3>1, <3>2 DEF StackValues
    <2>3. /\ s1 \in Seq(Values) /\ s2 \in Seq(Values) /\ Len(s2) = top - 1
          /\ Len(s1) = Len(stack[th]) + 1 /\ Len(stack[th]) \in Nat
          /\ \A i \in 1..Len(stack[th]) : s1[i] = stack[th][i]
          /\ s1[Len(stack[th]) + 1] = x
          /\ \A i \in 1..(top - 1) : s2[i] = stack[c][i] /\ i \in 1..top
      <3>1. /\ s1 \in Seq(Values) /\ Len(s1) = Len(stack[th]) + 1 /\ Len(stack[th]) \in Nat
            /\ \A i \in 1..Len(stack[th]) : s1[i] = stack[th][i]
            /\ s1[Len(stack[th]) + 1] = x
        BY <2>2
      <3>2. /\ s2 \in Seq(Values) /\ Len(s2) = top - 1
            /\ \A i \in 1..(top - 1) : s2[i] = stack[c][i] /\ i \in 1..top
        BY <2>1, <2>2
      <3> QED
        BY <3>1, <3>2
    <2> HIDE DEF s1, s2, x
    <2>4. /\ stack'[th] = s1 /\ stack'[c] = s2
          /\ \A t \in Threads : t # th /\ t # c => stack'[t] = stack[t]
      BY <1>2, <1>5, <2>1
    <2>5. ASSUME NEW t \in Threads
          PROVE  /\ stack'[t] \in Seq(Values) /\ (~Alive(t) => stack'[t] = <<>>)
                 /\ StackValues(t)' \subseteq StackValues(t) \cup {x}
      <3>1. CASE t = th
        <4>1. DOMAIN s1 = 1..(Len(stack[th]) + 1) /\ DOMAIN stack[th] = 1..Len(stack[th])
          BY <2>2, <2>3
        <4>2. \A i \in 1..(Len(stack[th]) + 1) : i \in 1..Len(stack[th]) \/ i = Len(stack[th]) + 1
          BY <2>3
        <4>4. StackValues(t)' = {s1[i] : i \in DOMAIN s1}
          BY <2>4, <3>1 DEF StackValues
        <4>5. StackValues(t) = {stack[th][i] : i \in DOMAIN stack[th]}
          BY <3>1 DEF StackValues
        <4>6. \A i \in DOMAIN s1 : s1[i] \in StackValues(t) \cup {x}
          BY <2>3, <4>1, <4>2, <4>5
        <4>3. StackValues(t)' \subseteq StackValues(t) \cup {x}
          BY <4>4, <4>6
        <4> QED
          BY <1>3, <2>3, <2>4, <3>1, <4>3
      <3>2. CASE t = c
        <4>1. DOMAIN s2 = 1..(top - 1)
          BY <2>2, <2>3
        <4>3. StackValues(t)' = {s2[i] : i \in DOMAIN s2}
          BY <2>4, <3>2 DEF StackValues
        <4>4. StackValues(t) = {stack[c][i] : i \in DOMAIN stack[c]}
          BY <3>2 DEF StackValues
        <4>5. \A i \in DOMAIN s2 : s2[i] \in StackValues(t)
          <5> HIDE DEF top
          <5> QED
            BY <2>2, <2>3, <4>1, <4>4
        <4>2. StackValues(t)' \subseteq StackValues(t) \cup {x}
          BY <4>3, <4>5
        <4> QED
          BY <2>1, <2>3, <2>4, <3>2, <4>2
      <3>3. CASE t # th /\ t # c
        <4>1. stack'[t] = stack[t]
          BY <2>4, <3>3
        <4> QED
          BY <1>4, <4>1 DEF StackValues
      <3> QED
        BY <3>1, <3>2, <3>3
    <2>6. ASSUME NEW uv \in UpVals, IsOpen(uv)
          PROVE  stack'[open[uv].th][open[uv].lvl] = UpValue(uv)
      <3>1. open[uv].th \in Threads /\ open[uv].lvl \in 1..Len(stack[open[uv].th])
        BY <2>6 DEF Always, OpenOK
      <3>2. UpValue(uv) = stack[open[uv].th][open[uv].lvl]
        BY <2>6 DEF UpValue
      <3>3. CASE open[uv].th = c
        <4>1. open[uv].lvl # top
          BY <2>1, <3>3 DEF OpenOf
        <4>2. open[uv].lvl \in 1..top
          BY <3>1, <3>3
        <4> HIDE DEF top
        <4>3. open[uv].lvl \in 1..(top - 1)
          BY <2>2, <4>1, <4>2
        <4> QED
          BY <2>3, <2>4, <3>2, <3>3, <4>3
      <3>4. CASE open[uv].th # c
        BY <2>3, <2>4, <3>1, <3>2, <3>4
      <3> QED
        BY <3>3, <3>4
    <2>7. {x} \in SUBSET Kept /\ cur' \in Kept
      BY <1>1, <1>2, <2>0, <2>2
    <2>8. \A uv \in UpVals : IsOpen(uv) =>
            stack'[open[uv].th][open[uv].lvl] \in {UpValue(uv)} \cup {x}
      BY <2>6
    <2> QED
      BY <1>1, <2>5, <2>7, <2>8, StackOpen
  <1> QED
    BY <1>6, <1>7

-----------------------------------------------------------------------------
(* New objects. *)

\* An object o is made and pushed; the upvalues U are open at level l of the
\* running thread, where they were before if they are not made as well.
Made(o, U, l) ==
  /\ o \in Values /\ ~Alive(o) /\ ~Stopped /\ U \in SUBSET UpVals
  /\ mark' \in [Obj -> Marks] /\ mark'[o] = white
  /\ \A x \in U : mark'[x] = IF x \in Kept THEN mark[x] ELSE white
  /\ \A x \in Obj \ (U \cup {o}) : mark'[x] = mark[x]
  /\ \A x \in Obj \ {o} : fld'[x] = fld[x]
  /\ open' \in [UpVals -> [th : Threads \cup {Nil}, lvl : Nat]]
  /\ \A x \in UpVals \ U : open'[x] = open[x]
  /\ \A x \in U : /\ open'[x] = [th |-> cur, lvl |-> l] /\ l \in 1..Len(stack[cur])
                  /\ Alive(x) => open'[x] = open[x]
  /\ stack' = [stack EXCEPT ![cur] = Append(@, o)]
  /\ UNCHANGED <<world, fin, cur, basic, tmudata, closing, calls>>
  /\ UNCHANGED <<gcstate, white, gray, grayagain, weak, unswept, sweepgc, full>>

\* What is made is alive afterwards, and the rest is as it was.
LEMMA MadeIs ==
    ASSUME Always, Open, NEW o, NEW U, NEW l, Made(o, U, l)
    PROVE  /\ o \in Obj /\ o \notin U /\ U \subseteq Obj /\ o \notin Kept
           /\ white \in Whites /\ white \notin {"gray", "black", "free"} /\ white # OtherWhite
           /\ OtherWhite' = OtherWhite
           /\ \A x \in U \cup {o} : Alive(x)' /\ ~IsDead(x)'
           /\ \A x \in Obj \ (U \cup {o}) : Alive(x)' = Alive(x) /\ IsDead(x)' = IsDead(x)
           /\ \A x \in U : /\ IsOpen(x)' /\ (Alive(x) => IsOpen(x))
                           /\ mark'[x] = mark[x] \/ mark'[x] = white
                           /\ mark'[x] # "black"
           /\ \A x \in UpVals \ U : IsOpen(x)' = IsOpen(x)
           /\ \A x \in UpVals : IsOpen(x) => open'[x] = open[x]
           /\ Kept' = Kept \cup U \cup {o}
  <1>1. o \in Obj /\ o \notin U /\ U \subseteq Obj /\ o \notin Kept /\ Kept \subseteq Obj
    BY KindsAre DEF Made, Values, Kept
  <1>2. /\ white \in Whites /\ white \notin {"gray", "black", "free"} /\ white # OtherWhite
        /\ OtherWhite' = OtherWhite
    BY DEF Made, Always, TypeOK, Whites, OtherWhite
  <1>3. /\ mark'[o] = white /\ (\A x \in U : mark'[x] = IF x \in Kept THEN mark[x] ELSE white)
        /\ \A x \in Obj \ (U \cup {o}) : mark'[x] = mark[x]
        /\ \A x \in UpVals \ U : open'[x] = open[x]
        /\ \A x \in U : /\ open'[x] = [th |-> cur, lvl |-> l]
                        /\ Alive(x) => open'[x] = open[x]
        /\ U \subseteq UpVals
    BY DEF Made
  <1>4. \A x \in U \cup {o} : Alive(x)' /\ ~IsDead(x)'
    <2>1. Alive(o)' /\ ~IsDead(o)'
      BY <1>2, <1>3 DEF Alive, IsDead
    <2>2. \A x \in U : Alive(x)' /\ ~IsDead(x)'
      BY <1>2, <1>3 DEF Alive, IsDead, Kept
    <2> QED
      BY <2>1, <2>2
  <1>5. \A x \in Obj \ (U \cup {o}) : Alive(x)' = Alive(x) /\ IsDead(x)' = IsDead(x)
    BY <1>2, <1>3 DEF Alive, IsDead
  <1>6. \A x \in U : IsOpen(x)' /\ (Alive(x) => IsOpen(x))
    <2>1. cur \in Threads /\ cur # Nil
      BY KindsAre DEF Always, TypeOK
    <2>2. [th |-> cur, lvl |-> l] # NotOpen
      BY <2>1 DEF NotOpen
    <2> QED
      BY <1>3, <2>2 DEF IsOpen
  <1>7. \A x \in UpVals \ U : IsOpen(x)' = IsOpen(x)
    BY <1>3 DEF IsOpen
  <1>8. \A x \in UpVals : IsOpen(x) => open'[x] = open[x]
    BY <1>3 DEF Always, OpenOK
  <1>9. \A x \in U : /\ mark'[x] = mark[x] \/ mark'[x] = white
                     /\ mark'[x] # "black"
    BY <1>2, <1>3, <1>6 DEF Kept, Always, OpenOK
  <1>10. Kept' = Kept \cup U \cup {o}
    <2>1. \A x \in Obj : x \in Kept' <=> x \in Kept \cup U \cup {o}
      BY <1>4, <1>5 DEF Kept
    <2>2. Kept' \subseteq Obj
      BY DEF Kept
    <2> QED
      BY <1>1, <2>1, <2>2
  <1> QED
    BY <1>1, <1>2, <1>4, <1>5, <1>6, <1>7, <1>8, <1>9, <1>10

\* Making an object keeps Always.
LEMMA MadeAlways ==
    ASSUME Always, Open, NEW o, NEW U, NEW l, Made(o, U, l),
           fld' \in [Obj -> [Slots -> Opt(Obj)]],
           o \in Udata => {fld'[o]["mt"], fld'[o]["env"]} \subseteq Opt(Tables),
           udlist' \in Seq(Udata), Injective(udlist'),
           \A u \in Udata : InList(u)' => InList(u) \/ u = o
    PROVE  Always'
  <1>1. /\ o \in Obj /\ o \notin U /\ U \subseteq Obj /\ o \notin Kept
        /\ white \in Whites /\ white \notin {"gray", "black", "free"} /\ white # OtherWhite
        /\ OtherWhite' = OtherWhite
        /\ \A x \in U \cup {o} : Alive(x)' /\ ~IsDead(x)'
        /\ \A x \in Obj \ (U \cup {o}) : Alive(x)' = Alive(x) /\ IsDead(x)' = IsDead(x)
        /\ \A x \in U : /\ IsOpen(x)' /\ (Alive(x) => IsOpen(x))
                        /\ mark'[x] = mark[x] \/ mark'[x] = white
                        /\ mark'[x] # "black"
        /\ \A x \in UpVals \ U : IsOpen(x)' = IsOpen(x)
        /\ \A x \in UpVals : IsOpen(x) => open'[x] = open[x]
        /\ Kept' = Kept \cup U \cup {o}
    BY MadeIs
  <1>2. /\ o \in Values /\ ~Alive(o) /\ ~Stopped /\ U \in SUBSET UpVals
        /\ mark' \in [Obj -> Marks] /\ mark'[o] = white
        /\ \A x \in Obj \ (U \cup {o}) : mark'[x] = mark[x]
        /\ \A x \in Obj \ {o} : fld'[x] = fld[x]
        /\ open' \in [UpVals -> [th : Threads \cup {Nil}, lvl : Nat]]
        /\ \A x \in UpVals \ U : open'[x] = open[x]
        /\ \A x \in U : open'[x] = [th |-> cur, lvl |-> l] /\ l \in 1..Len(stack[cur])
        /\ stack' = [stack EXCEPT ![cur] = Append(@, o)]
        /\ world' = world /\ fin' = fin /\ cur' = cur /\ basic' = basic /\ tmudata' = tmudata
        /\ closing' = closing /\ calls' = calls
        /\ gcstate' = gcstate /\ white' = white /\ gray' = gray /\ grayagain' = grayagain
        /\ weak' = weak /\ unswept' = unswept /\ sweepgc' = sweepgc /\ full' = full
    BY DEF Made
  <1>3. stack' \in [Threads -> Seq(Obj)] /\ Deeper
    BY <1>1, <1>2, PushIs DEF Always, Deeper
  <1>4. TypeOK'
    BY <1>2, <1>3 DEF Always, TypeOK, Marks, Opt
  <1>5. \A x \in Obj : Alive(x) => Alive(x)'
    BY <1>1
  <1>6. \A x \in Obj : mark'[x] \in {"gray", "black"} => mark'[x] = mark[x]
    BY <1>1, <1>2
  <1>7. \A x \in Obj : mark[x] = "gray" => mark'[x] = "gray"
    <2>1. \A x \in Obj : mark[x] = "gray" => x \in Kept
      BY <1>1 DEF Kept, Alive, IsDead, OtherWhite
    <2> QED
      BY <1>1, <1>2, <2>1 DEF Made
  <1>8. UdataOK'
    <2>1. ASSUME NEW u \in Udata
          PROVE  mark'[u] # "gray" /\ {fld'[u]["mt"], fld'[u]["env"]} \subseteq Opt(Tables)
      <3>1. u \in Obj
        BY KindsAre
      <3> QED
        BY <1>2, <1>6, <3>1 DEF Always, UdataOK
    <2> QED
      BY <2>1 DEF UdataOK, Opt, Tables
  <1>9. OpenOK'
    <2>1. ASSUME NEW uv \in UpVals, IsOpen(uv)'
          PROVE  /\ Alive(uv)' /\ mark'[uv] # "black"
                 /\ open'[uv].th \in Threads /\ mark'[open'[uv].th] # "free"
                 /\ open'[uv].lvl \in 1..Len(stack'[open'[uv].th])
      <3>1. CASE uv \in U
        <4>1. cur \in Threads /\ Alive(cur) /\ cur \in Obj
          BY NamedKept DEF Kept
        <4>2. open'[uv].th = cur /\ open'[uv].lvl = l /\ l \in 1..Len(stack[cur])
          BY <1>2, <3>1
        <4>3. mark'[cur] # "free"
          BY <1>5, <4>1 DEF Alive
        <4>4. l \in 1..Len(stack'[cur])
          BY <1>3, <4>1, <4>2 DEF Deeper
        <4> QED
          BY <1>1, <3>1, <4>1, <4>2, <4>3, <4>4 DEF Alive
      <3>2. CASE uv \notin U
        <4>0. PICK t : t = open[uv].th
          OBVIOUS
        <4>1. IsOpen(uv) /\ open'[uv] = open[uv] /\ uv \in Obj
          BY <1>1, <2>1, <3>2, KindsAre
        <4>2. /\ Alive(uv) /\ mark[uv] # "black" /\ t \in Threads /\ Alive(t)
              /\ open[uv].lvl \in 1..Len(stack[t])
          BY <4>0, <4>1 DEF Always, OpenOK
        <4>3. Alive(uv)' /\ Alive(t)' /\ mark'[uv] # "black"
          BY <1>5, <1>6, <4>1, <4>2, KindsAre
        <4>4. open[uv].lvl \in 1..Len(stack'[t])
          BY <1>3, <4>2 DEF Deeper
        <4> QED
          BY <4>0, <4>1, <4>2, <4>3, <4>4 DEF Alive
      <3> QED
        BY <3>1, <3>2
    <2> QED
      BY <2>1 DEF OpenOK, Alive
  <1>10. ListsOK'
    <2>1. \A x \in Obj : mark'[x] = "gray" <=> mark[x] = "gray"
      BY <1>6, <1>7
    <2> QED
      BY <1>2, <2>1 DEF Always, ListsOK, Partition
  <1>11. \A x : InTmu(x)' = InTmu(x)
    BY <1>2 DEF InTmu
  <1>12. \A x \in Obj : Left(x) => Left(x)'
    BY <1>1, <1>2 DEF Left
  <1>13. RestOK'
    BY <1>2, <1>6, <1>11, <1>12 DEF Always, RestOK
  <1>14. UnsweptOK'
    <2>1. unswept \subseteq Obj
      BY DEF Always, TypeOK
    <2>2. \A x \in unswept : gcstate # "closed" => ~(x \in UpVals /\ IsOpen(x)')
      BY <1>1 DEF Always, UnsweptOK
    <2> QED
      BY <1>2, <1>5, <1>11, <2>1, <2>2 DEF Always, UnsweptOK
  <1>15. FinsOK'
    <2>1. ASSUME NEW u \in Udata
          PROVE  /\ InTmu(u)' => ~InList(u)' /\ Alive(u)' /\ u \in fin'
                 /\ InList(u)' => Alive(u)'
                 /\ calls'[u] \in {0, 1}
                 /\ calls'[u] = 1 => u \in fin' /\ ~InTmu(u)'
      <3>1. /\ InTmu(u) => ~InList(u) /\ Alive(u) /\ u \in fin
            /\ InList(u) => Alive(u)
            /\ calls[u] \in {0, 1}
            /\ calls[u] = 1 => u \in fin /\ ~InTmu(u)
        BY DEF Always, FinsOK
      <3>2. u \in Obj /\ (Alive(u) => Alive(u)')
        BY <1>5, KindsAre
      <3>3. InTmu(u) => u # o
        BY <1>2, <3>1
      <3>4. InList(u)' => Alive(u)'
        BY <1>1, <3>1, <3>2
      <3>5. InTmu(u)' => ~InList(u)' /\ Alive(u)' /\ u \in fin'
        BY <1>2, <1>11, <3>1, <3>2, <3>3
      <3> QED
        BY <1>2, <1>11, <3>1, <3>4, <3>5
    <2>2. Injective(tmudata)' /\ Injective(udlist)'
      <3>1. Injective(tmudata)'
        BY <1>2 DEF Always, FinsOK, Injective
      <3>2. Injective(udlist)'
        BY DEF Injective
      <3> QED
        BY <3>1, <3>2
    <2> QED
      BY <2>1, <2>2 DEF FinsOK
  <1> QED
    BY <1>4, <1>8, <1>9, <1>10, <1>13, <1>14, <1>15 DEF Always

\* Making an object keeps Open: it is white, and refers to what is kept.
LEMMA MadeOpen ==
    ASSUME Always, Open, NEW o, NEW U, NEW l, Made(o, U, l), FieldsOK(o)',
           \A s \in Slots : fld'[o][s] \in Opt(Kept \cup U)
    PROVE  Open'
  <1>1. /\ o \in Obj /\ o \notin U /\ U \subseteq Obj /\ o \notin Kept
        /\ white \in Whites /\ white \notin {"gray", "black", "free"} /\ white # OtherWhite
        /\ OtherWhite' = OtherWhite
        /\ \A x \in U \cup {o} : Alive(x)' /\ ~IsDead(x)'
        /\ \A x \in Obj \ (U \cup {o}) : Alive(x)' = Alive(x) /\ IsDead(x)' = IsDead(x)
        /\ \A x \in U : /\ IsOpen(x)' /\ (Alive(x) => IsOpen(x))
                        /\ mark'[x] = mark[x] \/ mark'[x] = white
                        /\ mark'[x] # "black"
        /\ \A x \in UpVals \ U : IsOpen(x)' = IsOpen(x)
        /\ \A x \in UpVals : IsOpen(x) => open'[x] = open[x]
        /\ Kept' = Kept \cup U \cup {o}
    BY MadeIs
  <1>2. /\ o \in Values /\ ~Alive(o) /\ ~Stopped /\ U \in SUBSET UpVals
        /\ mark'[o] = white
        /\ \A x \in U : mark'[x] = IF x \in Kept THEN mark[x] ELSE white
        /\ \A x \in Obj \ (U \cup {o}) : mark'[x] = mark[x]
        /\ \A x \in Obj \ {o} : fld'[x] = fld[x]
        /\ \A x \in UpVals \ U : open'[x] = open[x]
        /\ \A x \in U : open'[x] = [th |-> cur, lvl |-> l] /\ l \in 1..Len(stack[cur])
        /\ stack' = [stack EXCEPT ![cur] = Append(@, o)]
        /\ cur' = cur /\ basic' = basic /\ tmudata' = tmudata
        /\ gcstate' = gcstate /\ white' = white /\ weak' = weak /\ unswept' = unswept
    BY DEF Made
  <1>3. /\ cur \in Kept /\ cur \in Threads /\ Kept \subseteq Obj
        /\ StackValues(cur) \subseteq Kept \cap Values /\ Alive(cur) /\ cur # o
    BY <1>2, NamedKept DEF Kept
  <1>4. /\ \A th \in Threads :
             /\ 1..Len(stack[th]) \subseteq 1..Len(stack'[th])
             /\ \A i \in 1..Len(stack[th]) : stack'[th][i] = stack[th][i]
             /\ th # cur => stack'[th] = stack[th]
        /\ {stack'[cur][i] : i \in DOMAIN stack'[cur]} \subseteq StackValues(cur) \cup {o}
    BY <1>1, <1>2, PushIs DEF Always
  <1>5. /\ stack \in [Threads -> Seq(Obj)]
        /\ \A th \in Threads : stack[th] \in Seq(Values) /\ (~Alive(th) => stack[th] = <<>>)
    BY DEF Always, TypeOK, Open, RefsOK
  <1>6. RefsOK'
    <2>1. ASSUME NEW th \in Threads
          PROVE  mark'[th] # "black" /\ stack'[th] \in Seq(Values)
                 /\ (~Alive(th)' => stack'[th] = <<>>)
      <3>1. th \in Obj /\ th \notin U /\ mark[th] # "black"
        BY <1>2, KindsAre DEF Open, RefsOK
      <3>2. mark'[th] # "black" /\ (Alive(th) => Alive(th)')
        BY <1>1, <1>2, <3>1
      <3>3. stack'[th] \in Seq(Values)
        <4>1. CASE th = cur
          <5>1. stack'[cur] = Append(stack[cur], o) /\ stack[cur] \in Seq(Values)
            BY <1>2, <1>3, <1>5
          <5> QED
            BY <1>2, <4>1, <5>1
        <4>2. CASE th # cur
          BY <1>4, <1>5, <4>2
        <4> QED
          BY <4>1, <4>2
      <3> QED
        BY <1>3, <1>4, <1>5, <3>2, <3>3
    <2>2. ASSUME NEW x \in Obj
          PROVE  FieldsOK(x)'
      <3>1. CASE x = o
        BY <3>1
      <3>2. CASE x \in U
        <4>1. x \in UpVals /\ Kind[x] = "upval" /\ IsOpen(x)'
          BY <1>1, <1>2, <3>2, KindsAre
        <4> QED
          BY <4>1 DEF FieldsOK
      <3>3. CASE x # o /\ x \notin U
        <4>1. FieldsOK(x) /\ fld'[x] = fld[x] /\ Alive(x)' = Alive(x)
              /\ (x \in UpVals => IsOpen(x)' = IsOpen(x))
          BY <1>1, <1>2, <3>3 DEF Open, RefsOK
        <4> QED
          BY <4>1, KindsAre DEF FieldsOK
      <3> QED
        BY <3>1, <3>2, <3>3
    <2> QED
      BY <2>1, <2>2 DEF RefsOK
  <1>7. ShutOK'
    <2>1. ASSUME NEW uv \in UpVals, ~IsOpen(uv)'
          PROVE  mark'[uv] # "gray"
      <3>1. uv \notin U /\ ~IsOpen(uv) /\ uv \in Obj /\ uv # o
        BY <1>1, <1>2, <2>1, KindsAre
      <3> QED
        BY <1>2, <3>1 DEF Open, ShutOK
    <2> QED
      BY <2>1 DEF ShutOK
  <1>8. DeadOK'
    <2>1. \A x \in Obj : Left(x) => Left(x)'
      BY <1>1, <1>2 DEF Left
    <2>2. \A x \in Obj : IsDead(x)' => IsDead(x)
      BY <1>1
    <2> QED
      BY <2>1, <2>2 DEF Open, DeadOK
  <1>9. \A uv \in UpVals : IsOpen(uv) => UpValue(uv)' = UpValue(uv)
    <2>1. ASSUME NEW uv \in UpVals, IsOpen(uv)
          PROVE  UpValue(uv)' = UpValue(uv)
      <3>1. /\ open'[uv] = open[uv] /\ IsOpen(uv)'
            /\ open[uv].th \in Threads /\ open[uv].lvl \in 1..Len(stack[open[uv].th])
        BY <1>1, <2>1 DEF Always, OpenOK
      <3>2. UpValue(uv)' = stack'[open[uv].th][open[uv].lvl]
        BY <3>1 DEF UpValue
      <3>3. UpValue(uv) = stack[open[uv].th][open[uv].lvl]
        BY <2>1 DEF UpValue
      <3> QED
        BY <1>4, <3>1, <3>2, <3>3
    <2> QED
      BY <2>1
  <1>10. ASSUME NEW x \in Kept
         PROVE  /\ AllRefs(x)' \subseteq AllRefs(x) \cup {o}
                /\ x \notin Threads => AllRefs(x)' = AllRefs(x)
    <2>1. x \in Obj /\ x # o /\ Alive(x) /\ fld'[x] = fld[x]
      BY <1>1, <1>2, <1>3 DEF Kept
    <2>2. CASE x \in UpVals
      <3>1. UpValue(x)' = UpValue(x)
        <4>1. CASE IsOpen(x)
          BY <1>9, <2>2, <4>1
        <4>2. CASE ~IsOpen(x)
          <5>1. x \notin U /\ ~IsOpen(x)'
            BY <1>1, <2>1, <2>2, <4>2
          <5> QED
            BY <2>1, <4>2, <5>1 DEF UpValue
        <4> QED
          BY <4>1, <4>2
      <3> QED
        BY <2>2, <3>1 DEF AllRefs
    <2>3. CASE x \notin UpVals
      <3>1. x \in Threads => StackValues(x)' \subseteq StackValues(x) \cup {o}
        BY <1>4 DEF StackValues
      <3> QED
        BY <2>1, <2>3, <3>1 DEF AllRefs
    <2> QED
      BY <2>2, <2>3
  <1>11. KeptOK'
    <2>1. Roots' = Roots /\ Roots \subseteq Kept
      BY <1>2 DEF Roots, Open, KeptOK
    <2>2. ASSUME NEW x \in U
          PROVE  AllRefs(x)' \subseteq Kept'
      <3>1. /\ IsOpen(x)' /\ open'[x].th = cur /\ open'[x].lvl = l /\ l \in 1..Len(stack[cur])
            /\ x \in UpVals
        BY <1>1, <1>2
      <3>2. UpValue(x)' = stack[cur][l]
        BY <1>3, <1>4, <3>1 DEF UpValue
      <3>3. stack[cur][l] \in StackValues(cur)
        <4>1. DOMAIN stack[cur] = 1..Len(stack[cur])
          BY <1>3, <1>5
        <4> QED
          BY <3>1, <4>1 DEF StackValues
      <3> QED
        BY <1>1, <1>3, <3>1, <3>2, <3>3 DEF AllRefs
    <2>3. AllRefs(o)' \subseteq Kept'
      <3>1. {fld'[o][s] : s \in Slots} \ {Nil} \subseteq Kept'
        BY <1>1 DEF Opt
      <3>2. o \in Threads => StackValues(o)' = {}
        <4>1. o \in Threads => stack'[o] = <<>>
          BY <1>2, <1>3, <1>4, <1>5
        <4> QED
          BY <4>1 DEF StackValues
      <3>3. o \notin UpVals
        BY <1>2 DEF Values
      <3> QED
        BY <3>1, <3>2, <3>3 DEF AllRefs
    <2>4. \A x \in Kept : AllRefs(x)' \subseteq Kept'
      BY <1>1, <1>10 DEF Open, KeptOK
    <2> QED
      BY <1>1, <2>1, <2>2, <2>3, <2>4 DEF KeptOK
  <1>12. MarksOK'
    <2>1. \A x \in Kept : mark'[x] = mark[x]
      BY <1>1, <1>2, <1>3
    <2>2. \A x \in Obj \ Kept : mark'[x] # "black"
      <3>1. \A x \in Obj \ Kept : mark[x] # "black"
        BY BlackKept
      <3> QED
        BY <1>1, <1>2, <3>1
    <2>3. \A x \in Kept \ Threads : AllRefs(x)' = AllRefs(x) \/ (x \in UpVals /\ IsOpen(x))
      BY <1>10
    <2> QED
      BY <1>2, <2>1, <2>2, <2>3, NewMarks
  <1> QED
    BY <1>6, <1>7, <1>8, <1>11, <1>12 DEF Open

\* A new table, userdata, C closure, thread or prototype keeps the invariant.
LEMMA NewAlwaysOpen ==
    ASSUME Always, Open, NEW o, NEW v, New(o, v)
    PROVE  Always' /\ Open'
  <1> DEFINE e == IF Kind[o] \in {"table", "proto"} THEN Nil ELSE fld[cur]["env"]
             f == [NoRefs EXCEPT !["val"] = v, !["env"] = e]
  <1>1. /\ ~Stopped /\ o \in world /\ ~Alive(o)
        /\ Kind[o] \in {"table", "udata", "cclosure", "thread", "proto"}
        /\ v \in IF Kind[o] \in {"cclosure", "proto"} THEN Opt(StackValues(cur)) ELSE {Nil}
        /\ mark' = [mark EXCEPT ![o] = white] /\ fld' = [fld EXCEPT ![o] = f]
        /\ udlist' = IF o \in Udata THEN <<o>> \o udlist ELSE udlist
        /\ stack' = [stack EXCEPT ![cur] = Append(@, o)]
        /\ UNCHANGED <<world, fin, open, cur, basic, tmudata, closing, calls>>
        /\ UNCHANGED <<gcstate, white, gray, grayagain, weak, unswept, sweepgc, full>>
    BY DEF New, CanPush, Fresh, Push, gcvars, Opt
  <1>2. o \in Obj /\ o \in Values /\ o \notin UpVals
    BY <1>1, WorldIs, KindsAre DEF Always
  <1>3. /\ cur \in Kept /\ Kept \subseteq Obj /\ StackValues(cur) \subseteq Kept \cap Values
        /\ fld[cur]["env"] \in Kept \cap Tables
    BY NamedKept
  <1>4. /\ v \in Opt(Kept \cap Values) /\ (Kind[o] \notin {"cclosure", "proto"} => v = Nil)
        /\ e \in Opt(Kept \cap Tables)
        /\ Kind[o] \in {"table", "proto"} => e = Nil
        /\ Kind[o] \notin {"table", "proto"} => e \in Tables
    BY <1>1, <1>3 DEF Opt
  <1>5. /\ f \in [Slots -> Opt(Obj)] /\ f["mt"] = Nil /\ f["key"] = Nil /\ f["val"] = v
        /\ f["env"] = e /\ \A s \in Slots : f[s] \in {Nil, v, e}
    BY <1>3, <1>4 DEF NoRefs, Opt, Slots
  <1> HIDE DEF f, e
  <1>6. /\ fld' \in [Obj -> [Slots -> Opt(Obj)]] /\ fld'[o] = f
        /\ \A x \in Obj \ {o} : fld'[x] = fld[x]
    BY <1>1, <1>2, <1>5 DEF Always, TypeOK, Opt
  <1>7. Made(o, {}, 0)
    <2>1. /\ mark' \in [Obj -> Marks] /\ mark'[o] = white
          /\ \A x \in Obj \ {o} : mark'[x] = mark[x]
      BY <1>1, <1>2 DEF Always, TypeOK, Marks
    <2>2. open' \in [UpVals -> [th : Threads \cup {Nil}, lvl : Nat]]
      BY <1>1 DEF Always, TypeOK
    <2>3. \A x \in UpVals : open'[x] = open[x]
      BY <1>1
    <2> QED
      BY <1>1, <1>2, <1>6, <2>1, <2>2, <2>3 DEF Made
  <1>8. FieldsOK(o)'
    <2>1. /\ fld'[o]["mt"] = Nil /\ fld'[o]["key"] = Nil /\ fld'[o]["val"] = v
          /\ fld'[o]["env"] = e
      BY <1>5, <1>6
    <2>2. v \in Opt(Values)
      BY <1>4 DEF Opt
    <2> QED
      BY <1>1, <1>4, <2>1, <2>2 DEF FieldsOK, Opt
  <1>9. \A s \in Slots : fld'[o][s] \in Opt(Kept \cup {})
    BY <1>4, <1>5, <1>6 DEF Opt
  <1>10. o \in Udata => {fld'[o]["mt"], fld'[o]["env"]} \subseteq Opt(Tables)
    BY <1>4, <1>5, <1>6 DEF Opt
  <1>11. /\ udlist' \in Seq(Udata) /\ Injective(udlist')
         /\ \A u \in Udata : InList(u)' => InList(u) \/ u = o
    <2>1. udlist \in Seq(Udata) /\ Injective(udlist)
      BY DEF Always, TypeOK, FinsOK
    <2>2. CASE o \in Udata
      <3>1. ~InSeq(o, udlist)
        BY <1>1, <2>2 DEF Always, FinsOK, InList, InSeq
      <3>2. /\ <<o>> \o udlist \in Seq(Udata) /\ Injective(<<o>> \o udlist)
            /\ \A y : InSeq(y, <<o>> \o udlist) <=> y = o \/ InSeq(y, udlist)
        BY <2>1, <2>2, <3>1, FrontIs
      <3>3. \A x : InList(x) <=> InSeq(x, udlist)
        BY DEF InList, InSeq
      <3>4. \A x : InList(x)' <=> InSeq(x, udlist')
        BY DEF InList, InSeq
      <3> QED
        BY <1>1, <2>2, <3>2, <3>3, <3>4
    <2>3. CASE o \notin Udata
      BY <1>1, <2>1, <2>3 DEF InList
    <2> QED
      BY <2>2, <2>3
  <1>12. Always'
    BY <1>6, <1>7, <1>10, <1>11, MadeAlways
  <1>13. Open'
    BY <1>7, <1>8, <1>9, MadeOpen
  <1> QED
    BY <1>12, <1>13

\* OP_CLOSURE keeps the invariant: luaF_findupval makes an upvalue, or finds one and
\* changes it to the current white.
LEMMA NewLClosureAlwaysOpen ==
    ASSUME Always, Open, NEW o, NEW p, NEW uv \in UpVals, NEW lvl, NewLClosure(o, p, uv, lvl)
    PROVE  Always' /\ Open'
  <1> DEFINE e == fld[cur]["env"]
             f == [NoRefs EXCEPT !["env"] = e, !["key"] = p, !["val"] = uv]
             U == IF lvl # 0 THEN {uv} ELSE {}
  <1>1. /\ ~Stopped /\ o \in world /\ ~Alive(o) /\ Kind[o] = "lclosure" /\ p # Nil
        /\ \E g \in Named : p = IF Kind[g] = "proto" THEN g
                                ELSE IF Kind[g] = "lclosure" THEN fld[g]["key"] ELSE Nil
        /\ mark' = [x \in Obj |-> IF x = o \/ (x = uv /\ lvl # 0 /\ (~Alive(x) \/ IsDead(x)))
                                  THEN white ELSE mark[x]]
        /\ open' = IF lvl # 0 THEN [open EXCEPT ![uv] = [th |-> cur, lvl |-> lvl]] ELSE open
        /\ fld' = [fld EXCEPT ![o] = f]
        /\ stack' = [stack EXCEPT ![cur] = Append(@, o)]
        /\ UNCHANGED <<world, fin, cur, basic, tmudata, udlist, closing, calls>>
        /\ UNCHANGED <<gcstate, white, gray, grayagain, weak, unswept, sweepgc, full>>
    BY DEF NewLClosure, CanPush, Fresh, Push, gcvars
  <1>2. /\ lvl # 0 => /\ lvl \in DOMAIN stack[cur]
                      /\ Alive(uv) => open[uv] = [th |-> cur, lvl |-> lvl]
        /\ lvl = 0 => \E g \in StackValues(cur) \cap OfKind("lclosure") : fld[g]["val"] = uv
    <2>1. DOMAIN stack[cur] = 1..Len(stack[cur]) /\ Len(stack[cur]) \in Nat
      BY FieldsAre DEF Always, TypeOK
    <2>2. FindUpval(uv, lvl) => /\ lvl \in DOMAIN stack[cur]
                                /\ Alive(uv) => open[uv] = [th |-> cur, lvl |-> lvl]
      BY DEF FindUpval, Fresh
    <2>3. lvl \in DOMAIN stack[cur] => lvl # 0
      BY <2>1
    <2>4. \/ FindUpval(uv, lvl)
          \/ /\ lvl = 0
             /\ \E g \in StackValues(cur) \cap OfKind("lclosure") : fld[g]["val"] = uv
      BY DEF NewLClosure
    <2>5. CASE FindUpval(uv, lvl)
      BY <2>2, <2>3, <2>5
    <2>6. CASE ~FindUpval(uv, lvl)
      BY <2>4, <2>6
    <2> QED
      BY <2>5, <2>6
  <1>3. o \in Obj /\ o \in Values /\ o \notin UpVals /\ o \notin Udata /\ uv \in Obj /\ o # uv
    BY <1>1, WorldIs, KindsAre DEF Always
  <1>4. /\ cur \in Kept /\ cur \in Threads /\ Kept \subseteq Obj /\ Named \subseteq Kept
        /\ StackValues(cur) \subseteq Kept \cap Values /\ e \in Kept \cap Tables
    BY NamedKept
  <1>5. ASSUME NEW g \in Kept, Kind[g] = "lclosure"
        PROVE  /\ fld[g]["key"] \in OfKind("proto") /\ fld[g]["key"] \in Kept
               /\ fld[g]["val"] \in Opt(Kept)
    <2>1. g \in Obj /\ Alive(g) /\ g \notin UpVals /\ AllRefs(g) \subseteq Kept
      BY <1>5, KindsAre DEF Kept, Open, KeptOK
    <2>2. "key" \in Slots /\ "val" \in Slots
      BY DEF Slots
    <2>3. fld[g]["key"] \in OfKind("proto") /\ fld[g]["key"] # Nil
      BY <1>5, <2>1, KindsAre DEF Open, RefsOK, FieldsOK, OfKind
    <2> QED
      BY <2>1, <2>2, <2>3 DEF AllRefs, Opt
  <1>6. p \in OfKind("proto") /\ p \in Kept
    BY <1>1, <1>4, <1>5, KindsAre DEF OfKind
  <1>7. lvl = 0 => uv \in Kept
    <2>1. ASSUME lvl = 0
          PROVE  uv \in Kept
      <3>1. PICK g \in StackValues(cur) \cap OfKind("lclosure") : fld[g]["val"] = uv
        BY <1>2, <2>1
      <3>2. g \in Kept /\ Kind[g] = "lclosure"
        BY <1>4, <3>1 DEF OfKind
      <3> QED
        BY <1>3, <1>5, <3>1, <3>2, KindsAre DEF Opt
    <2> QED
      BY <2>1
  <1>8. /\ f \in [Slots -> Opt(Obj)] /\ f["val"] = uv /\ f["key"] = p /\ f["env"] = e
        /\ f["mt"] = Nil /\ \A s \in Slots : f[s] \in {Nil, uv, p, e}
    <2>1. e \in Obj /\ p \in Obj
      BY <1>4, <1>6
    <2> HIDE DEF e
    <2> QED
      BY <1>3, <2>1 DEF NoRefs, Opt, Slots
  <1> HIDE DEF f, e
  <1>9. /\ fld' \in [Obj -> [Slots -> Opt(Obj)]] /\ fld'[o] = f
        /\ \A x \in Obj \ {o} : fld'[x] = fld[x]
    BY <1>1, <1>3, <1>8 DEF Always, TypeOK, Opt
  <1>10. U \in SUBSET UpVals /\ o \notin U /\ (\A x \in U : x = uv /\ lvl # 0) /\ uv \in Kept \cup U
    BY <1>3, <1>7
  <1>11. /\ open' \in [UpVals -> [th : Threads \cup {Nil}, lvl : Nat]]
         /\ \A x \in UpVals \ U : open'[x] = open[x]
         /\ lvl # 0 => open'[uv] = [th |-> cur, lvl |-> lvl] /\ lvl \in 1..Len(stack[cur])
    <2>1. open \in [UpVals -> [th : Threads \cup {Nil}, lvl : Nat]]
      BY DEF Always, TypeOK
    <2>2. CASE lvl = 0
      BY <1>1, <2>1, <2>2
    <2>3. CASE lvl # 0
      <3>1. lvl \in 1..Len(stack[cur]) /\ Len(stack[cur]) \in Nat
        BY <1>2, <1>4, <2>3, FieldsAre DEF Always
      <3>2. lvl \in Nat
        BY <3>1
      <3>3. [th |-> cur, lvl |-> lvl] \in [th : Threads \cup {Nil}, lvl : Nat]
        BY <1>4, <3>2
      <3> QED
        BY <1>1, <2>1, <2>3, <3>1, <3>3
    <2> QED
      BY <2>2, <2>3
  <1>12. /\ mark' \in [Obj -> Marks] /\ mark'[o] = white
         /\ \A x \in U : mark'[x] = IF x \in Kept THEN mark[x] ELSE white
         /\ \A x \in Obj \ (U \cup {o}) : mark'[x] = mark[x]
    <2>1. mark \in [Obj -> Marks] /\ white \in Marks
      BY DEF Always, TypeOK, Marks
    <2>2. \A x \in Obj : x \in Kept <=> ~(~Alive(x) \/ IsDead(x))
      BY DEF Kept
    <2> QED
      BY <1>1, <1>3, <2>1, <2>2
  <1> HIDE DEF U
  <1>13. Made(o, U, lvl)
    <2>1. \A x \in U : /\ open'[x] = [th |-> cur, lvl |-> lvl] /\ lvl \in 1..Len(stack[cur])
                       /\ Alive(x) => open'[x] = open[x]
      BY <1>2, <1>10, <1>11
    <2> QED
      BY <1>1, <1>3, <1>9, <1>10, <1>11, <1>12, <2>1 DEF Made
  <1>14. FieldsOK(o)'
    <2>1. /\ fld'[o]["key"] = p /\ fld'[o]["val"] = uv /\ fld'[o]["env"] = e
      BY <1>8, <1>9
    <2>2. e \in Tables
      BY <1>4 DEF e
    <2> QED
      BY <1>1, <1>6, <2>1, <2>2 DEF FieldsOK
  <1>15. \A s \in Slots : fld'[o][s] \in Opt(Kept \cup U)
    <2>1. e \in Kept
      BY <1>4 DEF e
    <2> QED
      BY <1>6, <1>8, <1>9, <1>10, <2>1 DEF Opt
  <1>16. /\ udlist' \in Seq(Udata) /\ Injective(udlist')
         /\ \A u \in Udata : InList(u)' => InList(u) \/ u = o
    BY <1>1 DEF Always, TypeOK, FinsOK, InList
  <1>17. Always'
    BY <1>3, <1>9, <1>13, <1>16, MadeAlways
  <1>18. Open'
    BY <1>13, <1>14, <1>15, MadeOpen
  <1> QED
    BY <1>17, <1>18

-----------------------------------------------------------------------------
(* The end of a block. *)

\* The marks m of a marking, changed for the upvalues S that are closed.
Shuts(S, m, G) ==
  /\ Grown(m, G) /\ Sound(m)
  /\ \A x \in Obj \ S : mark'[x] = m[x]
  /\ \A x \in S : /\ m[x] = mark[x]
                  /\ mark'[x] = IF IsDead(x) THEN "free"
                                ELSE IF mark[x] # "gray" THEN mark[x]
                                ELSE IF gcstate = "propagate" THEN "black" ELSE white
                  /\ gcstate = "propagate" /\ mark[x] = "gray" /\ UpValue(x) # Nil =>
                       m[UpValue(x)] \notin Whites
  /\ \A uv \in UpVals : m[uv] = mark[uv]
  /\ gcstate # "propagate" => m = mark

\* While objects are marked luaF_close turns a gray upvalue it closes black, and marks
\* its value.
LEMMA CloseShuts ==
    ASSUME Always, Open, NEW th \in Threads, NEW lvl, CloseUpvals(th, lvl), ~Stopped,
           NEW S, S = Above(th, lvl)
    PROVE  \E m, G : Shuts(S, m, G)
  <1> DEFINE dead == {uv \in S : IsDead(uv)}
             blackened == {uv \in S : mark[uv] = "gray" /\ gcstate = "propagate"}
             whitened == {uv \in S : mark[uv] = "gray" /\ gcstate # "propagate"}
             values == {UpValue(uv) : uv \in blackened}
             m == Marked(values)
             G == Grayed(values)
  <1>1. mark' = [o \in Obj |-> IF o \in dead THEN "free"
                               ELSE IF o \in blackened THEN "black"
                               ELSE IF o \in whitened THEN white ELSE m[o]]
    BY DEF CloseUpvals, Above
  <1>2. S \subseteq UpVals /\ (\A uv \in S : IsOpen(uv)) /\ S \subseteq Obj
    BY KindsAre DEF Above, OpenOf, IsOpen, NotOpen
  <1>3. TypeOK /\ OpenOK /\ UdataOK /\ UpValuesOK
    BY UpValuesRefs DEF Always, Open
  <1>4. values \in SUBSET Opt(Values)
    BY <1>2, <1>3 DEF Always, OpenOK, UpValuesOK
  <1>5. values \in SUBSET Opt(Obj)
    BY <1>4 DEF Opt, Values
  <1>6. \A x \in S : /\ x \in dead <=> IsDead(x)
                     /\ x \in blackened <=> mark[x] = "gray" /\ gcstate = "propagate"
                     /\ x \in whitened <=> mark[x] = "gray" /\ gcstate # "propagate"
    OBVIOUS
  <1>7. dead \cup blackened \cup whitened \subseteq S
    OBVIOUS
  <1>8. gcstate # "propagate" => values = {}
    OBVIOUS
  <1>9. \A x \in blackened : UpValue(x) \in values
    OBVIOUS
  <1> HIDE DEF values, dead, blackened, whitened
  <1>10. Grown(m, G) /\ (\A x \in values \ {Nil} : m[x] \notin Whites) /\ Sound(m)
    BY <1>3, <1>5, MarkedIs, MarkedSound
  <1>11. \A uv \in UpVals : m[uv] = mark[uv]
    <2>1. values \cap UpVals = {}
      BY <1>4, KindsAre DEF Opt, Values
    <2>2. UdataRefs(values \cup {}) \subseteq Opt(Tables)
      BY <1>3 DEF UdataRefs, UdataOK
    <2>3. Reached(values) = WhiteOf(values) \cup WhiteOf(UdataRefs(WhiteOf(values)))
      <3>1. WhiteOf(values) \cap UpVals = {}
        BY <2>1 DEF WhiteOf
      <3>2. {UpValue(uv) : uv \in WhiteOf(values) \cap UpVals} = {} /\ WhiteOf({}) = {}
        BY <3>1 DEF WhiteOf
      <3> QED
        BY <3>2 DEF Reached
    <2>4. UdataRefs(WhiteOf(values)) \subseteq Opt(Tables)
      BY <1>3 DEF UdataRefs, UdataOK
    <2>5. Reached(values) \cap UpVals = {}
      BY <2>1, <2>3, <2>4, KindsAre DEF WhiteOf, Opt
    <2> QED
      BY <2>5, KindsAre DEF Marked
  <1>12. gcstate # "propagate" => m = mark
    <2>1. Reached({}) = {}
      BY DEF Reached, WhiteOf, UdataRefs
    <2>2. Marked({}) = mark
      BY <1>3, <2>1 DEF Marked, TypeOK
    <2> QED
      BY <1>8, <2>2
  <1> HIDE DEF m, G
  <1>13. \A x \in Obj \ S : mark'[x] = m[x]
    BY <1>1, <1>7
  <1>14. ASSUME NEW x \in S
         PROVE  /\ m[x] = mark[x]
                /\ mark'[x] = IF IsDead(x) THEN "free"
                              ELSE IF mark[x] # "gray" THEN mark[x]
                              ELSE IF gcstate = "propagate" THEN "black" ELSE white
                /\ gcstate = "propagate" /\ mark[x] = "gray" /\ UpValue(x) # Nil =>
                     m[UpValue(x)] \notin Whites
    <2>1. x \in Obj /\ m[x] = mark[x]
      BY <1>2, <1>11
    <2>2. mark'[x] = IF IsDead(x) THEN "free"
                     ELSE IF mark[x] # "gray" THEN mark[x]
                     ELSE IF gcstate = "propagate" THEN "black" ELSE white
      BY <1>1, <1>6, <2>1
    <2>3. gcstate = "propagate" /\ mark[x] = "gray" /\ UpValue(x) # Nil =>
            m[UpValue(x)] \notin Whites
      BY <1>6, <1>9, <1>10
    <2> QED
      BY <2>1, <2>2, <2>3
  <1>15. Shuts(S, m, G)
    BY <1>10, <1>11, <1>12, <1>13, <1>14 DEF Shuts
  <1> QED
    BY <1>15

\* The end of a block keeps Open: what an upvalue takes over from a slot is marked if the
\* upvalue is black.
LEMMA PopOpen ==
    ASSUME Always, Open, Pop
    PROVE  Open'
  <1>0. PICK n, c : n = Len(stack[cur]) /\ c = cur
    OBVIOUS
  <1>1. /\ Cut(c, n) /\ n \in Nat \ {0}
        /\ stack' = [stack EXCEPT ![c] = SubSeq(@, 1, Len(@) - 1)]
    BY <1>0, PopCuts DEF Always
  <1>2. /\ world' = world /\ cur' = cur /\ basic' = basic /\ gcstate' = gcstate /\ white' = white
        /\ weak' = weak /\ unswept' = unswept /\ tmudata' = tmudata
        /\ CloseUpvals(c, n) /\ ~Stopped
    BY <1>1 DEF Cut, Pop
  <1>3. c \in Threads /\ c \in Kept /\ Kept \subseteq Obj /\ Alive(c)
    BY <1>0, NamedKept DEF Kept
  <1>4. PICK S : S = Above(c, n)
    OBVIOUS
  <1>5. Closes(S)
    BY <1>2, <1>3, <1>4, CloseIs
  <1>6. PICK m, G : Shuts(S, m, G)
    BY <1>2, <1>3, <1>4, CloseShuts
  <1>7. /\ S \subseteq UpVals /\ \A uv \in S : IsOpen(uv)
        /\ \A x \in Obj \ S : Alive(x)' = Alive(x)
        /\ fld' \in [Obj -> [Slots -> Opt(Obj)]]
        /\ \A x \in Obj : fld'[x] = IF x \in S /\ ~IsDead(x)
                                    THEN [NoRefs EXCEPT !["val"] = UpValue(x)] ELSE fld[x]
        /\ open' = [uv \in UpVals |-> IF uv \in S THEN NotOpen ELSE open[uv]]
    BY <1>5 DEF Closes
  <1>8. /\ Grown(m, G) /\ Sound(m)
        /\ \A x \in Obj \ S : mark'[x] = m[x]
        /\ \A x \in S : /\ m[x] = mark[x]
                        /\ mark'[x] = IF IsDead(x) THEN "free"
                                      ELSE IF mark[x] # "gray" THEN mark[x]
                                      ELSE IF gcstate = "propagate" THEN "black" ELSE white
                        /\ gcstate = "propagate" /\ mark[x] = "gray" /\ UpValue(x) # Nil =>
                             m[UpValue(x)] \notin Whites
        /\ \A uv \in UpVals : m[uv] = mark[uv]
        /\ gcstate # "propagate" => m = mark
    BY <1>6 DEF Shuts
  <1>9. /\ white \in Whites /\ white \notin {"gray", "black", "free"} /\ white # OtherWhite
        /\ OtherWhite' = OtherWhite /\ OtherWhite \in Whites
        /\ OtherWhite \notin {"gray", "black", "free"}
    BY <1>2 DEF Always, TypeOK, Whites, OtherWhite
  <1>10. /\ \A uv \in UpVals : IsOpen(uv)' <=> IsOpen(uv) /\ uv \notin S
         /\ \A uv \in UpVals : IsOpen(uv)' => open'[uv] = open[uv]
    BY <1>7 DEF IsOpen
  <1>11. \A uv \in S : Alive(uv) /\ mark[uv] # "black" /\ uv \in Obj
    BY <1>7, KindsAre DEF Always, OpenOK
  <1>12. \A x \in Obj : /\ m[x] = mark[x] \/ (IsWhite(x) /\ m[x] = Colour(x))
                        /\ Colour(x) \in {"gray", "black"}
                        /\ x \in Threads => Colour(x) = "gray"
    BY <1>8, KindsAre DEF Grown, Colour
  <1>13. gcstate = "propagate" => \A x \in Obj : ~IsDead(x)
    <2>1. ASSUME gcstate = "propagate"
          PROVE  Before
      BY <2>1 DEF Before, SweepStates
    <2> QED
      BY <2>1, NoneDead DEF Open
  <1>14. \A x \in Obj \ S : IsDead(x)' = IsDead(x)
    <2>1. ASSUME NEW x \in Obj \ S
          PROVE  IsDead(x)' <=> IsDead(x)
      <3>1. CASE gcstate = "propagate"
        <4>1. ~IsDead(x) /\ mark[x] # OtherWhite
          BY <1>13, <3>1 DEF IsDead
        <4>2. mark'[x] # OtherWhite
          BY <1>8, <1>9, <1>12, <4>1
        <4> QED
          BY <1>9, <4>1, <4>2 DEF IsDead
      <3>2. CASE gcstate # "propagate"
        BY <1>8, <1>9, <3>2 DEF IsDead
      <3> QED
        BY <3>1, <3>2
    <2> QED
      BY <2>1 DEF IsDead
  <1>15. \A x \in S : ~IsDead(x)' /\ (Alive(x)' <=> ~IsDead(x))
    <2>1. ASSUME NEW x \in S
          PROVE  mark'[x] # OtherWhite /\ (mark'[x] # "free" <=> mark[x] # OtherWhite)
      BY <1>8, <1>9, <1>11 DEF IsDead, Alive
    <2> QED
      BY <1>9, <2>1 DEF IsDead, Alive
  <1>16. Kept' = Kept
    <2>1. \A x \in Obj : x \in Kept' <=> x \in Kept
      BY <1>7, <1>11, <1>14, <1>15 DEF Kept
    <2> QED
      BY <2>1 DEF Kept
  <1>17. stack \in [Threads -> Seq(Obj)]
         /\ \A th \in Threads : stack[th] \in Seq(Values) /\ (~Alive(th) => stack[th] = <<>>)
    BY DEF Always, TypeOK, Open, RefsOK
  <1>18. /\ \A th \in Threads : th # c => stack'[th] = stack[th]
         /\ stack'[c] \in Seq(Values) /\ DOMAIN stack'[c] = 1..(n - 1)
         /\ DOMAIN stack[c] = 1..n
         /\ \A i \in 1..(n - 1) : stack'[c][i] = stack[c][i] /\ i \in 1..n
    <2> DEFINE s == SubSeq(stack[c], 1, n - 1)
    <2>1. stack[c] \in Seq(Values) /\ Len(stack[c]) = n
      BY <1>0, <1>3, <1>17
    <2>2. /\ s \in Seq(Values) /\ Len(s) = n - 1 /\ DOMAIN stack[c] = 1..n
          /\ \A i \in 1..(n - 1) : s[i] = stack[c][i] /\ i \in 1..n
      BY <1>1, <2>1
    <2>3. stack' = [stack EXCEPT ![c] = s]
      BY <1>1, <2>1
    <2> HIDE DEF s
    <2>4. stack'[c] = s /\ \A th \in Threads : th # c => stack'[th] = stack[th]
      BY <1>3, <1>17, <2>3
    <2>5. DOMAIN s = 1..(n - 1)
      BY <1>1, <2>2
    <2> QED
      BY <2>2, <2>4, <2>5
  <1>19. \A th \in Threads : StackValues(th)' \subseteq StackValues(th)
    BY <1>18 DEF StackValues
  <1>20. ASSUME NEW uv \in UpVals
         PROVE  ~(uv \in S /\ IsDead(uv)) => UpValue(uv)' = UpValue(uv)
    <2>1. CASE uv \in S
      <3>1. ~IsDead(uv) => fld'[uv] = [NoRefs EXCEPT !["val"] = UpValue(uv)] /\ ~IsOpen(uv)'
        BY <1>7, <1>10, <2>1, KindsAre
      <3>2. [NoRefs EXCEPT !["val"] = UpValue(uv)]["val"] = UpValue(uv)
        BY DEF NoRefs, Slots
      <3>3. ~IsOpen(uv)' => UpValue(uv)' = fld'[uv]["val"]
        BY DEF UpValue
      <3>4. ASSUME ~IsDead(uv)
            PROVE  UpValue(uv)' = UpValue(uv)
        <4>1. UpValue(uv)' = fld'[uv]["val"]
          BY <3>1, <3>3, <3>4
        <4>2. fld'[uv]["val"] = [NoRefs EXCEPT !["val"] = UpValue(uv)]["val"]
          BY <3>1, <3>4
        <4> QED
          BY <3>2, <4>1, <4>2
      <3> QED
        BY <2>1, <3>4
    <2>2. CASE uv \notin S /\ IsOpen(uv)
      <3>1. /\ open[uv].th \in Threads /\ open[uv].lvl \in 1..Len(stack[open[uv].th])
            /\ open'[uv] = open[uv] /\ IsOpen(uv)'
        BY <1>10, <2>2 DEF Always, OpenOK
      <3>2. open[uv].th = c => open[uv].lvl \in 1..(n - 1)
        <4>1. ~(open[uv].th = c /\ open[uv].lvl >= n)
          BY <1>4, <2>2 DEF Above, OpenOf
        <4>2. open[uv].th = c => open[uv].lvl \in 1..n
          BY <1>0, <3>1
        <4> QED
          BY <1>1, <4>1, <4>2
      <3>3. UpValue(uv)' = stack'[open[uv].th][open[uv].lvl]
        BY <3>1 DEF UpValue
      <3>4. UpValue(uv) = stack[open[uv].th][open[uv].lvl]
        BY <2>2 DEF UpValue
      <3> QED
        BY <1>18, <3>1, <3>2, <3>3, <3>4
    <2>3. CASE uv \notin S /\ ~IsOpen(uv)
      <3>1. ~IsOpen(uv)' /\ fld'[uv] = fld[uv]
        BY <1>7, <1>10, <2>3, KindsAre
      <3> QED
        BY <2>3, <3>1 DEF UpValue
    <2> QED
      BY <2>1, <2>2, <2>3
  <1>21. ASSUME NEW x \in Obj, ~(x \in S /\ IsDead(x))
         PROVE  AllRefs(x)' \subseteq AllRefs(x)
    <2>1. CASE x \in UpVals
      <3>1. UpValue(x)' = UpValue(x)
        BY <1>20, <1>21, <2>1
      <3> QED
        BY <2>1, <3>1 DEF AllRefs
    <2>2. CASE x \notin UpVals
      <3>1. fld'[x] = fld[x] /\ (x \in Threads => StackValues(x)' \subseteq StackValues(x))
        BY <1>7, <1>19, <2>2
      <3> QED
        BY <2>2, <3>1 DEF AllRefs
    <2> QED
      BY <2>1, <2>2
  <1>22. RefsOK'
    <2>1. ASSUME NEW th \in Threads
          PROVE  mark'[th] # "black" /\ stack'[th] \in Seq(Values)
                 /\ (~Alive(th)' => stack'[th] = <<>>)
      <3>1. th \in Obj \ S /\ mark[th] # "black"
        BY <1>7, KindsAre DEF Open, RefsOK
      <3>2. mark'[th] # "black" /\ Alive(th)' = Alive(th)
        BY <1>7, <1>8, <1>12, <3>1
      <3> QED
        BY <1>3, <1>17, <1>18, <3>2
    <2>2. ASSUME NEW x \in Obj
          PROVE  FieldsOK(x)'
      <3>1. CASE x \in S
        <4>1. x \in UpVals /\ Kind[x] = "upval"
          BY <1>7, <3>1, KindsAre
        <4>2. ~IsDead(x) => fld'[x]["val"] \in Opt(Values)
          <5>1. UpValue(x) \in Opt(Values)
            BY <1>11, <3>1, <4>1, UpValuesRefs DEF UpValuesOK, Open
          <5>2. ~IsDead(x) => fld'[x] = [NoRefs EXCEPT !["val"] = UpValue(x)]
            BY <1>7, <3>1
          <5>3. [NoRefs EXCEPT !["val"] = UpValue(x)]["val"] = UpValue(x)
            BY DEF NoRefs, Slots
          <5> QED
            BY <5>1, <5>2, <5>3
        <4>3. Alive(x)' => ~IsDead(x)
          BY <1>15, <3>1
        <4> QED
          BY <4>1, <4>2, <4>3 DEF FieldsOK, Opt, Values
      <3>2. CASE x \notin S
        <4>1. /\ FieldsOK(x) /\ fld'[x] = fld[x] /\ Alive(x)' = Alive(x)
              /\ (x \in UpVals => (IsOpen(x)' <=> IsOpen(x)))
          BY <1>7, <1>10, <3>2 DEF Open, RefsOK
        <4> QED
          BY <4>1, KindsAre DEF FieldsOK
      <3> QED
        BY <3>1, <3>2
    <2> QED
      BY <2>1, <2>2 DEF RefsOK
  <1>23. ShutOK'
    <2>1. ASSUME NEW uv \in UpVals, ~IsOpen(uv)'
          PROVE  mark'[uv] # "gray"
      <3>1. CASE uv \in S
        BY <1>8, <1>9, <3>1
      <3>2. CASE uv \notin S
        BY <1>8, <1>10, <2>1, <3>2, KindsAre DEF Open, ShutOK
      <3> QED
        BY <3>1, <3>2
    <2> QED
      BY <2>1 DEF ShutOK
  <1>24. DeadOK'
    <2>1. ASSUME NEW x \in Obj, IsDead(x)'
          PROVE  Left(x)'
      <3>1. x \notin S /\ IsDead(x)
        BY <1>14, <1>15, <2>1
      <3>2. Left(x)
        BY <3>1 DEF Open, DeadOK
      <3> QED
        BY <1>2, <1>10, <3>1, <3>2 DEF Left
    <2> QED
      BY <2>1 DEF DeadOK
  <1>25. KeptOK'
    <2>1. Roots' = Roots
      BY <1>2 DEF Roots
    <2>2. \A x \in Kept : x \in Obj /\ ~IsDead(x)
      BY DEF Kept
    <2> QED
      BY <1>16, <1>21, <2>1, <2>2 DEF Open, KeptOK
  <1>26. MarksOK'
    <2> SUFFICES ASSUME gcstate = "propagate", BlackOK, RootsOK
                 PROVE  BlackOK' /\ RootsOK'
      BY <1>2, ProgramMarks DEF Open
    <2>1. \A x \in Obj : m[x] \notin Whites => mark'[x] \notin Whites
      <3>1. ASSUME NEW x \in S, m[x] \notin Whites
            PROVE  mark'[x] \notin Whites
        <4>1. mark[x] \notin Whites /\ ~IsDead(x)
          BY <1>8, <1>11, <1>13, <3>1
        <4> QED
          BY <1>8, <3>1, <4>1 DEF Whites
      <3> QED
        BY <1>8, <3>1
    <2>2. \A x \in Obj : mark[x] \notin Whites => m[x] \notin Whites
      BY <1>12 DEF Whites
    <2>3. NonWhite \subseteq NonWhite'
      BY <2>1, <2>2 DEF NonWhite, IsWhite
    <2>4. ASSUME NEW x \in Obj, mark'[x] = "black", ~InTmu(x)'
          PROVE  AllRefs(x)' \subseteq NonWhite'
      <3>1. AllRefs(x) \subseteq Obj /\ ~InTmu(x) /\ ~IsDead(x)
        BY <1>2, <1>13, <2>4, RefsAre DEF InTmu, Always
      <3>2. AllRefs(x)' \subseteq AllRefs(x)
        BY <1>21, <3>1
      <3>3. CASE mark[x] = "black"
        BY <2>3, <3>1, <3>2, <3>3 DEF BlackOK
      <3>4. CASE mark[x] # "black" /\ x \in S
        <4>1. mark[x] = "gray" /\ x \in UpVals
          BY <1>7, <1>8, <2>4, <3>4
        <4>2. UpValue(x) # Nil => m[UpValue(x)] \notin Whites
          BY <1>8, <3>4, <4>1
        <4>3. AllRefs(x) = {UpValue(x)} \ {Nil}
          BY <4>1 DEF AllRefs
        <4>4. \A y \in AllRefs(x) : mark'[y] \notin Whites
          BY <2>1, <3>1, <4>2, <4>3
        <4> QED
          BY <3>1, <3>2, <4>4 DEF NonWhite, IsWhite
      <3>5. CASE mark[x] # "black" /\ x \notin S
        <4>1. m[x] = "black"
          BY <1>8, <2>4, <3>5
        <4>2. \A y \in AllRefs(x) : m[y] \notin Whites
          BY <1>8, <3>5, <4>1, SoundRefs DEF Open
        <4>3. \A y \in AllRefs(x) : mark'[y] \notin Whites
          BY <2>1, <3>1, <4>2
        <4> QED
          BY <3>1, <3>2, <4>3 DEF NonWhite, IsWhite
      <3> QED
        BY <3>3, <3>4, <3>5
    <2>5. BlackOK'
      BY <2>4 DEF BlackOK
    <2>6. RootsOK'
      BY <2>3 DEF RootsOK
    <2> QED
      BY <2>5, <2>6
  <1> QED
    BY <1>22, <1>23, <1>24, <1>25, <1>26 DEF Open

-----------------------------------------------------------------------------
(* The invariant. *)

\* The state lua_newstate makes.
LEMMA InitOpen ==
    ASSUME Init
    PROVE  Open
  <1>1. /\ mark = [o \in Obj |-> IF o \in {Main, Globals, Registry} THEN "w0" ELSE "free"]
        /\ fld = [o \in Obj |-> IF o = Main THEN [NoRefs EXCEPT !["env"] = Globals] ELSE NoRefs]
        /\ stack = [th \in Threads |-> <<>>] /\ open = [uv \in UpVals |-> NotOpen]
        /\ cur = Main /\ basic = Nil /\ gcstate = "pause" /\ white = "w0"
    BY DEF Init
  <1>2. /\ Main \in Obj /\ Globals \in Obj /\ Registry \in Obj /\ Main \in Threads
        /\ Main \notin UpVals /\ Globals \notin UpVals /\ Registry \notin UpVals
        /\ Globals \notin Threads /\ Registry \notin Threads /\ Main # Globals /\ Main # Registry
        /\ Globals \in Tables /\ Registry \in Tables
        /\ Kind[Main] = "thread" /\ Kind[Globals] = "table" /\ Kind[Registry] = "table"
    BY KindsAre
  <1>3. /\ NoRefs \in [Slots -> {Nil}] /\ "mt" \in Slots /\ "env" \in Slots /\ "key" \in Slots
        /\ "val" \in Slots
    BY DEF NoRefs, Slots
  <1>4. OtherWhite = "w1" /\ \A o \in Obj : ~IsDead(o)
    <2>1. OtherWhite = "w1"
      BY <1>1 DEF OtherWhite
    <2> QED
      BY <1>1, <2>1 DEF IsDead
  <1>5. \A o \in Obj : Alive(o) <=> o \in {Main, Globals, Registry}
    BY <1>1 DEF Alive
  <1>6. \A uv \in UpVals : ~IsOpen(uv)
    BY <1>1 DEF IsOpen
  <1>7. Kept = {Main, Globals, Registry}
    BY <1>2, <1>4, <1>5 DEF Kept
  <1>8. RefsOK
    <2>1. \A th \in Threads : mark[th] # "black" /\ stack[th] \in Seq(Values) /\ stack[th] = <<>>
      BY <1>1, KindsAre
    <2>2. ASSUME NEW o \in Obj
          PROVE  FieldsOK(o)
      <3>1. CASE o = Main
        <4>1. fld[o] = [NoRefs EXCEPT !["env"] = Globals]
          BY <1>1, <2>2, <3>1
        <4>2. fld[o]["mt"] = Nil /\ fld[o]["env"] = Globals /\ fld[o]["key"] = Nil
              /\ fld[o]["val"] = Nil
          BY <1>3, <4>1
        <4> QED
          BY <1>2, <3>1, <4>2 DEF FieldsOK
      <3>2. CASE o # Main
        <4>1. fld[o] = NoRefs
          BY <1>1, <2>2, <3>2
        <4>2. Alive(o) => Kind[o] = "table"
          BY <1>2, <1>5, <3>2
        <4> QED
          BY <1>3, <4>1, <4>2 DEF FieldsOK, Opt
      <3> QED
        BY <3>1, <3>2
    <2> QED
      BY <2>1, <2>2 DEF RefsOK
  <1>9. ShutOK /\ DeadOK
    BY <1>1, <1>4, KindsAre DEF ShutOK, DeadOK
  <1>10. KeptOK
    <2>1. Roots \subseteq Kept
      BY <1>1, <1>7 DEF Roots
    <2>2. ASSUME NEW o \in Kept
          PROVE  AllRefs(o) \subseteq Kept
      <3>1. o \in Obj /\ o \notin UpVals /\ (o \in Threads => o = Main)
        BY <1>2, <1>7
      <3>2. \A s \in Slots : fld[o][s] \in {Nil, Globals}
        BY <1>1, <1>3, <3>1
      <3>3. o \in Threads => StackValues(o) = {}
        BY <1>1 DEF StackValues
      <3> QED
        BY <1>7, <3>1, <3>2, <3>3 DEF AllRefs
    <2> QED
      BY <2>1, <2>2 DEF KeptOK
  <1>11. MarksOK
    BY <1>1, MarkStatesAre DEF MarksOK
  <1> QED
    BY <1>8, <1>9, <1>10, <1>11 DEF Open

\* A new state satisfies the invariant.
LEMMA InitInv ==
    ASSUME Init
    PROVE  IInv
  BY InitAlways, InitOpen DEF IInv

\* A step of the collector keeps the invariant.
LEMMA GCStepInv ==
    ASSUME IInv, GCStep
    PROVE  IInv'
  <1>1. Always
    BY DEF IInv
  <1>2. ASSUME Always', closing' = closing, Open => Open'
        PROVE  IInv'
    BY <1>2 DEF IInv
  <1>3. CASE StartCycle
    <2>1. Always' /\ closing' = closing
      BY <1>1, <1>3, StartCycleAlways DEF StartCycle
    <2>2. Open => Open'
      BY <1>1, <1>3, StartCycleOpen
    <2> QED
      BY <1>2, <2>1, <2>2
  <1>4. CASE \E o \in Obj : Propagate(o)
    <2>1. PICK o \in Obj : Propagate(o)
      BY <1>4
    <2>2. Always' /\ closing' = closing
      BY <1>1, <2>1, PropagateAlways DEF Propagate
    <2>3. Open => Open'
      BY <1>1, <2>1, PropagateOpen
    <2> QED
      BY <1>2, <2>2, <2>3
  <1>5. CASE RemarkUpvals \/ RemarkWeak \/ RemarkAgain
    <2>1. Always'
      BY <1>1, <1>5, RemarkAlways
    <2>2. closing' = closing
      BY <1>5 DEF RemarkUpvals, RemarkWeak, RemarkAgain
    <2>3. Open => Open'
      BY <1>1, <1>5, RemarkUpvalsOpen, RemarkWeakOpen, RemarkAgainOpen
    <2> QED
      BY <1>2, <2>1, <2>2, <2>3
  <1>6. CASE SeparateAndMark
    <2>1. Always' /\ closing' = closing
      BY <1>1, <1>6, SeparateAndMarkAlways DEF SeparateAndMark
    <2>2. Open => Open'
      BY <1>1, <1>6, SeparateAndMarkOpen
    <2> QED
      BY <1>2, <2>1, <2>2
  <1>7. CASE ClearAndFlip
    <2>1. Always' /\ closing' = closing
      BY <1>1, <1>7, ClearAndFlipAlways DEF ClearAndFlip
    <2>2. Open => Open'
      BY <1>1, <1>7, ClearAndFlipOpen
    <2> QED
      BY <1>2, <2>1, <2>2
  <1>8. CASE \E o \in Obj : SweepString(o) \/ SweepObject(o)
    <2>1. PICK o \in Obj : SweepOne(o)
      BY <1>1, <1>8, SweepSteps
    <2>2. Always' /\ closing' = closing
      BY <1>1, <2>1, SweepAlways DEF SweepOne
    <2>3. Open => Open'
      BY <1>1, <2>1, SweepOpen
    <2> QED
      BY <1>2, <2>2, <2>3
  <1>9. CASE \E o \in Obj : SweepAstray(o)
    <2>1. PICK o \in Obj : SweepAstray(o)
      BY <1>9
    <2>2. Always' /\ closing' = closing
      BY <1>1, <2>1, SweepAstrayAlways DEF SweepAstray
    <2>3. Open => Open'
      BY <1>1, <2>1, SweepAstrayOpen
    <2> QED
      BY <1>2, <2>2, <2>3
  <1>10. CASE SweepStringEnd \/ SweepEnd \/ EndCycle
    <2>1. Always'
      BY <1>1, <1>10, TurnAlways
    <2>2. closing' = closing
      BY <1>10 DEF SweepStringEnd, SweepEnd, EndCycle
    <2>3. Open => Open'
      BY <1>1, <1>10, TurnOpen
    <2> QED
      BY <1>2, <2>1, <2>2, <2>3
  <1>11. CASE Finalize
    <2>1. /\ GCTM /\ full' = 0 /\ closing' = closing
          /\ UNCHANGED <<world, fin, fld, open, cur, basic, gcstate, white, gray, grayagain, weak,
                         unswept, sweepgc, closing>>
      BY <1>11 DEF Finalize
    <2>2. full' \in 0..2
      BY <2>1
    <2>3. Always'
      BY <1>1, <2>1, <2>2, GCTMAlways
    <2>4. Open => Open'
      BY <1>1, <1>11, FinalizeOpen
    <2> QED
      BY <1>2, <2>1, <2>3, <2>4
  <1> QED
    BY <1>3, <1>4, <1>5, <1>6, <1>7, <1>8, <1>9, <1>10, <1>11 DEF GCStep

\* An operation of the program keeps the invariant, whatever it is applied to.
LEMMA ProgramInv ==
    ASSUME IInv, Program
    PROVE  IInv'
  <1>1. Always /\ (~closing => Open)
    BY DEF IInv
  <1>2. ASSUME Always', closing' = closing, Open => Open'
        PROVE  IInv'
    BY <1>2 DEF IInv
  <1>3. ASSUME NEW o, NewString(o)
        PROVE  IInv'
    <2>1. Always' /\ closing' = closing
      BY <1>1, <1>3, NewStringAlways DEF NewString
    <2>2. Open => Open'
      BY <1>1, <1>3, NewStringOpen
    <2> QED
      BY <1>2, <2>1, <2>2
  <1>4. ASSUME NEW o, NEW v, New(o, v)
        PROVE  IInv'
    <2>1. ~closing /\ closing' = closing
      BY <1>4 DEF New, Fresh
    <2>2. Always' /\ Open'
      BY <1>1, <1>4, <2>1, NewAlwaysOpen
    <2> QED
      BY <2>2 DEF IInv
  <1>5. ASSUME NEW o, NEW p, NEW uv \in UpVals, NEW lvl, NewLClosure(o, p, uv, lvl)
        PROVE  IInv'
    <2>1. ~closing /\ closing' = closing
      BY <1>5 DEF NewLClosure, Fresh
    <2>2. Always' /\ Open'
      BY <1>1, <1>5, <2>1, NewLClosureAlwaysOpen
    <2> QED
      BY <2>2 DEF IInv
  <1>6. ASSUME NEW v \in world, Read(v)
        PROVE  IInv'
    <2>1. Always' /\ closing' = closing
      BY <1>1, <1>6, ReadAlways DEF Read
    <2>2. Open => Open'
      BY <1>1, <1>6, ReadOpen
    <2> QED
      BY <1>2, <2>1, <2>2
  <1>7. ASSUME NEW t, NEW k, NEW v, SetTable(t, k, v)
        PROVE  IInv'
    <2>1. Always' /\ closing' = closing
      BY <1>1, <1>7, SetTableAlways DEF SetTable
    <2>2. Open => Open'
      BY <1>1, <1>7, SetTableOpen
    <2> QED
      BY <1>2, <2>1, <2>2
  <1>8. ASSUME NEW o, NEW mt, SetMetatable(o, mt)
        PROVE  IInv'
    <2>1. Always' /\ closing' = closing
      BY <1>1, <1>8, SetMetatableAlways DEF SetMetatable
    <2>2. Open => Open'
      BY <1>1, <1>8, SetMetatableOpen
    <2> QED
      BY <1>2, <2>1, <2>2
  <1>9. ASSUME NEW o, NEW t, SetFEnv(o, t)
        PROVE  IInv'
    <2>1. Always' /\ closing' = closing
      BY <1>1, <1>9, SetFEnvAlways DEF SetFEnv
    <2>2. Open => Open'
      BY <1>1, <1>9, SetFEnvOpen
    <2> QED
      BY <1>2, <2>1, <2>2
  <1>10. ASSUME NEW f, NEW v, SetUpvalue(f, v)
         PROVE  IInv'
    <2>1. Always' /\ closing' = closing
      BY <1>1, <1>10, SetUpvalueAlways DEF SetUpvalue
    <2>2. Open => Open'
      BY <1>1, <1>10, SetUpvalueOpen
    <2> QED
      BY <1>2, <2>1, <2>2
  <1>11. ASSUME Pop
         PROVE  IInv'
    <2>1. Always' /\ closing' = closing
      BY <1>1, <1>11, PopAlways DEF Pop
    <2>2. Open => Open'
      BY <1>1, <1>11, PopOpen
    <2> QED
      BY <1>2, <2>1, <2>2
  <1>12. ASSUME NEW th \in world \cap Threads, NEW n, Switch(th, n)
         PROVE  IInv'
    <2>1. Always' /\ closing' = closing
      BY <1>1, <1>12, SwitchAlways DEF Switch
    <2>2. Open => Open'
      BY <1>1, <1>12, SwitchOpen
    <2> QED
      BY <1>2, <2>1, <2>2
  <1>13. ASSUME FullGC
         PROVE  IInv'
    <2>1. Always' /\ closing' = closing
      BY <1>1, <1>13, FullGCAlways DEF FullGC
    <2>2. Open => Open'
      BY <1>1, <1>13, FullGCOpen
    <2> QED
      BY <1>2, <2>1, <2>2
  <1>14. ASSUME Close
         PROVE  IInv'
    BY <1>1, <1>14, CloseAlways DEF Close, IInv
  <1>15. ASSUME CloseGCTM
         PROVE  IInv'
    <2>1. /\ GCTM /\ closing /\ closing' = closing /\ full = 0
          /\ UNCHANGED <<world, fin, fld, open, cur, basic, gcstate, white, gray, grayagain, weak,
                         unswept, sweepgc, full, closing>>
      BY <1>15 DEF CloseGCTM, Idle, gcvars
    <2>2. full' \in 0..2
      BY <2>1
    <2>3. Always'
      BY <1>1, <2>1, <2>2, GCTMAlways
    <2> QED
      BY <2>1, <2>3 DEF IInv
  <1>16. ASSUME FreeAll
         PROVE  IInv'
    <2>1. closing /\ closing' = closing
      BY <1>16 DEF FreeAll, Idle
    <2> QED
      BY <1>1, <1>16, <2>1, FreeAllAlways DEF IInv
  <1> QED
    BY <1>3, <1>4, <1>5, <1>6, <1>7, <1>8, <1>9, <1>10, <1>11, <1>12, <1>13, <1>14, <1>15, <1>16
    DEF Program

\* A step of neither keeps the invariant, as it is about the variables only.
LEMMA StutterInv ==
    ASSUME IInv, UNCHANGED vars
    PROVE  IInv'
  <1>1. /\ world' = world /\ mark' = mark /\ fin' = fin /\ fld' = fld /\ stack' = stack
        /\ open' = open /\ cur' = cur /\ basic' = basic /\ gcstate' = gcstate /\ white' = white
        /\ gray' = gray /\ grayagain' = grayagain /\ weak' = weak /\ udlist' = udlist
        /\ tmudata' = tmudata /\ unswept' = unswept /\ sweepgc' = sweepgc /\ full' = full
        /\ closing' = closing /\ calls' = calls
    BY DEF vars
  <1>2. /\ \A o : InTmu(o)' = InTmu(o) /\ InList(o)' = InList(o) /\ IsOpen(o)' = IsOpen(o)
                  /\ Left(o)' = Left(o) /\ Alive(o)' = Alive(o) /\ IsDead(o)' = IsDead(o)
        /\ \A o : AllRefs(o)' = AllRefs(o) /\ StrongRefs(o)' = StrongRefs(o)
                  /\ UpValue(o)' = UpValue(o)
    BY <1>1, SameRefs DEF InTmu, InList, IsOpen, Left, Alive, IsDead, OtherWhite
  <1>3. Always => Always'
    <2>1. TypeOK => TypeOK'
      BY <1>1 DEF TypeOK
    <2>2. UdataOK /\ OpenOK => UdataOK' /\ OpenOK'
      BY <1>1, <1>2 DEF UdataOK, OpenOK, Alive
    <2>3. ListsOK => ListsOK'
      BY <1>1 DEF ListsOK, Partition
    <2>4. RestOK /\ UnsweptOK => RestOK' /\ UnsweptOK'
      BY <1>1, <1>2 DEF RestOK, UnsweptOK
    <2>5. FinsOK => FinsOK'
      BY <1>1, <1>2 DEF FinsOK, Injective
    <2> QED
      BY <2>1, <2>2, <2>3, <2>4, <2>5 DEF Always
  <1>4. Open => Open'
    <2>1. RefsOK => RefsOK'
      BY <1>1, <1>2 DEF RefsOK, FieldsOK
    <2>2. ShutOK /\ DeadOK => ShutOK' /\ DeadOK'
      BY <1>1, <1>2 DEF ShutOK, DeadOK
    <2>3. KeptOK => KeptOK'
      BY <1>1, <1>2 DEF KeptOK, Kept, Roots
    <2>4. MarksOK => MarksOK'
      BY <1>1, <1>2 DEF MarksOK, BlackOK, RootsOK, UpvalsOK, AtomicOK, AgainOK, WeakOK, TmuOK,
         NonWhite, IsWhite, Past1, Past2, Past3
    <2> QED
      BY <2>1, <2>2, <2>3, <2>4 DEF Open
  <1> QED
    BY <1>1, <1>3, <1>4 DEF IInv

\* Every step keeps the invariant.
LEMMA NextInv ==
    ASSUME IInv, [Next]_vars
    PROVE  IInv'
  BY GCStepInv, ProgramInv, StutterInv DEF Next

-----------------------------------------------------------------------------
(* What the invariant says. *)

\* The invariant holds in every state of every behaviour of LuaGC, for every
\* set of objects and every bound of the program: it is what lgc.c and the
\* barriers of lapi.c, lvm.c, lfunc.c and ltable.c keep true between them.
THEOREM Invariance ==
    Spec => []IInv
  <1>1. Init => IInv
    BY InitInv
  <1>2. IInv /\ [Next]_vars => IInv'
    BY NextInv
  <1> QED
    BY <1>1, <1>2, PTL DEF Spec

\* Every object that is gray in the mark phase and has references to be followed
\* is in exactly one of g->gray, g->grayagain and g->weak, and nothing else is.
THEOREM GrayIsListed ==
    Spec => []ListsHoldGray
  <1>1. IInv => ListsHoldGray
    BY DEF IInv, Always, ListsOK, Partition, ListsHoldGray
  <1> QED
    BY <1>1, Invariance, PTL

\* While objects are marked, until lua_close, no black object refers to a white
\* one, whatever the program did since it turned black: the barriers are enough.
THEOREM NoBlackToWhite ==
    Spec => []TriColour
  <1>1. IInv => TriColour
    <2> SUFFICES ASSUME IInv, gcstate \in MarkStates, ~closing, NEW o \in Obj,
                        mark[o] = "black", ~InTmu(o), NEW r \in StrongRefs(o)
                 PROVE  ~IsWhite(r)
      BY DEF TriColour, InTmu
    <2>1. BlackOK
      BY DEF IInv, Open, MarksOK
    <2>2. r \in AllRefs(o)
      BY RefsAre DEF IInv, Always
    <2> QED
      BY <2>1, <2>2 DEF BlackOK, NonWhite
  <1> QED
    BY <1>1, Invariance, PTL

\* Until lua_close what the program can still get hold of, from the roots, through
\* any field, stack or upvalue and through weak references as well, is an object
\* and not one that the sweep is about to erase.
THEOREM AccessibleKept ==
    Spec => []AccessibleAlive
  <1>1. IInv => AccessibleAlive
    <2> SUFFICES ASSUME Always, Open
                 PROVE  \A o \in Accessible : Alive(o) /\ ~IsDead(o)
      BY DEF IInv, AccessibleAlive
    <2>1. \A o \in Obj : AllRefs(o) \subseteq Obj
      BY RefsAre DEF Always
    <2>2. Kept \in SUBSET Obj /\ Closed(Kept) /\ Roots \in SUBSET Kept
      BY DEF Kept, Open, KeptOK, Closed
    <2>3. Grow[Roots] \subseteq Kept
      BY <2>1, <2>2, GrowIn
    <2> QED
      BY <2>3 DEF Accessible, Kept
  <1> QED
    BY <1>1, Invariance, PTL

\* The __gc method of a userdata is called once at most in its life, whether
\* a cycle, luaC_fullgc or lua_close calls it.
THEOREM OnceFinalized ==
    Spec => []FinalizedOnce
  <1>1. IInv => FinalizedOnce
    <2> SUFFICES ASSUME IInv, NEW u \in Udata
                 PROVE  calls[u] <= 1
      BY DEF FinalizedOnce
    <2>1. calls[u] \in {0, 1}
      BY DEF IInv, Always, FinsOK
    <2> QED
      BY <2>1
  <1> QED
    BY <1>1, Invariance, PTL

\* Between two collections nothing is gray or black but what waits for its
\* finalizer, so that the next cycle begins from white.
THEOREM WhiteWhenResting ==
    Spec => []WhiteAtRest
  <1>1. IInv => WhiteAtRest
    <2> SUFFICES ASSUME IInv, gcstate \in {"pause", "finalize"}, NEW o \in Obj,
                        mark[o] \in {"gray", "black"}
                 PROVE  InTmu(o)
      BY DEF WhiteAtRest, InTmu
    <2>1. Always
      BY DEF IInv
    <2> QED
      BY <2>1, AtRest
  <1> QED
    BY <1>1, Invariance, PTL
=============================================================================
