---------------------------- MODULE LuaTableProof ----------------------------
(* A table is a map: whatever the hash function, whatever is assigned, removed and  *)
(* collected, and however often the parts of the table are resized, what is read is *)
(* what was assigned last and a traversal meets every entry once.                   *)
EXTENDS LuaTable, FiniteSetTheorems, WellFoundedInduction, TLAPS

------------------------------------------------------------------------------
(* The invariant *)

Nodes(tb) == 1 .. sizenode(tb)
Tables == [array : Seq(Value \cup {Nil}), node : Seq(Slots), dummy : BOOLEAN,
           lastfree : Nat, flags : SUBSET Events, nested : BOOLEAN]

\* The parts of a table: a power of two nodes, all in use from lastfree on.
Shaped(tb) ==
  /\ tb \in Tables /\ ~tb.nested
  /\ \E p \in Nat : sizenode(tb) = twoto[p]
  /\ tb.lastfree \in 1 .. (sizenode(tb) + 1)
  /\ IF tb.dummy THEN sizenode(tb) = 1 /\ tb.lastfree = 1 /\ tb.node[1] = EmptyNode
     ELSE \A n \in tb.lastfree .. sizenode(tb) : tb.node[n].key # Nil

\* A node that was never used is in no chain; one that is dead has no value;
\* what is in the array part is in no node.
Held(tb) ==
  /\ \A i \in 1 .. sizearray(tb) : tb.array[i] # Nil => i \in IntKeys \cap DOMAIN hash
  /\ \A n \in Nodes(tb) :
       /\ tb.node[n].next \in 0 .. sizenode(tb)
       /\ tb.node[n].key \in DOMAIN hash \cup {Nil}
       /\ tb.node[n].key = Nil => tb.node[n].val = Nil /\ tb.node[n].next = 0
       /\ tb.node[n].dead => tb.node[n].val = Nil
       /\ tb.node[n].next # 0 => tb.node[tb.node[n].next].key # Nil
       /\ tb.node[n].key \in IntKeys => tb.node[n].key > sizearray(tb)

\* Two nodes have no successor in common, and no key unless one is dead.
Apart(tb) ==
  \A m, n \in Nodes(tb) : m # n =>
    /\ tb.node[m].next = tb.node[n].next => tb.node[m].next = 0
    /\ tb.node[m].key = tb.node[n].key /\ tb.node[m].key # Nil =>
         tb.node[m].dead \/ tb.node[n].dead

\* The main position of a key holds a key whose main position it is.
AtHome(tb) ==
  \A n \in Nodes(tb) : tb.node[n].key # Nil =>
    LET h == mainposition(tb, tb.node[n].key)
    IN  tb.node[h].key # Nil /\ mainposition(tb, tb.node[h].key) = h

\* Chains end: e falls along them.  R relates a node to those that its chain
\* reaches, among them every node whose key has it as its main position.  A
\* key comes before its dead namesakes.
Chained(tb, B, e, R) ==
  /\ B \in Nat /\ e \in [Nodes(tb) -> 0 .. B] /\ R \in SUBSET (Nodes(tb) \X Nodes(tb))
  /\ \A n \in Nodes(tb) : tb.node[n].next # 0 => e[tb.node[n].next] < e[n]
  /\ \A h, n \in Nodes(tb) : <<h, n>> \in R /\ n # h =>
       /\ e[n] < e[h]
       /\ \E m \in Nodes(tb) : <<h, m>> \in R /\ tb.node[m].next = n
  /\ \A n \in Nodes(tb) : tb.node[n].key # Nil => <<mainposition(tb, tb.node[n].key), n>> \in R
  /\ \A m, n \in Nodes(tb) :
       tb.node[m].key = tb.node[n].key /\ tb.node[m].key # Nil
       /\ tb.node[m].dead /\ ~tb.node[n].dead => e[m] < e[n]

Sound(tb) ==
  /\ Shaped(tb) /\ Held(tb) /\ Apart(tb) /\ AtHome(tb)
  /\ \E B, e, R : Chained(tb, B, e, R)

\* The entries in the order of traversal.
Entries(tb) == 1 .. (sizearray(tb) + sizenode(tb))
\* A traversal has met the entries up to where it is.
Walks(tb, w) ==
  /\ ~w.on => w = Off
  /\ w.on =>
       /\ w.ok /\ w.at \in DOMAIN hash \cup {Nil}
       /\ findindex(tb, w.at) \in Nat
       /\ \A j \in Entries(tb) : EntryAt(tb, j).val # Nil =>
            (j <= findindex(tb, w.at) <=> EntryAt(tb, j).key \in w.seen)

Walkers == [on : BOOLEAN, ok : BOOLEAN, at : Key \cup {Nil},
            val : Value \cup {Nil}, seen : SUBSET Key]
Right(tb, vw, w) == Sound(tb) /\ vw = View(tb) /\ w \in Walkers /\ Walks(tb, w)

IInv == hash \in Hashes /\ Right(t, view, walk) /\ CacheIsTrue

------------------------------------------------------------------------------
(* Powers of two *)

\* A set of naturals that is not empty has a least element.
LEMMA Least ==
    ASSUME NEW T \in SUBSET Nat, T # {}
    PROVE  \E x \in T : \A y \in T : x <= y
  <1>1. \E x \in T : \A y \in T : ~(<<y, x>> \in OpToRel(<, Nat))
    BY NatLessThanWellFounded, WFMin, Zenon
  <1>2. PICK x \in T : \A y \in T : ~(<<y, x>> \in OpToRel(<, Nat))
    BY <1>1, Zenon
  <1>3. \A y \in T : ~(y < x)
    BY <1>2, Zenon DEF OpToRel
  <1> QED
    BY <1>3

Doubles(f, n) == /\ f \in [0 .. n -> Nat] /\ f[0] = 1
                 /\ \A i \in 1 .. n : f[i] = 2 * f[i - 1]

\* The powers of two up to any n exist: what makes twoto more than a name.
LEMMA Doubled ==
    ASSUME NEW n \in Nat
    PROVE  \E f : Doubles(f, n)
  <1> DEFINE T == {m \in Nat : ~\E f : Doubles(f, m)}
  <1>1. SUFFICES ASSUME T # {}
                 PROVE  FALSE
    OBVIOUS
  <1>2. PICK m \in T : \A k \in T : m <= k
    BY <1>1, Least
  <1>3. m # 0
    <2>1. Doubles([i \in 0 .. 0 |-> 1], 0)
      BY DEF Doubles
    <2> QED
      BY <2>1, <1>2
  <1>4. m - 1 \in Nat /\ m - 1 \notin T
    BY <1>2, <1>3
  <1>5. PICK f : Doubles(f, m - 1)
    BY <1>4
  <1> DEFINE g == [i \in 0 .. m |-> IF i = m THEN 2 * f[m - 1] ELSE f[i]]
  <1>6. Doubles(g, m)
    BY <1>3, <1>4, <1>5 DEF Doubles
  <1> QED
    BY <1>2, <1>6

\* Two tables of powers of two agree where both are defined.
LEMMA DoubledOnce ==
    ASSUME NEW m \in Nat, NEW n \in Nat, NEW f, NEW g, Doubles(f, m), Doubles(g, n),
           NEW i \in Nat, i <= m, i <= n
    PROVE  f[i] = g[i]
  <1> DEFINE T == {j \in Nat : j <= m /\ j <= n /\ f[j] # g[j]}
  <1>1. SUFFICES ASSUME T # {}
                 PROVE  FALSE
    OBVIOUS
  <1>2. PICK j \in T : \A k \in T : j <= k
    BY <1>1, Least
  <1>3. j # 0
    BY <1>2 DEF Doubles
  <1>4. j - 1 \in Nat /\ j - 1 \notin T
    BY <1>2, <1>3
  <1>5. f[j - 1] = g[j - 1] /\ j \in 1 .. m /\ j \in 1 .. n
    BY <1>2, <1>3, <1>4
  <1> QED
    BY <1>2, <1>5 DEF Doubles

\* twoto is the power of two.
LEMMA TwoTo ==
    /\ twoto \in [Nat -> Nat]
    /\ twoto[0] = 1
    /\ \A x \in Nat \ {0} : twoto[x] = 2 * twoto[x - 1]
  <1> DEFINE Pick(x) == CHOOSE f : Doubles(f, x)
             G == [x \in Nat |-> Pick(x)[x]]
  <1>1. \A x \in Nat : Doubles(Pick(x), x)
    BY Doubled, Zenon
  <1> HIDE DEF Pick
  <1>2. \A x \in Nat : Pick(x)[x] \in Nat
    BY <1>1 DEF Doubles
  <1>3. G[0] = 1
    BY <1>1 DEF Doubles
  <1>4. \A x \in Nat \ {0} : G[x] = 2 * G[x - 1]
    <2>1. TAKE x \in Nat \ {0}
    <2>2. x - 1 \in Nat /\ Doubles(Pick(x), x) /\ Doubles(Pick(x - 1), x - 1)
      BY <1>1
    <2>3. Pick(x)[x - 1] = Pick(x - 1)[x - 1]
      BY <2>2, DoubledOnce
    <2>4. Pick(x)[x] = 2 * Pick(x)[x - 1]
      BY <2>2 DEF Doubles
    <2> QED
      BY <2>2, <2>3, <2>4
  <1>5. G = [x \in Nat |-> IF x = 0 THEN 1 ELSE 2 * G[x - 1]]
    <2>1. \A x \in Nat : G[x] = IF x = 0 THEN 1 ELSE 2 * G[x - 1]
      BY <1>3, <1>4
    <2> QED
      BY <2>1, Zenon
  <1>6. twoto = [x \in Nat |-> IF x = 0 THEN 1 ELSE 2 * twoto[x - 1]]
    <2> HIDE DEF G
    <2>1. \E f : f = [x \in Nat |-> IF x = 0 THEN 1 ELSE 2 * f[x - 1]]
      BY <1>5
    <2> QED
      BY <2>1, Zenon DEF twoto
  <1>7. /\ twoto[0] = 1
        /\ \A x \in Nat \ {0} : twoto[x] = 2 * twoto[x - 1]
    BY <1>6
  <1>9. \A x \in Nat : twoto[x] \in Nat
    <2> DEFINE T == {x \in Nat : twoto[x] \notin Nat}
    <2>1. SUFFICES ASSUME T # {}
                   PROVE  FALSE
      OBVIOUS
    <2>2. PICK x \in T : \A y \in T : x <= y
      BY <2>1, Least
    <2>3. x # 0
      BY <1>7, <2>2
    <2>4. x - 1 \in Nat /\ x - 1 \notin T
      BY <2>2, <2>3
    <2> QED
      BY <2>2, <2>3, <2>4, <1>7
  <1> QED
    BY <1>6, <1>7, <1>9

\* Powers of two grow, beyond any number.
LEMMA Grows ==
    ASSUME NEW x \in Nat
    PROVE  twoto[x] \in Nat /\ twoto[x] > x /\ \A y \in Nat : y < x => twoto[y] < twoto[x]
  <1> DEFINE T == {z \in Nat : ~(twoto[z] > z /\ \A y \in Nat : y < z => twoto[y] < twoto[z])}
  <1>1. SUFFICES ASSUME T # {}
                 PROVE  FALSE
    BY TwoTo
  <1>2. PICK z \in T : \A y \in T : z <= y
    BY <1>1, Least
  <1>3. z # 0
    BY <1>2, TwoTo
  <1>4. z - 1 \in Nat /\ z - 1 \notin T
    BY <1>2, <1>3
  <1>5. twoto[z - 1] > z - 1 /\ \A y \in Nat : y < z - 1 => twoto[y] < twoto[z - 1]
    BY <1>4
  <1>6. twoto[z] = 2 * twoto[z - 1] /\ twoto[z - 1] \in Nat /\ twoto[z] \in Nat
    BY <1>2, <1>3, TwoTo
  <1>7. twoto[z] > z /\ twoto[z - 1] < twoto[z]
    BY <1>2, <1>4, <1>5, <1>6
  <1>8. \A y \in Nat : y < z => twoto[y] < twoto[z]
    <2>1. TAKE y \in Nat
    <2>2. twoto[y] \in Nat
      BY TwoTo
    <2>3. y < z => y = z - 1 \/ y < z - 1
      BY <1>2
    <2> QED
      BY <1>5, <1>6, <1>7, <2>2, <2>3
  <1> QED
    BY <1>2, <1>7, <1>8

\* luaO_log2 rounded up.
LEMMA Log2 ==
    ASSUME NEW n \in Nat
    PROVE  /\ ceillog2(n) \in Nat /\ twoto[ceillog2(n)] \in Nat /\ twoto[ceillog2(n)] >= n
           /\ ceillog2(n) = 0 \/ twoto[ceillog2(n) - 1] < n
           /\ \A p \in Nat : n = twoto[p] => ceillog2(n) = p
  <1> DEFINE Is(p) == twoto[p] >= n /\ (p = 0 \/ twoto[p - 1] < n)
             T == {p \in Nat : twoto[p] >= n}
  <1>1. n \in T
    BY Grows
  <1>2. PICK p \in T : \A q \in T : p <= q
    BY <1>1, Least
  <1>3. p \in 0 .. n /\ twoto[p] >= n
    BY <1>1, <1>2
  <1>4. p = 0 \/ twoto[p - 1] < n
    <2>1. CASE p # 0
      <3>1. p - 1 \in Nat /\ p - 1 \notin T /\ twoto[p - 1] \in Nat
        BY <2>1, <1>2, TwoTo
      <3> QED
        BY <3>1
    <2> QED
      BY <2>1
  <1> DEFINE c == CHOOSE q \in 0 .. n : Is(q)
  <1>5. c \in 0 .. n /\ Is(c)
    <2>1. \E q \in 0 .. n : Is(q)
      BY <1>3, <1>4
    <2> HIDE DEF Is
    <2> QED
      BY <2>1
  <1>6. ceillog2(n) = c
    BY DEF ceillog2
  <1> HIDE DEF c
  <1>7. ASSUME NEW q \in Nat, n = twoto[q]
        PROVE  c = q
    <2>1. c \in Nat /\ twoto[c] \in Nat /\ twoto[q] \in Nat
      BY <1>5, TwoTo
    <2>2. ~(c < q)
      BY <1>5, <1>7, <2>1, Grows
    <2>3. ~(q < c)
      <3>1. SUFFICES ASSUME q < c
                     PROVE  FALSE
        OBVIOUS
      <3>2. c - 1 \in Nat /\ twoto[c - 1] < n /\ twoto[c - 1] \in Nat
        BY <3>1, <2>1, <1>5, TwoTo
      <3>3. q = c - 1 \/ q < c - 1
        BY <3>1, <2>1
      <3> QED
        BY <3>2, <3>3, <1>7, Grows
    <2> QED
      BY <2>1, <2>2, <2>3
  <1> QED
    BY <1>5, <1>6, <1>7, TwoTo
------------------------------------------------------------------------------
(* Chains *)

\* A measure falls along the links of the nodes.
Falls(nodes, B, e) ==
  /\ Len(nodes) \in Nat /\ B \in Nat /\ e \in [1 .. Len(nodes) -> 0 .. B]
  /\ \A n \in 1 .. Len(nodes) :
       /\ nodes[n].next \in 0 .. Len(nodes)
       /\ nodes[n].next # 0 => e[nodes[n].next] < e[n]

\* A search of the nodes that are below r.
Low(nodes, e, r) == {n \in 0 .. Len(nodes) : n = 0 \/ e[n] < r}
Finds(nodes, S, f, D) ==
  /\ f \in [D -> 0 .. Len(nodes)]
  /\ \A n \in D : f[n] = IF n = 0 \/ n \in S THEN n ELSE f[nodes[n].next]

\* The search of a chain is defined on the nodes of rank at most r.
LEMMA FindsBelow ==
    ASSUME NEW nodes, NEW B, NEW e, Falls(nodes, B, e), NEW S, NEW r \in Nat
    PROVE  \E f : Finds(nodes, S, f, Low(nodes, e, r))
  <1> DEFINE T == {x \in Nat : ~\E f : Finds(nodes, S, f, Low(nodes, e, x))}
  <1>1. SUFFICES ASSUME T # {}
                 PROVE  FALSE
    OBVIOUS
  <1>2. PICK x \in T : \A y \in T : x <= y
    BY <1>1, Least
  <1>3. x # 0
    <2>1. Low(nodes, e, 0) = {0}
      BY DEF Low, Falls
    <2>2. Finds(nodes, S, [n \in {0} |-> 0], {0})
      BY DEF Finds, Falls
    <2> QED
      BY <2>1, <2>2, <1>2
  <1>4. x - 1 \in Nat /\ x - 1 \notin T
    BY <1>2, <1>3
  <1>5. PICK f : Finds(nodes, S, f, Low(nodes, e, x - 1))
    BY <1>4
  <1> DEFINE g == [n \in Low(nodes, e, x) |->
                     IF n = 0 \/ n \in S THEN n ELSE f[nodes[n].next]]
  <1>6. ASSUME NEW n \in Low(nodes, e, x), n # 0
        PROVE  /\ n \in 1 .. Len(nodes) /\ nodes[n].next \in Low(nodes, e, x - 1)
               /\ nodes[n].next \in Low(nodes, e, x)
    BY <1>6, <1>2, <1>4 DEF Low, Falls
  <1>7. \A n \in Low(nodes, e, x - 1) : n \in Low(nodes, e, x) /\ f[n] = g[n]
    <2>1. \A n \in Low(nodes, e, x - 1) : n \in Low(nodes, e, x)
      BY <1>2, <1>4 DEF Low, Falls
    <2> QED
      BY <2>1, <1>5 DEF Finds
  <1>8. g \in [Low(nodes, e, x) -> 0 .. Len(nodes)]
    <2>1. \A n \in Low(nodes, e, x) : g[n] \in 0 .. Len(nodes)
      <3>1. TAKE n \in Low(nodes, e, x)
      <3>2. n \in 0 .. Len(nodes)
        BY DEF Low
      <3>3. n # 0 => f[nodes[n].next] \in 0 .. Len(nodes)
        BY <1>6, <1>5 DEF Finds
      <3> QED
        BY <3>2, <3>3
    <2> QED
      BY <2>1
  <1>9. Finds(nodes, S, g, Low(nodes, e, x))
    <2>1. \A n \in Low(nodes, e, x) :
             g[n] = IF n = 0 \/ n \in S THEN n ELSE g[nodes[n].next]
      BY <1>6, <1>7
    <2> QED
      BY <1>8, <2>1 DEF Finds
  <1> QED
    BY <1>2, <1>9

\* Search goes along the chain until it comes to the set or to the end.
LEMMA Searches ==
    ASSUME NEW nodes, NEW B, NEW e, Falls(nodes, B, e), NEW S
    PROVE  \A p \in 0 .. Len(nodes) :
             /\ Search(nodes, p, S) \in 0 .. Len(nodes)
             /\ Search(nodes, p, S) = IF p = 0 \/ p \in S THEN p
                                      ELSE Search(nodes, nodes[p].next, S)
  <1> DEFINE D == 0 .. Len(nodes)
             From == CHOOSE F : F = [n \in 0 .. Len(nodes) |->
                        IF n = 0 \/ n \in S THEN n ELSE F[nodes[n].next]]
  <1>1. Low(nodes, e, B + 1) = D /\ B + 1 \in Nat
    BY DEF Falls, Low
  <1>2. PICK f : Finds(nodes, S, f, D)
    BY <1>1, FindsBelow
  <1>3. f = [n \in 0 .. Len(nodes) |-> IF n = 0 \/ n \in S THEN n ELSE f[nodes[n].next]]
    BY <1>2 DEF Finds
  <1>4. From = [n \in 0 .. Len(nodes) |-> IF n = 0 \/ n \in S THEN n ELSE From[nodes[n].next]]
    BY <1>3
  <1>5. \A p : Search(nodes, p, S) = From[p]
    BY DEF Search
  <1> HIDE DEF From
  <1>6. \A n \in D : From[n] = IF n = 0 \/ n \in S THEN n ELSE From[nodes[n].next]
    BY <1>4
  <1>7. \A n \in 1 .. Len(nodes) : nodes[n].next \in D
    BY DEF Falls
  <1>8. \A n \in D : From[n] \in D
    <2> DEFINE T == {x \in Nat : \E n \in 1 .. Len(nodes) : e[n] = x /\ From[n] \notin D}
    <2>1. From[0] = 0
      BY <1>6 DEF Falls
    <2>2. SUFFICES ASSUME T # {}
                   PROVE  FALSE
      BY <2>1 DEF Falls
    <2>3. PICK x \in T : \A y \in T : x <= y
      BY <2>2, Least
    <2>4. PICK n \in 1 .. Len(nodes) : e[n] = x /\ From[n] \notin D
      BY <2>3
    <2>5. From[n] = From[nodes[n].next] /\ nodes[n].next # 0
      BY <2>1, <2>4, <1>6, <1>7
    <2>6. e[nodes[n].next] \in T /\ e[nodes[n].next] < x
      BY <2>4, <2>5, <1>7 DEF Falls
    <2> QED
      BY <2>3, <2>6
  <1> QED
    BY <1>5, <1>6, <1>7, <1>8

\* The search depends on the links and the set only.
LEMMA SearchSame ==
    ASSUME NEW nodes, NEW B, NEW e, Falls(nodes, B, e), NEW S,
           NEW other, Len(other) = Len(nodes),
           \A n \in 1 .. Len(nodes) : other[n].next = nodes[n].next
    PROVE  \A p \in 0 .. Len(nodes) : Search(other, p, S) = Search(nodes, p, S)
  <1>1. Falls(other, B, e)
    BY DEF Falls
  <1> DEFINE T == {x \in Nat : \E n \in 1 .. Len(nodes) :
                      e[n] = x /\ Search(other, n, S) # Search(nodes, n, S)}
             a(n) == Search(nodes, n, S)
             b(n) == Search(other, n, S)
  <1>2. \A n \in 0 .. Len(nodes) : a(n) = IF n = 0 \/ n \in S THEN n ELSE a(nodes[n].next)
    BY Searches
  <1>3. \A n \in 0 .. Len(nodes) : b(n) = IF n = 0 \/ n \in S THEN n ELSE b(other[n].next)
    BY <1>1, Searches
  <1>4. a(0) = b(0)
    BY <1>2, <1>3 DEF Falls
  <1>5. SUFFICES ASSUME T # {}
                 PROVE  FALSE
    BY <1>4 DEF Falls
  <1>6. PICK x \in T : \A y \in T : x <= y
    BY <1>5, Least
  <1>7. PICK n \in 1 .. Len(nodes) : e[n] = x /\ b(n) # a(n)
    BY <1>6
  <1> DEFINE m == nodes[n].next
  <1>8. m \in 0 .. Len(nodes) /\ (m # 0 => e[m] < x /\ e[m] \in Nat)
    BY <1>7 DEF Falls
  <1> HIDE DEF a, b
  <1>9. a(m) # b(m) /\ m # 0
    BY <1>2, <1>3, <1>4, <1>7
  <1>10. e[m] \in T
    BY <1>8, <1>9 DEF a, b
  <1> QED
    BY <1>6, <1>8, <1>9, <1>10

\* What the search finds is in the set.
LEMMA FindsIn ==
    ASSUME NEW nodes, NEW B, NEW e, Falls(nodes, B, e), NEW S, NEW h \in 1 .. Len(nodes)
    PROVE  Search(nodes, h, S) = 0 \/ Search(nodes, h, S) \in S \cap 1 .. Len(nodes)
  <1> DEFINE a(x) == Search(nodes, x, S)
             U == {z \in Nat : \E x \in 1 .. Len(nodes) : e[x] = z /\ a(x) # 0 /\ a(x) \notin S}
  <1>1. \A x \in 0 .. Len(nodes) : /\ a(x) \in 0 .. Len(nodes)
                                   /\ a(x) = IF x = 0 \/ x \in S THEN x ELSE a(nodes[x].next)
    BY Searches
  <1> HIDE DEF a
  <1>2. U = {}
    <2>1. SUFFICES ASSUME U # {}
                   PROVE  FALSE
      OBVIOUS
    <2>2. PICK y \in U : \A z \in U : y <= z
      BY <2>1, Least
    <2>3. PICK x \in 1 .. Len(nodes) : e[x] = y /\ a(x) # 0 /\ a(x) \notin S
      BY <2>2
    <2>4. a(x) = a(nodes[x].next) /\ nodes[x].next \in 0 .. Len(nodes)
      BY <2>3, <1>1 DEF Falls
    <2>5. nodes[x].next # 0
      BY <2>3, <2>4, <1>1
    <2>6. e[nodes[x].next] \in U /\ e[nodes[x].next] < y
      BY <2>3, <2>4, <2>5 DEF Falls
    <2> QED
      BY <2>2, <2>6
  <1>3. a(h) = 0 \/ a(h) \in S
    BY <1>2 DEF Falls
  <1> QED
    BY <1>1, <1>3 DEF a, Falls

\* R relates h to the nodes that its chain reaches.
Reached(nodes, e, R) ==
  \A h, n \in 1 .. Len(nodes) : <<h, n>> \in R /\ n # h =>
    /\ e[n] < e[h]
    /\ \E m \in 1 .. Len(nodes) : <<h, m>> \in R /\ nodes[m].next = n

\* The search from h finds the first of the nodes that h reaches.
LEMMA FindsFirst ==
    ASSUME NEW nodes, NEW B, NEW e, Falls(nodes, B, e), NEW R, Reached(nodes, e, R), NEW S,
           NEW h \in 1 .. Len(nodes), NEW n \in 1 .. Len(nodes), <<h, n>> \in R, n \in S
    PROVE  /\ Search(nodes, h, S) \in S \cap 1 .. Len(nodes)
           /\ Search(nodes, h, S) = n \/ e[n] < e[Search(nodes, h, S)]
  <1> DEFINE a(x) == Search(nodes, x, S)
             m == a(h)
             Bad(x) == <<h, x>> \in R /\ a(x) # m /\ ~(m # 0 /\ e[x] < e[m])
             T == {y \in Nat : \E x \in 1 .. Len(nodes) : B - e[x] = y /\ Bad(x)}
  <1>1. \A x \in 0 .. Len(nodes) : /\ a(x) \in 0 .. Len(nodes)
                                   /\ a(x) = IF x = 0 \/ x \in S THEN x ELSE a(nodes[x].next)
    BY Searches
  <1> HIDE DEF a
  <1>2. T = {}
    <2>1. SUFFICES ASSUME T # {}
                   PROVE  FALSE
      OBVIOUS
    <2>2. PICK y \in T : \A z \in T : y <= z
      BY <2>1, Least
    <2>3. PICK x \in 1 .. Len(nodes) : B - e[x] = y /\ Bad(x)
      BY <2>2
    <2>4. x # h
      BY <2>3
    <2>5. PICK w \in 1 .. Len(nodes) : <<h, w>> \in R /\ nodes[w].next = x
      BY <2>3, <2>4 DEF Reached
    <2>6. e[x] < e[w] /\ e[x] \in Nat /\ e[w] \in Nat /\ e[w] <= B /\ B \in Nat
      <3>1. e \in [1 .. Len(nodes) -> 0 .. B] /\ x # 0 /\ B \in Nat
        BY DEF Falls
      <3>2. e[nodes[w].next] < e[w]
        BY <3>1, <2>5 DEF Falls
      <3> QED
        BY ONLY <3>1, <3>2, <2>5, x \in 1 .. Len(nodes), w \in 1 .. Len(nodes)
    <2>7. B - e[w] \in Nat /\ B - e[w] < y
      BY ONLY <2>3, <2>6
    <2>8. ~Bad(w)
      <3> HIDE DEF Bad
      <3>1. B - e[w] \notin T
        BY ONLY <2>2, <2>7, T \in SUBSET Nat
      <3> QED
        BY <3>1, <2>7
    <2>9. m \in 0 .. Len(nodes) /\ (m # 0 => e[m] \in Nat)
      BY <1>1 DEF Falls
    <2>10. CASE a(w) = m
      <3>1. CASE w \in S
        <4>1. m = w
          BY <3>1, <2>10, <1>1
        <4> QED
          BY <4>1, <2>3, <2>6
      <3>2. CASE w \notin S
        <4>1. a(w) = a(x)
          BY <3>2, <2>5, <1>1
        <4> QED
          BY <4>1, <2>10, <2>3
      <3> QED
        BY <3>1, <3>2
    <2>11. CASE m # 0 /\ e[w] < e[m]
      BY <2>11, <2>3, <2>6, <2>9
    <2> QED
      BY <2>5, <2>8, <2>10, <2>11
  <1>3. B - e[n] \in Nat
    BY DEF Falls
  <1>4. ~Bad(n)
    BY <1>2, <1>3
  <1>5. a(n) = n
    BY <1>1
  <1>6. m # 0 /\ (m = n \/ e[n] < e[m])
    BY <1>4, <1>5
  <1>7. m \in S
    BY FindsIn, <1>6 DEF a
  <1>8. m \in 1 .. Len(nodes)
    BY <1>1, <1>6 DEF Falls
  <1> QED
    BY <1>6, <1>7, <1>8 DEF a

------------------------------------------------------------------------------
(* Reading *)

\* The types of a table's fields, cut out of Shaped once.
LEMMA Parts ==
    ASSUME NEW tb, Shaped(tb)
    PROVE  /\ sizenode(tb) \in Nat \ {0} /\ sizearray(tb) \in Nat
           /\ Len(tb.node) = sizenode(tb) /\ tb.array \in Seq(Value \cup {Nil})
           /\ \A n \in Nodes(tb) : tb.node[n] \in Slots
           /\ \A i \in 1 .. sizearray(tb) : tb.array[i] \in Value \cup {Nil}
  <1>1. tb.node \in Seq(Slots) /\ tb.array \in Seq(Value \cup {Nil})
    BY DEF Shaped, Tables
  <1>2. PICK p \in Nat : sizenode(tb) = twoto[p]
    BY DEF Shaped
  <1>3. sizenode(tb) \in Nat /\ sizenode(tb) > p
    BY <1>2, Grows
  <1> QED
    BY <1>1, <1>3 DEF sizenode, sizearray, Nodes

\* A main position is a node; it depends on how many there are.
LEMMA MainIn ==
    ASSUME hash \in Hashes, NEW tb, sizenode(tb) \in Nat \ {0}, NEW k \in DOMAIN hash
    PROVE  mainposition(tb, k) \in Nodes(tb)
  <1>1. hash[k] \in Nat
    BY TableAssumption
  <1>2. ASSUME NEW a \in Nat, NEW b \in Nat \ {0}
        PROVE  a % b \in 0 .. (b - 1)
    BY <1>2
  <1> DEFINE m == IF k \in StringKeys THEN sizenode(tb)
                  ELSE IF sizenode(tb) = 1 THEN 1 ELSE sizenode(tb) - 1
  <1>3. m \in Nat \ {0} /\ m <= sizenode(tb)
    OBVIOUS
  <1>4. mainposition(tb, k) = (hash[k] % m) + 1
    BY DEF mainposition
  <1> HIDE DEF m
  <1>5. hash[k] % m \in 0 .. (m - 1)
    BY <1>1, <1>2, <1>3
  <1> QED
    BY <1>3, <1>4, <1>5 DEF Nodes

\* The main position depends on the table through its number of nodes alone.
LEMMA MainSame ==
    ASSUME NEW tb, NEW tb2, sizenode(tb2) = sizenode(tb)
    PROVE  \A k : mainposition(tb2, k) = mainposition(tb, k)
  BY DEF mainposition

\* The chains of a table meet the hypotheses of the lemmas on Search.
LEMMA Ranked ==
    ASSUME NEW tb, Shaped(tb), Held(tb), NEW B, NEW e, NEW R, Chained(tb, B, e, R)
    PROVE  Falls(tb.node, B, e) /\ Reached(tb.node, e, R)
  <1>1. Len(tb.node) = sizenode(tb) /\ sizenode(tb) \in Nat
    BY Parts
  <1> QED
    BY <1>1 DEF Falls, Reached, Chained, Held, Nodes

\* The key is one of an entry of the array part.
InArray(tb, k) == k \in IntKeys /\ k <= sizearray(tb)

\* luaH_get finds the one live node of the key.
LEMMA Looks ==
    ASSUME hash \in Hashes, NEW tb, Sound(tb), NEW k \in DOMAIN hash
    PROVE  /\ InArray(tb, k) => luaH_get(tb, k) = <<"array", k>>
           /\ ~InArray(tb, k) =>
                /\ \A n \in HasKey(tb, k) : luaH_get(tb, k) = <<"node", n>>
                /\ HasKey(tb, k) = {} => luaH_get(tb, k) = NoSlot
  <1>1. PICK B, e, R : Chained(tb, B, e, R)
    BY DEF Sound
  <1>2. Falls(tb.node, B, e) /\ Reached(tb.node, e, R)
    BY <1>1, Ranked DEF Sound
  <1>3. sizenode(tb) \in Nat \ {0} /\ Len(tb.node) = sizenode(tb)
    BY Parts DEF Sound
  <1> DEFINE p == mainposition(tb, k)
             f == Search(tb.node, p, HasKey(tb, k))
  <1>4. p \in 1 .. Len(tb.node)
    BY <1>3, MainIn DEF Nodes
  <1>5. k # Nil
    BY TableAssumption
  <1>6. luaH_get(tb, k) = IF InArray(tb, k) THEN <<"array", k>>
                          ELSE IF f = 0 THEN NoSlot ELSE <<"node", f>>
    BY DEF luaH_get, InArray
  <1>7. f = 0 \/ f \in HasKey(tb, k)
    BY <1>2, <1>4, FindsIn
  <1>8. ASSUME NEW n \in HasKey(tb, k)
        PROVE  f = n
    <2>1. n \in Nodes(tb) /\ tb.node[n].key = k /\ ~tb.node[n].dead
      BY DEF HasKey, Nodes
    <2>2. <<p, n>> \in R
      BY <2>1, <1>1, <1>5 DEF Chained
    <2>3. f \in HasKey(tb, k)
      BY <2>1, <2>2, <1>2, <1>3, <1>4, FindsFirst DEF Nodes
    <2>4. f \in Nodes(tb) /\ tb.node[f].key = k /\ ~tb.node[f].dead
      BY <2>3 DEF HasKey, Nodes
    <2> HIDE DEF f
    <2> QED
      BY <2>1, <2>4, <1>5 DEF Sound, Apart
  <1>9. \A n \in HasKey(tb, k) : n # 0
    BY <1>3 DEF HasKey
  <1> HIDE DEF f
  <1> QED
    BY <1>6, <1>7, <1>8, <1>9

\* What the parts of the table say of a key.
Holds(tb, k, v) ==
  IF InArray(tb, k) THEN tb.array[k] = v
  ELSE \E n \in Nodes(tb) : tb.node[n].key = k /\ tb.node[n].val = v

\* luaH_get reads the entry that holds the key, and Nil where none does.
LEMMA Reads ==
    ASSUME hash \in Hashes, NEW tb, Sound(tb), NEW k \in DOMAIN hash
    PROVE  /\ Get(tb, k) \in Value \cup {Nil}
           /\ luaH_get(tb, k) = NoSlot => Get(tb, k) = Nil
           /\ \A v : v # Nil => (Get(tb, k) = v <=> Holds(tb, k, v))
  <1>1. \A n \in Nodes(tb) : tb.node[n] \in Slots
    BY Parts DEF Sound
  <1>2. CASE InArray(tb, k)
    <2>1. luaH_get(tb, k) = <<"array", k>>
      BY <1>2, Looks
    <2>2. Get(tb, k) = tb.array[k]
      BY <2>1 DEF Get, At
    <2>3. k \in 1 .. sizearray(tb)
      BY <1>2, TableAssumption, Parts DEF InArray, Sound
    <2>4. tb.array[k] \in Value \cup {Nil}
      BY <2>3, Parts DEF Sound
    <2> QED
      BY <1>2, <2>1, <2>2, <2>4 DEF Holds, NoSlot
  <1>3. CASE ~InArray(tb, k) /\ HasKey(tb, k) = {}
    <2>1. luaH_get(tb, k) = NoSlot
      BY <1>3, Looks
    <2>2. Get(tb, k) = Nil
      BY <2>1 DEF Get, At, NoSlot
    <2>3. \A n \in Nodes(tb) : tb.node[n].key = k => tb.node[n].val = Nil
      BY <1>3 DEF HasKey, Nodes, Sound, Held
    <2> QED
      BY <1>3, <2>2, <2>3 DEF Holds
  <1>4. CASE ~InArray(tb, k) /\ HasKey(tb, k) # {}
    <2>1. PICK n \in HasKey(tb, k) : TRUE
      BY <1>4
    <2>2. luaH_get(tb, k) = <<"node", n>>
      BY <1>4, Looks
    <2>3. Get(tb, k) = tb.node[n].val
      BY <2>2 DEF Get, At
    <2>4. n \in Nodes(tb) /\ tb.node[n].key = k /\ ~tb.node[n].dead
      BY DEF HasKey, Nodes
    <2>5. \A m \in Nodes(tb) : tb.node[m].key = k /\ tb.node[m].val # Nil => m \in HasKey(tb, k)
      BY DEF HasKey, Nodes, Sound, Held
    <2>6. \A m \in HasKey(tb, k) : m = n
      <3>1. TAKE m \in HasKey(tb, k)
      <3>2. luaH_get(tb, k) = <<"node", m>>
        BY <1>4, Looks
      <3> QED
        BY <2>2, <3>2
    <2>7. tb.node[n].val \in Value \cup {Nil}
      BY <2>4, <1>1 DEF Slots
    <2>8. luaH_get(tb, k) # NoSlot
      BY <2>2 DEF NoSlot
    <2> QED
      BY <1>4, <2>3, <2>4, <2>5, <2>6, <2>7, <2>8 DEF Holds
  <1> QED
    BY <1>2, <1>3, <1>4

\* Two tables that hold the same for a key read the same.
LEMMA ReadsSame ==
    ASSUME hash \in Hashes, NEW tb, Sound(tb), NEW tb2, Sound(tb2), NEW k \in DOMAIN hash,
           \A v : v # Nil => (Holds(tb, k, v) <=> Holds(tb2, k, v))
    PROVE  Get(tb2, k) = Get(tb, k)
  <1>1. \A v : v # Nil => (Get(tb, k) = v <=> Get(tb2, k) = v)
    BY Reads
  <1> QED
    BY <1>1
------------------------------------------------------------------------------
(* Values that change, and keys that die *)

\* The table tb2 has the keys and the links of tb; nodes may be dead that were not.
Alike(tb, tb2) ==
  /\ tb2 \in Tables /\ tb2.nested = tb.nested
  /\ sizearray(tb2) = sizearray(tb) /\ sizenode(tb2) = sizenode(tb)
  /\ tb2.lastfree = tb.lastfree /\ tb2.dummy = tb.dummy
  /\ \A n \in Nodes(tb) :
       /\ tb2.node[n].key = tb.node[n].key /\ tb2.node[n].next = tb.node[n].next
       /\ tb.node[n].dead => tb2.node[n].dead
       /\ tb2.node[n].dead => tb2.node[n].val = Nil
       /\ tb.node[n].key = Nil => tb2.node[n] = tb.node[n]

\* Marking dead keys, changing values and flags leaves a table sound.
LEMMA SoundAlike ==
    ASSUME hash \in Hashes, NEW tb, Sound(tb), NEW tb2, Alike(tb, tb2),
           \A i \in 1 .. sizearray(tb) : tb2.array[i] # Nil => i \in IntKeys \cap DOMAIN hash
    PROVE  Sound(tb2)
  <1>1. Nodes(tb2) = Nodes(tb) /\ \A k : mainposition(tb2, k) = mainposition(tb, k)
    BY MainSame DEF Alike, Nodes
  <1>2. sizenode(tb) \in Nat \ {0} /\ sizearray(tb) \in Nat
    BY Parts DEF Sound
  <1>3. Shaped(tb2)
    <2>1. 1 \in Nodes(tb)
      BY <1>2 DEF Nodes
    <2>2. tb.dummy => tb2.node[1] = EmptyNode
      BY <2>1 DEF Sound, Shaped, Alike, EmptyNode
    <2>3. ~tb.dummy => \A n \in tb.lastfree .. sizenode(tb) : tb2.node[n].key # Nil
      <3>1. \A n \in tb.lastfree .. sizenode(tb) : n \in Nodes(tb)
        BY <1>2 DEF Sound, Shaped, Nodes
      <3> QED
        BY <3>1 DEF Sound, Shaped, Alike
    <2> QED
      BY <2>2, <2>3 DEF Sound, Shaped, Alike
  <1>4. Held(tb2)
    <2>1. ASSUME NEW n \in Nodes(tb)
          PROVE  /\ tb2.node[n].next \in 0 .. sizenode(tb)
                 /\ tb2.node[n].key \in DOMAIN hash \cup {Nil}
                 /\ tb2.node[n].key = Nil => tb2.node[n].val = Nil /\ tb2.node[n].next = 0
                 /\ tb2.node[n].dead => tb2.node[n].val = Nil
                 /\ tb2.node[n].key \in IntKeys => tb2.node[n].key > sizearray(tb)
      BY <2>1 DEF Sound, Held, Alike
    <2>2. ASSUME NEW n \in Nodes(tb), tb2.node[n].next # 0
          PROVE  tb2.node[tb2.node[n].next].key # Nil
      <3>1. tb.node[n].next \in Nodes(tb) /\ tb.node[tb.node[n].next].key # Nil
        BY <2>2, <1>2 DEF Sound, Held, Alike, Nodes
      <3> QED
        BY <3>1 DEF Alike
    <2> QED
      BY <1>1, <2>1, <2>2 DEF Held, Alike
  <1>5. Apart(tb2)
    BY <1>1 DEF Sound, Apart, Alike
  <1>6. AtHome(tb2)
    <2>1. ASSUME NEW n \in Nodes(tb), tb2.node[n].key # Nil
          PROVE  LET h == mainposition(tb, tb2.node[n].key)
                 IN  tb2.node[h].key # Nil /\ mainposition(tb, tb2.node[h].key) = h
      <3>1. tb2.node[n].key = tb.node[n].key
        BY DEF Alike
      <3>2. tb.node[n].key \in DOMAIN hash
        BY <2>1, <3>1 DEF Sound, Held
      <3>3. mainposition(tb, tb.node[n].key) \in Nodes(tb)
        BY <3>2, <1>2, MainIn
      <3>4. tb2.node[mainposition(tb, tb.node[n].key)].key
              = tb.node[mainposition(tb, tb.node[n].key)].key
        BY <3>3 DEF Alike
      <3> QED
        BY <2>1, <3>1, <3>4 DEF Sound, AtHome
    <2> QED
      BY <1>1, <2>1 DEF AtHome
  <1>7. PICK B, e, R : Chained(tb, B, e, R)
    BY DEF Sound
  <1>8. Chained(tb2, B, e, R)
    <2>1. ASSUME NEW m \in Nodes(tb), NEW n \in Nodes(tb),
                 tb2.node[m].key = tb2.node[n].key, tb2.node[m].key # Nil,
                 tb2.node[m].dead, ~tb2.node[n].dead
          PROVE  e[m] < e[n]
      <3>1. tb.node[m].key = tb.node[n].key /\ tb.node[m].key # Nil /\ m # n /\ ~tb.node[n].dead
        BY <2>1 DEF Alike
      <3>2. tb.node[m].dead
        BY <3>1 DEF Sound, Apart
      <3> QED
        BY <3>1, <3>2, <1>7 DEF Chained
    <2>2. \A n \in Nodes(tb) : tb2.node[n].next # 0 => e[tb2.node[n].next] < e[n]
      BY <1>7 DEF Chained, Alike
    <2>3. \A h, n \in Nodes(tb) : <<h, n>> \in R /\ n # h =>
             /\ e[n] < e[h]
             /\ \E m \in Nodes(tb) : <<h, m>> \in R /\ tb2.node[m].next = n
      <3>1. \A m \in Nodes(tb) : tb2.node[m].next = tb.node[m].next
        BY DEF Alike
      <3>2. \A h, n \in Nodes(tb) : <<h, n>> \in R /\ n # h =>
               /\ e[n] < e[h]
               /\ \E m \in Nodes(tb) : <<h, m>> \in R /\ tb.node[m].next = n
        BY <1>7 DEF Chained
      <3> QED
        BY ONLY <3>1, <3>2
    <2>4. \A n \in Nodes(tb) : tb2.node[n].key # Nil =>
             <<mainposition(tb, tb2.node[n].key), n>> \in R
      BY <1>7 DEF Chained, Alike
    <2>5. B \in Nat /\ e \in [Nodes(tb) -> 0 .. B] /\ R \in SUBSET (Nodes(tb) \X Nodes(tb))
      BY <1>7 DEF Chained
    <2> QED
      BY <1>1, <2>1, <2>2, <2>3, <2>4, <2>5 DEF Chained
  <1> QED
    BY <1>3, <1>4, <1>5, <1>6, <1>8 DEF Sound

\* The places of all keys stay the same when only values change.
LEMMA FindSame ==
    ASSUME hash \in Hashes, NEW tb, Sound(tb), NEW tb2, Alike(tb, tb2), NEW k \in Key \cup {Nil}
    PROVE  k = Nil \/ k \in DOMAIN hash => findindex(tb2, k) = findindex(tb, k)
  <1>1. CASE k = Nil
    BY <1>1 DEF findindex
  <1>2. CASE k \in DOMAIN hash
    <2>1. PICK B, e, R : Chained(tb, B, e, R)
      BY DEF Sound
    <2>2. Falls(tb.node, B, e)
      BY <2>1, Ranked DEF Sound
    <2>3. sizenode(tb) \in Nat \ {0} /\ Len(tb.node) = sizenode(tb)
      BY Parts DEF Sound
    <2>4. Len(tb2.node) = Len(tb.node) /\ sizenode(tb2) = sizenode(tb)
          /\ sizearray(tb2) = sizearray(tb)
      BY DEF Alike, sizenode
    <2>5. \A n \in 1 .. Len(tb.node) : /\ tb2.node[n].next = tb.node[n].next
                                       /\ tb2.node[n].key = tb.node[n].key
      BY <2>3 DEF Alike, Nodes
    <2> DEFINE p == mainposition(tb, k)
               S == {i \in 1 .. sizenode(tb) : tb.node[i].key = k}
    <2>6. p \in 0 .. Len(tb.node) /\ mainposition(tb2, k) = p
      BY <1>2, <2>3, <2>4, MainIn, MainSame DEF Nodes
    <2>7. S = {i \in 1 .. sizenode(tb2) : tb2.node[i].key = k}
      BY <2>3, <2>4, <2>5
    <2> HIDE DEF S, p
    <2>8. Search(tb2.node, p, S) = Search(tb.node, p, S)
      BY <2>2, <2>4, <2>5, <2>6, SearchSame
    <2>9. findindex(tb, k) = IF k = Nil THEN 0
                             ELSE IF k \in IntKeys /\ k <= sizearray(tb) THEN k
                             ELSE IF Search(tb.node, p, S) = 0 THEN -1
                             ELSE sizearray(tb) + Search(tb.node, p, S)
      BY DEF findindex, S, p
    <2>10. findindex(tb2, k) = IF k = Nil THEN 0
                               ELSE IF k \in IntKeys /\ k <= sizearray(tb) THEN k
                               ELSE IF Search(tb2.node, p, S) = 0 THEN -1
                               ELSE sizearray(tb) + Search(tb2.node, p, S)
      BY <2>4, <2>6, <2>7 DEF findindex
    <2> QED
      BY <2>8, <2>9, <2>10
  <1> QED
    BY <1>1, <1>2

\* The assignment to the value of a key that is there.
LEMMA Puts ==
    ASSUME hash \in Hashes, NEW tb, Sound(tb), NEW k \in DOMAIN hash,
           luaH_get(tb, k) # NoSlot, NEW v \in Value \cup {Nil},
           NEW tb2, tb2 = Put(tb, luaH_get(tb, k), v)
    PROVE  /\ Alike(tb, tb2) /\ Sound(tb2) /\ tb2.flags = tb.flags
           /\ \A n \in Nodes(tb) : tb2.node[n].dead = tb.node[n].dead
           /\ \A j \in DOMAIN hash : Get(tb2, j) = IF j = k THEN v ELSE Get(tb, j)
  <1>1. tb \in Tables /\ Shaped(tb) /\ Held(tb) /\ Apart(tb)
    BY DEF Sound, Shaped
  <1>2. /\ sizenode(tb) \in Nat \ {0} /\ sizearray(tb) \in Nat /\ Len(tb.node) = sizenode(tb)
        /\ tb.node \in Seq(Slots) /\ tb.array \in Seq(Value \cup {Nil})
    BY <1>1, Parts DEF Tables
  <1>3. CASE InArray(tb, k)
    <2>1. k \in 1 .. sizearray(tb) /\ k \in IntKeys
      BY <1>3, <1>2, TableAssumption DEF InArray
    <2>2. luaH_get(tb, k) = <<"array", k>>
      BY <1>3, Looks
    <2>3. tb2 = [tb EXCEPT !.array[k] = v]
      BY <2>2 DEF Put
    <2>4. tb2 = [tb EXCEPT !.array = [tb.array EXCEPT ![k] = v]]
      BY <2>3, <1>1 DEF Tables
    <2>5. /\ [tb.array EXCEPT ![k] = v] \in Seq(Value \cup {Nil})
          /\ Len([tb.array EXCEPT ![k] = v]) = Len(tb.array)
          /\ \A i \in 1 .. Len(tb.array) :
               [tb.array EXCEPT ![k] = v][i] = IF i = k THEN v ELSE tb.array[i]
      BY <2>1, <1>2 DEF sizearray
    <2>6. /\ tb2.node = tb.node /\ tb2.array = [tb.array EXCEPT ![k] = v]
          /\ tb2.flags = tb.flags /\ tb2.nested = tb.nested /\ tb2.lastfree = tb.lastfree
          /\ tb2.dummy = tb.dummy /\ tb2 \in Tables
      BY <2>4, <2>5, <1>1 DEF Tables
    <2>7. sizearray(tb2) = sizearray(tb) /\ sizenode(tb2) = sizenode(tb)
      BY <2>5, <2>6 DEF sizearray, sizenode
    <2>8. Alike(tb, tb2)
      BY <2>6, <2>7, <1>1 DEF Alike, Held
    <2>9. Sound(tb2)
      <3>1. \A i \in 1 .. sizearray(tb) : tb2.array[i] # Nil => i \in IntKeys \cap DOMAIN hash
        BY <2>1, <2>5, <2>6, <1>1 DEF Held, sizearray
      <3> QED
        BY <2>8, <3>1, SoundAlike
    <2>10. InArray(tb2, k) /\ tb2.array[k] = v
      BY <1>3, <2>1, <2>5, <2>6, <2>7 DEF InArray, sizearray
    <2>11. Get(tb2, k) = v
      BY <2>9, <2>10, Looks DEF Get, At
    <2>12. ASSUME NEW j \in DOMAIN hash, j # k
           PROVE  Get(tb2, j) = Get(tb, j)
      <3>1. InArray(tb2, j) <=> InArray(tb, j)
        BY <2>7 DEF InArray
      <3>2. InArray(tb, j) => tb2.array[j] = tb.array[j]
        BY <2>5, <2>6, <2>12, <1>2, TableAssumption DEF InArray, sizearray
      <3>3. \A w : Holds(tb, j, w) <=> Holds(tb2, j, w)
        BY <3>1, <3>2, <2>6, <2>7 DEF Holds, Nodes
      <3> QED
        BY <3>3, <2>9, ReadsSame
    <2> QED
      BY <2>6, <2>8, <2>9, <2>11, <2>12
  <1>4. CASE ~InArray(tb, k)
    <2>1. HasKey(tb, k) # {}
      BY <1>4, Looks
    <2>2. PICK n \in HasKey(tb, k) : luaH_get(tb, k) = <<"node", n>>
      BY <1>4, <2>1, Looks
    <2>3. n \in Nodes(tb) /\ tb.node[n].key = k /\ ~tb.node[n].dead /\ tb.node[n] \in Slots
      BY <1>1, Parts DEF HasKey, Nodes
    <2> DEFINE new == [tb.node EXCEPT ![n].val = v]
    <2>4. tb2 = [tb EXCEPT !.node[n].val = v]
      BY <2>2 DEF Put
    <2>5. tb2 = [tb EXCEPT !.node = new]
      BY <2>4, <1>1 DEF Tables
    <2>6. /\ new \in Seq(Slots) /\ Len(new) = Len(tb.node)
          /\ \A i \in 1 .. Len(tb.node) :
               new[i] = IF i = n THEN [tb.node[n] EXCEPT !.val = v] ELSE tb.node[i]
      <3>1. n \in 1 .. Len(tb.node) /\ [tb.node[n] EXCEPT !.val = v] \in Slots
        BY <2>3, <1>2 DEF Slots, Nodes
      <3>2. new = [tb.node EXCEPT ![n] = [tb.node[n] EXCEPT !.val = v]]
        BY <1>2
      <3> QED
        BY <3>1, <3>2, <1>2
    <2> HIDE DEF new
    <2>7. /\ tb2.node = new /\ tb2.array = tb.array
          /\ tb2.flags = tb.flags /\ tb2.nested = tb.nested /\ tb2.lastfree = tb.lastfree
          /\ tb2.dummy = tb.dummy /\ tb2 \in Tables
      BY <2>5, <2>6, <1>1 DEF Tables
    <2>8. sizearray(tb2) = sizearray(tb) /\ sizenode(tb2) = sizenode(tb)
      BY <2>6, <2>7 DEF sizearray, sizenode
    <2>9. ASSUME NEW i \in Nodes(tb)
          PROVE  /\ tb2.node[i].key = tb.node[i].key /\ tb2.node[i].next = tb.node[i].next
                 /\ tb2.node[i].dead = tb.node[i].dead
                 /\ tb2.node[i].val = IF i = n THEN v ELSE tb.node[i].val
                 /\ i # n => tb2.node[i] = tb.node[i]
      BY <2>3, <2>6, <2>7, <1>2 DEF Nodes, Slots
    <2>10. k # Nil
      BY TableAssumption
    <2>11. Alike(tb, tb2)
      BY <2>3, <2>7, <2>8, <2>9, <2>10, <1>1 DEF Alike, Held
    <2>12. Sound(tb2)
      BY <2>11, <2>7, <1>1, SoundAlike DEF Held
    <2>13. \A j : InArray(tb2, j) <=> InArray(tb, j)
      BY <2>8 DEF InArray
    <2>14. n \in HasKey(tb2, k)
      BY <2>3, <2>8, <2>9 DEF HasKey, Nodes
    <2>15. Get(tb2, k) = v
      <3>1. luaH_get(tb2, k) = <<"node", n>>
        BY <2>12, <2>13, <2>14, <1>4, Looks
      <3> QED
        BY <3>1, <2>3, <2>9 DEF Get, At
    <2>16. ASSUME NEW j \in DOMAIN hash, j # k
           PROVE  Get(tb2, j) = Get(tb, j)
      <3>1. \A w : Holds(tb, j, w) <=> Holds(tb2, j, w)
        <4>1. Nodes(tb2) = Nodes(tb)
          BY <2>8 DEF Nodes
        <4>2. \A i \in Nodes(tb) : tb.node[i].key = j => tb2.node[i].val = tb.node[i].val
          BY <2>3, <2>9, <2>16
        <4> QED
          BY <4>1, <4>2, <2>7, <2>9, <2>13 DEF Holds
      <3> QED
        BY <3>1, <2>12, ReadsSame
    <2> QED
      BY <2>7, <2>9, <2>11, <2>12, <2>15, <2>16
  <1> QED
    BY <1>3, <1>4

\* A key that dies is that of an entry without value.
LEMMA Dies ==
    ASSUME hash \in Hashes, NEW tb, Sound(tb), NEW n \in Nodes(tb), tb.node[n].val = Nil,
           tb.node[n].key # Nil, NEW tb2, tb2 = [tb EXCEPT !.node[n].dead = TRUE]
    PROVE  /\ Alike(tb, tb2) /\ Sound(tb2) /\ tb2.flags = tb.flags /\ tb2.array = tb.array
           /\ \A i \in Nodes(tb) : tb2.node[i].val = tb.node[i].val
           /\ \A j \in DOMAIN hash : Get(tb2, j) = Get(tb, j)
  <1>1. tb \in Tables /\ Shaped(tb) /\ Held(tb)
    BY DEF Sound, Shaped
  <1>2. /\ sizenode(tb) \in Nat \ {0} /\ sizearray(tb) \in Nat /\ Len(tb.node) = sizenode(tb)
        /\ tb.node \in Seq(Slots)
    BY <1>1, Parts DEF Tables
  <1>3. tb.node[n] \in Slots /\ n \in 1 .. Len(tb.node)
    BY <1>1, <1>2, Parts DEF Nodes
  <1> DEFINE new == [tb.node EXCEPT ![n].dead = TRUE]
  <1>4. tb2 = [tb EXCEPT !.node = new]
    BY <1>1 DEF Tables
  <1>5. /\ new \in Seq(Slots) /\ Len(new) = Len(tb.node)
        /\ \A i \in 1 .. Len(tb.node) :
             new[i] = IF i = n THEN [tb.node[n] EXCEPT !.dead = TRUE] ELSE tb.node[i]
    <2>1. [tb.node[n] EXCEPT !.dead = TRUE] \in Slots
      BY <1>3 DEF Slots
    <2>2. new = [tb.node EXCEPT ![n] = [tb.node[n] EXCEPT !.dead = TRUE]]
      BY <1>2
    <2> QED
      BY <2>1, <2>2, <1>2, <1>3
  <1> HIDE DEF new
  <1>6. /\ tb2.node = new /\ tb2.array = tb.array
        /\ tb2.flags = tb.flags /\ tb2.nested = tb.nested /\ tb2.lastfree = tb.lastfree
        /\ tb2.dummy = tb.dummy /\ tb2 \in Tables
    BY <1>4, <1>5, <1>1 DEF Tables
  <1>7. sizearray(tb2) = sizearray(tb) /\ sizenode(tb2) = sizenode(tb)
    BY <1>5, <1>6 DEF sizearray, sizenode
  <1>8. ASSUME NEW i \in Nodes(tb)
        PROVE  /\ tb2.node[i].key = tb.node[i].key /\ tb2.node[i].next = tb.node[i].next
               /\ tb2.node[i].val = tb.node[i].val
               /\ tb.node[i].dead => tb2.node[i].dead
               /\ i # n => tb2.node[i] = tb.node[i]
    <2>1. CASE i = n
      <3>1. tb2.node[n] = [tb.node[n] EXCEPT !.dead = TRUE]
        BY <1>3, <1>5, <1>6
      <3> QED
        BY <2>1, <3>1, <1>3 DEF Slots
    <2>2. CASE i # n
      <3>1. tb2.node[i] = tb.node[i]
        BY <2>2, <1>5, <1>6, <1>2 DEF Nodes
      <3> QED
        BY <2>2, <3>1
    <2> QED
      BY <2>1, <2>2
  <1>9. Alike(tb, tb2)
    BY <1>1, <1>6, <1>7, <1>8 DEF Alike, Held
  <1>10. Sound(tb2)
    BY <1>9, <1>6, <1>1, SoundAlike DEF Held
  <1>11. ASSUME NEW j, NEW w
         PROVE  Holds(tb, j, w) <=> Holds(tb2, j, w)
    <2>1. Nodes(tb2) = Nodes(tb) /\ (InArray(tb2, j) <=> InArray(tb, j))
      BY <1>7 DEF Nodes, InArray
    <2>2. (\E i \in Nodes(tb) : tb.node[i].key = j /\ tb.node[i].val = w)
          <=> (\E i \in Nodes(tb) : tb2.node[i].key = j /\ tb2.node[i].val = w)
      BY <1>8
    <2>3. CASE InArray(tb, j)
      BY <2>1, <2>3, <1>6 DEF Holds
    <2>4. CASE ~InArray(tb, j)
      BY <2>1, <2>2, <2>4 DEF Holds
    <2> QED
      BY <2>3, <2>4
  <1>12. \A j \in DOMAIN hash : Get(tb2, j) = Get(tb, j)
    BY <1>10, <1>11, ReadsSame
  <1> QED
    BY <1>6, <1>8, <1>9, <1>10, <1>12
------------------------------------------------------------------------------
(* A new key *)

\* The key k comes to the node p, the others are where s says that they were;
\* what is in its main position stays there, or is the new key.
Moves(tb, tb2, k, p, s) ==
  /\ tb2 \in Tables /\ tb2.array = tb.array /\ sizenode(tb2) = sizenode(tb)
  /\ tb2.flags = tb.flags /\ tb2.dummy = tb.dummy /\ tb2.nested = tb.nested
  /\ p \in Nodes(tb) /\ s \in [Nodes(tb) -> Nodes(tb)]
  /\ tb2.node[p].key = k /\ ~tb2.node[p].dead /\ tb2.node[p].val = Nil
  /\ \A i \in Nodes(tb) : i # p =>
       /\ tb2.node[i].key = tb.node[s[i]].key /\ tb2.node[i].val = tb.node[s[i]].val
       /\ tb2.node[i].dead = tb.node[s[i]].dead
       /\ \A j \in Nodes(tb) : j # p /\ s[i] = s[j] => i = j
  /\ \A m \in Nodes(tb) : tb.node[m].val # Nil => \E i \in Nodes(tb) : i # p /\ s[i] = m
  /\ \A h \in Nodes(tb) : tb.node[h].key # Nil /\ mainposition(tb, tb.node[h].key) = h =>
       IF h = p THEN mainposition(tb, k) = p ELSE s[h] = h
  /\ mainposition(tb, k) # p =>
       LET h == mainposition(tb, k)
       IN  tb2.node[h].key # Nil /\ mainposition(tb, tb2.node[h].key) = h

Links(tb) ==
  \A n \in Nodes(tb) :
    /\ tb.node[n].next \in 0 .. sizenode(tb)
    /\ tb.node[n].key = Nil => tb.node[n].next = 0
    /\ tb.node[n].next # 0 => tb.node[tb.node[n].next].key # Nil
    /\ \A m \in Nodes(tb) : m # n /\ tb.node[m].next = tb.node[n].next => tb.node[m].next = 0

\* The key k was added, in the node p.
Added(tb, tb2, k, p) ==
  /\ Sound(tb2) /\ tb2.array = tb.array /\ sizenode(tb2) = sizenode(tb)
  /\ tb2.flags = tb.flags /\ tb2.dummy = tb.dummy /\ luaH_get(tb2, k) = <<"node", p>>
  /\ \A i \in Nodes(tb) :
       \/ tb2.node[i].key = k /\ ~tb2.node[i].dead
       \/ \E m \in Nodes(tb) : /\ tb2.node[i].key = tb.node[m].key
                               /\ tb2.node[i].dead = tb.node[m].dead
  /\ \A j \in DOMAIN hash : Get(tb2, j) = Get(tb, j)

\* A table whose nodes were rearranged around a new key holds what it held, and the key.
LEMMA Moved ==
    ASSUME hash \in Hashes, NEW tb, Sound(tb), NEW k \in DOMAIN hash, luaH_get(tb, k) = NoSlot,
           NEW tb2, NEW p, NEW s, Moves(tb, tb2, k, p, s),
           Shaped(tb2), Links(tb2), NEW B, NEW e, NEW R, Chained(tb2, B, e, R)
    PROVE  Added(tb, tb2, k, p)
  <1>1. ~InArray(tb, k) /\ HasKey(tb, k) = {} /\ k # Nil
    <2>1. ~InArray(tb, k)
      BY Looks DEF NoSlot
    <2>2. \A n \in HasKey(tb, k) : FALSE
      BY <2>1, Looks DEF NoSlot
    <2> QED
      BY <2>1, <2>2, TableAssumption
  <1>2. \A n \in Nodes(tb) : tb.node[n].key = k => tb.node[n].dead
    BY <1>1 DEF HasKey, Nodes
  <1>3. Nodes(tb2) = Nodes(tb) /\ sizearray(tb2) = sizearray(tb)
        /\ \A j : mainposition(tb2, j) = mainposition(tb, j)
    BY MainSame DEF Moves, Nodes, sizearray
  <1>4. sizenode(tb) \in Nat \ {0} /\ sizearray(tb) \in Nat
    BY Parts DEF Sound
  <1>5. Held(tb2)
    <2>1. \A i \in 1 .. sizearray(tb) : tb2.array[i] # Nil => i \in IntKeys \cap DOMAIN hash
      BY DEF Sound, Held, Moves
    <2>2. ASSUME NEW n \in Nodes(tb)
          PROVE  /\ tb2.node[n].key \in DOMAIN hash \cup {Nil}
                 /\ tb2.node[n].key = Nil => tb2.node[n].val = Nil
                 /\ tb2.node[n].dead => tb2.node[n].val = Nil
                 /\ tb2.node[n].key \in IntKeys => tb2.node[n].key > sizearray(tb)
      <3>1. CASE n = p
        <4>1. k \in IntKeys => k > sizearray(tb)
          BY <1>1, <1>4, TableAssumption DEF InArray
        <4> QED
          BY <3>1, <4>1 DEF Moves
      <3>2. CASE n # p
        <4>1. s[n] \in Nodes(tb) /\ tb2.node[n].key = tb.node[s[n]].key
              /\ tb2.node[n].val = tb.node[s[n]].val /\ tb2.node[n].dead = tb.node[s[n]].dead
          BY <3>2 DEF Moves
        <4> QED
          BY <4>1 DEF Sound, Held
      <3> QED
        BY <3>1, <3>2
    <2> QED
      BY <1>3, <2>1, <2>2 DEF Held, Links
  <1>6. Apart(tb2)
    <2>1. ASSUME NEW m \in Nodes(tb), NEW n \in Nodes(tb), m # n,
                 tb2.node[m].key = tb2.node[n].key, tb2.node[m].key # Nil,
                 ~tb2.node[m].dead, ~tb2.node[n].dead
          PROVE  FALSE
      <3>1. ASSUME NEW i \in Nodes(tb), i # p
            PROVE  /\ s[i] \in Nodes(tb) /\ tb2.node[i].key = tb.node[s[i]].key
                   /\ tb2.node[i].dead = tb.node[s[i]].dead
        BY <3>1 DEF Moves
      <3>2. CASE m = p
        BY <3>2, <2>1, <3>1, <1>2 DEF Moves
      <3>3. CASE n = p
        BY <3>3, <2>1, <3>1, <1>2 DEF Moves
      <3>4. CASE m # p /\ n # p
        <4>1. s[m] # s[n]
          BY <3>4, <2>1 DEF Moves
        <4> QED
          BY <4>1, <3>1, <3>4, <2>1 DEF Sound, Apart
      <3> QED
        BY <3>2, <3>3, <3>4
    <2> QED
      BY <2>1, <1>3 DEF Apart, Links
  <1>7. AtHome(tb2)
    <2>1. ASSUME NEW n \in Nodes(tb), tb2.node[n].key # Nil
          PROVE  LET h == mainposition(tb, tb2.node[n].key)
                 IN  tb2.node[h].key # Nil /\ mainposition(tb, tb2.node[h].key) = h
      <3>1. CASE n = p
        <4>1. tb2.node[n].key = k
          BY <3>1 DEF Moves
        <4>2. CASE mainposition(tb, k) = p
          BY <4>1, <4>2, <3>1, <1>1
        <4>3. CASE mainposition(tb, k) # p
          BY <4>1, <4>3 DEF Moves
        <4> QED
          BY <4>2, <4>3
      <3>2. CASE n # p
        <4> DEFINE j == tb2.node[n].key
                   h == mainposition(tb, j)
        <4>1. s[n] \in Nodes(tb) /\ j = tb.node[s[n]].key
          BY <3>2 DEF Moves
        <4>2. j \in DOMAIN hash
          BY <2>1, <4>1 DEF Sound, Held
        <4>3. h \in Nodes(tb)
          BY <4>2, <1>4, MainIn
        <4>4. tb.node[h].key # Nil /\ mainposition(tb, tb.node[h].key) = h
          BY <4>1, <2>1 DEF Sound, AtHome
        <4> HIDE DEF h
        <4>5. IF h = p THEN mainposition(tb, k) = p ELSE s[h] = h
          BY <4>3, <4>4 DEF Moves
        <4>6. CASE h = p
          <5>1. tb2.node[h].key = k /\ mainposition(tb, k) = h
            BY <4>5, <4>6 DEF Moves
          <5> QED
            BY <5>1, <1>1 DEF h
        <4>7. CASE h # p
          <5>1. tb2.node[h].key = tb.node[h].key
            BY <4>3, <4>5, <4>7 DEF Moves
          <5> QED
            BY <5>1, <4>4 DEF h
        <4> QED
          BY <4>6, <4>7
      <3> QED
        BY <3>1, <3>2
    <2> QED
      BY <2>1, <1>3 DEF AtHome
  <1>8. Sound(tb2)
    BY <1>5, <1>6, <1>7 DEF Sound
  <1>9. luaH_get(tb2, k) = <<"node", p>>
    <2>1. p \in HasKey(tb2, k)
      BY <1>3 DEF Moves, HasKey, Nodes
    <2>2. ~InArray(tb2, k)
      BY <1>1, <1>3 DEF InArray
    <2> QED
      BY <2>1, <2>2, <1>8, Looks
  <1>10. ASSUME NEW j \in DOMAIN hash
         PROVE  Get(tb2, j) = Get(tb, j)
    <2>1. InArray(tb2, j) <=> InArray(tb, j)
      BY <1>3 DEF InArray
    <2>2. ASSUME NEW w, w # Nil
          PROVE  (\E i \in Nodes(tb) : tb.node[i].key = j /\ tb.node[i].val = w)
                 <=> (\E i \in Nodes(tb) : tb2.node[i].key = j /\ tb2.node[i].val = w)
      <3>1. ASSUME NEW i \in Nodes(tb), tb.node[i].key = j, tb.node[i].val = w
            PROVE  \E l \in Nodes(tb) : tb2.node[l].key = j /\ tb2.node[l].val = w
        <4>1. PICK l \in Nodes(tb) : l # p /\ s[l] = i
          BY <3>1, <2>2 DEF Moves
        <4>2. tb2.node[l].key = j /\ tb2.node[l].val = w
          BY <4>1, <3>1 DEF Moves
        <4> QED
          BY <4>2
      <3>2. ASSUME NEW i \in Nodes(tb), tb2.node[i].key = j, tb2.node[i].val = w
            PROVE  \E l \in Nodes(tb) : tb.node[l].key = j /\ tb.node[l].val = w
        <4>1. i # p
          BY <3>2, <2>2 DEF Moves
        <4>2. s[i] \in Nodes(tb) /\ tb.node[s[i]].key = j /\ tb.node[s[i]].val = w
          BY <4>1, <3>2 DEF Moves
        <4> QED
          BY <4>2
      <3> QED
        BY <3>1, <3>2
    <2>3. ASSUME NEW w, w # Nil
          PROVE  Holds(tb, j, w) <=> Holds(tb2, j, w)
      <3>1. CASE InArray(tb, j)
        BY <3>1, <2>1 DEF Holds, Moves
      <3>2. CASE ~InArray(tb, j)
        BY <3>2, <2>1, <2>2, <2>3, <1>3 DEF Holds
      <3> QED
        BY <3>1, <3>2
    <2> QED
      BY <2>3, <1>8, ReadsSame
  <1>11. ASSUME NEW i \in Nodes(tb)
         PROVE  \/ tb2.node[i].key = k /\ ~tb2.node[i].dead
                \/ \E m \in Nodes(tb) : /\ tb2.node[i].key = tb.node[m].key
                                        /\ tb2.node[i].dead = tb.node[m].dead
    BY DEF Moves
  <1> QED
    BY <1>8, <1>9, <1>10, <1>11 DEF Added, Moves
\* A node that is given a key.
WithKey(new, p, k) == [new EXCEPT ![p].key = k, ![p].dead = FALSE]

\* What a node that is given a key holds.
LEMMA Keyed ==
    ASSUME NEW new \in Seq(Slots), NEW p \in 1 .. Len(new), NEW k \in Key,
           NEW r, r = WithKey(new, p, k)
    PROVE  /\ r \in Seq(Slots) /\ Len(r) = Len(new)
           /\ r[p] = [key |-> k, dead |-> FALSE, val |-> new[p].val, next |-> new[p].next]
           /\ \A i \in 1 .. Len(new) : i # p => r[i] = new[i]
  <1> DEFINE x == [new[p] EXCEPT !.key = k]
             y == [key |-> k, dead |-> FALSE, val |-> new[p].val, next |-> new[p].next]
  <1>1. new[p] \in Slots /\ DOMAIN new = 1 .. Len(new) /\ Len(new) \in Nat
    OBVIOUS
  <1>2. /\ x = [key |-> k, dead |-> new[p].dead, val |-> new[p].val, next |-> new[p].next]
        /\ x \in Slots /\ y \in Slots
    BY <1>1 DEF Slots
  <1> HIDE DEF x
  <1>3. [x EXCEPT !.dead = FALSE] = y
    <2>1. [x EXCEPT !.dead = FALSE] =
            [key |-> x.key, dead |-> FALSE, val |-> x.val, next |-> x.next]
      <3>1. x \in Slots
        BY <1>2
      <3> DEFINE z == [x EXCEPT !.dead = FALSE]
      <3>2. z \in Slots /\ z.key = x.key /\ ~z.dead /\ z.val = x.val /\ z.next = x.next
        BY ONLY <3>1 DEF Slots
      <3> HIDE DEF z
      <3>3. \A b \in BOOLEAN : ~b => b = FALSE
        OBVIOUS
      <3>4. z.dead \in BOOLEAN
        BY ONLY <3>2 DEF Slots
      <3>5. z = [key |-> z.key, dead |-> z.dead, val |-> z.val, next |-> z.next]
        BY ONLY <3>2 DEF Slots
      <3>6. z.dead = FALSE
        BY <3>2, <3>3, <3>4
      <3> QED
        BY <3>2, <3>5, <3>6 DEF z
    <2>2. x.key = k /\ x.val = new[p].val /\ x.next = new[p].next
      BY ONLY <1>2
    <2> QED
      BY <2>1, <2>2
  <1>4. r = [new EXCEPT ![p] = y]
    <2>1. [new EXCEPT ![p].key = k] = [new EXCEPT ![p] = x]
      BY DEF x
    <2>2. r = [[new EXCEPT ![p] = x] EXCEPT ![p].dead = FALSE]
      BY <2>1 DEF WithKey
    <2>3. [new EXCEPT ![p] = x][p] = x
      OBVIOUS
    <2> HIDE DEF y
    <2> QED
      BY <2>2, <2>3, <1>3
  <1>5. y \in Slots
    BY <1>2
  <1> HIDE DEF y
  <1>6. r \in Seq(Slots) /\ Len(r) = Len(new) /\ r[p] = y
        /\ \A i \in 1 .. Len(new) : i # p => r[i] = new[i]
    BY ONLY <1>1, <1>4, <1>5, p \in 1 .. Len(new), new \in Seq(Slots)
  <1> QED
    BY <1>6 DEF y

\* The fields of a table whose nodes are replaced.
WithNodes(tb, last, new) == [tb EXCEPT !.lastfree = last, !.node = new]

\* The fields of a table whose nodes are replaced.
LEMMA Rebuilt ==
    ASSUME NEW tb \in Tables, NEW new \in Seq(Slots), Len(new) = sizenode(tb), NEW last \in Nat,
           NEW tb2, tb2 = WithNodes(tb, last, new)
    PROVE  /\ tb2 \in Tables /\ tb2.array = tb.array /\ sizenode(tb2) = sizenode(tb)
           /\ tb2.flags = tb.flags /\ tb2.dummy = tb.dummy /\ tb2.nested = tb.nested
           /\ tb2.lastfree = last /\ tb2.node = new
  BY DEF Tables, sizenode, WithNodes

\* What is known when a key is added.
Adding(tb, k) ==
  /\ hash \in Hashes /\ Sound(tb) /\ k \in DOMAIN hash /\ luaH_get(tb, k) = NoSlot /\ ~tb.dummy

\* A key that luaH_get does not find is, at most, the dead key of some node.
LEMMA Absent ==
    ASSUME NEW tb, NEW k, Adding(tb, k)
    PROVE  /\ k # Nil /\ k \in Key /\ k \in DOMAIN hash
           /\ \A n \in Nodes(tb) : tb.node[n].key = k => tb.node[n].dead
           /\ mainposition(tb, k) \in Nodes(tb)
           /\ tb \in Tables /\ tb.node \in Seq(Slots) /\ Len(tb.node) = sizenode(tb)
           /\ sizenode(tb) \in Nat \ {0} /\ sizearray(tb) \in Nat
           /\ Shaped(tb) /\ Held(tb) /\ Apart(tb) /\ AtHome(tb)
           /\ \A n \in Nodes(tb) : tb.node[n] \in Slots
  <1>1. ~InArray(tb, k) /\ k # Nil /\ k \in Key
    BY Looks, TableAssumption DEF NoSlot, Adding
  <1>2. \A n \in HasKey(tb, k) : FALSE
    BY <1>1, Looks DEF NoSlot, Adding
  <1>3. \A n \in Nodes(tb) : tb.node[n].key = k => tb.node[n].dead
    BY <1>2 DEF HasKey, Nodes
  <1>4. Shaped(tb) /\ Held(tb) /\ Apart(tb) /\ AtHome(tb) /\ tb \in Tables
    BY DEF Adding, Sound, Shaped
  <1>5. /\ sizenode(tb) \in Nat \ {0} /\ sizearray(tb) \in Nat /\ Len(tb.node) = sizenode(tb)
        /\ \A n \in Nodes(tb) : tb.node[n] \in Slots
    BY <1>4, Parts
  <1>6. mainposition(tb, k) \in Nodes(tb)
    BY <1>5, MainIn DEF Adding
  <1> QED
    BY <1>1, <1>3, <1>4, <1>5, <1>6 DEF Adding, Tables

\* The main position has no value: the key takes it.
LEMMA TakesPlace ==
    ASSUME NEW tb, NEW k, Adding(tb, k), NEW mp, mp = mainposition(tb, k),
           tb.node[mp].val = Nil, NEW tb2,
           tb2 = WithNodes(tb, tb.lastfree, WithKey(tb.node, mp, k))
    PROVE  Added(tb, tb2, k, mp)
  <1> DEFINE N == sizenode(tb)
             new == WithKey(tb.node, mp, k)
             s == [i \in Nodes(tb) |-> i]
  <1>1. /\ k # Nil /\ k \in Key /\ k \in DOMAIN hash /\ mp \in Nodes(tb)
        /\ \A n \in Nodes(tb) : tb.node[n].key = k => tb.node[n].dead
        /\ tb \in Tables /\ tb.node \in Seq(Slots) /\ Len(tb.node) = N
        /\ N \in Nat \ {0} /\ Shaped(tb) /\ Held(tb) /\ Apart(tb) /\ AtHome(tb)
    BY Absent
  <1>2. /\ new \in Seq(Slots) /\ Len(new) = N
        /\ new[mp] = [key |-> k, dead |-> FALSE, val |-> Nil, next |-> tb.node[mp].next]
        /\ \A i \in Nodes(tb) : i # mp => new[i] = tb.node[i]
    <2>1. mp \in 1 .. Len(tb.node) /\ Nodes(tb) = 1 .. Len(tb.node)
      BY <1>1 DEF Nodes
    <2>2. mp \in 1 .. Len(tb.node) /\ tb.node \in Seq(Slots) /\ k \in Key
      BY <1>1, <2>1
    <2> HIDE DEF new
    <2>3. /\ new \in Seq(Slots) /\ Len(new) = Len(tb.node)
          /\ new[mp] = [key |-> k, dead |-> FALSE, val |-> tb.node[mp].val,
                        next |-> tb.node[mp].next]
          /\ \A i \in 1 .. Len(tb.node) : i # mp => new[i] = tb.node[i]
      <3>1. new = WithKey(tb.node, mp, k)
        BY DEF new
      <3> QED
        BY ONLY <3>1, <2>2, Keyed
    <2> QED
      BY <1>1, <2>1, <2>3
  <1> HIDE DEF new
  <1>3. tb.lastfree \in Nat
    BY <1>1 DEF Tables
  <1>4. /\ tb2 \in Tables /\ tb2.array = tb.array /\ sizenode(tb2) = sizenode(tb)
        /\ tb2.flags = tb.flags /\ tb2.dummy = tb.dummy /\ tb2.nested = tb.nested
        /\ tb2.lastfree = tb.lastfree /\ tb2.node = new
    <2>1. tb2 = WithNodes(tb, tb.lastfree, new)
      BY DEF new
    <2>2. tb \in Tables /\ new \in Seq(Slots) /\ Len(new) = sizenode(tb)
      BY <1>1, <1>2
    <2> QED
      BY ONLY <2>1, <2>2, <1>3, Rebuilt
  <1>5. Nodes(tb2) = Nodes(tb) /\ \A j : mainposition(tb2, j) = mainposition(tb, j)
    BY <1>4, MainSame DEF Nodes
  <1>6. /\ \A i \in Nodes(tb) : /\ i # mp => tb2.node[i] = tb.node[i]
                                /\ tb2.node[i].next = tb.node[i].next
        /\ tb2.node[mp].key = k /\ tb2.node[mp].dead = FALSE /\ tb2.node[mp].val = Nil
    BY <1>2, <1>4
  <1>7. Moves(tb, tb2, k, mp, s)
    BY <1>1, <1>4, <1>6 DEF Moves
  <1>8. Shaped(tb2)
    <2>1. \A n \in tb.lastfree .. N : n \in Nodes(tb)
      BY <1>1 DEF Shaped, Nodes
    <2>2. \A n \in tb.lastfree .. N : tb2.node[n].key # Nil
      BY <2>1, <1>1, <1>6 DEF Shaped, Adding
    <2> QED
      BY <2>2, <1>1, <1>4 DEF Shaped, Adding
  <1>9. Links(tb2)
    <2>1. ASSUME NEW n \in Nodes(tb), tb.node[n].next # 0
          PROVE  tb2.node[tb.node[n].next].key # Nil
      <3>1. tb.node[n].next \in Nodes(tb) /\ tb.node[tb.node[n].next].key # Nil
        BY <2>1, <1>1 DEF Held, Nodes
      <3> QED
        BY <3>1, <1>1, <1>6
    <2>2. ASSUME NEW n \in Nodes(tb)
          PROVE  /\ tb.node[n].next \in 0 .. N
                 /\ tb2.node[n].key = Nil => tb.node[n].next = 0
                 /\ \A m \in Nodes(tb) :
                      m # n /\ tb.node[m].next = tb.node[n].next => tb.node[m].next = 0
      BY <1>1, <1>6 DEF Held, Apart
    <2>3. sizenode(tb2) = N /\ \A n \in Nodes(tb) : tb2.node[n].next = tb.node[n].next
      BY <1>4, <1>6
    <2> QED
      BY ONLY <2>1, <2>2, <2>3, <1>5 DEF Links
  <1>10. PICK B, e, R : Chained(tb, B, e, R)
    BY DEF Sound, Adding
  <1> DEFINE R2 == R \cup {<<mp, mp>>}
  <1>11. Chained(tb2, B, e, R2)
    <2>1. B \in Nat /\ e \in [Nodes(tb) -> 0 .. B] /\ R2 \in SUBSET (Nodes(tb) \X Nodes(tb))
      BY <1>1, <1>10 DEF Chained
    <2>2. \A n \in Nodes(tb) : tb2.node[n].next # 0 => e[tb2.node[n].next] < e[n]
      BY <1>6, <1>10 DEF Chained
    <2>3. ASSUME NEW h \in Nodes(tb), NEW n \in Nodes(tb), <<h, n>> \in R2, n # h
          PROVE  e[n] < e[h] /\ \E m \in Nodes(tb) : <<h, m>> \in R2 /\ tb2.node[m].next = n
      <3>1. <<h, n>> \in R
        BY <2>3
      <3>2. e[n] < e[h] /\ \E m \in Nodes(tb) : <<h, m>> \in R /\ tb.node[m].next = n
        BY <3>1, <2>3, <1>10 DEF Chained
      <3> QED
        BY <3>2, <1>6
    <2>4. \A n \in Nodes(tb) : tb2.node[n].key # Nil =>
             <<mainposition(tb, tb2.node[n].key), n>> \in R2
      BY <1>6, <1>10 DEF Chained
    <2>5. ASSUME NEW m \in Nodes(tb), NEW n \in Nodes(tb),
                 tb2.node[m].key = tb2.node[n].key, tb2.node[m].key # Nil,
                 tb2.node[m].dead, ~tb2.node[n].dead
          PROVE  e[m] < e[n]
      <3>1. m # mp /\ tb2.node[m] = tb.node[m] /\ tb.node[m].key # Nil
        BY <2>5, <1>6
      <3>2. CASE n = mp
        <4>1. <<mp, m>> \in R
          BY <3>1, <3>2, <2>5, <1>6, <1>10 DEF Chained
        <4> QED
          BY <4>1, <3>1, <3>2, <1>1, <1>10 DEF Chained
      <3>3. CASE n # mp
        BY <3>1, <3>3, <2>5, <1>6, <1>10 DEF Chained
      <3> QED
        BY <3>2, <3>3
    <2> HIDE DEF R2
    <2> QED
      BY ONLY <1>5, <2>1, <2>2, <2>3, <2>4, <2>5 DEF Chained
  <1> HIDE DEF R2, s
  <1> QED
    BY <1>7, <1>8, <1>9, <1>11, Moved DEF Adding
\* A free place.
Free(tb, n) ==
  /\ n \in Nodes(tb) /\ n < tb.lastfree /\ tb.node[n].key = Nil
  /\ \A i \in Nodes(tb) : n < i /\ i < tb.lastfree => tb.node[i].key # Nil

\* A free node is outside every chain, and every node above it is in use.
LEMMA FreeIs ==
    ASSUME NEW tb, NEW k, Adding(tb, k), NEW n, Free(tb, n)
    PROVE  /\ n \in Nodes(tb) /\ n \in Nat \ {0} /\ n \in 1 .. (sizenode(tb) + 1)
           /\ tb.node[n].key = Nil /\ tb.node[n].next = 0 /\ tb.node[n].val = Nil
           /\ \A i \in Nodes(tb) : tb.node[i].next # n
           /\ \A i \in n .. sizenode(tb) : i \in Nodes(tb) /\ (i # n => tb.node[i].key # Nil)
  <1>1. /\ sizenode(tb) \in Nat \ {0} /\ Shaped(tb) /\ Held(tb) /\ n \in Nodes(tb)
        /\ n < tb.lastfree /\ tb.node[n].key = Nil /\ ~tb.dummy
    BY Absent DEF Free, Adding
  <1>2. tb.node[n].next = 0 /\ tb.node[n].val = Nil
    BY <1>1 DEF Held
  <1>3. n \in Nat \ {0} /\ n \in 1 .. (sizenode(tb) + 1)
    BY <1>1 DEF Nodes
  <1>4. \A i \in Nodes(tb) : tb.node[i].next # n
    BY <1>1, <1>3 DEF Held
  <1>5. ASSUME NEW i \in n .. sizenode(tb)
        PROVE  i \in Nodes(tb) /\ (i # n => tb.node[i].key # Nil)
    <2>1. i \in Nodes(tb) /\ tb.lastfree \in Nat
      BY <1>1, <1>3 DEF Nodes, Shaped, Tables
    <2>2. CASE i < tb.lastfree
      BY <2>1, <2>2, <1>3 DEF Free
    <2>3. CASE ~(i < tb.lastfree)
      <3>1. i \in tb.lastfree .. sizenode(tb)
        BY <2>1, <2>3, <1>3
      <3> QED
        BY <2>1, <3>1, <1>1 DEF Shaped
    <2> QED
      BY <2>2, <2>3
  <1> QED
    BY <1>1, <1>2, <1>3, <1>4, <1>5

\* What the nodes hold after the colliding node has moved out of its place.
LEMMA MovedTo ==
    ASSUME NEW nodes \in Seq(Slots), NEW mp \in 1 .. Len(nodes), NEW prev \in 1 .. Len(nodes),
           NEW n \in 1 .. Len(nodes), mp # prev, mp # n, prev # n,
           NEW r, r = MoveTo(nodes, mp, prev, n)
    PROVE  /\ r \in Seq(Slots) /\ Len(r) = Len(nodes) /\ r[n] = nodes[mp]
           /\ r[prev].key = nodes[prev].key /\ r[prev].val = nodes[prev].val
           /\ r[prev].dead = nodes[prev].dead /\ r[prev].next = n
           /\ r[mp].val = Nil /\ r[mp].next = 0
           /\ \A i \in 1 .. Len(nodes) : i \notin {mp, n, prev} => r[i] = nodes[i]
  <1> DEFINE x == [nodes[prev] EXCEPT !.next = n]
             y == [nodes[mp] EXCEPT !.next = 0]
             z == [y EXCEPT !.val = Nil]
  <1>1. nodes[prev] \in Slots /\ nodes[mp] \in Slots /\ n \in Nat /\ Len(nodes) \in Nat
    OBVIOUS
  <1>2. x \in Slots /\ y \in Slots
    BY <1>1 DEF Slots
  <1>3. /\ x.key = nodes[prev].key /\ x.val = nodes[prev].val
        /\ x.dead = nodes[prev].dead /\ x.next = n /\ y.next = 0
    BY <1>1 DEF Slots
  <1> HIDE DEF y
  <1>4. z \in Slots /\ z.val = Nil /\ z.next = 0
    BY <1>2, <1>3 DEF Slots
  <1>5. r = [i \in 1 .. Len(nodes) |-> IF i = mp THEN z ELSE IF i = n THEN nodes[mp]
                                       ELSE IF i = prev THEN x ELSE nodes[i]]
    <2>1. [nodes EXCEPT ![prev].next = n] = [nodes EXCEPT ![prev] = x]
      OBVIOUS
    <2> DEFINE a == [nodes EXCEPT ![prev] = x]
               b == [a EXCEPT ![n] = nodes[mp]]
               c == [b EXCEPT ![mp] = y]
               d == [c EXCEPT ![mp] = z]
    <2>2. b[mp] = nodes[mp] /\ DOMAIN b = 1 .. Len(nodes)
      OBVIOUS
    <2>3. [b EXCEPT ![mp].next = 0] = c
      BY <2>2 DEF y
    <2>4. c[mp] = y
      BY <2>2
    <2>5. [c EXCEPT ![mp].val = Nil] = d
      BY <2>4
    <2>6. r = [[b EXCEPT ![mp].next = 0] EXCEPT ![mp].val = Nil]
      BY <2>1 DEF MoveTo
    <2>7. r = d
      BY <2>3, <2>5, <2>6
    <2>8. DOMAIN nodes = 1 .. Len(nodes)
      OBVIOUS
    <2> HIDE DEF x, z
    <2> QED
      BY ONLY <2>7, <2>8, mp \in 1 .. Len(nodes), n \in 1 .. Len(nodes),
              prev \in 1 .. Len(nodes), mp # prev, mp # n, prev # n
  <1> HIDE DEF x, z
  <1>6. r \in Seq(Slots) /\ Len(r) = Len(nodes)
    BY <1>1, <1>2, <1>4, <1>5
  <1> QED
    BY <1>3, <1>4, <1>5, <1>6

\* The new node is linked in after the main position.
Linked(nodes, mp, n) == [nodes EXCEPT ![n].next = nodes[mp].next, ![mp].next = n]

\* What the nodes hold after the new node is linked in after its main position.
LEMMA LinkedIn ==
    ASSUME NEW nodes \in Seq(Slots), NEW mp \in 1 .. Len(nodes), NEW n \in 1 .. Len(nodes), mp # n,
           NEW r, r = Linked(nodes, mp, n)
    PROVE  /\ r \in Seq(Slots) /\ Len(r) = Len(nodes)
           /\ r[mp] = [nodes[mp] EXCEPT !.next = n]
           /\ r[n] = [nodes[n] EXCEPT !.next = nodes[mp].next]
           /\ \A i \in 1 .. Len(nodes) : i \notin {mp, n} => r[i] = nodes[i]
  <1> DEFINE x == [nodes[n] EXCEPT !.next = nodes[mp].next]
             y == [nodes[mp] EXCEPT !.next = n]
  <1>1. nodes[n] \in Slots /\ nodes[mp] \in Slots /\ n \in Nat /\ Len(nodes) \in Nat
    OBVIOUS
  <1>2. x \in Slots /\ y \in Slots
    BY <1>1 DEF Slots
  <1>4. r = [i \in 1 .. Len(nodes) |-> IF i = mp THEN y ELSE IF i = n THEN x ELSE nodes[i]]
    <2>1. [nodes EXCEPT ![n].next = nodes[mp].next] = [nodes EXCEPT ![n] = x]
      OBVIOUS
    <2> DEFINE a == [nodes EXCEPT ![n] = x]
    <2>2. a[mp] = nodes[mp] /\ DOMAIN a = 1 .. Len(nodes)
      OBVIOUS
    <2>3. [a EXCEPT ![mp].next = n] = [a EXCEPT ![mp] = y]
      BY <2>2
    <2>4. r = [a EXCEPT ![mp].next = n]
      BY <2>1 DEF Linked
    <2>5. DOMAIN nodes = 1 .. Len(nodes) /\ r = [a EXCEPT ![mp] = y]
      BY <2>3, <2>4
    <2> HIDE DEF x, y
    <2> QED
      BY ONLY <2>5, mp \in 1 .. Len(nodes), n \in 1 .. Len(nodes), mp # n
  <1> HIDE DEF x, y
  <1>5. r \in Seq(Slots) /\ Len(r) = Len(nodes)
    BY <1>1, <1>2, <1>4
  <1>6. r[mp] = y /\ r[n] = x /\ \A i \in 1 .. Len(nodes) : i \notin {mp, n} => r[i] = nodes[i]
    BY <1>1, <1>4
  <1> QED
    BY <1>5, <1>6 DEF x, y
\* The main position holds a key that is not at home: it makes room.
LEMMA MakesRoom ==
    ASSUME NEW tb, NEW k, Adding(tb, k), NEW mp, mp = mainposition(tb, k),
           tb.node[mp].val # Nil, mainposition(tb, tb.node[mp].key) # mp,
           NEW n, Free(tb, n), NEW prev \in Nodes(tb), tb.node[prev].next = mp, NEW tb2,
           tb2 = WithNodes(tb, n, WithKey(MoveTo(tb.node, mp, prev, n), mp, k))
    PROVE  Added(tb, tb2, k, mp)
  <1> DEFINE N == sizenode(tb)
             moved == MoveTo(tb.node, mp, prev, n)
             new == WithKey(moved, mp, k)
             s == [i \in Nodes(tb) |-> IF i = n THEN mp ELSE i]
  <1>1. /\ k # Nil /\ k \in Key /\ k \in DOMAIN hash /\ mp \in Nodes(tb)
        /\ \A i \in Nodes(tb) : tb.node[i].key = k => tb.node[i].dead
        /\ tb \in Tables /\ tb.node \in Seq(Slots) /\ Len(tb.node) = N
        /\ N \in Nat \ {0} /\ Shaped(tb) /\ Held(tb) /\ Apart(tb) /\ AtHome(tb)
    BY Absent
  <1>2. /\ n \in Nodes(tb) /\ n \in Nat \ {0} /\ n \in 1 .. (N + 1)
        /\ tb.node[n].key = Nil /\ tb.node[n].next = 0 /\ tb.node[n].val = Nil
        /\ \A i \in Nodes(tb) : tb.node[i].next # n
        /\ \A i \in n .. N : i \in Nodes(tb) /\ (i # n => tb.node[i].key # Nil)
    BY FreeIs
  <1>3. PICK B, e, R : Chained(tb, B, e, R)
    BY DEF Sound, Adding
  <1>4. mp # n /\ prev # n /\ mp # 0 /\ tb.node[mp].key # Nil /\ tb.node[prev].key # Nil
    BY <1>1, <1>2 DEF Held, Nodes
  <1>5. prev # mp
    <2>1. e[mp] \in Nat /\ e[tb.node[prev].next] < e[prev]
      BY <1>1, <1>3, <1>4 DEF Chained
    <2> QED
      BY <2>1
  <1>6. Nodes(tb) = 1 .. Len(tb.node)
    BY <1>1 DEF Nodes
  <1>7. /\ moved \in Seq(Slots) /\ Len(moved) = Len(tb.node) /\ moved[n] = tb.node[mp]
        /\ moved[prev].key = tb.node[prev].key /\ moved[prev].val = tb.node[prev].val
        /\ moved[prev].dead = tb.node[prev].dead /\ moved[prev].next = n
        /\ moved[mp].val = Nil /\ moved[mp].next = 0
        /\ \A i \in 1 .. Len(tb.node) : i \notin {mp, n, prev} => moved[i] = tb.node[i]
    <2>1. /\ tb.node \in Seq(Slots) /\ mp \in 1 .. Len(tb.node)
          /\ prev \in 1 .. Len(tb.node) /\ n \in 1 .. Len(tb.node)
          /\ mp # prev /\ mp # n /\ prev # n
      BY <1>1, <1>2, <1>4, <1>5, <1>6
    <2> QED
      BY ONLY <2>1, MovedTo
  <1> HIDE DEF moved
  <1>8. /\ new \in Seq(Slots) /\ Len(new) = Len(moved)
        /\ new[mp] = [key |-> k, dead |-> FALSE, val |-> moved[mp].val, next |-> moved[mp].next]
        /\ \A i \in 1 .. Len(moved) : i # mp => new[i] = moved[i]
    <2>1. mp \in 1 .. Len(moved) /\ moved \in Seq(Slots) /\ k \in Key
      BY <1>1, <1>6, <1>7
    <2> QED
      BY ONLY <2>1, Keyed
  <1> HIDE DEF new
  <1>9. /\ tb2 \in Tables /\ tb2.array = tb.array /\ sizenode(tb2) = sizenode(tb)
        /\ tb2.flags = tb.flags /\ tb2.dummy = tb.dummy /\ tb2.nested = tb.nested
        /\ tb2.lastfree = n /\ tb2.node = new
    <2>1. tb2 = WithNodes(tb, n, new)
      BY DEF new, moved
    <2>2. tb \in Tables /\ new \in Seq(Slots) /\ Len(new) = sizenode(tb) /\ n \in Nat
      BY <1>1, <1>2, <1>7, <1>8
    <2> QED
      BY ONLY <2>1, <2>2, Rebuilt
  <1>10. Nodes(tb2) = Nodes(tb) /\ \A j : mainposition(tb2, j) = mainposition(tb, j)
    BY <1>9, MainSame DEF Nodes
  <1>11. /\ tb2.node[mp].key = k /\ ~tb2.node[mp].dead /\ tb2.node[mp].val = Nil
         /\ tb2.node[mp].next = 0 /\ tb2.node[n] = tb.node[mp] /\ tb2.node[prev].next = n
         /\ tb2.node[prev].key = tb.node[prev].key /\ tb2.node[prev].val = tb.node[prev].val
         /\ tb2.node[prev].dead = tb.node[prev].dead
         /\ \A i \in Nodes(tb) : i \notin {mp, n, prev} => tb2.node[i] = tb.node[i]
    BY <1>2, <1>4, <1>5, <1>6, <1>7, <1>8, <1>9
  <1>12. ASSUME NEW i \in Nodes(tb), i # mp
         PROVE  /\ s[i] \in Nodes(tb) /\ s[i] # n /\ tb2.node[i].key = tb.node[s[i]].key
                /\ tb2.node[i].val = tb.node[s[i]].val /\ tb2.node[i].dead = tb.node[s[i]].dead
                /\ tb2.node[i].next = IF i = prev THEN n ELSE tb.node[s[i]].next
                /\ s[i] = IF i = n THEN mp ELSE i
    BY <1>1, <1>4, <1>5, <1>11, <1>12
  <1>13. \A i \in Nodes(tb) : tb.node[i].key # Nil => mainposition(tb, tb.node[i].key) # mp
    <2>1. ASSUME NEW i \in Nodes(tb), tb.node[i].key # Nil, mainposition(tb, tb.node[i].key) = mp
          PROVE  FALSE
      BY <2>1, <1>1 DEF AtHome
    <2> QED
      BY <2>1
  <1>14. \A h \in Nodes(tb) : tb.node[h].key # Nil /\ mainposition(tb, tb.node[h].key) = h =>
            h # mp /\ s[h] = h
    BY <1>2, <1>13
  <1>15. s \in [Nodes(tb) -> Nodes(tb)]
    BY <1>1
  <1> HIDE DEF s
  <1>16. Moves(tb, tb2, k, mp, s)
    <2>1. \A i, j \in Nodes(tb) : i # mp /\ j # mp /\ s[i] = s[j] => i = j
      BY <1>12
    <2>2. ASSUME NEW m \in Nodes(tb), tb.node[m].val # Nil
          PROVE  \E i \in Nodes(tb) : i # mp /\ s[i] = m
      <3>1. CASE m = mp
        BY <3>1, <1>2, <1>4, <1>12
      <3>2. CASE m # mp
        BY <3>2, <2>2, <1>2, <1>12
      <3> QED
        BY <3>1, <3>2
    <2> QED
      BY <2>1, <2>2, <1>1, <1>9, <1>11, <1>12, <1>14, <1>15 DEF Moves
  <1>17. Shaped(tb2)
    <2>1. \A i \in n .. N : tb2.node[i].key # Nil
      <3>1. TAKE i \in n .. N
      <3>2. i \in Nodes(tb) /\ (i # n => tb.node[i].key # Nil)
        BY <1>2
      <3> QED
        BY <3>2, <1>1, <1>4, <1>11
    <2> QED
      BY <2>1, <1>1, <1>2, <1>9 DEF Shaped, Adding
  <1>18. ASSUME NEW i \in Nodes(tb)
         PROVE  /\ tb.node[i].next \in 0 .. N
                /\ tb.node[i].next # 0 => /\ tb.node[i].next \in Nodes(tb)
                                          /\ tb2.node[tb.node[i].next].key # Nil
                                          /\ tb.node[i].key # Nil
    <2>1. tb.node[i].next \in 0 .. N /\ (tb.node[i].next # 0 =>
            tb.node[i].next \in Nodes(tb) /\ tb.node[tb.node[i].next].key # Nil
            /\ tb.node[i].key # Nil)
      BY <1>1 DEF Held, Nodes
    <2>2. \A x \in Nodes(tb) : tb.node[x].key # Nil => tb2.node[x].key # Nil
      <3>1. TAKE x \in Nodes(tb)
      <3>2. CASE x \in {mp, n, prev}
        BY <3>2, <1>1, <1>2, <1>11
      <3>3. CASE x \notin {mp, n, prev}
        BY <3>3, <1>11
      <3> QED
        BY <3>2, <3>3
    <2> QED
      BY <2>1, <2>2
  <1>19. Links(tb2)
    <2>1. ASSUME NEW i \in Nodes(tb)
          PROVE  /\ tb2.node[i].next \in 0 .. N
                 /\ tb2.node[i].key = Nil => tb2.node[i].next = 0
                 /\ tb2.node[i].next # 0 => tb2.node[tb2.node[i].next].key # Nil
      <3>1. CASE i = mp
        BY <3>1, <1>1, <1>11
      <3>2. CASE i = prev
        BY <3>2, <1>1, <1>2, <1>4, <1>11 DEF Nodes
      <3>3. CASE i # mp /\ i # prev
        BY <3>3, <1>12, <1>18
      <3> QED
        BY <3>1, <3>2, <3>3
    <2>2. ASSUME NEW i \in Nodes(tb), NEW m \in Nodes(tb), m # i,
                 tb2.node[m].next = tb2.node[i].next
          PROVE  tb2.node[m].next = 0
      <3>1. CASE i = mp \/ m = mp
        BY <3>1, <2>2, <1>11
      <3>2. CASE i # mp /\ m # mp /\ (i = prev \/ m = prev)
        <4>1. ASSUME NEW j \in Nodes(tb), j # mp, j # prev
              PROVE  tb2.node[j].next # n
          <5>1. s[j] \in Nodes(tb) /\ tb2.node[j].next = tb.node[s[j]].next
            BY <4>1, <1>12
          <5> QED
            BY <5>1, <1>2
        <4>2. tb2.node[prev].next = n
          BY <1>11
        <4> QED
          BY <4>1, <4>2, <3>2, <2>2
      <3>3. CASE i # mp /\ m # mp /\ i # prev /\ m # prev
        <4>1. s[i] # s[m]
          BY <3>3, <2>2, <1>12
        <4>2. /\ s[i] \in Nodes(tb) /\ tb2.node[i].next = tb.node[s[i]].next
              /\ s[m] \in Nodes(tb) /\ tb2.node[m].next = tb.node[s[m]].next
          BY <3>3, <1>12
        <4> QED
          BY <4>1, <4>2, <2>2, <1>1 DEF Apart
      <3> QED
        BY <3>1, <3>2, <3>3
    <2> QED
      BY ONLY <2>1, <2>2, <1>9, <1>10 DEF Links
  <1> DEFINE e2 == [e EXCEPT ![n] = e[mp]]
             R2 == {hx \in Nodes(tb) \X Nodes(tb) :
                      \/ hx = <<mp, mp>>
                      \/ hx[1] \notin {n, mp} /\ hx[2] # mp /\
                         <<hx[1], IF hx[2] = n THEN mp ELSE hx[2]>> \in R}
  <1>19a. B \in Nat /\ e2 \in [Nodes(tb) -> 0 .. B] /\ R2 \in SUBSET (Nodes(tb) \X Nodes(tb))
    <2>1. B \in Nat /\ e \in [Nodes(tb) -> 0 .. B] /\ e[mp] \in 0 .. B
      BY <1>1, <1>3 DEF Chained
    <2>2. R2 \in SUBSET (Nodes(tb) \X Nodes(tb))
      OBVIOUS
    <2> QED
      BY <2>1, <2>2, <1>2
  <1>19b. \A i \in Nodes(tb) : /\ e[i] \in Nat /\ e2[i] = (IF i = n THEN e[mp] ELSE e[i])
                               /\ i # mp => e2[i] = e[s[i]]
    <2>1. B \in Nat /\ e \in [Nodes(tb) -> 0 .. B]
      BY <1>3 DEF Chained
    <2> QED
      BY <2>1, <1>2, <1>12
  <1>19c. ASSUME NEW h \in Nodes(tb), NEW x \in Nodes(tb)
          PROVE  <<h, x>> \in R2 <=>
                   \/ h = mp /\ x = mp
                   \/ h \notin {n, mp} /\ x # mp /\ <<h, s[x]>> \in R
    <2>1. x # mp => s[x] = IF x = n THEN mp ELSE x
      BY <1>12
    <2> QED
      BY <2>1
  <1> HIDE DEF e2, R2
  <1>20. /\ \A i \in Nodes(tb) : e[i] \in Nat /\ e2[i] = (IF i = n THEN e[mp] ELSE e[i])
         /\ \A i \in Nodes(tb) : i # mp => e2[i] = e[s[i]]
         /\ <<mp, mp>> \in R2
         /\ \A h, x \in Nodes(tb) : <<h, x>> \in R2 <=>
               \/ h = mp /\ x = mp
               \/ h \notin {n, mp} /\ x # mp /\ <<h, s[x]>> \in R
    BY <1>1, <1>19b, <1>19c
  <1>21. Chained(tb2, B, e2, R2)
    <2>1. ASSUME NEW i \in Nodes(tb), tb2.node[i].next # 0
          PROVE  e2[tb2.node[i].next] < e2[i]
      <3>1. i # mp
        BY <2>1, <1>11
      <3>2. CASE i = prev
        <4>1. e[mp] < e[prev]
          BY <1>3, <1>4 DEF Chained
        <4> QED
          BY <4>1, <3>2, <1>2, <1>4, <1>11, <1>20
      <3>3. CASE i # prev
        <4>1. tb2.node[i].next = tb.node[s[i]].next /\ s[i] \in Nodes(tb) /\ e2[i] = e[s[i]]
          BY <3>1, <3>3, <1>12, <1>20
        <4>2. e[tb.node[s[i]].next] < e[s[i]]
          BY <4>1, <2>1, <1>3 DEF Chained
        <4>3. tb.node[s[i]].next \in Nodes(tb) /\ tb.node[s[i]].next # n
          BY <4>1, <2>1, <1>2, <1>18
        <4> QED
          BY <4>1, <4>2, <4>3, <1>20
      <3> QED
        BY <3>2, <3>3
    <2>2. ASSUME NEW h \in Nodes(tb), NEW x \in Nodes(tb), <<h, x>> \in R2, x # h
          PROVE  e2[x] < e2[h] /\ \E m \in Nodes(tb) : <<h, m>> \in R2 /\ tb2.node[m].next = x
      <3>1. h \notin {n, mp} /\ x # mp /\ <<h, s[x]>> \in R /\ s[x] # h /\ s[x] \in Nodes(tb)
        BY <2>2, <1>12, <1>20
      <3>2. PICK m \in Nodes(tb) : <<h, m>> \in R /\ tb.node[m].next = s[x]
        BY <3>1, <1>3 DEF Chained
      <3>3. e[s[x]] < e[h] /\ e2[x] = e[s[x]] /\ e2[h] = e[h]
        BY <3>1, <1>3, <1>20 DEF Chained
      <3>4. m # n
        BY <3>1, <3>2, <1>2 DEF Nodes
      <3>5. CASE x = n
        <4>1. tb.node[m].next = mp
          BY <3>2, <3>5, <1>12, <3>1
        <4>2. m = prev
          BY <4>1, <1>1, <1>4 DEF Apart
        <4>3. <<h, prev>> \in R2
          BY <4>2, <3>1, <3>2, <3>4, <1>5, <1>12, <1>20
        <4> QED
          BY <4>3, <3>3, <3>5, <1>11
      <3>6. CASE x # n /\ m = mp
        <4>1. <<h, n>> \in R2
          BY <3>1, <3>2, <3>6, <1>2, <1>4, <1>12, <1>20
        <4>2. tb2.node[n].next = x
          BY <3>1, <3>2, <3>6, <1>11, <1>12
        <4> QED
          BY <4>1, <4>2, <3>3, <1>2
      <3>7. CASE x # n /\ m # mp
        <4>1. <<h, m>> \in R2
          BY <3>1, <3>2, <3>4, <3>7, <1>12, <1>20
        <4>2. tb2.node[m].next = x
          BY <3>1, <3>2, <3>4, <3>7, <1>12
        <4> QED
          BY <4>1, <4>2, <3>3
      <3> QED
        BY <3>5, <3>6, <3>7
    <2>3. ASSUME NEW i \in Nodes(tb), tb2.node[i].key # Nil
          PROVE  <<mainposition(tb, tb2.node[i].key), i>> \in R2
      <3>1. CASE i = mp
        BY <3>1, <1>11, <1>20
      <3>2. CASE i # mp
        <4> DEFINE h == mainposition(tb, tb.node[s[i]].key)
        <4>1. tb2.node[i].key = tb.node[s[i]].key /\ s[i] \in Nodes(tb)
          BY <3>2, <1>12
        <4>2. h # mp /\ <<h, s[i]>> \in R
          BY <4>1, <2>3, <1>3, <1>13 DEF Chained
        <4>3. tb.node[h].key # Nil
          BY <4>1, <2>3, <1>1 DEF AtHome
        <4>4. h \in Nodes(tb)
          BY <4>2, <1>3 DEF Chained
        <4> HIDE DEF h
        <4>5. <<h, i>> \in R2
          BY <4>2, <4>3, <4>4, <3>2, <1>2, <1>20
        <4> QED
          BY <4>1, <4>5 DEF h
      <3> QED
        BY <3>1, <3>2
    <2>4. ASSUME NEW m \in Nodes(tb), NEW i \in Nodes(tb),
                 tb2.node[m].key = tb2.node[i].key, tb2.node[m].key # Nil,
                 tb2.node[m].dead, ~tb2.node[i].dead
          PROVE  e2[m] < e2[i]
      <3>1. m # mp /\ s[m] \in Nodes(tb) /\ tb2.node[m].key = tb.node[s[m]].key
            /\ tb.node[s[m]].dead /\ e2[m] = e[s[m]]
        BY <2>4, <1>11, <1>12, <1>20
      <3>2. i # mp
        BY <3>1, <2>4, <1>1, <1>11, <1>13
      <3>3. s[i] \in Nodes(tb) /\ tb2.node[i].key = tb.node[s[i]].key
            /\ ~tb.node[s[i]].dead /\ e2[i] = e[s[i]]
        BY <3>2, <2>4, <1>12, <1>20
      <3> QED
        BY <3>1, <3>3, <2>4, <1>3 DEF Chained
    <2> QED
      BY ONLY <1>10, <1>19a, <2>1, <2>2, <2>3, <2>4 DEF Chained
  <1> QED
    BY <1>16, <1>17, <1>19, <1>21, Moved DEF Adding
\* The main position holds a key at home: the new one goes to the free place.
LEMMA Follows ==
    ASSUME NEW tb, NEW k, Adding(tb, k), NEW mp, mp = mainposition(tb, k),
           tb.node[mp].val # Nil, mainposition(tb, tb.node[mp].key) = mp,
           NEW n, Free(tb, n), NEW tb2,
           tb2 = WithNodes(tb, n, WithKey(Linked(tb.node, mp, n), n, k))
    PROVE  Added(tb, tb2, k, n)
  <1> DEFINE N == sizenode(tb)
             linked == Linked(tb.node, mp, n)
             new == WithKey(linked, n, k)
             s == [i \in Nodes(tb) |-> i]
  <1>1. /\ k # Nil /\ k \in Key /\ k \in DOMAIN hash /\ mp \in Nodes(tb)
        /\ \A i \in Nodes(tb) : tb.node[i].key = k => tb.node[i].dead
        /\ tb \in Tables /\ tb.node \in Seq(Slots) /\ Len(tb.node) = N
        /\ N \in Nat \ {0} /\ Shaped(tb) /\ Held(tb) /\ Apart(tb) /\ AtHome(tb)
    BY Absent
  <1>2. /\ n \in Nodes(tb) /\ n \in Nat \ {0} /\ n \in 1 .. (N + 1)
        /\ tb.node[n].key = Nil /\ tb.node[n].next = 0 /\ tb.node[n].val = Nil
        /\ \A i \in Nodes(tb) : tb.node[i].next # n
        /\ \A i \in n .. N : i \in Nodes(tb) /\ (i # n => tb.node[i].key # Nil)
    BY FreeIs
  <1>3. PICK B, e, R : Chained(tb, B, e, R)
    BY DEF Sound, Adding
  <1>4. mp # n /\ mp # 0 /\ tb.node[mp].key # Nil /\ ~tb.node[mp].dead
    BY <1>1, <1>2 DEF Held, Nodes
  <1>5. Nodes(tb) = 1 .. Len(tb.node)
    BY <1>1 DEF Nodes
  <1>6. /\ linked \in Seq(Slots) /\ Len(linked) = Len(tb.node)
        /\ linked[mp] = [tb.node[mp] EXCEPT !.next = n]
        /\ linked[n] = [tb.node[n] EXCEPT !.next = tb.node[mp].next]
        /\ \A i \in 1 .. Len(tb.node) : i \notin {mp, n} => linked[i] = tb.node[i]
    <2>1. tb.node \in Seq(Slots) /\ mp \in 1 .. Len(tb.node) /\ n \in 1 .. Len(tb.node) /\ mp # n
      BY <1>1, <1>2, <1>4, <1>5
    <2>2. linked = Linked(tb.node, mp, n)
      OBVIOUS
    <2> HIDE DEF linked
    <2> QED
      BY ONLY <2>1, <2>2, LinkedIn
  <1> HIDE DEF linked
  <1>7. /\ new \in Seq(Slots) /\ Len(new) = Len(linked)
        /\ new[n] = [key |-> k, dead |-> FALSE, val |-> linked[n].val, next |-> linked[n].next]
        /\ \A i \in 1 .. Len(linked) : i # n => new[i] = linked[i]
    <2>1. n \in 1 .. Len(linked) /\ linked \in Seq(Slots) /\ k \in Key
      BY <1>1, <1>2, <1>5, <1>6
    <2> QED
      BY ONLY <2>1, Keyed
  <1> HIDE DEF new
  <1>8. /\ tb2 \in Tables /\ tb2.array = tb.array /\ sizenode(tb2) = sizenode(tb)
        /\ tb2.flags = tb.flags /\ tb2.dummy = tb.dummy /\ tb2.nested = tb.nested
        /\ tb2.lastfree = n /\ tb2.node = new
    <2>1. tb2 = WithNodes(tb, n, new)
      BY DEF new, linked
    <2>2. tb \in Tables /\ new \in Seq(Slots) /\ Len(new) = sizenode(tb) /\ n \in Nat
      BY <1>1, <1>2, <1>6, <1>7
    <2> QED
      BY ONLY <2>1, <2>2, Rebuilt
  <1>9. Nodes(tb2) = Nodes(tb) /\ \A j : mainposition(tb2, j) = mainposition(tb, j)
    BY <1>8, MainSame DEF Nodes
  <1>10. /\ tb2.node[n].key = k /\ ~tb2.node[n].dead /\ tb2.node[n].val = Nil
         /\ tb2.node[n].next = tb.node[mp].next /\ tb2.node[mp].next = n
         /\ \A i \in Nodes(tb) : i # n => /\ tb2.node[i].key = tb.node[i].key
                                          /\ tb2.node[i].val = tb.node[i].val
                                          /\ tb2.node[i].dead = tb.node[i].dead
         /\ \A i \in Nodes(tb) : i \notin {mp, n} => tb2.node[i].next = tb.node[i].next
    <2> DEFINE x == tb.node[mp]
               y == tb.node[n]
    <2>0. x \in Slots /\ y \in Slots
      BY <1>1, <1>2, Absent
    <2> HIDE DEF x, y
    <2>0a. /\ linked[mp].key = tb.node[mp].key /\ linked[mp].val = tb.node[mp].val
           /\ linked[mp].dead = tb.node[mp].dead /\ linked[mp].next = n
           /\ linked[n].val = tb.node[n].val /\ linked[n].next = tb.node[mp].next
      <3>1. linked[mp] = [x EXCEPT !.next = n] /\ linked[n] = [y EXCEPT !.next = x.next]
        BY <1>6 DEF x, y
      <3>2. linked[mp].key = x.key /\ linked[mp].val = x.val /\ linked[mp].dead = x.dead
            /\ linked[mp].next = n /\ linked[n].val = y.val /\ linked[n].next = x.next
        BY <3>1, <2>0 DEF Slots
      <3> QED
        BY <3>2 DEF x, y
    <2>1. tb2.node[n] = [key |-> k, dead |-> FALSE, val |-> Nil, next |-> tb.node[mp].next]
      BY <1>2, <2>0a, <1>7, <1>8
    <2>2. \A i \in Nodes(tb) : i # n => tb2.node[i] = linked[i]
      BY <1>5, <1>6, <1>7, <1>8
    <2>3. tb2.node[mp].next = n
      BY <2>2, <1>1, <1>4, <2>0a
    <2>4. ASSUME NEW i \in Nodes(tb), i # n
          PROVE  /\ tb2.node[i].key = tb.node[i].key /\ tb2.node[i].val = tb.node[i].val
                 /\ tb2.node[i].dead = tb.node[i].dead
      <3>1. CASE i = mp
        BY <2>2, <2>4, <3>1, <2>0a
      <3>2. CASE i # mp
        BY <2>2, <2>4, <3>2, <1>5, <1>6
      <3> QED
        BY <3>1, <3>2
    <2>5. ASSUME NEW i \in Nodes(tb), i \notin {mp, n}
          PROVE  tb2.node[i].next = tb.node[i].next
      BY <2>2, <2>5, <1>5, <1>6
    <2> QED
      BY <2>1, <2>3, <2>4, <2>5
  <1>11. s \in [Nodes(tb) -> Nodes(tb)] /\ \A i \in Nodes(tb) : s[i] = i
    OBVIOUS
  <1> HIDE DEF s
  <1>12. Moves(tb, tb2, k, n, s)
    <2>1. \A m \in Nodes(tb) : tb.node[m].val # Nil => m # n
      BY <1>2
    <2>2. \A h \in Nodes(tb) : tb.node[h].key # Nil => h # n
      BY <1>2
    <2>3. tb2.node[mp].key # Nil /\ mainposition(tb, tb2.node[mp].key) = mp
      BY <1>1, <1>4, <1>10
    <2>4. \A i \in Nodes(tb) : i # n =>
       /\ tb2.node[i].key = tb.node[s[i]].key /\ tb2.node[i].val = tb.node[s[i]].val
       /\ tb2.node[i].dead = tb.node[s[i]].dead
       /\ \A j \in Nodes(tb) : j # n /\ s[i] = s[j] => i = j
      BY <1>10, <1>11
    <2>5. \A m \in Nodes(tb) : tb.node[m].val # Nil => \E i \in Nodes(tb) : i # n /\ s[i] = m
      BY <2>1, <1>11
    <2>6. \A h \in Nodes(tb) : tb.node[h].key # Nil /\ mainposition(tb, tb.node[h].key) = h =>
       IF h = n THEN mainposition(tb, k) = n ELSE s[h] = h
      BY <2>2, <1>11
    <2>7. n \in Nodes(tb) /\ tb2.node[n].key = k /\ ~tb2.node[n].dead /\ tb2.node[n].val = Nil
          /\ mainposition(tb, k) = mp
      BY <1>2, <1>10
    <2> QED
      BY ONLY <2>3, <2>4, <2>5, <2>6, <2>7, <1>8, <1>11 DEF Moves
  <1>13. Shaped(tb2)
    <2>1. \A i \in n .. N : tb2.node[i].key # Nil
      <3>1. TAKE i \in n .. N
      <3>2. i \in Nodes(tb) /\ (i # n => tb.node[i].key # Nil)
        BY <1>2
      <3> QED
        BY <3>2, <1>1, <1>10
    <2> QED
      BY <2>1, <1>1, <1>2, <1>8 DEF Shaped, Adding
  <1>14. ASSUME NEW i \in Nodes(tb)
         PROVE  /\ tb.node[i].next \in 0 .. N
                /\ tb.node[i].next # 0 => /\ tb.node[i].next \in Nodes(tb)
                                          /\ tb2.node[tb.node[i].next].key # Nil
                                          /\ tb.node[i].key # Nil
    <2>1. tb.node[i].next \in 0 .. N /\ (tb.node[i].next # 0 =>
            tb.node[i].next \in Nodes(tb) /\ tb.node[tb.node[i].next].key # Nil
            /\ tb.node[i].key # Nil)
      BY <1>1 DEF Held, Nodes
    <2>2. \A x \in Nodes(tb) : tb.node[x].key # Nil => tb2.node[x].key # Nil
      BY <1>1, <1>10
    <2> QED
      BY <2>1, <2>2
  <1>15. Links(tb2)
    <2>1. ASSUME NEW i \in Nodes(tb)
          PROVE  /\ tb2.node[i].next \in 0 .. N
                 /\ tb2.node[i].key = Nil => tb2.node[i].next = 0
                 /\ tb2.node[i].next # 0 => tb2.node[tb2.node[i].next].key # Nil
      <3>1. CASE i = mp
        BY <3>1, <1>1, <1>2, <1>4, <1>10 DEF Nodes
      <3>2. CASE i = n
        BY <3>2, <1>1, <1>10, <1>14
      <3>3. CASE i # mp /\ i # n
        BY <3>3, <1>10, <1>14
      <3> QED
        BY <3>1, <3>2, <3>3
    <2>2. ASSUME NEW i \in Nodes(tb), NEW m \in Nodes(tb), m # i,
                 tb2.node[m].next = tb2.node[i].next
          PROVE  tb2.node[m].next = 0
      <3>1. \A j \in Nodes(tb) : j # mp => tb2.node[j].next # n
        BY <1>1, <1>2, <1>10
      <3>2. i # mp /\ m # mp
        BY <3>1, <2>2, <1>10
      <3> DEFINE f(j) == IF j = n THEN mp ELSE j
      <3>3. \A j \in Nodes(tb) :
              j # mp => f(j) \in Nodes(tb) /\ tb2.node[j].next = tb.node[f(j)].next
        BY <1>1, <1>10
      <3>4. f(i) # f(m)
        BY <2>2, <3>2
      <3> HIDE DEF f
      <3> QED
        BY <3>2, <3>3, <3>4, <2>2, <1>1 DEF Apart
    <2> QED
      BY ONLY <2>1, <2>2, <1>8, <1>9 DEF Links
  <1> DEFINE B2 == 2 * B + 1
             e2 == [i \in Nodes(tb) |-> IF i = n THEN 2 * e[mp] ELSE 2 * e[i] + 1]
             R2 == {hx \in Nodes(tb) \X Nodes(tb) :
                      hx[1] # n /\ <<hx[1], IF hx[2] = n THEN mp ELSE hx[2]>> \in R}
  <1>16. B \in Nat /\ e \in [Nodes(tb) -> 0 .. B] /\ \A i \in Nodes(tb) : e[i] \in 0 .. B
    BY <1>3 DEF Chained
  <1>17. B2 \in Nat /\ e2 \in [Nodes(tb) -> 0 .. B2] /\ R2 \in SUBSET (Nodes(tb) \X Nodes(tb))
    <2>1. \A i \in Nodes(tb) : 2 * e[i] + 1 \in 0 .. B2
      BY <1>16
    <2>2. 2 * e[mp] \in 0 .. B2
      BY <1>1, <1>16
    <2>3. B2 \in Nat
      BY <1>16
    <2> HIDE DEF B2
    <2>4. e2 \in [Nodes(tb) -> 0 .. B2]
      BY <2>1, <2>2
    <2> QED
      BY <2>3, <2>4
  <1>18. ASSUME NEW h \in Nodes(tb), NEW x \in Nodes(tb)
         PROVE  <<h, x>> \in R2 <=> h # n /\ <<h, IF x = n THEN mp ELSE x>> \in R
    OBVIOUS
  <1>19. e2[n] = 2 * e[mp] /\ \A i \in Nodes(tb) : i # n => e2[i] = 2 * e[i] + 1
    BY <1>2
  <1> HIDE DEF e2, R2, B2
  <1>20. <<mp, mp>> \in R
    BY <1>1, <1>3, <1>4 DEF Chained
  <1>21. Chained(tb2, B2, e2, R2)
    <2>1. ASSUME NEW i \in Nodes(tb), tb2.node[i].next # 0
          PROVE  e2[tb2.node[i].next] < e2[i]
      <3>1. CASE i = mp
        BY <3>1, <1>4, <1>10, <1>16, <1>19
      <3>2. CASE i = n
        <4> DEFINE x == tb.node[mp].next
        <4>1. tb2.node[i].next = x /\ x \in Nodes(tb) /\ x # n /\ e[x] < e[mp]
          BY <2>1, <3>2, <1>1, <1>2, <1>3, <1>10, <1>14 DEF Chained
        <4> HIDE DEF x
        <4> QED
          BY <4>1, <3>2, <1>1, <1>16, <1>19
      <3>3. CASE i # mp /\ i # n
        <4> DEFINE x == tb.node[i].next
        <4>1. tb2.node[i].next = x /\ x \in Nodes(tb) /\ x # n /\ e[x] < e[i]
          BY <2>1, <3>3, <1>2, <1>3, <1>10, <1>14 DEF Chained
        <4> HIDE DEF x
        <4> QED
          BY <4>1, <3>3, <1>16, <1>19
      <3> QED
        BY <3>1, <3>2, <3>3
    <2>2. ASSUME NEW h \in Nodes(tb), NEW x \in Nodes(tb), <<h, x>> \in R2, x # h
          PROVE  e2[x] < e2[h] /\ \E m \in Nodes(tb) : <<h, m>> \in R2 /\ tb2.node[m].next = x
      <3>1. h # n /\ <<h, IF x = n THEN mp ELSE x>> \in R
        BY <2>2, <1>18
      <3>2. CASE x = n
        <4>1. e[mp] <= e[h]
          BY <3>1, <3>2, <1>1, <1>3, <1>16 DEF Chained
        <4>2. <<h, mp>> \in R2
          BY <3>1, <3>2, <1>1, <1>4, <1>18
        <4>3. e2[x] < e2[h]
          BY <4>1, <3>1, <3>2, <1>1, <1>16, <1>19
        <4> QED
          BY <4>2, <4>3, <3>2, <1>1, <1>10
      <3>3. CASE x # n
        <4>1. <<h, x>> \in R
          BY <3>1, <3>3
        <4>2. e[x] < e[h] /\ \E m \in Nodes(tb) : <<h, m>> \in R /\ tb.node[m].next = x
          BY <4>1, <2>2, <1>3 DEF Chained
        <4>3. PICK m \in Nodes(tb) : <<h, m>> \in R /\ tb.node[m].next = x
          BY <4>2
        <4>4. m # n
          BY <4>3, <1>2 DEF Nodes
        <4>5. e2[x] < e2[h]
          BY <4>2, <3>1, <3>3, <1>16, <1>19
        <4>6. CASE m = mp
          <5>1. <<h, n>> \in R2
            BY <4>3, <4>6, <3>1, <1>2, <1>18
          <5> QED
            BY <5>1, <4>3, <4>5, <4>6, <1>2, <1>10
        <4>7. CASE m # mp
          <5>1. <<h, m>> \in R2
            BY <4>3, <4>4, <3>1, <1>18
          <5> QED
            BY <5>1, <4>3, <4>4, <4>5, <4>7, <1>10
        <4> QED
          BY <4>6, <4>7
      <3> QED
        BY <3>2, <3>3
    <2>3. ASSUME NEW i \in Nodes(tb), tb2.node[i].key # Nil
          PROVE  <<mainposition(tb, tb2.node[i].key), i>> \in R2
      <3>1. CASE i = n
        BY <3>1, <1>1, <1>2, <1>4, <1>10, <1>18, <1>20
      <3>2. CASE i # n
        <4> DEFINE h == mainposition(tb, tb.node[i].key)
        <4>1. tb2.node[i].key = tb.node[i].key
          BY <3>2, <1>10
        <4>2. <<h, i>> \in R
          BY <4>1, <2>3, <1>3 DEF Chained
        <4>3. tb.node[h].key # Nil
          BY <4>1, <2>3, <1>1 DEF AtHome
        <4>4. h \in Nodes(tb)
          BY <4>2, <1>3 DEF Chained
        <4> HIDE DEF h
        <4>5. <<h, i>> \in R2
          BY <4>2, <4>3, <4>4, <3>2, <1>2, <1>18
        <4> QED
          BY <4>1, <4>5 DEF h
      <3> QED
        BY <3>1, <3>2
    <2>4. ASSUME NEW m \in Nodes(tb), NEW i \in Nodes(tb),
                 tb2.node[m].key = tb2.node[i].key, tb2.node[m].key # Nil,
                 tb2.node[m].dead, ~tb2.node[i].dead
          PROVE  e2[m] < e2[i]
      <3>1. m # n /\ tb2.node[m].key = tb.node[m].key /\ tb.node[m].dead
        BY <2>4, <1>10
      <3>2. CASE i = n
        <4>1. tb.node[m].key = k /\ m # mp
          BY <3>1, <3>2, <2>4, <1>4, <1>10
        <4>2. <<mp, m>> \in R
          BY <4>1, <1>1, <1>3 DEF Chained
        <4>3. e[m] < e[mp]
          BY <4>1, <4>2, <1>1, <1>3 DEF Chained
        <4> QED
          BY <4>3, <3>1, <3>2, <1>1, <1>16, <1>19
      <3>3. CASE i # n
        <4>1. tb2.node[i].key = tb.node[i].key /\ ~tb.node[i].dead
          BY <3>3, <2>4, <1>10
        <4>2. e[m] < e[i]
          BY <4>1, <3>1, <2>4, <1>3 DEF Chained
        <4> QED
          BY <4>2, <3>1, <3>3, <1>16, <1>19
      <3> QED
        BY <3>2, <3>3
    <2> QED
      BY ONLY <1>9, <1>17, <2>1, <2>2, <2>3, <2>4 DEF Chained
  <1> QED
    BY <1>12, <1>13, <1>15, <1>21, Moved DEF Adding
\* Max of a set of bounded naturals.
LEMMA Highest ==
    ASSUME NEW m \in Nat, NEW S \in SUBSET (0 .. m), S # {}
    PROVE  Max(S) \in S /\ \A i \in S : i <= Max(S)
  <1> DEFINE T == {x \in Nat : \E i \in S : x = m - i}
  <1>1. T # {}
    <2>1. PICK i \in S : TRUE
      OBVIOUS
    <2>2. m - i \in T
      OBVIOUS
    <2> QED
      BY <2>2
  <1>2. PICK x \in T : \A y \in T : x <= y
    BY <1>1, Least
  <1>3. PICK i \in S : x = m - i
    BY <1>2
  <1>4. \A j \in S : i >= j
    <2>1. TAKE j \in S
    <2>2. m - j \in T /\ i \in 0 .. m /\ j \in 0 .. m
      OBVIOUS
    <2> QED
      BY <1>2, <1>3, <2>2
  <1>5. Max(S) \in S /\ \A j \in S : Max(S) >= j
    BY <1>3, <1>4 DEF Max
  <1> QED
    BY <1>5

\* Min of a set of naturals.
LEMMA Lowest ==
    ASSUME NEW S \in SUBSET Nat, S # {}
    PROVE  Min(S) \in S /\ \A i \in S : Min(S) <= i
  <1>1. \E x \in S : \A y \in S : x <= y
    BY Least
  <1> QED
    BY <1>1 DEF Min

\* newkey finds a place, or there is none.
LEMMA NewKey ==
    ASSUME hash \in Hashes, NEW tb, Sound(tb), NEW k \in DOMAIN hash, luaH_get(tb, k) = NoSlot
    PROVE  \/ newkey(tb, k).slot = NoSlot /\ getfreepos(tb) = {}
           \/ \E p : newkey(tb, k).slot = <<"node", p>> /\ Added(tb, newkey(tb, k).tb, k, p)
  <1> DEFINE mp == mainposition(tb, k)
             n == Max(getfreepos(tb))
             head == mainposition(tb, tb.node[mp].key)
             prev == Search(tb.node, head, {i \in 1 .. Len(tb.node) : tb.node[i].next = mp})
             A == WithNodes(tb, tb.lastfree, WithKey(tb.node, mp, k))
             M == WithNodes(tb, n, WithKey(MoveTo(tb.node, mp, prev, n), mp, k))
             F == WithNodes(tb, n, WithKey(Linked(tb.node, mp, n), n, k))
  <1>1. newkey(tb, k) =
          IF tb.node[mp].val = Nil /\ ~tb.dummy THEN [tb |-> A, slot |-> <<"node", mp>>]
          ELSE IF getfreepos(tb) = {} THEN [tb |-> tb, slot |-> NoSlot]
          ELSE IF head # mp THEN [tb |-> M, slot |-> <<"node", mp>>]
          ELSE [tb |-> F, slot |-> <<"node", n>>]
    BY DEF newkey, WithNodes, WithKey, Linked
  <1>2. sizenode(tb) \in Nat \ {0} /\ mp \in Nodes(tb) /\ Shaped(tb) /\ Held(tb)
        /\ Len(tb.node) = sizenode(tb)
    BY Parts, MainIn DEF Sound
  <1> HIDE DEF A, M, F, n, mp, prev
  <1>3. CASE tb.node[mp].val = Nil /\ ~tb.dummy
    <2>1. Added(tb, A, k, mp)
      BY <1>3, TakesPlace DEF A, mp, Adding
    <2> QED
      BY <2>1, <1>1, <1>3
  <1>4. CASE ~(tb.node[mp].val = Nil /\ ~tb.dummy) /\ getfreepos(tb) = {}
    BY <1>1, <1>4
  <1>5. CASE ~(tb.node[mp].val = Nil /\ ~tb.dummy) /\ getfreepos(tb) # {}
    <2>1. getfreepos(tb) \in SUBSET (0 .. sizenode(tb)) /\ tb.lastfree \in Nat
          /\ (tb.dummy => tb.lastfree = 1)
      BY <1>2 DEF getfreepos, Shaped
    <2>2. n \in getfreepos(tb) /\ \A i \in getfreepos(tb) : i <= n
      BY <1>2, <1>5, <2>1, Highest DEF n
    <2>3. ~tb.dummy
      BY <2>1, <2>2 DEF getfreepos
    <2>4. tb.node[mp].val # Nil /\ Adding(tb, k)
      BY <1>5, <2>3 DEF Adding
    <2>5. n \in Nat /\ n < tb.lastfree /\ tb.node[n].key = Nil /\ n \in Nodes(tb)
      BY <2>1, <2>2, <1>2 DEF getfreepos, Shaped, Nodes
    <2>6. \A i \in Nodes(tb) : n < i /\ i < tb.lastfree => tb.node[i].key # Nil
      <3>1. ASSUME NEW i \in Nodes(tb), n < i, i < tb.lastfree, tb.node[i].key = Nil
            PROVE  FALSE
        <4>1. i \in getfreepos(tb)
          BY <3>1, <2>1, <1>2 DEF getfreepos, Nodes
        <4> QED
          BY <4>1, <3>1, <2>2, <2>5, <1>2 DEF Nodes
      <3> QED
        BY <3>1
    <2>7. Free(tb, n)
      BY <2>5, <2>6 DEF Free
    <2>8. CASE head = mp
      <3>1. Added(tb, F, k, n)
        BY <2>4, <2>7, <2>8, Follows DEF F, mp
      <3> QED
        BY <3>1, <2>8, <1>1, <1>5
    <2>9. CASE head # mp
      <3>1. tb.node[mp].key # Nil /\ tb.node[mp].key \in DOMAIN hash
        BY <1>2, <2>4 DEF Held
      <3>2. head \in Nodes(tb)
        BY <3>1, <1>2, MainIn
      <3>3. PICK B, e, R : Chained(tb, B, e, R)
        BY DEF Sound
      <3>4. Falls(tb.node, B, e) /\ Reached(tb.node, e, R)
        BY <3>3, <1>2, Ranked
      <3>5. <<head, mp>> \in R
        BY <3>1, <3>3, <1>2 DEF Chained
      <3>6. PICK m \in Nodes(tb) : <<head, m>> \in R /\ tb.node[m].next = mp
        BY <3>2, <3>3, <3>5, <2>9, <1>2 DEF Chained
      <3> DEFINE S == {i \in 1 .. Len(tb.node) : tb.node[i].next = mp}
      <3>7. m \in S /\ m \in 1 .. Len(tb.node) /\ head \in 1 .. Len(tb.node)
        BY <3>2, <3>6, <1>2 DEF Nodes
      <3>8. prev = Search(tb.node, head, S)
        BY DEF prev
      <3> HIDE DEF S, head
      <3>9. prev \in S
        BY <3>4, <3>6, <3>7, <3>8, FindsFirst
      <3>10. prev \in Nodes(tb) /\ tb.node[prev].next = mp
        BY <3>9, <1>2 DEF S, Nodes
      <3>11. Added(tb, M, k, mp)
        BY <2>4, <2>7, <2>9, <3>10, MakesRoom DEF M, mp, head
      <3> QED
        BY <3>11, <2>9, <1>1, <1>5
    <2> QED
      BY <2>8, <2>9
  <1> QED
    BY <1>3, <1>4, <1>5

\* The assignment to a key of a table that has room for it.
LEMMA Reinserts ==
    ASSUME hash \in Hashes, NEW tb, Sound(tb), NEW k \in DOMAIN hash,
           luaH_get(tb, k) # NoSlot \/ newkey(tb, k).slot # NoSlot,
           NEW v \in Value \cup {Nil}, NEW entry, entry.key = k, entry.val = v,
           NEW tb2, tb2 = Reinsert(tb, entry)
    PROVE  /\ Sound(tb2) /\ sizearray(tb2) = sizearray(tb) /\ sizenode(tb2) = sizenode(tb)
           /\ tb2.flags = tb.flags /\ tb2.dummy = tb.dummy
           /\ \A i \in Nodes(tb) :
                \/ tb2.node[i].key = k /\ ~tb2.node[i].dead
                \/ \E m \in Nodes(tb) : /\ tb2.node[i].key = tb.node[m].key
                                        /\ tb2.node[i].dead = tb.node[m].dead
           /\ \A j \in DOMAIN hash : Get(tb2, j) = IF j = k THEN v ELSE Get(tb, j)
  <1> DEFINE made == newkey(tb, k)
  <1>1. tb2 = IF luaH_get(tb, k) # NoSlot THEN Put(tb, luaH_get(tb, k), v)
              ELSE IF made.slot # NoSlot THEN Put(made.tb, made.slot, v)
              ELSE [tb EXCEPT !.nested = TRUE]
    BY DEF Reinsert
  <1>2. CASE luaH_get(tb, k) # NoSlot
    <2>1. tb2 = Put(tb, luaH_get(tb, k), v)
      BY <1>1, <1>2
    <2>2. /\ Alike(tb, tb2) /\ Sound(tb2) /\ tb2.flags = tb.flags
          /\ \A n \in Nodes(tb) : tb2.node[n].dead = tb.node[n].dead
          /\ \A j \in DOMAIN hash : Get(tb2, j) = IF j = k THEN v ELSE Get(tb, j)
      BY <1>2, <2>1, Puts
    <2>3. \A i \in Nodes(tb) : /\ tb2.node[i].key = tb.node[i].key
                               /\ tb2.node[i].dead = tb.node[i].dead
      BY <2>2 DEF Alike
    <2> QED
      BY <2>2, <2>3 DEF Alike
  <1>3. CASE luaH_get(tb, k) = NoSlot
    <2>1. PICK p : made.slot = <<"node", p>> /\ Added(tb, made.tb, k, p)
      BY <1>3, NewKey
    <2>2. /\ Sound(made.tb) /\ made.tb.array = tb.array /\ sizenode(made.tb) = sizenode(tb)
          /\ made.tb.flags = tb.flags /\ made.tb.dummy = tb.dummy
          /\ luaH_get(made.tb, k) = made.slot /\ made.slot # NoSlot
          /\ \A j \in DOMAIN hash : Get(made.tb, j) = Get(tb, j)
      BY <2>1 DEF Added, NoSlot
    <2>3. \A i \in Nodes(tb) :
            \/ made.tb.node[i].key = k /\ ~made.tb.node[i].dead
            \/ \E m \in Nodes(tb) : /\ made.tb.node[i].key = tb.node[m].key
                                    /\ made.tb.node[i].dead = tb.node[m].dead
      BY <2>1 DEF Added
    <2> DEFINE mt == made.tb
    <2>4. tb2 = Put(mt, luaH_get(mt, k), v)
      BY <1>1, <1>3, <2>2
    <2> HIDE DEF made, mt
    <2>5. luaH_get(mt, k) # NoSlot /\ Sound(mt)
      BY <2>2 DEF mt
    <2>6. /\ Alike(mt, tb2) /\ Sound(tb2) /\ tb2.flags = mt.flags
          /\ \A n \in Nodes(mt) : tb2.node[n].dead = mt.node[n].dead
          /\ \A j \in DOMAIN hash : Get(tb2, j) = IF j = k THEN v ELSE Get(mt, j)
      BY <2>4, <2>5, Puts
    <2>7. Nodes(mt) = Nodes(tb) /\ sizearray(mt) = sizearray(tb) /\ sizenode(mt) = sizenode(tb)
          /\ mt.flags = tb.flags /\ mt.dummy = tb.dummy
      BY <2>2 DEF mt, Nodes, sizearray
    <2>8. \A i \in Nodes(tb) : /\ tb2.node[i].key = mt.node[i].key
                               /\ tb2.node[i].dead = mt.node[i].dead
      BY <2>6, <2>7 DEF Alike
    <2>9. \A i \in Nodes(tb) :
            \/ tb2.node[i].key = k /\ ~tb2.node[i].dead
            \/ \E m \in Nodes(tb) : /\ tb2.node[i].key = tb.node[m].key
                                    /\ tb2.node[i].dead = tb.node[m].dead
      BY <2>3, <2>8 DEF mt
    <2>10. \A j \in DOMAIN hash : Get(tb2, j) = IF j = k THEN v ELSE Get(tb, j)
      BY <2>2, <2>6 DEF mt
    <2>11. sizearray(tb2) = sizearray(tb) /\ sizenode(tb2) = sizenode(tb)
           /\ tb2.flags = tb.flags /\ tb2.dummy = tb.dummy
      BY <2>6, <2>7 DEF Alike
    <2> QED
      BY <2>6, <2>9, <2>10, <2>11
  <1> QED
    BY <1>2, <1>3

\* The keys of the nodes are live and in H, which fits.
Room(tb, H) ==
  /\ IsFiniteSet(H)
  /\ Cardinality(H) <= IF tb.dummy THEN 0 ELSE sizenode(tb)
  /\ \A n \in Nodes(tb) : tb.node[n].key # Nil => ~tb.node[n].dead /\ tb.node[n].key \in H

\* A table with a node for each key of H has a free one for a key of H it does not hold.
LEMMA HasRoom ==
    ASSUME hash \in Hashes, NEW tb, Sound(tb), NEW H, Room(tb, H), NEW k \in DOMAIN hash, k \in H,
           luaH_get(tb, k) = NoSlot
    PROVE  newkey(tb, k).slot # NoSlot
  <1>1. SUFFICES ASSUME getfreepos(tb) = {}
                 PROVE  FALSE
    <2>1. \A p : <<"node", p>> # NoSlot
      BY DEF NoSlot
    <2> QED
      BY <2>1, NewKey
  <1> DEFINE N == sizenode(tb)
  <1>2. Shaped(tb) /\ N \in Nat \ {0} /\ IsFiniteSet(H) /\ Cardinality(H) \in Nat
    BY Parts, FS_CardinalityType DEF Sound, Room
  <1>3. IsFiniteSet(H \ {k}) /\ Cardinality(H \ {k}) = Cardinality(H) - 1
    BY <1>2, FS_RemoveElement
  <1>4. Cardinality(H \ {k}) \in Nat
    BY <1>3, FS_CardinalityType
  <1>5. ~tb.dummy /\ Cardinality(H) <= N
    BY <1>2, <1>3, <1>4 DEF Room
  <1>6. Adding(tb, k)
    BY <1>5 DEF Adding
  <1>7. \A n \in Nodes(tb) : tb.node[n].key # Nil
    <2>1. ASSUME NEW n \in Nodes(tb), tb.node[n].key = Nil
          PROVE  FALSE
      <3>1. tb.lastfree \in Nat /\ n \in Nat
        BY <1>2 DEF Shaped, Nodes
      <3>2. n \notin tb.lastfree .. N
        BY <2>1, <1>2, <1>5 DEF Shaped
      <3>3. n \in 1 .. (tb.lastfree - 1)
        BY <3>1, <3>2, <1>2 DEF Nodes
      <3> QED
        BY <3>3, <2>1, <1>1 DEF getfreepos
    <2> QED
      BY <2>1
  <1>8. \A n \in Nodes(tb) : ~tb.node[n].dead /\ tb.node[n].key \in H \ {k}
    BY <1>6, <1>7, Absent DEF Room
  <1> DEFINE f == [n \in 1 .. N |-> tb.node[n].key]
  <1>9. f \in [1 .. N -> H \ {k}]
    BY <1>8 DEF Nodes
  <1>10. IsFiniteSet(1 .. N) /\ Cardinality(1 .. N) = N
    BY <1>2, FS_Interval
  <1>11. Cardinality(H \ {k}) < Cardinality(1 .. N)
    BY <1>2, <1>3, <1>5, <1>10
  <1> HIDE DEF f
  <1>12. \E x, y \in 1 .. N : x # y /\ f[x] = f[y]
    <2> DEFINE D == 1 .. N
               K == H \ {k}
    <2>1. IsFiniteSet(D) /\ IsFiniteSet(K) /\ Cardinality(K) < Cardinality(D) /\ f \in [D -> K]
      BY <1>3, <1>9, <1>10, <1>11
    <2> HIDE DEF D, K
    <2>2. \E x, y \in D : x # y /\ f[x] = f[y]
      BY ONLY <2>1, FS_PigeonHole, Zenon
    <2> QED
      BY <2>2 DEF D
  <1> QED
    BY <1>7, <1>8, <1>12 DEF f, Nodes, Sound, Apart
------------------------------------------------------------------------------
(* Resizing *)

\* The parts of the table when resize begins to fill them.
Emptied(tb, na, nh) == setnodevector([tb EXCEPT !.array = setarrayvector(@, na)], nh)

\* What x reads is what the first na elements of the array part of tb hold.
Retained(tb, na, x) ==
  \A k \in DOMAIN hash : \A v : v # Nil =>
    (Get(x, k) = v <=> InArray(tb, k) /\ k <= na /\ tb.array[k] = v)

\* The table resize starts from: the array part kept up to na, every node free.
LEMMA EmptiedIs ==
    ASSUME hash \in Hashes, NEW tb, Sound(tb), NEW na \in Nat, NEW nh \in Nat,
           NEW x, x = Emptied(tb, na, nh)
    PROVE  /\ Sound(x) /\ sizearray(x) = na /\ sizenode(x) >= nh /\ (x.dummy <=> nh = 0)
           /\ x.flags = tb.flags /\ \A n \in Nodes(x) : x.node[n].key = Nil
           /\ Retained(tb, na, x)
  <1> DEFINE full == IF nh = 0 THEN 1 ELSE twoto[ceillog2(nh)]
             array == [i \in 1 .. na |-> IF i <= Len(tb.array) THEN tb.array[i] ELSE Nil]
             node == [i \in 1 .. full |-> EmptyNode]
             last == IF nh = 0 THEN 1 ELSE full + 1
             y == [tb EXCEPT !.array = array]
  <1>1. /\ tb \in Tables /\ ~tb.nested /\ tb.array \in Seq(Value \cup {Nil}) /\ Held(tb)
        /\ sizearray(tb) \in Nat
    BY Parts DEF Sound, Shaped, Tables
  <1>2. full \in Nat \ {0} /\ full >= nh /\ (nh = 0 => full = 1) /\ \E p \in Nat : full = twoto[p]
    <2>1. ceillog2(nh) \in Nat /\ twoto[ceillog2(nh)] \in Nat /\ twoto[ceillog2(nh)] >= nh
      BY Log2
    <2> QED
      BY <2>1, TwoTo
  <1> HIDE DEF full
  <1>3. array \in Seq(Value \cup {Nil}) /\ Len(array) = na
        /\ \A i \in 1 .. na : array[i] = IF i <= Len(tb.array) THEN tb.array[i] ELSE Nil
    <2>1. \A i \in 1 .. na : array[i] \in Value \cup {Nil}
      BY <1>1
    <2> QED
      BY <2>1
  <1> HIDE DEF array
  <1>4. EmptyNode \in Slots
    BY DEF EmptyNode, Slots
  <1>5. node \in Seq(Slots) /\ Len(node) = full /\ \A i \in 1 .. full : node[i] = EmptyNode
    BY <1>2, <1>4
  <1> HIDE DEF node
  <1>6. y \in Tables /\ y.array = array /\ y.flags = tb.flags /\ y.nested = tb.nested
    BY <1>1, <1>3 DEF Tables
  <1>7. x = [y EXCEPT !.node = node, !.dummy = (nh = 0), !.lastfree = last]
    BY DEF Emptied, setnodevector, setarrayvector, array, node, full
  <1> HIDE DEF y
  <1>8. last \in Nat /\ last \in 1 .. (full + 1) /\ (nh = 0 => last = 1)
        /\ (nh # 0 => last = full + 1)
    BY <1>2
  <1> HIDE DEF last
  <1>9. /\ x \in Tables /\ x.array = array /\ x.flags = tb.flags /\ ~x.nested
        /\ x.node = node /\ (x.dummy <=> nh = 0) /\ x.lastfree = last
    BY <1>1, <1>5, <1>6, <1>7, <1>8 DEF Tables
  <1>10. sizearray(x) = na /\ sizenode(x) = full /\ Nodes(x) = 1 .. full
    BY <1>3, <1>5, <1>9 DEF sizearray, sizenode, Nodes
  <1>11. \A n \in Nodes(x) : /\ x.node[n] = EmptyNode /\ x.node[n].key = Nil
                             /\ x.node[n].val = Nil /\ x.node[n].next = 0 /\ ~x.node[n].dead
    BY <1>5, <1>9, <1>10 DEF EmptyNode
  <1>12. Shaped(x)
    <2>1. CASE nh = 0
      <3>1. x.dummy /\ 1 \in Nodes(x) /\ full = 1
        BY <2>1, <1>2, <1>9, <1>10
      <3> QED
        BY <3>1, <2>1, <1>2, <1>8, <1>9, <1>10, <1>11 DEF Shaped
    <2>2. CASE nh # 0
      <3>1. \A n \in (full + 1) .. full : FALSE
        BY <1>2
      <3> QED
        BY <3>1, <2>2, <1>2, <1>8, <1>9, <1>10 DEF Shaped
    <2> QED
      BY <2>1, <2>2
  <1>13. \A i \in 1 .. na : array[i] # Nil => i \in 1 .. sizearray(tb) /\ array[i] = tb.array[i]
    BY <1>1, <1>3 DEF sizearray
  <1>14. Held(x)
    <2>1. \A i \in 1 .. sizearray(x) : x.array[i] # Nil => i \in IntKeys \cap DOMAIN hash
      BY <1>1, <1>9, <1>10, <1>13 DEF Held
    <2>2. Nil \notin IntKeys /\ 0 \in 0 .. sizenode(x)
      BY <1>2, <1>10, TableAssumption
    <2>3. \A n \in Nodes(x) :
       /\ x.node[n].next \in 0 .. sizenode(x)
       /\ x.node[n].key \in DOMAIN hash \cup {Nil}
       /\ x.node[n].key = Nil => x.node[n].val = Nil /\ x.node[n].next = 0
       /\ x.node[n].dead => x.node[n].val = Nil
       /\ x.node[n].next # 0 => x.node[x.node[n].next].key # Nil
       /\ x.node[n].key \in IntKeys => x.node[n].key > sizearray(x)
      BY <1>11, <2>2
    <2> QED
      BY <2>1, <2>3 DEF Held
  <1>15. Apart(x) /\ AtHome(x)
    BY <1>11 DEF Apart, AtHome
  <1>16. Chained(x, 0, [n \in Nodes(x) |-> 0], {})
    BY <1>11 DEF Chained
  <1>17. Sound(x)
    <2>1. \E B, e, R : Chained(x, B, e, R)
      BY <1>16
    <2> QED
      BY <2>1, <1>12, <1>14, <1>15 DEF Sound
  <1>18. ASSUME NEW k \in DOMAIN hash, NEW v, v # Nil
         PROVE  Get(x, k) = v <=> InArray(tb, k) /\ k <= na /\ tb.array[k] = v
    <2>1. Get(x, k) = v <=> Holds(x, k, v)
      BY <1>17, <1>18, Reads
    <2>2. CASE InArray(x, k)
      <3>1. k \in 1 .. na /\ k \in IntKeys /\ x.array[k] = array[k]
        BY <2>2, <1>9, <1>10, TableAssumption DEF InArray
      <3>2. InArray(tb, k) <=> k <= Len(tb.array)
        BY <3>1 DEF InArray, sizearray
      <3> QED
        BY <2>1, <2>2, <3>1, <3>2, <1>3, <1>18 DEF Holds
    <2>3. CASE ~InArray(x, k)
      <3>1. ~Holds(x, k, v)
        BY <2>3, <1>11, <1>18 DEF Holds
      <3>2. ~(InArray(tb, k) /\ k <= na)
        BY <2>3, <1>10 DEF InArray
      <3> QED
        BY <2>1, <3>1, <3>2
    <2> QED
      BY <2>2, <2>3
  <1> QED
    BY <1>2, <1>9, <1>10, <1>11, <1>17, <1>18 DEF Retained

\* The number of entries that resize considers.
Total(tb, na) == Vanishing(tb, na) + sizenode(tb)

\* Each has a key of its own; together with the array part that stays they are
\* what the table holds.
LEMMA EntryIs ==
    ASSUME hash \in Hashes, NEW tb, Sound(tb), NEW na \in Nat
    PROVE  /\ Vanishing(tb, na) \in Nat /\ Total(tb, na) \in Nat
           /\ \A i \in 1 .. Total(tb, na) : Entry(tb, na, i).val # Nil =>
                /\ Entry(tb, na, i).key \in DOMAIN hash /\ Entry(tb, na, i).val \in Value
                /\ ~(InArray(tb, Entry(tb, na, i).key) /\ Entry(tb, na, i).key <= na)
                /\ \A j \in 1 .. Total(tb, na) :
                     Entry(tb, na, j).val # Nil /\ Entry(tb, na, j).key = Entry(tb, na, i).key
                     => i = j
           /\ \A k, v : v # Nil /\ Holds(tb, k, v) =>
                \/ InArray(tb, k) /\ k <= na /\ tb.array[k] = v
                \/ \E i \in 1 .. Total(tb, na) : /\ Entry(tb, na, i).key = k
                                                 /\ Entry(tb, na, i).val = v
           /\ \A i \in 1 .. Total(tb, na) : Entry(tb, na, i).val # Nil =>
                Holds(tb, Entry(tb, na, i).key, Entry(tb, na, i).val)
  <1> DEFINE A == sizearray(tb)
             N == sizenode(tb)
             gone == Vanishing(tb, na)
             T == Total(tb, na)
             K(i) == Entry(tb, na, i).key
             V(i) == Entry(tb, na, i).val
  <1>1. A \in Nat /\ N \in Nat \ {0} /\ Held(tb) /\ Apart(tb) /\ tb.array \in Seq(Value \cup {Nil})
        /\ (\A n \in Nodes(tb) : tb.node[n] \in Slots)
        /\ \A i \in 1 .. A : tb.array[i] \in Value \cup {Nil}
    BY Parts DEF Sound
  <1>2. gone = IF A > na THEN A - na ELSE 0
    BY DEF Vanishing
  <1> HIDE DEF A, N, gone
  <1>3. gone \in Nat /\ T \in Nat /\ T = gone + N /\ (gone # 0 => na + gone = A)
    BY <1>1, <1>2 DEF Total, N, gone
  <1> HIDE DEF T
  <1>4. ASSUME NEW i \in 1 .. T, i <= gone
        PROVE  /\ K(i) = na + i /\ V(i) = tb.array[na + i] /\ na + i \in 1 .. A
               /\ V(i) \in Value \cup {Nil} /\ K(i) \in Nat
               /\ V(i) # Nil => K(i) \in IntKeys \cap DOMAIN hash /\ InArray(tb, K(i))
    <2>1. K(i) = na + i /\ V(i) = tb.array[na + i]
      BY <1>4 DEF Entry, gone
    <2>2. na + i \in 1 .. A /\ K(i) \in Nat
      BY <1>1, <1>3, <1>4, <2>1
    <2> HIDE DEF K, V
    <2> QED
      BY <2>1, <2>2, <1>1 DEF Held, InArray, A
  <1>5. ASSUME NEW i \in 1 .. T, ~(i <= gone)
        PROVE  LET n == N + 1 - (i - gone)
               IN  /\ n \in Nodes(tb) /\ K(i) = tb.node[n].key /\ V(i) = tb.node[n].val
                   /\ V(i) \in Value \cup {Nil}
                   /\ V(i) # Nil => K(i) \in DOMAIN hash /\ ~InArray(tb, K(i)) /\ ~tb.node[n].dead
    <2> DEFINE n == N + 1 - (i - gone)
    <2>1. K(i) = tb.node[n].key /\ V(i) = tb.node[n].val
      BY <1>5 DEF Entry, gone, N
    <2>2. n \in Nodes(tb)
      BY <1>1, <1>3, <1>5 DEF Nodes, N
    <2> HIDE DEF n, K, V
    <2>3. V(i) \in Value \cup {Nil}
      BY <2>1, <2>2, <1>1 DEF Slots
    <2>4. V(i) # Nil => K(i) \in DOMAIN hash /\ ~tb.node[n].dead
      BY <2>1, <2>2, <1>1 DEF Held
    <2>5. K(i) \in IntKeys => K(i) > A
      BY <2>1, <2>2, <1>1 DEF Held, A
    <2>6. ~InArray(tb, K(i))
      BY <2>5, <1>1, TableAssumption DEF InArray, A
    <2> QED
      BY <2>1, <2>2, <2>3, <2>4, <2>6 DEF n
  <1> HIDE DEF K, V
  <1>6. ASSUME NEW i \in 1 .. T, NEW j \in 1 .. T, V(i) # Nil, V(j) # Nil, K(i) = K(j)
        PROVE  i = j
    <2>1. CASE i <= gone /\ j <= gone
      BY <2>1, <1>4, <1>6, <1>3
    <2>2. CASE i <= gone /\ ~(j <= gone)
      BY <2>2, <1>4, <1>5, <1>6
    <2>3. CASE ~(i <= gone) /\ j <= gone
      BY <2>3, <1>4, <1>5, <1>6
    <2>4. CASE ~(i <= gone) /\ ~(j <= gone)
      <3> DEFINE m == N + 1 - (i - gone)
                 n == N + 1 - (j - gone)
      <3>1. /\ m \in Nodes(tb) /\ K(i) = tb.node[m].key /\ ~tb.node[m].dead
            /\ n \in Nodes(tb) /\ K(j) = tb.node[n].key /\ ~tb.node[n].dead
            /\ K(i) \in DOMAIN hash
        BY <2>4, <1>5, <1>6
      <3> HIDE DEF m, n
      <3>2. K(i) # Nil
        BY <3>1, TableAssumption
      <3>3. m = n
        BY <3>1, <3>2, <1>1, <1>6 DEF Apart
      <3> QED
        BY <3>3, <1>1, <1>3 DEF m, n
    <2> QED
      BY <2>1, <2>2, <2>3, <2>4
  <1>7. ASSUME NEW i \in 1 .. T, V(i) # Nil
        PROVE  /\ K(i) \in DOMAIN hash /\ V(i) \in Value /\ ~(InArray(tb, K(i)) /\ K(i) <= na)
               /\ Holds(tb, K(i), V(i))
    <2>1. CASE i <= gone
      <3>1. K(i) = na + i /\ ~(K(i) <= na)
        BY <2>1, <1>3, <1>4
      <3> QED
        BY <3>1, <2>1, <1>4, <1>7 DEF Holds
    <2>2. CASE ~(i <= gone)
      BY <2>2, <1>5, <1>7 DEF Holds
    <2> QED
      BY <2>1, <2>2
  <1>8. ASSUME NEW k, NEW v, v # Nil, Holds(tb, k, v)
        PROVE  \/ InArray(tb, k) /\ k <= na /\ tb.array[k] = v
               \/ \E i \in 1 .. T : K(i) = k /\ V(i) = v
    <2>1. CASE InArray(tb, k) /\ ~(k <= na)
      <3>1. k \in Nat /\ k > na /\ k <= A /\ tb.array[k] = v
        BY <2>1, <1>8, TableAssumption DEF InArray, Holds, A
      <3>2. k - na \in 1 .. T /\ k - na <= gone /\ na + (k - na) = k
        BY <3>1, <1>1, <1>2, <1>3
      <3>3. K(k - na) = k /\ V(k - na) = v
        BY <3>1, <3>2, <1>4
      <3> QED
        BY <3>2, <3>3
    <2>2. CASE ~InArray(tb, k)
      <3>1. PICK n \in Nodes(tb) : tb.node[n].key = k /\ tb.node[n].val = v
        BY <2>2, <1>8 DEF Holds
      <3> DEFINE i == gone + N + 1 - n
      <3>2. i \in 1 .. T /\ ~(i <= gone) /\ N + 1 - (i - gone) = n
        BY <1>1, <1>3 DEF Nodes, N
      <3> HIDE DEF i
      <3>3. K(i) = k /\ V(i) = v
        BY <3>1, <3>2, <1>5
      <3> QED
        BY <3>2, <3>3
    <2> QED
      BY <2>1, <2>2, <1>8 DEF Holds
  <1> QED
    BY <1>3, <1>6, <1>7, <1>8 DEF K, V, T, gone

\* One step of resize.
Refilled(tb, na, x, i) ==
  IF Entry(tb, na, i).val = Nil THEN x ELSE Reinsert(x, Entry(tb, na, i))
Refills(f, tb, na, nh, n) ==
  f = [i \in 0 .. n |-> IF i = 0 THEN Emptied(tb, na, nh) ELSE Refilled(tb, na, f[i - 1], i)]

\* The rounds of resize's reinsertion exist, for every number of them.
LEMMA Refill ==
    ASSUME NEW tb, NEW na, NEW nh, NEW n \in Nat
    PROVE  \E f : Refills(f, tb, na, nh, n)
  <1> DEFINE T == {m \in Nat : ~\E f : Refills(f, tb, na, nh, m)}
  <1>1. SUFFICES ASSUME T # {}
                 PROVE  FALSE
    OBVIOUS
  <1>2. PICK m \in T : \A k \in T : m <= k
    BY <1>1, Least
  <1>3. m # 0
    <2>1. Refills([i \in 0 .. 0 |-> Emptied(tb, na, nh)], tb, na, nh, 0)
      BY DEF Refills
    <2> QED
      BY <2>1, <1>2
  <1>4. m - 1 \in Nat /\ m - 1 \notin T
    BY <1>2, <1>3
  <1>5. PICK f : Refills(f, tb, na, nh, m - 1)
    BY <1>4
  <1>6. \A i \in 0 .. (m - 1) :
          f[i] = IF i = 0 THEN Emptied(tb, na, nh) ELSE Refilled(tb, na, f[i - 1], i)
    BY <1>5 DEF Refills
  <1> DEFINE g == [i \in 0 .. m |-> IF i = m THEN Refilled(tb, na, f[m - 1], m) ELSE f[i]]
  <1>7. \A i \in 0 .. m :
          g[i] = IF i = 0 THEN Emptied(tb, na, nh) ELSE Refilled(tb, na, g[i - 1], i)
    <2>1. TAKE i \in 0 .. m
    <2>2. CASE i = m
      <3>1. g[i] = Refilled(tb, na, f[m - 1], m) /\ g[m - 1] = f[m - 1]
        BY <2>2, <1>3, <1>4
      <3> QED
        BY <3>1, <2>2, <1>3
    <2>3. CASE i # m
      <3>1. i \in 0 .. (m - 1) /\ g[i] = f[i] /\ (i # 0 => g[i - 1] = f[i - 1])
        BY <2>3, <1>2
      <3> QED
        BY <3>1, <1>6
    <2> QED
      BY <2>2, <2>3
  <1>8. g = [i \in 0 .. m |-> g[i]]
    OBVIOUS
  <1> HIDE DEF g
  <1>9. Refills(g, tb, na, nh, m)
    BY <1>7, <1>8, Zenon DEF Refills
  <1> QED
    BY <1>2, <1>9

\* resize is the last of its rounds.
LEMMA ResizeIs ==
    ASSUME NEW tb, NEW na, NEW nh, Total(tb, na) \in Nat
    PROVE  \E f : /\ resize(tb, na, nh) = f[Total(tb, na)]
                  /\ f[0] = Emptied(tb, na, nh)
                  /\ \A i \in 1 .. Total(tb, na) : f[i] = Refilled(tb, na, f[i - 1], i)
  <1> DEFINE n == Total(tb, na)
             F == CHOOSE f : f = [i \in 0 .. n |-> IF i = 0 THEN Emptied(tb, na, nh)
                                                   ELSE Refilled(tb, na, f[i - 1], i)]
  <1>1. PICK f : Refills(f, tb, na, nh, n)
    BY Refill
  <1>2. F = [i \in 0 .. n |-> IF i = 0 THEN Emptied(tb, na, nh)
                              ELSE Refilled(tb, na, F[i - 1], i)]
    BY <1>1 DEF Refills
  <1>3. resize(tb, na, nh) = F[n]
    BY DEF resize, Total, Emptied, Refilled
  <1> HIDE DEF F, n
  <1>4. F[0] = Emptied(tb, na, nh) /\ \A i \in 1 .. n : F[i] = Refilled(tb, na, F[i - 1], i)
    BY <1>2 DEF n
  <1> QED
    BY <1>3, <1>4 DEF n

\* What the table x holds after i steps.
Kept(tb, na, H, i, x) ==
  /\ Sound(x) /\ sizearray(x) = na /\ x.flags = tb.flags /\ Room(x, H)
  /\ \A k \in DOMAIN hash : \A v : v # Nil =>
       (Get(x, k) = v <=> \/ InArray(tb, k) /\ k <= na /\ tb.array[k] = v
                          \/ \E j \in 1 .. i : /\ Entry(tb, na, j).key = k
                                               /\ Entry(tb, na, j).val = v)

\* One round of the reinsertion keeps what the rounds before it have put in.
LEMMA Keeps ==
    ASSUME hash \in Hashes, NEW tb, Sound(tb), NEW na \in Nat, NEW H,
           NEW i \in 1 .. Total(tb, na), NEW x, Kept(tb, na, H, i - 1, x),
           Entry(tb, na, i).val # Nil =>
             (Entry(tb, na, i).key \in IntKeys /\ Entry(tb, na, i).key <= na)
             \/ Entry(tb, na, i).key \in H,
           NEW y, y = Refilled(tb, na, x, i)
    PROVE  Kept(tb, na, H, i, y)
  <1> DEFINE k == Entry(tb, na, i).key
             v == Entry(tb, na, i).val
  <1>0. Total(tb, na) \in Nat /\ i \in Nat /\ i - 1 \in Nat
        /\ \A j : j \in 1 .. i <=> j \in 1 .. (i - 1) \/ j = i
    <2>1. Total(tb, na) \in Nat
      BY EntryIs
    <2> QED
      BY <2>1
  <1>1. CASE v = Nil
    <2>1. y = x
      BY <1>1 DEF Refilled
    <2>2. \A kk, w : w # Nil =>
            ((\E j \in 1 .. i : Entry(tb, na, j).key = kk /\ Entry(tb, na, j).val = w)
             <=> \E j \in 1 .. (i - 1) : Entry(tb, na, j).key = kk /\ Entry(tb, na, j).val = w)
      BY <1>0, <1>1
    <2> QED
      BY <2>1, <2>2 DEF Kept
  <1>2. CASE v # Nil
    <2>1. k \in DOMAIN hash /\ v \in Value /\ ~(InArray(tb, k) /\ k <= na)
          /\ \A j \in 1 .. Total(tb, na) :
               Entry(tb, na, j).val # Nil /\ Entry(tb, na, j).key = k => i = j
      BY <1>2, EntryIs
    <2>2. Sound(x) /\ sizearray(x) = na /\ x.flags = tb.flags /\ Room(x, H)
      BY DEF Kept
    <2>3. luaH_get(x, k) # NoSlot \/ newkey(x, k).slot # NoSlot
      <3>1. CASE k \in IntKeys /\ k <= na
        <4>1. luaH_get(x, k) = <<"array", k>>
          BY <3>1, <2>1, <2>2, Looks DEF InArray
        <4> QED
          BY <4>1 DEF NoSlot
      <3>2. CASE k \in H
        BY <3>2, <2>1, <2>2, HasRoom
      <3> QED
        BY <3>1, <3>2, <1>2
    <2>4. y = Reinsert(x, Entry(tb, na, i))
      BY <1>2 DEF Refilled
    <2> DEFINE entry == Entry(tb, na, i)
    <2>5. entry.key = k /\ entry.val = v /\ y = Reinsert(x, entry)
      BY <2>4
    <2> HIDE DEF k, v, entry
    <2>6. /\ Sound(y) /\ sizearray(y) = sizearray(x) /\ sizenode(y) = sizenode(x)
          /\ y.flags = x.flags /\ y.dummy = x.dummy
          /\ \A n \in Nodes(x) :
               \/ y.node[n].key = k /\ ~y.node[n].dead
               \/ \E m \in Nodes(x) : /\ y.node[n].key = x.node[m].key
                                      /\ y.node[n].dead = x.node[m].dead
          /\ \A j \in DOMAIN hash : Get(y, j) = IF j = k THEN v ELSE Get(x, j)
      BY <2>1, <2>2, <2>3, <2>5, Reinserts
    <2>7. Room(y, H)
      <3>1. Nodes(y) = Nodes(x) /\ sizearray(y) = na
        BY <2>2, <2>6 DEF Nodes
      <3>2. ASSUME NEW n \in Nodes(y), y.node[n].key # Nil
            PROVE  ~y.node[n].dead /\ y.node[n].key \in H
        <4>1. CASE y.node[n].key = k /\ ~y.node[n].dead
          <5>1. ~(k \in IntKeys /\ k <= na)
            <6>1. k \in IntKeys => k > na
              BY <4>1, <2>6, <3>1 DEF Sound, Held
            <6> QED
              BY <6>1, TableAssumption
          <5> QED
            BY <4>1, <5>1, <1>2 DEF k, v
        <4>2. CASE ~(y.node[n].key = k /\ ~y.node[n].dead)
          <5>1. PICK m \in Nodes(x) : y.node[n].key = x.node[m].key
                                      /\ y.node[n].dead = x.node[m].dead
            BY <4>2, <2>6, <3>1
          <5> QED
            BY <5>1, <3>2, <2>2 DEF Room
        <4> QED
          BY <4>1, <4>2
      <3> QED
        BY <2>2, <2>6, <3>2 DEF Room
    <2>8. ASSUME NEW j \in DOMAIN hash, NEW w, w # Nil
          PROVE  Get(y, j) = w <=> \/ InArray(tb, j) /\ j <= na /\ tb.array[j] = w
                                   \/ \E l \in 1 .. i : /\ Entry(tb, na, l).key = j
                                                        /\ Entry(tb, na, l).val = w
      <3>1. CASE j = k
        <4>1. Get(y, j) = v
          BY <3>1, <2>6
        <4>2. \A l \in 1 .. i : Entry(tb, na, l).key = j /\ Entry(tb, na, l).val = w => l = i
          BY <3>1, <2>1, <2>8, <1>0 DEF k
        <4> QED
          BY <3>1, <4>1, <4>2, <2>1, <1>0 DEF k, v
      <3>2. CASE j # k
        <4>1. Get(y, j) = Get(x, j)
          BY <3>2, <2>6
        <4>2. (\E l \in 1 .. i : Entry(tb, na, l).key = j /\ Entry(tb, na, l).val = w)
              <=> \E l \in 1 .. (i - 1) : Entry(tb, na, l).key = j /\ Entry(tb, na, l).val = w
          BY <3>2, <1>0 DEF k
        <4> QED
          BY <4>1, <4>2, <2>8 DEF Kept
      <3> QED
        BY <3>1, <3>2
    <2> QED
      BY <2>2, <2>6, <2>7, <2>8 DEF Kept
  <1> QED
    BY <1>1, <1>2

\* A table that is resized keeps what it holds when H has the keys of the
\* entries that are to go to the hash part, and these fit.
LEMMA Resizes ==
    ASSUME hash \in Hashes, NEW tb, Sound(tb), NEW na \in Nat, NEW nh \in Nat,
           NEW H, IsFiniteSet(H), Cardinality(H) <= nh,
           \A k \in DOMAIN hash : Get(tb, k) # Nil => (k \in IntKeys /\ k <= na) \/ k \in H,
           NEW x, x = resize(tb, na, nh)
    PROVE  /\ Sound(x) /\ sizearray(x) = na /\ x.flags = tb.flags /\ Room(x, H)
           /\ \A k \in DOMAIN hash : Get(x, k) = Get(tb, k)
  <1> DEFINE n == Total(tb, na)
  <1>1. n \in Nat
    BY EntryIs
  <1>2. PICK f : /\ resize(tb, na, nh) = f[n]
                 /\ f[0] = Emptied(tb, na, nh)
                 /\ \A i \in 1 .. n : f[i] = Refilled(tb, na, f[i - 1], i)
    BY <1>1, ResizeIs
  <1>3. Kept(tb, na, H, 0, f[0])
    <2> DEFINE y == f[0]
    <2>1. y = Emptied(tb, na, nh)
      BY <1>2
    <2> HIDE DEF y
    <2>2. /\ Sound(y) /\ sizearray(y) = na /\ sizenode(y) >= nh /\ (y.dummy <=> nh = 0)
          /\ y.flags = tb.flags /\ \A m \in Nodes(y) : y.node[m].key = Nil
          /\ Retained(tb, na, y)
      BY <2>1, EmptiedIs
    <2>3. sizenode(y) \in Nat /\ Cardinality(H) \in Nat
      BY <2>2, Parts, FS_CardinalityType DEF Sound
    <2>4. Room(y, H)
      BY <2>2, <2>3 DEF Room
    <2>5. \A j \in 1 .. 0 : FALSE
      OBVIOUS
    <2> QED
      BY <2>2, <2>4, <2>5 DEF Kept, Retained, y
  <1>4. ASSUME NEW i \in 1 .. n, Entry(tb, na, i).val # Nil
        PROVE  (Entry(tb, na, i).key \in IntKeys /\ Entry(tb, na, i).key <= na)
               \/ Entry(tb, na, i).key \in H
    <2> DEFINE k == Entry(tb, na, i).key
               v == Entry(tb, na, i).val
    <2>1. k \in DOMAIN hash /\ Holds(tb, k, v) /\ v # Nil
      BY <1>4, EntryIs
    <2> HIDE DEF k, v
    <2>2. Get(tb, k) = v
      BY <2>1, Reads
    <2> QED
      BY <2>1, <2>2 DEF k
  <1>5. \A i \in 0 .. n : Kept(tb, na, H, i, f[i])
    <2> DEFINE T == {i \in Nat : i <= n /\ ~Kept(tb, na, H, i, f[i])}
    <2>1. SUFFICES ASSUME T # {}
                   PROVE  FALSE
      BY <1>1
    <2>2. PICK i \in T : \A j \in T : i <= j
      BY <2>1, Least
    <2>3. i # 0
      BY <2>2, <1>3
    <2>4. i - 1 \in Nat /\ i - 1 \notin T /\ i \in 1 .. n
      BY <2>2, <2>3, <1>1
    <2>5. Kept(tb, na, H, i - 1, f[i - 1]) /\ f[i] = Refilled(tb, na, f[i - 1], i)
      BY <2>4, <1>1, <1>2
    <2>6. Kept(tb, na, H, i, f[i])
      BY <2>4, <2>5, <1>4, Keeps
    <2> QED
      BY <2>2, <2>6
  <1>6. Kept(tb, na, H, n, x)
    BY <1>1, <1>2, <1>5
  <1>7. ASSUME NEW k \in DOMAIN hash
        PROVE  Get(x, k) = Get(tb, k)
    <2>1. ASSUME NEW v, v # Nil
          PROVE  Get(x, k) = v <=> Get(tb, k) = v
      <3>1. Get(tb, k) = v <=> Holds(tb, k, v)
        BY <2>1, Reads
      <3>2. Get(x, k) = v <=> \/ InArray(tb, k) /\ k <= na /\ tb.array[k] = v
                              \/ \E j \in 1 .. n : /\ Entry(tb, na, j).key = k
                                                   /\ Entry(tb, na, j).val = v
        BY <2>1, <1>6 DEF Kept
      <3>3. Holds(tb, k, v) => \/ InArray(tb, k) /\ k <= na /\ tb.array[k] = v
                               \/ \E j \in 1 .. n : /\ Entry(tb, na, j).key = k
                                                    /\ Entry(tb, na, j).val = v
        BY <2>1, EntryIs
      <3>4. \A j \in 1 .. n : Entry(tb, na, j).key = k /\ Entry(tb, na, j).val = v
                              => Holds(tb, k, v)
        BY <2>1, EntryIs
      <3>5. InArray(tb, k) /\ tb.array[k] = v => Holds(tb, k, v)
        BY DEF Holds
      <3> QED
        BY <3>1, <3>2, <3>3, <3>4, <3>5
    <2> QED
      BY <2>1
  <1> QED
    BY <1>6, <1>7 DEF Kept

\* The keys of the nodes in use.
Used(tb) == {tb.node[i].key : i \in {j \in 1 .. sizenode(tb) : tb.node[j].val # Nil}}

\* The keys of the nodes in use: at most one for each node.
LEMMA UsedIs ==
    ASSUME hash \in Hashes, NEW tb, Sound(tb)
    PROVE  /\ IsFiniteSet(Used(tb)) /\ Cardinality(Used(tb)) <= IF tb.dummy THEN 0 ELSE sizenode(tb)
           /\ \A k \in DOMAIN hash : Get(tb, k) # Nil =>
                (InArray(tb, k) /\ tb.array[k] # Nil) \/ k \in Used(tb)
  <1> DEFINE N == sizenode(tb)
             J == {j \in 1 .. N : tb.node[j].val # Nil}
             U == Used(tb)
             f == [i \in J |-> tb.node[i].key]
  <1>1. N \in Nat \ {0} /\ Shaped(tb)
    BY Parts DEF Sound
  <1>2. IsFiniteSet(1 .. N) /\ Cardinality(1 .. N) = N
    BY <1>1, FS_Interval
  <1>3. IsFiniteSet(J) /\ Cardinality(J) <= N /\ Cardinality(J) \in Nat
    <2>1. J \in SUBSET (1 .. N)
      OBVIOUS
    <2> QED
      BY <2>1, <1>2, FS_Subset, FS_CardinalityType
  <1>4. tb.dummy => J = {}
    <2>1. tb.dummy => N = 1 /\ tb.node[1].val = Nil
      BY <1>1 DEF Shaped, EmptyNode
    <2> QED
      BY <2>1
  <1>5. f \in Surjection(J, U)
    <2>1. U = {tb.node[i].key : i \in J}
      BY DEF Used
    <2> QED
      BY <2>1 DEF Surjection
  <1>6. IsFiniteSet(U) /\ Cardinality(U) <= Cardinality(J) /\ Cardinality(U) \in Nat
    <2> HIDE DEF U, J, f
    <2>1. IsFiniteSet(U) /\ Cardinality(U) <= Cardinality(J)
      BY <1>3, <1>5, FS_Surjection
    <2> QED
      BY <2>1, FS_CardinalityType
  <1>7. tb.dummy => Cardinality(J) = 0
    BY <1>4, FS_EmptySet
  <1>8. ASSUME NEW k \in DOMAIN hash, Get(tb, k) # Nil
        PROVE  (InArray(tb, k) /\ tb.array[k] # Nil) \/ k \in U
    <2> DEFINE v == Get(tb, k)
    <2>1. v # Nil /\ (Get(tb, k) = v <=> Holds(tb, k, v))
      BY <1>8, Reads
    <2>2. Holds(tb, k, v)
      BY <2>1
    <2> HIDE DEF v
    <2> QED
      BY <2>1, <2>2 DEF Holds, Used, Nodes
  <1> HIDE DEF J, N
  <1> QED
    BY <1>1, <1>3, <1>6, <1>7, <1>8 DEF N

\* luaH_resizearray.
LEMMA Resized ==
    ASSUME hash \in Hashes, NEW tb, Sound(tb), NEW na \in Nat, na >= sizearray(tb),
           NEW x, x = resize(tb, na, IF tb.dummy THEN 0 ELSE sizenode(tb))
    PROVE  /\ Sound(x) /\ x.flags = tb.flags
           /\ \A k \in DOMAIN hash : Get(x, k) = Get(tb, k)
  <1> DEFINE nh == IF tb.dummy THEN 0 ELSE sizenode(tb)
             H == Used(tb)
  <1>1. nh \in Nat /\ IsFiniteSet(H) /\ Cardinality(H) <= nh /\ sizearray(tb) \in Nat
    BY Parts, UsedIs DEF Sound
  <1>2. \A k \in DOMAIN hash : Get(tb, k) # Nil => (k \in IntKeys /\ k <= na) \/ k \in H
    <2>1. \A k : InArray(tb, k) => k \in IntKeys /\ k <= na
      BY <1>1, TableAssumption DEF InArray
    <2> QED
      BY <2>1, UsedIs
  <1>3. x = resize(tb, na, nh)
    OBVIOUS
  <1> HIDE DEF nh, H
  <1> QED
    BY <1>1, <1>2, <1>3, Resizes

\* The loop of computesizes.
SizedNext(keys, s, i) ==
  LET twotoi == twoto[i - 1]
      a == s.a + Cardinality(Slice(keys, i - 1))
  IN  IF twotoi \div 2 >= Cardinality(ArrayIndices(keys))
         \/ s.a = Cardinality(ArrayIndices(keys)) THEN s
      ELSE [a |-> a, n |-> IF a > s.a /\ a > twotoi \div 2 THEN twotoi ELSE s.n]

Sizes(f, keys, n) ==
  f = [i \in 0 .. n |-> IF i = 0 THEN [a |-> 0, n |-> 0] ELSE SizedNext(keys, f[i - 1], i)]

\* The rounds of computesizes exist, for every number of them.
LEMMA SizesExist ==
    ASSUME NEW keys, NEW n \in Nat
    PROVE  \E f : Sizes(f, keys, n)
  <1> DEFINE T == {m \in Nat : ~\E f : Sizes(f, keys, m)}
  <1>1. SUFFICES ASSUME T # {}
                 PROVE  FALSE
    OBVIOUS
  <1>2. PICK m \in T : \A k \in T : m <= k
    BY <1>1, Least
  <1>3. m # 0
    <2>1. Sizes([i \in 0 .. 0 |-> [a |-> 0, n |-> 0]], keys, 0)
      BY DEF Sizes
    <2> QED
      BY <2>1, <1>2
  <1>4. m - 1 \in Nat /\ m - 1 \notin T
    BY <1>2, <1>3
  <1>5. PICK f : Sizes(f, keys, m - 1)
    BY <1>4
  <1>6. \A i \in 0 .. (m - 1) :
          f[i] = IF i = 0 THEN [a |-> 0, n |-> 0] ELSE SizedNext(keys, f[i - 1], i)
    BY <1>5 DEF Sizes
  <1> DEFINE g == [i \in 0 .. m |-> IF i = m THEN SizedNext(keys, f[m - 1], m) ELSE f[i]]
  <1>7. \A i \in 0 .. m :
          g[i] = IF i = 0 THEN [a |-> 0, n |-> 0] ELSE SizedNext(keys, g[i - 1], i)
    <2>1. TAKE i \in 0 .. m
    <2>2. CASE i = m
      <3>1. g[i] = SizedNext(keys, f[m - 1], m) /\ g[m - 1] = f[m - 1]
        BY <2>2, <1>3, <1>4
      <3> QED
        BY <3>1, <2>2, <1>3
    <2>3. CASE i # m
      <3>1. i \in 0 .. (m - 1) /\ g[i] = f[i] /\ (i # 0 => g[i - 1] = f[i - 1])
        BY <2>3, <1>2
      <3> QED
        BY <3>1, <1>6
    <2> QED
      BY <2>2, <2>3
  <1>8. g = [i \in 0 .. m |-> g[i]]
    OBVIOUS
  <1> HIDE DEF g
  <1>9. Sizes(g, keys, m)
    BY <1>7, <1>8, Zenon DEF Sizes
  <1> QED
    BY <1>2, <1>9

\* computesizes is the last of its rounds.
LEMMA SizeLoop ==
    ASSUME NEW keys
    PROVE  \E F : /\ computesizes(keys) = F[MaxBits + 1].n /\ F[0] = [a |-> 0, n |-> 0]
                  /\ \A i \in 1 .. (MaxBits + 1) : F[i] = SizedNext(keys, F[i - 1], i)
  <1> DEFINE n == MaxBits + 1
             F == CHOOSE f : f = [i \in 0 .. n |-> IF i = 0 THEN [a |-> 0, n |-> 0]
                                                   ELSE SizedNext(keys, f[i - 1], i)]
  <1>1. n \in Nat
    BY TableAssumption
  <1>2. F = [i \in 0 .. n |-> IF i = 0 THEN [a |-> 0, n |-> 0] ELSE SizedNext(keys, F[i - 1], i)]
    BY <1>1, SizesExist DEF Sizes
  <1>3. computesizes(keys) = F[n].n
    BY DEF computesizes, SizedNext
  <1> HIDE DEF F, n
  <1>4. F[0] = [a |-> 0, n |-> 0] /\ \A i \in 1 .. n : F[i] = SizedNext(keys, F[i - 1], i)
    BY <1>1, <1>2
  <1> QED
    BY <1>3, <1>4 DEF n

\* The size that computesizes comes to.
LEMMA SizeIs ==
    ASSUME NEW keys
    PROVE  computesizes(keys) \in Nat
  <1> DEFINE n == MaxBits + 1
  <1>1. n \in Nat
    BY TableAssumption
  <1>2. PICK F : /\ computesizes(keys) = F[n].n /\ F[0] = [a |-> 0, n |-> 0]
                 /\ \A i \in 1 .. n : F[i] = SizedNext(keys, F[i - 1], i)
    BY SizeLoop
  <1> HIDE DEF n
  <1> DEFINE T == {i \in Nat : i <= n /\ F[i].n \notin Nat}
  <1>3. T = {}
    <2>1. SUFFICES ASSUME T # {}
                   PROVE  FALSE
      OBVIOUS
    <2>2. PICK i \in T : \A j \in T : i <= j
      BY <2>1, Least
    <2>3. i # 0
      BY <2>2, <1>2
    <2>4. i - 1 \in Nat /\ i - 1 \notin T /\ i \in 1 .. n
      BY <2>2, <2>3, <1>1
    <2>5. F[i - 1].n \in Nat /\ F[i] = SizedNext(keys, F[i - 1], i) /\ twoto[i - 1] \in Nat
      BY <2>4, <1>1, <1>2, TwoTo
    <2>6. F[i].n \in {F[i - 1].n, twoto[i - 1]}
      BY <2>5 DEF SizedNext
    <2> QED
      BY <2>2, <2>5, <2>6
  <1> QED
    BY <1>1, <1>2, <1>3

\* A rehash makes room for the key it is done for.
LEMMA Rehashes ==
    ASSUME hash \in Hashes, NEW tb, Sound(tb), NEW k \in DOMAIN hash, NEW x, x = rehash(tb, k)
    PROVE  /\ Sound(x) /\ x.flags = tb.flags
           /\ \A j \in DOMAIN hash : Get(x, j) = Get(tb, j)
           /\ luaH_get(x, k) # NoSlot \/ newkey(x, k).slot # NoSlot
  <1> DEFINE keys == Present(tb) \cup {k}
             nasize == computesizes(keys)
             A == {j \in ArrayIndices(keys) : j <= nasize}
             nh == Cardinality(keys) - Cardinality(A)
             H == keys \ A
  <1>1. IsFiniteSet(keys)
    <2> DEFINE B == {i \in 1 .. sizearray(tb) : tb.array[i] # Nil}
               D == 1 .. sizearray(tb)
               U == Used(tb)
    <2>1. keys = (B \cup U) \cup {k}
      BY DEF Present, Used
    <2>2. IsFiniteSet(D) /\ B \in SUBSET D
      BY Parts, FS_Interval DEF Sound
    <2>3. IsFiniteSet(U)
      BY UsedIs
    <2> HIDE DEF B, D, U, keys
    <2>4. IsFiniteSet(B)
      BY <2>2, FS_Subset
    <2>5. IsFiniteSet(B \cup U)
      BY <2>3, <2>4, FS_Union
    <2> QED
      BY <2>1, <2>5, FS_AddElement
  <1>2. nasize \in Nat
    BY SizeIs
  <1>3. x = resize(tb, nasize, nh)
    BY DEF rehash
  <1>4. A \in SUBSET keys
    BY DEF ArrayIndices
  <1>5. \A j \in DOMAIN hash : Get(tb, j) # Nil => j \in keys
    <2>1. ASSUME NEW j \in DOMAIN hash, Get(tb, j) # Nil
          PROVE  j \in keys
      <3>1. (InArray(tb, j) /\ tb.array[j] # Nil) \/ j \in Used(tb)
        BY <2>1, UsedIs
      <3>2. InArray(tb, j) => j \in 1 .. sizearray(tb)
        BY TableAssumption, Parts DEF InArray, Sound
      <3> QED
        BY <3>1, <3>2 DEF Present, Used
    <2> QED
      BY <2>1
  <1>6. k \in keys /\ \A j \in keys : (j \in IntKeys /\ j <= nasize) \/ j \in H
    BY DEF ArrayIndices
  <1> HIDE DEF keys, nasize, A
  <1>7. IsFiniteSet(H) /\ Cardinality(H) = nh /\ nh \in Nat
    <2>1. /\ IsFiniteSet(keys \ A)
          /\ Cardinality(keys \ A) = Cardinality(keys) - Cardinality(keys \cap A)
      BY <1>1, FS_Difference
    <2>2. keys \cap A = A
      BY <1>4
    <2>3. Cardinality(keys \ A) \in Nat
      BY <2>1, FS_CardinalityType
    <2> QED
      BY <2>1, <2>2, <2>3
  <1> HIDE DEF nh, H
  <1>8. /\ Sound(x) /\ sizearray(x) = nasize /\ x.flags = tb.flags /\ Room(x, H)
        /\ \A j \in DOMAIN hash : Get(x, j) = Get(tb, j)
    <2>1. \A j \in DOMAIN hash : Get(tb, j) # Nil => (j \in IntKeys /\ j <= nasize) \/ j \in H
      BY <1>5, <1>6
    <2>2. Cardinality(H) <= nh
      BY <1>7
    <2> QED
      BY <1>2, <1>3, <1>7, <2>1, <2>2, Resizes
  <1>9. luaH_get(x, k) # NoSlot \/ newkey(x, k).slot # NoSlot
    <2>1. CASE k \in IntKeys /\ k <= nasize
      <3>1. luaH_get(x, k) = <<"array", k>>
        BY <2>1, <1>8, Looks DEF InArray
      <3> QED
        BY <3>1 DEF NoSlot
    <2>2. CASE k \in H
      BY <2>2, <1>8, HasRoom
    <2> QED
      BY <2>1, <2>2, <1>6
  <1> QED
    BY <1>8, <1>9

\* luaH_set and the assignment: the key has the value, the others what they had.
LEMMA Stores ==
    ASSUME hash \in Hashes, NEW tb, Sound(tb), NEW k \in DOMAIN hash, NEW v \in Value \cup {Nil},
           NEW x, x = Store(tb, k, v)
    PROVE  /\ Sound(x) /\ x.flags = tb.flags
           /\ \A j \in DOMAIN hash : Get(x, j) = IF j = k THEN v ELSE Get(tb, j)
           /\ luaH_get(tb, k) # NoSlot => x = Put(tb, luaH_get(tb, k), v)
  <1> DEFINE entry == [key |-> k, val |-> v]
             y == IF NeedsRehash(tb, k) THEN rehash(tb, k) ELSE tb
  <1>1. x = Reinsert(y, entry) /\ entry.key = k /\ entry.val = v
    BY DEF Store
  <1>2. /\ Sound(y) /\ y.flags = tb.flags
        /\ \A j \in DOMAIN hash : Get(y, j) = Get(tb, j)
        /\ luaH_get(y, k) # NoSlot \/ newkey(y, k).slot # NoSlot
    <2>1. CASE NeedsRehash(tb, k)
      <3>1. y = rehash(tb, k)
        BY <2>1
      <3> HIDE DEF y
      <3> QED
        BY <3>1, Rehashes
    <2>2. CASE ~NeedsRehash(tb, k)
      BY <2>2 DEF NeedsRehash
    <2> QED
      BY <2>1, <2>2
  <1>3. luaH_get(tb, k) # NoSlot => x = Put(tb, luaH_get(tb, k), v)
    BY DEF Store, NeedsRehash, Reinsert
  <1> HIDE DEF entry, y
  <1>4. /\ Sound(x) /\ x.flags = y.flags
        /\ \A j \in DOMAIN hash : Get(x, j) = IF j = k THEN v ELSE Get(y, j)
    BY <1>1, <1>2, Reinserts
  <1> QED
    BY <1>2, <1>3, <1>4
------------------------------------------------------------------------------
(* Traversing *)

\* An entry with a value is where findindex finds its key, and what is read.
LEMMA FindsEntry ==
    ASSUME hash \in Hashes, NEW tb, Sound(tb), NEW j \in Entries(tb), EntryAt(tb, j).val # Nil
    PROVE  /\ EntryAt(tb, j).key \in DOMAIN hash
           /\ findindex(tb, EntryAt(tb, j).key) = j
           /\ Get(tb, EntryAt(tb, j).key) = EntryAt(tb, j).val
  <1> DEFINE A == sizearray(tb)
             N == sizenode(tb)
             k == EntryAt(tb, j).key
             v == EntryAt(tb, j).val
  <1>1. A \in Nat /\ N \in Nat \ {0} /\ Len(tb.node) = N /\ Shaped(tb) /\ Held(tb)
    BY Parts DEF Sound
  <1>2. Nil \notin DOMAIN hash
    BY TableAssumption
  <1>3. CASE j <= A
    <2>1. k = j /\ v = tb.array[j]
      BY <1>3 DEF EntryAt
    <2>2. j \in 1 .. A
      BY <1>1, <1>3 DEF Entries
    <2> HIDE DEF k, v
    <2>3. k \in IntKeys /\ k \in DOMAIN hash /\ k # Nil
      BY <2>1, <2>2, <1>1, <1>2 DEF Held, v
    <2>4. findindex(tb, k) = k
      BY <2>1, <2>3, <1>3 DEF findindex
    <2>5. Holds(tb, k, v)
      BY <2>1, <2>3, <1>3 DEF Holds, InArray
    <2> QED
      BY <2>1, <2>3, <2>4, <2>5, Reads DEF k, v
  <1>4. CASE ~(j <= A)
    <2> DEFINE n == j - A
               S == {i \in 1 .. N : tb.node[i].key = k}
               h == mainposition(tb, k)
    <2>1. k = tb.node[n].key /\ v = tb.node[n].val
      BY <1>4 DEF EntryAt
    <2>2. n \in Nodes(tb) /\ n \in 1 .. N /\ A + n = j
      BY <1>1, <1>4 DEF Entries, Nodes
    <2> HIDE DEF k, v, n
    <2>3. k \in DOMAIN hash /\ k # Nil /\ ~tb.node[n].dead /\ (k \in IntKeys => k > A)
      BY <2>1, <2>2, <1>1, <1>2 DEF Held, v
    <2>4. ~(k \in IntKeys /\ k <= A)
      BY <2>3, <1>1, TableAssumption
    <2>5. PICK B, e, R : Chained(tb, B, e, R)
      BY DEF Sound
    <2>6. Falls(tb.node, B, e) /\ Reached(tb.node, e, R)
      BY <1>1, <2>5, Ranked
    <2>7. h \in Nodes(tb) /\ h \in 1 .. N
      BY <1>1, <2>3, MainIn DEF Nodes
    <2>8. <<h, n>> \in R
      BY <2>1, <2>2, <2>3, <2>5 DEF Chained
    <2>9. n \in S /\ n \in 1 .. Len(tb.node) /\ h \in 1 .. Len(tb.node)
      BY <1>1, <2>1, <2>2, <2>7
    <2> DEFINE m == Search(tb.node, h, S)
    <2> HIDE DEF h, S
    <2>10. m \in S \cap 1 .. Len(tb.node) /\ (m = n \/ e[n] < e[m])
      BY <2>6, <2>8, <2>9, FindsFirst
    <2>11. m \in Nodes(tb) /\ tb.node[m].key = k
      BY <1>1, <2>10 DEF S, Nodes
    <2> HIDE DEF m
    <2>12. m = n
      <3>1. SUFFICES ASSUME m # n
                     PROVE  FALSE
        OBVIOUS
      <3>2. tb.node[m].dead
        BY <3>1, <2>1, <2>2, <2>3, <2>11 DEF Sound, Apart
      <3>3. e[m] < e[n] /\ e[n] < e[m]
        BY <3>1, <3>2, <2>1, <2>2, <2>3, <2>5, <2>10, <2>11 DEF Chained
      <3>4. e[m] \in Int /\ e[n] \in Int
        BY <2>2, <2>5, <2>11 DEF Chained
      <3> QED
        BY <3>3, <3>4
    <2>13. findindex(tb, k) = IF m = 0 THEN -1 ELSE A + m
      BY <2>3, <2>4 DEF findindex, m, S, h
    <2>14. findindex(tb, k) = j
      BY <2>2, <2>12, <2>13
    <2>15. Holds(tb, k, v)
      BY <2>1, <2>2, <2>4 DEF Holds, InArray
    <2>16. Get(tb, k) = v
      BY <2>3, <2>15, <1>4, Reads DEF v
    <2> QED
      BY <2>3, <2>14, <2>16 DEF k, v
  <1> QED
    BY <1>3, <1>4

\* What is read is in an entry.
LEMMA HasEntry ==
    ASSUME hash \in Hashes, NEW tb, Sound(tb), NEW k \in DOMAIN hash, Get(tb, k) # Nil
    PROVE  \E j \in Entries(tb) : EntryAt(tb, j).key = k /\ EntryAt(tb, j).val # Nil
  <1> DEFINE A == sizearray(tb)
             N == sizenode(tb)
  <1>1. A \in Nat /\ N \in Nat \ {0}
    BY Parts DEF Sound
  <1>2. CASE InArray(tb, k) /\ tb.array[k] # Nil
    <2>1. k \in Entries(tb) /\ k <= A
      BY <1>1, <1>2, TableAssumption DEF InArray, Entries
    <2>2. EntryAt(tb, k).key = k /\ EntryAt(tb, k).val = tb.array[k]
      BY <2>1 DEF EntryAt
    <2> QED
      BY <1>2, <2>1, <2>2
  <1>3. CASE k \in Used(tb)
    <2>1. PICK n \in 1 .. N : tb.node[n].key = k /\ tb.node[n].val # Nil
      BY <1>3 DEF Used
    <2> DEFINE j == A + n
    <2>2. j \in Entries(tb) /\ ~(j <= A) /\ j - A = n
      BY <1>1 DEF Entries
    <2> HIDE DEF j
    <2>3. EntryAt(tb, j).key = k /\ EntryAt(tb, j).val = tb.node[n].val
      BY <2>1, <2>2 DEF EntryAt
    <2> QED
      BY <2>1, <2>2, <2>3
  <1> QED
    BY <1>2, <1>3, UsedIs

\* A traversal goes on when the keys stay where they are and no entry gets a
\* value that had none.
LEMMA WalksOn ==
    ASSUME hash \in Hashes, NEW tb, Sound(tb), NEW x, Alike(tb, x), NEW w, Walks(tb, w),
           w.at \in Key \cup {Nil},
           \A i \in 1 .. sizearray(tb) : x.array[i] # Nil => tb.array[i] # Nil,
           \A n \in Nodes(tb) : x.node[n].val # Nil => tb.node[n].val # Nil
    PROVE  Walks(x, w)
  <1>1. SUFFICES ASSUME w.on
                 PROVE  Walks(x, w)
    BY DEF Walks
  <1>2. /\ w.ok /\ w.at \in DOMAIN hash \cup {Nil}
        /\ findindex(tb, w.at) \in Nat
        /\ \A j \in Entries(tb) : EntryAt(tb, j).val # Nil =>
             (j <= findindex(tb, w.at) <=> EntryAt(tb, j).key \in w.seen)
    BY <1>1 DEF Walks
  <1>3. findindex(x, w.at) = findindex(tb, w.at)
    BY <1>2, FindSame
  <1>4. Entries(x) = Entries(tb) /\ sizearray(x) = sizearray(tb)
    BY DEF Entries, Alike
  <1>5. ASSUME NEW j \in Entries(tb), EntryAt(x, j).val # Nil
        PROVE  EntryAt(x, j).key = EntryAt(tb, j).key /\ EntryAt(tb, j).val # Nil
    <2>1. sizearray(tb) \in Nat /\ sizenode(tb) \in Nat
      BY Parts DEF Sound
    <2>2. CASE j <= sizearray(tb)
      <3>1. j \in 1 .. sizearray(tb)
        BY <2>1, <2>2 DEF Entries
      <3> QED
        BY <3>1, <2>2, <1>4, <1>5 DEF EntryAt
    <2>3. CASE ~(j <= sizearray(tb))
      <3>1. j - sizearray(tb) \in Nodes(tb)
        BY <2>1, <2>3 DEF Entries, Nodes
      <3> QED
        BY <3>1, <2>3, <1>4, <1>5 DEF EntryAt, Alike
    <2> QED
      BY <2>2, <2>3
  <1> QED
    BY <1>1, <1>2, <1>3, <1>4, <1>5 DEF Walks

\* The cache of absent metamethods changes.
LEMMA Flags ==
    ASSUME hash \in Hashes, NEW tb, Sound(tb), NEW F \in SUBSET Events,
           NEW x, x = [tb EXCEPT !.flags = F]
    PROVE  /\ Alike(tb, x) /\ Sound(x) /\ x.flags = F /\ x.array = tb.array /\ x.node = tb.node
           /\ \A k \in DOMAIN hash : Get(x, k) = Get(tb, k)
  <1>1. tb \in Tables /\ Shaped(tb) /\ Held(tb) /\ sizenode(tb) \in Nat /\ sizearray(tb) \in Nat
    BY Parts DEF Sound, Shaped
  <1>2. /\ x \in Tables /\ x.flags = F /\ x.array = tb.array /\ x.node = tb.node
        /\ x.nested = tb.nested /\ x.lastfree = tb.lastfree /\ x.dummy = tb.dummy
    BY <1>1 DEF Tables
  <1>3. sizearray(x) = sizearray(tb) /\ sizenode(x) = sizenode(tb) /\ Nodes(x) = Nodes(tb)
    BY <1>2 DEF sizearray, sizenode, Nodes
  <1>4. Alike(tb, x)
    BY <1>1, <1>2, <1>3 DEF Alike, Held
  <1>5. Sound(x)
    <2>1. \A i \in 1 .. sizearray(tb) : x.array[i] # Nil => i \in IntKeys \cap DOMAIN hash
      BY <1>1, <1>2 DEF Held
    <2> QED
      BY <1>4, <2>1, SoundAlike
  <1>6. ASSUME NEW k \in DOMAIN hash
        PROVE  Get(x, k) = Get(tb, k)
    <2>1. \A v : v # Nil => (Holds(tb, k, v) <=> Holds(x, k, v))
      BY <1>2, <1>3 DEF Holds, InArray
    <2> QED
      BY <1>5, <2>1, ReadsSame
  <1> QED
    BY <1>2, <1>4, <1>5, <1>6

\* An assignment to a field that exists stays in its slot.
LEMMA StaysPut ==
    ASSUME hash \in Hashes, NEW tb, Sound(tb), NEW k \in DOMAIN hash, Get(tb, k) # Nil,
           NEW v \in Value \cup {Nil}, NEW x, x = Store(tb, k, v)
    PROVE  /\ Alike(tb, x)
           /\ \A i \in 1 .. sizearray(tb) : x.array[i] # Nil => tb.array[i] # Nil
           /\ \A n \in Nodes(tb) : x.node[n].val # Nil => tb.node[n].val # Nil
  <1>1. luaH_get(tb, k) # NoSlot
    BY Reads
  <1>2. x = Put(tb, luaH_get(tb, k), v) /\ Alike(tb, x)
    BY <1>1, Stores, Puts
  <1>3. tb \in Tables /\ tb.array \in Seq(Value \cup {Nil}) /\ tb.node \in Seq(Slots)
    BY DEF Sound, Shaped, Tables
  <1>4. CASE InArray(tb, k)
    <2>1. luaH_get(tb, k) = <<"array", k>>
      BY <1>4, Looks
    <2>2. x = [tb EXCEPT !.array[k] = v] /\ tb.array[k] # Nil
      BY <2>1, <1>2 DEF Put, Get, At
    <2>3. x.node = tb.node /\ x.array = [tb.array EXCEPT ![k] = v]
      BY <2>2, <1>3 DEF Tables
    <2>4. \A i \in 1 .. sizearray(tb) : x.array[i] # Nil => tb.array[i] # Nil
      BY <2>2, <2>3, <1>3 DEF sizearray
    <2> QED
      BY <2>3, <2>4, <1>2
  <1>5. CASE ~InArray(tb, k)
    <2>1. PICK n : n \in HasKey(tb, k)
      BY <1>1, <1>5, Looks
    <2>2. luaH_get(tb, k) = <<"node", n>>
      BY <2>1, <1>5, Looks
    <2>3. x = [tb EXCEPT !.node[n].val = v] /\ tb.node[n].val # Nil
      BY <2>2, <1>2 DEF Put, Get, At
    <2>4. x.array = tb.array /\ x.node = [tb.node EXCEPT ![n].val = v]
      BY <2>3, <1>3 DEF Tables
    <2>5. \A m \in Nodes(tb) : m # n => x.node[m] = tb.node[m]
      BY <2>4, <1>3 DEF Nodes, sizenode
    <2> QED
      BY <2>3, <2>4, <2>5, <1>2
  <1> QED
    BY <1>4, <1>5
------------------------------------------------------------------------------
(* The steps *)

\* The hash function does not change.
LEMMA SameHash ==
    ASSUME hash' = hash
    PROVE  Right(t, view, walk)' <=> Right(t', view', walk')
  <1>1. \A k : mainposition(t, k)' = mainposition(t', k)
    BY DEF mainposition, sizenode
  <1>2. Shaped(t)' <=> Shaped(t')
    BY DEF Shaped, Tables, sizenode
  <1>3. Held(t)' <=> Held(t')
    BY DEF Held, Nodes, sizenode, sizearray
  <1>4. Apart(t)' <=> Apart(t')
    BY DEF Apart, Nodes, sizenode
  <1>5. AtHome(t)' <=> AtHome(t')
    BY <1>1 DEF AtHome, Nodes, sizenode
  <1>6. (\E B, e, R : Chained(t, B, e, R))' <=> \E B, e, R : Chained(t', B, e, R)
    <2>1. ASSUME NEW B, NEW e, NEW R
          PROVE  Chained(t, B, e, R)' <=> Chained(t', B, e, R)
      BY <1>1 DEF Chained, Nodes, sizenode
    <2> QED
      BY <2>1
  <1>7. Sound(t)' <=> Sound(t')
    BY <1>2, <1>3, <1>4, <1>5, <1>6 DEF Sound
  <1>8. \A k : Get(t, k)' = Get(t', k)
    <2>1. ASSUME NEW k
          PROVE  luaH_get(t, k)' = luaH_get(t', k)
      <3>1. HasKey(t, k)' = HasKey(t', k) /\ sizearray(t)' = sizearray(t')
        BY DEF HasKey, sizenode, sizearray
      <3>2. mainposition(t, k)' = mainposition(t', k)
        BY <1>1
      <3> QED
        BY <3>1, <3>2 DEF luaH_get, Search
    <2> QED
      BY <2>1 DEF Get, At
  <1>9. View(t)' = View(t')
    BY <1>8 DEF View
  <1>10. \A k : findindex(t, k)' = findindex(t', k)
    BY <1>1 DEF findindex, sizearray, sizenode, Search
  <1>11. Walks(t, walk)' <=> Walks(t', walk')
    BY <1>10 DEF Walks, Entries, EntryAt, sizearray, sizenode
  <1> QED
    BY <1>7, <1>9, <1>11 DEF Right, Walkers

\* Tables that read the same have the same view.
LEMMA ViewSame ==
    ASSUME hash \in Hashes, NEW tb, NEW x, \A k \in DOMAIN hash : Get(x, k) = Get(tb, k)
    PROVE  View(x) = View(tb)
  BY DEF View

\* The view of a sound table is a function that agrees with luaH_get.
LEMMA ViewIs ==
    ASSUME hash \in Hashes, NEW tb, Sound(tb)
    PROVE  /\ View(tb) \in [Key -> Value \cup {Nil}]
           /\ \A k \in DOMAIN hash : View(tb)[k] = Get(tb, k)
           /\ \A k \in Key : View(tb)[k] # Nil => k \in DOMAIN hash
  <1>1. DOMAIN hash \subseteq Key
    BY TableAssumption
  <1>2. \A k \in DOMAIN hash : Get(tb, k) \in Value \cup {Nil}
    BY Reads
  <1> QED
    BY <1>1, <1>2 DEF View

\* Assign and AssignNum, but for the cache of absent metamethods.
LEMMA Assigns ==
    ASSUME hash \in Hashes, NEW tb, NEW vw, NEW w, Right(tb, vw, w),
           NEW k \in DOMAIN hash, NEW v \in Value \cup {Nil}, NEW x, x = Store(tb, k, v),
           NEW w2, w2 = IF vw[k] = Nil THEN Off ELSE w
    PROVE  /\ Right(x, View(x), w2) /\ x.flags = tb.flags
           /\ View(x) = [vw EXCEPT ![k] = v]
  <1>1. Sound(tb) /\ vw = View(tb) /\ w \in Walkers /\ Walks(tb, w)
    BY DEF Right
  <1>2. /\ Sound(x) /\ x.flags = tb.flags
        /\ \A j \in DOMAIN hash : Get(x, j) = IF j = k THEN v ELSE Get(tb, j)
    BY <1>1, Stores
  <1>3. View(x) = [vw EXCEPT ![k] = v]
    <2>1. vw = [j \in Key |-> IF j \in DOMAIN hash THEN Get(tb, j) ELSE Nil]
      BY <1>1 DEF View
    <2>2. View(x) = [j \in Key |-> IF j \in DOMAIN hash THEN Get(x, j) ELSE Nil]
      BY DEF View
    <2>3. DOMAIN hash \subseteq Key
      BY TableAssumption
    <2> QED
      BY <2>1, <2>2, <2>3, <1>2
  <1>4. w2 \in Walkers /\ Walks(x, w2)
    <2>1. CASE vw[k] = Nil
      BY <2>1 DEF Walkers, Walks, Off
    <2>2. CASE vw[k] # Nil
      <3>1. Get(tb, k) # Nil
        BY <2>2, <1>1, ViewIs
      <3>2. /\ Alike(tb, x)
            /\ \A i \in 1 .. sizearray(tb) : x.array[i] # Nil => tb.array[i] # Nil
            /\ \A n \in Nodes(tb) : x.node[n].val # Nil => tb.node[n].val # Nil
        BY <3>1, <1>1, StaysPut
      <3>3. w.at \in Key \cup {Nil}
        BY <1>1 DEF Walkers
      <3>4. Walks(x, w)
        BY <3>2, <3>3, <1>1, WalksOn
      <3> QED
        BY <3>4, <2>2, <1>1
    <2> QED
      BY <2>1, <2>2
  <1> QED
    BY <1>2, <1>3, <1>4 DEF Right

\* What changes the flags only, changes nothing.
LEMMA Flagged ==
    ASSUME hash \in Hashes, NEW tb, NEW vw, NEW w, Right(tb, vw, w),
           NEW F \in SUBSET Events, NEW x, x = [tb EXCEPT !.flags = F]
    PROVE  Right(x, vw, w) /\ View(x) = vw /\ x.flags = F
  <1>1. Sound(tb) /\ vw = View(tb) /\ w \in Walkers /\ Walks(tb, w)
    BY DEF Right
  <1>2. /\ Alike(tb, x) /\ Sound(x) /\ x.flags = F /\ x.array = tb.array /\ x.node = tb.node
        /\ \A k \in DOMAIN hash : Get(x, k) = Get(tb, k)
    BY <1>1, Flags
  <1>3. View(x) = vw
    BY <1>1, <1>2, ViewSame
  <1>4. Walks(x, w)
    <2>1. w.at \in Key \cup {Nil}
      BY <1>1 DEF Walkers
    <2>2. \A i \in 1 .. sizearray(tb) : x.array[i] # Nil => tb.array[i] # Nil
      BY <1>2
    <2>3. \A n \in Nodes(tb) : x.node[n].val # Nil => tb.node[n].val # Nil
      BY <1>2
    <2>4. Alike(tb, x) /\ Sound(tb) /\ Walks(tb, w)
      BY <1>1, <1>2
    <2> QED
      BY ONLY <2>1, <2>2, <2>3, <2>4, WalksOn, hash \in Hashes
  <1> QED
    BY <1>1, <1>2, <1>3, <1>4 DEF Right

\* removeentry changes nothing that is read, and leaves the traversal where it is.
LEMMA Removes ==
    ASSUME hash \in Hashes, NEW tb, NEW vw, NEW w, Right(tb, vw, w),
           NEW n \in Nodes(tb), tb.node[n].val = Nil, tb.node[n].key \in Collectable,
           NEW x, x = [tb EXCEPT !.node[n].dead = TRUE]
    PROVE  Right(x, vw, w) /\ View(x) = vw /\ x.flags = tb.flags
  <1>1. Sound(tb) /\ vw = View(tb) /\ w \in Walkers /\ Walks(tb, w)
    BY DEF Right
  <1>2. tb.node[n].key # Nil
    BY TableAssumption
  <1>3. /\ Alike(tb, x) /\ Sound(x) /\ x.flags = tb.flags /\ x.array = tb.array
        /\ \A i \in Nodes(tb) : x.node[i].val = tb.node[i].val
        /\ \A k \in DOMAIN hash : Get(x, k) = Get(tb, k)
    BY <1>1, <1>2, Dies
  <1>4. View(x) = vw
    BY <1>1, <1>3, ViewSame
  <1>5. Walks(x, w)
    <2>1. w.at \in Key \cup {Nil}
      BY <1>1 DEF Walkers
    <2>2. \A i \in 1 .. sizearray(tb) : x.array[i] # Nil => tb.array[i] # Nil
      BY <1>3
    <2>3. \A i \in Nodes(tb) : x.node[i].val # Nil => tb.node[i].val # Nil
      BY <1>3
    <2>4. Alike(tb, x) /\ Sound(tb) /\ Walks(tb, w)
      BY <1>1, <1>3
    <2> QED
      BY ONLY <2>1, <2>2, <2>3, <2>4, WalksOn, hash \in Hashes
  <1> QED
    BY <1>1, <1>3, <1>4, <1>5 DEF Right

\* A traversal w that comes to the entry e.
Met(w, e) == [w EXCEPT !.at = e.key, !.val = e.val,
                !.seen = IF e.key \in @ THEN Key ELSE @ \cup {e.key}]
Meets(w, e, v) == [w EXCEPT !.at = e.key, !.val = v, !.seen = @ \cup {e.key}]

\* The next entry of a traversal.
LEMMA GoesOn ==
    ASSUME hash \in Hashes, NEW tb, NEW vw, NEW w, Right(tb, vw, w), w.on,
           NEW m, m \in NextEntries(tb, findindex(tb, w.at)),
           \A j \in NextEntries(tb, findindex(tb, w.at)) : m <= j,
           NEW e, e = EntryAt(tb, m),
           NEW w2, w2 = Met(w, e)
    PROVE  /\ Right(tb, vw, w2) /\ e.key \in Key /\ e.key \notin w.seen /\ vw[e.key] # Nil
           /\ w2 = Meets(w, e, vw[e.key])
  <1> DEFINE i == findindex(tb, w.at)
  <1>1. Sound(tb) /\ vw = View(tb) /\ w \in Walkers
    BY DEF Right
  <1>2. /\ w.ok /\ i \in Nat
        /\ \A j \in Entries(tb) : EntryAt(tb, j).val # Nil =>
             (j <= i <=> EntryAt(tb, j).key \in w.seen)
    BY DEF Right, Walks
  <1>3. sizearray(tb) \in Nat /\ sizenode(tb) \in Nat
    BY <1>1, Parts DEF Sound
  <1>4. \A j : j \in NextEntries(tb, i) <=> j \in Entries(tb) /\ j > i /\ EntryAt(tb, j).val # Nil
    BY <1>2, <1>3 DEF NextEntries, Entries, EntryAt
  <1>5. m \in Entries(tb) /\ m > i /\ e.val # Nil /\ e.key \notin w.seen /\ m \in Nat
    BY <1>2, <1>3, <1>4 DEF Entries
  <1>6. e.key \in DOMAIN hash /\ findindex(tb, e.key) = m /\ Get(tb, e.key) = e.val
    BY <1>1, <1>5, FindsEntry
  <1>7. vw[e.key] = e.val /\ e.key \in Key /\ e.val \in Value \cup {Nil}
    BY <1>1, <1>6, ViewIs, Reads, TableAssumption
  <1>8. w2 = [w EXCEPT !.at = e.key, !.val = e.val, !.seen = @ \cup {e.key}]
    BY <1>5 DEF Met
  <1>9. /\ w2 \in Walkers /\ w2.on = w.on /\ w2.ok = w.ok /\ w2.at = e.key
        /\ w2.seen = w.seen \cup {e.key}
    <2> DEFINE k == e.key
               v == e.val
               s == w.seen \cup {k}
    <2>1. w2 = [w EXCEPT !.at = k, !.val = v, !.seen = s]
      BY <1>8
    <2>2. k \in Key \cup {Nil} /\ v \in Value \cup {Nil} /\ s \in SUBSET Key
      BY <1>1, <1>7 DEF Walkers
    <2> HIDE DEF k, v, s
    <2>3. /\ w2 \in Walkers /\ w2.on = w.on /\ w2.ok = w.ok /\ w2.at = k
          /\ w2.seen = s
      BY <2>1, <2>2, <1>1 DEF Walkers
    <2> QED
      BY <2>3 DEF k, s
  <1>10. ASSUME NEW j \in Entries(tb), EntryAt(tb, j).val # Nil
         PROVE  j <= m <=> EntryAt(tb, j).key \in w2.seen
    <2>1. findindex(tb, EntryAt(tb, j).key) = j
      BY <1>1, <1>10, FindsEntry
    <2>2. j <= i <=> EntryAt(tb, j).key \in w.seen
      BY <1>2, <1>10
    <2>3. j > i => m <= j
      BY <1>4, <1>10
    <2>4. EntryAt(tb, j).key = e.key <=> j = m
      BY <2>1, <1>6
    <2> QED
      BY <2>2, <2>3, <2>4, <1>2, <1>5, <1>9 DEF Entries
  <1>11. Walks(tb, w2)
    BY <1>2, <1>5, <1>6, <1>9, <1>10 DEF Walks
  <1> QED
    BY <1>1, <1>5, <1>7, <1>8, <1>9, <1>11 DEF Right, Meets

\* The end of a traversal.
LEMMA ComesToEnd ==
    ASSUME hash \in Hashes, NEW tb, NEW vw, NEW w, Right(tb, vw, w), w.on,
           NextEntries(tb, findindex(tb, w.at)) = {}
    PROVE  \A k \in Key : vw[k] # Nil => k \in w.seen
  <1> DEFINE i == findindex(tb, w.at)
  <1>1. Sound(tb) /\ vw = View(tb) /\ w \in Walkers
    BY DEF Right
  <1>2. /\ i \in Nat
        /\ \A j \in Entries(tb) : EntryAt(tb, j).val # Nil =>
             (j <= i <=> EntryAt(tb, j).key \in w.seen)
    BY DEF Right, Walks
  <1>3. sizearray(tb) \in Nat /\ sizenode(tb) \in Nat
    BY <1>1, Parts DEF Sound
  <1>4. ASSUME NEW k \in Key, vw[k] # Nil
        PROVE  k \in w.seen
    <2>1. k \in DOMAIN hash /\ Get(tb, k) # Nil
      BY <1>1, <1>4, ViewIs
    <2>2. PICK j \in Entries(tb) : EntryAt(tb, j).key = k /\ EntryAt(tb, j).val # Nil
      BY <2>1, <1>1, HasEntry
    <2>3. ~(j > i)
      BY <2>2, <1>2, <1>3 DEF NextEntries, Entries, EntryAt
    <2> QED
      BY <2>2, <2>3, <1>2, <1>3 DEF Entries
  <1> QED
    BY <1>4

\* A new table has nothing.
LEMMA NewTable ==
    ASSUME hash \in Hashes, NEW na \in Nat, NEW nh \in Nat, NEW x, x = luaH_new(na, nh)
    PROVE  Sound(x) /\ x.flags = Events /\ \A k \in DOMAIN hash : Get(x, k) = Nil
  <1> DEFINE z == Bare
  <1>1. EmptyNode \in Slots
    BY DEF EmptyNode, Slots
  <1>2. /\ z \in Tables /\ ~z.nested /\ z.array = <<>> /\ z.node = <<EmptyNode>> /\ z.dummy
        /\ z.lastfree = 1 /\ z.flags = Events /\ sizearray(z) = 0 /\ sizenode(z) = 1
        /\ Nodes(z) = {1}
    <2>1. <<EmptyNode>> \in Seq(Slots) /\ <<>> \in Seq(Value \cup {Nil})
      BY <1>1
    <2> QED
      BY <2>1 DEF Tables, sizearray, sizenode, Nodes, Bare
  <1>3. x = Emptied(z, na, nh)
    BY DEF luaH_new, Emptied
  <1> HIDE DEF z
  <1>4. /\ z.node[1] = EmptyNode /\ z.node[1].key = Nil /\ z.node[1].val = Nil
        /\ z.node[1].next = 0 /\ ~z.node[1].dead
    BY <1>2 DEF EmptyNode
  <1>5. Shaped(z)
    <2>1. \E p \in Nat : sizenode(z) = twoto[p]
      BY <1>2, TwoTo
    <2>2. z.lastfree \in 1 .. (sizenode(z) + 1)
      BY <1>2
    <2> QED
      BY <2>1, <2>2, <1>2, <1>4 DEF Shaped
  <1>6. Held(z)
    <2>1. Nil \notin IntKeys
      BY TableAssumption
    <2> QED
      BY <2>1, <1>2, <1>4 DEF Held
  <1>7. Apart(z) /\ AtHome(z) /\ Chained(z, 0, [n \in Nodes(z) |-> 0], {})
    BY <1>2, <1>4 DEF Apart, AtHome, Chained
  <1>8. Sound(z)
    <2>1. \E B, e, R : Chained(z, B, e, R)
      BY <1>7
    <2> QED
      BY <2>1, <1>5, <1>6, <1>7 DEF Sound
  <1>9. Sound(x) /\ x.flags = z.flags /\ Retained(z, na, x)
    BY <1>3, <1>8, EmptiedIs
  <1>10. ASSUME NEW k \in DOMAIN hash
         PROVE  Get(x, k) = Nil
    <2>1. ~InArray(z, k)
      BY <1>2, TableAssumption DEF InArray
    <2>2. \A v : v # Nil => Get(x, k) # v
      BY <2>1, <1>9 DEF Retained
    <2> QED
      BY <2>2
  <1> QED
    BY <1>2, <1>9, <1>10

\* A new table is sound, and empty as a map.
LEMMA Begins == Init => IInv /\ Map!Init
  <1>1. SUFFICES ASSUME Init
                 PROVE  IInv /\ Map!Init
    OBVIOUS
  <1>2. PICK size \in Created : t = luaH_new(size[1], size[2])
    BY <1>1 DEF Init
  <1>3. size[1] \in Nat /\ size[2] \in Nat /\ hash \in Hashes /\ view = View(t) /\ walk = Off
    BY <1>1, TableAssumption DEF Init
  <1>4. Sound(t) /\ t.flags = Events /\ \A k \in DOMAIN hash : Get(t, k) = Nil
    BY <1>2, <1>3, NewTable
  <1>5. view = [k \in Key |-> Nil]
    BY <1>3, <1>4 DEF View
  <1>6. walk \in Walkers /\ Walks(t, walk)
    BY <1>3 DEF Walkers, Walks, Off
  <1>7. CacheIsTrue
    BY <1>4, <1>5, TableAssumption DEF CacheIsTrue
  <1> QED
    BY <1>3, <1>4, <1>5, <1>6, <1>7 DEF IInv, Right, Map!Init, Map!Off, Off

\* A step that leaves what is read and the traversal as they are.
LEMMA Stutters == view' = view /\ walk' = walk => [Map!Next]_<<view, walk>>
  OBVIOUS

\* The parts of the invariant after a step, put together.
LEMMA Step ==
    ASSUME hash \in Hashes, hash' = hash, Right(t', view', walk'), CacheIsTrue'
    PROVE  IInv'
  BY SameHash DEF IInv

\* Every step preserves the invariant and is a step of the map.
LEMMA Implements == IInv /\ [Next]_vars => IInv' /\ [Map!Next]_<<view, walk>>
  <1>1. SUFFICES ASSUME IInv, [Next]_vars
                 PROVE  IInv' /\ [Map!Next]_<<view, walk>>
    OBVIOUS
  <1>2. hash \in Hashes /\ Right(t, view, walk) /\ CacheIsTrue /\ DOMAIN hash \subseteq Key
    BY <1>1, TableAssumption DEF IInv
  <1>3. Sound(t) /\ view = View(t) /\ t.flags \in SUBSET Events
    BY <1>2 DEF Right, Sound, Shaped, Tables
  <1>4. view \in [Key -> Value \cup {Nil}]
    BY <1>2, <1>3, ViewIs
  <1>5. ASSUME NEW k \in DOMAIN hash, NEW v \in Value \cup {Nil}, Assign(k, v)
        PROVE  IInv' /\ [Map!Next]_<<view, walk>>
    <2> DEFINE x == Store(t, k, v)
               y == t'
    <2>1. /\ Right(x, View(x), walk') /\ x.flags = t.flags
          /\ View(x) = [view EXCEPT ![k] = v]
      <3>1. walk' = IF view[k] = Nil THEN Off ELSE walk
        BY <1>5 DEF Assign
      <3> HIDE DEF x
      <3> QED
        BY <3>1, <1>2, Assigns DEF x
    <2>2. y = [x EXCEPT !.flags = {}] /\ hash' = hash /\ view' = View(y)
      BY <1>5 DEF Assign
    <2> HIDE DEF x, y
    <2>3. Right(y, View(x), walk') /\ View(y) = View(x) /\ y.flags = {}
      BY <1>2, <2>1, <2>2, Flagged
    <2>4. IInv'
      <3>1. CacheIsTrue'
        BY <2>3 DEF CacheIsTrue, y
      <3>2. Right(t', view', walk')
        BY <2>2, <2>3 DEF y
      <3> QED
        BY <3>1, <3>2, <2>2, <1>2, Step
    <2>5. Map!Assign(k, v)
      BY <2>1, <2>2, <2>3, <1>5 DEF Assign, Map!Assign, Map!Off, Off
    <2> QED
      BY <2>4, <2>5, <1>2 DEF Map!Next
  <1>6. ASSUME NEW k \in DOMAIN hash, NEW v \in Value \cup {Nil}, AssignNum(k, v)
        PROVE  IInv' /\ [Map!Next]_<<view, walk>>
    <2> DEFINE y == t'
    <2>1. y = Store(t, k, v) /\ hash' = hash /\ view' = View(y) /\ k \in IntKeys
          /\ walk' = IF view[k] = Nil THEN Off ELSE walk
      BY <1>6 DEF AssignNum
    <2> HIDE DEF y
    <2>2. /\ Right(y, View(y), walk') /\ y.flags = t.flags
          /\ View(y) = [view EXCEPT ![k] = v]
      BY <2>1, <1>2, Assigns
    <2>3. IInv'
      <3>1. k \notin Events /\ Events \subseteq Key
        BY <2>1, TableAssumption
      <3>2. \A e \in t.flags : view'[e] = Nil
        BY <3>1, <2>1, <2>2, <1>2, <1>3, <1>4 DEF CacheIsTrue
      <3>3. CacheIsTrue'
        BY <3>2, <2>2 DEF CacheIsTrue, y
      <3>4. Right(t', view', walk')
        BY <2>1, <2>2 DEF y
      <3> QED
        BY <3>3, <3>4, <2>1, <1>2, Step
    <2>4. Map!Assign(k, v)
      BY <2>1, <2>2 DEF Map!Assign, Map!Off, Off
    <2> QED
      BY <2>3, <2>4, <1>2 DEF Map!Next
  <1>7. ASSUME NEW k, AssignBad(k)
        PROVE  IInv' /\ [Map!Next]_<<view, walk>>
    <2> DEFINE y == t'
    <2>1. y = [t EXCEPT !.flags = {}] /\ hash' = hash /\ view' = view /\ walk' = walk
      BY <1>7 DEF AssignBad
    <2> HIDE DEF y
    <2>2. Right(y, view, walk) /\ y.flags = {}
      BY <2>1, <1>2, Flagged
    <2>3. Right(t', view', walk') /\ CacheIsTrue'
      BY <2>1, <2>2 DEF CacheIsTrue, y
    <2> QED
      BY <2>1, <2>3, <1>2, Step, Stutters
  <1>8. ASSUME NEW n \in 1 .. Cardinality(IntKeys), luaH_resizearray(n)
        PROVE  IInv' /\ [Map!Next]_<<view, walk>>
    <2> DEFINE y == t'
    <2>1. /\ y = resize(t, n, IF t.dummy THEN 0 ELSE sizenode(t)) /\ n > sizearray(t)
          /\ ~walk.on /\ hash' = hash /\ view' = View(y) /\ walk' = walk
      BY <1>8 DEF luaH_resizearray
    <2> HIDE DEF y
    <2>2. n \in Nat /\ n >= sizearray(t)
      <3>1. IsFiniteSet(1 .. MaxInt) /\ IntKeys \in SUBSET (1 .. MaxInt)
        <4>1. 1 \in Int /\ MaxInt \in Int /\ IntKeys \in SUBSET (1 .. MaxInt)
          BY TableAssumption
        <4> QED
          BY <4>1, FS_Interval
      <3>2. Cardinality(IntKeys) \in Nat
        BY <3>1, FS_Subset, FS_CardinalityType
      <3>3. sizearray(t) \in Nat
        BY <1>3, Parts DEF Sound
      <3> QED
        BY <3>2, <3>3, <2>1
    <2>3. Sound(y) /\ y.flags = t.flags /\ \A k \in DOMAIN hash : Get(y, k) = Get(t, k)
      BY <1>2, <1>3, <2>1, <2>2, Resized
    <2>4. view' = view
      BY <2>1, <2>3, <1>2, <1>3, ViewSame
    <2>5. walk \in Walkers /\ Walks(y, walk)
      BY <2>1, <1>2 DEF Right, Walks
    <2>6. Right(t', view', walk') /\ CacheIsTrue'
      BY <2>1, <2>3, <2>4, <2>5, <1>2 DEF Right, CacheIsTrue, y
    <2> QED
      BY <2>1, <2>4, <2>6, <1>2, Step, Stutters
  <1>9. ASSUME NEW n \in 1 .. sizenode(t), removeentry(n)
        PROVE  IInv' /\ [Map!Next]_<<view, walk>>
    <2> DEFINE y == t'
    <2>1. /\ y = [t EXCEPT !.node[n].dead = TRUE] /\ t.node[n].val = Nil
          /\ t.node[n].key \in Collectable /\ n \in Nodes(t)
          /\ hash' = hash /\ view' = View(y) /\ walk' = walk
      BY <1>9 DEF removeentry, Nodes
    <2> HIDE DEF y
    <2>2. Right(y, view, walk) /\ View(y) = view /\ y.flags = t.flags
      BY <2>1, <1>2, Removes
    <2>3. Right(t', view', walk') /\ CacheIsTrue'
      BY <2>1, <2>2, <1>2 DEF CacheIsTrue, y
    <2> QED
      BY <2>1, <2>2, <2>3, <1>2, Step, Stutters
  <1>10. ASSUME NEW e \in Events \cap DOMAIN hash, luaT_gettm(e)
         PROVE  IInv' /\ [Map!Next]_<<view, walk>>
    <2> DEFINE y == t'
               F == t.flags \cup {e}
    <2>1. /\ y = [t EXCEPT !.flags = F] /\ view[e] = Nil
          /\ hash' = hash /\ view' = view /\ walk' = walk
      BY <1>10 DEF luaT_gettm
    <2>2. F \in SUBSET Events /\ \A d \in F : view[d] = Nil
      BY <2>1, <1>2, <1>3 DEF CacheIsTrue
    <2> HIDE DEF y, F
    <2>3. Right(y, view, walk) /\ y.flags = F
      BY <2>1, <2>2, <1>2, Flagged
    <2>4. Right(t', view', walk') /\ CacheIsTrue'
      BY <2>1, <2>2, <2>3 DEF CacheIsTrue, y
    <2> QED
      BY <2>1, <2>4, <1>2, Step, Stutters
  <1>11. CASE Begin
    <2>1. walk' = [Off EXCEPT !.on = TRUE] /\ UNCHANGED <<hash, t, view>>
      BY <1>11 DEF Begin
    <2>2. walk' \in Walkers /\ walk'.on /\ walk'.ok /\ walk'.at = Nil /\ walk'.seen = {}
      BY <2>1 DEF Walkers, Off
    <2>3. Walks(t, walk')
      <3>1. findindex(t, Nil) = 0
        BY DEF findindex
      <3>2. \A j \in Entries(t) : ~(j <= 0)
        BY DEF Entries
      <3> QED
        BY <2>2, <3>1, <3>2 DEF Walks
    <2>4. Right(t', view', walk') /\ CacheIsTrue'
      BY <2>1, <2>2, <2>3, <1>2 DEF Right, CacheIsTrue
    <2>5. Map!Begin
      BY <2>1 DEF Map!Begin, Map!Off, Off
    <2> QED
      BY <2>1, <2>4, <2>5, <1>2, Step DEF Map!Next
  <1>12. CASE luaH_next
    <2> DEFINE i == findindex(t, walk.at)
               E == NextEntries(t, i)
               m == Min(E)
               e == EntryAt(t, m)
    <2>1. /\ walk.on /\ UNCHANGED <<hash, t, view>>
          /\ walk' = IF i = -1 THEN [walk EXCEPT !.ok = FALSE]
                     ELSE IF E = {} THEN Off
                     ELSE [walk EXCEPT !.at = e.key, !.val = e.val,
                             !.seen = IF e.key \in @ THEN Key ELSE @ \cup {e.key}]
      BY <1>12 DEF luaH_next
    <2>2. i \in Nat
      BY <2>1, <1>2 DEF Right, Walks
    <2>3. CASE E = {}
      <3>1. walk' = Off
        BY <2>1, <2>2, <2>3
      <3>2. \A k \in Key : view[k] # Nil => k \in walk.seen
        BY <2>1, <2>3, <1>2, ComesToEnd
      <3>3. Right(t', view', walk') /\ CacheIsTrue'
        <4>1. walk' \in Walkers /\ Walks(t, walk')
          BY <3>1 DEF Walkers, Walks, Off
        <4> QED
          BY <2>1, <4>1, <1>2 DEF Right, CacheIsTrue
      <3>4. Map!End
        BY <2>1, <3>1, <3>2 DEF Map!End, Map!Off, Off
      <3> QED
        BY <2>1, <3>3, <3>4, <1>2, Step DEF Map!Next
    <2>4. CASE E # {}
      <3>1. walk' = [walk EXCEPT !.at = e.key, !.val = e.val,
                       !.seen = IF e.key \in @ THEN Key ELSE @ \cup {e.key}]
        BY <2>1, <2>2, <2>4
      <3>2. m \in E /\ \A j \in E : m <= j
        <4>1. sizearray(t) \in Nat /\ sizenode(t) \in Nat
          BY <1>3, Parts DEF Sound
        <4>2. E \in SUBSET Nat
          BY <2>2, <4>1 DEF NextEntries
        <4> HIDE DEF E
        <4> QED
          BY <2>4, <4>2, Lowest
      <3> DEFINE w2 == walk'
      <3>3. w2 = Met(walk, e)
        BY <3>1 DEF Met
      <3>3a. e = EntryAt(t, m) /\ m \in NextEntries(t, findindex(t, walk.at))
             /\ \A j \in NextEntries(t, findindex(t, walk.at)) : m <= j
        BY <3>2
      <3>3b. hash \in Hashes /\ Right(t, view, walk) /\ walk.on
        BY <2>1, <1>2
      <3> HIDE DEF w2, m, e, E, i
      <3>4. /\ Right(t, view, w2) /\ e.key \in Key /\ e.key \notin walk.seen
            /\ view[e.key] # Nil
            /\ w2 = Meets(walk, e, view[e.key])
        BY ONLY <3>3, <3>3a, <3>3b, GoesOn
      <3>5. Right(t', view', walk') /\ CacheIsTrue'
        BY <2>1, <3>4, <1>2 DEF CacheIsTrue, w2
      <3>6. Map!Meet(e.key)
        BY <2>1, <3>4 DEF Map!Meet, Meets, w2
      <3> QED
        BY <2>1, <3>4, <3>5, <3>6, <1>2, Step DEF Map!Next
    <2> QED
      BY <2>3, <2>4
  <1>13. CASE UNCHANGED vars
    <2>1. UNCHANGED <<hash, t, view, walk>>
      BY <1>13 DEF vars
    <2>2. Right(t', view', walk') /\ CacheIsTrue'
      BY <2>1, <1>2 DEF CacheIsTrue
    <2> QED
      BY <2>1, <2>2, <1>2, Step, Stutters
  <1> QED
    BY <1>1, <1>5, <1>6, <1>7, <1>8, <1>9, <1>10, <1>11, <1>12, <1>13 DEF Next
------------------------------------------------------------------------------
(* The length *)

\* A loop of n rounds.
Rounds(f, S, x, step, n) ==
  f \in [0 .. n -> S] /\ f[0] = x /\ \A k \in 1 .. n : f[k] = step[f[k - 1]]

\* A loop of any number of rounds is a function on those rounds.
LEMMA Iterates ==
    ASSUME NEW S, NEW x \in S, NEW step \in [S -> S], NEW n \in Nat
    PROVE  \E f : Rounds(f, S, x, step, n)
  <1> DEFINE T == {m \in Nat : ~\E f : Rounds(f, S, x, step, m)}
  <1>1. SUFFICES ASSUME T # {}
                 PROVE  FALSE
    OBVIOUS
  <1>2. PICK m \in T : \A k \in T : m <= k
    BY <1>1, Least
  <1>3. m # 0
    <2>1. Rounds([i \in 0 .. 0 |-> x], S, x, step, 0)
      BY DEF Rounds
    <2> QED
      BY <2>1, <1>2
  <1>4. m - 1 \in Nat /\ m - 1 \notin T
    BY <1>2, <1>3
  <1>5. PICK f : Rounds(f, S, x, step, m - 1)
    BY <1>4
  <1> DEFINE g == [i \in 0 .. m |-> IF i = m THEN step[f[m - 1]] ELSE f[i]]
  <1>6. f[m - 1] \in S /\ step[f[m - 1]] \in S
    BY <1>4, <1>5 DEF Rounds
  <1>7. Rounds(g, S, x, step, m)
    BY <1>3, <1>4, <1>5, <1>6 DEF Rounds
  <1> QED
    BY <1>2, <1>7

\* One round of the binary search.
Halve(s, absent) ==
  LET m == (s.i + s.j) \div 2
  IN  IF s.j - s.i <= 1 THEN s
      ELSE IF m \in absent THEN [i |-> s.i, j |-> m] ELSE [i |-> m, j |-> s.j]

\* The binary search ends at a boundary: its lower end present, the next index absent.
LEMMA BoundaryIs ==
    ASSUME NEW i0 \in Nat, NEW j0 \in Nat, i0 < j0, NEW absent, j0 \in absent,
           i0 = 0 \/ i0 \notin absent, NEW b, b = Boundary(i0, j0, absent)
    PROVE  b \in Nat /\ b < j0 /\ (b = 0 \/ b \notin absent) /\ b + 1 \in absent
  <1> DEFINE S == [i : Nat, j : Nat]
             x == [i |-> i0, j |-> j0]
             step == [s \in S |-> Halve(s, absent)]
             H == CHOOSE f : f = [n \in 0 .. j0 |-> IF n = 0 THEN x ELSE Halve(f[n - 1], absent)]
  <1>1. \A s \in S : Halve(s, absent) \in S
    BY DEF Halve
  <1>2. PICK f : Rounds(f, S, x, step, j0)
    BY <1>1, Iterates
  <1>3. \A n \in 0 .. j0 : f[n] \in S /\ f[n] = IF n = 0 THEN x ELSE Halve(f[n - 1], absent)
    <2>1. TAKE n \in 0 .. j0
    <2>2. f[n] \in S /\ (n # 0 => n \in 1 .. j0 /\ f[n - 1] \in S)
      BY <1>2 DEF Rounds
    <2> HIDE DEF S
    <2> QED
      BY <2>2, <1>2 DEF Rounds
  <1>4. f = [n \in 0 .. j0 |-> f[n]]
    BY <1>2 DEF Rounds
  <1> HIDE DEF x
  <1>5. f = [n \in 0 .. j0 |-> IF n = 0 THEN x ELSE Halve(f[n - 1], absent)]
    BY <1>3, <1>4, Zenon
  <1>6. H = [n \in 0 .. j0 |-> IF n = 0 THEN x ELSE Halve(H[n - 1], absent)]
    BY <1>5
  <1>7. Boundary(i0, j0, absent) = H[j0].i
    BY DEF Boundary, Halve, x
  <1> HIDE DEF H
  <1>8. H[0] = x /\ \A n \in 1 .. j0 : H[n] = Halve(H[n - 1], absent)
    BY <1>6
  <1> DEFINE Inv(n, s) == /\ s \in S /\ s.i < s.j /\ s.j <= j0 /\ s.j \in absent
                          /\ s.i = 0 \/ s.i \notin absent
                          /\ s.j - s.i <= 1 \/ s.j - s.i + n <= j0
             T == {n \in Nat : n <= j0 /\ ~Inv(n, H[n])}
  <1>9. T = {}
    <2>1. SUFFICES ASSUME T # {}
                   PROVE  FALSE
      OBVIOUS
    <2>2. PICK n \in T : \A k \in T : n <= k
      BY <2>1, Least
    <2>3. n # 0
      <3>1. Inv(0, x)
        BY DEF x
      <3> QED
        BY <2>2, <3>1, <1>8
    <2>4. n - 1 \in Nat /\ n - 1 \notin T /\ n \in 1 .. j0
      BY <2>2, <2>3
    <2> DEFINE s == H[n - 1]
    <2>5. Inv(n - 1, s) /\ H[n] = Halve(s, absent)
      BY <2>4, <1>8
    <2> HIDE DEF s
    <2> DEFINE m == (s.i + s.j) \div 2
    <2>6. s \in S /\ s.i \in Nat /\ s.j \in Nat
      BY <2>5
    <2>7. s.j - s.i > 1 => m \in Nat /\ s.i < m /\ m < s.j
      BY <2>6
    <2>8. H[n] = IF s.j - s.i <= 1 THEN s
                 ELSE IF m \in absent THEN [i |-> s.i, j |-> m] ELSE [i |-> m, j |-> s.j]
      BY <2>5 DEF Halve
    <2> HIDE DEF m
    <2>9. Inv(n, H[n])
      <3>1. CASE s.j - s.i <= 1
        BY <3>1, <2>5, <2>8
      <3>2. CASE s.j - s.i > 1 /\ m \in absent
        <4>1. H[n] = [i |-> s.i, j |-> m]
          BY <3>2, <2>6, <2>8
        <4> QED
          BY <4>1, <3>2, <2>4, <2>5, <2>6, <2>7
      <3>3. CASE s.j - s.i > 1 /\ m \notin absent
        <4>1. H[n] = [i |-> m, j |-> s.j]
          BY <3>3, <2>6, <2>8
        <4> QED
          BY <4>1, <3>3, <2>4, <2>5, <2>6, <2>7
      <3> QED
        BY <3>1, <3>2, <3>3, <2>6
    <2> QED
      BY <2>2, <2>9
  <1>10. Inv(j0, H[j0])
    BY <1>9
  <1>11. H[j0].j = H[j0].i + 1
    BY <1>10
  <1> QED
    BY <1>7, <1>10, <1>11

\* One round of the loop that doubles j.
Double(s, absent) ==
  IF s.over \/ s.j \in absent THEN s
  ELSE [i |-> s.j, j |-> 2 * s.j, over |-> 2 * s.j > MaxInt]

\* unbound_search ends at a boundary, by doubling or, on overflow, one by one.
LEMMA UnboundIs ==
    ASSUME NEW tb, NEW j0 \in Nat, j0 = 0 \/ Get(tb, j0) # Nil,
           \A k \in Nat : k > MaxInt => Get(tb, k) = Nil,
           NEW b, b = unbound_search(tb, j0)
    PROVE  b \in Nat /\ (b = 0 \/ Get(tb, b) # Nil) /\ Get(tb, b + 1) = Nil
  <1> DEFINE top == j0 + 1 + 2 * MaxInt
             absent == {k \in 1 .. top : Get(tb, k) = Nil}
             S == [i : Nat, j : Nat, over : BOOLEAN]
             x == [i |-> j0, j |-> j0 + 1, over |-> FALSE]
             step == [s \in S |-> Double(s, absent)]
             D == CHOOSE f : f = [n \in 0 .. MaxInt |->
                                   IF n = 0 THEN x ELSE Double(f[n - 1], absent)]
  <1>0. MaxInt \in Nat \ {0} /\ top \in Nat
    BY TableAssumption
  <1>1. \A s \in S : Double(s, absent) \in S
    BY <1>0 DEF Double
  <1>2. PICK f : Rounds(f, S, x, step, MaxInt)
    <2>1. x \in S /\ step \in [S -> S] /\ MaxInt \in Nat
      BY <1>0, <1>1
    <2> HIDE DEF S, x, step
    <2> QED
      BY <2>1, Iterates
  <1>3. \A n \in 0 .. MaxInt : f[n] = IF n = 0 THEN x ELSE Double(f[n - 1], absent)
    <2>1. TAKE n \in 0 .. MaxInt
    <2> HIDE DEF S, absent
    <2>2. f[n] \in S /\ (n # 0 => n \in 1 .. MaxInt /\ f[n - 1] \in S)
      BY <1>0, <1>2 DEF Rounds
    <2> QED
      BY <2>2, <1>2 DEF Rounds
  <1>4. f = [n \in 0 .. MaxInt |-> f[n]]
    BY <1>2 DEF Rounds
  <1> HIDE DEF x, absent
  <1>5. f = [n \in 0 .. MaxInt |-> IF n = 0 THEN x ELSE Double(f[n - 1], absent)]
    BY <1>3, <1>4, Zenon
  <1>6. D = [n \in 0 .. MaxInt |-> IF n = 0 THEN x ELSE Double(D[n - 1], absent)]
    BY <1>5
  <1> DEFINE found == D[MaxInt]
  <1>7. b = IF found.over THEN Min(absent) - 1 ELSE Boundary(found.i, found.j, absent)
    BY DEF unbound_search, Double, x, absent
  <1> HIDE DEF D
  <1>8. D[0] = x /\ \A n \in 1 .. MaxInt : D[n] = Double(D[n - 1], absent)
    BY <1>0, <1>6
  <1> DEFINE Inv(n, s) == /\ s \in S /\ s.i < s.j /\ s.j <= top
                          /\ s.i = 0 \/ (s.i \in 1 .. top /\ s.i \notin absent)
                          /\ ~s.over /\ s.j \notin absent => s.j > n
             T == {n \in Nat : n <= MaxInt /\ ~Inv(n, D[n])}
  <1>9. T = {}
    <2>1. SUFFICES ASSUME T # {}
                   PROVE  FALSE
      OBVIOUS
    <2>2. PICK n \in T : \A k \in T : n <= k
      BY <2>1, Least
    <2>3. n # 0
      <3>1. Inv(0, x)
        BY <1>0 DEF x, absent
      <3> QED
        BY <2>2, <3>1, <1>8
    <2>4. n - 1 \in Nat /\ n - 1 \notin T /\ n \in 1 .. MaxInt
      BY <2>2, <2>3
    <2> DEFINE s == D[n - 1]
    <2>5. Inv(n - 1, s) /\ D[n] = Double(s, absent)
      <3>1. n - 1 <= MaxInt
        BY <2>4, <1>0
      <3> QED
        BY <3>1, <2>4, <1>8
    <2> HIDE DEF s
    <2>6. Inv(n, D[n])
      <3>1. CASE s.over \/ s.j \in absent
        BY <3>1, <2>5 DEF Double
      <3>2. CASE ~s.over /\ s.j \notin absent
        <4>1. D[n] = [i |-> s.j, j |-> 2 * s.j, over |-> 2 * s.j > MaxInt]
          BY <3>2, <2>5 DEF Double
        <4>2. s.j \in 1 .. top /\ s.j > n - 1 /\ Get(tb, s.j) # Nil
          BY <3>2, <2>5, <1>0 DEF absent
        <4>3. s.j <= MaxInt
          BY <4>2, <1>0
        <4> HIDE DEF D
        <4>4. D[n] \in S /\ D[n].i = s.j /\ D[n].j = 2 * s.j
          BY <4>1, <4>2, <1>0
        <4>5. 2 * s.j <= top /\ 2 * s.j > n /\ s.j < 2 * s.j
          BY <4>2, <4>3, <2>4, <1>0
        <4> HIDE DEF S
        <4> QED
          BY <4>2, <4>4, <4>5, <3>2
      <3> QED
        BY <3>1, <3>2
    <2> QED
      BY <2>2, <2>6
  <1>10. Inv(MaxInt, found)
    BY <1>0, <1>9
  <1> HIDE DEF found
  <1>11. MaxInt + 1 \in absent
    BY <1>0 DEF absent
  <1>12. CASE found.over
    <2> DEFINE m == Min(absent)
    <2>1. absent \in SUBSET Nat /\ absent # {}
      BY <1>0, <1>11 DEF absent
    <2>2. m \in absent /\ \A k \in absent : m <= k
      BY <2>1, Lowest
    <2> HIDE DEF m
    <2>3. m \in 1 .. top /\ Get(tb, m) = Nil
      BY <2>2 DEF absent
    <2>4. m - 1 \in Nat /\ (m - 1 # 0 => m - 1 \in 1 .. top /\ m - 1 \notin absent)
      BY <2>2, <2>3, <1>0
    <2>5. b = m - 1
      BY <1>7, <1>12 DEF m
    <2>6. b + 1 = m
      BY <2>3, <2>5, <1>0
    <2> QED
      BY <2>3, <2>4, <2>5, <2>6 DEF absent
  <1>13. CASE ~found.over
    <2> DEFINE i == found.i
               j == found.j
    <2>1. i \in Nat /\ j \in Nat /\ i < j /\ j <= top /\ (i = 0 \/ i \notin absent)
      BY <1>10
    <2>2. j \in absent
      <3>1. j \notin absent => j > MaxInt
        BY <1>10, <1>13
      <3>2. j \in 1 .. top
        BY <2>1, <1>0
      <3> QED
        BY <3>1, <3>2, <2>1 DEF absent
    <2>3. b = Boundary(i, j, absent)
      BY <1>7, <1>13
    <2> HIDE DEF i, j
    <2>4. b \in Nat /\ b < j /\ (b = 0 \/ b \notin absent) /\ b + 1 \in absent
      BY <2>1, <2>2, <2>3, BoundaryIs
    <2>5. b # 0 => b \in 1 .. top
      BY <2>1, <2>4, <1>0
    <2> QED
      BY <2>4, <2>5 DEF absent
  <1> QED
    BY <1>12, <1>13

\* What luaH_getn returns is a boundary.
LEMMA LengthIs ==
    ASSUME hash \in Hashes, NEW tb, Sound(tb), NEW n, n = luaH_getn(tb)
    PROVE  n \in Nat /\ (n = 0 \/ Get(tb, n) # Nil) /\ Get(tb, n + 1) = Nil
  <1> DEFINE j == sizearray(tb)
  <1>1. j \in Nat /\ Shaped(tb) /\ Held(tb)
    BY Parts DEF Sound
  <1>2. ASSUME NEW k \in Nat \ {0}, k <= j
        PROVE  Get(tb, k) # Nil <=> tb.array[k] # Nil
    <2>1. CASE k \in DOMAIN hash
      <3>1. InArray(tb, k)
        BY <2>1, <1>2, TableAssumption DEF InArray
      <3>2. luaH_get(tb, k) = <<"array", k>>
        BY <2>1, <3>1, Looks
      <3> QED
        BY <3>2 DEF Get, At
    <2>2. CASE k \notin DOMAIN hash
      <3>1. k \in 1 .. j
        BY <1>1, <1>2
      <3>2. tb.array[k] = Nil
        BY <2>2, <3>1, <1>1 DEF Held
      <3>3. Get(tb, k) = tb.array[k] \/ Get(tb, k) = Nil
        BY <2>2, <1>2 DEF Get, At, luaH_get, NoSlot
      <3> QED
        BY <3>2, <3>3
    <2> QED
      BY <2>1, <2>2
  <1>3. ASSUME NEW k \in Nat, k > j, k \notin DOMAIN hash
        PROVE  Get(tb, k) = Nil
    BY <1>1, <1>3 DEF Get, At, luaH_get, NoSlot
  <1>4. CASE j > 0 /\ tb.array[j] = Nil
    <2> DEFINE absent == {m \in 1 .. j : tb.array[m] = Nil}
    <2>1. n = Boundary(0, j, absent)
      BY <1>4 DEF luaH_getn
    <2>2. j \in absent /\ 0 < j /\ 0 \in Nat
      BY <1>1, <1>4
    <2> HIDE DEF absent
    <2>3. n \in Nat /\ n < j /\ (n = 0 \/ n \notin absent) /\ n + 1 \in absent
      BY <2>1, <2>2, <1>1, BoundaryIs
    <2> HIDE DEF j
    <2>4. n + 1 \in Nat \ {0} /\ n + 1 <= j /\ (n # 0 => n \in 1 .. j)
      BY <2>3, <1>1
    <2> QED
      BY <2>3, <2>4, <1>2 DEF absent
  <1>5. CASE ~(j > 0 /\ tb.array[j] = Nil) /\ tb.dummy
    <2>1. n = j
      BY <1>5 DEF luaH_getn
    <2>2. j = 0 \/ Get(tb, j) # Nil
      BY <1>1, <1>2, <1>5
    <2>3. j + 1 \in DOMAIN hash => Get(tb, j + 1) = Nil
      <3>1. SUFFICES ASSUME j + 1 \in DOMAIN hash, Get(tb, j + 1) # Nil
                     PROVE  FALSE
        OBVIOUS
      <3>2. ~InArray(tb, j + 1)
        BY <1>1 DEF InArray
      <3>3. j + 1 \in Used(tb) /\ IsFiniteSet(Used(tb)) /\ Cardinality(Used(tb)) <= 0
        BY <3>1, <3>2, <1>5, UsedIs
      <3>4. Cardinality(Used(tb)) \in Nat
        BY <3>3, FS_CardinalityType
      <3>5. Cardinality(Used(tb)) = 0
        BY <3>3, <3>4
      <3> QED
        BY <3>3, <3>5, FS_EmptySet
    <2>4. Get(tb, j + 1) = Nil
      BY <2>3, <1>1, <1>3
    <2> QED
      BY <2>1, <2>2, <2>4, <1>1
  <1>6. CASE ~(j > 0 /\ tb.array[j] = Nil) /\ ~tb.dummy
    <2>1. n = unbound_search(tb, j)
      BY <1>6 DEF luaH_getn
    <2>2. j = 0 \/ Get(tb, j) # Nil
      BY <1>1, <1>2, <1>6
    <2>3. ASSUME NEW k \in Nat, k > MaxInt
          PROVE  Get(tb, k) = Nil
      <3>1. k \notin DOMAIN hash /\ k \in Nat \ {0}
        BY <2>3, TableAssumption
      <3>2. CASE k > j
        BY <3>1, <3>2, <1>3
      <3>3. CASE k <= j
        <4>1. k \in 1 .. j
          BY <3>1, <3>3, <1>1
        <4>2. tb.array[k] = Nil
          BY <3>1, <4>1, <1>1 DEF Held
        <4> QED
          BY <3>1, <3>3, <4>2, <1>2
      <3> QED
        BY <3>2, <3>3, <1>1
    <2> HIDE DEF j
    <2> QED
      BY <2>1, <2>2, <2>3, <1>1, UnboundIs
  <1> QED
    BY <1>4, <1>5, <1>6

\* luaH_getn of a sound table is a boundary of it.
LEMMA Bounded == IInv => LengthIsBoundary
  <1>1. SUFFICES ASSUME IInv
                 PROVE  LengthIsBoundary
    OBVIOUS
  <1> DEFINE n == luaH_getn(t)
  <1>2. hash \in Hashes /\ Sound(t)
    BY <1>1 DEF IInv, Right
  <1> HIDE DEF n
  <1>3. n = luaH_getn(t)
    BY DEF n
  <1>4. n \in Nat /\ (n = 0 \/ Get(t, n) # Nil) /\ Get(t, n + 1) = Nil
    BY <1>2, <1>3, LengthIs
  <1> QED
    BY <1>4 DEF LengthIsBoundary, n
------------------------------------------------------------------------------
(* The size of the array part *)

\* ceillog2 names the only power of two that n reaches and does not pass.
LEMMA Log2Of ==
    ASSUME NEW n \in Nat, NEW l \in Nat
    PROVE  ceillog2(n) = l <=> n <= twoto[l] /\ (l = 0 \/ twoto[l - 1] < n)
  <1> DEFINE c == ceillog2(n)
  <1>1. c \in Nat /\ twoto[c] \in Nat /\ n <= twoto[c] /\ (c = 0 \/ twoto[c - 1] < n)
    BY Log2
  <1> HIDE DEF c
  <1>2. ASSUME NEW x \in Nat, NEW y \in Nat, x < y, n <= twoto[x], twoto[y - 1] < n
        PROVE  FALSE
    <2>1. y - 1 \in Nat /\ twoto[y - 1] \in Nat /\ twoto[x] \in Nat /\ (x = y - 1 \/ x < y - 1)
      BY <1>2, TwoTo
    <2> QED
      BY <2>1, <1>2, Grows
  <1>3. ASSUME n <= twoto[l] /\ (l = 0 \/ twoto[l - 1] < n)
        PROVE  c = l
    <2>1. ~(c < l)
      BY <1>1, <1>2, <1>3
    <2>2. ~(l < c)
      BY <1>1, <1>2, <1>3
    <2> QED
      BY <2>1, <2>2, <1>1
  <1> QED
    BY <1>1, <1>3 DEF c

\* How many array indices are up to the l-th power of two.
Count(keys, l) == Cardinality({k \in ArrayIndices(keys) : k <= twoto[l]})

\* The slices computesizes adds up count the array indices up to each power of two.
LEMMA Counted ==
    ASSUME NEW keys
    PROVE  /\ Cardinality(ArrayIndices(keys)) \in Nat
           /\ \A l \in Nat :
                /\ Count(keys, l) \in Nat /\ Count(keys, l) <= Cardinality(ArrayIndices(keys))
                /\ Count(keys, l) <= twoto[l]
                /\ Cardinality(Slice(keys, l)) \in Nat
                /\ Count(keys, l) = (IF l = 0 THEN 0 ELSE Count(keys, l - 1))
                                    + Cardinality(Slice(keys, l))
  <1> DEFINE I == ArrayIndices(keys)
             Up(l) == {k \in I : k <= twoto[l]}
             Sl(l) == Slice(keys, l)
  <1>1. MAXASIZE \in Nat
    BY TwoTo, TableAssumption DEF MAXASIZE
  <1>2. I \in SUBSET (1 .. MAXASIZE) /\ \A k \in I : k \in Nat \ {0}
    BY <1>1, TableAssumption DEF ArrayIndices
  <1>3. IsFiniteSet(I) /\ Cardinality(I) \in Nat
    <2>1. IsFiniteSet(1 .. MAXASIZE)
      BY <1>1, FS_Interval
    <2> HIDE DEF I
    <2> QED
      BY <2>1, <1>2, FS_Subset, FS_CardinalityType
  <1>4. \A l : Sl(l) = {k \in I : ceillog2(k) = l}
    BY DEF Slice
  <1> HIDE DEF I, Sl
  <1>5. ASSUME NEW l \in Nat
        PROVE  /\ IsFiniteSet(Up(l)) /\ Cardinality(Up(l)) \in Nat
               /\ Cardinality(Up(l)) <= Cardinality(I) /\ Cardinality(Up(l)) <= twoto[l]
               /\ IsFiniteSet(Sl(l)) /\ Cardinality(Sl(l)) \in Nat
    <2> DEFINE U == Up(l)
               S == Sl(l)
               J == 1 .. twoto[l]
    <2>1. twoto[l] \in Nat
      BY TwoTo
    <2>2. U \in SUBSET I /\ S \in SUBSET I /\ U \in SUBSET J
      <3>1. U \subseteq I /\ S \subseteq I
        BY <1>4
      <3>2. \A k \in U : k \in Nat \ {0} /\ k <= twoto[l]
        BY <1>2
      <3>3. \A k \in U : k \in J
        BY <3>2, <2>1
      <3> HIDE DEF U, S, J
      <3> QED
        BY <3>1, <3>3
    <2>3. IsFiniteSet(J) /\ Cardinality(J) = twoto[l]
      <3>1. 1 \in Int /\ twoto[l] \in Int
        BY <2>1
      <3>2. IsFiniteSet(J) /\ Cardinality(J) = IF 1 > twoto[l] THEN 0 ELSE twoto[l] - 1 + 1
        BY <3>1, FS_Interval
      <3> QED
        BY <3>2, <2>1
    <2> HIDE DEF U, S, J
    <2>4. IsFiniteSet(U) /\ Cardinality(U) <= Cardinality(I) /\ Cardinality(U) \in Nat
      BY <2>2, <1>3, FS_Subset, FS_CardinalityType
    <2>5. Cardinality(U) <= twoto[l]
      BY <2>2, <2>3, FS_Subset
    <2>6. IsFiniteSet(S) /\ Cardinality(S) \in Nat
      BY <2>2, <1>3, FS_Subset, FS_CardinalityType
    <2> QED
      BY <2>4, <2>5, <2>6 DEF U, S
  <1>6. ASSUME NEW l \in Nat
        PROVE  Cardinality(Up(l)) = (IF l = 0 THEN 0 ELSE Cardinality(Up(l - 1)))
                                    + Cardinality(Sl(l))
    <2>1. \A k \in I : k \in Sl(l) <=> k <= twoto[l] /\ (l = 0 \/ twoto[l - 1] < k)
      BY <1>2, <1>4, Log2Of
    <2>2. CASE l = 0
      <3>1. Up(l) = Sl(l)
        BY <2>1, <2>2, <1>4
      <3>2. Cardinality(Sl(l)) \in Nat
        BY <1>5
      <3> HIDE DEF Up
      <3>3. Cardinality(Up(l)) = Cardinality(Sl(l))
        BY <3>1
      <3> QED
        BY <3>2, <3>3, <2>2
    <2>3. CASE l # 0
      <3> DEFINE U == Up(l)
                 P == Up(l - 1)
                 S == Sl(l)
      <3>1. l - 1 \in Nat /\ twoto[l - 1] \in Nat /\ twoto[l] \in Nat /\ twoto[l - 1] < twoto[l]
        BY <2>3, TwoTo, Grows
      <3>2. U = P \cup S /\ P \cap S = {}
        <4>1. \A k \in I : k <= twoto[l] <=> k <= twoto[l - 1] \/ k \in S
          BY <2>1, <2>3, <3>1, <1>2
        <4>2. \A k \in I : ~(k <= twoto[l - 1] /\ k \in S)
          BY <2>1, <2>3, <3>1, <1>2
        <4>3. \A k \in S : k \in I
          BY <1>4
        <4> HIDE DEF S
        <4> QED
          BY <4>1, <4>2, <4>3
      <3>3. IsFiniteSet(P) /\ IsFiniteSet(S) /\ Cardinality(P) \in Nat /\ Cardinality(S) \in Nat
        BY <3>1, <1>5
      <3> HIDE DEF U, P, S
      <3>4. Cardinality(U) = Cardinality(P) + Cardinality(S) - Cardinality(P \cap S)
        BY <3>2, <3>3, FS_Union
      <3>5. Cardinality(P \cap S) = 0
        BY <3>2, FS_EmptySet
      <3>6. Cardinality(U) = Cardinality(P) + Cardinality(S)
        BY <3>3, <3>4, <3>5
      <3> HIDE DEF Up
      <3> QED
        BY ONLY <3>6, <2>3 DEF U, P, S
    <2> QED
      BY <2>2, <2>3
  <1>7. \A l : Count(keys, l) = Cardinality(Up(l)) /\ Slice(keys, l) = Sl(l)
    BY DEF Count, I, Sl
  <1> QED
    BY <1>3, <1>5, <1>6, <1>7 DEF I

\* The size n after the slices below i.
LargestBelow(keys, i, n) ==
  /\ n = 0 \/ \E l \in 0 .. (i - 1) : n = twoto[l] /\ 2 * Count(keys, l) > twoto[l]
  /\ \A l \in 0 .. (i - 1) : 2 * Count(keys, l) > twoto[l] => twoto[l] <= n

\* A state s of the loop after i rounds: it has counted all there is to count
\* below, or no larger size can be half full.
Sizing(keys, i, s) ==
  /\ s.a \in Nat /\ s.n \in Nat /\ LargestBelow(keys, i, s.n)
  /\ \/ s.a = IF i = 0 THEN 0 ELSE Count(keys, i - 1)
     \/ twoto[i] >= 2 * Cardinality(ArrayIndices(keys))

\* One round of computesizes keeps the count and the best size so far.
LEMMA SizesOn ==
    ASSUME NEW keys, NEW i \in Nat \ {0}, NEW s, Sizing(keys, i - 1, s),
           NEW r, r = SizedNext(keys, s, i)
    PROVE  Sizing(keys, i, r)
  <1> DEFINE N == Cardinality(ArrayIndices(keys))
             C(l) == Count(keys, l)
             x == twoto[i - 1]
             before == IF i = 1 THEN 0 ELSE C(i - 2)
             d == Cardinality(Slice(keys, i - 1))
             a == s.a + d
  <1>1. i - 1 \in Nat /\ (i # 1 => i - 2 \in Nat) /\ i - 1 - 1 = i - 2
    OBVIOUS
  <1>2. /\ x \in Nat /\ twoto[i] = 2 * x
        /\ i # 1 => twoto[i - 2] \in Nat /\ x = 2 * twoto[i - 2]
        /\ i = 1 => x = 1
    <2>1. i # 1 => twoto[i - 1] = 2 * twoto[i - 1 - 1]
      BY <1>1, TwoTo
    <2> QED
      BY <2>1, <1>1, TwoTo
  <1>3. N \in Nat /\ C(i - 1) \in Nat /\ C(i - 1) <= N /\ C(i - 1) <= x /\ d \in Nat
        /\ C(i - 1) = before + d /\ before \in Nat
        /\ (i # 1 => before <= twoto[i - 2])
    <2>1. C(i - 1) = (IF i - 1 = 0 THEN 0 ELSE C(i - 1 - 1)) + d
      BY <1>1, Counted
    <2>2. N \in Nat /\ C(i - 1) \in Nat /\ C(i - 1) <= N /\ C(i - 1) <= x /\ d \in Nat
      BY <1>1, Counted
    <2>3. i # 1 => C(i - 2) \in Nat /\ C(i - 2) <= twoto[i - 2]
      BY <1>1, Counted
    <2> QED
      BY <2>1, <2>2, <2>3, <1>1
  <1>4. s.a \in Nat /\ s.n \in Nat /\ LargestBelow(keys, i - 1, s.n) /\ (s.a = before \/ x >= 2 * N)
    BY <1>1 DEF Sizing
  <1>5. \A l : l \in 0 .. (i - 1) <=> l \in 0 .. (i - 2) \/ l = i - 1
    BY <1>1
  <1>6. r = IF x \div 2 >= N \/ s.a = N THEN s
            ELSE [a |-> a, n |-> IF a > s.a /\ a > x \div 2 THEN x ELSE s.n]
    BY DEF SizedNext
  <1> HIDE DEF N, C, x, before, d, a
  <1>7. CASE x \div 2 >= N \/ s.a = N
    <2>1. 2 * N <= x
      <3>1. CASE x \div 2 >= N
        BY <3>1, <1>2, <1>3
      <3>2. CASE s.a = N /\ s.a = before
        <4>1. CASE i = 1
          <5>1. before = 0
            BY <4>1 DEF before
          <5> QED
            BY <5>1, <3>2, <1>2
        <4>2. CASE i # 1
          BY <4>2, <3>2, <1>2, <1>3
        <4> QED
          BY <4>1, <4>2
      <3> QED
        BY <3>1, <3>2, <1>4, <1>7
    <2>2. ~(2 * C(i - 1) > x) /\ twoto[i] >= 2 * N
      BY <2>1, <1>2, <1>3
    <2>3. r = s
      BY <1>6, <1>7
    <2>4. LargestBelow(keys, i, r.n)
      <3>1. \A l \in 0 .. (i - 1) : 2 * Count(keys, l) > twoto[l] => l \in 0 .. (i - 2)
        BY <2>2, <1>5 DEF C, x
      <3> QED
        BY <3>1, <2>3, <1>1, <1>4, <1>5 DEF LargestBelow
    <2> QED
      BY <2>2, <2>3, <2>4, <1>4 DEF Sizing, N
  <1>8. CASE ~(x \div 2 >= N \/ s.a = N)
    <2>1. ~(x >= 2 * N)
      BY <1>8, <1>2, <1>3
    <2>2. s.a = before /\ a = C(i - 1)
      BY <2>1, <1>3, <1>4 DEF a
    <2>3. a > s.a /\ a > x \div 2 <=> 2 * C(i - 1) > x
      <3>1. a > x \div 2 <=> 2 * C(i - 1) > x
        BY <2>2, <1>2, <1>3
      <3>2. a = s.a => ~(a > x \div 2)
        <4>1. CASE i = 1
          <5>1. before = 0
            BY <4>1 DEF before
          <5> QED
            BY <5>1, <2>2, <4>1, <1>2
        <4>2. CASE i # 1
          BY <4>2, <2>2, <1>2, <1>3
        <4> QED
          BY <4>1, <4>2
      <3>3. a >= s.a
        BY <2>2, <1>3
      <3> QED
        BY <3>1, <3>2, <3>3, <2>2, <1>3, <1>4
    <2> DEFINE n == IF 2 * C(i - 1) > x THEN x ELSE s.n
    <2>4. r = [a |-> C(i - 1), n |-> n]
      BY <1>6, <1>8, <2>2, <2>3
    <2>5. n \in Nat
      BY <1>2, <1>4
    <2>6. LargestBelow(keys, i, n)
      <3>1. CASE 2 * C(i - 1) > x
        <4>1. /\ n = x /\ n = twoto[i - 1]
              /\ 2 * Count(keys, i - 1) > twoto[i - 1] /\ i - 1 \in 0 .. (i - 1)
          BY <3>1, <1>1 DEF x, C
        <4>2. \A l \in 0 .. (i - 1) : twoto[l] <= n
          <5>1. TAKE l \in 0 .. (i - 1)
          <5>2. l \in Nat /\ (l < i - 1 \/ l = i - 1) /\ twoto[i - 1] \in Nat /\ twoto[l] \in Nat
            BY <1>1, TwoTo
          <5> QED
            BY <5>2, <4>1, <1>1, Grows
        <4> HIDE DEF n
        <4> QED
          BY <4>1, <4>2 DEF LargestBelow
      <3>2. CASE ~(2 * C(i - 1) > x)
        <4>1. n = s.n
          BY <3>2
        <4> HIDE DEF n
        <4>2. \A l \in 0 .. (i - 1) : 2 * Count(keys, l) > twoto[l] => l \in 0 .. (i - 2)
          BY <3>2, <1>5 DEF C, x
        <4> QED
          BY <4>1, <4>2, <1>1, <1>4, <1>5 DEF LargestBelow
      <3> QED
        BY <3>1, <3>2
    <2> HIDE DEF n
    <2>7. r.a = C(i - 1) /\ r.n = n
      BY <2>4
    <2> QED
      BY <2>5, <2>6, <2>7, <1>3 DEF Sizing, C
  <1> QED
    BY <1>7, <1>8

\* computesizes finds the largest size that is more than half in use.
LEMMA SizeIsLargest ==
    ASSUME NEW keys, NEW n, n = computesizes(keys)
    PROVE  n \in Nat /\ LargestBelow(keys, MaxBits + 1, n)
  <1> DEFINE m == MaxBits + 1
  <1>1. PICK F : /\ computesizes(keys) = F[m].n /\ F[0] = [a |-> 0, n |-> 0]
                 /\ \A i \in 1 .. m : F[i] = SizedNext(keys, F[i - 1], i)
    BY SizeLoop
  <1>2. m \in Nat
    BY TableAssumption
  <1>3. Sizing(keys, 0, F[0])
    <2>1. F[0].a = 0 /\ F[0].n = 0 /\ \A l \in 0 .. (0 - 1) : FALSE
      BY <1>1
    <2> QED
      BY <2>1 DEF Sizing, LargestBelow
  <1> DEFINE T == {i \in Nat : i <= m /\ ~Sizing(keys, i, F[i])}
  <1> HIDE DEF m
  <1>4. T = {}
    <2>1. SUFFICES ASSUME T # {}
                   PROVE  FALSE
      OBVIOUS
    <2>2. PICK i \in T : \A j \in T : i <= j
      BY <2>1, Least
    <2>3. i # 0
      BY <2>2, <1>3
    <2>4. i - 1 \in Nat /\ i - 1 \notin T /\ i \in 1 .. m /\ i - 1 <= m
      BY <2>2, <2>3, <1>2
    <2>5. Sizing(keys, i - 1, F[i - 1]) /\ F[i] = SizedNext(keys, F[i - 1], i)
      BY <2>4, <1>1
    <2>6. Sizing(keys, i, F[i])
      BY <2>4, <2>5, SizesOn
    <2> QED
      BY <2>2, <2>6
  <1>5. Sizing(keys, m, F[m])
    BY <1>2, <1>4
  <1> QED
    BY <1>1, <1>5 DEF Sizing, m

\* computesizes returns the largest size more than half of whose slots are used.
LEMMA Optimal == ArrayOptimal
  <1>1. ASSUME NEW keys
        PROVE  computesizes(keys) =
                 Max({p \in {twoto[i] : i \in 0 .. MaxBits} :
                        2 * Cardinality({i \in ArrayIndices(keys) : i <= p}) > p} \cup {0})
    <2> DEFINE good == {p \in {twoto[i] : i \in 0 .. MaxBits} :
                          2 * Cardinality({i \in ArrayIndices(keys) : i <= p}) > p} \cup {0}
               n == computesizes(keys)
    <2>1. n \in Nat /\ LargestBelow(keys, MaxBits + 1, n)
      BY SizeIsLargest
    <2>2. MaxBits \in Nat /\ MaxBits + 1 - 1 = MaxBits
      BY TableAssumption
    <2>3. \A p : p \in good <=>
            p = 0 \/ \E l \in 0 .. MaxBits : p = twoto[l] /\ 2 * Count(keys, l) > twoto[l]
      BY DEF Count
    <2>4. good \in SUBSET Nat
      BY <2>3, TwoTo
    <2> HIDE DEF n, good
    <2>5. n \in good /\ \A p \in good : p <= n
      BY <2>1, <2>2, <2>3 DEF LargestBelow
    <2>6. \A p \in good : n >= p
      BY <2>1, <2>4, <2>5
    <2>7. \A p \in good : (\A q \in good : p >= q) => p = n
      BY <2>1, <2>4, <2>5
    <2>8. n = CHOOSE p \in good : \A q \in good : p >= q
      BY <2>5, <2>6, <2>7
    <2> QED
      BY <2>8 DEF Max, n, good
  <1> QED
    BY <1>1 DEF ArrayOptimal
------------------------------------------------------------------------------
(* The theorems *)

\* The invariant gives the types, and that no key is in two places.
LEMMA Typed == IInv => NotShadowed
  <1>1. SUFFICES ASSUME IInv
                 PROVE  NotShadowed
    OBVIOUS
  <1>2. hash \in Hashes /\ Sound(t) /\ view = View(t) /\ walk \in Walkers
    BY <1>1 DEF IInv, Right
  <1>3. Shaped(t) /\ Held(t) /\ t \in Tables
    BY <1>2 DEF Sound, Shaped
  <1>4. TypeOK
    <2>1. view \in [Key -> Value \cup {Nil}]
      BY <1>2, ViewIs
    <2>2. sizenode(t) = twoto[ceillog2(sizenode(t))]
      <3>1. PICK p \in Nat : sizenode(t) = twoto[p]
        BY <1>3 DEF Shaped
      <3>2. sizenode(t) \in Nat
        BY <1>3, Parts
      <3>3. ceillog2(sizenode(t)) = p
        BY <3>1, <3>2, Log2
      <3> QED
        BY <3>1, <3>3
    <2>3. /\ t.array \in Seq(Value \cup {Nil}) /\ t.node \in Seq(Slots)
          /\ t.flags \in SUBSET Events /\ ~t.nested
          /\ t.lastfree \in 1 .. (sizenode(t) + 1)
      BY <1>3 DEF Shaped, Tables
    <2> QED
      BY <1>2, <2>1, <2>2, <2>3 DEF TypeOK, Walkers
  <1>5. ASSUME NEW n \in 1 .. sizenode(t), t.node[n].val # Nil
        PROVE  view[t.node[n].key] = t.node[n].val
    <2> DEFINE A == sizearray(t)
               j == A + n
    <2>1. A \in Nat /\ sizenode(t) \in Nat
      BY <1>3, Parts
    <2>2. j \in Entries(t) /\ ~(j <= A) /\ j - A = n
      BY <2>1 DEF Entries
    <2> HIDE DEF j
    <2>3. EntryAt(t, j).key = t.node[n].key /\ EntryAt(t, j).val = t.node[n].val
      BY <2>2 DEF EntryAt
    <2>4. t.node[n].key \in DOMAIN hash /\ Get(t, t.node[n].key) = t.node[n].val
      BY <1>2, <1>5, <2>2, <2>3, FindsEntry
    <2> QED
      BY <1>2, <2>4, ViewIs
  <1> QED
    BY <1>4, <1>5 DEF NotShadowed

\* Chains end and are complete, in every state.
THEOREM TableSound == Spec => []IInv
  <1>1. Init => IInv
    BY Begins
  <1>2. IInv /\ [Next]_vars => IInv'
    BY Implements
  <1> QED
    BY <1>1, <1>2, PTL DEF Spec

\* A key is in one place only, and no rehash is started inside a rehash
\* (ltable.c:286 to 326, 399 to 429).
THEOREM KeysInOnePlace == Spec => []NotShadowed
  <1>1. IInv => NotShadowed
    BY Typed
  <1> QED
    BY <1>1, TableSound, PTL

\* What the cache of absent metamethods says is true (ltm.c:50 to 57,
\* ltable.c:499).
THEOREM AbsentIsAbsent == Spec => []CacheIsTrue
  <1>1. IInv => CacheIsTrue
    BY DEF IInv
  <1> QED
    BY <1>1, TableSound, PTL

\* A table is a map, and a traversal meets every entry once.
THEOREM TableIsMap == Spec => ImplementsMap
  <1>1. Init => Map!Init
    BY Begins
  <1>2. IInv /\ [Next]_vars => [Map!Next]_<<view, walk>>
    BY Implements
  <1> QED
    BY <1>1, <1>2, TableSound, PTL DEF Spec, ImplementsMap, Map!Spec

\* The length of a table is a boundary, past MAX_INT too (ltable.c:534 to 577).
THEOREM LengthHolds == Spec => []LengthIsBoundary
  <1>1. IInv => LengthIsBoundary
    BY Bounded
  <1> QED
    BY <1>1, TableSound, PTL

\* A rehash gives the array part the largest size that is more than half in
\* use (ltable.c:189 to 210).
THEOREM SizeIsOptimal == Spec => []ArrayOptimal
  BY Optimal, PTL
=============================================================================
