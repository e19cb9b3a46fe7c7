------------------------------ MODULE LuaTable ------------------------------
(***************************************************************************)
(* Lua tables, lua-5.1/ltable.c: an array part and a hash part whose nodes *)
(* are chained (Brent's variation), resized when no free node is left.     *)
(* One table and its operations: assignment, traversal, length, the clean- *)
(* ing of dead keys by the collector and the cache of absent metamethods.  *)
(*                                                                         *)
(* A node index is 0 for NULL and 1 .. size; `dummy' says that the node    *)
(* vector is the shared dummynode.  The hash of a key is any function of   *)
(* Hashes; only its reduction to a node is modelled.                       *)
(***************************************************************************)
EXTENDS Integers, Sequences, FiniteSets, FiniteSetsExt

CONSTANTS
  Key,        \* the keys: integers and others
  Value,      \* the values
  Nil,        \* nil, as a key and as a value
  NaN,        \* the number that is no key
  IntKeys,    \* the keys that are integers >= 1
  StringKeys, \* those hashed by a power of two
  Collectable,\* those that the collector may find dead
  Events,     \* the keys that are names of cached metamethods
  Hashes,     \* hash functions of some of the keys: a behaviour uses one
              \* of them and those keys
  MaxInt,     \* MAX_INT
  MaxBits,    \* MAXBITS
  Created     \* the sizes <<array, hash>> a table is created with

ASSUME TableAssumption ==
  /\ IntKeys = Key \cap (Nat \ {0}) /\ IntKeys \subseteq 1..MaxInt
  /\ Nil \notin Key \cup Value /\ NaN \notin Key
  /\ StringKeys \cup Collectable \cup Events \subseteq Key \ IntKeys
  /\ Events \subseteq StringKeys
  /\ \A h \in Hashes : DOMAIN h \subseteq Key /\ h \in [DOMAIN h -> Nat]
  /\ MaxInt \in Nat \ {0} /\ MaxBits \in Nat
  /\ Created \subseteq Nat \X Nat

VARIABLES
  hash,   \* the hash function of this behaviour
  t,      \* the table
  view,   \* what luaH_get gives for each key, computed from t in every step
  walk    \* the traversal under way, as in LuaMap
vars == <<hash, t, view, walk>>

EmptyNode == [key |-> Nil, dead |-> FALSE, val |-> Nil, next |-> 0]
sizearray(tb) == Len(tb.array)
sizenode(tb) == Len(tb.node)
NoSlot == <<"none", 0>>
twoto[x \in Nat] == IF x = 0 THEN 1 ELSE 2 * twoto[x - 1]
MAXASIZE == twoto[MaxBits]
\* The least p with twoto[p] >= n.
ceillog2(n) == CHOOSE p \in 0..n : twoto[p] >= n /\ (p = 0 \/ twoto[p - 1] < n)
-----------------------------------------------------------------------------
(* Reading. *)

mainposition(tb, k) ==
  LET size == sizenode(tb)
  IN  (hash[k] % (IF k \in StringKeys THEN size
                  ELSE IF size = 1 THEN 1 ELSE size - 1)) + 1

\* The first node of the set S in the chain from p on, or 0.
Search(nodes, p, S) ==
  LET From[n \in 0..Len(nodes)] ==
        IF n = 0 \/ n \in S THEN n ELSE From[nodes[n].next]
  IN  From[p]
HasKey(tb, k) == {n \in 1..sizenode(tb) : tb.node[n].key = k /\ ~tb.node[n].dead}

\* luaH_get, luaH_getnum, luaH_getstr: where the value of the key is.
luaH_get(tb, k) ==
  IF k \in IntKeys /\ k <= sizearray(tb) THEN <<"array", k>>
  ELSE IF k \notin DOMAIN hash THEN NoSlot
  ELSE LET n == Search(tb.node, mainposition(tb, k), HasKey(tb, k))
       IN  IF n = 0 THEN NoSlot ELSE <<"node", n>>

At(tb, slot) == CASE slot[1] = "array" -> tb.array[slot[2]]
                  [] slot[1] = "node" -> tb.node[slot[2]].val
                  [] OTHER -> Nil
Get(tb, k) == At(tb, luaH_get(tb, k))
View(tb) == [k \in Key |-> IF k \in DOMAIN hash THEN Get(tb, k) ELSE Nil]
Put(tb, slot, v) == IF slot[1] = "array"
                    THEN [tb EXCEPT !.array[slot[2]] = v]
                    ELSE [tb EXCEPT !.node[slot[2]].val = v]
-----------------------------------------------------------------------------
(* Resizing. *)

\* Slip: the place is free when its value is nil.
SlipGetFreePos(tb) == {n \in 1..(tb.lastfree - 1) : tb.node[n].val = Nil}

\* getfreepos: the places lastfree can still come to.
getfreepos(tb) == {n \in 1..(tb.lastfree - 1) : tb.node[n].key = Nil}

\* The node at mp, whose predecessor is prev, moves to the free place n.
MoveTo(nodes, mp, prev, n) ==
  [nodes EXCEPT ![prev].next = n, ![n] = nodes[mp],
                ![mp].next = 0, ![mp].val = Nil]

\* newkey, as long as there is a place: the main position if its value is
\* nil; else a free place, for the colliding node when that is not in its own
\* main position, for the new key otherwise.
newkey(tb, k) ==
  LET mp == mainposition(tb, k)
      nodes == tb.node
      free == getfreepos(tb)
      n == Max(free)
      head == mainposition(tb, nodes[mp].key)
      prev == Search(nodes, head, {i \in 1..Len(nodes) : nodes[i].next = mp})
      chained == [nodes EXCEPT ![n].next = nodes[mp].next, ![mp].next = n]
      Made(new, last, p) ==
        [tb |-> [tb EXCEPT
                   !.lastfree = last,
                   !.node = [new EXCEPT ![p].key = k, ![p].dead = FALSE]],
         slot |-> <<"node", p>>]
  IN  IF nodes[mp].val = Nil /\ ~tb.dummy THEN Made(nodes, tb.lastfree, mp)
      ELSE IF free = {} THEN [tb |-> tb, slot |-> NoSlot]
      ELSE IF head # mp THEN Made(MoveTo(nodes, mp, prev, n), n, mp)
      ELSE Made(chained, n, n)

\* luaH_set or luaH_setnum followed by the assignment, in a table that has
\* room.  Without room the table would be resized while it is resized:
\* `nested' records that.
Reinsert(tb, entry) ==
  LET slot == luaH_get(tb, entry.key)
      made == newkey(tb, entry.key)
  IN  IF slot # NoSlot THEN Put(tb, slot, entry.val)
      ELSE IF made.slot # NoSlot THEN Put(made.tb, made.slot, entry.val)
      ELSE [tb EXCEPT !.nested = TRUE]

setarrayvector(array, size) ==
  [i \in 1..size |-> IF i <= Len(array) THEN array[i] ELSE Nil]

setnodevector(tb, size) ==
  LET full == IF size = 0 THEN 1 ELSE twoto[ceillog2(size)]
  IN  [tb EXCEPT !.node = [i \in 1..full |-> EmptyNode],
                 !.dummy = (size = 0),
                 !.lastfree = IF size = 0 THEN 1 ELSE full + 1]

\* The i-th entry that resize considers: those of the vanishing slice of the
\* array, then the old nodes from the last to the first.
Vanishing(tb, nasize) == IF sizearray(tb) > nasize THEN sizearray(tb) - nasize ELSE 0
Entry(tb, nasize, i) ==
  LET gone == Vanishing(tb, nasize)
      nd == tb.node[sizenode(tb) + 1 - (i - gone)]
  IN  IF i <= gone THEN [key |-> nasize + i, val |-> tb.array[nasize + i]]
      ELSE [key |-> nd.key, val |-> nd.val]

\* resize: what has a value goes to the new parts.
resize(tb, nasize, nhsize) ==
  LET total == Vanishing(tb, nasize) + sizenode(tb)
      empty == setnodevector([tb EXCEPT !.array = setarrayvector(@, nasize)],
                             nhsize)
      Filled[i \in 0..total] ==
        IF i = 0 THEN empty
        ELSE LET entry == Entry(tb, nasize, i)
             IN  IF entry.val = Nil THEN Filled[i - 1]
                 ELSE Reinsert(Filled[i - 1], entry)
  IN  Filled[total]

\* countint, numusearray and numusehash: how many of the integer keys are in
\* the slice (2^(lg-1), 2^lg].
Present(tb) == {i \in 1..sizearray(tb) : tb.array[i] # Nil}
                 \cup {tb.node[i].key : i \in {j \in 1..sizenode(tb) :
                                                 tb.node[j].val # Nil}}
ArrayIndices(keys) == {k \in keys \cap IntKeys : k <= MAXASIZE}
Slice(keys, lg) == {k \in ArrayIndices(keys) : ceillog2(k) = lg}

\* Slip: an array part exactly half full is taken, as ltable.c:12 says.
SlipComputeSizes(keys) ==
  LET narray == Cardinality(ArrayIndices(keys))
      Sized[i \in 0..(MaxBits + 1)] ==
        IF i = 0 THEN [a |-> 0, n |-> 0]
        ELSE LET s == Sized[i - 1]
                 twotoi == twoto[i - 1]
                 upto == s.a + Cardinality(Slice(keys, i - 1))
             IN  IF twotoi \div 2 >= narray \/ s.a = narray THEN s
                 ELSE [a |-> upto, n |-> IF upto > s.a /\ upto >= twotoi \div 2
                                         THEN twotoi ELSE s.n]
  IN  Sized[MaxBits + 1].n

\* computesizes: the new size of the array part; the loop over the slices
\* ends when no larger size can be half full or every index has been seen.
computesizes(keys) ==
  LET narray == Cardinality(ArrayIndices(keys))
      Sized[i \in 0..(MaxBits + 1)] ==
        IF i = 0 THEN [a |-> 0, n |-> 0]
        ELSE LET s == Sized[i - 1]
                 twotoi == twoto[i - 1]
                 upto == s.a + Cardinality(Slice(keys, i - 1))
             IN  IF twotoi \div 2 >= narray \/ s.a = narray THEN s
                 ELSE [a |-> upto, n |-> IF upto > s.a /\ upto > twotoi \div 2
                                         THEN twotoi ELSE s.n]
  IN  Sized[MaxBits + 1].n

\* rehash: every key in use and the extra key are counted anew.
rehash(tb, ek) ==
  LET keys == Present(tb) \cup {ek}
      nasize == computesizes(keys)
      na == Cardinality({k \in ArrayIndices(keys) : k <= nasize})
  IN  resize(tb, nasize, Cardinality(keys) - na)

NeedsRehash(tb, k) == luaH_get(tb, k) = NoSlot /\ newkey(tb, k).slot = NoSlot

\* luaH_set (or luaH_setnum) and the assignment of v to the slot it returns.
Store(tb, k, v) ==
  IF NeedsRehash(tb, k)
  THEN Reinsert(rehash(tb, k), [key |-> k, val |-> v])
  ELSE Reinsert(tb, [key |-> k, val |-> v])
-----------------------------------------------------------------------------
(* The length. *)

\* The binary search between i0, present or 0, and j0, absent; the interval
\* is empty after j0 steps at the latest.
Boundary(i0, j0, absent) ==
  LET Halved[n \in 0..j0] ==
        IF n = 0 THEN [i |-> i0, j |-> j0]
        ELSE LET s == Halved[n - 1]
                 m == (s.i + s.j) \div 2
             IN  IF s.j - s.i <= 1 THEN s
                 ELSE IF m \in absent THEN [i |-> s.i, j |-> m]
                 ELSE [i |-> m, j |-> s.j]
  IN  Halved[j0].i

\* Slip: after an overflow the last index doubled is the answer.
SlipUnboundSearch(tb, j0) ==
  LET absent == {k \in 1..(j0 + 1 + 2 * MaxInt) : Get(tb, k) = Nil}
      Doubled[n \in 0..MaxInt] ==
        IF n = 0 THEN [i |-> j0, j |-> j0 + 1, over |-> FALSE]
        ELSE LET s == Doubled[n - 1]
             IN  IF s.over \/ s.j \in absent THEN s
                 ELSE [i |-> s.j, j |-> 2 * s.j, over |-> 2 * s.j > MaxInt]
      found == Doubled[MaxInt]
  IN  IF found.over THEN found.i ELSE Boundary(found.i, found.j, absent)

\* unbound_search: doubles j until it is absent; past MAX_INT it resorts to a
\* linear search.
unbound_search(tb, j0) ==
  LET absent == {k \in 1..(j0 + 1 + 2 * MaxInt) : Get(tb, k) = Nil}
      Doubled[n \in 0..MaxInt] ==
        IF n = 0 THEN [i |-> j0, j |-> j0 + 1, over |-> FALSE]
        ELSE LET s == Doubled[n - 1]
             IN  IF s.over \/ s.j \in absent THEN s
                 ELSE [i |-> s.j, j |-> 2 * s.j, over |-> 2 * s.j > MaxInt]
      found == Doubled[MaxInt]
  IN  IF found.over THEN Min(absent) - 1 ELSE Boundary(found.i, found.j, absent)

luaH_getn(tb) ==
  LET j == sizearray(tb)
  IN  IF j > 0 /\ tb.array[j] = Nil
      THEN Boundary(0, j, {m \in 1..j : tb.array[m] = Nil})
      ELSE IF tb.dummy THEN j
      ELSE unbound_search(tb, j)
-----------------------------------------------------------------------------
(* Traversal. *)

Off == [on |-> FALSE, ok |-> TRUE, at |-> Nil, val |-> Nil, seen |-> {}]

\* Slip: a dead key is not recognised.
SlipFindIndex(tb, k) ==
  IF k = Nil THEN 0
  ELSE IF k \in IntKeys /\ k <= sizearray(tb) THEN k
  ELSE LET n == Search(tb.node, mainposition(tb, k), HasKey(tb, k))
       IN  IF n = 0 THEN -1 ELSE sizearray(tb) + n

\* findindex: the number of the key in the order of traversal, 0 for nil, -1
\* for "invalid key to 'next'".  A key may be dead already.
findindex(tb, k) ==
  IF k = Nil THEN 0
  ELSE IF k \in IntKeys /\ k <= sizearray(tb) THEN k
  ELSE LET n == Search(tb.node, mainposition(tb, k),
                       {i \in 1..sizenode(tb) : tb.node[i].key = k})
       IN  IF n = 0 THEN -1 ELSE sizearray(tb) + n

\* luaH_next: the first entry after number i with a value.
NextEntries(tb, i) ==
  {j \in (i + 1)..(sizearray(tb) + sizenode(tb)) :
     IF j <= sizearray(tb) THEN tb.array[j] # Nil
     ELSE tb.node[j - sizearray(tb)].val # Nil}
EntryAt(tb, j) ==
  IF j <= sizearray(tb) THEN [key |-> j, val |-> tb.array[j]]
  ELSE [key |-> tb.node[j - sizearray(tb)].key,
        val |-> tb.node[j - sizearray(tb)].val]

luaH_next ==
  /\ walk.on /\ walk.ok
  /\ LET i == findindex(t, walk.at)
         entries == NextEntries(t, i)
     IN  walk' = IF i = -1 THEN [walk EXCEPT !.ok = FALSE]
                 ELSE IF entries = {} THEN Off
                 ELSE LET e == EntryAt(t, Min(entries))
                      IN  [walk EXCEPT !.at = e.key, !.val = e.val,
                             !.seen = IF e.key \in @ THEN Key ELSE @ \cup {e.key}]
  /\ UNCHANGED <<hash, t, view>>

\* The first call of a traversal passes nil as the key.
Begin ==
  /\ ~walk.on
  /\ walk' = [Off EXCEPT !.on = TRUE]
  /\ UNCHANGED <<hash, t, view>>
-----------------------------------------------------------------------------
(* The operations. *)

\* luaH_new: a table without parts, that gets them.
Bare == [array |-> <<>>, node |-> <<EmptyNode>>, dummy |-> TRUE, lastfree |-> 1,
         flags |-> Events, nested |-> FALSE]
luaH_new(narray, nhash) ==
  setnodevector([Bare EXCEPT !.array = setarrayvector(@, narray)], nhash)

Init ==
  /\ hash \in Hashes
  /\ \E size \in Created : t = luaH_new(size[1], size[2])
  /\ view = View(t)
  /\ walk = Off

\* Slip: the cache of absent metamethods is kept.
SlipAssign(k, v) ==
  /\ t' = Store(t, k, v)
  /\ walk' = IF view[k] = Nil THEN Off ELSE walk
  /\ view' = View(t')
  /\ UNCHANGED hash

\* luaH_set, called by lua_rawset, luaV_settable and the code generator: the
\* cache of absent metamethods is emptied.
Assign(k, v) ==
  /\ t' = [Store(t, k, v) EXCEPT !.flags = {}]
  /\ walk' = IF view[k] = Nil THEN Off ELSE walk
  /\ view' = View(t')
  /\ UNCHANGED hash

\* luaH_setnum, called by lua_rawseti and OP_SETLIST: it is kept.
AssignNum(k, v) ==
  /\ k \in IntKeys
  /\ t' = Store(t, k, v)
  /\ walk' = IF view[k] = Nil THEN Off ELSE walk
  /\ view' = View(t')
  /\ UNCHANGED hash

\* luaH_set on nil or NaN: an error, after the cache was emptied.
AssignBad(k) ==
  /\ k \in {Nil, NaN}
  /\ t' = [t EXCEPT !.flags = {}]
  /\ UNCHANGED <<hash, view, walk>>

\* luaH_resizearray, by OP_SETLIST before it stores: always to a larger one,
\* and no traversal can be under way in a table that is being constructed.
luaH_resizearray(nasize) ==
  /\ ~walk.on
  /\ nasize > sizearray(t)
  /\ t' = resize(t, nasize, IF t.dummy THEN 0 ELSE sizenode(t))
  /\ view' = View(t')
  /\ UNCHANGED <<hash, walk>>

\* removeentry, by the collector: the key of an entry without value may be
\* collected and is only good to continue a traversal.
removeentry(n) ==
  /\ n \in 1..sizenode(t)
  /\ t.node[n].val = Nil
  /\ t.node[n].key \in Collectable
  /\ t' = [t EXCEPT !.node[n].dead = TRUE]
  /\ view' = View(t')
  /\ UNCHANGED <<hash, walk>>

\* luaT_gettm: that the table has no such method is remembered.
luaT_gettm(e) ==
  /\ e \notin t.flags
  /\ view[e] = Nil
  /\ t' = [t EXCEPT !.flags = @ \cup {e}]
  /\ UNCHANGED <<hash, view, walk>>

Next ==
  \/ \E k \in DOMAIN hash, v \in Value \cup {Nil} :
        Assign(k, v) \/ AssignNum(k, v)
  \/ AssignBad(Nil) \/ AssignBad(NaN)
  \/ \E n \in 1..Cardinality(IntKeys) : luaH_resizearray(n)
  \/ \E n \in 1..sizenode(t) : removeentry(n)
  \/ \E e \in Events \cap DOMAIN hash : luaT_gettm(e)
  \/ Begin \/ luaH_next

Spec == Init /\ [][Next]_vars
-----------------------------------------------------------------------------
(* Properties. *)

Slots == [key : Key \cup {Nil}, dead : BOOLEAN, val : Value \cup {Nil},
          next : Nat]

\* Every variable has its type, and the node vector a power of two nodes; no
\* rehash was started inside a rehash, which makes enough room for what it
\* reinserts (ltable.c:314, 321, 421).
TypeOK ==
  /\ hash \in Hashes
  /\ view \in [Key -> Value \cup {Nil}]
  /\ t.array \in Seq(Value \cup {Nil})
  /\ t.node \in Seq(Slots)
  /\ sizenode(t) = twoto[ceillog2(sizenode(t))]
  /\ t.lastfree \in 1..(sizenode(t) + 1)
  /\ t.flags \subseteq Events
  /\ ~t.nested
  /\ walk \in [on : BOOLEAN, ok : BOOLEAN, at : Key \cup {Nil},
               val : Value \cup {Nil}, seen : SUBSET Key]

\* A key is in one place only: an entry of the hash part is never hidden by
\* the array part, so that reading and traversing agree (ltable.c:286 to 326).
\* Every variable has its type.
NotShadowed ==
  /\ TypeOK
  /\ \A n \in 1..sizenode(t) :
       t.node[n].val # Nil => view[t.node[n].key] = t.node[n].val

\* The length of a table is a boundary, also when the search runs into
\* MAX_INT (ltable.c:534 to 577).
LengthIsBoundary ==
  LET n == luaH_getn(t)
  IN  /\ n = 0 \/ Get(t, n) # Nil
      /\ Get(t, n + 1) = Nil

\* A metamethod remembered as absent is absent (ltm.c:50 to 57,
\* ltable.c:499): the cache never hides one that was assigned later.
CacheIsTrue == \A e \in t.flags : view[e] = Nil

\* A rehash gives the array part the largest power of two as its size that is
\* more than half in use (ltable.c:189 to 210), whatever keys are in use. The
\* comment at the head of the file (ltable.c:12) says "at least half the slots";
\* the code, and the comment at its test (ltable.c:198), say more than half, and
\* that is what is stated here: with the header's rule the property fails.
ArrayOptimal ==
  \A k \in DOMAIN hash :
    LET keys == Present(t) \cup {k}
        good == {p \in {twoto[i] : i \in 0..MaxBits} :
                   2 * Cardinality({i \in ArrayIndices(keys) : i <= p}) > p}
    IN  computesizes(keys) = Max(good \cup {0})

\* The table implements the map: what is read is what was assigned last, and
\* a traversal meets every entry once, with dead keys, moved nodes and
\* resized parts in between.
Map == INSTANCE LuaMap WITH map <- view, walk <- walk
ImplementsMap == Map!Spec
=============================================================================
