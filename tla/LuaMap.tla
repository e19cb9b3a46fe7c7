------------------------------- MODULE LuaMap -------------------------------
(***************************************************************************)
(* What a Lua table promises to those who use it: a map from keys to       *)
(* values, and a traversal that meets every entry once as long as only     *)
(* fields that exist are assigned to.  Implemented by LuaTable.            *)
(***************************************************************************)
CONSTANTS Key, Value, Nil

VARIABLES
  map,   \* the value of each key, Nil where there is none
  walk   \* the traversal under way: where it is and what it has met

Off == [on |-> FALSE, ok |-> TRUE, at |-> Nil, val |-> Nil, seen |-> {}]

TypeOK ==
  /\ map \in [Key -> Value \cup {Nil}]
  /\ walk \in [on : BOOLEAN, ok : BOOLEAN, at : Key \cup {Nil},
               val : Value \cup {Nil}, seen : SUBSET Key]

Init ==
  /\ map = [k \in Key |-> Nil]
  /\ walk = Off

\* t[k] = v.  Nothing is promised of a traversal once a field that did not
\* exist has been assigned to, whatever the value.
Assign(k, v) ==
  /\ map' = [map EXCEPT ![k] = v]
  /\ walk' = IF map[k] = Nil THEN Off ELSE walk

\* next(t, nil) begins a traversal; next(t, k) gives an entry not met yet, or
\* ends it when there is none.
Begin ==
  /\ walk' = [Off EXCEPT !.on = TRUE]
  /\ UNCHANGED map

Meet(k) ==
  /\ walk.on
  /\ k \notin walk.seen
  /\ map[k] # Nil
  /\ walk' = [walk EXCEPT !.at = k, !.val = map[k], !.seen = @ \cup {k}]
  /\ UNCHANGED map

End ==
  /\ walk.on
  /\ \A k \in Key : map[k] # Nil => k \in walk.seen
  /\ walk' = Off
  /\ UNCHANGED map

Next ==
  \/ Begin
  \/ \E k \in Key : Meet(k)
  \/ End
  \/ \E k \in Key, v \in Value \cup {Nil} : Assign(k, v)

Spec == Init /\ [][Next]_<<map, walk>>
=============================================================================
