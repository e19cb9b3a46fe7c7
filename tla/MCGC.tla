------------------------------- MODULE MCGC -------------------------------
(* LuaGC on small heaps: each world has a few addresses besides the roots. *)
EXTENDS LuaGC, TLC
CONSTANTS m, g, r, k, u, f, p, v, s, c

MCObj == {m, g, r, k, u, f, p, v, s, c}
MCKind == [o \in MCObj |-> CASE o \in {m, c} -> "thread"
                             [] o \in {g, r, k} -> "table"
                             [] o = u -> "udata"
                             [] o = f -> "lclosure"
                             [] o = p -> "proto"
                             [] o = v -> "upval"
                             [] o = s -> "string"]

\* The globals serve as a metatable: of the registry or of k, whose values
\* are then weak, and of userdata, which then have a finalizer.
MCMode == [o \in MCObj |-> IF o = g THEN {"v"} ELSE {}]
Depth(n, l) == [th \in {m, c} |-> IF th = m THEN n ELSE l]
NoBound == [targets |-> {}, keys |-> {}, values |-> {}, metas |-> {},
            envs |-> {}, depth |-> Depth(1, 1), ends |-> TRUE]

\* A userdata in a table that may be weak; a string; a table that is assigned
\* to; closures over the stack of the main thread and of a coroutine.
MCBounds ==
     ({m, g, r, u} :> [NoBound EXCEPT !.targets = {r}, !.values = {u},
                         !.metas = {g}])
  @@ ({m, g, r, k, u} :> [NoBound EXCEPT !.metas = {k}, !.depth = Depth(2, 1),
                            !.ends = FALSE])
  @@ ({m, g, r, c, s} :> [NoBound EXCEPT !.targets = {r}, !.values = {s},
                            !.envs = {r}])
  @@ ({m, g, r, k, s} :> [NoBound EXCEPT !.targets = {r, k},
                            !.values = {k, s}, !.keys = {s}])
  @@ ({m, g, r, f, p, v} :> [NoBound EXCEPT !.depth = Depth(2, 1)])
  @@ ({m, g, r, c, f, p, v} :> [NoBound EXCEPT !.depth = Depth(1, 2), !.ends = FALSE])
MCWorlds == DOMAIN MCBounds
=============================================================================
