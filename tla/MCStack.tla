------------------------------ MODULE MCStack ------------------------------
(* LuaStack with small stacks and programs of one or two functions: calls   *)
(* between Lua and C with every number of results, a coroutine that calls C *)
(* functions, one that a hook interrupts, one that resumes another, vararg   *)
(* functions, also with the collector at work in them, an object with       *)
(* __call.                                                                  *)
EXTENDS LuaStack
CONSTANTS m, a, b

Lua(params, vararg, size) ==
  [isC |-> FALSE, params |-> params, vararg |-> vararg, size |-> size, tm |-> FALSE,
   visits |-> 0]
MCShape ==
  [lua |-> Lua(1, FALSE, 2), big |-> Lua(1, FALSE, 3), var |-> Lua(1, TRUE, 3),
   old |-> [Lua(1, TRUE, 4) EXCEPT !.visits = 1],
   again |-> [Lua(1, TRUE, 3) EXCEPT !.visits = 2],
   opt |-> Lua(3, TRUE, 4), tab |-> [Lua(1, TRUE, 8) EXCEPT !.visits = 1],
   c |-> [Lua(0, FALSE, 2) EXCEPT !.isC = TRUE],
   obj |-> [Lua(1, FALSE, 3) EXCEPT !.tm = TRUE]]
MCFn == DOMAIN MCShape
World(fn, co, give, want, hook, depth) ==
  [fn |-> fn, co |-> co, give |-> give, want |-> want, room |-> {},
   hook |-> hook, main |-> a \notin co, ccalls |-> 2, depth |-> depth]
MCWorlds ==
  {World({"lua", "c"}, {}, {0, 1}, {1, LUA_MULTRET}, FALSE, 5),
   [World({"lua", "c"}, {}, {1}, {1}, FALSE, 3) EXCEPT !.room = {8}],
   World({"lua", "c"}, {a}, {1}, {1}, FALSE, 4),
   World({"big", "c"}, {a}, {1}, {1}, FALSE, 4),
   World({"big", "var"}, {}, {1}, {1}, FALSE, 4),
   World({"lua", "c"}, {a}, {1}, {1}, TRUE, 4),
   [World({"lua"}, {a, b}, {1}, {1}, FALSE, 3) EXCEPT !.ccalls = 1],
   World({"lua"}, {}, {1}, {1}, TRUE, 4),
   [World({"lua"}, {}, {1}, {1}, FALSE, 4) EXCEPT !.ccalls = 3],
   World({"var", "c"}, {}, {1}, {1}, FALSE, 3),
   World({"big", "old"}, {}, {1}, {1}, FALSE, 4),
   World({"old", "again"}, {a}, {1}, {1}, FALSE, 3),
   World({"lua", "obj"}, {}, {1}, {1}, FALSE, 4)}

\* A large old-style vararg function during whose call the collector runs, and a
\* vararg function of three parameters that gets one argument.
VarargWorlds == {World({"tab"}, {}, {1}, {1}, FALSE, 3),
                 World({"opt"}, {}, {1}, {1}, FALSE, 3)}
=============================================================================
