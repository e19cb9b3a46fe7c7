SPECIFICATION Spec
CONSTANTS
  m = m
  a = a
  b = b
  Main = m
  Coroutines = {a, b}
  Fn <- MCFn
  Shape <- MCShape
  BASIC_STACK_SIZE = 6
  EXTRA_STACK = 2
  LUA_MINSTACK = 3
  BASIC_CI_SIZE = 2
  LUAI_MAXCALLS = 4
  CErrors = 1
  Args = {1}
  Worlds <- VarargWorlds
INVARIANTS
  FramesInStack
CHECK_DEADLOCK FALSE
