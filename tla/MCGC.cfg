SPECIFICATION Spec
CONSTANTS
  m = m
  g = g
  r = r
  k = k
  u = u
  f = f
  p = p
  v = v
  s = s
  c = c
  Nil = Nil
  Main = m
  Globals = g
  Registry = r
  Obj <- MCObj
  Kind <- MCKind
  Mode <- MCMode
  HasGC = {g}
  Worlds <- MCWorlds
  Bounds <- MCBounds
INVARIANTS
  TriColour
  ListsHoldGray
  AccessibleAlive
  FinalizedOnce
  WhiteAtRest
CHECK_DEADLOCK FALSE
