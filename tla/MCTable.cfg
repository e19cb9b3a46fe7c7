SPECIFICATION Spec
CONSTANTS
  a = a
  b = b
  v1 = v1
  Nil = Nil
  NaN = NaN
  Key <- MCKey
  IntKeys <- MCInts
  StringKeys = {a}
  Collectable = {a, b}
  Events = {a}
  Value = {v1}
  Hashes <- MCHashes
  Created <- MCCreated
  MaxInt = 3
  MaxBits = 2
INVARIANTS
  NotShadowed
  LengthIsBoundary
  CacheIsTrue
  ArrayOptimal
PROPERTIES
  ImplementsMap
CHECK_DEADLOCK FALSE
