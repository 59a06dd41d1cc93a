SPECIFICATION Spec
CONSTANTS
  N = 7
  q = 13
  Gx = 7
  Gy = 5
  SqrMont <- SomeSqr
  FromMont <- SomeFrom
  ModInverse <- SomeInverse
INVARIANT StaysOnCurve
PROPERTY ImplementsPointMachine
