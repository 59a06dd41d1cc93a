SPECIFICATION Spec
CONSTANTS
  R = 256
  C = 3
  B = 4
  Moduli <- SomeModuli
  Fault = Fault
  WordAt <- SomeMemory
INVARIANTS
  TypeOK
  ResultReduced
  ResultRight
