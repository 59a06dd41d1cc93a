SPECIFICATION Spec
CONSTANT Moduli <- Primes
INVARIANTS
  OperandsIntact
  ComputesInverse
