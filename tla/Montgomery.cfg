SPECIFICATION Spec
CONSTANTS
  B = 4
  C = 3
  K = 3
INVARIANTS
  Bounded
  PartialProduct
  ResultReduced
  RightExactlyUnlessBorrowed
