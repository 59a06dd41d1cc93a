SPECIFICATION SpecExtreme
CONSTANTS
  Bits = 16
  Scalars <- AllScalars
  Shr <- MCShr
INVARIANTS
  CorrectOutsideGap
  InStorage
