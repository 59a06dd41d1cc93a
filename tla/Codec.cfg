SPECIFICATION CodecSpec
CONSTANTS
  D = 2
  DigitOr <- OrTable
  W = 2
  H = 2
  ByteInputs <- SomeBytes
  HexInputs <- SomeHex
  WordInputs <- AllWords
INVARIANTS
  PartialNumber
  RoundTrip
  DamageIsLocal
  CompareRight
