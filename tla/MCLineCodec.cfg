CONSTANTS
  MaxLength = 2
  MaxRead = 3
  MaxBytes = 7

SPECIFICATION Spec

INVARIANTS
  FramedAsSent
  BufferIsBounded

PROPERTY DecodeReturns

CHECK_DEADLOCK FALSE
