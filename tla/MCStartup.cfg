SPECIFICATION Spec
CONSTANTS
  MaxU64 = 500000
  MaxI64 = 400000
  MaxI32 = 100000
  MaxText = 3
  Lowered <- MCLowered
  Bytes <- MCBytes
  Chains <- MCChains
  Numeral <- MCNumeral
  IntervalText <- MCIntervalText
  Ip <- MCIp
  Lines <- MCLines
  Edits <- MCEdits
  NewNames <- MCNewNames
  Environments <- MCEnvironments
  Ephemeral <- MCEphemeral
  Needs <- MCNeeds
INVARIANTS NothingLost LoadsAsConverted ServesAsWritten
\* A conversion that failed, and a server that serves, go no further.
CHECK_DEADLOCK FALSE
