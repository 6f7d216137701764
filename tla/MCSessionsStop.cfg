CONSTANTS
  w = w
  x = x
  y = y
  z = z
  capped = capped
  open = open
  held = held
  Conn = {z}
  Listener = {open, held, capped}
  On <- MCOn
  Capped <- MCCapped
  Limit <- MCLimit
  ClientQueue = 1
  LoginTimeout = 1
  GaugeModulus = 8
  Igate <- MCIgate
  Forced <- MCForced
  Chains <- MCChains
  FirstLine <- MCFirstLine
  Lowered <- MCLowered
  Numeral <- MCNumeral
  Bytes <- MCBytes
  MaxNoise = 1
  MaxLines = 1

SPECIFICATION FairSpec
CHECK_DEADLOCK FALSE

INVARIANT LoginAsWritten

PROPERTIES
  ShutdownCompletes
  TeardownCompletes
