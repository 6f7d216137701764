CONSTANTS
  w = w
  x = x
  y = y
  z = z
  capped = capped
  open = open
  held = held
  Conn = {x, y}
  Listener = {capped}
  On <- MCOn
  Capped <- MCCapped
  Limit <- MCLimit
  ClientQueue = 1
  LoginTimeout = 1
  GaugeModulus = 8
  Igate <- MCIgate
  Forced <- MCForced
  Chains <- MCChains
  FirstLine <- MCOneLine
  Lowered <- MCLowered
  Numeral <- MCNumeral
  Bytes <- MCBytes
  MaxNoise = 0
  MaxLines = 0

SPECIFICATION Spec
CHECK_DEADLOCK FALSE

INVARIANT CapRespected
