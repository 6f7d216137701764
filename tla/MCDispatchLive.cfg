CONSTANTS
  full = full
  gate = gate
  guest = guest
  sender = sender
  a = a
  aPadded = aPadded
  b = b
  junk = junk
  loop = loop
  long = long
  Client = {full, gate}
  Line = {a, b, junk, loop, long}
  Kind <- MCKind
  Verified <- MCVerified
  Held <- MCHeld
  Forced <- MCForced
  Filters <- MCFilters
  Digest <- MCDigest
  DigestOf <- MCDigestOf
  Malformed <- MCMalformed
  Looping <- MCLooping
  Overlong <- MCOverlong
  ClientQueue = 1
  Window = 1
  Clock = {1}
  MaxReads = 2

SPECIFICATION DispatchSpec
CHECK_DEADLOCK FALSE

PROPERTIES
  QueueDrains
  OutboxReachesWire

INVARIANT CountersBalance
