CONSTANTS
  full = full
  gate = gate
  guest = guest
  sender = sender
  a = a
  aPadded = aPadded
  b = b
  junk = junk
  loop = loop
  long = long
  Client = {full, gate, guest}
  Line = {a, b}
  Kind <- MCKind
  Verified <- MCVerified
  Held <- MCHeld
  Forced <- MCForced
  Filters <- MCFilters
  Digest <- MCDigest
  DigestOf <- MCDigestOf
  Malformed <- MCMalformed
  Looping <- MCLooping
  Overlong <- MCOverlong
  ClientQueue = 1
  Window = 1
  Clock = {1, 3}
  MaxReads = 2

SPECIFICATION Spec
CHECK_DEADLOCK FALSE

INVARIANTS
  FeedInOrder
  NoEcho
  NoDuplicateBroadcast
  NoSilentLoss
  TypeOK
  OnlyEntitled

PROPERTY ImplementsFeed
