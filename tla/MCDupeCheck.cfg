CONSTANTS
  Digest = {d1, d2, d3}
  Window = 2
  Clock <- MCClock

SPECIFICATION Spec

INVARIANTS
  TypeOK
  RingMatchesMap
  MapIsWindow

PROPERTIES
  ImplementsWindow
  PassesAreApart
