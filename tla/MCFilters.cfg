CONSTANTS
  walker = walker
  gate = gate
  Client = {walker, gate}
  CallOf <- MCCallOf
  Me = "T2A"
  Station = {"N0CALL", "GATE1"}
  Server = {"T2A"}
  Alias <- MCAlias
  Tcpip <- MCTcpip
  Length <- MCLength
  Packet <- MCPacket
  Expression <- MCExpression
  Place <- MCPlace
  Distance <- MCDistance
  Numbers <- MCNumbers
  Value <- MCValue
  Chars <- MCChars
  Fits <- MCFits
  Begins <- MCBegins
  NwsNames <- MCNwsNames
  MaxFilters = 3
  MaxListEntries = 2
  MaxAreaFilters = 1
  MaxTime = 2

SPECIFICATION Spec

INVARIANTS
  TypeOK
  CentreIsLastReport
  OwnReportIsNear
