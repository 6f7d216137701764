CONSTANTS
  Station <- MCStation
  Server <- MCServer
  Alias <- MCAlias
  Tcpip <- MCTcpip
  Length <- MCLength
  From = "N0CALL"
  Sent <- MCSent
  SendOnly = {"T2B"}
  Udp = {"T2C"}
  Rest = 10
  MaxBody = 18

SPECIFICATION Spec

INVARIANTS
  OneConstruct
  PathIsBounded
  PlacedAsSent

PROPERTY NeverVouchedAgain
