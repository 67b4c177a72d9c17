SPECIFICATION Spec
CONSTANTS
  None = None
  ann1 = ann1
  ann2 = ann2
  bob1 = bob1
  cyd1 = cyd1
  ann = ann
  bob = bob
  cyd = cyd
  Clients = {ann1, bob1}
  Owners = {ann, bob}
  Owner <- MCOwner
  Reachable = {}
  Setups <- MCPlainOnly
  Standard <- MCPlain
  Requests <- MCDeskRequests
  InitiallyOpen = {ann1, bob1}
  MaxSeeks = 2
  MaxSessions = 2
CHECK_DEADLOCK FALSE
PROPERTY LobbyKeepsItsMatches
