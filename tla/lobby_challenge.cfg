SPECIFICATION Spec
CONSTANTS
  None = None
  ann1 = ann1
  ann2 = ann2
  bob1 = bob1
  cyd1 = cyd1
  ann = ann
  bob = bob
  cyd = cyd
  Clients = {ann1, bob1, cyd1}
  Owners = {ann, bob, cyd}
  Owner <- MCOwner
  Reachable = {}
  Setups <- MCSeatChoice
  Standard <- MCPlain
  Requests <- MCChallengeRequests
  InitiallyOpen = {ann1, bob1, cyd1}
  MaxSeeks = 3
  MaxSessions = 2
CHECK_DEADLOCK FALSE
SYMMETRY MCAlike
INVARIANTS ASeekIsInOnePlace EveryGameIsAsAskedFor
