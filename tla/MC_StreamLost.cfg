SPECIFICATION StreamSpec
CONSTANTS
  Connections = {c1, c2}
  NoConnection = NoConnection
  maxReconnectAttempts = 1
  MaxRecord = 2
  MaxInFlight = 1
  MaxStreamFaults = 2
INVARIANT NoEventIsLost
