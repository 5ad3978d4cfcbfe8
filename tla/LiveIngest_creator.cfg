SPECIFICATION FairSpec
CONSTANTS
  Clients = {c1}
  Poller = poller
  NoBroadcast = NoBroadcast
  MaxSessions = 2
  MaxBroadcasts = 1
  MaxRotations = 1
  MaxFaults = 1
  MaxTogether = 2
INVARIANTS TablesAgree
PROPERTIES EndedStaysEnded SilentSessionsLeave
CHECK_DEADLOCK FALSE
