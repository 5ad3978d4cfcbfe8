SPECIFICATION FairSpec
CONSTANTS
  Deliveries = {d1}
  Dispatchers = {poller, reader, admin}
  Poller = poller
  MaxAttempts = 2
  MaxFaults = 1
  MaxResets = 1
INVARIANTS OneAttempt StrandedByFault NoEarlyDeadLetter
PROPERTIES SettledStays EveryDeliverySettles
CHECK_DEADLOCK FALSE
