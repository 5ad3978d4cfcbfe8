SPECIFICATION Spec
CONSTANTS
  Creators = {c1}
  Releasers = {rel}
  Viewers = {v1}
  Sessions = {s1}
  Purchases = {p1}
INVARIANTS ServedWithAccess 
PROPERTIES BuyersAreKept TakedownHolds SessionsEnd
CHECK_DEADLOCK FALSE
