SPECIFICATION Spec
CONSTANTS
  Viewers = {v}
  Studios = {c, d}
  Senders = {}
  Last = 0
  Page = 1
  Capacity = 1
  Strays = 1
INVARIANTS CountsAreSockets PresentIsSeen
