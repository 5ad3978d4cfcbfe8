SPECIFICATION Spec
CONSTANTS
  Hosts = {h}
  Guests = {h, u}
  Servers = {s}
  Invites = {i1}
  Grants = {g1}
  Casts = {c1, c2}
  Slips = 0
INVARIANTS SeatedByInvite MirrorFollowsTheStage MirrorGoesDark
PROPERTIES OverStaysOver ExpiryReleases
CHECK_DEADLOCK FALSE
