CONSTANTS
  p1 = p1
  p2 = p2
  gm = gm
  None = None
  Accounts = {p1, p2, gm}
  Staff = {gm}
  Sess = {s1, s2, s3}
  Limits = {0, 1}
  Tolerance = FALSE
SPECIFICATION FairSpec
INVARIANTS
  SessionsOwned
  QueueSound
PROPERTIES
  NoFreePlaceWhileWaiting
  LimitKept
  FirstComeFirstServed
  ClosedSessionsGo
