SPECIFICATION FairSpec
CONSTANTS
  Guards = {g1, g2}
  NoGuard = NoGuard
  Expire = 4
  Threshold = 3
  Leases = {0, 1, 3}
  Extensions = {3, 6}
  NoLease = NoLease
  MaxWait = 2
  MaxErrors = 1
INVARIANTS TypeOK
PROPERTIES LostStaysLost OnlyOwnRelease LeftLockExpires
CHECK_DEADLOCK FALSE
