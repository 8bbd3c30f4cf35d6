CONSTANTS
  Last = 4
  Absent = Absent
  Damaged = Damaged
  MaxRuns = 4
SPECIFICATION Spec
INVARIANT KeysMatchCertificates
PROPERTY OnlyForceReplaces
CHECK_DEADLOCK FALSE
