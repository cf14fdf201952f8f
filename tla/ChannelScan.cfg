SPECIFICATION FairSpec
CONSTANTS
  Channel = {c1, c2}
  PmtPid = {m1, m2}
  AitPid = {a1}
  None = None
  MaxChanges = 1
INVARIANTS
  TypeOK
  NoFilterLeft
  AnnouncedForItsChannel
PROPERTIES
  ScanGoesOn
