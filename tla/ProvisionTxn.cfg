SPECIFICATION FairSpec
CONSTANTS
  a = a
  b = b
  Registry = Registry
  Router = Router
  Absent = Absent
  Wikis = {a, b}
  Editable <- OneRegistryOneCard
  MaxRecords = 2
  MaxFaults = 2
  FinishFirst = TRUE
CHECK_DEADLOCK FALSE
INVARIANTS
  TypeOK
  NeverWedged
  AppliedIsWhole
  NoTrace
PROPERTIES
  KeepsAuthored
  NoForeignOverwrite
  EventuallySettled
