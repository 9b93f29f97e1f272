SPECIFICATION Spec
CONSTANTS
  a = a
  b = b
  Registry = Registry
  Router = Router
  Absent = Absent
  Wikis = {a, b}
  Editable <- NoPath
  MaxRecords = 2
  MaxFaults = 1
  FinishFirst = FALSE
CHECK_DEADLOCK FALSE
INVARIANTS
  RecordOutlivesTraces
