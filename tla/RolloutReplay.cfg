SPECIFICATION Spec
CONSTANTS
  first = first
  second = second
  blocked = blocked
  host = host
  Plans = {first, second, blocked}
  Ready = {first, second}
  Bindings = {host}
  Binding <- OneBinding
  Reasons = {"drift"}
  Nothing = Nothing
  Processes = {"q1"}
  MaxFaults = 1
  Disciplines = {FALSE}
CHECK_DEADLOCK FALSE
INVARIANTS
  ReplayResumes
