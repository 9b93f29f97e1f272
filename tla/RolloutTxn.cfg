SPECIFICATION FairSpec
CONSTANTS
  first = first
  second = second
  blocked = blocked
  host = host
  Plans = {first, second, blocked}
  Ready = {first, second}
  Bindings = {host}
  Binding <- OneBinding
  Reasons = {"drift", "failure"}
  Nothing = Nothing
  Processes = {"q1", "q2"}
  MaxFaults = 3
  Disciplines = {TRUE, FALSE}
CHECK_DEADLOCK FALSE
INVARIANTS
  TypeOK
  Backed
  NeverRearmed
  SettledTruth
  NeverWedged
PROPERTIES
  ImplementsArming
  EventuallySettled
