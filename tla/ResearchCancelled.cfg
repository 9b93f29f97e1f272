SPECIFICATION ResearchSpec
CONSTANTS
  Hosts = {"h1"}
  Plans = {"p1"}
  NoJob = NoJob
  Origins = {"o1"}
  MaxCommands = 5
  MaxPolicyChanges = 1
CHECK_DEADLOCK FALSE
PROPERTIES
  CancelledIsTerminal
