SPECIFICATION SelectSpec
CONSTANTS
  Callers = {"h1", "h2"}
  Sessions = {"s1"}
  Wikis = {"a", "b"}
  NoWiki = NoWiki
  Torn = Torn
  MaxIssuance = 1
  MaxMishaps = 1
CHECK_DEADLOCK FALSE
PROPERTIES
  EveryClaimCloses
