SPECIFICATION Spec
CONSTANTS
  p1 = p1
  p2 = p2
  shared = shared
  fresh = fresh
  stale = stale
  index = index
  wcard = wcard
  vpage = vpage
  vcard = vcard
  vindex = vindex
  W = W
  V = V
  q1 = q1
  q2 = q2
  Registry = Registry
  Router = Router
  NoPage = NoPage
  Absent = Absent
  Proposals <- MCProposals
  Pages <- MCPages
  Wikis = {W, V}
  Home <- MCHome
  Card <- MCCard
  Index <- NoIndex
  Title <- TwoTitles
  InitialTree <- MCTree
  Requests <- TwoMerges
  Processes = {q1, q2}
  Editable = {}
  MaxPlans = 2
  MaxFaults = 0
  FinishFirst = FALSE
CHECK_DEADLOCK FALSE
SYMMETRY Alike
PROPERTIES
  NoForeignOverwrite
