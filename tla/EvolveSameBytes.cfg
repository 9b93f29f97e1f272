SPECIFICATION Spec
CONSTANTS
  p1 = p1
  p2 = p2
  shared = shared
  fresh = fresh
  stale = stale
  index = index
  wcard = wcard
  vpage = vpage
  vcard = vcard
  vindex = vindex
  W = W
  V = V
  q1 = q1
  q2 = q2
  Registry = Registry
  Router = Router
  NoPage = NoPage
  Absent = Absent
  Proposals <- MCProposals
  Pages <- MCPages
  Wikis = {W, V}
  Home <- MCHome
  Card <- MCCard
  Index <- MCIndex
  Title <- OneTitle
  InitialTree <- MCTree
  Requests <- ThreeRequests
  Processes = {q1}
  Editable = {}
  MaxPlans = 2
  MaxFaults = 2
  FinishFirst = FALSE
CHECK_DEADLOCK FALSE
INVARIANTS
  AppliedSurvives
