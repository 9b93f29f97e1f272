SPECIFICATION StoresSpec
CONSTANTS
  Subjects = {"selection", "gaps", "evidence", "jobs", "legacy", "adopt", "acceptance", "estate", "capture", "experiment"}
  Callers = {"h1", "h2"}
  Sessions = {"s1"}
  Wikis = {"a", "b"}
  NoWiki = NoWiki
  Torn = Torn
  MaxIssuance = 2
  MaxMishaps = 1
  Gardeners = {"w1", "w2"}
  Gaps = {"g1"}
  Correlations = {c1}
  c1 = c1
  Sources = {"s1"}
  NoSources = NoSources
  Asked = {"planned", "rejected", "open"}
  MaxSnapshots = 3
  MaxGardenDeaths = 1
  Recorders = {"r1", "r2"}
  Keys = {e1, q1, x1, n1, n2}
  e1 = e1
  q1 = q1
  x1 = x1
  n1 = n1
  n2 = n2
  Bodies = {"v1", "v2"}
  NoBody = NoBody
  Cites <- MCCites
  Notices = {n1, n2}
  Supersedes <- MCSupersedes
  NoNotice = NoNotice
  Singles <- MCSingles
  Batches <- MCBatches
  MaxRecordings = 3
  MaxEvidenceDeaths = 1
  Hosts = {"h1", "h2"}
  Plans = {"p1"}
  NoJob = NoJob
  Origins = {"o1"}
  MaxCommands = 5
  MaxPolicyChanges = 2
  Clerks = {"k1", "k2"}
  LegacyJobIds = {"j1"}
  Attempts = {"a1", "a2"}
  Digests = {"", "d2"}
  NoDigest = ""
  ArtifactSets = {{"x"}}
  Unsaid = Unsaid
  AskedStates = {"gap-open", "permission-check", "cancelled", "packet-ready"}
  PriorEvents <- MCPrior
  MaxCalls = 3
  Scaffold <- MCScaffold
  Card = "card"
  Directories <- MCDirectories
  DirOf <- MCDirOf
  MaxUserSteps = 2
  MaxAdoptDeaths = 1
  MaxAdoptions = 2
  Artifacts = {"study", "review", "video"}
  Facts <- MCFacts
  Spans = {"sA", "sB", "sV"}
  SpanOf <- MCSpanOf
  Claims = {"k1", "k2"}
  ClaimOf <- MCClaimOf
  Policies <- MCPolicies
  Lifecycles = {"active", "confirmed"}
  Postures = {"retracted"}
  Today = 10
  MaxNotices = 1
  MaxPolicies = 1
  Roots = {"ra", "rb", "rc"}
  Registered <- MCRegistered
  NameOf <- MCNameOf
  Words <- MCWords
  CardsOf <- MCCardsOf
  Asks <- MCAsks
  Broken = Broken
  NoPacket = NoPacket
  MaxEdits = 1
  wa = wa
  wb = wb
  wc = wc
  p1 = p1
  p2 = p2
  p3 = p3
  Shelf <- MCShelf
  Paths <- MCPaths
  Lexicon <- MCLexicon
  Vaults <- MCVaults
  Texts <- MCTexts
  NoProposal = NoProposal
  MaxDescended = 2
  MaxCandidates = 2
  MaxChars = 4
  Capturers = {"k1", "k2"}
  MaxVaultEdits = 1
  MaxCaptureDeaths = 1
  Scorers = {"g1", "g2"}
  Inputs <- MCInputs
  Trees = {1}
  BlindingKeys = {"key"}
  AssignmentOf <- MCAssignmentOf
  Grade <- MCGrade
  Gate <- MCGate
  Fits <- MCFits
  NoOutput = NoOutput
  ArmRuns <- MCArmRuns
  Submissions = {{0, 1, 2}, {0, 1}}
  MaxArmRuns = 3
  MaxScores = 2
  MaxRecords = 2
  MaxInputChanges = 1
CHECK_DEADLOCK FALSE
INVARIANTS
  StoresTypeOK
  EvidenceIntact
  RouteIsSound
PROPERTIES
  SelectionKept
  ImplementsOneShot
  EventuallyClosed
  EventuallyTold
  EventuallyWhole
  GapKept
  JobsKept
  AdoptionKept
  AcceptanceKept
  EstateKept
  CaptureKept
  ExperimentKept
