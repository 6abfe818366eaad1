SPECIFICATION ServingSpec
CONSTANTS
  r1 = r1  p1 = p1  acme = acme
  Repos = {r1}  Packages = {p1}  Owners = {acme}
  Commits = {1, 2}  MaxVersion = 1  TagVersions = {1}
  Crawlers = {c1}
  Registry <- OneEntry  HintOf <- OnePackage  OwnerOf <- OneOwner
  Manifest <- GoodManifests  TracksHead <- AllTrack
  Rewrites = FALSE  MaxFaults = 1  RemovalsFail = FALSE
  Readers = {q1}
  v100 = v100  Spellings = {0, 1, v100}  Canonical <- Canonically  Asked = {1, v100}
  Ranges <- DefaultRange  Prereleases = {}
  Whole = Whole  Messages = {}  Handlers = {h1}  MaxCalls = 1  MaxLosses = 0
  Requested = {"withdraw"}
  MaxRequests = 1
  None = None  Torn = Torn
INVARIANTS AnswersStayTrue DownloadsWereServed WithdrawnStaysGone
CHECK_DEADLOCK FALSE
