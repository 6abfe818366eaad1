SPECIFICATION FairSpec
CONSTANTS
  r1 = r1  r2 = r2  p1 = p1  p2 = p2  acme = acme  other = other
  Repos = {r1}  Packages = {p1}  Owners = {acme}
  Commits = {1}  MaxVersion = 1  TagVersions = {1}
  Crawlers = {c1}
  Registry <- OneEntry  HintOf <- OnePackage  OwnerOf <- OneOwner
  Manifest <- GoodManifests  TracksHead <- AllTrack
  Rewrites = FALSE  MaxFaults = 1  RemovalsFail = FALSE
  None = None  Torn = Torn
PROPERTIES EveryTagReachesCorpus
