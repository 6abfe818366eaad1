SPECIFICATION PublishSpec
CONSTANTS
  r1 = r1  r2 = r2  p1 = p1  p2 = p2  acme = acme  other = other  u1 = u1
  Repos = {r1, r2}  Packages = {p1, p2}  Owners = {acme, other}
  Commits = {1, 2}  MaxVersion = 1  TagVersions = {1}
  Crawlers = {c1}
  Registry <- BadFirst  HintOf <- TwoPackages  OwnerOf <- TwoOwners
  Manifest <- GoodManifests  TracksHead <- AllTrack
  Rewrites = FALSE  MaxFaults = 0  RemovalsFail = FALSE
  Publishers = {u1}  CloneOf <- CloneOfFirst
  None = None  Torn = Torn
PROPERTIES AnnouncedIsMine PollingEnds EveryTagIngested SyntheticConverges
