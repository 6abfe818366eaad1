SPECIFICATION FairSpec
CONSTANTS
  r1 = r1  r2 = r2  s1 = s1  s2 = s2
  Repos = {r1, r2}  Registry <- BadFirst
  Commits = {1, 2, 3, 4}  Of <- TwoEach
  Slugs = {s1, s2}  Manifest <- Clash
  Visitors = {v1}  MaxFaults = 2
  None = None  Torn = Torn
INVARIANTS ListedIsFound PageNotOlderThanList
PROPERTIES GoodToolsAreShown
