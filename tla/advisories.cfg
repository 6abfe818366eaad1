SPECIFICATION Spec
CONSTANTS
  Numbers = {0, 1}  Prereleases = 1  Builds = {none, b1}  NoBuild = none
  Absent = Absent  None = None  MaxVersions = 3
INVARIANTS ResolvesAsDocumented UpgradeSettles  ClausesMatchAsSpelled UpgradePassesAudit
PROPERTIES NeverDowngrades
CHECK_DEADLOCK FALSE
