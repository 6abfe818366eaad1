SPECIFICATION Spec
CONSTANTS
  p1 = p1  p2 = p2  b1 = b1  k1 = k1  k2 = k2
  Packages = {p1, p2, b1}  Names = {p1, p2, b1}  NameOf <- Qualified  Bins = {"tool"}  BinOf <- OneTool
  Kind <- Mixed
  Includes <- Growing  Companions <- Recommended
  MaxVersion = 1  Major <- Flat  Minor <- Flat
  Contents = {k1}  Republished = FALSE
  Harnesses = {h1, h2}  Clients = {c1}
  Commands = {"install", "frozen", "upgrade", "uninstall"}  Specs <- LatestOnly
  MaxDepth = 3  MaxFaults = 1  HarnessFails = TRUE
  None = None  Torn = Torn  Corrupt = Corrupt
SYMMETRY Alike
INVARIANTS StateMatchesHarnesses FrozenReproducesLock BundlePinnedLast
