SPECIFICATION Spec
CONSTANTS
  p1 = p1  p2 = p2  b1 = b1  k1 = k1  k2 = k2
  Packages = {p1}  Names = {p1}  NameOf <- Qualified  Bins = {"tool"}  BinOf <- OneTool
  Kind <- AllMCP
  Includes <- Nothing  Companions <- Nothing
  MaxVersion = 2  Major <- Majors  Minor <- Minors
  Contents = {k1, k2}  Republished = FALSE
  Harnesses = {h1}  Clients = {c1, c2}
  Commands = {"install", "upgrade"}  Specs <- LatestOnly
  MaxDepth = 2  MaxFaults = 1  HarnessFails = FALSE
  None = None  Torn = Torn  Corrupt = Corrupt
INVARIANTS PinsWhatWasApplied
