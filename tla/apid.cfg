SPECIFICATION ApidSpec
CONSTANTS
  p1 = p1  h1 = h1  h2 = h2
  Packages = {p1}  Names = {v1}  Whole = Whole  Messages = {m1}
  Handlers = {h1, h2}  MaxCalls = 2  MaxLosses = 1
  Processes = {a1, a2}
  None = None
INVARIANTS AuditReplays AuditedHolds ServesMigrated
PROPERTIES ServesInTheEnd
CHECK_DEADLOCK FALSE
