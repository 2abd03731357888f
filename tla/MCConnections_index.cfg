\* Two connections: adds, refreshes and removals meet.
SPECIFICATION Spec
CONSTANTS
  Ids = {c1, c2}
  Configs = {f1, f2}
  Names = {n1}
  Workers = {w1, w2}
  None = None
  Requests = {"add", "readd", "remove", "refresh"}
  Events = {}
  MaxFaults = 0
SYMMETRY Interchangeable
INVARIANT UniqueRecords NoCircularWait
