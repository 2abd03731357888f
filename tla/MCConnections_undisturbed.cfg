\* One connection, nothing fails but helpers.
SPECIFICATION Spec
CONSTANTS
  Ids = {c1}
  Configs = {f1, f2}
  Names = {}
  Workers = {w1, w2}
  None = None
  Requests = {"add", "mode", "remove", "refresh", "connect", "auto", "disconnect", "teardown", "reconnect"}
  Events = {"kill", "exit", "sweep", "reboot"}
  MaxFaults = 0
SYMMETRY Interchangeable
INVARIANT StoreInv
PROPERTY DeadHelperNoObstacle
