\* One connection: user, session and boot requests against crashes and faults.
SPECIFICATION Spec
CONSTANTS
  Ids = {c1}
  Configs = {f1}
  Names = {}
  Workers = {w1, w2}
  None = None
  Requests = {"add", "mode", "remove", "connect", "auto", "disconnect", "teardown", "reconnect"}
  Events = {"kill", "exit", "sweep", "daemon", "reboot"}
  MaxFaults = 1
SYMMETRY Interchangeable
PROPERTY DisconnectHonoured 
