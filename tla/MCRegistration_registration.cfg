\* Any two commands, with one event and one failure.
SPECIFICATION Spec
CONSTANTS
  Pids = {p1, p2}
  Conns = {g, u}
  Mine = {u}
  Commands = {"install", "reload", "restart", "uninstall", "purge", "agent install", "agent uninstall", "connect"}
  Events = {"connect", "disconnect", "login item off", "ad hoc", "logout", "reboot"}
  MaxCommands = 2
  MaxEvents = 1
  MaxFaults = 1
CHECK_DEADLOCK FALSE
INVARIANT  TunnelsEnd
PROPERTY   BackUp
