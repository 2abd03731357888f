\* Two commands of one user, and the daemons that launchd or sudo start for them.
SPECIFICATION Spec
CONSTANTS
  c1 = c1
  c2 = c2
  Clients <- TwoClients
  Daemons = {d1, d2}
  None = None
  UserOf <- OneUser
  CommandsOf <- TwoCommands
  Managers = {"launchd", "sudo"}
  SlowStart = FALSE
  MaxClients = 1
  MaxFaults = 1
CHECK_DEADLOCK FALSE
INVARIANT SocketInv OnceAtMost
PROPERTY ExitHarmsNobody EveryCommandEnds
