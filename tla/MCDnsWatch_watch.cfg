\* One tunnel: sentinel, recovery, watching and the end of the daemon's residence.
SPECIFICATION FairSpec
CONSTANTS
  Tunnels = {t1}
  None = None
  LateRecords = TRUE
  MidSettle = FALSE
  MaxFaults = 2
  MaxVisits = 2
CHECK_DEADLOCK FALSE
INVARIANT WatchInv
PROPERTY DeathIsNoticed SentinelGoes
