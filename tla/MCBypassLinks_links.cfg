SPECIFICATION Spec
CONSTANTS
  Width = 3
  MaxLinks = 1
  MaxPrefixes = 2
  Clients = {c1, c2}
  Configs <- MCConfigs
  Options <- MCOptions
  None = None
  MaxIds = 3
  MaxCommands = 2
  MaxEvents = 2
  MaxFaults = 1
CHECK_DEADLOCK FALSE
INVARIANT LinksInv
PROPERTY SettingsKept ChangeIsApplied
