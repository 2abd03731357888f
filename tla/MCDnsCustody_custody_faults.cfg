\* Every disturbance, and any one external call fails.
SPECIFICATION Spec
CONSTANTS
  Tunnels = {t1}
  Services = {wifi}
  UserDns = {u1}
  UserDomains = {}
  Empty = Empty
  None = None
  Changes = {"edit", "primary", "lan", "location", "orphan"}
  MaxFaults = 1
INVARIANT TypeOK ApplyOnlyOwned NeverOwnDnsAsOriginal
PROPERTY OriginalsAreStable
