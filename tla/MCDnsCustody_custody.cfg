\* One tunnel, two services: crashes of helper and daemon anywhere, no failing call.
SPECIFICATION FairSpec
CONSTANTS
  Tunnels = {t1}
  Services = {wifi, eth}
  UserDns = {u1}
  UserDomains = {}
  Empty = Empty
  None = None
  Changes = {"primary", "lan", "edit"}
  MaxFaults = 0
INVARIANT  OwnedIsRecorded
PROPERTY  DnsFollowsNetwork
