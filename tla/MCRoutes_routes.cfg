SPECIFICATION RoutesSpec
CONSTANTS
  NoRoute = NoRoute
  Width = 3
  MaxLinks = 2
  MaxPrefixes = 2
  TunnelConfigs <- MCTunnels
  Subnets <- MCSubnets
  Gateways = {g1, g2}
  MaxRoams = 2
  MaxLapses = 1
INVARIANT  NotCaptured OverviewIsTrue
 
