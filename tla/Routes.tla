------------------------------- MODULE Routes -------------------------------
(***************************************************************************)
(* The routes of a tunnel (userspace_helper/macos/routes.rs, route_table.rs*)
(* and the setup and cleanup of macos/mod.rs) while the Mac moves between  *)
(* networks.                                                               *)
(*                                                                         *)
(* The kernel has one entry for a prefix, held by the tunnel ("tunnel"), a *)
(* tunnel that is no more ("old"), the physical interface ("en0") or a     *)
(* gateway, and interface-scoped entries of en0 beside them.  A connected  *)
(* route that finds its prefix occupied is not installed.  One call of     *)
(* route(8) is a step, with the lookups that come before it.               *)
(***************************************************************************)
EXTENDS LinkRules

CONSTANTS
  NoRoute,
  TunnelConfigs, \* the connections: [allowed, endpoint, links]
  Subnets,       \* the sets of connected subnets of the networks there are
  Gateways,
  MaxRoams,      \* changes of the network
  MaxLapses      \* commands that fail

(* What a connection asks for: macos_allowed_routes, and the links that a  *)
(* connect accepts (MacosReconcileInputs).                                 *)
TunnelRoute(dest) == [dest |-> dest, via |-> "tunnel"]
RoutesOf == [c \in TunnelConfigs |->
               LET allowed == AllowedRoutes(c.allowed)
               IN  [i \in DOMAIN allowed |-> TunnelRoute(allowed[i])]]
LinksOf == [c \in TunnelConfigs |-> ValidLinks(c.links, ToSet(c.allowed))]

Key(route) == Trunc(route.dest)

Keys == {Key(r) : r \in UNION {ToSet(RoutesOf[c]) : c \in TunnelConfigs}}
          \cup {Host(c.endpoint) : c \in TunnelConfigs} \cup UNION Subnets

ASSUME RoutesAssumption ==
  /\ \A c \in TunnelConfigs : /\ c.allowed \in Seq(Networks) /\ c.allowed # <<>>
                              /\ c.endpoint \in Addresses
                              /\ c.links \in Links
  /\ Subnets \subseteq SUBSET Networks
  /\ \A subnets \in Subnets : \A s, t \in subnets : SubnetContains(s, t) => s = t
  /\ NoRoute \notin {"tunnel", "old", "en0"}
  /\ ({NoRoute, "tunnel", "old", "en0"} \cap Gateways) = {}
  /\ MaxRoams \in Nat /\ MaxLapses \in Nat

(* No two routes of a connection are for one prefix, and none is for the   *)
(* endpoint's own, which no network has as a subnet either: an entry with  *)
(* two owners is gone for both when one of them is deleted.  (Nothing in   *)
(* the code sees to it: the theorems name it where they need it.)          *)
KeysDiffer(s) == \A i, j \in DOMAIN s : Key(s[i]) = Key(s[j]) => i = j

OneRoutePerPrefix ==
  \A c \in TunnelConfigs :
    /\ KeysDiffer(RoutesOf[c])
    /\ \A r \in ToSet(RoutesOf[c]) : Key(r) # Host(c.endpoint)
    /\ Host(c.endpoint) \notin UNION Subnets

VARIABLES
  config,      \* the connection's configuration
  network,     \* what the Mac is attached to: [subnets, gateway]
  table,       \* the kernel: [Keys -> the holder of the prefix]
  scoped,      \* ... and the prefixes of en0's scoped entries
  pc,
  owned,       \* routes_added
  seen,        \* fingerprint, and a snapshot of the subnets that is being made
  failing,     \* [route, op]: what is to be tried again
  pass,        \* the plan that is being carried out
  errors,      \* history: a teardown reported an error
  blind,       \* history: the network changed under a pass or a teardown; or the
               \* subnets could not be read for a teardown, or for a pass in
               \* which a command failed as well
  roams,
  lapses

routeVars == <<config, network, table, scoped, pc, owned, seen, failing, pass, errors, blind, roams, lapses>>
environment == <<config, network, roams>>

Holders == Gateways \cup {NoRoute, "tunnel", "old", "en0"}

(* MacosRoute: over the tunnel, or (the endpoint's pin) over a gateway.    *)
Route == [dest : Networks, via : Gateways \cup {"tunnel"}]
Failure == [route : Route, op : {"Add", "Delete"}]
Fingerprint == [subnets : SUBSET Networks, gateway : Gateways \cup {NoRoute}]
Passes == [dels : Seq(Route), adds : Seq(Route), retry : BOOLEAN, previous : SUBSET Failure]
NoPass == [dels |-> <<>>, adds |-> <<>>, retry |-> FALSE, previous |-> {}]

(* Every variable has its type.                                            *)
RoutesTypeOK ==
  /\ config \in TunnelConfigs
  /\ network \in [subnets : Subnets, gateway : Gateways \cup {NoRoute}]
  /\ table \in [Keys -> Holders] /\ scoped \subseteq Keys
  /\ pc \in {"down", "begin", "setup", "rollback", "up", "gateway", "apply", "cleanup"}
  /\ owned \in Seq(Route)
  /\ seen \in [fp : Fingerprint, subnets : SUBSET Networks]
  /\ failing \subseteq Failure
  /\ pass \in Passes
  /\ errors \in BOOLEAN /\ blind \in BOOLEAN
  /\ roams \in 0..MaxRoams /\ lapses \in 0..MaxLapses

RoutesInit ==
  /\ config \in TunnelConfigs
  /\ network \in [subnets : Subnets, gateway : Gateways]
  /\ \E left \in SUBSET {Key(RoutesOf[config][1])} :
       table = [k \in Keys |-> IF k \in network.subnets THEN "en0"
                               ELSE IF k \in left THEN "old" ELSE NoRoute]
  /\ scoped = {}
  /\ pc = "down" /\ owned = <<>> /\ failing = {} /\ pass = NoPass
  /\ seen = [fp |-> [subnets |-> {}, gateway |-> NoRoute], subnets |-> {}]
  /\ errors = FALSE /\ blind = FALSE
  /\ roams = MaxRoams /\ lapses = MaxLapses

-----------------------------------------------------------------------------
(***************************************************************************)
(* The desired routes.                                                     *)
(***************************************************************************)
AcceptedLinks == LinksOf[config]

(* macos_allowed_ips_cover_endpoint: the endpoint is pinned to the gateway *)
(* when AllowedIPs would route it into the tunnel.                         *)
NeedsPin == \E i \in DOMAIN config.allowed : SubnetContains(config.allowed[i], Host(config.endpoint))

Pin(gateway) == [dest |-> Host(config.endpoint), via |-> gateway]

Pins(fp) == IF NeedsPin /\ fp.gateway # NoRoute THEN <<Pin(fp.gateway)>> ELSE <<>>

(* The tunnel's own routes in macos_desired_routes.                        *)
TunnelRoutes(fp) ==
  Filter(RoutesOf[config],
         {r \in ToSet(RoutesOf[config]) : Tunnelled(r.dest, fp.subnets, LinksOf[config])})

PinLast(fp) == TunnelRoutes(fp) \o Pins(fp)   \* mutant: the pin after the tunnel's routes

(* macos_desired_routes.                                                   *)
DesiredRoutes(fp) == Pins(fp) \o TunnelRoutes(fp)

Owns(route) == route \in ToSet(owned)

-----------------------------------------------------------------------------
(***************************************************************************)
(* The kernel's table, as [table, scoped].                                 *)
(***************************************************************************)
Kernel == [table |-> table, scoped |-> scoped]
KernelIs(k) == table' = k.table /\ scoped' = k.scoped

(* macos_route_table_entry: the holder of exactly this prefix.             *)
Entry(k, key) == IF k.table[key] # NoRoute THEN k.table[key]
                 ELSE IF key \in k.scoped THEN "en0" ELSE NoRoute

(* macos_route_entry_is_live.                                              *)
Live(holder, key) ==
  \/ holder \in Gateways
  \/ \E subnet \in network.subnets : SubnetContains(subnet, key) \/ SubnetContains(key, subnet)

(* macos_clear_route_entry; a plain delete does not match a scoped entry.  *)
Clear(k, key, ifscope) ==
  [table  |-> [k.table EXCEPT ![key] = NoRoute],
   scoped |-> IF ifscope THEN k.scoped \ {key} ELSE k.scoped]

(* What add_macos_route does before `route add`, and whether it gives up   *)
(* because the physical interface has the prefix (Foreign).                *)
Prepare(k, route) ==
  LET key == Key(route)
      holder == Entry(k, key)
      cleared == Clear(k, key, holder = "en0")
  IN  IF route.via # "tunnel" \/ holder = NoRoute THEN [kernel |-> k, foreign |-> FALSE]
      ELSE IF holder \in {"tunnel", "old"}
      THEN [kernel |-> cleared, foreign |-> Entry(cleared, key) \notin {NoRoute, "tunnel", "old"}]
      ELSE [kernel |-> IF Live(holder, key) THEN k ELSE cleared, foreign |-> Live(holder, key)]

(* `route add`: an entry that is there is a success (EEXIST).              *)
Added(k, route) == [k EXCEPT !.table[Key(route)] = IF @ = NoRoute THEN route.via ELSE @]

(* macos_restore_shadowed_lan_route: a subnet that the route's prefix is   *)
(* in gets its connected route back, scoped, if the kernel has none.       *)
Restored(k, route, subnets) ==
  LET shadowed == {subnet \in subnets : /\ route.via = "tunnel" /\ SubnetContains(subnet, Key(route))
                                        /\ Entry(k, subnet) = NoRoute
                                        /\ subnet \in network.subnets}
  IN  [k EXCEPT !.scoped = @ \cup shadowed]

(* del_macos_route, by prefix; then the restore.                           *)
Deleted(k, route, subnets) == Restored(Clear(k, Key(route), FALSE), route, subnets)

CommandFails == lapses > 0 /\ lapses' = lapses - 1

(* (History.)  A pass for other subnets than the Mac has, and a command of *)
(* it failed as well.                                                      *)
BlindLapse == blind' = (blind \/ (lapses' # lapses /\ seen.fp.subnets # network.subnets))

-----------------------------------------------------------------------------
(***************************************************************************)
(* Setup: configure_network_macos.                                         *)
(***************************************************************************)

(* macos_local_connected_subnets: a failed ifconfig reads as no subnet.    *)
ReadSubnets ==
  \/ seen' = [seen EXCEPT !.subnets = network.subnets] /\ UNCHANGED lapses
  \/ seen' = [seen EXCEPT !.subnets = {}] /\ CommandFails

BeginSetup ==
  /\ pc = "down"
  /\ ReadSubnets
  /\ pc' = "begin"
  /\ UNCHANGED <<environment, blind, table, scoped, owned, failing, pass, errors>>

(* GatewayFallback::Require: without a gateway the setup fails, and so it  *)
(* does when the device could not be given its addresses.                  *)
PlanSetup ==
  /\ pc = "begin"
  /\ \/ /\ NeedsPin => network.gateway # NoRoute
        /\ LET fp == [subnets |-> seen.subnets, gateway |-> IF NeedsPin THEN network.gateway ELSE NoRoute]
           IN  /\ seen' = [seen EXCEPT !.fp = fp]
               /\ pass' = [NoPass EXCEPT !.adds = DesiredRoutes(fp)]
        /\ pc' = "setup"
        /\ UNCHANGED lapses
     \/ /\ IF NeedsPin /\ network.gateway = NoRoute THEN UNCHANGED lapses ELSE CommandFails
        /\ pc' = "rollback"
        /\ UNCHANGED <<seen, pass>>
  /\ UNCHANGED <<environment, blind, table, scoped, owned, failing, errors>>

(* The first route; an error ends the setup.                               *)
SetupRoute ==
  /\ pc = "setup" /\ pass.adds # <<>>
  /\ LET route == Head(pass.adds)
         prepared == Prepare(Kernel, route)
     IN  \/ /\ prepared.foreign
            /\ KernelIs(prepared.kernel)
            /\ pass' = [pass EXCEPT !.adds = Tail(@)]
            /\ UNCHANGED <<owned, pc, lapses>>
         \/ /\ ~prepared.foreign
            /\ KernelIs(Added(prepared.kernel, route))
            /\ owned' = Append(owned, route)
            /\ pass' = [pass EXCEPT !.adds = Tail(@)]
            /\ UNCHANGED <<pc, lapses>>
         \/ /\ ~prepared.foreign
            /\ CommandFails
            /\ KernelIs(prepared.kernel)
            /\ pass' = [NoPass EXCEPT !.dels = Reverse(owned)]
            /\ pc' = "rollback"
            /\ UNCHANGED owned
  /\ BlindLapse
  /\ UNCHANGED <<environment, seen, failing, errors>>

(* All routes are there; the DNS setup may still fail.                     *)
SetupDone ==
  /\ pc = "setup" /\ pass.adds = <<>>
  /\ \/ pc' = "up" /\ UNCHANGED <<pass, lapses>>
     \/ CommandFails /\ pass' = [NoPass EXCEPT !.dels = Reverse(owned)] /\ pc' = "rollback"
  /\ BlindLapse
  /\ UNCHANGED <<environment, table, scoped, owned, seen, failing, errors>>

-----------------------------------------------------------------------------
(***************************************************************************)
(* Teardown: the rollback of a failed setup, cleanup_network_macos.        *)
(***************************************************************************)
Stop ==
  /\ pc = "up"
  /\ ReadSubnets
  /\ pass' = [NoPass EXCEPT !.dels = Reverse(owned)]
  /\ pc' = "cleanup"
  /\ blind' = (blind \/ lapses' # lapses)
  /\ UNCHANGED <<environment, table, scoped, owned, failing, errors>>

(* A failed delete is an error, and the next route has its turn.  The      *)
(* rollback restores for the subnets of the setup's fingerprint.           *)
TearDownRoute ==
  /\ pc \in {"rollback", "cleanup"} /\ pass.dels # <<>>
  /\ LET route == Head(pass.dels)
         subnets == IF pc = "rollback" THEN seen.fp.subnets ELSE seen.subnets
     IN  \/ /\ KernelIs(Deleted(Kernel, route, subnets))
            /\ owned' = Filter(owned, ToSet(owned) \ {route})
            /\ UNCHANGED <<errors, lapses>>
         \/ /\ CommandFails
            /\ errors' = TRUE
            /\ UNCHANGED <<table, scoped, owned>>
  /\ pass' = [pass EXCEPT !.dels = Tail(@)]
  /\ UNCHANGED <<environment, blind, pc, seen, failing>>

(* The device goes, and with it the routes that lead to it.                *)
TornDown ==
  /\ pc \in {"rollback", "cleanup"} /\ pass.dels = <<>>
  /\ table' = [k \in Keys |-> IF table[k] = "tunnel" THEN NoRoute ELSE table[k]]
  /\ pc' = "down" /\ owned' = <<>> /\ failing' = {}
  /\ seen' = [fp |-> [subnets |-> {}, gateway |-> NoRoute], subnets |-> {}]
  /\ UNCHANGED <<environment, blind, scoped, pass, errors, lapses>>

-----------------------------------------------------------------------------
(***************************************************************************)
(* A tick of the reconciler: macos_reconcile_routes.                       *)
(***************************************************************************)
Tick ==
  /\ pc = "up"
  /\ ReadSubnets
  /\ pc' = "gateway"
  /\ UNCHANGED <<environment, blind, table, scoped, owned, failing, pass, errors>>

NoRetry(fp, desired) ==                    \* mutant: an unchanged network is nothing to do
  IF fp = seen.fp THEN pc' = "up" /\ UNCHANGED <<pass, failing>>
  ELSE /\ pass' = [dels     |-> Filter(owned, ToSet(owned) \ ToSet(desired)),
                   adds     |-> Filter(desired, ToSet(desired) \ ToSet(owned)),
                   retry    |-> FALSE, previous |-> failing]
       /\ failing' = {}
       /\ pc' = "apply"

(* Nothing changed and nothing failed: nothing to do.  Otherwise the plan  *)
(* of macos_apply_route_plan; on an unchanged network only for failures.   *)
Plan(fp, desired) ==
  IF fp = seen.fp /\ failing = {} THEN pc' = "up" /\ UNCHANGED <<pass, failing>>
  ELSE /\ pass' = [dels     |-> Filter(owned, ToSet(owned) \ ToSet(desired)),
                   adds     |-> Filter(desired, ToSet(desired) \ ToSet(owned)),
                   retry    |-> fp = seen.fp,
                   previous |-> failing]
       /\ failing' = {}
       /\ pc' = "apply"

(* GatewayFallback::Keep.                                                  *)
KeptGateway(fp) == fp.gateway

ReadGateway ==
  /\ pc = "gateway"
  /\ \E found \in {TRUE, FALSE} :
       LET gateway == IF ~NeedsPin THEN NoRoute
                      ELSE IF found THEN network.gateway ELSE KeptGateway(seen.fp)
           fp == [subnets |-> seen.subnets, gateway |-> gateway]
       IN  /\ found => ~NeedsPin \/ network.gateway # NoRoute
           /\ IF found \/ ~NeedsPin \/ network.gateway = NoRoute THEN UNCHANGED lapses ELSE CommandFails
           /\ \E desired \in {DesiredRoutes(fp)} : Plan(fp, desired)
           /\ seen' = [seen EXCEPT !.fp = fp]
  /\ UNCHANGED <<environment, blind, table, scoped, owned, errors>>

(* A route that is not desired any more.  If its delete fails it stays     *)
(* owned, to be tried again.                                               *)
DeleteRoute ==
  /\ pc = "apply" /\ pass.dels # <<>>
  /\ LET route == Head(pass.dels)
     IN  \/ /\ KernelIs(Deleted(Kernel, route, seen.fp.subnets))
            /\ owned' = Filter(owned, ToSet(owned) \ {route})
            /\ UNCHANGED <<failing, lapses>>
         \/ /\ CommandFails
            /\ failing' = failing \cup {[route |-> route, op |-> "Delete"]}
            /\ UNCHANGED <<table, scoped, owned>>
  /\ pass' = [pass EXCEPT !.dels = Tail(@)]
  /\ UNCHANGED <<environment, blind, pc, seen, errors>>

(* same_route_destination.                                                 *)
DeleteFailed(failures, route) ==
  \E f \in failures : f.op = "Delete" /\ Key(f.route) = Key(route)

ClaimsAtOnce(route) ==                     \* mutant: the old entry may still be there
  pass.retry => [route |-> route, op |-> "Add"] \in pass.previous \/ DeleteFailed(pass.previous, route)

(* Not while the entry that it replaces is still there, and on a retry     *)
(* only if its add failed or it waited for that.                           *)
MayAdd(route) ==
  /\ ~DeleteFailed(failing, route)
  /\ pass.retry => [route |-> route, op |-> "Add"] \in pass.previous \/ DeleteFailed(pass.previous, route)

AddRoute ==
  /\ pc = "apply" /\ pass.dels = <<>> /\ pass.adds # <<>>
  /\ LET route == Head(pass.adds)
         prepared == Prepare(Kernel, route)
     IN  \/ /\ ~MayAdd(route)
            /\ UNCHANGED <<table, scoped, owned, failing, lapses>>
         \/ /\ MayAdd(route) /\ prepared.foreign
            /\ KernelIs(prepared.kernel)
            /\ UNCHANGED <<owned, failing, lapses>>
         \/ /\ MayAdd(route) /\ ~prepared.foreign
            /\ KernelIs(Added(prepared.kernel, route))
            /\ owned' = Append(owned, route)
            /\ UNCHANGED <<failing, lapses>>
         \/ /\ MayAdd(route) /\ ~prepared.foreign
            /\ CommandFails
            /\ KernelIs(prepared.kernel)
            /\ failing' = failing \cup {[route |-> route, op |-> "Add"]}
            /\ UNCHANGED owned
  /\ pass' = [pass EXCEPT !.adds = Tail(@)]
  /\ BlindLapse
  /\ UNCHANGED <<environment, pc, seen, errors>>

PassDone ==
  /\ pc = "apply" /\ pass.dels = <<>> /\ pass.adds = <<>>
  /\ pc' = "up" /\ pass' = NoPass
  /\ UNCHANGED <<environment, blind, table, scoped, owned, seen, failing, errors, lapses>>

-----------------------------------------------------------------------------
(* The Mac moves.  The connected routes of the network it leaves go, or    *)
(* stay as scoped entries; those of the new one find their prefix free or  *)
(* are not installed.                                                      *)
Roam(new) ==
  LET left == network.subnets \ new.subnets
      joined == new.subnets \ network.subnets
      routed == {k \in left : Entry(Kernel, k) = "en0"}
  IN  /\ roams > 0 /\ roams' = roams - 1
      /\ new # network
      /\ network' = new
      /\ \E stale \in SUBSET routed :
           /\ scoped' = (scoped \ left) \cup stale
           /\ table' = [k \in Keys |-> CASE k \in left /\ table[k] = "en0"   -> NoRoute
                                         [] k \in joined /\ table[k] = NoRoute -> "en0"
                                         [] OTHER                           -> table[k]]
      /\ blind' = (blind \/ pc \notin {"down", "up"})
      /\ UNCHANGED <<config, pc, owned, seen, failing, pass, errors, lapses>>

HelperStep ==
  \/ PlanSetup \/ SetupRoute \/ SetupDone \/ TearDownRoute \/ TornDown
  \/ Tick \/ ReadGateway \/ DeleteRoute \/ AddRoute \/ PassDone

RoutesNext ==
  \/ BeginSetup \/ Stop \/ HelperStep
  \/ \E new \in [subnets : Subnets, gateway : Gateways \cup {NoRoute}] : Roam(new)

(* The helper goes on; the reconciler's thread ticks every few seconds.    *)
RoutesSpec == RoutesInit /\ [][RoutesNext]_routeVars /\ WF_routeVars(HelperStep)

-----------------------------------------------------------------------------
(***************************************************************************)
(* Properties.                                                             *)
(***************************************************************************)
Held(k) == table[k] \in Gateways \cup {"tunnel"}

(* macos_apply_route_plan, configure_network_macos: whatever fails and     *)
(* wherever the Mac goes, routes_added is what the kernel has of this      *)
(* tunnel, no entry more ("Still in the kernel, so still ours") and none   *)
(* less (an EEXIST that "would falsely claim its replacement"), until a    *)
(* teardown reports that it left something.                                *)
LedgerIsKernel ==
  pc # "down" /\ ~errors =>
    {[dest |-> k, via |-> table[k]] : k \in {k \in Keys : Held(k)}}
      = {[dest |-> Key(r), via |-> r.via] : r \in ToSet(owned)}

(* No teardown left something, and none was misled about the network.      *)
Sighted == ~blind /\ ~errors

(* The subnet has its connected route, or another tunnel took it.          *)
Reachable(subnet) == Entry(Kernel, subnet) \in {"en0", "old"}

(* cleanup_network_macos and the rollback: a teardown that reports no      *)
(* error leaves no pin behind, and the LAN the Mac is on has its route.    *)
CleanTeardown ==
  pc = "down" /\ ~errors =>
    /\ \A k \in Keys : ~Held(k)
    /\ Sighted => \A subnet \in network.subnets : Reachable(subnet)

(* "an unpinned endpoint would route into the tunnel": no entry captures   *)
(* the endpoint unless it is pinned to a gateway or that is tried again.   *)
EndpointOutside ==
  pc \in {"setup", "up"} =>
    \A k \in Keys : table[k] = "tunnel" /\ SubnetContains(k, Host(config.endpoint)) =>
      \/ table[Host(config.endpoint)] \in Gateways
      \/ \E f \in failing : Key(f.route) = Host(config.endpoint)

Current == [subnets |-> network.subnets, gateway |-> IF NeedsPin THEN network.gateway ELSE NoRoute]

(* A tick saw the network as it is, and has nothing left to try.           *)
UpToDate == pc = "up" /\ seen.fp = Current /\ failing = {}

(* validate_links, macos_route_excluded_by_link: attached to the anchor of *)
(* a link that was accepted, no address of its bypass prefixes goes        *)
(* through the tunnel, by whatever entry.                                  *)
BypassStaysOff ==
  UpToDate =>
    \A i \in DOMAIN AcceptedLinks : \A subnet \in network.subnets : SubnetContains(subnet, AcceptedLinks[i].anchor) =>
      \A prefix \in AcceptedLinks[i].bypass : \A ip \in AddressesOf(prefix) : \A k \in Keys :
        ~(table[k] = "tunnel" /\ SubnetContains(k, Host(ip)))

(* The routes that a network calls for.                                    *)
Desired(fp) == {r \in ToSet(RoutesOf[config]) : Tunnelled(r.dest, fp.subnets, AcceptedLinks)}
                 \cup ToSet(Pins(fp))

(* The table is the one the network calls for.                             *)
Settled ==
  /\ UpToDate \/ (pc = "up" /\ NeedsPin /\ network.gateway = NoRoute /\ failing = {}
                  /\ seen.fp.subnets = network.subnets)
  /\ LET desired == Desired(seen.fp)
     IN  /\ ToSet(owned) \subseteq desired
         /\ Sighted => \A r \in desired : Owns(r) \/ Live(Entry(Kernel, Key(r)), Key(r))
  /\ Sighted => \A subnet \in network.subnets : Reachable(subnet)

(* macos_reconcile_routes: a tunnel that stays up has the routes that the  *)
(* network calls for again, after every change of the network and every    *)
(* failure, and the LAN is reachable.                                      *)
Converges == []<>(pc = "down" \/ Settled)

(* Types, and that routes_added and the kernel agree, from the first route *)
(* of configure_network_macos to the last delete of cleanup_network_macos. *)
LedgerInv == RoutesTypeOK /\ LedgerIsKernel /\ CleanTeardown

(* macos_desired_routes: no route takes what must stay outside, be it the  *)
(* tunnel's own packets or the bypass prefixes of an attached LAN.         *)
NotCaptured == EndpointOutside /\ BypassStaysOff
=============================================================================
