--------------------------- MODULE RouteOverview ---------------------------
(***************************************************************************)
(* What a helper tells of its routes (userspace_helper/macos/overview.rs): *)
(* `wgd status` asks for it, and the log has it after each pass that did   *)
(* something.  The reconciler holds the lock of the ledger during a pass,  *)
(* so this is read off the ledger between two passes (pc = "up"), together *)
(* with what the kernel then answers.                                      *)
(*                                                                         *)
(* A row is [dest, pin, outcome], with pin for the endpoint's; via, family,*)
(* MTU and the wording are left out, and lookups do not fail.              *)
(***************************************************************************)
EXTENDS Routes

Collected == pc = "up"

(* macos_route_egress_interface: where the most specific entry leads; the  *)
(* default route is en0's.                                                 *)
Egress(key) ==
  LET covering == {k \in Keys : Entry(Kernel, k) # NoRoute /\ SubnetContains(k, key)}
      winner == CHOOSE k \in covering : \A other \in covering : other.len <= k.len
  IN  IF covering # {} THEN IF Entry(Kernel, winner) \in Gateways THEN "en0"
                            ELSE Entry(Kernel, winner)
      ELSE IF network.gateway # NoRoute THEN "en0" ELSE NoRoute

(* macos_link_egress: the kernel's answer wins over the ledger's.          *)
StillTunneled(route) ==
  \/ Egress(Key(route)) = "tunnel"
  \/ Egress(Key(route)) = NoRoute /\ Owns(route)

(* macos_route_overview_rows: the pin, ...                                 *)
PinRows ==
  LET pinned == \E r \in ToSet(owned) : r.via # "tunnel" /\ r.dest = Host(config.endpoint)
      row == [dest |-> Host(config.endpoint), pin |-> TRUE,
              outcome |-> IF pinned THEN "EndpointPinned" ELSE "EndpointPinMissing"]
  IN  IF NeedsPin THEN {row} ELSE {}

Candidates == ToSet(RoutesOf[config])

(* ... every route that AllowedIPs ask for, wanted here or not, ...        *)
Outcome(route) ==
  LET holder == Entry(Kernel, Key(route))
  IN  IF InLocalSubnet(route.dest, seen.fp.subnets) THEN "ExcludedLocalSubnet"
      ELSE IF ExcludedByLink(route.dest, seen.fp.subnets, AcceptedLinks)
      THEN IF StillTunneled(route) THEN "LinkedStillTunneled" ELSE "ExcludedLinked"
      ELSE IF Owns(route) THEN CASE holder = "tunnel" -> "Owned"
                                 [] holder = NoRoute  -> "OwnedAbsentFromKernel"
                                 [] OTHER             -> "OwnedKernelDisagrees"
      ELSE IF holder \notin {NoRoute, "tunnel", "old"} THEN "Blocked" ELSE "ReconcilePending"

CandidateRows ==
  {[dest |-> Key(r), pin |-> FALSE, outcome |-> Outcome(r)] : r \in Candidates}

(* ... and what is owned beyond that.                                      *)
LeftoverRows ==
  {[dest |-> Key(r), pin |-> FALSE, outcome |-> "NoLongerDesired"]
   : r \in {r \in ToSet(owned) \ Candidates : ~(NeedsPin /\ r.via # "tunnel")}}

NotMarked(rows) == rows                    \* mutant: errors of the last pass are not laid over

(* mark_failed_route_removals; a pin's row has no prefix length, so that   *)
(* only the pin's own failure matches it.                                  *)
MarkFailedRemovals(rows) ==
  {IF \E f \in failing : /\ f.op = "Delete" /\ Key(f.route) = row.dest
                         /\ row.pin => f.route.via # "tunnel"
   THEN [row EXCEPT !.outcome = "RemovalFailed"] ELSE row : row \in rows}

(* build_macos_network_overview, the routes.                               *)
Overview == MarkFailedRemovals(PinRows \cup CandidateRows \cup LeftoverRows)

-----------------------------------------------------------------------------
(***************************************************************************)
(* Properties.                                                             *)
(***************************************************************************)

(* The outcomes that say that the tunnel has the entry.                    *)
Claims == {"EndpointPinned", "Owned", "NoLongerDesired", "RemovalFailed"}

Told(outcome) == {row.dest : row \in {row \in Overview : row.outcome = outcome}}

(* "Desired routes alone cannot say whether a removal worked": whatever    *)
(* failed and wherever the Mac went, the overview shows every entry that   *)
(* the kernel has of this tunnel and none that it does not have; a prefix  *)
(* that is linked but "still tunneled" does go through the tunnel, be it   *)
(* by a broader entry, and none that is excluded does.                     *)
OverviewIsTrue ==
  Collected /\ ~errors =>
    /\ {k \in Keys : Held(k)} = UNION {Told(outcome) : outcome \in Claims}
    /\ \A key \in Told("LinkedStillTunneled") : Egress(key) = "tunnel"
    /\ UpToDate /\ Sighted =>
         \A key \in Told("ExcludedLocalSubnet") \cup Told("ExcludedLinked") : Egress(key) # "tunnel"
=============================================================================
