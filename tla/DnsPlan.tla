------------------------------- MODULE DnsPlan -------------------------------
(***************************************************************************)
(* The decisions behind tunnel DNS, as functions of what was observed:     *)
(* the helper's reconcile plan (userspace_helper/macos/dns_plan.rs) and    *)
(* the daemon's sweep plan (privileged/dns_sweep.rs).  A DNS server list   *)
(* is one value; macos_dns::dns_lists_equal is equality of lists, and the  *)
(* empty list (DHCP) equals no tunnel's list.                              *)
(***************************************************************************)

(***************************************************************************)
(* What the helper wants to own.  A fingerprint is a record with           *)
(*   services : the network services listed right now                      *)
(*   primary  : the service that owns global resolution, or none           *)
(*   observed : the DNS list each listed service shows.                    *)
(* "Hold" is kept apart from "RestoreAll" although neither has a target:   *)
(* holding leaves owned services untouched.                                *)
(***************************************************************************)
DecisionWithoutPrimary(fp, collision) ==   \* mutant: a missing primary is not noticed
  IF collision THEN [kind |-> "RestoreAll", targets |-> {}]
  ELSE [kind |-> "Apply", targets |-> {fp.primary}]

DnsDecision(fp, collision) ==
  IF collision THEN [kind |-> "RestoreAll", targets |-> {}]
  ELSE IF fp.primary \in fp.services
       THEN [kind |-> "Apply", targets |-> {fp.primary}]
       ELSE [kind |-> "Hold", targets |-> {}]

PlanRecaptures(tunnelDns, fp, owned, targets) ==  \* mutant: captures what it owns
  [ capture |-> targets,
    apply   |-> {s \in targets : ~(s \in fp.services /\ fp.observed[s] = tunnelDns)},
    restore |-> (owned \ targets) \cap fp.services,
    drop    |-> (owned \ targets) \ fp.services ]

PlanDnsActions(tunnelDns, fp, owned, targets) ==
  [ capture |-> targets \ owned,
    apply   |-> {s \in targets : ~(s \in fp.services /\ fp.observed[s] = tunnelDns)},
    restore |-> (owned \ targets) \cap fp.services,
    drop    |-> (owned \ targets) \ fp.services ]

NeverForced(collision, owned, targets) == FALSE   \* mutant: only the fingerprint counts

DnsReconcileForced(collision, owned, targets) ==
  \/ collision /\ owned # {}
  \/ ~collision /\ ~(targets \subseteq owned)

(***************************************************************************)
(* What a sweep does with the services of the records whose helper is      *)
(* dead.  An entry is a pair <<tunnel, service>>; live is the DNS list of  *)
(* each listed service.                                                    *)
(***************************************************************************)
SweepRestores(entries, listed, live) ==
  {e \in entries : e[2] \in listed /\ live[e[2]] = e[1]}

SweepAbsent(entries, listed) ==
  {e \in entries : e[2] \notin listed}

(* Services nobody has a record for that show the DNS of a stored tunnel   *)
(* whose helper is dead, and of no tunnel whose helper lives.              *)
SweepStrays(recorded, listed, live, deadStored, liveStored) ==
  {s \in listed \ recorded : live[s] \in deadStored /\ live[s] \notin liveStored}

(***************************************************************************)
(* Where a custody record stands after a sweep, and whether the records    *)
(* still need the sentinel that keeps the daemon alive.                    *)
(***************************************************************************)
ClassifyRecord(helperLive, services, listed) ==
  CASE helperLive                               -> "Live"
    [] ~helperLive /\ services \cap listed # {} -> "Restorable"
    [] OTHER                                    -> "Deferred"

SentinelWanted(statuses) == statuses \cap {"Live", "Restorable"} # {}
=============================================================================
