----------------------------- MODULE DnsCustody -----------------------------
(***************************************************************************)
(* Custody of the user's DNS settings while tunnels promote their own DNS  *)
(* with networksetup (the default, "shadow" mode).                         *)
(*                                                                         *)
(* A helper process per tunnel captures a service's original settings,     *)
(* writes them to its custody record, and only then overwrites them; it    *)
(* restores them when it releases the service.  Helpers may be killed      *)
(* anywhere.  The daemon, under the system network lock, sweeps the        *)
(* records of dead helpers and starts new helpers.  It may die anywhere    *)
(* too, and its lock dies with it.                                         *)
(*                                                                         *)
(* Every networksetup call is a step of its own: setting the servers and   *)
(* setting the search domains of a service are two programs run one after  *)
(* the other, and a process can die between them.                          *)
(***************************************************************************)
EXTENDS Naturals, FiniteSets, DnsPlan

CONSTANTS
  Tunnels,      \* stored connections with DNS; a tunnel also names its DNS list
  Services,     \* network services of all locations
  UserDns,      \* DNS lists a user may set by hand
  UserDomains,  \* search domain lists a user may set by hand
  Empty,        \* nothing set: DHCP decides
  None,         \* no service, no tunnel, not owned
  Changes,      \* what the environment does, from Disturbances
  MaxFaults     \* how many calls to networksetup or the file system may fail

(* A user edits DNS settings; the primary service changes; the tunnel's    *)
(* DNS comes to lie in a LAN or stops to; services leave and join the      *)
(* listing; the daemon dies between the start of a helper and the moment   *)
(* the helper has bound its socket.                                        *)
Disturbances == {"edit", "primary", "lan", "location", "orphan"}

ASSUME CustodyAssumption ==
  /\ IsFiniteSet(Tunnels) /\ IsFiniteSet(Services)
  /\ Empty \notin Tunnels \cup UserDns
  /\ Empty \notin UserDomains
  /\ Tunnels \cap UserDns = {}
  /\ None \notin Tunnels \cup Services
  /\ Changes \subseteq Disturbances
  /\ MaxFaults \in Nat

Lists   == Tunnels \cup UserDns \cup {Empty}
Domains == UserDomains \cup {Empty}

(* The manual DNS settings of one service.  A record of them is tagged so  *)
(* that "not owned" is a value of the same kind.                           *)
Config      == [servers : Lists, search : Domains, held : {TRUE}]
EmptyConfig == [servers |-> Empty, search |-> Empty, held |-> TRUE]
NotHeld     == [servers |-> Empty, search |-> Empty, held |-> FALSE]
Custody     == [Services -> Config \cup {NotHeld}]
NoCustody   == [s \in Services |-> NotHeld]

VARIABLES
  live,         \* [Services -> Config]: what networksetup reports
  present,      \* services of the current location
  primary,      \* the primary service, or None
  collides,     \* [Tunnels -> BOOLEAN]: the tunnel's DNS lies in a connected LAN
  pc,           \* [Tunnels -> helper's place in its code, "down": no process]
  saved,        \* [Tunnels -> Custody]: originals in the helper's memory
  fingerprint,  \* [Tunnels -> last observed environment]
  job,          \* [Tunnels -> what the helper's current pass still has to do]
  record,       \* [Tunnels -> Custody]: dns-custody/<interface>.json
  sweep,        \* the holder of the system network lock: a sweep or a connect
  faults,       \* failures that may still happen
  orig,         \* history: [Services -> the user's settings when last captured]
  edited        \* history: services a user changed while they were in custody

helperVars == <<pc, saved, fingerprint, job>>
envVars    == <<present, primary, collides>>
ghostVars  == <<orig, edited>>
vars == <<live, envVars, helperVars, record, sweep, faults, ghostVars>>

HelperPc == {"down", "spawned", "configure", "prepare", "apply", "run"}
SweepPc  == {"idle", "read", "snapshot", "restore", "spawn", "wait"}

NoJob == [capture |-> {}, restore |-> {}, drop |-> {}, apply |-> {}, half |-> None,
          changed |-> FALSE, acted |-> FALSE, booting |-> FALSE, stopping |-> FALSE]

NoFingerprint == [services |-> {}, primary |-> None,
                  observed |-> [s \in Services |-> Empty]]

NoSweep == [pc |-> "idle", scope |-> {}, fallback |-> FALSE, connect |-> None,
            dead |-> {}, copy |-> [t \in Tunnels |-> NoCustody], alive |-> {},
            todo |-> {}, half |-> {}, pending |-> {}, strays |-> {}]

Forget(c, gone) == [s \in Services |-> IF s \in gone THEN NotHeld ELSE c[s]]

Held(c)     == {s \in Services : c[s].held}
Owned(t)    == Held(saved[t])
Recorded(t) == Held(record[t])

(* connection_store::helper_is_live: somebody accepts on the helper's      *)
(* socket, which a helper binds before it touches DNS, or the recorded     *)
(* process instance still runs.                                            *)
Alive(t) == pc[t] \notin {"down", "spawned"}

InCustody(s) == \E t \in Tunnels : s \in Owned(t) \cup Recorded(t)

-----------------------------------------------------------------------------
Fingerprint == [services : SUBSET Services, primary : Services \cup {None},
                observed : [Services -> Lists]]

Job == [capture : SUBSET Services, restore : SUBSET Services,
        drop : SUBSET Services, apply : SUBSET Services,
        half : Services \cup {None}, changed : BOOLEAN, acted : BOOLEAN,
        booting : BOOLEAN, stopping : BOOLEAN]

Entries == Tunnels \X Services

SweepState == [pc : SweepPc, scope : SUBSET Tunnels, fallback : BOOLEAN,
               connect : Tunnels \cup {None}, dead : SUBSET Tunnels,
               copy : [Tunnels -> Custody], alive : SUBSET Tunnels,
               todo : SUBSET Entries, half : SUBSET Entries,
               pending : SUBSET Entries, strays : SUBSET Services]

(* Every variable has its type.                                            *)
TypeOK ==
  /\ live \in [Services -> Config]
  /\ present \subseteq Services
  /\ primary \in Services \cup {None}
  /\ collides \in [Tunnels -> BOOLEAN]
  /\ pc \in [Tunnels -> HelperPc]
  /\ saved \in [Tunnels -> Custody]
  /\ fingerprint \in [Tunnels -> Fingerprint]
  /\ job \in [Tunnels -> Job]
  /\ record \in [Tunnels -> Custody]
  /\ sweep \in SweepState
  /\ faults \in 0..MaxFaults
  /\ orig \in [Services -> Config]
  /\ edited \subseteq Services

Init ==
  /\ live \in [Services -> {EmptyConfig} \cup
                [servers : UserDns, search : Domains, held : {TRUE}]]
  /\ present = Services
  /\ primary \in Services \cup {None}
  /\ collides \in [Tunnels -> BOOLEAN]
  /\ pc = [t \in Tunnels |-> "down"]
  /\ saved = [t \in Tunnels |-> NoCustody]
  /\ fingerprint = [t \in Tunnels |-> NoFingerprint]
  /\ job = [t \in Tunnels |-> NoJob]
  /\ record = [t \in Tunnels |-> NoCustody]
  /\ sweep = NoSweep
  /\ faults = MaxFaults
  /\ orig = live
  /\ edited = {}

-----------------------------------------------------------------------------
(***************************************************************************)
(* Outcomes of external calls.  networksetup refuses a service that is not *)
(* in the current location; any call may fail while faults remain.         *)
(***************************************************************************)
Works(s) == s \in present /\ UNCHANGED faults

Fails(s) == \/ s \notin present /\ UNCHANGED faults
            \/ faults > 0 /\ faults' = faults - 1

Fault == faults > 0 /\ faults' = faults - 1

(* macos_current_dns_fingerprint: a service whose DNS cannot be read       *)
(* counts as unset.                                                        *)
Snapshot(unread) ==
  [services |-> present, primary |-> primary,
   observed |-> [s \in Services |->
                   IF s \in present \ unread THEN live[s].servers ELSE Empty]]

Unread(unread) == \/ unread = {} /\ UNCHANGED faults
                  \/ unread # {} /\ Fault

SetServers(s, list)  == live' = [live EXCEPT ![s].servers = list]
SetSearch(s, domains) == live' = [live EXCEPT ![s].search = domains]

-----------------------------------------------------------------------------
(***************************************************************************)
(* The helper process.                                                     *)
(***************************************************************************)
Goto(t, place) == pc' = [pc EXCEPT ![t] = place]
SetJob(t, j)   == job' = [job EXCEPT ![t] = j]

(* A process's memory goes with it.                                        *)
Exit(t) == /\ Goto(t, "down")
           /\ saved' = [saved EXCEPT ![t] = NoCustody]
           /\ fingerprint' = [fingerprint EXCEPT ![t] = NoFingerprint]
           /\ SetJob(t, NoJob)

(* start_device: the control socket is bound before anything else.         *)
Bind(t) ==
  /\ pc[t] = "spawned"
  /\ Goto(t, "configure")
  /\ UNCHANGED <<live, envVars, saved, fingerprint, job, record, sweep, faults, ghostVars>>

(* configure_macos_dns: decide which services to take; they are captured,  *)
(* recorded and written by the steps below.                                *)
Configure(t) ==
  /\ pc[t] = "configure"
  /\ present # {}
  /\ \E unread \in SUBSET present :
       LET fp      == Snapshot(unread)
           targets == DnsDecision(fp, collides[t]).targets
       IN  /\ Unread(unread)
           /\ fingerprint' = [fingerprint EXCEPT ![t] = fp]
           /\ SetJob(t, [NoJob EXCEPT !.capture = targets, !.apply = targets,
                                      !.acted = TRUE, !.booting = TRUE])
           /\ Goto(t, "prepare")
  /\ UNCHANGED <<live, envVars, saved, record, sweep, ghostVars>>

(* configure_network_macos fails before it reaches DNS (an address, a      *)
(* route, a degraded service listing): the rollback restores what is owned *)
(* and settles the record, then the process exits.                         *)
SetupFails(t) ==
  /\ pc[t] = "configure"
  /\ SetJob(t, [NoJob EXCEPT !.booting = TRUE, !.stopping = TRUE])
  /\ Goto(t, "prepare")
  /\ UNCHANGED <<live, envVars, saved, fingerprint, record, sweep, faults, ghostVars>>

(* macos_reconcile_dns up to its plan.  It acts when the environment       *)
(* changed since the last pass, or when a LAN collision came or went.      *)
Tick(t) ==
  /\ pc[t] = "run"
  /\ \E unread \in SUBSET present :
       LET fp       == Snapshot(unread)
           decision == DnsDecision(fp, collides[t])
           plan     == PlanDnsActions(t, fp, Owned(t), decision.targets)
       IN  /\ Unread(unread)
           /\ present # {}
           /\ decision.kind # "Hold"
           /\ \/ fp # fingerprint[t]
              \/ DnsReconcileForced(collides[t], Owned(t), decision.targets)
           /\ fingerprint' = [fingerprint EXCEPT ![t] = fp]
           /\ SetJob(t, [NoJob EXCEPT !.capture = plan.capture, !.apply = plan.apply,
                                      !.restore = plan.restore, !.drop = plan.drop,
                                      !.changed = plan.drop # {}])
           /\ Goto(t, "prepare")
  /\ UNCHANGED <<live, envVars, saved, record, sweep, ghostVars>>

(* A step of the setup failed: undo it (restore_macos_dns_services).       *)
Rollback(t) ==
  /\ SetJob(t, [NoJob EXCEPT !.booting = TRUE, !.stopping = TRUE,
                             !.restore = Owned(t)])
  /\ Goto(t, "prepare")

(* capture_macos_dns_service: a service that already shows this tunnel's   *)
(* DNS is a stray of an earlier run, adopted with an Empty original.       *)
CaptureAsSeen(t, s) == live[s]             \* mutant: a stray is taken as it shows
CaptureOf(t, s) == IF live[s].servers = t THEN EmptyConfig ELSE live[s]

Capture(t, s) ==
  /\ pc[t] = "prepare"
  /\ s \in job[t].capture
  /\ Works(s)
  /\ saved' = [saved EXCEPT ![t][s] = CaptureOf(t, s)]
  /\ SetJob(t, [job[t] EXCEPT !.capture = @ \ {s}, !.changed = TRUE])
  /\ IF live[s].servers \in Tunnels
     THEN UNCHANGED ghostVars
     ELSE /\ orig' = [orig EXCEPT ![s] = live[s]]
          /\ edited' = edited \ {s}
  /\ UNCHANGED <<live, envVars, pc, fingerprint, record, sweep>>

(* Without a saved original a service is never overwritten.                *)
CaptureFailsButApplies(t, s) ==            \* mutant: the service stays a target
  /\ pc[t] = "prepare"
  /\ s \in job[t].capture
  /\ Fails(s)
  /\ SetJob(t, [job[t] EXCEPT !.capture = @ \ {s}])
  /\ UNCHANGED <<live, envVars, pc, saved, fingerprint, record, sweep, ghostVars>>

CaptureFails(t, s) ==
  /\ pc[t] = "prepare"
  /\ s \in job[t].capture
  /\ Fails(s)
  /\ IF job[t].booting
     THEN Rollback(t)
     ELSE /\ SetJob(t, [job[t] EXCEPT !.capture = @ \ {s}, !.apply = @ \ {s}])
          /\ UNCHANGED pc
  /\ UNCHANGED <<live, envVars, saved, fingerprint, record, sweep, ghostVars>>

(* restore_service, first half: the servers.                               *)
ReleaseServers(t, s) ==
  /\ pc[t] = "prepare"
  /\ job[t].capture = {}
  /\ job[t].half = None
  /\ s \in job[t].restore
  /\ Works(s)
  /\ SetServers(s, saved[t][s].servers)
  /\ SetJob(t, [job[t] EXCEPT !.half = s])
  /\ UNCHANGED <<envVars, pc, saved, fingerprint, record, sweep, ghostVars>>

(* Second half: the search domains.  Only now is the original let go.      *)
ReleaseSearch(t, s) ==
  /\ pc[t] = "prepare"
  /\ job[t].capture = {}
  /\ job[t].half = s
  /\ Works(s)
  /\ SetSearch(s, saved[t][s].search)
  /\ saved' = [saved EXCEPT ![t][s] = NotHeld]
  /\ SetJob(t, [job[t] EXCEPT !.half = None, !.restore = @ \ {s},
                              !.changed = TRUE, !.acted = TRUE])
  /\ UNCHANGED <<envVars, pc, fingerprint, record, sweep, ghostVars>>

(* Either half failed: the original stays owned.                           *)
ReleaseFails(t, s) ==
  /\ pc[t] = "prepare"
  /\ job[t].capture = {}
  /\ \/ job[t].half = None /\ s \in job[t].restore
     \/ job[t].half = s
  /\ Fails(s)
  /\ SetJob(t, [job[t] EXCEPT !.half = None, !.restore = @ \ {s}])
  /\ UNCHANGED <<live, envVars, pc, saved, fingerprint, record, sweep, ghostVars>>

(* A pass that captured, restored or dropped something, a teardown and a   *)
(* rollback settle the record.                                             *)
NeedsPersistOnExit(t) == job[t].stopping   \* mutant: the write-ahead is missing
NeedsPersist(t) == job[t].changed \/ job[t].stopping

(* persist_dns_custody writes the owned set, or deletes the file when      *)
(* nothing is owned.  A failure is only logged.  Services that left the    *)
(* listing are dropped from the owned set first.  A teardown or a rollback *)
(* ends the process.                                                       *)
Persist(t) ==
  /\ pc[t] = "prepare"
  /\ job[t].capture = {} /\ job[t].restore = {} /\ job[t].half = None
  /\ LET kept == Forget(saved[t], job[t].drop)
     IN  /\ IF NeedsPersist(t)
            THEN \/ record' = [record EXCEPT ![t] = kept] /\ UNCHANGED faults
                 \/ Fault /\ UNCHANGED record
            ELSE UNCHANGED <<record, faults>>
         /\ IF job[t].stopping
            THEN Exit(t)
            ELSE /\ saved' = [saved EXCEPT ![t] = kept]
                 /\ Goto(t, "apply")
                 /\ UNCHANGED <<fingerprint, job>>
  /\ UNCHANGED <<live, envVars, sweep, ghostVars>>

(* set_dns_servers on a target ...                                         *)
ApplyServers(t, s) ==
  /\ pc[t] = "apply"
  /\ job[t].half = None
  /\ s \in job[t].apply
  /\ Works(s)
  /\ SetServers(s, t)
  /\ SetJob(t, [job[t] EXCEPT !.half = s])
  /\ UNCHANGED <<envVars, pc, saved, fingerprint, record, sweep, ghostVars>>

(* ... and set_search_domains_empty.                                       *)
ApplySearch(t, s) ==
  /\ pc[t] = "apply"
  /\ job[t].half = s
  /\ Works(s)
  /\ SetSearch(s, Empty)
  /\ SetJob(t, [job[t] EXCEPT !.half = None, !.apply = @ \ {s}, !.acted = TRUE])
  /\ UNCHANGED <<envVars, pc, saved, fingerprint, record, sweep, ghostVars>>

ApplyFails(t, s) ==
  /\ pc[t] = "apply"
  /\ \/ job[t].half = None /\ s \in job[t].apply
     \/ job[t].half = s
  /\ Fails(s)
  /\ IF job[t].booting
     THEN Rollback(t)
     ELSE /\ SetJob(t, [job[t] EXCEPT !.half = None, !.apply = @ \ {s}])
          /\ UNCHANGED pc
  /\ UNCHANGED <<live, envVars, saved, fingerprint, record, sweep, ghostVars>>

(* The pass ends; what it wrote is observed again so that the next tick    *)
(* sees no change.  A failed second look keeps the first one.              *)
PassDone(t) ==
  /\ pc[t] = "apply"
  /\ job[t].half = None
  /\ job[t].apply = {}
  /\ IF job[t].acted
     THEN \/ /\ present # {}
             /\ \E unread \in SUBSET present :
                  /\ Unread(unread)
                  /\ fingerprint' = [fingerprint EXCEPT ![t] = Snapshot(unread)]
          \/ present = {} /\ UNCHANGED <<fingerprint, faults>>
          \/ Fault /\ UNCHANGED fingerprint
     ELSE UNCHANGED <<fingerprint, faults>>
  /\ SetJob(t, NoJob)
  /\ Goto(t, "run")
  /\ UNCHANGED <<live, envVars, saved, record, sweep, ghostVars>>

(* cleanup_network_macos after a signal, the removal of the control socket *)
(* or a device error: restore everything owned, then exit.                 *)
Stop(t) ==
  /\ pc[t] = "run"
  /\ SetJob(t, [NoJob EXCEPT !.stopping = TRUE, !.restore = Owned(t)])
  /\ Goto(t, "prepare")
  /\ UNCHANGED <<live, envVars, saved, fingerprint, record, sweep, faults, ghostVars>>

(* SIGKILL, a panic or a power loss.                                       *)
Crash(t) ==
  /\ pc[t] # "down"
  /\ Exit(t)
  /\ UNCHANGED <<live, envVars, record, sweep, faults, ghostVars>>

HelperStep(t) ==
  \/ Bind(t) \/ Configure(t) \/ SetupFails(t) \/ Tick(t)
  \/ Persist(t) \/ PassDone(t) \/ Stop(t)
  \/ \E s \in Services : \/ Capture(t, s) \/ CaptureFails(t, s)
                         \/ ReleaseServers(t, s) \/ ReleaseSearch(t, s)
                         \/ ReleaseFails(t, s)
                         \/ ApplyServers(t, s) \/ ApplySearch(t, s) \/ ApplyFails(t, s)

-----------------------------------------------------------------------------
(***************************************************************************)
(* The daemon, while it holds the system network lock.                     *)
(***************************************************************************)
daemonUnchanged == <<envVars, helperVars, ghostVars>>

(* The lock is free again; a connect goes on to start its helper.          *)
SweepEnds == sweep' = IF sweep.connect = None THEN NoSweep
                      ELSE [NoSweep EXCEPT !.pc = "spawn", !.connect = sweep.connect]

(* run_sweep(All): daemon start, retry loop, `wgd dns repair`.             *)
SweepAll ==
  /\ sweep.pc = "idle"
  /\ sweep' = [NoSweep EXCEPT !.pc = "read", !.scope = Tunnels, !.fallback = TRUE]
  /\ UNCHANGED <<live, record, faults, daemonUnchanged>>

(* run_sweep(Interface): the exit watch, leftovers found by a connect.     *)
SweepInterface(t) ==
  /\ sweep.pc = "idle"
  /\ sweep' = [NoSweep EXCEPT !.pc = "read", !.scope = {t}]
  /\ UNCHANGED <<live, record, faults, daemonUnchanged>>

(* connection_ops::connect of a tunnel that is down: it sweeps its own     *)
(* interface before it starts a helper.                                    *)
Connect(t) ==
  /\ sweep.pc = "idle"
  /\ pc[t] = "down"
  /\ sweep' = [NoSweep EXCEPT !.pc = "read", !.scope = {t}, !.connect = t]
  /\ UNCHANGED <<live, record, faults, daemonUnchanged>>

SweepReadTrustingRecords ==                \* mutant: every record's helper counts as dead
  /\ sweep.pc = "read"
  /\ sweep' = [sweep EXCEPT !.pc = "snapshot", !.alive = {},
                            !.dead = {t \in sweep.scope : Recorded(t) # {}},
                            !.copy = [t \in Tunnels |-> IF t \in sweep.scope
                                        THEN record[t] ELSE NoCustody]]
  /\ UNCHANGED <<live, record, faults, daemonUnchanged>>

(* read_record_states and stored_dns_lists.                                *)
SweepRead ==
  /\ sweep.pc = "read"
  /\ LET found == {t \in sweep.scope : Recorded(t) # {}}
         dead  == {t \in found : ~Alive(t)}
         alive == {t \in Tunnels : Alive(t)}
     IN  IF dead # {} \/ (sweep.fallback /\ alive # Tunnels)
         THEN sweep' = [sweep EXCEPT !.pc = "snapshot", !.dead = dead, !.alive = alive,
                                     !.copy = [t \in Tunnels |-> IF t \in found
                                                 THEN record[t] ELSE NoCustody]]
         ELSE SweepEnds
  /\ UNCHANGED <<live, record, faults, daemonUnchanged>>

(* snapshot_live_dns and plan_dns_sweep.                                   *)
SweepSnapshot ==
  /\ sweep.pc = "snapshot"
  /\ present # {}
  /\ LET entries == {e \in sweep.dead \X Services : e[2] \in Held(sweep.copy[e[1]])}
         shown   == [s \in Services |-> live[s].servers]
     IN  sweep' = [sweep EXCEPT
           !.pc = "restore",
           !.todo = SweepRestores(entries, present, shown),
           !.pending = SweepAbsent(entries, present),
           !.strays = IF sweep.fallback
                      THEN SweepStrays(UNION {Held(sweep.copy[t]) : t \in Tunnels}, present, shown,
                                       Tunnels \ sweep.alive, sweep.alive)
                      ELSE {}]
  /\ UNCHANGED <<live, record, faults, daemonUnchanged>>

(* A listing or a read failed: the sweep gives up rather than act on half  *)
(* a view; a connect carries on regardless.                                *)
SnapshotFails ==
  /\ sweep.pc = "snapshot"
  /\ \/ present = {} /\ UNCHANGED faults
     \/ Fault
  /\ SweepEnds
  /\ UNCHANGED <<live, record, daemonUnchanged>>

SweepServers(e) ==
  /\ sweep.pc = "restore"
  /\ sweep.half = {}
  /\ e \in sweep.todo
  /\ Works(e[2])
  /\ SetServers(e[2], sweep.copy[e[1]][e[2]].servers)
  /\ sweep' = [sweep EXCEPT !.half = {e}]
  /\ UNCHANGED <<record, daemonUnchanged>>

SweepSearch(e) ==
  /\ sweep.pc = "restore"
  /\ e \in sweep.half
  /\ Works(e[2])
  /\ SetSearch(e[2], sweep.copy[e[1]][e[2]].search)
  /\ sweep' = [sweep EXCEPT !.half = {}, !.todo = @ \ {e}]
  /\ UNCHANGED <<record, daemonUnchanged>>

(* Either half failed: the service stays in the record for a retry.        *)
SweepRestoreFails(e) ==
  /\ sweep.pc = "restore"
  /\ \/ sweep.half = {} /\ e \in sweep.todo
     \/ e \in sweep.half
  /\ Fails(e[2])
  /\ sweep' = [sweep EXCEPT !.half = {}, !.todo = @ \ {e}, !.pending = @ \cup {e}]
  /\ UNCHANGED <<live, record, daemonUnchanged>>

ClearStray(s) ==
  /\ sweep.pc = "restore"
  /\ sweep.todo = {}
  /\ s \in sweep.strays
  /\ \/ Works(s) /\ SetServers(s, Empty)
     \/ Fails(s) /\ UNCHANGED live
  /\ sweep' = [sweep EXCEPT !.strays = @ \ {s}]
  /\ UNCHANGED <<record, daemonUnchanged>>

(* Keep only what is still pending; an empty record is deleted, one that   *)
(* loses nothing is left alone.                                            *)
SettleRecord(t) ==
  /\ sweep.pc = "restore"
  /\ sweep.todo = {} /\ sweep.strays = {}
  /\ t \in sweep.dead
  /\ LET keep == Forget(sweep.copy[t], {s \in Services : <<t, s>> \notin sweep.pending})
     IN  \/ /\ keep # sweep.copy[t]
            /\ record' = [record EXCEPT ![t] = keep]
            /\ UNCHANGED faults
         \/ keep = sweep.copy[t] /\ UNCHANGED <<record, faults>>
         \/ Fault /\ UNCHANGED record
  /\ sweep' = [sweep EXCEPT !.dead = @ \ {t}]
  /\ UNCHANGED <<live, daemonUnchanged>>

SweepDone ==
  /\ sweep.pc = "restore"
  /\ sweep.todo = {} /\ sweep.strays = {} /\ sweep.dead = {}
  /\ SweepEnds
  /\ UNCHANGED <<live, record, faults, daemonUnchanged>>

(* run_gotatun_up: start the helper, and hold the lock until it reports    *)
(* that it is up or has failed.                                            *)
Spawn ==
  /\ sweep.pc = "spawn"
  /\ Goto(sweep.connect, "spawned")
  /\ sweep' = [sweep EXCEPT !.pc = "wait"]
  /\ UNCHANGED <<live, envVars, saved, fingerprint, job, record, faults, ghostVars>>

HelperReported ==
  /\ sweep.pc = "wait"
  /\ pc[sweep.connect] \notin {"spawned", "configure"}
  /\ ~job[sweep.connect].booting
  /\ sweep' = NoSweep
  /\ UNCHANGED <<live, record, faults, daemonUnchanged>>

(* The daemon dies; the kernel drops its lock.  A helper it was starting   *)
(* goes on by itself.                                                      *)
DaemonDies ==
  /\ sweep.pc # "idle"
  /\ sweep.pc = "wait" /\ pc[sweep.connect] = "spawned" => "orphan" \in Changes
  /\ sweep' = NoSweep
  /\ UNCHANGED <<live, record, faults, daemonUnchanged>>

DaemonStep ==
  \/ SweepAll \/ SweepRead \/ SweepSnapshot \/ SnapshotFails \/ SweepDone
  \/ Spawn \/ HelperReported
  \/ \E t \in Tunnels : SweepInterface(t) \/ Connect(t) \/ SettleRecord(t)
  \/ \E e \in Entries : SweepServers(e) \/ SweepSearch(e) \/ SweepRestoreFails(e)
  \/ \E s \in Services : ClearStray(s)

-----------------------------------------------------------------------------
(***************************************************************************)
(* The user and the network.                                               *)
(***************************************************************************)
UserEdit(s) ==
  /\ "edit" \in Changes
  /\ s \in present
  /\ \E list \in UserDns \cup {Empty}, domains \in Domains :
       live' = [live EXCEPT ![s] = [servers |-> list, search |-> domains, held |-> TRUE]]
  /\ IF InCustody(s)
     THEN edited' = edited \cup {s} /\ UNCHANGED orig
     ELSE edited' = edited \ {s} /\ orig' = [orig EXCEPT ![s] = live'[s]]
  /\ UNCHANGED <<envVars, helperVars, record, sweep, faults>>

PrimaryChanges ==
  /\ "primary" \in Changes
  /\ primary' \in (present \cup {None}) \ {primary}
  /\ UNCHANGED <<live, present, collides, helperVars, record, sweep, faults, ghostVars>>

LanChanges(t) ==
  /\ "lan" \in Changes
  /\ collides' = [collides EXCEPT ![t] = ~@]
  /\ UNCHANGED <<live, present, primary, helperVars, record, sweep, faults, ghostVars>>

LocationChanges ==
  /\ "location" \in Changes
  /\ present' \in (SUBSET Services) \ {present}
  /\ primary' = IF primary \in present' THEN primary ELSE None
  /\ UNCHANGED <<live, collides, helperVars, record, sweep, faults, ghostVars>>

Environment ==
  \/ PrimaryChanges \/ LocationChanges
  \/ \E s \in Services : UserEdit(s)
  \/ \E t \in Tunnels : LanChanges(t)

Next ==
  \/ \E t \in Tunnels : HelperStep(t) \/ Crash(t)
  \/ DaemonStep
  \/ DaemonDies
  \/ Environment

Spec == Init /\ [][Next]_vars

(* A helper's own progress: all it does but exit.  It is one loop with     *)
(* bounded waits (wait_for_shutdown ticks every few seconds), so it does   *)
(* not stop between two of these steps unless the process dies.            *)
HelperProgress(t) ==
  \/ Bind(t) \/ Configure(t) \/ Tick(t) \/ Persist(t) \/ PassDone(t)
  \/ \E s \in Services : \/ Capture(t, s) \/ CaptureFails(t, s)
                         \/ ReleaseServers(t, s) \/ ReleaseSearch(t, s)
                         \/ ReleaseFails(t, s)
                         \/ ApplyServers(t, s) \/ ApplySearch(t, s) \/ ApplyFails(t, s)

FairSpec == Spec /\ \A t \in Tunnels : WF_vars(HelperProgress(t))

-----------------------------------------------------------------------------
(***************************************************************************)
(* Properties.                                                             *)
(***************************************************************************)

(* What tunnel t could put back on s: an original it has recorded on disk  *)
(* for a service that still shows its DNS (the sweep restores exactly      *)
(* those), or one in the memory of a live helper.                          *)
Recovers(t, s) ==
  \/ /\ record[t][s].held
     /\ record[t][s].servers = orig[s].servers
     /\ live[s].servers = t
  \/ /\ Alive(t)
     /\ saved[t][s].held
     /\ saved[t][s].servers = orig[s].servers

(* issues/dns-crash-recovery.md, Goals: whatever dies, and at whatever     *)
(* point, the DNS servers a user had set on a service are set still, or    *)
(* somebody holds them for a restore.                                      *)
ServersRecoverable ==
  \A s \in Services : \/ s \in edited
                      \/ live[s].servers = orig[s].servers
                      \/ \E t \in Tunnels : Recovers(t, s)

(* restore_macos_dns_services, execute: a recorded original is neither     *)
(* dropped nor replaced while the service still shows the tunnel's DNS; a  *)
(* failed restore keeps it for the next sweep.                             *)
RecordKeptUntilRestored ==
  [][\A t \in Tunnels, s \in Services :
       record[t][s].held /\ live[s].servers = t => record'[t][s] = record[t][s]]_vars

(* Write-ahead (configure_macos_dns, macos_reconcile_dns): from the moment *)
(* a helper may write DNS, until it next changes what it owns, its record  *)
(* on disk is exactly what it owns.                                        *)
OwnedIsRecorded ==
  \A t \in Tunnels : pc[t] \in {"apply", "run"} => record[t] = saved[t]

(* macos_reconcile_dns (c): DNS is only ever written to a service whose    *)
(* original is in hand.                                                    *)
ApplyOnlyOwned ==
  \A t \in Tunnels : pc[t] = "apply" => job[t].apply \subseteq Owned(t)

(* capture_macos_dns_service: neither in memory nor on disk is a tunnel's  *)
(* own DNS ever kept as the original of a service.                         *)
NeverOwnDnsAsOriginal ==
  \A t \in Tunnels, s \in Services : /\ saved[t][s].servers # t
                                     /\ record[t][s].servers # t

(* plan_dns_actions: a service is captured once, when a helper takes it;   *)
(* until it lets go of the service the original never changes, however     *)
(* often the DNS is asserted again.                                        *)
OriginalsAreStable ==
  [][\A t \in Tunnels, s \in Services :
       saved[t][s].held /\ saved'[t][s].held => saved'[t][s] = saved[t][s]]_vars

(* plan_dns_sweep: no step of the daemon changes the DNS of a service that *)
(* a live helper owns and shows its DNS on.                                *)
RecoverySparesLive ==
  [][\A t \in Tunnels, s \in Services :
       sweep' # sweep /\ Alive(t) /\ s \in Owned(t) /\ live[s].servers = t
         => live'[s] = live[s]]_vars

(* execute settles the records of helpers that were dead when the sweep    *)
(* began; the network lock keeps a successor from starting meanwhile, so   *)
(* the record of a live helper is never rewritten or deleted under it.     *)
LiveRecordKept ==
  [][\A t \in Tunnels : sweep' # sweep /\ Alive(t) => record'[t] = record[t]]_vars

Runs(t) == Alive(t) /\ ~job[t].stopping

(* dns_decision and plan_dns_actions: while a helper runs, s stays the     *)
(* primary service and no LAN collision exists, s shows the tunnel's DNS   *)
(* again and again, unless the user has set it by hand in the meantime.    *)
PromotionHolds ==
  \A t \in Tunnels, s \in Services :
    <>[](Runs(t) /\ s \in present \ edited /\ primary = s /\ ~collides[t])
      => []<>(live[s].servers = t)

(* dns_decision, dns_reconcile_forced: while a tunnel's DNS collides with  *)
(* a LAN its helper takes it back from every service, for as long as the   *)
(* collision lasts.                                                        *)
WithdrawnOnCollision ==
  \A t \in Tunnels :
    <>[](Runs(t) /\ collides[t]) => <>[](\A s \in present : live[s].servers # t)

(* plan_dns_sweep and execute: whatever starts, writes and dies around it, *)
(* a sweep touches neither the services nor the record of a live helper,   *)
(* and nobody gives up a record while there is something left to restore.  *)
SweepIsCareful == RecoverySparesLive /\ LiveRecordKept /\ RecordKeptUntilRestored

(* macos_reconcile_dns: the tunnel's DNS comes back to the primary service *)
(* after every change, and yields to a LAN collision while that lasts.     *)
DnsFollowsNetwork == PromotionHolds /\ WithdrawnOnCollision
=============================================================================
