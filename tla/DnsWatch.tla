------------------------------ MODULE DnsWatch ------------------------------
(***************************************************************************)
(* Who notices that a helper died.  Three layers keep an eye on custody    *)
(* records (privileged/dns_watch.rs): an exit watch per live record while  *)
(* the daemon runs, a sentinel file that makes launchd run the daemon, and *)
(* a retry loop while restores fail.  The daemon leaves when it is idle    *)
(* and nothing makes it resident.                                          *)
(*                                                                         *)
(* Helpers write and delete their records without the daemon's lock, and   *)
(* create the sentinel themselves; only the daemon removes it.  What a     *)
(* record says and how a service is restored is the matter of DnsCustody:  *)
(* here a record exists or not, and its restore works or not.              *)
(***************************************************************************)
EXTENDS Naturals, FiniteSets, DnsPlan

CONSTANTS
  Tunnels,      \* stored connections with DNS
  None,         \* no tunnel
  LateRecords,  \* TRUE: a helper may promote DNS long after its connect
  MidSettle,    \* TRUE: the daemon may go in the middle of settle_locked
  MaxFaults,    \* failing restores, failing sweeps and deaths of the daemon
  MaxVisits     \* how many clients come to the daemon

ASSUME WatchAssumption ==
  /\ IsFiniteSet(Tunnels)
  /\ None \notin Tunnels
  /\ LateRecords \in BOOLEAN
  /\ MidSettle \in BOOLEAN
  /\ MaxFaults \in Nat
  /\ MaxVisits \in Nat

VARIABLES
  helper,    \* [Tunnels -> HelperPc]; "check" and "create": the record is on
             \* disk, the sentinel still has to be ensured
  record,    \* [Tunnels -> "none", "cur": by this helper, "old": by a dead one]
  dirty,     \* tunnels whose DNS may be on a service
  sentinel,  \* BOOLEAN: dns-custody/watch exists
  daemon,    \* BOOLEAN: the daemon process runs
  boot,      \* BOOLEAN: its startup sweep has not finished (background_work)
  client,    \* BOOLEAN: a client is connected
  watch,     \* tunnels whose helper process the daemon watches
  exits,     \* tunnels with an exit reported and not yet handled
  retry,     \* the retry loop: RetryPc
  op,        \* what holds the system network lock
  faults, visits

daemonVars == <<daemon, boot, client, watch, exits, retry, op>>
vars == <<helper, record, dirty, sentinel, daemonVars, faults, visits>>

HelperPc == {"down", "up", "check", "create"}
RetryPc  == {"off", "sleep", "sweep", "done"}
OpKind   == {"none", "boot", "exit", "retry", "connect"}
OpPc     == {"sweep", "spawn", "wait", "scan", "sentinel", "rescan", "end"}
Seen     == {"none", "watchable", "stale", "dead"}

NoneSeen == [t \in Tunnels |-> "none"]
NoOp == [kind |-> "none", tunnel |-> None, pc |-> "end", seen |-> NoneSeen,
         fresh |-> {}, restorable |-> FALSE]

Alive(t) == helper[t] # "down"

(* Every variable has its type; in particular only tunnels are watched.    *)
TypeOK ==
  /\ helper \in [Tunnels -> HelperPc]
  /\ record \in [Tunnels -> {"none", "cur", "old"}]
  /\ dirty \subseteq Tunnels
  /\ sentinel \in BOOLEAN /\ daemon \in BOOLEAN /\ boot \in BOOLEAN /\ client \in BOOLEAN
  /\ watch \subseteq Tunnels /\ exits \subseteq Tunnels
  /\ retry \in RetryPc
  /\ op \in [kind : OpKind, tunnel : Tunnels \cup {None}, pc : OpPc,
             seen : [Tunnels -> Seen], fresh : SUBSET Tunnels, restorable : BOOLEAN]
  /\ faults \in 0..MaxFaults
  /\ visits \in 0..MaxVisits

Init ==
  /\ helper = [t \in Tunnels |-> "down"]
  /\ record = [t \in Tunnels |-> "none"]
  /\ dirty = {}
  /\ sentinel = FALSE
  /\ daemon = FALSE /\ boot = FALSE /\ client = FALSE
  /\ watch = {} /\ exits = {}
  /\ retry = "off"
  /\ op = NoOp
  /\ faults = MaxFaults
  /\ visits = MaxVisits

Fault == faults > 0 /\ faults' = faults - 1

-----------------------------------------------------------------------------
(***************************************************************************)
(* The helper: persist_dns_custody.                                        *)
(***************************************************************************)

(* The connect that started t's helper is still waiting for it.            *)
Connecting(t) == op.kind = "connect" /\ op.tunnel = t /\ op.pc = "wait"

(* write_record: once while the tunnel is set up, later whenever what the  *)
(* helper owns changes.  A settle that has already scanned will find a     *)
(* record it has not seen.                                                 *)
WriteRecord(t) ==
  /\ helper[t] = "up"
  /\ IF Connecting(t) THEN record[t] # "cur" ELSE LateRecords
  /\ record' = [record EXCEPT ![t] = "cur"]
  /\ helper' = [helper EXCEPT ![t] = "check"]
  /\ op' = [op EXCEPT !.fresh = IF op.pc \in {"sentinel", "rescan"} THEN @ \cup {t} ELSE @]
  /\ UNCHANGED <<dirty, sentinel, daemon, boot, client, watch, exits, retry, faults, visits>>

(* ensure_watch_sentinel: look, then create.  Only when that is done does  *)
(* the helper write DNS.                                                   *)
CheckSentinel(t) ==
  /\ helper[t] = "check"
  /\ helper' = [helper EXCEPT ![t] = IF sentinel THEN "up" ELSE "create"]
  /\ dirty' = IF sentinel THEN dirty \cup {t} ELSE dirty
  /\ UNCHANGED <<record, sentinel, daemonVars, faults, visits>>

CreateSentinel(t) ==
  /\ helper[t] = "create"
  /\ sentinel' = TRUE
  /\ helper' = [helper EXCEPT ![t] = "up"]
  /\ dirty' = dirty \cup {t}
  /\ UNCHANGED <<record, daemonVars, faults, visits>>

(* Every service is restored: remove_record.  During a connect this is the *)
(* rollback of a failed setup, and the process exits.                      *)
RemoveRecord(t) ==
  /\ helper[t] = "up"
  /\ record[t] # "none"
  /\ record' = [record EXCEPT ![t] = "none"]
  /\ dirty' = dirty \ {t}
  /\ helper' = [helper EXCEPT ![t] = IF Connecting(t) THEN "down" ELSE "up"]
  /\ UNCHANGED <<sentinel, daemonVars, faults, visits>>

HelperExitsUnnoticed(t) ==                \* mutant: the exit event is lost
  /\ Alive(t)
  /\ helper' = [helper EXCEPT ![t] = "down"]
  /\ record' = [record EXCEPT ![t] = IF @ = "cur" THEN "old" ELSE @]
  /\ UNCHANGED <<dirty, sentinel, daemonVars, faults, visits>>

(* The process ends, cleanly or not: whatever it recorded now belongs to a *)
(* dead helper, and a watch on it fires (watch_loop).                      *)
HelperExits(t) ==
  /\ Alive(t)
  /\ helper' = [helper EXCEPT ![t] = "down"]
  /\ record' = [record EXCEPT ![t] = IF @ = "cur" THEN "old" ELSE @]
  /\ watch' = watch \ {t}
  /\ exits' = exits \cup (watch \cap {t})
  /\ UNCHANGED <<dirty, sentinel, daemon, boot, client, retry, op, faults, visits>>

-----------------------------------------------------------------------------
(***************************************************************************)
(* The daemon process (privileged/mod.rs, socket.rs) and launchd.          *)
(***************************************************************************)

(* launchd runs the daemon while the sentinel exists.  serve starts the    *)
(* startup sweep on a thread of its own.                                   *)
LaunchForSentinel ==
  /\ ~daemon /\ sentinel
  /\ daemon' = TRUE /\ boot' = TRUE
  /\ UNCHANGED <<helper, record, dirty, sentinel, client, watch, exits, retry, op, faults, visits>>

(* ... and when a client connects to its socket.                           *)
ClientComes ==
  /\ ~client
  /\ visits > 0 /\ visits' = visits - 1
  /\ client' = TRUE
  /\ daemon' = TRUE
  /\ boot' = (boot \/ ~daemon)
  /\ UNCHANGED <<helper, record, dirty, sentinel, watch, exits, retry, op, faults>>

(* Served, timed out, or hung up; a connect it asked for goes on.          *)
ClientLeaves ==
  /\ client
  /\ client' = FALSE
  /\ UNCHANGED <<helper, record, dirty, sentinel, daemon, boot, watch, exits, retry, op, faults, visits>>

DaemonGone ==
  /\ op.pc = "rescan" => MidSettle
  /\ daemon' = FALSE /\ boot' = FALSE /\ client' = FALSE
  /\ watch' = {} /\ exits' = {}
  /\ retry' = "off"
  /\ op' = NoOp

(* resident_count: watches, exits until they are handled, the retry loop.  *)
Resident == watch # {} \/ exits # {} \/ op.kind = "exit" \/ retry # "off"

(* serve returns.  A connect whose client hung up is counted nowhere and   *)
(* dies with the daemon.                                                   *)
IdleExit ==
  /\ daemon /\ ~client /\ ~boot /\ ~Resident
  /\ DaemonGone
  /\ UNCHANGED <<helper, record, dirty, sentinel, faults, visits>>

DaemonDies ==
  /\ daemon
  /\ Fault
  /\ DaemonGone
  /\ UNCHANGED <<helper, record, dirty, sentinel, visits>>

-----------------------------------------------------------------------------
(***************************************************************************)
(* Work under the system network lock: sweeps and connects.                *)
(***************************************************************************)
Begin(kind, t) ==
  /\ daemon
  /\ op.kind = "none"
  /\ op' = [NoOp EXCEPT !.kind = kind, !.tunnel = t, !.pc = "sweep"]

BeginBoot ==
  /\ boot
  /\ Begin("boot", None)
  /\ UNCHANGED <<helper, record, dirty, sentinel, daemon, boot, client, watch, exits, retry,
                 faults, visits>>

BeginExit(t) ==
  /\ t \in exits
  /\ Begin("exit", t)
  /\ exits' = exits \ {t}
  /\ UNCHANGED <<helper, record, dirty, sentinel, daemon, boot, client, watch, retry,
                 faults, visits>>

BeginRetry ==
  /\ retry = "sleep"
  /\ Begin("retry", None)
  /\ retry' = "sweep"
  /\ UNCHANGED <<helper, record, dirty, sentinel, daemon, boot, client, watch, exits, faults, visits>>

BeginConnect(t) ==
  /\ client
  /\ ~Alive(t)
  /\ Begin("connect", t)
  /\ UNCHANGED <<helper, record, dirty, sentinel, daemon, boot, client, watch, exits, retry,
                 faults, visits>>

Step(place) == op' = [op EXCEPT !.pc = place]

(* ensure_retry_loop, when wanted: RETRY_ACTIVE is set until the loop's    *)
(* thread clears it, also after its last sweep.                            *)
EnsureRetry(wanted) == IF wanted /\ retry = "off" THEN "sleep" ELSE retry

(* The lock is released and the caller goes on.                            *)
Finish(restorable, failed) ==
  /\ op' = NoOp
  /\ boot' = (boot /\ op.kind # "boot")
  /\ retry' = IF op.kind = "retry"
              THEN IF restorable \/ failed THEN "sleep" ELSE "done"
              ELSE EnsureRetry(restorable \/ (failed /\ op.kind = "exit"))

Scope == IF op.tunnel = None THEN Tunnels ELSE {op.tunnel}

AfterSweep == IF op.kind = "connect" THEN "spawn" ELSE "scan"

(* sweep_locked: the records of dead helpers go, except where the restore  *)
(* fails.                                                                  *)
Sweep ==
  /\ op.pc = "sweep"
  /\ LET dead == {t \in Scope : record[t] = "old" /\ ~Alive(t)}
     IN  \E failed \in SUBSET dead :
           /\ IF failed = {} THEN UNCHANGED faults ELSE Fault
           /\ record' = [t \in Tunnels |-> IF t \in dead \ failed THEN "none" ELSE record[t]]
           /\ dirty' = dirty \ (dead \ failed)
  /\ Step(AfterSweep)
  /\ UNCHANGED <<helper, sentinel, daemon, boot, client, watch, exits, retry, visits>>

(* It failed as a whole: run_sweep returns before it settles, a connect    *)
(* goes on.                                                                *)
SweepErrs ==
  /\ op.pc = "sweep"
  /\ Fault
  /\ IF op.kind = "connect"
     THEN Step("spawn") /\ UNCHANGED <<boot, retry>>
     ELSE Finish(FALSE, TRUE)
  /\ UNCHANGED <<helper, record, dirty, sentinel, daemon, client, watch, exits, visits>>

(* connect: create_sentinel_locked, then run_gotatun_up.                   *)
Spawn ==
  /\ op.pc = "spawn"
  /\ sentinel' = TRUE
  /\ helper' = [helper EXCEPT ![op.tunnel] = "up"]
  /\ Step("wait")
  /\ UNCHANGED <<record, dirty, daemon, boot, client, watch, exits, retry, faults, visits>>

(* The helper reported that it is up, or failed.                           *)
HelperReported ==
  /\ op.pc = "wait"
  /\ helper[op.tunnel] \in {"up", "down"}
  /\ Step("scan")
  /\ UNCHANGED <<helper, record, dirty, sentinel, daemon, boot, client, watch, exits, retry,
                 faults, visits>>

(* read_record_states: a record is live when somebody listens on the       *)
(* interface's socket, even if another process wrote it.                   *)
ScanRecords == [t \in Tunnels |->
  CASE record[t] = "none"              -> "none"
    [] record[t] = "cur"               -> "watchable"
    [] record[t] = "old" /\ Alive(t)   -> "stale"
    [] record[t] = "old" /\ ~Alive(t)  -> "dead"]

Scan ==
  /\ op.pc = "scan"
  /\ op' = [op EXCEPT !.pc = "sentinel", !.seen = ScanRecords, !.fresh = {}]
  /\ UNCHANGED <<helper, record, dirty, sentinel, daemon, boot, client, watch, exits, retry,
                 faults, visits>>

(* Every service of a record is taken to be listed.                        *)
StatusOf(seen) == {ClassifyRecord(seen[t] \in {"watchable", "stale"}, {t}, Tunnels) :
                     t \in {u \in Tunnels : seen[u] # "none"}}

(* classify_all: watch each live record's process; one that has already    *)
(* exited is handled as if its exit had just been reported.                *)
WatchLive(seen) ==
  LET running == {t \in Tunnels : seen[t] = "watchable" /\ Alive(t)}
      gone    == {t \in Tunnels : seen[t] = "stale" \/ (seen[t] = "watchable" /\ ~Alive(t))}
  IN  /\ watch' = watch \cup running
      /\ exits' = exits \cup gone

SettleKeepsSentinel ==                    \* mutant: the sentinel is never removed
  /\ op.pc = "sentinel"
  /\ sentinel' = (sentinel \/ SentinelWanted(StatusOf(op.seen)))
  /\ op' = [op EXCEPT !.pc = "end", !.restorable = "Restorable" \in StatusOf(op.seen)]
  /\ WatchLive(op.seen)
  /\ UNCHANGED <<helper, record, dirty, daemon, boot, client, retry, faults, visits>>

(* settle_locked, after the first scan: create or remove the sentinel.     *)
SettleSentinel ==
  /\ op.pc = "sentinel"
  /\ LET statuses == StatusOf(op.seen)
     IN  /\ sentinel' = SentinelWanted(statuses)
         /\ op' = [op EXCEPT !.pc = IF SentinelWanted(statuses) THEN "end" ELSE "rescan",
                             !.restorable = "Restorable" \in statuses]
  /\ WatchLive(op.seen)
  /\ UNCHANGED <<helper, record, dirty, daemon, boot, client, retry, faults, visits>>

(* After the removal: a record that appeared since the first scan brings   *)
(* the sentinel back.                                                      *)
RescanNothing ==                          \* mutant: no second look
  /\ op.pc = "rescan"
  /\ Step("end")
  /\ UNCHANGED <<helper, record, dirty, sentinel, daemon, boot, client, watch, exits, retry,
                 faults, visits>>

Rescan ==
  /\ op.pc = "rescan"
  /\ IF \E t \in op.fresh : record[t] # "none"
     THEN LET statuses == StatusOf(ScanRecords)
          IN  /\ sentinel' = (sentinel \/ SentinelWanted(statuses))
              /\ op' = [op EXCEPT !.pc = "end", !.restorable = "Restorable" \in statuses]
              /\ WatchLive(ScanRecords)
     ELSE Step("end") /\ UNCHANGED <<sentinel, watch, exits>>
  /\ UNCHANGED <<helper, record, dirty, daemon, boot, client, retry, faults, visits>>

Settled ==
  /\ op.kind # "none" /\ op.pc = "end"
  /\ Finish(op.restorable, FALSE)
  /\ UNCHANGED <<helper, record, dirty, sentinel, daemon, client, watch, exits, faults, visits>>

(* The retry thread clears RETRY_ACTIVE some time after its last sweep.    *)
RetryEnds ==
  /\ retry = "done"
  /\ retry' = "off"
  /\ UNCHANGED <<helper, record, dirty, sentinel, daemon, boot, client, watch, exits, op,
                 faults, visits>>

-----------------------------------------------------------------------------
Locked == Sweep \/ SweepErrs \/ Spawn \/ HelperReported \/ Scan \/ SettleSentinel
          \/ Rescan \/ Settled

Next ==
  \/ \E t \in Tunnels : \/ WriteRecord(t) \/ CheckSentinel(t) \/ CreateSentinel(t)
                        \/ RemoveRecord(t) \/ HelperExits(t)
                        \/ BeginExit(t) \/ BeginConnect(t)
  \/ LaunchForSentinel \/ ClientComes \/ ClientLeaves \/ IdleExit \/ DaemonDies
  \/ BeginBoot \/ BeginRetry \/ RetryEnds
  \/ Locked

Spec == Init /\ [][Next]_vars

(* launchd runs what it must, threads run, a client is dropped at its I/O  *)
(* deadline, an idle daemon leaves when its timeout expires, and whoever   *)
(* waits for the lock gets it (flock) if it is free again and again.       *)
Fairness ==
  /\ WF_vars(LaunchForSentinel) /\ WF_vars(ClientLeaves) /\ WF_vars(IdleExit)
  /\ WF_vars(Locked) /\ WF_vars(RetryEnds)
  /\ SF_vars(BeginBoot) /\ SF_vars(BeginRetry)
  /\ \A t \in Tunnels : /\ SF_vars(BeginExit(t))
                        /\ WF_vars(CheckSentinel(t)) /\ WF_vars(CreateSentinel(t))

FairSpec == Spec /\ Fairness

-----------------------------------------------------------------------------
(* The argument in settle_locked: with no settle under way, whenever a     *)
(* tunnel's DNS may be on a service the sentinel exists, so that launchd   *)
(* brings up a daemon to look after it, whatever dies next.                *)
DirtyHasSentinel == op.kind = "none" /\ dirty # {} => sentinel

(* issues/dns-crash-recovery.md, Goals: after a helper's death its DNS is  *)
(* taken back, without any user action.                                    *)
DeadHelperRecovered ==
  \A t \in Tunnels : (t \in dirty /\ ~Alive(t)) ~> (t \notin dirty \/ Alive(t))

(* dns_watch.rs, layer 1: a live record does not stay without an exit      *)
(* watch.                                                                  *)
LiveRecordWatched ==
  \A t \in Tunnels : record[t] = "cur" ~> (t \in watch \/ record[t] # "cur")

(* The sentinel does not keep the daemon around for ever: once no helper   *)
(* runs and no record is left, it goes.                                    *)
SentinelGoes ==
  (<>[](\A t \in Tunnels : ~Alive(t) /\ record[t] = "none")) => <>[]~sentinel

(* Types, and settle_locked's argument about the sentinel.                 *)
WatchInv == TypeOK /\ DirtyHasSentinel

(* dns_watch.rs: no live record stays without a watch, and no death without*)
(* a recovery: somebody always notices.                                    *)
DeathIsNoticed == DeadHelperRecovered /\ LiveRecordWatched
=============================================================================
