--------------------------- MODULE DnsWatch_proofs ---------------------------
(***************************************************************************)
(* Theorems about DnsWatch for any number of tunnels, clients and faults,  *)
(* when the daemon does not go between the removal of the sentinel and the *)
(* second look at the records.                                             *)
(***************************************************************************)
EXTENDS DnsWatch, TLAPS

(* A helper that ensures the sentinel has written its record, and DNS is   *)
(* on a service only under a record.                                       *)
RecordInv ==
  /\ \A t \in Tunnels : helper[t] \in {"check", "create"} => record[t] # "none"
  /\ \A t \in dirty : record[t] # "none"

(* A settle has seen every record that there is, or it is fresh; and when  *)
(* the sentinel was removed there was none.                                *)
ScanInv ==
  /\ op.kind = "none" => op.pc = "end"
  /\ op.pc \in {"sentinel", "rescan"} =>
       \A t \in Tunnels : record[t] # "none" => op.seen[t] # "none" \/ t \in op.fresh
  /\ op.pc = "rescan" => \A t \in Tunnels : op.seen[t] = "none"

(* Only between the removal and the second look may DNS be on a service    *)
(* without the sentinel.                                                   *)
SentinelInv == op.pc # "rescan" /\ dirty # {} => sentinel

SettleInv == TypeOK /\ RecordInv /\ ScanInv /\ SentinelInv


Op == [kind : OpKind, tunnel : Tunnels \cup {None}, pc : OpPc,
       seen : [Tunnels -> Seen], fresh : SUBSET Tunnels, restorable : BOOLEAN]

-----------------------------------------------------------------------------
(***************************************************************************)
(* The record of what holds the lock, and faults.                          *)
(***************************************************************************)
LEMMA NoOpType ==
  NoOp \in Op /\ NoOp.kind = "none" /\ NoOp.pc = "end" /\ NoOp.seen = NoneSeen /\ NoOp.fresh = {}
BY DEF NoOp, Op, NoneSeen, OpKind, OpPc, Seen

LEMMA StepMakes ==
  ASSUME op \in Op, NEW place \in OpPc, Step(place)
  PROVE  /\ op' \in Op /\ op'.pc = place /\ op'.kind = op.kind /\ op'.seen = op.seen
         /\ op'.fresh = op.fresh
BY DEF Step, Op

LEMMA BeginMakes ==
  ASSUME NEW kind \in OpKind \ {"none"}, NEW t \in Tunnels \cup {None}, Begin(kind, t)
  PROVE  op' \in Op /\ op'.kind = kind /\ op'.pc = "sweep"
BY NoOpType DEF Begin, Op, OpPc

LEMMA FaultType ==
  ASSUME faults \in 0..MaxFaults, Fault
  PROVE  faults' \in 0..MaxFaults
BY WatchAssumption DEF Fault

LEMMA FinishTypes ==
  ASSUME op \in Op, boot \in BOOLEAN, retry \in RetryPc, NEW restorable \in BOOLEAN, NEW failed \in BOOLEAN,
         Finish(restorable, failed)
  PROVE  op' = NoOp /\ boot' \in BOOLEAN /\ retry' \in RetryPc
BY DEF Finish, EnsureRetry, RetryPc

(* What a scan sees: something of every record.                            *)
LEMMA ScanType ==
  ASSUME TypeOK
  PROVE  /\ ScanRecords \in [Tunnels -> Seen]
         /\ \A t \in Tunnels : ScanRecords[t] = "none" <=> record[t] = "none"
<1> DEFINE S(t) == CASE record[t] = "none"              -> "none"
                     [] record[t] = "cur"               -> "watchable"
                     [] record[t] = "old" /\ Alive(t)   -> "stale"
                     [] record[t] = "old" /\ ~Alive(t)  -> "dead"
<1>1. ASSUME NEW t \in Tunnels
      PROVE  S(t) \in Seen /\ (S(t) = "none" <=> record[t] = "none")
  <2>1. record[t] \in {"none", "cur", "old"}
    BY DEF TypeOK
  <2>2. CASE record[t] = "none"
    BY <2>2 DEF Seen
  <2>3. CASE record[t] = "cur"
    BY <2>3 DEF Seen
  <2>4. CASE record[t] = "old" /\ Alive(t)
    BY <2>4 DEF Seen
  <2>5. CASE record[t] = "old" /\ ~Alive(t)
    BY <2>5 DEF Seen
  <2> QED BY <2>1, <2>2, <2>3, <2>4, <2>5
<1>2. ScanRecords = [t \in Tunnels |-> S(t)]
  BY DEF ScanRecords
<1> HIDE DEF S
<1> QED BY <1>1, <1>2

(* classify_all: whatever was seen wants the sentinel, and nothing else.   *)
LEMMA SeenWanted ==
  ASSUME NEW seen \in [Tunnels -> Seen]
  PROVE  SentinelWanted(StatusOf(seen)) <=> \E t \in Tunnels : seen[t] # "none"
<1>1. ASSUME NEW t \in Tunnels, seen[t] # "none" PROVE SentinelWanted(StatusOf(seen))
  <2> DEFINE live == seen[t] \in {"watchable", "stale"}
             status == ClassifyRecord(live, {t}, Tunnels)
  <2>1. status \in StatusOf(seen)
    BY <1>1 DEF StatusOf
  <2>2. status \in {"Live", "Restorable"}
    <3>1. {t} \cap Tunnels # {}
      OBVIOUS
    <3>2. CASE live
      BY <3>2 DEF ClassifyRecord
    <3>3. CASE ~live
      BY <3>1, <3>3 DEF ClassifyRecord
    <3> QED BY <3>2, <3>3
  <2> HIDE DEF status
  <2> QED BY <2>1, <2>2 DEF SentinelWanted
<1>2. ASSUME SentinelWanted(StatusOf(seen)) PROVE \E t \in Tunnels : seen[t] # "none"
  <2>1. PICK status : status \in StatusOf(seen)
    BY <1>2 DEF SentinelWanted
  <2> QED BY <2>1 DEF StatusOf
<1> QED BY <1>1, <1>2

LEMMA WatchLiveTypes ==
  ASSUME TypeOK, NEW seen \in [Tunnels -> Seen], WatchLive(seen)
  PROVE  watch' \subseteq Tunnels /\ exits' \subseteq Tunnels
BY DEF WatchLive, TypeOK

-----------------------------------------------------------------------------
(***************************************************************************)
(* Every step keeps SettleInv.                                             *)
(***************************************************************************)

(* A settle that is not under way is nobody's concern.                     *)
LEMMA OpElsewhere ==
  ASSUME SettleInv, TypeOK', UNCHANGED <<helper, record, dirty>>, sentinel => sentinel',
         op.pc # "rescan", op'.pc \notin {"sentinel", "rescan"},
         op'.kind = "none" => op'.pc = "end"
  PROVE  SettleInv'
BY DEF SettleInv, RecordInv, ScanInv, SentinelInv

(* Nothing but the processes around the lock.                              *)
LEMMA OpSame ==
  ASSUME SettleInv, TypeOK', UNCHANGED <<helper, record, dirty, sentinel, op>>
  PROVE  SettleInv'
BY DEF SettleInv, RecordInv, ScanInv, SentinelInv

LEMMA HelperKeeps ==
  ASSUME SettleInv, NEW t \in Tunnels,
         WriteRecord(t) \/ CheckSentinel(t) \/ CreateSentinel(t) \/ RemoveRecord(t) \/ HelperExits(t)
  PROVE  SettleInv'
<1>0. TypeOK /\ RecordInv /\ ScanInv /\ SentinelInv /\ op \in Op
  BY DEF SettleInv, TypeOK, Op
<1>1. CASE WriteRecord(t)
  <2> DEFINE fresh == IF op.pc \in {"sentinel", "rescan"} THEN op.fresh \cup {t} ELSE op.fresh
             k == [op EXCEPT !.fresh = fresh]
  <2>1. /\ helper[t] = "up" /\ record' = [record EXCEPT ![t] = "cur"]
        /\ helper' = [helper EXCEPT ![t] = "check"] /\ op' = k
        /\ UNCHANGED <<dirty, sentinel, daemon, boot, client, watch, exits, retry, faults, visits>>
    BY <1>1, Zenon DEF WriteRecord
  <2>2. fresh \subseteq Tunnels /\ op.fresh \subseteq fresh /\ (op.pc \in {"sentinel", "rescan"} => t \in fresh)
    BY <1>0 DEF Op
  <2> HIDE DEF fresh
  <2>3. k \in Op /\ k.pc = op.pc /\ k.kind = op.kind /\ k.seen = op.seen /\ k.fresh = fresh
    BY <1>0, <2>2 DEF Op
  <2> HIDE DEF k
  <2>4. TypeOK'
    BY <1>0, <2>1, <2>3 DEF TypeOK, Op, HelperPc
  <2>5. RecordInv'
    BY <1>0, <2>1 DEF RecordInv, TypeOK
  <2>6. ScanInv'
    BY <1>0, <2>1, <2>2, <2>3 DEF ScanInv, TypeOK
  <2>7. SentinelInv'
    BY <1>0, <2>1, <2>3 DEF SentinelInv
  <2> QED BY <2>4, <2>5, <2>6, <2>7 DEF SettleInv
<1>2. CASE CheckSentinel(t)
  <2>1. /\ helper[t] = "check" /\ UNCHANGED <<record, sentinel, daemonVars, faults, visits>>
        /\ helper' = [helper EXCEPT ![t] = IF sentinel THEN "up" ELSE "create"]
        /\ dirty' = IF sentinel THEN dirty \cup {t} ELSE dirty
    BY <1>2, Zenon DEF CheckSentinel
  <2>2. TypeOK'
    BY <1>0, <2>1 DEF TypeOK, HelperPc, daemonVars
  <2>3. RecordInv' /\ ScanInv' /\ SentinelInv'
    BY <1>0, <2>1 DEF RecordInv, ScanInv, SentinelInv, TypeOK, daemonVars
  <2> QED BY <2>2, <2>3 DEF SettleInv
<1>3. CASE CreateSentinel(t)
  <2>1. /\ helper[t] = "create" /\ UNCHANGED <<record, daemonVars, faults, visits>> /\ sentinel' = TRUE
        /\ helper' = [helper EXCEPT ![t] = "up"] /\ dirty' = dirty \cup {t}
    BY <1>3, Zenon DEF CreateSentinel
  <2>2. TypeOK'
    BY <1>0, <2>1 DEF TypeOK, HelperPc, daemonVars
  <2>3. RecordInv' /\ ScanInv' /\ SentinelInv'
    BY <1>0, <2>1 DEF RecordInv, ScanInv, SentinelInv, TypeOK, daemonVars
  <2> QED BY <2>2, <2>3 DEF SettleInv
<1>4. CASE RemoveRecord(t)
  <2>1. /\ helper[t] = "up" /\ UNCHANGED <<sentinel, daemonVars, faults, visits>>
        /\ record' = [record EXCEPT ![t] = "none"] /\ dirty' = dirty \ {t}
        /\ helper' = [helper EXCEPT ![t] = IF Connecting(t) THEN "down" ELSE "up"]
    BY <1>4, Zenon DEF RemoveRecord
  <2>2. TypeOK'
    BY <1>0, <2>1 DEF TypeOK, HelperPc, daemonVars
  <2>3. RecordInv' /\ ScanInv' /\ SentinelInv'
    BY <1>0, <2>1 DEF RecordInv, ScanInv, SentinelInv, TypeOK, daemonVars
  <2> QED BY <2>2, <2>3 DEF SettleInv
<1>5. CASE HelperExits(t)
  <2>1. /\ UNCHANGED <<dirty, sentinel, daemon, boot, client, retry, op, faults, visits>>
        /\ record' = [record EXCEPT ![t] = IF @ = "cur" THEN "old" ELSE @]
        /\ watch' = watch \ {t} /\ exits' = exits \cup (watch \cap {t})
        /\ helper' = [helper EXCEPT ![t] = "down"]
    BY <1>5, Zenon DEF HelperExits
  <2>2. TypeOK'
    BY <1>0, <2>1 DEF TypeOK, HelperPc
  <2>3. RecordInv' /\ ScanInv' /\ SentinelInv'
    BY <1>0, <2>1 DEF RecordInv, ScanInv, SentinelInv, TypeOK
  <2> QED BY <2>2, <2>3 DEF SettleInv
<1> QED BY <1>1, <1>2, <1>3, <1>4, <1>5

(* launchd, clients, and the end of the daemon.                            *)
LEMMA DaemonKeeps ==
  ASSUME SettleInv, MidSettle = FALSE,
         LaunchForSentinel \/ ClientComes \/ ClientLeaves \/ IdleExit \/ DaemonDies \/ RetryEnds
  PROVE  SettleInv'
<1>0. TypeOK /\ RecordInv /\ ScanInv /\ SentinelInv
  BY DEF SettleInv
<1>1. CASE LaunchForSentinel \/ ClientLeaves \/ RetryEnds
  <2>1. TypeOK' /\ UNCHANGED <<helper, record, dirty, sentinel, op>>
    BY <1>0, <1>1 DEF LaunchForSentinel, ClientLeaves, RetryEnds, TypeOK, RetryPc
  <2> QED BY <2>1, OpSame
<1>2. CASE ClientComes
  <2>1. /\ UNCHANGED <<helper, record, dirty, sentinel, watch, exits, retry, op, faults>>
        /\ daemon' = TRUE /\ client' = TRUE /\ boot' \in BOOLEAN /\ visits' \in 0..MaxVisits
    <3>1. visits \in 0..MaxVisits /\ MaxVisits \in Nat
      BY <1>0, WatchAssumption DEF TypeOK
    <3> QED BY <1>2, <3>1 DEF ClientComes
  <2>2. TypeOK' /\ UNCHANGED <<helper, record, dirty, sentinel, op>>
    BY <1>0, <2>1 DEF TypeOK
  <2> QED BY <2>2, OpSame
<1>3. CASE IdleExit \/ DaemonDies
  <2>1. DaemonGone /\ UNCHANGED <<helper, record, dirty, sentinel, visits>> /\ (faults' = faults \/ Fault)
    BY <1>3, Zenon DEF IdleExit, DaemonDies
  <2>2. op.pc # "rescan" /\ op' = NoOp
    BY <2>1 DEF DaemonGone
  <2>3. faults' \in 0..MaxFaults
    BY <1>0, <2>1, FaultType DEF TypeOK
  <2>4. TypeOK'
    BY <1>0, <2>1, <2>3, NoOpType DEF TypeOK, DaemonGone, RetryPc, Op
  <2> QED BY <2>1, <2>2, <2>4, NoOpType, OpElsewhere
<1> QED BY <1>1, <1>2, <1>3

LEMMA BeginKeeps ==
  ASSUME SettleInv, BeginBoot \/ BeginRetry \/ \E t \in Tunnels : BeginExit(t) \/ BeginConnect(t)
  PROVE  SettleInv'
<1>0. TypeOK /\ RecordInv /\ ScanInv /\ SentinelInv
  BY DEF SettleInv
<1>1. /\ UNCHANGED <<helper, record, dirty, sentinel, daemon, boot, client, watch, faults, visits>>
      /\ exits' \subseteq Tunnels /\ retry' \in RetryPc
      /\ \E kind \in OpKind \ {"none"}, u \in Tunnels \cup {None} : Begin(kind, u)
  BY <1>0 DEF BeginBoot, BeginRetry, BeginExit, BeginConnect, TypeOK, RetryPc, OpKind
<1>2. op.kind = "none" /\ op' \in Op /\ op'.kind # "none" /\ op'.pc = "sweep"
  BY <1>1, BeginMakes DEF Begin
<1>3. TypeOK'
  BY <1>0, <1>1, <1>2 DEF TypeOK, Op
<1>4. op.pc # "rescan"
  BY <1>0, <1>2 DEF ScanInv
<1> QED BY <1>1, <1>2, <1>3, <1>4, OpElsewhere

(* The lock: a sweep or a connect, up to the first scan.                   *)
LEMMA SweepKeeps ==
  ASSUME SettleInv, Sweep \/ SweepErrs \/ Spawn \/ HelperReported \/ Settled
  PROVE  SettleInv'
<1>0. TypeOK /\ RecordInv /\ ScanInv /\ SentinelInv /\ op \in Op
  BY DEF SettleInv, TypeOK, Op
<1>p. {"sweep", "spawn", "wait", "scan", "end"} \subseteq OpPc
  BY DEF OpPc
<1>1. CASE Sweep
  <2> DEFINE dead == {t \in Scope : record[t] = "old" /\ ~Alive(t)}
  <2>1. PICK failed \in SUBSET dead :
          /\ IF failed = {} THEN UNCHANGED faults ELSE Fault
          /\ record' = [t \in Tunnels |-> IF t \in dead \ failed THEN "none" ELSE record[t]]
          /\ dirty' = dirty \ (dead \ failed)
    BY <1>1, Zenon DEF Sweep
  <2>2. /\ op.pc = "sweep" /\ Step(AfterSweep)
        /\ UNCHANGED <<helper, sentinel, daemon, boot, client, watch, exits, retry, visits>>
    BY <1>1, Zenon DEF Sweep
  <2>3. AfterSweep \in {"spawn", "scan"}
    BY DEF AfterSweep
  <2>4. op' \in Op /\ op'.pc = AfterSweep /\ op'.kind = op.kind
    BY <1>0, <1>p, <2>2, <2>3, StepMakes
  <2>5. faults' \in 0..MaxFaults
    BY <1>0, <2>1, FaultType DEF TypeOK
  <2>6. \A t \in dead : helper[t] = "down"
    BY DEF Alive
  <2> HIDE DEF dead
  <2>7. TypeOK'
    BY <1>0, <2>1, <2>2, <2>4, <2>5 DEF TypeOK, Op
  <2>8. RecordInv'
    BY <1>0, <2>1, <2>2, <2>6 DEF RecordInv, TypeOK
  <2>9. ScanInv' /\ SentinelInv'
    BY <1>0, <2>1, <2>2, <2>3, <2>4 DEF ScanInv, SentinelInv
  <2> QED BY <2>7, <2>8, <2>9 DEF SettleInv
<1>2. CASE SweepErrs
  <2>1. /\ op.pc = "sweep" /\ Fault
        /\ UNCHANGED <<helper, record, dirty, sentinel, daemon, client, watch, exits, visits>>
        /\ (Step("spawn") /\ UNCHANGED <<boot, retry>>) \/ Finish(FALSE, TRUE)
    BY <1>2, Zenon DEF SweepErrs
  <2>2. faults' \in 0..MaxFaults
    BY <1>0, <2>1, FaultType DEF TypeOK
  <2>3. CASE Step("spawn") /\ UNCHANGED <<boot, retry>>
    <3>1. op' \in Op /\ op'.pc = "spawn" /\ op'.kind = op.kind
      BY <1>0, <1>p, <2>3, StepMakes
    <3>2. TypeOK'
      BY <1>0, <2>1, <2>2, <2>3, <3>1 DEF TypeOK, Op
    <3> QED BY <1>0, <2>1, <3>1, <3>2, OpElsewhere DEF ScanInv
  <2>4. CASE Finish(FALSE, TRUE)
    <3>1. op' = NoOp /\ boot' \in BOOLEAN /\ retry' \in RetryPc
      BY <1>0, <2>4, FinishTypes DEF TypeOK
    <3>2. TypeOK'
      BY <1>0, <2>1, <2>2, <3>1, NoOpType DEF TypeOK, Op
    <3> QED BY <2>1, <3>1, <3>2, NoOpType, OpElsewhere
  <2> QED BY <2>1, <2>3, <2>4
<1>3. CASE Spawn
  <2>1. /\ op.pc = "spawn" /\ sentinel' = TRUE /\ helper' = [helper EXCEPT ![op.tunnel] = "up"] /\ Step("wait")
        /\ UNCHANGED <<record, dirty, daemon, boot, client, watch, exits, retry, faults, visits>>
    BY <1>3, Zenon DEF Spawn
  <2>2. op' \in Op /\ op'.pc = "wait" /\ op'.kind = op.kind
    BY <1>0, <1>p, <2>1, StepMakes
  <2>3. TypeOK'
    BY <1>0, <2>1, <2>2 DEF TypeOK, Op, HelperPc
  <2>4. RecordInv' /\ ScanInv' /\ SentinelInv'
    BY <1>0, <2>1, <2>2 DEF RecordInv, ScanInv, SentinelInv, TypeOK
  <2> QED BY <2>3, <2>4 DEF SettleInv
<1>4. CASE HelperReported
  <2>1. /\ op.pc = "wait" /\ Step("scan")
        /\ UNCHANGED <<helper, record, dirty, sentinel, daemon, boot, client, watch, exits, retry, faults, visits>>
    BY <1>4, Zenon DEF HelperReported
  <2>2. op' \in Op /\ op'.pc = "scan" /\ op'.kind = op.kind
    BY <1>0, <1>p, <2>1, StepMakes
  <2>3. TypeOK'
    BY <1>0, <2>1, <2>2 DEF TypeOK, Op
  <2> QED BY <1>0, <2>1, <2>2, <2>3, OpElsewhere DEF ScanInv
<1>5. CASE Settled
  <2>1. /\ op.pc = "end" /\ Finish(op.restorable, FALSE)
        /\ UNCHANGED <<helper, record, dirty, sentinel, daemon, client, watch, exits, faults, visits>>
    BY <1>5, Zenon DEF Settled
  <2>2. op.restorable \in BOOLEAN
    BY <1>0 DEF Op
  <2>3. op' = NoOp /\ boot' \in BOOLEAN /\ retry' \in RetryPc
    BY <1>0, <2>1, <2>2, FinishTypes DEF TypeOK
  <2>4. TypeOK'
    BY <1>0, <2>1, <2>3, NoOpType DEF TypeOK, Op
  <2> QED BY <2>1, <2>3, <2>4, NoOpType, OpElsewhere
<1> QED BY <1>1, <1>2, <1>3, <1>4, <1>5

(* settle_locked: the scan, the sentinel, and the second look.             *)
LEMMA SettleKeeps ==
  ASSUME SettleInv, Scan \/ SettleSentinel \/ Rescan
  PROVE  SettleInv'
<1>0. TypeOK /\ RecordInv /\ ScanInv /\ SentinelInv /\ op \in Op
  BY DEF SettleInv, TypeOK, Op
<1>1. CASE Scan
  <2> DEFINE k == [op EXCEPT !.pc = "sentinel", !.seen = ScanRecords, !.fresh = {}]
  <2>1. /\ op.pc = "scan" /\ op' = k
        /\ UNCHANGED <<helper, record, dirty, sentinel, daemon, boot, client, watch, exits, retry, faults, visits>>
    BY <1>1, Zenon DEF Scan
  <2>2. k \in Op /\ k.pc = "sentinel" /\ k.seen = ScanRecords /\ k.kind = op.kind
    BY <1>0, ScanType DEF Op, OpPc
  <2> HIDE DEF k
  <2>3. TypeOK'
    BY <1>0, <2>1, <2>2 DEF TypeOK, Op
  <2>4. RecordInv' /\ SentinelInv'
    BY <1>0, <2>1, <2>2 DEF RecordInv, SentinelInv
  <2>5. ScanInv'
    BY <1>0, <2>1, <2>2, ScanType DEF ScanInv
  <2> QED BY <2>3, <2>4, <2>5 DEF SettleInv
<1>2. CASE SettleSentinel
  <2> DEFINE wanted == SentinelWanted(StatusOf(op.seen))
             restorable == "Restorable" \in StatusOf(op.seen)
             k == [op EXCEPT !.pc = IF wanted THEN "end" ELSE "rescan", !.restorable = restorable]
  <2>1. /\ op.pc = "sentinel" /\ sentinel' = wanted /\ op' = k /\ WatchLive(op.seen)
        /\ UNCHANGED <<helper, record, dirty, daemon, boot, client, retry, faults, visits>>
    BY <1>2, Zenon DEF SettleSentinel
  <2>2. op.seen \in [Tunnels -> Seen] /\ wanted \in BOOLEAN /\ restorable \in BOOLEAN
    BY <1>0 DEF Op, SentinelWanted
  <2>3. wanted <=> \E t \in Tunnels : op.seen[t] # "none"
    BY <2>2, SeenWanted
  <2>4. watch' \subseteq Tunnels /\ exits' \subseteq Tunnels
    BY <1>0, <2>1, <2>2, WatchLiveTypes
  <2> HIDE DEF wanted, restorable
  <2>5. /\ k \in Op /\ k.pc = (IF wanted THEN "end" ELSE "rescan") /\ k.kind = op.kind
        /\ k.seen = op.seen /\ k.fresh = op.fresh
    BY <1>0, <2>2 DEF Op, OpPc
  <2> HIDE DEF k
  <2>6. TypeOK'
    BY <1>0, <2>1, <2>2, <2>4, <2>5 DEF TypeOK, Op
  <2>7. RecordInv'
    BY <1>0, <2>1 DEF RecordInv
  <2>8. ScanInv'
    BY <1>0, <2>1, <2>3, <2>5 DEF ScanInv
  <2>9. SentinelInv'
    BY <2>1, <2>5 DEF SentinelInv
  <2> QED BY <2>6, <2>7, <2>8, <2>9 DEF SettleInv
<1>3. CASE Rescan
  <2>1. op.pc = "rescan" /\ UNCHANGED <<helper, record, dirty, daemon, boot, client, retry, faults, visits>>
    BY <1>3, Zenon DEF Rescan
  <2>2. CASE \E t \in op.fresh : record[t] # "none"
    <3> DEFINE wanted == SentinelWanted(StatusOf(ScanRecords))
               restorable == "Restorable" \in StatusOf(ScanRecords)
               k == [op EXCEPT !.pc = "end", !.restorable = restorable]
    <3>1. sentinel' = (sentinel \/ wanted) /\ op' = k /\ WatchLive(ScanRecords)
      BY <1>3, <2>2, Zenon DEF Rescan
    <3>2. wanted
      <4>1. op.fresh \subseteq Tunnels
        BY <1>0 DEF Op
      <4>2. \E t \in Tunnels : ScanRecords[t] # "none"
        BY <1>0, <2>2, <4>1, ScanType
      <4> QED BY <1>0, <4>2, ScanType, SeenWanted
    <3>3. watch' \subseteq Tunnels /\ exits' \subseteq Tunnels
      BY <1>0, <3>1, ScanType, WatchLiveTypes
    <3>4. restorable \in BOOLEAN
      OBVIOUS
    <3> HIDE DEF wanted, restorable
    <3>5. k \in Op /\ k.pc = "end"
      BY <1>0, <3>4 DEF Op, OpPc
    <3> HIDE DEF k
    <3>6. sentinel'
      BY <3>1, <3>2
    <3>7. sentinel' \in BOOLEAN
      BY <3>1, <3>2
    <3>8. TypeOK'
      BY <1>0, <2>1, <3>1, <3>3, <3>5, <3>7 DEF TypeOK, Op
    <3>9. RecordInv' /\ ScanInv' /\ SentinelInv'
      BY <1>0, <2>1, <3>1, <3>5, <3>6 DEF RecordInv, ScanInv, SentinelInv
    <3> QED BY <3>8, <3>9 DEF SettleInv
  <2>3. CASE ~\E t \in op.fresh : record[t] # "none"
    <3>1. Step("end") /\ UNCHANGED <<sentinel, watch, exits>>
      BY <1>3, <2>3, Zenon DEF Rescan
    <3>2. op' \in Op /\ op'.pc = "end"
      BY <1>0, <3>1, StepMakes DEF OpPc
    <3>3. dirty = {}
      BY <1>0, <2>1, <2>3 DEF ScanInv, RecordInv, TypeOK
    <3>4. TypeOK'
      BY <1>0, <2>1, <3>1, <3>2 DEF TypeOK, Op
    <3>5. RecordInv' /\ ScanInv' /\ SentinelInv'
      BY <1>0, <2>1, <3>2, <3>3 DEF RecordInv, ScanInv, SentinelInv
    <3> QED BY <3>4, <3>5 DEF SettleInv
  <2> QED BY <2>2, <2>3
<1> QED BY <1>1, <1>2, <1>3

LEMMA SettleStep ==
  ASSUME MidSettle = FALSE, SettleInv, [Next]_vars
  PROVE  SettleInv'
<1>1. CASE UNCHANGED vars
  <2>1. TypeOK' /\ UNCHANGED <<helper, record, dirty, sentinel, op>>
    BY <1>1 DEF SettleInv, TypeOK, vars, daemonVars
  <2> QED BY <2>1, OpSame
<1>2. CASE Locked
  BY <1>2, SweepKeeps, SettleKeeps, Zenon DEF Locked
<1>3. CASE Next
  BY <1>2, <1>3, HelperKeeps, DaemonKeeps, BeginKeeps, Zenon DEF Next
<1> QED BY <1>1, <1>3

(* settle_locked: with no settle under way, whenever a tunnel's DNS may be *)
(* on a service the sentinel exists, so that launchd brings up a daemon to *)
(* look after it: for any tunnels, clients and faults, if the daemon does  *)
(* not go between the removal of the sentinel and the second look.  If it  *)
(* does, DNS may be on a service without the sentinel.                     *)
THEOREM SentinelGuardsDirt ==
  ASSUME MidSettle = FALSE
  PROVE  Spec => []WatchInv
<1>1. Init => SettleInv
  <2> SUFFICES ASSUME Init PROVE SettleInv
    OBVIOUS
  <2>1. MaxFaults \in 0..MaxFaults /\ MaxVisits \in 0..MaxVisits
    BY WatchAssumption
  <2>2. TypeOK
    BY <2>1, NoOpType DEF Init, TypeOK, HelperPc, RetryPc, Op
  <2>3. RecordInv /\ ScanInv /\ SentinelInv
    BY NoOpType DEF Init, RecordInv, ScanInv, SentinelInv
  <2> QED BY <2>2, <2>3 DEF SettleInv
<1>2. SettleInv /\ [Next]_vars => SettleInv'
  BY SettleStep
<1>3. SettleInv => WatchInv
  BY DEF SettleInv, ScanInv, SentinelInv, WatchInv, DirtyHasSentinel
<1> QED BY <1>1, <1>2, <1>3, PTL DEF Spec
=============================================================================
