---------------------------- MODULE Connections ----------------------------
(***************************************************************************)
(* The connection store and the operations on it                           *)
(* (privileged/dispatch.rs, connection_store.rs, connection_ops.rs).       *)
(*                                                                         *)
(* The accept thread serves Add, Remove and SetMode one at a time; Connect,*)
(* Disconnect, Reconnect and Refresh run on worker threads; boot           *)
(* reconciliation and the clearing of dead helpers run on threads of their *)
(* own.  They meet at file locks: the index lock, a lock per connection    *)
(* and the system network lock, each with a timeout, in this order.        *)
(* Records, active markers and a helper's runtime files outlive the        *)
(* daemon, which may be gone at any point; its locks go with it.           *)
(*                                                                         *)
(* All records are in one namespace (global or one owner); a request that  *)
(* is refused for lack of rights changes nothing and is left out.          *)
(***************************************************************************)
EXTENDS Naturals, FiniteSets

CONSTANTS
  Ids,        \* connection ids, never used twice
  Configs,    \* parsed configurations, told apart by their fingerprint
  Names,      \* connection names
  Workers,    \* worker threads
  None,       \* no connection, no configuration, no name, no thread
  Requests,   \* what clients ask for, from AllRequests
  Events,     \* what else happens, from AllEvents
  MaxFaults   \* failing hooks, helpers and writes

(* "auto" is a ConnectConnection with ConnectReason::Reconciliation,       *)
(* "teardown" a DisconnectConnection with DisconnectReason::SessionTeardown*)
(* "add" an AddConnection while nothing is stored, "readd" any other, and  *)
(* "force" one that may take a name in use.                                *)
AllRequests == {"connect", "auto", "disconnect", "teardown", "reconnect", "refresh",
                "add", "readd", "force", "remove", "mode"}

(* A helper is killed or exits by itself; a sweep finds a dead helper; the *)
(* daemon goes; the machine restarts.                                      *)
AllEvents == {"kill", "exit", "sweep", "daemon", "reboot"}

ASSUME ConnectionsAssumption ==
  /\ IsFiniteSet(Ids) /\ IsFiniteSet(Workers)
  /\ None \notin Ids \cup Configs \cup Names \cup Workers \cup {"accept", "boot"}
  /\ Requests \subseteq AllRequests
  /\ Events \subseteq AllEvents
  /\ MaxFaults \in Nat
  /\ Workers \cap {"accept", "boot"} = {}

Actors == Workers \cup {"accept", "boot"}

VARIABLES
  store,       \* [Ids -> Record]: connections/<id>.json
  active,      \* [Ids -> configuration or None]: active/<id>.json
  adopted,     \* [Ids -> BOOLEAN]: the marker names the socket that is there now
  runs,        \* [Ids -> configuration the helper process runs, or None]
  socket,      \* [Ids -> BOOLEAN]: the control socket's file exists
  left,        \* [Ids -> runtime files: none, a pid file, or a cleanup status]
  indexLock,   \* the actor that holds it, or None
  connLock,    \* [Ids -> actor or None]
  op,          \* [Actors -> what the thread is doing]
  boot,        \* the pass of boot reconciliation
  reconciled,  \* BOOLEAN: boot-reconcile.marker is this boot's
  faults,
  stay         \* history: [Ids -> BOOLEAN] the user's last word was "disconnect"

lockVars == <<indexLock, connLock>>
fileVars == <<active, adopted, runs, socket, left>>
vars == <<store, fileVars, lockVars, op, boot, reconciled, faults, stay>>

Record == [state : {"unused", "stored", "removed"}, config : Configs \cup {None},
           name : Names \cup {None}, auto : BOOLEAN, down : BOOLEAN]
NoRecord == [state |-> "unused", config |-> None, name |-> None, auto |-> FALSE,
             down |-> FALSE]

WorkerKinds == {"connect", "auto", "disconnect", "teardown", "reconnect", "refresh"}
Kinds == WorkerKinds \cup {"none", "add", "remove", "mode", "boot", "clear", "rollback"}
Places == {"idle", "index", "add", "lock", "locked", "connect", "up", "post",
           "down", "wait", "write"}

Op == [kind : Kinds, id : Ids \cup {None}, pc : Places, config : Configs \cup {None},
       name : Names \cup {None}, auto : BOOLEAN, force : BOOLEAN, copy : Record,
       wasUp : BOOLEAN]
NoOp == [kind |-> "none", id |-> None, pc |-> "idle", config |-> None, name |-> None,
         auto |-> FALSE, force |-> FALSE, copy |-> NoRecord, wasUp |-> FALSE]

NewBoot == [pc |-> "start", todo |-> {}, ok |-> TRUE]

(* Every variable has its type.                                            *)
TypeOK ==
  /\ store \in [Ids -> Record]
  /\ active \in [Ids -> Configs \cup {None}]
  /\ adopted \in [Ids -> BOOLEAN]
  /\ runs \in [Ids -> Configs \cup {None}]
  /\ socket \in [Ids -> BOOLEAN]
  /\ left \in [Ids -> {"none", "pid", "ok", "failed"}]
  /\ indexLock \in Actors \cup {None}
  /\ connLock \in [Ids -> Actors \cup {None}]
  /\ op \in [Actors -> Op]
  /\ boot \in [pc : {"start", "run", "done"}, todo : SUBSET Ids, ok : BOOLEAN]
  /\ reconciled \in BOOLEAN
  /\ faults \in 0..MaxFaults
  /\ stay \in [Ids -> BOOLEAN]

Init ==
  /\ store = [i \in Ids |-> NoRecord]
  /\ active = [i \in Ids |-> None]
  /\ adopted = [i \in Ids |-> FALSE]
  /\ runs = [i \in Ids |-> None]
  /\ socket = [i \in Ids |-> FALSE]
  /\ left = [i \in Ids |-> "none"]
  /\ indexLock = None
  /\ connLock = [i \in Ids |-> None]
  /\ op = [a \in Actors |-> NoOp]
  /\ boot = NewBoot
  /\ reconciled = FALSE
  /\ faults = MaxFaults
  /\ stay = [i \in Ids |-> FALSE]

-----------------------------------------------------------------------------
Fault == faults > 0 /\ faults' = faults - 1

Stored(i) == store[i].state = "stored"

(* find_by_identity, find_by_name: load_all_strict under the index lock.   *)
WithConfig(c) == {i \in Ids : Stored(i) /\ store[i].config = c}
WithName(n)   == {i \in Ids : Stored(i) /\ n # None /\ store[i].name = n}

(* is_active, active_debug: a marker, and the socket's file exists.        *)
IsActive(i) == active[i] # None /\ socket[i]

(* helper_is_live: somebody accepts on the socket.                         *)
HelperIsLive(i) == runs[i] # None /\ socket[i]

(* The system network lock is held by whoever waits for a helper to end.   *)
NetworkFree == \A a \in Actors : op[a].pc # "wait"

Goto(a, place) == /\ op' = [op EXCEPT ![a].pc = place]
                  /\ UNCHANGED <<lockVars, boot>>

(* The thread is done and drops its locks; boot reconciliation takes note  *)
(* of the result.                                                          *)
Finish(a, ok) ==
  /\ op' = [op EXCEPT ![a] = NoOp]
  /\ indexLock' = IF indexLock = a THEN None ELSE indexLock
  /\ connLock' = [i \in Ids |-> IF connLock[i] = a THEN None ELSE connLock[i]]
  /\ boot' = IF a = "boot" THEN [boot EXCEPT !.ok = @ /\ ok] ELSE boot

-----------------------------------------------------------------------------
(***************************************************************************)
(* Requests arrive.                                                        *)
(***************************************************************************)

(* handle_connect_connection and its like: the record is looked up on the  *)
(* accept thread, the work goes to a worker.                               *)
Ask(w, kind, i) ==
  /\ kind \in Requests \cap WorkerKinds
  /\ op[w].pc = "idle"
  /\ Stored(i)
  /\ \E c \in IF kind = "refresh" THEN Configs ELSE {None} :
       op' = [op EXCEPT ![w] = [NoOp EXCEPT !.kind = kind, !.id = i, !.config = c,
                                  !.pc = IF kind = "refresh" THEN "index" ELSE "lock"]]
  /\ UNCHANGED <<store, fileVars, lockVars, boot, reconciled, faults, stay>>

AskAdd ==
  /\ "add" \in Requests
  /\ op["accept"].pc = "idle"
  /\ "readd" \in Requests \/ \A i \in Ids : ~Stored(i)
  /\ \E c \in Configs, n \in Names \cup {None}, auto \in BOOLEAN, force \in BOOLEAN :
       /\ force => "force" \in Requests
       /\ op' = [op EXCEPT !["accept"] = [NoOp EXCEPT !.kind = "add", !.pc = "index",
                   !.config = c, !.name = n, !.auto = auto, !.force = force]]
  /\ UNCHANGED <<store, fileVars, lockVars, boot, reconciled, faults, stay>>

AskRemove(i) ==
  /\ "remove" \in Requests
  /\ op["accept"].pc = "idle"
  /\ Stored(i)
  /\ op' = [op EXCEPT !["accept"] = [NoOp EXCEPT !.kind = "remove", !.id = i, !.pc = "index"]]
  /\ UNCHANGED <<store, fileVars, lockVars, boot, reconciled, faults, stay>>

AskMode(i) ==
  /\ "mode" \in Requests
  /\ op["accept"].pc = "idle"
  /\ Stored(i)
  /\ \E auto \in BOOLEAN :
       op' = [op EXCEPT !["accept"] = [NoOp EXCEPT !.kind = "mode", !.id = i,
                                         !.auto = auto, !.pc = "lock"]]
  /\ UNCHANGED <<store, fileVars, lockVars, boot, reconciled, faults, stay>>

-----------------------------------------------------------------------------
(***************************************************************************)
(* Locks.                                                                  *)
(***************************************************************************)
TakeIndex(a) ==
  /\ op[a].pc = "index"
  /\ indexLock = None
  /\ indexLock' = a
  /\ op' = [op EXCEPT ![a].pc = IF op[a].kind = "add" THEN "add" ELSE "lock"]
  /\ UNCHANGED <<store, fileVars, connLock, boot, reconciled, faults, stay>>

TakeLockFirst(a) ==                        \* mutant: a refresh locks the connection first
  /\ op[a].pc = "lock" \/ (op[a].pc = "index" /\ op[a].kind = "refresh")
  /\ connLock[op[a].id] = None
  /\ connLock' = [connLock EXCEPT ![op[a].id] = a]
  /\ op' = [op EXCEPT ![a].pc = IF @ = "lock" THEN "locked" ELSE "index"]
  /\ UNCHANGED <<store, fileVars, indexLock, boot, reconciled, faults, stay>>

TakeLock(a) ==
  /\ op[a].pc = "lock"
  /\ connLock[op[a].id] = None
  /\ connLock' = [connLock EXCEPT ![op[a].id] = a]
  /\ op' = [op EXCEPT ![a].pc = "locked"]
  /\ UNCHANGED <<store, fileVars, indexLock, boot, reconciled, faults, stay>>

(* lock_with_timeout gives up.                                             *)
LockTimesOut(a) ==
  /\ \/ op[a].pc = "index" /\ indexLock # None
     \/ op[a].pc = "lock" /\ connLock[op[a].id] # None
     \/ op[a].pc \in {"up", "down"} /\ ~NetworkFree
     \/ op[a].pc = "connect" /\ socket[op[a].id] /\ ~NetworkFree
  /\ Finish(a, FALSE)
  /\ UNCHANGED <<store, fileVars, reconciled, faults, stay>>

-----------------------------------------------------------------------------
(***************************************************************************)
(* What a thread does first when it has its locks.                         *)
(***************************************************************************)

(* A name somebody else has.                                               *)
NameTaken(a, self) == ~op[a].force /\ WithName(op[a].name) \ self # {}

(* handle_add_connection of a configuration that is stored already, up to  *)
(* the connection lock: the record to write is the one read here.          *)
AddExisting(a, j) ==
  /\ op[a].pc = "add"
  /\ j \in WithConfig(op[a].config)
  /\ LET renamed == op[a].name # None /\ op[a].name # store[j].name
         changed == renamed \/ op[a].auto # store[j].auto
     IN  IF ~changed \/ (renamed /\ NameTaken(a, {j}))
         THEN Finish(a, TRUE)
         ELSE /\ op' = [op EXCEPT ![a] = [@ EXCEPT !.pc = "lock", !.id = j, !.copy = store[j]]]
              /\ UNCHANGED <<lockVars, boot>>
  /\ UNCHANGED <<store, fileVars, reconciled, faults, stay>>

(* reconcile_existing_add under the connection lock.                       *)
ReAdd(a) ==
  /\ op[a].kind = "add" /\ op[a].pc = "locked"
  /\ LET i        == op[a].id
         renamed  == op[a].name # None /\ op[a].name # op[a].copy.name
         switched == op[a].auto # op[a].copy.auto
     IN  /\ store' = [store EXCEPT ![i] =
              [op[a].copy EXCEPT !.name = IF renamed THEN op[a].name ELSE @,
                                 !.auto = op[a].auto,
                                 !.down = @ /\ ~(switched /\ op[a].auto)]]
         /\ stay' = [stay EXCEPT ![i] = @ /\ ~(switched /\ op[a].auto)]
  /\ Finish(a, TRUE)
  /\ UNCHANGED <<fileVars, reconciled, faults>>

(* A new configuration; a fresh id, unless none can be allocated.          *)
AddNew(a) ==
  /\ op[a].pc = "add"
  /\ WithConfig(op[a].config) = {}
  /\ LET unused == {i \in Ids : store[i].state = "unused"}
     IN  IF NameTaken(a, {}) \/ unused = {}
         THEN UNCHANGED store
         ELSE \E i \in unused :
                store' = [store EXCEPT ![i] =
                  [state |-> "stored", config |-> op[a].config, name |-> op[a].name,
                   auto |-> op[a].auto, down |-> FALSE]]
  /\ Finish(a, TRUE)
  /\ UNCHANGED <<fileVars, reconciled, faults, stay>>

(* handle_remove_connection.  The active marker, if any, is left behind.   *)
Remove(a) ==
  /\ op[a].kind = "remove" /\ op[a].pc = "locked"
  /\ IF Stored(op[a].id) /\ ~IsActive(op[a].id)
     THEN store' = [store EXCEPT ![op[a].id] = [NoRecord EXCEPT !.state = "removed"]]
     ELSE UNCHANGED store
  /\ Finish(a, TRUE)
  /\ UNCHANGED <<fileVars, reconciled, faults, stay>>

(* handle_set_connection_mode: landing on Automatic clears an earlier      *)
(* explicit disconnect.                                                    *)
SetMode(a) ==
  /\ op[a].kind = "mode" /\ op[a].pc = "locked"
  /\ LET i == op[a].id
     IN  IF Stored(i) /\ store[i].auto # op[a].auto
         THEN /\ store' = [store EXCEPT ![i] = [@ EXCEPT !.auto = op[a].auto,
                                                   !.down = store[i].down /\ ~op[a].auto]]
              /\ stay' = [stay EXCEPT ![i] = @ /\ ~op[a].auto]
         ELSE UNCHANGED <<store, stay>>
  /\ Finish(a, TRUE)
  /\ UNCHANGED <<fileVars, reconciled, faults>>

(* resolve_connect_intent, ConnectReason::User.                            *)
UserConnect(a) ==
  /\ op[a].kind = "connect" /\ op[a].pc = "locked"
  /\ IF Stored(op[a].id)
     THEN /\ store' = [store EXCEPT ![op[a].id].down = FALSE]
          /\ stay' = [stay EXCEPT ![op[a].id] = FALSE]
          /\ Goto(a, "connect")
     ELSE Finish(a, FALSE) /\ UNCHANGED <<store, stay>>
  /\ UNCHANGED <<fileVars, reconciled, faults>>

AutoConnectUnchecked(a) ==                 \* mutant: trusts the candidate snapshot
  /\ op[a].kind \in {"auto", "boot"} /\ op[a].pc = "locked"
  /\ IF Stored(op[a].id) THEN Goto(a, "connect") ELSE Finish(a, FALSE)
  /\ UNCHANGED <<store, fileVars, reconciled, faults, stay>>

(* ConnectReason::Reconciliation, and reconcile_connect at boot: back off  *)
(* from a connection the user disconnected.                                *)
AutoConnect(a) ==
  /\ op[a].kind \in {"auto", "boot"} /\ op[a].pc = "locked"
  /\ CASE ~Stored(op[a].id)     -> Finish(a, FALSE)
       [] store[op[a].id].down  -> Finish(a, TRUE)
       [] OTHER                 -> Goto(a, "connect")
  /\ UNCHANGED <<store, fileVars, reconciled, faults, stay>>

(* mark_user_disconnected, before anything is torn down.                   *)
UserDisconnect(a) ==
  /\ op[a].kind \in {"disconnect", "teardown"} /\ op[a].pc = "locked"
  /\ IF ~Stored(op[a].id)
     THEN Finish(a, FALSE) /\ UNCHANGED <<store, stay>>
     ELSE /\ IF op[a].kind = "disconnect"
             THEN /\ store' = [store EXCEPT ![op[a].id].down = TRUE]
                  /\ stay' = [stay EXCEPT ![op[a].id] = TRUE]
             ELSE UNCHANGED <<store, stay>>
          /\ Goto(a, "down")
  /\ UNCHANGED <<fileVars, reconciled, faults>>

(* reconnect_connection: whether it is up is read under the lock.          *)
Reconnect(a) ==
  /\ op[a].kind = "reconnect" /\ op[a].pc = "locked"
  /\ IF IsActive(op[a].id) THEN Goto(a, "down") ELSE Finish(a, TRUE)
  /\ UNCHANGED <<store, fileVars, reconciled, faults, stay>>

BeginRefresh(a) ==
  LET up == IsActive(op[a].id)
  IN  /\ op' = [op EXCEPT ![a].pc = IF up THEN "down" ELSE "write", ![a].wasUp = up]
      /\ UNCHANGED <<lockVars, boot>>

RefreshUnchecked(a) ==                     \* mutant: no look for a duplicate
  /\ op[a].kind = "refresh" /\ op[a].pc = "locked"
  /\ IF ~Stored(op[a].id) \/ store[op[a].id].config = op[a].config
     THEN Finish(a, TRUE)
     ELSE BeginRefresh(a)
  /\ UNCHANGED <<store, fileVars, reconciled, faults, stay>>

(* refresh_connection up to its first side effect.  The record's own       *)
(* configuration is a no-op, another record's is refused.                  *)
Refresh(a) ==
  /\ op[a].kind = "refresh" /\ op[a].pc = "locked"
  /\ IF ~Stored(op[a].id) \/ WithConfig(op[a].config) # {}
     THEN Finish(a, TRUE)
     ELSE BeginRefresh(a)
  /\ UNCHANGED <<store, fileVars, reconciled, faults, stay>>

(* ... and its write.  The index lock is released before a connection that *)
(* was up is connected again.                                              *)
WriteRefreshed(a) ==
  /\ op[a].pc = "write"
  /\ \/ /\ store' = [store EXCEPT ![op[a].id].config = op[a].config]
        /\ UNCHANGED faults
        /\ IF op[a].wasUp
           THEN /\ op' = [op EXCEPT ![a].pc = "connect"]
                /\ indexLock' = None
                /\ UNCHANGED <<connLock, boot>>
           ELSE Finish(a, TRUE)
     \/ Fault /\ UNCHANGED store /\ Finish(a, FALSE)
  /\ UNCHANGED <<fileVars, reconciled, stay>>

-----------------------------------------------------------------------------
(***************************************************************************)
(* connection_ops::connect.                                                *)
(***************************************************************************)

(* What a dead helper left behind is removed; the cleanup status stays.    *)
ClearLeftovers(i) ==
  /\ socket' = [socket EXCEPT ![i] = FALSE]
  /\ left' = [left EXCEPT ![i] = IF @ = "pid" THEN "none" ELSE @]

CheckAnySocket(a) ==                       \* mutant: leftovers are not cleared
  /\ op[a].pc = "connect"
  /\ LET i == op[a].id
     IN  IF socket[i]
         THEN Finish(a, adopted[i] /\ active[i] = store[i].config)
         ELSE Goto(a, "up")
  /\ UNCHANGED <<store, fileVars, reconciled, faults, stay>>

(* Whose socket is it?  A dead helper's is cleared away, unless that       *)
(* fails.  Any other socket ends the connect: with success when the marker *)
(* names this very socket and this configuration, else with a conflict.    *)
CheckSocket(a) ==
  /\ op[a].pc = "connect"
  /\ LET i == op[a].id
     IN  \/ /\ socket[i] /\ ~HelperIsLive(i) /\ NetworkFree
            /\ ClearLeftovers(i)
            /\ Goto(a, "up")
            /\ UNCHANGED <<active, adopted, runs, faults>>
         \/ /\ socket[i]
            /\ IF HelperIsLive(i) THEN NetworkFree /\ UNCHANGED faults ELSE Fault
            /\ Finish(a, adopted[i] /\ active[i] = store[i].config)
            /\ UNCHANGED fileVars
         \/ /\ ~socket[i]
            /\ Goto(a, "up")
            /\ UNCHANGED <<fileVars, faults>>
  /\ UNCHANGED <<store, reconciled, stay>>

UpOverRunning(a) ==                        \* mutant: the pid file is not looked at
  /\ op[a].pc = "up"
  /\ NetworkFree
  /\ LET i == op[a].id
     IN  /\ runs' = [runs EXCEPT ![i] = store[i].config]
         /\ socket' = [socket EXCEPT ![i] = TRUE]
         /\ left' = [left EXCEPT ![i] = "pid"]
         /\ adopted' = [adopted EXCEPT ![i] = FALSE]
         /\ Goto(a, "post")
  /\ UNCHANGED <<store, active, reconciled, faults, stay>>

(* run_gotatun_up: never over a helper that still runs.  The new helper    *)
(* has a socket of its own.                                                *)
Up(a) ==
  /\ op[a].pc = "up"
  /\ NetworkFree
  /\ LET i == op[a].id
     IN  IF runs[i] # None
         THEN Finish(a, FALSE) /\ UNCHANGED fileVars
         ELSE /\ runs' = [runs EXCEPT ![i] = store[i].config]
              /\ socket' = [socket EXCEPT ![i] = TRUE]
              /\ left' = [left EXCEPT ![i] = "pid"]
              /\ adopted' = [adopted EXCEPT ![i] = FALSE]
              /\ Goto(a, "post")
              /\ UNCHANGED active
  /\ UNCHANGED <<store, reconciled, faults, stay>>

(* A PreUp hook failed, or the helper did not come up, or it was gone when *)
(* its pid file was read.                                                  *)
UpFails(a) ==
  /\ op[a].pc = "up"
  /\ Fault
  /\ LET i == op[a].id
     IN  \/ UNCHANGED <<adopted, socket, left>>
         \/ /\ NetworkFree /\ runs[i] = None
            /\ \E died \in BOOLEAN :
                 /\ left' = [left EXCEPT ![i] = IF died THEN "pid" ELSE "none"]
                 /\ socket' = [socket EXCEPT ![i] = died]
                 /\ adopted' = [adopted EXCEPT ![i] = FALSE]
  /\ Finish(a, FALSE)
  /\ UNCHANGED <<store, active, runs, reconciled, stay>>

(* PostUp succeeded: save_active, if the socket is still there.            *)
SaveActive(a) ==
  /\ op[a].pc = "post"
  /\ LET i == op[a].id
     IN  IF socket[i]
         THEN /\ active' = [active EXCEPT ![i] = store[i].config]
              /\ adopted' = [adopted EXCEPT ![i] = TRUE]
         ELSE UNCHANGED <<active, adopted>>
  /\ Finish(a, socket[op[a].id])
  /\ UNCHANGED <<store, runs, socket, left, reconciled, faults, stay>>

(* PostUp failed: the helper is taken down again.  Or the marker could not *)
(* be written: the helper stays.                                           *)
PostUpFails(a) ==
  /\ op[a].pc = "post"
  /\ Fault
  /\ \/ /\ op' = [op EXCEPT ![a].pc = "down", ![a].kind = "rollback"]
        /\ UNCHANGED <<lockVars, boot>>
     \/ Finish(a, FALSE)
  /\ UNCHANGED <<store, fileVars, reconciled, stay>>

-----------------------------------------------------------------------------
(***************************************************************************)
(* connection_ops::disconnect and run_gotatun_down.                        *)
(***************************************************************************)

(* The tunnel is confirmed down: clear_active, and on with the operation.  *)
DownDone(a) ==
  /\ active' = IF op[a].kind = "rollback" THEN active
               ELSE [active EXCEPT ![op[a].id] = None]
  /\ CASE op[a].kind = "reconnect" -> Goto(a, "connect")
       [] op[a].kind = "refresh"   -> Goto(a, "write")
       [] OTHER                    -> Finish(a, op[a].kind # "rollback")

(* The removal of its socket asks the helper to end.                       *)
Down(a) ==
  /\ op[a].pc = "down"
  /\ NetworkFree
  /\ IF left[op[a].id] = "none" /\ ~socket[op[a].id]
     THEN DownDone(a) /\ UNCHANGED socket
     ELSE /\ socket' = [socket EXCEPT ![op[a].id] = FALSE]
          /\ Goto(a, "wait")
          /\ UNCHANGED active
  /\ UNCHANGED <<store, adopted, runs, left, reconciled, faults, stay>>

(* Only a cleanup status, written by the helper as it ends, confirms it.   *)
(* Nobody writes one for a helper that was killed.                         *)
CleanupConfirmed(a) ==
  /\ op[a].pc = "wait"
  /\ left[op[a].id] = "ok"
  /\ left' = [left EXCEPT ![op[a].id] = "none"]
  /\ DownDone(a)
  /\ UNCHANGED <<store, adopted, runs, socket, reconciled, faults, stay>>

DownFails(a) ==
  /\ op[a].pc = "wait"
  /\ \/ left[op[a].id] = "failed" /\ UNCHANGED faults
     \/ left[op[a].id] \in {"none", "pid"} /\ runs[op[a].id] = None /\ UNCHANGED faults
     \/ left[op[a].id] = "pid" /\ runs[op[a].id] # None /\ Fault
  /\ Finish(a, FALSE)
  /\ UNCHANGED <<store, fileVars, reconciled, stay>>

-----------------------------------------------------------------------------
(***************************************************************************)
(* Helpers.                                                                *)
(***************************************************************************)

(* A helper ends in order: because its socket is gone, or by a signal or a *)
(* device error.  It leaves only the result of its cleanup.                *)
HelperExits(i) ==
  /\ runs[i] # None
  /\ ~socket[i] \/ "exit" \in Events
  /\ runs' = [runs EXCEPT ![i] = None]
  /\ socket' = [socket EXCEPT ![i] = FALSE]
  /\ \/ left' = [left EXCEPT ![i] = "ok"] /\ UNCHANGED faults
     \/ left' = [left EXCEPT ![i] = "failed"] /\ Fault
  /\ UNCHANGED <<store, active, adopted, lockVars, op, boot, reconciled, stay>>

(* It is killed: socket and pid file stay.                                 *)
HelperKilled(i) ==
  /\ "kill" \in Events
  /\ runs[i] # None
  /\ runs' = [runs EXCEPT ![i] = None]
  /\ UNCHANGED <<store, active, adopted, socket, left, lockVars, op, boot, reconciled,
                 faults, stay>>

(* run_sweep finds the custody record of a dead helper: its files go, and  *)
(* clear_dead_active follows once the network lock is released.            *)
SweepDead(w, i) ==
  /\ "sweep" \in Events
  /\ op[w].pc = "idle"
  /\ runs[i] = None
  /\ active[i] # None \/ socket[i]
  /\ NetworkFree
  /\ ClearLeftovers(i)
  /\ op' = [op EXCEPT ![w] = [NoOp EXCEPT !.kind = "clear", !.id = i, !.pc = "lock"]]
  /\ UNCHANGED <<store, active, adopted, runs, lockVars, boot, reconciled, faults, stay>>

ClearWithoutLook(a) ==                     \* mutant: a new helper is not noticed
  /\ op[a].kind = "clear" /\ op[a].pc = "locked"
  /\ active' = [active EXCEPT ![op[a].id] = None]
  /\ Finish(a, TRUE)
  /\ UNCHANGED <<store, adopted, runs, socket, left, reconciled, faults, stay>>

ClearDeadActive(a) ==
  /\ op[a].kind = "clear" /\ op[a].pc = "locked"
  /\ IF HelperIsLive(op[a].id) \/ ~Stored(op[a].id)
     THEN UNCHANGED active
     ELSE active' = [active EXCEPT ![op[a].id] = None]
  /\ Finish(a, TRUE)
  /\ UNCHANGED <<store, adopted, runs, socket, left, reconciled, faults, stay>>

-----------------------------------------------------------------------------
(***************************************************************************)
(* reconcile_boot, the daemon and the machine.                             *)
(***************************************************************************)
BootReconcileCandidates ==
  {i \in Ids : Stored(i) /\ store[i].auto /\ ~store[i].down /\ ~IsActive(i)}

BootStart ==
  /\ boot.pc = "start"
  /\ boot' = IF reconciled THEN [boot EXCEPT !.pc = "done"]
             ELSE [pc |-> "run", todo |-> BootReconcileCandidates, ok |-> TRUE]
  /\ UNCHANGED <<store, fileVars, lockVars, op, reconciled, faults, stay>>

BootNext(i) ==
  /\ boot.pc = "run"
  /\ op["boot"].pc = "idle"
  /\ i \in boot.todo
  /\ boot' = [boot EXCEPT !.todo = @ \ {i}]
  /\ op' = [op EXCEPT !["boot"] = [NoOp EXCEPT !.kind = "boot", !.id = i, !.pc = "lock"]]
  /\ UNCHANGED <<store, fileVars, lockVars, reconciled, faults, stay>>

(* The marker is written only when every candidate came up.                *)
BootDone ==
  /\ boot.pc = "run"
  /\ op["boot"].pc = "idle"
  /\ boot.todo = {}
  /\ boot' = [boot EXCEPT !.pc = "done"]
  /\ reconciled' = boot.ok
  /\ UNCHANGED <<store, fileVars, lockVars, op, faults, stay>>

NewDaemon ==
  /\ op' = [a \in Actors |-> NoOp]
  /\ indexLock' = None
  /\ connLock' = [i \in Ids |-> None]
  /\ boot' = NewBoot

(* Idle exit, crash or kickstart: every thread is gone, helpers go on.     *)
DaemonRestarts ==
  /\ "daemon" \in Events
  /\ NewDaemon
  /\ UNCHANGED <<store, fileVars, reconciled, faults, stay>>

(* /var/run is empty after a reboot; the store and its markers are not.    *)
Reboot ==
  /\ "reboot" \in Events
  /\ NewDaemon
  /\ reconciled' = FALSE
  /\ runs' = [i \in Ids |-> None]
  /\ socket' = [i \in Ids |-> FALSE]
  /\ left' = [i \in Ids |-> "none"]
  /\ UNCHANGED <<store, active, adopted, faults, stay>>

-----------------------------------------------------------------------------
Requested ==
  \/ AskAdd
  \/ \E i \in Ids : AskRemove(i) \/ AskMode(i)
  \/ \E w \in Workers, kind \in WorkerKinds, i \in Ids : Ask(w, kind, i)

Handled(a) ==
  \/ TakeIndex(a) \/ TakeLock(a) \/ LockTimesOut(a)
  \/ (\E j \in Ids : AddExisting(a, j)) \/ ReAdd(a) \/ AddNew(a) \/ Remove(a) \/ SetMode(a)
  \/ UserConnect(a) \/ AutoConnect(a) \/ UserDisconnect(a)
  \/ Reconnect(a) \/ Refresh(a) \/ WriteRefreshed(a) \/ ClearDeadActive(a)
  \/ CheckSocket(a) \/ Up(a) \/ UpFails(a) \/ SaveActive(a) \/ PostUpFails(a)
  \/ Down(a) \/ CleanupConfirmed(a) \/ DownFails(a)

Helpers ==
  \/ \E i \in Ids : HelperExits(i) \/ HelperKilled(i)
  \/ \E w \in Workers, i \in Ids : SweepDead(w, i)

Booting == BootStart \/ BootDone \/ \E i \in Ids : BootNext(i)

Next ==
  \/ Requested
  \/ \E a \in Actors : Handled(a)
  \/ Helpers \/ Booting
  \/ DaemonRestarts \/ Reboot

Spec == Init /\ [][Next]_vars

-----------------------------------------------------------------------------
(***************************************************************************)
(* Properties.                                                             *)
(***************************************************************************)

(* find_by_identity: no two records have the same configuration, although  *)
(* a refresh checks long before it writes.                                 *)
UniqueIdentity ==
  \A i, j \in Ids : Stored(i) /\ Stored(j) /\ store[i].config = store[j].config => i = j

(* find_by_name: unless somebody forces it a name resolves to at most one  *)
(* connection.                                                             *)
UniqueNames ==
  \A i, j \in Ids : /\ Stored(i) /\ Stored(j) /\ store[i].name = store[j].name
                    /\ store[i].name # None
                    => i = j

(* StoredConnection::user_disconnected: a connection the user disconnected *)
(* is not brought up by session or boot reconciliation, however stale what *)
(* they go by, until the user asks for it again.                           *)
DisconnectHonoured ==
  [][\A a \in Actors : op[a].kind \in {"auto", "boot"} /\ op[a].pc = "up"
                       /\ op'[a].pc = "post" => ~stay[op[a].id]]_vars

(* disconnect, reconnect and refresh under the connection lock: once no    *)
(* operation on it is under way, a connection the user disconnected does   *)
(* not run.                                                                *)
DisconnectedIsDown ==
  \A i \in Ids : stay[i] /\ connLock[i] = None => runs[i] = None

(* connect's idempotency check, refresh_connection: with no operation under*)
(* way, a tunnel the daemon takes for its own runs the configuration that  *)
(* is stored.                                                              *)
RunsWhatIsStored ==
  \A i \in Ids : connLock[i] = None /\ IsActive(i) /\ adopted[i] /\ runs[i] # None
                   => Stored(i) /\ runs[i] = store[i].config /\ active[i] = runs[i]

(* handle_remove_connection: a record is not removed under a running       *)
(* tunnel, which could then be neither listed nor disconnected.            *)
RunningIsStored == \A i \in Ids : runs[i] # None => Stored(i)

(* handle_list_connections, handle_remove_connection: with no operation    *)
(* under way, a tunnel that runs and can be reached is known as active.    *)
RunningIsActive ==
  \A i \in Ids : connLock[i] = None /\ HelperIsLive(i) => active[i] # None

(* run_gotatun_up: a helper is never started while another one for the     *)
(* same interface runs.                                                    *)
OneHelperEach ==
  [][\A a \in Actors : op[a].pc = "up" /\ op'[a].pc = "post"
                         => runs[op[a].id] = None]_vars

(* clear_dead_helper_leftovers: what a dead helper left behind never makes *)
(* a connect end before it has tried to start a new one.                   *)
DeadHelperNoObstacle ==
  [][\A a \in Actors : op[a].pc = "connect" /\ runs[op[a].id] = None /\ NetworkFree
                       /\ op'[a] # op[a] /\ op' # [b \in Actors |-> NoOp] => op'[a].pc = "up"]_vars

(* lock_index: always index, then connection.  Nobody waits for the index  *)
(* lock while holding a connection lock, so nobody waits in a circle.      *)
NoCircularWait ==
  ~ \E a, b \in Actors : /\ indexLock = a /\ op[a].pc = "lock"
                         /\ connLock[op[a].id] = b /\ op[b].pc = "index"

(* Store, active markers and processes tell the same story whenever no     *)
(* operation is under way, and no record goes under a running tunnel:      *)
(* connect, disconnect, reconnect, refresh, remove and clear_dead_active.  *)
StoreInv ==
  TypeOK /\ DisconnectedIsDown /\ RunningIsStored /\ RunningIsActive /\ RunsWhatIsStored

(* handle_add_connection, refresh_connection: what identifies a record does*)
(* so, however adds, renames and refreshes interleave.                     *)
UniqueRecords == UniqueIdentity /\ UniqueNames
=============================================================================
