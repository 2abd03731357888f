------------------------ MODULE Connections_proofs ------------------------
(***************************************************************************)
(* Theorems about Connections for any number of connections,               *)
(* configurations, names and worker threads.                               *)
(***************************************************************************)
EXTENDS Connections, TLAPS

(* What a thread has when it is at a place.                                *)
Locking == {"locked", "connect", "up", "post", "down", "wait", "write"}

HasIndex(o) ==
  \/ o.pc = "add"
  \/ o.pc \in {"lock", "locked"} /\ o.kind \in {"add", "remove", "refresh"}
  \/ o.pc \in {"down", "wait", "write"} /\ o.kind = "refresh"

(* Threads are where their requests take them, and have a connection there.*)
OpOK(o) ==
  /\ o.pc \in {"index", "add", "write"} => o.kind \in {"add", "remove", "refresh"}
  /\ o.pc = "add" => o.kind = "add"
  /\ o.pc = "write" => o.kind = "refresh"
  /\ o.kind = "add" => o.pc \in {"index", "add", "lock", "locked"}
  /\ o.pc \in Locking \cup {"lock"} \/ (o.pc = "index" /\ o.kind # "add") => o.id \in Ids

(* The locks are with the threads whose places say so.                     *)
LockInv ==
  /\ \A a \in Actors : OpOK(op[a])
  /\ \A a \in Actors : HasIndex(op[a]) => indexLock = a
  /\ \A a \in Actors, i \in Ids : connLock[i] = a <=> (op[a].pc \in Locking /\ op[a].id = i)

(* What was checked under the index lock is still so when it is written.   *)
CheckedRefresh(o) ==
  o.kind = "refresh" /\ o.pc \in {"down", "wait", "write"}
    => Stored(o.id) /\ WithConfig(o.config) = {}

CheckedAdd(o) ==
  o.kind = "add" /\ o.pc \in {"lock", "locked"}
    => /\ Stored(o.id) /\ o.copy.state = "stored"
       /\ o.copy.config = store[o.id].config /\ o.copy.name = store[o.id].name
       /\ o.name # None /\ o.name # o.copy.name /\ ~o.force => WithName(o.name) \subseteq {o.id}

IdentityInv ==
  /\ UniqueIdentity
  /\ \A a \in Actors : CheckedRefresh(op[a]) /\ CheckedAdd(op[a])

(* Nobody takes a name by force.                                           *)
NameInv ==
  /\ UniqueNames
  /\ \A a \in Actors : ~op[a].force

(* A connection the user disconnected is marked so, and no reconciliation  *)
(* is under way to bring it up.                                            *)
StayInv ==
  /\ \A a \in Actors : op[a].kind = "add" => a = "accept" /\ \A i \in Ids : ~Stored(i)
  /\ \A i \in Ids : stay[i] => store[i].state # "unused" /\ (Stored(i) => store[i].down)
  /\ \A a \in Actors : op[a].kind \in {"auto", "boot"} /\ op[a].pc \in {"connect", "up"}
                         => ~stay[op[a].id]

(* Where the thread is that has a connection's lock.                       *)
Place(i) == IF connLock[i] = None THEN "idle" ELSE op[connLock[i]].pc

(* A helper that runs has its files, and a connection that it runs for,    *)
(* whose marker says so.                                                   *)
RunOK(i, place) ==
  /\ runs[i] # None => /\ Stored(i) /\ runs[i] = store[i].config /\ left[i] = "pid"
                       /\ place # "wait" => socket[i]
                       /\ place # "post" => active[i] = runs[i]
  /\ IsActive(i) => Stored(i)
  /\ place \in Locking \ {"locked"} => Stored(i)
  /\ place = "write" => runs[i] = None

RunInv == \A i \in Ids : RunOK(i, Place(i))

(* What the user disconnected has no socket any more, once the disconnect  *)
(* is past it, and nobody is about to connect it.                          *)
UpAgain(o) == o.kind = "reconnect" \/ (o.kind = "refresh" /\ o.wasUp)

DownOK(i, place) ==
  stay[i] => /\ place # "down" => ~socket[i]
             /\ place \notin {"connect", "up", "post"}

DownInv ==
  /\ \A i \in Ids : DownOK(i, Place(i))
  /\ \A a \in Actors : op[a].pc \in {"down", "wait", "write"} /\ UpAgain(op[a]) => ~stay[op[a].id]

-----------------------------------------------------------------------------
(* A thread that ends, or goes on, leaves locks and boot pass well-typed.  *)
LEMMA NoOpType == NoOp \in Op /\ NoRecord \in Record
BY DEF NoOp, Op, NoRecord, Record, Kinds, Places

LEMMA FinishType ==
  ASSUME TypeOK, NEW a \in Actors, NEW ok \in BOOLEAN, Finish(a, ok)
  PROVE  /\ op' \in [Actors -> Op]
         /\ indexLock' \in Actors \cup {None}
         /\ connLock' \in [Ids -> Actors \cup {None}]
         /\ boot' \in [pc : {"start", "run", "done"}, todo : SUBSET Ids, ok : BOOLEAN]
BY NoOpType DEF TypeOK, Finish

LEMMA GotoType ==
  ASSUME TypeOK, NEW a \in Actors, NEW place \in Places, Goto(a, place)
  PROVE  /\ op' \in [Actors -> Op]
         /\ indexLock' \in Actors \cup {None}
         /\ connLock' \in [Ids -> Actors \cup {None}]
         /\ boot' \in [pc : {"start", "run", "done"}, todo : SUBSET Ids, ok : BOOLEAN]
<1> DEFINE o == [op[a] EXCEPT !.pc = place]
<1>1. op[a] \in Op
  BY DEF TypeOK
<1>2. o \in Op
  BY <1>1 DEF Op
<1>3. op' = [op EXCEPT ![a] = o] /\ UNCHANGED <<indexLock, connLock, boot>>
  BY Zenon DEF Goto, lockVars
<1> HIDE DEF o
<1> QED BY <1>2, <1>3 DEF TypeOK

(* Changes of a record and of what a thread does keep their types.         *)
LEMMA RecordChanges ==
  /\ \A r \in Record, b \in BOOLEAN : [r EXCEPT !.down = b] \in Record
  /\ \A r \in Record, b \in BOOLEAN, d \in BOOLEAN :
       [r EXCEPT !.auto = b, !.down = d] \in Record
  /\ \A r \in Record, c \in Configs \cup {None} : [r EXCEPT !.config = c] \in Record
  /\ \A r \in Record, n \in Names \cup {None}, b \in BOOLEAN, d \in BOOLEAN :
       [r EXCEPT !.name = n, !.auto = b, !.down = @ /\ d] \in Record
  /\ \A c \in Configs \cup {None}, n \in Names \cup {None}, b \in BOOLEAN, d \in BOOLEAN :
       [state |-> "stored", config |-> c, name |-> n, auto |-> b, down |-> d] \in Record
  /\ [NoRecord EXCEPT !.state = "removed"] \in Record
BY DEF Record, NoRecord

LEMMA OpChanges ==
  /\ \A o \in Op, place \in Places : [o EXCEPT !.pc = place] \in Op
  /\ \A o \in Op, place \in Places, k \in Kinds : [o EXCEPT !.pc = place, !.kind = k] \in Op
  /\ \A o \in Op, place \in Places, b \in BOOLEAN : [o EXCEPT !.pc = place, !.wasUp = b] \in Op
  /\ \A o \in Op, place \in Places, i \in Ids, r \in Record :
       [o EXCEPT !.pc = place, !.id = i, !.copy = r] \in Op
BY DEF Op

LEMMA NewOps ==
  /\ \A i \in Ids, k \in Kinds, place \in Places :
       [NoOp EXCEPT !.kind = k, !.id = i, !.pc = place] \in Op
  /\ \A i \in Ids, k \in Kinds, place \in Places, b \in BOOLEAN :
       [NoOp EXCEPT !.kind = k, !.id = i, !.auto = b, !.pc = place] \in Op
  /\ \A i \in Ids, k \in Kinds, place \in Places, c \in Configs \cup {None} :
       [NoOp EXCEPT !.kind = k, !.id = i, !.config = c, !.pc = place] \in Op
  /\ \A k \in Kinds, place \in Places, c \in Configs \cup {None}, n \in Names \cup {None},
        b \in BOOLEAN, f \in BOOLEAN :
       [NoOp EXCEPT !.kind = k, !.pc = place, !.config = c, !.name = n, !.auto = b,
                    !.force = f] \in Op
<1>1. \A i \in Ids, k \in Kinds, place \in Places :
        [NoOp EXCEPT !.kind = k, !.id = i, !.pc = place] \in Op
  BY NoOpType DEF Op
<1>2. \A i \in Ids, k \in Kinds, place \in Places, b \in BOOLEAN :
        [NoOp EXCEPT !.kind = k, !.id = i, !.auto = b, !.pc = place] \in Op
  BY NoOpType DEF Op
<1>3. \A i \in Ids, k \in Kinds, place \in Places, c \in Configs \cup {None} :
        [NoOp EXCEPT !.kind = k, !.id = i, !.config = c, !.pc = place] \in Op
  BY NoOpType DEF Op
<1>4. \A k \in Kinds, place \in Places, c \in Configs \cup {None}, n \in Names \cup {None},
         b \in BOOLEAN, f \in BOOLEAN :
        [NoOp EXCEPT !.kind = k, !.pc = place, !.config = c, !.name = n, !.auto = b,
                     !.force = f] \in Op
  BY NoOpType DEF Op
<1> QED BY <1>1, <1>2, <1>3, <1>4

(* Boot passes.                                                            *)
LEMMA BootType ==
  NewBoot \in [pc : {"start", "run", "done"}, todo : SUBSET Ids, ok : BOOLEAN]
BY DEF NewBoot

LEMMA OpSet ==
  ASSUME TypeOK, NEW a \in Actors, NEW o \in Op, op' = [op EXCEPT ![a] = o]
  PROVE  op' \in [Actors -> Op]
BY DEF TypeOK

LEMMA StoreSet ==
  ASSUME TypeOK, NEW i, NEW r \in Record, store' = [store EXCEPT ![i] = r]
  PROVE  store' \in [Ids -> Record]
BY DEF TypeOK

(* The fields of what a thread does.                                       *)
LEMMA OpFields ==
  ASSUME TypeOK, NEW a \in Actors
  PROVE  /\ op[a] \in Op
         /\ op[a].kind \in Kinds /\ op[a].id \in Ids \cup {None} /\ op[a].pc \in Places
         /\ op[a].config \in Configs \cup {None} /\ op[a].name \in Names \cup {None}
         /\ op[a].auto \in BOOLEAN /\ op[a].force \in BOOLEAN /\ op[a].wasUp \in BOOLEAN
         /\ op[a].copy \in Record
BY DEF TypeOK, Op

LEMMA RecordFields ==
  ASSUME TypeOK, NEW i \in Ids
  PROVE  /\ store[i] \in Record
         /\ store[i].state \in {"unused", "stored", "removed"}
         /\ store[i].config \in Configs \cup {None} /\ store[i].name \in Names \cup {None}
         /\ store[i].auto \in BOOLEAN /\ store[i].down \in BOOLEAN
BY DEF TypeOK, Record

LEMMA FaultType ==
  ASSUME TypeOK, Fault
  PROVE  faults' \in 0..MaxFaults
BY ConnectionsAssumption DEF TypeOK, Fault

(* Every action keeps every variable in its type.                          *)
LEMMA TypeStep == TypeOK /\ [Next]_vars => TypeOK'
<1> SUFFICES ASSUME TypeOK, [Next]_vars PROVE TypeOK'
  OBVIOUS
<1> USE NoOpType
<1>1. ASSUME Requested PROVE TypeOK'
  <2>1. CASE AskAdd
    <3>1. PICK c \in Configs, n \in Names \cup {None}, auto \in BOOLEAN, force \in BOOLEAN :
            op' = [op EXCEPT !["accept"] = [NoOp EXCEPT !.kind = "add", !.pc = "index",
                     !.config = c, !.name = n, !.auto = auto, !.force = force]]
      BY <2>1, Zenon DEF AskAdd
    <3>2. [NoOp EXCEPT !.kind = "add", !.pc = "index", !.config = c, !.name = n, !.auto = auto,
                       !.force = force] \in Op
      <4>1. "add" \in Kinds /\ "index" \in Places
        BY DEF Kinds, Places
      <4> QED BY <4>1, NewOps
    <3>3. op' \in [Actors -> Op]
      BY <3>1, <3>2, OpSet DEF Actors
    <3> QED BY <2>1, <3>3 DEF AskAdd, TypeOK, lockVars, fileVars
  <2>2. ASSUME NEW i \in Ids, AskRemove(i) PROVE TypeOK'
    <3>1. op' \in [Actors -> Op]
      BY <2>2, NewOps, OpSet DEF AskRemove, Kinds, Places, Actors
    <3> QED BY <2>2, <3>1 DEF AskRemove, TypeOK, lockVars, fileVars
  <2>4. ASSUME NEW i \in Ids, AskMode(i) PROVE TypeOK'
    <3>1. op' \in [Actors -> Op]
      BY <2>4, NewOps, OpSet DEF AskMode, Kinds, Places, Actors
    <3> QED BY <2>4, <3>1 DEF AskMode, TypeOK, lockVars, fileVars
  <2>3. ASSUME NEW w \in Workers, NEW kind \in WorkerKinds, NEW i \in Ids, Ask(w, kind, i)
        PROVE  TypeOK'
    <3>1. op' \in [Actors -> Op]
      BY <2>3, NewOps, OpSet DEF Ask, Kinds, Places, Actors
    <3> QED BY <2>3, <3>1 DEF Ask, TypeOK, lockVars, fileVars
  <2> QED BY <1>1, <2>1, <2>2, <2>3, <2>4 DEF Requested
<1>2. ASSUME NEW a \in Actors, Handled(a) PROVE TypeOK'
  <2>1. CASE TakeIndex(a)
    <3>1. op' \in [Actors -> Op]
      BY <2>1, OpFields, OpChanges, OpSet DEF TakeIndex, Places
    <3> QED BY <2>1, <3>1 DEF TakeIndex, TypeOK, fileVars
  <2>23. CASE TakeLock(a)
    <3>1. op' \in [Actors -> Op]
      BY <2>23, OpFields, OpChanges, OpSet DEF TakeLock, Places
    <3> QED BY <2>23, <3>1 DEF TakeLock, TypeOK, fileVars
  <2>2. CASE LockTimesOut(a)
    BY <2>2, FinishType DEF LockTimesOut, TypeOK, fileVars
  <2>3. ASSUME NEW j \in Ids, AddExisting(a, j) PROVE TypeOK'
    <3>1. CASE Finish(a, TRUE)
      BY <2>3, <3>1, FinishType DEF AddExisting, TypeOK, fileVars
    <3>2. CASE op' = [op EXCEPT ![a] = [@ EXCEPT !.pc = "lock", !.id = j, !.copy = store[j]]]
               /\ UNCHANGED <<lockVars, boot>>
      <4>1. op' \in [Actors -> Op]
        BY <3>2, OpFields, RecordFields, OpChanges DEF TypeOK, Places
      <4> QED BY <2>3, <3>2, <4>1 DEF AddExisting, TypeOK, fileVars, lockVars
    <3> QED BY <2>3, <3>1, <3>2 DEF AddExisting
  <2>4. CASE ReAdd(a)
    <3>1. op[a].copy \in Record /\ op[a].copy.name \in Names \cup {None}
      BY OpFields DEF Record
    <3>2. store' \in [Ids -> Record]
      BY <2>4, <3>1, OpFields, RecordChanges DEF ReAdd, TypeOK
    <3>3. stay' \in [Ids -> BOOLEAN]
      BY <2>4 DEF ReAdd, TypeOK
    <3> QED BY <2>4, <3>2, <3>3, FinishType DEF ReAdd, TypeOK, fileVars
  <2>5. CASE AddNew(a)
    <3>1. store' \in [Ids -> Record]
      <4>1. \A b \in BOOLEAN : [state |-> "stored", config |-> op[a].config, name |-> op[a].name,
                                  auto |-> op[a].auto, down |-> b] \in Record
        BY OpFields, RecordChanges
      <4>2. CASE store' = store
        BY <4>2 DEF TypeOK
      <4>3. ASSUME NEW i, store' = [store EXCEPT ![i] =
                     [state |-> "stored", config |-> op[a].config, name |-> op[a].name,
                      auto |-> op[a].auto, down |-> FALSE]]
            PROVE  store' \in [Ids -> Record]
        BY <4>1, <4>3, StoreSet
      <4> QED BY <2>5, <4>2, <4>3, Zenon DEF AddNew
    <3> QED BY <2>5, <3>1, FinishType DEF AddNew, TypeOK, fileVars
  <2>6. CASE Remove(a)
    <3>1. store' \in [Ids -> Record]
      BY <2>6, RecordFields, RecordChanges DEF Remove, TypeOK
    <3> QED BY <2>6, <3>1, FinishType DEF Remove, TypeOK, fileVars
  <2>7. CASE SetMode(a)
    <3>1. store' \in [Ids -> Record]
      <4> DEFINE d == store[op[a].id].down /\ ~op[a].auto
      <4>1. op[a].id \in Ids => [store[op[a].id] EXCEPT !.auto = op[a].auto, !.down = d] \in Record
        <5>1. d \in BOOLEAN
          BY Zenon
        <5> HIDE DEF d
        <5> QED BY <5>1, OpFields, RecordFields, RecordChanges
      <4>2. \/ store' = store
            \/ store' = [store EXCEPT ![op[a].id] = [@ EXCEPT !.auto = op[a].auto, !.down = d]]
        BY <2>7, Zenon DEF SetMode
      <4> HIDE DEF d
      <4> QED BY <4>1, <4>2 DEF TypeOK
    <3>2. stay' \in [Ids -> BOOLEAN]
      BY <2>7 DEF SetMode, TypeOK
    <3> QED BY <2>7, <3>1, <3>2, FinishType DEF SetMode, TypeOK, fileVars
  <2>8. CASE UserConnect(a)
    <3>1. store' \in [Ids -> Record]
      <4>1. \A j \in Ids : [store[j] EXCEPT !.down = FALSE] \in Record
        BY RecordFields, RecordChanges
      <4>2. \/ store' = store
            \/ store' = [store EXCEPT ![op[a].id].down = FALSE]
        BY <2>8, Zenon DEF UserConnect
      <4> QED BY <4>1, <4>2 DEF TypeOK
    <3>2. stay' \in [Ids -> BOOLEAN]
      BY <2>8 DEF UserConnect, TypeOK
    <3> QED BY <2>8, <3>1, <3>2, FinishType, GotoType DEF UserConnect, TypeOK, fileVars, Places
  <2>9. CASE AutoConnect(a)
    BY <2>9, FinishType, GotoType DEF AutoConnect, TypeOK, fileVars, Places
  <2>10. CASE UserDisconnect(a)
    <3>1. store' \in [Ids -> Record]
      <4>1. \A j \in Ids : [store[j] EXCEPT !.down = TRUE] \in Record
        BY RecordFields, RecordChanges
      <4>2. \/ store' = store
            \/ store' = [store EXCEPT ![op[a].id].down = TRUE]
        BY <2>10, Zenon DEF UserDisconnect
      <4> QED BY <4>1, <4>2 DEF TypeOK
    <3>2. stay' \in [Ids -> BOOLEAN]
      BY <2>10 DEF UserDisconnect, TypeOK
    <3> QED BY <2>10, <3>1, <3>2, FinishType, GotoType DEF UserDisconnect, TypeOK, fileVars, Places
  <2>11. CASE Reconnect(a)
    BY <2>11, FinishType, GotoType DEF Reconnect, TypeOK, fileVars, Places
  <2>12. CASE Refresh(a)
    <3>1. CASE Finish(a, TRUE)
      BY <2>12, <3>1, FinishType DEF Refresh, TypeOK, fileVars
    <3>2. CASE BeginRefresh(a)
      <4>1. op' \in [Actors -> Op]
        BY <3>2, OpFields, OpChanges DEF BeginRefresh, TypeOK, Places, IsActive
      <4> QED BY <2>12, <3>2, <4>1 DEF Refresh, BeginRefresh, TypeOK, fileVars, lockVars
    <3> QED BY <2>12, <3>1, <3>2 DEF Refresh
  <2>13. CASE WriteRefreshed(a)
    <3>1. store' \in [Ids -> Record] /\ faults' \in 0..MaxFaults
      <4>1. \A j \in Ids : [store[j] EXCEPT !.config = op[a].config] \in Record
        BY OpFields, RecordFields, RecordChanges
      <4>2. \/ store' = store
            \/ store' = [store EXCEPT ![op[a].id].config = op[a].config]
        BY <2>13, Zenon DEF WriteRefreshed
      <4>3. faults' = faults \/ Fault
        BY <2>13, Zenon DEF WriteRefreshed
      <4> QED BY <4>1, <4>2, <4>3, FaultType DEF TypeOK
    <3>2. CASE \E ok \in BOOLEAN : Finish(a, ok)
      BY <2>13, <3>1, <3>2, FinishType DEF WriteRefreshed, TypeOK, fileVars
    <3>3. CASE /\ op' = [op EXCEPT ![a].pc = "connect"]
               /\ indexLock' = None /\ UNCHANGED <<connLock, boot>>
      <4>1. op' \in [Actors -> Op]
        BY <3>3, OpFields, OpChanges DEF TypeOK, Places
      <4> QED BY <2>13, <3>1, <3>3, <4>1 DEF WriteRefreshed, TypeOK, fileVars
    <3> QED BY <2>13, <3>2, <3>3 DEF WriteRefreshed
  <2>14. CASE ClearDeadActive(a)
    BY <2>14, FinishType DEF ClearDeadActive, TypeOK
  <2>15. CASE CheckSocket(a)
    <3>1. /\ UNCHANGED <<store, active, adopted, runs, reconciled, stay>>
          /\ socket' \in [Ids -> BOOLEAN] /\ left' \in [Ids -> {"none", "pid", "ok", "failed"}]
          /\ faults' \in 0..MaxFaults
      <4>1. CASE UNCHANGED fileVars
        BY <2>15, <4>1, FaultType DEF CheckSocket, TypeOK, fileVars
      <4>2. CASE ClearLeftovers(op[a].id) /\ UNCHANGED <<active, adopted, runs, faults>>
        BY <2>15, <4>2 DEF CheckSocket, ClearLeftovers, TypeOK
      <4> QED BY <2>15, <4>1, <4>2 DEF CheckSocket
    <3>2. (\E ok \in BOOLEAN : Finish(a, ok)) \/ Goto(a, "up")
      BY <2>15 DEF CheckSocket, TypeOK
    <3> QED BY <3>1, <3>2, FinishType, GotoType DEF TypeOK, Places
  <2>16. CASE Up(a)
    <3>1. CASE Finish(a, FALSE) /\ UNCHANGED fileVars
      BY <2>16, <3>1, FinishType DEF Up, TypeOK, fileVars
    <3>2. CASE Goto(a, "post") /\ runs' = [runs EXCEPT ![op[a].id] = store[op[a].id].config]
      BY <2>16, <3>2, GotoType DEF Up, TypeOK, fileVars, Places, Record
    <3> QED BY <2>16, <3>1, <3>2 DEF Up
  <2>17. CASE UpFails(a)
    <3>1. faults' \in 0..MaxFaults
      BY <2>17, FaultType DEF UpFails, TypeOK
    <3>2. CASE UNCHANGED <<adopted, socket, left>>
      BY <2>17, <3>1, <3>2, FinishType DEF UpFails, TypeOK
    <3>3. ASSUME NEW died \in BOOLEAN,
                 left' = [left EXCEPT ![op[a].id] = IF died THEN "pid" ELSE "none"],
                 socket' = [socket EXCEPT ![op[a].id] = died],
                 adopted' = [adopted EXCEPT ![op[a].id] = FALSE]
          PROVE  TypeOK'
      <4>1. left' \in [Ids -> {"none", "pid", "ok", "failed"}]
        BY <3>3 DEF TypeOK
      <4>2. socket' \in [Ids -> BOOLEAN] /\ adopted' \in [Ids -> BOOLEAN]
        BY <3>3 DEF TypeOK
      <4> QED BY <2>17, <3>1, <4>1, <4>2, FinishType DEF UpFails, TypeOK
    <3> QED BY <2>17, <3>2, <3>3, Zenon DEF UpFails
  <2>18. CASE SaveActive(a)
    <3>1. Finish(a, TRUE) \/ Finish(a, FALSE)
      BY <2>18 DEF SaveActive, TypeOK, Finish
    <3>2. active' \in [Ids -> Configs \cup {None}]
      BY <2>18, RecordFields DEF SaveActive, TypeOK
    <3>3. adopted' \in [Ids -> BOOLEAN]
      BY <2>18 DEF SaveActive, TypeOK
    <3> QED BY <2>18, <3>1, <3>2, <3>3, FinishType DEF SaveActive, TypeOK
  <2>19. CASE PostUpFails(a)
    <3>1. faults' \in 0..MaxFaults
      BY <2>19, FaultType DEF PostUpFails, TypeOK
    <3>2. CASE Finish(a, FALSE)
      BY <2>19, <3>1, <3>2, FinishType DEF PostUpFails, TypeOK, fileVars
    <3>3. CASE op' = [op EXCEPT ![a].pc = "down", ![a].kind = "rollback"]
               /\ UNCHANGED <<lockVars, boot>>
      <4>1. op' \in [Actors -> Op]
        BY <3>3, OpFields, OpChanges DEF TypeOK, Places, Kinds
      <4> QED BY <2>19, <3>1, <3>3, <4>1 DEF PostUpFails, TypeOK, fileVars, lockVars
    <3> QED BY <2>19, <3>2, <3>3 DEF PostUpFails
  <2>20. CASE Down(a)
    <3>1. active' \in [Ids -> Configs \cup {None}] /\ socket' \in [Ids -> BOOLEAN]
      BY <2>20 DEF Down, DownDone, TypeOK
    <3>2. \/ \E ok \in BOOLEAN : Finish(a, ok)
          \/ \E place \in Places : Goto(a, place)
      BY <2>20 DEF Down, DownDone, Places
    <3> QED BY <2>20, <3>1, <3>2, FinishType, GotoType DEF Down, TypeOK
  <2>21. CASE CleanupConfirmed(a)
    <3>1. active' \in [Ids -> Configs \cup {None}]
          /\ left' \in [Ids -> {"none", "pid", "ok", "failed"}]
      BY <2>21 DEF CleanupConfirmed, DownDone, TypeOK
    <3>2. \/ \E ok \in BOOLEAN : Finish(a, ok)
          \/ \E place \in Places : Goto(a, place)
      BY <2>21 DEF CleanupConfirmed, DownDone, Places
    <3> QED BY <2>21, <3>1, <3>2, FinishType, GotoType DEF CleanupConfirmed, TypeOK
  <2>22. CASE DownFails(a)
    <3>1. faults' \in 0..MaxFaults
      BY <2>22, FaultType DEF DownFails, TypeOK
    <3> QED BY <2>22, <3>1, FinishType DEF DownFails, TypeOK, fileVars
  <2> QED BY <1>2, <2>1, <2>2, <2>3, <2>4, <2>5, <2>6, <2>7, <2>8, <2>9, <2>10, <2>11, <2>12,
             <2>13, <2>14, <2>15, <2>16, <2>17, <2>18, <2>19, <2>20, <2>21, <2>22, <2>23 DEF Handled
<1>3. ASSUME Helpers PROVE TypeOK'
  <2>1. ASSUME NEW i \in Ids, HelperExits(i) \/ HelperKilled(i) PROVE TypeOK'
    BY <2>1, FaultType DEF HelperExits, HelperKilled, TypeOK, lockVars
  <2>2. ASSUME NEW w \in Workers, NEW i \in Ids, SweepDead(w, i) PROVE TypeOK'
    <3>1. op' \in [Actors -> Op]
      BY <2>2, NewOps DEF SweepDead, TypeOK, Kinds, Places
    <3> QED BY <2>2, <3>1 DEF SweepDead, ClearLeftovers, TypeOK, lockVars
  <2> QED BY <1>3, <2>1, <2>2 DEF Helpers
<1>4. ASSUME Booting PROVE TypeOK'
  <2>1. CASE BootStart
    <3>1. BootReconcileCandidates \in SUBSET Ids
      BY DEF BootReconcileCandidates
    <3>2. boot' \in [pc : {"start", "run", "done"}, todo : SUBSET Ids, ok : BOOLEAN]
      BY <2>1, <3>1 DEF BootStart, TypeOK
    <3> QED BY <2>1, <3>2 DEF BootStart, TypeOK, lockVars, fileVars
  <2>3. CASE BootDone
    BY <2>3 DEF BootDone, TypeOK, lockVars, fileVars
  <2>2. ASSUME NEW i \in Ids, BootNext(i) PROVE TypeOK'
    <3>1. op' \in [Actors -> Op]
      BY <2>2, NewOps DEF BootNext, TypeOK, Kinds, Places
    <3> QED BY <2>2, <3>1 DEF BootNext, TypeOK, lockVars, fileVars
  <2> QED BY <1>4, <2>1, <2>2, <2>3 DEF Booting
<1>5. CASE DaemonRestarts
  BY <1>5, BootType DEF DaemonRestarts, NewDaemon, TypeOK, fileVars
<1>7. CASE Reboot
  BY <1>7, BootType DEF Reboot, NewDaemon, TypeOK, fileVars
<1>6. CASE UNCHANGED vars
  BY <1>6 DEF vars, fileVars, lockVars, TypeOK
<1> QED BY <1>1, <1>2, <1>3, <1>4, <1>5, <1>6, <1>7 DEF Next

THEOREM TypeCorrect == Spec => []TypeOK
<1>1. ASSUME Init PROVE TypeOK
  <2>1. MaxFaults \in 0..MaxFaults
    BY ConnectionsAssumption
  <2> QED BY <1>1, <2>1, BootType, NoOpType DEF Init, TypeOK
<1> QED BY <1>1, TypeStep, PTL DEF Spec

-----------------------------------------------------------------------------
(* Locks go with the thread that ends ...                                  *)
LEMMA LockFinish ==
  ASSUME TypeOK, LockInv, NEW a \in Actors, NEW ok, Finish(a, ok)
  PROVE  LockInv'
<1>1. NoOp.pc = "idle" /\ NoOp.kind = "none"
  BY DEF NoOp
<1>2. a # None
  BY ConnectionsAssumption DEF Actors
<1>3. op' = [op EXCEPT ![a] = NoOp] /\ indexLock' = IF indexLock = a THEN None ELSE indexLock
  BY Zenon DEF Finish
<1>4. \A i \in Ids : connLock'[i] = IF connLock[i] = a THEN None ELSE connLock[i]
  BY DEF Finish
<1>5. \A b \in Actors : b # a => op'[b] = op[b] /\ b # None
  BY <1>3, ConnectionsAssumption DEF TypeOK, Actors
<1>6. op'[a].pc = "idle" /\ op'[a].kind = "none"
  BY <1>1, <1>3 DEF TypeOK
<1>7. \A b \in Actors : OpOK(op'[b])
  BY <1>5, <1>6 DEF LockInv, OpOK, Locking
<1>8. \A b \in Actors : HasIndex(op'[b]) => indexLock' = b
  BY <1>3, <1>5, <1>6 DEF LockInv, HasIndex
<1>9. \A b \in Actors, i \in Ids : connLock'[i] = b <=> (op'[b].pc \in Locking /\ op'[b].id = i)
  <2>1. op'[a].pc \notin Locking
    BY <1>6 DEF Locking
  <2> QED BY <2>1, <1>2, <1>4, <1>5 DEF LockInv
<1> QED BY <1>7, <1>8, <1>9 DEF LockInv

(* ... and stay where they are while it goes on.                           *)
LEMMA LockMoves ==
  ASSUME TypeOK, LockInv, NEW a \in Actors, NEW o \in Op, op' = [op EXCEPT ![a] = o],
         UNCHANGED lockVars, OpOK(o), HasIndex(o) => HasIndex(op[a]),
         o.pc \in Locking <=> op[a].pc \in Locking,
         o.pc \in Locking => o.id = op[a].id
  PROVE  LockInv'
<1>1. op'[a] = o /\ \A b \in Actors : b # a => op'[b] = op[b]
  BY DEF TypeOK
<1>2. \A b \in Actors : OpOK(op'[b])
  BY <1>1 DEF LockInv
<1>3. \A b \in Actors : HasIndex(op'[b]) => indexLock' = b
  BY <1>1 DEF LockInv, lockVars
<1>4. \A b \in Actors, i \in Ids : connLock'[i] = b <=> (op'[b].pc \in Locking /\ op'[b].id = i)
  BY <1>1 DEF LockInv, lockVars
<1> QED BY <1>2, <1>3, <1>4 DEF LockInv

LEMMA LockGoto ==
  ASSUME TypeOK, LockInv, NEW a \in Actors, NEW place \in Locking \ {"locked"}, Goto(a, place),
         op[a].pc \in Locking, op[a].kind # "add",
         place = "write" => op[a].kind = "refresh",
         place \in {"down", "wait", "write"} /\ op[a].kind = "refresh" => HasIndex(op[a])
  PROVE  LockInv'
<1> DEFINE o == [op[a] EXCEPT !.pc = place]
<1>1. o \in Op /\ o.pc = place /\ o.kind = op[a].kind /\ o.id = op[a].id
  BY OpFields DEF Locking, Places, Op
<1>2. op' = [op EXCEPT ![a] = o] /\ UNCHANGED lockVars
  BY DEF Goto, lockVars
<1> HIDE DEF o
<1>3. OpOK(o)
  BY <1>1 DEF LockInv, OpOK, Locking
<1>4. HasIndex(o) => HasIndex(op[a])
  BY <1>1 DEF HasIndex, Locking
<1> QED BY <1>1, <1>2, <1>3, <1>4, LockMoves DEF Locking

(* A thread that is given something to do has no lock yet.                 *)
Begins(a, o) ==
  /\ op[a].pc = "idle" /\ op' = [op EXCEPT ![a] = o]
  /\ UNCHANGED <<store, active, adopted, runs, lockVars, stay>>
  /\ \/ /\ o.pc = "index" /\ o.kind \in {"add", "remove", "refresh"}
        /\ o.kind # "add" => o.id \in Ids
     \/ o.pc = "lock" /\ o.kind \notin {"add", "remove", "refresh"} /\ o.id \in Ids
  /\ o.force => "force" \in Requests
  /\ o.kind = "add" => a = "accept" /\ ("readd" \in Requests \/ \A i \in Ids : ~Stored(i))

LEMMA RequestBegins ==
  ASSUME TypeOK, Requested
  PROVE  \E a \in Actors, o \in Op : Begins(a, o)
<1>1. CASE AskAdd
  <2>1. PICK c \in Configs, n \in Names \cup {None}, auto \in BOOLEAN, force \in BOOLEAN :
          /\ force => "force" \in Requests
          /\ op' = [op EXCEPT !["accept"] = [NoOp EXCEPT !.kind = "add", !.pc = "index",
                      !.config = c, !.name = n, !.auto = auto, !.force = force]]
    BY <1>1, Zenon DEF AskAdd
  <2> DEFINE o == [NoOp EXCEPT !.kind = "add", !.pc = "index",
                   !.config = c, !.name = n, !.auto = auto, !.force = force]
  <2>2. o \in Op
    <3>1. "add" \in Kinds /\ "index" \in Places
      BY DEF Kinds, Places
    <3> QED BY <3>1, NewOps
  <2>3. o.pc = "index" /\ o.kind = "add" /\ o.force = force
    BY DEF NoOp
  <2>4. /\ op["accept"].pc = "idle" /\ "accept" \in Actors
        /\ UNCHANGED <<store, active, adopted, runs, lockVars, stay>>
        /\ "readd" \in Requests \/ \A i \in Ids : ~Stored(i)
    BY <1>1 DEF AskAdd, Actors, lockVars, fileVars
  <2>5. op' = [op EXCEPT !["accept"] = o]
    BY <2>1, Zenon
  <2> HIDE DEF o
  <2>6. Begins("accept", o)
    BY <2>1, <2>3, <2>4, <2>5, Zenon DEF Begins
  <2> QED BY <2>2, <2>4, <2>6
<1>2. ASSUME NEW i \in Ids, AskRemove(i) PROVE \E a \in Actors, o \in Op : Begins(a, o)
  <2> DEFINE o == [NoOp EXCEPT !.kind = "remove", !.id = i, !.pc = "index"]
  <2>1. o \in Op /\ o.pc = "index" /\ o.kind = "remove" /\ o.id = i /\ o.force = FALSE
    BY NewOps DEF Kinds, Places, NoOp
  <2>2. /\ op' = [op EXCEPT !["accept"] = o]
        /\ op["accept"].pc = "idle" /\ "accept" \in Actors
        /\ UNCHANGED <<store, active, adopted, runs, lockVars, stay>>
    BY <1>2 DEF AskRemove, Actors, lockVars, fileVars
  <2> HIDE DEF o
  <2>3. Begins("accept", o)
    BY <2>1, <2>2 DEF Begins
  <2> QED BY <2>1, <2>2, <2>3
<1>3. ASSUME NEW i \in Ids, AskMode(i) PROVE \E a \in Actors, o \in Op : Begins(a, o)
  <2>1. PICK auto \in BOOLEAN :
          op' = [op EXCEPT !["accept"] = [NoOp EXCEPT !.kind = "mode", !.id = i,
                                            !.auto = auto, !.pc = "lock"]]
    BY <1>3 DEF AskMode
  <2> DEFINE o == [NoOp EXCEPT !.kind = "mode", !.id = i, !.auto = auto, !.pc = "lock"]
  <2>2. o \in Op /\ o.pc = "lock" /\ o.kind = "mode" /\ o.id = i /\ o.force = FALSE
    BY NewOps DEF Kinds, Places, NoOp
  <2>3. /\ op' = [op EXCEPT !["accept"] = o]
        /\ op["accept"].pc = "idle" /\ "accept" \in Actors
        /\ UNCHANGED <<store, active, adopted, runs, lockVars, stay>>
    BY <1>3, <2>1 DEF AskMode, Actors, lockVars, fileVars
  <2> HIDE DEF o
  <2>4. Begins("accept", o)
    BY <2>2, <2>3 DEF Begins
  <2> QED BY <2>2, <2>3, <2>4
<1>4. ASSUME NEW w \in Workers, NEW kind \in WorkerKinds, NEW i \in Ids, Ask(w, kind, i)
      PROVE  \E a \in Actors, o \in Op : Begins(a, o)
  <2>1. PICK c \in IF kind = "refresh" THEN Configs ELSE {None} :
          op' = [op EXCEPT ![w] = [NoOp EXCEPT !.kind = kind, !.id = i, !.config = c,
                                     !.pc = IF kind = "refresh" THEN "index" ELSE "lock"]]
    BY <1>4 DEF Ask
  <2> DEFINE o == [NoOp EXCEPT !.kind = kind, !.id = i, !.config = c,
                               !.pc = IF kind = "refresh" THEN "index" ELSE "lock"]
  <2>2. o \in Op
    BY NewOps DEF Kinds, Places
  <2>3. /\ o.kind = kind /\ o.id = i /\ o.pc = (IF kind = "refresh" THEN "index" ELSE "lock")
        /\ o.force = FALSE
    BY DEF NoOp
  <2>4. /\ op' = [op EXCEPT ![w] = o]
        /\ op[w].pc = "idle" /\ w \in Actors
        /\ UNCHANGED <<store, active, adopted, runs, lockVars, stay>>
    BY <1>4, <2>1 DEF Ask, Actors, lockVars, fileVars
  <2> HIDE DEF o
  <2>5. Begins(w, o)
    BY <2>3, <2>4 DEF Begins, WorkerKinds
  <2> QED BY <2>2, <2>4, <2>5
<1> QED BY <1>1, <1>2, <1>3, <1>4 DEF Requested

LEMMA SweepBegins ==
  ASSUME TypeOK, NEW w \in Workers, NEW i \in Ids, SweepDead(w, i)
  PROVE  w \in Actors /\ \E o \in Op : Begins(w, o)
<1> DEFINE o == [NoOp EXCEPT !.kind = "clear", !.id = i, !.pc = "lock"]
<1>1. o \in Op /\ o.pc = "lock" /\ o.kind = "clear" /\ o.id = i /\ o.force = FALSE
  BY NewOps DEF Kinds, Places, NoOp
<1>2. /\ op' = [op EXCEPT ![w] = o]
      /\ op[w].pc = "idle" /\ w \in Actors
      /\ UNCHANGED <<store, active, adopted, runs, lockVars, stay>>
  BY DEF SweepDead, Actors, lockVars
<1> HIDE DEF o
<1>3. Begins(w, o)
  BY <1>1, <1>2 DEF Begins
<1> QED BY <1>1, <1>2, <1>3

LEMMA BootBegins ==
  ASSUME TypeOK, NEW i \in Ids, BootNext(i)
  PROVE  "boot" \in Actors /\ \E o \in Op : Begins("boot", o)
<1> DEFINE o == [NoOp EXCEPT !.kind = "boot", !.id = i, !.pc = "lock"]
<1>1. o \in Op /\ o.pc = "lock" /\ o.kind = "boot" /\ o.id = i /\ o.force = FALSE
  BY NewOps DEF Kinds, Places, NoOp
<1>2. /\ op' = [op EXCEPT !["boot"] = o]
      /\ op["boot"].pc = "idle" /\ "boot" \in Actors
      /\ UNCHANGED <<store, active, adopted, runs, lockVars, stay>>
  BY DEF BootNext, Actors, lockVars, fileVars
<1> HIDE DEF o
<1>3. Begins("boot", o)
  BY <1>1, <1>2 DEF Begins
<1> QED BY <1>1, <1>2, <1>3

LEMMA LockBegins ==
  ASSUME TypeOK, LockInv, NEW a \in Actors, NEW o \in Op, Begins(a, o)
  PROVE  LockInv'
<1>1. OpOK(o)
  BY DEF Begins, OpOK, Locking
<1>2. ~HasIndex(o)
  BY DEF Begins, HasIndex
<1> QED BY <1>1, <1>2, LockMoves DEF Begins, Locking

(* Every action hands the locks over in order.                             *)
LEMMA LockStep == TypeOK /\ LockInv /\ [Next]_vars => LockInv'
<1> SUFFICES ASSUME TypeOK, LockInv, [Next]_vars PROVE LockInv'
  OBVIOUS
<1>1. ASSUME Requested PROVE LockInv'
  BY <1>1, RequestBegins, LockBegins
<1>2. ASSUME NEW a \in Actors, Handled(a) PROVE LockInv'
  <2>0. /\ OpOK(op[a]) /\ op[a] \in Op
        /\ \A b \in Actors : b # None
    BY OpFields, ConnectionsAssumption DEF LockInv, Actors
  <2>1. CASE TakeIndex(a)
    <3> DEFINE o == [op[a] EXCEPT !.pc = IF op[a].kind = "add" THEN "add" ELSE "lock"]
    <3>1. /\ o.pc = (IF op[a].kind = "add" THEN "add" ELSE "lock")
          /\ o.kind = op[a].kind /\ o.id = op[a].id
      BY <2>0 DEF Op
    <3>2. /\ op[a].pc = "index" /\ indexLock = None /\ indexLock' = a
          /\ op' = [op EXCEPT ![a] = o] /\ connLock' = connLock
      BY <2>1 DEF TakeIndex
    <3>3. op'[a] = o /\ \A b \in Actors : b # a => op'[b] = op[b]
      BY <3>2 DEF TypeOK
    <3> HIDE DEF o
    <3>4. \A b \in Actors : OpOK(op'[b])
      <4>1. OpOK(o)
        BY <2>0, <3>1, <3>2 DEF OpOK, Locking
      <4> QED BY <3>3, <4>1 DEF LockInv
    <3>5. \A b \in Actors : HasIndex(op'[b]) => indexLock' = b
      BY <2>0, <3>2, <3>3 DEF LockInv
    <3>6. \A b \in Actors, i \in Ids : connLock'[i] = b <=> (op'[b].pc \in Locking /\ op'[b].id = i)
      BY <3>1, <3>2, <3>3 DEF LockInv, Locking
    <3> QED BY <3>4, <3>5, <3>6 DEF LockInv
  <2>2. CASE TakeLock(a)
    <3> DEFINE o == [op[a] EXCEPT !.pc = "locked"]
    <3>1. o.pc = "locked" /\ o.kind = op[a].kind /\ o.id = op[a].id
      BY <2>0 DEF Op
    <3>2. /\ op[a].pc = "lock" /\ connLock[op[a].id] = None
          /\ connLock' = [connLock EXCEPT ![op[a].id] = a]
          /\ op' = [op EXCEPT ![a] = o] /\ indexLock' = indexLock
      BY <2>2 DEF TakeLock
    <3>3. op'[a] = o /\ \A b \in Actors : b # a => op'[b] = op[b]
      BY <3>2 DEF TypeOK
    <3> HIDE DEF o
    <3>4. \A b \in Actors : OpOK(op'[b])
      <4>1. OpOK(o)
        BY <2>0, <3>1, <3>2 DEF OpOK, Locking
      <4> QED BY <3>3, <4>1 DEF LockInv
    <3>5. \A b \in Actors : HasIndex(op'[b]) => indexLock' = b
      <4>1. HasIndex(o) => HasIndex(op[a])
        BY <3>1, <3>2 DEF HasIndex
      <4> QED BY <4>1, <3>2, <3>3 DEF LockInv
    <3>6. \A b \in Actors, i \in Ids : connLock'[i] = b <=> (op'[b].pc \in Locking /\ op'[b].id = i)
      <4>1. op[a].pc \notin Locking /\ o.pc \in Locking
        BY <3>1, <3>2 DEF Locking
      <4>2. \A i \in Ids : connLock'[i] = IF i = op[a].id THEN a ELSE connLock[i]
        BY <3>2 DEF TypeOK
      <4> QED BY <2>0, <3>1, <3>2, <3>3, <4>1, <4>2 DEF LockInv
    <3> QED BY <3>4, <3>5, <3>6 DEF LockInv
  <2>3. CASE LockTimesOut(a)
    BY <2>3, LockFinish, Zenon DEF LockTimesOut
  <2>4. ASSUME NEW j \in Ids, AddExisting(a, j) PROVE LockInv'
    <3>1. CASE Finish(a, TRUE)
      BY <3>1, LockFinish
    <3>2. CASE op' = [op EXCEPT ![a] = [@ EXCEPT !.pc = "lock", !.id = j, !.copy = store[j]]]
               /\ UNCHANGED <<lockVars, boot>>
      <4> DEFINE o == [op[a] EXCEPT !.pc = "lock", !.id = j, !.copy = store[j]]
      <4>1. o \in Op
        BY <2>0, RecordFields, OpChanges DEF Places
      <4>2. o.pc = "lock" /\ o.id = j /\ o.kind = op[a].kind
        BY <2>0 DEF Op
      <4>3. op' = [op EXCEPT ![a] = o] /\ UNCHANGED lockVars
        BY <3>2
      <4>4. op[a].pc = "add"
        BY <2>4, Zenon DEF AddExisting
      <4> HIDE DEF o
      <4>5. OpOK(o) /\ HasIndex(op[a])
        BY <2>0, <4>2, <4>4 DEF OpOK, HasIndex, Locking
      <4> QED BY <4>1, <4>2, <4>3, <4>4, <4>5, LockMoves DEF Locking
    <3> QED BY <2>4, <3>1, <3>2, Zenon DEF AddExisting
  <2>5. CASE ReAdd(a) \/ AddNew(a) \/ Remove(a) \/ SetMode(a) \/ ClearDeadActive(a)
    BY <2>5, LockFinish, Zenon DEF ReAdd, AddNew, Remove, SetMode, ClearDeadActive
  <2>6. CASE UserConnect(a)
    <3>1. op[a].kind = "connect" /\ op[a].pc = "locked" /\ (Finish(a, FALSE) \/ Goto(a, "connect"))
      BY <2>6, Zenon DEF UserConnect
    <3> QED BY <3>1, LockFinish, LockGoto DEF Locking
  <2>7. CASE AutoConnect(a)
    <3>1. /\ op[a].kind \in {"auto", "boot"} /\ op[a].pc = "locked"
          /\ Finish(a, FALSE) \/ Finish(a, TRUE) \/ Goto(a, "connect")
      BY <2>7 DEF AutoConnect
    <3> QED BY <3>1, LockFinish, LockGoto DEF Locking
  <2>8. CASE UserDisconnect(a)
    <3>1. /\ op[a].kind \in {"disconnect", "teardown"} /\ op[a].pc = "locked"
          /\ Finish(a, FALSE) \/ Goto(a, "down")
      BY <2>8, Zenon DEF UserDisconnect
    <3> QED BY <3>1, LockFinish, LockGoto DEF Locking
  <2>9. CASE Reconnect(a)
    <3>1. /\ op[a].kind = "reconnect" /\ op[a].pc = "locked"
          /\ Finish(a, TRUE) \/ Goto(a, "down")
      BY <2>9, Zenon DEF Reconnect
    <3> QED BY <3>1, LockFinish, LockGoto DEF Locking
  <2>10. CASE Refresh(a)
    <3>1. CASE Finish(a, TRUE)
      BY <3>1, LockFinish
    <3>2. CASE BeginRefresh(a)
      <4> DEFINE o == [op[a] EXCEPT !.pc = IF IsActive(op[a].id) THEN "down" ELSE "write",
                                    !.wasUp = IsActive(op[a].id)]
      <4>1. o \in Op
        BY <2>0, OpChanges DEF Places, IsActive
      <4>2. o.pc \in {"down", "write"} /\ o.id = op[a].id /\ o.kind = op[a].kind
        BY <2>0 DEF Op
      <4>3. op' = [op EXCEPT ![a] = o] /\ UNCHANGED lockVars
        BY <3>2 DEF BeginRefresh
      <4>4. op[a].kind = "refresh" /\ op[a].pc = "locked"
        BY <2>10, Zenon DEF Refresh
      <4> HIDE DEF o
      <4>5. OpOK(o) /\ HasIndex(op[a])
        BY <2>0, <4>2, <4>4 DEF OpOK, HasIndex, Locking
      <4> QED BY <4>1, <4>2, <4>3, <4>4, <4>5, LockMoves DEF Locking
    <3> QED BY <2>10, <3>1, <3>2, Zenon DEF Refresh
  <2>11. CASE WriteRefreshed(a)
    <3>1. CASE \E ok \in BOOLEAN : Finish(a, ok)
      BY <3>1, LockFinish
    <3>2. CASE /\ op' = [op EXCEPT ![a].pc = "connect"]
               /\ indexLock' = None /\ UNCHANGED <<connLock, boot>>
      <4> DEFINE o == [op[a] EXCEPT !.pc = "connect"]
      <4>1. o.pc = "connect" /\ o.id = op[a].id /\ o.kind = op[a].kind
        BY <2>0 DEF Op
      <4>2. op[a].pc = "write"
        BY <2>11, Zenon DEF WriteRefreshed
      <4>3. op'[a] = o /\ \A b \in Actors : b # a => op'[b] = op[b]
        BY <3>2 DEF TypeOK
      <4> HIDE DEF o
      <4>4. \A b \in Actors : OpOK(op'[b])
        <5>1. OpOK(o)
          BY <2>0, <4>1, <4>2 DEF OpOK, Locking
        <5> QED BY <4>3, <5>1 DEF LockInv
      <4>5. indexLock = a /\ ~HasIndex(o)
        BY <2>0, <4>1, <4>2 DEF LockInv, HasIndex, OpOK
      <4>6. \A b \in Actors : HasIndex(op'[b]) => indexLock' = b
        BY <4>3, <4>5 DEF LockInv
      <4>7. \A b \in Actors, i \in Ids :
              connLock'[i] = b <=> (op'[b].pc \in Locking /\ op'[b].id = i)
        BY <3>2, <4>1, <4>2, <4>3 DEF LockInv, Locking
      <4> QED BY <4>4, <4>6, <4>7 DEF LockInv
    <3> QED BY <2>11, <3>1, <3>2, Zenon DEF WriteRefreshed
  <2>12. CASE CheckSocket(a)
    <3>1. op[a].pc = "connect" /\ ((\E ok : Finish(a, ok)) \/ Goto(a, "up"))
      BY <2>12, Zenon DEF CheckSocket
    <3> QED BY <2>0, <3>1, LockFinish, LockGoto DEF Locking, OpOK
  <2>13. CASE Up(a)
    <3>1. op[a].pc = "up" /\ (Finish(a, FALSE) \/ Goto(a, "post"))
      BY <2>13, Zenon DEF Up
    <3> QED BY <2>0, <3>1, LockFinish, LockGoto DEF Locking, OpOK
  <2>14. CASE UpFails(a) \/ SaveActive(a) \/ DownFails(a)
    BY <2>14, LockFinish, Zenon DEF UpFails, SaveActive, DownFails
  <2>15. CASE PostUpFails(a)
    <3>1. CASE Finish(a, FALSE)
      BY <3>1, LockFinish
    <3>2. CASE op' = [op EXCEPT ![a].pc = "down", ![a].kind = "rollback"]
               /\ UNCHANGED <<lockVars, boot>>
      <4> DEFINE o == [op[a] EXCEPT !.pc = "down", !.kind = "rollback"]
      <4>1. o \in Op
        BY <2>0, OpChanges DEF Places, Kinds
      <4>2. o.pc = "down" /\ o.id = op[a].id /\ o.kind = "rollback"
        BY <2>0 DEF Op
      <4>3. op' = [op EXCEPT ![a] = o] /\ UNCHANGED lockVars
        BY <3>2 DEF TypeOK
      <4>4. op[a].pc = "post"
        BY <2>15, Zenon DEF PostUpFails
      <4> HIDE DEF o
      <4>5. OpOK(o) /\ ~HasIndex(o)
        BY <2>0, <4>2, <4>4 DEF OpOK, HasIndex, Locking
      <4> QED BY <4>1, <4>2, <4>3, <4>4, <4>5, LockMoves DEF Locking
    <3> QED BY <2>15, <3>1, <3>2, Zenon DEF PostUpFails
  <2>16. CASE Down(a)
    <3>1. /\ op[a].pc = "down"
          /\ \/ \E ok : Finish(a, ok)
             \/ Goto(a, "wait")
             \/ Goto(a, "connect") /\ op[a].kind = "reconnect"
             \/ Goto(a, "write") /\ op[a].kind = "refresh"
      BY <2>16 DEF Down, DownDone
    <3> QED BY <2>0, <3>1, LockFinish, LockGoto DEF Locking, OpOK, HasIndex
  <2>17. CASE CleanupConfirmed(a)
    <3>1. /\ op[a].pc = "wait"
          /\ \/ \E ok : Finish(a, ok)
             \/ Goto(a, "connect") /\ op[a].kind = "reconnect"
             \/ Goto(a, "write") /\ op[a].kind = "refresh"
      BY <2>17 DEF CleanupConfirmed, DownDone
    <3> QED BY <2>0, <3>1, LockFinish, LockGoto DEF Locking, OpOK, HasIndex
  <2> QED BY <1>2, <2>1, <2>2, <2>3, <2>4, <2>5, <2>6, <2>7, <2>8, <2>9, <2>10, <2>11, <2>12,
             <2>13, <2>14, <2>15, <2>16, <2>17, Zenon DEF Handled
<1>3. ASSUME Helpers PROVE LockInv'
  <2>1. ASSUME NEW i \in Ids, HelperExits(i) \/ HelperKilled(i) PROVE LockInv'
    <3>1. UNCHANGED <<op, indexLock, connLock>>
      BY <2>1, Zenon DEF HelperExits, HelperKilled, lockVars
    <3> QED BY <3>1 DEF LockInv
  <2>2. ASSUME NEW w \in Workers, NEW i \in Ids, SweepDead(w, i) PROVE LockInv'
    BY <2>2, SweepBegins, LockBegins
  <2> QED BY <1>3, <2>1, <2>2 DEF Helpers
<1>4. ASSUME Booting PROVE LockInv'
  <2>1. CASE BootStart \/ BootDone
    <3>1. UNCHANGED <<op, indexLock, connLock>>
      BY <2>1, Zenon DEF BootStart, BootDone, lockVars
    <3> QED BY <3>1 DEF LockInv
  <2>2. ASSUME NEW i \in Ids, BootNext(i) PROVE LockInv'
    BY <2>2, BootBegins, LockBegins
  <2> QED BY <1>4, <2>1, <2>2 DEF Booting
<1>5. CASE DaemonRestarts \/ Reboot
  <2>1. op' = [a \in Actors |-> NoOp] /\ connLock' = [i \in Ids |-> None]
    BY <1>5, Zenon DEF DaemonRestarts, Reboot, NewDaemon
  <2>2. \A a \in Actors : op'[a].pc = "idle" /\ op'[a].kind = "none" /\ a # None
    BY <2>1, ConnectionsAssumption DEF NoOp, Actors
  <2> QED BY <2>1, <2>2 DEF LockInv, OpOK, HasIndex, Locking
<1>6. CASE UNCHANGED vars
  <2>1. UNCHANGED <<op, indexLock, connLock>>
    BY <1>6 DEF vars, lockVars
  <2> QED BY <2>1 DEF LockInv
<1> QED BY <1>1, <1>2, <1>3, <1>4, <1>5, <1>6, Zenon DEF Next

LEMMA LocksInOrder == Spec => []LockInv
<1>1. ASSUME Init PROVE LockInv
  <2>1. \A a \in Actors : op[a].pc = "idle" /\ op[a].kind = "none" /\ a # None
    BY <1>1, ConnectionsAssumption DEF Init, NoOp, Actors
  <2>2. \A i \in Ids : connLock[i] = None
    BY <1>1 DEF Init
  <2> QED BY <2>1, <2>2 DEF LockInv, OpOK, HasIndex, Locking
<1> QED BY <1>1, LockStep, TypeCorrect, PTL DEF Spec

(* lock_index: whoever waits for the index lock has no connection lock, so *)
(* that no two threads wait for each other.                                *)
THEOREM NobodyWaitsInACircle == Spec => []NoCircularWait
<1>1. LockInv /\ TypeOK => NoCircularWait
  <2>1. SUFFICES ASSUME LockInv, NEW a \in Actors, NEW b \in Actors, op[a].pc = "lock",
                        connLock[op[a].id] = b, op[b].pc = "index"
                 PROVE  FALSE
    BY Zenon DEF NoCircularWait
  <2>2. op[a].id \in Ids
    BY <2>1 DEF LockInv, OpOK
  <2> QED BY <2>1, <2>2 DEF LockInv, Locking
<1> QED BY <1>1, TypeCorrect, LocksInOrder, PTL

-----------------------------------------------------------------------------
(* What identifies the records stays as it is.                             *)
Steady ==
  \A i \in Ids : /\ store'[i].state = store[i].state
                 /\ store'[i].config = store[i].config
                 /\ store'[i].name = store[i].name

LEMMA SteadyLookups ==
  ASSUME Steady
  PROVE  /\ \A i \in Ids : Stored(i)' = Stored(i)
         /\ \A c : WithConfig(c)' = WithConfig(c)
         /\ \A n : WithName(n)' = WithName(n)
BY DEF Steady, Stored, WithConfig, WithName

(* Nothing that was checked gets wrong by the step of a thread that keeps  *)
(* what identifies records.                                                *)
LEMMA IdentityKept ==
  ASSUME TypeOK, LockInv, IdentityInv, Steady, NEW a \in Actors,
         \A b \in Actors : b # a => op'[b] = op[b],
         CheckedRefresh(op[a])', CheckedAdd(op[a])'
  PROVE  IdentityInv'
<1>1. UniqueIdentity'
  BY DEF IdentityInv, UniqueIdentity, Steady, Stored
<1>2. ASSUME NEW b \in Actors PROVE CheckedRefresh(op[b])' /\ CheckedAdd(op[b])'
  <2>1. CASE b = a
    BY <2>1
  <2>2. CASE b # a
    <3>1. op'[b] = op[b] /\ OpOK(op[b]) /\ CheckedRefresh(op[b]) /\ CheckedAdd(op[b])
      BY <2>2 DEF LockInv, IdentityInv
    <3>2. CheckedRefresh(op[b])'
      BY <3>1, SteadyLookups DEF CheckedRefresh, OpOK, Locking
    <3>3. CheckedAdd(op[b])'
      BY <3>1, SteadyLookups DEF CheckedAdd, OpOK, Locking, Steady
    <3> QED BY <3>2, <3>3
  <2> QED BY <2>1, <2>2
<1> QED BY <1>1, <1>2 DEF IdentityInv

LEMMA IdentityFinish ==
  ASSUME TypeOK, LockInv, IdentityInv, Steady, NEW a \in Actors, NEW ok, Finish(a, ok)
  PROVE  IdentityInv'
<1>1. op' = [op EXCEPT ![a] = NoOp]
  BY Zenon DEF Finish
<1>2. op'[a].kind = "none" /\ \A b \in Actors : b # a => op'[b] = op[b]
  BY <1>1 DEF TypeOK, NoOp
<1>3. CheckedRefresh(op[a])' /\ CheckedAdd(op[a])'
  BY <1>2 DEF CheckedRefresh, CheckedAdd
<1> QED BY <1>2, <1>3, IdentityKept

LEMMA IdentityGoto ==
  ASSUME TypeOK, LockInv, IdentityInv, Steady, NEW a \in Actors, NEW place, Goto(a, place),
         op[a].kind # "add",
         place \in {"down", "wait", "write"} /\ op[a].kind = "refresh"
           => op[a].pc \in {"down", "wait", "write"}
  PROVE  IdentityInv'
<1>1. op' = [op EXCEPT ![a].pc = place]
  BY Zenon DEF Goto
<1>2. /\ op'[a].kind = op[a].kind /\ op'[a].pc = place /\ op'[a].id = op[a].id
      /\ op'[a].config = op[a].config
      /\ \A b \in Actors : b # a => op'[b] = op[b]
  BY <1>1, OpFields DEF TypeOK, Op
<1>3. CheckedAdd(op[a])'
  BY <1>2 DEF CheckedAdd
<1>4. CheckedRefresh(op[a])'
  <2>1. CheckedRefresh(op[a]) /\ OpOK(op[a])
    BY DEF IdentityInv, LockInv
  <2> QED BY <2>1, <1>2, SteadyLookups DEF CheckedRefresh, OpOK, Locking
<1> QED BY <1>2, <1>3, <1>4, IdentityKept

(* Somebody who writes what identifies a record has the index lock, and so *)
(* nobody else has checked anything.                                       *)
LEMMA IdentityWritten ==
  ASSUME TypeOK, LockInv, NEW a \in Actors, HasIndex(op[a]), UniqueIdentity',
         \A b \in Actors : b # a => op'[b] = op[b],
         CheckedRefresh(op[a])', CheckedAdd(op[a])'
  PROVE  IdentityInv'
<1>1. ASSUME NEW b \in Actors, b # a PROVE ~HasIndex(op[b])
  BY <1>1 DEF LockInv
<1>2. ASSUME NEW b \in Actors PROVE CheckedRefresh(op[b])' /\ CheckedAdd(op[b])'
  <2>1. CASE b = a
    BY <2>1
  <2>2. CASE b # a
    BY <1>1, <2>2 DEF HasIndex, CheckedRefresh, CheckedAdd
  <2> QED BY <2>1, <2>2
<1> QED BY <1>2 DEF IdentityInv

LEMMA IdentityWrittenLast ==
  ASSUME TypeOK, LockInv, NEW a \in Actors, HasIndex(op[a]), UniqueIdentity', NEW ok,
         Finish(a, ok)
  PROVE  IdentityInv'
<1>1. op' = [op EXCEPT ![a] = NoOp]
  BY Zenon DEF Finish
<1>2. op'[a].kind = "none" /\ \A b \in Actors : b # a => op'[b] = op[b]
  BY <1>1 DEF TypeOK, NoOp
<1>3. CheckedRefresh(op[a])' /\ CheckedAdd(op[a])'
  BY <1>2 DEF CheckedRefresh, CheckedAdd
<1> QED BY <1>2, <1>3, IdentityWritten

(* Four handlers write what identifies a record.                           *)
LEMMA WhoWrites ==
  ASSUME TypeOK, [Next]_vars
  PROVE  \/ Steady
         \/ \E a \in Actors : ReAdd(a) \/ AddNew(a) \/ Remove(a) \/ WriteRefreshed(a)
<1>1. ASSUME store' = store PROVE Steady
  BY <1>1 DEF Steady
<1>2. ASSUME NEW a \in Actors, SetMode(a) PROVE Steady
  <2>1. ASSUME NEW d, store' = [store EXCEPT ![op[a].id] = [@ EXCEPT !.auto = op[a].auto, !.down = d]]
        PROVE  Steady
    BY <2>1 DEF Steady, TypeOK, Record
  <2> QED BY <1>1, <1>2, <2>1, Zenon DEF SetMode
<1>3. ASSUME NEW a \in Actors, UserConnect(a) \/ UserDisconnect(a) PROVE Steady
  <2>1. ASSUME NEW d, store' = [store EXCEPT ![op[a].id].down = d] PROVE Steady
    BY <2>1 DEF Steady, TypeOK, Record
  <2> QED BY <1>1, <1>3, <2>1, Zenon DEF UserConnect, UserDisconnect
<1>4. ASSUME NEW a \in Actors, Handled(a)
      PROVE  \/ store' = store \/ SetMode(a) \/ UserConnect(a) \/ UserDisconnect(a)
             \/ ReAdd(a) \/ AddNew(a) \/ Remove(a) \/ WriteRefreshed(a)
  BY <1>4, Zenon DEF Handled, TakeIndex, TakeLock, LockTimesOut, AddExisting, AutoConnect, Reconnect,
     Refresh, ClearDeadActive, CheckSocket, Up, UpFails, SaveActive, PostUpFails, Down,
     CleanupConfirmed, DownFails
<1>5. (\E a \in Actors : Handled(a)) \/ store' = store
  BY Zenon DEF Next, Requested, AskAdd, AskRemove, AskMode, Ask, Helpers, HelperExits, HelperKilled,
     SweepDead, Booting, BootStart, BootDone, BootNext, DaemonRestarts, Reboot, vars
<1> QED BY <1>1, <1>2, <1>3, <1>4, <1>5, Zenon

LEMMA IdentityBegins ==
  ASSUME TypeOK, LockInv, IdentityInv, NEW a \in Actors, NEW o \in Op, Begins(a, o)
  PROVE  IdentityInv'
<1>1. op'[a] = o /\ (\A b \in Actors : b # a => op'[b] = op[b]) /\ Steady
  BY DEF Begins, TypeOK, Steady
<1>2. CheckedRefresh(op[a])' /\ CheckedAdd(op[a])'
  BY <1>1 DEF Begins, CheckedRefresh, CheckedAdd
<1> QED BY <1>1, <1>2, IdentityKept

(* What lookups under the index lock found free is unique when written.    *)
LEMMA IdentityStep == TypeOK /\ LockInv /\ IdentityInv /\ [Next]_vars => IdentityInv'
<1> SUFFICES ASSUME TypeOK, LockInv, IdentityInv, [Next]_vars PROVE IdentityInv'
  OBVIOUS
<1>0. store' = store => Steady
  BY DEF Steady
<1>1. ASSUME Requested PROVE IdentityInv'
  BY <1>1, RequestBegins, IdentityBegins
<1>2. ASSUME NEW a \in Actors, Handled(a) PROVE IdentityInv'
  <2>0. /\ OpOK(op[a]) /\ op[a] \in Op /\ op[a].id \in Ids \cup {None}
        /\ CheckedRefresh(op[a]) /\ CheckedAdd(op[a])
    BY OpFields DEF LockInv, IdentityInv
  <2>1. CASE TakeIndex(a)
    <3>1. /\ Steady /\ op[a].pc = "index"
          /\ op' = [op EXCEPT ![a].pc = IF op[a].kind = "add" THEN "add" ELSE "lock"]
      BY <1>0, <2>1, Zenon DEF TakeIndex
    <3>2. /\ op'[a].kind = op[a].kind
          /\ op'[a].pc = (IF op[a].kind = "add" THEN "add" ELSE "lock")
          /\ \A b \in Actors : b # a => op'[b] = op[b]
      BY <2>0, <3>1 DEF TypeOK, Op
    <3>3. CheckedRefresh(op[a])' /\ CheckedAdd(op[a])'
      BY <3>2 DEF CheckedRefresh, CheckedAdd
    <3> QED BY <3>1, <3>2, <3>3, IdentityKept
  <2>2. CASE TakeLock(a)
    <3>1. /\ Steady /\ op[a].pc = "lock" /\ op' = [op EXCEPT ![a].pc = "locked"]
      BY <1>0, <2>2, Zenon DEF TakeLock
    <3>2. /\ op'[a].kind = op[a].kind /\ op'[a].pc = "locked" /\ op'[a].id = op[a].id
          /\ op'[a].copy = op[a].copy /\ op'[a].name = op[a].name /\ op'[a].force = op[a].force
          /\ \A b \in Actors : b # a => op'[b] = op[b]
      BY <2>0, <3>1 DEF TypeOK, Op
    <3>3. CheckedRefresh(op[a])'
      BY <3>2 DEF CheckedRefresh
    <3>4. CheckedAdd(op[a])'
      <4>1. op[a].id \in Ids
        BY <2>0, <3>1 DEF OpOK
      <4> QED BY <2>0, <3>1, <3>2, <4>1, SteadyLookups DEF CheckedAdd, Steady
    <3> QED BY <3>1, <3>2, <3>3, <3>4, IdentityKept
  <2>3. CASE LockTimesOut(a)
    BY <1>0, <2>3, IdentityFinish, Zenon DEF LockTimesOut
  <2>4. ASSUME NEW j \in Ids, AddExisting(a, j) PROVE IdentityInv'
    <3>1. Steady
      BY <1>0, <2>4, Zenon DEF AddExisting
    <3>2. CASE Finish(a, TRUE)
      BY <3>1, <3>2, IdentityFinish
    <3>3. CASE ~Finish(a, TRUE)
      <4>1. /\ op[a].pc = "add" /\ j \in WithConfig(op[a].config)
            /\ op' = [op EXCEPT ![a] = [@ EXCEPT !.pc = "lock", !.id = j, !.copy = store[j]]]
            /\ op[a].name # None /\ op[a].name # store[j].name => ~NameTaken(a, {j})
        BY <2>4, <3>3, Zenon DEF AddExisting
      <4>2. /\ op'[a].kind = op[a].kind /\ op'[a].pc = "lock" /\ op'[a].id = j
            /\ op'[a].copy = store[j] /\ op'[a].name = op[a].name /\ op'[a].force = op[a].force
            /\ \A b \in Actors : b # a => op'[b] = op[b]
        BY <2>0, <4>1 DEF TypeOK, Op
      <4>3. CheckedRefresh(op[a])'
        BY <4>2 DEF CheckedRefresh
      <4>4. CheckedAdd(op[a])'
        <5>1. Stored(j)
          BY <4>1 DEF WithConfig
        <5>2. op[a].name # None /\ op[a].name # store[j].name /\ ~op[a].force
                => WithName(op[a].name) \subseteq {j}
          BY <4>1 DEF NameTaken
        <5>3. Stored(j)' /\ WithName(op[a].name)' = WithName(op[a].name)
          BY <3>1, <4>2, <5>1, SteadyLookups
        <5>4. store'[j].config = store[j].config /\ store'[j].name = store[j].name
              /\ store[j].state = "stored"
          BY <3>1, <5>1 DEF Steady, Stored
        <5> QED BY <4>2, <5>2, <5>3, <5>4 DEF CheckedAdd
      <4> QED BY <3>1, <4>2, <4>3, <4>4, IdentityKept
    <3> QED BY <3>2, <3>3
  <2>5. CASE ReAdd(a)
    <3>1. /\ op[a].kind = "add" /\ op[a].pc = "locked" /\ Finish(a, TRUE)
          /\ \E n, u, d : store' = [store EXCEPT ![op[a].id] =
                            [op[a].copy EXCEPT !.name = n, !.auto = u, !.down = d]]
      BY <2>5 DEF ReAdd
    <3>2. op[a].id \in Ids /\ HasIndex(op[a]) /\ op[a].copy \in Record
      BY <2>0, <3>1, OpFields DEF OpOK, Locking, HasIndex
    <3>3. \A i \in Ids : store'[i].state = store[i].state /\ store'[i].config = store[i].config
      BY <2>0, <3>1, <3>2 DEF TypeOK, CheckedAdd, Stored, Record
    <3>4. UniqueIdentity'
      BY <3>3 DEF IdentityInv, UniqueIdentity, Stored
    <3> QED BY <3>1, <3>2, <3>4, IdentityWrittenLast
  <2>6. CASE AddNew(a)
    <3>1. op[a].pc = "add" /\ WithConfig(op[a].config) = {} /\ Finish(a, TRUE)
      BY <2>6, Zenon DEF AddNew
    <3>2. HasIndex(op[a])
      BY <3>1 DEF HasIndex
    <3>3. CASE store' = store
      BY <1>0, <3>1, <3>3, IdentityFinish
    <3>4. ASSUME NEW i \in Ids, store[i].state = "unused",
                 store' = [store EXCEPT ![i] =
                  [state |-> "stored", config |-> op[a].config, name |-> op[a].name,
                   auto |-> op[a].auto, down |-> FALSE]]
          PROVE  IdentityInv'
      <4>1. /\ \A k \in Ids : k # i => store'[k] = store[k]
            /\ store'[i].config = op[a].config
        BY <3>4 DEF TypeOK
      <4>2. \A k \in Ids : Stored(k) => store[k].config # op[a].config
        BY <3>1 DEF WithConfig
      <4>3. UniqueIdentity'
        BY <4>1, <4>2 DEF IdentityInv, UniqueIdentity, Stored
      <4> QED BY <3>1, <3>2, <4>3, IdentityWrittenLast
    <3> QED BY <2>6, <3>3, <3>4, Zenon DEF AddNew
  <2>7. CASE Remove(a)
    <3>1. op[a].kind = "remove" /\ op[a].pc = "locked" /\ Finish(a, TRUE)
      BY <2>7, Zenon DEF Remove
    <3>2. HasIndex(op[a]) /\ op[a].id \in Ids
      BY <2>0, <3>1 DEF HasIndex, OpOK, Locking
    <3>3. CASE store' = store
      BY <1>0, <3>1, <3>3, IdentityFinish
    <3>4. CASE store' = [store EXCEPT ![op[a].id] = [NoRecord EXCEPT !.state = "removed"]]
      <4>1. /\ \A k \in Ids : k # op[a].id => store'[k] = store[k]
            /\ store'[op[a].id].state = "removed"
        BY <3>2, <3>4 DEF TypeOK, NoRecord
      <4>2. UniqueIdentity'
        BY <4>1 DEF IdentityInv, UniqueIdentity, Stored
      <4> QED BY <3>1, <3>2, <4>2, IdentityWrittenLast
    <3> QED BY <2>7, <3>3, <3>4, Zenon DEF Remove
  <2>8. CASE SetMode(a)
    <3>1. Finish(a, TRUE) /\ op[a].id \in Ids
      BY <2>0, <2>8, Zenon DEF SetMode, OpOK, Locking
    <3>2. CASE store' = store
      BY <1>0, <3>1, <3>2, IdentityFinish
    <3>3. ASSUME NEW d, store' = [store EXCEPT ![op[a].id] = [@ EXCEPT !.auto = op[a].auto, !.down = d]]
          PROVE  IdentityInv'
      <4>1. Steady
        BY <3>1, <3>3 DEF Steady, TypeOK, Record
      <4> QED BY <3>1, <4>1, IdentityFinish
    <3> QED BY <2>8, <3>2, <3>3, Zenon DEF SetMode
  <2>9. CASE UserConnect(a)
    <3>1. op[a].kind = "connect" /\ op[a].pc = "locked" /\ (Finish(a, FALSE) \/ Goto(a, "connect"))
      BY <2>9, Zenon DEF UserConnect
    <3>2. store' = store \/ store' = [store EXCEPT ![op[a].id].down = FALSE]
      BY <2>9, Zenon DEF UserConnect
    <3>3. Steady
      BY <3>2 DEF Steady, TypeOK, Record
    <3> QED BY <3>1, <3>3, IdentityFinish, IdentityGoto
  <2>10. CASE AutoConnect(a)
    <3>1. /\ op[a].kind \in {"auto", "boot"} /\ Steady
          /\ Finish(a, FALSE) \/ Finish(a, TRUE) \/ Goto(a, "connect")
      BY <1>0, <2>10 DEF AutoConnect
    <3> QED BY <3>1, IdentityFinish, IdentityGoto
  <2>11. CASE UserDisconnect(a)
    <3>1. /\ op[a].kind \in {"disconnect", "teardown"} /\ op[a].pc = "locked"
          /\ Finish(a, FALSE) \/ Goto(a, "down")
      BY <2>11, Zenon DEF UserDisconnect
    <3>2. store' = store \/ store' = [store EXCEPT ![op[a].id].down = TRUE]
      BY <2>11, Zenon DEF UserDisconnect
    <3>3. Steady
      BY <3>2 DEF Steady, TypeOK, Record
    <3> QED BY <3>1, <3>3, IdentityFinish, IdentityGoto
  <2>12. CASE Reconnect(a)
    <3>1. op[a].kind = "reconnect" /\ Steady /\ (Finish(a, TRUE) \/ Goto(a, "down"))
      BY <1>0, <2>12, Zenon DEF Reconnect
    <3> QED BY <3>1, IdentityFinish, IdentityGoto
  <2>13. CASE Refresh(a)
    <3>1. Steady
      BY <1>0, <2>13, Zenon DEF Refresh
    <3>2. CASE Finish(a, TRUE)
      BY <3>1, <3>2, IdentityFinish
    <3>3. CASE ~Finish(a, TRUE)
      <4>1. /\ op[a].kind = "refresh" /\ op[a].pc = "locked"
            /\ Stored(op[a].id) /\ WithConfig(op[a].config) = {} /\ BeginRefresh(a)
        BY <2>13, <3>3, Zenon DEF Refresh
      <4>2. PICK p, u : op' = [op EXCEPT ![a].pc = p, ![a].wasUp = u]
        BY <4>1, Zenon DEF BeginRefresh
      <4>3. /\ op'[a].kind = op[a].kind /\ op'[a].id = op[a].id /\ op'[a].config = op[a].config
            /\ \A b \in Actors : b # a => op'[b] = op[b]
        BY <2>0, <4>2 DEF TypeOK, Op
      <4>4. op[a].id \in Ids
        BY <2>0, <4>1 DEF OpOK, Locking
      <4>5. CheckedRefresh(op[a])'
        BY <3>1, <4>1, <4>3, <4>4, SteadyLookups DEF CheckedRefresh
      <4>6. CheckedAdd(op[a])'
        BY <4>1, <4>3 DEF CheckedAdd
      <4> QED BY <3>1, <4>3, <4>5, <4>6, IdentityKept
    <3> QED BY <3>2, <3>3
  <2>14. CASE WriteRefreshed(a)
    <3>1. op[a].pc = "write" /\ op[a].kind = "refresh" /\ op[a].id \in Ids
      BY <2>0, <2>14, Zenon DEF WriteRefreshed, OpOK, Locking
    <3>2. HasIndex(op[a]) /\ WithConfig(op[a].config) = {} /\ Stored(op[a].id)
      BY <2>0, <3>1 DEF HasIndex, CheckedRefresh
    <3>3. CASE store' = [store EXCEPT ![op[a].id].config = op[a].config]
      <4>1. /\ \A k \in Ids : k # op[a].id => store'[k] = store[k]
            /\ store'[op[a].id].config = op[a].config
            /\ store'[op[a].id].state = store[op[a].id].state
        BY <3>1, <3>3 DEF TypeOK, Record
      <4>2. \A k \in Ids : Stored(k) => store[k].config # op[a].config
        BY <3>2 DEF WithConfig
      <4>3. UniqueIdentity'
        BY <4>1, <4>2 DEF IdentityInv, UniqueIdentity, Stored
      <4>4. CASE op' = [op EXCEPT ![a].pc = "connect"]
        <5>1. op'[a].pc = "connect" /\ \A b \in Actors : b # a => op'[b] = op[b]
          BY <2>0, <4>4 DEF TypeOK, Op
        <5>2. CheckedRefresh(op[a])' /\ CheckedAdd(op[a])'
          BY <5>1 DEF CheckedRefresh, CheckedAdd
        <5> QED BY <3>2, <4>3, <5>1, <5>2, IdentityWritten
      <4>5. CASE \E ok : Finish(a, ok)
        BY <3>2, <4>3, <4>5, IdentityWrittenLast
      <4> QED BY <2>14, <4>4, <4>5, Zenon DEF WriteRefreshed
    <3>4. CASE store' = store /\ Finish(a, FALSE)
      BY <1>0, <3>4, IdentityFinish
    <3> QED BY <2>14, <3>3, <3>4, Zenon DEF WriteRefreshed
  <2>15. CASE ClearDeadActive(a) \/ UpFails(a) \/ SaveActive(a) \/ DownFails(a)
    BY <1>0, <2>15, IdentityFinish, Zenon DEF ClearDeadActive, UpFails, SaveActive, DownFails
  <2>16. CASE CheckSocket(a)
    <3>1. op[a].pc = "connect" /\ Steady /\ ((\E ok : Finish(a, ok)) \/ Goto(a, "up"))
      BY <1>0, <2>16, Zenon DEF CheckSocket
    <3> QED BY <2>0, <3>1, IdentityFinish, IdentityGoto DEF OpOK
  <2>17. CASE Up(a)
    <3>1. op[a].pc = "up" /\ Steady /\ (Finish(a, FALSE) \/ Goto(a, "post"))
      BY <1>0, <2>17, Zenon DEF Up
    <3> QED BY <2>0, <3>1, IdentityFinish, IdentityGoto DEF OpOK
  <2>18. CASE PostUpFails(a)
    <3>1. Steady
      BY <1>0, <2>18, Zenon DEF PostUpFails
    <3>2. CASE Finish(a, FALSE)
      BY <3>1, <3>2, IdentityFinish
    <3>3. CASE op' = [op EXCEPT ![a].pc = "down", ![a].kind = "rollback"]
      <4>1. op'[a].kind = "rollback" /\ \A b \in Actors : b # a => op'[b] = op[b]
        BY <2>0, <3>3 DEF TypeOK, Op
      <4>2. CheckedRefresh(op[a])' /\ CheckedAdd(op[a])'
        BY <4>1 DEF CheckedRefresh, CheckedAdd
      <4> QED BY <3>1, <4>1, <4>2, IdentityKept
    <3> QED BY <2>18, <3>2, <3>3, Zenon DEF PostUpFails
  <2>19. CASE Down(a)
    <3>1. op[a].pc = "down" /\ Steady /\ ((\E ok : Finish(a, ok)) \/ (\E place : Goto(a, place)))
      BY <1>0, <2>19 DEF Down, DownDone
    <3> QED BY <2>0, <3>1, IdentityFinish, IdentityGoto DEF OpOK
  <2>20. CASE CleanupConfirmed(a)
    <3>1. op[a].pc = "wait" /\ Steady /\ ((\E ok : Finish(a, ok)) \/ (\E place : Goto(a, place)))
      BY <1>0, <2>20 DEF CleanupConfirmed, DownDone
    <3> QED BY <2>0, <3>1, IdentityFinish, IdentityGoto DEF OpOK
  <2> QED BY <1>2, <2>1, <2>2, <2>3, <2>4, <2>5, <2>6, <2>7, <2>8, <2>9, <2>10, <2>11, <2>12, <2>13,
             <2>14, <2>15, <2>16, <2>17, <2>18, <2>19, <2>20, Zenon DEF Handled
<1>3. ASSUME UNCHANGED <<store, op>> PROVE IdentityInv'
  BY <1>3 DEF IdentityInv, UniqueIdentity, CheckedRefresh, CheckedAdd, Stored, WithConfig, WithName
<1>4. ASSUME Helpers PROVE IdentityInv'
  <2>1. ASSUME NEW i \in Ids, HelperExits(i) \/ HelperKilled(i) PROVE IdentityInv'
    BY <1>3, <2>1, Zenon DEF HelperExits, HelperKilled
  <2>2. ASSUME NEW w \in Workers, NEW i \in Ids, SweepDead(w, i) PROVE IdentityInv'
    BY <2>2, SweepBegins, IdentityBegins
  <2> QED BY <1>4, <2>1, <2>2 DEF Helpers
<1>5. ASSUME Booting PROVE IdentityInv'
  <2>1. CASE BootStart \/ BootDone
    BY <1>3, <2>1, Zenon DEF BootStart, BootDone
  <2>2. ASSUME NEW i \in Ids, BootNext(i) PROVE IdentityInv'
    BY <2>2, BootBegins, IdentityBegins
  <2> QED BY <1>5, <2>1, <2>2 DEF Booting
<1>6. CASE DaemonRestarts \/ Reboot
  <2>1. op' = [a \in Actors |-> NoOp] /\ store' = store
    BY <1>6, Zenon DEF DaemonRestarts, Reboot, NewDaemon
  <2>2. \A a \in Actors : op'[a].kind = "none"
    BY <2>1 DEF NoOp
  <2> QED BY <2>1, <2>2 DEF IdentityInv, UniqueIdentity, Stored, CheckedRefresh, CheckedAdd
<1>7. CASE UNCHANGED vars
  BY <1>3, <1>7 DEF vars
<1> QED BY <1>1, <1>2, <1>4, <1>5, <1>6, <1>7, Zenon DEF Next

LEMMA IdentitiesChecked == Spec => []IdentityInv
<1>1. ASSUME Init PROVE IdentityInv
  <2>1. (\A a \in Actors : op[a].kind = "none") /\ (\A i \in Ids : ~Stored(i))
    BY <1>1 DEF Init, NoOp, NoRecord, Stored
  <2> QED BY <2>1 DEF IdentityInv, UniqueIdentity, CheckedRefresh, CheckedAdd
<1> QED BY <1>1, IdentityStep, TypeCorrect, LocksInOrder, PTL DEF Spec

(* Unless it is taken by force a name is free when a record gets it.       *)
LEMMA NameStep ==
  ASSUME "force" \notin Requests
  PROVE  TypeOK /\ LockInv /\ IdentityInv /\ NameInv /\ [Next]_vars => NameInv'
<1> SUFFICES ASSUME TypeOK, LockInv, IdentityInv, NameInv, [Next]_vars PROVE NameInv'
  OBVIOUS
<1>1. \A a \in Actors : ~op'[a].force
  <2>1. ASSUME NEW a \in Actors, NEW o, op' = [op EXCEPT ![a] = o], ~o.force
        PROVE  \A b \in Actors : ~op'[b].force
    BY <2>1 DEF NameInv, TypeOK
  <2>2. ASSUME NEW a \in Actors, NEW ok, Finish(a, ok)
        PROVE  \A b \in Actors : ~op'[b].force
    <3>1. op' = [op EXCEPT ![a] = NoOp] /\ ~NoOp.force
      BY <2>2 DEF Finish, NoOp
    <3> QED BY <2>1, <3>1
  <2>3. ASSUME NEW a \in Actors, NEW place, Goto(a, place)
        PROVE  \A b \in Actors : ~op'[b].force
    BY <2>3 DEF Goto, NameInv, TypeOK, Op
  <2>4. ASSUME NEW a \in Actors, NEW o \in Op, Begins(a, o)
        PROVE  \A b \in Actors : ~op'[b].force
    BY <2>1, <2>4 DEF Begins
  <2>5. ASSUME NEW a \in Actors, Handled(a) PROVE \A b \in Actors : ~op'[b].force
    <3>1. CASE TakeIndex(a)
      BY <3>1 DEF TakeIndex, NameInv, TypeOK, Op
    <3>2. CASE TakeLock(a)
      BY <3>2 DEF TakeLock, NameInv, TypeOK, Op
    <3>3. ASSUME NEW j \in Ids, AddExisting(a, j) PROVE \A b \in Actors : ~op'[b].force
      <4>1. CASE op' = [op EXCEPT ![a] = [@ EXCEPT !.pc = "lock", !.id = j, !.copy = store[j]]]
        BY <4>1 DEF NameInv, TypeOK, Op
      <4> QED BY <2>2, <3>3, <4>1, Zenon DEF AddExisting
    <3>4. CASE Refresh(a)
      <4>1. CASE BeginRefresh(a)
        <5>1. PICK p, u : op' = [op EXCEPT ![a].pc = p, ![a].wasUp = u]
          BY <4>1, Zenon DEF BeginRefresh
        <5> QED BY <5>1 DEF NameInv, TypeOK, Op
      <4> QED BY <2>2, <3>4, <4>1, Zenon DEF Refresh
    <3>5. CASE WriteRefreshed(a)
      <4>1. CASE op' = [op EXCEPT ![a].pc = "connect"]
        BY <4>1 DEF NameInv, TypeOK, Op
      <4> QED BY <2>2, <3>5, <4>1, Zenon DEF WriteRefreshed
    <3>6. CASE PostUpFails(a)
      <4>1. CASE op' = [op EXCEPT ![a].pc = "down", ![a].kind = "rollback"]
        BY <4>1 DEF NameInv, TypeOK, Op
      <4> QED BY <2>2, <3>6, <4>1, Zenon DEF PostUpFails
    <3>7. CASE Down(a) \/ CleanupConfirmed(a)
      <4>1. (\E ok : Finish(a, ok)) \/ (\E place : Goto(a, place))
        BY <3>7 DEF Down, CleanupConfirmed, DownDone
      <4> QED BY <2>2, <2>3, <4>1
    <3>8. CASE AutoConnect(a)
      <4>1. Finish(a, FALSE) \/ Finish(a, TRUE) \/ Goto(a, "connect")
        BY <3>8 DEF AutoConnect
      <4> QED BY <2>2, <2>3, <4>1
    <3>9. CASE \/ LockTimesOut(a) \/ ReAdd(a) \/ AddNew(a) \/ Remove(a) \/ SetMode(a)
               \/ UserConnect(a) \/ UserDisconnect(a) \/ Reconnect(a) \/ ClearDeadActive(a)
               \/ CheckSocket(a) \/ Up(a) \/ UpFails(a) \/ SaveActive(a) \/ DownFails(a)
      <4>1. (\E ok : Finish(a, ok)) \/ (\E place : Goto(a, place))
        BY <3>9, Zenon DEF LockTimesOut, ReAdd, AddNew, Remove, SetMode, UserConnect,
           UserDisconnect, Reconnect, ClearDeadActive, CheckSocket, Up, UpFails, SaveActive, DownFails
      <4> QED BY <2>2, <2>3, <4>1
    <3> QED BY <2>5, <3>1, <3>2, <3>3, <3>4, <3>5, <3>6, <3>7, <3>8, <3>9, Zenon DEF Handled
  <2>6. CASE op' = op
    BY <2>6 DEF NameInv
  <2>7. CASE op' = [a \in Actors |-> NoOp]
    BY <2>7 DEF NoOp
  <2>8. \/ Requested \/ (\E a \in Actors : Handled(a))
        \/ (\E w \in Workers, i \in Ids : SweepDead(w, i)) \/ (\E i \in Ids : BootNext(i))
        \/ op' = op \/ op' = [a \in Actors |-> NoOp]
    BY Zenon DEF Next, Helpers, Booting, HelperExits, HelperKilled, BootStart, BootDone,
             DaemonRestarts, Reboot, NewDaemon, vars
  <2> QED BY <2>4, <2>5, <2>6, <2>7, <2>8, RequestBegins, SweepBegins, BootBegins
<1>2. UniqueNames'
  <2>1. ASSUME Steady PROVE UniqueNames'
    BY <2>1 DEF NameInv, UniqueNames, Steady, Stored
  <2>2. ASSUME NEW a \in Actors, ReAdd(a) PROVE UniqueNames'
    <3> DEFINE i == op[a].id
               renamed == op[a].name # None /\ op[a].name # op[a].copy.name
    <3>1. /\ op[a].kind = "add" /\ op[a].pc = "locked"
          /\ \E u, d : store' = [store EXCEPT ![i] =
               [op[a].copy EXCEPT !.name = IF renamed THEN op[a].name ELSE @, !.auto = u, !.down = d]]
      BY <2>2 DEF ReAdd
    <3>2. /\ i \in Ids /\ op[a].copy \in Record
          /\ CheckedAdd(op[a]) /\ ~op[a].force
      BY <3>1, OpFields DEF LockInv, OpOK, Locking, IdentityInv, NameInv
    <3>3. /\ \A k \in Ids : k # i => store'[k] = store[k]
          /\ store'[i].name = (IF renamed THEN op[a].name ELSE op[a].copy.name)
          /\ store'[i].state = "stored"
      BY <3>1, <3>2 DEF TypeOK, Record, CheckedAdd
    <3>4. CASE renamed
      <4>1. \A k \in Ids : Stored(k) /\ store[k].name = op[a].name => k = i
        BY <3>1, <3>2, <3>4 DEF CheckedAdd, WithName
      <4> QED BY <3>2, <3>3, <3>4, <4>1 DEF NameInv, UniqueNames, Stored
    <3>5. CASE ~renamed
      <4>1. Stored(i) /\ store'[i].name = store[i].name
        BY <3>1, <3>2, <3>3, <3>5 DEF CheckedAdd
      <4> QED BY <3>2, <3>3, <4>1 DEF NameInv, UniqueNames, Stored
    <3> QED BY <3>4, <3>5
  <2>3. ASSUME NEW a \in Actors, AddNew(a) PROVE UniqueNames'
    <3>1. CASE store' = store
      BY <2>1, <3>1 DEF Steady
    <3>2. ASSUME NEW i \in Ids, ~NameTaken(a, {}),
                 store' = [store EXCEPT ![i] =
                  [state |-> "stored", config |-> op[a].config, name |-> op[a].name,
                   auto |-> op[a].auto, down |-> FALSE]]
          PROVE  UniqueNames'
      <4>1. (\A k \in Ids : k # i => store'[k] = store[k]) /\ store'[i].name = op[a].name
        BY <3>2 DEF TypeOK
      <4>2. op[a].name # None => \A k \in Ids : Stored(k) => store[k].name # op[a].name
        BY <3>2 DEF NameTaken, NameInv, WithName
      <4> QED BY <4>1, <4>2 DEF NameInv, UniqueNames, Stored
    <3> QED BY <2>3, <3>1, <3>2, Zenon DEF AddNew
  <2>4. ASSUME NEW a \in Actors, Remove(a) PROVE UniqueNames'
    <3>1. CASE store' = store
      BY <2>1, <3>1 DEF Steady
    <3>2. CASE store' = [store EXCEPT ![op[a].id] = [NoRecord EXCEPT !.state = "removed"]]
      <4>1. \A k \in Ids : store'[k] = store[k] \/ store'[k].state = "removed"
        BY <3>2 DEF TypeOK, NoRecord
      <4> QED BY <4>1 DEF NameInv, UniqueNames, Stored
    <3> QED BY <2>4, <3>1, <3>2, Zenon DEF Remove
  <2>5. ASSUME NEW a \in Actors, WriteRefreshed(a) PROVE UniqueNames'
    <3>1. CASE store' = store
      BY <2>1, <3>1 DEF Steady
    <3>2. CASE store' = [store EXCEPT ![op[a].id].config = op[a].config]
      <4>1. \A k \in Ids : store'[k].name = store[k].name /\ store'[k].state = store[k].state
        BY <3>2 DEF TypeOK, Record
      <4> QED BY <4>1 DEF NameInv, UniqueNames, Stored
    <3> QED BY <2>5, <3>1, <3>2, Zenon DEF WriteRefreshed
  <2> QED BY <2>1, <2>2, <2>3, <2>4, <2>5, WhoWrites
<1> QED BY <1>1, <1>2 DEF NameInv

(* handle_add_connection, refresh_connection: no two records have the same *)
(* configuration.                                                          *)
THEOREM IdentitiesUnique == Spec => []UniqueIdentity
<1>1. IdentityInv => UniqueIdentity
  BY DEF IdentityInv
<1> QED BY <1>1, IdentitiesChecked, PTL

(* ... and unless somebody forces it, no two have the same name.           *)
THEOREM RecordsUnique ==
  ASSUME "force" \notin Requests
  PROVE  Spec => []UniqueRecords
<1>1. ASSUME Init PROVE NameInv
  <2>1. (\A a \in Actors : ~op[a].force) /\ (\A i \in Ids : ~Stored(i))
    BY <1>1 DEF Init, NoOp, NoRecord, Stored
  <2> QED BY <2>1 DEF NameInv, UniqueNames
<1>2. IdentityInv /\ NameInv => UniqueRecords
  BY DEF IdentityInv, NameInv, UniqueRecords
<1> QED BY <1>1, <1>2, NameStep, IdentitiesChecked, TypeCorrect, LocksInOrder, PTL DEF Spec

-----------------------------------------------------------------------------
(* What becomes of the thread that takes a step, and of the others.        *)
LEMMA FinishOp ==
  ASSUME TypeOK, NEW a \in Actors, NEW ok, Finish(a, ok)
  PROVE  /\ op'[a].pc = "idle" /\ op'[a].kind = "none"
         /\ \A b \in Actors : b # a => op'[b] = op[b]
<1>1. op' = [op EXCEPT ![a] = NoOp]
  BY Zenon DEF Finish
<1> QED BY <1>1 DEF TypeOK, NoOp

LEMMA GotoOp ==
  ASSUME TypeOK, NEW a \in Actors, NEW place, Goto(a, place)
  PROVE  /\ op'[a].pc = place /\ op'[a].kind = op[a].kind /\ op'[a].id = op[a].id
         /\ op'[a].wasUp = op[a].wasUp
         /\ \A b \in Actors : b # a => op'[b] = op[b]
<1>1. op' = [op EXCEPT ![a].pc = place]
  BY Zenon DEF Goto
<1> QED BY <1>1, OpFields DEF TypeOK, Op

LEMMA RefreshOp ==
  ASSUME TypeOK, NEW a \in Actors, BeginRefresh(a)
  PROVE  /\ op'[a].pc = (IF IsActive(op[a].id) THEN "down" ELSE "write")
         /\ op'[a].kind = op[a].kind /\ op'[a].id = op[a].id
         /\ op'[a].wasUp = IsActive(op[a].id)
         /\ \A b \in Actors : b # a => op'[b] = op[b]
<1>1. PICK u : /\ op' = [op EXCEPT ![a].pc = IF u THEN "down" ELSE "write", ![a].wasUp = u]
               /\ u = IsActive(op[a].id)
  BY Zenon DEF BeginRefresh
<1> QED BY <1>1, OpFields DEF TypeOK, Op

LEMMA DownDoneOp ==
  ASSUME TypeOK, NEW a \in Actors, DownDone(a)
  PROVE  /\ \/ op'[a].pc = "idle" /\ op'[a].kind = "none"
            \/ /\ op'[a].pc = "connect" /\ op[a].kind = "reconnect"
               /\ op'[a].kind = op[a].kind /\ op'[a].id = op[a].id /\ op'[a].wasUp = op[a].wasUp
            \/ /\ op'[a].pc = "write" /\ op[a].kind = "refresh"
               /\ op'[a].kind = op[a].kind /\ op'[a].id = op[a].id /\ op'[a].wasUp = op[a].wasUp
         /\ \A b \in Actors : b # a => op'[b] = op[b]
<1>1. \/ \E ok : Finish(a, ok)
      \/ Goto(a, "connect") /\ op[a].kind = "reconnect"
      \/ Goto(a, "write") /\ op[a].kind = "refresh"
  BY DEF DownDone
<1> QED BY <1>1, FinishOp, GotoOp

(* A thread goes on by an action of its own.                               *)
LEMMA OthersStay ==
  ASSUME TypeOK, NEW a \in Actors, Handled(a)
  PROVE  \A b \in Actors : b # a => op'[b] = op[b]
<1>1. ASSUME NEW o, op' = [op EXCEPT ![a] = o] PROVE \A b \in Actors : b # a => op'[b] = op[b]
  BY <1>1 DEF TypeOK
<1>2. CASE Refresh(a)
  BY <1>2, FinishOp, RefreshOp, Zenon DEF Refresh
<1>3. CASE Down(a)
  BY <1>3, GotoOp, DownDoneOp, Zenon DEF Down
<1>4. CASE CleanupConfirmed(a)
  BY <1>4, DownDoneOp, Zenon DEF CleanupConfirmed
<1>5. CASE AutoConnect(a)
  <2>1. Finish(a, FALSE) \/ Finish(a, TRUE) \/ Goto(a, "connect")
    BY <1>5 DEF AutoConnect
  <2> QED BY <2>1, FinishOp, GotoOp
<1>6. CASE PostUpFails(a)
  <2>1. (\E ok : Finish(a, ok)) \/ op' = [op EXCEPT ![a].pc = "down", ![a].kind = "rollback"]
    BY <1>6, Zenon DEF PostUpFails
  <2> QED BY <2>1, FinishOp DEF TypeOK
<1>7. CASE \/ LockTimesOut(a) \/ ReAdd(a) \/ AddNew(a) \/ Remove(a) \/ SetMode(a)
           \/ UserConnect(a) \/ UserDisconnect(a) \/ Reconnect(a) \/ ClearDeadActive(a)
           \/ CheckSocket(a) \/ Up(a) \/ UpFails(a) \/ SaveActive(a) \/ DownFails(a)
  <2>1. (\E ok : Finish(a, ok)) \/ (\E place : Goto(a, place))
    BY <1>7, Zenon DEF LockTimesOut, ReAdd, AddNew, Remove, SetMode, UserConnect,
       UserDisconnect, Reconnect, ClearDeadActive, CheckSocket, Up, UpFails, SaveActive, DownFails
  <2> QED BY <2>1, FinishOp, GotoOp
<1>8. CASE TakeIndex(a) \/ TakeLock(a) \/ (\E j \in Ids : AddExisting(a, j)) \/ WriteRefreshed(a)
  <2>1. (\E ok : Finish(a, ok)) \/ (\E o : op' = [op EXCEPT ![a] = o])
    BY <1>8, Zenon DEF TakeIndex, TakeLock, AddExisting, WriteRefreshed
  <2> QED BY <1>1, <2>1, FinishOp
<1> QED BY <1>2, <1>3, <1>4, <1>5, <1>6, <1>7, <1>8, Zenon DEF Handled

LEMMA ThreadStep ==
  ASSUME TypeOK, [Next]_vars, NEW a \in Actors
  PROVE  \/ op'[a] = op[a]
         \/ op' = [b \in Actors |-> NoOp]
         \/ op[a].pc = "idle" /\ \E o \in Op : op'[a] = o /\ Begins(a, o)
         \/ Handled(a)
<1>1. ASSUME NEW b \in Actors, NEW o \in Op, Begins(b, o)
      PROVE  op'[a] = op[a] \/ (op[a].pc = "idle" /\ \E p \in Op : op'[a] = p /\ Begins(a, p))
  <2>1. op[b].pc = "idle" /\ op' = [op EXCEPT ![b] = o]
    BY <1>1, Zenon DEF Begins
  <2>2. op'[b] = o /\ (b # a => op'[a] = op[a])
    BY <2>1 DEF TypeOK
  <2> QED BY <1>1, <2>1, <2>2
<1>2. CASE Requested
  BY <1>1, <1>2, RequestBegins
<1>3. ASSUME NEW w \in Workers, NEW i \in Ids, SweepDead(w, i)
      PROVE  op'[a] = op[a] \/ (op[a].pc = "idle" /\ \E p \in Op : op'[a] = p /\ Begins(a, p))
  BY <1>1, <1>3, SweepBegins
<1>4. ASSUME NEW i \in Ids, BootNext(i)
      PROVE  op'[a] = op[a] \/ (op[a].pc = "idle" /\ \E p \in Op : op'[a] = p /\ Begins(a, p))
  BY <1>1, <1>4, BootBegins
<1>5. ASSUME NEW b \in Actors, Handled(b) PROVE op'[a] = op[a] \/ Handled(a)
  BY <1>5, OthersStay
<1>6. \/ Requested \/ (\E b \in Actors : Handled(b))
      \/ (\E w \in Workers, i \in Ids : SweepDead(w, i)) \/ (\E i \in Ids : BootNext(i))
      \/ op' = op \/ op' = [b \in Actors |-> NoOp]
  BY Zenon DEF Next, Helpers, Booting, HelperExits, HelperKilled, BootStart, BootDone,
           DaemonRestarts, Reboot, NewDaemon, vars
<1> QED BY <1>1, <1>2, <1>3, <1>4, <1>5, <1>6, Zenon

(* run_gotatun_up: a helper is never started while another one for the     *)
(* same interface runs.                                                    *)
THEOREM HelpersStartAlone == Spec => OneHelperEach
<1>1. TypeOK /\ [Next]_vars
        => [\A a \in Actors : op[a].pc = "up" /\ op'[a].pc = "post" => runs[op[a].id] = None]_vars
  <2> SUFFICES ASSUME TypeOK, [Next]_vars, NEW a \in Actors, op[a].pc = "up", op'[a].pc = "post"
               PROVE  runs[op[a].id] = None
    BY DEF OneHelperEach
  <2>1. Handled(a)
    <3>1. op'[a] # op[a] /\ op[a].pc # "idle"
      OBVIOUS
    <3>2. op' # [b \in Actors |-> NoOp]
      BY DEF NoOp
    <3> QED BY <3>1, <3>2, ThreadStep
  <2>2. CASE Up(a)
    <3>1. \A ok : ~Finish(a, ok)
      BY FinishOp
    <3> QED BY <2>2, <3>1, Zenon DEF Up
  <2>3. CASE LockTimesOut(a) \/ UpFails(a)
    BY <2>3, FinishOp, Zenon DEF LockTimesOut, UpFails
  <2>4. Up(a) \/ LockTimesOut(a) \/ UpFails(a)
    <3>1. op[a].pc \notin {"index", "lock", "add", "locked", "write", "connect", "post", "down", "wait"}
      OBVIOUS
    <3> QED BY <2>1, <3>1, Zenon DEF Handled, TakeIndex, TakeLock, AddExisting, ReAdd, AddNew, Remove,
         SetMode, UserConnect, AutoConnect, UserDisconnect, Reconnect, Refresh, WriteRefreshed,
         ClearDeadActive, CheckSocket, SaveActive, PostUpFails, Down, CleanupConfirmed, DownFails
  <2> QED BY <2>2, <2>3, <2>4
<1> QED BY <1>1, TypeCorrect, PTL DEF Spec, OneHelperEach

(* clear_dead_helper_leftovers: unless removing them fails, what a dead    *)
(* helper left behind does not end a connect.                              *)
THEOREM DeadHelpersGiveWay ==
  ASSUME MaxFaults = 0
  PROVE  Spec => DeadHelperNoObstacle
<1>1. TypeOK /\ [Next]_vars
        => [\A a \in Actors : op[a].pc = "connect" /\ runs[op[a].id] = None /\ NetworkFree
              /\ op'[a] # op[a] /\ op' # [b \in Actors |-> NoOp] => op'[a].pc = "up"]_vars
  <2> SUFFICES ASSUME TypeOK, [Next]_vars, NEW a \in Actors, op[a].pc = "connect",
                      runs[op[a].id] = None, NetworkFree, op'[a] # op[a],
                      op' # [b \in Actors |-> NoOp]
               PROVE  op'[a].pc = "up"
    OBVIOUS
  <2>1. Handled(a)
    <3>1. op[a].pc # "idle"
      OBVIOUS
    <3> QED BY <3>1, ThreadStep
  <2>2. CASE CheckSocket(a)
    <3>1. ~Fault /\ ~HelperIsLive(op[a].id)
      BY DEF Fault, TypeOK, HelperIsLive
    <3>2. Goto(a, "up")
      BY <2>2, <3>1, Zenon DEF CheckSocket
    <3> QED BY <3>2, GotoOp
  <2>3. ~LockTimesOut(a)
    BY DEF LockTimesOut
  <2>4. CheckSocket(a) \/ LockTimesOut(a)
    <3>1. op[a].pc \notin {"index", "lock", "add", "locked", "write", "up", "post", "down", "wait"}
      OBVIOUS
    <3> QED BY <2>1, <3>1, Zenon DEF Handled, TakeIndex, TakeLock, AddExisting, ReAdd, AddNew, Remove,
         SetMode, UserConnect, AutoConnect, UserDisconnect, Reconnect, Refresh, WriteRefreshed,
         ClearDeadActive, Up, UpFails, SaveActive, PostUpFails, Down, CleanupConfirmed, DownFails
  <2> QED BY <2>2, <2>3, <2>4
<1> QED BY <1>1, TypeCorrect, PTL DEF Spec, DeadHelperNoObstacle

-----------------------------------------------------------------------------
(* Who writes a record or changes what the user last said.                 *)
LEMMA WhoIntends ==
  ASSUME TypeOK, [Next]_vars
  PROVE  \/ UNCHANGED <<store, stay>>
         \/ \E a \in Actors : \/ ReAdd(a) \/ AddNew(a) \/ Remove(a) \/ WriteRefreshed(a)
                              \/ SetMode(a) \/ UserConnect(a) \/ UserDisconnect(a)
<1>1. ASSUME NEW a \in Actors, Handled(a)
      PROVE  \/ UNCHANGED <<store, stay>>
             \/ ReAdd(a) \/ AddNew(a) \/ Remove(a) \/ WriteRefreshed(a)
             \/ SetMode(a) \/ UserConnect(a) \/ UserDisconnect(a)
  BY <1>1, Zenon DEF Handled, TakeIndex, TakeLock, LockTimesOut, AddExisting, AutoConnect, Reconnect,
     Refresh, ClearDeadActive, CheckSocket, Up, UpFails, SaveActive, PostUpFails, Down,
     CleanupConfirmed, DownFails
<1>2. (\E a \in Actors : Handled(a)) \/ UNCHANGED <<store, stay>>
  BY Zenon DEF Next, Requested, AskAdd, AskRemove, AskMode, Ask, Helpers, HelperExits, HelperKilled,
     SweepDead, Booting, BootStart, BootDone, BootNext, DaemonRestarts, Reboot, vars
<1> QED BY <1>1, <1>2, Zenon

(* Which way a thread can get to where a connect begins.                   *)
LEMMA ConnectsFrom ==
  ASSUME TypeOK, LockInv, NEW a \in Actors, Handled(a), op'[a].kind \in {"auto", "boot"},
         op'[a].pc \in {"connect", "up"}
  PROVE  /\ op'[a].id = op[a].id /\ op'[a].kind = op[a].kind
         /\ AutoConnect(a) \/ op[a].pc = "connect"
<1>0. \A ok : ~Finish(a, ok)
  BY FinishOp
<1>1. CASE AutoConnect(a)
  <2>1. Goto(a, "connect")
    BY <1>0, <1>1 DEF AutoConnect
  <2> QED BY <1>1, <2>1, GotoOp
<1>2. CASE CheckSocket(a)
  <2>1. op[a].pc = "connect" /\ Goto(a, "up")
    BY <1>0, <1>2, Zenon DEF CheckSocket
  <2> QED BY <2>1, GotoOp
<1>3. CASE WriteRefreshed(a)
  <2>1. op' = [op EXCEPT ![a].pc = "connect"] /\ op[a].pc = "write"
    BY <1>0, <1>3, Zenon DEF WriteRefreshed
  <2>2. op'[a].kind = op[a].kind
    BY <2>1, OpFields DEF TypeOK, Op
  <2> QED BY <2>1, <2>2 DEF LockInv, OpOK
<1>4. CASE UserConnect(a)
  <2>1. op[a].kind = "connect" /\ Goto(a, "connect")
    BY <1>0, <1>4, Zenon DEF UserConnect
  <2> QED BY <2>1, GotoOp
<1>5. CASE UserDisconnect(a) \/ Reconnect(a) \/ Up(a)
  <2>1. Goto(a, "down") \/ Goto(a, "post")
    BY <1>0, <1>5, Zenon DEF UserDisconnect, Reconnect, Up
  <2> QED BY <2>1, GotoOp
<1>6. CASE Refresh(a)
  <2>1. BeginRefresh(a)
    BY <1>0, <1>6, Zenon DEF Refresh
  <2> QED BY <2>1, RefreshOp
<1>7. CASE Down(a)
  <2>1. Goto(a, "wait") \/ DownDone(a)
    BY <1>7, Zenon DEF Down
  <2> QED BY <2>1, GotoOp, DownDoneOp
<1>8. CASE CleanupConfirmed(a)
  <2>1. DownDone(a)
    BY <1>8, Zenon DEF CleanupConfirmed
  <2> QED BY <2>1, DownDoneOp
<1>9. CASE PostUpFails(a)
  <2>1. op' = [op EXCEPT ![a].pc = "down", ![a].kind = "rollback"]
    BY <1>0, <1>9, Zenon DEF PostUpFails
  <2> QED BY <2>1, OpFields DEF TypeOK, Op
<1>10. CASE TakeIndex(a)
  <2>1. op' = [op EXCEPT ![a].pc = IF op[a].kind = "add" THEN "add" ELSE "lock"]
    BY <1>10, Zenon DEF TakeIndex
  <2> QED BY <2>1, OpFields DEF TypeOK, Op
<1>11. CASE TakeLock(a)
  <2>1. op' = [op EXCEPT ![a].pc = "locked"]
    BY <1>11, Zenon DEF TakeLock
  <2> QED BY <2>1, OpFields DEF TypeOK, Op
<1>12. ASSUME NEW j \in Ids, AddExisting(a, j) PROVE FALSE
  <2>1. op' = [op EXCEPT ![a] = [@ EXCEPT !.pc = "lock", !.id = j, !.copy = store[j]]]
    BY <1>0, <1>12, Zenon DEF AddExisting
  <2> QED BY <2>1, OpFields DEF TypeOK, Op
<1>13. ~LockTimesOut(a) /\ ~ReAdd(a) /\ ~AddNew(a) /\ ~Remove(a) /\ ~SetMode(a)
       /\ ~ClearDeadActive(a) /\ ~UpFails(a) /\ ~SaveActive(a) /\ ~DownFails(a)
  BY <1>0, Zenon DEF LockTimesOut, ReAdd, AddNew, Remove, SetMode, ClearDeadActive, UpFails,
     SaveActive, DownFails
<1> QED BY <1>1, <1>2, <1>3, <1>4, <1>5, <1>6, <1>7, <1>8, <1>9, <1>10, <1>11, <1>12, <1>13, Zenon
        DEF Handled

(* A thread that adds a connection was told to.                            *)
LEMMA AddsFrom ==
  ASSUME TypeOK, NEW a \in Actors, Handled(a), op'[a].kind = "add"
  PROVE  op[a].kind = "add"
<1>0. \A ok : ~Finish(a, ok)
  BY FinishOp
<1>1. CASE \E place : Goto(a, place)
  BY <1>1, GotoOp
<1>2. CASE BeginRefresh(a)
  BY <1>2, RefreshOp
<1>3. CASE DownDone(a)
  BY <1>3, DownDoneOp
<1>4. CASE PostUpFails(a)
  <2>1. op' = [op EXCEPT ![a].pc = "down", ![a].kind = "rollback"]
    BY <1>0, <1>4, Zenon DEF PostUpFails
  <2> QED BY <2>1, OpFields DEF TypeOK, Op
<1>5. CASE TakeIndex(a) \/ TakeLock(a) \/ WriteRefreshed(a)
  <2>1. \E p : op' = [op EXCEPT ![a].pc = p]
    BY <1>0, <1>5, Zenon DEF TakeIndex, TakeLock, WriteRefreshed
  <2> QED BY <2>1, OpFields DEF TypeOK, Op
<1>6. ASSUME NEW j \in Ids, AddExisting(a, j) PROVE op[a].kind = "add"
  <2>1. op' = [op EXCEPT ![a] = [@ EXCEPT !.pc = "lock", !.id = j, !.copy = store[j]]]
    BY <1>0, <1>6, Zenon DEF AddExisting
  <2> QED BY <2>1, OpFields DEF TypeOK, Op
<1>7. CASE AutoConnect(a)
  <2>1. Goto(a, "connect")
    BY <1>0, <1>7 DEF AutoConnect
  <2> QED BY <1>1, <2>1
<1> QED BY <1>0, <1>1, <1>2, <1>3, <1>4, <1>5, <1>6, <1>7, Zenon
        DEF Handled, LockTimesOut, ReAdd, AddNew, Remove, SetMode, UserConnect, UserDisconnect,
            Reconnect, Refresh, ClearDeadActive, CheckSocket, Up, UpFails, SaveActive, Down,
            CleanupConfirmed, DownFails

(* The user's last word is kept with the record, and looked up under the   *)
(* connection lock before a reconciliation goes on.                        *)
LEMMA StayStep ==
  ASSUME "readd" \notin Requests
  PROVE  TypeOK /\ LockInv /\ IdentityInv /\ StayInv /\ [Next]_vars => StayInv'
<1> SUFFICES ASSUME TypeOK, LockInv, IdentityInv, StayInv, [Next]_vars PROVE StayInv'
  OBVIOUS
<1>0. ASSUME NEW a \in Actors, ReAdd(a) PROVE FALSE
  <2>1. op[a].kind = "add" /\ op[a].pc = "locked"
    BY <1>0, Zenon DEF ReAdd
  <2>2. op[a].id \in Ids /\ Stored(op[a].id)
    BY <2>1 DEF LockInv, OpOK, Locking, IdentityInv, CheckedAdd
  <2> QED BY <2>1, <2>2 DEF StayInv
<1>1. ASSUME NEW a \in Actors, op'[a].kind = "add"
      PROVE  a = "accept" /\ \A i \in Ids : ~Stored(i)'
  <2>1. CASE \E o \in Op : op'[a] = o /\ Begins(a, o)
    BY <1>1, <2>1 DEF Begins, Stored
  <2>2. CASE op[a].kind = "add"
    <3>1. a = "accept" /\ \A i \in Ids : ~Stored(i)
      BY <2>2 DEF StayInv
    <3>2. CASE Steady
      BY <3>1, <3>2, SteadyLookups
    <3>3. ASSUME NEW b \in Actors, AddNew(b) PROVE FALSE
      <4>1. op[b].pc = "add" /\ Finish(b, TRUE)
        BY <3>3, Zenon DEF AddNew
      <4>2. b = a
        BY <3>1, <4>1 DEF LockInv, OpOK, StayInv
      <4> QED BY <1>1, <4>1, <4>2, FinishOp
    <3>4. ASSUME NEW b \in Actors, Remove(b) PROVE \A i \in Ids : ~Stored(i)'
      <4>1. op[b].kind = "remove" /\ op[b].pc = "locked" /\ (Stored(op[b].id) \/ store' = store)
        BY <3>4, Zenon DEF Remove
      <4>2. op[b].id \in Ids
        BY <4>1 DEF LockInv, OpOK, Locking
      <4> QED BY <3>1, <4>1, <4>2 DEF Stored
    <3>5. ASSUME NEW b \in Actors, WriteRefreshed(b) PROVE \A i \in Ids : ~Stored(i)'
      <4>1. op[b].pc = "write"
        BY <3>5, Zenon DEF WriteRefreshed
      <4>2. op[b].id \in Ids /\ Stored(op[b].id)
        BY <4>1 DEF LockInv, OpOK, Locking, IdentityInv, CheckedRefresh
      <4> QED BY <3>1, <4>2
    <3> QED BY <1>0, <3>1, <3>2, <3>3, <3>4, <3>5, WhoWrites
  <2>3. op' # [b \in Actors |-> NoOp]
    BY <1>1 DEF NoOp
  <2> QED BY <1>1, <2>1, <2>2, <2>3, ThreadStep, AddsFrom
<1>2. ASSUME NEW i \in Ids, stay'[i]
      PROVE  store'[i].state # "unused" /\ (Stored(i)' => store'[i].down)
  <2>0. ASSUME stay[i], store'[i] = store[i] PROVE store'[i].state # "unused" /\ (Stored(i)' => store'[i].down)
    BY <2>0 DEF StayInv, Stored
  <2>1. CASE UNCHANGED <<store, stay>>
    BY <1>2, <2>0, <2>1
  <2>2. ASSUME NEW a \in Actors, AddNew(a)
        PROVE  store'[i].state # "unused" /\ (Stored(i)' => store'[i].down)
    <3>1. stay[i]
      BY <1>2, <2>2, Zenon DEF AddNew
    <3>2. store'[i] = store[i]
      <4>1. CASE store' = store
        BY <4>1
      <4>2. ASSUME NEW k \in Ids, NEW r, store[k].state = "unused", store' = [store EXCEPT ![k] = r]
            PROVE  store'[i] = store[i]
        BY <3>1, <4>2 DEF StayInv, TypeOK
      <4> QED BY <2>2, <4>1, <4>2, Zenon DEF AddNew
    <3> QED BY <2>0, <3>1, <3>2
  <2>3. ASSUME NEW a \in Actors, Remove(a)
        PROVE  store'[i].state # "unused" /\ (Stored(i)' => store'[i].down)
    <3>1. stay[i]
      BY <1>2, <2>3, Zenon DEF Remove
    <3>2. CASE store' = store
      BY <2>0, <3>1, <3>2
    <3>3. CASE store' = [store EXCEPT ![op[a].id] = [NoRecord EXCEPT !.state = "removed"]]
      <4>1. store'[i] = store[i] \/ store'[i].state = "removed"
        BY <3>3 DEF TypeOK, NoRecord
      <4> QED BY <2>0, <3>1, <4>1 DEF Stored
    <3> QED BY <2>3, <3>2, <3>3, Zenon DEF Remove
  <2>4. ASSUME NEW a \in Actors, WriteRefreshed(a)
        PROVE  store'[i].state # "unused" /\ (Stored(i)' => store'[i].down)
    <3>1. stay[i]
      BY <1>2, <2>4, Zenon DEF WriteRefreshed
    <3>2. CASE store' = store
      BY <2>0, <3>1, <3>2
    <3>3. CASE store' = [store EXCEPT ![op[a].id].config = op[a].config]
      <4>1. store'[i].state = store[i].state /\ store'[i].down = store[i].down
        BY <3>3 DEF TypeOK, Record
      <4> QED BY <3>1, <4>1 DEF StayInv, Stored
    <3> QED BY <2>4, <3>2, <3>3, Zenon DEF WriteRefreshed
  <2>5. ASSUME NEW a \in Actors, SetMode(a)
        PROVE  store'[i].state # "unused" /\ (Stored(i)' => store'[i].down)
    <3>1. CASE UNCHANGED <<store, stay>>
      BY <1>2, <2>0, <3>1
    <3>2. CASE /\ store' = [store EXCEPT ![op[a].id] = [@ EXCEPT !.auto = op[a].auto,
                                 !.down = store[op[a].id].down /\ ~op[a].auto]]
               /\ stay' = [stay EXCEPT ![op[a].id] = @ /\ ~op[a].auto]
      <4>1. stay[i] /\ (i = op[a].id => ~op[a].auto)
        BY <1>2, <3>2 DEF TypeOK
      <4>2. CASE i = op[a].id
        <5>1. store'[i].state = store[i].state /\ store'[i].down = (store[i].down /\ ~op[a].auto)
          BY <3>2, <4>2 DEF TypeOK, Record
        <5> QED BY <4>1, <4>2, <5>1 DEF StayInv, Stored
      <4>3. CASE i # op[a].id
        BY <2>0, <3>2, <4>1, <4>3 DEF TypeOK
      <4> QED BY <4>2, <4>3
    <3> QED BY <2>5, <3>1, <3>2, Zenon DEF SetMode
  <2>6. ASSUME NEW a \in Actors, UserConnect(a)
        PROVE  store'[i].state # "unused" /\ (Stored(i)' => store'[i].down)
    <3>1. CASE UNCHANGED <<store, stay>>
      BY <1>2, <2>0, <3>1
    <3>2. CASE /\ store' = [store EXCEPT ![op[a].id].down = FALSE]
               /\ stay' = [stay EXCEPT ![op[a].id] = FALSE]
      <4>1. i # op[a].id /\ stay[i] /\ store'[i] = store[i]
        BY <1>2, <3>2 DEF TypeOK
      <4> QED BY <2>0, <4>1
    <3> QED BY <2>6, <3>1, <3>2, Zenon DEF UserConnect
  <2>7. ASSUME NEW a \in Actors, UserDisconnect(a)
        PROVE  store'[i].state # "unused" /\ (Stored(i)' => store'[i].down)
    <3>1. CASE UNCHANGED <<store, stay>>
      BY <1>2, <2>0, <3>1
    <3>2. CASE /\ store' = [store EXCEPT ![op[a].id].down = TRUE]
               /\ stay' = [stay EXCEPT ![op[a].id] = TRUE]
               /\ Stored(op[a].id)
      <4>1. CASE i = op[a].id
        BY <3>2, <4>1 DEF TypeOK, Record, Stored
      <4>2. CASE i # op[a].id
        <5>1. stay[i] /\ store'[i] = store[i]
          BY <1>2, <3>2, <4>2 DEF TypeOK
        <5> QED BY <2>0, <5>1
      <4> QED BY <4>1, <4>2
    <3> QED BY <2>7, <3>1, <3>2, Zenon DEF UserDisconnect
  <2> QED BY <1>0, <2>1, <2>2, <2>3, <2>4, <2>5, <2>6, <2>7, WhoIntends
<1>3. ASSUME NEW a \in Actors, op'[a].kind \in {"auto", "boot"}, op'[a].pc \in {"connect", "up"}
      PROVE  ~stay'[op'[a].id]
  <2>1. op' # [b \in Actors |-> NoOp] /\ ~\E o \in Op : op'[a] = o /\ Begins(a, o)
    BY <1>3 DEF NoOp, Begins
  <2>2. CASE Handled(a) /\ AutoConnect(a)
    <3>1. /\ op'[a].id = op[a].id /\ stay' = stay
      BY <1>3, <2>2, ConnectsFrom, Zenon DEF AutoConnect
    <3>2. op[a].pc = "locked" /\ Stored(op[a].id) /\ ~store[op[a].id].down
      <4>1. \A ok : ~Finish(a, ok)
        BY <1>3, FinishOp
      <4> QED BY <2>2, <4>1 DEF AutoConnect
    <3>3. op[a].id \in Ids
      BY <3>2 DEF LockInv, OpOK, Locking
    <3> QED BY <3>1, <3>2, <3>3 DEF StayInv
  <2>3. CASE op'[a] = op[a] \/ (Handled(a) /\ op[a].pc = "connect")
    <3>1. /\ op[a].kind \in {"auto", "boot"} /\ op[a].pc \in {"connect", "up"}
          /\ op'[a].id = op[a].id
      BY <1>3, <2>3, ConnectsFrom
    <3>2. op[a].id \in Ids /\ ~stay[op[a].id]
      BY <3>1 DEF LockInv, OpOK, Locking, StayInv
    <3>3. ASSUME NEW b \in Actors, UserDisconnect(b) PROVE ~stay'[op[a].id]
      <4>1. CASE stay' = stay
        BY <3>2, <4>1
      <4>2. CASE stay' = [stay EXCEPT ![op[b].id] = TRUE]
        <5>1. op[b].pc = "locked"
          BY <3>3, Zenon DEF UserDisconnect
        <5>2. op[b].id \in Ids /\ connLock[op[b].id] = b /\ connLock[op[a].id] = a
          BY <3>1, <3>2, <5>1 DEF LockInv, OpOK, Locking
        <5>3. op[b].id # op[a].id
          BY <3>1, <5>1, <5>2
        <5> QED BY <3>2, <4>2, <5>3 DEF TypeOK
      <4> QED BY <3>3, <4>1, <4>2, Zenon DEF UserDisconnect
    <3>4. ASSUME NEW b \in Actors, SetMode(b) \/ UserConnect(b) PROVE ~stay'[op[a].id]
      <4>1. \/ stay' = stay
            \/ stay' = [stay EXCEPT ![op[b].id] = @ /\ ~op[b].auto]
            \/ stay' = [stay EXCEPT ![op[b].id] = FALSE]
        BY <3>4, Zenon DEF SetMode, UserConnect
      <4> QED BY <3>2, <4>1 DEF TypeOK
    <3>5. ASSUME NEW b \in Actors, AddNew(b) \/ Remove(b) \/ WriteRefreshed(b) PROVE ~stay'[op[a].id]
      <4>1. stay' = stay
        BY <3>5, Zenon DEF AddNew, Remove, WriteRefreshed
      <4> QED BY <3>2, <4>1
    <3>6. ~stay'[op[a].id]
      BY <1>0, <3>2, <3>3, <3>4, <3>5, WhoIntends
    <3> QED BY <3>1, <3>6
  <2> QED BY <1>3, <2>1, <2>2, <2>3, ThreadStep, ConnectsFrom
<1> QED BY <1>1, <1>2, <1>3 DEF StayInv

LEMMA IntentKept ==
  ASSUME "readd" \notin Requests
  PROVE  Spec => []StayInv
<1>1. ASSUME Init PROVE StayInv
  <2>1. (\A a \in Actors : op[a].kind = "none") /\ (\A i \in Ids : ~stay[i])
    BY <1>1 DEF Init, NoOp
  <2> QED BY <2>1 DEF StayInv
<1> QED BY <1>1, StayStep, IdentitiesChecked, TypeCorrect, LocksInOrder, PTL DEF Spec

(* StoredConnection::user_disconnected: no reconciliation brings up what   *)
(* the user disconnected.  A repeated add, which works on a record it read *)
(* before it had the connection lock, is left out.                         *)
THEOREM DisconnectIsHonoured ==
  ASSUME "readd" \notin Requests
  PROVE  Spec => DisconnectHonoured
<1>1. StayInv /\ [Next]_vars
        => [\A a \in Actors : op[a].kind \in {"auto", "boot"} /\ op[a].pc = "up"
                              /\ op'[a].pc = "post" => ~stay[op[a].id]]_vars
  BY DEF StayInv
<1> QED BY <1>1, IntentKept, PTL DEF Spec, DisconnectHonoured

-----------------------------------------------------------------------------
(* Where the thread is that has a connection's lock.                       *)
LEMMA PlaceHere ==
  ASSUME TypeOK, LockInv, NEW a \in Actors, op[a].pc \in Locking
  PROVE  op[a].id \in Ids /\ connLock[op[a].id] = a /\ Place(op[a].id) = op[a].pc
<1>1. op[a].id \in Ids /\ connLock[op[a].id] = a
  BY DEF LockInv, OpOK
<1>2. a # None
  BY ConnectionsAssumption DEF Actors
<1> QED BY <1>1, <1>2 DEF Place

LEMMA PlaceFree ==
  ASSUME TypeOK, LockInv, NEW i \in Ids, \A a \in Actors : op[a].pc \in Locking => op[a].id # i
  PROVE  Place(i) = "idle"
<1>1. connLock[i] = None
  BY DEF LockInv, TypeOK
<1> QED BY <1>1 DEF Place

LEMMA PlaceCases ==
  ASSUME TypeOK, LockInv, NEW i \in Ids
  PROVE  \/ Place(i) = "idle" /\ \A a \in Actors : op[a].pc \in Locking => op[a].id # i
         \/ \E a \in Actors : op[a].pc \in Locking /\ op[a].id = i /\ Place(i) = op[a].pc
<1>1. CASE \E a \in Actors : op[a].pc \in Locking /\ op[a].id = i
  BY <1>1, PlaceHere
<1>2. CASE \A a \in Actors : op[a].pc \in Locking => op[a].id # i
  BY <1>2, PlaceFree
<1> QED BY <1>1, <1>2

(* A step of a thread does not concern the connections it has nothing to   *)
(* do with.                                                                *)
LEMMA PlaceElsewhere ==
  ASSUME TypeOK, LockInv, TypeOK', LockInv', NEW a \in Actors,
         \A b \in Actors : b # a => op'[b] = op[b],
         NEW i \in Ids, op[a].pc \in Locking => op[a].id # i,
         op'[a].pc \in Locking => op'[a].id # i
  PROVE  Place(i)' = Place(i)
<1>1. connLock[i] \in Actors \cup {None} /\ connLock'[i] \in Actors \cup {None}
  BY DEF TypeOK
<1>2. connLock[i] # a /\ connLock'[i] # a
  BY DEF LockInv
<1>3. \A b \in Actors : b # a => (connLock'[i] = b <=> connLock[i] = b)
  BY DEF LockInv
<1>4. connLock'[i] = connLock[i]
  BY <1>1, <1>2, <1>3
<1>5. connLock[i] # None => op'[connLock[i]] = op[connLock[i]]
  BY <1>1, <1>2
<1> QED BY <1>4, <1>5 DEF Place

LEMMA PlaceThere ==
  ASSUME TypeOK', LockInv', NEW a \in Actors, NEW i \in Ids, op'[a].pc \in Locking, op'[a].id = i
  PROVE  Place(i)' = op'[a].pc
<1>1. connLock'[i] = a
  BY DEF LockInv, OpOK
<1>2. a # None
  BY ConnectionsAssumption DEF Actors
<1> QED BY <1>1, <1>2 DEF Place

LEMMA PlaceLeft ==
  ASSUME TypeOK, LockInv, TypeOK', LockInv', NEW a \in Actors, NEW i \in Ids,
         op[a].pc \in Locking, op[a].id = i,
         \A b \in Actors : b # a => op'[b] = op[b], op'[a].pc \notin Locking
  PROVE  Place(i)' = "idle"
<1>1. connLock[i] = a
  BY PlaceHere
<1>2. \A b \in Actors : b # a => connLock'[i] # b
  BY <1>1 DEF LockInv
<1>3. connLock'[i] = None
  BY <1>1, <1>2 DEF LockInv, TypeOK
<1> QED BY <1>3 DEF Place

(* The part of the state that belongs to one connection.                   *)
Kept(i) == /\ store'[i].state = store[i].state /\ store'[i].config = store[i].config
           /\ active'[i] = active[i] /\ runs'[i] = runs[i] /\ socket'[i] = socket[i]
           /\ left'[i] = left[i]

LEMMA RunKept ==
  ASSUME NEW i, NEW place, Kept(i), RunOK(i, place)
  PROVE  RunOK(i, place)'
BY DEF Kept, RunOK, Stored, IsActive

(* A thread without a connection lock changes nothing here ...             *)
LEMMA RunOutside ==
  ASSUME TypeOK, LockInv, TypeOK', LockInv', RunInv, NEW a \in Actors,
         \A b \in Actors : b # a => op'[b] = op[b],
         op[a].pc \notin Locking, op'[a].pc \notin Locking \ {"locked"},
         \A i \in Ids : Kept(i)
  PROVE  RunInv'
<1> SUFFICES ASSUME NEW i \in Ids PROVE RunOK(i, Place(i))'
  BY DEF RunInv
<1>1. CASE Place(i)' = Place(i)
  BY <1>1, RunKept DEF RunInv
<1>2. CASE op'[a].pc = "locked" /\ op'[a].id = i
  <2>1. \A b \in Actors : op[b].pc \in Locking => op[b].id # i
    <3>1. connLock'[i] = a
      BY <1>2 DEF LockInv, Locking
    <3> QED BY <3>1 DEF LockInv
  <2>2. Place(i) = "idle" /\ Place(i)' = "locked"
    <3>1. op'[a].pc \in Locking
      BY <1>2 DEF Locking
    <3> QED BY <1>2, <2>1, <3>1, PlaceFree, PlaceThere
  <2>3. RunOK(i, "locked")
    BY <2>2 DEF RunInv, RunOK, Locking
  <2> QED BY <2>2, <2>3, RunKept
<1>3. CASE ~(op'[a].pc = "locked" /\ op'[a].id = i)
  BY <1>1, <1>3, PlaceElsewhere
<1> QED BY <1>2, <1>3

(* ... and one that has it, nothing but its connection.                    *)
LEMMA RunInside ==
  ASSUME TypeOK, LockInv, TypeOK', LockInv', RunInv, NEW a \in Actors,
         \A b \in Actors : b # a => op'[b] = op[b],
         NEW i \in Ids, op[a].pc \in Locking, op[a].id = i,
         op'[a].pc \in Locking => op'[a].id = i,
         \A j \in Ids : j # i => Kept(j),
         NEW p, RunOK(i, p)', IF op'[a].pc \in Locking THEN p = op'[a].pc ELSE p = "idle"
  PROVE  RunInv'
<1> SUFFICES ASSUME NEW j \in Ids PROVE RunOK(j, Place(j))'
  BY DEF RunInv
<1>1. CASE j # i
  <2>1. Place(j)' = Place(j)
    BY <1>1, PlaceElsewhere
  <2> QED BY <1>1, <2>1, RunKept DEF RunInv
<1>2. CASE j = i
  <2>1. Place(i)' = p
    BY PlaceThere, PlaceLeft
  <2> QED BY <1>2, <2>1
<1> QED BY <1>1, <1>2

(* Nothing fails, and the daemon stays: files, markers and processes agree *)
(* with the records at every place of every thread.                        *)
LEMMA RunStep ==
  ASSUME MaxFaults = 0, "daemon" \notin Events
  PROVE  TypeOK /\ LockInv /\ IdentityInv /\ RunInv /\ [Next]_vars => RunInv'
<1> SUFFICES ASSUME TypeOK, LockInv, IdentityInv, RunInv, [Next]_vars PROVE RunInv'
  OBVIOUS
<1>0. TypeOK' /\ LockInv' /\ ~Fault
  BY TypeStep, LockStep DEF Fault, TypeOK
<1>1. ASSUME NEW a \in Actors, Handled(a) PROVE RunInv'
  <2>0. \A b \in Actors : b # a => op'[b] = op[b]
    BY <1>1, OthersStay
  <2> DEFINE i == op[a].id
  <2>1. ASSUME op[a].pc \in Locking PROVE i \in Ids /\ RunOK(i, op[a].pc)
    BY <2>1, PlaceHere DEF RunInv
  <2>2. ASSUME UNCHANGED <<store, fileVars>> PROVE \A j \in Ids : Kept(j)
    BY <2>2 DEF Kept, fileVars
  <2>3. ASSUME NEW ok, Finish(a, ok), op[a].pc \in Locking, \A j \in Ids : j # i => Kept(j),
               NEW k, k = i, RunOK(k, "idle")'
        PROVE  RunInv'
    <3>1. op'[a].pc \notin Locking
      BY <2>3, FinishOp DEF Locking
    <3> QED BY <1>0, <2>0, <2>1, <2>3, <3>1, RunInside
  <2>4. ASSUME NEW place \in Locking, Goto(a, place), op[a].pc \in Locking,
               \A j \in Ids : j # i => Kept(j), NEW k, k = i, RunOK(k, place)'
        PROVE  RunInv'
    <3>1. op'[a].pc = place /\ op'[a].id = k
      BY <2>4, GotoOp
    <3> QED BY <1>0, <2>0, <2>1, <2>4, <3>1, RunInside
  <2>5. CASE TakeIndex(a)
    <3>1. UNCHANGED <<store, fileVars>> /\ op[a].pc = "index"
          /\ op' = [op EXCEPT ![a].pc = IF op[a].kind = "add" THEN "add" ELSE "lock"]
      BY <2>5, Zenon DEF TakeIndex
    <3>2. op'[a].pc \in {"add", "lock"}
      BY <3>1, OpFields DEF TypeOK, Op
    <3> QED BY <1>0, <2>0, <2>2, <3>1, <3>2, RunOutside DEF Locking
  <2>6. CASE TakeLock(a)
    <3>1. UNCHANGED <<store, fileVars>> /\ op[a].pc = "lock" /\ op' = [op EXCEPT ![a].pc = "locked"]
      BY <2>6, Zenon DEF TakeLock
    <3>2. op'[a].pc = "locked"
      BY <3>1, OpFields DEF TypeOK, Op
    <3> QED BY <1>0, <2>0, <2>2, <3>1, <3>2, RunOutside DEF Locking
  <2>7. CASE LockTimesOut(a)
    <3>1. UNCHANGED <<store, fileVars>> /\ Finish(a, FALSE)
          /\ op[a].pc \in {"index", "lock", "up", "down", "connect"}
      BY <2>7 DEF LockTimesOut
    <3>2. CASE op[a].pc \in {"index", "lock"}
      <4>1. op'[a].pc = "idle"
        BY <3>1, FinishOp
      <4> QED BY <1>0, <2>0, <2>2, <3>1, <3>2, <4>1, RunOutside DEF Locking
    <3>3. CASE op[a].pc \in {"up", "down", "connect"}
      <4>1. op[a].pc \in Locking
        BY <3>3 DEF Locking
      <4>2. PICK k \in Ids : k = i
        BY <2>1, <4>1
      <4>3. RunOK(k, "idle")'
        BY <2>1, <3>1, <3>3, <4>1, <4>2 DEF RunOK, Locking, fileVars, Stored, IsActive
      <4> QED BY <2>2, <2>3, <3>1, <4>1, <4>2, <4>3
    <3> QED BY <3>1, <3>2, <3>3
  <2>8. ASSUME NEW j \in Ids, AddExisting(a, j) PROVE RunInv'
    <3>1. UNCHANGED <<store, fileVars>> /\ op[a].pc = "add"
      BY <2>8, Zenon DEF AddExisting
    <3>2. op'[a].pc \in {"idle", "lock"}
      <4>1. CASE Finish(a, TRUE)
        BY <4>1, FinishOp
      <4>2. CASE op' = [op EXCEPT ![a] = [@ EXCEPT !.pc = "lock", !.id = j, !.copy = store[j]]]
        BY <4>2, OpFields DEF TypeOK, Op
      <4> QED BY <2>8, <4>1, <4>2, Zenon DEF AddExisting
    <3> QED BY <1>0, <2>0, <2>2, <3>1, <3>2, RunOutside DEF Locking
  <2>9. CASE AddNew(a)
    <3>1. UNCHANGED fileVars /\ op[a].pc = "add" /\ Finish(a, TRUE)
      BY <2>9, Zenon DEF AddNew
    <3>2. op'[a].pc = "idle"
      BY <3>1, FinishOp
    <3>3. CASE store' = store
      BY <1>0, <2>0, <2>2, <3>1, <3>2, <3>3, RunOutside DEF Locking
    <3>4. ASSUME NEW k \in Ids, store[k].state = "unused",
                 store' = [store EXCEPT ![k] =
                  [state |-> "stored", config |-> op[a].config, name |-> op[a].name,
                   auto |-> op[a].auto, down |-> FALSE]]
          PROVE  RunInv'
      <4>1. \A j \in Ids : Place(j)' = Place(j)
        BY <1>0, <2>0, <3>1, <3>2, PlaceElsewhere DEF Locking
      <4>2. \A j \in Ids : j # k => Kept(j)
        BY <3>1, <3>4 DEF Kept, fileVars, TypeOK
      <4>3. RunOK(k, Place(k)) /\ store'[k].state = "stored"
        BY <3>4 DEF RunInv, TypeOK
      <4>4. runs[k] = None
        BY <3>4, <4>3 DEF RunOK, Stored
      <4>5. RunOK(k, Place(k))'
        BY <3>1, <4>1, <4>3, <4>4 DEF RunOK, Stored, IsActive, fileVars
      <4> QED BY <4>1, <4>2, <4>5, RunKept DEF RunInv
    <3> QED BY <2>9, <3>3, <3>4, Zenon DEF AddNew
  <2>10. ASSUME op[a].pc = "locked" PROVE /\ op[a].pc \in Locking /\ i \in Ids /\ RunOK(i, "locked")
                                          /\ runs[i] # None => IsActive(i) /\ HelperIsLive(i)
    BY <2>1, <2>10 DEF Locking, RunOK, IsActive, HelperIsLive
  <2>11. CASE ReAdd(a)
    <3>1. /\ op[a].kind = "add" /\ op[a].pc = "locked" /\ Finish(a, TRUE) /\ UNCHANGED fileVars
          /\ \E n, u, d : store' = [store EXCEPT ![i] =
                            [op[a].copy EXCEPT !.name = n, !.auto = u, !.down = d]]
      BY <2>11 DEF ReAdd
    <3>2. /\ CheckedAdd(op[a]) /\ op[a].copy \in Record
      BY OpFields DEF IdentityInv
    <3>3. \A j \in Ids : Kept(j)
      BY <2>10, <3>1, <3>2 DEF Kept, TypeOK, CheckedAdd, Stored, Record, fileVars
    <3>4. PICK k \in Ids : k = i
      BY <2>10, <3>1
    <3>5. RunOK(k, "idle")
      BY <2>10, <3>1, <3>4 DEF RunOK, Locking
    <3>6. RunOK(k, "idle")'
      BY <3>3, <3>5, RunKept
    <3> QED BY <2>3, <2>10, <3>1, <3>3, <3>4, <3>6
  <2>12. CASE Remove(a)
    <3>1. op[a].kind = "remove" /\ op[a].pc = "locked" /\ Finish(a, TRUE) /\ UNCHANGED fileVars
      BY <2>12, Zenon DEF Remove
    <3>2. PICK k \in Ids : k = i
      BY <2>10, <3>1
    <3>3. CASE store' = store
      <4>1. \A j \in Ids : Kept(j)
        BY <2>2, <3>1, <3>3
      <4>2. RunOK(k, "idle")
        BY <2>10, <3>1, <3>2 DEF RunOK, Locking
      <4>3. RunOK(k, "idle")'
        BY <4>1, <4>2, RunKept
      <4> QED BY <2>3, <2>10, <3>1, <3>2, <4>1, <4>3
    <3>4. CASE ~IsActive(i) /\ store' = [store EXCEPT ![i] = [NoRecord EXCEPT !.state = "removed"]]
      <4>1. \A j \in Ids : j # i => Kept(j)
        BY <3>1, <3>4 DEF Kept, fileVars, TypeOK
      <4>2. runs[k] = None /\ ~IsActive(k)
        BY <2>10, <3>1, <3>2, <3>4
      <4>3. RunOK(k, "idle")'
        BY <3>1, <4>2 DEF RunOK, fileVars, IsActive, Locking
      <4> QED BY <2>3, <2>10, <3>1, <3>2, <4>1, <4>3
    <3> QED BY <2>12, <3>3, <3>4, Zenon DEF Remove
  <2>13. ASSUME op[a].pc = "locked", UNCHANGED fileVars, NEW ok, Finish(a, ok), Steady PROVE RunInv'
    <3>1. \A j \in Ids : Kept(j)
      BY <2>13 DEF Kept, fileVars, Steady
    <3>2. PICK k \in Ids : k = i
      BY <2>10, <2>13
    <3>3. RunOK(k, "idle")
      BY <2>10, <2>13, <3>2 DEF RunOK, Locking
    <3>4. RunOK(k, "idle")'
      BY <3>1, <3>3, RunKept
    <3> QED BY <2>3, <2>10, <2>13, <3>1, <3>2, <3>4
  <2>14. ASSUME op[a].pc = "locked", UNCHANGED fileVars, Stored(i), Steady,
                NEW place \in {"connect", "down"}, Goto(a, place)
         PROVE  RunInv'
    <3>1. \A j \in Ids : Kept(j)
      BY <2>14 DEF Kept, fileVars, Steady
    <3>2. PICK k \in Ids : k = i
      BY <2>10, <2>14
    <3>3. RunOK(k, place)
      BY <2>10, <2>14, <3>2 DEF RunOK, Locking
    <3>4. RunOK(k, place)'
      BY <3>1, <3>3, RunKept
    <3>5. place \in Locking
      BY DEF Locking
    <3> QED BY <2>4, <2>10, <2>14, <3>1, <3>2, <3>4, <3>5
  <2>15. store' = store => Steady
    BY DEF Steady
  <2>16. CASE SetMode(a)
    <3>1. op[a].pc = "locked" /\ Finish(a, TRUE) /\ UNCHANGED fileVars
      BY <2>16, Zenon DEF SetMode
    <3>2. ASSUME NEW d, store' = [store EXCEPT ![i] = [@ EXCEPT !.auto = op[a].auto, !.down = d]]
          PROVE  Steady
      BY <3>2 DEF Steady, TypeOK, Record
    <3>3. Steady
      BY <2>15, <2>16, <3>2, Zenon DEF SetMode
    <3> QED BY <2>13, <3>1, <3>3
  <2>17. CASE UserConnect(a)
    <3>1. ASSUME NEW d, store' = [store EXCEPT ![i].down = d] PROVE Steady
      BY <3>1 DEF Steady, TypeOK, Record
    <3>2. /\ op[a].pc = "locked" /\ UNCHANGED fileVars /\ Steady
          /\ Finish(a, FALSE) \/ (Stored(i) /\ Goto(a, "connect"))
      BY <2>15, <2>17, <3>1, Zenon DEF UserConnect
    <3> QED BY <2>13, <2>14, <3>2
  <2>18. CASE AutoConnect(a)
    <3>1. /\ op[a].pc = "locked" /\ UNCHANGED <<store, fileVars>>
          /\ Finish(a, FALSE) \/ Finish(a, TRUE) \/ (Stored(i) /\ Goto(a, "connect"))
      BY <2>18 DEF AutoConnect
    <3> QED BY <2>13, <2>14, <2>15, <3>1
  <2>19. CASE UserDisconnect(a)
    <3>1. ASSUME NEW d, store' = [store EXCEPT ![i].down = d] PROVE Steady
      BY <3>1 DEF Steady, TypeOK, Record
    <3>2. /\ op[a].pc = "locked" /\ UNCHANGED fileVars /\ Steady
          /\ Finish(a, FALSE) \/ (Stored(i) /\ Goto(a, "down"))
      BY <2>15, <2>19, <3>1, Zenon DEF UserDisconnect
    <3> QED BY <2>13, <2>14, <3>2
  <2>20. CASE Reconnect(a)
    <3>1. /\ op[a].pc = "locked" /\ UNCHANGED <<store, fileVars>>
          /\ Finish(a, TRUE) \/ (IsActive(i) /\ Goto(a, "down"))
      BY <2>20, Zenon DEF Reconnect
    <3>2. IsActive(i) => Stored(i)
      BY <2>10, <3>1 DEF RunOK
    <3> QED BY <2>13, <2>14, <2>15, <3>1, <3>2
  <2>21. CASE Refresh(a)
    <3>1. /\ op[a].pc = "locked" /\ UNCHANGED <<store, fileVars>>
          /\ Finish(a, TRUE) \/ (Stored(i) /\ BeginRefresh(a))
      BY <2>21, Zenon DEF Refresh
    <3>2. CASE Stored(i) /\ BeginRefresh(a)
      <4>1. PICK k \in Ids : k = i
        BY <2>10, <3>1
      <4>2. PICK p : p = (IF IsActive(k) THEN "down" ELSE "write")
        OBVIOUS
      <4>3. op'[a].pc = p /\ p \in Locking /\ op'[a].id = k
        BY <3>2, <4>1, <4>2, RefreshOp DEF Locking
      <4>4. RunOK(k, p)
        BY <2>10, <3>1, <3>2, <4>1, <4>2 DEF RunOK, Locking
      <4>5. RunOK(k, p)'
        BY <2>2, <3>1, <4>4, RunKept
      <4> QED BY <1>0, <2>0, <2>2, <2>10, <3>1, <4>1, <4>3, <4>5, RunInside
    <3> QED BY <2>13, <2>15, <3>1, <3>2
  <2>22. CASE WriteRefreshed(a)
    <3>1. /\ op[a].pc = "write" /\ UNCHANGED fileVars
          /\ store' = [store EXCEPT ![i].config = op[a].config]
          /\ op' = [op EXCEPT ![a].pc = "connect"] \/ Finish(a, TRUE)
      BY <1>0, <2>22, Zenon DEF WriteRefreshed
    <3>2. op[a].pc \in Locking /\ i \in Ids /\ RunOK(i, "write")
      BY <2>1, <3>1 DEF Locking
    <3>3. PICK k \in Ids : k = i
      BY <3>2
    <3>4. runs[k] = None /\ Stored(k)
      BY <3>2, <3>3 DEF RunOK, Locking
    <3>5. store'[k].state = store[k].state /\ \A j \in Ids : j # i => Kept(j)
      BY <3>1, <3>3 DEF Kept, fileVars, TypeOK, Record
    <3>6. RunOK(k, "idle")' /\ RunOK(k, "connect")'
      BY <3>1, <3>4, <3>5 DEF RunOK, Stored, IsActive, fileVars
    <3>7. CASE op' = [op EXCEPT ![a].pc = "connect"]
      <4>1. op'[a].pc = "connect" /\ op'[a].id = k
        BY <3>3, <3>7, OpFields DEF TypeOK, Op
      <4>2. op'[a].pc \in Locking
        BY <4>1 DEF Locking
      <4> QED BY <1>0, <2>0, <3>2, <3>3, <3>5, <3>6, <4>1, <4>2, RunInside
    <3> QED BY <2>3, <3>1, <3>2, <3>3, <3>5, <3>6, <3>7
  <2>23. CASE ClearDeadActive(a)
    <3>1. /\ op[a].pc = "locked" /\ Finish(a, TRUE) /\ UNCHANGED <<store, runs, socket, left>>
          /\ \/ active' = active
             \/ ~HelperIsLive(i) /\ active' = [active EXCEPT ![i] = None]
      BY <2>23, Zenon DEF ClearDeadActive
    <3>2. PICK k \in Ids : k = i
      BY <2>10, <3>1
    <3>3. \A j \in Ids : j # i => Kept(j)
      BY <3>1 DEF Kept, TypeOK
    <3>4. runs[k] # None => active'[k] = active[k]
      BY <2>10, <3>1, <3>2
    <3>5. active'[k] \in {active[k], None}
      BY <3>1, <3>2 DEF TypeOK
    <3>6. RunOK(k, "idle")'
      BY <2>10, <3>1, <3>2, <3>4, <3>5 DEF RunOK, Stored, IsActive, Locking
    <3> QED BY <2>3, <2>10, <3>1, <3>2, <3>3, <3>6
  <2>24. CASE CheckSocket(a)
    <3>1. op[a].pc = "connect" /\ store' = store
      BY <2>24, Zenon DEF CheckSocket
    <3>2. op[a].pc \in Locking /\ i \in Ids /\ RunOK(i, "connect")
      BY <2>1, <3>1 DEF Locking
    <3>3. PICK k \in Ids : k = i
      BY <3>2
    <3>4. CASE ClearLeftovers(i) /\ ~HelperIsLive(i) /\ socket[i] /\ Goto(a, "up")
               /\ UNCHANGED <<active, runs>>
      <4>1. \A j \in Ids : j # i => Kept(j)
        BY <3>1, <3>4 DEF Kept, ClearLeftovers, TypeOK
      <4>2. runs[k] = None /\ socket'[k] = FALSE
        BY <3>3, <3>4 DEF HelperIsLive, ClearLeftovers, TypeOK
      <4>3. RunOK(k, "up")'
        BY <3>1, <3>2, <3>3, <3>4, <4>2 DEF RunOK, Stored, IsActive, Locking
      <4> QED BY <2>4, <3>2, <3>3, <3>4, <4>1, <4>3 DEF Locking
    <3>5. CASE UNCHANGED fileVars /\ ((\E ok : Finish(a, ok)) \/ Goto(a, "up"))
      <4>1. RunOK(k, "idle") /\ RunOK(k, "up")
        BY <3>2, <3>3 DEF RunOK, Locking
      <4>2. \A j \in Ids : Kept(j)
        BY <2>2, <3>1, <3>5
      <4>3. RunOK(k, "idle")' /\ RunOK(k, "up")'
        BY <4>1, <4>2, RunKept
      <4>4. "up" \in Locking
        BY DEF Locking
      <4> QED BY <2>3, <2>4, <3>2, <3>3, <3>5, <4>2, <4>3, <4>4
    <3> QED BY <1>0, <2>24, <3>4, <3>5, Zenon DEF CheckSocket
  <2>25. CASE Up(a)
    <3>1. op[a].pc = "up" /\ store' = store
      BY <2>25, Zenon DEF Up
    <3>2. op[a].pc \in Locking /\ i \in Ids /\ RunOK(i, "up")
      BY <2>1, <3>1 DEF Locking
    <3>3. PICK k \in Ids : k = i
      BY <3>2
    <3>4. CASE Finish(a, FALSE) /\ UNCHANGED fileVars
      <4>1. RunOK(k, "idle")
        BY <3>2, <3>3 DEF RunOK, Locking
      <4>2. \A j \in Ids : Kept(j)
        BY <2>2, <3>1, <3>4
      <4>3. RunOK(k, "idle")'
        BY <4>1, <4>2, RunKept
      <4> QED BY <2>3, <3>2, <3>3, <3>4, <4>2, <4>3
    <3>5. CASE /\ runs' = [runs EXCEPT ![i] = store[i].config]
               /\ socket' = [socket EXCEPT ![i] = TRUE]
               /\ left' = [left EXCEPT ![i] = "pid"]
               /\ Goto(a, "post") /\ active' = active
      <4>1. \A j \in Ids : j # i => Kept(j)
        BY <3>1, <3>5 DEF Kept, TypeOK
      <4>2. runs'[k] = store[k].config /\ socket'[k] /\ left'[k] = "pid" /\ Stored(k)
        BY <3>2, <3>3, <3>5 DEF TypeOK, RunOK, Locking
      <4>3. RunOK(k, "post")'
        BY <3>1, <4>2 DEF RunOK, Stored
      <4>4. "post" \in Locking
        BY DEF Locking
      <4> QED BY <2>4, <3>2, <3>3, <3>5, <4>1, <4>3, <4>4
    <3> QED BY <2>25, <3>4, <3>5, Zenon DEF Up
  <2>26. CASE SaveActive(a)
    <3>1. /\ op[a].pc = "post" /\ UNCHANGED <<store, runs, socket, left>> /\ (\E ok : Finish(a, ok))
          /\ \/ socket[i] /\ active' = [active EXCEPT ![i] = store[i].config]
             \/ ~socket[i] /\ active' = active
      BY <2>26, Zenon DEF SaveActive
    <3>2. op[a].pc \in Locking /\ i \in Ids /\ RunOK(i, "post")
      BY <2>1, <3>1 DEF Locking
    <3>3. PICK k \in Ids : k = i
      BY <3>2
    <3>4. \A j \in Ids : j # i => Kept(j)
      BY <3>1 DEF Kept, TypeOK
    <3>5. (socket[k] /\ active'[k] = store[k].config) \/ (~socket[k] /\ active'[k] = active[k])
      BY <3>1, <3>3 DEF TypeOK
    <3>6. RunOK(k, "idle")'
      BY <3>1, <3>2, <3>3, <3>5 DEF RunOK, Stored, IsActive, Locking
    <3> QED BY <2>3, <3>1, <3>2, <3>3, <3>4, <3>6
  <2>27. ASSUME op[a].pc \in {"down", "wait"}, DownDone(a), runs[i] = None,
                UNCHANGED <<store, runs, socket>>, left' = left \/ left' = [left EXCEPT ![i] = "none"]
         PROVE  RunInv'
    <3>1. op[a].pc \in Locking /\ i \in Ids /\ RunOK(i, op[a].pc)
      BY <2>1, <2>27 DEF Locking
    <3>2. PICK k \in Ids : k = i
      BY <3>1
    <3>3. active' = active \/ active' = [active EXCEPT ![i] = None]
      BY <2>27, Zenon DEF DownDone
    <3>4. \A j \in Ids : j # i => Kept(j)
      BY <2>27, <3>3 DEF Kept, TypeOK
    <3>5. active'[k] \in {active[k], None} /\ Stored(k) /\ runs[k] = None
      BY <2>27, <3>1, <3>2, <3>3 DEF TypeOK, RunOK, Locking
    <3>6. RunOK(k, "idle")' /\ RunOK(k, "connect")' /\ RunOK(k, "write")'
      BY <2>27, <3>5 DEF RunOK, Stored
    <3>7. op'[a].pc \in {"idle", "connect", "write"} /\ (op'[a].pc # "idle" => op'[a].id = k)
      BY <2>27, <3>2, DownDoneOp
    <3>8. "idle" \notin Locking /\ "connect" \in Locking /\ "write" \in Locking
      BY DEF Locking
    <3> QED BY <1>0, <2>0, <3>1, <3>2, <3>4, <3>6, <3>7, <3>8, RunInside
  <2>28. CASE Down(a)
    <3>1. op[a].pc = "down" /\ UNCHANGED <<store, runs, left>>
      BY <2>28, Zenon DEF Down
    <3>2. op[a].pc \in Locking /\ i \in Ids /\ RunOK(i, "down")
      BY <2>1, <3>1 DEF Locking
    <3>3. PICK k \in Ids : k = i
      BY <3>2
    <3>4. CASE left[i] = "none" /\ DownDone(a) /\ socket' = socket
      <4>1. runs[i] = None
        BY <3>2, <3>4 DEF RunOK
      <4> QED BY <2>27, <3>1, <3>4, <4>1
    <3>5. CASE socket' = [socket EXCEPT ![i] = FALSE] /\ Goto(a, "wait") /\ active' = active
      <4>1. \A j \in Ids : j # i => Kept(j)
        BY <3>1, <3>5 DEF Kept, TypeOK
      <4>2. ~socket'[k]
        BY <3>3, <3>5 DEF TypeOK
      <4>3. RunOK(k, "wait")'
        BY <3>1, <3>2, <3>3, <3>5, <4>2 DEF RunOK, Stored, IsActive, Locking
      <4>4. "wait" \in Locking
        BY DEF Locking
      <4> QED BY <2>4, <3>2, <3>3, <3>5, <4>1, <4>3, <4>4
    <3> QED BY <2>28, <3>4, <3>5, Zenon DEF Down
  <2>29. CASE CleanupConfirmed(a)
    <3>1. /\ op[a].pc = "wait" /\ UNCHANGED <<store, runs, socket>> /\ left[i] = "ok"
          /\ left' = [left EXCEPT ![i] = "none"] /\ DownDone(a)
      BY <2>29, Zenon DEF CleanupConfirmed
    <3>2. op[a].pc \in Locking /\ RunOK(i, "wait")
      BY <2>1, <3>1 DEF Locking
    <3>3. runs[i] = None
      BY <3>1, <3>2 DEF RunOK
    <3> QED BY <2>27, <3>1, <3>3
  <2>30. CASE DownFails(a)
    <3>1. /\ op[a].pc = "wait" /\ UNCHANGED <<store, fileVars>> /\ Finish(a, FALSE)
          /\ left[i] = "failed" \/ runs[i] = None
      BY <1>0, <2>30, Zenon DEF DownFails
    <3>2. op[a].pc \in Locking /\ i \in Ids /\ RunOK(i, "wait")
      BY <2>1, <3>1 DEF Locking
    <3>3. PICK k \in Ids : k = i
      BY <3>2
    <3>4. RunOK(k, "idle")
      BY <3>1, <3>2, <3>3 DEF RunOK, Locking
    <3>5. \A j \in Ids : Kept(j)
      BY <2>2, <3>1
    <3>6. RunOK(k, "idle")'
      BY <3>4, <3>5, RunKept
    <3> QED BY <2>3, <3>1, <3>2, <3>3, <3>5, <3>6
  <2>31. ~UpFails(a) /\ ~PostUpFails(a)
    BY <1>0, Zenon DEF UpFails, PostUpFails
  <2> QED BY <1>1, <2>5, <2>6, <2>7, <2>8, <2>9, <2>11, <2>12, <2>16, <2>17, <2>18, <2>19, <2>20,
             <2>21, <2>22, <2>23, <2>24, <2>25, <2>26, <2>28, <2>29, <2>30, <2>31, Zenon DEF Handled
<1>2. ASSUME NEW a \in Actors, NEW o \in Op, Begins(a, o), UNCHANGED <<socket, left>> PROVE RunInv'
  <2>1. op[a].pc \notin Locking /\ op'[a].pc \notin Locking \ {"locked"}
    BY <1>2 DEF Begins, Locking, TypeOK
  <2>2. \A b \in Actors : b # a => op'[b] = op[b]
    BY <1>2 DEF Begins, TypeOK
  <2>3. \A i \in Ids : Kept(i)
    BY <1>2 DEF Begins, Kept
  <2> QED BY <1>0, <2>1, <2>2, <2>3, RunOutside
<1>3. CASE Requested
  <2>1. UNCHANGED <<socket, left>>
    BY <1>3, Zenon DEF Requested, AskAdd, AskRemove, AskMode, Ask, fileVars
  <2> QED BY <1>2, <1>3, <2>1, RequestBegins
<1>4. ASSUME NEW i \in Ids, BootNext(i) PROVE RunInv'
  <2>1. UNCHANGED <<socket, left>>
    BY <1>4, Zenon DEF BootNext, fileVars
  <2> QED BY <1>2, <1>4, <2>1, BootBegins
<1>5. ASSUME UNCHANGED <<op, connLock>>, NEW i \in Ids, \A j \in Ids : j # i => Kept(j),
             runs'[i] = None, UNCHANGED <<store, active>>, socket'[i] => socket[i]
      PROVE  RunInv'
  <2>1. \A j \in Ids : Place(j)' = Place(j)
    BY <1>5 DEF Place
  <2>2. RunOK(i, Place(i))
    BY DEF RunInv
  <2>3. RunOK(i, Place(i))'
    BY <1>5, <2>1, <2>2 DEF RunOK, Stored, IsActive
  <2> QED BY <1>5, <2>1, <2>3, RunKept DEF RunInv
<1>6. ASSUME NEW i \in Ids, HelperExits(i) PROVE RunInv'
  <2>1. /\ UNCHANGED <<op, connLock, store, active>>
        /\ runs' = [runs EXCEPT ![i] = None] /\ socket' = [socket EXCEPT ![i] = FALSE]
        /\ left' = [left EXCEPT ![i] = "ok"]
    BY <1>0, <1>6, Zenon DEF HelperExits, lockVars
  <2>2. /\ \A j \in Ids : j # i => Kept(j)
        /\ runs'[i] = None /\ ~socket'[i]
    BY <2>1 DEF Kept, TypeOK
  <2> QED BY <1>5, <2>1, <2>2
<1>7. ASSUME NEW i \in Ids, HelperKilled(i) PROVE RunInv'
  <2>1. UNCHANGED <<op, connLock, store, active, socket, left>> /\ runs' = [runs EXCEPT ![i] = None]
    BY <1>7, Zenon DEF HelperKilled, lockVars
  <2>2. /\ \A j \in Ids : j # i => Kept(j)
        /\ runs'[i] = None
    BY <2>1 DEF Kept, TypeOK
  <2> QED BY <1>5, <2>1, <2>2
<1>8. ASSUME NEW w \in Workers, NEW i \in Ids, SweepDead(w, i) PROVE RunInv'
  <2>1. PICK o \in Op : w \in Actors /\ Begins(w, o)
    BY <1>8, SweepBegins
  <2>2. op[w].pc \notin Locking /\ op'[w].pc \notin Locking
    BY <2>1, <1>8 DEF Begins, SweepDead, Locking, TypeOK, NoOp
  <2>3. \A b \in Actors : b # w => op'[b] = op[b]
    BY <2>1 DEF Begins, TypeOK
  <2>4. \A j \in Ids : Place(j)' = Place(j)
    BY <1>0, <2>1, <2>2, <2>3, PlaceElsewhere
  <2>5. /\ runs[i] = None /\ UNCHANGED <<store, runs, active>>
        /\ socket' = [socket EXCEPT ![i] = FALSE]
        /\ left' = [left EXCEPT ![i] = IF @ = "pid" THEN "none" ELSE @]
    BY <1>8 DEF SweepDead, ClearLeftovers
  <2>6. ~socket'[i] /\ runs'[i] = None /\ \A j \in Ids : j # i => Kept(j)
    BY <2>5 DEF Kept, TypeOK
  <2>7. RunOK(i, Place(i))
    BY DEF RunInv
  <2>8. RunOK(i, Place(i))'
    BY <2>4, <2>5, <2>6, <2>7 DEF RunOK, Stored, IsActive
  <2> QED BY <2>4, <2>6, <2>8, RunKept DEF RunInv
<1>9. CASE Reboot
  <2>1. /\ connLock' = [i \in Ids |-> None] /\ runs' = [i \in Ids |-> None]
        /\ socket' = [i \in Ids |-> FALSE]
    BY <1>9, Zenon DEF Reboot, NewDaemon
  <2>2. \A i \in Ids : Place(i)' = "idle" /\ runs'[i] = None /\ ~socket'[i]
    BY <2>1 DEF Place
  <2> QED BY <2>2 DEF RunInv, RunOK, IsActive, Locking
<1>10. CASE BootStart \/ BootDone \/ UNCHANGED vars
  <2>1. UNCHANGED <<op, connLock, store, active, runs, socket, left>>
    BY <1>10, Zenon DEF BootStart, BootDone, vars, lockVars, fileVars
  <2>2. \A i \in Ids : Kept(i) /\ Place(i)' = Place(i)
    BY <2>1 DEF Kept, Place
  <2> QED BY <2>2, RunKept DEF RunInv
<1> QED BY <1>1, <1>3, <1>4, <1>6, <1>7, <1>8, <1>9, <1>10, Zenon
        DEF Next, Helpers, Booting, DaemonRestarts

LEMMA FilesAgree ==
  ASSUME MaxFaults = 0, "daemon" \notin Events
  PROVE  Spec => []RunInv
<1>1. ASSUME Init PROVE RunInv
  <2>1. \A i \in Ids : connLock[i] = None /\ runs[i] = None /\ ~socket[i]
    BY <1>1 DEF Init
  <2> QED BY <2>1 DEF RunInv, RunOK, Place, IsActive, Locking
<1> QED BY <1>1, RunStep, IdentitiesChecked, TypeCorrect, LocksInOrder, PTL DEF Spec

(* handle_remove_connection, connect, refresh_connection: what the daemon  *)
(* stores and lists is what runs, for any number of connections, as long   *)
(* as nothing fails but helpers.                                           *)
THEOREM RunningIsKnown ==
  ASSUME MaxFaults = 0, "daemon" \notin Events
  PROVE  Spec => [](RunningIsStored /\ RunningIsActive /\ RunsWhatIsStored)
<1>1. RunInv => RunningIsStored /\ RunningIsActive /\ RunsWhatIsStored
  <2> SUFFICES ASSUME RunInv PROVE RunningIsStored /\ RunningIsActive /\ RunsWhatIsStored
    OBVIOUS
  <2>1. \A i \in Ids : RunOK(i, Place(i)) /\ (connLock[i] = None => RunOK(i, "idle"))
    BY DEF RunInv, Place
  <2>2. RunningIsStored
    BY <2>1 DEF RunningIsStored, RunOK
  <2>3. RunningIsActive
    BY <2>1 DEF RunningIsActive, RunOK, HelperIsLive
  <2>4. RunsWhatIsStored
    BY <2>1 DEF RunsWhatIsStored, RunOK
  <2> QED BY <2>2, <2>3, <2>4
<1> QED BY <1>1, FilesAgree, PTL

-----------------------------------------------------------------------------
(* Nobody disconnects a connection, and it gets no socket.                 *)
Calm(i) == (stay'[i] => stay[i]) /\ (socket'[i] => socket[i])

LEMMA DownKept ==
  ASSUME NEW i, NEW place, Calm(i), DownOK(i, place)
  PROVE  DownOK(i, place)'
BY DEF Calm, DownOK

(* Whoever is to bring a connection up again was not overtaken by a        *)
(* disconnect.                                                             *)
AgainOK(o) == o.pc \in {"down", "wait", "write"} /\ UpAgain(o) => ~stay[o.id]

LEMMA DownOutside ==
  ASSUME TypeOK, LockInv, TypeOK', LockInv', DownInv, NEW a \in Actors,
         \A b \in Actors : b # a => op'[b] = op[b],
         op[a].pc \notin Locking, op'[a].pc \notin Locking \ {"locked"},
         \A i \in Ids : Calm(i)
  PROVE  DownInv'
<1>1. ASSUME NEW i \in Ids PROVE DownOK(i, Place(i))'
  <2>1. CASE Place(i)' = Place(i)
    BY <2>1, DownKept DEF DownInv
  <2>2. CASE op'[a].pc = "locked" /\ op'[a].id = i
    <3>1. connLock'[i] = a
      BY <2>2 DEF LockInv, Locking
    <3>2. \A b \in Actors : op[b].pc \in Locking => op[b].id # i
      BY <3>1 DEF LockInv
    <3>3. op'[a].pc \in Locking
      BY <2>2 DEF Locking
    <3>4. Place(i) = "idle" /\ Place(i)' = "locked"
      BY <2>2, <3>2, <3>3, PlaceFree, PlaceThere
    <3>5. DownOK(i, "locked")
      BY <3>4 DEF DownInv, DownOK
    <3> QED BY <3>4, <3>5, DownKept
  <2>3. CASE ~(op'[a].pc = "locked" /\ op'[a].id = i)
    BY <2>1, <2>3, PlaceElsewhere
  <2> QED BY <2>2, <2>3
<1>2. ASSUME NEW b \in Actors PROVE AgainOK(op[b])'
  <2>1. CASE b = a
    BY <2>1 DEF AgainOK, Locking
  <2>2. CASE b # a /\ op[b].pc \in {"down", "wait", "write"}
    <3>1. op[b].id \in Ids /\ op'[b] = op[b]
      BY <2>2 DEF LockInv, OpOK, Locking
    <3> QED BY <3>1, <2>2 DEF DownInv, AgainOK, Calm
  <2>3. CASE b # a /\ op[b].pc \notin {"down", "wait", "write"}
    BY <2>3 DEF AgainOK
  <2> QED BY <2>1, <2>2, <2>3
<1> QED BY <1>1, <1>2 DEF DownInv, AgainOK

LEMMA DownInside ==
  ASSUME TypeOK, LockInv, TypeOK', LockInv', DownInv, NEW a \in Actors,
         \A b \in Actors : b # a => op'[b] = op[b],
         NEW i \in Ids, op[a].pc \in Locking, op[a].id = i,
         op'[a].pc \in Locking => op'[a].id = i,
         \A j \in Ids : j # i => Calm(j),
         NEW p, DownOK(i, p)', IF op'[a].pc \in Locking THEN p = op'[a].pc ELSE p = "idle",
         op'[a].pc \in {"down", "wait", "write"} /\ UpAgain(op'[a]) => ~stay'[i]
  PROVE  DownInv'
<1>1. ASSUME NEW j \in Ids PROVE DownOK(j, Place(j))'
  <2>1. CASE j # i
    <3>1. Place(j)' = Place(j)
      BY <2>1, PlaceElsewhere
    <3> QED BY <2>1, <3>1, DownKept DEF DownInv
  <2>2. CASE j = i
    <3>1. Place(i)' = p
      BY PlaceThere, PlaceLeft
    <3> QED BY <2>2, <3>1
  <2> QED BY <2>1, <2>2
<1>2. ASSUME NEW b \in Actors PROVE AgainOK(op[b])'
  <2>1. CASE b = a
    BY <2>1 DEF AgainOK, Locking
  <2>2. CASE b # a /\ op[b].pc \in {"down", "wait", "write"}
    <3>1. op[b].id \in Ids /\ op'[b] = op[b] /\ connLock[op[b].id] = b /\ connLock[i] = a
      BY <2>2 DEF LockInv, OpOK, Locking
    <3>2. Calm(op[b].id)
      BY <2>2, <3>1
    <3> QED BY <3>1, <3>2, <2>2 DEF DownInv, AgainOK, Calm
  <2>3. CASE b # a /\ op[b].pc \notin {"down", "wait", "write"}
    BY <2>3 DEF AgainOK
  <2> QED BY <2>1, <2>2, <2>3
<1> QED BY <1>1, <1>2 DEF DownInv, AgainOK

(* The only connection: a disconnect gets its lock and ends the helper.    *)
LEMMA DownStep ==
  ASSUME MaxFaults = 0, "daemon" \notin Events, \A i, j \in Ids : i = j
  PROVE  TypeOK /\ LockInv /\ StayInv /\ DownInv /\ [Next]_vars => DownInv'
<1> SUFFICES ASSUME TypeOK, LockInv, StayInv, DownInv, [Next]_vars PROVE DownInv'
  OBVIOUS
<1>0. TypeOK' /\ LockInv' /\ ~Fault
  BY TypeStep, LockStep DEF Fault, TypeOK
<1>1. ASSUME NEW a \in Actors, Handled(a) PROVE DownInv'
  <2>0. \A b \in Actors : b # a => op'[b] = op[b]
    BY <1>1, OthersStay
  <2> DEFINE i == op[a].id
  <2>1. ASSUME op[a].pc \in Locking PROVE i \in Ids /\ DownOK(i, op[a].pc)
    BY <2>1, PlaceHere DEF DownInv
  <2>2. ASSUME UNCHANGED <<socket, stay>> PROVE \A j \in Ids : Calm(j)
    BY <2>2 DEF Calm
  <2>3. ASSUME NEW ok, Finish(a, ok), op[a].pc \in Locking, \A j \in Ids : Calm(j),
               stay[i] => ~socket'[i]
        PROVE  DownInv'
    <3>1. op'[a].pc = "idle" /\ op'[a].pc \notin Locking
      BY <2>3, FinishOp DEF Locking
    <3>2. PICK k \in Ids : k = i
      BY <2>1, <2>3
    <3>3. DownOK(k, "idle")'
      BY <2>3, <3>2 DEF DownOK, Calm
    <3> QED BY <1>0, <2>0, <2>3, <3>1, <3>2, <3>3, DownInside
  <2>4. ASSUME NEW place \in Locking, Goto(a, place), op[a].pc \in Locking,
               \A j \in Ids : j # i => Calm(j), NEW k, k = i, DownOK(k, place)',
               place \in {"down", "wait", "write"} /\ UpAgain(op[a]) => ~stay'[k]
        PROVE  DownInv'
    <3>1. op'[a].pc = place /\ op'[a].id = k /\ UpAgain(op'[a]) = UpAgain(op[a])
      BY <2>4, GotoOp DEF UpAgain
    <3> QED BY <1>0, <2>0, <2>1, <2>4, <3>1, DownInside
  <2>5. CASE TakeIndex(a)
    <3>1. UNCHANGED <<socket, stay>> /\ op[a].pc = "index"
          /\ op' = [op EXCEPT ![a].pc = IF op[a].kind = "add" THEN "add" ELSE "lock"]
      BY <2>5, Zenon DEF TakeIndex, fileVars
    <3>2. op'[a].pc \in {"add", "lock"}
      BY <3>1, OpFields DEF TypeOK, Op
    <3> QED BY <1>0, <2>0, <2>2, <3>1, <3>2, DownOutside DEF Locking
  <2>6. CASE TakeLock(a)
    <3>1. UNCHANGED <<socket, stay>> /\ op[a].pc = "lock" /\ op' = [op EXCEPT ![a].pc = "locked"]
      BY <2>6, Zenon DEF TakeLock, fileVars
    <3>2. op'[a].pc = "locked"
      BY <3>1, OpFields DEF TypeOK, Op
    <3> QED BY <1>0, <2>0, <2>2, <3>1, <3>2, DownOutside DEF Locking
  <2>7. CASE LockTimesOut(a)
    <3>1. /\ UNCHANGED <<socket, stay>> /\ Finish(a, FALSE)
          /\ \/ op[a].pc \in {"index", "lock", "up", "connect"}
             \/ op[a].pc = "down" /\ ~NetworkFree
      BY <2>7 DEF LockTimesOut, fileVars
    <3>2. CASE op[a].pc \in {"index", "lock"}
      <4>1. op'[a].pc = "idle"
        BY <3>1, FinishOp
      <4> QED BY <1>0, <2>0, <2>2, <3>1, <3>2, <4>1, DownOutside DEF Locking
    <3>3. CASE op[a].pc \in {"up", "connect"}
      <4>1. op[a].pc \in Locking
        BY <3>3 DEF Locking
      <4>2. ~stay[i]
        BY <2>1, <3>3, <4>1 DEF DownOK
      <4> QED BY <2>2, <2>3, <3>1, <4>1, <4>2
    <3>4. CASE op[a].pc = "down" /\ ~NetworkFree
      <4>1. PICK b \in Actors : op[b].pc = "wait"
        BY <3>4 DEF NetworkFree
      <4>2. /\ op[a].id \in Ids /\ op[b].id \in Ids
            /\ connLock[op[a].id] = a /\ connLock[op[b].id] = b
        BY <3>4, <4>1 DEF LockInv, OpOK, Locking
      <4>3. a = b
        BY <4>2
      <4> QED BY <3>4, <4>1, <4>3
    <3> QED BY <3>1, <3>2, <3>3, <3>4
  <2>8. ASSUME NEW j \in Ids, AddExisting(a, j) PROVE DownInv'
    <3>1. UNCHANGED <<socket, stay>> /\ op[a].pc = "add"
      BY <2>8, Zenon DEF AddExisting, fileVars
    <3>2. op'[a].pc \in {"idle", "lock"}
      <4>1. CASE Finish(a, TRUE)
        BY <4>1, FinishOp
      <4>2. CASE op' = [op EXCEPT ![a] = [@ EXCEPT !.pc = "lock", !.id = j, !.copy = store[j]]]
        BY <4>2, OpFields DEF TypeOK, Op
      <4> QED BY <2>8, <4>1, <4>2, Zenon DEF AddExisting
    <3> QED BY <1>0, <2>0, <2>2, <3>1, <3>2, DownOutside DEF Locking
  <2>9. CASE AddNew(a)
    <3>1. UNCHANGED <<socket, stay>> /\ op[a].pc = "add" /\ Finish(a, TRUE)
      BY <2>9, Zenon DEF AddNew, fileVars
    <3>2. op'[a].pc = "idle"
      BY <3>1, FinishOp
    <3> QED BY <1>0, <2>0, <2>2, <3>1, <3>2, DownOutside DEF Locking
  <2>10. ASSUME op[a].pc = "locked"
         PROVE  op[a].pc \in Locking /\ i \in Ids /\ (stay[i] => ~socket[i])
    BY <2>1, <2>10 DEF Locking, DownOK
  <2>11. CASE ReAdd(a) \/ SetMode(a)
    <3>1. /\ op[a].pc = "locked" /\ Finish(a, TRUE) /\ socket' = socket
          /\ stay' = stay \/ \E u : stay' = [stay EXCEPT ![i] = @ /\ u]
      BY <2>11, Zenon DEF ReAdd, SetMode, fileVars
    <3>2. \A j \in Ids : Calm(j)
      BY <3>1 DEF Calm, TypeOK
    <3> QED BY <2>3, <2>10, <3>1, <3>2
  <2>12. ASSUME op[a].pc = "locked", NEW ok, Finish(a, ok), UNCHANGED <<socket, stay>> PROVE DownInv'
    BY <2>2, <2>3, <2>10, <2>12
  <2>13. CASE Remove(a) \/ ClearDeadActive(a)
    <3>1. op[a].pc = "locked" /\ UNCHANGED <<socket, stay>> /\ Finish(a, TRUE)
      BY <2>13, Zenon DEF Remove, ClearDeadActive, fileVars
    <3> QED BY <2>12, <3>1
  <2>14. CASE UserConnect(a)
    <3>1. /\ op[a].pc = "locked" /\ socket' = socket
          /\ \/ Finish(a, FALSE) /\ stay' = stay
             \/ Goto(a, "connect") /\ stay' = [stay EXCEPT ![i] = FALSE]
      BY <2>14, Zenon DEF UserConnect, fileVars
    <3>2. CASE Goto(a, "connect") /\ stay' = [stay EXCEPT ![i] = FALSE]
      <4>1. PICK k \in Ids : k = i
        BY <2>10, <3>1
      <4>2. ~stay'[k] /\ \A j \in Ids : j # i => Calm(j)
        BY <3>1, <3>2, <4>1 DEF Calm, TypeOK
      <4>3. DownOK(k, "connect")' /\ "connect" \in Locking
        BY <4>2 DEF DownOK, Locking
      <4> QED BY <2>4, <2>10, <3>1, <3>2, <4>1, <4>2, <4>3
    <3> QED BY <2>12, <3>1, <3>2
  <2>15. CASE AutoConnect(a)
    <3>1. /\ op[a].pc = "locked" /\ UNCHANGED <<socket, stay>>
          /\ \/ Finish(a, FALSE) \/ Finish(a, TRUE)
             \/ Stored(i) /\ ~store[i].down /\ Goto(a, "connect")
      BY <2>15 DEF AutoConnect, fileVars
    <3>2. CASE Stored(i) /\ ~store[i].down /\ Goto(a, "connect")
      <4>1. PICK k \in Ids : k = i
        BY <2>10, <3>1
      <4>2. ~stay'[k]
        BY <3>1, <3>2, <4>1 DEF StayInv
      <4>3. DownOK(k, "connect")' /\ "connect" \in Locking
        BY <4>2 DEF DownOK, Locking
      <4> QED BY <2>2, <2>4, <2>10, <3>1, <3>2, <4>1, <4>2, <4>3
    <3> QED BY <2>12, <3>1, <3>2
  <2>16. CASE UserDisconnect(a)
    <3>1. /\ op[a].kind \in {"disconnect", "teardown"} /\ op[a].pc = "locked" /\ socket' = socket
          /\ \/ Finish(a, FALSE) /\ stay' = stay
             \/ Goto(a, "down") /\ (stay' = stay \/ stay' = [stay EXCEPT ![i] = TRUE])
      BY <2>16, Zenon DEF UserDisconnect, fileVars
    <3>2. CASE Goto(a, "down") /\ (stay' = stay \/ stay' = [stay EXCEPT ![i] = TRUE])
      <4>1. PICK k \in Ids : k = i
        BY <2>10, <3>1
      <4>2. ~UpAgain(op[a]) /\ \A j \in Ids : j # i => Calm(j)
        BY <3>1, <3>2 DEF Calm, TypeOK, UpAgain
      <4>3. DownOK(k, "down")' /\ "down" \in Locking
        BY DEF DownOK, Locking
      <4> QED BY <2>4, <2>10, <3>1, <3>2, <4>1, <4>2, <4>3
    <3> QED BY <2>12, <3>1, <3>2
  <2>17. CASE Reconnect(a)
    <3>1. /\ op[a].pc = "locked" /\ UNCHANGED <<socket, stay>>
          /\ Finish(a, TRUE) \/ (IsActive(i) /\ Goto(a, "down"))
      BY <2>17, Zenon DEF Reconnect, fileVars
    <3>2. CASE IsActive(i) /\ Goto(a, "down")
      <4>1. PICK k \in Ids : k = i
        BY <2>10, <3>1
      <4>2. ~stay'[k]
        BY <2>10, <3>1, <3>2, <4>1 DEF IsActive
      <4>3. DownOK(k, "down")' /\ "down" \in Locking
        BY DEF DownOK, Locking
      <4> QED BY <2>2, <2>4, <2>10, <3>1, <3>2, <4>1, <4>2, <4>3
    <3> QED BY <2>12, <3>1, <3>2
  <2>18. CASE Refresh(a)
    <3>1. /\ op[a].pc = "locked" /\ op[a].kind = "refresh" /\ UNCHANGED <<socket, stay>>
          /\ Finish(a, TRUE) \/ BeginRefresh(a)
      BY <2>18, Zenon DEF Refresh, fileVars
    <3>2. CASE BeginRefresh(a)
      <4>1. PICK k \in Ids : k = i
        BY <2>10, <3>1
      <4>2. PICK p : p = (IF IsActive(k) THEN "down" ELSE "write")
        OBVIOUS
      <4>3. /\ op'[a].pc = p /\ p \in Locking /\ op'[a].id = k /\ op'[a].kind = "refresh"
            /\ op'[a].wasUp = IsActive(k)
        BY <3>1, <3>2, <4>1, <4>2, RefreshOp DEF Locking
      <4>4. DownOK(k, p)'
        BY <2>10, <3>1, <4>1, <4>2 DEF DownOK
      <4>5. UpAgain(op'[a]) => ~stay'[k]
        BY <2>10, <3>1, <4>1, <4>3 DEF UpAgain, IsActive
      <4> QED BY <1>0, <2>0, <2>2, <2>10, <3>1, <4>1, <4>3, <4>4, <4>5, DownInside
    <3> QED BY <2>12, <3>1, <3>2
  <2>19. CASE WriteRefreshed(a)
    <3>1. /\ op[a].pc = "write" /\ UNCHANGED <<socket, stay>>
          /\ (op[a].wasUp /\ op' = [op EXCEPT ![a].pc = "connect"]) \/ Finish(a, TRUE)
      BY <1>0, <2>19, Zenon DEF WriteRefreshed, fileVars
    <3>2. op[a].pc \in Locking /\ i \in Ids /\ DownOK(i, "write") /\ op[a].kind = "refresh"
      BY <2>1, <3>1 DEF Locking, LockInv, OpOK
    <3>3. CASE op[a].wasUp /\ op' = [op EXCEPT ![a].pc = "connect"]
      <4>1. PICK k \in Ids : k = i
        BY <3>2
      <4>2. op'[a].pc = "connect" /\ op'[a].id = k
        BY <3>3, <4>1, OpFields DEF TypeOK, Op
      <4>3. ~stay'[k]
        BY <3>1, <3>2, <3>3, <4>1 DEF DownInv, UpAgain
      <4>4. DownOK(k, "connect")' /\ "connect" \in Locking
        BY <4>3 DEF DownOK, Locking
      <4> QED BY <1>0, <2>0, <2>2, <3>1, <3>2, <4>1, <4>2, <4>3, <4>4, DownInside
    <3>4. stay[i] => ~socket'[i]
      BY <3>1, <3>2 DEF DownOK
    <3> QED BY <2>2, <2>3, <3>1, <3>2, <3>3, <3>4
  <2>20. CASE CheckSocket(a)
    <3>1. /\ op[a].pc = "connect" /\ stay' = stay /\ ((\E ok : Finish(a, ok)) \/ Goto(a, "up"))
          /\ socket' = socket \/ socket' = [socket EXCEPT ![i] = FALSE]
      BY <2>20, Zenon DEF CheckSocket, ClearLeftovers, fileVars
    <3>2. op[a].pc \in Locking /\ i \in Ids /\ ~stay[i] /\ "up" \in Locking
      BY <2>1, <3>1 DEF Locking, DownOK
    <3>3. \A j \in Ids : Calm(j)
      BY <3>1 DEF Calm, TypeOK
    <3>4. PICK k \in Ids : k = i
      BY <3>2
    <3>5. DownOK(k, "up")' /\ ~stay'[k]
      BY <3>1, <3>2, <3>4 DEF DownOK
    <3> QED BY <2>3, <2>4, <3>1, <3>2, <3>3, <3>4, <3>5
  <2>21. CASE Up(a)
    <3>1. /\ op[a].pc = "up" /\ stay' = stay
          /\ \/ Finish(a, FALSE) /\ socket' = socket
             \/ Goto(a, "post") /\ socket' = [socket EXCEPT ![i] = TRUE]
      BY <2>21, Zenon DEF Up, fileVars
    <3>2. op[a].pc \in Locking /\ i \in Ids /\ ~stay[i] /\ "post" \in Locking
      BY <2>1, <3>1 DEF Locking, DownOK
    <3>3. \A j \in Ids : j # i => Calm(j)
      BY <3>1 DEF Calm, TypeOK
    <3>4. PICK k \in Ids : k = i
      BY <3>2
    <3>5. DownOK(k, "post")' /\ ~stay'[k]
      BY <3>1, <3>2, <3>4 DEF DownOK
    <3> QED BY <2>2, <2>3, <2>4, <3>1, <3>2, <3>3, <3>4, <3>5
  <2>22. CASE SaveActive(a)
    <3>1. op[a].pc = "post" /\ UNCHANGED <<socket, stay>> /\ (\E ok : Finish(a, ok))
      BY <2>22, Zenon DEF SaveActive
    <3>2. op[a].pc \in Locking /\ ~stay[i]
      BY <2>1, <3>1 DEF Locking, DownOK
    <3> QED BY <2>2, <2>3, <3>1, <3>2
  <2>23. ASSUME op[a].pc \in {"down", "wait"}, DownDone(a), UNCHANGED <<socket, stay>>,
                stay[i] => ~socket[i]
         PROVE  DownInv'
    <3>1. op[a].pc \in Locking /\ i \in Ids /\ (UpAgain(op[a]) => ~stay[i])
      BY <2>1, <2>23 DEF Locking, DownInv
    <3>2. CASE \E ok : Finish(a, ok)
      BY <2>2, <2>3, <2>23, <3>1, <3>2
    <3>3. CASE Goto(a, "connect") /\ op[a].kind = "reconnect"
      <4>1. PICK k \in Ids : k = i
        BY <3>1
      <4>2. ~stay'[k]
        BY <2>23, <3>1, <3>3, <4>1 DEF UpAgain
      <4>3. DownOK(k, "connect")' /\ "connect" \in Locking
        BY <4>2 DEF DownOK, Locking
      <4> QED BY <2>2, <2>4, <2>23, <3>1, <3>3, <4>1, <4>2, <4>3
    <3>4. CASE Goto(a, "write")
      <4>1. PICK k \in Ids : k = i
        BY <3>1
      <4>2. DownOK(k, "write")' /\ "write" \in Locking
        BY <2>23, <4>1 DEF DownOK, Locking
      <4>3. UpAgain(op[a]) => ~stay'[k]
        BY <2>23, <3>1, <4>1
      <4> QED BY <2>2, <2>4, <2>23, <3>1, <3>4, <4>1, <4>2, <4>3
    <3>5. (\E ok : Finish(a, ok)) \/ (Goto(a, "connect") /\ op[a].kind = "reconnect") \/ Goto(a, "write")
      BY <2>23 DEF DownDone
    <3> QED BY <3>2, <3>3, <3>4, <3>5
  <2>24. CASE Down(a)
    <3>1. op[a].pc = "down" /\ stay' = stay
      BY <2>24, Zenon DEF Down
    <3>2. op[a].pc \in Locking /\ i \in Ids /\ (UpAgain(op[a]) => ~stay[i]) /\ "wait" \in Locking
      BY <2>1, <3>1 DEF Locking, DownInv
    <3>3. CASE ~socket[i] /\ DownDone(a) /\ socket' = socket
      BY <2>23, <3>1, <3>3
    <3>4. CASE socket' = [socket EXCEPT ![i] = FALSE] /\ Goto(a, "wait")
      <4>1. PICK k \in Ids : k = i
        BY <3>2
      <4>2. ~socket'[k] /\ \A j \in Ids : j # i => Calm(j)
        BY <3>1, <3>4, <4>1 DEF Calm, TypeOK
      <4>3. DownOK(k, "wait")'
        BY <4>2 DEF DownOK
      <4>4. UpAgain(op[a]) => ~stay'[k]
        BY <3>1, <3>2, <4>1
      <4> QED BY <2>4, <3>2, <3>4, <4>1, <4>2, <4>3, <4>4
    <3> QED BY <2>24, <3>3, <3>4, Zenon DEF Down
  <2>25. CASE CleanupConfirmed(a)
    <3>1. op[a].pc = "wait" /\ UNCHANGED <<socket, stay>> /\ DownDone(a)
      BY <2>25, Zenon DEF CleanupConfirmed
    <3>2. stay[i] => ~socket[i]
      BY <2>1, <3>1 DEF Locking, DownOK
    <3> QED BY <2>23, <3>1, <3>2
  <2>26. CASE DownFails(a)
    <3>1. op[a].pc = "wait" /\ UNCHANGED <<socket, stay>> /\ Finish(a, FALSE)
      BY <2>26, Zenon DEF DownFails, fileVars
    <3>2. op[a].pc \in Locking /\ (stay[i] => ~socket[i])
      BY <2>1, <3>1 DEF Locking, DownOK
    <3> QED BY <2>2, <2>3, <3>1, <3>2
  <2>27. ~UpFails(a) /\ ~PostUpFails(a)
    BY <1>0, Zenon DEF UpFails, PostUpFails
  <2> QED BY <1>1, <2>5, <2>6, <2>7, <2>8, <2>9, <2>11, <2>13, <2>14, <2>15, <2>16, <2>17, <2>18,
             <2>19, <2>20, <2>21, <2>22, <2>24, <2>25, <2>26, <2>27, Zenon DEF Handled
<1>2. ASSUME NEW a \in Actors, NEW o \in Op, Begins(a, o), \A i \in Ids : Calm(i) PROVE DownInv'
  <2>1. op[a].pc \notin Locking /\ op'[a].pc \notin Locking \ {"locked"}
    BY <1>2 DEF Begins, Locking, TypeOK
  <2>2. \A b \in Actors : b # a => op'[b] = op[b]
    BY <1>2 DEF Begins, TypeOK
  <2> QED BY <1>0, <1>2, <2>1, <2>2, DownOutside
<1>3. CASE Requested
  <2>1. UNCHANGED <<socket, stay>>
    BY <1>3, Zenon DEF Requested, AskAdd, AskRemove, AskMode, Ask, fileVars
  <2>2. \A i \in Ids : Calm(i)
    BY <2>1 DEF Calm
  <2> QED BY <1>2, <1>3, <2>2, RequestBegins
<1>4. ASSUME NEW i \in Ids, BootNext(i) PROVE DownInv'
  <2>1. UNCHANGED <<socket, stay>>
    BY <1>4, Zenon DEF BootNext, fileVars
  <2>2. \A j \in Ids : Calm(j)
    BY <2>1 DEF Calm
  <2> QED BY <1>2, <1>4, <2>2, BootBegins
<1>5. ASSUME NEW w \in Workers, NEW i \in Ids, SweepDead(w, i) PROVE DownInv'
  <2>1. stay' = stay /\ socket' = [socket EXCEPT ![i] = FALSE]
    BY <1>5, Zenon DEF SweepDead, ClearLeftovers
  <2>2. \A j \in Ids : Calm(j)
    BY <2>1 DEF Calm, TypeOK
  <2> QED BY <1>2, <1>5, <2>2, SweepBegins
<1>6. ASSUME UNCHANGED <<op, connLock>>, \A i \in Ids : Calm(i) PROVE DownInv'
  <2>1. \A i \in Ids : Place(i)' = Place(i)
    BY <1>6 DEF Place
  <2>2. \A i \in Ids : DownOK(i, Place(i))'
    BY <1>6, <2>1, DownKept DEF DownInv
  <2>3. ASSUME NEW a \in Actors, op[a].pc \in {"down", "wait", "write"}, UpAgain(op[a])
        PROVE  ~stay'[op[a].id]
    <3>1. op[a].id \in Ids
      BY <2>3 DEF LockInv, OpOK, Locking
    <3> QED BY <1>6, <2>3, <3>1 DEF DownInv, Calm
  <2> QED BY <1>6, <2>2, <2>3 DEF DownInv
<1>7. ASSUME NEW i \in Ids, HelperExits(i) \/ HelperKilled(i) PROVE DownInv'
  <2>1. /\ UNCHANGED <<op, connLock, stay>>
        /\ socket' = socket \/ socket' = [socket EXCEPT ![i] = FALSE]
    BY <1>7, Zenon DEF HelperExits, HelperKilled, lockVars
  <2>2. \A j \in Ids : Calm(j)
    BY <2>1 DEF Calm, TypeOK
  <2> QED BY <1>6, <2>1, <2>2
<1>8. CASE BootStart \/ BootDone \/ UNCHANGED vars
  <2>1. UNCHANGED <<op, connLock, stay, socket>>
    BY <1>8, Zenon DEF BootStart, BootDone, vars, lockVars, fileVars
  <2> QED BY <1>6, <2>1 DEF Calm
<1>9. CASE Reboot
  <2>1. /\ connLock' = [i \in Ids |-> None] /\ op' = [a \in Actors |-> NoOp]
        /\ socket' = [i \in Ids |-> FALSE]
    BY <1>9, Zenon DEF Reboot, NewDaemon
  <2>2. \A i \in Ids : Place(i)' = "idle" /\ ~socket'[i]
    BY <2>1 DEF Place
  <2>3. \A a \in Actors : op'[a].pc = "idle"
    BY <2>1 DEF NoOp
  <2> QED BY <2>2, <2>3 DEF DownInv, DownOK
<1> QED BY <1>1, <1>3, <1>4, <1>5, <1>7, <1>8, <1>9, Zenon
        DEF Next, Helpers, Booting, DaemonRestarts

LEMMA DisconnectsEnd ==
  ASSUME MaxFaults = 0, "daemon" \notin Events, "readd" \notin Requests, \A i, j \in Ids : i = j
  PROVE  Spec => []DownInv
<1>1. ASSUME Init PROVE DownInv
  <2>1. (\A i \in Ids : ~stay[i]) /\ (\A a \in Actors : op[a].pc = "idle")
    BY <1>1 DEF Init, NoOp
  <2> QED BY <2>1 DEF DownInv, DownOK
<1> QED BY <1>1, DownStep, IntentKept, TypeCorrect, LocksInOrder, PTL DEF Spec

(* connect, disconnect, reconnect, refresh, remove and clear_dead_active:  *)
(* store, markers and processes tell the same story whenever no operation  *)
(* is under way.  With a second connection a disconnect can give up waiting*)
(* for the network lock and leave its helper running.                      *)
THEOREM StoreTellsTheTruth ==
  ASSUME MaxFaults = 0, "daemon" \notin Events, "readd" \notin Requests, \A i, j \in Ids : i = j
  PROVE  Spec => []StoreInv
<1>1. TypeOK /\ RunInv /\ DownInv => DisconnectedIsDown
  <2> SUFFICES ASSUME TypeOK, RunInv, DownInv, NEW i \in Ids, stay[i], connLock[i] = None
               PROVE  runs[i] = None
    BY DEF DisconnectedIsDown
  <2>1. RunOK(i, "idle") /\ DownOK(i, "idle")
    BY DEF RunInv, DownInv, Place
  <2> QED BY <2>1 DEF RunOK, DownOK
<1>2. TypeOK /\ DisconnectedIsDown /\ (RunningIsStored /\ RunningIsActive /\ RunsWhatIsStored)
        => StoreInv
  BY DEF StoreInv
<1> QED BY <1>1, <1>2, TypeCorrect, FilesAgree, RunningIsKnown, DisconnectsEnd, PTL
=============================================================================
