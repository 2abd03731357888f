----------------------- MODULE HelperLifecycle_proofs -----------------------
(***************************************************************************)
(* Theorems about HelperLifecycle for any number of helpers, one after the *)
(* other, and any number of faults.  A helper is not held up between its   *)
(* cleanup status and its exit, and the daemon does not go while a helper  *)
(* starts: without either, a second helper can be started over the first.  *)
(***************************************************************************)
EXTENDS HelperLifecycle, TLAPS

(* A helper that is up, until it has written its cleanup status.           *)
Working == {"run", "clean", "stop", "report"}

Busy(h) == pc[h] \in Starting \cup Working

(* One helper lives at a time, because a start is waited for and whoever   *)
(* works has a pid file.                                                   *)
AloneInv ==
  /\ \A g, h \in Helpers : Alive(g) /\ Alive(h) => g = h
  /\ \A h \in Helpers : pc[h] \in Starting => daemon.pc = "wait ready" /\ told = "none"
  /\ \A h \in tun : pc[h] \in Living \ {"start"}
  /\ \A h \in Helpers : pc[h] \in Working \cup {"ready"} => file["pid"] = h
  /\ \A h \in Helpers : pc[h] \in Working \cup {"ready", "named"} => file["name"] = h

(* Where there is a cleanup status nobody works any more; whoever takes a  *)
(* helper down knows which.                                                *)
StatusInv ==
  /\ status # "none" \/ daemon.pc = "device" => \A h \in Helpers : ~Busy(h)
  /\ daemon.pc \in {"wait", "term", "device"}
       => \A h \in Helpers : Alive(h) => daemon.pid = h /\ daemon.name = h

(* A status "ok" speaks for the helper that the files, or the daemon that  *)
(* has read them, name.                                                    *)
CleanInv ==
  /\ \A h \in Helpers : pc[h] \in {"stop", "report"} /\ h \notin failed => h \notin network
  /\ status = "ok" => {file["pid"], file["name"]} \cap network = {}
  /\ (daemon.pc \in {"wait", "term"} /\ status = "ok") \/ daemon.pc = "device"
       => {daemon.pid, daemon.name} \cap network = {}
  /\ daemon.pc = "down" /\ daemon.op # "rollback" => daemon.pid = None /\ daemon.name = None

-----------------------------------------------------------------------------
LEMMA FaultType ==
  ASSUME TypeOK, Fault
  PROVE  faults' \in 0..MaxFaults
BY HelperLifecycleAssumption DEF TypeOK, Fault

LEMMA DaemonTypes ==
  /\ NoDaemon \in Daemon
  /\ \A d \in Daemon :
       /\ d.pid \in Helpers \cup {None} /\ d.name \in Helpers \cup {None}
       /\ \A place \in {"idle", "check", "up", "wait ready", "post", "down", "wait", "term", "device"} :
            [d EXCEPT !.pc = place] \in Daemon
       /\ [d EXCEPT !.pc = "down", !.op = "rollback"] \in Daemon
       /\ \A h \in Helpers : [d EXCEPT !.pc = "wait ready", !.pid = h] \in Daemon
       /\ \A g \in Helpers \cup {None}, h \in Helpers \cup {None} :
            [d EXCEPT !.pc = "wait", !.pid = g, !.name = h] \in Daemon
  /\ \A op \in {"connect", "disconnect"}, place \in {"check", "down"} :
       [NoDaemon EXCEPT !.op = op, !.pc = place] \in Daemon
<1>1. NoDaemon \in Daemon
  BY DEF NoDaemon, Daemon
<1>2. ASSUME NEW d \in Daemon
      PROVE  /\ d.pid \in Helpers \cup {None} /\ d.name \in Helpers \cup {None}
             /\ \A place \in {"idle", "check", "up", "wait ready", "post", "down", "wait", "term",
                              "device"} : [d EXCEPT !.pc = place] \in Daemon
             /\ [d EXCEPT !.pc = "down", !.op = "rollback"] \in Daemon
             /\ \A h \in Helpers : [d EXCEPT !.pc = "wait ready", !.pid = h] \in Daemon
             /\ \A g \in Helpers \cup {None}, h \in Helpers \cup {None} :
                  [d EXCEPT !.pc = "wait", !.pid = g, !.name = h] \in Daemon
  BY DEF Daemon
<1>3. \A op \in {"connect", "disconnect"}, place \in {"check", "down"} :
        [NoDaemon EXCEPT !.op = op, !.pc = place] \in Daemon
  BY <1>1 DEF Daemon
<1> QED BY <1>1, <1>2, <1>3

(* Files are removed, and processes end, within their types.               *)
LEMMA FileTypes ==
  ASSUME TypeOK
  PROVE  /\ \A paths : Without(paths) \in [Paths -> Helpers \cup {None}]
         /\ \A p \in Paths, h \in Helpers : [file EXCEPT ![p] = h] \in [Paths -> Helpers \cup {None}]
         /\ \A p \in Paths : file[p] \in Helpers \cup {None}
BY DEF TypeOK, Without

LEMMA LeaveType ==
  ASSUME TypeOK, NEW h \in Helpers, Leave(h)
  PROVE  pc' \in [Helpers -> {"unused", "gone"} \cup Living] /\ tun' \subseteq Helpers
BY DEF TypeOK, Leave

LEMMA PcType ==
  ASSUME TypeOK, NEW h \in Helpers, NEW place \in Living, pc' = [pc EXCEPT ![h] = place]
  PROVE  pc' \in [Helpers -> {"unused", "gone"} \cup Living]
BY DEF TypeOK

LEMMA AnswerType ==
  ASSUME NEW a \in Answers, Answer(a)
  PROVE  daemon' \in Daemon /\ said' \in Answers
BY DaemonTypes DEF Answer

(* Every action keeps every variable in its type.                          *)
LEMMA TypeStep == TypeOK /\ [Next]_vars => TypeOK'
<1> SUFFICES ASSUME TypeOK, [Next]_vars PROVE TypeOK'
  OBVIOUS
<1> USE FaultType, FileTypes, LeaveType
<1>0. {"bound", "network", "named", "ready", "run", "clean", "stop", "report", "start",
       "unlink socket", "unlink pid", "unlink name", "unlink query"} \subseteq Living
  BY DEF Living, Starting, Leaving
<1>1. ASSUME NEW h \in Helpers, Start(h) PROVE TypeOK'
  <2>1. CASE BindSocket(h)
    BY <1>0, <2>1, PcType DEF BindSocket, TypeOK, Paths
  <2>2. CASE NoDevice(h)
    BY <2>2 DEF NoDevice, Tell, TypeOK
  <2>3. CASE ConfigureNetwork(h)
    BY <1>0, <2>3, PcType DEF ConfigureNetwork, TypeOK
  <2>4. CASE ConfigureFails(h)
    BY <2>4 DEF ConfigureFails, Tell, TypeOK
  <2>5. CASE WriteName(h)
    BY <1>0, <2>5, PcType DEF WriteName, TypeOK, Paths
  <2>6. CASE NameFails(h)
    BY <2>6 DEF NameFails, Tell, TypeOK
  <2>7. CASE WritePid(h)
    BY <1>0, <2>7, PcType DEF WritePid, TypeOK, Paths
  <2>8. CASE PidFails(h)
    BY <2>8 DEF PidFails, Tell, TypeOK
  <2>9. CASE TellReady(h)
    <3>1. file' \in [Paths -> Helpers \cup {None}]
      BY <2>9, "query" \in Paths DEF TellReady, Paths
    <3> QED BY <1>0, <2>9, <3>1, PcType DEF TellReady, Tell, TypeOK
  <2>10. CASE TellFails(h)
    BY <2>10 DEF TellFails, TypeOK
  <2> QED BY <1>1, <2>1, <2>2, <2>3, <2>4, <2>5, <2>6, <2>7, <2>8, <2>9, <2>10, Zenon DEF Start
<1>2. ASSUME NEW h \in Helpers, End(h) PROVE TypeOK'
  <2>1. CASE ShutdownRequested(h)
    BY <1>0, <2>1, PcType DEF ShutdownRequested, TypeOK
  <2>2. CASE CleanupNetwork(h)
    BY <1>0, <2>2, PcType DEF CleanupNetwork, TypeOK
  <2>3. CASE StopDevice(h)
    BY <1>0, <2>3, PcType DEF StopDevice, TypeOK
  <2>4. CASE WriteStatus(h)
    BY <1>0, <2>4, PcType DEF WriteStatus, TypeOK
  <2>5. CASE StatusFails(h)
    BY <2>5 DEF StatusFails, TypeOK
  <2>6. ASSUME NEW place, NEW path, NEW next \in Living \cup {"gone"}, UnlinkFile(h, place, path, next)
        PROVE  TypeOK'
    <3>1. CASE next = "gone"
      BY <2>6, <3>1 DEF UnlinkFile, TypeOK
    <3>2. CASE next # "gone"
      BY <2>6, <3>2, PcType DEF UnlinkFile, TypeOK
    <3> QED BY <3>1, <3>2
  <2>7. CASE Unlink(h)
    BY <1>0, <2>6, <2>7 DEF Unlink
  <2> QED BY <1>2, <2>1, <2>2, <2>3, <2>4, <2>5, <2>7, Zenon DEF End
<1>3. ASSUME Operation PROVE TypeOK'
  <2>1. ASSUME daemon' \in Daemon, said' \in Answers, active' \in Helpers \cup {None},
               UNCHANGED <<helperVars, reused>>, file' \in [Paths -> Helpers \cup {None}],
               status' \in {"none", "ok", "failed"}, signalled' \subseteq Helpers,
               faults' = faults \/ Fault
        PROVE  TypeOK'
    BY <2>1 DEF TypeOK, helperVars
  <2>2. CASE CheckSocket
    <3>1. Goto("up") \/ Answer("up") \/ Answer("failed")
      BY <2>2 DEF CheckSocket
    <3>2. daemon' \in Daemon /\ said' \in Answers
      BY <3>1, AnswerType, DaemonTypes DEF Goto, TypeOK, Answers
    <3>3. file' \in [Paths -> Helpers \cup {None}]
      BY <2>2 DEF CheckSocket, ClearDeadHelperLeftovers, TypeOK
    <3> QED BY <2>1, <2>2, <3>2, <3>3 DEF CheckSocket, TypeOK
  <2>3. CASE Up
    <3>1. CASE Answer("failed") /\ UNCHANGED <<file, status, pc, told>>
      <4>1. daemon' \in Daemon /\ said' \in Answers
        BY <3>1, AnswerType DEF Answers
      <4> QED BY <2>3, <3>1, <4>1 DEF Up, TypeOK
    <3>2. ASSUME NEW h \in Helpers,
                 /\ file' = Without({"pid", "name"}) /\ status' = "none"
                 /\ pc' = [pc EXCEPT ![h] = "start"]
                 /\ told' = "none"
                 /\ daemon' = [daemon EXCEPT !.pc = "wait ready", !.pid = h]
                 /\ UNCHANGED said
          PROVE  TypeOK'
      <4>1. daemon' \in Daemon
        BY <3>2, DaemonTypes DEF TypeOK
      <4> QED BY <1>0, <2>3, <3>2, <4>1, PcType DEF Up, TypeOK
    <3> QED BY <2>3, <3>1, <3>2, Zenon DEF Up
  <2>4. CASE UpFails
    <3>1. daemon' \in Daemon /\ said' \in Answers
      BY <2>4, AnswerType DEF UpFails, Answers
    <3> QED BY <2>1, <2>4, <3>1 DEF UpFails, TypeOK
  <2>5. CASE HelperStarted
    <3>1. Goto("post") \/ Answer("failed")
      BY <2>5, Zenon DEF HelperStarted
    <3>2. daemon' \in Daemon /\ said' \in Answers
      BY <3>1, AnswerType, DaemonTypes DEF Goto, TypeOK, Answers
    <3> QED BY <2>1, <2>5, <3>2 DEF HelperStarted, TypeOK
  <2>6. CASE SaveActive
    <3>1. (Answer("up") \/ Answer("failed")) /\ active' \in {active, file["socket"]}
      BY <2>6, Zenon DEF SaveActive
    <3>2. daemon' \in Daemon /\ said' \in Answers /\ active' \in Helpers \cup {None}
      BY <3>1, AnswerType DEF TypeOK, Answers, Paths
    <3> QED BY <2>1, <2>6, <3>2 DEF SaveActive, TypeOK
  <2>7. CASE PostUpFails
    <3>1. Answer("failed") \/ (daemon' = [daemon EXCEPT !.pc = "down", !.op = "rollback"] /\ said' = said)
      BY <2>7, Zenon DEF PostUpFails
    <3>2. daemon' \in Daemon /\ said' \in Answers
      BY <3>1, AnswerType, DaemonTypes DEF TypeOK, Answers
    <3> QED BY <2>1, <2>7, <3>2 DEF PostUpFails, TypeOK
  <2>8. ASSUME DownDone
        PROVE  daemon' \in Daemon /\ said' \in Answers /\ active' \in Helpers \cup {None}
    BY <2>8, AnswerType DEF DownDone, TypeOK, Answers
  <2>9. CASE DownBegin
    <3>1. \/ Answer("failed") /\ UNCHANGED <<file, active>>
          \/ DownDone /\ UNCHANGED file
          \/ /\ daemon' = [daemon EXCEPT !.pc = "wait", !.pid = file["pid"], !.name = file["name"]]
             /\ file' = Without({"socket"})
             /\ UNCHANGED <<active, said>>
      BY <2>9 DEF DownBegin
    <3>2. file["pid"] \in Helpers \cup {None} /\ file["name"] \in Helpers \cup {None}
      BY DEF Paths
    <3>4. daemon' \in Daemon /\ said' \in Answers /\ active' \in Helpers \cup {None}
      <4>1. CASE Answer("failed") /\ active' = active
        BY <4>1, AnswerType DEF TypeOK, Answers
      <4>2. CASE UNCHANGED <<active, said>> /\ daemon' = [daemon EXCEPT !.pc = "wait",
                   !.pid = file["pid"], !.name = file["name"]]
        BY <3>2, <4>2, DaemonTypes DEF TypeOK
      <4> QED BY <2>8, <3>1, <4>1, <4>2, Zenon
    <3>3. file' \in [Paths -> Helpers \cup {None}]
      BY <3>1 DEF TypeOK
    <3> QED BY <2>1, <2>9, <3>3, <3>4 DEF DownBegin, TypeOK
  <2>10. CASE CleanupStatus
    <3>1. Goto("device") \/ Answer("failed")
      BY <2>10, Zenon DEF CleanupStatus
    <3>2. daemon' \in Daemon /\ said' \in Answers
      BY <3>1, AnswerType, DaemonTypes DEF Goto, TypeOK, Answers
    <3> QED BY <2>1, <2>10, <3>2 DEF CleanupStatus, TypeOK
  <2>11. CASE StatusTimesOut
    <3>1. daemon' \in Daemon /\ said' \in Answers
      BY <2>11, DaemonTypes DEF StatusTimesOut, Goto, TypeOK
    <3>2. signalled' \subseteq Helpers
      <4>1. daemon.pid \in Helpers \cup {None}
        BY DaemonTypes DEF TypeOK
      <4> QED BY <2>11, <4>1 DEF StatusTimesOut, TypeOK
    <3> QED BY <2>1, <2>11, <3>1, <3>2 DEF StatusTimesOut, TypeOK
  <2>12. CASE NoStatus
    <3>1. daemon' \in Daemon /\ said' \in Answers
      BY <2>12, AnswerType DEF NoStatus, Answers
    <3> QED BY <2>1, <2>12, <3>1 DEF NoStatus, TypeOK
  <2>13. CASE DeviceGone
    BY <2>1, <2>8, <2>13 DEF DeviceGone, TypeOK
  <2>14. CASE DeviceStays
    <3>1. daemon' \in Daemon /\ said' \in Answers
      BY <2>14, AnswerType DEF DeviceStays, Answers
    <3> QED BY <2>1, <2>14, <3>1 DEF DeviceStays, TypeOK
  <2> QED BY <1>3, <2>2, <2>3, <2>4, <2>5, <2>6, <2>7, <2>9, <2>10, <2>11, <2>12, <2>13, <2>14, Zenon
          DEF Operation
<1>4. ASSUME Environment PROVE TypeOK'
  <2>1. CASE DaemonGoes
    <3>1. daemon' \in Daemon /\ said' \in Answers
      BY <2>1, AnswerType DEF DaemonGoes, Answers
    <3> QED BY <2>1, <3>1 DEF DaemonGoes, TypeOK, helperVars
  <2>2. ASSUME NEW h \in Helpers, DeviceFails(h) PROVE TypeOK'
    BY <1>0, <2>2, PcType DEF DeviceFails, TypeOK
  <2>3. ASSUME NEW h \in Helpers, Killed(h) PROVE TypeOK'
    BY <2>3 DEF Killed, TypeOK
  <2>4. ASSUME NEW h \in Helpers, PidReused(h) PROVE TypeOK'
    BY <2>4 DEF PidReused, TypeOK, helperVars
  <2> QED BY <1>4, <2>1, <2>2, <2>3, <2>4, Zenon DEF Environment
<1>5. ASSUME NEW op \in {"connect", "disconnect"}, Ask(op) PROVE TypeOK'
  <2>1. daemon' \in Daemon
    BY <1>5, DaemonTypes DEF Ask
  <2> QED BY <1>5, <2>1 DEF Ask, TypeOK, helperVars
<1>6. CASE UNCHANGED vars
  BY <1>6 DEF TypeOK, vars, helperVars
<1> QED BY <1>1, <1>2, <1>3, <1>4, <1>5, <1>6, Zenon DEF Next

LEMMA TypeCorrect == Spec => []TypeOK
<1>1. ASSUME Init PROVE TypeOK
  <2>0. MaxFaults \in Nat
    BY HelperLifecycleAssumption
  <2>1. daemon = NoDaemon /\ faults = MaxFaults
    BY <1>1, Zenon DEF Init
  <2>2. daemon \in Daemon
    BY <2>1, DaemonTypes, Zenon
  <2>3. faults \in 0..MaxFaults
    BY <2>0, <2>1
  <2> QED BY <1>1, <2>2, <2>3 DEF Init, TypeOK, Answers
<1> QED BY <1>1, TypeStep, PTL DEF Spec

-----------------------------------------------------------------------------
(* One helper takes a step.                                                *)
LEMMA OneMoves ==
  ASSUME TypeOK, NEW h \in Helpers, NEW place, pc' = [pc EXCEPT ![h] = place]
  PROVE  pc'[h] = place /\ \A g \in Helpers : g # h => pc'[g] = pc[g]
BY DEF TypeOK

LEMMA AliveIs ==
  /\ \A h \in Helpers : Alive(h) <=> pc[h] \in Living
  /\ \A h \in Helpers : Alive(h)' <=> pc'[h] \in Living
BY HelperLifecycleAssumption, Zenon DEF Alive

(* The only helper that lives goes on, with its files.                     *)
LEMMA AloneMoves ==
  ASSUME TypeOK, AloneInv, NEW h \in Helpers, pc[h] \in Living, NEW place \in Living \cup {"gone"},
         pc' = [pc EXCEPT ![h] = place],
         place \in Starting => UNCHANGED <<daemon, told>> /\ pc[h] \in Starting,
         \A g \in tun' : g \in tun \/ g = h,
         h \in tun' => place \in Living \ {"start"},
         place \in Working \cup {"ready"} => file'["pid"] = h,
         place \in Working \cup {"ready", "named"} => file'["name"] = h
  PROVE  AloneInv'
<1>1. pc'[h] = place /\ \A g \in Helpers : g # h => pc'[g] = pc[g] /\ pc[g] \notin Living
  BY OneMoves, AliveIs DEF AloneInv
<1>2. Starting \subseteq Living /\ Working \cup {"ready", "named"} \subseteq Living /\ "gone" \notin Living
  BY DEF Living, Starting, Working, Leaving
<1>3. \A f, g \in Helpers : Alive(f)' /\ Alive(g)' => f = g
  BY <1>1, <1>2, AliveIs
<1>4. \A g \in Helpers : pc'[g] \in Starting => daemon'.pc = "wait ready" /\ told' = "none"
  BY <1>1, <1>2 DEF AloneInv
<1>5. \A g \in tun' : pc'[g] \in Living \ {"start"}
  BY <1>1, <1>2 DEF AloneInv, TypeOK
<1>6. \A g \in Helpers : pc'[g] \in Working \cup {"ready"} => file'["pid"] = g
  BY <1>1, <1>2
<1>7. \A g \in Helpers : pc'[g] \in Working \cup {"ready", "named"} => file'["name"] = g
  BY <1>1, <1>2
<1> QED BY <1>3, <1>4, <1>5, <1>6, <1>7 DEF AloneInv

(* The daemon's part leaves helpers alone, and the files of one that works.*)
LEMMA AloneStays ==
  ASSUME AloneInv, UNCHANGED <<pc, tun, told>>,
         daemon' = daemon \/ \A h \in Helpers : pc[h] \notin Starting,
         \/ file'["pid"] = file["pid"] /\ file'["name"] = file["name"]
         \/ \A h \in Helpers : ~Busy(h)
  PROVE  AloneInv'
<1>1. \A g, h \in Helpers : Alive(g)' /\ Alive(h)' => g = h
  BY AliveIs DEF AloneInv
<1>2. \A h \in Helpers : pc'[h] \in Starting => daemon'.pc = "wait ready" /\ told' = "none"
  BY DEF AloneInv
<1>3. \A h \in tun' : pc'[h] \in Living \ {"start"}
  BY DEF AloneInv
<1>4. {"ready", "named"} \subseteq Starting
  BY DEF Starting
<1>5. \A h \in Helpers : pc'[h] \in Working \cup {"ready"} => file'["pid"] = h
  BY <1>4 DEF AloneInv, Busy
<1>6. \A h \in Helpers : pc'[h] \in Working \cup {"ready", "named"} => file'["name"] = h
  BY <1>4 DEF AloneInv, Busy
<1> QED BY <1>1, <1>2, <1>3, <1>5, <1>6 DEF AloneInv

(* Whoever lives when a new helper may be started, or a helper be taken    *)
(* down, works and has its pid in the file.                                *)
LEMMA WhoLives ==
  ASSUME AloneInv, "slow" \notin Events, NobodyLeaving, daemon.pc # "wait ready",
         NEW h \in Helpers, Alive(h)
  PROVE  pc[h] \in Working /\ file["pid"] = h /\ file["name"] = h
<1>1. pc[h] \in Living /\ pc[h] \notin Starting
  BY AliveIs DEF AloneInv
<1>2. pc[h] \notin Leaving
  BY DEF NobodyLeaving
<1>3. pc[h] \in Working
  BY <1>1, <1>2 DEF Living, Working
<1> QED BY <1>3 DEF AloneInv

(* The files a connect or a disconnect removes are not those of a helper   *)
(* that works.                                                             *)
LEMMA CheckKeeps ==
  ASSUME TypeOK, AloneInv, CheckSocket
  PROVE  \/ file'["pid"] = file["pid"] /\ file'["name"] = file["name"]
         \/ \A h \in Helpers : ~Busy(h)
<1>1. CASE file' = file
  BY <1>1
<1>2. CASE ~HelperIsLive
  <2>1. ~Alive(file["pid"])
    BY <1>2 DEF HelperIsLive
  <2>2. \A h \in Helpers : pc[h] \in Working => Alive(h) /\ file["pid"] = h
    BY AliveIs DEF AloneInv, Living, Working
  <2>3. \A h \in Helpers : pc[h] \notin Starting
    BY DEF AloneInv, CheckSocket
  <2> QED BY <2>1, <2>2, <2>3 DEF Busy
<1> QED BY <1>1, <1>2, Zenon DEF CheckSocket, ClearDeadHelperLeftovers

LEMMA AloneStep ==
  ASSUME "slow" \notin Events, "orphan" \notin Events
  PROVE  TypeOK /\ AloneInv /\ StatusInv /\ [Next]_vars => AloneInv'
<1> SUFFICES ASSUME TypeOK, AloneInv, StatusInv, [Next]_vars PROVE AloneInv'
  OBVIOUS
<1>0. /\ \A paths, p : p \in Paths /\ p \notin paths => Without(paths)[p] = file[p]
      /\ {"pid", "name", "socket", "query"} \subseteq Paths
  BY DEF Without, Paths
<1>1. ASSUME NEW h \in Helpers, Leave(h), pc[h] \in Living PROVE AloneInv'
  <2>1. pc' = [pc EXCEPT ![h] = "gone"] /\ tun' = tun \ {h}
    BY <1>1 DEF Leave
  <2>2. "gone" \notin Starting \cup Working \cup {"ready", "named"}
    BY DEF Starting, Working
  <2> QED BY <1>1, <2>1, <2>2, AloneMoves
<1>2. ASSUME NEW h \in Helpers, Start(h) PROVE AloneInv'
  <2>1. CASE BindSocket(h)
    BY <2>1, AloneMoves DEF BindSocket, Living, Starting, Working
  <2>2. CASE ConfigureNetwork(h)
    BY <2>2, AloneMoves DEF ConfigureNetwork, Living, Starting, Working
  <2>3. CASE WriteName(h)
    <3>1. file'["name"] = h
      BY <1>0, <2>3 DEF WriteName, TypeOK
    <3> QED BY <2>3, <3>1, AloneMoves DEF WriteName, Living, Starting, Working
  <2>4. CASE WritePid(h)
    <3>1. file'["pid"] = h /\ file'["name"] = h
      BY <1>0, <2>4 DEF WritePid, TypeOK, AloneInv
    <3> QED BY <2>4, <3>1, AloneMoves DEF WritePid, Living, Starting, Working
  <2>5. CASE TellReady(h)
    <3>1. file["pid"] = h /\ file["name"] = h
      BY <2>5 DEF TellReady, AloneInv
    <3>2. file'["pid"] = h /\ file'["name"] = h
      BY <1>0, <2>5, <3>1 DEF TellReady, TypeOK
    <3> QED BY <2>5, <3>2, AloneMoves DEF TellReady, Living, Starting, Working
  <2>6. CASE NoDevice(h) \/ ConfigureFails(h) \/ NameFails(h) \/ PidFails(h) \/ TellFails(h)
    <3>1. Leave(h) /\ pc[h] \in {"start", "bound", "network", "named", "ready"}
      BY <2>6 DEF NoDevice, ConfigureFails, NameFails, PidFails, TellFails
    <3>2. pc[h] \in Living
      BY <3>1 DEF Living, Starting
    <3> QED BY <1>1, <3>1, <3>2
  <2> QED BY <1>2, <2>1, <2>2, <2>3, <2>4, <2>5, <2>6, Zenon DEF Start
<1>3. ASSUME NEW h \in Helpers, NEW place \in Working, pc[h] \in Working,
             pc' = [pc EXCEPT ![h] = place], tun' \subseteq tun, UNCHANGED file
      PROVE  AloneInv'
  <2>1. place \in Living \ {"start"} /\ place \notin Starting /\ pc[h] \in Living
    BY <1>3 DEF Living, Starting, Working
  <2>2. file["pid"] = h /\ file["name"] = h
    BY <1>3 DEF AloneInv
  <2> QED BY <1>3, <2>1, <2>2, AloneMoves
<1>4. ASSUME NEW h \in Helpers, NEW place \in Leaving, pc[h] \in Living,
             pc' = [pc EXCEPT ![h] = place], tun' = tun
      PROVE  AloneInv'
  <2>1. place \in Living \ {"start"} /\ place \notin Starting \cup Working \cup {"ready", "named"}
    BY DEF Living, Starting, Working, Leaving
  <2> QED BY <1>4, <2>1, AloneMoves
<1>5. ASSUME NEW h \in Helpers, End(h) PROVE AloneInv'
  <2>1. CASE ShutdownRequested(h)
    BY <1>3, <2>1 DEF ShutdownRequested, Working
  <2>2. CASE CleanupNetwork(h)
    BY <1>3, <2>2 DEF CleanupNetwork, Working
  <2>3. CASE StopDevice(h)
    BY <1>3, <2>3 DEF StopDevice, Working
  <2>4. CASE WriteStatus(h)
    BY <1>4, <2>4 DEF WriteStatus, Living, Leaving
  <2>5. CASE StatusFails(h)
    BY <1>1, <2>5 DEF StatusFails, Living
  <2>6. CASE Unlink(h)
    <3>1. pc[h] \in Leaving /\ (Leave(h) \/ \E place \in Leaving : pc' = [pc EXCEPT ![h] = place] /\ tun' = tun)
      BY <2>6 DEF Unlink, UnlinkFile, Leaving
    <3> QED BY <1>1, <1>4, <3>1 DEF Living
  <2> QED BY <1>5, <2>1, <2>2, <2>3, <2>4, <2>5, <2>6, Zenon DEF End
<1>6. ASSUME Operation PROVE AloneInv'
  <2>1. daemon.pc # "wait ready" => \A h \in Helpers : pc[h] \notin Starting
    BY DEF AloneInv
  <2>2. CASE CheckSocket
    BY <2>1, <2>2, CheckKeeps, AloneStays DEF CheckSocket, helperVars
  <2>3. CASE Up
    <3>1. CASE Answer("failed") /\ UNCHANGED <<file, status, pc, told>>
      BY <2>1, <2>3, <3>1, AloneStays DEF Up
    <3>2. ASSUME NEW h \in Helpers, pc[h] = "unused", ~(Exists("pid") /\ PidIsAlive(file["pid"])),
                 /\ pc' = [pc EXCEPT ![h] = "start"]
                 /\ told' = "none"
                 /\ daemon' = [daemon EXCEPT !.pc = "wait ready", !.pid = h]
          PROVE  AloneInv'
      <4>1. \A g \in Helpers : pc[g] \notin Living
        <5> SUFFICES ASSUME NEW g \in Helpers, Alive(g) PROVE FALSE
          BY AliveIs
        <5>1. file["pid"] = g /\ g # None
          BY <2>3, WhoLives, HelperLifecycleAssumption DEF Up
        <5> QED BY <3>2, <5>1 DEF Exists, PidIsAlive
      <4>2. pc'[h] = "start" /\ \A g \in Helpers : g # h => pc'[g] = pc[g]
        BY <3>2, OneMoves
      <4>3. tun' = {}
        BY <2>3, <4>1 DEF Up, AloneInv, TypeOK
      <4>4. daemon'.pc = "wait ready"
        BY <3>2 DEF TypeOK, Daemon
      <4>5. "start" \notin Working \cup {"ready", "named"} /\ Working \cup {"ready", "named"} \subseteq Living
            /\ Starting \subseteq Living
        BY DEF Working, Living, Starting
      <4> QED BY <3>2, <4>1, <4>2, <4>3, <4>4, <4>5, AliveIs DEF AloneInv
    <3> QED BY <2>3, <3>1, <3>2, Zenon DEF Up
  <2>4. CASE UpFails
    <3>1. CASE file' = file
      BY <2>1, <2>4, <3>1, AloneStays DEF UpFails, helperVars
    <3>2. CASE ~PidIsAlive(file["pid"])
      <4>1. \A h \in Helpers : pc[h] \in Working => Alive(h) /\ file["pid"] = h
        BY AliveIs DEF AloneInv, Living, Working
      <4>2. \A h \in Helpers : ~Busy(h)
        BY <2>1, <2>4, <3>2, <4>1 DEF Busy, PidIsAlive, UpFails
      <4> QED BY <2>1, <2>4, <4>2, AloneStays DEF UpFails, helperVars
    <3> QED BY <2>4, <3>1, <3>2, Zenon DEF UpFails
  <2>5. CASE HelperStarted
    <3>1. \A h \in Helpers : pc[h] \notin Starting
      BY <2>5 DEF HelperStarted, AloneInv
    <3> QED BY <2>5, <3>1, AloneStays DEF HelperStarted, helperVars
  <2>6. CASE SaveActive
    BY <2>1, <2>6, AloneStays DEF SaveActive, helperVars
  <2>7. CASE PostUpFails
    BY <2>1, <2>7, AloneStays DEF PostUpFails, helperVars
  <2>8. CASE DownBegin
    <3>1. file'["pid"] = file["pid"] /\ file'["name"] = file["name"]
      BY <1>0, <2>8 DEF DownBegin
    <3> QED BY <2>1, <2>8, <3>1, AloneStays DEF DownBegin, helperVars
  <2>9. CASE CleanupStatus
    BY <2>1, <2>9, AloneStays DEF CleanupStatus, helperVars
  <2>10. CASE StatusTimesOut
    BY <2>1, <2>10, AloneStays DEF StatusTimesOut, helperVars
  <2>11. CASE NoStatus
    BY <2>1, <2>11, AloneStays DEF NoStatus, helperVars
  <2>12. CASE DeviceGone
    <3>1. \A h \in Helpers : ~Busy(h)
      BY <2>12 DEF DeviceGone, StatusInv
    <3> QED BY <2>12, <3>1, AloneStays DEF DeviceGone, helperVars, Busy
  <2>13. CASE DeviceStays
    BY <2>1, <2>13, AloneStays DEF DeviceStays, helperVars
  <2> QED BY <1>6, <2>2, <2>3, <2>4, <2>5, <2>6, <2>7, <2>8, <2>9, <2>10, <2>11, <2>12, <2>13, Zenon
          DEF Operation
<1>7. ASSUME Environment PROVE AloneInv'
  <2>1. CASE DaemonGoes
    <3>1. \A h \in Helpers : pc[h] \notin Starting
      BY <2>1, Zenon DEF DaemonGoes
    <3> QED BY <2>1, <3>1, AloneStays DEF DaemonGoes, helperVars
  <2>2. ASSUME NEW h \in Helpers, DeviceFails(h) PROVE AloneInv'
    BY <1>3, <2>2 DEF DeviceFails, Working
  <2>3. ASSUME NEW h \in Helpers, Killed(h) PROVE AloneInv'
    BY <1>1, <2>3, AliveIs DEF Killed
  <2>4. ASSUME NEW h \in Helpers, PidReused(h) PROVE AloneInv'
    BY <2>4, AloneStays DEF PidReused, helperVars
  <2> QED BY <1>7, <2>1, <2>2, <2>3, <2>4, Zenon DEF Environment
<1>8. ASSUME NEW op \in {"connect", "disconnect"}, Ask(op) PROVE AloneInv'
  <2>1. \A h \in Helpers : pc[h] \notin Starting
    BY <1>8 DEF Ask, AloneInv
  <2> QED BY <1>8, <2>1, AloneStays DEF Ask, helperVars
<1>9. CASE UNCHANGED vars
  BY <1>9, AloneStays DEF vars, helperVars
<1> QED BY <1>2, <1>5, <1>6, <1>7, <1>8, <1>9, Zenon DEF Next

-----------------------------------------------------------------------------
(* Helpers that go on towards their end, and operations that take none     *)
(* down, keep StatusInv.                                                   *)
LEMMA StatusStays ==
  ASSUME StatusInv,
         \A h \in Helpers : (Alive(h)' => Alive(h)) /\ (Busy(h)' => Busy(h)),
         status' \in {status, "none"},
         daemon' = daemon \/ daemon'.pc \notin {"wait", "term", "device"}
  PROVE  StatusInv'
<1>1. ASSUME status' # "none" \/ daemon'.pc = "device"
      PROVE  \A h \in Helpers : ~Busy(h)'
  <2>1. status # "none" \/ daemon.pc = "device"
    BY <1>1
  <2> QED BY <2>1 DEF StatusInv
<1>2. ASSUME daemon'.pc \in {"wait", "term", "device"}, NEW h \in Helpers, Alive(h)'
      PROVE  daemon'.pid = h /\ daemon'.name = h
  <2>1. daemon' = daemon
    BY <1>2
  <2>2. daemon.pid = h /\ daemon.name = h
    BY <1>2, <2>1 DEF StatusInv
  <2> QED BY <2>1, <2>2
<1> QED BY <1>1, <1>2, Zenon DEF StatusInv

(* One helper goes on, from where it may work to where it does not start.  *)
LEMMA LessBusy ==
  ASSUME TypeOK, NEW h \in Helpers, NEW place, pc[h] \in Living, pc' = [pc EXCEPT ![h] = place],
         place \notin Starting, place \in Working => pc[h] \in Working
  PROVE  \A g \in Helpers : (Alive(g)' => Alive(g)) /\ (Busy(g)' => Busy(g))
<1>1. pc'[h] = place /\ \A g \in Helpers : g # h => pc'[g] = pc[g]
  BY OneMoves
<1> QED BY <1>1, AliveIs DEF Busy

LEMMA SamePlaces ==
  ASSUME UNCHANGED pc
  PROVE  \A g \in Helpers : (Alive(g)' <=> Alive(g)) /\ (Busy(g)' <=> Busy(g))
BY AliveIs DEF Busy

LEMMA DaemonFields ==
  ASSUME NEW d \in Daemon
  PROVE  /\ \A place \in {"idle", "check", "up", "wait ready", "post", "down", "wait", "term", "device"} :
              /\ [d EXCEPT !.pc = place].pc = place
              /\ [d EXCEPT !.pc = place].pid = d.pid
              /\ [d EXCEPT !.pc = place].name = d.name
         /\ [d EXCEPT !.pc = "down", !.op = "rollback"].pc = "down"
         /\ [d EXCEPT !.pc = "down", !.op = "rollback"].op = "rollback"
         /\ \A h \in Helpers : [d EXCEPT !.pc = "wait ready", !.pid = h].pc = "wait ready"
         /\ \A g, h \in Helpers \cup {None} :
              /\ [d EXCEPT !.pc = "wait", !.pid = g, !.name = h].pc = "wait"
              /\ [d EXCEPT !.pc = "wait", !.pid = g, !.name = h].pid = g
              /\ [d EXCEPT !.pc = "wait", !.pid = g, !.name = h].name = h
BY DEF Daemon

LEMMA NoDaemonFields ==
  /\ NoDaemon.pc = "idle" /\ NoDaemon.pid = None /\ NoDaemon.name = None
  /\ \A op \in {"connect", "disconnect"}, place \in {"check", "down"} :
       /\ [NoDaemon EXCEPT !.op = op, !.pc = place].pc = place
       /\ [NoDaemon EXCEPT !.op = op, !.pc = place].pid = None
       /\ [NoDaemon EXCEPT !.op = op, !.pc = place].name = None
BY DEF NoDaemon

(* What an operation does to its own place, action by action.              *)
LEMMA DaemonMoves ==
  ASSUME TypeOK, Operation
  PROVE  \/ daemon' = NoDaemon
         \/ /\ daemon'.pc \in {"up", "post", "wait ready"}
         \/ PostUpFails /\ daemon'.pc = "down" /\ daemon'.op = "rollback"
         \/ DownBegin /\ daemon'.pc = "wait" /\ daemon'.pid = file["pid"] /\ daemon'.name = file["name"]
         \/ CleanupStatus /\ daemon'.pc = "device" /\ status = "ok"
              /\ daemon'.pid = daemon.pid /\ daemon'.name = daemon.name
         \/ StatusTimesOut /\ daemon'.pc = "term"
              /\ daemon'.pid = daemon.pid /\ daemon'.name = daemon.name
<1>0. daemon \in Daemon /\ file["pid"] \in Helpers \cup {None} /\ file["name"] \in Helpers \cup {None}
  BY DEF TypeOK, Paths
<1>f. /\ [daemon EXCEPT !.pc = "up"].pc = "up" /\ [daemon EXCEPT !.pc = "post"].pc = "post"
      /\ [daemon EXCEPT !.pc = "device"].pc = "device"
      /\ [daemon EXCEPT !.pc = "device"].pid = daemon.pid
      /\ [daemon EXCEPT !.pc = "device"].name = daemon.name
  BY <1>0, DaemonFields
<1>1. CASE CheckSocket
  <2>1. Goto("up") \/ Answer("up") \/ Answer("failed")
    BY <1>1 DEF CheckSocket
  <2> QED BY <1>f, <2>1, Zenon DEF Goto, Answer
<1>2. CASE Up
  <2>1. Answer("failed") \/ \E h \in Helpers : daemon' = [daemon EXCEPT !.pc = "wait ready", !.pid = h]
    BY <1>2, Zenon DEF Up
  <2>2. ASSUME NEW h \in Helpers, daemon' = [daemon EXCEPT !.pc = "wait ready", !.pid = h]
        PROVE  daemon'.pc = "wait ready"
    BY <1>0, <2>2, DaemonFields
  <2> QED BY <2>1, <2>2 DEF Answer
<1>3. CASE UpFails
  BY <1>3 DEF UpFails, Answer
<1>4. CASE HelperStarted
  <2>1. Goto("post") \/ Answer("failed")
    BY <1>4, Zenon DEF HelperStarted
  <2> QED BY <1>f, <2>1, Zenon DEF Goto, Answer
<1>5. CASE SaveActive
  BY <1>5, Zenon DEF SaveActive, Answer
<1>6. CASE PostUpFails
  <2>1. Answer("failed") \/ daemon' = [daemon EXCEPT !.pc = "down", !.op = "rollback"]
    BY <1>6, Zenon DEF PostUpFails
  <2>2. CASE daemon' = [daemon EXCEPT !.pc = "down", !.op = "rollback"]
    <3>1. daemon'.pc = "down" /\ daemon'.op = "rollback"
      BY <1>0, <2>2, DaemonFields
    <3> QED BY <1>6, <3>1
  <2> QED BY <2>1, <2>2 DEF Answer
<1>7. CASE DownBegin
  <2>1. \/ Answer("failed") \/ DownDone
        \/ daemon' = [daemon EXCEPT !.pc = "wait", !.pid = file["pid"], !.name = file["name"]]
    BY <1>7 DEF DownBegin
  <2>2. CASE daemon' = [daemon EXCEPT !.pc = "wait", !.pid = file["pid"], !.name = file["name"]]
    <3>1. daemon'.pc = "wait" /\ daemon'.pid = file["pid"] /\ daemon'.name = file["name"]
      BY <1>0, <2>2, DaemonFields
    <3> QED BY <1>7, <3>1
  <2> QED BY <2>1, <2>2 DEF DownDone, Answer
<1>8. CASE CleanupStatus
  <2>1. (Goto("device") /\ status = "ok") \/ Answer("failed")
    BY <1>8, Zenon DEF CleanupStatus
  <2> QED BY <1>f, <1>8, <2>1, Zenon DEF Goto, Answer
<1>9. CASE StatusTimesOut
  BY <1>0, <1>9, DaemonFields DEF StatusTimesOut, Goto
<1>10. CASE NoStatus \/ DeviceStays
  BY <1>10, Zenon DEF NoStatus, DeviceStays, Answer
<1>11. CASE DeviceGone
  BY <1>11, Zenon DEF DeviceGone, DownDone, Answer
<1> QED BY <1>1, <1>2, <1>3, <1>4, <1>5, <1>6, <1>7, <1>8, <1>9, <1>10, <1>11 DEF Operation

LEMMA StatusStep ==
  ASSUME "slow" \notin Events, "orphan" \notin Events
  PROVE  TypeOK /\ AloneInv /\ StatusInv /\ [Next]_vars => StatusInv'
<1> SUFFICES ASSUME TypeOK, AloneInv, StatusInv, [Next]_vars PROVE StatusInv'
  OBVIOUS
<1>0. "gone" \notin Starting /\ "gone" \notin Working /\ "gone" \notin Living
  BY DEF Starting, Working, Living, Leaving
<1>1. ASSUME NEW h \in Helpers, Leave(h), pc[h] \in Living, UNCHANGED <<status, daemon>> PROVE StatusInv'
  <2>1. pc' = [pc EXCEPT ![h] = "gone"]
    BY <1>1 DEF Leave
  <2> QED BY <1>0, <1>1, <2>1, LessBusy, StatusStays
<1>2. ASSUME NEW h \in Helpers, Start(h) PROVE StatusInv'
  <2>1. pc[h] \in Starting /\ UNCHANGED <<status, daemon>>
    BY <1>2 DEF Start, BindSocket, NoDevice, ConfigureNetwork, ConfigureFails, WriteName, NameFails,
            WritePid, PidFails, TellReady, TellFails, Starting
  <2>2. status = "none" /\ daemon.pc = "wait ready"
    BY <2>1 DEF StatusInv, AloneInv, Busy
  <2> QED BY <2>1, <2>2 DEF StatusInv
<1>3. ASSUME NEW h \in Helpers, NEW place \in Working, pc[h] \in Working,
             pc' = [pc EXCEPT ![h] = place], UNCHANGED <<status, daemon>>
      PROVE  StatusInv'
  <2>1. place \notin Starting /\ pc[h] \in Living
    BY <1>3 DEF Starting, Working, Living
  <2> QED BY <1>3, <2>1, LessBusy, StatusStays
<1>4. ASSUME NEW h \in Helpers, End(h) PROVE StatusInv'
  <2>1. CASE ShutdownRequested(h)
    BY <1>3, <2>1 DEF ShutdownRequested, Working
  <2>2. CASE CleanupNetwork(h)
    BY <1>3, <2>2 DEF CleanupNetwork, Working
  <2>3. CASE StopDevice(h)
    BY <1>3, <2>3 DEF StopDevice, Working
  <2>4. CASE WriteStatus(h)
    <3>1. pc[h] \in Living /\ pc' = [pc EXCEPT ![h] = "unlink socket"] /\ daemon' = daemon
      BY <2>4 DEF WriteStatus, Living
    <3>2. "unlink socket" \notin Starting \cup Working
      BY DEF Starting, Working
    <3>3. pc'[h] = "unlink socket" /\ \A g \in Helpers : g # h => pc'[g] = pc[g] /\ pc[g] \notin Living
      <4>1. pc'[h] = "unlink socket" /\ \A g \in Helpers : g # h => pc'[g] = pc[g]
        BY <3>1, OneMoves
      <4>2. \A g \in Helpers : g # h => pc[g] \notin Living
        BY <3>1, AliveIs DEF AloneInv
      <4> QED BY <4>1, <4>2
    <3>4. \A g \in Helpers : ~Busy(g)'
      BY <3>2, <3>3 DEF Busy, Living, Working
    <3>5. \A g \in Helpers : Alive(g)' => Alive(g)
      BY <3>1, <3>3, AliveIs
    <3> QED BY <3>1, <3>4, <3>5 DEF StatusInv
  <2>5. CASE StatusFails(h)
    BY <1>1, <2>5 DEF StatusFails, Living
  <2>6. CASE Unlink(h)
    <3>1. /\ pc[h] \in Leaving /\ UNCHANGED <<status, daemon>>
          /\ Leave(h) \/ \E place \in Leaving : pc' = [pc EXCEPT ![h] = place]
      BY <2>6 DEF Unlink, UnlinkFile, Leaving
    <3>2. pc[h] \in Living
      BY <3>1 DEF Living
    <3>3. \A place \in Leaving : place \notin Starting /\ place \notin Working
      BY DEF Leaving, Starting, Working
    <3>4. CASE \E place \in Leaving : pc' = [pc EXCEPT ![h] = place]
      BY <3>1, <3>2, <3>3, <3>4, LessBusy, StatusStays
    <3> QED BY <1>1, <3>1, <3>2, <3>4
  <2> QED BY <1>4, <2>1, <2>2, <2>3, <2>4, <2>5, <2>6, Zenon DEF End
<1>5. ASSUME Operation PROVE StatusInv'
  <2>1. CASE Up /\ daemon'.pc # "idle"
    <3>1. status' = "none" /\ daemon' # NoDaemon
      BY <2>1, NoDaemonFields DEF Up, Answer
    <3>2. daemon'.pc = "wait ready"
      <4>1. PICK h \in Helpers : daemon' = [daemon EXCEPT !.pc = "wait ready", !.pid = h]
        BY <2>1, <3>1, Zenon DEF Up, Answer
      <4> QED BY <4>1, DaemonFields DEF TypeOK
    <3> QED BY <3>1, <3>2 DEF StatusInv
  <2>2. ASSUME ~Up \/ daemon'.pc = "idle" PROVE UNCHANGED pc /\ status' \in {status, "none"}
    <3>1. CASE Up
      <4>1. CASE Answer("failed") /\ UNCHANGED <<file, status, pc, told>>
        BY <4>1
      <4>2. CASE \E h \in Helpers : daemon' = [daemon EXCEPT !.pc = "wait ready", !.pid = h]
        BY <2>2, <3>1, <4>2, DaemonFields DEF TypeOK
      <4> QED BY <3>1, <4>1, <4>2, Zenon DEF Up
    <3>2. CASE CheckSocket \/ UpFails \/ HelperStarted \/ SaveActive \/ PostUpFails
      BY <3>2, Zenon DEF CheckSocket, UpFails, HelperStarted, SaveActive, PostUpFails, helperVars
    <3>3. CASE DownBegin \/ CleanupStatus \/ StatusTimesOut \/ NoStatus \/ DeviceGone \/ DeviceStays
      BY <3>3, Zenon DEF DownBegin, CleanupStatus, StatusTimesOut, NoStatus, DeviceGone, DeviceStays, helperVars
    <3> QED BY <1>5, <3>1, <3>2, <3>3, Zenon DEF Operation
  <2>3. CASE daemon' = NoDaemon \/ daemon'.pc \in {"up", "post", "wait ready", "down"}
    <3>1. daemon'.pc \notin {"wait", "term", "device"}
      BY <2>3, NoDaemonFields
    <3> QED BY <2>1, <2>2, <3>1, SamePlaces, StatusStays
  <2>4. CASE DownBegin /\ daemon'.pc = "wait" /\ daemon'.pid = file["pid"] /\ daemon'.name = file["name"]
    <3>1. NobodyLeaving /\ daemon.pc = "down" /\ UNCHANGED <<pc, status>>
      BY <2>4, Zenon DEF DownBegin, helperVars
    <3>2. \A h \in Helpers : Alive(h)' => daemon'.pid = h /\ daemon'.name = h
      BY <2>4, <3>1, SamePlaces, WhoLives
    <3>3. status' # "none" => \A h \in Helpers : ~Busy(h)'
      BY <3>1, SamePlaces DEF StatusInv
    <3> QED BY <2>4, <3>2, <3>3 DEF StatusInv
  <2>5. CASE CleanupStatus /\ daemon'.pc = "device" /\ status = "ok"
              /\ daemon'.pid = daemon.pid /\ daemon'.name = daemon.name
    <3>1. daemon.pc \in {"wait", "term"} /\ UNCHANGED <<pc, status>>
      BY <2>5, Zenon DEF CleanupStatus, helperVars
    <3>2. \A h \in Helpers : Alive(h)' => daemon'.pid = h /\ daemon'.name = h
      BY <2>5, <3>1, SamePlaces DEF StatusInv
    <3>3. \A h \in Helpers : ~Busy(h)'
      BY <2>5, <3>1, SamePlaces DEF StatusInv
    <3> QED BY <3>2, <3>3 DEF StatusInv
  <2>6. CASE StatusTimesOut /\ daemon'.pc = "term"
              /\ daemon'.pid = daemon.pid /\ daemon'.name = daemon.name
    <3>1. daemon.pc = "wait" /\ UNCHANGED <<pc, status>> /\ status = "none"
      BY <2>6, Zenon DEF StatusTimesOut, helperVars
    <3>2. \A h \in Helpers : Alive(h)' => daemon'.pid = h /\ daemon'.name = h
      BY <2>6, <3>1, SamePlaces DEF StatusInv
    <3> QED BY <2>6, <3>1, <3>2 DEF StatusInv
  <2> QED BY <1>5, <2>3, <2>4, <2>5, <2>6, DaemonMoves
<1>6. ASSUME Environment PROVE StatusInv'
  <2>1. CASE DaemonGoes
    BY <2>1, SamePlaces, NoDaemonFields, StatusStays DEF DaemonGoes, Answer, helperVars
  <2>2. ASSUME NEW h \in Helpers, DeviceFails(h) PROVE StatusInv'
    BY <1>3, <2>2 DEF DeviceFails, Working
  <2>3. ASSUME NEW h \in Helpers, Killed(h) PROVE StatusInv'
    BY <1>1, <2>3, AliveIs DEF Killed
  <2>4. ASSUME NEW h \in Helpers, PidReused(h) PROVE StatusInv'
    BY <2>4, SamePlaces, StatusStays DEF PidReused, helperVars
  <2> QED BY <1>6, <2>1, <2>2, <2>3, <2>4, Zenon DEF Environment
<1>7. ASSUME NEW op \in {"connect", "disconnect"}, Ask(op) PROVE StatusInv'
  <2>1. daemon'.pc \in {"check", "down"} /\ UNCHANGED <<pc, status>>
    BY <1>7, NoDaemonFields DEF Ask, helperVars
  <2> QED BY <2>1, SamePlaces, StatusStays
<1>8. CASE UNCHANGED vars
  BY <1>8, SamePlaces, StatusStays DEF vars, helperVars
<1> QED BY <1>2, <1>4, <1>5, <1>6, <1>7, <1>8, Zenon DEF Next

-----------------------------------------------------------------------------
(* Steps that undo network changes, remove files and take no helper down.  *)
LEMMA CleanStays ==
  ASSUME TypeOK, CleanInv, network' \subseteq network,
         \A h \in Helpers : pc'[h] \in {"stop", "report"} /\ h \notin failed' => h \notin network',
         status' \in {status, "none"},
         file'["pid"] \in {file["pid"], None}, file'["name"] \in {file["name"], None},
         daemon' = daemon \/ daemon'.pc \notin {"wait", "term", "device", "down"}
  PROVE  CleanInv'
<1>0. None \notin network
  BY HelperLifecycleAssumption DEF TypeOK
<1>1. ASSUME status' = "ok" PROVE {file'["pid"], file'["name"]} \cap network' = {}
  <2>1. {file["pid"], file["name"]} \cap network = {}
    BY <1>1 DEF CleanInv
  <2> QED BY <1>0, <2>1
<1>2. ASSUME (daemon'.pc \in {"wait", "term"} /\ status' = "ok") \/ daemon'.pc = "device"
      PROVE  {daemon'.pid, daemon'.name} \cap network' = {}
  <2>1. daemon' = daemon /\ (status' = "ok" => status = "ok")
    BY <1>2
  <2>2. {daemon.pid, daemon.name} \cap network = {}
    BY <1>2, <2>1 DEF CleanInv
  <2> QED BY <2>1, <2>2
<1>3. ASSUME daemon'.pc = "down", daemon'.op # "rollback" PROVE daemon'.pid = None /\ daemon'.name = None
  <2>1. daemon' = daemon
    BY <1>3
  <2> QED BY <1>3, <2>1 DEF CleanInv
<1> QED BY <1>1, <1>2, <1>3 DEF CleanInv

(* ... and the helper that goes on is not between cleanup and report.      *)
LEMMA CleanMoves ==
  ASSUME TypeOK, CleanInv, NEW h \in Helpers, NEW place, pc' = [pc EXCEPT ![h] = place],
         place \notin {"stop", "report"}, network' \subseteq network, failed \subseteq failed',
         UNCHANGED <<status, daemon>>,
         file'["pid"] \in {file["pid"], None}, file'["name"] \in {file["name"], None}
  PROVE  CleanInv'
<1>1. pc'[h] = place /\ \A g \in Helpers : g # h => pc'[g] = pc[g]
  BY OneMoves
<1>2. \A g \in Helpers : pc'[g] \in {"stop", "report"} /\ g \notin failed' => g \notin network'
  BY <1>1 DEF CleanInv
<1> QED BY <1>2, CleanStays

(* While a helper starts there is no status to speak for anybody.          *)
LEMMA CleanStarts ==
  ASSUME TypeOK, AloneInv, StatusInv, CleanInv, NEW h \in Helpers, NEW place, pc[h] \in Starting,
         pc' = [pc EXCEPT ![h] = place], place \notin {"stop", "report"},
         network' \subseteq network \cup {h}, UNCHANGED <<status, daemon, failed>>
  PROVE  CleanInv'
<1>1. status' = "none" /\ daemon'.pc = "wait ready"
  BY DEF StatusInv, AloneInv, Busy
<1>2. pc'[h] = place /\ \A g \in Helpers : g # h => pc'[g] = pc[g]
  BY OneMoves
<1>3. \A g \in Helpers : pc'[g] \in {"stop", "report"} /\ g \notin failed' => g \notin network'
  BY <1>2 DEF CleanInv
<1> QED BY <1>1, <1>3 DEF CleanInv

LEMMA CleanStep ==
  ASSUME "slow" \notin Events, "orphan" \notin Events
  PROVE  TypeOK /\ AloneInv /\ StatusInv /\ CleanInv /\ [Next]_vars => CleanInv'
<1> SUFFICES ASSUME TypeOK, AloneInv, StatusInv, CleanInv, [Next]_vars PROVE CleanInv'
  OBVIOUS
<1>0. \A paths : /\ Without(paths)["pid"] \in {file["pid"], None}
                 /\ Without(paths)["name"] \in {file["name"], None}
  BY DEF Without, Paths
<1>g. "gone" \notin {"stop", "report"} /\ "run" \notin {"stop", "report"}
  OBVIOUS
<1>1. ASSUME NEW h \in Helpers, Start(h) PROVE CleanInv'
  <2>1. CASE BindSocket(h)
    BY <2>1, CleanStarts DEF BindSocket, Starting
  <2>2. CASE NoDevice(h)
    <3>1. pc[h] \in Starting /\ pc' = [pc EXCEPT ![h] = "gone"]
      BY <2>2 DEF NoDevice, Starting, Leave
    <3>2. network' \subseteq network \cup {h} /\ UNCHANGED <<status, daemon, failed>>
      BY <2>2 DEF NoDevice
    <3> QED BY <1>g, <3>1, <3>2, CleanStarts, Zenon
  <2>3. CASE ConfigureNetwork(h)
    BY <2>3, CleanStarts DEF ConfigureNetwork, Starting
  <2>4. CASE ConfigureFails(h)
    <3>1. pc[h] \in Starting /\ pc' = [pc EXCEPT ![h] = "gone"]
      BY <2>4 DEF ConfigureFails, Starting, Leave
    <3>2. network' \subseteq network \cup {h} /\ UNCHANGED <<status, daemon, failed>>
      BY <2>4 DEF ConfigureFails
    <3> QED BY <1>g, <3>1, <3>2, CleanStarts, Zenon
  <2>5. CASE WriteName(h)
    BY <2>5, CleanStarts DEF WriteName, Starting
  <2>6. CASE NameFails(h)
    BY <2>6, CleanMoves DEF NameFails, Leave
  <2>7. CASE WritePid(h)
    BY <2>7, CleanStarts DEF WritePid, Starting
  <2>8. CASE PidFails(h)
    <3>1. pc[h] \in Starting /\ pc' = [pc EXCEPT ![h] = "gone"]
      BY <2>8 DEF PidFails, Starting, Leave
    <3>2. network' \subseteq network \cup {h} /\ UNCHANGED <<status, daemon, failed>>
      BY <2>8 DEF PidFails
    <3> QED BY <1>g, <3>1, <3>2, CleanStarts, Zenon
  <2>9. CASE TellReady(h)
    <3>1. pc[h] \in Starting /\ pc' = [pc EXCEPT ![h] = "run"]
      BY <2>9 DEF TellReady, Starting, Leave
    <3>2. network' \subseteq network \cup {h} /\ UNCHANGED <<status, daemon, failed>>
      BY <2>9 DEF TellReady
    <3> QED BY <1>g, <3>1, <3>2, CleanStarts, Zenon
  <2>10. CASE TellFails(h)
    <3>1. pc[h] \in Starting /\ pc' = [pc EXCEPT ![h] = "gone"]
      BY <2>10 DEF TellFails, Starting, Leave
    <3>2. network' \subseteq network \cup {h} /\ UNCHANGED <<status, daemon, failed>>
      BY <2>10 DEF TellFails
    <3> QED BY <1>g, <3>1, <3>2, CleanStarts, Zenon
  <2> QED BY <1>1, <2>1, <2>2, <2>3, <2>4, <2>5, <2>6, <2>7, <2>8, <2>9, <2>10, Zenon DEF Start
<1>2. ASSUME NEW h \in Helpers, End(h) PROVE CleanInv'
  <2>1. CASE ShutdownRequested(h)
    BY <2>1, CleanMoves DEF ShutdownRequested
  <2>2. CASE CleanupNetwork(h)
    <3>1. pc' = [pc EXCEPT ![h] = "stop"] /\ UNCHANGED <<file, status, daemon>>
      BY <2>2 DEF CleanupNetwork
    <3>2. \/ network' = network \ {h} /\ failed' = failed
          \/ network' = network /\ failed' = failed \cup {h}
      BY <2>2 DEF CleanupNetwork
    <3>3. pc'[h] = "stop" /\ \A g \in Helpers : g # h => pc'[g] = pc[g]
      BY <3>1, OneMoves
    <3>4. \A g \in Helpers : pc'[g] \in {"stop", "report"} /\ g \notin failed' => g \notin network'
      BY <3>2, <3>3 DEF CleanInv
    <3> QED BY <3>1, <3>2, <3>4, CleanStays
  <2>3. CASE StopDevice(h)
    <3>1. pc[h] = "stop" /\ pc' = [pc EXCEPT ![h] = "report"] /\ UNCHANGED <<file, status, network, failed, daemon>>
      BY <2>3 DEF StopDevice
    <3>2. pc'[h] = "report" /\ \A g \in Helpers : g # h => pc'[g] = pc[g]
      BY <3>1, OneMoves
    <3>3. \A g \in Helpers : pc'[g] \in {"stop", "report"} /\ g \notin failed' => g \notin network'
      BY <3>1, <3>2 DEF CleanInv
    <3> QED BY <3>1, <3>3, CleanStays
  <2>4. CASE WriteStatus(h)
    <3>1. /\ pc[h] = "report" /\ pc' = [pc EXCEPT ![h] = "unlink socket"]
          /\ UNCHANGED <<file, network, failed, daemon>>
          /\ status' = "ok" => h \notin failed
      BY <2>4 DEF WriteStatus
    <3>2. pc'[h] = "unlink socket" /\ \A g \in Helpers : g # h => pc'[g] = pc[g]
      BY <3>1, OneMoves
    <3>3. file["pid"] = h /\ file["name"] = h /\ pc[h] \in Living /\ Busy(h)
      BY <3>1 DEF AloneInv, Working, Living, Busy
    <3>4. status' = "ok" => h \notin network
      BY <3>1 DEF CleanInv
    <3>5. daemon.pc # "device"
      BY <3>3 DEF StatusInv
    <3>6. daemon.pc \in {"wait", "term"} => daemon.pid = h /\ daemon.name = h
      BY <3>3, AliveIs DEF StatusInv
    <3>7. \A g \in Helpers : pc'[g] \in {"stop", "report"} /\ g \notin failed' => g \notin network'
      BY <3>1, <3>2 DEF CleanInv
    <3>8. status' = "ok" => {file'["pid"], file'["name"]} \cap network' = {}
      BY <3>1, <3>3, <3>4
    <3>9. (daemon'.pc \in {"wait", "term"} /\ status' = "ok") \/ daemon'.pc = "device"
            => {daemon'.pid, daemon'.name} \cap network' = {}
      BY <3>1, <3>4, <3>5, <3>6
    <3> QED BY <3>1, <3>7, <3>8, <3>9 DEF CleanInv
  <2>5. CASE StatusFails(h)
    <3>1. pc' = [pc EXCEPT ![h] = "gone"] /\ UNCHANGED <<file, status, network, failed, daemon>>
      BY <2>5 DEF StatusFails, Leave
    <3> QED BY <3>1, CleanMoves
  <2>6. CASE Unlink(h)
    <3>1. PICK place \in {"unlink pid", "unlink name", "unlink query", "gone"} :
            /\ pc' = [pc EXCEPT ![h] = place]
            /\ file' \in {Without({"socket"}), Without({"pid"}), Without({"name"}), Without({"query"})}
            /\ UNCHANGED <<status, network, failed, daemon>>
      BY <2>6 DEF Unlink, UnlinkFile, Leave
    <3>2. file'["pid"] \in {file["pid"], None} /\ file'["name"] \in {file["name"], None}
      BY <1>0, <3>1
    <3> QED BY <3>1, <3>2, CleanMoves
  <2> QED BY <1>2, <2>1, <2>2, <2>3, <2>4, <2>5, <2>6, Zenon DEF End
<1>3. ASSUME Operation PROVE CleanInv'
  <2>1. UNCHANGED <<network, failed>> /\ status' \in {status, "none"}
    <3>1. CASE CheckSocket \/ Up \/ UpFails \/ HelperStarted \/ SaveActive \/ PostUpFails
      BY <3>1, Zenon DEF CheckSocket, Up, UpFails, HelperStarted, SaveActive, PostUpFails, helperVars
    <3>2. CASE DownBegin \/ CleanupStatus \/ StatusTimesOut \/ NoStatus \/ DeviceGone \/ DeviceStays
      BY <3>2, Zenon DEF DownBegin, CleanupStatus, StatusTimesOut, NoStatus, DeviceGone, DeviceStays, helperVars
    <3> QED BY <1>3, <3>1, <3>2, Zenon DEF Operation
  <2>2. file'["pid"] \in {file["pid"], None} /\ file'["name"] \in {file["name"], None}
    <3>1. file' = file \/ \E paths : file' = Without(paths)
      <4>1. CASE CheckSocket
        BY <4>1, Zenon DEF CheckSocket, ClearDeadHelperLeftovers
      <4>2. CASE Up
        BY <4>2, Zenon DEF Up
      <4>3. CASE DownBegin
        BY <4>3 DEF DownBegin
      <4>4. CASE UpFails \/ HelperStarted \/ SaveActive \/ PostUpFails
        BY <4>4, Zenon DEF UpFails, HelperStarted, SaveActive, PostUpFails
      <4>5. CASE CleanupStatus \/ StatusTimesOut \/ NoStatus \/ DeviceGone \/ DeviceStays
        BY <4>5, Zenon DEF CleanupStatus, StatusTimesOut, NoStatus, DeviceGone, DeviceStays
      <4> QED BY <1>3, <4>1, <4>2, <4>3, <4>4, <4>5, Zenon DEF Operation
    <3> QED BY <1>0, <3>1
  <2>3. \A g \in Helpers : pc'[g] \in {"stop", "report"} => pc[g] = pc'[g]
    <3>1. pc' = pc \/ \E h \in Helpers : pc' = [pc EXCEPT ![h] = "start"]
      <4>1. CASE CheckSocket \/ UpFails \/ HelperStarted \/ SaveActive \/ PostUpFails
        BY <4>1, Zenon DEF CheckSocket, UpFails, HelperStarted, SaveActive, PostUpFails, helperVars
      <4>2. CASE Up
        BY <4>2, Zenon DEF Up
      <4>3. CASE DownBegin \/ CleanupStatus \/ StatusTimesOut \/ NoStatus \/ DeviceGone \/ DeviceStays
        BY <4>3, Zenon DEF DownBegin, CleanupStatus, StatusTimesOut, NoStatus, DeviceGone, DeviceStays, helperVars
      <4> QED BY <1>3, <4>1, <4>2, <4>3, Zenon DEF Operation
    <3>2. ASSUME NEW h \in Helpers, pc' = [pc EXCEPT ![h] = "start"]
          PROVE  \A g \in Helpers : pc'[g] \in {"stop", "report"} => pc[g] = pc'[g]
      BY <3>2, OneMoves
    <3> QED BY <3>1, <3>2
  <2>4. \A g \in Helpers : pc'[g] \in {"stop", "report"} /\ g \notin failed' => g \notin network'
    BY <2>1, <2>3 DEF CleanInv
  <2>5. status' = "ok" => {file'["pid"], file'["name"]} \cap network' = {}
    <3>1. None \notin network
      BY HelperLifecycleAssumption DEF TypeOK
    <3>2. status' = "ok" => {file["pid"], file["name"]} \cap network = {}
      BY <2>1 DEF CleanInv
    <3> QED BY <2>1, <2>2, <3>1, <3>2
  <2>6. CASE daemon' = NoDaemon \/ daemon'.pc \in {"up", "post", "wait ready"}
    <3>1. daemon'.pc \notin {"wait", "term", "device", "down"}
      BY <2>6, NoDaemonFields
    <3> QED BY <2>1, <2>2, <2>4, <3>1, CleanStays
  <2>7. CASE daemon'.pc = "down" /\ daemon'.op = "rollback"
    BY <2>4, <2>5, <2>7 DEF CleanInv
  <2>8. CASE DownBegin /\ daemon'.pc = "wait" /\ daemon'.pid = file["pid"] /\ daemon'.name = file["name"]
    <3>1. status' = "ok" => {daemon'.pid, daemon'.name} \cap network' = {}
      BY <2>1, <2>8 DEF CleanInv
    <3> QED BY <2>4, <2>5, <2>8, <3>1 DEF CleanInv
  <2>9. CASE CleanupStatus /\ daemon'.pc = "device" /\ status = "ok"
              /\ daemon'.pid = daemon.pid /\ daemon'.name = daemon.name
    <3>1. daemon.pc \in {"wait", "term"}
      BY <2>9, Zenon DEF CleanupStatus
    <3>2. {daemon'.pid, daemon'.name} \cap network' = {}
      BY <2>1, <2>9, <3>1 DEF CleanInv
    <3> QED BY <2>4, <2>5, <2>9, <3>2 DEF CleanInv
  <2>10. CASE StatusTimesOut /\ daemon'.pc = "term"
              /\ daemon'.pid = daemon.pid /\ daemon'.name = daemon.name
    <3>1. status' = "none"
      BY <2>10, Zenon DEF StatusTimesOut
    <3> QED BY <2>4, <2>5, <2>10, <3>1 DEF CleanInv
  <2> QED BY <1>3, <2>6, <2>7, <2>8, <2>9, <2>10, DaemonMoves
<1>4. ASSUME Environment PROVE CleanInv'
  <2>1. CASE DaemonGoes
    <3>1. UNCHANGED <<file, status, pc, network, failed>> /\ daemon' = NoDaemon
      BY <2>1, Zenon DEF DaemonGoes, Answer, helperVars
    <3> QED BY <3>1, NoDaemonFields, CleanStays DEF CleanInv
  <2>2. ASSUME NEW h \in Helpers, DeviceFails(h) PROVE CleanInv'
    BY <2>2, CleanMoves DEF DeviceFails
  <2>3. ASSUME NEW h \in Helpers, Killed(h) PROVE CleanInv'
    BY <2>3, CleanMoves DEF Killed, Leave
  <2>4. ASSUME NEW h \in Helpers, PidReused(h) PROVE CleanInv'
    BY <2>4, CleanStays DEF PidReused, helperVars, CleanInv
  <2> QED BY <1>4, <2>1, <2>2, <2>3, <2>4, Zenon DEF Environment
<1>5. ASSUME NEW op \in {"connect", "disconnect"}, Ask(op) PROVE CleanInv'
  <2>1. /\ daemon'.pc \in {"check", "down"} /\ daemon'.pid = None /\ daemon'.name = None
        /\ UNCHANGED <<file, status, pc, network, failed>>
    BY <1>5, NoDaemonFields DEF Ask, helperVars
  <2> QED BY <2>1 DEF CleanInv
<1>6. CASE UNCHANGED vars
  BY <1>6, CleanStays DEF vars, helperVars, CleanInv
<1> QED BY <1>1, <1>2, <1>3, <1>4, <1>5, <1>6, Zenon DEF Next

-----------------------------------------------------------------------------
(* The inductive invariant.                                                *)
LifecycleInv == TypeOK /\ AloneInv /\ StatusInv /\ CleanInv

LEMMA LifecycleHolds ==
  ASSUME "slow" \notin Events, "orphan" \notin Events
  PROVE  Spec => []LifecycleInv
<1>1. ASSUME Init PROVE AloneInv /\ StatusInv /\ CleanInv
  <2>1. /\ \A h \in Helpers : pc[h] = "unused"
        /\ tun = {} /\ network = {} /\ status = "none" /\ daemon.pc = "idle"
    BY <1>1, NoDaemonFields DEF Init
  <2>2. "unused" \notin Living /\ "unused" \notin Starting /\ "unused" \notin Working
        /\ "unused" \notin {"ready", "named"}
    BY DEF Living, Starting, Working, Leaving
  <2>3. AloneInv
    BY <2>1, <2>2, AliveIs DEF AloneInv
  <2>4. StatusInv
    BY <2>1 DEF StatusInv
  <2>5. CleanInv
    BY <2>1 DEF CleanInv
  <2> QED BY <2>3, <2>4, <2>5
<1>2. LifecycleInv /\ [Next]_vars => LifecycleInv'
  BY TypeStep, AloneStep, StatusStep, CleanStep DEF LifecycleInv
<1>3. Init /\ TypeOK => LifecycleInv
  BY <1>1 DEF LifecycleInv
<1> QED BY <1>2, <1>3, TypeCorrect, PTL DEF Spec

(* Every helper that runs has its pid in the file that keeps               *)
(* run_gotatun_up from starting another.                                   *)
THEOREM FilesKept ==
  ASSUME "slow" \notin Events, "orphan" \notin Events
  PROVE  Spec => []FilesInv
<1>1. LifecycleInv => FilesInv
  BY DEF LifecycleInv, AloneInv, FilesInv, RunningHasPid, Working
<1> QED BY <1>1, LifecycleHolds, PTL

(* Nobody but the living helper has a device.                              *)
LEMMA DevicesLive ==
  ASSUME TypeOK, AloneInv
  PROVE  /\ \A g \in tun : Alive(g) /\ g \in Helpers
         /\ \A h \in Helpers : Alive(h) => tun \subseteq {h}
<1>1. \A g \in tun : Alive(g) /\ g \in Helpers
  BY AliveIs DEF AloneInv, TypeOK
<1> QED BY <1>1 DEF AloneInv

(* Only a disconnect at its end says that the tunnel is down.              *)
LEMMA WhoSaysDown ==
  ASSUME TypeOK, Operation, said' = "down", said' # said \/ daemon'.pc = "idle"
  PROVE  (DownBegin \/ DeviceGone) /\ DownDone /\ daemon.op # "rollback"
<1>0. daemon \in Daemon /\ file["pid"] \in Helpers \cup {None} /\ file["name"] \in Helpers \cup {None}
  BY DEF TypeOK, Paths
<1>1. /\ [daemon EXCEPT !.pc = "up"].pc = "up" /\ [daemon EXCEPT !.pc = "post"].pc = "post"
      /\ [daemon EXCEPT !.pc = "device"].pc = "device" /\ [daemon EXCEPT !.pc = "term"].pc = "term"
      /\ [daemon EXCEPT !.pc = "down", !.op = "rollback"].pc = "down"
      /\ [daemon EXCEPT !.pc = "wait", !.pid = file["pid"], !.name = file["name"]].pc = "wait"
  BY <1>0, DaemonFields
<1>2. ASSUME \/ Answer("up") \/ Answer("failed")
             \/ \E place \in {"up", "post", "device", "term"} : Goto(place)
             \/ said' = said /\ daemon' = [daemon EXCEPT !.pc = "down", !.op = "rollback"]
             \/ said' = said /\ daemon' = [daemon EXCEPT !.pc = "wait", !.pid = file["pid"], !.name = file["name"]]
             \/ said' = said /\ \E h \in Helpers : daemon' = [daemon EXCEPT !.pc = "wait ready", !.pid = h]
      PROVE  FALSE
  <2>1. CASE Answer("up") \/ Answer("failed")
    BY <2>1 DEF Answer
  <2>2. CASE \E h \in Helpers : daemon' = [daemon EXCEPT !.pc = "wait ready", !.pid = h] /\ said' = said
    BY <1>0, <2>2, DaemonFields
  <2>3. CASE \E place \in {"up", "post", "device", "term"} : Goto(place)
    BY <1>1, <2>3 DEF Goto
  <2> QED BY <1>1, <1>2, <2>1, <2>2, <2>3
<1>3. CASE CheckSocket
  <2>1. Goto("up") \/ Answer("up") \/ Answer("failed")
    BY <1>3 DEF CheckSocket
  <2> QED BY <1>2, <2>1
<1>4. CASE Up \/ UpFails \/ HelperStarted \/ SaveActive \/ PostUpFails
  <2>1. \/ Answer("up") \/ Answer("failed") \/ Goto("post")
        \/ said' = said /\ daemon' = [daemon EXCEPT !.pc = "down", !.op = "rollback"]
        \/ said' = said /\ \E h \in Helpers : daemon' = [daemon EXCEPT !.pc = "wait ready", !.pid = h]
    BY <1>4, Zenon DEF Up, UpFails, HelperStarted, SaveActive, PostUpFails
  <2> QED BY <1>2, <2>1
<1>5. CASE CleanupStatus \/ StatusTimesOut \/ NoStatus \/ DeviceStays
  <2>1. Answer("failed") \/ Goto("device") \/ Goto("term")
    BY <1>5, Zenon DEF CleanupStatus, StatusTimesOut, NoStatus, DeviceStays
  <2> QED BY <1>2, <2>1
<1>6. ASSUME DownDone PROVE daemon.op # "rollback"
  BY <1>6 DEF DownDone, Answer
<1>7. CASE DownBegin
  <2>1. \/ Answer("failed") \/ DownDone
        \/ said' = said /\ daemon' = [daemon EXCEPT !.pc = "wait", !.pid = file["pid"], !.name = file["name"]]
    BY <1>7 DEF DownBegin
  <2> QED BY <1>2, <1>6, <1>7, <2>1, Zenon
<1>8. CASE DeviceGone
  BY <1>6, <1>8, Zenon DEF DeviceGone
<1> QED BY <1>3, <1>4, <1>5, <1>7, <1>8, Zenon DEF Operation

(* ... and it is right: it found no files, or the device gone after the    *)
(* only helper that lives had reported its cleanup.                        *)
LEMMA DownIsTrue ==
  ASSUME "slow" \notin Events, LifecycleInv, Operation, said' = "down",
         said' # said \/ daemon'.pc = "idle"
  PROVE  tun = {} /\ \A h \in network : ~Alive(h) /\ h \notin {daemon.pid, daemon.name}
<1>0. TypeOK /\ AloneInv /\ StatusInv /\ CleanInv /\ None \notin Helpers
  BY HelperLifecycleAssumption DEF LifecycleInv
<1>1. (DownBegin \/ DeviceGone) /\ DownDone /\ daemon.op # "rollback"
  BY <1>0, WhoSaysDown, Zenon
<1>2. network \subseteq Helpers
  BY <1>0 DEF TypeOK
<1>3. CASE DownBegin
  <2>1. daemon.pc = "down" /\ NobodyLeaving
    BY <1>3, Zenon DEF DownBegin
  <2>2. ~Exists("pid")
    <3>1. daemon'.pc = "idle"
      BY <1>1, NoDaemonFields DEF DownDone, Answer
    <3>2. [daemon EXCEPT !.pc = "wait", !.pid = file["pid"], !.name = file["name"]].pc = "wait"
      BY <1>0 DEF TypeOK, Daemon
    <3>3. \/ Answer("failed") \/ ~Exists("pid")
          \/ daemon' = [daemon EXCEPT !.pc = "wait", !.pid = file["pid"], !.name = file["name"]]
      BY <1>3 DEF DownBegin
    <3> QED BY <3>1, <3>2, <3>3 DEF Answer
  <2>3. \A h \in Helpers : ~Alive(h)
    BY <1>0, <2>1, <2>2, WhoLives DEF Exists
  <2>4. daemon.pid = None /\ daemon.name = None
    BY <1>0, <1>1, <2>1 DEF CleanInv
  <2>5. tun = {}
    BY <1>0, <2>3, DevicesLive
  <2> QED BY <1>0, <1>2, <2>3, <2>4, <2>5
<1>4. CASE DeviceGone
  <2>1. daemon.pc = "device" /\ daemon.name \notin tun
    BY <1>4, Zenon DEF DeviceGone
  <2>2. {daemon.pid, daemon.name} \cap network = {}
    BY <1>0, <2>1 DEF CleanInv
  <2>3. \A h \in Helpers : Alive(h) => daemon.pid = h /\ daemon.name = h
    BY <1>0, <2>1 DEF StatusInv
  <2>4. tun = {}
    BY <1>0, <2>1, <2>3, DevicesLive
  <2> QED BY <1>2, <2>2, <2>3, <2>4
<1> QED BY <1>1, <1>3, <1>4

LEMMA DownAnswersTrue ==
  ASSUME "slow" \notin Events, LifecycleInv, Operation
  PROVE  tun' = tun /\ said' \in Answers /\ (said' = said \/ (said' = "down" => tun = {}))
<1>1. tun' = tun
  <2>1. CASE CheckSocket \/ Up \/ UpFails \/ HelperStarted \/ SaveActive \/ PostUpFails
    BY <2>1, Zenon DEF CheckSocket, Up, UpFails, HelperStarted, SaveActive, PostUpFails, helperVars
  <2>2. CASE DownBegin \/ CleanupStatus \/ StatusTimesOut \/ NoStatus \/ DeviceGone \/ DeviceStays
    BY <2>2, Zenon DEF DownBegin, CleanupStatus, StatusTimesOut, NoStatus, DeviceGone, DeviceStays, helperVars
  <2> QED BY <2>1, <2>2, Zenon DEF Operation
<1>2. TypeOK' 
  BY TypeStep DEF LifecycleInv, Next
<1> QED BY <1>1, <1>2, DownIsTrue DEF TypeOK

(* Every step is a step of the abstract tunnel, or none.                   *)
LEMMA TunnelStep ==
  ASSUME "slow" \notin Events, "orphan" \notin Events, LifecycleInv, [Next]_vars
  PROVE  [T!Next]_<<tun, said>>
<1>0. TypeOK /\ AloneInv
  BY DEF LifecycleInv
<1>1. ASSUME NEW h \in Helpers, pc[h] \in Living, tun' = tun \/ tun' = tun \ {h}, said' = said
      PROVE  [T!Next]_<<tun, said>>
  <2>1. tun \subseteq {h}
    BY <1>0, <1>1, DevicesLive, AliveIs
  <2>2. UNCHANGED <<tun, said>> \/ T!Release(h)
    BY <1>1, <2>1 DEF T!Release
  <2> QED BY <2>2 DEF T!Next
<1>2. ASSUME NEW h \in Helpers, Start(h) PROVE [T!Next]_<<tun, said>>
  <2>1. CASE BindSocket(h)
    <3>1. pc[h] = "start" /\ tun' = tun \cup {h} /\ said' = said
      BY <2>1 DEF BindSocket
    <3>2. tun \subseteq {h} /\ h \notin tun
      <4>1. Alive(h)
        BY <3>1, AliveIs DEF Living, Starting
      <4>2. h \notin tun
        BY <1>0, <3>1 DEF AloneInv
      <4> QED BY <1>0, <4>1, <4>2, DevicesLive
    <3>3. T!Take(h)
      BY <3>1, <3>2 DEF T!Take
    <3> QED BY <3>3 DEF T!Next
  <2>2. CASE ~BindSocket(h)
    <3>1. pc[h] \in Starting /\ said' = said /\ (tun' = tun \/ tun' = tun \ {h})
      BY <1>2, <2>2 DEF Start, NoDevice, ConfigureNetwork, ConfigureFails, WriteName, NameFails,
                        WritePid, PidFails, TellReady, TellFails, Leave, Starting
    <3> QED BY <1>1, <3>1 DEF Living
  <2> QED BY <2>1, <2>2
<1>3. ASSUME NEW h \in Helpers, End(h) PROVE [T!Next]_<<tun, said>>
  <2>1. pc[h] \in Living /\ said' = said /\ (tun' = tun \/ tun' = tun \ {h})
    BY <1>3 DEF End, ShutdownRequested, CleanupNetwork, StopDevice, WriteStatus, StatusFails, Unlink,
                UnlinkFile, Leave, Living, Leaving
  <2> QED BY <1>1, <2>1
<1>4. ASSUME tun' = tun, said' \in Answers, said' = "down" => said' = said \/ tun = {}
      PROVE  [T!Next]_<<tun, said>>
  BY <1>4 DEF T!Next, T!Answer
<1>5. ASSUME Operation PROVE [T!Next]_<<tun, said>>
  BY <1>4, <1>5, DownAnswersTrue
<1>6. ASSUME Environment PROVE [T!Next]_<<tun, said>>
  <2>1. CASE DaemonGoes
    BY <1>4, <2>1 DEF DaemonGoes, Answer, Answers, helperVars
  <2>2. ASSUME NEW h \in Helpers, DeviceFails(h) \/ PidReused(h) PROVE UNCHANGED <<tun, said>>
    BY <2>2 DEF DeviceFails, PidReused, helperVars
  <2>3. ASSUME NEW h \in Helpers, Killed(h) PROVE [T!Next]_<<tun, said>>
    BY <1>1, <2>3, AliveIs DEF Killed, Leave
  <2> QED BY <1>6, <2>1, <2>2, <2>3, Zenon DEF Environment
<1>7. ASSUME NEW op \in {"connect", "disconnect"}, Ask(op) PROVE UNCHANGED <<tun, said>>
  BY <1>7 DEF Ask, helperVars
<1>8. CASE UNCHANGED vars
  BY <1>8 DEF vars, helperVars
<1> QED BY <1>2, <1>3, <1>5, <1>6, <1>7, <1>8, Zenon DEF Next

(* Files, signals and timeouts implement the abstract tunnel: no helper    *)
(* makes a device while another has one, and a disconnect that succeeds    *)
(* has left none.                                                          *)
THEOREM TunnelImplemented ==
  ASSUME "slow" \notin Events, "orphan" \notin Events
  PROVE  Spec => OneTunnel
<1>1. Init => T!Init
  BY DEF Init, T!Init, Answers
<1>2. LifecycleInv /\ [Next]_vars => [T!Next]_<<tun, said>>
  BY TunnelStep
<1> QED BY <1>1, <1>2, LifecycleHolds, PTL DEF Spec, OneTunnel, T!Spec

(* run_gotatun_down answers "down" only when no network change is left of  *)
(* the helper its files named, nor of any other that lives.                *)
THEOREM CleanupConfirmed ==
  ASSUME "slow" \notin Events, "orphan" \notin Events
  PROVE  Spec => ConfirmedCleanup
<1> DEFINE A == said' = "down" /\ daemon.pc # "idle" /\ daemon'.pc = "idle"
                  => \A h \in network : ~Alive(h) /\ h \notin {daemon.pid, daemon.name}
<1>1. ASSUME LifecycleInv, [Next]_vars PROVE [A]_vars
  <2>1. CASE Operation
    BY <1>1, <2>1, DownIsTrue
  <2>2. CASE ~Operation
    <3>1. ASSUME NEW h \in Helpers, Start(h) \/ End(h) PROVE daemon' = daemon
      BY <3>1 DEF Start, BindSocket, NoDevice, ConfigureNetwork, ConfigureFails, WriteName, NameFails,
                  WritePid, PidFails, TellReady, TellFails, End, ShutdownRequested, CleanupNetwork,
                  StopDevice, WriteStatus, StatusFails, Unlink, UnlinkFile
    <3>2. ASSUME Environment PROVE daemon' = daemon \/ said' = "none"
      BY <3>2, Zenon DEF Environment, DaemonGoes, Answer, DeviceFails, Killed, PidReused
    <3>3. ASSUME NEW op \in {"connect", "disconnect"}, Ask(op) PROVE daemon.pc = "idle"
      BY <3>3 DEF Ask
    <3>4. CASE UNCHANGED vars
      BY <3>4
    <3> QED BY <1>1, <2>2, <3>1, <3>2, <3>3, <3>4 DEF Next
  <2> QED BY <2>1, <2>2
<1> QED BY <1>1, LifecycleHolds, PTL DEF Spec, ConfirmedCleanup
=============================================================================
