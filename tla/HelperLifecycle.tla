-------------------------- MODULE HelperLifecycle --------------------------
(***************************************************************************)
(* How one interface's helper process is started and ended                 *)
(* (privileged/commands.rs, privileged/connection_ops.rs,                  *)
(* privileged/runtime_files.rs, userspace_helper/mod.rs).                  *)
(*                                                                         *)
(* Daemon and helper share no memory.  They agree by files under           *)
(* /var/run/wireguard, which either removes by path, whoever wrote them: a *)
(* control socket whose removal asks the helper to end, a pid file, a file *)
(* with the name of the device, the socket of the overview and the status  *)
(* of the last cleanup.  The connection lock lets the daemon run one       *)
(* operation on the interface at a time.  The connection has no DNS        *)
(* servers, so there is no custody record that vouches for a helper.       *)
(***************************************************************************)
EXTENDS Naturals, FiniteSets

CONSTANTS
  Helpers,     \* helper processes; a started one is never started again
  None,
  Events,      \* what may happen, from AllEvents
  MaxFaults    \* system calls, commands and hooks that fail

(* "kill": SIGKILL or a panic.  "device": the device reports an error.     *)
(* "daemon": the daemon goes.  "orphan": it may go while a helper starts.  *)
(* "slow": a helper may be held up between its cleanup status and its exit *)
(* for longer than it takes to be asked for a new one.  "reuse": the pid of*)
(* a helper that is gone may be given to another program.                  *)
AllEvents == {"kill", "device", "daemon", "orphan", "slow", "reuse"}

ASSUME HelperLifecycleAssumption ==
  /\ IsFiniteSet(Helpers) /\ None \notin Helpers
  /\ Events \subseteq AllEvents
  /\ MaxFaults \in Nat

VARIABLES
  file,      \* [Paths -> the helper that made the file, or None]
  status,    \* the cleanup status file
  pc,        \* [Helpers -> where the process is]
  tun,       \* helpers that have a tunnel device
  network,   \* helpers whose addresses, routes and DNS are in the system
  failed,    \* helpers whose shutdown has met an error
  signalled, \* helpers with a SIGTERM pending
  reused,    \* pids that belong to another program by now
  told,      \* what the helper told the process that waits for its start
  daemon,    \* the operation under way
  active,    \* the helper whose socket the active marker names, or None
  said,      \* the answer to the last request
  faults

helperVars == <<pc, tun, network, failed, told>>
vars == <<file, status, helperVars, signalled, reused, daemon, active, said, faults>>

Paths == {"socket", "pid", "name", "query"}

Starting == {"start", "bound", "network", "named", "ready"}
Leaving  == {"unlink socket", "unlink pid", "unlink name", "unlink query"}
Living   == Starting \cup {"run", "clean", "stop", "report"} \cup Leaving
Answers  == {"none", "up", "down", "failed"}

Daemon == [pc : {"idle", "check", "up", "wait ready", "post", "down", "wait", "term", "device"},
           op : {"none", "connect", "disconnect", "rollback"},
           pid : Helpers \cup {None}, name : Helpers \cup {None}]
NoDaemon == [pc |-> "idle", op |-> "none", pid |-> None, name |-> None]

(* Every variable has its type.                                            *)
TypeOK ==
  /\ file \in [Paths -> Helpers \cup {None}]
  /\ status \in {"none", "ok", "failed"}
  /\ pc \in [Helpers -> {"unused", "gone"} \cup Living]
  /\ tun \subseteq Helpers /\ network \subseteq Helpers /\ failed \subseteq Helpers
  /\ signalled \subseteq Helpers /\ reused \subseteq Helpers
  /\ told \in {"none", "ok", "failed"}
  /\ daemon \in Daemon
  /\ active \in Helpers \cup {None}
  /\ said \in Answers
  /\ faults \in 0..MaxFaults

Init ==
  /\ file = [p \in Paths |-> None] /\ status = "none"
  /\ pc = [h \in Helpers |-> "unused"]
  /\ tun = {} /\ network = {} /\ failed = {} /\ signalled = {} /\ reused = {}
  /\ told = "none"
  /\ daemon = NoDaemon /\ active = None /\ said = "none"
  /\ faults = MaxFaults

-----------------------------------------------------------------------------
Alive(h) == h # None /\ pc[h] \in Living

(* pid_is_alive: signal 0, whoever has the pid now.                        *)
PidIsAlive(h) == Alive(h) \/ h \in reused

Exists(p) == file[p] # None

Without(paths) == [p \in Paths |-> IF p \in paths THEN None ELSE file[p]]

Fault == faults > 0 /\ faults' = faults - 1

Answer(a) == daemon' = NoDaemon /\ said' = a

(* Nothing is begun in the moment between a helper's cleanup status and    *)
(* its exit, unless it is held up.                                         *)
NobodyLeaving == "slow" \in Events \/ \A h \in Helpers : pc[h] \notin Leaving

Goto(place) == daemon' = [daemon EXCEPT !.pc = place] /\ UNCHANGED said

-----------------------------------------------------------------------------
(***************************************************************************)
(* The helper process starts: daemonize_and_run and start_device.          *)
(***************************************************************************)

(* The process that waits for the start gets one byte.                     *)
Tell(ok) == told' = IF ok THEN "ok" ELSE "failed"

(* The process ends.  The kernel takes its device; the files stay.         *)
Leave(h) == pc' = [pc EXCEPT ![h] = "gone"] /\ tun' = tun \ {h}

(* A device, a control socket at the path, and the peer's configuration.   *)
BindSocket(h) ==
  /\ pc[h] = "start"
  /\ pc' = [pc EXCEPT ![h] = "bound"]
  /\ tun' = tun \cup {h}
  /\ file' = [file EXCEPT !["socket"] = h]
  /\ UNCHANGED <<status, network, failed, told, signalled, reused, daemon, active, said, faults>>

(* No device, or no socket.  A log directory, a log file or a runtime that *)
(* cannot be had ends the process without a word to the one that waits.    *)
NoDevice(h) ==
  /\ pc[h] = "start"
  /\ Fault
  /\ Leave(h)
  /\ Tell(FALSE) \/ UNCHANGED told
  /\ UNCHANGED <<file, status, network, failed, signalled, reused, daemon, active, said>>

ConfigureNetwork(h) ==
  /\ pc[h] = "bound"
  /\ pc' = [pc EXCEPT ![h] = "network"]
  /\ network' = network \cup {h}
  /\ UNCHANGED <<file, status, tun, failed, told, signalled, reused, daemon, active, said, faults>>

(* configure_network_macos undoes its own half; the socket is unlinked.    *)
ConfigureFails(h) ==
  /\ pc[h] = "bound"
  /\ Fault
  /\ file' = Without({"socket"})
  /\ Leave(h) /\ Tell(FALSE)
  /\ UNCHANGED <<status, network, failed, signalled, reused, daemon, active, said>>

WriteName(h) ==
  /\ pc[h] = "network"
  /\ pc' = [pc EXCEPT ![h] = "named"]
  /\ file' = [file EXCEPT !["name"] = h]
  /\ UNCHANGED <<status, tun, network, failed, told, signalled, reused, daemon, active, said, faults>>

(* Nothing is undone: socket and network stay behind.                      *)
NameFails(h) ==
  /\ pc[h] = "network"
  /\ Fault
  /\ Leave(h) /\ Tell(FALSE)
  /\ failed' = failed \cup {h}
  /\ UNCHANGED <<file, status, network, signalled, reused, daemon, active, said>>

WritePid(h) ==
  /\ pc[h] = "named"
  /\ pc' = [pc EXCEPT ![h] = "ready"]
  /\ file' = [file EXCEPT !["pid"] = h]
  /\ UNCHANGED <<status, tun, network, failed, told, signalled, reused, daemon, active, said, faults>>

PidFails(h) ==
  /\ pc[h] = "named"
  /\ Fault
  /\ network' = network \ {h}
  /\ file' = Without({"socket", "name"})
  /\ Leave(h) /\ Tell(FALSE)
  /\ UNCHANGED <<status, failed, signalled, reused, daemon, active, said>>

(* ... and spawn_overview_query_server, which may fail unnoticed.          *)
TellReady(h) ==
  /\ pc[h] = "ready"
  /\ pc' = [pc EXCEPT ![h] = "run"]
  /\ Tell(TRUE)
  /\ file' \in {[file EXCEPT !["query"] = h], Without({"query"})}
  /\ UNCHANGED <<status, tun, network, failed, signalled, reused, daemon, active, said, faults>>

TellFails(h) ==
  /\ pc[h] = "ready"
  /\ Fault
  /\ network' = network \ {h}
  /\ file' = Without({"socket", "pid", "name"})
  /\ Leave(h)
  /\ UNCHANGED <<status, failed, told, signalled, reused, daemon, active, said>>

-----------------------------------------------------------------------------
(***************************************************************************)
(* The helper process ends: wait_for_shutdown and what follows it.         *)
(***************************************************************************)

(* The tick finds no file at the path of its socket, or SIGTERM, SIGINT.   *)
ShutdownRequested(h) ==
  /\ pc[h] = "run"
  /\ ~Exists("socket") \/ h \in signalled
  /\ pc' = [pc EXCEPT ![h] = "clean"]
  /\ signalled' = signalled \ {h}
  /\ UNCHANGED <<file, status, tun, network, failed, told, reused, daemon, active, said, faults>>

(* The device's error, or that of a reconcile, takes the same way out and  *)
(* goes into the status.                                                   *)
DeviceFails(h) ==
  /\ "device" \in Events
  /\ pc[h] = "run"
  /\ pc' = [pc EXCEPT ![h] = "clean"]
  /\ failed' = failed \cup {h}
  /\ UNCHANGED <<file, status, tun, network, told, signalled, reused, daemon, active, said, faults>>

CleanupNetwork(h) ==
  /\ pc[h] = "clean"
  /\ pc' = [pc EXCEPT ![h] = "stop"]
  /\ \/ network' = network \ {h} /\ UNCHANGED <<failed, faults>>
     \/ Fault /\ failed' = failed \cup {h} /\ UNCHANGED network
  /\ UNCHANGED <<file, status, tun, told, signalled, reused, daemon, active, said>>

(* A stop that takes more than 5 s is given up; the exit closes the device.*)
StopDevice(h) ==
  /\ pc[h] = "stop"
  /\ pc' = [pc EXCEPT ![h] = "report"]
  /\ \/ tun' = tun \ {h} /\ UNCHANGED faults
     \/ Fault /\ UNCHANGED tun
  /\ UNCHANGED <<file, status, network, failed, told, signalled, reused, daemon, active, said>>

StatusUnchecked(h) ==                      \* mutant: the errors are not looked at
  /\ pc[h] = "report"
  /\ status' = "ok"
  /\ pc' = [pc EXCEPT ![h] = "unlink socket"]
  /\ UNCHANGED <<file, tun, network, failed, told, signalled, reused, daemon, active, said, faults>>

(* finish_cleanup and write_runtime_file_atomic.                           *)
WriteStatus(h) ==
  /\ pc[h] = "report"
  /\ status' = IF h \in failed THEN "failed" ELSE "ok"
  /\ pc' = [pc EXCEPT ![h] = "unlink socket"]
  /\ UNCHANGED <<file, tun, network, failed, told, signalled, reused, daemon, active, said, faults>>

(* The status cannot be written: the process ends and its files stay.      *)
StatusFails(h) ==
  /\ pc[h] = "report"
  /\ Fault
  /\ Leave(h)
  /\ UNCHANGED <<file, status, network, failed, told, signalled, reused, daemon, active, said>>

(* The last unlinks, each by path, and the end of the process.             *)
UnlinkFile(h, place, path, next) ==
  /\ pc[h] = place
  /\ file' = Without({path})
  /\ IF next = "gone" THEN Leave(h)
     ELSE pc' = [pc EXCEPT ![h] = next] /\ UNCHANGED tun
  /\ UNCHANGED <<status, network, failed, told, signalled, reused, daemon, active, said, faults>>

Unlink(h) ==
  \/ UnlinkFile(h, "unlink socket", "socket", "unlink pid")
  \/ UnlinkFile(h, "unlink pid", "pid", "unlink name")
  \/ UnlinkFile(h, "unlink name", "name", "unlink query")
  \/ UnlinkFile(h, "unlink query", "query", "gone")

Killed(h) ==
  /\ "kill" \in Events
  /\ Alive(h)
  /\ Leave(h)
  /\ signalled' = signalled \ {h}
  /\ UNCHANGED <<file, status, network, failed, told, reused, daemon, active, said, faults>>

(* Another program gets the pid of a helper that is gone.                  *)
PidReused(h) ==
  /\ "reuse" \in Events
  /\ pc[h] = "gone" /\ h \notin reused
  /\ reused' = reused \cup {h}
  /\ UNCHANGED <<file, status, helperVars, signalled, daemon, active, said, faults>>

-----------------------------------------------------------------------------
(***************************************************************************)
(* connection_ops::connect and run_gotatun_up.                             *)
(***************************************************************************)
Ask(op) ==
  /\ daemon.pc = "idle"
  /\ op = "connect" => \E h \in Helpers : pc[h] = "unused"      \* the model's bound
  /\ daemon' = [NoDaemon EXCEPT !.op = op, !.pc = IF op = "connect" THEN "check" ELSE "down"]
  /\ UNCHANGED <<file, status, helperVars, signalled, reused, active, said, faults>>

(* helper_is_live_without_record: somebody accepts on the socket, or the   *)
(* pid file names a process that runs this program.                        *)
Accepts == Exists("socket") /\ file["socket"] \in tun
HelperIsLive == Accepts \/ Alive(file["pid"])

(* clear_dead_helper_leftovers.                                            *)
ClearDeadHelperLeftovers ==
  file' = IF HelperIsLive THEN file ELSE Without(Paths)

(* A socket that is left is either the one the marker names, and the       *)
(* connection is up, or nobody's to touch.                                 *)
CheckSocket ==
  /\ daemon.pc = "check"
  /\ IF Exists("socket") THEN ClearDeadHelperLeftovers ELSE UNCHANGED file
  /\ IF file'["socket"] = None THEN Goto("up")
     ELSE Answer(IF file'["socket"] = active THEN "up" ELSE "failed")
  /\ UNCHANGED <<status, helperVars, signalled, reused, active, faults>>

UpOverPid ==                               \* mutant: the pid file is not looked at
  /\ daemon.pc = "up" /\ NobodyLeaving
  /\ \E h \in Helpers :
       /\ pc[h] = "unused"
       /\ file' = Without({"pid", "name"}) /\ status' = "none"
       /\ pc' = [pc EXCEPT ![h] = "start"]
       /\ told' = "none"
       /\ daemon' = [daemon EXCEPT !.pc = "wait ready", !.pid = h]
  /\ UNCHANGED <<tun, network, failed, signalled, reused, active, said, faults>>

(* Never over a helper the pid file says is still there.  The files go, a  *)
(* new helper is spawned and its word awaited.                             *)
Up ==
  /\ daemon.pc = "up" /\ NobodyLeaving
  /\ IF Exists("pid") /\ PidIsAlive(file["pid"])
     THEN Answer("failed") /\ UNCHANGED <<file, status, pc, told>>
     ELSE \E h \in Helpers :
            /\ pc[h] = "unused"
            /\ file' = Without({"pid", "name"}) /\ status' = "none"
            /\ pc' = [pc EXCEPT ![h] = "start"]
            /\ told' = "none"
            /\ daemon' = [daemon EXCEPT !.pc = "wait ready", !.pid = h]
            /\ UNCHANGED said
  /\ UNCHANGED <<tun, network, failed, signalled, reused, active, faults>>

(* A PreUp hook, the rotation of the log or the spawn fails.               *)
UpFails ==
  /\ daemon.pc = "up"
  /\ Fault
  /\ \/ UNCHANGED <<file, status>>
     \/ ~PidIsAlive(file["pid"]) /\ file' = Without({"pid", "name"}) /\ status' = "none"
  /\ Answer("failed")
  /\ UNCHANGED <<helperVars, signalled, reused, active>>

(* The helper's word, then the pid file: it must name a process that lives *)
(* and runs this program.                                                  *)
HelperStarted ==
  /\ daemon.pc = "wait ready"
  /\ told # "none"
  /\ IF told = "ok" /\ Exists("pid") /\ Alive(file["pid"]) THEN Goto("post") ELSE Answer("failed")
  /\ UNCHANGED <<file, status, helperVars, signalled, reused, active, faults>>

(* save_active; a socket that is gone again is an error.                   *)
SaveActive ==
  /\ daemon.pc = "post"
  /\ IF Exists("socket") THEN active' = file["socket"] /\ Answer("up")
     ELSE UNCHANGED active /\ Answer("failed")
  /\ UNCHANGED <<file, status, helperVars, signalled, reused, faults>>

(* A PostUp hook fails: take the helper down again.  Or the marker cannot  *)
(* be written.                                                             *)
PostUpFails ==
  /\ daemon.pc = "post"
  /\ Fault
  /\ \/ daemon' = [daemon EXCEPT !.pc = "down", !.op = "rollback"] /\ UNCHANGED said
     \/ Answer("failed")
  /\ UNCHANGED <<file, status, helperVars, signalled, reused, active>>

-----------------------------------------------------------------------------
(***************************************************************************)
(* connection_ops::disconnect and run_gotatun_down.                        *)
(***************************************************************************)
DownDone ==
  /\ Answer(IF daemon.op = "rollback" THEN "failed" ELSE "down")
  /\ active' = IF daemon.op = "rollback" THEN active ELSE None

(* Nothing to do when no file is there.  A pid that another program has is *)
(* an error.  Else the socket goes, which asks the helper to end.          *)
DownBegin ==
  /\ daemon.pc = "down" /\ NobodyLeaving
  /\ CASE file["pid"] \in reused -> Answer("failed") /\ UNCHANGED <<file, active>>
       [] /\ \A p \in {"pid", "name", "socket"} : ~Exists(p)
          /\ status = "none"     -> DownDone /\ UNCHANGED file
       [] OTHER ->
            /\ daemon' = [daemon EXCEPT !.pc = "wait", !.pid = file["pid"],
                                        !.name = file["name"]]
            /\ file' = Without({"socket"})
            /\ UNCHANGED <<active, said>>
  /\ UNCHANGED <<status, helperVars, signalled, reused, faults>>

(* wait_for_cleanup_status.  A status other than ok stays where it is.     *)
CleanupStatus ==
  /\ daemon.pc \in {"wait", "term"}
  /\ status # "none"
  /\ IF status = "ok" THEN Goto("device") ELSE Answer("failed")
  /\ UNCHANGED <<file, status, helperVars, signalled, reused, active, faults>>

WaitsWithoutPid ==                         \* mutant: only a live helper is given up
  /\ daemon.pc = "wait"
  /\ status = "none"
  /\ daemon.pid # None /\ PidIsAlive(daemon.pid)
  /\ Goto("term")
  /\ signalled' = signalled \cup {daemon.pid}
  /\ UNCHANGED <<file, status, helperVars, reused, active, faults>>

(* 15 s are over: SIGTERM, to whoever has the pid now.                     *)
StatusTimesOut ==
  /\ daemon.pc = "wait"
  /\ status = "none"
  /\ Goto("term")
  /\ signalled' = IF daemon.pid # None /\ PidIsAlive(daemon.pid)
                  THEN signalled \cup {daemon.pid} ELSE signalled
  /\ UNCHANGED <<file, status, helperVars, reused, active, faults>>

(* 5 s more.                                                               *)
NoStatus ==
  /\ daemon.pc = "term"
  /\ status = "none"
  /\ Answer("failed")
  /\ UNCHANGED <<file, status, helperVars, signalled, reused, active, faults>>

DownUnverified ==                          \* mutant: the device is not looked for
  /\ daemon.pc = "device"
  /\ file' = Without({"pid", "name"}) /\ status' = "none"
  /\ DownDone
  /\ UNCHANGED <<helperVars, signalled, reused, faults>>

(* The device is gone from the system: the files that are left go.         *)
DeviceGone ==
  /\ daemon.pc = "device"
  /\ daemon.name \notin tun
  /\ file' = Without({"pid", "name"}) /\ status' = "none"
  /\ DownDone
  /\ UNCHANGED <<helperVars, signalled, reused, faults>>

DeviceStays ==
  /\ daemon.pc = "device"
  /\ daemon.name \in tun
  /\ Answer("failed")
  /\ UNCHANGED <<file, status, helperVars, signalled, reused, active, faults>>

(* The daemon goes and another takes its place; helpers and files stay.    *)
DaemonGoes ==
  /\ "daemon" \in Events
  /\ daemon.pc # "idle"
  /\ "orphan" \in Events \/ \A h \in Helpers : pc[h] \notin Starting
  /\ Answer("none")
  /\ UNCHANGED <<file, status, helperVars, signalled, reused, active, faults>>

-----------------------------------------------------------------------------
Start(h) ==
  \/ BindSocket(h) \/ NoDevice(h) \/ ConfigureNetwork(h) \/ ConfigureFails(h)
  \/ WriteName(h) \/ NameFails(h) \/ WritePid(h) \/ PidFails(h) \/ TellReady(h) \/ TellFails(h)

End(h) ==
  \/ ShutdownRequested(h) \/ CleanupNetwork(h) \/ StopDevice(h)
  \/ WriteStatus(h) \/ StatusFails(h) \/ Unlink(h)

Operation ==
  \/ CheckSocket \/ Up \/ UpFails \/ HelperStarted \/ SaveActive \/ PostUpFails
  \/ DownBegin \/ CleanupStatus \/ StatusTimesOut \/ NoStatus \/ DeviceGone \/ DeviceStays

Environment ==
  \/ DaemonGoes
  \/ \E h \in Helpers : DeviceFails(h) \/ Killed(h) \/ PidReused(h)

Next ==
  \/ \E op \in {"connect", "disconnect"} : Ask(op)
  \/ Operation
  \/ \E h \in Helpers : Start(h) \/ End(h)
  \/ Environment

(* A live process and the daemon's thread go on; nobody has to ask.        *)
Fairness ==
  /\ WF_vars(Operation)
  /\ \A h \in Helpers : WF_vars(Start(h) \/ End(h))

Spec == Init /\ [][Next]_vars /\ Fairness

-----------------------------------------------------------------------------
(***************************************************************************)
(* Properties.                                                             *)
(***************************************************************************)

(* run_gotatun_up, run_gotatun_down: one tunnel device at a time, and a    *)
(* disconnect that succeeds only when there is none.                       *)
T == INSTANCE Tunnel WITH owners <- tun, Down <- "down"
OneTunnel == T!Spec

(* remove_file of the last unlinks, clear_dead_helper_leftovers and        *)
(* run_gotatun_up: a helper that runs keeps its pid file, without which    *)
(* nothing would keep a second one from being started.                     *)
RunningHasPid == \A h \in Helpers : pc[h] \in {"run", "clean", "stop", "report"} => file["pid"] = h

(* run_gotatun_down, "after confirmed network cleanup": a disconnect that  *)
(* succeeds leaves no addresses, routes or DNS of the helper it found in   *)
(* the files, nor of any other that still lives.                           *)
ConfirmedCleanup ==
  [][said' = "down" /\ daemon.pc # "idle" /\ daemon'.pc = "idle"
       => \A h \in network : ~Alive(h) /\ h \notin {daemon.pid, daemon.name}]_vars

(* wait_for_shutdown: a helper whose socket is gone, so that nobody can    *)
(* reach it, ends.                                                         *)
UnreachableEnds ==
  \A h \in Helpers : (pc[h] = "run" /\ ~Exists("socket")) ~> (pc[h] = "gone" \/ Exists("socket"))

(* A helper that ended before it said a word: its starter waits for ever.  *)
NoWord == daemon.pc = "wait ready" /\ told = "none" /\ pc[daemon.pid] = "gone"

(* Every wait in connect and disconnect has an end, so that the network    *)
(* lock is released again, except the one for a helper's first word.       *)
EveryRequestEnds == daemon.pc # "idle" ~> (daemon.pc = "idle" \/ NoWord)

(* Types, and the pid file, which is what keeps run_gotatun_up from        *)
(* starting a second helper.                                               *)
FilesInv == TypeOK /\ RunningHasPid

(* run_gotatun_up, run_gotatun_down and wait_for_shutdown: no request waits*)
(* for ever for a helper, and no helper for a daemon that cannot reach it. *)
EveryWaitEnds == EveryRequestEnds /\ UnreachableEnds
=============================================================================
