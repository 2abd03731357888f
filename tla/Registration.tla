---------------------------- MODULE Registration ----------------------------
(***************************************************************************)
(* The two launchd jobs of wgd and the commands that register, restart and *)
(* remove them (launchd.rs, session_agent.rs, reload.rs): the daemon's job,*)
(* whose socket launchd holds, and the session agent's, which is there     *)
(* while its user is logged in.                                            *)
(*                                                                         *)
(* A command is a sequence of calls of launchctl and others.  Each may     *)
(* fail, the command may be interrupted between any two of them, and all   *)
(* the while daemons start and exit, the boot's reconciliation and the     *)
(* agent connect tunnels, and so does the user.                            *)
(***************************************************************************)
EXTENDS Naturals, FiniteSets

CONSTANTS
  Pids,         \* process identifiers for daemons
  Conns,        \* connections, all of them stored as Automatic
  Mine,         \* those of the user; the rest is global
  Commands,     \* the commands that are run, from AllCommands
  Events,       \* what else happens, from AllEvents
  MaxCommands, MaxEvents, MaxFaults

AllCommands == {"install", "reload", "restart", "uninstall", "purge", "agent install",
                "agent uninstall", "connect"}
AllEvents == {"connect", "disconnect", "login item off", "ad hoc", "logout", "reboot"}

ASSUME RegistrationAssumption ==
  /\ IsFiniteSet(Pids) /\ Mine \subseteq Conns
  /\ Commands \subseteq AllCommands /\ Events \subseteq AllEvents
  /\ MaxCommands \in Nat /\ MaxEvents \in Nat /\ MaxFaults \in Nat

Parts == {"binary", "group", "right"}

VARIABLES
  admin,       \* the command that runs
  setup,       \* the Parts an installation needs
  job,         \* the daemon's job; fresh: its socket is still to be made
  socket,      \* who listens at the path: "launchd", an ad hoc daemon, or nobody
  daemon,      \* [Pids -> [kind, boot]]
  bootDone,    \* boot-reconcile.marker is of this boot
  agent,       \* the agent's job and process
  session,     \* the user is logged in
  stored, up, userDown,   \* sets of connections
  late,        \* history: connections that are up past an uninstall's first sweep
  kept,        \* history: connections that the agent had no chance to end
  commands, events, faults

jobs == <<setup, job, socket, daemon, bootDone>>
tunnels == <<stored, up, userDown, late, kept>>
bounds == <<commands, events, faults>>
vars == <<admin, jobs, agent, session, tunnels, bounds>>

Rest == {"idle", "done", "failed"}
InAgentInstall == {"agent plist", "agent out", "agent wait", "agent enable", "agent boot"}
FirstSweep == {"list1", "disconnect1"}
Uninstalling == {"list2", "disconnect2", "bootout", "disable", "ps", "reap", "remove", "clean"}
Places == Rest \cup InAgentInstall \cup FirstSweep \cup Uninstalling
            \cup {"binary", "group", "right", "plist", "enable", "bootstrap", "socket", "list",
                  "agent", "reconnect", "mine", "disconnect mine", "kickstart", "remove agent",
                  "agent gone", "connect"}

Admin == [cmd : AllCommands \cup {"none"}, pc : Places, back : Places, todo : SUBSET Conns,
          snap : SUBSET Pids, started : BOOLEAN, faulty : BOOLEAN]
Agent == [plist : BOOLEAN, loaded : BOOLEAN, disabled : BOOLEAN, term : BOOLEAN, todo : SUBSET Conns,
          pc : {"off", "list", "connect", "wait", "disconnect"}]

(* Every variable has its type.                                            *)
TypeOK ==
  /\ admin \in Admin
  /\ setup \subseteq Parts
  /\ job \in [plist : BOOLEAN, loaded : BOOLEAN, disabled : BOOLEAN, fresh : BOOLEAN]
  /\ socket \in Pids \cup {"launchd", "stale", "none"}
  /\ daemon \in [Pids -> [kind : {"dead", "launchd", "ad hoc"}, boot : BOOLEAN]]
  /\ agent \in Agent
  /\ bootDone \in BOOLEAN /\ session \in BOOLEAN
  /\ stored \subseteq Conns /\ up \subseteq Conns /\ userDown \subseteq Conns
  /\ late \subseteq Conns /\ kept \subseteq Conns
  /\ commands \in 0..MaxCommands /\ events \in 0..MaxEvents /\ faults \in 0..MaxFaults

Dead == [kind |-> "dead", boot |-> FALSE]
NoAdmin == [cmd |-> "none", pc |-> "idle", back |-> "idle", todo |-> {}, snap |-> {},
            started |-> FALSE, faulty |-> FALSE]

(* A user who is logged in, with wgd installed or not.                     *)
Init ==
  /\ admin = NoAdmin
  /\ \E installed, withAgent \in BOOLEAN :
       /\ withAgent => installed
       /\ setup = IF installed THEN Parts ELSE {"binary"}
       /\ job = [plist |-> installed, loaded |-> installed, disabled |-> FALSE, fresh |-> FALSE]
       /\ socket = IF installed THEN "launchd" ELSE "none"
       /\ agent = [plist |-> withAgent, loaded |-> withAgent, disabled |-> FALSE, term |-> FALSE,
                   todo |-> {}, pc |-> IF withAgent THEN "list" ELSE "off"]
  /\ daemon = [p \in Pids |-> Dead] /\ bootDone = FALSE
  /\ session = TRUE
  /\ stored = Conns /\ up = {} /\ userDown = {} /\ late = {} /\ kept = {}
  /\ commands = MaxCommands /\ events = MaxEvents /\ faults = MaxFaults

-----------------------------------------------------------------------------
Live == {p \in Pids : daemon[p].kind # "dead"}

(* Process identifiers are interchangeable, so a new process has the first *)
(* that is free, which may be one that a command has noted before.         *)
IsNextPid(p) == p \notin Live /\ p = CHOOSE q \in Pids : q \notin Live

(* launchd_tracked_pid.                                                    *)
Tracked == {p \in Pids : daemon[p].kind = "launchd"}

(* A request is answered.  launchd's socket holds it until a daemon runs.  *)
Answers == IF socket = "launchd" THEN Tracked # {} ELSE socket \in Live

(* A connect to the socket succeeds.                                       *)
Reachable == socket = "launchd" \/ socket \in Live

Fault == faults > 0 /\ faults' = faults - 1

(* A client gets no answer: it is a failure if the socket is there or will *)
(* be before wait_for_launchd_socket gives up.                             *)
NoAnswer == IF Reachable \/ job.fresh THEN Fault ELSE UNCHANGED faults

(* A tunnel comes up.  Past the first sweep of an uninstall it is late,    *)
(* and past the listing of an agent that ends it is none of the agent's.   *)
Raise(conns) ==
  /\ up' = up \cup conns
  /\ kept' = IF agent.pc \in {"disconnect", "off"} THEN kept \cup conns ELSE kept
  /\ late' = IF admin.pc \in Uninstalling \cup {"done"} THEN late \cup (conns \ up) ELSE late

Automatic == stored \ userDown

-----------------------------------------------------------------------------
(***************************************************************************)
(* launchd and the daemons.                                                *)
(***************************************************************************)

(* For a connection that it holds, or for the sentinel of the DNS watch.   *)
Spawn(p) ==
  /\ socket = "launchd" /\ Tracked = {}
  /\ IsNextPid(p)
  /\ daemon' = [daemon EXCEPT ![p] = [kind |-> "launchd", boot |-> ~bootDone]]
  /\ setup' = setup \cup {"right"}
  /\ UNCHANGED <<admin, job, socket, bootDone, agent, session, tunnels, bounds>>

(* reconcile_boot, once in a boot: the global connections.                 *)
ReconcileBoot(p) ==
  /\ daemon[p].boot
  /\ daemon' = [daemon EXCEPT ![p].boot = FALSE]
  /\ \/ Raise(Automatic \ Mine) /\ bootDone' = TRUE /\ UNCHANGED faults
     \/ Fault /\ UNCHANGED <<up, late, kept, bootDone>>
  /\ UNCHANGED <<admin, setup, job, socket, agent, session, stored, userDown, commands, events>>

(* Idle, but not while it reconciles.                                      *)
Exits(p) ==
  /\ p \in Live /\ ~daemon[p].boot
  /\ daemon' = [daemon EXCEPT ![p] = Dead]
  /\ socket' = IF socket = p THEN "stale" ELSE socket
  /\ UNCHANGED <<admin, setup, job, bootDone, agent, session, tunnels, bounds>>

(* launchd makes the socket of a job some time after bootstrap returned.   *)
SocketAppears ==
  /\ job.fresh
  /\ job' = [job EXCEPT !.fresh = FALSE]
  /\ socket' = "launchd"
  /\ UNCHANGED <<admin, setup, daemon, bootDone, agent, session, tunnels, bounds>>

-----------------------------------------------------------------------------
(***************************************************************************)
(* The session agent: session_agent::run.  SIGTERM is blocked, and looked  *)
(* at when the first reconciliation is over.                               *)
(***************************************************************************)
AgentAt(place) == agent.pc = place
agentOnly == <<admin, jobs, session, stored, userDown, commands, events>>

(* reconcile_connect_mine; nothing tries again after a failed listing.     *)
AgentLists ==
  /\ AgentAt("list")
  /\ \/ /\ Answers
        /\ agent' = [agent EXCEPT !.pc = "connect", !.todo = (Automatic \cap Mine) \ up]
        /\ UNCHANGED faults
     \/ /\ NoAnswer
        /\ agent' = [agent EXCEPT !.pc = "wait"]
  /\ UNCHANGED <<agentOnly, up, late, kept>>

AgentConnects(c) ==
  /\ AgentAt("connect") /\ c \in agent.todo
  /\ \/ Answers /\ Raise({c} \cap Automatic) /\ UNCHANGED faults
     \/ NoAnswer /\ UNCHANGED <<up, late, kept>>
  /\ agent' = [agent EXCEPT !.todo = @ \ {c}]
  /\ UNCHANGED agentOnly

AgentConnected ==
  /\ AgentAt("connect") /\ agent.todo = {}
  /\ agent' = [agent EXCEPT !.pc = "wait"]
  /\ UNCHANGED <<agentOnly, up, late, kept, faults>>

(* reconcile_disconnect_mine, unless it cannot list.                       *)
AgentTerminates ==
  /\ AgentAt("wait") /\ agent.term
  /\ \/ /\ Answers
        /\ agent' = [agent EXCEPT !.pc = "disconnect", !.todo = Mine \cap up]
        /\ UNCHANGED <<kept, faults>>
     \/ /\ NoAnswer
        /\ agent' = [agent EXCEPT !.pc = "disconnect", !.todo = {}]
        /\ kept' = kept \cup Mine
  /\ UNCHANGED <<agentOnly, up, late>>

AgentDisconnects(c) ==
  /\ AgentAt("disconnect") /\ c \in agent.todo
  /\ \/ Answers /\ up' = up \ {c} /\ UNCHANGED <<kept, faults>>
     \/ /\ NoAnswer
        /\ kept' = kept \cup {c}
        /\ UNCHANGED up
  /\ agent' = [agent EXCEPT !.todo = @ \ {c}]
  /\ UNCHANGED <<agentOnly, late>>

(* The process ends; KeepAlive starts another while the job is loaded.     *)
AgentEnds ==
  /\ AgentAt("disconnect") /\ agent.todo = {}
  /\ agent' = [agent EXCEPT !.pc = IF agent.loaded THEN "list" ELSE "off", !.term = FALSE]
  /\ UNCHANGED <<agentOnly, up, late, kept, faults>>

(* launchd waits for 5 s only; or the agent crashes.                       *)
AgentKilled ==
  /\ agent.pc # "off"
  /\ Fault
  /\ agent' = [agent EXCEPT !.pc = IF agent.loaded THEN "list" ELSE "off", !.term = FALSE, !.todo = {}]
  /\ kept' = kept \cup Mine
  /\ UNCHANGED <<agentOnly, up, late>>

(* launchd unloads the job: SIGTERM, if there is a process.                *)
Unloaded == [agent EXCEPT !.loaded = FALSE, !.term = agent.pc # "off"]
KeptAtTerm == IF agent.pc = "off" THEN Mine ELSE IF agent.term THEN kept ELSE {}

-----------------------------------------------------------------------------
(***************************************************************************)
(* The commands.  Each checks its user first: `launchd` commands are for   *)
(* root, `agent` commands and `reload` for the user.                       *)
(***************************************************************************)
At(place) == admin.pc = place
To(place) == admin' = [admin EXCEPT !.pc = place]

First == [c \in AllCommands |->
  CASE c \in {"install", "reload"} -> "binary"       [] c = "restart"         -> "kickstart"
    [] c = "uninstall"             -> "list1"        [] c = "agent install"   -> "agent plist"
    [] c = "connect"               -> "connect"      [] OTHER                 -> "remove agent"]

Begin(c) ==
  /\ commands > 0 /\ session
  /\ admin.pc \in Rest
  /\ admin' = [NoAdmin EXCEPT !.cmd = c, !.pc = First[c], !.back = "done"]
  /\ late' = {}
  /\ commands' = commands - 1
  /\ UNCHANGED <<jobs, agent, session, stored, up, userDown, kept, events, faults>>

(* A checked call fails, or the command is interrupted.  The installation  *)
(* of the agent for an `install` only warns.                               *)
Fails ==
  /\ admin.pc \notin Rest
  /\ Fault
  /\ admin' = [admin EXCEPT !.faulty = TRUE, !.pc = IF admin.pc \in InAgentInstall THEN
                                                   IF admin.back = "reconnect" THEN "reconnect" ELSE "failed"
                                                 ELSE "failed"]
  /\ UNCHANGED <<jobs, agent, session, tunnels, commands, events>>

Makes(part, next) ==
  /\ setup' = setup \cup {part}
  /\ To(next)
  /\ UNCHANGED <<job, socket, daemon, bootDone, agent, session, tunnels, bounds>>

(* The trusted copy of the binary ...                                      *)
InstallBinary == At("binary") /\ Makes("binary", "group")

(* ... the group and the directories ...                                   *)
EnsureGroup == At("group") /\ Makes("group", "right")

(* ... and the right, in this order.                                       *)
RegisterRight == At("right") /\ Makes("right", "plist")

WritePlist ==
  /\ At("plist")
  /\ job' = [job EXCEPT !.plist = TRUE]
  /\ To("bootout")
  /\ UNCHANGED <<setup, socket, daemon, bootDone, agent, session, tunnels, bounds>>

Installs == admin.cmd \in {"install", "reload"}

Bootout ==
  /\ At("bootout")
  /\ LET next == IF Installs THEN "enable" ELSE "disable"
     IN  \/ /\ job' = [job EXCEPT !.loaded = FALSE, !.fresh = FALSE]
            /\ daemon' = [p \in Pids |-> IF p \in Tracked THEN Dead ELSE daemon[p]]
            /\ socket' = IF socket = "launchd" THEN "stale" ELSE socket
            /\ To(next)
            /\ UNCHANGED faults
         \/ /\ job.loaded /\ Fault
            /\ admin' = [admin EXCEPT !.pc = next, !.faulty = TRUE]
            /\ UNCHANGED <<job, daemon, socket>>
  /\ UNCHANGED <<setup, bootDone, agent, session, tunnels, commands, events>>

NotEnabled ==                              \* mutant: a label that was disabled stays so
  /\ At("enable")
  /\ To("bootstrap")
  /\ UNCHANGED <<jobs, agent, session, tunnels, bounds>>

Enable ==
  /\ At("enable")
  /\ job' = [job EXCEPT !.disabled = FALSE]
  /\ To("bootstrap")
  /\ UNCHANGED <<setup, socket, daemon, bootDone, agent, session, tunnels, bounds>>

(* Bootstrapping a label that is disabled or loaded is an error.           *)
Bootstrap ==
  /\ At("bootstrap")
  /\ IF job.disabled \/ job.loaded THEN To("failed") /\ UNCHANGED job
     ELSE To("ps") /\ job' = [job EXCEPT !.loaded = TRUE, !.fresh = TRUE]
  /\ UNCHANGED <<setup, socket, daemon, bootDone, agent, session, tunnels, bounds>>

Disable ==
  /\ At("disable")
  /\ job' = [job EXCEPT !.disabled = TRUE]
  /\ To("ps")
  /\ UNCHANGED <<setup, socket, daemon, bootDone, agent, session, tunnels, bounds>>

(* reap_stray_privileged_daemons: first ps ...                             *)
ListProcesses ==
  /\ At("ps")
  /\ admin' = [admin EXCEPT !.pc = "reap", !.snap = Live]
  /\ UNCHANGED <<jobs, agent, session, tunnels, bounds>>

AllOfThem(pids) == pids                    \* mutant: launchd is not asked
NoneOfThem(pids) == {}                     \* mutant: the names in ps are not recognised

(* ... then what launchd tracks, which is spared.                          *)
Strays(pids) == pids \ Tracked

ReapStrays ==
  /\ At("reap")
  /\ LET strays == Strays(admin.snap)
     IN  /\ daemon' = [p \in Pids |-> IF p \in strays THEN Dead ELSE daemon[p]]
         /\ socket' = IF socket \in strays THEN "stale" ELSE socket
  /\ To(IF Installs THEN "socket" ELSE "remove")
  /\ UNCHANGED <<setup, job, bootDone, agent, session, tunnels, bounds>>

(* wait_for_launchd_socket, for 5 s.                                       *)
WaitForSocket ==
  /\ At("socket")
  /\ \/ Reachable /\ To("list") /\ UNCHANGED faults
     \/ ~Reachable /\ Fault /\ admin' = [admin EXCEPT !.pc = "list", !.faulty = TRUE]
  /\ UNCHANGED <<jobs, agent, session, tunnels, commands, events>>

(* reconnect_automatic_connections: what is down is to be connected, and   *)
(* the agent of the user is looked after first.                            *)
ListAfterInstall ==
  /\ At("list")
  /\ \/ /\ Answers
        /\ admin' = [admin EXCEPT !.pc = "agent", !.todo = Automatic \ up]
        /\ UNCHANGED faults
     \/ /\ NoAnswer
        /\ admin' = [admin EXCEPT !.pc = IF admin.cmd = "reload" THEN "mine" ELSE "done", !.faulty = TRUE]
  /\ UNCHANGED <<jobs, agent, session, tunnels, commands, events>>

(* agent_state and plan_for: a missing or unloaded agent is installed when *)
(* a connection needs it, a disabled one is left alone.                    *)
AgentWanted == (stored \cap Mine) # {} /\ ~(agent.plist /\ agent.disabled) /\ ~(agent.plist /\ agent.loaded)

InstallsAgent(next) ==
  /\ admin' = IF AgentWanted THEN [admin EXCEPT !.pc = "agent plist", !.back = next, !.started = TRUE]
              ELSE [admin EXCEPT !.pc = next]
  /\ UNCHANGED <<jobs, agent, session, tunnels, bounds>>

(* ensure_invoking_user_agent, the root installation as the user ...       *)
EnsureInvokingUserAgent == At("agent") /\ Installs /\ InstallsAgent("reconnect")

(* ... and ensure_for_automatic, the user's own command.                   *)
EnsureForAutomatic == At("agent") /\ ~Installs /\ InstallsAgent("done")

NothingReconnected(c) == FALSE             \* mutant: an install leaves it to the next boot

(* post_install_action: not what a fresh agent connects itself, and a      *)
(* user's connections only if there is an agent to end them at logout.     *)
Reconnects(c) == c \in Mine => agent.loaded /\ ~admin.started

Reconnect(c) ==
  /\ At("reconnect") /\ c \in admin.todo
  /\ \/ /\ Reconnects(c) /\ Answers
        /\ Raise({c} \cap Automatic)
        /\ admin' = [admin EXCEPT !.todo = @ \ {c}]
        /\ UNCHANGED faults
     \/ /\ Reconnects(c) /\ NoAnswer
        /\ admin' = [admin EXCEPT !.todo = @ \ {c}, !.faulty = TRUE]
        /\ UNCHANGED <<up, late, kept>>
     \/ /\ ~Reconnects(c)
        /\ admin' = [admin EXCEPT !.todo = @ \ {c}]
        /\ UNCHANGED <<up, late, kept, faults>>
  /\ UNCHANGED <<jobs, agent, session, stored, userDown, commands, events>>

Reconnected ==
  /\ At("reconnect") /\ admin.todo = {}
  /\ admin' = [admin EXCEPT !.pc = IF admin.cmd = "reload" THEN "mine" ELSE "done",
                            !.back = "done", !.started = FALSE]
  /\ UNCHANGED <<jobs, agent, session, tunnels, bounds>>

(* A list of what is up: the two sweeps of an uninstall, which go on       *)
(* without one, and disconnect_all_mine, which does not.                   *)
ListUp ==
  /\ admin.pc \in {"list1", "list2", "mine"}
  /\ LET next == CASE At("list1") -> "disconnect1" [] At("list2") -> "disconnect2" [] OTHER -> "disconnect mine"
     IN  \/ /\ Answers
            /\ admin' = [admin EXCEPT !.pc = next, !.todo = IF At("mine") THEN up \cap Mine ELSE up]
            /\ UNCHANGED faults
         \/ /\ IF Reachable THEN Fault ELSE UNCHANGED faults
            /\ admin' = [admin EXCEPT !.pc = IF At("mine") THEN "failed" ELSE next, !.faulty = TRUE]
  /\ UNCHANGED <<jobs, agent, session, tunnels, commands, events>>

(* disconnect_connection_for_teardown.                                     *)
DisconnectForTeardown(c) ==
  /\ admin.pc \in {"disconnect1", "disconnect2", "disconnect mine"} /\ c \in admin.todo
  /\ \/ /\ Answers
        /\ up' = up \ {c}
        /\ admin' = [admin EXCEPT !.todo = @ \ {c}]
        /\ UNCHANGED faults
     \/ /\ IF Reachable THEN Fault ELSE UNCHANGED faults
        /\ admin' = [admin EXCEPT !.todo = @ \ {c}, !.faulty = TRUE]
        /\ UNCHANGED up
  /\ UNCHANGED <<jobs, agent, session, stored, userDown, late, kept, commands, events>>

SweepsOnce ==                              \* mutant: one sweep
  /\ admin.pc \in {"disconnect1", "disconnect2", "disconnect mine"} /\ admin.todo = {}
  /\ To(IF At("disconnect mine") THEN "agent plist" ELSE "bootout")
  /\ UNCHANGED <<jobs, agent, session, tunnels, bounds>>

Disconnected ==
  /\ admin.pc \in {"disconnect1", "disconnect2", "disconnect mine"} /\ admin.todo = {}
  /\ To(CASE At("disconnect1") -> "list2" [] At("disconnect2") -> "bootout" [] OTHER -> "agent plist")
  /\ UNCHANGED <<jobs, agent, session, tunnels, bounds>>

(* The plist, and the socket's file.                                       *)
Remove ==
  /\ At("remove")
  /\ job' = [job EXCEPT !.plist = FALSE]
  /\ socket' = "none"
  /\ To(IF admin.cmd = "purge" THEN "clean" ELSE "done")
  /\ UNCHANGED <<setup, daemon, bootDone, agent, session, tunnels, bounds>>

(* The rest of a purge: the connection store, the right and the group.     *)
Clean ==
  /\ At("clean")
  /\ stored' = {} /\ userDown' = {}
  /\ setup' = setup \cap {"binary"}
  /\ To("done")
  /\ UNCHANGED <<job, socket, daemon, bootDone, agent, session, up, late, kept, bounds>>

(* `launchctl kickstart -k`, which needs a job.                            *)
Kickstart(p) ==
  /\ At("kickstart")
  /\ IF job.loaded
     THEN /\ p \in Tracked \/ (Tracked = {} /\ IsNextPid(p))
          /\ daemon' = [daemon EXCEPT ![p] = [kind |-> "launchd", boot |-> ~bootDone]]
          /\ To("done")
     ELSE To("failed") /\ UNCHANGED daemon
  /\ UNCHANGED <<setup, job, socket, bootDone, agent, session, tunnels, bounds>>

(* install_agent: the plist, bootout and the wait for the old process,     *)
(* enable, bootstrap.  `agent install` without --force keeps a plist.      *)
AgentPlist ==
  /\ At("agent plist")
  /\ \/ agent' = [agent EXCEPT !.plist = TRUE] /\ To("agent out")
     \/ admin.cmd = "agent install" /\ agent.plist /\ To("done") /\ UNCHANGED agent
  /\ UNCHANGED <<jobs, session, tunnels, bounds>>

(* launchd sends SIGTERM and waits for the process to end.                 *)
AgentOut ==
  /\ admin.pc \in {"agent out", "remove agent"}
  /\ agent' = Unloaded
  /\ kept' = KeptAtTerm
  /\ To(IF At("agent out") THEN "agent wait" ELSE "agent gone")
  /\ UNCHANGED <<jobs, session, stored, up, userDown, late, bounds>>

AgentGone ==
  /\ admin.pc \in {"agent wait", "agent gone"} /\ agent.pc = "off"
  /\ IF At("agent wait") THEN To("agent enable") /\ UNCHANGED agent
     ELSE /\ agent' = [agent EXCEPT !.plist = FALSE]
          /\ To(IF admin.cmd = "purge" THEN "list1" ELSE "done")
  /\ UNCHANGED <<jobs, session, tunnels, bounds>>

AgentEnable ==
  /\ At("agent enable")
  /\ agent' = [agent EXCEPT !.disabled = FALSE]
  /\ To("agent boot")
  /\ UNCHANGED <<jobs, session, tunnels, bounds>>

AgentBoot ==
  /\ At("agent boot")
  /\ IF agent.disabled THEN To("failed") /\ UNCHANGED agent
     ELSE agent' = [agent EXCEPT !.loaded = TRUE, !.pc = "list"] /\ To(admin.back)
  /\ UNCHANGED <<jobs, session, tunnels, bounds>>

(* `wgd connection connect`, then ensure_for_automatic.                    *)
ConnectAndEnsure(c) ==
  /\ At("connect") /\ c \in stored
  /\ \/ /\ Answers
        /\ Raise({c})
        /\ userDown' = userDown \ {c}
        /\ To(IF c \in Mine THEN "agent" ELSE "done")
        /\ UNCHANGED faults
     \/ /\ NoAnswer
        /\ admin' = [admin EXCEPT !.pc = "failed", !.faulty = TRUE]
        /\ UNCHANGED <<up, late, kept, userDown>>
  /\ UNCHANGED <<jobs, agent, session, stored, commands, events>>

-----------------------------------------------------------------------------
(***************************************************************************)
(* What else happens.                                                      *)
(***************************************************************************)
Happens(e) == e \in Events /\ events > 0 /\ events' = events - 1

(* From another terminal, or the menu bar.                                 *)
UserConnects(c) ==
  /\ Happens("connect") /\ Answers /\ c \in stored
  /\ Raise({c})
  /\ userDown' = userDown \ {c}
  /\ UNCHANGED <<admin, jobs, agent, session, stored, commands, faults>>

UserDisconnects(c) ==
  /\ Happens("disconnect") /\ Answers /\ c \in stored
  /\ up' = up \ {c}
  /\ userDown' = userDown \cup {c}
  /\ UNCHANGED <<admin, jobs, agent, session, stored, late, kept, commands, faults>>

(* The agent is switched off in System Settings.                           *)
LoginItemOff ==
  /\ Happens("login item off") /\ admin.pc \in Rest
  /\ agent.plist
  /\ agent' = [Unloaded EXCEPT !.disabled = TRUE]
  /\ kept' = KeptAtTerm
  /\ UNCHANGED <<admin, jobs, session, stored, up, userDown, late, commands, faults>>

(* A client starts a daemon with sudo where there is no plist.             *)
AdHoc(p) ==
  /\ Happens("ad hoc")
  /\ ~job.plist /\ ~Reachable /\ IsNextPid(p)
  /\ daemon' = [daemon EXCEPT ![p] = [kind |-> "ad hoc", boot |-> ~bootDone]]
  /\ socket' = p
  /\ setup' = setup \cup {"right"}
  /\ UNCHANGED <<admin, job, bootDone, agent, session, tunnels, commands, faults>>

Logout ==
  /\ Happens("logout") /\ session /\ admin.pc \in Rest
  /\ session' = FALSE
  /\ agent' = Unloaded
  /\ kept' = KeptAtTerm
  /\ UNCHANGED <<admin, jobs, stored, up, userDown, late, commands, faults>>

Reboot ==
  /\ Happens("reboot")
  /\ admin' = NoAdmin
  /\ daemon' = [p \in Pids |-> Dead] /\ bootDone' = FALSE
  /\ LET loads == job.plist /\ ~job.disabled
     IN  /\ job' = [job EXCEPT !.loaded = loads, !.fresh = FALSE]
         /\ socket' = IF loads THEN "launchd" ELSE IF socket = "none" THEN "none" ELSE "stale"
  /\ agent' = [agent EXCEPT !.loaded = FALSE, !.pc = "off", !.term = FALSE, !.todo = {}]
  /\ session' = FALSE /\ up' = {} /\ late' = {} /\ kept' = {}
  /\ UNCHANGED <<setup, stored, userDown, commands, faults>>

Login ==
  /\ ~session /\ agent.pc = "off"
  /\ session' = TRUE
  /\ agent' = IF agent.plist /\ ~agent.disabled THEN [agent EXCEPT !.loaded = TRUE, !.pc = "list"] ELSE agent
  /\ kept' = {}
  /\ UNCHANGED <<admin, jobs, stored, up, userDown, late, bounds>>

-----------------------------------------------------------------------------
CommandStep ==
  \/ InstallBinary \/ EnsureGroup \/ RegisterRight \/ WritePlist \/ Bootout \/ Enable
  \/ Bootstrap \/ Disable \/ ListProcesses \/ ReapStrays \/ WaitForSocket
  \/ ListAfterInstall \/ EnsureInvokingUserAgent \/ EnsureForAutomatic \/ Reconnected
  \/ ListUp \/ Disconnected \/ Remove \/ Clean \/ AgentPlist \/ AgentOut \/ AgentGone
  \/ AgentEnable \/ AgentBoot
  \/ \E p \in Pids : Kickstart(p)
  \/ \E c \in Conns : Reconnect(c) \/ DisconnectForTeardown(c) \/ ConnectAndEnsure(c)

AgentStep ==
  \/ AgentLists \/ AgentConnected \/ AgentTerminates \/ AgentEnds
  \/ \E c \in Conns : AgentConnects(c) \/ AgentDisconnects(c)

LaunchdStep ==
  \/ SocketAppears
  \/ \E p \in Pids : Spawn(p) \/ ReconcileBoot(p)

Environment ==
  \/ \E p \in Pids : Exits(p) \/ AdHoc(p)
  \/ \E c \in Conns : UserConnects(c) \/ UserDisconnects(c)
  \/ LoginItemOff \/ Logout \/ Reboot

Next ==
  \/ \E c \in Commands : Begin(c)
  \/ CommandStep \/ Fails \/ AgentStep \/ AgentKilled \/ LaunchdStep \/ Login \/ Environment

(* Commands, the agent and launchd go on.  A daemon that exits when idle   *)
(* is started again for the next request and answers before it is idle.    *)
Fairness ==
  /\ SF_vars(CommandStep) /\ SF_vars(AgentStep) /\ WF_vars(LaunchdStep)

Spec == Init /\ [][Next]_vars /\ Fairness

-----------------------------------------------------------------------------
(***************************************************************************)
(* Properties.                                                             *)
(***************************************************************************)

(* cmd_install: whatever was left by installs and removals that failed or  *)
(* were interrupted, an install that succeeds registers the daemon, and no *)
(* daemon is left that launchd does not know.                              *)
InstallHeals ==
  Installs /\ admin.pc \in {"socket", "list", "agent", "reconnect", "mine", "done"}
    => /\ setup = Parts /\ job.plist /\ job.loaded /\ ~job.disabled
       /\ \A p \in Live : daemon[p].kind = "launchd"

(* reap_stray_privileged_daemons: the daemon that launchd has just started *)
(* for somebody is not taken for a stray.                                  *)
ReapSparesTracked ==
  [][At("reap") /\ admin'.pc \in {"socket", "remove"} => Tracked \subseteq Tracked']_vars

(* launchd::bootstrap, install_agent: "bootstrapping a disabled label      *)
(* fails"; no earlier command makes a later one fail.                      *)
CommandsSucceed ==
  [][admin'.pc = "failed" /\ admin.pc # "failed"
       => faults' # faults \/ admin'.faulty \/ At("kickstart")]_vars

(* uninstall_daemon_core: a tunnel that came up before the second sweep    *)
(* does not outlive the daemon, the only one who could end it.             *)
UninstallLeavesNoTunnel ==
  admin.pc = "done" /\ admin.cmd \in {"uninstall", "purge"} /\ ~admin.faulty => up \subseteq late

(* session_agent::run: the agent that is told to go at logout, were it in  *)
(* the middle of its start, ends the tunnels of its user.                  *)
LogoutEndsTunnels == ~session /\ agent.pc = "off" => up \cap Mine \subseteq kept

(* post_install_action, ensure_invoking_user_agent: whatever an uninstall  *)
(* or a reload took down, and the user does not want down, is brought back *)
(* by a successful install, which leaves to a fresh agent what this one    *)
(* connects itself, and otherwise connects it.                             *)
BackUp ==
  admin.pc = "done" /\ Installs /\ ~admin.faulty
    ~> \/ \A c \in Automatic : c \in up \/ (c \in Mine /\ agent.disabled)
       \/ ~(admin.pc = "done" /\ Installs) \/ ~session \/ faults < MaxFaults

(* Types, and what a cmd_install that succeeds leaves registered.          *)
InstallInv == TypeOK /\ InstallHeals

(* uninstall_daemon_core, session_agent::run: no tunnel is left without    *)
(* anybody who could end it, after an uninstall or a logout.               *)
TunnelsEnd == UninstallLeavesNoTunnel /\ LogoutEndsTunnels
=============================================================================
