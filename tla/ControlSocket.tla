--------------------------- MODULE ControlSocket ---------------------------
(***************************************************************************)
(* Clients and the daemon at the control socket (privileged/socket.rs,     *)
(* privileged/mod.rs, privileged/dispatch.rs, privileged_client).          *)
(*                                                                         *)
(* A client connects, or has a daemon started first: by launchd, which owns*)
(* the socket and holds connections while no daemon runs, or else with     *)
(* sudo, under a lock of the user's.  The daemon serves a bounded number   *)
(* of connections with absolute deadlines, hands slow requests to workers  *)
(* and exits when it is idle or asked to.  A connection that its client    *)
(* closes is gone from the daemon at once.                                 *)
(***************************************************************************)
EXTENDS Naturals, Sequences, FiniteSets

CONSTANTS
  Clients,       \* client processes, each with one command
  Daemons,       \* as many daemon processes as there may be at once
  None,
  UserOf,        \* [Clients -> users]
  CommandsOf,    \* [Clients -> the commands it may be, from AllCommands]
  Managers,      \* who may start daemons, from {"launchd", "sudo"}
  SlowStart,     \* BOOLEAN: a daemon may start for longer than clients wait
  MaxClients,    \* MAX_CLIENTS
  MaxFaults      \* daemons that crash, clients that are killed, workers that panic

Requests == {"work", "change", "lease", "release", "shutdown", "probe"}

(* "work" is done by a worker, "change" needs admin authentication.  The   *)
(* last command runs in a CommandScopeGuard with privileged_autostop_mode  *)
(* = "command": one connection for all its requests, and a lease.          *)
AllCommands == {<<"work">>, <<"change">>, <<"lease", "work", "release", "shutdown">>}

ASSUME ControlSocketAssumption ==
  /\ IsFiniteSet(Clients) /\ IsFiniteSet(Daemons)
  /\ None \notin Clients \cup Daemons \cup Requests \cup {"launchd", "stale"}
  /\ {"launchd", "stale"} \cap Daemons = {}
  /\ CommandsOf \in [Clients -> SUBSET AllCommands]
  /\ Managers \subseteq {"launchd", "sudo"} /\ SlowStart \in BOOLEAN
  /\ MaxClients \in Nat \ {0} /\ MaxFaults \in Nat

Users == {UserOf[c] : c \in Clients}

VARIABLES
  manager,   \* "launchd" if `wgd launchd install` was run, else "sudo"
  client,    \* [Clients -> the process]
  conn,      \* [Clients -> its connection]
  daemon,    \* [Daemons -> the process]
  path,      \* whose socket is at the path: a daemon's, launchd's, a "stale" one's
  work,      \* <<d, c>>: a worker of daemon d has the request of client c
  startLock, \* [Users -> the client that holds privileged-start.lock, or None]
  executed,  \* history: [Clients -> how often its "work" or "change" took effect]
  faults

vars == <<manager, client, conn, daemon, path, work, startLock, executed, faults>>

Owners == Daemons \cup {None, "launchd", "stale"}

Client == [pc : {"idle", "connect", "wait", "prompt", "launchd", "once", "lock", "start", "ready",
                 "done", "failed"},
           todo : Seq(Requests), token : BOOLEAN, ok : BOOLEAN]
Conn == [at : Owners, st : {"none", "backlog", "read", "pending", "reply", "closed"},
         req : Requests \cup {None}, auth : BOOLEAN, session : BOOLEAN]
Daemon == [pc : {"unused", "probe", "unlink", "bind", "serve"},
           leases : SUBSET Clients, asked : BOOLEAN, quiet : BOOLEAN]

NoConn == [at |-> None, st |-> "none", req |-> None, auth |-> FALSE, session |-> FALSE]
NewDaemon == [pc |-> "unused", leases |-> {}, asked |-> FALSE, quiet |-> FALSE]

(* Every variable has its type.                                            *)
TypeOK ==
  /\ manager \in Managers
  /\ client \in [Clients -> Client]
  /\ conn \in [Clients -> Conn]
  /\ daemon \in [Daemons -> Daemon]
  /\ path \in Owners
  /\ work \subseteq Daemons \X Clients
  /\ startLock \in [Users -> Clients \cup {None}]
  /\ executed \in [Clients -> 0..2]
  /\ faults \in 0..MaxFaults

Init ==
  /\ manager \in Managers
  /\ client = [c \in Clients |-> [pc |-> "idle", todo |-> <<>>, token |-> FALSE, ok |-> FALSE]]
  /\ conn = [c \in Clients |-> NoConn]
  /\ daemon = [d \in Daemons |-> NewDaemon]
  /\ path \in IF manager = "launchd" THEN {"launchd"} ELSE {None, "stale"}
  /\ work = {}
  /\ startLock = [u \in Users |-> None]
  /\ executed = [c \in Clients |-> 0]
  /\ faults = MaxFaults

-----------------------------------------------------------------------------
Living == {"connect", "wait", "prompt", "launchd", "once", "lock", "start", "ready"}
Alive(c) == client[c].pc \in Living

Serving(d) == d \in Daemons /\ daemon[d].pc = "serve"

(* A connect succeeds: launchd listens, or the daemon that bound the path. *)
Listening == path = "launchd" \/ Serving(path)

Closed(connection) == [connection EXCEPT !.at = None, !.st = "closed"]

Goto(c, place) == client' = [client EXCEPT ![c].pc = place]

Fail(c) == client' = [client EXCEPT ![c] = [@ EXCEPT !.pc = "failed", !.todo = <<>>, !.token = FALSE]]

(* The startup lock goes with its file.                                    *)
Unlocked(c) == [startLock EXCEPT ![UserOf[c]] = IF @ = c THEN None ELSE @]

(* The next process to be started.                                         *)
IsNext(d) == d = CHOOSE e \in Daemons : daemon[e].pc = "unused"

Fault == faults > 0 /\ faults' = faults - 1

-----------------------------------------------------------------------------
(***************************************************************************)
(* The client.                                                             *)
(***************************************************************************)
Begin(c, command) ==
  /\ client[c].pc = "idle"
  /\ client' = [client EXCEPT ![c] = [@ EXCEPT !.pc = "connect", !.todo = command]]
  /\ UNCHANGED <<manager, conn, daemon, path, work, startLock, executed, faults>>

(* A request on the session's connection, or on a new one.                 *)
Send(c, request, session) ==
  conn' = [conn EXCEPT ![c] =
             IF @.st = "none"
             THEN [at |-> path, st |-> "backlog", req |-> request, auth |-> client[c].token,
                   session |-> session]
             ELSE [@ EXCEPT !.req = request]]

AtEnd(request) == request \in {"release", "shutdown"}

(* send_on_stream.  A command with a lease keeps the connection that it    *)
(* opened for it.                                                          *)
Request(c) ==
  LET request == Head(client[c].todo)
  IN  /\ client[c].pc \in {"connect", "launchd", "once"}
      /\ conn[c].st # "none" \/ Listening
      /\ Send(c, request, request = "lease")
      /\ Goto(c, "wait")
      /\ UNCHANGED <<manager, daemon, path, work, startLock, executed, faults>>

(* On to the next request.                                                 *)
Advance(c, ok) ==
  LET rest == Tail(client[c].todo)
  IN  client' = [client EXCEPT ![c] = [pc |-> IF rest = <<>> THEN "done" ELSE "connect",
                                        todo |-> rest, token |-> FALSE, ok |-> ok]]

(* connect_or_autostart when nobody listens.  What a session sends at its  *)
(* end is not worth a daemon, and launchd's daemon is only waited for.     *)
NobodyListens(c) ==
  /\ client[c].pc = "connect"
  /\ conn[c].st = "none" /\ ~Listening
  /\ IF AtEnd(Head(client[c].todo)) THEN Advance(c, client[c].ok)
     ELSE Goto(c, IF manager = "launchd" THEN "launchd" ELSE "lock")
  /\ UNCHANGED <<manager, conn, daemon, path, work, startLock, executed, faults>>

(* wait_for_launchd_socket gives up, or the daemon that was started is not *)
(* there any more.                                                         *)
NoSocket(c) ==
  /\ client[c].pc \in {"launchd", "once"}
  /\ ~Listening
  /\ Fail(c)
  /\ UNCHANGED <<manager, conn, daemon, path, work, startLock, executed, faults>>

Close(c) == conn' = [conn EXCEPT ![c] = NoConn]

(* Daemon: the queued output is written; client: the response is read.     *)
Respond(d, c) ==
  /\ Serving(d) /\ conn[c].at = d /\ conn[c].st = "reply"
  /\ \/ /\ conn[c].req = "probe"
        /\ Goto(c, "once") /\ Close(c) /\ startLock' = Unlocked(c)
     \/ /\ conn[c].req = "change" /\ ~conn[c].auth
        /\ Goto(c, "prompt") /\ Close(c) /\ UNCHANGED startLock
     \/ /\ conn[c].req # "probe" /\ (conn[c].req = "change" => conn[c].auth)
        /\ Advance(c, client[c].ok \/ conn[c].req \in {"work", "change"})
        /\ conn' = [conn EXCEPT ![c] = IF @.session /\ @.req # "shutdown"
                                       THEN [@ EXCEPT !.st = "read", !.req = None] ELSE NoConn]
        /\ UNCHANGED startLock
  /\ UNCHANGED <<manager, daemon, path, work, executed, faults>>

(* The prompt of the operating system; then the same request with a token. *)
Prompted(c) ==
  /\ client[c].pc = "prompt"
  /\ \/ client' = [client EXCEPT ![c] = [@ EXCEPT !.pc = "connect", !.token = TRUE]]
     \/ Fail(c)
  /\ UNCHANGED <<manager, conn, daemon, path, work, startLock, executed, faults>>

ResendsAtEof(c) ==                         \* mutant: a lost connection is retried
  /\ client[c].pc = "wait" /\ conn[c].st = "closed"
  /\ Close(c)
  /\ IF conn[c].req = "probe" THEN Fail(c) ELSE Goto(c, "connect")
  /\ startLock' = Unlocked(c)
  /\ UNCHANGED <<manager, daemon, path, work, executed, faults>>

(* "privileged server closed connection before responding": the command    *)
(* fails and nothing is sent twice.  CommandScopeGuard::drop tries its     *)
(* requests on the session's connection, then once on one of their own.    *)
SeesEof(c) ==
  /\ client[c].pc = "wait" /\ conn[c].st = "closed"
  /\ IF conn[c].session /\ conn[c].req = "work" THEN Advance(c, FALSE) /\ UNCHANGED conn
     ELSE /\ Close(c)
          /\ IF ~AtEnd(conn[c].req) THEN Fail(c)
             ELSE IF conn[c].session THEN Goto(c, "connect") ELSE Advance(c, client[c].ok)
  /\ startLock' = Unlocked(c)
  /\ UNCHANGED <<manager, daemon, path, work, executed, faults>>

StartingUp == \E d \in Daemons : daemon[d].pc \in {"probe", "unlink", "bind"}

(* A client that started a daemon stops to wait for it while it starts.    *)
GivesUpWaiting(c) == SlowStart \/ startLock[UserOf[c]] # c \/ ~StartingUp

(* SIGKILL or Ctrl-C.                                                      *)
ClientKilled(c) ==
  /\ Alive(c) /\ GivesUpWaiting(c)
  /\ Fault
  /\ Fail(c)
  /\ conn' = [conn EXCEPT ![c] = NoConn]
  /\ startLock' = Unlocked(c)
  /\ UNCHANGED <<manager, daemon, path, work, executed>>

-----------------------------------------------------------------------------
(***************************************************************************)
(* autostart_daemon.                                                       *)
(***************************************************************************)
StartUnlocked(c) ==                        \* mutant: no lock around the start
  /\ client[c].pc = "lock"
  /\ Goto(c, IF Listening THEN "once" ELSE "start")
  /\ UNCHANGED <<manager, conn, daemon, path, work, startLock, executed, faults>>

TakeStartLock(c) ==
  /\ client[c].pc = "lock"
  /\ startLock[UserOf[c]] = None
  /\ IF Listening THEN Goto(c, "once") /\ UNCHANGED startLock
     ELSE Goto(c, "start") /\ startLock' = [startLock EXCEPT ![UserOf[c]] = c]
  /\ UNCHANGED <<manager, conn, daemon, path, work, executed, faults>>

StartLockTimesOut(c) ==
  /\ client[c].pc = "lock"
  /\ startLock[UserOf[c]] # None
  /\ Fail(c)
  /\ UNCHANGED <<manager, conn, daemon, path, work, startLock, executed, faults>>

(* spawn_privileged_daemon, or sudo is refused.                            *)
SpawnDaemon(c) ==
  /\ client[c].pc = "start"
  /\ \/ \E d \in Daemons :
          /\ daemon[d].pc = "unused" /\ IsNext(d)
          /\ daemon' = [daemon EXCEPT ![d].pc = "probe"]
          /\ Goto(c, "ready") /\ UNCHANGED startLock
     \/ Fail(c) /\ startLock' = Unlocked(c) /\ UNCHANGED daemon
  /\ UNCHANGED <<manager, conn, path, work, executed, faults>>

(* wait_until_ready: a whole round trip, or the timeout.                   *)
ProbeReady(c) ==
  /\ client[c].pc = "ready"
  /\ Listening
  /\ Send(c, "probe", FALSE)
  /\ Goto(c, "wait")
  /\ UNCHANGED <<manager, daemon, path, work, startLock, executed, faults>>

NotReady(c) ==
  /\ client[c].pc = "ready" /\ GivesUpWaiting(c)
  /\ Fail(c)
  /\ startLock' = Unlocked(c)
  /\ UNCHANGED <<manager, conn, daemon, path, work, executed, faults>>

-----------------------------------------------------------------------------
(***************************************************************************)
(* A daemon starts: serve.                                                 *)
(***************************************************************************)
StartServing(d) == daemon' = [daemon EXCEPT ![d].pc = "serve"]

(* launchd starts one for a connection it holds: the plist's Sockets.      *)
LaunchdStarts(d) ==
  /\ path = "launchd"
  /\ daemon[d].pc = "unused" /\ IsNext(d)
  /\ \A e \in Daemons : ~Serving(e)
  /\ \E c \in Clients : conn[c].st = "backlog"
  /\ StartServing(d)
  /\ UNCHANGED <<manager, client, conn, path, work, startLock, executed, faults>>

(* Whose socket is at the path?  A daemon that lives is not displaced.     *)
ProbeSocket(d) ==
  /\ daemon[d].pc = "probe"
  /\ daemon' = [daemon EXCEPT ![d].pc = CASE path = None -> "bind"
                                          [] Listening   -> "unused"
                                          [] OTHER       -> "unlink"]
  /\ UNCHANGED <<manager, client, conn, path, work, startLock, executed, faults>>

UnlinkStale(d) ==
  /\ daemon[d].pc = "unlink"
  /\ path' = None
  /\ daemon' = [daemon EXCEPT ![d].pc = "bind"]
  /\ UNCHANGED <<manager, client, conn, work, startLock, executed, faults>>

(* bind fails over a file that is there.                                   *)
BindSocket(d) ==
  /\ daemon[d].pc = "bind"
  /\ IF path = None THEN path' = d /\ StartServing(d)
     ELSE daemon' = [daemon EXCEPT ![d] = NewDaemon] /\ UNCHANGED path
  /\ UNCHANGED <<manager, client, conn, work, startLock, executed, faults>>

-----------------------------------------------------------------------------
(***************************************************************************)
(* The accept loop: socket::serve.                                         *)
(***************************************************************************)
ClientsOf(d) == {c \in Clients : conn[c].at = d /\ conn[c].st \in {"read", "pending", "reply"}}

Backlog(d) == {c \in Clients : conn[c].st = "backlog" /\ conn[c].at \in {d, "launchd"}}

(* One more than MAX_CLIENTS is dropped.                                   *)
Accept(d, c) ==
  /\ Serving(d)
  /\ c \in Backlog(d)
  /\ conn' = [conn EXCEPT ![c] = IF Cardinality(ClientsOf(d)) < MaxClients
                                 THEN [@ EXCEPT !.at = d, !.st = "read"] ELSE Closed(@)]
  /\ UNCHANGED <<manager, client, daemon, path, work, startLock, executed, faults>>

(* lease_token_is_live.                                                    *)
LiveLeases(leases) == {c \in leases : Alive(c)}

(* process_request_payload and dispatch, on the accept thread.  Every      *)
(* daemon is started with --autostarted, so none refuses a shutdown.       *)
Dispatch(d, c) ==
  /\ Serving(d)
  /\ conn[c].at = d /\ conn[c].st = "read" /\ conn[c].req # None
  /\ LET r == conn[c].req
         leases == daemon[d].leases
         takesEffect == r = "change" /\ conn[c].auth
     IN  /\ conn' = [conn EXCEPT ![c].st = IF r = "work" THEN "pending" ELSE "reply"]
         /\ work' = IF r = "work" THEN work \cup {<<d, c>>} ELSE work
         /\ executed' = IF takesEffect THEN [executed EXCEPT ![c] = @ + 1] ELSE executed
         /\ daemon' = [daemon EXCEPT ![d] =
              [@ EXCEPT !.quiet = FALSE,
                        !.leases = CASE r = "lease"    -> LiveLeases(leases) \cup {c}
                                     [] r = "release"  -> LiveLeases(leases \ {c})
                                     [] r = "shutdown" -> LiveLeases(leases)
                                     [] OTHER          -> leases,
                        !.asked = daemon[d].asked \/ r = "shutdown"]]
  /\ UNCHANGED <<manager, client, path, startLock, faults>>

(* A worker ends.  If its client still waits, the response is for it.      *)
WorkerDone(d, c) ==
  /\ <<d, c>> \in work
  /\ work' = work \ {<<d, c>>}
  /\ conn' = IF conn[c].at = d /\ conn[c].st = "pending"
             THEN [conn EXCEPT ![c].st = "reply"] ELSE conn
  /\ executed' = [executed EXCEPT ![c] = @ + 1]
  /\ UNCHANGED <<manager, client, daemon, path, startLock, faults>>

(* ... or panics: the channel is closed, and so is the connection.         *)
WorkerPanics(d, c) ==
  /\ <<d, c>> \in work
  /\ Fault
  /\ work' = work \ {<<d, c>>}
  /\ conn' = IF conn[c].at = d /\ conn[c].st = "pending"
             THEN [conn EXCEPT ![c] = Closed(@)] ELSE conn
  /\ UNCHANGED <<manager, client, daemon, path, startLock, executed>>

DeadlineForReads(d, c) ==                  \* mutant: none for a pending worker
  /\ Serving(d)
  /\ c \in ClientsOf(d)
  /\ conn[c].st = "read"
  /\ conn' = [conn EXCEPT ![c] = Closed(@)]
  /\ UNCHANGED <<manager, client, daemon, path, work, startLock, executed, faults>>

(* 10 s for a request and for a response, 60 s for a worker.  The worker   *)
(* goes on.                                                                *)
Deadline(d, c) ==
  /\ Serving(d)
  /\ c \in ClientsOf(d)
  /\ conn' = [conn EXCEPT ![c] = Closed(@)]
  /\ UNCHANGED <<manager, client, daemon, path, work, startLock, executed, faults>>

(* A pass finds nobody to accept, and that the idle timeout is over.       *)
IdleTimeout(d) ==
  /\ Serving(d) /\ ~daemon[d].quiet
  /\ Backlog(d) = {}
  /\ daemon' = [daemon EXCEPT ![d].quiet = TRUE]
  /\ UNCHANGED <<manager, client, conn, path, work, startLock, executed, faults>>

(* The process ends: its threads with it, and connections nobody accepted. *)
(* launchd keeps those it holds; the file of a socket stays.               *)
Leave(d) ==
  /\ daemon' = [daemon EXCEPT ![d] = NewDaemon]
  /\ path' = IF path = d THEN "stale" ELSE path
  /\ work' = {p \in work : p[1] # d}
  /\ conn' = [c \in Clients |-> IF conn[c].at = d THEN Closed(conn[c]) ELSE conn[c]]

ExitsWhileReplying(d) ==                   \* mutant: only queued responses are finished
  /\ Serving(d)
  /\ \A c \in ClientsOf(d) : conn[c].st # "reply"
  /\ (daemon[d].asked /\ LiveLeases(daemon[d].leases) = {}) \/ daemon[d].quiet
  /\ Leave(d)
  /\ UNCHANGED <<manager, client, startLock, executed, faults>>

(* should_exit_now, or the idle timeout.  Boot reconciliation and the DNS  *)
(* watch put it off for any time.                                          *)
Exit(d) ==
  /\ Serving(d)
  /\ ClientsOf(d) = {}
  /\ (daemon[d].asked /\ LiveLeases(daemon[d].leases) = {}) \/ daemon[d].quiet
  /\ Leave(d)
  /\ UNCHANGED <<manager, client, startLock, executed, faults>>

(* `wgd launchd install` over an installation: bootout ends the daemon and *)
(* its connections ...                                                     *)
LaunchdUnloads ==
  /\ path = "launchd"
  /\ Fault
  /\ path' = None
  /\ daemon' = [d \in Daemons |-> NewDaemon]
  /\ work' = {}
  /\ conn' = [c \in Clients |-> IF conn[c].st # "none" THEN Closed(conn[c]) ELSE conn[c]]
  /\ UNCHANGED <<manager, client, startLock, executed>>

(* ... and bootstrap makes the socket anew.                                *)
LaunchdLoads ==
  /\ manager = "launchd" /\ path = None
  /\ path' = "launchd"
  /\ UNCHANGED <<manager, client, conn, daemon, work, startLock, executed, faults>>

Crash(d) ==
  /\ daemon[d].pc \in {"probe", "unlink", "bind", "serve"}
  /\ Fault
  /\ Leave(d)
  /\ UNCHANGED <<manager, client, startLock, executed>>

-----------------------------------------------------------------------------
ClientStep(c) ==
  \/ Request(c) \/ NobodyListens(c) \/ NoSocket(c) \/ SeesEof(c)
  \/ TakeStartLock(c) \/ StartLockTimesOut(c) \/ SpawnDaemon(c) \/ ProbeReady(c) \/ NotReady(c)

DaemonStep(d) ==
  \/ LaunchdStarts(d) \/ ProbeSocket(d) \/ UnlinkStale(d) \/ BindSocket(d)
  \/ \E c \in Clients : Accept(d, c) \/ Dispatch(d, c) \/ Respond(d, c)

Next ==
  \/ \E c \in Clients :
       \/ \E command \in CommandsOf[c] : Begin(c, command)
       \/ ClientStep(c) \/ Prompted(c) \/ ClientKilled(c)
  \/ \E d \in Daemons :
       \/ DaemonStep(d) \/ IdleTimeout(d) \/ Exit(d) \/ Crash(d)
       \/ \E c \in Clients : WorkerDone(d, c) \/ WorkerPanics(d, c) \/ Deadline(d, c)
  \/ LaunchdUnloads \/ LaunchdLoads

(* Processes go on and deadlines pass; a worker may take for ever, nobody  *)
(* has to answer a prompt and no daemon has to exit.                       *)
Fairness ==
  /\ \A c \in Clients : WF_vars(ClientStep(c))
  /\ \A d \in Daemons : /\ WF_vars(DaemonStep(d))
                        /\ \A c \in Clients : WF_vars(Deadline(d, c))

Spec == Init /\ [][Next]_vars /\ Fairness

-----------------------------------------------------------------------------
(***************************************************************************)
(* Properties.                                                             *)
(***************************************************************************)

(* privileged::serve, "refusing to start a duplicate", autostart_daemon:   *)
(* there is never a second daemon, which no client could reach to end it.  *)
OneDaemon == \A d, e \in Daemons : Serving(d) /\ Serving(e) => d = e

(* send_on_stream and send_with_admin_auth_retry: whatever is lost or late,*)
(* a request takes effect at most once, and did so if its client was told. *)
OnceAtMost == \A c \in Clients : executed[c] <= 1 /\ (client[c].ok => executed[c] = 1)

(* wait_for_launchd_socket: no daemon "takes over the path from launchd    *)
(* for good" while launchd has no daemon or no socket.                     *)
PathIsLaunchds == manager = "launchd" => path \in {"launchd", None}

(* The exit check of socket::serve: a daemon that exits of its own accord  *)
(* takes no worker with it whose client still waits for its response ...   *)
ExitLeavesNobody ==
  [][\A d \in Daemons : Serving(d) /\ daemon'[d].pc # "serve" /\ faults' = faults
       => \A c \in Clients : <<d, c>> \in work => client[c].pc # "wait" \/ conn[c].st # "pending"]_vars

(* ... and one that was asked to exit does not do so under a command that  *)
(* still runs and has a lease.                                             *)
LeaseHoldsDaemon ==
  [][\A d \in Daemons : Serving(d) /\ daemon'[d].pc # "serve" /\ faults' = faults
                        /\ ~daemon[d].quiet
       => LiveLeases(daemon[d].leases) = {}]_vars

(* The deadlines of Client::step, of the startup lock and of the start: no *)
(* command hangs, whatever a worker does, except at the prompt.            *)
EveryCommandEnds ==
  \A c \in Clients : client[c].pc = "connect" ~> client[c].pc \in {"done", "failed", "prompt"}

(* Types, and who has the path (privileged::serve, connect_or_autostart):  *)
(* one daemon at most, and never instead of launchd.                       *)
SocketInv == TypeOK /\ OneDaemon /\ PathIsLaunchds

(* socket::serve, should_exit_now: a daemon that exits of its own accord   *)
(* harms nobody, neither a client that waits for a worker nor a command    *)
(* that has a lease.                                                       *)
ExitHarmsNobody == ExitLeavesNobody /\ LeaseHoldsDaemon
=============================================================================
