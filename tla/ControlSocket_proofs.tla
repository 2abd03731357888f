------------------------ MODULE ControlSocket_proofs ------------------------
(***************************************************************************)
(* Theorems about ControlSocket for any number of clients and daemons, of  *)
(* connections that are served at once and of faults.                      *)
(***************************************************************************)
EXTENDS ControlSocket, TLAPS

(* What a command may have left to do.                                     *)
Rests == AllCommands \cup {<<>>, <<"work", "release", "shutdown">>, <<"release", "shutdown">>, <<"shutdown">>}

HasEffect(todo) == todo \in {<<"work">>, <<"change">>, <<"lease", "work", "release", "shutdown">>,
                             <<"work", "release", "shutdown">>}

(* A request that a daemon carries out, rather than refuse it.             *)
Effective(request, auth) == request = "work" \/ (request = "change" /\ auth)

(* No daemon has begun with the effect of the client's command, and one    *)
(* may still.                                                              *)
Unspent(c) ==
  \/ client[c].pc = "idle"
  \/ /\ HasEffect(client[c].todo)
     /\ client[c].pc = "wait" =>
          ~Effective(conn[c].req, conn[c].auth) \/ conn[c].st \in {"backlog", "read"}

(* A client and the one effect of its command.                             *)
OnceInv(c) ==
  /\ client[c].todo \in Rests
  /\ client[c].pc \in Living => client[c].todo # <<>>
  /\ client[c].pc = "wait" => conn[c].req \in {Head(client[c].todo), "probe"}
  /\ conn[c].st \in {"backlog", "pending", "reply"} \/ (conn[c].st = "read" /\ conn[c].req # None)
       => client[c].pc = "wait"
  /\ conn[c].st = "pending" => conn[c].req = "work"
  /\ \A d \in Daemons : <<d, c>> \in work =>
       /\ executed[c] = 0
       /\ conn[c].st = "pending" => conn[c].at = d
       /\ \A e \in Daemons : <<e, c>> \in work => e = d
  /\ Unspent(c) => executed[c] = 0 /\ \A d \in Daemons : <<d, c>> \notin work
  /\ conn[c].st = "reply" /\ Effective(conn[c].req, conn[c].auth) => executed[c] = 1
  /\ executed[c] <= 1 /\ (client[c].ok => executed[c] = 1)

(* A daemon on its way to serve.                                           *)
StartPlaces == {"probe", "unlink", "bind"}
IsStarting(d) == daemon[d].pc \in StartPlaces

(* Where launchd is installed nobody but launchd starts a daemon, and it    *)
(* has one at a time.                                                      *)
LaunchdInv ==
  /\ path \in {"launchd", None}
  /\ \A c \in Clients : client[c].pc \notin {"lock", "start", "ready"}
  /\ \A d \in Daemons : ~IsStarting(d)
  /\ \A d, e \in Daemons : Serving(d) /\ Serving(e) => d = e

(* Else one lock makes starts follow each other: whoever started a daemon  *)
(* waits for it with the lock, and nobody starts one while another lives.  *)
SudoInv ==
  /\ path # "launchd"
  /\ \A d \in Daemons : Serving(d) <=> path = d
  /\ \A d \in Daemons : IsStarting(d) =>
       /\ \A e \in Daemons \ {d} : daemon[e].pc = "unused"
       /\ \E c \in Clients : client[c].pc = "ready"
  /\ \A c \in Clients : client[c].pc \in {"start", "ready"} => startLock[UserOf[c]] = c
  /\ \A c \in Clients : client[c].pc = "start" => \A d \in Daemons : daemon[d].pc = "unused"

StartInv == (manager = "launchd" => LaunchdInv) /\ (manager = "sudo" => SudoInv)


-----------------------------------------------------------------------------
(***************************************************************************)
(* Commands, and the records of clients, connections and daemons.          *)
(***************************************************************************)
LEMMA RestFacts ==
  /\ HasEffect(<<>>) = FALSE
  /\ \A todo \in Rests \ {<<>>} :
       /\ todo \in Seq(Requests) /\ Tail(todo) \in Rests
       /\ Head(todo) \in Requests \ {"probe"}
       /\ HasEffect(Tail(todo)) => Head(todo) = "lease"
       /\ Head(todo) \in {"work", "change"} => HasEffect(todo)
  /\ \A command \in AllCommands : command \in Rests \ {<<>>} /\ HasEffect(command)
<1>1. /\ <<"work">> \in Seq(Requests) /\ Head(<<"work">>) = "work" /\ Tail(<<"work">>) = <<>>
      /\ <<"change">> \in Seq(Requests) /\ Head(<<"change">>) = "change" /\ Tail(<<"change">>) = <<>>
      /\ <<"shutdown">> \in Seq(Requests) /\ Head(<<"shutdown">>) = "shutdown" /\ Tail(<<"shutdown">>) = <<>>
  BY DEF Requests
<1>2. /\ <<"release", "shutdown">> \in Seq(Requests) /\ Head(<<"release", "shutdown">>) = "release"
      /\ Tail(<<"release", "shutdown">>) = <<"shutdown">>
  BY DEF Requests
<1>3. /\ <<"work", "release", "shutdown">> \in Seq(Requests)
      /\ Head(<<"work", "release", "shutdown">>) = "work"
      /\ Tail(<<"work", "release", "shutdown">>) = <<"release", "shutdown">>
  BY DEF Requests
<1>4. /\ <<"lease", "work", "release", "shutdown">> \in Seq(Requests)
      /\ Head(<<"lease", "work", "release", "shutdown">>) = "lease"
      /\ Tail(<<"lease", "work", "release", "shutdown">>) = <<"work", "release", "shutdown">>
  BY DEF Requests
<1>5. HasEffect(<<>>) = FALSE
  BY DEF HasEffect
<1>6. ~HasEffect(<<"shutdown">>) /\ ~HasEffect(<<"release", "shutdown">>)
  BY DEF HasEffect
<1>7. ASSUME NEW todo \in Rests \ {<<>>}
      PROVE  /\ todo \in Seq(Requests) /\ Tail(todo) \in Rests
             /\ Head(todo) \in Requests \ {"probe"}
             /\ HasEffect(Tail(todo)) => Head(todo) = "lease"
             /\ Head(todo) \in {"work", "change"} => HasEffect(todo)
  <2>1. CASE todo = <<"work">>
    BY <1>1, <1>5, <2>1 DEF Rests, HasEffect, Requests
  <2>2. CASE todo = <<"change">>
    BY <1>1, <1>5, <2>2 DEF Rests, HasEffect, Requests
  <2>3. CASE todo = <<"shutdown">>
    BY <1>1, <1>5, <2>3 DEF Rests, Requests
  <2>4. CASE todo = <<"release", "shutdown">>
    BY <1>2, <1>6, <2>4 DEF Rests, Requests
  <2>5. CASE todo = <<"work", "release", "shutdown">>
    BY <1>3, <1>6, <2>5 DEF Rests, HasEffect, Requests
  <2>6. CASE todo = <<"lease", "work", "release", "shutdown">>
    BY <1>4, <2>6 DEF Rests, Requests
  <2> QED BY <2>1, <2>2, <2>3, <2>4, <2>5, <2>6 DEF Rests, AllCommands
<1>8. \A command \in AllCommands : command \in Rests \ {<<>>} /\ HasEffect(command)
  BY DEF AllCommands, Rests, HasEffect
<1> QED BY <1>5, <1>7, <1>8

LEMMA FaultType ==
  ASSUME TypeOK, Fault
  PROVE  faults' \in 0..MaxFaults /\ faults' # faults
BY ControlSocketAssumption DEF TypeOK, Fault

ClientPlaces == {"idle", "done", "failed"} \cup Living

(* A client goes somewhere.                                                *)
LEMMA GotoMakes ==
  ASSUME TypeOK, NEW c \in Clients, NEW place \in ClientPlaces, Goto(c, place)
  PROVE  \E k \in Client :
           /\ client' = [client EXCEPT ![c] = k]
           /\ k.pc = place /\ k.todo = client[c].todo /\ k.token = client[c].token /\ k.ok = client[c].ok
<1> DEFINE k == [client[c] EXCEPT !.pc = place]
<1>1. client[c] \in Client
  BY DEF TypeOK
<1>2. /\ k \in Client
      /\ k.pc = place /\ k.todo = client[c].todo /\ k.token = client[c].token /\ k.ok = client[c].ok
  BY <1>1 DEF Client, ClientPlaces, Living
<1>3. client' = [client EXCEPT ![c] = k]
  BY DEF Goto
<1> HIDE DEF k
<1> QED BY <1>2, <1>3

LEMMA FailMakes ==
  ASSUME TypeOK, NEW c \in Clients, Fail(c)
  PROVE  \E k \in Client :
           /\ client' = [client EXCEPT ![c] = k]
           /\ k.pc = "failed" /\ k.todo = <<>> /\ k.ok = client[c].ok
<1> DEFINE k == [client[c] EXCEPT !.pc = "failed", !.todo = <<>>, !.token = FALSE]
<1>1. client[c] \in Client /\ <<>> \in Seq(Requests)
  BY DEF TypeOK
<1>2. k \in Client /\ k.pc = "failed" /\ k.todo = <<>> /\ k.ok = client[c].ok
  BY <1>1 DEF Client
<1>3. client' = [client EXCEPT ![c] = k]
  BY DEF Fail
<1> HIDE DEF k
<1> QED BY <1>2, <1>3

LEMMA AdvanceMakes ==
  ASSUME TypeOK, NEW c \in Clients, NEW ok \in BOOLEAN, Advance(c, ok),
         client[c].todo \in Rests \ {<<>>}
  PROVE  \E k \in Client :
           /\ client' = [client EXCEPT ![c] = k]
           /\ k.pc \in {"done", "connect"} /\ k.todo = Tail(client[c].todo) /\ k.ok = ok
           /\ k.pc = "connect" => k.todo # <<>>
<1> DEFINE rest == Tail(client[c].todo)
           k == [pc |-> IF rest = <<>> THEN "done" ELSE "connect", todo |-> rest, token |-> FALSE, ok |-> ok]
<1>1. rest \in Seq(Requests)
  <2>1. rest \in Rests
    BY RestFacts
  <2> QED BY <2>1, RestFacts
<1>2. client' = [client EXCEPT ![c] = k]
  BY DEF Advance
<1>3. rest = Tail(client[c].todo)
  OBVIOUS
<1> HIDE DEF rest
<1>4. /\ k \in Client /\ k.pc \in {"done", "connect"} /\ k.todo = rest /\ k.ok = ok
      /\ k.pc = "connect" => k.todo # <<>>
  BY <1>1 DEF Client
<1> HIDE DEF k
<1> QED BY <1>2, <1>3, <1>4

(* A request goes on its way, with a new connection or on the old one.     *)
LEMMA SendMakes ==
  ASSUME TypeOK, NEW c \in Clients, NEW request \in Requests, NEW session \in BOOLEAN,
         Send(c, request, session)
  PROVE  \E n \in Conn :
           /\ conn' = [conn EXCEPT ![c] = n]
           /\ n.req = request
           /\ conn[c].st = "none" => n.st = "backlog" /\ n.at = path
           /\ conn[c].st # "none" => n.st = conn[c].st /\ n.at = conn[c].at /\ n.auth = conn[c].auth
<1>1. conn[c] \in Conn /\ client[c] \in Client /\ path \in Owners
  BY DEF TypeOK
<1>2. client[c].token \in BOOLEAN
  BY <1>1 DEF Client
<1>3. CASE conn[c].st = "none"
  <2> DEFINE n == [at |-> path, st |-> "backlog", req |-> request, auth |-> client[c].token,
                   session |-> session]
  <2>1. n \in Conn /\ n.req = request /\ n.st = "backlog" /\ n.at = path
    BY <1>1, <1>2 DEF Conn
  <2>2. conn' = [conn EXCEPT ![c] = n]
    BY <1>3 DEF Send
  <2> HIDE DEF n
  <2> QED BY <1>3, <2>1, <2>2
<1>4. CASE conn[c].st # "none"
  <2> DEFINE n == [conn[c] EXCEPT !.req = request]
  <2>1. n \in Conn /\ n.req = request /\ n.st = conn[c].st /\ n.at = conn[c].at /\ n.auth = conn[c].auth
    BY <1>1 DEF Conn
  <2>2. conn' = [conn EXCEPT ![c] = n]
    BY <1>4 DEF Send
  <2> HIDE DEF n
  <2> QED BY <1>4, <2>1, <2>2
<1> QED BY <1>3, <1>4

LEMMA ConnTypes ==
  /\ NoConn \in Conn /\ NoConn.st = "none" /\ NoConn.req = None /\ NoConn.at = None
  /\ \A n \in Conn : /\ Closed(n) \in Conn /\ Closed(n).st = "closed" /\ Closed(n).req = n.req
                     /\ Closed(n).auth = n.auth /\ Closed(n).at = None
                     /\ Closed(n).session = n.session
BY DEF NoConn, Conn, Closed, Owners

LEMMA DaemonTypes ==
  /\ NewDaemon \in Daemon /\ NewDaemon.pc = "unused"
  /\ \A k \in Daemon : \A place \in {"unused", "probe", "unlink", "bind", "serve"} :
       [k EXCEPT !.pc = place] \in Daemon /\ [k EXCEPT !.pc = place].pc = place
BY DEF NewDaemon, Daemon

-----------------------------------------------------------------------------
(***************************************************************************)
(* Types, and one effect per command.                                      *)
(***************************************************************************)
SockInv == TypeOK /\ \A c \in Clients : OnceInv(c)

(* What the other variables must be after a step.                          *)
RestTyped ==
  /\ manager' = manager
  /\ daemon' \in [Daemons -> Daemon]
  /\ path' \in Owners
  /\ startLock' \in [Users -> Clients \cup {None}]
  /\ faults' \in 0..MaxFaults

(* A step of nobody but client c and its connection.                       *)
LEMMA OneClient ==
  ASSUME SockInv, RestTyped, NEW c \in Clients, NEW k \in Client, NEW n \in Conn,
         client' = [client EXCEPT ![c] = k], conn' = [conn EXCEPT ![c] = n],
         executed' \in [Clients -> 0..2], work' \subseteq Daemons \X Clients,
         \A b \in Clients \ {c} : executed'[b] = executed[b],
         \A b \in Clients \ {c} : \A d \in Daemons : <<d, b>> \in work' <=> <<d, b>> \in work,
         client'[c] = k /\ conn'[c] = n => OnceInv(c)'
  PROVE  SockInv'
<1>0. TypeOK
  BY DEF SockInv
<1>1. TypeOK'
  BY <1>0 DEF TypeOK, RestTyped
<1>2. client'[c] = k /\ conn'[c] = n
  BY <1>0 DEF TypeOK
<1>3. \A b \in Clients \ {c} : client'[b] = client[b] /\ conn'[b] = conn[b]
  BY <1>0 DEF TypeOK
<1>4. ASSUME NEW b \in Clients \ {c} PROVE OnceInv(b)'
  <2>1. OnceInv(b)
    BY DEF SockInv
  <2>2. /\ client'[b] = client[b] /\ conn'[b] = conn[b] /\ executed'[b] = executed[b]
        /\ \A d \in Daemons : <<d, b>> \in work' <=> <<d, b>> \in work
    BY <1>3
  <2>3. Unspent(b)' <=> Unspent(b)
    BY <2>2 DEF Unspent
  <2> QED BY <2>1, <2>2, <2>3 DEF OnceInv
<1> QED BY <1>1, <1>2, <1>4 DEF SockInv

(* A client that does not wait, or has its answer, goes on.                *)
LEMMA ClientGoes ==
  ASSUME SockInv, RestTyped, NEW c \in Clients, NEW k \in Client, NEW n \in Conn,
         client' = [client EXCEPT ![c] = k], conn' = [conn EXCEPT ![c] = n],
         UNCHANGED <<executed, work>>,
         k.pc \notin {"idle", "wait"}, k.todo \in Rests, k.pc \in Living => k.todo # <<>>,
         HasEffect(k.todo) => Unspent(c), k.ok => executed[c] = 1,
         n.st \notin {"backlog", "pending", "reply"}, n.st = "read" => n.req = None
  PROVE  SockInv'
<1>0. TypeOK /\ OnceInv(c)
  BY DEF SockInv
<1>1. ASSUME client'[c] = k, conn'[c] = n PROVE OnceInv(c)'
  <2>1. Unspent(c)' => Unspent(c)
    BY <1>1 DEF Unspent
  <2> QED BY <1>0, <1>1, <2>1 DEF OnceInv
<1>2. executed' \in [Clients -> 0..2] /\ work' \subseteq Daemons \X Clients
  BY <1>0 DEF TypeOK
<1> QED BY <1>1, <1>2, OneClient

(* ... where it keeps its connection and what it has to do.                *)
LEMMA ClientMoves ==
  ASSUME SockInv, RestTyped, NEW c \in Clients, NEW place \in Living \ {"wait"}, Goto(c, place),
         client[c].pc \in Living \ {"wait"}, UNCHANGED <<conn, executed, work>>
  PROVE  SockInv'
<1>0. TypeOK /\ OnceInv(c) /\ place \in ClientPlaces
  BY DEF SockInv, ClientPlaces
<1>1. PICK k \in Client :
           /\ client' = [client EXCEPT ![c] = k]
           /\ k.pc = place /\ k.todo = client[c].todo /\ k.token = client[c].token /\ k.ok = client[c].ok
  BY <1>0, GotoMakes, Zenon
<1>2. conn[c] \in Conn /\ conn' = [conn EXCEPT ![c] = conn[c]]
  BY <1>0 DEF TypeOK
<1>3. /\ k.todo \in Rests \ {<<>>} /\ (k.ok => executed[c] = 1)
      /\ conn[c].st \notin {"backlog", "pending", "reply"} /\ (conn[c].st = "read" => conn[c].req = None)
  BY <1>0, <1>1 DEF OnceInv
<1>4. HasEffect(k.todo) => Unspent(c)
  BY <1>1 DEF Unspent
<1>5. k.pc \notin {"idle", "wait"}
  BY <1>1 DEF Living
<1> QED BY <1>1, <1>2, <1>3, <1>4, <1>5, ClientGoes

(* A command fails; if its client waited, its connection is closed.        *)
LEMMA ClientFails ==
  ASSUME SockInv, RestTyped, NEW c \in Clients, Fail(c), UNCHANGED <<executed, work>>,
         \/ conn' = [conn EXCEPT ![c] = NoConn]
         \/ conn' = conn /\ client[c].pc # "wait"
  PROVE  SockInv'
<1>0. TypeOK /\ OnceInv(c)
  BY DEF SockInv
<1>1. PICK k \in Client :
           /\ client' = [client EXCEPT ![c] = k]
           /\ k.pc = "failed" /\ k.todo = <<>> /\ k.ok = client[c].ok
  BY <1>0, FailMakes, Zenon
<1>2. PICK n \in Conn :
        /\ conn' = [conn EXCEPT ![c] = n]
        /\ n.st \notin {"backlog", "pending", "reply"} /\ (n.st = "read" => n.req = None)
  <2>1. CASE conn' = [conn EXCEPT ![c] = NoConn]
    BY <2>1, ConnTypes
  <2>2. CASE conn' = conn /\ client[c].pc # "wait"
    <3>1. conn[c] \in Conn /\ conn' = [conn EXCEPT ![c] = conn[c]]
      BY <1>0, <2>2 DEF TypeOK
    <3>2. conn[c].st \notin {"backlog", "pending", "reply"} /\ (conn[c].st = "read" => conn[c].req = None)
      BY <1>0, <2>2 DEF OnceInv
    <3> QED BY <3>1, <3>2
  <2> QED BY <2>1, <2>2
<1>3. k.todo \in Rests /\ k.pc \notin Living /\ k.pc \notin {"idle", "wait"} /\ ~HasEffect(k.todo)
  BY <1>1, RestFacts DEF Rests, Living
<1>4. k.ok => executed[c] = 1
  BY <1>0, <1>1 DEF OnceInv
<1> QED BY <1>1, <1>2, <1>3, <1>4, ClientGoes

(* It goes on to its next request, unless this one was the effect and is   *)
(* not known to have happened.                                             *)
LEMMA ClientAdvances ==
  ASSUME SockInv, RestTyped, NEW c \in Clients, NEW ok \in BOOLEAN, Advance(c, ok),
         NEW n \in Conn, conn' = [conn EXCEPT ![c] = n], UNCHANGED <<executed, work>>,
         n.st \notin {"backlog", "pending", "reply"}, n.st = "read" => n.req = None,
         client[c].pc \in Living,
         client[c].pc = "wait" => conn[c].req # "probe",
         ok => executed[c] = 1
  PROVE  SockInv'
<1>0. TypeOK /\ OnceInv(c)
  BY DEF SockInv
<1>1. client[c].todo \in Rests \ {<<>>}
  BY <1>0 DEF OnceInv
<1>2. PICK k \in Client :
           /\ client' = [client EXCEPT ![c] = k]
           /\ k.pc \in {"done", "connect"} /\ k.todo = Tail(client[c].todo) /\ k.ok = ok
           /\ k.pc = "connect" => k.todo # <<>>
  BY <1>0, <1>1, AdvanceMakes, Zenon
<1>3. k.todo \in Rests /\ (HasEffect(k.todo) => Head(client[c].todo) = "lease")
  BY <1>1, <1>2, RestFacts
<1>4. HasEffect(k.todo) => Unspent(c)
  <2>1. HasEffect(k.todo) => HasEffect(client[c].todo)
    BY <1>1, <1>2, <1>3 DEF Rests, AllCommands, HasEffect
  <2>2. HasEffect(k.todo) /\ client[c].pc = "wait" => conn[c].req = "lease"
    BY <1>0, <1>3 DEF OnceInv
  <2> QED BY <2>1, <2>2 DEF Unspent, Effective
<1>5. k.pc \notin {"idle", "wait"} /\ (k.pc \in Living => k.todo # <<>>)
  BY <1>2 DEF Living
<1>6. k.ok => executed[c] = 1
  BY <1>2
<1> QED BY <1>2, <1>3, <1>4, <1>5, <1>6, ClientGoes

(* It sends a request and waits.                                           *)
LEMMA ClientSends ==
  ASSUME SockInv, RestTyped, NEW c \in Clients, NEW request \in Requests, NEW session \in BOOLEAN,
         Goto(c, "wait"), Send(c, request, session), client[c].pc \in Living \ {"wait"},
         request \in {Head(client[c].todo), "probe"}, UNCHANGED <<executed, work>>
  PROVE  SockInv'
<1>0. TypeOK /\ OnceInv(c) /\ "wait" \in ClientPlaces
  BY DEF SockInv, ClientPlaces, Living
<1>1. PICK k \in Client :
           /\ client' = [client EXCEPT ![c] = k]
           /\ k.pc = "wait" /\ k.todo = client[c].todo /\ k.token = client[c].token /\ k.ok = client[c].ok
  BY <1>0, GotoMakes, Zenon
<1>2. PICK n \in Conn :
           /\ conn' = [conn EXCEPT ![c] = n]
           /\ n.req = request
           /\ conn[c].st = "none" => n.st = "backlog" /\ n.at = path
           /\ conn[c].st # "none" => n.st = conn[c].st /\ n.at = conn[c].at /\ n.auth = conn[c].auth
  BY <1>0, SendMakes
<1>3. n.st \notin {"pending", "reply"}
  BY <1>0, <1>2 DEF OnceInv
<1>4. ASSUME client'[c] = k, conn'[c] = n PROVE OnceInv(c)'
  <2>1. Unspent(c)' => Unspent(c)
    BY <1>1, <1>4 DEF Unspent, Living
  <2>2. client[c].todo \in Rests \ {<<>>} /\ executed[c] <= 1 /\ (client[c].ok => executed[c] = 1)
    BY <1>0 DEF OnceInv
  <2>3. \A d \in Daemons : <<d, c>> \in work =>
          executed[c] = 0 /\ \A e \in Daemons : <<e, c>> \in work => e = d
    BY <1>0 DEF OnceInv
  <2>4. Unspent(c) => executed[c] = 0 /\ \A d \in Daemons : <<d, c>> \notin work
    BY <1>0 DEF OnceInv
  <2> QED BY <1>1, <1>2, <1>3, <1>4, <2>1, <2>2, <2>3, <2>4 DEF OnceInv
<1>5. executed' \in [Clients -> 0..2] /\ work' \subseteq Daemons \X Clients
  BY <1>0 DEF TypeOK
<1> QED BY <1>1, <1>2, <1>4, <1>5, OneClient

(* The daemon accepts, or closes, a connection.                            *)
LEMMA ConnMoves ==
  ASSUME SockInv, RestTyped, NEW c \in Clients, NEW n \in Conn, conn' = [conn EXCEPT ![c] = n],
         UNCHANGED <<client, executed>>, work' \in SUBSET work,
         \A b \in Clients \ {c} : \A d \in Daemons : <<d, b>> \in work' <=> <<d, b>> \in work,
         n.req = conn[c].req, n.auth = conn[c].auth,
         n.st = "closed" \/ (n.st = "read" /\ conn[c].st = "backlog")
  PROVE  SockInv'
<1>0. TypeOK /\ OnceInv(c)
  BY DEF SockInv
<1>1. client[c] \in Client /\ client' = [client EXCEPT ![c] = client[c]]
  BY <1>0 DEF TypeOK
<1>2. ASSUME client'[c] = client[c], conn'[c] = n PROVE OnceInv(c)'
  <2>1. Unspent(c)' => Unspent(c)
    BY <1>2 DEF Unspent
  <2>2. Unspent(c)' => executed'[c] = 0 /\ \A d \in Daemons : <<d, c>> \notin work'
    BY <1>0, <2>1 DEF OnceInv
  <2>3. \A d \in Daemons : <<d, c>> \in work' =>
          executed[c] = 0 /\ \A e \in Daemons : <<e, c>> \in work' => e = d
    BY <1>0 DEF OnceInv
  <2>4. /\ client[c].todo \in Rests /\ (client[c].pc \in Living => client[c].todo # <<>>)
        /\ client[c].pc = "wait" => conn[c].req \in {Head(client[c].todo), "probe"}
        /\ conn[c].st = "backlog" => client[c].pc = "wait"
        /\ executed[c] <= 1 /\ (client[c].ok => executed[c] = 1)
    BY <1>0 DEF OnceInv
  <2> QED BY <1>2, <2>2, <2>3, <2>4 DEF OnceInv
<1>3. executed' \in [Clients -> 0..2] /\ work' \subseteq Daemons \X Clients
  BY <1>0 DEF TypeOK
<1> QED BY <1>1, <1>2, <1>3, OneClient

(* Connections are closed all at once, and workers gone.                   *)
LEMMA ConnsClosed ==
  ASSUME SockInv, RestTyped, UNCHANGED <<client, executed>>, work' \subseteq work,
         conn' \in [Clients -> Conn],
         \A c \in Clients : conn'[c] = conn[c] \/ conn'[c] = Closed(conn[c])
  PROVE  SockInv'
<1>0. TypeOK
  BY DEF SockInv
<1>1. TypeOK'
  BY <1>0 DEF TypeOK, RestTyped
<1>2. ASSUME NEW c \in Clients PROVE OnceInv(c)'
  <2>0. OnceInv(c) /\ conn[c] \in Conn
    BY <1>0 DEF SockInv, TypeOK
  <2>1. conn'[c] = conn[c] \/ (conn'[c].st = "closed" /\ conn'[c].req = conn[c].req /\ conn'[c].auth = conn[c].auth)
    BY <2>0, ConnTypes
  <2>2. Unspent(c)' => Unspent(c)
    BY <2>1 DEF Unspent
  <2>3. Unspent(c)' => executed'[c] = 0 /\ \A d \in Daemons : <<d, c>> \notin work'
    BY <2>0, <2>2 DEF OnceInv
  <2>4. \A d \in Daemons : <<d, c>> \in work' =>
          /\ executed[c] = 0 /\ \A e \in Daemons : <<e, c>> \in work' => e = d
          /\ conn'[c].st = "pending" => conn'[c].at = d
    BY <2>0, <2>1 DEF OnceInv
  <2>5. /\ client[c].todo \in Rests /\ (client[c].pc \in Living => client[c].todo # <<>>)
        /\ client[c].pc = "wait" => conn[c].req \in {Head(client[c].todo), "probe"}
        /\ conn[c].st \in {"backlog", "pending", "reply"} \/ (conn[c].st = "read" /\ conn[c].req # None)
             => client[c].pc = "wait"
        /\ conn[c].st = "pending" => conn[c].req = "work"
        /\ conn[c].st = "reply" /\ Effective(conn[c].req, conn[c].auth) => executed[c] = 1
        /\ executed[c] <= 1 /\ (client[c].ok => executed[c] = 1)
    BY <2>0 DEF OnceInv
  <2> QED BY <2>1, <2>3, <2>4, <2>5 DEF OnceInv
<1> QED BY <1>1, <1>2 DEF SockInv

(* A request is dispatched: this is where "change" takes effect, and where *)
(* "work" is given to a worker.                                            *)
LEMMA DispatchKeeps ==
  ASSUME SockInv, NEW d \in Daemons, NEW c \in Clients, Dispatch(d, c)
  PROVE  SockInv'
<1>0. TypeOK /\ OnceInv(c) /\ conn[c] \in Conn /\ client[c] \in Client
  BY DEF SockInv, TypeOK
<1> DEFINE n == [conn[c] EXCEPT !.st = IF conn[c].req = "work" THEN "pending" ELSE "reply"]
<1>1. /\ conn[c].at = d /\ conn[c].st = "read" /\ conn[c].req # None
      /\ conn' = [conn EXCEPT ![c] = n]
      /\ work' = IF conn[c].req = "work" THEN work \cup {<<d, c>>} ELSE work
      /\ executed' = IF conn[c].req = "change" /\ conn[c].auth THEN [executed EXCEPT ![c] = @ + 1] ELSE executed
      /\ UNCHANGED <<manager, client, path, startLock, faults>>
  BY DEF Dispatch
<1>2. /\ n \in Conn /\ n.req = conn[c].req /\ n.auth = conn[c].auth /\ n.at = d
      /\ n.st = IF conn[c].req = "work" THEN "pending" ELSE "reply"
  BY <1>0, <1>1 DEF Conn
<1> HIDE DEF n
<1>3. daemon' \in [Daemons -> Daemon]
  <2>1. daemon[d] \in Daemon
    BY <1>0 DEF TypeOK
  <2>2. PICK leases, asked :
          /\ daemon' = [daemon EXCEPT ![d] = [@ EXCEPT !.quiet = FALSE, !.leases = leases, !.asked = asked]]
          /\ leases \in {LiveLeases(daemon[d].leases) \cup {c}, LiveLeases(daemon[d].leases \ {c}),
                         LiveLeases(daemon[d].leases), daemon[d].leases}
          /\ asked \in BOOLEAN
    <3>1. daemon[d].asked \in BOOLEAN
      BY <2>1 DEF Daemon
    <3> DEFINE r == conn[c].req
               leases == CASE r = "lease"    -> LiveLeases(daemon[d].leases) \cup {c}
                           [] r = "release"  -> LiveLeases(daemon[d].leases \ {c})
                           [] r = "shutdown" -> LiveLeases(daemon[d].leases)
                           [] OTHER          -> daemon[d].leases
               asked == daemon[d].asked \/ r = "shutdown"
    <3>2. daemon' = [daemon EXCEPT ![d] = [@ EXCEPT !.quiet = FALSE, !.leases = leases, !.asked = asked]]
      BY <2>1 DEF Dispatch, Daemon
    <3>3. leases \in {LiveLeases(daemon[d].leases) \cup {c}, LiveLeases(daemon[d].leases \ {c}),
                      LiveLeases(daemon[d].leases), daemon[d].leases}
      OBVIOUS
    <3>4. asked \in BOOLEAN
      BY <3>1
    <3> HIDE DEF leases, asked
    <3> QED BY <3>2, <3>3, <3>4
  <2>3. leases \subseteq Clients
    <3>1. daemon[d].leases \subseteq Clients
      BY <2>1 DEF Daemon
    <3> QED BY <2>2, <3>1 DEF LiveLeases
  <2>4. [daemon[d] EXCEPT !.quiet = FALSE, !.leases = leases, !.asked = asked] \in Daemon
    BY <2>1, <2>2, <2>3 DEF Daemon
  <2> QED BY <1>0, <2>2, <2>4 DEF TypeOK
<1>4. RestTyped
  BY <1>0, <1>1, <1>3 DEF RestTyped, TypeOK
<1>5. client[c].pc = "wait" /\ conn[c].req \in {Head(client[c].todo), "probe"} /\ client[c].todo \in Rests \ {<<>>}
  BY <1>0, <1>1 DEF OnceInv, Living
<1>6. Effective(conn[c].req, conn[c].auth) => executed[c] = 0 /\ \A e \in Daemons : <<e, c>> \notin work
  <2>1. conn[c].req \in {"work", "change"} => HasEffect(client[c].todo)
    BY <1>5, RestFacts
  <2>2. conn[c].req \in {"work", "change"} => Unspent(c)
    BY <1>1, <2>1 DEF Unspent
  <2> QED BY <1>0, <2>2 DEF OnceInv, Effective
<1>7. client' = [client EXCEPT ![c] = client[c]]
  BY <1>0, <1>1 DEF TypeOK
<1>8. /\ executed' \in [Clients -> 0..2] /\ \A b \in Clients \ {c} : executed'[b] = executed[b]
      /\ executed'[c] = IF conn[c].req = "change" /\ conn[c].auth THEN executed[c] + 1 ELSE executed[c]
  <2>1. executed \in [Clients -> 0..2]
    BY <1>0 DEF TypeOK
  <2> QED BY <1>1, <1>6, <2>1 DEF Effective
<1>9. /\ work' \subseteq Daemons \X Clients
      /\ \A b \in Clients \ {c} : \A e \in Daemons : <<e, b>> \in work' <=> <<e, b>> \in work
      /\ \A e \in Daemons : <<e, c>> \in work' => <<e, c>> \in work \/ (e = d /\ conn[c].req = "work")
  BY <1>0, <1>1 DEF TypeOK
<1>10. ASSUME client'[c] = client[c], conn'[c] = n PROVE OnceInv(c)'
  <2>1. Unspent(c)' => Unspent(c) /\ ~Effective(conn[c].req, conn[c].auth)
    BY <1>1, <1>2, <1>5, <1>10 DEF Unspent
  <2>2. Unspent(c)' => executed'[c] = 0 /\ \A e \in Daemons : <<e, c>> \notin work'
    BY <1>0, <1>8, <1>9, <2>1 DEF OnceInv, Effective
  <2>3. \A e \in Daemons : <<e, c>> \in work' =>
          /\ executed'[c] = 0
          /\ conn'[c].st = "pending" => conn'[c].at = e
          /\ \A f \in Daemons : <<f, c>> \in work' => f = e
    <3>1. CASE conn[c].req = "work"
      BY <1>2, <1>6, <1>8, <1>9, <1>10, <3>1 DEF Effective
    <3>2. CASE conn[c].req # "work"
      <4>1. \A e \in Daemons : <<e, c>> \in work' => <<e, c>> \in work
        BY <1>9, <3>2
      <4>2. conn'[c].st # "pending"
        BY <1>2, <1>10, <3>2
      <4>3. \A e \in Daemons : <<e, c>> \in work => executed'[c] = 0
        BY <1>0, <1>6, <1>8 DEF OnceInv, Effective
      <4> QED BY <1>0, <4>1, <4>2, <4>3 DEF OnceInv
    <3> QED BY <3>1, <3>2
  <2>4. conn'[c].st = "reply" /\ Effective(conn'[c].req, conn'[c].auth) => executed'[c] = 1
    BY <1>2, <1>6, <1>8, <1>10 DEF Effective
  <2>5. executed'[c] <= 1 /\ (client'[c].ok => executed'[c] = 1)
    BY <1>0, <1>6, <1>8, <1>10 DEF OnceInv, Effective
  <2> QED BY <1>2, <1>5, <1>10, <2>2, <2>3, <2>4, <2>5 DEF OnceInv
<1> QED BY <1>0, <1>1, <1>2, <1>4, <1>7, <1>8, <1>9, <1>10, OneClient

(* A worker ends: this is where "work" takes effect.                       *)
LEMMA WorkerKeeps ==
  ASSUME SockInv, NEW d \in Daemons, NEW c \in Clients, WorkerDone(d, c)
  PROVE  SockInv'
<1>0. TypeOK /\ OnceInv(c) /\ conn[c] \in Conn /\ client[c] \in Client
  BY DEF SockInv, TypeOK
<1>1. /\ <<d, c>> \in work /\ work' = work \ {<<d, c>>}
      /\ executed' = [executed EXCEPT ![c] = @ + 1]
      /\ UNCHANGED <<manager, client, daemon, path, startLock, faults>>
  BY DEF WorkerDone
<1>2. PICK n \in Conn :
        /\ conn' = [conn EXCEPT ![c] = n] /\ n.req = conn[c].req /\ n.auth = conn[c].auth
        /\ n.st # "pending"
        /\ n.st = conn[c].st \/ (n.st = "reply" /\ conn[c].st = "pending")
  <2>1. CASE conn[c].at = d /\ conn[c].st = "pending"
    <3> DEFINE n == [conn[c] EXCEPT !.st = "reply"]
    <3>1. n \in Conn /\ n.req = conn[c].req /\ n.auth = conn[c].auth /\ n.st = "reply"
      BY <1>0 DEF Conn
    <3>2. conn' = [conn EXCEPT ![c] = n]
      BY <2>1 DEF WorkerDone
    <3> HIDE DEF n
    <3> QED BY <2>1, <3>1, <3>2
  <2>2. CASE ~(conn[c].at = d /\ conn[c].st = "pending")
    <3>1. conn' = [conn EXCEPT ![c] = conn[c]]
      BY <1>0, <2>2 DEF WorkerDone, TypeOK
    <3>2. conn[c].st # "pending"
      BY <1>0, <1>1, <2>2 DEF OnceInv
    <3> QED BY <1>0, <3>1, <3>2
  <2> QED BY <2>1, <2>2
<1>3. executed[c] = 0 /\ ~Unspent(c) /\ \A e \in Daemons : <<e, c>> \notin work'
  BY <1>0, <1>1 DEF OnceInv
<1>4. executed' \in [Clients -> 0..2] /\ executed'[c] = 1 /\ \A b \in Clients \ {c} : executed'[b] = executed[b]
  <2>1. executed \in [Clients -> 0..2]
    BY <1>0 DEF TypeOK
  <2> QED BY <1>1, <1>3, <2>1
<1>5. ASSUME client'[c] = client[c], conn'[c] = n PROVE OnceInv(c)'
  <2>1. ~Unspent(c)'
    BY <1>2, <1>3, <1>5 DEF Unspent
  <2>2. /\ client[c].todo \in Rests /\ (client[c].pc \in Living => client[c].todo # <<>>)
        /\ client[c].pc = "wait" => conn[c].req \in {Head(client[c].todo), "probe"}
        /\ conn[c].st \in {"backlog", "pending", "reply"} \/ (conn[c].st = "read" /\ conn[c].req # None)
             => client[c].pc = "wait"
    BY <1>0 DEF OnceInv
  <2> QED BY <1>2, <1>3, <1>4, <1>5, <2>1, <2>2 DEF OnceInv
<1>6. client' = [client EXCEPT ![c] = client[c]] /\ RestTyped
  BY <1>0, <1>1 DEF TypeOK, RestTyped
<1>7. /\ work' \subseteq Daemons \X Clients
      /\ \A b \in Clients \ {c} : \A e \in Daemons : <<e, b>> \in work' <=> <<e, b>> \in work
  BY <1>0, <1>1 DEF TypeOK
<1> QED BY <1>0, <1>2, <1>4, <1>5, <1>6, <1>7, OneClient

LEMMA LeaveKeeps ==
  ASSUME SockInv, NEW d \in Daemons, Leave(d), faults' \in 0..MaxFaults,
         UNCHANGED <<manager, client, startLock, executed>>
  PROVE  SockInv'
<1>0. TypeOK
  BY DEF SockInv
<1>1. RestTyped
  BY <1>0, DaemonTypes DEF Leave, RestTyped, TypeOK, Owners
<1>2. /\ conn' \in [Clients -> Conn] /\ work' \subseteq work
      /\ \A c \in Clients : conn'[c] = conn[c] \/ conn'[c] = Closed(conn[c])
  BY <1>0, ConnTypes DEF Leave, TypeOK
<1> QED BY <1>1, <1>2, ConnsClosed

(* Daemons start, and launchd makes its socket.                            *)
LEMMA OnlyDaemons ==
  ASSUME SockInv, RestTyped, UNCHANGED <<client, conn, work, executed>>
  PROVE  SockInv'
<1>1. conn' \in [Clients -> Conn]
  BY DEF SockInv, TypeOK
<1> QED BY <1>1, ConnsClosed

LEMMA UnlockedType ==
  ASSUME TypeOK, NEW c \in Clients
  PROVE  Unlocked(c) \in [Users -> Clients \cup {None}]
BY DEF TypeOK, Unlocked, Users

LEMMA DaemonGoes ==
  ASSUME TypeOK, NEW d \in Daemons,
         NEW place \in {"unused", "probe", "unlink", "bind", "serve"},
         daemon' = [daemon EXCEPT ![d].pc = place]
  PROVE  /\ daemon' \in [Daemons -> Daemon] /\ daemon'[d].pc = place
         /\ \A e \in Daemons \ {d} : daemon'[e] = daemon[e]
<1>1. daemon[d] \in Daemon
  BY DEF TypeOK
<1> DEFINE k == [daemon[d] EXCEPT !.pc = place]
<1>2. k \in Daemon /\ k.pc = place
  BY <1>1, DaemonTypes
<1>3. daemon' = [daemon EXCEPT ![d] = k]
  OBVIOUS
<1> HIDE DEF k
<1> QED BY <1>2, <1>3 DEF TypeOK

LEMMA SockStep == SockInv /\ [Next]_vars => SockInv'
<1> SUFFICES ASSUME SockInv, [Next]_vars PROVE SockInv'
  OBVIOUS
<1>0. TypeOK /\ \A c \in Clients : OnceInv(c) /\ client[c] \in Client /\ conn[c] \in Conn
  BY DEF SockInv, TypeOK
<1>t. /\ manager' = manager /\ UNCHANGED <<daemon, path>>
         /\ startLock' \in [Users -> Clients \cup {None}] /\ faults' \in 0..MaxFaults
         => RestTyped
  BY <1>0 DEF RestTyped, TypeOK
<1>l. /\ faults \in 0..MaxFaults /\ startLock \in [Users -> Clients \cup {None}] /\ path \in Owners
      /\ daemon \in [Daemons -> Daemon]
      /\ \A c \in Clients : Unlocked(c) \in [Users -> Clients \cup {None}]
      /\ \A c \in Clients : client[c].pc \in Living => client[c].todo \in Rests \ {<<>>}
      /\ \A c \in Clients : client[c].ok \in BOOLEAN
  BY <1>0, UnlockedType DEF TypeOK, OnceInv, Client
<1>1. ASSUME NEW c \in Clients, NEW command \in CommandsOf[c], Begin(c, command) PROVE SockInv'
  <2>1. command \in AllCommands
    BY ControlSocketAssumption
  <2>2. command \in Rests \ {<<>>} /\ command \in Seq(Requests)
    BY <2>1, RestFacts
  <2> DEFINE k == [client[c] EXCEPT !.pc = "connect", !.todo = command]
  <2>3. k \in Client /\ k.pc = "connect" /\ k.todo = command /\ k.ok = client[c].ok
    BY <1>0, <2>2 DEF Client
  <2>4. /\ client[c].pc = "idle" /\ client' = [client EXCEPT ![c] = k]
        /\ UNCHANGED <<manager, conn, daemon, path, work, startLock, executed, faults>>
    BY <1>1 DEF Begin
  <2> HIDE DEF k
  <2>5. Unspent(c) /\ (k.ok => executed[c] = 1)
        /\ conn[c].st \notin {"backlog", "pending", "reply"} /\ (conn[c].st = "read" => conn[c].req = None)
    BY <1>0, <2>3, <2>4 DEF Unspent, OnceInv
  <2>6. conn' = [conn EXCEPT ![c] = conn[c]] /\ RestTyped
    BY <1>0, <1>t, <1>l, <2>4 DEF TypeOK
  <2> QED BY <1>0, <2>2, <2>3, <2>4, <2>5, <2>6, ClientGoes
<1>2. ASSUME NEW c \in Clients, Request(c) PROVE SockInv'
  <2> DEFINE request == Head(client[c].todo)
  <2>1. /\ client[c].pc \in {"connect", "launchd", "once"} /\ Send(c, request, request = "lease")
        /\ Goto(c, "wait") /\ UNCHANGED <<manager, daemon, path, work, startLock, executed, faults>>
    BY <1>2 DEF Request
  <2>2. client[c].pc \in Living \ {"wait"}
    BY <2>1 DEF Living
  <2>3. request \in Requests
    BY <1>l, <2>2, RestFacts
  <2>4. RestTyped
    BY <1>t, <1>l, <2>1
  <2>5. (request = "lease") \in BOOLEAN
    OBVIOUS
  <2>6. request \in {Head(client[c].todo), "probe"}
    OBVIOUS
  <2> HIDE DEF request
  <2> QED BY <2>1, <2>2, <2>3, <2>4, <2>5, <2>6, ClientSends
<1>3. ASSUME NEW c \in Clients, NobodyListens(c) PROVE SockInv'
  <2>1. /\ client[c].pc = "connect" /\ conn[c].st = "none"
        /\ UNCHANGED <<manager, conn, daemon, path, work, startLock, executed, faults>>
        /\ Advance(c, client[c].ok) \/ Goto(c, "launchd") \/ Goto(c, "lock")
    BY <1>3, Zenon DEF NobodyListens
  <2>2. {"launchd", "lock", "connect"} \subseteq Living \ {"wait"}
    BY DEF Living
  <2>3. RestTyped /\ conn' = [conn EXCEPT ![c] = conn[c]]
    BY <1>0, <1>t, <1>l, <2>1 DEF TypeOK
  <2>4. CASE Advance(c, client[c].ok)
    <3>1. client[c].ok => executed[c] = 1
      BY <1>0 DEF OnceInv
    <3>2. client[c].pc \in Living /\ client[c].pc # "wait"
      BY <2>1, <2>2
    <3> QED BY <1>0, <1>l, <2>1, <2>3, <2>4, <3>1, <3>2, ClientAdvances
  <2>5. CASE Goto(c, "launchd") \/ Goto(c, "lock")
    BY <2>1, <2>2, <2>3, <2>5, ClientMoves
  <2> QED BY <2>1, <2>4, <2>5
<1>4. ASSUME NEW c \in Clients, NoSocket(c) PROVE SockInv'
  <2>1. /\ client[c].pc \in {"launchd", "once"} /\ Fail(c)
        /\ UNCHANGED <<manager, conn, daemon, path, work, startLock, executed, faults>>
    BY <1>4, Zenon DEF NoSocket
  <2> QED BY <1>t, <1>l, <2>1, ClientFails
<1>5. ASSUME NEW d \in Daemons, NEW c \in Clients, Respond(d, c) PROVE SockInv'
  <2>1. /\ conn[c].at = d /\ conn[c].st = "reply" /\ UNCHANGED <<manager, daemon, path, work, executed, faults>>
    BY <1>5, Zenon DEF Respond
  <2>2. client[c].pc = "wait" /\ client[c].pc \in Living /\ client[c].todo \in Rests \ {<<>>}
        /\ conn[c].req \in {Head(client[c].todo), "probe"}
    BY <1>0, <2>1 DEF OnceInv, Living
  <2>3. ASSUME NEW place \in {"once", "prompt"}, Goto(c, place), Close(c),
               startLock' \in {startLock, Unlocked(c)},
               conn[c].req = "probe" \/ (conn[c].req = "change" /\ ~conn[c].auth)
        PROVE  SockInv'
    <3>1. place \in ClientPlaces
      BY DEF ClientPlaces, Living
    <3>2. PICK k \in Client :
            /\ client' = [client EXCEPT ![c] = k]
            /\ k.pc = place /\ k.todo = client[c].todo /\ k.token = client[c].token /\ k.ok = client[c].ok
      BY <1>0, <2>3, <3>1, GotoMakes, Zenon
    <3>3. HasEffect(k.todo) => Unspent(c)
      BY <2>3, <3>2 DEF Unspent, Effective
    <3>4. (k.ok => executed[c] = 1) /\ k.todo \in Rests \ {<<>>} /\ k.pc \notin {"idle", "wait"}
      BY <1>0, <2>2, <3>2 DEF OnceInv
    <3>5. RestTyped /\ conn' = [conn EXCEPT ![c] = NoConn]
      BY <1>t, <1>l, <2>1, <2>3 DEF Close
    <3> QED BY <2>1, <3>2, <3>3, <3>4, <3>5, ConnTypes, ClientGoes
  <2>4. CASE /\ conn[c].req # "probe" /\ (conn[c].req = "change" => conn[c].auth)
             /\ Advance(c, client[c].ok \/ conn[c].req \in {"work", "change"})
             /\ conn' = [conn EXCEPT ![c] = IF @.session /\ @.req # "shutdown"
                                            THEN [@ EXCEPT !.st = "read", !.req = None] ELSE NoConn]
             /\ UNCHANGED startLock
    <3>1. PICK ok \in BOOLEAN : ok = (client[c].ok \/ conn[c].req \in {"work", "change"})
      OBVIOUS
    <3>2. ok => executed[c] = 1
      BY <1>0, <2>1, <2>4, <3>1 DEF OnceInv, Effective
    <3>3. PICK n \in Conn : /\ conn' = [conn EXCEPT ![c] = n]
                            /\ n.st \in {"none", "read"} /\ (n.st = "read" => n.req = None)
      <4>1. [conn[c] EXCEPT !.st = "read", !.req = None] \in Conn
            /\ [conn[c] EXCEPT !.st = "read", !.req = None].req = None
            /\ [conn[c] EXCEPT !.st = "read", !.req = None].st = "read"
        BY <1>0 DEF Conn
      <4>2. CASE conn[c].session /\ conn[c].req # "shutdown"
        BY <2>4, <4>1, <4>2
      <4>3. CASE ~(conn[c].session /\ conn[c].req # "shutdown")
        BY <2>4, <4>3, ConnTypes
      <4> QED BY <4>2, <4>3
    <3>4. Advance(c, ok) /\ RestTyped
      BY <1>t, <1>l, <2>1, <2>4, <3>1
    <3> QED BY <2>1, <2>2, <2>4, <3>2, <3>3, <3>4, ClientAdvances
  <2> QED BY <1>5, <2>3, <2>4 DEF Respond
<1>6. ASSUME NEW c \in Clients, Prompted(c) PROVE SockInv'
  <2>1. /\ client[c].pc = "prompt"
        /\ \/ client' = [client EXCEPT ![c] = [@ EXCEPT !.pc = "connect", !.token = TRUE]]
           \/ Fail(c)
        /\ UNCHANGED <<manager, conn, daemon, path, work, startLock, executed, faults>>
    BY <1>6, Zenon DEF Prompted
  <2>2. RestTyped /\ conn' = [conn EXCEPT ![c] = conn[c]]
    BY <1>0, <1>t, <1>l, <2>1 DEF TypeOK
  <2>3. CASE client' = [client EXCEPT ![c] = [@ EXCEPT !.pc = "connect", !.token = TRUE]]
    <3> DEFINE k == [client[c] EXCEPT !.pc = "connect", !.token = TRUE]
    <3>1. k \in Client /\ k.pc = "connect" /\ k.todo = client[c].todo /\ k.ok = client[c].ok
      BY <1>0 DEF Client
    <3>2. client' = [client EXCEPT ![c] = k]
      BY <2>3
    <3> HIDE DEF k
    <3>3. k.todo \in Rests \ {<<>>} /\ (k.ok => executed[c] = 1)
          /\ conn[c].st \notin {"backlog", "pending", "reply"} /\ (conn[c].st = "read" => conn[c].req = None)
      BY <1>0, <2>1, <3>1 DEF OnceInv, Living
    <3>4. HasEffect(k.todo) => Unspent(c)
      BY <2>1, <3>1 DEF Unspent
    <3> QED BY <1>0, <2>1, <2>2, <3>1, <3>2, <3>3, <3>4, ClientGoes
  <2> QED BY <2>1, <2>2, <2>3, ClientFails
<1>7. ASSUME NEW c \in Clients, SeesEof(c) PROVE SockInv'
  <2>1. /\ client[c].pc = "wait" /\ conn[c].st = "closed" /\ startLock' = Unlocked(c)
        /\ UNCHANGED <<manager, daemon, path, work, executed, faults>>
    BY <1>7, Zenon DEF SeesEof
  <2>2. RestTyped /\ client[c].pc \in Living
    BY <1>t, <1>l, <2>1 DEF Living
  <2>3. (client[c].ok => executed[c] = 1) /\ conn[c].req \in {Head(client[c].todo), "probe"}
        /\ client[c].todo \in Rests \ {<<>>}
    BY <1>0, <2>1, <2>2 DEF OnceInv
  <2>4. CASE conn[c].session /\ conn[c].req = "work"
    <3>1. Advance(c, FALSE) /\ conn' = conn
      BY <1>7, <2>4, Zenon DEF SeesEof
    <3>2. conn' = [conn EXCEPT ![c] = conn[c]]
      BY <1>0, <3>1 DEF TypeOK
    <3> QED BY <1>0, <2>1, <2>2, <2>4, <3>1, <3>2, ClientAdvances
  <2>5. CASE ~(conn[c].session /\ conn[c].req = "work")
    <3>1. Close(c)
      BY <1>7, <2>5, Zenon DEF SeesEof
    <3>2. \/ Fail(c) \/ (AtEnd(conn[c].req) /\ (Goto(c, "connect") \/ Advance(c, client[c].ok)))
      <4>1. CASE ~AtEnd(conn[c].req)
        BY <1>7, <2>5, <4>1 DEF SeesEof
      <4>2. CASE AtEnd(conn[c].req) /\ conn[c].session
        BY <1>7, <2>5, <4>2 DEF SeesEof
      <4>3. CASE AtEnd(conn[c].req) /\ ~conn[c].session
        BY <1>7, <2>5, <4>3 DEF SeesEof
      <4> QED BY <4>1, <4>2, <4>3
    <3>3. conn' = [conn EXCEPT ![c] = NoConn]
      BY <3>1 DEF Close
    <3>4. CASE Fail(c)
      BY <2>1, <2>2, <3>3, <3>4, ClientFails
    <3>5. CASE AtEnd(conn[c].req) /\ Advance(c, client[c].ok)
      <4>1. conn[c].req # "probe"
        BY <3>5 DEF AtEnd
      <4> QED BY <1>l, <2>1, <2>2, <2>3, <3>3, <3>5, <4>1, ConnTypes, ClientAdvances
    <3>6. CASE AtEnd(conn[c].req) /\ Goto(c, "connect")
      <4>1. "connect" \in ClientPlaces
        BY DEF ClientPlaces, Living
      <4>2. PICK k \in Client :
              /\ client' = [client EXCEPT ![c] = k]
              /\ k.pc = "connect" /\ k.todo = client[c].todo /\ k.token = client[c].token /\ k.ok = client[c].ok
        BY <1>0, <3>6, <4>1, GotoMakes, Zenon
      <4>3. HasEffect(k.todo) => Unspent(c)
        BY <3>6, <4>2 DEF Unspent, Effective, AtEnd
      <4> QED BY <2>1, <2>2, <2>3, <3>3, <4>2, <4>3, ConnTypes, ClientGoes
    <3> QED BY <3>2, <3>4, <3>5, <3>6
  <2> QED BY <2>4, <2>5
<1>8. ASSUME NEW c \in Clients, ClientKilled(c) PROVE SockInv'
  <2>1. /\ Fail(c) /\ Fault /\ conn' = [conn EXCEPT ![c] = NoConn] /\ startLock' = Unlocked(c)
        /\ UNCHANGED <<manager, daemon, path, work, executed>>
    BY <1>8, Zenon DEF ClientKilled
  <2>2. RestTyped
    BY <1>0, <1>t, <1>l, <2>1, FaultType
  <2> QED BY <2>1, <2>2, ClientFails
<1>9. ASSUME NEW c \in Clients, TakeStartLock(c) PROVE SockInv'
  <2>1. /\ client[c].pc = "lock" /\ UNCHANGED <<manager, conn, daemon, path, work, executed, faults>>
        /\ Goto(c, "once") \/ Goto(c, "start")
        /\ startLock' \in {startLock, [startLock EXCEPT ![UserOf[c]] = c]}
    BY <1>9, Zenon DEF TakeStartLock
  <2>2. startLock' \in [Users -> Clients \cup {None}]
    BY <1>l, <2>1 DEF Users
  <2>3. {"once", "start", "lock"} \subseteq Living \ {"wait"}
    BY DEF Living
  <2>4. RestTyped
    BY <1>t, <1>l, <2>1, <2>2
  <2> QED BY <2>1, <2>3, <2>4, ClientMoves
<1>10. ASSUME NEW c \in Clients, StartLockTimesOut(c) PROVE SockInv'
  <2>1. /\ client[c].pc = "lock" /\ Fail(c)
        /\ UNCHANGED <<manager, conn, daemon, path, work, startLock, executed, faults>>
    BY <1>10, Zenon DEF StartLockTimesOut
  <2> QED BY <1>t, <1>l, <2>1, ClientFails
<1>11. ASSUME NEW c \in Clients, SpawnDaemon(c) PROVE SockInv'
  <2>1. client[c].pc = "start" /\ UNCHANGED <<manager, conn, path, work, executed, faults>>
    BY <1>11, Zenon DEF SpawnDaemon
  <2>2. CASE Fail(c) /\ startLock' = Unlocked(c) /\ UNCHANGED daemon
    BY <1>t, <1>l, <2>1, <2>2, ClientFails
  <2>3. ASSUME NEW d \in Daemons, daemon' = [daemon EXCEPT ![d].pc = "probe"], Goto(c, "ready"),
               UNCHANGED startLock
        PROVE  SockInv'
    <3>1. daemon' \in [Daemons -> Daemon]
      BY <1>0, <2>3, DaemonGoes
    <3>2. RestTyped
      BY <1>l, <2>1, <2>3, <3>1 DEF RestTyped
    <3>3. {"ready", "start"} \subseteq Living \ {"wait"}
      BY DEF Living
    <3> QED BY <2>1, <2>3, <3>2, <3>3, ClientMoves
  <2> QED BY <1>11, <2>2, <2>3, Zenon DEF SpawnDaemon
<1>12. ASSUME NEW c \in Clients, ProbeReady(c) PROVE SockInv'
  <2>1. /\ client[c].pc = "ready" /\ Send(c, "probe", FALSE) /\ Goto(c, "wait")
        /\ UNCHANGED <<manager, daemon, path, work, startLock, executed, faults>>
    BY <1>12, Zenon DEF ProbeReady
  <2>2. "ready" \in Living \ {"wait"} /\ "probe" \in Requests /\ RestTyped
    BY <1>t, <1>l, <2>1 DEF Living, Requests
  <2> QED BY <2>1, <2>2, ClientSends
<1>13. ASSUME NEW c \in Clients, NotReady(c) PROVE SockInv'
  <2>1. /\ client[c].pc = "ready" /\ Fail(c) /\ startLock' = Unlocked(c)
        /\ UNCHANGED <<manager, conn, daemon, path, work, executed, faults>>
    BY <1>13, Zenon DEF NotReady
  <2> QED BY <1>t, <1>l, <2>1, ClientFails
<1>14. ASSUME NEW d \in Daemons, LaunchdStarts(d) \/ ProbeSocket(d) \/ UnlinkStale(d) \/ BindSocket(d)
       PROVE  SockInv'
  <2>1. UNCHANGED <<manager, client, conn, work, startLock, executed, faults>>
    BY <1>14, Zenon DEF LaunchdStarts, ProbeSocket, UnlinkStale, BindSocket
  <2>2. daemon' = [daemon EXCEPT ![d] = NewDaemon]
        \/ \E place \in {"unused", "unlink", "bind", "serve"} : daemon' = [daemon EXCEPT ![d].pc = place]
    BY <1>14 DEF LaunchdStarts, ProbeSocket, UnlinkStale, BindSocket, StartServing
  <2>3. daemon' \in [Daemons -> Daemon]
    BY <1>0, <1>l, <2>2, DaemonGoes, DaemonTypes
  <2>4. path' \in Owners
    BY <1>l, <1>14 DEF LaunchdStarts, ProbeSocket, UnlinkStale, BindSocket, Owners
  <2> QED BY <1>l, <2>1, <2>3, <2>4, OnlyDaemons DEF RestTyped
<1>15. ASSUME NEW d \in Daemons, NEW c \in Clients, Accept(d, c) \/ Deadline(d, c) PROVE SockInv'
  <2>1. UNCHANGED <<manager, client, daemon, path, work, startLock, executed, faults>>
    BY <1>15, Zenon DEF Accept, Deadline
  <2>2. PICK n \in Conn : /\ conn' = [conn EXCEPT ![c] = n] /\ n.req = conn[c].req /\ n.auth = conn[c].auth
                          /\ n.st = "closed" \/ (n.st = "read" /\ conn[c].st = "backlog")
    <3>1. CASE conn' = [conn EXCEPT ![c] = Closed(@)]
      BY <1>0, <3>1, ConnTypes
    <3>2. CASE conn' = [conn EXCEPT ![c] = [@ EXCEPT !.at = d, !.st = "read"]] /\ conn[c].st = "backlog"
      <4> DEFINE n == [conn[c] EXCEPT !.at = d, !.st = "read"]
      <4>1. n \in Conn /\ n.req = conn[c].req /\ n.auth = conn[c].auth /\ n.st = "read"
        BY <1>0 DEF Conn, Owners
      <4>2. conn' = [conn EXCEPT ![c] = n]
        BY <3>2
      <4> HIDE DEF n
      <4> QED BY <3>2, <4>1, <4>2
    <3> QED BY <1>15, <3>1, <3>2 DEF Accept, Deadline, Backlog
  <2>3. RestTyped /\ work' \in SUBSET work
    BY <1>t, <1>l, <2>1
  <2> QED BY <2>1, <2>2, <2>3, ConnMoves
<1>16. ASSUME NEW d \in Daemons, NEW c \in Clients, WorkerPanics(d, c) PROVE SockInv'
  <2>1. /\ Fault /\ work' = work \ {<<d, c>>}
        /\ UNCHANGED <<manager, client, daemon, path, startLock, executed>>
        /\ conn' = conn \/ conn' = [conn EXCEPT ![c] = Closed(@)]
    BY <1>16, Zenon DEF WorkerPanics
  <2>2. conn' \in [Clients -> Conn] /\ \A b \in Clients : conn'[b] = conn[b] \/ conn'[b] = Closed(conn[b])
    BY <1>0, <2>1, ConnTypes DEF TypeOK
  <2>3. RestTyped /\ work' \subseteq work
    BY <1>0, <1>t, <1>l, <2>1, FaultType
  <2> QED BY <2>1, <2>2, <2>3, ConnsClosed
<1>17. ASSUME NEW d \in Daemons, IdleTimeout(d) PROVE SockInv'
  <2>1. daemon' = [daemon EXCEPT ![d].quiet = TRUE]
        /\ UNCHANGED <<manager, client, conn, path, work, startLock, executed, faults>>
    BY <1>17, Zenon DEF IdleTimeout
  <2>2. daemon' \in [Daemons -> Daemon]
    <3>1. daemon[d] \in Daemon
      BY <1>l
    <3>2. [daemon[d] EXCEPT !.quiet = TRUE] \in Daemon
      BY <3>1 DEF Daemon
    <3> QED BY <1>l, <2>1, <3>2
  <2> QED BY <1>l, <2>1, <2>2, OnlyDaemons DEF RestTyped
<1>18. ASSUME NEW d \in Daemons, Exit(d) PROVE SockInv'
  BY <1>l, <1>18, LeaveKeeps DEF Exit
<1>19. ASSUME NEW d \in Daemons, Crash(d) PROVE SockInv'
  <2>1. faults' \in 0..MaxFaults
    BY <1>0, <1>19, FaultType DEF Crash
  <2> QED BY <1>19, <2>1, LeaveKeeps DEF Crash
<1>20. CASE LaunchdUnloads
  <2>1. /\ path' = None /\ daemon' = [d \in Daemons |-> NewDaemon] /\ work' = {} /\ Fault
        /\ conn' = [c \in Clients |-> IF conn[c].st # "none" THEN Closed(conn[c]) ELSE conn[c]]
        /\ UNCHANGED <<manager, client, startLock, executed>>
    BY <1>20, Zenon DEF LaunchdUnloads
  <2>2. conn' \in [Clients -> Conn] /\ \A b \in Clients : conn'[b] = conn[b] \/ conn'[b] = Closed(conn[b])
    BY <1>0, <2>1, ConnTypes DEF TypeOK
  <2>3. RestTyped
    BY <1>0, <1>l, <2>1, FaultType, DaemonTypes DEF RestTyped, Owners
  <2> QED BY <2>1, <2>2, <2>3, ConnsClosed
<1>21. CASE LaunchdLoads
  BY <1>l, <1>21, OnlyDaemons DEF LaunchdLoads, RestTyped, Owners
<1>22. CASE UNCHANGED vars
  BY <1>l, <1>22, OnlyDaemons DEF vars, RestTyped
<1>23. ASSUME NEW c \in Clients, ClientStep(c) PROVE SockInv'
  BY <1>2, <1>3, <1>4, <1>7, <1>9, <1>10, <1>11, <1>12, <1>13, <1>23, Zenon DEF ClientStep
<1>24. ASSUME NEW d \in Daemons, DaemonStep(d) PROVE SockInv'
  BY <1>5, <1>14, <1>15, <1>24, DispatchKeeps, Zenon DEF DaemonStep
<1> QED BY <1>1, <1>6, <1>8, <1>15, <1>16, <1>17, <1>18, <1>19, <1>20, <1>21, <1>22, <1>23, <1>24,
           WorkerKeeps, Zenon DEF Next

(* Neither a request nor the idle timeout makes a daemon go elsewhere.     *)
LEMMA DispatchPlaces ==
  ASSUME TypeOK, NEW d \in Daemons, NEW c \in Clients, Dispatch(d, c)
  PROVE  \A e \in Daemons : daemon'[e].pc = daemon[e].pc
<1>1. daemon \in [Daemons -> Daemon] /\ daemon[d] \in Daemon
  BY DEF TypeOK
<1>2. PICK leases, asked : daemon' = [daemon EXCEPT ![d] = [@ EXCEPT !.quiet = FALSE, !.leases = leases,
                                                                    !.asked = asked]]
  BY Zenon DEF Dispatch
<1> DEFINE k == [daemon[d] EXCEPT !.quiet = FALSE, !.leases = leases, !.asked = asked]
<1>3. k.pc = daemon[d].pc
  BY <1>1 DEF Daemon
<1>4. daemon' = [daemon EXCEPT ![d] = k]
  BY <1>2
<1> HIDE DEF k
<1> QED BY <1>1, <1>3, <1>4

LEMMA IdlePlaces ==
  ASSUME TypeOK, NEW d \in Daemons, IdleTimeout(d)
  PROVE  \A e \in Daemons : daemon'[e].pc = daemon[e].pc
<1>1. daemon \in [Daemons -> Daemon] /\ daemon[d] \in Daemon
  BY DEF TypeOK
<1>2. daemon' = [daemon EXCEPT ![d].quiet = TRUE]
  BY Zenon DEF IdleTimeout
<1> DEFINE k == [daemon[d] EXCEPT !.quiet = TRUE]
<1>3. k.pc = daemon[d].pc
  BY <1>1 DEF Daemon
<1>4. daemon' = [daemon EXCEPT ![d] = k]
  BY <1>2
<1> HIDE DEF k
<1> QED BY <1>1, <1>3, <1>4

-----------------------------------------------------------------------------
(***************************************************************************)
(* What holds without any assumption about users and starts.               *)
(***************************************************************************)
LEMMA SockInit == Init => SockInv
<1> SUFFICES ASSUME Init PROVE SockInv
  OBVIOUS
<1> DEFINE k == [pc |-> "idle", todo |-> <<>>, token |-> FALSE, ok |-> FALSE]
<1>1. k \in Client /\ k.pc = "idle" /\ k.todo = <<>> /\ k.ok = FALSE
  BY DEF Client
<1>2. /\ client = [c \in Clients |-> k] /\ conn = [c \in Clients |-> NoConn]
      /\ daemon = [d \in Daemons |-> NewDaemon] /\ work = {} /\ executed = [c \in Clients |-> 0]
      /\ startLock = [u \in Users |-> None] /\ faults = MaxFaults /\ manager \in Managers
  BY DEF Init
<1> HIDE DEF k
<1>3. MaxFaults \in 0..MaxFaults
  BY ControlSocketAssumption
<1>4. path \in Owners
  BY DEF Init, Owners
<1>5. TypeOK
  BY <1>1, <1>2, <1>3, <1>4, ConnTypes, DaemonTypes DEF TypeOK
<1>6. ASSUME NEW c \in Clients PROVE OnceInv(c)
  <2>1. client[c] = k /\ conn[c] = NoConn /\ executed[c] = 0
    BY <1>2
  <2>2. k.pc \notin Living /\ k.pc # "wait" /\ k.todo \in Rests
    BY <1>1 DEF Living, Rests
  <2> QED BY <1>1, <1>2, <2>1, <2>2, ConnTypes DEF OnceInv, Effective
<1> QED BY <1>5, <1>6 DEF SockInv

LEMMA SockAlways == Spec => []SockInv
<1> QED BY SockInit, SockStep, PTL DEF Spec

(* send_on_stream, send_with_admin_auth_retry: whatever is lost or late, a *)
(* request takes effect at most once, and did so if its client was told,   *)
(* for any clients, managers, limits and faults.                           *)
THEOREM EffectsAtMostOnce == Spec => []OnceAtMost
<1>1. SockInv => OnceAtMost
  BY DEF SockInv, OnceInv, OnceAtMost
<1> QED BY <1>1, SockAlways, PTL

(* Only the exit check ends a daemon that serves, faults aside.            *)
LEMMA ExitStep ==
  ASSUME SockInv, Next, NEW d \in Daemons, Serving(d), daemon'[d].pc # "serve", faults' = faults
  PROVE  Exit(d)
<1>0. TypeOK /\ daemon \in [Daemons -> Daemon] /\ daemon[d].pc = "serve" /\ ~Fault
  <2>1. faults \in Nat /\ MaxFaults \in Nat
    BY ControlSocketAssumption DEF SockInv, TypeOK
  <2> QED BY <2>1 DEF SockInv, TypeOK, Serving, Fault
<1>1. daemon' # daemon
  BY <1>0
<1>2. ASSUME NEW c \in Clients PROVE ~SpawnDaemon(c)
  <2>1. ASSUME NEW e \in Daemons, daemon[e].pc = "unused", daemon' = [daemon EXCEPT ![e].pc = "probe"]
        PROVE  FALSE
    BY <1>0, <2>1
  <2> QED BY <1>1, <2>1, Zenon DEF SpawnDaemon
<1>3. ASSUME NEW c \in Clients, ClientStep(c) PROVE FALSE
  BY <1>1, <1>2, <1>3, Zenon DEF ClientStep, Request, NobodyListens, NoSocket, SeesEof, TakeStartLock,
     StartLockTimesOut, ProbeReady, NotReady
<1>4. ASSUME NEW e \in Daemons, DaemonStep(e) PROVE FALSE
  <2>1. ASSUME LaunchdStarts(e) PROVE FALSE
    BY <1>0, <2>1 DEF LaunchdStarts, StartServing
  <2>2. ASSUME ProbeSocket(e) PROVE FALSE
    <3>1. daemon[e].pc = "probe" /\ e # d
      BY <1>0, <2>2 DEF ProbeSocket
    <3>2. daemon'[d] = daemon[d]
      BY <1>0, <2>2, <3>1 DEF ProbeSocket
    <3> QED BY <1>0, <3>2
  <2>3. ASSUME UnlinkStale(e) PROVE FALSE
    BY <1>0, <2>3 DEF UnlinkStale
  <2>4. ASSUME BindSocket(e) PROVE FALSE
    BY <1>0, <2>4 DEF BindSocket, StartServing
  <2>5. ASSUME NEW c \in Clients, Dispatch(e, c) PROVE FALSE
    <3>1. \A b \in Daemons : daemon'[b].pc = daemon[b].pc
      BY <1>0, <2>5, DispatchPlaces
    <3> QED BY <1>0, <3>1
  <2> QED BY <1>1, <1>4, <2>1, <2>2, <2>3, <2>4, <2>5, Zenon DEF DaemonStep, Accept, Respond
<1>5. ASSUME NEW e \in Daemons, IdleTimeout(e) PROVE FALSE
  BY <1>0, <1>5, IdlePlaces
<1>6. ASSUME NEW e \in Daemons, NEW c \in Clients,
             WorkerDone(e, c) \/ WorkerPanics(e, c) \/ Deadline(e, c)
      PROVE  FALSE
  BY <1>1, <1>6, Zenon DEF WorkerDone, WorkerPanics, Deadline
<1>7. ASSUME NEW e \in Daemons, Exit(e) PROVE Exit(d)
  <2>1. CASE e = d
    BY <1>7, <2>1
  <2>2. CASE e # d
    BY <1>0, <1>7, <2>2 DEF Exit, Leave
  <2> QED BY <2>1, <2>2
<1>8. ASSUME NEW e \in Daemons, Crash(e) PROVE FALSE
  BY <1>0, <1>8, Zenon DEF Crash
<1>9. ~LaunchdUnloads /\ ~LaunchdLoads
  BY <1>0, <1>1, Zenon DEF LaunchdUnloads, LaunchdLoads
<1>10. ASSUME NEW c \in Clients, Prompted(c) \/ ClientKilled(c) \/ \E command \in CommandsOf[c] : Begin(c, command)
       PROVE  FALSE
  BY <1>1, <1>10, Zenon DEF Prompted, ClientKilled, Begin
<1> QED BY <1>3, <1>4, <1>5, <1>6, <1>7, <1>8, <1>9, <1>10, Zenon DEF Next

(* socket::serve, should_exit_now: a daemon that stops to serve without a  *)
(* fault exits of its own accord, and its exit check has seen that no      *)
(* client waits for one of its workers and, unless it was idle, that no    *)
(* live lease is left.                                                     *)
THEOREM ExitsHarmNobody == Spec => ExitHarmsNobody
<1>1. SockInv /\ [Next]_vars =>
        /\ [\A d \in Daemons : Serving(d) /\ daemon'[d].pc # "serve" /\ faults' = faults
             => \A c \in Clients : <<d, c>> \in work => client[c].pc # "wait" \/ conn[c].st # "pending"]_vars
        /\ [\A d \in Daemons : Serving(d) /\ daemon'[d].pc # "serve" /\ faults' = faults
                               /\ ~daemon[d].quiet
             => LiveLeases(daemon[d].leases) = {}]_vars
  <2> SUFFICES ASSUME SockInv, Next, NEW d \in Daemons,
                      Serving(d), daemon'[d].pc # "serve", faults' = faults
               PROVE  /\ \A c \in Clients : <<d, c>> \in work => conn[c].st # "pending"
                      /\ daemon[d].quiet \/ LiveLeases(daemon[d].leases) = {}
    OBVIOUS
  <2>1. ClientsOf(d) = {} /\ (daemon[d].quiet \/ LiveLeases(daemon[d].leases) = {})
    BY ExitStep, Zenon DEF Exit
  <2>2. ASSUME NEW c \in Clients, <<d, c>> \in work, conn[c].st = "pending" PROVE FALSE
    <3>1. conn[c].at = d
      BY <2>2 DEF SockInv, OnceInv
    <3> QED BY <2>1, <2>2, <3>1 DEF ClientsOf
  <2> QED BY <2>1, <2>2
<1> QED BY <1>1, SockAlways, PTL DEF Spec, ExitHarmsNobody, ExitLeavesNobody, LeaseHoldsDaemon

-----------------------------------------------------------------------------
(***************************************************************************)
(* One daemon at a time, when the clients are of one user, who have one    *)
(* startup lock, and wait for a daemon as long as it takes to start.       *)
(***************************************************************************)
OneStarter == SlowStart = FALSE /\ \A b, c \in Clients : UserOf[b] = UserOf[c]

LEMMA ManagerKinds == ASSUME TypeOK PROVE manager \in {"launchd", "sudo"}
BY ControlSocketAssumption DEF TypeOK

LEMMA Names == None \notin Clients \cup Daemons /\ "launchd" \notin Daemons /\ "stale" \notin Daemons
              /\ None # "launchd" /\ None # "stale"
BY ControlSocketAssumption

LEMMA UnlockedOthers ==
  ASSUME TypeOK, NEW b \in Clients, NEW c \in Clients, b # c, startLock[UserOf[b]] = b
  PROVE  Unlocked(c)[UserOf[b]] = b
<1>1. startLock \in [Users -> Clients \cup {None}] /\ UserOf[b] \in Users /\ UserOf[c] \in Users
  BY DEF TypeOK, Users
<1> QED BY <1>1 DEF Unlocked

(* A client goes elsewhere, but not to start a daemon and not away from    *)
(* one that it waits for.                                                  *)
LEMMA StartClient ==
  ASSUME TypeOK, StartInv, NEW c \in Clients, NEW k \in Client, client' = [client EXCEPT ![c] = k],
         UNCHANGED <<manager, daemon, path>>, startLock' \in {startLock, Unlocked(c)},
         k.pc \notin {"start", "ready"}, k.pc = "lock" => manager = "sudo",
         manager = "sudo" /\ client[c].pc = "ready" => \A d \in Daemons : ~IsStarting(d)
  PROVE  StartInv'
<1>1. /\ client'[c] = k /\ \A b \in Clients \ {c} : client'[b] = client[b]
      /\ \A d \in Daemons : daemon'[d] = daemon[d] /\ (IsStarting(d)' <=> IsStarting(d)) /\ (Serving(d)' <=> Serving(d))
  BY DEF TypeOK, IsStarting, Serving
<1>2. CASE manager = "launchd"
  BY <1>1, <1>2 DEF StartInv, LaunchdInv
<1>3. CASE manager = "sudo"
  <2>0. SudoInv
    BY <1>3 DEF StartInv
  <2>1. ASSUME NEW d \in Daemons, IsStarting(d)
        PROVE  \E b \in Clients : client'[b].pc = "ready"
    <3>1. PICK b \in Clients : client[b].pc = "ready"
      BY <2>0, <2>1 DEF SudoInv
    <3>2. b # c
      BY <1>3, <2>1, <3>1
    <3> QED BY <1>1, <3>1, <3>2
  <2>2. ASSUME NEW b \in Clients, client'[b].pc \in {"start", "ready"}
        PROVE  /\ startLock'[UserOf[b]] = b
               /\ client'[b].pc = "start" => \A d \in Daemons : daemon'[d].pc = "unused"
    <3>1. b # c /\ client[b].pc = client'[b].pc
      BY <1>1, <2>2
    <3>2. startLock[UserOf[b]] = b
      BY <2>0, <2>2, <3>1 DEF SudoInv
    <3>3. startLock'[UserOf[b]] = b
      BY <3>1, <3>2, UnlockedOthers
    <3> QED BY <1>1, <2>0, <3>1, <3>3 DEF SudoInv
  <2>3. SudoInv'
    BY <1>1, <2>0, <2>1, <2>2 DEF SudoInv
  <2> QED BY <1>3, <2>3 DEF StartInv
<1> QED BY <1>2, <1>3, ManagerKinds

(* A client that fails or goes to a place, as above.                       *)
LEMMA StartGoes ==
  ASSUME TypeOK, StartInv, NEW c \in Clients,
         Fail(c) \/ \E place \in {"connect", "wait", "prompt", "launchd", "once"} : Goto(c, place),
         UNCHANGED <<manager, daemon, path>>, startLock' \in {startLock, Unlocked(c)},
         manager = "sudo" /\ client[c].pc = "ready" => \A d \in Daemons : ~IsStarting(d)
  PROVE  StartInv'
<1>1. CASE Fail(c)
  <2>1. PICK k \in Client : client' = [client EXCEPT ![c] = k] /\ k.pc = "failed"
    BY <1>1, FailMakes
  <2> QED BY <2>1, StartClient
<1>2. ASSUME NEW place \in {"connect", "wait", "prompt", "launchd", "once"}, Goto(c, place) PROVE StartInv'
  <2>1. place \in ClientPlaces
    BY DEF ClientPlaces, Living
  <2>2. PICK k \in Client : client' = [client EXCEPT ![c] = k] /\ k.pc = place
    BY <1>2, <2>1, GotoMakes
  <2> QED BY <2>2, StartClient
<1> QED BY <1>1, <1>2

LEMMA StartAdvances ==
  ASSUME SockInv, StartInv, NEW c \in Clients, NEW ok \in BOOLEAN, Advance(c, ok), client[c].pc \in Living,
         UNCHANGED <<manager, daemon, path>>, startLock' \in {startLock, Unlocked(c)},
         manager = "sudo" /\ client[c].pc = "ready" => \A d \in Daemons : ~IsStarting(d)
  PROVE  StartInv'
<1>1. TypeOK /\ client[c].todo \in Rests \ {<<>>}
  BY DEF SockInv, OnceInv
<1>2. PICK k \in Client : client' = [client EXCEPT ![c] = k] /\ k.pc \in {"done", "connect"}
  BY <1>1, AdvanceMakes
<1> QED BY <1>1, <1>2, StartClient

(* Nothing that matters to a start.                                        *)
LEMMA StartSame ==
  ASSUME TypeOK, StartInv, UNCHANGED <<manager, client, path, startLock>>,
         \A d \in Daemons : daemon'[d].pc = daemon[d].pc
  PROVE  StartInv'
<1>1. \A d \in Daemons : (IsStarting(d)' <=> IsStarting(d)) /\ (Serving(d)' <=> Serving(d))
  BY DEF IsStarting, Serving
<1>2. CASE manager = "launchd"
  BY <1>1, <1>2 DEF StartInv, LaunchdInv
<1>3. CASE manager = "sudo"
  BY <1>1, <1>3 DEF StartInv, SudoInv
<1> QED BY <1>2, <1>3, ManagerKinds

(* A daemon that serves or a path that leads to one excludes any start.    *)
LEMMA ServingAlone ==
  ASSUME TypeOK, StartInv, manager = "sudo", Listening \/ \E d \in Daemons : Serving(d)
  PROVE  \A d \in Daemons : ~IsStarting(d)
<1>1. PICK e \in Daemons : Serving(e)
  BY DEF StartInv, SudoInv, Listening, Serving
<1> QED BY <1>1 DEF StartInv, SudoInv, Serving, IsStarting, StartPlaces

LEMMA WaitsForStart ==
  ASSUME TypeOK, StartInv, OneStarter, NEW c \in Clients, GivesUpWaiting(c),
         manager = "sudo", client[c].pc = "ready"
  PROVE  \A d \in Daemons : ~IsStarting(d)
BY DEF StartInv, SudoInv, OneStarter, GivesUpWaiting, StartingUp, IsStarting, StartPlaces

LEMMA LeaveStart ==
  ASSUME TypeOK, StartInv, NEW d \in Daemons, Leave(d), UNCHANGED <<manager, client, startLock>>
  PROVE  StartInv'
<1>1. /\ daemon'[d].pc = "unused" /\ \A e \in Daemons \ {d} : daemon'[e] = daemon[e]
      /\ path' = IF path = d THEN "stale" ELSE path
  BY DaemonTypes DEF Leave, TypeOK
<1>2. /\ ~IsStarting(d)' /\ ~Serving(d)'
      /\ \A e \in Daemons \ {d} : (IsStarting(e)' <=> IsStarting(e)) /\ (Serving(e)' <=> Serving(e))
  BY <1>1 DEF IsStarting, Serving, StartPlaces
<1>3. CASE manager = "launchd"
  BY <1>1, <1>2, <1>3, Names DEF StartInv, LaunchdInv
<1>4. CASE manager = "sudo"
  <2>0. SudoInv
    BY <1>4 DEF StartInv
  <2>1. path' # "launchd" /\ \A e \in Daemons : Serving(e)' <=> path' = e
    BY <1>1, <1>2, <2>0, Names DEF SudoInv
  <2>2. \A e \in Daemons : daemon[e].pc = "unused" => daemon'[e].pc = "unused"
    BY <1>1
  <2>3. SudoInv'
    BY <1>1, <1>2, <2>0, <2>1, <2>2 DEF SudoInv
  <2> QED BY <1>4, <2>3 DEF StartInv
<1> QED BY <1>3, <1>4, ManagerKinds

LEMMA TakesLock ==
  ASSUME TypeOK, StartInv, OneStarter, NEW c \in Clients, TakeStartLock(c)
  PROVE  StartInv'
<1>1. /\ client[c].pc = "lock" /\ startLock[UserOf[c]] = None
      /\ UNCHANGED <<manager, conn, daemon, path, work, executed, faults>>
  BY Zenon DEF TakeStartLock
<1>2. CASE Listening
  BY <1>1, <1>2, StartGoes DEF TakeStartLock
<1>3. CASE ~Listening
  <2>0. manager = "sudo" /\ SudoInv
    BY <1>1, ManagerKinds DEF StartInv, LaunchdInv
  <2>1. Goto(c, "start") /\ startLock' = [startLock EXCEPT ![UserOf[c]] = c]
    BY <1>3, Zenon DEF TakeStartLock
  <2>2. "start" \in ClientPlaces
    BY DEF ClientPlaces, Living
  <2>3. PICK k \in Client : client' = [client EXCEPT ![c] = k] /\ k.pc = "start"
    BY <2>1, <2>2, GotoMakes
  <2>4. client'[c].pc = "start" /\ \A b \in Clients \ {c} : client'[b] = client[b]
    BY <2>3 DEF TypeOK
  <2>5. \A b \in Clients : client[b].pc \notin {"start", "ready"}
    <3>1. ASSUME NEW b \in Clients, client[b].pc \in {"start", "ready"} PROVE FALSE
      <4>1. startLock[UserOf[b]] = b /\ UserOf[b] = UserOf[c]
        BY <2>0, <3>1 DEF SudoInv, OneStarter
      <4> QED BY <1>1, <4>1, Names
    <3> QED BY <3>1
  <2>6. \A d \in Daemons : daemon[d].pc = "unused"
    <3>1. ASSUME NEW d \in Daemons PROVE daemon[d].pc = "unused"
      <4>1. daemon[d].pc \in {"unused", "serve"} \cup StartPlaces
        BY DEF TypeOK, Daemon, StartPlaces
      <4>2. ~IsStarting(d)
        BY <2>0, <2>5 DEF SudoInv
      <4>3. ~Serving(d)
        BY <1>3, <2>0 DEF SudoInv, Listening
      <4> QED BY <4>1, <4>2, <4>3 DEF IsStarting, Serving
    <3> QED BY <3>1
  <2>7. startLock'[UserOf[c]] = c
    BY <2>1 DEF TypeOK, Users
  <2>8. \A d \in Daemons : daemon'[d].pc = "unused" /\ ~IsStarting(d)' /\ ~Serving(d)' /\ path' # d
    BY <1>1, <2>0, <2>6 DEF IsStarting, StartPlaces, Serving, SudoInv
  <2>9. SudoInv'
    BY <1>1, <2>0, <2>4, <2>5, <2>7, <2>8 DEF SudoInv
  <2> QED BY <1>1, <2>0, <2>9 DEF StartInv
<1> QED BY <1>2, <1>3

LEMMA SpawnStart ==
  ASSUME TypeOK, StartInv, OneStarter, NEW c \in Clients, SpawnDaemon(c)
  PROVE  StartInv'
<1>1. client[c].pc = "start" /\ UNCHANGED <<manager, conn, path, work, executed, faults>>
  BY Zenon DEF SpawnDaemon
<1>2. CASE Fail(c) /\ startLock' = Unlocked(c) /\ UNCHANGED daemon
  BY <1>1, <1>2, StartGoes
<1>3. ASSUME NEW d \in Daemons, daemon' = [daemon EXCEPT ![d].pc = "probe"], Goto(c, "ready"),
             UNCHANGED startLock
      PROVE  StartInv'
  <2>0. manager = "sudo" /\ SudoInv
    BY <1>1, ManagerKinds DEF StartInv, LaunchdInv
  <2>1. daemon'[d].pc = "probe" /\ \A e \in Daemons \ {d} : daemon'[e] = daemon[e]
    BY <1>3, DaemonGoes
  <2>2. "ready" \in ClientPlaces
    BY DEF ClientPlaces, Living
  <2>3. PICK k \in Client : client' = [client EXCEPT ![c] = k] /\ k.pc = "ready"
    BY <1>3, <2>2, GotoMakes
  <2>4. client'[c].pc = "ready" /\ \A b \in Clients \ {c} : client'[b] = client[b]
    BY <2>3 DEF TypeOK
  <2>5. \A b \in Clients : client[b].pc = "start" => b = c
    BY <1>1, <2>0 DEF SudoInv, OneStarter
  <2>6. \A e \in Daemons : daemon[e].pc = "unused" /\ ~Serving(e) /\ path # e
    BY <1>1, <2>0 DEF SudoInv, Serving
  <2>7. \A e \in Daemons : ~Serving(e)' /\ (IsStarting(e)' => e = d) /\ (e # d => daemon'[e].pc = "unused")
    BY <2>1, <2>6 DEF Serving, IsStarting, StartPlaces
  <2>8. SudoInv'
    BY <1>1, <1>3, <2>0, <2>4, <2>5, <2>6, <2>7 DEF SudoInv
  <2> QED BY <1>1, <2>0, <2>8 DEF StartInv
<1> QED BY <1>2, <1>3, Zenon DEF SpawnDaemon

(* The steps of a daemon that starts.                                      *)
LEMMA StartingStep ==
  ASSUME TypeOK, StartInv, NEW d \in Daemons, ProbeSocket(d) \/ UnlinkStale(d) \/ BindSocket(d)
  PROVE  StartInv'
<1>1. IsStarting(d) /\ UNCHANGED <<manager, client, conn, work, startLock, executed, faults>>
  BY DEF ProbeSocket, UnlinkStale, BindSocket, IsStarting, StartPlaces
<1>2. manager = "sudo" /\ SudoInv
  BY <1>1, ManagerKinds DEF StartInv, LaunchdInv
<1>3. /\ \A e \in Daemons \ {d} : daemon[e].pc = "unused"
      /\ \E c \in Clients : client[c].pc = "ready"
      /\ \A c \in Clients : client[c].pc # "start"
      /\ \A e \in Daemons : path # e
  BY <1>1, <1>2 DEF SudoInv, IsStarting, StartPlaces, Serving
<1>4. \A e \in Daemons \ {d} : daemon'[e] = daemon[e]
  BY DEF ProbeSocket, UnlinkStale, BindSocket, StartServing, TypeOK
<1>5. \/ path' \in {path, None} /\ daemon'[d].pc # "serve"
      \/ path' = d /\ daemon'[d].pc = "serve"
  <2>1. CASE ProbeSocket(d)
    <3>1. PICK place \in {"unused", "unlink", "bind"} : daemon' = [daemon EXCEPT ![d].pc = place]
      <4> DEFINE place == CASE path = None -> "bind" [] Listening -> "unused" [] OTHER -> "unlink"
      <4>1. place \in {"unused", "unlink", "bind"}
        OBVIOUS
      <4>2. daemon' = [daemon EXCEPT ![d].pc = place]
        BY <2>1 DEF ProbeSocket
      <4> HIDE DEF place
      <4> QED BY <4>1, <4>2
    <3> QED BY <2>1, <3>1, DaemonGoes DEF ProbeSocket
  <2>2. CASE UnlinkStale(d)
    BY <2>2, DaemonGoes DEF UnlinkStale
  <2>3. CASE BindSocket(d)
    <3>1. CASE path = None
      BY <2>3, <3>1, DaemonGoes DEF BindSocket, StartServing
    <3>2. CASE path # None
      BY <2>3, <3>2, DaemonTypes DEF BindSocket, TypeOK
    <3> QED BY <3>1, <3>2
  <2> QED BY <2>1, <2>2, <2>3
<1>6. \A e \in Daemons \ {d} : ~IsStarting(e)' /\ ~Serving(e)' /\ daemon'[e].pc = "unused"
  BY <1>3, <1>4 DEF IsStarting, StartPlaces, Serving
<1>7. path' # "launchd" /\ \A e \in Daemons : Serving(e)' <=> path' = e
  BY <1>2, <1>3, <1>5, <1>6, Names DEF Serving, SudoInv
<1>8. SudoInv'
  BY <1>1, <1>2, <1>3, <1>6, <1>7 DEF SudoInv
<1> QED BY <1>1, <1>2, <1>8 DEF StartInv

LEMMA StartStep ==
  ASSUME OneStarter, SockInv, StartInv, [Next]_vars
  PROVE  StartInv'
<1>0. TypeOK /\ \A c \in Clients : OnceInv(c) /\ client[c] \in Client
  BY DEF SockInv, TypeOK
<1>1. ASSUME NEW c \in Clients, NEW command \in CommandsOf[c], Begin(c, command) PROVE StartInv'
  <2>1. PICK k \in Client : client' = [client EXCEPT ![c] = k] /\ k.pc = "connect"
    <3> DEFINE k == [client[c] EXCEPT !.pc = "connect", !.todo = command]
    <3>1. command \in Seq(Requests)
      <4>1. command \in AllCommands
        BY ControlSocketAssumption
      <4> QED BY <4>1, RestFacts
    <3>2. k \in Client /\ k.pc = "connect"
      BY <1>0, <3>1 DEF Client
    <3>3. client' = [client EXCEPT ![c] = k]
      BY <1>1 DEF Begin
    <3> HIDE DEF k
    <3> QED BY <3>2, <3>3
  <2>2. client[c].pc = "idle" /\ UNCHANGED <<manager, conn, daemon, path, work, startLock, executed, faults>>
    BY <1>1, Zenon DEF Begin
  <2> QED BY <1>0, <2>1, <2>2, StartClient
<1>2. ASSUME NEW c \in Clients, Request(c) PROVE StartInv'
  <2>1. /\ client[c].pc \in {"connect", "launchd", "once"} /\ Goto(c, "wait")
        /\ UNCHANGED <<manager, daemon, path, work, startLock, executed, faults>>
    BY <1>2, Zenon DEF Request
  <2> QED BY <1>0, <2>1, StartGoes
<1>3. ASSUME NEW c \in Clients, NobodyListens(c) PROVE StartInv'
  <2>1. /\ client[c].pc = "connect" /\ UNCHANGED <<manager, conn, daemon, path, work, startLock, executed, faults>>
        /\ Advance(c, client[c].ok) \/ Goto(c, "launchd") \/ (Goto(c, "lock") /\ manager # "launchd")
    BY <1>3, Zenon DEF NobodyListens
  <2>2. CASE Advance(c, client[c].ok)
    BY <1>0, <2>1, <2>2, StartAdvances DEF Living, Client
  <2>3. CASE Goto(c, "launchd")
    BY <1>0, <2>1, <2>3, StartGoes
  <2>4. CASE Goto(c, "lock") /\ manager # "launchd"
    <3>1. "lock" \in ClientPlaces /\ manager = "sudo"
      BY <1>0, <2>4, ManagerKinds DEF ClientPlaces, Living
    <3>2. PICK k \in Client : client' = [client EXCEPT ![c] = k] /\ k.pc = "lock"
      BY <1>0, <2>4, <3>1, GotoMakes
    <3> QED BY <1>0, <2>1, <3>1, <3>2, StartClient
  <2> QED BY <2>1, <2>2, <2>3, <2>4
<1>4. ASSUME NEW c \in Clients, NoSocket(c) PROVE StartInv'
  <2>1. /\ client[c].pc \in {"launchd", "once"} /\ Fail(c)
        /\ UNCHANGED <<manager, conn, daemon, path, work, startLock, executed, faults>>
    BY <1>4, Zenon DEF NoSocket
  <2> QED BY <1>0, <2>1, StartGoes
<1>5. ASSUME NEW d \in Daemons, NEW c \in Clients, Respond(d, c) PROVE StartInv'
  <2>1. /\ Serving(d) /\ conn[c].st = "reply" /\ UNCHANGED <<manager, daemon, path, work, executed, faults>>
        /\ startLock' = startLock \/ startLock' = Unlocked(c)
        /\ \/ Goto(c, "once") \/ Goto(c, "prompt")
           \/ Advance(c, client[c].ok \/ conn[c].req \in {"work", "change"})
    BY <1>5, Zenon DEF Respond
  <2>2. client[c].pc = "wait" /\ client[c].pc \in Living
    BY <1>0, <2>1 DEF OnceInv, Living
  <2>3. CASE Goto(c, "once") \/ Goto(c, "prompt")
    BY <1>0, <2>1, <2>2, <2>3, StartGoes
  <2>4. CASE Advance(c, client[c].ok \/ conn[c].req \in {"work", "change"})
    <3>1. PICK ok \in BOOLEAN : ok = (client[c].ok \/ conn[c].req \in {"work", "change"})
      OBVIOUS
    <3>2. Advance(c, ok)
      BY <2>4, <3>1
    <3> QED BY <2>1, <2>2, <3>2, StartAdvances
  <2> QED BY <2>1, <2>3, <2>4
<1>6. ASSUME NEW c \in Clients, Prompted(c) PROVE StartInv'
  <2>1. /\ client[c].pc = "prompt"
        /\ UNCHANGED <<manager, conn, daemon, path, work, startLock, executed, faults>>
        /\ \/ client' = [client EXCEPT ![c] = [@ EXCEPT !.pc = "connect", !.token = TRUE]]
           \/ Fail(c)
    BY <1>6, Zenon DEF Prompted
  <2>2. CASE Fail(c)
    BY <1>0, <2>1, <2>2, StartGoes
  <2>3. CASE client' = [client EXCEPT ![c] = [@ EXCEPT !.pc = "connect", !.token = TRUE]]
    <3> DEFINE k == [client[c] EXCEPT !.pc = "connect", !.token = TRUE]
    <3>1. k \in Client /\ k.pc = "connect"
      BY <1>0 DEF Client
    <3>2. client' = [client EXCEPT ![c] = k]
      BY <2>3
    <3> HIDE DEF k
    <3> QED BY <1>0, <2>1, <3>1, <3>2, StartClient
  <2> QED BY <2>1, <2>2, <2>3
<1>7. ASSUME NEW c \in Clients, SeesEof(c) PROVE StartInv'
  <2>1. /\ client[c].pc = "wait" /\ UNCHANGED <<manager, daemon, path, work, executed, faults>>
        /\ startLock' = Unlocked(c)
        /\ Advance(c, FALSE) \/ Fail(c) \/ Goto(c, "connect") \/ Advance(c, client[c].ok)
    BY <1>7, Zenon DEF SeesEof
  <2>2. client[c].pc \in Living /\ client[c].ok \in BOOLEAN
    BY <1>0, <2>1 DEF Living, Client
  <2>3. CASE Advance(c, FALSE) \/ Advance(c, client[c].ok)
    BY <2>1, <2>2, <2>3, StartAdvances
  <2>4. CASE Fail(c) \/ Goto(c, "connect")
    BY <1>0, <2>1, <2>4, StartGoes
  <2> QED BY <2>1, <2>3, <2>4
<1>8. ASSUME NEW c \in Clients, ClientKilled(c) \/ NotReady(c) PROVE StartInv'
  <2>1. /\ GivesUpWaiting(c) /\ Fail(c) /\ startLock' = Unlocked(c) /\ UNCHANGED <<manager, daemon, path>>
    BY <1>8, Zenon DEF ClientKilled, NotReady
  <2> QED BY <1>0, <2>1, StartGoes, WaitsForStart
<1>9. ASSUME NEW c \in Clients, StartLockTimesOut(c) PROVE StartInv'
  <2>1. /\ client[c].pc = "lock" /\ Fail(c)
        /\ UNCHANGED <<manager, conn, daemon, path, work, startLock, executed, faults>>
    BY <1>9, Zenon DEF StartLockTimesOut
  <2> QED BY <1>0, <2>1, StartGoes
<1>10. ASSUME NEW c \in Clients, ProbeReady(c) PROVE StartInv'
  <2>1. /\ Listening /\ Goto(c, "wait")
        /\ UNCHANGED <<manager, daemon, path, work, startLock, executed, faults>>
    BY <1>10, Zenon DEF ProbeReady
  <2> QED BY <1>0, <2>1, StartGoes, ServingAlone
<1>11. ASSUME NEW d \in Daemons, LaunchdStarts(d) PROVE StartInv'
  <2>1. /\ path = "launchd" /\ \A e \in Daemons : ~Serving(e)
        /\ daemon' = [daemon EXCEPT ![d].pc = "serve"]
        /\ UNCHANGED <<manager, client, conn, path, work, startLock, executed, faults>>
    BY <1>11, Zenon DEF LaunchdStarts, StartServing
  <2>2. manager = "launchd" /\ LaunchdInv
    BY <1>0, <2>1, ManagerKinds DEF StartInv, SudoInv
  <2>3. daemon'[d].pc = "serve" /\ \A e \in Daemons \ {d} : daemon'[e] = daemon[e]
    BY <1>0, <2>1, DaemonGoes
  <2>4. \A e \in Daemons : ~IsStarting(e)' /\ (Serving(e)' => e = d)
    BY <2>1, <2>2, <2>3 DEF LaunchdInv, IsStarting, StartPlaces, Serving
  <2>5. LaunchdInv'
    BY <2>1, <2>2, <2>4 DEF LaunchdInv
  <2> QED BY <2>1, <2>2, <2>5 DEF StartInv
<1>12. ASSUME NEW d \in Daemons, NEW c \in Clients,
              Accept(d, c) \/ WorkerDone(d, c) \/ WorkerPanics(d, c) \/ Deadline(d, c)
       PROVE  StartInv'
  <2>1. UNCHANGED <<manager, client, daemon, path, startLock>>
    BY <1>12, Zenon DEF Accept, WorkerDone, WorkerPanics, Deadline
  <2> QED BY <1>0, <2>1, StartSame
<1>13. ASSUME NEW d \in Daemons, NEW c \in Clients, Dispatch(d, c) PROVE StartInv'
  <2>1. UNCHANGED <<manager, client, path, startLock>>
    BY <1>13, Zenon DEF Dispatch
  <2> QED BY <1>0, <1>13, <2>1, DispatchPlaces, StartSame
<1>14. ASSUME NEW d \in Daemons, IdleTimeout(d) PROVE StartInv'
  <2>1. UNCHANGED <<manager, client, path, startLock>>
    BY <1>14, Zenon DEF IdleTimeout
  <2> QED BY <1>0, <1>14, <2>1, IdlePlaces, StartSame
<1>15. ASSUME NEW d \in Daemons, Exit(d) \/ Crash(d) PROVE StartInv'
  <2>1. Leave(d) /\ UNCHANGED <<manager, client, startLock>>
    BY <1>15, Zenon DEF Exit, Crash
  <2> QED BY <1>0, <2>1, LeaveStart
<1>16. CASE LaunchdUnloads
  <2>1. /\ path = "launchd" /\ path' = None /\ daemon' = [d \in Daemons |-> NewDaemon]
        /\ UNCHANGED <<manager, client, startLock>>
    BY <1>16, Zenon DEF LaunchdUnloads
  <2>2. manager = "launchd" /\ LaunchdInv
    BY <1>0, <2>1, ManagerKinds DEF StartInv, SudoInv
  <2>3. \A e \in Daemons : ~IsStarting(e)' /\ ~Serving(e)'
    BY <2>1, DaemonTypes DEF IsStarting, StartPlaces, Serving
  <2>4. LaunchdInv'
    BY <2>1, <2>2, <2>3 DEF LaunchdInv
  <2> QED BY <2>1, <2>2, <2>4 DEF StartInv
<1>17. CASE LaunchdLoads
  <2>1. manager = "launchd" /\ path' = "launchd" /\ UNCHANGED <<manager, client, daemon>> /\ LaunchdInv
    BY <1>17 DEF LaunchdLoads, StartInv
  <2>2. LaunchdInv'
    BY <2>1 DEF LaunchdInv, IsStarting, Serving
  <2> QED BY <2>1, <2>2 DEF StartInv
<1>18. CASE UNCHANGED vars
  BY <1>0, <1>18, StartSame DEF vars
<1>19. ASSUME NEW c \in Clients, ClientStep(c) PROVE StartInv'
  BY <1>0, <1>2, <1>3, <1>4, <1>7, <1>8, <1>9, <1>10, <1>19, TakesLock, SpawnStart, Zenon DEF ClientStep
<1>20. ASSUME NEW d \in Daemons, DaemonStep(d) PROVE StartInv'
  BY <1>0, <1>5, <1>11, <1>12, <1>13, <1>20, StartingStep, Zenon DEF DaemonStep
<1> QED BY <1>1, <1>6, <1>8, <1>12, <1>14, <1>15, <1>16, <1>17, <1>18, <1>19, <1>20, Zenon DEF Next

LEMMA StartInit == Init => StartInv
<1> SUFFICES ASSUME Init PROVE StartInv
  OBVIOUS
<1>1. TypeOK
  BY SockInit DEF SockInv
<1>2. /\ \A c \in Clients : client[c].pc = "idle"
      /\ \A d \in Daemons : daemon[d].pc = "unused"
      /\ manager = "launchd" => path = "launchd"
      /\ manager = "sudo" => path \in {None, "stale"}
  BY DaemonTypes DEF Init
<1>3. \A d \in Daemons : ~IsStarting(d) /\ ~Serving(d)
  BY <1>2 DEF IsStarting, StartPlaces, Serving
<1>4. manager = "launchd" => LaunchdInv
  BY <1>2, <1>3 DEF LaunchdInv
<1>5. manager = "sudo" => SudoInv
  BY <1>2, <1>3, Names DEF SudoInv
<1> QED BY <1>4, <1>5 DEF StartInv

(* privileged::serve, "refusing to start a duplicate", autostart_daemon,   *)
(* wait_for_launchd_socket: there is never a second daemon and none takes  *)
(* the path from launchd.  The startup lock is a user's own, and a client  *)
(* waits only so long for the daemon it started: with two users, or with a *)
(* daemon that starts for longer, two starts can overlap, so the theorem   *)
(* is about one user and starts within the wait.                           *)
THEOREM OneDaemonServes ==
  ASSUME SlowStart = FALSE, \A b, c \in Clients : UserOf[b] = UserOf[c]
  PROVE  Spec => []SocketInv
<1>0. OneStarter
  BY DEF OneStarter
<1>1. SockInv /\ StartInv /\ [Next]_vars => StartInv'
  BY <1>0, StartStep
<1>2. SockInv /\ StartInv => SocketInv
  <2> SUFFICES ASSUME SockInv, StartInv PROVE SocketInv
    OBVIOUS
  <2>1. TypeOK /\ manager \in {"launchd", "sudo"}
    BY ManagerKinds DEF SockInv
  <2>2. CASE manager = "launchd"
    BY <2>1, <2>2 DEF StartInv, LaunchdInv, SocketInv, OneDaemon, PathIsLaunchds
  <2>3. CASE manager = "sudo"
    BY <2>1, <2>3 DEF StartInv, SudoInv, SocketInv, OneDaemon, PathIsLaunchds
  <2> QED BY <2>1, <2>2, <2>3
<1> QED BY <1>1, <1>2, SockAlways, StartInit, PTL DEF Spec
=============================================================================
