------------------------- MODULE Registration_proofs -------------------------
(***************************************************************************)
(* Theorems about Registration for any connections, process identifiers,   *)
(* sequences of commands and events, and failures.                         *)
(***************************************************************************)
EXTENDS Registration, TLAPS

(* Where an `install` or a `reload` may be, from its end to its beginning: *)
(* the job is registered and strays are gone, it is loaded, enabled, has   *)
(* its plist, and an installation has its parts.                           *)
Registered == {"socket", "list", "agent", "reconnect", "mine", "disconnect mine", "done"} \cup InAgentInstall
Registering == {"ps", "reap"} \cup Registered
Enabled == {"bootstrap"} \cup Registering
Planned == {"bootout", "enable"} \cup Enabled
Prepared == {"plist"} \cup Planned
InstallPlaces == {"binary", "group", "right", "failed"} \cup Prepared

(* What an installation has done when it is there.                         *)
InstallsInv ==
  Installs =>
    /\ admin.pc \in InstallPlaces /\ admin.back \in {"done", "reconnect"}
    /\ admin.pc \in {"group", "right"} \cup Prepared => "binary" \in setup
    /\ admin.pc \in {"right"} \cup Prepared => "group" \in setup
    /\ admin.pc \in Prepared => "right" \in setup
    /\ admin.pc \in Planned => job.plist
    /\ admin.pc \in Enabled => ~job.disabled
    /\ admin.pc \in Registering => job.loaded
    /\ admin.pc = "reap" => \A p \in Live : p \in admin.snap \/ daemon[p].kind = "launchd"
    /\ admin.pc \in Registered => \A p \in Live : daemon[p].kind = "launchd"

Removes == admin.cmd \in {"uninstall", "purge"}
Swept == {"bootout", "disable", "ps", "reap", "remove", "clean", "done"}
RemovePlaces == FirstSweep \cup Uninstalling \cup {"remove agent", "agent gone", "done", "failed"}

(* A removal that met no failure: what is up is late, or on the list of    *)
(* the second sweep.                                                       *)
RemovesInv ==
  Removes =>
    /\ admin.pc \in RemovePlaces
    /\ admin.pc \in {"remove agent", "agent gone"} => admin.cmd = "purge"
    /\ ~admin.faulty /\ admin.pc = "disconnect2" => up \subseteq late \cup admin.todo
    /\ ~admin.faulty /\ admin.pc \in Swept => up \subseteq late

(* No command runs past a logout, the agent has been told to go, and what  *)
(* it is not about to end it had no chance to.                             *)
SessionInv ==
  /\ ~session => /\ admin.pc \in Rest /\ ~agent.loaded
                 /\ agent.pc \in {"list", "connect", "wait"} => agent.term
  /\ agent.pc = "disconnect" => agent.term /\ up \cap Mine \subseteq kept \cup agent.todo
  /\ ~session /\ agent.pc = "off" => up \cap Mine \subseteq kept

RegistrationInv == TypeOK /\ InstallsInv /\ RemovesInv /\ SessionInv


-----------------------------------------------------------------------------
(***************************************************************************)
(* Types.                                                                  *)
(***************************************************************************)

(* The places of the commands by name.                                     *)
LEMMA PlaceNames ==
  /\ Rest \subseteq Places /\ InAgentInstall \subseteq Places /\ Uninstalling \subseteq Places
  /\ {"idle", "done", "failed", "list1", "disconnect1", "list2", "disconnect2", "bootout", "disable",
      "ps", "reap", "remove", "clean", "agent plist", "agent out", "agent wait", "agent enable",
      "agent boot"} \subseteq Places
  /\ {"binary", "group", "right", "plist", "enable", "bootstrap", "socket", "list", "agent",
      "reconnect", "mine", "disconnect mine", "kickstart", "remove agent", "agent gone",
      "connect"} \subseteq Places
BY DEF Places, Rest, InAgentInstall, FirstSweep, Uninstalling

(* A command's record with another place, list or failure.                 *)
LEMMA AdminMoves ==
  ASSUME NEW a \in Admin, NEW place \in Places
  PROVE  LET b == [a EXCEPT !.pc = place]
         IN  /\ b \in Admin /\ b.pc = place /\ b.cmd = a.cmd /\ b.back = a.back
             /\ b.todo = a.todo /\ b.snap = a.snap /\ b.faulty = a.faulty
BY DEF Admin

LEMMA AdminFails ==
  ASSUME NEW a \in Admin, NEW place \in Places
  PROVE  LET b == [a EXCEPT !.pc = place, !.faulty = TRUE]
         IN  /\ b \in Admin /\ b.pc = place /\ b.cmd = a.cmd /\ b.back = a.back
             /\ b.todo = a.todo /\ b.snap = a.snap /\ b.faulty = TRUE
BY DEF Admin

LEMMA AdminTicksOff ==
  ASSUME NEW a \in Admin, NEW c
  PROVE  /\ LET b == [a EXCEPT !.todo = @ \ {c}]
            IN  /\ b \in Admin /\ b.pc = a.pc /\ b.cmd = a.cmd /\ b.back = a.back
                /\ b.todo = a.todo \ {c} /\ b.snap = a.snap /\ b.faulty = a.faulty
         /\ LET b == [a EXCEPT !.todo = @ \ {c}, !.faulty = TRUE]
            IN  /\ b \in Admin /\ b.pc = a.pc /\ b.cmd = a.cmd /\ b.back = a.back
                /\ b.todo = a.todo \ {c} /\ b.snap = a.snap /\ b.faulty = TRUE
BY DEF Admin

(* The constants, and the fields of the records.                           *)
LEMMA AdminTypes ==
  ASSUME TypeOK
  PROVE  /\ admin \in Admin /\ admin.cmd \in AllCommands \cup {"none"} /\ admin.pc \in Places
         /\ admin.back \in Places /\ admin.todo \subseteq Conns /\ admin.snap \subseteq Pids
         /\ admin.faulty \in BOOLEAN
BY DEF TypeOK, Admin

LEMMA AgentTypes ==
  ASSUME TypeOK
  PROVE  /\ agent \in Agent /\ agent.plist \in BOOLEAN /\ agent.loaded \in BOOLEAN
         /\ agent.disabled \in BOOLEAN /\ agent.term \in BOOLEAN /\ agent.todo \subseteq Conns
         /\ agent.pc \in {"off", "list", "connect", "wait", "disconnect"}
BY DEF TypeOK, Agent

-----------------------------------------------------------------------------
(***************************************************************************)
(* What does not disturb the parts of the invariant.                       *)
(***************************************************************************)

(* A failure that is counted.                                              *)
LEMMA FaultTypes ==
  ASSUME TypeOK, Fault
  PROVE  faults' \in 0..MaxFaults
<1>1. MaxFaults \in Nat /\ faults \in 0..MaxFaults
  BY RegistrationAssumption DEF TypeOK
<1> QED BY <1>1 DEF Fault

LEMMA NoAnswerTypes ==
  ASSUME TypeOK, NoAnswer
  PROVE  faults' \in 0..MaxFaults
<1>1. CASE Reachable \/ job.fresh BY <1>1, FaultTypes DEF NoAnswer
<1>2. CASE ~(Reachable \/ job.fresh) BY <1>2, Zenon DEF NoAnswer, TypeOK
<1> QED BY <1>1, <1>2

LEMMA HappensTypes ==
  ASSUME TypeOK, NEW e, Happens(e)
  PROVE  events' \in 0..MaxEvents
<1>1. MaxEvents \in Nat /\ events \in 0..MaxEvents
  BY RegistrationAssumption DEF TypeOK
<1> QED BY <1>1 DEF Happens

(* No command does anything, the job stays as it is, and there is at most  *)
(* another daemon of launchd.                                              *)
LEMMA InstallsKept ==
  ASSUME InstallsInv, admin' = admin, setup \subseteq setup',
         job'.plist = job.plist, job'.loaded = job.loaded, job'.disabled = job.disabled,
         \A p \in Pids : daemon'[p].kind \in {daemon[p].kind, "dead", "launchd"}
  PROVE  InstallsInv'
<1> USE DEF Installs
<1>1. SUFFICES ASSUME Installs PROVE InstallsInv'
  BY DEF InstallsInv
<1>2. admin.pc = "reap" => \A p \in Live' : p \in admin.snap \/ daemon'[p].kind = "launchd"
  BY <1>1 DEF InstallsInv, Live
<1>3. admin.pc \in Registered => \A p \in Live' : daemon'[p].kind = "launchd"
  BY <1>1 DEF InstallsInv, Live
<1> QED BY <1>1, <1>2, <1>3 DEF InstallsInv

(* No command does anything, and what comes up is late.                    *)
LEMMA RemovesKept ==
  ASSUME RemovesInv, admin' = admin, late \subseteq late',
         admin.pc \in Uninstalling \cup {"done"} => \A c \in up' : c \in up \/ c \in late'
  PROVE  RemovesInv'
<1> USE DEF Removes
<1>1. admin.pc = "disconnect2" \/ admin.pc \in Swept => admin.pc \in Uninstalling \cup {"done"}
  BY DEF Swept, Uninstalling
<1> QED BY <1>1 DEF RemovesInv

(* The agent does nothing, and what comes up past its time is kept.        *)
LEMMA SessionKept ==
  ASSUME SessionInv, session' = session, agent' = agent, session \/ admin'.pc \in Rest,
         kept \subseteq kept',
         agent.pc \in {"disconnect", "off"} => \A c \in up' : c \in up \/ c \in kept'
  PROVE  SessionInv'
BY DEF SessionInv, Rest

(* A tunnel that comes up.                                                 *)
LEMMA RaiseKeeps ==
  ASSUME NEW conns, Raise(conns)
  PROVE  /\ late \subseteq late' /\ kept \subseteq kept'
         /\ admin.pc \in Uninstalling \cup {"done"} => \A c \in up' : c \in up \/ c \in late'
         /\ agent.pc \in {"disconnect", "off"} => \A c \in up' : c \in up \/ c \in kept'
<1>1. late' = IF admin.pc \in Uninstalling \cup {"done"} THEN late \cup (conns \ up) ELSE late
  BY Zenon DEF Raise
<1>2. kept' = IF agent.pc \in {"disconnect", "off"} THEN kept \cup conns ELSE kept
  BY Zenon DEF Raise
<1>3. up' = up \cup conns
  BY Zenon DEF Raise
<1> QED BY <1>1, <1>2, <1>3

LEMMA RaiseTypes ==
  ASSUME TypeOK, NEW conns \in SUBSET Conns, Raise(conns)
  PROVE  up' \subseteq Conns /\ late' \subseteq Conns /\ kept' \subseteq Conns
<1>1. late' = IF admin.pc \in Uninstalling \cup {"done"} THEN late \cup (conns \ up) ELSE late
  BY Zenon DEF Raise
<1>2. kept' = IF agent.pc \in {"disconnect", "off"} THEN kept \cup conns ELSE kept
  BY Zenon DEF Raise
<1>3. up' = up \cup conns
  BY Zenon DEF Raise
<1>4. up \subseteq Conns /\ late \subseteq Conns /\ kept \subseteq Conns
  BY Zenon DEF TypeOK
<1> QED BY <1>1, <1>2, <1>3, <1>4

-----------------------------------------------------------------------------
(***************************************************************************)
(* launchd, the daemons and the user.                                      *)
(***************************************************************************)

LEMMA SpawnKeeps ==
  ASSUME RegistrationInv, NEW p \in Pids, Spawn(p)
  PROVE  RegistrationInv'
<1> DEFINE d == [kind |-> "launchd", boot |-> ~bootDone]
<1>1. TypeOK /\ InstallsInv /\ RemovesInv /\ SessionInv BY DEF RegistrationInv
<1>2. d \in [kind : {"dead", "launchd", "ad hoc"}, boot : BOOLEAN] /\ d.kind = "launchd" OBVIOUS
<1> HIDE DEF d
<1>3. daemon' = [daemon EXCEPT ![p] = d] /\ setup' = setup \cup {"right"}
  BY Zenon DEF Spawn, d
<1>4. UNCHANGED <<admin, job, socket, bootDone, agent, session, tunnels, bounds>>
  BY Zenon DEF Spawn
<1>5. \A q \in Pids : daemon'[q] = IF q = p THEN d ELSE daemon[q]
  BY <1>1, <1>3 DEF TypeOK
<1>6. TypeOK' BY <1>1, <1>2, <1>3, <1>4 DEF TypeOK, tunnels, bounds, Parts
<1>7. InstallsInv' BY <1>1, <1>2, <1>3, <1>4, <1>5, InstallsKept
<1>8. RemovesInv' BY <1>1, <1>4, RemovesKept DEF tunnels
<1>9. SessionInv' BY <1>1, <1>4, SessionKept DEF tunnels, SessionInv
<1> QED BY <1>6, <1>7, <1>8, <1>9 DEF RegistrationInv

LEMMA ReconcileBootKeeps ==
  ASSUME RegistrationInv, NEW p \in Pids, ReconcileBoot(p)
  PROVE  RegistrationInv'
<1> DEFINE d == [daemon[p] EXCEPT !.boot = FALSE]
<1>1. TypeOK /\ InstallsInv /\ RemovesInv /\ SessionInv BY DEF RegistrationInv
<1>2. d \in [kind : {"dead", "launchd", "ad hoc"}, boot : BOOLEAN] /\ d.kind = daemon[p].kind
  BY <1>1 DEF TypeOK
<1> HIDE DEF d
<1>3. daemon' = [daemon EXCEPT ![p] = d]
  BY DEF ReconcileBoot, d
<1>4. UNCHANGED <<admin, setup, job, socket, agent, session, stored, userDown, commands, events>>
  BY Zenon DEF ReconcileBoot
<1>5. \A q \in Pids : daemon'[q] = IF q = p THEN d ELSE daemon[q]
  BY <1>1, <1>3 DEF TypeOK
<1>6. \/ Raise(Automatic \ Mine) /\ bootDone' = TRUE /\ UNCHANGED faults
      \/ Fault /\ UNCHANGED <<up, late, kept, bootDone>>
  BY Zenon DEF ReconcileBoot
<1>7. CASE Raise(Automatic \ Mine) /\ bootDone' = TRUE /\ UNCHANGED faults
  <2>1. Automatic \ Mine \in SUBSET Conns BY <1>1 DEF Automatic, TypeOK
  <2>2. up' \subseteq Conns /\ late' \subseteq Conns /\ kept' \subseteq Conns
    BY <1>1, <1>7, <2>1, RaiseTypes
  <2>3. TypeOK' BY <1>1, <1>2, <1>3, <1>4, <1>7, <2>2 DEF TypeOK
  <2>4. InstallsInv' BY <1>1, <1>2, <1>4, <1>5, InstallsKept
  <2>5. RemovesInv' BY <1>1, <1>4, <1>7, RaiseKeeps, RemovesKept
  <2>6. SessionInv' BY <1>1, <1>4, <1>7, RaiseKeeps, SessionKept DEF SessionInv
  <2> QED BY <2>3, <2>4, <2>5, <2>6 DEF RegistrationInv
<1>8. CASE Fault /\ UNCHANGED <<up, late, kept, bootDone>>
  <2>1. faults' \in 0..MaxFaults BY <1>1, <1>8, FaultTypes
  <2>2. TypeOK' BY <1>1, <1>2, <1>3, <1>4, <1>8, <2>1 DEF TypeOK
  <2>3. InstallsInv' BY <1>1, <1>2, <1>4, <1>5, InstallsKept
  <2>4. RemovesInv' BY <1>1, <1>4, <1>8, RemovesKept
  <2>5. SessionInv' BY <1>1, <1>4, <1>8, SessionKept DEF SessionInv
  <2> QED BY <2>2, <2>3, <2>4, <2>5 DEF RegistrationInv
<1> QED BY <1>6, <1>7, <1>8

LEMMA ExitsKeeps ==
  ASSUME RegistrationInv, NEW p \in Pids, Exits(p)
  PROVE  RegistrationInv'
<1>1. TypeOK /\ InstallsInv /\ RemovesInv /\ SessionInv BY DEF RegistrationInv
<1>2. Dead \in [kind : {"dead", "launchd", "ad hoc"}, boot : BOOLEAN] /\ Dead.kind = "dead"
  BY DEF Dead
<1>3. daemon' = [daemon EXCEPT ![p] = Dead] /\ socket' = IF socket = p THEN "stale" ELSE socket
  BY Zenon DEF Exits
<1>4. UNCHANGED <<admin, setup, job, bootDone, agent, session, tunnels, bounds>>
  BY Zenon DEF Exits
<1>5. \A q \in Pids : daemon'[q] = IF q = p THEN Dead ELSE daemon[q]
  BY <1>1, <1>3 DEF TypeOK
<1>6. TypeOK' BY <1>1, <1>2, <1>3, <1>4 DEF TypeOK, tunnels, bounds
<1>7. InstallsInv' BY <1>1, <1>2, <1>4, <1>5, InstallsKept
<1>8. RemovesInv' BY <1>1, <1>4, RemovesKept DEF tunnels
<1>9. SessionInv' BY <1>1, <1>4, SessionKept DEF tunnels, SessionInv
<1> QED BY <1>6, <1>7, <1>8, <1>9 DEF RegistrationInv

LEMMA SocketAppearsKeeps ==
  ASSUME RegistrationInv, SocketAppears
  PROVE  RegistrationInv'
<1>1. TypeOK /\ InstallsInv /\ RemovesInv /\ SessionInv BY DEF RegistrationInv
<1>2. job' = [job EXCEPT !.fresh = FALSE] /\ socket' = "launchd"
  BY Zenon DEF SocketAppears
<1>3. UNCHANGED <<admin, setup, daemon, bootDone, agent, session, tunnels, bounds>>
  BY Zenon DEF SocketAppears
<1>4. /\ job' \in [plist : BOOLEAN, loaded : BOOLEAN, disabled : BOOLEAN, fresh : BOOLEAN]
      /\ job'.plist = job.plist /\ job'.loaded = job.loaded /\ job'.disabled = job.disabled
  BY <1>1, <1>2 DEF TypeOK
<1>5. TypeOK' BY <1>1, <1>2, <1>3, <1>4 DEF TypeOK, tunnels, bounds
<1>6. InstallsInv' BY <1>1, <1>3, <1>4, InstallsKept
<1>7. RemovesInv' BY <1>1, <1>3, RemovesKept DEF tunnels
<1>8. SessionInv' BY <1>1, <1>3, SessionKept DEF tunnels, SessionInv
<1> QED BY <1>5, <1>6, <1>7, <1>8 DEF RegistrationInv

LEMMA UserConnectsKeeps ==
  ASSUME RegistrationInv, NEW c \in Conns, UserConnects(c)
  PROVE  RegistrationInv'
<1>1. TypeOK /\ InstallsInv /\ RemovesInv /\ SessionInv BY DEF RegistrationInv
<1>2. Happens("connect") /\ Raise({c}) /\ userDown' = userDown \ {c}
  BY Zenon DEF UserConnects
<1>3. UNCHANGED <<admin, jobs, agent, session, stored, commands, faults>>
  BY Zenon DEF UserConnects
<1>4. up' \subseteq Conns /\ late' \subseteq Conns /\ kept' \subseteq Conns
  BY <1>1, <1>2, RaiseTypes
<1>5. events' \in 0..MaxEvents BY <1>1, <1>2, HappensTypes
<1>6. TypeOK' BY <1>1, <1>2, <1>3, <1>4, <1>5 DEF TypeOK, jobs
<1>7. InstallsInv' BY <1>1, <1>3, InstallsKept DEF jobs
<1>8. RemovesInv' BY <1>1, <1>2, <1>3, RaiseKeeps, RemovesKept
<1>9. SessionInv' BY <1>1, <1>2, <1>3, RaiseKeeps, SessionKept DEF SessionInv
<1> QED BY <1>6, <1>7, <1>8, <1>9 DEF RegistrationInv

LEMMA UserDisconnectsKeeps ==
  ASSUME RegistrationInv, NEW c \in Conns, UserDisconnects(c)
  PROVE  RegistrationInv'
<1>1. TypeOK /\ InstallsInv /\ RemovesInv /\ SessionInv BY DEF RegistrationInv
<1>2. Happens("disconnect") /\ up' = up \ {c} /\ userDown' = userDown \cup {c}
  BY Zenon DEF UserDisconnects
<1>3. UNCHANGED <<admin, jobs, agent, session, stored, late, kept, commands, faults>>
  BY Zenon DEF UserDisconnects
<1>4. events' \in 0..MaxEvents BY <1>1, <1>2, HappensTypes
<1>5. TypeOK' BY <1>1, <1>2, <1>3, <1>4 DEF TypeOK, jobs
<1>6. InstallsInv' BY <1>1, <1>3, InstallsKept DEF jobs
<1>7. RemovesInv' BY <1>1, <1>2, <1>3, RemovesKept
<1>8. SessionInv' BY <1>1, <1>2, <1>3, SessionKept DEF SessionInv
<1> QED BY <1>5, <1>6, <1>7, <1>8 DEF RegistrationInv

(* There is no daemon of a client's own while an installation has a plist. *)
LEMMA AdHocKeeps ==
  ASSUME RegistrationInv, NEW p \in Pids, AdHoc(p)
  PROVE  RegistrationInv'
<1> DEFINE d == [kind |-> "ad hoc", boot |-> ~bootDone]
<1>1. TypeOK /\ InstallsInv /\ RemovesInv /\ SessionInv BY DEF RegistrationInv
<1>2. d \in [kind : {"dead", "launchd", "ad hoc"}, boot : BOOLEAN] OBVIOUS
<1> HIDE DEF d
<1>3. /\ Happens("ad hoc") /\ ~job.plist
      /\ daemon' = [daemon EXCEPT ![p] = d] /\ setup' = setup \cup {"right"} /\ socket' = p
  BY Zenon DEF AdHoc, d
<1>4. UNCHANGED <<admin, job, bootDone, agent, session, tunnels, commands, faults>>
  BY Zenon DEF AdHoc
<1>5. events' \in 0..MaxEvents BY <1>1, <1>3, HappensTypes
<1>6. TypeOK' BY <1>1, <1>2, <1>3, <1>4, <1>5 DEF TypeOK, tunnels, Parts
<1>7. Installs => admin.pc \notin Planned BY <1>1, <1>3 DEF InstallsInv
<1>8. "reap" \in Planned /\ Registered \subseteq Planned /\ Registering \subseteq Planned /\ Enabled \subseteq Planned
  BY DEF Planned, Enabled, Registering
<1>9. InstallsInv' BY <1>1, <1>3, <1>4, <1>7, <1>8 DEF InstallsInv, Installs
<1>10. RemovesInv' BY <1>1, <1>4, RemovesKept DEF tunnels
<1>11. SessionInv' BY <1>1, <1>4, SessionKept DEF tunnels, SessionInv
<1> QED BY <1>6, <1>9, <1>10, <1>11 DEF RegistrationInv

(* At a reboot everything but the files goes.                              *)
LEMMA RebootKeeps ==
  ASSUME RegistrationInv, Reboot
  PROVE  RegistrationInv'
<1> DEFINE loads == job.plist /\ ~job.disabled
<1>1. TypeOK BY DEF RegistrationInv
<1>2. Dead \in [kind : {"dead", "launchd", "ad hoc"}, boot : BOOLEAN] BY DEF Dead
<1>3. /\ Happens("reboot") /\ admin' = NoAdmin
      /\ daemon' = [p \in Pids |-> Dead] /\ bootDone' = FALSE
      /\ job' = [job EXCEPT !.loaded = loads, !.fresh = FALSE]
      /\ socket' = IF loads THEN "launchd" ELSE IF socket = "none" THEN "none" ELSE "stale"
  BY Zenon DEF Reboot
<1>4. /\ agent' = [agent EXCEPT !.loaded = FALSE, !.pc = "off", !.term = FALSE, !.todo = {}]
      /\ session' = FALSE /\ up' = {} /\ late' = {} /\ kept' = {}
      /\ UNCHANGED <<setup, stored, userDown, commands, faults>>
  BY Zenon DEF Reboot
<1>5. loads \in BOOLEAN BY <1>1 DEF TypeOK
<1> HIDE DEF loads
<1>6. job' \in [plist : BOOLEAN, loaded : BOOLEAN, disabled : BOOLEAN, fresh : BOOLEAN]
  BY <1>1, <1>3, <1>5 DEF TypeOK
<1>7. NoAdmin \in Admin /\ NoAdmin.cmd = "none" /\ NoAdmin.pc = "idle"
  BY PlaceNames DEF NoAdmin, Admin
<1>8. agent' \in Agent /\ agent'.loaded = FALSE /\ agent'.pc = "off"
  BY <1>1, <1>4 DEF TypeOK, Agent
<1>9. events' \in 0..MaxEvents BY <1>1, <1>3, HappensTypes
<1>10. socket' \in Pids \cup {"launchd", "stale", "none"} BY <1>3
<1>11. TypeOK' BY <1>1, <1>2, <1>3, <1>4, <1>6, <1>7, <1>8, <1>9, <1>10 DEF TypeOK
<1>12. InstallsInv' /\ RemovesInv' BY <1>3, <1>7 DEF InstallsInv, RemovesInv, Installs, Removes
<1>13. SessionInv' BY <1>3, <1>4, <1>7, <1>8 DEF SessionInv, Rest
<1> QED BY <1>11, <1>12, <1>13 DEF RegistrationInv

-----------------------------------------------------------------------------
(***************************************************************************)
(* The session agent, logout and login.                                    *)
(***************************************************************************)

(* The agent's record with another place, list, or signal.                 *)
LEMMA AgentMoves ==
  ASSUME NEW a \in Agent, NEW place \in {"off", "list", "connect", "wait", "disconnect"}
  PROVE  LET b == [a EXCEPT !.pc = place]
         IN  b \in Agent /\ b.pc = place /\ b.loaded = a.loaded /\ b.term = a.term /\ b.todo = a.todo
BY DEF Agent

LEMMA AgentTicksOff ==
  ASSUME NEW a \in Agent, NEW c
  PROVE  LET b == [a EXCEPT !.todo = @ \ {c}]
         IN  b \in Agent /\ b.pc = a.pc /\ b.loaded = a.loaded /\ b.term = a.term /\ b.todo = a.todo \ {c}
BY DEF Agent

LEMMA UnloadedTypes ==
  ASSUME TypeOK
  PROVE  /\ Unloaded \in Agent /\ Unloaded.loaded = FALSE /\ Unloaded.pc = agent.pc
         /\ Unloaded.todo = agent.todo /\ Unloaded.term = (agent.pc # "off")
BY DEF TypeOK, Agent, Unloaded

(* What the agent's steps leave alone.                                     *)
LEMMA AgentOnlyKeeps ==
  ASSUME RegistrationInv, UNCHANGED agentOnly
  PROVE  /\ InstallsInv'
         /\ UNCHANGED late /\ (\A c \in up' : c \in up) => RemovesInv'
<1>1. InstallsInv /\ RemovesInv BY DEF RegistrationInv
<1>2. InstallsInv' BY <1>1, InstallsKept DEF agentOnly, jobs
<1>3. ASSUME UNCHANGED late, \A c \in up' : c \in up PROVE RemovesInv'
  BY <1>1, <1>3, RemovesKept DEF agentOnly
<1> QED BY <1>2, <1>3

LEMMA AgentListsKeeps ==
  ASSUME RegistrationInv, AgentLists
  PROVE  RegistrationInv'
<1> DEFINE t == (Automatic \cap Mine) \ up
<1>1. TypeOK /\ RemovesInv /\ SessionInv BY DEF RegistrationInv
<1>2. UNCHANGED <<agentOnly, up, late, kept>> /\ agent.pc = "list"
  BY Zenon DEF AgentLists, AgentAt
<1>3. t \in SUBSET Conns BY <1>1 DEF Automatic, TypeOK
<1>4. \/ agent' = [agent EXCEPT !.pc = "connect", !.todo = t] /\ UNCHANGED faults
      \/ agent' = [agent EXCEPT !.pc = "wait"] /\ NoAnswer
  BY Zenon DEF AgentLists
<1> HIDE DEF t
<1>5. agent \in Agent BY <1>1 DEF TypeOK
<1>6. /\ agent' \in Agent /\ agent'.pc \in {"connect", "wait"}
      /\ agent'.loaded = agent.loaded /\ agent'.term = agent.term
  BY <1>3, <1>4, <1>5 DEF Agent
<1>7. faults' \in 0..MaxFaults
  <2>1. faults \in 0..MaxFaults BY <1>1 DEF TypeOK
  <2> QED BY <1>1, <1>4, <2>1, NoAnswerTypes
<1>8. TypeOK' BY <1>1, <1>2, <1>6, <1>7 DEF TypeOK, agentOnly, jobs
<1>9. InstallsInv' /\ RemovesInv' BY <1>2, AgentOnlyKeeps
<1>10. SessionInv' BY <1>1, <1>2, <1>6 DEF SessionInv, agentOnly
<1> QED BY <1>8, <1>9, <1>10 DEF RegistrationInv

LEMMA AgentConnectsKeeps ==
  ASSUME RegistrationInv, NEW c \in Conns, AgentConnects(c)
  PROVE  RegistrationInv'
<1> DEFINE new == {c} \cap Automatic
<1>1. TypeOK /\ RemovesInv /\ SessionInv BY DEF RegistrationInv
<1>2. /\ UNCHANGED agentOnly /\ agent.pc = "connect"
      /\ agent' = [agent EXCEPT !.todo = @ \ {c}]
  BY DEF AgentConnects, AgentAt
<1>3. \/ Raise(new) /\ UNCHANGED faults
      \/ NoAnswer /\ UNCHANGED <<up, late, kept>>
  BY Zenon DEF AgentConnects
<1>4. new \in SUBSET Conns OBVIOUS
<1> HIDE DEF new
<1>5. agent \in Agent BY <1>1 DEF TypeOK
<1>6. agent' \in Agent /\ agent'.pc = "connect" /\ agent'.loaded = agent.loaded /\ agent'.term = agent.term
  BY <1>2, <1>5, AgentTicksOff
<1>7. /\ up' \subseteq Conns /\ late' \subseteq Conns /\ kept' \subseteq Conns
      /\ faults' \in 0..MaxFaults
  <2>1. /\ up \subseteq Conns /\ late \subseteq Conns /\ kept \subseteq Conns
        /\ faults \in 0..MaxFaults
    BY <1>1 DEF TypeOK
  <2> QED BY <1>1, <1>3, <1>4, <2>1, NoAnswerTypes, RaiseTypes
<1>8. TypeOK' BY <1>1, <1>2, <1>6, <1>7 DEF TypeOK, agentOnly, jobs
<1>9. InstallsInv' BY <1>2, AgentOnlyKeeps
<1>10. RemovesInv'
  <2>1. UNCHANGED admin BY <1>2 DEF agentOnly
  <2>2. /\ late \subseteq late'
        /\ admin.pc \in Uninstalling \cup {"done"} => \A d \in up' : d \in up \/ d \in late'
    BY <1>3, RaiseKeeps
  <2> QED BY <1>1, <2>1, <2>2, RemovesKept
<1>11. SessionInv' BY <1>1, <1>2, <1>6 DEF SessionInv, agentOnly
<1> QED BY <1>8, <1>9, <1>10, <1>11 DEF RegistrationInv

LEMMA AgentConnectedKeeps ==
  ASSUME RegistrationInv, AgentConnected
  PROVE  RegistrationInv'
<1>1. TypeOK /\ RemovesInv /\ SessionInv BY DEF RegistrationInv
<1>2. /\ UNCHANGED <<agentOnly, up, late, kept, faults>> /\ agent.pc = "connect"
      /\ agent' = [agent EXCEPT !.pc = "wait"]
  BY Zenon DEF AgentConnected, AgentAt
<1>3. agent \in Agent BY <1>1 DEF TypeOK
<1>4. agent' \in Agent /\ agent'.pc = "wait" /\ agent'.loaded = agent.loaded /\ agent'.term = agent.term
  BY <1>2, <1>3, AgentMoves
<1>5. TypeOK' BY <1>1, <1>2, <1>4 DEF TypeOK, agentOnly, jobs
<1>6. InstallsInv' /\ RemovesInv' BY <1>2, AgentOnlyKeeps
<1>7. SessionInv' BY <1>1, <1>2, <1>4 DEF SessionInv, agentOnly
<1> QED BY <1>5, <1>6, <1>7 DEF RegistrationInv

LEMMA AgentTerminatesKeeps ==
  ASSUME RegistrationInv, AgentTerminates
  PROVE  RegistrationInv'
<1>1. TypeOK /\ RemovesInv /\ SessionInv BY DEF RegistrationInv
<1>2. UNCHANGED <<agentOnly, up, late>> /\ agent.pc = "wait" /\ agent.term
  BY Zenon DEF AgentTerminates, AgentAt
<1>3. \/ agent' = [agent EXCEPT !.pc = "disconnect", !.todo = Mine \cap up] /\ UNCHANGED <<kept, faults>>
      \/ /\ agent' = [agent EXCEPT !.pc = "disconnect", !.todo = {}]
         /\ NoAnswer /\ kept' = kept \cup Mine
  BY Zenon DEF AgentTerminates
<1>4. agent \in Agent /\ Mine \cap up \in SUBSET Conns /\ Mine \subseteq Conns
  BY <1>1, RegistrationAssumption DEF TypeOK
<1>5. agent' \in Agent /\ agent'.pc = "disconnect" /\ agent'.loaded = agent.loaded /\ agent'.term = agent.term
  BY <1>3, <1>4 DEF Agent
<1>6. up' \cap Mine \subseteq kept' \cup agent'.todo
  BY <1>2, <1>3, <1>4 DEF Agent
<1>7. faults' \in 0..MaxFaults /\ kept' \subseteq Conns
  <2>1. faults \in 0..MaxFaults /\ kept \subseteq Conns BY <1>1 DEF TypeOK
  <2> QED BY <1>1, <1>3, <1>4, <2>1, NoAnswerTypes
<1>8. TypeOK' BY <1>1, <1>2, <1>5, <1>7 DEF TypeOK, agentOnly, jobs
<1>9. InstallsInv' /\ RemovesInv' BY <1>2, AgentOnlyKeeps
<1>10. SessionInv' BY <1>1, <1>2, <1>5, <1>6 DEF SessionInv, agentOnly
<1> QED BY <1>8, <1>9, <1>10 DEF RegistrationInv

LEMMA AgentDisconnectsKeeps ==
  ASSUME RegistrationInv, NEW c \in Conns, AgentDisconnects(c)
  PROVE  RegistrationInv'
<1>1. TypeOK /\ RemovesInv /\ SessionInv BY DEF RegistrationInv
<1>2. /\ UNCHANGED <<agentOnly, late>> /\ agent.pc = "disconnect"
      /\ agent' = [agent EXCEPT !.todo = @ \ {c}]
  BY DEF AgentDisconnects, AgentAt
<1>3. \/ up' = up \ {c} /\ UNCHANGED <<kept, faults>>
      \/ NoAnswer /\ kept' = kept \cup {c} /\ UNCHANGED up
  BY Zenon DEF AgentDisconnects
<1>4. agent \in Agent BY <1>1 DEF TypeOK
<1>5. /\ agent' \in Agent /\ agent'.pc = "disconnect" /\ agent'.loaded = agent.loaded
      /\ agent'.term = agent.term /\ agent'.todo = agent.todo \ {c}
  BY <1>2, <1>4, AgentTicksOff
<1>6. up \cap Mine \subseteq kept \cup agent.todo BY <1>1, <1>2 DEF SessionInv
<1>7. up' \cap Mine \subseteq kept' \cup agent'.todo BY <1>3, <1>5, <1>6
<1>8. faults' \in 0..MaxFaults /\ kept' \subseteq Conns /\ up' \subseteq Conns
  <2>1. faults \in 0..MaxFaults /\ kept \subseteq Conns /\ up \subseteq Conns BY <1>1 DEF TypeOK
  <2> QED BY <1>1, <1>3, <2>1, NoAnswerTypes
<1>9. TypeOK' BY <1>1, <1>2, <1>5, <1>8 DEF TypeOK, agentOnly, jobs
<1>10. InstallsInv' /\ RemovesInv' BY <1>2, <1>3, AgentOnlyKeeps
<1>11. SessionInv' BY <1>1, <1>2, <1>5, <1>7 DEF SessionInv, agentOnly
<1> QED BY <1>9, <1>10, <1>11 DEF RegistrationInv

(* The process is gone, by itself or not.                                  *)
LEMMA AgentLeaves ==
  ASSUME NEW a \in Agent
  PROVE  /\ LET b == [a EXCEPT !.pc = IF a.loaded THEN "list" ELSE "off", !.term = FALSE]
            IN  b \in Agent /\ b.pc = (IF a.loaded THEN "list" ELSE "off") /\ b.loaded = a.loaded
         /\ LET b == [a EXCEPT !.pc = IF a.loaded THEN "list" ELSE "off", !.term = FALSE, !.todo = {}]
            IN  b \in Agent /\ b.pc = (IF a.loaded THEN "list" ELSE "off") /\ b.loaded = a.loaded
BY DEF Agent

LEMMA AgentEndsKeeps ==
  ASSUME RegistrationInv, AgentEnds
  PROVE  RegistrationInv'
<1>1. TypeOK /\ RemovesInv /\ SessionInv BY DEF RegistrationInv
<1>2. /\ UNCHANGED <<agentOnly, up, late, kept, faults>> /\ agent.pc = "disconnect" /\ agent.todo = {}
      /\ agent' = [agent EXCEPT !.pc = IF agent.loaded THEN "list" ELSE "off", !.term = FALSE]
  BY Zenon DEF AgentEnds, AgentAt
<1>3. agent \in Agent BY <1>1 DEF TypeOK
<1>4. agent' \in Agent /\ agent'.pc = (IF agent.loaded THEN "list" ELSE "off") /\ agent'.loaded = agent.loaded
  BY <1>2, <1>3, AgentLeaves
<1>5. up \cap Mine \subseteq kept BY <1>1, <1>2 DEF SessionInv
<1>6. TypeOK' BY <1>1, <1>2, <1>4 DEF TypeOK, agentOnly, jobs
<1>7. InstallsInv' /\ RemovesInv' BY <1>2, AgentOnlyKeeps
<1>8. SessionInv' BY <1>1, <1>2, <1>4, <1>5 DEF SessionInv, agentOnly
<1> QED BY <1>6, <1>7, <1>8 DEF RegistrationInv

LEMMA AgentKilledKeeps ==
  ASSUME RegistrationInv, AgentKilled
  PROVE  RegistrationInv'
<1>1. TypeOK /\ RemovesInv /\ SessionInv BY DEF RegistrationInv
<1>2. /\ UNCHANGED <<agentOnly, up, late>> /\ Fault /\ kept' = kept \cup Mine
      /\ agent' = [agent EXCEPT !.pc = IF agent.loaded THEN "list" ELSE "off", !.term = FALSE, !.todo = {}]
  BY Zenon DEF AgentKilled
<1>3. agent \in Agent /\ Mine \subseteq Conns BY <1>1, RegistrationAssumption DEF TypeOK
<1>4. agent' \in Agent /\ agent'.pc = (IF agent.loaded THEN "list" ELSE "off") /\ agent'.loaded = agent.loaded
  BY <1>2, <1>3, AgentLeaves
<1>5. faults' \in 0..MaxFaults BY <1>1, <1>2, FaultTypes
<1>6. TypeOK' BY <1>1, <1>2, <1>3, <1>4, <1>5 DEF TypeOK, agentOnly, jobs
<1>7. InstallsInv' /\ RemovesInv' BY <1>2, AgentOnlyKeeps
<1>8. SessionInv' BY <1>1, <1>2, <1>4 DEF SessionInv, agentOnly
<1> QED BY <1>6, <1>7, <1>8 DEF RegistrationInv

(* The agent is told to go: it ends what it lists later, or had started to *)
(* end before, or is not there.                                            *)
LEMMA UnloadedKeeps ==
  ASSUME RegistrationInv, admin'.pc \in Rest \/ session', UNCHANGED up,
         NEW a, agent' = a, kept' = KeptAtTerm,
         a.loaded = FALSE, a.pc = agent.pc, a.todo = agent.todo, a.term = (agent.pc # "off")
  PROVE  SessionInv' /\ kept' \subseteq Conns
<1>1. TypeOK /\ SessionInv BY DEF RegistrationInv
<1>2. Mine \subseteq Conns /\ kept \subseteq Conns BY <1>1, RegistrationAssumption DEF TypeOK
<1>3. agent.pc \in {"off", "list", "connect", "wait", "disconnect"} /\ agent.term \in BOOLEAN
  BY <1>1, AgentTypes
<1>4. CASE agent.pc = "off"
  <2>1. kept' = Mine BY <1>4 DEF KeptAtTerm
  <2> QED BY <1>2, <1>4, <2>1 DEF SessionInv
<1>5. CASE agent.pc = "disconnect"
  <2>1. agent.term /\ up \cap Mine \subseteq kept \cup agent.todo BY <1>1, <1>5 DEF SessionInv
  <2>2. kept' = kept BY <1>5, <2>1 DEF KeptAtTerm
  <2> QED BY <1>2, <1>5, <2>1, <2>2 DEF SessionInv
<1>6. CASE agent.pc \in {"list", "connect", "wait"}
  <2>1. kept' \subseteq Conns BY <1>2, <1>6 DEF KeptAtTerm
  <2> QED BY <1>6, <2>1 DEF SessionInv
<1> QED BY <1>3, <1>4, <1>5, <1>6

LEMMA LoginItemOffKeeps ==
  ASSUME RegistrationInv, LoginItemOff
  PROVE  RegistrationInv'
<1> DEFINE a == [Unloaded EXCEPT !.disabled = TRUE]
<1>1. TypeOK /\ InstallsInv /\ RemovesInv BY DEF RegistrationInv
<1>2. /\ Happens("login item off") /\ admin.pc \in Rest /\ agent' = a /\ kept' = KeptAtTerm
      /\ UNCHANGED <<admin, jobs, session, stored, up, userDown, late, commands, faults>>
  BY Zenon DEF LoginItemOff
<1>3. /\ a \in Agent /\ a.loaded = FALSE /\ a.pc = agent.pc
      /\ a.todo = agent.todo /\ a.term = (agent.pc # "off")
  BY <1>1, UnloadedTypes DEF Agent
<1> HIDE DEF a
<1>4. SessionInv' /\ kept' \subseteq Conns BY <1>2, <1>3, UnloadedKeeps
<1>5. events' \in 0..MaxEvents BY <1>1, <1>2, HappensTypes
<1>6. TypeOK' BY <1>1, <1>2, <1>3, <1>4, <1>5 DEF TypeOK, jobs
<1>7. InstallsInv' BY <1>1, <1>2, InstallsKept DEF jobs
<1>8. RemovesInv' BY <1>1, <1>2, RemovesKept
<1> QED BY <1>4, <1>6, <1>7, <1>8 DEF RegistrationInv

LEMMA LogoutKeeps ==
  ASSUME RegistrationInv, Logout
  PROVE  RegistrationInv'
<1>1. TypeOK /\ InstallsInv /\ RemovesInv BY DEF RegistrationInv
<1>2. /\ Happens("logout") /\ admin.pc \in Rest /\ agent' = Unloaded /\ kept' = KeptAtTerm
      /\ UNCHANGED <<admin, jobs, stored, up, userDown, late, commands, faults>> /\ session' = FALSE
  BY Zenon DEF Logout
<1>3. /\ Unloaded \in Agent /\ Unloaded.loaded = FALSE /\ Unloaded.pc = agent.pc
      /\ Unloaded.todo = agent.todo /\ Unloaded.term = (agent.pc # "off")
  BY <1>1, UnloadedTypes
<1>4. SessionInv' /\ kept' \subseteq Conns BY <1>2, <1>3, UnloadedKeeps
<1>5. events' \in 0..MaxEvents BY <1>1, <1>2, HappensTypes
<1>6. TypeOK' BY <1>1, <1>2, <1>3, <1>4, <1>5 DEF TypeOK, jobs
<1>7. InstallsInv' BY <1>1, <1>2, InstallsKept DEF jobs
<1>8. RemovesInv' BY <1>1, <1>2, RemovesKept
<1> QED BY <1>4, <1>6, <1>7, <1>8 DEF RegistrationInv

LEMMA LoginKeeps ==
  ASSUME RegistrationInv, Login
  PROVE  RegistrationInv'
<1>1. TypeOK /\ InstallsInv /\ RemovesInv BY DEF RegistrationInv
<1>2. /\ agent.pc = "off" /\ session' = TRUE /\ kept' = {}
      /\ agent' = IF agent.plist /\ ~agent.disabled THEN [agent EXCEPT !.loaded = TRUE, !.pc = "list"] ELSE agent
      /\ UNCHANGED <<admin, jobs, stored, up, userDown, late, bounds>>
  BY Zenon DEF Login
<1>3. agent' \in Agent /\ agent'.pc \in {"off", "list"}
  BY <1>1, <1>2 DEF TypeOK, Agent
<1>4. TypeOK' BY <1>1, <1>2, <1>3 DEF TypeOK, jobs, bounds
<1>5. InstallsInv' BY <1>1, <1>2, InstallsKept DEF jobs
<1>6. RemovesInv' BY <1>1, <1>2, RemovesKept
<1>7. SessionInv' BY <1>2, <1>3 DEF SessionInv
<1> QED BY <1>4, <1>5, <1>6, <1>7 DEF RegistrationInv

-----------------------------------------------------------------------------
(***************************************************************************)
(* The commands.                                                           *)
(***************************************************************************)

(* A command that is at a place of no installation, or of no removal, is   *)
(* none.                                                                   *)
LEMMA NotInstalling ==
  ASSUME InstallsInv, admin.pc \notin InstallPlaces, admin'.cmd = admin.cmd
  PROVE  InstallsInv'
BY DEF InstallsInv, Installs

LEMMA NotRemoving ==
  ASSUME RemovesInv, admin.pc \notin RemovePlaces, admin'.cmd = admin.cmd
  PROVE  RemovesInv'
BY DEF RemovesInv, Removes

(* A command that only moves on among places with the same promise.        *)
LEMMA InstallMovesOn ==
  ASSUME InstallsInv, UNCHANGED jobs, admin'.cmd = admin.cmd,
         Installs => admin'.back \in {"done", "reconnect"},
         admin'.pc = "failed" \/ (admin.pc \in Registered /\ admin'.pc \in Registered)
  PROVE  InstallsInv'
<1>1. CASE admin'.pc = "failed"
  BY <1>1 DEF InstallsInv, Installs, InstallPlaces, Prepared, Planned, Enabled, Registering, Registered, InAgentInstall
<1>2. CASE admin.pc \in Registered /\ admin'.pc \in Registered
  <2>1. "reap" \notin Registered /\ "group" \notin Registered /\ "right" \notin Registered
    BY DEF Registered, InAgentInstall
  <2>2. /\ Registered \subseteq Registering /\ Registered \subseteq Enabled /\ Registered \subseteq Planned
        /\ Registered \subseteq Prepared /\ Registered \subseteq InstallPlaces
    BY DEF InstallPlaces, Prepared, Planned, Enabled, Registering
  <2>3. Live' = Live BY DEF Live, jobs
  <2> QED BY <1>2, <2>1, <2>2, <2>3 DEF InstallsInv, Installs, jobs
<1> QED BY <1>1, <1>2

LEMMA RemovalMovesOn ==
  ASSUME RemovesInv, UNCHANGED <<up, late>>, admin'.cmd = admin.cmd,
         ~admin'.faulty => ~admin.faulty,
         Removes => /\ admin'.pc \in RemovePlaces \ {"disconnect2", "remove agent", "agent gone"}
                    /\ admin'.pc \in Swept => admin.pc \in Swept
  PROVE  RemovesInv'
BY DEF RemovesInv, Removes

(* A command runs in a session only.                                       *)
LEMMA CommandInSession ==
  ASSUME SessionInv, admin.pc \notin Rest, UNCHANGED <<agent, session, up, kept>>
  PROVE  SessionInv'
BY DEF SessionInv

LEMMA CommandTypes ==
  ASSUME TypeOK, admin' \in Admin, UNCHANGED <<agent, session, tunnels, commands, events>>,
         faults' \in 0..MaxFaults, UNCHANGED jobs
  PROVE  TypeOK'
BY DEF TypeOK, tunnels, jobs

(* The first command step, and the failure of any other.                   *)
LEMMA BeginKeeps ==
  ASSUME RegistrationInv, NEW c \in Commands, Begin(c)
  PROVE  RegistrationInv'
<1> DEFINE a == [NoAdmin EXCEPT !.cmd = c, !.pc = First[c], !.back = "done"]
<1>1. TypeOK BY DEF RegistrationInv
<1>2. /\ commands > 0 /\ session /\ admin' = a /\ late' = {} /\ commands' = commands - 1
      /\ UNCHANGED <<jobs, agent, session, stored, up, userDown, kept, events, faults>>
  BY Zenon DEF Begin
<1>3. c \in AllCommands BY RegistrationAssumption
<1>4. /\ First[c] \in {"binary", "kickstart", "list1", "agent plist", "connect", "remove agent"}
      /\ c \in {"install", "reload"} => First[c] = "binary"
      /\ c = "uninstall" => First[c] = "list1"
      /\ c = "purge" => First[c] = "remove agent"
  BY <1>3 DEF First, AllCommands
<1>5. First[c] \in Places BY <1>4, PlaceNames
<1>6. NoAdmin \in Admin BY PlaceNames DEF NoAdmin, Admin
<1>7. a \in Admin /\ a.cmd = c /\ a.pc = First[c] /\ a.back = "done"
  BY <1>3, <1>5, <1>6, PlaceNames DEF Admin
<1> HIDE DEF a
<1>8. commands' \in 0..MaxCommands
  <2>1. MaxCommands \in Nat /\ commands \in 0..MaxCommands BY <1>1, RegistrationAssumption DEF TypeOK
  <2> QED BY <1>2, <2>1
<1>9. TypeOK' BY <1>1, <1>2, <1>7, <1>8 DEF TypeOK, jobs
<1>10. InstallsInv'
  <2>1. /\ "binary" \in InstallPlaces
        /\ "binary" \notin {"group", "right", "reap"} \cup Prepared \cup Planned \cup Enabled
                              \cup Registering \cup Registered
    BY DEF InstallPlaces, Prepared, Planned, Enabled, Registering, Registered, InAgentInstall
  <2> QED BY <1>2, <1>4, <1>7, <2>1 DEF InstallsInv, Installs
<1>11. RemovesInv'
  BY <1>2, <1>4, <1>7 DEF RemovesInv, Removes, RemovePlaces, FirstSweep, Swept
<1>12. SessionInv'
  <2>1. SessionInv BY DEF RegistrationInv
  <2> QED BY <1>2, <2>1 DEF SessionInv
<1> QED BY <1>9, <1>10, <1>11, <1>12 DEF RegistrationInv

LEMMA FailsKeeps ==
  ASSUME RegistrationInv, Fails
  PROVE  RegistrationInv'
<1> DEFINE place == IF admin.pc \in InAgentInstall THEN
                      IF admin.back = "reconnect" THEN "reconnect" ELSE "failed"
                    ELSE "failed"
<1>1. TypeOK /\ InstallsInv /\ RemovesInv /\ SessionInv BY DEF RegistrationInv
<1>2. /\ admin.pc \notin Rest /\ Fault
      /\ admin' = [admin EXCEPT !.faulty = TRUE, !.pc = place]
      /\ UNCHANGED <<jobs, agent, session, tunnels, commands, events>>
  BY Zenon DEF Fails
<1>3. place \in {"failed", "reconnect"} /\ (place = "reconnect" => admin.pc \in InAgentInstall)
  OBVIOUS
<1> HIDE DEF place
<1>4. place \in Places BY <1>3, PlaceNames
<1>5. /\ admin' \in Admin /\ admin'.pc = place /\ admin'.faulty = TRUE
      /\ admin'.cmd = admin.cmd /\ admin'.back = admin.back
  BY <1>1, <1>2, <1>4 DEF TypeOK, Admin
<1>6. faults' \in 0..MaxFaults BY <1>1, <1>2, FaultTypes
<1>7. TypeOK' BY <1>1, <1>2, <1>5, <1>6, CommandTypes
<1>8. InstallsInv'
  <2>1. InAgentInstall \subseteq Registered /\ "reconnect" \in Registered BY DEF Registered
  <2>2. Installs => admin.back \in {"done", "reconnect"} BY <1>1 DEF InstallsInv
  <2> QED BY <1>1, <1>2, <1>3, <1>5, <2>1, <2>2, InstallMovesOn
<1>9. RemovesInv'
  <2>1. InAgentInstall \cap RemovePlaces = {} /\ "failed" \in RemovePlaces
    BY DEF InAgentInstall, RemovePlaces, FirstSweep, Uninstalling
  <2>2. Removes => place = "failed" BY <1>1, <1>3, <2>1 DEF RemovesInv
  <2> QED BY <1>5, <2>1, <2>2 DEF RemovesInv, Removes
<1>10. SessionInv' BY <1>1, <1>2, CommandInSession DEF tunnels
<1> QED BY <1>7, <1>8, <1>9, <1>10 DEF RegistrationInv

(* The binary, the group and the right.                                    *)
LEMMA MakesKeeps ==
  ASSUME RegistrationInv, InstallBinary \/ EnsureGroup \/ RegisterRight
  PROVE  RegistrationInv'
<1>1. TypeOK /\ InstallsInv /\ RemovesInv /\ SessionInv BY DEF RegistrationInv
<1>2. PICK part \in Parts, next \in {"group", "right", "plist"} :
        /\ \/ admin.pc = "binary" /\ part = "binary" /\ next = "group"
           \/ admin.pc = "group" /\ part = "group" /\ next = "right"
           \/ admin.pc = "right" /\ part = "right" /\ next = "plist"
        /\ Makes(part, next)
  <2>1. CASE InstallBinary BY <2>1 DEF InstallBinary, Parts, At
  <2>2. CASE EnsureGroup BY <2>2 DEF EnsureGroup, Parts, At
  <2>3. CASE RegisterRight BY <2>3 DEF RegisterRight, Parts, At
  <2> QED BY <2>1, <2>2, <2>3
<1>3. /\ setup' = setup \cup {part} /\ admin' = [admin EXCEPT !.pc = next]
      /\ UNCHANGED <<job, socket, daemon, bootDone, agent, session, tunnels, bounds>>
  BY <1>2, Zenon DEF Makes, To
<1>4. next \in Places BY <1>2, PlaceNames
<1>5. /\ admin' \in Admin /\ admin'.pc = next /\ admin'.cmd = admin.cmd /\ admin'.back = admin.back
  <2>1. admin \in Admin BY <1>1 DEF TypeOK
  <2> QED BY <1>3, <1>4, <2>1, AdminMoves
<1>6. TypeOK' BY <1>1, <1>2, <1>3, <1>5 DEF TypeOK, tunnels, bounds
<1>7. InstallsInv'
  <2>1. /\ {"group", "right", "plist"} \subseteq InstallPlaces /\ "plist" \in Prepared
        /\ {"binary", "group", "right"} \cap Prepared = {}
        /\ {"group", "right", "plist"} \cap ({"reap"} \cup Planned \cup Enabled \cup Registering \cup Registered) = {}
    BY DEF InstallPlaces, Prepared, Planned, Enabled, Registering, Registered, InAgentInstall
  <2> QED BY <1>1, <1>2, <1>3, <1>5, <2>1 DEF InstallsInv, Installs
<1>8. RemovesInv'
  <2>1. admin.pc \notin RemovePlaces BY <1>2 DEF RemovePlaces, FirstSweep, Uninstalling
  <2> QED BY <1>1, <1>5, <2>1, NotRemoving
<1>9. SessionInv' BY <1>1, <1>2, <1>3, CommandInSession DEF tunnels, Rest
<1> QED BY <1>6, <1>7, <1>8, <1>9 DEF RegistrationInv

(* The daemon's job.                                                       *)
LEMMA JobTypes ==
  ASSUME TypeOK
  PROVE  /\ [job EXCEPT !.plist = TRUE] \in [plist : BOOLEAN, loaded : BOOLEAN, disabled : BOOLEAN, fresh : BOOLEAN]
         /\ [job EXCEPT !.plist = FALSE] \in [plist : BOOLEAN, loaded : BOOLEAN, disabled : BOOLEAN, fresh : BOOLEAN]
         /\ \A b \in BOOLEAN : [job EXCEPT !.disabled = b] \in [plist : BOOLEAN, loaded : BOOLEAN, disabled : BOOLEAN, fresh : BOOLEAN]
         /\ \A b \in BOOLEAN : [job EXCEPT !.loaded = b, !.fresh = b] \in [plist : BOOLEAN, loaded : BOOLEAN, disabled : BOOLEAN, fresh : BOOLEAN]
BY DEF TypeOK

LEMMA WritePlistKeeps ==
  ASSUME RegistrationInv, WritePlist
  PROVE  RegistrationInv'
<1>1. TypeOK /\ InstallsInv /\ RemovesInv /\ SessionInv BY DEF RegistrationInv
<1>2. /\ admin.pc = "plist" /\ job' = [job EXCEPT !.plist = TRUE] /\ admin' = [admin EXCEPT !.pc = "bootout"]
      /\ UNCHANGED <<setup, socket, daemon, bootDone, agent, session, tunnels, bounds>>
  BY Zenon DEF WritePlist, At, To
<1>3. admin' \in Admin /\ admin'.pc = "bootout" /\ admin'.cmd = admin.cmd /\ admin'.back = admin.back
  BY <1>1, <1>2, AdminTypes, AdminMoves, PlaceNames
<1>4. job'.plist BY <1>1, <1>2 DEF TypeOK
<1>5. TypeOK'
  <2>1. job' \in [plist : BOOLEAN, loaded : BOOLEAN, disabled : BOOLEAN, fresh : BOOLEAN]
    BY <1>1, <1>2, JobTypes
  <2> QED BY <1>1, <1>2, <1>3, <2>1 DEF TypeOK, tunnels, bounds
<1>6. InstallsInv'
  <2>1. /\ "bootout" \in InstallPlaces /\ "bootout" \in Planned /\ "bootout" \in Prepared /\ "plist" \in Prepared
        /\ "bootout" \notin {"reap"} \cup Enabled \cup Registering \cup Registered
    BY DEF InstallPlaces, Prepared, Planned, Enabled, Registering, Registered, InAgentInstall
  <2> QED BY <1>1, <1>2, <1>3, <1>4, <2>1 DEF InstallsInv, Installs
<1>7. RemovesInv'
  <2>1. admin.pc \notin RemovePlaces BY <1>2 DEF RemovePlaces, FirstSweep, Uninstalling
  <2> QED BY <1>1, <1>3, <2>1, NotRemoving
<1>8. SessionInv' BY <1>1, <1>2, CommandInSession DEF tunnels, Rest
<1> QED BY <1>5, <1>6, <1>7, <1>8 DEF RegistrationInv

LEMMA BootoutKeeps ==
  ASSUME RegistrationInv, Bootout
  PROVE  RegistrationInv'
<1> DEFINE next == IF Installs THEN "enable" ELSE "disable"
<1>1. TypeOK /\ InstallsInv /\ RemovesInv /\ SessionInv BY DEF RegistrationInv
<1>2. next \in {"enable", "disable"} /\ (Installs => next = "enable") /\ (~Installs => next = "disable")
  OBVIOUS
<1>3. /\ admin.pc = "bootout" /\ UNCHANGED <<setup, bootDone, agent, session, tunnels, commands, events>>
      /\ \/ /\ job' = [job EXCEPT !.loaded = FALSE, !.fresh = FALSE]
            /\ daemon' = [p \in Pids |-> IF p \in Tracked THEN Dead ELSE daemon[p]]
            /\ socket' = IF socket = "launchd" THEN "stale" ELSE socket
            /\ admin' = [admin EXCEPT !.pc = next]
            /\ UNCHANGED faults
         \/ /\ job.loaded /\ Fault
            /\ admin' = [admin EXCEPT !.pc = next, !.faulty = TRUE]
            /\ UNCHANGED <<job, daemon, socket>>
  BY Zenon DEF Bootout, At, To
<1> HIDE DEF next
<1>4. next \in Places /\ admin \in Admin BY <1>1, <1>2, AdminTypes, PlaceNames
<1>5. /\ admin' \in Admin /\ admin'.pc = next /\ admin'.cmd = admin.cmd /\ admin'.back = admin.back
      /\ ~admin'.faulty => ~admin.faulty
  <2>1. CASE admin' = [admin EXCEPT !.pc = next] BY <1>4, <2>1, AdminMoves
  <2>2. CASE admin' = [admin EXCEPT !.pc = next, !.faulty = TRUE] BY <1>4, <2>2, AdminFails
  <2> QED BY <1>3, <2>1, <2>2
<1>6. job'.plist = job.plist BY <1>1, <1>3 DEF TypeOK
<1>7. TypeOK'
  <2>1. job' \in [plist : BOOLEAN, loaded : BOOLEAN, disabled : BOOLEAN, fresh : BOOLEAN]
    <3>1. job \in [plist : BOOLEAN, loaded : BOOLEAN, disabled : BOOLEAN, fresh : BOOLEAN] BY <1>1 DEF TypeOK
    <3> QED BY <1>1, <1>3, <3>1, JobTypes
  <2>2. Dead \in [kind : {"dead", "launchd", "ad hoc"}, boot : BOOLEAN] BY DEF Dead
  <2>3. daemon' \in [Pids -> [kind : {"dead", "launchd", "ad hoc"}, boot : BOOLEAN]]
    BY <1>1, <1>3, <2>2 DEF TypeOK
  <2>4. socket' \in Pids \cup {"launchd", "stale", "none"} BY <1>1, <1>3 DEF TypeOK
  <2>5. faults' \in 0..MaxFaults
    <3>1. faults \in 0..MaxFaults BY <1>1 DEF TypeOK
    <3> QED BY <1>1, <1>3, <3>1, FaultTypes
  <2> QED BY <1>1, <1>3, <1>5, <2>1, <2>3, <2>4, <2>5 DEF TypeOK, tunnels
<1>8. InstallsInv'
  <2>1. /\ "enable" \in InstallPlaces /\ "bootout" \in Planned /\ "bootout" \in Prepared
        /\ "enable" \notin {"reap", "group", "right"} \cup Enabled \cup Registering \cup Registered
    BY DEF InstallPlaces, Prepared, Planned, Enabled, Registering, Registered, InAgentInstall
  <2> QED BY <1>1, <1>2, <1>3, <1>5, <1>6, <2>1 DEF InstallsInv, Installs
<1>9. RemovesInv'
  <2>1. Removes => next = "disable" BY <1>2 DEF Removes, Installs
  <2>2. "disable" \in RemovePlaces \ {"disconnect2", "remove agent", "agent gone"} /\ "bootout" \in Swept
    BY DEF RemovePlaces, FirstSweep, Uninstalling, Swept
  <2> QED BY <1>1, <1>3, <1>5, <2>1, <2>2, RemovalMovesOn DEF tunnels
<1>10. SessionInv' BY <1>1, <1>3, CommandInSession DEF tunnels, Rest
<1> QED BY <1>7, <1>8, <1>9, <1>10 DEF RegistrationInv

LEMMA EnableKeeps ==
  ASSUME RegistrationInv, Enable
  PROVE  RegistrationInv'
<1>1. TypeOK /\ InstallsInv /\ RemovesInv /\ SessionInv BY DEF RegistrationInv
<1>2. /\ admin.pc = "enable" /\ job' = [job EXCEPT !.disabled = FALSE] /\ admin' = [admin EXCEPT !.pc = "bootstrap"]
      /\ UNCHANGED <<setup, socket, daemon, bootDone, agent, session, tunnels, bounds>>
  BY Zenon DEF Enable, At, To
<1>3. admin' \in Admin /\ admin'.pc = "bootstrap" /\ admin'.cmd = admin.cmd /\ admin'.back = admin.back
  BY <1>1, <1>2, AdminTypes, AdminMoves, PlaceNames
<1>4. job'.plist = job.plist /\ job'.disabled = FALSE BY <1>1, <1>2 DEF TypeOK
<1>5. TypeOK'
  <2>1. job' \in [plist : BOOLEAN, loaded : BOOLEAN, disabled : BOOLEAN, fresh : BOOLEAN]
    BY <1>1, <1>2, JobTypes
  <2> QED BY <1>1, <1>2, <1>3, <2>1 DEF TypeOK, tunnels, bounds
<1>6. InstallsInv'
  <2>1. /\ "bootstrap" \in InstallPlaces /\ "enable" \in Planned /\ "enable" \in Prepared
        /\ "bootstrap" \notin {"reap", "group", "right"} \cup Registering \cup Registered
    BY DEF InstallPlaces, Prepared, Planned, Enabled, Registering, Registered, InAgentInstall
  <2> QED BY <1>1, <1>2, <1>3, <1>4, <2>1 DEF InstallsInv, Installs
<1>7. RemovesInv'
  <2>1. admin.pc \notin RemovePlaces BY <1>2 DEF RemovePlaces, FirstSweep, Uninstalling
  <2> QED BY <1>1, <1>3, <2>1, NotRemoving
<1>8. SessionInv' BY <1>1, <1>2, CommandInSession DEF tunnels, Rest
<1> QED BY <1>5, <1>6, <1>7, <1>8 DEF RegistrationInv

LEMMA BootstrapKeeps ==
  ASSUME RegistrationInv, Bootstrap
  PROVE  RegistrationInv'
<1>1. TypeOK /\ InstallsInv /\ RemovesInv /\ SessionInv BY DEF RegistrationInv
<1>2. /\ admin.pc = "bootstrap" /\ UNCHANGED <<setup, socket, daemon, bootDone, agent, session, tunnels, bounds>>
      /\ \/ admin' = [admin EXCEPT !.pc = "failed"] /\ UNCHANGED job
         \/ admin' = [admin EXCEPT !.pc = "ps"] /\ job' = [job EXCEPT !.loaded = TRUE, !.fresh = TRUE]
  BY Zenon DEF Bootstrap, At, To
<1>3. RemovesInv' /\ SessionInv' /\ TypeOK'
  <2>1. /\ admin' \in Admin /\ admin'.cmd = admin.cmd
    <3>1. admin \in Admin /\ "failed" \in Places /\ "ps" \in Places BY <1>1, AdminTypes, PlaceNames
    <3> QED BY <1>2, <3>1 DEF Admin
  <2>2. admin.pc \notin RemovePlaces BY <1>2 DEF RemovePlaces, FirstSweep, Uninstalling
  <2>3. job' \in [plist : BOOLEAN, loaded : BOOLEAN, disabled : BOOLEAN, fresh : BOOLEAN]
    <3>1. job \in [plist : BOOLEAN, loaded : BOOLEAN, disabled : BOOLEAN, fresh : BOOLEAN] BY <1>1 DEF TypeOK
    <3> QED BY <1>1, <1>2, <3>1, JobTypes
  <2>4. TypeOK' BY <1>1, <1>2, <2>1, <2>3 DEF TypeOK, tunnels, bounds
  <2>5. SessionInv' BY <1>1, <1>2, CommandInSession DEF tunnels, Rest
  <2> QED BY <1>1, <2>1, <2>2, <2>4, <2>5, NotRemoving
<1>4. InstallsInv'
  <2>1. CASE admin' = [admin EXCEPT !.pc = "failed"] /\ UNCHANGED job
    <3>1. admin'.pc = "failed" /\ admin'.cmd = admin.cmd /\ admin'.back = admin.back
      BY <1>1, <2>1, AdminTypes, AdminMoves, PlaceNames
    <3>2. Installs => admin.back \in {"done", "reconnect"} BY <1>1 DEF InstallsInv
    <3> QED BY <1>1, <1>2, <2>1, <3>1, <3>2, InstallMovesOn DEF jobs
  <2>2. CASE admin' = [admin EXCEPT !.pc = "ps"] /\ job' = [job EXCEPT !.loaded = TRUE, !.fresh = TRUE]
    <3>1. admin'.pc = "ps" /\ admin'.cmd = admin.cmd /\ admin'.back = admin.back
      BY <1>1, <2>2, AdminTypes, AdminMoves, PlaceNames
    <3>2. job'.plist = job.plist /\ job'.disabled = job.disabled /\ job'.loaded = TRUE
      BY <1>1, <2>2 DEF TypeOK
    <3>3. /\ "ps" \in InstallPlaces /\ "bootstrap" \in Prepared /\ "bootstrap" \in Planned /\ "bootstrap" \in Enabled
          /\ "ps" \notin Registered
      BY DEF InstallPlaces, Prepared, Planned, Enabled, Registering, Registered, InAgentInstall
    <3> QED BY <1>1, <1>2, <3>1, <3>2, <3>3 DEF InstallsInv, Installs
  <2> QED BY <1>2, <2>1, <2>2
<1> QED BY <1>3, <1>4 DEF RegistrationInv

LEMMA DisableKeeps ==
  ASSUME RegistrationInv, Disable
  PROVE  RegistrationInv'
<1>1. TypeOK /\ InstallsInv /\ RemovesInv /\ SessionInv BY DEF RegistrationInv
<1>2. /\ admin.pc = "disable" /\ job' = [job EXCEPT !.disabled = TRUE] /\ admin' = [admin EXCEPT !.pc = "ps"]
      /\ UNCHANGED <<setup, socket, daemon, bootDone, agent, session, tunnels, bounds>>
  BY Zenon DEF Disable, At, To
<1>3. /\ admin' \in Admin /\ admin'.pc = "ps" /\ admin'.cmd = admin.cmd
      /\ admin'.back = admin.back /\ admin'.faulty = admin.faulty
  BY <1>1, <1>2, AdminTypes, AdminMoves, PlaceNames
<1>4. TypeOK'
  <2>1. job' \in [plist : BOOLEAN, loaded : BOOLEAN, disabled : BOOLEAN, fresh : BOOLEAN]
    BY <1>1, <1>2, JobTypes
  <2> QED BY <1>1, <1>2, <1>3, <2>1 DEF TypeOK, tunnels, bounds
<1>5. InstallsInv'
  <2>1. admin.pc \notin InstallPlaces
    BY <1>2 DEF InstallPlaces, Prepared, Planned, Enabled, Registering, Registered, InAgentInstall
  <2> QED BY <1>1, <1>3, <2>1, NotInstalling
<1>6. RemovesInv'
  <2>1. "ps" \in RemovePlaces \ {"disconnect2", "remove agent", "agent gone"} /\ "disable" \in Swept
    BY DEF RemovePlaces, FirstSweep, Uninstalling, Swept
  <2> QED BY <1>1, <1>2, <1>3, <2>1, RemovalMovesOn DEF tunnels
<1>7. SessionInv' BY <1>1, <1>2, CommandInSession DEF tunnels, Rest
<1> QED BY <1>4, <1>5, <1>6, <1>7 DEF RegistrationInv

LEMMA ListProcessesKeeps ==
  ASSUME RegistrationInv, ListProcesses
  PROVE  RegistrationInv'
<1>1. TypeOK /\ InstallsInv /\ RemovesInv /\ SessionInv BY DEF RegistrationInv
<1>2. /\ admin.pc = "ps" /\ admin' = [admin EXCEPT !.pc = "reap", !.snap = Live]
      /\ UNCHANGED <<jobs, agent, session, tunnels, bounds>>
  BY Zenon DEF ListProcesses, At
<1>3. Live \subseteq Pids /\ Live' = Live BY <1>2 DEF Live, jobs
<1>4. /\ admin' \in Admin /\ admin'.pc = "reap" /\ admin'.cmd = admin.cmd /\ admin'.snap = Live
      /\ admin'.back = admin.back /\ admin'.faulty = admin.faulty
  BY <1>1, <1>2, <1>3, PlaceNames DEF TypeOK, Admin
<1>5. TypeOK' BY <1>1, <1>2, <1>4 DEF TypeOK, tunnels, bounds, jobs
<1>6. InstallsInv'
  <2>1. /\ "reap" \in InstallPlaces /\ "ps" \in Prepared /\ "ps" \in Planned /\ "ps" \in Enabled
        /\ "ps" \in Registering /\ "reap" \notin Registered
    BY DEF InstallPlaces, Prepared, Planned, Enabled, Registering, Registered, InAgentInstall
  <2> QED BY <1>1, <1>2, <1>3, <1>4, <2>1 DEF InstallsInv, Installs, jobs
<1>7. RemovesInv'
  <2>1. "reap" \in RemovePlaces \ {"disconnect2", "remove agent", "agent gone"} /\ "ps" \in Swept
    BY DEF RemovePlaces, FirstSweep, Uninstalling, Swept
  <2> QED BY <1>1, <1>2, <1>4, <2>1, RemovalMovesOn DEF tunnels
<1>8. SessionInv' BY <1>1, <1>2, CommandInSession DEF tunnels, Rest
<1> QED BY <1>5, <1>6, <1>7, <1>8 DEF RegistrationInv

(* The daemons that were there when ps ran and are not launchd's are gone, *)
(* and since then only launchd has started one.                            *)
LEMMA ReapStraysKeeps ==
  ASSUME RegistrationInv, ReapStrays
  PROVE  RegistrationInv'
<1> DEFINE strays == Strays(admin.snap)
           next == IF Installs THEN "socket" ELSE "remove"
<1>1. TypeOK /\ InstallsInv /\ RemovesInv /\ SessionInv BY DEF RegistrationInv
<1>2. next \in {"socket", "remove"} /\ (Installs => next = "socket") /\ (~Installs => next = "remove")
  OBVIOUS
<1>3. /\ admin.pc = "reap" /\ admin' = [admin EXCEPT !.pc = next]
      /\ daemon' = [p \in Pids |-> IF p \in strays THEN Dead ELSE daemon[p]]
      /\ socket' = IF socket \in strays THEN "stale" ELSE socket
      /\ UNCHANGED <<setup, job, bootDone, agent, session, tunnels, bounds>>
  BY Zenon DEF ReapStrays, At, To
<1> HIDE DEF next
<1>4. next \in Places /\ admin \in Admin BY <1>1, <1>2, AdminTypes, PlaceNames
<1>5. /\ admin' \in Admin /\ admin'.pc = next /\ admin'.cmd = admin.cmd /\ admin'.back = admin.back
      /\ admin'.faulty = admin.faulty
  BY <1>3, <1>4, AdminMoves
<1>6. TypeOK'
  <2>1. Dead \in [kind : {"dead", "launchd", "ad hoc"}, boot : BOOLEAN] BY DEF Dead
  <2>2. daemon' \in [Pids -> [kind : {"dead", "launchd", "ad hoc"}, boot : BOOLEAN]]
    BY <1>1, <1>3, <2>1 DEF TypeOK
  <2>3. socket' \in Pids \cup {"launchd", "stale", "none"} BY <1>1, <1>3 DEF TypeOK
  <2> QED BY <1>1, <1>3, <1>5, <2>2, <2>3 DEF TypeOK, tunnels, bounds
<1>7. InstallsInv'
  <2>1. /\ "socket" \in InstallPlaces /\ "reap" \in Prepared /\ "reap" \in Planned /\ "reap" \in Enabled
        /\ "reap" \in Registering
    BY DEF InstallPlaces, Prepared, Planned, Enabled, Registering, Registered, InAgentInstall
  <2>2. ASSUME Installs, NEW p \in Live' PROVE daemon'[p].kind = "launchd"
    <3>1. Dead.kind = "dead" BY DEF Dead
    <3>2. p \in Pids /\ p \notin strays /\ daemon'[p] = daemon[p] BY <1>3, <2>2, <3>1 DEF Live
    <3>3. p \in Live BY <2>2, <3>2 DEF Live
    <3>4. p \in admin.snap \/ daemon[p].kind = "launchd" BY <1>1, <1>3, <2>2, <3>3 DEF InstallsInv
    <3> QED BY <3>2, <3>4 DEF Strays, Tracked
  <2> QED BY <1>1, <1>2, <1>3, <1>5, <2>1, <2>2 DEF InstallsInv, Installs
<1>8. RemovesInv'
  <2>1. Removes => next = "remove" BY <1>2 DEF Removes, Installs
  <2>2. "remove" \in RemovePlaces \ {"disconnect2", "remove agent", "agent gone"} /\ "reap" \in Swept
    BY DEF RemovePlaces, FirstSweep, Uninstalling, Swept
  <2> QED BY <1>1, <1>3, <1>5, <2>1, <2>2, RemovalMovesOn DEF tunnels
<1>9. SessionInv' BY <1>1, <1>3, CommandInSession DEF tunnels, Rest
<1> QED BY <1>6, <1>7, <1>8, <1>9 DEF RegistrationInv

(* An installation whose job is registered only moves on among places that *)
(* no removal has.                                                         *)
LEMMA RegisteredMovesOn ==
  ASSUME RegistrationInv, admin.pc \in Registered \ {"done"}, UNCHANGED <<jobs, agent, session, tunnels>>,
         UNCHANGED <<commands, events>>, faults' \in 0..MaxFaults, admin' \in Admin, admin'.cmd = admin.cmd,
         Installs => admin'.back \in {"done", "reconnect"}, admin'.pc \in Registered \cup {"failed"}
  PROVE  RegistrationInv'
<1>1. TypeOK /\ InstallsInv /\ RemovesInv /\ SessionInv BY DEF RegistrationInv
<1>2. TypeOK' BY <1>1, CommandTypes
<1>3. InstallsInv' BY <1>1, InstallMovesOn
<1>4. admin.pc \notin RemovePlaces /\ admin.pc \notin Rest
  BY DEF Registered, InAgentInstall, RemovePlaces, FirstSweep, Uninstalling, Rest
<1>5. RemovesInv' BY <1>1, <1>4, NotRemoving
<1>6. SessionInv' BY <1>1, <1>4, CommandInSession DEF tunnels
<1> QED BY <1>2, <1>3, <1>5, <1>6 DEF RegistrationInv

LEMMA WaitForSocketKeeps ==
  ASSUME RegistrationInv, WaitForSocket
  PROVE  RegistrationInv'
<1>1. TypeOK /\ InstallsInv BY DEF RegistrationInv
<1>2. /\ admin.pc = "socket" /\ UNCHANGED <<jobs, agent, session, tunnels, commands, events>>
      /\ \/ admin' = [admin EXCEPT !.pc = "list"] /\ UNCHANGED faults
         \/ Fault /\ admin' = [admin EXCEPT !.pc = "list", !.faulty = TRUE]
  BY Zenon DEF WaitForSocket, At, To
<1>3. admin \in Admin /\ faults \in 0..MaxFaults /\ "list" \in Places BY <1>1, PlaceNames DEF TypeOK
<1>4. admin' \in Admin /\ admin'.pc = "list" /\ admin'.cmd = admin.cmd /\ admin'.back = admin.back
  BY <1>2, <1>3 DEF Admin
<1>5. faults' \in 0..MaxFaults BY <1>1, <1>2, <1>3, FaultTypes
<1>6. "socket" \in Registered \ {"done"} /\ "list" \in Registered BY DEF Registered
<1>7. Installs => admin.back \in {"done", "reconnect"} BY <1>1 DEF InstallsInv
<1> QED BY <1>2, <1>4, <1>5, <1>6, <1>7, RegisteredMovesOn

LEMMA ListAfterInstallKeeps ==
  ASSUME RegistrationInv, ListAfterInstall
  PROVE  RegistrationInv'
<1> DEFINE t == Automatic \ up
           next == IF admin.cmd = "reload" THEN "mine" ELSE "done"
<1>1. TypeOK /\ InstallsInv BY DEF RegistrationInv
<1>2. /\ admin.pc = "list" /\ UNCHANGED <<jobs, agent, session, tunnels, commands, events>>
      /\ \/ admin' = [admin EXCEPT !.pc = "agent", !.todo = t] /\ UNCHANGED faults
         \/ NoAnswer /\ admin' = [admin EXCEPT !.pc = next, !.faulty = TRUE]
  BY Zenon DEF ListAfterInstall, At
<1>3. t \in SUBSET Conns BY <1>1 DEF TypeOK, Automatic
<1>4. next \in {"mine", "done"} OBVIOUS
<1> HIDE DEF t, next
<1>5. /\ admin \in Admin /\ faults \in 0..MaxFaults /\ "agent" \in Places /\ next \in Places
  BY <1>1, <1>4, PlaceNames DEF TypeOK
<1>6. admin' \in Admin /\ admin'.pc \in {"agent", next} /\ admin'.cmd = admin.cmd /\ admin'.back = admin.back
  BY <1>2, <1>3, <1>5 DEF Admin
<1>7. faults' \in 0..MaxFaults BY <1>1, <1>2, <1>5, NoAnswerTypes
<1>8. {"agent", "mine", "done"} \subseteq Registered /\ "list" \in Registered \ {"done"} BY DEF Registered
<1>9. Installs => admin.back \in {"done", "reconnect"} BY <1>1 DEF InstallsInv
<1> QED BY <1>2, <1>4, <1>6, <1>7, <1>8, <1>9, RegisteredMovesOn

LEMMA InstallsAgentKeeps ==
  ASSUME RegistrationInv, EnsureInvokingUserAgent \/ EnsureForAutomatic
  PROVE  RegistrationInv'
<1>1. TypeOK /\ InstallsInv BY DEF RegistrationInv
<1>2. admin.pc = "agent" BY DEF EnsureInvokingUserAgent, EnsureForAutomatic, At
<1>3. PICK next \in {"reconnect", "done"} : InstallsAgent(next)
  BY DEF EnsureInvokingUserAgent, EnsureForAutomatic
<1>4. /\ UNCHANGED <<jobs, agent, session, tunnels, bounds>>
      /\ \/ admin' = [admin EXCEPT !.pc = "agent plist", !.back = next, !.started = TRUE]
         \/ admin' = [admin EXCEPT !.pc = next]
  BY <1>3, Zenon DEF InstallsAgent
<1>5. admin \in Admin /\ faults \in 0..MaxFaults /\ next \in Places /\ "agent plist" \in Places
  BY <1>1, <1>3, PlaceNames DEF TypeOK
<1>6. /\ admin' \in Admin /\ admin'.pc \in {"agent plist", next} /\ admin'.cmd = admin.cmd
      /\ admin'.back \in {admin.back, next}
  BY <1>4, <1>5 DEF Admin
<1>7. {"agent plist", "reconnect", "done"} \subseteq Registered /\ "agent" \in Registered \ {"done"}
  BY DEF Registered, InAgentInstall
<1>8. Installs => admin.back \in {"done", "reconnect"} BY <1>1 DEF InstallsInv
<1>9. faults' \in 0..MaxFaults /\ UNCHANGED <<commands, events>> BY <1>4, <1>5 DEF bounds
<1> QED BY <1>2, <1>3, <1>4, <1>6, <1>7, <1>8, <1>9, RegisteredMovesOn

LEMMA ReconnectKeeps ==
  ASSUME RegistrationInv, NEW c \in Conns, Reconnect(c)
  PROVE  RegistrationInv'
<1> DEFINE new == {c} \cap Automatic
<1>1. TypeOK /\ InstallsInv /\ RemovesInv /\ SessionInv BY DEF RegistrationInv
<1>2. /\ admin.pc = "reconnect" /\ UNCHANGED <<jobs, agent, session, stored, userDown, commands, events>>
      /\ \/ Raise(new) /\ UNCHANGED faults
         \/ NoAnswer /\ UNCHANGED <<up, late, kept>>
         \/ UNCHANGED <<up, late, kept, faults>>
  BY Zenon DEF Reconnect, At
<1>3. \/ admin' = [admin EXCEPT !.todo = @ \ {c}]
      \/ admin' = [admin EXCEPT !.todo = @ \ {c}, !.faulty = TRUE]
  BY DEF Reconnect
<1>4. new \in SUBSET Conns OBVIOUS
<1> HIDE DEF new
<1>5. admin \in Admin BY <1>1 DEF TypeOK
<1>6. admin' \in Admin /\ admin'.pc = admin.pc /\ admin'.cmd = admin.cmd /\ admin'.back = admin.back
  <2>1. CASE admin' = [admin EXCEPT !.todo = @ \ {c}] BY <1>5, <2>1, AdminTicksOff
  <2>2. CASE admin' = [admin EXCEPT !.todo = @ \ {c}, !.faulty = TRUE] BY <1>5, <2>2, AdminTicksOff
  <2> QED BY <1>3, <2>1, <2>2
<1>7. /\ up' \subseteq Conns /\ late' \subseteq Conns /\ kept' \subseteq Conns
      /\ faults' \in 0..MaxFaults
  <2>1. /\ up \subseteq Conns /\ late \subseteq Conns /\ kept \subseteq Conns
        /\ faults \in 0..MaxFaults
    BY <1>1 DEF TypeOK
  <2> QED BY <1>1, <1>2, <1>4, <2>1, NoAnswerTypes, RaiseTypes
<1>8. TypeOK' BY <1>1, <1>2, <1>6, <1>7 DEF TypeOK, jobs
<1>9. InstallsInv'
  <2>1. "reconnect" \in Registered BY DEF Registered
  <2>2. Installs => admin.back \in {"done", "reconnect"} BY <1>1 DEF InstallsInv
  <2> QED BY <1>1, <1>2, <1>6, <2>1, <2>2, InstallMovesOn
<1>10. RemovesInv'
  <2>1. admin.pc \notin RemovePlaces BY <1>2 DEF RemovePlaces, FirstSweep, Uninstalling
  <2> QED BY <1>1, <1>6, <2>1, NotRemoving
<1>11. SessionInv'
  <2>1. session BY <1>1, <1>2 DEF SessionInv, Rest
  <2>2. /\ kept \subseteq kept'
        /\ agent.pc \in {"disconnect", "off"} => \A d \in up' : d \in up \/ d \in kept'
    BY <1>2, RaiseKeeps
  <2> QED BY <1>1, <1>2, <2>1, <2>2, SessionKept
<1> QED BY <1>8, <1>9, <1>10, <1>11 DEF RegistrationInv

LEMMA ReconnectedKeeps ==
  ASSUME RegistrationInv, Reconnected
  PROVE  RegistrationInv'
<1> DEFINE next == IF admin.cmd = "reload" THEN "mine" ELSE "done"
<1>1. TypeOK /\ InstallsInv BY DEF RegistrationInv
<1>2. /\ admin.pc = "reconnect" /\ UNCHANGED <<jobs, agent, session, tunnels, bounds>>
      /\ admin' = [admin EXCEPT !.pc = next, !.back = "done", !.started = FALSE]
  BY Zenon DEF Reconnected, At
<1>3. next \in {"mine", "done"} OBVIOUS
<1> HIDE DEF next
<1>4. admin \in Admin /\ faults \in 0..MaxFaults /\ next \in Places /\ "done" \in Places
  BY <1>1, <1>3, PlaceNames DEF TypeOK
<1>5. admin' \in Admin /\ admin'.pc = next /\ admin'.cmd = admin.cmd /\ admin'.back = "done"
  BY <1>2, <1>4 DEF Admin
<1>6. {"mine", "done"} \subseteq Registered /\ "reconnect" \in Registered \ {"done"} BY DEF Registered
<1>7. faults' \in 0..MaxFaults /\ UNCHANGED <<commands, events>> BY <1>2, <1>4 DEF bounds
<1> QED BY <1>2, <1>3, <1>5, <1>6, <1>7, RegisteredMovesOn

(* The lists of an uninstall's sweeps, and of a reload.                    *)
LEMMA ListUpKeeps ==
  ASSUME RegistrationInv, ListUp
  PROVE  RegistrationInv'
<1> DEFINE next == CASE At("list1") -> "disconnect1" [] At("list2") -> "disconnect2" [] OTHER -> "disconnect mine"
           t == IF At("mine") THEN up \cap Mine ELSE up
           place == IF At("mine") THEN "failed" ELSE next
<1>1. TypeOK /\ InstallsInv /\ RemovesInv /\ SessionInv BY DEF RegistrationInv
<1>2. /\ admin.pc \in {"list1", "list2", "mine"} /\ UNCHANGED <<jobs, agent, session, tunnels, commands, events>>
      /\ \/ admin' = [admin EXCEPT !.pc = next, !.todo = t] /\ UNCHANGED faults
         \/ /\ IF Reachable THEN Fault ELSE UNCHANGED faults
            /\ admin' = [admin EXCEPT !.pc = place, !.faulty = TRUE]
  BY Zenon DEF ListUp
<1>3. /\ admin.pc = "list1" => next = "disconnect1" /\ place = "disconnect1"
      /\ admin.pc = "list2" => next = "disconnect2" /\ place = "disconnect2" /\ t = up
      /\ admin.pc = "mine" => next = "disconnect mine" /\ place = "failed"
  BY DEF At
<1>4. t \in SUBSET Conns BY <1>1 DEF TypeOK
<1> HIDE DEF next, t, place
<1>5. admin \in Admin /\ faults \in 0..MaxFaults /\ next \in Places /\ place \in Places
  BY <1>1, <1>2, <1>3, PlaceNames DEF TypeOK
<1>6. /\ admin' \in Admin /\ admin'.pc \in {next, place} /\ admin'.cmd = admin.cmd /\ admin'.back = admin.back
      /\ ~admin'.faulty => admin'.todo = t
  BY <1>2, <1>4, <1>5 DEF Admin
<1>7. faults' \in 0..MaxFaults BY <1>1, <1>2, <1>5, FaultTypes
<1>8. CASE admin.pc = "mine"
  <2>1. "mine" \in Registered \ {"done"} /\ "disconnect mine" \in Registered BY DEF Registered
  <2>2. Installs => admin.back \in {"done", "reconnect"} BY <1>1 DEF InstallsInv
  <2> QED BY <1>2, <1>3, <1>6, <1>7, <1>8, <2>1, <2>2, RegisteredMovesOn
<1>9. CASE admin.pc \in {"list1", "list2"}
  <2>1. TypeOK' BY <1>1, <1>2, <1>6, <1>7, CommandTypes
  <2>2. InstallsInv'
    <3>1. admin.pc \notin InstallPlaces
      BY <1>9 DEF InstallPlaces, Prepared, Planned, Enabled, Registering, Registered, InAgentInstall
    <3> QED BY <1>1, <1>6, <3>1, NotInstalling
  <2>3. RemovesInv'
    <3>1. {"disconnect1", "disconnect2"} \subseteq RemovePlaces /\ {"disconnect1", "disconnect2"} \cap Swept = {}
      BY DEF RemovePlaces, FirstSweep, Uninstalling, Swept
    <3>2. admin'.pc \in {"disconnect1", "disconnect2"} /\ (admin'.pc = "disconnect2" => t = up)
      BY <1>3, <1>6, <1>9
    <3> QED BY <1>1, <1>2, <1>6, <3>1, <3>2 DEF RemovesInv, Removes, tunnels
  <2>4. SessionInv' BY <1>1, <1>2, <1>9, CommandInSession DEF tunnels, Rest
  <2> QED BY <2>1, <2>2, <2>3, <2>4 DEF RegistrationInv
<1> QED BY <1>2, <1>8, <1>9

LEMMA DisconnectForTeardownKeeps ==
  ASSUME RegistrationInv, NEW c \in Conns, DisconnectForTeardown(c)
  PROVE  RegistrationInv'
<1>1. TypeOK /\ InstallsInv /\ RemovesInv /\ SessionInv BY DEF RegistrationInv
<1>2. /\ admin.pc \in {"disconnect1", "disconnect2", "disconnect mine"}
      /\ UNCHANGED <<jobs, agent, session, stored, userDown, late, kept, commands, events>>
  BY Zenon DEF DisconnectForTeardown
<1>3. \/ /\ admin' = [admin EXCEPT !.todo = @ \ {c}]
         /\ up' = up \ {c} /\ UNCHANGED faults
      \/ /\ admin' = [admin EXCEPT !.todo = @ \ {c}, !.faulty = TRUE]
         /\ UNCHANGED up
         /\ IF Reachable THEN Fault ELSE UNCHANGED faults
  BY DEF DisconnectForTeardown
<1>4. admin \in Admin /\ up \subseteq Conns /\ faults \in 0..MaxFaults BY <1>1 DEF TypeOK
<1>5. /\ admin' \in Admin /\ admin'.pc = admin.pc /\ admin'.cmd = admin.cmd /\ admin'.back = admin.back
      /\ up' \subseteq up
      /\ ~admin'.faulty => ~admin.faulty /\ admin'.todo = admin.todo \ {c} /\ up' = up \ {c}
  <2>1. CASE admin' = [admin EXCEPT !.todo = @ \ {c}] /\ up' = up \ {c}
    BY <1>4, <2>1, AdminTicksOff
  <2>2. CASE admin' = [admin EXCEPT !.todo = @ \ {c}, !.faulty = TRUE] /\ UNCHANGED up
    BY <1>4, <2>2, AdminTicksOff
  <2> QED BY <1>3, <2>1, <2>2
<1>6. faults' \in 0..MaxFaults BY <1>1, <1>3, <1>4, FaultTypes
<1>7. TypeOK' BY <1>1, <1>2, <1>5, <1>6 DEF TypeOK, jobs
<1>8. InstallsInv'
  <2>1. CASE admin.pc = "disconnect mine"
    <3>1. "disconnect mine" \in Registered BY DEF Registered
    <3>2. Installs => admin.back \in {"done", "reconnect"} BY <1>1 DEF InstallsInv
    <3> QED BY <1>1, <1>2, <1>5, <2>1, <3>1, <3>2, InstallMovesOn
  <2>2. CASE admin.pc # "disconnect mine"
    <3>1. admin.pc \notin InstallPlaces
      BY <1>2, <2>2 DEF InstallPlaces, Prepared, Planned, Enabled, Registering, Registered, InAgentInstall
    <3> QED BY <1>1, <1>5, <3>1, NotInstalling
  <2> QED BY <2>1, <2>2
<1>9. RemovesInv'
  <2>1. admin.pc \notin Swept BY <1>2 DEF Swept
  <2> QED BY <1>1, <1>2, <1>5, <2>1 DEF RemovesInv, Removes
<1>10. SessionInv'
  <2>1. session BY <1>1, <1>2 DEF SessionInv, Rest
  <2> QED BY <1>1, <1>2, <1>5, <2>1, SessionKept
<1> QED BY <1>7, <1>8, <1>9, <1>10 DEF RegistrationInv

LEMMA DisconnectedKeeps ==
  ASSUME RegistrationInv, Disconnected
  PROVE  RegistrationInv'
<1> DEFINE next == CASE At("disconnect1") -> "list2" [] At("disconnect2") -> "bootout" [] OTHER -> "agent plist"
<1>1. TypeOK /\ InstallsInv /\ RemovesInv /\ SessionInv BY DEF RegistrationInv
<1>2. /\ admin.pc \in {"disconnect1", "disconnect2", "disconnect mine"} /\ admin.todo = {}
      /\ admin' = [admin EXCEPT !.pc = next]
      /\ UNCHANGED <<jobs, agent, session, tunnels, bounds>>
  BY Zenon DEF Disconnected, To
<1>3. /\ admin.pc = "disconnect1" => next = "list2"
      /\ admin.pc = "disconnect2" => next = "bootout"
      /\ admin.pc = "disconnect mine" => next = "agent plist"
  BY DEF At
<1> HIDE DEF next
<1>4. admin \in Admin /\ faults \in 0..MaxFaults /\ next \in Places
  BY <1>1, <1>2, <1>3, PlaceNames DEF TypeOK
<1>5. /\ admin' \in Admin /\ admin'.pc = next /\ admin'.cmd = admin.cmd /\ admin'.back = admin.back
      /\ admin'.faulty = admin.faulty
  BY <1>2, <1>4, AdminMoves
<1>6. faults' \in 0..MaxFaults /\ UNCHANGED <<commands, events>> BY <1>2, <1>4 DEF bounds
<1>7. CASE admin.pc = "disconnect mine"
  <2>1. "disconnect mine" \in Registered \ {"done"} /\ "agent plist" \in Registered
    BY DEF Registered, InAgentInstall
  <2>2. Installs => admin.back \in {"done", "reconnect"} BY <1>1 DEF InstallsInv
  <2> QED BY <1>2, <1>3, <1>5, <1>6, <1>7, <2>1, <2>2, RegisteredMovesOn
<1>8. CASE admin.pc \in {"disconnect1", "disconnect2"}
  <2>1. TypeOK' BY <1>1, <1>2, <1>5, <1>6, CommandTypes
  <2>2. InstallsInv'
    <3>1. admin.pc \notin InstallPlaces
      BY <1>8 DEF InstallPlaces, Prepared, Planned, Enabled, Registering, Registered, InAgentInstall
    <3> QED BY <1>1, <1>5, <3>1, NotInstalling
  <2>3. RemovesInv'
    <3>1. {"list2", "bootout"} \subseteq RemovePlaces /\ "list2" \notin Swept
      BY DEF RemovePlaces, FirstSweep, Uninstalling, Swept
    <3> QED BY <1>1, <1>2, <1>3, <1>5, <1>8, <3>1 DEF RemovesInv, Removes, tunnels
  <2>4. SessionInv' BY <1>1, <1>2, <1>8, CommandInSession DEF tunnels, Rest
  <2> QED BY <2>1, <2>2, <2>3, <2>4 DEF RegistrationInv
<1> QED BY <1>2, <1>7, <1>8

(* The rest of a removal.                                                  *)
LEMMA RemoveKeeps ==
  ASSUME RegistrationInv, Remove
  PROVE  RegistrationInv'
<1> DEFINE next == IF admin.cmd = "purge" THEN "clean" ELSE "done"
<1>1. TypeOK /\ InstallsInv /\ RemovesInv /\ SessionInv BY DEF RegistrationInv
<1>2. /\ admin.pc = "remove" /\ job' = [job EXCEPT !.plist = FALSE] /\ socket' = "none"
      /\ admin' = [admin EXCEPT !.pc = next]
      /\ UNCHANGED <<setup, daemon, bootDone, agent, session, tunnels, bounds>>
  BY Zenon DEF Remove, At, To
<1>3. next \in {"clean", "done"} OBVIOUS
<1> HIDE DEF next
<1>4. admin \in Admin /\ next \in Places BY <1>1, <1>3, PlaceNames DEF TypeOK
<1>5. /\ admin' \in Admin /\ admin'.pc = next /\ admin'.cmd = admin.cmd /\ admin'.faulty = admin.faulty
  BY <1>2, <1>4, AdminMoves
<1>6. TypeOK'
  <2>1. job' \in [plist : BOOLEAN, loaded : BOOLEAN, disabled : BOOLEAN, fresh : BOOLEAN]
    BY <1>1, <1>2, JobTypes
  <2> QED BY <1>1, <1>2, <1>5, <2>1 DEF TypeOK, tunnels, bounds
<1>7. InstallsInv'
  <2>1. admin.pc \notin InstallPlaces
    BY <1>2 DEF InstallPlaces, Prepared, Planned, Enabled, Registering, Registered, InAgentInstall
  <2> QED BY <1>1, <1>5, <2>1, NotInstalling
<1>8. RemovesInv'
  <2>1. {"clean", "done"} \subseteq RemovePlaces \ {"disconnect2", "remove agent", "agent gone"} /\ "remove" \in Swept
    BY DEF RemovePlaces, FirstSweep, Uninstalling, Swept
  <2> QED BY <1>1, <1>2, <1>3, <1>5, <2>1, RemovalMovesOn DEF tunnels
<1>9. SessionInv' BY <1>1, <1>2, CommandInSession DEF tunnels, Rest
<1> QED BY <1>6, <1>7, <1>8, <1>9 DEF RegistrationInv

LEMMA CleanKeeps ==
  ASSUME RegistrationInv, Clean
  PROVE  RegistrationInv'
<1>1. TypeOK /\ InstallsInv /\ RemovesInv /\ SessionInv BY DEF RegistrationInv
<1>2. /\ admin.pc = "clean" /\ stored' = {} /\ userDown' = {} /\ setup' = setup \cap {"binary"}
      /\ admin' = [admin EXCEPT !.pc = "done"]
      /\ UNCHANGED <<job, socket, daemon, bootDone, agent, session, up, late, kept, bounds>>
  BY Zenon DEF Clean, At, To
<1>3. admin' \in Admin /\ admin'.pc = "done" /\ admin'.cmd = admin.cmd /\ admin'.faulty = admin.faulty
  BY <1>1, <1>2, AdminTypes, AdminMoves, PlaceNames
<1>4. TypeOK' BY <1>1, <1>2, <1>3 DEF TypeOK, bounds
<1>5. InstallsInv'
  <2>1. admin.pc \notin InstallPlaces
    BY <1>2 DEF InstallPlaces, Prepared, Planned, Enabled, Registering, Registered, InAgentInstall
  <2> QED BY <1>1, <1>3, <2>1, NotInstalling
<1>6. RemovesInv'
  <2>1. "done" \in RemovePlaces \ {"disconnect2", "remove agent", "agent gone"} /\ "clean" \in Swept
    BY DEF RemovePlaces, Swept
  <2> QED BY <1>1, <1>2, <1>3, <2>1, RemovalMovesOn
<1>7. SessionInv' BY <1>1, <1>2, CommandInSession DEF Rest
<1> QED BY <1>4, <1>5, <1>6, <1>7 DEF RegistrationInv

LEMMA KickstartKeeps ==
  ASSUME RegistrationInv, NEW p \in Pids, Kickstart(p)
  PROVE  RegistrationInv'
<1> DEFINE d == [kind |-> "launchd", boot |-> ~bootDone]
<1>1. TypeOK /\ InstallsInv /\ RemovesInv /\ SessionInv BY DEF RegistrationInv
<1>2. d \in [kind : {"dead", "launchd", "ad hoc"}, boot : BOOLEAN] OBVIOUS
<1> HIDE DEF d
<1>3. /\ admin.pc = "kickstart" /\ UNCHANGED <<setup, job, socket, bootDone, agent, session, tunnels, bounds>>
      /\ \/ daemon' = [daemon EXCEPT ![p] = d] /\ admin' = [admin EXCEPT !.pc = "done"]
         \/ UNCHANGED daemon /\ admin' = [admin EXCEPT !.pc = "failed"]
  BY Zenon DEF Kickstart, At, To, d
<1>4. admin \in Admin /\ "done" \in Places /\ "failed" \in Places BY <1>1, PlaceNames DEF TypeOK
<1>5. admin' \in Admin /\ admin'.cmd = admin.cmd BY <1>3, <1>4 DEF Admin
<1>6. TypeOK' BY <1>1, <1>2, <1>3, <1>5 DEF TypeOK, tunnels, bounds
<1>7. admin.pc \notin InstallPlaces /\ admin.pc \notin RemovePlaces
  BY <1>3 DEF InstallPlaces, Prepared, Planned, Enabled, Registering, Registered, InAgentInstall,
              RemovePlaces, FirstSweep, Uninstalling
<1>8. InstallsInv' /\ RemovesInv' BY <1>1, <1>5, <1>7, NotInstalling, NotRemoving
<1>9. SessionInv' BY <1>1, <1>3, CommandInSession DEF tunnels, Rest
<1> QED BY <1>6, <1>8, <1>9 DEF RegistrationInv

(* The agent's installation, as part of another command or its own.        *)
LEMMA AgentInstallMovesOn ==
  ASSUME RegistrationInv, admin.pc \in InAgentInstall, UNCHANGED jobs,
         admin' \in Admin, admin'.cmd = admin.cmd, admin'.back = admin.back,
         admin'.pc \in Registered \cup {"failed"}
  PROVE  InstallsInv' /\ RemovesInv' /\ session
<1>1. InstallsInv /\ RemovesInv /\ SessionInv BY DEF RegistrationInv
<1>2. admin.pc \in Registered BY DEF Registered
<1>3. admin.pc \notin RemovePlaces /\ admin.pc \notin Rest
  BY DEF InAgentInstall, RemovePlaces, FirstSweep, Uninstalling, Rest
<1>4. Installs => admin.back \in {"done", "reconnect"} BY <1>1 DEF InstallsInv
<1> QED BY <1>1, <1>2, <1>3, <1>4, InstallMovesOn, NotRemoving DEF SessionInv

LEMMA AgentPlistKeeps ==
  ASSUME RegistrationInv, AgentPlist
  PROVE  RegistrationInv'
<1>1. TypeOK /\ SessionInv BY DEF RegistrationInv
<1>2. /\ admin.pc = "agent plist" /\ UNCHANGED <<jobs, session, tunnels, bounds>>
      /\ \/ agent' = [agent EXCEPT !.plist = TRUE] /\ admin' = [admin EXCEPT !.pc = "agent out"]
         \/ UNCHANGED agent /\ admin' = [admin EXCEPT !.pc = "done"]
  BY Zenon DEF AgentPlist, At, To
<1>3. admin \in Admin /\ agent \in Agent /\ "agent out" \in Places /\ "done" \in Places
  BY <1>1, PlaceNames DEF TypeOK
<1>4. /\ admin' \in Admin /\ admin'.cmd = admin.cmd /\ admin'.back = admin.back
      /\ admin'.pc \in {"agent out", "done"}
  BY <1>2, <1>3 DEF Admin
<1>5. agent' \in Agent /\ agent'.pc = agent.pc /\ agent'.term = agent.term /\ agent'.todo = agent.todo
  BY <1>2, <1>3 DEF Agent
<1>6. TypeOK' BY <1>1, <1>2, <1>4, <1>5 DEF TypeOK, jobs, tunnels, bounds
<1>7. {"agent out", "done"} \subseteq Registered /\ admin.pc \in InAgentInstall
  BY <1>2 DEF Registered, InAgentInstall
<1>8. InstallsInv' /\ RemovesInv' /\ session BY <1>2, <1>4, <1>7, AgentInstallMovesOn
<1>9. SessionInv' BY <1>1, <1>2, <1>5, <1>8 DEF SessionInv, tunnels
<1> QED BY <1>6, <1>8, <1>9 DEF RegistrationInv

LEMMA AgentOutKeeps ==
  ASSUME RegistrationInv, AgentOut
  PROVE  RegistrationInv'
<1> DEFINE next == IF At("agent out") THEN "agent wait" ELSE "agent gone"
<1>1. TypeOK /\ InstallsInv /\ RemovesInv /\ SessionInv BY DEF RegistrationInv
<1>2. /\ admin.pc \in {"agent out", "remove agent"} /\ agent' = Unloaded /\ kept' = KeptAtTerm
      /\ admin' = [admin EXCEPT !.pc = next]
      /\ UNCHANGED <<jobs, session, stored, up, userDown, late, bounds>>
  BY Zenon DEF AgentOut, To
<1>3. /\ next \in {"agent wait", "agent gone"} /\ (admin.pc = "agent out" => next = "agent wait")
      /\ (admin.pc = "remove agent" => next = "agent gone")
  BY DEF At
<1> HIDE DEF next
<1>4. admin \in Admin /\ next \in Places BY <1>1, <1>3, PlaceNames DEF TypeOK
<1>5. /\ admin' \in Admin /\ admin'.pc = next /\ admin'.cmd = admin.cmd /\ admin'.back = admin.back
      /\ admin'.faulty = admin.faulty
  BY <1>2, <1>4, AdminMoves
<1>6. /\ Unloaded \in Agent /\ Unloaded.loaded = FALSE /\ Unloaded.pc = agent.pc
      /\ Unloaded.todo = agent.todo /\ Unloaded.term = (agent.pc # "off")
  BY <1>1, UnloadedTypes
<1>7. session' BY <1>1, <1>2 DEF SessionInv, Rest
<1>8. SessionInv' /\ kept' \subseteq Conns BY <1>2, <1>6, <1>7, UnloadedKeeps
<1>9. TypeOK' BY <1>1, <1>2, <1>5, <1>6, <1>8 DEF TypeOK, jobs, bounds
<1>10. CASE admin.pc = "agent out"
  <2>1. "agent wait" \in Registered /\ admin.pc \in InAgentInstall BY <1>10 DEF Registered, InAgentInstall
  <2> QED BY <1>2, <1>3, <1>5, <1>8, <1>9, <1>10, <2>1, AgentInstallMovesOn DEF RegistrationInv
<1>11. CASE admin.pc = "remove agent"
  <2>1. InstallsInv'
    <3>1. admin.pc \notin InstallPlaces
      BY <1>11 DEF InstallPlaces, Prepared, Planned, Enabled, Registering, Registered, InAgentInstall
    <3> QED BY <1>1, <1>5, <3>1, NotInstalling
  <2>2. RemovesInv'
    <3>1. "agent gone" \in RemovePlaces /\ "agent gone" \notin Swept BY DEF RemovePlaces, Swept
    <3> QED BY <1>1, <1>3, <1>5, <1>11, <3>1 DEF RemovesInv, Removes
  <2> QED BY <1>8, <1>9, <2>1, <2>2 DEF RegistrationInv
<1> QED BY <1>2, <1>10, <1>11

LEMMA AgentGoneKeeps ==
  ASSUME RegistrationInv, AgentGone
  PROVE  RegistrationInv'
<1> DEFINE next == IF admin.cmd = "purge" THEN "list1" ELSE "done"
<1>1. TypeOK /\ InstallsInv /\ RemovesInv /\ SessionInv BY DEF RegistrationInv
<1>2. /\ admin.pc \in {"agent wait", "agent gone"} /\ agent.pc = "off"
      /\ UNCHANGED <<jobs, session, tunnels, bounds>>
      /\ \/ /\ admin.pc = "agent wait" /\ admin' = [admin EXCEPT !.pc = "agent enable"] /\ UNCHANGED agent
         \/ /\ admin.pc = "agent gone" /\ admin' = [admin EXCEPT !.pc = next]
            /\ agent' = [agent EXCEPT !.plist = FALSE]
  BY DEF AgentGone, At, To
<1>3. next \in {"list1", "done"} /\ (admin.cmd = "purge" => next = "list1") OBVIOUS
<1> HIDE DEF next
<1>4. admin \in Admin /\ agent \in Agent /\ next \in Places /\ "agent enable" \in Places
  BY <1>1, <1>3, PlaceNames DEF TypeOK
<1>5. /\ admin' \in Admin /\ admin'.cmd = admin.cmd /\ admin'.back = admin.back
      /\ admin'.pc = IF admin.pc = "agent wait" THEN "agent enable" ELSE next
  BY <1>2, <1>4 DEF Admin
<1>6. agent' \in Agent /\ agent'.pc = "off"
  BY <1>2, <1>4 DEF Agent
<1>7. TypeOK' BY <1>1, <1>2, <1>5, <1>6 DEF TypeOK, jobs, tunnels, bounds
<1>8. session' BY <1>1, <1>2 DEF SessionInv, Rest
<1>9. SessionInv' BY <1>6, <1>8 DEF SessionInv
<1>10. CASE admin.pc = "agent wait"
  <2>1. "agent enable" \in Registered /\ admin.pc \in InAgentInstall BY <1>10 DEF Registered, InAgentInstall
  <2> QED BY <1>2, <1>5, <1>7, <1>9, <1>10, <2>1, AgentInstallMovesOn DEF RegistrationInv
<1>11. CASE admin.pc = "agent gone"
  <2>1. InstallsInv'
    <3>1. admin.pc \notin InstallPlaces
      BY <1>11 DEF InstallPlaces, Prepared, Planned, Enabled, Registering, Registered, InAgentInstall
    <3> QED BY <1>1, <1>5, <3>1, NotInstalling
  <2>2. RemovesInv'
    <3>1. "list1" \in RemovePlaces /\ "list1" \notin Swept BY DEF RemovePlaces, FirstSweep, Swept
    <3>2. Removes => admin.cmd = "purge" BY <1>1, <1>11 DEF RemovesInv
    <3> QED BY <1>1, <1>3, <1>5, <1>11, <3>1, <3>2 DEF RemovesInv, Removes
  <2> QED BY <1>7, <1>9, <2>1, <2>2 DEF RegistrationInv
<1> QED BY <1>2, <1>10, <1>11

LEMMA AgentEnableKeeps ==
  ASSUME RegistrationInv, AgentEnable
  PROVE  RegistrationInv'
<1>1. TypeOK /\ SessionInv BY DEF RegistrationInv
<1>2. /\ admin.pc = "agent enable" /\ agent' = [agent EXCEPT !.disabled = FALSE]
      /\ admin' = [admin EXCEPT !.pc = "agent boot"] /\ UNCHANGED <<jobs, session, tunnels, bounds>>
  BY Zenon DEF AgentEnable, At, To
<1>3. admin \in Admin /\ agent \in Agent /\ "agent boot" \in Places BY <1>1, PlaceNames DEF TypeOK
<1>4. /\ admin' \in Admin /\ admin'.cmd = admin.cmd /\ admin'.back = admin.back /\ admin'.pc = "agent boot"
  BY <1>2, <1>3, AdminMoves
<1>5. agent' \in Agent /\ agent'.pc = agent.pc /\ agent'.term = agent.term /\ agent'.todo = agent.todo
  BY <1>2, <1>3 DEF Agent
<1>6. TypeOK' BY <1>1, <1>2, <1>4, <1>5 DEF TypeOK, jobs, tunnels, bounds
<1>7. "agent boot" \in Registered /\ admin.pc \in InAgentInstall BY <1>2 DEF Registered, InAgentInstall
<1>8. InstallsInv' /\ RemovesInv' /\ session BY <1>2, <1>4, <1>7, AgentInstallMovesOn
<1>9. SessionInv' BY <1>1, <1>2, <1>5, <1>8 DEF SessionInv, tunnels
<1> QED BY <1>6, <1>8, <1>9 DEF RegistrationInv

LEMMA AgentBootKeeps ==
  ASSUME RegistrationInv, AgentBoot
  PROVE  RegistrationInv'
<1>1. TypeOK /\ InstallsInv /\ RemovesInv /\ SessionInv BY DEF RegistrationInv
<1>2. /\ admin.pc = "agent boot" /\ UNCHANGED <<jobs, session, tunnels, bounds>>
      /\ \/ admin' = [admin EXCEPT !.pc = "failed"] /\ UNCHANGED agent
         \/ /\ agent' = [agent EXCEPT !.loaded = TRUE, !.pc = "list"]
            /\ admin' = [admin EXCEPT !.pc = admin.back]
  BY Zenon DEF AgentBoot, At, To
<1>3. admin \in Admin /\ agent \in Agent /\ admin.back \in Places /\ "failed" \in Places
  BY <1>1, AdminTypes, PlaceNames DEF TypeOK
<1>4. /\ admin' \in Admin /\ admin'.cmd = admin.cmd /\ admin'.back = admin.back
      /\ admin'.pc \in {"failed", admin.back}
  BY <1>2, <1>3 DEF Admin
<1>5. agent' \in Agent /\ (agent' = agent \/ agent'.pc = "list")
  BY <1>2, <1>3 DEF Agent
<1>6. TypeOK' BY <1>1, <1>2, <1>4, <1>5 DEF TypeOK, jobs, tunnels, bounds
<1>7. InstallsInv'
  <2>1. CASE Installs
    <3>1. admin.back \in {"done", "reconnect"} BY <1>1, <2>1 DEF InstallsInv
    <3>2. {"agent boot", "done", "reconnect"} \subseteq Registered BY DEF Registered, InAgentInstall
    <3> QED BY <1>1, <1>2, <1>4, <3>1, <3>2, InstallMovesOn
  <2>2. CASE ~Installs BY <1>4, <2>2 DEF InstallsInv, Installs
  <2> QED BY <2>1, <2>2
<1>8. RemovesInv'
  <2>1. admin.pc \notin RemovePlaces BY <1>2 DEF RemovePlaces, FirstSweep, Uninstalling
  <2> QED BY <1>1, <1>4, <2>1, NotRemoving
<1>9. session BY <1>1, <1>2 DEF SessionInv, Rest
<1>10. SessionInv' BY <1>1, <1>2, <1>5, <1>9 DEF SessionInv, tunnels
<1> QED BY <1>6, <1>7, <1>8, <1>10 DEF RegistrationInv

LEMMA ConnectAndEnsureKeeps ==
  ASSUME RegistrationInv, NEW c \in Conns, ConnectAndEnsure(c)
  PROVE  RegistrationInv'
<1> DEFINE next == IF c \in Mine THEN "agent" ELSE "done"
<1>1. TypeOK /\ InstallsInv /\ RemovesInv /\ SessionInv BY DEF RegistrationInv
<1>2. /\ admin.pc = "connect" /\ UNCHANGED <<jobs, agent, session, stored, commands, events>>
      /\ \/ /\ Raise({c}) /\ userDown' = userDown \ {c} /\ UNCHANGED faults
            /\ admin' = [admin EXCEPT !.pc = next]
         \/ /\ NoAnswer /\ UNCHANGED <<up, late, kept, userDown>>
            /\ admin' = [admin EXCEPT !.pc = "failed", !.faulty = TRUE]
  BY Zenon DEF ConnectAndEnsure, At, To
<1>3. next \in {"agent", "done"} OBVIOUS
<1> HIDE DEF next
<1>4. admin \in Admin /\ faults \in 0..MaxFaults /\ next \in Places /\ "failed" \in Places
  BY <1>1, <1>3, PlaceNames DEF TypeOK
<1>5. admin' \in Admin /\ admin'.cmd = admin.cmd BY <1>2, <1>4 DEF Admin
<1>6. /\ up' \subseteq Conns /\ late' \subseteq Conns /\ kept' \subseteq Conns /\ userDown' \subseteq Conns
      /\ faults' \in 0..MaxFaults
  <2>1. up \subseteq Conns /\ late \subseteq Conns /\ kept \subseteq Conns /\ userDown \subseteq Conns
    BY <1>1 DEF TypeOK
  <2>2. CASE Raise({c}) /\ userDown' = userDown \ {c} /\ UNCHANGED faults
    <3>1. {c} \in SUBSET Conns OBVIOUS
    <3> QED BY <1>1, <1>4, <2>1, <2>2, <3>1, RaiseTypes
  <2>3. CASE NoAnswer /\ UNCHANGED <<up, late, kept, userDown>>
    BY <1>1, <2>1, <2>3, NoAnswerTypes
  <2> QED BY <1>2, <2>2, <2>3
<1>7. TypeOK' BY <1>1, <1>2, <1>5, <1>6 DEF TypeOK, jobs
<1>8. InstallsInv' /\ RemovesInv'
  <2>1. admin.pc \notin InstallPlaces /\ admin.pc \notin RemovePlaces
    BY <1>2 DEF InstallPlaces, Prepared, Planned, Enabled, Registering, Registered, InAgentInstall,
                RemovePlaces, FirstSweep, Uninstalling
  <2> QED BY <1>1, <1>5, <2>1, NotInstalling, NotRemoving
<1>9. SessionInv'
  <2>1. session BY <1>1, <1>2 DEF SessionInv, Rest
  <2>2. /\ kept \subseteq kept'
        /\ agent.pc \in {"disconnect", "off"} => \A d \in up' : d \in up \/ d \in kept'
    BY <1>2, RaiseKeeps
  <2> QED BY <1>1, <1>2, <2>1, <2>2, SessionKept
<1> QED BY <1>7, <1>8, <1>9 DEF RegistrationInv

-----------------------------------------------------------------------------
(***************************************************************************)
(* The invariant.                                                          *)
(***************************************************************************)

LEMMA RegistrationInit == Init => RegistrationInv
<1> SUFFICES ASSUME Init PROVE RegistrationInv
  OBVIOUS
<1>1. PICK installed \in BOOLEAN, withAgent \in BOOLEAN :
        /\ setup = IF installed THEN Parts ELSE {"binary"}
        /\ job = [plist |-> installed, loaded |-> installed, disabled |-> FALSE, fresh |-> FALSE]
        /\ socket = IF installed THEN "launchd" ELSE "none"
        /\ agent = [plist |-> withAgent, loaded |-> withAgent, disabled |-> FALSE, term |-> FALSE,
                    todo |-> {}, pc |-> IF withAgent THEN "list" ELSE "off"]
  BY DEF Init
<1>2. /\ admin = NoAdmin /\ daemon = [p \in Pids |-> Dead] /\ bootDone = FALSE /\ session = TRUE
      /\ stored = Conns /\ up = {} /\ userDown = {} /\ late = {} /\ kept = {}
      /\ commands = MaxCommands /\ events = MaxEvents /\ faults = MaxFaults
  BY DEF Init
<1>3. admin \in Admin /\ admin.cmd = "none" BY <1>2, PlaceNames DEF NoAdmin, Admin
<1>4. agent \in Agent /\ agent.pc # "disconnect" BY <1>1 DEF Agent
<1>5. TypeOK
  <2>1. setup \subseteq Parts BY <1>1 DEF Parts
  <2>2. job \in [plist : BOOLEAN, loaded : BOOLEAN, disabled : BOOLEAN, fresh : BOOLEAN] BY <1>1
  <2>3. socket \in Pids \cup {"launchd", "stale", "none"} BY <1>1
  <2>4. daemon \in [Pids -> [kind : {"dead", "launchd", "ad hoc"}, boot : BOOLEAN]] BY <1>2 DEF Dead
  <2>5. commands \in 0..MaxCommands /\ events \in 0..MaxEvents /\ faults \in 0..MaxFaults
    BY <1>2, RegistrationAssumption
  <2> QED BY <1>2, <1>3, <1>4, <2>1, <2>2, <2>3, <2>4, <2>5 DEF TypeOK
<1>6. InstallsInv /\ RemovesInv BY <1>3 DEF InstallsInv, Installs, RemovesInv, Removes
<1>7. SessionInv BY <1>2, <1>4 DEF SessionInv
<1> QED BY <1>5, <1>6, <1>7 DEF RegistrationInv

LEMMA RegistrationStep == RegistrationInv /\ [Next]_vars => RegistrationInv'
<1> SUFFICES ASSUME RegistrationInv, [Next]_vars PROVE RegistrationInv'
  OBVIOUS
<1>1. CASE \E c \in Commands : Begin(c) BY <1>1, BeginKeeps
<1>2. CASE Fails BY <1>2, FailsKeeps
<1>3. CASE CommandStep
  <2>1. CASE InstallBinary \/ EnsureGroup \/ RegisterRight BY <2>1, MakesKeeps
  <2>2. CASE WritePlist BY <2>2, WritePlistKeeps
  <2>3. CASE Bootout BY <2>3, BootoutKeeps
  <2>4. CASE Enable BY <2>4, EnableKeeps
  <2>5. CASE Bootstrap BY <2>5, BootstrapKeeps
  <2>6. CASE Disable BY <2>6, DisableKeeps
  <2>7. CASE ListProcesses BY <2>7, ListProcessesKeeps
  <2>8. CASE ReapStrays BY <2>8, ReapStraysKeeps
  <2>9. CASE WaitForSocket BY <2>9, WaitForSocketKeeps
  <2>10. CASE ListAfterInstall BY <2>10, ListAfterInstallKeeps
  <2>11. CASE EnsureInvokingUserAgent \/ EnsureForAutomatic BY <2>11, InstallsAgentKeeps
  <2>12. CASE Reconnected BY <2>12, ReconnectedKeeps
  <2>13. CASE ListUp BY <2>13, ListUpKeeps
  <2>14. CASE Disconnected BY <2>14, DisconnectedKeeps
  <2>15. CASE Remove BY <2>15, RemoveKeeps
  <2>16. CASE Clean BY <2>16, CleanKeeps
  <2>17. CASE AgentPlist BY <2>17, AgentPlistKeeps
  <2>18. CASE AgentOut BY <2>18, AgentOutKeeps
  <2>19. CASE AgentGone BY <2>19, AgentGoneKeeps
  <2>20. CASE AgentEnable BY <2>20, AgentEnableKeeps
  <2>21. CASE AgentBoot BY <2>21, AgentBootKeeps
  <2>22. ASSUME NEW p \in Pids, Kickstart(p) PROVE RegistrationInv' BY <2>22, KickstartKeeps
  <2>23. ASSUME NEW c \in Conns, Reconnect(c) PROVE RegistrationInv' BY <2>23, ReconnectKeeps
  <2>24. ASSUME NEW c \in Conns, DisconnectForTeardown(c) PROVE RegistrationInv'
    BY <2>24, DisconnectForTeardownKeeps
  <2>25. ASSUME NEW c \in Conns, ConnectAndEnsure(c) PROVE RegistrationInv'
    BY <2>25, ConnectAndEnsureKeeps
  <2> QED
    BY <1>3, <2>1, <2>2, <2>3, <2>4, <2>5, <2>6, <2>7, <2>8, <2>9, <2>10, <2>11, <2>12, <2>13,
       <2>14, <2>15, <2>16, <2>17, <2>18, <2>19, <2>20, <2>21, <2>22, <2>23, <2>24, <2>25
       DEF CommandStep
<1>4. CASE AgentStep
  <2>1. CASE AgentLists BY <2>1, AgentListsKeeps
  <2>2. CASE AgentConnected BY <2>2, AgentConnectedKeeps
  <2>3. CASE AgentTerminates BY <2>3, AgentTerminatesKeeps
  <2>4. CASE AgentEnds BY <2>4, AgentEndsKeeps
  <2>5. ASSUME NEW c \in Conns, AgentConnects(c) PROVE RegistrationInv' BY <2>5, AgentConnectsKeeps
  <2>6. ASSUME NEW c \in Conns, AgentDisconnects(c) PROVE RegistrationInv'
    BY <2>6, AgentDisconnectsKeeps
  <2> QED BY <1>4, <2>1, <2>2, <2>3, <2>4, <2>5, <2>6 DEF AgentStep
<1>5. CASE AgentKilled BY <1>5, AgentKilledKeeps
<1>6. CASE LaunchdStep
  <2>1. CASE SocketAppears BY <2>1, SocketAppearsKeeps
  <2>2. ASSUME NEW p \in Pids, Spawn(p) PROVE RegistrationInv' BY <2>2, SpawnKeeps
  <2>3. ASSUME NEW p \in Pids, ReconcileBoot(p) PROVE RegistrationInv' BY <2>3, ReconcileBootKeeps
  <2> QED BY <1>6, <2>1, <2>2, <2>3 DEF LaunchdStep
<1>7. CASE Login BY <1>7, LoginKeeps
<1>8. CASE Environment
  <2>1. ASSUME NEW p \in Pids, Exits(p) PROVE RegistrationInv' BY <2>1, ExitsKeeps
  <2>2. ASSUME NEW p \in Pids, AdHoc(p) PROVE RegistrationInv' BY <2>2, AdHocKeeps
  <2>3. ASSUME NEW c \in Conns, UserConnects(c) PROVE RegistrationInv' BY <2>3, UserConnectsKeeps
  <2>4. ASSUME NEW c \in Conns, UserDisconnects(c) PROVE RegistrationInv' BY <2>4, UserDisconnectsKeeps
  <2>5. CASE LoginItemOff BY <2>5, LoginItemOffKeeps
  <2>6. CASE Logout BY <2>6, LogoutKeeps
  <2>7. CASE Reboot BY <2>7, RebootKeeps
  <2> QED BY <1>8, <2>1, <2>2, <2>3, <2>4, <2>5, <2>6, <2>7 DEF Environment
<1>9. CASE UNCHANGED vars
  <2>1. TypeOK /\ InstallsInv /\ RemovesInv /\ SessionInv BY DEF RegistrationInv
  <2>2. TypeOK' BY <1>9, <2>1 DEF TypeOK, vars, jobs, tunnels, bounds
  <2>3. InstallsInv' BY <1>9, <2>1, InstallsKept DEF vars, jobs
  <2>4. RemovesInv' BY <1>9, <2>1, RemovesKept DEF vars, tunnels
  <2>5. SessionInv' BY <1>9, <2>1 DEF SessionInv, vars, tunnels
  <2> QED BY <2>2, <2>3, <2>4, <2>5 DEF RegistrationInv
<1> QED BY <1>1, <1>2, <1>3, <1>4, <1>5, <1>6, <1>7, <1>8, <1>9 DEF Next

LEMMA RegistrationAlways == Spec => []RegistrationInv
<1>1. Init => RegistrationInv BY RegistrationInit
<1>2. RegistrationInv /\ [Next]_vars => RegistrationInv' BY RegistrationStep
<1> QED BY <1>1, <1>2, PTL DEF Spec

(* cmd_install: whatever commands failed or were interrupted before, an    *)
(* install or a reload that gets past its registration has the daemon's    *)
(* job registered, and no daemon runs that launchd does not know.          *)
THEOREM InstallsHeal == Spec => []InstallInv
<1>1. RegistrationInv => InstallInv
  <2> SUFFICES ASSUME RegistrationInv PROVE InstallHeals
    BY DEF InstallInv, RegistrationInv
  <2>1. /\ {"socket", "list", "agent", "reconnect", "mine", "done"} \subseteq Registered
        /\ Registered \subseteq Registering /\ Registered \subseteq Enabled
        /\ Registered \subseteq Planned /\ Registered \subseteq Prepared
    BY DEF Prepared, Planned, Enabled, Registering, Registered
  <2> QED BY <2>1 DEF RegistrationInv, InstallsInv, InstallHeals, TypeOK, Parts
<1>2. Spec => []RegistrationInv BY RegistrationAlways
<1> QED BY <1>1, <1>2, PTL

(* uninstall_daemon_core, session_agent::run: a tunnel that is left after  *)
(* an uninstall without failures came up past its second sweep, and one of *)
(* a user who has logged out past the agent's own end.                     *)
THEOREM TunnelsEndForAll == Spec => []TunnelsEnd
<1>1. RegistrationInv => TunnelsEnd
  BY DEF TunnelsEnd, UninstallLeavesNoTunnel, LogoutEndsTunnels, RegistrationInv, RemovesInv, Removes,
         SessionInv, Swept
<1>2. Spec => []RegistrationInv BY RegistrationAlways
<1> QED BY <1>1, <1>2, PTL

-----------------------------------------------------------------------------
(***************************************************************************)
(* What a step of a command may do.                                        *)
(***************************************************************************)

(* Only an installation enables and bootstraps, a job that its bootout has *)
(* unloaded; the agent's label is enabled when it is bootstrapped.         *)
OrderInv ==
  /\ admin.back \in {"idle", "done", "reconnect"}
  /\ admin.pc \in {"enable", "bootstrap"} => Installs /\ (admin.faulty \/ ~job.loaded)
  /\ admin.pc = "agent boot" => ~agent.disabled

(* A step that keeps this, fails only for a failure, and spares launchd's  *)
(* daemon when it reaps.                                                   *)
FailsForAFailure == admin'.pc = "failed" /\ admin.pc # "failed" => faults' # faults \/ admin'.faulty \/ At("kickstart")
SparesTracked == At("reap") /\ admin'.pc \in {"socket", "remove"} => Tracked \subseteq Tracked'
Orderly == OrderInv' /\ FailsForAFailure /\ SparesTracked

(* Nobody but a command moves it.                                          *)
LEMMA OthersAreOrderly ==
  ASSUME OrderInv, admin' = admin, job'.loaded = job.loaded,
         agent'.disabled = agent.disabled \/ admin.pc \in Rest
  PROVE  Orderly
BY DEF Orderly, OrderInv, FailsForAFailure, SparesTracked, At, Installs, Rest

LEMMA AgentIsOrderly ==
  ASSUME RegistrationInv, OrderInv, AgentStep \/ AgentKilled \/ Login
  PROVE  Orderly
<1>1. agent \in Agent BY DEF RegistrationInv, TypeOK
<1>2. CASE AgentStep
  <2>1. UNCHANGED agentOnly
    BY <1>2, Zenon DEF AgentStep, AgentLists, AgentConnected, AgentTerminates, AgentEnds, AgentConnects, AgentDisconnects
  <2>2. AgentLists => agent'.disabled = agent.disabled BY <1>1 DEF AgentLists, Agent
  <2>3. AgentConnected => agent'.disabled = agent.disabled BY <1>1 DEF AgentConnected, Agent
  <2>4. AgentTerminates => agent'.disabled = agent.disabled BY <1>1 DEF AgentTerminates, Agent
  <2>5. AgentEnds => agent'.disabled = agent.disabled BY <1>1 DEF AgentEnds, Agent
  <2>6. ASSUME NEW c \in Conns, AgentConnects(c) \/ AgentDisconnects(c) PROVE agent'.disabled = agent.disabled
    BY <1>1, <2>6 DEF AgentConnects, AgentDisconnects, Agent
  <2>7. agent'.disabled = agent.disabled BY <1>2, <2>2, <2>3, <2>4, <2>5, <2>6 DEF AgentStep
  <2> QED BY <2>1, <2>7, OthersAreOrderly DEF agentOnly, jobs
<1>3. CASE AgentKilled
  <2>1. UNCHANGED agentOnly BY <1>3, Zenon DEF AgentKilled
  <2>2. agent'.disabled = agent.disabled BY <1>1, <1>3 DEF AgentKilled, Agent
  <2> QED BY <2>1, <2>2, OthersAreOrderly DEF agentOnly, jobs
<1>4. CASE Login
  <2>1. agent'.disabled = agent.disabled BY <1>1, <1>4 DEF Login, Agent
  <2> QED BY <1>4, <2>1, OthersAreOrderly DEF Login, jobs
<1> QED BY <1>2, <1>3, <1>4

LEMMA EnvironmentIsOrderly ==
  ASSUME RegistrationInv, OrderInv, LaunchdStep \/ Environment
  PROVE  Orderly
<1>1. job \in [plist : BOOLEAN, loaded : BOOLEAN, disabled : BOOLEAN, fresh : BOOLEAN]
  BY DEF RegistrationInv, TypeOK
<1>2. CASE SocketAppears
  <2>1. job'.loaded = job.loaded BY <1>1, <1>2 DEF SocketAppears
  <2> QED BY <1>2, <2>1, OthersAreOrderly DEF SocketAppears
<1>3. ASSUME NEW p \in Pids, Spawn(p) \/ ReconcileBoot(p) \/ Exits(p) \/ AdHoc(p) PROVE Orderly
  <2>1. UNCHANGED <<admin, job, agent>>
    BY <1>3, Zenon DEF Spawn, ReconcileBoot, Exits, AdHoc
  <2> QED BY <2>1, OthersAreOrderly
<1>4. ASSUME NEW c \in Conns, UserConnects(c) \/ UserDisconnects(c) PROVE Orderly
  <2>1. UNCHANGED <<admin, jobs, agent>> BY <1>4, Zenon DEF UserConnects, UserDisconnects
  <2> QED BY <2>1, OthersAreOrderly DEF jobs
<1>5. CASE LoginItemOff \/ Logout
  <2>1. UNCHANGED <<admin, jobs>> /\ admin.pc \in Rest BY <1>5, Zenon DEF LoginItemOff, Logout
  <2> QED BY <2>1, OthersAreOrderly DEF jobs
<1>6. CASE Reboot
  <2>1. admin' = NoAdmin BY <1>6, Zenon DEF Reboot
  <2>2. admin'.pc = "idle" /\ admin'.back = "idle" BY <2>1 DEF NoAdmin
  <2> QED BY <2>2 DEF Orderly, OrderInv, FailsForAFailure, SparesTracked
<1> QED BY <1>2, <1>3, <1>4, <1>5, <1>6 DEF LaunchdStep, Environment

LEMMA BeginIsOrderly ==
  ASSUME RegistrationInv, OrderInv, NEW c \in Commands, Begin(c)
  PROVE  Orderly
<1> DEFINE a == [NoAdmin EXCEPT !.cmd = c, !.pc = First[c], !.back = "done"]
<1>1. admin' = a BY Zenon DEF Begin
<1>2. c \in AllCommands BY RegistrationAssumption
<1>3. First[c] \in {"binary", "kickstart", "list1", "agent plist", "connect", "remove agent"}
  BY <1>2 DEF First, AllCommands
<1>4. a.pc = First[c] /\ a.back = "done" BY DEF NoAdmin
<1> QED BY <1>1, <1>3, <1>4 DEF Orderly, OrderInv, FailsForAFailure, SparesTracked

LEMMA FailsIsOrderly ==
  ASSUME RegistrationInv, OrderInv, Fails
  PROVE  Orderly
<1>1. admin \in Admin /\ faults \in Nat
  <2>1. TypeOK /\ MaxFaults \in Nat BY RegistrationAssumption DEF RegistrationInv
  <2>2. admin \in Admin /\ faults \in 0..MaxFaults BY <2>1 DEF TypeOK
  <2> QED BY <2>1, <2>2
<1>2. faults' # faults BY <1>1 DEF Fails, Fault
<1>3. admin'.pc \in {"failed", "reconnect"} /\ admin'.back = admin.back
  BY <1>1 DEF Fails, Admin
<1> QED BY <1>2, <1>3 DEF Orderly, OrderInv, FailsForAFailure, SparesTracked

(* A command step that neither enables nor bootstraps nor fails.           *)
LEMMA MostStepsAreOrderly ==
  ASSUME OrderInv, admin'.back \in {"idle", "done", "reconnect"},
         admin.pc # "reap", admin'.pc \notin {"enable", "bootstrap", "agent boot"},
         admin'.pc = "failed" => admin'.faulty
  PROVE  Orderly
BY DEF Orderly, OrderInv, FailsForAFailure, SparesTracked, At

LEMMA CommandIsOrderly ==
  ASSUME RegistrationInv, OrderInv, CommandStep
  PROVE  Orderly
<1> USE DEF To, At
<1>1. TypeOK /\ InstallsInv BY DEF RegistrationInv
<1>2. /\ admin \in Admin /\ admin.back \in {"idle", "done", "reconnect"}
      /\ agent \in Agent
      /\ job \in [plist : BOOLEAN, loaded : BOOLEAN, disabled : BOOLEAN, fresh : BOOLEAN]
  BY <1>1 DEF TypeOK, OrderInv
<1>3. CASE InstallBinary BY <1>2, <1>3, MostStepsAreOrderly DEF InstallBinary, Makes, Admin
<1>4. CASE EnsureGroup BY <1>2, <1>4, MostStepsAreOrderly DEF EnsureGroup, Makes, Admin
<1>5. CASE RegisterRight BY <1>2, <1>5, MostStepsAreOrderly DEF RegisterRight, Makes, Admin
<1>6. CASE WritePlist BY <1>2, <1>6, MostStepsAreOrderly DEF WritePlist, Admin
<1>7. CASE Bootout
  <2>1. /\ admin'.pc = IF Installs THEN "enable" ELSE "disable"
        /\ admin'.back = admin.back /\ admin'.cmd = admin.cmd /\ admin.pc = "bootout"
        /\ admin'.faulty \/ ~job'.loaded
    BY <1>2, <1>7 DEF Bootout, Admin
  <2> QED BY <1>2, <2>1 DEF Orderly, OrderInv, FailsForAFailure, SparesTracked, Installs
<1>8. CASE Enable
  <2>1. /\ admin'.pc = "bootstrap" /\ admin'.back = admin.back /\ admin'.cmd = admin.cmd
        /\ admin'.faulty = admin.faulty /\ admin.pc = "enable" /\ job'.loaded = job.loaded
    BY <1>2, <1>8 DEF Enable, Admin
  <2> QED BY <1>2, <2>1 DEF Orderly, OrderInv, FailsForAFailure, SparesTracked, Installs
<1>9. CASE Bootstrap
  <2>1. admin.pc = "bootstrap" BY <1>9 DEF Bootstrap
  <2>2. "bootstrap" \in Enabled BY DEF Enabled
  <2>3. ~job.disabled /\ (admin.faulty \/ ~job.loaded)
    BY <1>1, <2>1, <2>2 DEF OrderInv, InstallsInv
  <2>4. /\ admin'.pc \in {"failed", "ps"} /\ admin'.back = admin.back
        /\ admin'.pc = "failed" => admin'.faulty
    BY <1>2, <1>9, <2>3 DEF Bootstrap, Admin
  <2> QED BY <1>2, <2>1, <2>4, MostStepsAreOrderly
<1>10. CASE Disable BY <1>2, <1>10, MostStepsAreOrderly DEF Disable, Admin
<1>11. CASE ListProcesses BY <1>2, <1>11, MostStepsAreOrderly DEF ListProcesses, Admin
<1>12. CASE ReapStrays
  <2>1. admin'.pc \in {"socket", "remove"} /\ admin'.back = admin.back
    BY <1>2, <1>12 DEF ReapStrays, Admin
  <2>2. daemon' = [p \in Pids |-> IF p \in Strays(admin.snap) THEN Dead ELSE daemon[p]]
    BY <1>12, Zenon DEF ReapStrays
  <2>3. Tracked \subseteq Tracked' BY <2>2 DEF Tracked, Strays
  <2> QED BY <1>2, <2>1, <2>3 DEF Orderly, OrderInv, FailsForAFailure, SparesTracked
<1>13. CASE WaitForSocket BY <1>2, <1>13, MostStepsAreOrderly DEF WaitForSocket, Admin
<1>14. CASE ListAfterInstall BY <1>2, <1>14, MostStepsAreOrderly DEF ListAfterInstall, Admin
<1>15. CASE EnsureInvokingUserAgent
  BY <1>2, <1>15, MostStepsAreOrderly DEF EnsureInvokingUserAgent, InstallsAgent, Admin
<1>16. CASE EnsureForAutomatic
  BY <1>2, <1>16, MostStepsAreOrderly DEF EnsureForAutomatic, InstallsAgent, Admin
<1>17. CASE Reconnected BY <1>2, <1>17, MostStepsAreOrderly DEF Reconnected, Admin
<1>18. CASE ListUp
  <2>1. /\ admin.pc \in {"list1", "list2", "mine"} /\ admin'.back = admin.back
        /\ admin'.pc \in {"disconnect1", "disconnect2", "disconnect mine", "failed"}
        /\ admin'.pc = "failed" => admin'.faulty
    BY <1>2, <1>18 DEF ListUp, Admin
  <2> QED BY <1>2, <2>1, MostStepsAreOrderly
<1>19. CASE Disconnected BY <1>2, <1>19, MostStepsAreOrderly DEF Disconnected, Admin
<1>20. CASE Remove BY <1>2, <1>20, MostStepsAreOrderly DEF Remove, Admin
<1>21. CASE Clean BY <1>2, <1>21, MostStepsAreOrderly DEF Clean, Admin
<1>22. CASE AgentPlist BY <1>2, <1>22, MostStepsAreOrderly DEF AgentPlist, Admin
<1>23. CASE AgentOut BY <1>2, <1>23, MostStepsAreOrderly DEF AgentOut, Admin
<1>24. CASE AgentGone BY <1>2, <1>24, MostStepsAreOrderly DEF AgentGone, Admin
<1>25. CASE AgentEnable
  <2>1. /\ admin'.pc = "agent boot" /\ admin'.back = admin.back /\ admin.pc = "agent enable"
        /\ agent'.disabled = FALSE
    BY <1>2, <1>25 DEF AgentEnable, Admin, Agent
  <2> QED BY <1>2, <2>1 DEF Orderly, OrderInv, FailsForAFailure, SparesTracked
<1>26. CASE AgentBoot
  <2>1. admin.pc = "agent boot" /\ ~agent.disabled BY <1>26 DEF AgentBoot, OrderInv
  <2>2. admin'.pc = admin.back /\ admin'.back = admin.back BY <1>2, <1>26, <2>1 DEF AgentBoot, Admin
  <2> QED BY <1>2, <2>1, <2>2, MostStepsAreOrderly
<1>27. ASSUME NEW p \in Pids, Kickstart(p) PROVE Orderly
  <2>1. admin.pc = "kickstart" /\ admin'.pc \in {"done", "failed"} /\ admin'.back = admin.back
    BY <1>2, <1>27 DEF Kickstart, Admin
  <2> QED BY <1>2, <2>1 DEF Orderly, OrderInv, FailsForAFailure, SparesTracked
<1>28. ASSUME NEW c \in Conns, Reconnect(c) PROVE Orderly
  BY <1>2, <1>28, MostStepsAreOrderly DEF Reconnect, Admin
<1>29. ASSUME NEW c \in Conns, DisconnectForTeardown(c) PROVE Orderly
  BY <1>2, <1>29, MostStepsAreOrderly DEF DisconnectForTeardown, Admin
<1>30. ASSUME NEW c \in Conns, ConnectAndEnsure(c) PROVE Orderly
  BY <1>2, <1>30, MostStepsAreOrderly DEF ConnectAndEnsure, Admin
<1> QED
  BY <1>3, <1>4, <1>5, <1>6, <1>7, <1>8, <1>9, <1>10, <1>11, <1>12, <1>13, <1>14, <1>15, <1>16,
     <1>17, <1>18, <1>19, <1>20, <1>21, <1>22, <1>23, <1>24, <1>25, <1>26, <1>27, <1>28, <1>29, <1>30
     DEF CommandStep

LEMMA OrderAlways == Spec => []OrderInv /\ [][FailsForAFailure /\ SparesTracked]_vars
<1>1. Init => OrderInv
  BY DEF Init, OrderInv, NoAdmin
<1>2. RegistrationInv /\ OrderInv /\ Next => Orderly
  BY AgentIsOrderly, EnvironmentIsOrderly, BeginIsOrderly, FailsIsOrderly, CommandIsOrderly DEF Next
<1>3. RegistrationInv /\ OrderInv /\ [Next]_vars => OrderInv' /\ [FailsForAFailure /\ SparesTracked]_vars
  <2>1. OrderInv /\ UNCHANGED vars => OrderInv' BY DEF OrderInv, Installs, vars, jobs
  <2> QED BY <1>2, <2>1 DEF Orderly
<1>4. Spec => []RegistrationInv BY RegistrationAlways
<1> QED BY <1>1, <1>3, <1>4, PTL DEF Spec

(* reap_stray_privileged_daemons: between ps and the kill, launchd may     *)
(* start a daemon with an identifier that ps has listed; it is spared,     *)
(* because launchd is asked after ps.                                      *)
THEOREM ReapNeverHitsTracked == Spec => ReapSparesTracked
<1>1. FailsForAFailure /\ SparesTracked =>
        (At("reap") /\ admin'.pc \in {"socket", "remove"} => Tracked \subseteq Tracked')
  BY DEF SparesTracked
<1>2. Spec => [][FailsForAFailure /\ SparesTracked]_vars BY OrderAlways
<1> QED BY <1>1, <1>2, PTL DEF ReapSparesTracked

(* launchd::bootstrap, install_agent: no command fails because of what     *)
(* the commands before it left of labels and jobs.                         *)
THEOREM NoCommandBlocksAnother == Spec => CommandsSucceed
<1>1. FailsForAFailure /\ SparesTracked =>
        (admin'.pc = "failed" /\ admin.pc # "failed" => faults' # faults \/ admin'.faulty \/ At("kickstart"))
  BY DEF FailsForAFailure
<1>2. Spec => [][FailsForAFailure /\ SparesTracked]_vars BY OrderAlways
<1> QED BY <1>1, <1>2, PTL DEF CommandsSucceed
=============================================================================
