---------------------------- MODULE DnsStoreKey ----------------------------
(***************************************************************************)
(* The DNS key of one connection in the dynamic store (dns_store_key.rs).  *)
(* In each helper a thread owns the key through a session of configd; the  *)
(* main thread tells it through a channel whether the key is wanted, which *)
(* it is unless the tunnel's DNS server is inside a connected LAN.         *)
(*                                                                         *)
(* Helpers of the connection follow each other.  The next may start while  *)
(* its predecessor has reported its end and is about to exit.  configd     *)
(* (external) drops the key of a session whose process has gone, at some   *)
(* time, may lose the key, and may fail any call.                          *)
(***************************************************************************)
EXTENDS Naturals, Sequences, FiniteSets

CONSTANTS
  Helpers,     \* helper processes, one after the other
  None,        \* no key
  Stale,       \* the owner of a key that was left behind outside of any session
  MaxEvents,   \* bounds how often the LAN changes and the key gets lost
  MaxFaults    \* bounds how often a call fails

ASSUME StoreKeyAssumption ==
  /\ None # Stale /\ {None, Stale} \cap Helpers = {}
  /\ MaxEvents \in Nat /\ MaxFaults \in Nat

VARIABLES
  collision,   \* the tunnel's DNS server is inside a connected LAN
  key,         \* who owns the key in the store
  main,        \* [Helpers -> place of the main thread]
  wanted,      \* [Helpers -> DnsStoreKey.wanted]
  commands,    \* [Helpers -> Seq of what the channel holds]
  owner,       \* [Helpers -> the state of the owner thread]
  notice,      \* [Helpers -> configd has a notification for the thread]
  acked,       \* helpers whose thread acknowledged the removal
  unretried,   \* history: running helpers of which a call failed that nobody repeats
  events, faults

bounds == <<events, faults>>
vars == <<collision, key, main, wanted, commands, owner, notice, acked, unretried, bounds>>

Places == {"none", "setup", "started", "up", "removing", "exiting", "gone"}
OwnerPlaces == {"none", "session", "stale", "start", "turn", "drain", "apply", "check", "poll", "returned"}
Owner == [pc : OwnerPlaces, wanted : BOOLEAN, published : BOOLEAN, failing : BOOLEAN,
          watches : BOOLEAN, changed : BOOLEAN]
NoOwner == [pc |-> "none", wanted |-> FALSE, published |-> FALSE, failing |-> FALSE,
            watches |-> FALSE, changed |-> FALSE]

(* Want(true), Want(false), Remove(ack), and the end of the channel.       *)
Command == {"want", "withdraw", "remove", "closed"}

(* Every variable has its type.                                            *)
TypeOK ==
  /\ collision \in BOOLEAN
  /\ key \in Helpers \cup {None, Stale}
  /\ main \in [Helpers -> Places]
  /\ wanted \in [Helpers -> BOOLEAN]
  /\ commands \in [Helpers -> Seq(Command)]
  /\ owner \in [Helpers -> Owner]
  /\ notice \in [Helpers -> BOOLEAN]
  /\ acked \subseteq Helpers /\ unretried \subseteq Helpers
  /\ events \in 0..MaxEvents /\ faults \in 0..MaxFaults

Init ==
  /\ collision = FALSE
  /\ key \in {None, Stale}
  /\ main = [h \in Helpers |-> "none"]
  /\ wanted = [h \in Helpers |-> FALSE]
  /\ commands = [h \in Helpers |-> <<>>]
  /\ owner = [h \in Helpers |-> NoOwner]
  /\ notice = [h \in Helpers |-> FALSE]
  /\ acked = {} /\ unretried = {}
  /\ events = MaxEvents /\ faults = MaxFaults

-----------------------------------------------------------------------------
(***************************************************************************)
(* configd (external).                                                     *)
(***************************************************************************)

(* The key has a new owner or none; the threads that watch it are told, of *)
(* their own changes too.                                                  *)
Becomes(k) ==
  /\ key' = k
  /\ notice' = [h \in Helpers |-> notice[h] \/ (k # key /\ owner[h].watches)]

Unchanged == UNCHANGED <<key, notice>>

(* A session may set a key that is free or its own.                        *)
MaySet(h) == key \in {None, h}

(* The thread runs: it has its receiver, and its session once it opened it.*)
Listening(h) == owner[h].pc \notin {"none", "returned"}

(* A call fails although it should not.                                    *)
Fault == faults > 0 /\ faults' = faults - 1

(* The session of a thread ends after the thread, or the whole process.    *)
DropSession(h) ==
  /\ key = h /\ ~Listening(h)
  /\ Becomes(None)
  /\ UNCHANGED <<collision, main, wanted, commands, owner, acked, unretried, bounds>>

(* A restart of configd, for example, with a notification or without.      *)
LoseKey ==
  /\ events > 0 /\ events' = events - 1
  /\ key \in Helpers
  /\ \/ Becomes(None)
     \/ key' = None /\ UNCHANGED notice
  /\ UNCHANGED <<collision, main, wanted, commands, owner, acked, unretried, faults>>

JoinOrLeaveLan ==
  /\ events > 0 /\ events' = events - 1
  /\ collision' = ~collision
  /\ UNCHANGED <<key, main, wanted, commands, owner, notice, acked, unretried, faults>>

-----------------------------------------------------------------------------
(***************************************************************************)
(* The main thread of a helper.                                            *)
(***************************************************************************)
Sent(h, c) == IF Listening(h) THEN [commands EXCEPT ![h] = Append(@, c)] ELSE commands
Goes(h, place) == main' = [main EXCEPT ![h] = place]

Used == {h \in Helpers : main[h] # "none"}

(* setup_network_macos of the next helper has taken its fingerprint.       *)
Setup(h) ==
  /\ h = CHOOSE g \in Helpers : main[g] = "none" \/ Used = Helpers
  /\ main[h] = "none" /\ \A g \in Used : main[g] \in {"exiting", "gone"}
  /\ Goes(h, "setup")
  /\ wanted' = [wanted EXCEPT ![h] = ~collision]
  /\ UNCHANGED <<collision, key, commands, owner, notice, acked, unretried, bounds>>

AlwaysWanted(h) ==                         \* mutant: AtomicBool::new(true)
  /\ main[h] = "setup"
  /\ owner' = [owner EXCEPT ![h] = [NoOwner EXCEPT !.pc = "session", !.wanted = wanted[h]]]
  /\ wanted' = [wanted EXCEPT ![h] = TRUE]
  /\ Goes(h, "started")
  /\ UNCHANGED <<collision, key, commands, notice, acked, unretried, bounds>>

(* DnsStoreKey::start, or there is no thread.                              *)
Start(h) ==
  /\ main[h] = "setup"
  /\ \/ /\ owner' = [owner EXCEPT ![h] = [NoOwner EXCEPT !.pc = "session", !.wanted = wanted[h]]]
        /\ UNCHANGED <<unretried, faults>>
     \/ /\ Fault
        /\ unretried' = unretried \cup {h}
        /\ UNCHANGED owner
  /\ Goes(h, "started")
  /\ UNCHANGED <<collision, key, wanted, commands, notice, acked, events>>

Up(h) ==
  /\ main[h] = "started"
  /\ Goes(h, "up")
  /\ UNCHANGED <<collision, key, wanted, commands, owner, notice, acked, unretried, bounds>>

(* start_device fails after the set-up: the handle is dropped.             *)
Abandon(h) ==
  /\ main[h] = "started" /\ Fault
  /\ commands' = Sent(h, "closed")
  /\ Goes(h, "exiting")
  /\ UNCHANGED <<collision, key, wanted, owner, notice, acked, unretried, events>>

(* macos_reconcile_dns, reconcile_dns_store_key: set_wanted, every tick.   *)
SetWanted(h) ==
  /\ main[h] = "up" /\ owner[h].pc # "none"
  /\ wanted[h] = collision
  /\ wanted' = [wanted EXCEPT ![h] = ~collision]
  /\ commands' = Sent(h, IF collision THEN "withdraw" ELSE "want")
  /\ UNCHANGED <<collision, key, main, owner, notice, acked, unretried, bounds>>

(* cleanup_network_macos: remove.                                          *)
BeginRemove(h) ==
  /\ main[h] = "up"
  /\ commands' = Sent(h, "remove")
  /\ Goes(h, IF Listening(h) THEN "removing" ELSE "exiting")
  /\ UNCHANGED <<collision, key, wanted, owner, notice, acked, unretried, bounds>>

(* The acknowledgement, or REMOVE_TIMEOUT: the thread may be slow.         *)
EndRemove(h) ==
  /\ main[h] = "removing"
  /\ Goes(h, "exiting")
  /\ UNCHANGED <<collision, key, wanted, commands, owner, notice, acked, unretried, bounds>>

(* The process ends: its threads end with it.                              *)
ProcessEnds(h) ==
  /\ Goes(h, "gone")
  /\ owner' = [owner EXCEPT ![h] = NoOwner]
  /\ commands' = [commands EXCEPT ![h] = <<>>]
  /\ notice' = [notice EXCEPT ![h] = FALSE]
  /\ wanted' = [wanted EXCEPT ![h] = FALSE]
  /\ acked' = acked \ {h} /\ unretried' = unretried \ {h}
  /\ UNCHANGED <<collision, key, bounds>>

Exit(h) == main[h] = "exiting" /\ ProcessEnds(h)

Crash(h) == main[h] \notin {"none", "exiting", "gone"} /\ ProcessEnds(h)

-----------------------------------------------------------------------------
(***************************************************************************)
(* The owner thread: Owner::run.                                           *)
(***************************************************************************)
At(h, place) == owner[h].pc = place
Becoming(h, o) == owner' = [owner EXCEPT ![h] = o]
threadOnly == <<collision, main, wanted, events>>

(* The session, the notification keys and the source in the run loop.      *)
OpenSession(h) ==
  /\ At(h, "session")
  /\ \/ /\ Becoming(h, [owner[h] EXCEPT !.pc = "stale", !.watches = TRUE])
        /\ UNCHANGED <<unretried, faults>>
     \/ /\ Fault
        /\ \/ Becoming(h, [owner[h] EXCEPT !.pc = "stale"]) /\ UNCHANGED unretried
           \/ /\ Becoming(h, [owner[h] EXCEPT !.pc = "returned"])
              /\ unretried' = unretried \cup {h}
  /\ UNCHANGED <<threadOnly, key, notice, commands, acked>>

(* remove_stale, from a session of its own.                                *)
RemoveStale(h) ==
  /\ At(h, "stale")
  /\ \/ Becomes(None) /\ UNCHANGED <<unretried, faults>>
     \/ Fault /\ Unchanged /\ unretried' = unretried \cup {h}
  /\ Becoming(h, [owner[h] EXCEPT !.pc = "start"])
  /\ UNCHANGED <<threadOnly, commands, acked>>

(* publish, where o is the thread's state.                                 *)
Publish(h, o) ==
  \/ /\ MaySet(h)
     /\ Becomes(h)
     /\ Becoming(h, [o EXCEPT !.published = TRUE, !.failing = FALSE])
     /\ UNCHANGED faults
  \/ /\ IF MaySet(h) THEN Fault ELSE UNCHANGED faults
     /\ Unchanged
     /\ Becoming(h, [o EXCEPT !.failing = TRUE])

(* A call that removes the key from the store, whoever owns it.            *)
StoreRemoves == Becomes(None) /\ UNCHANGED faults
StoreKeeps == Fault /\ Unchanged

(* apply: a failed withdrawal is not repeated.                             *)
Apply(h) ==
  /\ owner[h].pc \in {"start", "apply"}
  /\ LET o == [owner[h] EXCEPT !.pc = IF At(h, "start") THEN "turn" ELSE "check"]
     IN  \/ /\ o.wanted /\ ~o.published /\ ~o.failing
            /\ Publish(h, o)
            /\ UNCHANGED unretried
         \/ /\ ~o.wanted /\ o.published
            /\ Becoming(h, [o EXCEPT !.published = FALSE])
            /\ \/ StoreRemoves /\ UNCHANGED unretried
               \/ StoreKeeps /\ unretried' = unretried \cup {h}
         \/ /\ ~(o.wanted /\ ~o.published /\ ~o.failing) /\ ~(~o.wanted /\ o.published)
            /\ Becoming(h, o)
            /\ Unchanged /\ UNCHANGED <<unretried, faults>>
  /\ UNCHANGED <<threadOnly, commands, acked>>

(* One turn of the run loop, in which on_change is called.                 *)
Turn(h) ==
  /\ At(h, "turn")
  /\ Becoming(h, [owner[h] EXCEPT !.pc = "drain", !.changed = owner[h].changed \/ notice[h]])
  /\ notice' = [notice EXCEPT ![h] = FALSE]
  /\ UNCHANGED <<threadOnly, key, commands, acked, unretried, faults>>

AcksFirst(h) ==                            \* mutant: the acknowledgement comes first
  /\ At(h, "drain")
  /\ \/ /\ commands[h] = <<>>
        /\ Becoming(h, [owner[h] EXCEPT !.pc = "apply"])
        /\ Unchanged /\ UNCHANGED <<commands, acked, unretried, faults>>
     \/ /\ commands[h] # <<>> /\ Head(commands[h]) \in {"want", "withdraw"}
        /\ Becoming(h, [owner[h] EXCEPT !.wanted = Head(commands[h]) = "want"])
        /\ commands' = [commands EXCEPT ![h] = Tail(@)]
        /\ Unchanged /\ UNCHANGED <<acked, unretried, faults>>
     \/ /\ commands[h] # <<>> /\ Head(commands[h]) = "remove" /\ h \notin acked
        /\ acked' = acked \cup {h}
        /\ Unchanged /\ UNCHANGED <<owner, commands, unretried, faults>>
  /\ UNCHANGED threadOnly

(* The next command, or there is none.  Remove and the end of the channel  *)
(* end the thread.                                                         *)
Drain(h) ==
  /\ At(h, "drain")
  /\ \/ /\ commands[h] = <<>>
        /\ Becoming(h, [owner[h] EXCEPT !.pc = "apply"])
        /\ Unchanged /\ UNCHANGED <<commands, acked, unretried, faults>>
     \/ /\ commands[h] # <<>> /\ Head(commands[h]) \in {"want", "withdraw"}
        /\ Becoming(h, [owner[h] EXCEPT !.wanted = Head(commands[h]) = "want"])
        /\ commands' = [commands EXCEPT ![h] = Tail(@)]
        /\ Unchanged /\ UNCHANGED <<acked, unretried, faults>>
     \/ /\ commands[h] # <<>> /\ Head(commands[h]) \in {"remove", "closed"}
        /\ Becoming(h, [owner[h] EXCEPT !.pc = "returned", !.published = FALSE])
        /\ acked' = IF Head(commands[h]) = "remove" THEN acked \cup {h} ELSE acked
        /\ commands' = [commands EXCEPT ![h] = <<>>]
        /\ \/ StoreRemoves /\ UNCHANGED unretried
           \/ StoreKeeps /\ unretried' = unretried \cup {h}
  /\ UNCHANGED threadOnly

(* check: the key that was published is not there.                         *)
Missing(o) == o.wanted /\ o.published /\ key = None

(* The check that a notification triggers.                                 *)
CheckChanged(h) ==
  /\ At(h, "check")
  /\ LET o == [owner[h] EXCEPT !.pc = "poll", !.changed = FALSE]
     IN  IF owner[h].changed /\ Missing(o) THEN Publish(h, [o EXCEPT !.published = FALSE])
         ELSE Becoming(h, o) /\ Unchanged /\ UNCHANGED faults
  /\ UNCHANGED <<threadOnly, commands, acked, unretried>>

NeverAgain(h) ==                           \* mutant: a failed publish is not tried again
  /\ At(h, "poll")
  /\ LET o == [owner[h] EXCEPT !.pc = "turn"]
     IN  IF Missing(o) THEN Publish(h, [o EXCEPT !.published = FALSE])
         ELSE Becoming(h, o) /\ Unchanged /\ UNCHANGED faults
  /\ UNCHANGED <<threadOnly, commands, acked, unretried>>

(* Every POLL_INTERVAL: publish again what failed, and check.              *)
Poll(h) ==
  /\ At(h, "poll")
  /\ LET o == [owner[h] EXCEPT !.pc = "turn"]
     IN  IF (o.failing /\ o.wanted /\ ~o.published) \/ Missing(o)
         THEN Publish(h, [o EXCEPT !.published = FALSE])
         ELSE Becoming(h, o) /\ Unchanged /\ UNCHANGED faults
  /\ UNCHANGED <<threadOnly, commands, acked, unretried>>

NoPoll(h) ==
  /\ At(h, "poll")
  /\ Becoming(h, [owner[h] EXCEPT !.pc = "turn"])
  /\ Unchanged
  /\ UNCHANGED <<threadOnly, commands, acked, unretried, faults>>

-----------------------------------------------------------------------------
ThreadStep(h) ==
  \/ OpenSession(h) \/ RemoveStale(h) \/ Apply(h) \/ Turn(h) \/ Drain(h) \/ CheckChanged(h)
  \/ Poll(h) \/ NoPoll(h)

MainStep(h) == Start(h) \/ Up(h) \/ SetWanted(h) \/ EndRemove(h)

Next ==
  \/ LoseKey \/ JoinOrLeaveLan
  \/ \E h \in Helpers :
       \/ Setup(h) \/ MainStep(h) \/ Abandon(h) \/ BeginRemove(h) \/ Exit(h) \/ Crash(h)
       \/ ThreadStep(h) \/ DropSession(h)

(* Threads go on, the reconciliation runs on a timer, a poll comes after   *)
(* finitely many turns, and configd notices a dead process.                *)
Fairness ==
  \A h \in Helpers :
    /\ WF_vars(ThreadStep(h)) /\ SF_vars(Poll(h)) /\ WF_vars(DropSession(h))
    /\ WF_vars(MainStep(h) \/ Exit(h))

Spec == Init /\ [][Next]_vars /\ Fairness

-----------------------------------------------------------------------------
(***************************************************************************)
(* Properties.                                                             *)
(***************************************************************************)

(* What the thread will want once it has read its channel.                 *)
WillWant(h) ==
  \/ \E i \in DOMAIN commands[h] :
       /\ commands[h][i] = "want"
       /\ \A j \in DOMAIN commands[h] : j > i => commands[h][j] # "withdraw"
  \/ owner[h].wanted /\ \A j \in DOMAIN commands[h] : commands[h][j] # "withdraw"

(* set_wanted: it sends only changes, so the flag that it compares with    *)
(* must be what the thread wants or is about to.                           *)
ThreadIsTold == \A h \in Helpers : Listening(h) => WillWant(h) = wanted[h]

(* Owner::remove: when teardown goes on after an acknowledgement, the key  *)
(* of this helper is gone for good, unless configd refused.                *)
RemovedWhenAcked == \A h \in acked \ unretried : key # h

(* The helper that is up has its key in the store, unless it collides with *)
(* the LAN.                                                                *)
InLine == \A h \in Helpers : main[h] = "up" => (key = h) = ~collision \/ h \in unretried

(* Owner::run: whatever got lost, changed or failed, store and LAN come in *)
(* line again, by a command, a notification or a poll.                     *)
KeyFollows == []<>InLine

(* apply, check and the poll: a thread that has been told to withdraw the  *)
(* key has withdrawn it by the end of this turn, and neither a failed      *)
(* publish nor a lost key makes it publish before it is told to.           *)
WithdrawnIsAbsent ==
  \A h \in Helpers \ unretried :
    owner[h].pc \in {"check", "poll", "turn"} /\ ~owner[h].wanted => key # h

(* Types, and set_wanted's bookkeeping: the two threads do not drift apart.*)
KeyInv == TypeOK /\ ThreadIsTold

(* Owner::remove, apply, check: a key that was removed or withdrawn stays  *)
(* away, whatever the poll, a notification or an old helper's thread does. *)
KeyStaysAway == RemovedWhenAcked /\ WithdrawnIsAbsent
=============================================================================
