------------------------- MODULE DnsStoreKey_proofs -------------------------
(***************************************************************************)
(* Theorems about DnsStoreKey for any number of helpers one after the      *)
(* other, of changes of the LAN, lost keys and failed calls.               *)
(***************************************************************************)
EXTENDS DnsStoreKey, TLAPS

(* A helper that has not started its thread has nothing in the store or    *)
(* the channel; an acknowledgement comes from a thread that has ended; and *)
(* whoever has not published, or withdrawn since, has no key.              *)
OwnersInv ==
  /\ \A h \in Helpers : main[h] \in {"none", "setup"} =>
       owner[h].pc = "none" /\ commands[h] = <<>> /\ key # h
  /\ \A h \in acked : owner[h].pc = "returned"
  /\ \A h \in Helpers \ unretried : Listening(h) /\ ~owner[h].published => key # h

StoreKeyInv == KeyInv /\ OwnersInv /\ KeyStaysAway


-----------------------------------------------------------------------------
(***************************************************************************)
(* Types.                                                                  *)
(***************************************************************************)
LEMMA FaultType ==
  ASSUME TypeOK, Fault
  PROVE  faults' \in 0..MaxFaults
BY StoreKeyAssumption DEF TypeOK, Fault

LEMMA EventType ==
  ASSUME TypeOK, events > 0, events' = events - 1
  PROVE  events' \in 0..MaxEvents
BY StoreKeyAssumption DEF TypeOK

(* The states of an owner thread that its steps make.                      *)
LEMMA OwnerTypes ==
  /\ NoOwner \in Owner
  /\ \A o \in Owner, b \in BOOLEAN, place \in OwnerPlaces :
       /\ [o EXCEPT !.pc = place] \in Owner
       /\ [o EXCEPT !.pc = place, !.wanted = b] \in Owner
       /\ [o EXCEPT !.pc = place, !.watches = b] \in Owner
       /\ [o EXCEPT !.pc = place, !.changed = b] \in Owner
       /\ [o EXCEPT !.pc = place, !.published = b] \in Owner
       /\ [o EXCEPT !.published = TRUE, !.failing = FALSE] \in Owner
       /\ [o EXCEPT !.published = b] \in Owner
       /\ [o EXCEPT !.failing = b] \in Owner
       /\ [o EXCEPT !.wanted = b] \in Owner
<1>1. NoOwner \in Owner
  BY "none" \in OwnerPlaces DEF NoOwner, Owner, OwnerPlaces
<1>2. ASSUME NEW o \in Owner, NEW b \in BOOLEAN, NEW place \in OwnerPlaces
      PROVE  /\ [o EXCEPT !.pc = place] \in Owner
             /\ [o EXCEPT !.pc = place, !.wanted = b] \in Owner
             /\ [o EXCEPT !.pc = place, !.watches = b] \in Owner
             /\ [o EXCEPT !.pc = place, !.changed = b] \in Owner
             /\ [o EXCEPT !.pc = place, !.published = b] \in Owner
             /\ [o EXCEPT !.published = TRUE, !.failing = FALSE] \in Owner
             /\ [o EXCEPT !.published = b] \in Owner
             /\ [o EXCEPT !.failing = b] \in Owner
             /\ [o EXCEPT !.wanted = b] \in Owner
  BY DEF Owner
<1> QED BY <1>1, <1>2

(* ... and what each leaves as it was.                                     *)
LEMMA OwnerFields ==
  /\ NoOwner.pc = "none"
  /\ \A o \in Owner : o.wanted \in BOOLEAN /\ o.published \in BOOLEAN /\ o.failing \in BOOLEAN
                      /\ o.changed \in BOOLEAN
  /\ \A o \in Owner : \A b, place :
       /\ [o EXCEPT !.pc = place].pc = place
       /\ [o EXCEPT !.pc = place].wanted = o.wanted
       /\ [o EXCEPT !.pc = place].published = o.published
       /\ [o EXCEPT !.pc = place].failing = o.failing
       /\ [o EXCEPT !.pc = place, !.wanted = b].pc = place
       /\ [o EXCEPT !.pc = place, !.wanted = b].wanted = b
       /\ [o EXCEPT !.pc = place, !.wanted = b].published = o.published
       /\ [o EXCEPT !.pc = place, !.watches = b].pc = place
       /\ [o EXCEPT !.pc = place, !.watches = b].wanted = o.wanted
       /\ [o EXCEPT !.pc = place, !.watches = b].published = o.published
       /\ [o EXCEPT !.pc = place, !.changed = b].pc = place
       /\ [o EXCEPT !.pc = place, !.changed = b].wanted = o.wanted
       /\ [o EXCEPT !.pc = place, !.changed = b].published = o.published
       /\ [o EXCEPT !.pc = place, !.published = b].pc = place
       /\ [o EXCEPT !.published = TRUE, !.failing = FALSE].pc = o.pc
       /\ [o EXCEPT !.published = TRUE, !.failing = FALSE].wanted = o.wanted
       /\ [o EXCEPT !.published = TRUE, !.failing = FALSE].published = TRUE
       /\ [o EXCEPT !.published = b].pc = o.pc
       /\ [o EXCEPT !.published = b].wanted = o.wanted
       /\ [o EXCEPT !.published = b].published = b
       /\ [o EXCEPT !.failing = b].pc = o.pc
       /\ [o EXCEPT !.failing = b].wanted = o.wanted
       /\ [o EXCEPT !.failing = b].published = o.published
       /\ [o EXCEPT !.wanted = b].pc = o.pc
       /\ [o EXCEPT !.wanted = b].wanted = b
       /\ [o EXCEPT !.wanted = b].published = o.published
BY DEF NoOwner, Owner

-----------------------------------------------------------------------------
(***************************************************************************)
(* A step of an owner thread, whose state becomes o.                       *)
(***************************************************************************)
LEMMA OneOwner ==
  ASSUME TypeOK, NEW h \in Helpers, NEW o, owner' = [owner EXCEPT ![h] = o]
  PROVE  owner'[h] = o /\ \A g \in Helpers : g # h => owner'[g] = owner[g]
BY DEF TypeOK

LEMMA BecomesType ==
  ASSUME TypeOK, NEW k, Becomes(k)
  PROVE  key' = k /\ notice' \in [Helpers -> BOOLEAN]
BY DEF Becomes, TypeOK

(* What the properties ask of such a step.                                 *)
LEMMA ThreadKeeps ==
  ASSUME StoreKeyInv, NEW h \in Helpers, Listening(h), NEW o \in Owner,
         owner' = [owner EXCEPT ![h] = o],
         UNCHANGED threadOnly,
         notice' \in [Helpers -> BOOLEAN], commands' \in [Helpers -> Seq(Command)],
         faults' \in 0..MaxFaults,
         \A g \in Helpers : g # h => commands'[g] = commands[g],
         unretried' \in {unretried, unretried \cup {h}},
         acked' \in {acked, acked \cup {h}},
         key' \in {key, None, h},
         o.pc # "none",
         o.pc # "returned" => WillWant(h)' = WillWant(h),
         h \in acked' => o.pc = "returned",
         h \notin unretried' /\ (h \in acked' \/ (o.pc # "returned" /\ ~o.published)) => key' # h,
         h \notin unretried' /\ o.pc \in {"check", "poll", "turn"} /\ ~o.wanted => key' # h
  PROVE  StoreKeyInv'
<1>0. TypeOK /\ ThreadIsTold /\ OwnersInv /\ RemovedWhenAcked /\ WithdrawnIsAbsent
  BY DEF StoreKeyInv, KeyInv, KeyStaysAway
<1>1. owner'[h] = o /\ \A g \in Helpers : g # h => owner'[g] = owner[g]
  BY <1>0, OneOwner
<1>2. TypeOK'
  BY <1>0 DEF TypeOK, threadOnly
<1>3. UNCHANGED <<main, wanted>> /\ None \notin Helpers /\ acked \subseteq Helpers
  BY <1>0, StoreKeyAssumption DEF threadOnly, TypeOK
<1>4. ThreadIsTold'
  <2> SUFFICES ASSUME NEW g \in Helpers, Listening(g)' PROVE WillWant(g)' = wanted'[g]
    BY DEF ThreadIsTold
  <2>1. CASE g = h
    BY <1>0, <1>1, <1>3, <2>1 DEF ThreadIsTold, Listening
  <2>2. CASE g # h
    <3>1. owner'[g] = owner[g] /\ commands'[g] = commands[g]
      BY <1>1, <2>2
    <3>2. Listening(g) /\ WillWant(g)' = WillWant(g)
      BY <3>1 DEF Listening, WillWant
    <3> QED BY <1>0, <1>3, <3>2 DEF ThreadIsTold
  <2> QED BY <2>1, <2>2
<1>5. \A g \in Helpers : g # h /\ key' = g => key = g
  BY <1>3
<1>6. OwnersInv'
  <2>1. main[h] \notin {"none", "setup"}
    BY <1>0 DEF OwnersInv, Listening
  <2>2. \A g \in Helpers : main'[g] \in {"none", "setup"} =>
          owner'[g].pc = "none" /\ commands'[g] = <<>> /\ key' # g
    BY <1>0, <1>1, <1>3, <1>5, <2>1 DEF OwnersInv
  <2>3. \A g \in acked' : owner'[g].pc = "returned"
    BY <1>0, <1>1, <1>3 DEF OwnersInv
  <2>4. ASSUME NEW g \in Helpers \ unretried', Listening(g)', ~owner'[g].published PROVE key' # g
    BY <1>0, <1>1, <1>5, <2>4 DEF OwnersInv, Listening
  <2> QED BY <2>2, <2>3, <2>4 DEF OwnersInv
<1>7. RemovedWhenAcked'
  BY <1>0, <1>3, <1>5 DEF RemovedWhenAcked
<1>8. WithdrawnIsAbsent'
  <2> SUFFICES ASSUME NEW g \in Helpers \ unretried', owner'[g].pc \in {"check", "poll", "turn"},
                      ~owner'[g].wanted
               PROVE  key' # g
    BY DEF WithdrawnIsAbsent
  <2> QED BY <1>0, <1>1, <1>5 DEF WithdrawnIsAbsent
<1> QED BY <1>2, <1>4, <1>6, <1>7, <1>8 DEF StoreKeyInv, KeyInv, KeyStaysAway

(* A step that neither reads the channel nor acknowledges anything.        *)
LEMMA ThreadTurns ==
  ASSUME StoreKeyInv, NEW h \in Helpers, Listening(h), NEW o \in Owner,
         owner' = [owner EXCEPT ![h] = o], o.wanted = owner[h].wanted, o.pc # "none",
         UNCHANGED <<collision, main, wanted, events, commands, acked>>,
         notice' \in [Helpers -> BOOLEAN], faults' \in 0..MaxFaults,
         unretried' \in {unretried, unretried \cup {h}},
         key' \in {key, None, h},
         h \notin unretried' /\ o.pc # "returned" /\ ~o.published => key' # h,
         h \notin unretried' /\ o.pc \in {"check", "poll", "turn"} /\ ~o.wanted => key' # h
  PROVE  StoreKeyInv'
<1>0. TypeOK /\ OwnersInv
  BY DEF StoreKeyInv, KeyInv
<1>1. owner'[h] = o
  BY <1>0, OneOwner
<1>2. WillWant(h)' = WillWant(h)
  BY <1>1 DEF WillWant
<1>3. h \notin acked'
  BY <1>0 DEF OwnersInv, Listening
<1>4. UNCHANGED threadOnly
  BY DEF threadOnly
<1>5. commands' \in [Helpers -> Seq(Command)] /\ \A g \in Helpers : g # h => commands'[g] = commands[g]
  BY <1>0 DEF TypeOK
<1>6. acked' \in {acked, acked \cup {h}}
  OBVIOUS
<1> QED BY <1>2, <1>3, <1>4, <1>5, <1>6, ThreadKeeps

LEMMA PublishMakes ==
  ASSUME TypeOK, NEW h \in Helpers, NEW o \in Owner, Publish(h, o)
  PROVE  /\ notice' \in [Helpers -> BOOLEAN] /\ faults' \in 0..MaxFaults
         /\ \E p \in Owner :
              /\ owner' = [owner EXCEPT ![h] = p]
              /\ p.pc = o.pc /\ p.wanted = o.wanted
              /\ \/ key' = h /\ p.published
                 \/ key' = key /\ p.published = o.published
<1>1. CASE MaySet(h) /\ Becomes(h) /\ Becoming(h, [o EXCEPT !.published = TRUE, !.failing = FALSE])
           /\ UNCHANGED faults
  <2>1. key' = h /\ notice' \in [Helpers -> BOOLEAN] /\ faults' \in 0..MaxFaults
    BY <1>1, BecomesType DEF TypeOK
  <2> DEFINE p == [o EXCEPT !.published = TRUE, !.failing = FALSE]
  <2>2. p \in Owner /\ p.pc = o.pc /\ p.wanted = o.wanted /\ p.published
    BY DEF Owner
  <2>3. owner' = [owner EXCEPT ![h] = p]
    BY <1>1 DEF Becoming
  <2> HIDE DEF p
  <2> QED BY <2>1, <2>2, <2>3
<1>2. CASE (IF MaySet(h) THEN Fault ELSE UNCHANGED faults) /\ Unchanged
           /\ Becoming(h, [o EXCEPT !.failing = TRUE])
  <2>1. key' = key /\ notice' \in [Helpers -> BOOLEAN] /\ faults' \in 0..MaxFaults
    BY <1>2, FaultType DEF TypeOK, Unchanged
  <2> DEFINE p == [o EXCEPT !.failing = TRUE]
  <2>2. p \in Owner /\ p.pc = o.pc /\ p.wanted = o.wanted /\ p.published = o.published
    BY DEF Owner
  <2>3. owner' = [owner EXCEPT ![h] = p]
    BY <1>2 DEF Becoming
  <2> HIDE DEF p
  <2> QED BY <2>1, <2>2, <2>3
<1> QED BY <1>1, <1>2, Zenon DEF Publish

(* A publish, of a key that is wanted, at whatever place.                  *)
LEMMA PublishKeeps ==
  ASSUME StoreKeyInv, NEW h \in Helpers, Listening(h), NEW o \in Owner, Publish(h, o),
         o.wanted, o.wanted = owner[h].wanted, o.pc \notin {"none", "returned"},
         h \notin unretried /\ ~o.published => key # h,
         UNCHANGED <<collision, main, wanted, events, commands, acked, unretried>>
  PROVE  StoreKeyInv'
<1>1. TypeOK
  BY DEF StoreKeyInv, KeyInv
<1>2. notice' \in [Helpers -> BOOLEAN] /\ faults' \in 0..MaxFaults
  BY <1>1, PublishMakes, Zenon
<1>3. PICK p \in Owner :
              /\ owner' = [owner EXCEPT ![h] = p]
              /\ p.pc = o.pc /\ p.wanted = o.wanted
              /\ \/ key' = h /\ p.published
                 \/ key' = key /\ p.published = o.published
  BY <1>1, PublishMakes, Zenon
<1> QED BY <1>2, <1>3, ThreadTurns

(* The thread goes on without touching the store.                          *)
LEMMA OwnerKeeps ==
  ASSUME StoreKeyInv, NEW h \in Helpers, Listening(h), NEW o \in Owner, Becoming(h, o), Unchanged,
         UNCHANGED faults,
         o.wanted = owner[h].wanted, o.pc \notin {"none", "returned"},
         o.published = owner[h].published,
         h \notin unretried /\ o.pc \in {"check", "poll", "turn"} /\ ~o.wanted => key # h,
         UNCHANGED <<collision, main, wanted, events, commands, acked, unretried>>
  PROVE  StoreKeyInv'
<1>1. TypeOK /\ OwnersInv
  BY DEF StoreKeyInv, KeyInv
<1>2. owner' = [owner EXCEPT ![h] = o] /\ key' = key /\ notice' = notice
  BY DEF Becoming, Unchanged
<1>3. notice' \in [Helpers -> BOOLEAN] /\ faults' \in 0..MaxFaults
  BY <1>1, <1>2 DEF TypeOK
<1>4. h \notin unretried /\ ~o.published => key # h
  BY <1>1 DEF OwnersInv
<1> QED BY <1>2, <1>3, <1>4, ThreadTurns

-----------------------------------------------------------------------------
(***************************************************************************)
(* The channel: what a thread that wants b will want after it has read s.  *)
(***************************************************************************)
AfterReading(s, b) ==
  \/ \E i \in DOMAIN s : s[i] = "want" /\ \A j \in DOMAIN s : j > i => s[j] # "withdraw"
  \/ b /\ \A j \in DOMAIN s : s[j] # "withdraw"

LEMMA WillWantIs ==
  /\ \A h \in Helpers : WillWant(h) <=> AfterReading(commands[h], owner[h].wanted)
  /\ \A h \in Helpers : WillWant(h)' <=> AfterReading(commands'[h], owner'[h].wanted)
BY DEF WillWant, AfterReading

(* The last of the commands that want or withdraw decides.                 *)
LEMMA AfterAppend ==
  ASSUME NEW s \in Seq(Command), NEW c \in Command, NEW b \in BOOLEAN
  PROVE  /\ Append(s, c) \in Seq(Command)
         /\ c = "want" => AfterReading(Append(s, c), b)
         /\ c = "withdraw" => ~AfterReading(Append(s, c), b)
         /\ c \in {"remove", "closed"} => (AfterReading(Append(s, c), b) <=> AfterReading(s, b))
<1> DEFINE t == Append(s, c)
<1>1. /\ t \in Seq(Command) /\ Len(s) \in Nat /\ DOMAIN s = 1..Len(s) /\ DOMAIN t = 1..(Len(s) + 1)
      /\ t[Len(s) + 1] = c /\ \A i \in 1..Len(s) : t[i] = s[i]
  OBVIOUS
<1> HIDE DEF t
<1>2. ASSUME c = "want" PROVE AfterReading(t, b)
  BY <1>1, <1>2 DEF AfterReading
<1>3. ASSUME c = "withdraw" PROVE ~AfterReading(t, b)
  BY <1>1, <1>3 DEF AfterReading
<1>4. ASSUME c \in {"remove", "closed"} PROVE AfterReading(t, b) <=> AfterReading(s, b)
  <2>1. ASSUME AfterReading(t, b) PROVE AfterReading(s, b)
    BY <1>1, <1>4, <2>1 DEF AfterReading
  <2>2. ASSUME AfterReading(s, b) PROVE AfterReading(t, b)
    BY <1>1, <1>4, <2>2 DEF AfterReading
  <2> QED BY <2>1, <2>2
<1>5. Append(s, c) = t
  BY DEF t
<1> QED BY <1>1, <1>2, <1>3, <1>4, <1>5

(* Reading such a command is what the thread's own wish is for.            *)
LEMMA AfterHead ==
  ASSUME NEW s \in Seq(Command), s # <<>>, Head(s) \in {"want", "withdraw"}, NEW b \in BOOLEAN
  PROVE  /\ Tail(s) \in Seq(Command)
         /\ AfterReading(Tail(s), Head(s) = "want") <=> AfterReading(s, b)
<1> DEFINE t == Tail(s)
<1>1. /\ t \in Seq(Command) /\ Len(s) \in Nat \ {0} /\ DOMAIN s = 1..Len(s)
      /\ DOMAIN t = 1..(Len(s) - 1) /\ \A i \in 1..(Len(s) - 1) : t[i] = s[i + 1]
      /\ Head(s) = s[1]
  OBVIOUS
<1> HIDE DEF t
<1>2. (\A j \in DOMAIN t : t[j] # "withdraw") <=> (\A j \in DOMAIN s : j > 1 => s[j] # "withdraw")
  <2>1. ASSUME \A j \in DOMAIN t : t[j] # "withdraw", NEW j \in DOMAIN s, j > 1 PROVE s[j] # "withdraw"
    <3>1. j - 1 \in DOMAIN t /\ t[j - 1] = s[j]
      BY <1>1, <2>1
    <3> QED BY <2>1, <3>1
  <2>2. ASSUME \A j \in DOMAIN s : j > 1 => s[j] # "withdraw", NEW j \in DOMAIN t PROVE t[j] # "withdraw"
    BY <1>1, <2>2
  <2> QED BY <2>1, <2>2
<1>3. ASSUME AfterReading(t, Head(s) = "want") PROVE AfterReading(s, b)
  <2>1. ASSUME NEW i \in DOMAIN t, t[i] = "want", \A j \in DOMAIN t : j > i => t[j] # "withdraw"
        PROVE  AfterReading(s, b)
    <3>1. i + 1 \in DOMAIN s /\ s[i + 1] = "want"
      BY <1>1, <2>1
    <3>2. ASSUME NEW j \in DOMAIN s, j > i + 1 PROVE s[j] # "withdraw"
      <4>1. j - 1 \in DOMAIN t /\ j - 1 > i /\ t[j - 1] = s[j]
        BY <1>1, <2>1, <3>2
      <4> QED BY <2>1, <4>1
    <3> QED BY <3>1, <3>2 DEF AfterReading
  <2>2. CASE Head(s) = "want" /\ \A j \in DOMAIN t : t[j] # "withdraw"
    <3>1. 1 \in DOMAIN s /\ s[1] = "want" /\ \A j \in DOMAIN s : j > 1 => s[j] # "withdraw"
      BY <1>1, <1>2, <2>2
    <3> QED BY <3>1 DEF AfterReading
  <2> QED BY <1>3, <2>1, <2>2 DEF AfterReading
<1>4. ASSUME AfterReading(s, b) PROVE AfterReading(t, Head(s) = "want")
  <2>1. ASSUME NEW i \in DOMAIN s, s[i] = "want", \A j \in DOMAIN s : j > i => s[j] # "withdraw"
        PROVE  AfterReading(t, Head(s) = "want")
    <3>1. CASE i = 1
      BY <1>1, <1>2, <2>1, <3>1 DEF AfterReading
    <3>2. CASE i # 1
      <4>1. i - 1 \in DOMAIN t /\ t[i - 1] = "want"
        BY <1>1, <2>1, <3>2
      <4>2. ASSUME NEW j \in DOMAIN t, j > i - 1 PROVE t[j] # "withdraw"
        <5>1. j + 1 \in DOMAIN s /\ j + 1 > i /\ t[j] = s[j + 1]
          BY <1>1, <2>1, <4>2
        <5> QED BY <2>1, <5>1
      <4> QED BY <4>1, <4>2 DEF AfterReading
    <3> QED BY <3>1, <3>2
  <2>2. CASE \A j \in DOMAIN s : s[j] # "withdraw"
    <3>1. Head(s) = "want" /\ \A j \in DOMAIN t : t[j] # "withdraw"
      BY <1>1, <1>2, <2>2
    <3> QED BY <3>1 DEF AfterReading
  <2> QED BY <1>4, <2>1, <2>2 DEF AfterReading
<1>5. Tail(s) = t
  BY DEF t
<1> QED BY <1>1, <1>3, <1>4, <1>5

(* Every step of an owner thread keeps the invariant.                      *)
LEMMA ThreadStepKeeps ==
  ASSUME StoreKeyInv, NEW h \in Helpers, ThreadStep(h)
  PROVE  StoreKeyInv'
<1>0. TypeOK /\ OwnersInv /\ WithdrawnIsAbsent /\ None \notin Helpers
  BY StoreKeyAssumption DEF StoreKeyInv, KeyInv, KeyStaysAway
<1>1. owner[h] \in Owner /\ owner[h].wanted \in BOOLEAN /\ owner[h].published \in BOOLEAN
      /\ owner[h].changed \in BOOLEAN /\ notice[h] \in BOOLEAN
  BY <1>0, OwnerFields DEF TypeOK
<1>2. faults \in 0..MaxFaults /\ notice \in [Helpers -> BOOLEAN]
  BY <1>0 DEF TypeOK
<1>3. CASE OpenSession(h)
  <2>1. Listening(h) /\ UNCHANGED <<collision, main, wanted, events, commands, acked, key, notice>>
    BY <1>3 DEF OpenSession, At, Listening, threadOnly
  <2>2. faults' \in 0..MaxFaults
    BY <1>0, <1>2, <1>3, FaultType DEF OpenSession
  <2>3. PICK o \in {[owner[h] EXCEPT !.pc = "stale", !.watches = TRUE],
                    [owner[h] EXCEPT !.pc = "stale"], [owner[h] EXCEPT !.pc = "returned"]} :
          owner' = [owner EXCEPT ![h] = o] /\ unretried' \in {unretried, unretried \cup {h}}
    BY <1>3 DEF OpenSession, Becoming
  <2>4. /\ o \in Owner /\ o.pc \in {"stale", "returned"}
        /\ o.wanted = owner[h].wanted /\ o.published = owner[h].published
    BY <1>1, <2>3, {"stale", "returned"} \subseteq OwnerPlaces DEF Owner, OwnerPlaces
  <2>5. h \notin unretried /\ ~owner[h].published => key # h
    BY <1>0, <2>1 DEF OwnersInv
  <2> QED BY <1>2, <2>1, <2>2, <2>3, <2>4, <2>5, ThreadTurns
<1>4. CASE RemoveStale(h)
  <2> DEFINE o == [owner[h] EXCEPT !.pc = "start"]
  <2>1. /\ Listening(h) /\ UNCHANGED <<collision, main, wanted, events, commands, acked>>
        /\ owner' = [owner EXCEPT ![h] = o]
    BY <1>4 DEF RemoveStale, At, Listening, threadOnly, Becoming
  <2>2. /\ o \in Owner /\ o.pc = "start"
        /\ o.wanted = owner[h].wanted /\ o.published = owner[h].published
    BY <1>1, "start" \in OwnerPlaces DEF Owner, OwnerPlaces
  <2> HIDE DEF o
  <2>3. notice' \in [Helpers -> BOOLEAN] /\ faults' \in 0..MaxFaults
    BY <1>0, <1>2, <1>4, FaultType, BecomesType DEF RemoveStale, Unchanged
  <2>4. (key' = None /\ unretried' = unretried) \/ (key' = key /\ unretried' = unretried \cup {h})
    BY <1>0, <1>4, BecomesType DEF RemoveStale, Unchanged
  <2> QED BY <1>0, <2>1, <2>2, <2>3, <2>4, ThreadTurns
<1>5. CASE Apply(h)
  <2> DEFINE o == [owner[h] EXCEPT !.pc = IF At(h, "start") THEN "turn" ELSE "check"]
  <2>1. /\ o \in Owner /\ o.pc \in {"turn", "check"}
        /\ o.wanted = owner[h].wanted /\ o.published = owner[h].published
    BY <1>1, {"turn", "check"} \subseteq OwnerPlaces DEF Owner, OwnerPlaces
  <2>2. /\ Listening(h) /\ UNCHANGED <<collision, main, wanted, events, commands, acked>>
        /\ \/ o.wanted /\ Publish(h, o) /\ UNCHANGED unretried
           \/ /\ Becoming(h, [o EXCEPT !.published = FALSE])
              /\ \/ StoreRemoves /\ UNCHANGED unretried
                 \/ StoreKeeps /\ unretried' = unretried \cup {h}
           \/ /\ ~(~o.wanted /\ o.published)
              /\ Becoming(h, o) /\ Unchanged /\ UNCHANGED <<unretried, faults>>
    BY <1>5 DEF Apply, Listening, threadOnly
  <2> HIDE DEF o
  <2>3. h \notin unretried /\ ~owner[h].published => key # h
    BY <1>0, <2>2 DEF OwnersInv
  <2>4. CASE o.wanted /\ Publish(h, o) /\ UNCHANGED unretried
    BY <2>1, <2>2, <2>3, <2>4, PublishKeeps
  <2>5. CASE /\ Becoming(h, [o EXCEPT !.published = FALSE])
             /\ \/ StoreRemoves /\ UNCHANGED unretried
                \/ StoreKeeps /\ unretried' = unretried \cup {h}
    <3>1. PICK p \in Owner : owner' = [owner EXCEPT ![h] = p] /\ p.pc = o.pc /\ p.wanted = o.wanted
      <4>1. [o EXCEPT !.published = FALSE] \in Owner /\ [o EXCEPT !.published = FALSE].pc = o.pc
            /\ [o EXCEPT !.published = FALSE].wanted = o.wanted
        BY <2>1 DEF Owner
      <4> QED BY <2>5, <4>1 DEF Becoming
    <3>2. notice' \in [Helpers -> BOOLEAN] /\ faults' \in 0..MaxFaults
      BY <1>0, <1>2, <2>5, FaultType, BecomesType DEF StoreRemoves, StoreKeeps, Unchanged
    <3>3. (key' = None /\ unretried' = unretried) \/ (key' = key /\ unretried' = unretried \cup {h})
      BY <1>0, <2>5, BecomesType DEF StoreRemoves, StoreKeeps, Unchanged
    <3> QED BY <1>0, <2>1, <2>2, <3>1, <3>2, <3>3, ThreadTurns
  <2>6. CASE ~(~o.wanted /\ o.published) /\ Becoming(h, o) /\ Unchanged /\ UNCHANGED <<unretried, faults>>
    BY <2>1, <2>2, <2>3, <2>6, OwnerKeeps
  <2> QED BY <2>2, <2>4, <2>5, <2>6, Zenon
<1>6. CASE Turn(h)
  <2> DEFINE o == [owner[h] EXCEPT !.pc = "drain", !.changed = owner[h].changed \/ notice[h]]
  <2>1. /\ o \in Owner /\ o.pc = "drain"
        /\ o.wanted = owner[h].wanted /\ o.published = owner[h].published
    BY <1>1, "drain" \in OwnerPlaces DEF Owner, OwnerPlaces
  <2>2. /\ Listening(h)
        /\ UNCHANGED <<collision, main, wanted, events, commands, acked, key, unretried, faults>>
        /\ owner' = [owner EXCEPT ![h] = o] /\ notice' = [notice EXCEPT ![h] = FALSE]
    BY <1>6 DEF Turn, At, Listening, threadOnly, Becoming
  <2> HIDE DEF o
  <2>3. notice' \in [Helpers -> BOOLEAN]
    BY <1>2, <2>2
  <2>4. h \notin unretried /\ ~owner[h].published => key # h
    BY <1>0, <2>2 DEF OwnersInv
  <2> QED BY <1>2, <2>1, <2>2, <2>3, <2>4, ThreadTurns
<1>7. CASE Drain(h)
  <2>1. owner[h].pc = "drain" /\ Listening(h) /\ UNCHANGED threadOnly
    BY <1>7 DEF Drain, At, Listening
  <2>2. commands[h] \in Seq(Command) /\ h \notin acked
    BY <1>0, <2>1 DEF TypeOK, OwnersInv
  <2>3. h \notin unretried /\ ~owner[h].published => key # h
    BY <1>0, <2>1 DEF OwnersInv
  <2>4. CASE /\ Becoming(h, [owner[h] EXCEPT !.pc = "apply"])
             /\ Unchanged /\ UNCHANGED <<commands, acked, unretried, faults>>
    <3> DEFINE o == [owner[h] EXCEPT !.pc = "apply"]
    <3>1. /\ o \in Owner /\ o.pc = "apply"
          /\ o.wanted = owner[h].wanted /\ o.published = owner[h].published
      BY <1>1, "apply" \in OwnerPlaces DEF Owner, OwnerPlaces
    <3>2. Becoming(h, o)
      BY <2>4
    <3> HIDE DEF o
    <3> QED BY <2>1, <2>4, <3>1, <3>2, OwnerKeeps DEF threadOnly
  <2>5. CASE /\ commands[h] # <<>> /\ Head(commands[h]) \in {"want", "withdraw"}
             /\ Becoming(h, [owner[h] EXCEPT !.wanted = Head(commands[h]) = "want"])
             /\ commands' = [commands EXCEPT ![h] = Tail(@)]
             /\ Unchanged /\ UNCHANGED <<acked, unretried, faults>>
    <3> DEFINE o == [owner[h] EXCEPT !.wanted = Head(commands[h]) = "want"]
    <3>1. /\ o \in Owner /\ o.pc = "drain" /\ o.published = owner[h].published
          /\ o.wanted = (Head(commands[h]) = "want")
      BY <1>1, <2>1 DEF Owner
    <3>2. owner' = [owner EXCEPT ![h] = o]
      BY <2>5 DEF Becoming
    <3> HIDE DEF o
    <3>3. commands'[h] = Tail(commands[h]) /\ \A g \in Helpers : g # h => commands'[g] = commands[g]
      BY <1>0, <2>5 DEF TypeOK
    <3>4. Tail(commands[h]) \in Seq(Command)
      BY <2>2, <2>5, AfterHead
    <3>5. commands' \in [Helpers -> Seq(Command)]
      BY <1>0, <2>5, <3>4 DEF TypeOK
    <3>6. AfterReading(Tail(commands[h]), Head(commands[h]) = "want")
            <=> AfterReading(commands[h], owner[h].wanted)
      BY <1>1, <2>2, <2>5, AfterHead
    <3>7. owner'[h].wanted = (Head(commands[h]) = "want")
      BY <1>0, <3>1, <3>2, OneOwner
    <3>8. AfterReading(commands'[h], owner'[h].wanted) <=> AfterReading(commands[h], owner[h].wanted)
      BY <3>3, <3>6, <3>7
    <3>9. WillWant(h)' = WillWant(h)
      <4>1. WillWant(h)' <=> WillWant(h)
        BY <3>8, WillWantIs, Zenon
      <4>2. WillWant(h) \in BOOLEAN /\ WillWant(h)' \in BOOLEAN
        BY DEF WillWant
      <4> QED BY <4>1, <4>2
    <3>10. key' = key /\ notice' = notice /\ UNCHANGED <<acked, unretried, faults>>
      BY <2>5 DEF Unchanged
    <3> QED BY <1>2, <2>1, <2>2, <2>3, <3>1, <3>2, <3>3, <3>5, <3>9, <3>10, ThreadKeeps
  <2>6. CASE /\ Becoming(h, [owner[h] EXCEPT !.pc = "returned", !.published = FALSE])
             /\ acked' = IF Head(commands[h]) = "remove" THEN acked \cup {h} ELSE acked
             /\ commands' = [commands EXCEPT ![h] = <<>>]
             /\ \/ StoreRemoves /\ UNCHANGED unretried
                \/ StoreKeeps /\ unretried' = unretried \cup {h}
    <3> DEFINE o == [owner[h] EXCEPT !.pc = "returned", !.published = FALSE]
    <3>1. o \in Owner /\ o.pc = "returned"
      BY <1>1, "returned" \in OwnerPlaces DEF Owner, OwnerPlaces
    <3>2. owner' = [owner EXCEPT ![h] = o]
      BY <2>6 DEF Becoming
    <3> HIDE DEF o
    <3>3. /\ commands' \in [Helpers -> Seq(Command)]
          /\ \A g \in Helpers : g # h => commands'[g] = commands[g]
      BY <1>0, <2>6 DEF TypeOK
    <3>4. notice' \in [Helpers -> BOOLEAN] /\ faults' \in 0..MaxFaults
      BY <1>0, <1>2, <2>6, FaultType, BecomesType DEF StoreRemoves, StoreKeeps, Unchanged
    <3>5. (key' = None /\ unretried' = unretried) \/ (key' = key /\ unretried' = unretried \cup {h})
      BY <1>0, <2>6, BecomesType DEF StoreRemoves, StoreKeeps, Unchanged
    <3>6. acked' \in {acked, acked \cup {h}}
      BY <2>6
    <3> QED BY <1>0, <2>1, <3>1, <3>2, <3>3, <3>4, <3>5, <3>6, ThreadKeeps
  <2> QED BY <1>7, <2>4, <2>5, <2>6, Zenon DEF Drain
<1>8. CASE CheckChanged(h) \/ Poll(h) \/ NoPoll(h)
  <2>1. PICK o \in {[owner[h] EXCEPT !.pc = "poll", !.changed = FALSE], [owner[h] EXCEPT !.pc = "turn"]} :
          \/ o.wanted /\ Publish(h, [o EXCEPT !.published = FALSE])
               /\ (Missing(o) \/ ~o.published)
          \/ Becoming(h, o) /\ Unchanged /\ UNCHANGED faults
    BY <1>8, Zenon DEF CheckChanged, Poll, NoPoll, Missing
  <2>2. owner[h].pc \in {"check", "poll"}
        /\ UNCHANGED <<collision, main, wanted, events, commands, acked, unretried>>
    BY <1>8 DEF CheckChanged, Poll, NoPoll, At, threadOnly
  <2>3. /\ o \in Owner /\ o.pc \in {"poll", "turn"}
        /\ o.wanted = owner[h].wanted /\ o.published = owner[h].published
    BY <1>1, <2>1, {"turn", "poll"} \subseteq OwnerPlaces DEF Owner, OwnerPlaces
  <2>4. Listening(h) /\ (h \notin unretried /\ ~owner[h].published => key # h)
    BY <1>0, <2>2 DEF OwnersInv, Listening
  <2>5. CASE o.wanted /\ Publish(h, [o EXCEPT !.published = FALSE]) /\ (Missing(o) \/ ~o.published)
    <3> DEFINE p == [o EXCEPT !.published = FALSE]
    <3>1. p \in Owner /\ p.pc = o.pc /\ p.wanted = o.wanted /\ p.published = FALSE
      BY <2>3 DEF Owner
    <3>2. Publish(h, p)
      BY <2>5
    <3> HIDE DEF p
    <3>3. h \notin unretried => key # h
      BY <1>0, <2>3, <2>4, <2>5 DEF Missing
    <3> QED BY <2>2, <2>3, <2>4, <2>5, <3>1, <3>2, <3>3, PublishKeeps
  <2>6. CASE Becoming(h, o) /\ Unchanged /\ UNCHANGED faults
    <3>1. h \notin unretried /\ ~o.wanted => key # h
      BY <1>0, <2>2, <2>3 DEF WithdrawnIsAbsent
    <3> QED BY <2>2, <2>3, <2>4, <2>6, <3>1, OwnerKeeps
  <2> QED BY <2>1, <2>5, <2>6
<1> QED BY <1>3, <1>4, <1>5, <1>6, <1>7, <1>8, Zenon DEF ThreadStep

-----------------------------------------------------------------------------
(***************************************************************************)
(* configd and the main thread.                                            *)
(***************************************************************************)

(* The key goes, or stays; nobody else moves.                              *)
LEMMA KeyGoes ==
  ASSUME StoreKeyInv, key' \in {key, None}, notice' \in [Helpers -> BOOLEAN],
         collision' \in BOOLEAN, events' \in 0..MaxEvents,
         UNCHANGED <<main, wanted, commands, owner, acked, unretried, faults>>
  PROVE  StoreKeyInv'
<1>0. TypeOK /\ ThreadIsTold /\ OwnersInv /\ RemovedWhenAcked /\ WithdrawnIsAbsent
      /\ None \notin Helpers /\ acked \subseteq Helpers
  BY StoreKeyAssumption DEF StoreKeyInv, KeyInv, KeyStaysAway, TypeOK
<1>1. \A h \in Helpers : key' = h => key = h
  BY <1>0
<1>2. TypeOK'
  BY <1>0 DEF TypeOK
<1>3. ThreadIsTold'
  <2> SUFFICES ASSUME NEW h \in Helpers, Listening(h)' PROVE WillWant(h)' = wanted'[h]
    BY DEF ThreadIsTold
  <2>1. Listening(h) /\ WillWant(h)' = WillWant(h)
    BY DEF WillWant, Listening
  <2> QED BY <1>0, <2>1 DEF ThreadIsTold
<1>4. OwnersInv'
  BY <1>0, <1>1 DEF OwnersInv, Listening
<1>5. RemovedWhenAcked'
  BY <1>0, <1>1 DEF RemovedWhenAcked
<1>6. WithdrawnIsAbsent'
  BY <1>0, <1>1 DEF WithdrawnIsAbsent
<1> QED BY <1>2, <1>3, <1>4, <1>5, <1>6 DEF StoreKeyInv, KeyInv, KeyStaysAway

(* A main thread sends a command, or none, and goes on past the start.     *)
LEMMA MainSends ==
  ASSUME StoreKeyInv, NEW h \in Helpers, NEW place \in Places \ {"none", "setup"}, NEW c \in Command,
         main' = [main EXCEPT ![h] = place], commands' \in {commands, Sent(h, c)},
         UNCHANGED <<collision, key, owner, notice, acked, unretried, events>>, faults' \in 0..MaxFaults,
         main[h] \notin {"none", "setup"},
         \/ wanted' = wanted /\ (c \in {"remove", "closed"} \/ commands' = commands)
         \/ /\ wanted' = [wanted EXCEPT ![h] = (c = "want")]
            /\ c \in {"want", "withdraw"} /\ commands' = Sent(h, c)
  PROVE  StoreKeyInv'
<1>0. TypeOK /\ ThreadIsTold /\ OwnersInv /\ RemovedWhenAcked /\ WithdrawnIsAbsent
  BY DEF StoreKeyInv, KeyInv, KeyStaysAway
<1>1. main'[h] = place /\ \A g \in Helpers : g # h => main'[g] = main[g]
  BY <1>0 DEF TypeOK
<1>2. /\ commands[h] \in Seq(Command) /\ owner[h].wanted \in BOOLEAN
      /\ Append(commands[h], c) \in Seq(Command)
  BY <1>0, OwnerFields, AfterAppend DEF TypeOK
<1>3. /\ \A g \in Helpers : g # h => commands'[g] = commands[g] /\ wanted'[g] = wanted[g]
      /\ commands' \in [Helpers -> Seq(Command)] /\ wanted' \in [Helpers -> BOOLEAN]
      /\ commands' = commands \/ (Listening(h) /\ commands'[h] = Append(commands[h], c))
      /\ commands' = Sent(h, c) /\ Listening(h) => commands'[h] = Append(commands[h], c)
  BY <1>0, <1>2 DEF TypeOK, Sent
<1>4. TypeOK'
  BY <1>0, <1>3 DEF TypeOK
<1>5. ThreadIsTold'
  <2> SUFFICES ASSUME NEW g \in Helpers, Listening(g)' PROVE WillWant(g)' = wanted'[g]
    BY DEF ThreadIsTold
  <2>1. Listening(g) /\ WillWant(g) = wanted[g] /\ WillWant(g)' \in BOOLEAN /\ WillWant(g) \in BOOLEAN
        /\ wanted'[g] \in BOOLEAN
    BY <1>0, <1>3 DEF ThreadIsTold, Listening, WillWant
  <2>2. CASE g # h \/ commands' = commands
    <3>1. commands'[g] = commands[g]
      BY <1>3, <2>2
    <3>2. WillWant(g)' = WillWant(g)
      BY <3>1 DEF WillWant
    <3>3. CASE wanted' = wanted
      BY <2>1, <3>2, <3>3
    <3>4. CASE g # h
      BY <1>3, <2>1, <3>2, <3>4
    <3>5. CASE g = h /\ commands' = Sent(h, c)
      <4>1. commands'[h] = Append(commands[h], c) /\ commands' = commands
        BY <1>3, <2>1, <2>2, <3>5
      <4>2. FALSE
        BY <1>2, <4>1
      <4> QED BY <4>2
    <3> QED BY <3>3, <3>4, <3>5
  <2>3. CASE g = h /\ commands' # commands
    <3>1. commands'[h] = Append(commands[h], c) /\ owner'[h] = owner[h]
      BY <1>3, <2>3
    <3>2. WillWant(h)' <=> AfterReading(Append(commands[h], c), owner[h].wanted)
      BY <3>1, WillWantIs
    <3>3. WillWant(h) <=> AfterReading(commands[h], owner[h].wanted)
      BY WillWantIs
    <3>4. CASE wanted' = wanted /\ c \in {"remove", "closed"}
      <4>2. WillWant(h)' <=> WillWant(h)
        BY <1>2, <3>2, <3>3, <3>4, AfterAppend
      <4> QED BY <2>1, <2>3, <3>4, <4>2
    <3>5. CASE wanted' = [wanted EXCEPT ![h] = (c = "want")] /\ c \in {"want", "withdraw"}
      <4>1. wanted'[h] = (c = "want")
        BY <1>0, <3>5 DEF TypeOK
      <4>2. WillWant(h)' <=> c = "want"
        BY <1>2, <3>2, <3>5, AfterAppend
      <4> QED BY <2>1, <2>3, <4>1, <4>2
    <3> QED BY <2>3, <3>4, <3>5
  <2> QED BY <2>2, <2>3
<1>6. OwnersInv'
  BY <1>0, <1>1, <1>3 DEF OwnersInv, Listening
<1>7. RemovedWhenAcked' /\ WithdrawnIsAbsent'
  BY <1>0 DEF RemovedWhenAcked, WithdrawnIsAbsent
<1> QED BY <1>4, <1>5, <1>6, <1>7 DEF StoreKeyInv, KeyInv, KeyStaysAway

(* A helper whose thread is not there, before its start or after its end.  *)
LEMMA OwnerComes ==
  ASSUME StoreKeyInv, NEW h \in Helpers, ~Listening(h), NEW place \in Places, NEW o \in Owner,
         NEW b \in BOOLEAN,
         main' = [main EXCEPT ![h] = place], owner' = [owner EXCEPT ![h] = o],
         wanted' = [wanted EXCEPT ![h] = b],
         notice' \in [Helpers -> BOOLEAN], faults' \in 0..MaxFaults,
         UNCHANGED <<collision, key, commands, acked, events>>,
         unretried' \in {unretried, unretried \cup {h}},
         o.pc = "none" \/ (o.pc = "session" /\ o.wanted = b),
         main[h] \in {"none", "setup"}, place \in {"none", "setup"} => o.pc = "none"
  PROVE  StoreKeyInv'
<1>0. TypeOK /\ ThreadIsTold /\ OwnersInv /\ RemovedWhenAcked /\ WithdrawnIsAbsent
      /\ acked \subseteq Helpers
  BY DEF StoreKeyInv, KeyInv, KeyStaysAway, TypeOK
<1>1. /\ main'[h] = place /\ \A g \in Helpers : g # h => main'[g] = main[g]
      /\ wanted'[h] = b /\ \A g \in Helpers : g # h => wanted'[g] = wanted[g]
      /\ owner'[h] = o /\ \A g \in Helpers : g # h => owner'[g] = owner[g]
  BY <1>0 DEF TypeOK
<1>2. commands[h] = <<>> /\ key # h /\ h \notin acked
  BY <1>0 DEF OwnersInv
<1>3. TypeOK'
  BY <1>0 DEF TypeOK
<1>4. ThreadIsTold'
  <2> SUFFICES ASSUME NEW g \in Helpers, Listening(g)' PROVE WillWant(g)' = wanted'[g]
    BY DEF ThreadIsTold
  <2>1. CASE g = h
    <3>1. DOMAIN commands'[h] = {}
      BY <1>2
    <3>2. o.wanted = b
      BY <1>1, <2>1 DEF Listening
    <3> QED BY <1>1, <2>1, <3>1, <3>2 DEF WillWant
  <2>2. CASE g # h
    <3>1. owner'[g] = owner[g] /\ commands'[g] = commands[g] /\ wanted'[g] = wanted[g]
      BY <1>1, <2>2
    <3>2. Listening(g) /\ WillWant(g)' = WillWant(g)
      BY <3>1 DEF Listening, WillWant
    <3> QED BY <1>0, <3>1, <3>2 DEF ThreadIsTold
  <2> QED BY <2>1, <2>2
<1>5. OwnersInv'
  <2>1. \A g \in Helpers : main'[g] \in {"none", "setup"} =>
          owner'[g].pc = "none" /\ commands'[g] = <<>> /\ key' # g
    BY <1>0, <1>1, <1>2 DEF OwnersInv
  <2>2. \A g \in acked' : owner'[g].pc = "returned"
    BY <1>0, <1>1, <1>2 DEF OwnersInv
  <2>3. ASSUME NEW g \in Helpers \ unretried', Listening(g)', ~owner'[g].published PROVE key' # g
    BY <1>0, <1>1, <1>2, <2>3 DEF OwnersInv, Listening
  <2> QED BY <2>1, <2>2, <2>3 DEF OwnersInv
<1>6. RemovedWhenAcked'
  BY <1>0, <1>2 DEF RemovedWhenAcked
<1>7. WithdrawnIsAbsent'
  <2> SUFFICES ASSUME NEW g \in Helpers \ unretried', owner'[g].pc \in {"check", "poll", "turn"},
                      ~owner'[g].wanted
               PROVE  key' # g
    BY DEF WithdrawnIsAbsent
  <2> QED BY <1>0, <1>1, <1>2 DEF WithdrawnIsAbsent
<1> QED BY <1>3, <1>4, <1>5, <1>6, <1>7 DEF StoreKeyInv, KeyInv, KeyStaysAway

(* A process ends, with its threads.                                       *)
LEMMA EndKeeps ==
  ASSUME StoreKeyInv, NEW h \in Helpers, ProcessEnds(h)
  PROVE  StoreKeyInv'
<1>0. TypeOK /\ ThreadIsTold /\ OwnersInv /\ RemovedWhenAcked /\ WithdrawnIsAbsent
      /\ acked \subseteq Helpers
  BY DEF StoreKeyInv, KeyInv, KeyStaysAway, TypeOK
<1>1. /\ main' = [main EXCEPT ![h] = "gone"]
      /\ owner' = [owner EXCEPT ![h] = NoOwner]
      /\ commands' = [commands EXCEPT ![h] = <<>>]
      /\ notice' = [notice EXCEPT ![h] = FALSE]
      /\ wanted' = [wanted EXCEPT ![h] = FALSE]
      /\ acked' = acked \ {h} /\ unretried' = unretried \ {h}
      /\ UNCHANGED <<collision, key, events, faults>>
  BY DEF ProcessEnds, Goes, bounds
<1>2. NoOwner \in Owner /\ NoOwner.pc = "none"
  BY OwnerTypes, OwnerFields
<1>3. /\ main'[h] = "gone" /\ owner'[h] = NoOwner
      /\ \A g \in Helpers : g # h => /\ main'[g] = main[g] /\ owner'[g] = owner[g]
                                     /\ commands'[g] = commands[g] /\ wanted'[g] = wanted[g]
  BY <1>0, <1>1 DEF TypeOK
<1>4. TypeOK'
  <2>1. main' \in [Helpers -> Places] /\ commands' \in [Helpers -> Seq(Command)]
    BY <1>0, <1>1 DEF TypeOK, Places
  <2> QED BY <1>0, <1>1, <1>2, <2>1 DEF TypeOK
<1>5. ~Listening(h)'
  BY <1>2, <1>3 DEF Listening
<1>6. ThreadIsTold'
  <2> SUFFICES ASSUME NEW g \in Helpers, Listening(g)' PROVE WillWant(g)' = wanted'[g]
    BY DEF ThreadIsTold
  <2>1. g # h
    BY <1>5
  <2>2. Listening(g) /\ WillWant(g)' = WillWant(g) /\ wanted'[g] = wanted[g]
    BY <1>3, <2>1 DEF Listening, WillWant
  <2> QED BY <1>0, <2>2 DEF ThreadIsTold
<1>7. OwnersInv'
  <2>1. \A g \in Helpers : main'[g] \in {"none", "setup"} =>
          owner'[g].pc = "none" /\ commands'[g] = <<>> /\ key' # g
    BY <1>0, <1>1, <1>3 DEF OwnersInv
  <2>2. \A g \in acked' : owner'[g].pc = "returned"
    BY <1>0, <1>1, <1>3 DEF OwnersInv
  <2>3. ASSUME NEW g \in Helpers \ unretried', Listening(g)', ~owner'[g].published PROVE key' # g
    BY <1>0, <1>1, <1>3, <1>5, <2>3 DEF OwnersInv, Listening
  <2> QED BY <2>1, <2>2, <2>3 DEF OwnersInv
<1>8. RemovedWhenAcked'
  BY <1>0, <1>1 DEF RemovedWhenAcked
<1>9. WithdrawnIsAbsent'
  <2> SUFFICES ASSUME NEW g \in Helpers \ unretried', owner'[g].pc \in {"check", "poll", "turn"},
                      ~owner'[g].wanted
               PROVE  key' # g
    BY DEF WithdrawnIsAbsent
  <2> QED BY <1>0, <1>1, <1>2, <1>3 DEF WithdrawnIsAbsent
<1> QED BY <1>4, <1>6, <1>7, <1>8, <1>9 DEF StoreKeyInv, KeyInv, KeyStaysAway

-----------------------------------------------------------------------------
LEMMA StoreKeyStep == StoreKeyInv /\ [Next]_vars => StoreKeyInv'
<1> SUFFICES ASSUME StoreKeyInv, [Next]_vars PROVE StoreKeyInv'
  OBVIOUS
<1>0. TypeOK /\ OwnersInv
  BY DEF StoreKeyInv, KeyInv
<1>t. /\ collision \in BOOLEAN /\ notice \in [Helpers -> BOOLEAN]
      /\ events \in 0..MaxEvents /\ faults \in 0..MaxFaults
      /\ \A h \in Helpers : main[h] \in Places /\ owner[h] \in Owner /\ wanted[h] \in BOOLEAN
  BY <1>0 DEF TypeOK
<1>1. CASE LoseKey
  <2>1. key' \in {key, None} /\ notice' \in [Helpers -> BOOLEAN]
    BY <1>0, <1>t, <1>1, BecomesType DEF LoseKey
  <2>2. events' \in 0..MaxEvents
    BY <1>0, <1>1, EventType DEF LoseKey
  <2> QED BY <1>t, <1>1, <2>1, <2>2, KeyGoes DEF LoseKey
<1>2. CASE JoinOrLeaveLan
  <2>1. events' \in 0..MaxEvents
    BY <1>0, <1>2, EventType DEF JoinOrLeaveLan
  <2> QED BY <1>t, <1>2, <2>1, KeyGoes DEF JoinOrLeaveLan
<1>3. ASSUME NEW h \in Helpers, DropSession(h) PROVE StoreKeyInv'
  <2>1. key' \in {key, None} /\ notice' \in [Helpers -> BOOLEAN]
    BY <1>0, <1>3, BecomesType DEF DropSession
  <2> QED BY <1>t, <1>3, <2>1, KeyGoes DEF DropSession, bounds
<1>4. ASSUME NEW h \in Helpers, Setup(h) PROVE StoreKeyInv'
  <2>1. /\ main[h] = "none" /\ main' = [main EXCEPT ![h] = "setup"]
        /\ wanted' = [wanted EXCEPT ![h] = ~collision]
        /\ UNCHANGED <<collision, key, commands, owner, notice, acked, unretried, events, faults>>
    BY <1>4 DEF Setup, Goes, bounds
  <2>2. owner[h].pc = "none" /\ ~Listening(h)
    BY <1>0, <2>1 DEF OwnersInv, Listening
  <2>3. owner' = [owner EXCEPT ![h] = owner[h]]
    BY <1>0, <2>1 DEF TypeOK
  <2>4. PICK b \in BOOLEAN : b = ~collision
    OBVIOUS
  <2>5. "setup" \in Places
    BY DEF Places
  <2> QED BY <1>t, <2>1, <2>2, <2>3, <2>4, <2>5, OwnerComes
<1>5. ASSUME NEW h \in Helpers, Start(h) PROVE StoreKeyInv'
  <2>1. /\ main[h] = "setup" /\ main' = [main EXCEPT ![h] = "started"]
        /\ UNCHANGED <<collision, key, wanted, commands, notice, acked, events>>
        /\ \/ /\ owner' = [owner EXCEPT ![h] = [NoOwner EXCEPT !.pc = "session", !.wanted = wanted[h]]]
              /\ UNCHANGED <<unretried, faults>>
           \/ Fault /\ unretried' = unretried \cup {h} /\ owner' = owner
    BY <1>5 DEF Start, Goes
  <2>2. owner[h].pc = "none" /\ ~Listening(h)
    BY <1>0, <2>1 DEF OwnersInv, Listening
  <2>3. wanted' = [wanted EXCEPT ![h] = wanted[h]] /\ "started" \in Places /\ faults' \in 0..MaxFaults
    BY <1>0, <1>t, <2>1, FaultType DEF TypeOK, Places
  <2>4. CASE Fault /\ unretried' = unretried \cup {h} /\ owner' = owner
    <3>1. owner' = [owner EXCEPT ![h] = owner[h]]
      BY <1>0, <2>4 DEF TypeOK
    <3> QED BY <1>t, <2>1, <2>2, <2>3, <2>4, <3>1, OwnerComes
  <2>5. CASE /\ owner' = [owner EXCEPT ![h] = [NoOwner EXCEPT !.pc = "session", !.wanted = wanted[h]]]
             /\ UNCHANGED <<unretried, faults>>
    <3> DEFINE o == [NoOwner EXCEPT !.pc = "session", !.wanted = wanted[h]]
    <3>0. NoOwner \in Owner /\ "session" \in OwnerPlaces
      BY OwnerTypes DEF OwnerPlaces
    <3>1. o \in Owner /\ o.pc = "session" /\ o.wanted = wanted[h]
      BY <1>t, <3>0 DEF Owner
    <3>2. owner' = [owner EXCEPT ![h] = o]
      BY <2>5
    <3> HIDE DEF o
    <3>3. PICK b \in BOOLEAN : b = wanted[h]
      BY <1>t
    <3>4. notice' \in [Helpers -> BOOLEAN] /\ unretried' \in {unretried, unretried \cup {h}}
      BY <1>t, <2>1, <2>5
    <3>5. wanted' = [wanted EXCEPT ![h] = b] /\ (o.pc = "session" /\ o.wanted = b)
      BY <2>3, <3>1, <3>3
    <3> QED BY <2>1, <2>2, <2>3, <3>1, <3>2, <3>4, <3>5, OwnerComes
  <2> QED BY <2>1, <2>4, <2>5
<1>6. ASSUME NEW h \in Helpers, Up(h) \/ EndRemove(h) PROVE StoreKeyInv'
  <2>1. /\ main[h] \in {"started", "removing"}
        /\ main' = [main EXCEPT ![h] = "up"] \/ main' = [main EXCEPT ![h] = "exiting"]
        /\ UNCHANGED <<collision, key, wanted, commands, owner, notice, acked, unretried, events, faults>>
    BY <1>6 DEF Up, EndRemove, Goes, bounds
  <2>2. {"up", "exiting"} \subseteq Places \ {"none", "setup"} /\ "remove" \in Command
    BY DEF Places, Command
  <2> QED BY <1>t, <2>1, <2>2, MainSends
<1>7. ASSUME NEW h \in Helpers, Abandon(h) PROVE StoreKeyInv'
  <2>1. "exiting" \in Places \ {"none", "setup"} /\ "closed" \in Command /\ faults' \in 0..MaxFaults
    BY <1>0, <1>7, FaultType DEF Places, Command, Abandon
  <2> QED BY <1>7, <2>1, MainSends DEF Abandon, Goes
<1>8. ASSUME NEW h \in Helpers, SetWanted(h) PROVE StoreKeyInv'
  <2> DEFINE c == IF collision THEN "withdraw" ELSE "want"
  <2>1. /\ main[h] = "up" /\ wanted' = [wanted EXCEPT ![h] = ~collision]
        /\ commands' = Sent(h, c) /\ main' = main
        /\ UNCHANGED <<collision, key, owner, notice, acked, unretried, events, faults>>
    BY <1>8 DEF SetWanted, bounds
  <2>2. c \in Command /\ c \in {"want", "withdraw"} /\ (~collision) = (c = "want")
    BY <1>t DEF Command
  <2>3. main' = [main EXCEPT ![h] = "up"] /\ "up" \in Places \ {"none", "setup"}
    BY <1>0, <2>1 DEF TypeOK, Places
  <2> HIDE DEF c
  <2>4. wanted' = [wanted EXCEPT ![h] = (c = "want")]
    BY <2>1, <2>2
  <2> QED BY <1>t, <2>1, <2>2, <2>3, <2>4, MainSends
<1>9. ASSUME NEW h \in Helpers, BeginRemove(h) PROVE StoreKeyInv'
  <2>1. PICK place \in {"removing", "exiting"} :
          /\ main[h] = "up" /\ commands' = Sent(h, "remove") /\ main' = [main EXCEPT ![h] = place]
          /\ UNCHANGED <<collision, key, wanted, owner, notice, acked, unretried, events, faults>>
    BY <1>9 DEF BeginRemove, Goes, bounds
  <2>2. place \in Places \ {"none", "setup"} /\ "remove" \in Command
    BY DEF Places, Command
  <2> QED BY <1>t, <2>1, <2>2, MainSends
<1>10. ASSUME NEW h \in Helpers, Exit(h) \/ Crash(h) PROVE StoreKeyInv'
  BY <1>10, EndKeeps DEF Exit, Crash
<1>11. ASSUME NEW h \in Helpers, ThreadStep(h) PROVE StoreKeyInv'
  BY <1>11, ThreadStepKeeps
<1>12. CASE UNCHANGED vars
  BY <1>t, <1>12, KeyGoes DEF vars, bounds
<1> QED BY <1>1, <1>2, <1>3, <1>4, <1>5, <1>6, <1>7, <1>8, <1>9, <1>10, <1>11, <1>12, Zenon
        DEF Next, MainStep

LEMMA StoreKeyHolds == Spec => []StoreKeyInv
<1>1. ASSUME Init PROVE StoreKeyInv
  <2>1. TypeOK
    <3>1. MaxEvents \in Nat /\ MaxFaults \in Nat
      BY StoreKeyAssumption
    <3>2. main \in [Helpers -> Places] /\ commands \in [Helpers -> Seq(Command)]
      BY <1>1 DEF Init, Places
    <3>3. owner \in [Helpers -> Owner]
      BY <1>1, OwnerTypes DEF Init
    <3>4. events \in 0..MaxEvents /\ faults \in 0..MaxFaults
      BY <1>1, <3>1 DEF Init
    <3> QED BY <1>1, <3>2, <3>3, <3>4 DEF Init, TypeOK
  <2>2. /\ \A h \in Helpers : owner[h].pc = "none" /\ commands[h] = <<>>
        /\ acked = {} /\ key \notin Helpers
    BY <1>1, OwnerFields, StoreKeyAssumption DEF Init
  <2> QED BY <2>1, <2>2 DEF StoreKeyInv, KeyInv, ThreadIsTold, Listening, OwnersInv, KeyStaysAway,
                            RemovedWhenAcked, WithdrawnIsAbsent
<1> QED BY <1>1, StoreKeyStep, PTL DEF Spec

(* set_wanted sends only changes, and yet the owner thread wants, or is    *)
(* about to want, what the main thread last asked for.                     *)
THEOREM ThreadsAgree == Spec => []KeyInv
<1>1. StoreKeyInv => KeyInv
  BY DEF StoreKeyInv
<1> QED BY <1>1, StoreKeyHolds, PTL

(* Owner::remove, apply, check and the poll never bring back a key that    *)
(* was removed or withdrawn.                                               *)
THEOREM RemovedKeyStaysAway == Spec => []KeyStaysAway
<1>1. StoreKeyInv => KeyStaysAway
  BY DEF StoreKeyInv
<1> QED BY <1>1, StoreKeyHolds, PTL
=============================================================================
