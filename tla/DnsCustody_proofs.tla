------------------------- MODULE DnsCustody_proofs -------------------------
(***************************************************************************)
(* Theorems about DnsCustody for every set of services and of settings.    *)
(* TypeCorrect, OwnDnsNeverOriginal, PassesInOrder, AppliesOnlyOwned and   *)
(* OriginalsStayStable hold for every set of tunnels, under all            *)
(* disturbances and any number of failing calls; the three theorems after  *)
(* them name in their hypotheses what they leave out.                      *)
(***************************************************************************)
EXTENDS DnsCustody, TLAPS

(* The values variables start with, and fall back to, have their types.    *)
LEMMA EmptyValues ==
  /\ EmptyConfig \in Config
  /\ NoCustody \in Custody
  /\ NoJob \in Job
  /\ NoFingerprint \in Fingerprint
  /\ NoSweep \in SweepState
<1>1. EmptyConfig \in Config
  BY DEF EmptyConfig, Config, Lists, Domains
<1>2. NoCustody \in Custody
  BY DEF NoCustody, Custody
<1>3. NoJob \in Job
  BY DEF NoJob, Job
<1>4. NoFingerprint \in Fingerprint
  BY DEF NoFingerprint, Fingerprint, Lists
<1>5. NoSweep \in SweepState
  BY <1>2 DEF NoSweep, SweepState, SweepPc
<1> QED BY <1>1, <1>2, <1>3, <1>4, <1>5

(* Forgetting services keeps a custody a custody.                          *)
LEMMA ForgetType ==
  ASSUME NEW c \in Custody, NEW gone
  PROVE  Forget(c, gone) \in Custody
BY DEF Forget, Custody

(* What a helper observes is a fingerprint.                                *)
LEMMA SnapshotType ==
  ASSUME TypeOK, NEW unread
  PROVE  Snapshot(unread) \in Fingerprint
BY DEF Snapshot, Fingerprint, TypeOK, Config, Lists

(* dns_decision names services only.                                       *)
LEMMA DecisionTargets ==
  ASSUME NEW fp \in Fingerprint, NEW collision
  PROVE  DnsDecision(fp, collision).targets \subseteq Services
BY DEF DnsDecision, Fingerprint

(* What a capture keeps is a configuration.                                *)
LEMMA CaptureType ==
  ASSUME TypeOK, NEW t \in Tunnels, NEW s \in Services
  PROVE  CaptureOf(t, s) \in Config
BY EmptyValues DEF CaptureOf, TypeOK

(* A failing call uses up a fault.                                         *)
LEMMA FaultType ==
  ASSUME TypeOK, Fault
  PROVE  faults' \in 0..MaxFaults
BY CustodyAssumption DEF TypeOK, Fault

LEMMA FailsType ==
  ASSUME TypeOK, NEW s, Fails(s)
  PROVE  faults' \in 0..MaxFaults
BY CustodyAssumption DEF TypeOK, Fails

LEMMA UnreadType ==
  ASSUME TypeOK, NEW u, Unread(u)
  PROVE  faults' \in 0..MaxFaults
BY FaultType DEF Unread, TypeOK

(* A process that exits leaves well-typed variables behind.                *)
LEMMA ExitType ==
  ASSUME TypeOK, NEW t \in Tunnels, Exit(t)
  PROVE  /\ pc' \in [Tunnels -> HelperPc]
         /\ saved' \in [Tunnels -> Custody]
         /\ fingerprint' \in [Tunnels -> Fingerprint]
         /\ job' \in [Tunnels -> Job]
BY EmptyValues DEF Exit, SetJob, Goto, HelperPc, TypeOK

(* A write to one half of a service's settings leaves settings.            *)
LEMMA SetServersType ==
  ASSUME TypeOK, NEW s \in Services, NEW l \in Lists, SetServers(s, l)
  PROVE  live' \in [Services -> Config]
BY DEF SetServers, TypeOK, Config

LEMMA SetSearchType ==
  ASSUME TypeOK, NEW s \in Services, NEW d \in Domains, SetSearch(s, d)
  PROVE  live' \in [Services -> Config]
BY DEF SetSearch, TypeOK, Config

(* Each half of what a custody keeps is of its kind.                       *)
LEMMA CustodyHalves ==
  ASSUME NEW c \in Custody, NEW s \in Services
  PROVE  c[s].servers \in Lists /\ c[s].search \in Domains
<1>1. c[s] \in Config \/ c[s] = NotHeld
  BY DEF Custody
<1>2. CASE c[s] \in Config
  BY <1>2 DEF Config
<1>3. CASE c[s] = NotHeld
  BY <1>3 DEF NotHeld, Lists, Domains
<1> QED BY <1>1, <1>2, <1>3

(* The jobs a pass, a rollback and a teardown start with are jobs ...      *)
LEMMA NewPlan ==
  ASSUME NEW j \in Job, NEW C \in SUBSET Services, NEW A \in SUBSET Services,
         NEW R \in SUBSET Services, NEW D \in SUBSET Services, NEW b \in BOOLEAN
  PROVE  [j EXCEPT !.capture = C, !.apply = A, !.restore = R, !.drop = D, !.changed = b] \in Job
BY Zenon DEF Job

LEMMA NewStart ==
  ASSUME NEW j \in Job, NEW S \in SUBSET Services
  PROVE  /\ [j EXCEPT !.capture = S, !.apply = S, !.acted = TRUE, !.booting = TRUE] \in Job
         /\ [j EXCEPT !.booting = TRUE, !.stopping = TRUE, !.restore = S] \in Job
         /\ [j EXCEPT !.stopping = TRUE, !.restore = S] \in Job
<1>1. [j EXCEPT !.capture = S, !.apply = S, !.acted = TRUE, !.booting = TRUE] \in Job
  BY Zenon DEF Job
<1>2. [j EXCEPT !.booting = TRUE, !.stopping = TRUE, !.restore = S] \in Job
  BY Zenon DEF Job
<1>3. [j EXCEPT !.stopping = TRUE, !.restore = S] \in Job
  BY Zenon DEF Job
<1> QED BY <1>1, <1>2, <1>3, Zenon

LEMMA NewFailure ==
  ASSUME NEW j \in Job
  PROVE  [j EXCEPT !.booting = TRUE, !.stopping = TRUE] \in Job
BY Zenon DEF Job

(* ... and so is what is left of a job after one of its steps.             *)
LEMMA JobSteps ==
  ASSUME NEW j \in Job, NEW s \in Services
  PROVE  /\ [j EXCEPT !.capture = @ \ {s}, !.changed = TRUE] \in Job
         /\ [j EXCEPT !.capture = @ \ {s}, !.apply = @ \ {s}] \in Job
         /\ [j EXCEPT !.half = s] \in Job
         /\ [j EXCEPT !.half = None, !.restore = @ \ {s}] \in Job
         /\ [j EXCEPT !.half = None, !.restore = @ \ {s}, !.changed = TRUE,
                      !.acted = TRUE] \in Job
         /\ [j EXCEPT !.half = None, !.apply = @ \ {s}] \in Job
         /\ [j EXCEPT !.half = None, !.apply = @ \ {s}, !.acted = TRUE] \in Job
<1>1. /\ j.capture \ {s} \in SUBSET Services
      /\ j.apply \ {s} \in SUBSET Services
      /\ j.restore \ {s} \in SUBSET Services
  BY DEF Job
<1>2. [j EXCEPT !.capture = @ \ {s}, !.changed = TRUE] \in Job
  BY <1>1, Zenon DEF Job
<1>3. [j EXCEPT !.capture = @ \ {s}, !.apply = @ \ {s}] \in Job
  BY <1>1, Zenon DEF Job
<1>4. [j EXCEPT !.half = s] \in Job
  BY Zenon DEF Job
<1>5. [j EXCEPT !.half = None, !.restore = @ \ {s}] \in Job
  BY <1>1, Zenon DEF Job
<1>6. [j EXCEPT !.half = None, !.restore = @ \ {s}, !.changed = TRUE, !.acted = TRUE] \in Job
  BY <1>1, Zenon DEF Job
<1>7. [j EXCEPT !.half = None, !.apply = @ \ {s}] \in Job
  BY <1>1, Zenon DEF Job
<1>8. [j EXCEPT !.half = None, !.apply = @ \ {s}, !.acted = TRUE] \in Job
  BY <1>1, Zenon DEF Job
<1> QED BY <1>2, <1>3, <1>4, <1>5, <1>6, <1>7, <1>8, Zenon

LEMMA JobOf ==
  ASSUME TypeOK, NEW t \in Tunnels
  PROVE  job[t] \in Job
BY DEF TypeOK

LEMMA SetJobType ==
  ASSUME TypeOK, NEW t \in Tunnels, NEW j \in Job, SetJob(t, j)
  PROVE  job' \in [Tunnels -> Job]
BY DEF SetJob, TypeOK

(* What a helper owns is a set of services.                                *)
LEMMA OwnedType ==
  ASSUME NEW t
  PROVE  Owned(t) \in SUBSET Services
BY DEF Owned, Held

(* One step of helper t preserves the types.                               *)
LEMMA HelperTypes ==
  ASSUME TypeOK, NEW t \in Tunnels, HelperStep(t)
  PROVE  TypeOK'
<1>1. CASE Bind(t)
  BY <1>1 DEF Bind, Goto, TypeOK, HelperPc, envVars, ghostVars
<1>2. CASE Configure(t)
  <2>1. PICK unread \in SUBSET present :
          LET targets == DnsDecision(Snapshot(unread), collides[t]).targets
          IN  /\ Unread(unread)
              /\ fingerprint' = [fingerprint EXCEPT ![t] = Snapshot(unread)]
              /\ SetJob(t, [NoJob EXCEPT !.capture = targets, !.apply = targets,
                                         !.acted = TRUE, !.booting = TRUE])
              /\ Goto(t, "prepare")
    BY <1>2 DEF Configure
  <2>2. /\ Snapshot(unread) \in Fingerprint
        /\ DnsDecision(Snapshot(unread), collides[t]).targets \subseteq Services
        /\ faults' \in 0..MaxFaults
    BY <2>1, SnapshotType, DecisionTargets, UnreadType
  <2>3. job' \in [Tunnels -> Job]
    BY <2>1, <2>2, EmptyValues, NewStart, SetJobType, Zenon
  <2>4. pc' \in [Tunnels -> HelperPc]
    BY <2>1 DEF Goto, TypeOK, HelperPc
  <2>5. fingerprint' \in [Tunnels -> Fingerprint]
    BY <2>1, <2>2 DEF TypeOK
  <2> QED BY <1>2, <2>2, <2>3, <2>4, <2>5 DEF Configure, TypeOK, envVars, ghostVars
<1>3. CASE SetupFails(t)
  <2>1. job' \in [Tunnels -> Job]
    BY <1>3, EmptyValues, NewFailure, SetJobType, Zenon DEF SetupFails
  <2> QED BY <1>3, <2>1 DEF SetupFails, Goto, TypeOK, HelperPc, envVars, ghostVars
<1>4. CASE Tick(t)
  <2>1. PICK unread \in SUBSET present :
          LET plan == PlanDnsActions(t, Snapshot(unread), Owned(t),
                        DnsDecision(Snapshot(unread), collides[t]).targets)
          IN  /\ Unread(unread)
              /\ fingerprint' = [fingerprint EXCEPT ![t] = Snapshot(unread)]
              /\ SetJob(t, [NoJob EXCEPT !.capture = plan.capture, !.apply = plan.apply,
                                         !.restore = plan.restore, !.drop = plan.drop,
                                         !.changed = plan.drop # {}])
              /\ Goto(t, "prepare")
    BY <1>4 DEF Tick
  <2>2. /\ Snapshot(unread) \in Fingerprint
        /\ DnsDecision(Snapshot(unread), collides[t]).targets \subseteq Services
        /\ faults' \in 0..MaxFaults
    BY <2>1, SnapshotType, DecisionTargets, UnreadType
  <2>3. job' \in [Tunnels -> Job]
    <3> DEFINE plan == PlanDnsActions(t, Snapshot(unread), Owned(t),
                         DnsDecision(Snapshot(unread), collides[t]).targets)
               next == [NoJob EXCEPT !.capture = plan.capture, !.apply = plan.apply,
                                     !.restore = plan.restore, !.drop = plan.drop,
                                     !.changed = plan.drop # {}]
    <3>1. /\ plan.capture \in SUBSET Services
          /\ plan.apply \in SUBSET Services
          /\ plan.restore \in SUBSET Services
          /\ plan.drop \in SUBSET Services
          /\ (plan.drop # {}) \in BOOLEAN
      BY <2>2, OwnedType DEF PlanDnsActions
    <3>2. next \in Job
      <4> HIDE DEF plan
      <4> QED BY <3>1, EmptyValues, NewPlan, Zenon
    <3>3. SetJob(t, next)
      BY <2>1, Zenon
    <3> QED BY <3>2, <3>3, SetJobType, Zenon
  <2>4. pc' \in [Tunnels -> HelperPc]
    BY <2>1 DEF Goto, TypeOK, HelperPc
  <2>5. fingerprint' \in [Tunnels -> Fingerprint]
    BY <2>1, <2>2 DEF TypeOK
  <2> QED BY <1>4, <2>2, <2>3, <2>4, <2>5 DEF Tick, TypeOK, envVars, ghostVars
<1>5. CASE Persist(t)
  <2>1. Forget(saved[t], job[t].drop) \in Custody
    BY ForgetType DEF TypeOK
  <2>2. record' \in [Tunnels -> Custody] /\ faults' \in 0..MaxFaults
    BY <1>5, <2>1, FaultType DEF Persist, TypeOK
  <2>3. CASE job[t].stopping
    BY <1>5, <2>2, <2>3, ExitType DEF Persist, TypeOK, envVars, ghostVars
  <2>4. CASE ~job[t].stopping
    BY <1>5, <2>1, <2>2, <2>4 DEF Persist, Goto, HelperPc, TypeOK, envVars, ghostVars
  <2> QED BY <2>3, <2>4
<1>6. CASE PassDone(t)
  <2>1. faults' \in 0..MaxFaults
    BY <1>6, FaultType, UnreadType DEF PassDone, TypeOK
  <2>2. fingerprint' \in [Tunnels -> Fingerprint]
    BY <1>6, SnapshotType DEF PassDone, TypeOK
  <2>3. job' \in [Tunnels -> Job] /\ pc' \in [Tunnels -> HelperPc]
    BY <1>6, EmptyValues DEF PassDone, SetJob, Goto, HelperPc, TypeOK
  <2> QED BY <1>6, <2>1, <2>2, <2>3 DEF PassDone, TypeOK, envVars, ghostVars
<1>7. CASE Stop(t)
  <2>1. job' \in [Tunnels -> Job]
    BY <1>7, EmptyValues, OwnedType, NewStart, SetJobType, Zenon DEF Stop
  <2> QED BY <1>7, <2>1 DEF Stop, Goto, TypeOK, HelperPc, envVars, ghostVars
<1>8. ASSUME NEW s \in Services, Capture(t, s)
      PROVE  TypeOK'
  <2>1. saved' \in [Tunnels -> Custody]
    BY <1>8, CaptureType DEF Capture, TypeOK, Custody
  <2>2. job' \in [Tunnels -> Job]
    BY <1>8, JobSteps, SetJobType, JobOf, Zenon DEF Capture
  <2>3. orig' \in [Services -> Config] /\ edited' \subseteq Services
    BY <1>8 DEF Capture, TypeOK, ghostVars
  <2> QED BY <1>8, <2>1, <2>2, <2>3 DEF Capture, Works, TypeOK, envVars
<1>9. ASSUME NEW s \in Services, CaptureFails(t, s)
      PROVE  TypeOK'
  <2>1. job' \in [Tunnels -> Job]
    <3>1. CASE job[t].booting
      BY <1>9, <3>1, EmptyValues, OwnedType, NewStart, SetJobType, Zenon DEF CaptureFails, Rollback
    <3>2. CASE ~job[t].booting
      BY <1>9, <3>2, JobSteps, SetJobType, JobOf, Zenon DEF CaptureFails
    <3> QED BY <3>1, <3>2
  <2>2. pc' \in [Tunnels -> HelperPc]
    BY <1>9 DEF CaptureFails, Rollback, Goto, HelperPc, TypeOK
  <2> QED BY <1>9, <2>1, <2>2, FailsType DEF CaptureFails, TypeOK, envVars, ghostVars
<1>10. ASSUME NEW s \in Services, ReleaseServers(t, s)
       PROVE  TypeOK'
  <2>1. live' \in [Services -> Config]
    BY <1>10, CustodyHalves, SetServersType DEF ReleaseServers, TypeOK
  <2>2. job' \in [Tunnels -> Job]
    BY <1>10, JobSteps, SetJobType, JobOf, Zenon DEF ReleaseServers
  <2> QED BY <1>10, <2>1, <2>2 DEF ReleaseServers, Works, TypeOK, envVars, ghostVars
<1>11. ASSUME NEW s \in Services, ReleaseSearch(t, s)
       PROVE  TypeOK'
  <2>1. live' \in [Services -> Config]
    BY <1>11, CustodyHalves, SetSearchType DEF ReleaseSearch, TypeOK
  <2>2. saved' \in [Tunnels -> Custody]
    BY <1>11 DEF ReleaseSearch, TypeOK, Custody
  <2>3. job' \in [Tunnels -> Job]
    BY <1>11, JobSteps, SetJobType, JobOf, Zenon DEF ReleaseSearch
  <2> QED BY <1>11, <2>1, <2>2, <2>3 DEF ReleaseSearch, Works, TypeOK, envVars, ghostVars
<1>12. ASSUME NEW s \in Services, ReleaseFails(t, s)
       PROVE  TypeOK'
  <2>1. job' \in [Tunnels -> Job]
    BY <1>12, JobSteps, SetJobType, JobOf, Zenon DEF ReleaseFails
  <2> QED BY <1>12, <2>1, FailsType DEF ReleaseFails, TypeOK, envVars, ghostVars
<1>13. ASSUME NEW s \in Services, ApplyServers(t, s)
       PROVE  TypeOK'
  <2>1. live' \in [Services -> Config]
    BY <1>13, SetServersType DEF ApplyServers, Lists
  <2>2. job' \in [Tunnels -> Job]
    BY <1>13, JobSteps, SetJobType, JobOf, Zenon DEF ApplyServers
  <2> QED BY <1>13, <2>1, <2>2 DEF ApplyServers, Works, TypeOK, envVars, ghostVars
<1>14. ASSUME NEW s \in Services, ApplySearch(t, s)
       PROVE  TypeOK'
  <2>1. live' \in [Services -> Config]
    BY <1>14, SetSearchType DEF ApplySearch, Domains
  <2>2. job' \in [Tunnels -> Job]
    BY <1>14, JobSteps, SetJobType, JobOf, Zenon DEF ApplySearch
  <2> QED BY <1>14, <2>1, <2>2 DEF ApplySearch, Works, TypeOK, envVars, ghostVars
<1>15. ASSUME NEW s \in Services, ApplyFails(t, s)
       PROVE  TypeOK'
  <2>1. job' \in [Tunnels -> Job]
    <3>1. CASE job[t].booting
      BY <1>15, <3>1, EmptyValues, OwnedType, NewStart, SetJobType, Zenon DEF ApplyFails, Rollback
    <3>2. CASE ~job[t].booting
      BY <1>15, <3>2, JobSteps, SetJobType, JobOf, Zenon DEF ApplyFails
    <3> QED BY <3>1, <3>2
  <2>2. pc' \in [Tunnels -> HelperPc]
    BY <1>15 DEF ApplyFails, Rollback, Goto, HelperPc, TypeOK
  <2> QED BY <1>15, <2>1, <2>2, FailsType DEF ApplyFails, TypeOK, envVars, ghostVars
<1> QED
  BY <1>1, <1>2, <1>3, <1>4, <1>5, <1>6, <1>7, <1>8, <1>9, <1>10, <1>11, <1>12,
     <1>13, <1>14, <1>15 DEF HelperStep

(* What is left of a sweep after one of its steps is a sweep.              *)
LEMMA RestoreSteps ==
  ASSUME NEW w \in SweepState, NEW e \in Entries
  PROVE  /\ [w EXCEPT !.half = {e}] \in SweepState
         /\ [w EXCEPT !.half = {}, !.todo = @ \ {e}] \in SweepState
         /\ [w EXCEPT !.half = {}, !.todo = @ \ {e}, !.pending = @ \cup {e}] \in SweepState
<1>1. /\ {e} \in SUBSET Entries
      /\ {} \in SUBSET Entries
      /\ w.todo \ {e} \in SUBSET Entries
      /\ w.pending \cup {e} \in SUBSET Entries
  BY DEF SweepState
<1>2. [w EXCEPT !.half = {e}] \in SweepState
  BY <1>1, Zenon DEF SweepState
<1>3. [w EXCEPT !.half = {}, !.todo = @ \ {e}] \in SweepState
  BY <1>1, Zenon DEF SweepState
<1>4. [w EXCEPT !.half = {}, !.todo = @ \ {e}, !.pending = @ \cup {e}] \in SweepState
  BY <1>1, Zenon DEF SweepState
<1> QED BY <1>2, <1>3, <1>4, Zenon

LEMMA StrayStep ==
  ASSUME NEW w \in SweepState, NEW s \in Services
  PROVE  [w EXCEPT !.strays = @ \ {s}] \in SweepState
<1>1. w.strays \ {s} \in SUBSET Services
  BY DEF SweepState
<1> QED BY <1>1, Zenon DEF SweepState

LEMMA SettleStep ==
  ASSUME NEW w \in SweepState, NEW t \in Tunnels
  PROVE  [w EXCEPT !.dead = @ \ {t}] \in SweepState
<1>1. w.dead \ {t} \in SUBSET Tunnels
  BY DEF SweepState
<1> QED BY <1>1, Zenon DEF SweepState

LEMMA SpawnStep ==
  ASSUME NEW w \in SweepState
  PROVE  [w EXCEPT !.pc = "wait"] \in SweepState
<1>1. "wait" \in SweepPc
  BY DEF SweepPc
<1> QED BY <1>1, Zenon DEF SweepState

(* The sweeps that begin, that know which helpers are dead, and that know  *)
(* what to do.                                                             *)
LEMMA NewSweep ==
  ASSUME NEW w \in SweepState, NEW T \in SUBSET Tunnels
  PROVE  /\ [w EXCEPT !.pc = "read", !.scope = T, !.fallback = TRUE] \in SweepState
         /\ [w EXCEPT !.pc = "read", !.scope = T] \in SweepState
<1>1. "read" \in SweepPc
  BY DEF SweepPc
<1>2. [w EXCEPT !.pc = "read", !.scope = T, !.fallback = TRUE] \in SweepState
  BY <1>1, Zenon DEF SweepState
<1>3. [w EXCEPT !.pc = "read", !.scope = T] \in SweepState
  BY <1>1, Zenon DEF SweepState
<1> QED BY <1>2, <1>3, Zenon

LEMMA NewConnect ==
  ASSUME NEW w \in SweepState, NEW t \in Tunnels
  PROVE  /\ [w EXCEPT !.pc = "read", !.scope = {t}, !.connect = t] \in SweepState
         /\ [w EXCEPT !.pc = "spawn", !.connect = t] \in SweepState
<1>1. "read" \in SweepPc /\ "spawn" \in SweepPc /\ {t} \in SUBSET Tunnels
  BY DEF SweepPc
<1>2. [w EXCEPT !.pc = "read", !.scope = {t}, !.connect = t] \in SweepState
  BY <1>1, Zenon DEF SweepState
<1>3. [w EXCEPT !.pc = "spawn", !.connect = t] \in SweepState
  BY <1>1, Zenon DEF SweepState
<1> QED BY <1>2, <1>3, Zenon

LEMMA ReadSweep ==
  ASSUME NEW w \in SweepState, NEW D \in SUBSET Tunnels, NEW A \in SUBSET Tunnels,
         NEW C \in [Tunnels -> Custody]
  PROVE  [w EXCEPT !.pc = "snapshot", !.dead = D, !.alive = A, !.copy = C] \in SweepState
<1>1. "snapshot" \in SweepPc
  BY DEF SweepPc
<1> QED BY <1>1, Zenon DEF SweepState

LEMMA PlannedSweep ==
  ASSUME NEW w \in SweepState, NEW R \in SUBSET Entries, NEW P \in SUBSET Entries,
         NEW S \in SUBSET Services
  PROVE  [w EXCEPT !.pc = "restore", !.todo = R, !.pending = P, !.strays = S] \in SweepState
<1>1. "restore" \in SweepPc
  BY DEF SweepPc
<1> QED BY <1>1, Zenon DEF SweepState

(* A sweep that ends leaves a free lock or a connect that goes on.         *)
LEMMA SweepEndsType ==
  ASSUME TypeOK, SweepEnds
  PROVE  sweep' \in SweepState
<1>1. sweep.connect \in Tunnels \cup {None}
  BY DEF TypeOK, SweepState
<1>2. CASE sweep.connect = None
  BY <1>2, EmptyValues, Zenon DEF SweepEnds
<1>3. CASE sweep.connect # None
  <2>1. sweep.connect \in Tunnels
    BY <1>1, <1>3
  <2>2. sweep' = [NoSweep EXCEPT !.pc = "spawn", !.connect = sweep.connect]
    BY <1>3, Zenon DEF SweepEnds
  <2> QED BY <2>1, <2>2, NewConnect, EmptyValues, Zenon
<1> QED BY <1>2, <1>3

(* One step of the daemon preserves the types.                             *)
LEMMA DaemonTypes ==
  ASSUME TypeOK, DaemonStep \/ DaemonDies
  PROVE  TypeOK'
<1> USE DEF daemonUnchanged, helperVars, envVars, ghostVars
<1>a. sweep \in SweepState
  BY DEF TypeOK
<1>1. CASE SweepAll
  <2>1. sweep' \in SweepState
    BY <1>1, NewSweep, EmptyValues, Zenon DEF SweepAll
  <2> QED BY <1>1, <2>1, Zenon DEF SweepAll, TypeOK
<1>2. CASE SweepRead
  <2> DEFINE found == {t \in sweep.scope : Recorded(t) # {}}
             dead  == {t \in found : ~Alive(t)}
             alive == {t \in Tunnels : Alive(t)}
             copy  == [t \in Tunnels |-> IF t \in found THEN record[t] ELSE NoCustody]
  <2>1. dead \in SUBSET Tunnels /\ alive \in SUBSET Tunnels
    BY <1>a DEF SweepState
  <2>2. copy \in [Tunnels -> Custody]
    <3> HIDE DEF found
    <3> QED BY EmptyValues DEF TypeOK
  <2>3. CASE dead # {} \/ (sweep.fallback /\ alive # Tunnels)
    <3>1. sweep' = [sweep EXCEPT !.pc = "snapshot", !.dead = dead, !.alive = alive,
                                 !.copy = copy]
      BY <1>2, <2>3, Zenon DEF SweepRead
    <3>2. sweep' \in SweepState
      <4> HIDE DEF dead, alive, copy
      <4> QED BY <1>a, <2>1, <2>2, <3>1, ReadSweep, Zenon
    <3> QED BY <1>2, <3>2, Zenon DEF SweepRead, TypeOK
  <2>4. CASE ~(dead # {} \/ (sweep.fallback /\ alive # Tunnels))
    <3>1. SweepEnds
      BY <1>2, <2>4, Zenon DEF SweepRead
    <3> QED BY <1>2, <3>1, SweepEndsType, Zenon DEF SweepRead, TypeOK
  <2> QED BY <2>3, <2>4, Zenon
<1>3. CASE SweepSnapshot
  <2> DEFINE entries == {e \in sweep.dead \X Services : e[2] \in Held(sweep.copy[e[1]])}
             shown   == [s \in Services |-> live[s].servers]
             strays  == IF sweep.fallback
                        THEN SweepStrays(UNION {Held(sweep.copy[t]) : t \in Tunnels}, present,
                                         shown, Tunnels \ sweep.alive, sweep.alive)
                        ELSE {}
  <2>1. entries \subseteq Entries
    BY <1>a DEF SweepState, Entries
  <2>2. /\ SweepRestores(entries, present, shown) \in SUBSET Entries
        /\ SweepAbsent(entries, present) \in SUBSET Entries
    <3> HIDE DEF entries
    <3> QED BY <2>1 DEF SweepRestores, SweepAbsent
  <2>3. strays \in SUBSET Services
    BY DEF SweepStrays, TypeOK
  <2>4. sweep' = [sweep EXCEPT !.pc = "restore",
                               !.todo = SweepRestores(entries, present, shown),
                               !.pending = SweepAbsent(entries, present),
                               !.strays = strays]
    BY <1>3, Zenon DEF SweepSnapshot
  <2>5. sweep' \in SweepState
    <3> HIDE DEF entries, shown, strays
    <3> QED BY <1>a, <2>2, <2>3, <2>4, PlannedSweep, Zenon
  <2> QED BY <1>3, <2>5, Zenon DEF SweepSnapshot, TypeOK
<1>4. CASE SnapshotFails
  <2>1. faults' \in 0..MaxFaults
    BY <1>4, FaultType DEF SnapshotFails, TypeOK
  <2>2. sweep' \in SweepState
    BY <1>4, SweepEndsType DEF SnapshotFails
  <2> QED BY <1>4, <2>1, <2>2, Zenon DEF SnapshotFails, TypeOK
<1>5. CASE SweepDone
  BY <1>5, SweepEndsType, Zenon DEF SweepDone, TypeOK
<1>6. CASE Spawn
  <2>1. sweep' \in SweepState
    BY <1>6, <1>a, SpawnStep, Zenon DEF Spawn
  <2>2. pc' \in [Tunnels -> HelperPc]
    <3>1. pc' = [pc EXCEPT ![sweep.connect] = "spawned"]
      BY <1>6, Zenon DEF Spawn, Goto
    <3> QED BY <3>1 DEF TypeOK, HelperPc
  <2> QED BY <1>6, <2>1, <2>2, Zenon DEF Spawn, TypeOK
<1>7. CASE HelperReported
  BY <1>7, EmptyValues, Zenon DEF HelperReported, TypeOK
<1>8. ASSUME NEW t \in Tunnels, SweepInterface(t)
      PROVE  TypeOK'
  <2>1. {t} \in SUBSET Tunnels
    OBVIOUS
  <2>2. sweep' \in SweepState
    BY <1>8, <2>1, NewSweep, EmptyValues, Zenon DEF SweepInterface
  <2> QED BY <1>8, <2>2, Zenon DEF SweepInterface, TypeOK
<1>9. ASSUME NEW t \in Tunnels, Connect(t)
      PROVE  TypeOK'
  <2>1. sweep' \in SweepState
    BY <1>9, NewConnect, EmptyValues, Zenon DEF Connect
  <2> QED BY <1>9, <2>1, Zenon DEF Connect, TypeOK
<1>10. ASSUME NEW t \in Tunnels, SettleRecord(t)
       PROVE  TypeOK'
  <2> DEFINE keep == Forget(sweep.copy[t], {s \in Services : <<t, s>> \notin sweep.pending})
  <2>1. sweep' \in SweepState
    BY <1>10, <1>a, SettleStep, Zenon DEF SettleRecord
  <2>2. keep \in Custody
    BY <1>a, ForgetType DEF SweepState
  <2>3. /\ \/ record' = [record EXCEPT ![t] = keep] /\ UNCHANGED faults
           \/ UNCHANGED <<record, faults>>
           \/ Fault /\ UNCHANGED record
        /\ UNCHANGED <<live, daemonUnchanged>>
    BY <1>10, Zenon DEF SettleRecord
  <2>4. record' \in [Tunnels -> Custody] /\ faults' \in 0..MaxFaults
    <3> HIDE DEF keep
    <3> QED BY <2>2, <2>3, FaultType DEF TypeOK
  <2> QED BY <2>1, <2>3, <2>4, Zenon DEF TypeOK
<1>11. ASSUME NEW e \in Entries, SweepServers(e)
       PROVE  TypeOK'
  <2>1. e[1] \in Tunnels /\ e[2] \in Services /\ sweep.copy[e[1]] \in Custody
    BY <1>a DEF SweepState, Entries
  <2>2. live' \in [Services -> Config]
    BY <1>11, <2>1, CustodyHalves, SetServersType, Zenon DEF SweepServers
  <2>3. sweep' \in SweepState
    BY <1>11, <1>a, RestoreSteps, Zenon DEF SweepServers
  <2> QED BY <1>11, <2>2, <2>3, Zenon DEF SweepServers, Works, TypeOK
<1>12. ASSUME NEW e \in Entries, SweepSearch(e)
       PROVE  TypeOK'
  <2>1. e[1] \in Tunnels /\ e[2] \in Services /\ sweep.copy[e[1]] \in Custody
    BY <1>a DEF SweepState, Entries
  <2>2. live' \in [Services -> Config]
    BY <1>12, <2>1, CustodyHalves, SetSearchType, Zenon DEF SweepSearch
  <2>3. sweep' \in SweepState
    BY <1>12, <1>a, RestoreSteps, Zenon DEF SweepSearch
  <2> QED BY <1>12, <2>2, <2>3, Zenon DEF SweepSearch, Works, TypeOK
<1>13. ASSUME NEW e \in Entries, SweepRestoreFails(e)
       PROVE  TypeOK'
  <2>1. sweep' \in SweepState
    BY <1>13, <1>a, RestoreSteps, Zenon DEF SweepRestoreFails
  <2>2. faults' \in 0..MaxFaults
    BY <1>13, FailsType, Zenon DEF SweepRestoreFails
  <2> QED BY <1>13, <2>1, <2>2, Zenon DEF SweepRestoreFails, TypeOK
<1>14. ASSUME NEW s \in Services, ClearStray(s)
       PROVE  TypeOK'
  <2>1. sweep' \in SweepState
    BY <1>14, <1>a, StrayStep, Zenon DEF ClearStray
  <2>2. \/ Works(s) /\ SetServers(s, Empty)
        \/ Fails(s) /\ UNCHANGED live
    BY <1>14, Zenon DEF ClearStray
  <2>3. faults' \in 0..MaxFaults
    BY <2>2, FailsType DEF Works, TypeOK
  <2>4. Empty \in Lists
    BY DEF Lists
  <2>5. live' \in [Services -> Config]
    BY <2>2, <2>4, SetServersType, Zenon DEF TypeOK
  <2> QED BY <1>14, <2>1, <2>3, <2>5, Zenon DEF ClearStray, TypeOK
<1>15. CASE DaemonDies
  BY <1>15, EmptyValues, Zenon DEF DaemonDies, TypeOK
<1> QED
  BY <1>1, <1>2, <1>3, <1>4, <1>5, <1>6, <1>7, <1>8, <1>9, <1>10, <1>11, <1>12,
     <1>13, <1>14, <1>15, Zenon DEF DaemonStep

(* The user and the network preserve the types.                            *)
LEMMA EnvironmentTypes ==
  ASSUME TypeOK, Environment
  PROVE  TypeOK'
<1> USE DEF envVars, helperVars, ghostVars
<1>1. CASE PrimaryChanges
  <2>1. primary' \in Services \cup {None}
    BY <1>1 DEF PrimaryChanges, TypeOK
  <2> QED BY <1>1, <2>1, Zenon DEF PrimaryChanges, TypeOK
<1>2. CASE LocationChanges
  <2>1. present' \subseteq Services /\ primary' \in Services \cup {None}
    BY <1>2 DEF LocationChanges, TypeOK
  <2> QED BY <1>2, <2>1, Zenon DEF LocationChanges, TypeOK
<1>3. ASSUME NEW s \in Services, UserEdit(s)
      PROVE  TypeOK'
  <2>1. PICK list \in UserDns \cup {Empty}, domains \in Domains :
          live' = [live EXCEPT ![s] = [servers |-> list, search |-> domains, held |-> TRUE]]
    BY <1>3, Zenon DEF UserEdit
  <2>2. [servers |-> list, search |-> domains, held |-> TRUE] \in Config
    BY DEF Config, Lists
  <2>3. live' \in [Services -> Config]
    BY <2>1, <2>2 DEF TypeOK
  <2>4. orig' \in [Services -> Config] /\ edited' \subseteq Services
    BY <1>3, <2>3 DEF UserEdit, TypeOK
  <2> QED BY <1>3, <2>3, <2>4, Zenon DEF UserEdit, TypeOK
<1>4. ASSUME NEW t \in Tunnels, LanChanges(t)
      PROVE  TypeOK'
  <2>1. collides' \in [Tunnels -> BOOLEAN]
    BY <1>4 DEF LanChanges, TypeOK
  <2> QED BY <1>4, <2>1, Zenon DEF LanChanges, TypeOK
<1> QED BY <1>1, <1>2, <1>3, <1>4 DEF Environment

(* Type correctness, for all constants.                                    *)
THEOREM TypeCorrect == Spec => []TypeOK
<1>1. Init => TypeOK
  <2> SUFFICES ASSUME Init PROVE TypeOK
    OBVIOUS
  <2>1. live \in [Services -> Config]
    BY EmptyValues DEF Init, Config, Lists
  <2>2. faults \in 0..MaxFaults
    BY CustodyAssumption DEF Init
  <2>3. pc \in [Tunnels -> HelperPc]
    BY DEF Init, HelperPc
  <2> QED BY <2>1, <2>2, <2>3, EmptyValues DEF Init, TypeOK
<1>2. TypeOK /\ [Next]_vars => TypeOK'
  <2> SUFFICES ASSUME TypeOK, [Next]_vars PROVE TypeOK'
    OBVIOUS
  <2>1. ASSUME NEW t \in Tunnels, Crash(t)
        PROVE  TypeOK'
    BY <2>1, ExitType, Zenon DEF Crash, TypeOK, envVars, ghostVars
  <2>2. CASE UNCHANGED vars
    BY <2>2, Zenon DEF vars, envVars, helperVars, ghostVars, TypeOK
  <2> QED
    BY <2>1, <2>2, HelperTypes, DaemonTypes, EnvironmentTypes DEF Next
<1> QED BY <1>1, <1>2, PTL DEF Spec

-----------------------------------------------------------------------------
(***************************************************************************)
(* No tunnel's own DNS is ever kept as an original.  Memory and disk are   *)
(* not enough for an induction: a sweep writes a record back from the copy *)
(* it read when it began.                                                  *)
(***************************************************************************)
Clean(t, c) == \A s \in Services : c[s].servers # t

CleanInv ==
  \A t \in Tunnels : Clean(t, saved[t]) /\ Clean(t, record[t]) /\ Clean(t, sweep.copy[t])

LEMMA CleanEmpty ==
  ASSUME NEW t \in Tunnels
  PROVE  Clean(t, NoCustody)
BY CustodyAssumption DEF Clean, NoCustody, NotHeld

LEMMA CleanForget ==
  ASSUME NEW t \in Tunnels, NEW c, Clean(t, c), NEW gone
  PROVE  Clean(t, Forget(c, gone))
BY CustodyAssumption DEF Clean, Forget, NotHeld

(* A tunnel's own DNS on a service is captured as Empty.                   *)
LEMMA CleanCapture ==
  ASSUME NEW t \in Tunnels, NEW s \in Services
  PROVE  CaptureOf(t, s).servers # t
<1>1. CASE live[s].servers = t
  BY <1>1, CustodyAssumption DEF CaptureOf, EmptyConfig
<1>2. CASE live[s].servers # t
  BY <1>2 DEF CaptureOf
<1> QED BY <1>1, <1>2

(* What a helper's step does to its memory and its record.                 *)
LEMMA HelperMemory ==
  ASSUME TypeOK, NEW t \in Tunnels, HelperStep(t) \/ Crash(t)
  PROVE  /\ \/ saved' = saved
            \/ \E s \in Services : saved' = [saved EXCEPT ![t][s] = CaptureOf(t, s)]
            \/ \E s \in Services : saved' = [saved EXCEPT ![t][s] = NotHeld]
            \/ saved' = [saved EXCEPT ![t] = Forget(saved[t], job[t].drop)]
            \/ saved' = [saved EXCEPT ![t] = NoCustody]
         /\ \/ record' = record
            \/ record' = [record EXCEPT ![t] = Forget(saved[t], job[t].drop)]
         /\ sweep' = sweep
<1>1. CASE Crash(t)
  BY <1>1, Zenon DEF Crash, Exit
<1>2. CASE Persist(t)
  BY <1>2, Zenon DEF Persist, Exit
<1>3. CASE Bind(t) \/ Configure(t) \/ SetupFails(t) \/ Tick(t) \/ PassDone(t) \/ Stop(t)
  BY <1>3, Zenon DEF Bind, Configure, SetupFails, Tick, PassDone, Stop
<1>4. ASSUME NEW s \in Services, Capture(t, s) \/ ReleaseSearch(t, s)
      PROVE  /\ \/ \E r \in Services : saved' = [saved EXCEPT ![t][r] = CaptureOf(t, r)]
                \/ \E r \in Services : saved' = [saved EXCEPT ![t][r] = NotHeld]
             /\ record' = record
             /\ sweep' = sweep
  BY <1>4, Zenon DEF Capture, ReleaseSearch
<1>5. ASSUME NEW s \in Services,
             \/ CaptureFails(t, s) \/ ReleaseServers(t, s) \/ ReleaseFails(t, s)
             \/ ApplyServers(t, s) \/ ApplySearch(t, s) \/ ApplyFails(t, s)
      PROVE  saved' = saved /\ record' = record /\ sweep' = sweep
  BY <1>5, Zenon DEF CaptureFails, ReleaseServers, ReleaseFails, ApplyServers, ApplySearch,
                     ApplyFails
<1> QED BY <1>1, <1>2, <1>3, <1>4, <1>5, Zenon DEF HelperStep

(* What a daemon's step does to a sweep's copies and to the records.       *)
LEMMA DaemonMemory ==
  ASSUME TypeOK, DaemonStep \/ DaemonDies, NEW t \in Tunnels
  PROVE  /\ sweep'.copy[t] \in {sweep.copy[t], record[t], NoCustody}
         /\ \/ record'[t] = record[t]
            \/ \E gone : record'[t] = Forget(sweep.copy[t], gone)
         /\ saved' = saved
<1> USE DEF daemonUnchanged, helperVars
<1> DEFINE Goal == /\ sweep'.copy[t] \in {sweep.copy[t], record[t], NoCustody}
                   /\ \/ record'[t] = record[t]
                      \/ \E gone : record'[t] = Forget(sweep.copy[t], gone)
                   /\ saved' = saved
<1>a. sweep \in SweepState /\ NoSweep \in SweepState /\ NoSweep.copy[t] = NoCustody
  BY EmptyValues DEF TypeOK, NoSweep
<1>b. ASSUME SweepEnds
      PROVE  sweep'.copy = NoSweep.copy
  <2>1. [NoSweep EXCEPT !.pc = "spawn", !.connect = sweep.connect].copy = NoSweep.copy
    BY <1>a, Zenon DEF SweepState
  <2> QED BY <1>b, <2>1, Zenon DEF SweepEnds
<1>1. CASE SweepAll
  <2>1. [NoSweep EXCEPT !.pc = "read", !.scope = Tunnels, !.fallback = TRUE].copy = NoSweep.copy
    BY <1>a, Zenon DEF SweepState
  <2> QED BY <1>1, <1>a, <2>1, Zenon DEF SweepAll
<1>2. CASE SweepRead
  <2> DEFINE found == {u \in sweep.scope : Recorded(u) # {}}
             dead  == {u \in found : ~Alive(u)}
             alive == {u \in Tunnels : Alive(u)}
             copy  == [u \in Tunnels |-> IF u \in found THEN record[u] ELSE NoCustody]
  <2>1. SweepEnds \/ sweep' = [sweep EXCEPT !.pc = "snapshot", !.dead = dead,
                                             !.alive = alive, !.copy = copy]
    BY <1>2, Zenon DEF SweepRead
  <2>2. copy[t] \in {record[t], NoCustody}
    <3> HIDE DEF found
    <3> QED OBVIOUS
  <2>3. [sweep EXCEPT !.pc = "snapshot", !.dead = dead, !.alive = alive, !.copy = copy].copy
          = copy
    <3> HIDE DEF dead, alive, copy
    <3> QED BY <1>a, Zenon DEF SweepState
  <2>4. sweep'.copy[t] \in {record[t], NoCustody}
    <3> HIDE DEF dead, alive, copy
    <3> QED BY <1>a, <1>b, <2>1, <2>2, <2>3, Zenon
  <2> QED BY <1>2, <2>4, Zenon DEF SweepRead
<1>3. CASE SweepSnapshot
  <2> DEFINE entries == {e \in sweep.dead \X Services : e[2] \in Held(sweep.copy[e[1]])}
             shown   == [s \in Services |-> live[s].servers]
             todo    == SweepRestores(entries, present, shown)
             pending == SweepAbsent(entries, present)
             strays  == IF sweep.fallback
                        THEN SweepStrays(UNION {Held(sweep.copy[u]) : u \in Tunnels}, present,
                                         shown, Tunnels \ sweep.alive, sweep.alive)
                        ELSE {}
  <2>1. sweep' = [sweep EXCEPT !.pc = "restore", !.todo = todo, !.pending = pending,
                               !.strays = strays]
    BY <1>3, Zenon DEF SweepSnapshot
  <2>2. sweep'.copy = sweep.copy
    <3> HIDE DEF todo, pending, strays
    <3> QED BY <1>a, <2>1, Zenon DEF SweepState
  <2> QED BY <1>3, <2>2, Zenon DEF SweepSnapshot
<1>4. CASE SnapshotFails \/ SweepDone
  BY <1>4, <1>a, <1>b, Zenon DEF SnapshotFails, SweepDone
<1>5. CASE Spawn
  <2>1. [sweep EXCEPT !.pc = "wait"].copy = sweep.copy
    BY <1>a, Zenon DEF SweepState
  <2> QED BY <1>5, <2>1, Zenon DEF Spawn
<1>6. CASE HelperReported \/ DaemonDies
  BY <1>6, <1>a, Zenon DEF HelperReported, DaemonDies
<1>7. ASSUME NEW u \in Tunnels, SweepInterface(u)
      PROVE  Goal
  <2>1. [NoSweep EXCEPT !.pc = "read", !.scope = {u}].copy = NoSweep.copy
    BY <1>a, Zenon DEF SweepState
  <2> QED BY <1>7, <1>a, <2>1, Zenon DEF SweepInterface
<1>8. ASSUME NEW u \in Tunnels, Connect(u)
      PROVE  Goal
  <2>1. [NoSweep EXCEPT !.pc = "read", !.scope = {u}, !.connect = u].copy = NoSweep.copy
    BY <1>a, Zenon DEF SweepState
  <2> QED BY <1>8, <1>a, <2>1, Zenon DEF Connect
<1>9. ASSUME NEW u \in Tunnels, SettleRecord(u)
      PROVE  Goal
  <2> DEFINE gone == {s \in Services : <<u, s>> \notin sweep.pending}
  <2>1. [sweep EXCEPT !.dead = @ \ {u}].copy = sweep.copy
    BY <1>a, Zenon DEF SweepState
  <2>2. /\ sweep'.copy = sweep.copy
        /\ saved' = saved
        /\ record' = record \/ record' = [record EXCEPT ![u] = Forget(sweep.copy[u], gone)]
    BY <1>9, <2>1, Zenon DEF SettleRecord
  <2>3. record'[t] = record[t] \/ record'[t] = Forget(sweep.copy[t], gone)
    <3> HIDE DEF gone
    <3> QED BY <2>2 DEF TypeOK
  <2> QED BY <2>2, <2>3, Zenon
<1>10. ASSUME NEW e \in Entries, SweepServers(e) \/ SweepSearch(e) \/ SweepRestoreFails(e)
       PROVE  Goal
  <2>1. /\ [sweep EXCEPT !.half = {e}].copy = sweep.copy
        /\ [sweep EXCEPT !.half = {}, !.todo = @ \ {e}].copy = sweep.copy
        /\ [sweep EXCEPT !.half = {}, !.todo = @ \ {e}, !.pending = @ \cup {e}].copy = sweep.copy
    BY <1>a, Zenon DEF SweepState
  <2> QED BY <1>10, <2>1, Zenon DEF SweepServers, SweepSearch, SweepRestoreFails
<1>11. ASSUME NEW s \in Services, ClearStray(s)
       PROVE  Goal
  <2>1. [sweep EXCEPT !.strays = @ \ {s}].copy = sweep.copy
    BY <1>a, Zenon DEF SweepState
  <2> QED BY <1>11, <2>1, Zenon DEF ClearStray
<1> QED
  BY <1>1, <1>2, <1>3, <1>4, <1>5, <1>6, <1>7, <1>8, <1>9, <1>10, <1>11, Zenon DEF DaemonStep

(* capture_macos_dns_service adopts a service that already shows the       *)
(* tunnel's DNS with an empty original: whatever crashes, fails or         *)
(* interleaves, neither a helper's memory nor a record on disk ever names  *)
(* a tunnel's own DNS as the user's setting.                               *)
THEOREM OwnDnsNeverOriginal == Spec => []NeverOwnDnsAsOriginal
<1>1. Init => CleanInv
  BY CleanEmpty, EmptyValues DEF Init, CleanInv, NoSweep
<1>2. TypeOK /\ CleanInv /\ [Next]_vars => CleanInv'
  <2> SUFFICES ASSUME TypeOK, CleanInv, [Next]_vars PROVE CleanInv'
    OBVIOUS
  <2>1. ASSUME NEW t \in Tunnels, HelperStep(t) \/ Crash(t)
        PROVE  CleanInv'
    <3>1. Clean(t, Forget(saved[t], job[t].drop)) /\ Clean(t, NoCustody)
      BY CleanForget, CleanEmpty DEF CleanInv
    <3>2. ASSUME NEW u \in Tunnels, NEW s \in Services
          PROVE  saved'[u][s].servers # u
      <4>1. CASE saved' = saved
        BY <4>1 DEF CleanInv, Clean
      <4>2. ASSUME NEW r \in Services, saved' = [saved EXCEPT ![t][r] = CaptureOf(t, r)]
            PROVE  saved'[u][s].servers # u
        BY <4>2, CleanCapture DEF CleanInv, Clean, TypeOK, Custody
      <4>3. ASSUME NEW r \in Services, saved' = [saved EXCEPT ![t][r] = NotHeld]
            PROVE  saved'[u][s].servers # u
        <5>1. NotHeld.servers # u
          BY CustodyAssumption DEF NotHeld
        <5> QED BY <4>3, <5>1 DEF CleanInv, Clean, TypeOK, Custody
      <4>4. CASE saved' = [saved EXCEPT ![t] = Forget(saved[t], job[t].drop)]
        BY <4>4, <3>1 DEF CleanInv, Clean, TypeOK
      <4>5. CASE saved' = [saved EXCEPT ![t] = NoCustody]
        BY <4>5, <3>1 DEF CleanInv, Clean, TypeOK
      <4> QED BY <2>1, <4>1, <4>2, <4>3, <4>4, <4>5, HelperMemory, Zenon
    <3>3. ASSUME NEW u \in Tunnels
          PROVE  Clean(u, record'[u])
      <4>1. \/ record' = record
            \/ record' = [record EXCEPT ![t] = Forget(saved[t], job[t].drop)]
        BY <2>1, HelperMemory, Zenon
      <4> QED BY <3>1, <4>1 DEF CleanInv, TypeOK
    <3>4. sweep' = sweep
      BY <2>1, HelperMemory, Zenon
    <3> QED BY <3>2, <3>3, <3>4, Zenon DEF CleanInv, Clean
  <2>2. ASSUME DaemonStep \/ DaemonDies
        PROVE  CleanInv'
    <3>1. ASSUME NEW t \in Tunnels
          PROVE  Clean(t, saved'[t]) /\ Clean(t, record'[t]) /\ Clean(t, sweep'.copy[t])
      <4>1. /\ sweep'.copy[t] \in {sweep.copy[t], record[t], NoCustody}
            /\ \/ record'[t] = record[t]
               \/ \E gone : record'[t] = Forget(sweep.copy[t], gone)
            /\ saved' = saved
        BY <2>2, DaemonMemory
      <4>2. Clean(t, saved[t]) /\ Clean(t, record[t]) /\ Clean(t, sweep.copy[t])
        BY DEF CleanInv
      <4>3. ASSUME NEW gone
            PROVE  Clean(t, Forget(sweep.copy[t], gone))
        BY <4>2, CleanForget
      <4> QED BY <4>1, <4>2, <4>3, CleanEmpty, Zenon
    <3> QED BY <3>1, Zenon DEF CleanInv
  <2>3. CASE Environment \/ UNCHANGED vars
    <3>1. saved' = saved /\ record' = record /\ sweep' = sweep
      BY <2>3, Zenon DEF Environment, PrimaryChanges, LocationChanges, UserEdit, LanChanges,
                         vars, helperVars
    <3> QED BY <3>1, Zenon DEF CleanInv, Clean
  <2> QED BY <2>1, <2>2, <2>3, Zenon DEF Next
<1>3. CleanInv => NeverOwnDnsAsOriginal
  BY DEF CleanInv, Clean, NeverOwnDnsAsOriginal
<1> QED BY <1>1, <1>2, <1>3, TypeCorrect, PTL DEF Spec

-----------------------------------------------------------------------------
(***************************************************************************)
(* DNS is written to owned services only, and originals are stable.  The   *)
(* induction follows a pass through its phases: what it still has to       *)
(* capture is not owned, what it will apply is owned or will be captured,  *)
(* and is neither restored nor dropped on the way.  A helper that has not  *)
(* reached DNS owns nothing, which needs that no connect starts a helper   *)
(* over a running one.                                                     *)
(***************************************************************************)
PassOK(place, own, j) ==
  /\ place \in {"down", "spawned", "configure"} => own = {}
  /\ j.capture \cap own = {}
  /\ place = "prepare" => /\ j.apply \subseteq own \cup j.capture
                          /\ j.apply \cap (j.restore \cup j.drop) = {}
                          /\ j.half # None => j.half \in j.restore
  /\ place = "apply" => j.apply \subseteq own

PassInv == \A t \in Tunnels : PassOK(pc[t], Owned(t), job[t])

ConnectInv ==
  sweep.connect # None /\ sweep.pc \in {"read", "snapshot", "restore", "spawn"}
    => pc[sweep.connect] = "down"

(* What each update of a helper's memory does to the set it owns.          *)
LEMMA OwnedAfter ==
  ASSUME TypeOK, NEW t \in Tunnels
  PROVE  /\ \A s \in Services : saved' = [saved EXCEPT ![t][s] = CaptureOf(t, s)]
                                => Owned(t)' = Owned(t) \cup {s}
         /\ \A s \in Services : saved' = [saved EXCEPT ![t][s] = NotHeld]
                                => Owned(t)' = Owned(t) \ {s}
         /\ \A gone : saved' = [saved EXCEPT ![t] = Forget(saved[t], gone)]
                       => Owned(t)' = Owned(t) \ gone
         /\ saved' = [saved EXCEPT ![t] = NoCustody] => Owned(t)' = {}
         /\ saved' = saved => Owned(t)' = Owned(t)
<1>1. ASSUME NEW s \in Services, saved' = [saved EXCEPT ![t][s] = CaptureOf(t, s)]
      PROVE  Owned(t)' = Owned(t) \cup {s}
  <2>1. CaptureOf(t, s).held
    BY CaptureType DEF Config
  <2> QED BY <1>1, <2>1 DEF Owned, Held, TypeOK, Custody
<1>2. ASSUME NEW s \in Services, saved' = [saved EXCEPT ![t][s] = NotHeld]
      PROVE  Owned(t)' = Owned(t) \ {s}
  BY <1>2 DEF Owned, Held, TypeOK, Custody, NotHeld
<1>3. ASSUME NEW gone, saved' = [saved EXCEPT ![t] = Forget(saved[t], gone)]
      PROVE  Owned(t)' = Owned(t) \ gone
  BY <1>3 DEF Owned, Held, TypeOK, Forget, NotHeld
<1>4. ASSUME saved' = [saved EXCEPT ![t] = NoCustody]
      PROVE  Owned(t)' = {}
  BY <1>4 DEF Owned, Held, TypeOK, NoCustody, NotHeld
<1>5. ASSUME saved' = saved
      PROVE  Owned(t)' = Owned(t)
  BY <1>5 DEF Owned
<1> QED BY <1>1, <1>2, <1>3, <1>4, <1>5

(* Whose step it is not keeps what it has.                                 *)
LEMMA OthersKept ==
  ASSUME TypeOK, NEW t \in Tunnels, HelperStep(t) \/ Crash(t), NEW u \in Tunnels, u # t
  PROVE  pc'[u] = pc[u] /\ saved'[u] = saved[u] /\ job'[u] = job[u]
<1>1. saved'[u] = saved[u]
  <2>1. \/ saved' = saved
        \/ \E s \in Services : saved' = [saved EXCEPT ![t][s] = CaptureOf(t, s)]
        \/ \E s \in Services : saved' = [saved EXCEPT ![t][s] = NotHeld]
        \/ saved' = [saved EXCEPT ![t] = Forget(saved[t], job[t].drop)]
        \/ saved' = [saved EXCEPT ![t] = NoCustody]
    BY HelperMemory, Zenon
  <2> QED BY <2>1 DEF TypeOK
<1>2. pc' = pc \/ \E place : pc' = [pc EXCEPT ![t] = place]
  BY Zenon DEF HelperStep, Crash, Exit, Goto, Bind, Configure, SetupFails, Tick, Persist,
               PassDone, Stop, Capture, CaptureFails, Rollback, ReleaseServers, ReleaseSearch,
               ReleaseFails, ApplyServers, ApplySearch, ApplyFails
<1>3. job' = job \/ \E j : SetJob(t, j)
  BY Zenon DEF HelperStep, Crash, Exit, Bind, Configure, SetupFails, Tick, Persist,
               PassDone, Stop, Capture, CaptureFails, Rollback, ReleaseServers, ReleaseSearch,
               ReleaseFails, ApplyServers, ApplySearch, ApplyFails
<1> QED BY <1>1, <1>2, <1>3 DEF SetJob, TypeOK

(* The fields of a job that a step changes, and those it keeps.            *)
LEMMA SetJobGives ==
  ASSUME TypeOK, NEW t \in Tunnels, NEW j, SetJob(t, j)
  PROVE  job'[t] = j
BY DEF SetJob, TypeOK

LEMMA GotoGives ==
  ASSUME TypeOK, NEW t \in Tunnels, NEW place, Goto(t, place)
  PROVE  pc'[t] = place
BY DEF Goto, TypeOK

(* A helper's step keeps its own pass in order.                            *)
LEMMA PassStep ==
  ASSUME TypeOK, NEW t \in Tunnels, PassOK(pc[t], Owned(t), job[t]),
         HelperStep(t) \/ Crash(t)
  PROVE  PassOK(pc[t], Owned(t), job[t])'
<1>a. job[t] \in Job /\ NoJob \in Job
  BY JobOf, EmptyValues
<1>b. /\ NoJob.capture = {} /\ NoJob.apply = {} /\ NoJob.restore = {}
      /\ NoJob.drop = {} /\ NoJob.half = None
  BY DEF NoJob
<1>c. None \notin Services
  BY CustodyAssumption
<1>1. CASE Crash(t)
  <2>1. pc'[t] = "down" /\ Owned(t)' = {} /\ job'[t] = NoJob
    BY <1>1, GotoGives, SetJobGives, OwnedAfter, Zenon DEF Crash, Exit
  <2> QED BY <2>1, <1>b DEF PassOK
<1>2. CASE Bind(t)
  <2>1. pc[t] = "spawned" /\ pc'[t] = "configure" /\ Owned(t)' = Owned(t) /\ job'[t] = job[t]
    BY <1>2, GotoGives, OwnedAfter, Zenon DEF Bind
  <2> QED BY <2>1 DEF PassOK
<1>3. CASE Configure(t)
  <2>1. PICK targets :
          SetJob(t, [NoJob EXCEPT !.capture = targets, !.apply = targets,
                                  !.acted = TRUE, !.booting = TRUE])
    BY <1>3, Zenon DEF Configure
  <2>2. /\ job'[t].capture = targets /\ job'[t].apply = targets
        /\ job'[t].restore = NoJob.restore /\ job'[t].drop = NoJob.drop
        /\ job'[t].half = NoJob.half
    <3>1. job'[t] = [NoJob EXCEPT !.capture = targets, !.apply = targets,
                                  !.acted = TRUE, !.booting = TRUE]
      BY <2>1, SetJobGives, Zenon
    <3> QED BY <3>1, <1>a, Zenon DEF Job
  <2>3. pc[t] = "configure" /\ pc'[t] = "prepare" /\ Owned(t)' = Owned(t)
    BY <1>3, GotoGives, OwnedAfter, Zenon DEF Configure
  <2> QED BY <2>2, <2>3, <1>b DEF PassOK
<1>4. CASE SetupFails(t)
  <2>1. /\ job'[t].capture = NoJob.capture /\ job'[t].apply = NoJob.apply
        /\ job'[t].half = NoJob.half
    <3>1. job'[t] = [NoJob EXCEPT !.booting = TRUE, !.stopping = TRUE]
      BY <1>4, SetJobGives, Zenon DEF SetupFails
    <3> QED BY <3>1, <1>a, Zenon DEF Job
  <2>2. pc'[t] = "prepare"
    BY <1>4, GotoGives, Zenon DEF SetupFails
  <2> QED BY <2>1, <2>2, <1>b DEF PassOK
<1>5. CASE Tick(t)
  <2> DEFINE plan(fp) == PlanDnsActions(t, fp, Owned(t), DnsDecision(fp, collides[t]).targets)
  <2>1. PICK fp :
          SetJob(t, [NoJob EXCEPT !.capture = plan(fp).capture, !.apply = plan(fp).apply,
                                  !.restore = plan(fp).restore, !.drop = plan(fp).drop,
                                  !.changed = plan(fp).drop # {}])
    BY <1>5, Zenon DEF Tick
  <2> DEFINE p == plan(fp)
  <2>2. /\ p.capture \cap Owned(t) = {}
        /\ p.apply \subseteq Owned(t) \cup p.capture
        /\ p.apply \cap (p.restore \cup p.drop) = {}
    BY DEF PlanDnsActions
  <2>3. /\ job'[t].capture = p.capture /\ job'[t].apply = p.apply
        /\ job'[t].restore = p.restore /\ job'[t].drop = p.drop
        /\ job'[t].half = NoJob.half
    <3>1. job'[t] = [NoJob EXCEPT !.capture = p.capture, !.apply = p.apply,
                                  !.restore = p.restore, !.drop = p.drop,
                                  !.changed = p.drop # {}]
      BY <2>1, SetJobGives, Zenon
    <3> HIDE DEF p
    <3> QED BY <3>1, <1>a, Zenon DEF Job
  <2>4. pc'[t] = "prepare" /\ Owned(t)' = Owned(t)
    BY <1>5, GotoGives, OwnedAfter, Zenon DEF Tick
  <2> HIDE DEF p
  <2> QED BY <2>2, <2>3, <2>4, <1>b DEF PassOK
<1>6. CASE Persist(t)
  <2>1. CASE job[t].stopping
    <3>1. pc'[t] = "down" /\ Owned(t)' = {} /\ job'[t] = NoJob
      BY <1>6, <2>1, GotoGives, SetJobGives, OwnedAfter, Zenon DEF Persist, Exit
    <3> QED BY <3>1, <1>b DEF PassOK
  <2>2. CASE ~job[t].stopping
    <3>1. /\ pc[t] = "prepare" /\ pc'[t] = "apply" /\ job'[t] = job[t]
          /\ Owned(t)' = Owned(t) \ job[t].drop
          /\ job[t].capture = {}
      BY <1>6, <2>2, GotoGives, OwnedAfter, Zenon DEF Persist
    <3> QED BY <3>1 DEF PassOK
  <2> QED BY <2>1, <2>2
<1>7. CASE PassDone(t)
  <2>1. pc'[t] = "run" /\ job'[t] = NoJob /\ Owned(t)' = Owned(t)
    BY <1>7, GotoGives, SetJobGives, OwnedAfter, Zenon DEF PassDone
  <2> QED BY <2>1, <1>b DEF PassOK
<1>8. CASE Stop(t)
  <2>1. /\ job'[t].capture = NoJob.capture /\ job'[t].apply = NoJob.apply
        /\ job'[t].half = NoJob.half
    <3>1. job'[t] = [NoJob EXCEPT !.stopping = TRUE, !.restore = Owned(t)]
      BY <1>8, SetJobGives, Zenon DEF Stop
    <3> QED BY <3>1, <1>a, Zenon DEF Job
  <2>2. pc'[t] = "prepare"
    BY <1>8, GotoGives, Zenon DEF Stop
  <2> QED BY <2>1, <2>2, <1>b DEF PassOK
<1>r. ASSUME Rollback(t)
      PROVE  PassOK(pc[t], Owned(t), job[t])'
  <2>1. /\ job'[t].capture = NoJob.capture /\ job'[t].apply = NoJob.apply
        /\ job'[t].half = NoJob.half
    <3>1. job'[t] = [NoJob EXCEPT !.booting = TRUE, !.stopping = TRUE, !.restore = Owned(t)]
      BY <1>r, SetJobGives, Zenon DEF Rollback
    <3> QED BY <3>1, <1>a, Zenon DEF Job
  <2>2. pc'[t] = "prepare"
    BY <1>r, GotoGives, Zenon DEF Rollback
  <2> QED BY <2>1, <2>2, <1>b DEF PassOK
<1>9. ASSUME NEW s \in Services, Capture(t, s)
      PROVE  PassOK(pc[t], Owned(t), job[t])'
  <2>1. /\ job'[t].capture = job[t].capture \ {s} /\ job'[t].apply = job[t].apply
        /\ job'[t].restore = job[t].restore /\ job'[t].drop = job[t].drop
        /\ job'[t].half = job[t].half
    <3>1. job'[t] = [job[t] EXCEPT !.capture = @ \ {s}, !.changed = TRUE]
      BY <1>9, SetJobGives, Zenon DEF Capture
    <3> QED BY <3>1, <1>a, Zenon DEF Job
  <2>2. /\ pc[t] = "prepare" /\ pc'[t] = pc[t] /\ s \in job[t].capture
        /\ Owned(t)' = Owned(t) \cup {s}
    BY <1>9, OwnedAfter, Zenon DEF Capture
  <2> QED BY <2>1, <2>2 DEF PassOK
<1>10. ASSUME NEW s \in Services, CaptureFails(t, s)
       PROVE  PassOK(pc[t], Owned(t), job[t])'
  <2>1. CASE job[t].booting
    BY <1>10, <1>r, <2>1, Zenon DEF CaptureFails
  <2>2. CASE ~job[t].booting
    <3>1. /\ job'[t].capture = job[t].capture \ {s} /\ job'[t].apply = job[t].apply \ {s}
          /\ job'[t].restore = job[t].restore /\ job'[t].drop = job[t].drop
          /\ job'[t].half = job[t].half
      <4>1. job'[t] = [job[t] EXCEPT !.capture = @ \ {s}, !.apply = @ \ {s}]
        BY <1>10, <2>2, SetJobGives, Zenon DEF CaptureFails
      <4> QED BY <4>1, <1>a, Zenon DEF Job
    <3>2. pc[t] = "prepare" /\ pc'[t] = pc[t] /\ Owned(t)' = Owned(t)
      BY <1>10, <2>2, OwnedAfter, Zenon DEF CaptureFails
    <3> QED BY <3>1, <3>2 DEF PassOK
  <2> QED BY <2>1, <2>2
<1>11. ASSUME NEW s \in Services, ReleaseServers(t, s)
       PROVE  PassOK(pc[t], Owned(t), job[t])'
  <2>1. /\ job'[t].capture = job[t].capture /\ job'[t].apply = job[t].apply
        /\ job'[t].restore = job[t].restore /\ job'[t].drop = job[t].drop
        /\ job'[t].half = s
    <3>1. job'[t] = [job[t] EXCEPT !.half = s]
      BY <1>11, SetJobGives, Zenon DEF ReleaseServers
    <3> QED BY <3>1, <1>a, Zenon DEF Job
  <2>2. /\ pc[t] = "prepare" /\ pc'[t] = pc[t] /\ s \in job[t].restore
        /\ Owned(t)' = Owned(t)
    BY <1>11, OwnedAfter, Zenon DEF ReleaseServers
  <2> QED BY <2>1, <2>2 DEF PassOK
<1>12. ASSUME NEW s \in Services, ReleaseSearch(t, s)
       PROVE  PassOK(pc[t], Owned(t), job[t])'
  <2>1. /\ job'[t].capture = job[t].capture /\ job'[t].apply = job[t].apply
        /\ job'[t].restore = job[t].restore \ {s} /\ job'[t].drop = job[t].drop
        /\ job'[t].half = None
    <3>1. job'[t] = [job[t] EXCEPT !.half = None, !.restore = @ \ {s},
                                   !.changed = TRUE, !.acted = TRUE]
      BY <1>12, SetJobGives, Zenon DEF ReleaseSearch
    <3> QED BY <3>1, <1>a, Zenon DEF Job
  <2>2. /\ pc[t] = "prepare" /\ pc'[t] = pc[t] /\ job[t].half = s
        /\ Owned(t)' = Owned(t) \ {s}
    BY <1>12, OwnedAfter, Zenon DEF ReleaseSearch
  <2> QED BY <2>1, <2>2, <1>c DEF PassOK
<1>13. ASSUME NEW s \in Services, ReleaseFails(t, s)
       PROVE  PassOK(pc[t], Owned(t), job[t])'
  <2>1. /\ job'[t].capture = job[t].capture /\ job'[t].apply = job[t].apply
        /\ job'[t].restore = job[t].restore \ {s} /\ job'[t].drop = job[t].drop
        /\ job'[t].half = None
    <3>1. job'[t] = [job[t] EXCEPT !.half = None, !.restore = @ \ {s}]
      BY <1>13, SetJobGives, Zenon DEF ReleaseFails
    <3> QED BY <3>1, <1>a, Zenon DEF Job
  <2>2. pc[t] = "prepare" /\ pc'[t] = pc[t] /\ Owned(t)' = Owned(t)
    BY <1>13, OwnedAfter, Zenon DEF ReleaseFails
  <2> QED BY <2>1, <2>2 DEF PassOK
<1>14. ASSUME NEW s \in Services, ApplyServers(t, s)
       PROVE  PassOK(pc[t], Owned(t), job[t])'
  <2>1. job'[t].capture = job[t].capture /\ job'[t].apply = job[t].apply
    <3>1. job'[t] = [job[t] EXCEPT !.half = s]
      BY <1>14, SetJobGives, Zenon DEF ApplyServers
    <3> QED BY <3>1, <1>a, Zenon DEF Job
  <2>2. pc[t] = "apply" /\ pc'[t] = pc[t] /\ Owned(t)' = Owned(t)
    BY <1>14, OwnedAfter, Zenon DEF ApplyServers
  <2> QED BY <2>1, <2>2 DEF PassOK
<1>15. ASSUME NEW s \in Services, ApplySearch(t, s)
       PROVE  PassOK(pc[t], Owned(t), job[t])'
  <2>1. job'[t].capture = job[t].capture /\ job'[t].apply = job[t].apply \ {s}
    <3>1. job'[t] = [job[t] EXCEPT !.half = None, !.apply = @ \ {s}, !.acted = TRUE]
      BY <1>15, SetJobGives, Zenon DEF ApplySearch
    <3> QED BY <3>1, <1>a, Zenon DEF Job
  <2>2. pc[t] = "apply" /\ pc'[t] = pc[t] /\ Owned(t)' = Owned(t)
    BY <1>15, OwnedAfter, Zenon DEF ApplySearch
  <2> QED BY <2>1, <2>2 DEF PassOK
<1>16. ASSUME NEW s \in Services, ApplyFails(t, s)
       PROVE  PassOK(pc[t], Owned(t), job[t])'
  <2>1. CASE job[t].booting
    BY <1>16, <1>r, <2>1, Zenon DEF ApplyFails
  <2>2. CASE ~job[t].booting
    <3>1. job'[t].capture = job[t].capture /\ job'[t].apply = job[t].apply \ {s}
      <4>1. job'[t] = [job[t] EXCEPT !.half = None, !.apply = @ \ {s}]
        BY <1>16, <2>2, SetJobGives, Zenon DEF ApplyFails
      <4> QED BY <4>1, <1>a, Zenon DEF Job
    <3>2. pc[t] = "apply" /\ pc'[t] = pc[t] /\ Owned(t)' = Owned(t)
      BY <1>16, <2>2, OwnedAfter, Zenon DEF ApplyFails
    <3> QED BY <3>1, <3>2 DEF PassOK
  <2> QED BY <2>1, <2>2
<1> QED
  BY <1>1, <1>2, <1>3, <1>4, <1>5, <1>6, <1>7, <1>8, <1>9, <1>10, <1>11, <1>12, <1>13,
     <1>14, <1>15, <1>16, Zenon DEF HelperStep

(* A step of the daemon leaves helpers alone, except the one it starts.    *)
LEMMA DaemonHelpers ==
  ASSUME DaemonStep \/ DaemonDies
  PROVE  /\ saved' = saved /\ job' = job
         /\ pc' = pc \/ (Spawn /\ pc' = [pc EXCEPT ![sweep.connect] = "spawned"])
BY Zenon DEF DaemonStep, SweepAll, SweepRead, SweepSnapshot, SnapshotFails, SweepDone, Spawn,
   Goto, HelperReported, SweepInterface, Connect, SettleRecord, SweepServers, SweepSearch,
   SweepRestoreFails, ClearStray, DaemonDies, daemonUnchanged, helperVars

(* Only Connect chooses a tunnel, one that is down; the other steps of the *)
(* lock's holder keep the choice, and up to Spawn they do not start it.    *)
LEMMA DaemonConnect ==
  ASSUME TypeOK, ConnectInv, DaemonStep \/ DaemonDies
  PROVE  ConnectInv'
<1> USE DEF daemonUnchanged, helperVars
<1> DEFINE Busy == {"read", "snapshot", "restore", "spawn"}
           Kept == pc' = pc /\ sweep'.connect = sweep.connect /\ sweep.pc \in Busy
<1>a. sweep \in SweepState /\ NoSweep \in SweepState /\ NoSweep.connect = None
  BY EmptyValues DEF TypeOK, NoSweep
<1>b. Kept => ConnectInv'
  BY DEF ConnectInv
<1>c. sweep'.connect = None => ConnectInv'
  BY DEF ConnectInv
<1>d. ASSUME SweepEnds, pc' = pc, sweep.pc \in Busy
      PROVE  ConnectInv'
  <2>1. [NoSweep EXCEPT !.pc = "spawn", !.connect = sweep.connect].connect = sweep.connect
    BY <1>a, Zenon DEF SweepState
  <2>2. sweep'.connect = None \/ sweep'.connect = sweep.connect
    BY <1>a, <1>d, <2>1, Zenon DEF SweepEnds
  <2> QED BY <1>b, <1>c, <1>d, <2>2, Zenon
<1>1. CASE SweepAll
  <2>1. [NoSweep EXCEPT !.pc = "read", !.scope = Tunnels, !.fallback = TRUE].connect
          = NoSweep.connect
    BY <1>a, Zenon DEF SweepState
  <2> QED BY <1>1, <1>a, <1>c, <2>1, Zenon DEF SweepAll
<1>2. CASE SweepRead
  <2> DEFINE found == {u \in sweep.scope : Recorded(u) # {}}
             dead  == {u \in found : ~Alive(u)}
             alive == {u \in Tunnels : Alive(u)}
             copy  == [u \in Tunnels |-> IF u \in found THEN record[u] ELSE NoCustody]
  <2>1. SweepEnds \/ sweep' = [sweep EXCEPT !.pc = "snapshot", !.dead = dead,
                                             !.alive = alive, !.copy = copy]
    BY <1>2, Zenon DEF SweepRead
  <2>2. [sweep EXCEPT !.pc = "snapshot", !.dead = dead, !.alive = alive, !.copy = copy].connect
          = sweep.connect
    <3> HIDE DEF dead, alive, copy
    <3> QED BY <1>a, Zenon DEF SweepState
  <2>3. pc' = pc /\ sweep.pc \in Busy
    BY <1>2, Zenon DEF SweepRead
  <2> HIDE DEF dead, alive, copy
  <2> QED BY <1>b, <1>d, <2>1, <2>2, <2>3, Zenon
<1>3. CASE SweepSnapshot
  <2> DEFINE entries == {e \in sweep.dead \X Services : e[2] \in Held(sweep.copy[e[1]])}
             shown   == [s \in Services |-> live[s].servers]
             todo    == SweepRestores(entries, present, shown)
             pending == SweepAbsent(entries, present)
             strays  == IF sweep.fallback
                        THEN SweepStrays(UNION {Held(sweep.copy[u]) : u \in Tunnels}, present,
                                         shown, Tunnels \ sweep.alive, sweep.alive)
                        ELSE {}
  <2>1. sweep' = [sweep EXCEPT !.pc = "restore", !.todo = todo, !.pending = pending,
                               !.strays = strays]
    BY <1>3, Zenon DEF SweepSnapshot
  <2>2. sweep'.connect = sweep.connect
    <3> HIDE DEF todo, pending, strays
    <3> QED BY <1>a, <2>1, Zenon DEF SweepState
  <2>3. pc' = pc /\ sweep.pc \in Busy
    BY <1>3, Zenon DEF SweepSnapshot
  <2> QED BY <1>b, <2>2, <2>3, Zenon
<1>4. CASE SnapshotFails \/ SweepDone
  <2>1. SweepEnds /\ pc' = pc /\ sweep.pc \in Busy
    BY <1>4, Zenon DEF SnapshotFails, SweepDone
  <2> QED BY <1>d, <2>1, Zenon
<1>5. CASE Spawn
  <2>1. [sweep EXCEPT !.pc = "wait"].pc = "wait"
    BY <1>a, Zenon DEF SweepState
  <2>2. sweep'.pc = "wait"
    BY <1>5, <2>1, Zenon DEF Spawn
  <2> QED BY <2>2 DEF ConnectInv
<1>6. CASE HelperReported \/ DaemonDies
  BY <1>6, <1>a, <1>c, Zenon DEF HelperReported, DaemonDies
<1>7. ASSUME NEW u \in Tunnels, SweepInterface(u)
      PROVE  ConnectInv'
  <2>1. [NoSweep EXCEPT !.pc = "read", !.scope = {u}].connect = NoSweep.connect
    BY <1>a, Zenon DEF SweepState
  <2> QED BY <1>7, <1>a, <1>c, <2>1, Zenon DEF SweepInterface
<1>8. ASSUME NEW u \in Tunnels, Connect(u)
      PROVE  ConnectInv'
  <2>1. [NoSweep EXCEPT !.pc = "read", !.scope = {u}, !.connect = u].connect = u
    BY <1>a, Zenon DEF SweepState
  <2>2. sweep'.connect = u /\ pc'[u] = "down"
    BY <1>8, <2>1, Zenon DEF Connect
  <2> QED BY <2>2 DEF ConnectInv
<1>9. ASSUME NEW u \in Tunnels, SettleRecord(u)
      PROVE  ConnectInv'
  <2>1. [sweep EXCEPT !.dead = @ \ {u}].connect = sweep.connect
    BY <1>a, Zenon DEF SweepState
  <2> QED BY <1>9, <1>b, <2>1, Zenon DEF SettleRecord
<1>10. ASSUME NEW e \in Entries, SweepServers(e) \/ SweepSearch(e) \/ SweepRestoreFails(e)
       PROVE  ConnectInv'
  <2>1. /\ [sweep EXCEPT !.half = {e}].connect = sweep.connect
        /\ [sweep EXCEPT !.half = {}, !.todo = @ \ {e}].connect = sweep.connect
        /\ [sweep EXCEPT !.half = {}, !.todo = @ \ {e}, !.pending = @ \cup {e}].connect
              = sweep.connect
    BY <1>a, Zenon DEF SweepState
  <2>2. sweep'.connect = sweep.connect /\ pc' = pc /\ sweep.pc = "restore"
    BY <1>10, <2>1, Zenon DEF SweepServers, SweepSearch, SweepRestoreFails
  <2> QED BY <1>b, <2>2, Zenon
<1>11. ASSUME NEW s \in Services, ClearStray(s)
       PROVE  ConnectInv'
  <2>1. [sweep EXCEPT !.strays = @ \ {s}].connect = sweep.connect
    BY <1>a, Zenon DEF SweepState
  <2>2. sweep'.connect = sweep.connect /\ pc' = pc /\ sweep.pc = "restore"
    BY <1>11, <2>1, Zenon DEF ClearStray
  <2> QED BY <1>b, <2>2, Zenon
<1> QED
  BY <1>1, <1>2, <1>3, <1>4, <1>5, <1>6, <1>7, <1>8, <1>9, <1>10, <1>11, Zenon DEF DaemonStep

(* The invariant of passes and connects is inductive.                      *)
THEOREM PassesInOrder == Spec => [](PassInv /\ ConnectInv)
<1>1. Init => PassInv /\ ConnectInv
  <2> SUFFICES ASSUME Init PROVE PassInv /\ ConnectInv
    OBVIOUS
  <2>1. ASSUME NEW t \in Tunnels
        PROVE  Owned(t) = {} /\ job[t] = NoJob
    BY DEF Init, Owned, Held, NoCustody, NotHeld
  <2>2. PassInv
    BY <2>1 DEF PassInv, PassOK, NoJob, Init
  <2>3. ConnectInv
    BY DEF Init, ConnectInv, NoSweep
  <2> QED BY <2>2, <2>3
<1>2. TypeOK /\ PassInv /\ ConnectInv /\ [Next]_vars => PassInv' /\ ConnectInv'
  <2> SUFFICES ASSUME TypeOK, PassInv, ConnectInv, [Next]_vars PROVE PassInv' /\ ConnectInv'
    OBVIOUS
  <2>1. ASSUME NEW t \in Tunnels, HelperStep(t) \/ Crash(t)
        PROVE  PassInv' /\ ConnectInv'
    <3>1. PassOK(pc[t], Owned(t), job[t])'
      BY <2>1, PassStep DEF PassInv
    <3>2. ASSUME NEW u \in Tunnels, u # t
          PROVE  PassOK(pc[u], Owned(u), job[u])'
      BY <2>1, <3>2, OthersKept DEF PassInv, Owned
    <3>3. pc[t] # "down"
      BY <2>1, Zenon DEF HelperStep, Crash, Bind, Configure, SetupFails, Tick, Persist,
         PassDone, Stop, Capture, CaptureFails, ReleaseServers, ReleaseSearch,
         ReleaseFails, ApplyServers, ApplySearch, ApplyFails
    <3>4. sweep' = sweep
      BY <2>1, HelperMemory, Zenon
    <3>5. ASSUME sweep.connect # None, pc[sweep.connect] = "down"
          PROVE  pc'[sweep.connect] = "down"
      <4>1. sweep.connect \in Tunnels
        BY <3>5 DEF TypeOK, SweepState
      <4> QED BY <2>1, <3>3, <3>5, <4>1, OthersKept, Zenon
    <3>6. ConnectInv'
      BY <3>4, <3>5 DEF ConnectInv
    <3> QED BY <3>1, <3>2, <3>6, Zenon DEF PassInv
  <2>2. ASSUME DaemonStep \/ DaemonDies
        PROVE  PassInv' /\ ConnectInv'
    <3>1. ConnectInv'
      BY <2>2, DaemonConnect
    <3>2. /\ saved' = saved /\ job' = job
          /\ pc' = pc \/ (Spawn /\ pc' = [pc EXCEPT ![sweep.connect] = "spawned"])
      BY <2>2, DaemonHelpers
    <3>3. ASSUME NEW t \in Tunnels
          PROVE  PassOK(pc[t], Owned(t), job[t])'
      <4>1. Owned(t)' = Owned(t) /\ job'[t] = job[t]
        BY <3>2 DEF Owned
      <4>2. pc'[t] = pc[t] \/ (pc[t] = "down" /\ pc'[t] = "spawned")
        <5>1. CASE pc' = pc
          BY <5>1
        <5>2. CASE Spawn /\ pc' = [pc EXCEPT ![sweep.connect] = "spawned"]
          <6>1. sweep.pc = "spawn"
            BY <5>2, Zenon DEF Spawn
          <6>2. t = sweep.connect => pc[t] = "down"
            BY <6>1, CustodyAssumption DEF ConnectInv
          <6> QED BY <5>2, <6>2 DEF TypeOK
        <5> QED BY <3>2, <5>1, <5>2
      <4> QED BY <4>1, <4>2 DEF PassInv, PassOK
    <3> QED BY <3>1, <3>3, Zenon DEF PassInv
  <2>3. CASE Environment \/ UNCHANGED vars
    <3>1. pc' = pc /\ saved' = saved /\ job' = job /\ sweep' = sweep
      BY <2>3, Zenon DEF Environment, PrimaryChanges, LocationChanges, UserEdit, LanChanges,
                         vars, helperVars
    <3> QED BY <3>1 DEF PassInv, ConnectInv, PassOK, Owned
  <2> QED BY <2>1, <2>2, <2>3, Zenon DEF Next
<1> QED BY <1>1, <1>2, TypeCorrect, PTL DEF Spec

(* macos_reconcile_dns drops a service whose capture failed from its       *)
(* targets: when a pass comes to write DNS, it holds the original of every *)
(* service it will write.                                                  *)
THEOREM AppliesOnlyOwned == Spec => []ApplyOnlyOwned
<1>1. PassInv => ApplyOnlyOwned
  BY DEF PassInv, PassOK, ApplyOnlyOwned
<1> QED BY <1>1, PassesInOrder, PTL

(* plan_dns_actions captures a service only when it is not owned: while it *)
(* is held, an original never changes.                                     *)
THEOREM OriginalsStayStable == Spec => OriginalsAreStable
<1>1. TypeOK /\ PassInv /\ [Next]_vars =>
        [\A t \in Tunnels, s \in Services :
           saved[t][s].held /\ saved'[t][s].held => saved'[t][s] = saved[t][s]]_vars
  <2> SUFFICES ASSUME TypeOK, PassInv, [Next]_vars, NEW t \in Tunnels, NEW s \in Services,
                      saved[t][s].held, saved'[t][s].held
               PROVE  saved'[t][s] = saved[t][s]
    BY Zenon
  <2>1. ASSUME NEW u \in Tunnels, HelperStep(u) \/ Crash(u)
        PROVE  saved'[t][s] = saved[t][s]
    <3>1. CASE t # u
      BY <2>1, <3>1, OthersKept
    <3>2. CASE t = u
      <4>1. ASSUME NEW r \in Services, Capture(t, r)
            PROVE  saved'[t][s] = saved[t][s]
        <5>1. r \in job[t].capture /\ saved' = [saved EXCEPT ![t][r] = CaptureOf(t, r)]
          BY <4>1, Zenon DEF Capture
        <5>2. r # s
          BY <5>1 DEF PassInv, PassOK, Owned, Held
        <5> QED BY <5>1, <5>2 DEF TypeOK, Custody
      <4>2. CASE \E r \in Services : saved' = [saved EXCEPT ![t][r] = NotHeld]
        BY <4>2 DEF TypeOK, Custody, NotHeld
      <4>3. ASSUME NEW gone, saved' = [saved EXCEPT ![t] = Forget(saved[t], gone)]
            PROVE  saved'[t][s] = saved[t][s]
        BY <4>3 DEF TypeOK, Forget, NotHeld
      <4>4. CASE saved' = [saved EXCEPT ![t] = NoCustody]
        BY <4>4 DEF TypeOK, NoCustody, NotHeld
      <4>5. \/ \E r \in Services : Capture(t, r)
            \/ saved' = saved
            \/ \E r \in Services : saved' = [saved EXCEPT ![t][r] = NotHeld]
            \/ \E gone : saved' = [saved EXCEPT ![t] = Forget(saved[t], gone)]
            \/ saved' = [saved EXCEPT ![t] = NoCustody]
        BY <2>1, <3>2, Zenon DEF HelperStep, Crash, Exit, Bind, Configure, SetupFails, Tick,
           Persist, PassDone, Stop, CaptureFails, ReleaseServers, ReleaseSearch, ReleaseFails,
           ApplyServers, ApplySearch, ApplyFails
      <4> QED BY <4>1, <4>2, <4>3, <4>4, <4>5, Zenon
    <3> QED BY <3>1, <3>2
  <2>2. ASSUME DaemonStep \/ DaemonDies
        PROVE  saved'[t][s] = saved[t][s]
    BY <2>2, DaemonHelpers
  <2>3. CASE Environment \/ UNCHANGED vars
    BY <2>3, Zenon DEF Environment, PrimaryChanges, LocationChanges, UserEdit, LanChanges,
                       vars, helperVars
  <2> QED BY <2>1, <2>2, <2>3, Zenon DEF Next
<1> QED BY <1>1, TypeCorrect, PassesInOrder, PTL DEF Spec, OriginalsAreStable
-----------------------------------------------------------------------------
(***************************************************************************)
(* The record on disk is what the helper owns.  While no call fails and    *)
(* every service stays listed, a sweep settles the records it takes up to  *)
(* nothing, so a helper starts with neither record nor memory; from there  *)
(* the two part only between the first change of a pass and its Persist.   *)
(***************************************************************************)
AllListed == present = Services

Calm == faults = 0 /\ AllListed

HandOK(place, j, mem, disk) ==
  /\ place \in {"spawned", "configure"} => disk = NoCustody
  /\ place = "prepare" /\ ~j.changed /\ ~j.stopping => disk = mem /\ j.drop = {}
  /\ place \in {"apply", "run"} => disk = mem

HandInv == \A t \in Tunnels : HandOK(pc[t], job[t], saved[t], record[t])

(* What the holder of the lock took up belongs to a helper that is down,   *)
(* and is on disk as it was read; what it connects has nothing left there  *)
(* in the end.                                                             *)
DeadKept == sweep.pc \in {"snapshot", "restore"} =>
              \A t \in sweep.dead : pc[t] = "down" /\ sweep.copy[t] = record[t]

NothingPending == sweep.pc = "restore" => sweep.pending = {}

Cleared(t) == /\ sweep.pc = "read" => t \in sweep.scope
              /\ sweep.pc \in {"snapshot", "restore"} => t \in sweep.dead \/ record[t] = NoCustody
              /\ sweep.pc = "spawn" => record[t] = NoCustody

ClearedInv == \A t \in Tunnels : sweep.connect = t => Cleared(t)

(* A custody that holds nothing is the empty one; forgetting nothing, or   *)
(* everything.                                                             *)
LEMMA NothingHeld ==
  ASSUME NEW c \in Custody, Held(c) = {}
  PROVE  c = NoCustody
<1>1. ASSUME NEW s \in Services
      PROVE  c[s] = NotHeld
  <2>1. c[s] \in Config \cup {NotHeld} /\ ~c[s].held
    BY DEF Custody, Held
  <2>2. c[s] \in Config => c[s].held
    BY DEF Config
  <2> QED BY <2>1, <2>2
<1> QED BY <1>1 DEF Custody, NoCustody

LEMMA ForgetExtremes ==
  ASSUME NEW c \in Custody
  PROVE  /\ Forget(c, {}) = c
         /\ Forget(c, Services) = NoCustody
BY DEF Forget, Custody, NoCustody

(* While nothing fails and all services are listed, every call works.      *)
LEMMA CalmWorks ==
  ASSUME Calm
  PROVE  /\ ~Fault
         /\ \A s \in Services : ~Fails(s)
BY DEF Calm, AllListed, Fault, Fails

LEMMA StaysCalm ==
  ASSUME MaxFaults = 0, "location" \notin Changes
  PROVE  Spec => []Calm
<1>1. Init => AllListed
  BY DEF Init, AllListed
<1>2. AllListed /\ [Next]_vars => AllListed'
  <2> SUFFICES ASSUME [Next]_vars PROVE present' = present
    BY DEF AllListed
  <2>1. ASSUME NEW t \in Tunnels, HelperStep(t) \/ Crash(t)
        PROVE  present' = present
    BY <2>1, Zenon DEF HelperStep, Crash, Bind, Configure, SetupFails, Tick, Persist,
       PassDone, Stop, Capture, CaptureFails, ReleaseServers, ReleaseSearch,
       ReleaseFails, ApplyServers, ApplySearch, ApplyFails, envVars
  <2>2. CASE DaemonStep \/ DaemonDies
    BY <2>2, Zenon DEF DaemonStep, SweepAll, SweepRead, SweepSnapshot, SnapshotFails,
       SweepDone, Spawn, HelperReported, SweepInterface, Connect, SettleRecord, SweepServers,
       SweepSearch, SweepRestoreFails, ClearStray, DaemonDies, daemonUnchanged, envVars
  <2>3. CASE Environment \/ UNCHANGED vars
    BY <2>3, Zenon DEF Environment, PrimaryChanges, LocationChanges, UserEdit, LanChanges,
       vars, envVars
  <2> QED BY <2>1, <2>2, <2>3, Zenon DEF Next
<1>3. TypeOK /\ AllListed => Calm
  BY DEF TypeOK, Calm
<1> QED BY <1>1, <1>2, <1>3, TypeCorrect, PTL DEF Spec

(* A helper's step keeps its own memory and record together.               *)
LEMMA HandStep ==
  ASSUME TypeOK, Calm, NEW t \in Tunnels, PassOK(pc[t], Owned(t), job[t]),
         HandOK(pc[t], job[t], saved[t], record[t]), HelperStep(t) \/ Crash(t)
  PROVE  HandOK(pc[t], job[t], saved[t], record[t])'
<1>a. /\ job[t] \in Job /\ NoJob \in Job
      /\ saved[t] \in Custody
  BY JobOf, EmptyValues DEF TypeOK
<1>b. NoJob.drop = {} /\ NoJob.changed = FALSE
  BY DEF NoJob
<1>1. CASE Crash(t)
  <2>1. pc'[t] = "down"
    BY <1>1, GotoGives, Zenon DEF Crash, Exit
  <2> QED BY <2>1 DEF HandOK
<1>2. CASE Bind(t)
  <2>1. pc[t] = "spawned" /\ pc'[t] = "configure" /\ record' = record
    BY <1>2, GotoGives, Zenon DEF Bind
  <2> QED BY <2>1 DEF HandOK
<1>3. CASE Configure(t)
  <2>1. PICK targets :
          SetJob(t, [NoJob EXCEPT !.capture = targets, !.apply = targets,
                                  !.acted = TRUE, !.booting = TRUE])
    BY <1>3, Zenon DEF Configure
  <2>2. job'[t].drop = NoJob.drop
    <3>1. job'[t] = [NoJob EXCEPT !.capture = targets, !.apply = targets,
                                  !.acted = TRUE, !.booting = TRUE]
      BY <2>1, SetJobGives, Zenon
    <3> QED BY <3>1, <1>a, Zenon DEF Job
  <2>3. pc[t] = "configure" /\ pc'[t] = "prepare" /\ saved' = saved /\ record' = record
    BY <1>3, GotoGives, Zenon DEF Configure
  <2>4. saved[t] = NoCustody
    BY <2>3, <1>a, NothingHeld DEF PassOK, Owned
  <2> QED BY <2>2, <2>3, <2>4, <1>b DEF HandOK
<1>4. CASE SetupFails(t) \/ Stop(t)
  <2>1. job'[t].stopping
    <3>1. \/ job'[t] = [NoJob EXCEPT !.booting = TRUE, !.stopping = TRUE]
          \/ job'[t] = [NoJob EXCEPT !.stopping = TRUE, !.restore = Owned(t)]
      BY <1>4, SetJobGives, Zenon DEF SetupFails, Stop
    <3> QED BY <3>1, <1>a, Zenon DEF Job
  <2>2. pc'[t] = "prepare"
    BY <1>4, GotoGives, Zenon DEF SetupFails, Stop
  <2> QED BY <2>1, <2>2 DEF HandOK
<1>5. CASE Tick(t)
  <2> DEFINE plan(fp) == PlanDnsActions(t, fp, Owned(t), DnsDecision(fp, collides[t]).targets)
  <2>1. PICK fp :
          SetJob(t, [NoJob EXCEPT !.capture = plan(fp).capture, !.apply = plan(fp).apply,
                                  !.restore = plan(fp).restore, !.drop = plan(fp).drop,
                                  !.changed = plan(fp).drop # {}])
    BY <1>5, Zenon DEF Tick
  <2> DEFINE p == plan(fp)
  <2>2. job'[t].drop = p.drop /\ job'[t].changed = (p.drop # {})
    <3>1. job'[t] = [NoJob EXCEPT !.capture = p.capture, !.apply = p.apply,
                                  !.restore = p.restore, !.drop = p.drop,
                                  !.changed = p.drop # {}]
      BY <2>1, SetJobGives, Zenon
    <3> HIDE DEF p
    <3> QED BY <3>1, <1>a, Zenon DEF Job
  <2>3. pc[t] = "run" /\ pc'[t] = "prepare" /\ saved' = saved /\ record' = record
    BY <1>5, GotoGives, Zenon DEF Tick
  <2> HIDE DEF p
  <2> QED BY <2>2, <2>3 DEF HandOK
<1>6. CASE Persist(t)
  <2>1. CASE job[t].stopping
    <3>1. pc'[t] = "down"
      BY <1>6, <2>1, GotoGives, Zenon DEF Persist, Exit
    <3> QED BY <3>1 DEF HandOK
  <2>2. CASE ~job[t].stopping
    <3> DEFINE kept == Forget(saved[t], job[t].drop)
    <3>1. /\ pc[t] = "prepare" /\ pc'[t] = "apply"
          /\ saved' = [saved EXCEPT ![t] = kept]
      BY <1>6, <2>2, GotoGives, Zenon DEF Persist
    <3>2. CASE job[t].changed
      <4>1. record' = [record EXCEPT ![t] = kept]
        BY <1>6, <3>2, CalmWorks, Zenon DEF Persist, NeedsPersist
      <4> HIDE DEF kept
      <4> QED BY <3>1, <4>1 DEF HandOK, TypeOK
    <3>3. CASE ~job[t].changed
      <4>1. record' = record
        BY <1>6, <2>2, <3>3, Zenon DEF Persist, NeedsPersist
      <4>2. kept = saved[t] /\ saved[t] = record[t]
        BY <2>2, <3>1, <3>3, <1>a, ForgetExtremes DEF HandOK
      <4> HIDE DEF kept
      <4> QED BY <3>1, <4>1, <4>2 DEF HandOK, TypeOK
    <3> QED BY <3>2, <3>3
  <2> QED BY <2>1, <2>2
<1>7. CASE PassDone(t)
  <2>1. pc[t] = "apply" /\ pc'[t] = "run" /\ saved' = saved /\ record' = record
    BY <1>7, GotoGives, Zenon DEF PassDone
  <2> QED BY <2>1 DEF HandOK
<1>8. ASSUME NEW s \in Services, Capture(t, s) \/ ReleaseSearch(t, s)
      PROVE  HandOK(pc[t], job[t], saved[t], record[t])'
  <2>1. job'[t].changed
    <3>1. \/ job'[t] = [job[t] EXCEPT !.capture = @ \ {s}, !.changed = TRUE]
          \/ job'[t] = [job[t] EXCEPT !.half = None, !.restore = @ \ {s},
                                      !.changed = TRUE, !.acted = TRUE]
      BY <1>8, SetJobGives, Zenon DEF Capture, ReleaseSearch
    <3> QED BY <3>1, <1>a, Zenon DEF Job
  <2>2. pc'[t] = "prepare"
    BY <1>8, Zenon DEF Capture, ReleaseSearch
  <2> QED BY <2>1, <2>2 DEF HandOK
<1>9. ASSUME NEW s \in Services, ReleaseServers(t, s)
      PROVE  HandOK(pc[t], job[t], saved[t], record[t])'
  <2>1. /\ job'[t].changed = job[t].changed /\ job'[t].stopping = job[t].stopping
        /\ job'[t].drop = job[t].drop
    <3>1. job'[t] = [job[t] EXCEPT !.half = s]
      BY <1>9, SetJobGives, Zenon DEF ReleaseServers
    <3> QED BY <3>1, <1>a, Zenon DEF Job
  <2>2. pc'[t] = pc[t] /\ saved' = saved /\ record' = record
    BY <1>9, Zenon DEF ReleaseServers
  <2> QED BY <2>1, <2>2 DEF HandOK
<1>10. ASSUME NEW s \in Services, ApplyServers(t, s) \/ ApplySearch(t, s)
       PROVE  HandOK(pc[t], job[t], saved[t], record[t])'
  <2>1. pc[t] = "apply" /\ pc'[t] = pc[t] /\ saved' = saved /\ record' = record
    BY <1>10, Zenon DEF ApplyServers, ApplySearch
  <2> QED BY <2>1 DEF HandOK
<1>11. ASSUME NEW s \in Services, CaptureFails(t, s) \/ ReleaseFails(t, s) \/ ApplyFails(t, s)
       PROVE  FALSE
  BY <1>11, CalmWorks, Zenon DEF CaptureFails, ReleaseFails, ApplyFails
<1> QED
  BY <1>1, <1>2, <1>3, <1>4, <1>5, <1>6, <1>7, <1>8, <1>9, <1>10, <1>11, Zenon DEF HelperStep

(* A step of the daemon changes records only where it settles one.         *)
LEMMA RecordsKept ==
  ASSUME DaemonStep \/ DaemonDies
  PROVE  record' = record \/ \E t \in Tunnels : SettleRecord(t)
BY Zenon DEF DaemonStep, SweepAll, SweepRead, SweepSnapshot, SnapshotFails, SweepDone, Spawn,
   HelperReported, SweepInterface, Connect, SweepServers, SweepSearch, SweepRestoreFails,
   ClearStray, DaemonDies

(* With nothing pending, a settled record is empty.                        *)
LEMMA SettledEmpty ==
  ASSUME TypeOK, Calm, DeadKept, NothingPending, NEW t \in Tunnels, SettleRecord(t)
  PROVE  /\ pc[t] = "down"
         /\ record' = [record EXCEPT ![t] = NoCustody]
         /\ sweep' = [sweep EXCEPT !.dead = @ \ {t}]
         /\ sweep.pc = "restore"
<1> DEFINE gone == {s \in Services : <<t, s>> \notin sweep.pending}
           keep == Forget(sweep.copy[t], gone)
<1>1. /\ sweep.pc = "restore" /\ t \in sweep.dead
      /\ sweep' = [sweep EXCEPT !.dead = @ \ {t}]
      /\ \/ record' = [record EXCEPT ![t] = keep]
         \/ keep = sweep.copy[t] /\ record' = record
  BY CalmWorks, Zenon DEF SettleRecord
<1>2. pc[t] = "down" /\ sweep.copy[t] = record[t]
  BY <1>1 DEF DeadKept
<1>3. gone = Services
  BY <1>1 DEF NothingPending
<1>4. keep = NoCustody
  <2>1. record[t] \in Custody
    BY DEF TypeOK
  <2> QED BY <1>2, <1>3, <2>1, ForgetExtremes, Zenon
<1>5. record' = [record EXCEPT ![t] = NoCustody]
  <2> HIDE DEF keep
  <2> QED BY <1>1, <1>2, <1>4 DEF TypeOK
<1> QED BY <1>1, <1>2, <1>5, Zenon

(* The holder of the lock keeps to what is promised of it.                 *)
LEMMA DaemonSettles ==
  ASSUME TypeOK, Calm, ConnectInv, HandInv, DeadKept, NothingPending, ClearedInv,
         DaemonStep \/ DaemonDies
  PROVE  DeadKept' /\ NothingPending' /\ ClearedInv'
<1> USE DEF daemonUnchanged, helperVars
<1> DEFINE Goal == DeadKept' /\ NothingPending' /\ ClearedInv'
<1>a. /\ sweep \in SweepState /\ NoSweep \in SweepState
      /\ NoSweep.connect = None /\ NoSweep.pc = "idle" /\ None \notin Tunnels
  BY EmptyValues, CustodyAssumption DEF TypeOK, NoSweep
<1>r. \A t \in Tunnels : record[t] \in Custody /\ (Recorded(t) = {} => record[t] = NoCustody)
  BY NothingHeld DEF TypeOK, Recorded
<1>b. ASSUME sweep'.pc \notin {"snapshot", "restore"},
             sweep'.connect = None \/ sweep'.pc \notin {"read", "spawn"}
      PROVE  Goal
  BY <1>a, <1>b DEF DeadKept, NothingPending, ClearedInv, Cleared
<1>c. ASSUME SweepEnds, record' = record,
             \A t \in Tunnels : sweep.connect = t => record[t] = NoCustody
      PROVE  Goal
  <2>1. CASE sweep' = NoSweep
    BY <1>a, <1>b, <2>1
  <2>2. CASE sweep' = [NoSweep EXCEPT !.pc = "spawn", !.connect = sweep.connect]
    <3>1. sweep'.pc = "spawn" /\ sweep'.connect = sweep.connect
      BY <1>a, <2>2, Zenon DEF SweepState
    <3> QED BY <1>c, <3>1 DEF DeadKept, NothingPending, ClearedInv, Cleared
  <2> QED BY <1>c, <2>1, <2>2, Zenon DEF SweepEnds
<1>k. ASSUME record' = record, pc' = pc, sweep.pc = "restore",
             sweep'.pc = sweep.pc, sweep'.connect = sweep.connect, sweep'.dead = sweep.dead,
             sweep'.copy = sweep.copy, sweep'.pending = sweep.pending
      PROVE  Goal
  BY <1>k DEF DeadKept, NothingPending, ClearedInv, Cleared
<1>1. CASE SweepAll
  <2>1. sweep'.pc = "read" /\ sweep'.connect = NoSweep.connect
    <3>1. sweep' = [NoSweep EXCEPT !.pc = "read", !.scope = Tunnels, !.fallback = TRUE]
      BY <1>1, Zenon DEF SweepAll
    <3> QED BY <1>a, <3>1, Zenon DEF SweepState
  <2> QED BY <1>a, <1>b, <2>1
<1>2. CASE SweepRead
  <2> DEFINE found == {u \in sweep.scope : Recorded(u) # {}}
             dead  == {u \in found : ~Alive(u)}
             alive == {u \in Tunnels : Alive(u)}
             copy  == [u \in Tunnels |-> IF u \in found THEN record[u] ELSE NoCustody]
  <2>1. sweep.pc = "read" /\ record' = record /\ pc' = pc
    BY <1>2, Zenon DEF SweepRead
  <2>2. \A u \in Tunnels : sweep.connect = u => u \in dead \/ record[u] = NoCustody
    <3> SUFFICES ASSUME NEW u \in Tunnels, sweep.connect = u
                 PROVE  u \in dead \/ record[u] = NoCustody
      OBVIOUS
    <3>1. u \in sweep.scope
      BY <2>1 DEF ClearedInv, Cleared
    <3>2. ~Alive(u)
      BY <1>a, <2>1 DEF ConnectInv, Alive
    <3>3. Recorded(u) = {} => record[u] = NoCustody
      BY <1>r
    <3> QED BY <3>1, <3>2, <3>3, Zenon
  <2>3. CASE dead = {} /\ SweepEnds
    <3>1. \A u \in Tunnels : sweep.connect = u => record[u] = NoCustody
      <4> HIDE DEF dead
      <4> QED BY <2>2, <2>3
    <3> QED BY <1>c, <2>1, <2>3, <3>1
  <2>4. CASE sweep' = [sweep EXCEPT !.pc = "snapshot", !.dead = dead,
                                    !.alive = alive, !.copy = copy]
    <3>1. /\ sweep'.pc = "snapshot" /\ sweep'.connect = sweep.connect
          /\ sweep'.dead = dead /\ sweep'.copy = copy
      <4> HIDE DEF dead, alive, copy
      <4> QED BY <1>a, <2>4, Zenon DEF SweepState
    <3>2. \A u \in dead : u \in Tunnels /\ pc[u] = "down" /\ copy[u] = record[u]
      <4> SUFFICES ASSUME NEW u \in dead
                   PROVE  u \in Tunnels /\ pc[u] = "down" /\ copy[u] = record[u]
        OBVIOUS
      <4>1. u \in Tunnels /\ u \in found /\ Recorded(u) # {} /\ pc[u] \in {"down", "spawned"}
        BY <1>a DEF SweepState, Alive
      <4>2. Recorded(u) # {} => record[u] # NoCustody
        BY DEF Recorded, Held, NoCustody, NotHeld
      <4>3. pc[u] = "down"
        BY <4>1, <4>2 DEF HandInv, HandOK
      <4> QED BY <4>1, <4>3
    <3> HIDE DEF dead, copy
    <3> QED BY <2>1, <2>2, <3>1, <3>2 DEF DeadKept, NothingPending, ClearedInv, Cleared
  <2>5. \/ dead = {} /\ SweepEnds
        \/ sweep' = [sweep EXCEPT !.pc = "snapshot", !.dead = dead,
                                  !.alive = alive, !.copy = copy]
    BY <1>2, Zenon DEF SweepRead
  <2> QED BY <2>3, <2>4, <2>5, Zenon
<1>3. CASE SweepSnapshot
  <2> DEFINE entries == {e \in sweep.dead \X Services : e[2] \in Held(sweep.copy[e[1]])}
             shown   == [s \in Services |-> live[s].servers]
             todo    == SweepRestores(entries, present, shown)
             pending == SweepAbsent(entries, present)
             strays  == IF sweep.fallback
                        THEN SweepStrays(UNION {Held(sweep.copy[u]) : u \in Tunnels}, present,
                                         shown, Tunnels \ sweep.alive, sweep.alive)
                        ELSE {}
  <2>1. /\ sweep.pc = "snapshot" /\ record' = record /\ pc' = pc
        /\ sweep' = [sweep EXCEPT !.pc = "restore", !.todo = todo, !.pending = pending,
                                  !.strays = strays]
    BY <1>3, Zenon DEF SweepSnapshot
  <2>2. pending = {}
    BY DEF SweepAbsent, Calm, AllListed
  <2>3. /\ sweep'.pc = "restore" /\ sweep'.connect = sweep.connect
        /\ sweep'.dead = sweep.dead /\ sweep'.copy = sweep.copy /\ sweep'.pending = pending
    <3> HIDE DEF todo, pending, strays
    <3> QED BY <1>a, <2>1, Zenon DEF SweepState
  <2> HIDE DEF pending
  <2> QED BY <2>1, <2>2, <2>3 DEF DeadKept, NothingPending, ClearedInv, Cleared
<1>4. CASE SnapshotFails
  <2>1. SweepEnds /\ record' = record /\ present = {}
    BY <1>4, CalmWorks, Zenon DEF SnapshotFails
  <2>2. \A t \in Tunnels : record[t] = NoCustody
    BY <1>r, <2>1 DEF Recorded, Held, Calm, AllListed
  <2> QED BY <1>c, <2>1, <2>2
<1>5. CASE SweepDone
  <2>1. SweepEnds /\ record' = record /\ sweep.pc = "restore" /\ sweep.dead = {}
    BY <1>5, Zenon DEF SweepDone
  <2>2. \A t \in Tunnels : sweep.connect = t => record[t] = NoCustody
    BY <2>1 DEF ClearedInv, Cleared
  <2> QED BY <1>c, <2>1, <2>2
<1>6. CASE Spawn
  <2>1. sweep'.pc = "wait"
    <3>1. sweep' = [sweep EXCEPT !.pc = "wait"]
      BY <1>6, Zenon DEF Spawn
    <3> QED BY <1>a, <3>1, Zenon DEF SweepState
  <2> QED BY <1>b, <2>1
<1>7. CASE HelperReported \/ DaemonDies
  <2>1. sweep' = NoSweep
    BY <1>7, Zenon DEF HelperReported, DaemonDies
  <2> QED BY <1>a, <1>b, <2>1
<1>8. ASSUME NEW u \in Tunnels, SweepInterface(u)
      PROVE  Goal
  <2>1. sweep'.pc = "read" /\ sweep'.connect = NoSweep.connect
    <3>1. sweep' = [NoSweep EXCEPT !.pc = "read", !.scope = {u}]
      BY <1>8, Zenon DEF SweepInterface
    <3> QED BY <1>a, <3>1, Zenon DEF SweepState
  <2> QED BY <1>a, <1>b, <2>1
<1>9. ASSUME NEW u \in Tunnels, Connect(u)
      PROVE  Goal
  <2>1. sweep'.pc = "read" /\ sweep'.connect = u /\ sweep'.scope = {u}
    <3>1. sweep' = [NoSweep EXCEPT !.pc = "read", !.scope = {u}, !.connect = u]
      BY <1>9, Zenon DEF Connect
    <3> QED BY <1>a, <3>1, Zenon DEF SweepState
  <2> QED BY <2>1 DEF DeadKept, NothingPending, ClearedInv, Cleared
<1>10. ASSUME NEW u \in Tunnels, SettleRecord(u)
       PROVE  Goal
  <2>1. /\ record' = [record EXCEPT ![u] = NoCustody]
        /\ sweep' = [sweep EXCEPT !.dead = @ \ {u}]
        /\ sweep.pc = "restore"
        /\ pc' = pc
    BY <1>10, SettledEmpty, Zenon DEF SettleRecord
  <2>2. /\ sweep'.pc = sweep.pc /\ sweep'.connect = sweep.connect
        /\ sweep'.dead = sweep.dead \ {u} /\ sweep'.copy = sweep.copy
        /\ sweep'.pending = sweep.pending
    BY <1>a, <2>1, Zenon DEF SweepState
  <2>3. /\ record'[u] = NoCustody
        /\ \A t \in Tunnels : t # u => record'[t] = record[t]
        /\ sweep.dead \subseteq Tunnels
    BY <1>a, <2>1 DEF TypeOK, SweepState
  <2>4. DeadKept'
    BY <2>1, <2>2, <2>3 DEF DeadKept
  <2>5. NothingPending'
    BY <2>1, <2>2 DEF NothingPending
  <2>6. ClearedInv'
    BY <2>1, <2>2, <2>3 DEF ClearedInv, Cleared
  <2> QED BY <2>4, <2>5, <2>6
<1>11. ASSUME NEW e \in Entries, SweepServers(e) \/ SweepSearch(e)
       PROVE  Goal
  <2>1. /\ sweep.pc = "restore" /\ record' = record /\ pc' = pc
        /\ \/ sweep' = [sweep EXCEPT !.half = {e}]
           \/ sweep' = [sweep EXCEPT !.half = {}, !.todo = @ \ {e}]
    BY <1>11, Zenon DEF SweepServers, SweepSearch
  <2>2. /\ sweep'.pc = sweep.pc /\ sweep'.connect = sweep.connect
        /\ sweep'.dead = sweep.dead /\ sweep'.copy = sweep.copy
        /\ sweep'.pending = sweep.pending
    BY <1>a, <2>1, Zenon DEF SweepState
  <2> QED BY <1>k, <2>1, <2>2, Zenon
<1>12. ASSUME NEW e \in Entries, SweepRestoreFails(e)
       PROVE  Goal
  <2>1. Fails(e[2]) /\ e[2] \in Services
    BY <1>12, Zenon DEF SweepRestoreFails, Entries
  <2> QED BY <2>1, CalmWorks, Zenon
<1>13. ASSUME NEW s \in Services, ClearStray(s)
       PROVE  Goal
  <2>1. /\ sweep.pc = "restore" /\ record' = record /\ pc' = pc
        /\ sweep' = [sweep EXCEPT !.strays = @ \ {s}]
    BY <1>13, Zenon DEF ClearStray
  <2>2. /\ sweep'.pc = sweep.pc /\ sweep'.connect = sweep.connect
        /\ sweep'.dead = sweep.dead /\ sweep'.copy = sweep.copy
        /\ sweep'.pending = sweep.pending
    BY <1>a, <2>1, Zenon DEF SweepState
  <2> QED BY <1>k, <2>1, <2>2, Zenon
<1> QED
  BY <1>1, <1>2, <1>3, <1>4, <1>5, <1>6, <1>7, <1>8, <1>9, <1>10, <1>11, <1>12, <1>13,
     Zenon DEF DaemonStep

(* Together they are inductive.                                            *)
Settled == HandInv /\ DeadKept /\ NothingPending /\ ClearedInv

LEMMA SettledAlways ==
  ASSUME MaxFaults = 0, "location" \notin Changes
  PROVE  Spec => []Settled
<1>1. Init => Settled
  <2> SUFFICES ASSUME Init PROVE Settled
    OBVIOUS
  <2>1. sweep.pc = "idle" /\ sweep.connect = None
    BY DEF Init, NoSweep
  <2>2. HandInv
    BY DEF Init, HandInv, HandOK
  <2> QED BY <2>1, <2>2, CustodyAssumption DEF Settled, DeadKept, NothingPending, ClearedInv, Cleared
<1>2. TypeOK /\ Calm /\ PassInv /\ ConnectInv /\ Settled /\ [Next]_vars => Settled'
  <2> SUFFICES ASSUME TypeOK, Calm, PassInv, ConnectInv, Settled, [Next]_vars PROVE Settled'
    OBVIOUS
  <2> USE DEF Settled
  <2>1. ASSUME NEW t \in Tunnels, HelperStep(t) \/ Crash(t)
        PROVE  Settled'
    <3>1. HandOK(pc[t], job[t], saved[t], record[t])'
      BY <2>1, HandStep DEF PassInv, HandInv
    <3>2. /\ sweep' = sweep
          /\ \A u \in Tunnels : u # t => /\ pc'[u] = pc[u] /\ saved'[u] = saved[u]
                                         /\ job'[u] = job[u] /\ record'[u] = record[u]
      <4>1. \/ record' = record
            \/ record' = [record EXCEPT ![t] = Forget(saved[t], job[t].drop)]
        BY <2>1, HelperMemory, Zenon
      <4>2. \A u \in Tunnels : u # t => record'[u] = record[u]
        BY <4>1 DEF TypeOK
      <4> QED BY <2>1, <4>2, HelperMemory, OthersKept, Zenon
    <3>3. HandInv'
      BY <3>1, <3>2 DEF HandInv, HandOK
    <3>4. pc[t] # "down"
      BY <2>1, Zenon DEF HelperStep, Crash, Bind, Configure, SetupFails, Tick, Persist,
         PassDone, Stop, Capture, CaptureFails, ReleaseServers, ReleaseSearch,
         ReleaseFails, ApplyServers, ApplySearch, ApplyFails
    <3>5. DeadKept'
      <4>1. sweep.dead \subseteq Tunnels
        BY DEF TypeOK, SweepState
      <4> QED BY <3>2, <3>4, <4>1 DEF DeadKept
    <3>6. NothingPending'
      BY <3>2 DEF NothingPending
    <3>7. ClearedInv'
      BY <3>2, <3>4, CustodyAssumption DEF ClearedInv, Cleared, ConnectInv
    <3> QED BY <3>3, <3>5, <3>6, <3>7
  <2>2. ASSUME DaemonStep \/ DaemonDies
        PROVE  Settled'
    <3>1. DeadKept' /\ NothingPending' /\ ClearedInv'
      BY <2>2, DaemonSettles
    <3>2. ASSUME NEW t \in Tunnels
          PROVE  HandOK(pc[t], job[t], saved[t], record[t])'
      <4>1. /\ saved' = saved /\ job' = job
            /\ pc' = pc \/ (Spawn /\ pc' = [pc EXCEPT ![sweep.connect] = "spawned"])
        BY <2>2, DaemonHelpers
      <4>2. CASE Spawn
        <5>1. sweep.pc = "spawn" /\ record' = record
          BY <4>2, Zenon DEF Spawn
        <5>2. sweep.connect = t => record[t] = NoCustody
          BY <5>1 DEF ClearedInv, Cleared
        <5>3. sweep.connect # t => pc'[t] = pc[t]
          BY <4>1 DEF TypeOK
        <5>4. sweep.connect = t => pc'[t] \in {pc[t], "spawned"}
          BY <4>1 DEF TypeOK
        <5> QED BY <4>1, <5>1, <5>2, <5>3, <5>4 DEF HandInv, HandOK
      <4>3. CASE pc' = pc /\ record' = record
        BY <4>1, <4>3 DEF HandInv, HandOK
      <4>4. ASSUME NEW u \in Tunnels, SettleRecord(u)
            PROVE  HandOK(pc[t], job[t], saved[t], record[t])'
        <5>1. pc' = pc
          BY <4>4, Zenon DEF SettleRecord, daemonUnchanged, helperVars
        <5>2. pc[u] = "down" /\ record' = [record EXCEPT ![u] = NoCustody]
          BY <4>4, SettledEmpty
        <5>3. pc[t] = "down" \/ record'[t] = record[t]
          BY <5>2 DEF TypeOK
        <5> QED BY <4>1, <5>1, <5>3 DEF HandInv, HandOK
      <4> QED BY <2>2, <4>1, <4>2, <4>3, <4>4, RecordsKept, Zenon
    <3> QED BY <3>1, <3>2 DEF HandInv
  <2>3. CASE Environment \/ UNCHANGED vars
    <3>1. pc' = pc /\ saved' = saved /\ job' = job /\ record' = record /\ sweep' = sweep
      BY <2>3, Zenon DEF Environment, PrimaryChanges, LocationChanges, UserEdit, LanChanges,
                         vars, helperVars
    <3> QED BY <3>1 DEF HandInv, HandOK, DeadKept, NothingPending, ClearedInv, Cleared
  <2> QED BY <2>1, <2>2, <2>3, Zenon DEF Next
<1> QED BY <1>1, <1>2, TypeCorrect, StaysCalm, PassesInOrder, PTL DEF Spec

(* Write-ahead (configure_macos_dns, macos_reconcile_dns,                  *)
(* persist_dns_custody): from the moment a helper may write DNS until it   *)
(* next changes what it owns, its record on disk is exactly what it owns,  *)
(* so whoever sweeps after its death finds every original.  It takes that  *)
(* no call fails: a failed persist is only logged, and a service that      *)
(* could not be restored, or is not listed, stays in the record for a      *)
(* successor to overwrite.                                                 *)
THEOREM WriteAheadHolds ==
  ASSUME MaxFaults = 0, "location" \notin Changes
  PROVE  Spec => []OwnedIsRecorded
<1>1. Settled => OwnedIsRecorded
  BY DEF Settled, HandInv, HandOK, OwnedIsRecorded
<1> QED BY <1>1, SettledAlways, PTL
-----------------------------------------------------------------------------
(***************************************************************************)
(* The user's DNS servers are never lost, and a sweep is careful: for the  *)
(* supported case of one tunnel with DNS, while no call fails, services    *)
(* stay listed and the daemon does not die under a helper that has no      *)
(* socket yet.  A service that shows the tunnel's DNS is recorded, and     *)
(* what is kept of a service is what the user had set, so every value a    *)
(* service can show is either the user's or comes back from the record.    *)
(***************************************************************************)
ShownInv(t) ==
  \A s \in Services : live[s].servers = t =>
    record[t][s].held /\ (Alive(t) => saved[t][s] = record[t][s])

OriginalInv(t) ==
  \A s \in Services \ edited :
    /\ saved[t][s].held => saved[t][s].servers = orig[s].servers
    /\ record[t][s].held => record[t][s].servers = orig[s].servers
    /\ live[s].servers \in {orig[s].servers, t}

(* A pass captures what is not recorded and restores what is owned; what   *)
(* it has half restored shows the user's servers.                          *)
PlanInv(t) ==
  /\ job[t].drop = {}
  /\ pc[t] = "prepare" =>
       /\ \A s \in job[t].capture : ~record[t][s].held
       /\ job[t].restore \subseteq Owned(t)
       /\ \A s \in Services : job[t].half = s => live[s].servers # t

HomeInv(t) == ShownInv(t) /\ OriginalInv(t) /\ PlanInv(t)

(* A sweep restores all that shows the DNS of a dead helper, and finds no  *)
(* strays: what shows the tunnel's DNS is recorded.                        *)
RestoreInv ==
  /\ sweep.strays = {}
  /\ sweep.half \subseteq sweep.todo
  /\ sweep.pc # "restore" => sweep.todo = {}
  /\ \A e \in sweep.todo : e[1] \in sweep.dead /\ sweep.copy[e[1]][e[2]].held
  /\ sweep.pc = "restore" => \A t \in sweep.dead, s \in Services :
       live[s].servers = t => <<t, s>> \in sweep.todo \ sweep.half

StartInv(t) ==
  /\ pc[t] = "spawned" => sweep.pc = "wait" /\ sweep.connect = t
  /\ sweep.pc = "read" /\ sweep.fallback => t \in sweep.scope
  /\ sweep.pc = "snapshot" /\ sweep.fallback /\ t \notin sweep.alive =>
       pc[t] = "down" /\ (t \in sweep.dead \/ record[t] = NoCustody)

(* A write to one half of a service's settings shows in that half alone.   *)
LEMMA ServersAfter ==
  ASSUME TypeOK, NEW s \in Services
  PROVE  /\ \A l : SetServers(s, l) => /\ live'[s].servers = l
                                       /\ \A r \in Services : r # s => live'[r] = live[r]
         /\ \A d : SetSearch(s, d) => \A r \in Services : live'[r].servers = live[r].servers
<1>1. /\ DOMAIN live = Services
      /\ \A r \in Services : live[r] \in [servers : Lists, search : Domains, held : {TRUE}]
  BY DEF TypeOK, Config
<1>2. ASSUME NEW l, SetServers(s, l)
      PROVE  /\ live'[s].servers = l
             /\ \A r \in Services : r # s => live'[r] = live[r]
  BY <1>1, <1>2 DEF SetServers
<1>3. ASSUME NEW d, SetSearch(s, d)
      PROVE  \A r \in Services : live'[r].servers = live[r].servers
  BY <1>1, <1>3 DEF SetSearch
<1> QED BY <1>2, <1>3

(* While every service is listed, a plan drops none.                       *)
LEMMA NothingDropped ==
  ASSUME Calm, NEW t, NEW unread, NEW targets
  PROVE  PlanDnsActions(t, Snapshot(unread), Owned(t), targets).drop = {}
BY DEF PlanDnsActions, Snapshot, Owned, Held, Calm, AllListed

(* A helper's step keeps the plan of its pass sound.                       *)
LEMMA PlanStep ==
  ASSUME TypeOK, Calm, NEW t \in Tunnels, PassOK(pc[t], Owned(t), job[t]),
         HandOK(pc[t], job[t], saved[t], record[t]), NeverOwnDnsAsOriginal,
         PlanInv(t), HelperStep(t) \/ Crash(t)
  PROVE  PlanInv(t)'
<1>a. job[t] \in Job /\ NoJob \in Job
  BY JobOf, EmptyValues
<1>b. /\ NoJob.drop = {} /\ NoJob.capture = {} /\ NoJob.restore = {} /\ NoJob.half = None
      /\ None \notin Services
  BY CustodyAssumption DEF NoJob
<1>1. CASE Crash(t) \/ PassDone(t)
  <2>1. pc'[t] # "prepare" /\ job'[t] = NoJob
    BY <1>1, GotoGives, SetJobGives, Zenon DEF Crash, Exit, PassDone
  <2> QED BY <2>1, <1>b DEF PlanInv
<1>2. CASE Bind(t)
  <2>1. pc'[t] = "configure" /\ job'[t] = job[t]
    BY <1>2, GotoGives, Zenon DEF Bind
  <2> QED BY <2>1 DEF PlanInv
<1>3. CASE Configure(t)
  <2>1. PICK targets :
          SetJob(t, [NoJob EXCEPT !.capture = targets, !.apply = targets,
                                  !.acted = TRUE, !.booting = TRUE])
    BY <1>3, Zenon DEF Configure
  <2>2. /\ job'[t].drop = NoJob.drop /\ job'[t].restore = NoJob.restore
        /\ job'[t].half = NoJob.half
    <3>1. job'[t] = [NoJob EXCEPT !.capture = targets, !.apply = targets,
                                  !.acted = TRUE, !.booting = TRUE]
      BY <2>1, SetJobGives, Zenon
    <3> QED BY <3>1, <1>a, Zenon DEF Job
  <2>3. pc[t] = "configure" /\ record' = record
    BY <1>3, Zenon DEF Configure
  <2>4. job'[t].capture \subseteq Services
    <3>1. job' \in [Tunnels -> Job]
      BY <1>3, HelperTypes, Zenon DEF HelperStep, TypeOK
    <3> QED BY <3>1 DEF Job
  <2>5. \A s \in job'[t].capture : ~record'[t][s].held
    BY <2>3, <2>4 DEF HandOK, NoCustody, NotHeld
  <2> QED BY <2>2, <2>5, <1>b DEF PlanInv
<1>4. CASE SetupFails(t) \/ Stop(t)
  <2>1. /\ job'[t].drop = NoJob.drop /\ job'[t].capture = NoJob.capture
        /\ job'[t].half = NoJob.half /\ job'[t].restore \in {NoJob.restore, Owned(t)}
    <3>1. \/ job'[t] = [NoJob EXCEPT !.booting = TRUE, !.stopping = TRUE]
          \/ job'[t] = [NoJob EXCEPT !.stopping = TRUE, !.restore = Owned(t)]
      BY <1>4, SetJobGives, Zenon DEF SetupFails, Stop
    <3> QED BY <3>1, <1>a, Zenon DEF Job
  <2>2. saved' = saved
    BY <1>4, Zenon DEF SetupFails, Stop
  <2>3. Owned(t)' = Owned(t)
    BY <2>2, OwnedAfter
  <2> QED BY <2>1, <2>3, <1>b DEF PlanInv
<1>5. CASE Tick(t)
  <2> DEFINE plan(u) == PlanDnsActions(t, Snapshot(u), Owned(t),
                                       DnsDecision(Snapshot(u), collides[t]).targets)
  <2>1. PICK unread :
          SetJob(t, [NoJob EXCEPT !.capture = plan(unread).capture, !.apply = plan(unread).apply,
                                  !.restore = plan(unread).restore, !.drop = plan(unread).drop,
                                  !.changed = plan(unread).drop # {}])
    BY <1>5, Zenon DEF Tick
  <2> DEFINE p == plan(unread)
  <2>2. p.capture \cap Owned(t) = {} /\ p.restore \subseteq Owned(t)
    BY DEF PlanDnsActions
  <2>3. p.drop = {}
    BY NothingDropped
  <2>4. /\ job'[t].capture = p.capture /\ job'[t].restore = p.restore
        /\ job'[t].drop = p.drop /\ job'[t].half = NoJob.half
    <3>1. job'[t] = [NoJob EXCEPT !.capture = p.capture, !.apply = p.apply,
                                  !.restore = p.restore, !.drop = p.drop,
                                  !.changed = p.drop # {}]
      BY <2>1, SetJobGives, Zenon
    <3> HIDE DEF p
    <3> QED BY <3>1, <1>a, Zenon DEF Job
  <2>5. pc[t] = "run" /\ saved' = saved /\ record' = record
    BY <1>5, Zenon DEF Tick
  <2>6. record[t] = saved[t] /\ Owned(t)' = Owned(t)
    BY <2>5 DEF HandOK, Owned
  <2>7. job'[t].capture \subseteq Services
    <3>1. job' \in [Tunnels -> Job]
      BY <1>5, HelperTypes, Zenon DEF HelperStep, TypeOK
    <3> QED BY <3>1 DEF Job
  <2> HIDE DEF p
  <2>8. \A s \in job'[t].capture : ~record'[t][s].held
    BY <2>2, <2>4, <2>5, <2>6, <2>7 DEF Owned, Held
  <2> QED BY <2>2, <2>3, <2>4, <2>6, <2>8, <1>b DEF PlanInv
<1>6. CASE Persist(t)
  <2>1. pc'[t] # "prepare" /\ job'[t] \in {job[t], NoJob}
    BY <1>6, GotoGives, SetJobGives, Zenon DEF Persist, Exit
  <2> QED BY <2>1, <1>b DEF PlanInv
<1>7. ASSUME NEW s \in Services, Capture(t, s)
      PROVE  PlanInv(t)'
  <2>1. /\ job'[t].capture = job[t].capture \ {s} /\ job'[t].restore = job[t].restore
        /\ job'[t].drop = job[t].drop /\ job'[t].half = job[t].half
    <3>1. job'[t] = [job[t] EXCEPT !.capture = @ \ {s}, !.changed = TRUE]
      BY <1>7, SetJobGives, Zenon DEF Capture
    <3> QED BY <3>1, <1>a, Zenon DEF Job
  <2>2. /\ pc[t] = "prepare" /\ Owned(t)' = Owned(t) \cup {s}
        /\ live' = live /\ record' = record
    BY <1>7, OwnedAfter, Zenon DEF Capture
  <2> QED BY <2>1, <2>2 DEF PlanInv
<1>8. ASSUME NEW s \in Services, ReleaseServers(t, s)
      PROVE  PlanInv(t)'
  <2>1. /\ job'[t].capture = job[t].capture /\ job'[t].restore = job[t].restore
        /\ job'[t].drop = job[t].drop /\ job'[t].half = s
    <3>1. job'[t] = [job[t] EXCEPT !.half = s]
      BY <1>8, SetJobGives, Zenon DEF ReleaseServers
    <3> QED BY <3>1, <1>a, Zenon DEF Job
  <2>2. /\ pc[t] = "prepare" /\ Owned(t)' = Owned(t)
        /\ SetServers(s, saved[t][s].servers) /\ record' = record
    BY <1>8, OwnedAfter, Zenon DEF ReleaseServers
  <2>3. live'[s].servers # t
    BY <2>2, ServersAfter DEF NeverOwnDnsAsOriginal
  <2> QED BY <2>1, <2>2, <2>3 DEF PlanInv
<1>9. ASSUME NEW s \in Services, ReleaseSearch(t, s)
      PROVE  PlanInv(t)'
  <2>1. /\ job'[t].capture = job[t].capture /\ job'[t].restore = job[t].restore \ {s}
        /\ job'[t].drop = job[t].drop /\ job'[t].half = None
    <3>1. job'[t] = [job[t] EXCEPT !.half = None, !.restore = @ \ {s},
                                   !.changed = TRUE, !.acted = TRUE]
      BY <1>9, SetJobGives, Zenon DEF ReleaseSearch
    <3> QED BY <3>1, <1>a, Zenon DEF Job
  <2>2. pc[t] = "prepare" /\ Owned(t)' = Owned(t) \ {s} /\ record' = record
    BY <1>9, OwnedAfter, Zenon DEF ReleaseSearch
  <2> QED BY <2>1, <2>2, <1>b DEF PlanInv
<1>10. ASSUME NEW s \in Services, ApplyServers(t, s) \/ ApplySearch(t, s)
       PROVE  PlanInv(t)'
  <2>1. job'[t].drop = job[t].drop
    <3>1. \/ job'[t] = [job[t] EXCEPT !.half = s]
          \/ job'[t] = [job[t] EXCEPT !.half = None, !.apply = @ \ {s}, !.acted = TRUE]
      BY <1>10, SetJobGives, Zenon DEF ApplyServers, ApplySearch
    <3> QED BY <3>1, <1>a, Zenon DEF Job
  <2>2. pc'[t] = "apply"
    BY <1>10, Zenon DEF ApplyServers, ApplySearch
  <2> QED BY <2>1, <2>2 DEF PlanInv
<1>11. ASSUME NEW s \in Services, CaptureFails(t, s) \/ ReleaseFails(t, s) \/ ApplyFails(t, s)
       PROVE  FALSE
  BY <1>11, CalmWorks, Zenon DEF CaptureFails, ReleaseFails, ApplyFails
<1> QED
  BY <1>1, <1>2, <1>3, <1>4, <1>5, <1>6, <1>7, <1>8, <1>9, <1>10, <1>11, Zenon DEF HelperStep

(* A helper's step keeps what is shown recorded and what is kept original, *)
(* and no record of a service that shows the tunnel's DNS is touched.      *)
RecordsUntouched(t) ==
  \A s \in Services : record[t][s].held /\ live[s].servers = t => record'[t][s] = record[t][s]

LEMMA MemoryStep ==
  ASSUME TypeOK, Calm, NEW t \in Tunnels, Tunnels = {t}, PassOK(pc[t], Owned(t), job[t]),
         HandOK(pc[t], job[t], saved[t], record[t]), NeverOwnDnsAsOriginal,
         HomeInv(t), HelperStep(t) \/ Crash(t)
  PROVE  ShownInv(t)' /\ OriginalInv(t)' /\ RecordsUntouched(t)
<1> DEFINE Goal == ShownInv(t)' /\ OriginalInv(t)' /\ RecordsUntouched(t)
<1>a. /\ ShownInv(t) /\ OriginalInv(t) /\ PlanInv(t)
      /\ saved[t] \in Custody /\ record[t] \in Custody
      /\ None \notin Services
      /\ \A s \in Services : ~NoCustody[s].held
  BY CustodyAssumption DEF HomeInv, TypeOK, NoCustody, NotHeld
<1>b. Alive(t)' <=> pc'[t] \notin {"down", "spawned"}
  BY DEF Alive
<1>c. Alive(t) <=> pc[t] \notin {"down", "spawned"}
  BY DEF Alive
<1>m. ASSUME live' = live, orig' = orig, edited' = edited, record' = record,
             saved'[t] = saved[t] \/ (saved'[t] = NoCustody /\ pc'[t] = "down"),
             Alive(t)' => Alive(t) \/ record[t] = NoCustody
      PROVE  Goal
  <2>1. ShownInv(t)'
    BY <1>m, <1>a, <1>b DEF ShownInv
  <2>2. OriginalInv(t)'
    BY <1>m, <1>a DEF OriginalInv
  <2>3. RecordsUntouched(t)
    BY <1>m DEF RecordsUntouched
  <2> QED BY <2>1, <2>2, <2>3
<1>1. CASE Crash(t)
  <2>1. /\ live' = live /\ orig' = orig /\ edited' = edited /\ record' = record
        /\ pc'[t] = "down" /\ saved' = [saved EXCEPT ![t] = NoCustody]
    BY <1>1, GotoGives, Zenon DEF Crash, Exit, ghostVars
  <2>2. saved'[t] = NoCustody
    BY <2>1 DEF TypeOK
  <2> QED BY <1>b, <1>m, <2>1, <2>2
<1>2. CASE Bind(t)
  <2>1. /\ live' = live /\ orig' = orig /\ edited' = edited /\ record' = record /\ saved' = saved
        /\ pc[t] = "spawned"
    BY <1>2, Zenon DEF Bind, ghostVars
  <2>2. record[t] = NoCustody
    BY <2>1 DEF HandOK
  <2> QED BY <1>m, <2>1, <2>2, Zenon
<1>3. CASE Configure(t) \/ SetupFails(t) \/ Tick(t) \/ PassDone(t) \/ Stop(t)
  <2>1. /\ live' = live /\ orig' = orig /\ edited' = edited /\ record' = record /\ saved' = saved
        /\ pc[t] \in {"configure", "run", "apply"}
    <3>1. CASE Configure(t)
      BY <3>1, Zenon DEF Configure, ghostVars
    <3>2. CASE SetupFails(t)
      BY <3>2, Zenon DEF SetupFails, ghostVars
    <3>3. CASE Tick(t)
      BY <3>3, Zenon DEF Tick, ghostVars
    <3>4. CASE PassDone(t)
      BY <3>4, Zenon DEF PassDone, ghostVars
    <3>5. CASE Stop(t)
      BY <3>5, Zenon DEF Stop, ghostVars
    <3> QED BY <1>3, <3>1, <3>2, <3>3, <3>4, <3>5, Zenon
  <2>2. Alive(t)
    BY <1>c, <2>1
  <2> QED BY <1>m, <2>1, <2>2, Zenon
<1>4. CASE Persist(t)
  <2> DEFINE kept == Forget(saved[t], job[t].drop)
  <2>1. kept = saved[t]
    BY <1>a, ForgetExtremes DEF PlanInv
  <2>2. /\ pc[t] = "prepare" /\ live' = live /\ orig' = orig /\ edited' = edited
        /\ record' = record \/ record' = [record EXCEPT ![t] = kept]
        /\ \/ saved' = [saved EXCEPT ![t] = kept]
           \/ saved' = [saved EXCEPT ![t] = NoCustody] /\ pc'[t] = "down"
    BY <1>4, GotoGives, Zenon DEF Persist, Exit, ghostVars
  <2> HIDE DEF kept
  <2>3. /\ record'[t] = record[t] \/ record'[t] = saved[t]
        /\ saved'[t] = saved[t] \/ (saved'[t] = NoCustody /\ pc'[t] = "down")
    <3>1. saved[t] = kept /\ t \in Tunnels /\ DOMAIN saved = Tunnels /\ DOMAIN record = Tunnels
      BY <2>1 DEF TypeOK
    <3>2. record'[t] = record[t] \/ record'[t] = saved[t]
      BY <2>2, <3>1
    <3>3. saved'[t] = saved[t] \/ (saved'[t] = NoCustody /\ pc'[t] = "down")
      BY <2>2, <3>1
    <3> QED BY <3>2, <3>3
  <2>4. \A s \in Services : live[s].servers = t =>
                              /\ record[t][s].held /\ saved[t][s] = record[t][s]
                              /\ record'[t][s] = record[t][s]
    BY <1>a, <1>c, <2>2, <2>3 DEF ShownInv
  <2>5. ShownInv(t)'
    BY <1>b, <2>2, <2>3, <2>4 DEF ShownInv
  <2>6. OriginalInv(t)'
    BY <1>a, <2>2, <2>3 DEF OriginalInv
  <2>7. RecordsUntouched(t)
    BY <2>4 DEF RecordsUntouched
  <2> QED BY <2>5, <2>6, <2>7
<1>5. ASSUME NEW s \in Services, Capture(t, s)
      PROVE  Goal
  <2>1. /\ pc[t] = "prepare" /\ s \in job[t].capture
        /\ live' = live /\ record' = record /\ pc' = pc
        /\ saved' = [saved EXCEPT ![t][s] = CaptureOf(t, s)]
    BY <1>5, Zenon DEF Capture
  <2>2. ~saved[t][s].held /\ ~record[t][s].held
    BY <1>a, <2>1 DEF PlanInv, PassOK, Owned, Held
  <2>3. live[s].servers # t
    BY <1>a, <2>2 DEF ShownInv
  <2>4. orig' = [orig EXCEPT ![s] = live[s]] /\ edited' = edited \ {s}
    BY <1>5, <2>3 DEF Capture
  <2>5. CaptureOf(t, s) = live[s]
    BY <2>3 DEF CaptureOf
  <2>6. /\ saved'[t][s] = live[s]
        /\ orig'[s] = live[s]
        /\ \A r \in Services : r # s => saved'[t][r] = saved[t][r] /\ orig'[r] = orig[r]
    BY <2>1, <2>4, <2>5 DEF TypeOK, Custody
  <2>7. ShownInv(t)'
    BY <1>a, <1>b, <1>c, <2>1, <2>3, <2>6 DEF ShownInv
  <2>8. OriginalInv(t)'
    BY <1>a, <2>1, <2>2, <2>4, <2>6 DEF OriginalInv
  <2>9. RecordsUntouched(t)
    BY <2>1 DEF RecordsUntouched
  <2> QED BY <2>7, <2>8, <2>9
<1>6. ASSUME NEW s \in Services, ReleaseServers(t, s)
      PROVE  Goal
  <2>1. /\ pc[t] = "prepare" /\ s \in job[t].restore /\ SetServers(s, saved[t][s].servers)
        /\ record' = record /\ saved' = saved /\ pc' = pc
        /\ orig' = orig /\ edited' = edited
    BY <1>6, Zenon DEF ReleaseServers, ghostVars
  <2>2. /\ live'[s].servers = saved[t][s].servers
        /\ \A r \in Services : r # s => live'[r] = live[r]
    BY <2>1, ServersAfter
  <2>3. saved[t][s].held /\ saved[t][s].servers # t
    BY <1>a, <2>1 DEF PlanInv, Owned, Held, NeverOwnDnsAsOriginal
  <2>4. ShownInv(t)'
    BY <1>a, <1>b, <1>c, <2>1, <2>2, <2>3 DEF ShownInv
  <2>5. OriginalInv(t)'
    BY <1>a, <2>1, <2>2, <2>3 DEF OriginalInv
  <2>6. RecordsUntouched(t)
    BY <2>1 DEF RecordsUntouched
  <2> QED BY <2>4, <2>5, <2>6
<1>7. ASSUME NEW s \in Services, ReleaseSearch(t, s)
      PROVE  Goal
  <2>1. /\ pc[t] = "prepare" /\ job[t].half = s /\ SetSearch(s, saved[t][s].search)
        /\ record' = record /\ saved' = [saved EXCEPT ![t][s] = NotHeld] /\ pc' = pc
        /\ orig' = orig /\ edited' = edited
    BY <1>7, Zenon DEF ReleaseSearch, ghostVars
  <2>2. \A r \in Services : live'[r].servers = live[r].servers
    BY <2>1, ServersAfter
  <2>3. live[s].servers # t
    BY <1>a, <2>1 DEF PlanInv
  <2>4. /\ ~saved'[t][s].held
        /\ \A r \in Services : r # s => saved'[t][r] = saved[t][r]
    BY <2>1 DEF TypeOK, Custody, NotHeld
  <2>5. ShownInv(t)'
    BY <1>a, <1>b, <1>c, <2>1, <2>2, <2>3, <2>4 DEF ShownInv
  <2>6. OriginalInv(t)'
    BY <1>a, <2>1, <2>2, <2>4 DEF OriginalInv
  <2>7. RecordsUntouched(t)
    BY <2>1 DEF RecordsUntouched
  <2> QED BY <2>5, <2>6, <2>7
<1>8. ASSUME NEW s \in Services, ApplyServers(t, s)
      PROVE  Goal
  <2>1. /\ pc[t] = "apply" /\ s \in job[t].apply /\ SetServers(s, t)
        /\ record' = record /\ saved' = saved /\ pc' = pc
        /\ orig' = orig /\ edited' = edited
    BY <1>8, Zenon DEF ApplyServers, ghostVars
  <2>2. /\ live'[s].servers = t
        /\ \A r \in Services : r # s => live'[r] = live[r]
    BY <2>1, ServersAfter
  <2>3. saved[t][s].held /\ record[t] = saved[t]
    BY <2>1 DEF PassOK, HandOK, Owned, Held
  <2>4. ShownInv(t)'
    BY <1>a, <1>b, <1>c, <2>1, <2>2, <2>3 DEF ShownInv
  <2>5. OriginalInv(t)'
    BY <1>a, <2>1, <2>2, <2>3 DEF OriginalInv
  <2>6. RecordsUntouched(t)
    BY <2>1 DEF RecordsUntouched
  <2> QED BY <2>4, <2>5, <2>6
<1>9. ASSUME NEW s \in Services, ApplySearch(t, s)
      PROVE  Goal
  <2>1. /\ SetSearch(s, Empty)
        /\ record' = record /\ saved' = saved /\ pc' = pc
        /\ orig' = orig /\ edited' = edited
    BY <1>9, Zenon DEF ApplySearch, ghostVars
  <2>2. \A r \in Services : live'[r].servers = live[r].servers
    BY <2>1, ServersAfter
  <2>3. ShownInv(t)'
    BY <1>a, <1>b, <1>c, <2>1, <2>2 DEF ShownInv
  <2>4. OriginalInv(t)'
    BY <1>a, <2>1, <2>2 DEF OriginalInv
  <2>5. RecordsUntouched(t)
    BY <2>1 DEF RecordsUntouched
  <2> QED BY <2>3, <2>4, <2>5
<1>10. ASSUME NEW s \in Services, CaptureFails(t, s) \/ ReleaseFails(t, s) \/ ApplyFails(t, s)
       PROVE  FALSE
  BY <1>10, CalmWorks, Zenon DEF CaptureFails, ReleaseFails, ApplyFails
<1> QED
  BY <1>1, <1>2, <1>3, <1>4, <1>5, <1>6, <1>7, <1>8, <1>9, <1>10, Zenon DEF HelperStep

(* What a step of the daemon does to the settings and the record of the    *)
(* only tunnel: nothing, or one of the steps of a sweep, all of them while *)
(* its helper is down.                                                     *)
DaemonActs(t) ==
  \/ live' = live /\ record' = record
  \/ /\ pc[t] = "down" /\ pc' = pc /\ record' = record
     /\ \/ \E s \in Services : record[t][s].held /\ SetServers(s, record[t][s].servers)
        \/ \E s \in Services : \E d : SetSearch(s, d)
  \/ /\ pc[t] = "down" /\ pc' = pc /\ live' = live /\ record'[t] = NoCustody
     /\ \A s \in Services : live[s].servers # t

LEMMA DaemonDoes ==
  ASSUME TypeOK, Calm, NEW t \in Tunnels, Tunnels = {t}, DeadKept, NothingPending,
         RestoreInv, DaemonStep \/ DaemonDies
  PROVE  /\ DaemonActs(t)
         /\ saved' = saved /\ job' = job /\ orig' = orig /\ edited' = edited
         /\ pc' = pc \/ (Spawn /\ pc' = [pc EXCEPT ![sweep.connect] = "spawned"])
<1>0. /\ saved' = saved /\ job' = job
      /\ pc' = pc \/ (Spawn /\ pc' = [pc EXCEPT ![sweep.connect] = "spawned"])
  BY DaemonHelpers
<1>g. orig' = orig /\ edited' = edited
  BY Zenon DEF DaemonStep, SweepAll, SweepRead, SweepSnapshot, SnapshotFails, SweepDone, Spawn,
     HelperReported, SweepInterface, Connect, SettleRecord, SweepServers, SweepSearch,
     SweepRestoreFails, ClearStray, DaemonDies, daemonUnchanged, ghostVars
<1>d. \A e \in sweep.todo : e \in Entries
  BY DEF TypeOK, SweepState
<1>1. ASSUME NEW e \in Entries, SweepServers(e)
      PROVE  DaemonActs(t)
  <2>1. /\ sweep.pc = "restore" /\ e \in sweep.todo /\ pc' = pc /\ record' = record
        /\ SetServers(e[2], sweep.copy[e[1]][e[2]].servers)
    BY <1>1, Zenon DEF SweepServers, daemonUnchanged, helperVars
  <2>2. e[1] = t /\ e[2] \in Services
    BY DEF Entries
  <2>3. /\ t \in sweep.dead /\ sweep.copy[t][e[2]].held
        /\ pc[t] = "down" /\ sweep.copy[t] = record[t]
    BY <2>1, <2>2 DEF RestoreInv, DeadKept
  <2>4. record[t][e[2]].held /\ SetServers(e[2], record[t][e[2]].servers)
    BY <2>1, <2>2, <2>3
  <2> QED BY <2>1, <2>2, <2>3, <2>4, Zenon DEF DaemonActs
<1>2. ASSUME NEW e \in Entries, SweepSearch(e)
      PROVE  DaemonActs(t)
  <2>1. /\ sweep.pc = "restore" /\ e \in sweep.half /\ pc' = pc /\ record' = record
        /\ SetSearch(e[2], sweep.copy[e[1]][e[2]].search)
    BY <1>2, Zenon DEF SweepSearch, daemonUnchanged, helperVars
  <2>2. e[1] = t /\ e[2] \in Services
    BY DEF Entries
  <2>3. pc[t] = "down"
    BY <2>1, <2>2 DEF RestoreInv, DeadKept
  <2> QED BY <2>1, <2>2, <2>3, Zenon DEF DaemonActs
<1>3. ASSUME NEW u \in Tunnels, SettleRecord(u)
      PROVE  DaemonActs(t)
  <2>1. u = t
    OBVIOUS
  <2>2. /\ sweep.pc = "restore" /\ t \in sweep.dead /\ sweep.todo = {}
        /\ live' = live /\ pc' = pc
    BY <1>3, <2>1, Zenon DEF SettleRecord, daemonUnchanged, helperVars
  <2>3. pc[t] = "down" /\ record' = [record EXCEPT ![t] = NoCustody]
    BY <1>3, <2>1, SettledEmpty
  <2>4. \A s \in Services : live[s].servers # t
    BY <2>2 DEF RestoreInv
  <2>5. record'[t] = NoCustody
    BY <2>3 DEF TypeOK
  <2> QED BY <2>2, <2>3, <2>4, <2>5, Zenon DEF DaemonActs
<1>4. ASSUME NEW s \in Services, ClearStray(s)
      PROVE  FALSE
  BY <1>4 DEF ClearStray, RestoreInv
<1>5. ASSUME NEW e \in Entries, SweepRestoreFails(e)
      PROVE  FALSE
  <2>1. Fails(e[2]) /\ e[2] \in Services
    BY <1>5, Zenon DEF SweepRestoreFails, Entries
  <2> QED BY <2>1, CalmWorks, Zenon
<1>6. ASSUME \/ SweepAll \/ SweepRead \/ SweepSnapshot \/ SnapshotFails \/ SweepDone
             \/ Spawn \/ HelperReported \/ DaemonDies
             \/ \E u \in Tunnels : SweepInterface(u) \/ Connect(u)
      PROVE  DaemonActs(t)
  <2>1. live' = live /\ record' = record
    BY <1>6, Zenon DEF SweepAll, SweepRead, SweepSnapshot, SnapshotFails, SweepDone, Spawn,
       HelperReported, SweepInterface, Connect, DaemonDies
  <2> QED BY <2>1, Zenon DEF DaemonActs
<1>7. DaemonActs(t)
  BY <1>1, <1>2, <1>3, <1>4, <1>5, <1>6, Zenon DEF DaemonStep
<1> QED BY <1>0, <1>g, <1>7, Zenon

(* So the daemon keeps the promises about memory, records and settings,    *)
(* and touches nothing of a helper that is alive.                          *)
SparesLive(t) == Alive(t) => live' = live /\ record'[t] = record[t]

LEMMA DaemonHome ==
  ASSUME TypeOK, NEW t \in Tunnels, NeverOwnDnsAsOriginal, HomeInv(t), DaemonActs(t),
         saved' = saved, job' = job, orig' = orig, edited' = edited,
         pc' = pc \/ (Spawn /\ pc' = [pc EXCEPT ![sweep.connect] = "spawned"])
  PROVE  HomeInv(t)' /\ RecordsUntouched(t) /\ SparesLive(t)
<1>a. /\ ShownInv(t) /\ OriginalInv(t) /\ PlanInv(t)
      /\ \A s \in Services : ~NoCustody[s].held
  BY DEF HomeInv, NoCustody, NotHeld
<1>b. /\ Alive(t)' <=> pc'[t] \notin {"down", "spawned"}
      /\ Alive(t) <=> pc[t] \notin {"down", "spawned"}
      /\ Owned(t)' = Owned(t)
  BY DEF Alive, Owned
<1>c. pc'[t] = pc[t] \/ pc'[t] = "spawned"
  BY DEF TypeOK
<1>1. CASE live' = live /\ record' = record
  <2>1. ShownInv(t)'
    BY <1>1, <1>a, <1>b, <1>c DEF ShownInv
  <2>2. OriginalInv(t)'
    BY <1>1, <1>a DEF OriginalInv
  <2>3. PlanInv(t)'
    BY <1>1, <1>a, <1>b, <1>c DEF PlanInv
  <2> QED BY <1>1, <2>1, <2>2, <2>3 DEF HomeInv, RecordsUntouched, SparesLive
<1>2. ASSUME pc[t] = "down", pc' = pc, record' = record,
             NEW s \in Services, record[t][s].held, SetServers(s, record[t][s].servers)
      PROVE  HomeInv(t)' /\ RecordsUntouched(t) /\ SparesLive(t)
  <2>0. /\ live'[s].servers = record[t][s].servers /\ record[t][s].servers # t
        /\ \A r \in Services : r # s => live'[r] = live[r]
    BY <1>2, ServersAfter DEF NeverOwnDnsAsOriginal
  <2>1. ShownInv(t)'
    BY <1>2, <1>a, <1>b, <2>0 DEF ShownInv
  <2>2. OriginalInv(t)'
    BY <1>2, <1>a, <2>0 DEF OriginalInv
  <2>3. PlanInv(t)'
    BY <1>2, <1>a DEF PlanInv
  <2> QED BY <1>2, <1>b, <2>1, <2>2, <2>3 DEF HomeInv, RecordsUntouched, SparesLive
<1>3. ASSUME pc[t] = "down", pc' = pc, record' = record,
             NEW s \in Services, NEW d, SetSearch(s, d)
      PROVE  HomeInv(t)' /\ RecordsUntouched(t) /\ SparesLive(t)
  <2>0. \A r \in Services : live'[r].servers = live[r].servers
    BY <1>3, ServersAfter
  <2>1. ShownInv(t)'
    BY <1>3, <1>a, <1>b, <2>0 DEF ShownInv
  <2>2. OriginalInv(t)'
    BY <1>3, <1>a, <2>0 DEF OriginalInv
  <2>3. PlanInv(t)'
    BY <1>3, <1>a DEF PlanInv
  <2> QED BY <1>3, <1>b, <2>1, <2>2, <2>3 DEF HomeInv, RecordsUntouched, SparesLive
<1>4. CASE /\ pc[t] = "down" /\ pc' = pc /\ live' = live /\ record'[t] = NoCustody
           /\ \A s \in Services : live[s].servers # t
  <2>1. ShownInv(t)'
    BY <1>4 DEF ShownInv
  <2>2. OriginalInv(t)'
    BY <1>4, <1>a DEF OriginalInv
  <2>3. PlanInv(t)'
    BY <1>4, <1>a DEF PlanInv
  <2> QED BY <1>4, <1>b, <2>1, <2>2, <2>3 DEF HomeInv, RecordsUntouched, SparesLive
<1> QED BY <1>1, <1>2, <1>3, <1>4, Zenon DEF DaemonActs

(* A sweep takes up all that shows a dead helper's DNS, and restores it.   *)
LEMMA DaemonRestores ==
  ASSUME TypeOK, Calm, NEW t \in Tunnels, Tunnels = {t}, DeadKept, NeverOwnDnsAsOriginal,
         HomeInv(t), RestoreInv, StartInv(t), DaemonStep \/ DaemonDies
  PROVE  RestoreInv'
<1> USE DEF daemonUnchanged, helperVars
<1>a. sweep \in SweepState /\ NoSweep \in SweepState
  BY EmptyValues DEF TypeOK
<1>b. NoSweep.pc = "idle" /\ NoSweep.todo = {} /\ NoSweep.half = {} /\ NoSweep.strays = {}
  BY DEF NoSweep
<1>e. ASSUME sweep'.todo = {}, sweep'.half = {}, sweep'.strays = {}, sweep'.pc # "restore"
      PROVE  RestoreInv'
  BY <1>e DEF RestoreInv
<1>n. ASSUME SweepEnds
      PROVE  RestoreInv'
  <2>1. CASE sweep' = NoSweep
    BY <1>b, <1>e, <2>1
  <2>2. CASE sweep' = [NoSweep EXCEPT !.pc = "spawn", !.connect = sweep.connect]
    <3>1. /\ sweep'.pc = "spawn" /\ sweep'.todo = NoSweep.todo /\ sweep'.half = NoSweep.half
          /\ sweep'.strays = NoSweep.strays
      BY <1>a, <2>2, Zenon DEF SweepState
    <3> QED BY <1>b, <1>e, <3>1
  <2> QED BY <1>n, <2>1, <2>2, Zenon DEF SweepEnds
<1>1. CASE SweepAll \/ \E u \in Tunnels : SweepInterface(u) \/ Connect(u)
  <2>1. /\ sweep'.pc = "read" /\ sweep'.todo = NoSweep.todo /\ sweep'.half = NoSweep.half
        /\ sweep'.strays = NoSweep.strays
    <3>1. \/ sweep' = [NoSweep EXCEPT !.pc = "read", !.scope = Tunnels, !.fallback = TRUE]
          \/ \E u \in Tunnels : \/ sweep' = [NoSweep EXCEPT !.pc = "read", !.scope = {u}]
                                \/ sweep' = [NoSweep EXCEPT !.pc = "read", !.scope = {u},
                                                            !.connect = u]
      BY <1>1, Zenon DEF SweepAll, SweepInterface, Connect
    <3> QED BY <1>a, <3>1, Zenon DEF SweepState
  <2> QED BY <1>b, <1>e, <2>1
<1>2. CASE SweepRead
  <2> DEFINE found == {u \in sweep.scope : Recorded(u) # {}}
             dead  == {u \in found : ~Alive(u)}
             alive == {u \in Tunnels : Alive(u)}
             copy  == [u \in Tunnels |-> IF u \in found THEN record[u] ELSE NoCustody]
  <2>1. \/ SweepEnds
        \/ sweep' = [sweep EXCEPT !.pc = "snapshot", !.dead = dead, !.alive = alive,
                                  !.copy = copy]
    BY <1>2, Zenon DEF SweepRead
  <2>2. CASE sweep' = [sweep EXCEPT !.pc = "snapshot", !.dead = dead, !.alive = alive,
                                    !.copy = copy]
    <3>1. /\ sweep'.pc = "snapshot" /\ sweep'.todo = sweep.todo /\ sweep'.half = sweep.half
          /\ sweep'.strays = sweep.strays
      <4> HIDE DEF dead, alive, copy
      <4> QED BY <1>a, <2>2, Zenon DEF SweepState
    <3>2. sweep.pc = "read"
      BY <1>2, Zenon DEF SweepRead
    <3>3. sweep.todo = {} /\ sweep.half = {} /\ sweep.strays = {}
      BY <3>2 DEF RestoreInv
    <3> QED BY <1>e, <3>1, <3>3
  <2> QED BY <1>n, <2>1, <2>2, Zenon
<1>3. CASE SweepSnapshot
  <2> DEFINE entries == {e \in sweep.dead \X Services : e[2] \in Held(sweep.copy[e[1]])}
             shown   == [s \in Services |-> live[s].servers]
             todo    == SweepRestores(entries, present, shown)
             pending == SweepAbsent(entries, present)
             strays  == IF sweep.fallback
                        THEN SweepStrays(UNION {Held(sweep.copy[u]) : u \in Tunnels}, present,
                                         shown, Tunnels \ sweep.alive, sweep.alive)
                        ELSE {}
  <2>1. /\ sweep.pc = "snapshot" /\ live' = live /\ pc' = pc
        /\ sweep' = [sweep EXCEPT !.pc = "restore", !.todo = todo, !.pending = pending,
                                  !.strays = strays]
    BY <1>3, Zenon DEF SweepSnapshot
  <2>2. /\ sweep'.pc = "restore" /\ sweep'.todo = todo /\ sweep'.strays = strays
        /\ sweep'.half = sweep.half /\ sweep'.dead = sweep.dead /\ sweep'.copy = sweep.copy
    <3> HIDE DEF todo, pending, strays
    <3> QED BY <1>a, <2>1, Zenon DEF SweepState
  <2>3. sweep.half = {}
    BY <2>1 DEF RestoreInv
  <2>4. strays = {}
    <3> SUFFICES ASSUME sweep.fallback,
                        NEW s \in SweepStrays(UNION {Held(sweep.copy[u]) : u \in Tunnels},
                                    present, shown, Tunnels \ sweep.alive, sweep.alive)
                 PROVE  FALSE
      OBVIOUS
    <3>1. /\ s \in Services /\ s \notin Held(sweep.copy[t])
          /\ live[s].servers = t /\ t \notin sweep.alive
      BY DEF SweepStrays, Calm, AllListed
    <3>2. t \in sweep.dead \/ record[t] = NoCustody
      BY <2>1, <3>1 DEF StartInv
    <3>3. record[t][s].held
      BY <3>1 DEF HomeInv, ShownInv
    <3>4. sweep.copy[t] = record[t]
      <4>1. record[t] = NoCustody => ~record[t][s].held
        BY <3>1 DEF NoCustody, NotHeld
      <4>2. t \in sweep.dead
        BY <3>2, <3>3, <4>1
      <4> QED BY <2>1, <4>2 DEF DeadKept
    <3> QED BY <3>1, <3>3, <3>4 DEF Held
  <2>5. \A e \in todo : e[1] \in sweep.dead /\ sweep.copy[e[1]][e[2]].held
    BY DEF SweepRestores, Held
  <2>6. ASSUME NEW u \in sweep.dead, NEW s \in Services, live[s].servers = u
        PROVE  <<u, s>> \in todo
    <3>1. u = t
      BY <1>a DEF SweepState
    <3>2. record[u][s].held /\ sweep.copy[u] = record[u]
      BY <2>1, <2>6, <3>1 DEF HomeInv, ShownInv, DeadKept
    <3>3. s \in present /\ <<u, s>> \in entries
      BY <3>2 DEF Held, Calm, AllListed
    <3> QED BY <2>6, <3>3 DEF SweepRestores
  <2> HIDE DEF todo, strays
  <2> QED BY <2>1, <2>2, <2>3, <2>4, <2>5, <2>6 DEF RestoreInv
<1>4. CASE SnapshotFails \/ SweepDone
  BY <1>4, <1>n, Zenon DEF SnapshotFails, SweepDone
<1>5. CASE Spawn
  <2>1. sweep.pc = "spawn" /\ sweep' = [sweep EXCEPT !.pc = "wait"]
    BY <1>5, Zenon DEF Spawn
  <2>2. /\ sweep'.pc = "wait" /\ sweep'.todo = sweep.todo /\ sweep'.half = sweep.half
        /\ sweep'.strays = sweep.strays
    BY <1>a, <2>1, Zenon DEF SweepState
  <2>3. sweep.todo = {} /\ sweep.half = {} /\ sweep.strays = {}
    BY <2>1 DEF RestoreInv
  <2> QED BY <1>e, <2>2, <2>3
<1>6. CASE HelperReported \/ DaemonDies
  <2>1. sweep' = NoSweep
    BY <1>6, Zenon DEF HelperReported, DaemonDies
  <2> QED BY <1>b, <1>e, <2>1
<1>7. ASSUME NEW e \in Entries, SweepServers(e)
      PROVE  RestoreInv'
  <2>1. /\ sweep.pc = "restore" /\ e \in sweep.todo /\ sweep.half = {}
        /\ SetServers(e[2], sweep.copy[e[1]][e[2]].servers)
        /\ sweep' = [sweep EXCEPT !.half = {e}]
    BY <1>7, Zenon DEF SweepServers
  <2>2. /\ sweep'.pc = sweep.pc /\ sweep'.todo = sweep.todo /\ sweep'.half = {e}
        /\ sweep'.strays = sweep.strays /\ sweep'.dead = sweep.dead /\ sweep'.copy = sweep.copy
    BY <1>a, <2>1, Zenon DEF SweepState
  <2>3. e = <<e[1], e[2]>> /\ e[1] = t /\ e[2] \in Services
    BY DEF Entries
  <2>4. /\ live'[e[2]].servers # t
        /\ \A s \in Services : s # e[2] => live'[s] = live[s]
    <3>1. sweep.copy[t] = record[t]
      BY <2>1, <2>3 DEF RestoreInv, DeadKept
    <3> QED BY <2>1, <2>3, <3>1, ServersAfter DEF NeverOwnDnsAsOriginal
  <2>5. sweep.dead \subseteq {t}
    BY <1>a DEF SweepState
  <2>6. ASSUME NEW u \in sweep'.dead, NEW s \in Services, live'[s].servers = u
        PROVE  <<u, s>> \in sweep'.todo \ sweep'.half
    <3>1. u = t /\ s # e[2] /\ live[s].servers = u /\ u \in sweep.dead
      BY <2>2, <2>4, <2>5, <2>6
    <3>2. <<u, s>> \in sweep.todo
      BY <2>1, <3>1 DEF RestoreInv
    <3>3. <<u, s>> # e
      BY <2>3, <3>1
    <3> QED BY <2>2, <3>2, <3>3
  <2> QED BY <2>1, <2>2, <2>6 DEF RestoreInv
<1>8. ASSUME NEW e \in Entries, SweepSearch(e)
      PROVE  RestoreInv'
  <2>1. /\ sweep.pc = "restore" /\ e \in sweep.half /\ e[2] \in Services
        /\ SetSearch(e[2], sweep.copy[e[1]][e[2]].search)
        /\ sweep' = [sweep EXCEPT !.half = {}, !.todo = @ \ {e}]
    BY <1>8, Zenon DEF SweepSearch, Entries
  <2>2. /\ sweep'.pc = sweep.pc /\ sweep'.todo = sweep.todo \ {e} /\ sweep'.half = {}
        /\ sweep'.strays = sweep.strays /\ sweep'.dead = sweep.dead /\ sweep'.copy = sweep.copy
    BY <1>a, <2>1, Zenon DEF SweepState
  <2>3. \A s \in Services : live'[s].servers = live[s].servers
    BY <2>1, ServersAfter
  <2> QED BY <2>1, <2>2, <2>3 DEF RestoreInv
<1>9. ASSUME NEW u \in Tunnels, SettleRecord(u)
      PROVE  RestoreInv'
  <2>1. /\ sweep.pc = "restore" /\ sweep.todo = {} /\ live' = live
        /\ sweep' = [sweep EXCEPT !.dead = @ \ {u}]
    BY <1>9, Zenon DEF SettleRecord
  <2>2. /\ sweep'.pc = sweep.pc /\ sweep'.todo = sweep.todo /\ sweep'.half = sweep.half
        /\ sweep'.strays = sweep.strays /\ sweep'.dead = sweep.dead \ {u}
        /\ sweep'.copy = sweep.copy
    BY <1>a, <2>1, Zenon DEF SweepState
  <2> QED BY <2>1, <2>2 DEF RestoreInv
<1>10. ASSUME NEW s \in Services, ClearStray(s)
       PROVE  FALSE
  BY <1>10 DEF ClearStray, RestoreInv
<1>11. ASSUME NEW e \in Entries, SweepRestoreFails(e)
       PROVE  FALSE
  <2>1. Fails(e[2]) /\ e[2] \in Services
    BY <1>11, Zenon DEF SweepRestoreFails, Entries
  <2> QED BY <2>1, CalmWorks, Zenon
<1> QED
  BY <1>1, <1>2, <1>3, <1>4, <1>5, <1>6, <1>7, <1>8, <1>9, <1>10, <1>11, Zenon DEF DaemonStep

(* While the daemon does not die under a helper that has no socket yet,    *)
(* whoever has no socket is down, unless its connect holds the lock.       *)
LEMMA DaemonStarts ==
  ASSUME TypeOK, NEW t \in Tunnels, Tunnels = {t}, "orphan" \notin Changes,
         StartInv(t), DaemonStep \/ DaemonDies
  PROVE  StartInv(t)'
<1> USE DEF daemonUnchanged, helperVars
<1>a. sweep \in SweepState /\ NoSweep \in SweepState
  BY EmptyValues DEF TypeOK
<1>b. NoSweep.pc = "idle" /\ NoSweep.fallback = FALSE
  BY DEF NoSweep
<1>1. CASE Spawn
  <2>1. /\ sweep.pc = "spawn" /\ pc' = [pc EXCEPT ![sweep.connect] = "spawned"]
        /\ sweep' = [sweep EXCEPT !.pc = "wait"]
    BY <1>1, Zenon DEF Spawn, Goto
  <2>2. sweep'.pc = "wait" /\ sweep'.connect = sweep.connect
    BY <1>a, <2>1, Zenon DEF SweepState
  <2>3. pc'[t] = "spawned" => sweep.connect = t
    BY <2>1 DEF TypeOK, StartInv
  <2> QED BY <2>2, <2>3 DEF StartInv
<1>d. ASSUME ~Spawn
      PROVE  pc'[t] # "spawned" /\ pc' = pc
  <2>1. pc' = pc
    BY <1>d, DaemonHelpers
  <2>2. ASSUME pc[t] = "spawned"
        PROVE  FALSE
    <3>1. sweep.pc = "wait" /\ sweep.connect = t
      BY <2>2 DEF StartInv
    <3>2. CASE HelperReported
      BY <2>2, <3>1, <3>2, Zenon DEF HelperReported
    <3>3. CASE DaemonDies
      BY <2>2, <3>1, <3>3, Zenon DEF DaemonDies
    <3>4. CASE DaemonStep /\ ~HelperReported
      <4>1. \/ sweep.pc = "idle" \/ sweep.pc = "read" \/ sweep.pc = "snapshot"
            \/ sweep.pc = "restore"
        BY <1>d, <3>4, Zenon DEF DaemonStep, SweepAll, SweepRead, SweepSnapshot, SnapshotFails,
           SweepDone, SweepInterface, Connect, SettleRecord, SweepServers, SweepSearch,
           SweepRestoreFails, ClearStray
      <4> QED BY <3>1, <4>1
    <3> QED BY <3>2, <3>3, <3>4
  <2> QED BY <2>1, <2>2
<1>e. ASSUME ~Spawn, sweep'.pc \notin {"read", "snapshot"}
      PROVE  StartInv(t)'
  BY <1>d, <1>e DEF StartInv
<1>f. ASSUME ~Spawn, sweep'.pc = "read", ~sweep'.fallback \/ t \in sweep'.scope
      PROVE  StartInv(t)'
  BY <1>d, <1>f DEF StartInv
<1>n. ASSUME SweepEnds
      PROVE  sweep'.pc \notin {"read", "snapshot"}
  <2>1. CASE sweep' = NoSweep
    BY <1>b, <2>1
  <2>2. CASE sweep' = [NoSweep EXCEPT !.pc = "spawn", !.connect = sweep.connect]
    <3>1. sweep'.pc = "spawn"
      BY <1>a, <2>2, Zenon DEF SweepState
    <3> QED BY <3>1
  <2> QED BY <1>n, <2>1, <2>2, Zenon DEF SweepEnds
<1>2. CASE SweepAll /\ ~Spawn
  <2>1. sweep' = [NoSweep EXCEPT !.pc = "read", !.scope = Tunnels, !.fallback = TRUE]
    BY <1>2, Zenon DEF SweepAll
  <2>2. sweep'.pc = "read" /\ sweep'.scope = Tunnels
    BY <1>a, <2>1, Zenon DEF SweepState
  <2> QED BY <1>2, <1>f, <2>2
<1>3. ASSUME NEW u \in Tunnels, SweepInterface(u) \/ Connect(u), ~Spawn
      PROVE  StartInv(t)'
  <2>1. sweep'.pc = "read" /\ sweep'.fallback = NoSweep.fallback
    <3>1. \/ sweep' = [NoSweep EXCEPT !.pc = "read", !.scope = {u}]
          \/ sweep' = [NoSweep EXCEPT !.pc = "read", !.scope = {u}, !.connect = u]
      BY <1>3, Zenon DEF SweepInterface, Connect
    <3> QED BY <1>a, <3>1, Zenon DEF SweepState
  <2> QED BY <1>3, <1>b, <1>f, <2>1
<1>4. CASE SweepRead /\ ~Spawn
  <2> DEFINE found == {u \in sweep.scope : Recorded(u) # {}}
             dead  == {u \in found : ~Alive(u)}
             alive == {u \in Tunnels : Alive(u)}
             copy  == [u \in Tunnels |-> IF u \in found THEN record[u] ELSE NoCustody]
  <2>1. /\ sweep.pc = "read" /\ record' = record
        /\ \/ SweepEnds
           \/ sweep' = [sweep EXCEPT !.pc = "snapshot", !.dead = dead, !.alive = alive,
                                     !.copy = copy]
    BY <1>4, Zenon DEF SweepRead
  <2>2. CASE SweepEnds
    BY <1>4, <1>e, <1>n, <2>2
  <2>3. CASE sweep' = [sweep EXCEPT !.pc = "snapshot", !.dead = dead, !.alive = alive,
                                    !.copy = copy]
    <3>1. /\ sweep'.pc = "snapshot" /\ sweep'.dead = dead /\ sweep'.alive = alive
          /\ sweep'.fallback = sweep.fallback
      <4> HIDE DEF dead, alive, copy
      <4> QED BY <1>a, <2>3, Zenon DEF SweepState
    <3>2. pc'[t] # "spawned" /\ pc' = pc
      BY <1>4, <1>d
    <3>3. ASSUME sweep.fallback, t \notin alive
          PROVE  pc[t] = "down" /\ (t \in dead \/ record[t] = NoCustody)
      <4>1. ~Alive(t) /\ pc[t] = "down"
        BY <3>2, <3>3 DEF Alive
      <4>2. t \in sweep.scope
        BY <2>1, <3>3 DEF StartInv
      <4>3. Recorded(t) = {} => record[t] = NoCustody
        BY NothingHeld DEF TypeOK, Recorded
      <4> QED BY <4>1, <4>2, <4>3
    <3> HIDE DEF dead, alive
    <3> QED BY <2>1, <3>1, <3>2, <3>3 DEF StartInv
  <2> QED BY <2>1, <2>2, <2>3, Zenon
<1>5. CASE (SnapshotFails \/ SweepDone) /\ ~Spawn
  BY <1>5, <1>e, <1>n, Zenon DEF SnapshotFails, SweepDone
<1>6. CASE (HelperReported \/ DaemonDies) /\ ~Spawn
  <2>1. sweep' = NoSweep
    BY <1>6, Zenon DEF HelperReported, DaemonDies
  <2> QED BY <1>6, <1>b, <1>e, <2>1
<1>7. CASE SweepSnapshot /\ ~Spawn
  <2>1. \E todo, pending, strays :
          sweep' = [sweep EXCEPT !.pc = "restore", !.todo = todo, !.pending = pending,
                                 !.strays = strays]
    BY <1>7, Zenon DEF SweepSnapshot
  <2>2. sweep'.pc = "restore"
    BY <1>a, <2>1, Zenon DEF SweepState
  <2> QED BY <1>7, <1>e, <2>2
<1>8. ASSUME ~Spawn,
             \/ \E u \in Tunnels : SettleRecord(u)
             \/ \E e \in Entries : SweepServers(e) \/ SweepSearch(e) \/ SweepRestoreFails(e)
             \/ \E s \in Services : ClearStray(s)
      PROVE  StartInv(t)'
  <2>1. /\ sweep.pc = "restore"
        /\ \/ \E D : sweep' = [sweep EXCEPT !.dead = D]
           \/ \E H : sweep' = [sweep EXCEPT !.half = H]
           \/ \E H, D : sweep' = [sweep EXCEPT !.half = H, !.todo = D]
           \/ \E H, D, P : sweep' = [sweep EXCEPT !.half = H, !.todo = D, !.pending = P]
           \/ \E S : sweep' = [sweep EXCEPT !.strays = S]
    BY <1>8, Zenon DEF SettleRecord, SweepServers, SweepSearch, SweepRestoreFails, ClearStray
  <2>2. sweep'.pc = "restore"
    BY <1>a, <2>1, Zenon DEF SweepState
  <2> QED BY <1>8, <1>e, <2>2
<1> QED
  BY <1>1, <1>2, <1>3, <1>4, <1>5, <1>6, <1>7, <1>8, Zenon DEF DaemonStep

(* What happens around them touches no record and shows no tunnel's DNS.   *)
LEMMA EnvironmentHome ==
  ASSUME TypeOK, NEW t \in Tunnels, HomeInv(t), RestoreInv, StartInv(t),
         Environment \/ UNCHANGED vars
  PROVE  /\ HomeInv(t)' /\ RestoreInv' /\ StartInv(t)' /\ RecordsUntouched(t)
         /\ sweep' = sweep
<1>0. pc' = pc /\ saved' = saved /\ job' = job /\ record' = record /\ sweep' = sweep
  BY Zenon DEF Environment, PrimaryChanges, LocationChanges, UserEdit, LanChanges,
               vars, helperVars
<1>a. /\ ShownInv(t) /\ OriginalInv(t) /\ PlanInv(t)
      /\ (Alive(t)' <=> Alive(t)) /\ Owned(t)' = Owned(t)
  BY <1>0 DEF HomeInv, Alive, Owned
<1>1. ASSUME NEW s \in Services, UserEdit(s)
      PROVE  HomeInv(t)' /\ RestoreInv'
  <2>1. PICK list \in UserDns \cup {Empty}, domains \in Domains :
          live' = [live EXCEPT ![s] = [servers |-> list, search |-> domains, held |-> TRUE]]
    BY <1>1, Zenon DEF UserEdit
  <2>2. /\ live'[s].servers \notin Tunnels
        /\ \A r \in Services : r # s => live'[r] = live[r]
    BY <2>1, CustodyAssumption DEF TypeOK
  <2>3. /\ \A r \in Services : r # s /\ r \notin edited' => r \notin edited /\ orig'[r] = orig[r]
        /\ s \notin edited' => /\ orig'[s] = live'[s]
                               /\ ~saved[t][s].held /\ ~record[t][s].held
    <3>1. CASE InCustody(s)
      BY <1>1, <3>1 DEF UserEdit
    <3>2. CASE ~InCustody(s)
      <4>1. edited' = edited \ {s} /\ orig' = [orig EXCEPT ![s] = live'[s]]
        BY <1>1, <3>2 DEF UserEdit
      <4>2. ~saved[t][s].held /\ ~record[t][s].held
        BY <3>2 DEF InCustody, Owned, Recorded, Held
      <4> QED BY <4>1, <4>2 DEF TypeOK
    <3> QED BY <3>1, <3>2
  <2>4. ShownInv(t)'
    BY <1>0, <1>a, <2>2 DEF ShownInv
  <2>5. OriginalInv(t)'
    BY <1>0, <1>a, <2>2, <2>3 DEF OriginalInv
  <2>6. PlanInv(t)'
    BY <1>0, <1>a, <2>2 DEF PlanInv
  <2>7. RestoreInv'
    <3>1. sweep.dead \subseteq Tunnels
      BY DEF TypeOK, SweepState
    <3> QED BY <1>0, <2>2, <3>1 DEF RestoreInv
  <2> QED BY <2>4, <2>5, <2>6, <2>7 DEF HomeInv
<1>2. CASE \/ PrimaryChanges \/ LocationChanges \/ (\E u \in Tunnels : LanChanges(u))
           \/ UNCHANGED vars
  <2>1. live' = live /\ orig' = orig /\ edited' = edited
    BY <1>2, Zenon DEF PrimaryChanges, LocationChanges, LanChanges, vars, ghostVars
  <2>2. HomeInv(t)'
    BY <1>0, <1>a, <2>1 DEF HomeInv, ShownInv, OriginalInv, PlanInv
  <2>3. RestoreInv'
    BY <1>0, <2>1 DEF RestoreInv
  <2>4. StartInv(t)'
    BY <1>0 DEF StartInv
  <2> QED BY <1>0, <2>2, <2>3, <2>4 DEF RecordsUntouched
<1>3. StartInv(t)' /\ RecordsUntouched(t)
  BY <1>0 DEF StartInv, RecordsUntouched
<1> QED BY <1>0, <1>1, <1>2, <1>3, Zenon DEF Environment

(* The invariant, and what each step leaves untouched.                     *)
Home == RestoreInv /\ \A t \in Tunnels : HomeInv(t) /\ StartInv(t)

LEMMA HomeStep ==
  ASSUME NEW T, Tunnels = {T}, "orphan" \notin Changes,
         TypeOK, Calm, PassInv, ConnectInv, Settled, NeverOwnDnsAsOriginal, Home, [Next]_vars
  PROVE  /\ Home'
         /\ \A t \in Tunnels : RecordsUntouched(t) /\ (sweep' # sweep => SparesLive(t))
<1>a. /\ T \in Tunnels /\ HomeInv(T) /\ StartInv(T) /\ RestoreInv
      /\ PassOK(pc[T], Owned(T), job[T]) /\ HandOK(pc[T], job[T], saved[T], record[T])
      /\ DeadKept /\ NothingPending
  BY DEF Home, PassInv, Settled, HandInv
<1> SUFFICES /\ HomeInv(T)' /\ StartInv(T)' /\ RestoreInv'
             /\ RecordsUntouched(T) /\ (sweep' # sweep => SparesLive(T))
  BY DEF Home
<1>1. CASE HelperStep(T) \/ Crash(T)
  <2>1. HomeInv(T)' /\ RecordsUntouched(T)
    BY <1>1, <1>a, PlanStep, MemoryStep DEF HomeInv
  <2>2. /\ pc[T] # "down"
        /\ pc'[T] # "spawned"
        /\ sweep' = sweep
    <3>1. pc[T] # "down"
      BY <1>1, Zenon DEF HelperStep, Crash, Bind, Configure, SetupFails, Tick, Persist,
         PassDone, Stop, Capture, CaptureFails, ReleaseServers, ReleaseSearch,
         ReleaseFails, ApplyServers, ApplySearch, ApplyFails
    <3>2. \/ pc' = pc /\ pc[T] # "spawned"
          \/ \E place \in {"down", "configure", "prepare", "apply", "run"} : Goto(T, place)
      BY <1>1, Zenon DEF HelperStep, Crash, Exit, Bind, Configure, SetupFails, Tick, Persist,
         PassDone, Stop, Capture, CaptureFails, Rollback, ReleaseServers, ReleaseSearch,
         ReleaseFails, ApplyServers, ApplySearch, ApplyFails
    <3> QED BY <1>1, <1>a, <3>1, <3>2, GotoGives, HelperMemory
  <2>3. RestoreInv'
    <3>1. sweep.pc = "restore" => sweep.dead = {}
      BY <1>a, <2>2 DEF DeadKept, TypeOK, SweepState
    <3> QED BY <1>a, <2>2, <3>1 DEF RestoreInv
  <2>4. StartInv(T)'
    BY <1>a, <2>2 DEF StartInv
  <2> QED BY <2>1, <2>2, <2>3, <2>4
<1>2. CASE DaemonStep \/ DaemonDies
  <2>1. HomeInv(T)' /\ RecordsUntouched(T) /\ SparesLive(T)
    BY <1>2, <1>a, DaemonDoes, DaemonHome, Zenon
  <2>2. RestoreInv'
    BY <1>2, <1>a, DaemonRestores
  <2>3. StartInv(T)'
    BY <1>2, <1>a, DaemonStarts
  <2> QED BY <2>1, <2>2, <2>3
<1>3. CASE Environment \/ UNCHANGED vars
  BY <1>3, <1>a, EnvironmentHome, Zenon
<1>4. (\E t \in Tunnels : HelperStep(t) \/ Crash(t)) => HelperStep(T) \/ Crash(T)
  OBVIOUS
<1> QED BY <1>1, <1>2, <1>3, <1>4, Zenon DEF Next

LEMMA HomeAlways ==
  ASSUME NEW T, Tunnels = {T}, MaxFaults = 0, "location" \notin Changes, "orphan" \notin Changes
  PROVE  Spec => []Home
<1>1. Init => Home
  <2> SUFFICES ASSUME Init, NEW t \in Tunnels
               PROVE  RestoreInv /\ HomeInv(t) /\ StartInv(t)
    BY Zenon DEF Home
  <2>1. /\ sweep.pc = "idle" /\ sweep.strays = {} /\ sweep.half = {} /\ sweep.todo = {}
    BY DEF Init, NoSweep
  <2>2. /\ pc[t] = "down" /\ job[t].drop = {}
        /\ \A s \in Services : ~saved[t][s].held /\ ~record[t][s].held
    BY DEF Init, NoJob, NoCustody, NotHeld
  <2>3. ASSUME NEW s \in Services
        PROVE  live[s].servers # t
    <3>1. \/ live[s] = EmptyConfig
          \/ live[s] \in [servers : UserDns, search : Domains, held : {TRUE}]
      BY DEF Init
    <3>2. CASE live[s] = EmptyConfig
      BY <3>2, CustodyAssumption DEF EmptyConfig
    <3>3. ASSUME NEW c \in [servers : UserDns, search : Domains, held : {TRUE}], live[s] = c
          PROVE  live[s].servers # t
      <4>1. c.servers \in UserDns
        OBVIOUS
      <4> QED BY <3>3, <4>1, CustodyAssumption
    <3> QED BY <3>1, <3>2, <3>3
  <2>4. orig = live
    BY DEF Init
  <2> QED BY <2>1, <2>2, <2>3, <2>4 DEF RestoreInv, HomeInv, ShownInv, OriginalInv, PlanInv, StartInv
<1>2. TypeOK /\ Calm /\ PassInv /\ ConnectInv /\ Settled /\ NeverOwnDnsAsOriginal /\ Home
        /\ [Next]_vars => Home'
  BY HomeStep
<1> QED BY <1>1, <1>2, TypeCorrect, StaysCalm, PassesInOrder, SettledAlways, OwnDnsNeverOriginal,
           PTL DEF Spec

(* issues/dns-crash-recovery.md, Goals: whatever dies at whatever point,   *)
(* the DNS servers a user had set on a service are set still, or are on    *)
(* record for a restore.  This is for one tunnel with DNS, the case the    *)
(* code supports, while no call fails, all services stay listed and the    *)
(* daemon does not die under a helper that has no socket yet; without any  *)
(* of these the code can lose them.                                        *)
THEOREM UserServersKept ==
  ASSUME NEW T, Tunnels = {T}, MaxFaults = 0, "location" \notin Changes, "orphan" \notin Changes
  PROVE  Spec => []ServersRecoverable
<1>1. Home => ServersRecoverable
  <2> SUFFICES ASSUME Home, NEW s \in Services, s \notin edited,
                      live[s].servers # orig[s].servers
               PROVE  Recovers(T, s)
    BY Zenon DEF ServersRecoverable
  <2>1. ShownInv(T) /\ OriginalInv(T)
    BY DEF Home, HomeInv
  <2>2. live[s].servers = T
    BY <2>1 DEF OriginalInv
  <2>3. record[T][s].held /\ record[T][s].servers = orig[s].servers
    BY <2>1, <2>2 DEF ShownInv, OriginalInv
  <2> QED BY <2>2, <2>3 DEF Recovers
<1> QED BY <1>1, HomeAlways, PTL

(* plan_dns_sweep and execute: under the same conditions no sweep touches  *)
(* the settings or the record of a live helper, and nobody gives up or     *)
(* replaces a recorded original while the service shows the tunnel's DNS.  *)
THEOREM SweepsTakeCare ==
  ASSUME NEW T, Tunnels = {T}, MaxFaults = 0, "location" \notin Changes, "orphan" \notin Changes
  PROVE  Spec => SweepIsCareful
<1> DEFINE Inv == TypeOK /\ Calm /\ PassInv /\ ConnectInv /\ Settled /\ NeverOwnDnsAsOriginal
                  /\ Home
<1>1. Inv /\ [Next]_vars =>
        [\A t \in Tunnels, s \in Services :
           sweep' # sweep /\ Alive(t) /\ s \in Owned(t) /\ live[s].servers = t
             => live'[s] = live[s]]_vars
  BY HomeStep DEF SparesLive
<1>2. Inv /\ [Next]_vars =>
        [\A t \in Tunnels : sweep' # sweep /\ Alive(t) => record'[t] = record[t]]_vars
  BY HomeStep DEF SparesLive
<1>3. Inv /\ [Next]_vars =>
        [\A t \in Tunnels, s \in Services :
           record[t][s].held /\ live[s].servers = t => record'[t][s] = record[t][s]]_vars
  BY HomeStep DEF RecordsUntouched
<1>4. Spec => []Inv
  BY TypeCorrect, StaysCalm, PassesInOrder, SettledAlways, OwnDnsNeverOriginal, HomeAlways, PTL
<1> HIDE DEF Inv
<1> QED BY <1>1, <1>2, <1>3, <1>4, PTL
        DEF Spec, SweepIsCareful, RecoverySparesLive, LiveRecordKept, RecordKeptUntilRestored
=============================================================================
