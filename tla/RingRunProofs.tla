---------------------------- MODULE RingRunProofs ----------------------------
(***************************************************************************)
(* Proofs about one ring of a rollout, for any number of servers and rivals. *)
(*                                                                         *)
(* RecentFailureStops relates the stage of the ring to rows that calls      *)
(* write, so the inductive invariant follows each server from its worker to  *)
(* its call to its row.                                                     *)
(***************************************************************************)
EXTENDS RingRun, UpgradeManagerProofs

\* Every step of a ring is a step of the calls or leaves them alone.
LEMMA StepsAreManagerSteps == [Next]_vars => [ManagerNext]_managerVars
<1> SUFFICES ASSUME Next PROVE [ManagerNext]_managerVars
  BY DEF vars
<1>1. ASSUME StageStep \/ WorkerRaised \/ StageRaises \/ HourPasses PROVE UNCHANGED managerVars
  BY <1>1 DEF StageStep, CreateTask, StartTask, ReadBaseline, BaselineRead, CanaryDone,
              ProbeCanary, Gathered, CheckHistory, ProbeUnits, Judge, FinishTask,
              WorkerRaised, StageRaises, HourPasses
<1>2. ASSUME NEW s \in Servers, WorkerStep(s) PROVE [ManagerNext]_managerVars
  <2>1. CASE TakeSlot(s)
    BY <2>1, CallsAssumption DEF TakeSlot, ManagerNext
  <2>2. CASE CallOver(s) \/ Count(s)
    BY <2>2 DEF CallOver, Count
  <2> QED BY <1>2, <2>1, <2>2 DEF WorkerStep
<1>3. ASSUME NEW c \in Calls, Serve(c) \/ CallRaises(c) PROVE ManagerNext
  BY <1>3 DEF Serve, CallRaises, ManagerNext
<1>4. ASSUME NEW r \in Rivals, Rival(r) PROVE ManagerNext
  BY <1>4, CallsAssumption, ServersAssumption DEF Rival, ManagerNext
<1> QED BY <1>1, <1>2, <1>3, <1>4 DEF Next

\* A ring of a rollout implements UpgradeManager.
THEOREM RingImplementsManager == Spec => ManagerSpec
<1>1. Init => ManagerInit
  BY DEF Init
<1> QED BY <1>1, StepsAreManagerSteps, PTL DEF Spec, ManagerSpec

-----------------------------------------------------------------------------
WorkerTypes ==
  /\ worker \in [Servers -> {"idle", "queued", "call", "count", "out", "raised"}]
  /\ stage \in Stages

\* What a row says once its call is over.
RowsFinal ==
  \A c \in Calls :
    /\ call[c].pc = "after" => row[c] \in {"success", "error"}
    /\ call[c].pc = "done" /\ call[c].kind = "managed" =>
         row[c] \in {"skipped", "success", "error"}

\* Which call a worker has made.
WorkersCalls ==
  \A s \in Servers :
    /\ call[s].kind = "managed"
    /\ worker[s] \in {"idle", "queued"} => call[s].pc = "idle"
    /\ worker[s] \in {"count", "out"} => call[s].pc = "done"

\* What the stage says of the workers and of the rows.
StageMeans ==
  /\ stage \in {"start", "created", "baseline"} => \A s \in Servers : worker[s] = "idle"
  /\ stage \in {"canary", "probe"} => \A s \in Servers \ {First} : worker[s] = "idle"
  /\ stage = "probe" => worker[First] = "out"
  /\ CanaryGoesFirst
  /\ stage \in {"failing", "failed"} => \A s \in Servers : worker[s] \in {"idle", "out"}
  /\ stage \in {"check", "units", "passing", "passed"} => \A s \in Servers : worker[s] = "out"
  /\ stage \in {"units", "passing", "passed"} => \A s \in Servers \ old : row[s] # "error"

RInv == ManagerTypeOK /\ WorkerTypes /\ RowsFinal /\ WorkersCalls /\ StageMeans

LEMMA RInvInit == Init => RInv
<1> SUFFICES ASSUME Init PROVE RInv
  OBVIOUS
<1>1. ManagerTypeOK
  BY ManagerTypeInit DEF Init
<1>2. \A c \in Calls : call[c].pc = "idle" /\ call[c].kind = "managed"
  BY DEF Init, ManagerInit
<1>3. WorkerTypes /\ StageMeans
  BY FirstAssumption DEF Init, WorkerTypes, StageMeans, Stages, CanaryGoesFirst
<1>4. RowsFinal /\ WorkersCalls
  BY <1>2, CallsAssumption DEF Init, RowsFinal, WorkersCalls
<1> QED
  BY <1>1, <1>3, <1>4 DEF RInv

\* A call that takes a step keeps its place in the picture: it ends with a final
\* row, and no call but the one that steps is touched.
LEMMA CallStep ==
  ASSUME ManagerTypeOK, RowsFinal, NEW c \in Calls, ManagerStep(c) \/ Raise(c)
  PROVE  /\ RowsFinal'
         /\ \A d \in Calls \ {c} : call'[d] = call[d] /\ row'[d] = row[d]
         /\ call'[c].kind = call[c].kind
         /\ call[c].pc \notin {"idle", "done", "raised", "dead"}
<1> USE DEF ManagerTypeOK, RowsFinal, At
<1>1. CASE Skip(c) \/ Claim(c) \/ Refuse(c) \/ Queue(c)
  BY <1>1 DEF Skip, Claim, Refuse, Queue, EnterLock, On
<1>2. CASE Acquire(c) \/ Begin(c) \/ RunApt(c)
  BY <1>2, SMTT(20) DEF Acquire, Begin, RunApt, On
<1>3. CASE Record(c)
  BY <1>3 DEF Record, Outcome, Ending
<1>4. CASE Return(c)
  BY <1>4 DEF Return, Release
<1>5. CASE Raise(c)
  <2>1. call[c].pc \in {"called", "begin"} \/ Ending(c)
    BY <1>5 DEF Raise
  <2>2. call[c].kind = "managed" => call'[c].pc = "raised"
    BY <1>5 DEF Raise
  <2>3. call'[c].pc \in {"done", "raised"} /\ call'[c].kind = call[c].kind
    BY <1>5 DEF Raise
  <2>4. \A d \in Calls \ {c} : call'[d] = call[d] /\ row'[d] = row[d]
    BY <1>5 DEF Raise
  <2> QED BY <2>1, <2>2, <2>3, <2>4 DEF Ending
<1> QED BY <1>1, <1>2, <1>3, <1>4, <1>5 DEF ManagerStep

LEMMA StagesKeep ==
  ASSUME RInv, StageStep \/ WorkerRaised \/ StageRaises
  PROVE  WorkerTypes' /\ RowsFinal' /\ WorkersCalls' /\ StageMeans'
<1> USE FirstAssumption
    DEF RInv, WorkerTypes, RowsFinal, WorkersCalls, StageMeans, Stages, Stage, CanaryGoesFirst
<1>1. CASE CreateTask \/ FinishTask \/ WorkerRaised \/ StageRaises
  BY <1>1 DEF CreateTask, FinishTask, WorkerRaised, StageRaises, managerVars
<1>2. CASE StartTask
  BY <1>2 DEF StartTask, Launch, managerVars, CanaryAlone
<1>3. ASSUME NEW s \in Servers, ReadBaseline(s) \/ ProbeUnits(s)
      PROVE  WorkerTypes' /\ RowsFinal' /\ WorkersCalls' /\ StageMeans'
  BY <1>3 DEF ReadBaseline, ProbeUnits, managerVars
<1>4. CASE BaselineRead
  BY <1>4 DEF BaselineRead, Launch, managerVars, CanaryAlone
<1>5. CASE CanaryDone
  BY <1>5 DEF CanaryDone, managerVars
<1>6. CASE ProbeCanary
  BY <1>6 DEF ProbeCanary, Launch, managerVars
<1>7. CASE Gathered
  BY <1>7 DEF Gathered, managerVars
<1>8. CASE CheckHistory
  <2>1. ~HistoryFailed => \A s \in Servers \ old : row[s] # "error"
    BY CallsAssumption DEF HistoryFailed
  <2> QED BY <1>8, <2>1 DEF CheckHistory, managerVars
<1>9. CASE Judge
  BY <1>9 DEF Judge, managerVars
<1> QED BY <1>1, <1>2, <1>3, <1>4, <1>5, <1>6, <1>7, <1>8, <1>9 DEF StageStep

LEMMA WorkersKeep ==
  ASSUME RInv, NEW s \in Servers, WorkerStep(s)
  PROVE  WorkerTypes' /\ RowsFinal' /\ WorkersCalls' /\ StageMeans'
<1> USE FirstAssumption, CallsAssumption
    DEF RInv, WorkerTypes, RowsFinal, WorkersCalls, StageMeans, Stages, CanaryGoesFirst, ManagerTypeOK
\* A worker that takes a step is neither idle nor out.
<1>1. /\ worker[s] \in {"queued", "call", "count"}
      /\ \E w \in {"call", "count", "out", "raised"} : worker' = [worker EXCEPT ![s] = w]
      /\ UNCHANGED <<row, stage, old>>
  BY DEF WorkerStep, TakeSlot, Enter, CallOver, Count, managerVars
<1>2. WorkerTypes' /\ StageMeans'
  BY <1>1
<1>3. RowsFinal' /\ WorkersCalls'
  <2>1. CASE TakeSlot(s)
    BY <2>1 DEF TakeSlot, Enter
  <2>2. CASE CallOver(s)
    BY <2>2 DEF CallOver, managerVars
  <2>3. CASE Count(s)
    BY <2>3 DEF Count, managerVars
  <2> QED BY <2>1, <2>2, <2>3 DEF WorkerStep
<1> QED BY <1>2, <1>3

LEMMA CallsKeep ==
  ASSUME RInv, NEW c \in Calls, Serve(c) \/ CallRaises(c)
  PROVE  WorkerTypes' /\ RowsFinal' /\ WorkersCalls' /\ StageMeans'
<1>1. /\ RowsFinal'
      /\ \A d \in Calls \ {c} : call'[d] = call[d] /\ row'[d] = row[d]
      /\ call'[c].kind = call[c].kind
      /\ call[c].pc \notin {"idle", "done", "raised", "dead"}
  BY CallStep DEF RInv, Serve, CallRaises
<1>2. UNCHANGED <<ringVars, old>>
  BY DEF Serve, CallRaises
\* The worker of the call that steps is still waiting for it.
<1>3. c \in Servers => worker[c] \notin {"idle", "queued", "count", "out"}
  BY <1>1 DEF RInv, WorkersCalls
<1> QED
  BY <1>1, <1>2, <1>3, CallsAssumption
  DEF RInv, WorkerTypes, WorkersCalls, StageMeans, CanaryGoesFirst, ringVars

LEMMA RInvStep == RInv /\ [Next]_vars => RInv'
<1> SUFFICES ASSUME RInv, [Next]_vars PROVE WorkerTypes' /\ RowsFinal' /\ WorkersCalls' /\ StageMeans'
  BY StepsAreManagerSteps, ManagerTypeStep DEF RInv
<1>1. CASE HourPasses
  <2>1. \A s \in Servers \ old' : row'[s] # "error"
    BY <1>1, CallsAssumption DEF HourPasses, managerVars
  <2> QED
    BY <1>1, <2>1 DEF RInv, WorkerTypes, RowsFinal, WorkersCalls, StageMeans, CanaryGoesFirst,
                      HourPasses, managerVars, ringVars
<1>2. ASSUME NEW r \in Rivals, Rival(r)
      PROVE  WorkerTypes' /\ RowsFinal' /\ WorkersCalls' /\ StageMeans'
  BY <1>2, CallsAssumption
  DEF RInv, ManagerTypeOK, WorkerTypes, RowsFinal, WorkersCalls, StageMeans, CanaryGoesFirst,
      Rival, Enter, ringVars
<1>3. CASE UNCHANGED vars
  BY <1>3 DEF RInv, WorkerTypes, RowsFinal, WorkersCalls, StageMeans, CanaryGoesFirst,
              vars, managerVars, ringVars
<1> QED
  BY <1>1, <1>2, <1>3, StagesKeep, WorkersKeep, CallsKeep DEF Next

LEMMA RInvariance == Spec => []RInv
  BY RInvInit, RInvStep, PTL DEF Spec

\* The health gate, for any number of servers and whatever others do to them: a
\* ring passes only if every upgrade it started within the hour succeeded or was
\* skipped.
THEOREM RingGate == Spec => []RecentFailureStops
<1>1. RInv => RecentFailureStops
  BY CallsAssumption DEF RInv, RowsFinal, WorkersCalls, StageMeans, RecentFailureStops
<1> QED BY RInvariance, <1>1, PTL

\* No server of the ring is touched before the canary's upgrade is over.
THEOREM RingCanary == Spec => []CanaryGoesFirst
<1>1. RInv => CanaryGoesFirst
  BY DEF RInv, StageMeans
<1> QED BY RInvariance, <1>1, PTL

\* A ring that ended by its own judgement has no upgrade left under way.
THEOREM RingEndsAfterWorkers == Spec => []EndsAfterWorkers
<1>1. ASSUME RInv, stage \in {"check", "passed", "failed"}, NEW s \in Servers
      PROVE  worker[s] \in {"idle", "out"} /\ ~Engaged(s)
  <2>1. worker[s] \in {"idle", "out"}
    BY <1>1 DEF RInv, StageMeans
  <2>2. call[s].pc \in {"idle", "done"}
    BY <1>1, <2>1 DEF RInv, WorkersCalls
  <2> QED BY <2>1, <2>2 DEF Engaged, Holding, Ending
<1>2. RInv => EndsAfterWorkers
  BY <1>1 DEF EndsAfterWorkers
<1> QED BY RInvariance, <1>2, PTL
-----------------------------------------------------------------------------
(***************************************************************************)
(* The unit gate.  Units of the ring's own making come from servers whose  *)
(* upgrade is under way, so the baseline has none of them; and none        *)
(* appears any more once all workers are out and the units are looked at.  *)
(***************************************************************************)
Units == SUBSET {"own", "other"}

HealthInv ==
  /\ units \in [Servers -> Units]
  /\ base \in [Servers -> Units]
  /\ \A s \in Servers :
       /\ "own" \notin base[s]
       /\ call[s].server = s
       /\ worker[s] \in {"idle", "queued"} => "own" \notin units[s]
  /\ stage = "units" => \A s \in Servers \ todo : s \in worse \/ "own" \notin units[s]
  /\ stage \in {"passing", "passed"} => \A s \in Servers : "own" \notin units[s]

\* A call keeps the server it was made on.
LEMMA CallKeepsServer ==
  ASSUME ManagerTypeOK, NEW c \in Calls, ManagerStep(c) \/ Raise(c)
  PROVE  \A d \in Calls : call'[d].server = call[d].server
<1>1. ASSUME NEW pc, At(c, pc) PROVE \A d \in Calls : call'[d].server = call[d].server
  BY <1>1 DEF At, ManagerTypeOK
<1>2. \E pc : At(c, pc)
  BY DEF ManagerStep, Skip, Claim, Refuse, Queue, Acquire, Begin, RunApt, Record, Return, Raise,
         EnterLock
<1> QED BY <1>1, <1>2

\* What the calls do to the units: the ring's own ones appear on servers that
\* are being upgraded.
LEMMA ServeBreaks ==
  ASSUME RInv, HealthInv, NEW c \in Calls, Serve(c)
  PROVE  /\ units' \in [Servers -> Units]
         /\ \A s \in Servers :
              "own" \in units'[s] =>
                "own" \in units[s] \/ worker[s] \notin {"idle", "queued", "count", "out"}
<1>1. CASE UNCHANGED units
  BY <1>1 DEF HealthInv
<1>2. CASE RunApt(c) /\ c \in Servers
  <2>1. units' = [units EXCEPT ![c] = @ \union {"own"}] \/ UNCHANGED units
    BY <1>2 DEF Serve, On, HealthInv
  <2>2. call[c].pc = "apt"
    BY <1>2 DEF RunApt
  <2>3. worker[c] \notin {"idle", "queued", "count", "out"}
    BY <1>2, <2>2 DEF RInv, WorkersCalls
  <2> QED BY <1>2, <2>1, <2>3 DEF HealthInv, Units
<1>3. CASE RunApt(c) /\ c \notin Servers
  <2>1. units' = [units EXCEPT ![On(c)] = @ \union {"other"}] \/ UNCHANGED units
    BY <1>3 DEF Serve
  <2>2. On(c) \in Servers
    BY DEF RInv, ManagerTypeOK, On
  <2> QED BY <2>1, <2>2 DEF HealthInv, Units
<1> QED BY <1>1, <1>2, <1>3 DEF Serve

\* A probe that answers reports the units as they are.
LEMMA ProbeTells ==
  ASSUME ~ProbeMayFail, NEW s, NEW found, Probed(s, found)
  PROVE  found = units[s]
  BY DEF Probed

LEMMA HealthStages ==
  ASSUME Canary, ~ProbeMayFail, RInv, HealthInv, StageStep \/ WorkerRaised \/ StageRaises
  PROVE  HealthInv'
<1> USE FirstAssumption DEF HealthInv, Stage
<1>1. CASE CreateTask \/ FinishTask \/ WorkerRaised \/ StageRaises \/ CanaryDone \/ Gathered
  BY <1>1 DEF CreateTask, FinishTask, WorkerRaised, StageRaises, CanaryDone, Gathered, managerVars
<1>2. CASE StartTask
  BY <1>2 DEF StartTask, managerVars
<1>3. ASSUME NEW s \in Servers, ReadBaseline(s) PROVE HealthInv'
  <2>1. base' = [base EXCEPT ![s] = units[s]]
    BY <1>3, ProbeTells DEF ReadBaseline
  <2>2. "own" \notin units[s]
    BY <1>3 DEF ReadBaseline, RInv, StageMeans
  <2> QED BY <1>3, <2>1, <2>2 DEF ReadBaseline, managerVars
<1>4. ASSUME NEW S, S \subseteq Servers, \A s \in S : worker[s] = "idle", Launch(S),
             UNCHANGED <<managerVars, units, base>>, stage' \in {"canary", "rest"}
      PROVE  HealthInv'
  BY <1>4 DEF Launch, managerVars
<1>5. CASE BaselineRead
  <2>1. \A s \in Servers : worker[s] = "idle"
    BY <1>5 DEF BaselineRead, RInv, StageMeans
  <2> QED BY <1>4, <1>5, <2>1 DEF BaselineRead
<1>6. CASE ProbeCanary
  <2>1. \A s \in Servers \ {First} : worker[s] = "idle"
    BY <1>6 DEF ProbeCanary, RInv, StageMeans
  <2>2. CASE Launch(Servers \ {First}) /\ stage' = "rest"
    BY <1>4, <1>6, <2>1, <2>2 DEF ProbeCanary
  <2>3. CASE stage' = "failing" /\ UNCHANGED worker
    BY <1>6, <2>3 DEF ProbeCanary, managerVars
  <2> QED BY <1>6, <2>2, <2>3 DEF ProbeCanary
<1>7. CASE CheckHistory
  BY <1>7 DEF CheckHistory, managerVars
<1>8. ASSUME NEW s \in Servers, ProbeUnits(s) PROVE HealthInv'
  <2>1. worse' = IF units[s] \subseteq base[s] THEN worse ELSE worse \union {s}
    BY <1>8, ProbeTells DEF ProbeUnits
  <2>2. s \in worse' \/ "own" \notin units[s]
    BY <2>1
  <2>3. worse \subseteq worse'
    BY <2>1
  <2> QED BY <1>8, <2>2, <2>3 DEF ProbeUnits, managerVars
<1>9. CASE Judge
  BY <1>9 DEF Judge, managerVars
<1> QED BY <1>1, <1>2, <1>3, <1>5, <1>6, <1>7, <1>8, <1>9 DEF StageStep

LEMMA HealthInvStep ==
  ASSUME Canary, ~ProbeMayFail, RInv, HealthInv, [Next]_vars
  PROVE  HealthInv'
<1>1. CASE StageStep \/ WorkerRaised \/ StageRaises
  BY <1>1, HealthStages
<1>2. CASE HourPasses
  BY <1>2 DEF HourPasses, HealthInv, managerVars, ringVars
<1>3. ASSUME NEW s \in Servers, WorkerStep(s) PROVE HealthInv'
  <2>1. /\ worker' = [worker EXCEPT ![s] = worker'[s]]
        /\ worker'[s] \notin {"idle", "queued"}
        /\ UNCHANGED <<units, base, todo, worse, stage>>
    BY <1>3 DEF WorkerStep, TakeSlot, CallOver, Count, RInv, WorkerTypes
  <2>2. \A r \in Servers : call'[r].server = r
    BY <1>3, CallsAssumption
    DEF WorkerStep, TakeSlot, Enter, CallOver, Count, managerVars, HealthInv, RInv, ManagerTypeOK
  <2>3. \A r \in Servers : worker'[r] \in {"idle", "queued"} => worker[r] = worker'[r]
    BY <2>1 DEF RInv, WorkerTypes
  <2> QED BY <2>1, <2>2, <2>3 DEF HealthInv
<1>4. ASSUME NEW c \in Calls, Serve(c) PROVE HealthInv'
  <2>1. UNCHANGED <<worker, stage, base, todo, worse>>
    BY <1>4 DEF Serve, ringVars
  <2>2. \A s \in Servers : call'[s].server = s
    BY <1>4, CallKeepsServer, CallsAssumption DEF Serve, RInv, HealthInv
  <2>3. stage \in {"units", "passing", "passed"} => \A s \in Servers : worker[s] = "out"
    BY DEF RInv, StageMeans
  <2> QED BY <1>4, <2>1, <2>2, <2>3, ServeBreaks DEF HealthInv
<1>5. ASSUME NEW c \in Calls, CallRaises(c) PROVE HealthInv'
  <2>1. \A s \in Servers : call'[s].server = s
    BY <1>5, CallKeepsServer, CallsAssumption DEF CallRaises, RInv, HealthInv
  <2> QED BY <1>5, <2>1 DEF CallRaises, HealthInv, ringVars
<1>6. ASSUME NEW r \in Rivals, Rival(r) PROVE HealthInv'
  <2>1. \A s \in Servers : call'[s] = call[s]
    BY <1>6, CallsAssumption DEF Rival, Enter, RInv, ManagerTypeOK
  <2> QED BY <1>6, <2>1 DEF Rival, HealthInv, ringVars
<1>7. CASE UNCHANGED vars
  BY <1>7 DEF vars, managerVars, ringVars, HealthInv
<1> QED BY <1>1, <1>2, <1>3, <1>4, <1>5, <1>6, <1>7 DEF Next

\* In canary mode, when the probes answer, no ring passes with a unit that one
\* of its own upgrades left failed, for any number of servers and whatever
\* rivals break meanwhile (the baseline and the unit gate of _execute_step).
THEOREM RingPassesHealthy == Spec => []PassedMeansHealthy
<1> DEFINE HInv == Canary /\ ~ProbeMayFail => HealthInv
<1>1. Init => HInv
  <2> SUFFICES ASSUME Init PROVE HealthInv
    OBVIOUS
  <2>1. units \in [Servers -> Units] /\ \A s \in Servers : "own" \notin units[s]
    BY DEF Init, Units
  <2>2. base \in [Servers -> Units] /\ \A s \in Servers : "own" \notin base[s]
    BY DEF Init, Units
  <2> QED BY <2>1, <2>2 DEF Init, HealthInv
<1>2. RInv /\ HInv /\ [Next]_vars => HInv'
  BY HealthInvStep
<1>3. HInv => PassedMeansHealthy
  BY DEF HealthInv, PassedMeansHealthy
<1> QED BY RInvariance, <1>1, <1>2, <1>3, PTL DEF Spec
=============================================================================
