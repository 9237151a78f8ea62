------------------------------- MODULE RingRun -------------------------------
(***************************************************************************)
(* One ring of a staged rollout (the body of _execute_step in               *)
(* backend/rollout.py, between the commit that marks the step running and   *)
(* _finish_step_and_promote or _finish_step_and_abort): what module Rollout  *)
(* calls RingPasses, RingFails and Raise.                                   *)
(*                                                                         *)
(* The ring opens a Task, notes the failed systemd units of its servers,    *)
(* upgrades the canary and looks at it, upgrades the others with at most    *)
(* Concurrency of them at once, and passes the gate unless the history of    *)
(* the last hour has an error or a server has a newly failed unit.  Each    *)
(* upgrade is a managed call of UpgradeManager; rivals are calls made by    *)
(* others on the same servers, before and during the ring.                  *)
(*                                                                         *)
(* Progress of the task is left to FleetRun, restarts to Rollout.           *)
(***************************************************************************)
EXTENDS UpgradeManager

CONSTANTS Rivals,        \* calls made by others
          Contended,     \* the servers they are made on
          Canary,        \* Rollout config: canary
          First,         \* the first server of the ring
          Concurrency,   \* ScheduleConfig.upgrade_concurrency
          ProbeMayFail,  \* can systemctl be out of reach?
          Slow           \* can more than an hour go by during the ring?

ASSUME CallsAssumption == Calls = Servers \union Rivals /\ Servers \cap Rivals = {}
ASSUME ServersAssumption == IsFiniteSet(Servers) /\ Contended \subseteq Servers
ASSUME FirstAssumption == First \in Servers
ASSUME ConcurrencyAssumption == Concurrency \in Nat \ {0}
ASSUME SwitchesAssumption == {Canary, ProbeMayFail, Slow} \subseteq BOOLEAN

VARIABLES
  stage,   \* where _execute_step is
  task,    \* Task.status of the ring's task
  worker,  \* where the _do of each server is
  todo,    \* servers still to be probed in this stage
  units,   \* failed units of a server: broken by this ring or by something else
  base,    \* the baseline, as it was read
  worse,   \* servers found with units that the baseline does not have
  old      \* calls whose row was started more than an hour ago

ringVars == <<stage, task, worker, todo, base, worse>>
vars == <<managerVars, ringVars, units, old>>

Stages == {"start", "created", "baseline", "canary", "probe", "rest", "check", "units",
           "failing", "passing", "failed", "passed", "raised"}

RingTypeOK ==
  /\ ManagerTypeOK
  /\ stage \in Stages
  /\ task \in {"none", "queued", "running", "success", "error"}
  /\ worker \in [Servers -> {"idle", "queued", "call", "count", "out", "raised"}]
  /\ todo \in SUBSET Servers
  /\ units \in [Servers -> SUBSET {"own", "other"}]
  /\ base \in [Servers -> SUBSET {"own", "other"}]
  /\ worse \in SUBSET Servers
  /\ old \in SUBSET Calls

Init ==
  /\ ManagerInit
  /\ \A s \in Servers : call[s].server = s
  /\ \A r \in Rivals : call[r].server = First
  /\ stage = "start" /\ task = "none"
  /\ worker = [s \in Servers |-> "idle"]
  /\ todo = {} /\ worse = {} /\ old = {}
  /\ units \in [Servers -> {{}, {"other"}}]
  /\ base = [s \in Servers |-> {}]

-----------------------------------------------------------------------------
(* The stages.                                                             *)

\* The canary goes first if the ring has others to protect.
CanaryAlone == Canary /\ Servers # {First}

\* Workers are launched: the canary alone, or those not launched yet.
Launch(S) == worker' = [s \in Servers |-> IF s \in S THEN "queued" ELSE worker[s]]

Stage(from, to) == stage = from /\ stage' = to

CreateTask ==
  /\ Stage("start", "created")
  /\ task' = "queued"
  /\ UNCHANGED <<managerVars, worker, todo, base, worse, units, old>>

StartTask ==
  /\ Stage("created", IF Canary THEN "baseline" ELSE "rest")
  /\ task' = "running"
  /\ IF Canary THEN todo' = Servers /\ UNCHANGED worker
               ELSE UNCHANGED todo /\ Launch(Servers)
  /\ UNCHANGED <<managerVars, base, worse, units, old>>

\* get_failed_systemd_units: a probe that fails reports no failed unit.
Probed(s, found) == found = units[s] \/ (ProbeMayFail /\ found = {})

ReadBaseline(s) ==
  /\ stage = "baseline" /\ s \in todo
  /\ \E found \in {units[s], {}} :
       Probed(s, found) /\ base' = [base EXCEPT ![s] = found]
  /\ todo' = todo \ {s}
  /\ UNCHANGED <<managerVars, stage, task, worker, worse, units, old>>

BaselineRead ==
  /\ todo = {}
  /\ IF CanaryAlone THEN Stage("baseline", "canary") /\ Launch({First})
                    ELSE Stage("baseline", "rest") /\ Launch(Servers)
  /\ UNCHANGED <<managerVars, task, todo, base, worse, units, old>>

\* Mutant: the ring does not wait for its canary.
CanaryNotAwaited ==
  /\ Stage("canary", "probe")
  /\ UNCHANGED <<managerVars, task, worker, todo, base, worse, units, old>>

CanaryDone ==
  /\ worker[First] = "out"
  /\ Stage("canary", "probe")
  /\ UNCHANGED <<managerVars, task, worker, todo, base, worse, units, old>>

\* The canary is looked at; its history is not.
ProbeCanary ==
  /\ \E found \in {units[First], {}} :
       /\ Probed(First, found)
       /\ IF found \subseteq base[First]
          THEN Stage("probe", "rest") /\ Launch(Servers \ {First})
          ELSE Stage("probe", "failing") /\ UNCHANGED worker
  /\ UNCHANGED <<managerVars, task, todo, base, worse, units, old>>

\* Mutant: the gather waits for a worker that was never launched.
GatheredNever ==
  /\ \A s \in Servers : worker[s] = "idle"
  /\ Stage("rest", "check")
  /\ UNCHANGED <<managerVars, task, worker, todo, base, worse, units, old>>

Gathered ==
  /\ \A s \in Servers : worker[s] = "out"
  /\ Stage("rest", "check")
  /\ UNCHANGED <<managerVars, task, worker, todo, base, worse, units, old>>

\* A worker that raises ends the await at once; the other workers go on, the
\* task is not closed and _run_step_job aborts the rollout.
WorkerRaised ==
  /\ stage \in {"canary", "rest"} /\ \E s \in Servers : worker[s] = "raised"
  /\ stage' = "raised"
  /\ UNCHANGED <<managerVars, task, worker, todo, base, worse, units, old>>

\* ring_has_history_errors: any call on the ring's servers, in the last hour.
HistoryFailed == \E c \in Calls \ old : row[c] = "error"

\* Mutant: the canary stands for the whole ring.
CheckCanaryHistory ==
  /\ IF row[First] = "error" THEN Stage("check", "failing") /\ UNCHANGED todo
     ELSE IF Canary THEN Stage("check", "units") /\ todo' = Servers
     ELSE Stage("check", "passing") /\ UNCHANGED todo
  /\ UNCHANGED <<managerVars, task, worker, base, worse, units, old>>

CheckHistory ==
  /\ IF HistoryFailed THEN Stage("check", "failing") /\ UNCHANGED todo
     ELSE IF Canary THEN Stage("check", "units") /\ todo' = Servers
     ELSE Stage("check", "passing") /\ UNCHANGED todo
  /\ UNCHANGED <<managerVars, task, worker, base, worse, units, old>>

ProbeUnits(s) ==
  /\ stage = "units" /\ s \in todo
  /\ \E found \in {units[s], {}} :
       /\ Probed(s, found)
       /\ worse' = IF found \subseteq base[s] THEN worse ELSE worse \union {s}
  /\ todo' = todo \ {s}
  /\ UNCHANGED <<managerVars, stage, task, worker, base, units, old>>

\* Mutant: the ring fails only if all of its servers are worse.
JudgeAll ==
  /\ todo = {}
  /\ Stage("units", IF worse = Servers THEN "failing" ELSE "passing")
  /\ UNCHANGED <<managerVars, task, worker, todo, base, worse, units, old>>

Judge ==
  /\ todo = {}
  /\ Stage("units", IF worse = {} THEN "passing" ELSE "failing")
  /\ UNCHANGED <<managerVars, task, worker, todo, base, worse, units, old>>

FinishTask ==
  /\ \/ Stage("passing", "passed") /\ task' = "success"
     \/ Stage("failing", "failed") /\ task' = "error"
  /\ UNCHANGED <<managerVars, worker, todo, base, worse, units, old>>

\* A query or commit of the ring's own raises.
StageRaises ==
  /\ DbMayFail /\ stage \in {"start", "created", "check", "passing", "failing"}
  /\ stage' = "raised"
  /\ UNCHANGED <<managerVars, task, worker, todo, base, worse, units, old>>

-----------------------------------------------------------------------------
(* The workers.                                                            *)

SlotFree == Cardinality({s \in Servers : worker[s] \in {"call", "count"}}) < Concurrency

TakeSlot(s) ==
  /\ worker[s] = "queued" /\ SlotFree
  /\ Enter(s, "managed", s)
  /\ worker' = [worker EXCEPT ![s] = "call"]
  /\ UNCHANGED <<stage, task, todo, base, worse, units, old>>

CallOver(s) ==
  /\ worker[s] = "call"
  /\ \/ call[s].pc = "done"   /\ worker' = [worker EXCEPT ![s] = "count"]
     \/ call[s].pc = "raised" /\ worker' = [worker EXCEPT ![s] = "raised"]
  /\ UNCHANGED <<managerVars, stage, task, todo, base, worse, units, old>>

\* increment_task_progress, which nothing guards here.
Count(s) ==
  /\ worker[s] = "count"
  /\ \/ worker' = [worker EXCEPT ![s] = "out"]
     \/ DbMayFail /\ worker' = [worker EXCEPT ![s] = "raised"]
  /\ UNCHANGED <<managerVars, stage, task, todo, base, worse, units, old>>

\* A call takes a step; the packages it installs may leave a unit failed.
Serve(c) ==
  /\ ManagerStep(c)
  /\ \/ UNCHANGED units
     \/ /\ RunApt(c)
        /\ units' = [units EXCEPT ![On(c)] =
                       @ \union {IF c \in Servers THEN "own" ELSE "other"}]
  /\ UNCHANGED <<ringVars, old>>

CallRaises(c) == Raise(c) /\ UNCHANGED <<ringVars, units, old>>

Rival(r) ==
  /\ \E k \in {"managed", "template"}, s \in Contended : Enter(r, k, s)
  /\ UNCHANGED <<ringVars, units, old>>

\* More than an hour goes by: apt alone is given one.
HourPasses ==
  /\ Slow
  /\ old' = {c \in Calls : row[c] # "none"}
  /\ UNCHANGED <<managerVars, ringVars, units>>

StageStep ==
  \/ CreateTask \/ StartTask \/ BaselineRead \/ CanaryDone \/ ProbeCanary
  \/ Gathered \/ CheckHistory \/ Judge \/ FinishTask
  \/ \E s \in Servers : ReadBaseline(s) \/ ProbeUnits(s)

WorkerStep(s) == TakeSlot(s) \/ CallOver(s) \/ Count(s)

Next ==
  \/ StageStep \/ WorkerRaised \/ StageRaises \/ HourPasses
  \/ \E s \in Servers : WorkerStep(s)
  \/ \E c \in Calls : Serve(c) \/ CallRaises(c)
  \/ \E r \in Rivals : Rival(r)

\* The event loop runs what is ready and apt ends (it is under a timeout).
Fairness ==
  /\ WF_vars(StageStep) /\ WF_vars(WorkerRaised)
  /\ \A s \in Servers : WF_vars(WorkerStep(s))
  /\ \A c \in Calls : WF_vars(Serve(c))

Spec == Init /\ [][Next]_vars
FairSpec == Spec /\ Fairness

-----------------------------------------------------------------------------
\* A ring passes only if no host of it failed (README: "aborting the rollout if
\* any host fails"); a host skipped for its read-only root did not fail.
AnyFailureStops ==
  stage \in {"passing", "passed"} => \A s \in Servers : row[s] \in {"success", "skipped"}

\* The same for hosts whose upgrade started within the last hour, whatever else
\* was done to them by others: refusals, exceptions and rows left running included.
RecentFailureStops ==
  stage \in {"passing", "passed"} =>
    \A s \in Servers \ old : row[s] \in {"success", "skipped"}

\* In canary mode, and as long as the probes answer, a ring passes only if none of
\* its own upgrades left a unit failed.
PassedMeansHealthy ==
  stage = "passed" /\ Canary /\ ~ProbeMayFail => \A s \in Servers : "own" \notin units[s]

\* In canary mode no other server of the ring is touched before the canary's
\* upgrade is over.
CanaryGoesFirst ==
  CanaryAlone => \A s \in Servers \ {First} : worker[s] # "idle" => worker[First] = "out"

\* A ring that ended by its own judgement has no upgrade left under way.
EndsAfterWorkers ==
  stage \in {"check", "passed", "failed"} =>
    \A s \in Servers : worker[s] \in {"idle", "out"} /\ ~Engaged(s)

\* A ring comes to an end, and closes its task unless something raised.
RingEnds == task = "running" ~> task \in {"success", "error"} \/ stage = "raised"
=============================================================================
