------------------------------- MODULE Rollout -------------------------------
(***************************************************************************)
(* A durable staged rollout (backend/rollout.py): one Rollout row, one      *)
(* RolloutStep row per ring, one in-memory APScheduler DateTrigger job per  *)
(* scheduled ring, the coroutine that runs a fired job, and the admin       *)
(* requests of backend/routers/rollouts.py.                                 *)
(*                                                                         *)
(* The program is a single asyncio event loop over SQLite: another         *)
(* coroutine may run at every await, so each await on the database is the   *)
(* end of an action.  A commit is atomic and durable; jobs, coroutines and  *)
(* requests in flight die with the process.  ORM sessions write only the   *)
(* columns they changed, with no check that the row is still what they     *)
(* read.  Rollouts share nothing but the servers they upgrade (a job's id   *)
(* holds its rollout's id), so the module follows one of them; a server     *)
(* queued for its next maintenance window is a rollout with one ring.      *)
(***************************************************************************)
EXTENDS Naturals

CONSTANTS NRings,        \* number of rings (rows of rollout_steps)
          Admins,        \* admin requests that can be in flight together
          AdminOps,      \* what admins ask for
          AbortMayFail,  \* can recording an abort fail (database error)?
          MaxCrashes,    \* bound on restarts of the process
          Serial         \* are admin requests served one at a time?

ASSUME NRingsAssumption == NRings \in Nat \ {0}
ASSUME AdminOpsAssumption == AdminOps \subseteq {"promote", "pause", "resume", "abort"}
ASSUME AbortMayFailAssumption == AbortMayFail \in BOOLEAN
ASSUME MaxCrashesAssumption == MaxCrashes \in Nat
ASSUME SerialAssumption == Serial \in BOOLEAN

Steps == 0 .. NRings - 1

VARIABLES
  rollout,  \* Rollout.status; "none" before the row exists
  step,     \* RolloutStep.status of each ring; "absent" before the row exists
  jobs,     \* rings with an armed DateTrigger job
  exec,     \* where the coroutine running a ring's job is (max_instances = 1)
  req,      \* the admin requests in flight
  starter,  \* where start_auto_upgrade_rollout is
  up,       \* is the process running?
  crashes,  \* restarts so far
  trigger   \* history: what last made the ring due, its predecessor or an admin

dbVars == <<rollout, step, trigger>>
memVars == <<jobs, exec, req, starter>>
vars == <<rollout, step, jobs, exec, req, starter, up, crashes, trigger>>

Active == {"pending", "running", "paused"}      \* ACTIVE_ROLLOUT_STATUSES

Waiting == {s \in Steps : step[s] \in {"scheduled", "pending"}}

ExecPCs == {"idle", "fired", "readStep", "begin", "ring", "passed", "failed",
            "armNext", "abort", "abortCommit", "disarm"}
ReqPCs == {"idle", "check", "resume", "pick", "schedule", "arm",
           "pause", "abort", "cancel", "disarm"}
Request == [op : {"none", "promote", "pause", "resume", "abort"},
            pc : ReqPCs,
            was : {"none", "running", "paused"},
            next : Steps,
            nextWas : {"absent", "pending", "scheduled"}]
NoReq == [op |-> "none", pc |-> "idle", was |-> "none", next |-> 0, nextWas |-> "absent"]

TypeOK ==
  /\ rollout \in {"none", "running", "paused", "complete", "aborted"}
  /\ step \in [Steps -> {"absent", "pending", "scheduled", "running",
                         "success", "error", "cancelled"}]
  /\ jobs \in SUBSET Steps
  /\ exec \in [Steps -> ExecPCs]
  /\ exec[NRings - 1] # "armNext"
  /\ req \in [Admins -> Request]
  /\ starter \in {"idle", "rolloutCommitted", "stepsCommitted", "done"}
  /\ up \in BOOLEAN
  /\ crashes \in 0 .. MaxCrashes
  /\ trigger \in [Steps -> {"none", "auto", "admin"}]

Init ==
  /\ rollout = "none"
  /\ step = [s \in Steps |-> "absent"]
  /\ jobs = {}
  /\ exec = [s \in Steps |-> "idle"]
  /\ req = [a \in Admins |-> NoReq]
  /\ starter = "idle"
  /\ up = TRUE
  /\ crashes = 0
  /\ trigger = [s \in Steps |-> "none"]

\* No request is in flight.
Quiet == \A a \in Admins : req[a].pc = "idle"

\* Coroutines interleave at every await.  If Serial, a request, once begun, is
\* served to its end before any other coroutine reaches the database: that is
\* what the code's comments reason with.
Turn == up /\ (Serial => Quiet)

-----------------------------------------------------------------------------
(* Starting: two commits, then the first job.                              *)

\* The rollout row is committed before any of its steps.
CommitRollout ==
  /\ Turn /\ starter = "idle" /\ rollout = "none"
  /\ rollout' = "running"
  /\ starter' = "rolloutCommitted"
  /\ UNCHANGED <<step, jobs, exec, req, up, crashes, trigger>>

\* All steps in one commit: the first ring is due at once, the others wait.
CommitSteps ==
  /\ Turn /\ starter = "rolloutCommitted"
  /\ step' = [s \in Steps |-> IF s = 0 THEN "scheduled" ELSE "pending"]
  /\ trigger' = [trigger EXCEPT ![0] = "auto"]
  /\ starter' = "stepsCommitted"
  /\ UNCHANGED <<rollout, jobs, exec, req, up, crashes>>

ArmFirst ==
  /\ Turn /\ starter = "stepsCommitted"
  /\ jobs' = jobs \union {0}
  /\ starter' = "done"
  /\ UNCHANGED <<dbVars, exec, req, up, crashes>>

Start == CommitRollout \/ CommitSteps \/ ArmFirst

-----------------------------------------------------------------------------
(* The job of a ring.                                                      *)

Goto(s, pc) == exec' = [exec EXCEPT ![s] = pc]

\* A due job leaves the scheduler.  It is dropped when the coroutine of an
\* earlier job of the same id is still running.
FireJob(s) ==
  /\ Turn /\ s \in jobs
  /\ jobs' = jobs \ {s}
  /\ IF exec[s] = "idle" THEN Goto(s, "fired") ELSE UNCHANGED exec
  /\ UNCHANGED <<dbVars, req, starter, up, crashes>>

\* Mutant: a fired job does not look at the rollout.
ReadNothing(s) ==
  /\ Turn /\ exec[s] = "fired"
  /\ Goto(s, "readStep")
  /\ UNCHANGED <<dbVars, jobs, req, starter, up, crashes>>

\* _execute_step reads the rollout and gives up unless it is running, ...
ReadRollout(s) ==
  /\ Turn /\ exec[s] = "fired"
  /\ Goto(s, IF rollout = "running" THEN "readStep" ELSE "idle")
  /\ UNCHANGED <<dbVars, jobs, req, starter, up, crashes>>

\* ... reads the step and gives up unless it is still scheduled, ...
ReadStep(s) ==
  /\ Turn /\ exec[s] = "readStep"
  /\ Goto(s, IF step[s] = "scheduled" THEN "begin" ELSE "idle")
  /\ UNCHANGED <<dbVars, jobs, req, starter, up, crashes>>

\* Mutant: the next ring is made due when a ring starts, not when it ends.
BeginRingAndNext(s) ==
  /\ Turn /\ exec[s] = "begin"
  /\ step' = [t \in Steps |-> CASE t = s     -> "running"
                                [] t = s + 1 -> "scheduled"
                                [] OTHER     -> step[t]]
  /\ jobs' = jobs \union ({s + 1} \cap Steps)
  /\ Goto(s, "ring")
  /\ UNCHANGED <<rollout, req, starter, up, crashes, trigger>>

\* ... and commits the step as running, whatever happened since it was read.
BeginRing(s) ==
  /\ Turn /\ exec[s] = "begin"
  /\ step' = [step EXCEPT ![s] = "running"]
  /\ Goto(s, "ring")
  /\ UNCHANGED <<rollout, jobs, req, starter, up, crashes, trigger>>

\* The upgrades and the health gate: module RingRun opens this step.
RingPasses(s) ==
  /\ Turn /\ exec[s] = "ring"
  /\ Goto(s, "passed")
  /\ UNCHANGED <<dbVars, jobs, req, starter, up, crashes>>

RingFails(s) ==
  /\ Turn /\ exec[s] = "ring"
  /\ Goto(s, "failed")
  /\ UNCHANGED <<dbVars, jobs, req, starter, up, crashes>>

\* _run_step_job catches whatever _execute_step raises and aborts the rollout;
\* the step keeps the status it had.
Raise(s) ==
  /\ Turn /\ exec[s] \in {"fired", "readStep", "begin", "ring", "passed", "failed"}
  /\ Goto(s, "abort")
  /\ UNCHANGED <<dbVars, jobs, req, starter, up, crashes>>

\* _finish_step_and_promote is one transaction: the pending update of the step
\* is flushed, and SQLite's write lock taken, before the rollout is read.
FinishAndStop(s) ==
  /\ Turn /\ exec[s] = "passed" /\ rollout # "running"
  /\ step' = [step EXCEPT ![s] = "success"]
  /\ Goto(s, "idle")
  /\ UNCHANGED <<rollout, jobs, req, starter, up, crashes, trigger>>

\* Mutant: the last ring ends without completing the rollout.
FinishAndForget(s) ==
  /\ Turn /\ exec[s] = "passed" /\ rollout = "running" /\ s + 1 \notin Steps
  /\ step' = [step EXCEPT ![s] = "success"]
  /\ Goto(s, "idle")
  /\ UNCHANGED <<rollout, jobs, req, starter, up, crashes, trigger>>

FinishAndComplete(s) ==
  /\ Turn /\ exec[s] = "passed" /\ rollout = "running" /\ s + 1 \notin Steps
  /\ step' = [step EXCEPT ![s] = "success"]
  /\ rollout' = "complete"
  /\ Goto(s, "idle")
  /\ UNCHANGED <<jobs, req, starter, up, crashes, trigger>>

FinishAndPromote(s) ==
  /\ Turn /\ exec[s] = "passed" /\ rollout = "running" /\ s + 1 \in Steps
  /\ step' = [step EXCEPT ![s] = "success", ![s + 1] = "scheduled"]
  /\ trigger' = [trigger EXCEPT ![s + 1] = "auto"]
  /\ Goto(s, "armNext")
  /\ UNCHANGED <<rollout, jobs, req, starter, up, crashes>>

ArmNext(s) ==
  /\ Turn /\ exec[s] = "armNext"
  /\ jobs' = jobs \union {s + 1}
  /\ Goto(s, "idle")
  /\ UNCHANGED <<dbVars, req, starter, up, crashes>>

\* Mutant: a failed ring promotes the next one (the return after the abort is
\* missing).
FinishWithErrorAndPromote(s) ==
  /\ Turn /\ exec[s] = "failed"
  /\ step' = [t \in Steps |-> CASE t = s     -> "error"
                                [] t = s + 1 -> "scheduled"
                                [] OTHER     -> step[t]]
  /\ trigger' = [t \in Steps |-> IF t = s + 1 THEN "auto" ELSE trigger[t]]
  /\ Goto(s, IF s + 1 \in Steps THEN "armNext" ELSE "abort")
  /\ UNCHANGED <<rollout, jobs, req, starter, up, crashes>>

\* _finish_step_and_abort commits the step first ...
FinishWithError(s) ==
  /\ Turn /\ exec[s] = "failed"
  /\ step' = [step EXCEPT ![s] = "error"]
  /\ Goto(s, "abort")
  /\ UNCHANGED <<rollout, jobs, req, starter, up, crashes, trigger>>

\* ... and the rollout in a second commit (_abort_rollout).  The steps that
\* were waiting keep their status.
ReadForAbort(s) ==
  /\ Turn /\ exec[s] = "abort"
  /\ Goto(s, IF rollout \in Active THEN "abortCommit" ELSE "idle")
  /\ UNCHANGED <<dbVars, jobs, req, starter, up, crashes>>

CommitAbort(s) ==
  /\ Turn /\ exec[s] = "abortCommit"
  /\ rollout' = "aborted"
  /\ Goto(s, "disarm")
  /\ UNCHANGED <<step, jobs, req, starter, up, crashes, trigger>>

DisarmAfterAbort(s) ==
  /\ Turn /\ exec[s] = "disarm"
  /\ jobs' = {}
  /\ Goto(s, "idle")
  /\ UNCHANGED <<dbVars, req, starter, up, crashes>>

\* An abort that cannot be recorded is logged and forgotten.
AbortLost(s) ==
  /\ Turn /\ AbortMayFail /\ exec[s] \in {"abort", "abortCommit"}
  /\ Goto(s, "idle")
  /\ UNCHANGED <<dbVars, jobs, req, starter, up, crashes>>

RingStep(s) ==
  \/ ReadRollout(s) \/ ReadStep(s) \/ BeginRing(s) \/ RingPasses(s) \/ RingFails(s)
  \/ FinishAndStop(s) \/ FinishAndComplete(s) \/ FinishAndPromote(s) \/ ArmNext(s)
  \/ FinishWithError(s) \/ ReadForAbort(s) \/ CommitAbort(s) \/ DisarmAfterAbort(s)

RingFault(s) == Raise(s) \/ AbortLost(s)

-----------------------------------------------------------------------------
(* Admin requests.  A refused request (409) leaves no trace.               *)

Answer(a) == req' = [req EXCEPT ![a] = NoReq]
Continue(a, pc) == req' = [req EXCEPT ![a].pc = pc]

\* The handler reads the rollout and goes on if its status allows the operation.
AskPromote(a) ==
  /\ Turn /\ req[a].pc = "idle" /\ "promote" \in AdminOps
  /\ rollout \in {"running", "paused"}
  /\ req' = [req EXCEPT ![a] = [NoReq EXCEPT !.op = "promote", !.pc = "check",
                                             !.was = rollout]]
  /\ UNCHANGED <<dbVars, jobs, exec, starter, up, crashes>>

AskResume(a) ==
  /\ Turn /\ req[a].pc = "idle" /\ "resume" \in AdminOps
  /\ rollout = "paused"
  /\ req' = [req EXCEPT ![a] = [NoReq EXCEPT !.op = "resume", !.pc = "check",
                                             !.was = rollout]]
  /\ UNCHANGED <<dbVars, jobs, exec, starter, up, crashes>>

\* Mutant: pause does not look at the status.
AskPauseAnything(a) ==
  /\ Turn /\ req[a].pc = "idle" /\ "pause" \in AdminOps
  /\ rollout # "none"
  /\ req' = [req EXCEPT ![a] = [NoReq EXCEPT !.op = "pause", !.pc = "pause",
                                             !.was = "running"]]
  /\ UNCHANGED <<dbVars, jobs, exec, starter, up, crashes>>

AskPause(a) ==
  /\ Turn /\ req[a].pc = "idle" /\ "pause" \in AdminOps
  /\ rollout = "running"
  /\ req' = [req EXCEPT ![a] = [NoReq EXCEPT !.op = "pause", !.pc = "pause",
                                             !.was = rollout]]
  /\ UNCHANGED <<dbVars, jobs, exec, starter, up, crashes>>

AskAbort(a) ==
  /\ Turn /\ req[a].pc = "idle" /\ "abort" \in AdminOps
  /\ rollout \in Active
  /\ req' = [req EXCEPT ![a] = [NoReq EXCEPT !.op = "abort", !.pc = "abort",
                                             !.was = rollout]]
  /\ UNCHANGED <<dbVars, jobs, exec, starter, up, crashes>>

\* promote_now and resume_rollout: refused while a ring is running.
CheckRunning(a) ==
  /\ up /\ req[a].pc = "check"
  /\ IF \E s \in Steps : step[s] = "running"
     THEN Answer(a)
     ELSE Continue(a, IF req[a].op = "promote" THEN "pick" ELSE "resume")
  /\ UNCHANGED <<dbVars, jobs, exec, starter, up, crashes>>

\* resume_rollout commits the status before it looks for the next step.
CommitResume(a) ==
  /\ up /\ req[a].pc = "resume"
  /\ rollout' = "running"
  /\ Continue(a, "pick")
  /\ UNCHANGED <<step, jobs, exec, starter, up, crashes, trigger>>

\* The lowest scheduled or pending step; without one promote is refused and
\* resume has nothing more to do.
PickNext(a) ==
  /\ up /\ req[a].pc = "pick"
  /\ \/ Waiting = {} /\ Answer(a)
     \/ \E s \in Waiting :
          /\ \A t \in Waiting : s <= t
          /\ req' = [req EXCEPT ![a].pc = "schedule", ![a].next = s,
                                ![a].nextWas = step[s]]
  /\ UNCHANGED <<dbVars, jobs, exec, starter, up, crashes>>

\* The statuses are written only where they differ from what was read.
CommitNext(a) ==
  /\ up /\ req[a].pc = "schedule"
  /\ LET s == req[a].next IN
     /\ step' = IF req[a].nextWas = "scheduled" THEN step
                ELSE [step EXCEPT ![s] = "scheduled"]
     /\ trigger' = [trigger EXCEPT ![s] = "admin"]
  /\ rollout' = IF req[a].op = "promote" /\ req[a].was = "paused"
                THEN "running" ELSE rollout
  /\ Continue(a, "arm")
  /\ UNCHANGED <<jobs, exec, starter, up, crashes>>

ArmRequested(a) ==
  /\ up /\ req[a].pc = "arm"
  /\ jobs' = jobs \union {req[a].next}
  /\ Answer(a)
  /\ UNCHANGED <<dbVars, exec, starter, up, crashes>>

CommitPause(a) ==
  /\ up /\ req[a].pc = "pause"
  /\ rollout' = "paused"
  /\ Continue(a, "disarm")
  /\ UNCHANGED <<step, jobs, exec, starter, up, crashes, trigger>>

\* abort_rollout: the rollout in one commit, its waiting steps in another.
CommitAdminAbort(a) ==
  /\ up /\ req[a].pc = "abort"
  /\ rollout' = "aborted"
  /\ Continue(a, "cancel")
  /\ UNCHANGED <<step, jobs, exec, starter, up, crashes, trigger>>

\* Mutant: the update that cancels has no WHERE on the status.
CancelEverything(a) ==
  /\ up /\ req[a].pc = "cancel"
  /\ step' = [s \in Steps |-> "cancelled"]
  /\ Continue(a, "disarm")
  /\ UNCHANGED <<rollout, jobs, exec, starter, up, crashes, trigger>>

CancelWaiting(a) ==
  /\ up /\ req[a].pc = "cancel"
  /\ step' = [s \in Steps |-> IF s \in Waiting THEN "cancelled" ELSE step[s]]
  /\ Continue(a, "disarm")
  /\ UNCHANGED <<rollout, jobs, exec, starter, up, crashes, trigger>>

Disarm(a) ==
  /\ up /\ req[a].pc = "disarm"
  /\ jobs' = {}
  /\ Answer(a)
  /\ UNCHANGED <<dbVars, exec, starter, up, crashes>>

Ask(a) == AskPromote(a) \/ AskResume(a) \/ AskPause(a) \/ AskAbort(a)

ServeStep(a) ==
  \/ CheckRunning(a) \/ CommitResume(a) \/ PickNext(a) \/ CommitNext(a)
  \/ ArmRequested(a) \/ CommitPause(a) \/ CommitAdminAbort(a)
  \/ CancelWaiting(a) \/ Disarm(a)

-----------------------------------------------------------------------------
(* The process dies and comes back.                                        *)

Crash ==
  /\ up /\ crashes < MaxCrashes
  /\ up' = FALSE /\ crashes' = crashes + 1
  /\ jobs' = {}
  /\ exec' = [s \in Steps |-> "idle"]
  /\ req' = [a \in Admins |-> NoReq]
  /\ starter' = IF starter = "idle" THEN "idle" ELSE "done"
  /\ UNCHANGED dbVars

\* Mutant: a restart does not arm the jobs again.
ReconcileWithoutArming ==
  /\ ~up
  /\ up' = TRUE
  /\ LET lost == {s \in Steps : step[s] = "running"} IN
     IF rollout = "running" /\ lost # {}
     THEN /\ step' = [s \in Steps |-> IF s \in lost THEN "error" ELSE step[s]]
          /\ rollout' = "aborted"
     ELSE UNCHANGED <<rollout, step>>
  /\ UNCHANGED <<jobs, exec, req, starter, crashes, trigger>>

\* reconcile_rollouts, before any request is served: a running rollout with a
\* running step is aborted; otherwise its scheduled steps are armed again.  A
\* rollout in any other status is left as it is.
Reconcile ==
  /\ ~up
  /\ up' = TRUE
  /\ LET lost == {s \in Steps : step[s] = "running"} IN
     IF rollout = "running" /\ lost # {}
     THEN /\ step' = [s \in Steps |-> IF s \in lost THEN "error" ELSE step[s]]
          /\ rollout' = "aborted"
          /\ UNCHANGED jobs
     ELSE /\ jobs' = IF rollout = "running"
                     THEN {s \in Steps : step[s] = "scheduled"} ELSE {}
          /\ UNCHANGED <<rollout, step>>
  /\ UNCHANGED <<exec, req, starter, crashes, trigger>>

-----------------------------------------------------------------------------
(* The whole.                                                              *)

BackgroundStep ==
  \/ Start
  \/ \E s \in Steps : FireJob(s) \/ RingStep(s) \/ RingFault(s)

Next ==
  \/ BackgroundStep
  \/ \E a \in Admins : Ask(a) \/ ServeStep(a)
  \/ Crash \/ Reconcile

\* The event loop runs every ready coroutine, every due job fires, an upgrade
\* ends (each is under a timeout) and a dead process is restarted.  Nobody has
\* to start a rollout or to ask for anything.
Fairness ==
  /\ WF_vars(CommitSteps) /\ WF_vars(ArmFirst) /\ WF_vars(Reconcile)
  /\ \A s \in Steps : WF_vars(FireJob(s)) /\ WF_vars(RingStep(s))
  /\ \A a \in Admins : WF_vars(ServeStep(a))

\* If Serial, requests that come one after the other could hold up everything
\* else.  The queue of the event loop is first in, first out: what is ready again
\* and again has its turn.
FairTurns ==
  /\ SF_vars(CommitSteps) /\ SF_vars(ArmFirst)
  /\ \A s \in Steps : SF_vars(FireJob(s)) /\ SF_vars(RingStep(s))

Spec == Init /\ [][Next]_vars
FairSpec == Spec /\ Fairness
FairSerialSpec == FairSpec /\ FairTurns

-----------------------------------------------------------------------------
(* Safety.                                                                 *)

\* A ring is in progress from the commit that starts it to the one that ends it.
InProgress(s) == exec[s] \in {"ring", "passed", "failed"}

\* Rings of a rollout never run at the same time (the docstring of _running_step:
\* staging is only meaningful if rings run one at a time).
OneRingAtATime == \A s, t \in Steps : InProgress(s) /\ InProgress(t) => s = t

\* A ring that no admin promoted or resumed runs only after its predecessor
\* succeeded: the health gate of _execute_step is never passed by accident, not
\* by a restart, a stale job or a failed abort.
GateHolds ==
  \A s \in Steps : InProgress(s) /\ s > 0 /\ trigger[s] = "auto" => step[s - 1] = "success"

\* The rollout is aborted, and what other requests read before is written.
Halted == rollout = "aborted" /\ \A a \in Admins : req[a].op \in {"none", "abort"}

\* From then on the abort is final: no job, coroutine, request or restart takes
\* the rollout up again (the guards on ACTIVE_ROLLOUT_STATUSES, on 'running' /
\* 'paused', and the reconciliation), however they interleave.  A pause or a
\* promotion that was accepted before may still be written over the abort.
HaltIsFinal == [][Halted => Halted']_vars

\* A ring that ended is never run again and its result never rewritten.
ResultsStand ==
  [][\A s \in Steps : step[s] \in {"success", "error"} => step'[s] = step[s]]_vars

\* Refinement: the rows, and the coroutines that have read them, as the ring
\* states of StagedRollout.
RingOf(s) ==
  CASE step[s] = "success" -> "passed"
    [] step[s] = "error"   -> "failed"
    [] step[s] = "running" -> "running"
    [] OTHER -> IF exec[s] \in {"readStep", "begin"} THEN "cleared" ELSE "waiting"

\* If requests interleave, a pause may be written late.
Staged == INSTANCE StagedRollout WITH LatePauses <- ~Serial,
                                      phase <- rollout, ring <- [s \in Steps |-> RingOf(s)]

\* The driver implements the staged rollout.
ImplementsStaged == Staged!StagedSpec

-----------------------------------------------------------------------------
(* Liveness.                                                               *)

\* A ring that is due or running under an active rollout is not forgotten: it
\* ends, or the rollout is paused or over.  Restarts are what this is about.
NoRingForgotten ==
  \A s \in Steps : step[s] \in {"scheduled", "running"} ~>
    (step[s] \notin {"scheduled", "running"} \/ rollout \notin Active \/ rollout = "paused")

\* Every ring ended while the rollout was paused: a resume then sets it running
\* with nothing left to complete it.
EndedPaused == rollout = "paused" /\ \A s \in Steps : step[s] \in {"success", "error"}

\* An abort that may not be recorded is under way, or it was not recorded and
\* nothing is at work on the ring it was for.
AbortInDoubt ==
  /\ AbortMayFail
  /\ \E s \in Steps :
       \/ exec[s] \in {"abort", "abortCommit"}
       \/ exec[s] = "idle" /\ step[s] \in {"running", "error"}
       \/ exec[s] = "idle" /\ step[s] = "scheduled" /\ s \notin jobs

\* A rollout does not run for ever, whatever admins do one after the other: every
\* ring that passes is followed by the next one or by completion, every failure by
\* the abort.  Excepted are a restart, an abort that could not be recorded, and a
\* last ring that ended under a pause.
RunningEnds ==
  <>[](rollout = "running" /\ ~AbortInDoubt) => <>(crashes > 0 \/ EndedPaused)

=============================================================================
