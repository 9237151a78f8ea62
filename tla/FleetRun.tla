------------------------------- MODULE FleetRun -------------------------------
(***************************************************************************)
(* A fleet run over a WebSocket (ws_upgrade_all in                          *)
(* backend/routers/upgrades.py) with its Task row (backend/task_queue.py).  *)
(*                                                                         *)
(* One worker per target server waits for a slot of a semaphore, makes a    *)
(* managed call of UpgradeManager and counts itself in the task's progress. *)
(* An admin cancels over the socket (a listener sets an event) or by        *)
(* POST /api/tasks/{id}/cancel (a flag in the row, which a watcher polls).  *)
(* The main coroutine gathers the workers and writes the terminal status.   *)
(* Rivals are calls that do not belong to the run: single-server upgrades,  *)
(* rollout rings, template applies.                                        *)
(*                                                                         *)
(* Each await on the database ends an action.  A reader and a writer of the *)
(* row use sessions of their own, with no lock from the read to the commit. *)
(***************************************************************************)
EXTENDS UpgradeManager

CONSTANTS Rivals,            \* calls made by others
          Contended,         \* the servers they are made on
          Admins,            \* requests to cancel over HTTP
          Concurrency,       \* ScheduleConfig.upgrade_concurrency
          ReturnExceptions   \* gather(..., return_exceptions=True), as in
                             \* ws_upgrade_all but not in ws_autoremove_all

\* The worker of a server is the call of the same name.
ASSUME CallsAssumption == Calls = Servers \union Rivals /\ Servers \cap Rivals = {}
ASSUME ServersAssumption == IsFiniteSet(Servers) /\ Contended \subseteq Servers
ASSUME ConcurrencyAssumption == Concurrency \in Nat \ {0}
ASSUME ReturnExceptionsAssumption == ReturnExceptions \in BOOLEAN

VARIABLES
  task,       \* the Task row: status, progress_done, cancel_requested
  main,       \* where the coroutine of the stream is
  worker,     \* where the worker of each server is
  seen,       \* progress_done as a worker read it
  collected,  \* servers in the list of histories
  event,      \* cancel_event
  listener,   \* is somebody listening on the socket?
  watcher,    \* the poller of cancel_requested
  asker,      \* where each POST is
  up          \* is the process running?

runVars == <<main, worker, seen, collected, event, listener, watcher>>
fleetVars == <<task, runVars, asker, up>>
vars == <<managerVars, fleetVars>>

Terminal == {"success", "error", "cancelled", "interrupted"}

FleetTypeOK ==
  /\ ManagerTypeOK
  /\ task \in [status : {"none", "queued", "running"} \union Terminal,
               done : 0 .. Cardinality(Servers), cancel : BOOLEAN]
  /\ main \in {"idle", "created", "gather", "closing", "finished", "unrecorded", "dead"}
  /\ worker \in [Servers -> {"queued", "call", "count", "store", "skipped", "out", "dead"}]
  /\ seen \in [Servers -> 0 .. Cardinality(Servers)]
  /\ collected \in SUBSET Servers
  /\ event \in BOOLEAN /\ listener \in BOOLEAN /\ up \in BOOLEAN
  /\ watcher \in {"off", "polling", "failed"}
  /\ asker \in [Admins -> {"idle", "commit", "done", "dead"}]

Init ==
  /\ ManagerInit
  /\ \A s \in Servers : call[s].server = s
  /\ \A r \in Rivals : call[r].server = CHOOSE s \in Servers : TRUE
  /\ task = [status |-> "none", done |-> 0, cancel |-> FALSE]
  /\ main = "idle"
  /\ worker = [s \in Servers |-> "queued"]
  /\ seen = [s \in Servers |-> 0]
  /\ collected = {}
  /\ event = FALSE /\ listener = FALSE /\ up = TRUE
  /\ watcher = "off"
  /\ asker = [a \in Admins |-> "idle"]

-----------------------------------------------------------------------------
(* The stream.                                                             *)

CreateTask ==
  /\ up /\ main = "idle"
  /\ task' = [task EXCEPT !.status = "queued"]
  /\ main' = "created"
  /\ UNCHANGED <<managerVars, worker, seen, collected, event, listener, watcher, asker, up>>

\* Running, with a listener, a watcher and the workers behind it.
StartTask ==
  /\ up /\ main = "created"
  /\ task' = [task EXCEPT !.status = "running"]
  /\ main' = "gather"
  /\ listener' = TRUE /\ watcher' = "polling"
  /\ UNCHANGED <<managerVars, worker, seen, collected, event, asker, up>>

HoldsSlot(s) == worker[s] \in {"call", "count", "store"}
SlotFree == Cardinality({s \in Servers : HoldsSlot(s)}) < Concurrency
Launched == main \in {"gather", "closing", "finished", "unrecorded"}

\* Mutant: the event is not looked at once the slot is held.
TakeSlotAnyway(s) ==
  /\ up /\ Launched /\ worker[s] = "queued" /\ SlotFree
  /\ Enter(s, "managed", s)
  /\ worker' = [worker EXCEPT ![s] = "call"]
  /\ UNCHANGED <<task, main, seen, collected, event, listener, watcher, asker, up>>

\* A worker gets a slot and looks at the event in the same step.
TakeSlot(s) ==
  /\ up /\ Launched /\ worker[s] = "queued" /\ SlotFree
  /\ \/ /\ ~event
        /\ Enter(s, "managed", s)
        /\ worker' = [worker EXCEPT ![s] = "call"]
     \/ /\ event
        /\ worker' = [worker EXCEPT ![s] = "skipped"]
        /\ UNCHANGED managerVars
  /\ UNCHANGED <<task, main, seen, collected, event, listener, watcher, asker, up>>

\* The call returned a history, or raised: the gather keeps the exception.
Collect(s) ==
  /\ up /\ worker[s] = "call"
  /\ \/ /\ call[s].pc = "done"
        /\ collected' = collected \union {s}
        /\ worker' = [worker EXCEPT ![s] = "count"]
     \/ /\ call[s].pc = "raised"
        /\ worker' = [worker EXCEPT ![s] = "out"]
        /\ UNCHANGED collected
  /\ UNCHANGED <<managerVars, task, main, seen, event, listener, watcher, asker, up>>

\* increment_task_progress reads the row ...
ReadProgress(s) ==
  /\ up /\ worker[s] = "count"
  /\ seen' = [seen EXCEPT ![s] = task.done]
  /\ worker' = [worker EXCEPT ![s] = "store"]
  /\ UNCHANGED <<managerVars, task, main, collected, event, listener, watcher, asker, up>>

\* ... and commits what it read plus one.
StoreProgress(s) ==
  /\ up /\ worker[s] = "store"
  /\ task' = [task EXCEPT !.done = seen[s] + 1]
  /\ seen' = [seen EXCEPT ![s] = 0]
  /\ worker' = [worker EXCEPT ![s] = "out"]
  /\ UNCHANGED <<managerVars, main, collected, event, listener, watcher, asker, up>>

\* A failure to count is swallowed.
CountLost(s) ==
  /\ up /\ DbMayFail /\ worker[s] \in {"count", "store"}
  /\ seen' = [seen EXCEPT ![s] = 0]
  /\ worker' = [worker EXCEPT ![s] = "out"]
  /\ UNCHANGED <<managerVars, task, main, collected, event, listener, watcher, asker, up>>

Left(s) == worker[s] \in {"skipped", "out"}

\* Mutant: the stream waits for a listener that it did not cancel.
GatheredAndWait ==
  /\ up /\ main = "gather" /\ \A s \in Servers : Left(s)
  /\ ~listener
  /\ main' = "closing"
  /\ watcher' = "off"
  /\ UNCHANGED <<managerVars, task, worker, seen, collected, event, listener, asker, up>>

\* The gather is over; the listener and the watcher are cancelled and awaited.
Gathered ==
  /\ up /\ main = "gather"
  /\ \/ \A s \in Servers : Left(s)
     \/ ~ReturnExceptions /\ \E s \in Servers : worker[s] = "out" /\ call[s].pc = "raised"
  /\ main' = "closing"
  /\ listener' = FALSE /\ watcher' = "off"
  /\ UNCHANGED <<managerVars, task, worker, seen, collected, event, asker, up>>

Failed == {s \in collected : row[s] = "error"}

\* finish_task with the status the histories call for.
Finish ==
  /\ up /\ main = "closing"
  /\ task' = [task EXCEPT !.status = IF event THEN "cancelled"
                                     ELSE IF Failed # {} THEN "error" ELSE "success"]
  /\ main' = "finished"
  /\ UNCHANGED <<managerVars, worker, seen, collected, event, listener, watcher, asker, up>>

\* A failure to write it is logged, and the row stays running.
FinishLost ==
  /\ up /\ DbMayFail /\ main = "closing"
  /\ main' = "unrecorded"
  /\ UNCHANGED <<managerVars, task, worker, seen, collected, event, listener, watcher, asker, up>>

WorkerStep(s) == TakeSlot(s) \/ Collect(s) \/ ReadProgress(s) \/ StoreProgress(s)
MainStep == StartTask \/ Gathered \/ Finish

-----------------------------------------------------------------------------
(* Cancelling.                                                             *)

\* Over the socket.  The listener stops at its first cancel: the name it logs
\* with is a local of the stream that is not bound yet, and the request to
\* flag the row, which comes after it, is never made.
SocketCancel ==
  /\ up /\ listener /\ ~event
  /\ event' = TRUE
  /\ listener' = FALSE
  /\ UNCHANGED <<managerVars, task, main, worker, seen, collected, watcher, asker, up>>

\* The client leaves; the run goes on.
Disconnect ==
  /\ up /\ listener
  /\ listener' = FALSE
  /\ UNCHANGED <<managerVars, task, main, worker, seen, collected, event, watcher, asker, up>>

\* Mutant: the watcher ends after a poll that saw nothing.
PollOnce ==
  /\ up /\ watcher = "polling" /\ ~event
  /\ event' = task.cancel
  /\ watcher' = "off"
  /\ UNCHANGED <<managerVars, task, main, worker, seen, collected, listener, asker, up>>

\* The watcher sees the flag (a poll that does not see it changes nothing).
Poll ==
  /\ up /\ watcher = "polling" /\ task.cancel /\ ~event
  /\ event' = TRUE
  /\ watcher' = "off"
  /\ UNCHANGED <<managerVars, task, main, worker, seen, collected, listener, asker, up>>

\* A poll that fails is the last one.
PollFails ==
  /\ up /\ DbMayFail /\ watcher = "polling"
  /\ watcher' = "failed"
  /\ UNCHANGED <<managerVars, task, main, worker, seen, collected, event, listener, asker, up>>

\* POST /api/tasks/{id}/cancel: a finished task is refused ...
AskCancel(a) ==
  /\ up /\ asker[a] = "idle" /\ task.status \in {"queued", "running"}
  /\ asker' = [asker EXCEPT ![a] = "commit"]
  /\ UNCHANGED <<managerVars, task, runVars, up>>

\* ... and the flag committed, whatever happened since (request_cancel looks
\* again, but in the same session, which hands it the row it already read).
CommitCancel(a) ==
  /\ up /\ asker[a] = "commit"
  /\ task' = [task EXCEPT !.cancel = TRUE]
  /\ asker' = [asker EXCEPT ![a] = "done"]
  /\ UNCHANGED <<managerVars, runVars, up>>

-----------------------------------------------------------------------------
(* The others, and restarts.                                               *)

Rival(r) ==
  /\ up
  /\ \E k \in {"managed", "template"}, s \in Contended : Enter(r, k, s)
  /\ UNCHANGED fleetVars

Serve(c) == up /\ ManagerStep(c) /\ UNCHANGED fleetVars
CallRaises(c) == up /\ Raise(c) /\ UNCHANGED fleetVars

Crash ==
  /\ up /\ main \notin {"idle", "dead"}
  /\ up' = FALSE
  /\ ManagerCrash
  /\ main' = "dead"
  /\ worker' = [s \in Servers |-> IF Left(s) THEN worker[s] ELSE "dead"]
  /\ event' = FALSE /\ listener' = FALSE /\ watcher' = "off"
  /\ asker' = [a \in Admins |-> IF asker[a] = "commit" THEN "dead" ELSE asker[a]]
  /\ seen' = [s \in Servers |-> 0]
  /\ UNCHANGED <<task, collected>>

\* Mutant: every task of the previous process is marked, the finished ones too.
ReconcileAll ==
  /\ ~up /\ up' = TRUE
  /\ task' = [task EXCEPT !.status = "interrupted"]
  /\ UNCHANGED <<managerVars, runVars, asker>>

\* reconcile_interrupted_tasks.
Reconcile ==
  /\ ~up /\ up' = TRUE
  /\ task' = IF task.status \in {"queued", "running"}
             THEN [task EXCEPT !.status = "interrupted"] ELSE task
  /\ UNCHANGED <<managerVars, runVars, asker>>

Next ==
  \/ CreateTask \/ MainStep \/ FinishLost
  \/ \E s \in Servers : WorkerStep(s) \/ CountLost(s)
  \/ \E c \in Calls : Serve(c) \/ CallRaises(c)
  \/ \E r \in Rivals : Rival(r)
  \/ SocketCancel \/ Disconnect \/ Poll \/ PollFails
  \/ \E a \in Admins : AskCancel(a) \/ CommitCancel(a)
  \/ Crash \/ Reconcile

\* The event loop runs what is ready, apt ends (each command is under a
\* timeout) and a dead process is restarted.  Nobody has to start a run, to
\* make a rival call or to cancel, and nothing has to fail.
Fairness ==
  /\ WF_vars(MainStep) /\ WF_vars(Poll) /\ WF_vars(Reconcile)
  /\ \A s \in Servers : WF_vars(WorkerStep(s))
  /\ \A c \in Calls : WF_vars(Serve(c))
  /\ \A a \in Admins : WF_vars(CommitCancel(a))

Spec == Init /\ [][Next]_vars
FairSpec == Spec /\ Fairness

-----------------------------------------------------------------------------
\* The task is closed only after its last worker is out: no upgrade of the run is
\* under way behind a task that says it is over.
EndsAfterWorkers ==
  task.status \in {"success", "error", "cancelled"} => \A s \in Servers : Left(s) \/ ~up

\* After a cancel no worker that still waits for a slot starts an upgrade, while
\* those that have begun go on to their end ("stop after the in-flight server
\* completes").
CancelStops ==
  [][event => \A s \in Servers :
       /\ worker[s] = "queued" => worker'[s] \in {"queued", "skipped", "dead"}
       /\ Engaged(s) /\ up' => call'[s].pc # "idle" /\ worker'[s] = "call"]_vars

\* What a task ended with stands, through restarts too.
TerminalStands ==
  [][task.status \in Terminal => task'.status = task.status /\ task'.done = task.done]_vars

\* A task that runs comes to an end, with or without a restart, unless the
\* database refuses the last write.
TaskEnds ==
  task.status = "running" ~> task.status \in Terminal \/ main = "unrecorded"

\* Until a run is cancelled somebody listens for a cancel of its row: one that is
\* recorded late, after polls that saw nothing, is still heard.
CancelHeard ==
  main = "gather" /\ ~event => watcher \in {"polling", "failed"}
=============================================================================
