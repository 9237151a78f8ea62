---------------------------- MODULE FleetRunProofs ----------------------------
(***************************************************************************)
(* A fleet run is made of calls of UpgradeManager and does nothing else to   *)
(* their state, so whatever is proved of the calls holds in a fleet run.     *)
(***************************************************************************)
EXTENDS FleetRun, UpgradeManagerProofs

\* Every step of a fleet run is a step of the calls or leaves them alone.
LEMMA StepsAreManagerSteps == [Next]_vars => [ManagerNext]_managerVars
<1> SUFFICES ASSUME Next PROVE [ManagerNext]_managerVars
  BY DEF vars
<1>1. ASSUME CreateTask \/ MainStep \/ FinishLost PROVE UNCHANGED managerVars
  BY <1>1 DEF CreateTask, MainStep, StartTask, Gathered, Finish, FinishLost
<1>2. ASSUME NEW s \in Servers, WorkerStep(s) \/ CountLost(s) PROVE [ManagerNext]_managerVars
  <2>1. CASE TakeSlot(s)
    BY <2>1, CallsAssumption DEF TakeSlot, ManagerNext
  <2>2. CASE Collect(s) \/ ReadProgress(s) \/ StoreProgress(s) \/ CountLost(s)
    BY <2>2 DEF Collect, ReadProgress, StoreProgress, CountLost
  <2> QED BY <1>2, <2>1, <2>2 DEF WorkerStep
<1>3. ASSUME NEW c \in Calls, Serve(c) \/ CallRaises(c) PROVE ManagerNext
  BY <1>3 DEF Serve, CallRaises, ManagerNext
<1>4. ASSUME NEW r \in Rivals, Rival(r) PROVE ManagerNext
  BY <1>4, CallsAssumption, ServersAssumption DEF Rival, ManagerNext
<1>5. ASSUME SocketCancel \/ Disconnect \/ Poll \/ PollFails PROVE UNCHANGED managerVars
  BY <1>5 DEF SocketCancel, Disconnect, Poll, PollFails
<1>6. ASSUME NEW a \in Admins, AskCancel(a) \/ CommitCancel(a) PROVE UNCHANGED managerVars
  BY <1>6 DEF AskCancel, CommitCancel
<1>7. ASSUME Crash \/ Reconcile PROVE [ManagerNext]_managerVars
  BY <1>7 DEF Crash, Reconcile, ManagerNext
<1> QED BY <1>1, <1>2, <1>3, <1>4, <1>5, <1>6, <1>7 DEF Next

\* A fleet run implements UpgradeManager: workers, cancels, lost commits and restarts
\* are calls of upgrade_server, calls that raise, and a ManagerCrash.
THEOREM FleetImplementsManager == Spec => ManagerSpec
<1>1. Init => ManagerInit
  BY DEF Init
<1> QED BY <1>1, StepsAreManagerSteps, PTL DEF Spec, ManagerSpec

\* In a fleet run of any size, with any rivals, two apts never run on one server.
THEOREM FleetOneApt == Spec => []OneAptPerServer
BY FleetImplementsManager, OneApt, PTL

\* Nor does it leave a server marked as busy or locked.
THEOREM FleetLeavesNothing == Spec => []NothingLeaks
BY FleetImplementsManager, LeavesNothing, PTL

-----------------------------------------------------------------------------
(* The end of a run.  The checked invariant says nothing of a run that is     *)
(* closing or dead; the inductive one follows the workers through both.      *)

Closed == {"success", "error", "cancelled"}

\* A worker that a crash took down, or that is out.
Over(s) == Left(s) \/ worker[s] = "dead"

Types ==
  /\ task \in [status : {"none", "queued", "running"} \union Terminal,
               done : Nat, cancel : BOOLEAN]
  /\ worker \in [Servers -> {"queued", "call", "count", "store", "skipped", "out", "dead"}]
  /\ seen \in [Servers -> Nat]

Course ==
  /\ main \in {"closing", "finished", "unrecorded"} => \A s \in Servers : Left(s)
  /\ main = "dead" => \A s \in Servers : Over(s)
  /\ task.status \in Closed => \A s \in Servers : Left(s)
  /\ task.status \in Terminal => main \in {"finished", "dead"}
  /\ ~up => main = "dead"

FInv == Types /\ Course

LEMMA FInvInit == Init => FInv
  BY DEF Init, FInv, Types, Course, Terminal, Closed

LEMMA TypesStep == Types /\ [Next]_vars => Types'
<1> SUFFICES ASSUME Types, [Next]_vars PROVE Types'
  OBVIOUS
<1> USE DEF Types, Terminal
<1>1. CASE CreateTask \/ MainStep \/ FinishLost
  BY <1>1 DEF CreateTask, MainStep, StartTask, Gathered, Finish, FinishLost
<1>2. ASSUME NEW s \in Servers, WorkerStep(s) \/ CountLost(s) PROVE Types'
  <2>1. CASE TakeSlot(s) \/ Collect(s)
    BY <2>1 DEF TakeSlot, Collect
  <2>2. CASE ReadProgress(s) \/ StoreProgress(s) \/ CountLost(s)
    BY <2>2 DEF ReadProgress, StoreProgress, CountLost
  <2> QED BY <1>2, <2>1, <2>2 DEF WorkerStep
<1>3. ASSUME NEW c \in Calls, Serve(c) \/ CallRaises(c) PROVE Types'
  BY <1>3 DEF Serve, CallRaises, fleetVars, runVars
<1>4. ASSUME NEW r \in Rivals, Rival(r) PROVE Types'
  BY <1>4 DEF Rival, fleetVars, runVars
<1>5. CASE SocketCancel \/ Disconnect \/ Poll \/ PollFails
  BY <1>5 DEF SocketCancel, Disconnect, Poll, PollFails
<1>6. ASSUME NEW a \in Admins, AskCancel(a) \/ CommitCancel(a) PROVE Types'
  BY <1>6 DEF AskCancel, CommitCancel, runVars
<1>7. CASE Crash \/ Reconcile
  BY <1>7 DEF Crash, Reconcile, runVars, Left
<1>8. CASE UNCHANGED vars
  BY <1>8 DEF vars, fleetVars, runVars
<1> QED BY <1>1, <1>2, <1>3, <1>4, <1>5, <1>6, <1>7, <1>8 DEF Next

LEMMA CourseStep ==
  ASSUME ReturnExceptions, FInv, [Next]_vars
  PROVE  Course'
<1> USE DEF FInv, Types, Course, Terminal, Closed, Left, Over
<1>1. CASE CreateTask \/ MainStep \/ FinishLost
  BY <1>1 DEF CreateTask, MainStep, StartTask, Gathered, Finish, FinishLost
\* A worker that takes a step is not over, so the run is neither closing nor dead.
<1>2. ASSUME NEW s \in Servers, WorkerStep(s) \/ CountLost(s) PROVE Course'
  <2>1. /\ main \notin {"closing", "finished", "unrecorded", "dead"} /\ up
        /\ task.status \notin Terminal
    BY <1>2 DEF WorkerStep, TakeSlot, Collect, ReadProgress, StoreProgress, CountLost
  <2>2. main' = main /\ up' = up /\ task'.status = task.status
    BY <1>2 DEF WorkerStep, TakeSlot, Collect, ReadProgress, StoreProgress, CountLost
  <2> QED BY <2>1, <2>2
<1>3. ASSUME NEW c \in Calls, Serve(c) \/ CallRaises(c) PROVE Course'
  BY <1>3 DEF Serve, CallRaises, fleetVars, runVars
<1>4. ASSUME NEW r \in Rivals, Rival(r) PROVE Course'
  BY <1>4 DEF Rival, fleetVars, runVars
<1>5. CASE SocketCancel \/ Disconnect \/ Poll \/ PollFails
  BY <1>5 DEF SocketCancel, Disconnect, Poll, PollFails
<1>6. ASSUME NEW a \in Admins, AskCancel(a) \/ CommitCancel(a) PROVE Course'
  BY <1>6 DEF AskCancel, CommitCancel, runVars
<1>7. CASE Crash
  BY <1>7 DEF Crash
<1>8. CASE Reconcile
  BY <1>8 DEF Reconcile, runVars
<1>9. CASE UNCHANGED vars
  BY <1>9 DEF vars, fleetVars, runVars
<1> QED BY <1>1, <1>2, <1>3, <1>4, <1>5, <1>6, <1>7, <1>8, <1>9 DEF Next

LEMMA FInvariance == ASSUME ReturnExceptions PROVE Spec => []FInv
<1>1. FInv /\ [Next]_vars => FInv'
  BY TypesStep, CourseStep DEF FInv
<1> QED BY FInvInit, <1>1, PTL DEF Spec

\* A run whose gather keeps the exceptions closes its task only after its last
\* worker is out, whatever the servers, the rivals, the cancels and the restarts.
THEOREM FleetEndsAfterWorkers == ASSUME ReturnExceptions PROVE Spec => []EndsAfterWorkers
<1>1. FInv => EndsAfterWorkers
  BY DEF FInv, Course, Closed, EndsAfterWorkers
<1> QED BY FInvariance, <1>1, PTL

\* And what the task ended with stands: nothing that is still under way, and no
\* restart, writes its status or its progress again.
THEOREM FleetTerminalStands == ASSUME ReturnExceptions PROVE Spec => TerminalStands
<1> DEFINE Stands == task.status \in Terminal => task'.status = task.status /\ task'.done = task.done
<1>1. ASSUME FInv, [Next]_vars PROVE Stands
  <2> SUFFICES ASSUME task.status \in Terminal PROVE task'.status = task.status /\ task'.done = task.done
    OBVIOUS
  <2> USE <1>1 DEF FInv, Types, Course, Terminal, Closed, Left, Over
  <2>1. /\ main \in {"finished", "dead"} /\ \A s \in Servers : Over(s)
        /\ task.status \notin {"queued", "running"}
    OBVIOUS
  <2>2. CASE CreateTask \/ MainStep \/ FinishLost
    BY <2>1, <2>2 DEF CreateTask, MainStep, StartTask, Gathered, Finish, FinishLost
  <2>3. ASSUME NEW s \in Servers, WorkerStep(s) \/ CountLost(s) PROVE task' = task
    BY <2>1, <2>3 DEF WorkerStep, TakeSlot, Collect, ReadProgress, StoreProgress, CountLost
  <2>4. ASSUME NEW c \in Calls, Serve(c) \/ CallRaises(c) PROVE task' = task
    BY <2>4 DEF Serve, CallRaises, fleetVars
  <2>5. ASSUME NEW r \in Rivals, Rival(r) PROVE task' = task
    BY <2>5 DEF Rival, fleetVars
  <2>6. CASE SocketCancel \/ Disconnect \/ Poll \/ PollFails
    BY <2>6 DEF SocketCancel, Disconnect, Poll, PollFails
  <2>7. ASSUME NEW a \in Admins, AskCancel(a) \/ CommitCancel(a) PROVE Stands
    BY <2>7 DEF AskCancel, CommitCancel
  <2>8. CASE Crash \/ Reconcile
    BY <2>1, <2>8 DEF Crash, Reconcile
  <2>9. CASE UNCHANGED vars
    BY <2>9 DEF vars, fleetVars
  <2> QED BY <1>1, <2>2, <2>3, <2>4, <2>5, <2>6, <2>7, <2>8, <2>9 DEF Next
<1>2. FInv /\ [Next]_vars => [Stands]_vars
  BY <1>1
<1> QED BY FInvariance, <1>2, PTL DEF Spec, TerminalStands

-----------------------------------------------------------------------------
(* Cancels.  That a cancel is heard is inductive with nothing added.  That it *)
(* leaves alone what has begun rests on one fact more: the call of a worker   *)
(* is under way only while its worker waits for it, in a process that is up.  *)

\* A cancel of the row reaches every run, whatever is lost and whoever leaves: until
\* its event is set the watcher polls, or a poll of it has failed.
THEOREM FleetCancelHeard == Spec => []CancelHeard
<1>1. Init => CancelHeard
  BY DEF Init, CancelHeard
<1>2. ASSUME CancelHeard, [Next]_vars PROVE CancelHeard'
  <2> USE <1>2 DEF CancelHeard
  <2>1. CASE CreateTask \/ MainStep \/ FinishLost
    BY <2>1 DEF CreateTask, MainStep, StartTask, Gathered, Finish, FinishLost
  <2>2. ASSUME NEW s \in Servers, WorkerStep(s) \/ CountLost(s)
        PROVE  UNCHANGED <<main, event, watcher>>
    BY <2>2 DEF WorkerStep, TakeSlot, Collect, ReadProgress, StoreProgress, CountLost
  <2>3. ASSUME NEW c \in Calls, Serve(c) \/ CallRaises(c) PROVE UNCHANGED <<main, event, watcher>>
    BY <2>3 DEF Serve, CallRaises, fleetVars, runVars
  <2>4. ASSUME NEW r \in Rivals, Rival(r) PROVE UNCHANGED <<main, event, watcher>>
    BY <2>4 DEF Rival, fleetVars, runVars
  <2>5. CASE SocketCancel \/ Disconnect \/ Poll \/ PollFails
    BY <2>5 DEF SocketCancel, Disconnect, Poll, PollFails
  <2>6. ASSUME NEW a \in Admins, AskCancel(a) \/ CommitCancel(a)
        PROVE  UNCHANGED <<main, event, watcher>>
    BY <2>6 DEF AskCancel, CommitCancel, runVars
  <2>7. CASE Crash \/ Reconcile
    BY <2>7 DEF Crash, Reconcile, runVars
  <2>8. CASE UNCHANGED vars
    BY <2>8 DEF vars, fleetVars, runVars
  <2> QED BY <1>2, <2>1, <2>2, <2>3, <2>4, <2>5, <2>6, <2>7, <2>8 DEF Next
<1> QED BY <1>1, <1>2, PTL DEF Spec

\* The call of s has been made and is not over.
UnderWay(s) == call[s].pc \notin {"idle", "done", "raised", "dead"}

Awaited == \A s \in Servers : UnderWay(s) => up /\ worker[s] = "call"

CancelInv == ManagerTypeOK /\ Types /\ Awaited

\* A step of one call leaves the others where they are, and its own made.
LEMMA OnlyItsCall ==
  ASSUME ManagerTypeOK, NEW c \in Calls, ManagerStep(c) \/ Raise(c)
  PROVE  /\ \A d \in Calls \ {c} : call'[d] = call[d]
         /\ UnderWay(c) /\ call'[c].pc # "idle"
<1>1. ASSUME NEW pc \in CallPCs, At(c, pc), pc # "idle"
      PROVE  (\A d \in Calls \ {c} : call'[d] = call[d]) /\ call'[c].pc # "idle"
  BY <1>1 DEF ManagerTypeOK, At
<1>2. CASE Skip(c) \/ Claim(c) \/ Refuse(c) \/ Queue(c)
  BY <1>2, <1>1 DEF Skip, Claim, Refuse, Queue, EnterLock, UnderWay, CallPCs
<1>3. CASE Acquire(c) \/ Begin(c) \/ RunApt(c)
  BY <1>3, <1>1 DEF Acquire, Begin, RunApt, UnderWay, CallPCs
<1>4. CASE Record(c) \/ Return(c) \/ Raise(c)
  BY <1>4, <1>1 DEF Record, Return, Raise, Ending, UnderWay, CallPCs
<1> QED BY <1>2, <1>3, <1>4 DEF ManagerStep

LEMMA EngagedUnderWay == ASSUME NEW s \in Servers, Engaged(s) PROVE UnderWay(s)
BY DEF Engaged, Holding, Ending, UnderWay

\* Rivals' calls are not the workers'.
LEMMA RivalElsewhere ==
  ASSUME ManagerTypeOK, NEW r \in Rivals, Rival(r), NEW s \in Servers
  PROVE  call'[s] = call[s]
BY CallsAssumption DEF Rival, Enter, ManagerTypeOK

LEMMA AwaitedStep == CancelInv /\ [Next]_vars => Awaited'
<1> SUFFICES ASSUME CancelInv, [Next]_vars, NEW s \in Servers, UnderWay(s)'
             PROVE  up' /\ worker'[s] = "call"
  BY DEF Awaited
<1> USE CallsAssumption DEF CancelInv, Types, Awaited, UnderWay
<1>1. CASE CreateTask \/ MainStep \/ FinishLost
  BY <1>1 DEF CreateTask, MainStep, StartTask, Gathered, Finish, FinishLost, managerVars
<1>2. ASSUME NEW w \in Servers, TakeSlot(w) PROVE up' /\ worker'[s] = "call"
  <2>1. CASE w = s
    BY <1>2, <2>1 DEF TakeSlot, Enter, managerVars
  <2>2. CASE w # s
    BY <1>2, <2>2 DEF TakeSlot, Enter, ManagerTypeOK, managerVars
  <2> QED BY <2>1, <2>2
<1>3. ASSUME NEW w \in Servers, Collect(w) \/ ReadProgress(w) \/ StoreProgress(w) \/ CountLost(w)
      PROVE  up' /\ worker'[s] = "call"
  BY <1>3 DEF Collect, ReadProgress, StoreProgress, CountLost, managerVars
<1>4. ASSUME NEW c \in Calls, Serve(c) \/ CallRaises(c) PROVE up' /\ worker'[s] = "call"
  <2>1. UnderWay(s)
    BY <1>4, OnlyItsCall DEF Serve, CallRaises
  <2> QED BY <1>4, <2>1 DEF Serve, CallRaises, fleetVars, runVars
<1>5. ASSUME NEW r \in Rivals, Rival(r) PROVE up' /\ worker'[s] = "call"
  BY <1>5, RivalElsewhere DEF Rival, fleetVars, runVars
<1>6. CASE SocketCancel \/ Disconnect \/ Poll \/ PollFails
  BY <1>6 DEF SocketCancel, Disconnect, Poll, PollFails, managerVars
<1>7. ASSUME NEW a \in Admins, AskCancel(a) \/ CommitCancel(a) PROVE up' /\ worker'[s] = "call"
  BY <1>7 DEF AskCancel, CommitCancel, managerVars, runVars
<1>8. CASE Crash
  BY <1>8 DEF Crash, ManagerCrash, ManagerTypeOK
<1>9. CASE Reconcile
  BY <1>9 DEF Reconcile, managerVars
<1>10. CASE UNCHANGED vars
  BY <1>10 DEF vars, managerVars, fleetVars, runVars
<1> QED
  BY <1>1, <1>2, <1>3, <1>4, <1>5, <1>6, <1>7, <1>8, <1>9, <1>10 DEF Next, WorkerStep

LEMMA CancelInvariance == Spec => []CancelInv
<1>1. Spec => []ManagerTypeOK
  BY FleetImplementsManager, ManagerTypeCorrect, PTL
<1>2. Init => Types /\ Awaited
  BY CallsAssumption DEF Init, ManagerInit, Types, Terminal, Awaited, UnderWay
<1>3. ManagerTypeOK /\ Types /\ Awaited /\ [Next]_vars => Types' /\ Awaited'
  BY TypesStep, AwaitedStep DEF CancelInv
<1> QED BY <1>1, <1>2, <1>3, PTL DEF Spec, CancelInv

\* After a cancel no worker that waits for a slot starts an upgrade, and no upgrade
\* that was begun is left, for any number of servers, slots and rivals.
THEOREM FleetCancelStops == Spec => CancelStops
<1> DEFINE Stops == event => \A s \in Servers :
              /\ worker[s] = "queued" => worker'[s] \in {"queued", "skipped", "dead"}
              /\ Engaged(s) /\ up' => call'[s].pc # "idle" /\ worker'[s] = "call"
<1>1. ASSUME CancelInv, [Next]_vars PROVE Stops
  <2> SUFFICES ASSUME event, NEW s \in Servers
               PROVE  /\ worker[s] = "queued" => worker'[s] \in {"queued", "skipped", "dead"}
                      /\ Engaged(s) /\ up' => call'[s].pc # "idle" /\ worker'[s] = "call"
    OBVIOUS
  <2> USE <1>1, CallsAssumption DEF CancelInv, Types
  <2>0. Engaged(s) => UnderWay(s) /\ up /\ worker[s] = "call" /\ call[s].pc # "idle"
    BY EngagedUnderWay DEF Awaited, UnderWay
  <2>1. CASE CreateTask \/ MainStep \/ FinishLost
    BY <2>0, <2>1 DEF CreateTask, MainStep, StartTask, Gathered, Finish, FinishLost, managerVars
  <2>2. ASSUME NEW w \in Servers, TakeSlot(w)
        PROVE  worker[w] = "queued" /\ worker' = [worker EXCEPT ![w] = "skipped"] /\ call' = call
    BY <2>2 DEF TakeSlot, managerVars
  <2>3. ASSUME NEW w \in Servers, Collect(w) \/ ReadProgress(w) \/ StoreProgress(w) \/ CountLost(w)
        PROVE  /\ call' = call
               /\ worker'[s] = worker[s] \/ (~Engaged(s) /\ worker[s] # "queued")
    <3>1. call' = call /\ \A t \in Servers \ {w} : worker'[t] = worker[t]
      BY <2>3 DEF Collect, ReadProgress, StoreProgress, CountLost, managerVars
    <3>2. worker[w] # "queued" /\ ~Engaged(w)
      BY <2>3, EngagedUnderWay DEF Collect, ReadProgress, StoreProgress, CountLost, Awaited, UnderWay
    <3> QED BY <3>1, <3>2
  <2>4. ASSUME NEW c \in Calls, Serve(c) \/ CallRaises(c)
        PROVE  worker' = worker /\ (call[s].pc # "idle" => call'[s].pc # "idle")
    BY <2>4, OnlyItsCall DEF Serve, CallRaises, fleetVars, runVars
  <2>5. ASSUME NEW r \in Rivals, Rival(r) PROVE worker' = worker /\ call'[s] = call[s]
    BY <2>5, RivalElsewhere DEF Rival, fleetVars, runVars
  <2>6. CASE SocketCancel \/ Disconnect \/ Poll \/ PollFails
    BY <2>0, <2>6 DEF SocketCancel, Disconnect, Poll, PollFails, managerVars
  <2>7. ASSUME NEW a \in Admins, AskCancel(a) \/ CommitCancel(a)
        PROVE  worker' = worker /\ call' = call
    BY <2>7 DEF AskCancel, CommitCancel, managerVars, runVars
  <2>8. CASE Crash
    BY <2>8 DEF Crash, Left
  <2>9. CASE Reconcile
    BY <2>0, <2>9 DEF Reconcile, managerVars, runVars
  <2>10. CASE UNCHANGED vars
    BY <2>0, <2>10 DEF vars, managerVars, fleetVars, runVars
  <2>11. ASSUME NEW w \in Servers, WorkerStep(w) \/ CountLost(w)
         PROVE  /\ worker[s] = "queued" => worker'[s] \in {"queued", "skipped", "dead"}
                /\ Engaged(s) /\ up' => call'[s].pc # "idle" /\ worker'[s] = "call"
    BY <2>0, <2>2, <2>3, <2>11 DEF WorkerStep
  <2> QED BY <1>1, <2>0, <2>1, <2>4, <2>5, <2>6, <2>7, <2>8, <2>9, <2>10, <2>11 DEF Next
<1>2. CancelInv /\ [Next]_vars => [Stops]_vars
  BY <1>1
<1> QED BY CancelInvariance, <1>2, PTL DEF Spec, CancelStops
=============================================================================
