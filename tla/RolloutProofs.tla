---------------------------- MODULE RolloutProofs ----------------------------
(***************************************************************************)
(* Proofs about Rollout, for any number of rings, admins and restarts.     *)
(*                                                                         *)
(* The type invariant, and that an abort stands once what was read before   *)
(* it is written, hold however requests interleave.  The rest needs calm:    *)
(* none of the requests is a promote or a resume, or requests are served    *)
(* one at a time (Serial).  Between the check for a running ring and the    *)
(* commit that makes the next one due no job may start; a pause or an abort *)
(* makes no ring due, and may interleave with everything.                  *)
(* The inductive invariant is a picture of the rows: the rings that ended   *)
(* come first, then at most one ring that is due or running, then the rings *)
(* that wait.                                                              *)
(***************************************************************************)
EXTENDS Rollout, TLAPS

Ended == {"success", "error"}

\* Everything before the ring has ended.
AllBeforeEnded(s) == \A r \in Steps : r < s => step[r] \in Ended

\* Nothing after the ring has been touched.
NoneAfterTouched(s) == \A t \in Steps : s < t => step[t] \in {"absent", "pending", "cancelled"}

\* The rows of the rollout: all there or none, and in order.
RowsInOrder ==
  /\ \A s \in Steps : step[s] \in {"scheduled", "running", "success", "error"}
                        => AllBeforeEnded(s)
  /\ \A s, t \in Steps : step[s] = "absent" => step[t] = "absent"
  /\ starter \in {"idle", "rolloutCommitted"} => \A s \in Steps : step[s] = "absent"
  /\ \A s \in Steps : step[s] = "cancelled" => rollout \notin {"none", "running"}

\* A coroutine that is about to start its ring, or has started it, is at the
\* front: its ring is the one ring that is due or running.
CoroutineAtFront ==
  /\ \A s \in Steps : exec[s] = "begin" =>
       /\ step[s] \in {"scheduled", "cancelled"}
       /\ AllBeforeEnded(s) /\ NoneAfterTouched(s)
  /\ \A s \in Steps : InProgress(s) => step[s] = "running"

\* The predecessor of a ring that was made due automatically has succeeded.
GatePassed == \A s \in Steps : s > 0 /\ trigger[s] = "auto" => step[s - 1] = "success"

Picture == RowsInOrder /\ CoroutineAtFront /\ GatePassed

\* Only an abort cancels rings, and it stands.
CancelledIsAborted == \A s \in Steps : step[s] = "cancelled" => rollout = "aborted"

\* What a request in flight has read is still true.
RequestsCurrent ==
  /\ \A a, b \in Admins : req[a].pc # "idle" /\ req[b].pc # "idle" => a = b
  /\ \A a \in Admins :
       /\ req[a].pc \in {"check", "resume"} => rollout \in {"running", "paused"}
       /\ req[a].pc \in {"resume", "pick", "schedule"} =>
            /\ rollout \in {"running", "paused"}
            /\ \A s \in Steps : step[s] # "running"
       /\ req[a].pc = "schedule" =>
            /\ req[a].next \in Waiting
            /\ req[a].nextWas = step[req[a].next]
            /\ \A t \in Waiting : req[a].next <= t
       /\ req[a].pc = "cancel" => rollout = "aborted"
       /\ req[a].pc = "pause" => rollout = "running"

\* Nothing is in flight in a dead process.
NothingInFlight ==
  ~up => /\ \A s \in Steps : exec[s] = "idle"
         /\ \A a \in Admins : req[a].pc = "idle"

\* The inductive invariant when requests are served one at a time ...
IInv == TypeOK /\ RowsInOrder /\ CoroutineAtFront /\ GatePassed
          /\ CancelledIsAborted /\ RequestsCurrent /\ NothingInFlight

\* ... and when they interleave but none makes a ring due: a request that
\* cancels the waiting rings finds the rollout stopped.
Apart ==
  \A a \in Admins : /\ req[a].pc \in {"idle", "pause", "abort", "cancel", "disarm"}
                    /\ req[a].pc = "cancel" => rollout \notin {"none", "running"}

ApartInv == TypeOK /\ Picture /\ Apart

\* What the two have in common.
Front ==
  /\ TypeOK /\ Picture
  /\ \A a \in Admins : req[a].pc = "schedule" => req[a].next \in Waiting

Calm == Serial \/ AdminOps \cap {"promote", "resume"} = {}

\* What the next-state relation comes to when requests are served one at a time.
SerialNext ==
  \/ Quiet /\ BackgroundStep
  \/ Quiet /\ \E a \in Admins : Ask(a)
  \/ \E a \in Admins : ServeStep(a)
  \/ Crash \/ Reconcile
-----------------------------------------------------------------------------
(* Type correctness, whether or not requests are served one at a time.     *)

LEMMA TypeInit == Init => TypeOK
  BY NRingsAssumption, MaxCrashesAssumption
     DEF Init, TypeOK, Steps, ExecPCs, NoReq, Request, ReqPCs

LEMMA TypeBackground == TypeOK /\ BackgroundStep => TypeOK'
<1> SUFFICES ASSUME TypeOK, BackgroundStep PROVE TypeOK'
  OBVIOUS
<1> USE NRingsAssumption DEF TypeOK, Steps, ExecPCs, dbVars
<1>1. CASE Start
  <2>1. CASE CommitRollout
    BY <2>1 DEF CommitRollout
  <2>2. CASE CommitSteps
    BY <2>2 DEF CommitSteps
  <2>3. CASE ArmFirst
    BY <2>3 DEF ArmFirst
  <2>4. QED
    BY <1>1, <2>1, <2>2, <2>3 DEF Start
<1>2. ASSUME NEW s \in Steps, FireJob(s) PROVE TypeOK'
  BY <1>2 DEF FireJob, Goto
<1>3. ASSUME NEW s \in Steps, RingStep(s) PROVE TypeOK'
  <2>1. CASE ReadRollout(s)
    BY <2>1 DEF ReadRollout, Goto
  <2>2. CASE ReadStep(s)
    BY <2>2 DEF ReadStep, Goto
  <2>3. CASE BeginRing(s)
    BY <2>3 DEF BeginRing, Goto
  <2>4. CASE RingPasses(s)
    BY <2>4 DEF RingPasses, Goto
  <2>5. CASE RingFails(s)
    BY <2>5 DEF RingFails, Goto
  <2>6. CASE FinishAndStop(s)
    BY <2>6 DEF FinishAndStop, Goto
  <2>7. CASE FinishAndComplete(s)
    BY <2>7 DEF FinishAndComplete, Goto
  <2>8. CASE FinishAndPromote(s)
    BY <2>8 DEF FinishAndPromote, Goto
  <2>9. CASE ArmNext(s)
    <3>1. s + 1 \in Steps
      BY <2>9 DEF ArmNext
    <3>2. jobs' \subseteq Steps
      BY <2>9, <3>1 DEF ArmNext
    <3>3. QED
      BY <2>9, <3>2 DEF ArmNext, Goto
  <2>10. CASE FinishWithError(s)
    BY <2>10 DEF FinishWithError, Goto
  <2>11. CASE ReadForAbort(s)
    BY <2>11 DEF ReadForAbort, Goto
  <2>12. CASE CommitAbort(s)
    BY <2>12 DEF CommitAbort, Goto
  <2>13. CASE DisarmAfterAbort(s)
    BY <2>13 DEF DisarmAfterAbort, Goto
  <2>14. QED
    BY <1>3, <2>1, <2>2, <2>3, <2>4, <2>5, <2>6, <2>7, <2>8, <2>9, <2>10, <2>11, <2>12, <2>13 DEF RingStep
<1>4. ASSUME NEW s \in Steps, RingFault(s) PROVE TypeOK'
  <2>1. CASE Raise(s)
    BY <2>1 DEF Raise, Goto
  <2>2. CASE AbortLost(s)
    BY <2>2 DEF AbortLost, Goto
  <2>3. QED
    BY <1>4, <2>1, <2>2 DEF RingFault
<1>5. QED
  BY <1>1, <1>2, <1>3, <1>4 DEF BackgroundStep

LEMMA NoReqType == NoReq \in Request
  BY NRingsAssumption DEF NoReq, Request, ReqPCs, Steps

\* What the steps of a request do to its record.
LEMMA RequestTypes ==
  ASSUME TypeOK, NEW a \in Admins
  PROVE  /\ Answer(a) => req' \in [Admins -> Request]
         /\ \A pc \in ReqPCs : Continue(a, pc) => req' \in [Admins -> Request]
<1>1. Answer(a) => req' \in [Admins -> Request]
  BY NoReqType DEF Answer, TypeOK
<1>2. ASSUME NEW pc \in ReqPCs, Continue(a, pc) PROVE req' \in [Admins -> Request]
  <2>1. [req[a] EXCEPT !.pc = pc] \in Request
    BY DEF TypeOK, Request
  <2>2. req' = [req EXCEPT ![a] = [req[a] EXCEPT !.pc = pc]]
    BY <1>2 DEF Continue
  <2>3. QED
    BY <2>1, <2>2 DEF TypeOK
<1>3. QED
  BY <1>1, <1>2

LEMMA TypeRequest ==
  ASSUME TypeOK, NEW a \in Admins, Ask(a) \/ ServeStep(a) PROVE TypeOK'
<1>1. ASSUME NEW op \in {"promote", "pause", "resume", "abort"},
             NEW pc \in ReqPCs, rollout \in {"running", "paused"},
             req' = [req EXCEPT ![a] = [NoReq EXCEPT !.op = op, !.pc = pc, !.was = rollout]]
      PROVE  req' \in [Admins -> Request]
  <2>1. [NoReq EXCEPT !.op = op, !.pc = pc, !.was = rollout] \in Request
    BY <1>1, NoReqType DEF Request
  <2>2. QED
    BY <1>1, <2>1 DEF TypeOK
<1>2. CASE Ask(a)
  <2>1. CASE AskPromote(a)
    BY <2>1, <1>1 DEF AskPromote, TypeOK, dbVars, ReqPCs
  <2>2. CASE AskResume(a)
    BY <2>2, <1>1 DEF AskResume, TypeOK, dbVars, ReqPCs
  <2>3. CASE AskPause(a)
    BY <2>3, <1>1 DEF AskPause, TypeOK, dbVars, ReqPCs
  <2>4. CASE AskAbort(a)
    <3>1. rollout \in {"running", "paused"}
      BY <2>4 DEF AskAbort, Active, TypeOK
    <3>2. QED
      BY <2>4, <3>1, <1>1 DEF AskAbort, TypeOK, dbVars, ReqPCs
  <2>5. QED
    BY <1>2, <2>1, <2>2, <2>3, <2>4 DEF Ask
<1>3. CASE ServeStep(a)
  <2> USE RequestTypes DEF TypeOK, dbVars, ReqPCs
  <2>1. CASE CheckRunning(a)
    BY <2>1 DEF CheckRunning
  <2>2. CASE CommitResume(a)
    BY <2>2 DEF CommitResume
  <2>3. CASE PickNext(a)
    <3>1. CASE Answer(a)
      BY <2>3, <3>1 DEF PickNext
    <3>2. ASSUME NEW s \in Waiting,
                 req' = [req EXCEPT ![a].pc = "schedule", ![a].next = s, ![a].nextWas = step[s]]
          PROVE TypeOK'
      <4> DEFINE r == [req[a] EXCEPT !.pc = "schedule", !.next = s, !.nextWas = step[s]]
      <4>1. r \in Request
        <5>1. s \in Steps /\ step[s] \in {"absent", "pending", "scheduled"}
          BY DEF Waiting
        <5>2. req[a] \in Request
          OBVIOUS
        <5>3. QED
          BY <5>1, <5>2 DEF Request
      <4>2. req' = [req EXCEPT ![a] = r]
        BY <3>2
      <4>3. req' \in [Admins -> Request]
        BY <4>1, <4>2
      <4>4. QED
        BY <2>3, <4>3 DEF PickNext
    <3>3. QED
      BY <2>3, <3>1, <3>2 DEF PickNext
  <2>4. CASE CommitNext(a)
    <3>1. req[a].next \in Steps
      BY DEF Request
    <3>2. QED
      BY <2>4, <3>1 DEF CommitNext
  <2>5. CASE ArmRequested(a)
    <3>1. req[a].next \in Steps
      BY DEF Request
    <3>2. QED
      BY <2>5, <3>1 DEF ArmRequested
  <2>6. CASE CommitPause(a)
    BY <2>6 DEF CommitPause
  <2>7. CASE CommitAdminAbort(a)
    BY <2>7 DEF CommitAdminAbort
  <2>8. CASE CancelWaiting(a)
    BY <2>8 DEF CancelWaiting, Waiting
  <2>9. CASE Disarm(a)
    BY <2>9 DEF Disarm
  <2>10. QED
    BY <1>3, <2>1, <2>2, <2>3, <2>4, <2>5, <2>6, <2>7, <2>8, <2>9 DEF ServeStep
<1>4. QED
  BY <1>2, <1>3

LEMMA TypeStep == TypeOK /\ [Next]_vars => TypeOK'
<1> SUFFICES ASSUME TypeOK, [Next]_vars PROVE TypeOK'
  OBVIOUS
<1>1. CASE BackgroundStep
  BY <1>1, TypeBackground
<1>2. CASE \E a \in Admins : Ask(a) \/ ServeStep(a)
  BY <1>2, TypeRequest
<1>3. CASE Crash
  <2> USE <1>3 DEF Crash, TypeOK
  <2>1. crashes' \in 0 .. MaxCrashes
    BY MaxCrashesAssumption
  <2>2. exec' \in [Steps -> ExecPCs] /\ exec'[NRings - 1] # "armNext"
    BY NRingsAssumption DEF Steps, ExecPCs
  <2>3. req' \in [Admins -> Request]
    BY NoReqType
  <2>4. QED
    BY <2>1, <2>2, <2>3 DEF dbVars
<1>4. CASE Reconcile
  BY <1>4 DEF Reconcile, TypeOK
<1>5. CASE UNCHANGED vars
  BY <1>5 DEF vars, TypeOK
<1>6. QED
  BY <1>1, <1>2, <1>3, <1>4, <1>5 DEF Next

\* The variables keep their types under every interleaving.
THEOREM TypeCorrect == Spec => []TypeOK
<1>1. QED
  BY TypeInit, TypeStep, PTL DEF Spec

-----------------------------------------------------------------------------
(* The inductive invariant, when requests are served one at a time.        *)

LEMMA InvInit == Init => IInv
  BY TypeInit, NRingsAssumption
     DEF Init, IInv, RowsInOrder, CoroutineAtFront, RequestsCurrent, GatePassed,
         CancelledIsAborted, NothingInFlight, InProgress, NoReq

LEMMA PictureStart ==
  ASSUME TypeOK, Picture, Start
  PROVE  Picture'
<1> USE DEF TypeOK, Picture, RowsInOrder, CoroutineAtFront, GatePassed,
            AllBeforeEnded, NoneAfterTouched, Ended, InProgress
<1>1. CASE CommitRollout
  BY <1>1 DEF CommitRollout
<1>2. CASE CommitSteps
  BY <1>2, NRingsAssumption DEF CommitSteps, Steps
<1>3. CASE ArmFirst
  BY <1>3 DEF ArmFirst, dbVars
<1>4. QED
  BY <1>1, <1>2, <1>3 DEF Start

LEMMA PictureRing ==
  ASSUME TypeOK, Picture, NEW s \in Steps, FireJob(s) \/ RingStep(s) \/ RingFault(s)
  PROVE  Picture'
<1> USE DEF TypeOK, Picture, RowsInOrder, CoroutineAtFront, GatePassed,
            AllBeforeEnded, NoneAfterTouched, Ended, InProgress, Goto, dbVars
<1>1. CASE FireJob(s)
  BY <1>1 DEF FireJob
<1>2. CASE ReadRollout(s)
  BY <1>2 DEF ReadRollout
<1>3. CASE ReadStep(s)
  BY <1>3 DEF ReadStep
<1>4. CASE BeginRing(s)
  BY <1>4 DEF BeginRing
<1>5. CASE RingPasses(s)
  BY <1>5 DEF RingPasses
<1>6. CASE RingFails(s)
  BY <1>6 DEF RingFails
<1>7. CASE FinishAndStop(s)
  BY <1>7 DEF FinishAndStop
<1>8. CASE FinishAndComplete(s)
  BY <1>8 DEF FinishAndComplete
<1>9. CASE FinishAndPromote(s)
  <2>1. /\ step[s] = "running" /\ s + 1 \in Steps /\ rollout = "running"
        /\ step' = [step EXCEPT ![s] = "success", ![s + 1] = "scheduled"]
        /\ exec' = [exec EXCEPT ![s] = "armNext"]
        /\ trigger' = [trigger EXCEPT ![s + 1] = "auto"]
    BY <1>9 DEF FinishAndPromote
  <2>2. \A r \in Steps : r < s => step[r] \in Ended
    BY <2>1
  <2>3. \A t \in Steps : s < t => step[t] \in {"absent", "pending"}
    BY <2>1 DEF Steps
  <2>4. \A r \in Steps : step'[r] = IF r = s THEN "success"
                                   ELSE IF r = s + 1 THEN "scheduled" ELSE step[r]
    BY <2>1 DEF Steps
  <2>5. RowsInOrder'
    BY <1>9, <2>1, <2>2, <2>3, <2>4 DEF FinishAndPromote, Steps
  <2>6. \A t \in Steps : t # s => exec[t] # "begin" /\ ~InProgress(t)
    BY <2>1, <2>2, <2>3 DEF Steps
  <2>7. CoroutineAtFront'
    BY <2>1, <2>4, <2>6
  <2>8. ASSUME NEW r \in Steps, r > 0, trigger'[r] = "auto" PROVE step'[r - 1] = "success"
    <3>1. r - 1 \in Steps
      BY <2>8, NRingsAssumption DEF Steps
    <3>2. CASE r = s + 1
      BY <3>1, <3>2, <2>4 DEF Steps
    <3>3. CASE r # s + 1
      <4>1. trigger[r] = "auto"
        BY <2>1, <2>8, <3>3
      <4>2. step[r - 1] = "success"
        BY <4>1, <2>8
      <4>3. r - 1 # s + 1
        BY <4>2, <3>1, <2>3 DEF Steps
      <4>4. QED
        BY <4>2, <4>3, <3>1, <2>4
    <3>4. QED
      BY <3>2, <3>3
  <2>9. GatePassed'
    BY <2>8
  <2>10. QED
    BY <2>5, <2>7, <2>9
<1>10. CASE ArmNext(s)
  BY <1>10 DEF ArmNext
<1>11. CASE FinishWithError(s)
  BY <1>11 DEF FinishWithError
<1>12. CASE ReadForAbort(s)
  BY <1>12 DEF ReadForAbort
<1>13. CASE CommitAbort(s)
  BY <1>13 DEF CommitAbort
<1>14. CASE DisarmAfterAbort(s)
  BY <1>14 DEF DisarmAfterAbort
<1>15. CASE Raise(s)
  BY <1>15 DEF Raise
<1>16. CASE AbortLost(s)
  BY <1>16 DEF AbortLost
<1>17. QED
  BY <1>1, <1>2, <1>3, <1>4, <1>5, <1>6, <1>7, <1>8, <1>9, <1>10, <1>11, <1>12, <1>13, <1>14, <1>15, <1>16
     DEF RingStep, RingFault

\* A ring that is cancelled stays one of an aborted rollout while jobs run.
LEMMA CancelledBackground ==
  ASSUME TypeOK, Picture, CancelledIsAborted, BackgroundStep
  PROVE  CancelledIsAborted'
<1> USE DEF TypeOK, Picture, RowsInOrder, CancelledIsAborted
<1>1. CASE Start
  BY <1>1 DEF Start, CommitRollout, CommitSteps, ArmFirst, dbVars
<1>2. ASSUME NEW s \in Steps, FireJob(s) \/ RingFault(s) PROVE CancelledIsAborted'
  BY <1>2 DEF FireJob, RingFault, Raise, AbortLost, dbVars
<1>3. ASSUME NEW s \in Steps, RingStep(s) PROVE CancelledIsAborted'
  <2>1. \A t \in Steps : step'[t] = "cancelled" => step[t] = "cancelled"
    BY <1>3 DEF RingStep, ReadRollout, ReadStep, BeginRing, RingPasses, RingFails, FinishAndStop,
       FinishAndComplete, FinishAndPromote, ArmNext, FinishWithError, ReadForAbort, CommitAbort,
       DisarmAfterAbort, dbVars
  <2>2. rollout' = rollout \/ rollout' = "aborted" \/ rollout = "running"
    BY <1>3 DEF RingStep, ReadRollout, ReadStep, BeginRing, RingPasses, RingFails, FinishAndStop,
       FinishAndComplete, FinishAndPromote, ArmNext, FinishWithError, ReadForAbort, CommitAbort,
       DisarmAfterAbort, dbVars
  <2> QED
    BY <2>1, <2>2
<1> QED
  BY <1>1, <1>2, <1>3 DEF BackgroundStep

\* How a step of a request changes the requests in flight.
LEMMA RequestEffect ==
  ASSUME TypeOK, NEW a \in Admins
  PROVE  /\ Answer(a) => /\ req'[a].pc = "idle"
                         /\ \A b \in Admins : b # a => req'[b] = req[b]
         /\ \A pc \in ReqPCs : Continue(a, pc) =>
              /\ req'[a].pc = pc /\ req'[a].next = req[a].next
              /\ req'[a].nextWas = req[a].nextWas
              /\ \A b \in Admins : b # a => req'[b] = req[b]
  BY DEF TypeOK, Answer, Continue, NoReq, Request

\* A request that has checked what it needs, or was refused, relies on nothing.
LEMMA NothingToRely ==
  ASSUME NEW a \in Admins, req'[a].pc \in {"idle", "arm", "disarm"},
         \A b \in Admins : b # a => req'[b].pc = "idle"
  PROVE  RequestsCurrent'
  BY DEF RequestsCurrent

\* One request is in flight, and what it has read is still true.
LEMMA PictureServe ==
  ASSUME IInv, NEW a \in Admins, ServeStep(a)
  PROVE  Picture' /\ CancelledIsAborted' /\ RequestsCurrent'
<1> USE DEF IInv, TypeOK, Picture, RowsInOrder, CoroutineAtFront, GatePassed,
            CancelledIsAborted, RequestsCurrent, AllBeforeEnded, NoneAfterTouched, Ended, InProgress,
            Answer, Continue, Waiting, dbVars, Request, NoReq
<1>1. CASE CheckRunning(a)
  <2>1. CASE \E s \in Steps : step[s] = "running"
    <3>1. Answer(a)
      BY <1>1, <2>1 DEF CheckRunning
    <3>2. QED
      BY <1>1, <3>1, RequestEffect DEF CheckRunning
  <2>2. CASE ~\E s \in Steps : step[s] = "running"
    <3>1. \E pc \in {"pick", "resume"} : Continue(a, pc)
      BY <1>1, <2>2 DEF CheckRunning
    <3>2. PICK pc \in {"pick", "resume"} : Continue(a, pc)
      BY <3>1
    <3>3. req'[a].pc = pc /\ \A b \in Admins : b # a => req'[b] = req[b]
      BY <3>2, RequestEffect DEF ReqPCs
    <3>4. rollout \in {"running", "paused"}
      BY <1>1 DEF CheckRunning
    <3>5. QED
      BY <1>1, <2>2, <3>3, <3>4 DEF CheckRunning
  <2>3. QED
    BY <2>1, <2>2
<1>2. CASE CommitResume(a)
  BY <1>2 DEF CommitResume
<1>3. CASE PickNext(a)
  <2>1. CASE Answer(a)
    <3>1. /\ req'[a].pc = "idle" /\ req[a].pc = "pick"
          /\ \A b \in Admins : b # a => req'[b] = req[b]
      BY <1>3, <2>1, RequestEffect DEF PickNext
    <3>2. RequestsCurrent'
      BY <3>1, NothingToRely
    <3>3. UNCHANGED <<rollout, step, trigger, exec, starter>>
      BY <1>3 DEF PickNext
    <3>4. Picture' /\ CancelledIsAborted'
      BY <3>3
    <3>5. QED
      BY <3>2, <3>4
  <2>2. ASSUME NEW s \in Waiting, \A t \in Waiting : s <= t,
               req' = [req EXCEPT ![a].pc = "schedule", ![a].next = s, ![a].nextWas = step[s]]
        PROVE  Picture' /\ CancelledIsAborted' /\ RequestsCurrent'
    <3>1. /\ req'[a].pc = "schedule" /\ req'[a].next = s /\ req'[a].nextWas = step[s]
          /\ \A b \in Admins : b # a => req'[b] = req[b]
      BY <2>2
    <3>2. UNCHANGED <<rollout, step, trigger, exec, starter>> /\ req[a].pc = "pick"
      BY <1>3 DEF PickNext
    <3>3. Picture' /\ CancelledIsAborted'
      BY <3>2
    <3>4. RequestsCurrent'
      BY <2>2, <3>1, <3>2
    <3>5. QED
      BY <3>3, <3>4
  <2>3. QED
    BY <1>3, <2>1, <2>2 DEF PickNext
<1>4. CASE CommitNext(a)
  <2> DEFINE n == req[a].next
  <2>1. /\ rollout \in {"running", "paused"} /\ \A s \in Steps : step[s] # "running"
        /\ n \in Steps /\ step[n] \in {"scheduled", "pending"}
        /\ \A t \in Steps : step[t] \in {"scheduled", "pending"} => n <= t
    BY <1>4 DEF CommitNext
  <2>2. \A s \in Steps : step'[s] = IF s = n THEN "scheduled" ELSE step[s]
    BY <1>4, <2>1 DEF CommitNext
  <2>3. /\ UNCHANGED <<exec, starter>> /\ rollout' \in {"running", "paused"}
        /\ trigger' = [trigger EXCEPT ![n] = "admin"]
    BY <1>4, <2>1 DEF CommitNext
  <2>4. \A s \in Steps : s < n => step[s] \in Ended
    BY <2>1 DEF Steps
  <2>5. \A t \in Steps : n < t => step[t] = "pending"
    BY <2>1 DEF Steps
  <2>6. RowsInOrder' /\ CancelledIsAborted'
    <3>1. starter \notin {"idle", "rolloutCommitted"}
      BY <2>1
    <3>2. \A s \in Steps : step[s] \notin {"absent", "cancelled"}
      BY <2>1
    <3>3. \A s \in Steps : step'[s] \in {"scheduled", "running", "success", "error"}
                             => \A r \in Steps : r < s => step[r] \in Ended
      BY <2>1, <2>2, <2>4
    <3>4. ASSUME NEW s \in Steps, NEW r \in Steps, r < s, step[r] \in Ended
          PROVE step'[r] \in Ended
      BY <3>4, <2>1, <2>2
    <3>5. QED
      BY <3>1, <3>2, <3>3, <3>4, <2>2, <2>3
  <2>7. CoroutineAtFront'
    BY <2>1, <2>2, <2>3, <2>4, <2>5 DEF Steps
  <2>8. GatePassed'
    <3>1. ASSUME NEW r \in Steps, r > 0, trigger'[r] = "auto" PROVE step'[r - 1] = "success"
      <4>1. r - 1 \in Steps /\ trigger[r] = "auto"
        BY <2>3, <3>1, NRingsAssumption DEF Steps
      <4>2. step[r - 1] = "success"
        BY <4>1, <3>1
      <4>3. QED
        BY <4>1, <4>2, <2>1, <2>2
    <3>2. QED
      BY <3>1
  <2>9. req'[a].pc = "arm" /\ \A b \in Admins : b # a => req'[b] = req[b]
    BY <1>4, RequestEffect DEF CommitNext, ReqPCs
  <2>10. RequestsCurrent'
    BY <1>4, <2>9, NothingToRely DEF CommitNext
  <2>11. QED
    BY <2>6, <2>7, <2>8, <2>10
<1>5. CASE ArmRequested(a)
  BY <1>5 DEF ArmRequested
<1>6. CASE CommitPause(a)
  BY <1>6 DEF CommitPause
<1>7. CASE CommitAdminAbort(a)
  BY <1>7 DEF CommitAdminAbort
<1>8. CASE CancelWaiting(a)
  <2>1. req'[a].pc = "disarm" /\ \A b \in Admins : b # a => req'[b] = req[b]
    BY <1>8, RequestEffect DEF CancelWaiting, ReqPCs
  <2>2. /\ UNCHANGED <<rollout, exec, trigger, starter>> /\ rollout = "aborted"
        /\ req[a].pc = "cancel"
    BY <1>8 DEF CancelWaiting
  <2>3. \A s \in Steps : step'[s] = IF step[s] \in {"scheduled", "pending"}
                                   THEN "cancelled" ELSE step[s]
    BY <1>8 DEF CancelWaiting
  <2>4. RowsInOrder' /\ CancelledIsAborted'
    <3>1. \A s \in Steps :
            /\ (step'[s] = "absent") <=> (step[s] = "absent")
            /\ (step'[s] \in Ended) <=> (step[s] \in Ended)
            /\ (step'[s] = "running") <=> (step[s] = "running")
            /\ step'[s] # "scheduled"
      BY <2>3
    <3>2. QED
      BY <2>2, <3>1
  <2>6. ASSUME NEW r \in Steps, r > 0, trigger'[r] = "auto" PROVE step'[r - 1] = "success"
    <3>1. r - 1 \in Steps /\ step[r - 1] = "success"
      BY <2>2, <2>6, NRingsAssumption DEF Steps
    <3>2. QED
      BY <3>1, <2>3
  <2>5. CoroutineAtFront'
    BY <2>2, <2>3
  <2>7. RequestsCurrent'
    BY <2>1, <2>2, NothingToRely
  <2>8. QED
    BY <2>4, <2>5, <2>6, <2>7
<1>9. CASE Disarm(a)
  BY <1>9 DEF Disarm
<1>10. QED
  BY <1>1, <1>2, <1>3, <1>4, <1>5, <1>6, <1>7, <1>8, <1>9 DEF ServeStep

\* If Serial, nothing but the request in flight moves.
LEMMA SerialStep ==
  ASSUME Serial, Next
  PROVE  SerialNext
<1>1. BackgroundStep => Quiet
  BY DEF BackgroundStep, Start, CommitRollout, CommitSteps, ArmFirst, FireJob, RingStep,
     RingFault, ReadRollout, ReadStep, BeginRing, RingPasses, RingFails, FinishAndStop,
     FinishAndComplete, FinishAndPromote, ArmNext, FinishWithError, ReadForAbort,
     CommitAbort, DisarmAfterAbort, Raise, AbortLost, Turn
<1>2. ASSUME NEW a \in Admins, Ask(a) PROVE Quiet
  BY <1>2 DEF Ask, AskPromote, AskResume, AskPause, AskAbort, Turn
<1>3. QED
  BY <1>1, <1>2 DEF Next, SerialNext

LEMMA InvStep ==
  ASSUME Serial
  PROVE  IInv /\ [Next]_vars => IInv'
<1> SUFFICES ASSUME IInv, [Next]_vars PROVE IInv'
  OBVIOUS
<1>1. TypeOK'
  BY TypeStep DEF IInv
<1>2. CASE Quiet /\ BackgroundStep
  <2>1. up /\ UNCHANGED <<up, req>>
    BY <1>2 DEF BackgroundStep, Start, CommitRollout, CommitSteps, ArmFirst, FireJob,
       RingStep, RingFault, ReadRollout, ReadStep, BeginRing, RingPasses, RingFails,
       FinishAndStop, FinishAndComplete, FinishAndPromote, ArmNext, FinishWithError,
       ReadForAbort, CommitAbort, DisarmAfterAbort, Raise, AbortLost, Turn
  <2>2. Picture' /\ CancelledIsAborted'
    BY <1>2, PictureStart, PictureRing, CancelledBackground DEF BackgroundStep, IInv, Picture
  <2>3. RequestsCurrent' /\ NothingInFlight'
    BY <1>2, <2>1 DEF Quiet, RequestsCurrent, NothingInFlight, IInv, TypeOK
  <2>4. QED
    BY <1>1, <2>2, <2>3 DEF IInv, Picture
<1>3. ASSUME Quiet, NEW a \in Admins, Ask(a) PROVE IInv'
  <2>1. /\ up /\ UNCHANGED <<dbVars, exec, starter, up>>
        /\ req'[a].pc \in {"check", "pause", "abort"}
        /\ req'[a].pc \in {"check", "abort"} => rollout \in {"running", "paused"}
        /\ req'[a].pc = "pause" => rollout = "running"
        /\ \A b \in Admins : b # a => req'[b] = req[b]
    BY <1>3, ZenonT(40) DEF Ask, AskPromote, AskResume, AskPause, AskAbort, Turn, IInv, TypeOK, Active,
       NoReq, Request
  <2>2. RequestsCurrent' /\ NothingInFlight'
    BY <1>3, <2>1 DEF Quiet, RequestsCurrent, NothingInFlight, dbVars
  <2>3. RowsInOrder' /\ CoroutineAtFront' /\ GatePassed' /\ CancelledIsAborted'
    BY <2>1 DEF IInv, RowsInOrder, CoroutineAtFront, GatePassed, CancelledIsAborted,
       AllBeforeEnded, NoneAfterTouched, InProgress, dbVars
  <2>4. QED
    BY <1>1, <2>2, <2>3 DEF IInv
<1>4. ASSUME NEW a \in Admins, ServeStep(a) PROVE IInv'
  <2>1. up /\ UNCHANGED up
    BY <1>4 DEF ServeStep, CheckRunning, CommitResume, PickNext, CommitNext, ArmRequested,
       CommitPause, CommitAdminAbort, CancelWaiting, Disarm
  <2>2. QED
    BY <1>1, <1>4, <2>1, PictureServe DEF IInv, Picture, NothingInFlight, TypeOK
<1>5. CASE Crash
  <2>1. /\ UNCHANGED <<rollout, step, trigger>> /\ exec' = [s \in Steps |-> "idle"]
        /\ req' = [a \in Admins |-> NoReq]
        /\ starter' \in {"idle", "rolloutCommitted"} => starter = "idle"
    BY <1>5 DEF Crash, dbVars
  <2>2. RowsInOrder' /\ GatePassed' /\ CancelledIsAborted'
    BY <2>1 DEF IInv, RowsInOrder, GatePassed, CancelledIsAborted, AllBeforeEnded
  <2>3. CoroutineAtFront' /\ RequestsCurrent' /\ NothingInFlight'
    BY <2>1 DEF CoroutineAtFront, InProgress, RequestsCurrent, NothingInFlight, NoReq
  <2>4. QED
    BY <1>1, <2>2, <2>3 DEF IInv
<1>6. CASE Reconcile
  <2>1. /\ \A s \in Steps : exec'[s] = "idle"
        /\ \A a \in Admins : req'[a].pc = "idle"
        /\ UNCHANGED <<trigger, starter>>
    BY <1>6 DEF Reconcile, IInv, NothingInFlight
  <2>2. CoroutineAtFront' /\ RequestsCurrent' /\ NothingInFlight'
    BY <2>1 DEF CoroutineAtFront, InProgress, RequestsCurrent, NothingInFlight
  <2>3. CASE UNCHANGED <<rollout, step>>
    BY <1>1, <2>1, <2>2, <2>3 DEF IInv, RowsInOrder, GatePassed, CancelledIsAborted,
       AllBeforeEnded
  <2>4. CASE ~UNCHANGED <<rollout, step>>
    <3>1. /\ rollout' = "aborted"
          /\ \A s \in Steps : step'[s] = IF step[s] = "running" THEN "error" ELSE step[s]
      BY <1>6, <2>4 DEF Reconcile
    <3>2. RowsInOrder' /\ CancelledIsAborted'
      BY <2>1, <3>1 DEF IInv, TypeOK, RowsInOrder, CancelledIsAborted, AllBeforeEnded, Ended
    <3>3. ASSUME NEW r \in Steps, r > 0, trigger'[r] = "auto" PROVE step'[r - 1] = "success"
      <4>1. r - 1 \in Steps /\ step[r - 1] = "success"
        BY <2>1, <3>3, NRingsAssumption DEF IInv, GatePassed, Steps
      <4>2. QED
        BY <4>1, <3>1
    <3>4. QED
      BY <1>1, <2>2, <3>2, <3>3 DEF IInv, GatePassed
  <2>5. QED
    BY <2>3, <2>4
<1>7. CASE UNCHANGED vars
  BY <1>1, <1>7 DEF vars, IInv, RowsInOrder, CoroutineAtFront, GatePassed, CancelledIsAborted,
     AllBeforeEnded,
     NoneAfterTouched, InProgress, RequestsCurrent, NothingInFlight, Waiting
<1>8. QED
  BY <1>2, <1>3, <1>4, <1>5, <1>6, <1>7, SerialStep DEF SerialNext

LEMMA Invariance ==
  ASSUME Serial
  PROVE  Spec => []IInv
  BY InvInit, InvStep, PTL DEF Spec

-----------------------------------------------------------------------------
(* The inductive invariant, when requests interleave but none is a promote  *)
(* or a resume.                                                            *)

LEMMA ApartInit == Init => ApartInv
  BY TypeInit, NRingsAssumption
     DEF Init, ApartInv, Picture, RowsInOrder, CoroutineAtFront, GatePassed, Apart,
         InProgress, NoReq

\* A request that makes no ring due leaves the picture as it is, whatever has
\* happened since it was let in.
LEMMA ApartRequest ==
  ASSUME AdminOps \cap {"promote", "resume"} = {}, ApartInv,
         NEW a \in Admins, Ask(a) \/ ServeStep(a)
  PROVE  Picture' /\ Apart'
<1>0. ASSUME Ask(a)
      PROVE  /\ UNCHANGED <<dbVars, exec, starter>>
             /\ req'[a].pc \in {"pause", "abort"}
             /\ \A b \in Admins : b # a => req'[b] = req[b]
  BY <1>0, ZenonT(40) DEF Ask, AskPromote, AskResume, AskPause, AskAbort, ApartInv, TypeOK, NoReq, Request
<1> USE DEF ApartInv, TypeOK, Picture, RowsInOrder, CoroutineAtFront, GatePassed, Apart,
            AllBeforeEnded, NoneAfterTouched, Ended, InProgress, dbVars
<1>1. CASE Ask(a)
  BY <1>0, <1>1
<1>2. CASE CommitPause(a)
  <2>1. req'[a].pc = "disarm" /\ \A b \in Admins : b # a => req'[b] = req[b]
    BY <1>2, RequestEffect DEF CommitPause, ReqPCs
  <2> QED
    BY <1>2, <2>1 DEF CommitPause
<1>3. CASE CommitAdminAbort(a)
  <2>1. req'[a].pc = "cancel" /\ \A b \in Admins : b # a => req'[b] = req[b]
    BY <1>3, RequestEffect DEF CommitAdminAbort, ReqPCs
  <2> QED
    BY <1>3, <2>1 DEF CommitAdminAbort
<1>4. CASE CancelWaiting(a)
  <2>1. req'[a].pc = "disarm" /\ \A b \in Admins : b # a => req'[b] = req[b]
    BY <1>4, RequestEffect DEF CancelWaiting, ReqPCs
  <2>2. /\ UNCHANGED <<rollout, exec, trigger, starter>> /\ rollout \notin {"none", "running"}
        /\ \A s \in Steps : step'[s] = IF step[s] \in {"scheduled", "pending"}
                                       THEN "cancelled" ELSE step[s]
    BY <1>4 DEF CancelWaiting, Waiting
  <2>3. \A s \in Steps :
          /\ step'[s] = "absent" <=> step[s] = "absent"
          /\ step'[s] \in Ended <=> step[s] \in Ended
          /\ step'[s] = "running" <=> step[s] = "running"
          /\ step[s] = "success" => step'[s] = "success"
          /\ step'[s] # "scheduled"
    BY <2>2
  <2>4. RowsInOrder'
    BY <2>2, <2>3
  <2>5. CoroutineAtFront'
    BY <2>2
  <2>6. GatePassed'
    BY <2>2, <2>3, NRingsAssumption DEF Steps
  <2> QED
    BY <2>1, <2>2, <2>4, <2>5, <2>6
<1>5. CASE Disarm(a)
  <2>1. req'[a].pc = "idle" /\ \A b \in Admins : b # a => req'[b] = req[b]
    BY <1>5, RequestEffect DEF Disarm
  <2> QED
    BY <1>5, <2>1 DEF Disarm
<1>6. req[a].pc \notin {"check", "resume", "pick", "schedule", "arm"}
  OBVIOUS
<1> QED
  BY <1>1, <1>2, <1>3, <1>4, <1>5, <1>6
     DEF ServeStep, CheckRunning, CommitResume, PickNext, CommitNext, ArmRequested

LEMMA ApartStep ==
  ASSUME AdminOps \cap {"promote", "resume"} = {}
  PROVE  ApartInv /\ NothingInFlight /\ [Next]_vars => ApartInv' /\ NothingInFlight'
<1> SUFFICES ASSUME ApartInv, NothingInFlight, [Next]_vars PROVE ApartInv' /\ NothingInFlight'
  OBVIOUS
<1>1. TypeOK'
  BY TypeStep DEF ApartInv
<1>2. CASE BackgroundStep
  <2>1. up /\ UNCHANGED <<up, req>>
    BY <1>2 DEF BackgroundStep, Start, CommitRollout, CommitSteps, ArmFirst, FireJob,
       RingStep, RingFault, ReadRollout, ReadStep, BeginRing, RingPasses, RingFails,
       FinishAndStop, FinishAndComplete, FinishAndPromote, ArmNext, FinishWithError,
       ReadForAbort, CommitAbort, DisarmAfterAbort, Raise, AbortLost, Turn
  <2>2. Picture'
    BY <1>2, PictureStart, PictureRing DEF BackgroundStep, ApartInv
  <2>3. Apart'
    <3>1. rollout' \in {"none", "running"} => rollout \in {"none", "running"}
      BY <1>2 DEF BackgroundStep, Start, CommitRollout, CommitSteps, ArmFirst, FireJob,
         RingStep, RingFault, ReadRollout, ReadStep, BeginRing, RingPasses, RingFails,
         FinishAndStop, FinishAndComplete, FinishAndPromote, ArmNext, FinishWithError,
         ReadForAbort, CommitAbort, DisarmAfterAbort, Raise, AbortLost, dbVars
    <3> QED
      BY <2>1, <3>1 DEF ApartInv, Apart
  <2> QED
    BY <1>1, <2>1, <2>2, <2>3 DEF ApartInv, NothingInFlight, TypeOK
<1>3. ASSUME NEW a \in Admins, Ask(a) \/ ServeStep(a) PROVE ApartInv' /\ NothingInFlight'
  <2>1. up /\ UNCHANGED up
    BY <1>3 DEF Ask, AskPromote, AskResume, AskPause, AskAbort, Turn, ServeStep, CheckRunning,
       CommitResume, PickNext, CommitNext, ArmRequested, CommitPause, CommitAdminAbort,
       CancelWaiting, Disarm
  <2> QED
    BY <1>1, <1>3, <2>1, ApartRequest DEF ApartInv, NothingInFlight, TypeOK
<1>4. CASE Crash
  <2>1. /\ UNCHANGED <<rollout, step, trigger>> /\ exec' = [s \in Steps |-> "idle"]
        /\ req' = [a \in Admins |-> NoReq]
        /\ starter' \in {"idle", "rolloutCommitted"} => starter = "idle"
    BY <1>4 DEF Crash, dbVars
  <2>2. Picture'
    BY <2>1 DEF ApartInv, Picture, RowsInOrder, CoroutineAtFront, GatePassed, AllBeforeEnded,
       InProgress
  <2>3. Apart' /\ NothingInFlight'
    BY <2>1 DEF Apart, NothingInFlight, NoReq
  <2> QED
    BY <1>1, <2>2, <2>3 DEF ApartInv
<1>5. CASE Reconcile
  <2>1. /\ \A s \in Steps : exec'[s] = "idle"
        /\ \A a \in Admins : req'[a].pc = "idle"
        /\ UNCHANGED <<trigger, starter>>
    BY <1>5 DEF Reconcile, NothingInFlight
  <2>2. CoroutineAtFront' /\ Apart' /\ NothingInFlight'
    BY <2>1 DEF CoroutineAtFront, InProgress, Apart, NothingInFlight
  <2>3. \/ UNCHANGED <<rollout, step>>
        \/ /\ rollout' = "aborted"
           /\ \A s \in Steps : step'[s] = IF step[s] = "running" THEN "error" ELSE step[s]
    BY <1>5 DEF Reconcile
  <2>4. RowsInOrder'
    BY <2>1, <2>3 DEF ApartInv, Picture, TypeOK, RowsInOrder, AllBeforeEnded, Ended
  <2>5. GatePassed'
    BY <2>1, <2>3, NRingsAssumption DEF ApartInv, Picture, GatePassed, Steps
  <2> QED
    BY <1>1, <2>2, <2>4, <2>5 DEF ApartInv, Picture
<1>6. CASE UNCHANGED vars
  BY <1>1, <1>6 DEF vars, ApartInv, Picture, RowsInOrder, CoroutineAtFront, GatePassed,
     AllBeforeEnded, NoneAfterTouched, InProgress, Apart, NothingInFlight
<1> QED
  BY <1>2, <1>3, <1>4, <1>5, <1>6 DEF Next

\* Either way the rows keep their picture, and what a request has read is true
\* enough for what it goes on to write.
Agreed ==
  /\ Front /\ NothingInFlight
  /\ Serial => RequestsCurrent
  /\ ~Serial => Apart

LEMMA AgreedInvariance ==
  ASSUME Calm
  PROVE  Spec => []Agreed
<1>1. CASE Serial
  <2>1. IInv => Agreed
    BY <1>1 DEF IInv, Agreed, Front, Picture, RequestsCurrent
  <2> QED
    BY <1>1, <2>1, Invariance, PTL
<1>2. CASE ~Serial /\ AdminOps \cap {"promote", "resume"} = {}
  <2>1. ApartInv /\ NothingInFlight => Agreed
    BY <1>2 DEF ApartInv, Agreed, Front, Apart
  <2>2. Init => NothingInFlight
    BY DEF Init, NothingInFlight
  <2> QED
    BY <1>2, <2>1, <2>2, ApartInit, ApartStep, PTL DEF Spec
<1> QED
  BY <1>1, <1>2 DEF Calm

LEMMA FrontInvariance ==
  ASSUME Calm
  PROVE  Spec => []Front
<1>1. Agreed => Front
  BY DEF Agreed
<1> QED
  BY <1>1, AgreedInvariance, PTL

\* Two rings of a rollout are never in progress together, however often the
\* process restarts and whenever admins pause or abort, as long as a promote or
\* a resume is served alone (_running_step, looked at before a ring is made due).
THEOREM OneRing ==
  ASSUME Calm
  PROVE  Spec => []OneRingAtATime
<1>1. Front => OneRingAtATime
  <2> SUFFICES ASSUME Front, NEW s \in Steps, NEW t \in Steps, InProgress(s), InProgress(t)
               PROVE s = t
    BY DEF OneRingAtATime
  <2>1. step[s] = "running" /\ step[t] = "running"
    BY DEF Front, Picture, CoroutineAtFront
  <2>2. AllBeforeEnded(s) /\ AllBeforeEnded(t)
    BY <2>1 DEF Front, Picture, RowsInOrder
  <2>3. ~(s < t) /\ ~(t < s)
    BY <2>1, <2>2 DEF AllBeforeEnded, Ended
  <2>4. QED
    BY <2>3 DEF Steps
<1>2. QED
  BY FrontInvariance, <1>1, PTL

\* A ring that no admin promoted or resumed runs only after its predecessor
\* succeeded, under the same assumption.
THEOREM GateAlwaysHolds ==
  ASSUME Calm
  PROVE  Spec => []GateHolds
<1>1. Front => GateHolds
  BY DEF Front, Picture, GatePassed, GateHolds
<1>2. QED
  BY FrontInvariance, <1>1, PTL
-----------------------------------------------------------------------------
(* What a step may never do, from the same picture.                        *)

\* Where a request for an abort can be.
Aborting ==
  \A a \in Admins : /\ req[a].op = "none" => req[a].pc = "idle"
                    /\ req[a].op = "abort" => req[a].pc \in {"idle", "abort", "cancel", "disarm"}

LEMMA AbortingStep ==
  ASSUME TypeOK, Aborting, [Next]_vars
  PROVE  Aborting'
<1>1. CASE BackgroundStep
  <2>1. UNCHANGED req
    BY <1>1 DEF BackgroundStep, Start, CommitRollout, CommitSteps, ArmFirst, FireJob,
       RingStep, RingFault, ReadRollout, ReadStep, BeginRing, RingPasses, RingFails,
       FinishAndStop, FinishAndComplete, FinishAndPromote, ArmNext, FinishWithError,
       ReadForAbort, CommitAbort, DisarmAfterAbort, Raise, AbortLost
  <2> QED
    BY <2>1 DEF Aborting
<1>2. ASSUME NEW a \in Admins, Ask(a) PROVE Aborting'
  BY <1>2 DEF Ask, AskPromote, AskResume, AskPause, AskAbort, Aborting, NoReq, TypeOK
<1>3. ASSUME NEW a \in Admins, ServeStep(a) PROVE Aborting'
  <2>1. \A b \in Admins : b # a => req'[b] = req[b]
    BY <1>3 DEF ServeStep, CheckRunning, CommitResume, PickNext, CommitNext, ArmRequested,
       CommitPause, CommitAdminAbort, CancelWaiting, Disarm, Answer, Continue, TypeOK
  <2>2. CASE Answer(a)
    BY <2>1, <2>2 DEF Answer, NoReq, Aborting, TypeOK
  <2>3. CASE ~Answer(a)
    <3>1. req[a].pc \notin {"idle", "disarm"}
      BY <1>3, <2>3 DEF ServeStep, CheckRunning, CommitResume, PickNext, CommitNext, ArmRequested,
         CommitPause, CommitAdminAbort, CancelWaiting, Disarm
    <3>2. CASE PickNext(a)
      <4>1. PICK s \in Waiting :
              req' = [req EXCEPT ![a].pc = "schedule", ![a].next = s, ![a].nextWas = step[s]]
        BY <2>3, <3>2 DEF PickNext
      <4> DEFINE r == [req[a] EXCEPT !.pc = "schedule", !.next = s, !.nextWas = step[s]]
      <4>2. r.op = req[a].op
        BY DEF TypeOK, Request
      <4>3. req' = [req EXCEPT ![a] = r]
        BY <4>1
      <4>4. req'[a].op = req[a].op /\ req[a].pc = "pick"
        BY <3>2, <4>2, <4>3 DEF PickNext, TypeOK
      <4> QED
        BY <2>1, <4>4 DEF Aborting
    <3>3. CASE CommitAdminAbort(a) \/ CancelWaiting(a)
      <4>1. req'[a].op = req[a].op /\ req'[a].pc \in {"cancel", "disarm"}
        BY <3>3 DEF CommitAdminAbort, CancelWaiting, Continue, TypeOK, Request
      <4> QED
        BY <2>1, <3>1, <4>1 DEF Aborting
    <3>4. CASE CheckRunning(a) \/ CommitResume(a) \/ CommitNext(a) \/ CommitPause(a)
      <4>1. PICK pc : Continue(a, pc)
        BY <2>3, <3>4 DEF CheckRunning, CommitResume, CommitNext, CommitPause
      <4>2. req'[a].op = req[a].op
        BY <4>1 DEF Continue, TypeOK, Request
      <4>3. req[a].pc \in {"check", "resume", "schedule", "pause"}
        BY <3>4 DEF CheckRunning, CommitResume, CommitNext, CommitPause
      <4> QED
        BY <2>1, <4>2, <4>3 DEF Aborting
    <3> QED
      BY <1>3, <2>3, <3>2, <3>3, <3>4 DEF ServeStep, ArmRequested, Disarm
  <2> QED
    BY <2>2, <2>3
<1>4. CASE Crash
  BY <1>4 DEF Crash, Aborting, NoReq
<1>5. CASE Reconcile
  BY <1>5 DEF Reconcile, Aborting
<1>6. CASE UNCHANGED vars
  BY <1>6 DEF vars, Aborting
<1> QED
  BY <1>1, <1>2, <1>3, <1>4, <1>5, <1>6 DEF Next

\* Of the steps that write the rollout's status, only those of an earlier
\* request find it aborted, and an aborted rollout is asked for nothing.
LEMMA HaltedStep ==
  ASSUME TypeOK, Aborting, Next, Halted
  PROVE  Halted'
<1> USE DEF Halted
<1>1. CASE Start
  BY <1>1 DEF Start, CommitRollout, CommitSteps, ArmFirst, dbVars
<1>2. ASSUME NEW s \in Steps, FireJob(s) \/ RingStep(s) \/ RingFault(s) PROVE Halted'
  BY <1>2 DEF FireJob, RingStep, RingFault, ReadRollout, ReadStep, BeginRing, RingPasses,
     RingFails, FinishAndStop, FinishAndComplete, FinishAndPromote, ArmNext, FinishWithError,
     ReadForAbort, CommitAbort, DisarmAfterAbort, Raise, AbortLost, dbVars
<1>3. ASSUME NEW a \in Admins, Ask(a) PROVE Halted'
  BY <1>3 DEF Ask, AskPromote, AskResume, AskPause, AskAbort, Active
<1>4. ASSUME NEW a \in Admins, ServeStep(a) PROVE Halted'
  <2>1. req[a].op \in {"none", "abort"}
    OBVIOUS
  <2>2. req[a].pc \in {"idle", "abort", "cancel", "disarm"}
    BY <2>1 DEF Aborting
  <2>3. CASE CommitAdminAbort(a) \/ CancelWaiting(a)
    BY <2>1, <2>3 DEF CommitAdminAbort, CancelWaiting, Continue, TypeOK, Request
  <2>4. CASE Disarm(a)
    BY <2>4 DEF Disarm, Answer, NoReq, TypeOK, dbVars
  <2> QED
    BY <1>4, <2>2, <2>3, <2>4 DEF ServeStep, CheckRunning, CommitResume, PickNext, CommitNext,
       ArmRequested, CommitPause
<1>5. CASE Crash
  BY <1>5 DEF Crash, NoReq, dbVars
<1>6. CASE Reconcile
  BY <1>6 DEF Reconcile
<1> QED
  BY <1>1, <1>2, <1>3, <1>4, <1>5, <1>6 DEF Next, BackgroundStep

\* Of the steps that write a ring's status, none finds a ring that ended.
LEMMA EndedStep ==
  ASSUME Front, Next, NEW r \in Steps, step[r] \in Ended
  PROVE  step'[r] = step[r]
<1> USE DEF Ended, Front, Picture
<1>1. CASE Start
  BY <1>1 DEF Start, CommitRollout, CommitSteps, ArmFirst, dbVars, RowsInOrder
<1>2. ASSUME NEW s \in Steps, FireJob(s) \/ RingFault(s) PROVE step'[r] = step[r]
  BY <1>2 DEF FireJob, RingFault, Raise, AbortLost, dbVars
<1>3. ASSUME NEW s \in Steps, RingStep(s) PROVE step'[r] = step[r]
  <2>1. exec[s] = "begin" => r # s
    BY DEF CoroutineAtFront
  <2>2. exec[s] \in {"passed", "failed"} => step[s] = "running"
    BY DEF CoroutineAtFront, InProgress
  <2>3. exec[s] \in {"passed", "failed"} => r # s /\ r # s + 1
    <3>1. ASSUME step[s] = "running", r = s + 1 PROVE FALSE
      <4>1. AllBeforeEnded(r) /\ s < r
        BY <3>1 DEF RowsInOrder, Steps
      <4> QED
        BY <3>1, <4>1 DEF AllBeforeEnded
    <3> QED
      BY <2>2, <3>1
  <2>4. CASE BeginRing(s)
    BY <2>1, <2>4 DEF BeginRing, TypeOK
  <2>5. CASE FinishAndStop(s) \/ FinishAndComplete(s) \/ FinishWithError(s)
    BY <2>3, <2>5 DEF FinishAndStop, FinishAndComplete, FinishWithError, TypeOK
  <2>6. CASE FinishAndPromote(s)
    BY <2>3, <2>6 DEF FinishAndPromote, TypeOK
  <2>7. CASE \/ ReadRollout(s) \/ ReadStep(s) \/ RingPasses(s) \/ RingFails(s) \/ ArmNext(s)
             \/ ReadForAbort(s) \/ CommitAbort(s) \/ DisarmAfterAbort(s)
    BY <2>7 DEF ReadRollout, ReadStep, RingPasses, RingFails, ArmNext, ReadForAbort, CommitAbort,
       DisarmAfterAbort, dbVars
  <2> QED
    BY <1>3, <2>4, <2>5, <2>6, <2>7 DEF RingStep
<1>4. ASSUME NEW a \in Admins, Ask(a) PROVE step'[r] = step[r]
  BY <1>4 DEF Ask, AskPromote, AskResume, AskPause, AskAbort, dbVars
<1>5. ASSUME NEW a \in Admins, ServeStep(a) PROVE step'[r] = step[r]
  <2>1. r \notin Waiting
    BY DEF Waiting
  <2>2. req[a].pc = "schedule" => req[a].next # r
    BY <2>1
  <2>3. CASE CommitNext(a)
    BY <2>2, <2>3 DEF CommitNext, TypeOK
  <2>4. CASE CancelWaiting(a)
    BY <2>1, <2>4 DEF CancelWaiting
  <2>5. CASE ~(CommitNext(a) \/ CancelWaiting(a))
    BY <1>5, <2>5 DEF ServeStep, CheckRunning, CommitResume, PickNext, ArmRequested, CommitPause,
       CommitAdminAbort, Disarm, dbVars
  <2> QED
    BY <2>3, <2>4, <2>5
<1>6. CASE Crash \/ Reconcile
  BY <1>6 DEF Crash, Reconcile, dbVars
<1> QED
  BY <1>1, <1>2, <1>3, <1>4, <1>5, <1>6 DEF Next, BackgroundStep

\* Once a rollout is aborted and no request is in flight that another status was
\* promised to, it stays aborted: no coroutine, job, later request or restart
\* takes it up again, however they interleave (the guards of promote_now,
\* pause_rollout, resume_rollout, _finish_step_and_promote and the
\* reconciliation).
THEOREM AbortStands == Spec => HaltIsFinal
<1>1. Init => Aborting
  BY DEF Init, Aborting, NoReq
<1>2. TypeOK /\ Aborting /\ [Next]_vars => Aborting'
  BY AbortingStep
<1>3. TypeOK /\ Aborting /\ [Next]_vars => [Halted => Halted']_vars
  BY HaltedStep
<1> QED
  BY TypeCorrect, <1>1, <1>2, <1>3, PTL DEF Spec, HaltIsFinal

\* The result of a ring that ended is never rewritten, and so no ring runs
\* twice, unless a promote or a resume interleaves with something else.
THEOREM RingResultsStand ==
  ASSUME Calm
  PROVE  Spec => ResultsStand
<1>1. Front /\ [Next]_vars =>
        [\A s \in Steps : step[s] \in {"success", "error"} => step'[s] = step[s]]_vars
  BY EndedStep DEF Ended
<1> QED
  BY FrontInvariance, <1>1, PTL DEF Spec, ResultsStand
-----------------------------------------------------------------------------
(***************************************************************************)
(* The driver implements StagedRollout.  A step of the driver moves one    *)
(* ring, or takes back clearances that rings have not used yet, or changes *)
(* nothing that an operator sees.                                          *)
(***************************************************************************)

\* Before the start there is nothing that could go on.
BeforeStart ==
  rollout = "none" => /\ starter = "idle" /\ jobs = {}
                      /\ \A s \in Steps : exec[s] = "idle"
                      /\ \A a \in Admins : req[a].pc = "idle"

LEMMA BeforeStartStep ==
  ASSUME TypeOK, BeforeStart, [Next]_vars
  PROVE  BeforeStart'
<1>1. CASE Start
  BY <1>1 DEF Start, CommitRollout, CommitSteps, ArmFirst, dbVars, BeforeStart
<1>2. ASSUME NEW s \in Steps, FireJob(s) PROVE BeforeStart'
  BY <1>2 DEF FireJob, dbVars, BeforeStart
<1>3. ASSUME NEW s \in Steps, RingStep(s) \/ RingFault(s) PROVE BeforeStart'
  <2>1. exec[s] # "idle" /\ (rollout' = rollout \/ rollout' # "none")
    BY <1>3 DEF RingStep, RingFault, ReadRollout, ReadStep, BeginRing, RingPasses, RingFails,
       FinishAndStop, FinishAndComplete, FinishAndPromote, ArmNext, FinishWithError, ReadForAbort,
       CommitAbort, DisarmAfterAbort, Raise, AbortLost, dbVars
  <2> QED
    BY <2>1 DEF BeforeStart
<1>4. ASSUME NEW a \in Admins, Ask(a) PROVE BeforeStart'
  BY <1>4 DEF Ask, AskPromote, AskResume, AskPause, AskAbort, dbVars, BeforeStart, Active
<1>5. ASSUME NEW a \in Admins, ServeStep(a) PROVE BeforeStart'
  <2>1. req[a].pc # "idle" /\ (rollout' = rollout \/ rollout' # "none")
    BY <1>5 DEF ServeStep, CheckRunning, CommitResume, PickNext, CommitNext, ArmRequested,
       CommitPause, CommitAdminAbort, CancelWaiting, Disarm, dbVars
  <2> QED
    BY <2>1 DEF BeforeStart
<1>6. CASE Crash
  BY <1>6 DEF Crash, dbVars, BeforeStart, NoReq
<1>7. CASE Reconcile
  BY <1>7 DEF Reconcile, BeforeStart
<1>8. CASE UNCHANGED vars
  BY <1>8 DEF vars, dbVars, BeforeStart
<1> QED
  BY <1>1, <1>2, <1>3, <1>4, <1>5, <1>6, <1>7, <1>8 DEF Next, BackgroundStep

\* A ring that an operator sees as ended or running, by its row; else by whether
\* its coroutine has read that it may begin.
Decided == {"success", "error", "running"}
Cleared(s) == step[s] \notin Decided /\ exec[s] \in {"readStep", "begin"}

LEMMA RingCases ==
  ASSUME NEW s \in Steps
  PROVE  /\ step[s] = "success" => RingOf(s) = "passed"
         /\ step[s] = "error" => RingOf(s) = "failed"
         /\ step[s] = "running" => RingOf(s) = "running"
         /\ Cleared(s) => RingOf(s) = "cleared"
         /\ step[s] \notin Decided /\ ~Cleared(s) => RingOf(s) = "waiting"
  BY DEF RingOf, Cleared, Decided

\* A ring whose row and coroutine say the same to an operator.
LEMMA RingStays ==
  ASSUME NEW s \in Steps,
         \/ step'[s] = step[s] /\ step[s] \in Decided
         \/ /\ step[s] \notin Decided /\ step'[s] \notin Decided
            /\ exec[s] \in {"readStep", "begin"} <=> exec'[s] \in {"readStep", "begin"}
  PROVE  RingOf(s)' = RingOf(s)
  BY DEF RingOf, Decided

\* Nothing an operator sees changes, or clearances are withdrawn.
LEMMA OnlyWithdrawn ==
  ASSUME rollout' = rollout,
         \A s \in Steps : \/ RingOf(s)' = RingOf(s)
                          \/ RingOf(s) = "cleared" /\ RingOf(s)' = "waiting"
  PROVE  [Staged!StagedNext]_Staged!svars
<1> DEFINE S == {s \in Steps : RingOf(s)' # RingOf(s)}
           before == [s \in Steps |-> RingOf(s)]
           after == [s \in Steps |-> IF s \in S THEN "waiting" ELSE RingOf(s)]
<1>1. before' = after
  OBVIOUS
<1>2. CASE S = {}
  <2>1. before' = before
    BY <1>2
  <2> QED
    BY <2>1 DEF Staged!svars
<1>3. CASE S # {}
  <2>1. S \in (SUBSET {s \in Steps : before[s] = "cleared"}) \ {{}}
    BY <1>3
  <2>2. before' = [s \in Steps |-> IF s \in S THEN "waiting" ELSE before[s]]
    BY <1>1
  <2>3. Staged!Withdraw
    <3> HIDE DEF S
    <3> QED
      BY <2>1, <2>2 DEF Staged!Withdraw, Staged!Steps, Steps
  <2> QED
    BY <2>3 DEF Staged!StagedNext
<1> QED
  BY <1>2, <1>3

\* One ring moves and the others stay.
LEMMA OneRingMoves ==
  ASSUME NEW s \in Steps, \A r \in Steps \ {s} : RingOf(r)' = RingOf(r)
  PROVE  [r \in Steps |-> RingOf(r)]' = [[r \in Steps |-> RingOf(r)] EXCEPT ![s] = RingOf(s)']
  OBVIOUS

\* Only the rollout's own status changes.
LEMMA RingsStay ==
  ASSUME \A s \in Steps : RingOf(s)' = RingOf(s)
  PROVE  [s \in Steps |-> RingOf(s)]' = [s \in Steps |-> RingOf(s)]
  OBVIOUS

\* A ring ends.
LEMMA RingEnded ==
  ASSUME NEW s \in Steps, step[s] = "running", step'[s] \in Ended,
         \A r \in Steps \ {s} : RingOf(r)' = RingOf(r)
  PROVE  /\ rollout' = rollout => Staged!StagedNext
         /\ rollout = "running" /\ rollout' = "complete" /\ s = NRings - 1 /\ step'[s] = "success"
              => Staged!StagedNext
         /\ rollout = "running" /\ rollout' = "aborted" /\ step'[s] = "error" => Staged!StagedNext
<1> DEFINE rings == [r \in Steps |-> RingOf(r)]
<1>1. rings' = [rings EXCEPT ![s] = RingOf(s)']
  BY OneRingMoves
<1>2. rings[s] = "running"
  BY RingCases
<1>3. RingOf(s)' = IF step'[s] = "success" THEN "passed" ELSE "failed"
  BY DEF RingOf, Ended
<1>4. s \in Staged!Steps
  BY DEF Staged!Steps, Steps
<1> HIDE DEF rings
<1>5. ASSUME rollout' = rollout PROVE Staged!StagedNext
  <2>1. Staged!End(s)
    BY <1>1, <1>2, <1>3, <1>5 DEF Staged!End, Staged!Ended, rings
  <2> QED
    BY <1>4, <2>1 DEF Staged!StagedNext
<1>6. ASSUME rollout = "running", rollout' = "complete", s = NRings - 1, step'[s] = "success"
      PROVE  Staged!StagedNext
  <2>1. Staged!Complete
    BY <1>1, <1>2, <1>3, <1>6 DEF Staged!Complete, rings
  <2> QED
    BY <2>1 DEF Staged!StagedNext
<1>7. ASSUME rollout = "running", rollout' = "aborted", step'[s] = "error"
      PROVE  Staged!StagedNext
  <2>1. Staged!Lose(s)
    BY <1>1, <1>2, <1>3, <1>7 DEF Staged!Lose, rings
  <2> QED
    BY <1>4, <2>1 DEF Staged!StagedNext
<1> QED
  BY <1>5, <1>6, <1>7

LEMMA RingStepStaged ==
  ASSUME Front, BeforeStart, NEW s \in Steps, FireJob(s) \/ RingStep(s) \/ RingFault(s)
  PROVE  [Staged!StagedNext]_Staged!svars
<1> USE DEF Decided
<1>1. exec \in [Steps -> ExecPCs] /\ step = [r \in Steps |-> step[r]]
  BY DEF Front, TypeOK
\* A step that leaves the rows alone and clears nothing.
<1>2. ASSUME UNCHANGED <<rollout, step>>, NEW pc, pc \notin {"readStep", "begin"}, Goto(s, pc)
      PROVE  [Staged!StagedNext]_Staged!svars
  <2>1. ASSUME NEW r \in Steps, r # s PROVE RingOf(r)' = RingOf(r)
    BY <1>1, <1>2, <2>1, RingStays DEF Goto
  <2>2. RingOf(s)' = RingOf(s) \/ (RingOf(s) = "cleared" /\ RingOf(s)' = "waiting")
    BY <1>1, <1>2 DEF Goto, RingOf
  <2> QED
    BY <1>2, <2>1, <2>2, OnlyWithdrawn
<1>3. CASE FireJob(s)
  <2>1. CASE UNCHANGED exec
    <3>1. \A r \in Steps : RingOf(r)' = RingOf(r)
      BY <1>3, <2>1 DEF FireJob, dbVars, RingOf
    <3> QED
      BY <1>3, <3>1, OnlyWithdrawn DEF FireJob, dbVars
  <2>2. CASE Goto(s, "fired")
    BY <1>2, <1>3, <2>2 DEF FireJob, dbVars
  <2> QED
    BY <1>3, <2>1, <2>2 DEF FireJob
<1>4. CASE ReadRollout(s) /\ rollout = "running"
  <2>1. /\ exec[s] = "fired" /\ exec' = [exec EXCEPT ![s] = "readStep"]
        /\ UNCHANGED <<rollout, step>>
    BY <1>4 DEF ReadRollout, Goto, dbVars
  <2>2. \A r \in Steps \ {s} : RingOf(r)' = RingOf(r)
    BY <1>1, <2>1, RingStays
  <2>3. CASE step[s] \in Decided
    <3>1. RingOf(s)' = RingOf(s)
      BY <2>1, <2>3, RingStays
    <3> QED
      BY <2>1, <2>2, <3>1, OnlyWithdrawn
  <2>4. CASE step[s] \notin Decided
    <3>1. RingOf(s) = "waiting" /\ RingOf(s)' = "cleared"
      BY <1>1, <2>1, <2>4 DEF RingOf
    <3>2. Staged!Clear(s)
      BY <1>4, <2>1, <2>2, <3>1, OneRingMoves DEF Staged!Clear
    <3> QED
      BY <3>2 DEF Staged!StagedNext, Staged!Steps, Steps
  <2> QED
    BY <2>3, <2>4
<1>5. CASE ReadRollout(s) /\ rollout # "running"
  BY <1>2, <1>5 DEF ReadRollout, dbVars
<1>6. CASE ReadStep(s)
  <2>1. CASE step[s] = "scheduled"
    <3>1. exec[s] = "readStep" /\ exec' = [exec EXCEPT ![s] = "begin"]
      BY <1>6, <2>1 DEF ReadStep, Goto
    <3>2. \A r \in Steps : RingOf(r)' = RingOf(r)
      BY <1>1, <1>6, <3>1, RingStays DEF ReadStep, dbVars
    <3> QED
      BY <1>6, <3>2, OnlyWithdrawn DEF ReadStep, dbVars
  <2>2. CASE step[s] # "scheduled"
    BY <1>2, <1>6, <2>2 DEF ReadStep, dbVars
  <2> QED
    BY <2>1, <2>2
<1>7. CASE BeginRing(s)
  <2>1. /\ exec[s] = "begin" /\ exec' = [exec EXCEPT ![s] = "ring"]
        /\ step' = [step EXCEPT ![s] = "running"] /\ rollout' = rollout
    BY <1>7 DEF BeginRing, Goto
  <2>2. step[s] \in {"scheduled", "cancelled"} /\ AllBeforeEnded(s) /\ NoneAfterTouched(s)
    BY <2>1 DEF Front, Picture, CoroutineAtFront
  <2>3. RingOf(s) = "cleared" /\ RingOf(s)' = "running"
    BY <1>1, <2>1, <2>2 DEF RingOf
  <2>4. \A r \in Steps \ {s} : RingOf(r)' = RingOf(r)
    BY <1>1, <2>1, RingStays
  <2>5. ASSUME NEW r \in Steps
        PROVE  (r < s => RingOf(r) \in {"passed", "failed"}) /\ RingOf(r) # "running"
    <3>1. CASE r < s
      BY <2>2, <3>1, RingCases DEF AllBeforeEnded, Ended
    <3>2. CASE r = s
      BY <2>3, <3>2 DEF Steps
    <3>3. CASE s < r
      <4>1. step[r] \notin Decided
        BY <2>2, <3>3 DEF NoneAfterTouched
      <4> QED
        BY <3>3, <4>1 DEF RingOf, Steps
    <3> QED
      BY <3>1, <3>2, <3>3 DEF Steps
  <2>6. Staged!Begin(s)
    BY <2>1, <2>3, <2>4, <2>5, OneRingMoves DEF Staged!Begin, Staged!Ended, Staged!Steps, Steps
  <2> QED
    BY <2>6 DEF Staged!StagedNext, Staged!Steps, Steps
<1>8. CASE RingPasses(s) \/ RingFails(s) \/ ArmNext(s) \/ DisarmAfterAbort(s) \/ ReadForAbort(s)
  <2>1. PICK pc \in {"passed", "failed", "idle", "abortCommit"} : Goto(s, pc)
    BY <1>8 DEF RingPasses, RingFails, ArmNext, DisarmAfterAbort, ReadForAbort
  <2> QED
    BY <1>2, <1>8, <2>1 DEF RingPasses, RingFails, ArmNext, DisarmAfterAbort, ReadForAbort, dbVars
<1>9. CASE Raise(s) \/ AbortLost(s)
  BY <1>2, <1>9 DEF Raise, AbortLost, dbVars
<1>10. CASE FinishAndStop(s) \/ FinishAndComplete(s) \/ FinishAndPromote(s) \/ FinishWithError(s)
  <2>1. step[s] = "running"
    BY <1>10 DEF FinishAndStop, FinishAndComplete, FinishAndPromote, FinishWithError, Front,
       Picture, CoroutineAtFront, InProgress
  <2>2. ASSUME NEW r \in Steps, s < r PROVE step[r] \notin Decided
    BY <2>1, <2>2 DEF Front, Picture, RowsInOrder, AllBeforeEnded, Ended
  <2>3. step'[s] \in Ended
    <3>1. CASE FinishAndPromote(s)
      <4>1. s # s + 1
        BY DEF Steps
      <4>2. step'[s] = "success"
        BY <1>1, <3>1, <4>1 DEF FinishAndPromote
      <4> QED
        BY <4>2 DEF Ended
    <3>2. CASE FinishAndStop(s) \/ FinishAndComplete(s) \/ FinishWithError(s)
      BY <1>1, <3>2 DEF FinishAndStop, FinishAndComplete, FinishWithError, Ended
    <3> QED
      BY <1>10, <3>1, <3>2
  <2>4. ASSUME NEW r \in Steps, r # s PROVE RingOf(r)' = RingOf(r)
    <3>1. exec'[r] = exec[r]
      BY <1>1, <1>10, <2>4 DEF FinishAndStop, FinishAndComplete, FinishAndPromote,
         FinishWithError, Goto
    <3>2. step'[r] = step[r] \/ (r = s + 1 /\ step'[r] = "scheduled")
      BY <1>1, <1>10, <2>4 DEF FinishAndStop, FinishAndComplete, FinishAndPromote, FinishWithError
    <3>3. CASE step'[r] = step[r]
      BY <3>1, <3>3, RingStays
    <3>4. CASE r = s + 1 /\ step'[r] = "scheduled"
      <4>1. step[r] \notin Decided
        BY <2>2, <3>4 DEF Steps
      <4> QED
        BY <3>1, <3>4, <4>1, RingStays
    <3> QED
      BY <3>2, <3>3, <3>4
  <2>5. CASE FinishAndComplete(s)
    <3>1. s = NRings - 1
      BY <2>5, NRingsAssumption DEF FinishAndComplete, Steps
    <3>2. step'[s] = "success"
      BY <1>1, <2>5 DEF FinishAndComplete
    <3> QED
      BY <2>1, <2>3, <2>4, <2>5, <3>1, <3>2, RingEnded DEF FinishAndComplete
  <2>6. CASE ~FinishAndComplete(s)
    <3>1. rollout' = rollout
      BY <1>10, <2>6 DEF FinishAndStop, FinishAndPromote, FinishWithError
    <3> QED
      BY <2>1, <2>3, <2>4, <3>1, RingEnded
  <2> QED
    BY <2>5, <2>6
<1>11. CASE CommitAbort(s)
  <2>1. rollout # "none"
    BY <1>11 DEF CommitAbort, BeforeStart
  <2>2. exec[s] = "abortCommit" /\ exec' = [exec EXCEPT ![s] = "disarm"] /\ step' = step
    BY <1>11 DEF CommitAbort, Goto
  <2>3. \A r \in Steps : RingOf(r)' = RingOf(r)
    BY <1>1, <2>2, RingStays
  <2>4. Staged!Abort
    BY <1>11, <2>1, <2>3, RingsStay DEF CommitAbort, Staged!Abort
  <2> QED
    BY <2>4 DEF Staged!StagedNext
<1> QED
  BY <1>3, <1>4, <1>5, <1>6, <1>7, <1>8, <1>9, <1>10, <1>11 DEF RingStep, RingFault

LEMMA ServeStaged ==
  ASSUME Agreed, BeforeStart, NEW a \in Admins, ServeStep(a)
  PROVE  [Staged!StagedNext]_Staged!svars
<1> USE DEF Decided
<1>1. step = [r \in Steps |-> step[r]] /\ exec' = exec
  BY DEF Agreed, Front, TypeOK, ServeStep, CheckRunning, CommitResume, PickNext, CommitNext, ArmRequested,
     CommitPause, CommitAdminAbort, CancelWaiting, Disarm
<1>2. ASSUME NEW r \in Steps PROVE RingOf(r)' = RingOf(r)
  <2>1. CASE step' = step
    BY <1>1, <2>1, RingStays
  <2>2. CASE CommitNext(a)
    <3>1. req[a].next \in Waiting
      BY <2>2 DEF CommitNext, Agreed, Front
    <3>2. step'[r] = step[r] \/ (r \in Waiting /\ step'[r] = "scheduled")
      BY <1>1, <2>2, <3>1 DEF CommitNext
    <3> QED
      BY <1>1, <3>2, RingStays DEF Waiting
  <2>3. CASE CancelWaiting(a)
    <3>1. step'[r] = IF r \in Waiting THEN "cancelled" ELSE step[r]
      BY <2>3 DEF CancelWaiting
    <3> QED
      BY <1>1, <3>1, RingStays DEF Waiting
  <2> QED
    BY <2>1, <2>2, <2>3 DEF ServeStep, CheckRunning, CommitResume, PickNext, ArmRequested,
       CommitPause, CommitAdminAbort, Disarm, dbVars
<1>3. CASE rollout' = rollout
  BY <1>2, <1>3, OnlyWithdrawn
<1>4. CASE rollout' # rollout /\ (CommitResume(a) \/ CommitNext(a))
  <2>0. Serial /\ RequestsCurrent
    BY <1>4 DEF CommitResume, CommitNext, Agreed, Apart
  <2>1. rollout = "paused" /\ rollout' = "running"
    BY <1>4, <2>0 DEF CommitResume, CommitNext, RequestsCurrent
  <2>2. \A r \in Steps : step[r] # "running"
    BY <1>4, <2>0 DEF CommitResume, CommitNext, RequestsCurrent
  <2>3. \A r \in Steps : RingOf(r) # "running"
    BY <2>2 DEF RingOf
  <2>4. Staged!Resume
    BY <1>2, <2>1, <2>3, RingsStay DEF Staged!Resume, Staged!Steps, Steps
  <2> QED
    BY <2>4 DEF Staged!StagedNext
<1>5. CASE rollout' # rollout /\ CommitPause(a)
  <2>1. rollout' = "paused" /\ rollout \in {"running", "complete", "aborted"}
    BY <1>5 DEF CommitPause, BeforeStart, Agreed, Front, TypeOK
  <2>2. CASE rollout = "running"
    <3>1. Staged!Pause
      BY <1>2, <2>1, <2>2, RingsStay DEF Staged!Pause
    <3> QED
      BY <3>1 DEF Staged!StagedNext
  <2>3. CASE rollout # "running"
    <3>1. ~Serial
      BY <1>5, <2>3 DEF CommitPause, Agreed, RequestsCurrent
    <3>2. Staged!LatePause
      BY <1>2, <2>1, <2>3, <3>1, RingsStay DEF Staged!LatePause
    <3> QED
      BY <3>2 DEF Staged!StagedNext
  <2> QED
    BY <2>2, <2>3
<1>6. CASE CommitAdminAbort(a)
  <2>1. rollout # "none" /\ rollout' = "aborted"
    BY <1>6 DEF CommitAdminAbort, BeforeStart
  <2>2. Staged!Abort
    BY <1>2, <2>1, RingsStay DEF Staged!Abort
  <2> QED
    BY <2>2 DEF Staged!StagedNext
<1> QED
  BY <1>3, <1>4, <1>5, <1>6 DEF ServeStep, CheckRunning, PickNext, ArmRequested, CancelWaiting,
     Disarm, dbVars

LEMMA StagedStep ==
  ASSUME Agreed, BeforeStart, [Next]_vars
  PROVE  [Staged!StagedNext]_Staged!svars
<1>1. CASE Start
  <2>1. ASSUME NEW r \in Steps PROVE RingOf(r)' = RingOf(r)
    <3>1. step[r] \notin Decided \/ step' = step
      BY <1>1 DEF Start, CommitRollout, CommitSteps, ArmFirst, dbVars, Agreed, Front, Picture,
         RowsInOrder, Decided
    <3>2. step' = step \/ step'[r] \in {"scheduled", "pending"}
      BY <1>1 DEF Start, CommitRollout, CommitSteps, ArmFirst, dbVars
    <3> QED
      BY <1>1, <3>1, <3>2, RingStays DEF Start, CommitRollout, CommitSteps, ArmFirst, Decided
  <2>2. CASE CommitRollout
    <3>1. Staged!Launch
      BY <2>1, <2>2, RingsStay DEF CommitRollout, Staged!Launch
    <3> QED
      BY <3>1 DEF Staged!StagedNext
  <2>3. CASE ~CommitRollout
    BY <1>1, <2>1, <2>3, OnlyWithdrawn DEF Start, CommitSteps, ArmFirst, dbVars
  <2> QED
    BY <2>2, <2>3
<1>2. ASSUME NEW s \in Steps, FireJob(s) \/ RingStep(s) \/ RingFault(s)
      PROVE  [Staged!StagedNext]_Staged!svars
  BY <1>2, RingStepStaged DEF Agreed
<1>3. ASSUME NEW a \in Admins, Ask(a) PROVE [Staged!StagedNext]_Staged!svars
  <2>1. UNCHANGED <<rollout, step, exec>>
    BY <1>3 DEF Ask, AskPromote, AskResume, AskPause, AskAbort, dbVars
  <2>2. \A r \in Steps : RingOf(r)' = RingOf(r)
    BY <2>1 DEF RingOf
  <2> QED
    BY <2>1, <2>2, OnlyWithdrawn
<1>4. ASSUME NEW a \in Admins, ServeStep(a) PROVE [Staged!StagedNext]_Staged!svars
  BY <1>4, ServeStaged
<1>5. CASE Crash
  <2>1. UNCHANGED <<rollout, step>> /\ \A s \in Steps : exec'[s] = "idle"
    BY <1>5 DEF Crash, dbVars
  <2>2. ASSUME NEW r \in Steps
        PROVE  RingOf(r)' = RingOf(r) \/ (RingOf(r) = "cleared" /\ RingOf(r)' = "waiting")
    BY <2>1 DEF RingOf
  <2> QED
    BY <2>1, <2>2, OnlyWithdrawn
<1>6. CASE Reconcile
  <2>1. exec' = exec /\ \A s \in Steps : exec[s] = "idle"
    BY <1>6 DEF Reconcile, Agreed, NothingInFlight
  <2>2. CASE UNCHANGED <<rollout, step>>
    <3>1. \A r \in Steps : RingOf(r)' = RingOf(r)
      BY <2>1, <2>2 DEF RingOf
    <3> QED
      BY <2>2, <3>1, OnlyWithdrawn
  <2>3. CASE ~UNCHANGED <<rollout, step>>
    <3>1. /\ rollout = "running" /\ rollout' = "aborted"
          /\ \E s \in Steps : step[s] = "running"
          /\ \A r \in Steps : step'[r] = IF step[r] = "running" THEN "error" ELSE step[r]
      BY <1>6, <2>3 DEF Reconcile
    <3>2. PICK s \in Steps : step[s] = "running"
      BY <3>1
    <3>3. ASSUME NEW r \in Steps, step[r] = "running" PROVE r = s
      <4>1. AllBeforeEnded(s) /\ AllBeforeEnded(r)
        BY <3>2, <3>3 DEF Agreed, Front, Picture, RowsInOrder
      <4>2. ~(r < s) /\ ~(s < r)
        BY <3>2, <3>3, <4>1 DEF AllBeforeEnded, Ended
      <4> QED
        BY <4>2 DEF Steps
    <3>4. \A r \in Steps \ {s} : RingOf(r)' = RingOf(r)
      <4>1. \A r \in Steps \ {s} : step'[r] = step[r]
        BY <3>1, <3>3
      <4> QED
        BY <2>1, <4>1 DEF RingOf
    <3>5. step'[s] = "error"
      BY <3>1, <3>2
    <3> QED
      BY <3>1, <3>2, <3>4, <3>5, RingEnded DEF Ended
  <2> QED
    BY <2>2, <2>3
<1>7. CASE UNCHANGED vars
  <2>1. UNCHANGED <<rollout, step, exec>>
    BY <1>7 DEF vars, dbVars
  <2>2. \A r \in Steps : RingOf(r)' = RingOf(r)
    BY <2>1 DEF RingOf
  <2> QED
    BY <2>1, <2>2, OnlyWithdrawn
<1> QED
  BY <1>1, <1>2, <1>3, <1>4, <1>5, <1>6, <1>7 DEF Next, BackgroundStep

\* The driver of a rollout, with its commits, jobs, requests and restarts,
\* implements StagedRollout: whenever admins pause or abort, and with promotes and
\* resumes if requests are served one at a time.  If they are not, a pause may
\* come late.
THEOREM DriverImplementsStaged ==
  ASSUME Calm
  PROVE  Spec => ImplementsStaged
<1>1. Init => Staged!StagedInit
  BY DEF Init, Staged!StagedInit, Staged!Steps, Steps, RingOf
<1>2. Init => BeforeStart
  BY DEF Init, BeforeStart, NoReq
<1>3. Agreed /\ BeforeStart /\ [Next]_vars => BeforeStart'
  BY BeforeStartStep DEF Agreed, Front
<1>4. Agreed /\ BeforeStart /\ [Next]_vars => [Staged!StagedNext]_Staged!svars
  BY StagedStep
<1> QED
  BY AgreedInvariance, <1>1, <1>2, <1>3, <1>4, PTL DEF Spec, ImplementsStaged, Staged!StagedSpec
=============================================================================
