------------------------------ MODULE JobStore ------------------------------
(***************************************************************************)
(* The bell of the browser tab: the store of src/frontend/src/hooks/       *)
(* useJobStore.ts.  A job is one operation this tab drives, under an id    *)
(* that names its kind and never the run ("upgrade-all", "check-7").  A    *)
(* finished job leaves the list when its timer fires, and the timer knows  *)
(* nothing of the job but that id.                                         *)
(*                                                                         *)
(* The module holds the store and the operators on its value; the          *)
(* components that write to the bell say when it changes.                  *)
(***************************************************************************)
EXTENDS Naturals, Sequences, Lists

CONSTANTS
    JobIds,         \* the ids the callers of addJob use
    ListCap         \* how many jobs the list keeps, 15 in the code

VARIABLE bell       \* the store: its list of jobs and its removal timers

Finished == {"complete", "error"}

Job == [id : JobIds, status : {"running"} \union Finished]

\* The list is newest first; timers counts the removals due per id.  The dot
\* for finished jobs nobody has looked at is presentation and left out.
EmptyBell == [jobs |-> <<>>, timers |-> [i \in JobIds |-> 0]]

BellType(b) ==
    /\ b \in [jobs : Seq(Job), timers : [JobIds -> Nat]]
    /\ Len(b.jobs) <= ListCap

StatusIn(b, i) ==
    IF \E n \in DOMAIN b.jobs : b.jobs[n].id = i
    THEN b.jobs[CHOOSE n \in DOMAIN b.jobs : b.jobs[n].id = i].status
    ELSE "none"

Without(jobs, i) == Keep(jobs, {n \in DOMAIN jobs : jobs[n].id # i})

\* A new job replaces the one with its id and pushes the oldest off the end.
AddJob(b, i) ==
    LET listed == <<[id |-> i, status |-> "running"]>> \o Without(b.jobs, i) IN
    [b EXCEPT !.jobs = SubSeq(listed, 1, IF Len(listed) < ListCap THEN Len(listed) ELSE ListCap)]

\* The first change from running to an end starts the removal timer; any
\* other change is written without one.
UpdateJob(b, i, status) ==
    LET finishing == StatusIn(b, i) = "running" /\ status \in Finished IN
    [b EXCEPT !.jobs = [n \in DOMAIN b.jobs |->
                          IF b.jobs[n].id = i THEN [b.jobs[n] EXCEPT !.status = status]
                                              ELSE b.jobs[n]],
              !.timers[i] = IF finishing THEN @ + 1 ELSE @]

RemoveJob(b, i) == [b EXCEPT !.jobs = Without(b.jobs, i)]

\* The timer of a finished job: it removes whatever now has the id.
TimerFires(b, i) == [RemoveJob(b, i) EXCEPT !.timers[i] = @ - 1]

\* A reload starts from an empty list: nothing this tab drove is still driven.
Rehydrate(b) == EmptyBell

\* The server's tasks worth a card: those this tab does not drive itself.
VisibleServerTasks(b, tasks) == {i \in tasks : StatusIn(b, i) # "running"}
=============================================================================
