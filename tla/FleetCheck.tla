----------------------------- MODULE FleetCheck -----------------------------
(***************************************************************************)
(* Checking servers from the browser: the Dashboard's Check All, Refresh   *)
(* All and per-server Check, the command palette's fleet check, and the    *)
(* two polls that follow a fleet check - the Dashboard's, for its banner   *)
(* and its buttons, and the Layout's, for the bell.  The server keeps one  *)
(* progress record for all fleet checks (routers/servers.py), which every  *)
(* run overwrites and the first to end marks as over.                      *)
(***************************************************************************)
EXTENDS JobStore, FiniteSets

CONSTANTS
    Checkable,      \* the servers with a Check button
    CheckJob,       \* CheckJob[s]: the job id "check-<id>" of server s
    MaxStarts,      \* bound: fleet checks started
    MaxDue          \* bound: removal timers due for one server's job

ASSUME FleetCheckAssumption ==
    /\ {"check-all"} \union {CheckJob[s] : s \in Checkable} \subseteq JobIds
    /\ ListCap \in Nat \ {0}
    /\ MaxStarts \in Nat
    /\ MaxDue \in Nat

VARIABLES
    mounted,        \* the Dashboard is on screen
    checkingAll,    \* its banner is up and its two buttons are disabled
    interval,       \* progressIntervalRef holds a running interval
    strays,         \* running intervals the ref of the Dashboard on screen has lost
    failures,       \* progressFailuresRef
    polls,          \* answers to the Dashboard's polls still on their way
    layoutPolls,    \* answers to the Layout's polls still on their way
    starting,       \* starting[w]: answers to POST check-all that w waits for
    checking,       \* servers whose Check button shows a spinner
    asked,          \* servers with a POST check request still out
    active,         \* fleet checks running at the server
    running,        \* _check_progress["running"]
    starts          \* fleet checks started, bounded by MaxStarts

dashVars == <<mounted, checkingAll, interval, strays, failures, polls>>
checkVars == <<checking, asked>>
serverVars == <<active, running, starts>>
fleetCheckVars == <<dashVars, layoutPolls, starting, checkVars, serverVars, bell>>

Answers == {"running", "over"}
Callers == {"dashboard", "palette", "left"}     \* "left": a Dashboard that is gone

\* Requests of the Dashboard are still out for a component that may be gone.
CheckTypeOK ==
    /\ mounted \in BOOLEAN
    /\ checkingAll \in BOOLEAN
    /\ interval \in BOOLEAN
    /\ strays \in Nat
    /\ failures \in 0..3
    /\ polls \subseteq Answers
    /\ layoutPolls \subseteq Answers
    /\ starting \in [Callers -> 0..MaxStarts]
    /\ checking \subseteq Checkable
    /\ asked \subseteq Checkable
    /\ active \in 0..MaxStarts
    /\ running \in BOOLEAN
    /\ starts \in 0..MaxStarts
    /\ BellType(bell)

CheckInit ==
    /\ mounted = TRUE
    /\ checkingAll = FALSE
    /\ interval = FALSE
    /\ strays = 0
    /\ failures = 0
    /\ polls = {}
    /\ layoutPolls = {}
    /\ starting = [w \in Callers |-> 0]
    /\ checking = {}
    /\ asked = {}
    /\ active = 0
    /\ running = FALSE
    /\ starts = 0
    /\ bell = EmptyBell

-----------------------------------------------------------------------------
(***************************************************************************)
(* Starting a fleet check.                                                 *)
(***************************************************************************)

\* "Check All" and "Refresh All" are disabled while the banner is up.
CheckButtons == mounted /\ ~checkingAll

\* _runCheckAll up to its first await: the job is in the bell before the
\* request is sent.
RunCheckAll ==
    /\ CheckButtons
    /\ starts < MaxStarts
    /\ starts' = starts + 1
    /\ checkingAll' = TRUE
    /\ failures' = 0
    /\ starting' = [starting EXCEPT !["dashboard"] = @ + 1]
    /\ bell' = AddJob(bell, "check-all")
    /\ UNCHANGED <<mounted, interval, strays, polls, layoutPolls, checkVars, active, running>>

\* runFleetCheck of the palette asks nothing of the Dashboard's state.
RunFleetCheck ==
    /\ starts < MaxStarts
    /\ starts' = starts + 1
    /\ starting' = [starting EXCEPT !["palette"] = @ + 1]
    /\ bell' = AddJob(bell, "check-all")
    /\ UNCHANGED <<dashVars, layoutPolls, checkVars, active, running>>

\* check-all and refresh-all at the server: the record is reset, the run is
\* detached, the answer is sent.  The Dashboard then polls every 2 s.
StartAnswered(w) ==
    /\ starting[w] > 0
    /\ starting' = [starting EXCEPT ![w] = @ - 1]
    /\ active' = active + 1
    /\ running' = TRUE
    /\ interval' = IF w = "dashboard" THEN TRUE ELSE interval
    /\ strays' = IF w = "dashboard" /\ interval THEN strays + 1 ELSE strays
    /\ UNCHANGED <<mounted, checkingAll, failures, polls, layoutPolls, checkVars, starts, bell>>

\* Mutant: a start that fails leaves the banner up.
StartFailsQuietly(w) ==
    /\ starting[w] > 0
    /\ starting' = [starting EXCEPT ![w] = @ - 1]
    /\ \/ UNCHANGED <<active, running>>
       \/ active' = active + 1 /\ running' = TRUE
    /\ bell' = UpdateJob(bell, "check-all", "error")
    /\ UNCHANGED <<dashVars, layoutPolls, checkVars, starts>>

\* The request fails, on its way there or on its way back.
StartFails(w) ==
    /\ starting[w] > 0
    /\ starting' = [starting EXCEPT ![w] = @ - 1]
    /\ \/ UNCHANGED <<active, running>>
       \/ active' = active + 1 /\ running' = TRUE
    /\ checkingAll' = IF w = "dashboard" THEN FALSE ELSE checkingAll
    /\ bell' = UpdateJob(bell, "check-all", "error")
    /\ UNCHANGED <<mounted, interval, strays, failures, polls, layoutPolls, checkVars, starts>>

\* A run ends at the server; the record says so for all of them.
RunEnds ==
    /\ active > 0
    /\ active' = active - 1
    /\ running' = FALSE
    /\ UNCHANGED <<dashVars, layoutPolls, starting, checkVars, starts, bell>>

-----------------------------------------------------------------------------
(***************************************************************************)
(* The two polls.  A poll is sent whether or not the one before has been   *)
(* answered, and what the server answers is what it sees when asked.       *)
(***************************************************************************)
Progress == IF running THEN "running" ELSE "over"

DashboardPoll ==
    /\ mounted
    /\ interval \/ strays > 0
    /\ polls' = polls \union {Progress}
    /\ UNCHANGED <<mounted, checkingAll, interval, strays, failures, layoutPolls, starting,
                   checkVars, serverVars, bell>>

\* Mutant: the interval is cleared and the banner stays.
StopInterval == interval' = FALSE /\ UNCHANGED checkingAll

StopPolling ==
    /\ interval' = FALSE
    /\ checkingAll' = FALSE

DashboardHears(a) ==
    /\ a \in polls
    /\ polls' = polls \ {a}
    /\ failures' = 0
    /\ IF a = "over" THEN StopPolling ELSE UNCHANGED <<interval, checkingAll>>
    /\ UNCHANGED <<mounted, strays, layoutPolls, starting, checkVars, serverVars, bell>>

\* Three failed polls in a row end it.
DashboardPollFails(a) ==
    /\ a \in polls
    /\ polls' = polls \ {a}
    /\ failures' = IF failures < 3 THEN failures + 1 ELSE failures
    /\ IF failures' >= 3 THEN StopPolling ELSE UNCHANGED <<interval, checkingAll>>
    /\ UNCHANGED <<mounted, strays, layoutPolls, starting, checkVars, serverVars, bell>>

\* Mutant: only the Dashboard's page polls for the bell.
LayoutPollOnDashboard ==
    /\ mounted
    /\ StatusIn(bell, "check-all") = "running"
    /\ layoutPolls' = layoutPolls \union {Progress}
    /\ UNCHANGED <<dashVars, starting, checkVars, serverVars, bell>>

\* The Layout polls as long as the bell shows the job as running.
LayoutPoll ==
    /\ StatusIn(bell, "check-all") = "running"
    /\ layoutPolls' = layoutPolls \union {Progress}
    /\ UNCHANGED <<dashVars, starting, checkVars, serverVars, bell>>

LayoutHears(a) ==
    /\ a \in layoutPolls
    /\ layoutPolls' = layoutPolls \ {a}
    /\ bell' = IF a = "over" THEN UpdateJob(bell, "check-all", "complete") ELSE bell
    /\ UNCHANGED <<dashVars, starting, checkVars, serverVars>>

LayoutPollFails(a) ==
    /\ a \in layoutPolls
    /\ layoutPolls' = layoutPolls \ {a}
    /\ bell' = UpdateJob(bell, "check-all", "error")
    /\ UNCHANGED <<dashVars, starting, checkVars, serverVars>>

-----------------------------------------------------------------------------
(***************************************************************************)
(* One server's Check.                                                     *)
(***************************************************************************)
CardOffersCheck(s) == mounted /\ s \notin checking

\* A card that came back with its page asks again only once the request it
\* does not know of is over; the wait is a bound of the model.
HandleCheck(s) ==
    /\ CardOffersCheck(s)
    /\ s \notin asked
    /\ bell.timers[CheckJob[s]] < MaxDue
    /\ checking' = checking \union {s}
    /\ asked' = asked \union {s}
    /\ bell' = AddJob(bell, CheckJob[s])
    /\ UNCHANGED <<dashVars, layoutPolls, starting, serverVars>>

\* The answer ends the spinner, unless the component that asked is gone, and
\* the job that has the id now.
CheckAnswered(s, status) ==
    /\ s \in asked
    /\ asked' = asked \ {s}
    /\ checking' = checking \ {s}
    /\ bell' = UpdateJob(bell, CheckJob[s], status)
    /\ UNCHANGED <<dashVars, layoutPolls, starting, serverVars>>

-----------------------------------------------------------------------------
(***************************************************************************)
(* The rest of the tab.                                                    *)
(***************************************************************************)

\* Unmounting clears the interval in the ref and forgets the spinners.  An
\* interval that the ref has lost ticks on, and answers are still out, for a
\* component that is gone: neither is heard by the one that comes next.
LeaveDashboard ==
    /\ mounted
    /\ mounted' = FALSE
    /\ checkingAll' = FALSE
    /\ interval' = FALSE
    /\ strays' = 0
    /\ failures' = 0
    /\ polls' = {}
    /\ starting' = [starting EXCEPT !["dashboard"] = 0, !["left"] = @ + starting["dashboard"]]
    /\ checking' = {}
    /\ UNCHANGED <<layoutPolls, asked, serverVars, bell>>

EnterDashboard ==
    /\ ~mounted
    /\ mounted' = TRUE
    /\ UNCHANGED <<checkingAll, interval, strays, failures, polls, layoutPolls, starting,
                   checkVars, serverVars, bell>>

RemovalDue(i) ==
    /\ bell.timers[i] > 0
    /\ bell' = TimerFires(bell, i)
    /\ UNCHANGED <<dashVars, layoutPolls, starting, checkVars, serverVars>>

CheckNext ==
    \/ RunCheckAll
    \/ RunFleetCheck
    \/ \E w \in Callers : StartAnswered(w)
    \/ \E w \in Callers : StartFails(w)
    \/ RunEnds
    \/ DashboardPoll
    \/ \E a \in Answers : DashboardHears(a)
    \/ \E a \in Answers : DashboardPollFails(a)
    \/ LayoutPoll
    \/ \E a \in Answers : LayoutHears(a)
    \/ \E a \in Answers : LayoutPollFails(a)
    \/ \E s \in Checkable : HandleCheck(s)
    \/ \E s \in Checkable, status \in Finished : CheckAnswered(s, status)
    \/ LeaveDashboard
    \/ EnterDashboard
    \/ \E i \in JobIds : RemovalDue(i)

\* Intervals tick, requests are answered or fail, and a check ends.
CheckFairness ==
    /\ WF_fleetCheckVars(RunEnds)
    /\ WF_fleetCheckVars(DashboardPoll)
    /\ WF_fleetCheckVars(LayoutPoll)
    /\ \A a \in Answers : WF_fleetCheckVars(DashboardHears(a) \/ DashboardPollFails(a))
    /\ \A a \in Answers : WF_fleetCheckVars(LayoutHears(a) \/ LayoutPollFails(a))
    /\ \A w \in Callers : WF_fleetCheckVars(StartAnswered(w) \/ StartFails(w))
    /\ \A s \in Checkable : WF_fleetCheckVars(\E status \in Finished : CheckAnswered(s, status))
    /\ \A i \in JobIds : WF_fleetCheckVars(RemovalDue(i))

CheckSpec == CheckInit /\ [][CheckNext]_fleetCheckVars /\ CheckFairness

-----------------------------------------------------------------------------
(***************************************************************************)
(* Properties.                                                             *)
(***************************************************************************)

\* While the banner is up there is something that will take it down: the answer
\* to the request that started the check, or the interval that polls for its end.
\* No poll that an earlier check has left, and no page that was left and came
\* back, takes the interval from under a banner.
BannerHasPoll == checkingAll => interval \/ starting["dashboard"] > 0

\* The bell's fleet check comes to an end, whoever started it, from whatever
\* page, and however many checks overlap.
FleetJobEnds == StatusIn(bell, "check-all") = "running" ~> StatusIn(bell, "check-all") # "running"

\* The banner comes down and the buttons are enabled again.
BannerEnds == checkingAll ~> ~checkingAll

=============================================================================
