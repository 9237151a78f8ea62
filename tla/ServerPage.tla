------------------------------ MODULE ServerPage ------------------------------
(***************************************************************************)
(* The page of one server in the browser (src/frontend/src/pages/          *)
(* ServerDetail.tsx): its loads and checks, the reboot it follows until    *)
(* the server answers again, and the panel that starts upgrades.  The      *)
(* server is the host that runs apt-ui itself, so the panel's button is    *)
(* blocked while a package of the container runtime is pending; it has     *)
(* updates, and a root file system that can be written.  The page's form   *)
(* and its other tabs are ServerTabs and AptRepos.                         *)
(*                                                                         *)
(* A check of the server is its number, 0 for none.  The page is a         *)
(* component: leaving it drops what it shows and closes its sockets, but   *)
(* not what it asked for.                                                  *)
(***************************************************************************)
EXTENDS Naturals, FiniteSets

CONSTANTS
    RuntimePending, \* the checks that found a package of the container runtime
    MaxChecks,      \* bound: checks of the server
    MaxAnswers,     \* bound: loads of the page on their way
    MaxStreams,     \* bound: streams whose socket is not closed yet
    MaxReboots,     \* bound: reboots asked for
    ProbeFails      \* bound: reads of the package list that fail

ASSUME ServerPageAssumption ==
    /\ MaxChecks \in Nat \ {0}
    /\ {MaxAnswers, MaxStreams, MaxReboots, ProbeFails} \subseteq Nat
    /\ RuntimePending \subseteq Nat

VARIABLES
    latest,         \* the last check the backend has of the server
    onScreen,       \* the page is on screen
    pageTab,        \* its tab: the upgrade panel, or another one
    server,         \* the check of the server as the page shows it
    answers,        \* loads on their way to the page on screen
    pageChecking,   \* the check that the page on screen waits for
    rebootState,    \* what the page shows of a reboot
    posted,         \* reboots on their way: of the page on screen, of one that is gone
    track,          \* the poll that waits for the server: a timer, or a test
    stray,          \* such a poll of a page that is gone
    followup,       \* a second load is due after the server is back
    reboots,        \* reboots asked for
    probes,         \* reads of the package list on their way
    runtimePkgs,    \* the list the panel has looked at
    runtimeProbed,  \* the panel has looked
    probeErrors,    \* reads of the package list that failed
    probeFailed,    \* the look that settled had failed
    upgrading,      \* the panel shows a run
    sockets,        \* its sockets, and those of panels that are gone
    job             \* the run in the bell

screenVars == <<onScreen, pageTab, server, answers, pageChecking>>
rebootVars == <<rebootState, posted, track, stray, followup, reboots>>
guardVars == <<probes, runtimePkgs, runtimeProbed, probeErrors, probeFailed>>
runVars == <<upgrading, sockets, job>>
serverPageVars == <<latest, screenVars, rebootVars, guardVars, runVars>>

Checks == 0..MaxChecks
None == 0

ServerPageTypeOK ==
    /\ latest \in Checks
    /\ onScreen \in BOOLEAN
    /\ pageTab \in {"Upgrade", "other"}
    /\ server \in Checks
    /\ answers \subseteq Checks
    /\ pageChecking \in BOOLEAN
    /\ rebootState \in {"idle", "confirm", "rebooting", "waiting", "back", "failed"}
    /\ posted \subseteq {"mine", "gone"}
    /\ track \in {"none", "timer", "test"}
    /\ stray \in {"none", "timer", "test"}
    /\ followup \in BOOLEAN
    /\ reboots \in 0..MaxReboots
    /\ probes \subseteq [list : Checks, cancelled : BOOLEAN]
    /\ runtimePkgs \in Checks
    /\ runtimeProbed \in BOOLEAN
    /\ probeErrors \in 0..ProbeFails
    /\ probeFailed \in BOOLEAN
    /\ upgrading \in BOOLEAN
    /\ sockets \in SUBSET [run : 1..MaxStreams, sawTerminal : BOOLEAN, mine : BOOLEAN,
                           forJob : BOOLEAN]
    /\ job \in {"none", "running", "complete", "error"}

ServerPageInit ==
    /\ latest = 1
    /\ onScreen = FALSE
    /\ pageTab = "other"
    /\ server = None
    /\ answers = {}
    /\ pageChecking = FALSE
    /\ rebootState = "idle"
    /\ posted = {}
    /\ track = "none"
    /\ stray = "none"
    /\ followup = FALSE
    /\ reboots = 0
    /\ probes = {}
    /\ runtimePkgs = None
    /\ runtimeProbed = FALSE
    /\ probeErrors = 0
    /\ probeFailed = FALSE
    /\ upgrading = FALSE
    /\ sockets = {}
    /\ job = "none"

-----------------------------------------------------------------------------
(***************************************************************************)
(* The upgrade panel's look at the package list.                           *)
(***************************************************************************)

\* The effect runs anew: what it asked for before is cancelled, and the list
\* of now is asked for.
Cancelled(ps) == {[p EXCEPT !.cancelled = TRUE] : p \in ps}

\* Mutant: what was asked for before may still answer.
ProbeBeside ==
    /\ probes' = probes \union {[list |-> latest, cancelled |-> FALSE]}
    /\ runtimeProbed' = FALSE
    /\ probeFailed' = FALSE

Probe ==
    /\ probes' = Cancelled(probes) \union {[list |-> latest, cancelled |-> FALSE]}
    /\ runtimeProbed' = FALSE
    /\ probeFailed' = FALSE

\* The list arrives, or the read fails; either settles the look.  An answer
\* that was cancelled changes nothing.
ProbeAnswered(p, ok) ==
    /\ p \in probes
    /\ ok \/ probeErrors < ProbeFails
    /\ probeErrors' = IF ok THEN probeErrors ELSE probeErrors + 1
    /\ probes' = probes \ {p}
    /\ runtimePkgs' = IF ok /\ ~p.cancelled THEN p.list ELSE runtimePkgs
    /\ runtimeProbed' = (runtimeProbed \/ ~p.cancelled)
    /\ probeFailed' = (probeFailed \/ (~ok /\ ~p.cancelled))
    /\ UNCHANGED <<latest, screenVars, rebootVars, runVars>>

-----------------------------------------------------------------------------
(***************************************************************************)
(* The page.                                                               *)
(***************************************************************************)
Load == answers' = IF Cardinality(answers) < MaxAnswers THEN answers \union {latest} ELSE answers

\* Before the first load the page has nothing to click.
PageShown == onScreen /\ server # None

CheckNow == PageShown /\ ~pageChecking

\* The panel asks for the list when it is mounted, and again when the check it
\* is shown under changes.
PanelSees(old, new) ==
    IF pageTab' = "Upgrade" /\ new # None /\ (pageTab # "Upgrade" \/ old # new)
      THEN Probe
      ELSE UNCHANGED <<probes, runtimeProbed, probeFailed>>

Enter ==
    /\ ~onScreen
    /\ onScreen' = TRUE
    /\ Load
    /\ UNCHANGED <<latest, pageTab, server, pageChecking, rebootVars, guardVars, runVars>>

\* A load is answered, in any order; it may fail, and the page keeps what it
\* shows.
PageLoads(a, ok) ==
    /\ a \in answers
    /\ answers' = answers \ {a}
    /\ server' = IF ok THEN a ELSE server
    /\ UNCHANGED pageTab
    /\ PanelSees(server, server')
    /\ UNCHANGED <<latest, onScreen, pageChecking, rebootVars, runtimePkgs, probeErrors, runVars>>

HandlePageCheck ==
    /\ CheckNow
    /\ pageChecking' = TRUE
    /\ UNCHANGED <<latest, onScreen, pageTab, server, answers, rebootVars, guardVars, runVars>>

\* The backend has checked the server: for this page, which then loads, or in
\* the scheduler's or another browser's name.
NewCheck ==
    /\ latest < MaxChecks
    /\ latest' = latest + 1
    /\ UNCHANGED <<screenVars, rebootVars, guardVars, runVars>>

PageCheckAnswered(ok) ==
    /\ pageChecking
    /\ pageChecking' = FALSE
    /\ IF ok THEN Load ELSE UNCHANGED answers
    /\ UNCHANGED <<latest, onScreen, pageTab, server, rebootVars, guardVars, runVars>>

\* The panel is unmounted: its look is cancelled, its sockets are closed by us.
PanelGone ==
    /\ probes' = Cancelled(probes)
    /\ runtimeProbed' = FALSE
    /\ probeFailed' = FALSE
    /\ runtimePkgs' = None
    /\ upgrading' = FALSE
    /\ sockets' = {[s EXCEPT !.mine = FALSE] : s \in sockets}
    /\ UNCHANGED <<probeErrors, job>>

SetTab(t) ==
    /\ PageShown
    /\ pageTab # t
    /\ pageTab' = t
    /\ IF t = "Upgrade"
         THEN PanelSees(server, server) /\ UNCHANGED <<runtimePkgs, probeErrors, runVars>>
         ELSE PanelGone
    /\ UNCHANGED <<latest, onScreen, server, answers, pageChecking, rebootVars>>

\* Mutant: the second load stays due.
StopRebootPoll == track' = "none" /\ UNCHANGED followup

\* The page is left, or another server's is opened in its place: its polls are
\* stopped and its sockets closed, its requests go on.
StopRebootTracking == track' = "none" /\ followup' = FALSE

Leave ==
    /\ onScreen
    /\ onScreen' = FALSE
    /\ pageTab' = "other"
    /\ server' = None
    /\ answers' = {}
    /\ pageChecking' = FALSE
    /\ rebootState' = "idle"
    /\ posted' = IF "mine" \in posted THEN {"gone"} ELSE posted
    /\ StopRebootTracking
    /\ PanelGone
    /\ UNCHANGED <<latest, stray, reboots>>

-----------------------------------------------------------------------------
(***************************************************************************)
(* The reboot.                                                             *)
(***************************************************************************)
RebootOnly == UNCHANGED <<latest, onScreen, pageTab, server, pageChecking, guardVars, runVars>>

\* The button, its question, and the note that can be dismissed.
RebootControls(states) == PageShown /\ rebootState \in states

ConfirmReboot ==
    /\ RebootControls({"idle", "confirm"})
    /\ rebootState' = IF rebootState = "idle" THEN "confirm" ELSE "idle"
    /\ UNCHANGED <<posted, track, stray, followup, reboots, answers>>
    /\ RebootOnly

HandleReboot ==
    /\ RebootControls({"confirm"})
    /\ reboots < MaxReboots
    /\ reboots' = reboots + 1
    /\ rebootState' = "rebooting"
    /\ posted' = posted \union {"mine"}
    /\ UNCHANGED <<track, stray, followup, answers>>
    /\ RebootOnly

\* The answer starts the poll, whether or not the page is still there: the
\* handler goes on after its await.
RebootAnswered(who, ok) ==
    /\ who \in posted
    /\ posted' = posted \ {who}
    /\ IF who = "mine"
         THEN /\ rebootState' = IF ok THEN "waiting" ELSE "idle"
              /\ track' = IF ok THEN "timer" ELSE track
              /\ followup' = FALSE
              /\ UNCHANGED stray
         ELSE /\ stray' = IF ok THEN "timer" ELSE stray
              /\ UNCHANGED <<rebootState, track, followup>>
    /\ UNCHANGED <<reboots, answers>>
    /\ RebootOnly

\* Mutant: the poll has no end of its own.
PollTimerForever(timedOut) ==
    /\ ~timedOut
    /\ track = "timer"
    /\ track' = "test"
    /\ UNCHANGED <<rebootState, posted, stray, followup, reboots, answers>>
    /\ RebootOnly

\* The timer fires: ten minutes are over, or the server is tested again.
PollTimer(timedOut) ==
    /\ track = "timer"
    /\ track' = IF timedOut THEN "none" ELSE "test"
    /\ rebootState' = IF timedOut THEN "failed" ELSE rebootState
    /\ UNCHANGED <<posted, stray, followup, reboots, answers>>
    /\ RebootOnly

\* The test is answered.  A server that is reached is loaded, now and later.
TestAnswered(reachable) ==
    /\ track = "test"
    /\ track' = IF reachable THEN "none" ELSE "timer"
    /\ rebootState' = IF reachable THEN "back" ELSE rebootState
    /\ followup' = reachable
    /\ IF reachable THEN Load ELSE UNCHANGED answers
    /\ UNCHANGED <<posted, stray, reboots>>
    /\ RebootOnly

FollowUp ==
    /\ followup
    /\ followup' = FALSE
    /\ Load
    /\ UNCHANGED <<rebootState, posted, track, stray, reboots>>
    /\ RebootOnly

DismissRebootTracking ==
    /\ RebootControls({"back", "failed"})
    /\ rebootState' = "idle"
    /\ StopRebootTracking
    /\ UNCHANGED <<posted, stray, reboots, answers>>
    /\ RebootOnly

\* The poll of a page that is gone goes round in the same way, until the server
\* is reached or ten minutes are over.
StrayPoll(ends) ==
    /\ stray # "none"
    /\ stray' = IF ends THEN "none" ELSE IF stray = "timer" THEN "test" ELSE "timer"
    /\ UNCHANGED <<rebootState, posted, track, followup, reboots, answers>>
    /\ RebootOnly

-----------------------------------------------------------------------------
(***************************************************************************)
(* The runs of the upgrade panel.                                          *)
(***************************************************************************)
RunOnly == UNCHANGED <<latest, onScreen, pageTab, server, pageChecking, rebootVars, guardVars>>

\* The form with the options and its buttons, and the box with "pveupgrade",
\* are there while the panel shows no run.
UpgradeOptions == PageShown /\ pageTab = "Upgrade" /\ ~upgrading
PveBox == PageShown /\ pageTab = "Upgrade" /\ ~upgrading

OpenStream(withJob) ==
    /\ upgrading' = TRUE
    /\ \E r \in 1..MaxStreams :
          /\ {s.run : s \in sockets} \intersect 1..r = 1..(r - 1)
          /\ sockets' = sockets \union {[run |-> r, sawTerminal |-> FALSE, mine |-> TRUE,
                                        forJob |-> withJob]}
    /\ job' = IF withJob THEN "running" ELSE job
    /\ UNCHANGED answers
    /\ RunOnly

\* "Run Upgrade": blocked until the look has settled, and by what it found.
RunBlocked == ~runtimeProbed \/ runtimePkgs \in RuntimePending

StartOneUpgrade == UpgradeOptions /\ ~RunBlocked /\ OpenStream(TRUE)

\* "pveupgrade" is a button of its own, which does not ask the guard.
StartPveUpgrade == PveBox /\ OpenStream(TRUE)

\* "apt-get update" has no job in the bell.
RunAptUpdate == UpgradeOptions /\ OpenStream(FALSE)

\* The stream says how the run ended; the socket is closed afterwards.
StreamTells(s, status) ==
    /\ s \in sockets
    /\ s.mine
    /\ sockets' = (sockets \ {s}) \union {[s EXCEPT !.sawTerminal = TRUE]}
    /\ job' = IF s.forJob /\ job # "none" THEN status ELSE job
    /\ UNCHANGED <<upgrading, answers>>
    /\ RunOnly

\* Mutant: a stream that breaks leaves the job as it is.
StreamClosesSilently(s) ==
    /\ s \in sockets
    /\ sockets' = sockets \ {s}
    /\ upgrading' = (upgrading /\ ~s.mine)
    /\ UNCHANGED job
    /\ IF onScreen THEN Load ELSE UNCHANGED answers
    /\ RunOnly

\* The close event, of a stream that ended or broke or that we closed: a run
\* that told nothing counts as failed, and the page is loaded.
StreamCloses(s) ==
    /\ s \in sockets
    /\ sockets' = sockets \ {s}
    /\ upgrading' = (upgrading /\ ~s.mine)
    /\ job' = IF s.forJob /\ ~s.sawTerminal /\ job # "none" THEN "error" ELSE job
    /\ IF onScreen THEN Load ELSE UNCHANGED answers
    /\ RunOnly

\* The bell drops a finished job after a while.
JobExpires ==
    /\ job \in {"complete", "error"}
    /\ job' = "none"
    /\ UNCHANGED <<upgrading, sockets, answers>>
    /\ RunOnly

ServerPageNext ==
    \/ \E p \in probes, ok \in BOOLEAN : ProbeAnswered(p, ok)
    \/ Enter \/ Leave
    \/ \E a \in answers, ok \in BOOLEAN : PageLoads(a, ok)
    \/ HandlePageCheck
    \/ NewCheck
    \/ \E ok \in BOOLEAN : PageCheckAnswered(ok)
    \/ \E t \in {"Upgrade", "other"} : SetTab(t)
    \/ ConfirmReboot \/ HandleReboot
    \/ \E who \in {"mine", "gone"}, ok \in BOOLEAN : RebootAnswered(who, ok)
    \/ \E b \in BOOLEAN : PollTimer(b) \/ TestAnswered(b)
    \/ FollowUp \/ DismissRebootTracking
    \/ \E ends \in BOOLEAN : StrayPoll(ends)
    \/ StartOneUpgrade \/ StartPveUpgrade \/ RunAptUpdate
    \/ \E s \in sockets : StreamCloses(s) \/ \E status \in {"complete", "error"} : StreamTells(s, status)
    \/ JobExpires

\* Requests are answered, timers fire, sockets that we closed close; the ten
\* minutes of a reboot pass.
ServerPageFairness ==
    /\ WF_serverPageVars(\E who \in {"mine", "gone"}, ok \in BOOLEAN : RebootAnswered(who, ok))
    /\ WF_serverPageVars(\E b \in BOOLEAN : PollTimer(b) \/ TestAnswered(b))
    /\ SF_serverPageVars(PollTimer(TRUE))
    /\ WF_serverPageVars(\E s \in sockets : StreamCloses(s))

ServerPageSpec ==
    ServerPageInit /\ [][ServerPageNext]_serverPageVars /\ ServerPageFairness

-----------------------------------------------------------------------------
(***************************************************************************)
(* Properties.                                                             *)
(***************************************************************************)

\* While "Run Upgrade" can be clicked, the list the panel looked at is at least
\* as new as the check it is shown under, in whatever order loads, checks and
\* lists arrive and fail: no answer to an earlier look lets a pending container
\* runtime through.  (A look that failed counts as a look in the code, and lets
\* it through.)
GuardIsFresh ==
    pageTab = "Upgrade" /\ runtimeProbed /\ ~probeFailed => runtimePkgs >= server

\* What the page says of a reboot is what drives it: while it waits there is one
\* poll, while it asks there is a request, and no load that an earlier reboot
\* left due fires into a later one, whenever the page is left, the note is
\* dismissed or an answer is late.
RebootIsDriven ==
    /\ rebootState = "waiting" <=> track # "none"
    /\ rebootState = "rebooting" <=> "mine" \in posted
    /\ followup => rebootState = "back"

\* A reboot that is followed comes to an end, found or given up.
RebootEnds == rebootState = "waiting" ~> rebootState # "waiting"

\* A run in the bell has a socket that will end it: no job stays running after
\* the panel that drove it has gone or its stream has broken.
JobHasSocket == job = "running" => \E s \in sockets : s.forJob /\ ~s.sawTerminal
=============================================================================
