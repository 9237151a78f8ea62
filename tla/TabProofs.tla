------------------------------ MODULE TabProofs ------------------------------
(***************************************************************************)
(* Theorems about Tab and its parts: the guard and the jobs of the server  *)
(* page, the count, the chips and the list of the bell, the banner and the *)
(* polls of the fleet check, and the types of all of them.  They hold for  *)
(* any number of servers, runs, checks, loads and sockets.                 *)
(***************************************************************************)
EXTENDS Tab, ListProofs

(***************************************************************************)
(* The upgrade panel's look at the package list.  A look that is not       *)
(* cancelled was asked for under the check that the page shows now, or     *)
(* after it: that is what makes its answer count.                          *)
(***************************************************************************)
Look == [list : Nat, cancelled : BOOLEAN]

GuardInv ==
    /\ latest \in Nat
    /\ server \in Nat /\ server <= latest
    /\ answers \subseteq Nat /\ \A a \in answers : a <= latest
    /\ pageTab \in {"Upgrade", "other"}
    /\ probes \subseteq Look
    /\ runtimePkgs \in Nat
    /\ pageTab = "Upgrade" => \A p \in probes : ~p.cancelled => p.list >= server
    /\ GuardIsFresh

LEMMA CancelledLooks ==
    ASSUME NEW ps, ps \subseteq Look
    PROVE  /\ Cancelled(ps) \subseteq Look
           /\ \A p \in Cancelled(ps) : p.cancelled
  BY DEF Cancelled, Look

\* What a load asks for is the check of now.
LEMMA LoadIsNow ==
    ASSUME GuardInv, Load \/ UNCHANGED answers
    PROVE  answers' \subseteq Nat /\ \A a \in answers' : a <= latest
<1>1. answers' \in {answers, answers \union {latest}}
  BY DEF Load
<1>2. CASE answers' = answers
  BY <1>2 DEF GuardInv
<1>3. CASE answers' = answers \union {latest}
  <2>1. \A a \in answers' : a \in Nat /\ a <= latest
    BY <1>3 DEF GuardInv
  <2> QED
    BY <2>1
<1> QED
  BY <1>1, <1>2, <1>3

\* What matters to the guard, when neither tab nor check changes.
LEMMA SameScreen ==
    ASSUME GuardInv,
           UNCHANGED <<latest, server, pageTab, probes, runtimePkgs, runtimeProbed, probeFailed>>,
           Load \/ UNCHANGED answers
    PROVE  GuardInv'
  BY LoadIsNow DEF GuardInv, GuardIsFresh

\* The panel under another tab or check.
LEMMA PanelIsShown ==
    ASSUME GuardInv, UNCHANGED <<latest, runtimePkgs>>,
           server' \in Nat, server' <= latest,
           answers' \subseteq answers,
           pageTab' \in {"Upgrade", "other"},
           PanelSees(server, server')
    PROVE  GuardInv'
<1>1. ASSUME pageTab' = "Upgrade", server' # None, pageTab # "Upgrade" \/ server # server'
      PROVE  GuardInv'
  <2>1. /\ probes' = Cancelled(probes) \union {[list |-> latest, cancelled |-> FALSE]}
        /\ runtimeProbed' = FALSE
    BY <1>1 DEF PanelSees, Probe
  <2>2. probes \subseteq Look /\ latest \in Nat
    BY DEF GuardInv
  <2>3. [list |-> latest, cancelled |-> FALSE] \in Look
    BY <2>2 DEF Look
  <2>4. \A p \in probes' : p \in Look /\ (p.cancelled \/ p.list = latest)
    <3>1. Cancelled(probes) \subseteq Look /\ \A p \in Cancelled(probes) : p.cancelled
      BY <2>2, CancelledLooks
    <3>2. [list |-> latest, cancelled |-> FALSE].list = latest
      OBVIOUS
    <3> QED
      BY <2>1, <2>3, <3>1, <3>2
  <2>5. probes' \subseteq Look /\ \A p \in probes' : ~p.cancelled => p.list >= server'
    BY <2>2, <2>4 DEF Look
  <2> QED
    BY <2>1, <2>5 DEF GuardInv, GuardIsFresh
<1>2. ASSUME ~(pageTab' = "Upgrade" /\ server' # None /\ (pageTab # "Upgrade" \/ server # server'))
      PROVE  GuardInv'
  <2>1. UNCHANGED <<probes, runtimeProbed, probeFailed>>
    BY <1>2 DEF PanelSees
  <2>2. pageTab' = "Upgrade" => server' = 0 \/ (pageTab = "Upgrade" /\ server' = server)
    BY <1>2, pageTab' \in {"Upgrade", "other"} DEF None
  <2>3. pageTab' = "Upgrade" => \A p \in probes' : ~p.cancelled => p.list >= server'
    BY <2>1, <2>2 DEF GuardInv, Look
  <2>4. GuardIsFresh'
    <3>1. CASE pageTab' = "Upgrade" /\ server' = 0
      BY <3>1 DEF GuardInv, GuardIsFresh
    <3>2. CASE pageTab' = "Upgrade" /\ pageTab = "Upgrade" /\ server' = server
      BY <2>1, <3>2 DEF GuardInv, GuardIsFresh
    <3> QED
      BY <2>2, <3>1, <3>2 DEF GuardIsFresh
  <2>5. /\ latest' \in Nat /\ server' \in Nat /\ server' <= latest'
        /\ answers' \subseteq Nat /\ \A a \in answers' : a <= latest'
    BY DEF GuardInv
  <2>6. probes' \subseteq Look /\ runtimePkgs' \in Nat
    BY <2>1 DEF GuardInv
  <2> QED
    BY <2>3, <2>4, <2>5, <2>6 DEF GuardInv
<1> QED
  BY <1>1, <1>2

LEMMA GuardInvStep == GuardInv /\ [ServerPageNext]_serverPageVars => GuardInv'
<1> SUFFICES ASSUME GuardInv, [ServerPageNext]_serverPageVars PROVE GuardInv'
  OBVIOUS
<1>1. ASSUME NEW p \in probes, NEW ok \in BOOLEAN, ProbeAnswered(p, ok) PROVE GuardInv'
  <2>1. p \in Look
    BY DEF GuardInv
  <2>2. UNCHANGED <<latest, server, answers, pageTab>> /\ probes' = probes \ {p}
    BY <1>1 DEF ProbeAnswered, screenVars
  <2>3. runtimePkgs' \in Nat
    BY <1>1, <2>1 DEF ProbeAnswered, GuardInv, Look
  <2>4. CASE p.cancelled
    <3>1. UNCHANGED <<runtimePkgs, runtimeProbed, probeFailed>>
          \/ (runtimePkgs' = runtimePkgs /\ (runtimeProbed' <=> runtimeProbed)
                /\ (probeFailed' <=> probeFailed))
      BY <1>1, <2>1, <2>4 DEF ProbeAnswered
    <3> QED
      BY <2>2, <3>1 DEF GuardInv, GuardIsFresh
  <2>5. CASE ~p.cancelled /\ ok
    <3>1. runtimePkgs' = p.list
      BY <1>1, <2>5 DEF ProbeAnswered
    <3> QED
      BY <2>1, <2>2, <2>3, <2>5, <3>1 DEF GuardInv, GuardIsFresh
  <2>6. CASE ~p.cancelled /\ ~ok
    <3>1. probeFailed'
      BY <1>1, <2>6 DEF ProbeAnswered
    <3> QED
      BY <2>1, <2>2, <2>3, <3>1 DEF GuardInv, GuardIsFresh
  <2> QED
    BY <2>4, <2>5, <2>6
<1>2. CASE Enter
  BY <1>2, SameScreen DEF Enter, guardVars
<1>3. CASE Leave
  <2>1. /\ latest' = latest /\ server' = 0 /\ pageTab' = "other" /\ answers' = {}
        /\ probes' = Cancelled(probes) /\ runtimePkgs' = 0
    BY <1>3 DEF Leave, PanelGone, None
  <2> QED
    BY <2>1, CancelledLooks DEF GuardInv, GuardIsFresh
<1>4. ASSUME NEW a \in answers, NEW ok \in BOOLEAN, PageLoads(a, ok) PROVE GuardInv'
  <2>1. server' \in Nat /\ server' <= latest
    BY <1>4 DEF PageLoads, GuardInv
  <2> QED
    BY <1>4, <2>1, PanelIsShown DEF PageLoads, GuardInv
<1>5. CASE HandlePageCheck
  BY <1>5, SameScreen DEF HandlePageCheck, guardVars
<1>6. CASE NewCheck
  BY <1>6 DEF NewCheck, screenVars, guardVars, GuardInv, GuardIsFresh
<1>7. ASSUME NEW ok \in BOOLEAN, PageCheckAnswered(ok) PROVE GuardInv'
  BY <1>7, SameScreen DEF PageCheckAnswered, guardVars
<1>8. ASSUME NEW t \in {"Upgrade", "other"}, SetTab(t) PROVE GuardInv'
  <2>1. CASE t = "Upgrade"
    BY <1>8, <2>1, PanelIsShown DEF SetTab, PageShown, GuardInv
  <2>2. CASE t = "other"
    <3>1. /\ UNCHANGED <<latest, server, answers>> /\ pageTab' = "other"
          /\ probes' = Cancelled(probes) /\ runtimePkgs' = 0
      BY <1>8, <2>2 DEF SetTab, PanelGone, None
    <3> QED
      BY <3>1, CancelledLooks DEF GuardInv, GuardIsFresh
  <2> QED
    BY <2>1, <2>2
<1>9. CASE ConfirmReboot \/ HandleReboot \/ FollowUp \/ DismissRebootTracking
  BY <1>9, SameScreen DEF ConfirmReboot, HandleReboot, FollowUp, DismissRebootTracking,
     RebootOnly, guardVars
<1>10. ASSUME NEW who, NEW b, RebootAnswered(who, b) PROVE GuardInv'
  BY <1>10, SameScreen DEF RebootAnswered, RebootOnly, guardVars
<1>11. ASSUME NEW b, PollTimer(b) \/ TestAnswered(b) \/ StrayPoll(b) PROVE GuardInv'
  BY <1>11, SameScreen DEF PollTimer, TestAnswered, StrayPoll, RebootOnly, guardVars
<1>12. CASE StartOneUpgrade \/ StartPveUpgrade \/ RunAptUpdate \/ JobExpires
  <2>1. ASSUME NEW withJob, OpenStream(withJob) PROVE GuardInv'
    BY <2>1, SameScreen DEF OpenStream, RunOnly, guardVars
  <2> QED
    BY <1>12, <2>1, SameScreen DEF StartOneUpgrade, StartPveUpgrade, RunAptUpdate, JobExpires,
       RunOnly, guardVars
<1>13. ASSUME NEW s \in sockets, StreamCloses(s) PROVE GuardInv'
  BY <1>13, SameScreen DEF StreamCloses, RunOnly, guardVars
<1>14. ASSUME NEW s \in sockets, NEW told, StreamTells(s, told) PROVE GuardInv'
  BY <1>14, SameScreen DEF StreamTells, RunOnly, guardVars
<1>15. CASE UNCHANGED serverPageVars
  BY <1>15, SameScreen DEF serverPageVars, screenVars, guardVars
<1> QED
  BY <1>1, <1>2, <1>3, <1>4, <1>5, <1>6, <1>7, <1>8, <1>9, <1>10, <1>11, <1>12, <1>13, <1>14,
     <1>15 DEF ServerPageNext

\* Whatever order loads, checks and package lists arrive in, "Run Upgrade" is
\* decided on a list that is no older than the check on screen, unless the look
\* had failed (the probe effect of UpgradePanel).
THEOREM GuardFresh == ServerPageSpec => []GuardIsFresh
<1>1. ASSUME ServerPageAssumption PROVE ServerPageInit => GuardInv
  BY DEF ServerPageInit, GuardInv, GuardIsFresh, None
<1>2. ServerPageInit => GuardInv
  BY <1>1, ServerPageAssumption
<1>3. GuardInv => GuardIsFresh
  BY DEF GuardInv
<1> QED
  BY <1>2, <1>3, GuardInvStep, PTL DEF ServerPageSpec

-----------------------------------------------------------------------------
(***************************************************************************)
(* The job of a run.  Only a stream of the panel writes the bell, and a    *)
(* stream that still can is what a running job has.                        *)
(***************************************************************************)
LEMMA JobHasSocketStep ==
    JobHasSocket /\ [ServerPageNext]_serverPageVars => JobHasSocket'
<1> SUFFICES ASSUME JobHasSocket, [ServerPageNext]_serverPageVars PROVE JobHasSocket'
  OBVIOUS
<1>1. CASE UNCHANGED runVars
  BY <1>1 DEF runVars, JobHasSocket
<1>2. ASSUME PanelGone PROVE JobHasSocket'
  <2>1. sockets' = {[s EXCEPT !.mine = FALSE] : s \in sockets} /\ job' = job
    BY <1>2 DEF PanelGone
  <2>2. ASSUME NEW s \in sockets, s.forJob, ~s.sawTerminal
        PROVE  [s EXCEPT !.mine = FALSE].forJob /\ ~[s EXCEPT !.mine = FALSE].sawTerminal
    BY <2>2
  <2> QED
    BY <2>1, <2>2 DEF JobHasSocket
<1>3. ASSUME NEW withJob \in BOOLEAN, OpenStream(withJob) PROVE JobHasSocket'
  <2>1. PICK r : sockets' = sockets \union {[run |-> r, sawTerminal |-> FALSE, mine |-> TRUE,
                                              forJob |-> withJob]}
    BY <1>3 DEF OpenStream
  <2>2. CASE withJob
    <3> DEFINE socket == [run |-> r, sawTerminal |-> FALSE, mine |-> TRUE, forJob |-> withJob]
    <3>1. socket \in sockets'
      BY <2>1
    <3>2. socket.forJob /\ ~socket.sawTerminal
      BY <2>2
    <3> QED
      BY <3>1, <3>2 DEF JobHasSocket
  <2>3. CASE ~withJob
    <3>1. job' = job
      BY <1>3, <2>3 DEF OpenStream
    <3> QED
      BY <2>1, <3>1 DEF JobHasSocket
  <2> QED
    BY <2>2, <2>3
<1>4. ASSUME NEW s \in sockets, NEW told \in {"complete", "error"}, StreamTells(s, told)
      PROVE  JobHasSocket'
  <2>1. CASE s.forJob /\ job # "none"
    BY <1>4, <2>1 DEF StreamTells, JobHasSocket
  <2>2. CASE job = "none"
    BY <1>4, <2>2 DEF StreamTells, JobHasSocket
  <2>3. CASE ~s.forJob
    BY <1>4, <2>3 DEF StreamTells, JobHasSocket
  <2> QED
    BY <2>1, <2>2, <2>3
<1>5. ASSUME NEW s \in sockets, StreamCloses(s) PROVE JobHasSocket'
  <2>1. CASE s.forJob /\ ~s.sawTerminal
    BY <1>5, <2>1 DEF StreamCloses, JobHasSocket
  <2>2. CASE ~(s.forJob /\ ~s.sawTerminal)
    BY <1>5, <2>2 DEF StreamCloses, JobHasSocket
  <2> QED
    BY <2>1, <2>2
<1>6. CASE JobExpires
  BY <1>6 DEF JobExpires, JobHasSocket
<1>7. ASSUME NEW p, NEW a, NEW ok,
             \/ ProbeAnswered(p, ok) \/ PageLoads(a, ok) \/ PageCheckAnswered(ok)
             \/ Enter \/ HandlePageCheck \/ NewCheck
      PROVE  JobHasSocket'
  BY <1>1, <1>7 DEF ProbeAnswered, PageLoads, PageCheckAnswered, Enter, HandlePageCheck, NewCheck
<1>8. ASSUME NEW who, NEW b,
             \/ ConfirmReboot \/ HandleReboot \/ RebootAnswered(who, b) \/ PollTimer(b)
             \/ TestAnswered(b) \/ FollowUp \/ DismissRebootTracking \/ StrayPoll(b)
      PROVE  JobHasSocket'
  BY <1>1, <1>8 DEF ConfirmReboot, HandleReboot, RebootAnswered, PollTimer, TestAnswered, FollowUp,
     DismissRebootTracking, StrayPoll, RebootOnly
<1>9. ASSUME NEW t, SetTab(t) \/ Leave PROVE JobHasSocket'
  BY <1>1, <1>2, <1>9 DEF SetTab, Leave
<1>10. CASE StartOneUpgrade \/ StartPveUpgrade \/ RunAptUpdate
  BY <1>3, <1>10 DEF StartOneUpgrade, StartPveUpgrade, RunAptUpdate
<1>11. CASE UNCHANGED serverPageVars
  BY <1>1, <1>11 DEF serverPageVars
<1> QED
  BY <1>3, <1>4, <1>5, <1>6, <1>7, <1>8, <1>9, <1>10, <1>11 DEF ServerPageNext

\* A run of the upgrade panel that the bell shows as running has a socket whose
\* end the bell will hear, through any number of runs, tabs and visits.
THEOREM JobsEnd == ServerPageSpec => []JobHasSocket
<1>1. ServerPageInit => JobHasSocket
  BY DEF ServerPageInit, JobHasSocket
<1> QED
  BY <1>1, JobHasSocketStep, PTL DEF ServerPageSpec

-----------------------------------------------------------------------------
(***************************************************************************)
(* The reboot that the page follows.                                       *)
(***************************************************************************)
LEMMA SameReboot == ASSUME RebootIsDriven, UNCHANGED rebootVars PROVE RebootIsDriven'
  BY DEF RebootIsDriven, rebootVars

LEMMA RebootIsDrivenStep ==
    RebootIsDriven /\ [ServerPageNext]_serverPageVars => RebootIsDriven'
<1> SUFFICES ASSUME RebootIsDriven, [ServerPageNext]_serverPageVars PROVE RebootIsDriven'
  OBVIOUS
<1>1. CASE ConfirmReboot \/ HandleReboot
  BY <1>1 DEF ConfirmReboot, HandleReboot, RebootControls, RebootIsDriven
<1>2. ASSUME NEW ok \in BOOLEAN, RebootAnswered("mine", ok) PROVE RebootIsDriven'
  BY <1>2 DEF RebootAnswered, RebootIsDriven
<1>3. ASSUME NEW ok \in BOOLEAN, RebootAnswered("gone", ok) PROVE RebootIsDriven'
  BY <1>3 DEF RebootAnswered, RebootIsDriven
<1>4. ASSUME NEW timedOut \in BOOLEAN, PollTimer(timedOut) PROVE RebootIsDriven'
  BY <1>4 DEF PollTimer, RebootIsDriven
<1>5. ASSUME NEW reachable \in BOOLEAN, TestAnswered(reachable) PROVE RebootIsDriven'
  BY <1>5 DEF TestAnswered, RebootIsDriven
<1>6. CASE FollowUp
  BY <1>6 DEF FollowUp, RebootIsDriven
<1>7. CASE DismissRebootTracking
  BY <1>7 DEF DismissRebootTracking, RebootControls, StopRebootTracking, RebootIsDriven
<1>8. ASSUME NEW ends, StrayPoll(ends) PROVE RebootIsDriven'
  BY <1>8 DEF StrayPoll, RebootIsDriven
<1>9. CASE Leave
  BY <1>9 DEF Leave, StopRebootTracking, RebootIsDriven
<1>10. ASSUME NEW p, NEW a, NEW ok, NEW t,
              \/ ProbeAnswered(p, ok) \/ PageLoads(a, ok) \/ PageCheckAnswered(ok)
              \/ Enter \/ HandlePageCheck \/ NewCheck \/ SetTab(t)
       PROVE  RebootIsDriven'
  BY <1>10, SameReboot DEF ProbeAnswered, PageLoads, PageCheckAnswered, Enter, HandlePageCheck,
     NewCheck, SetTab
<1>11. ASSUME NEW s, NEW told,
              \/ StartOneUpgrade \/ StartPveUpgrade \/ RunAptUpdate \/ StreamCloses(s)
              \/ StreamTells(s, told) \/ JobExpires
       PROVE  RebootIsDriven'
  BY <1>11, SameReboot DEF StartOneUpgrade, StartPveUpgrade, RunAptUpdate, OpenStream,
     StreamCloses, StreamTells, JobExpires, RunOnly
<1>12. CASE UNCHANGED serverPageVars
  BY <1>12, SameReboot DEF serverPageVars
<1> QED
  BY <1>1, <1>2, <1>3, <1>4, <1>5, <1>6, <1>7, <1>8, <1>9, <1>10, <1>11, <1>12 DEF ServerPageNext

\* While the page says that it waits for a server there is one poll that will end
\* that, and nothing of an earlier reboot is left to fire into it, for any number
\* of reboots, visits and late answers (startRebootTracking, stopRebootTracking).
THEOREM RebootAlwaysDriven == ServerPageSpec => []RebootIsDriven
<1>1. ServerPageInit => RebootIsDriven
  BY DEF ServerPageInit, RebootIsDriven
<1> QED
  BY <1>1, RebootIsDrivenStep, PTL DEF ServerPageSpec

-----------------------------------------------------------------------------
(***************************************************************************)
(* The dialogs of a fleet operation.  What has not settled on screen is    *)
(* what has not reported at the server, so a message that settles a server *)
(* is the first of its kind.                                               *)
(***************************************************************************)
Unsettled == {s \in targets : chip[s] \notin Terminal}

CountInv ==
    /\ chip \in [Servers -> Chip]
    /\ remote \in [Servers -> Remote]
    /\ targets \subseteq Servers
    /\ kind \in Kinds
    /\ view = "live" /\ kind # "reboot-all" =>
          /\ pending = Cardinality(Unsettled)
          /\ \A s \in targets : /\ remote[s] # "failing"
                                /\ remote[s] \in {"queued", "working"} => chip[s] \notin Terminal

\* The invariant is about these alone.
LEMMA SameCount ==
    ASSUME CountInv, UNCHANGED <<kind, targets, chip, remote>>,
           view' = "live" => view = "live" /\ pending' = pending
    PROVE  CountInv'
  BY DEF CountInv, Unsettled

\* Outside a run that is counted, the types are all there is.
LEMMA NotCounted ==
    ASSUME CountInv, kind' = kind, targets' \subseteq Servers,
           chip' \in [Servers -> Chip], remote' \in [Servers -> Remote],
           view' # "live" \/ kind = "reboot-all"
    PROVE  CountInv'
  BY DEF CountInv

LEMMA BeginCounts ==
    ASSUME CountInv, NEW T \in SUBSET Servers, Begin(T), pending' = Cardinality(T)
    PROVE  CountInv'
<1>1. /\ kind' = kind /\ targets' = T
      /\ chip' = [s \in Servers |-> "pending"]
      /\ remote' = [s \in Servers |-> IF s \in T THEN "queued" ELSE "out"]
  BY DEF Begin
<1>2. chip' \in [Servers -> Chip] /\ remote' \in [Servers -> Remote]
  BY <1>1 DEF Chip, Remote
<1>3. \A s \in T : chip'[s] \notin Terminal /\ remote'[s] = "queued"
  BY <1>1 DEF Terminal
<1>4. Unsettled' = T
  BY <1>1, <1>3 DEF Unsettled
<1> QED
  BY <1>1, <1>2, <1>3, <1>4 DEF CountInv

\* Output changes no chip that has settled, and settles none.
LEMMA OutputCounts ==
    ASSUME CountInv, view = "live", kind # "reboot-all",
           NEW s \in targets, MaySay(s, "output"),
           chip' = [chip EXCEPT ![s] = LiveStatus(@)],
           UNCHANGED <<kind, view, targets, pending>>
    PROVE  CountInv'
<1>1. s \in Servers
  BY DEF CountInv
<1>2. chip[s] \in Chip
  BY <1>1 DEF CountInv
<1>3. LiveStatus(chip[s]) \in Chip /\ (LiveStatus(chip[s]) \in Terminal <=> chip[s] \in Terminal)
  BY <1>2 DEF LiveStatus, Chip, Terminal
<1>4. /\ chip' \in [Servers -> Chip]
      /\ \A r \in targets : chip'[r] \in Terminal <=> chip[r] \in Terminal
  BY <1>1, <1>3 DEF CountInv
<1>5. /\ remote' \in [Servers -> Remote]
      /\ \A r \in targets : \/ remote'[r] = remote[r]
                            \/ remote'[r] = "working" /\ remote[r] = "queued"
  BY <1>1 DEF MaySay, Advance, CountInv, Remote
<1>6. Unsettled' = Unsettled
  BY <1>4 DEF Unsettled
<1> QED
  BY <1>4, <1>5, <1>6 DEF CountInv

\* A final message settles one chip more, and is counted once.
LEMMA FinalCounts ==
    ASSUME IsFiniteSet(Servers), CountInv, view = "live", kind # "reboot-all",
           NEW s \in targets,
           NEW to \in Reported, Advance(s, {"queued", "working"}, to),
           NEW told \in Terminal, NEW jobStatus, FinalMessage(s, told, jobStatus),
           UNCHANGED <<kind, view>>
    PROVE  CountInv'
<1>1. s \in Servers /\ targets' = targets
  BY DEF CountInv, FinalMessage
<1>2. /\ chip' = [chip EXCEPT ![s] = told]
      /\ pending' = pending - 1
      /\ remote' = [remote EXCEPT ![s] = to]
      /\ remote[s] \in {"queued", "working"}
  BY DEF FinalMessage, Advance
<1>3. chip' \in [Servers -> Chip] /\ remote' \in [Servers -> Remote]
  BY <1>1, <1>2 DEF CountInv, Chip, Remote
<1>4. s \in Unsettled
  BY <1>2 DEF CountInv, Unsettled
<1>5. Unsettled' = Unsettled \ {s}
  BY <1>1, <1>2 DEF CountInv, Unsettled
<1>6. IsFiniteSet(Unsettled)
  BY FS_Subset DEF CountInv, Unsettled
<1>7. Cardinality(Unsettled') = Cardinality(Unsettled) - 1
  BY <1>4, <1>5, <1>6, FS_RemoveElement
<1>8. \A r \in targets : /\ remote'[r] # "failing"
                         /\ remote'[r] \in {"queued", "working"} => chip'[r] \notin Terminal
  <2>1. ASSUME NEW r \in targets PROVE r \in Servers
    BY DEF CountInv
  <2>2. remote'[s] = to
    BY <1>1, <1>2 DEF CountInv
  <2>3. to \notin {"failing", "queued", "working"}
    BY DEF Reported
  <2>4. ASSUME NEW r \in targets, r # s
        PROVE  /\ remote'[r] = remote[r] /\ chip'[r] = chip[r]
               /\ remote[r] # "failing"
               /\ remote[r] \in {"queued", "working"} => chip[r] \notin Terminal
    BY <1>2, <2>1, <2>4 DEF CountInv
  <2> QED
    BY <1>1, <2>2, <2>3, <2>4
<1> QED
  BY <1>1, <1>2, <1>3, <1>7, <1>8 DEF CountInv

\* One message of one server.
LEMMA MessageCounts ==
    ASSUME IsFiniteSet(Servers), CountInv, NEW s \in Servers, Message(s)
    PROVE  CountInv'
<1>1. /\ view = "live" /\ s \in targets
      /\ UNCHANGED <<kind, view>>
  BY DEF Message
<1>2. PICK m \in {"output", "ok", "failed", "skipped", "cancelled", "error"} :
          /\ MaySay(s, m)
          /\ UpgradeMessage(s, m) \/ AutoremoveMessage(s, m) \/ RebootMessage(s, m)
  BY DEF Message
<1>3. CASE kind = "reboot-all"
  <2>1. RebootMessage(s, m)
    BY <1>2, <1>3 DEF UpgradeMessage, AutoremoveMessage
  <2>2. chip' \in [Servers -> Chip]
    <3>1. chip \in [Servers -> Chip] /\ chip[s] \in Chip
      BY DEF CountInv
    <3> DEFINE shown == CASE m = "output"    -> LiveStatus(chip[s])
            [] m = "error"     -> "error"
            [] m = "ok"        -> IF chip[s] = "error" THEN chip[s] ELSE "done"
            [] m = "failed"    -> "error"
            [] m = "skipped"   -> "skipped"
            [] m = "cancelled" -> "cancelled"
    <3>2. shown \in Chip
      BY <1>2, <3>1 DEF LiveStatus, Chip, Terminal
    <3>3. chip' = [chip EXCEPT ![s] = shown]
      BY <2>1 DEF RebootMessage
    <3> HIDE DEF shown
    <3> QED
      BY <3>1, <3>2, <3>3
  <2>3. remote' \in [Servers -> Remote]
    BY <1>2 DEF MaySay, Advance, CountInv, Remote, Reported
  <2>4. targets' = targets
    BY <2>1 DEF RebootMessage
  <2> QED
    BY <1>1, <1>3, <2>2, <2>3, <2>4, NotCounted DEF CountInv
<1>4. CASE kind # "reboot-all"
  <2>1. StreamMessage(s, m)
    BY <1>2, <1>4 DEF UpgradeMessage, AutoremoveMessage, RebootMessage
  <2>2. remote[s] # "failing"
    BY <1>1, <1>4 DEF CountInv
  <2>3. CASE m = "output"
    <3>1. MaySay(s, "output")
      BY <1>2, <2>3
    <3>2. chip' = [chip EXCEPT ![s] = LiveStatus(@)] /\ UNCHANGED <<targets, pending>>
      BY <2>1, <2>3 DEF StreamMessage
    <3> QED
      BY <1>1, <1>4, <3>1, <3>2, OutputCounts
  <2>4. CASE m # "output"
    <3>1. PICK to \in Reported : Advance(s, {"queued", "working"}, to)
      BY <1>2, <1>4, <2>2, <2>4 DEF MaySay, Advance, Reported
    <3>2. PICK told \in Terminal, jobStatus \in Finished : FinalMessage(s, told, jobStatus)
      BY <1>2, <2>1, <2>4 DEF StreamMessage, Terminal, Finished
    <3> QED
      BY <1>1, <1>4, <3>1, <3>2, FinalCounts
  <2> QED
    BY <2>3, <2>4
<1> QED
  BY <1>3, <1>4

LEMMA CountInvStep == IsFiniteSet(Servers) /\ CountInv /\ [Next]_vars => CountInv'
<1> SUFFICES ASSUME IsFiniteSet(Servers), CountInv, [Next]_vars PROVE CountInv'
  OBVIOUS
<1>1. CASE \/ OpenDialog \/ RestoreFromBell \/ BellTimer \/ Navigate \/ ComeBack
           \/ LeftSocketCloses \/ LeftRunEnds \/ Hydrate \/ Reload
  BY <1>1, SameCount DEF OpenDialog, RestoreFromBell, BellTimer, Navigate, ComeBack,
     LeftSocketCloses, LeftRunEnds, Hydrate, Reload, dialogVars, remoteVars
<1>2. ASSUME NEW ok, CloseDialog \/ Minimize \/ AskStop \/ AnswerStop(ok) \/ CancelArrives
      PROVE  CountInv'
  BY <1>2, SameCount DEF CloseDialog, Minimize, AskStop, AnswerStop, CancelArrives,
     dialogVars, remoteVars
<1>3. ASSUME NEW reason, RebootAbort(reason) \/ BatchWait \/ CountdownEnds \/ RebootComplete
             \/ FleetCancelled
      PROVE  CountInv'
  BY <1>3, SameCount DEF RebootAbort, BatchWait, CountdownEnds, RebootComplete, FleetCancelled,
     dialogVars, remoteVars
<1>4. ASSUME NEW T \in SUBSET Servers, StartUpgrade(T) \/ StartAutoremove(T) PROVE CountInv'
  BY <1>4, BeginCounts DEF StartUpgrade, StartAutoremove
<1>5. ASSUME NEW T \in SUBSET Servers, StartReboot(T) PROVE CountInv'
  <2>1. chip' \in [Servers -> Chip] /\ remote' \in [Servers -> Remote]
    BY <1>5 DEF StartReboot, Begin, Chip, Remote
  <2> QED
    BY <1>5, <2>1, NotCounted DEF StartReboot, RebootForm, Begin
<1>6. ASSUME NEW s \in Servers, Message(s) PROVE CountInv'
  BY <1>6, MessageCounts
<1>7. CASE Closed
  <2>1. view' = "done" /\ UNCHANGED <<kind, targets, remote>>
    BY <1>7 DEF Closed, UpgradeClosed, AutoremoveClosed, RebootClosed, StreamClosed, remoteVars
  <2>2. chip' = chip \/ chip' = Stragglers(targets)
    BY <1>7 DEF Closed, UpgradeClosed, AutoremoveClosed, RebootClosed, StreamClosed
  <2>3. chip' \in [Servers -> Chip]
    BY <2>2 DEF CountInv, Stragglers, Chip, Terminal
  <2> QED
    BY <2>1, <2>3, NotCounted DEF CountInv
<1>8. CASE UNCHANGED vars
  BY <1>8, SameCount DEF vars, dialogVars, remoteVars
<1> QED
  BY <1>1, <1>2, <1>3, <1>4, <1>5, <1>6, <1>7, <1>8 DEF Next

\* The count behind the straggler repair of the upgrade and autoremove dialogs
\* is exact, for any set of servers and in whatever order their output and
\* their final messages arrive.
THEOREM CountIsExact == Spec => []PendingCounts
<1>1. Init => CountInv
  BY DEF Init, CountInv, Chip, Remote
<1>2. CountInv => PendingCounts
  BY DEF CountInv, Unsettled, PendingCounts
<1>3. IsFiniteSet(Servers)
  BY FleetModalAssumption
<1> QED
  BY <1>1, <1>2, <1>3, CountInvStep, PTL DEF Spec

-----------------------------------------------------------------------------
(***************************************************************************)
(* The chips of a dialog.  Each state at the server has its chip; only the *)
(* stragglers of a run that is over are shown as failed without being so.  *)
(***************************************************************************)
Tells(c, r, v) ==
    /\ r = "queued"              => c = "pending" \/ (v = "done" /\ c = "error")
    /\ r = "working"             => c = "running" \/ (v = "done" /\ c = "error")
    /\ r = "ok"                  => c = "done"
    /\ r \in {"failing", "failed"} => c = "error"
    /\ r = "skipped"             => c = "skipped"
    /\ r = "cancelled"           => c = "cancelled"
    /\ r # "out"

TellInv == view \in {"live", "done"} => \A s \in targets : Tells(chip[s], remote[s], view)

LEMMA SameChips ==
    ASSUME TellInv, UNCHANGED <<targets, chip, remote>>,
           view' \in {"live", "done"} => view' = view
    PROVE  TellInv'
  BY DEF TellInv

\* A message is shown as what it says.
LEMMA MessageTells ==
    ASSUME CountInv, TellInv, NEW s \in Servers, Message(s)
    PROVE  TellInv'
<1>1. /\ view = "live" /\ s \in targets /\ view' = view
      /\ Tells(chip[s], remote[s], "live")
  BY DEF Message, TellInv
<1>2. PICK m \in {"output", "ok", "failed", "skipped", "cancelled", "error"} :
          /\ MaySay(s, m)
          /\ UpgradeMessage(s, m) \/ AutoremoveMessage(s, m) \/ RebootMessage(s, m)
  BY DEF Message
<1>3. PICK to \in Remote : remote' = [remote EXCEPT ![s] = to]
  <2>1. CASE UNCHANGED remote
    BY <2>1 DEF CountInv
  <2>2. CASE ~UNCHANGED remote
    BY <1>2, <2>2 DEF MaySay, Advance, Remote, Reported
  <2> QED
    BY <2>1, <2>2
<1>4. PICK c \in Chip : chip' = [chip EXCEPT ![s] = c] /\ Tells(c, to, "live")
  <2>0. chip[s] \in Chip /\ remote'[s] = to
    BY <1>3 DEF CountInv
  <2>1. CASE kind # "reboot-all"
    <3>1. StreamMessage(s, m)
      BY <1>2, <2>1 DEF UpgradeMessage, AutoremoveMessage, RebootMessage
    <3>2. CASE m = "output"
      <4>1. chip' = [chip EXCEPT ![s] = LiveStatus(chip[s])]
        BY <3>1, <3>2 DEF StreamMessage
      <4>2. \/ remote[s] = "queued" /\ to = "working"
            \/ remote[s] \in {"working", "ok", "failed"} /\ to = remote[s]
        BY <1>2, <2>0, <3>2 DEF MaySay, Advance, CountInv
      <4> QED
        BY <1>1, <2>0, <4>1, <4>2 DEF LiveStatus, Terminal, Chip, Tells
    <3>3. CASE m # "output"
      <4>1. /\ m \in {"ok"} => chip' = [chip EXCEPT ![s] = "done"]
            /\ m \in {"failed", "error"} => chip' = [chip EXCEPT ![s] = "error"]
            /\ m \in {"skipped", "cancelled"} => chip' = [chip EXCEPT ![s] = m]
        BY <3>1, <3>3 DEF StreamMessage, FinalMessage
      <4>2. to = IF m = "error" THEN "failed" ELSE m
        BY <1>2, <2>0, <2>1, <3>3 DEF MaySay, Advance, CountInv
      <4> QED
        BY <1>2, <3>3, <4>1, <4>2 DEF Chip, Terminal, Tells
    <3> QED
      BY <3>2, <3>3
  <2>2. CASE kind = "reboot-all"
    <3>1. RebootMessage(s, m)
      BY <1>2, <2>2 DEF UpgradeMessage, AutoremoveMessage
    <3>2. CASE m = "output"
      <4>1. chip' = [chip EXCEPT ![s] = LiveStatus(chip[s])]
        BY <3>1, <3>2 DEF RebootMessage
      <4>2. \/ remote[s] = "queued" /\ to = "working"
            \/ remote[s] \in {"working", "ok", "failed"} /\ to = remote[s]
        BY <1>2, <2>0, <3>2 DEF MaySay, Advance, CountInv
      <4> QED
        BY <1>1, <2>0, <4>1, <4>2 DEF LiveStatus, Terminal, Chip, Tells
    <3>3. CASE m = "ok"
      <4>1. remote[s] = "working" /\ to = "ok"
        BY <1>2, <2>0, <3>3 DEF MaySay, Advance, CountInv
      <4>2. chip[s] = "running"
        BY <1>1, <4>1 DEF Tells
      <4>3. chip' = [chip EXCEPT ![s] = "done"]
        BY <3>1, <3>3, <4>2 DEF RebootMessage
      <4> QED
        BY <4>1, <4>3 DEF Chip, Terminal, Tells
    <3>4. CASE m \in {"failed", "error"}
      <4>1. chip' = [chip EXCEPT ![s] = "error"]
        BY <3>1, <3>4 DEF RebootMessage
      <4>2. to \in {"failing", "failed"}
        BY <1>2, <2>0, <2>2, <3>4 DEF MaySay, Advance, CountInv
      <4> QED
        BY <4>1, <4>2 DEF Chip, Terminal, Tells
    <3>5. CASE m \in {"skipped", "cancelled"}
      <4>1. chip' = [chip EXCEPT ![s] = m]
        BY <3>1, <3>5 DEF RebootMessage
      <4>2. to = m
        BY <1>2, <2>0, <3>5 DEF MaySay, Advance, CountInv
      <4> QED
        BY <3>5, <4>1, <4>2 DEF Chip, Terminal, Tells
    <3> QED
      BY <1>2, <3>2, <3>3, <3>4, <3>5
  <2> QED
    BY <2>1, <2>2
<1>5. targets' = targets
  BY <1>2 DEF UpgradeMessage, AutoremoveMessage, RebootMessage, StreamMessage, FinalMessage
<1>6. ASSUME NEW r \in targets PROVE Tells(chip'[r], remote'[r], "live")
  <2>1. r \in Servers
    BY DEF CountInv
  <2>2. CASE r = s
    BY <1>3, <1>4, <2>1, <2>2 DEF CountInv
  <2>3. CASE r # s
    BY <1>1, <1>3, <1>4, <2>1, <2>3 DEF CountInv, TellInv
  <2> QED
    BY <2>2, <2>3
<1> QED
  BY <1>1, <1>5, <1>6 DEF TellInv

LEMMA TellInvStep == CountInv /\ TellInv /\ [Next]_vars => TellInv'
<1> SUFFICES ASSUME CountInv, TellInv, [Next]_vars PROVE TellInv'
  OBVIOUS
<1>1. CASE \/ OpenDialog \/ RestoreFromBell \/ BellTimer \/ Navigate \/ ComeBack
           \/ LeftSocketCloses \/ LeftRunEnds \/ Hydrate \/ Reload
  BY <1>1, SameChips DEF OpenDialog, RestoreFromBell, BellTimer, Navigate, ComeBack,
     LeftSocketCloses, LeftRunEnds, Hydrate, Reload, dialogVars, remoteVars
<1>2. ASSUME NEW ok, CloseDialog \/ Minimize \/ AskStop \/ AnswerStop(ok) \/ CancelArrives
      PROVE  TellInv'
  BY <1>2, SameChips DEF CloseDialog, Minimize, AskStop, AnswerStop, CancelArrives,
     dialogVars, remoteVars
<1>3. ASSUME NEW reason, RebootAbort(reason) \/ BatchWait \/ CountdownEnds \/ RebootComplete
             \/ FleetCancelled
      PROVE  TellInv'
  BY <1>3, SameChips DEF RebootAbort, BatchWait, CountdownEnds, RebootComplete, FleetCancelled,
     dialogVars, remoteVars
<1>4. ASSUME NEW T \in SUBSET Servers, StartUpgrade(T) \/ StartAutoremove(T) \/ StartReboot(T)
      PROVE  TellInv'
  <2>1. \A s \in T : chip'[s] = "pending" /\ remote'[s] = "queued"
    BY <1>4 DEF StartUpgrade, StartAutoremove, StartReboot, Begin
  <2>2. targets' = T
    BY <1>4 DEF StartUpgrade, StartAutoremove, StartReboot, Begin
  <2> QED
    BY <2>1, <2>2 DEF TellInv, Tells
<1>5. ASSUME NEW s \in Servers, Message(s) PROVE TellInv'
  BY <1>5, MessageTells
<1>6. CASE Closed
  <2>1. view = "live" /\ view' = "done" /\ UNCHANGED <<targets, remote>>
    BY <1>6 DEF Closed, UpgradeClosed, AutoremoveClosed, RebootClosed, StreamClosed, remoteVars
  <2>2. chip' = chip \/ chip' = Stragglers(targets)
    BY <1>6 DEF Closed, UpgradeClosed, AutoremoveClosed, RebootClosed, StreamClosed
  <2>3. \A s \in targets : chip'[s] = chip[s] \/ (chip[s] \notin Terminal /\ chip'[s] = "error")
    BY <2>2 DEF Stragglers, CountInv
  <2> QED
    BY <2>1, <2>3 DEF TellInv, Tells, Terminal
<1>7. CASE UNCHANGED vars
  BY <1>7, SameChips DEF vars, dialogVars, remoteVars
<1> QED
  BY <1>1, <1>2, <1>3, <1>4, <1>5, <1>6, <1>7 DEF Next

\* The chips of any run say what became of its servers, through output that follows
\* a final message, double reports, stops and broken sockets.
THEOREM ChipsTell == Spec => []ChipTells
<1>1. Init => CountInv /\ TellInv
  BY DEF Init, CountInv, TellInv, Chip, Remote
<1>2. CountInv /\ TellInv => ChipTells
  <2> SUFFICES ASSUME CountInv, TellInv, view \in {"live", "done"}, NEW s \in targets
               PROVE  /\ chip[s] = "done" <=> remote[s] = "ok"
                      /\ remote[s] \in {"failed", "failing"} => chip[s] = "error"
                      /\ remote[s] = "skipped" <=> chip[s] = "skipped"
                      /\ remote[s] = "cancelled" <=> chip[s] = "cancelled"
    BY DEF ChipTells
  <2>1. remote[s] \in Remote /\ Tells(chip[s], remote[s], view)
    BY DEF CountInv, TellInv
  <2> QED
    BY <2>1 DEF Tells, Remote, Reported
<1>3. IsFiniteSet(Servers)
  BY FleetModalAssumption
<1> QED
  BY <1>1, <1>2, <1>3, CountInvStep, TellInvStep, PTL DEF Spec

-----------------------------------------------------------------------------
(***************************************************************************)
(* The bell's list.  What each operation of the store does to the entries  *)
(* under one id, whatever else is in the list and however many there are.  *)
(***************************************************************************)
Entry(i, told) == [id |-> i, status |-> told]

\* Every entry under the id i has a status of S.
Only(b, i, S) == \A n \in 1..Len(b.jobs) : b.jobs[n].id = i => b.jobs[n].status \in S

LEMMA OnlyIsStatus ==
    ASSUME NEW b, BellType(b), NEW i, NEW S, Only(b, i, S)
    PROVE  StatusIn(b, i) \in S \union {"none"}
<1>1. DOMAIN b.jobs = 1..Len(b.jobs)
  BY DEF BellType
<1> QED
  BY <1>1 DEF StatusIn, Only

LEMMA EmptyBellIs ==
    ASSUME ListCap \in Nat \ {0}, NEW i, NEW S
    PROVE  BellType(EmptyBell) /\ Only(EmptyBell, i, S)
  BY DEF BellType, EmptyBell, Only

LEMMA WithoutIs ==
    ASSUME NEW jobs \in Seq(Job), NEW i
    PROVE  /\ Without(jobs, i) \in Seq(Job)
           /\ Len(Without(jobs, i)) <= Len(jobs)
           /\ \A n \in 1..Len(Without(jobs, i)) :
                 /\ Without(jobs, i)[n].id # i
                 /\ \E k \in 1..Len(jobs) : Without(jobs, i)[n] = jobs[k]
<1> DEFINE keep == {n \in DOMAIN jobs : jobs[n].id # i}
<1>1. /\ Keep(jobs, keep) \in Seq(Job)
      /\ Len(Keep(jobs, keep)) <= Len(jobs)
      /\ \A n \in 1..Len(Keep(jobs, keep)) :
            \E k \in 1..Len(jobs) : k \in keep /\ Keep(jobs, keep)[n] = jobs[k]
  <2>1. jobs \in Seq(Job)
    OBVIOUS
  <2> HIDE DEF keep
  <2> QED
    BY <2>1, KeepIs
<1>2. Without(jobs, i) = Keep(jobs, keep)
  BY DEF Without
<1> QED
  BY <1>1, <1>2

\* What is left of the jobs of a bell.
LEMMA WithoutBell ==
    ASSUME NEW b, BellType(b), NEW i
    PROVE  /\ Without(b.jobs, i) \in Seq(Job)
           /\ Len(Without(b.jobs, i)) <= Len(b.jobs) /\ Len(Without(b.jobs, i)) \in Nat
           /\ \A n \in 1..Len(Without(b.jobs, i)) :
                 /\ Without(b.jobs, i)[n].id # i
                 /\ \E k \in 1..Len(b.jobs) : Without(b.jobs, i)[n] = b.jobs[k]
<1>1. PICK jobs : jobs = b.jobs
  OBVIOUS
<1>2. jobs \in Seq(Job)
  BY <1>1 DEF BellType
<1> DEFINE rest == Without(jobs, i)
<1>3. /\ rest \in Seq(Job) /\ Len(rest) <= Len(jobs)
      /\ \A n \in 1..Len(rest) : /\ rest[n].id # i
                                 /\ \E k \in 1..Len(jobs) : rest[n] = jobs[k]
  BY <1>2, WithoutIs
<1> HIDE DEF rest
<1>4. Len(rest) \in Nat
  BY <1>3
<1> QED
  BY <1>1, <1>3, <1>4 DEF rest

LEMMA AddJobIs ==
    ASSUME NEW b, BellType(b), ListCap \in Nat \ {0}, NEW i \in JobIds
    PROVE  /\ BellType(AddJob(b, i))
           /\ Only(AddJob(b, i), i, {"running"})
           /\ \A j, S : j # i /\ Only(b, j, S) => Only(AddJob(b, i), j, S)
<1> DEFINE rest == Without(b.jobs, i)
           listed == <<Entry(i, "running")>> \o rest
           cut == IF Len(listed) < ListCap THEN Len(listed) ELSE ListCap
           jobs == SubSeq(listed, 1, cut)
<1>0. /\ rest \in Seq(Job) /\ Len(rest) \in Nat
      /\ \A n \in 1..Len(rest) : /\ rest[n].id # i
                                 /\ \E k \in 1..Len(b.jobs) : rest[n] = b.jobs[k]
  BY WithoutBell
<1>1. Entry(i, "running") \in Job
  BY DEF Entry, Job
<1>2. AddJob(b, i) = [b EXCEPT !.jobs = jobs]
  BY DEF AddJob, Entry
<1> HIDE DEF rest
<1>3. /\ listed \in Seq(Job) /\ Len(listed) = Len(rest) + 1
      /\ listed[1] = Entry(i, "running")
      /\ \A n \in 1..Len(rest) : listed[n + 1] = rest[n]
  BY <1>0, <1>1
<1> HIDE DEF listed
<1>4. /\ cut \in Nat /\ cut <= Len(listed) /\ cut <= ListCap
      /\ jobs \in Seq(Job) /\ Len(jobs) = cut
      /\ \A n \in 1..cut : jobs[n] = listed[n]
  BY <1>0, <1>3
<1>5. ASSUME NEW n \in 1..Len(jobs)
      PROVE  \/ jobs[n] = Entry(i, "running")
             \/ /\ jobs[n].id # i
                /\ \E k \in 1..Len(b.jobs) : jobs[n] = b.jobs[k]
  <2>1. jobs[n] = listed[n] /\ n \in 1..(Len(rest) + 1)
    BY <1>0, <1>3, <1>4
  <2>2. CASE n = 1
    BY <1>3, <2>1, <2>2
  <2>3. CASE n # 1
    <3>1. n - 1 \in 1..Len(rest) /\ (n - 1) + 1 = n
      BY <1>0, <2>1, <2>3
    <3>2. jobs[n] = rest[n - 1]
      BY <1>3, <2>1, <3>1
    <3> HIDE DEF jobs, cut
    <3> QED
      BY <1>0, <3>1, <3>2
  <2> QED
    BY <2>2, <2>3
<1> HIDE DEF jobs, cut
<1>6. /\ AddJob(b, i).jobs = jobs
      /\ AddJob(b, i) \in [jobs : Seq(Job), timers : [JobIds -> Nat]]
  BY <1>2, <1>4 DEF BellType
<1>7. BellType(AddJob(b, i))
  BY <1>4, <1>6 DEF BellType
<1>8. Only(AddJob(b, i), i, {"running"})
  BY <1>5, <1>6 DEF Only, Entry
<1>9. ASSUME NEW j, NEW S, j # i, Only(b, j, S) PROVE Only(AddJob(b, i), j, S)
  BY <1>5, <1>6, <1>9 DEF Only, Entry
<1> QED
  BY <1>7, <1>8, <1>9

LEMMA UpdateJobIs ==
    ASSUME NEW b, BellType(b), NEW i \in JobIds, NEW told \in Finished
    PROVE  /\ BellType(UpdateJob(b, i, told))
           /\ Only(UpdateJob(b, i, told), i, {told})
           /\ \A j, S : j # i /\ Only(b, j, S) => Only(UpdateJob(b, i, told), j, S)
<1> DEFINE jobs == [n \in DOMAIN b.jobs |->
                      IF b.jobs[n].id = i THEN [b.jobs[n] EXCEPT !.status = told]
                                          ELSE b.jobs[n]]
           finishing == StatusIn(b, i) = "running" /\ told \in Finished
           timers == [b.timers EXCEPT ![i] = IF finishing THEN @ + 1 ELSE @]
<1>1. UpdateJob(b, i, told) = [b EXCEPT !.jobs = jobs, !.timers = timers]
  BY DEF UpdateJob, BellType
<1>2. DOMAIN b.jobs = 1..Len(b.jobs) /\ Len(b.jobs) \in Nat
  BY DEF BellType
<1>3. ASSUME NEW n \in 1..Len(b.jobs)
      PROVE  /\ jobs[n] \in Job /\ jobs[n].id = b.jobs[n].id
             /\ jobs[n].status = IF jobs[n].id = i THEN told ELSE b.jobs[n].status
  <2>1. b.jobs[n] \in Job
    BY DEF BellType
  <2> QED
    BY <1>2, <2>1 DEF Job
<1>4. jobs \in Seq(Job) /\ Len(jobs) = Len(b.jobs)
  <2>1. jobs \in [1..Len(b.jobs) -> Job]
    BY <1>2, <1>3
  <2> HIDE DEF jobs
  <2> QED
    BY <1>2, <2>1
<1>5. timers \in [JobIds -> Nat]
  BY DEF BellType
<1> HIDE DEF jobs, timers
<1>6. /\ UpdateJob(b, i, told).jobs = jobs /\ UpdateJob(b, i, told).timers = timers
      /\ UpdateJob(b, i, told) \in [jobs : Seq(Job), timers : [JobIds -> Nat]]
  BY <1>1, <1>4, <1>5 DEF BellType
<1> QED
  BY <1>3, <1>4, <1>6 DEF BellType, Only

LEMMA RemoveJobIs ==
    ASSUME NEW b, BellType(b), ListCap \in Nat \ {0}, NEW i
    PROVE  /\ BellType(RemoveJob(b, i))
           /\ RemoveJob(b, i).timers = b.timers
           /\ Only(RemoveJob(b, i), i, {})
           /\ \A j, S : Only(b, j, S) => Only(RemoveJob(b, i), j, S)
<1>1. b.jobs \in Seq(Job) /\ Len(b.jobs) \in Nat
  BY DEF BellType
<1> DEFINE rest == Without(b.jobs, i)
<1>2. /\ rest \in Seq(Job) /\ Len(rest) \in Nat
      /\ \A n \in 1..Len(rest) : /\ rest[n].id # i
                                 /\ \E k \in 1..Len(b.jobs) : rest[n] = b.jobs[k]
  BY WithoutBell
<1>3. Len(rest) <= Len(b.jobs)
  BY WithoutBell
<1>4. RemoveJob(b, i) = [b EXCEPT !.jobs = rest]
  BY DEF RemoveJob
<1> HIDE DEF rest
<1>5. /\ RemoveJob(b, i).jobs = rest /\ RemoveJob(b, i).timers = b.timers
      /\ RemoveJob(b, i) \in [jobs : Seq(Job), timers : [JobIds -> Nat]]
  BY <1>2, <1>4 DEF BellType
<1>6. BellType(RemoveJob(b, i))
  BY <1>1, <1>2, <1>3, <1>5 DEF BellType
<1>7. Only(RemoveJob(b, i), i, {})
  BY <1>2, <1>5 DEF Only
<1>8. ASSUME NEW j, NEW S, Only(b, j, S) PROVE Only(RemoveJob(b, i), j, S)
  BY <1>2, <1>5, <1>8 DEF Only
<1> QED
  BY <1>5, <1>6, <1>7, <1>8

LEMMA TimerFiresIs ==
    ASSUME NEW b, BellType(b), ListCap \in Nat \ {0}, NEW i \in JobIds, b.timers[i] > 0
    PROVE  /\ BellType(TimerFires(b, i))
           /\ Only(TimerFires(b, i), i, {})
           /\ \A j, S : Only(b, j, S) => Only(TimerFires(b, i), j, S)
<1> PICK r : r = RemoveJob(b, i)
  OBVIOUS
<1>1. /\ BellType(r) /\ r.timers = b.timers /\ Only(r, i, {})
      /\ \A j, S : Only(b, j, S) => Only(r, j, S)
  BY RemoveJobIs
<1>2. TimerFires(b, i) = [r EXCEPT !.timers = [b.timers EXCEPT ![i] = b.timers[i] - 1]]
  BY <1>1 DEF TimerFires, BellType
<1>3. [b.timers EXCEPT ![i] = b.timers[i] - 1] \in [JobIds -> Nat]
  BY DEF BellType
<1>4. /\ TimerFires(b, i).jobs = r.jobs
      /\ TimerFires(b, i) \in [jobs : Seq(Job), timers : [JobIds -> Nat]]
  BY <1>1, <1>2, <1>3 DEF BellType
<1> QED
  BY <1>1, <1>4 DEF BellType, Only

-----------------------------------------------------------------------------
(***************************************************************************)
(* The bell and the dialog.  The job leaves "running" with the last report *)
(* at the latest, and nothing after the start puts it back; it is complete *)
(* only by what makes the run complete.                                    *)
(***************************************************************************)
LEMMA OnlyWeaker ==
    ASSUME NEW b, NEW i, NEW S, NEW T, Only(b, i, S), S \subseteq T
    PROVE  Only(b, i, T)
  BY DEF Only

AllReported == \A s \in targets : remote[s] \in Reported

BellInv ==
    /\ BellType(bell)
    /\ kind # "reboot-all" /\ (view = "done" \/ (view = "live" /\ pending <= 0))
          => Only(bell, kind, Finished)
    /\ view \in {"live", "done"}
          => Only(bell, kind, {"running", "error"}) \/ aborted = "cancelled" \/ AllReported

\* A step that leaves the run alone, and the bell, or takes from it.
LEMMA SameBell ==
    ASSUME BellInv, UNCHANGED <<kind, targets, remote, aborted>>,
           BellType(bell'), \A S : Only(bell, kind, S) => Only(bell', kind, S),
           view' = "live" => view = "live" /\ pending' = pending,
           view' = "done" => view = "done"
    PROVE  BellInv'
  BY DEF BellInv, AllReported

\* A step that tells the bell that the job has failed.
LEMMA BellHearsError ==
    ASSUME FleetModalAssumption, BellInv, kind \in Kinds, kind' = kind,
           bell' = UpdateJob(bell, kind, "error")
    PROVE  BellInv'
<1>1. BellType(bell') /\ Only(bell', kind, {"error"})
  BY UpdateJobIs DEF BellInv, Finished, FleetModalAssumption
<1>2. Only(bell', kind, Finished) /\ Only(bell', kind, {"running", "error"})
  BY <1>1, OnlyWeaker DEF Finished
<1> QED
  BY <1>1, <1>2 DEF BellInv

\* A step that tells it that the job is complete: the run is, or it was stopped.
LEMMA BellHearsComplete ==
    ASSUME FleetModalAssumption, BellInv, kind \in Kinds, kind' = kind,
           bell' = UpdateJob(bell, kind, "complete"),
           aborted' = "cancelled" \/ AllReported'
    PROVE  BellInv'
<1>1. BellType(bell') /\ Only(bell', kind, {"complete"})
  BY UpdateJobIs DEF BellInv, Finished, FleetModalAssumption
<1>2. Only(bell', kind, Finished)
  BY <1>1, OnlyWeaker DEF Finished
<1> QED
  BY <1>1, <1>2 DEF BellInv

\* The start.
LEMMA BeginBell ==
    ASSUME FleetModalAssumption, BellInv, kind \in Kinds,
           NEW T \in (SUBSET Servers) \ {{}}, Begin(T),
           kind # "reboot-all" => pending' = Cardinality(T)
    PROVE  BellInv'
<1>1. BellType(bell') /\ Only(bell', kind, {"running"})
  BY AddJobIs DEF BellInv, Begin, FleetModalAssumption
<1>2. Only(bell', kind, {"running", "error"})
  BY <1>1, OnlyWeaker
<1>3. Cardinality(T) \in Nat /\ Cardinality(T) # 0
  <2>1. IsFiniteSet(Servers) /\ T \in SUBSET Servers /\ T # {}
    BY DEF FleetModalAssumption
  <2>2. IsFiniteSet(T)
    BY <2>1, FS_Subset
  <2> QED
    BY <2>1, <2>2, FS_CardinalityType, FS_EmptySet
<1>4. view' = "live" /\ kind' = kind
  BY DEF Begin
<1> QED
  BY <1>1, <1>2, <1>3, <1>4 DEF BellInv

\* A message takes no report back.
LEMMA ReportsStay ==
    ASSUME CountInv, NEW s \in Servers, Message(s), NEW r \in targets, remote[r] \in Reported
    PROVE  remote'[r] = remote[r]
<1>1. PICK m \in {"output", "ok", "failed", "skipped", "cancelled", "error"} : MaySay(s, m)
  BY DEF Message
<1>2. r \in Servers
  BY DEF CountInv
<1>3. remote' = remote \/ (remote[s] \in {"queued", "working", "failing"}
                              /\ \E to \in Remote : remote' = [remote EXCEPT ![s] = to])
  BY <1>1 DEF MaySay, Advance, Remote, Reported
<1> QED
  BY <1>2, <1>3 DEF CountInv, Reported

\* When none of a counted run is left to settle, all have reported: T are its
\* servers, c its chips and r what the server's side has done.
LEMMA NoneUnsettled ==
    ASSUME IsFiniteSet(Servers), NEW T \in SUBSET Servers, NEW c, NEW r \in [Servers -> Remote],
           Cardinality({s \in T : c[s] \notin Terminal}) <= 0,
           \A s \in T :
              /\ r[s] # "failing"
              /\ r[s] \in {"queued", "working"} => c[s] \notin Terminal
              /\ Tells(c[s], r[s], "live")
    PROVE  \A s \in T : r[s] \in Reported
<1> DEFINE U == {s \in T : c[s] \notin Terminal}
<1>1. U = {}
  <2>1. IsFiniteSet(U)
    BY FS_Subset
  <2> HIDE DEF U
  <2>2. Cardinality(U) \in Nat
    BY <2>1, FS_CardinalityType
  <2>3. Cardinality(U) = 0
    BY <2>2 DEF U
  <2> QED
    BY <2>1, <2>3, FS_EmptySet
<1>2. ASSUME NEW s \in T PROVE r[s] \in Reported
  <2>0. s \in Servers /\ Tells(c[s], r[s], "live")
    OBVIOUS
  <2>1. c[s] \in Terminal /\ r[s] \in Remote /\ r[s] \notin {"failing", "queued", "working"}
    BY <1>1, <2>0
  <2>2. r[s] # "out"
    BY <2>0 DEF Tells
  <2> QED
    BY <2>1, <2>2 DEF Remote
<1> QED
  BY <1>2

\* One message of one server.
LEMMA MessageBell ==
    ASSUME FleetModalAssumption, CountInv, CountInv', TellInv, TellInv', BellInv,
           NEW s \in Servers, Message(s)
    PROVE  BellInv'
<1>1. view = "live" /\ UNCHANGED <<kind, view>> /\ kind \in Kinds
  BY DEF Message, CountInv
<1>2. PICK m \in {"output", "ok", "failed", "skipped", "cancelled", "error"} :
          UpgradeMessage(s, m) \/ AutoremoveMessage(s, m) \/ RebootMessage(s, m)
  BY DEF Message
<1>3. UNCHANGED <<targets, aborted>>
  BY <1>2 DEF UpgradeMessage, AutoremoveMessage, RebootMessage, StreamMessage, FinalMessage
<1>4. AllReported => AllReported'
  BY <1>3, ReportsStay DEF AllReported
<1>5. CASE kind = "reboot-all"
  <2>1. bell' = bell
    BY <1>2, <1>5 DEF UpgradeMessage, AutoremoveMessage, RebootMessage
  <2> QED
    BY <1>1, <1>3, <1>4, <1>5, <2>1 DEF BellInv
<1>6. CASE kind # "reboot-all"
  <2>1. StreamMessage(s, m)
    BY <1>2, <1>6 DEF UpgradeMessage, AutoremoveMessage, RebootMessage
  <2>2. CASE m = "output"
    <3>1. UNCHANGED <<pending, bell>>
      BY <2>1, <2>2 DEF StreamMessage
    <3> QED
      BY <1>1, <1>3, <1>4, <3>1 DEF BellInv
  <2>3. CASE m # "output"
    <3>1. PICK told \in Terminal, jobStatus \in Finished : FinalMessage(s, told, jobStatus)
      BY <1>2, <2>1, <2>3 DEF StreamMessage, Terminal, Finished
    <3>2. CASE pending' <= 0
      <4>1. AllReported'
        <5>1. IsFiniteSet(Servers)
          BY DEF FleetModalAssumption
        <5>2. view' = "live" /\ kind' # "reboot-all"
          BY <1>1, <1>6
        <5>3. /\ targets' \in SUBSET Servers /\ remote' \in [Servers -> Remote]
              /\ pending' = Cardinality({r \in targets' : chip'[r] \notin Terminal})
              /\ \A r \in targets' :
                    /\ remote'[r] # "failing"
                    /\ remote'[r] \in {"queued", "working"} => chip'[r] \notin Terminal
          BY <5>2 DEF CountInv, Unsettled
        <5>4. \A r \in targets' : Tells(chip'[r], remote'[r], "live")
          BY <5>2 DEF TellInv
        <5>5. \A r \in targets' : remote'[r] \in Reported
          BY <3>2, <5>1, <5>3, <5>4, NoneUnsettled
        <5> QED
          BY <5>5 DEF AllReported
      <4>2. bell' = UpdateJob(bell, kind, jobStatus)
        BY <3>1, <3>2 DEF FinalMessage
      <4> QED
        BY <1>1, <4>1, <4>2, BellHearsError, BellHearsComplete DEF Finished
    <3>3. CASE ~(pending' <= 0)
      <4>1. bell' = bell
        BY <3>1, <3>3 DEF FinalMessage
      <4> QED
        BY <1>1, <1>3, <1>4, <3>3, <4>1 DEF BellInv
    <3> QED
      BY <3>2, <3>3
  <2> QED
    BY <2>2, <2>3
<1> QED
  BY <1>5, <1>6

LEMMA BellInvStep ==
    FleetModalAssumption /\ CountInv /\ CountInv' /\ TellInv /\ TellInv' /\ BellInv /\ [Next]_vars
        => BellInv'
<1> SUFFICES ASSUME FleetModalAssumption, CountInv, CountInv', TellInv, TellInv', BellInv, [Next]_vars
             PROVE  BellInv'
  OBVIOUS
<1>0. kind \in Kinds /\ BellType(bell) /\ kind \in JobIds /\ ListCap \in Nat \ {0}
  BY DEF CountInv, BellInv, FleetModalAssumption
<1>1. ASSUME NEW ok,
             \/ OpenDialog \/ RestoreFromBell \/ Navigate \/ ComeBack \/ LeftRunEnds \/ Hydrate
             \/ CloseDialog \/ Minimize \/ AskStop \/ AnswerStop(ok) \/ CancelArrives
             \/ FleetCancelled \/ BatchWait \/ CountdownEnds
      PROVE  BellInv'
  <2>1. /\ UNCHANGED <<kind, targets, remote, aborted, bell>>
        /\ view' = "live" => view = "live" /\ pending' = pending
        /\ view' = "done" => view = "done"
    BY <1>1 DEF OpenDialog, RestoreFromBell, Navigate, ComeBack, LeftRunEnds, Hydrate, CloseDialog,
       Minimize, AskStop, AnswerStop, CancelArrives, FleetCancelled, BatchWait, CountdownEnds,
       dialogVars, remoteVars
  <2> QED
    BY <1>0, <2>1, SameBell
<1>2. CASE BellTimer
  <2>1. BellType(bell') /\ \A S : Only(bell, kind, S) => Only(bell', kind, S)
    BY <1>0, <1>2, TimerFiresIs DEF BellTimer
  <2> QED
    BY <1>2, <2>1, SameBell DEF BellTimer, dialogVars, remoteVars
<1>3. CASE LeftSocketCloses
  BY <1>0, <1>3, BellHearsError DEF LeftSocketCloses
<1>4. CASE Reload
  <2>1. BellType(bell') /\ \A S : Only(bell', kind, S)
    BY <1>0, <1>4, EmptyBellIs DEF Reload, Rehydrate
  <2> QED
    BY <1>4, <2>1 DEF Reload, BellInv
<1>5. ASSUME NEW T \in (SUBSET Servers) \ {{}}, StartUpgrade(T) \/ StartAutoremove(T) \/ StartReboot(T)
      PROVE  BellInv'
  <2>1. Begin(T) /\ (kind # "reboot-all" => pending' = Cardinality(T))
    BY <1>5 DEF StartUpgrade, StartAutoremove, StartReboot, RebootForm
  <2> QED
    BY <1>0, <2>1, BeginBell
<1>6. ASSUME NEW s \in Servers, Message(s) PROVE BellInv'
  BY <1>6, MessageBell
<1>7. ASSUME NEW reason \in {"cancelled", "failure"}, RebootAbort(reason) PROVE BellInv'
  <2>1. kind' = kind /\ aborted' = reason
    BY <1>7 DEF RebootAbort
  <2>2. CASE reason = "cancelled"
    BY <1>0, <1>7, <2>1, <2>2, BellHearsComplete DEF RebootAbort
  <2>3. CASE reason = "failure"
    BY <1>0, <1>7, <2>1, <2>3, BellHearsError DEF RebootAbort
  <2> QED
    BY <2>2, <2>3
<1>8. CASE RebootComplete
  <2>1. UNCHANGED <<kind, view, targets, remote, aborted, pending>> /\ view = "live"
    BY <1>8 DEF RebootComplete, dialogVars
  <2>2. CASE aborted = "no"
    <3>1. ASSUME NEW s \in targets PROVE remote[s] \in Reported
      <4>1. remote[s] \in Remote /\ remote[s] # "out"
        BY <2>1 DEF CountInv, TellInv, Tells
      <4>2. remote[s] \notin {"queued", "working", "failing"}
        BY <1>8, <2>2 DEF RebootComplete, Working
      <4> QED
        BY <4>1, <4>2 DEF Remote
    <3>2. AllReported'
      BY <2>1, <3>1 DEF AllReported
    <3> QED
      BY <1>0, <1>8, <2>1, <2>2, <3>2, BellHearsComplete DEF RebootComplete
  <2>3. CASE aborted # "no"
    BY <1>8, <2>1, <2>3 DEF RebootComplete, BellInv, AllReported
  <2> QED
    BY <2>2, <2>3
<1>9. CASE Closed
  <2>1. view = "live" /\ view' = "done" /\ UNCHANGED <<kind, targets, remote, aborted>>
    BY <1>9 DEF Closed, remoteVars, UpgradeClosed, AutoremoveClosed, RebootClosed, StreamClosed
  <2>2. CASE bell' = UpdateJob(bell, kind, "error")
    BY <1>0, <2>1, <2>2, BellHearsError
  <2>3. CASE bell' # UpdateJob(bell, kind, "error")
    <3>1. bell' = bell /\ (kind # "reboot-all" => ~(pending > 0))
      BY <1>9, <2>3 DEF Closed, UpgradeClosed, AutoremoveClosed, RebootClosed, StreamClosed
    <3>2. kind # "reboot-all" => pending <= 0
      <4>1. kind # "reboot-all" => pending = Cardinality(Unsettled)
        BY <2>1 DEF CountInv
      <4>2. Cardinality(Unsettled) \in Nat
        BY FS_Subset, FS_CardinalityType DEF CountInv, Unsettled, FleetModalAssumption
      <4> QED
        BY <3>1, <4>1, <4>2
    <3> QED
      BY <2>1, <3>1, <3>2 DEF BellInv, AllReported
  <2> QED
    BY <2>2, <2>3
<1>10. CASE UNCHANGED vars
  BY <1>0, <1>10, SameBell DEF vars, dialogVars, remoteVars
<1> QED
  BY <1>1, <1>2, <1>3, <1>4, <1>5, <1>6, <1>7, <1>8, <1>9, <1>10 DEF Next

\* When a dialog's run is over the bell agrees with it, for any number of servers
\* and runs: through sockets that were left and close late, timers that fire for
\* another run's job, and reloads.
THEOREM BellAlwaysAgrees == Spec => []BellAgrees
<1>1. Init => CountInv /\ TellInv /\ BellInv
  <2>1. ASSUME Init PROVE CountInv /\ TellInv
    BY <2>1 DEF Init, CountInv, TellInv, Chip, Remote
  <2>2. ASSUME Init PROVE BellInv
    BY <2>2, EmptyBellIs, FleetModalAssumption DEF Init, BellInv, FleetModalAssumption
  <2> QED
    BY <2>1, <2>2
<1>2. BellInv => BellAgrees
  <2> SUFFICES ASSUME BellInv, view = "done"
               PROVE  /\ kind # "reboot-all" => StatusIn(bell, kind) # "running"
                      /\ StatusIn(bell, kind) = "complete" => aborted = "cancelled" \/ AllReported
    BY DEF BellAgrees, AllReported
  <2>1. kind # "reboot-all" => StatusIn(bell, kind) \in Finished \union {"none"}
    BY OnlyIsStatus DEF BellInv
  <2>2. StatusIn(bell, kind) \in {"running", "error"} \union {"none"} \/ aborted = "cancelled" \/ AllReported
    BY OnlyIsStatus DEF BellInv
  <2> QED
    BY <2>1, <2>2 DEF Finished
<1>3. IsFiniteSet(Servers)
  BY FleetModalAssumption DEF FleetModalAssumption
<1> QED
  BY <1>1, <1>2, <1>3, CountInvStep, TellInvStep, BellInvStep, FleetModalAssumption, PTL DEF Spec

-----------------------------------------------------------------------------
(***************************************************************************)
(* The types.  The chips, the server's side and the bell have theirs from   *)
(* the invariants above; the rest are switches, sets and counters.         *)
(***************************************************************************)
SwitchesOK ==
    /\ page \in {"dashboard", "other"}
    /\ view \in {"closed", "form", "live", "done"}
    /\ hidden \in BOOLEAN
    /\ ticking \in BOOLEAN
    /\ stop \in {"no", "confirming", "requested"}
    /\ runCancelled \in BOOLEAN
    /\ heard \in BOOLEAN
    /\ said \in BOOLEAN
    /\ card \in BOOLEAN

CountersOK ==
    /\ pending \in Int
    /\ aborted \in {"no", "cancelled", "failure"}
    /\ completed \subseteq Servers
    /\ left \in Nat
    /\ leaving \in Nat
    /\ runs \in 0..MaxRuns

LEMMA SwitchesStep == SwitchesOK /\ [Next]_vars => SwitchesOK'
<1> SUFFICES ASSUME SwitchesOK, [Next]_vars PROVE SwitchesOK'
  OBVIOUS
<1> USE DEF SwitchesOK, dialogVars, remoteVars, tabVars
<1>1. CASE OpenDialog \/ RestoreFromBell \/ BellTimer \/ Navigate \/ ComeBack
  BY <1>1, ZenonT(40) DEF OpenDialog, RestoreFromBell, BellTimer, Navigate, ComeBack
<1>2. ASSUME NEW ok \in BOOLEAN,
             CloseDialog \/ Minimize \/ AskStop \/ AnswerStop(ok) \/ CancelArrives
      PROVE  SwitchesOK'
  BY <1>2, ZenonT(40) DEF CloseDialog, Minimize, AskStop, AnswerStop, CancelArrives
<1>3. CASE LeftSocketCloses \/ LeftRunEnds \/ Hydrate \/ Reload
  BY <1>3, ZenonT(40) DEF LeftSocketCloses, LeftRunEnds, Hydrate, Reload
<1>4. ASSUME NEW T, StartUpgrade(T) \/ StartAutoremove(T) \/ StartReboot(T)
      PROVE  SwitchesOK'
  BY <1>4 DEF StartUpgrade, StartAutoremove, StartReboot, Begin
<1>5. ASSUME NEW s \in Servers, Message(s) PROVE SwitchesOK'
  BY <1>5 DEF Message, UpgradeMessage, AutoremoveMessage, RebootMessage, StreamMessage, FinalMessage
<1>6. ASSUME NEW reason, RebootAbort(reason) \/ BatchWait \/ CountdownEnds \/ RebootComplete
             \/ FleetCancelled
      PROVE  SwitchesOK'
  BY <1>6, ZenonT(40) DEF RebootAbort, BatchWait, CountdownEnds, RebootComplete, FleetCancelled
<1>7. CASE Closed
  BY <1>7 DEF Closed, UpgradeClosed, AutoremoveClosed, RebootClosed, StreamClosed
<1>8. CASE UNCHANGED vars
  BY <1>8 DEF vars
<1> QED
  BY <1>1, <1>2, <1>3, <1>4, <1>5, <1>6, <1>7, <1>8 DEF Next

LEMMA CountersStep ==
    FleetModalAssumption /\ targets \subseteq Servers /\ CountersOK /\ [Next]_vars => CountersOK'
<1> SUFFICES ASSUME FleetModalAssumption, targets \subseteq Servers, CountersOK, [Next]_vars
             PROVE  CountersOK'
  OBVIOUS
<1> USE DEF CountersOK, dialogVars, remoteVars, tabVars
<1>1. ASSUME NEW ok \in BOOLEAN,
             \/ OpenDialog \/ RestoreFromBell \/ BellTimer \/ Navigate \/ ComeBack
             \/ CloseDialog \/ Minimize \/ AskStop \/ AnswerStop(ok) \/ CancelArrives
      PROVE  CountersOK'
  BY <1>1 DEF OpenDialog, RestoreFromBell, BellTimer, Navigate, ComeBack,
     CloseDialog, Minimize, AskStop, AnswerStop, CancelArrives
<1>2. CASE LeftSocketCloses \/ LeftRunEnds \/ Hydrate \/ Reload
  BY <1>2 DEF LeftSocketCloses, LeftRunEnds, Hydrate, Reload
<1>3. ASSUME NEW T \in SUBSET Servers, StartUpgrade(T) \/ StartAutoremove(T) \/ StartReboot(T)
      PROVE  CountersOK'
  <2>1. Cardinality(T) \in Int
    BY FS_Subset, FS_CardinalityType DEF FleetModalAssumption
  <2>2. runs' \in 0..MaxRuns
    BY <1>3 DEF StartUpgrade, StartAutoremove, StartReboot, Begin, FleetModalAssumption
  <2> QED
    BY <1>3, <2>1, <2>2 DEF StartUpgrade, StartAutoremove, StartReboot, Begin
<1>4. ASSUME NEW s \in Servers, Message(s) PROVE CountersOK'
  BY <1>4 DEF Message, UpgradeMessage, AutoremoveMessage, RebootMessage, StreamMessage, FinalMessage
<1>5. ASSUME NEW reason \in {"cancelled", "failure"},
             RebootAbort(reason) \/ BatchWait \/ CountdownEnds \/ RebootComplete \/ FleetCancelled
      PROVE  CountersOK'
  BY <1>5 DEF RebootAbort, BatchWait, CountdownEnds, RebootComplete, FleetCancelled
<1>6. CASE Closed
  BY <1>6 DEF Closed, UpgradeClosed, AutoremoveClosed, RebootClosed, StreamClosed
<1>7. CASE UNCHANGED vars
  BY <1>7 DEF vars
<1> QED
  BY <1>1, <1>2, <1>3, <1>4, <1>5, <1>6, <1>7 DEF Next

\* The dialogs keep to their types: the counters do not run away, the bell's list
\* keeps to its length, and every chip and status is one that the code names.
THEOREM DialogTypes == Spec => []TypeOK
<1>1. Init => CountInv /\ TellInv /\ BellInv /\ SwitchesOK /\ CountersOK
  <2>1. ASSUME Init PROVE CountInv /\ TellInv /\ SwitchesOK
    BY <2>1 DEF Init, CountInv, TellInv, Chip, Remote, SwitchesOK
  <2>2. ASSUME Init PROVE BellInv
    BY <2>2, EmptyBellIs, FleetModalAssumption DEF Init, BellInv, FleetModalAssumption
  <2>3. ASSUME Init PROVE CountersOK
    BY <2>3, FleetModalAssumption DEF Init, CountersOK, FleetModalAssumption
  <2> QED
    BY <2>1, <2>2, <2>3
<1>2. CountInv /\ BellInv /\ SwitchesOK /\ CountersOK => TypeOK
  BY DEF CountInv, BellInv, SwitchesOK, CountersOK, TypeOK
<1>3. CountInv => targets \subseteq Servers
  BY DEF CountInv
<1>4. IsFiniteSet(Servers)
  BY FleetModalAssumption DEF FleetModalAssumption
<1> QED
  BY <1>1, <1>2, <1>3, <1>4, CountInvStep, TellInvStep, BellInvStep, SwitchesStep, CountersStep,
     FleetModalAssumption, PTL DEF Spec

-----------------------------------------------------------------------------
(***************************************************************************)
(* The types of the page of one server.                                    *)
(***************************************************************************)
ScreenOK ==
    /\ latest \in Checks
    /\ onScreen \in BOOLEAN
    /\ pageTab \in {"Upgrade", "other"}
    /\ server \in Checks
    /\ answers \subseteq Checks
    /\ pageChecking \in BOOLEAN

RebootOK ==
    /\ rebootState \in {"idle", "confirm", "rebooting", "waiting", "back", "failed"}
    /\ posted \subseteq {"mine", "gone"}
    /\ track \in {"none", "timer", "test"}
    /\ stray \in {"none", "timer", "test"}
    /\ followup \in BOOLEAN
    /\ reboots \in 0..MaxReboots

PanelOK ==
    /\ probes \subseteq [list : Checks, cancelled : BOOLEAN]
    /\ runtimePkgs \in Checks
    /\ runtimeProbed \in BOOLEAN
    /\ probeErrors \in 0..ProbeFails
    /\ probeFailed \in BOOLEAN

Socket == [run : 1..MaxStreams, sawTerminal : BOOLEAN, mine : BOOLEAN, forJob : BOOLEAN]

RunsOK ==
    /\ upgrading \in BOOLEAN
    /\ sockets \in SUBSET Socket
    /\ job \in {"none", "running", "complete", "error"}

PageInv == ScreenOK /\ RebootOK /\ PanelOK /\ RunsOK

LEMMA LoadTyped ==
    ASSUME ScreenOK, Load \/ UNCHANGED answers
    PROVE  answers' \subseteq Checks
  BY DEF ScreenOK, Load

\* The panel's looks stay looks, whatever becomes of the panel.
LEMMA ProbeTyped ==
    ASSUME ScreenOK, PanelOK, Probe, UNCHANGED <<runtimePkgs, probeErrors>>
    PROVE  PanelOK'
<1>1. [list |-> latest, cancelled |-> FALSE] \in [list : Checks, cancelled : BOOLEAN]
  BY DEF ScreenOK
<1>2. Cancelled(probes) \subseteq [list : Checks, cancelled : BOOLEAN]
  BY DEF PanelOK, Cancelled
<1> QED
  BY <1>1, <1>2 DEF PanelOK, Probe

LEMMA SeenTyped ==
    ASSUME ScreenOK, PanelOK, NEW old, NEW new, PanelSees(old, new),
           UNCHANGED <<runtimePkgs, probeErrors>>
    PROVE  PanelOK'
<1>1. CASE Probe
  BY <1>1, ProbeTyped
<1>2. CASE UNCHANGED <<probes, runtimeProbed, probeFailed>>
  BY <1>2 DEF PanelOK
<1> QED
  BY <1>1, <1>2 DEF PanelSees

LEMMA GoneTyped ==
    ASSUME ServerPageAssumption, PanelOK, RunsOK, PanelGone
    PROVE  PanelOK' /\ RunsOK'
<1>1. Cancelled(probes) \subseteq [list : Checks, cancelled : BOOLEAN]
  BY DEF PanelOK, Cancelled
<1>2. None \in Checks
  BY DEF None, Checks, ServerPageAssumption
<1>3. {[s EXCEPT !.mine = FALSE] : s \in sockets} \subseteq Socket
  BY DEF RunsOK, Socket
<1> QED
  BY <1>1, <1>2, <1>3 DEF PanelOK, RunsOK, PanelGone

LEMMA PageInvStep == ServerPageAssumption /\ PageInv /\ [ServerPageNext]_serverPageVars => PageInv'
<1> SUFFICES ASSUME ServerPageAssumption, PageInv, [ServerPageNext]_serverPageVars PROVE PageInv'
  OBVIOUS
<1> USE DEF screenVars, rebootVars, guardVars, runVars
<1>0. ScreenOK /\ RebootOK /\ PanelOK /\ RunsOK
  BY DEF PageInv
<1>1. ASSUME NEW p \in probes, NEW ok \in BOOLEAN, ProbeAnswered(p, ok) PROVE PageInv'
  <2>1. ScreenOK' /\ RebootOK' /\ RunsOK'
    BY <1>0, <1>1 DEF ProbeAnswered, ScreenOK, RebootOK, RunsOK
  <2>2. PanelOK'
    <3>1. p \in [list : Checks, cancelled : BOOLEAN]
      BY <1>0 DEF PanelOK
    <3>2. probeErrors' \in 0..ProbeFails
      BY <1>0, <1>1 DEF ProbeAnswered, PanelOK, ServerPageAssumption
    <3> QED
      BY <1>0, <1>1, <3>1, <3>2 DEF ProbeAnswered, PanelOK
  <2> QED
    BY <2>1, <2>2 DEF PageInv
<1>2. ASSUME UNCHANGED <<rebootVars, guardVars, runVars>>, ScreenOK' PROVE PageInv'
  BY <1>0, <1>2 DEF PageInv, RebootOK, PanelOK, RunsOK
<1>20. CASE Enter \/ HandlePageCheck
  <2>1. answers' \subseteq Checks
    BY <1>0, <1>20, LoadTyped DEF Enter, HandlePageCheck
  <2>2. ScreenOK'
    BY <1>0, <1>20, <2>1 DEF Enter, HandlePageCheck, ScreenOK
  <2> QED
    BY <1>2, <1>20, <2>2 DEF Enter, HandlePageCheck
<1>3. CASE Leave
  <2>1. PanelOK' /\ RunsOK'
    BY <1>0, <1>3, GoneTyped DEF Leave
  <2>2. ScreenOK'
    <3>1. None \in Checks
      BY DEF None, Checks, ServerPageAssumption
    <3> QED
      BY <1>0, <1>3, <3>1 DEF Leave, ScreenOK
  <2>3. RebootOK'
    BY <1>0, <1>3 DEF Leave, RebootOK, StopRebootTracking
  <2> QED
    BY <2>1, <2>2, <2>3 DEF PageInv
<1>4. ASSUME NEW a \in answers, NEW ok \in BOOLEAN, PageLoads(a, ok) PROVE PageInv'
  <2>1. ScreenOK' /\ RebootOK' /\ RunsOK'
    BY <1>0, <1>4 DEF PageLoads, ScreenOK, RebootOK, RunsOK
  <2>2. PanelOK'
    BY <1>0, <1>4, SeenTyped DEF PageLoads
  <2> QED
    BY <2>1, <2>2 DEF PageInv
<1>5. CASE NewCheck
  <2>1. latest' \in Checks
    BY <1>0, <1>5 DEF NewCheck, ScreenOK, Checks, ServerPageAssumption
  <2>2. ScreenOK'
    BY <1>0, <1>5, <2>1 DEF NewCheck, ScreenOK
  <2> QED
    BY <1>2, <1>5, <2>2 DEF NewCheck
<1>6. ASSUME NEW ok \in BOOLEAN, PageCheckAnswered(ok) PROVE PageInv'
  <2>1. answers' \subseteq Checks
    BY <1>0, <1>6, LoadTyped DEF PageCheckAnswered
  <2>2. ScreenOK'
    BY <1>0, <1>6, <2>1 DEF PageCheckAnswered, ScreenOK
  <2> QED
    BY <1>2, <1>6, <2>2 DEF PageCheckAnswered
<1>7. ASSUME NEW t \in {"Upgrade", "other"}, SetTab(t) PROVE PageInv'
  <2>1. ScreenOK' /\ RebootOK'
    BY <1>0, <1>7 DEF SetTab, ScreenOK, RebootOK
  <2>2. CASE t = "Upgrade"
    <3>1. PanelOK'
      BY <1>0, <1>7, <2>2, SeenTyped DEF SetTab
    <3> QED
      BY <1>0, <1>7, <2>1, <2>2, <3>1 DEF SetTab, PageInv, RunsOK
  <2>3. CASE t # "Upgrade"
    BY <1>0, <1>7, <2>1, <2>3, GoneTyped DEF SetTab, PageInv
  <2> QED
    BY <2>2, <2>3
<1>8. ASSUME RebootOnly, RebootOK', Load \/ UNCHANGED answers PROVE PageInv'
  <2>1. answers' \subseteq Checks
    BY <1>0, <1>8, LoadTyped
  <2> QED
    BY <1>0, <1>8, <2>1 DEF RebootOnly, PageInv, ScreenOK, PanelOK, RunsOK
<1>9. CASE ConfirmReboot \/ DismissRebootTracking \/ FollowUp
  <2>1. RebootOnly /\ (Load \/ UNCHANGED answers)
    BY <1>9 DEF ConfirmReboot, DismissRebootTracking, FollowUp
  <2>2. RebootOK'
    BY <1>0, <1>9 DEF ConfirmReboot, DismissRebootTracking, FollowUp, StopRebootTracking, RebootOK
  <2> QED
    BY <1>8, <2>1, <2>2
<1>10. CASE HandleReboot
  <2>1. reboots' \in 0..MaxReboots
    BY <1>0, <1>10 DEF HandleReboot, RebootOK, ServerPageAssumption
  <2>2. RebootOK'
    BY <1>0, <1>10, <2>1 DEF HandleReboot, RebootOK
  <2> QED
    BY <1>8, <1>10, <2>2 DEF HandleReboot
<1>11. ASSUME NEW who \in {"mine", "gone"}, NEW ok \in BOOLEAN, RebootAnswered(who, ok) PROVE PageInv'
  <2>1. RebootOK'
    BY <1>0, <1>11 DEF RebootAnswered, RebootOK
  <2> QED
    BY <1>8, <1>11, <2>1 DEF RebootAnswered
<1>12. ASSUME NEW b \in BOOLEAN, PollTimer(b) \/ TestAnswered(b) \/ StrayPoll(b) PROVE PageInv'
  <2>1. RebootOnly /\ (Load \/ UNCHANGED answers)
    BY <1>12 DEF PollTimer, TestAnswered, StrayPoll
  <2>2. RebootOK'
    BY <1>0, <1>12 DEF PollTimer, TestAnswered, StrayPoll, RebootOK
  <2> QED
    BY <1>8, <2>1, <2>2
<1>13. ASSUME RunOnly, RunsOK', Load \/ UNCHANGED answers PROVE PageInv'
  <2>1. answers' \subseteq Checks
    BY <1>0, <1>13, LoadTyped
  <2> QED
    BY <1>0, <1>13, <2>1 DEF RunOnly, PageInv, ScreenOK, RebootOK, PanelOK
<1>14. ASSUME NEW withJob \in BOOLEAN, OpenStream(withJob) PROVE PageInv'
  <2>1. PICK r \in 1..MaxStreams :
          sockets' = sockets \union {[run |-> r, sawTerminal |-> FALSE, mine |-> TRUE,
                                      forJob |-> withJob]}
    BY <1>14 DEF OpenStream
  <2>2. [run |-> r, sawTerminal |-> FALSE, mine |-> TRUE, forJob |-> withJob] \in Socket
    BY DEF Socket
  <2>3. RunsOK'
    BY <1>0, <1>14, <2>1, <2>2 DEF OpenStream, RunsOK
  <2> QED
    BY <1>13, <1>14, <2>3 DEF OpenStream
<1>15. CASE StartOneUpgrade \/ StartPveUpgrade \/ RunAptUpdate
  BY <1>14, <1>15 DEF StartOneUpgrade, StartPveUpgrade, RunAptUpdate
<1>16. ASSUME NEW s \in sockets, StreamCloses(s) PROVE PageInv'
  <2>1. RunsOK'
    BY <1>0, <1>16 DEF StreamCloses, RunsOK
  <2> QED
    BY <1>13, <1>16, <2>1 DEF StreamCloses
<1>17. ASSUME NEW s \in sockets, NEW told \in {"complete", "error"}, StreamTells(s, told)
       PROVE  PageInv'
  <2>1. [s EXCEPT !.sawTerminal = TRUE] \in Socket
    BY <1>0 DEF RunsOK, Socket
  <2>2. RunsOK'
    BY <1>0, <1>17, <2>1 DEF StreamTells, RunsOK
  <2> QED
    BY <1>13, <1>17, <2>2 DEF StreamTells
<1>18. CASE JobExpires
  <2>1. RunsOK'
    BY <1>0, <1>18 DEF JobExpires, RunsOK
  <2> QED
    BY <1>13, <1>18, <2>1 DEF JobExpires
<1>19. CASE UNCHANGED serverPageVars
  BY <1>0, <1>19 DEF serverPageVars, PageInv, ScreenOK, RebootOK, PanelOK, RunsOK
<1> QED
  BY <1>1, <1>3, <1>4, <1>5, <1>6, <1>7, <1>9, <1>10, <1>11, <1>12, <1>15, <1>16, <1>17,
     <1>18, <1>19, <1>20 DEF ServerPageNext

\* The page of a server keeps to its types.
THEOREM PageTypes == ServerPageSpec => []ServerPageTypeOK
<1>1. 0 \in Checks /\ 1 \in Checks /\ 0 \in 0..MaxReboots /\ 0 \in 0..ProbeFails
  BY ServerPageAssumption DEF ServerPageAssumption, Checks
<1>2. ServerPageInit => PageInv
  <2>1. ServerPageInit => ScreenOK /\ RebootOK
    BY <1>1 DEF ServerPageInit, ScreenOK, RebootOK, None
  <2>2. ServerPageInit => PanelOK /\ RunsOK
    BY <1>1 DEF ServerPageInit, PanelOK, RunsOK, None
  <2> QED
    BY <2>1, <2>2 DEF PageInv
<1>3. PageInv => ServerPageTypeOK
  BY DEF PageInv, ScreenOK, RebootOK, PanelOK, RunsOK, Socket, ServerPageTypeOK
<1> QED
  BY <1>2, <1>3, PageInvStep, ServerPageAssumption, PTL DEF ServerPageSpec

-----------------------------------------------------------------------------
\* The two parts live side by side: each step is a step of one of them and leaves
\* the other where it is, so what was proved of the parts holds of both together.
THEOREM StreamsImplementsParts == StreamsSpec => Spec /\ ServerPageSpec
<1>1. StreamsInit => Init /\ ServerPageInit
  BY DEF StreamsInit
<1>2. [StreamsNext]_streamsVars => [Next]_vars /\ [ServerPageNext]_serverPageVars
  <2>1. DialogStep => Next /\ UNCHANGED serverPageVars
    BY DEF DialogStep
  <2>2. UpgradeStep \/ RebootStep => UNCHANGED vars /\ ServerPageNext
    BY DEF UpgradeStep, RebootStep
  <2>3. UNCHANGED streamsVars => UNCHANGED vars /\ UNCHANGED serverPageVars
    BY DEF streamsVars
  <2> QED
    BY <2>1, <2>2, <2>3 DEF StreamsNext
<1> QED
  BY <1>1, <1>2, PTL DEF StreamsSpec, Spec, ServerPageSpec

\* So every state of the two is of the types that both name.
THEOREM StreamsTypes == StreamsSpec => []StreamsTypeOK
<1>1. TypeOK /\ ServerPageTypeOK => StreamsTypeOK
  BY DEF StreamsTypeOK
<1> QED
  BY <1>1, StreamsImplementsParts, DialogTypes, PageTypes, PTL
-----------------------------------------------------------------------------
(***************************************************************************)
(* The fleet check.  A run that is asked for is counted when it is started, *)
(* and the request turns into a run or is over: what runs and what is       *)
(* asked for together are no more than what was started.                   *)
(***************************************************************************)
ChecksInv ==
    /\ active \in Nat
    /\ starts \in 0..MaxStarts
    /\ starting \in [Callers -> Nat]
    /\ active + starting["dashboard"] + starting["palette"] + starting["left"] <= starts

BannerOK ==
    /\ mounted \in BOOLEAN
    /\ checkingAll \in BOOLEAN
    /\ interval \in BOOLEAN

PollsOK ==
    /\ strays \in Nat
    /\ failures \in 0..3

RequestsOK ==
    /\ polls \subseteq Answers
    /\ layoutPolls \subseteq Answers
    /\ checking \subseteq Checkable
    /\ asked \subseteq Checkable
    /\ running \in BOOLEAN

LEMMA FirstChecks == CheckInit => ChecksInv
  BY FleetCheckAssumption DEF FleetCheckAssumption, CheckInit, ChecksInv, Callers

LEMMA ChecksStep ==
    MaxStarts \in Nat /\ ChecksInv /\ [CheckNext]_fleetCheckVars => ChecksInv'
<1> SUFFICES ASSUME MaxStarts \in Nat, ChecksInv, [CheckNext]_fleetCheckVars PROVE ChecksInv'
  OBVIOUS
<1> USE DEF dashVars, checkVars, serverVars
<1>1. ASSUME UNCHANGED <<active, starts, starting>> PROVE ChecksInv'
  BY <1>1 DEF ChecksInv
<1>2. CASE RunCheckAll \/ RunFleetCheck
  <2>1. PICK w \in {"dashboard", "palette"} :
            starting' = [starting EXCEPT ![w] = @ + 1]
    BY <1>2 DEF RunCheckAll, RunFleetCheck
  <2>2. starts' = starts + 1 /\ starts < MaxStarts /\ active' = active
    BY <1>2 DEF RunCheckAll, RunFleetCheck
  <2> QED
    BY <2>1, <2>2 DEF ChecksInv, Callers
<1>3. ASSUME NEW w \in Callers, StartAnswered(w) \/ StartFails(w) PROVE ChecksInv'
  <2>1. /\ starting[w] > 0 /\ starting' = [starting EXCEPT ![w] = @ - 1] /\ starts' = starts
        /\ active' = active \/ active' = active + 1
    BY <1>3 DEF StartAnswered, StartFails
  <2>2. CASE w = "dashboard"
    BY <2>1, <2>2 DEF ChecksInv, Callers
  <2>3. CASE w = "palette"
    BY <2>1, <2>3 DEF ChecksInv, Callers
  <2>4. CASE w = "left"
    BY <2>1, <2>4 DEF ChecksInv, Callers
  <2> QED
    BY <2>2, <2>3, <2>4 DEF Callers
<1>4. CASE RunEnds
  BY <1>4 DEF RunEnds, ChecksInv, Callers
<1>5. CASE LeaveDashboard
  BY <1>5 DEF LeaveDashboard, ChecksInv, Callers
<1>6. ASSUME NEW a, \/ DashboardHears(a) \/ DashboardPollFails(a) \/ LayoutHears(a)
                    \/ LayoutPollFails(a) \/ HandleCheck(a) \/ RemovalDue(a)
                    \/ \E told : CheckAnswered(a, told)
      PROVE  ChecksInv'
  BY <1>1, <1>6 DEF DashboardHears, DashboardPollFails, LayoutHears, LayoutPollFails, HandleCheck,
     RemovalDue, CheckAnswered
<1>7. CASE DashboardPoll \/ LayoutPoll \/ EnterDashboard \/ UNCHANGED fleetCheckVars
  BY <1>1, <1>7 DEF DashboardPoll, LayoutPoll, EnterDashboard, fleetCheckVars
<1> QED
  BY <1>2, <1>3, <1>4, <1>5, <1>6, <1>7 DEF CheckNext

LEMMA BannerStep == ChecksInv /\ BannerHasPoll /\ [CheckNext]_fleetCheckVars => BannerHasPoll'
<1> SUFFICES ASSUME ChecksInv, BannerHasPoll, [CheckNext]_fleetCheckVars PROVE BannerHasPoll'
  OBVIOUS
<1> USE DEF dashVars, checkVars, serverVars
<1>1. ASSUME UNCHANGED <<dashVars, starting>> PROVE BannerHasPoll'
  BY <1>1 DEF BannerHasPoll
<1>2. CASE RunCheckAll \/ RunFleetCheck
  <2>1. CASE RunCheckAll
    <3>1. starting' = [starting EXCEPT !["dashboard"] = starting["dashboard"] + 1]
      BY <2>1 DEF RunCheckAll
    <3>2. starting'["dashboard"] > 0
      BY <3>1 DEF ChecksInv, Callers
    <3> QED
      BY <3>2 DEF BannerHasPoll
  <2>2. CASE RunFleetCheck
    <3>1. starting' = [starting EXCEPT !["palette"] = starting["palette"] + 1]
          /\ UNCHANGED <<checkingAll, interval>>
      BY <2>2 DEF RunFleetCheck
    <3>2. starting'["dashboard"] = starting["dashboard"]
      BY <3>1 DEF ChecksInv, Callers
    <3> QED
      BY <3>1, <3>2 DEF BannerHasPoll
  <2> QED
    BY <1>2, <2>1, <2>2
<1>3. ASSUME NEW w \in Callers, StartAnswered(w) PROVE BannerHasPoll'
  <2>1. CASE w = "dashboard"
    BY <1>3, <2>1 DEF StartAnswered, BannerHasPoll
  <2>2. CASE w # "dashboard"
    BY <1>3, <2>2 DEF StartAnswered, BannerHasPoll, ChecksInv, Callers
  <2> QED
    BY <2>1, <2>2
<1>4. ASSUME NEW w \in Callers, StartFails(w) PROVE BannerHasPoll'
  <2>1. CASE w = "dashboard"
    BY <1>4, <2>1 DEF StartFails, BannerHasPoll
  <2>2. CASE w # "dashboard"
    BY <1>4, <2>2 DEF StartFails, BannerHasPoll, ChecksInv, Callers
  <2> QED
    BY <2>1, <2>2
<1>5. ASSUME NEW a, DashboardHears(a) PROVE BannerHasPoll'
  BY <1>5 DEF DashboardHears, StopPolling, BannerHasPoll
<1>6. ASSUME NEW a, DashboardPollFails(a) PROVE BannerHasPoll'
  BY <1>6 DEF DashboardPollFails, StopPolling, BannerHasPoll
<1>7. CASE LeaveDashboard \/ EnterDashboard
  BY <1>7 DEF LeaveDashboard, EnterDashboard, BannerHasPoll
<1>8. ASSUME NEW a, \/ LayoutHears(a) \/ LayoutPollFails(a) \/ HandleCheck(a) \/ RemovalDue(a)
                    \/ \E told : CheckAnswered(a, told)
      PROVE  BannerHasPoll'
  BY <1>1, <1>8 DEF LayoutHears, LayoutPollFails, HandleCheck, RemovalDue, CheckAnswered
<1>9. CASE DashboardPoll \/ LayoutPoll \/ RunEnds \/ UNCHANGED fleetCheckVars
  BY <1>1, <1>9 DEF DashboardPoll, LayoutPoll, RunEnds, fleetCheckVars, BannerHasPoll
<1> QED
  BY <1>2, <1>3, <1>4, <1>5, <1>6, <1>7, <1>8, <1>9 DEF CheckNext

\* Whatever checks overlap, polls stray and pages are left: a banner that is up
\* is one that something will take down.
THEOREM BannersHavePolls == CheckSpec => []BannerHasPoll
<1>1. CheckInit => BannerHasPoll
  BY DEF CheckInit, BannerHasPoll
<1>2. MaxStarts \in Nat
  BY FleetCheckAssumption DEF FleetCheckAssumption
<1> QED
  BY <1>1, <1>2, FirstChecks, ChecksStep, BannerStep, PTL DEF CheckSpec

LEMMA PollsStep == PollsOK /\ [CheckNext]_fleetCheckVars => PollsOK'
<1> SUFFICES ASSUME PollsOK, [CheckNext]_fleetCheckVars PROVE PollsOK'
  OBVIOUS
<1> USE DEF dashVars, checkVars, serverVars, PollsOK
<1>1. CASE RunCheckAll \/ RunFleetCheck \/ RunEnds \/ EnterDashboard \/ LeaveDashboard
  BY <1>1 DEF RunCheckAll, RunFleetCheck, RunEnds, EnterDashboard, LeaveDashboard
<1>2. ASSUME NEW w, StartAnswered(w) \/ StartFails(w) PROVE PollsOK'
  <2>1. (strays' = strays \/ strays' = strays + 1) /\ failures' = failures
    BY <1>2 DEF StartAnswered, StartFails
  <2> QED
    BY <2>1
<1>3. CASE DashboardPoll \/ LayoutPoll \/ UNCHANGED fleetCheckVars
  BY <1>3 DEF DashboardPoll, LayoutPoll, fleetCheckVars
<1>4. ASSUME NEW a, DashboardHears(a) \/ DashboardPollFails(a) PROVE PollsOK'
  BY <1>4 DEF DashboardHears, DashboardPollFails, StopPolling
<1>5. ASSUME NEW a, \/ LayoutHears(a) \/ LayoutPollFails(a) \/ HandleCheck(a) \/ RemovalDue(a)
                    \/ \E told : CheckAnswered(a, told)
      PROVE  PollsOK'
  BY <1>5 DEF LayoutHears, LayoutPollFails, HandleCheck, RemovalDue, CheckAnswered
<1> QED
  BY <1>1, <1>2, <1>3, <1>4, <1>5 DEF CheckNext

LEMMA BannerTypesStep == BannerOK /\ [CheckNext]_fleetCheckVars => BannerOK'
<1> SUFFICES ASSUME BannerOK, [CheckNext]_fleetCheckVars PROVE BannerOK'
  OBVIOUS
<1> USE DEF dashVars, checkVars, serverVars, BannerOK
<1>1. CASE RunCheckAll \/ RunFleetCheck \/ RunEnds \/ EnterDashboard \/ LeaveDashboard
  BY <1>1 DEF RunCheckAll, RunFleetCheck, RunEnds, EnterDashboard, LeaveDashboard
<1>2. ASSUME NEW w, StartAnswered(w) \/ StartFails(w) PROVE BannerOK'
  BY <1>2 DEF StartAnswered, StartFails
<1>3. CASE DashboardPoll \/ LayoutPoll \/ UNCHANGED fleetCheckVars
  BY <1>3 DEF DashboardPoll, LayoutPoll, fleetCheckVars
<1>4. ASSUME NEW a, DashboardHears(a) \/ DashboardPollFails(a) PROVE BannerOK'
  BY <1>4 DEF DashboardHears, DashboardPollFails, StopPolling
<1>5. ASSUME NEW a, \/ LayoutHears(a) \/ LayoutPollFails(a) \/ HandleCheck(a) \/ RemovalDue(a)
                    \/ \E told : CheckAnswered(a, told)
      PROVE  BannerOK'
  BY <1>5 DEF LayoutHears, LayoutPollFails, HandleCheck, RemovalDue, CheckAnswered
<1> QED
  BY <1>1, <1>2, <1>3, <1>4, <1>5 DEF CheckNext

LEMMA RequestsStep == RequestsOK /\ [CheckNext]_fleetCheckVars => RequestsOK'
<1> SUFFICES ASSUME RequestsOK, [CheckNext]_fleetCheckVars PROVE RequestsOK'
  OBVIOUS
<1> USE DEF dashVars, checkVars, serverVars, RequestsOK
<1>1. CASE RunCheckAll \/ RunFleetCheck \/ RunEnds \/ EnterDashboard \/ LeaveDashboard
  BY <1>1 DEF RunCheckAll, RunFleetCheck, RunEnds, EnterDashboard, LeaveDashboard
<1>2. ASSUME NEW w, StartAnswered(w) \/ StartFails(w) PROVE RequestsOK'
  BY <1>2 DEF StartAnswered, StartFails
<1>3. CASE DashboardPoll \/ LayoutPoll
  BY <1>3 DEF DashboardPoll, LayoutPoll, Progress, Answers
<1>4. ASSUME NEW a, \/ DashboardHears(a) \/ DashboardPollFails(a) \/ LayoutHears(a)
                    \/ LayoutPollFails(a)
      PROVE  RequestsOK'
  BY <1>4 DEF DashboardHears, DashboardPollFails, LayoutHears, LayoutPollFails
<1>5. ASSUME NEW s \in Checkable, HandleCheck(s) \/ \E told : CheckAnswered(s, told)
      PROVE  RequestsOK'
  BY <1>5 DEF HandleCheck, CheckAnswered
<1>6. ASSUME NEW i, RemovalDue(i) PROVE RequestsOK'
  BY <1>6 DEF RemovalDue
<1>7. CASE UNCHANGED fleetCheckVars
  BY <1>7 DEF fleetCheckVars
<1> QED
  BY <1>1, <1>2, <1>3, <1>4, <1>5, <1>6, <1>7 DEF CheckNext

\* The bell's list and timers, under every job the fleet check writes.
ListedJobs == BellType(bell)

LEMMA CheckBellStep ==
    FleetCheckAssumption /\ ListedJobs /\ [CheckNext]_fleetCheckVars => ListedJobs'
<1> SUFFICES ASSUME FleetCheckAssumption, BellType(bell), [CheckNext]_fleetCheckVars
             PROVE  BellType(bell')
  BY DEF ListedJobs
<1>0. /\ "check-all" \in JobIds /\ (\A s \in Checkable : CheckJob[s] \in JobIds)
      /\ ListCap \in Nat \ {0}
  BY DEF FleetCheckAssumption
<1>1. ASSUME NEW i \in JobIds, bell' = AddJob(bell, i) PROVE BellType(bell')
  BY <1>0, <1>1, AddJobIs
<1>2. ASSUME NEW i \in JobIds, NEW told \in Finished, bell' = UpdateJob(bell, i, told)
      PROVE  BellType(bell')
  BY <1>2, UpdateJobIs
<1>3. CASE RunCheckAll \/ RunFleetCheck
  BY <1>0, <1>1, <1>3 DEF RunCheckAll, RunFleetCheck
<1>4. ASSUME NEW w, StartAnswered(w) \/ StartFails(w) PROVE BellType(bell')
  BY <1>0, <1>2, <1>4 DEF StartAnswered, StartFails, Finished
<1>5. CASE \/ RunEnds \/ EnterDashboard \/ LeaveDashboard \/ DashboardPoll \/ LayoutPoll
           \/ UNCHANGED fleetCheckVars
  BY <1>5 DEF RunEnds, EnterDashboard, LeaveDashboard, DashboardPoll, LayoutPoll, fleetCheckVars
<1>6. ASSUME NEW a, DashboardHears(a) \/ DashboardPollFails(a) PROVE BellType(bell')
  BY <1>6 DEF DashboardHears, DashboardPollFails
<1>7. ASSUME NEW a, LayoutHears(a) \/ LayoutPollFails(a) PROVE BellType(bell')
  BY <1>0, <1>2, <1>7 DEF LayoutHears, LayoutPollFails, Finished
<1>8. ASSUME NEW s \in Checkable, HandleCheck(s) PROVE BellType(bell')
  BY <1>0, <1>1, <1>8 DEF HandleCheck
<1>9. ASSUME NEW s \in Checkable, NEW told \in Finished, CheckAnswered(s, told)
      PROVE  BellType(bell')
  BY <1>0, <1>2, <1>9 DEF CheckAnswered
<1>10. ASSUME NEW i \in JobIds, RemovalDue(i) PROVE BellType(bell')
  BY <1>0, <1>10, TimerFiresIs DEF RemovalDue
<1> QED
  BY <1>3, <1>4, <1>5, <1>6, <1>7, <1>8, <1>9, <1>10 DEF CheckNext

\* The fleet check keeps to its types: never more runs than were started, and a
\* bell no longer than its cap, in whatever order checks, polls and pages come.
THEOREM CheckTypes == CheckSpec => []CheckTypeOK
<1>1. CheckInit => ChecksInv /\ BannerOK /\ PollsOK /\ RequestsOK /\ ListedJobs
  <2>1. ASSUME CheckInit PROVE ChecksInv
    BY <2>1, FirstChecks
  <2>2. ASSUME CheckInit PROVE BannerOK /\ PollsOK /\ RequestsOK
    <3>1. BannerOK
      BY <2>2 DEF CheckInit, BannerOK
    <3>2. PollsOK
      BY <2>2 DEF CheckInit, PollsOK
    <3>3. RequestsOK
      BY <2>2 DEF CheckInit, RequestsOK
    <3> QED
      BY <3>1, <3>2, <3>3
  <2>3. ASSUME CheckInit PROVE ListedJobs
    BY <2>3, EmptyBellIs, FleetCheckAssumption DEF FleetCheckAssumption, CheckInit, ListedJobs
  <2> QED
    BY <2>1, <2>2, <2>3
<1>2. MaxStarts \in Nat
  BY FleetCheckAssumption DEF FleetCheckAssumption
<1>3. ChecksInv /\ BannerOK /\ PollsOK /\ RequestsOK /\ ListedJobs => CheckTypeOK
  <2>1. ASSUME ChecksInv
        PROVE  active \in 0..MaxStarts /\ starting \in [Callers -> 0..MaxStarts]
    BY <1>2, <2>1 DEF ChecksInv, Callers
  <2> QED
    BY <2>1 DEF ChecksInv, BannerOK, PollsOK, RequestsOK, ListedJobs, Callers, CheckTypeOK
<1> QED
  BY <1>1, <1>2, <1>3, ChecksStep, BannerTypesStep, PollsStep, RequestsStep, CheckBellStep, FleetCheckAssumption,
     PTL DEF CheckSpec

-----------------------------------------------------------------------------
(***************************************************************************)
(* The list of servers.                                                    *)
(***************************************************************************)
Fleets == [Machines -> {"on", "off", "gone"}]

ViewOK ==
    /\ where \in Screens
    /\ fleet \in Fleets
    /\ list \in [Machines -> {"on", "off", "gone", "unknown"}]
    /\ loads \subseteq Fleets
    /\ loadError \in BOOLEAN
    /\ narrow \in BOOLEAN

BulkType == [op : Capped \union {"delete", "none"}, todo : SUBSET Machines, out : SUBSET Machines]
ConfirmType == [op : {"none", "disable", "delete", "disable-one", "delete-one"}, ids : SUBSET Machines]
SingleType == [op : {"enable", "disable", "delete", "check", "test"}, id : Machines]

ActsOK ==
    /\ selected \subseteq Machines
    /\ bulk \in BulkType
    /\ confirm \in ConfirmType
    /\ single \subseteq SingleType
    /\ changes \in 0..MaxChanges

LEMMA AfterTyped ==
    ASSUME fleet \in Fleets, NEW op, NEW s \in Machines
    PROVE  After(op, s) \in Fleets
  BY DEF After, Fleets

LEMMA RequestTyped ==
    ASSUME loads \subseteq Fleets, NEW now \in Fleets, Request(now) \/ UNCHANGED loads
    PROVE  loads' \subseteq Fleets
  BY DEF Request

LEMMA SendTyped ==
    ASSUME ServerListAssumption, ActsOK, NEW s \in Machines,
           NEW op \in {"enable", "disable", "delete", "check", "test"}, Send(op, s)
    PROVE  single' \subseteq SingleType /\ changes' \in 0..MaxChanges
<1>1. [op |-> op, id |-> s] \in SingleType
  BY DEF SingleType
<1> QED
  BY <1>1 DEF Send, ActsOK, ServerListAssumption

LEMMA StartTyped ==
    ASSUME ServerListAssumption, ActsOK, NEW ids \in SUBSET Machines,
           NEW op \in Capped \union {"delete"}, StartBulk(op, ids)
    PROVE  bulk' \in BulkType /\ changes' \in 0..MaxChanges
  BY DEF StartBulk, BulkType, ActsOK, ServerListAssumption

LEMMA ViewStep == ActsOK /\ ViewOK /\ [ListNext]_listPageVars => ViewOK'
<1> SUFFICES ASSUME ActsOK, ViewOK, [ListNext]_listPageVars PROVE ViewOK'
  OBVIOUS
<1> USE DEF shownListVars, actVars
<1>1. ASSUME UNCHANGED <<where, fleet, shownListVars, narrow>> PROVE ViewOK'
  BY <1>1 DEF ViewOK
<1>2. CASE Poll
  <2>1. loads' \subseteq Fleets
    BY <1>2, RequestTyped DEF Poll, ViewOK
  <2> QED
    BY <1>2, <2>1 DEF Poll, ViewOK
<1>3. ASSUME NEW a \in loads, LoadAnswered(a) PROVE ViewOK'
  BY <1>3 DEF LoadAnswered, ViewOK, Fleets
<1>4. ASSUME NEW a \in loads, LoadFails(a) PROVE ViewOK'
  BY <1>4 DEF LoadFails, ViewOK
<1>5. ASSUME NEW p \in Screens, GoTo(p) PROVE ViewOK'
  BY <1>5 DEF GoTo, NotLoaded, ViewOK
<1>6. CASE SetFilter
  BY <1>6 DEF SetFilter, ViewOK
<1>7. ASSUME NEW s, ToggleSelect(s) \/ HandleToggleEnabled(s) \/ HandleTestConnection(s)
                    \/ AskDeleteServer(s) \/ RunCapped(s)
      PROVE  ViewOK'
  BY <1>1, <1>7 DEF ToggleSelect, HandleToggleEnabled, HandleTestConnection, AskDeleteServer,
     RunCapped
<1>8. ASSUME NEW ok, ConfirmOne(ok) \/ ConfirmBulk(ok) \/ BulkSetEnabled(ok) PROVE ViewOK'
  BY <1>1, <1>8 DEF ConfirmOne, ConfirmBulk, BulkSetEnabled
<1>9. CASE \/ ToggleSelectAllFiltered \/ ToggleSelectAll \/ ClearSelected \/ BulkCheck
           \/ HandleBulkDelete
  BY <1>1, <1>9 DEF ToggleSelectAllFiltered, ToggleSelectAll, ClearSelected, BulkCheck,
     HandleBulkDelete
<1>10. ASSUME UNCHANGED <<where, list, loadError, narrow>>, fleet' \in Fleets,
              Request(fleet') \/ UNCHANGED loads
       PROVE  ViewOK'
  <2>1. loads' \subseteq Fleets
    BY <1>10, RequestTyped DEF ViewOK
  <2> QED
    BY <1>10, <2>1 DEF ViewOK
<1>11. ASSUME NEW r \in single, NEW ok \in BOOLEAN, SingleAnswered(r, ok) PROVE ViewOK'
  <2>1. fleet' \in Fleets
    BY <1>11, AfterTyped DEF SingleAnswered, ViewOK, ActsOK, SingleType
  <2> QED
    BY <1>10, <1>11, <2>1 DEF SingleAnswered
<1>12. ASSUME NEW s \in Machines, NEW ok \in BOOLEAN, BulkAnswered(s, ok) PROVE ViewOK'
  <2>1. fleet' \in Fleets
    BY <1>12, AfterTyped DEF BulkAnswered, ViewOK
  <2> QED
    BY <1>10, <1>12, <2>1 DEF BulkAnswered
<1>13. CASE UNCHANGED listPageVars
  BY <1>1, <1>13 DEF listPageVars
<1> QED
  BY <1>2, <1>3, <1>4, <1>5, <1>6, <1>7, <1>8, <1>9, <1>11, <1>12, <1>13 DEF ListNext

LEMMA ActsStep == ServerListAssumption /\ ActsOK /\ [ListNext]_listPageVars => ActsOK'
<1> SUFFICES ASSUME ServerListAssumption, ActsOK, [ListNext]_listPageVars PROVE ActsOK'
  OBVIOUS
<1> USE DEF shownListVars, actVars
<1>0. NoConfirm \in ConfirmType /\ Idle \in BulkType
  BY DEF NoConfirm, ConfirmType, Idle, BulkType
<1>1. ASSUME UNCHANGED <<selected, actVars>> PROVE ActsOK'
  BY <1>1 DEF ActsOK
<1>2. CASE Poll \/ SetFilter \/ UNCHANGED listPageVars
  BY <1>1, <1>2 DEF Poll, SetFilter, listPageVars
<1>3. ASSUME NEW a, LoadAnswered(a) \/ LoadFails(a) PROVE ActsOK'
  BY <1>1, <1>3 DEF LoadAnswered, LoadFails
<1>4. ASSUME NEW p, GoTo(p) PROVE ActsOK'
  BY <1>0, <1>4 DEF GoTo, ActsOK
<1>5. ASSUME selected' \subseteq Machines, UNCHANGED actVars PROVE ActsOK'
  BY <1>5 DEF ActsOK
<1>6. ASSUME NEW s \in Machines, ToggleSelect(s) PROVE ActsOK'
  BY <1>5, <1>6 DEF ToggleSelect, ActsOK
<1>7. CASE ToggleSelectAllFiltered \/ ToggleSelectAll \/ ClearSelected
  <2>1. Listed \subseteq Machines /\ Filtered \subseteq Machines
    BY DEF Listed, Filtered
  <2>2. selected' \subseteq Machines
    BY <1>7, <2>1 DEF ToggleSelectAllFiltered, ToggleSelectAll, ClearSelected, ActsOK
  <2> QED
    BY <1>5, <1>7, <2>2 DEF ToggleSelectAllFiltered, ToggleSelectAll, ClearSelected
<1>8. ASSUME UNCHANGED <<selected, bulk>>, confirm' \in ConfirmType,
             \/ UNCHANGED <<single, changes>>
             \/ \E op \in {"enable", "disable", "delete", "check", "test"}, s \in Machines : Send(op, s)
      PROVE  ActsOK'
  <2>1. single' \subseteq SingleType /\ changes' \in 0..MaxChanges
    BY <1>8, SendTyped DEF ActsOK
  <2> QED
    BY <1>8, <2>1 DEF ActsOK
<1>9. ASSUME NEW s \in Machines,
             HandleToggleEnabled(s) \/ HandleTestConnection(s) \/ AskDeleteServer(s)
      PROVE  ActsOK'
  <2>1. confirm' \in ConfirmType
    BY <1>9 DEF HandleToggleEnabled, HandleTestConnection, AskDeleteServer, ConfirmType, ActsOK
  <2> QED
    BY <1>8, <1>9, <2>1 DEF HandleToggleEnabled, HandleTestConnection, AskDeleteServer
<1>10. ASSUME NEW ok, ConfirmOne(ok) PROVE ActsOK'
  <2>1. confirm.ids \subseteq Machines
    BY DEF ActsOK, ConfirmType
  <2>2. \/ UNCHANGED <<single, changes>>
        \/ \E op \in {"enable", "disable", "delete", "check", "test"}, s \in Machines : Send(op, s)
    BY <1>10, <2>1 DEF ConfirmOne
  <2> QED
    BY <1>0, <1>8, <1>10, <2>2 DEF ConfirmOne
<1>11. ASSUME NEW r \in single, NEW ok, SingleAnswered(r, ok) PROVE ActsOK'
  BY <1>11 DEF SingleAnswered, ActsOK
<1>12. ASSUME UNCHANGED <<selected, single>>, confirm' \in ConfirmType,
              \/ UNCHANGED <<bulk, changes>>
              \/ \E op \in Capped \union {"delete"}, ids \in SUBSET Machines : StartBulk(op, ids)
       PROVE  ActsOK'
  <2>1. bulk' \in BulkType /\ changes' \in 0..MaxChanges
    BY <1>12, StartTyped DEF ActsOK
  <2> QED
    BY <1>12, <2>1 DEF ActsOK
<1>13. CASE BulkCheck
  BY <1>12, <1>13 DEF BulkCheck, ActsOK, Capped
<1>14. ASSUME NEW enable, BulkSetEnabled(enable) PROVE ActsOK'
  <2>1. [op |-> "disable", ids |-> selected] \in ConfirmType
    BY DEF ActsOK, ConfirmType
  <2> QED
    BY <1>12, <1>14, <2>1 DEF BulkSetEnabled, ActsOK, Capped
<1>15. CASE HandleBulkDelete
  <2>1. [op |-> "delete", ids |-> selected] \in ConfirmType
    BY DEF ActsOK, ConfirmType
  <2> QED
    BY <1>12, <1>15, <2>1 DEF HandleBulkDelete
<1>16. ASSUME NEW ok, ConfirmBulk(ok) PROVE ActsOK'
  <2>1. confirm.ids \in SUBSET Machines
    BY DEF ActsOK, ConfirmType
  <2> QED
    BY <1>0, <1>12, <1>16, <2>1 DEF ConfirmBulk, Capped
<1>17. ASSUME NEW s \in Machines, RunCapped(s) PROVE ActsOK'
  <2>1. bulk' \in BulkType
    BY <1>17 DEF RunCapped, ActsOK, BulkType
  <2> QED
    BY <1>17, <2>1 DEF RunCapped, ActsOK
<1>18. ASSUME NEW s \in Machines, NEW ok, BulkAnswered(s, ok) PROVE ActsOK'
  <2>1. bulk' \in BulkType
    BY <1>0, <1>18 DEF BulkAnswered, ActsOK, BulkType
  <2> QED
    BY <1>18, <2>1 DEF BulkAnswered, ActsOK
<1> QED
  BY <1>2, <1>3, <1>4, <1>6, <1>7, <1>9, <1>10, <1>11, <1>13, <1>14, <1>15, <1>16, <1>17, <1>18
  DEF ListNext

\* The list of servers keeps to its types.
THEOREM ListTypes == ListSpec => []ListTypeOK
<1>1. ListInit => ViewOK
  BY DEF ListInit, ViewOK, Fleets, NotLoaded
<1>2. ListInit => ActsOK
  BY ServerListAssumption DEF ServerListAssumption, ListInit, ActsOK, Idle, NoConfirm, BulkType,
     ConfirmType
<1>3. ViewOK /\ ActsOK => ListTypeOK
  BY DEF ViewOK, ActsOK, ListTypeOK, Fleets, BulkType, ConfirmType, SingleType
<1> QED
  BY <1>1, <1>2, <1>3, ViewStep, ActsStep, ServerListAssumption, PTL DEF ListSpec

\* The two parts live side by side, and each step is a step of one of them.
THEOREM DashboardImplementsParts == DashboardSpec => CheckSpec /\ ListSpec
<1>1. DashboardInit => CheckInit /\ ListInit
  BY DEF DashboardInit
<1>2. [DashboardNext]_dashboardVars => [CheckNext]_fleetCheckVars /\ [ListNext]_listPageVars
  <2>1. FleetCheckStep => CheckNext /\ UNCHANGED listPageVars
    BY DEF FleetCheckStep
  <2>2. ListStep => ListNext /\ UNCHANGED fleetCheckVars
    BY DEF ListStep
  <2>3. UNCHANGED dashboardVars => UNCHANGED fleetCheckVars /\ UNCHANGED listPageVars
    BY DEF dashboardVars
  <2> QED
    BY <2>1, <2>2, <2>3 DEF DashboardNext
<1> QED
  BY <1>1, <1>2, PTL DEF DashboardSpec, CheckSpec, ListSpec

\* So every state of the two is of the types that both name.
THEOREM DashboardTypes == DashboardSpec => []DashboardTypeOK
<1>1. CheckTypeOK /\ ListTypeOK => DashboardTypeOK
  BY DEF DashboardTypeOK
<1> QED
  BY <1>1, DashboardImplementsParts, CheckTypes, ListTypes, PTL

-----------------------------------------------------------------------------
\* A behaviour of the whole tab is one of the half that it is about, and what the
\* user edits is at rest or does what Browser says: what is proved of the halves
\* holds in the tab.
THEOREM TabImplementsHalves ==
    FairTabSpec => /\ half = "streams" => StreamsSpec
                   /\ half = "dashboard" => DashboardSpec
                   /\ BrowserSpec
<1> DEFINE Of(h) == half = h
<1>1. TabInit => StreamsInit /\ DashboardInit /\ BrowserInit
  BY DEF TabInit
<1>2. Of("streams") /\ [TabNext]_tabVariables => Of("streams")' /\ [StreamsNext]_streamsVars
  <2> SUFFICES ASSUME half = "streams", [TabNext]_tabVariables
               PROVE  half' = "streams" /\ [StreamsNext]_streamsVars
    OBVIOUS
  <2>1. CASE StreamsHalf
    BY <2>1 DEF StreamsHalf
  <2>2. ~DashboardHalf /\ ~BrowserHalf
    BY DEF DashboardHalf, BrowserHalf
  <2>3. CASE UNCHANGED tabVariables
    BY <2>3 DEF tabVariables, streamsOwnVars, streamsVars, vars
  <2> QED
    BY <2>1, <2>2, <2>3 DEF TabNext
<1>3. Of("dashboard") /\ [TabNext]_tabVariables
        => Of("dashboard")' /\ [DashboardNext]_dashboardVars
  <2> SUFFICES ASSUME half = "dashboard", [TabNext]_tabVariables
               PROVE  half' = "dashboard" /\ [DashboardNext]_dashboardVars
    OBVIOUS
  <2>1. CASE DashboardHalf
    BY <2>1 DEF DashboardHalf
  <2>2. ~StreamsHalf /\ ~BrowserHalf
    BY DEF StreamsHalf, BrowserHalf
  <2>3. CASE UNCHANGED tabVariables
    BY <2>3 DEF tabVariables, dashboardOwnVars, dashboardVars, fleetCheckVars
  <2> QED
    BY <2>1, <2>2, <2>3 DEF TabNext
<1>4. [TabNext]_tabVariables => [BrowserNext]_browserVars
  BY DEF TabNext, StreamsHalf, DashboardHalf, BrowserHalf, tabVariables
<1> QED
  BY <1>1, <1>2, <1>3, <1>4, PTL
     DEF FairTabSpec, TabSpec, StreamsSpec, DashboardSpec, BrowserSpec
=============================================================================
