----------------------------- MODULE FleetModal -----------------------------
(***************************************************************************)
(* The dialogs that run a fleet operation over a WebSocket, as the browser *)
(* tab sees it: UpgradeAllModal, AutoremoveAllModal and RollingRebootModal *)
(* of src/frontend/src/components, with the Dashboard that mounts them and *)
(* the bell.  The server's side of the socket is the sequence of messages  *)
(* the handlers of routers/upgrades.py may send, one server at a time, and *)
(* a connection that may end between any two of them.                      *)
(*                                                                         *)
(* A behaviour is about one kind of dialog, chosen at the start: the three *)
(* share no state but the bell, where each has an id of its own.           *)
(***************************************************************************)
EXTENDS JobStore, FiniteSets

CONSTANTS
    Servers,        \* the servers the dashboard may offer
    MaxRuns         \* bound: runs started in one behaviour

Kinds == {"upgrade-all", "autoremove-all", "reboot-all"}

ASSUME FleetModalAssumption ==
    /\ IsFiniteSet(Servers)
    /\ Kinds \subseteq JobIds
    /\ ListCap \in Nat \ {0}
    /\ MaxRuns \in Nat

VARIABLES
    kind,           \* the kind of this behaviour
    page,           \* "dashboard", or "other" when it is not mounted
    view,           \* of the dialog: "closed", "form", "live" or "done"
    hidden,         \* the upgrade dialog is minimized
    targets,        \* runServers: the servers of the run, fixed at start()
    chip,           \* progress: the status shown for each server
    pending,        \* pendingRef: servers yet to report (upgrade, autoremove)
    completed,      \* completedIdsRef: servers that reported (reboot)
    aborted,        \* abortedRef with its reason: "no", "cancelled", "failure"
    ticking,        \* waitTickRef: the countdown between two batches
    stop,           \* handleStop: "no", "confirming", "requested"
    runCancelled,   \* the fleet message said the stop was honoured
    remote,         \* what the server's side has done for each server
    heard,          \* the cancel frame has reached the server's side
    said,           \* the fleet's own last message has been sent
    left,           \* runs the tab has left that still go on at the server
    card,           \* serverTasks: the last list had a task of this kind
    leaving,        \* sockets closed by an unmount, their onclose still due,
                    \* that will report a failure when it fires
    runs            \* runs started, bounded by MaxRuns

remoteVars == <<remote, heard, said>>
dialogVars == <<targets, chip, pending, completed, aborted, ticking, stop, runCancelled>>
tabVars == <<leaving, left, card>>
vars == <<kind, page, view, hidden, dialogVars, remoteVars, tabVars, bell, runs>>

Reported == {"ok", "failed", "skipped", "cancelled"}

\* The final statuses of a chip, the same set under two names in the code.
Terminal == {"done", "error", "skipped", "cancelled"}

Chip == {"pending", "running"} \union Terminal
Remote == {"out", "queued", "working", "failing"} \union Reported

TypeOK ==
    /\ kind \in Kinds
    /\ page \in {"dashboard", "other"}
    /\ view \in {"closed", "form", "live", "done"}
    /\ hidden \in BOOLEAN
    /\ targets \subseteq Servers
    /\ chip \in [Servers -> Chip]
    /\ pending \in Int
    /\ completed \subseteq Servers
    /\ aborted \in {"no", "cancelled", "failure"}
    /\ ticking \in BOOLEAN
    /\ stop \in {"no", "confirming", "requested"}
    /\ runCancelled \in BOOLEAN
    /\ remote \in [Servers -> Remote]
    /\ heard \in BOOLEAN
    /\ said \in BOOLEAN
    /\ left \in Nat
    /\ card \in BOOLEAN
    /\ leaving \in Nat
    /\ BellType(bell)
    /\ runs \in 0..MaxRuns

Init ==
    /\ kind \in Kinds
    /\ page = "dashboard"
    /\ view = "closed"
    /\ hidden = FALSE
    /\ targets = {}
    /\ chip = [s \in Servers |-> "pending"]
    /\ pending = 0
    /\ completed = {}
    /\ aborted = "no"
    /\ ticking = FALSE
    /\ stop = "no"
    /\ runCancelled = FALSE
    /\ remote = [s \in Servers |-> "out"]
    /\ heard = FALSE
    /\ said = FALSE
    /\ leaving = 0
    /\ left = 0
    /\ card = FALSE
    /\ bell = EmptyBell
    /\ runs = 0

-----------------------------------------------------------------------------
(***************************************************************************)
(* The dashboard around the dialog.                                        *)
(***************************************************************************)

\* The tile, the toolbar button and the bulk bar open the dialog; opening
\* the upgrade dialog also brings a minimized one back.
OpenDialog ==
    /\ page = "dashboard"
    /\ \/ view = "closed"
       \/ kind = "upgrade-all"
    /\ view' = IF view = "closed" THEN "form" ELSE view
    /\ hidden' = FALSE
    /\ UNCHANGED <<kind, page, dialogVars, remoteVars, tabVars, bell, runs>>

\* A bell entry with an action first goes to the dashboard, then opens the
\* dialog there: the one that is mounted, or else a new one.
RestoreFromBell ==
    /\ kind = "upgrade-all"
    /\ StatusIn(bell, kind) # "none"
    /\ page' = "dashboard"
    /\ view' = IF view = "closed" THEN "form" ELSE view
    /\ hidden' = FALSE
    /\ UNCHANGED <<kind, dialogVars, remoteVars, tabVars, bell, runs>>

\* A finished job's timer takes the id out of the list.
BellTimer ==
    /\ bell.timers[kind] > 0
    /\ bell' = TimerFires(bell, kind)
    /\ UNCHANGED <<kind, page, view, hidden, dialogVars, remoteVars, tabVars, runs>>

\* What the close handler of the socket will find when the tab itself closes
\* it: a run that has not been heard to the end.
Unheard ==
    IF kind = "reboot-all" THEN aborted = "no" /\ completed # targets
                           ELSE pending > 0

\* Leaving the dashboard unmounts the dialog, which closes its socket; the
\* run goes on at the server.
Navigate ==
    /\ page = "dashboard"
    /\ page' = "other"
    /\ view' = "closed"
    /\ hidden' = FALSE
    /\ leaving' = IF view = "live" /\ Unheard THEN leaving + 1 ELSE leaving
    /\ left' = IF view = "live" THEN left + 1 ELSE left
    /\ UNCHANGED <<kind, dialogVars, remoteVars, card, bell, runs>>

ComeBack ==
    /\ page = "other"
    /\ page' = "dashboard"
    /\ UNCHANGED <<kind, view, hidden, dialogVars, remoteVars, tabVars, bell, runs>>

\* Mutant: the close handler of a dialog that is gone does nothing.
LeftSocketClosesSilently ==
    /\ leaving > 0
    /\ leaving' = leaving - 1
    /\ UNCHANGED <<kind, page, view, hidden, dialogVars, remoteVars, left, card, bell, runs>>

\* The onclose of a socket an unmounted dialog left: it still writes to the
\* bell, under the id of its kind.
LeftSocketCloses ==
    /\ leaving > 0
    /\ leaving' = leaving - 1
    /\ bell' = UpdateJob(bell, kind, "error")
    /\ UNCHANGED <<kind, page, view, hidden, dialogVars, remoteVars, left, card, runs>>

\* A run that was left ends at the server.
LeftRunEnds ==
    /\ left > 0
    /\ left' = left - 1
    /\ UNCHANGED <<kind, page, view, hidden, dialogVars, remoteVars, leaving, card,
                   bell, runs>>

\* hydrateFromServer, every 15 s on the dashboard: the running and the queued
\* tasks as one list.  A request that fails leaves the list as it was.
Hydrate ==
    /\ page = "dashboard"
    /\ card' = (left > 0 \/ view = "live")
    /\ UNCHANGED <<kind, page, view, hidden, dialogVars, remoteVars, leaving, left,
                   bell, runs>>

\* The card "in progress on the server" of this kind, with its Reattach.
ReattachShown ==
    /\ page = "dashboard"
    /\ VisibleServerTasks(bell, IF card THEN {kind} ELSE {}) # {}

\* A reload drops every job, socket and dialog of the tab.
Reload ==
    /\ page' = "dashboard"
    /\ view' = "closed"
    /\ hidden' = FALSE
    /\ leaving' = 0
    /\ left' = IF view = "live" THEN left + 1 ELSE left
    /\ card' = FALSE
    /\ bell' = Rehydrate(bell)
    /\ UNCHANGED <<kind, dialogVars, remoteVars, runs>>
-----------------------------------------------------------------------------
(***************************************************************************)
(* The dialog's own controls.                                              *)
(***************************************************************************)

\* The bodies of the three dialogs: the form before the start, with the servers
\* and the start button, and the chips of a run, with the stop button.
UpgradeForm == kind = "upgrade-all" /\ view = "form"
AutoremoveForm == kind = "autoremove-all" /\ view = "form"
RebootForm == kind = "reboot-all" /\ view = "form"
UpgradeChips == kind = "upgrade-all" /\ view = "live" /\ ~hidden
AutoremoveChips == kind = "autoremove-all" /\ view = "live"
RebootChips == kind = "reboot-all" /\ view = "live"

\* Their headers: closed only before the start or after the end.
UpgradeHeader == kind = "upgrade-all" /\ view \in {"form", "done"}
AutoremoveHeader == kind = "autoremove-all" /\ view \in {"form", "done"}
RebootHeader == kind = "reboot-all" /\ view \in {"form", "done"}

CanClose == page = "dashboard" /\ (UpgradeHeader \/ AutoremoveHeader \/ RebootHeader)
CanStop == stop = "no" /\ (UpgradeChips \/ AutoremoveChips \/ RebootChips)

\* start(): the targets are fixed, every counter is reset, the job is added
\* and the socket opened with the targets' ids.
Begin(T) ==
    /\ page = "dashboard"
    /\ runs < MaxRuns
    /\ view' = "live"
    /\ targets' = T
    /\ chip' = [s \in Servers |-> "pending"]
    /\ aborted' = "no"
    /\ stop' = "no"
    /\ runCancelled' = FALSE
    /\ remote' = [s \in Servers |-> IF s \in T THEN "queued" ELSE "out"]
    /\ heard' = FALSE
    /\ said' = FALSE
    /\ bell' = AddJob(bell, kind)
    /\ runs' = runs + 1
    /\ UNCHANGED <<kind, page, hidden, leaving, left, card>>

StartUpgrade(T) ==
    /\ UpgradeForm
    /\ Begin(T)
    /\ pending' = Cardinality(T)
    /\ UNCHANGED <<completed, ticking>>

StartAutoremove(T) ==
    /\ AutoremoveForm
    /\ Begin(T)
    /\ pending' = Cardinality(T)
    /\ UNCHANGED <<completed, ticking>>

StartReboot(T) ==
    /\ RebootForm
    /\ Begin(T)
    /\ completed' = {}
    /\ ticking' = FALSE
    /\ UNCHANGED pending

\* handleClose and Escape: only before the start or after the end.
CloseDialog ==
    /\ CanClose
    /\ view' = "closed"
    /\ hidden' = FALSE
    /\ UNCHANGED <<kind, page, dialogVars, remoteVars, tabVars, bell, runs>>

Minimize ==
    /\ UpgradeChips
    /\ hidden' = TRUE
    /\ UNCHANGED <<kind, page, view, dialogVars, remoteVars, tabVars, bell, runs>>

\* handleStop up to its confirmation.
AskStop ==
    /\ CanStop
    /\ stop' = "confirming"
    /\ UNCHANGED <<kind, page, view, hidden, targets, chip, pending, completed, aborted,
                   ticking, runCancelled, remoteVars, tabVars, bell, runs>>

\* The rest of it: the confirmation may be answered after the run has ended.
AnswerStop(ok) ==
    /\ stop = "confirming"
    /\ stop' = IF ok THEN "requested" ELSE "no"
    /\ UNCHANGED <<kind, page, view, hidden, targets, chip, pending, completed, aborted,
                   ticking, runCancelled, remoteVars, tabVars, bell, runs>>

\* The frame arrives; a socket that is closed drops it.
CancelArrives ==
    /\ view = "live"
    /\ stop = "requested"
    /\ ~heard
    /\ heard' = TRUE
    /\ UNCHANGED <<kind, page, view, hidden, dialogVars, remote, said, tabVars, bell, runs>>

-----------------------------------------------------------------------------
(***************************************************************************)
(* The messages of the upgrade and autoremove sockets.  The server sends   *)
(* one final message for each server, and output may follow it (hooks, the *)
(* reboot notice).                                                         *)
(***************************************************************************)

\* Mutant: output after the final message puts the spinner back.
LiveStatusAlways(old) == "running"

\* liveStatus: output and status never take a final status back.
LiveStatus(old) == IF old \in Terminal THEN old ELSE "running"

\* Mutant: a server that was skipped is not counted as one that reported.
FinalMessageOfRuns(s, status, jobStatus) ==
    /\ chip' = [chip EXCEPT ![s] = status]
    /\ pending' = IF status = "skipped" THEN pending ELSE pending - 1
    /\ bell' = IF pending' <= 0 THEN UpdateJob(bell, kind, jobStatus) ELSE bell
    /\ UNCHANGED <<targets, completed, aborted, ticking, stop, runCancelled>>

\* A final message: the chip, the count of servers still to report, and the
\* bell when it was the last of them.
FinalMessage(s, status, jobStatus) ==
    /\ chip' = [chip EXCEPT ![s] = status]
    /\ pending' = pending - 1
    /\ bell' = IF pending' <= 0 THEN UpdateJob(bell, kind, jobStatus) ELSE bell
    /\ UNCHANGED <<targets, completed, aborted, ticking, stop, runCancelled>>

\* One server's message m, in each of the two handlers.
StreamMessage(s, m) ==
    \/ /\ m = "output"
       /\ chip' = [chip EXCEPT ![s] = LiveStatus(@)]
       /\ UNCHANGED <<targets, pending, completed, aborted, ticking, stop, runCancelled, bell>>
    \/ m = "ok" /\ FinalMessage(s, "done", "complete")
    \/ m = "failed" /\ FinalMessage(s, "error", "complete")
    \/ m = "skipped" /\ FinalMessage(s, "skipped", "complete")
    \/ m = "cancelled" /\ FinalMessage(s, "cancelled", "complete")
    \/ m = "error" /\ FinalMessage(s, "error", "error")

UpgradeMessage(s, m) == kind = "upgrade-all" /\ StreamMessage(s, m)

AutoremoveMessage(s, m) == kind = "autoremove-all" /\ StreamMessage(s, m)

\* The fleet's own last message, sent when a stop was honoured.
FleetCancelled ==
    /\ view = "live"
    /\ kind \in {"upgrade-all", "autoremove-all"}
    /\ heard
    /\ \A s \in targets : remote[s] \notin {"queued", "working"}
    /\ ~said
    /\ said' = TRUE
    /\ runCancelled' = TRUE
    /\ UNCHANGED <<kind, page, view, hidden, targets, chip, pending, completed, aborted,
                   ticking, stop, remote, heard, tabVars, bell, runs>>

-----------------------------------------------------------------------------
(***************************************************************************)
(* The messages of the rolling reboot's socket.  A server that failed      *)
(* sends 'error' and then 'complete', so reports are kept as a set of ids. *)
(***************************************************************************)
RebootMessage(s, m) ==
    /\ kind = "reboot-all"
    /\ chip' = [chip EXCEPT ![s] =
          CASE m = "output"    -> LiveStatus(@)
            [] m = "error"     -> "error"
            [] m = "ok"        -> IF @ = "error" THEN @ ELSE "done"
            [] m = "failed"    -> "error"
            [] m = "skipped"   -> "skipped"
            [] m = "cancelled" -> "cancelled"]
    /\ completed' = IF m = "output" THEN completed ELSE completed \union {s}
    /\ UNCHANGED <<targets, pending, aborted, ticking, stop, runCancelled, bell>>

Working == {s \in targets : remote[s] \in {"working", "failing"}}

\* 'abort' between two batches: a stop that was heard, or a batch that failed
\* or left errors in the history.  Only the first of them is sent.
RebootAbort(reason) ==
    /\ kind = "reboot-all"
    /\ view = "live"
    /\ ~said
    /\ aborted = "no"
    /\ Working = {}
    /\ \/ reason = "cancelled" /\ heard /\ \E s \in targets : remote[s] = "queued"
       \/ reason = "failure" /\ \E s \in targets : remote[s] \in {"ok", "failed"}
    /\ aborted' = reason
    /\ ticking' = FALSE
    /\ bell' = UpdateJob(bell, kind, IF reason = "cancelled" THEN "complete" ELSE "error")
    /\ UNCHANGED <<kind, page, view, hidden, targets, chip, pending, completed, stop,
                   runCancelled, remoteVars, tabVars, runs>>

\* The countdown between two batches, restarted by each batch_wait.
BatchWait ==
    /\ kind = "reboot-all"
    /\ view = "live"
    /\ ~said
    /\ aborted = "no"
    /\ Working = {}
    /\ \E s \in targets : remote[s] = "ok"
    /\ \E s \in targets : remote[s] = "queued"
    /\ ticking' = TRUE
    /\ UNCHANGED <<kind, page, view, hidden, targets, chip, pending, completed, aborted,
                   stop, runCancelled, remoteVars, tabVars, bell, runs>>

CountdownEnds ==
    /\ ticking
    /\ ticking' = FALSE
    /\ UNCHANGED <<kind, page, view, hidden, targets, chip, pending, completed, aborted,
                   stop, runCancelled, remoteVars, tabVars, bell, runs>>

\* The fleet's own 'complete': after an abort it leaves the bell as it is.
RebootComplete ==
    /\ kind = "reboot-all"
    /\ view = "live"
    /\ ~said
    /\ Working = {}
    /\ aborted = "no" => \A s \in targets : remote[s] # "queued"
    /\ said' = TRUE
    /\ bell' = IF aborted = "no" THEN UpdateJob(bell, kind, "complete") ELSE bell
    /\ UNCHANGED <<kind, page, view, hidden, dialogVars, remote, heard, tabVars, runs>>

-----------------------------------------------------------------------------
(***************************************************************************)
(* The server's side, and what the dialog does on each of its messages.    *)
(***************************************************************************)
Advance(s, from, to) == remote[s] \in from /\ remote' = [remote EXCEPT ![s] = to]

\* What the server's side may say of s now.  A rolling reboot starts no server
\* after one failed, and drops the rest only after its abort.
MaySay(s, m) ==
    CASE m = "output"    -> \/ /\ Advance(s, {"queued"}, "working")
                               /\ kind = "reboot-all" =>
                                     /\ aborted = "no"
                                     /\ (\E r \in targets : remote[r] = "failed") => Working # {}
                            \/ remote[s] \in {"working", "ok", "failed"} /\ UNCHANGED remote
      [] m = "ok"        -> Advance(s, {"working"}, "ok")
      [] m = "failed"    -> Advance(s, {"working", "failing"}, "failed")
      [] m = "skipped"   -> Advance(s, {"queued"}, "skipped")
      [] m = "cancelled" -> /\ heard
                            /\ kind = "reboot-all" => aborted # "no"
                            /\ Advance(s, {"queued"}, "cancelled")
      [] m = "error"     -> IF kind = "reboot-all"
                              THEN Advance(s, {"working"}, "failing")
                              ELSE Advance(s, {"queued", "working"}, "failed")

Message(s) ==
    /\ view = "live"
    /\ ~said
    /\ s \in targets
    /\ \E m \in {"output", "ok", "failed", "skipped", "cancelled", "error"} :
          /\ MaySay(s, m)
          /\ UpgradeMessage(s, m) \/ AutoremoveMessage(s, m) \/ RebootMessage(s, m)
    /\ UNCHANGED <<kind, page, view, hidden, heard, said, tabVars, runs>>

\* The socket's close handlers.  The upgrade and autoremove dialogs go by the
\* count: what has not reported is shown as failed.
Stragglers(set) == [s \in Servers |-> IF s \in set /\ chip[s] \notin Terminal
                                        THEN "error" ELSE chip[s]]

\* Mutant: the stragglers are shown as failed, and the bell is not told.
StreamClosedSilently ==
    /\ view' = "done"
    /\ IF pending > 0
         THEN pending' = 0 /\ chip' = Stragglers(targets)
         ELSE UNCHANGED <<pending, chip>>
    /\ UNCHANGED <<completed, ticking, bell>>

StreamClosed ==
    /\ view' = "done"
    /\ IF pending > 0
         THEN /\ pending' = 0
              /\ chip' = Stragglers(targets)
              /\ bell' = UpdateJob(bell, kind, "error")
         ELSE UNCHANGED <<pending, chip, bell>>
    /\ UNCHANGED <<completed, ticking>>

UpgradeClosed == kind = "upgrade-all" /\ StreamClosed

AutoremoveClosed == kind = "autoremove-all" /\ StreamClosed

\* The reboot dialog goes by the ids, and not after an abort.
RebootClosed ==
    /\ kind = "reboot-all"
    /\ view' = "done"
    /\ ticking' = FALSE
    /\ IF aborted = "no" /\ completed # targets
         THEN /\ chip' = Stragglers(targets)
              /\ bell' = UpdateJob(bell, kind, "error")
         ELSE UNCHANGED <<chip, bell>>
    /\ UNCHANGED <<pending, completed>>

\* The end of the run or of the connection.  A server whose task raised never
\* reports; a connection may end at any time.
Closed ==
    /\ view = "live"
    /\ UpgradeClosed \/ AutoremoveClosed \/ RebootClosed
    /\ UNCHANGED <<kind, page, hidden, targets, aborted, stop, runCancelled, remoteVars,
                   tabVars, runs>>

Next ==
    \/ OpenDialog
    \/ RestoreFromBell
    \/ BellTimer
    \/ Navigate
    \/ ComeBack
    \/ LeftSocketCloses
    \/ LeftRunEnds
    \/ Hydrate
    \/ Reload
    \/ \E T \in (SUBSET Servers) \ {{}} : StartUpgrade(T)
    \/ \E T \in (SUBSET Servers) \ {{}} : StartAutoremove(T)
    \/ \E T \in (SUBSET Servers) \ {{}} : StartReboot(T)
    \/ CloseDialog
    \/ Minimize
    \/ AskStop
    \/ \E ok \in BOOLEAN : AnswerStop(ok)
    \/ CancelArrives
    \/ \E s \in Servers : Message(s)
    \/ FleetCancelled
    \/ \E reason \in {"cancelled", "failure"} : RebootAbort(reason)
    \/ BatchWait
    \/ CountdownEnds
    \/ RebootComplete
    \/ Closed

\* Every socket closes: the server's handler closes it when the run is over,
\* and a lost connection is closed by the browser.
Fairness == WF_vars(Closed) /\ WF_vars(LeftSocketCloses) /\ WF_vars(Hydrate)

Spec == Init /\ [][Next]_vars /\ Fairness

-----------------------------------------------------------------------------
(***************************************************************************)
(* Properties.                                                             *)
(***************************************************************************)

\* The count behind the straggler repair is the number of chips that have not
\* settled, whatever output follows a server's final message.
PendingCounts ==
    view = "live" /\ kind # "reboot-all" =>
        pending = Cardinality({s \in targets : chip[s] \notin Terminal})

\* A chip never says better than what the server's side did: a tick only for
\* a server that finished well, and every result that was heard is shown.
ChipTells ==
    view \in {"live", "done"} =>
        \A s \in targets :
            /\ chip[s] = "done" <=> remote[s] = "ok"
            /\ remote[s] \in {"failed", "failing"} => chip[s] = "error"
            /\ remote[s] = "skipped" <=> chip[s] = "skipped"
            /\ remote[s] = "cancelled" <=> chip[s] = "cancelled"

\* When the run is over the bell agrees with the dialog: it no longer shows the
\* job as running (a reboot excepted: its dialog leaves the job when the socket
\* breaks), and it shows it as complete only if every server reported or the stop
\* was honoured.
BellAgrees ==
    view = "done" =>
        /\ kind # "reboot-all" => StatusIn(bell, kind) # "running"
        /\ StatusIn(bell, kind) = "complete" =>
              \/ aborted = "cancelled"
              \/ \A s \in targets : remote[s] \in Reported

\* A run the tab has left is offered again once the dashboard is back and
\* stays: its card is not hidden behind the job of the socket that was left.
Reattachable ==
    kind # "reboot-all" =>
        (<>[](left > 0 /\ page = "dashboard" /\ view # "live") => []<>ReattachShown)
=============================================================================
