# apt-ui in TLA+

apt-ui upgrades fleets of Debian servers over SSH. Its backend is FastAPI (one process,
one asyncio event loop, SQLite), its frontend a React single-page application that follows
long operations over WebSockets and polls. These modules model the places in which
coroutines, admins, restarts, late answers and a user who goes elsewhere meet: staged
rollouts, the upgrade of a ring, calls that run apt, fleet runs with their task rows,
maintenance windows; and in the browser the dialogs of fleet operations, the page of one
server, the fleet check, the server list, the settings and the editor of apt sources.
TLC checks them on small instances and TLAPS proves what matters most for every instance.

## What a step is

**Backend.** All state changes happen on one event loop: nothing interleaves between two
awaits and everything may at one. An action ends at an await on the database or the
network. Commits are atomic and durable. Coroutines, APScheduler jobs, locks, sockets and
requests in flight die with the process. ORM sessions write the columns that were assigned
and nothing checks that a row is still what was read, so a read-modify-write across two
awaits is two actions.

**Browser.** A tab has one thread too. An action is one event handler, one effect or one
continuation of a promise, run to its end, with the state updates React applies after it.
Requests, sockets, timers and answers are on their way until they are served, in any
order. What a closure captured is modelled where it matters (which component a socket or an
answer belongs to). An unmounted component's handlers still run; what they may change is
what outlives it: the bell, the server, the URL. The models keep no text, no layout and no
numbers of seconds: a timer may fire at any later moment.

## Inventory

| Part | State | Operations | Hard because | Correct when |
| --- | --- | --- | --- | --- |
| Rollout driver (`rollout.py`, `routers/rollouts.py`) | `rollouts`, `rollout_steps`, a job per due ring | start, run a ring, promote, pause, resume, abort, reconcile | admins race with jobs; two commits per operation; restarts | rings run one at a time and in order; the gate is never passed by accident; a running rollout ends |
| Ring (`_execute_step`) | task, baseline, workers | canary, gather, history and unit gate | failures late, of others, or unseen | a ring passes only if nothing of it failed |
| Upgrade manager (`upgrade_manager.py`) | `_upgrade_locks`, `_upgrade_running`, `update_history` | upgrade, selective upgrade, autoremove; template applies | two exclusion mechanisms; exceptions | one apt per server; nothing stays locked |
| Fleet streams (`routers/upgrades.py`) | semaphore, cancel event, listener, watcher, histories | upgrade-all, autoremove-all, reboot-all, single upgrade, REST starts | cancels on two ways, disconnects, exceptions | the task ends once, after its workers, with the right result |
| Task queue (`task_queue.py`, `routers/tasks.py`) | `tasks` | create, start, count, log, cancel, finish, reconcile | unlocked read-modify-write; restarts | terminal statuses stand |
| Maintenance windows (`routers/maintenance.py`) | `maintenance_windows` | is a moment blocked, next opening | midnight, weekday bits, allow against deny | upgrades run only when allowed |
| Scheduler (`scheduler.py`) | cron jobs, the configuration row | check all, auto-upgrade, reboot check, ping, purge | overlaps with everything above | as its parts |
| Bell and fleet dialogs (`useJobStore.ts`, `UpgradeAllModal`, `AutoremoveAllModal`, `RollingRebootModal`) | list of jobs with timers; chips, counts, stop, socket | start, messages, stop, minimize, leave, reload, reattach | messages and closes in any order; ids shared by runs; components that are gone | chips, count and bell tell what the server did; a run that was left is offered again |
| Dashboard and server list (`Dashboard.tsx`, `Layout.tsx`, `useServers.ts`, the Servers tab of `Settings.tsx`) | progress of the fleet check, its banner and job; list, filters, selection | check all and one, two pollers, loads, bulk actions | pollers with different ideas of failure; overlapping loads | banner and job end; the list comes to show what is stored |
| Server page (`ServerDetail.tsx`) | row, check, streams, reboot, package list, shell | load, check, upgrade, reboot and follow, hold, select, connect | late answers and closes, effects that run again | the guard is not stale; ticks are on screen; one shell; what is followed ends |
| Settings (`Settings.tsx`) | tab, URL, question about unsaved edits, drafts, two forms over one row | open, type, save, discard, change tab | a question is replaced while it is open; two forms send one row | an answer applies to what was asked; no save is refused for what its tab does not show |
| Editor of apt sources (`AptReposTab`, `routers/apt_repos.py`) | files, edits, review, override; files and backups at the server | type, review, override, save, restore, delete, create, reload | answers change the selection under an open review; a save fails half way | only what passed the review is written; the diff shows all of it |
| Package watch, login, update checks, SSH, notifications, CVE and EOL data, reports, inventory, other pages | rows of their own | CRUD, probes, formatting, downloads | little concurrency, or I/O | see Not modelled |

`PROJECT.json` lists every part with its status, and the hazards with their lines.

## Modules

`*Proofs` modules hold the theorems, `MC*` modules name model values. `Lists` is the
filter of lists that the bell and the diff are built with.

    StagedRollout <== Rollout            what a rollout promises, and the driver
    UpgradeManager <- RingRun, FleetRun  calls that run apt, and who makes them
    Windows                              when an upgrade may start
    JobStore <- FleetModal, FleetCheck   the bell, and who writes to it
    Streams   = FleetModal + ServerPage
    Dashboard = FleetCheck + ServerList
    Browser   = Settings + ServerTabs + AptRepos + SourceReview
    Tab       = Streams + Dashboard + Browser

(`<==` is refined by, `<-` is extended by.) The last four compose parts of the tab that
share nothing but the bell, where each has ids of its own: variables (`drive`, `topic`,
`part`, `half`) say which one a behaviour is about, and the others rest. `Browser` also
keeps apart what meets in nothing but a guard: drafts and forms of the settings; packages,
shell and row of a server; a user who stays with one file and one who goes from file to
file. `StreamsImplementsParts`, `DashboardImplementsParts`, `BrowserImplementsParts` and
`TabImplementsHalves` prove that a composition implements its parts, so what is proved of a
part holds in it.

### Rollout and StagedRollout

`rollout` and `step` are `Rollout.status` and `RolloutStep.status`; `jobs` the armed
DateTriggers; `exec[s]` the place of the coroutine of ring `s` in `_execute_step`;
`req[a]` that of an admin request in `promote_now`, `pause_rollout`, `resume_rollout` or
`abort_rollout`; `starter` that of `start_auto_upgrade_rollout`. `trigger[s]` is a history
variable: whether its predecessor or an admin made the ring due. An action is the code from
one await to the next: `promote_now` is `AskPromote`, `CheckRunning`, `PickNext`,
`CommitNext`, `ArmRequested`. Refused requests leave no trace. A due job may fire at any
moment, which also covers `ring_delay_hours`.

Coroutines meet at every await, as in the program. The constant `Serial` takes the meetings
with admin requests away: a request, once begun, is served to its end before any other
coroutine reaches the database. Nothing in the code ensures that; its comments reason as if
it were so. What holds of requests at any moment, and what only of requests in turn:

| Property | Requests that interleave with the driver and each other | Served in turn (`Serial`) |
| --- | --- | --- |
| `HaltIsFinal` | holds | holds |
| `OneRingAtATime`, `GateHolds`, `ResultsStand`, `ImplementsStaged` | hold while nobody promotes or resumes; `OneRingAtATime` fails with a promotion (`rollout_promote_race`) | hold |
| `NoRingForgotten` | checked with pauses and aborts | not checked |
| `RunningEnds` | fails: see the strandings under Observations | holds |

`StagedRollout` has a step for the write that makes the difference, `LatePause`: a pause
that was accepted while the rollout was running and is stored after it has ended. It is
taken only if requests interleave. `HaltIsFinal` is the abort's promise as the code keeps
it: a rollout that is aborted, with no request in flight that was checked before, stays
aborted, whatever jobs, coroutines, later requests and restarts do. `RunningEnds` is stated
with resumes, and excepts what the code does not do: a restart, an abort that could not be
recorded (`AbortInDoubt`), and a last ring that ended under a pause (`EndedPaused`), after
which a resume sets the rollout running with nothing left to complete it.

### RingRun

`stage` is the place of `_execute_step`; `worker[s]` that of `_do`; `units[s]` the failed
systemd units of a server, told apart only by who broke them; `base` and `worse` the
baseline and the verdict; `old` the calls whose row started more than an hour ago, which is
all the gate sees of time. A probe that fails reports no unit (`Probed`). A ring without
servers passes at once in the code and is not modelled.

### UpgradeManager

`call[c]` is a call with its kind, `row[c]` its `UpdateHistory.status`, `claimed` the set
`_upgrade_running`, `lock` the owners of `_upgrade_locks`. Managed calls check and take the
running set in one step and then enter the lock, at once if it is free and nobody waits for
it (`asyncio.Lock`). Hooks, snapshots, reboots, notifications and the check afterwards
touch none of this state, and what they may fail with is caught in the code.

### FleetRun

`task` is the row of `tasks`; `main` the coroutine of `ws_upgrade_all`; `worker[s]` its
`_do_tracked`; `seen` what `increment_task_progress` has read; `event`, `listener` and
`watcher` the cancel event and the two coroutines that set it; `asker` a
`POST /api/tasks/{id}/cancel`. `ReturnExceptions` tells `ws_upgrade_all` from
`ws_autoremove_all`, whose gather does not keep exceptions. The listener stops at its first
cancel and never flags the row: the function binds `logging` as a local much later, so the
first use of it raises.

### Windows

`windows` is the table, `now` a minute of the week, `queue` the upgrades put off with the
minutes they have left, `grant[s]` the ground on which an upgrade was let through: the gate
(`window_block_reason`), an override, the nightly job with its own helper (`ActiveWindow`),
a REST start that asks nothing, or the job of an upgrade that was put off. `Permitted` is a
reference in terms of sets of moments: what the allow windows cover, less what the deny
windows cover. What a window covers (`Covered`) is what the calendar export and the week
grid draw: the hours after midnight of a window that wraps belong to the day after. The gate
tests the weekday of the moment, so the two differ in those hours; `GateAsDrawn` states that
they do not, and `windows_wrap` refutes it. The other properties except these hours
(`Settled`), and nothing else, and not those of a window that is open every day. What happens to a grant afterwards is left to the other modules: a run that
waits for a slot may begin apt when its window has closed again, as in the code. Daylight
saving is left out: the scan runs on wall-clock minutes, like the windows.

### JobStore and FleetModal

`bell` is the store: its jobs, newest first, and the removal timers due for each id. An id
names a kind of operation and not a run, and the operators keep what follows from that: a
timer removes whatever now has the id, an update writes to whatever now has it.

`FleetModal` is one dialog of a kind chosen at the start. `view` is what the dialog shows,
`targets` the servers fixed at `start()`, `chip` the statuses shown, `pending` and
`completed` the two ways in which the dialogs count (`pendingRef`, `completedIdsRef`),
`aborted` and `stop` the refs behind a stop. `remote`, `heard` and `said` are the other end
of the socket: what the handlers of `routers/upgrades.py` have done for each server and may
still say, a server at a time. `Message` is one `onmessage` with its server, `Closed` the
`onclose`, which may come between any two messages. `Navigate` and `Reload` leave runs
behind: `left` counts them, `leaving` the close events of unmounted dialogs that will still
report a failure, `card` is the last answer to `hydrateFromServer`.

### ServerPage and ServerTabs

Checks and rows of a server are numbers that grow with every change. In `ServerPage`,
`latest` is the last check at the server, `server` the one shown, `answers` the loads on
their way, `probes` the panel's looks at the package list with whether their effect was
cleaned up, `sockets` the streams not closed yet, `job` the bell's entry of this page,
`rebootState` and its timers and tests the reboot that is followed (`startRebootTracking`);
`RebootIsDriven` relates the two, so that no wait is left without a poll and no poll or load
of an earlier reboot meets a later one.
`ServerTabs` has the packages at the server (`apt`) and as the tab shows them, the reads of
the list on their way (`lists`), ticks, holds and modals; the shell's sockets by number
(`shells`), the one held (`wsRef`) and the status shown; and the edit form with its loads
and saves.

### FleetCheck and ServerList

`FleetCheck` has the one progress record of the server, which every run of a fleet check
overwrites and the first to end marks as over; the Dashboard's poller, which gives up after
three failures in a row; the Layout's, which marks the job at its first; and the checks of
one server. `starting` counts the answers to the request that starts a check, for the
Dashboard on screen, for the palette, and for Dashboards that are gone; `strays` are
intervals that the Dashboard on screen has lost the handle of. `BannerHasPoll` is the safety behind `BannerEnds`: whoever put the banner up, the
request or the interval that will take it down is still there. `ServerList` has the list as stored and as shown, the loads on their way with
what they were answered, bulk actions `Cap` requests at a time, and the two pages that use
it: the Dashboard, which polls, and the Servers tab, which loads after its own operations.

### Settings

`urlTab` and `tab` are the parameter of the URL and the tab switched to; `Shown` is the one
on screen, which is Servers where a user who is no `admin` may not see Users. `dialog` is the
question about unsaved edits (`useConfirm` keeps one; a second dismisses the first). A
draft is its state and not its text: none, open, typed into, or kept closed with its text.
`puts` are the saves of the two forms that edit one configuration row (Schedule and
Preferences), each with the whole row in it. A cron expression is good, bad or blank. A form
refuses to send its own if it is bad, and sends one that is blank; the server refuses either
for a job that is switched on (`Accepted`). `RefusedForABlank` says that this is the only
way to be refused: never for a field of the other tab. The drafts are there for the guard,
which asks whether there is one.

### AptRepos and SourceReview

A text is what the lint finds in it. `disk` and `backup` are the files at the server,
`files` what the tab has loaded, `pendingEdits` what is typed, `previewing` and `overridden`
the review and the text whose warnings were overridden (a history of the flag
`overrideWarnings`), `reading`, `saving` and `deleting` what is on its way, and how far the
server is with it. A save is served in steps, as in `write_apt_repo`: `BackUpFile` copies
the old file, best effort, so the copy may be missing or half a file; `BeginWrite` is `tee`
that truncates, `EndWrite` its end. `CommitFails` may come at any of them, or after the last
as an answer that is lost, and leaves what is done. A half-written file is "torn", with an
error of the lint, or empty. A list is read when the server serves it and may be old when
it arrives. The backend's work on a request that the browser has given up on ends with it in
the model, where it would go on to the end of a step or two. `SourceReview` is the diff
of two texts (`LineDiff`, a longest-common-subsequence table) and the rows it is cut to
(`DiffRows`), compared with their definitions over all short inputs. Tables and diffs are
recursive functions of a place in the two texts, so that they can be proved about.

## Runs

| Run | Instance | Shows |
| --- | --- | --- |
| `rollout_serial` | 2 rings, one admin with all four operations, without end, 2 restarts, aborts that cannot be recorded, `FairSerialSpec` | `GateHolds`, `RunningEnds`; the driver implements `StagedRollout` |
| `rollout_concurrent` | 3 rings, 2 admins pausing and aborting at any await, 1 restart, `FairSpec` | `OneRingAtATime`, `ResultsStand`, `HaltIsFinal`; `NoRingForgotten` over a restart; the driver implements `StagedRollout` with `LatePause` |
| `rollout_promote_race` | 2 rings, one promotion | finding: two rings run together |
| `ring_gate` | 2 servers, canary first, a rival call on the second, failing commits, passing hours, `FairSpec` | `RecentFailureStops`, `PassedMeansHealthy`, `CanaryGoesFirst`, `RingEnds` |
| `ring_slow` | 2 servers, slow upgrades | finding: a failure older than an hour is not seen |
| `fleet_upgrade_all` | 2 servers, one slot, a rival, both kinds of cancel, failing commits, restart, `FairSpec` | `OneAptPerServer`, `NothingLeaks`, `CancelStops`, `CancelHeard`, `TerminalStands`, `TaskEnds` |
| `windows_gates` | 2 days of 3 minutes, 2 rows of 36, one upgrade put off, edits at any time | `FreezeBinds`, `GrantsPermitted`, `QueuedInOpening` |
| `windows_auto_allow` | the same | finding: the nightly job ignores allow windows |
| `windows_wrap` | the same | finding: after midnight the gate is not what the week grid draws |
| `tab` | 2 servers and 2 runs of each dialog, a page with 2 checks, 2 streams, 2 reboots, 1 failed look; 2 fleet checks that may overlap, one server's check, a bell of one job, a list of 2 servers; settings as an admin or a reader with one draft or 2 saves; 2 packages, 2 reads, 3 shells; a one-line and a deb822 file, 2 writes and a reload of one file or 2 requests over both; texts of 3 lines, 7 operations | `ChipTells`, `PendingCounts`, `BellAgrees`, `GuardIsFresh`, `JobHasSocket`, `RebootIsDriven`, `BannerHasPoll`, `UrlAndTab`, `RefusedForABlank`, `TicksAreShown`, `OneShell`, `NothingBrokenSaved`, `DiffIsExact`, `RowsShowChanges` |
| `tab_endings` | the dialogs with one server and 2 runs, 2 checks and 2 reboots of a page, the fleet checks as above, a list of one server, `FairTabSpec` | `Reattachable`, `RebootEnds`, `FleetJobEnds`, `BannerEnds`, `ListSettles` |
| `sources_override` | a one-line and a deb822 file, 2 writes, 1 reload | finding: an override is applied to another file's warnings |

Types are proved and not checked. No run uses symmetry.

### Bounds, and why they are enough

Three rings are the fewest with a first, a middle and a last one; two suffice for a race of
neighbours and for what follows a ring, and are what the liveness of `rollout_serial` can be
checked with: its safety is proved for any number. Two admins are the fewest that can
overtake one another, two restarts the fewest that can hit a recovery. The admin of
`rollout_serial` is never done, so that whatever holds up the driver does so without end. One
slot for two servers makes a worker wait while the other works, which is where a cancel
bites. Two days of three minutes are the shortest week in which a window can wrap, miss a
weekday, be empty, and leave room between two others.

In the browser, two of everything that can be out (reads, shells, checks, streams, loads)
are the fewest that can overtake one another, and two runs of a dialog the fewest that share
an id. The bell keeps one job where the code keeps fifteen, so that jobs are
pushed out. One failed look, one hold and one change of
the row are enough to put each before and after everything else. Drafts of Settings share no
state but the guard, which asks whether there is one; one at a time open and one request out
is a bound on width and not on order. Two saves of a file are the fewest in which the second
backs up what the first left half-written, and a one-line and a deb822 file the fewest that
differ in what their lint refuses. Three lines are the shortest texts in which a line can
be kept between changes, and seven operations the shortest diff with a run too long to be
shown and changes around it.

Two guards stand for what a user cannot do, or what is without effect on a property: a tab
of the server page is left only while its modal and form are closed and no load of the row
is on its way (`SetView`: the form is a card of the page and not of a tab, so states in
which both are busy are products and nothing more), and a server has one check request out
at a time (the button is disabled while it spins; a page left and entered again could ask
for a second, which would be answered alike).

## Fairness

Weak fairness of what the event loop or the scheduler runs by itself: ready coroutines, due
jobs, requests that were accepted, apt (every command has a timeout), and the restart of a
dead process (the container's restart policy). In the browser: requests are answered or
fail, timers and intervals fire, sockets that are closed or broken report it, the pages'
polls go on while they are mounted. `RebootEnds` needs strong fairness of the poll's time
limit (ten minutes do pass), which is up again and again but not while a test is out, and `ListSettles` of a load
that succeeds: a server that never answers one settles nothing. No fairness of what people
or the environment may do: starting, asking, cancelling, rival calls, exceptions, crashes,
passing hours, clicks, navigation. `FairSerialSpec` adds strong fairness of the driver's
coroutines and jobs: under `Serial` they are held up by each request, and requests may come
without end, but the queue of the event loop is first in, first out, so what is ready again
and again has its turn. `RunningEnds` is stated up to the first restart, since a
restart may strand a rollout between two commits.

## Proofs

For any number of rings, admins, calls, servers, restarts, requests and messages, and for
texts and lists of any length. Each invariant below is proved from a strengthening that is
given in its module. Every safety property that a passing run checks is proved; the runs
show it on a small instance, and show that it can be broken.

- `RolloutProofs`: types under `Spec`. `OneRingAtATime`, `GateHolds` and `ResultsStand`
  under `Calm`: requests are served one at a time, or none of them promotes or resumes. The
  first is how the code's comments reason, the second the case of `rollout_concurrent`;
  without either, `rollout_promote_race` shows two rings together. Under `Calm` too, the
  driver implements `StagedRollout` (`DriverImplementsStaged`), with `LatePause` if requests
  are not served in turn. `HaltIsFinal` (`AbortStands`) is proved with no assumption on
  requests. The strengthening for the first half of `Calm` (`IInv`) is a picture of the rollout as a
  prefix of ended rings, at most one active ring, and rings that wait, with what the
  coroutine and the request in flight still rely on; the serial order of requests keeps the
  reliance true between two awaits. For the second half it is `ApartInv`, in which requests
  rely on nothing but what no pause or abort can change. `Agreed` is what the two have in
  common; the refinement goes through it and `BeforeStart`, each action a step of one ring or
  a stutter.
- `UpgradeManagerProofs`: types, `OneAptPerServer`, `FailFast` (theorem `RefusedNotQueued`),
  `NothingLeaks`. The invariant is the last two with the types: leaving the running set is
  safe because at most one managed call per server is in it.
- `FleetRunProofs`: a fleet run implements `UpgradeManager`, hence its safety; `CancelHeard`
  is inductive by itself; `CancelStops` from the fact that a worker's call is under way only
  while its worker waits for it (`Awaited`); with exceptions kept by the gather,
  `EndsAfterWorkers` and `TerminalStands`, from the place of the main coroutine related to
  the workers, through crashes too.
- `RingRunProofs`: a ring implements `UpgradeManager`; `RecentFailureStops`,
  `CanaryGoesFirst`, `EndsAfterWorkers`, from an invariant that follows each server from
  its worker to its call to its row; `PassedMeansHealthy` from one (`HealthInv`) that
  follows its units from the baseline to the verdict.
- `WindowsProofs`: types, `FreezeBinds`, `GrantsPermitted`, from `GateIsReference`: at any
  moment, the hours after midnight of a window that wraps excepted, the row-by-row gate blocks
  what the reference does not permit. `QueuedInOpening`
  from `SameMoment`: the clock wraps at the end of the week and the countdown of a put-off
  upgrade does not, and they name the same moment; `RemainderUnique` is the arithmetic
  behind it.
- `ListProofs`: induction and recursion for the modules below, and what the filter of a list
  keeps. The theorems of the prover's library that do this take a predicate as a parameter,
  which no backend can instantiate. Here what is to be shown is a *set*: numbers are counted
  up through the well-founded order of finite sets (`Induction`), anything with a measure
  through its measure (`MeasureInduction`), a list from its end (`DownInduction`); a
  recursive function that only looks at smaller places exists and is what its equation says
  (`Recursion`).
- `TabProofs`: `GuardIsFresh` (a look that was not cancelled was asked for under the
  check that is shown, or after it), `JobHasSocket`, `PendingCounts` (what has not settled
  on screen is what has not reported, so a message that settles is the first of its kind),
  `ChipTells` (each state at the server has its chip). `BellAgrees` is about a list from
  which timers, new jobs and the cap of the store take entries: its proof follows the one
  entry of the dialog's kind through every filter (`KeepIs`, `KeepCons`). `BannerHasPoll`
  and `RebootIsDriven` are inductive by themselves. The types of all four parts, and the two
  compositions.
- `BrowserProofs`: `UrlAndTab`; `RefusedForABlank` (`RefusalIsOwn`), which rests on what each
  form holds that it did not validate: only what the server had, which it had accepted;
  `OneShell`, `TicksAreShown`; `NothingBrokenSaved` through every step of a save and every
  failure of one, the lists on their way included. `DiffIsExact` is the correctness of the
  algorithm of the review: the table holds at each place the length of the longest common
  subsequence of the two rests (`TableIsLongest`, by induction on the distance from the
  ends), the diff read from it gives back both rests and keeps that many lines (`DiffIs`),
  so none keeps more. `RowsShowChanges` follows a run of unchanged lines to its end
  (`RunEndIs`) and the rows from place to place (`RowsAtIs`); the witness it needs, where
  each row begins, is built row by row (`RowsBegin`). The types of the settings, the tabs
  and the editor, and the composition; that a save always has a text needs `KnownInv`: a
  file the tab knows has one.

Only model-checked: liveness, which rests on fairness (`RunningEnds`, `NoRingForgotten`,
`RingEnds`, `TaskEnds`, `Reattachable`, `RebootEnds`, `FleetJobEnds`, `BannerEnds`,
`ListSettles`), and the five findings, which are violations.

## Observations

The five findings are in `PROJECT.json`. While modelling, these were seen to be so in the
code; the models have them, and no run asserts the contrary.

Backend:
- A ring that is lost to a restart under a *paused* rollout stays running for ever, and
  promote and resume refuse because of it (`rollout.py:588` looks at running rollouts only).
- A last ring that ends under a pause leaves a rollout that a resume sets running with
  nothing left to complete it.
- With two admins, a rollout that runs may be left without a job. A pause removes jobs after
  its commit (`rollout.py:714`), and with them the one that another's resume has armed since;
  a resume that was checked before the driver's abort is written over it, and the abort then
  removes the job that the resume armed.
- A pause or a resume that was checked before an abort is written over it: the abort that
  was to "halt the rollout for good" (`routers/rollouts.py:236`) is a pause, or nothing.
- A resume that is refused because a ring runs is told that the ring "will promote on its
  own when it finishes" (`rollout.py:728`). It runs under a pause, so it promotes nothing.
- Two workers that end together count once in a task's progress (`task_queue.py:109`).
- `ws_upgrade` runs its upgrade only if its first send fails (`upgrades.py:845`).

Fleet dialogs and bell:
- A removal timer takes a *new* run's job out of the list (`useJobStore.ts:156`), and the
  close event of an old panel marks the new job of its id as failed.
- A reboot whose socket breaks leaves its job running (`RollingRebootModal.tsx:209`), which
  the comment at `useJobStore.ts:46` rules out.
- Layout's poller marks the fleet check as failed at its first failed poll
  (`Layout.tsx:120`), which the comment at `Dashboard.tsx:409` calls wrong.

Server page (`ServerDetail.tsx`):
- A look at the package list that fails counts as one (1688 against the comment at 1672);
  `GuardIsFresh` leaves the case out.
- The answer to a reboot starts a poll on a page that is gone (237 against 165), which ends
  by its own limit; "back online" may be shown while the host has not gone down yet.
- Any load fills the open edit form over what was typed (494), and the answer of a save of
  apt sources deletes edits typed since (2798).
- A hold leaves the tick of its row in place until the list is read again (1013 against 987).
- A shell whose code cannot be fetched goes on showing that it connects (2085).
- The comment at 2793 is not true of the first save of a new file, nor of one whose backup
  was not written. A failed save may leave half a file at the server, which the next save
  makes its backup.

Settings and lists:
- Both forms send an empty cron of a job that is on (1233, 2236), which the server refuses
  (`routers/scheduler.py:92`).
- A user who may not see Users and discards edits on the way there keeps them: Servers stands
  in for the tab and stays mounted (124).
- Three sections use the guard of unsaved edits (`Settings.tsx:246`, 1235, 1611) although
  the comment at 33 speaks of each editable one; leaving the page asks nothing.
- The answer of a save overwrites what was typed since (1249), or closes the draft of
  another row (290); two forms write back each other's older fields (1243, 2244).
- Bulk selection keeps ids that are no longer listed (`Dashboard.tsx:327`), and "select all"
  compares numbers of rows (`Settings.tsx:431`).

## Not modelled

Contents of commands, logs and notifications; clocks beyond "an hour has passed"; SQL errors
other than a commit that raises; several rollouts at a time (they share only the servers,
which `RingRun` covers with rivals); two browser tabs at a time. Of the backend: the state
behind `ws_reboot_all`, the single-server stream, the REST starts, the log writer of a task,
grouping into rings, the other scheduler jobs, package watch, login. Of the frontend: pages
that read and render, forms over one request, and the parts `PROJECT.json` names in the note
of each component.

## Plan

1. RollingReboot: `ws_reboot_all` with rings, batches and cancels, as the other end of
   `FleetModal` and in the same task row.
2. TaskLog: buffer, flusher, `close()`, the cap, and a client that polls by offset.
3. Package-watch deduplication; login throttling and one-time codes.
4. Proofs: types of a ring and of a fleet run; that a ring of `StagedRollout` that passes is
   one that `RingRun` passed; a specification of the list in `ServerList` that its overlapping
   loads implement.
