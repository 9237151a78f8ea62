------------------------------- MODULE Windows -------------------------------
(***************************************************************************)
(* Maintenance windows (backend/routers/maintenance.py), who asks them      *)
(* before a server is upgraded (routers/upgrades.py, scheduler.py), and the *)
(* scan for the moment an upgrade is put off to (rollout.py).               *)
(*                                                                         *)
(* Windows repeat every week, so time is a minute of the week.  What        *)
(* follows a grant (the wait for a slot, apt) is in module FleetRun; what   *)
(* follows a queued upgrade until it fires is in module Rollout, here it is *)
(* a countdown.                                                            *)
(***************************************************************************)
EXTENDS Naturals, FiniteSets

CONSTANTS Servers,     \* the servers to upgrade
          Fleet,       \* the scope of a window without a server_id
          Scopes,      \* everything a window can be for
          Days,        \* days in a week (7)
          DayLength,   \* minutes in a day (1440)
          Lookahead,   \* how far the scan goes (14 days)
          Rows,        \* the windows admins may save
          MaxWindows,  \* bound on rows of maintenance_windows
          MaxQueue     \* bound on upgrades that are put off

ASSUME TimeAssumption == /\ Days \in Nat \ {0}
                         /\ DayLength \in Nat \ {0}
                         /\ Lookahead \in Nat
ASSUME ScopesAssumption == Fleet \in Scopes /\ Servers \subseteq Scopes \ {Fleet}
ASSUME BoundsAssumption == MaxWindows \in Nat /\ MaxQueue \in Nat

Moments == [day : 0 .. Days - 1, minute : 0 .. DayLength - 1]
Week == Days * DayLength

\* A row: the checks of create_window and the clamps of update_window.
Window == [scope : Scopes, start : 0 .. DayLength - 1, end : 0 .. DayLength - 1,
           days : SUBSET (0 .. Days - 1) \ {{}}, enabled : BOOLEAN,
           mode : {"deny", "allow"}]

ASSUME RowsAssumption == Rows \subseteq Window

VARIABLES
  windows,  \* the rows of maintenance_windows
  now,      \* the minute of the week
  queue,    \* the upgrades put off: their server, the minutes left, and whether
            \* the windows and the clock still are what the scan saw (history)
  grant     \* on what ground a server's upgrade may run

vars == <<windows, now, queue, grant>>

-----------------------------------------------------------------------------
(* What a window means.                                                    *)

Moment(t) == [day |-> (t % Week) \div DayLength, minute |-> t % DayLength]

IsInWindow(w, m) ==
  /\ w.enabled
  /\ m.day \in w.days
  /\ IF w.start <= w.end THEN w.start <= m.minute /\ m.minute < w.end
                         ELSE m.minute >= w.start \/ m.minute < w.end

\* Mutant: the windows of a server replace those of the fleet.
OwnWindows(s) ==
  LET own == {w \in windows : w.enabled /\ w.scope = s} IN
  IF own # {} THEN own ELSE {w \in windows : w.enabled /\ w.scope = Fleet}

\* _windows_for_server: the server's own and the fleet's, merged.
WindowsForServer(s) == {w \in windows : w.enabled /\ w.scope \in {Fleet, s}}

\* A deny window blocks while it is open; an allow window blocks while it and
\* all others are closed.
IsBlockedAt(ws, m) ==
  \/ \E w \in ws : w.mode = "deny" /\ IsInWindow(w, m)
  \/ /\ \E w \in ws : w.mode = "allow"
     /\ \A w \in ws : w.mode = "allow" => ~IsInWindow(w, m)

\* get_active_window_for_server: deny windows only.
ActiveWindow(s) ==
  \E w \in WindowsForServer(s) : w.mode = "deny" /\ IsInWindow(w, Moment(now))

Blocked(s) == IsBlockedAt(WindowsForServer(s), Moment(now))

\* Mutant: the scan treats every window as a deny window.
FreeOfWindows(s) ==
  {k \in 0 .. Lookahead - 1 : \A w \in WindowsForServer(s) : ~IsInWindow(w, Moment(now + k))}

\* The minutes from now at which the scan of compute_next_window_opening stops.
Free(s) ==
  {k \in 0 .. Lookahead - 1 : ~IsBlockedAt(WindowsForServer(s), Moment(now + k))}

-----------------------------------------------------------------------------
Entry == [server : Servers, wait : 0 .. Lookahead, asPlanned : BOOLEAN]

TypeOK ==
  /\ windows \subseteq Window
  /\ now \in 0 .. Week - 1
  /\ queue \subseteq Entry
  /\ grant \in [Servers -> {"none", "gate", "override", "auto", "rest", "queued"}]

Init ==
  /\ windows = {}
  /\ now = 0
  /\ queue = {}
  /\ grant = [s \in Servers |-> "none"]

\* An edit makes stale what the scan saw.
Edit == /\ queue' = {[e EXCEPT !.asPlanned = FALSE] : e \in queue}
        /\ UNCHANGED <<now, grant>>

CreateWindow(w) ==
  /\ Cardinality(windows) < MaxWindows
  /\ windows' = windows \union {w}
  /\ Edit

UpdateWindow(w, v) ==
  /\ w \in windows
  /\ windows' = (windows \ {w}) \union {v}
  /\ Edit

DeleteWindow(w) ==
  /\ w \in windows
  /\ windows' = windows \ {w}
  /\ Edit

Give(s, ground) ==
  /\ grant[s] = "none"
  /\ grant' = [grant EXCEPT ![s] = ground]

\* queue_server_for_next_window: a rollout of one server, due at the first free
\* minute.  Without one the caller refuses or skips, which leaves no trace.
PutOff(s) ==
  /\ Cardinality(queue) < MaxQueue
  /\ \E k \in Free(s) :
       /\ \A i \in Free(s) : k <= i
       /\ queue' = queue \union {[server |-> s, wait |-> k, asPlanned |-> TRUE]}
  /\ UNCHANGED <<windows, now, grant>>

\* Mutant: the gate is the helper that knows deny windows only.
GateOnActiveWindow(s) ==
  /\ ~ActiveWindow(s)
  /\ Give(s, "gate")
  /\ UNCHANGED <<windows, now, queue>>

\* window_block_reason before a streamed upgrade, a template or an API call.
PassGate(s) ==
  /\ ~Blocked(s)
  /\ Give(s, "gate")
  /\ UNCHANGED <<windows, now, queue>>

\* A blocked stream may be put off ...
QueueAtGate(s) == Blocked(s) /\ PutOff(s)

\* ... or an admin overrides the gate.
Override(s) ==
  /\ Give(s, "override")
  /\ UNCHANGED <<windows, now, queue>>

\* The nightly job upgrades what is in no deny window ...
AutoUpgrade(s) ==
  /\ ~ActiveWindow(s)
  /\ Give(s, "auto")
  /\ UNCHANGED <<windows, now, queue>>

\* ... and, with queue_for_next_window, puts off what is in one.
AutoQueue(s) == ActiveWindow(s) /\ PutOff(s)

\* POST /api/servers/{id}/upgrade and upgrade-all ask no window.
RestUpgrade(s) ==
  /\ Give(s, "rest")
  /\ UNCHANGED <<windows, now, queue>>

\* The job of an upgrade that was put off asks no window either.  It is spent,
\* and fails, if the server is being upgraded.
FireQueued(e) ==
  /\ e.wait = 0
  /\ queue' = queue \ {e}
  /\ IF grant[e.server] = "none" THEN Give(e.server, "queued") ELSE UNCHANGED grant
  /\ UNCHANGED <<windows, now>>

Finish(s) ==
  /\ grant[s] # "none"
  /\ grant' = [grant EXCEPT ![s] = "none"]
  /\ UNCHANGED <<windows, now, queue>>

\* A minute passes; a job that was due is late from now on.
Tick ==
  /\ now' = (now + 1) % Week
  /\ queue' = {[e EXCEPT !.wait = IF @ = 0 THEN 0 ELSE @ - 1,
                         !.asPlanned = @ /\ e.wait # 0] : e \in queue}
  /\ UNCHANGED <<windows, grant>>

Next ==
  \/ \E w \in Rows : CreateWindow(w) \/ DeleteWindow(w) \/ \E v \in Rows : UpdateWindow(w, v)
  \/ \E s \in Servers : \/ PassGate(s) \/ QueueAtGate(s) \/ Override(s) \/ AutoUpgrade(s)
                        \/ AutoQueue(s) \/ RestUpgrade(s) \/ Finish(s)
  \/ \E e \in queue : FireQueued(e)
  \/ Tick

Spec == Init /\ [][Next]_vars

-----------------------------------------------------------------------------
(* Properties.                                                             *)

DayBefore(d) == IF d = 0 THEN Days - 1 ELSE d - 1

\* The moments of the week a window covers, as the calendar export and the week
\* grid draw it: the hours after midnight belong to the evening before.
Covered(w) ==
  {m \in Moments :
     /\ w.enabled
     /\ IF w.start <= w.end
        THEN m.day \in w.days /\ m.minute \in w.start .. w.end - 1
        ELSE \/ m.day \in w.days /\ m.minute \in w.start .. DayLength - 1
             \/ DayBefore(m.day) \in w.days /\ m.minute \in 0 .. w.end - 1}

CoveredBy(ws) == UNION {Covered(w) : w \in ws}
Of(s, mode) == {w \in windows : w.scope \in {Fleet, s} /\ w.mode = mode}

\* Reference: what the allow windows in force cover (everything, if there are
\* none), less what the deny windows cover.
Permitted(s) ==
  (IF \E w \in Of(s, "allow") : w.enabled THEN CoveredBy(Of(s, "allow")) ELSE Moments)
    \ CoveredBy(Of(s, "deny"))

\* The gate looks at the weekday of the moment itself, so it disagrees with the
\* drawing in the hours after midnight, unless the window is open every day.
Settled(w, m) == w.start <= w.end \/ m.minute >= w.end \/ w.days = 0 .. Days - 1
SettledFor(s) == \A w \in windows : w.scope \in {Fleet, s} => Settled(w, Moment(now))

\* What passes the gate passes it at a permitted moment, and the nightly job
\* never starts in a freeze (window_block_reason; _job_auto_upgrade), except
\* after midnight of a window that wraps.
GrantsPermitted ==
  [][\A s \in Servers : grant'[s] # grant[s] /\ SettledFor(s) =>
       /\ grant'[s] = "gate" => Moment(now) \in Permitted(s)
       /\ grant'[s] = "auto" => Moment(now) \notin CoveredBy(Of(s, "deny"))]_vars

\* An upgrade that was put off starts at a permitted moment, if nobody edits
\* the windows and the job is on time (compute_next_window_opening), with the
\* same exception.
QueuedInOpening ==
  [][\A s \in Servers : grant[s] = "none" /\ grant'[s] = "queued" =>
       \E e \in queue \ queue' :
         /\ e.server = s
         /\ e.asPlanned /\ SettledFor(s) => Moment(now) \in Permitted(s)]_vars

\* A fleet-wide freeze binds every server, whatever windows it has of its own
\* (docstring of _windows_for_server), with the same exception.
FreezeBinds ==
  \A s \in Servers, w \in windows :
    /\ w.scope = Fleet /\ w.mode = "deny"
    /\ Moment(now) \in Covered(w) /\ Settled(w, Moment(now))
    => Blocked(s)

\* What passes the gate passes it at a permitted moment, without exception: the
\* window that the week grid draws past midnight is the one that is enforced.
GateAsDrawn ==
  [][\A s \in Servers : grant'[s] = "gate" /\ grant[s] # "gate" =>
       Moment(now) \in Permitted(s)]_vars

\* Every upgrade that the nightly job starts is permitted (docstring of
\* is_blocked_at: "the single definition of what a window means"), with the
\* exception of the hours after midnight.
AutoPermitted ==
  [][\A s \in Servers : grant'[s] = "auto" /\ grant[s] # "auto" /\ SettledFor(s) =>
       Moment(now) \in Permitted(s)]_vars

=============================================================================
