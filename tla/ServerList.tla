----------------------------- MODULE ServerList -----------------------------
(***************************************************************************)
(* The two pages of the browser that show the list of servers and act on   *)
(* it: the Dashboard, which polls the list and runs bulk actions a few     *)
(* requests at a time, and the Servers tab of Settings, which loads it     *)
(* only after its own operations.  Answers to loads may overtake each      *)
(* other, requests may fail, and an action runs on when its page is left.  *)
(*                                                                         *)
(* Of a server only this is kept: enabled, disabled, or gone.              *)
(***************************************************************************)
EXTENDS Naturals, FiniteSets

CONSTANTS
    Machines,       \* the servers
    Cap,            \* requests a bulk action has out at once, 4 in the code
    MaxLoads,       \* bound: answers to loads on their way
    MaxChanges      \* bound: changes asked for

ASSUME ServerListAssumption ==
    /\ IsFiniteSet(Machines)
    /\ Cap \in Nat \ {0}
    /\ MaxLoads \in Nat \ {0}
    /\ MaxChanges \in Nat

VARIABLES
    where,          \* the page on screen
    fleet,          \* the servers as the backend has them
    list,           \* the list as the page shows it
    loads,          \* answers on their way to this page
    loadError,      \* the last load failed
    narrow,         \* a filter hides the servers that are disabled
    selected,       \* selectedIds
    bulk,           \* the bulk action that runs: its name, what is left, what is out
    confirm,        \* the action a confirmation is asked for, and its servers
    single,         \* actions on one server that wait for their answer
    changes         \* changes asked for, bounded by MaxChanges

shownListVars == <<list, loads, loadError>>
actVars == <<bulk, confirm, single, changes>>
listPageVars == <<where, fleet, shownListVars, narrow, selected, actVars>>

\* The Dashboard's actions run capped; the deletes of Settings do not.
Capped == {"check", "enable", "disable"}
Idle == [op |-> "none", todo |-> {}, out |-> {}]
NoConfirm == [op |-> "none", ids |-> {}]
NotLoaded == [s \in Machines |-> "unknown"]

Screens == {"dashboard", "settings", "elsewhere"}

ListTypeOK ==
    /\ where \in Screens
    /\ fleet \in [Machines -> {"on", "off", "gone"}]
    /\ list \in [Machines -> {"on", "off", "gone", "unknown"}]
    /\ loads \subseteq [Machines -> {"on", "off", "gone"}]
    /\ loadError \in BOOLEAN
    /\ narrow \in BOOLEAN
    /\ selected \subseteq Machines
    /\ bulk \in [op : Capped \union {"delete", "none"},
                 todo : SUBSET Machines, out : SUBSET Machines]
    /\ confirm \in [op : {"none", "disable", "delete", "disable-one", "delete-one"},
                    ids : SUBSET Machines]
    /\ single \subseteq [op : {"enable", "disable", "delete", "check", "test"}, id : Machines]
    /\ changes \in 0..MaxChanges

ListInit ==
    /\ where \in Screens
    /\ fleet \in [Machines -> {"on", "off"}]
    /\ list = NotLoaded
    /\ loads = {}
    /\ loadError = FALSE
    /\ narrow = FALSE
    /\ selected = {}
    /\ bulk = Idle
    /\ confirm = NoConfirm
    /\ single = {}
    /\ changes = 0

Listed == {s \in Machines : list[s] \in {"on", "off"}}

\* What the filters leave of the list.
Filtered == {s \in Listed : narrow => list[s] = "on"}

-----------------------------------------------------------------------------
(***************************************************************************)
(* Loading the list.                                                       *)
(***************************************************************************)

\* A load is sent: the server answers with what it has now.  The Dashboard
\* does so on mount, every 30 s, and whenever an operation ends anywhere
\* (apt:refresh); Settings on mount.
Request(now) ==
    loads' = IF where # "elsewhere" /\ Cardinality(loads) < MaxLoads THEN loads \union {now}
                                                                     ELSE loads

\* Mutant: the Dashboard loads once, as Settings does.
PollOnce ==
    /\ where # "elsewhere" /\ list = NotLoaded
    /\ Cardinality(loads) < MaxLoads
    /\ Request(fleet)
    /\ UNCHANGED <<where, fleet, list, loadError, narrow, selected, actVars>>

Poll ==
    /\ where = "dashboard" \/ (where = "settings" /\ list = NotLoaded)
    /\ Cardinality(loads) < MaxLoads
    /\ Request(fleet)
    /\ UNCHANGED <<where, fleet, list, loadError, narrow, selected, actVars>>

\* An answer is shown, whatever was shown since it was asked for.
LoadAnswered(a) ==
    /\ a \in loads
    /\ loads' = loads \ {a}
    /\ list' = a
    /\ loadError' = FALSE
    /\ UNCHANGED <<where, fleet, narrow, selected, actVars>>

\* A failure keeps the list; the Dashboard says so, Settings does not catch it.
LoadFails(a) ==
    /\ a \in loads
    /\ loads' = loads \ {a}
    /\ loadError' = (where = "dashboard")
    /\ UNCHANGED <<where, fleet, list, narrow, selected, actVars>>

\* Another page: what this one showed and had selected is dropped; what it had
\* asked the backend to do goes on.
GoTo(p) ==
    /\ where # p
    /\ where' = p
    /\ list' = NotLoaded
    /\ loads' = {}
    /\ loadError' = FALSE
    /\ narrow' = FALSE
    /\ selected' = {}
    /\ confirm' = NoConfirm
    /\ UNCHANGED <<fleet, bulk, single, changes>>

-----------------------------------------------------------------------------
(***************************************************************************)
(* Filters and selection.                                                  *)
(***************************************************************************)
Unblocked == confirm = NoConfirm

\* What can be clicked: the tiles, a card and the bulk bar of the Dashboard,
\* the bar and a row of the table of Settings.
FilterTiles == where = "dashboard" /\ Unblocked
CardShown(s) == where = "dashboard" /\ Unblocked /\ s \in Filtered
BulkBar == where = "dashboard" /\ Unblocked /\ selected # {}
TableBar == where = "settings" /\ Unblocked
TableRow(s) == where = "settings" /\ Unblocked /\ s \in Listed

\* The tiles, the group and tag chips and the search box.
SetFilter ==
    /\ FilterTiles
    /\ narrow' = ~narrow
    /\ UNCHANGED <<where, fleet, shownListVars, selected, actVars>>

\* Only a card that is shown can be ticked; what is ticked stays so when a
\* filter hides it.
ToggleSelect(s) ==
    /\ CardShown(s) \/ TableRow(s)
    /\ selected' = IF s \in selected THEN selected \ {s} ELSE selected \union {s}
    /\ UNCHANGED <<where, fleet, shownListVars, narrow, actVars>>

AllFilteredSelected == Filtered # {} /\ Filtered \subseteq selected

ToggleSelectAllFiltered ==
    /\ BulkBar
    /\ selected' = IF AllFilteredSelected THEN selected \ Filtered ELSE selected \union Filtered
    /\ UNCHANGED <<where, fleet, shownListVars, narrow, actVars>>

\* Both bars can drop the selection.
ClearSelected ==
    /\ Unblocked
    /\ selected # {}
    /\ selected' = {}
    /\ UNCHANGED <<where, fleet, shownListVars, narrow, actVars>>

\* The table of Settings goes by the number of ticks.
ToggleSelectAll ==
    /\ TableBar
    /\ selected' = IF Cardinality(selected) = Cardinality(Listed) THEN {} ELSE Listed
    /\ UNCHANGED <<where, fleet, shownListVars, narrow, actVars>>

-----------------------------------------------------------------------------
(***************************************************************************)
(* What the backend does with a request, and the actions on one server.    *)
(***************************************************************************)
After(op, s) ==
    IF fleet[s] = "gone" THEN fleet
    ELSE [fleet EXCEPT ![s] = CASE op = "enable"  -> "on"
                                [] op = "disable" -> "off"
                                [] op = "delete"  -> "gone"
                                [] OTHER          -> @]

Send(op, s) ==
    /\ changes < MaxChanges
    /\ changes' = changes + 1
    /\ single' = single \union {[op |-> op, id |-> s]}

\* handleToggleEnabled: enabling is sent at once, disabling asks first.
HandleToggleEnabled(s) ==
    /\ CardShown(s)
    /\ IF list[s] = "off"
         THEN Send("enable", s) /\ UNCHANGED confirm
         ELSE confirm' = [op |-> "disable-one", ids |-> {s}] /\ UNCHANGED <<single, changes>>
    /\ UNCHANGED <<where, fleet, shownListVars, narrow, selected, bulk>>

\* The table's Test and the card's Check change nothing that is kept here, but
\* the Check is followed by a load.
HandleTestConnection(s) ==
    /\ TableRow(s)
    /\ [op |-> "test", id |-> s] \notin single
    /\ Send("test", s)
    /\ UNCHANGED <<where, fleet, shownListVars, narrow, selected, bulk, confirm>>

AskDeleteServer(s) ==
    /\ TableRow(s)
    /\ confirm' = [op |-> "delete-one", ids |-> {s}]
    /\ UNCHANGED <<where, fleet, shownListVars, narrow, selected, bulk, single, changes>>

\* The confirmation of an action on one server is answered.
ConfirmOne(ok) ==
    /\ confirm.op \in {"disable-one", "delete-one"}
    /\ IF ok THEN \E s \in confirm.ids :
                     Send(IF confirm.op = "delete-one" THEN "delete" ELSE "disable", s)
             ELSE UNCHANGED <<single, changes>>
    /\ confirm' = NoConfirm
    /\ UNCHANGED <<where, fleet, shownListVars, narrow, selected, bulk>>

\* A request is done, or fails; success is followed by a load of the page that
\* is still there, and a deleted server is no longer selected.
SingleAnswered(r, ok) ==
    /\ r \in single
    /\ single' = single \ {r}
    /\ fleet' = IF ok THEN After(r.op, r.id) ELSE fleet
    /\ IF ok /\ r.op # "test" THEN Request(fleet') ELSE UNCHANGED loads
    /\ selected' = IF ok /\ r.op = "delete" THEN selected \ {r.id} ELSE selected
    /\ UNCHANGED <<where, list, loadError, narrow, bulk, confirm, changes>>

-----------------------------------------------------------------------------
(***************************************************************************)
(* Bulk actions.                                                           *)
(***************************************************************************)
StartBulk(op, ids) ==
    /\ changes < MaxChanges
    /\ changes' = changes + 1
    /\ bulk' = [op |-> op, todo |-> ids, out |-> {}]

\* The bar's actions act on everything selected, shown or not.
BulkCheck ==
    /\ BulkBar
    /\ bulk = Idle
    /\ StartBulk("check", selected)
    /\ UNCHANGED <<where, fleet, shownListVars, narrow, selected, confirm, single>>

\* Disabling asks first, with the servers that are selected now.
BulkSetEnabled(enable) ==
    /\ BulkBar
    /\ bulk = Idle
    /\ IF enable THEN StartBulk("enable", selected) /\ UNCHANGED confirm
                 ELSE confirm' = [op |-> "disable", ids |-> selected] /\ UNCHANGED <<bulk, changes>>
    /\ UNCHANGED <<where, fleet, shownListVars, narrow, selected, single>>

\* bulkDeleting disables the button while it runs.
HandleBulkDelete ==
    /\ TableBar
    /\ bulk = Idle
    /\ selected # {}
    /\ confirm' = [op |-> "delete", ids |-> selected]
    /\ UNCHANGED <<where, fleet, shownListVars, narrow, selected, bulk, single, changes>>

ConfirmBulk(ok) ==
    /\ confirm.op \in {"disable", "delete"}
    /\ bulk = Idle
    /\ IF ok THEN StartBulk(confirm.op, confirm.ids) ELSE UNCHANGED <<bulk, changes>>
    /\ confirm' = NoConfirm
    /\ UNCHANGED <<where, fleet, shownListVars, narrow, selected, single>>

\* _runCapped: a worker takes the next server; no more workers than Cap.
RunCapped(s) ==
    /\ s \in bulk.todo
    /\ bulk.op \in Capped => Cardinality(bulk.out) < Cap
    /\ bulk' = [bulk EXCEPT !.todo = @ \ {s}, !.out = @ \union {s}]
    /\ UNCHANGED <<where, fleet, shownListVars, narrow, selected, confirm, single, changes>>

\* One of its requests is done or fails; after the last the list is loaded,
\* and a bulk delete clears the selection of the page that is still there.
BulkAnswered(s, ok) ==
    LET last == bulk.todo = {} /\ bulk.out = {s} IN
    /\ s \in bulk.out
    /\ fleet' = IF ok THEN After(bulk.op, s) ELSE fleet
    /\ bulk' = IF last THEN Idle ELSE [bulk EXCEPT !.out = @ \ {s}]
    /\ IF last THEN Request(fleet') ELSE UNCHANGED loads
    /\ selected' = IF last /\ bulk.op = "delete" /\ where = "settings" THEN {} ELSE selected
    /\ UNCHANGED <<where, list, loadError, narrow, confirm, single, changes>>

ListNext ==
    \/ Poll
    \/ \E a \in loads : LoadAnswered(a) \/ LoadFails(a)
    \/ \E p \in Screens : GoTo(p)
    \/ SetFilter
    \/ \E s \in Machines : ToggleSelect(s)
    \/ ToggleSelectAllFiltered
    \/ ToggleSelectAll
    \/ ClearSelected
    \/ \E s \in Machines : HandleToggleEnabled(s) \/ HandleTestConnection(s) \/ AskDeleteServer(s)
    \/ \E ok \in BOOLEAN : ConfirmOne(ok) \/ ConfirmBulk(ok)
    \/ \E r \in single, ok \in BOOLEAN : SingleAnswered(r, ok)
    \/ BulkCheck
    \/ \E enable \in BOOLEAN : BulkSetEnabled(enable)
    \/ HandleBulkDelete
    \/ \E s \in Machines : RunCapped(s)
    \/ \E s \in Machines, ok \in BOOLEAN : BulkAnswered(s, ok)

\* The poll ticks, requests end, and not every load fails.
ListFairness ==
    /\ WF_listPageVars(Poll)
    /\ WF_listPageVars(\E a \in loads : LoadAnswered(a) \/ LoadFails(a))
    /\ SF_listPageVars(\E a \in loads : LoadAnswered(a))
    /\ WF_listPageVars(\E r \in single, ok \in BOOLEAN : SingleAnswered(r, ok))
    /\ WF_listPageVars(\E s \in Machines : RunCapped(s))
    /\ WF_listPageVars(\E s \in Machines, ok \in BOOLEAN : BulkAnswered(s, ok))

ListSpec == ListInit /\ [][ListNext]_listPageVars /\ ListFairness

-----------------------------------------------------------------------------
(***************************************************************************)
(* Properties.                                                             *)
(***************************************************************************)

\* However answers overtake each other or fail, a Dashboard that stays on
\* screen comes to show the servers as they are, and again after every change.
ListSettles ==
    <>[](where = "dashboard") => []<>(list = fleet)

=============================================================================
