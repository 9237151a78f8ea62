------------------------------ MODULE ServerTabs ------------------------------
(***************************************************************************)
(* What the page of one server (src/frontend/src/pages/ServerDetail.tsx)   *)
(* shows beside ServerPage: the tab of pending packages with its selection *)
(* and the modals that upgrade or remove packages, the shell tab, and the  *)
(* form that edits the server and is filled anew by every load.            *)
(*                                                                         *)
(* A package is pending, held, done, unneeded (apt's autoremove would take *)
(* it) or gone; a row of the server is a number that grows with every      *)
(* change.                                                                 *)
(***************************************************************************)
EXTENDS Naturals, FiniteSets

CONSTANTS
    Packages,       \* the packages
    Security,       \* those with a security update
    MaxLists,       \* bound: reads of the package list on their way
    MaxHolds,       \* bound: holds and releases asked for
    MaxShells,      \* bound: shell sockets that are not closed yet
    MaxRows         \* bound: changes of the server's row

ASSUME ServerTabsAssumption ==
    /\ Security \subseteq Packages
    /\ {MaxHolds, MaxShells, MaxRows} \subseteq Nat
    /\ MaxLists \in Nat \ {0}

VARIABLES
    pane,           \* the tab: "packages", "shell", or the form alone
    apt,            \* the packages at the server
    packages,       \* the pending packages as the tab shows them
    held,           \* the held ones as it shows them
    autoremove,     \* the unneeded ones as it shows them
    listError,      \* the last read failed: the tab shows an error in place of the list
    lists,          \* reads of the list on their way to the tab on screen
    filterSec,      \* "Security only"
    picked,         \* the pending packages ticked
    pickedRemove,   \* the unneeded ones ticked
    holding,        \* holds and releases on their way
    holds,          \* how many were asked for
    modal,          \* the modal over the tab: what it does, to what, and how far it is
    shells,         \* shell sockets that are not closed yet
    wsRef,          \* the socket the shell tab holds, 0 for none
    status,         \* what the shell tab shows
    rowNow,         \* the server's row
    rowLoads,       \* loads of it on their way
    rowShown,       \* the row the page shows
    editForm,       \* the form: closed, as it was filled, or typed into; its streams
    formSaves       \* its saves on their way: of the form on screen, of one that is gone

shownVars == <<packages, held, autoremove, picked, pickedRemove>>
packageListVars == <<shownVars, listError, filterSec>>
packageVars == <<apt, packageListVars, lists, holding, holds, modal>>
shellVars == <<shells, wsRef, status>>
rowVars == <<rowNow, rowLoads, rowShown, editForm, formSaves>>
serverTabsVars == <<pane, packageVars, shellVars, rowVars>>

PackageState == {"pending", "held", "done", "unneeded", "gone"}
NoModal == [op |-> "none", target |-> {}, state |-> "none"]
NotOpen == [state |-> "closed", runs |-> {}]
Runs == {"autosec", "apt-proxy", "eeprom"}
ShellIds == 1..MaxShells

ServerTabsTypeOK ==
    /\ pane \in {"packages", "shell", "edit"}
    /\ apt \in [Packages -> PackageState]
    /\ {packages, held, autoremove, picked, pickedRemove} \subseteq SUBSET Packages
    /\ lists \subseteq [Packages -> PackageState]
    /\ listError \in BOOLEAN
    /\ filterSec \in BOOLEAN
    /\ holding \subseteq [pkg : Packages, hold : BOOLEAN]
    /\ holds \in 0..MaxHolds
    /\ modal \in [op : {"none", "upgrade", "remove", "remove all"}, target : SUBSET Packages,
                  state : {"none", "form", "running", "done"}]
    /\ shells \in [ShellIds -> {"none", "connecting", "open", "closing"}]
    /\ wsRef \in 0..MaxShells
    /\ status \in {"idle", "connecting", "connected", "disconnected"}
    /\ rowNow \in 0..MaxRows /\ rowShown \in 0..MaxRows
    /\ rowLoads \subseteq 0..MaxRows
    /\ editForm \in [state : {"closed", "filled", "typed"}, runs : SUBSET Runs]
    /\ formSaves \subseteq {"mine", "gone"}

ServerTabsInit ==
    /\ pane = "packages"
    /\ apt \in [Packages -> {"pending", "unneeded"}]
    /\ packages = {} /\ held = {} /\ autoremove = {}
    /\ lists = {apt}
    /\ listError = FALSE
    /\ filterSec = FALSE
    /\ picked = {} /\ pickedRemove = {}
    /\ holding = {}
    /\ holds = 0
    /\ modal = NoModal
    /\ shells = [i \in ShellIds |-> "none"]
    /\ wsRef = 0
    /\ status = "idle"
    /\ rowNow = 0 /\ rowShown = 0
    /\ rowLoads = {}
    /\ editForm = NotOpen
    /\ formSaves = {}

-----------------------------------------------------------------------------
(***************************************************************************)
(* The packages tab.                                                       *)
(***************************************************************************)
NoDialogOpen == pane = "packages" /\ modal = NoModal
PackagesOnly == UNCHANGED <<pane, shellVars, rowVars>>

\* The rows of the table, and when its toolbar and its rows are there at all.
Visible == {p \in packages : ~listError /\ (filterSec => p \in Security)}
PackageToolbar == NoDialogOpen /\ ~listError /\ packages # {}
PackageTable(p) == NoDialogOpen /\ p \in Visible

\* The lists below it are shown whatever became of the last read.
HeldList(p) == NoDialogOpen /\ p \in held
AutoremoveList == NoDialogOpen /\ autoremove # {}

LoadPackages == lists' = IF Cardinality(lists) < MaxLists THEN lists \union {apt} ELSE lists

\* A read of the list is answered and replaces everything, the ticks too; one
\* that fails leaves the tab as it is behind an error, with a Retry.
ListAnswered(l, ok) ==
    /\ l \in lists
    /\ lists' = lists \ {l}
    /\ listError' = ~ok
    /\ IF ok
         THEN /\ packages' = {p \in Packages : l[p] = "pending"}
              /\ held' = {p \in Packages : l[p] = "held"}
              /\ autoremove' = {p \in Packages : l[p] = "unneeded"}
              /\ picked' = {} /\ pickedRemove' = {}
         ELSE UNCHANGED shownVars
    /\ UNCHANGED <<apt, filterSec, holding, holds, modal>>
    /\ PackagesOnly

Retry ==
    /\ NoDialogOpen /\ listError
    /\ LoadPackages
    /\ UNCHANGED <<apt, packageListVars, holding, holds, modal>>
    /\ PackagesOnly

\* The page has a newer check of the server: the list is read again.
CheckedAgain ==
    /\ pane = "packages"
    /\ LoadPackages
    /\ UNCHANGED <<apt, packageListVars, holding, holds, modal>>
    /\ PackagesOnly

TicksOnly == UNCHANGED <<apt, packages, held, autoremove, listError, lists, holding, holds, modal>>

Pick(ps) ==
    /\ picked' = ps
    /\ UNCHANGED <<filterSec, pickedRemove>>
    /\ TicksOnly
    /\ PackagesOnly

Toggled(set, p) == IF p \in set THEN set \ {p} ELSE set \union {p}

ToggleOne(p) == PackageTable(p) /\ Pick(Toggled(picked, p))
SelectAll == PackageToolbar /\ Pick(Visible)
SelectSecurity == PackageToolbar /\ Pick(Visible \cap Security)
ClearSelection == PackageToolbar /\ Pick({})

\* Mutant: the filter leaves the ticks alone.
ToggleFilterOnly ==
    /\ PackageToolbar
    /\ filterSec' = ~filterSec
    /\ UNCHANGED <<picked, pickedRemove>>
    /\ TicksOnly
    /\ PackagesOnly

\* Rows that the filter hides lose their ticks.
ToggleSecurityFilter ==
    /\ PackageToolbar
    /\ filterSec' = ~filterSec
    /\ picked' = IF filterSec' THEN picked \cap Security ELSE picked
    /\ UNCHANGED pickedRemove
    /\ TicksOnly
    /\ PackagesOnly

PickRemove(ps) ==
    /\ AutoremoveList
    /\ pickedRemove' = ps
    /\ UNCHANGED <<filterSec, picked>>
    /\ TicksOnly
    /\ PackagesOnly

SelectRemove == PickRemove(autoremove) \/ \E p \in autoremove : PickRemove(Toggled(pickedRemove, p))

\* setHold, after its confirmation.
SetHold(p, hold) ==
    /\ IF hold THEN PackageTable(p) ELSE HeldList(p)
    /\ holds < MaxHolds
    /\ holds' = holds + 1
    /\ holding' = holding \union {[pkg |-> p, hold |-> hold]}
    /\ UNCHANGED <<apt, packageListVars, lists, modal>>
    /\ PackagesOnly

\* The lists are changed at once, and read again.
HoldAnswered(h, ok) ==
    /\ h \in holding
    /\ holding' = holding \ {h}
    /\ apt' = IF ok /\ apt[h.pkg] \in {"pending", "held"}
                THEN [apt EXCEPT ![h.pkg] = IF h.hold THEN "held" ELSE "pending"] ELSE apt
    /\ packages' = IF ok /\ h.hold THEN packages \ {h.pkg} ELSE packages
    /\ held' = IF ~ok THEN held ELSE IF h.hold THEN held \union {h.pkg} ELSE held \ {h.pkg}
    /\ lists' = IF ok /\ Cardinality(lists) < MaxLists THEN lists \union {apt'} ELSE lists
    /\ UNCHANGED <<autoremove, listError, filterSec, picked, pickedRemove, holds, modal>>
    /\ PackagesOnly

\* The modals act on what was chosen when they were opened: every pending
\* package, as the filter does not count, or the ticks.
OpenModal(op, target) ==
    /\ modal' = [op |-> op, target |-> target, state |-> "form"]
    /\ UNCHANGED <<apt, packageListVars, lists, holding, holds>>
    /\ PackagesOnly

UpgradeAll == PackageToolbar /\ OpenModal("upgrade", packages)
UpgradeSelected == PackageToolbar /\ picked \intersect Visible # {} /\ OpenModal("upgrade", picked)
RemoveSelected == AutoremoveList /\ pickedRemove # {} /\ OpenModal("remove", pickedRemove)
RemoveAll == AutoremoveList /\ OpenModal("remove all", {})

StartModal(ops) ==
    /\ modal.state = "form"
    /\ modal.op \in ops
    /\ modal' = [modal EXCEPT !.state = "running"]
    /\ UNCHANGED <<apt, packageListVars, lists, holding, holds>>
    /\ PackagesOnly

StartSelectiveUpgrade == StartModal({"upgrade"})
RunAutoremove == StartModal({"remove", "remove all"})

\* What a run does to a package: apt leaves held packages alone, and removes
\* everything that is unneeded when it is asked for no package by name.
AfterRun(p) ==
    IF modal.op = "upgrade" THEN IF p \in modal.target /\ apt[p] = "pending" THEN "done" ELSE apt[p]
    ELSE IF apt[p] = "unneeded" /\ (modal.op = "remove all" \/ p \in modal.target) THEN "gone"
    ELSE apt[p]

\* The run ends, and with it the stream.
ModalRunEnds(ok) ==
    /\ modal.state = "running"
    /\ modal' = [modal EXCEPT !.state = "done"]
    /\ apt' = IF ok THEN [p \in Packages |-> AfterRun(p)] ELSE apt
    /\ UNCHANGED <<packageListVars, lists, holding, holds>>
    /\ PackagesOnly

\* Closing a modal, at any time, reads the list again.
CloseModal ==
    /\ modal # NoModal
    /\ modal' = NoModal
    /\ LoadPackages
    /\ UNCHANGED <<apt, packageListVars, holding, holds>>
    /\ PackagesOnly

-----------------------------------------------------------------------------
(***************************************************************************)
(* The shell tab.  A socket that is closed stays until its close event.    *)
(***************************************************************************)
ShellOnly == UNCHANGED <<pane, packageVars, rowVars>>

Closing(sh) == IF wsRef = 0 THEN sh
               ELSE [sh EXCEPT ![wsRef] = IF @ = "none" THEN @ ELSE "closing"]

ShellControls == pane = "shell" /\ status \in {"idle", "disconnected"}

\* Mutant: another socket is opened beside the one that is held.
ConnectBeside ==
    /\ ShellControls
    /\ status' = "connecting"
    /\ \E i \in ShellIds :
          /\ shells[i] = "none"
          /\ shells' = [shells EXCEPT ![i] = "connecting"]
          /\ wsRef' = i
    /\ ShellOnly

\* connect closes the socket it held before it opens another.  The code it
\* awaits in between is fetched once, by the first connect, which holds no
\* socket; later ones go on before any event is heard.  A tab that is left while
\* it is fetched gets no socket, for its terminal has no element to open in.
Connect ==
    /\ ShellControls
    /\ status' = "connecting"
    /\ \E i \in ShellIds :
          /\ shells[i] = "none"
          /\ shells' = [Closing(shells) EXCEPT ![i] = "connecting"]
          /\ wsRef' = i
    /\ ShellOnly

\* That fetch fails: the tab goes on showing that it connects.
ConnectFails ==
    /\ ShellControls
    /\ status = "idle"
    /\ status' = "connecting"
    /\ UNCHANGED <<shells, wsRef>>
    /\ ShellOnly

ShellOpens(i) ==
    /\ shells[i] = "connecting"
    /\ shells' = [shells EXCEPT ![i] = "open"]
    /\ status' = "connected"
    /\ UNCHANGED wsRef
    /\ ShellOnly

\* onclose, of whichever socket: ended by the server, or closed by us.
ShellCloses(i) ==
    /\ shells[i] # "none"
    /\ shells' = [shells EXCEPT ![i] = "none"]
    /\ status' = IF pane = "shell" THEN "disconnected" ELSE status
    /\ UNCHANGED wsRef
    /\ ShellOnly

Disconnect ==
    /\ pane = "shell"
    /\ status = "connected"
    /\ shells' = Closing(shells)
    /\ status' = "disconnected"
    /\ UNCHANGED wsRef
    /\ ShellOnly

-----------------------------------------------------------------------------
(***************************************************************************)
(* The form that edits the server.                                         *)
(***************************************************************************)
FormOnly == UNCHANGED <<pane, packageVars, shellVars>>

FormGone == editForm' = NotOpen /\ formSaves' = {"gone" : who \in formSaves}

ToggleEdit ==
    /\ pane = "edit"
    /\ IF editForm.state = "closed"
         THEN editForm' = [NotOpen EXCEPT !.state = "filled"] /\ UNCHANGED formSaves
         ELSE FormGone
    /\ UNCHANGED <<rowNow, rowLoads, rowShown>>
    /\ FormOnly

\* What the form shows while it is open: its fields, its save, its streams.
EditFields == editForm.state = "filled"
EditButtons == editForm.state # "closed" /\ "mine" \notin formSaves
RunButton(s) == editForm.state # "closed" /\ s \notin editForm.runs

EditField ==
    /\ EditFields
    /\ editForm' = [editForm EXCEPT !.state = "typed"]
    /\ UNCHANGED <<rowNow, rowLoads, rowShown, formSaves>>
    /\ FormOnly

HandleSave ==
    /\ EditButtons
    /\ formSaves' = formSaves \union {"mine"}
    /\ UNCHANGED <<rowNow, rowLoads, rowShown, editForm>>
    /\ FormOnly

\* A save that succeeds loads the page, and closes the form that is open by then
\* with its streams, be it the one that was saved or another.
SaveAnswered(who, ok) ==
    /\ who \in formSaves
    /\ ok => rowNow < MaxRows
    /\ rowNow' = IF ok THEN rowNow + 1 ELSE rowNow
    /\ rowLoads' = IF ok THEN rowLoads \union {rowNow'} ELSE rowLoads
    /\ editForm' = IF ok THEN NotOpen ELSE editForm
    /\ formSaves' = IF ok THEN {"gone" : other \in formSaves \ {who}} ELSE formSaves \ {who}
    /\ UNCHANGED rowShown
    /\ FormOnly

\* The page is loaded for another reason: a check, a reboot, a run that ended.
PageReload ==
    /\ pane = "edit"
    /\ rowLoads' = rowLoads \union {rowNow}
    /\ UNCHANGED <<rowNow, rowShown, editForm, formSaves>>
    /\ FormOnly

\* The form is filled anew, over what was typed.
RowArrives(r) ==
    /\ r \in rowLoads
    /\ rowLoads' = rowLoads \ {r}
    /\ rowShown' = r
    /\ editForm' = IF editForm.state = "typed" THEN [editForm EXCEPT !.state = "filled"] ELSE editForm
    /\ UNCHANGED <<rowNow, formSaves>>
    /\ FormOnly

StartFormRun(s) ==
    /\ RunButton(s)
    /\ editForm' = [editForm EXCEPT !.runs = @ \union {s}]
    /\ UNCHANGED <<rowNow, rowLoads, rowShown, formSaves>>
    /\ FormOnly

HandleAutoSecToggle == StartFormRun("autosec")
HandleAptProxyToggle == StartFormRun("apt-proxy")
HandleEepromUpdate == StartFormRun("eeprom")

FormRunEnds(s) ==
    /\ s \in editForm.runs
    /\ editForm' = [editForm EXCEPT !.runs = @ \ {s}]
    /\ UNCHANGED <<rowNow, rowLoads, rowShown, formSaves>>
    /\ FormOnly

-----------------------------------------------------------------------------
\* Another tab is opened: the packages are read anew, the shell is closed.
SetView(t) ==
    /\ pane # t
    /\ modal = NoModal /\ editForm = NotOpen /\ rowLoads = {} /\ formSaves = {}
    /\ pane' = t
    /\ packages' = {} /\ held' = {} /\ autoremove' = {}
    /\ picked' = {} /\ pickedRemove' = {}
    /\ listError' = FALSE
    /\ filterSec' = FALSE
    /\ lists' = IF t = "packages" THEN {apt} ELSE {}
    /\ holding' = {}
    /\ shells' = Closing(shells)
    /\ wsRef' = 0
    /\ status' = "idle"
    /\ UNCHANGED <<apt, holds, modal, rowVars>>

ServerTabsNext ==
    \/ \E l \in lists, ok \in BOOLEAN : ListAnswered(l, ok)
    \/ Retry \/ CheckedAgain \/ SelectRemove \/ SelectAll \/ SelectSecurity \/ ClearSelection \/ ToggleSecurityFilter
    \/ \E p \in Packages : ToggleOne(p) \/ \E hold \in BOOLEAN : SetHold(p, hold)
    \/ \E h \in holding, ok \in BOOLEAN : HoldAnswered(h, ok)
    \/ UpgradeAll \/ UpgradeSelected \/ RemoveSelected \/ RemoveAll
    \/ StartSelectiveUpgrade \/ RunAutoremove \/ CloseModal
    \/ \E ok \in BOOLEAN : ModalRunEnds(ok) \/ \E who \in {"mine", "gone"} : SaveAnswered(who, ok)
    \/ Connect \/ ConnectFails \/ Disconnect
    \/ \E i \in ShellIds : ShellOpens(i) \/ ShellCloses(i)
    \/ ToggleEdit \/ EditField \/ HandleSave \/ PageReload
    \/ \E r \in rowLoads : RowArrives(r)
    \/ HandleAutoSecToggle \/ HandleAptProxyToggle \/ HandleEepromUpdate
    \/ \E s \in Runs : FormRunEnds(s)
    \/ \E t \in {"packages", "shell", "edit"} : SetView(t)

ServerTabsSpec == ServerTabsInit /\ [][ServerTabsNext]_serverTabsVars

-----------------------------------------------------------------------------
(***************************************************************************)
(* Properties.                                                             *)
(***************************************************************************)

\* Whatever the list was read, filtered, held and released through: when no
\* read is on its way, "Upgrade Selected" and "Remove Selected" act on nothing
\* that is not on screen.
TicksAreShown ==
    lists = {} /\ ~listError => picked \subseteq Visible /\ pickedRemove \subseteq autoremove

\* Never two shells: whatever closes are late, the page holds at most one
\* socket that it has not closed, and none when its tab is left.
OneShell ==
    LET live == {i \in ShellIds : shells[i] \in {"connecting", "open"}} IN
    /\ Cardinality(live) <= 1
    /\ live \subseteq {wsRef}
=============================================================================
