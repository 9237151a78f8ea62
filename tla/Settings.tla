------------------------------ MODULE Settings ------------------------------
(***************************************************************************)
(* The Settings page of the browser (src/frontend/src/pages/Settings.tsx): *)
(* eight tabs of which one is mounted, the guard that asks before unsaved  *)
(* edits are discarded, the sections with a draft that is opened, typed    *)
(* into, sent and closed, and the two forms that edit one configuration    *)
(* row.                                                                    *)
(*                                                                         *)
(* A draft is its state and not its text: none, open as it was loaded,     *)
(* typed into, or kept - closed, its text still there when it is opened    *)
(* again.  The lists that the sections reload after a save are left out.   *)
(***************************************************************************)
EXTENDS Naturals, FiniteSets

CONSTANTS
    MaxOpen,        \* bound: drafts open at once
    MaxOut,         \* bound: requests of drafts out at once, of saves out at once
    MaxSaves        \* bound: saves of a configuration form

ASSUME SettingsAssumption == MaxOpen \in Nat /\ MaxOut \in Nat /\ MaxSaves \in Nat

VARIABLES
    admin,          \* may the user see the Users tab and save? settled at login
    tab,            \* the tab that was switched to last
    urlTab,         \* the tab the URL names
    dialog,         \* the confirmation on screen
    draft,          \* draft[s]: the state of section s
    sent,           \* sent[s]: requests section s waits for
    row,            \* the configuration stored at the server
    cfg, form,      \* the row as the mounted form knows it, and as edited
    puts,           \* saves of the forms on their way, also of unmounted ones
    saves           \* saves sent, bounded by MaxSaves

pageVars == <<admin, tab, urlTab, dialog>>
draftVars == <<draft, sent>>
formVars == <<row, cfg, form, puts, saves>>
settingsVars == <<pageVars, draftVars, formVars>>

Tabs == {"Servers", "Schedule", "Preferences", "Notifications",
         "Infrastructure", "Users", "Account", "Backup"}

FormTabs == {"Schedule", "Preferences"}

SectionsOf(t) ==
    CASE t = "Servers"        -> {"server-row", "server-add", "group-row", "group-add",
                                  "tag-row", "tag-add"}
      [] t = "Schedule"       -> {"window", "calendar-token", "hook"}
      [] t = "Notifications"  -> {"notifications", "destination"}
      [] t = "Infrastructure" -> {"apt-cache"}
      [] t = "Users"          -> {"user-add", "user-reset", "policy"}
      [] t = "Account"        -> {"password", "token"}
      [] t = "Backup"         -> {"import"}
      [] OTHER                -> {}

Sections == UNION {SectionsOf(t) : t \in Tabs}

\* Forms that are always on screen, and forms whose text outlives a cancel.
Standing == {"notifications", "policy", "password", "token", "destination", "import"}
KeepsText == {"server-add", "tag-add", "user-add", "apt-cache"}

\* Sections that disable their submit while a request is out.
Busy == {"notifications", "calendar-token", "destination", "policy", "password", "token",
         "import"}

\* A configuration row: the scheduled check and its cron, the automatic upgrade
\* and its cron.  (The time of the next check, which comes back with the row, is
\* taken over with it and so makes no form differ.)
Cron == {"good", "blank", "bad"}
Row == [on : BOOLEAN, checks : Cron \ {"bad"}, auto : BOOLEAN, cron : Cron]
Form == [on : BOOLEAN, checks : Cron, auto : BOOLEAN, cron : Cron]
Unloaded == [checks |-> "none"]

NoDialog == [to |-> "none", heard |-> FALSE]

SettingsTypeOK ==
    /\ admin \in BOOLEAN
    /\ tab \in Tabs
    /\ urlTab \in Tabs
    /\ dialog \in {NoDialog} \union [to : Tabs, heard : BOOLEAN]
    /\ draft \in [Sections -> {"none", "open", "typed", "kept"}]
    /\ sent \in [Sections -> 0..MaxOut]
    /\ row \in Row
    /\ cfg \in Row \union {Unloaded}
    /\ form \in Form \union {Unloaded}
    /\ puts \subseteq [from : FormTabs, form : Form, live : BOOLEAN]
    /\ saves \in 0..MaxSaves

Blank == [s \in Sections |-> IF s \in Standing THEN "open" ELSE "none"]

SettingsInit ==
    /\ admin \in BOOLEAN
    /\ tab = "Servers"
    /\ urlTab = "Servers"
    /\ dialog = NoDialog
    /\ draft = Blank
    /\ sent = [s \in Sections |-> 0]
    /\ row = [on |-> TRUE, checks |-> "good", auto |-> FALSE, cron |-> "blank"]
    /\ cfg = Unloaded
    /\ form = Unloaded
    /\ puts = {}
    /\ saves = 0

-----------------------------------------------------------------------------
(***************************************************************************)
(* The tabs and the guard.                                                 *)
(***************************************************************************)
FormDiffers == cfg # Unloaded /\ form # cfg

\* The registry of dirty sections: what useDirtyGuard is called with.
ServersDirty == \/ \E s \in {"server-row", "group-row", "tag-row"} : draft[s] # "none"
                \/ draft["server-add"] = "typed"

HasUnsavedChanges ==
    \/ ServersDirty
    \/ tab = "Schedule" /\ FormDiffers
    \/ draft["window"] # "none"

\* The tab on screen: without the right to see it, Servers stands in for Users.
Shown(t) == IF t = "Users" /\ ~admin THEN "Servers" ELSE t

\* Every section is mounted anew with its tab; the requests of the old ones
\* still reach the server, but no component.
Fresh ==
    /\ draft' = Blank
    /\ sent' = [s \in Sections |-> 0]
    /\ cfg' = Unloaded
    /\ form' = Unloaded
    /\ puts' = {[p EXCEPT !.live = FALSE] : p \in puts}
    /\ UNCHANGED <<row, saves>>

\* The components stay when what stands in for a tab was on screen already.
Mount(t) ==
    /\ tab' = t
    /\ IF Shown(t) = Shown(tab) THEN UNCHANGED <<draftVars, formVars>> ELSE Fresh

Stay == UNCHANGED <<tab, draftVars, formVars>>

\* The URL changes: a tab is clicked, the palette or the back button goes
\* elsewhere.  The effect runs anew: the answer of a dialog it opened before is
\* no longer wanted, and opening another one answers the first with a no.
SetUrl(t) ==
    /\ t # urlTab
    /\ urlTab' = t
    /\ UNCHANGED admin
    /\ IF t = tab
         THEN dialog' = [dialog EXCEPT !.heard = FALSE] /\ Stay
         ELSE IF HasUnsavedChanges
           THEN dialog' = [to |-> t, heard |-> TRUE] /\ Stay
           ELSE dialog' = [dialog EXCEPT !.heard = FALSE] /\ Mount(t)

\* Mutant: the answer counts although the effect that asked has run anew.
AnswerDiscardLate(ok) ==
    /\ dialog # NoDialog
    /\ dialog.to \in Tabs
    /\ dialog' = NoDialog
    /\ IF ok THEN Mount(dialog.to) ELSE Stay
    /\ urlTab' = IF ~ok THEN tab ELSE urlTab
    /\ UNCHANGED admin

\* The dialog about unsaved changes is answered.
AnswerDiscard(ok) ==
    /\ dialog # NoDialog
    /\ dialog.to \in Tabs
    /\ dialog' = NoDialog
    /\ IF dialog.heard /\ ok THEN Mount(urlTab) ELSE Stay
    /\ urlTab' = IF dialog.heard /\ ~ok THEN tab ELSE urlTab
    /\ UNCHANGED admin

\* The page is left for another one and entered again: the guard knows only
\* tabs and reloads, so nothing is asked.
LeavePage(t) ==
    /\ urlTab' = t
    /\ dialog' = [dialog EXCEPT !.heard = FALSE]
    /\ tab' = t
    /\ Fresh
    /\ UNCHANGED admin

-----------------------------------------------------------------------------
(***************************************************************************)
(* Drafts.  A dialog covers the page: nothing below it can be clicked.     *)
(***************************************************************************)
Here(s) == s \in SectionsOf(Shown(tab)) /\ dialog = NoDialog

OpenDrafts == {s \in Sections \ Standing : draft[s] \in {"open", "typed"}}

DraftStep == UNCHANGED <<pageVars, formVars>>

Opens(s) ==
    /\ Here(s)
    /\ draft[s] \in {"none", "kept"}
    /\ Cardinality(OpenDrafts) < MaxOpen
    /\ draft' = [draft EXCEPT ![s] = IF @ = "kept" THEN "typed" ELSE "open"]
    /\ UNCHANGED sent
    /\ DraftStep

Types(s) ==
    /\ Here(s)
    /\ draft[s] \in {"open", "typed"}
    /\ draft' = [draft EXCEPT ![s] = "typed"]
    /\ UNCHANGED sent
    /\ DraftStep

Cancels(s) ==
    /\ Here(s)
    /\ draft[s] \in {"open", "typed"} /\ s \notin Standing
    /\ draft' = [draft EXCEPT ![s] = IF @ = "typed" /\ s \in KeepsText THEN "kept" ELSE "none"]
    /\ UNCHANGED sent
    /\ DraftStep

\* A submit: refused by the section's own validation unless its draft is in
\* `from`, and by its disabled button while a request of it is out.
Enabled(s) == s \in Busy => sent[s] = 0

Sends(s, from) ==
    /\ Here(s)
    /\ draft[s] \in from
    /\ Enabled(s)
    /\ Cardinality({r \in Sections : sent[r] > 0}) < MaxOut
    /\ sent[s] < MaxOut
    /\ sent' = [sent EXCEPT ![s] = @ + 1]
    /\ UNCHANGED draft
    /\ DraftStep

\* The answer.  A success closes whatever the section now has open, or blanks
\* a standing form; a failure leaves the draft as it is.
Answered(s, ok) ==
    /\ sent[s] > 0
    /\ sent' = [sent EXCEPT ![s] = @ - 1]
    /\ draft' = IF ok THEN [draft EXCEPT ![s] = Blank[s]] ELSE draft
    /\ DraftStep

Save(s, from) == Sends(s, from) \/ \E ok \in BOOLEAN : Answered(s, ok)

Touched == {"typed"}
OpenOrTyped == {"open", "typed"}

\* Servers tab: the row being edited, and the forms that add.
StartEditServer == Opens("server-row")
EditServerRow == Types("server-row") \/ Cancels("server-row")
HandleSaveServer == Save("server-row", OpenOrTyped)
AddServerModal == Opens("server-add") \/ Types("server-add") \/ Cancels("server-add")
HandleAddServer == Save("server-add", Touched)
StartEditGroup == Opens("group-row")
GroupList == Types("group-row") \/ Cancels("group-row")
HandleSaveGroup == Save("group-row", OpenOrTyped)
AddGroupForm == Opens("group-add") \/ Types("group-add") \/ Cancels("group-add")
HandleAddGroup == Save("group-add", Touched)
TagList == Opens("tag-row") \/ Types("tag-row") \/ Cancels("tag-row")
HandleSaveTag == Save("tag-row", OpenOrTyped)
AddTagForm == Opens("tag-add") \/ Types("tag-add") \/ Cancels("tag-add")
HandleAddTag == Save("tag-add", Touched)

\* Schedule tab: maintenance windows, the calendar's token, hooks.
NewWindow == Opens("window")
WindowEditor == Types("window") \/ Cancels("window")
SaveWindow == Save("window", OpenOrTyped)
CalendarSubscribe == Opens("calendar-token") \/ Cancels("calendar-token")
CreateCalendarToken == Save("calendar-token", OpenOrTyped)
NewHook == Opens("hook")
HookEditor == Types("hook") \/ Cancels("hook")
SaveHook == Save("hook", OpenOrTyped)

\* The other tabs.
NotificationsForm == Types("notifications")
SaveNotifications == Save("notifications", OpenOrTyped)
DestinationForm == Types("destination")
AddDestination == Save("destination", Touched)
AptCacheForm == Opens("apt-cache") \/ Types("apt-cache") \/ Cancels("apt-cache")
HandleAddAptCache == Save("apt-cache", Touched)
CreateUserForm == Opens("user-add") \/ Types("user-add") \/ Cancels("user-add")
CreateUser == Save("user-add", Touched)
ResetPasswordModal == Opens("user-reset") \/ Types("user-reset") \/ Cancels("user-reset")
SubmitReset == Save("user-reset", Touched)
PasswordPolicy == Types("policy") \/ Save("policy", Touched)
PasswordForm == Types("password")
HandleChangePassword == Save("password", Touched)
TokenForm == Types("token")
CreateToken == Save("token", Touched)
ImportFile == Save("import", OpenOrTyped)

DraftNext ==
    \/ StartEditServer \/ EditServerRow \/ HandleSaveServer \/ AddServerModal
    \/ HandleAddServer \/ StartEditGroup \/ GroupList \/ HandleSaveGroup
    \/ AddGroupForm \/ HandleAddGroup \/ TagList \/ HandleSaveTag
    \/ AddTagForm \/ HandleAddTag \/ NewWindow \/ WindowEditor
    \/ SaveWindow \/ CalendarSubscribe \/ CreateCalendarToken \/ NewHook
    \/ HookEditor \/ SaveHook \/ NotificationsForm \/ SaveNotifications \/ DestinationForm \/ AddDestination
    \/ AptCacheForm \/ HandleAddAptCache \/ CreateUserForm \/ CreateUser
    \/ ResetPasswordModal \/ SubmitReset \/ PasswordPolicy \/ PasswordForm
    \/ HandleChangePassword \/ TokenForm \/ CreateToken \/ ImportFile

-----------------------------------------------------------------------------
(***************************************************************************)
(* The forms over a configuration row.  Schedule and Preferences edit      *)
(* different fields of one row, and each sends all of it.                  *)
(***************************************************************************)
FormStep == UNCHANGED <<pageVars, draftVars>>

\* The row arrives after the tab was mounted.
FormLoads ==
    /\ tab \in FormTabs
    /\ cfg = Unloaded
    /\ cfg' = row
    /\ form' = row
    /\ UNCHANGED <<row, puts, saves>>
    /\ FormStep

Edit(t, field, v) ==
    /\ tab = t
    /\ dialog = NoDialog
    /\ cfg # Unloaded
    /\ form' = [form EXCEPT ![field] = v]
    /\ UNCHANGED <<row, cfg, puts, saves>>
    /\ FormStep

EditSchedule == \/ \E b \in BOOLEAN : Edit("Schedule", "on", b)
                \/ \E v \in Cron : Edit("Schedule", "checks", v)
EditPreferences == \/ \E b \in BOOLEAN : Edit("Preferences", "auto", b)
                   \/ \E v \in Cron : Edit("Preferences", "cron", v) /\ form.auto

Saving == \E p \in puts : p.live

Put(t) ==
    /\ tab = t
    /\ dialog = NoDialog
    /\ cfg # Unloaded
    /\ ~Saving
    /\ Cardinality(puts) < MaxOut
    /\ saves < MaxSaves
    /\ saves' = saves + 1
    /\ puts' = puts \union {[from |-> t, form |-> form, live |-> TRUE]}
    /\ UNCHANGED <<row, cfg, form>>
    /\ FormStep

\* Mutant: the cron of the automatic upgrade is not validated.
PreferencesSaveAny == Put("Preferences")

\* handleSave of each tab, refused while its own cron is invalid; an empty one is
\* sent.
ScheduleSave == Put("Schedule") /\ form.checks # "bad"
PreferencesSave == Put("Preferences") /\ ~(form.auto /\ form.cron = "bad")

\* update_config: a job that is enabled needs a cron that is not blank and valid.
Accepted(f) == (f.on => f.checks = "good") /\ (f.auto => f.cron = "good")

\* The answer of a save: stored and answered, stored with the answer lost, or
\* refused.  The form that sent it takes the row that came back.
PutAnswered(p, outcome) ==
    /\ outcome # "refused" => admin /\ Accepted(p.form)
    /\ puts' = puts \ {p}
    /\ row' = IF outcome = "refused" THEN row ELSE p.form
    /\ IF p.live /\ outcome = "ok"
         THEN cfg' = row' /\ form' = row'
         ELSE UNCHANGED <<cfg, form>>
    /\ UNCHANGED saves
    /\ FormStep

SettingsAnswers == \E p \in puts, outcome \in {"ok", "lost", "refused"} : PutAnswered(p, outcome)

FormNext ==
    \/ FormLoads
    \/ EditSchedule \/ EditPreferences
    \/ ScheduleSave \/ PreferencesSave
    \/ SettingsAnswers

-----------------------------------------------------------------------------
SettingsNext ==
    \/ \E t \in Tabs : SetUrl(t)
    \/ \E ok \in BOOLEAN : AnswerDiscard(ok)
    \/ \E t \in Tabs : LeavePage(t)
    \/ DraftNext
    \/ FormNext

-----------------------------------------------------------------------------
(***************************************************************************)
(* Properties.                                                             *)
(***************************************************************************)

\* The tab shown is the one the URL names, except while a dialog that is still
\* listened to asks about exactly that change: whatever dialogs were replaced
\* or dismissed, no answer is applied to another change than the one asked.
UrlAndTab ==
    /\ urlTab # tab <=> dialog.heard
    /\ dialog.heard => dialog.to = urlTab

\* A save that the server does not accept is one that its own tab can mend: the
\* cron that this tab shows was left blank, and nothing else is wrong, wherever
\* the form got the other tab's fields.
RefusedForABlank ==
    \A p \in puts : ~Accepted(p.form) =>
        IF p.from = "Schedule" THEN p.form.checks = "blank" /\ Accepted([p.form EXCEPT !.on = FALSE])
                               ELSE p.form.cron = "blank" /\ Accepted([p.form EXCEPT !.auto = FALSE])

-----------------------------------------------------------------------------
SettingsSpec == SettingsInit /\ [][SettingsNext]_settingsVars
=============================================================================
