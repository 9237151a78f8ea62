----------------------------- MODULE BrowserProofs -----------------------------
(***************************************************************************)
(* Theorems about the parts of Browser: the tab and the question about     *)
(* unsaved edits of the settings and their two forms over one row, the     *)
(* ticks and shells of the server page, the texts of its apt sources and   *)
(* the diff that an edit of them is reviewed by, and the types of all but  *)
(* the diff.  They hold for any number of packages, shells, files,         *)
(* requests and lines.                                                     *)
(***************************************************************************)
EXTENDS Browser, ListProofs, SequenceTheorems

\* Drafts come and go without the tabs, the dialog and the forms.
LEMMA DraftsOnly == ASSUME DraftNext PROVE UNCHANGED <<pageVars, formVars>>
<1>1. ASSUME NEW s, Opens(s) \/ Types(s) \/ Cancels(s)
      PROVE  DraftStep
  BY <1>1 DEF Opens, Types, Cancels
<1>2. ASSUME NEW s, NEW from, Save(s, from)
      PROVE  DraftStep
  BY <1>2 DEF Save, Sends, Answered
<1>3. CASE StartEditServer \/ EditServerRow \/ HandleSaveServer \/ AddServerModal
            \/ HandleAddServer \/ StartEditGroup \/ GroupList \/ HandleSaveGroup
  BY <1>1, <1>2, <1>3 DEF StartEditServer, EditServerRow, HandleSaveServer,
     AddServerModal, HandleAddServer, StartEditGroup, GroupList, HandleSaveGroup, DraftStep
<1>4. CASE AddGroupForm \/ HandleAddGroup \/ TagList \/ HandleSaveTag
            \/ AddTagForm \/ HandleAddTag
  BY <1>1, <1>2, <1>4 DEF AddGroupForm, HandleAddGroup, TagList, HandleSaveTag,
     AddTagForm, HandleAddTag, DraftStep
<1>5. CASE NewWindow \/ WindowEditor \/ SaveWindow \/ CalendarSubscribe
            \/ CreateCalendarToken \/ NewHook \/ HookEditor \/ SaveHook
  BY <1>1, <1>2, <1>5 DEF NewWindow, WindowEditor, SaveWindow, CalendarSubscribe,
     CreateCalendarToken, NewHook, HookEditor, SaveHook, DraftStep
<1>6. CASE NotificationsForm \/ SaveNotifications \/ DestinationForm \/ AddDestination
            \/ AptCacheForm \/ HandleAddAptCache \/ CreateUserForm \/ CreateUser
  BY <1>1, <1>2, <1>6 DEF NotificationsForm, SaveNotifications, DestinationForm,
     AddDestination, AptCacheForm, HandleAddAptCache, CreateUserForm, CreateUser, DraftStep
<1>7. CASE ResetPasswordModal \/ SubmitReset \/ PasswordPolicy \/ PasswordForm
            \/ HandleChangePassword \/ TokenForm \/ CreateToken \/ ImportFile
  BY <1>1, <1>2, <1>7 DEF ResetPasswordModal, SubmitReset, PasswordPolicy, PasswordForm,
     HandleChangePassword, TokenForm, CreateToken, ImportFile, DraftStep
<1> QED
  BY <1>3, <1>4, <1>5, <1>6, <1>7 DEF DraftNext

-----------------------------------------------------------------------------
(***************************************************************************)
(* The tab and the question.                                               *)
(***************************************************************************)
TabInv ==
    /\ admin \in BOOLEAN
    /\ tab \in Tabs
    /\ urlTab \in Tabs
    /\ dialog \in [to : Tabs \union {"none"}, heard : BOOLEAN]
    /\ UrlAndTab

LEMMA TabInvStep == TabInv /\ [SettingsNext]_settingsVars => TabInv'
<1> SUFFICES ASSUME TabInv, [SettingsNext]_settingsVars PROVE TabInv'
  OBVIOUS
<1>1. ASSUME NEW t \in Tabs, SetUrl(t) PROVE TabInv'
  <2>1. CASE t = tab
    BY <1>1, <2>1 DEF TabInv, UrlAndTab, SetUrl, Stay
  <2>2. CASE t # tab /\ HasUnsavedChanges
    <3>1. urlTab' = t /\ tab' = tab /\ dialog' = [to |-> t, heard |-> TRUE]
      BY <1>1, <2>2 DEF SetUrl, Stay
    <3>2. dialog' \in [to : Tabs \union {"none"}, heard : BOOLEAN]
      BY <3>1
    <3>3. UrlAndTab'
      BY <3>1, <2>2 DEF UrlAndTab
    <3> QED
      BY <1>1, <3>1, <3>2, <3>3 DEF SetUrl, TabInv
  <2>3. CASE t # tab /\ ~HasUnsavedChanges
    BY <1>1, <2>3 DEF TabInv, UrlAndTab, SetUrl, Mount
  <2> QED
    BY <2>1, <2>2, <2>3
<1>2. ASSUME NEW ok \in BOOLEAN, AnswerDiscard(ok) PROVE TabInv'
  <2>1. CASE dialog.heard /\ ok
    BY <1>2, <2>1 DEF TabInv, UrlAndTab, AnswerDiscard, Mount, NoDialog
  <2>2. CASE dialog.heard /\ ~ok
    BY <1>2, <2>2 DEF TabInv, UrlAndTab, AnswerDiscard, Stay, NoDialog
  <2>3. CASE ~dialog.heard
    BY <1>2, <2>3 DEF TabInv, UrlAndTab, AnswerDiscard, Stay, NoDialog
  <2> QED
    BY <2>1, <2>2, <2>3
<1>3. ASSUME NEW t \in Tabs, LeavePage(t) PROVE TabInv'
  BY <1>3 DEF TabInv, UrlAndTab, LeavePage
<1>4. CASE UNCHANGED pageVars
  BY <1>4 DEF TabInv, UrlAndTab, pageVars
<1>5. CASE DraftNext
  BY <1>4, <1>5, DraftsOnly
<1>6. CASE FormNext
  BY <1>4, <1>6 DEF FormNext, FormLoads, EditSchedule, EditPreferences, Edit, ScheduleSave,
     PreferencesSave, Put, SettingsAnswers, PutAnswered, FormStep
<1>7. CASE UNCHANGED settingsVars
  BY <1>4, <1>7 DEF settingsVars
<1> QED
  BY <1>1, <1>2, <1>3, <1>5, <1>6, <1>7 DEF SettingsNext

\* The answer about unsaved edits is applied to the change of tab it was asked
\* for and to no other (the effect of Settings and useConfirm), for any number
\* of changes, dialogs and drafts.
THEOREM AnswersTheQuestion == SettingsSpec => []UrlAndTab
<1>1. SettingsInit => TabInv
  BY DEF SettingsInit, TabInv, UrlAndTab, NoDialog, Tabs
<1>2. TabInv => UrlAndTab
  BY DEF TabInv
<1> QED
  BY <1>1, <1>2, TabInvStep, PTL DEF SettingsSpec

-----------------------------------------------------------------------------
(***************************************************************************)
(* The configuration row.  A form refuses its own cron when it is invalid, *)
(* and lets it through when it is blank; the other one is as it came from  *)
(* the server, which stores only what it accepts.                          *)
(***************************************************************************)
FormInv ==
    /\ row \in Row /\ Accepted(row)
    /\ cfg # Unloaded =>
          /\ form \in Form
          /\ tab = "Schedule" => (form.auto => form.cron = "good")
          /\ tab = "Preferences" => form.checks # "bad" /\ (form.on => form.checks = "good")
    /\ puts \subseteq [from : FormTabs, form : Form, live : BOOLEAN]
    /\ \A p \in puts : p.form.checks # "bad"
    /\ RefusedForABlank

\* What is mounted anew has loaded nothing, and the saves are not its own.
LEMMA FreshForms == ASSUME FormInv, Fresh PROVE FormInv'
<1>1. cfg' = Unloaded /\ row' = row /\ puts' = {[p EXCEPT !.live = FALSE] : p \in puts}
  BY DEF Fresh
<1>2. puts' \subseteq [from : FormTabs, form : Form, live : BOOLEAN]
  BY <1>1 DEF FormInv
<1>3. ASSUME NEW q \in puts' PROVE \E p \in puts : q.form = p.form /\ q.from = p.from
  BY <1>1 DEF FormInv
<1>4. (\A p \in puts' : p.form.checks # "bad") /\ RefusedForABlank'
  BY <1>3 DEF FormInv, RefusedForABlank
<1> QED
  BY <1>1, <1>2, <1>4 DEF FormInv

\* A tab that stands in for another has no form.
LEMMA MountKeeps == ASSUME FormInv, NEW t, Mount(t) PROVE FormInv'
<1>1. CASE Shown(t) = Shown(tab)
  <2>1. tab' \in {"Schedule", "Preferences"} => tab' = tab
    BY <1>1 DEF Mount, Shown
  <2>2. UNCHANGED formVars
    BY <1>1 DEF Mount
  <2> QED
    BY <2>1, <2>2 DEF formVars, FormInv, RefusedForABlank
<1>2. CASE Shown(t) # Shown(tab)
  BY <1>2, FreshForms DEF Mount
<1> QED
  BY <1>1, <1>2

LEMMA SameForms == ASSUME FormInv, UNCHANGED <<formVars, tab>> PROVE FormInv'
  BY DEF FormInv, RefusedForABlank, formVars

LEMMA FormInvStep == FormInv /\ [SettingsNext]_settingsVars => FormInv'
<1> SUFFICES ASSUME FormInv, [SettingsNext]_settingsVars PROVE FormInv'
  OBVIOUS
<1>1. ASSUME NEW t \in Tabs, SetUrl(t) \/ LeavePage(t) PROVE FormInv'
  BY <1>1, FreshForms, MountKeeps, SameForms DEF SetUrl, LeavePage, Stay
<1>2. ASSUME NEW ok \in BOOLEAN, AnswerDiscard(ok) PROVE FormInv'
  BY <1>2, MountKeeps, SameForms DEF AnswerDiscard, Stay
<1>3. CASE DraftNext
  BY <1>3, DraftsOnly, SameForms DEF pageVars
<1>4. CASE FormLoads
  <2>1. form' = row /\ row \in Form /\ row.checks # "bad"
    BY <1>4 DEF FormLoads, FormInv, Row, Form, Cron
  <2>2. UNCHANGED <<row, puts, tab>>
    BY <1>4 DEF FormLoads, FormStep, pageVars
  <2> QED
    BY <2>1, <2>2 DEF FormInv, RefusedForABlank, Accepted
<1>5. CASE EditSchedule
  BY <1>5 DEF EditSchedule, Edit, FormInv, FormStep, pageVars, RefusedForABlank, Form
<1>6. CASE EditPreferences
  BY <1>6 DEF EditPreferences, Edit, FormInv, FormStep, pageVars, RefusedForABlank, Form
<1>7. ASSUME ScheduleSave \/ PreferencesSave PROVE FormInv'
  <2>1. PICK t \in FormTabs :
            /\ Put(t) /\ tab = t /\ cfg # Unloaded
            /\ t = "Schedule" => form.checks # "bad"
            /\ t = "Preferences" => ~(form.auto /\ form.cron = "bad")
    BY <1>7 DEF ScheduleSave, PreferencesSave, Put, FormTabs
  <2>2. form \in Form /\ form.checks # "bad"
    BY <2>1 DEF FormInv, FormTabs
  <2>3. UNCHANGED <<row, cfg, form, tab>>
    BY <2>1 DEF Put, FormStep, pageVars
  <2> DEFINE put == [from |-> t, form |-> form, live |-> TRUE]
  <2>4. puts' = puts \union {put}
    BY <2>1 DEF Put
  <2>5. put \in [from : FormTabs, form : Form, live : BOOLEAN]
    BY <2>2
  <2>6. ~Accepted(form) =>
            IF t = "Schedule" THEN form.checks = "blank" /\ Accepted([form EXCEPT !.on = FALSE])
                              ELSE form.cron = "blank" /\ Accepted([form EXCEPT !.auto = FALSE])
    BY <2>1, <2>2 DEF FormInv, FormTabs, Accepted, Form, Cron
  <2>7. put.from = t /\ put.form = form
    OBVIOUS
  <2> HIDE DEF put
  <2>8. /\ puts' \subseteq [from : FormTabs, form : Form, live : BOOLEAN]
        /\ \A p \in puts' : p.form.checks # "bad"
    BY <2>2, <2>4, <2>5, <2>7 DEF FormInv
  <2>9. RefusedForABlank'
    BY <2>4, <2>6, <2>7 DEF FormInv, RefusedForABlank
  <2> QED
    BY <2>3, <2>8, <2>9 DEF FormInv
<1>8. ASSUME NEW p \in puts, NEW outcome \in {"ok", "lost", "refused"}, PutAnswered(p, outcome)
      PROVE  FormInv'
  <2>1. row' \in Row /\ Accepted(row') /\ row'.checks # "bad" /\ row' \in Form
    BY <1>8 DEF PutAnswered, FormInv, Row, Form, Cron
  <2>2. puts' \subseteq puts /\ tab' = tab
    BY <1>8 DEF PutAnswered, FormStep, pageVars
  <2>3. UNCHANGED <<cfg, form>> \/ form' = row'
    BY <1>8 DEF PutAnswered
  <2> QED
    BY <2>1, <2>2, <2>3 DEF FormInv, RefusedForABlank, Accepted
<1>9. CASE UNCHANGED settingsVars
  BY <1>9, SameForms DEF settingsVars, pageVars
<1> QED
  BY <1>1, <1>2, <1>3, <1>4, <1>5, <1>6, <1>7, <1>8, <1>9 DEF SettingsNext, FormNext, SettingsAnswers

\* What the server refuses of a save of Schedule or Preferences is the blank
\* cron of the tab that sent it, and nothing else, although each validates only
\* its own cron and sends the whole row (handleSave of either tab,
\* update_config).
THEOREM RefusalIsOwn == SettingsSpec => []RefusedForABlank
<1>1. SettingsInit => FormInv
  BY DEF SettingsInit, FormInv, RefusedForABlank, Row, Cron, Accepted
<1>2. FormInv => RefusedForABlank
  BY DEF FormInv
<1> QED
  BY <1>1, <1>2, FormInvStep, PTL DEF SettingsSpec

-----------------------------------------------------------------------------

(***************************************************************************)
(* The shell tab.  Closing the socket that is held is enough, since no     *)
(* other one is open.                                                      *)
(***************************************************************************)
Live(state) == state \in {"connecting", "open"}

ShellInv ==
    /\ shells \in [ShellIds -> {"none", "connecting", "open", "closing"}]
    /\ wsRef \in {0} \union ShellIds
    /\ \A i \in ShellIds : Live(shells[i]) => i = wsRef

LEMMA SameShells == ASSUME ShellInv, UNCHANGED shellVars PROVE ShellInv'
  BY DEF ShellInv, shellVars

\* What our own closing leaves.
LEMMA ClosingLeavesNone ==
    ASSUME ShellInv
    PROVE  /\ Closing(shells) \in [ShellIds -> {"none", "connecting", "open", "closing"}]
           /\ \A i \in ShellIds : ~Live(Closing(shells)[i])
<1>0. 0 \notin ShellIds
  BY ServerTabsAssumption DEF ShellIds
<1>1. CASE wsRef = 0
  BY <1>0, <1>1 DEF ShellInv, Closing, Live
<1>2. CASE wsRef # 0
  <2>1. wsRef \in ShellIds
    BY <1>2 DEF ShellInv
  <2> QED
    BY <1>2, <2>1 DEF ShellInv, Closing, Live
<1> QED
  BY <1>1, <1>2

LEMMA ShellInvStep == ShellInv /\ [ServerTabsNext]_serverTabsVars => ShellInv'
<1> SUFFICES ASSUME ShellInv, [ServerTabsNext]_serverTabsVars PROVE ShellInv'
  OBVIOUS
<1>1. CASE Connect
  <2>1. PICK i \in ShellIds : shells' = [Closing(shells) EXCEPT ![i] = "connecting"] /\ wsRef' = i
    BY <1>1 DEF Connect
  <2> QED
    BY <2>1, ClosingLeavesNone DEF ShellInv, Live
<1>2. CASE ConnectFails
  BY <1>2 DEF ConnectFails, ShellInv
<1>3. ASSUME NEW i \in ShellIds, ShellOpens(i) \/ ShellCloses(i) PROVE ShellInv'
  BY <1>3 DEF ShellOpens, ShellCloses, ShellInv, Live
<1>4. CASE Disconnect
  BY <1>4, ClosingLeavesNone DEF Disconnect, ShellInv
<1>5. ASSUME NEW t, SetView(t) PROVE ShellInv'
  BY <1>5, ClosingLeavesNone DEF SetView, ShellInv
<1>6. ASSUME NEW l, NEW h, NEW ok, ListAnswered(l, ok) \/ HoldAnswered(h, ok) \/ ModalRunEnds(ok)
      PROVE  ShellInv'
  BY <1>6, SameShells DEF ListAnswered, HoldAnswered, ModalRunEnds, PackagesOnly
<1>7. CASE Retry \/ CheckedAgain \/ SelectAll \/ SelectSecurity \/ ClearSelection
            \/ ToggleSecurityFilter
  BY <1>7, SameShells DEF Retry, CheckedAgain, SelectAll, SelectSecurity, ClearSelection,
     ToggleSecurityFilter, Pick, PackagesOnly
<1>8. ASSUME NEW p, NEW hold, ToggleOne(p) \/ SetHold(p, hold) \/ SelectRemove PROVE ShellInv'
  BY <1>8, SameShells DEF ToggleOne, SetHold, SelectRemove, Pick, PickRemove, PackagesOnly
<1>9. CASE UpgradeAll \/ UpgradeSelected \/ RemoveSelected \/ RemoveAll
            \/ StartSelectiveUpgrade \/ RunAutoremove \/ CloseModal
  BY <1>9, SameShells DEF UpgradeAll, UpgradeSelected, RemoveSelected, RemoveAll, OpenModal,
     StartSelectiveUpgrade, RunAutoremove, StartModal, CloseModal, PackagesOnly
<1>10. ASSUME NEW who, NEW ok, SaveAnswered(who, ok) \/ ToggleEdit \/ EditField \/ HandleSave
              \/ PageReload
       PROVE  ShellInv'
  BY <1>10, SameShells DEF SaveAnswered, ToggleEdit, EditField, HandleSave, PageReload, FormOnly
<1>11. ASSUME NEW r, NEW s, RowArrives(r) \/ HandleAutoSecToggle \/ HandleAptProxyToggle
              \/ HandleEepromUpdate \/ FormRunEnds(s)
       PROVE  ShellInv'
  BY <1>11, SameShells DEF RowArrives, HandleAutoSecToggle, HandleAptProxyToggle,
     HandleEepromUpdate, StartFormRun, FormRunEnds, FormOnly
<1>12. CASE UNCHANGED serverTabsVars
  BY <1>12, SameShells DEF serverTabsVars
<1> QED
  BY <1>1, <1>2, <1>3, <1>4, <1>5, <1>6, <1>7, <1>8, <1>9, <1>10, <1>11, <1>12 DEF ServerTabsNext

\* The shell tab never has two live sockets, and none that it does not hold,
\* however late the close events of the sockets before it are.
THEOREM NeverTwoShells == ServerTabsSpec => []OneShell
<1>1. ServerTabsInit => ShellInv
  BY DEF ServerTabsInit, ShellInv, Live
<1>2. ASSUME ShellInv PROVE OneShell
  <2> DEFINE live == {i \in ShellIds : shells[i] \in {"connecting", "open"}}
  <2>1. live \subseteq {wsRef}
    BY <1>2 DEF ShellInv, Live
  <2>2. live = {} \/ live = {wsRef}
    BY <2>1
  <2>3. Cardinality(live) <= 1
    <3>1. CASE live = {}
      BY <3>1, FS_EmptySet
    <3>2. CASE live = {wsRef}
      <4>1. Cardinality(live) = 1
        BY <3>2, FS_Singleton
      <4> QED
        BY <4>1
    <3> QED
      BY <2>2, <3>1, <3>2
  <2> QED
    BY <2>1, <2>3 DEF OneShell
<1> QED
  BY <1>1, <1>2, ShellInvStep, PTL DEF ServerTabsSpec

-----------------------------------------------------------------------------
(***************************************************************************)
(* The editor of apt sources.  A text passes the lint once, before it is   *)
(* sent; from there it moves to the disk, to a backup and to what the tab  *)
(* knows, also to the list a delete has kept from before and to the one    *)
(* that a read brings.  The only other text there is what tee left.        *)
(***************************************************************************)
AnyText == Contents \union {NoText}
FileTable == [Files -> [content : AnyText, backup : AnyText]]

Clean(f, t) == t \notin {"torn", NoText} => "error" \notin LintAptSource(f, t)

CleanTable(table) ==
    \A f \in Files : Clean(f, table[f].content) /\ Clean(f, table[f].backup)

SaveIsClean(save) ==
    save # Nothing =>
        /\ save \in [path : Files, text : AnyText, at : {"asked", "backed", "writing", "written"}]
        /\ "error" \notin LintAptSource(save.path, save.text)

DeleteIsClean(delete) ==
    delete # Nothing =>
        /\ delete \in [path : Files, files : FileTable, done : BOOLEAN]
        /\ CleanTable(delete.files)

ReadIsClean(read) ==
    \/ read \in [at : {"idle", "asked"}]
    \/ read \in [at : {"served"}, list : FileTable] /\ CleanTable(read.list)

SourceInv ==
    /\ disk \in [Files -> AnyText] /\ \A f \in Files : Clean(f, disk[f])
    /\ backup \in [Files -> AnyText] /\ \A f \in Files : Clean(f, backup[f])
    /\ files \in FileTable /\ CleanTable(files)
    /\ pendingEdits \in [Files -> AnyText]
    /\ SaveIsClean(saving)
    /\ DeleteIsClean(deleting)
    /\ ReadIsClean(reading)

\* The texts that no user typed: what a file starts with, what is left of one,
\* and no text.
LEMMA GivenTexts ==
    ASSUME NEW f
    PROVE  /\ Clean(f, "fine") /\ Clean(f, "empty") /\ Clean(f, NoText)
           /\ \A t \in Cut : Clean(f, t) /\ t \in AnyText
<1>1. "error" \notin LintOneLineSources("fine") /\ "error" \notin LintOneLineSources("empty")
  BY DEF LintOneLineSources, SourceLines, LintLine
<1>2. "error" \notin LintDeb822Sources("fine") /\ "error" \notin LintDeb822Sources("empty")
  BY DEF LintDeb822Sources, SourceStanzas, LintStanza
<1>3. Clean(f, "fine") /\ Clean(f, "empty") /\ Clean(f, NoText)
  BY <1>1, <1>2 DEF Clean, LintAptSource
<1>4. \A t \in Cut : Clean(f, t) /\ t \in AnyText
  BY <1>3 DEF Cut, Clean, AnyText, Contents
<1> QED
  BY <1>3, <1>4

\* A map from files to texts that gets a clean text stays clean.
LEMMA TextsWith ==
    ASSUME NEW texts \in [Files -> AnyText], \A g \in Files : Clean(g, texts[g]),
           NEW f \in Files, NEW t \in AnyText, Clean(f, t)
    PROVE  LET new == [texts EXCEPT ![f] = t] IN
             new \in [Files -> AnyText] /\ \A g \in Files : Clean(g, new[g])
  OBVIOUS

\* A table that gets a clean entry stays clean.
LEMMA TableWith ==
    ASSUME NEW table \in FileTable, CleanTable(table), NEW f \in Files,
           NEW content \in AnyText, Clean(f, content), NEW old \in AnyText, Clean(f, old)
    PROVE  LET new == [table EXCEPT ![f] = [content |-> content, backup |-> old]] IN
             new \in FileTable /\ CleanTable(new)
<1> DEFINE entry == [content |-> content, backup |-> old]
           new == [table EXCEPT ![f] = entry]
<1>1. entry \in [content : AnyText, backup : AnyText]
  OBVIOUS
<1>2. entry.content = content /\ entry.backup = old
  OBVIOUS
<1> HIDE DEF entry
<1>3. new \in FileTable
  BY <1>1 DEF FileTable
<1>4. \A g \in Files : new[g] = IF g = f THEN entry ELSE table[g]
  BY DEF FileTable
<1>5. CleanTable(new)
  BY <1>2, <1>4 DEF CleanTable
<1> QED
  BY <1>3, <1>5 DEF entry

LEMMA FirstTexts == AptReposInit => SourceInv
<1> SUFFICES ASSUME AptReposInit PROVE SourceInv
  OBVIOUS
<1>1. "fine" \in AnyText /\ NoText \in AnyText
  BY DEF AnyText, Typed, Contents
<1>2. files \in FileTable /\ CleanTable(files)
  BY <1>1, GivenTexts DEF AptReposInit, FileTable, CleanTable
<1>3. SaveIsClean(saving) /\ DeleteIsClean(deleting) /\ ReadIsClean(reading)
  BY DEF AptReposInit, SaveIsClean, DeleteIsClean, ReadIsClean, NoRead
<1> QED
  BY <1>1, <1>2, <1>3, GivenTexts DEF AptReposInit, SourceInv

LEMMA SourceInvStep == SourceInv /\ [AptReposNext]_aptReposVars => SourceInv'
<1> SUFFICES ASSUME SourceInv, [AptReposNext]_aptReposVars PROVE SourceInv'
  OBVIOUS
<1>1. ASSUME UNCHANGED <<disk, backup, files, saving, deleting, reading>>,
             pendingEdits' \in [Files -> AnyText]
      PROVE  SourceInv'
  BY <1>1 DEF SourceInv
<1>2. ASSUME NEW f \in Files, AddNewFile(f) PROVE SourceInv'
  <2>1. "empty" \in AnyText /\ NoText \in AnyText
    BY DEF AnyText, Typed, Contents
  <2>2. files' \in FileTable /\ CleanTable(files')
    BY <1>2, <2>1, GivenTexts, TableWith DEF AddNewFile, SourceInv
  <2> QED
    BY <1>2, <2>2 DEF AddNewFile, SourceInv, diskVars, requestVars
<1>3. ASSUME NEW f \in Files, SelectPath(f) PROVE SourceInv'
  BY <1>1, <1>3 DEF SelectPath, diskVars, requestVars, SourceInv
<1>4. ASSUME NEW t \in Typed, EditText(t) PROVE SourceInv'
  <2>1. pendingEdits' \in [Files -> AnyText]
    BY <1>4 DEF EditText, SourceInv, AnyText, Contents
  <2> QED
    BY <1>1, <1>4, <2>1 DEF EditText, diskVars, requestVars
<1>5. CASE OpenPreview \/ ClosePreview \/ OverrideWarnings
  BY <1>1, <1>5 DEF OpenPreview, ClosePreview, OverrideWarnings, diskVars, editVars,
     requestVars, SourceInv
<1>6. CASE RestorePrevious
  <2>1. selectedPath \in Files => files[selectedPath].backup \in AnyText
    BY DEF SourceInv, FileTable
  <2>2. pendingEdits' \in [Files -> AnyText]
    BY <1>6, <2>1 DEF RestorePrevious, EditorButtons, Editor, Known, SourceInv
  <2> QED
    BY <1>1, <1>6, <2>2 DEF RestorePrevious, diskVars, requestVars
<1>7. CASE CommitSave
  <2>1. selectedPath \in Files
    BY <1>7 DEF CommitSave, ReviewPanel, Editor, Known
  <2>2. CurrentContent(selectedPath) \in AnyText
    BY <2>1 DEF CurrentContent, SourceInv, FileTable
  <2>3. saving' = [path |-> selectedPath, text |-> CurrentContent(selectedPath), at |-> "asked"]
    BY <1>7 DEF CommitSave
  <2>4. "error" \notin LintAptSource(selectedPath, CurrentContent(selectedPath))
    BY <1>7 DEF CommitSave
  <2>5. SaveIsClean(saving')
    BY <2>1, <2>2, <2>3, <2>4 DEF SaveIsClean
  <2> QED
    BY <1>7, <2>5 DEF CommitSave, SourceInv, diskVars, editVars
<1>8. CASE DeleteFile
  <2>1. selectedPath \in Files
    BY <1>8 DEF DeleteFile, EditorButtons, Editor, Known
  <2>2. deleting' = [path |-> selectedPath, files |-> files, done |-> FALSE]
    BY <1>8 DEF DeleteFile
  <2>3. DeleteIsClean(deleting')
    BY <2>1, <2>2 DEF SourceInv, DeleteIsClean
  <2> QED
    BY <1>8, <2>3 DEF DeleteFile, SourceInv, diskVars, editVars
<1>9. CASE LoadRepos
  <2>1. ReadIsClean(reading')
    BY <1>9 DEF LoadRepos, ReadIsClean
  <2> QED
    BY <1>9, <2>1 DEF LoadRepos, SourceInv, diskVars, editVars
<1>10. ASSUME NEW reached \in BOOLEAN, ReadServed(reached) PROVE SourceInv'
  <2> DEFINE list == [f \in Files |-> IF reached /\ disk[f] # NoText
                                        THEN [content |-> disk[f], backup |-> backup[f]]
                                        ELSE Absent]
  <2>1. reading' = [at |-> "served", list |-> list]
    BY <1>10 DEF ReadServed
  <2>2. list \in FileTable
    BY DEF SourceInv, FileTable, Absent, AnyText
  <2>3. ASSUME NEW f \in Files PROVE Clean(f, list[f].content) /\ Clean(f, list[f].backup)
    BY GivenTexts DEF SourceInv, Absent
  <2>4. CleanTable(list)
    BY <2>3 DEF CleanTable
  <2> HIDE DEF list
  <2>5. ReadIsClean(reading')
    BY <2>1, <2>2, <2>4 DEF ReadIsClean
  <2> QED
    BY <1>10, <2>5 DEF ReadServed, SourceInv, diskVars, editVars
<1>11. CASE ReadAnswered
  <2>1. reading \in [at : {"served"}, list : FileTable] /\ CleanTable(reading.list)
    BY <1>11 DEF ReadAnswered, SourceInv, ReadIsClean
  <2>2. ReadIsClean(reading')
    BY <1>11 DEF ReadAnswered, ReadIsClean, NoRead
  <2> QED
    BY <1>11, <2>1, <2>2 DEF ReadAnswered, SourceInv, diskVars
<1>12. CASE ReadFails \/ CommitFails \/ DeleteFails
  <2>1. SaveIsClean(saving') /\ DeleteIsClean(deleting') /\ ReadIsClean(reading')
    BY <1>12 DEF ReadFails, CommitFails, DeleteFails, SourceInv, SaveIsClean, DeleteIsClean,
       ReadIsClean, NoRead
  <2> QED
    BY <1>12, <2>1 DEF ReadFails, CommitFails, DeleteFails, SourceInv, diskVars, editVars
<1>13. ASSUME saving # Nothing
       PROVE  /\ saving.path \in Files
              /\ saving.text \in AnyText
              /\ Clean(saving.path, saving.text)
              /\ \A at \in {"asked", "backed", "writing", "written"} :
                   SaveIsClean([saving EXCEPT !.at = at])
  BY <1>13 DEF SourceInv, SaveIsClean, Clean
<1>14. ASSUME NEW b \in AnyText, BackUpFile(b) PROVE SourceInv'
  <2>1. saving # Nothing /\ SaveIsClean(saving')
    BY <1>13, <1>14 DEF BackUpFile
  <2>2. backup' = [backup EXCEPT ![saving.path] = b]
    BY <1>14 DEF BackUpFile
  <2>3. Clean(saving.path, b)
    BY <1>13, <1>14, <2>1, GivenTexts DEF BackUpFile, SourceInv
  <2>4. backup' \in [Files -> AnyText] /\ \A g \in Files : Clean(g, backup'[g])
    BY <1>13, <2>1, <2>2, <2>3, TextsWith DEF SourceInv
  <2> QED
    BY <1>14, <2>1, <2>4 DEF BackUpFile, SourceInv, editVars
<1>15. ASSUME NEW t \in Cut, BeginWrite(t) PROVE SourceInv'
  <2>1. saving # Nothing /\ SaveIsClean(saving')
    BY <1>13, <1>15 DEF BeginWrite
  <2>2. disk' = [disk EXCEPT ![saving.path] = t]
    BY <1>15 DEF BeginWrite
  <2>3. disk' \in [Files -> AnyText] /\ \A g \in Files : Clean(g, disk'[g])
    BY <1>13, <2>1, <2>2, GivenTexts, TextsWith DEF SourceInv
  <2> QED
    BY <1>15, <2>1, <2>3 DEF BeginWrite, SourceInv, editVars
<1>16. CASE EndWrite
  <2>1. saving # Nothing /\ SaveIsClean(saving')
    BY <1>13, <1>16 DEF EndWrite
  <2>2. disk' = disk \/ disk' = [disk EXCEPT ![saving.path] = saving.text]
    BY <1>16 DEF EndWrite
  <2>3. disk' \in [Files -> AnyText] /\ \A g \in Files : Clean(g, disk'[g])
    BY <1>13, <2>1, <2>2, TextsWith DEF SourceInv
  <2> QED
    BY <1>16, <2>1, <2>3 DEF EndWrite, SourceInv, editVars
<1>17. CASE CommitAnswered
  <2> DEFINE f == saving.path
  <2>1. f \in Files /\ saving.text \in AnyText /\ Clean(f, saving.text)
    BY <1>13, <1>17 DEF CommitAnswered
  <2>2. SaveIsClean(saving')
    BY <1>17 DEF CommitAnswered, SaveIsClean
  <2>3. files' = files
        \/ files' = [files EXCEPT ![f] = [content |-> saving.text, backup |-> files[f].content]]
    BY <1>17 DEF CommitAnswered
  <2> HIDE DEF f
  <2>4. files[f].content \in AnyText /\ Clean(f, files[f].content)
    BY <2>1 DEF SourceInv, FileTable, CleanTable
  <2>5. files' \in FileTable /\ CleanTable(files')
    <3>1. CASE files' = files
      BY <3>1 DEF SourceInv
    <3>2. CASE files' = [files EXCEPT ![f] = [content |-> saving.text, backup |-> files[f].content]]
      BY <2>1, <2>4, <3>2, TableWith DEF SourceInv
    <3> QED
      BY <2>3, <3>1, <3>2
  <2>6. pendingEdits' \in [Files -> AnyText]
    BY <1>17 DEF CommitAnswered, SourceInv, AnyText
  <2> QED
    BY <1>17, <2>2, <2>5, <2>6 DEF CommitAnswered, SourceInv, diskVars
<1>18. ASSUME deleting # Nothing
       PROVE  /\ deleting \in [path : Files, files : FileTable, done : BOOLEAN]
              /\ CleanTable(deleting.files)
  BY <1>18 DEF SourceInv, DeleteIsClean
<1>19. CASE DeleteServed
  <2>1. deleting' = [deleting EXCEPT !.done = TRUE] /\ deleting # Nothing
    BY <1>19 DEF DeleteServed
  <2>2. DeleteIsClean(deleting')
    BY <1>18, <2>1 DEF DeleteIsClean
  <2>3. disk' \in [Files -> AnyText] /\ \A g \in Files : Clean(g, disk'[g])
    <3>1. disk' = [disk EXCEPT ![deleting.path] = NoText] /\ deleting.path \in Files
      BY <1>18, <1>19, <2>1 DEF DeleteServed
    <3>2. NoText \in AnyText
      BY DEF AnyText
    <3> QED
      BY <3>1, <3>2, GivenTexts, TextsWith DEF SourceInv
  <2> QED
    BY <1>19, <2>2, <2>3 DEF DeleteServed, SourceInv, editVars
<1>20. CASE DeleteAnswered
  <2>1. deleting.path \in Files /\ deleting.files \in FileTable /\ CleanTable(deleting.files)
    BY <1>18, <1>20 DEF DeleteAnswered
  <2>2. DeleteIsClean(deleting')
    BY <1>20 DEF DeleteAnswered, DeleteIsClean
  <2>3. NoText \in AnyText
    BY DEF AnyText
  <2>4. files' = [deleting.files EXCEPT ![deleting.path] = Absent]
    BY <1>20 DEF DeleteAnswered
  <2>5. files' \in FileTable /\ CleanTable(files')
    BY <2>1, <2>3, <2>4, GivenTexts, TableWith DEF Absent
  <2>6. pendingEdits' \in [Files -> AnyText]
    BY <1>20, <2>3 DEF DeleteAnswered, SourceInv
  <2> QED
    BY <1>20, <2>2, <2>5, <2>6 DEF DeleteAnswered, SourceInv, diskVars
<1>21. ASSUME NEW b \in Contents \union {NoText}, BackUpFile(b) PROVE SourceInv'
  BY <1>14, <1>21 DEF AnyText
<1>22. CASE UNCHANGED aptReposVars
  BY <1>1, <1>22 DEF aptReposVars, diskVars, editVars, requestVars, SourceInv
<1> QED
  BY <1>2, <1>3, <1>4, <1>5, <1>6, <1>7, <1>8, <1>9, <1>10, <1>11, <1>12, <1>14, <1>15, <1>16,
     <1>17, <1>19, <1>20, <1>21, <1>22 DEF AptReposNext

\* No text that a user typed and the lint refuses is ever in a file of a server,
\* in a backup or in what the tab would restore, and nothing that the lint
\* refuses is sent, for any files and any order of typing, saves, deletes and
\* reloads, saves that are cut off and answers that are lost (commitSave,
\* deleteFile and loadRepos of AptReposTab; write_apt_repo).
THEOREM NoBrokenSource == AptReposSpec => []NothingBrokenSaved
<1>1. ASSUME SourceInv PROVE NothingBrokenSaved
  <2>1. saving # Nothing => "error" \notin LintAptSource(saving.path, saving.text)
    BY <1>1 DEF SourceInv, SaveIsClean
  <2> QED
    BY <1>1, <2>1 DEF SourceInv, CleanTable, Clean, NothingBrokenSaved
<1> QED
  BY <1>1, FirstTexts, SourceInvStep, PTL DEF AptReposSpec

(***************************************************************************)
(* The ticks of the packages tab.  They can go wrong only while a read of  *)
(* the list is due, and its answer clears them or shows an error.          *)
(***************************************************************************)
tickVars == <<lists, listError, packages, filterSec, picked, pickedRemove, autoremove>>

LEMMA SameTicks == ASSUME TicksAreShown, UNCHANGED tickVars PROVE TicksAreShown'
  BY DEF TicksAreShown, Visible, tickVars

\* A read that is asked for is due, whatever the bound.
LEMMA ReadIsDue ==
    ASSUME NEW l
    PROVE  (IF Cardinality(lists) < MaxLists THEN lists \union {l} ELSE lists) # {}
<1>1. CASE lists = {}
  BY <1>1, FS_EmptySet, ServerTabsAssumption
<1>2. CASE lists # {}
  BY <1>2
<1> QED
  BY <1>1, <1>2

LEMMA TicksStep == TicksAreShown /\ [ServerTabsNext]_serverTabsVars => TicksAreShown'
<1> SUFFICES ASSUME TicksAreShown, [ServerTabsNext]_serverTabsVars PROVE TicksAreShown'
  OBVIOUS
<1>1. ASSUME NEW l, NEW ok \in BOOLEAN, ListAnswered(l, ok) PROVE TicksAreShown'
  BY <1>1 DEF ListAnswered, TicksAreShown
<1>2. ASSUME NEW h, NEW ok \in BOOLEAN, HoldAnswered(h, ok) PROVE TicksAreShown'
  <2>1. CASE ok
    BY <1>2, <2>1, ReadIsDue DEF HoldAnswered, TicksAreShown
  <2>2. CASE ~ok
    BY <1>2, <2>2, SameTicks DEF HoldAnswered, tickVars
  <2> QED
    BY <2>1, <2>2
<1>3. CASE Retry \/ CheckedAgain \/ CloseModal
  BY <1>3, ReadIsDue DEF Retry, CheckedAgain, CloseModal, LoadPackages, TicksAreShown
<1>4. ASSUME NEW p, ToggleOne(p) PROVE TicksAreShown'
  BY <1>4 DEF ToggleOne, PackageTable, Pick, Toggled, TicksOnly, TicksAreShown, Visible
<1>5. CASE SelectAll \/ SelectSecurity \/ ClearSelection
  BY <1>5 DEF SelectAll, SelectSecurity, ClearSelection, Pick, TicksOnly, TicksAreShown, Visible
<1>6. CASE ToggleSecurityFilter
  BY <1>6 DEF ToggleSecurityFilter, TicksOnly, TicksAreShown, Visible
<1>7. CASE SelectRemove
  BY <1>7 DEF SelectRemove, PickRemove, Toggled, TicksOnly, TicksAreShown, Visible
<1>8. ASSUME NEW p, NEW hold, SetHold(p, hold) PROVE TicksAreShown'
  BY <1>8, SameTicks DEF SetHold, packageListVars, shownVars, tickVars
<1>9. CASE UpgradeAll \/ UpgradeSelected \/ RemoveSelected \/ RemoveAll
            \/ StartSelectiveUpgrade \/ RunAutoremove
  BY <1>9, SameTicks DEF UpgradeAll, UpgradeSelected, RemoveSelected, RemoveAll, OpenModal,
     StartSelectiveUpgrade, RunAutoremove, StartModal, packageListVars, shownVars, tickVars
<1>10. ASSUME NEW ok, ModalRunEnds(ok) PROVE TicksAreShown'
  BY <1>10, SameTicks DEF ModalRunEnds, packageListVars, shownVars, tickVars
<1>11. ASSUME NEW i, Connect \/ ConnectFails \/ Disconnect \/ ShellOpens(i) \/ ShellCloses(i)
       PROVE  TicksAreShown'
  BY <1>11, SameTicks DEF Connect, ConnectFails, Disconnect, ShellOpens, ShellCloses, ShellOnly,
     packageVars, packageListVars, shownVars, tickVars
<1>12. ASSUME NEW who, NEW ok, SaveAnswered(who, ok) \/ ToggleEdit \/ EditField \/ HandleSave
              \/ PageReload
       PROVE  TicksAreShown'
  BY <1>12, SameTicks DEF SaveAnswered, ToggleEdit, EditField, HandleSave, PageReload, FormOnly,
     packageVars, packageListVars, shownVars, tickVars
<1>13. ASSUME NEW r, NEW s, RowArrives(r) \/ HandleAutoSecToggle \/ HandleAptProxyToggle
              \/ HandleEepromUpdate \/ FormRunEnds(s)
       PROVE  TicksAreShown'
  BY <1>13, SameTicks DEF RowArrives, HandleAutoSecToggle, HandleAptProxyToggle,
     HandleEepromUpdate, StartFormRun, FormRunEnds, FormOnly, packageVars, packageListVars, shownVars,
     tickVars
<1>14. ASSUME NEW t, SetView(t) PROVE TicksAreShown'
  BY <1>14 DEF SetView, TicksAreShown
<1>15. CASE UNCHANGED serverTabsVars
  BY <1>15, SameTicks DEF serverTabsVars, packageVars, packageListVars, shownVars, tickVars
<1> QED
  BY <1>1, <1>2, <1>3, <1>4, <1>5, <1>6, <1>7, <1>8, <1>9, <1>10, <1>11, <1>12, <1>13, <1>14,
     <1>15 DEF ServerTabsNext

\* With no read of the list due, the modals of the packages tab act on what is on
\* screen only, for any packages, filters, holds and failing reads.
THEOREM ActsOnTheShown == ServerTabsSpec => []TicksAreShown
<1>1. ServerTabsInit => TicksAreShown
  BY DEF ServerTabsInit, TicksAreShown
<1> QED
  BY <1>1, TicksStep, PTL DEF ServerTabsSpec

-----------------------------------------------------------------------------
(***************************************************************************)
(* The diff of two texts.  Its table and its lines are computed from the   *)
(* ends of the texts, place by place.                                      *)
(***************************************************************************)

\* How far a place is from the ends of both texts.
ToEnds(a, b) == [p \in Places(a, b) |-> (Len(a) + 1 - p[1]) + (Len(b) + 1 - p[2])]

LEMMA ToEndsIs ==
    ASSUME NEW V, NEW a \in Seq(V), NEW b \in Seq(V)
    PROVE  /\ Len(a) \in Nat /\ Len(b) \in Nat
           /\ ToEnds(a, b) \in [Places(a, b) -> 0..(Len(a) + Len(b))]
           /\ \A i \in 1..(Len(a) + 1), j \in 1..(Len(b) + 1) :
                 /\ <<i, j>> \in Places(a, b)
                 /\ ToEnds(a, b)[<<i, j>>] = (Len(a) + 1 - i) + (Len(b) + 1 - j)
           /\ \A p \in Places(a, b) : \E i \in 1..(Len(a) + 1), j \in 1..(Len(b) + 1) : p = <<i, j>>
<1>0. Len(a) \in Nat /\ Len(b) \in Nat
  OBVIOUS
<1>1. ToEnds(a, b) \in [Places(a, b) -> 0..(Len(a) + Len(b))]
  BY <1>0 DEF Places, ToEnds
<1>2. ASSUME NEW i \in 1..(Len(a) + 1), NEW j \in 1..(Len(b) + 1)
      PROVE  /\ <<i, j>> \in Places(a, b)
             /\ ToEnds(a, b)[<<i, j>>] = (Len(a) + 1 - i) + (Len(b) + 1 - j)
  BY <1>2 DEF Places, ToEnds
<1>3. \A p \in Places(a, b) : \E i \in 1..(Len(a) + 1), j \in 1..(Len(b) + 1) : p = <<i, j>>
  BY DEF Places
<1> QED
  BY <1>0, <1>1, <1>2, <1>3

\* The next places, where there are any, are nearer.
LEMMA NextIsNearer ==
    ASSUME NEW V, NEW a \in Seq(V), NEW b \in Seq(V),
           NEW i \in 1..(Len(a) + 1), NEW j \in 1..(Len(b) + 1), NEW m, m = ToEnds(a, b)
    PROVE  /\ i <= Len(a) => i + 1 \in 1..(Len(a) + 1) /\ <<i + 1, j>> \in Places(a, b) /\ m[<<i + 1, j>>] < m[<<i, j>>]
           /\ j <= Len(b) => j + 1 \in 1..(Len(b) + 1) /\ <<i, j + 1>> \in Places(a, b) /\ m[<<i, j + 1>>] < m[<<i, j>>]
           /\ i <= Len(a) /\ j <= Len(b) => <<i + 1, j + 1>> \in Places(a, b) /\ m[<<i + 1, j + 1>>] < m[<<i, j>>]
<1>0. /\ Len(a) \in Nat /\ Len(b) \in Nat
      /\ \A k \in 1..(Len(a) + 1), l \in 1..(Len(b) + 1) :
            /\ <<k, l>> \in Places(a, b)
            /\ m[<<k, l>>] = (Len(a) + 1 - k) + (Len(b) + 1 - l)
  BY ToEndsIs
<1>1. i <= Len(a) => i + 1 \in 1..(Len(a) + 1)
  BY <1>0
<1>2. j <= Len(b) => j + 1 \in 1..(Len(b) + 1)
  BY <1>0
<1> QED
  BY <1>0, <1>1, <1>2

\* What holds of a place if it holds of the next places, holds of all.
LEMMA PlacesInduction ==
    ASSUME NEW V, NEW a \in Seq(V), NEW b \in Seq(V), NEW P,
           \A i \in 1..(Len(a) + 1), j \in 1..(Len(b) + 1) :
              /\ i <= Len(a) => <<i + 1, j>> \in P
              /\ j <= Len(b) => <<i, j + 1>> \in P
              /\ i <= Len(a) /\ j <= Len(b) => <<i + 1, j + 1>> \in P
              => <<i, j>> \in P
    PROVE  \A i \in 1..(Len(a) + 1), j \in 1..(Len(b) + 1) : <<i, j>> \in P
<1> PICK m : m = ToEnds(a, b)
  OBVIOUS
<1>1. m \in [Places(a, b) -> Nat]
  BY ToEndsIs
<1>2. ASSUME NEW x \in Places(a, b), \A y \in Places(a, b) : m[y] < m[x] => y \in P
      PROVE  x \in P
  <2>1. PICK i \in 1..(Len(a) + 1), j \in 1..(Len(b) + 1) : x = <<i, j>>
    BY ToEndsIs
  <2> QED
    BY <1>2, <2>1, NextIsNearer
<1>3. Places(a, b) \subseteq P
  BY <1>1, <1>2, MeasureInduction, SMTT(20)
<1> QED
  BY <1>3, ToEndsIs

\* Two partial results agree wherever place <<i, j>> looks.
AgreeBelow(g, h, a, b, i, j) ==
    /\ i <= Len(a) => g[<<i + 1, j>>] = h[<<i + 1, j>>]
    /\ j <= Len(b) => g[<<i, j + 1>>] = h[<<i, j + 1>>]
    /\ i <= Len(a) /\ j <= Len(b) => g[<<i + 1, j + 1>>] = h[<<i + 1, j + 1>>]

\* A recursion over the places of two texts that looks at the next places only.
LooksBelow(a, b, W, step) ==
    /\ W # {} /\ step \in [Places(a, b) \X [Places(a, b) -> W] -> W]
    /\ \A i \in 1..(Len(a) + 1), j \in 1..(Len(b) + 1) : \A g, h \in [Places(a, b) -> W] :
          AgreeBelow(g, h, a, b, i, j) => step[<<<<i, j>>, g>>] = step[<<<<i, j>>, h>>]

LEMMA PlacesRecursion ==
    ASSUME NEW V, NEW a \in Seq(V), NEW b \in Seq(V), NEW W, NEW step,
           LooksBelow(a, b, W, step)
    PROVE  \E f \in [Places(a, b) -> W] : f = [p \in Places(a, b) |-> step[<<p, f>>]]
<1> DEFINE D == Places(a, b)
           N == Len(a) + Len(b)
<1> PICK m : m = ToEnds(a, b)
  OBVIOUS
<1>1. N \in Nat /\ m \in [D -> 0..N]
  BY ToEndsIs
<1>2. ASSUME NEW x \in D, NEW g \in [D -> W], NEW h \in [D -> W],
             \A y \in D : m[y] < m[x] => g[y] = h[y]
      PROVE  step[<<x, g>>] = step[<<x, h>>]
  <2>1. PICK i \in 1..(Len(a) + 1), j \in 1..(Len(b) + 1) : x = <<i, j>>
    BY ToEndsIs
  <2>2. AgreeBelow(g, h, a, b, i, j)
    BY <1>2, <2>1, NextIsNearer DEF AgreeBelow
  <2> QED
    BY <2>1, <2>2 DEF LooksBelow
<1>3. GoesDown(D, W, N, m, step)
  <2>1. W # {} /\ step \in [D \X [D -> W] -> W]
    BY DEF LooksBelow
  <2> HIDE DEF D, N
  <2> QED
    BY <1>1, <1>2, <2>1 DEF GoesDown
<1> QED
  <2> HIDE DEF D, N
  <2>1. \E f \in [D -> W] : f = [p \in D |-> step[<<p, f>>]]
    BY <1>3, Recursion
  <2> QED
    BY <2>1 DEF D

\* What the table holds at a place.
Cell(dp, a, b, i, j) ==
    IF i > Len(a) \/ j > Len(b) THEN 0
    ELSE IF a[i] = b[j] THEN dp[<<i + 1, j + 1>>] + 1
    ELSE Larger(dp[<<i + 1, j>>], dp[<<i, j + 1>>])

IsTable(dp, a, b) ==
    /\ dp \in [Places(a, b) -> Nat]
    /\ \A i \in 1..(Len(a) + 1), j \in 1..(Len(b) + 1) : dp[<<i, j>>] = Cell(dp, a, b, i, j)

LEMMA TableUnfolds ==
    ASSUME NEW V, NEW a \in Seq(V), NEW b \in Seq(V)
    PROVE  IsTable(LcsTable(a, b), a, b)
<1> DEFINE D == Places(a, b)
           body(g, p) == Cell(g, a, b, p[1], p[2])
           step == [q \in D \X [D -> Nat] |-> body(q[2], q[1])]
<1>0. Len(a) \in Nat /\ Len(b) \in Nat
  OBVIOUS
<1>1. ASSUME NEW i \in 1..(Len(a) + 1), NEW j \in 1..(Len(b) + 1), NEW g \in [D -> Nat]
      PROVE  Cell(g, a, b, i, j) \in Nat
  <2>1. i <= Len(a) => g[<<i + 1, j>>] \in Nat
    BY <1>0 DEF Places
  <2>2. j <= Len(b) => g[<<i, j + 1>>] \in Nat
    BY <1>0 DEF Places
  <2>3. i <= Len(a) /\ j <= Len(b) => g[<<i + 1, j + 1>>] \in Nat
    BY <1>0 DEF Places
  <2> HIDE DEF D
  <2> QED
    BY <1>0, <2>1, <2>2, <2>3 DEF Cell, Larger
<1>2. ASSUME NEW i \in 1..(Len(a) + 1), NEW j \in 1..(Len(b) + 1), NEW g, NEW h,
             AgreeBelow(g, h, a, b, i, j)
      PROVE  Cell(g, a, b, i, j) = Cell(h, a, b, i, j)
  BY <1>0, <1>2 DEF Cell, AgreeBelow
<1>3. LooksBelow(a, b, Nat, step)
  <2>1. Nat # {} /\ step \in [D \X [D -> Nat] -> Nat]
    <3>0. Nat # {}
      BY 0 \in Nat
    <3>1. ASSUME NEW p \in D, NEW g \in [D -> Nat] PROVE body(g, p) \in Nat
      <4>1. p[1] \in 1..(Len(a) + 1) /\ p[2] \in 1..(Len(b) + 1)
        BY DEF Places
      <4> QED
        BY <1>1, <4>1
    <3> HIDE DEF D, body
    <3> QED
      BY <3>0, <3>1
  <2>2. ASSUME NEW i \in 1..(Len(a) + 1), NEW j \in 1..(Len(b) + 1), NEW g \in [D -> Nat],
               NEW h \in [D -> Nat], AgreeBelow(g, h, a, b, i, j)
        PROVE  step[<<<<i, j>>, g>>] = step[<<<<i, j>>, h>>]
    <3>1. <<i, j>> \in D
      BY DEF Places
    <3>2. body(g, <<i, j>>) = body(h, <<i, j>>)
      BY <1>2, <2>2
    <3> HIDE DEF D, body
    <3> QED
      BY <3>1, <3>2
  <2> HIDE DEF step
  <2> QED
    BY <2>1, <2>2 DEF LooksBelow
<1>4. PICK f \in [D -> Nat] : f = [p \in D |-> step[<<p, f>>]]
  <2> HIDE DEF step
  <2> QED
    BY <1>3, PlacesRecursion
<1>5. f = [p \in D |-> body(f, p)]
  <2>1. \A p \in D : step[<<p, f>>] = body(f, p)
    <3> HIDE DEF D, body
    <3> QED
      OBVIOUS
  <2> HIDE DEF D, step, body
  <2> QED
    BY <1>4, <2>1
<1> DEFINE dp == CHOOSE dp : dp = [p \in D |-> body(dp, p)]
<1>6. LcsTable(a, b) = dp
  BY DEF LcsTable, Cell
<1>7. dp = [p \in D |-> body(dp, p)]
  BY <1>5
<1> HIDE DEF dp
<1>8. \A i \in 1..(Len(a) + 1), j \in 1..(Len(b) + 1) : dp[<<i, j>>] = Cell(dp, a, b, i, j)
  <2> SUFFICES ASSUME NEW i \in 1..(Len(a) + 1), NEW j \in 1..(Len(b) + 1)
               PROVE  dp[<<i, j>>] = body(dp, <<i, j>>)
    OBVIOUS
  <2>1. <<i, j>> \in D
    BY ToEndsIs
  <2> HIDE DEF D, body
  <2> QED
    BY <1>7, <2>1
<1>9. \A i \in 1..(Len(a) + 1), j \in 1..(Len(b) + 1) : dp[<<i, j>>] \in Nat
  <2> DEFINE P == {p \in D : dp[p] \in Nat}
  <2>1. ASSUME NEW i \in 1..(Len(a) + 1), NEW j \in 1..(Len(b) + 1),
               i <= Len(a) => <<i + 1, j>> \in P,
               j <= Len(b) => <<i, j + 1>> \in P,
               i <= Len(a) /\ j <= Len(b) => <<i + 1, j + 1>> \in P
        PROVE  <<i, j>> \in P
    <3>1. Cell(dp, a, b, i, j) \in Nat
      BY <1>0, <2>1, SMTT(20) DEF Cell, Larger
    <3> QED
      BY <1>8, <3>1, ToEndsIs
  <2>2. \A i \in 1..(Len(a) + 1), j \in 1..(Len(b) + 1) : <<i, j>> \in P
    <3> HIDE DEF P
    <3> QED
      BY <2>1, PlacesInduction
  <2> QED
    BY <2>2
<1>10. dp \in [D -> Nat]
  <2>1. \A p \in D : dp[p] \in Nat
    BY <1>9, ToEndsIs
  <2> HIDE DEF D, body
  <2> QED
    BY <1>7, <2>1
<1> QED
  BY <1>6, <1>8, <1>10 DEF IsTable

-----------------------------------------------------------------------------
\* What is shown from a place on.
DiffAt(from, dp, a, b, i, j) ==
    IF i > Len(a) /\ j > Len(b) THEN <<>>
    ELSE IF j > Len(b) THEN Cons(Op("del", a[i]), from[<<i + 1, j>>])
    ELSE IF i > Len(a) THEN Cons(Op("add", b[j]), from[<<i, j + 1>>])
    ELSE IF a[i] = b[j] THEN Cons(Op("same", a[i]), from[<<i + 1, j + 1>>])
    ELSE IF dp[<<i + 1, j>>] >= dp[<<i, j + 1>>] THEN Cons(Op("del", a[i]), from[<<i + 1, j>>])
    ELSE Cons(Op("add", b[j]), from[<<i, j + 1>>])

IsDiff(from, dp, a, b) ==
    \A i \in 1..(Len(a) + 1), j \in 1..(Len(b) + 1) : from[<<i, j>>] = DiffAt(from, dp, a, b, i, j)

DiffOps(V) == [type : {"same", "del", "add"}, text : V]

LEMMA OpIs ==
    ASSUME NEW V, NEW line \in V, NEW type \in {"same", "del", "add"}
    PROVE  Op(type, line) \in DiffOps(V) /\ Op(type, line).type = type /\ Op(type, line).text = line
  BY DEF Op, DiffOps

\* A longer diff.
LEMMA ConsOp ==
    ASSUME NEW W, NEW o \in W, NEW s \in Seq(W)
    PROVE  Cons(o, s) \in Seq(W)
  BY DEF Cons

LEMMA DiffUnfolds ==
    ASSUME NEW V, NEW a \in Seq(V), NEW b \in Seq(V), NEW dp, dp = LcsTable(a, b)
    PROVE  \E from : IsDiff(from, dp, a, b) /\ LineDiff(a, b) = from[<<1, 1>>]
<1> DEFINE D == Places(a, b)
           body(g, p) == DiffAt(g, dp, a, b, p[1], p[2])
           W == Seq(DiffOps(V))
           step == [q \in D \X [D -> W] |-> body(q[2], q[1])]
<1>0. Len(a) \in Nat /\ Len(b) \in Nat /\ <<>> \in W
  OBVIOUS
<1>1. ASSUME NEW i \in 1..(Len(a) + 1), NEW j \in 1..(Len(b) + 1), NEW g \in [D -> W]
      PROVE  DiffAt(g, dp, a, b, i, j) \in W
  <2>0. /\ i <= Len(a) => Op("del", a[i]) \in DiffOps(V) /\ Op("same", a[i]) \in DiffOps(V)
        /\ j <= Len(b) => Op("add", b[j]) \in DiffOps(V)
    <3>1. i <= Len(a) => a[i] \in V
      BY <1>0
    <3>2. j <= Len(b) => b[j] \in V
      BY <1>0
    <3> QED
      BY <3>1, <3>2, OpIs
  <2>1. /\ i <= Len(a) => <<i + 1, j>> \in D
        /\ j <= Len(b) => <<i, j + 1>> \in D
        /\ i <= Len(a) /\ j <= Len(b) => <<i + 1, j + 1>> \in D
    BY NextIsNearer
  <2>2. /\ i <= Len(a) => g[<<i + 1, j>>] \in W
        /\ j <= Len(b) => g[<<i, j + 1>>] \in W
        /\ i <= Len(a) /\ j <= Len(b) => g[<<i + 1, j + 1>>] \in W
    <3> HIDE DEF D, W
    <3> QED
      BY <2>1
  <2>4. i \in Nat /\ j \in Nat
    BY <1>0
  <2> HIDE DEF D
  <2> QED
    BY <1>0, <2>0, <2>2, <2>4, ConsOp DEF DiffAt
<1>2. ASSUME NEW i \in 1..(Len(a) + 1), NEW j \in 1..(Len(b) + 1), NEW g, NEW h,
             AgreeBelow(g, h, a, b, i, j)
      PROVE  DiffAt(g, dp, a, b, i, j) = DiffAt(h, dp, a, b, i, j)
  BY <1>0, <1>2 DEF DiffAt, AgreeBelow
<1>3. LooksBelow(a, b, W, step)
  <2>1. W # {} /\ step \in [D \X [D -> W] -> W]
    <3>1. ASSUME NEW p \in D, NEW g \in [D -> W] PROVE body(g, p) \in W
      <4>1. p[1] \in 1..(Len(a) + 1) /\ p[2] \in 1..(Len(b) + 1)
        BY DEF Places
      <4> QED
        BY <1>1, <4>1
    <3> HIDE DEF D, body, W
    <3> QED
      BY <1>0, <3>1
  <2>2. ASSUME NEW i \in 1..(Len(a) + 1), NEW j \in 1..(Len(b) + 1), NEW g \in [D -> W],
               NEW h \in [D -> W], AgreeBelow(g, h, a, b, i, j)
        PROVE  step[<<<<i, j>>, g>>] = step[<<<<i, j>>, h>>]
    <3>1. <<i, j>> \in D
      BY DEF Places
    <3>2. body(g, <<i, j>>) = body(h, <<i, j>>)
      BY <1>2, <2>2
    <3> HIDE DEF D, body, W
    <3> QED
      BY <3>1, <3>2
  <2> HIDE DEF step, W
  <2> QED
    BY <2>1, <2>2 DEF LooksBelow
<1>4. PICK f \in [D -> W] : f = [p \in D |-> step[<<p, f>>]]
  <2> HIDE DEF step, W
  <2> QED
    BY <1>3, PlacesRecursion
<1>5. f = [p \in D |-> body(f, p)]
  <2>1. \A p \in D : step[<<p, f>>] = body(f, p)
    <3> HIDE DEF D, body, W
    <3> QED
      OBVIOUS
  <2> HIDE DEF D, step, body, W
  <2> QED
    BY <1>4, <2>1
<1> DEFINE from == CHOOSE from : from = [p \in D |-> body(from, p)]
<1>6. LineDiff(a, b) = from[<<1, 1>>]
  BY DEF LineDiff, DiffAt
<1>7. from = [p \in D |-> body(from, p)]
  BY <1>5
<1> HIDE DEF from
<1>8. ASSUME NEW i \in 1..(Len(a) + 1), NEW j \in 1..(Len(b) + 1)
      PROVE  from[<<i, j>>] = body(from, <<i, j>>)
  <2>1. <<i, j>> \in D
    BY ToEndsIs
  <2> HIDE DEF D, body
  <2> QED
    BY <1>7, <2>1
<1> QED
  BY <1>6, <1>8 DEF IsDiff

-----------------------------------------------------------------------------
\* What is left of a text from a place on.
Rest(s, i) == SubSeq(s, i, Len(s))

LEMMA RestIs ==
    ASSUME NEW V, NEW s \in Seq(V)
    PROVE  /\ Len(s) \in Nat
           /\ Rest(s, 1) = s
           /\ \A i \in 1..(Len(s) + 1) :
                 i <= Len(s) => s[i] \in V /\ Rest(s, i) = Cons(s[i], Rest(s, i + 1))
<1>0. Len(s) \in Nat
  OBVIOUS
<1>1. Rest(s, 1) = s
  BY SubSeqFull DEF Rest
<1>2. ASSUME NEW i \in 1..(Len(s) + 1), i <= Len(s)
      PROVE  s[i] \in V /\ Rest(s, i) = Cons(s[i], Rest(s, i + 1))
  <2>1. i \in 1..Len(s) /\ Len(s) \in i..Len(s)
    BY <1>0, <1>2
  <2> QED
    BY <2>1, SubSeqRecursiveFirst DEF Rest, Cons
<1> QED
  BY <1>0, <1>1, <1>2

LEMMA TextIs ==
    ASSUME NEW V, NEW s \in Seq(DiffOps(V))
    PROVE  Text(s) \in Seq(V) /\ Len(Text(s)) = Len(s) /\ \A i \in 1..Len(s) : Text(s)[i] = s[i].text
<1>0. Len(s) \in Nat
  OBVIOUS
<1>1. \A i \in 1..Len(s) : s[i].text \in V
  <2>1. ASSUME NEW i \in 1..Len(s) PROVE s[i] \in DiffOps(V)
    OBVIOUS
  <2> QED
    BY <2>1 DEF DiffOps
<1>2. Text(s) = [i \in 1..Len(s) |-> s[i].text]
  BY DEF Text
<1>3. Text(s) \in [1..Len(s) -> V]
  BY <1>1, <1>2
<1>4. ASSUME NEW n \in Nat, NEW t \in [1..n -> V] PROVE t \in Seq(V) /\ Len(t) = n
  OBVIOUS
<1> QED
  BY <1>0, <1>2, <1>3, <1>4

LEMMA TextCons ==
    ASSUME NEW V, NEW s \in Seq(DiffOps(V)), NEW o \in DiffOps(V)
    PROVE  Text(Cons(o, s)) = Cons(o.text, Text(s))
<1> DEFINE t == Cons(o, s)
           u == Cons(o.text, Text(s))
<1>1. /\ t \in Seq(DiffOps(V)) /\ Len(t) = Len(s) + 1
      /\ t[1] = o /\ \A i \in 1..Len(s) : t[i + 1] = s[i]
  BY DEF Cons
<1>2. o.text \in V
  BY DEF DiffOps
<1>3. /\ u \in Seq(V) /\ Len(u) = Len(s) + 1
      /\ u[1] = o.text /\ \A i \in 1..Len(s) : u[i + 1] = s[i].text
  BY <1>2, TextIs DEF Cons
<1> HIDE DEF t, u
<1>4. Text(t) \in Seq(V) /\ Len(Text(t)) = Len(t) /\ \A i \in 1..Len(t) : Text(t)[i] = t[i].text
  BY <1>1, TextIs
<1>5. ASSUME NEW i \in 1..Len(t) PROVE Text(t)[i] = u[i]
  <2>1. CASE i = 1
    BY <1>1, <1>3, <1>4, <2>1
  <2>2. CASE i # 1
    <3>1. i - 1 \in 1..Len(s) /\ (i - 1) + 1 = i
      BY <1>1, <2>2
    <3>2. t[i] = s[i - 1] /\ u[i] = s[i - 1].text
      BY <1>1, <1>3, <3>1
    <3> QED
      BY <1>4, <3>2
  <2> QED
    BY <2>1, <2>2
<1>6. Text(t) = u
  BY <1>1, <1>3, <1>4, <1>5, SeqEqual
<1> QED
  BY <1>6 DEF t, u

\* The text of the lines of these types.
TextOf(ops, types) == Text(Lines(ops, types))

LEMMA TextOfNone == ASSUME NEW types PROVE TextOf(<<>>, types) = <<>>
<1>1. Lines(<<>>, types) = <<>>
  BY KeepNone DEF Lines
<1>2. Text(<<>>) = <<>>
  BY DEF Text
<1> QED
  BY <1>1, <1>2 DEF TextOf

LEMMA TextOfIs ==
    ASSUME NEW V, NEW s \in Seq(DiffOps(V)), NEW o \in DiffOps(V), NEW types
    PROVE  /\ TextOf(s, types) \in Seq(V)
           /\ TextOf(Cons(o, s), types) = IF o.type \in types THEN Cons(o.text, TextOf(s, types))
                                         ELSE TextOf(s, types)
<1> DEFINE t == Cons(o, s)
           keep == {n \in DOMAIN t : t[n].type \in types}
           rest == {n \in DOMAIN s : s[n].type \in types}
           shown == Keep(s, rest)
<1>1. /\ t \in Seq(DiffOps(V)) /\ Len(t) = Len(s) + 1 /\ DOMAIN t = 1..(Len(s) + 1)
      /\ t[1] = o /\ \A i \in 1..Len(s) : t[i + 1] = s[i]
  BY DEF Cons
<1>2. (\A n \in 1..Len(s) : n + 1 \in keep <=> n \in rest) /\ (1 \in keep <=> o.type \in types)
  <2> HIDE DEF t
  <2> QED
    BY <1>1
<1>3. Keep(t, keep) = IF 1 \in keep THEN Cons(o, shown) ELSE shown
  <2> HIDE DEF keep, rest
  <2> QED
    BY <1>2, KeepCons
<1>4. shown \in Seq(DiffOps(V))
  <2> HIDE DEF rest
  <2> QED
    BY KeepIs
<1>5. TextOf(t, types) = Text(Keep(t, keep)) /\ TextOf(s, types) = Text(shown)
  <2> HIDE DEF t
  <2> QED
    BY DEF TextOf, Lines
<1> HIDE DEF t, keep, shown
<1>6. Text(Cons(o, shown)) = Cons(o.text, Text(shown)) /\ Text(shown) \in Seq(V)
  BY <1>4, TextIs, TextCons
<1> QED
  BY <1>2, <1>3, <1>5, <1>6 DEF t

-----------------------------------------------------------------------------
\* From each place on, the diff is of what is left of the texts, and keeps as many
\* lines as the table says.
Exact(ops, a, b, i, j, kept) ==
    /\ TextOf(ops, {"same", "del"}) = Rest(a, i)
    /\ TextOf(ops, {"same", "add"}) = Rest(b, j)
    /\ Len(TextOf(ops, {"same"})) = kept

LEMMA ConsLen ==
    ASSUME NEW V, NEW v \in V, NEW s \in Seq(V)
    PROVE  Len(Cons(v, s)) = Len(s) + 1
  BY DEF Cons

LEMMA ExactCons ==
    ASSUME NEW V, NEW a \in Seq(V), NEW b \in Seq(V),
           NEW i \in 1..(Len(a) + 1), NEW j \in 1..(Len(b) + 1),
           NEW s \in Seq(DiffOps(V)), NEW kept
    PROVE  /\ i <= Len(a) /\ Exact(s, a, b, i + 1, j, kept) =>
                 /\ Cons(Op("del", a[i]), s) \in Seq(DiffOps(V))
                 /\ Exact(Cons(Op("del", a[i]), s), a, b, i, j, kept)
           /\ j <= Len(b) /\ Exact(s, a, b, i, j + 1, kept) =>
                 /\ Cons(Op("add", b[j]), s) \in Seq(DiffOps(V))
                 /\ Exact(Cons(Op("add", b[j]), s), a, b, i, j, kept)
           /\ /\ i <= Len(a) /\ j <= Len(b) /\ a[i] = b[j]
              /\ Exact(s, a, b, i + 1, j + 1, kept)
              => /\ Cons(Op("same", a[i]), s) \in Seq(DiffOps(V))
                 /\ Exact(Cons(Op("same", a[i]), s), a, b, i, j, kept + 1)
<1>1. i <= Len(a) => /\ a[i] \in V
                     /\ Rest(a, i) = Cons(a[i], Rest(a, i + 1))
  BY RestIs
<1>2. j <= Len(b) => /\ b[j] \in V
                     /\ Rest(b, j) = Cons(b[j], Rest(b, j + 1))
  BY RestIs
<1> DEFINE Longer(o, types) == IF o.type \in types THEN Cons(o.text, TextOf(s, types)) ELSE TextOf(s, types)
<1>3. ASSUME NEW o \in DiffOps(V)
      PROVE  /\ Cons(o, s) \in Seq(DiffOps(V))
             /\ TextOf(Cons(o, s), {"same", "del"}) = Longer(o, {"same", "del"})
             /\ TextOf(Cons(o, s), {"same", "add"}) = Longer(o, {"same", "add"})
             /\ TextOf(Cons(o, s), {"same"}) = Longer(o, {"same"})
             /\ TextOf(s, {"same"}) \in Seq(V)
  BY ConsOp, TextOfIs
<1>4. ASSUME i <= Len(a), Exact(s, a, b, i + 1, j, kept)
      PROVE  /\ Cons(Op("del", a[i]), s) \in Seq(DiffOps(V))
             /\ Exact(Cons(Op("del", a[i]), s), a, b, i, j, kept)
  <2>1. PICK o : o = Op("del", a[i])
    OBVIOUS
  <2>2. o \in DiffOps(V) /\ o.type = "del" /\ o.text = a[i]
    BY <1>1, <1>4, <2>1, OpIs
  <2>3. Exact(Cons(o, s), a, b, i, j, kept)
    BY <1>1, <1>3, <1>4, <2>2 DEF Exact
  <2> QED
    BY <1>3, <2>1, <2>2, <2>3
<1>5. ASSUME j <= Len(b), Exact(s, a, b, i, j + 1, kept)
      PROVE  /\ Cons(Op("add", b[j]), s) \in Seq(DiffOps(V))
             /\ Exact(Cons(Op("add", b[j]), s), a, b, i, j, kept)
  <2>1. PICK o : o = Op("add", b[j])
    OBVIOUS
  <2>2. o \in DiffOps(V) /\ o.type = "add" /\ o.text = b[j]
    BY <1>2, <1>5, <2>1, OpIs
  <2>3. Exact(Cons(o, s), a, b, i, j, kept)
    BY <1>2, <1>3, <1>5, <2>2 DEF Exact
  <2> QED
    BY <1>3, <2>1, <2>2, <2>3
<1>6. ASSUME i <= Len(a), j <= Len(b), a[i] = b[j], Exact(s, a, b, i + 1, j + 1, kept)
      PROVE  /\ Cons(Op("same", a[i]), s) \in Seq(DiffOps(V))
             /\ Exact(Cons(Op("same", a[i]), s), a, b, i, j, kept + 1)
  <2>1. PICK o : o = Op("same", a[i])
    OBVIOUS
  <2>2. o \in DiffOps(V) /\ o.type = "same" /\ o.text = a[i]
    BY <1>1, <1>6, <2>1, OpIs
  <2>3. Len(Cons(a[i], TextOf(s, {"same"}))) = kept + 1
    BY <1>1, <1>3, <1>6, <2>2, ConsLen DEF Exact
  <2>4. Exact(Cons(o, s), a, b, i, j, kept + 1)
    BY <1>1, <1>2, <1>3, <1>6, <2>2, <2>3 DEF Exact
  <2> QED
    BY <1>3, <2>1, <2>2, <2>4
<1> QED
  BY <1>4, <1>5, <1>6

LEMMA DiffIs ==
    ASSUME NEW V, NEW a \in Seq(V), NEW b \in Seq(V)
    PROVE  /\ LineDiff(a, b) \in Seq(DiffOps(V))
           /\ Exact(LineDiff(a, b), a, b, 1, 1, LcsTable(a, b)[<<1, 1>>])
<1>1. PICK dp : dp = LcsTable(a, b) /\ IsTable(dp, a, b)
  BY TableUnfolds
<1>2. PICK from : IsDiff(from, dp, a, b) /\ LineDiff(a, b) = from[<<1, 1>>]
  BY <1>1, DiffUnfolds
<1> DEFINE Is(ops, i, j) == ops \in Seq(DiffOps(V)) /\ Exact(ops, a, b, i, j, dp[<<i, j>>])
           P == {p \in Places(a, b) : Is(from[p], p[1], p[2])}
<1>3. Len(a) \in Nat /\ Len(b) \in Nat
  OBVIOUS
<1>4. ASSUME NEW i \in 1..(Len(a) + 1), NEW j \in 1..(Len(b) + 1),
             i <= Len(a) => <<i + 1, j>> \in P,
             j <= Len(b) => <<i, j + 1>> \in P,
             i <= Len(a) /\ j <= Len(b) => <<i + 1, j + 1>> \in P
      PROVE  <<i, j>> \in P
  <2>1. /\ dp[<<i, j>>] = Cell(dp, a, b, i, j)
        /\ from[<<i, j>>] = DiffAt(from, dp, a, b, i, j)
    BY <1>1, <1>2 DEF IsTable, IsDiff
  <2>2. ASSUME NEW k, NEW l, <<k, l>> \in P
        PROVE  Is(from[<<k, l>>], k, l) /\ dp[<<k, l>>] \in Nat
    <3>1. <<k, l>> \in Places(a, b) /\ Is(from[<<k, l>>], k, l)
      BY <2>2
    <3> QED
      BY <1>1, <3>1 DEF IsTable
  <2> HIDE DEF P
  <2>3. ASSUME Is(from[<<i, j>>], i, j) PROVE <<i, j>> \in P
    BY <2>3, ToEndsIs DEF P
  <2> HIDE DEF Is
  <2>4. CASE i > Len(a) /\ j > Len(b)
    <3>1. from[<<i, j>>] = <<>> /\ dp[<<i, j>>] = 0
      BY <2>1, <2>4 DEF DiffAt, Cell
    <3>2. Rest(a, i) = <<>> /\ Rest(b, j) = <<>>
      BY <1>3, <2>4, SubSeqEmpty DEF Rest
    <3>3. <<>> \in Seq(DiffOps(V)) /\ Exact(<<>>, a, b, i, j, 0)
      BY <3>2, TextOfNone DEF Exact
    <3> QED
      BY <2>3, <3>1, <3>3 DEF Is
  <2>5. ASSUME i <= Len(a), dp[<<i, j>>] = dp[<<i + 1, j>>],
               from[<<i, j>>] = Cons(Op("del", a[i]), from[<<i + 1, j>>])
        PROVE  <<i, j>> \in P
    <3>1. Is(from[<<i + 1, j>>], i + 1, j)
      BY <1>4, <2>2, <2>5
    <3>2. PICK s, kept : s = from[<<i + 1, j>>] /\ kept = dp[<<i + 1, j>>]
      OBVIOUS
    <3>3. s \in Seq(DiffOps(V)) /\ Exact(s, a, b, i + 1, j, kept)
      BY <3>1, <3>2 DEF Is
    <3>4. /\ Cons(Op("del", a[i]), s) \in Seq(DiffOps(V))
          /\ Exact(Cons(Op("del", a[i]), s), a, b, i, j, kept)
      BY <2>5, <3>3, ExactCons
    <3> QED
      BY <2>3, <2>5, <3>2, <3>4 DEF Is
  <2>6. ASSUME j <= Len(b), dp[<<i, j>>] = dp[<<i, j + 1>>],
               from[<<i, j>>] = Cons(Op("add", b[j]), from[<<i, j + 1>>])
        PROVE  <<i, j>> \in P
    <3>1. Is(from[<<i, j + 1>>], i, j + 1)
      BY <1>4, <2>2, <2>6
    <3>2. PICK s, kept : s = from[<<i, j + 1>>] /\ kept = dp[<<i, j + 1>>]
      OBVIOUS
    <3>3. s \in Seq(DiffOps(V)) /\ Exact(s, a, b, i, j + 1, kept)
      BY <3>1, <3>2 DEF Is
    <3>4. /\ Cons(Op("add", b[j]), s) \in Seq(DiffOps(V))
          /\ Exact(Cons(Op("add", b[j]), s), a, b, i, j, kept)
      BY <2>6, <3>3, ExactCons
    <3> QED
      BY <2>3, <2>6, <3>2, <3>4 DEF Is
  <2>7. ASSUME i <= Len(a), j <= Len(b), a[i] = b[j], dp[<<i, j>>] = dp[<<i + 1, j + 1>>] + 1,
               from[<<i, j>>] = Cons(Op("same", a[i]), from[<<i + 1, j + 1>>])
        PROVE  <<i, j>> \in P
    <3>1. Is(from[<<i + 1, j + 1>>], i + 1, j + 1)
      BY <1>4, <2>2, <2>7
    <3> QED
      BY <2>3, <2>7, <3>1, ExactCons DEF Is
  <2>8. CASE i <= Len(a) /\ j > Len(b)
    <3>1. i + 1 \in 1..(Len(a) + 1)
      BY <1>3, <2>8
    <3>2. dp[<<i, j>>] = 0 /\ dp[<<i + 1, j>>] = 0
      BY <1>1, <1>3, <2>8, <3>1 DEF IsTable, Cell
    <3> QED
      BY <1>3, <2>1, <2>5, <2>8, <3>2 DEF DiffAt
  <2>9. CASE i > Len(a) /\ j <= Len(b)
    <3>1. j + 1 \in 1..(Len(b) + 1)
      BY <1>3, <2>9
    <3>2. dp[<<i, j>>] = 0 /\ dp[<<i, j + 1>>] = 0
      BY <1>1, <1>3, <2>9, <3>1 DEF IsTable, Cell
    <3> QED
      BY <1>3, <2>1, <2>6, <2>9, <3>2 DEF DiffAt
  <2>10. CASE i <= Len(a) /\ j <= Len(b) /\ a[i] = b[j]
    BY <1>3, <2>1, <2>7, <2>10 DEF DiffAt, Cell
  <2>11. CASE i <= Len(a) /\ j <= Len(b) /\ a[i] # b[j]
    <3>1. dp[<<i + 1, j>>] \in Nat /\ dp[<<i, j + 1>>] \in Nat
      BY <1>4, <2>2, <2>11
    <3>2. dp[<<i, j>>] = Larger(dp[<<i + 1, j>>], dp[<<i, j + 1>>])
      BY <1>3, <2>1, <2>11 DEF Cell
    <3> QED
      BY <1>3, <2>1, <2>5, <2>6, <2>11, <3>1, <3>2 DEF DiffAt, Larger
  <2> QED
    BY <1>3, <2>4, <2>8, <2>9, <2>10, <2>11
<1>5. \A i \in 1..(Len(a) + 1), j \in 1..(Len(b) + 1) : <<i, j>> \in P
  <2> HIDE DEF P
  <2> QED
    BY <1>4, PlacesInduction
<1>6. <<1, 1>> \in P
  <2> HIDE DEF P
  <2> QED
    BY <1>3, <1>5
<1> QED
  BY <1>1, <1>2, <1>6

-----------------------------------------------------------------------------
\* The lines of s from the k-th on are found, in their order, in t from the i-th on.
Found(s, k, t, i) ==
    \E where \in [k..Len(s) -> i..Len(t)] :
        /\ \A m, n \in k..Len(s) : m < n => where[m] < where[n]
        /\ \A n \in k..Len(s) : s[n] = t[where[n]]

\* The first of them is where t begins, and the others are behind it, or all are
\* behind it.
LEMMA FoundBehind ==
    ASSUME NEW V, NEW s \in Seq(V), NEW t \in Seq(V), NEW k \in 1..Len(s),
           NEW i \in 1..(Len(t) + 1), Found(s, k, t, i)
    PROVE  /\ i <= Len(t)
           /\ Found(s, k + 1, t, i + 1)
           /\ s[k] # t[i] => Found(s, k, t, i + 1)
<1>0. Len(s) \in Nat /\ Len(t) \in Nat /\ k \in Nat /\ i \in Nat /\ k \in k..Len(s)
  OBVIOUS
<1>1. PICK w \in [k..Len(s) -> i..Len(t)] :
          /\ \A m, n \in k..Len(s) : m < n => w[m] < w[n]
          /\ \A n \in k..Len(s) : s[n] = t[w[n]]
  BY DEF Found
<1>2. \A n \in k..Len(s) : w[n] \in i..Len(t)
  OBVIOUS
<1>3. i <= Len(t)
  BY <1>0, <1>2
<1>4. Found(s, k + 1, t, i + 1)
  <2> DEFINE v == [n \in (k + 1)..Len(s) |-> w[n]]
  <2>1. ASSUME NEW n \in (k + 1)..Len(s)
        PROVE  n \in k..Len(s) /\ w[n] \in (i + 1)..Len(t) /\ v[n] = w[n]
    <3>1. n \in k..Len(s) /\ k < n
      BY <1>0
    <3>2. w[k] < w[n] /\ w[k] \in i..Len(t) /\ w[n] \in i..Len(t)
      BY <1>0, <1>1, <1>2, <3>1
    <3>3. w[n] \in (i + 1)..Len(t)
      BY <1>0, <3>2
    <3> QED
      BY <3>1, <3>3
  <2>2. v \in [(k + 1)..Len(s) -> (i + 1)..Len(t)]
    BY <2>1
  <2> HIDE DEF v
  <2>3. /\ \A m, n \in (k + 1)..Len(s) : m < n => v[m] < v[n]
        /\ \A n \in (k + 1)..Len(s) : s[n] = t[v[n]]
    BY <1>1, <2>1
  <2> QED
    BY <2>2, <2>3 DEF Found
<1>5. ASSUME s[k] # t[i] PROVE Found(s, k, t, i + 1)
  <2>1. ASSUME NEW n \in k..Len(s) PROVE w[n] \in (i + 1)..Len(t)
    <3>1. w[k] \in i..Len(t) /\ w[k] # i
      BY <1>0, <1>1, <1>2, <1>5
    <3>2. w[n] \in i..Len(t) /\ (n = k \/ w[k] < w[n])
      BY <1>0, <1>1, <1>2
    <3> QED
      BY <1>0, <3>1, <3>2
  <2>2. w \in [k..Len(s) -> (i + 1)..Len(t)]
    BY <2>1
  <2> QED
    BY <1>1, <2>2 DEF Found
<1> QED
  BY <1>3, <1>4, <1>5

\* What the two texts have in common from a place on is no longer than the table
\* says.
LEMMA TableIsLongest ==
    ASSUME NEW V, NEW a \in Seq(V), NEW b \in Seq(V), NEW s \in Seq(V),
           Found(s, 1, a, 1), Found(s, 1, b, 1)
    PROVE  Len(s) <= LcsTable(a, b)[<<1, 1>>]
<1>1. PICK dp : dp = LcsTable(a, b) /\ IsTable(dp, a, b)
  BY TableUnfolds
<1> DEFINE Longest(i, j) == \A k \in 1..(Len(s) + 1) :
                               Found(s, k, a, i) /\ Found(s, k, b, j) => Len(s) + 1 - k <= dp[<<i, j>>]
           P == {p \in Places(a, b) : Longest(p[1], p[2])}
<1>2. Len(a) \in Nat /\ Len(b) \in Nat /\ Len(s) \in Nat
  OBVIOUS
<1>3. ASSUME NEW i \in 1..(Len(a) + 1), NEW j \in 1..(Len(b) + 1),
             i <= Len(a) => <<i + 1, j>> \in P,
             j <= Len(b) => <<i, j + 1>> \in P,
             i <= Len(a) /\ j <= Len(b) => <<i + 1, j + 1>> \in P
      PROVE  <<i, j>> \in P
  <2>1. ASSUME NEW k \in 1..(Len(s) + 1), Found(s, k, a, i), Found(s, k, b, j)
        PROVE  Len(s) + 1 - k <= dp[<<i, j>>]
    <3>1. dp[<<i, j>>] = Cell(dp, a, b, i, j) /\ dp[<<i, j>>] \in Nat
      BY <1>1, ToEndsIs DEF IsTable
    <3>2. CASE k = Len(s) + 1
      BY <1>2, <3>1, <3>2
    <3>3. CASE k # Len(s) + 1
      <4>1. k \in 1..Len(s) /\ k + 1 \in 1..(Len(s) + 1)
        BY <1>2, <3>3
      <4>2. /\ i <= Len(a) /\ j <= Len(b)
            /\ Found(s, k + 1, a, i + 1) /\ Found(s, k + 1, b, j + 1)
            /\ s[k] # a[i] => Found(s, k, a, i + 1)
            /\ s[k] # b[j] => Found(s, k, b, j + 1)
        BY <2>1, <4>1, FoundBehind
      <4>3. Longest(i + 1, j) /\ Longest(i, j + 1) /\ Longest(i + 1, j + 1)
        BY <1>3, <4>2
      <4>4. /\ dp[<<i + 1, j>>] \in Nat /\ dp[<<i, j + 1>>] \in Nat
            /\ dp[<<i + 1, j + 1>>] \in Nat
        <5>1. /\ <<i + 1, j>> \in Places(a, b) /\ <<i, j + 1>> \in Places(a, b)
              /\ <<i + 1, j + 1>> \in Places(a, b)
          BY <1>3, <4>2
        <5> QED
          BY <1>1, <5>1 DEF IsTable
      <4>5. CASE a[i] = b[j]
        <5>1. dp[<<i, j>>] = dp[<<i + 1, j + 1>>] + 1
          BY <1>2, <3>1, <4>2, <4>5, SMTT(20) DEF Cell
        <5>2. Len(s) + 1 - (k + 1) <= dp[<<i + 1, j + 1>>]
          BY <4>1, <4>2, <4>3
        <5>3. k \in Nat /\ Len(s) \in Nat
          BY <1>2, <4>1
        <5>4. ASSUME NEW x \in Nat, Len(s) + 1 - (k + 1) <= x PROVE Len(s) + 1 - k <= x + 1
          BY <5>3, <5>4
        <5> QED
          BY <4>4, <5>1, <5>2, <5>4
      <4>6. CASE a[i] # b[j]
        <5>1. dp[<<i, j>>] = Larger(dp[<<i + 1, j>>], dp[<<i, j + 1>>])
          BY <1>2, <3>1, <4>2, <4>6, SMTT(20) DEF Cell
        <5>2. Len(s) + 1 - k <= dp[<<i + 1, j>>] \/ Len(s) + 1 - k <= dp[<<i, j + 1>>]
          BY <2>1, <4>2, <4>3, <4>6
        <5>3. k \in Nat /\ Len(s) \in Nat
          BY <1>2, <4>1
        <5>4. ASSUME NEW x \in Nat, NEW y \in Nat, Len(s) + 1 - k <= x \/ Len(s) + 1 - k <= y
              PROVE  Len(s) + 1 - k <= Larger(x, y)
          BY <5>3, <5>4 DEF Larger
        <5> QED
          BY <4>4, <5>1, <5>2, <5>4
      <4> QED
        BY <4>5, <4>6
    <3> QED
      BY <3>2, <3>3
  <2> QED
    BY <2>1, ToEndsIs
<1>4. \A i \in 1..(Len(a) + 1), j \in 1..(Len(b) + 1) : <<i, j>> \in P
  <2> HIDE DEF P
  <2> QED
    BY <1>3, PlacesInduction
<1>5. Longest(1, 1)
  <2>1. <<1, 1>> \in P
    <3> HIDE DEF P
    <3> QED
      BY <1>2, <1>4
  <2> QED
    BY <2>1
<1> QED
  BY <1>1, <1>2, <1>5

\* The diff of two texts is of these texts, and keeps what they have in common.
LEMMA DiffExact ==
    ASSUME NEW V, NEW a \in Seq(V), NEW b \in Seq(V), NEW ops, ops = LineDiff(a, b)
    PROVE  /\ ops \in Seq(DiffOps(V))
           /\ Text(Lines(ops, {"same", "del"})) = a
           /\ Text(Lines(ops, {"same", "add"})) = b
           /\ \A s \in Seq(V) : IsSubsequence(s, a) /\ IsSubsequence(s, b)
                                => Len(s) <= Len(Text(Lines(ops, {"same"})))
<1>1. ops \in Seq(DiffOps(V)) /\ Exact(ops, a, b, 1, 1, LcsTable(a, b)[<<1, 1>>])
  BY DiffIs
<1>2. Rest(a, 1) = a /\ Rest(b, 1) = b
  BY RestIs
<1>3. ASSUME NEW s \in Seq(V), IsSubsequence(s, a), IsSubsequence(s, b)
      PROVE  Len(s) <= LcsTable(a, b)[<<1, 1>>]
  <2>1. Found(s, 1, a, 1) /\ Found(s, 1, b, 1)
    BY <1>3 DEF IsSubsequence, Found
  <2> QED
    BY <2>1, TableIsLongest
<1> QED
  BY <1>1, <1>2, <1>3 DEF Exact, TextOf

-----------------------------------------------------------------------------
(***************************************************************************)
(* The rows that a diff is shown in.                                       *)
(***************************************************************************)
ShownRows(V) == DiffOps(V) \union [type : {"skip"}, count : Nat]

WidthOf(r) == IF r.type = "skip" THEN r.count ELSE 1

\* A row that begins at the operation `from` and ends before `to`.
RowShows(r, ops, from, to) ==
    IF r.type # "skip" THEN r = ops[from]
    ELSE /\ r.count > 0
         /\ \A k \in (from - Context)..(to - 1 + Context) :
               k \in 1..Len(ops) => ops[k].type = "same"

\* Where each row begins, if rows show the operations from i on and before j.
Begins(at, rows, ops, i, j) ==
    /\ at \in [1..(Len(rows) + 1) -> Nat]
    /\ at[1] = i /\ at[Len(rows) + 1] = j
    /\ \A n \in 1..Len(rows) : /\ at[n + 1] = at[n] + WidthOf(rows[n])
                              /\ RowShows(rows[n], ops, at[n], at[n + 1])

Shows(rows, ops, i, j) == \E at : Begins(at, rows, ops, i, j)

\* Operations show themselves, ...
LEMMA OpsShow ==
    ASSUME NEW V, NEW ops \in Seq(DiffOps(V)), NEW i \in 1..(Len(ops) + 1), NEW j \in i..(Len(ops) + 1)
    PROVE  /\ SubSeq(ops, i, j - 1) \in Seq(ShownRows(V))
           /\ Shows(SubSeq(ops, i, j - 1), ops, i, j)
<1> DEFINE rows == SubSeq(ops, i, j - 1)
           at == [n \in 1..(Len(rows) + 1) |-> i + n - 1]
<1>0. /\ Len(ops) \in Nat /\ i \in Nat /\ j \in Nat /\ i >= 1 /\ i <= j /\ j <= Len(ops) + 1
      /\ \A k \in i..(j - 1) : k \in 1..Len(ops) /\ ops[k] \in DiffOps(V)
  OBVIOUS
<1>1. /\ rows \in Seq(DiffOps(V)) /\ Len(rows) = j - i
      /\ \A n \in 1..(j - i) : rows[n] = ops[i + n - 1]
  <2>1. /\ rows \in Seq(DiffOps(V))
        /\ Len(rows) = IF i <= j - 1 THEN (j - 1) - i + 1 ELSE 0
        /\ \A n \in 1..((j - 1) - i + 1) : rows[n] = ops[i + n - 1]
    BY <1>0, SubSeqProperties
  <2> HIDE DEF rows
  <2> QED
    BY <1>0, <2>1
<1> HIDE DEF rows
<1>2. rows \in Seq(ShownRows(V))
  BY <1>1, SeqMonotonic DEF ShownRows
<1>3. at \in [1..(Len(rows) + 1) -> Nat] /\ at[1] = i /\ at[Len(rows) + 1] = j
  BY <1>0, <1>1
<1>4. ASSUME NEW n \in 1..Len(rows)
      PROVE  /\ at[n + 1] = at[n] + WidthOf(rows[n])
             /\ RowShows(rows[n], ops, at[n], at[n + 1])
  <2>1. at[n] = i + n - 1 /\ at[n + 1] = i + n
    BY <1>0, <1>1
  <2>2. rows[n] = ops[at[n]] /\ rows[n].type # "skip"
    <3>1. rows[n] = ops[at[n]] /\ rows[n] \in DiffOps(V)
      BY <1>0, <1>1, <2>1
    <3> QED
      BY <3>1 DEF DiffOps
  <2> HIDE DEF at
  <2> QED
    BY <1>0, <1>1, <2>1, <2>2 DEF WidthOf, RowShows
<1> HIDE DEF at
<1>5. Begins(at, rows, ops, i, j)
  BY <1>3, <1>4 DEF Begins
<1> QED
  BY <1>2, <1>5 DEF Shows, rows

\* ... unchanged ones a line that hides them, ...
LEMMA SkipShows ==
    ASSUME NEW V, NEW ops \in Seq(DiffOps(V)), NEW i \in Nat, NEW j \in Nat, i < j,
           \A k \in (i - Context)..(j - 1 + Context) : k \in 1..Len(ops) => ops[k].type = "same"
    PROVE  Skip(j - i) \in Seq(ShownRows(V)) /\ Shows(Skip(j - i), ops, i, j)
<1>1. PICK r : r = [type |-> "skip", count |-> j - i]
  OBVIOUS
<1>2. r.type = "skip" /\ r.count = j - i /\ r \in ShownRows(V)
  BY <1>1 DEF ShownRows
<1>3. Skip(j - i) = <<r>>
  BY <1>1 DEF Skip
<1>4. RowShows(r, ops, i, j) /\ j = i + WidthOf(r)
  BY <1>2 DEF RowShows, WidthOf
<1> DEFINE at == <<i, j>>
<1>5. /\ <<r>> \in Seq(ShownRows(V)) /\ Len(<<r>>) = 1 /\ <<r>>[1] = r
      /\ at \in [1..2 -> Nat] /\ at[1] = i /\ at[2] = j
  BY <1>2
<1> HIDE DEF at
<1>6. Begins(at, <<r>>, ops, i, j)
  BY <1>4, <1>5 DEF Begins
<1> QED
  BY <1>3, <1>5, <1>6 DEF Shows

\* ... and rows after rows what both show.
LEMMA RowsAfterRows ==
    ASSUME NEW V, NEW ops, NEW q \in Seq(ShownRows(V)), NEW r \in Seq(ShownRows(V)),
           NEW i, NEW j, NEW k, Shows(q, ops, i, j), Shows(r, ops, j, k)
    PROVE  q \o r \in Seq(ShownRows(V)) /\ Shows(q \o r, ops, i, k)
<1> DEFINE t == q \o r
<1>1. PICK x : Begins(x, q, ops, i, j)
  BY DEF Shows
<1>2. PICK y : Begins(y, r, ops, j, k)
  BY DEF Shows
<1>3. /\ Len(q) \in Nat /\ Len(r) \in Nat
      /\ t \in Seq(ShownRows(V)) /\ Len(t) = Len(q) + Len(r)
      /\ \A n \in 1..Len(t) : t[n] = IF n <= Len(q) THEN q[n] ELSE r[n - Len(q)]
  BY ConcatProperties
<1> HIDE DEF t
<1> DEFINE at == [n \in 1..(Len(t) + 1) |-> IF n <= Len(q) THEN x[n] ELSE y[n - Len(q)]]
<1>4. /\ x \in [1..(Len(q) + 1) -> Nat] /\ x[1] = i /\ x[Len(q) + 1] = j
      /\ y \in [1..(Len(r) + 1) -> Nat] /\ y[1] = j /\ y[Len(r) + 1] = k
  BY <1>1, <1>2 DEF Begins
<1>5. \A n \in 1..(Len(t) + 1) : n > Len(q) => n - Len(q) \in 1..(Len(r) + 1)
  BY <1>3
<1>6. at \in [1..(Len(t) + 1) -> Nat]
  BY <1>3, <1>4, <1>5
<1>7. \A n \in 1..(Len(q) + 1) : at[n] = x[n]
  BY <1>3, <1>4
<1>8. \A n \in 1..(Len(r) + 1) : at[Len(q) + n] = y[n]
  BY <1>3, <1>4
<1> HIDE DEF at
<1>9. at[1] = i /\ at[Len(t) + 1] = k
  BY <1>3, <1>4, <1>7, <1>8
<1>10. ASSUME NEW n \in 1..Len(t)
       PROVE  /\ at[n + 1] = at[n] + WidthOf(t[n])
              /\ RowShows(t[n], ops, at[n], at[n + 1])
  <2>1. CASE n <= Len(q)
    <3>1. n \in 1..Len(q) /\ n + 1 \in 1..(Len(q) + 1) /\ n \in 1..(Len(q) + 1) /\ t[n] = q[n]
      BY <1>3, <2>1
    <3> QED
      BY <1>1, <1>7, <3>1 DEF Begins
  <2>2. CASE n > Len(q)
    <3> DEFINE m == n - Len(q)
    <3>0. n \in Nat /\ n <= Len(q) + Len(r) /\ t[n] = r[n - Len(q)]
      BY <1>3, <2>2
    <3>1. m \in 1..Len(r) /\ n = Len(q) + m /\ t[n] = r[m] /\ n + 1 = Len(q) + (m + 1)
      BY <1>3, <2>2, <3>0
    <3> HIDE DEF m
    <3>2. m \in 1..(Len(r) + 1) /\ m + 1 \in 1..(Len(r) + 1)
      BY <1>3, <3>1
    <3>3. at[n] = y[m] /\ at[n + 1] = y[m + 1]
      BY <1>8, <3>1, <3>2
    <3> QED
      BY <1>2, <3>1, <3>3 DEF Begins
  <2> QED
    BY <1>3, <2>1, <2>2
<1>11. Begins(at, t, ops, i, k)
  BY <1>6, <1>9, <1>10 DEF Begins
<1> QED
  BY <1>3, <1>11 DEF Shows, t

\* The first change from a place on, or the end, is there.
LEMMA RunEndIs ==
    ASSUME NEW V, NEW ops \in Seq(DiffOps(V)), NEW i \in 1..(Len(ops) + 1)
    PROVE  /\ RunEnd(ops, i) \in i..(Len(ops) + 1)
           /\ \A k \in i..(RunEnd(ops, i) - 1) : ops[k].type = "same"
           /\ i <= Len(ops) /\ ops[i].type = "same" => RunEnd(ops, i) \in (i + 1)..(Len(ops) + 1)
<1> DEFINE Ends(h, j) == /\ j \in h..(Len(ops) + 1)
                         /\ \A k \in h..(j - 1) : ops[k].type = "same"
                         /\ j > Len(ops) \/ ops[j].type # "same"
           P == {h \in Nat : \E j : Ends(h, j)}
<1>0. Len(ops) \in Nat
  OBVIOUS
<1>1. Len(ops) + 1 \in P
  <2>1. Ends(Len(ops) + 1, Len(ops) + 1)
    BY <1>0
  <2> QED
    BY <1>0, <2>1
<1>2. ASSUME NEW h \in 1..Len(ops), h + 1 \in P PROVE h \in P
  <2>1. CASE ops[h].type # "same"
    <3>1. Ends(h, h)
      BY <1>0, <2>1
    <3> QED
      BY <3>1
  <2>2. CASE ops[h].type = "same"
    <3>1. PICK j : Ends(h + 1, j)
      BY <1>2
    <3>2. Ends(h, j)
      <4>1. ASSUME NEW k \in h..(j - 1) PROVE ops[k].type = "same"
        <5>1. k = h \/ k \in (h + 1)..(j - 1)
          BY <1>0, <3>1
        <5> QED
          BY <2>2, <3>1, <5>1
      <4> QED
        BY <1>0, <3>1, <4>1
    <3> QED
      BY <3>2
  <2> QED
    BY <2>1, <2>2
<1>3. i \in P
  <2> HIDE DEF P
  <2> QED
    BY <1>0, <1>1, <1>2, DownInduction
<1>4. PICK j : Ends(i, j)
  BY <1>3
<1>5. Ends(i, RunEnd(ops, i))
  BY <1>4 DEF RunEnd
<1> QED
  BY <1>0, <1>5

\* What is shown from a place on.
RowsAt(rows, ops, i) ==
    IF i > Len(ops) THEN <<>>
    ELSE IF ops[i].type # "same" THEN <<ops[i]>> \o rows[i + 1]
    ELSE LET j == RunEnd(ops, i) IN
         (IF j - i <= 2 * Context THEN SubSeq(ops, i, j - 1)
          ELSE SubSeq(ops, i, i + Context - 1) \o Skip(j - i - 2 * Context)
                 \o SubSeq(ops, j - Context, j - 1))
         \o rows[j]

\* What is shown from a place on is a row or a few, which show the operations there,
\* and what is shown further on.
LEMMA RowsAtIs ==
    ASSUME NEW V, NEW ops \in Seq(DiffOps(V)), NEW i \in 1..Len(ops)
    PROVE  \E j \in (i + 1)..(Len(ops) + 1), q \in Seq(ShownRows(V)) :
              Shows(q, ops, i, j) /\ \A rows : RowsAt(rows, ops, i) = q \o rows[j]
<1>0. Len(ops) \in Nat /\ Context = 2 /\ i \in Nat /\ ~(i > Len(ops)) /\ i \in 1..(Len(ops) + 1)
  BY DEF Context
<1>1. CASE ops[i].type # "same"
  <2>1. /\ i + 1 \in (i + 1)..(Len(ops) + 1) /\ i + 1 \in i..(Len(ops) + 1)
        /\ (i + 1) - 1 = i /\ i \in i..Len(ops)
        /\ i \in Int /\ i + 1 \in Int /\ i < i + 1
    BY <1>0
  <2>2. PICK first : first = SubSeq(ops, i, (i + 1) - 1)
    OBVIOUS
  <2>3. first \in Seq(ShownRows(V)) /\ Shows(first, ops, i, i + 1)
    BY <1>0, <2>1, <2>2, OpsShow
  <2>4. first = <<ops[i]>>
    <3>1. first = <<ops[i]>> \o SubSeq(ops, i + 1, i)
      BY <2>1, <2>2, SubSeqRecursiveFirst
    <3>2. SubSeq(ops, i + 1, i) = <<>>
      BY <2>1, SubSeqEmpty
    <3>3. ops[i] \in DiffOps(V)
      OBVIOUS
    <3>4. <<ops[i]>> \in Seq(DiffOps(V))
      BY <3>3
    <3> QED
      BY <3>1, <3>2, <3>4, ConcatEmptySeq
  <2>5. \A rows : RowsAt(rows, ops, i) = first \o rows[i + 1]
    BY <1>0, <1>1, <2>4 DEF RowsAt
  <2> QED
    BY <2>1, <2>3, <2>5
<1>2. CASE ops[i].type = "same"
  <2>1. PICK j \in (i + 1)..(Len(ops) + 1) : /\ j = RunEnd(ops, i)
                                           /\ \A k \in i..(j - 1) : ops[k].type = "same"
    BY <1>0, <1>2, RunEndIs
  <2>2. j \in i..(Len(ops) + 1) /\ j \in Nat
    BY <1>0
  <2>3. \A rows : RowsAt(rows, ops, i) =
          (IF j - i <= 2 * Context THEN SubSeq(ops, i, j - 1)
           ELSE SubSeq(ops, i, i + Context - 1) \o Skip(j - i - 2 * Context)
                  \o SubSeq(ops, j - Context, j - 1))
          \o rows[j]
    BY <1>0, <1>2, <2>1 DEF RowsAt
  <2>4. CASE j - i <= 2 * Context
    <3>1. PICK run : run = SubSeq(ops, i, j - 1)
      OBVIOUS
    <3>2. run \in Seq(ShownRows(V)) /\ Shows(run, ops, i, j)
      BY <1>0, <2>2, <3>1, OpsShow
    <3>3. \A rows : RowsAt(rows, ops, i) = run \o rows[j]
      BY <2>3, <2>4, <3>1
    <3> QED
      BY <3>2, <3>3
  <2>5. CASE ~(j - i <= 2 * Context)
    <3>1. PICK x, y : x = i + Context /\ y = j - Context
      OBVIOUS
    <3>2. PICK first, skip, last : /\ first = SubSeq(ops, i, x - 1)
                                   /\ skip = Skip(y - x)
                                   /\ last = SubSeq(ops, y, j - 1)
      OBVIOUS
    <3>3. /\ x \in i..(Len(ops) + 1) /\ x \in Nat /\ y \in Nat /\ x < y
          /\ y \in 1..(Len(ops) + 1) /\ j \in y..(Len(ops) + 1)
          /\ x - 1 = i + Context - 1 /\ y - x = j - i - 2 * Context
          /\ \A k \in (x - Context)..(y - 1 + Context) : k \in i..(j - 1)
      BY <1>0, <2>2, <2>5, <3>1
    <3>4. PICK run : run = (first \o skip) \o last
      OBVIOUS
    <3>5. \A rows : RowsAt(rows, ops, i) = run \o rows[j]
      <4>1. SubSeq(ops, i, i + Context - 1) = first
        BY <3>2, <3>3, Zenon
      <4>2. Skip(j - i - 2 * Context) = skip
        BY <3>2, <3>3, Zenon
      <4>3. SubSeq(ops, j - Context, j - 1) = last
        BY <3>1, <3>2, Zenon
      <4> QED
        BY <2>3, <2>5, <3>4, <4>1, <4>2, <4>3, Zenon
    <3>6. first \in Seq(ShownRows(V)) /\ Shows(first, ops, i, x)
      BY <1>0, <3>2, <3>3, OpsShow
    <3>7. skip \in Seq(ShownRows(V)) /\ Shows(skip, ops, x, y)
      <4>1. \A k \in (x - Context)..(y - 1 + Context) : k \in 1..Len(ops) => ops[k].type = "same"
        BY <2>1, <3>3
      <4> QED
        BY <3>2, <3>3, <4>1, SkipShows
    <3>8. last \in Seq(ShownRows(V)) /\ Shows(last, ops, y, j)
      BY <3>2, <3>3, OpsShow
    <3>9. PICK begun : begun = first \o skip
      OBVIOUS
    <3>10. begun \in Seq(ShownRows(V)) /\ Shows(begun, ops, i, y)
      BY <3>6, <3>7, <3>9, RowsAfterRows
    <3>11. run \in Seq(ShownRows(V)) /\ Shows(run, ops, i, j)
      BY <3>4, <3>8, <3>9, <3>10, RowsAfterRows
    <3> QED
      BY <3>5, <3>11
  <2> QED
    BY <2>4, <2>5
<1> QED
  BY <1>1, <1>2

\* The rows of a diff show all of it.
LEMMA RowsShowAll ==
    ASSUME NEW V, NEW ops \in Seq(DiffOps(V))
    PROVE  /\ DiffRows(ops) \in Seq(ShownRows(V))
           /\ Shows(DiffRows(ops), ops, 1, Len(ops) + 1)
<1> DEFINE D == 1..(Len(ops) + 1)
           W == Seq(ShownRows(V))
           body(g, i) == RowsAt(g, ops, i)
           m == [i \in D |-> Len(ops) + 1 - i]
           step == [q \in D \X [D -> W] |-> body(q[2], q[1])]
<1>0. Len(ops) \in Nat /\ <<>> \in W
  OBVIOUS
<1>1. m \in [D -> 0..Len(ops)]
  BY <1>0
<1>2. ASSUME NEW i \in D
      PROVE  \/ \A rows : RowsAt(rows, ops, i) = <<>>
             \/ \E j \in D, q \in W : m[j] < m[i] /\ \A rows : RowsAt(rows, ops, i) = q \o rows[j]
  <2>1. CASE i > Len(ops)
    BY <2>1 DEF RowsAt
  <2>2. CASE i \in 1..Len(ops)
    <3>1. PICK j \in (i + 1)..(Len(ops) + 1), q \in W :
              Shows(q, ops, i, j) /\ \A rows : RowsAt(rows, ops, i) = q \o rows[j]
      <4> HIDE DEF D, m, step
      <4>1. \E j \in (i + 1)..(Len(ops) + 1), q \in Seq(ShownRows(V)) :
               Shows(q, ops, i, j) /\ \A rows : RowsAt(rows, ops, i) = q \o rows[j]
        BY <2>2, RowsAtIs, SMTT(20)
      <4> QED
        BY <4>1
    <3>2. j \in D /\ m[j] < m[i]
      BY <1>0
    <3> HIDE DEF m, D, W
    <3> QED
      BY <3>1, <3>2
  <2>3. i > Len(ops) \/ i \in 1..Len(ops)
    BY <1>0
  <2> HIDE DEF D, W, m
  <2> QED
    BY <2>1, <2>2, <2>3
<1>3. step \in [D \X [D -> W] -> W]
  <2>1. ASSUME NEW i \in D, NEW g \in [D -> W] PROVE body(g, i) \in W
    <3>1. CASE \A rows : RowsAt(rows, ops, i) = <<>>
      BY <1>0, <3>1
    <3>2. CASE \E j \in D, q \in W : \A rows : RowsAt(rows, ops, i) = q \o rows[j]
      <4>1. PICK j \in D, q \in W : \A rows : RowsAt(rows, ops, i) = q \o rows[j]
        BY <3>2
      <4>2. g[j] \in W
        OBVIOUS
      <4>3. q \o g[j] \in W
        BY <4>2, ConcatProperties
      <4> QED
        BY <4>1, <4>3
    <3> QED
      BY <1>2, <3>1, <3>2
  <2> HIDE DEF D, W, body
  <2> QED
    BY <2>1
<1>4. ASSUME NEW x \in D, NEW g \in [D -> W], NEW h \in [D -> W],
             \A y \in D : m[y] < m[x] => g[y] = h[y]
      PROVE  step[<<x, g>>] = step[<<x, h>>]
  <2>1. body(g, x) = body(h, x)
    <3> HIDE DEF D, W, m
    <3> QED
      BY <1>2, <1>4
  <2> HIDE DEF D, W, body
  <2> QED
    BY <2>1
<1>5. GoesDown(D, W, Len(ops), m, step)
  <2>1. W # {}
    BY <1>0
  <2> HIDE DEF D, W, m, step
  <2> QED
    BY <1>0, <1>1, <1>3, <1>4, <2>1 DEF GoesDown
<1>6. PICK f \in [D -> W] : f = [i \in D |-> step[<<i, f>>]]
  <2> HIDE DEF D, W, m, step
  <2> QED
    BY <1>5, Recursion
<1>7. f = [i \in D |-> body(f, i)]
  <2>1. \A i \in D : step[<<i, f>>] = body(f, i)
    <3> HIDE DEF D, W, body
    <3> QED
      OBVIOUS
  <2> HIDE DEF D, W, step, body
  <2> QED
    BY <1>6, <2>1
<1> DEFINE rows == CHOOSE rows : rows = [i \in D |-> body(rows, i)]
<1>8. DiffRows(ops) = rows[1]
  BY DEF DiffRows, RowsAt
<1>9. rows = [i \in D |-> body(rows, i)]
  BY <1>7
<1> HIDE DEF rows
<1>10. \A i \in D : rows[i] = body(rows, i)
  <2> HIDE DEF D, body
  <2> QED
    BY <1>9
<1> DEFINE Is(r, i) == r \in W /\ Shows(r, ops, i, Len(ops) + 1)
           P == {i \in D : Is(rows[i], i)}
<1>11. ASSUME NEW i \in D, \A j \in D : m[j] < m[i] => j \in P PROVE i \in P
  <2>1. CASE i > Len(ops)
    <3>1. RowsAt(rows, ops, i) = <<>> /\ i = Len(ops) + 1
      BY <1>0, <2>1 DEF RowsAt
    <3>2. SubSeq(ops, Len(ops) + 1, (Len(ops) + 1) - 1) = <<>>
      BY <1>0, SubSeqEmpty
    <3>3. Len(ops) + 1 \in 1..(Len(ops) + 1) /\ Len(ops) + 1 \in (Len(ops) + 1)..(Len(ops) + 1)
      BY <1>0
    <3>4. Is(<<>>, Len(ops) + 1)
      BY <3>2, <3>3, OpsShow
    <3> HIDE DEF Is
    <3> QED
      BY <1>10, <3>1, <3>4
  <2>2. CASE i \in 1..Len(ops)
    <3>1. PICK j \in (i + 1)..(Len(ops) + 1), q \in W :
              Shows(q, ops, i, j) /\ RowsAt(rows, ops, i) = q \o rows[j]
      BY <2>2, RowsAtIs
    <3>2. j \in D /\ m[j] < m[i]
      BY <1>0
    <3>3. PICK rest : rest = rows[j] /\ Is(rest, j)
      BY <1>11, <3>2
    <3>4. Is(q \o rest, i)
      BY <3>1, <3>3, RowsAfterRows
    <3>5. rows[i] = q \o rest
      BY <1>10, <3>1, <3>3
    <3> HIDE DEF Is
    <3> QED
      BY <3>4, <3>5
  <2> QED
    BY <1>0, <2>1, <2>2
<1>12. D \subseteq P
  <2>1. m \in [D -> Nat]
    BY <1>1
  <2> HIDE DEF P, m, D
  <2> QED
    BY <1>11, <2>1, MeasureInduction
<1> QED
  BY <1>0, <1>8, <1>12

\* Where a row begins is the sum of the rows before it.
LEMMA RowsBegin ==
    ASSUME NEW V, NEW ops \in Seq(DiffOps(V)), NEW rows, rows = DiffRows(ops), NEW start,
           start = CHOOSE f : f = [i \in 1..(Len(rows) + 1) |->
                                     IF i = 1 THEN 1 ELSE f[i - 1] + WidthOf(rows[i - 1])]
    PROVE  Begins(start, rows, ops, 1, Len(ops) + 1)
<1> DEFINE D == 1..(Len(rows) + 1)
           body(f, i) == IF i = 1 THEN 1 ELSE f[i - 1] + WidthOf(rows[i - 1])
<1>1. rows \in Seq(ShownRows(V)) /\ Shows(rows, ops, 1, Len(ops) + 1)
  BY RowsShowAll
<1>2. PICK at : Begins(at, rows, ops, 1, Len(ops) + 1)
  BY <1>1 DEF Shows
<1>3. Len(rows) \in Nat
  BY <1>1
<1>4. at = [i \in D |-> body(at, i)]
  <2>1. ASSUME NEW i \in D PROVE at[i] = body(at, i)
    <3>1. CASE i = 1
      BY <1>2, <3>1 DEF Begins
    <3>2. CASE i # 1
      <4>1. i - 1 \in 1..Len(rows) /\ (i - 1) + 1 = i
        BY <1>3, <3>2
      <4>2. at[(i - 1) + 1] = at[i - 1] + WidthOf(rows[i - 1])
        BY <1>2, <4>1 DEF Begins
      <4> QED
        BY <3>2, <4>1, <4>2
    <3> QED
      BY <3>1, <3>2
  <2>2. at \in [D -> Nat]
    BY <1>2 DEF Begins
  <2> HIDE DEF D, body
  <2> QED
    BY <2>1, <2>2
<1>5. start = [i \in D |-> body(start, i)]
  BY <1>4
<1>6. \A i \in D : start[i] = body(start, i)
  <2> HIDE DEF D, body
  <2> QED
    BY <1>5
<1> DEFINE S == {n \in Nat : n + 1 \in D => start[n + 1] = at[n + 1]}
<1>7. 0 \in S
  <2>1. at[1] = 1
    BY <1>2 DEF Begins
  <2>2. start[1] = 1
    <3>1. 1 \in D
      BY <1>3
    <3> QED
      BY <1>6, <3>1
  <2>3. 0 + 1 = 1
    OBVIOUS
  <2> HIDE DEF D
  <2> QED
    BY <2>1, <2>2, <2>3
<1>8. ASSUME NEW n \in Nat, n \in S PROVE n + 1 \in S
  <2> SUFFICES ASSUME (n + 1) + 1 \in D PROVE start[(n + 1) + 1] = at[(n + 1) + 1]
    OBVIOUS
  <2>1. n + 1 \in 1..Len(rows) /\ n + 1 \in D /\ (n + 1) + 1 # 1 /\ ((n + 1) + 1) - 1 = n + 1
    BY <1>3
  <2>2. start[(n + 1) + 1] = start[n + 1] + WidthOf(rows[n + 1])
    BY <1>6, <2>1
  <2>3. at[(n + 1) + 1] = at[n + 1] + WidthOf(rows[n + 1])
    BY <1>2, <2>1 DEF Begins
  <2>4. start[n + 1] = at[n + 1]
    BY <1>8, <2>1
  <2> QED
    BY <2>2, <2>3, <2>4
<1>9. Nat \subseteq S
  <2> HIDE DEF S
  <2> QED
    BY <1>7, <1>8, Induction
<1>10. ASSUME NEW i \in D PROVE start[i] = at[i]
  <2>1. i - 1 \in Nat /\ (i - 1) + 1 = i
    BY <1>3
  <2> QED
    BY <1>9, <2>1
<1>11. start = at
  <2>1. at \in [D -> Nat]
    BY <1>2 DEF Begins
  <2> HIDE DEF D, body
  <2> QED
    BY <1>5, <1>10, <2>1
<1> QED
  BY <1>2, <1>11

-----------------------------------------------------------------------------
(***************************************************************************)
(* The review.                                                             *)
(***************************************************************************)
ReviewInv ==
    /\ oldText \in Seq(DiffLines) /\ newText \in Seq(DiffLines)
    /\ \/ shownOps = LineDiff(oldText, newText)
       \/ oldText = <<>> /\ newText = <<>> /\ shownOps \in Seq(DiffOps({"line"}))

LEMMA ShortTexts ==
    /\ \A n \in Nat : Texts(n) \subseteq Seq(DiffLines)
    /\ \A n \in Nat : OpsOf(n) \subseteq Seq(DiffOps({"line"}))
<1>1. ASSUME NEW T, NEW n \in Nat, NEW k \in 0..n, NEW t \in [1..k -> T] PROVE t \in Seq(T)
  OBVIOUS
<1>2. ASSUME NEW n \in Nat, NEW t \in Texts(n) PROVE t \in Seq(DiffLines)
  BY <1>1 DEF Texts
<1>3. ASSUME NEW n \in Nat, NEW t \in OpsOf(n) PROVE t \in Seq(DiffOps({"line"}))
  <2>1. PICK k \in 0..n : t \in [1..k -> [type : {"same", "add"}, text : {"line"}]]
    BY DEF OpsOf
  <2>2. [type : {"same", "add"}, text : {"line"}] \subseteq DiffOps({"line"})
    BY DEF DiffOps
  <2>3. t \in [1..k -> DiffOps({"line"})]
    BY <2>1, <2>2
  <2> QED
    BY <1>1, <2>3
<1> QED
  BY <1>2, <1>3

LEMMA ReviewInvHolds == ReviewSpec => []ReviewInv
<1>1. ReviewInit => ReviewInv
  <2> SUFFICES ASSUME ReviewInit PROVE ReviewInv
    OBVIOUS
  <2>1. CASE /\ oldText \in Texts(MaxText) /\ newText \in Texts(MaxText)
             /\ shownOps = LineDiff(oldText, newText)
    BY <2>1, ShortTexts, SourceReviewAssumption DEF ReviewInv
  <2>2. CASE oldText = <<>> /\ newText = <<>> /\ shownOps \in OpsOf(MaxOps)
    <3>1. <<>> \in Seq(DiffLines)
      OBVIOUS
    <3> QED
      BY <2>2, <3>1, ShortTexts, SourceReviewAssumption DEF ReviewInv
  <2> QED
    BY <2>1, <2>2 DEF ReviewInit
<1>2. ReviewInv /\ [ReviewNext]_reviewVars => ReviewInv'
  BY ShortTexts, SourceReviewAssumption DEF ReviewInv, ReviewNext, Retyped, reviewVars
<1> QED
  BY <1>1, <1>2, PTL DEF ReviewSpec

\* The diff that is confirmed is of the text stored and the text typed, and shows no
\* line as changed that both have in common, for texts of any length (computeLineDiff).
THEOREM DiffStaysExact == ReviewSpec => []DiffIsExact
<1>1. ASSUME ReviewInv PROVE DiffIsExact
  <2> SUFFICES ASSUME oldText # <<>> \/ newText # <<>>
               PROVE  DiffIsExact
    BY DEF DiffIsExact
  <2>1. oldText \in Seq(DiffLines) /\ newText \in Seq(DiffLines) /\ shownOps = LineDiff(oldText, newText)
    BY <1>1 DEF ReviewInv
  <2>2. /\ Text(Lines(shownOps, {"same", "del"})) = oldText
        /\ Text(Lines(shownOps, {"same", "add"})) = newText
        /\ \A s \in Seq(DiffLines) : IsSubsequence(s, oldText) /\ IsSubsequence(s, newText)
                                => Len(s) <= Len(Text(Lines(shownOps, {"same"})))
    BY <2>1, DiffExact
  <2> QED
    BY <2>2, ShortTexts, SourceReviewAssumption DEF DiffIsExact
<1> QED
  BY <1>1, ReviewInvHolds, PTL

\* The rows of the review show every line or count it in a gap of unchanged ones, for
\* diffs of any length (buildDiffRows).
THEOREM RowsStayTrue == ReviewSpec => []RowsShowChanges
<1>1. ASSUME ReviewInv PROVE RowsShowChanges
  <2>1. PICK V : shownOps \in Seq(DiffOps(V))
    <3>1. CASE shownOps = LineDiff(oldText, newText)
      <4>1. oldText \in Seq(DiffLines) /\ newText \in Seq(DiffLines)
        BY <1>1 DEF ReviewInv
      <4>2. shownOps \in Seq(DiffOps(DiffLines))
        BY <3>1, <4>1, DiffExact
      <4> QED
        BY <4>2
    <3>2. CASE shownOps \in Seq(DiffOps({"line"}))
      BY <3>2
    <3> QED
      BY <1>1, <3>1, <3>2 DEF ReviewInv
  <2> DEFINE rows == DiffRows(shownOps)
             Width(r) == IF r.type = "skip" THEN r.count ELSE 1
             start == CHOOSE f : f = [i \in 1..(Len(rows) + 1) |->
                                        IF i = 1 THEN 1 ELSE f[i - 1] + Width(rows[i - 1])]
  <2>2. Begins(start, rows, shownOps, 1, Len(shownOps) + 1)
    BY <2>1, RowsBegin DEF WidthOf
  <2>3. rows \in Seq(ShownRows(V))
    BY <2>1, RowsShowAll
  <2> HIDE DEF start, rows
  <2>4. start[Len(rows) + 1] = Len(shownOps) + 1
    BY <2>2 DEF Begins
  <2>5. ASSUME NEW i \in 1..Len(rows)
        PROVE  IF rows[i].type # "skip" THEN rows[i] = shownOps[start[i]]
               ELSE /\ rows[i].count > 0
                    /\ \A k \in (start[i] - Context)..(start[i + 1] - 1 + Context) :
                          k \in 1..Len(shownOps) => shownOps[k].type = "same"
    <3>1. RowShows(rows[i], shownOps, start[i], start[i + 1])
      BY <2>2 DEF Begins
    <3> QED
      BY <3>1 DEF RowShows
  <2> QED
    BY <2>4, <2>5 DEF RowsShowChanges, start, rows
<1> QED
  BY <1>1, ReviewInvHolds, PTL

-----------------------------------------------------------------------------
(***************************************************************************)
(* The settings' drafts and counters.                                      *)
(***************************************************************************)
DraftInv ==
    /\ draft \in [Sections -> {"none", "open", "typed", "kept"}]
    /\ sent \in [Sections -> 0..MaxOut]

LoadInv ==
    /\ cfg \in Row \union {Unloaded}
    /\ cfg = Unloaded => form = Unloaded
    /\ saves \in 0..MaxSaves

LEMMA BlankIs == Blank \in [Sections -> {"none", "open", "typed", "kept"}]
  BY DEF Blank

LEMMA NothingSent == [s \in Sections |-> 0] \in [Sections -> 0..MaxOut]
  BY SettingsAssumption

\* One request more or fewer of a draft's stays a count of requests.
LEMMA CountKept ==
    ASSUME NEW counts \in [Sections -> 0..MaxOut], NEW s, NEW n,
           s \in Sections => n \in 0..MaxOut
    PROVE  [counts EXCEPT ![s] = n] \in [Sections -> 0..MaxOut]
  OBVIOUS

LEMMA DraftNextKeeps == ASSUME DraftInv, DraftNext PROVE DraftInv'
<1>0. MaxOut \in Nat
  BY SettingsAssumption
<1>1. ASSUME NEW s, Opens(s) \/ Types(s) \/ Cancels(s)
      PROVE  DraftInv'
  BY <1>1 DEF Opens, Types, Cancels, DraftInv
<1>2. ASSUME NEW s, NEW from, Save(s, from)
      PROVE  DraftInv'
  <2>1. CASE Sends(s, from)
    <3>1. draft' = draft /\ sent' = [sent EXCEPT ![s] = sent[s] + 1] /\ sent[s] < MaxOut
      BY <2>1 DEF Sends
    <3>2. s \in Sections => sent[s] + 1 \in 0..MaxOut
      <4>1. s \in Sections => sent[s] \in 0..MaxOut
        BY DEF DraftInv
      <4> QED
        BY <1>0, <3>1, <4>1
    <3>3. sent' \in [Sections -> 0..MaxOut]
      BY <3>1, <3>2, CountKept DEF DraftInv
    <3> QED
      BY <3>1, <3>3 DEF DraftInv
  <2>2. ASSUME NEW ok \in BOOLEAN, Answered(s, ok) PROVE DraftInv'
    <3>1. sent' = [sent EXCEPT ![s] = sent[s] - 1] /\ sent[s] > 0
      BY <2>2 DEF Answered
    <3>2. sent' \in [Sections -> 0..MaxOut]
      <4>1. s \in Sections => sent[s] \in 0..MaxOut
        BY DEF DraftInv
      <4>2. s \in Sections => sent[s] - 1 \in 0..MaxOut
        BY <1>0, <3>1, <4>1
      <4> QED
        BY <3>1, <4>2, CountKept DEF DraftInv
    <3>3. draft' = draft \/ draft' = [draft EXCEPT ![s] = Blank[s]]
      BY <2>2 DEF Answered
    <3>4. draft' \in [Sections -> {"none", "open", "typed", "kept"}]
      BY <3>3, BlankIs DEF DraftInv
    <3> QED
      BY <3>2, <3>4 DEF DraftInv
  <2> QED
    BY <1>2, <2>1, <2>2 DEF Save
<1>3. CASE StartEditServer \/ EditServerRow \/ HandleSaveServer \/ AddServerModal
            \/ HandleAddServer \/ StartEditGroup \/ GroupList \/ HandleSaveGroup
  BY <1>1, <1>2, <1>3 DEF StartEditServer, EditServerRow, HandleSaveServer,
     AddServerModal, HandleAddServer, StartEditGroup, GroupList, HandleSaveGroup
<1>4. CASE AddGroupForm \/ HandleAddGroup \/ TagList \/ HandleSaveTag
            \/ AddTagForm \/ HandleAddTag
  BY <1>1, <1>2, <1>4 DEF AddGroupForm, HandleAddGroup, TagList, HandleSaveTag,
     AddTagForm, HandleAddTag
<1>5. CASE NewWindow \/ WindowEditor \/ SaveWindow \/ CalendarSubscribe
            \/ CreateCalendarToken \/ NewHook \/ HookEditor \/ SaveHook
  BY <1>1, <1>2, <1>5 DEF NewWindow, WindowEditor, SaveWindow, CalendarSubscribe,
     CreateCalendarToken, NewHook, HookEditor, SaveHook
<1>6. CASE NotificationsForm \/ SaveNotifications \/ DestinationForm \/ AddDestination
            \/ AptCacheForm \/ HandleAddAptCache \/ CreateUserForm \/ CreateUser
  BY <1>1, <1>2, <1>6 DEF NotificationsForm, SaveNotifications, DestinationForm,
     AddDestination, AptCacheForm, HandleAddAptCache, CreateUserForm, CreateUser
<1>7. CASE ResetPasswordModal \/ SubmitReset \/ PasswordPolicy \/ PasswordForm
            \/ HandleChangePassword \/ TokenForm \/ CreateToken \/ ImportFile
  BY <1>1, <1>2, <1>7 DEF ResetPasswordModal, SubmitReset, PasswordPolicy, PasswordForm,
     HandleChangePassword, TokenForm, CreateToken, ImportFile
<1> QED
  BY <1>3, <1>4, <1>5, <1>6, <1>7 DEF DraftNext

LEMMA MountsBlank == ASSUME DraftInv, NEW t, Fresh \/ Mount(t) PROVE DraftInv'
  BY BlankIs, NothingSent DEF Mount, Fresh, draftVars, DraftInv

LEMMA MountsUnloaded == ASSUME LoadInv, NEW t, Fresh \/ Mount(t) PROVE LoadInv'
  BY DEF Mount, Fresh, formVars, LoadInv

LEMMA SettingsTypeStep ==
    FormInv /\ DraftInv /\ LoadInv /\ [SettingsNext]_settingsVars => DraftInv' /\ LoadInv'
<1> SUFFICES ASSUME FormInv, DraftInv, LoadInv, [SettingsNext]_settingsVars
             PROVE  DraftInv' /\ LoadInv'
  OBVIOUS
<1>1. ASSUME UNCHANGED draftVars PROVE DraftInv'
  BY <1>1 DEF draftVars, DraftInv
<1>2. ASSUME UNCHANGED formVars PROVE LoadInv'
  BY <1>2 DEF formVars, LoadInv
<1>3. ASSUME NEW t, SetUrl(t) \/ LeavePage(t) PROVE DraftInv' /\ LoadInv'
  BY <1>1, <1>2, <1>3, MountsBlank, MountsUnloaded DEF SetUrl, LeavePage, Stay
<1>4. ASSUME NEW ok, AnswerDiscard(ok) PROVE DraftInv' /\ LoadInv'
  BY <1>1, <1>2, <1>4, MountsBlank, MountsUnloaded DEF AnswerDiscard, Stay
<1>5. CASE DraftNext
  BY <1>2, <1>5, DraftNextKeeps, DraftsOnly
<1>6. CASE FormNext
  <2>1. UNCHANGED draftVars
    BY <1>6 DEF FormNext, FormLoads, EditSchedule, EditPreferences, Edit, ScheduleSave,
       PreferencesSave, Put, SettingsAnswers, PutAnswered, FormStep
  <2>2. ASSUME FormLoads PROVE LoadInv'
    BY <2>2 DEF FormLoads, LoadInv, FormInv, Row, Unloaded
  <2>3. ASSUME NEW t, NEW field, NEW v, Edit(t, field, v) PROVE LoadInv'
    BY <2>3 DEF Edit, LoadInv
  <2>4. ASSUME NEW t, Put(t) PROVE LoadInv'
    <3>1. UNCHANGED <<cfg, form>> /\ saves' = saves + 1 /\ saves < MaxSaves
      BY <2>4 DEF Put
    <3>2. saves' \in 0..MaxSaves
      BY <3>1, SettingsAssumption DEF LoadInv
    <3> QED
      BY <3>1, <3>2 DEF LoadInv
  <2>5. ASSUME NEW p \in puts, NEW outcome, PutAnswered(p, outcome) PROVE LoadInv'
    <3>1. saves' = saves
      BY <2>5 DEF PutAnswered
    <3>2. CASE UNCHANGED <<cfg, form>>
      BY <3>1, <3>2 DEF LoadInv
    <3>3. CASE cfg' = row' /\ form' = row'
      <4>1. row' \in Row
        BY <2>5 DEF PutAnswered, FormInv, Row, Form
      <4>2. row' # Unloaded
        BY <4>1 DEF Row, Unloaded
      <4> QED
        BY <3>1, <3>3, <4>1, <4>2 DEF LoadInv
    <3> QED
      BY <2>5, <3>2, <3>3 DEF PutAnswered
  <2> QED
    BY <1>1, <1>6, <2>1, <2>2, <2>3, <2>4, <2>5 DEF FormNext, EditSchedule, EditPreferences,
       ScheduleSave, PreferencesSave, SettingsAnswers
<1>7. CASE UNCHANGED settingsVars
  BY <1>1, <1>2, <1>7 DEF settingsVars
<1> QED
  BY <1>3, <1>4, <1>5, <1>6, <1>7 DEF SettingsNext

\* The settings' types: the states of their drafts, forms and requests, for any
\* bounds.
THEOREM SettingsTypes == SettingsSpec => []SettingsTypeOK
<1>1. SettingsInit => TabInv /\ FormInv /\ DraftInv /\ LoadInv
  <2> SUFFICES ASSUME SettingsInit PROVE TabInv /\ FormInv /\ DraftInv /\ LoadInv
    OBVIOUS
  <2>1. TabInv
    BY DEF SettingsInit, TabInv, UrlAndTab, NoDialog, Tabs
  <2>2. FormInv
    BY DEF SettingsInit, FormInv, RefusedForABlank, Row, Cron, Accepted
  <2>3. DraftInv
    BY BlankIs, NothingSent DEF SettingsInit, DraftInv
  <2>4. LoadInv
    BY SettingsAssumption DEF SettingsInit, LoadInv
  <2> QED
    BY <2>1, <2>2, <2>3, <2>4
<1>2. ASSUME TabInv, FormInv, DraftInv, LoadInv PROVE SettingsTypeOK
  <2>1. dialog \in {NoDialog} \union [to : Tabs, heard : BOOLEAN]
    <3>1. CASE dialog.to \in Tabs
      BY <1>2, <3>1 DEF TabInv
    <3>2. CASE dialog.to \notin Tabs
      <4>1. dialog.to = "none" /\ ~dialog.heard
        BY <1>2, <3>2 DEF TabInv, UrlAndTab
      <4> QED
        BY <1>2, <4>1 DEF TabInv, NoDialog
    <3> QED
      BY <3>1, <3>2
  <2>2. form \in Form \union {Unloaded}
    BY <1>2 DEF FormInv, LoadInv
  <2> QED
    BY <1>2, <2>1, <2>2 DEF TabInv, FormInv, DraftInv, LoadInv, SettingsTypeOK
<1> QED
  BY <1>1, <1>2, TabInvStep, FormInvStep, SettingsTypeStep, PTL DEF SettingsSpec

-----------------------------------------------------------------------------
(***************************************************************************)
(* The types of the server's tabs.  An action is one of the packages tab,  *)
(* of the shell tab or of the form, and leaves the state of the others.    *)
(***************************************************************************)
PackageActs ==
    \/ \E l \in lists, ok \in BOOLEAN : ListAnswered(l, ok)
    \/ Retry \/ CheckedAgain \/ SelectRemove \/ SelectAll \/ SelectSecurity \/ ClearSelection \/ ToggleSecurityFilter
    \/ \E p \in Packages : ToggleOne(p) \/ \E hold \in BOOLEAN : SetHold(p, hold)
    \/ \E h \in holding, ok \in BOOLEAN : HoldAnswered(h, ok)
    \/ UpgradeAll \/ UpgradeSelected \/ RemoveSelected \/ RemoveAll
    \/ StartSelectiveUpgrade \/ RunAutoremove \/ CloseModal
    \/ \E ok \in BOOLEAN : ModalRunEnds(ok)

ShellActs == Connect \/ ConnectFails \/ Disconnect \/ \E i \in ShellIds : ShellOpens(i) \/ ShellCloses(i)

FormActs ==
    \/ \E who \in {"mine", "gone"}, ok \in BOOLEAN : SaveAnswered(who, ok)
    \/ ToggleEdit \/ EditField \/ HandleSave \/ PageReload
    \/ \E r \in rowLoads : RowArrives(r)
    \/ HandleAutoSecToggle \/ HandleAptProxyToggle \/ HandleEepromUpdate
    \/ \E s \in Runs : FormRunEnds(s)

Views == {"packages", "shell", "edit"}

LEMMA TabsActs ==
    ServerTabsNext => PackageActs \/ ShellActs \/ FormActs \/ \E t \in Views : SetView(t)
  BY DEF ServerTabsNext, PackageActs, ShellActs, FormActs, Views

LEMMA PackageActsOnly == PackageActs => PackagesOnly
  BY DEF PackageActs, ListAnswered, Retry, CheckedAgain, SelectRemove, PickRemove, SelectAll,
     SelectSecurity, ClearSelection, Pick, ToggleSecurityFilter, ToggleOne, SetHold, HoldAnswered,
     UpgradeAll, UpgradeSelected, RemoveSelected, RemoveAll, OpenModal, StartSelectiveUpgrade,
     RunAutoremove, StartModal, CloseModal, ModalRunEnds

LEMMA ShellActsOnly == ShellActs => ShellOnly
  BY DEF ShellActs, Connect, ConnectFails, Disconnect, ShellOpens, ShellCloses

LEMMA FormActsOnly == FormActs => FormOnly
  BY DEF FormActs, SaveAnswered, ToggleEdit, EditField, HandleSave, PageReload, RowArrives,
     HandleAutoSecToggle, HandleAptProxyToggle, HandleEepromUpdate, StartFormRun, FormRunEnds

PackageInv ==
    /\ apt \in [Packages -> PackageState]
    /\ packages \subseteq Packages /\ held \subseteq Packages /\ autoremove \subseteq Packages
    /\ picked \subseteq Packages /\ pickedRemove \subseteq Packages
    /\ lists \subseteq [Packages -> PackageState]
    /\ holding \subseteq [pkg : Packages, hold : BOOLEAN]

FlagInv == listError \in BOOLEAN /\ filterSec \in BOOLEAN

ModalInv ==
    modal \in [op : {"none", "upgrade", "remove", "remove all"}, target : SUBSET Packages,
               state : {"none", "form", "running", "done"}]

HoldsInv == holds \in 0..MaxHolds

RowInv == rowNow \in 0..MaxRows /\ rowShown \in 0..MaxRows /\ rowLoads \subseteq 0..MaxRows

FormStateInv ==
    /\ editForm \in [state : {"closed", "filled", "typed"}, runs : SUBSET Runs]
    /\ formSaves \subseteq {"mine", "gone"}

PaneInv ==
    /\ pane \in Views
    /\ status \in {"idle", "connecting", "connected", "disconnected"}

LEMMA LoadsTyped ==
    ASSUME PackageInv, LoadPackages PROVE lists' \subseteq [Packages -> PackageState]
  BY DEF PackageInv, LoadPackages

LEMMA PackageStep == PackageInv /\ [ServerTabsNext]_serverTabsVars => PackageInv'
<1> SUFFICES ASSUME PackageInv, [ServerTabsNext]_serverTabsVars PROVE PackageInv'
  OBVIOUS
<1>0. ASSUME UNCHANGED packageVars PROVE PackageInv'
  BY <1>0 DEF packageVars, packageListVars, shownVars, PackageInv
<1>1. ASSUME NEW l \in lists, NEW ok \in BOOLEAN, ListAnswered(l, ok) PROVE PackageInv'
  <2>1. lists' \subseteq [Packages -> PackageState] /\ apt' = apt /\ holding' = holding
    BY <1>1 DEF ListAnswered, PackageInv
  <2>2. CASE ok
    BY <1>1, <2>1, <2>2 DEF ListAnswered, PackageInv
  <2>3. CASE ~ok
    BY <1>1, <2>1, <2>3 DEF ListAnswered, PackageInv, shownVars
  <2> QED
    BY <2>2, <2>3
<1>2. CASE Retry \/ CheckedAgain \/ CloseModal
  BY <1>2, LoadsTyped DEF Retry, CheckedAgain, CloseModal, packageListVars, shownVars, PackageInv
<1>3. ASSUME NEW ps, Pick(ps), ps \subseteq Packages PROVE PackageInv'
  BY <1>3 DEF Pick, TicksOnly, PackageInv
<1>4. CASE SelectAll \/ SelectSecurity \/ ClearSelection
  <2>1. Visible \subseteq Packages
    BY DEF Visible, PackageInv
  <2> QED
    BY <1>3, <1>4, <2>1 DEF SelectAll, SelectSecurity, ClearSelection
<1>5. ASSUME NEW p \in Packages, ToggleOne(p) PROVE PackageInv'
  BY <1>3, <1>5 DEF ToggleOne, Toggled, PackageInv
<1>6. CASE ToggleSecurityFilter
  BY <1>6 DEF ToggleSecurityFilter, TicksOnly, PackageInv
<1>7. CASE SelectRemove
  <2>1. ASSUME NEW ps, PickRemove(ps), ps \subseteq Packages PROVE PackageInv'
    BY <2>1 DEF PickRemove, TicksOnly, PackageInv
  <2>2. autoremove \subseteq Packages
    BY DEF PackageInv
  <2>3. \A p \in autoremove : Toggled(pickedRemove, p) \subseteq Packages
    BY <2>2 DEF Toggled, PackageInv
  <2> QED
    BY <1>7, <2>1, <2>2, <2>3 DEF SelectRemove
<1>8. ASSUME NEW p \in Packages, NEW hold \in BOOLEAN, SetHold(p, hold) PROVE PackageInv'
  BY <1>8 DEF SetHold, packageListVars, shownVars, PackageInv
<1>9. ASSUME NEW h \in holding, NEW ok \in BOOLEAN, HoldAnswered(h, ok) PROVE PackageInv'
  <2>1. h.pkg \in Packages
    BY DEF PackageInv
  <2>2. apt' \in [Packages -> PackageState]
    BY <1>9 DEF HoldAnswered, PackageInv, PackageState
  <2>3. lists' \subseteq [Packages -> PackageState]
    BY <1>9, <2>2 DEF HoldAnswered, PackageInv
  <2>4. packages' \subseteq Packages /\ held' \subseteq Packages
    BY <1>9, <2>1 DEF HoldAnswered, PackageInv
  <2> QED
    BY <1>9, <2>2, <2>3, <2>4 DEF HoldAnswered, PackageInv
<1>10. CASE UpgradeAll \/ UpgradeSelected \/ RemoveSelected \/ RemoveAll
            \/ StartSelectiveUpgrade \/ RunAutoremove
  BY <1>10 DEF UpgradeAll, UpgradeSelected, RemoveSelected, RemoveAll, OpenModal,
     StartSelectiveUpgrade, RunAutoremove, StartModal, packageListVars, shownVars, PackageInv
<1>11. ASSUME NEW ok \in BOOLEAN, ModalRunEnds(ok) PROVE PackageInv'
  <2>1. \A p \in Packages : AfterRun(p) \in PackageState
    BY DEF AfterRun, PackageInv, PackageState
  <2>2. apt' \in [Packages -> PackageState]
    BY <1>11, <2>1 DEF ModalRunEnds, PackageInv
  <2> QED
    BY <1>11, <2>2 DEF ModalRunEnds, packageListVars, shownVars, PackageInv
<1>12. CASE ShellActs
  BY <1>0, <1>12, ShellActsOnly DEF ShellOnly
<1>13. CASE FormActs
  BY <1>0, <1>13, FormActsOnly DEF FormOnly
<1>14. ASSUME NEW t, SetView(t) PROVE PackageInv'
  BY <1>14 DEF SetView, PackageInv
<1>15. CASE UNCHANGED serverTabsVars
  BY <1>0, <1>15 DEF serverTabsVars
<1> QED
  BY <1>1, <1>2, <1>4, <1>5, <1>6, <1>7, <1>8, <1>9, <1>10, <1>11, <1>12, <1>13, <1>14, <1>15,
     TabsActs DEF PackageActs

LEMMA FlagStep == FlagInv /\ [ServerTabsNext]_serverTabsVars => FlagInv'
<1> SUFFICES ASSUME FlagInv, [ServerTabsNext]_serverTabsVars PROVE FlagInv'
  OBVIOUS
<1>0. ASSUME UNCHANGED packageVars PROVE FlagInv'
  BY <1>0 DEF packageVars, packageListVars, FlagInv
<1>1. ASSUME NEW l \in lists, NEW ok \in BOOLEAN, ListAnswered(l, ok) PROVE FlagInv'
  BY <1>1 DEF ListAnswered, FlagInv
<1>2. CASE Retry \/ CheckedAgain \/ CloseModal
  BY <1>2 DEF Retry, CheckedAgain, CloseModal, packageListVars, FlagInv
<1>3. ASSUME NEW p, SelectAll \/ SelectSecurity \/ ClearSelection \/ ToggleOne(p) PROVE FlagInv'
  BY <1>3 DEF SelectAll, SelectSecurity, ClearSelection, ToggleOne, Pick, TicksOnly, FlagInv
<1>4. CASE ToggleSecurityFilter
  BY <1>4 DEF ToggleSecurityFilter, TicksOnly, FlagInv
<1>5. CASE SelectRemove
  BY <1>5 DEF SelectRemove, PickRemove, TicksOnly, FlagInv
<1>6. ASSUME NEW p, NEW hold, SetHold(p, hold) PROVE FlagInv'
  BY <1>6 DEF SetHold, packageListVars, FlagInv
<1>7. ASSUME NEW h, NEW ok, HoldAnswered(h, ok) PROVE FlagInv'
  BY <1>7 DEF HoldAnswered, FlagInv
<1>8. CASE UpgradeAll \/ UpgradeSelected \/ RemoveSelected \/ RemoveAll
            \/ StartSelectiveUpgrade \/ RunAutoremove
  BY <1>8 DEF UpgradeAll, UpgradeSelected, RemoveSelected, RemoveAll, OpenModal,
     StartSelectiveUpgrade, RunAutoremove, StartModal, packageListVars, FlagInv
<1>9. ASSUME NEW ok, ModalRunEnds(ok) PROVE FlagInv'
  BY <1>9 DEF ModalRunEnds, packageListVars, FlagInv
<1>10. CASE ShellActs
  BY <1>0, <1>10, ShellActsOnly DEF ShellOnly
<1>11. CASE FormActs
  BY <1>0, <1>11, FormActsOnly DEF FormOnly
<1>12. ASSUME NEW t, SetView(t) PROVE FlagInv'
  BY <1>12 DEF SetView, FlagInv
<1>13. CASE UNCHANGED serverTabsVars
  BY <1>0, <1>13 DEF serverTabsVars
<1> QED
  BY <1>1, <1>2, <1>3, <1>4, <1>5, <1>6, <1>7, <1>8, <1>9, <1>10, <1>11, <1>12, <1>13,
     TabsActs DEF PackageActs

LEMMA ModalStep ==
    PackageInv /\ ModalInv /\ HoldsInv /\ [ServerTabsNext]_serverTabsVars => ModalInv' /\ HoldsInv'
<1> SUFFICES ASSUME PackageInv, ModalInv, HoldsInv, [ServerTabsNext]_serverTabsVars
             PROVE  ModalInv' /\ HoldsInv'
  OBVIOUS
<1>0. ASSUME UNCHANGED modal PROVE ModalInv'
  BY <1>0 DEF ModalInv
<1>1. ASSUME UNCHANGED holds PROVE HoldsInv'
  BY <1>1 DEF HoldsInv
<1>2. ASSUME NEW l, NEW ok, NEW h, ListAnswered(l, ok) \/ HoldAnswered(h, ok)
      PROVE  ModalInv' /\ HoldsInv'
  BY <1>0, <1>1, <1>2 DEF ListAnswered, HoldAnswered
<1>3. CASE Retry \/ CheckedAgain
  BY <1>0, <1>1, <1>3 DEF Retry, CheckedAgain
<1>4. ASSUME NEW p, SelectAll \/ SelectSecurity \/ ClearSelection \/ ToggleSecurityFilter
              \/ SelectRemove \/ ToggleOne(p)
      PROVE ModalInv' /\ HoldsInv'
  BY <1>0, <1>1, <1>4 DEF SelectAll, SelectSecurity, ClearSelection, ToggleSecurityFilter,
     SelectRemove, PickRemove, ToggleOne, Pick, TicksOnly
<1>5. ASSUME NEW p, NEW hold, SetHold(p, hold) PROVE ModalInv' /\ HoldsInv'
  <2>1. holds' \in 0..MaxHolds
    BY <1>5, ServerTabsAssumption DEF SetHold, HoldsInv
  <2> QED
    BY <1>0, <1>5, <2>1 DEF SetHold, HoldsInv
<1>6. ASSUME NEW op \in {"upgrade", "remove", "remove all"}, NEW target \in SUBSET Packages,
             OpenModal(op, target)
      PROVE  ModalInv' /\ HoldsInv'
  BY <1>1, <1>6 DEF OpenModal, ModalInv
<1>7. CASE UpgradeAll \/ UpgradeSelected \/ RemoveSelected \/ RemoveAll
  <2>1. {packages, picked, pickedRemove, {}} \subseteq SUBSET Packages
    BY DEF PackageInv
  <2> QED
    BY <1>6, <1>7, <2>1 DEF UpgradeAll, UpgradeSelected, RemoveSelected, RemoveAll
<1>8. CASE StartSelectiveUpgrade \/ RunAutoremove
  BY <1>1, <1>8 DEF StartSelectiveUpgrade, RunAutoremove, StartModal, ModalInv
<1>9. ASSUME NEW ok, ModalRunEnds(ok) PROVE ModalInv' /\ HoldsInv'
  BY <1>1, <1>9 DEF ModalRunEnds, ModalInv
<1>10. CASE CloseModal
  BY <1>1, <1>10 DEF CloseModal, NoModal, ModalInv
<1>11. CASE ShellActs
  BY <1>0, <1>1, <1>11, ShellActsOnly DEF ShellOnly, packageVars
<1>12. CASE FormActs
  BY <1>0, <1>1, <1>12, FormActsOnly DEF FormOnly, packageVars
<1>13. ASSUME NEW t, SetView(t) PROVE ModalInv' /\ HoldsInv'
  BY <1>0, <1>1, <1>13 DEF SetView
<1>14. CASE UNCHANGED serverTabsVars
  BY <1>0, <1>1, <1>14 DEF serverTabsVars, packageVars
<1> QED
  BY <1>2, <1>3, <1>4, <1>5, <1>7, <1>8, <1>9, <1>10, <1>11, <1>12, <1>13, <1>14,
     TabsActs DEF PackageActs

LEMMA RowStep == RowInv /\ [ServerTabsNext]_serverTabsVars => RowInv'
<1> SUFFICES ASSUME RowInv, [ServerTabsNext]_serverTabsVars PROVE RowInv'
  OBVIOUS
<1>0. ASSUME UNCHANGED <<rowNow, rowLoads, rowShown>> PROVE RowInv'
  BY <1>0 DEF RowInv
<1>1. ASSUME NEW who, NEW ok \in BOOLEAN, SaveAnswered(who, ok) PROVE RowInv'
  <2>1. CASE ok
    <3>1. rowNow < MaxRows /\ rowNow' = rowNow + 1 /\ rowLoads' = rowLoads \union {rowNow'}
          /\ rowShown' = rowShown
      BY <1>1, <2>1 DEF SaveAnswered
    <3>2. rowNow' \in 0..MaxRows
      BY <3>1, ServerTabsAssumption DEF RowInv
    <3> QED
      BY <3>1, <3>2 DEF RowInv
  <2>2. CASE ~ok
    BY <1>0, <1>1, <2>2 DEF SaveAnswered
  <2> QED
    BY <2>1, <2>2
<1>2. CASE PageReload
  BY <1>2 DEF PageReload, RowInv
<1>3. ASSUME NEW r \in rowLoads, RowArrives(r) PROVE RowInv'
  BY <1>3 DEF RowArrives, RowInv
<1>4. ASSUME NEW s, ToggleEdit \/ EditField \/ HandleSave \/ HandleAutoSecToggle
               \/ HandleAptProxyToggle \/ HandleEepromUpdate \/ FormRunEnds(s)
      PROVE  RowInv'
  BY <1>0, <1>4 DEF ToggleEdit, EditField, HandleSave, HandleAutoSecToggle, HandleAptProxyToggle,
     HandleEepromUpdate, StartFormRun, FormRunEnds
<1>5. CASE PackageActs
  BY <1>0, <1>5, PackageActsOnly DEF PackagesOnly, rowVars
<1>6. CASE ShellActs
  BY <1>0, <1>6, ShellActsOnly DEF ShellOnly, rowVars
<1>7. ASSUME NEW t, SetView(t) PROVE RowInv'
  BY <1>0, <1>7 DEF SetView, rowVars
<1>8. CASE UNCHANGED serverTabsVars
  BY <1>0, <1>8 DEF serverTabsVars, rowVars
<1> QED
  BY <1>1, <1>2, <1>3, <1>4, <1>5, <1>6, <1>7, <1>8, TabsActs DEF FormActs

LEMMA FormStateStep == FormStateInv /\ [ServerTabsNext]_serverTabsVars => FormStateInv'
<1> SUFFICES ASSUME FormStateInv, [ServerTabsNext]_serverTabsVars PROVE FormStateInv'
  OBVIOUS
<1>0. ASSUME UNCHANGED <<editForm, formSaves>> PROVE FormStateInv'
  BY <1>0 DEF FormStateInv
<1>1. ASSUME NEW who, NEW ok \in BOOLEAN, SaveAnswered(who, ok) PROVE FormStateInv'
  BY <1>1 DEF SaveAnswered, FormStateInv, NotOpen
<1>2. CASE ToggleEdit
  BY <1>2 DEF ToggleEdit, FormGone, FormStateInv, NotOpen
<1>3. CASE EditField \/ HandleSave \/ PageReload
  BY <1>3 DEF EditField, HandleSave, PageReload, FormStateInv
<1>4. ASSUME NEW r, RowArrives(r) PROVE FormStateInv'
  BY <1>4 DEF RowArrives, FormStateInv
<1>5. CASE HandleAutoSecToggle \/ HandleAptProxyToggle \/ HandleEepromUpdate
  BY <1>5 DEF HandleAutoSecToggle, HandleAptProxyToggle, HandleEepromUpdate, StartFormRun, Runs,
     FormStateInv
<1>6. ASSUME NEW s, FormRunEnds(s) PROVE FormStateInv'
  BY <1>6 DEF FormRunEnds, FormStateInv
<1>7. CASE PackageActs
  BY <1>0, <1>7, PackageActsOnly DEF PackagesOnly, rowVars
<1>8. CASE ShellActs
  BY <1>0, <1>8, ShellActsOnly DEF ShellOnly, rowVars
<1>9. ASSUME NEW t, SetView(t) PROVE FormStateInv'
  BY <1>0, <1>9 DEF SetView, rowVars
<1>10. CASE UNCHANGED serverTabsVars
  BY <1>0, <1>10 DEF serverTabsVars, rowVars
<1> QED
  BY <1>1, <1>2, <1>3, <1>4, <1>5, <1>6, <1>7, <1>8, <1>9, <1>10, TabsActs DEF FormActs

LEMMA PaneStep == PaneInv /\ [ServerTabsNext]_serverTabsVars => PaneInv'
<1> SUFFICES ASSUME PaneInv, [ServerTabsNext]_serverTabsVars PROVE PaneInv'
  OBVIOUS
<1>1. CASE Connect \/ ConnectFails \/ Disconnect
  BY <1>1 DEF Connect, ConnectFails, Disconnect, ShellOnly, PaneInv
<1>2. ASSUME NEW i, ShellOpens(i) \/ ShellCloses(i) PROVE PaneInv'
  BY <1>2 DEF ShellOpens, ShellCloses, ShellOnly, PaneInv
<1>3. CASE PackageActs
  BY <1>3, PackageActsOnly DEF PackagesOnly, shellVars, PaneInv
<1>4. CASE FormActs
  BY <1>4, FormActsOnly DEF FormOnly, shellVars, PaneInv
<1>5. ASSUME NEW t \in Views, SetView(t) PROVE PaneInv'
  BY <1>5 DEF SetView, PaneInv
<1>6. CASE UNCHANGED serverTabsVars
  BY <1>6 DEF serverTabsVars, shellVars, PaneInv
<1> QED
  BY <1>1, <1>2, <1>3, <1>4, <1>5, <1>6, TabsActs DEF ShellActs

\* The types of the server's tabs: whatever is answered late or not at all, what
\* the tabs show, ask and hold is of the page's own packages, rows and sockets.
THEOREM ServerTabsTypes == ServerTabsSpec => []ServerTabsTypeOK
<1>1. ServerTabsInit => PackageInv /\ FlagInv /\ ModalInv /\ HoldsInv /\ RowInv /\ FormStateInv
                          /\ PaneInv /\ ShellInv
  <2> SUFFICES ASSUME ServerTabsInit
               PROVE  PackageInv /\ FlagInv /\ ModalInv /\ HoldsInv /\ RowInv /\ FormStateInv
                        /\ PaneInv /\ ShellInv
    OBVIOUS
  <2>1. PackageInv
    BY DEF ServerTabsInit, PackageInv, PackageState
  <2>2. FlagInv /\ ModalInv
    BY DEF ServerTabsInit, FlagInv, ModalInv, NoModal
  <2>3. HoldsInv /\ RowInv
    BY ServerTabsAssumption DEF ServerTabsInit, HoldsInv, RowInv
  <2>4. FormStateInv /\ PaneInv
    BY DEF ServerTabsInit, FormStateInv, NotOpen, PaneInv, Views
  <2>5. ShellInv
    BY DEF ServerTabsInit, ShellInv, Live
  <2> QED
    BY <2>1, <2>2, <2>3, <2>4, <2>5
<1>2. ASSUME PackageInv, FlagInv, ModalInv, HoldsInv, RowInv, FormStateInv, PaneInv, ShellInv
      PROVE  ServerTabsTypeOK
  <2>1. {packages, held, autoremove, picked, pickedRemove} \subseteq SUBSET Packages
    BY <1>2 DEF PackageInv
  <2>2. wsRef \in 0..MaxShells
    BY <1>2, ServerTabsAssumption DEF ShellInv, ShellIds
  <2> QED
    BY <1>2, <2>1, <2>2 DEF PackageInv, FlagInv, ModalInv, HoldsInv, RowInv, FormStateInv, PaneInv,
       ShellInv, Views, ServerTabsTypeOK
<1> QED
  BY <1>1, <1>2, PackageStep, FlagStep, ModalStep, RowStep, FormStateStep, PaneStep, ShellInvStep, PTL
     DEF ServerTabsSpec

-----------------------------------------------------------------------------
(***************************************************************************)
(* The types of the editor.  A file that the tab knows has a text.         *)
(***************************************************************************)
LEMMA FirstIsOne == ASSUME NEW fs, fs \subseteq Files PROVE FirstOf(fs) \in Files \union {NoPath}
<1> DEFINE First(i) == Paths[i] \in fs /\ \A j \in 1..(i - 1) : Paths[j] \notin fs
           S == {k \in Nat : \A i \in 1..Len(Paths) : i <= k => Paths[i] \notin fs}
<1>0. Len(Paths) \in Nat
  BY AptReposAssumption
<1>1. CASE \E i \in 1..Len(Paths) : First(i)
  <2>1. FirstOf(fs) = NoPath \/ FirstOf(fs) = Paths[CHOOSE i \in 1..Len(Paths) : First(i)]
    BY DEF FirstOf
  <2>2. (CHOOSE i \in 1..Len(Paths) : First(i)) \in 1..Len(Paths)
    BY <1>1
  <2> QED
    BY <2>1, <2>2 DEF Files
<1>2. CASE \A i \in 1..Len(Paths) : ~First(i)
  <2>1. 0 \in S
    BY <1>0
  <2>2. \A k \in Nat : k \in S => k + 1 \in S
    BY <1>0, <1>2
  <2>3. Nat \subseteq S
    <3> HIDE DEF S
    <3> QED
      BY <2>1, <2>2, Induction
  <2>4. \A i \in 1..Len(Paths) : Paths[i] \notin fs
    <3>1. Len(Paths) \in S
      BY <1>0, <2>3
    <3> QED
      BY <3>1
  <2>5. fs = {}
    BY <2>4 DEF Files
  <2> QED
    BY <2>5 DEF FirstOf
<1> QED
  BY <1>1, <1>2

HasText(table) == \A f \in Files : table[f] # Absent => table[f].content # NoText

KnownInv ==
    /\ HasText(files)
    /\ deleting # Nothing => HasText(deleting.files)
    /\ reading.at = "served" => HasText(reading.list)
    /\ saving # Nothing => saving.text # NoText
    /\ selectedPath \in Files \union {NoPath}
    /\ overridden \in AnyText

WritesInv == writes \in 0..MaxWrites /\ reads \in 0..MaxReads

ReviewFlags == previewing \in BOOLEAN

LEMMA TextOnScreen ==
    ASSUME SourceInv, KnownInv, Editor
    PROVE  /\ selectedPath \in Files
           /\ CurrentContent(selectedPath) \in AnyText
           /\ CurrentContent(selectedPath) # NoText
  BY DEF Editor, Known, CurrentContent, SourceInv, FileTable, KnownInv, HasText

LEMMA NoTextIsOne == NoText \in AnyText
  BY DEF AnyText

LEMMA HasTextWith ==
    ASSUME NEW table \in FileTable, HasText(table), NEW f \in Files,
           NEW entry, entry # Absent => entry.content # NoText
    PROVE  HasText([table EXCEPT ![f] = entry])
  BY DEF HasText, FileTable

LEMMA KnownStep == SourceInv /\ KnownInv /\ [AptReposNext]_aptReposVars => KnownInv'
<1> SUFFICES ASSUME SourceInv, KnownInv, [AptReposNext]_aptReposVars PROVE KnownInv'
  OBVIOUS
<1>0. ASSUME UNCHANGED <<files, selectedPath, saving, deleting, reading>>, overridden' \in AnyText
      PROVE  KnownInv'
  BY <1>0 DEF KnownInv
<1>1. ASSUME NEW f \in Files, SelectPath(f) PROVE KnownInv'
  BY <1>1, NoTextIsOne DEF SelectPath, ClosesReview, requestVars, KnownInv
<1>2. ASSUME NEW f \in Files, AddNewFile(f) PROVE KnownInv'
  <2> DEFINE entry == [content |-> "empty", backup |-> NoText]
  <2>1. HasText(files')
    <3>1. entry.content # NoText
      BY DEF NoText
    <3>2. files' = [files EXCEPT ![f] = entry]
      BY <1>2 DEF AddNewFile
    <3> HIDE DEF entry
    <3> QED
      BY <3>1, <3>2, HasTextWith DEF KnownInv, SourceInv
  <2> QED
    BY <1>2, <2>1, NoTextIsOne DEF AddNewFile, ClosesReview, requestVars, KnownInv
<1>3. ASSUME NEW t, EditText(t) PROVE KnownInv'
  BY <1>0, <1>3 DEF EditText, previewVars, requestVars, KnownInv
<1>4. CASE OpenPreview \/ ClosePreview
  BY <1>0, <1>4, NoTextIsOne DEF OpenPreview, ClosePreview, ClosesReview, editVars, requestVars
<1>5. CASE OverrideWarnings
  <2>1. overridden' \in AnyText
    BY <1>5, TextOnScreen, NoTextIsOne DEF OverrideWarnings, ReviewPanel
  <2> QED
    BY <1>0, <1>5, <2>1 DEF OverrideWarnings, editVars, requestVars
<1>6. CASE RestorePrevious
  BY <1>0, <1>6 DEF RestorePrevious, requestVars, KnownInv
<1>7. CASE CommitSave
  <2>1. saving' = [path |-> selectedPath, text |-> CurrentContent(selectedPath), at |-> "asked"]
    BY <1>7 DEF CommitSave
  <2>2. saving'.text # NoText
    BY <1>7, <2>1, TextOnScreen DEF CommitSave, ReviewPanel
  <2> QED
    BY <1>7, <2>2 DEF CommitSave, editVars, previewVars, KnownInv
<1>8. CASE DeleteFile
  <2>1. deleting' = [path |-> selectedPath, files |-> files, done |-> FALSE]
    BY <1>8 DEF DeleteFile
  <2>2. HasText(deleting'.files)
    BY <2>1 DEF KnownInv
  <2> QED
    BY <1>8, <2>2 DEF DeleteFile, editVars, previewVars, KnownInv
<1>9. CASE LoadRepos
  BY <1>9, NoTextIsOne DEF LoadRepos, ClosesReview, editVars, KnownInv
<1>10. ASSUME NEW reached, ReadServed(reached) PROVE KnownInv'
  <2> DEFINE list == [f \in Files |-> IF reached /\ disk[f] # NoText
                                        THEN [content |-> disk[f], backup |-> backup[f]]
                                        ELSE Absent]
  <2>1. reading' = [at |-> "served", list |-> list]
    BY <1>10 DEF ReadServed
  <2>2. HasText(list)
    BY DEF HasText
  <2> HIDE DEF list
  <2>3. HasText(reading'.list)
    BY <2>1, <2>2
  <2> QED
    BY <1>10, <2>3 DEF ReadServed, editVars, previewVars, KnownInv
<1>11. CASE ReadAnswered
  <2>1. HasText(files')
    BY <1>11 DEF ReadAnswered, KnownInv
  <2>2. selectedPath' \in Files \union {NoPath}
    BY <1>11, FirstIsOne DEF ReadAnswered
  <2> QED
    BY <1>11, <2>1, <2>2 DEF ReadAnswered, NoRead, previewVars, KnownInv
<1>12. CASE ReadFails \/ CommitFails \/ DeleteFails
  BY <1>12 DEF ReadFails, CommitFails, DeleteFails, NoRead, editVars, previewVars, KnownInv
<1>13. ASSUME NEW x, BackUpFile(x) \/ BeginWrite(x) \/ EndWrite PROVE KnownInv'
  <2>1. saving # Nothing /\ (saving' = [saving EXCEPT !.at = "backed"]
                               \/ saving' = [saving EXCEPT !.at = "writing"]
                               \/ saving' = [saving EXCEPT !.at = "written"])
    BY <1>13 DEF BackUpFile, BeginWrite, EndWrite
  <2>2. saving'.text # NoText
    BY <2>1 DEF KnownInv, SourceInv, SaveIsClean
  <2> QED
    BY <1>13, <2>2 DEF BackUpFile, BeginWrite, EndWrite, editVars, previewVars, KnownInv
<1>14. CASE CommitAnswered
  <2>1. saving.text # NoText /\ saving' = Nothing /\ UNCHANGED <<selectedPath, deleting, reading>>
    BY <1>14 DEF CommitAnswered, KnownInv
  <2>2. files' = files
        \/ files' = [files EXCEPT ![saving.path] =
                       [content |-> saving.text, backup |-> files[saving.path].content]]
    BY <1>14 DEF CommitAnswered
  <2>3. saving.path \in Files
    BY <1>14 DEF CommitAnswered, SourceInv, SaveIsClean
  <2>4. ASSUME NEW entry, entry.content # NoText, files' = [files EXCEPT ![saving.path] = entry]
        PROVE  HasText(files')
    BY <2>3, <2>4, HasTextWith DEF KnownInv, SourceInv
  <2>5. [content |-> saving.text, backup |-> files[saving.path].content].content # NoText
    BY <2>1
  <2>6. HasText(files')
    BY <2>2, <2>4, <2>5 DEF KnownInv
  <2>7. overridden' = NoText
    BY <1>14 DEF CommitAnswered, ClosesReview
  <2> QED
    BY <2>1, <2>6, <2>7, NoTextIsOne DEF KnownInv
<1>15. CASE DeleteServed
  <2>1. deleting # Nothing /\ deleting' = [deleting EXCEPT !.done = TRUE]
    BY <1>15 DEF DeleteServed
  <2>2. HasText(deleting'.files)
    BY <2>1 DEF KnownInv, SourceInv, DeleteIsClean
  <2> QED
    BY <1>15, <2>2 DEF DeleteServed, editVars, previewVars, KnownInv
<1>16. CASE DeleteAnswered
  <2>1. deleting.files \in FileTable /\ deleting.path \in Files /\ HasText(deleting.files)
    BY <1>16 DEF DeleteAnswered, SourceInv, DeleteIsClean, KnownInv
  <2>2. deleting' = Nothing /\ UNCHANGED <<saving, reading, overridden>>
    BY <1>16 DEF DeleteAnswered, previewVars
  <2>3. files' = [deleting.files EXCEPT ![deleting.path] = Absent]
        /\ selectedPath' = FirstOf({g \in Files : files'[g] # Absent})
    BY <1>16 DEF DeleteAnswered
  <2>4. HasText(files')
    BY <2>1, <2>3, HasTextWith
  <2>5. selectedPath' \in Files \union {NoPath}
    BY <2>3, FirstIsOne
  <2> QED
    BY <2>2, <2>4, <2>5 DEF KnownInv
<1>17. CASE UNCHANGED aptReposVars
  BY <1>0, <1>17 DEF aptReposVars, editVars, previewVars, requestVars, KnownInv
<1> QED
  BY <1>1, <1>2, <1>3, <1>4, <1>5, <1>6, <1>7, <1>8, <1>9, <1>10, <1>11, <1>12, <1>13, <1>14,
     <1>15, <1>16, <1>17 DEF AptReposNext

LEMMA WritesStep == WritesInv /\ [AptReposNext]_aptReposVars => WritesInv'
<1> SUFFICES ASSUME WritesInv, [AptReposNext]_aptReposVars PROVE WritesInv'
  OBVIOUS
<1>0. ASSUME UNCHANGED <<writes, reads>> PROVE WritesInv'
  BY <1>0 DEF WritesInv
<1>1. ASSUME writes < MaxWrites, writes' = writes + 1, reads' = reads PROVE WritesInv'
  BY <1>1, AptReposAssumption DEF WritesInv
<1>2. CASE CommitSave \/ DeleteFile
  BY <1>1, <1>2 DEF CommitSave, DeleteFile
<1>3. CASE LoadRepos
  BY <1>3, AptReposAssumption DEF LoadRepos, WritesInv
<1>4. ASSUME NEW f, NEW t, SelectPath(f) \/ AddNewFile(f) \/ EditText(t) PROVE WritesInv'
  BY <1>0, <1>4 DEF SelectPath, AddNewFile, EditText, requestVars
<1>5. CASE OpenPreview \/ ClosePreview \/ OverrideWarnings \/ RestorePrevious
  BY <1>0, <1>5 DEF OpenPreview, ClosePreview, OverrideWarnings, RestorePrevious, requestVars
<1>6. ASSUME NEW x, \/ ReadServed(x) \/ ReadAnswered \/ ReadFails
                    \/ BackUpFile(x) \/ BeginWrite(x) \/ EndWrite
                    \/ CommitAnswered \/ CommitFails
                    \/ DeleteServed \/ DeleteAnswered \/ DeleteFails
      PROVE  WritesInv'
  BY <1>0, <1>6 DEF ReadServed, ReadAnswered, ReadFails, BackUpFile, BeginWrite, EndWrite,
     CommitAnswered, CommitFails, DeleteServed, DeleteAnswered, DeleteFails
<1>7. CASE UNCHANGED aptReposVars
  BY <1>0, <1>7 DEF aptReposVars, requestVars
<1> QED
  BY <1>2, <1>3, <1>4, <1>5, <1>6, <1>7 DEF AptReposNext

LEMMA FlagsStep == ReviewFlags /\ [AptReposNext]_aptReposVars => ReviewFlags'
<1> SUFFICES ASSUME ReviewFlags, [AptReposNext]_aptReposVars PROVE ReviewFlags'
  OBVIOUS
<1>1. ASSUME NEW f, NEW t, SelectPath(f) \/ AddNewFile(f) \/ EditText(t) PROVE ReviewFlags'
  BY <1>1 DEF SelectPath, AddNewFile, EditText, ClosesReview, previewVars, ReviewFlags
<1>2. CASE OpenPreview \/ ClosePreview \/ OverrideWarnings \/ RestorePrevious
  BY <1>2 DEF OpenPreview, ClosePreview, OverrideWarnings, RestorePrevious, ClosesReview,
     ReviewFlags
<1>3. CASE LoadRepos \/ CommitSave \/ DeleteFile \/ CommitAnswered
  BY <1>3 DEF LoadRepos, CommitSave, DeleteFile, CommitAnswered, ClosesReview, previewVars,
     ReviewFlags
<1>4. ASSUME NEW x, \/ ReadServed(x) \/ ReadAnswered \/ ReadFails
                    \/ BackUpFile(x) \/ BeginWrite(x) \/ EndWrite \/ CommitFails
                    \/ DeleteServed \/ DeleteAnswered \/ DeleteFails
      PROVE  ReviewFlags'
  BY <1>4 DEF ReadServed, ReadAnswered, ReadFails, BackUpFile, BeginWrite, EndWrite, CommitFails,
     DeleteServed, DeleteAnswered, DeleteFails, previewVars, ReviewFlags
<1>5. CASE UNCHANGED aptReposVars
  BY <1>5 DEF aptReposVars, previewVars, ReviewFlags
<1> QED
  BY <1>1, <1>2, <1>3, <1>4, <1>5 DEF AptReposNext

\* The editor's types: every text that is sent is one, and what is selected is a
\* file or none, for any files and any order of saves, deletes and reloads.
THEOREM AptReposTypes == AptReposSpec => []AptReposTypeOK
<1>1. AptReposInit => SourceInv /\ KnownInv /\ WritesInv /\ ReviewFlags
  <2> SUFFICES ASSUME AptReposInit PROVE SourceInv /\ KnownInv /\ WritesInv /\ ReviewFlags
    OBVIOUS
  <2>1. SourceInv
    BY FirstTexts
  <2>2. KnownInv
    <3>1. HasText(files)
      BY DEF AptReposInit, HasText, NoText
    <3>2. selectedPath \in Files \union {NoPath}
      BY FirstIsOne DEF AptReposInit
    <3> QED
      BY <3>1, <3>2, NoTextIsOne DEF AptReposInit, KnownInv, NoRead
  <2>3. WritesInv
    <3>1. writes = 0 /\ reads = 0
      BY DEF AptReposInit
    <3> QED
      BY <3>1, AptReposAssumption DEF WritesInv
  <2>4. ReviewFlags
    BY DEF AptReposInit, ReviewFlags
  <2> QED
    BY <2>1, <2>2, <2>3, <2>4
<1>2. ASSUME SourceInv, KnownInv, WritesInv, ReviewFlags PROVE AptReposTypeOK
  <2> DEFINE phases == {"asked", "backed", "writing", "written"}
  <2>1. saving \in {Nothing} \union [path : Files, text : Contents, at : phases]
    <3>1. CASE saving # Nothing
      <4>1. saving \in [path : Files, text : AnyText, at : phases] /\ saving.text # NoText
        BY <1>2, <3>1 DEF SourceInv, SaveIsClean, KnownInv
      <4>2. saving \in [path : Files, text : Contents, at : phases]
        BY <4>1 DEF AnyText
      <4> QED
        BY <4>2
    <3> QED
      BY <3>1
  <2>2. deleting = Nothing \/ deleting.path \in Files
    BY <1>2 DEF SourceInv, DeleteIsClean
  <2>3. FileTable = FileLists /\ AnyText = Contents \union {NoText}
    BY DEF FileTable, FileLists, AnyText
  <2>4. /\ disk \in [Files -> Contents \union {NoText}]
        /\ backup \in [Files -> Contents \union {NoText}]
        /\ files \in FileLists
        /\ pendingEdits \in [Files -> Contents \union {NoText}]
    BY <1>2, <2>3 DEF SourceInv
  <2>5. reading \in [at : {"idle", "asked"}] \union [at : {"served"}, list : FileLists]
    BY <1>2, <2>3 DEF SourceInv, ReadIsClean
  <2>6. selectedPath \in Files \union {NoPath} /\ overridden \in Contents \union {NoText}
    BY <1>2, <2>3 DEF KnownInv
  <2>7. previewing \in BOOLEAN
    BY <1>2 DEF ReviewFlags
  <2>8. writes \in 0..MaxWrites /\ reads \in 0..MaxReads
    BY <1>2 DEF WritesInv
  <2> QED
    BY <2>1, <2>2, <2>4, <2>5, <2>6, <2>7, <2>8 DEF AptReposTypeOK
<1> QED
  BY <1>1, <1>2, SourceInvStep, KnownStep, WritesStep, FlagsStep, PTL DEF AptReposSpec

-----------------------------------------------------------------------------
(***************************************************************************)
(* All together.                                                           *)
(***************************************************************************)

\* The settings, the tabs, the sources and their review live side by side: a step of
\* one leaves the others where they are, so what is proved of each holds of all
\* together.
THEOREM BrowserImplementsParts ==
    BrowserSpec => SettingsSpec /\ ServerTabsSpec /\ AptReposSpec /\ ReviewSpec
<1>1. BrowserInit => SettingsInit /\ ServerTabsInit /\ AptReposInit /\ ReviewInit
  BY DEF BrowserInit
<1>2. [BrowserNext]_browserVars => /\ [SettingsNext]_settingsVars
                                   /\ [ServerTabsNext]_serverTabsVars
                                   /\ [AptReposNext]_aptReposVars
                                   /\ [ReviewNext]_reviewVars
  <2>1. SettingsStep => SettingsNext /\ UNCHANGED <<serverTabsVars, aptReposVars, reviewVars>>
    BY DEF SettingsStep
  <2>2. TabsStep => ServerTabsNext /\ UNCHANGED <<settingsVars, aptReposVars, reviewVars>>
    BY DEF TabsStep
  <2>3. SourcesStep => AptReposNext /\ UNCHANGED <<settingsVars, serverTabsVars, reviewVars>>
    BY DEF SourcesStep
  <2>4. ReviewStep => ReviewNext /\ UNCHANGED <<settingsVars, serverTabsVars, aptReposVars>>
    BY DEF ReviewStep
  <2>5. UNCHANGED browserVars
          => UNCHANGED <<settingsVars, serverTabsVars, aptReposVars, reviewVars>>
    BY DEF browserVars
  <2> QED
    BY <2>1, <2>2, <2>3, <2>4, <2>5 DEF BrowserNext
<1> QED
  BY <1>1, <1>2, PTL DEF BrowserSpec, SettingsSpec, ServerTabsSpec, AptReposSpec, ReviewSpec

\* The types of everything that the user edits, all of it together.
THEOREM BrowserTypes == BrowserSpec => []BrowserTypeOK
<1>1. SettingsTypeOK /\ ServerTabsTypeOK /\ AptReposTypeOK => BrowserTypeOK
  BY DEF BrowserTypeOK
<1> QED
  BY <1>1, BrowserImplementsParts, SettingsTypes, ServerTabsTypes, AptReposTypes, PTL
=============================================================================
