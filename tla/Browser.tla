------------------------------- MODULE Browser -------------------------------
(***************************************************************************)
(* The parts of the browser tab in which a user edits something that can   *)
(* be lost or sent in the wrong state: the settings (Settings), the tabs   *)
(* of the server page (ServerTabs) and the editor of apt sources           *)
(* (AptRepos) with the diff of its review (SourceReview).  They share no   *)
(* state and only one of them is in the user's hands at a time: a          *)
(* behaviour is about one, and the others are at rest.                     *)
(***************************************************************************)
EXTENDS Settings, ServerTabs, AptRepos, SourceReview

CONSTANT MaxRequests    \* bound: saves, deletes and reloads when files change under them

ASSUME BrowserAssumption == MaxRequests \in Nat

VARIABLE part           \* what the behaviour is about

SettingsParts == {"drafts", "forms"}
PageParts == {"packages", "shell", "row"}
SourceParts == {"file", "files"}

browserVars == <<settingsVars, serverTabsVars, aptReposVars, reviewVars, part>>

BrowserInit ==
    /\ part \in SettingsParts \union PageParts \union SourceParts \union {"review"}
    /\ part # "review" => oldText = <<>> /\ newText = <<>> /\ shownOps = <<>>
    /\ part # "packages" => apt = [p \in Packages |-> "pending"]
    /\ part \notin SettingsParts => admin = TRUE
    /\ SettingsInit
    /\ ServerTabsInit
    /\ AptReposInit
    /\ ReviewInit

\* The drafts of a section and the two configuration forms meet in nothing but
\* the question whether something is unsaved: either alone can raise it.
SettingsStep ==
    /\ part \in SettingsParts
    /\ SettingsNext
    /\ part = "drafts" => formVars' = formVars
    /\ part = "forms" => draftVars' = draftVars
    /\ UNCHANGED <<serverTabsVars, aptReposVars, reviewVars, part>>

\* The list of packages, the shell and the form of the server's row meet in
\* nothing but the tab that is on screen.
TabsStep ==
    /\ part \in PageParts
    /\ ServerTabsNext
    /\ part = "packages" => <<shellVars, rowVars>>' = <<shellVars, rowVars>>
    /\ part = "shell" => rowVars' = rowVars
    /\ part = "row" => shellVars' = shellVars
    /\ part # "packages" => pane' # pane \/ packageVars' = packageVars
    /\ UNCHANGED <<settingsVars, aptReposVars, reviewVars, part>>

\* A user who stays with one file, or one who goes from file to file.
SourcesStep ==
    /\ part \in SourceParts
    /\ AptReposNext
    /\ part = "file" => selectedPath' = selectedPath
    /\ part = "files" => writes' + reads' <= MaxRequests
    /\ UNCHANGED <<settingsVars, serverTabsVars, reviewVars, part>>

ReviewStep ==
    /\ part = "review"
    /\ ReviewNext
    /\ UNCHANGED <<settingsVars, serverTabsVars, aptReposVars, part>>

BrowserNext == SettingsStep \/ TabsStep \/ SourcesStep \/ ReviewStep

BrowserSpec == BrowserInit /\ [][BrowserNext]_browserVars

BrowserTypeOK == SettingsTypeOK /\ ServerTabsTypeOK /\ AptReposTypeOK
=============================================================================
