------------------------------- MODULE AptRepos -------------------------------
(***************************************************************************)
(* The tab that edits the apt sources of a server (src/frontend/src/pages/ *)
(* ServerDetail.tsx): texts typed per file, the review that stands before  *)
(* every save, with its lint and the override of its warnings, restore,    *)
(* delete, new files and reloads, while earlier requests are still out.    *)
(* How the backend writes, backs up and deletes a file is                  *)
(* src/backend/routers/apt_repos.py.  The diff of the review is            *)
(* SourceReview's.                                                         *)
(*                                                                         *)
(* A text is what the lint finds in it: one that it passes, one with a     *)
(* warning, one with an error, and the empty one; and "torn" is what tee   *)
(* leaves when it is cut off within a line, which the lint refuses too.    *)
(***************************************************************************)
EXTENDS Naturals, Sequences

CONSTANTS
    Paths,          \* the files the tab may show, in the order it lists them
    Deb822,         \* those in the deb822 format
    MaxWrites,      \* bound: saves and deletes that are sent
    MaxReads        \* bound: reloads

ASSUME AptReposAssumption ==
    /\ Paths \in Seq(STRING)
    /\ Deb822 \subseteq STRING
    /\ MaxWrites \in Nat /\ MaxReads \in Nat

VARIABLES
    disk,           \* the files at the server, some of them half written
    backup,         \* their backups
    files,          \* the files as the tab knows them: content and backup
    pendingEdits,   \* texts typed and not saved
    selectedPath,   \* the file on screen
    previewing,     \* its review is on screen
    overridden,     \* the text whose warnings the user has overridden
    reading,        \* the read of all files on its way, and the list it brings
    saving,         \* the save on its way, and how far the server is with it
    deleting,       \* the delete on its way, and the files known when it was asked
    writes,         \* bounded by MaxWrites
    reads           \* bounded by MaxReads

diskVars == <<disk, backup>>
editVars == <<files, pendingEdits, selectedPath>>
previewVars == <<previewing, overridden>>
requestVars == <<reading, saving, deleting, writes, reads>>
aptReposVars == <<diskVars, editVars, previewVars, requestVars>>

Files == {Paths[i] : i \in 1..Len(Paths)}
Typed == {"fine", "bare", "broken", "empty"}
Cut == {"empty", "torn"}            \* a file that tee has begun to write
Contents == Typed \union Cut
NoText == "none"
NoPath == "no file"
Nothing == [path |-> NoPath]
NoRead == [at |-> "idle"]
Absent == [content |-> NoText, backup |-> NoText]

FileLists == [Files -> [content : Contents \union {NoText}, backup : Contents \union {NoText}]]

AptReposTypeOK ==
    /\ disk \in [Files -> Contents \union {NoText}]
    /\ backup \in [Files -> Contents \union {NoText}]
    /\ files \in FileLists
    /\ pendingEdits \in [Files -> Contents \union {NoText}]
    /\ selectedPath \in Files \union {NoPath}
    /\ previewing \in BOOLEAN
    /\ overridden \in Contents \union {NoText}
    /\ reading \in [at : {"idle", "asked"}] \union [at : {"served"}, list : FileLists]
    /\ saving \in {Nothing} \union [path : Files, text : Contents,
                                     at : {"asked", "backed", "writing", "written"}]
    /\ deleting = Nothing \/ deleting.path \in Files
    /\ writes \in 0..MaxWrites /\ reads \in 0..MaxReads

\* The first in the tab's order, if there is any.
FirstOf(fs) == IF fs = {} THEN NoPath
               ELSE Paths[CHOOSE i \in 1..Len(Paths) :
                            Paths[i] \in fs /\ \A j \in 1..(i - 1) : Paths[j] \notin fs]

AptReposInit ==
    /\ disk = [f \in Files |-> "fine"]
    /\ backup = [f \in Files |-> NoText]
    /\ files = [f \in Files |-> [content |-> "fine", backup |-> NoText]]
    /\ pendingEdits = [f \in Files |-> NoText]
    /\ selectedPath = FirstOf(Files)
    /\ previewing = FALSE
    /\ overridden = NoText
    /\ reading = NoRead
    /\ saving = Nothing
    /\ deleting = Nothing
    /\ writes = 0 /\ reads = 0

-----------------------------------------------------------------------------
(***************************************************************************)
(* The lint.                                                               *)
(***************************************************************************)

\* A line of the one-line format, and a stanza of deb822, as the lint sees it.
SourceLines(t) ==
    CASE t = "fine"   -> <<[type |-> "comment"],
                           [type |-> "deb", fields |-> 3, uri |-> TRUE, flat |-> FALSE]>>
      [] t = "bare"   -> <<[type |-> "deb", fields |-> 2, uri |-> TRUE, flat |-> FALSE]>>
      [] t \in {"broken", "torn"} -> <<[type |-> "junk"]>>
      [] OTHER        -> <<>>

SourceStanzas(t) ==
    CASE t = "fine"   -> <<[comment |-> TRUE],
                           [comment |-> FALSE, flat |-> FALSE,
                            keys |-> {"Types", "URIs", "Suites", "Components"}]>>
      [] t = "bare"   -> <<[comment |-> FALSE, flat |-> FALSE, keys |-> {"Types", "URIs", "Suites"}]>>
      [] t \in {"broken", "torn"} -> <<[comment |-> FALSE, flat |-> TRUE,
                                         keys |-> {"Types", "Suites"}]>>
      [] OTHER        -> <<>>

\* Anything but a deb or deb-src line, a comment or an empty line, and a line
\* with fewer than two fields after its options, is an error; what is no URI,
\* and no component outside a flat repository, is a warning.
LintLine(l) ==
    IF l.type = "comment" THEN {}
    ELSE IF l.type \notin {"deb", "deb-src"} \/ l.fields < 2 THEN {"error"}
    ELSE IF ~l.uri \/ (~l.flat /\ l.fields < 3) THEN {"warning"} ELSE {}

LintOneLineSources(t) == UNION {LintLine(SourceLines(t)[i]) : i \in 1..Len(SourceLines(t))}

LintStanza(s) ==
    IF s.comment THEN {}
    ELSE (IF {"Types", "URIs", "Suites"} \subseteq s.keys THEN {} ELSE {"error"})
           \union (IF s.flat \/ "Components" \in s.keys THEN {} ELSE {"warning"})

LintDeb822Sources(t) ==
    IF SourceStanzas(t) = <<>> THEN {"warning"}
    ELSE UNION {LintStanza(SourceStanzas(t)[i]) : i \in 1..Len(SourceStanzas(t))}

LintAptSource(f, t) == IF f \in Deb822 THEN LintDeb822Sources(t) ELSE LintOneLineSources(t)

-----------------------------------------------------------------------------
(***************************************************************************)
(* The editor.                                                             *)
(***************************************************************************)
Known == {f \in Files : files[f] # Absent}

CurrentContent(f) == IF pendingEdits[f] # NoText THEN pendingEdits[f] ELSE files[f].content

IsDirty(f) == pendingEdits[f] # NoText /\ pendingEdits[f] # files[f].content

\* What the tab shows: the bar with a button per file, the editor of the one
\* selected, and either the editor's buttons or the review.  Nothing covers
\* them while a read or a delete is out.
FileBar(f) == f \in Known
Editor == selectedPath \in Known
EditorButtons == Editor /\ ~previewing
ReviewPanel == Editor /\ previewing

ClosesReview == previewing' = FALSE /\ overridden' = NoText

SelectPath(f) ==
    /\ FileBar(f)
    /\ selectedPath' = f
    /\ ClosesReview
    /\ UNCHANGED <<diskVars, files, pendingEdits, requestVars>>

\* The editor is read-only under a review.
EditText(t) ==
    /\ EditorButtons
    /\ pendingEdits' = [pendingEdits EXCEPT ![selectedPath] = t]
    /\ UNCHANGED <<diskVars, files, selectedPath, previewVars, requestVars>>

OpenPreview ==
    /\ EditorButtons /\ saving = Nothing
    /\ IsDirty(selectedPath)
    /\ previewing' = TRUE
    /\ overridden' = NoText
    /\ UNCHANGED <<diskVars, editVars, requestVars>>

ClosePreview ==
    /\ ReviewPanel /\ saving = Nothing
    /\ ClosesReview
    /\ UNCHANGED <<diskVars, editVars, requestVars>>

\* The box that overrides the warnings of the text on screen.
OverrideWarnings ==
    /\ ReviewPanel
    /\ LintAptSource(selectedPath, CurrentContent(selectedPath)) = {"warning"}
    /\ overridden' = IF overridden = NoText THEN CurrentContent(selectedPath) ELSE NoText
    /\ UNCHANGED <<diskVars, editVars, previewing, requestVars>>

RestorePrevious ==
    /\ EditorButtons /\ saving = Nothing
    /\ files[selectedPath].backup # NoText
    /\ pendingEdits' = [pendingEdits EXCEPT ![selectedPath] = files[selectedPath].backup]
    /\ previewing' = FALSE
    /\ UNCHANGED <<diskVars, files, selectedPath, overridden, requestVars>>

\* A new file is known to the tab alone until it is saved.
AddNewFile(f) ==
    /\ f \in Files \ Known
    /\ files' = [files EXCEPT ![f] = [content |-> "empty", backup |-> NoText]]
    /\ selectedPath' = f
    /\ ClosesReview
    /\ UNCHANGED <<diskVars, pendingEdits, requestVars>>

-----------------------------------------------------------------------------
(***************************************************************************)
(* Requests.                                                               *)
(***************************************************************************)
LoadRepos ==
    /\ reading = NoRead
    /\ reads < MaxReads
    /\ reading' = [at |-> "asked"]
    /\ reads' = reads + 1
    /\ ClosesReview
    /\ UNCHANGED <<diskVars, editVars, saving, deleting, writes>>

\* get_apt_repos reads the files as they are at this moment; a server that it
\* does not reach has none.
ReadServed(reached) ==
    /\ reading.at = "asked"
    /\ reading' = [at |-> "served",
                   list |-> [f \in Files |-> IF reached /\ disk[f] # NoText
                                               THEN [content |-> disk[f], backup |-> backup[f]]
                                               ELSE Absent]]
    /\ UNCHANGED <<diskVars, editVars, previewVars, saving, deleting, writes, reads>>

\* The list, by now perhaps an old one, or an error.
ReadAnswered ==
    /\ reading.at = "served"
    /\ files' = reading.list
    /\ selectedPath' = IF selectedPath \in Files /\ reading.list[selectedPath] # Absent
                         THEN selectedPath
                         ELSE FirstOf({f \in Files : reading.list[f] # Absent})
    /\ reading' = NoRead
    /\ UNCHANGED <<diskVars, pendingEdits, previewVars, saving, deleting, writes, reads>>

ReadFails ==
    /\ reading # NoRead
    /\ reading' = NoRead
    /\ UNCHANGED <<diskVars, editVars, previewVars, saving, deleting, writes, reads>>

\* commitSave: an error refuses it, a warning needs the override.
CommitSave ==
    /\ ReviewPanel /\ saving = Nothing
    /\ writes < MaxWrites
    /\ LET lint == LintAptSource(selectedPath, CurrentContent(selectedPath)) IN
         /\ "error" \notin lint
         /\ "warning" \in lint => overridden # NoText
    /\ saving' = [path |-> selectedPath, text |-> CurrentContent(selectedPath), at |-> "asked"]
    /\ writes' = writes + 1
    /\ UNCHANGED <<diskVars, editVars, previewVars, reading, deleting, reads>>

\* write_apt_repo: what is on disk becomes the backup, best effort: it may not
\* be written, or only begun.
BackUpFile(b) ==
    LET f == saving.path IN
    /\ saving # Nothing /\ saving.at = "asked"
    /\ b # backup[f] => disk[f] # NoText /\ b \in Cut \union {disk[f]}
    /\ backup' = [backup EXCEPT ![f] = b]
    /\ saving' = [saving EXCEPT !.at = "backed"]
    /\ UNCHANGED <<disk, editVars, previewVars, reading, deleting, writes, reads>>

\* tee truncates the file and writes; what it writes into a file deleted by now
\* is gone.
BeginWrite(t) ==
    /\ saving # Nothing /\ saving.at = "backed"
    /\ disk' = [disk EXCEPT ![saving.path] = t]
    /\ saving' = [saving EXCEPT !.at = "writing"]
    /\ UNCHANGED <<backup, editVars, previewVars, reading, deleting, writes, reads>>

EndWrite ==
    LET f == saving.path IN
    /\ saving # Nothing /\ saving.at = "writing"
    /\ disk' = IF disk[f] = NoText THEN disk ELSE [disk EXCEPT ![f] = saving.text]
    /\ saving' = [saving EXCEPT !.at = "written"]
    /\ UNCHANGED <<backup, editVars, previewVars, reading, deleting, writes, reads>>

\* Mutant: the text is read when the answer is there, and not when it is sent.
CommitAnsweredLate ==
    LET f == saving.path IN
    /\ saving # Nothing /\ saving.at = "written"
    /\ saving' = Nothing
    /\ files' = IF f \in Known
                  THEN [files EXCEPT ![f] = [content |-> CurrentContent(f),
                                             backup |-> files[f].content]]
                  ELSE files
    /\ pendingEdits' = [pendingEdits EXCEPT ![f] = NoText]
    /\ ClosesReview
    /\ UNCHANGED <<diskVars, selectedPath, reading, deleting, writes, reads>>

\* The answer of a save.  The text known before is taken to be the backup, and
\* what was typed into the file is dropped.
CommitAnswered ==
    LET f == saving.path IN
    /\ saving # Nothing /\ saving.at = "written"
    /\ saving' = Nothing
    /\ files' = IF f \in Known
                  THEN [files EXCEPT ![f] = [content |-> saving.text,
                                             backup |-> files[f].content]]
                  ELSE files
    /\ pendingEdits' = [pendingEdits EXCEPT ![f] = NoText]
    /\ ClosesReview
    /\ UNCHANGED <<diskVars, selectedPath, reading, deleting, writes, reads>>

\* A save that fails wherever the server was with it, or whose answer is lost.
CommitFails ==
    /\ saving # Nothing
    /\ saving' = Nothing
    /\ UNCHANGED <<diskVars, editVars, previewVars, reading, deleting, writes, reads>>

\* Asked for and confirmed.
DeleteFile ==
    /\ EditorButtons
    /\ deleting = Nothing
    /\ writes < MaxWrites
    /\ deleting' = [path |-> selectedPath, files |-> files, done |-> FALSE]
    /\ writes' = writes + 1
    /\ UNCHANGED <<diskVars, editVars, previewVars, reading, saving, reads>>

\* delete_apt_repo; the backup stays.
DeleteServed ==
    /\ deleting # Nothing /\ ~deleting.done
    /\ disk' = [disk EXCEPT ![deleting.path] = NoText]
    /\ deleting' = [deleting EXCEPT !.done = TRUE]
    /\ UNCHANGED <<backup, editVars, previewVars, reading, saving, writes, reads>>

\* The answer: the list is the one known when the delete was asked for, and its
\* first file is selected, whatever is selected now.
DeleteAnswered ==
    LET f == deleting.path IN
    /\ deleting # Nothing /\ deleting.done
    /\ deleting' = Nothing
    /\ files' = [deleting.files EXCEPT ![f] = Absent]
    /\ pendingEdits' = [pendingEdits EXCEPT ![f] = NoText]
    /\ selectedPath' = FirstOf({g \in Files : files'[g] # Absent})
    /\ UNCHANGED <<diskVars, previewVars, reading, saving, writes, reads>>

DeleteFails ==
    /\ deleting # Nothing
    /\ deleting' = Nothing
    /\ UNCHANGED <<diskVars, editVars, previewVars, reading, saving, writes, reads>>

AptReposNext ==
    \/ \E f \in Files : SelectPath(f) \/ AddNewFile(f)
    \/ \E t \in Typed : EditText(t)
    \/ OpenPreview \/ ClosePreview \/ OverrideWarnings \/ RestorePrevious
    \/ LoadRepos \/ ReadAnswered \/ ReadFails
    \/ \E reached \in BOOLEAN : ReadServed(reached)
    \/ CommitSave \/ EndWrite \/ CommitAnswered \/ CommitFails
    \/ \E b \in Contents \union {NoText} : BackUpFile(b)
    \/ \E t \in Cut : BeginWrite(t)
    \/ DeleteFile \/ DeleteServed \/ DeleteAnswered \/ DeleteFails

AptReposSpec == AptReposInit /\ [][AptReposNext]_aptReposVars

-----------------------------------------------------------------------------
(***************************************************************************)
(* Properties.                                                             *)
(***************************************************************************)

\* A review stands for one text: the override that lets a save through was
\* given for exactly the text that the save would send, whatever was selected,
\* reloaded, restored or deleted since.
OverrideIsForThis ==
    overridden # NoText /\ ReviewPanel => overridden = CurrentContent(selectedPath)

\* No text that a user typed and the lint refuses gets to the server, into a
\* backup or into what the tab would restore, whatever was typed, selected,
\* deleted or reloaded while a save was on its way; and what a write that was
\* cut off left in any of them is never sent on.
NothingBrokenSaved ==
    /\ \A f \in Files :
         \A t \in {disk[f], backup[f], files[f].content, files[f].backup} \ {"torn", NoText} :
             "error" \notin LintAptSource(f, t)
    /\ saving # Nothing => "error" \notin LintAptSource(saving.path, saving.text)
=============================================================================
