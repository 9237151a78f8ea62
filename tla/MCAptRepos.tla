------------------------------ MODULE MCAptRepos ------------------------------
(***************************************************************************)
(* The editor of apt sources alone: a one-line and a deb822 source, and    *)
(* saves, deletes and reloads whose answers are still due.                 *)
(***************************************************************************)
EXTENDS AptRepos

TwoPaths == <<"a.list", "b.sources">>
SourcesFormat == {"b.sources"}
=============================================================================
