-------------------------------- MODULE MCTab --------------------------------
(***************************************************************************)
(* Instances of Tab: a dialog over two servers with two runs, the page of  *)
(* a server that is checked twice, a server with a Check button beside two *)
(* fleet checks that may overlap, a list of two servers with bulk actions  *)
(* one request at a time, a bell that keeps one job; a one-line and a      *)
(* deb822 source; which is the format of a file goes by its name.          *)
(***************************************************************************)
EXTENDS Tab

JobOf == [s \in Checkable |-> "check-one"]
TwoPaths == <<"a.list", "b.sources">>
SourcesFormat == {"b.sources"}
=============================================================================
