---------------------------------- MODULE Tab ----------------------------------
(***************************************************************************)
(* The browser tab: what it follows at the server, a dialog or one server  *)
(* (Streams) and the fleet (Dashboard), with their jobs in the bell under  *)
(* ids of their own, and what a user edits in it (Browser).  They share    *)
(* nothing but the bell, so a behaviour is about one of them, and the      *)
(* others are at rest.                                                     *)
(***************************************************************************)
EXTENDS Streams, Dashboard, Browser

CONSTANTS
    Streamed,       \* what of Streams behaviours are about
    Followed,       \* what of Dashboard
    Edited          \* what of Browser

ASSUME TabAssumption ==
    /\ Streamed \subseteq {"dialog", "upgrade", "reboot"}
    /\ Followed \subseteq {"check", "list"}
    /\ Edited \subseteq {"drafts", "forms", "packages", "shell", "row", "file", "files", "review"}

VARIABLE half       \* what this behaviour is about

\* What each keeps beside the bell.
streamsOwnVars ==
    <<kind, page, view, hidden, dialogVars, remoteVars, tabVars, runs, serverPageVars, drive>>
dashboardOwnVars ==
    <<dashVars, layoutPolls, starting, checkVars, serverVars, listPageVars, topic>>

tabVariables == <<streamsOwnVars, dashboardOwnVars, browserVars, bell, half>>

TabInit ==
    /\ half \in {"streams", "dashboard", "browser"}
    /\ half = "streams" => drive \in Streamed
    /\ half = "dashboard" => topic \in Followed
    /\ half = "browser" => part \in Edited
    /\ StreamsInit
    /\ DashboardInit
    /\ BrowserInit
    /\ half # "streams" => drive = "dialog" /\ kind = "upgrade-all"
    /\ half # "dashboard" => topic = "check"
    /\ half # "browser" => part = "file"

StreamsHalf ==
    /\ half = "streams"
    /\ StreamsNext
    /\ UNCHANGED <<dashboardOwnVars, browserVars, half>>

DashboardHalf ==
    /\ half = "dashboard"
    /\ DashboardNext
    /\ UNCHANGED <<streamsOwnVars, browserVars, half>>

BrowserHalf ==
    /\ half = "browser"
    /\ BrowserNext
    /\ UNCHANGED <<streamsOwnVars, dashboardOwnVars, bell, half>>

TabNext == StreamsHalf \/ DashboardHalf \/ BrowserHalf

TabSpec == TabInit /\ [][TabNext]_tabVariables

\* What is fair in each; at rest, none has anything that it could do.
FairTabSpec ==
    /\ TabSpec
    /\ Fairness
    /\ ServerPageFairness
    /\ CheckFairness
    /\ ListFairness
================================================================================
