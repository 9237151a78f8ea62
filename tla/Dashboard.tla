------------------------------ MODULE Dashboard ------------------------------
(***************************************************************************)
(* The fleet as the browser follows it: the fleet check with its two polls *)
(* (FleetCheck) and the list of servers with its bulk actions              *)
(* (ServerList).  A check changes nothing that the list keeps, so they     *)
(* share no state: a behaviour is about one, and the other is at rest.     *)
(***************************************************************************)
EXTENDS FleetCheck, ServerList

VARIABLE topic      \* what the behaviour is about

dashboardVars == <<fleetCheckVars, listPageVars, topic>>

DashboardInit ==
    /\ topic \in {"check", "list"}
    /\ CheckInit
    /\ ListInit
    /\ topic = "check" => where = "elsewhere" /\ fleet = [s \in Machines |-> "on"]

FleetCheckStep == topic = "check" /\ CheckNext /\ UNCHANGED <<listPageVars, topic>>

ListStep == topic = "list" /\ ListNext /\ UNCHANGED <<fleetCheckVars, topic>>

DashboardNext == FleetCheckStep \/ ListStep

\* What is fair in each topic; at rest, neither has anything that it could do.
DashboardSpec ==
    /\ DashboardInit
    /\ [][DashboardNext]_dashboardVars
    /\ CheckFairness
    /\ ListFairness

DashboardTypeOK == CheckTypeOK /\ ListTypeOK
=============================================================================
