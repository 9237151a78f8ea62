------------------------------- MODULE Streams -------------------------------
(***************************************************************************)
(* The parts of the browser tab that drive something at the server and     *)
(* must hear how it ended: the dialogs of a fleet operation (FleetModal)   *)
(* and the page of one server with its upgrade, its checks and its reboot  *)
(* (ServerPage).  The page's jobs are under ids of their own, so they      *)
(* share no state: a behaviour is about one, and the other is at rest.     *)
(* The reboot and the runs of the page share only its loads, which either  *)
(* asks for: a behaviour has one of them beside the loads and checks.      *)
(***************************************************************************)
EXTENDS FleetModal, ServerPage

VARIABLE drive       \* what the behaviour is about

streamsVars == <<vars, serverPageVars, drive>>

StreamsInit ==
    /\ drive \in {"dialog", "upgrade", "reboot"}
    /\ Init
    /\ drive # "dialog" => kind = "upgrade-all"
    /\ ServerPageInit

DialogStep == drive = "dialog" /\ Next /\ UNCHANGED <<serverPageVars, drive>>

UpgradeStep ==
    /\ drive = "upgrade"
    /\ ServerPageNext
    /\ rebootVars' = rebootVars
    /\ UNCHANGED <<vars, drive>>

RebootStep ==
    /\ drive = "reboot"
    /\ ServerPageNext
    /\ runVars' = runVars
    /\ UNCHANGED <<vars, drive>>

StreamsNext == DialogStep \/ UpgradeStep \/ RebootStep

\* What is fair in each part; at rest, neither has anything that it could do.
StreamsSpec ==
    /\ StreamsInit
    /\ [][StreamsNext]_streamsVars
    /\ Fairness
    /\ ServerPageFairness

StreamsTypeOK == TypeOK /\ ServerPageTypeOK
=============================================================================
