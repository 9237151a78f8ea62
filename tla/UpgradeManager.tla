---------------------------- MODULE UpgradeManager ----------------------------
(***************************************************************************)
(* Calls that run apt on a server (backend/upgrade_manager.py).             *)
(*                                                                         *)
(* "managed" calls are upgrade_server, upgrade_packages_selective and       *)
(* run_autoremove, which share their machinery: a set of servers with a     *)
(* call in progress, to refuse a second one at once, and a lock per server. *)
(* A "template" call (_apply_to_server of routers/upgrades.py) takes the    *)
(* lock only.  Each call writes one UpdateHistory row.                      *)
(*                                                                         *)
(* What apt does is its outcome.  Hooks, snapshot, reboot, the check after  *)
(* the upgrade and the notifications are steps under the lock that leave    *)
(* this state alone whether they succeed or not.                           *)
(***************************************************************************)
EXTENDS Naturals, FiniteSets

CONSTANTS Calls,     \* calls that may be made
          Servers,   \* managed servers
          NoCall,    \* the owner of a free lock
          DbMayFail  \* can a commit raise (database locked)?

ASSUME NoCallAssumption == NoCall \notin Calls
ASSUME DbMayFailAssumption == DbMayFail \in BOOLEAN

VARIABLES
  call,     \* where each call is, what it is and on which server
  row,      \* UpdateHistory.status of the call's row; "none" before it exists
  claimed,  \* _upgrade_running
  lock      \* owner of each server's _upgrade_locks entry

managerVars == <<call, row, claimed, lock>>

CallPCs == {"idle", "called", "waiting", "begin", "apt", "succeeded", "failed",
            "after", "done", "raised", "dead"}

ManagerTypeOK ==
  /\ call \in [Calls -> [pc : CallPCs, kind : {"managed", "template"}, server : Servers]]
  /\ row \in [Calls -> {"none", "running", "skipped", "success", "error"}]
  /\ claimed \in SUBSET Servers
  /\ lock \in [Servers -> Calls \union {NoCall}]

ManagerInit ==
  /\ call \in [Calls -> [pc : {"idle"}, kind : {"managed"}, server : Servers]]
  /\ row = [c \in Calls |-> "none"]
  /\ claimed = {}
  /\ lock = [s \in Servers |-> NoCall]

-----------------------------------------------------------------------------
On(c) == call[c].server
At(c, pc) == call' = [call EXCEPT ![c].pc = pc]

\* Calls whose apt has ended, calls that own the lock, calls past the claim.
Ending(c) == call[c].pc \in {"succeeded", "failed"}
Holding(c) == call[c].pc \in {"begin", "apt", "after"} \/ Ending(c)
Engaged(c) == call[c].pc = "waiting" \/ Holding(c)

Enter(c, kind, s) ==
  /\ call[c].pc = "idle"
  /\ call' = [call EXCEPT ![c] = [pc |-> "called", kind |-> kind, server |-> s]]
  /\ UNCHANGED <<row, claimed, lock>>

\* A read-only root, or for a template a closed window: recorded and skipped.
Skip(c) ==
  /\ call[c].pc = "called"
  /\ row' = [row EXCEPT ![c] = "skipped"]
  /\ At(c, "done")
  /\ UNCHANGED <<claimed, lock>>

\* Mutant: the lock is entered although it is taken.
EnterLockAnyway(c) ==
  /\ lock' = [lock EXCEPT ![On(c)] = c]
  /\ At(c, "begin")

\* async with lock: at once if it is free and nobody waits, else in the queue.
EnterLock(c) ==
  IF lock[On(c)] = NoCall /\ ~ \E d \in Calls : call[d].pc = "waiting" /\ On(d) = On(c)
  THEN lock' = [lock EXCEPT ![On(c)] = c] /\ At(c, "begin")
  ELSE UNCHANGED lock /\ At(c, "waiting")

\* The check of the running set and the claim are one step: no await in between.
Claim(c) ==
  /\ call[c].pc = "called" /\ call[c].kind = "managed"
  /\ On(c) \notin claimed
  /\ claimed' = claimed \union {On(c)}
  /\ EnterLock(c)
  /\ UNCHANGED row

Refuse(c) ==
  /\ call[c].pc = "called" /\ call[c].kind = "managed"
  /\ On(c) \in claimed
  /\ row' = [row EXCEPT ![c] = "error"]
  /\ At(c, "done")
  /\ UNCHANGED <<claimed, lock>>

Queue(c) ==
  /\ call[c].pc = "called" /\ call[c].kind = "template"
  /\ EnterLock(c)
  /\ UNCHANGED <<row, claimed>>

Acquire(c) ==
  /\ call[c].pc = "waiting" /\ lock[On(c)] = NoCall
  /\ lock' = [lock EXCEPT ![On(c)] = c]
  /\ At(c, "begin")
  /\ UNCHANGED <<row, claimed>>

Begin(c) ==
  /\ call[c].pc = "begin"
  /\ row' = [row EXCEPT ![c] = "running"]
  /\ At(c, "apt")
  /\ UNCHANGED <<claimed, lock>>

\* apt ends, times out or cannot be reached.
RunApt(c) ==
  /\ call[c].pc = "apt"
  /\ \E r \in {"succeeded", "failed"} : At(c, r)
  /\ UNCHANGED <<row, claimed, lock>>

Outcome(c) == IF call[c].pc = "succeeded" THEN "success" ELSE "error"

Record(c) ==
  /\ Ending(c)
  /\ row' = [row EXCEPT ![c] = Outcome(c)]
  /\ At(c, "after")
  /\ UNCHANGED <<claimed, lock>>

\* Leaving the lock and, for a managed call, the running set.
Release(c) ==
  /\ lock' = [lock EXCEPT ![On(c)] = NoCall]
  /\ claimed' = IF call[c].kind = "managed" THEN claimed \ {On(c)} ELSE claimed

Return(c) ==
  /\ call[c].pc = "after"
  /\ Release(c)
  /\ At(c, "done")
  /\ UNCHANGED row

\* Mutant: the running set is not cleaned up when the call raises.
RaiseAndKeep(c) ==
  /\ DbMayFail /\ (call[c].pc = "begin" \/ Ending(c))
  /\ lock' = [lock EXCEPT ![On(c)] = NoCall]
  /\ At(c, "raised")
  /\ UNCHANGED <<row, claimed>>

\* A commit raises.  A result that could not be written leaves the row running;
\* one that was written and could not be read back stands.
Raise(c) ==
  /\ DbMayFail /\ (call[c].pc \in {"called", "begin"} \/ Ending(c))
  /\ IF Holding(c) THEN Release(c) ELSE UNCHANGED <<lock, claimed>>
  /\ \/ UNCHANGED row
     \/ Ending(c) /\ row' = [row EXCEPT ![c] = Outcome(c)]
  /\ At(c, IF Ending(c) /\ call[c].kind = "template" THEN "done" ELSE "raised")

ManagerStep(c) ==
  \/ Skip(c) \/ Claim(c) \/ Refuse(c) \/ Queue(c) \/ Acquire(c)
  \/ Begin(c) \/ RunApt(c) \/ Record(c) \/ Return(c)

\* A restart: the locks and the calls are gone, the rows are not.
ManagerCrash ==
  /\ call' = [c \in Calls |-> IF call[c].pc = "idle" THEN call[c]
                              ELSE [call[c] EXCEPT !.pc = "dead"]]
  /\ claimed' = {}
  /\ lock' = [s \in Servers |-> NoCall]
  /\ UNCHANGED row

ManagerNext ==
  \/ \E c \in Calls : \/ \E k \in {"managed", "template"}, s \in Servers : Enter(c, k, s)
                      \/ ManagerStep(c) \/ Raise(c)
  \/ ManagerCrash

ManagerSpec == ManagerInit /\ [][ManagerNext]_managerVars

-----------------------------------------------------------------------------
\* Two calls never run apt on the same server at the same time, whatever they
\* are (the per-server lock).
OneAptPerServer ==
  \A c, d \in Calls :
    call[c].pc = "apt" /\ call[d].pc = "apt" /\ On(c) = On(d) => c = d

\* A managed call never queues behind another managed call on the same server:
\* it is refused instead (_upgrade_running, "fail fast").
FailFast ==
  \A c, d \in {e \in Calls : Engaged(e) /\ call[e].kind = "managed"} :
    On(c) = On(d) => c = d

\* A server is marked as busy exactly while a call is engaged on it, and its lock
\* is held exactly by the call that entered it: no exception, refusal or wait
\* leaves a server that can never be upgraded again.
NothingLeaks ==
  /\ claimed = {On(c) : c \in {d \in Calls : Engaged(d) /\ call[d].kind = "managed"}}
  /\ \A s \in Servers, c \in Calls : lock[s] = c <=> Holding(c) /\ On(c) = s
=============================================================================
