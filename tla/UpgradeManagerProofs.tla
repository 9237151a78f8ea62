------------------------- MODULE UpgradeManagerProofs -------------------------
(***************************************************************************)
(* Proofs about UpgradeManager, for any number of calls and servers, with   *)
(* commits that raise and restarts.                                        *)
(*                                                                         *)
(* The inductive invariant is the type invariant with two of the checked    *)
(* ones: the lock and the running set say exactly who is engaged            *)
(* (NothingLeaks), and at most one managed call is engaged per server       *)
(* (FailFast, which is what makes leaving the running set safe).            *)
(***************************************************************************)
EXTENDS UpgradeManager, TLAPS

MInv == ManagerTypeOK /\ NothingLeaks /\ FailFast

LEMMA ManagerTypeInit == ManagerInit => ManagerTypeOK
  BY DEF ManagerInit, ManagerTypeOK, CallPCs

LEMMA ManagerTypeStep == ManagerTypeOK /\ [ManagerNext]_managerVars => ManagerTypeOK'
<1> SUFFICES ASSUME ManagerTypeOK, [ManagerNext]_managerVars PROVE ManagerTypeOK'
  OBVIOUS
<1> USE DEF ManagerTypeOK, CallPCs
<1>1. ASSUME NEW c \in Calls, NEW k \in {"managed", "template"}, NEW s \in Servers, Enter(c, k, s)
      PROVE  ManagerTypeOK'
  BY <1>1 DEF Enter
<1>2. ASSUME NEW c \in Calls, Skip(c) PROVE ManagerTypeOK'
  BY <1>2 DEF Skip, At
<1>3. ASSUME NEW c \in Calls, Claim(c) PROVE ManagerTypeOK'
  BY <1>3 DEF Claim, EnterLock, At, On
<1>4. ASSUME NEW c \in Calls, Refuse(c) PROVE ManagerTypeOK'
  BY <1>4 DEF Refuse, At
<1>5. ASSUME NEW c \in Calls, Queue(c) PROVE ManagerTypeOK'
  BY <1>5 DEF Queue, EnterLock, At, On
<1>6. ASSUME NEW c \in Calls, Acquire(c) PROVE ManagerTypeOK'
  BY <1>6 DEF Acquire, At, On
<1>7. ASSUME NEW c \in Calls, Begin(c) PROVE ManagerTypeOK'
  BY <1>7 DEF Begin, At
<1>8. ASSUME NEW c \in Calls, RunApt(c) PROVE ManagerTypeOK'
  BY <1>8, ZenonT(40) DEF RunApt, At
<1>9. ASSUME NEW c \in Calls, Record(c) PROVE ManagerTypeOK'
  BY <1>9 DEF Record, Outcome, At
<1>10. ASSUME NEW c \in Calls, Return(c) PROVE ManagerTypeOK'
  BY <1>10 DEF Return, Release, At, On
<1>11. ASSUME NEW c \in Calls, Raise(c) PROVE ManagerTypeOK'
  BY <1>11 DEF Raise, Release, Outcome, Ending, Holding, At, On
<1>12. CASE ManagerCrash
  BY <1>12 DEF ManagerCrash
<1>13. CASE UNCHANGED managerVars
  BY <1>13 DEF managerVars
<1> QED
  BY <1>1, <1>2, <1>3, <1>4, <1>5, <1>6, <1>7, <1>8, <1>9, <1>10, <1>11, <1>12, <1>13
     DEF ManagerNext, ManagerStep

\* The type invariant holds of every call, lock and row.
THEOREM ManagerTypeCorrect == ManagerSpec => []ManagerTypeOK
  BY ManagerTypeInit, ManagerTypeStep, PTL DEF ManagerSpec

-----------------------------------------------------------------------------
LEMMA MInvInit == ManagerInit => MInv
<1> SUFFICES ASSUME ManagerInit PROVE NothingLeaks /\ FailFast
  BY ManagerTypeInit DEF MInv
<1>1. \A c \in Calls : call[c].pc = "idle"
  BY DEF ManagerInit
<1>2. \A c \in Calls : ~Engaged(c) /\ ~Holding(c)
  BY <1>1 DEF Engaged, Holding, Ending
<1> QED
  BY <1>2, NoCallAssumption DEF NothingLeaks, FailFast, ManagerInit

\* A step that moves one call without engaging or releasing it leaves the
\* invariant alone.
LEMMA Unmoved ==
  ASSUME MInv, ManagerTypeOK', NEW c \in Calls,
         \A d \in Calls \ {c} : call'[d] = call[d],
         Engaged(c) <=> Engaged(c)', Holding(c) <=> Holding(c)',
         Engaged(c) => call'[c].kind = call[c].kind /\ call'[c].server = call[c].server,
         claimed' = claimed, lock' = lock
  PROVE  NothingLeaks' /\ FailFast'
<1>1. \A d \in Calls : /\ Engaged(d) <=> Engaged(d)'
                       /\ Holding(d) <=> Holding(d)'
                       /\ Engaged(d) => call'[d].kind = call[d].kind /\ On(d)' = On(d)
  BY DEF Engaged, Holding, Ending, On
<1>2. \A d \in Calls : Holding(d) => Engaged(d)
  BY DEF Engaged
<1>3. FailFast'
  BY <1>1 DEF MInv, FailFast
<1>4. NothingLeaks'
  <2>1. claimed' = {On(d) : d \in {e \in Calls : Engaged(e) /\ call[e].kind = "managed"}}'
    BY <1>1 DEF MInv, NothingLeaks
  <2>2. \A s \in Servers, d \in Calls : lock'[s] = d <=> Holding(d)' /\ On(d)' = s
    BY <1>1, <1>2 DEF MInv, NothingLeaks
  <2> QED
    BY <2>1, <2>2 DEF NothingLeaks
<1> QED
  BY <1>3, <1>4

\* Entering the lock, for a call that was not engaged.
LEMMA EnterLockKeeps ==
  ASSUME MInv, ManagerTypeOK', NEW c \in Calls, call[c].pc = "called", EnterLock(c),
         claimed' = IF call[c].kind = "managed" THEN claimed \union {On(c)} ELSE claimed,
         call[c].kind = "managed" => On(c) \notin claimed
  PROVE  NothingLeaks' /\ FailFast'
<1> DEFINE s == On(c)
<1>1. /\ s \in Servers
      /\ \A d \in Calls \ {c} : call'[d] = call[d]
      /\ call'[c].kind = call[c].kind /\ call'[c].server = call[c].server
      /\ ~Engaged(c) /\ ~Holding(c) /\ Engaged(c)'
  BY DEF EnterLock, At, Engaged, Holding, Ending, On, MInv, ManagerTypeOK, CallPCs
<1>2. \A d \in Calls : /\ On(d)' = On(d) /\ call'[d].kind = call[d].kind
                       /\ d # c => (Engaged(d) <=> Engaged(d)') /\ (Holding(d) <=> Holding(d)')
  BY <1>1 DEF Engaged, Holding, Ending, On
<1>3. FailFast'
  <2> SUFFICES ASSUME NEW d \in Calls, NEW e \in Calls,
                      Engaged(d)', call'[d].kind = "managed",
                      Engaged(e)', call'[e].kind = "managed", On(d)' = On(e)'
               PROVE  d = e
    BY DEF FailFast
  <2>1. CASE d # c /\ e # c
    BY <2>1, <1>2 DEF MInv, FailFast
  <2>2. CASE d = c \/ e = c
    BY <2>2, <1>2 DEF MInv, NothingLeaks
  <2> QED
    BY <2>1, <2>2
<1>4. claimed' = {On(d) : d \in {e \in Calls : Engaged(e) /\ call[e].kind = "managed"}}'
  BY <1>1, <1>2 DEF MInv, NothingLeaks
<1>5. \A t \in Servers, d \in Calls : lock'[t] = d <=> Holding(d)' /\ On(d)' = t
  <2>1. CASE lock[s] = NoCall /\ lock' = [lock EXCEPT ![s] = c] /\ At(c, "begin")
    <3>1. Holding(c)'
      BY <2>1 DEF At, Holding, MInv, ManagerTypeOK
    <3>2. \A d \in Calls : ~(Holding(d) /\ On(d) = s)
      BY <2>1, <1>1, NoCallAssumption DEF MInv, NothingLeaks
    <3>3. \A t \in Servers : lock'[t] = IF t = s THEN c ELSE lock[t]
      BY <2>1 DEF MInv, ManagerTypeOK
    <3> QED
      BY <1>1, <1>2, <3>1, <3>2, <3>3 DEF MInv, NothingLeaks
  <2>2. CASE UNCHANGED lock /\ At(c, "waiting")
    <3>1. ~Holding(c)'
      BY <2>2 DEF At, Holding, Ending, MInv, ManagerTypeOK
    <3> QED
      BY <2>2, <1>1, <1>2, <3>1 DEF MInv, NothingLeaks
  <2> QED
    BY <2>1, <2>2 DEF EnterLock
<1> QED
  BY <1>3, <1>4, <1>5 DEF NothingLeaks

\* Leaving the lock.  The server is free again: nobody else was engaged on it.
LEMMA ReleaseKeeps ==
  ASSUME MInv, ManagerTypeOK', NEW c \in Calls, Holding(c), Release(c),
         NEW pc \in {"done", "raised"}, At(c, pc)
  PROVE  NothingLeaks' /\ FailFast'
<1>1. /\ On(c) \in Servers /\ Engaged(c)
      /\ \A d \in Calls \ {c} : call'[d] = call[d]
      /\ ~Engaged(c)' /\ ~Holding(c)'
  BY DEF At, Engaged, Holding, Ending, On, MInv, ManagerTypeOK
<1>2. \A d \in Calls : /\ d # c => (Engaged(d) <=> Engaged(d)') /\ (Holding(d) <=> Holding(d)')
                       /\ d # c => On(d)' = On(d) /\ call'[d].kind = call[d].kind
                       /\ Holding(d) => Engaged(d)
  BY <1>1 DEF Engaged, Holding, Ending, On
<1>3. FailFast'
  BY <1>1, <1>2 DEF MInv, FailFast
<1>4. claimed' = {On(d) : d \in {e \in Calls : Engaged(e) /\ call[e].kind = "managed"}}'
  <2>1. CASE call[c].kind = "managed"
    <3>1. \A d \in Calls \ {c} : Engaged(d) /\ call[d].kind = "managed" => On(d) # On(c)
      BY <2>1, <1>1 DEF MInv, FailFast
    <3> QED
      BY <2>1, <3>1, <1>1, <1>2 DEF Release, MInv, NothingLeaks
  <2>2. CASE call[c].kind # "managed"
    BY <2>2, <1>1, <1>2 DEF Release, MInv, NothingLeaks
  <2> QED
    BY <2>1, <2>2
<1>5. \A t \in Servers, d \in Calls : lock'[t] = d <=> Holding(d)' /\ On(d)' = t
  <2>1. \A t \in Servers : lock'[t] = IF t = On(c) THEN NoCall ELSE lock[t]
    BY DEF Release, MInv, ManagerTypeOK
  <2>2. lock[On(c)] = c
    BY <1>1 DEF MInv, NothingLeaks
  <2> QED
    BY <1>1, <1>2, <2>1, <2>2, NoCallAssumption DEF MInv, NothingLeaks
<1> QED
  BY <1>3, <1>4, <1>5 DEF NothingLeaks

LEMMA MInvStep == MInv /\ [ManagerNext]_managerVars => MInv'
<1> SUFFICES ASSUME MInv, [ManagerNext]_managerVars PROVE NothingLeaks' /\ FailFast'
  BY ManagerTypeStep DEF MInv
<1>t. ManagerTypeOK /\ ManagerTypeOK'
  BY ManagerTypeStep DEF MInv
<1>1. ASSUME NEW c \in Calls, NEW k \in {"managed", "template"}, NEW s \in Servers, Enter(c, k, s)
      PROVE  NothingLeaks' /\ FailFast'
  <2>1. \A d \in Calls \ {c} : call'[d] = call[d]
    BY <1>1, <1>t DEF Enter, ManagerTypeOK
  <2>2. ~Engaged(c) /\ ~Engaged(c)' /\ ~Holding(c) /\ ~Holding(c)'
    BY <1>1, <1>t DEF Enter, ManagerTypeOK, Engaged, Holding, Ending
  <2> QED
    BY <1>1, <1>t, <2>1, <2>2, Unmoved DEF Enter
<1>2. ASSUME NEW c \in Calls, Skip(c) \/ Refuse(c) PROVE NothingLeaks' /\ FailFast'
  <2>1. /\ \A d \in Calls \ {c} : call'[d] = call[d]
        /\ ~Engaged(c) /\ ~Engaged(c)' /\ ~Holding(c) /\ ~Holding(c)'
    BY <1>2, <1>t DEF Skip, Refuse, At, ManagerTypeOK, Engaged, Holding, Ending
  <2> QED
    BY <1>2, <1>t, <2>1, Unmoved DEF Skip, Refuse
<1>3. ASSUME NEW c \in Calls, Claim(c) PROVE NothingLeaks' /\ FailFast'
  BY <1>3, <1>t, EnterLockKeeps DEF Claim
<1>4. ASSUME NEW c \in Calls, Queue(c) PROVE NothingLeaks' /\ FailFast'
  BY <1>4, <1>t, EnterLockKeeps DEF Queue
<1>5. ASSUME NEW c \in Calls, Acquire(c) PROVE NothingLeaks' /\ FailFast'
  <2>1. /\ \A d \in Calls \ {c} : call'[d] = call[d]
        /\ call'[c].kind = call[c].kind /\ call'[c].server = call[c].server
        /\ Engaged(c) /\ Engaged(c)' /\ ~Holding(c) /\ Holding(c)'
        /\ On(c) \in Servers
    BY <1>5, <1>t DEF Acquire, At, On, ManagerTypeOK, Engaged, Holding, Ending
  <2>2. \A d \in Calls : /\ On(d)' = On(d) /\ call'[d].kind = call[d].kind
                         /\ Engaged(d) <=> Engaged(d)'
                         /\ d # c => (Holding(d) <=> Holding(d)')
    BY <2>1 DEF Engaged, Holding, Ending, On
  <2>3. FailFast'
    BY <2>2 DEF MInv, FailFast
  <2>4. claimed' = {On(d) : d \in {e \in Calls : Engaged(e) /\ call[e].kind = "managed"}}'
    BY <1>5, <2>2 DEF Acquire, MInv, NothingLeaks
  <2>5. \A s \in Servers, d \in Calls : lock'[s] = d <=> Holding(d)' /\ On(d)' = s
    <3>1. \A d \in Calls : ~(Holding(d) /\ On(d) = On(c))
      BY <1>5, <2>1, NoCallAssumption DEF Acquire, MInv, NothingLeaks
    <3>2. \A s \in Servers : lock'[s] = IF s = On(c) THEN c ELSE lock[s]
      BY <1>5, <1>t DEF Acquire, ManagerTypeOK
    <3> QED
      BY <2>1, <2>2, <3>1, <3>2 DEF MInv, NothingLeaks
  <2> QED
    BY <2>3, <2>4, <2>5 DEF NothingLeaks
<1>6. ASSUME NEW c \in Calls, Begin(c) \/ RunApt(c) \/ Record(c) PROVE NothingLeaks' /\ FailFast'
  <2>1. /\ \A d \in Calls \ {c} : call'[d] = call[d]
        /\ call'[c].kind = call[c].kind /\ call'[c].server = call[c].server
        /\ Engaged(c) /\ Engaged(c)' /\ Holding(c) /\ Holding(c)'
    BY <1>6, <1>t DEF Begin, RunApt, Record, At, ManagerTypeOK, Engaged, Holding, Ending
  <2> QED
    BY <1>6, <1>t, <2>1, Unmoved DEF Begin, RunApt, Record
<1>7. ASSUME NEW c \in Calls, Return(c) PROVE NothingLeaks' /\ FailFast'
  BY <1>7, <1>t, ReleaseKeeps DEF Return, Holding
<1>8. ASSUME NEW c \in Calls, Raise(c) PROVE NothingLeaks' /\ FailFast'
  <2>1. CASE Holding(c)
    BY <1>8, <2>1, <1>t, ReleaseKeeps DEF Raise
  <2>2. CASE ~Holding(c)
    <3>1. /\ \A d \in Calls \ {c} : call'[d] = call[d]
          /\ ~Engaged(c) /\ ~Engaged(c)' /\ ~Holding(c)'
      BY <1>8, <2>2, <1>t DEF Raise, At, ManagerTypeOK, Engaged, Holding, Ending
    <3> QED
      BY <1>8, <1>t, <2>2, <3>1, Unmoved DEF Raise
  <2> QED
    BY <2>1, <2>2
<1>9. CASE ManagerCrash
  <2>1. \A c \in Calls : ~Engaged(c)' /\ ~Holding(c)'
    BY <1>9, <1>t DEF ManagerCrash, ManagerTypeOK, Engaged, Holding, Ending
  <2> QED
    BY <1>9, <2>1, NoCallAssumption DEF ManagerCrash, NothingLeaks, FailFast
<1>10. CASE UNCHANGED managerVars
  BY <1>10 DEF managerVars, MInv, NothingLeaks, FailFast, Engaged, Holding, Ending, On
<1> QED
  BY <1>1, <1>2, <1>3, <1>4, <1>5, <1>6, <1>7, <1>8, <1>9, <1>10 DEF ManagerNext, ManagerStep

LEMMA ManagerInvariance == ManagerSpec => []MInv
  BY MInvInit, MInvStep, PTL DEF ManagerSpec

LEMMA OneAptFromInv == MInv => OneAptPerServer
<1> SUFFICES ASSUME MInv, NEW c \in Calls, NEW d \in Calls,
                    call[c].pc = "apt", call[d].pc = "apt", On(c) = On(d)
             PROVE  c = d
  BY DEF OneAptPerServer
<1>1. Holding(c) /\ Holding(d) /\ On(c) \in Servers
  BY DEF Holding, On, MInv, ManagerTypeOK
<1> QED
  BY <1>1 DEF MInv, NothingLeaks

\* Two calls never run apt on the same server at the same time, whether they
\* take the running set or, like a template apply, the lock alone.
THEOREM OneApt == ManagerSpec => []OneAptPerServer
  BY ManagerInvariance, OneAptFromInv, PTL

\* A second managed call on a server is refused, never queued.
THEOREM RefusedNotQueued == ManagerSpec => []FailFast
<1>1. MInv => FailFast
  BY DEF MInv
<1> QED
  BY ManagerInvariance, <1>1, PTL

\* Whatever raises, the lock and the running set come free.
THEOREM LeavesNothing == ManagerSpec => []NothingLeaks
<1>1. MInv => NothingLeaks
  BY DEF MInv
<1> QED
  BY ManagerInvariance, <1>1, PTL
=============================================================================
