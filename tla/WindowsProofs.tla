---------------------------- MODULE WindowsProofs ----------------------------
(***************************************************************************)
(* Proofs about Windows, for any servers, rows and length of the week.     *)
(*                                                                         *)
(* All rests on one fact: what the gate computes row by row is what the     *)
(* reference says set by set (GateIsReference), at every moment that is not *)
(* in the hours after midnight of a window that wraps.                     *)
(***************************************************************************)
EXTENDS Windows, Integers, TLAPS

\* The moment of a minute of the week.
LEMMA MomentType ==
  ASSUME NEW t \in 0 .. Week - 1
  PROVE  Moment(t) \in Moments
<1>1. Week \in Nat /\ DayLength \in Nat \ {0} /\ Days \in Nat \ {0} /\ t \in Nat /\ t < Week
  BY TimeAssumption DEF Week
<1>2. t % Week = t
  BY <1>1
<1>3. t % DayLength \in 0 .. DayLength - 1
  BY <1>1
<1>4. t \div DayLength \in 0 .. Days - 1
  <2> DEFINE q == t \div DayLength
  <2>1. q \in Nat /\ t = (DayLength * q) + (t % DayLength) /\ t % DayLength >= 0
    BY <1>1
  <2>2. DayLength * q < Days * DayLength
    BY <1>1, <2>1 DEF Week
  <2>3. q < Days
    BY <1>1, <2>1, <2>2
  <2>4. QED
    BY <1>1, <2>1, <2>3
<1>5. QED
  BY <1>2, <1>3, <1>4 DEF Moment, Moments

\* A window is open at the moments it covers, but for the hours after midnight.
LEMMA OpenIsCovered ==
  ASSUME NEW w \in Window, NEW m \in Moments, Settled(w, m)
  PROVE  IsInWindow(w, m) <=> m \in Covered(w)
<1>1. m.day \in 0 .. Days - 1 /\ DayBefore(m.day) \in 0 .. Days - 1
  BY TimeAssumption DEF Moments, DayBefore
<1> QED
  BY <1>1, TimeAssumption DEF Window, Moments, IsInWindow, Covered, Settled

\* The gate and the reference agree.
LEMMA GateIsReference ==
  ASSUME TypeOK, NEW s \in Servers, NEW m \in Moments,
         \A w \in windows : w.scope \in {Fleet, s} => Settled(w, m)
  PROVE  IsBlockedAt(WindowsForServer(s), m) <=> m \notin Permitted(s)
<1>1. \A w \in windows : w.scope \in {Fleet, s} => (IsInWindow(w, m) <=> m \in Covered(w))
  BY OpenIsCovered DEF TypeOK
<1>2. \A w \in windows : m \in Covered(w) => w.enabled
  BY DEF Covered
<1>3. \A w \in windows : w.mode = "allow" <=> w.mode # "deny"
  BY DEF TypeOK, Window
<1>4. (\E w \in WindowsForServer(s) : w.mode = "deny" /\ IsInWindow(w, m))
        <=> m \in CoveredBy(Of(s, "deny"))
  BY <1>1, <1>2 DEF WindowsForServer, CoveredBy, Of
<1>5. (\E w \in WindowsForServer(s) : w.mode = "allow")
        <=> \E w \in Of(s, "allow") : w.enabled
  BY DEF WindowsForServer, Of
<1>6. (\A w \in WindowsForServer(s) : w.mode = "allow" => ~IsInWindow(w, m))
        <=> m \notin CoveredBy(Of(s, "allow"))
  BY <1>1, <1>2 DEF WindowsForServer, CoveredBy, Of
<1>7. QED
  BY <1>4, <1>5, <1>6 DEF IsBlockedAt, Permitted

\* The nightly job's helper sees exactly the deny windows.
LEMMA HelperIsFreeze ==
  ASSUME TypeOK, NEW s \in Servers, SettledFor(s)
  PROVE  ActiveWindow(s) <=> Moment(now) \in CoveredBy(Of(s, "deny"))
<1>1. Moment(now) \in Moments
  BY MomentType DEF TypeOK
<1>2. \A w \in windows : w.scope \in {Fleet, s} =>
        (IsInWindow(w, Moment(now)) <=> Moment(now) \in Covered(w))
  BY <1>1, OpenIsCovered DEF TypeOK, SettledFor
<1>3. \A w \in windows : Moment(now) \in Covered(w) => w.enabled
  BY DEF Covered
<1>4. QED
  BY <1>2, <1>3 DEF ActiveWindow, WindowsForServer, CoveredBy, Of
-----------------------------------------------------------------------------
LEMMA TypeInit == Init => TypeOK
<1>1. Week \in Nat \ {0}
  BY TimeAssumption DEF Week
<1>2. QED
  BY <1>1 DEF Init, TypeOK

LEMMA TypeStep == TypeOK /\ [Next]_vars => TypeOK'
<1> SUFFICES ASSUME TypeOK, [Next]_vars PROVE TypeOK'
  OBVIOUS
<1>0. Week \in Nat \ {0}
  BY TimeAssumption DEF Week
<1> USE DEF TypeOK
<1>1. Edit => queue' \subseteq Entry /\ UNCHANGED <<now, grant>>
  BY DEF Edit, Entry
<1>2. ASSUME NEW w \in Rows,
             CreateWindow(w) \/ DeleteWindow(w) \/ \E v \in Rows : UpdateWindow(w, v)
      PROVE  TypeOK'
  BY <1>1, <1>2, RowsAssumption DEF CreateWindow, DeleteWindow, UpdateWindow
<1>3. ASSUME NEW s \in Servers, PutOff(s) PROVE TypeOK'
  <2>1. PICK k \in Free(s) :
          queue' = queue \union {[server |-> s, wait |-> k, asPlanned |-> TRUE]}
    BY <1>3 DEF PutOff
  <2>2. k \in 0 .. Lookahead
    BY <2>1, TimeAssumption DEF Free
  <2>3. [server |-> s, wait |-> k, asPlanned |-> TRUE] \in Entry
    BY <2>2 DEF Entry
  <2>4. QED
    BY <1>3, <2>1, <2>3 DEF PutOff
<1>4. ASSUME NEW s \in Servers,
             PassGate(s) \/ Override(s) \/ AutoUpgrade(s) \/ RestUpgrade(s) \/ Finish(s)
      PROVE  TypeOK'
  BY <1>4 DEF PassGate, Override, AutoUpgrade, RestUpgrade, Finish, Give
<1>5. ASSUME NEW e \in queue, FireQueued(e) PROVE TypeOK'
  BY <1>5 DEF FireQueued, Give
<1>6. CASE Tick
  <2>1. now' \in 0 .. Week - 1
    <3>1. now \in 0 .. Week - 1
      OBVIOUS
    <3> HIDE DEF TypeOK
    <3>2. now' = (now + 1) % Week
      BY <1>6, Zenon DEF Tick
    <3>3. (now + 1) % Week \in 0 .. Week - 1
      BY <1>0, <3>1
    <3>4. QED
      BY <3>2, <3>3
  <2>2. ASSUME NEW e \in queue
        PROVE  [e EXCEPT !.wait = IF @ = 0 THEN 0 ELSE @ - 1,
                         !.asPlanned = @ /\ e.wait # 0] \in Entry
    <3>1. e.wait \in 0 .. Lookahead /\ e.asPlanned \in BOOLEAN /\ e \in Entry
      BY DEF Entry
    <3>2. (IF e.wait = 0 THEN 0 ELSE e.wait - 1) \in 0 .. Lookahead
      BY <3>1, TimeAssumption
    <3>3. (e.asPlanned /\ e.wait # 0) \in BOOLEAN
      OBVIOUS
    <3>4. QED
      BY <3>1, <3>2, <3>3 DEF Entry
  <2>3. QED
    BY <1>6, <2>1, <2>2 DEF Tick
<1>7. CASE UNCHANGED vars
  BY <1>7 DEF vars
<1>8. QED
  BY <1>2, <1>3, <1>4, <1>5, <1>6, <1>7 DEF Next, QueueAtGate, AutoQueue

\* The rows, the clock, the queue and the grants keep their types.
THEOREM WindowsTypeCorrect == Spec => []TypeOK
  BY TypeInit, TypeStep, PTL DEF Spec

\* No window of a server's own exempts it from a fleet-wide freeze, at whatever
\* hour the freeze is drawn and enforced.
THEOREM FreezeAlwaysBinds == Spec => []FreezeBinds
<1>1. TypeOK => FreezeBinds
  <2> SUFFICES ASSUME TypeOK, NEW s \in Servers, NEW w \in windows,
                      w.scope = Fleet, w.mode = "deny", Moment(now) \in Covered(w),
                      Settled(w, Moment(now))
               PROVE  Blocked(s)
    BY DEF FreezeBinds
  <2>1. Moment(now) \in Moments /\ w.enabled
    BY DEF Covered
  <2>2. IsInWindow(w, Moment(now))
    BY <2>1, OpenIsCovered DEF TypeOK
  <2>3. QED
    BY <2>1, <2>2 DEF Blocked, IsBlockedAt, WindowsForServer
<1>2. QED
  BY <1>1, WindowsTypeCorrect, PTL

\* What passes the gate does so at a permitted moment, and the nightly job
\* starts nothing in a freeze, except after midnight of a window that wraps.
THEOREM GrantsAlwaysPermitted == Spec => GrantsPermitted
<1>1. ASSUME TypeOK, Next, NEW s \in Servers, grant'[s] # grant[s], SettledFor(s)
      PROVE  /\ grant'[s] = "gate" => Moment(now) \in Permitted(s)
             /\ grant'[s] = "auto" => Moment(now) \notin CoveredBy(Of(s, "deny"))
  <2>0. Moment(now) \in Moments
    BY <1>1, MomentType DEF TypeOK
  <2>1. grant'[s] = "gate" => PassGate(s)
    BY <1>1 DEF TypeOK, Next, CreateWindow, DeleteWindow, UpdateWindow, Edit, PassGate,
       QueueAtGate, AutoQueue, PutOff, Override, AutoUpgrade, RestUpgrade, Finish, FireQueued,
       Give, Tick
  <2>2. grant'[s] = "auto" => AutoUpgrade(s)
    BY <1>1 DEF TypeOK, Next, CreateWindow, DeleteWindow, UpdateWindow, Edit, PassGate,
       QueueAtGate, AutoQueue, PutOff, Override, AutoUpgrade, RestUpgrade, Finish, FireQueued,
       Give, Tick
  <2>3. QED
    BY <1>1, <2>0, <2>1, <2>2, GateIsReference, HelperIsFreeze
       DEF PassGate, AutoUpgrade, Blocked, SettledFor
<1>2. TypeOK /\ [Next]_vars =>
        [\A s \in Servers : grant'[s] # grant[s] /\ SettledFor(s) =>
           /\ grant'[s] = "gate" => Moment(now) \in Permitted(s)
           /\ grant'[s] = "auto" => Moment(now) \notin CoveredBy(Of(s, "deny"))]_vars
  BY <1>1
<1>3. QED
  BY <1>2, WindowsTypeCorrect, PTL DEF Spec, GrantsPermitted

-----------------------------------------------------------------------------
(* The upgrades that were put off.  The clock wraps at the end of the week,   *)
(* the countdown does not: both must name the same moment.                    *)

\* A remainder is determined by its range.
LEMMA RemainderUnique ==
  ASSUME NEW n \in Nat \ {0}, NEW q \in Int, NEW r \in 0 .. n - 1
  PROVE  (n * q + r) % n = r
<1> DEFINE x == n * q + r
           p == x \div n
           m == x % n
<1>1. x \in Int /\ p \in Int /\ m \in 0 .. n - 1 /\ x = n * p + m
  <2>1. n \in Int /\ q \in Int /\ r \in Int /\ n > 0
    OBVIOUS
  <2>2. x \in Int
    BY <2>1
  <2> HIDE DEF x
  <2> QED BY <2>1, <2>2
<1>2. n * (q - p) = m - r
  <2>1. n * (q - p) = n * q - n * p
    BY <1>1
  <2>2. n * q + r = n * p + m
    BY <1>1
  <2>3. n * q \in Int /\ n * p \in Int
    BY <1>1
  <2> QED BY <1>1, <2>1, <2>2, <2>3
<1>3. q - p \in Int /\ m - r < n /\ m - r > -n
  BY <1>1
<1>4. ~(q - p >= 1)
  <2> SUFFICES ASSUME q - p >= 1 PROVE FALSE
    OBVIOUS
  <2>1. n * (q - p) >= n * 1
    BY <1>3
  <2> QED BY <1>2, <1>3, <2>1
<1>5. ~(q - p <= -1)
  <2> SUFFICES ASSUME q - p <= -1 PROVE FALSE
    OBVIOUS
  <2>1. n * (q - p) <= n * (-1)
    BY <1>3
  <2>2. n * (-1) = -n
    OBVIOUS
  <2> QED BY <1>2, <1>3, <2>1, <2>2
<1>6. q - p = 0
  BY <1>3, <1>4, <1>5
<1> QED BY <1>1, <1>2, <1>6

\* Whole turns leave no remainder.
LEMMA WholeTurns ==
  ASSUME NEW n \in Nat \ {0}, NEW k \in Nat, NEW a \in Nat
  PROVE  (k * n + a) % n = a % n
<1> DEFINE q == a \div n
           r == a % n
<1>1. q \in Int /\ r \in 0 .. n - 1 /\ a = n * q + r
  OBVIOUS
<1> HIDE DEF q, r
<1>2. k * n + a = n * (k + q) + r
  BY <1>1
<1>3. k + q \in Int
  BY <1>1
<1>4. (n * (k + q) + r) % n = r
  BY <1>1, <1>3, RemainderUnique
<1> QED BY <1>2, <1>4 DEF r

\* A minute later a countdown that has a minute less ends at the same moment.
LEMMA SameMoment ==
  ASSUME NEW t \in 0 .. Week - 1, NEW k \in Nat \ {0}
  PROVE  Moment(((t + 1) % Week) + (k - 1)) = Moment(t + k)
<1>1. Week \in Nat \ {0} /\ DayLength \in Nat \ {0} /\ Days \in Nat \ {0} /\ k - 1 \in Nat
  BY TimeAssumption DEF Week
<1>2. CASE t + 1 < Week
  BY <1>1, <1>2
<1>3. CASE t + 1 = Week
  <2>1. (t + 1) % Week = 0 /\ t + k = 1 * Week + (k - 1)
    BY <1>1, <1>3
  <2>2. (1 * Week + (k - 1)) % Week = (k - 1) % Week
    BY <1>1, WholeTurns
  <2>3. (Days * DayLength + (k - 1)) % DayLength = (k - 1) % DayLength
    BY <1>1, WholeTurns
  <2>4. t + k = Days * DayLength + (k - 1)
    BY <1>1, <1>3 DEF Week
  <2>5. (t + k) % Week = (k - 1) % Week /\ (t + k) % DayLength = (k - 1) % DayLength
    BY <2>1, <2>2, <2>3, <2>4
  <2>6. ((t + 1) % Week) + (k - 1) = k - 1
    BY <1>1, <2>1
  <2> QED BY <2>5, <2>6 DEF Moment
<1> QED BY <1>1, <1>2, <1>3

\* What the scan found is still free, as long as the windows are what it saw.
StillFree(e) == ~IsBlockedAt(WindowsForServer(e.server), Moment(now + e.wait))
PlanInv == \A e \in queue : e.asPlanned => StillFree(e)

LEMMA PlanStep == TypeOK /\ PlanInv /\ [Next]_vars => PlanInv'
<1> SUFFICES ASSUME TypeOK, PlanInv, [Next]_vars, NEW f \in queue', f.asPlanned
             PROVE  StillFree(f)'
  BY DEF PlanInv
<1>1. ASSUME f \in queue, UNCHANGED <<windows, now>> PROVE StillFree(f)'
  BY <1>1 DEF PlanInv, StillFree, WindowsForServer
<1>2. ASSUME NEW w \in Rows,
             CreateWindow(w) \/ DeleteWindow(w) \/ \E v \in Rows : UpdateWindow(w, v)
      PROVE  FALSE
  <2>1. PICK e \in queue : f = [e EXCEPT !.asPlanned = FALSE]
    BY <1>2 DEF CreateWindow, DeleteWindow, UpdateWindow, Edit
  <2> QED BY <2>1 DEF TypeOK, Entry
<1>3. ASSUME NEW s \in Servers, PutOff(s) PROVE StillFree(f)'
  <2>1. PICK k \in Free(s) :
          queue' = queue \union {[server |-> s, wait |-> k, asPlanned |-> TRUE]}
    BY <1>3 DEF PutOff
  <2>2. UNCHANGED <<windows, now>>
    BY <1>3 DEF PutOff
  <2>3. CASE f = [server |-> s, wait |-> k, asPlanned |-> TRUE]
    <3>1. ~IsBlockedAt(WindowsForServer(s), Moment(now + k))
      BY <2>1 DEF Free
    <3>2. f.server = s /\ f.wait = k
      BY <2>3
    <3>3. WindowsForServer(s)' = WindowsForServer(s)
      BY <2>2 DEF WindowsForServer
    <3> QED BY <2>2, <3>1, <3>2, <3>3 DEF StillFree
  <2> QED BY <1>1, <2>1, <2>2, <2>3
<1>4. ASSUME NEW s \in Servers,
             PassGate(s) \/ Override(s) \/ AutoUpgrade(s) \/ RestUpgrade(s) \/ Finish(s)
      PROVE  StillFree(f)'
  BY <1>1, <1>4 DEF PassGate, Override, AutoUpgrade, RestUpgrade, Finish
<1>5. ASSUME NEW e \in queue, FireQueued(e) PROVE StillFree(f)'
  BY <1>1, <1>5 DEF FireQueued
<1>6. CASE Tick
  <2>1. PICK e \in queue : f = [e EXCEPT !.wait = IF @ = 0 THEN 0 ELSE @ - 1,
                                         !.asPlanned = @ /\ e.wait # 0]
    BY <1>6 DEF Tick
  <2>2. e \in Entry
    BY DEF TypeOK
  <2>3. f.server = e.server /\ e.asPlanned /\ e.wait # 0 /\ f.wait = e.wait - 1
    BY <2>1, <2>2 DEF Entry
  <2>4. e.wait \in Nat \ {0} /\ now \in 0 .. Week - 1
    BY <2>2, <2>3, TimeAssumption DEF Entry, TypeOK
  <2>5. Moment(((now + 1) % Week) + (e.wait - 1)) = Moment(now + e.wait)
    BY <2>4, SameMoment
  <2>6. now' = (now + 1) % Week /\ windows' = windows
    BY <1>6 DEF Tick
  <2>7. Moment(now + f.wait)' = Moment(now + e.wait)
    BY <2>3, <2>5, <2>6
  <2>8. WindowsForServer(f.server)' = WindowsForServer(e.server)
    BY <2>3, <2>6 DEF WindowsForServer
  <2>9. StillFree(e)
    BY <2>3 DEF PlanInv
  <2> QED BY <2>7, <2>8, <2>9 DEF StillFree
<1>7. CASE UNCHANGED vars
  BY <1>1, <1>7 DEF vars
<1> QED
  BY <1>2, <1>3, <1>4, <1>5, <1>6, <1>7 DEF Next, QueueAtGate, AutoQueue

\* An upgrade that was put off starts at a permitted moment, as long as its job is
\* on time and nobody edits the windows, however often the week turns over first
\* (with the exception of the hours after midnight).
THEOREM QueuedAlwaysInOpening == Spec => QueuedInOpening
<1> DEFINE Opens == \A s \in Servers : grant[s] = "none" /\ grant'[s] = "queued" =>
              \E e \in queue \ queue' :
                /\ e.server = s
                /\ e.asPlanned /\ SettledFor(s) => Moment(now) \in Permitted(s)
<1>1. ASSUME TypeOK, PlanInv, Next PROVE Opens
  <2> SUFFICES ASSUME NEW s \in Servers, grant[s] = "none", grant'[s] = "queued"
               PROVE  \E e \in queue \ queue' :
                        /\ e.server = s
                        /\ e.asPlanned /\ SettledFor(s) => Moment(now) \in Permitted(s)
    OBVIOUS
  <2>1. PICK e \in queue : FireQueued(e) /\ e.server = s
    BY <1>1 DEF TypeOK, Next, CreateWindow, DeleteWindow, UpdateWindow, Edit, PassGate,
       QueueAtGate, AutoQueue, PutOff, Override, AutoUpgrade, RestUpgrade, Finish, FireQueued,
       Give, Tick
  <2>2. e \in queue \ queue' /\ e.wait = 0
    BY <2>1 DEF FireQueued
  <2>3. ASSUME e.asPlanned, SettledFor(s) PROVE Moment(now) \in Permitted(s)
    <3>1. now \in 0 .. Week - 1
      BY <1>1 DEF TypeOK
    <3>2. now + e.wait = now
      BY <2>2, <3>1, TimeAssumption DEF Week
    <3>3. ~IsBlockedAt(WindowsForServer(s), Moment(now))
      BY <1>1, <2>1, <2>3, <3>2 DEF PlanInv, StillFree
    <3> QED BY <1>1, <2>3, <3>1, <3>3, MomentType, GateIsReference DEF SettledFor
  <2> QED BY <2>1, <2>2, <2>3
<1>2. Init => PlanInv
  BY DEF Init, PlanInv
<1>3. TypeOK /\ PlanInv /\ [Next]_vars => [Opens]_vars
  BY <1>1
<1> QED BY <1>2, <1>3, PlanStep, WindowsTypeCorrect, PTL DEF Spec, QueuedInOpening
=============================================================================
