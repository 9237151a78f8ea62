------------------------------ MODULE ListProofs ------------------------------
(***************************************************************************)
(* Induction and recursion for proofs about lists.  The induction theorems *)
(* of the library take a predicate as a parameter; here what is to be       *)
(* shown is a set, and induction comes from the well-founded order of       *)
(* finite sets.                                                            *)
(***************************************************************************)
EXTENDS Lists, FiniteSetTheorems, TLAPS

\* What holds of 0, and of a number's successor if it holds of the number.
LEMMA Induction ==
    ASSUME NEW S, 0 \in S, \A n \in Nat : n \in S => n + 1 \in S
    PROVE  Nat \subseteq S
<1> SUFFICES ASSUME NEW n \in Nat, n \notin S PROVE FALSE
  OBVIOUS
<1> DEFINE Bad == {T \in FiniteSubsetsOf(Nat) : \E m \in Nat \ S : T = 0..m}
<1>1. 0..n \in Bad
  BY FS_Interval DEF FiniteSubsetsOf
<1>2. IsWellFoundedOn(StrictSubsetOrdering(Nat), FiniteSubsetsOf(Nat))
  BY FS_StrictSubsetOrderingWellFounded
<1>3. PICK T \in Bad : \A U \in Bad : <<U, T>> \notin StrictSubsetOrdering(Nat)
  <2>1. \E T \in Bad : \A U \in Bad : <<U, T>> \notin StrictSubsetOrdering(Nat)
    BY <1>1, <1>2, WFMin
  <2> QED
    BY <2>1
<1>4. PICK m \in Nat \ S : T = 0..m
  BY <1>3
<1>5. m # 0 /\ m - 1 \in Nat /\ m - 1 \notin S
  OBVIOUS
<1>6. 0..(m - 1) \in Bad
  BY <1>5, FS_Interval DEF FiniteSubsetsOf
<1>7. <<0..(m - 1), T>> \in StrictSubsetOrdering(Nat)
  BY <1>4, <1>5 DEF StrictSubsetOrdering
<1> QED
  BY <1>3, <1>6, <1>7

\* What holds wherever it holds of everything of a smaller measure.
LEMMA MeasureInduction ==
    ASSUME NEW D, NEW m \in [D -> Nat], NEW P,
           \A x \in D : (\A y \in D : m[y] < m[x] => y \in P) => x \in P
    PROVE  D \subseteq P
<1> DEFINE S == {k \in Nat : \A x \in D : m[x] < k => x \in P}
<1>1. 0 \in S
  OBVIOUS
<1>2. \A k \in Nat : k \in S => k + 1 \in S
  OBVIOUS
<1>3. Nat \subseteq S
  <2> HIDE DEF S
  <2> QED
    BY <1>1, <1>2, Induction
<1>4. ASSUME NEW x \in D PROVE x \in P
  <2>1. m[x] + 1 \in S /\ m[x] < m[x] + 1
    BY <1>3
  <2> QED
    BY <2>1
<1> QED
  BY <1>4

\* What holds behind the last place of a list, and of a place if it holds of the next.
LEMMA DownInduction ==
    ASSUME NEW n \in Nat, NEW P, n + 1 \in P, \A i \in 1..n : i + 1 \in P => i \in P
    PROVE  \A i \in 1..(n + 1) : i \in P
<1> DEFINE S == {k \in Nat : k > n \/ n + 1 - k \in P}
<1>1. 0 \in S
  OBVIOUS
<1>2. ASSUME NEW k \in Nat, k \in S PROVE k + 1 \in S
  <2>1. CASE k + 1 > n
    BY <2>1
  <2>2. CASE k + 1 <= n
    <3>1. n - k \in 1..n /\ (n - k) + 1 = n + 1 - k /\ n + 1 - (k + 1) = n - k
      BY <2>2
    <3>2. (n - k) + 1 \in P
      BY <1>2, <2>2, <3>1
    <3> QED
      BY <3>1, <3>2
  <2> QED
    BY <2>1, <2>2
<1>3. Nat \subseteq S
  <2> HIDE DEF S
  <2> QED
    BY <1>1, <1>2, Induction
<1>4. ASSUME NEW i \in 1..(n + 1) PROVE i \in P
  <2>1. n + 1 - i \in S /\ n + 1 - i <= n /\ n + 1 - (n + 1 - i) = i
    BY <1>3
  <2> QED
    BY <2>1
<1> QED
  BY <1>4

\* A step of a recursion in the values V goes down a measure that is bounded by N.
GoesDown(D, V, N, m, step) ==
    /\ N \in Nat /\ m \in [D -> 0..N]
    /\ V # {} /\ step \in [D \X [D -> V] -> V]
    /\ \A x \in D : \A g, h \in [D -> V] :
          (\A y \in D : m[y] < m[x] => g[y] = h[y]) => step[<<x, g>>] = step[<<x, h>>]

\* Such a recursion defines a function.
LEMMA Recursion ==
    ASSUME NEW D, NEW V, NEW N, NEW m, NEW step, GoesDown(D, V, N, m, step)
    PROVE  \E f \in [D -> V] : f = [x \in D |-> step[<<x, f>>]]
<1> USE DEF GoesDown
<1> PICK v \in V : TRUE
  OBVIOUS
<1> DEFINE Holds(g, k) == \A x \in D : m[x] < k => g[x] = step[<<x, g>>]
           S == {k \in Nat : \E g \in [D -> V] : Holds(g, k)}
<1>1. 0 \in S
  <2>1. [x \in D |-> v] \in [D -> V]
    OBVIOUS
  <2>2. Holds([x \in D |-> v], 0)
    OBVIOUS
  <2> QED
    BY <2>1, <2>2
<1>2. ASSUME NEW k \in Nat, k \in S PROVE k + 1 \in S
  <2>1. PICK g \in [D -> V] : Holds(g, k)
    BY <1>2
  <2> DEFINE h == [x \in D |-> IF m[x] < k THEN g[x] ELSE step[<<x, g>>]]
  <2>2. h \in [D -> V]
    OBVIOUS
  <2>3. ASSUME NEW x \in D, m[x] < k + 1 PROVE h[x] = step[<<x, h>>]
    <3>1. h[x] = step[<<x, g>>]
      BY <2>1
    <3>2. \A y \in D : m[y] < m[x] => g[y] = h[y]
      BY <2>3
    <3> HIDE DEF h
    <3> QED
      BY <2>2, <3>1, <3>2
  <2> HIDE DEF h
  <2> QED
    BY <2>2, <2>3
<1>3. N + 1 \in S
  <2> HIDE DEF S
  <2> QED
    BY <1>1, <1>2, Induction
<1>4. PICK f \in [D -> V] : Holds(f, N + 1)
  BY <1>3
<1>5. \A x \in D : f[x] = step[<<x, f>>]
  BY <1>4
<1> QED
  BY <1>5

-----------------------------------------------------------------------------
(* The list without what is not wanted.                                    *)

\* The equations of the function that Keep is computed with, ...
KeepsFrom(f, s, keep) ==
    /\ f[Len(s) + 1] = <<>>
    /\ \A i \in 1..Len(s) : /\ i \in keep => f[i] = Cons(s[i], f[i + 1])
                            /\ i \notin keep => f[i] = f[i + 1]

\* ... which there is.
LEMMA KeepUnfolds ==
    ASSUME NEW V, NEW s \in Seq(V), NEW keep
    PROVE  \E f : KeepsFrom(f, s, keep) /\ Keep(s, keep) = f[1]
<1> DEFINE D == 1..(Len(s) + 1)
           body(g, i) == IF i > Len(s) THEN <<>>
                         ELSE IF i \in keep THEN Cons(s[i], g[i + 1]) ELSE g[i + 1]
           m == [i \in D |-> Len(s) + 1 - i]
           step == [q \in D \X [D -> Seq(V)] |-> body(q[2], q[1])]
<1>0. Len(s) \in Nat /\ <<>> \in Seq(V)
  OBVIOUS
<1>1. m \in [D -> 0..Len(s)]
  BY <1>0
<1>2. ASSUME NEW i \in D, NEW g \in [D -> Seq(V)] PROVE body(g, i) \in Seq(V)
  <2>1. i <= Len(s) => s[i] \in V /\ g[i + 1] \in Seq(V)
    BY <1>0
  <2>2. i <= Len(s) => Cons(s[i], g[i + 1]) \in Seq(V) /\ g[i + 1] \in Seq(V)
    BY <2>1 DEF Cons
  <2> QED
    BY <1>0, <2>2
<1>3. step \in [D \X [D -> Seq(V)] -> Seq(V)]
  <2> HIDE DEF D, body
  <2> QED
    BY <1>2
<1>4. ASSUME NEW x \in D, NEW g \in [D -> Seq(V)], NEW h \in [D -> Seq(V)],
             \A y \in D : m[y] < m[x] => g[y] = h[y]
      PROVE  step[<<x, g>>] = step[<<x, h>>]
  <2>1. x <= Len(s) => g[x + 1] = h[x + 1]
    BY <1>0, <1>4
  <2>2. body(g, x) = body(h, x)
    BY <1>0, <2>1
  <2> HIDE DEF D, body
  <2> QED
    BY <2>2
<1>5. PICK f \in [D -> Seq(V)] : f = [x \in D |-> step[<<x, f>>]]
  <2>1. GoesDown(D, Seq(V), Len(s), m, step)
    <3>1. Seq(V) # {}
      BY <1>0
    <3> HIDE DEF D, m, step
    <3> QED
      BY <1>0, <1>1, <1>3, <1>4, <3>1 DEF GoesDown
  <2>2. \E f \in [D -> Seq(V)] : f = [x \in D |-> step[<<x, f>>]]
    <3> HIDE DEF D, m, step
    <3> QED
      BY <2>1, Recursion
  <2> QED
    BY <2>2
<1>6. f = [x \in D |-> body(f, x)]
  <2>1. \A x \in D : step[<<x, f>>] = body(f, x)
    <3> HIDE DEF D, body
    <3> QED
      OBVIOUS
  <2> HIDE DEF D, step, body
  <2> QED
    BY <1>5, <2>1
<1> DEFINE from == CHOOSE from : from = [i \in D |-> body(from, i)]
<1>7. Keep(s, keep) = from[1]
  BY DEF Keep
<1>8. from = [i \in D |-> body(from, i)]
  BY <1>6
<1> HIDE DEF from
<1>9. ASSUME NEW i \in D PROVE from[i] = body(from, i)
  <2> HIDE DEF body
  <2> QED
    BY <1>8
<1>10. KeepsFrom(from, s, keep)
  <2>1. from[Len(s) + 1] = <<>>
    BY <1>0, <1>9
  <2>2. ASSUME NEW i \in 1..Len(s)
        PROVE  from[i] = IF i \in keep THEN Cons(s[i], from[i + 1]) ELSE from[i + 1]
    <3>1. i \in D /\ ~(i > Len(s))
      BY <1>0
    <3> QED
      BY <1>9, <3>1
  <2> QED
    BY <2>1, <2>2 DEF KeepsFrom
<1> QED
  BY <1>7, <1>10

\* What is kept is in the list, at a place to keep.
LEMMA KeepIs ==
    ASSUME NEW V, NEW s \in Seq(V), NEW keep
    PROVE  /\ Keep(s, keep) \in Seq(V)
           /\ Len(Keep(s, keep)) <= Len(s)
           /\ \A n \in 1..Len(Keep(s, keep)) :
                 \E k \in 1..Len(s) : k \in keep /\ Keep(s, keep)[n] = s[k]
<1> DEFINE At(r, n) == \E k \in 1..Len(s) : k \in keep /\ r[n] = s[k]
           Is(r, i) == r \in Seq(V) /\ Len(r) + i <= Len(s) + 1 /\ \A n \in 1..Len(r) : At(r, n)
<1>0. Len(s) \in Nat
  OBVIOUS
<1>1. PICK f : KeepsFrom(f, s, keep) /\ Keep(s, keep) = f[1]
  BY KeepUnfolds
<1> DEFINE P == {i \in Nat : Is(f[i], i)}
<1>2. Len(s) + 1 \in P
  <2>1. f[Len(s) + 1] = <<>>
    BY <1>1 DEF KeepsFrom
  <2>2. Is(<<>>, Len(s) + 1)
    BY <1>0
  <2> HIDE DEF Is
  <2> QED
    BY <1>0, <2>1, <2>2
<1>3. ASSUME NEW i \in 1..Len(s), i + 1 \in P PROVE i \in P
  <2>1. PICK r : r = f[i + 1] /\ Is(r, i + 1)
    BY <1>3
  <2>2. r \in Seq(V) /\ Len(r) \in Nat /\ Len(r) + (i + 1) <= Len(s) + 1 /\ s[i] \in V
    BY <2>1
  <2>3. CASE i \notin keep
    <3>1. f[i] = r
      BY <1>1, <2>1, <2>3 DEF KeepsFrom
    <3>2. Is(r, i)
      BY <1>0, <2>1, <2>2
    <3> HIDE DEF Is
    <3> QED
      BY <3>1, <3>2
  <2>4. CASE i \in keep
    <3> DEFINE q == Cons(s[i], r)
    <3>1. f[i] = q
      BY <1>1, <2>1, <2>4 DEF KeepsFrom
    <3>2. /\ q \in Seq(V) /\ Len(q) = Len(r) + 1
          /\ q[1] = s[i] /\ \A n \in 1..Len(r) : q[n + 1] = r[n]
      BY <2>2 DEF Cons
    <3> HIDE DEF q
    <3>3. ASSUME NEW n \in 1..Len(q) PROVE At(q, n)
      <4>1. CASE n = 1
        BY <2>4, <3>2, <4>1
      <4>2. CASE n # 1
        <5>1. n - 1 \in 1..Len(r) /\ (n - 1) + 1 = n
          BY <2>2, <3>2, <4>2
        <5>2. At(r, n - 1)
          BY <2>1, <5>1
        <5>3. q[n] = r[n - 1]
          BY <3>2, <5>1
        <5> QED
          BY <5>2, <5>3
      <4> QED
        BY <4>1, <4>2
    <3>4. Is(q, i)
      <4> HIDE DEF At
      <4> QED
        BY <1>0, <2>2, <3>2, <3>3
    <3> HIDE DEF Is
    <3> QED
      BY <3>1, <3>4
  <2> QED
    BY <2>3, <2>4
<1>4. 1 \in P
  <2> HIDE DEF P
  <2>1. \A i \in 1..(Len(s) + 1) : i \in P
    BY <1>0, <1>2, <1>3, DownInduction
  <2> QED
    BY <1>0, <2>1
<1>5. Is(f[1], 1)
  BY <1>4
<1>6. Is(Keep(s, keep), 1)
  <2> HIDE DEF Is
  <2> QED
    BY <1>1, <1>5
<1> QED
  BY <1>0, <1>6

\* Nothing is kept of nothing ...
LEMMA KeepNone == ASSUME NEW keep PROVE Keep(<<>>, keep) = <<>>
<1>1. PICK f : KeepsFrom(f, <<>>, keep) /\ Keep(<<>>, keep) = f[1]
  <2>1. <<>> \in Seq({})
    OBVIOUS
  <2> QED
    BY <2>1, KeepUnfolds
<1>2. Len(<<>>) + 1 = 1
  OBVIOUS
<1> QED
  BY <1>1, <1>2 DEF KeepsFrom

\* ... and of a longer list its first element, if it is to be kept, and what is
\* kept of the rest.
LEMMA KeepCons ==
    ASSUME NEW V, NEW o \in V, NEW s \in Seq(V), NEW keep, NEW rest,
           \A n \in 1..Len(s) : n + 1 \in keep <=> n \in rest
    PROVE  Keep(Cons(o, s), keep) = IF 1 \in keep THEN Cons(o, Keep(s, rest)) ELSE Keep(s, rest)
<1>1. PICK t : t = Cons(o, s)
  OBVIOUS
<1>2. /\ Len(s) \in Nat /\ t \in Seq(V) /\ Len(t) = Len(s) + 1
      /\ t[1] = o /\ \A i \in 1..Len(s) : t[i + 1] = s[i]
  BY <1>1 DEF Cons
<1>3. PICK f : KeepsFrom(f, t, keep) /\ Keep(t, keep) = f[1]
  BY <1>2, KeepUnfolds
<1>4. PICK g : KeepsFrom(g, s, rest) /\ Keep(s, rest) = g[1]
  BY KeepUnfolds
<1> DEFINE P == {i \in Nat : f[i + 1] = g[i]}
<1>5. Len(s) + 1 \in P
  BY <1>2, <1>3, <1>4 DEF KeepsFrom
<1>6. ASSUME NEW i \in 1..Len(s), i + 1 \in P PROVE i \in P
  <2>1. f[(i + 1) + 1] = g[i + 1] /\ i + 1 \in 1..Len(t) /\ t[i + 1] = s[i]
    BY <1>2, <1>6
  <2>2. i + 1 \in keep <=> i \in rest
    OBVIOUS
  <2>3. /\ i + 1 \in keep => f[i + 1] = Cons(s[i], g[i + 1])
        /\ i + 1 \notin keep => f[i + 1] = g[i + 1]
    BY <1>3, <2>1 DEF KeepsFrom
  <2>4. /\ i \in rest => g[i] = Cons(s[i], g[i + 1])
        /\ i \notin rest => g[i] = g[i + 1]
    BY <1>4 DEF KeepsFrom
  <2> QED
    BY <2>2, <2>3, <2>4
<1>7. 1 \in P
  <2> HIDE DEF P
  <2>1. \A i \in 1..(Len(s) + 1) : i \in P
    BY <1>2, <1>5, <1>6, DownInduction
  <2> QED
    BY <1>2, <2>1
<1>8. f[1 + 1] = g[1] /\ 1 \in 1..Len(t)
  BY <1>2, <1>7
<1>9. /\ 1 \in keep => f[1] = Cons(o, g[1])
      /\ 1 \notin keep => f[1] = g[1]
  BY <1>2, <1>3, <1>8 DEF KeepsFrom
<1> QED
  BY <1>1, <1>3, <1>4, <1>9
=============================================================================
