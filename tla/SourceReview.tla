----------------------------- MODULE SourceReview -----------------------------
(***************************************************************************)
(* The diff that an edit of an apt source is reviewed by (src/frontend/    *)
(* src/pages/ServerDetail.tsx): the diff of two texts, line by line, and   *)
(* the rows it is shown in.  A line is a value.                            *)
(***************************************************************************)
EXTENDS Naturals, Sequences, FiniteSets, Lists

Larger(a, b) == IF a >= b THEN a ELSE b

\* The places of two texts that are compared: also those behind their ends.
Places(a, b) == (1..(Len(a) + 1)) \X (1..(Len(b) + 1))

\* dp[<<i, j>>]: the length of the longest common subsequence of a from i and b
\* from j.
LcsTable(a, b) ==
    LET dp[p \in Places(a, b)] ==
          LET i == p[1]  j == p[2] IN
          IF i > Len(a) \/ j > Len(b) THEN 0
          ELSE IF a[i] = b[j] THEN dp[<<i + 1, j + 1>>] + 1
          ELSE Larger(dp[<<i + 1, j>>], dp[<<i, j + 1>>])
    IN dp

Op(type, line) == [type |-> type, text |-> line]

\* Mutant: the old lines that differ are shown first, whatever that loses.
LineDiffGreedy(a, b) ==
    LET from[p \in Places(a, b)] ==
          LET i == p[1]  j == p[2] IN
          IF i > Len(a) /\ j > Len(b) THEN <<>>
          ELSE IF i > Len(a) THEN Cons(Op("add", b[j]), from[<<i, j + 1>>])
          ELSE IF j <= Len(b) /\ a[i] = b[j] THEN Cons(Op("same", a[i]), from[<<i + 1, j + 1>>])
          ELSE Cons(Op("del", a[i]), from[<<i + 1, j>>])
    IN from[<<1, 1>>]

\* Lines of both texts are kept; of the others, those of the old text are shown
\* first wherever that loses nothing.
LineDiff(a, b) ==
    LET dp == LcsTable(a, b)
        from[p \in Places(a, b)] ==
          LET i == p[1]  j == p[2] IN
          IF i > Len(a) /\ j > Len(b) THEN <<>>
          ELSE IF j > Len(b) THEN Cons(Op("del", a[i]), from[<<i + 1, j>>])
          ELSE IF i > Len(a) THEN Cons(Op("add", b[j]), from[<<i, j + 1>>])
          ELSE IF a[i] = b[j] THEN Cons(Op("same", a[i]), from[<<i + 1, j + 1>>])
          ELSE IF dp[<<i + 1, j>>] >= dp[<<i, j + 1>>] THEN Cons(Op("del", a[i]), from[<<i + 1, j>>])
          ELSE Cons(Op("add", b[j]), from[<<i, j + 1>>])
    IN from[<<1, 1>>]

Context == 2

\* The first index after the run of unchanged lines at i.
RunEnd(ops, i) ==
    CHOOSE j \in i..(Len(ops) + 1) :
        /\ \A k \in i..(j - 1) : ops[k].type = "same"
        /\ j > Len(ops) \/ ops[j].type # "same"

Skip(n) == <<[type |-> "skip", count |-> n]>>

\* Mutant: a run is cut where it fits into its first and last lines.
DiffRowsShort(ops) ==
    LET rows[i \in 1..(Len(ops) + 1)] ==
          IF i > Len(ops) THEN <<>>
          ELSE IF ops[i].type # "same" THEN <<ops[i]>> \o rows[i + 1]
          ELSE LET j == RunEnd(ops, i) IN
               (IF j - i <= Context THEN SubSeq(ops, i, j - 1)
                ELSE SubSeq(ops, i, i + Context - 1) \o Skip(j - i - 2 * Context)
                       \o SubSeq(ops, j - Context, j - 1))
               \o rows[j]
    IN rows[1]

\* A long run of unchanged lines is cut to its first and last lines.
DiffRows(ops) ==
    LET rows[i \in 1..(Len(ops) + 1)] ==
          IF i > Len(ops) THEN <<>>
          ELSE IF ops[i].type # "same" THEN <<ops[i]>> \o rows[i + 1]
          ELSE LET j == RunEnd(ops, i) IN
               (IF j - i <= 2 * Context THEN SubSeq(ops, i, j - 1)
                ELSE SubSeq(ops, i, i + Context - 1) \o Skip(j - i - 2 * Context)
                       \o SubSeq(ops, j - Context, j - 1))
               \o rows[j]
    IN rows[1]

-----------------------------------------------------------------------------
(***************************************************************************)
(* The diff of every pair of short texts, and the rows of every short      *)
(* sequence of operations.                                                 *)
(***************************************************************************)
CONSTANTS
    DiffLines,      \* the lines of the texts that are compared
    MaxText,        \* bound: their length
    MaxOps          \* bound: the length of a diff that is shown in rows

ASSUME SourceReviewAssumption == MaxText \in Nat /\ MaxOps \in Nat

VARIABLES oldText, newText, shownOps

reviewVars == <<oldText, newText, shownOps>>

Texts(n) == UNION {[1..k -> DiffLines] : k \in 0..n}
OpsOf(n) == UNION {[1..k -> [type : {"same", "add"}, text : {"line"}]] : k \in 0..n}

ReviewInit ==
    \/ /\ oldText \in Texts(MaxText) /\ newText \in Texts(MaxText)
       /\ shownOps = LineDiff(oldText, newText)
    \/ /\ oldText = <<>> /\ newText = <<>>
       /\ shownOps \in OpsOf(MaxOps)

\* The diff is computed anew for every text that is typed.
Retyped ==
    \E t \in Texts(MaxText) :
        /\ newText' = t
        /\ shownOps' = LineDiff(oldText, t)
        /\ UNCHANGED oldText

ReviewNext == Retyped

ReviewSpec == ReviewInit /\ [][ReviewNext]_reviewVars

Lines(ops, types) == Keep(ops, {n \in DOMAIN ops : ops[n].type \in types})
Text(ops) == [i \in 1..Len(ops) |-> ops[i].text]

IsSubsequence(s, t) ==
    \E where \in [1..Len(s) -> 1..Len(t)] :
        /\ \A i, j \in 1..Len(s) : i < j => where[i] < where[j]
        /\ \A i \in 1..Len(s) : s[i] = t[where[i]]

\* What is confirmed is what is written: the diff's unchanged and deleted lines
\* are the old text, its unchanged and added lines the new one, and it shows no
\* line as changed that a smaller diff would leave alone.
DiffIsExact ==
    (oldText # <<>> \/ newText # <<>>) =>
        LET same == Text(Lines(shownOps, {"same"})) IN
        /\ Text(Lines(shownOps, {"same", "del"})) = oldText
        /\ Text(Lines(shownOps, {"same", "add"})) = newText
        /\ \A s \in Texts(MaxText) :
              IsSubsequence(s, oldText) /\ IsSubsequence(s, newText) => Len(s) <= Len(same)

\* The rows show every line once or hide it: what is hidden is unchanged, is
\* counted, and is not next to a change.
RowsShowChanges ==
    LET rows == DiffRows(shownOps)
        Width(r) == IF r.type = "skip" THEN r.count ELSE 1
        start[i \in 1..(Len(rows) + 1)] == IF i = 1 THEN 1 ELSE start[i - 1] + Width(rows[i - 1])
    IN  /\ start[Len(rows) + 1] = Len(shownOps) + 1
        /\ \A i \in 1..Len(rows) :
              IF rows[i].type # "skip" THEN rows[i] = shownOps[start[i]]
              ELSE /\ rows[i].count > 0
                   /\ \A k \in (start[i] - Context)..(start[i + 1] - 1 + Context) :
                         k \in 1..Len(shownOps) => shownOps[k].type = "same"
=============================================================================
