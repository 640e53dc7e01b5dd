--------------------------- MODULE ResultsProofs ---------------------------
(***************************************************************************)
(* Theorems of Results, for any ledgers, reviewers, judges and filters.    *)
(*                                                                         *)
(* The report is an operator of the evidence, so that most of a theorem is *)
(* about one state.  What has to be known of the states that are reached   *)
(* is where scores come from: a person's are those of a submission, and a  *)
(* stored divergence is from the baseline of its replicate.                *)
(***************************************************************************)
EXTENDS Results, FiniteSetTheorems, WellFoundedInduction, TLAPS

\* A bounded set of numbers has a greatest one.
LEMMA HasGreatest ==
  ASSUME NEW S \in SUBSET Nat, S # {}, NEW n \in Nat, \A k \in S : k <= n
  PROVE  \E m \in S : \A k \in S : k <= m
<1>. DEFINE T == {b \in Nat : \A k \in S : k <= b}
<1>1. T \subseteq Nat /\ T # {}
  OBVIOUS
<1>2. PICK b \in T : \A c \in T : ~(<<c, b>> \in OpToRel(<, Nat))
  <2>. HIDE DEF T
  <2>. QED
    BY <1>1, NatLessThanWellFounded, WFMin
<1>3. \A c \in T : ~(c < b)
  BY <1>2 DEF OpToRel
<1>4. b \in S
  <2>. SUFFICES ASSUME b \notin S PROVE FALSE
    OBVIOUS
  <2>1. PICK k \in S : TRUE
    OBVIOUS
  <2>2. \A j \in S : j < b
    OBVIOUS
  <2>3. b - 1 \in T /\ b - 1 < b
    BY <2>1, <2>2
  <2>. QED
    BY <1>3, <2>3
<1>. QED
  BY <1>4

\* A finite set with more than one element has two.
LEMMA TwoOfMany ==
  ASSUME NEW S, IsFiniteSet(S)
  PROVE  Cardinality(S) > 1 <=> \E x, y \in S : x # y
<1>1. Cardinality(S) \in Nat
  BY FS_CardinalityType
<1>2. ASSUME NEW x \in S, NEW y \in S, x # y PROVE Cardinality(S) # 0 /\ Cardinality(S) # 1
  BY <1>2, FS_EmptySet, FS_Singleton
<1>3. ASSUME ~\E x, y \in S : x # y PROVE Cardinality(S) \in {0, 1}
  <2>1. CASE S = {}
    BY <2>1, FS_EmptySet
  <2>2. CASE S # {}
    <3>. PICK x \in S : TRUE
      BY <2>2
    <3>1. S = {x}
      BY <1>3
    <3>. QED
      BY <3>1, FS_Singleton
  <2>. QED
    BY <2>1, <2>2
<1>. QED
  BY <1>1, <1>2, <1>3
-----------------------------------------------------------------------------
\* The rows.
LEMMA RowsAre ==
  ASSUME ledger \in Ledgers
  PROVE  /\ IsFiniteSet(Rows) /\ Rows \subseteq Nat \ {0}
         /\ \E n \in Nat : Rows = 1 .. n
         /\ \A i \in Rows : /\ ledger[i].status \in Statuses
                            /\ ledger[i].attempt_number \in Nat \ {0}
                            /\ ledger[i].cost \subseteq Nat /\ IsFiniteSet(ledger[i].cost)
                            /\ ledger[i].latency \subseteq Nat /\ IsFiniteSet(ledger[i].latency)
                            /\ \A dim \in Dimensions : ledger[i][dim] # Any
<1>1. /\ IsFiniteSet(Rows) /\ Rows = 1 .. Cardinality(Rows)
      /\ \A i \in Rows : /\ ledger[i].status \in Statuses
                         /\ ledger[i].attempt_number \in Nat \ {0}
                         /\ ledger[i].cost \subseteq Nat /\ IsFiniteSet(ledger[i].cost)
                         /\ ledger[i].latency \subseteq Nat /\ IsFiniteSet(ledger[i].latency)
                         /\ \A dim \in Dimensions : ledger[i][dim] # Any
  BY ResultsAssumption DEF Rows
<1>2. Cardinality(Rows) \in Nat
  BY <1>1, FS_CardinalityType
<1>. QED
  BY <1>1, <1>2

\* The succeeded row of a replicate is its last.
LEMMA SucceededIsLast ==
  ASSUME ledger \in Ledgers, NEW i \in Rows, NEW j \in Rows,
         Cell(i) = Cell(j), SameReplicate(i, j), Succeeded(i)
  PROVE  j <= i
<1>1. \A dim \in Dimensions : ledger[i][dim] = ledger[j][dim]
  BY DEF Cell, Dimensions
<1>2. i \in Nat /\ j \in Nat
  BY RowsAre
<1>3. ~(i < j)
  BY <1>1, ResultsAssumption DEF Rows, Succeeded, SameReplicate
<1>. QED
  BY <1>2, <1>3

LEMMA Greatest ==
  ASSUME ledger \in Ledgers, NEW S \in SUBSET Rows, S # {}
  PROVE  LET m == CHOOSE j \in S : \A k \in S : k <= j IN m \in S /\ \A k \in S : k <= m
<1>. PICK n \in Nat : Rows = 1 .. n
  BY RowsAre
<1>1. S \in SUBSET Nat /\ \A k \in S : k <= n
  OBVIOUS
<1>2. \E m \in S : \A k \in S : k <= m
  BY <1>1, HasGreatest
<1>. QED
  BY <1>2
-----------------------------------------------------------------------------
(***************************************************************************)
(* Where scores come from.                                                 *)
(***************************************************************************)
ScoreColumns ==
  {"attempt", "type", "by", "who", "of", "swap", "outcome", "tags", "signals", "structured",
   "confidence", "baseline"}

FromSubmission(s, x) ==
  LET p == x.assignment[1] IN
  /\ s.by = "human" /\ s.type = "pairwise_preference" /\ s.who = x.assignment[2]
  /\ s.of = {p[1], p[2]} /\ s.attempt \in {p[1], p[2]}
  /\ s.outcome = Outcome(p, s.attempt, x.decision.winner)

Scored(s) ==
  /\ s.attempt \in terminal /\ s.confidence \in 0 .. 2 /\ s.swap \in 0 .. 1
  /\ s.baseline \in terminal \cup {NoRow}
  /\ s.by = "human" /\ s.type = "pairwise_preference" => \E x \in submitted : FromSubmission(s, x)
  /\ s.by = "llm_judge" => s.attempt \in s.of
  /\ s.type = "divergence" /\ s.baseline # NoRow =>
       /\ Group(s.baseline) = Group(s.attempt) /\ SameReplicate(s.baseline, s.attempt)
       /\ ledger[s.baseline].warmer = NoWarmer /\ ledger[s.attempt].warmer # NoWarmer

BothScored(x) ==
  \A k \in {1, 2} : \E s \in scores : FromSubmission(s, x) /\ s.attempt = x.assignment[1][k]

IInv ==
  /\ ledger \in Ledgers /\ terminal \subseteq Rows
  /\ assigned \subseteq ReviewPairs \X Reviewers
  /\ IsFiniteSet(submitted) /\ IsFiniteSet(scores)
  /\ \A x \in submitted : x.assignment \in assigned /\ x.decision \in Decisions /\ BothScored(x)
  /\ \A s \in scores : Scored(s)

\* What a step adds to, is enough to know of it.
Grows ==
  /\ ledger' = ledger /\ terminal \subseteq terminal' /\ assigned \subseteq assigned'
  /\ submitted \subseteq submitted' /\ scores \subseteq scores'

LEMMA MoreEvidence ==
  ASSUME IInv, Grows, terminal' \subseteq Rows, assigned' \subseteq ReviewPairs' \X Reviewers,
         IsFiniteSet(submitted' \ submitted), IsFiniteSet(scores' \ scores),
         \A x \in submitted' \ submitted :
           x.assignment \in assigned' /\ x.decision \in Decisions /\ BothScored(x)',
         \A s \in scores' \ scores : Scored(s)'
  PROVE  IInv'
<1>1. IsFiniteSet(submitted')
  <2>1. submitted' = submitted \cup (submitted' \ submitted)
    BY DEF Grows
  <2>. QED
    BY <2>1, FS_Union DEF IInv
<1>2. IsFiniteSet(scores')
  <2>1. scores' = scores \cup (scores' \ scores)
    BY DEF Grows
  <2>. QED
    BY <2>1, FS_Union DEF IInv
<1>3. ASSUME NEW s \in scores PROVE Scored(s)'
  BY DEF IInv, Scored, Grows, Group, SameReplicate
<1>4. ASSUME NEW x \in submitted PROVE BothScored(x)'
  BY DEF IInv, BothScored, Grows
<1>5. ledger' \in Ledgers /\ (terminal \subseteq Rows)'
  BY DEF IInv, Grows, Rows
<1>. QED
  BY <1>1, <1>2, <1>3, <1>4, <1>5 DEF IInv, Grows

LEMMA PairsStay ==
  ASSUME IInv, ledger' = ledger, terminal \subseteq terminal'
  PROVE  assigned \subseteq ReviewPairs' \X Reviewers
BY DEF IInv, ReviewPairs, Succeeded, Comparable, SameReplicate

-----------------------------------------------------------------------------
\* The scores that a decision leaves.
LEMMA ImageIsFinite ==
  ASSUME NEW S, IsFiniteSet(S), NEW g
  PROVE  IsFiniteSet({g[x] : x \in S})
<1>. DEFINE T == {g[x] : x \in S}
            h == [x \in S |-> g[x]]
<1>1. h \in Surjection(S, T)
  BY DEF Surjection
<1>. QED
  BY <1>1, FS_Surjection

LEMMA PairIsFinite == \A x, y : IsFiniteSet({x, y})
<1>. SUFFICES ASSUME NEW x, NEW y PROVE IsFiniteSet({x, y})
  OBVIOUS
<1>1. {x, y} = {x} \cup {y}
  OBVIOUS
<1>2. IsFiniteSet({x})
  BY FS_Singleton
<1>3. IsFiniteSet({x} \cup {y})
  BY <1>2, FS_AddElement
<1>. QED
  BY <1>1, <1>3

LEMMA ThreeFinite ==
  \A A, B, C : IsFiniteSet(A) /\ IsFiniteSet(B) /\ IsFiniteSet(C) => IsFiniteSet(A \cup B \cup C)
<1>. SUFFICES ASSUME NEW A, NEW B, NEW C, IsFiniteSet(A), IsFiniteSet(B), IsFiniteSet(C)
              PROVE  IsFiniteSet(A \cup B \cup C)
  OBVIOUS
<1>1. IsFiniteSet(A \cup B)
  BY FS_Union
<1>. QED
  BY <1>1, FS_Union

SameBase(s, base) ==
  /\ s.by = base.by /\ s.who = base.who /\ s.of = base.of /\ s.swap = base.swap
  /\ s.confidence = base.confidence /\ s.baseline = base.baseline

LEMMA PreferencesAre ==
  ASSUME NEW p, NEW d, NEW base, DOMAIN base = ScoreColumns
  PROVE  /\ IsFiniteSet(Preferences(p, d, base))
         /\ \A k \in {1, 2} : \E s \in Preferences(p, d, base) : s.attempt = p[k]
         /\ \A s \in Preferences(p, d, base) :
              /\ SameBase(s, base) /\ s.attempt \in {p[1], p[2]}
              /\ s.type = "pairwise_preference" /\ s.outcome = Outcome(p, s.attempt, d.winner)
<1>. DEFINE Row(k) == [base EXCEPT !.attempt = p[k], !.type = "pairwise_preference",
                                   !.outcome = Outcome(p, p[k], d.winner)]
<1>1. ASSUME NEW k \in {1, 2}
      PROVE  /\ SameBase(Row(k), base) /\ Row(k).attempt = p[k]
             /\ Row(k).type = "pairwise_preference"
             /\ Row(k).outcome = Outcome(p, p[k], d.winner)
  BY DEF ScoreColumns, SameBase
<1>2. Preferences(p, d, base) = {Row(k) : k \in {1, 2}}
  BY DEF Preferences
<1>. HIDE DEF Row
<1>3. Preferences(p, d, base) = {Row(1)} \cup {Row(2)}
  BY <1>2
<1>4. IsFiniteSet({Row(1)} \cup {Row(2)})
  BY FS_Singleton, FS_AddElement
<1>. QED
  BY <1>1, <1>2, <1>3, <1>4

LEMMA GradesAre ==
  ASSUME NEW p, NEW d, NEW base, DOMAIN base = ScoreColumns
  PROVE  /\ IsFiniteSet(Grades(p, d, base))
         /\ \A s \in Grades(p, d, base) :
              SameBase(s, base) /\ s.attempt \in {p[1], p[2]} /\ s.type = "pass_fail"
<1>. DEFINE Row(i) == [base EXCEPT !.attempt = i, !.type = "pass_fail",
                                   !.outcome = IF Side(p, i) \in d.passed THEN "passed" ELSE "failed"]
            S == {i \in {p[1], p[2]} : Side(p, i) \in d.passed \cup d.failed}
<1>1. ASSUME NEW i
      PROVE  SameBase(Row(i), base) /\ Row(i).attempt = i /\ Row(i).type = "pass_fail"
  BY DEF ScoreColumns, SameBase
<1>2. Grades(p, d, base) = {Row(i) : i \in S}
  BY DEF Grades
<1>. HIDE DEF Row
<1>3. {Row(i) : i \in S} \subseteq {Row(p[1])} \cup {Row(p[2])}
  OBVIOUS
<1>4. IsFiniteSet({Row(p[1])} \cup {Row(p[2])})
  BY FS_Singleton, FS_AddElement
<1>5. IsFiniteSet(Grades(p, d, base))
  BY <1>2, <1>3, <1>4, FS_Subset
<1>. QED
  BY <1>1, <1>2, <1>5

LEMMA TagScoresAre ==
  ASSUME NEW p, NEW d, NEW base, DOMAIN base = ScoreColumns
  PROVE  /\ IsFiniteSet(TagScores(p, d, base))
         /\ \A s \in TagScores(p, d, base) :
              SameBase(s, base) /\ s.attempt \in {p[1], p[2]} /\ s.type = "failure_tags"
<1>. DEFINE Row(i) == [base EXCEPT !.attempt = i, !.type = "failure_tags", !.tags = d.tags]
            S == {i \in {p[1], p[2]} : Side(p, i) \in d.failed /\ d.tags # {}}
<1>1. ASSUME NEW i
      PROVE  SameBase(Row(i), base) /\ Row(i).attempt = i /\ Row(i).type = "failure_tags"
  BY DEF ScoreColumns, SameBase
<1>2. TagScores(p, d, base) = {Row(i) : i \in S}
  BY DEF TagScores
<1>. HIDE DEF Row
<1>3. {Row(i) : i \in S} \subseteq {Row(p[1])} \cup {Row(p[2])}
  OBVIOUS
<1>4. IsFiniteSet({Row(p[1])} \cup {Row(p[2])})
  BY FS_Singleton, FS_AddElement
<1>5. IsFiniteSet(TagScores(p, d, base))
  BY <1>2, <1>3, <1>4, FS_Subset
<1>. QED
  BY <1>1, <1>2, <1>5

LEMMA RubricScoresAre ==
  ASSUME NEW p, NEW d, NEW base, DOMAIN base = ScoreColumns, d.signals \subseteq Signals
  PROVE  /\ IsFiniteSet(RubricScores(p, d, base))
         /\ \A s \in RubricScores(p, d, base) :
              SameBase(s, base) /\ s.attempt \in {p[1], p[2]} /\ s.type = "rubric_score"
<1>. DEFINE Row(k, sig) == [base EXCEPT !.attempt = p[k], !.type = "rubric_score",
                                        !.signals = {sig}]
            W == {Row(1, "claim"), Row(1, "conclusion")} \cup
                 {Row(2, "claim"), Row(2, "conclusion")}
<1>1. ASSUME NEW k \in {1, 2}, NEW sig
      PROVE  /\ SameBase(Row(k, sig), base) /\ Row(k, sig).attempt = p[k]
             /\ Row(k, sig).type = "rubric_score"
  BY DEF ScoreColumns, SameBase
<1>2. RubricScores(p, d, base) = {Row(k, sig) : k \in {1, 2}, sig \in d.signals}
  BY DEF RubricScores
<1>. HIDE DEF Row
<1>3. RubricScores(p, d, base) \subseteq W
  BY <1>2 DEF Signals
<1>4. IsFiniteSet(W)
  BY PairIsFinite, FS_Union
<1>5. IsFiniteSet(RubricScores(p, d, base))
  BY <1>3, <1>4, FS_Subset
<1>6. ASSUME NEW s \in RubricScores(p, d, base)
      PROVE  SameBase(s, base) /\ s.attempt \in {p[1], p[2]} /\ s.type = "rubric_score"
  <2>. PICK k \in {1, 2}, sig \in d.signals : s = Row(k, sig)
    BY <1>2
  <2>. QED
    BY <1>1
<1>. QED
  BY <1>5, <1>6
-----------------------------------------------------------------------------
\* The steps.
LEMMA TerminalIsFinite ==
  ASSUME IInv
  PROVE  /\ IsFiniteSet(terminal) /\ IsFiniteSet(terminal \X terminal)
         /\ IsFiniteSet(ReviewPairs) /\ IsFiniteSet(JudgedPairs)
         /\ JudgedPairs \subseteq ReviewPairs /\ ReviewPairs \subseteq terminal \X terminal
<1>1. IsFiniteSet(terminal)
  BY RowsAre, FS_Subset DEF IInv
<1>2. IsFiniteSet(terminal \X terminal)
  BY <1>1, FS_Product
<1>3. JudgedPairs \subseteq ReviewPairs /\ ReviewPairs \subseteq terminal \X terminal
  BY DEF JudgedPairs, ReviewPairs
<1>4. IsFiniteSet(ReviewPairs)
  BY <1>2, <1>3, FS_Subset
<1>5. IsFiniteSet(JudgedPairs)
  BY <1>3, <1>4, FS_Subset
<1>. QED
  BY <1>1, <1>2, <1>3, <1>4, <1>5

\* A judge's score, or the demo's, is enough if it is on a row that has ended.
LEMMA JudgeScored ==
  ASSUME IInv, Grows, NEW s, s.by = "llm_judge", s.attempt \in terminal, s.type # "divergence",
         s.attempt \in s.of, s.confidence \in 0 .. 2, s.swap \in 0 .. 1, s.baseline = NoRow
  PROVE  Scored(s)'
BY DEF Scored, Grows

LEMMA EndStep ==
  ASSUME IInv, NEW i \in Rows, EndAttempt(i) PROVE IInv'
<1>1. Grows
  BY DEF EndAttempt, Grows
<1>2. submitted' \ submitted = {} /\ scores' \ scores = {}
  BY DEF EndAttempt
<1>3. terminal' \subseteq Rows /\ assigned' = assigned
  BY DEF EndAttempt, IInv
<1>4. assigned' \subseteq ReviewPairs' \X Reviewers
  BY <1>1, <1>3, PairsStay DEF Grows
<1>. QED
  BY <1>1, <1>2, <1>3, <1>4, MoreEvidence, FS_EmptySet

LEMMA AssignStep ==
  ASSUME IInv, Assign PROVE IInv'
<1>1. Grows /\ terminal' = terminal
  BY DEF Assign, Grows
<1>2. submitted' \ submitted = {} /\ scores' \ scores = {}
  BY DEF Assign
<1>3. ReviewPairs' = ReviewPairs /\ assigned' = ReviewPairs \X Reviewers
  BY DEF Assign, ReviewPairs, Succeeded, Comparable, SameReplicate
<1>4. terminal' \subseteq Rows
  BY <1>1 DEF IInv
<1>. QED
  BY <1>1, <1>2, <1>3, <1>4, MoreEvidence, FS_EmptySet

LEMMA SubmitStep ==
  ASSUME IInv, NEW a \in assigned, NEW d \in Decisions, Submit(a, d) PROVE IInv'
<1>. DEFINE x == [assignment |-> a, decision |-> d]
            p == a[1]
            base == [NoScore EXCEPT !.by = "human", !.who = a[2], !.of = {a[1][1], a[1][2]},
                                    !.confidence = 2]
            new == Preferences(p, d, base) \cup Grades(p, d, base) \cup TagScores(p, d, base)
<1>1. DOMAIN base = ScoreColumns /\ base.by = "human" /\ base.who = a[2]
      /\ base.of = {p[1], p[2]} /\ base.confidence = 2 /\ base.swap = 0 /\ base.baseline = NoRow
  BY DEF NoScore, ScoreColumns
<1>2. submitted' = submitted \cup {x} /\ scores' = scores \cup new
  BY DEF Submit
<1>3. Grows /\ terminal' = terminal /\ assigned' = assigned /\ ledger' = ledger
  BY DEF Submit, Grows
<1>4. p \in terminal \X terminal /\ a[2] \in Reviewers
  BY DEF IInv, ReviewPairs
<1>5. x.assignment = a /\ x.decision = d
  OBVIOUS
<1>. HIDE DEF base, x
<1>6. IsFiniteSet(new)
  BY <1>1, PreferencesAre, GradesAre, TagScoresAre, FS_Union
<1>7. ASSUME NEW s \in Preferences(p, d, base) PROVE FromSubmission(s, x)
  BY <1>1, <1>5, PreferencesAre DEF FromSubmission, SameBase
<1>8. ASSUME NEW s \in new PROVE Scored(s)'
  <2>1. /\ s.attempt \in terminal' /\ s.confidence = 2 /\ s.swap = 0 /\ s.baseline = NoRow
        /\ s.type # "divergence" /\ s.by = "human"
        /\ s \notin Preferences(p, d, base) => s.type # "pairwise_preference"
    BY <1>1, <1>3, <1>4, PreferencesAre, GradesAre, TagScoresAre DEF SameBase
  <2>2. s.type = "pairwise_preference" => \E y \in submitted' : FromSubmission(s, y)
    BY <1>2, <1>7, <2>1
  <2>. QED
    BY <2>1, <2>2 DEF Scored, FromSubmission
<1>9. BothScored(x)'
  <2>1. \A k \in {1, 2} : \E s \in Preferences(p, d, base) : s.attempt = p[k]
    BY <1>1, PreferencesAre
  <2>. HIDE DEF new
  <2>2. Preferences(p, d, base) \subseteq scores'
    BY <1>2 DEF new
  <2>. QED
    BY <1>5, <1>7, <2>1, <2>2 DEF BothScored, FromSubmission
<1>. HIDE DEF new
<1>10. IsFiniteSet(submitted' \ submitted) /\ IsFiniteSet(scores' \ scores)
  BY <1>2, <1>6, FS_Singleton, FS_Subset
<1>11. terminal' \subseteq Rows /\ assigned' \subseteq ReviewPairs' \X Reviewers
  BY <1>3, PairsStay DEF IInv
<1>. QED
  BY <1>2, <1>3, <1>5, <1>8, <1>9, <1>10, <1>11, MoreEvidence

LEMMA ScoresAdded ==
  ASSUME IInv, NEW new, IsFiniteSet(new), scores' = scores \cup new,
         UNCHANGED <<ledger, terminal, assigned, submitted>>, \A s \in new : Scored(s)'
  PROVE  IInv'
<1>1. Grows
  BY DEF Grows
<1>2. IsFiniteSet(scores' \ scores)
  BY FS_Subset
<1>3. submitted' \ submitted = {}
  OBVIOUS
<1>4. terminal' \subseteq Rows /\ assigned' \subseteq ReviewPairs' \X Reviewers
  BY PairsStay DEF IInv
<1>. QED
  BY <1>1, <1>2, <1>3, <1>4, MoreEvidence, FS_EmptySet

LEMMA JudgeStep ==
  ASSUME IInv, NEW e, NEW swaps \in Swaps, NEW says \in [JudgedPairs -> Verdicts],
         Judge(e, swaps, says)
  PROVE  IInv'
<1>. DEFINE Q == JudgedPairs \X swaps
            F(q) == JudgeScores(e, q[1], q[2], says[q[1]])
            new == UNION {F(q) : q \in Q}
            g == [q \in Q |-> F(q)]
<1>1. scores' = scores \cup new /\ UNCHANGED <<ledger, terminal, assigned, submitted>>
  BY DEF Judge
<1>2. Grows
  BY <1>1 DEF Grows
<1>3. swaps \subseteq {0, 1} /\ \A q \in Q : says[q[1]] \in Verdicts
  BY ResultsAssumption
<1>4. ASSUME NEW q \in Q PROVE IsFiniteSet(F(q)) /\ \A s \in F(q) : Scored(s)'
  <2>. DEFINE p == q[1]
              d == says[p]
              base == [NoScore EXCEPT !.by = "llm_judge", !.who = e, !.of = {p[1], p[2]},
                         !.swap = q[2], !.structured = d.structured, !.confidence = d.confidence]
  <2>1. /\ DOMAIN base = ScoreColumns /\ base.by = "llm_judge" /\ base.swap = q[2]
        /\ base.confidence = d.confidence /\ base.baseline = NoRow /\ base.of = {p[1], p[2]}
    BY DEF NoScore, ScoreColumns
  <2>2. F(q) = Preferences(p, d, base) \cup Grades(p, d, base) \cup RubricScores(p, d, base)
    BY DEF JudgeScores
  <2>3. q[2] \in 0 .. 1 /\ d \in Verdicts /\ p \in JudgedPairs
    <3>1. p \in JudgedPairs /\ q[2] \in swaps
      OBVIOUS
    <3>2. d \in Verdicts
      BY <1>3
    <3>3. {0, 1} = 0 .. 1
      OBVIOUS
    <3>4. q[2] \in 0 .. 1
      BY <1>3, <3>1, <3>3
    <3>. HIDE DEF p, d
    <3>. QED
      BY <3>1, <3>2, <3>4
  <2>. HIDE DEF base, F, Q, p, d
  <2>4. d.confidence \in 0 .. 2 /\ d.signals \subseteq Signals
    BY <2>3, ResultsAssumption
  <2>5. IsFiniteSet(F(q))
    <3>1. IsFiniteSet(Preferences(p, d, base))
      BY <2>1, PreferencesAre
    <3>2. IsFiniteSet(Grades(p, d, base))
      BY <2>1, GradesAre
    <3>3. IsFiniteSet(RubricScores(p, d, base))
      BY <2>1, <2>4, RubricScoresAre
    <3>. QED
      BY <2>2, <3>1, <3>2, <3>3, ThreeFinite
  <2>6. p[1] \in terminal /\ p[2] \in terminal
    BY <2>3, TerminalIsFinite
  <2>7. ASSUME NEW s \in F(q) PROVE Scored(s)'
    <3>1. SameBase(s, base) /\ s.attempt \in {p[1], p[2]} /\ s.type # "divergence"
      BY <2>1, <2>2, <2>4, PreferencesAre, GradesAre, RubricScoresAre
    <3>. QED
      BY <1>2, <2>1, <2>3, <2>4, <2>6, <3>1, JudgeScored DEF SameBase
  <2>. QED
    BY <2>5, <2>7
<1>5. IsFiniteSet(Q)
  <2>1. IsFiniteSet({0, 1})
    BY PairIsFinite
  <2>2. IsFiniteSet(swaps)
    BY <1>3, <2>1, FS_Subset
  <2>. QED
    BY <2>2, TerminalIsFinite, FS_Product
<1>. HIDE DEF F, Q
<1>6. IsFiniteSet(new)
  <2>1. {F(q) : q \in Q} = {g[q] : q \in Q}
    OBVIOUS
  <2>2. \A T \in {g[q] : q \in Q} : IsFiniteSet(T)
    BY <1>4
  <2>. HIDE DEF g
  <2>3. IsFiniteSet({g[q] : q \in Q})
    BY <1>5, ImageIsFinite
  <2>4. IsFiniteSet(UNION {g[q] : q \in Q})
    BY <2>2, <2>3, FS_UNION
  <2>. QED
    BY <2>1, <2>4
<1>7. \A s \in new : Scored(s)'
  BY <1>4
<1>. HIDE DEF new
<1>. QED
  BY <1>1, <1>6, <1>7, ScoresAdded

LEMMA DemoStep ==
  ASSUME IInv, NEW d \in Verdicts, RecordDemoScores(d) PROVE IInv'
<1>. DEFINE P == {a[1] : a \in assigned}
            F(p) == DemoScores(p, d)
            new == UNION {F(a[1]) : a \in assigned}
            g == [p \in P |-> F(p)]
<1>1. scores' = scores \cup new /\ UNCHANGED <<ledger, terminal, assigned, submitted>>
  BY DEF RecordDemoScores
<1>2. Grows
  BY <1>1 DEF Grows
<1>3. P \subseteq ReviewPairs
  BY DEF IInv
<1>4. ASSUME NEW p \in P PROVE IsFiniteSet(F(p)) /\ \A s \in F(p) : Scored(s)'
  <2>. DEFINE base == [NoScore EXCEPT !.by = "llm_judge", !.who = "demo", !.of = {p[1], p[2]},
                         !.confidence = d.confidence]
              all(k) == {j \in Rows : Group(j) = Group(p[k]) /\ SameReplicate(j, p[k])}
              Row(k) == [base EXCEPT !.attempt = p[k], !.type = "rubric_score",
                                     !.signals = Signals, !.of = all(k)]
  <2>1. /\ DOMAIN base = ScoreColumns /\ base.by = "llm_judge" /\ base.swap = 0
        /\ base.confidence = d.confidence /\ base.baseline = NoRow /\ base.of = {p[1], p[2]}
    BY DEF NoScore, ScoreColumns
  <2>2. F(p) = Preferences(p, d, base) \cup Grades(p, d, base) \cup {Row(k) : k \in {1, 2}}
    BY DEF DemoScores
  <2>. HIDE DEF base, F, all
  <2>3. d.confidence \in 0 .. 2
    BY ResultsAssumption
  <2>4. p[1] \in terminal /\ p[2] \in terminal
    BY <1>3, TerminalIsFinite
  <2>5. ASSUME NEW k \in {1, 2}
        PROVE  /\ Row(k).attempt = p[k] /\ Row(k).type = "rubric_score"
               /\ Row(k).by = "llm_judge" /\ Row(k).confidence = d.confidence
               /\ Row(k).swap = 0 /\ Row(k).baseline = NoRow
    BY <2>1 DEF ScoreColumns
  <2>5a. ASSUME NEW k \in {1, 2} PROVE p[k] \in Row(k).of
    <3>1. p[k] \in all(k)
      BY <2>4 DEF all, IInv, SameReplicate
    <3>2. Row(k).of = all(k)
      BY <2>1 DEF ScoreColumns
    <3>. QED
      BY <3>1, <3>2
  <2>. HIDE DEF Row
  <2>6. ASSUME NEW k \in {1, 2}, NEW s, s = Row(k) PROVE Scored(s)'
    BY <1>2, <2>3, <2>4, <2>5, <2>5a, <2>6, JudgeScored
  <2>7. ASSUME NEW s \in Preferences(p, d, base) \cup Grades(p, d, base) PROVE Scored(s)'
    <3>1. SameBase(s, base) /\ s.attempt \in {p[1], p[2]} /\ s.type # "divergence"
      BY <2>1, PreferencesAre, GradesAre
    <3>. QED
      BY <1>2, <2>1, <2>3, <2>4, <3>1, JudgeScored DEF SameBase
  <2>8. IsFiniteSet(F(p))
    <3>1. IsFiniteSet(Preferences(p, d, base))
      BY <2>1, PreferencesAre
    <3>2. IsFiniteSet(Grades(p, d, base))
      BY <2>1, GradesAre
    <3>3. {Row(k) : k \in {1, 2}} = {Row(1), Row(2)}
      OBVIOUS
    <3>4. IsFiniteSet({Row(k) : k \in {1, 2}})
      BY <3>3, PairIsFinite
    <3>. QED
      BY <2>2, <3>1, <3>2, <3>4, ThreeFinite
  <2>. QED
    BY <2>2, <2>6, <2>7, <2>8
<1>5. IsFiniteSet(P)
  BY <1>3, TerminalIsFinite, FS_Subset
<1>6. new = UNION {F(p) : p \in P}
  OBVIOUS
<1>. HIDE DEF F, P, new
<1>7. IsFiniteSet(UNION {F(p) : p \in P})
  <2>1. {F(p) : p \in P} = {g[p] : p \in P}
    OBVIOUS
  <2>2. \A T \in {g[p] : p \in P} : IsFiniteSet(T)
    BY <1>4
  <2>. HIDE DEF g
  <2>3. IsFiniteSet({g[p] : p \in P})
    BY <1>5, ImageIsFinite
  <2>4. IsFiniteSet(UNION {g[p] : p \in P})
    BY <2>2, <2>3, FS_UNION
  <2>. QED
    BY <2>1, <2>4
<1>8. \A s \in new : Scored(s)'
  BY <1>4, <1>6
<1>. QED
  BY <1>1, <1>6, <1>7, <1>8, ScoresAdded

\* A stored baseline is the greatest row of its replicate without a warmer, of
\* those that succeeded if any did.
LEMMA StoredBaselineIs ==
  ASSUME IInv, NEW i, StoredBaseline(i) # NoRow
  PROVE  LET b == StoredBaseline(i)
         IN  /\ b \in terminal /\ Group(b) = Group(i) /\ SameReplicate(b, i)
             /\ ledger[b].warmer = NoWarmer
<1>. DEFINE same == {j \in terminal : /\ Group(j) = Group(i) /\ ledger[j].warmer = NoWarmer
                                     /\ SameReplicate(i, j)}
            best == IF \E j \in same : Succeeded(j) THEN {j \in same : Succeeded(j)} ELSE same
<1>1. StoredBaseline(i) = IF best = {} THEN NoRow ELSE CHOOSE j \in best : \A k \in best : k <= j
  BY DEF StoredBaseline
<1>2. best \subseteq same /\ same \subseteq terminal /\ best \subseteq Rows
  BY DEF IInv
<1>. HIDE DEF best
<1>3. StoredBaseline(i) \in best
  BY <1>1, <1>2, Greatest DEF IInv
<1>. QED
  BY <1>2, <1>3 DEF SameReplicate

LEMMA DivergencesStep ==
  ASSUME IInv, RecordDivergences PROVE IInv'
<1>. DEFINE S == {j \in terminal : /\ ledger[j].warmer # NoWarmer
                                  /\ ~\E s \in scores : s.type = "divergence" /\ s.attempt = j}
            F(i) == [NoScore EXCEPT !.attempt = i, !.type = "divergence", !.by = "code",
                                    !.baseline = StoredBaseline(i)]
            new == {F(i) : i \in S}
            g == [i \in S |-> F(i)]
<1>1. scores' = scores \cup new /\ UNCHANGED <<ledger, terminal, assigned, submitted>>
  BY DEF RecordDivergences
<1>2. Grows
  BY <1>1 DEF Grows
<1>3. S \subseteq terminal
  OBVIOUS
<1>4. ASSUME NEW i \in S, NEW s, s = F(i) PROVE Scored(s)'
  <2>1. /\ s.attempt = i /\ s.type = "divergence" /\ s.by = "code" /\ s.confidence = 0
        /\ s.swap = 0 /\ s.baseline = StoredBaseline(i)
    BY <1>4 DEF NoScore
  <2>2. i \in terminal /\ ledger[i].warmer # NoWarmer
    OBVIOUS
  <2>. HIDE DEF F, S
  <2>3. StoredBaseline(i) # NoRow =>
          /\ StoredBaseline(i) \in terminal /\ Group(StoredBaseline(i)) = Group(i)
          /\ SameReplicate(StoredBaseline(i), i) /\ ledger[StoredBaseline(i)].warmer = NoWarmer
    BY StoredBaselineIs, <2>2
  <2>. QED
    BY <1>1, <2>1, <2>2, <2>3 DEF Scored, Group, SameReplicate
<1>5. IsFiniteSet(S)
  BY <1>3, TerminalIsFinite, FS_Subset
<1>6. new = {g[i] : i \in S}
  OBVIOUS
<1>. HIDE DEF F, S, g
<1>7. IsFiniteSet(new)
  BY <1>5, <1>6, ImageIsFinite
<1>8. \A s \in new : Scored(s)'
  BY <1>4
<1>. HIDE DEF new
<1>. QED
  BY <1>1, <1>7, <1>8, ScoresAdded
-----------------------------------------------------------------------------
(***************************************************************************)
(* The inductive invariant.                                                *)
(***************************************************************************)
LEMMA InitResults == Init => IInv
<1>. SUFFICES ASSUME Init PROVE IInv
  OBVIOUS
<1>1. submitted = {} /\ scores = {} /\ assigned = {} /\ terminal = {} /\ ledger \in Ledgers
  BY DEF Init
<1>2. IsFiniteSet(submitted) /\ IsFiniteSet(scores)
  BY <1>1, FS_EmptySet
<1>. QED
  BY <1>1, <1>2 DEF IInv

LEMMA NextResults == IInv /\ [Next]_vars => IInv'
<1>. SUFFICES ASSUME IInv, [Next]_vars PROVE IInv'
  OBVIOUS
<1>1. ASSUME NEW i \in Rows, EndAttempt(i) PROVE IInv'
  BY <1>1, EndStep
<1>2. CASE Assign
  BY <1>2, AssignStep
<1>3. ASSUME NEW a \in assigned, NEW d \in Decisions, Submit(a, d) PROVE IInv'
  BY <1>3, SubmitStep
<1>4. ASSUME NEW e \in Judges, NEW swaps \in Swaps, NEW says \in [JudgedPairs -> Verdicts],
             Judge(e, swaps, says)
      PROVE  IInv'
  BY <1>4, JudgeStep
<1>5. ASSUME NEW d \in Verdicts, RecordDemoScores(d) PROVE IInv'
  BY <1>5, DemoStep
<1>6. CASE RecordDivergences
  BY <1>6, DivergencesStep
<1>7. CASE UNCHANGED vars
  <2>1. Grows /\ terminal' = terminal /\ submitted' \ submitted = {} /\ scores' \ scores = {}
    BY <1>7 DEF vars, Grows
  <2>2. assigned' \subseteq ReviewPairs' \X Reviewers /\ terminal' \subseteq Rows
    BY <1>7, PairsStay DEF vars, IInv
  <2>. QED
    BY <2>1, <2>2, MoreEvidence, FS_EmptySet
<1>. QED
  BY <1>1, <1>2, <1>3, <1>4, <1>5, <1>6, <1>7 DEF Next

LEMMA SpecResults == Spec => []IInv
BY InitResults, NextResults, PTL DEF Spec

\* The evidence of a report is well formed in every state: what is scored has
\* ended, and what a divergence was measured from as well.
THEOREM ResultsTypeOK == Spec => []TypeOK
<1>1. IInv => TypeOK
  <2>. SUFFICES ASSUME IInv PROVE TypeOK
    OBVIOUS
  <2>1. assigned \subseteq (terminal \X terminal) \X Reviewers
    BY TerminalIsFinite DEF IInv
  <2>. QED
    BY <2>1 DEF TypeOK, IInv, Scored
<1>. QED
  BY <1>1, SpecResults, PTL
-----------------------------------------------------------------------------
(***************************************************************************)
(* Reliability.                                                            *)
(***************************************************************************)
\* A row has ended only after the earlier rows of its run.
EndedInOrder ==
  \A i \in terminal : \A j \in Rows : Cell(j) = Cell(i) /\ j < i => j \in terminal

SameRow(i, j) == Cell(i) = Cell(j) /\ SameReplicate(i, j)

LEMMA SameColumns ==
  ASSUME NEW i, NEW j, SameRow(i, j)
  PROVE  \A dim \in Dimensions : ledger[i][dim] = ledger[j][dim]
BY DEF SameRow, Cell, Dimensions

\* Rows of which each replicate has one are as many as the replicates.
LEMMA OneRowEach ==
  ASSUME NEW S, NEW E, IsFiniteSet(S), S \subseteq E,
         \A i, j \in S : SameRow(i, j) => i = j,
         \A i \in E : \E j \in S : SameRow(i, j)
  PROVE  Cardinality(Replicates(E)) = Cardinality(S)
<1>. DEFINE Name(i) == <<Cell(i), ledger[i].replicate_index>>
            f == [i \in S |-> Name(i)]
<1>1. \A i, j : Name(i) = Name(j) <=> SameRow(i, j)
  BY DEF SameRow, SameReplicate
<1>2. Replicates(E) = {Name(i) : i \in E}
  BY DEF Replicates
<1>. HIDE DEF Name
<1>3. f \in Bijection(S, Replicates(E))
  <2>1. f \in [S -> Replicates(E)]
    BY <1>2
  <2>2. \A i, j \in S : f[i] = f[j] => i = j
    BY <1>1
  <2>3. ASSUME NEW x \in Replicates(E) PROVE \E j \in S : f[j] = x
    <3>1. PICK i \in E : x = Name(i)
      BY <1>2
    <3>2. PICK j \in S : SameRow(i, j)
      OBVIOUS
    <3>. QED
      BY <1>1, <3>1, <3>2
  <2>. QED
    BY <2>1, <2>2, <2>3 DEF Bijection, Injection, Surjection, IsInjective
<1>. QED
  BY <1>3, FS_Bijection DEF ExistsBijection

\* The row expansion made of a replicate has ended when any row of it has, and is
\* its only sample; it failed if there is another.
LEMMA OriginalOf ==
  ASSUME IInv, EndedInOrder, NEW i \in terminal
  PROVE  \E m \in terminal : /\ SameRow(i, m) /\ IsReliabilitySample(m)
                             /\ m # i => ledger[m].status = "failed"
<1>. DEFINE T == {j \in terminal : SameRow(i, j)}
<1>1. terminal \subseteq Rows /\ Rows \subseteq Nat \ {0} /\ ledger \in Ledgers
  BY RowsAre DEF IInv
<1>2. T # {} /\ T \subseteq Nat
  BY <1>1 DEF SameRow, SameReplicate
<1>3. PICK m \in T : \A j \in T : ~(j < m)
  <2>1. PICK m \in T : \A j \in T : ~(<<j, m>> \in OpToRel(<, Nat))
    <3>. HIDE DEF T
    <3>. QED
      BY <1>2, NatLessThanWellFounded, WFMin
  <2>. QED
    BY <1>2, <2>1 DEF OpToRel
<1>4. m \in DOMAIN ledger /\ i \in DOMAIN ledger /\ m \in Nat /\ i \in Nat
  BY <1>1, <1>2 DEF Rows
<1>5. ASSUME ledger[m].attempt_kind = "retry" PROVE FALSE
  <2>1. PICK j \in 1 .. m - 1 : /\ ledger[m].replicate_index = ledger[j].replicate_index
                                /\ \A dim \in Dimensions : ledger[m][dim] = ledger[j][dim]
    BY <1>1, <1>4, <1>5, ResultsAssumption
  <2>2. SameRow(i, j) /\ Cell(j) = Cell(m)
    BY <2>1 DEF SameRow, SameReplicate, Cell, Dimensions
  <2>3. j < m /\ j \in Rows
    BY <1>1, <1>4, <2>1, RowsAre DEF Rows
  <2>4. j \in terminal
    BY <2>2, <2>3 DEF EndedInOrder
  <2>. QED
    BY <1>3, <2>2, <2>3, <2>4
<1>6. ledger[m].attempt_kind = "replicate" /\ ledger[m].parent = NoRow
  BY <1>1, <1>4, <1>5, ResultsAssumption
<1>7. ASSUME m # i PROVE ledger[m].status = "failed"
  <2>1. m < i
    BY <1>3, <1>4, <1>7 DEF SameRow, SameReplicate
  <2>2. \A dim \in Dimensions : ledger[m][dim] = ledger[i][dim]
    BY DEF SameRow, Cell, Dimensions
  <2>3. ledger[m].replicate_index = ledger[i].replicate_index
    BY DEF SameRow, SameReplicate
  <2>. QED
    BY <1>1, <1>4, <2>1, <2>2, <2>3, ResultsAssumption
<1>. QED
  BY <1>6, <1>7 DEF IsReliabilitySample

\* A filter selects it with the row.
LEMMA SampleOf ==
  ASSUME IInv, EndedInOrder, NEW f, NEW i \in Selected(f)
  PROVE  \E m \in Selected(f) :
           /\ SameRow(i, m) /\ IsReliabilitySample(m)
           /\ m # i => ledger[m].status = "failed"
           /\ \A dim \in Dimensions : ledger[m][dim] = ledger[i][dim]
<1>1. i \in terminal
  BY DEF Selected
<1>2. PICK m \in terminal : /\ SameRow(i, m) /\ IsReliabilitySample(m)
                            /\ m # i => ledger[m].status = "failed"
  BY <1>1, OriginalOf
<1>3. \A dim \in Dimensions : ledger[i][dim] = ledger[m][dim]
  BY <1>2, SameColumns
<1>4. m \in Selected(f)
  BY <1>3 DEF Selected
<1>. QED
  BY <1>2, <1>3, <1>4

\* A replicate has one sample.
LEMMA OneSampleEach ==
  ASSUME IInv, NEW i \in terminal, NEW j \in terminal, SameRow(i, j),
         IsReliabilitySample(i), IsReliabilitySample(j)
  PROVE  i = j
<1>1. i \in DOMAIN ledger /\ j \in DOMAIN ledger /\ i \in Nat /\ j \in Nat /\ ledger \in Ledgers
  BY RowsAre DEF IInv, Rows
<1>2. \A dim \in Dimensions : ledger[i][dim] = ledger[j][dim]
  BY DEF SameRow, Cell, Dimensions
<1>3. ledger[i].replicate_index = ledger[j].replicate_index
  BY DEF SameRow, SameReplicate
<1>4. ledger[i].attempt_kind # "retry" /\ ledger[j].attempt_kind # "retry"
  BY DEF IsReliabilitySample
<1>5. ~(i < j)
  BY <1>1, <1>2, <1>3, <1>4, ResultsAssumption
<1>6. ~(j < i)
  BY <1>1, <1>2, <1>3, <1>4, ResultsAssumption
<1>. QED
  BY <1>1, <1>5, <1>6

\* Confidence is that of the replicates that have ended: a retry adds no sample,
\* and its success does not hide that its replicate failed.
THEOREM SamplesCountReplicates == Spec => []SamplesAreReplicates
<1>1. Init => EndedInOrder
  BY DEF Init, EndedInOrder
<1>2. IInv /\ EndedInOrder /\ [Next]_vars => EndedInOrder'
  <2>. SUFFICES ASSUME IInv, EndedInOrder, [Next]_vars PROVE EndedInOrder'
    OBVIOUS
  <2>1. CASE UNCHANGED <<ledger, terminal>>
    BY <2>1 DEF EndedInOrder, Rows, Cell
  <2>2. ASSUME NEW e \in Rows, EndAttempt(e) PROVE EndedInOrder'
    BY <2>2 DEF EndAttempt, EndedInOrder, Rows, Cell
  <2>. QED
    BY <2>1, <2>2, Zenon
       DEF Next, Assign, Submit, Judge, RecordDemoScores, RecordDivergences, vars
<1>3. ASSUME IInv, EndedInOrder, NEW f \in Filters, NEW dim \in Dimensions, NEW value
      PROVE  LET ended  == {i \in Selected(f) : ledger[i][dim] = value}
                 failed == {i \in ended : ledger[i].status = "failed"}
                 row    == UncertaintyRow(f, dim, value)
             IN  /\ row.attempt_count = Cardinality(Replicates(ended))
                 /\ row.failure_rate
                      = Rate(Cardinality(Replicates(failed)), Cardinality(Replicates(ended)))
  <2>. DEFINE ended   == {i \in Selected(f) : ledger[i][dim] = value}
              failed  == {i \in ended : ledger[i].status = "failed"}
              samples == {i \in Selected(f) : ledger[i][dim] = value /\ IsReliabilitySample(i)}
              bad     == {i \in samples : ledger[i].status = "failed"}
  <2>1. /\ samples \subseteq ended /\ ended \subseteq terminal
        /\ bad \subseteq failed /\ failed \subseteq ended /\ bad \subseteq samples
    BY DEF Selected
  <2>2. IsFiniteSet(samples) /\ IsFiniteSet(bad)
    BY <1>3, <2>1, TerminalIsFinite, FS_Subset
  <2>3. \A i, j \in samples : SameRow(i, j) => i = j
    BY <1>3, <2>1, OneSampleEach
  <2>4. ASSUME NEW i \in ended
        PROVE  \E j \in samples : SameRow(i, j) /\ (j # i => ledger[j].status = "failed")
    BY <1>3, SampleOf
  <2>5. \A i \in failed : \E j \in bad : SameRow(i, j)
    <3>. SUFFICES ASSUME NEW i \in failed PROVE \E j \in bad : SameRow(i, j)
      OBVIOUS
    <3>1. PICK j \in samples : SameRow(i, j) /\ (j # i => ledger[j].status = "failed")
      BY <2>4
    <3>2. j \in bad
      BY <3>1
    <3>. QED
      BY <3>1, <3>2
  <2>6. UncertaintyRow(f, dim, value) = Bucket(f, samples)
    BY DEF UncertaintyRow
  <2>7. /\ Bucket(f, samples).attempt_count = Cardinality(samples)
        /\ Bucket(f, samples).failure_rate = Rate(Cardinality(bad), Cardinality(samples))
    BY DEF Bucket
  <2>. HIDE DEF ended, failed, samples, bad
  <2>8. Cardinality(Replicates(ended)) = Cardinality(samples)
    BY <2>1, <2>2, <2>3, <2>4, OneRowEach
  <2>9. Cardinality(Replicates(failed)) = Cardinality(bad)
    BY <2>1, <2>2, <2>3, <2>5, OneRowEach
  <2>10. /\ UncertaintyRow(f, dim, value).attempt_count = Cardinality(Replicates(ended))
         /\ UncertaintyRow(f, dim, value).failure_rate
              = Rate(Cardinality(Replicates(failed)), Cardinality(Replicates(ended)))
    BY <2>6, <2>7, <2>8, <2>9
  <2>. QED
    BY <2>10 DEF ended, failed
<1>4. IInv /\ EndedInOrder => SamplesAreReplicates
  BY <1>3 DEF SamplesAreReplicates
<1>. QED
  BY <1>1, <1>2, <1>4, InitResults, SpecResults, PTL DEF Spec
-----------------------------------------------------------------------------
(***************************************************************************)
(* Disagreement.                                                           *)
(***************************************************************************)
\* Two answers that are compared are known by the set of them, and tell their
\* decision from the outcome of either.
LEMMA PairsAreOrdered ==
  ASSUME IInv, NEW p \in ReviewPairs, NEW q \in ReviewPairs, {p[1], p[2]} = {q[1], q[2]}
  PROVE  p = q
<1>1. /\ p = <<p[1], p[2]>> /\ p[1] \in Rows /\ p[2] \in Rows /\ p[1] < p[2]
      /\ q = <<q[1], q[2]>> /\ q[1] \in Rows /\ q[2] \in Rows /\ q[1] < q[2]
  BY DEF ReviewPairs, Comparable, IInv
<1>2. p[1] \in Nat /\ p[2] \in Nat /\ q[1] \in Nat /\ q[2] \in Nat
  BY <1>1, RowsAre DEF IInv
<1>. QED
  BY <1>1, <1>2

LEMMA OutcomesTell ==
  ASSUME NEW p, NEW i, NEW c \in Decisions, NEW d \in Decisions
  PROVE  Outcome(p, i, c.winner) = Outcome(p, i, d.winner) <=> c.winner = d.winner
BY ResultsAssumption DEF Outcome, Side

\* An item's assignment matches a filter when one of its answers is selected.
LEMMA MatchingItems ==
  ASSUME IInv, NEW f \in Filters, NEW a \in assigned
  PROVE  AssignmentMatches(a, f) <=>
           f.reviewer \in {Any, a[2]} /\ {a[1][1], a[1][2]} \cap Selected(f) # {}
<1>. DEFINE p == a[1]
<1>1. /\ p \in ReviewPairs /\ p[1] \in terminal /\ p[2] \in terminal
      /\ \A dim \in Dimensions \ {"model"} : ledger[p[1]][dim] = ledger[p[2]][dim]
  BY DEF IInv, ReviewPairs, Comparable
<1>2. ASSUME NEW k \in {1, 2}, p[k] \in Selected(f), f.reviewer \in {Any, a[2]}
      PROVE  AssignmentMatches(a, f)
  BY <1>2 DEF AssignmentMatches, Selected
<1>3. ASSUME AssignmentMatches(a, f) PROVE {p[1], p[2]} \cap Selected(f) # {}
  <2>1. PICK k \in {1, 2} : f["model"] \in {Any, ledger[p[k]]["model"]}
    BY <1>3 DEF AssignmentMatches, Dimensions
  <2>2. ASSUME NEW dim \in Dimensions \ {"model"} PROVE f[dim] \in {Any, ledger[p[k]][dim]}
    <3>1. PICK n \in {1, 2} : f[dim] \in {Any, ledger[p[n]][dim]}
      BY <1>3 DEF AssignmentMatches
    <3>2. ledger[p[n]][dim] = ledger[p[k]][dim]
      BY <1>1
    <3>. QED
      BY <3>1, <3>2
  <2>3. p[k] \in Selected(f)
    BY <1>1, <2>1, <2>2 DEF Selected
  <2>. QED
    BY <2>3
<1>. QED
  BY <1>2, <1>3 DEF AssignmentMatches

\* A judge against a person.
LEMMA JudgeAgainstPerson ==
  ASSUME IInv, NEW f \in Filters, NEW e \in Judges \cup {"demo"}, OneComparison(f, e),
         NEW p \in Disagreements(f, e, "pairwise_preference")
  PROVE  \E s \in submitted :
           LET pair == s.assignment[1]
           IN  /\ {pair[1], pair[2]} = p[1].of /\ s.assignment[2] = p[2].who
               /\ s.decision.winner \in {"first", "second"}
               /\ p[1].outcome # Outcome(pair, p[1].attempt, s.decision.winner)
<1>1. /\ p[1] \in scores /\ p[2] \in scores /\ p[1].attempt \in Selected(f)
      /\ p[1].attempt = p[2].attempt /\ p[1].outcome # p[2].outcome
      /\ p[1].by = "llm_judge" /\ p[1].who = e /\ p[2].by = "human"
      /\ p[1].type = "pairwise_preference" /\ p[2].type = "pairwise_preference"
      /\ Calibrates(p[1], f) /\ Calibrates(p[2], f) /\ Decided(p[2])
  BY DEF Disagreements, CalibrationPairs
<1>2. PICK x \in submitted : FromSubmission(p[2], x)
  BY <1>1 DEF IInv, Scored
<1>3. x.assignment \in ReviewPairs \X Reviewers /\ x.decision \in Decisions
  BY DEF IInv
<1>4. p[2].who \in Reviewers
  BY <1>2, <1>3 DEF FromSubmission
<1>5. p[1].of = p[2].of
  BY <1>1, <1>4 DEF OneComparison
<1>6. x.decision.winner \in {"first", "second"}
  BY <1>1, <1>2, <1>3, ResultsAssumption DEF FromSubmission, Outcome, Decided
<1>. QED
  BY <1>1, <1>2, <1>5, <1>6 DEF FromSubmission

\* The reviewers of one item.
LEMMA ReviewersOfItem ==
  ASSUME IInv, NEW f \in Filters, f.source \in {Any, "human"}, NEW p \in {a[1] : a \in assigned}
  PROVE  Cardinality({s.decision.winner : s \in {x \in submitted :
           x.assignment[1] = p /\ AssignmentMatches(x.assignment, f)}}) > 1
         <=> \E i \in {p[1], p[2]} \cap Selected(f) :
               Cardinality({s.outcome : s \in {x \in Evidence(f, {i}) :
                 x.by = "human" /\ x.type = "pairwise_preference" /\ x.of = {p[1], p[2]}}}) > 1
<1>. DEFINE X == {x \in submitted : x.assignment[1] = p /\ AssignmentMatches(x.assignment, f)}
            E(i) == {x \in Evidence(f, {i}) : x.by = "human" /\ x.type = "pairwise_preference"
                                              /\ x.of = {p[1], p[2]}}
            D == {s.decision.winner : s \in X}
            O(i) == {s.outcome : s \in E(i)}
<1>1. p \in ReviewPairs
  BY DEF IInv
<1>2. IsFiniteSet(D)
  <2>. DEFINE g == [x \in X |-> x.decision.winner]
  <2>1. IsFiniteSet(X)
    BY FS_Subset DEF IInv
  <2>2. D = {g[x] : x \in X}
    OBVIOUS
  <2>. HIDE DEF g, X, D
  <2>. QED
    BY <2>1, <2>2, ImageIsFinite
<1>3. ASSUME NEW i PROVE IsFiniteSet(O(i))
  <2>. DEFINE g == [s \in E(i) |-> s.outcome]
  <2>1. IsFiniteSet(E(i))
    BY FS_Subset DEF IInv, Evidence
  <2>2. O(i) = {g[s] : s \in E(i)}
    OBVIOUS
  <2>. HIDE DEF g, E, O
  <2>. QED
    BY <2>1, <2>2, ImageIsFinite
<1>4. ASSUME NEW x \in X, NEW i \in {p[1], p[2]}
      PROVE  \E s \in E(i) : s.outcome = Outcome(p, i, x.decision.winner)
  <2>1. PICK s \in scores : FromSubmission(s, x) /\ s.attempt = i
    BY DEF IInv, BothScored
  <2>2. x.assignment \in assigned /\ f.reviewer \in {Any, x.assignment[2]}
    BY DEF IInv, AssignmentMatches
  <2>3. s \in E(i)
    BY <2>1, <2>2 DEF Evidence, Matches, FromSubmission
  <2>. QED
    BY <2>1, <2>3 DEF FromSubmission
<1>5. ASSUME NEW i \in {p[1], p[2]} \cap Selected(f), NEW s \in E(i)
      PROVE  \E x \in X : s.outcome = Outcome(p, i, x.decision.winner)
  <2>1. s \in scores /\ s.attempt = i /\ Matches(s, f) /\ s.by = "human"
        /\ s.type = "pairwise_preference" /\ s.of = {p[1], p[2]}
    BY DEF Evidence
  <2>2. PICK x \in submitted : FromSubmission(s, x)
    BY <2>1 DEF IInv, Scored
  <2>3. x.assignment \in assigned /\ x.assignment[1] \in ReviewPairs
    BY DEF IInv
  <2>4. x.assignment[1] = p
    BY <1>1, <2>1, <2>2, <2>3, PairsAreOrdered DEF FromSubmission
  <2>5. AssignmentMatches(x.assignment, f)
    BY <2>1, <2>2, <2>3, <2>4, MatchingItems DEF Matches, FromSubmission
  <2>. QED
    BY <2>1, <2>2, <2>4, <2>5 DEF FromSubmission
<1>6. \A x \in X : x.decision \in Decisions /\ x.assignment \in assigned
  BY DEF IInv
<1>7. X # {} => {p[1], p[2]} \cap Selected(f) # {}
  BY <1>6, MatchingItems
<1>. HIDE DEF X, E
<1>8. Cardinality(D) > 1 <=> \E x, y \in X : x.decision.winner # y.decision.winner
  <2>1. Cardinality(D) > 1 <=> \E v, w \in D : v # w
    <3>. HIDE DEF D
    <3>. QED
      BY <1>2, TwoOfMany
  <2>. QED
    BY <2>1
<1>9. ASSUME NEW i
      PROVE  Cardinality(O(i)) > 1 <=> \E s, t \in E(i) : s.outcome # t.outcome
  <2>1. Cardinality(O(i)) > 1 <=> \E v, w \in O(i) : v # w
    <3>. HIDE DEF O
    <3>. QED
      BY <1>3, TwoOfMany
  <2>. QED
    BY <2>1
<1>10. ASSUME NEW x \in X, NEW y \in X, x.decision.winner # y.decision.winner
       PROVE  \E i \in {p[1], p[2]} \cap Selected(f) : \E s, t \in E(i) : s.outcome # t.outcome
  <2>1. PICK i \in {p[1], p[2]} \cap Selected(f) : TRUE
    BY <1>7
  <2>2. PICK s \in E(i) : s.outcome = Outcome(p, i, x.decision.winner)
    BY <1>4
  <2>3. PICK t \in E(i) : t.outcome = Outcome(p, i, y.decision.winner)
    BY <1>4
  <2>4. Outcome(p, i, x.decision.winner) # Outcome(p, i, y.decision.winner)
    <3>1. x.decision \in Decisions /\ y.decision \in Decisions
      BY <1>6
    <3>2. Outcome(p, i, x.decision.winner) = Outcome(p, i, y.decision.winner)
            <=> x.decision.winner = y.decision.winner
      BY <3>1, OutcomesTell
    <3>. QED
      BY <1>10, <3>2
  <2>. QED
    BY <2>2, <2>3, <2>4
<1>11. ASSUME NEW i \in {p[1], p[2]} \cap Selected(f), NEW s \in E(i), NEW t \in E(i),
              s.outcome # t.outcome
       PROVE  \E x, y \in X : x.decision.winner # y.decision.winner
  <2>1. PICK x \in X : s.outcome = Outcome(p, i, x.decision.winner)
    BY <1>5
  <2>2. PICK y \in X : t.outcome = Outcome(p, i, y.decision.winner)
    BY <1>5
  <2>. QED
    BY <1>11, <2>1, <2>2
<1>12. Cardinality(D) > 1 <=> \E i \in {p[1], p[2]} \cap Selected(f) : Cardinality(O(i)) > 1
  <2>. HIDE DEF D, O
  <2>. QED
    BY <1>8, <1>9, <1>10, <1>11
<1>. QED
  BY <1>12 DEF X, E

\* What the report calls a disagreement is one between decisions, wherever the
\* answer met one other; and reviewers disagree on an item exactly when the
\* scores of its answers do.
THEOREM DisagreementsAreReal == Spec => []DisagreementIsReal
<1>1. ASSUME IInv, NEW f \in Filters, f.source \in {Any, "human"}
      PROVE  PairwiseDisagreements(f) =
               {p \in {a[1] : a \in assigned} : \E i \in {p[1], p[2]} \cap Selected(f) :
                  Cardinality({s.outcome : s \in {x \in Evidence(f, {i}) :
                    x.by = "human" /\ x.type = "pairwise_preference"
                    /\ x.of = {p[1], p[2]}}}) > 1}
  BY <1>1, ReviewersOfItem DEF PairwiseDisagreements
<1>2. IInv => DisagreementIsReal
  BY <1>1, JudgeAgainstPerson DEF DisagreementIsReal
<1>. QED
  BY <1>2, SpecResults, PTL
-----------------------------------------------------------------------------
(***************************************************************************)
(* Divergence.                                                             *)
(***************************************************************************)
LEMMA MatchingBaselineIs ==
  ASSUME IInv, NEW f, NEW i, MatchingBaseline(f, i) # NoRow
  PROVE  LET b == MatchingBaseline(f, i)
         IN  /\ b \in Selected(f) /\ Group(b) = Group(i) /\ SameReplicate(b, i)
             /\ ledger[b].warmer = NoWarmer
             /\ \A k \in Baselines(f, i) : SameReplicate(i, k) => k <= b
<1>. DEFINE same == {j \in Baselines(f, i) : SameReplicate(i, j)}
<1>1. MatchingBaseline(f, i) =
        IF same = {} THEN NoRow ELSE CHOOSE j \in same : \A k \in same : k <= j
  BY DEF MatchingBaseline
<1>2. same \subseteq Rows /\ \A j \in same : SameReplicate(j, i)
  BY DEF IInv, Baselines, Selected, SameReplicate
<1>3. same \subseteq Baselines(f, i) /\ \A k \in Baselines(f, i) : SameReplicate(i, k) => k \in same
  OBVIOUS
<1>. HIDE DEF same
<1>4. MatchingBaseline(f, i) \in same /\ \A k \in same : k <= MatchingBaseline(f, i)
  BY <1>1, <1>2, Greatest DEF IInv
<1>. QED
  BY <1>2, <1>3, <1>4 DEF Baselines

\* What a row with a value was measured from: the baseline that succeeded, or
\* the last one that the report has selected.
Measured(f, x) ==
  /\ x.attempt \in Selected(f) /\ ledger[x.attempt].warmer # NoWarmer
  /\ x.baseline \in terminal /\ ledger[x.baseline].warmer = NoWarmer
  /\ Group(x.baseline) = Group(x.attempt) /\ SameReplicate(x.baseline, x.attempt)
  /\ \/ Succeeded(x.baseline)
     \/ /\ x.baseline = MatchingBaseline(f, x.attempt) /\ x.baseline \in Selected(f)
        /\ \A k \in Baselines(f, x.attempt) : SameReplicate(x.attempt, k) => k <= x.baseline

Quoted(x) ==
  \A m \in x.from : /\ m[1].score.who = m[2].score.who
                    /\ {x.baseline, x.attempt} \subseteq m[1].score.of \cap m[2].score.of

LEMMA StoredIsMeasured ==
  ASSUME IInv, NEW f, NEW x \in StoredRows(f), x.known PROVE Measured(f, x) /\ Quoted(x)
<1>1. PICK s \in Evidence(f, Selected(f)) :
        /\ s.type = "divergence"
        /\ x = DivergenceRow(s.attempt, "stored", "deterministic", s.baseline,
                 s.baseline # NoRow /\ Succeeded(s.attempt) /\ Succeeded(s.baseline), {})
  BY DEF StoredRows
<1>2. /\ x.attempt = s.attempt /\ x.baseline = s.baseline /\ x.from = {}
      /\ s.baseline # NoRow /\ Succeeded(s.baseline)
  BY <1>1 DEF DivergenceRow
<1>3. s \in scores /\ s.attempt \in Selected(f) /\ Scored(s)
  BY DEF Evidence, IInv
<1>. QED
  BY <1>1, <1>2, <1>3 DEF Scored, Measured, Quoted

LEMMA MatchedIsMeasured ==
  ASSUME IInv, NEW f, NEW i \in Warmed(f), MatchingBaseline(f, i) # NoRow,
         NEW x, x.attempt = i, x.baseline = MatchingBaseline(f, i)
  PROVE  Measured(f, x)
<1>1. i \in Selected(f) /\ ledger[i].warmer # NoWarmer
  BY DEF Warmed
<1>2. MatchingBaseline(f, i) \in terminal
  BY MatchingBaselineIs DEF Selected
<1>. QED
  BY <1>1, <1>2, MatchingBaselineIs DEF Measured

LEMMA SpreadIsMeasured ==
  ASSUME IInv, NEW f, NEW i \in Warmed(f), SpreadRow(f, i).known
  PROVE  Measured(f, SpreadRow(f, i)) /\ Quoted(SpreadRow(f, i))
<1>. DEFINE x == SpreadRow(f, i)
<1>1. /\ x.attempt = i /\ x.baseline = MatchingBaseline(f, i) /\ x.from = {}
      /\ MatchingBaseline(f, i) # NoRow
  BY DEF SpreadRow, DivergenceRow
<1>. HIDE DEF x
<1>. QED
  BY <1>1, MatchedIsMeasured DEF Quoted, x

LEMMA EvidenceIsOf ==
  ASSUME IInv, NEW f, NEW i, NEW signal, NEW m \in JudgeEvidence(f, i, signal)
  PROVE  i \in m.score.of
<1>1. PICK s \in Evidence(f, {i}) : m.score = s /\ s.by = "llm_judge"
  BY DEF JudgeEvidence
<1>. QED
  BY <1>1 DEF Evidence, IInv, Scored

LEMMA ClaimIsMeasured ==
  ASSUME IInv, NEW f, NEW i \in Warmed(f), NEW signal, ClaimRow(f, i, signal).known
  PROVE  Measured(f, ClaimRow(f, i, signal)) /\ Quoted(ClaimRow(f, i, signal))
<1>. DEFINE x == ClaimRow(f, i, signal)
            b == MatchingBaseline(f, i)
<1>1. x.attempt = i /\ x.baseline = b /\ b # NoRow
  BY DEF ClaimRow, DivergenceRow
<1>2. x.from \subseteq MatchedEvidence(f, b, i, signal)
  BY <1>1 DEF ClaimRow, DivergenceRow
<1>. HIDE DEF x
<1>3. Quoted(x)
  <2>. SUFFICES ASSUME NEW m \in MatchedEvidence(f, b, i, signal)
                PROVE  /\ m[1].score.who = m[2].score.who
                       /\ {b, i} \subseteq m[1].score.of \cap m[2].score.of
    BY <1>1, <1>2 DEF Quoted
  <2>. HIDE DEF b
  <2>1. /\ m[1] \in JudgeEvidence(f, b, signal) /\ m[2] \in JudgeEvidence(f, i, signal)
        /\ CompatibleEvidence(m[1], m[2])
    BY DEF MatchedEvidence
  <2>2. b \in m[1].score.of /\ i \in m[2].score.of
    BY <2>1, EvidenceIsOf
  <2>. QED
    BY <2>1, <2>2 DEF CompatibleEvidence
<1>. QED
  BY <1>1, <1>3, MatchedIsMeasured DEF x

\* A baseline that succeeded is the one that the report selects, if it selects
\* any for the row.
LEMMA SucceededIsMatching ==
  ASSUME IInv, NEW f \in Filters, NEW x, NEW y, Measured(f, x), Measured(f, y),
         x.attempt = y.attempt, Succeeded(x.baseline)
  PROVE  x.baseline = y.baseline
<1>. DEFINE i == x.attempt
<1>1. /\ x.baseline \in terminal /\ y.baseline \in terminal /\ i \in terminal
      /\ x.baseline \in Rows /\ y.baseline \in Rows
      /\ Group(x.baseline) = Group(i) /\ Group(y.baseline) = Group(i)
      /\ ledger[x.baseline].warmer = NoWarmer /\ ledger[y.baseline].warmer = NoWarmer
      /\ SameReplicate(x.baseline, i) /\ SameReplicate(y.baseline, i)
  BY DEF IInv, Measured, Selected
<1>2. Cell(x.baseline) = Cell(y.baseline) /\ SameReplicate(x.baseline, y.baseline)
  BY <1>1 DEF Cell, Group, SameReplicate
<1>3. y.baseline <= x.baseline
  BY <1>1, <1>2, SucceededIsLast DEF IInv
<1>4. x.baseline \in Nat /\ y.baseline \in Nat
  BY <1>1, RowsAre DEF IInv
<1>5. CASE Succeeded(y.baseline)
  <2>1. x.baseline <= y.baseline
    BY <1>1, <1>2, <1>5, SucceededIsLast DEF IInv, SameReplicate
  <2>. QED
    BY <1>3, <1>4, <2>1
<1>6. CASE /\ y.baseline \in Selected(f)
           /\ \A k \in Baselines(f, i) : SameReplicate(i, k) => k <= y.baseline
  <2>1. f["warmer"] = Any
    <3>1. /\ f["warmer"] \in {Any, ledger[y.baseline]["warmer"]}
          /\ f["warmer"] \in {Any, ledger[i]["warmer"]}
      BY <1>6 DEF Measured, Selected, Dimensions
    <3>. QED
      BY <1>1, <3>1 DEF Measured
  <2>2. \A dim \in Dimensions \ {"warmer"} : ledger[x.baseline][dim] = ledger[i][dim]
    BY <1>1 DEF Group, Dimensions
  <2>3. x.baseline \in Selected(f)
    <3>1. \A dim \in Dimensions : f[dim] \in {Any, ledger[i][dim]}
      BY DEF Measured, Selected
    <3>2. \A dim \in Dimensions : f[dim] \in {Any, ledger[x.baseline][dim]}
      BY <2>1, <2>2, <3>1
    <3>. QED
      BY <1>1, <3>2 DEF Selected
  <2>4. x.baseline <= y.baseline
    BY <1>1, <1>6, <2>3 DEF Baselines, SameReplicate
  <2>. QED
    BY <1>3, <1>4, <2>4
<1>. QED
  BY <1>5, <1>6 DEF Measured

\* One report measures an answer from one baseline, whatever the measure, and
\* quotes a judge on both only for a comparison of both.
THEOREM OneBaselineEach == Spec => []DivergencesAgree
<1>1. ASSUME IInv, NEW f \in Filters, NEW x \in DivergenceRows(f), x.known
      PROVE  Measured(f, x) /\ Quoted(x)
  <2>1. CASE x \in StoredRows(f)
    BY <1>1, <2>1, StoredIsMeasured
  <2>2. ASSUME NEW i \in Warmed(f), x = SpreadRow(f, i) PROVE Measured(f, x) /\ Quoted(x)
    BY <1>1, <2>2, SpreadIsMeasured
  <2>3. ASSUME NEW i \in Warmed(f), NEW signal \in Signals, x = ClaimRow(f, i, signal)
        PROVE  Measured(f, x) /\ Quoted(x)
    BY <1>1, <2>3, ClaimIsMeasured
  <2>. QED
    BY <2>1, <2>2, <2>3 DEF DivergenceRows
<1>2. ASSUME IInv, NEW f \in Filters, NEW x \in DivergenceRows(f), x.known,
             NEW y \in DivergenceRows(f), y.known, y.attempt = x.attempt
      PROVE  y.baseline = x.baseline
  <2>1. Measured(f, x) /\ Measured(f, y)
    BY <1>1, <1>2
  <2>2. CASE Succeeded(x.baseline) \/ Succeeded(y.baseline)
    BY <1>2, <2>1, <2>2, SucceededIsMatching
  <2>. QED
    BY <1>2, <2>1, <2>2 DEF Measured
<1>3. IInv => DivergencesAgree
  <2>. SUFFICES ASSUME IInv, NEW f \in Filters, NEW x \in DivergenceRows(f), x.known
                PROVE  /\ Group(x.baseline) = Group(x.attempt)
                       /\ SameReplicate(x.baseline, x.attempt)
                       /\ \A y \in DivergenceRows(f) :
                            y.known /\ y.attempt = x.attempt => y.baseline = x.baseline
                       /\ Quoted(x)
    BY DEF DivergencesAgree, Quoted
  <2>. QED
    BY <1>1, <1>2 DEF Measured
<1>. QED
  BY <1>3, SpecResults, PTL
-----------------------------------------------------------------------------
(***************************************************************************)
(* Rates are ordered by cross multiplication.                              *)
(***************************************************************************)
LEMMA TimesKeepsOrder ==
  ASSUME NEW x \in Nat, NEW y \in Nat, NEW z \in Nat, x <= y
  PROVE  x * z <= y * z
<1>. PICK k \in Nat : y = x + k
  <2>1. y - x \in Nat /\ y = x + (y - x)
    OBVIOUS
  <2>. QED
    BY <2>1
<1>1. k * z \in Nat /\ x * z \in Nat
  OBVIOUS
<1>2. (x + k) * z = x * z + k * z
  OBVIOUS
<1>. QED
  BY <1>1, <1>2

LEMMA TimesKeepsStrictOrder ==
  ASSUME NEW x \in Nat, NEW y \in Nat, NEW z \in Nat, x < y, 0 < z
  PROVE  x * z < y * z
<1>1. (x + 1) * z <= y * z
  BY TimesKeepsOrder
<1>2. (x + 1) * z = x * z + z /\ x * z \in Nat /\ y * z \in Nat
  OBVIOUS
<1>. QED
  BY <1>1, <1>2

LEMMA Cancels ==
  ASSUME NEW x \in Nat, NEW y \in Nat, NEW z \in Nat
  PROVE  /\ x * z < y * z => x < y
         /\ x * z <= y * z /\ 0 < z => x <= y
<1>1. x * z \in Nat /\ y * z \in Nat
  OBVIOUS
<1>2. ASSUME y <= x PROVE y * z <= x * z
  BY <1>2, TimesKeepsOrder
<1>3. ASSUME y < x, 0 < z PROVE y * z < x * z
  BY <1>3, TimesKeepsStrictOrder
<1>. QED
  BY <1>1, <1>2, <1>3

\* a/b, c/d and e/f.
LEMMA CrossProducts ==
  ASSUME NEW a \in Nat, NEW b \in Nat \ {0}, NEW c \in Nat, NEW d \in Nat \ {0},
         NEW e \in Nat, NEW f \in Nat \ {0},
         a * d <= c * b, c * f <= e * d
  PROVE  /\ a * f <= e * b
         /\ a * d < c * b \/ c * f < e * d => a * f < e * b
<1>1. /\ a * d \in Nat /\ c * b \in Nat /\ c * f \in Nat /\ e * d \in Nat
      /\ a * f \in Nat /\ e * b \in Nat
  OBVIOUS
<1>2. (a * d) * f <= (c * b) * f /\ (a * d < c * b => (a * d) * f < (c * b) * f)
  BY <1>1, TimesKeepsOrder, TimesKeepsStrictOrder
<1>3. (c * f) * b <= (e * d) * b /\ (c * f < e * d => (c * f) * b < (e * d) * b)
  BY <1>1, TimesKeepsOrder, TimesKeepsStrictOrder
<1>4. (a * d) * f = (a * f) * d /\ (c * b) * f = (c * f) * b /\ (e * d) * b = (e * b) * d
  OBVIOUS
<1>5. (a * f) * d \in Nat /\ (c * f) * b \in Nat /\ (e * b) * d \in Nat
  BY <1>1
<1>6. /\ (a * f) * d <= (e * b) * d
      /\ a * d < c * b \/ c * f < e * d => (a * f) * d < (e * b) * d
  BY <1>2, <1>3, <1>4, <1>5
<1>. QED
  BY <1>1, <1>6, Cancels

IsRate(r) == r.n \in Nat /\ r.d \in Nat

LEMMA RatesAreOrdered ==
  ASSUME NEW r, NEW q, NEW s, IsRate(r), IsRate(q), IsRate(s), Known(r), Known(q), Known(s),
         AtMost(r, q), AtMost(q, s)
  PROVE  AtMost(r, s) /\ (Below(r, q) \/ Below(q, s) => Below(r, s))
<1>1. /\ r.n \in Nat /\ q.n \in Nat /\ s.n \in Nat
      /\ r.d \in Nat \ {0} /\ q.d \in Nat \ {0} /\ s.d \in Nat \ {0}
  BY DEF IsRate, Known
<1>. QED
  BY <1>1, CrossProducts DEF AtMost, Below

LEMMA NotBelowItself == ASSUME NEW r, IsRate(r) PROVE ~Below(r, r)
<1>1. r.n * r.d \in Nat
  BY DEF IsRate
<1>. QED
  BY <1>1 DEF Below

(***************************************************************************)
(* The rates of a report are fractions.                                    *)
(***************************************************************************)
UnitsOf(A, g) == UNION {{i} \X UNION {1 .. v : v \in g[i]} : i \in A}

LEMMA UnitsAreFinite ==
  ASSUME NEW A, IsFiniteSet(A), NEW g, \A i \in A : g[i] \subseteq Nat /\ IsFiniteSet(g[i])
  PROVE  IsFiniteSet(UnitsOf(A, g))
<1>. DEFINE ofRow(i) == UNION {1 .. v : v \in g[i]}
            units == [i \in A |-> {i} \X ofRow(i)]
<1>1. ASSUME NEW i \in A PROVE IsFiniteSet({i} \X ofRow(i))
  <2>. DEFINE upTo == [v \in g[i] |-> 1 .. v]
  <2>1. \A T \in {upTo[v] : v \in g[i]} : IsFiniteSet(T)
    <3>1. ASSUME NEW v \in g[i] PROVE IsFiniteSet(upTo[v])
      <4>1. v \in Int /\ 1 \in Int
        OBVIOUS
      <4>2. upTo[v] = 1 .. v
        OBVIOUS
      <4>. QED
        BY <4>1, <4>2, FS_Interval
    <3>. HIDE DEF upTo
    <3>. QED
      BY <3>1
  <2>2. {1 .. v : v \in g[i]} = {upTo[v] : v \in g[i]}
    OBVIOUS
  <2>. HIDE DEF upTo
  <2>3. IsFiniteSet({upTo[v] : v \in g[i]})
    BY ImageIsFinite
  <2>4. IsFiniteSet(UNION {upTo[v] : v \in g[i]})
    BY <2>1, <2>3, FS_UNION
  <2>5. IsFiniteSet(ofRow(i))
    BY <2>2, <2>4
  <2>. HIDE DEF ofRow
  <2>. QED
    BY <2>5, FS_Singleton, FS_Product
<1>2. \A T \in {units[i] : i \in A} : IsFiniteSet(T)
  BY <1>1
<1>3. {{i} \X ofRow(i) : i \in A} = {units[i] : i \in A}
  OBVIOUS
<1>. HIDE DEF units
<1>4. IsFiniteSet({units[i] : i \in A})
  BY ImageIsFinite
<1>5. IsFiniteSet(UNION {units[i] : i \in A})
  BY <1>2, <1>4, FS_UNION
<1>. QED
  BY <1>3, <1>5 DEF UnitsOf

LEMMA BucketHasRates ==
  ASSUME IInv, NEW f, NEW A \in SUBSET terminal
  PROVE  LET b == Bucket(f, A)
         IN  IsRate(b.pass_rate) /\ IsRate(b.win_rate) /\ IsRate(b.cost) /\ IsRate(b.latency)
<1>1. IsFiniteSet(A) /\ A \subseteq Rows
  BY TerminalIsFinite, FS_Subset DEF IInv
<1>2. ASSUME NEW S \in SUBSET scores, NEW T \in SUBSET scores PROVE IsRate(RateOf(S, T))
  <2>1. IsFiniteSet(S) /\ IsFiniteSet(S \cup T)
    BY FS_Subset DEF IInv
  <2>. QED
    BY <2>1, FS_CardinalityType DEF RateOf, Rate, IsRate
<1>3. IsRate(RateOf(Graded(f, A, "passed"), Graded(f, A, "failed")))
  BY <1>2 DEF Graded, Evidence
<1>4. IsRate(RateOf(Won(f, A, "winner"), Won(f, A, "loser")))
  BY <1>2 DEF Won, Evidence
<1>5. ASSUME NEW g, \A i \in A : g[i] \subseteq Nat /\ IsFiniteSet(g[i])
      PROVE  IsRate(Rate(Cardinality(UnitsOf(A, g)), Cardinality({i \in A : g[i] # {}})))
  <2>. DEFINE U == UnitsOf(A, g)
              K == {i \in A : g[i] # {}}
  <2>1. IsFiniteSet(U)
    BY <1>1, <1>5, UnitsAreFinite
  <2>2. IsFiniteSet(K)
    BY <1>1, FS_Subset
  <2>. HIDE DEF U, K
  <2>3. Cardinality(U) \in Nat /\ Cardinality(K) \in Nat
    BY <2>1, <2>2, FS_CardinalityType
  <2>4. IsRate(Rate(Cardinality(U), Cardinality(K)))
    BY <2>3 DEF Rate, IsRate
  <2>. QED
    BY <2>4 DEF U, K
<1>6. IsRate(Average(A, LAMBDA i : ledger[i].cost))
  <2>. DEFINE g == [i \in A |-> ledger[i].cost]
  <2>1. \A i \in A : g[i] = ledger[i].cost /\ g[i] \subseteq Nat /\ IsFiniteSet(g[i])
    BY <1>1, RowsAre DEF IInv
  <2>. HIDE DEF g
  <2>2. Average(A, LAMBDA i : ledger[i].cost) =
          Rate(Cardinality(UnitsOf(A, g)), Cardinality({i \in A : g[i] # {}}))
    <3>1. {i \in A : ledger[i].cost # {}} = {i \in A : g[i] # {}}
      BY <2>1
    <3>2. {{i} \X UNION {1 .. v : v \in ledger[i].cost} : i \in A} =
            {{i} \X UNION {1 .. v : v \in g[i]} : i \in A}
      BY <2>1
    <3>. QED
      BY <3>1, <3>2, Zenon DEF Average, Units, UnitsOf
  <2>. QED
    BY <1>5, <2>1, <2>2
<1>7. IsRate(Average(A, LAMBDA i : ledger[i].latency))
  <2>. DEFINE g == [i \in A |-> ledger[i].latency]
  <2>1. \A i \in A : g[i] = ledger[i].latency /\ g[i] \subseteq Nat /\ IsFiniteSet(g[i])
    BY <1>1, RowsAre DEF IInv
  <2>. HIDE DEF g
  <2>2. Average(A, LAMBDA i : ledger[i].latency) =
          Rate(Cardinality(UnitsOf(A, g)), Cardinality({i \in A : g[i] # {}}))
    <3>1. {i \in A : ledger[i].latency # {}} = {i \in A : g[i] # {}}
      BY <2>1
    <3>2. {{i} \X UNION {1 .. v : v \in ledger[i].latency} : i \in A} =
            {{i} \X UNION {1 .. v : v \in g[i]} : i \in A}
      BY <2>1
    <3>. QED
      BY <3>1, <3>2, Zenon DEF Average, Units, UnitsOf
  <2>. QED
    BY <1>5, <2>1, <2>2
<1>. QED
  BY <1>3, <1>4, <1>6, <1>7 DEF Bucket
-----------------------------------------------------------------------------
(***************************************************************************)
(* The frontier.                                                           *)
(***************************************************************************)
\* In a finite set with a strict order, who is above an element is below or is
\* itself an element that nothing is above.
LEMMA SomethingIsGreatest ==
  ASSUME NEW S, IsFiniteSet(S), NEW R,
         \A x \in S : <<x, x>> \notin R,
         \A x, y, z \in S : <<x, y>> \in R /\ <<y, z>> \in R => <<x, z>> \in R,
         NEW c \in S, \E d \in S : <<d, c>> \in R
  PROVE  \E d \in S : <<d, c>> \in R /\ \A e \in S : <<e, d>> \notin R
<1>. DEFINE Above(d) == {e \in S : <<e, d>> \in R}
            V == {Above(d) : d \in Above(c)}
<1>1. V \subseteq SUBSET S /\ V # {}
  <2>1. \A d : Above(d) \in SUBSET S
    OBVIOUS
  <2>2. PICK d \in S : d \in Above(c)
    OBVIOUS
  <2>. HIDE DEF Above
  <2>. QED
    BY <2>1, <2>2
<1>2. IsWellFoundedOn(StrictSubsetOrdering(S), SUBSET S)
  <2>1. FiniteSubsetsOf(S) = SUBSET S
    BY FS_FiniteSubsetsOfFinite
  <2>2. IsWellFoundedOn(StrictSubsetOrdering(S), FiniteSubsetsOf(S))
    BY FS_StrictSubsetOrderingWellFounded
  <2>. QED
    BY <2>1, <2>2, Zenon
<1>3. PICK X \in V : \A Y \in V : <<Y, X>> \notin StrictSubsetOrdering(S)
  <2>. HIDE DEF V
  <2>. QED
    BY <1>1, <1>2, WFMin
<1>4. PICK d \in Above(c) : X = Above(d)
  OBVIOUS
<1>5. ASSUME NEW e \in S, <<e, d>> \in R PROVE FALSE
  <2>1. e \in Above(c)
    BY <1>5
  <2>2. Above(e) \in V
    BY <2>1
  <2>3. Above(e) \subseteq Above(d) /\ e \in Above(d) /\ e \notin Above(e)
    BY <1>5
  <2>4. <<Above(e), X>> \in StrictSubsetOrdering(S)
    <3>1. Above(e) \in SUBSET S /\ Above(d) \in SUBSET S
      OBVIOUS
    <3>2. Above(e) \subseteq X /\ Above(e) # X /\ X \in SUBSET S
      BY <1>4, <2>3, <3>1
    <3>. HIDE DEF Above
    <3>. QED
      BY <3>1, <3>2 DEF StrictSubsetOrdering
  <2>. QED
    BY <1>3, <2>2, <2>4
<1>. QED
  BY <1>4, <1>5

\* A table has rates, of finitely many cells.
TableOfRates(table) ==
  /\ IsFiniteSet(DOMAIN table)
  /\ \A c \in DOMAIN table : /\ IsRate(table[c].pass_rate) /\ IsRate(table[c].win_rate)
                             /\ IsRate(table[c].cost) /\ IsRate(table[c].latency)

LEMMA CandidatesAreKnown ==
  ASSUME NEW table, TableOfRates(table), NEW c \in Candidates(table)
  PROVE  /\ IsRate(Quality(table[c])) /\ IsRate(table[c].cost) /\ IsRate(table[c].latency)
         /\ Known(Quality(table[c])) /\ Known(table[c].cost) /\ Known(table[c].latency)
<1>1. c \in DOMAIN table /\ MissingStatus(table[c]) = "candidate"
  BY DEF Candidates
<1>2. Metric(table[c]) # "none" /\ Known(table[c].cost) /\ Known(table[c].latency)
  BY <1>1 DEF MissingStatus
<1>. QED
  BY <1>1, <1>2 DEF TableOfRates, Metric, Quality

LEMMA DominationIsAnOrder ==
  ASSUME NEW table, TableOfRates(table)
  PROVE  /\ \A c \in Candidates(table) : ~Dominates(table, c, c)
         /\ \A c, d, e \in Candidates(table) :
              Dominates(table, c, d) /\ Dominates(table, d, e) => Dominates(table, c, e)
<1>1. ASSUME NEW c \in Candidates(table) PROVE ~Dominates(table, c, c)
  BY CandidatesAreKnown, NotBelowItself DEF Dominates, Better
<1>2. ASSUME NEW c \in Candidates(table), NEW d \in Candidates(table), NEW e \in Candidates(table),
             Dominates(table, c, d), Dominates(table, d, e)
      PROVE  Dominates(table, c, e)
  <2>. DEFINE x == table[c]
              y == table[d]
              z == table[e]
  <2>1. NoWorse(x, y) /\ Better(x, y) /\ NoWorse(y, z) /\ Better(y, z)
    BY <1>2 DEF Dominates
  <2>2. /\ AtMost(Quality(z), Quality(x))
        /\ Below(Quality(z), Quality(y)) \/ Below(Quality(y), Quality(x))
             => Below(Quality(z), Quality(x))
    BY <2>1, CandidatesAreKnown, RatesAreOrdered DEF NoWorse
  <2>3. /\ AtMost(x.cost, z.cost)
        /\ Below(x.cost, y.cost) \/ Below(y.cost, z.cost) => Below(x.cost, z.cost)
    BY <2>1, CandidatesAreKnown, RatesAreOrdered DEF NoWorse
  <2>4. /\ AtMost(x.latency, z.latency)
        /\ Below(x.latency, y.latency) \/ Below(y.latency, z.latency)
             => Below(x.latency, z.latency)
    BY <2>1, CandidatesAreKnown, RatesAreOrdered DEF NoWorse
  <2>5. NoWorse(x, z)
    BY <2>2, <2>3, <2>4 DEF NoWorse
  <2>6. Better(x, z)
    BY <2>1, <2>2, <2>3, <2>4 DEF Better
  <2>. QED
    BY <1>2, <2>5, <2>6 DEF Dominates
<1>. QED
  BY <1>1, <1>2

LEMMA DominatedByFrontier ==
  ASSUME NEW table, TableOfRates(table), NEW c \in DOMAIN table,
         DominanceStatus(table, c) = "dominated"
  PROVE  \E d \in DOMAIN table : /\ DominanceStatus(table, d) = "frontier"
                                 /\ Dominates(table, d, c)
<1>. DEFINE S == Candidates(table)
            R == {q \in S \X S : Dominates(table, q[1], q[2])}
<1>1. c \in S /\ Dominators(table, c) # {}
  BY DEF DominanceStatus, MissingStatus
<1>2. PICK d0 \in S : Dominates(table, d0, c)
  BY <1>1 DEF Dominators
<1>3. IsFiniteSet(S) /\ S \subseteq DOMAIN table
  BY FS_Subset DEF Candidates, TableOfRates
<1>4. /\ \A x \in S : <<x, x>> \notin R
      /\ \A x, y, z \in S : <<x, y>> \in R /\ <<y, z>> \in R => <<x, z>> \in R
  BY DominationIsAnOrder
<1>5. \A x, y \in S : <<x, y>> \in R <=> Dominates(table, x, y)
  OBVIOUS
<1>. HIDE DEF R, S
<1>6. PICK d \in S : <<d, c>> \in R /\ \A e \in S : <<e, d>> \notin R
  BY <1>1, <1>2, <1>3, <1>4, <1>5, SomethingIsGreatest
<1>7. Dominates(table, d, c) /\ Dominators(table, d) = {}
  BY <1>1, <1>5, <1>6 DEF Dominators, S
<1>8. DominanceStatus(table, d) = "frontier"
  BY <1>7 DEF DominanceStatus, S
<1>. QED
  BY <1>3, <1>7, <1>8

LEMMA ReportIsTable ==
  ASSUME IInv, NEW f PROVE TableOfRates(QualityByCell(f))
<1>. DEFINE T == QualityByCell(f)
            of(c) == {i \in Selected(f) : Cell(i) = c}
            cell == [i \in Selected(f) |-> Cell(i)]
<1>1. Selected(f) \subseteq terminal
  BY DEF Selected
<1>2. IsFiniteSet(Selected(f))
  BY <1>1, TerminalIsFinite, FS_Subset
<1>3. /\ DOMAIN T = {cell[i] : i \in Selected(f)}
      /\ \A c \in DOMAIN T : T[c] = Bucket(f, of(c)) /\ of(c) \in SUBSET terminal
  BY <1>1 DEF QualityByCell
<1>. HIDE DEF T, cell, of
<1>4. IsFiniteSet(DOMAIN T)
  BY <1>2, <1>3, ImageIsFinite
<1>5. ASSUME NEW c \in DOMAIN T
      PROVE  /\ IsRate(T[c].pass_rate) /\ IsRate(T[c].win_rate)
             /\ IsRate(T[c].cost) /\ IsRate(T[c].latency)
  BY <1>3, BucketHasRates
<1>. QED
  BY <1>4, <1>5 DEF TableOfRates, T

\* A row that is called dominated is dominated by one on the frontier, in every
\* report of every state.
THEOREM DominatedRowsAreBeaten == Spec => []FrontierIsSound
<1>1. IInv => FrontierIsSound
  BY ReportIsTable, DominatedByFrontier DEF FrontierIsSound
<1>. QED
  BY <1>1, SpecResults, PTL
-----------------------------------------------------------------------------
(***************************************************************************)
(* Filters.                                                                *)
(***************************************************************************)
FilterOf(k) == <<"case", "model", "prompt">>[k]

\* g asks what f does, of the rows with one value of a dimension.
Narrows(f, g, k, value) ==
  /\ k \in 1 .. 3 /\ g.source = f.source /\ g.reviewer = f.reviewer
  /\ Selected(g) = {i \in Selected(f) : ledger[i][FilterOf(k)] = value}

LEMMA FilterNarrows ==
  ASSUME IInv, NEW f \in Filters, NEW k \in 1 .. 3, f[FilterOf(k)] = Any,
         NEW value \in {ledger[i][FilterOf(k)] : i \in Rows}
  PROVE  Narrows(f, [f EXCEPT ![FilterOf(k)] = value], k, value)
<1>. DEFINE dim == FilterOf(k)
            g == [f EXCEPT ![dim] = value]
<1>1. dim \in Dimensions /\ dim # "source" /\ dim # "reviewer"
  BY DEF FilterOf, Dimensions
<1>2. DOMAIN f = Dimensions \cup {"source", "reviewer"}
  BY ResultsAssumption
<1>. HIDE DEF dim
<1>3. g[dim] = value /\ \A x \in DOMAIN f \ {dim} : g[x] = f[x]
  BY <1>1, <1>2
<1>4. g.source = f.source /\ g.reviewer = f.reviewer
  BY <1>1, <1>2, <1>3
<1>5. value # Any
  BY <1>1, RowsAre DEF IInv, dim
<1>. HIDE DEF g
<1>6. ASSUME NEW i
      PROVE  (\A x \in Dimensions : g[x] \in {Any, ledger[i][x]})
             <=> /\ \A x \in Dimensions : f[x] \in {Any, ledger[i][x]}
                 /\ ledger[i][dim] = value
  BY <1>1, <1>2, <1>3, <1>5 DEF dim
<1>7. Selected(g) = {i \in Selected(f) : ledger[i][dim] = value}
  BY <1>6 DEF Selected
<1>. QED
  BY <1>4, <1>7 DEF Narrows, g, dim

\* Such a filter leaves the scores of a row as they were.
LEMMA SameEvidence ==
  ASSUME NEW f, NEW g, g.source = f.source, g.reviewer = f.reviewer, NEW A
  PROVE  /\ Evidence(g, A) = Evidence(f, A) /\ FailureTags(g, A) = FailureTags(f, A)
         /\ Bucket(g, A) = Bucket(f, A)
<1>1. Evidence(g, A) = Evidence(f, A)
  BY DEF Evidence, Matches
<1>2. FailureTags(g, A) = FailureTags(f, A)
  BY <1>1 DEF FailureTags
<1>3. \A o : Graded(g, A, o) = Graded(f, A, o) /\ Won(g, A, o) = Won(f, A, o)
  BY <1>1 DEF Graded, Won
<1>4. Bucket(g, A) = Bucket(f, A)
  BY <1>2, <1>3 DEF Bucket
<1>. QED
  BY <1>1, <1>2, <1>4

\* One table is the part of another with one value of a dimension.
PartOf(some, all, k, value) ==
  /\ k \in 1 .. 3
  /\ \A c \in DOMAIN all : c = <<c[1], c[2], c[3], c[4]>>
  /\ DOMAIN some = {c \in DOMAIN all : c[k] = value}
  /\ \A c \in DOMAIN some : some[c] = all[c]

LEMMA TableNarrows ==
  ASSUME NEW f, NEW g, NEW k, NEW value, Narrows(f, g, k, value)
  PROVE  PartOf(QualityByCell(g), QualityByCell(f), k, value)
<1>. DEFINE of(h, c) == {i \in Selected(h) : Cell(i) = c}
<1>1. k \in 1 .. 3 /\ \A i : Cell(i)[k] = ledger[i][FilterOf(k)]
  BY DEF Narrows, Cell, FilterOf
<1>2. ASSUME NEW c, c[k] = value PROVE of(g, c) = of(f, c)
  BY <1>1, <1>2 DEF Narrows
<1>3. ASSUME NEW h
      PROVE  /\ DOMAIN QualityByCell(h) = {Cell(i) : i \in Selected(h)}
             /\ \A c \in DOMAIN QualityByCell(h) : QualityByCell(h)[c] = Bucket(h, of(h, c))
  BY DEF QualityByCell
<1>4. {Cell(i) : i \in Selected(g)} = {c \in {Cell(i) : i \in Selected(f)} : c[k] = value}
  BY <1>1 DEF Narrows
<1>5. \A i : Cell(i) = <<Cell(i)[1], Cell(i)[2], Cell(i)[3], Cell(i)[4]>>
  BY DEF Cell
<1>. HIDE DEF of
<1>6. ASSUME NEW c \in DOMAIN QualityByCell(g) PROVE QualityByCell(g)[c] = QualityByCell(f)[c]
  <2>1. c[k] = value /\ c \in DOMAIN QualityByCell(f)
    BY <1>3, <1>4
  <2>2. of(g, c) = of(f, c)
    BY <1>2, <2>1
  <2>3. Bucket(g, of(f, c)) = Bucket(f, of(f, c))
    BY SameEvidence DEF Narrows
  <2>. QED
    BY <1>3, <2>1, <2>2, <2>3
<1>7. ASSUME NEW c \in DOMAIN QualityByCell(f) PROVE c = <<c[1], c[2], c[3], c[4]>>
  <2>. PICK i \in Selected(f) : c = Cell(i)
    BY <1>3
  <2>. QED
    BY <1>5
<1>8. DOMAIN QualityByCell(g) = {c \in DOMAIN QualityByCell(f) : c[k] = value}
  BY <1>3, <1>4
<1>. QED
  BY <1>1, <1>6, <1>7, <1>8 DEF PartOf

LEMMA LiftNarrows ==
  ASSUME NEW all, NEW some, NEW k, NEW value, PartOf(some, all, k, value)
  PROVE  LiftRows(some) = {r \in LiftRows(all) : r.cell[k] = value}
<1>1. ASSUME NEW c \in DOMAIN some PROVE Lift(some, c) = Lift(all, c)
  <2>1. BaselineCell(c)[k] = c[k] /\ c[k] = value
    BY DEF PartOf, BaselineCell
  <2>2. BaselineCell(c) \in DOMAIN some <=> BaselineCell(c) \in DOMAIN all
    BY <2>1 DEF PartOf
  <2>3. BaselineCell(c) \in DOMAIN some => some[BaselineCell(c)] = all[BaselineCell(c)]
    BY DEF PartOf
  <2>4. some[c] = all[c]
    BY DEF PartOf
  <2>. QED
    BY <2>2, <2>3, <2>4 DEF Lift
<1>2. \A table, c : Lift(table, c).cell = c
  BY DEF Lift
<1>3. \A table : LiftRows(table) = {Lift(table, c) : c \in {d \in DOMAIN table : d[4] # NoWarmer}}
  BY DEF LiftRows
<1>4. DOMAIN some = {c \in DOMAIN all : c[k] = value}
  BY DEF PartOf
<1>. QED
  BY <1>1, <1>2, <1>3, <1>4

LEMMA ContextNarrows ==
  ASSUME NEW all, NEW some, NEW k, NEW value, PartOf(some, all, k, value)
  PROVE  ContextRows(some) = {r \in ContextRows(all) : r.group[k] = value}
<1>1. ASSUME NEW h, h[k] = value PROVE ContextRow(some, h) = ContextRow(all, h)
  <2>1. ASSUME NEW c, BaselineCell(c) = h PROVE c[k] = value
    BY <1>1, <2>1 DEF BaselineCell, PartOf
  <2>2. \A c : BaselineCell(c) = h => (c \in DOMAIN some <=> c \in DOMAIN all)
    BY <2>1 DEF PartOf
  <2>3. \A c \in DOMAIN some : some[c] = all[c]
    BY DEF PartOf
  <2>. DEFINE D == {c \in DOMAIN some : BaselineCell(c) = h}
              scored == {c \in D : Metric(some[c]) # "none"}
  <2>4. D = {c \in DOMAIN all : BaselineCell(c) = h}
    BY <2>2
  <2>5. /\ scored = {c \in DOMAIN some : BaselineCell(c) = h /\ Metric(some[c]) # "none"}
        /\ scored = {c \in DOMAIN all : BaselineCell(c) = h /\ Metric(all[c]) # "none"}
    BY <2>2, <2>3
  <2>6. \A c \in D : some[c] = all[c]
    BY <2>3
  <2>7. scored \subseteq D
    OBVIOUS
  <2>8. {some[c].failure_tags : c \in D} = {all[c].failure_tags : c \in D}
    BY <2>6
  <2>. HIDE DEF D, scored
  <2>9. {Metric(some[c]) : c \in scored} = {Metric(all[c]) : c \in scored}
    BY <2>6, <2>7
  <2>10. ScoredWarmers(some, h) = ScoredWarmers(all, h) /\ ScoredWarmers(some, h) \subseteq D
    BY <2>5, <2>7, <2>9 DEF ScoredWarmers
  <2>11. {Quality(some[c]) : c \in ScoredWarmers(some, h)} =
           {Quality(all[c]) : c \in ScoredWarmers(all, h)}
    BY <2>6, <2>10
  <2>. QED
    BY <2>4, <2>8, <2>11 DEF ContextRow, D
<1>2. \A table, h : ContextRow(table, h).group = h
  BY DEF ContextRow
<1>3. \A table : ContextRows(table) = {ContextRow(table, BaselineCell(c)) : c \in DOMAIN table}
  BY DEF ContextRows
<1>4. DOMAIN some = {c \in DOMAIN all : c[k] = value} /\ \A c : BaselineCell(c)[k] = c[k]
  BY DEF PartOf, BaselineCell
<1>. QED
  BY <1>1, <1>2, <1>3, <1>4

\* Rows dominate rows of their case only.
LEMMA StatusNarrows ==
  ASSUME NEW all, NEW some, NEW value, PartOf(some, all, 1, value)
  PROVE  StatusRows(some) = {r \in StatusRows(all) : r[1][1] = value}
<1>1. /\ DOMAIN some = {c \in DOMAIN all : c[1] = value}
      /\ \A c \in DOMAIN some : some[c] = all[c]
  BY DEF PartOf
<1>2. Candidates(some) = {c \in Candidates(all) : c[1] = value}
  BY <1>1 DEF Candidates
<1>3. ASSUME NEW c \in DOMAIN some PROVE DominanceStatus(some, c) = DominanceStatus(all, c)
  <2>1. c[1] = value /\ some[c] = all[c]
    BY <1>1
  <2>2. \A d \in Candidates(some) : d \in DOMAIN some
    BY DEF Candidates
  <2>3. \A d \in Candidates(some) : Dominates(some, d, c) <=> Dominates(all, d, c)
    BY <1>1, <2>1, <2>2 DEF Dominates
  <2>4. \A d \in Candidates(all) : Dominates(all, d, c) => d \in Candidates(some)
    BY <1>2, <2>1 DEF Dominates
  <2>5. Dominators(some, c) = Dominators(all, c)
    BY <1>2, <2>3, <2>4 DEF Dominators
  <2>6. c \in Candidates(some) <=> c \in Candidates(all)
    BY <1>2, <2>1
  <2>. QED
    BY <2>1, <2>5, <2>6 DEF DominanceStatus
<1>4. \A table : StatusRows(table) = {<<c, DominanceStatus(table, c)>> : c \in DOMAIN table}
  BY DEF StatusRows
<1>. QED
  BY <1>1, <1>3, <1>4

\* The rows about one answer need the rows of its group only.
LEMMA SelectedOfGroup ==
  ASSUME NEW f, NEW g, NEW k, NEW value, Narrows(f, g, k, value),
         NEW i, ledger[i][FilterOf(k)] = value
  PROVE  Baselines(g, i) = Baselines(f, i) /\ MatchingBaseline(g, i) = MatchingBaseline(f, i)
<1>1. \A j : Group(j)[k] = ledger[j][FilterOf(k)]
  BY DEF Narrows, Group, FilterOf
<1>2. \A j : Group(j) = Group(i) => ledger[j][FilterOf(k)] = value
  BY <1>1
<1>3. Baselines(g, i) = Baselines(f, i)
  BY <1>2 DEF Baselines, Narrows
<1>. QED
  BY <1>3 DEF MatchingBaseline

LEMMA ClaimNarrows ==
  ASSUME NEW f, NEW g, NEW k, NEW value, Narrows(f, g, k, value),
         NEW i, ledger[i][FilterOf(k)] = value, NEW signal
  PROVE  ClaimRow(g, i, signal) = ClaimRow(f, i, signal)
<1>1. MatchingBaseline(g, i) = MatchingBaseline(f, i)
  BY SelectedOfGroup
<1>2. \A A : Evidence(g, A) = Evidence(f, A)
  BY SameEvidence DEF Narrows
<1>3. \A j : JudgeEvidence(g, j, signal) = JudgeEvidence(f, j, signal)
  BY <1>2 DEF JudgeEvidence
<1>4. \A b : MatchedEvidence(g, b, i, signal) = MatchedEvidence(f, b, i, signal)
  BY <1>3 DEF MatchedEvidence
<1>. QED
  BY <1>1, <1>4 DEF ClaimRow

LEMMA SpreadNarrows ==
  ASSUME NEW f, NEW g, NEW k, NEW value, Narrows(f, g, k, value),
         NEW i, ledger[i][FilterOf(k)] = value
  PROVE  SpreadRow(g, i) = SpreadRow(f, i)
<1>1. MatchingBaseline(g, i) = MatchingBaseline(f, i)
  BY SelectedOfGroup
<1>2. \A A : FailureTags(g, A) = FailureTags(f, A)
  BY SameEvidence DEF Narrows
<1>. QED
  BY <1>1, <1>2 DEF SpreadRow

LEMMA StoredNarrows ==
  ASSUME NEW f, NEW g, NEW k, NEW value, Narrows(f, g, k, value)
  PROVE  StoredRows(g) = {r \in StoredRows(f) : ledger[r.attempt][FilterOf(k)] = value}
<1>. DEFINE Stored(h) == {x \in Evidence(h, Selected(h)) : x.type = "divergence" /\ x.by = "code"}
            Row(s) == DivergenceRow(s.attempt, "stored", "deterministic", s.baseline,
                        s.baseline # NoRow /\ Succeeded(s.attempt) /\ Succeeded(s.baseline), {})
<1>1. \A h : StoredRows(h) = {Row(s) : s \in Stored(h)}
  BY DEF StoredRows
<1>2. \A s : Row(s).attempt = s.attempt
  BY DEF DivergenceRow
<1>3. Stored(g) = {s \in Stored(f) : ledger[s.attempt][FilterOf(k)] = value}
  BY DEF Narrows, Evidence, Matches
<1>. HIDE DEF Stored, Row
<1>. QED
  BY <1>1, <1>2, <1>3

LEMMA WarmedNarrows ==
  ASSUME NEW f, NEW g, NEW k, NEW value, Narrows(f, g, k, value)
  PROVE  Warmed(g) = {i \in Warmed(f) : ledger[i][FilterOf(k)] = value}
BY DEF Narrows, Warmed

LEMMA DivergenceNarrows ==
  ASSUME NEW f, NEW g, NEW k, NEW value, Narrows(f, g, k, value)
  PROVE  DivergenceRows(g) = {r \in DivergenceRows(f) : ledger[r.attempt][FilterOf(k)] = value}
<1>. DEFINE in(i) == ledger[i][FilterOf(k)] = value
            Spreads(h) == {SpreadRow(h, i) : i \in Warmed(h)}
            Claims(h) == {ClaimRow(h, i, signal) : i \in Warmed(h), signal \in Signals}
<1>1. StoredRows(g) = {r \in StoredRows(f) : in(r.attempt)}
  BY StoredNarrows
<1>2. \A h, i : SpreadRow(h, i).attempt = i
  BY DEF SpreadRow, DivergenceRow
<1>3. \A h, i, signal : ClaimRow(h, i, signal).attempt = i
  BY DEF ClaimRow, DivergenceRow
<1>4. Warmed(g) = {i \in Warmed(f) : in(i)}
  BY WarmedNarrows
<1>5. \A i : in(i) => SpreadRow(g, i) = SpreadRow(f, i)
  BY SpreadNarrows
<1>6. \A i, signal : in(i) => ClaimRow(g, i, signal) = ClaimRow(f, i, signal)
  BY ClaimNarrows
<1>. HIDE DEF in
<1>7. Spreads(g) = {r \in Spreads(f) : in(r.attempt)}
  BY <1>2, <1>4, <1>5
<1>8. ASSUME NEW r PROVE r \in Claims(g) <=> r \in Claims(f) /\ in(r.attempt)
  <2>1. ASSUME r \in Claims(g) PROVE r \in Claims(f) /\ in(r.attempt)
    <3>. PICK i \in Warmed(g), signal \in Signals : r = ClaimRow(g, i, signal)
      BY <2>1
    <3>1. i \in Warmed(f) /\ in(i) /\ r = ClaimRow(f, i, signal) /\ r.attempt = i
      BY <1>3, <1>4, <1>6
    <3>. QED
      BY <3>1
  <2>2. ASSUME r \in Claims(f), in(r.attempt) PROVE r \in Claims(g)
    <3>. PICK i \in Warmed(f), signal \in Signals : r = ClaimRow(f, i, signal)
      BY <2>2
    <3>1. r.attempt = i
      BY <1>3
    <3>2. i \in Warmed(g) /\ r = ClaimRow(g, i, signal)
      BY <1>4, <1>6, <2>2, <3>1
    <3>. QED
      BY <3>2
  <2>. QED
    BY <2>1, <2>2
<1>9. \A h : DivergenceRows(h) = StoredRows(h) \cup Spreads(h) \cup Claims(h)
  BY DEF DivergenceRows
<1>. HIDE DEF Spreads, Claims
<1>10. DivergenceRows(g) = {r \in DivergenceRows(f) : in(r.attempt)}
  BY <1>1, <1>7, <1>8, <1>9
<1>. QED
  BY <1>10 DEF in

LEMMA CarryoverNarrows ==
  ASSUME NEW f, NEW g, NEW k, NEW value, Narrows(f, g, k, value)
  PROVE  CarryoverRows(g) = {r \in CarryoverRows(f) : ledger[r.attempt][FilterOf(k)] = value}
<1>1. \A A : Evidence(g, A) = Evidence(f, A)
  BY SameEvidence DEF Narrows
<1>2. ASSUME NEW i PROVE StructuredCarryover(g, i) = StructuredCarryover(f, i)
  <2>1. Evidence(g, {i}) = Evidence(f, {i})
    BY <1>1
  <2>. QED
    BY <2>1, Zenon DEF StructuredCarryover
<1>3. \A i : CarryoverRow(g, i) = CarryoverRow(f, i)
  BY <1>2 DEF CarryoverRow
<1>4. \A i : CarryoverRow(f, i).attempt = i
  BY DEF CarryoverRow
<1>5. Warmed(g) = {i \in Warmed(f) : ledger[i][FilterOf(k)] = value}
  BY WarmedNarrows
<1>6. \A h : CarryoverRows(h) = {CarryoverRow(h, i) : i \in Warmed(h)}
  BY DEF CarryoverRows
<1>. QED
  BY <1>3, <1>4, <1>5, <1>6

\* What a report shows of all and of some of its rows.
Hides(f, g, all, some, k, value) ==
  /\ LiftRows(some) = {r \in LiftRows(all) : r.cell[k] = value}
  /\ ContextRows(some) = {r \in ContextRows(all) : r.group[k] = value}
  /\ DivergenceRows(g) = {r \in DivergenceRows(f) : ledger[r.attempt][FilterOf(k)] = value}
  /\ CarryoverRows(g) = {r \in CarryoverRows(f) : ledger[r.attempt][FilterOf(k)] = value}
  /\ FilterOf(k) = "case" => StatusRows(some) = {r \in StatusRows(all) : r[1][1] = value}

\* A report filtered by case, model or system prompt is the part of the report
\* that it asks for: nothing in a row changes because other rows are hidden.
THEOREM FiltersHideRowsOnly == Spec => []FiltersOnlyRestrict
<1>1. ASSUME NEW f, NEW g, NEW k, NEW value, Narrows(f, g, k, value)
      PROVE  Hides(f, g, QualityByCell(f), QualityByCell(g), k, value)
  <2>. DEFINE all == QualityByCell(f)
              some == QualityByCell(g)
  <2>1. PartOf(some, all, k, value)
    BY <1>1, TableNarrows
  <2>. HIDE DEF all, some
  <2>2. FilterOf(k) = "case" => StatusRows(some) = {r \in StatusRows(all) : r[1][1] = value}
    <3>1. FilterOf(k) = "case" => k = 1
      BY <1>1 DEF FilterOf, Narrows
    <3>. QED
      BY <2>1, <3>1, StatusNarrows
  <2>3. LiftRows(some) = {r \in LiftRows(all) : r.cell[k] = value}
    BY <2>1, LiftNarrows
  <2>4. ContextRows(some) = {r \in ContextRows(all) : r.group[k] = value}
    BY <2>1, ContextNarrows
  <2>5. DivergenceRows(g) =
          {r \in DivergenceRows(f) : ledger[r.attempt][FilterOf(k)] = value}
    BY <1>1, DivergenceNarrows
  <2>6. CarryoverRows(g) = {r \in CarryoverRows(f) : ledger[r.attempt][FilterOf(k)] = value}
    BY <1>1, CarryoverNarrows
  <2>. QED
    BY <2>2, <2>3, <2>4, <2>5, <2>6 DEF Hides, all, some
<1>2. ASSUME IInv PROVE FiltersOnlyRestrict
  <2>. SUFFICES ASSUME NEW f \in Filters, NEW k \in 1 .. 3, f[FilterOf(k)] = Any,
                       NEW value \in {ledger[i][FilterOf(k)] : i \in Rows}
                PROVE  Hides(f, [f EXCEPT ![FilterOf(k)] = value], QualityByCell(f),
                             QualityByCell([f EXCEPT ![FilterOf(k)] = value]), k, value)
    BY Zenon DEF FiltersOnlyRestrict, FilterOf, Hides
  <2>. QED
    BY <1>1, <1>2, FilterNarrows
<1>. QED
  BY <1>2, SpecResults, PTL
=============================================================================
