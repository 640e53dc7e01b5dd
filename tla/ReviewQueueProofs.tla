------------------------- MODULE ReviewQueueProofs -------------------------
(***************************************************************************)
(* What is proved of ReviewQueue, for any number of requests, reviewers    *)
(* and items.  The inductive invariant adds two facts to the types: the    *)
(* scores a session has read for replacement or stamping are those of its  *)
(* own item and reviewer, so that no commit takes another reviewer's; and  *)
(* a session that has flushed a new set is the only one, while there is    *)
(* none.                                                                   *)
(***************************************************************************)
EXTENDS ReviewQueue, FiniteSetTheorems, TLAPS

Deciding == {"select_prior", "flush_decision", "submit", "commit_decision"}

\* A session's reads are of what it was asked for.
SessionOK(s) ==
  /\ pc[s] \in Deciding =>
       /\ req[s].kind \in {"item", "assignment"}
       /\ req[s].item \in Items /\ req[s].by \in Reviewers /\ req[s].winner \in Winners
  /\ pc[s] \notin Deciding => view[s].prior = {} /\ view[s].stamps = {}
  /\ \A x \in view[s].prior \cup view[s].stamps :
       x.item = req[s].item /\ x.by = req[s].by
  /\ view[s].creating => pc[s] \notin Deciding \cup {"idle"} /\ req[s].title \in Titles
  /\ pc[s] = "flush_set" => view[s].creating
  /\ pc[s] = "insert_reviewer" => req[s].item \in Reviewers

\* s has inserted the set, and not committed it.
Inserted(s) == view[s].creating /\ pc[s] # "flush_set"

CreateInv ==
  \A s \in Sessions : Inserted(s) => set = NoSet /\ \A t \in Sessions : Inserted(t) => t = s

SessionInv == \A s \in Sessions : SessionOK(s)

IInv == TypeOK /\ SessionInv /\ CreateInv /\ RecordedDecisionsAreScored
-----------------------------------------------------------------------------
\* Two answers make at least one row for a decision to write.
LEMMA ItemsHaveAnswers == \A i \in Items : Answers[i] # {}
  BY ReviewAssumption, FS_EmptySet

\* Nothing is open at the start.
LEMMA InitInv == Init => IInv
<1> SUFFICES ASSUME Init PROVE IInv
  OBVIOUS
<1>1. TypeOK
  BY ReviewAssumption
     DEF Init, TypeOK, NoAssignment, NoDecision, NoRequest, Unread, Assignment, Decision,
         Choice, Request, View, Labels
<1>2. SessionInv /\ CreateInv
  BY DEF Init, SessionInv, SessionOK, CreateInv, Inserted, Unread, Deciding
<1>3. RecordedDecisionsAreScored
  BY DEF Init, RecordedDecisionsAreScored, NoAssignment
<1> QED BY <1>1, <1>2, <1>3 DEF IInv

\* The end of a request leaves its session as it was at the start.
LEMMA EndKeeps ==
  ASSUME IInv, NEW s \in Sessions, EndRequest(s)
  PROVE  /\ pc' \in [Sessions -> Labels] /\ req' \in [Sessions -> Request]
         /\ view' \in [Sessions -> View]
         /\ SessionInv'
         /\ \A t \in Sessions : Inserted(t)' => t # s /\ Inserted(t)
<1> USE DEF EndRequest, Goto
<1>1. NoRequest \in Request
  BY ReviewAssumption DEF NoRequest, Request, Choice
<1>2. Unread \in View
  BY DEF Unread, View, Decision, Assignment, NoDecision, NoAssignment, Choice
<1>3. /\ pc' \in [Sessions -> Labels] /\ req' \in [Sessions -> Request]
      /\ view' \in [Sessions -> View]
  BY <1>1, <1>2 DEF IInv, TypeOK, Labels
<1>4. SessionOK(s)'
  BY <1>1, <1>2, <1>3 DEF SessionOK, Unread, IInv, TypeOK, Deciding
<1>5. ASSUME NEW t \in Sessions, t # s
      PROVE  SessionOK(t)' /\ (Inserted(t)' => Inserted(t))
  BY <1>5 DEF SessionOK, Inserted, IInv, SessionInv, TypeOK
<1>6. ~Inserted(s)'
  BY DEF Inserted, Unread, IInv, TypeOK
<1> QED BY <1>3, <1>4, <1>5, <1>6 DEF SessionInv

\* A step that moves one session and no committed row keeps the invariant if
\* it keeps the types and that session's part.
LEMMA QuietKeeps ==
  ASSUME IInv, NEW s \in Sessions, UNCHANGED <<turns, db>>, made' \in Nat,
         pc' \in [Sessions -> Labels], req' \in [Sessions -> Request],
         view' \in [Sessions -> View],
         \A t \in Sessions \ {s} : pc'[t] = pc[t] /\ req'[t] = req[t] /\ view'[t] = view[t],
         SessionOK(s)', Inserted(s)' => Inserted(s)
  PROVE  IInv'
<1>1. TypeOK'
  BY DEF IInv, TypeOK, db
<1>2. SessionInv'
  <2> SUFFICES ASSUME NEW t \in Sessions PROVE SessionOK(t)'
    BY DEF SessionInv
  <2>1. CASE t = s
    BY <2>1
  <2>2. CASE t # s
    BY <2>2 DEF IInv, SessionInv, SessionOK
  <2> QED BY <2>1, <2>2
<1>3. \A t \in Sessions : Inserted(t)' => Inserted(t)
  BY DEF Inserted
<1>4. CreateInv'
  BY <1>3 DEF CreateInv, IInv, db
<1>5. RecordedDecisionsAreScored'
  BY DEF RecordedDecisionsAreScored, Given, IInv, db
<1> QED BY <1>1, <1>2, <1>4, <1>5 DEF IInv
-----------------------------------------------------------------------------
\* A request that ends without a commit keeps the invariant.
LEMMA EndQuietly ==
  ASSUME IInv, NEW s \in Sessions, EndRequest(s), UNCHANGED <<turns, db>>, made' \in Nat
  PROVE  IInv'
<1>1. TypeOK' /\ SessionInv'
  BY EndKeeps DEF TypeOK, IInv, db
<1>2. CreateInv'
  BY EndKeeps DEF CreateInv, IInv, db
<1>3. RecordedDecisionsAreScored'
  BY DEF RecordedDecisionsAreScored, Given, IInv, db
<1> QED BY <1>1, <1>2, <1>3 DEF IInv

\* The loop over the reviewers goes to one of its labels.
LEMMA LoopLabels ==
  ASSUME IInv, NEW s \in Sessions, NEW N, NEW K, LoopReviewers(s, N, K)
  PROVE  /\ pc' \in [Sessions -> Labels]
         /\ pc'[s] \in {"read_assignments", "lookup_reviewer"}
         /\ \A t \in Sessions \ {s} : pc'[t] = pc[t]
  BY DEF LoopReviewers, Goto, Labels, IInv, TypeOK

\* What StartAssigning leaves in the session.
LEMMA StartKeeps ==
  ASSUME IInv, NEW s \in Sessions, NEW N \in SUBSET Reviewers, NEW b \in BOOLEAN,
         StartAssigning(s, N, b)
  PROVE  /\ view' \in [Sessions -> View]
         /\ view'[s].prior = view[s].prior /\ view'[s].stamps = view[s].stamps
         /\ view'[s].creating = b
         /\ \A t \in Sessions \ {s} : view'[t] = view[t]
<1>1. view[s] \in View
  BY DEF IInv, TypeOK
<1>2. [view[s] EXCEPT !.known = N \cap reviewers, !.creating = b] \in View
  BY <1>1 DEF View, IInv, TypeOK
<1>3. view' = [view EXCEPT ![s] = [view[s] EXCEPT !.known = N \cap reviewers, !.creating = b]]
  BY DEF StartAssigning, IInv, TypeOK
<1> QED BY <1>1, <1>2, <1>3 DEF IInv, TypeOK, View

LEMMA AskSetKeeps ==
  ASSUME IInv, NEW s \in Sessions, NEW title \in Titles, NEW names \in SUBSET Reviewers,
         AskSet(s, title, names)
  PROVE  IInv'
<1>1. /\ pc[s] = "idle" /\ made' \in Nat /\ UNCHANGED <<turns, db>>
      /\ req[s] \in Request /\ view[s] \in View /\ SessionOK(s)
  BY DEF AskSet, Counted, IInv, TypeOK, SessionInv
<1>2. CASE EndRequest(s)
  BY <1>1, <1>2, EndQuietly
<1>3. CASE /\ set = NoSet
           /\ Goto(s, "flush_set") /\ view' = [view EXCEPT ![s].creating = TRUE]
           /\ req' = [req EXCEPT ![s].kind = "create", ![s].title = title, ![s].names = names]
  <2>1. /\ pc' \in [Sessions -> Labels] /\ req' \in [Sessions -> Request]
        /\ view' \in [Sessions -> View]
    BY <1>1, <1>3 DEF Goto, IInv, TypeOK, Labels, Request, View
  <2>2. SessionOK(s)' /\ ~Inserted(s)'
    BY <1>1, <1>3, <2>1 DEF Goto, IInv, TypeOK, Request, View, SessionOK, Deciding, Inserted
  <2> QED BY <1>1, <1>3, <2>1, <2>2, QuietKeeps DEF Goto, IInv, TypeOK
<1>4. CASE /\ StartAssigning(s, names, FALSE)
           /\ req' = [req EXCEPT ![s].kind = "assign", ![s].names = names]
  <2>1. /\ pc' \in [Sessions -> Labels]
        /\ pc'[s] \in {"read_assignments", "lookup_reviewer"}
        /\ \A t \in Sessions \ {s} : pc'[t] = pc[t]
    BY <1>4, LoopLabels DEF StartAssigning
  <2>2. req' \in [Sessions -> Request] /\ \A t \in Sessions \ {s} : req'[t] = req[t]
    BY <1>1, <1>4 DEF IInv, TypeOK, Request
  <2>3. SessionOK(s)' /\ ~Inserted(s)'
    BY <1>1, <1>4, <2>1, StartKeeps DEF SessionOK, Deciding, Inserted
  <2> QED BY <1>1, <1>4, <2>1, <2>2, <2>3, StartKeeps, QuietKeeps
<1> QED BY <1>2, <1>3, <1>4 DEF AskSet

LEMMA AskAssignmentsKeeps ==
  ASSUME IInv, NEW s \in Sessions, NEW names \in SUBSET Reviewers, AskAssignments(s, names)
  PROVE  IInv'
<1>1. /\ pc[s] = "idle" /\ UNCHANGED <<turns, db>> /\ made' = made + 1
      /\ StartAssigning(s, names, FALSE)
      /\ req' = [req EXCEPT ![s].kind = "assign", ![s].names = names]
  BY DEF AskAssignments, Counted
<1>a. made' \in Nat /\ req[s] \in Request /\ SessionOK(s)
  BY <1>1 DEF IInv, TypeOK, SessionInv
<1>2. /\ pc' \in [Sessions -> Labels]
      /\ pc'[s] \in {"read_assignments", "lookup_reviewer"}
      /\ \A t \in Sessions \ {s} : pc'[t] = pc[t]
  BY <1>1, LoopLabels DEF StartAssigning
<1>3. req' \in [Sessions -> Request] /\ \A t \in Sessions \ {s} : req'[t] = req[t]
  BY <1>1, <1>a DEF IInv, TypeOK, Request
<1>4. SessionOK(s)' /\ ~Inserted(s)'
  BY <1>1, <1>a, <1>2, StartKeeps DEF SessionOK, Deciding, Inserted
<1> QED BY <1>1, <1>a, <1>2, <1>3, <1>4, StartKeeps, QuietKeeps

\* The lock on the slug: whoever gets past it, while there is no set, is the
\* only one to have inserted it.
LEMMA FlushSetKeeps ==
  ASSUME IInv, NEW s \in Sessions, FlushSet(s)
  PROVE  IInv'
<1>1. /\ pc[s] = "flush_set" /\ WaitsFor(s) = {} /\ UNCHANGED <<turns, db, made>>
      /\ SessionOK(s) /\ req[s] \in Request /\ view[s] \in View /\ view[s].creating
  BY DEF FlushSet, IInv, TypeOK, SessionInv, SessionOK
<1>2. CASE EndRequest(s)
  BY <1>1, <1>2, EndQuietly DEF IInv, TypeOK
<1>3. CASE set = NoSet /\ AfterFlush(s) /\ UNCHANGED req
  <2>1. \A t \in Sessions \ {s} : ~Inserted(t)
    <3> SUFFICES ASSUME NEW t \in Sessions \ {s}, Inserted(t) PROVE FALSE
      OBVIOUS
    <3>1. Needs(s) = {<<"set">>}
      BY <1>1 DEF Needs
    <3>2. <<"set">> \in Holds(t)
      BY DEF Holds, Inserted
    <3> QED BY <1>1, <3>1, <3>2 DEF WaitsFor
  <2>2. /\ pc' \in [Sessions -> Labels] /\ view' \in [Sessions -> View]
        /\ pc'[s] \in {"read_assignments", "lookup_reviewer", "commit_assignments"}
        /\ view'[s].prior = view[s].prior /\ view'[s].stamps = view[s].stamps
        /\ view'[s].creating
        /\ \A t \in Sessions \ {s} : pc'[t] = pc[t] /\ view'[t] = view[t]
    <3>1. CASE Goto(s, "commit_assignments") /\ UNCHANGED view
      BY <1>1, <3>1 DEF Goto, Labels, IInv, TypeOK
    <3>2. CASE StartAssigning(s, req[s].names, TRUE)
      <4>1. req[s].names \in SUBSET Reviewers
        BY <1>1 DEF Request
      <4>2. /\ pc' \in [Sessions -> Labels]
            /\ pc'[s] \in {"read_assignments", "lookup_reviewer"}
            /\ \A t \in Sessions \ {s} : pc'[t] = pc[t]
        BY <3>2, LoopLabels DEF StartAssigning
      <4> QED BY <3>2, <4>1, <4>2, StartKeeps
    <3> QED BY <1>3, <3>1, <3>2 DEF AfterFlush
  <2>3. TypeOK'
    BY <1>1, <1>3, <2>2 DEF IInv, TypeOK, db
  <2>4. SessionInv'
    <3> SUFFICES ASSUME NEW t \in Sessions PROVE SessionOK(t)'
      BY DEF SessionInv
    <3>1. CASE t = s
      BY <1>1, <1>3, <2>2, <3>1 DEF SessionOK, Deciding
    <3>2. CASE t # s
      BY <1>3, <2>2, <3>2 DEF IInv, SessionInv, SessionOK
    <3> QED BY <3>1, <3>2
  <2>5. CreateInv'
    BY <1>1, <1>3, <2>1, <2>2 DEF CreateInv, Inserted, db
  <2>6. RecordedDecisionsAreScored'
    BY <1>1 DEF RecordedDecisionsAreScored, Given, IInv, db
  <2> QED BY <2>3, <2>4, <2>5, <2>6 DEF IInv
<1> QED BY <1>2, <1>3 DEF FlushSet
-----------------------------------------------------------------------------
LEMMA LookupReviewerKeeps ==
  ASSUME IInv, NEW s \in Sessions, LookupReviewer(s)
  PROVE  IInv'
<1>1. /\ pc[s] = "lookup_reviewer" /\ UNCHANGED <<turns, db, made>> /\ made \in Nat
      /\ SessionOK(s) /\ req[s] \in Request /\ view[s] \in View
  BY DEF LookupReviewer, IInv, TypeOK, SessionInv
<1>2. PICK r \in NextUnknown(s) :
        IF r \in reviewers
        THEN /\ view' = [view EXCEPT ![s].known = @ \cup {r}]
             /\ LoopReviewers(s, req[s].names, view[s].known \cup {r})
             /\ UNCHANGED req
        ELSE /\ req' = [req EXCEPT ![s].item = r]
             /\ Goto(s, "insert_reviewer") /\ UNCHANGED view
  BY DEF LookupReviewer
<1>3. r \in Reviewers /\ r \in Nat
  BY <1>1, ReviewAssumption DEF NextUnknown, Request
<1>4. CASE /\ view' = [view EXCEPT ![s].known = @ \cup {r}]
           /\ LoopReviewers(s, req[s].names, view[s].known \cup {r})
           /\ UNCHANGED req
  <2>1. view' \in [Sessions -> View]
    BY <1>1, <1>3, <1>4 DEF View, IInv, TypeOK
  <2>2. SessionOK(s)' /\ (Inserted(s)' => Inserted(s))
    BY <1>1, <1>4, <2>1, LoopLabels DEF SessionOK, Inserted, Deciding, IInv, TypeOK, View
  <2> QED BY <1>1, <1>4, <2>1, <2>2, LoopLabels, QuietKeeps DEF IInv, TypeOK
<1>5. CASE /\ req' = [req EXCEPT ![s].item = r]
           /\ Goto(s, "insert_reviewer") /\ UNCHANGED view
  <2>1. pc' \in [Sessions -> Labels] /\ req' \in [Sessions -> Request]
    BY <1>1, <1>3, <1>5 DEF Goto, Labels, Request, IInv, TypeOK
  <2>2. SessionOK(s)' /\ (Inserted(s)' => Inserted(s))
    BY <1>1, <1>3, <1>5, <2>1 DEF Goto, SessionOK, Inserted, Deciding, IInv, TypeOK, Request
  <2> QED BY <1>1, <1>5, <2>1, <2>2, QuietKeeps DEF Goto, IInv, TypeOK
<1> QED BY <1>2, <1>4, <1>5

LEMMA InsertReviewerKeeps ==
  ASSUME IInv, NEW s \in Sessions, InsertReviewer(s)
  PROVE  IInv'
<1> DEFINE r == req[s].item
<1>1. /\ pc[s] = "insert_reviewer" /\ UNCHANGED <<turns, db, made>> /\ made \in Nat
      /\ SessionOK(s) /\ req[s] \in Request /\ view[s] \in View
  BY DEF InsertReviewer, IInv, TypeOK, SessionInv
<1>2. CASE EndRequest(s)
  BY <1>1, <1>2, EndQuietly
<1>3. CASE /\ view' = [view EXCEPT ![s].known = @ \cup {r}, ![s].created = @ \cup {r}]
           /\ req' = [req EXCEPT ![s].item = 0]
           /\ LoopReviewers(s, req[s].names, view[s].known \cup {r})
  <2>1. view' \in [Sessions -> View] /\ req' \in [Sessions -> Request]
    <3>1. r \in Reviewers
      BY <1>1 DEF SessionOK
    <3>2. [view[s] EXCEPT !.known = @ \cup {r}, !.created = @ \cup {r}] \in View
      BY <1>1, <3>1 DEF View
    <3>3. [req[s] EXCEPT !.item = 0] \in Request
      BY <1>1 DEF Request
    <3>4. view' \in [Sessions -> View]
      BY <1>3, <3>2 DEF IInv, TypeOK
    <3> QED BY <1>3, <3>3, <3>4 DEF IInv, TypeOK
  <2>2. SessionOK(s)' /\ (Inserted(s)' => Inserted(s))
    BY <1>1, <1>3, <2>1, LoopLabels, SMTT(30)
       DEF SessionOK, Inserted, Deciding, IInv, TypeOK, View, Request
  <2> QED BY <1>1, <1>3, <2>1, <2>2, LoopLabels, QuietKeeps DEF IInv, TypeOK
<1> QED BY <1>2, <1>3 DEF InsertReviewer

LEMMA ReadAssignmentsKeeps ==
  ASSUME IInv, NEW s \in Sessions, ReadAssignments(s)
  PROVE  IInv'
<1>1. /\ pc[s] = "read_assignments" /\ UNCHANGED <<turns, db, made, req>> /\ made \in Nat
      /\ SessionOK(s) /\ req[s] \in Request /\ view[s] \in View
  BY DEF ReadAssignments, IInv, TypeOK, SessionInv
<1>2. {p \in Items \X req[s].names : assigned[p[1]][p[2]] # NoAssignment}
        \subseteq Items \X Reviewers
  BY <1>1 DEF Request
<1>3. pc' \in [Sessions -> Labels] /\ view' \in [Sessions -> View]
  BY <1>1, <1>2 DEF ReadAssignments, Goto, Labels, View, IInv, TypeOK
<1>4. SessionOK(s)' /\ (Inserted(s)' => Inserted(s))
  BY <1>1, <1>3 DEF ReadAssignments, Goto, SessionOK, Inserted, Deciding, IInv, TypeOK, View
<1> QED BY <1>1, <1>3, <1>4, QuietKeeps DEF ReadAssignments, Goto, IInv, TypeOK

\* Only the session that inserted the set gives it a title, and none of the
\* assignments written is a submitted one.
LEMMA CommitAssignmentsKeeps ==
  ASSUME IInv, NEW s \in Sessions, CommitAssignments(s)
  PROVE  IInv'
<1>1. /\ pc[s] = "commit_assignments" /\ EndRequest(s)
      /\ UNCHANGED <<turns, decision, scores, made>>
      /\ SessionOK(s) /\ req[s] \in Request /\ view[s] \in View
  BY DEF CommitAssignments, IInv, TypeOK, SessionInv
<1>2. CASE UNCHANGED <<set, reviewers, assigned>>
  BY <1>1, <1>2, EndQuietly DEF db, IInv, TypeOK
<1>3. CASE /\ AreUnique(s)
           /\ set' = IF view[s].creating THEN req[s].title ELSE set
           /\ reviewers' = reviewers \cup view[s].created
           /\ assigned' = [i \in Items |-> [r \in Reviewers |->
                            IF <<i, r>> \in Missing(s)
                            THEN [status |-> "pending", winner |-> "none"]
                            ELSE assigned[i][r]]]
  <2>1. assigned' \in [Items -> [Reviewers -> Assignment]]
    BY <1>3 DEF Assignment, Choice, IInv, TypeOK
  <2>2. set' \in Titles \cup {NoSet} /\ reviewers' \subseteq Reviewers
    BY <1>1, <1>3 DEF IInv, TypeOK, View, SessionOK
  <2>3. TypeOK' /\ SessionInv'
    BY <1>1, <2>1, <2>2, EndKeeps DEF TypeOK, IInv
  <2>4. CreateInv'
    <3> SUFFICES ASSUME NEW t \in Sessions, Inserted(t)'
                 PROVE  set' = NoSet /\ \A u \in Sessions : Inserted(u)' => u = t
      BY DEF CreateInv
    <3>1. Inserted(t) /\ t # s
      BY <1>1, EndKeeps
    <3>2. set = NoSet /\ \A u \in Sessions : Inserted(u) => u = t
      BY <3>1 DEF CreateInv, IInv
    <3>3. ~view[s].creating
      BY <1>1, <3>1, <3>2 DEF Inserted
    <3> QED BY <1>1, <1>3, <3>2, <3>3, EndKeeps
  <2>5. RecordedDecisionsAreScored'
    <3>1. \A i \in Items, r \in Reviewers :
            assigned'[i][r].status = "submitted" => assigned[i][r].status = "submitted"
      BY <1>3
    <3> QED BY <1>1, <3>1 DEF RecordedDecisionsAreScored, Given, IInv
  <2> QED BY <2>3, <2>4, <2>5 DEF IInv
<1> QED BY <1>2, <1>3 DEF CommitAssignments
-----------------------------------------------------------------------------
LEMMA AskDecisionKeeps ==
  ASSUME IInv, NEW s \in Sessions, NEW kind \in {"item", "assignment"},
         NEW i \in Decided, NEW r \in Reviewers, NEW w \in Winners,
         AskDecision(s, kind, i, r, w)
  PROVE  IInv'
<1>1. /\ pc[s] = "idle" /\ UNCHANGED <<turns, db>> /\ made \in Nat /\ made' = made + 1
      /\ SessionOK(s) /\ req[s] \in Request /\ view[s] \in View /\ i \in Items /\ i \in Nat
  BY ReviewAssumption DEF AskDecision, Counted, IInv, TypeOK, SessionInv
<1>2. /\ req' = [req EXCEPT ![s] = [@ EXCEPT !.kind = kind, !.item = i, !.by = r,
                                             !.winner = w, !.id = made + 1]]
      /\ view' = [view EXCEPT ![s].decision = decision[i], ![s].assignment = assigned[i][r]]
      /\ pc' = [pc EXCEPT ![s] = "select_prior"]
  BY DEF AskDecision, Counted, Goto
<1>3. decision[i] \in Decision /\ assigned[i][r] \in Assignment
  BY <1>1 DEF IInv, TypeOK
<1>4. pc' \in [Sessions -> Labels]
  BY <1>2 DEF Labels, IInv, TypeOK
<1>5. req' \in [Sessions -> Request]
  <2> DEFINE q == [req[s] EXCEPT !.kind = kind, !.item = i, !.by = r,
                                 !.winner = w, !.id = made + 1]
  <2>1. made + 1 \in Nat /\ w \in Choice
    BY <1>1 DEF Choice
  <2>2. q \in Request
    BY <1>1, <2>1 DEF Request
  <2>3. req' = [req EXCEPT ![s] = q]
    BY <1>2 DEF IInv, TypeOK
  <2> QED BY <2>2, <2>3 DEF IInv, TypeOK
<1>6. view' \in [Sessions -> View]
  BY <1>1, <1>2, <1>3 DEF View, IInv, TypeOK
<1>7. SessionOK(s)' /\ ~Inserted(s)'
  <2>1. /\ pc'[s] = "select_prior" /\ view'[s].prior = {} /\ view'[s].stamps = {}
        /\ ~view'[s].creating
    BY <1>1, <1>2 DEF IInv, TypeOK, View, SessionOK, Deciding
  <2>2. /\ req'[s].kind = kind /\ req'[s].item = i /\ req'[s].by = r /\ req'[s].winner = w
    BY <1>1, <1>2 DEF IInv, TypeOK, Request
  <2> QED BY <1>1, <2>1, <2>2 DEF SessionOK, Inserted, Deciding
<1> QED BY <1>1, <1>2, <1>4, <1>5, <1>6, <1>7, QuietKeeps DEF IInv, TypeOK

LEMMA SelectPriorKeeps ==
  ASSUME IInv, NEW s \in Sessions, SelectPrior(s)
  PROVE  IInv'
<1>1. /\ pc[s] = "select_prior" /\ UNCHANGED <<turns, db, made, req>> /\ made \in Nat
      /\ SessionOK(s) /\ view[s] \in View
  BY DEF SelectPrior, IInv, TypeOK, SessionInv
<1>2. Prior(req[s].item, req[s].by) \subseteq Score
  BY DEF Prior, IInv, TypeOK
<1>3. pc' \in [Sessions -> Labels] /\ view' \in [Sessions -> View]
  BY <1>1, <1>2 DEF SelectPrior, Goto, Labels, View, IInv, TypeOK
<1>4. SessionOK(s)' /\ (Inserted(s)' => Inserted(s))
  BY <1>1, <1>3 DEF SelectPrior, Prior, Goto, SessionOK, Inserted, Deciding, IInv, TypeOK, View
<1> QED BY <1>1, <1>3, <1>4, QuietKeeps DEF SelectPrior, Goto, IInv, TypeOK

LEMMA FlushDecisionKeeps ==
  ASSUME IInv, NEW s \in Sessions, FlushDecision(s)
  PROVE  IInv'
<1>1. /\ pc[s] = "flush_decision" /\ UNCHANGED <<turns, db, made, req, view>> /\ made \in Nat
      /\ SessionOK(s)
  BY DEF FlushDecision, IInv, TypeOK, SessionInv
<1>2. pc' \in [Sessions -> Labels] /\ pc'[s] \in {"submit", "commit_decision"}
  BY <1>1 DEF FlushDecision, Goto, Labels, IInv, TypeOK
<1>3. SessionOK(s)' /\ (Inserted(s)' => Inserted(s))
  BY <1>1, <1>2 DEF SessionOK, Inserted, Deciding
<1> QED BY <1>1, <1>2, <1>3, QuietKeeps DEF FlushDecision, Goto, IInv, TypeOK

LEMMA FlushSubmissionKeeps ==
  ASSUME IInv, NEW s \in Sessions, FlushSubmission(s)
  PROVE  IInv'
<1>1. /\ pc[s] = "submit" /\ UNCHANGED <<turns, db, made, req>> /\ made \in Nat
      /\ SessionOK(s) /\ view[s] \in View
  BY DEF FlushSubmission, IInv, TypeOK, SessionInv
<1>2. Stamps(s) \subseteq Score
  BY DEF Stamps, IInv, TypeOK
<1>3. pc' \in [Sessions -> Labels] /\ view' \in [Sessions -> View]
  BY <1>1, <1>2 DEF FlushSubmission, Goto, Labels, View, IInv, TypeOK
<1>4. SessionOK(s)' /\ (Inserted(s)' => Inserted(s))
  BY <1>1, <1>3
     DEF FlushSubmission, Stamps, Goto, SessionOK, Inserted, Deciding, IInv, TypeOK, View
<1> QED BY <1>1, <1>3, <1>4, QuietKeeps DEF FlushSubmission, Goto, IInv, TypeOK

\* The scores removed are those of the item and the reviewer that get new ones.
LEMMA CommitDecisionKeeps ==
  ASSUME IInv, NEW s \in Sessions, CommitDecision(s)
  PROVE  IInv'
<1>1. /\ pc[s] = "commit_decision" /\ EndRequest(s)
      /\ UNCHANGED <<turns, set, reviewers, made>>
      /\ SessionOK(s) /\ req[s] \in Request /\ view[s] \in View
  BY DEF CommitDecision, IInv, TypeOK, SessionInv
<1>2. PICK i0 \in Items, r0 \in Reviewers :
        i0 = req[s].item /\ r0 = req[s].by /\ req[s].winner \in Winners
  BY <1>1 DEF SessionOK, Deciding
<1>3. CASE UNCHANGED <<scores, decision, assigned>>
  BY <1>1, <1>3, EndQuietly DEF db, IInv, TypeOK
<1>4. CASE /\ view[s].stamps \subseteq scores
           /\ scores' = ((scores \ view[s].prior) \ view[s].stamps)
                          \cup Stamped(view[s].stamps) \cup NewScores(s)
           /\ decision' = IF WritesDecision(s)
                          THEN [decision EXCEPT ![i0] = [by |-> r0, winner |-> req[s].winner]]
                          ELSE decision
           /\ assigned' = IF req[s].kind = "assignment" THEN Submitted(s) ELSE assigned
  <2>1. scores' \subseteq Score
    <3> DEFINE Attempts == UNION {Answers[i] : i \in Items}
    <3>a. Score = [id : Nat, item : Items, attempt : Attempts, by : Reviewers,
                   winner : Winners, stamped : BOOLEAN]
      BY DEF Score
    <3>b. \A a \in Answers[i0] : a \in Attempts
      BY <1>2
    <3>c. req[s].id \in Nat /\ view[s].stamps \subseteq Score
      BY <1>1 DEF Request, View
    <3> HIDE DEF Attempts
    <3>1. NewScores(s) \subseteq Score
      <4>1. ASSUME NEW a \in Answers[i0]
            PROVE  [id |-> req[s].id, item |-> i0, attempt |-> a, by |-> r0,
                    winner |-> req[s].winner, stamped |-> req[s].kind = "assignment"] \in Score
        BY <1>2, <3>a, <3>b, <3>c
      <4> QED BY <1>2, <4>1 DEF NewScores
    <3>2. Stamped(view[s].stamps) \subseteq Score
      <4> SUFFICES ASSUME NEW x \in view[s].stamps PROVE [x EXCEPT !.stamped = TRUE] \in Score
        BY DEF Stamped
      <4>1. x \in Score
        BY <3>c
      <4> QED BY <3>a, <4>1
    <3> QED BY <1>4, <3>1, <3>2 DEF IInv, TypeOK
  <2>2. decision' \in [Items -> Decision]
    BY <1>2, <1>4 DEF Decision, Choice, IInv, TypeOK
  <2>3. assigned' \in [Items -> [Reviewers -> Assignment]]
    <3>1. assigned[i0][r0].winner \in Choice /\ req[s].winner \in Choice
      BY <1>2 DEF Assignment, Choice, IInv, TypeOK
    <3>2. [status |-> "submitted",
           winner |-> IF WritesSnapshot(s) THEN req[s].winner ELSE assigned[i0][r0].winner]
            \in Assignment
      BY <3>1 DEF Assignment
    <3> QED BY <1>2, <1>4, <3>2 DEF Submitted, IInv, TypeOK
  <2>4. TypeOK' /\ SessionInv'
    BY <1>1, <2>1, <2>2, <2>3, EndKeeps DEF TypeOK, IInv
  <2>5. CreateInv'
    BY <1>1, EndKeeps DEF CreateInv, IInv
  <2>6. Given(i0, r0)' # {}
    <3>1. PICK a \in Answers[i0] : TRUE
      BY <1>2, ItemsHaveAnswers
    <3> DEFINE x == [id |-> req[s].id, item |-> req[s].item, attempt |-> a,
                     by |-> req[s].by, winner |-> req[s].winner,
                     stamped |-> req[s].kind = "assignment"]
    <3>2. x \in NewScores(s)
      BY <1>2, <3>1 DEF NewScores
    <3>3. x.item = i0 /\ x.by = r0
      BY <1>2
    <3> HIDE DEF x
    <3> QED BY <1>4, <3>2, <3>3 DEF Given
  <2>7. ASSUME NEW i \in Items, NEW r \in Reviewers, i # i0 \/ r # r0, Given(i, r) # {}
        PROVE  Given(i, r)' # {}
    <3>1. PICK x \in scores : x.item = i /\ x.by = r
      BY <2>7 DEF Given
    <3>2. x \notin view[s].prior \cup view[s].stamps
      BY <1>1, <1>2, <2>7, <3>1 DEF SessionOK
    <3> QED BY <1>4, <3>1, <3>2 DEF Given
  <2>8. RecordedDecisionsAreScored'
    <3>1. ASSUME NEW i \in Items, decision'[i] # NoDecision
          PROVE  \E r \in Reviewers : r = decision'[i].by /\ Given(i, r)' # {}
      <4>1. CASE i = i0 /\ decision'[i].by = r0
        BY <4>1, <2>6
      <4>2. CASE ~(i = i0 /\ decision'[i].by = r0)
        <5>1. decision'[i] = decision[i]
          BY <1>2, <1>4, <4>2 DEF IInv, TypeOK
        <5>2. Given(i, decision[i].by) # {}
          BY <3>1, <5>1 DEF IInv, RecordedDecisionsAreScored
        <5>3. PICK r \in Reviewers : r = decision[i].by
          BY <5>2 DEF IInv, Given, TypeOK, Score
        <5> QED BY <4>2, <5>1, <5>2, <5>3, <2>7
      <4> QED BY <4>1, <4>2
    <3>2. ASSUME NEW i \in Items, NEW r \in Reviewers, assigned'[i][r].status = "submitted"
          PROVE  Given(i, r)' # {}
      <4>1. CASE i = i0 /\ r = r0
        BY <4>1, <2>6
      <4>2. CASE ~(i = i0 /\ r = r0)
        <5>1. assigned'[i][r] = assigned[i][r]
          BY <1>2, <1>4, <4>2 DEF Submitted, IInv, TypeOK
        <5> QED BY <3>2, <4>2, <5>1, <2>7 DEF IInv, RecordedDecisionsAreScored
      <4> QED BY <4>1, <4>2
    <3> QED BY <3>1, <3>2 DEF RecordedDecisionsAreScored
  <2> QED BY <2>4, <2>5, <2>8 DEF IInv
<1> QED BY <1>2, <1>3, <1>4 DEF CommitDecision

LEMMA FailKeeps ==
  ASSUME IInv, NEW s \in Sessions, Fail(s)
  PROVE  IInv'
  BY EndQuietly DEF Fail, IInv, TypeOK

LEMMA StutterKeeps ==
  ASSUME IInv, UNCHANGED vars
  PROVE  IInv'
<1>1. TypeOK' /\ CreateInv' /\ SessionInv'
  BY DEF IInv, vars, db, TypeOK, CreateInv, Inserted, SessionInv, SessionOK
<1>2. RecordedDecisionsAreScored'
  BY DEF IInv, vars, db, RecordedDecisionsAreScored, Given
<1> QED BY <1>1, <1>2 DEF IInv

LEMMA NextInv == IInv /\ [Next]_vars => IInv'
<1> SUFFICES ASSUME IInv, [Next]_vars PROVE IInv'
  OBVIOUS
<1>1. CASE UNCHANGED vars
  BY <1>1, StutterKeeps
<1>2. ASSUME NEW s \in Sessions, Ask(s) PROVE IInv'
  BY <1>2, AskSetKeeps, AskAssignmentsKeeps, AskDecisionKeeps DEF Ask
<1>3. ASSUME NEW s \in Sessions, Assign(s) PROVE IInv'
  BY <1>3, FlushSetKeeps, LookupReviewerKeeps, InsertReviewerKeeps, ReadAssignmentsKeeps,
     CommitAssignmentsKeeps DEF Assign
<1>4. ASSUME NEW s \in Sessions, Decide(s) PROVE IInv'
  BY <1>4, SelectPriorKeeps, FlushDecisionKeeps, FlushSubmissionKeeps, CommitDecisionKeeps
     DEF Decide
<1>5. ASSUME NEW s \in Sessions, Fail(s) PROVE IInv'
  BY <1>5, FailKeeps
<1> QED BY <1>1, <1>2, <1>3, <1>4, <1>5 DEF Next
-----------------------------------------------------------------------------
THEOREM Invariant == Spec => []IInv
BY InitInv, NextInv, PTL DEF Spec

\* Every variable keeps its type.
THEOREM TypeCorrect == Spec => []TypeOK
BY Invariant, PTL DEF IInv

\* However many requests race on however many items, whoever is recorded as
\* having decided an item has scores on it.
THEOREM DecisionsStayScored == Spec => []RecordedDecisionsAreScored
BY Invariant, PTL DEF IInv

\* However many requests race to create it, a review set is never replaced.
THEOREM SetStays == Spec => SetIsNeverReplaced
<1>1. IInv /\ [Next]_vars => [set # NoSet => set' = set]_set
  <2> SUFFICES ASSUME IInv, [Next]_vars, set # NoSet, set' # set PROVE FALSE
    OBVIOUS
  <2>1. PICK s \in Sessions : Ask(s) \/ Assign(s) \/ Decide(s) \/ Fail(s)
    BY DEF Next, vars, db
  <2>a. ~Ask(s)
    BY DEF Ask, AskSet, AskAssignments, AskDecision, db
  <2>b. ~Decide(s) /\ ~Fail(s)
    BY DEF Decide, SelectPrior, FlushDecision, FlushSubmission, CommitDecision, Fail, db
  <2>c. CommitAssignments(s)
    BY <2>1, <2>a, <2>b
       DEF Assign, FlushSet, LookupReviewer, InsertReviewer, ReadAssignments, db
  <2>2. view[s].creating /\ pc[s] = "commit_assignments"
    BY <2>c DEF CommitAssignments
  <2> QED BY <2>2 DEF IInv, CreateInv, Inserted
<1> QED BY <1>1, Invariant, PTL DEF Spec, SetIsNeverReplaced
-----------------------------------------------------------------------------
(***************************************************************************)
(* The scores of one decision stay together, and the vote of a reviewer    *)
(* who takes turns is one.  Both rest on what a session may believe of the *)
(* scores it read: a group it read whole is whole still, unless another    *)
(* session has removed or stamped all of it.                               *)
(***************************************************************************)

\* The scores of one decision are of one item and reviewer, and stamped together.
Alike(sc) ==
  \A x, y \in sc : x.id = y.id => x.item = y.item /\ x.by = y.by /\ x.stamped = y.stamped

\* ComparisonsAreWhole, of any set of scores.
Whole(sc) == \A x \in sc : {y.attempt : y \in {z \in sc : z.id = x.id}} = Answers[x.item]

\* X was read whole: what is left in sc of a decision in X is in X, unless it
\* was stamped since.
Follows(X, sc) ==
  \A x \in X : \A y \in sc :
    y.id = x.id => (x.stamped => y.stamped) /\ (y.stamped = x.stamped => y \in X)

Numbered(X, m) == \A x \in X : x.id <= m
NoneHas(X, id) == \A x \in X : x.id # id
ReadBy(v)      == v.prior \cup v.stamps

ReadOK(v, sc, m) ==
  /\ Follows(v.prior, sc) /\ Follows(v.stamps, sc)
  /\ Numbered(ReadBy(v), m) /\ \A x \in v.stamps : ~x.stamped

\* Nobody has seen the scores of a request that has not been answered.
FreshOK(s) ==
  pc[s] \in Deciding =>
    /\ req[s].id \in Nat /\ req[s].id <= made /\ NoneHas(scores, req[s].id)
    /\ \A t \in Sessions : /\ NoneHas(ReadBy(view[t]), req[s].id)
                           /\ t # s /\ pc[t] \in Deciding => req[t].id # req[s].id

ScoreInv ==
  /\ Whole(scores) /\ Alike(scores) /\ Numbered(scores, made)
  /\ \A s \in Sessions : ReadOK(view[s], scores, made)
  /\ \A s \in Sessions : FreshOK(s)

\* A step after which nobody decides who did not, or on other grounds.
Calm ==
  \A t \in Sessions : pc'[t] \in Deciding =>
    /\ pc[t] \in Deciding /\ req'[t] = req[t] /\ view'[t] = view[t]
    /\ pc[t] = "select_prior" => pc'[t] = "select_prior"
-----------------------------------------------------------------------------
Act(s) == Ask(s) \/ Assign(s) \/ Decide(s) \/ Fail(s)

OthersStay(s) ==
  \A t \in Sessions \ {s} : pc'[t] = pc[t] /\ req'[t] = req[t] /\ view'[t] = view[t]

\* A step moves one session.
LEMMA OneMoves ==
  ASSUME IInv, NEW s \in Sessions, Act(s)
  PROVE  OthersStay(s)
<1> USE DEF IInv, TypeOK, Goto, EndRequest, StartAssigning, LoopReviewers, OthersStay
<1>1. ASSUME Ask(s) PROVE OthersStay(s)
  <2>1. ASSUME NEW names \in SUBSET Reviewers, NEW title \in Titles, AskSet(s, title, names)
        PROVE OthersStay(s)
    BY <2>1 DEF AskSet
  <2>2. ASSUME NEW names \in SUBSET Reviewers, AskAssignments(s, names)
        PROVE OthersStay(s)
    BY <2>2 DEF AskAssignments
  <2>3. ASSUME NEW k, NEW i, NEW r, NEW w, AskDecision(s, k, i, r, w)
        PROVE OthersStay(s)
    BY <2>3 DEF AskDecision
  <2> QED BY <1>1, <2>1, <2>2, <2>3 DEF Ask
<1>2. CASE FlushSet(s)
  BY <1>2 DEF FlushSet, AfterFlush
<1>3. CASE LookupReviewer(s)
  BY <1>3 DEF LookupReviewer
<1>4. CASE InsertReviewer(s)
  BY <1>4 DEF InsertReviewer
<1>5. CASE ReadAssignments(s) \/ CommitAssignments(s)
  BY <1>5 DEF ReadAssignments, CommitAssignments
<1>6. CASE Decide(s) \/ Fail(s)
  BY <1>6 DEF Decide, SelectPrior, FlushDecision, FlushSubmission, CommitDecision, Fail
<1> QED BY <1>1, <1>2, <1>3, <1>4, <1>5, <1>6 DEF Act, Assign

\* Every step but three of a decision's leaves nobody deciding on new grounds.
LEMMA MostAreCalm ==
  ASSUME IInv, NEW s \in Sessions, Act(s),
         ~SelectPrior(s), ~FlushSubmission(s),
         \A k \in {"item", "assignment"}, i \in Decided, r \in Reviewers, w \in Winners :
           ~AskDecision(s, k, i, r, w)
  PROVE  Calm
<1>1. pc'[s] \notin Deciding \/ FlushDecision(s)
  <2> USE DEF IInv, TypeOK, Goto, EndRequest, StartAssigning, LoopReviewers, Deciding
  <2>1. CASE Ask(s)
    <3>1. ASSUME NEW names \in SUBSET Reviewers, NEW title \in Titles, AskSet(s, title, names)
          PROVE  pc'[s] \notin Deciding
      BY <3>1 DEF AskSet
    <3>2. ASSUME NEW names \in SUBSET Reviewers, AskAssignments(s, names)
          PROVE  pc'[s] \notin Deciding
      BY <3>2 DEF AskAssignments
    <3> QED BY <2>1, <3>1, <3>2 DEF Ask
  <2>2. CASE FlushSet(s)
    BY <2>2 DEF FlushSet, AfterFlush
  <2>3. CASE LookupReviewer(s)
    BY <2>3 DEF LookupReviewer
  <2>4. CASE InsertReviewer(s)
    BY <2>4 DEF InsertReviewer
  <2>5. CASE ReadAssignments(s) \/ CommitAssignments(s)
    BY <2>5 DEF ReadAssignments, CommitAssignments
  <2>6. CASE CommitDecision(s) \/ Fail(s)
    BY <2>6 DEF CommitDecision, Fail
  <2> QED BY <2>1, <2>2, <2>3, <2>4, <2>5, <2>6 DEF Act, Assign, Decide
<1>2. FlushDecision(s) =>
        /\ pc[s] = "flush_decision" /\ req'[s] = req[s] /\ view'[s] = view[s]
  BY DEF FlushDecision
<1> QED BY <1>1, <1>2, OneMoves DEF Calm, OthersStay, Deciding

\* Nobody who is not deciding has read a score.
LEMMA OnlyDecidersRead ==
  ASSUME IInv, NEW s \in Sessions, pc[s] \notin Deciding
  PROVE  view[s].prior = {} /\ view[s].stamps = {}
  BY DEF IInv, SessionInv, SessionOK

\* The same of the state after a step.
LEMMA OnlyDecidersReadNext ==
  ASSUME IInv', NEW s \in Sessions, pc'[s] \notin Deciding
  PROVE  view'[s].prior = {} /\ view'[s].stamps = {}
  BY DEF IInv, SessionInv, SessionOK

\* Requests are numbered, and only committing a decision writes scores.
LEMMA WhatActsKeep ==
  ASSUME IInv, NEW s \in Sessions, Act(s)
  PROVE  /\ made \in Nat /\ made' \in Nat /\ made <= made' /\ turns' = turns
         /\ CommitDecision(s) \/ (scores' = scores /\ decision' = decision)
         /\ CommitDecision(s) \/ CommitAssignments(s) \/ assigned' = assigned
<1>1. made \in Nat
  BY DEF IInv, TypeOK
<1>2. made' = made \/ made' = made + 1
  BY DEF Act, Ask, Assign, Decide, AskSet, AskAssignments, AskDecision, Counted, FlushSet,
         LookupReviewer, InsertReviewer, ReadAssignments, CommitAssignments, SelectPrior,
         FlushDecision, FlushSubmission, CommitDecision, Fail
<1>3. /\ turns' = turns
      /\ CommitDecision(s) \/ (scores' = scores /\ decision' = decision)
      /\ CommitDecision(s) \/ CommitAssignments(s) \/ assigned' = assigned
  BY DEF Act, Ask, Assign, Decide, AskSet, AskAssignments, AskDecision, FlushSet,
         LookupReviewer, InsertReviewer, ReadAssignments, CommitAssignments, SelectPrior,
         FlushDecision, FlushSubmission, CommitDecision, Fail, db
<1> QED BY <1>1, <1>2, <1>3
-----------------------------------------------------------------------------
LEMMA InitScores == Init => ScoreInv
<1> SUFFICES ASSUME Init PROVE ScoreInv
  OBVIOUS
<1>1. \A s \in Sessions : pc[s] = "idle" /\ ReadBy(view[s]) = {} /\ view[s] = Unread
  BY DEF Init, Unread, ReadBy
<1>2. \A s \in Sessions : ReadOK(view[s], scores, made)
  BY <1>1 DEF ReadOK, Follows, Numbered, Unread
<1>3. \A s \in Sessions : FreshOK(s)
  BY <1>1 DEF FreshOK, Deciding
<1>4. Whole(scores) /\ Alike(scores) /\ Numbered(scores, made)
  BY DEF Init, Whole, Alike, Numbered
<1> QED BY <1>2, <1>3, <1>4 DEF ScoreInv

\* What was read stays good while the scores do not change.
LEMMA CalmKeepsReads ==
  ASSUME IInv, IInv', ScoreInv, Calm, scores' = scores,
         made \in Nat, made' \in Nat, made <= made'
  PROVE  ScoreInv'
<1>a. \A x \in scores : x.id \in Nat
  BY DEF IInv, TypeOK, Score
<1>b. ASSUME NEW s \in Sessions, NEW x \in ReadBy(view[s]) PROVE x.id \in Nat
  BY <1>b DEF IInv, TypeOK, View, Score, ReadBy
<1>1. Whole(scores') /\ Alike(scores') /\ Numbered(scores', made')
  BY <1>a DEF ScoreInv, Numbered
<1>2. ASSUME NEW s \in Sessions PROVE ReadOK(view'[s], scores', made')
  <2>1. CASE pc'[s] \in Deciding
    <3>1. view'[s] = view[s] /\ ReadOK(view[s], scores, made)
      BY <2>1 DEF Calm, ScoreInv
    <3>2. Numbered(ReadBy(view[s]), made')
      BY <1>b, <3>1 DEF ReadOK, Numbered
    <3> QED BY <3>1, <3>2 DEF ReadOK
  <2>2. CASE pc'[s] \notin Deciding
    BY <2>2, OnlyDecidersReadNext DEF ReadOK, ReadBy, Numbered, Follows
  <2> QED BY <2>1, <2>2
<1>3. ASSUME NEW s \in Sessions PROVE FreshOK(s)'
  <2> SUFFICES ASSUME pc'[s] \in Deciding
               PROVE  /\ req'[s].id \in Nat /\ req'[s].id <= made'
                      /\ NoneHas(scores', req'[s].id)
                      /\ \A t \in Sessions : /\ NoneHas(ReadBy(view'[t]), req'[s].id)
                                             /\ t # s /\ pc'[t] \in Deciding
                                                  => req'[t].id # req'[s].id
    BY DEF FreshOK
  <2>1. pc[s] \in Deciding /\ req'[s] = req[s] /\ FreshOK(s)
    BY DEF Calm, ScoreInv
  <2>2. ASSUME NEW t \in Sessions PROVE NoneHas(ReadBy(view'[t]), req[s].id)
    <3>1. CASE pc'[t] \in Deciding
      BY <2>1, <3>1 DEF Calm, FreshOK
    <3>2. CASE pc'[t] \notin Deciding
      BY <3>2, OnlyDecidersReadNext DEF NoneHas, ReadBy
    <3> QED BY <3>1, <3>2
  <2>3. ASSUME NEW t \in Sessions, t # s, pc'[t] \in Deciding PROVE req'[t].id # req[s].id
    BY <2>1, <2>3 DEF Calm, FreshOK
  <2> QED BY <2>1, <2>2, <2>3 DEF FreshOK
<1> QED BY <1>1, <1>2, <1>3 DEF ScoreInv

\* A new request has a number nobody has seen.
LEMMA AskDecisionScores ==
  ASSUME IInv, IInv', ScoreInv, NEW s \in Sessions, NEW k, NEW i, NEW r, NEW w,
         AskDecision(s, k, i, r, w), OthersStay(s), scores' = scores
  PROVE  ScoreInv'
<1>1. /\ pc[s] = "idle" /\ made \in Nat /\ made' = made + 1
      /\ view[s].prior = {} /\ view[s].stamps = {}
  BY OnlyDecidersRead DEF AskDecision, Counted, IInv, TypeOK, Deciding
<1>2. /\ req'[s].id = made + 1
      /\ view'[s].prior = {} /\ view'[s].stamps = {}
  <2>1. req[s] \in Request /\ view[s] \in View
    BY DEF IInv, TypeOK
  <2>2. req'[s] = [req[s] EXCEPT !.kind = k, !.item = i, !.by = r, !.winner = w,
                                 !.id = made + 1]
    BY DEF AskDecision, IInv, TypeOK
  <2>3. view'[s] = [view[s] EXCEPT !.decision = decision[i], !.assignment = assigned[i][r]]
    BY DEF AskDecision, IInv, TypeOK
  <2> QED BY <1>1, <2>1, <2>2, <2>3 DEF Request, View
<1>a. \A x \in scores : x.id \in Nat /\ x.id <= made
  BY DEF IInv, TypeOK, Score, ScoreInv, Numbered
<1>b. ASSUME NEW t \in Sessions, NEW x \in ReadBy(view[t]) PROVE x.id \in Nat /\ x.id <= made
  BY <1>b DEF IInv, TypeOK, View, Score, ReadBy, ScoreInv, ReadOK, Numbered
<1>c. \A t \in Sessions : ReadBy(view'[t]) \subseteq ReadBy(view[t])
  BY <1>2 DEF OthersStay, ReadBy
<1>3. Whole(scores') /\ Alike(scores') /\ Numbered(scores', made')
  BY <1>1, <1>a DEF ScoreInv, Numbered
<1>4. ASSUME NEW t \in Sessions PROVE ReadOK(view'[t], scores', made')
  <2>1. Numbered(ReadBy(view'[t]), made')
    BY <1>1, <1>b, <1>c DEF Numbered
  <2>2. CASE t = s
    BY <1>2, <2>1, <2>2 DEF ReadOK, Follows
  <2>3. CASE t # s
    BY <2>1, <2>3 DEF ReadOK, OthersStay, ScoreInv
  <2> QED BY <2>2, <2>3
<1>5. ASSUME NEW t \in Sessions, pc'[t] \in Deciding
      PROVE  /\ req'[t].id \in Nat /\ req'[t].id <= made' /\ NoneHas(scores', req'[t].id)
             /\ \A u \in Sessions : NoneHas(ReadBy(view'[u]), req'[t].id)
  <2>1. CASE t = s
    BY <1>1, <1>2, <1>a, <1>b, <1>c, <2>1 DEF NoneHas
  <2>2. CASE t # s
    <3>1. pc[t] \in Deciding /\ req'[t] = req[t] /\ FreshOK(t)
      BY <1>5, <2>2 DEF OthersStay, ScoreInv
    <3>2. req[t].id \in Nat /\ req[t].id <= made
      BY <3>1 DEF FreshOK
    <3>3. req[t].id <= made'
      BY <1>1, <3>2
    <3>4. \A u \in Sessions : NoneHas(ReadBy(view'[u]), req[t].id)
      BY <1>c, <3>1 DEF FreshOK, NoneHas
    <3> QED BY <3>1, <3>2, <3>3, <3>4 DEF FreshOK
  <2> QED BY <2>1, <2>2
<1>6. ASSUME NEW t \in Sessions, NEW u \in Sessions, u # t,
             pc'[t] \in Deciding, pc'[u] \in Deciding
      PROVE  req'[u].id # req'[t].id
  <2>1. \A v \in Sessions \ {s} : pc'[v] \in Deciding =>
          req'[v] = req[v] /\ FreshOK(v) /\ pc[v] \in Deciding
    BY DEF OthersStay, ScoreInv
  <2>2. \A v \in Sessions \ {s} : pc'[v] \in Deciding => req'[v].id \in Nat /\ req'[v].id <= made
    BY <2>1 DEF FreshOK
  <2>3. CASE t = s \/ u = s
    BY <1>1, <1>2, <1>6, <2>2, <2>3
  <2>4. CASE t # s /\ u # s
    BY <1>6, <2>1, <2>4 DEF FreshOK
  <2> QED BY <2>3, <2>4
<1> QED BY <1>3, <1>4, <1>5, <1>6 DEF ScoreInv, FreshOK

\* A deciding session may read more of the scores there are.
LEMMA ReadingKeeps ==
  ASSUME IInv, ScoreInv, NEW s \in Sessions, OthersStay(s),
         scores' = scores, made' = made, req' = req, pc[s] \in Deciding,
         ReadOK(view'[s], scores, made), ReadBy(view'[s]) \subseteq ReadBy(view[s]) \cup scores
  PROVE  ScoreInv'
<1>1. \A t \in Sessions : ReadOK(view'[t], scores', made')
  BY DEF OthersStay, ScoreInv
<1>2. \A t \in Sessions : ReadBy(view'[t]) \subseteq ReadBy(view[t]) \cup scores
  BY DEF OthersStay
<1>3. \A t \in Sessions : pc'[t] \in Deciding => pc[t] \in Deciding
  BY DEF OthersStay
<1>4. ASSUME NEW t \in Sessions PROVE FreshOK(t)'
  <2> SUFFICES ASSUME pc'[t] \in Deciding
               PROVE  /\ req[t].id \in Nat /\ req[t].id <= made
                      /\ NoneHas(scores, req[t].id)
                      /\ \A u \in Sessions : /\ NoneHas(ReadBy(view'[u]), req[t].id)
                                             /\ u # t /\ pc'[u] \in Deciding
                                                  => req[u].id # req[t].id
    BY DEF FreshOK
  <2>1. pc[t] \in Deciding /\ FreshOK(t)
    BY <1>3 DEF ScoreInv
  <2>2. \A u \in Sessions : NoneHas(ReadBy(view'[u]), req[t].id)
    BY <1>2, <2>1 DEF FreshOK, NoneHas
  <2> QED BY <1>3, <2>1, <2>2 DEF FreshOK
<1> QED BY <1>1, <1>4 DEF ScoreInv

\* A decision is read whole, by its item and reviewer, because every score of
\* it is for an attempt of its item.
LEMMA WholeIsRead ==
  ASSUME ScoreInv, NEW x \in scores PROVE x.attempt \in Answers[x.item]
<1>1. {y.attempt : y \in {z \in scores : z.id = x.id}} = Answers[x.item]
  BY DEF ScoreInv, Whole
<1> QED BY <1>1

LEMMA SelectPriorScores ==
  ASSUME IInv, ScoreInv, NEW s \in Sessions, SelectPrior(s), OthersStay(s)
  PROVE  ScoreInv'
<1> DEFINE X == Prior(req[s].item, req[s].by)
<1>1. /\ pc[s] = "select_prior" /\ scores' = scores /\ made' = made /\ req' = req
      /\ pc[s] \in Deciding
  BY DEF SelectPrior, db, Deciding
<1>2. view'[s].prior = X /\ view'[s].stamps = view[s].stamps
  BY DEF SelectPrior, IInv, TypeOK, View
<1>3. X \subseteq scores
  BY DEF Prior
<1>4. Follows(X, scores)
  <2> SUFFICES ASSUME NEW x \in X, NEW y \in scores, y.id = x.id
               PROVE  y.stamped = x.stamped /\ y \in X
    BY DEF Follows
  <2>1. x \in scores /\ x.item = req[s].item /\ x.by = req[s].by
    BY DEF Prior
  <2>2. y.item = x.item /\ y.by = x.by /\ y.stamped = x.stamped
    BY <2>1 DEF ScoreInv, Alike
  <2>3. y.attempt \in Answers[y.item]
    BY WholeIsRead
  <2> QED BY <2>1, <2>2, <2>3 DEF Prior
<1>5. Numbered(X, made) /\ ReadOK(view[s], scores, made)
  BY <1>3 DEF ScoreInv, Numbered
<1> HIDE DEF X
<1>6. ReadOK(view'[s], scores, made)
  BY <1>2, <1>4, <1>5 DEF ReadOK, ReadBy, Numbered
<1>7. ReadBy(view'[s]) \subseteq ReadBy(view[s]) \cup scores
  BY <1>2, <1>3 DEF ReadBy
<1> QED BY <1>1, <1>6, <1>7, ReadingKeeps

LEMMA FlushSubmissionScores ==
  ASSUME IInv, ScoreInv, NEW s \in Sessions, FlushSubmission(s), OthersStay(s)
  PROVE  ScoreInv'
<1> DEFINE X == Stamps(s)
<1>1. /\ scores' = scores /\ made' = made /\ req' = req /\ pc[s] \in Deciding
  BY DEF FlushSubmission, db, Deciding
<1>2. view'[s].prior = view[s].prior /\ view'[s].stamps = X
  BY DEF FlushSubmission, IInv, TypeOK, View
<1>3. X \subseteq scores /\ \A x \in X : ~x.stamped
  BY DEF Stamps
<1>a. ReadOK(view[s], scores, made)
  BY DEF ScoreInv
<1>4. Follows(X, scores)
  <2> SUFFICES ASSUME NEW x \in X, NEW y \in scores, y.id = x.id
               PROVE  y.stamped = x.stamped /\ y \in X
    BY DEF Follows
  <2>1. /\ x \in scores /\ x \notin view[s].prior /\ x.item = req[s].item /\ x.by = req[s].by
        /\ ~x.stamped
    BY DEF Stamps
  <2>2. y.item = x.item /\ y.by = x.by /\ y.stamped = x.stamped
    BY <2>1 DEF ScoreInv, Alike
  <2>3. y.attempt \in Answers[y.item]
    BY WholeIsRead
  <2>4. y \notin view[s].prior
    BY <1>a, <2>1, <2>2 DEF ReadOK, Follows
  <2> QED BY <2>1, <2>2, <2>3, <2>4 DEF Stamps
<1>5. Numbered(X, made)
  BY <1>3 DEF ScoreInv, Numbered
<1> HIDE DEF X
<1>6. ReadOK(view'[s], scores, made)
  BY <1>2, <1>3, <1>4, <1>5, <1>a DEF ReadOK, ReadBy, Numbered
<1>7. ReadBy(view'[s]) \subseteq ReadBy(view[s]) \cup scores
  BY <1>2, <1>3 DEF ReadBy
<1> QED BY <1>1, <1>6, <1>7, ReadingKeeps
-----------------------------------------------------------------------------
\* What a commit by s makes of a score y that was there: it is as it was, or
\* stamped, and what it replaces is gone.
Became(s, y, x) ==
  /\ x.id = y.id /\ x.item = y.item /\ x.by = y.by /\ x.attempt = y.attempt
  /\ x.winner = y.winner
  /\ \/ y \notin view[s].stamps /\ y \notin view[s].prior /\ x = y
     \/ y \in view[s].stamps /\ x.stamped /\ ~y.stamped

Commits(s) ==
  /\ CommitDecision(s) /\ view[s].stamps \subseteq scores
  /\ scores' = ((scores \ view[s].prior) \ view[s].stamps)
                 \cup Stamped(view[s].stamps) \cup NewScores(s)

\* A commit without an error, and what the others can see of it.
LEMMA CommitOrNothing ==
  ASSUME NEW s \in Sessions, CommitDecision(s)
  PROVE  Commits(s) \/ UNCHANGED <<scores, decision, assigned>>
  BY DEF CommitDecision, Commits

LEMMA NewScoresAre ==
  ASSUME NEW s \in Sessions, NEW x \in NewScores(s)
  PROVE  /\ x.id = req[s].id /\ x.item = req[s].item /\ x.by = req[s].by
         /\ x.winner = req[s].winner /\ x.stamped = (req[s].kind = "assignment")
         /\ x.attempt \in Answers[req[s].item]
  BY DEF NewScores

\* A stamped score is the same otherwise.
LEMMA StampingIs ==
  ASSUME IInv, NEW s \in Sessions, NEW y \in view[s].stamps
  PROVE  LET x == [y EXCEPT !.stamped = TRUE]
         IN  /\ x.id = y.id /\ x.item = y.item /\ x.by = y.by /\ x.attempt = y.attempt
             /\ x.winner = y.winner /\ x.stamped
<1>1. y \in Score
  BY DEF IInv, TypeOK, View
<1> QED BY <1>1 DEF Score

\* After a commit every score is one of the new ones or one there was.
LEMMA CommittedScores ==
  ASSUME IInv, ScoreInv, NEW s \in Sessions, Commits(s), NEW x \in scores'
  PROVE  x \in NewScores(s) \/ \E y \in scores : Became(s, y, x)
<1>1. CASE x \in NewScores(s)
  BY <1>1
<1>2. CASE x \in (scores \ view[s].prior) \ view[s].stamps
  BY <1>2 DEF Became
<1>3. CASE x \in Stamped(view[s].stamps)
  <2>1. PICK y \in view[s].stamps : x = [y EXCEPT !.stamped = TRUE]
    BY <1>3 DEF Stamped
  <2>2. y \in scores /\ ~y.stamped
    BY DEF Commits, ScoreInv, ReadOK
  <2>3. /\ x.id = y.id /\ x.item = y.item /\ x.by = y.by /\ x.attempt = y.attempt
        /\ x.winner = y.winner /\ x.stamped
    BY <2>1, StampingIs
  <2> QED BY <2>2, <2>3 DEF Became
<1> QED BY <1>1, <1>2, <1>3 DEF Commits

\* And every one there was is still there, unless it was replaced.
LEMMA ScoresSurvive ==
  ASSUME IInv, ScoreInv, NEW s \in Sessions, Commits(s), NEW y \in scores,
         y \in view[s].stamps \/ y \notin view[s].prior
  PROVE  \E x \in scores' : Became(s, y, x)
<1>1. CASE y \in view[s].stamps
  <2> DEFINE x == [y EXCEPT !.stamped = TRUE]
  <2>1. x \in scores'
    BY <1>1 DEF Commits, Stamped
  <2>2. /\ x.id = y.id /\ x.item = y.item /\ x.by = y.by /\ x.attempt = y.attempt
        /\ x.winner = y.winner /\ x.stamped
    BY <1>1, StampingIs
  <2>3. ~y.stamped
    BY <1>1 DEF ScoreInv, ReadOK
  <2> HIDE DEF x
  <2> QED BY <1>1, <2>1, <2>2, <2>3 DEF Became
<1>2. CASE y \notin view[s].stamps
  <2>1. y \in scores' /\ Became(s, y, y)
    BY <1>2 DEF Commits, Became
  <2> QED BY <2>1
<1> QED BY <1>1, <1>2

\* What a commit does to one score of a decision it does to all of them.
LEMMA TogetherReplaced ==
  ASSUME ScoreInv, NEW s \in Sessions, NEW y \in scores, NEW z \in scores, y.id = z.id
  PROVE  /\ y \in view[s].prior => z \in view[s].prior
         /\ y \in view[s].stamps => z \in view[s].stamps
<1>1. y.stamped = z.stamped
  BY DEF ScoreInv, Alike
<1>2. Follows(view[s].prior, scores) /\ Follows(view[s].stamps, scores)
  BY DEF ScoreInv, ReadOK
<1> QED BY <1>1, <1>2 DEF Follows

LEMMA CommitKeepsWhole ==
  ASSUME IInv, ScoreInv, NEW s \in Sessions, Commits(s)
  PROVE  Whole(scores')
<1>1. /\ pc[s] \in Deciding /\ NoneHas(scores, req[s].id)
  BY DEF Commits, CommitDecision, ScoreInv, FreshOK, Deciding
<1>a. \A y \in scores : y.id # req[s].id
  BY <1>1 DEF NoneHas
<1> SUFFICES ASSUME NEW x \in scores'
             PROVE  {y.attempt : y \in {z \in scores' : z.id = x.id}} = Answers[x.item]
  BY DEF Whole
<1>2. CASE x \in NewScores(s)
  <2>1. x.id = req[s].id /\ x.item = req[s].item
    BY <1>2, NewScoresAre
  <2>2. {z \in scores' : z.id = x.id} = NewScores(s)
    <3>1. ASSUME NEW z \in scores', z.id = req[s].id PROVE z \in NewScores(s)
      <4>1. ASSUME NEW y \in scores, Became(s, y, z) PROVE FALSE
        BY <3>1, <4>1, <1>a DEF Became
      <4> QED BY <4>1, CommittedScores
    <3>2. \A z \in NewScores(s) : z \in scores' /\ z.id = req[s].id
      BY NewScoresAre DEF Commits
    <3> QED BY <2>1, <3>1, <3>2
  <2>3. {y.attempt : y \in NewScores(s)} = Answers[req[s].item]
    <3>1. \A a \in Answers[req[s].item] : \E y \in NewScores(s) : y.attempt = a
      <4> SUFFICES ASSUME NEW a \in Answers[req[s].item]
                   PROVE  \E y \in NewScores(s) : y.attempt = a
        OBVIOUS
      <4> DEFINE y == [id |-> req[s].id, item |-> req[s].item, attempt |-> a, by |-> req[s].by,
                       winner |-> req[s].winner, stamped |-> req[s].kind = "assignment"]
      <4>1. y \in NewScores(s)
        BY DEF NewScores
      <4>2. y.attempt = a
        OBVIOUS
      <4> QED BY <4>1, <4>2
    <3>2. \A y \in NewScores(s) : y.attempt \in Answers[req[s].item]
      BY NewScoresAre
    <3> QED BY <3>1, <3>2
  <2> QED BY <2>1, <2>2, <2>3
<1>3. ASSUME NEW y \in scores, Became(s, y, x)
      PROVE  {v.attempt : v \in {z \in scores' : z.id = x.id}} = Answers[x.item]
  <2>1. x.id = y.id /\ x.item = y.item /\ x.id # req[s].id
    BY <1>3, <1>a DEF Became
  <2>2. ASSUME NEW z \in scores', z.id = x.id
        PROVE  \E v \in scores : v.id = y.id /\ v.attempt = z.attempt
    <3>1. z \notin NewScores(s)
      BY <2>1, <2>2, NewScoresAre
    <3>2. PICK v \in scores : Became(s, v, z)
      BY <3>1, CommittedScores
    <3> QED BY <2>1, <2>2, <3>2 DEF Became
  <2>3. ASSUME NEW v \in scores, v.id = y.id
        PROVE  \E z \in scores' : z.id = x.id /\ z.attempt = v.attempt
    <3>1. y \in view[s].stamps \/ y \notin view[s].prior
      BY <1>3 DEF Became
    <3>2. v \in view[s].stamps \/ v \notin view[s].prior
      BY <2>3, <3>1, TogetherReplaced
    <3>3. PICK z \in scores' : Became(s, v, z)
      BY <3>2, ScoresSurvive
    <3> QED BY <2>1, <2>3, <3>3 DEF Became
  <2>4. {v.attempt : v \in {z \in scores' : z.id = x.id}}
          = {v.attempt : v \in {z \in scores : z.id = y.id}}
    BY <2>2, <2>3
  <2>5. {v.attempt : v \in {z \in scores : z.id = y.id}} = Answers[y.item]
    BY DEF ScoreInv, Whole
  <2> QED BY <2>1, <2>4, <2>5
<1> QED BY <1>2, <1>3, CommittedScores

LEMMA CommitKeepsAlike ==
  ASSUME IInv, ScoreInv, NEW s \in Sessions, Commits(s)
  PROVE  Alike(scores')
<1>1. \A y \in scores : y.id # req[s].id
  BY DEF Commits, CommitDecision, ScoreInv, FreshOK, Deciding, NoneHas
<1> SUFFICES ASSUME NEW x \in scores', NEW z \in scores', x.id = z.id
             PROVE  x.item = z.item /\ x.by = z.by /\ x.stamped = z.stamped
  BY DEF Alike
<1>2. CASE x \in NewScores(s) /\ z \in NewScores(s)
  BY <1>2, NewScoresAre
<1>3. ASSUME NEW y \in scores, Became(s, y, x) PROVE z \notin NewScores(s)
  BY <1>1, <1>3, NewScoresAre DEF Became
<1>4. ASSUME NEW y \in scores, Became(s, y, z) PROVE x \notin NewScores(s)
  BY <1>1, <1>4, NewScoresAre DEF Became
<1>5. ASSUME NEW y \in scores, NEW v \in scores, Became(s, y, x), Became(s, v, z)
      PROVE  x.item = z.item /\ x.by = z.by /\ x.stamped = z.stamped
  <2>1. y.id = v.id
    BY <1>5 DEF Became
  <2>2. y.item = v.item /\ y.by = v.by /\ y.stamped = v.stamped
    BY <2>1 DEF ScoreInv, Alike
  <2>3. y \in view[s].stamps <=> v \in view[s].stamps
    BY <2>1, TogetherReplaced
  <2>4. x.stamped = z.stamped
    <3>1. CASE y \in view[s].stamps
      <4>1. x.stamped /\ z.stamped
        BY <1>5, <2>3, <3>1 DEF Became
      <4>2. x.stamped \in BOOLEAN /\ z.stamped \in BOOLEAN
        <5>1. scores' \subseteq Score
          BY <1>5, CommitDecisionKeeps DEF Commits, IInv, TypeOK
        <5> QED BY <5>1 DEF Score
      <4> QED BY <4>1, <4>2
    <3>2. CASE y \notin view[s].stamps
      BY <1>5, <2>2, <2>3, <3>2 DEF Became
    <3> QED BY <3>1, <3>2
  <2> QED BY <1>5, <2>2, <2>4 DEF Became
<1> QED BY <1>2, <1>3, <1>4, <1>5, CommittedScores

\* What another session read of a decision is still whole, or is now stamped.
LEMMA CommitKeepsReads ==
  ASSUME IInv, ScoreInv, NEW s \in Sessions, Commits(s), NEW X,
         Follows(X, scores), NoneHas(X, req[s].id)
  PROVE  Follows(X, scores')
<1> SUFFICES ASSUME NEW x \in X, NEW z \in scores', z.id = x.id
             PROVE  (x.stamped => z.stamped) /\ (z.stamped = x.stamped => z \in X)
  BY DEF Follows
<1>1. z \notin NewScores(s)
  BY NewScoresAre DEF NoneHas
<1>2. PICK y \in scores : Became(s, y, z)
  BY <1>1, CommittedScores
<1>3. (x.stamped => y.stamped) /\ (y.stamped = x.stamped => y \in X)
  BY <1>2 DEF Became, Follows
<1>4. CASE z = y
  BY <1>3, <1>4
<1>5. CASE z.stamped /\ ~y.stamped
  BY <1>3, <1>5
<1> QED BY <1>2, <1>4, <1>5 DEF Became

LEMMA CommitDecisionScores ==
  ASSUME IInv, IInv', ScoreInv, NEW s \in Sessions, CommitDecision(s), OthersStay(s), Calm
  PROVE  ScoreInv'
<1>1. /\ made' = made /\ made \in Nat /\ pc[s] \in Deciding /\ pc'[s] = "idle"
      /\ pc'[s] \notin Deciding
  BY DEF CommitDecision, EndRequest, Goto, IInv, TypeOK, Deciding
<1>2. CASE scores' = scores
  BY <1>1, <1>2, CalmKeepsReads
<1>3. CASE Commits(s)
  <2>1. Whole(scores') /\ Alike(scores')
    BY <1>3, CommitKeepsWhole, CommitKeepsAlike
  <2>2. req[s].id <= made /\ FreshOK(s)
    BY <1>1 DEF ScoreInv, FreshOK
  <2>3. ASSUME NEW x \in scores' PROVE x.id = req[s].id \/ \E y \in scores : y.id = x.id
    BY <1>3, CommittedScores, NewScoresAre DEF Became
  <2>4. Numbered(scores', made')
    BY <1>1, <2>2, <2>3 DEF ScoreInv, Numbered
  <2>5. ASSUME NEW t \in Sessions, pc'[t] \in Deciding
        PROVE  /\ t # s /\ pc[t] \in Deciding /\ view'[t] = view[t] /\ req'[t] = req[t]
               /\ FreshOK(t) /\ ReadOK(view[t], scores, made)
    BY <1>1, <2>5 DEF OthersStay, ScoreInv
  <2>6. ASSUME NEW t \in Sessions PROVE ReadOK(view'[t], scores', made')
    <3>1. CASE pc'[t] \in Deciding
      <4>1. NoneHas(view[t].prior, req[s].id) /\ NoneHas(view[t].stamps, req[s].id)
        BY <1>1, <2>2 DEF FreshOK, NoneHas, ReadBy
      <4>2. Follows(view[t].prior, scores') /\ Follows(view[t].stamps, scores')
        BY <1>3, <2>5, <3>1, <4>1, CommitKeepsReads DEF ReadOK
      <4> QED BY <1>1, <2>5, <3>1, <4>2 DEF ReadOK
    <3>2. CASE pc'[t] \notin Deciding
      BY <3>2, OnlyDecidersReadNext DEF ReadOK, ReadBy, Numbered, Follows
    <3> QED BY <3>1, <3>2
  <2>7. ASSUME NEW t \in Sessions PROVE FreshOK(t)'
    <3> SUFFICES ASSUME pc'[t] \in Deciding
                 PROVE  /\ req'[t].id \in Nat /\ req'[t].id <= made'
                        /\ NoneHas(scores', req'[t].id)
                        /\ \A u \in Sessions : /\ NoneHas(ReadBy(view'[u]), req'[t].id)
                                               /\ u # t /\ pc'[u] \in Deciding
                                                    => req'[u].id # req'[t].id
      BY DEF FreshOK
    <3>1. /\ req'[t] = req[t] /\ req[t].id \in Nat /\ req[t].id <= made
          /\ NoneHas(scores, req[t].id) /\ req[s].id # req[t].id
      BY <1>1, <2>5 DEF FreshOK
    <3>2. NoneHas(scores', req[t].id)
      BY <2>3, <3>1 DEF NoneHas
    <3>3. ASSUME NEW u \in Sessions PROVE NoneHas(ReadBy(view'[u]), req[t].id)
      <4>1. CASE pc'[u] \in Deciding
        BY <2>5, <4>1 DEF FreshOK
      <4>2. CASE pc'[u] \notin Deciding
        BY <4>2, OnlyDecidersReadNext DEF NoneHas, ReadBy
      <4> QED BY <4>1, <4>2
    <3>4. ASSUME NEW u \in Sessions, u # t, pc'[u] \in Deciding PROVE req'[u].id # req[t].id
      BY <2>5, <3>4 DEF FreshOK
    <3> QED BY <1>1, <3>1, <3>2, <3>3, <3>4
  <2> QED BY <2>1, <2>4, <2>6, <2>7 DEF ScoreInv
<1> QED BY <1>2, <1>3, CommitOrNothing

LEMMA NextScores == IInv /\ IInv' /\ ScoreInv /\ [Next]_vars => ScoreInv'
<1> SUFFICES ASSUME IInv, IInv', ScoreInv, [Next]_vars PROVE ScoreInv'
  OBVIOUS
<1>1. CASE UNCHANGED vars
  <2>1. Calm /\ made' = made /\ made \in Nat /\ scores' = scores
    BY <1>1 DEF vars, db, Calm, IInv, TypeOK
  <2> QED BY <2>1, CalmKeepsReads
<1>2. ASSUME NEW s \in Sessions, Act(s) PROVE ScoreInv'
  <2>1. /\ made \in Nat /\ made' \in Nat /\ made <= made' /\ OthersStay(s)
        /\ CommitDecision(s) \/ scores' = scores
    BY <1>2, WhatActsKeep, OneMoves
  <2>2. CASE SelectPrior(s) \/ FlushSubmission(s)
    BY <2>1, <2>2, SelectPriorScores, FlushSubmissionScores
  <2>3. ASSUME NEW k \in {"item", "assignment"}, NEW i \in Decided, NEW r \in Reviewers,
               NEW w \in Winners, AskDecision(s, k, i, r, w)
        PROVE  ScoreInv'
    BY <2>1, <2>3, AskDecisionScores DEF AskDecision, db
  <2>4. CASE Calm
    BY <2>1, <2>4, CalmKeepsReads, CommitDecisionScores
  <2> QED BY <1>2, <2>2, <2>3, <2>4, MostAreCalm
<1> QED BY <1>1, <1>2 DEF Next, Act
-----------------------------------------------------------------------------
\* Under turns: whoever decides is the only one to decide as that reviewer, and
\* has read what only that reviewer changes.
AloneOK(s) ==
  pc[s] \in Deciding =>
    /\ \A t \in Sessions : pc[t] \in Deciding /\ req[t].by = req[s].by => t = s
    /\ view[s].stamps = {}
    /\ pc[s] # "select_prior" => view[s].prior = Given(req[s].item, req[s].by)
    /\ decision[req[s].item].by = req[s].by => view[s].decision = decision[req[s].item]
    /\ view[s].assignment.winner = assigned[req[s].item][req[s].by].winner

OneVote ==
  \A x, y \in scores : x.item = y.item /\ x.by = y.by => x.id = y.id

DecisionIsVote ==
  \A i \in Items : \A x \in scores :
    x.item = i /\ x.by = decision[i].by => x.winner = decision[i].winner

StampAgrees ==
  \A x \in scores : x.stamped =>
    assigned[x.item][x.by] = [status |-> "submitted", winner |-> x.winner]

TurnInv ==
  turns => /\ \A s \in Sessions : AloneOK(s)
           /\ OneVote /\ DecisionIsVote /\ StampAgrees

LEMMA InitTurns == Init => TurnInv
  BY DEF Init, TurnInv, AloneOK, OneVote, DecisionIsVote, StampAgrees, Deciding

\* A calm step that leaves decisions, votes and submissions alone keeps turns.
LEMMA CalmKeepsTurns ==
  ASSUME IInv, TurnInv, Calm, turns' = turns, scores' = scores, decision' = decision,
         \A i \in Items, r \in Reviewers :
           /\ assigned'[i][r].winner = assigned[i][r].winner
           /\ assigned[i][r].status = "submitted" => assigned'[i][r] = assigned[i][r]
  PROVE  TurnInv'
<1> SUFFICES ASSUME turns
             PROVE  (\A s \in Sessions : AloneOK(s)') /\ OneVote' /\ DecisionIsVote' /\ StampAgrees'
  BY DEF TurnInv
<1>1. ASSUME NEW s \in Sessions PROVE AloneOK(s)'
  <2> SUFFICES ASSUME pc'[s] \in Deciding PROVE AloneOK(s)'
    BY DEF AloneOK
  <2>1. /\ pc[s] \in Deciding /\ req'[s] = req[s] /\ view'[s] = view[s] /\ AloneOK(s)
        /\ pc[s] = "select_prior" => pc'[s] = "select_prior"
    BY DEF Calm, TurnInv
  <2>2. \A t \in Sessions : pc'[t] \in Deciding => pc[t] \in Deciding /\ req'[t] = req[t]
    BY DEF Calm
  <2>3. req[s].item \in Items /\ req[s].by \in Reviewers
    BY <2>1 DEF IInv, SessionInv, SessionOK
  <2>4. view[s].assignment.winner = assigned'[req[s].item][req[s].by].winner
    BY <2>1, <2>3 DEF AloneOK
  <2>5. \A t \in Sessions : pc'[t] \in Deciding /\ req'[t].by = req[s].by => t = s
    BY <2>1, <2>2 DEF AloneOK
  <2>6. pc'[s] # "select_prior"
          => view[s].prior = {x \in scores' : x.item = req[s].item /\ x.by = req[s].by}
    BY <2>1 DEF AloneOK, Given
  <2> QED BY <2>1, <2>4, <2>5, <2>6 DEF AloneOK, Given
<1>2. OneVote' /\ DecisionIsVote'
  BY DEF TurnInv, OneVote, DecisionIsVote
<1>3. StampAgrees'
  <2> SUFFICES ASSUME NEW x \in scores, x.stamped
               PROVE  assigned'[x.item][x.by] = [status |-> "submitted", winner |-> x.winner]
    BY DEF StampAgrees
  <2>1. x.item \in Items /\ x.by \in Reviewers
    BY DEF IInv, TypeOK, Score
  <2> QED BY <2>1 DEF TurnInv, StampAgrees
<1> QED BY <1>1, <1>2, <1>3

\* Assigning gives rows only where there were none.
LEMMA AssigningKeepsSubmitted ==
  ASSUME IInv, NEW s \in Sessions, CommitAssignments(s), NEW i \in Items, NEW r \in Reviewers
  PROVE  /\ assigned'[i][r].winner = assigned[i][r].winner
         /\ assigned[i][r].status = "submitted" => assigned'[i][r] = assigned[i][r]
<1>1. CASE assigned' = assigned
  BY <1>1
<1>2. CASE /\ AreUnique(s)
           /\ assigned' = [j \in Items |-> [q \in Reviewers |->
                             IF <<j, q>> \in Missing(s)
                             THEN [status |-> "pending", winner |-> "none"]
                             ELSE assigned[j][q]]]
  <2>1. CASE <<i, r>> \in Missing(s)
    <3>1. assigned[i][r] = NoAssignment
      BY <1>2, <2>1 DEF AreUnique
    <3> QED BY <1>2, <2>1, <3>1 DEF NoAssignment
  <2>2. CASE <<i, r>> \notin Missing(s)
    BY <1>2, <2>2
  <2> QED BY <2>1, <2>2
<1> QED BY <1>1, <1>2 DEF CommitAssignments

\* Whoever asks waits for nobody's answer.
LEMMA AskDecisionTurns ==
  ASSUME IInv, TurnInv, NEW s \in Sessions, NEW k \in {"item", "assignment"},
         NEW i \in Decided, NEW r \in Reviewers, NEW w \in Winners,
         AskDecision(s, k, i, r, w), OthersStay(s)
  PROVE  TurnInv'
<1>1. /\ UNCHANGED <<turns, set, reviewers, assigned, decision, scores>> /\ pc[s] = "idle"
      /\ view[s].prior = {} /\ view[s].stamps = {} /\ i \in Items
  BY OnlyDecidersRead, ReviewAssumption DEF AskDecision, db, Deciding
<1> SUFFICES ASSUME turns
             PROVE  (\A t \in Sessions : AloneOK(t)') /\ OneVote' /\ DecisionIsVote' /\ StampAgrees'
  BY <1>1 DEF TurnInv
<1>2. OneVote' /\ DecisionIsVote' /\ StampAgrees'
  BY <1>1 DEF TurnInv, OneVote, DecisionIsVote, StampAgrees
<1>3. \A t \in Sessions : req[t].by # r
  BY DEF AskDecision, Waiting
<1>4. /\ req'[s].by = r /\ req'[s].item = i /\ pc'[s] = "select_prior"
      /\ view'[s].stamps = {} /\ view'[s].decision = decision[i]
      /\ view'[s].assignment = assigned[i][r]
  <2>1. req[s] \in Request /\ view[s] \in View
    BY DEF IInv, TypeOK
  <2>2. req'[s] = [req[s] EXCEPT !.kind = k, !.item = i, !.by = r, !.winner = w,
                                 !.id = made + 1]
    BY DEF AskDecision, IInv, TypeOK
  <2>3. view'[s] = [view[s] EXCEPT !.decision = decision[i], !.assignment = assigned[i][r]]
    BY DEF AskDecision, IInv, TypeOK
  <2>4. pc'[s] = "select_prior"
    BY DEF AskDecision, Goto, IInv, TypeOK
  <2> QED BY <1>1, <2>1, <2>2, <2>3, <2>4 DEF Request, View
<1>5. AloneOK(s)'
  BY <1>1, <1>3, <1>4 DEF AloneOK, OthersStay
<1>6. ASSUME NEW t \in Sessions, t # s PROVE AloneOK(t)'
  BY <1>1, <1>3, <1>4, <1>6 DEF AloneOK, OthersStay, TurnInv, Given
<1> QED BY <1>2, <1>5, <1>6

\* The scores found for replacement are all the reviewer has on the item.
LEMMA PriorIsGiven ==
  ASSUME ScoreInv, NEW i, NEW r
  PROVE  Prior(i, r) = Given(i, r)
<1>1. \A x \in scores : x.attempt \in Answers[x.item]
  BY WholeIsRead
<1> QED BY <1>1 DEF Prior, Given

LEMMA ReadingTurns ==
  ASSUME IInv, ScoreInv, TurnInv, NEW s \in Sessions, OthersStay(s),
         SelectPrior(s) \/ FlushSubmission(s)
  PROVE  TurnInv'
<1>1. UNCHANGED <<turns, assigned, decision, scores, req>> /\ pc[s] \in Deciding
  BY DEF SelectPrior, FlushSubmission, db, Deciding
<1> SUFFICES ASSUME turns
             PROVE  (\A t \in Sessions : AloneOK(t)') /\ OneVote' /\ DecisionIsVote' /\ StampAgrees'
  BY <1>1 DEF TurnInv
<1>2. OneVote' /\ DecisionIsVote' /\ StampAgrees'
  BY <1>1 DEF TurnInv, OneVote, DecisionIsVote, StampAgrees
<1>3. AloneOK(s) /\ view[s].stamps = {}
  BY <1>1 DEF TurnInv, AloneOK
<1>4. /\ view'[s].decision = view[s].decision /\ view'[s].assignment = view[s].assignment
      /\ view'[s].stamps = {} /\ view'[s].prior = Given(req[s].item, req[s].by)
  <2>1. view[s] \in View
    BY DEF IInv, TypeOK
  <2>2. CASE SelectPrior(s)
    <3>1. view'[s] = [view[s] EXCEPT !.prior = Prior(req[s].item, req[s].by)]
      BY <2>2 DEF SelectPrior, IInv, TypeOK
    <3> QED BY <1>3, <2>1, <3>1, PriorIsGiven DEF View
  <2>3. CASE FlushSubmission(s)
    <3>1. view'[s] = [view[s] EXCEPT !.stamps = Stamps(s)]
      BY <2>3 DEF FlushSubmission, IInv, TypeOK
    <3>2. pc[s] = "submit"
      BY <2>3 DEF FlushSubmission
    <3>3. view[s].prior = Given(req[s].item, req[s].by)
      BY <1>1, <1>3, <3>2 DEF AloneOK
    <3>4. Stamps(s) = {}
      BY <3>3 DEF Stamps, Given
    <3> QED BY <2>1, <3>1, <3>3, <3>4 DEF View
  <2> QED BY <2>2, <2>3
<1>5. \A t \in Sessions : pc'[t] \in Deciding => pc[t] \in Deciding
  BY <1>1 DEF OthersStay
<1>6. AloneOK(s)'
  BY <1>1, <1>3, <1>4, <1>5 DEF AloneOK, Given
<1>7. ASSUME NEW t \in Sessions, t # s PROVE AloneOK(t)'
  BY <1>1, <1>5, <1>7 DEF AloneOK, OthersStay, TurnInv, Given
<1> QED BY <1>2, <1>6, <1>7

\* A commit under turns replaces all the reviewer had on the item.
LEMMA CommitDecisionTurns ==
  ASSUME IInv, ScoreInv, TurnInv, NEW s \in Sessions, CommitDecision(s), OthersStay(s), Calm
  PROVE  TurnInv'
<1> DEFINE i0 == req[s].item
           r0 == req[s].by
           w0 == req[s].winner
<1>1. /\ turns' = turns /\ pc[s] = "commit_decision" /\ pc[s] \in Deciding
      /\ pc'[s] = "idle" /\ pc'[s] \notin Deciding
      /\ i0 \in Items /\ r0 \in Reviewers /\ req[s].kind \in {"item", "assignment"}
  BY DEF CommitDecision, EndRequest, Goto, IInv, TypeOK, Deciding, SessionInv, SessionOK
<1>2. CASE UNCHANGED <<scores, decision, assigned>>
  BY <1>1, <1>2, CalmKeepsTurns
<1>3. CASE Commits(s) /\ ~UNCHANGED <<scores, decision, assigned>>
  <2> SUFFICES ASSUME turns
               PROVE  (\A t \in Sessions : AloneOK(t)') /\ OneVote' /\ DecisionIsVote' /\ StampAgrees'
    BY <1>1 DEF TurnInv
  <2>1. /\ AloneOK(s) /\ view[s].stamps = {} /\ view[s].prior = Given(i0, r0)
        /\ decision[i0].by = r0 => view[s].decision = decision[i0]
        /\ view[s].assignment.winner = assigned[i0][r0].winner
    BY <1>1 DEF TurnInv, AloneOK
  <2>2. scores' = (scores \ Given(i0, r0)) \cup NewScores(s)
    BY <1>3, <2>1 DEF Commits, Stamped
  <2>3. \A x \in scores' : x \in NewScores(s) \/ (x \in scores /\ ~(x.item = i0 /\ x.by = r0))
    BY <2>2 DEF Given
  <2>4. \A x \in NewScores(s) : /\ x.id = req[s].id /\ x.item = i0 /\ x.by = r0
                                /\ x.winner = w0 /\ x.stamped = (req[s].kind = "assignment")
    BY NewScoresAre
  <2>a. \A x \in scores : x.item \in Items /\ x.by \in Reviewers
    BY DEF IInv, TypeOK, Score
  <2>5. ASSUME NEW i, NEW r, i # i0 \/ r # r0 PROVE Given(i, r)' = Given(i, r)
    <3>1. \A x : x \in scores' /\ x.item = i /\ x.by = r => x \in scores
      BY <2>3, <2>4, <2>5
    <3>2. \A x : x \in scores /\ x.item = i /\ x.by = r => x \in scores'
      BY <2>2, <2>5 DEF Given
    <3> QED BY <3>1, <3>2 DEF Given
  <2>6. /\ decision'[i0].by = r0 => decision'[i0] = [by |-> r0, winner |-> w0]
        /\ \A i \in Items : i # i0 => decision'[i] = decision[i]
        /\ decision'[i0].by # r0 => decision'[i0] = decision[i0]
    <3>1. decision' = IF WritesDecision(s)
                      THEN [decision EXCEPT ![i0] = [by |-> r0, winner |-> w0]]
                      ELSE decision
      BY <1>3 DEF CommitDecision
    <3>2. CASE WritesDecision(s)
      BY <1>1, <3>1, <3>2 DEF IInv, TypeOK
    <3>3. CASE ~WritesDecision(s)
      BY <2>1, <3>1, <3>3 DEF WritesDecision
    <3> QED BY <3>2, <3>3
  <2>7. /\ \A i \in Items, r \in Reviewers : i # i0 \/ r # r0 => assigned'[i][r] = assigned[i][r]
        /\ req[s].kind = "assignment" =>
             assigned'[i0][r0] = [status |-> "submitted", winner |-> w0]
    <3>1. assigned' = IF req[s].kind = "assignment" THEN Submitted(s) ELSE assigned
      BY <1>3 DEF CommitDecision
    <3>2. CASE req[s].kind = "assignment"
      <4> DEFINE a == [status |-> "submitted",
                       winner |-> IF WritesSnapshot(s) THEN w0 ELSE assigned[i0][r0].winner]
      <4>1. assigned' = [assigned EXCEPT ![i0][r0] = a]
        BY <3>1, <3>2 DEF Submitted
      <4>2. a = [status |-> "submitted", winner |-> w0]
        BY <2>1 DEF WritesSnapshot
      <4> HIDE DEF a
      <4> QED BY <1>1, <4>1, <4>2 DEF IInv, TypeOK
    <3> QED BY <3>1, <3>2
  <2>8. ASSUME NEW t \in Sessions PROVE AloneOK(t)'
    <3> SUFFICES ASSUME pc'[t] \in Deciding PROVE AloneOK(t)'
      BY DEF AloneOK
    <3>1. /\ t # s /\ pc[t] \in Deciding /\ req'[t] = req[t] /\ view'[t] = view[t]
          /\ pc[t] = "select_prior" => pc'[t] = "select_prior"
          /\ AloneOK(t) /\ req[t].item \in Items /\ req[t].by \in Reviewers
      BY <1>1 DEF Calm, TurnInv, IInv, SessionInv, SessionOK
    <3>2. req[t].by # r0
      BY <1>1, <2>1, <3>1 DEF AloneOK
    <3>3. \A u \in Sessions : pc'[u] \in Deciding => pc[u] \in Deciding /\ req'[u] = req[u]
      BY DEF Calm
    <3>4. \A u \in Sessions : pc'[u] \in Deciding /\ req'[u].by = req[t].by => u = t
      BY <3>1, <3>3 DEF AloneOK
    <3>6. {x \in scores' : x.item = req[t].item /\ x.by = req[t].by}
            = {x \in scores : x.item = req[t].item /\ x.by = req[t].by}
      <4>1. \A x : x \in scores' /\ x.item = req[t].item /\ x.by = req[t].by => x \in scores
        BY <2>3, <2>4, <3>2
      <4>2. \A x : x \in scores /\ x.item = req[t].item /\ x.by = req[t].by => x \in scores'
        BY <2>2, <3>2 DEF Given
      <4> QED BY <4>1, <4>2
    <3>7. pc'[t] # "select_prior" =>
            view[t].prior = {x \in scores' : x.item = req[t].item /\ x.by = req[t].by}
      BY <3>1, <3>6 DEF AloneOK, Given
    <3>8. decision'[req[t].item].by = req[t].by => view[t].decision = decision'[req[t].item]
      BY <2>6, <3>1, <3>2 DEF AloneOK
    <3>9. view[t].assignment.winner = assigned'[req[t].item][req[t].by].winner
      BY <2>7, <3>1, <3>2 DEF AloneOK
    <3> QED BY <3>1, <3>4, <3>7, <3>8, <3>9 DEF AloneOK, Given
  <2>9. OneVote'
    BY <2>3, <2>4 DEF TurnInv, OneVote
  <2>10. DecisionIsVote'
    <3> SUFFICES ASSUME NEW i \in Items, NEW x \in scores', x.item = i, x.by = decision'[i].by
                 PROVE  x.winner = decision'[i].winner
      BY DEF DecisionIsVote
    <3>1. CASE x \in NewScores(s)
      BY <2>4, <2>6, <3>1
    <3>2. CASE x \in scores /\ ~(x.item = i0 /\ x.by = r0)
      BY <2>6, <3>2 DEF TurnInv, DecisionIsVote
    <3> QED BY <2>3, <3>1, <3>2
  <2>11. StampAgrees'
    <3> SUFFICES ASSUME NEW x \in scores', x.stamped
                 PROVE  assigned'[x.item][x.by] = [status |-> "submitted", winner |-> x.winner]
      BY DEF StampAgrees
    <3>1. CASE x \in NewScores(s)
      BY <2>4, <2>7, <3>1
    <3>2. CASE x \in scores /\ ~(x.item = i0 /\ x.by = r0)
      BY <2>7, <2>a, <3>2 DEF TurnInv, StampAgrees
    <3> QED BY <2>3, <3>1, <3>2
  <2> QED BY <2>8, <2>9, <2>10, <2>11
<1> QED BY <1>2, <1>3, CommitOrNothing

LEMMA NextTurns == IInv /\ IInv' /\ ScoreInv /\ TurnInv /\ [Next]_vars => TurnInv'
<1> SUFFICES ASSUME IInv, IInv', ScoreInv, TurnInv, [Next]_vars PROVE TurnInv'
  OBVIOUS
<1>1. CASE UNCHANGED vars
  <2>1. /\ Calm /\ UNCHANGED <<turns, scores, decision, assigned>>
    BY <1>1 DEF vars, db, Calm
  <2> QED BY <2>1, CalmKeepsTurns
<1>2. ASSUME NEW s \in Sessions, Act(s) PROVE TurnInv'
  <2>1. /\ turns' = turns /\ OthersStay(s)
        /\ CommitDecision(s) \/ (scores' = scores /\ decision' = decision)
        /\ CommitDecision(s) \/ CommitAssignments(s) \/ assigned' = assigned
    BY <1>2, WhatActsKeep, OneMoves
  <2>2. CASE SelectPrior(s) \/ FlushSubmission(s)
    BY <2>1, <2>2, ReadingTurns
  <2>3. ASSUME NEW k \in {"item", "assignment"}, NEW i \in Decided, NEW r \in Reviewers,
               NEW w \in Winners, AskDecision(s, k, i, r, w)
        PROVE  TurnInv'
    BY <2>1, <2>3, AskDecisionTurns
  <2>4. CASE Calm /\ CommitDecision(s)
    BY <2>1, <2>4, CommitDecisionTurns
  <2>5. CASE Calm /\ ~CommitDecision(s)
    <3>1. \A i \in Items, r \in Reviewers :
            /\ assigned'[i][r].winner = assigned[i][r].winner
            /\ assigned[i][r].status = "submitted" => assigned'[i][r] = assigned[i][r]
      BY <2>1, <2>5, AssigningKeepsSubmitted
    <3> QED BY <2>1, <2>5, <3>1, CalmKeepsTurns
  <2> QED BY <1>2, <2>2, <2>3, <2>4, <2>5, MostAreCalm
<1> QED BY <1>1, <1>2 DEF Next, Act

\* The votes a reviewer has on an item are one, and the recorded decision is
\* what they say.
LEMMA OneVoteFollows == IInv /\ TurnInv => OneVoteInTurns /\ StampedScoresAgree
<1> SUFFICES ASSUME IInv, TurnInv, turns
             PROVE  /\ \A i \in Items, r \in Reviewers : Cardinality(Votes(i, r)) <= 1
                    /\ \A i \in Items : \A x \in Given(i, decision[i].by) :
                         x.winner = decision[i].winner
                    /\ \A x \in scores : x.stamped =>
                         assigned[x.item][x.by] = [status |-> "submitted", winner |-> x.winner]
  BY DEF OneVoteInTurns, StampedScoresAgree
<1>1. ASSUME NEW i \in Items, NEW r \in Reviewers PROVE Cardinality(Votes(i, r)) <= 1
  <2>1. CASE Votes(i, r) = {}
    BY <2>1, FS_EmptySet
  <2>2. CASE Votes(i, r) # {}
    <3>1. PICK v \in Votes(i, r) : TRUE
      BY <2>2
    <3>2. \A x, y \in Given(i, r) : x.id = y.id
      BY DEF Given, TurnInv, OneVote
    <3>3. Votes(i, r) = {v}
      BY <3>1, <3>2 DEF Votes
    <3> QED BY <3>3, FS_Singleton
  <2> QED BY <2>1, <2>2
<1>2. \A i \in Items : \A x \in Given(i, decision[i].by) : x.winner = decision[i].winner
  BY DEF TurnInv, DecisionIsVote, Given
<1>3. \A x \in scores : x.stamped =>
        assigned[x.item][x.by] = [status |-> "submitted", winner |-> x.winner]
  BY DEF TurnInv, StampAgrees
<1> QED BY <1>1, <1>2, <1>3

SInv == IInv /\ ScoreInv /\ TurnInv

LEMMA SpecScores == Spec => []SInv
<1>1. Init => SInv
  BY InitInv, InitScores, InitTurns DEF SInv
<1>2. SInv /\ [Next]_vars => SInv'
  BY NextInv, NextScores, NextTurns DEF SInv
<1> QED BY <1>1, <1>2, PTL DEF Spec

\* However requests interleave, and although items share attempts, no answer
\* keeps its half of a comparison whose other half is gone.
THEOREM WholeComparisons == Spec => []ComparisonsAreWhole
<1>1. SInv => ComparisonsAreWhole
  BY DEF SInv, ScoreInv, Whole, ComparisonsAreWhole
<1> QED BY <1>1, SpecScores, PTL

\* A reviewer who waits for each answer has at most one vote on an item, and
\* what is recorded as the decision of an item is what its author's vote says.
THEOREM OneVoteEach == Spec => []OneVoteInTurns
<1>1. SInv => OneVoteInTurns
  BY OneVoteFollows DEF SInv
<1> QED BY <1>1, SpecScores, PTL

\* Then a score that names an assignment says what the assignment says.
THEOREM StampsAgree == Spec => []StampedScoresAgree
<1>1. SInv => StampedScoresAgree
  BY OneVoteFollows DEF SInv
<1> QED BY <1>1, SpecScores, PTL
-----------------------------------------------------------------------------
(***************************************************************************)
(* Sessions that create reviewers insert them in the order of their slugs, *)
(* so that of two that wait the one waits for a later slug than it holds.  *)
(***************************************************************************)

Unknown(q, v) == q.names \ v.known

\* A session at label p, asked q, with v read.
InOrder(p, q, v) ==
  /\ p \in {"idle", "flush_set"} => v.created = {}
  /\ p \in {"lookup_reviewer", "insert_reviewer"} =>
       \A r \in v.created, u \in Unknown(q, v) : r < u
  /\ p = "insert_reviewer" => q.item \in Unknown(q, v) /\ \A u \in Unknown(q, v) : q.item <= u

AssignInv == \A s \in Sessions : InOrder(pc[s], req[s], view[s])

\* What the labels of the loop need of the reviewers known so far.
LEMMA StartsInOrder ==
  ASSUME IInv, NEW s \in Sessions, NEW N \in SUBSET Reviewers, NEW b \in BOOLEAN,
         StartAssigning(s, N, b), view[s].created = {}, NEW q
  PROVE  InOrder(pc'[s], q, view'[s])
<1>1. view'[s].created = {}
  <2>1. view[s] \in View
    BY DEF IInv, TypeOK
  <2>2. view'[s] = [view[s] EXCEPT !.known = N \cap reviewers, !.creating = b]
    BY DEF StartAssigning, IInv, TypeOK
  <2> QED BY <2>1, <2>2 DEF View
<1>2. pc'[s] \in {"read_assignments", "lookup_reviewer"}
  BY LoopLabels DEF StartAssigning
<1> QED BY <1>1, <1>2 DEF InOrder

LEMMA EndsInOrder ==
  ASSUME IInv, NEW s \in Sessions, EndRequest(s)
  PROVE  InOrder(pc'[s], req'[s], view'[s])
  BY DEF EndRequest, Goto, InOrder, Unread, IInv, TypeOK

LEMMA AskInOrder ==
  ASSUME IInv, AssignInv, NEW s \in Sessions, Ask(s)
  PROVE  InOrder(pc'[s], req'[s], view'[s])
<1>1. /\ req[s] \in Request /\ view[s] \in View /\ InOrder(pc[s], req[s], view[s])
  BY DEF IInv, TypeOK, AssignInv
<1>2. ASSUME NEW names \in SUBSET Reviewers, NEW title \in Titles, AskSet(s, title, names)
      PROVE  InOrder(pc'[s], req'[s], view'[s])
  <2>1. view[s].created = {}
    BY <1>1, <1>2 DEF AskSet, InOrder
  <2>2. CASE Goto(s, "flush_set") /\ view' = [view EXCEPT ![s].creating = TRUE]
    <3>1. pc'[s] = "flush_set" /\ view'[s].created = {}
      BY <1>1, <2>1, <2>2 DEF Goto, IInv, TypeOK, View
    <3> QED BY <3>1 DEF InOrder
  <2>3. CASE StartAssigning(s, names, FALSE)
    BY <2>1, <2>3, StartsInOrder
  <2>4. CASE EndRequest(s)
    BY <2>4, EndsInOrder
  <2> QED BY <1>2, <2>2, <2>3, <2>4 DEF AskSet
<1>3. ASSUME NEW names \in SUBSET Reviewers, AskAssignments(s, names)
      PROVE  InOrder(pc'[s], req'[s], view'[s])
  <2>1. view[s].created = {} /\ StartAssigning(s, names, FALSE)
    BY <1>1, <1>3 DEF AskAssignments, InOrder
  <2> QED BY <2>1, StartsInOrder
<1>4. ASSUME NEW k, NEW i, NEW r, NEW w, AskDecision(s, k, i, r, w)
      PROVE  InOrder(pc'[s], req'[s], view'[s])
  <2>1. pc'[s] = "select_prior"
    BY <1>4 DEF AskDecision, Goto, IInv, TypeOK
  <2> QED BY <2>1 DEF InOrder
<1> QED BY <1>2, <1>3, <1>4 DEF Ask

LEMMA LookupInOrder ==
  ASSUME IInv, AssignInv, NEW s \in Sessions, LookupReviewer(s)
  PROVE  InOrder(pc'[s], req'[s], view'[s])
<1>1. /\ pc[s] = "lookup_reviewer" /\ req[s] \in Request /\ view[s] \in View
      /\ InOrder(pc[s], req[s], view[s])
  BY DEF LookupReviewer, IInv, TypeOK, AssignInv
<1>2. PICK r \in NextUnknown(s) :
        IF r \in reviewers
        THEN /\ view' = [view EXCEPT ![s].known = @ \cup {r}]
             /\ LoopReviewers(s, req[s].names, view[s].known \cup {r})
             /\ UNCHANGED req
        ELSE /\ req' = [req EXCEPT ![s].item = r]
             /\ Goto(s, "insert_reviewer") /\ UNCHANGED view
  BY DEF LookupReviewer
<1>3. r \in Unknown(req[s], view[s]) /\ \A u \in Unknown(req[s], view[s]) : r <= u
  BY DEF NextUnknown, Unknown
<1>4. CASE /\ view' = [view EXCEPT ![s].known = @ \cup {r}]
           /\ LoopReviewers(s, req[s].names, view[s].known \cup {r})
           /\ UNCHANGED req
  <2>1. /\ view'[s].created = view[s].created
        /\ view'[s].known = view[s].known \cup {r} /\ req'[s] = req[s]
    BY <1>1, <1>4 DEF View, IInv, TypeOK
  <2>2. pc'[s] \in {"read_assignments", "lookup_reviewer"}
    BY <1>4, LoopLabels
  <2>3. Unknown(req'[s], view'[s]) \subseteq Unknown(req[s], view[s])
    BY <2>1 DEF Unknown
  <2> QED BY <1>1, <2>1, <2>2, <2>3 DEF InOrder
<1>5. CASE /\ req' = [req EXCEPT ![s].item = r]
           /\ Goto(s, "insert_reviewer") /\ UNCHANGED view
  <2>1. /\ pc'[s] = "insert_reviewer" /\ view'[s] = view[s]
        /\ req'[s].item = r /\ req'[s].names = req[s].names
    BY <1>1, <1>5 DEF Goto, Request, IInv, TypeOK
  <2> QED BY <1>1, <1>3, <2>1 DEF InOrder, Unknown
<1> QED BY <1>2, <1>4, <1>5

LEMMA InsertInOrder ==
  ASSUME IInv, AssignInv, NEW s \in Sessions, InsertReviewer(s)
  PROVE  InOrder(pc'[s], req'[s], view'[s])
<1> DEFINE r == req[s].item
<1>1. /\ pc[s] = "insert_reviewer" /\ req[s] \in Request /\ view[s] \in View
      /\ InOrder(pc[s], req[s], view[s])
  BY DEF InsertReviewer, IInv, TypeOK, AssignInv
<1>2. CASE EndRequest(s)
  BY <1>2, EndsInOrder
<1>3. CASE /\ view' = [view EXCEPT ![s].known = @ \cup {r}, ![s].created = @ \cup {r}]
           /\ req' = [req EXCEPT ![s].item = 0]
           /\ LoopReviewers(s, req[s].names, view[s].known \cup {r})
  <2>1. /\ view'[s].created = view[s].created \cup {r}
        /\ view'[s].known = view[s].known \cup {r} /\ req'[s].names = req[s].names
    <3>1. view'[s] = [view[s] EXCEPT !.known = @ \cup {r}, !.created = @ \cup {r}]
      BY <1>3 DEF IInv, TypeOK
    <3>2. req'[s] = [req[s] EXCEPT !.item = 0]
      BY <1>3 DEF IInv, TypeOK
    <3> QED BY <1>1, <3>1, <3>2 DEF View, Request
  <2>2. pc'[s] \in {"read_assignments", "lookup_reviewer"}
    BY <1>3, LoopLabels
  <2>3. Unknown(req'[s], view'[s]) = Unknown(req[s], view[s]) \ {r}
    BY <2>1 DEF Unknown
  <2>4. \A u \in Unknown(req[s], view[s]) : u \in Nat /\ r <= u
    BY <1>1, ReviewAssumption DEF InOrder, Unknown, Request
  <2>5. r \in Nat
    BY <1>1, <2>4 DEF InOrder
  <2>6. \A u \in Unknown(req'[s], view'[s]) : r < u
    BY <2>3, <2>4, <2>5
  <2>7. \A x \in view'[s].created, u \in Unknown(req'[s], view'[s]) : x < u
    BY <1>1, <2>1, <2>3, <2>6 DEF InOrder
  <2> QED BY <2>2, <2>7 DEF InOrder
<1> QED BY <1>2, <1>3 DEF InsertReviewer

LEMMA NextAssigns == IInv /\ AssignInv /\ [Next]_vars => AssignInv'
<1> SUFFICES ASSUME IInv, AssignInv, [Next]_vars PROVE AssignInv'
  OBVIOUS
<1>1. CASE UNCHANGED vars
  BY <1>1 DEF vars, AssignInv
<1>2. ASSUME NEW s \in Sessions, Act(s) PROVE AssignInv'
  <2>1. OthersStay(s)
    BY <1>2, OneMoves
  <2>2. InOrder(pc'[s], req'[s], view'[s])
    <3>1. CASE FlushSet(s)
      <4>1. /\ pc[s] = "flush_set" /\ req[s] \in Request /\ InOrder(pc[s], req[s], view[s])
        BY <3>1 DEF FlushSet, IInv, TypeOK, AssignInv
      <4>2. view[s].created = {} /\ req[s].names \in SUBSET Reviewers
        BY <4>1 DEF InOrder, Request
      <4>3. CASE StartAssigning(s, req[s].names, TRUE)
        BY <4>2, <4>3, StartsInOrder
      <4>4. CASE Goto(s, "commit_assignments")
        BY <4>4 DEF Goto, InOrder, IInv, TypeOK
      <4> QED BY <3>1, <4>3, <4>4, EndsInOrder DEF FlushSet, AfterFlush
    <3>2. CASE ReadAssignments(s)
      BY <3>2 DEF ReadAssignments, Goto, InOrder, IInv, TypeOK
    <3>3. CASE CommitAssignments(s) \/ CommitDecision(s) \/ Fail(s)
      BY <3>3, EndsInOrder DEF CommitAssignments, CommitDecision, Fail
    <3>4. CASE SelectPrior(s) \/ FlushDecision(s) \/ FlushSubmission(s)
      BY <3>4 DEF SelectPrior, FlushDecision, FlushSubmission, Goto, InOrder, IInv, TypeOK
    <3> QED BY <1>2, <3>1, <3>2, <3>3, <3>4, AskInOrder, LookupInOrder, InsertInOrder
            DEF Act, Assign, Decide
  <2> QED BY <2>1, <2>2 DEF AssignInv, OthersStay
<1> QED BY <1>1, <1>2 DEF Next, Act

\* A session waiting to insert a reviewer waits for one that created it, and
\* that created only reviewers before the one it waits to insert.
LEMMA WaitingInOrder ==
  ASSUME IInv, AssignInv, NEW s \in Sessions, NEW t \in WaitsFor(s),
         pc[s] = "insert_reviewer", pc[t] = "insert_reviewer"
  PROVE  req[s].item < req[t].item
<1>1. t \in Sessions /\ Needs(s) \cap Holds(t) # {}
  BY DEF WaitsFor
<1>2. Needs(s) = {<<"reviewer", req[s].item>>}
  BY DEF Needs
<1>3. <<"reviewer", req[s].item>> \in Holds(t)
  BY <1>1, <1>2
<1>4. Holds(t) \subseteq {<<"reviewer", r>> : r \in view[t].created} \cup {<<"set">>}
  BY DEF Holds
<1>5. <<"reviewer", req[s].item>> # <<"set">>
  OBVIOUS
<1>6. req[s].item \in view[t].created
  BY <1>3, <1>4, <1>5
<1> QED BY <1>1, <1>6 DEF AssignInv, InOrder

\* A finite set of numbers has a greatest one: that with the least set above it.
LEMMA Greatest ==
  ASSUME NEW N \in SUBSET Nat, IsFiniteSet(N), N # {}
  PROVE  \E n \in N : \A m \in N : ~ n < m
<1> DEFINE Above(n) == {m \in N : n < m}
           T == {Above(n) : n \in N}
<1>1. T \subseteq FiniteSubsetsOf(N) /\ T # {}
  <2>1. FiniteSubsetsOf(N) = SUBSET N
    BY FS_FiniteSubsetsOfFinite
  <2>2. \A n \in N : Above(n) \in SUBSET N
    OBVIOUS
  <2>3. T \subseteq SUBSET N
    <3> HIDE DEF Above
    <3> QED BY <2>2
  <2>4. T # {}
    <3>1. PICK n \in N : TRUE
      OBVIOUS
    <3>2. Above(n) \in T
      BY <3>1
    <3> QED BY <3>2
  <2> QED BY <2>1, <2>3, <2>4
<1>2. PICK A \in T : \A B \in T : ~ (<<B, A>> \in StrictSubsetOrdering(N))
  <2> HIDE DEF T
  <2>1. IsWellFoundedOn(StrictSubsetOrdering(N), FiniteSubsetsOf(N))
    BY FS_StrictSubsetOrderingWellFounded
  <2> QED BY <1>1, <2>1, WFMin
<1>3. PICK n \in N : A = Above(n)
  OBVIOUS
<1>4. SUFFICES ASSUME NEW m \in N, n < m PROVE FALSE
  OBVIOUS
<1>5. Above(m) \subseteq A /\ m \in A /\ m \notin Above(m)
  <2>1. n \in Nat /\ m \in Nat /\ \A k \in N : k \in Nat
    OBVIOUS
  <2>2. \A k \in N : m < k => n < k
    BY <1>4, <2>1
  <2>3. ~ m < m
    BY <2>1
  <2>4. A = {k \in N : n < k}
    BY <1>3
  <2> QED BY <1>4, <2>2, <2>3, <2>4
<1>6. <<Above(m), A>> \in StrictSubsetOrdering(N)
  BY <1>3, <1>5 DEF StrictSubsetOrdering
<1> QED BY <1>2, <1>6

\* Sessions that create reviewers, however many and whichever, never wait for
\* one another in a circle: the one that inserts the greatest waits for none.
THEOREM AssignersProceed == Spec => []AssignersNeverDeadlock
<1>1. Init => AssignInv
  BY DEF Init, AssignInv, InOrder, Unread
<1>2. IInv /\ AssignInv => AssignersNeverDeadlock
  <2> SUFFICES ASSUME IInv, AssignInv,
                      NEW S \in SUBSET {s \in Sessions : pc[s] = "insert_reviewer"}, S # {}
               PROVE  \E s \in S : WaitsFor(s) \cap S = {}
    BY DEF AssignersNeverDeadlock
  <2> DEFINE N == {req[s].item : s \in S}
  <2>1. \A s \in S : s \in Sessions /\ pc[s] = "insert_reviewer" /\ req[s].item \in Reviewers
    BY DEF IInv, TypeOK, AssignInv, InOrder, Unknown, Request
  <2>2. N \in SUBSET Nat /\ IsFiniteSet(N) /\ N # {}
    <3>1. N \subseteq Reviewers /\ N # {}
      BY <2>1
    <3>2. IsFiniteSet(N)
      BY <3>1, ReviewAssumption, FS_Subset
    <3> QED BY <3>1, <3>2, ReviewAssumption
  <2>3. PICK n \in N : \A m \in N : ~ n < m
    <3> HIDE DEF N
    <3> QED BY <2>2, Greatest
  <2>4. PICK s \in S : n = req[s].item
    OBVIOUS
  <2>5. SUFFICES ASSUME NEW t \in WaitsFor(s) \cap S PROVE FALSE
    OBVIOUS
  <2>6. req[s].item < req[t].item
    BY <2>1, WaitingInOrder
  <2> QED BY <2>3, <2>4, <2>6
<1> QED BY <1>1, <1>2, NextAssigns, Invariant, PTL DEF Spec
=============================================================================
