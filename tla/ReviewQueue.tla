---------------------------- MODULE ReviewQueue ----------------------------
(***************************************************************************)
(* The blind review of one completed experiment: the review set, its       *)
(* items, the reviewers assigned to them and the decisions they submit.    *)
(*                                                                         *)
(* Every request is a database session.  It reads one statement at a time, *)
(* flushes when the code flushes, and what it flushed is seen by others    *)
(* when it commits.  Holds(s) are the rows and unique keys its flushed     *)
(* statements have locked, Needs(s) those its next one will lock.  SQLite  *)
(* has one lock for all of them, which only removes interleavings and adds *)
(* requests that end in an error; any request may end so here (Fail).      *)
(*                                                                         *)
(* A decision stores several human scores for every answer of its item,    *)
(* one per kind; they are written and found together, and one row per      *)
(* answer stands for them.  Reviewers are numbered in the order of their   *)
(* slugs, items in the order of their ids.                                 *)
(***************************************************************************)
EXTENDS Naturals, FiniteSets

CONSTANTS
  Sessions,      \* requests in flight
  Reviewers,     \* reviewer slugs, as numbers; 0 is nobody
  Answers,       \* the pair of run attempts of each item, a sequence
  Titles,        \* (name, seed, taxonomy) a review set can be asked for with
  Winners,       \* bound: the winners decisions name, "A", "B", "tie", "cannot_judge"
  Decided,       \* bound: the items decisions are about
  MaxRequests,   \* bound: requests are made while fewer were
  NoSet          \* the review set has not been created

Items == DOMAIN Answers

ASSUME ReviewAssumption ==
  /\ Reviewers \subseteq Nat \ {0} /\ IsFiniteSet(Reviewers) /\ Items \subseteq Nat
  /\ \A i \in Items : Cardinality(Answers[i]) = 2
  /\ NoSet \notin Titles /\ MaxRequests \in Nat /\ Decided \subseteq Items

VARIABLES
  turns,      \* whether a reviewer waits for the answer before submitting again
  set,        \* review_sets: the title of the one with this slug
  reviewers,  \* rows of reviewers
  assigned,   \* review_assignments, by item and reviewer
  decision,   \* review_items.reviewer_decision
  scores,     \* the human rows of scores
  made,       \* requests made so far, which numbers them
  pc, req, view   \* of each session: where it is, what it was asked, what it read

db   == <<set, reviewers, assigned, decision, scores>>
vars == <<turns, db, made, pc, req, view>>

NoAssignment == [status |-> "none", winner |-> "none"]
NoDecision   == [by |-> 0, winner |-> "none"]
NoRequest    == [kind |-> "none", title |-> NoSet, names |-> {}, item |-> 0, by |-> 0,
                 winner |-> "none", id |-> 0]
Unread       == [decision |-> NoDecision, assignment |-> NoAssignment, prior |-> {},
                 stamps |-> {}, known |-> {}, created |-> {}, existing |-> {},
                 creating |-> FALSE]

Init ==
  /\ turns \in BOOLEAN
  /\ set = NoSet /\ reviewers = {}
  /\ assigned = [i \in Items |-> [r \in Reviewers |-> NoAssignment]]
  /\ decision = [i \in Items |-> NoDecision]
  /\ scores = {} /\ made = 0
  /\ pc = [s \in Sessions |-> "idle"]
  /\ req = [s \in Sessions |-> NoRequest]
  /\ view = [s \in Sessions |-> Unread]

Goto(s, label) == pc' = [pc EXCEPT ![s] = label]

Counted == made < MaxRequests /\ made' = made + 1

EndRequest(s) ==
  /\ Goto(s, "idle")
  /\ req' = [req EXCEPT ![s] = NoRequest] /\ view' = [view EXCEPT ![s] = Unread]
-----------------------------------------------------------------------------
\* Which scores a decision replaces, and which it stamps.

\* Mutants: the scores of an item are found by their attempts alone, or
\* whoever gave them, or not at all.
PriorOfAttempts(i, r)    == {x \in scores : x.attempt \in Answers[i] /\ x.by = r}
PriorOfEverybody(i, r)   == {x \in scores : x.attempt \in Answers[i] /\ x.item = i}
PriorNotSearched(i, r)   == {}

\* _clear_existing_review_scores.  Items share attempts: three models make
\* three pairs.
Prior(i, r) == {x \in scores : x.attempt \in Answers[i] /\ x.item = i /\ x.by = r}

\* Mutant: scores of the item are stamped whoever gave them.
StampsOfItem(s) ==
  {x \in scores \ view[s].prior : x.item = req[s].item /\ ~x.stamped}

\* _stamp_assignment_id_on_scores, besides the session's own new scores.
Stamps(s) ==
  {x \in scores \ view[s].prior : /\ x.attempt \in Answers[req[s].item]
                                  /\ x.item = req[s].item /\ x.by = req[s].by
                                  /\ ~x.stamped}

NewScores(s) ==
  {[id |-> req[s].id, item |-> req[s].item, attempt |-> a, by |-> req[s].by,
    winner |-> req[s].winner, stamped |-> req[s].kind = "assignment"] :
     a \in Answers[req[s].item]}

\* A column is written when the new value differs from the one read.
WritesDecision(s) == view[s].decision # [by |-> req[s].by, winner |-> req[s].winner]
WritesSnapshot(s) == view[s].assignment.winner # req[s].winner
-----------------------------------------------------------------------------
\* Locks.

Row(x) == <<"score", x.id, x.attempt>>

FlushedByDecision(s) ==
  {Row(x) : x \in view[s].prior}
    \cup (IF WritesDecision(s) THEN {<<"item", req[s].item>>} ELSE {})

TheAssignment(s) == {<<"assignment", req[s].item, req[s].by>>}

Holds(s) ==
  {<<"reviewer", r>> : r \in view[s].created}
    \cup (IF view[s].creating /\ pc[s] # "flush_set" THEN {<<"set">>} ELSE {})
    \cup (IF pc[s] \in {"submit", "commit_decision"} THEN FlushedByDecision(s) ELSE {})
    \cup (IF pc[s] = "commit_decision" /\ req[s].kind = "assignment"
          THEN TheAssignment(s) ELSE {})

\* Mutant: reviewers are created in the order of the request.
AnyUnknown(s) == req[s].names \ view[s].known

\* The reviewer to create next: unique_slugs is sorted.
NextUnknown(s) ==
  LET unknown == req[s].names \ view[s].known
  IN  {r \in unknown : \A q \in unknown : r <= q}

Needs(s) ==
  CASE pc[s] = "flush_set"       -> {<<"set">>}
    [] pc[s] = "insert_reviewer" -> {<<"reviewer", req[s].item>>}
    [] pc[s] = "flush_decision"  -> FlushedByDecision(s)
    [] pc[s] = "submit"          -> TheAssignment(s)
    [] pc[s] = "commit_decision" -> {Row(x) : x \in view[s].stamps}
    [] OTHER                     -> {}

WaitsFor(s) == {t \in Sessions \ {s} : Needs(s) \cap Holds(t) # {}}
-----------------------------------------------------------------------------
\* Creating the set, and assigning reviewers.

\* Where the loop over the reviewers goes once those in known are known.
LoopReviewers(s, names, known) ==
  Goto(s, IF names \subseteq known THEN "read_assignments" ELSE "lookup_reviewer")

\* create_review_assignments starts by reading the reviewers it is given.
StartAssigning(s, names, creating) ==
  /\ view' = [view EXCEPT ![s].known = names \cap reviewers, ![s].creating = creating]
  /\ LoopReviewers(s, names, names \cap reviewers)

\* The set is looked up: if it exists it is returned, after assigning the
\* reviewers named if the request agrees with it; if not the answer is a 409.
AskSet(s, title, names) ==
  /\ pc[s] = "idle" /\ Counted
  /\ \/ /\ set = NoSet
        /\ Goto(s, "flush_set") /\ view' = [view EXCEPT ![s].creating = TRUE]
        /\ req' = [req EXCEPT ![s].kind = "create", ![s].title = title, ![s].names = names]
     \/ /\ set = title /\ names # {}
        /\ StartAssigning(s, names, FALSE)
        /\ req' = [req EXCEPT ![s].kind = "assign", ![s].names = names]
     \/ /\ set # NoSet /\ (set # title \/ names = {})
        /\ EndRequest(s)
  /\ UNCHANGED <<turns, db>>

AskAssignments(s, names) ==
  /\ pc[s] = "idle" /\ set # NoSet /\ Counted
  /\ req' = [req EXCEPT ![s].kind = "assign", ![s].names = names]
  /\ StartAssigning(s, names, FALSE)
  /\ UNCHANGED <<turns, db>>

AfterFlush(s) ==
  IF req[s].names = {}
  THEN Goto(s, "commit_assignments") /\ UNCHANGED view
  ELSE StartAssigning(s, req[s].names, TRUE)

\* Mutant: the insert of a second set with the slug is let through.
FlushAnySet(s) ==
  /\ pc[s] = "flush_set" /\ WaitsFor(s) = {}
  /\ AfterFlush(s)
  /\ UNCHANGED <<turns, db, made, req>>

\* uq_review_sets_project_slug: waits for the session that inserts the same
\* slug, and fails if it has committed.
FlushSet(s) ==
  /\ pc[s] = "flush_set" /\ WaitsFor(s) = {}
  /\ IF set # NoSet THEN EndRequest(s) ELSE AfterFlush(s) /\ UNCHANGED req
  /\ UNCHANGED <<turns, db, made>>

\* create_reviewer looks the slug up again before inserting it.
LookupReviewer(s) ==
  /\ pc[s] = "lookup_reviewer"
  /\ \E r \in NextUnknown(s) :
       IF r \in reviewers
       THEN /\ view' = [view EXCEPT ![s].known = @ \cup {r}]
            /\ LoopReviewers(s, req[s].names, view[s].known \cup {r})
            /\ UNCHANGED req
       ELSE /\ req' = [req EXCEPT ![s].item = r]
            /\ Goto(s, "insert_reviewer") /\ UNCHANGED view
  /\ UNCHANGED <<turns, db, made>>

\* uq_reviewers_project_slug.
InsertReviewer(s) ==
  /\ pc[s] = "insert_reviewer" /\ WaitsFor(s) = {}
  /\ LET r == req[s].item IN
     IF r \in reviewers
     THEN EndRequest(s)
     ELSE /\ view' = [view EXCEPT ![s].known = @ \cup {r}, ![s].created = @ \cup {r}]
          /\ req' = [req EXCEPT ![s].item = 0]
          /\ LoopReviewers(s, req[s].names, view[s].known \cup {r})
  /\ UNCHANGED <<turns, db, made>>

ReadAssignments(s) ==
  /\ pc[s] = "read_assignments"
  /\ view' = [view EXCEPT ![s].existing =
                {p \in Items \X req[s].names : assigned[p[1]][p[2]] # NoAssignment}]
  /\ Goto(s, "commit_assignments")
  /\ UNCHANGED <<turns, db, made, req>>

Missing(s) == (Items \X req[s].names) \ view[s].existing

\* uq_review_assignments_item_reviewer.
AreUnique(s) == \A p \in Missing(s) : assigned[p[1]][p[2]] = NoAssignment

\* The commit of the set and its items, the reviewers and the assignments; the
\* answer is a 409 and nothing is kept if another session assigned an item.
CommitAssignments(s) ==
  /\ pc[s] = "commit_assignments"
  /\ IF AreUnique(s)
     THEN /\ set' = IF view[s].creating THEN req[s].title ELSE set
          /\ reviewers' = reviewers \cup view[s].created
          /\ assigned' = [i \in Items |-> [r \in Reviewers |->
                            IF <<i, r>> \in Missing(s)
                            THEN [status |-> "pending", winner |-> "none"]
                            ELSE assigned[i][r]]]
     ELSE UNCHANGED <<set, reviewers, assigned>>
  /\ EndRequest(s)
  /\ UNCHANGED <<turns, decision, scores, made>>
-----------------------------------------------------------------------------
\* Recording a decision.  kind is the endpoint: "assignment" for one's own
\* assignment, "item" for the item itself under any reviewer_id.

Waiting(r) == turns /\ \E s \in Sessions : req[s].by = r

AskDecision(s, kind, i, r, w) ==
  /\ pc[s] = "idle" /\ set # NoSet /\ Counted /\ ~Waiting(r)
  /\ kind = "assignment" => assigned[i][r] # NoAssignment
  /\ req' = [req EXCEPT ![s] = [@ EXCEPT !.kind = kind, !.item = i, !.by = r,
                                         !.winner = w, !.id = made + 1]]
  /\ view' = [view EXCEPT ![s].decision = decision[i], ![s].assignment = assigned[i][r]]
  /\ Goto(s, "select_prior")
  /\ UNCHANGED <<turns, db>>

SelectPrior(s) ==
  /\ pc[s] = "select_prior"
  /\ view' = [view EXCEPT ![s].prior = Prior(req[s].item, req[s].by)]
  /\ Goto(s, "flush_decision")
  /\ UNCHANGED <<turns, db, made, req>>

\* The flush at the end of _clear_existing_review_scores.
FlushDecision(s) ==
  /\ pc[s] = "flush_decision" /\ WaitsFor(s) = {}
  /\ Goto(s, IF req[s].kind = "assignment" THEN "submit" ELSE "commit_decision")
  /\ UNCHANGED <<turns, db, made, req, view>>

\* The flush of the submission and of the new scores, and the search for the
\* scores to stamp; until this one the flush only keeps others waiting.
FlushSubmission(s) ==
  /\ pc[s] = "submit" /\ WaitsFor(s) = {}
  /\ view' = [view EXCEPT ![s].stamps = Stamps(s)]
  /\ Goto(s, "commit_decision")
  /\ UNCHANGED <<turns, db, made, req>>

\* Mutant: a status no query knows.
SubmittedAsComplete(s) ==
  [assigned EXCEPT ![req[s].item][req[s].by] = [status |-> "complete", winner |-> req[s].winner]]

Submitted(s) ==
  [assigned EXCEPT ![req[s].item][req[s].by] =
     [status |-> "submitted", winner |-> IF WritesSnapshot(s) THEN req[s].winner ELSE @.winner]]

Stamped(X) == {[x EXCEPT !.stamped = TRUE] : x \in X}

\* An UPDATE of a score that has been deleted meanwhile raises StaleDataError.
CommitDecision(s) ==
  /\ pc[s] = "commit_decision" /\ WaitsFor(s) = {}
  /\ IF view[s].stamps \subseteq scores
     THEN /\ scores' = ((scores \ view[s].prior) \ view[s].stamps)
                         \cup Stamped(view[s].stamps) \cup NewScores(s)
          /\ decision' = IF WritesDecision(s)
                         THEN [decision EXCEPT ![req[s].item] =
                                 [by |-> req[s].by, winner |-> req[s].winner]]
                         ELSE decision
          /\ assigned' = IF req[s].kind = "assignment" THEN Submitted(s) ELSE assigned
     ELSE UNCHANGED <<scores, decision, assigned>>
  /\ EndRequest(s)
  /\ UNCHANGED <<turns, set, reviewers, made>>

\* A request may be refused (the experiment is not complete, an unknown label
\* or tag), be the victim of a deadlock or a lock timeout, or die: its
\* transaction is rolled back.
Fail(s) ==
  /\ pc[s] # "idle" /\ EndRequest(s)
  /\ UNCHANGED <<turns, db, made>>
-----------------------------------------------------------------------------
Ask(s) ==
  \/ \E names \in SUBSET Reviewers : \E title \in Titles : AskSet(s, title, names)
  \/ \E names \in (SUBSET Reviewers) \ {{}} : AskAssignments(s, names)
  \/ \E kind \in {"item", "assignment"}, i \in Decided, r \in Reviewers, w \in Winners :
       AskDecision(s, kind, i, r, w)

Assign(s) ==
  \/ FlushSet(s) \/ LookupReviewer(s) \/ InsertReviewer(s)
  \/ ReadAssignments(s) \/ CommitAssignments(s)

Decide(s) ==
  \/ SelectPrior(s) \/ FlushDecision(s) \/ FlushSubmission(s) \/ CommitDecision(s)

Next == \E s \in Sessions : Ask(s) \/ Assign(s) \/ Decide(s) \/ Fail(s)

Spec == Init /\ [][Next]_vars
-----------------------------------------------------------------------------
Labels == {"idle", "flush_set", "lookup_reviewer", "insert_reviewer", "read_assignments",
           "commit_assignments", "select_prior", "flush_decision", "submit",
           "commit_decision"}
Choice     == Winners \cup {"none"}
Assignment == [status : {"none", "pending", "submitted"}, winner : Choice]
Decision   == [by : Reviewers \cup {0}, winner : Choice]
Score == [id : Nat, item : Items, attempt : UNION {Answers[i] : i \in Items},
          by : Reviewers, winner : Winners, stamped : BOOLEAN]
Request == [kind : {"none", "create", "assign", "item", "assignment"},
            title : Titles \cup {NoSet}, names : SUBSET Reviewers, item : Nat,
            by : Reviewers \cup {0}, winner : Choice, id : Nat]
View == [decision : Decision, assignment : Assignment, prior : SUBSET Score,
         stamps : SUBSET Score, known : SUBSET Reviewers, created : SUBSET Reviewers,
         existing : SUBSET (Items \X Reviewers), creating : BOOLEAN]

TypeOK ==
  /\ turns \in BOOLEAN /\ set \in Titles \cup {NoSet} /\ reviewers \subseteq Reviewers
  /\ assigned \in [Items -> [Reviewers -> Assignment]]
  /\ decision \in [Items -> Decision]
  /\ scores \subseteq Score /\ made \in Nat
  /\ pc \in [Sessions -> Labels] /\ req \in [Sessions -> Request]
  /\ view \in [Sessions -> View]

\* The scores a reviewer has given on an item, and the decisions they are of.
Given(i, r) == {x \in scores : x.item = i /\ x.by = r}
Votes(i, r) == {x.id : x \in Given(i, r)}

\* Whoever is on record as having decided an item, in its latest decision or in
\* a submitted assignment, has scores on it, however requests interleave: no
\* other reviewer's revision removes them.
RecordedDecisionsAreScored ==
  /\ \A i \in Items : decision[i] # NoDecision => Given(i, decision[i].by) # {}
  /\ \A i \in Items, r \in Reviewers : assigned[i][r].status = "submitted" => Given(i, r) # {}

\* The scores of one decision stay together: an answer never keeps its half of
\* a comparison whose other half is gone, although items share attempts.
ComparisonsAreWhole ==
  \A x \in scores : {y.attempt : y \in {z \in scores : z.id = x.id}} = Answers[x.item]

\* A reviewer who waits for each answer has one vote on an item, and whatever
\* other reviewers do, an item's latest decision is what its author's vote says.
OneVoteInTurns ==
  turns => /\ \A i \in Items, r \in Reviewers : Cardinality(Votes(i, r)) <= 1
           /\ \A i \in Items : \A x \in Given(i, decision[i].by) : x.winner = decision[i].winner

\* Then, too, a score that names an assignment agrees with what the assignment
\* says was submitted; one given for the item alone names none.
StampedScoresAgree ==
  turns => \A x \in scores : x.stamped =>
             assigned[x.item][x.by] = [status |-> "submitted", winner |-> x.winner]

\* Of requests that race to create the set one wins: the set is never replaced
\* by a set with another seed or taxonomy, on which decisions would not fit.
SetIsNeverReplaced == [][set # NoSet => set' = set]_set

\* Requests that create the same reviewers never wait in a circle: of any that
\* wait to insert one, some wait for none of the others.
AssignersNeverDeadlock ==
  \A S \in SUBSET {s \in Sessions : pc[s] = "insert_reviewer"} :
    S # {} => \E s \in S : WaitsFor(s) \cap S = {}
=============================================================================
