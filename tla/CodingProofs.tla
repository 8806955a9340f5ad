---------------------------- MODULE CodingProofs -----------------------------
(***************************************************************************)
(* The pull requests of the Coder: how they are published, reviewed and    *)
(* repaired.                                                               *)
(*                                                                         *)
(* What the Reviewer posts, for any number of runs, heads and deaths. That *)
(* a head is reviewed once rests on Fresh: between a search that found     *)
(* nothing and the creation of the review nothing else can post one,       *)
(* because each head has one submission and one run that carries it out    *)
(* (Carried). That an approval is earned rests on what a run knows while   *)
(* it submits (Informed).                                                  *)
(*                                                                         *)
(* The budget of a pull request, for any number of reviews, calls, asked   *)
(* budgets and deaths. Backed says what the stage of a call knows of the   *)
(* rows in the two databases, and that a review is owned by one call at a  *)
(* time: it is what makes a reservation that is given back one that        *)
(* nothing was launched for. OneNote is the argument for a single note.    *)
(*                                                                         *)
(* What a run of the Coder publishes, for any number of runs, commits,     *)
(* pull requests, rounds and acts of humans. That a commit holds what was  *)
(* verified rests on Alone (two runs at once have both lost the directory) *)
(* and OwnTree (one that has not finds in it what it left there). That a   *)
(* repair keeps to its pull request rests on Held, that a ready one has    *)
(* passed on Judged. That a push drops nobody's commits is about the       *)
(* ancestors, a recursive function: UpTo is induction with a set for the   *)
(* predicate, and AncestorsClosed and AncestorsKept follow by it.          *)
(***************************************************************************)
EXTENDS ReviewSubmission, RepairBudget, CoderPublication,
        FiniteSetTheorems, WellFoundedInduction, TLAPS

Stages == {"idle", "exercising", "judging", "submitting", "done"}
Judgements == {"none", "clean", "remarks", "blocking"}

ReviewTyped ==
  /\ liveHead \in Heads
  /\ eligible \in BOOLEAN
  /\ \A p \in posted : p.head \in Heads /\ p.of \in Heads
  /\ doingReview \in [ReviewRun -> Stages]
  /\ reviewed \in [ReviewRun -> 0..MaxHeads]
  /\ green \in [ReviewRun -> BOOLEAN]
  /\ judgement \in [ReviewRun -> Judgements]
  /\ silent \subseteq ReviewRun
  /\ settledRun \subseteq ReviewRun
  /\ submitter \in [Heads -> ReviewRun \cup {NoRun}]
  /\ submission \in [Heads -> {"none", "checking", "finding", "creating"}]

(* A run that works has a head, and one that submits a verdict or silence. *)
Informed ==
  \A r \in ReviewRun :
    /\ doingReview[r] \in {"exercising", "judging", "submitting"} => reviewed[r] \in Heads
    /\ (doingReview[r] = "submitting" /\ r \notin silent) => judgement[r] # "none"

(* Nobody waits for a submission that has ended, and the one for a head is *)
(* carried out by a run of that head.                                      *)
Carried ==
  /\ \A r \in ReviewRun : doingReview[r] = "submitting" => submission[reviewed[r]] # "none"
  /\ \A h \in Heads :
       /\ submission[h] = "none" => submitter[h] = NoRun
       /\ submission[h] # "none" =>
            /\ submitter[h] \in ReviewRun
            /\ doingReview[submitter[h]] = "submitting"
            /\ reviewed[submitter[h]] = h

(* What was not found is not there until it is created.                    *)
Fresh == \A h \in Heads : submission[h] = "creating" => ReviewOf(h) = {}

ReviewInv == ReviewTyped /\ Informed /\ Carried /\ Fresh /\ OneReviewPerHead /\ ApprovalEarned

LEMMA InitReview == ReviewInit => ReviewInv
<1> SUFFICES ASSUME ReviewInit PROVE ReviewInv
    OBVIOUS
<1>1. ReviewTyped
    BY ReviewConstants DEF ReviewInit, ReviewTyped, Heads, Stages, Judgements
<1>2. Informed /\ Carried /\ Fresh
    BY ReviewConstants DEF ReviewInit, Informed, Carried, Fresh, Heads
<1>3. OneReviewPerHead /\ ApprovalEarned
    BY DEF ReviewInit, OneReviewPerHead, ApprovalEarned
<1> QED
    BY <1>1, <1>2, <1>3 DEF ReviewInv

-----------------------------------------------------------------------------
(* The pieces the actions share.                                           *)

(* Runs that are over know nothing any more, and the others are untouched. *)
LEMMA OverTyped ==
  ASSUME ReviewTyped, NEW rs \in SUBSET ReviewRun, Over(rs)
  PROVE  /\ doingReview' \in [ReviewRun -> Stages]
         /\ reviewed' \in [ReviewRun -> 0..MaxHeads]
         /\ green' \in [ReviewRun -> BOOLEAN]
         /\ judgement' \in [ReviewRun -> Judgements]
         /\ silent' \subseteq ReviewRun
         /\ settledRun' \subseteq ReviewRun
<1>1. doingReview' \in [ReviewRun -> Stages]
    BY DEF ReviewTyped, Over, Stages
<1>2. reviewed' \in [ReviewRun -> 0..MaxHeads]
    BY ReviewConstants DEF ReviewTyped, Over
<1>3. green' \in [ReviewRun -> BOOLEAN]
    BY Zenon DEF ReviewTyped, Over
<1>4. judgement' \in [ReviewRun -> Judgements]
    BY DEF ReviewTyped, Over, Judgements
<1> QED
    BY <1>1, <1>2, <1>3, <1>4 DEF ReviewTyped, Over

(* Joining keeps the types of what it writes.                              *)
LEMMA JoinTyped ==
  ASSUME ReviewTyped, NEW r \in ReviewRun, reviewed[r] \in Heads, Join(r)
  PROVE  /\ doingReview' \in [ReviewRun -> Stages]
         /\ submitter' \in [Heads -> ReviewRun \cup {NoRun}]
         /\ submission' \in [Heads -> {"none", "checking", "finding", "creating"}]
BY DEF ReviewTyped, Join, Stages, submissions

LEMMA FinishedTyped ==
  ASSUME ReviewTyped, NEW h \in Heads, NEW ok \in BOOLEAN, Finished(h, ok)
  PROVE  /\ doingReview' \in [ReviewRun -> Stages]
         /\ settledRun' \subseteq ReviewRun
         /\ submitter' \in [Heads -> ReviewRun \cup {NoRun}]
         /\ submission' \in [Heads -> {"none", "checking", "finding", "creating"}]
BY DEF ReviewTyped, Finished, Wakes, Stages

(* What is posted is of the head its run works on, and an approval of it   *)
(* is what its model said.                                                 *)
LEMMA PostSound ==
  ASSUME ReviewInv, NEW h \in Heads, submission[h] = "creating", Post(h)
  PROVE  /\ \A p \in posted' : p.head \in Heads /\ p.of \in Heads
         /\ \A g \in Heads \ {h} : ReviewOf(g)' = ReviewOf(g)
         /\ extra' = extra
         /\ ApprovalEarned'
<1> DEFINE r == submitter[h]
           said == IF r \in silent THEN "silence" ELSE judgement[r]
           event == IF r \in silent THEN MissingVerdict(green[r]) ELSE EventOf(green[r], said)
           new == [head |-> h, event |-> event, of |-> reviewed[r], passed |-> green[r], said |-> said]
<1>1. /\ r \in ReviewRun /\ doingReview[r] = "submitting" /\ reviewed[r] = h
      /\ green[r] \in BOOLEAN /\ judgement[r] \in Judgements
      /\ r \notin silent => judgement[r] # "none"
    BY DEF ReviewInv, Carried, Informed, ReviewTyped
<1>2. posted' = posted \cup {new}
    BY DEF Post
<1>3. new.head = h /\ new.of = h /\ new.passed = green[r] /\ new.said = said /\ new.event = event
    BY <1>1
<1>4. event = "APPROVE" => green[r] /\ said = "clean"
  <2>1. CASE r \in silent
      BY <1>1, <2>1 DEF MissingVerdict
  <2>2. CASE r \notin silent
      BY <1>1, <2>2 DEF EventOf, Judgements
  <2> QED
      BY <2>1, <2>2
<1> HIDE DEF new, r, said, event
<1>5. \A p \in posted' : p.head \in Heads /\ p.of \in Heads
    BY <1>2, <1>3 DEF ReviewInv, ReviewTyped
<1>6. \A g \in Heads \ {h} : ReviewOf(g)' = ReviewOf(g)
    BY <1>2, <1>3 DEF ReviewOf
<1>7. extra' = extra
    BY DEF ReviewInv, Fresh, Post
<1>8. ApprovalEarned'
    BY <1>2, <1>3, <1>4 DEF ReviewInv, ApprovalEarned
<1> QED
    BY <1>5, <1>6, <1>7, <1>8

(* Only a death that lets a review through, and CreateReview, post.        *)
LEMMA PostsNothing ==
  ASSUME ReviewInv, UNCHANGED <<posted, extra>>
  PROVE  /\ ApprovalEarned'
         /\ OneReviewPerHead'
         /\ \A h \in Heads : ReviewOf(h)' = ReviewOf(h)
BY DEF ReviewInv, ApprovalEarned, OneReviewPerHead, ReviewOf

-----------------------------------------------------------------------------
(* Type correctness.                                                       *)

LEMMA TypedStep == ReviewInv /\ [ReviewNext]_reviewVars => ReviewTyped'
<1> SUFFICES ASSUME ReviewInv, [ReviewNext]_reviewVars PROVE ReviewTyped'
    OBVIOUS
<1> USE DEF runState, submissions, pullState
<1>0. ReviewTyped /\ Informed /\ Carried
    BY DEF ReviewInv
<1>1. ASSUME NEW r \in ReviewRun, NEW pinned \in 0..MaxHeads, BeginReview(r, pinned)
      PROVE ReviewTyped'
  <2>1. CASE Over({r})
      BY <1>0, <1>1, <2>1, OverTyped DEF BeginReview, ReviewTyped
  <2>2. CASE ~ Over({r})
      BY <1>0, <1>1, <2>2 DEF BeginReview, ReviewTyped, Stages, Heads
  <2> QED
      BY <2>1, <2>2
<1>2. ASSUME NEW r \in ReviewRun, Exercise(r) PROVE ReviewTyped'
    BY <1>0, <1>2 DEF Exercise, ReviewTyped, Stages
<1>3. ASSUME NEW r \in ReviewRun, FallBack(r) PROVE ReviewTyped'
  <2>1. reviewed[r] \in Heads /\ Join(r)
      BY <1>0, <1>3 DEF FallBack, Informed
  <2> QED
      BY <1>0, <1>3, <2>1, JoinTyped DEF FallBack, ReviewTyped
<1>4. ASSUME NEW r \in ReviewRun, ReviewEnds(r) PROVE ReviewTyped'
    BY <1>0, <1>4, OverTyped DEF ReviewEnds, ReviewTyped
<1>5. ASSUME NEW r \in ReviewRun, ReviewFails(r) PROVE ReviewTyped'
    BY <1>0, <1>5, OverTyped DEF ReviewFails, ReviewTyped
<1>6. ASSUME NEW r \in ReviewRun, NEW said \in {"clean", "remarks", "blocking"}, ModelSubmits(r, said)
      PROVE ReviewTyped'
  <2>1. reviewed[r] \in Heads /\ Join(r)
      BY <1>0, <1>6 DEF ModelSubmits, Informed
  <2>2. judgement' \in [ReviewRun -> Judgements]
      BY <1>0, <1>6 DEF ModelSubmits, ReviewTyped, Judgements
  <2> QED
      BY <1>0, <1>6, <2>1, <2>2, JoinTyped DEF ModelSubmits, ReviewTyped
<1>7. ASSUME NEW h \in Heads, CheckLiveHead(h) PROVE ReviewTyped'
  <2>1. CASE Finished(h, TRUE)
      BY <1>0, <1>7, <2>1, FinishedTyped DEF CheckLiveHead, ReviewTyped
  <2>2. CASE ~ Finished(h, TRUE)
      BY <1>0, <1>7, <2>2 DEF CheckLiveHead, ReviewTyped
  <2> QED
      BY <2>1, <2>2
<1>8. ASSUME NEW h \in Heads, FindReview(h) PROVE ReviewTyped'
  <2>1. CASE Finished(h, TRUE)
      BY <1>0, <1>8, <2>1, FinishedTyped DEF FindReview, ReviewTyped
  <2>2. CASE ~ Finished(h, TRUE)
      BY <1>0, <1>8, <2>2 DEF FindReview, ReviewTyped
  <2> QED
      BY <2>1, <2>2
<1>9. ASSUME NEW h \in Heads, SubmissionFails(h) PROVE ReviewTyped'
    BY <1>0, <1>9, FinishedTyped DEF SubmissionFails, ReviewTyped
<1>10. ASSUME NEW h \in Heads, NEW b \in BOOLEAN, CreateReview(h, b) PROVE ReviewTyped'
    BY <1>0, <1>10, FinishedTyped, PostSound DEF CreateReview, ReviewTyped
<1>11. ASSUME AuthorActs PROVE ReviewTyped'
  <2>1. liveHead' \in Heads
      BY <1>0, <1>11, ReviewConstants DEF AuthorActs, ReviewTyped, Heads
  <2>2. eligible' \in BOOLEAN
      BY <1>0, <1>11 DEF AuthorActs, ReviewTyped
  <2> QED
      BY <1>0, <1>11, <2>1, <2>2 DEF AuthorActs, ReviewTyped
<1>12. ASSUME ReviewersDie PROVE ReviewTyped'
  <2>1. \A p \in posted' : p.head \in Heads /\ p.of \in Heads
    <3>1. CASE UNCHANGED <<posted, extra>>
        BY <1>0, <3>1 DEF ReviewTyped
    <3>2. ASSUME NEW h \in Heads, submission[h] = "creating", Post(h)
          PROVE \A p \in posted' : p.head \in Heads /\ p.of \in Heads
        BY <3>2, PostSound
    <3> QED
        BY <1>12, <3>1, <3>2 DEF ReviewersDie
  <2>2. Over({r \in ReviewRun : doingReview[r] # "idle"})
      BY <1>12 DEF ReviewersDie
  <2>3. {r \in ReviewRun : doingReview[r] # "idle"} \in SUBSET ReviewRun
      OBVIOUS
  <2> QED
      BY <1>0, <1>12, <2>1, <2>2, <2>3, OverTyped DEF ReviewersDie, ReviewTyped
<1>13. CASE UNCHANGED reviewVars
    BY <1>0, <1>13 DEF ReviewTyped, reviewVars
<1> QED
    BY <1>1, <1>2, <1>3, <1>4, <1>5, <1>6, <1>7, <1>8, <1>9, <1>10, <1>11, <1>12, <1>13 DEF ReviewNext

LEMMA WorkingStep == ReviewInv /\ [ReviewNext]_reviewVars => Informed'
<1> SUFFICES ASSUME ReviewInv, [ReviewNext]_reviewVars PROVE Informed'
    OBVIOUS
<1> USE DEF runState, submissions, pullState
<1>0. ReviewTyped /\ Informed
    BY DEF ReviewInv
<1>1. ASSUME NEW r \in ReviewRun, NEW pinned \in 0..MaxHeads, BeginReview(r, pinned)
      PROVE Informed'
    BY <1>0, <1>1 DEF BeginReview, ReviewTyped, Informed, Over, Heads
<1>2. ASSUME NEW r \in ReviewRun, Exercise(r) PROVE Informed'
    BY <1>0, <1>2 DEF Exercise, ReviewTyped, Informed
<1>3. ASSUME NEW r \in ReviewRun, FallBack(r) PROVE Informed'
    BY <1>0, <1>3 DEF FallBack, Join, ReviewTyped, Informed
<1>4. ASSUME NEW r \in ReviewRun, ReviewEnds(r) PROVE Informed'
    BY <1>0, <1>4 DEF ReviewEnds, Over, ReviewTyped, Informed
<1>5. ASSUME NEW r \in ReviewRun, ReviewFails(r) PROVE Informed'
    BY <1>0, <1>5 DEF ReviewFails, Over, ReviewTyped, Informed
<1>6. ASSUME NEW r \in ReviewRun, NEW said \in {"clean", "remarks", "blocking"}, ModelSubmits(r, said)
      PROVE Informed'
    BY <1>0, <1>6 DEF ModelSubmits, Join, ReviewTyped, Informed
<1>7. ASSUME NEW h \in Heads, CheckLiveHead(h) PROVE Informed'
    BY <1>0, <1>7 DEF CheckLiveHead, Finished, Wakes, ReviewTyped, Informed
<1>8. ASSUME NEW h \in Heads, FindReview(h) PROVE Informed'
    BY <1>0, <1>8 DEF FindReview, Finished, Wakes, ReviewTyped, Informed
<1>9. ASSUME NEW h \in Heads, SubmissionFails(h) PROVE Informed'
    BY <1>0, <1>9 DEF SubmissionFails, Finished, Wakes, ReviewTyped, Informed
<1>10. ASSUME NEW h \in Heads, NEW b \in BOOLEAN, CreateReview(h, b) PROVE Informed'
    BY <1>0, <1>10 DEF CreateReview, Finished, Wakes, ReviewTyped, Informed
<1>11. ASSUME AuthorActs PROVE Informed'
    BY <1>0, <1>11 DEF AuthorActs, Informed
<1>12. ASSUME ReviewersDie PROVE Informed'
    BY <1>0, <1>12 DEF ReviewersDie, Over, ReviewTyped, Informed
<1>13. CASE UNCHANGED reviewVars
    BY <1>0, <1>13 DEF Informed, reviewVars
<1> QED
    BY <1>1, <1>2, <1>3, <1>4, <1>5, <1>6, <1>7, <1>8, <1>9, <1>10, <1>11, <1>12, <1>13 DEF ReviewNext

LEMMA CarriedStep == ReviewInv /\ [ReviewNext]_reviewVars => Carried'
<1> SUFFICES ASSUME ReviewInv, [ReviewNext]_reviewVars PROVE Carried'
    OBVIOUS
<1> USE DEF runState, submissions, pullState
<1>0. ReviewTyped /\ Informed /\ Carried
    BY DEF ReviewInv
<1>1. ASSUME NEW r \in ReviewRun, NEW pinned \in 0..MaxHeads, BeginReview(r, pinned)
      PROVE Carried'
    BY <1>0, <1>1 DEF BeginReview, ReviewTyped, Carried, Over
<1>2. ASSUME NEW r \in ReviewRun, Exercise(r) PROVE Carried'
    BY <1>0, <1>2 DEF Exercise, ReviewTyped, Carried
<1>3. ASSUME NEW r \in ReviewRun, doingReview[r] = "judging", Join(r), UNCHANGED reviewed
      PROVE Carried'
  <2>1. reviewed[r] \in Heads
      BY <1>0, <1>3 DEF Informed
  <2>2. CASE submitter[reviewed[r]] = NoRun
    <3>1. submission[reviewed[r]] = "none"
        BY <1>0, <2>1, <2>2, ReviewConstants DEF Carried
    <3>2. \A q \in ReviewRun : doingReview[q] = "submitting" => reviewed[q] \in Heads \ {reviewed[r]}
        BY <1>0, <3>1 DEF Informed, Carried
    <3>3. /\ submitter' = [submitter EXCEPT ![reviewed[r]] = r]
          /\ submission' = [submission EXCEPT ![reviewed[r]] = "checking"]
          /\ doingReview' = [doingReview EXCEPT ![r] = "submitting"]
        BY <1>3, <2>2 DEF Join
    <3> QED
        BY <1>0, <1>3, <2>1, <3>2, <3>3 DEF ReviewTyped, Carried
  <2>3. CASE submitter[reviewed[r]] # NoRun
      BY <1>0, <1>3, <2>1, <2>3 DEF Join, ReviewTyped, Carried
  <2> QED
      BY <2>2, <2>3
<1>4. ASSUME NEW r \in ReviewRun, ReviewEnds(r) PROVE Carried'
    BY <1>0, <1>4 DEF ReviewEnds, Over, ReviewTyped, Carried
<1>5. ASSUME NEW r \in ReviewRun, ReviewFails(r) PROVE Carried'
    BY <1>0, <1>5 DEF ReviewFails, Over, ReviewTyped, Carried
<1>6. ASSUME NEW h \in Heads, NEW b \in BOOLEAN, Finished(h, b), UNCHANGED reviewed
      PROVE Carried'
    BY <1>0, <1>6 DEF Finished, Wakes, ReviewTyped, Informed, Carried
<1>12. ASSUME NEW h \in Heads, NEW to \in {"finding", "creating"}, submission[h] # "none",
              submission' = [submission EXCEPT ![h] = to], UNCHANGED <<doingReview, reviewed, submitter>>
       PROVE Carried'
  <2>1. \A g \in Heads : submission'[g] = (IF g = h THEN to ELSE submission[g])
      BY <1>0, <1>12 DEF ReviewTyped
  <2>2. \A g \in Heads : (submission'[g] = "none") <=> (submission[g] = "none")
      BY <1>12, <2>1
  <2>3. \A r \in ReviewRun : doingReview[r] = "submitting" => reviewed[r] \in Heads
      BY <1>0 DEF Informed
  <2> QED
      BY <1>0, <1>12, <2>2, <2>3 DEF Carried
<1>7. ASSUME NEW h \in Heads, CheckLiveHead(h) PROVE Carried'
  <2>1. CASE Finished(h, TRUE)
      BY <1>6, <1>7, <2>1 DEF CheckLiveHead
  <2>2. CASE ~ Finished(h, TRUE)
      BY <1>12, <1>7, <2>2 DEF CheckLiveHead
  <2> QED
      BY <2>1, <2>2
<1>8. ASSUME NEW h \in Heads, FindReview(h) PROVE Carried'
  <2>1. CASE Finished(h, TRUE)
      BY <1>6, <1>8, <2>1 DEF FindReview
  <2>2. CASE ~ Finished(h, TRUE)
      BY <1>12, <1>8, <2>2 DEF FindReview
  <2> QED
      BY <2>1, <2>2
<1>9. ASSUME AuthorActs PROVE Carried'
    BY <1>0, <1>9 DEF AuthorActs, Carried
<1>10. ASSUME ReviewersDie PROVE Carried'
    BY <1>0, <1>10 DEF ReviewersDie, Over, ReviewTyped, Carried
<1>11. CASE UNCHANGED reviewVars
    BY <1>0, <1>11 DEF Carried, reviewVars
<1> QED
    BY <1>1, <1>2, <1>3, <1>4, <1>5, <1>6, <1>7, <1>8, <1>9, <1>10, <1>11
    DEF ReviewNext, FallBack, ModelSubmits, SubmissionFails, CreateReview

-----------------------------------------------------------------------------
(* One review per head, each approval earned.                              *)

LEMMA PostedStep ==
  ReviewInv /\ [ReviewNext]_reviewVars => Fresh' /\ OneReviewPerHead' /\ ApprovalEarned'
<1> SUFFICES ASSUME ReviewInv, [ReviewNext]_reviewVars
             PROVE  Fresh' /\ OneReviewPerHead' /\ ApprovalEarned'
    OBVIOUS
<1> DEFINE Goal == Fresh' /\ OneReviewPerHead' /\ ApprovalEarned'
<1> USE DEF runState, submissions, pullState
<1>0. ReviewTyped /\ Informed /\ Carried /\ Fresh /\ OneReviewPerHead
    BY DEF ReviewInv
<1>1. ASSUME UNCHANGED <<posted, extra>>,
             \A h \in Heads : submission'[h] = "creating" =>
                               submission[h] = "creating" \/ ReviewOf(h) = {}
      PROVE  Goal
    BY <1>0, <1>1, PostsNothing DEF Fresh
<1>2. ASSUME NEW r \in ReviewRun, Join(r), doingReview[r] = "judging", UNCHANGED <<posted, extra>>
      PROVE Goal
  <2>1. reviewed[r] \in Heads
      BY <1>0, <1>2 DEF Informed
  <2> QED
      BY <1>0, <1>1, <1>2, <2>1 DEF Join, ReviewTyped
<1>3. ASSUME NEW h \in Heads, CheckLiveHead(h) PROVE Goal
    BY <1>0, <1>1, <1>3 DEF CheckLiveHead, Finished, Wakes, ReviewTyped
<1>4. ASSUME NEW h \in Heads, FindReview(h) PROVE Goal
    BY <1>0, <1>1, <1>4 DEF FindReview, Finished, Wakes, ReviewTyped
<1>5. ASSUME NEW h \in Heads, SubmissionFails(h) PROVE Goal
    BY <1>0, <1>1, <1>5 DEF SubmissionFails, Finished, Wakes, ReviewTyped
<1>6. ASSUME NEW h \in Heads, NEW b \in BOOLEAN, CreateReview(h, b) PROVE Goal
  <2>1. ApprovalEarned' /\ extra' = extra /\ \A g \in Heads \ {h} : ReviewOf(g)' = ReviewOf(g)
      BY <1>6, PostSound DEF CreateReview
  <2>2. /\ submission'[h] = "none"
        /\ \A g \in Heads \ {h} : submission'[g] = submission[g]
      BY <1>0, <1>6 DEF CreateReview, Finished, Wakes, ReviewTyped
  <2>3. Fresh'
      BY <1>0, <2>1, <2>2 DEF Fresh
  <2> QED
      BY <1>0, <2>1, <2>3 DEF OneReviewPerHead
<1>7. ASSUME ReviewersDie PROVE Goal
  <2>1. Fresh'
      BY <1>7 DEF ReviewersDie, Fresh
  <2>2. OneReviewPerHead' /\ ApprovalEarned'
    <3>1. CASE UNCHANGED <<posted, extra>>
        BY <3>1, PostsNothing
    <3>2. ASSUME NEW h \in Heads, submission[h] = "creating", Post(h)
          PROVE OneReviewPerHead' /\ ApprovalEarned'
        BY <1>0, <3>2, PostSound DEF OneReviewPerHead
    <3> QED
        BY <1>7, <3>1, <3>2 DEF ReviewersDie
  <2> QED
      BY <2>1, <2>2
<1>8. ASSUME UNCHANGED <<posted, extra, submission>> PROVE Goal
    BY <1>1, <1>8
<1> QED
    BY <1>2, <1>3, <1>4, <1>5, <1>6, <1>7, <1>8
    DEF ReviewNext, BeginReview, Exercise, FallBack, ModelSubmits, ReviewEnds, ReviewFails, AuthorActs, reviewVars

-----------------------------------------------------------------------------

(* The inductive invariant.                                                *)
THEOREM ReviewInvariant == ReviewSpec => []ReviewInv
<1>1. ReviewInv /\ [ReviewNext]_reviewVars => ReviewInv'
    BY TypedStep, WorkingStep, CarriedStep, PostedStep DEF ReviewInv
<1> QED
    BY <1>1, InitReview, PTL DEF ReviewSpec

(* For any number of runs, of processes and of pushes, whatever is lost: a *)
(* head is reviewed once, and approved only after checks that passed by a  *)
(* model that had no finding (capabilities/reviewer/workflow.ts).          *)
THEOREM ReviewsAreEarnedAlways == ReviewSpec => []ReviewsAreEarned
<1>1. ReviewInv => ReviewTypeOK
    BY DEF ReviewInv, ReviewTyped, Carried, ReviewTypeOK
<1>2. ReviewInv => ReviewsAreEarned
    BY <1>1 DEF ReviewInv, ReviewsAreEarned
<1> QED
    BY <1>2, ReviewInvariant, PTL

-----------------------------------------------------------------------------
Demoting == {"demoting", "looking", "noting"}
Owning == {"launching", "admitting"} \cup Demoting

BudgetTyped ==
  /\ standing \subseteq Review
  /\ limit \in 0..MaxRepairCycles
  /\ cycle \in 0..MaxRepairCycles
  /\ repair \in [Review -> {"none", "launched", "over-budget"}]
  /\ launches \in [Review -> Nat]
  /\ notes \in Nat
  /\ doing \in [RepairCall -> {"idle", "asking"} \cup Owning]
  /\ about \in [RepairCall -> Review \cup {NoReview}]
  /\ \A a \in RepairCall : doing[a] = "idle" <=> about[a] = NoReview

Backed ==
  /\ \A v \in Review : launches[v] > 0 => launches[v] = 1 /\ repair[v] = "launched"
  /\ \A a \in RepairCall :
       /\ doing[a] = "launching" => repair[about[a]] = "launched" /\ launches[about[a]] = 0
       /\ doing[a] = "admitting" => repair[about[a]] = "launched" /\ launches[about[a]] = 1
       /\ doing[a] \in Demoting => repair[about[a]] = "over-budget"
  /\ \A a, b \in RepairCall :
       (doing[a] \in Owning /\ doing[b] \in Owning /\ about[a] = about[b]) => a = b

Counted == IsFiniteSet(Launched) /\ cycle = Cardinality(Launched)

OneNote ==
  crowded \/ /\ notes <= 1
             /\ \A a, b \in RepairCall : (doing[a] \in Demoting /\ doing[b] \in Demoting) => a = b
             /\ \A a \in RepairCall : (doing[a] = "noting" /\ a \notin sawNote) => notes = 0

BudgetInv == BudgetTyped /\ Backed /\ Counted /\ ReservationsStand /\ OneNote

LEMMA InitBudget == BudgetInit => BudgetInv
<1> SUFFICES ASSUME BudgetInit PROVE BudgetInv
    OBVIOUS
<1>1. BudgetTyped
    BY DEF BudgetInit, BudgetTyped, MaxRepairCycles
<1>2. Backed /\ OneNote
    BY DEF BudgetInit, Backed, OneNote, Owning, Demoting
<1>3. Counted
  <2>1. Launched = {}
      BY DEF BudgetInit, Launched
  <2> QED
      BY <2>1, FS_EmptySet DEF BudgetInit, Counted
<1>4. ReservationsStand
    BY DEF BudgetInit, ReservationsStand
<1> QED
    BY <1>1, <1>2, <1>3, <1>4 DEF BudgetInv

-----------------------------------------------------------------------------
(* The rows.                                                               *)

(* A call that owns a review is about one.                                 *)
LEMMA AboutReview ==
  ASSUME BudgetTyped, NEW a \in RepairCall, doing[a] # "idle"
  PROVE  about[a] \in Review
BY DEF BudgetTyped

(* A reservation counts itself.                                            *)
LEMMA ReservedIsCounted ==
  ASSUME BudgetTyped, Counted, NEW v \in Review, repair[v] = "none", cycle < limit,
         repair' = [repair EXCEPT ![v] = "launched"], cycle' = cycle + 1
  PROVE  Counted' /\ cycle' \in 0..MaxRepairCycles
<1>1. Launched' = Launched \cup {v} /\ v \notin Launched
    BY DEF BudgetTyped, Launched
<1>2. IsFiniteSet(Launched') /\ Cardinality(Launched') = Cardinality(Launched) + 1
    BY <1>1, FS_AddElement DEF Counted
<1> QED
    BY <1>2 DEF BudgetTyped, Counted, MaxRepairCycles

(* A reservation that is given back uncounts itself.                       *)
LEMMA ReleasedIsUncounted ==
  ASSUME BudgetTyped, Counted, NEW v \in Review, Release(v)
  PROVE  Counted' /\ cycle' \in 0..MaxRepairCycles
<1>1. Launched' = Launched \ {v}
    BY DEF BudgetTyped, Launched, Release
<1>2. CASE repair[v] = "launched"
  <2>1. v \in Launched
      BY <1>2 DEF Launched
  <2>2. IsFiniteSet(Launched') /\ Cardinality(Launched') = Cardinality(Launched) - 1
      BY <1>1, <2>1, FS_RemoveElement DEF Counted
  <2>3. Cardinality(Launched) > 0
      BY <2>1, FS_EmptySet, FS_CardinalityType DEF Counted
  <2> QED
      BY <1>2, <2>2, <2>3 DEF BudgetTyped, Counted, Release, MaxRepairCycles
<1>3. CASE repair[v] # "launched"
  <2>1. Launched' = Launched
      BY <1>1, <1>3 DEF Launched
  <2> QED
      BY <1>3, <2>1 DEF BudgetTyped, Counted, Release
<1> QED
    BY <1>2, <1>3

LEMMA LaunchedUnchanged ==
  ASSUME Counted, UNCHANGED cycle, Launched' = Launched
  PROVE  Counted'
BY DEF Counted

-----------------------------------------------------------------------------
(* Each part is kept.                                                      *)

LEMMA BudgetTypedStep == BudgetInv /\ [BudgetNext]_budgetVars => BudgetTyped'
<1> SUFFICES ASSUME BudgetInv, [BudgetNext]_budgetVars PROVE BudgetTyped'
    OBVIOUS
<1> USE DEF rowVars, pullVars, callState, budgetHistory
<1>0. BudgetTyped /\ Backed /\ Counted /\ ReservationsStand /\ OneNote
    BY DEF BudgetInv
<1>1. ASSUME NEW a \in RepairCall, NEW v \in Review, Call(a, v) PROVE BudgetTyped'
    BY <1>0, <1>1, BudgetConstants DEF Call, Move, BudgetTyped, Owning, Demoting
<1>2. ASSUME NEW a \in RepairCall, Refuse(a) PROVE BudgetTyped'
    BY <1>0, <1>2 DEF Refuse, Move, Answer, BudgetTyped
<1>3. ASSUME NEW a \in RepairCall, Reserve(a) PROVE BudgetTyped'
  <2>1. about[a] \in Review
      BY <1>0, <1>3, AboutReview DEF Reserve
  <2>2. cycle' \in 0..MaxRepairCycles
    <3>1. CASE cycle >= limit
        BY <1>0, <1>3, <3>1 DEF Reserve, BudgetTyped
    <3>2. CASE ~ (cycle >= limit)
      <4>1. cycle < limit
          BY <1>0, <3>2 DEF BudgetTyped, MaxRepairCycles
      <4> QED
          BY <1>0, <1>3, <2>1, <3>2, <4>1, ReservedIsCounted DEF Reserve
    <3> QED
        BY <3>1, <3>2
  <2>3. repair' \in [Review -> {"none", "launched", "over-budget"}]
      BY <1>0, <1>3 DEF Reserve, BudgetTyped
  <2>4. /\ doing' \in [RepairCall -> {"idle", "asking"} \cup Owning]
        /\ \A b \in RepairCall : doing'[b] = "idle" <=> about'[b] = NoReview
      BY <1>0, <1>3 DEF Reserve, Move, BudgetTyped, Owning, Demoting
  <2> QED
      BY <1>0, <1>3, <2>2, <2>3, <2>4 DEF Reserve, BudgetTyped
<1>4. ASSUME NEW a \in RepairCall, LaunchReserved(a) PROVE BudgetTyped'
    BY <1>0, <1>4 DEF LaunchReserved, Move, BudgetTyped, Owning, Demoting
<1>5. ASSUME NEW a \in RepairCall, LaunchRefused(a) PROVE BudgetTyped'
  <2>1. about[a] \in Review
      BY <1>0, <1>5, AboutReview DEF LaunchRefused
  <2>2. cycle' \in 0..MaxRepairCycles
      BY <1>0, <1>5, <2>1, ReleasedIsUncounted DEF LaunchRefused
  <2> QED
      BY <1>0, <1>5, <2>2 DEF LaunchRefused, Release, Answer, Move, BudgetTyped
<1>6. ASSUME NEW a \in RepairCall, Admitted(a) PROVE BudgetTyped'
    BY <1>0, <1>6 DEF Admitted, Move, Answer, BudgetTyped
<1>7. ASSUME NEW a \in RepairCall, ConvertToDraft(a) PROVE BudgetTyped'
    BY <1>0, <1>7 DEF ConvertToDraft, Move, BudgetTyped, Owning, Demoting
<1>8. ASSUME NEW a \in RepairCall, LookForNote(a) PROVE BudgetTyped'
    BY <1>0, <1>8 DEF LookForNote, Move, BudgetTyped, Owning, Demoting
<1>9. ASSUME NEW a \in RepairCall, WriteNote(a) PROVE BudgetTyped'
    BY <1>0, <1>9 DEF WriteNote, Noted, Move, Answer, BudgetTyped
<1>10. ASSUME NEW a \in RepairCall, DemotionFails(a) PROVE BudgetTyped'
  <2>1. about[a] \in Review
      BY <1>0, <1>10, AboutReview DEF DemotionFails
  <2>2. cycle' \in 0..MaxRepairCycles
      BY <1>0, <1>10, <2>1, ReleasedIsUncounted DEF DemotionFails
  <2>3. notes' \in Nat
      BY <1>0, <1>10 DEF DemotionFails, Noted, BudgetTyped
  <2> QED
      BY <1>0, <1>10, <2>2, <2>3 DEF DemotionFails, Release, Answer, Move, BudgetTyped
<1>11. ASSUME NEW most \in 0..MaxBudget, Upsert(most) PROVE BudgetTyped'
    BY <1>0, <1>11 DEF Upsert, BudgetTyped, MaxRepairCycles
<1>12. ASSUME NEW v \in Review, Dismiss(v) PROVE BudgetTyped'
    BY <1>0, <1>12 DEF BudgetTyped, Dismiss
<1>13. ASSUME ToolDies PROVE BudgetTyped'
    BY <1>0, <1>13 DEF BudgetTyped, ToolDies
<1>14. CASE UNCHANGED budgetVars
    BY <1>0, <1>14 DEF BudgetTyped, budgetVars
<1> QED
    BY <1>1, <1>2, <1>3, <1>4, <1>5, <1>6, <1>7, <1>8, <1>9, <1>10, <1>11, <1>12, <1>13, <1>14 DEF BudgetNext

LEMMA BackedStep == BudgetInv /\ [BudgetNext]_budgetVars => Backed'
<1> SUFFICES ASSUME BudgetInv, [BudgetNext]_budgetVars PROVE Backed'
    OBVIOUS
<1> USE DEF rowVars, pullVars, callState, budgetHistory
<1>0. BudgetTyped /\ Backed /\ Counted /\ ReservationsStand /\ OneNote
    BY DEF BudgetInv
<1>1. ASSUME NEW a \in RepairCall, NEW v \in Review, Call(a, v) PROVE Backed'
    BY <1>0, <1>1 DEF Call, Move, BudgetTyped, Backed, Owning, Demoting
<1>2. ASSUME NEW a \in RepairCall, Refuse(a) PROVE Backed'
    BY <1>0, <1>2 DEF Refuse, Move, Answer, BudgetTyped, Backed, Owning, Demoting
<1>3. ASSUME NEW a \in RepairCall, Reserve(a) PROVE Backed'
    BY <1>0, <1>3 DEF Reserve, Move, BudgetTyped, Backed, Owning, Demoting
<1>4. ASSUME NEW a \in RepairCall, LaunchReserved(a) PROVE Backed'
    BY <1>0, <1>4 DEF LaunchReserved, Move, BudgetTyped, Backed, Owning, Demoting
<1>5. ASSUME NEW a \in RepairCall, LaunchRefused(a) PROVE Backed'
    BY <1>0, <1>5 DEF LaunchRefused, Release, Move, Answer, BudgetTyped, Backed, Owning, Demoting
<1>6. ASSUME NEW a \in RepairCall, Admitted(a) PROVE Backed'
    BY <1>0, <1>6 DEF Admitted, Move, Answer, BudgetTyped, Backed, Owning, Demoting
<1>7. ASSUME NEW a \in RepairCall, ConvertToDraft(a) PROVE Backed'
    BY <1>0, <1>7 DEF ConvertToDraft, Move, BudgetTyped, Backed, Owning, Demoting
<1>8. ASSUME NEW a \in RepairCall, LookForNote(a) PROVE Backed'
    BY <1>0, <1>8 DEF LookForNote, Move, BudgetTyped, Backed, Owning, Demoting
<1>9. ASSUME NEW a \in RepairCall, WriteNote(a) PROVE Backed'
    BY <1>0, <1>9 DEF WriteNote, Noted, Move, Answer, BudgetTyped, Backed, Owning, Demoting
<1>10. ASSUME NEW a \in RepairCall, DemotionFails(a) PROVE Backed'
    BY <1>0, <1>10 DEF DemotionFails, Release, Move, Answer, BudgetTyped, Backed, Owning, Demoting
<1>11. ASSUME NEW most \in 0..MaxBudget, Upsert(most) PROVE Backed'
    BY <1>0, <1>11 DEF Backed, Upsert
<1>12. ASSUME NEW v \in Review, Dismiss(v) PROVE Backed'
    BY <1>0, <1>12 DEF Backed, Dismiss
<1>13. ASSUME ToolDies PROVE Backed'
    BY <1>0, <1>13 DEF ToolDies, Backed, Owning, Demoting
<1>14. CASE UNCHANGED budgetVars
    BY <1>0, <1>14 DEF Backed, budgetVars
<1> QED
    BY <1>1, <1>2, <1>3, <1>4, <1>5, <1>6, <1>7, <1>8, <1>9, <1>10, <1>11, <1>12, <1>13, <1>14 DEF BudgetNext

LEMMA CountedStep == BudgetInv /\ [BudgetNext]_budgetVars => Counted'
<1> SUFFICES ASSUME BudgetInv, [BudgetNext]_budgetVars PROVE Counted'
    OBVIOUS
<1> USE DEF rowVars, pullVars, callState, budgetHistory
<1>0. BudgetTyped /\ Backed /\ Counted /\ ReservationsStand /\ OneNote
    BY DEF BudgetInv
<1>1. ASSUME NEW a \in RepairCall, NEW v \in Review, Call(a, v) PROVE Counted'
  <2>1. Launched' = Launched
      BY <1>1 DEF Call, Launched
  <2> QED
      BY <1>0, <1>1, <2>1, LaunchedUnchanged DEF Call
<1>2. ASSUME NEW a \in RepairCall, Refuse(a) PROVE Counted'
  <2>1. Launched' = Launched
      BY <1>2 DEF Refuse, Launched
  <2> QED
      BY <1>0, <1>2, <2>1, LaunchedUnchanged DEF Refuse
<1>3. ASSUME NEW a \in RepairCall, Reserve(a) PROVE Counted'
  <2>1. about[a] \in Review
      BY <1>0, <1>3, AboutReview DEF Reserve
  <2>2. CASE cycle >= limit
    <3>1. Launched' = Launched
        BY <1>0, <1>3, <2>1, <2>2 DEF Reserve, Launched, BudgetTyped
    <3> QED
        BY <1>0, <1>3, <2>2, <3>1, LaunchedUnchanged DEF Reserve
  <2>3. CASE ~ (cycle >= limit)
    <3>1. cycle < limit
        BY <1>0, <2>3 DEF BudgetTyped, MaxRepairCycles
    <3> QED
        BY <1>0, <1>3, <2>1, <2>3, <3>1, ReservedIsCounted DEF Reserve
  <2> QED
      BY <2>2, <2>3
<1>4. ASSUME NEW a \in RepairCall, LaunchReserved(a) PROVE Counted'
  <2>1. Launched' = Launched
      BY <1>4 DEF LaunchReserved, Launched
  <2> QED
      BY <1>0, <1>4, <2>1, LaunchedUnchanged DEF LaunchReserved
<1>5. ASSUME NEW a \in RepairCall, LaunchRefused(a) PROVE Counted'
  <2>1. about[a] \in Review
      BY <1>0, <1>5, AboutReview DEF LaunchRefused
  <2> QED
      BY <1>0, <1>5, <2>1, ReleasedIsUncounted DEF LaunchRefused
<1>6. ASSUME NEW a \in RepairCall, Admitted(a) PROVE Counted'
  <2>1. Launched' = Launched
      BY <1>6 DEF Admitted, Launched
  <2> QED
      BY <1>0, <1>6, <2>1, LaunchedUnchanged DEF Admitted
<1>7. ASSUME NEW a \in RepairCall, ConvertToDraft(a) PROVE Counted'
  <2>1. Launched' = Launched
      BY <1>7 DEF ConvertToDraft, Launched
  <2> QED
      BY <1>0, <1>7, <2>1, LaunchedUnchanged DEF ConvertToDraft
<1>8. ASSUME NEW a \in RepairCall, LookForNote(a) PROVE Counted'
  <2>1. Launched' = Launched
      BY <1>8 DEF LookForNote, Launched
  <2> QED
      BY <1>0, <1>8, <2>1, LaunchedUnchanged DEF LookForNote
<1>9. ASSUME NEW a \in RepairCall, WriteNote(a) PROVE Counted'
  <2>1. Launched' = Launched
      BY <1>9 DEF WriteNote, Launched
  <2> QED
      BY <1>0, <1>9, <2>1, LaunchedUnchanged DEF WriteNote
<1>10. ASSUME NEW a \in RepairCall, DemotionFails(a) PROVE Counted'
  <2>1. about[a] \in Review
      BY <1>0, <1>10, AboutReview DEF DemotionFails
  <2> QED
      BY <1>0, <1>10, <2>1, ReleasedIsUncounted DEF DemotionFails
<1>11. ASSUME NEW most \in 0..MaxBudget, Upsert(most) PROVE Counted'
  <2>1. Launched' = Launched
      BY <1>11 DEF Upsert, Launched
  <2> QED
      BY <1>0, <1>11, <2>1, LaunchedUnchanged DEF Upsert
<1>12. ASSUME NEW v \in Review, Dismiss(v) PROVE Counted'
  <2>1. Launched' = Launched
      BY <1>12 DEF Dismiss, Launched
  <2> QED
      BY <1>0, <1>12, <2>1, LaunchedUnchanged DEF Dismiss
<1>13. ASSUME ToolDies PROVE Counted'
  <2>1. Launched' = Launched
      BY <1>13 DEF ToolDies, Launched
  <2> QED
      BY <1>0, <1>13, <2>1, LaunchedUnchanged DEF ToolDies
<1>14. CASE UNCHANGED budgetVars
  <2>1. Launched' = Launched
      BY <1>14 DEF budgetVars, Launched
  <2> QED
      BY <1>0, <1>14, <2>1, LaunchedUnchanged DEF budgetVars
<1> QED
    BY <1>1, <1>2, <1>3, <1>4, <1>5, <1>6, <1>7, <1>8, <1>9, <1>10, <1>11, <1>12, <1>13, <1>14 DEF BudgetNext

LEMMA ReservationsStep == BudgetInv /\ [BudgetNext]_budgetVars => ReservationsStand'
<1> SUFFICES ASSUME BudgetInv, [BudgetNext]_budgetVars PROVE ReservationsStand'
    OBVIOUS
<1> USE DEF rowVars, pullVars, callState, budgetHistory
<1>0. BudgetTyped /\ Backed /\ Counted /\ ReservationsStand /\ OneNote
    BY DEF BudgetInv
<1>1. ASSUME NEW a \in RepairCall, NEW v \in Review, Call(a, v) PROVE ReservationsStand'
  <2>1. about[a] = NoReview
      BY <1>0, <1>1 DEF Call, BudgetTyped
  <2>2. \A b \in RepairCall \ {a} : about'[b] = about[b] /\ doing'[b] = doing[b]
      BY <1>0, <1>1 DEF Call, Move, BudgetTyped
  <2> QED
      BY <1>0, <1>1, <2>1, <2>2, BudgetConstants DEF Call, ReservationsStand
<1>2. ASSUME NEW a \in RepairCall, Refuse(a) PROVE ReservationsStand'
    BY <1>0, <1>2 DEF Refuse, Move, Answer, BudgetTyped, Backed, ReservationsStand, Owning, Demoting
<1>3. ASSUME NEW a \in RepairCall, Reserve(a) PROVE ReservationsStand'
    BY <1>0, <1>3 DEF Reserve, Move, BudgetTyped, Backed, ReservationsStand, Owning, Demoting
<1>4. ASSUME NEW a \in RepairCall, LaunchReserved(a) PROVE ReservationsStand'
    BY <1>0, <1>4 DEF LaunchReserved, Move, BudgetTyped, Backed, ReservationsStand, Owning, Demoting
<1>5. ASSUME NEW a \in RepairCall, LaunchRefused(a) PROVE ReservationsStand'
    BY <1>0, <1>5 DEF LaunchRefused, Release, Move, Answer, BudgetTyped, Backed, ReservationsStand, Owning, Demoting
<1>6. ASSUME NEW a \in RepairCall, Admitted(a) PROVE ReservationsStand'
    BY <1>0, <1>6 DEF Admitted, Move, Answer, BudgetTyped, Backed, ReservationsStand, Owning, Demoting
<1>7. ASSUME NEW a \in RepairCall, ConvertToDraft(a) PROVE ReservationsStand'
    BY <1>0, <1>7 DEF ConvertToDraft, Move, BudgetTyped, Backed, ReservationsStand, Owning, Demoting
<1>8. ASSUME NEW a \in RepairCall, LookForNote(a) PROVE ReservationsStand'
    BY <1>0, <1>8 DEF LookForNote, Move, BudgetTyped, Backed, ReservationsStand, Owning, Demoting
<1>9. ASSUME NEW a \in RepairCall, WriteNote(a) PROVE ReservationsStand'
    BY <1>0, <1>9 DEF WriteNote, Move, Answer, Noted, BudgetTyped, Backed, ReservationsStand, Owning, Demoting
<1>10. ASSUME NEW a \in RepairCall, DemotionFails(a) PROVE ReservationsStand'
    BY <1>0, <1>10 DEF DemotionFails, Release, Move, Answer, BudgetTyped, Backed, ReservationsStand, Owning, Demoting
<1>11. ASSUME NEW most \in 0..MaxBudget, Upsert(most) PROVE ReservationsStand'
    BY <1>0, <1>11 DEF ReservationsStand, Upsert
<1>12. ASSUME NEW v \in Review, Dismiss(v) PROVE ReservationsStand'
    BY <1>0, <1>12 DEF ReservationsStand, Dismiss
<1>13. ASSUME ToolDies PROVE ReservationsStand'
    BY <1>0, <1>13 DEF ToolDies, BudgetTyped, Backed, ReservationsStand, Owning, Demoting
<1>14. CASE UNCHANGED budgetVars
    BY <1>0, <1>14 DEF ReservationsStand, budgetVars
<1> QED
    BY <1>1, <1>2, <1>3, <1>4, <1>5, <1>6, <1>7, <1>8, <1>9, <1>10, <1>11, <1>12, <1>13, <1>14 DEF BudgetNext

LEMMA OneNoteStep == BudgetInv /\ [BudgetNext]_budgetVars => OneNote'
<1> SUFFICES ASSUME BudgetInv, [BudgetNext]_budgetVars PROVE OneNote'
    OBVIOUS
<1> USE DEF rowVars, pullVars, callState, budgetHistory
<1>0. BudgetTyped /\ Backed /\ Counted /\ ReservationsStand /\ OneNote
    BY DEF BudgetInv
<1>1. ASSUME NEW a \in RepairCall, NEW v \in Review, Call(a, v) PROVE OneNote'
    BY <1>0, <1>1 DEF Call, Move, BudgetTyped, OneNote, Demoting
<1>2. ASSUME NEW a \in RepairCall, Refuse(a) PROVE OneNote'
    BY <1>0, <1>2 DEF Refuse, Move, Answer, BudgetTyped, OneNote, Demoting
<1>3. ASSUME NEW a \in RepairCall, Reserve(a) PROVE OneNote'
  <2>1. CASE cycle >= limit
    <3>1. crowded' = (crowded \/ \E o \in RepairCall : doing[o] \in Demoting)
        BY <1>3, <2>1 DEF Reserve, Demoting
    <3>2. /\ doing' = [doing EXCEPT ![a] = "demoting"]
          /\ notes' = notes /\ sawNote' = sawNote
        BY <1>3, <2>1 DEF Reserve, Move
    <3> QED
        BY <1>0, <3>1, <3>2 DEF BudgetTyped, OneNote, Demoting
  <2>2. CASE ~ (cycle >= limit)
    <3>1. crowded' = crowded /\ notes' = notes /\ sawNote' = sawNote
        BY <1>3, <2>2 DEF Reserve
    <3>2. doing' = [doing EXCEPT ![a] = "launching"]
        BY <1>3, <2>2 DEF Reserve, Move
    <3> QED
        BY <1>0, <3>1, <3>2 DEF BudgetTyped, OneNote, Demoting
  <2> QED
      BY <2>1, <2>2
<1>4. ASSUME NEW a \in RepairCall, LaunchReserved(a) PROVE OneNote'
    BY <1>0, <1>4 DEF LaunchReserved, Move, BudgetTyped, OneNote, Demoting
<1>5. ASSUME NEW a \in RepairCall, LaunchRefused(a) PROVE OneNote'
    BY <1>0, <1>5 DEF LaunchRefused, Move, Answer, BudgetTyped, OneNote, Demoting
<1>6. ASSUME NEW a \in RepairCall, Admitted(a) PROVE OneNote'
    BY <1>0, <1>6 DEF Admitted, Move, Answer, BudgetTyped, OneNote, Demoting
<1>7. ASSUME NEW a \in RepairCall, ConvertToDraft(a) PROVE OneNote'
    BY <1>0, <1>7 DEF ConvertToDraft, Move, BudgetTyped, OneNote, Demoting
<1>8. ASSUME NEW a \in RepairCall, LookForNote(a) PROVE OneNote'
    BY <1>0, <1>8 DEF LookForNote, Move, BudgetTyped, OneNote, Demoting
<1>9. ASSUME NEW a \in RepairCall, WriteNote(a) PROVE OneNote'
    BY <1>0, <1>9 DEF WriteNote, Move, Answer, Noted, BudgetTyped, OneNote, Demoting
<1>10. ASSUME NEW a \in RepairCall, DemotionFails(a) PROVE OneNote'
    BY <1>0, <1>10 DEF DemotionFails, Move, Answer, Noted, BudgetTyped, OneNote, Demoting
<1>11. ASSUME NEW most \in 0..MaxBudget, Upsert(most) PROVE OneNote'
    BY <1>0, <1>11 DEF OneNote, Upsert
<1>12. ASSUME NEW v \in Review, Dismiss(v) PROVE OneNote'
    BY <1>0, <1>12 DEF OneNote, Dismiss
<1>13. ASSUME ToolDies PROVE OneNote'
    BY <1>0, <1>13 DEF ToolDies, BudgetTyped, OneNote, Demoting
<1>14. CASE UNCHANGED budgetVars
    BY <1>0, <1>14 DEF OneNote, budgetVars
<1> QED
    BY <1>1, <1>2, <1>3, <1>4, <1>5, <1>6, <1>7, <1>8, <1>9, <1>10, <1>11, <1>12, <1>13, <1>14 DEF BudgetNext

-----------------------------------------------------------------------------

(* The inductive invariant.                                                *)
THEOREM BudgetInvariant == BudgetSpec => []BudgetInv
<1>1. BudgetInv /\ [BudgetNext]_budgetVars => BudgetInv'
    BY BudgetTypedStep, BackedStep, CountedStep, ReservationsStep, OneNoteStep DEF BudgetInv
<1> QED
    BY <1>1, InitBudget, PTL DEF BudgetSpec

(* For any number of reviews, calls, failures and deaths: a review leads   *)
(* to one launch, a pull request to its budget, no reservation is kept      *)
(* without what it was made for, and one note is written unless two        *)
(* demotions overlap (capabilities/coder/repair-tool.ts, registry.ts).     *)
THEOREM BudgetIsKeptAlways == BudgetSpec => []BudgetIsKept
<1>1. BudgetInv => BudgetTypeOK
    BY DEF BudgetInv, BudgetTyped, BudgetTypeOK
<1>2. BudgetInv => RepairsWithinBudget
  <2> SUFFICES ASSUME BudgetInv PROVE RepairsWithinBudget
      OBVIOUS
  <2> DEFINE run == {v \in Review : launches[v] > 0}
  <2>1. run \subseteq Launched /\ \A v \in Review : launches[v] <= 1
      BY DEF BudgetInv, BudgetTyped, Backed, Launched
  <2>2. IsFiniteSet(Launched) /\ cycle = Cardinality(Launched) /\ cycle \in 0..MaxRepairCycles
      BY DEF BudgetInv, BudgetTyped, Counted
  <2>3. IsFiniteSet(run) /\ Cardinality(run) <= Cardinality(Launched)
      BY <2>1, <2>2, FS_Subset
  <2>4. Cardinality(run) \in Nat
      BY <2>3, FS_CardinalityType
  <2>5. Cardinality(run) <= MaxRepairCycles
      BY <2>2, <2>3, <2>4 DEF MaxRepairCycles
  <2> QED
      BY <2>1, <2>2, <2>5 DEF RepairsWithinBudget
<1>3. BudgetInv => NotesConverge
    BY DEF BudgetInv, BudgetTyped, OneNote, NotesConverge
<1>4. BudgetInv => BudgetIsKept
    BY <1>1, <1>2, <1>3 DEF BudgetInv, BudgetIsKept
<1> QED
    BY <1>4, BudgetInvariant, PTL

-----------------------------------------------------------------------------
(* The ancestors of a commit.                                              *)

(* A set of naturals has a least member, and so induction up to N needs no *)
(* more than the set of the numbers the claim holds of.                    *)
LEMMA LeastExists ==
  ASSUME NEW T \in SUBSET Nat, T # {}
  PROVE  \E n \in T : \A m \in T : n <= m
<1> DEFINE R == OpToRel(<, Nat)
<1>1. IsWellFoundedOn(R, Nat) BY NatLessThanWellFounded
<1>2. \E n \in T : \A m \in T : ~(<<m, n>> \in R)
  <2> HIDE DEF R
  <2> QED BY <1>1, WFMin
<1>3. \A m, n \in T : m < n => <<m, n>> \in R BY DEF OpToRel
<1> HIDE DEF R
<1>4. PICK n \in T : \A m \in T : ~(<<m, n>> \in R) BY <1>2
<1>5. \A m \in T : ~(m < n) BY <1>3, <1>4
<1>6. \A m \in T : n <= m BY <1>5
<1> QED BY <1>6

LEMMA UpTo ==
  ASSUME NEW N \in Nat, NEW T, 0 \in T, \A n \in 0..(N - 1) : n \in T => n + 1 \in T
  PROVE  \A n \in 0..N : n \in T
<1> DEFINE B == {n \in 0..N : n \notin T}
<1> SUFFICES ASSUME B # {} PROVE FALSE
  OBVIOUS
<1>0. B \in SUBSET Nat OBVIOUS
<1>1. PICK n \in B : \A m \in B : n <= m
  <2> HIDE DEF B
  <2> QED BY <1>0, LeastExists
<1>2. n # 0 /\ n \in 1..N OBVIOUS
<1>3. n - 1 \notin B BY <1>1, <1>2
<1>4. n - 1 \in T /\ n - 1 \in 0..(N-1) BY <1>2, <1>3
<1>5. (n - 1) + 1 = n BY <1>2
<1> QED BY <1>4, <1>5, <1>1

(* Each commit has an earlier parent. *)
Descends(p) == \A c \in Commit : p[c] \in 0..(c - 1)

(* The line of every commit up to n, by the parents p.                     *)
Lines(p, n) == {f \in [0..n -> SUBSET Nat] :
                 \A k \in 0..n : f[k] = IF k = 0 THEN {} ELSE {k} \cup f[p[k]]}

LEMMA LineExists ==
  ASSUME NEW p, Descends(p)
  PROVE  Lines(p, MaxCommits) # {}
<1> DEFINE T == {n \in 0..MaxCommits : Lines(p, n) # {}}
<1>0. MaxCommits \in Nat BY CoderConstants
<1>1. 0 \in T
  <2> DEFINE f == [k \in 0..0 |-> {}]
  <2>1. f \in Lines(p, 0) BY DEF Lines
  <2> QED BY <1>0, <2>1
<1>2. ASSUME NEW n \in 0..(MaxCommits - 1), n \in T PROVE n + 1 \in T
  <2>0. n + 1 \in Commit /\ n \in Nat BY <1>0 DEF Commit
  <2>1. PICK f : f \in Lines(p, n) BY <1>2
  <2>f. /\ f \in [0..n -> SUBSET Nat]
        /\ \A k \in 0..n : f[k] = IF k = 0 THEN {} ELSE {k} \cup f[p[k]]
    BY <2>1 DEF Lines
  <2> DEFINE g == [k \in 0..(n+1) |-> IF k = n + 1 THEN {k} \cup f[p[k]] ELSE f[k]]
  <2>2. p[n+1] \in 0..n BY <2>0 DEF Descends
  <2>3. f[p[n+1]] \in SUBSET Nat BY <2>2, <2>f
  <2>4. \A k \in 0..n : f[k] \in SUBSET Nat BY <2>f
  <2>5. g \in [0..(n+1) -> SUBSET Nat] BY <2>0, <2>3, <2>4
  <2>6. \A k \in 0..n : g[k] = f[k] BY <2>0
  <2>7. g[n+1] = {n+1} \cup f[p[n+1]] BY <2>0
  <2>8. ASSUME NEW k \in 0..(n+1) PROVE g[k] = IF k = 0 THEN {} ELSE {k} \cup g[p[k]]
    <3> HIDE DEF g
    <3>1. CASE k = n + 1 BY <3>1, <2>0, <2>2, <2>6, <2>7
    <3>2. CASE k = 0 BY <3>2, <2>0, <2>6, <2>f
    <3>3. CASE k # n + 1 /\ k # 0
      <4>1. k \in 0..n /\ k \in Commit BY <3>3, <2>0, <1>0 DEF Commit
      <4>2. p[k] \in 0..n BY <4>1, <2>0 DEF Descends, Commit
      <4> QED BY <4>1, <4>2, <3>3, <2>6, <2>f
    <3> QED BY <3>1, <3>2, <3>3
  <2>9. g \in Lines(p, n + 1)
    <3> HIDE DEF g
    <3> QED BY <2>5, <2>8 DEF Lines
  <2> QED BY <2>0, <2>9, <1>0 DEF Commit
<1>3. MaxCommits \in T
  <2> HIDE DEF T
  <2>1. \A n \in 0..MaxCommits : n \in T BY <1>0, <1>1, <1>2, UpTo
  <2> QED BY <1>0, <2>1
<1> QED BY <1>3

(* Ancestors, of any parents.                                              *)
AncestorsBy(p, c) ==
  LET line[k \in 0..MaxCommits] == IF k = 0 THEN {} ELSE {k} \cup line[p[k]]
  IN  line[c]

LEMMA Unfold ==
  ASSUME NEW p, Descends(p), NEW c \in 0..MaxCommits
  PROVE  AncestorsBy(p, c) = IF c = 0 THEN {} ELSE {c} \cup AncestorsBy(p, p[c])
<1> DEFINE F(g) == [k \in 0..MaxCommits |-> IF k = 0 THEN {} ELSE {k} \cup g[p[k]]]
<1> DEFINE line == CHOOSE g : g = F(g)
<1>1. \E g : g = F(g)
  <2>1. PICK f : f \in Lines(p, MaxCommits) BY LineExists
  <2>2. f = F(f) BY <2>1 DEF Lines
  <2> QED BY <2>2
<1>2. line = F(line)
  <2> HIDE DEF F
  <2> QED BY <1>1, Zenon
<1>3. \A d : AncestorsBy(p, d) = line[d] BY Zenon DEF AncestorsBy
<1>4. line[c] = IF c = 0 THEN {} ELSE {c} \cup line[p[c]]
  <2> HIDE DEF line
  <2> QED BY <1>2
<1>5. c # 0 => p[c] \in 0..MaxCommits
  BY CoderConstants DEF Descends, Commit
<1>6. AncestorsBy(p, c) = line[c] /\ AncestorsBy(p, p[c]) = line[p[c]]
  BY <1>3
<1> HIDE DEF line
<1> QED BY <1>4, <1>6

LEMMA AncestorsClosed ==
  ASSUME NEW p, Descends(p)
  PROVE  \A h \in 0..MaxCommits : \A a \in AncestorsBy(p, h) :
           a \in 1..h /\ AncestorsBy(p, a) \subseteq AncestorsBy(p, h)
<1> DEFINE Good(h) == \A a \in AncestorsBy(p, h) :
                        a \in 1..h /\ AncestorsBy(p, a) \subseteq AncestorsBy(p, h)
           T == {n \in 0..MaxCommits : \A h \in 0..n : Good(h)}
<1>0. MaxCommits \in Nat BY CoderConstants
<1>1. 0 \in T
  <2>1. AncestorsBy(p, 0) = {} BY <1>0, Unfold
  <2> QED BY <1>0, <2>1
<1>2. ASSUME NEW n \in 0..(MaxCommits - 1), n \in T PROVE n + 1 \in T
  <2>1. n + 1 \in Commit /\ n + 1 \in 0..MaxCommits /\ n + 1 # 0 /\ n \in Nat
    BY <1>0 DEF Commit
  <2>2. p[n + 1] \in 0..n
    BY <2>1 DEF Descends
  <2>3. AncestorsBy(p, n + 1) = {n + 1} \cup AncestorsBy(p, p[n + 1])
    BY <2>1, Unfold
  <2>4. Good(p[n + 1])
    BY <1>2, <2>2
  <2>5. \A a \in 1..p[n + 1] : a \in 1..(n + 1)
    BY <2>1, <2>2
  <2>6. n + 1 \in 1..(n + 1)
    BY <2>1
  <2>7. ASSUME NEW a \in AncestorsBy(p, n + 1)
        PROVE  a \in 1..(n + 1) /\ AncestorsBy(p, a) \subseteq AncestorsBy(p, n + 1)
    <3>1. CASE a = n + 1
      BY <2>6, <3>1
    <3>2. CASE a \in AncestorsBy(p, p[n + 1])
      <4>1. a \in 1..p[n + 1] /\ AncestorsBy(p, a) \subseteq AncestorsBy(p, p[n + 1])
        BY <2>4, <3>2
      <4> QED BY <2>3, <2>5, <4>1
    <3> QED BY <2>3, <2>7, <3>1, <3>2
  <2>8. \A h \in 0..(n + 1) : h = n + 1 \/ h \in 0..n
    BY <2>1
  <2>9. Good(n + 1)
    BY <2>7
  <2> HIDE DEF Good
  <2> QED BY <1>2, <2>1, <2>8, <2>9
<1>3. \A n \in 0..MaxCommits : n \in T
  <2> HIDE DEF T
  <2> QED BY <1>0, <1>1, <1>2, UpTo
<1>4. \A h \in 0..MaxCommits : Good(h)
  <2> HIDE DEF Good
  <2>1. \A h \in 0..MaxCommits : h \in 0..h BY <1>0
  <2> QED BY <1>3, <2>1
<1> QED BY <1>4

LEMMA AncestorsKept ==
  ASSUME NEW p, NEW q, Descends(p), Descends(q), NEW N \in 0..MaxCommits,
         \A c \in 1..N : p[c] = q[c]
  PROVE  \A c \in 0..N : AncestorsBy(p, c) = AncestorsBy(q, c)
<1> DEFINE Same(c) == AncestorsBy(p, c) = AncestorsBy(q, c)
           T == {n \in 0..N : \A c \in 0..n : Same(c)}
<1>0. MaxCommits \in Nat /\ N \in Nat BY CoderConstants
<1>1. 0 \in T
  <2>1. AncestorsBy(p, 0) = {} /\ AncestorsBy(q, 0) = {} BY <1>0, Unfold
  <2> QED BY <1>0, <2>1
<1>2. ASSUME NEW n \in 0..(N - 1), n \in T PROVE n + 1 \in T
  <2>1. n + 1 \in Commit /\ n + 1 \in 0..MaxCommits /\ n + 1 # 0 /\ n \in Nat /\ n + 1 \in 1..N
    BY <1>0 DEF Commit
  <2>2. p[n + 1] \in 0..n /\ q[n + 1] = p[n + 1]
    BY <2>1 DEF Descends
  <2>3. /\ AncestorsBy(p, n + 1) = {n + 1} \cup AncestorsBy(p, p[n + 1])
        /\ AncestorsBy(q, n + 1) = {n + 1} \cup AncestorsBy(q, q[n + 1])
    BY <2>1, Unfold
  <2>4. Same(p[n + 1])
    BY <1>2, <2>2
  <2>5. Same(n + 1)
    BY <2>2, <2>3, <2>4
  <2>6. \A h \in 0..(n + 1) : h = n + 1 \/ h \in 0..n
    BY <2>1
  <2>7. n + 1 \in 0..N
    BY <2>1
  <2> HIDE DEF Same
  <2> QED BY <1>2, <2>5, <2>6, <2>7
<1>3. \A n \in 0..N : n \in T
  <2> HIDE DEF T
  <2> QED BY <1>0, <1>1, <1>2, UpTo
<1>4. \A n \in 0..N : Same(n)
  <2> HIDE DEF Same
  <2>1. \A h \in 0..N : h \in 0..h BY <1>0
  <2> QED BY <1>3, <2>1
<1> QED BY <1>4

(* What is so in every reachable state.                                    *)

ToolStages == {"checking", "ensuring", "creating", "pushing", "rechecking", "listing",
               "opening", "updating", "converting"}
PullRecord == [state : {"none", "open", "closed"}, ours : BOOLEAN, draft : BOOLEAN]
Existing == {n \in Pull : pulls[n].state # "none"}

(* The commits: each has an earlier parent, and those that do not exist    *)
(* yet have no run for their author.                                       *)
HistoryTyped ==
  /\ commits \in Commit /\ branch \in 0..commits
  /\ parent \in [Commit -> 0..MaxCommits] /\ Descends(parent)
  /\ author \in [Commit -> CoderRun \cup {Human}]
  /\ tree = [c \in Commit |-> tree[c]]
  /\ \A c \in Commit : c > commits => author[c] = Human
  /\ \A r \in CoderRun : seed[r] \in 0..commits /\ head[r] \in 0..commits

RunsTyped ==
  /\ stage \in [CoderRun -> Stage]
  /\ target \in [CoderRun -> 0..MaxPrs]
  /\ seed \in [CoderRun -> 0..MaxCommits]
  /\ round \in [CoderRun -> 1..MaxRounds]
  /\ verdict \in [CoderRun -> {"none", "good", "bad"}]
  /\ verified = [r \in CoderRun |-> verified[r]]
  /\ head \in [CoderRun -> 0..MaxCommits]
  /\ found \in [CoderRun -> 0..MaxPrs]
  /\ reported \in [CoderRun -> 0..MaxPrs]
  /\ barred \subseteq CoderRun /\ crossed \subseteq CoderRun /\ overtaken \subseteq CoderRun
  /\ humans \in Nat

Flagged == asked \in [CoderRun -> BOOLEAN]

(* One pull request is open at most, and its branch is there. What is      *)
(* registered, reported or about to be updated has been opened.            *)
PullsStand ==
  /\ pulls \in [Pull -> PullRecord]
  /\ \A m, n \in OpenPulls : m = n
  /\ OpenPulls # {} => branch # 0
  /\ \A n \in jobs : n \in Existing
  /\ \A r \in CoderRun : reported[r] # 0 => reported[r] \in Existing
  /\ \A r \in CoderRun : stage[r] \in {"updating", "converting"} => found[r] \in Existing

(* Of two runs that work at once neither has the directory for itself.     *)
Alone == \A r, o \in CoderRun : r # o /\ Working(r) /\ Working(o) => r \in crossed

(* Who has committed does not code or verify again.                        *)
Authored ==
  \A c \in 1..commits :
    author[c] \in CoderRun =>
      stage[author[c]] \in ToolStages \cup {"publishing", "closing", "done"}

(* A run that has the directory for itself finds in it the tree it seeded, *)
(* and from the last verdict on the one its Verifier saw, or what the      *)
(* author of its pull request has made of that.                            *)
OwnTree ==
  \A r \in CoderRun \ crossed :
    /\ stage[r] \in ToolStages \cup {"coding", "verifying", "publishing"} =>
         workspace = [from |-> seed[r], edits |-> workspace.edits]
    /\ stage[r] \in ToolStages \cup {"publishing"} =>
         workspace \in {verified[r], Retouched(verified[r], r)}
    /\ stage[r] \in {"creating", "pushing"} => head[r] = seed[r]

(* Publication follows a verdict, and a call asks for the draft state that *)
(* the verdict requires.                                                   *)
Judged ==
  \A r \in CoderRun :
    /\ stage[r] \in ToolStages \cup {"publishing"} => verdict[r] # "none"
    /\ stage[r] \in ToolStages => asked[r] = RequiredDraft(r)

(* From the last check on the pull request of a repair is the open one,    *)
(* and so the one it finds, unless humans withdrew it.                     *)
Held ==
  \A r \in CoderRun \ overtaken :
    /\ stage[r] = "idle" => reported[r] = 0
    /\ target[r] # 0 /\ stage[r] \in {"listing", "opening", "updating", "converting"} =>
         target[r] \in OpenPulls
    /\ target[r] # 0 /\ stage[r] \in {"updating", "converting"} => found[r] = target[r]

CoderInv ==
  /\ HistoryTyped /\ RunsTyped /\ Flagged /\ PullsStand
  /\ Alone /\ Authored /\ OwnTree /\ Judged /\ Held
  /\ PublishedIsVerified /\ RepairKeepsToItsOwn

-----------------------------------------------------------------------------
(* What the actions with alternatives do.                                  *)

RepairMoves(r, n) ==
  /\ stage[r] = "idle" /\ target' = [target EXCEPT ![r] = n]
  /\ stage' = [stage EXCEPT ![r] = "seeding"] \/ stage' = [stage EXCEPT ![r] = "done"]
  /\ seed' = seed \/ seed' = [seed EXCEPT ![r] = branch]
  /\ UNCHANGED <<gitVars, pulls, jobs, workspace, roundVars, toolVars, coderHistory>>

LEMMA RepairStarts ==
  ASSUME NEW r \in CoderRun, NEW n \in Pull, StartRepair(r, n)
  PROVE  RepairMoves(r, n)
BY DEF RepairMoves, StartRepair, To

VerifyMoves(r) ==
  /\ stage[r] = "verifying" /\ verified' = [verified EXCEPT ![r] = workspace]
  /\ stage' = [stage EXCEPT ![r] = "publishing"] \/ stage' = [stage EXCEPT ![r] = "coding"]
  /\ \E n \in 1..MaxRounds : round' = [round EXCEPT ![r] = n]
  /\ verdict' = [verdict EXCEPT ![r] = "good"] \/ verdict' = [verdict EXCEPT ![r] = "bad"]
  /\ UNCHANGED <<gitVars, pulls, jobs, workspace, readVars, toolVars, coderHistory>>

LEMMA Verifies ==
  ASSUME RunsTyped, NEW r \in CoderRun, Verify(r)
  PROVE  VerifyMoves(r)
<1>1. PICK v \in {"good", "bad"} :
        /\ verdict' = [verdict EXCEPT ![r] = v]
        /\ IF v = "good" \/ round[r] = MaxRounds
           THEN To(r, "publishing") /\ UNCHANGED round
           ELSE To(r, "coding") /\ round' = [round EXCEPT ![r] = @ + 1]
  BY DEF Verify, VerifyUpTo
<1>2. stage' = [stage EXCEPT ![r] = "publishing"] \/ stage' = [stage EXCEPT ![r] = "coding"]
  BY <1>1 DEF To
<1>3. PICK n \in 1..MaxRounds : round' = [round EXCEPT ![r] = n]
  <2>1. CASE v = "good" \/ round[r] = MaxRounds
    <3>1. round' = [round EXCEPT ![r] = round[r]] BY <1>1, <2>1 DEF RunsTyped
    <3> QED BY <3>1 DEF RunsTyped
  <2>2. CASE ~(v = "good" \/ round[r] = MaxRounds)
    <3>1. round[r] + 1 \in 1..MaxRounds BY <2>2, CoderConstants DEF RunsTyped
    <3>2. round' = [round EXCEPT ![r] = round[r] + 1] BY <1>1, <2>2
    <3> QED BY <3>1, <3>2
  <2> QED BY <2>1, <2>2
<1>4. /\ stage[r] = "verifying" /\ verified' = [verified EXCEPT ![r] = workspace]
      /\ UNCHANGED <<gitVars, pulls, jobs, workspace, readVars, toolVars, coderHistory>>
  BY DEF Verify, VerifyUpTo
<1> QED BY <1>1, <1>2, <1>3, <1>4 DEF VerifyMoves

(* The last check sees the pull request of a repair open and ours.         *)
Passes(r) ==
  /\ \/ stage' = [stage EXCEPT ![r] = "ensuring"]
     \/ stage' = [stage EXCEPT ![r] = "listing"] /\ Live(r)
  /\ UNCHANGED <<gitVars, pulls, jobs, workspace, readVars, roundVars, toolVars, coderHistory>>

Blocks(r) ==
  /\ Returns(r) /\ barred' = barred \cup {r}
  /\ UNCHANGED <<gitVars, pulls, jobs, workspace, readVars, roundVars, reported, coderHistory>>

LEMMA RecheckGoes ==
  ASSUME NEW r \in CoderRun, CheckFirst(r) \/ CheckAgain(r)
  PROVE  stage[r] \in {"checking", "rechecking"} /\ (Passes(r) \/ Blocks(r))
<1>1. CASE Live(r)
  BY <1>1 DEF Passes, CheckFirst, CheckAgain, Rechecks, To, toolVars
<1>2. CASE ~Live(r)
  BY <1>2 DEF Blocks, CheckFirst, CheckAgain, Rechecks
<1> QED BY <1>1, <1>2

ListMoves(r) ==
  /\ stage[r] = "listing"
  /\ \/ stage' = [stage EXCEPT ![r] = "opening"] /\ found' = [found EXCEPT ![r] = 0]
     \/ /\ stage' = [stage EXCEPT ![r] = "updating"] \/ stage' = [stage EXCEPT ![r] = "converting"]
        /\ \E n \in OpenPulls : found' = [found EXCEPT ![r] = n]
  /\ UNCHANGED <<gitVars, pulls, jobs, workspace, readVars, roundVars, asked, head,
                 reported, barred, coderHistory>>

LEMMA Listed ==
  ASSUME NEW r \in CoderRun, ListPulls(r)
  PROVE  ListMoves(r)
<1>1. CASE OpenPulls = {}
  BY <1>1 DEF ListMoves, ListPulls, To
<1>2. CASE OpenPulls # {}
  BY <1>2 DEF ListMoves, ListPulls, To
<1> QED BY <1>1, <1>2

-----------------------------------------------------------------------------
(* The invariant is kept, one part at a time.                              *)

(* A commit is added.                                                      *)
LEMMA NewCommit ==
  ASSUME HistoryTyped, commits < MaxCommits, NEW h \in 0..commits,
         commits' = commits + 1, parent' = [parent EXCEPT ![commits'] = h]
  PROVE  /\ commits' \in Commit /\ commits \in Nat /\ commits' \in 0..commits'
         /\ parent' \in [Commit -> 0..MaxCommits] /\ Descends(parent)'
         /\ parent'[commits'] = h
         /\ \A c \in 1..commits : c # commits' /\ parent'[c] = parent[c]
         /\ \A c \in 1..commits' : c = commits' \/ c \in 1..commits
         /\ \A c \in Commit : c > commits' => c > commits /\ c # commits'
         /\ \A c \in 0..commits : c \in 0..commits'
<1>1. commits' \in Commit /\ commits \in Nat /\ MaxCommits \in Nat /\ commits' \in 0..commits'
  BY CoderConstants DEF HistoryTyped, Commit
<1>2. h \in 0..MaxCommits /\ h \in 0..(commits' - 1)
  BY <1>1
<1>3. /\ parent' \in [Commit -> 0..MaxCommits] /\ parent'[commits'] = h
      /\ \A c \in Commit : c # commits' => parent'[c] = parent[c]
  BY <1>1, <1>2 DEF HistoryTyped
<1>4. \A c \in 1..commits : c \in Commit /\ c # commits'
  BY <1>1 DEF Commit
<1>5. ASSUME NEW c \in Commit PROVE parent'[c] \in 0..(c - 1)
  BY <1>2, <1>3, <1>5 DEF HistoryTyped, Descends
<1>6. \A c \in 1..commits' : c = commits' \/ c \in 1..commits
  BY <1>1
<1>7. \A c \in Commit : c > commits' => c > commits /\ c # commits'
  BY <1>1 DEF Commit
<1>8. \A c \in 0..commits : c \in 0..commits'
  BY <1>1
<1> QED BY <1>1, <1>3, <1>4, <1>5, <1>6, <1>7, <1>8 DEF Descends

LEMMA HistoryTypedStays ==
  ASSUME HistoryTyped, RunsTyped, [CoderNext]_coderVars
  PROVE  HistoryTyped'
<1> USE CoderConstants DEF HistoryTyped, RunsTyped, Descends, Commit, To, gitVars,
        readVars, roundVars, callVars, toolVars, coderHistory
<1>1. ASSUME NEW r \in CoderRun, RunSteps(r)
      PROVE  HistoryTyped'
  <2>1. CASE StartIssue(r)
      BY <2>1, SMTT(30) DEF StartIssue
  <2>2. CASE \E n \in Pull : StartRepair(r, n)
      <3>1. PICK n \in Pull : StartRepair(r, n) BY <2>2
      <3>2. RepairMoves(r, n) BY <3>1, RepairStarts
      <3> QED BY <3>2 DEF RepairMoves
  <2>3. CASE Extract(r)
      BY <2>3 DEF Extract
  <2>4. CASE Code(r)
      BY <2>4 DEF Code
  <2>20. CASE Retouch(r)
      BY <2>20 DEF Retouch, Retouched
  <2>5. CASE Verify(r)
      <3>1. VerifyMoves(r) BY <2>5, Verifies
      <3> QED BY <3>1 DEF VerifyMoves
  <2>6. CASE \E draft \in BOOLEAN : CallTool(r, draft)
      BY <2>6 DEF CallTool
  <2>7. CASE CheckFirst(r) \/ CheckAgain(r)
      <3>1. stage[r] \in {"checking", "rechecking"} /\ (Passes(r) \/ Blocks(r)) BY <2>7, RecheckGoes
      <3>2. CASE Passes(r) BY <3>1, <3>2 DEF Passes, Live
      <3>3. CASE Blocks(r) BY <3>1, <3>3 DEF Blocks, Returns
      <3> QED BY <3>1, <3>2, <3>3
  <2>8. CASE EnsureBranch(r)
      BY <2>8 DEF EnsureBranch
  <2>9. CASE CreateRef(r)
      BY <2>9 DEF CreateRef
  <2>10. CASE Push(r)
      <3>1. CASE Changed(r)
        <4>1. /\ commits < MaxCommits /\ commits' = commits + 1 /\ branch' = commits'
              /\ parent' = [parent EXCEPT ![commits'] = head[r]]
              /\ author' = [author EXCEPT ![commits'] = r]
              /\ tree' = [tree EXCEPT ![commits'] = workspace]
              /\ UNCHANGED <<seed, head>>
          BY <2>10, <3>1 DEF Push, Pushes
        <4>2. head[r] \in 0..commits OBVIOUS
        <4>3. /\ commits' \in Commit /\ commits \in Nat
              /\ parent' \in [Commit -> 0..MaxCommits] /\ Descends(parent)'
              /\ \A c \in Commit : c > commits' => c > commits /\ c # commits'
              /\ commits' \in 0..commits' /\ \A c \in 0..commits : c \in 0..commits'
          BY <4>1, <4>2, NewCommit
        <4>4. author' \in [Commit -> CoderRun \cup {Human}] /\ tree' = [c \in Commit |-> tree'[c]]
          BY <4>1, <4>3
        <4>5. \A c \in Commit : c > commits' => author'[c] = Human
          BY <4>1, <4>3
        <4>6. branch' \in 0..commits' /\ \A q \in CoderRun : seed'[q] \in 0..commits' /\ head'[q] \in 0..commits'
          <5>1. branch' \in 0..commits' BY <4>1, <4>3
          <5>2. ASSUME NEW q \in CoderRun PROVE seed'[q] \in 0..commits' /\ head'[q] \in 0..commits'
            <6>1. seed[q] \in 0..commits /\ head[q] \in 0..commits OBVIOUS
            <6>2. seed' = seed /\ head' = head BY <4>1
            <6> QED BY <4>3, <6>1, <6>2
          <5> QED BY <5>1, <5>2
        <4> QED BY <4>3, <4>4, <4>5, <4>6
      <3>2. CASE ~Changed(r)
        BY <2>10, <3>2 DEF Push, Pushes
      <3> QED BY <3>1, <3>2
  <2>12. CASE ListPulls(r)
      <3>1. ListMoves(r) BY <2>12, Listed
      <3> QED BY <3>1 DEF ListMoves
  <2>13. CASE OpenPull(r)
      BY <2>13, SMTT(30) DEF OpenPull, Tell, Returns
  <2>14. CASE UpdatePull(r)
      BY <2>14, SMTT(30) DEF UpdatePull, Tell, Returns
  <2>15. CASE ConvertPull(r)
      BY <2>15, SMTT(30) DEF ConvertPull, Tell, Returns
  <2>16. CASE ToolFails(r)
      BY <2>16, SMTT(30) DEF ToolFails, Returns
  <2>17. CASE Register(r)
      BY <2>17 DEF Register
  <2>18. CASE RunFails(r)
      BY <2>18 DEF RunFails
  <2>19. CASE Remove(r)
      BY <2>19, SMTT(30) DEF Remove, Ended
  <2> QED BY <1>1, <2>1, <2>2, <2>3, <2>4, <2>5, <2>6, <2>7, <2>8, <2>9, <2>10,
             <2>12, <2>13, <2>14, <2>15, <2>16, <2>17, <2>18, <2>19, <2>20 DEF RunSteps
<1>2. CASE HumanPushes
  <2>1. /\ commits < MaxCommits /\ commits' = commits + 1 /\ branch' = commits'
        /\ parent' = [parent EXCEPT ![commits'] = branch]
        /\ tree' = [tree EXCEPT ![commits'] = Seeded(commits')]
        /\ UNCHANGED <<author, seed, head>>
    BY <1>2 DEF HumanPushes
  <2>2. branch \in 0..commits OBVIOUS
  <2>3. /\ commits' \in Commit /\ commits \in Nat
        /\ parent' \in [Commit -> 0..MaxCommits] /\ Descends(parent)'
        /\ \A c \in Commit : c > commits' => c > commits /\ c # commits'
        /\ commits' \in 0..commits' /\ \A c \in 0..commits : c \in 0..commits'
    BY <2>1, <2>2, NewCommit
  <2>4. tree' = [c \in Commit |-> tree'[c]]
    BY <2>1, <2>3
  <2>5. \A c \in Commit : c > commits' => author'[c] = Human
    BY <2>1, <2>3
  <2>6. branch' \in 0..commits' /\ \A q \in CoderRun : seed'[q] \in 0..commits' /\ head'[q] \in 0..commits'
    BY <2>1, <2>3
  <2> QED BY <2>1, <2>3, <2>4, <2>5, <2>6
<1>3. CASE \E n \in Pull : HumanRenames(n)
    BY <1>3 DEF HumanRenames, HumanActs, Past
<1>4. CASE \E n \in Pull : HumanMarksReady(n)
    BY <1>4 DEF HumanMarksReady, HumanActs
<1>5. CASE \E n \in Pull, d \in BOOLEAN : HumanCloses(n, d)
    BY <1>5 DEF HumanCloses, HumanActs, Past
<1>6. CASE RunsDie
    BY <1>6, SMTT(30) DEF RunsDie, Ended
<1>7. CASE UNCHANGED coderVars
    BY <1>7 DEF coderVars
<1> QED BY <1>1, <1>2, <1>3, <1>4, <1>5, <1>6, <1>7 DEF CoderNext, Humans

LEMMA RunsTypedStays ==
  ASSUME HistoryTyped, RunsTyped, [CoderNext]_coderVars
  PROVE  RunsTyped'
<1> USE CoderConstants DEF HistoryTyped, RunsTyped, Stage, Pull, Commit, To,
        gitVars, readVars, roundVars, callVars, toolVars, coderHistory
<1>0. /\ branch \in 0..MaxCommits /\ 0 \in 0..MaxCommits /\ 1 \in 0..MaxCommits
      /\ 0 \in 0..MaxPrs /\ 1 \in 1..MaxRounds /\ \A n \in Pull : n \in 0..MaxPrs
    OBVIOUS
<1>1. ASSUME NEW r \in CoderRun, RunSteps(r)
      PROVE  RunsTyped'
  <2>1. CASE StartIssue(r)
      BY <1>0, <2>1 DEF StartIssue
  <2>2. CASE \E n \in Pull : StartRepair(r, n)
      <3>1. PICK n \in Pull : StartRepair(r, n) BY <2>2
      <3>2. RepairMoves(r, n) BY <3>1, RepairStarts
      <3>3. PICK to \in {"seeding", "done"} : stage' = [stage EXCEPT ![r] = to]
        BY <3>2 DEF RepairMoves
      <3>4. PICK c \in 0..MaxCommits : seed' = [seed EXCEPT ![r] = c]
        <4>1. seed = [seed EXCEPT ![r] = seed[r]] OBVIOUS
        <4> QED BY <1>0, <3>2, <4>1 DEF RepairMoves
      <3>5. /\ target' = [target EXCEPT ![r] = n]
            /\ UNCHANGED <<roundVars, toolVars, coderHistory>>
        BY <3>2 DEF RepairMoves
      <3> QED BY <1>0, <3>3, <3>4, <3>5
  <2>3. CASE Extract(r)
      BY <1>0, <2>3 DEF Extract
  <2>4. CASE Code(r)
      BY <1>0, <2>4 DEF Code
  <2>20. CASE Retouch(r)
      BY <1>0, <2>20 DEF Retouch, Retouched
  <2>5. CASE Verify(r)
      <3>1. VerifyMoves(r) BY <2>5, Verifies
      <3>2. PICK to \in {"publishing", "coding"}, v \in {"good", "bad"}, n \in 1..MaxRounds :
              /\ stage' = [stage EXCEPT ![r] = to]
              /\ verdict' = [verdict EXCEPT ![r] = v]
              /\ round' = [round EXCEPT ![r] = n]
        BY <3>1 DEF VerifyMoves
      <3>3. /\ verified' = [verified EXCEPT ![r] = workspace]
            /\ UNCHANGED <<readVars, toolVars, coderHistory>>
        BY <3>1 DEF VerifyMoves
      <3> QED BY <3>2, <3>3
  <2>6. CASE \E draft \in BOOLEAN : CallTool(r, draft)
      BY <1>0, <2>6, ZenonT(60) DEF CallTool
  <2>7. CASE CheckFirst(r) \/ CheckAgain(r)
      <3>1. stage[r] \in {"checking", "rechecking"} /\ (Passes(r) \/ Blocks(r)) BY <2>7, RecheckGoes
      <3>2. CASE Passes(r)
        <4>1. stage' \in [CoderRun -> Stage] BY <3>2 DEF Passes
        <4>2. UNCHANGED <<readVars, roundVars, toolVars, coderHistory>>
          BY <3>2 DEF Passes
        <4> QED BY <4>1, <4>2
      <3>3. CASE Blocks(r) BY <1>0, <3>1, <3>3 DEF Blocks, Returns
      <3> QED BY <3>1, <3>2, <3>3
  <2>8. CASE EnsureBranch(r)
      BY <1>0, <2>8 DEF EnsureBranch
  <2>9. CASE CreateRef(r)
      BY <1>0, <2>9 DEF CreateRef
  <2>10. CASE Push(r)
      BY <1>0, <2>10 DEF Push, Pushes
  <2>12. CASE ListPulls(r)
      <3>1. ListMoves(r) BY <2>12, Listed
      <3>2. stage' \in [CoderRun -> Stage] BY <3>1, ZenonT(60) DEF ListMoves
      <3>3. PICK n \in 0..MaxPrs : found' = [found EXCEPT ![r] = n]
        BY <1>0, <3>1 DEF ListMoves, OpenPulls
      <3>4. found' \in [CoderRun -> 0..MaxPrs] BY <3>3
      <3>5. UNCHANGED <<readVars, roundVars, head, reported, barred, coderHistory>>
        BY <3>1 DEF ListMoves
      <3> QED BY <3>2, <3>4, <3>5
  <2>13. CASE OpenPull(r)
      <3>1. PICK n \in 0..MaxPrs : reported' = [reported EXCEPT ![r] = n]
        BY <1>0, <2>13 DEF OpenPull, Tell
      <3>2. /\ Returns(r)
            /\ UNCHANGED <<readVars, roundVars, barred, coderHistory>>
        BY <2>13 DEF OpenPull, Tell
      <3> QED BY <1>0, <3>1, <3>2 DEF Returns
  <2>14. CASE UpdatePull(r)
      BY <1>0, <2>14 DEF UpdatePull, Tell, Returns
  <2>15. CASE ConvertPull(r)
      BY <1>0, <2>15 DEF ConvertPull, Tell, Returns
  <2>16. CASE ToolFails(r)
      BY <1>0, <2>16 DEF ToolFails, Returns
  <2>17. CASE Register(r)
      BY <1>0, <2>17 DEF Register
  <2>18. CASE RunFails(r)
      BY <1>0, <2>18 DEF RunFails
  <2>19. CASE Remove(r)
      BY <1>0, <2>19 DEF Remove, Ended
  <2> QED BY <1>1, <2>1, <2>2, <2>3, <2>4, <2>5, <2>6, <2>7, <2>8, <2>9, <2>10,
             <2>12, <2>13, <2>14, <2>15, <2>16, <2>17, <2>18, <2>19, <2>20 DEF RunSteps
<1>2. CASE HumanPushes
  <2>1. humans' = humans + 1 /\ UNCHANGED <<stage, readVars, roundVars, toolVars, crossed, overtaken, runDeaths>>
    BY <1>2 DEF HumanPushes, HumanActs
  <2>2. humans' \in Nat BY <2>1
  <2> QED BY <2>1, <2>2
<1>3. CASE \E n \in Pull : HumanRenames(n)
  <2>1. PICK n \in Pull : HumanRenames(n) BY <1>3
  <2>2. /\ humans' = humans + 1 /\ overtaken' = overtaken \cup Past(n)
        /\ UNCHANGED <<stage, readVars, roundVars, toolVars, crossed>>
    BY <2>1 DEF HumanRenames, HumanActs
  <2>3. humans' \in Nat /\ Past(n) \subseteq CoderRun
    BY <2>2 DEF Past
  <2> QED BY <2>2, <2>3
<1>4. CASE \E n \in Pull : HumanMarksReady(n)
    BY <1>0, <1>4, SMTT(30) DEF HumanMarksReady, HumanActs
<1>5. CASE \E n \in Pull, d \in BOOLEAN : HumanCloses(n, d)
  <2>1. PICK n \in Pull, d \in BOOLEAN : HumanCloses(n, d) BY <1>5
  <2>2. /\ humans' = humans + 1 /\ overtaken' = overtaken \cup Past(n)
        /\ UNCHANGED <<stage, readVars, roundVars, toolVars, crossed>>
    BY <2>1 DEF HumanCloses, HumanActs
  <2>3. humans' \in Nat /\ Past(n) \subseteq CoderRun
    BY <2>2 DEF Past
  <2> QED BY <2>2, <2>3
<1>6. CASE RunsDie
    BY <1>0, <1>6 DEF RunsDie, Ended
<1>7. CASE UNCHANGED coderVars
    BY <1>7 DEF coderVars
<1> QED BY <1>1, <1>2, <1>3, <1>4, <1>5, <1>6, <1>7 DEF CoderNext, Humans

LEMMA FlaggedStays ==
  ASSUME Flagged, [CoderNext]_coderVars
  PROVE  Flagged'
<1> USE CoderConstants DEF Flagged, To, gitVars, readVars, roundVars, callVars,
        toolVars, coderHistory
<1>1. ASSUME NEW r \in CoderRun, RunSteps(r)
      PROVE  Flagged'
  <2>1. CASE \/ StartIssue(r) \/ (\E n \in Pull : StartRepair(r, n))
             \/ Extract(r) \/ Code(r) \/ Retouch(r) \/ Verify(r)
             \/ (\E draft \in BOOLEAN : CallTool(r, draft))
             \/ CheckFirst(r) \/ EnsureBranch(r) \/ CreateRef(r)
             \/ Push(r) \/ CheckAgain(r) \/ ListPulls(r) \/ OpenPull(r)
             \/ UpdatePull(r) \/ ConvertPull(r) \/ ToolFails(r)
             \/ Register(r) \/ RunFails(r) \/ Remove(r)
      BY <2>1 DEF StartIssue, StartRepair, Extract, Code, Retouch, Verify, VerifyUpTo,
             CallTool, CheckFirst, Rechecks, Returns, Live, EnsureBranch,
             CreateRef, Push, Pushes, CheckAgain, ListPulls, OpenPull, Tell,
             UpdatePull, ConvertPull, ToolFails, Register, RunFails, Remove,
             Ended
  <2> QED BY <1>1, <2>1 DEF RunSteps
<1>2. CASE \/ HumanPushes \/ (\E n \in Pull : HumanRenames(n))
           \/ (\E n \in Pull : HumanMarksReady(n))
           \/ (\E n \in Pull, d \in BOOLEAN : HumanCloses(n, d))
           \/ RunsDie \/ UNCHANGED coderVars
    BY <1>2 DEF HumanPushes, HumanActs, HumanRenames, Past, HumanMarksReady,
       HumanCloses, RunsDie, Ended, coderVars
<1> QED BY <1>1, <1>2 DEF CoderNext, Humans

LEMMA PullEdit ==
  ASSUME NEW p \in PullRecord, NEW b \in BOOLEAN
  PROVE  /\ [p EXCEPT !.ours = b] \in PullRecord
         /\ [p EXCEPT !.ours = b].state = p.state /\ [p EXCEPT !.ours = b].ours = b
         /\ [p EXCEPT !.draft = b] \in PullRecord
         /\ [p EXCEPT !.draft = b].state = p.state /\ [p EXCEPT !.draft = b].ours = p.ours
         /\ [p EXCEPT !.state = "closed"] \in PullRecord
         /\ [p EXCEPT !.state = "closed"].state = "closed"
BY DEF PullRecord

LEMMA PullSet ==
  ASSUME NEW n \in Pull, NEW v \in PullRecord,
         pulls \in [Pull -> PullRecord], pulls' = [pulls EXCEPT ![n] = v]
  PROVE  /\ pulls' \in [Pull -> PullRecord] /\ pulls'[n] = v
         /\ \A m \in Pull \ {n} : pulls'[m] = pulls[m]
OBVIOUS

(* A pull request whose draft state changes is as open as it was, and one  *)
(* that is closed or renamed was the only one.                             *)
LEMMA Drafted ==
  ASSUME PullsStand, NEW n \in Pull, NEW b \in BOOLEAN,
         pulls' = [pulls EXCEPT ![n] = [pulls[n] EXCEPT !.draft = b]]
  PROVE  pulls' \in [Pull -> PullRecord] /\ OpenPulls' = OpenPulls /\ Existing' = Existing
<1> DEFINE v == [pulls[n] EXCEPT !.draft = b]
<1>1. pulls[n] \in PullRecord
  BY DEF PullsStand
<1>2. v \in PullRecord /\ v.state = pulls[n].state /\ v.ours = pulls[n].ours
  BY <1>1, PullEdit, ZenonT(60)
<1> HIDE DEF v
<1>3. /\ pulls' \in [Pull -> PullRecord] /\ pulls'[n] = v
      /\ \A m \in Pull \ {n} : pulls'[m] = pulls[m]
  BY <1>2, PullSet DEF PullsStand, v
<1> QED BY <1>2, <1>3 DEF OpenPulls, Existing

LEMMA Withdrawn ==
  ASSUME PullsStand, NEW n \in OpenPulls,
         \/ pulls' = [pulls EXCEPT ![n] = [pulls[n] EXCEPT !.ours = FALSE]]
         \/ pulls' = [pulls EXCEPT ![n] = [pulls[n] EXCEPT !.state = "closed"]]
  PROVE  pulls' \in [Pull -> PullRecord] /\ OpenPulls' = {} /\ Existing' = Existing
<1>1. n \in Pull /\ pulls[n] \in PullRecord /\ pulls[n].state = "open"
  BY DEF PullsStand, OpenPulls
<1>2. PICK v \in PullRecord :
        /\ pulls' = [pulls EXCEPT ![n] = v]
        /\ v.state # "none" /\ (v.state = "closed" \/ v.ours = FALSE)
  <2>1. CASE pulls' = [pulls EXCEPT ![n] = [pulls[n] EXCEPT !.ours = FALSE]]
    <3> DEFINE w == [pulls[n] EXCEPT !.ours = FALSE]
    <3>1. w \in PullRecord /\ w.state = "open" /\ w.ours = FALSE
      BY <1>1, PullEdit
    <3> QED BY <2>1, <3>1
  <2>2. CASE pulls' = [pulls EXCEPT ![n] = [pulls[n] EXCEPT !.state = "closed"]]
    <3> DEFINE w == [pulls[n] EXCEPT !.state = "closed"]
    <3>1. w \in PullRecord /\ w.state = "closed"
      BY <1>1, PullEdit
    <3> QED BY <2>2, <3>1
  <2> QED BY <2>1, <2>2
<1>3. /\ pulls' \in [Pull -> PullRecord] /\ pulls'[n] = v
      /\ \A m \in Pull \ {n} : pulls'[m] = pulls[m]
  BY <1>1, <1>2, PullSet DEF PullsStand
<1> QED BY <1>1, <1>2, <1>3 DEF OpenPulls, Existing, PullsStand

LEMMA Opened ==
  ASSUME PullsStand, OpenPulls = {}, NEW n \in Pull, NEW b \in BOOLEAN,
         pulls' = [pulls EXCEPT ![n] = [state |-> "open", ours |-> TRUE, draft |-> b]]
  PROVE  /\ pulls' \in [Pull -> PullRecord] /\ OpenPulls' = {n}
         /\ n \in Existing' /\ Existing \subseteq Existing'
<1> DEFINE v == [state |-> "open", ours |-> TRUE, draft |-> b]
<1>1. v \in PullRecord /\ v.state = "open" /\ v.ours = TRUE
  BY DEF PullRecord
<1> HIDE DEF v
<1>2. /\ pulls' \in [Pull -> PullRecord] /\ pulls'[n] = v
      /\ \A m \in Pull \ {n} : pulls'[m] = pulls[m]
  BY <1>1, PullSet DEF PullsStand, v
<1> QED BY <1>1, <1>2 DEF OpenPulls, Existing

LEMMA PullsStandStays ==
  ASSUME HistoryTyped, RunsTyped, Flagged, PullsStand, [CoderNext]_coderVars
  PROVE  PullsStand'
<1> USE CoderConstants DEF HistoryTyped, RunsTyped, Flagged, PullsStand, Pull,
        Commit, To, gitVars, readVars, roundVars, callVars, toolVars, coderHistory
<1>0. /\ UNCHANGED pulls => UNCHANGED <<OpenPulls, Existing>>
      /\ OpenPulls \subseteq Existing
    BY DEF OpenPulls, Existing
<1>1. ASSUME NEW r \in CoderRun, RunSteps(r)
      PROVE  PullsStand'
  <2>1. CASE StartIssue(r)
      BY <1>0, <2>1 DEF StartIssue
  <2>2. CASE \E n \in Pull : StartRepair(r, n)
      <3>1. PICK n \in Pull : StartRepair(r, n) BY <2>2
      <3>2. RepairMoves(r, n) BY <3>1, RepairStarts
      <3> QED BY <1>0, <3>2, ZenonT(60) DEF RepairMoves
  <2>3. CASE Extract(r)
      BY <1>0, <2>3 DEF Extract
  <2>4. CASE Code(r)
      BY <1>0, <2>4 DEF Code
  <2>20. CASE Retouch(r)
      BY <1>0, <2>20 DEF Retouch, Retouched
  <2>5. CASE Verify(r)
      <3>1. VerifyMoves(r) BY <2>5, Verifies
      <3>2. PICK to \in {"publishing", "coding"} : stage' = [stage EXCEPT ![r] = to]
        BY <3>1 DEF VerifyMoves
      <3>3. UNCHANGED <<branch, pulls, jobs, reported, found>>
        BY <3>1 DEF VerifyMoves
      <3> QED BY <1>0, <3>2, <3>3
  <2>6. CASE \E draft \in BOOLEAN : CallTool(r, draft)
      BY <1>0, <2>6 DEF CallTool
  <2>7. CASE CheckFirst(r) \/ CheckAgain(r)
      <3>1. stage[r] \in {"checking", "rechecking"} /\ (Passes(r) \/ Blocks(r)) BY <2>7, RecheckGoes
      <3>2. CASE Passes(r) BY <1>0, <3>1, <3>2 DEF Passes, Live
      <3>3. CASE Blocks(r) BY <1>0, <3>1, <3>3 DEF Blocks, Returns
      <3> QED BY <3>1, <3>2, <3>3
  <2>8. CASE EnsureBranch(r)
      BY <1>0, <2>8 DEF EnsureBranch
  <2>9. CASE CreateRef(r)
      BY <1>0, <2>9 DEF CreateRef
  <2>10. CASE Push(r)
      <3>1. stage[r] = "pushing" /\ UNCHANGED <<pulls, jobs, reported, found>>
        BY <2>10 DEF Push, Pushes
      <3>2. PICK to \in {"rechecking", "listing"} : stage' = [stage EXCEPT ![r] = to]
        BY <2>10 DEF Push, Pushes
      <3>3. branch' = branch \/ branch' = commits + 1
        BY <2>10 DEF Push, Pushes
      <3>4. branch # 0 => branch' # 0
        BY <3>3
      <3> QED BY <1>0, <3>1, <3>2, <3>4
  <2>12. CASE ListPulls(r)
      <3>1. ListMoves(r) BY <2>12, Listed
      <3>2. stage[r] = "listing" /\ UNCHANGED <<branch, pulls, jobs, reported, target, overtaken>>
        BY <3>1 DEF ListMoves
      <3>3. CASE stage' = [stage EXCEPT ![r] = "opening"] /\ found' = [found EXCEPT ![r] = 0]
        BY <1>0, <3>2, <3>3
      <3>4. ASSUME NEW n \in OpenPulls, NEW to \in {"updating", "converting"},
                   stage' = [stage EXCEPT ![r] = to], found' = [found EXCEPT ![r] = n]
            PROVE  PullsStand'
        BY <1>0, <3>2, <3>4
      <3> QED BY <3>1, <3>3, <3>4 DEF ListMoves
  <2>13. CASE OpenPull(r)
      <3>1. PICK n \in Pull :
              /\ pulls' = [pulls EXCEPT ![n] = [state |-> "open", ours |-> TRUE, draft |-> asked[r]]]
              /\ reported' = [reported EXCEPT ![r] = n]
        BY <2>13 DEF OpenPull, Tell
      <3>2. /\ branch # 0 /\ OpenPulls = {} /\ asked[r] \in BOOLEAN
            /\ stage' = [stage EXCEPT ![r] = "publishing"]
            /\ found' = [found EXCEPT ![r] = 0]
            /\ UNCHANGED <<branch, jobs>>
        BY <2>13 DEF OpenPull, Tell, Returns
      <3>3. /\ pulls' \in [Pull -> PullRecord] /\ OpenPulls' = {n}
            /\ n \in Existing' /\ Existing \subseteq Existing'
        BY <3>1, <3>2, Opened
      <3> QED BY <3>1, <3>2, <3>3
  <2>14. CASE UpdatePull(r)
      BY <1>0, <2>14 DEF UpdatePull, Tell, Returns
  <2>15. CASE ConvertPull(r)
      <3>1. /\ stage[r] = "converting" /\ stage' = [stage EXCEPT ![r] = "publishing"]
            /\ pulls' = [pulls EXCEPT ![found[r]] = [pulls[found[r]] EXCEPT !.draft = asked[r]]]
            /\ reported' = [reported EXCEPT ![r] = found[r]]
            /\ found' = [found EXCEPT ![r] = 0]
            /\ UNCHANGED <<branch, jobs>>
        BY <2>15 DEF ConvertPull, Tell, Returns
      <3>2. found[r] \in Existing /\ found[r] \in Pull /\ asked[r] \in BOOLEAN
        BY <3>1 DEF Existing
      <3>3. pulls' \in [Pull -> PullRecord] /\ OpenPulls' = OpenPulls /\ Existing' = Existing
        BY <3>1, <3>2, Drafted
      <3> QED BY <3>1, <3>2, <3>3
  <2>16. CASE ToolFails(r)
      BY <1>0, <2>16 DEF ToolFails, Returns
  <2>17. CASE Register(r)
      BY <1>0, <2>17 DEF Register
  <2>18. CASE RunFails(r)
      BY <1>0, <2>18 DEF RunFails
  <2>19. CASE Remove(r)
      BY <1>0, <2>19 DEF Remove, Ended
  <2> QED BY <1>1, <2>1, <2>2, <2>3, <2>4, <2>5, <2>6, <2>7, <2>8, <2>9, <2>10,
             <2>12, <2>13, <2>14, <2>15, <2>16, <2>17, <2>18, <2>19, <2>20 DEF RunSteps
<1>2. CASE HumanPushes
    BY <1>0, <1>2 DEF HumanPushes, HumanActs
<1>3. CASE \E n \in Pull : HumanRenames(n)
  <2>1. PICK n \in Pull : HumanRenames(n) BY <1>3
  <2>2. /\ n \in OpenPulls
        /\ pulls' = [pulls EXCEPT ![n] = [pulls[n] EXCEPT !.ours = FALSE]]
        /\ UNCHANGED <<jobs, reported, stage, found>>
    BY <1>0, <2>1 DEF HumanRenames
  <2>3. pulls' \in [Pull -> PullRecord] /\ OpenPulls' = {} /\ Existing' = Existing
    BY <2>2, Withdrawn
  <2> QED BY <2>2, <2>3
<1>4. CASE \E n \in Pull : HumanMarksReady(n)
  <2>1. PICK n \in Pull : HumanMarksReady(n) BY <1>4
  <2>2. /\ n \in OpenPulls /\ n \in Pull /\ branch' = branch
        /\ pulls' = [pulls EXCEPT ![n] = [pulls[n] EXCEPT !.draft = FALSE]]
        /\ UNCHANGED <<jobs, reported, stage, found>>
    BY <1>0, <2>1 DEF HumanMarksReady
  <2>3. pulls' \in [Pull -> PullRecord] /\ OpenPulls' = OpenPulls /\ Existing' = Existing
    BY <2>2, Drafted DEF OpenPulls
  <2> QED BY <2>2, <2>3
<1>5. CASE \E n \in Pull, d \in BOOLEAN : HumanCloses(n, d)
  <2>1. PICK n \in Pull, d \in BOOLEAN : HumanCloses(n, d) BY <1>5
  <2>2. /\ n \in OpenPulls
        /\ pulls' = [pulls EXCEPT ![n] = [pulls[n] EXCEPT !.state = "closed"]]
        /\ UNCHANGED <<jobs, reported, stage, found>>
    BY <1>0, <2>1 DEF HumanCloses
  <2>3. pulls' \in [Pull -> PullRecord] /\ OpenPulls' = {} /\ Existing' = Existing
    BY <2>2, Withdrawn
  <2> QED BY <2>2, <2>3
<1>6. CASE RunsDie
    BY <1>0, <1>6 DEF RunsDie, Ended
<1>7. CASE UNCHANGED coderVars
    BY <1>0, <1>7 DEF coderVars
<1> QED BY <1>1, <1>2, <1>3, <1>4, <1>5, <1>6, <1>7 DEF CoderNext, Humans

LEMMA AloneStays ==
  ASSUME RunsTyped, Alone, [CoderNext]_coderVars
  PROVE  Alone'
<1> USE CoderConstants DEF RunsTyped, Alone, Working, Stage, To, gitVars, readVars,
        roundVars, callVars, toolVars, coderHistory
<1>1. ASSUME NEW r \in CoderRun, RunSteps(r)
      PROVE  Alone'
  <2>1. CASE \/ StartIssue(r) \/ (\E n \in Pull : StartRepair(r, n))
             \/ Extract(r) \/ Code(r) \/ Retouch(r) \/ Verify(r)
             \/ (\E draft \in BOOLEAN : CallTool(r, draft))
             \/ CheckFirst(r) \/ EnsureBranch(r) \/ CreateRef(r)
             \/ Push(r) \/ CheckAgain(r) \/ ListPulls(r) \/ OpenPull(r)
             \/ UpdatePull(r) \/ ConvertPull(r) \/ ToolFails(r)
             \/ Register(r) \/ RunFails(r) \/ Remove(r)
      BY <2>1 DEF StartIssue, StartRepair, Extract, Code, Retouch, Verify, VerifyUpTo,
             CallTool, CheckFirst, Rechecks, Returns, Live, EnsureBranch,
             CreateRef, Push, Pushes, CheckAgain, ListPulls, OpenPull, Tell,
             UpdatePull, ConvertPull, ToolFails, Register, RunFails, Remove,
             Ended
  <2> QED BY <1>1, <2>1 DEF RunSteps
<1>2. CASE \/ HumanPushes \/ (\E n \in Pull : HumanRenames(n))
           \/ (\E n \in Pull : HumanMarksReady(n))
           \/ (\E n \in Pull, d \in BOOLEAN : HumanCloses(n, d))
           \/ RunsDie \/ UNCHANGED coderVars
    BY <1>2 DEF HumanPushes, HumanActs, HumanRenames, Past, HumanMarksReady,
       HumanCloses, RunsDie, Ended, coderVars
<1> QED BY <1>1, <1>2 DEF CoderNext, Humans

LEMMA AuthoredStays ==
  ASSUME HistoryTyped, RunsTyped, Authored, [CoderNext]_coderVars
  PROVE  Authored'
<1> USE CoderConstants DEF HistoryTyped, RunsTyped, Authored, Commit, ToolStages,
        To, gitVars, readVars, roundVars, callVars, toolVars, coderHistory
<1>1. ASSUME NEW r \in CoderRun, RunSteps(r)
      PROVE  Authored'
  <2>1. CASE StartIssue(r)
      BY <2>1 DEF StartIssue
  <2>2. CASE \E n \in Pull : StartRepair(r, n)
      <3>1. PICK n \in Pull : StartRepair(r, n) BY <2>2
      <3>2. RepairMoves(r, n) BY <3>1, RepairStarts
      <3> QED BY <3>2 DEF RepairMoves
  <2>3. CASE Extract(r)
      BY <2>3 DEF Extract
  <2>4. CASE Code(r)
      BY <2>4 DEF Code
  <2>20. CASE Retouch(r)
      BY <2>20 DEF Retouch, Retouched
  <2>5. CASE Verify(r)
      <3>1. VerifyMoves(r) BY <2>5, Verifies
      <3> QED BY <3>1 DEF VerifyMoves
  <2>6. CASE \E draft \in BOOLEAN : CallTool(r, draft)
      BY <2>6 DEF CallTool
  <2>7. CASE CheckFirst(r) \/ CheckAgain(r)
      <3>1. stage[r] \in {"checking", "rechecking"} /\ (Passes(r) \/ Blocks(r)) BY <2>7, RecheckGoes
      <3>2. CASE Passes(r) BY <3>1, <3>2 DEF Passes, Live
      <3>3. CASE Blocks(r) BY <3>1, <3>3 DEF Blocks, Returns
      <3> QED BY <3>1, <3>2, <3>3
  <2>8. CASE EnsureBranch(r)
      BY <2>8 DEF EnsureBranch
  <2>9. CASE CreateRef(r)
      BY <2>9 DEF CreateRef
  <2>10. CASE Push(r)
      <3>1. CASE Changed(r)
        <4>1. /\ commits < MaxCommits /\ commits' = commits + 1
              /\ author' = [author EXCEPT ![commits'] = r]
              /\ stage[r] = "pushing"
              /\ stage' = [stage EXCEPT ![r] = IF target[r] # 0 THEN "rechecking" ELSE "listing"]
          BY <2>10, <3>1 DEF Push, Pushes
        <4>2. commits' \in Commit /\ commits \in Nat
          BY <4>1
        <4>3. author'[commits'] = r /\ \A c \in 1..commits : author'[c] = author[c]
          BY <4>1, <4>2
        <4>4. stage'[r] \in ToolStages /\ \A q \in CoderRun \ {r} : stage'[q] = stage[q]
          BY <4>1
        <4>5. ASSUME NEW c \in 1..commits', author'[c] \in CoderRun
              PROVE  stage'[author'[c]] \in ToolStages \cup {"publishing", "closing", "done"}
          <5>1. CASE c = commits'
            BY <5>1, <4>3, <4>4
          <5>2. CASE c # commits'
            <6>0. commits' = commits + 1 /\ commits \in Nat BY <4>1, <4>2
            <6>1. c \in 1..commits BY <5>2, <6>0
            <6>2. author'[c] = author[c] /\ author[c] \in CoderRun BY <6>1, <4>3, <4>5
            <6>3. stage[author[c]] \in ToolStages \cup {"publishing", "closing", "done"}
              BY <6>1, <6>2
            <6> QED BY <6>2, <6>3, <4>4
          <5> QED BY <5>1, <5>2
        <4> QED BY <4>5
      <3>2. CASE ~Changed(r)
        BY <2>10, <3>2 DEF Push, Pushes
      <3> QED BY <3>1, <3>2
  <2>12. CASE ListPulls(r)
      <3>1. ListMoves(r) BY <2>12, Listed
      <3> QED BY <3>1, ZenonT(60) DEF ListMoves
  <2>13. CASE OpenPull(r)
      BY <2>13 DEF OpenPull, Tell, Returns
  <2>14. CASE UpdatePull(r)
      BY <2>14 DEF UpdatePull, Tell, Returns
  <2>15. CASE ConvertPull(r)
      BY <2>15 DEF ConvertPull, Tell, Returns
  <2>16. CASE ToolFails(r)
      BY <2>16 DEF ToolFails, Returns
  <2>17. CASE Register(r)
      BY <2>17 DEF Register
  <2>18. CASE RunFails(r)
      BY <2>18 DEF RunFails
  <2>19. CASE Remove(r)
      BY <2>19 DEF Remove, Ended
  <2> QED BY <1>1, <2>1, <2>2, <2>3, <2>4, <2>5, <2>6, <2>7, <2>8, <2>9, <2>10,
             <2>12, <2>13, <2>14, <2>15, <2>16, <2>17, <2>18, <2>19, <2>20 DEF RunSteps
<1>2. CASE HumanPushes
  <2>1. /\ commits < MaxCommits /\ commits' = commits + 1
        /\ parent' = [parent EXCEPT ![commits'] = branch]
        /\ UNCHANGED <<author, stage>>
    BY <1>2 DEF HumanPushes
  <2>2. branch \in 0..commits OBVIOUS
  <2>3. /\ commits' \in Commit /\ commits \in Nat
        /\ \A c \in 1..commits' : c = commits' \/ c \in 1..commits
    BY <2>1, <2>2, NewCommit
  <2>4. author[commits'] = Human
    BY <2>1, <2>3
  <2> QED BY <2>1, <2>3, <2>4
<1>3. CASE \E n \in Pull : HumanRenames(n)
    BY <1>3 DEF HumanRenames, HumanActs, Past
<1>4. CASE \E n \in Pull : HumanMarksReady(n)
    BY <1>4 DEF HumanMarksReady, HumanActs
<1>5. CASE \E n \in Pull, d \in BOOLEAN : HumanCloses(n, d)
    BY <1>5 DEF HumanCloses, HumanActs, Past
<1>6. CASE RunsDie
    BY <1>6 DEF RunsDie, Ended
<1>7. CASE UNCHANGED coderVars
    BY <1>7 DEF coderVars
<1> QED BY <1>1, <1>2, <1>3, <1>4, <1>5, <1>6, <1>7 DEF CoderNext, Humans

(* An author who edits again leaves what the first edit has left.          *)
LEMMA RetouchedTwice ==
  ASSUME NEW t, NEW r
  PROVE  Retouched(Retouched(t, r), r) = Retouched(t, r)
<1> DEFINE once == Retouched(t, r)
           twice == Retouched(once, r)
<1>1. /\ once = [i \in DOMAIN t |-> IF i = "edits" THEN t.edits \cup {<<r, 0>>} ELSE t[i]]
      /\ twice = [i \in DOMAIN once |-> IF i = "edits" THEN once.edits \cup {<<r, 0>>} ELSE once[i]]
  BY DEF Retouched
<1> HIDE DEF once, twice
<1>2. DOMAIN once = DOMAIN t /\ DOMAIN twice = DOMAIN t
  BY <1>1
<1>3. \A i \in DOMAIN t : twice[i] = once[i]
  BY <1>1, <1>2
<1>4. once = [i \in DOMAIN t |-> once[i]] /\ twice = [i \in DOMAIN t |-> twice[i]]
  BY <1>1, <1>2
<1> QED BY <1>3, <1>4 DEF once, twice

LEMMA RetouchedRecord ==
  ASSUME NEW c, NEW es, NEW r
  PROVE  Retouched([from |-> c, edits |-> es], r) = [from |-> c, edits |-> es \cup {<<r, 0>>}]
BY DEF Retouched

LEMMA RetouchedOwn ==
  ASSUME NEW w, NEW v, NEW r, NEW c, w = [from |-> c, edits |-> w.edits], w \in {v, Retouched(v, r)}
  PROVE  /\ Retouched(w, r) = [from |-> c, edits |-> Retouched(w, r).edits]
         /\ Retouched(w, r) = Retouched(v, r)
<1>1. PICK es : w = [from |-> c, edits |-> es]
  OBVIOUS
<1>2. Retouched(w, r) = [from |-> c, edits |-> es \cup {<<r, 0>>}]
  BY <1>1, RetouchedRecord
<1>3. Retouched(w, r) = Retouched(v, r)
  BY RetouchedTwice
<1> QED BY <1>2, <1>3

LEMMA OwnTreeStays ==
  ASSUME RunsTyped, Alone, OwnTree, [CoderNext]_coderVars
  PROVE  OwnTree'
<1> USE CoderConstants DEF RunsTyped, Alone, OwnTree, Working, ToolStages, Seeded,
        To, gitVars, readVars, roundVars, callVars, toolVars, coderHistory
<1>1. ASSUME NEW r \in CoderRun, RunSteps(r)
      PROVE  OwnTree'
  <2>1. CASE StartIssue(r)
      BY <2>1 DEF StartIssue
  <2>2. CASE \E n \in Pull : StartRepair(r, n)
      BY <2>2 DEF StartRepair
  <2>3. CASE Extract(r)
      BY <2>3 DEF Extract
  <2>4. CASE Code(r)
      BY <2>4 DEF Code
  <2>20. CASE Retouch(r)
      <3>1. /\ stage[r] = "publishing" /\ workspace' = Retouched(workspace, r)
            /\ UNCHANGED <<stage, seed, verified, head, crossed>>
        BY <2>20 DEF Retouch
      <3>2. \A q \in CoderRun \ crossed :
              stage[q] \in ToolStages \cup {"coding", "verifying", "publishing"} => q = r
        BY <3>1
      <3>3. ASSUME r \notin crossed
            PROVE  /\ workspace' = [from |-> seed[r], edits |-> workspace'.edits]
                   /\ workspace' = Retouched(verified[r], r)
        <4>1. /\ workspace = [from |-> seed[r], edits |-> workspace.edits]
              /\ workspace \in {verified[r], Retouched(verified[r], r)}
          BY <3>1, <3>3
        <4> QED BY <3>1, <4>1, RetouchedOwn
      <3> QED BY <3>1, <3>2, <3>3
  <2>5. CASE Verify(r)
      BY <2>5 DEF Verify, VerifyUpTo
  <2>6. CASE \E draft \in BOOLEAN : CallTool(r, draft)
      BY <2>6 DEF CallTool
  <2>7. CASE CheckFirst(r)
      BY <2>7 DEF CheckFirst, Rechecks, Returns, Live
  <2>8. CASE EnsureBranch(r)
      BY <2>8 DEF EnsureBranch
  <2>9. CASE CreateRef(r)
      BY <2>9 DEF CreateRef
  <2>10. CASE Push(r)
      BY <2>10 DEF Push, Pushes
  <2>11. CASE CheckAgain(r)
      BY <2>11 DEF CheckAgain, Rechecks, Returns, Live
  <2>12. CASE ListPulls(r)
      BY <2>12 DEF ListPulls
  <2>13. CASE OpenPull(r)
      BY <2>13 DEF OpenPull, Tell, Returns
  <2>14. CASE UpdatePull(r)
      BY <2>14 DEF UpdatePull, Tell, Returns
  <2>15. CASE ConvertPull(r)
      BY <2>15 DEF ConvertPull, Tell, Returns
  <2>16. CASE ToolFails(r)
      BY <2>16 DEF ToolFails, Returns
  <2>17. CASE Register(r)
      BY <2>17 DEF Register
  <2>18. CASE RunFails(r)
      BY <2>18 DEF RunFails
  <2>19. CASE Remove(r)
      BY <2>19 DEF Remove, Ended
  <2> QED BY <1>1, <2>1, <2>2, <2>3, <2>4, <2>5, <2>6, <2>7, <2>8, <2>9, <2>10,
             <2>11, <2>12, <2>13, <2>14, <2>15, <2>16, <2>17, <2>18, <2>19, <2>20
             DEF RunSteps
<1>2. CASE HumanPushes
    BY <1>2 DEF HumanPushes, HumanActs
<1>3. CASE \E n \in Pull : HumanRenames(n)
    BY <1>3 DEF HumanRenames, HumanActs, Past
<1>4. CASE \E n \in Pull : HumanMarksReady(n)
    BY <1>4 DEF HumanMarksReady, HumanActs
<1>5. CASE \E n \in Pull, d \in BOOLEAN : HumanCloses(n, d)
    BY <1>5 DEF HumanCloses, HumanActs, Past
<1>6. CASE RunsDie
    BY <1>6 DEF RunsDie, Ended
<1>7. CASE UNCHANGED coderVars
    BY <1>7 DEF coderVars
<1> QED BY <1>1, <1>2, <1>3, <1>4, <1>5, <1>6, <1>7 DEF CoderNext, Humans

LEMMA JudgedStays ==
  ASSUME RunsTyped, Flagged, Judged, [CoderNext]_coderVars
  PROVE  Judged'
<1> USE CoderConstants DEF RunsTyped, Flagged, Judged, RequiredDraft, DraftAgrees,
        ToolStages, To, gitVars, readVars, roundVars, callVars, toolVars,
        coderHistory
<1>1. ASSUME NEW r \in CoderRun, RunSteps(r)
      PROVE  Judged'
  <2>1. CASE \/ StartIssue(r) \/ (\E n \in Pull : StartRepair(r, n))
             \/ Extract(r) \/ Code(r) \/ Retouch(r) \/ Verify(r)
             \/ (\E draft \in BOOLEAN : CallTool(r, draft))
             \/ CheckFirst(r) \/ EnsureBranch(r) \/ CreateRef(r)
             \/ Push(r) \/ CheckAgain(r) \/ ListPulls(r) \/ OpenPull(r)
             \/ UpdatePull(r) \/ ConvertPull(r) \/ ToolFails(r)
             \/ Register(r) \/ RunFails(r) \/ Remove(r)
      BY <2>1 DEF StartIssue, StartRepair, Extract, Code, Retouch, Verify, VerifyUpTo,
             CallTool, CheckFirst, Rechecks, Returns, Live, EnsureBranch,
             CreateRef, Push, Pushes, CheckAgain, ListPulls, OpenPull, Tell,
             UpdatePull, ConvertPull, ToolFails, Register, RunFails, Remove,
             Ended
  <2> QED BY <1>1, <2>1 DEF RunSteps
<1>2. CASE \/ HumanPushes \/ (\E n \in Pull : HumanRenames(n))
           \/ (\E n \in Pull : HumanMarksReady(n))
           \/ (\E n \in Pull, d \in BOOLEAN : HumanCloses(n, d))
           \/ RunsDie \/ UNCHANGED coderVars
    BY <1>2 DEF HumanPushes, HumanActs, HumanRenames, Past, HumanMarksReady,
       HumanCloses, RunsDie, Ended, coderVars
<1> QED BY <1>1, <1>2 DEF CoderNext, Humans

LEMMA HeldStays ==
  ASSUME HistoryTyped, RunsTyped, PullsStand, Held, [CoderNext]_coderVars
  PROVE  Held'
<1> USE CoderConstants DEF RunsTyped, PullsStand, Held, OpenPulls, Pull, Repairable,
        To, gitVars, readVars, roundVars, callVars, toolVars, coderHistory
<1>1. ASSUME NEW r \in CoderRun, RunSteps(r)
      PROVE  Held'
  <2>1. CASE StartIssue(r)
      BY <2>1 DEF StartIssue
  <2>2. CASE \E n \in Pull : StartRepair(r, n)
      <3>1. PICK n \in Pull : StartRepair(r, n) BY <2>2
      <3>2. RepairMoves(r, n) BY <3>1, RepairStarts
      <3>3. PICK to \in {"seeding", "done"} : stage' = [stage EXCEPT ![r] = to]
        BY <3>2 DEF RepairMoves
      <3>4. /\ stage[r] = "idle" /\ target' = [target EXCEPT ![r] = n]
            /\ UNCHANGED <<pulls, reported, found, overtaken>>
        BY <3>2 DEF RepairMoves
      <3> QED BY <3>3, <3>4
  <2>3. CASE Extract(r)
      BY <2>3 DEF Extract
  <2>4. CASE Code(r)
      BY <2>4 DEF Code
  <2>20. CASE Retouch(r)
      BY <2>20 DEF Retouch, Retouched
  <2>5. CASE Verify(r)
      <3>1. VerifyMoves(r) BY <2>5, Verifies
      <3>2. /\ stage[r] = "verifying"
            /\ \/ stage' = [stage EXCEPT ![r] = "publishing"]
               \/ stage' = [stage EXCEPT ![r] = "coding"]
            /\ UNCHANGED <<pulls, target, reported, found, overtaken>>
        BY <3>1 DEF VerifyMoves
      <3> QED BY <3>2, SMTT(30)
  <2>6. CASE \E draft \in BOOLEAN : CallTool(r, draft)
      BY <2>6, SMTT(30) DEF CallTool
  <2>7. CASE CheckFirst(r) \/ CheckAgain(r)
      <3>1. stage[r] \in {"checking", "rechecking"} /\ (Passes(r) \/ Blocks(r)) BY <2>7, RecheckGoes
      <3>2. CASE Passes(r)
        <4>1. UNCHANGED <<pulls, target, reported, found, overtaken>>
          BY <3>2 DEF Passes
        <4>2. CASE stage' = [stage EXCEPT ![r] = "ensuring"]
          BY <3>1, <4>1, <4>2
        <4>3. CASE stage' = [stage EXCEPT ![r] = "listing"] /\ Live(r)
          BY <3>1, <4>1, <4>3, SMTT(30) DEF Live
        <4> QED BY <3>2, <4>2, <4>3 DEF Passes
      <3>3. CASE Blocks(r) BY <3>1, <3>3 DEF Blocks, Returns
      <3> QED BY <3>1, <3>2, <3>3
  <2>8. CASE EnsureBranch(r)
      BY <2>8 DEF EnsureBranch
  <2>9. CASE CreateRef(r)
      BY <2>9 DEF CreateRef
  <2>10. CASE Push(r)
      BY <2>10 DEF Push, Pushes
  <2>12. CASE ListPulls(r)
      <3>1. ListMoves(r) BY <2>12, Listed
      <3>2. stage[r] = "listing" /\ UNCHANGED <<branch, pulls, jobs, reported, target, overtaken>>
        BY <3>1 DEF ListMoves
      <3>3. CASE stage' = [stage EXCEPT ![r] = "opening"] /\ found' = [found EXCEPT ![r] = 0]
        BY <3>2, <3>3
      <3>4. ASSUME NEW n \in OpenPulls, NEW to \in {"updating", "converting"},
                   stage' = [stage EXCEPT ![r] = to], found' = [found EXCEPT ![r] = n]
            PROVE  Held'
        BY <3>2, <3>4, ZenonT(60)
      <3> QED BY <3>1, <3>3, <3>4 DEF ListMoves
  <2>13. CASE OpenPull(r)
      <3>1. PICK n \in Pull : reported' = [reported EXCEPT ![r] = n]
        BY <2>13 DEF OpenPull, Tell
      <3>2. /\ OpenPulls = {} /\ stage[r] = "opening"
            /\ stage' = [stage EXCEPT ![r] = "publishing"]
            /\ UNCHANGED <<target, overtaken>>
            /\ \A q \in CoderRun \ {r} : found'[q] = found[q]
        BY <2>13 DEF OpenPull, Tell, Returns
      <3> QED BY <3>1, <3>2
  <2>14. CASE UpdatePull(r)
      <3>1. /\ stage[r] = "updating"
            /\ stage' = [stage EXCEPT ![r] = "publishing"]
            /\ \A q \in CoderRun \ {r} : reported'[q] = reported[q] /\ found'[q] = found[q]
            /\ UNCHANGED <<pulls, target, overtaken>>
        BY <2>14 DEF UpdatePull, Tell, Returns
      <3> QED BY <3>1, SMTT(30)
  <2>15. CASE ConvertPull(r)
      <3>1. /\ stage[r] = "converting"
            /\ stage' = [stage EXCEPT ![r] = "publishing"]
            /\ \A q \in CoderRun \ {r} : reported'[q] = reported[q] /\ found'[q] = found[q]
            /\ UNCHANGED <<target, overtaken>>
        BY <2>15 DEF ConvertPull, Tell, Returns
      <3>2. \A n \in Pull : pulls'[n].state = pulls[n].state /\ pulls'[n].ours = pulls[n].ours
        BY <2>15 DEF ConvertPull
      <3>3. OpenPulls' = OpenPulls BY <3>2
      <3> HIDE DEF OpenPulls
      <3> QED BY <3>1, <3>3
  <2>16. CASE ToolFails(r)
      BY <2>16 DEF ToolFails, Returns
  <2>17. CASE Register(r)
      BY <2>17 DEF Register
  <2>18. CASE RunFails(r)
      BY <2>18 DEF RunFails
  <2>19. CASE Remove(r)
      BY <2>19 DEF Remove, Ended
  <2> QED BY <1>1, <2>1, <2>2, <2>3, <2>4, <2>5, <2>6, <2>7, <2>8, <2>9, <2>10,
             <2>12, <2>13, <2>14, <2>15, <2>16, <2>17, <2>18, <2>19, <2>20 DEF RunSteps
<1>2. CASE HumanPushes
    BY <1>2 DEF HumanPushes, HumanActs
<1>3. CASE \E n \in Pull : HumanRenames(n)
    BY <1>3 DEF HumanRenames, HumanActs, Past
<1>4. CASE \E n \in Pull : HumanMarksReady(n)
    BY <1>4 DEF HumanMarksReady, HumanActs
<1>5. CASE \E n \in Pull, d \in BOOLEAN : HumanCloses(n, d)
    BY <1>5 DEF HumanCloses, HumanActs, Past
<1>6. CASE RunsDie
    BY <1>6 DEF RunsDie, Ended
<1>7. CASE UNCHANGED coderVars
    BY <1>7 DEF coderVars
<1> QED BY <1>1, <1>2, <1>3, <1>4, <1>5, <1>6, <1>7 DEF CoderNext, Humans


-----------------------------------------------------------------------------
(* What the parts give.                                                    *)

LEMMA CoderTypes ==
  ASSUME HistoryTyped, RunsTyped, PullsStand
  PROVE  CoderTypeOK
<1>1. Cardinality(OpenPulls) <= 1
  <2>1. CASE OpenPulls = {}
    BY <2>1, FS_EmptySet
  <2>2. ASSUME NEW n \in OpenPulls PROVE Cardinality(OpenPulls) <= 1
    <3>1. OpenPulls = {n} BY DEF PullsStand
    <3>2. Cardinality({n}) = 1 BY FS_Singleton
    <3> QED BY <3>1, <3>2
  <2> QED BY <2>1, <2>2
<1>2. \A c \in Commit : parent[c] < c /\ author[c] \in CoderRun \cup {Human}
  BY DEF HistoryTyped, Descends, Commit
<1>3. \A n \in Pull : pulls[n] \in [state : {"none", "open", "closed"}, ours : BOOLEAN, draft : BOOLEAN]
  BY DEF PullsStand, PullRecord
<1>4. jobs \cup {reported[r] : r \in CoderRun} \subseteq {0} \cup {n \in Pull : pulls[n].state # "none"}
  BY DEF PullsStand, Existing
<1>5. OpenPulls # {} => branch # 0
  BY DEF PullsStand
<1>6. branch \in 0..commits /\ commits \in Commit
  BY DEF HistoryTyped
<1>7. ASSUME NEW r \in CoderRun
      PROVE  /\ stage[r] \in Stage /\ round[r] \in 1..MaxRounds
             /\ seed[r] \in 0..commits /\ head[r] \in 0..commits /\ found[r] \in 0..MaxPrs
  BY DEF HistoryTyped, RunsTyped
<1>8. barred \cup crossed \cup overtaken \subseteq CoderRun
  BY DEF RunsTyped
<1> QED BY <1>1, <1>2, <1>3, <1>4, <1>5, <1>6, <1>7, <1>8 DEF CoderTypeOK

LEMMA PublishedIsVerifiedStays ==
  ASSUME HistoryTyped, RunsTyped, Authored, OwnTree, PublishedIsVerified, [CoderNext]_coderVars
  PROVE  PublishedIsVerified'
<1> USE CoderConstants DEF To, gitVars, readVars, roundVars, callVars, toolVars,
        coderHistory
<1>1. CASE UNCHANGED <<commits, parent, author, tree, verified>> /\ crossed \subseteq crossed'
  BY <1>1 DEF PublishedIsVerified
<1>2. ASSUME NEW r \in CoderRun, Verify(r)
      PROVE  PublishedIsVerified'
  <2>1. /\ stage[r] = "verifying" /\ verified' = [verified EXCEPT ![r] = workspace]
        /\ UNCHANGED <<commits, parent, author, tree, crossed>>
    BY <1>2 DEF Verify, VerifyUpTo
  <2>2. \A c \in 1..commits : author[c] \in CoderRun => author[c] # r
    BY <2>1 DEF Authored, ToolStages
  <2>3. \A q \in CoderRun \ {r} : verified'[q] = verified[q]
    BY <2>1 DEF RunsTyped
  <2> QED BY <2>1, <2>2, <2>3 DEF PublishedIsVerified
<1>3. ASSUME NEW r \in CoderRun, Push(r), Changed(r)
      PROVE  PublishedIsVerified'
  <2>1. /\ stage[r] = "pushing"
        /\ commits < MaxCommits /\ commits' = commits + 1
        /\ parent' = [parent EXCEPT ![commits'] = head[r]]
        /\ author' = [author EXCEPT ![commits'] = r]
        /\ tree' = [tree EXCEPT ![commits'] = workspace]
        /\ UNCHANGED <<verified, crossed>>
    BY <1>3 DEF Push, Pushes
  <2>2. head[r] \in 0..commits
    BY DEF HistoryTyped
  <2>3. /\ commits' \in Commit /\ parent'[commits'] = head[r]
        /\ \A c \in 1..commits : c # commits' /\ parent'[c] = parent[c]
        /\ \A c \in 1..commits' : c = commits' \/ c \in 1..commits
    BY <2>1, <2>2, NewCommit
  <2>4. author'[commits'] = r /\ tree'[commits'] = workspace
    BY <2>1, <2>3 DEF HistoryTyped
  <2>5. \A c \in 1..commits : author'[c] = author[c] /\ tree'[c] = tree[c]
    <3>1. 1..commits \subseteq Commit
      BY DEF HistoryTyped, Commit
    <3> QED BY <2>1, <2>3, <3>1 DEF HistoryTyped
  <2>6. r \notin crossed => /\ workspace \in {verified[r], Retouched(verified[r], r)}
                           /\ workspace.from = head[r]
    BY <2>1 DEF OwnTree, ToolStages
  <2>7. ASSUME NEW c \in 1..commits', author'[c] \in CoderRun \ crossed'
        PROVE  /\ tree'[c] \in {verified'[author'[c]], Retouched(verified'[author'[c]], author'[c])}
               /\ parent'[c] = tree'[c].from
    <3>1. CASE c = commits'
      BY <2>1, <2>3, <2>4, <2>6, <2>7, <3>1
    <3>2. CASE c \in 1..commits
      <4>1. author'[c] = author[c] /\ tree'[c] = tree[c] /\ parent'[c] = parent[c]
        BY <2>3, <2>5, <3>2
      <4> QED BY <2>1, <2>7, <3>2, <4>1 DEF PublishedIsVerified
    <3> QED BY <2>3, <3>1, <3>2
  <2> QED BY <2>7 DEF PublishedIsVerified
<1>4. CASE HumanPushes
  <2>1. /\ commits < MaxCommits /\ commits' = commits + 1
        /\ parent' = [parent EXCEPT ![commits'] = branch]
        /\ tree' = [tree EXCEPT ![commits'] = Seeded(commits')]
        /\ UNCHANGED <<author, verified, crossed>>
    BY <1>4 DEF HumanPushes
  <2>2. branch \in 0..commits
    BY DEF HistoryTyped
  <2>3. /\ commits' \in Commit
        /\ \A c \in 1..commits : c # commits' /\ parent'[c] = parent[c]
        /\ \A c \in 1..commits' : c = commits' \/ c \in 1..commits
    BY <2>1, <2>2, NewCommit
  <2>4. author[commits'] = Human
    <3>1. commits \in Nat /\ commits' = commits + 1 BY <2>1 DEF HistoryTyped, Commit
    <3>2. commits' > commits BY <3>1
    <3> QED BY <2>3, <3>2 DEF HistoryTyped
  <2>5. \A c \in 1..commits : tree'[c] = tree[c]
    <3>1. 1..commits \subseteq Commit
      BY DEF HistoryTyped, Commit
    <3> QED BY <2>1, <2>3, <3>1 DEF HistoryTyped
  <2> QED BY <2>1, <2>3, <2>4, <2>5 DEF PublishedIsVerified
<1>5. ASSUME NEW r \in CoderRun, RunSteps(r), ~Verify(r), ~(Push(r) /\ Changed(r))
      PROVE  UNCHANGED <<commits, parent, author, tree, verified>> /\ crossed \subseteq crossed'
  BY <1>5 DEF RunSteps, StartIssue, StartRepair, Extract, Code, Retouch, CallTool,
     CheckFirst, CheckAgain,
              Rechecks, EnsureBranch, CreateRef, Push, Pushes, ListPulls, OpenPull, UpdatePull,
              ConvertPull, ToolFails, Tell, Returns, Register, RunFails, Remove, Ended
<1>6. ASSUME Humans, ~HumanPushes
      PROVE  UNCHANGED <<commits, parent, author, tree, verified>> /\ crossed \subseteq crossed'
  BY <1>6 DEF Humans, HumanRenames, HumanMarksReady, HumanCloses
<1>7. ASSUME RunsDie \/ UNCHANGED coderVars
      PROVE  UNCHANGED <<commits, parent, author, tree, verified>> /\ crossed \subseteq crossed'
  BY <1>7 DEF RunsDie, coderVars
<1> QED BY <1>1, <1>2, <1>3, <1>4, <1>5, <1>6, <1>7 DEF CoderNext

LEMMA RepairKeepsToItsOwnStays ==
  ASSUME RunsTyped, PullsStand, Held, RepairKeepsToItsOwn, [CoderNext]_coderVars
  PROVE  RepairKeepsToItsOwn'
<1> USE DEF To, gitVars, readVars, roundVars, callVars, toolVars, coderHistory
<1>1. CASE UNCHANGED <<target, reported>> /\ overtaken \subseteq overtaken'
  BY <1>1 DEF RepairKeepsToItsOwn
<1>2. ASSUME NEW r \in CoderRun, NEW n \in Pull, StartRepair(r, n)
      PROVE  RepairKeepsToItsOwn'
  <2>1. /\ stage[r] = "idle" /\ target' = [target EXCEPT ![r] = n]
        /\ UNCHANGED <<reported, overtaken>>
    BY <1>2 DEF StartRepair
  <2> QED BY <2>1 DEF RepairKeepsToItsOwn, Held, RunsTyped
<1>3. ASSUME NEW r \in CoderRun, OpenPull(r)
      PROVE  RepairKeepsToItsOwn'
  <2>1. PICK n \in Pull : reported' = [reported EXCEPT ![r] = n]
    BY <1>3 DEF OpenPull, Tell
  <2>2. stage[r] = "opening" /\ OpenPulls = {} /\ UNCHANGED <<target, overtaken>>
    BY <1>3 DEF OpenPull
  <2>3. r \notin overtaken => target[r] = 0
    BY <2>2 DEF Held
  <2> QED BY <2>1, <2>2, <2>3 DEF RepairKeepsToItsOwn, RunsTyped
<1>4. ASSUME NEW r \in CoderRun, UpdatePull(r) \/ ConvertPull(r)
      PROVE  RepairKeepsToItsOwn'
  <2>1. /\ stage[r] \in {"updating", "converting"}
        /\ reported' = [reported EXCEPT ![r] = found[r]]
        /\ UNCHANGED <<target, overtaken>>
    BY <1>4 DEF UpdatePull, ConvertPull, Tell
  <2>2. r \notin overtaken /\ target[r] # 0 => found[r] = target[r]
    BY <2>1 DEF Held
  <2> QED BY <2>1, <2>2 DEF RepairKeepsToItsOwn, RunsTyped
<1>5. ASSUME NEW r \in CoderRun, RunSteps(r), ~ \E n \in Pull : StartRepair(r, n),
             ~OpenPull(r), ~UpdatePull(r), ~ConvertPull(r)
      PROVE  UNCHANGED <<target, reported, overtaken>>
  BY <1>5 DEF RunSteps, StartIssue, Extract, Code, Retouch, Verify, VerifyUpTo, CallTool,
     CheckFirst, CheckAgain,
              Rechecks, EnsureBranch, CreateRef, Push, Pushes, ListPulls, ToolFails, Returns,
              Register, RunFails, Remove
<1>6. Humans => UNCHANGED <<target, reported>> /\ overtaken \subseteq overtaken'
  BY DEF Humans, HumanPushes, HumanRenames, HumanMarksReady, HumanCloses
<1>7. RunsDie \/ UNCHANGED coderVars => UNCHANGED <<target, reported, overtaken>>
  BY DEF RunsDie, coderVars
<1> QED BY <1>1, <1>2, <1>3, <1>4, <1>5, <1>6, <1>7 DEF CoderNext

(* The branch moves to a commit upon a head that has the old one behind it.*)
LEMMA OthersCommitsStay ==
  ASSUME HistoryTyped, [CoderNext]_coderVars, branch # 0, branch' # 0
  PROVE  Ancestors(branch) \subseteq Ancestors(branch)'
<1> USE CoderConstants DEF To, gitVars, readVars, roundVars, callVars, toolVars,
        coderHistory
<1>0. /\ Ancestors(branch) = AncestorsBy(parent, branch)
      /\ Ancestors(branch)' = AncestorsBy(parent', branch')
  BY DEF Ancestors, AncestorsBy
<1>1. CASE UNCHANGED <<branch, parent>>
  BY <1>0, <1>1
<1>2. ASSUME NEW h \in 0..commits, AncestorsBy(parent, branch) \subseteq AncestorsBy(parent, h),
             commits < MaxCommits, commits' = commits + 1, branch' = commits',
             parent' = [parent EXCEPT ![commits'] = h]
      PROVE  Ancestors(branch) \subseteq Ancestors(branch)'
  <2>1. /\ commits' \in Commit /\ Descends(parent)' /\ parent'[commits'] = h
        /\ \A c \in 1..commits : parent'[c] = parent[c]
    BY <1>2, NewCommit
  <2>2. commits' # 0 /\ commits' \in 0..MaxCommits /\ commits \in 0..MaxCommits
    BY <2>1 DEF HistoryTyped, Commit
  <2>3. Descends(parent) /\ Descends(parent')
    BY <2>1 DEF HistoryTyped, Descends
  <2>4. AncestorsBy(parent', h) = AncestorsBy(parent, h)
    BY <2>1, <2>2, <2>3, AncestorsKept
  <2>5. AncestorsBy(parent', commits') = {commits'} \cup AncestorsBy(parent', h)
    BY <2>1, <2>2, <2>3, Unfold
  <2> QED BY <1>0, <1>2, <2>4, <2>5
<1>3. ASSUME NEW r \in CoderRun, Push(r), Changed(r)
      PROVE  Ancestors(branch) \subseteq Ancestors(branch)'
  <2>1. /\ commits < MaxCommits /\ commits' = commits + 1 /\ branch' = commits'
        /\ parent' = [parent EXCEPT ![commits'] = head[r]]
        /\ branch \in Ancestors(head[r])
    BY <1>3 DEF Push, Pushes
  <2>2. head[r] \in 0..commits /\ head[r] \in 0..MaxCommits /\ Descends(parent)
    BY DEF HistoryTyped, Commit
  <2>3. branch \in AncestorsBy(parent, head[r])
    BY <2>1 DEF Ancestors, AncestorsBy
  <2>4. AncestorsBy(parent, branch) \subseteq AncestorsBy(parent, head[r])
    BY <2>2, <2>3, AncestorsClosed
  <2> QED BY <1>2, <2>1, <2>2, <2>4
<1>4. ASSUME HumanPushes
      PROVE  Ancestors(branch) \subseteq Ancestors(branch)'
  <2>1. /\ commits < MaxCommits /\ commits' = commits + 1 /\ branch' = commits'
        /\ parent' = [parent EXCEPT ![commits'] = branch]
    BY <1>4 DEF HumanPushes
  <2>2. branch \in 0..commits
    BY DEF HistoryTyped
  <2> QED BY <1>2, <2>1, <2>2
<1>5. ASSUME NEW r \in CoderRun, RunSteps(r), ~(Push(r) /\ Changed(r))
      PROVE  UNCHANGED <<branch, parent>>
  BY <1>5 DEF RunSteps, StartIssue, StartRepair, Extract, Code, Retouch, Verify, VerifyUpTo,
     CallTool, CheckFirst, CheckAgain,
              Rechecks, EnsureBranch, CreateRef, Push, Pushes, ListPulls, OpenPull, UpdatePull,
              ConvertPull, ToolFails, Tell, Returns, Register, RunFails, Remove, Ended
<1>6. ASSUME Humans, ~HumanPushes
      PROVE  UNCHANGED <<branch, parent>>
  BY <1>6 DEF Humans, HumanRenames, HumanMarksReady, HumanCloses
<1>7. RunsDie \/ UNCHANGED coderVars => UNCHANGED <<branch, parent>>
  BY DEF RunsDie, coderVars
<1> QED BY <1>1, <1>3, <1>4, <1>5, <1>6, <1>7 DEF CoderNext

(* Who makes a pull request ready is a human, or a call that asked for no  *)
(* draft, and so one that follows a good verdict.                          *)
LEMMA ReadyIsEarned ==
  ASSUME RunsTyped, Flagged, PullsStand, Judged, [CoderNext]_coderVars, NEW n \in Pull,
         pulls'[n].state = "open", ~ pulls'[n].draft, pulls[n].state = "none" \/ pulls[n].draft
  PROVE  humans' # humans \/ \E r \in CoderRun : stage'[r] # stage[r] /\ verdict[r] = "good"
<1> USE DEF To, gitVars, readVars, roundVars, callVars, toolVars, coderHistory
<1>1. pulls' # pulls
  OBVIOUS
<1>2. ASSUME NEW r \in CoderRun, OpenPull(r)
      PROVE  stage'[r] # stage[r] /\ verdict[r] = "good"
  <2>1. PICK m \in Pull :
          /\ pulls[m].state = "none"
          /\ pulls' = [pulls EXCEPT ![m] = [state |-> "open", ours |-> TRUE, draft |-> asked[r]]]
    BY <1>2 DEF OpenPull
  <2>2. stage[r] = "opening" /\ stage'[r] = "publishing"
    BY <1>2 DEF OpenPull, Tell, Returns, RunsTyped
  <2>3. m = n
    <3>1. m # n => pulls'[n] = pulls[n]
      BY <2>1 DEF PullsStand
    <3> QED BY <3>1
  <2>4. ~asked[r]
    BY <2>1, <2>3 DEF PullsStand
  <2>5. verdict[r] = "good"
    BY <2>2, <2>4 DEF Judged, ToolStages, RequiredDraft, RunsTyped
  <2> QED BY <2>2, <2>5
<1>3. ASSUME NEW r \in CoderRun, ConvertPull(r)
      PROVE  stage'[r] # stage[r] /\ verdict[r] = "good"
  <2>1. pulls' = [pulls EXCEPT ![found[r]] = [pulls[found[r]] EXCEPT !.draft = asked[r]]]
    BY <1>3 DEF ConvertPull
  <2>2. stage[r] = "converting" /\ stage'[r] = "publishing"
    BY <1>3 DEF ConvertPull, Tell, Returns, RunsTyped
  <2>3. found[r] = n
    <3>1. found[r] # n => pulls'[n] = pulls[n]
      BY <2>1 DEF PullsStand
    <3> QED BY <3>1
  <2>4. ~asked[r]
    <3>1. pulls'[n] = [pulls[n] EXCEPT !.draft = asked[r]]
      BY <2>1, <2>3 DEF PullsStand
    <3>2. pulls'[n].draft = asked[r]
      BY <3>1 DEF PullsStand, PullRecord
    <3> QED BY <3>2
  <2>5. verdict[r] = "good"
    BY <2>2, <2>4 DEF Judged, ToolStages, RequiredDraft, RunsTyped
  <2> QED BY <2>2, <2>5
<1>4. ASSUME NEW r \in CoderRun, RunSteps(r), ~OpenPull(r), ~ConvertPull(r)
      PROVE  UNCHANGED pulls
  BY <1>4 DEF RunSteps, StartIssue, StartRepair, Extract, Code, Retouch, Verify, VerifyUpTo,
     CallTool, CheckFirst, CheckAgain,
              Rechecks, EnsureBranch, CreateRef, Push, Pushes, ListPulls, UpdatePull,
              ToolFails, Returns, Register, RunFails, Remove
<1>5. Humans => humans' # humans
  <2>1. humans \in Nat BY DEF RunsTyped
  <2>2. Humans => humans' = humans + 1
    BY DEF Humans, HumanPushes, HumanRenames, HumanMarksReady, HumanCloses, HumanActs
  <2> QED BY <2>1, <2>2
<1>6. RunsDie \/ UNCHANGED coderVars => UNCHANGED pulls
  BY DEF RunsDie, coderVars
<1> QED BY <1>1, <1>2, <1>3, <1>4, <1>5, <1>6 DEF CoderNext

LEMMA CoderStarts ==
  ASSUME NEW p \in BOOLEAN, CoderInitAt(p)
  PROVE  CoderInv
<1> USE CoderConstants DEF CoderInitAt
<1>1. MaxCommits \in Nat /\ MaxCommits >= 2 /\ 2 \in Commit /\ 0 \in 0..MaxPrs /\ 1 \in 1..MaxRounds
  BY DEF Commit
<1>2. HistoryTyped
  <2>1. commits \in Commit /\ branch \in 0..commits
    BY <1>1
  <2>2. parent \in [Commit -> 0..MaxCommits] /\ Descends(parent)
    BY <1>1 DEF Descends, Commit
  <2> QED BY <1>1, <2>1, <2>2 DEF HistoryTyped
<1>3. RunsTyped
  BY <1>1 DEF RunsTyped, Stage
<1>4. Flagged
  BY DEF Flagged
<1>5. PullsStand
  <2>1. NoPull \in PullRecord /\ NoPull.state = "none"
    BY DEF NoPull, PullRecord
  <2> DEFINE v == [state |-> "open", ours |-> TRUE, draft |-> FALSE]
  <2>2. v \in PullRecord /\ v.state = "open" /\ v.ours = TRUE
    BY DEF PullRecord
  <2>3. 1 \in Pull
    BY DEF Pull
  <2>4. /\ pulls \in [Pull -> PullRecord]
        /\ \A n \in Pull : pulls[n] = IF p /\ n = 1 THEN v ELSE NoPull
    <3>1. pulls = [n \in Pull |-> IF p /\ n = 1 THEN v ELSE NoPull]
      OBVIOUS
    <3> HIDE DEF v, CoderInitAt
    <3> QED BY <2>1, <2>2, <3>1
  <2> HIDE DEF v
  <2>5. OpenPulls \subseteq {1} /\ (OpenPulls # {} => p) /\ (p => 1 \in Existing)
    BY <2>1, <2>2, <2>3, <2>4 DEF OpenPulls, Existing
  <2> QED BY <2>4, <2>5 DEF PullsStand
<1>6. Alone /\ Authored /\ OwnTree /\ Judged /\ Held
  BY DEF Alone, Working, Authored, OwnTree, Judged, Held, ToolStages, Commit
<1>7. PublishedIsVerified
  <2>1. \A c \in 1..commits : author[c] = Human
    BY <1>1 DEF Commit
  <2> QED BY <2>1 DEF PublishedIsVerified
<1>8. RepairKeepsToItsOwn
  BY DEF RepairKeepsToItsOwn
<1> QED BY <1>2, <1>3, <1>4, <1>5, <1>6, <1>7, <1>8 DEF CoderInv

LEMMA CoderStays ==
  ASSUME CoderInv, [CoderNext]_coderVars
  PROVE  CoderInv'
BY HistoryTypedStays, RunsTypedStays, FlaggedStays, PullsStandStays, AloneStays,
   AuthoredStays,
   OwnTreeStays, JudgedStays, HeldStays, PublishedIsVerifiedStays, RepairKeepsToItsOwnStays DEF CoderInv

(* The inductive invariant holds in every reachable state: CoderInv names  *)
(* what each stage of a run knows of the commits, the directory and the    *)
(* pull requests.                                                          *)
THEOREM CoderInvariant == CoderSpec => []CoderInv
<1>1. (\E p \in BOOLEAN : CoderInitAt(p)) => CoderInv
  BY CoderStarts
<1>2. CoderInv /\ [CoderNext]_coderVars => CoderInv'
  BY CoderStays
<1> QED BY <1>1, <1>2, PTL DEF CoderSpec

(* What a Coder run may do to a repository, for any number of runs,        *)
(* commits, pull requests, rounds, deaths and acts of humans.              *)
THEOREM PublicationIsSoundAlways == CoderSpec => PublicationIsSound
<1>1. CoderInv => CoderTypeOK /\ PublishedIsVerified /\ RepairKeepsToItsOwn
  BY CoderTypes DEF CoderInv
<1>2. CoderInv /\ [CoderNext]_coderVars
        => [branch # 0 /\ branch' # 0 => Ancestors(branch) \subseteq Ancestors(branch)']_coderVars
  BY OthersCommitsStay DEF CoderInv
<1>3. CoderInv /\ [CoderNext]_coderVars
        => [\A n \in Pull :
             pulls'[n].state = "open" /\ ~ pulls'[n].draft /\ (pulls[n].state = "none" \/ pulls[n].draft)
             => \/ humans' # humans
                \/ \E r \in CoderRun : stage'[r] # stage[r] /\ verdict[r] = "good"]_coderVars
  BY ReadyIsEarned DEF CoderInv
<1>4. CoderSpec => [](CoderTypeOK /\ PublishedIsVerified /\ RepairKeepsToItsOwn)
  BY CoderInvariant, <1>1, PTL
<1>5. CoderSpec => OthersCommitsSurvive
  BY CoderInvariant, <1>2, PTL DEF OthersCommitsSurvive, CoderSpec
<1>6. CoderSpec => ReadyMeansPassed
  BY CoderInvariant, <1>3, PTL DEF ReadyMeansPassed, CoderSpec
<1> QED BY <1>4, <1>5, <1>6 DEF PublicationIsSound
===============================================================================
