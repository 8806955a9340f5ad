--------------------------- MODULE ReviewSubmission ---------------------------
(***************************************************************************)
(* Runs of the Reviewer on one pull request (capabilities/reviewer): each  *)
(* judges the head it found and submits one formal review of it, by the    *)
(* tool call of its model or, when the model makes none that succeeds, by  *)
(* a fallback that never approves.                                         *)
(*                                                                         *)
(* A webhook and the Brain may both have a head reviewed, at once. The     *)
(* submissions of one process are single per run and per head; across      *)
(* processes the marker in the body of a review is what is looked for.     *)
(* Meanwhile the author pushes, closes, and makes the pull request a draft.*)
(* The findings are none, remarks, or some that block. What a run reads at *)
(* its start is one step. The login of the App, the pages of GitHub, inline*)
(* locations and the text are left out.                                    *)
(*                                                                         *)
(* FindNothing is a faulty variant that nothing uses.                      *)
(***************************************************************************)
EXTENDS Naturals, FiniteSets

CONSTANTS
  ReviewRun,       \* runs of the workflow
  MaxHeads,        \* bounds the heads of the pull request
  MaxReviewDeaths, \* bounds the deaths of the process
  NoRun

ASSUME ReviewConstants ==
  /\ MaxHeads \in Nat \ {0}
  /\ MaxReviewDeaths \in Nat
  /\ NoRun \notin ReviewRun

VARIABLES
  liveHead,    \* the head of the pull request
  eligible,    \* it is open, and no draft
  posted,      \* the reviews: [head, event, and what the run that posted it had:
               \* the head it works on, its exercise, what its model said]
  extra,       \* history: the heads that were reviewed twice
  doingReview, \* how far each run is
  reviewed,    \* the head it works on, 0 for none
  green,       \* whether the exercise of the repository passed
  judgement,   \* what its model called the tool with: "none", "clean", "remarks", "blocking"
  silent,      \* the runs whose model gave no verdict
  settledRun,  \* the runs whose submission has succeeded
  submitter,   \* the run that carries out the submission for each head
  submission,  \* how far that is: "none", "checking", "finding", "creating"
  reviewDeaths

runState == <<doingReview, reviewed, green, judgement, silent, settledRun>>
submissions == <<submitter, submission>>
pullState == <<liveHead, eligible>>
reviewVars == <<pullState, posted, extra, runState, submissions, reviewDeaths>>

Heads == 1..MaxHeads

ReviewInit ==
  /\ liveHead = 1
  /\ eligible = TRUE
  /\ posted = {}
  /\ extra = {}
  /\ doingReview = [r \in ReviewRun |-> "idle"]
  /\ reviewed = [r \in ReviewRun |-> 0]
  /\ green = [r \in ReviewRun |-> FALSE]
  /\ judgement = [r \in ReviewRun |-> "none"]
  /\ silent = {}
  /\ settledRun = {}
  /\ submitter = [h \in Heads |-> NoRun]
  /\ submission = [h \in Heads |-> "none"]
  /\ reviewDeaths = 0

ReviewOf(h) == {p \in posted : p.head = h}

(* The events. A model that gave no verdict does not approve.              *)
EventOf(passed, said) ==
  CASE ~ passed \/ said = "blocking" -> "REQUEST_CHANGES"
    [] passed /\ said = "remarks" -> "COMMENT"
    [] OTHER -> "APPROVE"
MissingVerdict(passed) == IF passed THEN "COMMENT" ELSE "REQUEST_CHANGES"

-----------------------------------------------------------------------------
(* A run.                                                                  *)

(* What the runs knew is gone when they end.                               *)
Over(rs) ==
  /\ doingReview' = [r \in ReviewRun |-> IF r \in rs THEN "done" ELSE doingReview[r]]
  /\ reviewed' = [r \in ReviewRun |-> IF r \in rs THEN 0 ELSE reviewed[r]]
  /\ green' = [r \in ReviewRun |-> r \notin rs /\ green[r]]
  /\ judgement' = [r \in ReviewRun |-> IF r \in rs THEN "none" ELSE judgement[r]]
  /\ silent' = silent \ rs
  /\ settledRun' = settledRun \ rs

(* The run reviews the head that is live. One that is not eligible, not    *)
(* the head it was launched for, or reviewed already ends it.              *)
BeginReview(r, pinned) ==
  /\ doingReview[r] = "idle"
  /\ IF eligible /\ pinned \in {0, liveHead} /\ ReviewOf(liveHead) = {}
     THEN /\ reviewed' = [reviewed EXCEPT ![r] = liveHead]
          /\ doingReview' = [doingReview EXCEPT ![r] = "exercising"]
          /\ UNCHANGED <<green, judgement, silent, settledRun>>
     ELSE Over({r})
  /\ UNCHANGED <<pullState, posted, extra, submissions, reviewDeaths>>

Exercise(r) ==
  /\ doingReview[r] = "exercising"
  /\ \E passed \in BOOLEAN : green' = [green EXCEPT ![r] = passed]
  /\ doingReview' = [doingReview EXCEPT ![r] = "judging"]
  /\ UNCHANGED <<pullState, posted, extra, reviewed, judgement, silent, settledRun, submissions, reviewDeaths>>

(* submit_review: the run joins a submission for its head that is under    *)
(* way, whatever that one says, or begins its own.                         *)
Join(r) ==
  /\ doingReview' = [doingReview EXCEPT ![r] = "submitting"]
  /\ IF submitter[reviewed[r]] = NoRun
     THEN /\ submitter' = [submitter EXCEPT ![reviewed[r]] = r]
          /\ submission' = [submission EXCEPT ![reviewed[r]] = "checking"]
     ELSE UNCHANGED submissions

ModelSubmits(r, said) ==
  /\ doingReview[r] = "judging"
  /\ r \notin silent
  /\ r \notin settledRun
  /\ judgement' = [judgement EXCEPT ![r] = said]
  /\ Join(r)
  /\ UNCHANGED <<pullState, posted, extra, reviewed, green, silent, settledRun, reviewDeaths>>

(* The model has finished without a review.                                *)
FallBack(r) ==
  /\ doingReview[r] = "judging"
  /\ r \notin silent
  /\ r \notin settledRun
  /\ silent' = silent \cup {r}
  /\ Join(r)
  /\ UNCHANGED <<pullState, posted, extra, reviewed, green, judgement, settledRun, reviewDeaths>>

ReviewEnds(r) ==
  /\ doingReview[r] = "judging"
  /\ r \in silent \cup settledRun
  /\ Over({r})
  /\ UNCHANGED <<pullState, posted, extra, submissions, reviewDeaths>>

(* A model call, the sandbox or GitHub fails the run.                      *)
ReviewFails(r) ==
  /\ doingReview[r] \in {"exercising", "judging"}
  /\ Over({r})
  /\ UNCHANGED <<pullState, posted, extra, submissions, reviewDeaths>>

-----------------------------------------------------------------------------
(* The submission for head h.                                              *)

(* It is over, for the runs that wait for it. One that failed may be tried *)
(* again by each.                                                          *)
Wakes(h, ok) ==
  LET waiting == {r \in ReviewRun : doingReview[r] = "submitting" /\ reviewed[r] = h}
  IN  /\ doingReview' = [r \in ReviewRun |-> IF r \in waiting THEN "judging" ELSE doingReview[r]]
      /\ settledRun' = IF ok THEN settledRun \cup waiting ELSE settledRun
      /\ submission' = [submission EXCEPT ![h] = "none"]
Finished(h, ok) == Wakes(h, ok) /\ submitter' = [submitter EXCEPT ![h] = NoRun]

(* The head must still be the live one, and eligible.                      *)
CheckLiveHead(h) ==
  /\ submission[h] = "checking"
  /\ IF eligible /\ liveHead = h
     THEN /\ submission' = [submission EXCEPT ![h] = "finding"]
          /\ UNCHANGED <<doingReview, settledRun, submitter>>
     ELSE Finished(h, TRUE)
  /\ UNCHANGED <<pullState, posted, extra, reviewed, green, judgement, silent, reviewDeaths>>

FindNothing(h) ==
  /\ submission[h] = "finding"
  /\ submission' = [submission EXCEPT ![h] = "creating"]
  /\ UNCHANGED <<pullState, posted, extra, runState, submitter, reviewDeaths>>
FindReview(h) ==
  /\ submission[h] = "finding"
  /\ IF ReviewOf(h) = {}
     THEN /\ submission' = [submission EXCEPT ![h] = "creating"]
          /\ UNCHANGED <<doingReview, settledRun, submitter>>
     ELSE Finished(h, TRUE)
  /\ UNCHANGED <<pullState, posted, extra, reviewed, green, judgement, silent, reviewDeaths>>

Post(h) ==
  LET r == submitter[h]
      said == IF r \in silent THEN "silence" ELSE judgement[r]
      event == IF r \in silent THEN MissingVerdict(green[r]) ELSE EventOf(green[r], said)
  IN  /\ posted' = posted \cup {[head |-> h, event |-> event, of |-> reviewed[r],
                                   passed |-> green[r], said |-> said]}
      /\ extra' = IF ReviewOf(h) = {} THEN extra ELSE extra \cup {h}

(* createReview. When its answer is lost the review may be there.          *)
CreateReview(h, answered) ==
  /\ submission[h] = "creating"
  /\ Post(h)
  /\ Finished(h, answered)
  /\ UNCHANGED <<pullState, reviewed, green, judgement, silent, reviewDeaths>>
SubmissionFails(h) ==
  /\ submission[h] # "none"
  /\ Finished(h, FALSE)
  /\ UNCHANGED <<pullState, posted, extra, reviewed, green, judgement, silent, reviewDeaths>>

-----------------------------------------------------------------------------
(* The environment.                                                        *)

AuthorActs ==
  /\ \/ liveHead < MaxHeads /\ liveHead' = liveHead + 1 /\ UNCHANGED eligible
     \/ eligible' = ~ eligible /\ UNCHANGED liveHead
  /\ UNCHANGED <<posted, extra, runState, submissions, reviewDeaths>>

(* The process dies; a review that was on its way may arrive.              *)
ReviewersDie ==
  /\ reviewDeaths < MaxReviewDeaths
  /\ reviewDeaths' = reviewDeaths + 1
  /\ \/ UNCHANGED <<posted, extra>>
     \/ \E h \in Heads : submission[h] = "creating" /\ Post(h)
  /\ Over({r \in ReviewRun : doingReview[r] # "idle"})
  /\ submitter' = [h \in Heads |-> NoRun]
  /\ submission' = [h \in Heads |-> "none"]
  /\ UNCHANGED pullState

ReviewNext ==
  \/ \E r \in ReviewRun :
       \/ \E pinned \in 0..MaxHeads : BeginReview(r, pinned)
       \/ Exercise(r) \/ FallBack(r) \/ ReviewEnds(r) \/ ReviewFails(r)
       \/ \E said \in {"clean", "remarks", "blocking"} : ModelSubmits(r, said)
  \/ \E h \in Heads :
       CheckLiveHead(h) \/ FindReview(h) \/ SubmissionFails(h) \/ \E b \in BOOLEAN : CreateReview(h, b)
  \/ AuthorActs \/ ReviewersDie

ReviewSpec == ReviewInit /\ [][ReviewNext]_reviewVars

-----------------------------------------------------------------------------
(* Properties.                                                             *)

(* Besides the types: a submission is under way exactly when some run      *)
(* carries it out, so that nobody waits for one that has ended.            *)
ReviewTypeOK ==
  /\ liveHead \in Heads /\ eligible \in BOOLEAN
  /\ \A p \in posted : p.head \in Heads /\ p.of \in Heads
  /\ \A r \in ReviewRun :
       /\ reviewed[r] \in 0..MaxHeads
       /\ doingReview[r] = "submitting" => submission[reviewed[r]] # "none"
  /\ \A h \in Heads :
       IF submission[h] = "none" THEN submitter[h] = NoRun
       ELSE submitter[h] \in ReviewRun /\ doingReview[submitter[h]] = "submitting"

(* The App reviews a head once, whichever runs of whichever processes      *)
(* judged it, also when the answer of GitHub was lost.                     *)
OneReviewPerHead == extra = {}

(* An approval is of the head that was exercised, after checks that        *)
(* passed, by a model that had no finding: silence approves nothing.       *)
ApprovalEarned ==
  \A p \in posted :
    p.event = "APPROVE" => p.of = p.head /\ p.passed /\ p.said = "clean"

(* What the Reviewer posts, in one property.                               *)
ReviewsAreEarned == ReviewTypeOK /\ OneReviewPerHead /\ ApprovalEarned
===============================================================================
