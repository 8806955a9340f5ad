------------------------------- MODULE MCCoding -------------------------------
(***************************************************************************)
(* Safety of the process for TLC: "part" says which component moves in a   *)
(* behaviour, the others resting.                                          *)
(*                                                                         *)
(* The Coder has four parts of its own: "repair" is one run for an issue   *)
(* whose pull request is open and registered, with humans about; "fresh"   *)
(* begins with nothing, and the second run starts when the first is over;  *)
(* "twins" are two runs for the issue at once, and "budget" is the tool    *)
(* that launches repairs, where one review is dismissed at most and the    *)
(* budget never shrinks. "review" is the Reviewer. "surfaces" is where the *)
(* coworker takes part, beginning with a group and a person configured.    *)
(* In "brain" turns record two Effects at most. Which review is dismissed  *)
(* and which call or run is first to begin is the same up to their names,  *)
(* so it has one name; and one of two Reviewers never blocks.              *)
(***************************************************************************)
EXTENDS MCBrainLoop, CoderPublication, RepairBudget, ReviewSubmission, SurfaceRegistry

CONSTANTS k1, k2, v1, v2, a1, g1, x1, x2, g, h

VARIABLE part

coderSuite == <<coderVars, budgetVars, reviewVars>>
codingVars == <<loopVars, coderSuite, surfaceVars, part>>

Part == {"brain", "repair", "fresh", "twins", "budget", "review", "surfaces"}

MCInit ==
  /\ part \in Part
  /\ LoopInitAt(IF part = "brain" THEN "starting" ELSE "failed")
  /\ CoderInitAt(part \in {"repair", "twins"})
  /\ BudgetInit /\ standing = Review
  /\ ReviewInit
  /\ SurfaceInit /\ managed = SurfaceChat /\ paired = x1

Within ==
  CASE part = "repair" -> stage'[k2] = "idle"
    [] part = "fresh" -> humans' <= 1 /\ (stage'[k2] = "idle" \/ stage[k1] = "done")
    [] part = "twins" -> /\ humans' = 0 /\ runDeaths' = 0 /\ target'[k2] = 0
                         /\ \A r \in CoderRun : round'[r] = 1

CodingNext ==
  \/ /\ part = "brain"
     /\ LoopNext
     /\ Cardinality({x \in Effect : effect'[x] # "absent"}) <= 2
     /\ UNCHANGED coderSuite
  \/ /\ part \in {"repair", "fresh", "twins"}
     /\ CoderNext /\ Within /\ coderVars' # coderVars
     /\ UNCHANGED <<loopVars, budgetVars, reviewVars>>
  \/ /\ part = "budget"
     /\ BudgetNext /\ budgetVars' # budgetVars
     /\ {v1, v2} \subseteq standing' /\ limit' >= limit
     /\ doing[a1] # "idle" \/ \A a \in RepairCall \ {a1} : doing'[a] = "idle" \/ doing[a] # "idle"
     /\ UNCHANGED <<loopVars, coderVars, reviewVars>>
  \/ /\ part = "review"
     /\ ReviewNext /\ reviewVars' # reviewVars
     /\ doingReview'[g1] # "idle" \/ \A r \in ReviewRun : doingReview'[r] = "idle"
     /\ \A r \in ReviewRun \ {g1} : judgement'[r] # "blocking"
     /\ UNCHANGED <<loopVars, coderVars, budgetVars>>

MCNext ==
  \/ CodingNext /\ UNCHANGED <<surfaceVars, part>>
  \/ part = "surfaces" /\ SurfaceNext /\ UNCHANGED <<loopVars, coderSuite, part>>

MCSpec == MCInit /\ [][MCNext]_codingVars
===============================================================================
