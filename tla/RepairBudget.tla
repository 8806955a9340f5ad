----------------------------- MODULE RepairBudget -----------------------------
(***************************************************************************)
(* repair_pull_request (capabilities/coder/repair-tool.ts) and the budget  *)
(* of one pull request in the registry of coding jobs (registry.ts). A     *)
(* review that requests changes leads to one repair, as long as the budget *)
(* lasts, and then to a demotion to draft with one note.                   *)
(*                                                                         *)
(* The registry and the Brain's store are two databases. A review is       *)
(* reserved in the first, then its launch in the second, without an await  *)
(* between: only the death of the process comes between. What fails later  *)
(* gives the reservation back, unless the launch is durable already. The   *)
(* Brain may call the tool for a review again at any time, and for two     *)
(* reviews at once.                                                        *)
(*                                                                         *)
(* RefusedKeeps is a faulty variant that nothing uses.                     *)
(***************************************************************************)
EXTENDS Naturals, FiniteSets

CONSTANTS
  Review,        \* the reviews of the pull request
  RepairCall,    \* calls of the tool at a time
  MaxBudget,     \* bounds the budgets that are asked for
  MaxNotes,      \* bounds the notes on the pull request
  MaxToolDeaths, \* bounds the deaths of the process
  NoReview

ASSUME BudgetConstants ==
  /\ NoReview \notin Review
  /\ MaxBudget \in Nat /\ MaxNotes \in Nat /\ MaxToolDeaths \in Nat

VARIABLES
  standing,  \* the reviews that request changes, by the Reviewer App
  registered,\* whether the pull request has a row in coding_jobs
  limit,     \* its max_review_cycles
  cycle,     \* its review_cycle
  repair,    \* the coding_job_repairs row of each review: "none", "launched" or "over-budget"
  launches,  \* the launches reserved for each review in the Brain's store
  drafted,   \* the pull request is a draft
  notes,     \* its marked comments
  doing,     \* how far each call is
  about,     \* the review it is about
  sawNote,   \* the calls that found a note to update
  demoted,   \* history: the reviews whose demotion has finished
  cutOff,    \* history: the reviews whose call died between two steps
  crowded,   \* history: whether two demotions ran at the same time
  toolDeaths

rowVars == <<registered, limit, cycle, repair>>
pullVars == <<drafted, notes>>
callState == <<doing, about, sawNote>>
budgetHistory == <<demoted, cutOff, crowded, toolDeaths>>
budgetVars == <<standing, rowVars, launches, pullVars, callState, budgetHistory>>

MaxRepairCycles == 2

BudgetInit ==
  /\ standing \in SUBSET Review
  /\ registered = FALSE
  /\ limit = 0
  /\ cycle = 0
  /\ repair = [v \in Review |-> "none"]
  /\ launches = [v \in Review |-> 0]
  /\ drafted = FALSE
  /\ notes = 0
  /\ doing = [a \in RepairCall |-> "idle"]
  /\ about = [a \in RepairCall |-> NoReview]
  /\ sawNote = {}
  /\ demoted = {}
  /\ cutOff = {}
  /\ crowded = FALSE
  /\ toolDeaths = 0

Move(a, to) == doing' = [doing EXCEPT ![a] = to]
Answer(a) ==
  /\ Move(a, "idle")
  /\ about' = [about EXCEPT ![a] = NoReview]
  /\ sawNote' = sawNote \ {a}
Launched == {v \in Review : repair[v] = "launched"}

(* Nothing runs between the two reservations.                              *)
MayRun(a) == \A o \in RepairCall \ {a} : doing[o] # "launching"

(* upsert of a run of the Coder: the budget it was asked to have, clamped; *)
(* the cycles consumed stay.                                               *)
Upsert(asked) ==
  /\ registered' = TRUE
  /\ limit' = IF asked < MaxRepairCycles THEN asked ELSE MaxRepairCycles
  /\ UNCHANGED <<standing, cycle, repair, launches, pullVars, callState, budgetHistory>>

(* releaseRepair. *)
Release(v) ==
  /\ repair' = [repair EXCEPT ![v] = "none"]
  /\ cycle' = IF repair[v] = "launched" /\ cycle > 0 THEN cycle - 1 ELSE cycle
  /\ UNCHANGED <<registered, limit>>

Call(a, v) ==
  /\ MayRun(a)
  /\ doing[a] = "idle"
  /\ about' = [about EXCEPT ![a] = v]
  /\ Move(a, "asking")
  /\ UNCHANGED <<standing, rowVars, launches, pullVars, sawNote, budgetHistory>>

(* The review is read from GitHub, and is not one to act upon; or it, or   *)
(* its pull request, is not in the registry or was decided before.         *)
Refuse(a) ==
  /\ MayRun(a)
  /\ doing[a] = "asking"
  /\ about[a] \notin standing \/ ~ registered \/ repair[about[a]] # "none"
  /\ Answer(a)
  /\ UNCHANGED <<standing, rowVars, launches, pullVars, budgetHistory>>

(* reserveRepair, in one transaction.                                      *)
Reserve(a) ==
  /\ MayRun(a)
  /\ doing[a] = "asking"
  /\ about[a] \in standing /\ registered /\ repair[about[a]] = "none"
  /\ IF cycle >= limit
     THEN /\ repair' = [repair EXCEPT ![about[a]] = "over-budget"]
          /\ crowded' = (crowded \/ \E o \in RepairCall : doing[o] \in {"demoting", "looking", "noting"})
          /\ Move(a, "demoting")
          /\ UNCHANGED cycle
     ELSE /\ repair' = [repair EXCEPT ![about[a]] = "launched"]
          /\ cycle' = cycle + 1
          /\ Move(a, "launching")
          /\ UNCHANGED crowded
  /\ UNCHANGED <<standing, registered, limit, launches, pullVars, about, sawNote, demoted, cutOff, toolDeaths>>

(* reserveSpecialistLaunch, which refuses when the Batch has settled.      *)
LaunchReserved(a) ==
  /\ doing[a] = "launching"
  /\ launches' = [launches EXCEPT ![about[a]] = @ + 1]
  /\ Move(a, "admitting")
  /\ UNCHANGED <<standing, rowVars, pullVars, about, sawNote, budgetHistory>>
RefusedKeeps(a) ==
  /\ doing[a] = "launching"
  /\ Answer(a)
  /\ UNCHANGED <<standing, rowVars, launches, pullVars, budgetHistory>>
LaunchRefused(a) ==
  /\ doing[a] = "launching"
  /\ Release(about[a])
  /\ Answer(a)
  /\ UNCHANGED <<standing, launches, pullVars, budgetHistory>>

(* Flue admits the run, or the launch waits for the next boot: either way  *)
(* it is durable, and the cycle is consumed.                               *)
Admitted(a) ==
  /\ MayRun(a)
  /\ doing[a] = "admitting"
  /\ Answer(a)
  /\ UNCHANGED <<standing, rowVars, launches, pullVars, budgetHistory>>

(* demoteOverBudget: the draft, the search for the note, the note. The     *)
(* answer of a step that was carried out may be lost.                      *)
ConvertToDraft(a) ==
  /\ MayRun(a)
  /\ doing[a] = "demoting"
  /\ drafted' = TRUE
  /\ Move(a, "looking")
  /\ UNCHANGED <<standing, rowVars, launches, notes, about, sawNote, budgetHistory>>
LookForNote(a) ==
  /\ MayRun(a)
  /\ doing[a] = "looking"
  /\ sawNote' = IF notes > 0 THEN sawNote \cup {a} ELSE sawNote
  /\ Move(a, "noting")
  /\ UNCHANGED <<standing, rowVars, launches, pullVars, about, budgetHistory>>
Noted(a) ==
  /\ doing[a] = "noting"
  /\ notes < MaxNotes
  /\ notes' = IF a \in sawNote THEN notes ELSE notes + 1
WriteNote(a) ==
  /\ MayRun(a)
  /\ Noted(a)
  /\ demoted' = demoted \cup {about[a]}
  /\ Answer(a)
  /\ UNCHANGED <<standing, rowVars, launches, drafted, cutOff, crowded, toolDeaths>>
DemotionFails(a) ==
  /\ MayRun(a)
  /\ doing[a] \in {"demoting", "looking", "noting"}
  /\ Noted(a) \/ UNCHANGED notes
  /\ Release(about[a])
  /\ Answer(a)
  /\ UNCHANGED <<standing, launches, drafted, budgetHistory>>

(* The process dies. What it had reserved stays reserved.                  *)
ToolDies ==
  /\ toolDeaths < MaxToolDeaths
  /\ toolDeaths' = toolDeaths + 1
  /\ cutOff' = cutOff \cup {about[a] : a \in {b \in RepairCall :
                   doing[b] \in {"launching", "demoting", "looking", "noting"}}}
  /\ doing' = [a \in RepairCall |-> "idle"]
  /\ about' = [a \in RepairCall |-> NoReview]
  /\ sawNote' = {}
  /\ UNCHANGED <<standing, rowVars, launches, pullVars, demoted, crowded>>

(* A review is dismissed.                                                  *)
Dismiss(v) ==
  /\ v \in standing
  /\ standing' = standing \ {v}
  /\ UNCHANGED <<rowVars, launches, pullVars, callState, budgetHistory>>

BudgetNext ==
  \/ \E a \in RepairCall :
       \/ \E v \in Review : Call(a, v)
       \/ Refuse(a) \/ Reserve(a) \/ LaunchReserved(a) \/ LaunchRefused(a) \/ Admitted(a)
       \/ ConvertToDraft(a) \/ LookForNote(a) \/ WriteNote(a) \/ DemotionFails(a)
  \/ \E asked \in 0..MaxBudget : Upsert(asked)
  \/ \E v \in Review : Dismiss(v)
  \/ ToolDies

BudgetSpec == BudgetInit /\ [][BudgetNext]_budgetVars

-----------------------------------------------------------------------------
(* Properties.                                                             *)

(* Besides the types: the cap of two cycles holds whatever was asked.      *)
BudgetTypeOK ==
  /\ standing \subseteq Review
  /\ limit \in 0..MaxRepairCycles
  /\ cycle \in 0..MaxRepairCycles
  /\ \A v \in Review : repair[v] \in {"none", "launched", "over-budget"} /\ launches[v] \in Nat
  /\ \A a \in RepairCall : (doing[a] = "idle") <=> (about[a] = NoReview)

(* However often the Brain calls the tool, for however many reviews at     *)
(* once and with whatever failures: a review leads to one launch, a pull   *)
(* request to two, and the cycles consumed are the reviews launched.       *)
RepairsWithinBudget ==
  /\ \A v \in Review : launches[v] <= 1
  /\ Cardinality({v \in Review : launches[v] > 0}) <= MaxRepairCycles
  /\ cycle = Cardinality(Launched)

(* A reservation is backed by what it was made for, or a call is still on  *)
(* its way to that, or the process died on that way: no failure consumes a *)
(* cycle or a demotion for nothing.                                        *)
ReservationsStand ==
  \A v \in Review :
    repair[v] # "none" =>
      \/ v \in cutOff
      \/ repair[v] = "launched" /\ launches[v] = 1
      \/ repair[v] = "over-budget" /\ v \in demoted
      \/ \E a \in RepairCall : about[a] = v /\ doing[a] # "asking"

(* Retries and redeliveries converge on one note, as long as two demotions *)
(* do not run at the same time.                                            *)
NotesConverge == notes > 1 => crowded

(* The budget of one pull request, in one property.                        *)
BudgetIsKept == BudgetTypeOK /\ RepairsWithinBudget /\ ReservationsStand /\ NotesConverge
===============================================================================
