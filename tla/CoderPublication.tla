--------------------------- MODULE CoderPublication ---------------------------
(***************************************************************************)
(* Runs of the Coder for one issue (agents/src/capabilities/coder): the    *)
(* branch they share, its pull requests, the registry of coding jobs and   *)
(* the directory each run works in. A run takes many minutes, and its only *)
(* memory between GitHub's answers is what it read: humans meanwhile push, *)
(* close, rename, delete and mark ready, and a second run of the issue may *)
(* be under way in the same directory of the host.                         *)
(*                                                                         *)
(* Two calls to GitHub that read are one step, a mutation is a step of its *)
(* own. A tree is the commit it was extracted from and the edits since, by *)
(* run and round: those of one round are its Coder's and, before the       *)
(* verdict, its Verifier's; the author of the pull request, a Coder with   *)
(* the same sandbox, edits in round 0, against its prompt. GitHub keeps    *)
(* one open pull request per branch and base. Waypoints, prompts, the text *)
(* of the pull request and what gitignore hides are left out.              *)
(*                                                                         *)
(* PushForced is a faulty variant that nothing uses.                       *)
(***************************************************************************)
EXTENDS Naturals, FiniteSets

CONSTANTS
  CoderRun,    \* runs of the workflow
  MaxCommits,  \* bounds the commits; the first is the head of the base branch
  MaxPrs,      \* bounds the pull requests of the branch
  MaxRounds,   \* maxVerificationRounds of every run
  MaxHumans,   \* bounds what humans do
  MaxRunDeaths,\* bounds the deaths of the process
  Human,       \* the author of every other commit
  NoTree       \* no directory, or an empty one

ASSUME CoderConstants ==
  /\ MaxCommits \in Nat \ {0, 1} /\ MaxPrs \in Nat \ {0} /\ MaxRounds \in Nat \ {0}
  /\ MaxHumans \in Nat /\ MaxRunDeaths \in Nat
  /\ Human \notin CoderRun

VARIABLES
  \* GitHub
  branch,    \* the head of agent/coder/issue-N, 0 when there is no such branch
  commits,   \* how many commits there are
  parent,    \* the parent of each
  author,    \* its author
  tree,      \* what it holds
  pulls,     \* the pull requests: "none", "open" or "closed"; ours; draft
  \* the registry, durable
  jobs,      \* the pull requests with a row
  \* the host
  workspace, \* what the directory issue-N holds
  \* each run
  stage,     \* how far it is
  target,    \* the pull request it repairs, 0 for a new issue
  seed,      \* the commit its directory was extracted from
  existed,   \* whether the branch existed then
  round,     \* its verification round
  verdict,   \* the last verdict of its Verifier
  verified,  \* what the Verifier saw
  asked,     \* the draft its model asked for
  head,      \* the head ensureBranch returned
  found,     \* the open pull request upsertPullRequest found, 0 for none
  reported,  \* record.pr, 0 for none
  barred,    \* the runs with record.blocked
  \* history
  crossed,   \* runs that had the directory at the same time as another
  overtaken, \* repairs whose pull request was closed or renamed after the last check
  humans, runDeaths

gitVars == <<branch, commits, parent, author, tree>>
readVars == <<target, seed, existed>>
roundVars == <<round, verdict, verified>>
callVars == <<asked, head, found>>
toolVars == <<callVars, reported, barred>>
coderHistory == <<crossed, overtaken, humans, runDeaths>>
coderVars == <<gitVars, pulls, jobs, workspace, stage, readVars, roundVars, toolVars, coderHistory>>

Commit == 1..MaxCommits
Pull == 1..MaxPrs
Stage == {"idle", "seeding", "coding", "verifying", "publishing", "checking", "ensuring",
          "creating", "pushing", "rechecking", "listing", "opening", "updating",
          "converting", "closing", "done"}
NoPull == [state |-> "none", ours |-> TRUE, draft |-> FALSE]
Seeded(c) == [from |-> c, edits |-> {}]

(* Nothing yet, or a pull request that a run has opened and registered.    *)
CoderInitAt(published) ==
  /\ branch = IF published THEN 2 ELSE 0
  /\ commits = 2
  /\ parent = [c \in Commit |-> IF c = 2 THEN 1 ELSE 0]
  /\ author = [c \in Commit |-> Human]
  /\ tree = [c \in Commit |-> Seeded(c)]
  /\ pulls = [n \in Pull |-> IF published /\ n = 1
                             THEN [state |-> "open", ours |-> TRUE, draft |-> FALSE] ELSE NoPull]
  /\ jobs = IF published THEN {1} ELSE {}
  /\ workspace = NoTree
  /\ stage = [r \in CoderRun |-> "idle"]
  /\ target = [r \in CoderRun |-> 0]
  /\ seed = [r \in CoderRun |-> 0]
  /\ existed = [r \in CoderRun |-> FALSE]
  /\ round = [r \in CoderRun |-> 1]
  /\ verdict = [r \in CoderRun |-> "none"]
  /\ verified = [r \in CoderRun |-> NoTree]
  /\ asked = [r \in CoderRun |-> FALSE]
  /\ head = [r \in CoderRun |-> 0]
  /\ found = [r \in CoderRun |-> 0]
  /\ reported = [r \in CoderRun |-> 0]
  /\ barred = {}
  /\ crossed = {}
  /\ overtaken = {}
  /\ humans = 0
  /\ runDeaths = 0

To(r, next) == stage' = [stage EXCEPT ![r] = next]
OpenPulls == {n \in Pull : pulls[n].state = "open" /\ pulls[n].ours}

(* A run between the extraction of its directory and the removal.          *)
Working(r) == stage[r] \notin {"idle", "seeding", "done"}

Ancestors(c) ==
  LET line[k \in 0..MaxCommits] == IF k = 0 THEN {} ELSE {k} \cup line[parent[k]]
  IN  line[c]

-----------------------------------------------------------------------------
(* The start of a run.                                                     *)

(* A new issue starts from its branch, or from the base.                   *)
StartIssue(r) ==
  /\ stage[r] = "idle"
  /\ existed' = [existed EXCEPT ![r] = branch # 0]
  /\ seed' = [seed EXCEPT ![r] = IF branch # 0 THEN branch ELSE 1]
  /\ To(r, "seeding")
  /\ UNCHANGED <<gitVars, pulls, jobs, workspace, target, roundVars, toolVars, coderHistory>>

(* continuationBlockReason. *)
Repairable(n) == pulls[n].state = "open" /\ pulls[n].ours

(* A repair is of a registered pull request, and starts from the head the  *)
(* guard has verified; otherwise the run ends at once.                     *)
StartRepair(r, n) ==
  /\ stage[r] = "idle"
  /\ target' = [target EXCEPT ![r] = n]
  /\ IF n \in jobs /\ Repairable(n)
     THEN /\ existed' = [existed EXCEPT ![r] = TRUE]
          /\ seed' = [seed EXCEPT ![r] = branch]
          /\ To(r, "seeding")
     ELSE To(r, "done") /\ UNCHANGED <<existed, seed>>
  /\ UNCHANGED <<gitVars, pulls, jobs, workspace, roundVars, toolVars, coderHistory>>

(* The directory is removed, whoever works in it, and extracted again.     *)
Extract(r) ==
  /\ stage[r] = "seeding"
  /\ workspace' = Seeded(seed[r])
  /\ LET others == {o \in CoderRun \ {r} : Working(o)}
     IN  crossed' = IF others = {} THEN crossed ELSE crossed \cup others \cup {r}
  /\ To(r, "coding")
  /\ UNCHANGED <<gitVars, pulls, jobs, readVars, roundVars, toolVars, overtaken, humans, runDeaths>>

-----------------------------------------------------------------------------
(* runInternalCodingLoop.                                                  *)

Code(r) ==
  /\ stage[r] = "coding"
  /\ \/ UNCHANGED workspace
     \/ /\ workspace # NoTree
        /\ workspace' = [workspace EXCEPT !.edits = @ \cup {<<r, round[r]>>}]
  /\ To(r, "verifying")
  /\ UNCHANGED <<gitVars, pulls, jobs, readVars, roundVars, toolVars, coderHistory>>

(* PASS and SKIP are good. FAIL and BLOCKED send the work back to the      *)
(* Coder, for another round if there is one.                               *)
VerifyUpTo(r, last) ==
  /\ stage[r] = "verifying"
  /\ \E v \in {"good", "bad"} :
       /\ verdict' = [verdict EXCEPT ![r] = v]
       /\ IF v = "good" \/ round[r] = last
          THEN To(r, "publishing") /\ UNCHANGED round
          ELSE To(r, "coding") /\ round' = [round EXCEPT ![r] = @ + 1]
  /\ verified' = [verified EXCEPT ![r] = workspace]
  /\ UNCHANGED <<gitVars, pulls, jobs, workspace, readVars, toolVars, coderHistory>>
Verify(r) == VerifyUpTo(r, MaxRounds)

-----------------------------------------------------------------------------
(* open_pull_request. The model may call it again, or never.               *)

(* Its prompt forbids the author to edit; the sandbox and the tool do not. *)
Retouched(t, r) == [t EXCEPT !.edits = @ \cup {<<r, 0>>}]
Retouch(r) ==
  /\ stage[r] = "publishing"
  /\ workspace # NoTree
  /\ workspace' = Retouched(workspace, r)
  /\ UNCHANGED <<gitVars, pulls, jobs, stage, readVars, roundVars, toolVars, coderHistory>>

RequiredDraft(r) == verdict[r] = "bad"
Changed(r) == workspace # Seeded(seed[r])

(* A call is over, and its variables with it.                              *)
Returns(r) ==
  /\ To(r, "publishing")
  /\ asked' = [asked EXCEPT ![r] = FALSE]
  /\ head' = [head EXCEPT ![r] = 0]
  /\ found' = [found EXCEPT ![r] = 0]

(* Whatever throws in the tool is an answer to the model.                  *)
ToolFails(r) ==
  /\ stage[r] \in {"checking", "ensuring", "creating", "pushing", "rechecking", "listing",
                   "opening", "updating", "converting"}
  /\ Returns(r)
  /\ UNCHANGED <<gitVars, pulls, jobs, workspace, readVars, roundVars, reported, barred, coderHistory>>

DraftAgrees(r, draft) == draft = RequiredDraft(r)

CallTool(r, draft) ==
  /\ stage[r] = "publishing"
  /\ DraftAgrees(r, draft)
  /\ Changed(r) \/ existed[r]
  /\ asked' = [asked EXCEPT ![r] = draft]
  /\ To(r, IF target[r] # 0 THEN "checking" ELSE "ensuring")
  /\ UNCHANGED <<gitVars, pulls, jobs, workspace, readVars, roundVars, head, found, reported, barred, coderHistory>>

(* verifyLiveContinuation: the pull request and its branch, now.           *)
Rechecks(r, at, ok) ==
  /\ stage[r] = at
  /\ IF ok
     THEN UNCHANGED <<callVars, barred>> /\ To(r, IF at = "checking" THEN "ensuring" ELSE "listing")
     ELSE barred' = barred \cup {r} /\ Returns(r)
  /\ UNCHANGED <<gitVars, pulls, jobs, workspace, readVars, roundVars, reported, coderHistory>>
Live(r) == target[r] # 0 => Repairable(target[r]) /\ branch # 0
CheckFirst(r) == Rechecks(r, "checking", Live(r))
CheckAgain(r) == Rechecks(r, "rechecking", Live(r))

(* ensureBranch. A branch that moved since the run was seeded throws.      *)
EnsureBranch(r) ==
  /\ stage[r] = "ensuring"
  /\ branch \in {0, seed[r]}
  /\ head' = [head EXCEPT ![r] = seed[r]]
  /\ To(r, IF branch = 0 THEN "creating" ELSE "pushing")
  /\ UNCHANGED <<gitVars, pulls, jobs, workspace, readVars, roundVars, asked, found, reported, barred, coderHistory>>

(* GitHub refuses to create a branch that somebody has created meanwhile.  *)
CreateRef(r) ==
  /\ stage[r] = "creating"
  /\ branch = 0
  /\ branch' = seed[r]
  /\ To(r, "pushing")
  /\ UNCHANGED <<commits, parent, author, tree, pulls, jobs, workspace, readVars, roundVars,
                 toolVars, coderHistory>>

(* commitChanges: a commit upon the head, of what the directory holds. The *)
(* update of the branch is not forced.                                     *)
Pushes(r, allowed) ==
  /\ stage[r] = "pushing"
  /\ IF Changed(r)
     THEN /\ commits < MaxCommits
          /\ allowed
          /\ commits' = commits + 1
          /\ branch' = commits'
          /\ parent' = [parent EXCEPT ![commits'] = head[r]]
          /\ author' = [author EXCEPT ![commits'] = r]
          /\ tree' = [tree EXCEPT ![commits'] = workspace]
     ELSE UNCHANGED gitVars
  /\ To(r, IF target[r] # 0 THEN "rechecking" ELSE "listing")
  /\ UNCHANGED <<pulls, jobs, workspace, readVars, roundVars, toolVars, coderHistory>>
PushForced(r) == Pushes(r, branch # 0)
Push(r) == Pushes(r, branch # 0 /\ branch \in Ancestors(head[r]))

(* upsertPullRequest. *)
ListPulls(r) ==
  /\ stage[r] = "listing"
  /\ IF OpenPulls = {}
     THEN To(r, "opening") /\ found' = [found EXCEPT ![r] = 0]
     ELSE \E n \in OpenPulls :
            /\ found' = [found EXCEPT ![r] = n]
            /\ To(r, IF pulls[n].draft = asked[r] THEN "updating" ELSE "converting")
  /\ UNCHANGED <<gitVars, pulls, jobs, workspace, readVars, roundVars, asked, head, reported, barred, coderHistory>>

Tell(r, n) == reported' = [reported EXCEPT ![r] = n] /\ Returns(r)

(* GitHub opens one pull request per branch, for a branch with a commit.   *)
OpenPull(r) ==
  /\ stage[r] = "opening"
  /\ branch \notin {0, 1}
  /\ OpenPulls = {}
  /\ \E n \in Pull :
       /\ pulls[n].state = "none" /\ \A m \in 1..(n - 1) : pulls[m].state # "none"
       /\ pulls' = [pulls EXCEPT ![n] = [state |-> "open", ours |-> TRUE, draft |-> asked[r]]]
       /\ Tell(r, n)
  /\ UNCHANGED <<gitVars, jobs, workspace, readVars, roundVars, barred, coderHistory>>

(* The title and the body are replaced; the draft state only if it has to. *)
UpdatePull(r) ==
  /\ stage[r] = "updating"
  /\ Tell(r, found[r])
  /\ UNCHANGED <<gitVars, pulls, jobs, workspace, readVars, roundVars, barred, coderHistory>>
ConvertPull(r) ==
  /\ stage[r] = "converting"
  /\ pulls' = [pulls EXCEPT ![found[r]].draft = asked[r]]
  /\ Tell(r, found[r])
  /\ UNCHANGED <<gitVars, jobs, workspace, readVars, roundVars, barred, coderHistory>>

-----------------------------------------------------------------------------
(* The end of a run.                                                       *)

(* What the run knew is gone when it ends; verified is kept for the record.*)
Ended(rs) ==
  /\ stage' = [r \in CoderRun |-> IF r \in rs THEN "done" ELSE stage[r]]
  /\ seed' = [r \in CoderRun |-> IF r \in rs THEN 0 ELSE seed[r]]
  /\ existed' = [r \in CoderRun |-> r \notin rs /\ existed[r]]
  /\ round' = [r \in CoderRun |-> IF r \in rs THEN 1 ELSE round[r]]
  /\ verdict' = [r \in CoderRun |-> IF r \in rs THEN "none" ELSE verdict[r]]

(* The publication task is over. A blocked run registers nothing.          *)
Register(r) ==
  /\ stage[r] = "publishing"
  /\ jobs' = IF r \in barred \/ reported[r] = 0 THEN jobs ELSE jobs \cup {reported[r]}
  /\ To(r, "closing")
  /\ UNCHANGED <<gitVars, pulls, workspace, readVars, roundVars, toolVars, coderHistory>>

(* A task of an agent fails the run.                                       *)
RunFails(r) ==
  /\ stage[r] \in {"coding", "verifying", "publishing"}
  /\ To(r, "closing")
  /\ UNCHANGED <<gitVars, pulls, jobs, workspace, readVars, roundVars, toolVars, coderHistory>>

(* The directory is removed in any case, whoever works in it by now.       *)
Remove(r) ==
  /\ stage[r] = "closing"
  /\ workspace' = NoTree
  /\ Ended({r})
  /\ UNCHANGED <<gitVars, pulls, jobs, target, verified, toolVars, coderHistory>>

(* The process dies with its runs, which nothing resumes.                  *)
RunsDie ==
  /\ runDeaths < MaxRunDeaths
  /\ runDeaths' = runDeaths + 1
  /\ Ended({r \in CoderRun : stage[r] # "idle"})
  /\ asked' = [r \in CoderRun |-> FALSE]
  /\ head' = [r \in CoderRun |-> 0]
  /\ found' = [r \in CoderRun |-> 0]
  /\ UNCHANGED <<gitVars, pulls, jobs, workspace, target, verified, reported, barred,
                 crossed, overtaken, humans>>

-----------------------------------------------------------------------------
(* What humans do.                                                         *)

HumanActs == humans < MaxHumans /\ humans' = humans + 1

(* The repairs that have checked pull request n for the last time.         *)
Past(n) == {r \in CoderRun : target[r] = n /\ stage[r] \in {"listing", "opening", "updating", "converting"}}

HumanPushes ==
  /\ HumanActs
  /\ branch # 0 /\ commits < MaxCommits
  /\ commits' = commits + 1
  /\ branch' = commits'
  /\ parent' = [parent EXCEPT ![commits'] = branch]
  /\ tree' = [tree EXCEPT ![commits'] = Seeded(commits')]
  /\ UNCHANGED <<author, pulls, jobs, workspace, stage, readVars, roundVars, toolVars,
                 crossed, overtaken, runDeaths>>

(* Closed, merged, or its branch deleted; reopened it is not.              *)
HumanCloses(n, deleted) ==
  /\ HumanActs
  /\ n \in OpenPulls
  /\ pulls' = [pulls EXCEPT ![n].state = "closed"]
  /\ branch' = IF deleted THEN 0 ELSE branch
  /\ overtaken' = overtaken \cup Past(n)
  /\ UNCHANGED <<commits, parent, author, tree, jobs, workspace, stage, readVars, roundVars,
                 toolVars, crossed, runDeaths>>

(* The branch is renamed, and its pull request goes with it.               *)
HumanRenames(n) ==
  /\ HumanActs
  /\ n \in OpenPulls
  /\ pulls' = [pulls EXCEPT ![n].ours = FALSE]
  /\ branch' = 0
  /\ overtaken' = overtaken \cup Past(n)
  /\ UNCHANGED <<commits, parent, author, tree, jobs, workspace, stage, readVars, roundVars,
                 toolVars, crossed, runDeaths>>

HumanMarksReady(n) ==
  /\ HumanActs
  /\ n \in OpenPulls /\ pulls[n].draft
  /\ pulls' = [pulls EXCEPT ![n].draft = FALSE]
  /\ UNCHANGED <<gitVars, jobs, workspace, stage, readVars, roundVars, toolVars,
                 crossed, overtaken, runDeaths>>

Humans ==
  \/ HumanPushes
  \/ \E n \in Pull : HumanRenames(n) \/ HumanMarksReady(n) \/ \E d \in BOOLEAN : HumanCloses(n, d)

RunSteps(r) ==
  \/ StartIssue(r) \/ \E n \in Pull : StartRepair(r, n)
  \/ Extract(r) \/ Code(r) \/ Verify(r)
  \/ Retouch(r) \/ \E draft \in BOOLEAN : CallTool(r, draft)
  \/ CheckFirst(r) \/ EnsureBranch(r) \/ CreateRef(r) \/ Push(r) \/ CheckAgain(r)
  \/ ListPulls(r) \/ OpenPull(r) \/ UpdatePull(r) \/ ConvertPull(r) \/ ToolFails(r)
  \/ Register(r) \/ RunFails(r) \/ Remove(r)

CoderNext == (\E r \in CoderRun : RunSteps(r)) \/ Humans \/ RunsDie

CoderSpec == (\E p \in BOOLEAN : CoderInitAt(p)) /\ [][CoderNext]_coderVars

-----------------------------------------------------------------------------
(* Properties.                                                             *)

(* Besides the types: a run verifies MaxRounds times at most, and an open  *)
(* pull request has its branch.                                            *)
CoderTypeOK ==
  /\ branch \in 0..commits /\ commits \in Commit
  /\ \A c \in Commit : parent[c] < c /\ author[c] \in CoderRun \cup {Human}
  /\ \A n \in Pull : pulls[n] \in [state : {"none", "open", "closed"}, ours : BOOLEAN, draft : BOOLEAN]
  /\ Cardinality(OpenPulls) <= 1 /\ (OpenPulls # {} => branch # 0)
  /\ jobs \cup {reported[r] : r \in CoderRun} \subseteq {0} \cup {n \in Pull : pulls[n].state # "none"}
  /\ \A r \in CoderRun :
       /\ stage[r] \in Stage
       /\ round[r] \in 1..MaxRounds
       /\ seed[r] \in 0..commits /\ head[r] \in 0..commits /\ found[r] \in 0..MaxPrs
  /\ barred \cup crossed \cup overtaken \subseteq CoderRun

(* A commit somebody else pushed stays on the branch for as long as the    *)
(* branch is there: a run that worked from an older head throws its work   *)
(* away, not theirs.                                                       *)
OthersCommitsSurvive ==
  [][branch # 0 /\ branch' # 0 => Ancestors(branch) \subseteq Ancestors(branch)']_coderVars

(* What a run commits is the tree its Verifier saw last, but for what the  *)
(* author of its pull request has edited since, on top of the commit that  *)
(* tree was made from, so that nothing of anybody else's is combined with  *)
(* it, unless another run had the same directory at the same time. That    *)
(* the author does not edit rests on its prompt alone.                     *)
PublishedIsVerified ==
  \A c \in 1..commits :
    LET r == author[c]
    IN  r \in CoderRun \ crossed =>
          /\ tree[c] \in {verified[r], Retouched(verified[r], r)}
          /\ parent[c] = tree[c].from

(* Only a good verdict, or a human, makes a pull request ready for review. *)
ReadyMeansPassed ==
  [][\A n \in Pull :
       pulls'[n].state = "open" /\ ~ pulls'[n].draft /\ (pulls[n].state = "none" \/ pulls[n].draft)
       => \/ humans' # humans
          \/ \E r \in CoderRun : stage'[r] # stage[r] /\ verdict[r] = "good"]_coderVars

(* A repair reports, and registers, the pull request it was asked to       *)
(* repair and no substitute, unless that one was closed or renamed between *)
(* the last check and the update.                                          *)
RepairKeepsToItsOwn ==
  \A r \in CoderRun \ overtaken :
    target[r] # 0 /\ reported[r] # 0 => reported[r] = target[r]

(* What a Coder run may do to a repository, in one property.               *)
PublicationIsSound ==
  /\ [](CoderTypeOK /\ PublishedIsVerified /\ RepairKeepsToItsOwn)
  /\ OthersCommitsSurvive
  /\ ReadyMeansPassed
===============================================================================
