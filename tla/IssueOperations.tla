--------------------------- MODULE IssueOperations ---------------------------
(***************************************************************************)
(* Writing to GitHub: the ledger of issue operations, the two writers that *)
(* carry out the Brain's Effects under it, and the operator's doctor.      *)
(* (operation-store.ts, issue-filing.ts, issue-mutation.ts, tools.ts,      *)
(* effects-runtime.ts, github-issue-repository.ts, uncertain-work.ts.)     *)
(*                                                                         *)
(* An Effect is carried out at most once by the runtime: its Operation     *)
(* Identity <<e, 0>> is derived from it, and begun in the ledger before    *)
(* the request leaves. The answer may be lost, come late, or find the      *)
(* process dead; the writer then looks at GitHub for the mark the request  *)
(* leaves, or for the state it asked for. What stays Uncertain is the      *)
(* operator's: each retry of <<e, k>> is a fresh identity <<e, k + 1>>.    *)
(***************************************************************************)
EXTENDS Naturals, FiniteSets

CONSTANTS
  Effect,       \* file_issue and issue_mutation Effects of the Brain
  MaxRetries,   \* bound: operator retries of one Effect
  MaxFates      \* bound: lost answers, deaths, other people's edits, doctor runs

ASSUME OperationsAssumption == MaxRetries \in Nat /\ MaxFates \in Nat

\* How an Effect can be observed: "filing" is create-issue, "comment" is
\* create-comment or update-comment, "state" is set-issue-state.
Kind == {"filing", "comment", "update", "state", "delete"}
Marked == {"filing", "comment", "update"}     \* leaves a mark with its identity
Desired == {"update", "state", "delete"}      \* asks for a state of what exists
Operation == Effect \X (0 .. MaxRetries)
First(e) == <<e, 0>>

VARIABLES
  kind,      \* what each Effect asks for
  outcome,   \* the Effect in the Brain's inbox: "none", "pending" or its outcome
  ops,       \* github_issue_operations: the status of each identity
  hits,      \* GitHub: how often a request with this identity took effect
  flying,    \* requests that have left and may still take effect
  marks,     \* identities found on GitHub's records
  holds,     \* Effects whose desired state holds on GitHub
  took,      \* history: Effects whose change was in place at some time
  up,        \* the runtime process lives
  call,      \* the two callers of the writers: a Brain turn, and boot recovery
  toRecover, \* pending Effects the boot recovery has still to visit
  doctor,    \* the operator's command
  fates      \* bounded events so far

github == <<hits, flying, marks, holds, took>>
operationVars == <<kind, outcome, ops, github, up, call, toRecover, doctor, fates>>

Caller == {"turn", "boot"}
Idle == [at |-> "idle"]

OperationsBlank ==
  /\ outcome = [e \in Effect |-> "none"]
  /\ ops = [o \in Operation |-> "none"]
  /\ hits = [o \in Operation |-> 0]
  /\ flying = {} /\ marks = {} /\ holds = {} /\ took = {}
  /\ up = TRUE
  /\ call = [c \in Caller |-> Idle]
  /\ toRecover = {}
  /\ doctor = Idle
  /\ fates = 0

OperationsInit == OperationsBlank /\ kind \in [Effect -> Kind]

Fate == fates < MaxFates /\ fates' = fates + 1

-----------------------------------------------------------------------------
(* The ledger. *)

\* A mistake: an identity may be begun again.
BegunAgain(o) == TRUE
MayBegin(o) == ops[o] = "none"
\* complete, uncertain and fail touch only what is still attempting.
Settled(o, status) == IF ops[o] = "attempting" THEN [ops EXCEPT ![o] = status] ELSE ops

\* Whoever opens the ledger takes what is attempting for interrupted.
Opened == [o \in Operation |-> IF ops[o] = "attempting" THEN "uncertain" ELSE ops[o]]

\* A mistake: only what is known is recorded.
AnsweredIfKnown(e, result) ==
  IF outcome[e] = "pending" /\ result # "uncertain" THEN [outcome EXCEPT ![e] = result] ELSE outcome
\* completeIssueFiling, completeIssueMutation: the first outcome stands.
Answered(e, result) == IF outcome[e] = "pending" THEN [outcome EXCEPT ![e] = result] ELSE outcome

-----------------------------------------------------------------------------
(* GitHub. *)

Takes(o) ==
  LET e == o[1] IN
  /\ hits' = [hits EXCEPT ![o] = @ + 1]
  /\ marks' = IF kind[e] \in Marked THEN marks \cup {o} ELSE marks
  /\ holds' = IF kind[e] \in Desired THEN holds \cup {e} ELSE holds
  /\ took' = took \cup {e}

\* A request takes effect, whether or not anyone still waits for the answer.
Lands(o) ==
  /\ o \in flying /\ flying' = flying \ {o}
  /\ Takes(o)
  /\ UNCHANGED <<kind, outcome, ops, up, call, toRecover, doctor, fates>>

\* Other people: a state is reached or left by another hand; a mark is edited
\* away, or sinks below the newest hundred records.
OthersEdit(e) ==
  /\ Fate
  /\ \/ /\ kind[e] \in Desired
        /\ holds' = IF e \in holds THEN holds \ {e} ELSE holds \cup {e}
        /\ took' = took \cup {e}
        /\ UNCHANGED marks
     \/ marks' = {o \in marks : o[1] # e} /\ marks' # marks /\ UNCHANGED <<holds, took>>
  /\ UNCHANGED <<kind, outcome, ops, hits, flying, up, call, toRecover, doctor>>

\* A bounded search for the mark may miss one that is not listed yet.
Found(o) == IF o \in marks THEN BOOLEAN ELSE {FALSE}

-----------------------------------------------------------------------------
(* A writer at work: deliverFiling, deliverMutation. *)

Step(c, at) == call[c].at = at
E(c) == call[c].effect
Go(c, at) == call' = [call EXCEPT ![c] = [@ EXCEPT !.at = at]]
Return(c) == call' = [call EXCEPT ![c] = Idle]

\* The call returns with this outcome recorded.
Ends(c, result) == outcome' = Answered(E(c), result) /\ Return(c)
\* The call throws, and the Effect stays pending.
Throws(c) == Fate /\ Return(c) /\ UNCHANGED outcome

Prior(e) == ops[First(e)]

Begins(c, e) ==
  /\ outcome' = [outcome EXCEPT ![e] = "pending"]
  /\ call' = [call EXCEPT ![c] =
       [at |-> IF Prior(e) = "none" THEN "preparing" ELSE "checking",
        effect |-> e, prior |-> Prior(e)]]
  /\ UNCHANGED <<kind, ops, github, up, doctor, fates>>

\* A tool of the Brain's turn records the Effect, or finds it recorded.
TurnCalls(e) ==
  /\ up /\ Step("turn", "idle") /\ outcome[e] \in {"none", "pending"}
  /\ outcome' = [outcome EXCEPT ![e] = "pending"]
  /\ Begins("turn", e)
  /\ UNCHANGED toRecover

\* The list was read when the process started: what a turn has settled since
\* is carried out nonetheless.
BootCalls(e) ==
  /\ up /\ Step("boot", "idle") /\ e \in toRecover
  /\ toRecover' = toRecover \ {e}
  /\ outcome' = outcome
  /\ Begins("boot", e)

\* Before anything is begun GitHub is read: for an issue of the same title,
\* for the discussion, for the options.
Prepares(c) ==
  /\ Step(c, "preparing")
  /\ \/ kind[E(c)] = "filing" /\ Ends(c, "duplicate") /\ UNCHANGED <<ops, flying, fates>>
     \/ Ends(c, "uncertain") /\ UNCHANGED <<ops, flying, fates>>
     \/ Throws(c) /\ UNCHANGED <<ops, flying>>
     \/ LET o == First(E(c)) IN   \* begin() and the request, in one step
        /\ MayBegin(o)
        /\ ops' = [ops EXCEPT ![o] = "attempting"]
        /\ flying' = flying \cup {o}
        /\ Go(c, "sent")
        /\ UNCHANGED <<outcome, fates>>
  /\ UNCHANGED <<kind, hits, marks, holds, took, up, toRecover, doctor>>

\* settle(): the completion is recorded, or found recorded; else the Effect
\* is not known to be done.
Completes(c) ==
  LET o == First(E(c)) IN
  /\ ops' = Settled(o, "completed")
  /\ Ends(c, IF ops'[o] = "completed" THEN "done" ELSE "uncertain")

Succeeds(c) ==
  /\ Step(c, "sent") /\ hits[First(E(c))] > 0
  /\ Completes(c)
  /\ UNCHANGED <<kind, github, up, toRecover, doctor, fates>>

\* A request whose sender stops waiting may never arrive.
MayBeLost(o) == flying' \in {flying, flying \ {o}}

\* The answer is lost, late, or a server error.
LosesAnswer(c) ==
  /\ Step(c, "sent") /\ Fate
  /\ MayBeLost(First(E(c)))
  /\ Go(c, "observing")
  /\ UNCHANGED <<kind, outcome, ops, hits, marks, holds, took, up, toRecover, doctor>>

\* GitHub refuses the request: it has no effect.
IsRefused(c) ==
  LET o == First(E(c)) IN
  /\ Step(c, "sent") /\ o \in flying
  /\ flying' = flying \ {o}
  /\ ops' = Settled(o, "failed")
  /\ Ends(c, "uncertain")
  /\ UNCHANGED <<kind, hits, marks, holds, took, up, toRecover, doctor, fates>>

\* What the one bounded observation after a lost answer can show.
Evidence(e) ==
  CASE kind[e] \in {"filing", "comment"} -> Found(First(e))
    [] kind[e] = "update" -> IF e \in holds THEN BOOLEAN ELSE {FALSE}
    [] OTHER -> {FALSE}

Observes(c) ==
  /\ Step(c, "observing")
  /\ \E seen \in Evidence(E(c)) :
       IF seen THEN Completes(c)
       ELSE ops' = Settled(First(E(c)), "uncertain") /\ Ends(c, "uncertain")
  /\ UNCHANGED <<kind, github, up, toRecover, doctor, fates>>

\* The recovered call: what a prior attempt of this Effect can be shown to have done.
Reconciled(e, prior) ==
  CASE kind[e] = "filing" -> IF prior = "completed" THEN {TRUE} ELSE Found(First(e))
    [] kind[e] = "comment" -> IF prior = "completed" THEN {TRUE} ELSE Found(First(e))
    [] kind[e] = "delete" -> {prior = "completed"}
    [] OTHER -> {prior = "completed" \/ e \in holds}

Checks(c) ==
  /\ Step(c, "checking")
  /\ \/ \E shown \in Reconciled(E(c), call[c].prior) : Ends(c, IF shown THEN "done" ELSE "uncertain")
        /\ UNCHANGED fates
     \/ Ends(c, "uncertain") /\ UNCHANGED fates
     \/ Throws(c)
  /\ UNCHANGED <<kind, ops, github, up, toRecover, doctor>>

-----------------------------------------------------------------------------
(* The runtime dies and starts again. *)

Dies ==
  /\ up /\ Fate
  /\ up' = FALSE
  /\ flying' \in {flying} \cup {flying \ {First(e)} : e \in Effect}
  /\ call' = [c \in Caller |-> Idle]
  /\ toRecover' = {}
  /\ UNCHANGED <<kind, outcome, ops, hits, marks, holds, took, doctor>>

Boots ==
  /\ ~up /\ up' = TRUE
  /\ ops' = Opened
  /\ toRecover' = {e \in Effect : outcome[e] = "pending"}
  /\ UNCHANGED <<kind, outcome, github, call, doctor, fates>>

-----------------------------------------------------------------------------
(* The operator: doctor, --retry, --abandon and --accept-observed.          *)

Command == {"diagnose", "retry", "accept"}

\* The doctor opens the ledger, also while the runtime is at work in it.
DoctorReads(o, command) ==
  /\ doctor = Idle /\ Fate
  /\ ops' = Opened
  /\ Opened[o] = "uncertain"
  /\ doctor' = [at |-> "reading", op |-> o, command |-> command]
  /\ UNCHANGED <<kind, outcome, github, up, call, toRecover>>

Abandons(o) ==
  /\ doctor = Idle /\ Fate
  /\ Opened[o] = "uncertain"
  /\ ops' = [Opened EXCEPT ![o] = "abandoned"]
  /\ UNCHANGED <<kind, outcome, github, up, call, toRecover, doctor>>

\* diagnoseMutation: the mark, the desired state, neither, or a failed read.
Diagnosis(o) ==
  {"error"} \cup
  (IF kind[o[1]] \in Marked /\ o \in marks THEN {"reconciled"} ELSE {}) \cup
  (IF o[1] \in holds THEN {"observed"} ELSE {"unresolved"})

Resolved(o, status) == IF ops[o] = "uncertain" THEN [ops EXCEPT ![o] = status] ELSE ops

\* What the diagnosis settles: the mark does, the desired state if it is accepted.
Concludes(finding, command) ==
  finding = "reconciled" \/ (finding = "observed" /\ command = "accept")

\* retryUncertain: one transaction.
Retried(o, again) == [ops EXCEPT ![o] = "abandoned", ![again] = "attempting"]

DoctorRetries(o, finding) ==
  /\ doctor.command = "retry" /\ finding \in {"unresolved", "error"}
  /\ ops[o] = "uncertain" /\ o[2] < MaxRetries
  /\ LET again == <<o[1], o[2] + 1>> IN
     /\ ops' = Retried(o, again)
     /\ flying' = flying \cup {again}
     /\ doctor' = [at |-> "sent", op |-> again, command |-> "retry"]

DoctorLearns ==
  /\ doctor.at = "reading"
  /\ \E finding \in Diagnosis(doctor.op) :
       \/ /\ ops' = IF Concludes(finding, doctor.command) THEN Resolved(doctor.op, "completed") ELSE ops
          /\ doctor' = Idle /\ UNCHANGED flying
       \/ DoctorRetries(doctor.op, finding)
  /\ UNCHANGED <<kind, outcome, hits, marks, holds, took, up, call, toRecover, fates>>

\* The replacement's answer: success, a lost answer, or a refusal. A comment
\* may be refused after it was made: its author is looked up last.
DoctorHears ==
  /\ doctor.at = "sent"
  /\ LET o == doctor.op IN
     \/ hits[o] > 0 /\ ops' = Settled(o, "completed") /\ UNCHANGED <<flying, fates>>
     \/ Fate /\ MayBeLost(o) /\ ops' = Settled(o, "uncertain")
     \/ /\ o \in flying \/ (kind[o[1]] = "comment" /\ hits[o] > 0)
        /\ flying' = flying \ {o}
        /\ ops' = Settled(o, "failed") /\ UNCHANGED fates
  /\ doctor' = Idle
  /\ UNCHANGED <<kind, outcome, hits, marks, holds, took, up, call, toRecover>>

DoctorDies ==
  /\ doctor # Idle /\ Fate
  /\ MayBeLost(doctor.op)
  /\ doctor' = Idle
  /\ UNCHANGED <<kind, outcome, ops, hits, marks, holds, took, up, call, toRecover>>

-----------------------------------------------------------------------------
WriterStep(c) == up /\ (Prepares(c) \/ Succeeds(c) \/ LosesAnswer(c) \/ IsRefused(c) \/ Observes(c) \/ Checks(c))

OperationsNext ==
  \/ \E o \in Operation : Lands(o) \/ Abandons(o) \/ \E command \in Command : DoctorReads(o, command)
  \/ \E e \in Effect : OthersEdit(e) \/ TurnCalls(e) \/ BootCalls(e)
  \/ \E c \in Caller : WriterStep(c)
  \/ Dies \/ Boots
  \/ DoctorLearns \/ DoctorHears \/ DoctorDies

\* A request ends with an answer of GitHub or with the client's timeout, a
\* read ends, the process is started again and its recovery goes on.
OperationsFairness ==
  /\ \A c \in Caller : WF_operationVars(WriterStep(c))
  /\ \A o \in Operation : WF_operationVars(Lands(o))
  /\ \A e \in Effect : WF_operationVars(BootCalls(e))
  /\ WF_operationVars(Boots)
  /\ WF_operationVars(DoctorLearns)
  /\ WF_operationVars(DoctorHears)

OperationsSpec == OperationsInit /\ [][OperationsNext]_operationVars /\ OperationsFairness

-----------------------------------------------------------------------------
OperationsTypeOK ==
  /\ kind \in [Effect -> Kind]
  /\ outcome \in [Effect -> {"none", "pending", "done", "duplicate", "uncertain"}]
  /\ ops \in [Operation -> {"none", "attempting", "completed", "uncertain", "failed", "abandoned"}]
  /\ hits \in [Operation -> Nat]
  /\ flying \subseteq Operation /\ marks \subseteq Operation
  /\ holds \subseteq Effect /\ took \subseteq Effect /\ toRecover \subseteq Effect
  /\ up \in BOOLEAN /\ fates \in 0 .. MaxFates
  /\ \A c \in Caller :
       \/ call[c] = Idle
       \/ call[c].at \in {"preparing", "sent", "observing", "checking"} /\ E(c) \in Effect
  /\ doctor = Idle \/ (doctor.at \in {"reading", "sent"} /\ doctor.op \in Operation)

\* A change is made once under one identity, by whichever callers, deaths and
\* lost answers ("never blind-redispatched", effects-runtime.ts:71,102).
SentOnce == \A o \in Operation : hits[o] + (IF o \in flying THEN 1 ELSE 0) <= 1

\* What the Brain is told is done was done: an issue filed, a comment made or
\* edited by this very Effect, a state that was in place
\* (issue-filing.ts:37-50, issue-mutation.ts:131-173).
OutcomeTrue ==
  \A e \in Effect : outcome[e] = "done" =>
    IF kind[e] \in {"filing", "comment"} THEN hits[First(e)] = 1 ELSE e \in took

\* What the ledger calls completed took place, and what it calls failed never did
\* and never will, but for a comment the doctor retried
\* (tools.ts:441-468, uncertain-work.ts:202-296).
LedgerTrue ==
  \A o \in Operation :
    /\ ops[o] = "completed" => IF kind[o[1]] \in {"filing", "comment"} THEN hits[o] = 1 ELSE o[1] \in took
    /\ ops[o] = "failed" /\ (o[2] = 0 \/ kind[o[1]] # "comment") => hits[o] = 0 /\ o \notin flying

\* An Effect has one open identity at most, and every one before it was given
\* up for it (operation-store.ts:257-289).
OneOpenIdentity ==
  \A e \in Effect, k \in 0 .. MaxRetries : ops[<<e, k>>] # "none" =>
    \A j \in 0 .. MaxRetries : j < k => ops[<<e, j>>] = "abandoned"

\* Runtime and doctor write the same ledger; neither overwrites what is settled
\* (operation-store.ts:172-182).
SettledForGood ==
  [][\A o \in Operation : ops[o] \in {"completed", "failed", "abandoned"} => ops'[o] = ops[o]]_operationVars

\* What is pending when the process starts gets an outcome, unless something
\* goes wrong once more (effects-runtime.ts:78-123).
RecoverySettles ==
  \A e \in Effect :
    (up /\ e \in toRecover /\ fates = MaxFates) ~> outcome[e] \notin {"none", "pending"}

(* What was done to GitHub and what the ledger says of it, in one property. *)
OperationsAreTrue ==
  /\ [](OperationsTypeOK /\ SentOnce /\ OutcomeTrue /\ LedgerTrue /\ OneOpenIdentity)
  /\ SettledForGood
=============================================================================
