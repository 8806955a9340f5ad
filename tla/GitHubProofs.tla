----------------------------- MODULE GitHubProofs -----------------------------
(***************************************************************************)
(* What is done to GitHub and what the ledger says of it, for any number   *)
(* of Effects, retries, deaths, lost answers and edits of other people;    *)
(* and what becomes of GitHub's own deliveries beside them.                *)
(*                                                                         *)
(* The strengthening of the operations: what is on GitHub has a cause      *)
(* (Caused), an identity that is not in the ledger was never sent          *)
(* (Unsent), a caller that has read a completion is right about it         *)
(* (Remembered), and the doctor sends replacements only (Replaces). A      *)
(* replacement is new because the identities of an Effect are opened one   *)
(* after the other.                                                        *)
(*                                                                         *)
(* That of the ingress: a pull request refers to issues that were filed    *)
(* (LinkedIsFiled), and its handler names them or they were given up       *)
(* (HandlerKnows). When nothing is pending, a filing that took effect is   *)
(* completed or given up: the ledger knows it, because of Unsent, and did  *)
(* not call it failed, because of LedgerTrue.                              *)
(***************************************************************************)
EXTENDS GitHubIngress, TLAPS

Status == {"none", "attempting", "completed", "uncertain", "failed", "abandoned"}
Working == [at : {"preparing", "sent", "observing", "checking"}, effect : Effect, prior : Status]
Doctoring == [at : {"reading", "sent"}, op : Operation, command : Command]

OperationsTyped ==
  /\ kind \in [Effect -> Kind]
  /\ outcome \in [Effect -> {"none", "pending", "done", "duplicate", "uncertain"}]
  /\ ops \in [Operation -> Status]
  /\ hits \in [Operation -> Nat]
  /\ flying \subseteq Operation /\ marks \subseteq Operation
  /\ holds \subseteq Effect /\ took \subseteq Effect /\ toRecover \subseteq Effect
  /\ up \in BOOLEAN /\ fates \in 0 .. MaxFates
  /\ call \in [Caller -> {Idle} \cup Working]
  /\ doctor \in {Idle} \cup Doctoring

(* What an identity stands for has taken place.                            *)
TookPlace(o) == IF kind[o[1]] \in {"filing", "comment"} THEN hits[o] = 1 ELSE o[1] \in took

(* What is on GitHub has a cause.                                          *)
Caused ==
  /\ \A o \in Operation :
       /\ o \in marks => hits[o] > 0
       /\ hits[o] > 0 => o[1] \in took
  /\ \A e \in holds : kind[e] \in Desired /\ e \in took

(* What the ledger does not know was never sent.                           *)
Unsent == \A o \in Operation : ops[o] = "none" => hits[o] = 0 /\ o \notin flying

(* A caller that has read a completion is right about it.                  *)
Remembered ==
  \A c \in Caller :
    (call[c].at = "checking" /\ call[c].prior = "completed") => TookPlace(First(E(c)))

(* The doctor sends replacements only.                                     *)
Replaces == doctor.at = "sent" => doctor.op[2] > 0

OperationsInv ==
  /\ OperationsTyped /\ Caused /\ Unsent /\ Remembered /\ Replaces
  /\ SentOnce /\ OutcomeTrue /\ LedgerTrue /\ OneOpenIdentity

LEMMA InitOperations == OperationsInit => OperationsInv
<1> SUFFICES ASSUME OperationsInit PROVE OperationsInv
    OBVIOUS
<1> USE DEF OperationsInit, OperationsBlank
<1>1. OperationsTyped
    BY OperationsAssumption DEF OperationsTyped, Status
<1>2. Caused /\ Unsent /\ Remembered /\ Replaces
    BY DEF Caused, Unsent, Remembered, Replaces, Idle
<1>3. SentOnce /\ OutcomeTrue /\ LedgerTrue /\ OneOpenIdentity
    BY DEF SentOnce, OutcomeTrue, LedgerTrue, OneOpenIdentity, Operation
<1> QED
    BY <1>1, <1>2, <1>3 DEF OperationsInv

-----------------------------------------------------------------------------
(* Identities and callers.                                                 *)

LEMMA FirstIsOperation ==
  ASSUME NEW e \in Effect
  PROVE  First(e) \in Operation /\ First(e)[1] = e /\ First(e)[2] = 0
BY OperationsAssumption DEF First, Operation

LEMMA CallerWorks ==
  ASSUME OperationsTyped, NEW c \in Caller, call[c].at # "idle"
  PROVE  call[c] \in Working /\ E(c) \in Effect
BY DEF OperationsTyped, Idle, Working, E

LEMMA DoctorWorks ==
  ASSUME OperationsTyped, doctor.at # "idle"
  PROVE  doctor \in Doctoring /\ doctor.op \in Operation /\ doctor # Idle
BY DEF OperationsTyped, Idle, Doctoring

(* What a call writes of itself.                                           *)
LEMMA GoTyped ==
  ASSUME OperationsTyped, NEW c \in Caller, call[c].at # "idle",
         NEW at \in {"preparing", "sent", "observing", "checking"}, Go(c, at)
  PROVE  /\ call' \in [Caller -> {Idle} \cup Working]
         /\ call'[c].at = at
         /\ \A d \in Caller \ {c} : call'[d] = call[d]
<1>1. call[c] \in Working
    BY CallerWorks
<1>2. [call[c] EXCEPT !.at = at] \in Working
    BY <1>1 DEF Working
<1>3. call' = [call EXCEPT ![c] = [call[c] EXCEPT !.at = at]]
    BY DEF Go
<1> QED
    BY <1>1, <1>2, <1>3 DEF OperationsTyped, Working

LEMMA ReturnTyped ==
  ASSUME OperationsTyped, NEW c \in Caller, Return(c)
  PROVE  /\ call' \in [Caller -> {Idle} \cup Working]
         /\ call'[c] = Idle
         /\ \A d \in Caller \ {c} : call'[d] = call[d]
BY DEF OperationsTyped, Return

(* The ledger's writes.                                                    *)
LEMMA SettledTyped ==
  ASSUME OperationsTyped, NEW o \in Operation, NEW s \in Status \ {"none"}
  PROVE  /\ Settled(o, s) \in [Operation -> Status]
         /\ \A p \in Operation : p # o => Settled(o, s)[p] = ops[p]
         /\ Settled(o, s)[o] = (IF ops[o] = "attempting" THEN s ELSE ops[o])
BY DEF OperationsTyped, Settled

LEMMA OpenedTyped ==
  ASSUME OperationsTyped
  PROVE  /\ Opened \in [Operation -> Status]
         /\ \A o \in Operation : Opened[o] = (IF ops[o] = "attempting" THEN "uncertain" ELSE ops[o])
BY DEF OperationsTyped, Opened, Status

LEMMA AnsweredTyped ==
  ASSUME OperationsTyped, NEW e \in Effect, NEW r \in {"done", "duplicate", "uncertain"}
  PROVE  /\ Answered(e, r) \in [Effect -> {"none", "pending", "done", "duplicate", "uncertain"}]
         /\ \A d \in Effect : Answered(e, r)[d] # outcome[d] => d = e /\ Answered(e, r)[d] = r
BY DEF OperationsTyped, Answered

-----------------------------------------------------------------------------
(* Type correctness.                                                       *)

LEMMA FateTyped == OperationsTyped /\ Fate => fates' \in 0 .. MaxFates
BY OperationsAssumption DEF OperationsTyped, Fate

LEMMA TypedStep == OperationsInv /\ [OperationsNext]_operationVars => OperationsTyped'
<1> SUFFICES ASSUME OperationsInv, [OperationsNext]_operationVars PROVE OperationsTyped'
    OBVIOUS
<1> USE DEF github
<1>0. OperationsTyped /\ Caused /\ Unsent /\ Remembered /\ Replaces /\ SentOnce /\ OutcomeTrue /\ LedgerTrue /\ OneOpenIdentity
    BY DEF OperationsInv
<1>1. ASSUME NEW o \in Operation, Lands(o) PROVE OperationsTyped'
    BY <1>0, <1>1 DEF Lands, Takes, OperationsTyped, Operation
<1>2. ASSUME NEW o \in Operation, Abandons(o) PROVE OperationsTyped'
  <2>1. ops' \in [Operation -> Status]
      BY <1>0, <1>2, OpenedTyped DEF Abandons, Status
  <2> QED
      BY <1>0, <1>2, <2>1, FateTyped DEF Abandons, OperationsTyped
<1>3. ASSUME NEW o \in Operation, NEW command \in Command, DoctorReads(o, command) PROVE OperationsTyped'
  <2>1. doctor' \in {Idle} \cup Doctoring
      BY <1>3 DEF DoctorReads, Doctoring
  <2> QED
      BY <1>0, <1>3, <2>1, FateTyped, OpenedTyped DEF DoctorReads, OperationsTyped
<1>4. ASSUME NEW e \in Effect, OthersEdit(e) PROVE OperationsTyped'
    BY <1>0, <1>4, FateTyped DEF OthersEdit, OperationsTyped
<1>5. ASSUME NEW e \in Effect, TurnCalls(e) PROVE OperationsTyped'
  <2>1. call' = [call EXCEPT !["turn"] = [at |-> IF Prior(e) = "none" THEN "preparing" ELSE "checking",
                                         effect |-> e, prior |-> Prior(e)]]
      BY <1>5 DEF TurnCalls, Begins
  <2>2. Prior(e) \in Status
      BY <1>0, FirstIsOperation DEF Prior, OperationsTyped
  <2>3. call' \in [Caller -> {Idle} \cup Working]
      BY <1>0, <2>1, <2>2 DEF OperationsTyped, Working
  <2>4. outcome' \in [Effect -> {"none", "pending", "done", "duplicate", "uncertain"}]
      BY <1>0, <1>5 DEF TurnCalls, Begins, OperationsTyped
  <2> QED
      BY <1>0, <1>5, <2>3, <2>4 DEF TurnCalls, Begins, OperationsTyped
<1>6. ASSUME NEW e \in Effect, BootCalls(e) PROVE OperationsTyped'
  <2>1. call' = [call EXCEPT !["boot"] = [at |-> IF Prior(e) = "none" THEN "preparing" ELSE "checking",
                                         effect |-> e, prior |-> Prior(e)]]
      BY <1>6 DEF BootCalls, Begins
  <2>2. Prior(e) \in Status
      BY <1>0, FirstIsOperation DEF Prior, OperationsTyped
  <2>3. call' \in [Caller -> {Idle} \cup Working]
      BY <1>0, <2>1, <2>2 DEF OperationsTyped, Working
  <2>4. outcome' \in [Effect -> {"none", "pending", "done", "duplicate", "uncertain"}]
      BY <1>0, <1>6 DEF BootCalls, Begins, OperationsTyped
  <2> QED
      BY <1>0, <1>6, <2>3, <2>4 DEF BootCalls, Begins, OperationsTyped
<1>7. ASSUME NEW c \in Caller, Prepares(c) PROVE OperationsTyped'
  <2>1. E(c) \in Effect /\ First(E(c)) \in Operation
      BY <1>0, <1>7, CallerWorks, FirstIsOperation DEF Prepares, Step
  <2>2. ASSUME NEW r \in {"done", "duplicate", "uncertain"}, Ends(c, r)
        PROVE  /\ outcome' \in [Effect -> {"none", "pending", "done", "duplicate", "uncertain"}]
               /\ call' \in [Caller -> {Idle} \cup Working]
      BY <1>0, <2>1, <2>2, AnsweredTyped, ReturnTyped DEF Ends
  <2>3. call' \in [Caller -> {Idle} \cup Working]
    <3>1. CASE Return(c)
        BY <1>0, <3>1, ReturnTyped
    <3>2. CASE Go(c, "sent")
        BY <1>0, <1>7, <3>2, GoTyped DEF Prepares, Step
    <3> QED
        BY <1>7, <3>1, <3>2 DEF Prepares, Ends, Throws
  <2>4. outcome' \in [Effect -> {"none", "pending", "done", "duplicate", "uncertain"}]
      BY <1>0, <1>7, <2>2 DEF Prepares, Throws, OperationsTyped
  <2>5. ops' \in [Operation -> Status] /\ flying' \subseteq Operation
      BY <1>0, <1>7, <2>1 DEF Prepares, OperationsTyped, Status
  <2>6. fates' \in 0 .. MaxFates
      BY <1>0, <1>7, FateTyped DEF Prepares, Throws, OperationsTyped
  <2> QED
      BY <1>0, <1>7, <2>3, <2>4, <2>5, <2>6 DEF Prepares, OperationsTyped
<1>8. ASSUME NEW c \in Caller, Succeeds(c) PROVE OperationsTyped'
  <2>1. E(c) \in Effect /\ First(E(c)) \in Operation
      BY <1>0, <1>8, CallerWorks, FirstIsOperation DEF Succeeds, Step
  <2>2. ASSUME NEW r \in {"done", "duplicate", "uncertain"}, Ends(c, r)
        PROVE  /\ outcome' \in [Effect -> {"none", "pending", "done", "duplicate", "uncertain"}]
               /\ call' \in [Caller -> {Idle} \cup Working]
      BY <1>0, <2>1, <2>2, AnsweredTyped, ReturnTyped DEF Ends
  <2>3. ops' \in [Operation -> Status]
      BY <1>0, <1>8, <2>1, SettledTyped DEF Succeeds, Completes, Status
  <2> QED
      BY <1>0, <1>8, <2>2, <2>3 DEF Succeeds, Completes, OperationsTyped
<1>9. ASSUME NEW c \in Caller, LosesAnswer(c) PROVE OperationsTyped'
  <2>1. call' \in [Caller -> {Idle} \cup Working]
      BY <1>0, <1>9, GoTyped DEF LosesAnswer, Step
  <2> QED
      BY <1>0, <1>9, <2>1, FateTyped DEF LosesAnswer, MayBeLost, OperationsTyped
<1>10. ASSUME NEW c \in Caller, IsRefused(c) PROVE OperationsTyped'
  <2>1. E(c) \in Effect /\ First(E(c)) \in Operation
      BY <1>0, <1>10, CallerWorks, FirstIsOperation DEF IsRefused, Step
  <2>2. ASSUME NEW r \in {"done", "duplicate", "uncertain"}, Ends(c, r)
        PROVE  /\ outcome' \in [Effect -> {"none", "pending", "done", "duplicate", "uncertain"}]
               /\ call' \in [Caller -> {Idle} \cup Working]
      BY <1>0, <2>1, <2>2, AnsweredTyped, ReturnTyped DEF Ends
  <2>3. ops' \in [Operation -> Status]
      BY <1>0, <1>10, <2>1, SettledTyped DEF IsRefused, Status
  <2> QED
      BY <1>0, <1>10, <2>2, <2>3 DEF IsRefused, OperationsTyped
<1>11. ASSUME NEW c \in Caller, Observes(c) PROVE OperationsTyped'
  <2>1. E(c) \in Effect /\ First(E(c)) \in Operation
      BY <1>0, <1>11, CallerWorks, FirstIsOperation DEF Observes, Step
  <2>2. ASSUME NEW r \in {"done", "duplicate", "uncertain"}, Ends(c, r)
        PROVE  /\ outcome' \in [Effect -> {"none", "pending", "done", "duplicate", "uncertain"}]
               /\ call' \in [Caller -> {Idle} \cup Working]
      BY <1>0, <2>1, <2>2, AnsweredTyped, ReturnTyped DEF Ends
  <2>3. ops' \in [Operation -> Status]
      BY <1>0, <1>11, <2>1, SettledTyped DEF Observes, Completes, Status
  <2>4. \E r \in {"done", "duplicate", "uncertain"} : Ends(c, r)
      BY <1>11 DEF Observes, Completes
  <2> QED
      BY <1>0, <1>11, <2>2, <2>3, <2>4 DEF Observes, OperationsTyped
<1>12. ASSUME NEW c \in Caller, Checks(c) PROVE OperationsTyped'
  <2>1. E(c) \in Effect /\ First(E(c)) \in Operation
      BY <1>0, <1>12, CallerWorks, FirstIsOperation DEF Checks, Step
  <2>2. ASSUME NEW r \in {"done", "duplicate", "uncertain"}, Ends(c, r)
        PROVE  /\ outcome' \in [Effect -> {"none", "pending", "done", "duplicate", "uncertain"}]
               /\ call' \in [Caller -> {Idle} \cup Working]
      BY <1>0, <2>1, <2>2, AnsweredTyped, ReturnTyped DEF Ends
  <2>3. call' \in [Caller -> {Idle} \cup Working]
      BY <1>0, <1>12, ReturnTyped DEF Checks, Ends, Throws
  <2>4. outcome' \in [Effect -> {"none", "pending", "done", "duplicate", "uncertain"}]
    <3>1. (\E r \in {"done", "duplicate", "uncertain"} : Ends(c, r)) \/ UNCHANGED outcome
        BY <1>12 DEF Checks, Throws
    <3> QED
        BY <1>0, <2>2, <3>1 DEF OperationsTyped
  <2>5. fates' \in 0 .. MaxFates
      BY <1>0, <1>12, FateTyped DEF Checks, Throws, OperationsTyped
  <2> QED
      BY <1>0, <1>12, <2>3, <2>4, <2>5 DEF Checks, OperationsTyped
<1>13. ASSUME Dies PROVE OperationsTyped'
  <2>1. call' \in [Caller -> {Idle} \cup Working] /\ flying' \subseteq Operation
      BY <1>0, <1>13 DEF Dies, OperationsTyped
  <2> QED
      BY <1>0, <1>13, <2>1, FateTyped DEF Dies, OperationsTyped
<1>14. ASSUME Boots PROVE OperationsTyped'
    BY <1>0, <1>14, OpenedTyped DEF Boots, OperationsTyped
<1>15. ASSUME DoctorLearns PROVE OperationsTyped'
  <2>1. doctor \in Doctoring /\ doctor.op \in Operation
      BY <1>0, <1>15, DoctorWorks DEF DoctorLearns
  <2>2. CASE doctor' = Idle /\ UNCHANGED flying
    <3>1. ops' \in [Operation -> Status]
        BY <1>0, <1>15, <2>1, <2>2 DEF DoctorLearns, DoctorRetries, Retried, Resolved, OperationsTyped, Status
    <3> QED
        BY <1>0, <1>15, <2>2, <3>1 DEF DoctorLearns, OperationsTyped
  <2>3. ASSUME NEW finding, DoctorRetries(doctor.op, finding) PROVE OperationsTyped'
    <3> DEFINE again == <<doctor.op[1], doctor.op[2] + 1>>
    <3>1. again \in Operation
        BY <2>1, <2>3, OperationsAssumption DEF DoctorRetries, Operation
    <3>2. ops' = Retried(doctor.op, again) /\ flying' = flying \cup {again}
          /\ doctor' = [at |-> "sent", op |-> again, command |-> "retry"]
        BY <2>3 DEF DoctorRetries
    <3> HIDE DEF again
    <3>3. ops' \in [Operation -> Status]
        BY <1>0, <2>1, <3>1, <3>2 DEF Retried, OperationsTyped, Status
    <3>4. doctor' \in {Idle} \cup Doctoring
        BY <3>1, <3>2 DEF Doctoring, Command
    <3> QED
        BY <1>0, <1>15, <3>1, <3>2, <3>3, <3>4 DEF DoctorLearns, OperationsTyped
  <2> QED
      BY <1>15, <2>2, <2>3 DEF DoctorLearns
<1>16. ASSUME DoctorHears PROVE OperationsTyped'
  <2>1. doctor.op \in Operation
      BY <1>0, <1>16, DoctorWorks DEF DoctorHears
  <2>2. ops' \in [Operation -> Status] /\ flying' \subseteq Operation
      BY <1>0, <1>16, <2>1, SettledTyped DEF DoctorHears, MayBeLost, OperationsTyped, Status
  <2>3. fates' \in 0 .. MaxFates
      BY <1>0, <1>16, FateTyped DEF DoctorHears, OperationsTyped
  <2> QED
      BY <1>0, <1>16, <2>2, <2>3 DEF DoctorHears, OperationsTyped
<1>17. ASSUME DoctorDies PROVE OperationsTyped'
    BY <1>0, <1>17, FateTyped DEF DoctorDies, MayBeLost, OperationsTyped
<1>18. CASE UNCHANGED operationVars
    BY <1>0, <1>18 DEF operationVars, OperationsTyped
<1> QED
    BY <1>1, <1>2, <1>3, <1>4, <1>5, <1>6, <1>7, <1>8, <1>9, <1>10, <1>11, <1>12, <1>13, <1>14, <1>15, <1>16, <1>17, <1>18 DEF OperationsNext, WriterStep


-----------------------------------------------------------------------------
(* What a step may do to GitHub, to the ledger, and to what is told.       *)

GitHubMoves ==
  /\ kind' = kind /\ took \subseteq took'
  /\ \A o \in Operation :
       \/ /\ hits'[o] = hits[o]
          /\ o \in flying' => o \in flying \/ (ops[o] = "none" /\ ops'[o] = "attempting")
       \/ /\ o \in flying /\ o \notin flying' /\ ops'[o] = ops[o]
          /\ hits'[o] = hits[o] + 1 /\ o[1] \in took'
  /\ \A o \in marks' : o \in marks \/ hits'[o] > 0
  /\ \A e \in holds' : e \in holds \/ (kind[e] \in Desired /\ e \in took')

LedgerMoves ==
  \A o \in Operation :
    \/ ops'[o] = ops[o]
    \/ /\ ops[o] = "none" /\ ops'[o] = "attempting"
       /\ o[2] = 0 \/ (ops[<<o[1], o[2] - 1>>] = "uncertain" /\ ops'[<<o[1], o[2] - 1>>] = "abandoned")
    \/ ops[o] = "attempting" /\ ops'[o] = "uncertain"
    \/ ops[o] \in {"attempting", "uncertain"} /\ ops'[o] = "abandoned"
    \/ ops[o] \in {"attempting", "uncertain"} /\ ops'[o] = "completed" /\ TookPlace(o)
    \/ /\ ops[o] = "attempting" /\ ops'[o] = "failed"
       /\ (o[2] > 0 /\ kind[o[1]] = "comment") \/ (o \in flying /\ o \notin flying')

(* The identity a retry takes is one the ledger does not know.             *)
LEMMA ReplacementIsNew ==
  ASSUME OperationsInv, NEW finding, doctor.at = "reading", DoctorRetries(doctor.op, finding)
  PROVE  /\ doctor.op \in Operation /\ ops[doctor.op] = "uncertain"
         /\ \E again \in Operation :
              /\ again = <<doctor.op[1], doctor.op[2] + 1>> /\ again # doctor.op
              /\ again[2] > 0 /\ doctor.op = <<again[1], again[2] - 1>>
              /\ ops[again] = "none"
              /\ ops' = Retried(doctor.op, again) /\ flying' = flying \cup {again}
              /\ doctor' = [at |-> "sent", op |-> again, command |-> "retry"]
<1> DEFINE again == <<doctor.op[1], doctor.op[2] + 1>>
<1>0. OperationsTyped /\ OneOpenIdentity
    BY DEF OperationsInv
<1>1. doctor.op \in Operation
    BY <1>0, DoctorWorks
<1>2. PICK e \in Effect, k \in 0 .. MaxRetries : doctor.op = <<e, k>>
    BY <1>1 DEF Operation
<1>3. ops[doctor.op] = "uncertain" /\ k < MaxRetries
    BY <1>2 DEF DoctorRetries
<1>4. again = <<e, k + 1>> /\ k + 1 \in 0 .. MaxRetries /\ k < k + 1 /\ k + 1 > 0 /\ k + 1 - 1 = k
    BY <1>2, <1>3, OperationsAssumption
<1>5. ops[again] = "none"
    BY <1>0, <1>2, <1>3, <1>4 DEF OneOpenIdentity
<1>6. again \in Operation /\ again # doctor.op /\ again[2] > 0 /\ doctor.op = <<again[1], again[2] - 1>>
    BY <1>2, <1>4 DEF Operation
<1>7. /\ ops' = Retried(doctor.op, again) /\ flying' = flying \cup {again}
      /\ doctor' = [at |-> "sent", op |-> again, command |-> "retry"]
    BY DEF DoctorRetries
<1> QED
    BY <1>1, <1>3, <1>5, <1>6, <1>7

LEMMA GitHubStep == OperationsInv /\ [OperationsNext]_operationVars => GitHubMoves
<1> SUFFICES ASSUME OperationsInv, [OperationsNext]_operationVars PROVE GitHubMoves
    OBVIOUS
<1> USE DEF github
<1>0. OperationsTyped /\ Caused /\ Unsent /\ Remembered /\ Replaces /\ SentOnce /\ OutcomeTrue /\ LedgerTrue /\ OneOpenIdentity
    BY DEF OperationsInv
<1>1. ASSUME NEW o \in Operation, Lands(o) PROVE GitHubMoves
  <2>1. /\ kind' = kind /\ ops' = ops /\ o \in flying /\ flying' = flying \ {o}
        /\ hits' = [hits EXCEPT ![o] = hits[o] + 1] /\ took' = took \cup {o[1]}
        /\ marks' \subseteq marks \cup {o}
      BY <1>1 DEF Lands, Takes
  <2>2. \A e \in holds' : e \in holds \/ (kind[e] \in Desired /\ e \in took')
      BY <1>1 DEF Lands, Takes
  <2>3. hits'[o] = hits[o] + 1 /\ hits'[o] > 0 /\ \A p \in Operation \ {o} : hits'[p] = hits[p]
      BY <1>0, <2>1 DEF OperationsTyped
  <2> QED
      BY <2>1, <2>2, <2>3 DEF GitHubMoves
<1>2. ASSUME NEW o \in Operation, Abandons(o) PROVE GitHubMoves
  <2>1. UNCHANGED <<kind, github>>
      BY <1>2 DEF Abandons
  <2> QED
      BY <1>0, <2>1 DEF GitHubMoves
<1>3. ASSUME NEW o \in Operation, NEW command \in Command, DoctorReads(o, command) PROVE GitHubMoves
  <2>1. UNCHANGED <<kind, github>>
      BY <1>3 DEF DoctorReads
  <2> QED
      BY <1>0, <2>1 DEF GitHubMoves
<1>4. ASSUME NEW e \in Effect, OthersEdit(e) PROVE GitHubMoves
  <2>1. UNCHANGED <<kind, ops, hits, flying>> /\ took \subseteq took' /\ marks' \subseteq marks
      BY <1>4 DEF OthersEdit
  <2>2. \A d \in holds' : d \in holds \/ (kind[d] \in Desired /\ d \in took')
      BY <1>4 DEF OthersEdit
  <2> QED
      BY <2>1, <2>2 DEF GitHubMoves
<1>5. ASSUME NEW e \in Effect, TurnCalls(e) PROVE GitHubMoves
  <2>1. UNCHANGED <<kind, github>>
      BY <1>5 DEF TurnCalls, Begins
  <2> QED
      BY <1>0, <2>1 DEF GitHubMoves
<1>6. ASSUME NEW e \in Effect, BootCalls(e) PROVE GitHubMoves
  <2>1. UNCHANGED <<kind, github>>
      BY <1>6 DEF BootCalls, Begins
  <2> QED
      BY <1>0, <2>1 DEF GitHubMoves
<1>7. ASSUME NEW c \in Caller, Prepares(c) PROVE GitHubMoves
  <2> DEFINE o == First(E(c))
  <2>1. UNCHANGED <<kind, hits, marks, holds, took>>
      BY <1>7 DEF Prepares
  <2>2. flying' = flying \/ (ops[o] = "none" /\ ops' = [ops EXCEPT ![o] = "attempting"] /\ flying' = flying \cup {o})
      BY <1>7 DEF Prepares, MayBegin
  <2>3. o \in Operation
      BY <1>0, <1>7, CallerWorks, FirstIsOperation DEF Prepares, Step
  <2> HIDE DEF o
  <2> QED
      BY <1>0, <2>1, <2>2, <2>3 DEF GitHubMoves, OperationsTyped
<1>8. ASSUME NEW c \in Caller, Succeeds(c) PROVE GitHubMoves
  <2>1. UNCHANGED <<kind, github>>
      BY <1>8 DEF Succeeds
  <2> QED
      BY <1>0, <2>1 DEF GitHubMoves
<1>9. ASSUME NEW c \in Caller, LosesAnswer(c) PROVE GitHubMoves
  <2>1. UNCHANGED <<kind, hits, marks, holds, took>> /\ flying' \subseteq flying
      BY <1>9 DEF LosesAnswer, MayBeLost
  <2> QED
      BY <1>0, <2>1 DEF GitHubMoves
<1>10. ASSUME NEW c \in Caller, IsRefused(c) PROVE GitHubMoves
  <2>1. UNCHANGED <<kind, hits, marks, holds, took>> /\ flying' \subseteq flying
      BY <1>10 DEF IsRefused
  <2> QED
      BY <1>0, <2>1 DEF GitHubMoves
<1>11. ASSUME NEW c \in Caller, Observes(c) PROVE GitHubMoves
  <2>1. UNCHANGED <<kind, github>>
      BY <1>11 DEF Observes
  <2> QED
      BY <1>0, <2>1 DEF GitHubMoves
<1>12. ASSUME NEW c \in Caller, Checks(c) PROVE GitHubMoves
  <2>1. UNCHANGED <<kind, github>>
      BY <1>12 DEF Checks
  <2> QED
      BY <1>0, <2>1 DEF GitHubMoves
<1>13. ASSUME Dies PROVE GitHubMoves
  <2>1. UNCHANGED <<kind, hits, marks, holds, took>> /\ flying' \subseteq flying
      BY <1>13 DEF Dies
  <2> QED
      BY <1>0, <2>1 DEF GitHubMoves
<1>14. ASSUME Boots PROVE GitHubMoves
  <2>1. UNCHANGED <<kind, github>>
      BY <1>14 DEF Boots
  <2> QED
      BY <1>0, <2>1 DEF GitHubMoves
<1>15. ASSUME DoctorLearns PROVE GitHubMoves
  <2>1. UNCHANGED <<kind, hits, marks, holds, took>> /\ doctor.at = "reading"
      BY <1>15 DEF DoctorLearns
  <2>2. CASE flying' = flying
      BY <2>1, <2>2 DEF GitHubMoves
  <2>3. ASSUME NEW finding, DoctorRetries(doctor.op, finding) PROVE GitHubMoves
    <3>1. PICK again \in Operation :
            again # doctor.op /\ ops[again] = "none" /\ ops' = Retried(doctor.op, again) /\ flying' = flying \cup {again}
        BY <2>1, <2>3, ReplacementIsNew
    <3>2. ops'[again] = "attempting"
        BY <1>0, <3>1 DEF Retried, OperationsTyped
    <3> QED
        BY <2>1, <3>1, <3>2 DEF GitHubMoves
  <2> QED
      BY <1>15, <2>2, <2>3 DEF DoctorLearns
<1>16. ASSUME DoctorHears PROVE GitHubMoves
  <2>1. UNCHANGED <<kind, hits, marks, holds, took>> /\ flying' \subseteq flying
      BY <1>16 DEF DoctorHears, MayBeLost
  <2> QED
      BY <1>0, <2>1 DEF GitHubMoves
<1>17. ASSUME DoctorDies PROVE GitHubMoves
  <2>1. UNCHANGED <<kind, hits, marks, holds, took>> /\ flying' \subseteq flying
      BY <1>17 DEF DoctorDies, MayBeLost
  <2> QED
      BY <1>0, <2>1 DEF GitHubMoves
<1>18. CASE UNCHANGED operationVars
  <2>1. UNCHANGED <<kind, github>>
      BY <1>18 DEF operationVars
  <2> QED
      BY <1>0, <2>1 DEF GitHubMoves
<1> QED
    BY <1>1, <1>2, <1>3, <1>4, <1>5, <1>6, <1>7, <1>8, <1>9, <1>10, <1>11, <1>12, <1>13, <1>14, <1>15, <1>16, <1>17, <1>18 DEF OperationsNext, WriterStep


(* What shows that a change was made is right.                             *)
LEMMA HitsOnce ==
  ASSUME OperationsTyped, Caused, SentOnce, NEW o \in Operation, hits[o] > 0
  PROVE  TookPlace(o)
<1>1. hits[o] \in Nat /\ hits[o] <= 1
    BY DEF OperationsTyped, SentOnce
<1> QED
    BY <1>1 DEF TookPlace, Caused

LEMMA EvidenceIsTrue ==
  ASSUME OperationsTyped, Caused, SentOnce, NEW e \in Effect, TRUE \in Evidence(e)
  PROVE  TookPlace(First(e))
<1>1. First(e) \in Operation /\ First(e)[1] = e /\ kind[e] \in Kind
    BY FirstIsOperation DEF OperationsTyped
<1>2. CASE kind[e] \in {"filing", "comment"}
  <2>1. First(e) \in marks
      BY <1>2 DEF Evidence, Found
  <2> QED
      BY <1>1, <2>1, HitsOnce DEF Caused
<1>3. CASE kind[e] = "update"
    BY <1>1, <1>3 DEF Evidence, Caused, TookPlace
<1> QED
    BY <1>1, <1>2, <1>3 DEF Evidence, Kind

LEMMA ReconciledIsTrue ==
  ASSUME OperationsTyped, Caused, SentOnce, NEW e \in Effect, NEW prior,
         prior = "completed" => TookPlace(First(e)), TRUE \in Reconciled(e, prior)
  PROVE  TookPlace(First(e))
<1>1. First(e) \in Operation /\ First(e)[1] = e /\ kind[e] \in Kind
    BY FirstIsOperation DEF OperationsTyped
<1>2. CASE prior = "completed"
    BY <1>2
<1>3. CASE prior # "completed" /\ kind[e] \in {"filing", "comment"}
  <2>1. First(e) \in marks
      BY <1>3 DEF Reconciled, Found
  <2> QED
      BY <1>1, <2>1, HitsOnce DEF Caused
<1>4. CASE prior # "completed" /\ kind[e] \in {"update", "state", "delete"}
  <2>1. e \in holds
      BY <1>4 DEF Reconciled
  <2> QED
      BY <1>1, <1>4, <2>1 DEF Caused, TookPlace
<1> QED
    BY <1>1, <1>2, <1>3, <1>4 DEF Kind

LEMMA DiagnosisIsTrue ==
  ASSUME OperationsTyped, Caused, SentOnce, NEW o \in Operation, NEW finding \in Diagnosis(o),
         NEW command, Concludes(finding, command)
  PROVE  TookPlace(o)
<1>1. CASE o \in marks
    BY <1>1, HitsOnce DEF Caused
<1>2. CASE o[1] \in holds
    BY <1>2 DEF Caused, TookPlace, Desired
<1> QED
    BY <1>1, <1>2 DEF Diagnosis, Concludes

LEMMA LedgerStep == OperationsInv /\ [OperationsNext]_operationVars => LedgerMoves
<1> SUFFICES ASSUME OperationsInv, [OperationsNext]_operationVars PROVE LedgerMoves
    OBVIOUS
<1> USE DEF github
<1>0. OperationsTyped /\ Caused /\ Unsent /\ Remembered /\ Replaces /\ SentOnce /\ OutcomeTrue /\ LedgerTrue /\ OneOpenIdentity
    BY DEF OperationsInv
<1>1. ASSUME NEW o \in Operation, Lands(o) PROVE LedgerMoves
  <2>1. ops' = ops
      BY <1>1 DEF Lands
  <2> QED
      BY <2>1 DEF LedgerMoves
<1>2. ASSUME NEW o \in Operation, Abandons(o) PROVE LedgerMoves
  <2>1. ops' = [Opened EXCEPT ![o] = "abandoned"] /\ Opened[o] = "uncertain"
      BY <1>2 DEF Abandons
  <2> QED
      BY <1>0, <2>1, OpenedTyped DEF LedgerMoves
<1>3. ASSUME NEW o \in Operation, NEW command \in Command, DoctorReads(o, command) PROVE LedgerMoves
    BY <1>0, <1>3, OpenedTyped DEF DoctorReads, LedgerMoves

<1>4. ASSUME NEW e \in Effect, OthersEdit(e) PROVE LedgerMoves
  <2>1. ops' = ops
      BY <1>4 DEF OthersEdit
  <2> QED
      BY <2>1 DEF LedgerMoves
<1>5. ASSUME NEW e \in Effect, TurnCalls(e) PROVE LedgerMoves
  <2>1. ops' = ops
      BY <1>5 DEF TurnCalls, Begins
  <2> QED
      BY <2>1 DEF LedgerMoves
<1>6. ASSUME NEW e \in Effect, BootCalls(e) PROVE LedgerMoves
  <2>1. ops' = ops
      BY <1>6 DEF BootCalls, Begins
  <2> QED
      BY <2>1 DEF LedgerMoves
<1>7. ASSUME NEW c \in Caller, Prepares(c) PROVE LedgerMoves
  <2> DEFINE o == First(E(c))
  <2>1. ops' = ops \/ (ops[o] = "none" /\ ops' = [ops EXCEPT ![o] = "attempting"])
      BY <1>7 DEF Prepares, MayBegin
  <2>2. o \in Operation /\ o[2] = 0
      BY <1>0, <1>7, CallerWorks, FirstIsOperation DEF Prepares, Step
  <2> HIDE DEF o
  <2> QED
      BY <1>0, <2>1, <2>2 DEF LedgerMoves, OperationsTyped
<1>8. ASSUME NEW c \in Caller, Succeeds(c) PROVE LedgerMoves
  <2> DEFINE o == First(E(c))
  <2>1. o \in Operation /\ E(c) \in Effect /\ o[1] = E(c) /\ o[2] = 0
      BY <1>0, <1>8, CallerWorks, FirstIsOperation DEF Succeeds, Step
  <2>2. hits[o] > 0 /\ ops' = Settled(o, "completed")
      BY <1>8 DEF Succeeds, Completes
  <2> HIDE DEF o
  <2>3. TookPlace(o)
      BY <1>0, <2>1, <2>2, HitsOnce
  <2>4. \A p \in Operation : p # o => ops'[p] = ops[p]
      BY <1>0, <2>1, <2>2, SettledTyped DEF Status
  <2>5. ops'[o] = IF ops[o] = "attempting" THEN "completed" ELSE ops[o]
      BY <1>0, <2>1, <2>2, SettledTyped DEF Status
  <2> QED
      BY <2>3, <2>4, <2>5 DEF LedgerMoves
<1>9. ASSUME NEW c \in Caller, LosesAnswer(c) PROVE LedgerMoves
  <2>1. ops' = ops
      BY <1>9 DEF LosesAnswer
  <2> QED
      BY <2>1 DEF LedgerMoves
<1>10. ASSUME NEW c \in Caller, IsRefused(c) PROVE LedgerMoves
  <2> DEFINE o == First(E(c))
  <2>1. o \in Operation /\ E(c) \in Effect /\ o[1] = E(c) /\ o[2] = 0
      BY <1>0, <1>10, CallerWorks, FirstIsOperation DEF IsRefused, Step
  <2>2. o \in flying /\ o \notin flying' /\ ops' = Settled(o, "failed")
      BY <1>10 DEF IsRefused
  <2> HIDE DEF o
  <2>4. \A p \in Operation : p # o => ops'[p] = ops[p]
      BY <1>0, <2>1, <2>2, SettledTyped DEF Status
  <2>5. ops'[o] = IF ops[o] = "attempting" THEN "failed" ELSE ops[o]
      BY <1>0, <2>1, <2>2, SettledTyped DEF Status
  <2> QED
      BY <2>2, <2>4, <2>5 DEF LedgerMoves
<1>11. ASSUME NEW c \in Caller, Observes(c) PROVE LedgerMoves
  <2> DEFINE o == First(E(c))
  <2>1. o \in Operation /\ E(c) \in Effect /\ o[1] = E(c) /\ o[2] = 0
      BY <1>0, <1>11, CallerWorks, FirstIsOperation DEF Observes, Step
  <2>2. PICK seen \in Evidence(E(c)) : IF seen THEN ops' = Settled(o, "completed") ELSE ops' = Settled(o, "uncertain")
      BY <1>11 DEF Observes, Completes
  <2>3. seen => TookPlace(o)
      BY <1>0, <2>1, EvidenceIsTrue
  <2> HIDE DEF o
  <2>4. \A p \in Operation : p # o => ops'[p] = ops[p]
      BY <1>0, <2>1, <2>2, SettledTyped DEF Status
  <2>5. ops'[o] = IF ops[o] = "attempting" THEN (IF seen THEN "completed" ELSE "uncertain") ELSE ops[o]
      BY <1>0, <2>1, <2>2, SettledTyped DEF Status
  <2> QED
      BY <2>3, <2>4, <2>5 DEF LedgerMoves
<1>12. ASSUME NEW c \in Caller, Checks(c) PROVE LedgerMoves
  <2>1. ops' = ops
      BY <1>12 DEF Checks
  <2> QED
      BY <2>1 DEF LedgerMoves
<1>13. ASSUME Dies PROVE LedgerMoves
  <2>1. ops' = ops
      BY <1>13 DEF Dies
  <2> QED
      BY <2>1 DEF LedgerMoves
<1>14. ASSUME Boots PROVE LedgerMoves
    BY <1>0, <1>14, OpenedTyped DEF Boots, LedgerMoves

<1>15. ASSUME DoctorLearns PROVE LedgerMoves
  <2>1. doctor.at = "reading" /\ doctor.op \in Operation
      BY <1>0, <1>15, DoctorWorks DEF DoctorLearns
  <2>2. ASSUME NEW finding \in Diagnosis(doctor.op),
               ops' = IF Concludes(finding, doctor.command) THEN Resolved(doctor.op, "completed") ELSE ops
        PROVE  LedgerMoves
    <3>1. Concludes(finding, doctor.command) => TookPlace(doctor.op)
        BY <1>0, <2>1, <2>2, DiagnosisIsTrue
    <3>2. CASE ops' = ops
        BY <3>2 DEF LedgerMoves
    <3>3. CASE /\ ops' = [ops EXCEPT ![doctor.op] = "completed"]
               /\ ops[doctor.op] = "uncertain" /\ TookPlace(doctor.op)
        BY <1>0, <2>1, <3>3 DEF LedgerMoves, OperationsTyped
    <3> QED
        BY <2>2, <3>1, <3>2, <3>3 DEF Resolved
  <2>3. ASSUME NEW finding, DoctorRetries(doctor.op, finding) PROVE LedgerMoves
    <3>1. PICK again \in Operation :
            /\ again # doctor.op /\ doctor.op = <<again[1], again[2] - 1>> /\ ops[doctor.op] = "uncertain"
            /\ ops[again] = "none" /\ ops' = Retried(doctor.op, again)
        BY <2>1, <2>3, ReplacementIsNew
    <3>2. /\ ops'[again] = "attempting" /\ ops'[doctor.op] = "abandoned"
          /\ \A p \in Operation \ {again, doctor.op} : ops'[p] = ops[p]
        BY <1>0, <2>1, <3>1 DEF Retried, OperationsTyped
    <3> QED
        BY <3>1, <3>2 DEF LedgerMoves
  <2> QED
      BY <1>15, <2>2, <2>3 DEF DoctorLearns
<1>16. ASSUME DoctorHears PROVE LedgerMoves
  <2> DEFINE o == doctor.op
  <2>1. o \in Operation /\ o[2] > 0
      BY <1>0, <1>16, DoctorWorks DEF DoctorHears, Replaces
  <2>2. \E s \in {"completed", "uncertain", "failed"} :
          /\ ops' = Settled(o, s) /\ (s = "completed" => hits[o] > 0)
          /\ s = "failed" => kind[o[1]] = "comment" \/ (o \in flying /\ o \notin flying')
      BY <1>16 DEF DoctorHears
  <2> HIDE DEF o
  <2>3. PICK s \in {"completed", "uncertain", "failed"} :
          /\ ops' = Settled(o, s) /\ (s = "completed" => TookPlace(o))
          /\ s = "failed" => kind[o[1]] = "comment" \/ (o \in flying /\ o \notin flying')
      BY <1>0, <2>1, <2>2, HitsOnce
  <2>4. \A p \in Operation : p # o => ops'[p] = ops[p]
      BY <1>0, <2>1, <2>3, SettledTyped DEF Status
  <2>5. ops'[o] = IF ops[o] = "attempting" THEN s ELSE ops[o]
      BY <1>0, <2>1, <2>3, SettledTyped DEF Status
  <2> QED
      BY <2>1, <2>3, <2>4, <2>5 DEF LedgerMoves
<1>17. ASSUME DoctorDies PROVE LedgerMoves
  <2>1. ops' = ops
      BY <1>17 DEF DoctorDies
  <2> QED
      BY <2>1 DEF LedgerMoves
<1>18. CASE UNCHANGED operationVars
  <2>1. ops' = ops
      BY <1>18 DEF operationVars
  <2> QED
      BY <2>1 DEF LedgerMoves
<1> QED
    BY <1>1, <1>2, <1>3, <1>4, <1>5, <1>6, <1>7, <1>8, <1>9, <1>10, <1>11, <1>12, <1>13, <1>14, <1>15, <1>16, <1>17, <1>18 DEF OperationsNext, WriterStep


(* Only what took place is told done, and only a call that finds the       *)
(* completion in the ledger remembers it.                                  *)
OutcomeMoves == \A e \in Effect : outcome'[e] = "done" => outcome[e] = "done" \/ TookPlace(First(e))

CallMoves ==
  \A c \in Caller : (call'[c].at = "checking" /\ call'[c].prior = "completed") =>
    \/ call'[c] = call[c]
    \/ /\ call'[c].effect \in Effect
       /\ ops[First(call'[c].effect)] = "completed"

LEMMA OutcomeStep == OperationsInv /\ [OperationsNext]_operationVars => OutcomeMoves
<1> SUFFICES ASSUME OperationsInv, [OperationsNext]_operationVars PROVE OutcomeMoves
    OBVIOUS
<1> USE DEF github
<1>0. OperationsTyped /\ Caused /\ Unsent /\ Remembered /\ Replaces /\ SentOnce /\ OutcomeTrue /\ LedgerTrue /\ OneOpenIdentity
    BY DEF OperationsInv
<1>99. LedgerMoves
    BY LedgerStep
<1>1. ASSUME NEW o \in Operation, Lands(o) PROVE OutcomeMoves
  <2>1. outcome' = outcome
      BY <1>1 DEF Lands
  <2> QED
      BY <2>1 DEF OutcomeMoves
<1>2. ASSUME NEW o \in Operation, Abandons(o) PROVE OutcomeMoves
  <2>1. outcome' = outcome
      BY <1>2 DEF Abandons
  <2> QED
      BY <2>1 DEF OutcomeMoves
<1>3. ASSUME NEW o \in Operation, NEW command \in Command, DoctorReads(o, command) PROVE OutcomeMoves
  <2>1. outcome' = outcome
      BY <1>3 DEF DoctorReads
  <2> QED
      BY <2>1 DEF OutcomeMoves
<1>4. ASSUME NEW e \in Effect, OthersEdit(e) PROVE OutcomeMoves
  <2>1. outcome' = outcome
      BY <1>4 DEF OthersEdit
  <2> QED
      BY <2>1 DEF OutcomeMoves
<1>5. ASSUME NEW e \in Effect, TurnCalls(e) PROVE OutcomeMoves
  <2>1. outcome' = [outcome EXCEPT ![e] = "pending"]
      BY <1>5 DEF TurnCalls, Begins
  <2> QED
      BY <1>0, <2>1 DEF OutcomeMoves, OperationsTyped
<1>6. ASSUME NEW e \in Effect, BootCalls(e) PROVE OutcomeMoves
  <2>1. outcome' = [outcome EXCEPT ![e] = "pending"]
      BY <1>6 DEF BootCalls, Begins
  <2> QED
      BY <1>0, <2>1 DEF OutcomeMoves, OperationsTyped
<1>7. ASSUME NEW c \in Caller, Prepares(c) PROVE OutcomeMoves
  <2>1. E(c) \in Effect /\ First(E(c)) \in Operation
      BY <1>0, <1>7, CallerWorks, FirstIsOperation DEF Prepares, Step
  <2>2. outcome' = outcome \/ \E r \in {"duplicate", "uncertain"} : outcome' = Answered(E(c), r)
      BY <1>7 DEF Prepares, Ends, Throws
  <2> QED
      BY <1>0, <2>1, <2>2, AnsweredTyped DEF OutcomeMoves
<1>8. ASSUME NEW c \in Caller, Succeeds(c) PROVE OutcomeMoves
  <2>1. E(c) \in Effect /\ First(E(c)) \in Operation
      BY <1>0, <1>8, CallerWorks, FirstIsOperation DEF Succeeds, Step
  <2>3. CASE outcome' = Answered(E(c), "done") /\ ops'[First(E(c))] = "completed"
    <3>1. TookPlace(First(E(c)))
        BY <1>0, <1>99, <2>1, <2>3 DEF LedgerMoves, LedgerTrue, TookPlace
    <3> QED
        BY <1>0, <2>1, <2>3, <3>1, AnsweredTyped DEF OutcomeMoves
  <2>4. CASE outcome' = Answered(E(c), "uncertain")
      BY <1>0, <2>1, <2>4, AnsweredTyped DEF OutcomeMoves
  <2> QED
      BY <1>8, <2>3, <2>4 DEF Succeeds, Completes, Ends
<1>9. ASSUME NEW c \in Caller, LosesAnswer(c) PROVE OutcomeMoves
  <2>1. outcome' = outcome
      BY <1>9 DEF LosesAnswer
  <2> QED
      BY <2>1 DEF OutcomeMoves
<1>10. ASSUME NEW c \in Caller, IsRefused(c) PROVE OutcomeMoves
  <2>1. E(c) \in Effect /\ First(E(c)) \in Operation
      BY <1>0, <1>10, CallerWorks, FirstIsOperation DEF IsRefused, Step
  <2>2. outcome' = Answered(E(c), "uncertain")
      BY <1>10 DEF IsRefused, Ends
  <2> QED
      BY <1>0, <2>1, <2>2, AnsweredTyped DEF OutcomeMoves
<1>11. ASSUME NEW c \in Caller, Observes(c) PROVE OutcomeMoves
  <2>1. E(c) \in Effect /\ First(E(c)) \in Operation
      BY <1>0, <1>11, CallerWorks, FirstIsOperation DEF Observes, Step
  <2>3. CASE outcome' = Answered(E(c), "done") /\ ops'[First(E(c))] = "completed"
    <3>1. TookPlace(First(E(c)))
        BY <1>0, <1>99, <2>1, <2>3 DEF LedgerMoves, LedgerTrue, TookPlace
    <3> QED
        BY <1>0, <2>1, <2>3, <3>1, AnsweredTyped DEF OutcomeMoves
  <2>4. CASE outcome' = Answered(E(c), "uncertain")
      BY <1>0, <2>1, <2>4, AnsweredTyped DEF OutcomeMoves
  <2> QED
      BY <1>11, <2>3, <2>4 DEF Observes, Completes, Ends
<1>12. ASSUME NEW c \in Caller, Checks(c) PROVE OutcomeMoves
  <2>1. E(c) \in Effect /\ First(E(c)) \in Operation
      BY <1>0, <1>12, CallerWorks, FirstIsOperation DEF Checks, Step
  <2>3. CASE outcome' = Answered(E(c), "done") /\ TRUE \in Reconciled(E(c), call[c].prior)
    <3>1. TookPlace(First(E(c)))
        BY <1>0, <1>12, <2>1, <2>3, ReconciledIsTrue DEF Checks, Step, Remembered
    <3> QED
        BY <1>0, <2>1, <2>3, <3>1, AnsweredTyped DEF OutcomeMoves
  <2>4. CASE outcome' = Answered(E(c), "uncertain")
      BY <1>0, <2>1, <2>4, AnsweredTyped DEF OutcomeMoves
  <2>5. CASE outcome' = outcome
      BY <2>5 DEF OutcomeMoves
  <2> QED
      BY <1>12, <2>3, <2>4, <2>5 DEF Checks, Ends, Throws
<1>13. ASSUME Dies PROVE OutcomeMoves
  <2>1. outcome' = outcome
      BY <1>13 DEF Dies
  <2> QED
      BY <2>1 DEF OutcomeMoves
<1>14. ASSUME Boots PROVE OutcomeMoves
  <2>1. outcome' = outcome
      BY <1>14 DEF Boots
  <2> QED
      BY <2>1 DEF OutcomeMoves
<1>15. ASSUME DoctorLearns PROVE OutcomeMoves
  <2>1. outcome' = outcome
      BY <1>15 DEF DoctorLearns
  <2> QED
      BY <2>1 DEF OutcomeMoves
<1>16. ASSUME DoctorHears PROVE OutcomeMoves
  <2>1. outcome' = outcome
      BY <1>16 DEF DoctorHears
  <2> QED
      BY <2>1 DEF OutcomeMoves
<1>17. ASSUME DoctorDies PROVE OutcomeMoves
  <2>1. outcome' = outcome
      BY <1>17 DEF DoctorDies
  <2> QED
      BY <2>1 DEF OutcomeMoves
<1>18. CASE UNCHANGED operationVars
  <2>1. outcome' = outcome
      BY <1>18 DEF operationVars
  <2> QED
      BY <2>1 DEF OutcomeMoves
<1> QED
    BY <1>1, <1>2, <1>3, <1>4, <1>5, <1>6, <1>7, <1>8, <1>9, <1>10, <1>11, <1>12, <1>13, <1>14, <1>15, <1>16, <1>17, <1>18 DEF OperationsNext, WriterStep

LEMMA CallStep == OperationsInv /\ [OperationsNext]_operationVars => CallMoves
<1> SUFFICES ASSUME OperationsInv, [OperationsNext]_operationVars PROVE CallMoves
    OBVIOUS
<1> USE DEF github
<1>0. OperationsTyped /\ Caused /\ Unsent /\ Remembered /\ Replaces /\ SentOnce /\ OutcomeTrue /\ LedgerTrue /\ OneOpenIdentity
    BY DEF OperationsInv
<1>1. ASSUME NEW o \in Operation, Lands(o) PROVE CallMoves
  <2>1. call' = call
      BY <1>1 DEF Lands
  <2> QED
      BY <2>1 DEF CallMoves
<1>2. ASSUME NEW o \in Operation, Abandons(o) PROVE CallMoves
  <2>1. call' = call
      BY <1>2 DEF Abandons
  <2> QED
      BY <2>1 DEF CallMoves
<1>3. ASSUME NEW o \in Operation, NEW command \in Command, DoctorReads(o, command) PROVE CallMoves
  <2>1. call' = call
      BY <1>3 DEF DoctorReads
  <2> QED
      BY <2>1 DEF CallMoves
<1>4. ASSUME NEW e \in Effect, OthersEdit(e) PROVE CallMoves
  <2>1. call' = call
      BY <1>4 DEF OthersEdit
  <2> QED
      BY <2>1 DEF CallMoves
<1>5. ASSUME NEW e \in Effect, TurnCalls(e) PROVE CallMoves
  <2>1. call' = [call EXCEPT !["turn"] = [at |-> IF Prior(e) = "none" THEN "preparing" ELSE "checking",
                                         effect |-> e, prior |-> Prior(e)]]
      BY <1>5 DEF TurnCalls, Begins
  <2> QED
      BY <1>0, <2>1 DEF CallMoves, OperationsTyped, Prior
<1>6. ASSUME NEW e \in Effect, BootCalls(e) PROVE CallMoves
  <2>1. call' = [call EXCEPT !["boot"] = [at |-> IF Prior(e) = "none" THEN "preparing" ELSE "checking",
                                         effect |-> e, prior |-> Prior(e)]]
      BY <1>6 DEF BootCalls, Begins
  <2> QED
      BY <1>0, <2>1 DEF CallMoves, OperationsTyped, Prior
<1>7. ASSUME NEW c \in Caller, Prepares(c) PROVE CallMoves
  <2>1. call[c].at # "idle" /\ (Return(c) \/ Go(c, "sent"))
      BY <1>7 DEF Prepares, Step, Ends, Throws
  <2>2. call'[c].at \in {"idle", "sent"} /\ \A d \in Caller \ {c} : call'[d] = call[d]
      BY <1>0, <2>1, ReturnTyped, GoTyped DEF Idle
  <2> QED
      BY <2>2 DEF CallMoves
<1>8. ASSUME NEW c \in Caller, Succeeds(c) PROVE CallMoves
  <2>1. Return(c)
      BY <1>8 DEF Succeeds, Completes, Ends
  <2>2. call'[c].at = "idle" /\ \A d \in Caller \ {c} : call'[d] = call[d]
      BY <1>0, <2>1, ReturnTyped DEF Idle
  <2> QED
      BY <2>2 DEF CallMoves
<1>9. ASSUME NEW c \in Caller, LosesAnswer(c) PROVE CallMoves
  <2>1. call'[c].at = "observing" /\ \A d \in Caller \ {c} : call'[d] = call[d]
      BY <1>0, <1>9, GoTyped DEF LosesAnswer, Step
  <2> QED
      BY <2>1 DEF CallMoves
<1>10. ASSUME NEW c \in Caller, IsRefused(c) PROVE CallMoves
  <2>1. Return(c)
      BY <1>10 DEF IsRefused, Ends
  <2>2. call'[c].at = "idle" /\ \A d \in Caller \ {c} : call'[d] = call[d]
      BY <1>0, <2>1, ReturnTyped DEF Idle
  <2> QED
      BY <2>2 DEF CallMoves
<1>11. ASSUME NEW c \in Caller, Observes(c) PROVE CallMoves
  <2>1. Return(c)
      BY <1>11 DEF Observes, Completes, Ends
  <2>2. call'[c].at = "idle" /\ \A d \in Caller \ {c} : call'[d] = call[d]
      BY <1>0, <2>1, ReturnTyped DEF Idle
  <2> QED
      BY <2>2 DEF CallMoves
<1>12. ASSUME NEW c \in Caller, Checks(c) PROVE CallMoves
  <2>1. Return(c)
      BY <1>12 DEF Checks, Ends, Throws
  <2>2. call'[c].at = "idle" /\ \A d \in Caller \ {c} : call'[d] = call[d]
      BY <1>0, <2>1, ReturnTyped DEF Idle
  <2> QED
      BY <2>2 DEF CallMoves
<1>13. ASSUME Dies PROVE CallMoves
  <2>1. \A c \in Caller : call'[c].at = "idle"
      BY <1>13 DEF Dies, Idle
  <2> QED
      BY <2>1 DEF CallMoves
<1>14. ASSUME Boots PROVE CallMoves
  <2>1. call' = call
      BY <1>14 DEF Boots
  <2> QED
      BY <2>1 DEF CallMoves
<1>15. ASSUME DoctorLearns PROVE CallMoves
  <2>1. call' = call
      BY <1>15 DEF DoctorLearns
  <2> QED
      BY <2>1 DEF CallMoves
<1>16. ASSUME DoctorHears PROVE CallMoves
  <2>1. call' = call
      BY <1>16 DEF DoctorHears
  <2> QED
      BY <2>1 DEF CallMoves
<1>17. ASSUME DoctorDies PROVE CallMoves
  <2>1. call' = call
      BY <1>17 DEF DoctorDies
  <2> QED
      BY <2>1 DEF CallMoves
<1>18. CASE UNCHANGED operationVars
  <2>1. call' = call
      BY <1>18 DEF operationVars
  <2> QED
      BY <2>1 DEF CallMoves
<1> QED
    BY <1>1, <1>2, <1>3, <1>4, <1>5, <1>6, <1>7, <1>8, <1>9, <1>10, <1>11, <1>12, <1>13, <1>14, <1>15, <1>16, <1>17, <1>18 DEF OperationsNext, WriterStep

LEMMA ReplacesStep == OperationsInv /\ [OperationsNext]_operationVars => Replaces'
<1> SUFFICES ASSUME OperationsInv, [OperationsNext]_operationVars PROVE Replaces'
    OBVIOUS
<1> USE DEF github
<1>0. OperationsTyped /\ Caused /\ Unsent /\ Remembered /\ Replaces /\ SentOnce /\ OutcomeTrue /\ LedgerTrue /\ OneOpenIdentity
    BY DEF OperationsInv
<1>1. ASSUME NEW o \in Operation, Lands(o) PROVE Replaces'
    BY <1>0, <1>1 DEF Lands, Replaces

<1>2. ASSUME NEW o \in Operation, Abandons(o) PROVE Replaces'
    BY <1>0, <1>2 DEF Abandons, Replaces

<1>3. ASSUME NEW o \in Operation, NEW command \in Command, DoctorReads(o, command) PROVE Replaces'
    BY <1>0, <1>3 DEF DoctorReads, Replaces

<1>4. ASSUME NEW e \in Effect, OthersEdit(e) PROVE Replaces'
    BY <1>0, <1>4 DEF OthersEdit, Replaces

<1>5. ASSUME NEW e \in Effect, TurnCalls(e) PROVE Replaces'
    BY <1>0, <1>5 DEF TurnCalls, Begins, Replaces

<1>6. ASSUME NEW e \in Effect, BootCalls(e) PROVE Replaces'
    BY <1>0, <1>6 DEF BootCalls, Begins, Replaces

<1>7. ASSUME NEW c \in Caller, Prepares(c) PROVE Replaces'
    BY <1>0, <1>7 DEF Prepares, Replaces

<1>8. ASSUME NEW c \in Caller, Succeeds(c) PROVE Replaces'
    BY <1>0, <1>8 DEF Succeeds, Replaces

<1>9. ASSUME NEW c \in Caller, LosesAnswer(c) PROVE Replaces'
    BY <1>0, <1>9 DEF LosesAnswer, Replaces

<1>10. ASSUME NEW c \in Caller, IsRefused(c) PROVE Replaces'
    BY <1>0, <1>10 DEF IsRefused, Replaces

<1>11. ASSUME NEW c \in Caller, Observes(c) PROVE Replaces'
    BY <1>0, <1>11 DEF Observes, Replaces

<1>12. ASSUME NEW c \in Caller, Checks(c) PROVE Replaces'
    BY <1>0, <1>12 DEF Checks, Replaces

<1>13. ASSUME Dies PROVE Replaces'
    BY <1>0, <1>13 DEF Dies, Replaces

<1>14. ASSUME Boots PROVE Replaces'
    BY <1>0, <1>14 DEF Boots, Replaces

<1>15. ASSUME DoctorLearns PROVE Replaces'
  <2>1. doctor.at = "reading" /\ (doctor' = Idle \/ \E finding : DoctorRetries(doctor.op, finding))
      BY <1>15 DEF DoctorLearns
  <2>2. doctor' = Idle \/ \E again : doctor' = [at |-> "sent", op |-> again, command |-> "retry"] /\ again[2] > 0
      BY <2>1, ReplacementIsNew
  <2> QED
      BY <2>2 DEF Replaces, Idle
<1>16. ASSUME DoctorHears PROVE Replaces'
    BY <1>0, <1>16 DEF DoctorHears, Replaces, Idle

<1>17. ASSUME DoctorDies PROVE Replaces'
    BY <1>0, <1>17 DEF DoctorDies, Replaces, Idle

<1>18. CASE UNCHANGED operationVars
    BY <1>0, <1>18 DEF operationVars, Replaces

<1> QED
    BY <1>1, <1>2, <1>3, <1>4, <1>5, <1>6, <1>7, <1>8, <1>9, <1>10, <1>11, <1>12, <1>13, <1>14, <1>15, <1>16, <1>17, <1>18 DEF OperationsNext, WriterStep


-----------------------------------------------------------------------------
(* The invariant.                                                          *)

LEMMA OnceStep ==
  ASSUME OperationsInv, GitHubMoves, LedgerMoves, OperationsTyped'
  PROVE  SentOnce' /\ Caused' /\ Unsent'
<1>0. OperationsTyped /\ Caused /\ Unsent /\ SentOnce
    BY DEF OperationsInv
<1>1. ASSUME NEW o \in Operation PROVE hits'[o] + (IF o \in flying' THEN 1 ELSE 0) <= 1
  <2>1. hits[o] \in Nat /\ hits'[o] \in Nat /\ hits[o] + (IF o \in flying THEN 1 ELSE 0) <= 1
      BY <1>0 DEF OperationsTyped, SentOnce
  <2> QED
      BY <1>0, <2>1 DEF GitHubMoves, Unsent
<1>2. ASSUME NEW o \in Operation PROVE (o \in marks' => hits'[o] > 0) /\ (hits'[o] > 0 => o[1] \in took')
  <2>1. hits[o] \in Nat /\ hits'[o] \in Nat
      BY <1>0 DEF OperationsTyped
  <2>2. (o \in marks => hits[o] > 0) /\ (hits[o] > 0 => o[1] \in took)
      BY <1>0 DEF Caused
  <2> QED
      BY <2>1, <2>2 DEF GitHubMoves
<1>3. \A e \in holds' : kind'[e] \in Desired /\ e \in took'
    BY <1>0 DEF Caused, GitHubMoves
<1>4. ASSUME NEW o \in Operation, ops'[o] = "none" PROVE hits'[o] = 0 /\ o \notin flying'
  <2>1. ops[o] = "none"
      BY <1>4 DEF LedgerMoves
  <2> QED
      BY <1>0, <1>4, <2>1 DEF GitHubMoves, Unsent
<1> QED
    BY <1>1, <1>2, <1>3, <1>4 DEF SentOnce, Caused, Unsent

LEMMA TookPlaceStands ==
  ASSUME OperationsInv, GitHubMoves, NEW o \in Operation, TookPlace(o)
  PROVE  TookPlace(o)'
<1>0. OperationsTyped /\ SentOnce
    BY DEF OperationsInv
<1>1. hits[o] \in Nat /\ hits[o] + (IF o \in flying THEN 1 ELSE 0) <= 1
    BY <1>0 DEF OperationsTyped, SentOnce
<1> QED
    BY <1>1 DEF GitHubMoves, TookPlace

LEMMA LedgerKept ==
  ASSUME OperationsInv, GitHubMoves, LedgerMoves
  PROVE  LedgerTrue' /\ OneOpenIdentity'
<1>0. OperationsTyped /\ LedgerTrue /\ OneOpenIdentity /\ SentOnce
    BY DEF OperationsInv
<1>1. ASSUME NEW o \in Operation, ops'[o] = "completed" PROVE TookPlace(o)'
  <2>1. TookPlace(o)
      BY <1>0, <1>1 DEF LedgerMoves, LedgerTrue, TookPlace
  <2> QED
      BY <2>1, TookPlaceStands
<1>2. ASSUME NEW o \in Operation, ops'[o] = "failed", (o[2] = 0 \/ kind'[o[1]] # "comment")
      PROVE  hits'[o] = 0 /\ o \notin flying'
  <2>1. hits[o] \in Nat /\ hits[o] + (IF o \in flying THEN 1 ELSE 0) <= 1
      BY <1>0 DEF OperationsTyped, SentOnce
  <2>2. CASE ops[o] = "failed"
      BY <1>0, <1>2, <2>1, <2>2 DEF LedgerTrue, GitHubMoves
  <2>3. CASE ops[o] = "attempting" /\ o \in flying /\ o \notin flying'
      BY <1>2, <2>1, <2>3 DEF GitHubMoves
  <2>4. ~(o[2] > 0 /\ kind[o[1]] = "comment")
      BY <1>2 DEF GitHubMoves
  <2>5. ops[o] = "failed" \/ (ops[o] = "attempting" /\ o \in flying /\ o \notin flying')
      BY <1>2, <2>4 DEF LedgerMoves
  <2> QED
      BY <2>2, <2>3, <2>5
<1>3. ASSUME NEW e \in Effect, NEW k \in 0 .. MaxRetries, ops'[<<e, k>>] # "none",
             NEW j \in 0 .. MaxRetries, j < k
      PROVE  ops'[<<e, j>>] = "abandoned"
  <2>1. <<e, k>> \in Operation /\ <<e, j>> \in Operation /\ k > 0
      BY <1>3, OperationsAssumption DEF Operation
  <2>2. ops[<<e, j>>] = "abandoned" => ops'[<<e, j>>] = "abandoned"
      BY <2>1 DEF LedgerMoves
  <2>3. CASE ops[<<e, k>>] # "none"
      BY <1>0, <1>3, <2>2, <2>3 DEF OneOpenIdentity
  <2>4. CASE ops[<<e, k>>] = "none"
    <3> DEFINE i == k - 1
    <3>1. i \in 0 .. MaxRetries /\ j <= i
        BY <1>3, <2>1, OperationsAssumption
    <3>2. ops[<<e, i>>] = "uncertain" /\ ops'[<<e, i>>] = "abandoned"
        BY <1>3, <2>1, <2>4 DEF LedgerMoves
    <3> HIDE DEF i
    <3>3. CASE j = i
        BY <3>2, <3>3
    <3>4. CASE j < i
        BY <1>0, <2>2, <3>1, <3>2, <3>4 DEF OneOpenIdentity
    <3> QED
        BY <3>1, <3>3, <3>4, OperationsAssumption
  <2> QED
      BY <2>3, <2>4
<1> QED
    BY <1>1, <1>2, <1>3 DEF LedgerTrue, OneOpenIdentity, TookPlace

LEMMA ToldStep ==
  ASSUME OperationsInv, GitHubMoves, OutcomeMoves, CallMoves, OperationsTyped'
  PROVE  OutcomeTrue' /\ Remembered'
<1>0. OperationsTyped /\ OutcomeTrue /\ LedgerTrue /\ Remembered
    BY DEF OperationsInv
<1>1. ASSUME NEW e \in Effect, outcome'[e] = "done" PROVE TookPlace(First(e))'
  <2>1. First(e) \in Operation /\ First(e)[1] = e
      BY FirstIsOperation
  <2>2. TookPlace(First(e))
      BY <1>0, <1>1, <2>1 DEF OutcomeMoves, OutcomeTrue, TookPlace
  <2> QED
      BY <2>1, <2>2, TookPlaceStands
<1>2. OutcomeTrue'
  <2>1. \A e \in Effect : First(e)[1] = e
      BY FirstIsOperation
  <2> QED
      BY <1>1, <2>1 DEF OutcomeTrue, TookPlace
<1>3. ASSUME NEW c \in Caller, call'[c].at = "checking", call'[c].prior = "completed"
      PROVE  TookPlace(First(E(c)))'
  <2>1. PICK e \in Effect : e = call'[c].effect /\ TookPlace(First(e))
    <3>1. CASE call'[c] = call[c]
        BY <1>0, <1>3, <3>1, CallerWorks DEF Remembered, E
    <3>2. CASE call'[c].effect \in Effect /\ ops[First(call'[c].effect)] = "completed"
        BY <1>0, <3>2, FirstIsOperation DEF LedgerTrue, TookPlace
    <3> QED
        BY <1>3, <3>1, <3>2 DEF CallMoves
  <2>2. TookPlace(First(e))'
      BY <2>1, FirstIsOperation, TookPlaceStands
  <2> QED
      BY <2>1, <2>2 DEF E, First, TookPlace
<1>4. Remembered'
    BY <1>3 DEF Remembered
<1> QED
    BY <1>2, <1>4

LEMMA OperationsKept == OperationsInv /\ [OperationsNext]_operationVars => OperationsInv'
<1> SUFFICES ASSUME OperationsInv, [OperationsNext]_operationVars PROVE OperationsInv'
    OBVIOUS
<1>1. OperationsTyped' /\ GitHubMoves /\ LedgerMoves /\ OutcomeMoves /\ CallMoves /\ Replaces'
    BY TypedStep, GitHubStep, LedgerStep, OutcomeStep, CallStep, ReplacesStep
<1>2. SentOnce' /\ Caused' /\ Unsent'
    BY <1>1, OnceStep
<1>3. LedgerTrue' /\ OneOpenIdentity'
    BY <1>1, LedgerKept
<1>4. OutcomeTrue' /\ Remembered'
    BY <1>1, ToldStep
<1> QED
    BY <1>1, <1>2, <1>3, <1>4 DEF OperationsInv

LEMMA TypedIsTypeOK == OperationsTyped => OperationsTypeOK
BY DEF OperationsTyped, OperationsTypeOK, Working, Doctoring, Status, E

(* The invariant of GitHub, ledger, callers and doctor, in every behaviour *)
(* of the runtime and the operator beside it (operation-store.ts:120-289). *)
THEOREM OperationsInvariant == OperationsSpec => []OperationsInv
<1>1. OperationsInit => OperationsInv
    BY InitOperations
<1>2. OperationsInv /\ [OperationsNext]_operationVars => OperationsInv'
    BY OperationsKept
<1> QED
    BY <1>1, <1>2, PTL DEF OperationsSpec

(* A change is made at most once under an identity, what the Brain and the *)
(* ledger are told is done was done, and nothing settled is overwritten    *)
(* (issue-filing.ts:37-50, issue-mutation.ts:131-173,                      *)
(* operation-store.ts:172-182).                                            *)
THEOREM OperationsAreTrueAlways == OperationsSpec => OperationsAreTrue
<1>1. OperationsInv => OperationsTypeOK /\ SentOnce /\ OutcomeTrue /\ LedgerTrue /\ OneOpenIdentity
    BY TypedIsTypeOK DEF OperationsInv
<1>2. OperationsInv /\ [OperationsNext]_operationVars =>
        [\A o \in Operation : ops[o] \in {"completed", "failed", "abandoned"} => ops'[o] = ops[o]]_operationVars
    BY LedgerStep DEF LedgerMoves
<1>3. OperationsSpec => []OperationsInv
    BY OperationsInvariant
<1> QED
    BY <1>1, <1>2, <1>3, PTL DEF OperationsSpec, OperationsAreTrue, SettledForGood

-----------------------------------------------------------------------------
(* The ingress beside the operations.                                      *)

HandlerPoint == {"asking", "launching", "admitting", "admitted"}
Handling == [at : HandlerPoint, closes : SUBSET Operation]
Event == [delivery : Delivery, closes : SUBSET Operation]

IngressTyped ==
  /\ what \in [Delivery -> What]
  /\ links \in [Delivery -> SUBSET Issue]
  /\ rows \in [Delivery -> {"none", "received", "done", "failed", "unsupported"}]
  /\ handling \in [Delivery -> {NotHandled} \cup Handling]
  /\ answer \in [Delivery -> {"unsent", "refused", "open", "ok"}]
  /\ upInbox \subseteq Event
  /\ launched \subseteq Delivery /\ overlapped \subseteq Delivery
  /\ wired \in BOOLEAN

(* Every issue a pull request refers to is named, or was given up.         *)
Named(d, closes) == \A n \in links[d] \cap Operation : n \in closes \/ ops[n] = "abandoned"

(* A pull request refers to issues that are there, and a delivery nobody   *)
(* has sent has left nothing.                                              *)
LinkedIsFiled == \A d \in Delivery : \A n \in links[d] \cap Operation : Creates(n) /\ hits[n] > 0
UnsentIsUnknown ==
  \A d \in Delivery : answer[d] = "unsent" =>
    rows[d] = "none" /\ handling[d] = NotHandled /\ \A event \in upInbox : event.delivery # d

(* What the handler of a delivery knows at its stage.                      *)
HandlerKnows(d) ==
  /\ handling[d] # NotHandled => rows[d] = "received"
  /\ handling[d].at = "asking" => what[d] = "command"
  /\ (what[d] = "opened" /\ handling[d].at \in {"launching", "admitting"}) => Named(d, handling[d].closes)
  /\ handling[d].at = "admitted" => \E event \in upInbox : event.delivery = d

(* Only a repetition makes GitHub believe taken what is not settled.       *)
TakenIsSettled(d) ==
  /\ rows[d] = "done" => d \in launched \/ \E event \in upInbox : event.delivery = d
  /\ rows[d] = "received" /\ answer[d] = "ok" => d \in overlapped

IngressInv ==
  /\ IngressTyped /\ LinkedIsFiled /\ UnsentIsUnknown
  /\ \A d \in Delivery : HandlerKnows(d) /\ TakenIsSettled(d)
  /\ EveryClosedIssueNamed

LEMMA InitIngress == IngressInit => IngressInv
BY DEF IngressInit, IngressIdle, IngressInv, IngressTyped, LinkedIsFiled, UnsentIsUnknown,
       HandlerKnows, TakenIsSettled, EveryClosedIssueNamed, NotHandled

(* What the ingress relies on: operations stay of their kind, what was     *)
(* filed stays filed, and what is settled stays settled.                   *)
OperationsStand ==
  /\ kind' = kind
  /\ \A o \in Operation :
       /\ hits[o] > 0 => hits'[o] > 0
       /\ ops[o] \in {"completed", "abandoned"} => ops'[o] = ops[o]

LEMMA FateOnly ==
  ASSUME OperationsInv, Fate, UNCHANGED <<kind, outcome, ops, github, up, call, toRecover, doctor>>
  PROVE  OperationsInv' /\ OperationsStand
<1> USE DEF github
<1>1. OperationsTyped'
    BY FateTyped DEF OperationsInv, OperationsTyped
<1>2. Caused' /\ Unsent' /\ Remembered' /\ Replaces'
    BY DEF OperationsInv, Caused, Unsent, Remembered, Replaces, TookPlace, E
<1>3. SentOnce' /\ OutcomeTrue' /\ LedgerTrue' /\ OneOpenIdentity'
    BY DEF OperationsInv, SentOnce, OutcomeTrue, LedgerTrue, OneOpenIdentity
<1> QED
    BY <1>1, <1>2, <1>3 DEF OperationsInv, OperationsStand

LEMMA WriterStands ==
  ASSUME OperationsInv, [OperationsNext]_operationVars
  PROVE  OperationsInv' /\ OperationsStand
<1>1. OperationsInv' /\ GitHubMoves /\ LedgerMoves
    BY OperationsKept, GitHubStep, LedgerStep
<1>2. ASSUME NEW o \in Operation PROVE hits[o] > 0 => hits'[o] > 0
    BY <1>1 DEF GitHubMoves, OperationsInv, OperationsTyped
<1>3. ASSUME NEW o \in Operation PROVE ops[o] \in {"completed", "abandoned"} => ops'[o] = ops[o]
    BY <1>1 DEF LedgerMoves
<1> QED
    BY <1>1, <1>2, <1>3 DEF GitHubMoves, OperationsStand

LEMMA OperationsBeside ==
  ASSUME OperationsInv, [GitHubNext]_allVars
  PROVE  OperationsInv' /\ OperationsStand
<1>1. CASE Fate /\ UNCHANGED <<kind, outcome, ops, github, up, call, toRecover, doctor>>
    BY <1>1, FateOnly
<1>2. CASE [OperationsNext]_operationVars
    BY <1>2, WriterStands
<1>3. ASSUME OperationsStep PROVE OperationsNext
    BY <1>3 DEF OperationsStep, OperationsNext
<1>4. ASSUME NEW d \in Delivery, Sends(d) \/ Redelivers(d) \/ Overlaps(d) \/ HandlerStep(d)
      PROVE  UNCHANGED operationVars
    BY <1>4 DEF Sends, Redelivers, Overlaps, HandlerStep, Arrives, Asked, Launched, Admits, AdmissionSettles
<1>5. ASSUME NEW d \in Delivery, AdmissionFails(d) \/ LedgerFails(d)
      PROVE  Fate /\ UNCHANGED <<kind, outcome, ops, github, up, call, toRecover, doctor>>
    BY <1>5 DEF AdmissionFails, LedgerFails
<1>6. ASSUME HostDies \/ HostBoots PROVE OperationsNext
    BY <1>6 DEF HostDies, HostBoots, OperationsNext
<1>7. Wires => UNCHANGED operationVars
    BY DEF Wires
<1>8. SessionEnds => Fate /\ UNCHANGED <<kind, outcome, ops, github, up, call, toRecover, doctor>>
    BY DEF SessionEnds
<1>9. UNCHANGED allVars => UNCHANGED operationVars
    BY DEF allVars
<1> QED
    BY <1>1, <1>2, <1>3, <1>4, <1>5, <1>6, <1>7, <1>8, <1>9 DEF GitHubNext, IngressNext

-----------------------------------------------------------------------------
(* What a step of the handler writes.                                      *)

LEMMA AnswersTyped ==
  ASSUME IngressTyped, NEW d \in Delivery, NEW code \in {"refused", "open", "ok"}, Answers(d, code)
  PROVE  /\ answer' \in [Delivery -> {"unsent", "refused", "open", "ok"}]
         /\ answer'[d] = (IF d \in overlapped THEN answer[d] ELSE code)
         /\ \A b \in Delivery \ {d} : answer'[b] = answer[b]
BY DEF IngressTyped, Answers

LEMMA ReachTyped ==
  ASSUME IngressTyped, NEW d \in Delivery, NEW point \in HandlerPoint, NEW closes \in SUBSET Operation,
         Reach(d, point, closes)
  PROVE  /\ handling' \in [Delivery -> {NotHandled} \cup Handling]
         /\ handling'[d] = [at |-> point, closes |-> closes] /\ handling'[d] # NotHandled
         /\ \A b \in Delivery \ {d} : handling'[b] = handling[b]
<1>1. [at |-> point, closes |-> closes] \in Handling /\ [at |-> point, closes |-> closes] # NotHandled
    BY DEF Handling, NotHandled, HandlerPoint
<1> QED
    BY <1>1 DEF IngressTyped, Reach

LEMMA DoneTyped ==
  ASSUME IngressTyped, NEW d \in Delivery, NEW code \in {"refused", "open", "ok"}, Done(d, code)
  PROVE  /\ handling' \in [Delivery -> {NotHandled} \cup Handling]
         /\ handling'[d] = NotHandled /\ Answers(d, code)
         /\ \A b \in Delivery \ {d} : handling'[b] = handling[b]
BY DEF IngressTyped, Done

LEMMA HandlerWorks ==
  ASSUME IngressTyped, NEW d \in Delivery, handling[d].at # "idle"
  PROVE  handling[d] \in Handling /\ handling[d] # NotHandled
BY DEF IngressTyped, NotHandled

(* A pull request that does not wait names what it closes: what it refers  *)
(* to was filed, is in the ledger, has not failed, and is not pending.     *)
LEMMA StartNames ==
  ASSUME OperationsInv, IngressInv, NEW d \in Delivery,
         ~(HasPendingCreate /\ CompletedOf(links[d]) # links[d])
  PROVE  Named(d, CompletedOf(links[d])) /\ CompletedOf(links[d]) \in SUBSET Operation
<1>1. CASE CompletedOf(links[d]) = links[d]
    BY <1>1 DEF Named, CompletedOf
<1>2. CASE ~HasPendingCreate
  <2>1. ASSUME NEW n \in links[d] \cap Operation, ops[n] # "abandoned" PROVE n \in CompletedOf(links[d])
    <3>1. Creates(n) /\ hits[n] > 0 /\ hits[n] \in Nat /\ ops[n] \in Status
        BY <2>1 DEF IngressInv, LinkedIsFiled, OperationsInv, OperationsTyped
    <3>2. ops[n] \notin {"attempting", "uncertain"}
        BY <1>2, <2>1, <3>1 DEF HasPendingCreate, Unsettled
    <3>3. ops[n] # "none"
        BY <2>1, <3>1 DEF OperationsInv, Unsent
    <3>4. ops[n] # "failed"
        BY <2>1, <3>1 DEF OperationsInv, LedgerTrue, Creates
    <3> QED
        BY <2>1, <3>1, <3>2, <3>3, <3>4 DEF CompletedOf, Status
  <2> QED
      BY <2>1 DEF Named, CompletedOf
<1> QED
    BY <1>1, <1>2


(* A step at one delivery d: the others keep what they know.               *)
OthersKept(d) ==
  /\ UNCHANGED <<what, links>>
  /\ answer[d] # "unsent" /\ answer'[d] # "unsent"
  /\ \A b \in Delivery \ {d} : rows'[b] = rows[b] /\ answer'[b] = answer[b] /\ handling'[b] = handling[b]
  /\ upInbox \subseteq upInbox' /\ launched \subseteq launched' /\ overlapped \subseteq overlapped'
  /\ \A event \in upInbox' \ upInbox :
       event.delivery = d /\ (what[d] = "opened" => Named(d, event.closes))

LEMMA OneDelivery ==
  ASSUME IngressInv, OperationsStand, NEW d \in Delivery, OthersKept(d),
         IngressTyped', HandlerKnows(d)', TakenIsSettled(d)'
  PROVE  IngressInv'
<1>1. LinkedIsFiled'
    BY DEF IngressInv, LinkedIsFiled, OthersKept, OperationsStand, Creates
<1>2. UnsentIsUnknown'
    BY DEF IngressInv, UnsentIsUnknown, OthersKept
<1>3. ASSUME NEW b \in Delivery \ {d} PROVE HandlerKnows(b)'
  <2>1. HandlerKnows(b) /\ what'[b] = what[b] /\ links'[b] = links[b] /\ rows'[b] = rows[b] /\ handling'[b] = handling[b]
      BY <1>3 DEF IngressInv, OthersKept
  <2> QED
      BY <2>1 DEF HandlerKnows, Named, OthersKept, OperationsStand
<1>4. ASSUME NEW b \in Delivery \ {d} PROVE TakenIsSettled(b)'
  <2>1. TakenIsSettled(b) /\ rows'[b] = rows[b] /\ answer'[b] = answer[b]
      BY <1>4 DEF IngressInv, OthersKept
  <2> QED
      BY <2>1 DEF TakenIsSettled, OthersKept
<1>5. EveryClosedIssueNamed'
  <2>1. ASSUME NEW event \in upInbox, what[event.delivery] = "opened" PROVE Named(event.delivery, event.closes)
      BY <2>1 DEF IngressInv, EveryClosedIssueNamed, Named
  <2>2. ASSUME NEW event \in upInbox', what[event.delivery] = "opened" PROVE Named(event.delivery, event.closes)
      BY <2>1, <2>2 DEF OthersKept
  <2> QED
      BY <2>2 DEF EveryClosedIssueNamed, Named, OthersKept, OperationsStand
<1> QED
    BY <1>1, <1>2, <1>3, <1>4, <1>5 DEF IngressInv

LEMMA SettlesKept ==
  ASSUME IngressInv, OperationsStand, NEW d \in Delivery, NEW status \in {"done", "failed", "unsupported"},
         answer[d] # "unsent", Settles(d, status),
         UNCHANGED <<what, links, upInbox, wired, overlapped>>, launched' \in {launched, launched \cup {d}},
         status = "done" => d \in launched' \/ \E event \in upInbox : event.delivery = d
  PROVE  IngressInv'
<1>0. IngressTyped
    BY DEF IngressInv
<1>1. /\ rows' \in [Delivery -> {"none", "received", "done", "failed", "unsupported"}]
      /\ rows'[d] = status /\ \A b \in Delivery \ {d} : rows'[b] = rows[b]
    BY <1>0 DEF Settles, IngressTyped
<1>2. /\ handling' \in [Delivery -> {NotHandled} \cup Handling]
      /\ handling'[d] = NotHandled /\ Answers(d, "ok")
      /\ \A b \in Delivery \ {d} : handling'[b] = handling[b]
    BY <1>0, DoneTyped DEF Settles
<1>3. /\ answer' \in [Delivery -> {"unsent", "refused", "open", "ok"}]
      /\ answer'[d] # "unsent" /\ \A b \in Delivery \ {d} : answer'[b] = answer[b]
    BY <1>0, <1>2, AnswersTyped
<1>4. IngressTyped'
    BY <1>0, <1>1, <1>2, <1>3 DEF IngressTyped
<1>5. OthersKept(d)
    BY <1>1, <1>2, <1>3 DEF OthersKept
<1>6. HandlerKnows(d)' /\ TakenIsSettled(d)'
    BY <1>1, <1>2 DEF HandlerKnows, TakenIsSettled, NotHandled
<1> QED
    BY <1>4, <1>5, <1>6, OneDelivery

(* The answer asks for the delivery again; its row is received.            *)
LEMMA RefusedKept ==
  ASSUME IngressInv, OperationsStand, NEW d \in Delivery,
         answer[d] # "unsent", Done(d, "refused"),
         rows' = rows \/ rows' = [rows EXCEPT ![d] = "received"],
         UNCHANGED <<what, links, upInbox, launched, wired, overlapped>>
  PROVE  IngressInv'
<1>0. IngressTyped /\ TakenIsSettled(d)
    BY DEF IngressInv
<1>1. /\ rows' \in [Delivery -> {"none", "received", "done", "failed", "unsupported"}]
      /\ rows'[d] = rows[d] \/ rows'[d] = "received"
      /\ \A b \in Delivery \ {d} : rows'[b] = rows[b]
    BY <1>0 DEF IngressTyped
<1>2. /\ handling' \in [Delivery -> {NotHandled} \cup Handling]
      /\ handling'[d] = NotHandled /\ Answers(d, "refused")
      /\ \A b \in Delivery \ {d} : handling'[b] = handling[b]
    BY <1>0, DoneTyped
<1>3. /\ answer' \in [Delivery -> {"unsent", "refused", "open", "ok"}]
      /\ answer'[d] = (IF d \in overlapped THEN answer[d] ELSE "refused")
      /\ \A b \in Delivery \ {d} : answer'[b] = answer[b]
    BY <1>0, <1>2, AnswersTyped
<1>4. IngressTyped'
    BY <1>0, <1>1, <1>2, <1>3 DEF IngressTyped
<1>5. OthersKept(d)
    BY <1>1, <1>2, <1>3 DEF OthersKept
<1>6. HandlerKnows(d)'
    BY <1>1, <1>2 DEF HandlerKnows, NotHandled
<1>7. TakenIsSettled(d)'
    BY <1>0, <1>1, <1>3 DEF TakenIsSettled
<1> QED
    BY <1>4, <1>5, <1>6, <1>7, OneDelivery

(* The handler goes on to another of its awaits.                           *)
LEMMA ReachKept ==
  ASSUME IngressInv, OperationsStand, NEW d \in Delivery, NEW point \in HandlerPoint,
         NEW closes \in SUBSET Operation,
         answer[d] # "unsent", answer'[d] # "unsent", Reach(d, point, closes),
         rows' = [rows EXCEPT ![d] = "received"],
         (rows[d] = "received" /\ answer' = answer) \/ answer' = [answer EXCEPT ![d] = "open"],
         upInbox' = upInbox \/ \E named \in SUBSET Operation :
            /\ upInbox' = upInbox \cup {[delivery |-> d, closes |-> named]}
            /\ what[d] = "opened" => Named(d, named),
         launched' \in {launched, launched \cup {d}},
         UNCHANGED <<what, links, wired, overlapped>>,
         point = "asking" => what[d] = "command",
         what[d] = "opened" /\ point \in {"launching", "admitting"} => Named(d, closes),
         point = "admitted" => \E event \in upInbox' : event.delivery = d
  PROVE  IngressInv'
<1>0. IngressTyped /\ TakenIsSettled(d)
    BY DEF IngressInv
<1>1. /\ rows' \in [Delivery -> {"none", "received", "done", "failed", "unsupported"}]
      /\ rows'[d] = "received" /\ \A b \in Delivery \ {d} : rows'[b] = rows[b]
    BY <1>0 DEF IngressTyped
<1>2. /\ handling' \in [Delivery -> {NotHandled} \cup Handling]
      /\ handling'[d] = [at |-> point, closes |-> closes]
      /\ \A b \in Delivery \ {d} : handling'[b] = handling[b]
    BY <1>0, ReachTyped
<1>3. /\ answer' \in [Delivery -> {"unsent", "refused", "open", "ok"}]
      /\ (rows[d] = "received" /\ answer'[d] = answer[d]) \/ answer'[d] = "open"
      /\ \A b \in Delivery \ {d} : answer'[b] = answer[b]
    BY <1>0 DEF IngressTyped
<1>4. upInbox \subseteq upInbox' /\ upInbox' \subseteq Event
    BY <1>0 DEF IngressTyped, Event
<1>5. \A event \in upInbox' \ upInbox :
        event.delivery = d /\ (what[d] = "opened" => Named(d, event.closes))
    OBVIOUS
<1>6. IngressTyped'
    BY <1>0, <1>1, <1>2, <1>3, <1>4 DEF IngressTyped
<1>7. OthersKept(d)
    BY <1>1, <1>2, <1>3, <1>4, <1>5 DEF OthersKept
<1>8. HandlerKnows(d)'
    BY <1>1, <1>2 DEF HandlerKnows, Named, OperationsStand
<1>9. TakenIsSettled(d)'
    BY <1>0, <1>1, <1>3 DEF TakenIsSettled
<1> QED
    BY <1>6, <1>7, <1>8, <1>9, OneDelivery

-----------------------------------------------------------------------------
(* One step at a time.                                                     *)

LEMMA StartsKept ==
  ASSUME OperationsInv, IngressInv, OperationsStand, NEW d \in Delivery, Starts(d),
         answer[d] # "unsent", UNCHANGED <<what, links, upInbox, launched, wired, overlapped>>
  PROVE  IngressInv'
<1> DEFINE waits == HasPendingCreate /\ CompletedOf(links[d]) # links[d]
           point == CASE what[d] = "command" -> "asking"
                      [] what[d] \in {"opened", "ready"} -> "launching"
                      [] OTHER -> "admitting"
           closes == IF what[d] = "opened" THEN CompletedOf(links[d]) ELSE {}
<1>0. IngressTyped
    BY DEF IngressInv
<1>1. CASE what[d] = "other"
    BY <1>1, SettlesKept DEF Starts
<1>2. CASE what[d] = "opened" /\ waits
    BY <1>2, RefusedKept DEF Starts
<1>3. CASE what[d] # "other" /\ ~(what[d] = "opened" /\ waits)
  <2>1. /\ rows' = [rows EXCEPT ![d] = "received"] /\ answer' = [answer EXCEPT ![d] = "open"]
        /\ Reach(d, point, closes)
      BY <1>3 DEF Starts
  <2>2. what[d] = "opened" => Named(d, closes) /\ closes \in SUBSET Operation
      BY <1>3, StartNames
  <2>3. closes \in SUBSET Operation
      BY <2>2
  <2>4. point \in HandlerPoint /\ (point = "asking" => what[d] = "command") /\ point # "admitted"
      BY DEF HandlerPoint
  <2>5. answer'[d] # "unsent"
      BY <1>0, <2>1 DEF IngressTyped
  <2> HIDE DEF waits, point, closes
  <2> QED
      BY <2>1, <2>2, <2>3, <2>4, <2>5, ReachKept
<1> QED
    BY <1>1, <1>2, <1>3

LEMMA ArrivesKept ==
  ASSUME OperationsInv, IngressInv, OperationsStand, NEW d \in Delivery, Arrives(d),
         answer[d] # "unsent", UNCHANGED <<what, links>>
  PROVE  IngressInv'
<1>0. IngressTyped /\ HandlerKnows(d) /\ TakenIsSettled(d)
    BY DEF IngressInv
<1>1. CASE InFlight(d) \/ SettledBefore(d)
  <2>1. /\ answer' = [answer EXCEPT ![d] = "ok"]
        /\ overlapped' = IF InFlight(d) THEN overlapped \cup {d} ELSE overlapped
        /\ UNCHANGED <<rows, handling, upInbox, launched, wired>>
      BY <1>1 DEF Arrives
  <2>2. IngressTyped'
      BY <1>0, <2>1 DEF IngressTyped
  <2>3. OthersKept(d)
      BY <1>0, <2>1 DEF OthersKept, IngressTyped
  <2>4. HandlerKnows(d)'
      BY <1>0, <2>1 DEF HandlerKnows, Named, OperationsStand
  <2>5. TakenIsSettled(d)'
      BY <1>0, <1>1, <2>1 DEF TakenIsSettled, InFlight, SettledBefore
  <2> QED
      BY <2>2, <2>3, <2>4, <2>5, OneDelivery
<1>2. CASE ~(InFlight(d) \/ SettledBefore(d))
    BY <1>2, StartsKept DEF Arrives
<1> QED
    BY <1>1, <1>2

LEMMA SendsKept ==
  ASSUME IngressInv, OperationsStand, NEW d \in Delivery, Sends(d)
  PROVE  IngressInv'
<1>0. /\ IngressTyped /\ LinkedIsFiled /\ UnsentIsUnknown /\ EveryClosedIssueNamed
      /\ \A b \in Delivery : HandlerKnows(b) /\ TakenIsSettled(b)
    BY DEF IngressInv
<1>1. PICK linked \in SUBSET Issue :
        /\ links' = [links EXCEPT ![d] = linked]
        /\ \A n \in linked \cap Operation : Creates(n) /\ hits[n] > 0
    BY HumanAssumption DEF Sends, Issue
<1>2. /\ answer[d] = "unsent" /\ answer' = [answer EXCEPT ![d] = "refused"]
      /\ UNCHANGED <<what, rows, handling, upInbox, launched, wired, overlapped>>
    BY DEF Sends
<1>3. IngressTyped'
    BY <1>0, <1>1, <1>2 DEF IngressTyped
<1>4. \A b \in Delivery \ {d} : links'[b] = links[b] /\ answer'[b] = answer[b]
    BY <1>0, <1>1, <1>2 DEF IngressTyped
<1>5. rows[d] = "none" /\ handling[d] = NotHandled /\ \A event \in upInbox : event.delivery # d
    BY <1>0, <1>2 DEF UnsentIsUnknown
<1>6. links'[d] = linked /\ answer'[d] = "refused"
    BY <1>0, <1>1, <1>2 DEF IngressTyped
<1>7. LinkedIsFiled'
    BY <1>0, <1>1, <1>4, <1>6 DEF LinkedIsFiled, OperationsStand, Creates
<1>8. UnsentIsUnknown'
    BY <1>0, <1>2, <1>4, <1>6 DEF UnsentIsUnknown
<1>9. ASSUME NEW b \in Delivery PROVE HandlerKnows(b)' /\ TakenIsSettled(b)'
  <2>1. CASE b = d
      BY <1>2, <1>5, <1>6, <2>1 DEF HandlerKnows, TakenIsSettled, NotHandled
  <2>2. CASE b # d
      BY <1>0, <1>2, <1>4, <2>2 DEF HandlerKnows, TakenIsSettled, Named, OperationsStand
  <2> QED
      BY <2>1, <2>2
<1>10. EveryClosedIssueNamed'
    BY <1>0, <1>2, <1>4, <1>5 DEF EveryClosedIssueNamed, OperationsStand, IngressTyped, Event
<1> QED
    BY <1>3, <1>7, <1>8, <1>9, <1>10 DEF IngressInv

(* A handler at work has a row that is received.                           *)
LEMMA WorksOn ==
  ASSUME IngressInv, NEW d \in Delivery, handling[d].at # "idle"
  PROVE  /\ handling[d] \in Handling /\ rows[d] = "received" /\ answer[d] # "unsent"
         /\ rows = [rows EXCEPT ![d] = "received"]
<1>1. handling[d] \in Handling /\ handling[d] # NotHandled /\ IngressTyped
    BY HandlerWorks DEF IngressInv
<1>2. rows[d] = "received"
    BY <1>1 DEF IngressInv, HandlerKnows
<1> QED
    BY <1>1, <1>2 DEF IngressInv, UnsentIsUnknown, IngressTyped

LEMMA AskedKept ==
  ASSUME IngressInv, OperationsStand, NEW d \in Delivery, Asked(d)
  PROVE  IngressInv'
<1>1. /\ handling[d] \in Handling /\ rows[d] = "received" /\ answer[d] # "unsent"
      /\ rows = [rows EXCEPT ![d] = "received"] /\ handling[d].at = "asking"
    BY WorksOn DEF Asked, At
<1>2. what[d] = "command"
    BY <1>1 DEF IngressInv, HandlerKnows
<1>3. UNCHANGED <<what, links, upInbox, launched, wired, overlapped>>
    BY DEF Asked
<1>4. ASSUME NEW status \in {"unsupported", "failed"}, Settles(d, status) PROVE IngressInv'
    BY <1>1, <1>3, <1>4, SettlesKept
<1>5. ASSUME Reach(d, "launching", {}), UNCHANGED <<rows, answer>> PROVE IngressInv'
  <2>1. rows' = [rows EXCEPT ![d] = "received"] /\ answer' = answer /\ answer'[d] # "unsent"
      BY <1>1, <1>5
  <2>2. "launching" \in HandlerPoint /\ {} \in SUBSET Operation
      BY DEF HandlerPoint
  <2> QED
      BY <1>1, <1>2, <1>3, <1>5, <2>1, <2>2, ReachKept
<1> QED
    BY <1>4, <1>5 DEF Asked

LEMMA LaunchedKept ==
  ASSUME IngressInv, OperationsStand, NEW d \in Delivery, Launched(d)
  PROVE  IngressInv'
<1>1. /\ handling[d] \in Handling /\ rows[d] = "received" /\ answer[d] # "unsent"
      /\ rows = [rows EXCEPT ![d] = "received"] /\ handling[d].at = "launching"
    BY WorksOn DEF Launched, At
<1>2. PICK success \in BOOLEAN :
        /\ launched' = IF success THEN launched \cup {d} ELSE launched
        /\ IF what[d] = "opened"
           THEN Reach(d, "admitting", handling[d].closes) /\ UNCHANGED <<rows, answer>>
           ELSE Settles(d, IF success THEN "done" ELSE "failed")
    BY DEF Launched
<1>3. UNCHANGED <<what, links, upInbox, wired, overlapped>>
    BY DEF Launched
<1>4. launched' \in {launched, launched \cup {d}}
    BY <1>2
<1>5. CASE what[d] = "opened"
  <2>1. PICK closes \in SUBSET Operation : closes = handling[d].closes /\ Named(d, closes)
      BY <1>1, <1>5 DEF Handling, IngressInv, HandlerKnows
  <2>2. rows' = [rows EXCEPT ![d] = "received"] /\ answer' = answer /\ answer'[d] # "unsent"
      BY <1>1, <1>2, <1>5
  <2>3. "admitting" \in HandlerPoint /\ Reach(d, "admitting", closes)
      BY <1>2, <1>5, <2>1 DEF HandlerPoint
  <2> QED
      BY <1>1, <1>3, <1>4, <2>1, <2>2, <2>3, ReachKept
<1>6. CASE what[d] # "opened"
  <2>1. PICK status \in {"done", "failed", "unsupported"} :
          Settles(d, status) /\ (status = "done" => d \in launched')
      BY <1>2, <1>6
  <2> QED
      BY <1>1, <1>3, <1>4, <2>1, SettlesKept
<1> QED
    BY <1>5, <1>6

LEMMA AdmitsKept ==
  ASSUME IngressInv, OperationsStand, NEW d \in Delivery, Admits(d)
  PROVE  IngressInv'
<1>1. /\ handling[d] \in Handling /\ rows[d] = "received" /\ answer[d] # "unsent"
      /\ rows = [rows EXCEPT ![d] = "received"] /\ handling[d].at = "admitting"
    BY WorksOn DEF Admits, At
<1>2. UNCHANGED <<what, links, launched, wired, overlapped>>
    BY DEF Admits
<1>3. CASE Deferred(d) /\ UNCHANGED upInbox
    BY <1>1, <1>2, <1>3, RefusedKept DEF Deferred
<1>4. CASE /\ upInbox' = upInbox \cup {[delivery |-> d, closes |-> handling[d].closes]}
           /\ Reach(d, "admitted", {}) /\ UNCHANGED <<rows, answer>>
  <2>1. PICK named \in SUBSET Operation : named = handling[d].closes /\ (what[d] = "opened" => Named(d, named))
      BY <1>1 DEF Handling, IngressInv, HandlerKnows
  <2>2. /\ upInbox' = upInbox \cup {[delivery |-> d, closes |-> named]}
        /\ what[d] = "opened" => Named(d, named)
      BY <1>4, <2>1
  <2>3. rows' = [rows EXCEPT ![d] = "received"] /\ answer' = answer /\ answer'[d] # "unsent"
      BY <1>1, <1>4
  <2>4. \E event \in upInbox' : event.delivery = d
    <3>1. [delivery |-> d, closes |-> named] \in upInbox' /\ [delivery |-> d, closes |-> named].delivery = d
        BY <2>2
    <3> QED
        BY <3>1
  <2>5. "admitted" \in HandlerPoint /\ {} \in SUBSET Operation
      BY DEF HandlerPoint
  <2> QED
      BY <1>1, <1>2, <1>4, <2>2, <2>3, <2>4, <2>5, ReachKept
<1> QED
    BY <1>3, <1>4 DEF Admits

LEMMA AdmissionSettlesKept ==
  ASSUME IngressInv, OperationsStand, NEW d \in Delivery, AdmissionSettles(d)
  PROVE  IngressInv'
<1>1. answer[d] # "unsent" /\ handling[d].at = "admitted"
    BY WorksOn DEF AdmissionSettles, At
<1>2. \E event \in upInbox : event.delivery = d
    BY <1>1 DEF IngressInv, HandlerKnows
<1>3. Settles(d, "done") /\ UNCHANGED <<what, links, upInbox, launched, wired, overlapped>>
    BY DEF AdmissionSettles
<1> QED
    BY <1>1, <1>2, <1>3, SettlesKept

LEMMA FailuresKept ==
  ASSUME IngressInv, OperationsStand, NEW d \in Delivery, AdmissionFails(d) \/ LedgerFails(d)
  PROVE  IngressInv'
<1>1. CASE AdmissionFails(d)
  <2>1. answer[d] # "unsent"
      BY <1>1, WorksOn DEF AdmissionFails, At
  <2> QED
      BY <1>1, <2>1, SettlesKept DEF AdmissionFails
<1>2. CASE LedgerFails(d)
  <2>1. answer[d] # "unsent"
      BY <1>2 DEF LedgerFails, InFlight, IngressInv, UnsentIsUnknown
  <2> QED
      BY <1>2, <2>1, RefusedKept DEF LedgerFails
<1> QED
    BY <1>1, <1>2

(* What does not touch the deliveries.                                     *)
LEMMA DeliveriesRest ==
  ASSUME IngressInv, OperationsStand, wired' \in BOOLEAN,
         UNCHANGED <<what, links, rows, handling, answer, upInbox, launched, overlapped>>
  PROVE  IngressInv'
<1>1. IngressTyped' /\ UnsentIsUnknown'
    BY DEF IngressInv, IngressTyped, UnsentIsUnknown
<1>2. LinkedIsFiled'
    BY DEF IngressInv, LinkedIsFiled, OperationsStand, Creates
<1>3. \A d \in Delivery : HandlerKnows(d)' /\ TakenIsSettled(d)'
    BY DEF IngressInv, HandlerKnows, TakenIsSettled, Named, OperationsStand
<1>4. EveryClosedIssueNamed'
    BY DEF IngressInv, EveryClosedIssueNamed, OperationsStand
<1> QED
    BY <1>1, <1>2, <1>3, <1>4 DEF IngressInv

LEMMA HostDiesKept ==
  ASSUME IngressInv, OperationsStand, HostDies
  PROVE  IngressInv'
<1>0. /\ IngressTyped /\ LinkedIsFiled /\ UnsentIsUnknown /\ EveryClosedIssueNamed
      /\ \A b \in Delivery : HandlerKnows(b) /\ TakenIsSettled(b)
    BY DEF IngressInv
<1>1. /\ handling' = [d \in Delivery |-> NotHandled] /\ answer' = CutOff /\ wired' = FALSE
      /\ UNCHANGED <<what, links, rows, upInbox, launched, overlapped>>
    BY DEF HostDies
<1>2. /\ answer' \in [Delivery -> {"unsent", "refused", "open", "ok"}]
      /\ \A d \in Delivery : (answer'[d] = "unsent" <=> answer[d] = "unsent") /\ (answer'[d] = "ok" => answer[d] = "ok")
    BY <1>0, <1>1 DEF CutOff, IngressTyped
<1>3. IngressTyped'
    BY <1>0, <1>1, <1>2 DEF IngressTyped
<1>4. LinkedIsFiled' /\ UnsentIsUnknown'
    BY <1>0, <1>1, <1>2 DEF LinkedIsFiled, UnsentIsUnknown, OperationsStand, Creates
<1>5. \A d \in Delivery : HandlerKnows(d)' /\ TakenIsSettled(d)'
    BY <1>0, <1>1, <1>2 DEF HandlerKnows, TakenIsSettled, NotHandled
<1>6. EveryClosedIssueNamed'
    BY <1>0, <1>1 DEF EveryClosedIssueNamed, OperationsStand
<1> QED
    BY <1>3, <1>4, <1>5, <1>6 DEF IngressInv

LEMMA IngressKept ==
  ASSUME OperationsInv, IngressInv, [GitHubNext]_allVars
  PROVE  OperationsInv' /\ IngressInv'
<1>0. OperationsInv' /\ OperationsStand /\ wired \in BOOLEAN
    BY OperationsBeside DEF IngressInv, IngressTyped
<1>1. ASSUME NEW d \in Delivery, Redelivers(d) \/ Overlaps(d) PROVE IngressInv'
    BY <1>0, <1>1, ArrivesKept DEF Redelivers, Overlaps
<1>2. ASSUME NEW d \in Delivery, HandlerStep(d) PROVE IngressInv'
    BY <1>0, <1>2, AskedKept, LaunchedKept, AdmitsKept, AdmissionSettlesKept DEF HandlerStep
<1>3. ASSUME NEW d \in Delivery, Sends(d) \/ AdmissionFails(d) \/ LedgerFails(d) PROVE IngressInv'
    BY <1>0, <1>3, SendsKept, FailuresKept
<1>4. CASE UNCHANGED allVars \/ OperationsStep \/ HostBoots
    BY <1>0, <1>4, DeliveriesRest DEF allVars, ingressVars, OperationsStep, HostBoots
<1>5. CASE Wires \/ SessionEnds
    BY <1>0, <1>5, DeliveriesRest DEF Wires, SessionEnds
<1>6. CASE HostDies
    BY <1>0, <1>6, HostDiesKept
<1> QED
    BY <1>0, <1>1, <1>2, <1>3, <1>4, <1>5, <1>6 DEF GitHubNext, IngressNext

LEMMA InvariantIsFaithful == IngressInv => IngressIsFaithful
<1> SUFFICES ASSUME IngressInv PROVE IngressIsFaithful
    OBVIOUS
<1>1. IngressTypeOK
    BY DEF IngressInv, IngressTyped, IngressTypeOK, HandlerKnows, InFlight, Handling, HandlerPoint, Event
<1>2. TakenIsAccountedFor
    BY DEF IngressInv, TakenIsSettled, TakenIsAccountedFor
<1> QED
    BY <1>1, <1>2 DEF IngressInv, IngressIsFaithful

(* The invariant of the webhooks beside the operations, over any number of *)
(* deliveries, repetitions, deferrals and deaths (ingress.ts:188-530).     *)
THEOREM IngressInvariant == GitHubSpec => [](OperationsInv /\ IngressInv)
<1>1. OperationsInit /\ IngressInit => OperationsInv /\ IngressInv
    BY InitOperations, InitIngress
<1>2. (OperationsInv /\ IngressInv) /\ [GitHubNext]_allVars => (OperationsInv /\ IngressInv)'
    BY IngressKept
<1> QED
    BY <1>1, <1>2, PTL DEF GitHubSpec

(* What GitHub was told is taken is settled, being handled or was repeated *)
(* meanwhile, and the Brain is told of every issue of its own that a pull  *)
(* request closes (ingress.ts:434-529, operation-store.ts:297-302).        *)
THEOREM IngressIsFaithfulAlways == GitHubSpec => []IngressIsFaithful
<1>1. IngressInv => IngressIsFaithful
    BY InvariantIsFaithful
<1> QED
    BY <1>1, IngressInvariant, PTL

===============================================================================
