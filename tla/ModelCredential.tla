---------------------------- MODULE ModelCredential ----------------------------
(***************************************************************************)
(* The managed ChatGPT credential: authenticate and authorization          *)
(* (engine/src/model/chatgpt-authentication.ts) over one of its two        *)
(* stores, the private file of an installation or the database of a tenant *)
(* (installation/src/tenant-credentials.ts).                               *)
(*                                                                         *)
(* An expired credential is exchanged at the provider for its successor,   *)
(* and a refresh token is good for one exchange. So whoever refreshes must *)
(* keep others from presenting the same token, across an await of the      *)
(* provider, and must not lose the successor. The calls of one process     *)
(* queue on a chain of promises; the tenant's database also has a lease    *)
(* that other processes respect, which runs out when its holder does not   *)
(* renew it: the process died, or its event loop was held up.              *)
(*                                                                         *)
(* Time passes in heartbeats of the lease. The clock of the access tokens  *)
(* is the step ExpireCredential. The file of an earlier version and its    *)
(* migration, malformed credentials, the message inspect remembers, and    *)
(* delete, which nothing calls, are left out.                              *)
(*                                                                         *)
(* SaveUnleased and AcquireReleased are faulty variants that nothing uses. *)
(***************************************************************************)
EXTENDS Naturals, Sequences, FiniteSets

CONSTANTS
  Process,   \* processes that use the store
  Call,      \* calls of authorization or authenticate
  ProcessOf, \* the process that makes each call
  MaxIssued, \* bounds the credentials the provider issues
  Lease,     \* heartbeats a lease lasts
  MaxKills,  \* bounds the deaths of processes
  MaxAborts, \* bounds the calls whose signal is aborted
  NoCall     \* no call

ASSUME CredentialConstants ==
  /\ NoCall \notin Call
  /\ ProcessOf \in [Call -> Process]
  /\ MaxIssued \in Nat \ {0}
  /\ Lease \in Nat \ {0}
  /\ MaxKills \in Nat
  /\ MaxAborts \in Nat

VARIABLES
  storage,   \* "file" or "tenant", where this installation keeps the credential
  stored,    \* durable: the credential in the store, 0 for none
  lease,     \* durable: the owner of the lease, and the heartbeats it has left
  issued,    \* at the provider: how many credentials it issued
  usable,    \* at the provider: the credentials whose refresh token is good
  expired,   \* the credentials whose access token has expired
  chain,     \* the calls of each process in the order they queued
  step,      \* how far each call is
  seen,      \* the credential each call read
  next,      \* the credential each call wants to store
  doomed,    \* the calls whose heartbeat failed
  aborted,   \* the calls whose signal is aborted
  answer,    \* what each call returned: "none" yet, "ok", "failed", "died"
  presented, \* history: how often each refresh token was presented
  slipped,   \* history: the credentials somebody failed to refresh, or lost the lease over
  everSaved, \* history: the credentials that have been in the store
  kills      \* history: deaths so far

provider == <<issued, usable, expired, presented>>
callVars == <<chain, step, seen, next, doomed, aborted, answer>>
credentialVars ==
  <<storage, stored, lease, provider, callVars, slipped, everSaved, kills>>

Credential == 1..MaxIssued
Step == {"idle", "queued", "reading", "refreshing", "answered", "saving",
         "releasing", "abandoning", "done"}

CredentialInitAt(where) ==
  /\ storage = where
  /\ stored = 1
  /\ lease = [owner |-> NoCall, left |-> 0]
  /\ issued = 1
  /\ usable = {1}
  /\ expired = {}
  /\ chain = [p \in Process |-> <<>>]
  /\ step = [c \in Call |-> "idle"]
  /\ seen = [c \in Call |-> 0]
  /\ next = [c \in Call |-> 0]
  /\ doomed = {}
  /\ aborted = {}
  /\ answer = [c \in Call |-> "none"]
  /\ presented = [n \in Credential |-> 0]
  /\ slipped = {}
  /\ everSaved = {1}
  /\ kills = 0

Leased == storage = "tenant"
Holds(c) == Leased => lease.owner = c /\ lease.left > 0
InTurn(c) == chain[ProcessOf[c]] # <<>> /\ Head(chain[ProcessOf[c]]) = c

Go(c, to) == step' = [step EXCEPT ![c] = to]
Queue(c) == chain' = [chain EXCEPT ![ProcessOf[c]] = Append(@, c)]

(* The call is over, and the next one of its process may begin. A caller   *)
(* that aborted has its answer already.                                    *)
Leave(c, how) ==
  /\ Go(c, "done")
  /\ chain' = [chain EXCEPT ![ProcessOf[c]] = Tail(@)]
  /\ answer' = [answer EXCEPT ![c] = IF @ = "none" THEN how ELSE @]

-----------------------------------------------------------------------------
(* The calls.                                                              *)

(* authorization reads the store first. A credential that has not expired  *)
(* is used as it is; an expired one is refreshed through the store.        *)
Authorize(c) ==
  /\ step[c] = "idle"
  /\ seen' = [seen EXCEPT ![c] = stored]
  /\ IF stored \in expired
     THEN Go(c, "queued") /\ Queue(c) /\ UNCHANGED answer
     ELSE /\ Go(c, "done")
          /\ answer' = [answer EXCEPT ![c] = "ok"]
          /\ UNCHANGED chain
  /\ UNCHANGED <<storage, stored, lease, provider, next, doomed, aborted, slipped, everSaved, kills>>

(* authenticate: the user has entered the device code, and the new         *)
(* credential replaces whatever the store holds.                           *)
Authenticate(c) ==
  /\ step[c] = "idle"
  /\ issued < MaxIssued
  /\ issued' = issued + 1
  /\ usable' = usable \cup {issued'}
  /\ next' = [next EXCEPT ![c] = issued']
  /\ Go(c, "queued") /\ Queue(c)
  /\ UNCHANGED <<storage, stored, lease, expired, presented, seen, doomed, aborted, answer,
                 slipped, everSaved, kills>>

(* The turn of the call has come in its process, and no other process has  *)
(* an unexpired lease. The owner of a lease that ran out is not told.      *)
Starts(c, free) ==
  /\ step[c] = "queued"
  /\ InTurn(c)
  /\ c \notin aborted
  /\ Leased => free
  /\ lease' = IF Leased THEN [owner |-> c, left |-> Lease] ELSE lease
  /\ slipped' = IF Leased /\ lease.owner # NoCall THEN slipped \cup {seen[lease.owner]} ELSE slipped
  /\ Go(c, IF next[c] = 0 THEN "reading" ELSE "saving")
  /\ UNCHANGED <<storage, stored, provider, chain, seen, next, doomed, aborted, answer, everSaved, kills>>
AcquireReleased(c) == Starts(c, lease.owner = NoCall)
Acquire(c) == Starts(c, lease.left = 0)

AbortedWaiting(c) ==
  /\ step[c] = "queued"
  /\ InTurn(c)
  /\ c \in aborted
  /\ Leave(c, "failed")
  /\ UNCHANGED <<storage, stored, lease, provider, seen, next, doomed, aborted, slipped, everSaved, kills>>

(* The credential is read again now: somebody may have refreshed it. A     *)
(* call whose lease ran out meanwhile is not told here either.             *)
Reads(c, latest) ==
  /\ step[c] = "reading"
  /\ seen' = [seen EXCEPT ![c] = latest]
  /\ Go(c, IF latest \in expired THEN "refreshing" ELSE "releasing")
  /\ slipped' = IF Leased /\ lease.owner # c THEN slipped \cup {latest} ELSE slipped
  /\ UNCHANGED <<storage, stored, lease, provider, chain, next, doomed, aborted, answer,
                 everSaved, kills>>
ReadLatest(c) == Reads(c, stored)

(* The provider issues the successor of a good refresh token once. Its     *)
(* answer, or the request, may be lost.                                    *)
Present(c) ==
  /\ step[c] = "refreshing"
  /\ issued < MaxIssued
  /\ presented' = [presented EXCEPT ![seen[c]] = @ + 1]
  /\ IF seen[c] \in usable
     THEN /\ issued' = issued + 1
          /\ usable' = (usable \ {seen[c]}) \cup {issued'}
          /\ \/ Go(c, "answered") /\ next' = [next EXCEPT ![c] = issued']
             \/ Go(c, "abandoning") /\ UNCHANGED next
     ELSE /\ Go(c, "abandoning")
          /\ UNCHANGED <<issued, usable, next>>
  /\ UNCHANGED <<storage, stored, lease, expired, chain, seen, doomed, aborted, answer,
                 slipped, everSaved, kills>>
RefreshFails(c) ==
  /\ step[c] = "refreshing"
  /\ Go(c, "abandoning")
  /\ UNCHANGED <<storage, stored, lease, provider, chain, seen, next, doomed, aborted, answer,
                 slipped, everSaved, kills>>

(* The tenant's store looks at the signal once more, and stops the         *)
(* heartbeat, which tells it when the lease was lost. The file's store     *)
(* goes on.                                                                *)
Finish(c) ==
  /\ step[c] = "answered"
  /\ Go(c, IF Leased /\ (c \in aborted \/ c \in doomed) THEN "abandoning" ELSE "saving")
  /\ UNCHANGED <<storage, stored, lease, provider, chain, seen, next, doomed, aborted, answer,
                 slipped, everSaved, kills>>

(* One statement of the tenant's database writes the credential where the  *)
(* lease is still held; one rename replaces the file.                      *)
Saves(c, held) ==
  /\ step[c] = "saving"
  /\ IF held
     THEN /\ stored' = next[c]
          /\ everSaved' = everSaved \cup {next[c]}
          /\ Go(c, "releasing")
     ELSE /\ Go(c, "abandoning")
          /\ UNCHANGED <<stored, everSaved>>
  /\ UNCHANGED <<storage, lease, provider, chain, seen, next, doomed, aborted, answer, slipped, kills>>
SaveUnleased(c) == Saves(c, TRUE)
Save(c) == Saves(c, Holds(c))
SaveFails(c) ==
  /\ step[c] = "saving"
  /\ Go(c, "abandoning")
  /\ UNCHANGED <<storage, stored, lease, provider, chain, seen, next, doomed, aborted, answer,
                 slipped, everSaved, kills>>

(* A call whose lease ran out fails here although its credential was saved.*)
Release(c) ==
  /\ step[c] = "releasing"
  /\ IF Holds(c) /\ (Leased => c \notin doomed)
     THEN /\ lease' = IF Leased THEN [owner |-> NoCall, left |-> 0] ELSE lease
          /\ Leave(c, "ok")
     ELSE /\ Go(c, "abandoning")
          /\ UNCHANGED <<lease, chain, answer>>
  /\ UNCHANGED <<storage, stored, provider, seen, next, doomed, aborted, slipped, everSaved, kills>>

Abandon(c) ==
  /\ step[c] = "abandoning"
  /\ lease' = IF lease.owner = c THEN [owner |-> NoCall, left |-> 0] ELSE lease
  /\ slipped' = slipped \cup {seen[c]}
  /\ Leave(c, "failed")
  /\ UNCHANGED <<storage, stored, provider, seen, next, doomed, aborted, everSaved, kills>>

-----------------------------------------------------------------------------
(* The heartbeat, the clocks, and what may go wrong.                       *)

(* It renews a lease that has run out too, if nobody else has it.          *)
Heartbeat(c) ==
  /\ Leased
  /\ step[c] \in {"reading", "refreshing", "answered"}
  /\ c \notin doomed
  /\ IF lease.owner = c
     THEN lease.left < Lease /\ lease' = [lease EXCEPT !.left = Lease] /\ UNCHANGED doomed
     ELSE doomed' = doomed \cup {c} /\ UNCHANGED lease
  /\ UNCHANGED <<storage, stored, provider, chain, step, seen, next, aborted, answer,
                 slipped, everSaved, kills>>

LeaseRunsDown ==
  /\ lease.left > 0
  /\ lease' = [lease EXCEPT !.left = @ - 1]
  /\ UNCHANGED <<storage, stored, provider, callVars, slipped, everSaved, kills>>

ExpireCredential ==
  /\ expired' = expired \cup {stored}
  /\ expired' # expired
  /\ UNCHANGED <<storage, stored, lease, issued, usable, presented, callVars, slipped, everSaved, kills>>

(* The caller of authorization is told at once; what the store has begun   *)
(* goes on.                                                                *)
Abort(c) ==
  /\ Cardinality(aborted) < MaxAborts
  /\ step[c] \notin {"idle", "done"}
  /\ c \notin aborted
  /\ aborted' = aborted \cup {c}
  /\ answer' = [answer EXCEPT ![c] = "failed"]
  /\ UNCHANGED <<storage, stored, lease, provider, chain, step, seen, next, doomed,
                 slipped, everSaved, kills>>

Kill(p) ==
  /\ kills < MaxKills
  /\ kills' = kills + 1
  /\ LET lost == {c \in Call : ProcessOf[c] = p /\ step[c] \notin {"idle", "done"}}
     IN  /\ step' = [c \in Call |-> IF c \in lost THEN "done" ELSE step[c]]
         /\ answer' = [c \in Call |-> IF c \in lost /\ answer[c] = "none" THEN "died" ELSE answer[c]]
         /\ slipped' = slipped \cup {seen[c] : c \in lost}
  /\ chain' = [chain EXCEPT ![p] = <<>>]
  /\ UNCHANGED <<storage, stored, lease, provider, seen, next, doomed, aborted, everSaved>>

(* What a call does once it is under way.                                  *)
Proceed(c) ==
  \/ Acquire(c) \/ AbortedWaiting(c) \/ ReadLatest(c)
  \/ Present(c) \/ RefreshFails(c) \/ Finish(c)
  \/ Save(c) \/ SaveFails(c) \/ Release(c) \/ Abandon(c)

CredentialNext ==
  \/ \E c \in Call : Authorize(c) \/ Authenticate(c) \/ Proceed(c) \/ Heartbeat(c) \/ Abort(c)
  \/ \E p \in Process : Kill(p)
  \/ LeaseRunsDown \/ ExpireCredential

(* A call goes on, and time does.                                          *)
CredentialFairness ==
  /\ \A c \in Call : WF_credentialVars(Proceed(c))
  /\ WF_credentialVars(LeaseRunsDown)

(* The calls on a file queue in one process only, and come from one.       *)
CredentialInit ==
  \E where \in {"file", "tenant"} :
    /\ where = "file" => \A c, d \in Call : ProcessOf[c] = ProcessOf[d]
    /\ CredentialInitAt(where)

CredentialSpec ==
  /\ CredentialInit
  /\ [][CredentialNext]_credentialVars
  /\ CredentialFairness

-----------------------------------------------------------------------------
(* Properties.                                                             *)

CredentialTypeOK ==
  /\ storage \in {"file", "tenant"}
  /\ stored \in 1..issued
  /\ lease \in [owner : Call \cup {NoCall}, left : 0..Lease]
  /\ issued \in Credential
  /\ usable \subseteq 1..issued
  /\ expired \subseteq 1..issued
  /\ \A c \in Call : step[c] \in Step /\ seen[c] \in 0..issued /\ next[c] \in 0..issued
  /\ \A p \in Process : \A k \in DOMAIN chain[p] :
       LET c == chain[p][k]
       IN  ProcessOf[c] = p /\ step[c] \notin {"idle", "done"} /\ (k > 1 => step[c] = "queued")
  /\ kills \in 0..MaxKills

(* However many calls of however many processes find the credential        *)
(* expired, its refresh token is presented once; a second time only after  *)
(* a refresh of it came to nothing, or its lease ran out.                  *)
RefreshedOnce ==
  \A n \in 1..issued : presented[n] > 1 => n \in slipped

(* The successor of a credential replaces that credential and no other: a  *)
(* refresh that took too long does not undo a login or a later refresh.    *)
RefreshReplacesItsOwn ==
  [][\A c \in Call :
       stored' # stored /\ step[c] = "saving" /\ step'[c] = "releasing" /\ seen[c] # 0
       => stored = seen[c]]_credentialVars

(* Nobody works with a credential that has not been saved: it would be     *)
(* lost with the process.                                                  *)
AuthorizedMeansSaved ==
  \A c \in Call : answer[c] = "ok" => (IF next[c] = 0 THEN seen[c] ELSE next[c]) \in everSaved

(* Every call is answered, also when the process that holds the lease      *)
(* dies.                                                                   *)
EveryCallAnswered ==
  \A c \in Call : step[c] # "idle" ~> step[c] = "done"

(* The life of the credential, in one property.                            *)
CredentialIsSound ==
  /\ [](CredentialTypeOK /\ RefreshedOnce /\ AuthorizedMeansSaved)
  /\ RefreshReplacesItsOwn
=============================================================================
