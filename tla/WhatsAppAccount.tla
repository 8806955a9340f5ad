---------------------------- MODULE WhatsAppAccount ----------------------------
(***************************************************************************)
(* The WhatsApp account between the provider's session and its users:      *)
(* authentication, joined by every caller that comes while it runs and     *)
(* aborted by the signal of the first one alone; the chain of conversation *)
(* batches, archived one after another; the callers that wait for the      *)
(* first batch or for the initial archive; the smoke canary's message,     *)
(* which the provider may report before its send resolves; and stop. The   *)
(* changes it sends and hears are EchoMatching's. The session comes online *)
(* once.                                                                   *)
(***************************************************************************)
EXTENDS EchoMatching

CONSTANTS
  Caller,     \* of authenticate
  Batch,      \* conversation batches, in the provider's order
  OnlineLink, \* the link of the chain that the status handler adds
  Nobody

ASSUME AccountConstants == OnlineLink \notin Batch /\ Nobody \notin Caller

VARIABLES
  phase,     \* of the session: off, linking, online, over
  owner,     \* the caller whose call runs the authentication
  asked,     \* each caller: idle, waiting, online, cancelled, ended
  given,     \* batches the provider has delivered
  chain,     \* archiveQueue
  merging,   \* its first link's batch is archived, the subscribers are running
  broken,    \* a link threw: no later one runs
  synced, onlineSeen, ready,
  syncWait, archiveWait, \* a caller of either wait: idle, waiting, ok, failed
  canaryMsg, \* the canary's message: none, sending, echoed, archived, admitted, failed
  stopped,
  written,   \* history: archived batches
  early      \* history: links outstanding when the session came online

syncVars == <<given, chain, merging, broken, synced, onlineSeen, ready, written, early>>
authVars == <<phase, owner, asked>>
accountVars == <<authVars, syncVars, syncWait, archiveWait, canaryMsg, stopped, echoVars>>

(* A new account, or one that is online with everything at rest.           *)
AccountInitAt(live) ==
  /\ phase = (IF live THEN "online" ELSE "off") /\ owner = Nobody
  /\ asked = [c \in Caller |-> IF live THEN "online" ELSE "idle"]
  /\ given = {} /\ chain = <<>> /\ written = {} /\ early = {}
  /\ merging = FALSE /\ broken = FALSE
  /\ synced = FALSE /\ onlineSeen = live /\ ready = live
  /\ syncWait = "idle" /\ archiveWait = "idle"
  /\ canaryMsg = "none" /\ stopped = FALSE
  /\ EchoInit

AccountInit == \E live \in BOOLEAN : AccountInitAt(live)

-----------------------------------------------------------------------------
(* Authentication.                                                         *)

Authenticated == \E c \in Caller : asked[c] = "online"
Answer(what) == asked' = [c \in Caller |-> IF asked[c] = "waiting" THEN what ELSE asked[c]]

Authenticate(c) ==
  /\ asked[c] = "idle" /\ ~stopped
  /\ IF Authenticated THEN asked' = [asked EXCEPT ![c] = "online"] /\ UNCHANGED <<owner, phase>>
     ELSE /\ asked' = [asked EXCEPT ![c] = "waiting"]
          /\ IF owner # Nobody THEN UNCHANGED <<owner, phase>>
             ELSE owner' = c /\ phase' = "linking"
  /\ UNCHANGED <<syncVars, syncWait, archiveWait, canaryMsg, stopped, echoVars>>

AbortOwner ==
  /\ owner # Nobody /\ asked[owner] = "waiting"
  /\ phase' = "off" /\ owner' = Nobody
  /\ Answer("cancelled")
  /\ UNCHANGED <<syncVars, syncWait, archiveWait, canaryMsg, stopped, echoVars>>

(* The session ends for good, or cannot start.                             *)
EndSession ==
  /\ phase = "linking"
  /\ phase' = "over" /\ owner' = Nobody
  /\ Answer("ended")
  /\ UNCHANGED <<syncVars, syncWait, archiveWait, canaryMsg, stopped, echoVars>>

(* Both status handlers.                                                   *)
ComeOnline ==
  /\ phase = "linking" /\ ~stopped
  /\ phase' = "online" /\ owner' = Nobody
  /\ Answer("online")
  /\ onlineSeen' = TRUE
  /\ early' = {chain[i] : i \in 1..Len(chain)}
  /\ chain' = IF broken THEN chain ELSE Append(chain, OnlineLink)
  /\ UNCHANGED <<given, merging, broken, synced, ready, written, syncWait, archiveWait, canaryMsg, stopped, echoVars>>

-----------------------------------------------------------------------------
(* Conversation batches.                                                   *)

DeliverBatch(b) ==
  /\ b \notin given /\ phase # "off" /\ ~stopped
  /\ given' = given \cup {b}
  /\ chain' = IF broken THEN chain ELSE Append(chain, b)
  /\ UNCHANGED <<authVars, merging, broken, synced, onlineSeen, ready, written, early,
                 syncWait, archiveWait, canaryMsg, stopped, echoVars>>

Woken(wait) == IF wait = "waiting" THEN "ok" ELSE wait

(* mergeSync: a batch is archived and the callers that wait for one wake.  *)
MergeBatch ==
  /\ chain # <<>> /\ Head(chain) # OnlineLink /\ ~merging
  /\ merging' = TRUE /\ synced' = TRUE
  /\ written' = written \cup {Head(chain)}
  /\ syncWait' = Woken(syncWait)
  /\ UNCHANGED <<authVars, given, chain, broken, onlineSeen, ready, early, archiveWait, canaryMsg, stopped, echoVars>>

(* The archive, or a subscriber of the batch, throws.                      *)
BreakChain ==
  /\ chain # <<>> /\ Head(chain) # OnlineLink
  /\ broken' = TRUE /\ chain' = <<>> /\ merging' = FALSE
  /\ UNCHANGED <<authVars, given, synced, onlineSeen, ready, written, early,
                 syncWait, archiveWait, canaryMsg, stopped, echoVars>>

SettleArchive ==
  IF ~onlineSeen \/ ready THEN UNCHANGED <<ready, archiveWait>>
  ELSE ready' = TRUE /\ archiveWait' = Woken(archiveWait)

(* A link ends: its batch's subscribers are done, or it is the handler's.  *)
EndLink ==
  /\ chain # <<>> /\ (merging \/ Head(chain) = OnlineLink)
  /\ merging' = FALSE /\ chain' = Tail(chain)
  /\ SettleArchive
  /\ UNCHANGED <<authVars, given, broken, synced, onlineSeen, written, early, syncWait, canaryMsg, stopped, echoVars>>

-----------------------------------------------------------------------------
(* Callers that wait.                                                      *)

WaitForSync ==
  /\ Authenticated /\ syncWait = "idle" /\ ~stopped
  /\ syncWait' = IF synced THEN "ok" ELSE "waiting"
  /\ UNCHANGED <<authVars, syncVars, archiveWait, canaryMsg, stopped, echoVars>>

WaitForArchive ==
  /\ Authenticated /\ archiveWait = "idle" /\ ~stopped
  /\ archiveWait' = IF ready THEN "ok" ELSE "waiting"
  /\ UNCHANGED <<authVars, syncVars, syncWait, canaryMsg, stopped, echoVars>>

(* The minute, or the caller's signal.                                     *)
GiveUpWaiting ==
  /\ \/ syncWait = "waiting" /\ syncWait' = "failed" /\ UNCHANGED archiveWait
     \/ archiveWait = "waiting" /\ archiveWait' = "failed" /\ UNCHANGED syncWait
  /\ UNCHANGED <<authVars, syncVars, canaryMsg, stopped, echoVars>>

(* sendSmokeCanary: the message is archived as the canary's once its send  *)
(* resolves, unless the provider's report of it was archived before.       *)
SendCanary ==
  /\ Authenticated /\ canaryMsg = "none" /\ ~stopped
  /\ canaryMsg' = "sending"
  /\ UNCHANGED <<authVars, syncVars, syncWait, archiveWait, stopped, echoVars>>

HearCanary ==
  /\ canaryMsg = "sending" /\ ~stopped
  /\ canaryMsg' = "echoed"
  /\ UNCHANGED <<authVars, syncVars, syncWait, archiveWait, stopped, echoVars>>

CanaryResolves ==
  /\ canaryMsg \in {"sending", "echoed"}
  /\ canaryMsg' = IF canaryMsg = "sending" THEN "admitted" ELSE "failed"
  /\ UNCHANGED <<authVars, syncVars, syncWait, archiveWait, stopped, echoVars>>

StopAccount ==
  /\ ~stopped
  /\ stopped' = TRUE /\ phase' = "off"
  /\ syncWait' = IF syncWait = "waiting" THEN "failed" ELSE syncWait
  /\ archiveWait' = IF archiveWait = "waiting" THEN "failed" ELSE archiveWait
  /\ expected' = {}
  /\ UNCHANGED <<owner, asked, syncVars, canaryMsg, happened, heard, sending, log, confused>>

Changes == ~stopped /\ Authenticated /\ EchoNext /\ UNCHANGED <<authVars, syncVars, syncWait, archiveWait, canaryMsg, stopped>>

AccountNext ==
  \/ \E c \in Caller : Authenticate(c)
  \/ AbortOwner \/ EndSession \/ ComeOnline
  \/ \E b \in Batch : DeliverBatch(b)
  \/ MergeBatch \/ BreakChain \/ EndLink
  \/ WaitForSync \/ WaitForArchive \/ GiveUpWaiting
  \/ SendCanary \/ HearCanary \/ CanaryResolves \/ StopAccount \/ Changes

AccountSpec == AccountInit /\ [][AccountNext]_accountVars

-----------------------------------------------------------------------------
(* Nobody is told that chats are synchronized before a batch is archived,  *)
(* nor that the initial archive is ready before the session was online and *)
(* every batch delivered before that is archived. The exception is two or  *)
(* more of them outstanding at that moment: the end of the first one then  *)
(* settles the archive, before the others are written.                     *)
WaitersToldTrue ==
  /\ syncWait = "ok" => written # {}
  /\ archiveWait = "ok" => onlineSeen
  /\ ready /\ (\A b, c \in early : b = c) => early \subseteq written

(* A caller is told it is online only by a session that came online, no    *)
(* caller waits for an authentication that nobody runs, and at most one    *)
(* runs: joining callers, an abort and a session that ends never leave one *)
(* behind.                                                                 *)
CallersAnswered ==
  /\ Authenticated => onlineSeen
  /\ (\E c \in Caller : asked[c] = "waiting") => owner # Nobody
  /\ owner # Nobody => asked[owner] = "waiting"

(* What the account says of the provider's state and archives of its       *)
(* changes, in one property.                                               *)
AccountIsTrue == WaitersToldTrue /\ CallersAnswered /\ ArchiveFollowsChat
=============================================================================
