---------------------------- MODULE GitHubIngress ----------------------------
(***************************************************************************)
(* GitHub's webhooks on their way into the Brain's up-inbox.               *)
(* (ingress.ts, ingress-store.ts, ingress-runtime.ts, up-inbox.ts, and the *)
(* channel that answers, apps/runtime/src/channels/github.ts.)             *)
(*                                                                         *)
(* A delivery is claimed in a ledger and handled up to the row's settling; *)
(* between two awaits the process may die, the Brain's inbox may not be    *)
(* there yet, and GitHub may deliver again. A pull request that refers to  *)
(* issues waits for the operations that may be creating them: it reads the *)
(* ledger of IssueOperations.                                              *)
(***************************************************************************)
EXTENDS IssueOperations

CONSTANTS
  Delivery,     \* delivery identifiers
  MaxOverlaps   \* bound: deliveries repeated while the first is being handled

ASSUME IngressAssumption == MaxOverlaps \in Nat

VARIABLES
  what,       \* what each delivery carries
  links,      \* the issues a pull request says it closes
  rows,       \* github_ingress_deliveries
  handling,   \* the handler in flight of each delivery
  answer,     \* what GitHub knows of its last attempt
  upInbox,    \* events the Brain has admitted, with the issues they close
  launched,   \* deliveries whose review was launched
  wired,      \* the up-inbox port is there and its runtime lives
  overlapped  \* history: deliveries repeated while being handled

ingressVars == <<what, links, rows, handling, answer, upInbox, launched, wired, overlapped>>
allVars == <<operationVars, ingressVars>>

\* "event" is an issue opened or a review submitted; "opened" a pull request,
\* which a draft is too, like one whose review could not be launched; "ready"
\* one that becomes ready or moves; "command" a comment that asks for a review;
\* "other" is not for us.
What == {"event", "opened", "ready", "command", "other"}
NotHandled == [at |-> "idle"]
Human == <<"human", 0>>     \* an issue no operation of ours has created
Issue == Operation \cup {Human}

ASSUME HumanAssumption == Human \notin Operation

\* Nothing has been delivered yet.
IngressIdle ==
  /\ links = [d \in Delivery |-> {}]
  /\ rows = [d \in Delivery |-> "none"]
  /\ handling = [d \in Delivery |-> NotHandled]
  /\ answer = [d \in Delivery |-> "unsent"]
  /\ upInbox = {} /\ launched = {}
  /\ overlapped = {}

IngressInit == IngressIdle /\ what \in [Delivery -> What] /\ wired \in BOOLEAN

-----------------------------------------------------------------------------
(* The operations a pull request waits for: correlateCreateIssues. *)

\* A mistake: what is Uncertain is not pending.
OnlyAttempting == {"attempting"}
Unsettled == {"attempting", "uncertain"}

Creates(o) == kind[o[1]] = "filing"
HasPendingCreate == \E o \in Operation : Creates(o) /\ ops[o] \in Unsettled
CompletedOf(linked) == {n \in linked \cap Operation : Creates(n) /\ ops[n] = "completed"}

-----------------------------------------------------------------------------
(* The handler. *)

InFlight(d) == handling[d] # NotHandled
At(d, point) == handling[d].at = point
Reach(d, point, closes) == handling' = [handling EXCEPT ![d] = [at |-> point, closes |-> closes]]

\* GitHub repeats a delivery it has stopped waiting for: then the answer to the
\* first one reaches nobody.
Answers(d, code) == answer' = [answer EXCEPT ![d] = IF d \in overlapped THEN @ ELSE code]

Done(d, code) == handling' = [handling EXCEPT ![d] = NotHandled] /\ Answers(d, code)

\* settle(): the row leaves 'received' once.
Settles(d, status) == rows' = [rows EXCEPT ![d] = status] /\ Done(d, "ok")

\* The part of handle() before its first await.
Starts(d) ==
  LET waits == HasPendingCreate /\ CompletedOf(links[d]) # links[d]
      received == [rows EXCEPT ![d] = "received"]
  IN CASE what[d] = "other" -> Settles(d, "unsupported")
       [] what[d] = "opened" /\ waits -> rows' = received /\ Done(d, "refused")
       [] OTHER ->
            /\ rows' = received
            /\ answer' = [answer EXCEPT ![d] = "open"]
            /\ Reach(d, CASE what[d] = "command" -> "asking"
                          [] what[d] \in {"opened", "ready"} -> "launching"
                          [] OTHER -> "admitting",
                     IF what[d] = "opened" THEN CompletedOf(links[d]) ELSE {})

\* A mistake: a row that was received before is a duplicate.
ClaimedBefore(d) == rows[d] # "none"
SettledBefore(d) == rows[d] \notin {"none", "received"}

\* GitHub delivers, for the first time or again. The same identifier in flight
\* or settled makes it a duplicate, which is answered at once.
Arrives(d) ==
  /\ up
  /\ IF InFlight(d) \/ SettledBefore(d)
     THEN /\ answer' = [answer EXCEPT ![d] = "ok"]
          /\ overlapped' = IF InFlight(d) THEN overlapped \cup {d} ELSE overlapped
          /\ UNCHANGED <<rows, handling>>
     ELSE Starts(d) /\ UNCHANGED overlapped
  /\ UNCHANGED <<operationVars, upInbox, launched, wired>>

\* The issues a pull request can refer to exist on GitHub.
Sends(d) ==
  /\ answer[d] = "unsent"
  /\ links' \in {[links EXCEPT ![d] = linked] :
                   linked \in SUBSET (IF what[d] = "opened" THEN {o \in Operation : Creates(o) /\ hits[o] > 0} \cup {Human}
                                      ELSE {})}
  /\ answer' = [answer EXCEPT ![d] = "refused"]   \* on its way: to be delivered
  /\ UNCHANGED <<operationVars, what, rows, handling, upInbox, launched, wired, overlapped>>

Redelivers(d) == answer[d] = "refused" /\ Arrives(d) /\ UNCHANGED <<what, links>>

\* Only a call to a provider leaves room for another delivery in between.
Overlaps(d) ==
  /\ answer[d] = "open" /\ handling[d].at \in {"asking", "launching"} /\ Cardinality(overlapped) < MaxOverlaps
  /\ Arrives(d) /\ UNCHANGED <<what, links>>

\* A comment's author must be allowed to ask, and the pull request be open.
Asked(d) ==
  /\ At(d, "asking")
  /\ \/ \E status \in {"unsupported", "failed"} : Settles(d, status)
     \/ Reach(d, "launching", {}) /\ UNCHANGED <<rows, answer>>
  /\ UNCHANGED <<operationVars, what, links, upInbox, launched, wired, overlapped>>

\* A review launched settles its own delivery. A pull request just opened goes
\* on to the up-inbox, whether its review was launched or not.
Launched(d) ==
  /\ At(d, "launching")
  /\ \E success \in BOOLEAN :
       /\ launched' = IF success THEN launched \cup {d} ELSE launched
       /\ IF what[d] = "opened"
          THEN Reach(d, "admitting", handling[d].closes) /\ UNCHANGED <<rows, answer>>
          ELSE Settles(d, IF success THEN "done" ELSE "failed")
  /\ UNCHANGED <<operationVars, what, links, upInbox, wired, overlapped>>

\* No port: the row stays received, and the answer asks for the delivery again.
Deferred(d) == Done(d, "refused") /\ UNCHANGED rows

Admits(d) ==
  /\ At(d, "admitting")
  /\ \/ /\ wired
        /\ upInbox' = upInbox \cup {[delivery |-> d, closes |-> handling[d].closes]}
        /\ Reach(d, "admitted", {}) /\ UNCHANGED <<rows, answer>>
     \/ ~wired /\ Deferred(d) /\ UNCHANGED upInbox
  /\ UNCHANGED <<operationVars, what, links, launched, wired, overlapped>>

AdmissionSettles(d) ==
  /\ At(d, "admitted") /\ Settles(d, "done")
  /\ UNCHANGED <<operationVars, what, links, upInbox, launched, wired, overlapped>>

\* The Brain's inbox throws: the delivery has failed. The ledger throws: it is
\* to be delivered again.
AdmissionFails(d) ==
  /\ At(d, "admitting") /\ wired /\ Fate
  /\ Settles(d, "failed")
  /\ UNCHANGED <<kind, outcome, ops, github, up, call, toRecover, doctor>>
  /\ UNCHANGED <<what, links, upInbox, launched, wired, overlapped>>

LedgerFails(d) ==
  /\ InFlight(d) /\ Fate
  /\ Done(d, "refused")
  /\ UNCHANGED <<kind, outcome, ops, github, up, call, toRecover, doctor>>
  /\ UNCHANGED <<what, links, rows, upInbox, launched, wired, overlapped>>

-----------------------------------------------------------------------------
(* The runtime around it: HTTP is bound before the Brain's inbox is there. *)

CutOff == [d \in Delivery |-> IF answer[d] = "open" THEN "refused" ELSE answer[d]]

HostDies ==
  /\ Dies
  /\ handling' = [d \in Delivery |-> NotHandled]
  /\ answer' = CutOff
  /\ wired' = FALSE
  /\ UNCHANGED <<what, links, rows, upInbox, launched, overlapped>>

HostBoots == Boots /\ UNCHANGED ingressVars

Wires ==
  /\ up /\ ~wired /\ wired' = TRUE
  /\ UNCHANGED <<operationVars, what, links, rows, handling, answer, upInbox, launched, overlapped>>

\* The WhatsApp session ends and takes its Brain inbox with it.
SessionEnds ==
  /\ up /\ wired /\ Fate /\ wired' = FALSE
  /\ UNCHANGED <<kind, outcome, ops, github, up, call, toRecover, doctor>>
  /\ UNCHANGED <<what, links, rows, handling, answer, upInbox, launched, overlapped>>

-----------------------------------------------------------------------------
HandlerStep(d) == up /\ (Asked(d) \/ Launched(d) \/ Admits(d) \/ AdmissionSettles(d))

IngressNext ==
  \/ \E d \in Delivery :
       Sends(d) \/ Redelivers(d) \/ Overlaps(d) \/ HandlerStep(d) \/ AdmissionFails(d) \/ LedgerFails(d)
  \/ HostDies \/ HostBoots \/ Wires \/ SessionEnds

\* The operations beside them; the process dies and starts with HostDies, HostBoots.
OperationsStep ==
  /\ \/ \E o \in Operation : Lands(o) \/ Abandons(o) \/ \E command \in Command : DoctorReads(o, command)
     \/ \E e \in Effect : OthersEdit(e) \/ TurnCalls(e) \/ BootCalls(e)
     \/ \E c \in Caller : WriterStep(c)
     \/ DoctorLearns \/ DoctorHears \/ DoctorDies
  /\ UNCHANGED ingressVars

GitHubNext == OperationsStep \/ IngressNext

\* GitHub, or who tends it, repeats a delivery that was not taken; the provider
\* calls of a handler end; a dead runtime is started again and wires its inbox.
IngressFairness ==
  /\ \A d \in Delivery : WF_allVars(Redelivers(d)) /\ WF_allVars(HandlerStep(d))
  /\ WF_allVars(HostBoots) /\ WF_allVars(Wires)

GitHubSpec ==
  /\ OperationsInit /\ IngressInit
  /\ [][GitHubNext]_allVars /\ OperationsFairness /\ IngressFairness

-----------------------------------------------------------------------------
IngressTypeOK ==
  /\ what \in [Delivery -> What]
  /\ rows \in [Delivery -> {"none", "received", "done", "failed", "unsupported"}]
  /\ answer \in [Delivery -> {"unsent", "refused", "open", "ok"}]
  /\ \A d \in Delivery :
       /\ links[d] \subseteq Issue
       /\ InFlight(d) => /\ handling[d].at \in {"asking", "launching", "admitting", "admitted"}
                         /\ handling[d].closes \subseteq Operation
                         /\ rows[d] = "received"
  /\ launched \subseteq Delivery /\ overlapped \subseteq Delivery
  /\ \A event \in upInbox : event.delivery \in Delivery /\ event.closes \subseteq Operation
  /\ wired \in BOOLEAN

\* A delivery that GitHub was told is taken is settled or being handled: it was
\* admitted, launched a review, was not for us, or has failed visibly
\* (ingress.ts:490-529, channels/github.ts:15).
TakenIsAccountedFor ==
  \A d \in Delivery :
    /\ rows[d] = "done" => d \in launched \/ \E event \in upInbox : event.delivery = d
    /\ answer[d] = "ok" /\ rows[d] = "received" => InFlight(d) \/ d \in overlapped

\* The Brain is told of every issue a pull request closes that one of its own
\* operations created, unless the operator gave that operation up
\* (ingress.ts:434-444, operation-store.ts:297-302).
EveryClosedIssueNamed ==
  \A event \in upInbox :
    what[event.delivery] = "opened" =>
      \A n \in links[event.delivery] \cap Operation : n \in event.closes \/ ops[n] = "abandoned"

HasSettled(d) == rows[d] \notin {"none", "received"}

\* Whatever is delivered is settled in the end, as long as it is repeated until
\* it is taken ("a deferral, never a drop", ingress.ts:500): unless an operation
\* it waits for is never resolved, or a repetition met the first one at work.
DeliveredIsSettled ==
  \A d \in Delivery :
    (answer[d] # "unsent") ~> (HasSettled(d) \/ d \in overlapped \/ []HasPendingCreate)

\* The same whenever it is repeated: a deferral is never a drop
\* (ingress.ts:500-501, up-inbox.ts:11).
DeferralNeverDrops ==
  \A d \in Delivery : (answer[d] # "unsent") ~> (HasSettled(d) \/ []HasPendingCreate)

(* What GitHub was told is taken, and what the Brain is told of it.        *)
IngressIsFaithful == IngressTypeOK /\ TakenIsAccountedFor /\ EveryClosedIssueNamed
=============================================================================
