------------------------------- MODULE ChatFeed -------------------------------
(***************************************************************************)
(* What the Managed Chat intake promises: events are accepted one after    *)
(* the other; each Window takes the oldest unread events of its chat, so a *)
(* chat is read without a gap, a repetition or a reordering; and a Window  *)
(* is settled once. ChatIntake implements this specification.              *)
(***************************************************************************)
EXTENDS Naturals

CONSTANTS Event, Chat, ChatOf, Window, None

VARIABLES
  seqOf,    \* acceptance order of each event, 0 when it is not accepted
  windowOf, \* the Window each accepted event is read in
  outcome   \* "open", "done" or "failed" for each Window

feedVars == <<seqOf, windowOf, outcome>>

Unread(c) == {e \in Event : ChatOf[e] = c /\ seqOf[e] > 0 /\ windowOf[e] = None}

FeedInit ==
  /\ seqOf = [e \in Event |-> 0]
  /\ windowOf = [e \in Event |-> None]
  /\ outcome = [w \in Window |-> "open"]

Accept(e) ==
  /\ seqOf[e] = 0
  /\ \A f \in Event : seqOf[f] < seqOf'[e]
  /\ seqOf' = [seqOf EXCEPT ![e] = seqOf'[e]]
  /\ UNCHANGED <<windowOf, outcome>>

Read(c, w) ==
  /\ \A e \in Event : windowOf[e] # w
  /\ \E S \in (SUBSET Unread(c)) \ {{}} :
       /\ \A e \in S : \A f \in Unread(c) \ S : seqOf[e] < seqOf[f]
       /\ windowOf' = [e \in Event |-> IF e \in S THEN w ELSE windowOf[e]]
  /\ UNCHANGED <<seqOf, outcome>>

Settle(w) ==
  /\ outcome[w] = "open"
  /\ \E e \in Event : windowOf[e] = w
  /\ \E o \in {"done", "failed"} : outcome' = [outcome EXCEPT ![w] = o]
  /\ UNCHANGED <<seqOf, windowOf>>

FeedNext ==
  \/ \E e \in Event : Accept(e)
  \/ \E c \in Chat, w \in Window : Read(c, w)
  \/ \E w \in Window : Settle(w)

FeedSpec == FeedInit /\ [][FeedNext]_feedVars
=============================================================================
