----------------------------- MODULE DebounceActor -----------------------------
(***************************************************************************)
(* One debounce actor, the timing of the WhatsApp coalescer and of the     *)
(* Scribe's funnel: it takes elements from its queue and flushes what it   *)
(* gathered when the queue was quiet for the debounce window, when maxWait *)
(* is over since the first element, when enough elements are gathered, or  *)
(* at once for an urgent one. "update" elements do not count and are never *)
(* urgent. Time is discrete and timers are punctual: the clock does not    *)
(* pass an expired wait, nor an element a free actor could take. A flush   *)
(* may take any time. LateReason is a faulty variant that nothing uses.    *)
(***************************************************************************)
EXTENDS Naturals, Sequences

CONSTANTS
  DebounceWindow, MaxWait, Cap,
  MaxClock,   \* bounds the clock
  MaxElements \* bounds the elements

(* A Window holds at least one message; the times may be any.              *)
ASSUME DebounceConstants == DebounceWindow \in Nat /\ MaxWait \in Nat /\ Cap \in Nat \ {0}

VARIABLES
  clock,
  incoming,  \* the queue
  gathered,  \* the buffer
  count,     \* its counted elements
  burstStart,\* when its first element was taken
  wait,      \* when the wait under way ends
  lastTaken, \* when its last element was taken
  flushing,  \* the reason of the flush under way, or "none"
  flushed,   \* history: [reason, size, counted, waited, quiet] of the last flush
  offered    \* history: elements so far

debounceVars == <<clock, incoming, gathered, count, burstStart, wait, lastTaken, flushing, flushed, offered>>

Elements == {"plain", "urgent", "update"}
Earlier(m, n) == IF m <= n THEN m ELSE n
NoFlush == [reason |-> "none", counted |-> 0, waited |-> 0, quiet |-> 0]

DebounceInit ==
  /\ clock = 0 /\ incoming = <<>> /\ gathered = <<>> /\ count = 0
  /\ burstStart = 0 /\ wait = 0 /\ lastTaken = 0
  /\ flushing = "none" /\ flushed = NoFlush /\ offered = 0

Offer(e) ==
  /\ offered < MaxElements
  /\ incoming' = Append(incoming, e)
  /\ offered' = offered + 1
  /\ UNCHANGED <<clock, gathered, count, burstStart, wait, lastTaken, flushing, flushed>>

(* The wait that starts now: the debounce window, cut off by the cap. The  *)
(* code reads the clock when it takes the first element of a burst.        *)
BurstStart == IF gathered = <<>> THEN clock ELSE burstStart
WaitUntil == clock + Earlier(DebounceWindow, BurstStart + MaxWait - clock)

FireAndReset(reason, n) ==
  /\ flushing' = reason
  /\ flushed' = [reason |-> reason, counted |-> n, waited |-> clock - BurstStart,
                 quiet |-> IF gathered = <<>> THEN 0 ELSE clock - lastTaken]
  /\ gathered' = <<>> /\ count' = 0
  /\ UNCHANGED <<burstStart, wait, lastTaken>>

Warm(e, n) ==
  /\ gathered' = Append(gathered, e)
  /\ count' = n
  /\ burstStart' = BurstStart
  /\ wait' = WaitUntil
  /\ lastTaken' = clock
  /\ UNCHANGED <<flushing, flushed>>

(* onElement.                                                              *)
Take ==
  /\ flushing = "none" /\ incoming # <<>>
  /\ incoming' = Tail(incoming)
  /\ LET e == Head(incoming) IN
       \/ e = "update" /\ Warm(e, count)
       \/ e = "urgent" /\ FireAndReset("urgent", count + 1)
       \/ e = "plain" /\ count + 1 >= Cap /\ FireAndReset("capacity", count + 1)
       \/ e = "plain" /\ count + 1 < Cap /\ Warm(e, count + 1)
  /\ UNCHANGED <<clock, offered>>

LateReason == IF clock - burstStart > MaxWait THEN "maxWait" ELSE "debounce"
TimeOutReason ==
  IF burstStart + MaxWait - lastTaken <= DebounceWindow THEN "maxWait" ELSE "debounce"

(* The wait ends without an element. The reason is maxWait when the cap    *)
(* was what limited it.                                                    *)
TimeOut ==
  /\ flushing = "none" /\ gathered # <<>> /\ clock = wait
  /\ FireAndReset(TimeOutReason, count)
  /\ UNCHANGED <<clock, incoming, offered>>

Flushed ==
  /\ flushing # "none"
  /\ flushing' = "none"
  /\ UNCHANGED <<clock, incoming, gathered, count, burstStart, wait, lastTaken, flushed, offered>>

Tick ==
  /\ clock < MaxClock
  /\ flushing = "none" => incoming = <<>> /\ (gathered = <<>> \/ clock < wait)
  /\ clock' = clock + 1
  /\ UNCHANGED <<incoming, gathered, count, burstStart, wait, lastTaken, flushing, flushed, offered>>

DebounceNext == (\E e \in Elements : Offer(e)) \/ Take \/ TimeOut \/ Flushed \/ Tick

DebounceSpec == DebounceInit /\ [][DebounceNext]_debounceVars

-----------------------------------------------------------------------------
(* A nonstop chat is not starved: nothing the actor holds is older than    *)
(* maxWait, although every new element restarts the debounce window, and   *)
(* no Window is larger than the capacity.                                  *)
NeverStarved ==
  /\ gathered # <<>> => clock <= burstStart + MaxWait
  /\ flushed.waited <= MaxWait
  /\ flushed.counted <= Cap /\ count < Cap

(* The reason a flush reports is the reason it happened.                   *)
ReasonIsTrue ==
  /\ flushed.reason = "debounce" => flushed.quiet = DebounceWindow /\ flushed.waited < MaxWait
  /\ flushed.reason = "maxWait" => flushed.waited = MaxWait
  /\ flushed.reason = "capacity" => flushed.counted = Cap

(* Both together: a flush is never late, and says why it came.             *)
FlushesOnTime == NeverStarved /\ ReasonIsTrue

=============================================================================
