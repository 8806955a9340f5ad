--------------------------- MODULE ArchiveProjection ---------------------------
(***************************************************************************)
(* The Conversation Archive's projection: each appended event rebuilds the *)
(* message it is about from all events of that message, so that            *)
(* conversation_messages says what the chat says now. Events arrive in any *)
(* order; some carry no time. The text of a message is the event that      *)
(* wrote it. ByRow, which folds in row order, is a faulty variant that     *)
(* nothing uses.                                                           *)
(***************************************************************************)
EXTENDS Naturals, FiniteSets

CONSTANTS
  Message, Fact,
  About,   \* the message each event is about
  FactKind,\* "arrival", "edit", "revocation", or "other" (reaction, receipt)
  FactTime,\* occurred_at_ms, 0 when unknown
  Blank    \* no row

ASSUME ArchiveConstants == \A f \in Fact : About[f] \in Message /\ FactTime[f] \in Nat

VARIABLES
  rowid,     \* row of each event in conversation_events, 0 when absent
  projected  \* the conversation_messages row of each message

archiveVars == <<rowid, projected>>

FactsOf(m, row) == {f \in Fact : About[f] = m /\ row[f] > 0}
Arrivals(m, row) == {f \in FactsOf(m, row) : FactKind[f] = "arrival"}

(* ORDER BY unknown time last, occurred_at_ms, rowid.                      *)
ByRow(f, g, row) == row[f] < row[g]
Later(f, g, row) ==
  IF (FactTime[f] = 0) # (FactTime[g] = 0) THEN FactTime[g] = 0
  ELSE FactTime[f] < FactTime[g] \/ (FactTime[f] = FactTime[g] /\ row[f] < row[g])

(* projectEdit and projectRevocation.                                      *)
ProjectUpdate(message, f) ==
  CASE FactKind[f] = "edit" -> [message EXCEPT !.text = f]
    [] FactKind[f] = "revocation" -> [message EXCEPT !.revoked = TRUE]
    [] OTHER -> message

(* Facts in order, by the number of those before each.                     *)
Ranked(facts, row) ==
  [k \in 1..Cardinality(facts) |->
     CHOOSE f \in facts : Cardinality({g \in facts : Later(g, f, row)}) = k - 1]

(* rebuildProjection: the arrival resets the row, then every update of the *)
(* message is applied in order. Without an arrival there is no row.        *)
Applied(message, facts, row) ==
  LET after[k \in 0..Cardinality(facts)] ==
        IF k = 0 THEN message ELSE ProjectUpdate(after[k - 1], Ranked(facts, row)[k])
  IN  after[Cardinality(facts)]
Rebuild(m, row) ==
  IF Arrivals(m, row) = {} THEN Blank
  ELSE Applied([text |-> CHOOSE f \in Arrivals(m, row) : TRUE, revoked |-> FALSE],
                FactsOf(m, row) \ Arrivals(m, row), row)

ArchiveInit ==
  /\ rowid = [f \in Fact |-> 0]
  /\ projected = [m \in Message |-> Blank]

(* append: INSERT OR IGNORE; only a new row rebuilds the message.          *)
AppendFact(f) ==
  /\ rowid[f] = 0
  /\ rowid' = [rowid EXCEPT ![f] = 1 + Cardinality({g \in Fact : rowid[g] > 0})]
  /\ projected' = [projected EXCEPT ![About[f]] = Rebuild(About[f], rowid')]

ArchiveNext == \E f \in Fact : AppendFact(f)

ArchiveSpec == ArchiveInit /\ [][ArchiveNext]_archiveVars

-----------------------------------------------------------------------------
(* A message shows its latest edit, by the time it happened and not by the *)
(* time it was archived (the last one archived of those without a time, if *)
(* there are any), and is gone once any revocation of it is known,   *)
(* also when both were archived before the message itself.                 *)
ProjectionFollowsTime ==
  \A m \in Message :
    LET edits == {f \in FactsOf(m, rowid) : FactKind[f] = "edit"}
    IN IF Arrivals(m, rowid) = {} THEN projected[m] = Blank
       ELSE /\ projected[m].revoked <=> \E f \in FactsOf(m, rowid) : FactKind[f] = "revocation"
            /\ IF edits = {} THEN projected[m].text \in Arrivals(m, rowid)
               ELSE /\ projected[m].text \in edits
                    /\ \A f \in edits :
                         IF FactTime[projected[m].text] = 0
                         THEN FactTime[f] = 0 => rowid[f] <= rowid[projected[m].text]
                         ELSE FactTime[f] \in 1..FactTime[projected[m].text]

=============================================================================
