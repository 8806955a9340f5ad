------------------------------ MODULE GraphStore ------------------------------
(***************************************************************************)
(* The Graph (engine/src/graph/store.ts): an append-only log of            *)
(* Attestations, and the Belief Projection folded from it, which is all    *)
(* the Brain, the Speakers and the Scribe ever read.                       *)
(*                                                                         *)
(* The fold exists twice. A merge or a ruling rebuilds the index in memory *)
(* and the projected rows from the whole log; an Entity or Relation claim  *)
(* extends both. attest is one synchronous transaction, so nothing comes   *)
(* between its steps; the process may end between two of them.             *)
(*                                                                         *)
(* Each Entity has the external identity its id is derived from, and its   *)
(* type, one of those that share an identity scope (person and agent);     *)
(* properties are chosen among candidates in the same way as the type. A   *)
(* Confidence is certain, or one half. Timestamps, provenance and the      *)
(* bounded lists of supporting Attestations are left out, and so are the   *)
(* one-time migration of legacy rows and its author.                       *)
(*                                                                         *)
(* AddByFirst is a faulty variant that nothing uses.                       *)
(***************************************************************************)
EXTENDS Naturals, Sequences, FiniteSets, Functions, FiniteSetsExt

CONSTANTS
  Entity,      \* entity ids, each with the identity it is derived from
  EntityType,  \* types an author may claim
  Relation,    \* relation types, with made_by and blocks
  Evidence,    \* ids of raw events
  MaxLog,      \* bounds the log
  MaxOpens,    \* bounds how often the store is opened again
  NoType       \* no value

ASSUME GraphConstants ==
  /\ IsFiniteSet(Entity)
  /\ NoType \notin EntityType
  /\ MaxLog \in Nat
  /\ MaxOpens \in Nat

VARIABLES
  \* the application database
  attestations, \* the log
  beliefs,      \* graph_entities: the type and Confidence of each, or NoBelief
  edges,        \* graph_relations
  names,        \* graph_identities: the Entities each identity resolves to
  \* the memory of the process
  index,        \* merges, rulings, and the active claims of every Entity and edge
  opens         \* how often the store was opened again

projection == <<beliefs, edges, names>>
graphVars  == <<attestations, projection, index, opens>>

Author   == {"scribe", "ingester", "brain"}
Edge     == Entity \X Relation \X Entity
NoBelief == [type |-> NoType, strength |-> 0]

EntityClaim == [kind : {"entity"}, id : Entity, type : EntityType]
EdgeClaim   == [kind : {"relation"}, edge : Edge]
MergeClaim  == [kind : {"merge"}, survivor : Entity, loser : Entity]
RulingClaim == [kind : {"ruling"}, action : {"confirm", "overrule"}, target : 1..MaxLog]

(* Merges and rulings are certain; so is, unless it says otherwise, what   *)
(* anyone but the Scribe claims.                                           *)
Attestation ==
  [author : Author, claim : EntityClaim \cup EdgeClaim, sure : BOOLEAN,
   evidence : (SUBSET Evidence) \ {{}}]
    \cup
  [author : Author, claim : MergeClaim \cup RulingClaim, sure : {TRUE},
   evidence : (SUBSET Evidence) \ {{}}]

Kind(log, kind) == {k \in DOMAIN log : log[k].claim.kind = kind}

-----------------------------------------------------------------------------
(* The index of a log: indexAttestations.                                  *)

(* The ruling on each Attestation, the last one made, or 0.                *)
RulingsOf(log) ==
  [k \in 1..MaxLog |->
     Max({0} \cup {r \in Kind(log, "ruling") : log[r].claim.target = k})]

Ruled(log, rulings, k, action) ==
  IF rulings[k] = 0 THEN FALSE ELSE log[rulings[k]].claim.action = action

(* An Entity follows its merges to the last survivor. An Entity that was   *)
(* not merged, or comes back to itself, is its own.                        *)
Canonical(merges, e) ==
  LET hop[n \in 0..Cardinality(Entity)] == IF n = 0 THEN e ELSE merges[hop[n - 1]]
  IN  hop[Cardinality(Entity)]

MergesOf(log, rulings) ==
  LET merged[k \in 0..Len(log)] ==
        IF k = 0 THEN [e \in Entity |-> e]
        ELSE IF k \in Kind(log, "merge") /\ ~ Ruled(log, rulings, k, "overrule")
        THEN [merged[k - 1] EXCEPT ![log[k].claim.loser] = Canonical(merged[k - 1], log[k].claim.survivor)]
        ELSE merged[k - 1]
  IN  merged[Len(log)]

EdgeUnder(merges, edge) == <<Canonical(merges, edge[1]), edge[2], Canonical(merges, edge[3])>>

IndexOf(log) ==
  LET rulings == RulingsOf(log)
      merges  == MergesOf(log, rulings)
      Active(kind) == {k \in Kind(log, kind) : ~ Ruled(log, rulings, k, "overrule")}
  IN  [rulings  |-> rulings,
       merges   |-> merges,
       entities |-> [e \in Entity |->
          {k \in Active("entity") : Canonical(merges, log[k].claim.id) = e}],
       edges    |-> [t \in Edge |->
          {k \in Active("relation") : EdgeUnder(merges, log[k].claim.edge) = t}]]

-----------------------------------------------------------------------------
(* What a group of claims amounts to.                                      *)

(* EvidenceConfidenceAccumulator: claims that share evidence, directly or  *)
(* through others, are one piece of support, as sure as its surest claim.  *)
AddByFirst(blocks, a) ==
  LET touched == {b \in blocks : b.evidence \cap a.evidence # {}}
      first   == IF touched = {} THEN {} ELSE {CHOOSE b \in touched : TRUE}
  IN  (blocks \ first) \cup
        {[evidence |-> a.evidence \cup UNION {b.evidence : b \in first},
          sure     |-> a.sure \/ \E b \in first : b.sure]}
Add(blocks, a) ==
  LET touched == {b \in blocks : b.evidence \cap a.evidence # {}}
  IN  (blocks \ touched) \cup
        {[evidence |-> a.evidence \cup UNION {b.evidence : b \in touched},
          sure     |-> a.sure \/ \E b \in touched : b.sure]}

(* A claim, with the ruling that confirms it.                              *)
Support(log, ix, group) ==
  group \cup {ix.rulings[k] : k \in {j \in group : Ruled(log, ix.rulings, j, "confirm")}}

Blocks(log, claims) ==
  LET blocks[k \in 0..Len(log)] ==
        IF k = 0 THEN {}
        ELSE IF k \in claims THEN Add(blocks[k - 1], log[k]) ELSE blocks[k - 1]
  IN  blocks[Len(log)]

(* The Confidence 1 - (1/2)^n as its n; certain support is above all.      *)
Certain == 2 * MaxLog
Strength(log, ix, group) ==
  LET blocks == Blocks(log, Support(log, ix, group))
  IN  IF \E b \in blocks : b.sure THEN Certain ELSE Cardinality(blocks)

Authority(log, ix, k) ==
  IF Ruled(log, ix.rulings, k, "confirm") \/ log[k].author = "brain" THEN 3
  ELSE IF log[k].author = "ingester" THEN 2
  ELSE 0

(* chooseCandidate: authority, then Confidence, then the later claim.      *)
Rank(log, ix, group) ==
  [authority |-> Max({Authority(log, ix, k) : k \in group}),
   strength  |-> Strength(log, ix, group),
   last      |-> Max(group)]
Better(a, b) ==
  \/ a.authority > b.authority
  \/ a.authority = b.authority /\ a.strength > b.strength
  \/ a.authority = b.authority /\ a.strength = b.strength /\ a.last > b.last

Chosen(ranks) ==
  CHOOSE t \in DOMAIN ranks : \A u \in (DOMAIN ranks) \ {t} : Better(ranks[t], ranks[u])

ClaimsOf(log, ix, e, t) == {k \in ix.entities[e] : log[k].claim.type = t}
RanksOf(log, ix, e) ==
  [t \in {u \in EntityType : ClaimsOf(log, ix, e, u) # {}} |-> Rank(log, ix, ClaimsOf(log, ix, e, t))]

Belief(log, ix, e) ==
  LET ranks == RanksOf(log, ix, e)
  IN  IF ix.entities[e] = {} THEN NoBelief
                             ELSE [type |-> Chosen(ranks), strength |-> ranks[Chosen(ranks)].strength]

Believed(bs) == {e \in Entity : bs[e] # NoBelief}

(* The rows of a rebuild.                                                  *)
BeliefsOf(log, ix) == [e \in Entity |-> Belief(log, ix, e)]
EdgesOf(log, ix) ==
  {t \in Edge : /\ ix.edges[t] # {}
                /\ t[1] # t[3]
                /\ {t[1], t[3]} \subseteq Believed(BeliefsOf(log, ix))}
NamesOf(log, ix) ==
  UNION {{<<log[k].claim.id, e>> : k \in ix.entities[e]} : e \in Entity}

-----------------------------------------------------------------------------
(* attest.                                                                 *)

Blocking(es) == {<<t[1], t[3]>> : t \in {t \in es : t[2] = "blocks"}}
BlocksReachable(from, to) ==
  LET reach[n \in 0..Cardinality(Entity)] ==
        IF n = 0 THEN {from}
        ELSE reach[n - 1] \cup {e \in Entity : \E d \in reach[n - 1] : <<d, e>> \in Blocking(edges)}
  IN  to \in reach[Cardinality(Entity)]

(* The checks on a new claim, against the projected rows.                  *)
MayRelate(t) ==
  /\ {t[1], t[3]} \subseteq Believed(beliefs)
  /\ t[2] = "made_by" => \A e \in edges : e[1] = t[1] /\ e[2] = "made_by" => e[3] = t[3]
  /\ t[2] = "blocks" => t[1] # t[3] /\ ~ BlocksReachable(t[3], t[1])
MayMerge(c) ==
  /\ c.survivor # c.loser
  /\ {c.survivor, c.loser} \subseteq Believed(beliefs)
  /\ beliefs[c.survivor].type = beliefs[c.loser].type
MayRule(c) ==
  /\ c.target \in DOMAIN attestations
  /\ attestations[c.target].claim.kind # "ruling"

(* An exact retry returns its receipt before any check.                    *)
Appended(a) ==
  /\ a \notin Range(attestations)
  /\ Len(attestations) < MaxLog
  /\ attestations' = Append(attestations, a)
  /\ UNCHANGED opens

(* projectEntity: the row and the identities of this Entity alone.         *)
GroupOf(a) == Canonical(index.merges, a.claim.id)
AttestEntity(a) ==
  /\ a.claim.kind = "entity"
  /\ Appended(a)
  /\ LET e == GroupOf(a)
     IN  /\ index' = [index EXCEPT !.entities[e] = @ \cup {Len(attestations')}]
         /\ beliefs' = [beliefs EXCEPT ![e] = Belief(attestations', index', e)]
         /\ names' = {n \in names : n[2] # e /\ n[1] \notin
                        {attestations'[k].claim.id : k \in index'.entities[e]}}
                       \cup {<<attestations'[k].claim.id, e>> : k \in index'.entities[e]}
  /\ UNCHANGED edges

(* projectRelation.                                                        *)
AttestRelation(a) ==
  /\ a.claim.kind = "relation"
  /\ MayRelate(a.claim.edge)
  /\ Appended(a)
  /\ LET t == EdgeUnder(index.merges, a.claim.edge)
     IN  /\ index' = [index EXCEPT !.edges[t] = @ \cup {Len(attestations')}]
         /\ edges' = IF t[1] # t[3] /\ {t[1], t[3]} \subseteq Believed(beliefs)
                     THEN edges \cup {t} ELSE edges
  /\ UNCHANGED <<beliefs, names>>

RebuildProjection ==
  /\ beliefs' = BeliefsOf(attestations', index')
  /\ edges' = EdgesOf(attestations', index')
  /\ names' = NamesOf(attestations', index')

(* A merge or a ruling, of the Brain alone.                                *)
AttestRuling(a) ==
  /\ a.author = "brain"
  /\ \/ a.claim.kind = "merge" /\ MayMerge(a.claim)
     \/ a.claim.kind = "ruling" /\ MayRule(a.claim)
  /\ Appended(a)
  /\ index' = IndexOf(attestations')
  /\ RebuildProjection

(* createGraphStore in a new process: the index is made from the log, and  *)
(* the rows are made again when their numbers are not what it expects.     *)
Current ==
  LET ix == index'
  IN  /\ Cardinality(Believed(beliefs)) = Cardinality({e \in Entity : ix.entities[e] # {}})
      /\ Cardinality(edges) = Cardinality(
           {t \in Edge : /\ ix.edges[t] # {}
                         /\ t[1] # t[3]
                         /\ ix.entities[t[1]] # {} /\ ix.entities[t[3]] # {}})
      /\ Cardinality(names) = Cardinality({n[1] : n \in NamesOf(attestations, ix)})
OpenAgain ==
  /\ opens < MaxOpens
  /\ opens' = opens + 1
  /\ UNCHANGED attestations
  /\ index' = IndexOf(attestations)
  /\ IF Current THEN UNCHANGED projection ELSE RebuildProjection

GraphInit ==
  /\ attestations = <<>>
  /\ beliefs = [e \in Entity |-> NoBelief]
  /\ edges = {}
  /\ names = {}
  /\ index = IndexOf(<<>>)
  /\ opens = 0

GraphNext ==
  \/ \E a \in Attestation : AttestEntity(a) \/ AttestRelation(a) \/ AttestRuling(a)
  \/ OpenAgain

GraphSpec == GraphInit /\ [][GraphNext]_graphVars

-----------------------------------------------------------------------------
(* Properties.                                                             *)

(* The log and the rows have their types; a row of an edge refers to rows, *)
(* and an identity resolves to one Entity at most, which is believed in.   *)
GraphTypeOK ==
  /\ attestations \in Seq(Attestation)
  /\ beliefs \in [Entity -> [type : EntityType, strength : 1..Certain] \cup {NoBelief}]
  /\ edges \subseteq Edge
  /\ \A t \in edges : {t[1], t[3]} \subseteq Believed(beliefs)
  /\ \A n \in names : n[2] \in Believed(beliefs)
  /\ \A m, n \in names : m[1] = n[1] => m = n
  /\ opens \in 0..MaxOpens

(* Extending the fold and folding again are the same: what the store       *)
(* believes and whom an identity names is what the log says, and it shows  *)
(* no edge the log does not support, whatever was merged, overruled and    *)
(* confirmed before.                                                       *)
BeliefsFollowLog ==
  LET ix == IndexOf(attestations)
  IN  /\ index = ix
      /\ beliefs = BeliefsOf(attestations, ix)
      /\ names = NamesOf(attestations, ix)
      /\ edges \subseteq EdgesOf(attestations, ix)

Connected(log, claims, k) ==
  LET near[n \in 0..Cardinality(claims)] ==
        IF n = 0 THEN {k}
        ELSE {j \in claims : \E i \in near[n - 1] : log[i].evidence \cap log[j].evidence # {}}
  IN  near[Cardinality(claims)]

(* Confidence grows with independent evidence only: the number of pieces   *)
(* of support is the number of classes of claims that no chain of shared   *)
(* evidence connects, in whatever order the claims came.                   *)
IndependentSupport ==
  \A e \in Believed(beliefs) :
    LET claims == Support(attestations, index,
                    {k \in index.entities[e] : attestations[k].claim.type = beliefs[e].type})
    IN  beliefs[e].strength =
          IF \E k \in claims : attestations[k].sure THEN Certain
          ELSE Cardinality({Connected(attestations, claims, k) : k \in claims})

(* Whatever the Scribe and the ingesters claim, however often and however  *)
(* surely: where the Brain has spoken for one type of an Entity, itself or *)
(* by confirming a claim, that is the type believed, also when merges have *)
(* brought the claims together.                                            *)
BrainHasTheLastWord ==
  \A e \in Believed(beliefs) :
    LET spoken == {attestations[k].claim.type :
                     k \in {j \in index.entities[e] : Authority(attestations, index, j) = 3}}
    IN  Cardinality(spoken) = 1 => beliefs[e].type \in spoken

(* What the Brain reads in the graph, in one property.                     *)
BeliefsAreEarned ==
  /\ GraphTypeOK
  /\ BeliefsFollowLog
  /\ IndependentSupport
  /\ BrainHasTheLastWord

=============================================================================
