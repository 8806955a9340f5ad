----------------------------- MODULE ScribeProofs -----------------------------
(***************************************************************************)
(* Proofs about the Scribe: the waves, Batches and attempts of its inbox   *)
(* (ScribeWaves), and the replay of the archive into it                    *)
(* (HistoricalReplay).                                                     *)
(*                                                                         *)
(* The waves rest on WavesInv: the table of Batches and the table of       *)
(* attempts name each other (Linked), what a completed attempt recorded    *)
(* the Brain was told (Heard), and a running turn's attempt is active or   *)
(* failed (TurnsAreOpen). A wave's rows are numbered by the count of those *)
(* before each, so that Split cuts pieces with no row in common.           *)
(*                                                                         *)
(* The handoff rests on ReplayInv: marks and cursors lie in the archive    *)
(* (Placed), what a scanner passed is fed or cut off (Unskipped), and a    *)
(* batch of the workflow holds, with a row, every earlier row of its chat  *)
(* (BatchHeld).                                                            *)
(***************************************************************************)
EXTENDS ScribeWaves, HistoricalReplay, FiniteSetTheorems, SequenceTheorems, WellFoundedInduction, TLAPS

(* A set of numbers has a least one.                                       *)
LEMMA LeastRow ==
  ASSUME NEW T \in SUBSET Nat, T # {}
  PROVE  \E n \in T : \A m \in T : n <= m
<1> DEFINE R == OpToRel(<, Nat)
<1>1. IsWellFoundedOn(R, Nat) BY NatLessThanWellFounded
<1>2. \E n \in T : \A m \in T : ~(<<m, n>> \in R)
  <2> HIDE DEF R
  <2> QED BY <1>1, WFMin
<1>3. \A m, n \in T : m < n => <<m, n>> \in R BY DEF OpToRel
<1> HIDE DEF R
<1>4. PICK n \in T : \A m \in T : ~(<<m, n>> \in R) BY <1>2
<1>5. \A m \in T : ~(m < n) BY <1>3, <1>4
<1>6. \A m \in T : n <= m BY <1>5
<1> QED BY <1>6

-----------------------------------------------------------------------------
(* What a wave cuts from the inbox.                                        *)

LEMMA PrecedesIsAnOrder ==
  ASSUME log \in Seq(Observation), NEW o \in Range(log), NEW p \in Range(log), NEW q \in Range(log)
  PROVE  /\ ~Precedes(o, o)
         /\ Precedes(o, p) /\ Precedes(p, q) => Precedes(o, q)
         /\ o = p \/ Precedes(o, p) \/ Precedes(p, o)
<1> DEFINE At0(x) == CHOOSE k \in DOMAIN log : log[k] = x
<1>1. \A x \in Range(log) : At0(x) \in Nat /\ log[At0(x)] = x
  <2>1. \A k \in DOMAIN log : k \in Nat
      BY LenProperties
  <2> QED
      BY <2>1 DEF Range
<1>2. \A x \in Range(log) : OccurredAt[x] \in Nat
    BY WavesAssumption DEF Range
<1> DEFINE u(x) == IF OccurredAt[x] = 0 THEN 1 ELSE 0
<1>3. \A x, y \in Range(log) : Precedes(x, y) <=>
        \/ u(x) < u(y)
        \/ u(x) = u(y) /\ OccurredAt[x] < OccurredAt[y]
        \/ u(x) = u(y) /\ OccurredAt[x] = OccurredAt[y] /\ At0(x) < At0(y)
    BY DEF Precedes
<1>4. At0(o) = At0(p) => o = p
    BY <1>1
<1>5. At0(o) \in Nat /\ At0(p) \in Nat /\ At0(q) \in Nat
    BY <1>1
<1> HIDE DEF At0
<1> QED
    BY <1>2, <1>3, <1>4, <1>5

LEMMA PendingIsFinite ==
  ASSUME log \in Seq(Observation)
  PROVE  IsFiniteSet(Pending) /\ Cardinality(Pending) \in Nat
<1>1. log \in [1..Len(log) -> Range(log)] /\ Len(log) \in Nat
    BY LenProperties DEF Range
<1>2. log \in Surjection(1..Len(log), Range(log))
    BY <1>1 DEF Surjection, Range
<1>3. IsFiniteSet(Range(log))
    BY <1>1, <1>2, FS_NatSurjection DEF ExistsSurjection
<1>4. Pending \subseteq Range(log)
    BY DEF Pending
<1> QED
    BY <1>3, <1>4, FS_Subset, FS_CardinalityType

(* The number of those before it is different for every observation, and   *)
(* every number up to the last is one of them.                             *)
LEMMA RanksAreExact ==
  ASSUME log \in Seq(Observation)
  PROVE  /\ \A o \in Pending : IsFiniteSet(Before(o)) /\ Cardinality(Before(o)) \in Nat
         /\ \A o, p \in Pending : Precedes(p, o) => Cardinality(Before(p)) < Cardinality(Before(o))
         /\ \A o, p \in Pending : Cardinality(Before(p)) = Cardinality(Before(o)) => o = p
         /\ \A k \in 1..Cardinality(Pending) : \E o \in Pending : Cardinality(Before(o)) = k - 1
<1> DEFINE n == Cardinality(Pending)
<1>0. IsFiniteSet(Pending) /\ n \in Nat /\ Pending \subseteq Range(log)
    BY PendingIsFinite DEF Pending
<1>1. \A o \in Pending : Before(o) \subseteq Pending /\ o \notin Before(o)
    BY <1>0, PrecedesIsAnOrder DEF Before
<1>2. \A o \in Pending : IsFiniteSet(Before(o)) /\ Cardinality(Before(o)) \in Nat
    BY <1>0, <1>1, FS_Subset, FS_CardinalityType
<1>3. ASSUME NEW o \in Pending, NEW S \in SUBSET Pending, Before(o) \subseteq S, o \in S
      PROVE  Cardinality(Before(o)) + 1 <= Cardinality(S)
  <2>1. Before(o) \cup {o} \subseteq S
      BY <1>3
  <2>2. IsFiniteSet(S)
      BY <1>0, FS_Subset
  <2>3. Cardinality(Before(o) \cup {o}) = Cardinality(Before(o)) + 1
      BY <1>1, <1>2, FS_AddElement
  <2>4. Cardinality(Before(o) \cup {o}) <= Cardinality(S)
      BY <2>1, <2>2, FS_Subset
  <2> QED
      BY <2>3, <2>4
<1>4. ASSUME NEW o \in Pending, NEW p \in Pending, Precedes(p, o)
      PROVE  Cardinality(Before(p)) < Cardinality(Before(o))
  <2>1. Before(p) \subseteq Before(o) /\ p \in Before(o)
      BY <1>0, <1>4, PrecedesIsAnOrder DEF Before
  <2>2. Cardinality(Before(p)) + 1 <= Cardinality(Before(o))
      BY <2>1, <1>1, <1>3
  <2> QED
      BY <2>2, <1>2
<1>5. ASSUME NEW o \in Pending, NEW p \in Pending, Cardinality(Before(p)) = Cardinality(Before(o))
      PROVE  o = p
  <2>1. o = p \/ Precedes(o, p) \/ Precedes(p, o)
      BY <1>0, PrecedesIsAnOrder
  <2>2. Precedes(o, p) => Cardinality(Before(o)) < Cardinality(Before(p))
      BY <1>4
  <2>3. Precedes(p, o) => Cardinality(Before(p)) < Cardinality(Before(o))
      BY <1>4
  <2> QED
      BY <2>1, <2>2, <2>3, <1>2, <1>5
<1>6. ASSUME NEW k \in 1..n
      PROVE  \E o \in Pending : Cardinality(Before(o)) = k - 1
  <2> DEFINE T == 0..(n - 1)
             r == [o \in Pending |-> Cardinality(Before(o))]
  <2>1. \A o \in Pending : Cardinality(Before(o)) \in T
    <3> SUFFICES ASSUME NEW o \in Pending PROVE Cardinality(Before(o)) \in T
        OBVIOUS
    <3>1. Cardinality(Before(o)) + 1 <= n
        BY <1>1, <1>3
    <3> QED
        BY <3>1, <1>0, <1>2
  <2>2. r \in [Pending -> T]
      BY <2>1
  <2>3. r \in Injection(Pending, T)
      BY <2>2, <1>5 DEF Injection, IsInjective
  <2>4. IsFiniteSet(T) /\ Cardinality(T) = n
    <3>1. 0 \in Int /\ n - 1 \in Int
        BY <1>0
    <3>2. IsFiniteSet(T) /\ Cardinality(T) = IF 0 > n - 1 THEN 0 ELSE (n - 1) - 0 + 1
        BY <3>1, FS_Interval
    <3>3. n \in Nat /\ n >= 1
        BY <1>0, <1>6
    <3> QED
        BY <3>2, <3>3
  <2>5. r \in Surjection(Pending, T)
    <3> HIDE DEF r, T
    <3> QED
      BY <2>3, <2>4, FS_Injection
  <2>6. k - 1 \in T
      BY <1>0
  <2>7. \E o \in Pending : r[o] = k - 1
      BY <2>5, <2>6 DEF Surjection
  <2> QED
      BY <2>7
<1> QED
    BY <1>2, <1>4, <1>5, <1>6

LEMMA NextRowsAre ==
  ASSUME log \in Seq(Observation)
  PROVE  /\ TakenUp \in Nat /\ DOMAIN NextRows = 1..TakenUp /\ NextRows \in Seq(Pending)
         /\ Len(NextRows) = TakenUp
         /\ IsInjective(NextRows)
         /\ \A o \in Range(NextRows), p \in Pending \ Range(NextRows) : ~Precedes(p, o)
<1>1. IsFiniteSet(Pending) /\ Cardinality(Pending) \in Nat
    BY PendingIsFinite
<1>2. TakenUp \in Nat /\ TakenUp <= Cardinality(Pending)
    BY <1>1, WavesAssumption DEF TakenUp
<1>3. \A k \in 1..TakenUp : NextRows[k] \in Pending /\ Cardinality(Before(NextRows[k])) = k - 1
  <2> SUFFICES ASSUME NEW k \in 1..TakenUp
               PROVE  NextRows[k] \in Pending /\ Cardinality(Before(NextRows[k])) = k - 1
      OBVIOUS
  <2>1. k \in 1..Cardinality(Pending)
      BY <1>1, <1>2
  <2>2. \E o \in Pending : Cardinality(Before(o)) = k - 1
      BY <2>1, RanksAreExact
  <2>3. NextRows[k] = CHOOSE o \in Pending : Cardinality(Before(o)) = k - 1
      BY DEF NextRows
  <2> QED
      BY <2>2, <2>3
<1>4. NextRows = [k \in 1..TakenUp |-> NextRows[k]] /\ DOMAIN NextRows = 1..TakenUp
    BY DEF NextRows
<1>5. NextRows \in [1..TakenUp -> Pending]
    BY <1>3, <1>4
<1>6. NextRows \in Seq(Pending) /\ Len(NextRows) = TakenUp
    BY <1>2, <1>5, IsASeq, LenProperties
<1>7. IsInjective(NextRows)
  <2> SUFFICES ASSUME NEW k \in 1..TakenUp, NEW l \in 1..TakenUp, NextRows[k] = NextRows[l] PROVE k = l
      BY <1>4 DEF IsInjective
  <2>1. k - 1 = l - 1
      BY <1>3
  <2> QED
      BY <2>1
<1>8. ASSUME NEW o \in Range(NextRows), NEW p \in Pending \ Range(NextRows), Precedes(p, o)
      PROVE  FALSE
  <2>1. PICK k \in 1..TakenUp : o = NextRows[k]
      BY <1>4 DEF Range
  <2>2. o \in Pending /\ Cardinality(Before(o)) = k - 1
      BY <2>1, <1>3
  <2>3. Cardinality(Before(p)) < k - 1 /\ Cardinality(Before(p)) \in Nat
      BY <2>2, <1>8, RanksAreExact
  <2>4. Cardinality(Before(p)) + 1 \in 1..TakenUp
      BY <2>3, <1>2
  <2>5. PICK l \in 1..TakenUp : l = Cardinality(Before(p)) + 1
      BY <2>4
  <2>6. NextRows[l] \in Pending /\ Cardinality(Before(NextRows[l])) = Cardinality(Before(p))
      BY <2>3, <2>5, <1>3
  <2>7. NextRows[l] = p
      BY <2>6, RanksAreExact
  <2> QED
      BY <2>7, <1>4 DEF Range
<1> QED
    BY <1>2, <1>4, <1>6, <1>7, <1>8

(* The pieces of one size are filled, but for the last, and leave no rest. *)
LEMMA PieceSizes ==
  ASSUME NEW n \in Nat \ {0}, NEW count \in 1..n,
         NEW size, size = (n + count - 1) \div count,
         NEW last, last = (n + size - 1) \div size
  PROVE  /\ size \in Nat \ {0} /\ last \in Nat
         /\ (last - 1) * size < n /\ n <= last * size
<1>1. size \in Int /\ size * count <= n + count - 1 /\ n + count - 1 < size * count + count
    OBVIOUS
<1>2. size >= 1
  <2> SUFFICES ASSUME size <= 0 PROVE FALSE
      BY <1>1
  <2>1. size * count <= 0
      BY <1>1
  <2> QED
      BY <1>1, <2>1
<1>3. size \in Nat \ {0}
    BY <1>1, <1>2
<1>4. last \in Int /\ last * size <= n + size - 1 /\ n + size - 1 < last * size + size
    BY <1>3
<1>5. last >= 0
  <2> SUFFICES ASSUME last <= -1 PROVE FALSE
      BY <1>4
  <2>1. last * size + size <= 0
      BY <1>3, <1>4
  <2> QED
      BY <1>3, <1>4, <2>1
<1>6. (last - 1) * size = last * size - size
    BY <1>3, <1>4
<1> QED
    BY <1>3, <1>4, <1>5, <1>6

LEMMA Multiples ==
  ASSUME NEW size \in Nat, NEW k \in Nat, NEW l \in Nat, k <= l
  PROVE  k * size <= l * size /\ k * size \in Nat
<1>1. PICK d \in Nat : l = k + d
  <2>1. l - k \in Nat /\ l = k + (l - k)
      OBVIOUS
  <2> QED
      BY <2>1
<1>2. l * size = k * size + d * size
    BY <1>1
<1>3. d * size >= 0 /\ k * size \in Nat /\ d * size \in Nat
    OBVIOUS
<1> QED
    BY <1>2, <1>3

(* Split cuts a sequence without repetition into sequences that have no    *)
(* row in common and every row between them.                               *)
LEMMA SplitIs ==
  ASSUME NEW S, NEW seq \in Seq(S), IsInjective(seq), NEW slots \in Nat \ {0}
  PROVE  /\ Split(seq, slots) \in Seq(Seq(S))
         /\ \A k \in DOMAIN Split(seq, slots) :
              LET piece == Split(seq, slots)[k]
              IN  piece # <<>> /\ IsInjective(piece) /\ Range(piece) \subseteq Range(seq)
         /\ \A k, l \in DOMAIN Split(seq, slots) : k # l =>
              Range(Split(seq, slots)[k]) \cap Range(Split(seq, slots)[l]) = {}
         /\ \A r \in Range(seq) : \E k \in DOMAIN Split(seq, slots) : r \in Range(Split(seq, slots)[k])
<1> DEFINE n == Len(seq)
           count == IF slots < n THEN slots ELSE n
           size == (n + count - 1) \div count
           last == (n + size - 1) \div size
           lo(k) == (k - 1) * size + 1
           hi(k) == IF k * size < n THEN k * size ELSE n
           cut0 == [k \in 1..last |-> SubSeq(seq, lo(k), hi(k))]
<1>1. n \in Nat /\ DOMAIN seq = 1..n /\ \A i \in 1..n : seq[i] \in S
    BY LenProperties, ElementOfSeq
<1>2. CASE n = 0
  <2>1. Split(seq, slots) = <<>>
      BY <1>2 DEF Split
  <2>2. <<>> \in Seq(Seq(S)) /\ DOMAIN <<>> = {}
      BY EmptySeq
  <2>3. Range(seq) = {}
      BY <1>1, <1>2 DEF Range
  <2> QED
      BY <2>1, <2>2, <2>3
<1>3. CASE n # 0
  <2>1. n \in Nat \ {0} /\ count \in 1..n
      BY <1>1, <1>3
  <2>2. /\ size \in Nat \ {0} /\ last \in Nat
        /\ (last - 1) * size < n /\ n <= last * size
    <3> HIDE DEF count, n
    <3> QED
      BY <2>1, PieceSizes
  <2>3. Split(seq, slots) = cut0
      BY <2>1 DEF Split
  <2> HIDE DEF n, count, size, last
  <2>4. ASSUME NEW k \in 1..last
        PROVE  /\ lo(k) \in 1..n /\ hi(k) \in 1..n /\ lo(k) <= hi(k)
               /\ hi(k) <= k * size /\ k * size \in Nat
               /\ lo(k) = (k - 1) * size + 1
    <3>1. k - 1 \in Nat /\ last - 1 \in Nat /\ k - 1 <= last - 1 /\ k \in Nat
        BY <2>2, <2>4
    <3>2. (k - 1) * size <= (last - 1) * size /\ (k - 1) * size \in Nat /\ (last - 1) * size \in Nat
        BY <2>2, <3>1, Multiples
    <3>3. k * size = (k - 1) * size + size /\ k * size \in Nat
        BY <2>2, <3>1, <3>2
    <3> QED
        BY <3>2, <3>3, <2>1, <2>2
  <2>5. ASSUME NEW k \in 1..last
        PROVE  /\ cut0[k] \in Seq(S) /\ Len(cut0[k]) = hi(k) - lo(k) + 1
               /\ \A i \in 1..(hi(k) - lo(k) + 1) : cut0[k][i] = seq[lo(k) + i - 1]
               /\ DOMAIN cut0[k] = 1..(hi(k) - lo(k) + 1)
    <3>1. lo(k) \in 1..n /\ hi(k) \in 1..n /\ lo(k) <= hi(k)
        BY <2>4
    <3> DEFINE a == lo(k)
               b == hi(k)
    <3>2. a \in Int /\ b \in Int /\ a <= b /\ \A i \in a..b : seq[i] \in S
        BY <3>1, <2>1, <1>1
    <3> HIDE DEF a, b
    <3>3. /\ SubSeq(seq, a, b) \in Seq(S) /\ Len(SubSeq(seq, a, b)) = b - a + 1
          /\ \A i \in 1..(b - a + 1) : SubSeq(seq, a, b)[i] = seq[a + i - 1]
        BY <3>2, SubSeqProperties
    <3>4. DOMAIN SubSeq(seq, a, b) = 1..(b - a + 1)
        BY <3>3, LenProperties
    <3>5. cut0[k] = SubSeq(seq, a, b)
        BY DEF a, b
    <3> HIDE DEF cut0
    <3> QED
        BY <3>3, <3>4, <3>5 DEF a, b
  <2>6. \A k \in 1..last : \A r \in Range(cut0[k]) : \E i \in lo(k)..hi(k) : i \in 1..n /\ r = seq[i]
    <3> SUFFICES ASSUME NEW k \in 1..last, NEW r \in Range(cut0[k])
                 PROVE  \E i \in lo(k)..hi(k) : i \in 1..n /\ r = seq[i]
        OBVIOUS
    <3>1. PICK j \in 1..(hi(k) - lo(k) + 1) : r = seq[lo(k) + j - 1]
        BY <2>5 DEF Range
    <3>2. lo(k) \in 1..n /\ hi(k) \in 1..n /\ n \in Nat
        BY <2>4, <2>1
    <3> DEFINE a == lo(k)
               b == hi(k)
    <3>3. j \in 1..(b - a + 1) /\ a \in 1..n /\ b \in 1..n
        BY <3>1, <3>2
    <3> HIDE DEF a, b
    <3>4. a + j - 1 \in a..b /\ a + j - 1 \in 1..n
        BY <3>2, <3>3
    <3> QED
        BY <3>1, <3>4 DEF a, b
  <2>7. \A k \in 1..last : \A i \in lo(k)..hi(k) : seq[i] \in Range(cut0[k])
    <3> SUFFICES ASSUME NEW k \in 1..last, NEW i \in lo(k)..hi(k) PROVE seq[i] \in Range(cut0[k])
        OBVIOUS
    <3> DEFINE a == lo(k)
               b == hi(k)
    <3>1. a \in 1..n /\ b \in 1..n /\ i \in a..b
        BY <2>4
    <3>2. \A j \in 1..(b - a + 1) : cut0[k][j] = seq[a + j - 1] /\ j \in DOMAIN cut0[k]
        BY <2>5
    <3> HIDE DEF a, b, cut0
    <3>3. i - a + 1 \in 1..(b - a + 1) /\ a + (i - a + 1) - 1 = i
        BY <3>1, <2>1
    <3> QED
        BY <3>2, <3>3 DEF Range
  <2>8. ASSUME NEW k \in 1..last, NEW l \in 1..last, k < l
        PROVE  hi(k) < lo(l)
    <3>1. k \in Nat /\ l - 1 \in Nat /\ k <= l - 1
        BY <2>2, <2>8
    <3>2. k * size <= (l - 1) * size
        BY <3>1, <2>2, Multiples
    <3>3. hi(k) <= k * size /\ k * size \in Nat /\ lo(l) = (l - 1) * size + 1 /\ hi(k) \in 1..n
          /\ lo(l) \in 1..n
        BY <2>4
    <3> DEFINE b == hi(k)
               a == lo(l)
               x == k * size
               y == (l - 1) * size
    <3>4. b <= x /\ x \in Nat /\ a = y + 1 /\ b \in 1..n /\ a \in 1..n /\ x <= y
        BY <3>2, <3>3
    <3>5. y \in Nat
        BY <3>1, <2>2, Multiples
    <3> HIDE DEF a, b, x, y
    <3>6. b < a
        BY <3>4, <3>5, <2>1
    <3> QED
        BY <3>6 DEF a, b
  <2>9. ASSUME NEW k \in 1..last, NEW l \in 1..last, k < l
        PROVE  Range(cut0[k]) \cap Range(cut0[l]) = {}
    <3> SUFFICES ASSUME NEW r \in Range(cut0[k]), r \in Range(cut0[l]) PROVE FALSE
        OBVIOUS
    <3>1. PICK i \in lo(k)..hi(k) : i \in 1..n /\ r = seq[i]
        BY <2>6
    <3>2. PICK j \in lo(l)..hi(l) : j \in 1..n /\ r = seq[j]
        BY <2>6
    <3>3. i = j
        BY <3>1, <3>2, <1>1 DEF IsInjective
    <3> DEFINE b == hi(k)
               a == lo(l)
    <3>4. i <= b /\ a <= j /\ b < a /\ a \in 1..n /\ b \in 1..n
        BY <2>8, <2>9, <2>4, <3>1, <3>2
    <3> HIDE DEF a, b
    <3> QED
        BY <3>3, <3>4, <3>1, <2>1
  <2>10. \A k \in 1..last : IsInjective(cut0[k])
    <3> SUFFICES ASSUME NEW k \in 1..last, NEW i \in DOMAIN cut0[k], NEW j \in DOMAIN cut0[k],
                        cut0[k][i] = cut0[k][j]
                 PROVE  i = j
        BY DEF IsInjective
    <3> DEFINE a == lo(k)
               b == hi(k)
    <3>1. a \in 1..n /\ b \in 1..n /\ i \in 1..(b - a + 1) /\ j \in 1..(b - a + 1)
          /\ cut0[k][i] = seq[a + i - 1] /\ cut0[k][j] = seq[a + j - 1]
        BY <2>4, <2>5
    <3> HIDE DEF a, b, cut0
    <3>2. a + i - 1 \in 1..n /\ a + j - 1 \in 1..n
        BY <3>1, <2>1
    <3>3. a + i - 1 = a + j - 1
        BY <3>1, <3>2, <1>1 DEF IsInjective
    <3> QED
        BY <3>1, <3>3, <2>1
  <2>11. \A r \in Range(seq) : \E k \in 1..last : r \in Range(cut0[k])
    <3>0. \A r \in Range(seq) : \E i \in 1..n : r = seq[i]
        BY <1>1 DEF Range
    <3> SUFFICES ASSUME NEW r \in Range(seq), NEW i \in 1..n, r = seq[i]
                 PROVE  \E k \in 1..last : seq[i] \in Range(cut0[k])
      <4> HIDE DEF cut0
      <4> QED
          BY <3>0
    <3> DEFINE T == {k \in Nat : i <= k * size}
    <3>1. last \in T
      <4>1. last * size \in Nat
          BY <2>2, Multiples
      <4> QED
          BY <2>2, <2>1, <4>1
    <3>2. PICK k \in T : \A m \in T : k <= m
      <4>1. T \in SUBSET Nat /\ T # {}
          BY <3>1
      <4> HIDE DEF T
      <4> QED BY <4>1, LeastRow
    <3>3. k \in Nat /\ i <= k * size /\ k <= last
        BY <3>1, <3>2
    <3>4. k # 0
        BY <3>3, <2>1, <2>2
    <3>5. k \in 1..last /\ k - 1 \in Nat
        BY <3>3, <3>4, <2>2
    <3>6. k - 1 \notin T
      <4>1. ~(k <= k - 1)
          BY <3>3
      <4> HIDE DEF T
      <4> QED BY <3>2, <4>1
    <3>7. ~(i <= (k - 1) * size)
        BY <3>5, <3>6
    <3>8. lo(k) <= i /\ i <= hi(k)
      <4>1. (k - 1) * size \in Nat
          BY <3>5, <2>2, Multiples
      <4> QED
          BY <4>1, <3>3, <3>7, <2>1
    <3>9. lo(k) \in 1..n /\ hi(k) \in 1..n
        BY <3>5, <2>4
    <3>10. i \in lo(k)..hi(k)
        BY <3>8, <3>9, <2>1
    <3> QED
        BY <3>5, <3>10, <2>7
  <2>12. DOMAIN cut0 = 1..last
      OBVIOUS
  <2>13. cut0 \in Seq(Seq(S))
    <3>1. cut0 \in [1..last -> Seq(S)]
        BY <2>5
    <3> HIDE DEF cut0
    <3> QED
        BY <3>1, <2>2, IsASeq
  <2>14. \A k \in 1..last : cut0[k] # <<>> /\ Range(cut0[k]) \subseteq Range(seq)
    <3> SUFFICES ASSUME NEW k \in 1..last PROVE cut0[k] # <<>> /\ Range(cut0[k]) \subseteq Range(seq)
        OBVIOUS
    <3>1. lo(k) \in lo(k)..hi(k)
        BY <2>4
    <3>2. Range(cut0[k]) # {}
        BY <3>1, <2>7
    <3>3. cut0[k] # <<>>
      <4> DEFINE a == lo(k)
                 b == hi(k)
      <4>1. Len(cut0[k]) = b - a + 1 /\ a \in 1..n /\ b \in 1..n /\ a <= b
          BY <2>4, <2>5
      <4> HIDE DEF a, b, cut0
      <4>2. Len(cut0[k]) # 0
          BY <4>1, <2>1
      <4> QED
          BY <4>2
    <3>4. Range(cut0[k]) \subseteq Range(seq)
      <4>1. \A i \in 1..n : seq[i] \in Range(seq)
          BY <1>1 DEF Range, n
      <4> QED
          BY <4>1, <2>6
    <3> QED
        BY <3>3, <3>4
  <2> HIDE DEF cut0
  <2>15. \A k, l \in 1..last : k # l => Range(cut0[k]) \cap Range(cut0[l]) = {}
    <3>1. \A k, l \in 1..last : k # l => k < l \/ l < k
        BY <2>2
    <3> QED
        BY <3>1, <2>9
  <2> QED
      BY <2>3, <2>15, <2>10, <2>11, <2>12, <2>13, <2>14
<1> QED
    BY <1>2, <1>3

-----------------------------------------------------------------------------
(* The invariant of the waves.                                             *)

BatchRow == [rows : Seq(Observation), active : Nat, done : BOOLEAN]
Statuses == {"active", "completed", "failed", "interrupted"}
AttemptRow == [batch : Nat, status : Statuses]

WavesTyped ==
  /\ log \in Seq(Observation)
  /\ batches \in Seq(BatchRow)
  /\ attempts \in Seq(AttemptRow)
  /\ claims \subseteq DOMAIN attempts /\ turns \subseteq DOMAIN attempts
  /\ deltas \subseteq [batch : Nat, from : SUBSET Nat]
  /\ DOMAIN lane \subseteq DOMAIN batches /\ DOMAIN tries = DOMAIN lane
  /\ queue \in Nat

Switches == mailbox \in BOOLEAN /\ started \in BOOLEAN /\ draining \in BOOLEAN

AttemptsOf(i, status) == {a \in DOMAIN attempts : attempts[a].batch = i /\ attempts[a].status = status}
Waits == {"asked", "answered", "told"}

(* AttemptsAgree, with the one completed attempt named; every attempt is   *)
(* one of a Batch.                                                         *)
Linked(i) ==
  /\ AttemptsOf(i, "active") = (IF batches[i].active = Nobody THEN {} ELSE {batches[i].active})
  /\ batches[i].done => \E a \in DOMAIN attempts : AttemptsOf(i, "completed") = {a}
  /\ ~batches[i].done => AttemptsOf(i, "completed") = {}
  /\ batches[i].done => batches[i].active = Nobody
  /\ i \in DOMAIN lane /\ lane[i] \in Waits => batches[i].active # Nobody

(* A turn belongs to an attempt that is active or has failed, and is over  *)
(* for a task that has its answer; a task that has told the Brain has told *)
(* it of what its attempt recorded.                                        *)
Heard(i) ==
  /\ lane[i] \in {"answered", "told"} => batches[i].active \notin turns
  /\ lane[i] = "told" /\ batches[i].active \in claims =>
       \E d \in deltas : d.batch = i /\ batches[i].active \in d.from
TurnsAreOpen == \A a \in turns : attempts[a].status \in {"active", "failed"}

WavesInv ==
  /\ WavesTyped /\ Switches
  /\ OneBatchEach
  /\ \A a \in DOMAIN attempts : attempts[a].batch \in DOMAIN batches
  /\ \A i \in DOMAIN batches : Linked(i)
  /\ \A i \in DOMAIN lane : Heard(i)
  /\ TurnsAreOpen
  /\ ReportedBeforeDone

LEMMA InitWavesInv == ScribeInit => WavesInv
<1> SUFFICES ASSUME ScribeInit PROVE WavesInv
    OBVIOUS
<1>1. /\ log = <<>> /\ batches = <<>> /\ attempts = <<>> /\ claims = {} /\ deltas = {}
      /\ lane = <<>> /\ tries = <<>> /\ turns = {} /\ queue = 1
    BY DEF ScribeInit, ScribeBlank, NoTask
<1>2. /\ log \in Seq(Observation) /\ batches \in Seq(BatchRow) /\ attempts \in Seq(AttemptRow)
      /\ DOMAIN batches = {} /\ DOMAIN attempts = {} /\ DOMAIN lane = {} /\ DOMAIN tries = {}
    BY <1>1
<1>3. WavesTyped
    BY <1>1, <1>2 DEF WavesTyped
<1>4. Switches
    BY DEF ScribeInit, ScribeBlank, Switches
<1>5. OneBatchEach
    BY <1>2 DEF OneBatchEach, Batched
<1> QED
    BY <1>1, <1>2, <1>3, <1>4, <1>5 DEF WavesInv, TurnsAreOpen, ReportedBeforeDone

-----------------------------------------------------------------------------
(* Changes of the tables.                                                  *)

LEMMA TablesAre ==
  ASSUME WavesTyped
  PROVE  /\ DOMAIN batches = 1..Len(batches) /\ Len(batches) \in Nat
         /\ DOMAIN attempts = 1..Len(attempts) /\ Len(attempts) \in Nat
         /\ \A i \in DOMAIN batches : /\ batches[i] \in BatchRow /\ batches[i].rows \in Seq(Observation)
                                      /\ batches[i].active \in Nat
         /\ \A a \in DOMAIN attempts : /\ attempts[a] \in AttemptRow /\ attempts[a].batch \in Nat
                                       /\ attempts[a].status \in Statuses
<1>1. batches \in Seq(BatchRow) /\ attempts \in Seq(AttemptRow)
    BY DEF WavesTyped
<1>2. /\ DOMAIN batches = 1..Len(batches) /\ Len(batches) \in Nat
      /\ \A i \in DOMAIN batches : batches[i] \in BatchRow
    BY <1>1
<1>3. /\ DOMAIN attempts = 1..Len(attempts) /\ Len(attempts) \in Nat
      /\ \A a \in DOMAIN attempts : attempts[a] \in AttemptRow
    BY <1>1
<1>4. \A r \in BatchRow : r.rows \in Seq(Observation) /\ r.active \in Nat
    BY DEF BatchRow
<1>5. \A r \in AttemptRow : r.batch \in Nat /\ r.status \in Statuses
    BY DEF AttemptRow
<1> QED
    BY <1>2, <1>3, <1>4, <1>5

(* No Batch gains or loses a row.                                          *)
LEMMA RowsStay ==
  ASSUME OneBatchEach, DOMAIN batches' = DOMAIN batches,
         \A i \in DOMAIN batches : batches'[i].rows = batches[i].rows,
         Range(log) \subseteq Range(log)'
  PROVE  OneBatchEach' /\ Batched' = Batched
<1>1. Batched' = Batched
    BY DEF Batched
<1> QED
    BY <1>1 DEF OneBatchEach

LEMMA StatusChanges ==
  ASSUME WavesTyped, NEW a \in DOMAIN attempts, NEW status \in Statuses,
         attempts' = [attempts EXCEPT ![a].status = status]
  PROVE  /\ attempts' \in Seq(AttemptRow) /\ DOMAIN attempts' = DOMAIN attempts
         /\ \A b \in DOMAIN attempts :
              /\ attempts'[b].batch = attempts[b].batch
              /\ attempts'[b].status = IF b = a THEN status ELSE attempts[b].status
<1>1. attempts \in Seq(AttemptRow) /\ attempts[a] \in AttemptRow /\ a \in 1..Len(attempts)
    BY TablesAre DEF WavesTyped
<1>2. [attempts[a] EXCEPT !.status = status] \in AttemptRow
    BY <1>1 DEF AttemptRow
<1>3. PICK r \in AttemptRow : r = [attempts[a] EXCEPT !.status = status]
    BY <1>2
<1>4. r.batch = attempts[a].batch /\ r.status = status
    BY <1>1, <1>3 DEF AttemptRow
<1>5. attempts' = [attempts EXCEPT ![a] = r]
    BY <1>3
<1>6. attempts' \in Seq(AttemptRow) /\ DOMAIN attempts' = DOMAIN attempts
    BY <1>1, <1>5, ExceptSeq
<1> QED
    BY <1>4, <1>5, <1>6, <1>1

LEMMA BatchChanges ==
  ASSUME WavesTyped, NEW i \in DOMAIN batches, NEW r \in BatchRow,
         batches' = [batches EXCEPT ![i] = r], r.rows = batches[i].rows
  PROVE  /\ batches' \in Seq(BatchRow) /\ DOMAIN batches' = DOMAIN batches
         /\ batches'[i] = r
         /\ \A j \in DOMAIN batches : /\ j # i => batches'[j] = batches[j]
                                      /\ batches'[j].rows = batches[j].rows
<1>1. batches \in Seq(BatchRow) /\ i \in 1..Len(batches)
    BY TablesAre DEF WavesTyped
<1>2. batches' \in Seq(BatchRow) /\ DOMAIN batches' = DOMAIN batches
    BY <1>1, ExceptSeq
<1> QED
    BY <1>2

(* The attempt a task waits for is the active one of its Batch.            *)
LEMMA TaskAttempt ==
  ASSUME WavesTyped, NEW i \in DOMAIN batches, Linked(i), i \in DOMAIN lane, lane[i] \in Waits
  PROVE  /\ Attempt(i) \in DOMAIN attempts /\ attempts[Attempt(i)].batch = i
         /\ attempts[Attempt(i)].status = "active" /\ Attempt(i) # Nobody
BY DEF Linked, AttemptsOf, Attempt

(* Neither table changes, and no task begins to wait.                      *)
LEMMA LinksStay ==
  ASSUME UNCHANGED <<batches, attempts>>, NEW i \in DOMAIN batches, Linked(i),
         i \in DOMAIN lane' /\ lane'[i] \in Waits => i \in DOMAIN lane /\ lane[i] \in Waits
  PROVE  Linked(i)'
BY DEF Linked, AttemptsOf

(* The attempt of a task ends, completed or failed.                        *)
LEMMA AttemptEnds ==
  ASSUME WavesInv, NEW i \in DOMAIN batches, i \in DOMAIN lane, lane[i] \in Waits,
         NEW status \in {"completed", "failed"}, NEW point \in {"begin", "settled", "failed"},
         attempts' = [attempts EXCEPT ![Attempt(i)].status = status],
         NEW r \in BatchRow, r.rows = batches[i].rows, r.active = Nobody,
         status = "completed" => r.done, status = "failed" => r.done = batches[i].done,
         batches' = [batches EXCEPT ![i] = r],
         lane' = [lane EXCEPT ![i] = point]
  PROVE  /\ attempts' \in Seq(AttemptRow) /\ DOMAIN attempts' = DOMAIN attempts
         /\ batches' \in Seq(BatchRow) /\ DOMAIN batches' = DOMAIN batches
         /\ \A j \in DOMAIN batches : batches'[j].rows = batches[j].rows
         /\ \A a \in DOMAIN attempts : attempts'[a].batch = attempts[a].batch
         /\ \A j \in DOMAIN batches : Linked(j)'
<1>1. WavesTyped /\ \A j \in DOMAIN batches : Linked(j)
    BY DEF WavesInv
<1>2. PICK a \in DOMAIN attempts : /\ a = Attempt(i) /\ attempts[a].batch = i
                                   /\ attempts[a].status = "active" /\ a # Nobody
    BY <1>1, TaskAttempt
<1>3. /\ attempts' \in Seq(AttemptRow) /\ DOMAIN attempts' = DOMAIN attempts
      /\ \A b \in DOMAIN attempts :
           /\ attempts'[b].batch = attempts[b].batch
           /\ attempts'[b].status = IF b = a THEN status ELSE attempts[b].status
  <2>1. attempts' = [attempts EXCEPT ![a].status = status] /\ status \in Statuses
      BY <1>2 DEF Statuses
  <2> QED
      BY <1>1, <2>1, StatusChanges
<1>4. /\ batches' \in Seq(BatchRow) /\ DOMAIN batches' = DOMAIN batches /\ batches'[i] = r
      /\ \A j \in DOMAIN batches : /\ j # i => batches'[j] = batches[j]
                                   /\ batches'[j].rows = batches[j].rows
    BY <1>1, BatchChanges
<1>5. ASSUME NEW j \in DOMAIN batches, j # i PROVE Linked(j)'
  <2>1. \A s \in Statuses : AttemptsOf(j, s)' = AttemptsOf(j, s)
      BY <1>2, <1>3, <1>5 DEF AttemptsOf
  <2>2. AttemptsOf(j, "active")' = AttemptsOf(j, "active")
        /\ AttemptsOf(j, "completed")' = AttemptsOf(j, "completed")
      BY <2>1 DEF Statuses
  <2>3. batches'[j] = batches[j] /\ Linked(j)
      BY <1>1, <1>4, <1>5
  <2>4. j \in DOMAIN lane' /\ lane'[j] \in Waits => j \in DOMAIN lane /\ lane[j] \in Waits
      BY <1>5
  <2> QED
      BY <2>2, <2>3, <2>4, <1>3 DEF Linked
<1>6. Linked(i)'
  <2>1. AttemptsOf(i, "active") = {a} /\ ~batches[i].done /\ AttemptsOf(i, "completed") = {}
      BY <1>1, <1>2 DEF Linked, Attempt
  <2>2. AttemptsOf(i, "active")' = {}
      BY <2>1, <1>3 DEF AttemptsOf
  <2>3. AttemptsOf(i, "completed")' = IF status = "completed" THEN {a} ELSE {}
      BY <2>1, <1>2, <1>3 DEF AttemptsOf
  <2>4. lane'[i] \notin Waits
      BY DEF Waits
  <2> QED
      BY <2>1, <2>2, <2>3, <2>4, <1>2, <1>3, <1>4 DEF Linked
<1> QED
    BY <1>3, <1>4, <1>5, <1>6

-----------------------------------------------------------------------------
(* The steps.                                                              *)

LEMMA StoreStays ==
  ASSUME WavesInv, UNCHANGED <<batches, attempts>>, Range(log) \subseteq Range(log)',
         \A i \in DOMAIN lane' : lane'[i] \in Waits => i \in DOMAIN lane /\ lane[i] \in Waits
  PROVE  /\ OneBatchEach'
         /\ \A a \in DOMAIN attempts' : attempts'[a].batch \in DOMAIN batches'
         /\ \A i \in DOMAIN batches' : Linked(i)'
<1>1. OneBatchEach'
    BY RowsStay DEF WavesInv
<1>2. \A i \in DOMAIN batches : Linked(i)'
    BY LinksStay DEF WavesInv
<1> QED
    BY <1>1, <1>2 DEF WavesInv

(* Nothing is recorded, told or completed, and no task moves on.           *)
LEMMA ClockKeeps ==
  ASSUME WavesInv,
         (\E o \in Observation : Offer(o)) \/ Flush \/ DrainStarts \/ WaveSettles
         \/ UNCHANGED scribeVars
  PROVE  WavesInv'
<1>1. /\ UNCHANGED <<batches, attempts, claims, deltas, turns>>
      /\ UNCHANGED <<lane, tries>> \/ (lane' = NoTask /\ tries' = NoTask)
    BY DEF Offer, Flush, DrainStarts, WaveSettles, scribeVars, store, graph, wave
<1>2. DOMAIN NoTask = {}
    BY DEF NoTask
<1>3. log' \in Seq(Observation) /\ Range(log) \subseteq Range(log)'
  <2>1. CASE \E o \in Observation : Offer(o)
    <3>1. PICK o \in Observation : Offer(o)
        BY <2>1
    <3>2. log \in Seq(Observation)
        BY DEF WavesInv, WavesTyped
    <3>3. CASE log' = log
        BY <3>2, <3>3
    <3>4. CASE log' = Append(log, o)
      <4>1. /\ log' \in Seq(Observation) /\ Len(log') = Len(log) + 1
            /\ \A k \in 1..Len(log) : log'[k] = log[k]
          BY <3>2, <3>4, AppendProperties
      <4>2. DOMAIN log = 1..Len(log) /\ Len(log) \in Nat /\ DOMAIN log' = 1..Len(log')
          BY <3>2, <4>1, LenProperties
      <4>3. \A k \in DOMAIN log : k \in DOMAIN log' /\ log'[k] = log[k]
          BY <4>1, <4>2
      <4> QED
          BY <4>1, <4>3 DEF Range
    <3> QED
        BY <3>1, <3>3, <3>4 DEF Offer
  <2>2. CASE log' = log
      BY <2>2 DEF WavesInv, WavesTyped
  <2> QED
      BY <2>1, <2>2 DEF Flush, DrainStarts, WaveSettles, scribeVars, store
<1>4. queue' \in Nat
  <2>1. queue \in Nat
      BY DEF WavesInv, WavesTyped
  <2>2. queue' \in {queue, queue + 1} \/ (queue > 0 /\ queue' = queue - 1)
      BY DEF Offer, Flush, DrainStarts, WaveSettles, scribeVars, clock
  <2> QED
      BY <2>1, <2>2
<1>5. WavesTyped'
    BY <1>1, <1>2, <1>3, <1>4 DEF WavesInv, WavesTyped
<1>6. Switches'
  <2>1. mailbox' \in {mailbox, TRUE, FALSE} /\ started' \in {started, TRUE}
      BY DEF Offer, Flush, DrainStarts, WaveSettles, scribeVars, clock
  <2>2. draining' \in BOOLEAN
      BY ZenonT(30) DEF Offer, Flush, DrainStarts, WaveSettles, scribeVars, wave, WavesInv, Switches
  <2> QED
      BY <2>1, <2>2 DEF WavesInv, Switches
<1>7. /\ OneBatchEach'
      /\ \A a \in DOMAIN attempts' : attempts'[a].batch \in DOMAIN batches'
      /\ \A i \in DOMAIN batches' : Linked(i)'
    BY <1>1, <1>2, <1>3, StoreStays
<1>8. \A i \in DOMAIN lane' : Heard(i)'
    BY <1>1, <1>2 DEF WavesInv, Heard
<1>9. TurnsAreOpen' /\ ReportedBeforeDone'
    BY <1>1 DEF WavesInv, TurnsAreOpen, ReportedBeforeDone
<1> QED
    BY <1>5, <1>6, <1>7, <1>8, <1>9 DEF WavesInv

LEMMA AttestKeeps ==
  ASSUME WavesInv, NEW a \in turns, Attest(a)
  PROVE  WavesInv'
<1>1. /\ UNCHANGED <<log, batches, attempts, deltas, lane, tries, draining, mailbox, started, queue>>
      /\ claims' = claims \cup {a} /\ turns' \subseteq turns
    BY DEF Attest, store, clock, wave
<1>2. a \in DOMAIN attempts /\ attempts[a].status \in {"active", "failed"}
    BY DEF WavesInv, WavesTyped, TurnsAreOpen
<1>3. WavesTyped' /\ Switches'
    BY <1>1, <1>2 DEF WavesInv, WavesTyped, Switches
<1>4. /\ OneBatchEach'
      /\ \A b \in DOMAIN attempts' : attempts'[b].batch \in DOMAIN batches'
      /\ \A i \in DOMAIN batches' : Linked(i)'
    BY <1>1, StoreStays
<1>5. \A i \in DOMAIN lane' : Heard(i)'
    BY <1>1 DEF WavesInv, Heard
<1>6. TurnsAreOpen' /\ ReportedBeforeDone'
    BY <1>1, <1>2 DEF WavesInv, TurnsAreOpen, ReportedBeforeDone
<1> QED
    BY <1>3, <1>4, <1>5, <1>6 DEF WavesInv

LEMMA AnswerKeeps ==
  ASSUME WavesInv, NEW i \in DOMAIN batches, Answer(i)
  PROVE  WavesInv'
<1>1. /\ UNCHANGED <<log, batches, attempts, claims, deltas, tries, draining, mailbox, started, queue>>
      /\ i \in DOMAIN lane /\ lane[i] = "asked" /\ lane' = [lane EXCEPT ![i] = "answered"]
      /\ turns' = turns \ {batches[i].active}
    BY DEF Answer, At, Go, Attempt, store, graph, clock
<1>2. WavesTyped' /\ Switches'
    BY <1>1 DEF WavesInv, WavesTyped, Switches
<1>3. \A j \in DOMAIN lane' : j \in DOMAIN lane /\ (lane'[j] \in Waits => lane[j] \in Waits)
    BY <1>1 DEF Waits
<1>4. /\ OneBatchEach'
      /\ \A b \in DOMAIN attempts' : attempts'[b].batch \in DOMAIN batches'
      /\ \A j \in DOMAIN batches' : Linked(j)'
    BY <1>1, <1>3, StoreStays
<1>5. \A j \in DOMAIN lane' : Heard(j)'
    BY <1>1 DEF WavesInv, Heard
<1>6. TurnsAreOpen' /\ ReportedBeforeDone'
    BY <1>1 DEF WavesInv, TurnsAreOpen, ReportedBeforeDone
<1> QED
    BY <1>2, <1>4, <1>5, <1>6 DEF WavesInv

(* What a Batch has recorded is in the delta the Brain is told.            *)
LEMMA ToldIs ==
  ASSUME WavesInv, NEW i \in DOMAIN batches, i \in DOMAIN lane, lane[i] \in Waits
  PROVE  /\ deltas \subseteq Told(i) /\ Told(i) \subseteq [batch : Nat, from : SUBSET Nat]
         /\ batches[i].active \in claims =>
              \E d \in Told(i) : d.batch = i /\ batches[i].active \in d.from
<1>1. WavesTyped /\ Linked(i)
    BY DEF WavesInv
<1>2. Attempt(i) = batches[i].active /\ attempts[Attempt(i)].batch = i
    BY <1>1, TaskAttempt DEF Attempt
<1>3. i \in Nat /\ \A a \in claims : a \in Nat
    BY <1>1, TablesAre DEF WavesTyped
<1>4. Proposal(i) \in SUBSET Nat
    BY <1>3 DEF Proposal
<1>5. [batch |-> i, from |-> Proposal(i)] \in [batch : Nat, from : SUBSET Nat]
    BY <1>3, <1>4
<1>6. deltas \subseteq Told(i) /\ Told(i) \subseteq [batch : Nat, from : SUBSET Nat]
    BY <1>1, <1>5 DEF Told, WavesTyped
<1>7. ASSUME batches[i].active \in claims
      PROVE  \E d \in Told(i) : d.batch = i /\ batches[i].active \in d.from
  <2>1. batches[i].active \in Proposal(i)
      BY <1>2, <1>7 DEF Proposal
  <2>2. [batch |-> i, from |-> Proposal(i)] \in Told(i)
      BY <2>1 DEF Told
  <2> QED
      BY <2>1, <2>2
<1> QED
    BY <1>6, <1>7

LEMMA TellKeeps ==
  ASSUME WavesInv, NEW i \in DOMAIN batches, Tell(i)
  PROVE  WavesInv'
<1>1. /\ UNCHANGED <<log, batches, attempts, claims, turns, tries, draining, mailbox, started, queue>>
      /\ i \in DOMAIN lane /\ lane[i] = "answered" /\ lane' = [lane EXCEPT ![i] = "told"]
      /\ deltas' = Told(i)
    BY DEF Tell, At, Go, store, clock
<1>2. /\ deltas \subseteq deltas' /\ deltas' \subseteq [batch : Nat, from : SUBSET Nat]
      /\ batches[i].active \in claims =>
              \E d \in deltas' : d.batch = i /\ batches[i].active \in d.from
    BY <1>1, ToldIs DEF Waits
<1>3. WavesTyped' /\ Switches'
    BY <1>1, <1>2 DEF WavesInv, WavesTyped, Switches
<1>4. \A j \in DOMAIN lane' : j \in DOMAIN lane /\ (lane'[j] \in Waits => lane[j] \in Waits)
    BY <1>1 DEF Waits
<1>5. /\ OneBatchEach'
      /\ \A b \in DOMAIN attempts' : attempts'[b].batch \in DOMAIN batches'
      /\ \A j \in DOMAIN batches' : Linked(j)'
    BY <1>1, <1>4, StoreStays
<1>6. \A j \in DOMAIN lane' : Heard(j)'
    BY <1>1, <1>2 DEF WavesInv, Heard
<1>7. TurnsAreOpen' /\ ReportedBeforeDone'
    BY <1>1, <1>2 DEF WavesInv, TurnsAreOpen, ReportedBeforeDone
<1> QED
    BY <1>3, <1>5, <1>6, <1>7 DEF WavesInv

LEMMA BeginKeeps ==
  ASSUME WavesInv, NEW i \in DOMAIN batches, Begin(i)
  PROVE  WavesInv'
<1> DEFINE new == Len(attempts) + 1
           row == [batch |-> i, status |-> "active"]
<1>1. /\ UNCHANGED <<log, claims, deltas, tries, draining, mailbox, started, queue>>
      /\ i \in DOMAIN lane /\ lane[i] = "begin" /\ lane' = [lane EXCEPT ![i] = "asked"]
      /\ ~batches[i].done /\ batches[i].active = Nobody
      /\ attempts' = Append(attempts, row)
      /\ batches' = [batches EXCEPT ![i].active = new]
      /\ turns' = turns \cup {new}
    BY DEF Begin, At, Go, Claimable, graph, clock
<1>2. WavesTyped /\ batches \in Seq(BatchRow) /\ attempts \in Seq(AttemptRow)
    BY DEF WavesInv, WavesTyped
<1>3. /\ DOMAIN attempts = 1..Len(attempts) /\ Len(attempts) \in Nat /\ i \in Nat
      /\ batches[i] \in BatchRow
    BY <1>2, TablesAre
<1>4. row \in AttemptRow
    BY <1>3 DEF AttemptRow, Statuses
<1>5. /\ attempts' \in Seq(AttemptRow) /\ Len(attempts') = Len(attempts) + 1
      /\ \A a \in 1..Len(attempts) : attempts'[a] = attempts[a]
      /\ attempts'[new] = row
  <2> HIDE DEF row
  <2> QED
    BY <1>1, <1>2, <1>4, AppendProperties
<1>6. DOMAIN attempts' = DOMAIN attempts \cup {new} /\ new \notin DOMAIN attempts /\ new \in Nat /\ new # 0
  <2>1. DOMAIN attempts' = 1..(Len(attempts) + 1)
      BY <1>5, LenProperties
  <2> QED
      BY <2>1, <1>3
<1> HIDE DEF new
<1>7. PICK r \in BatchRow : r = [batches[i] EXCEPT !.active = new]
    BY <1>3, <1>6 DEF BatchRow
<1>8. r.active = new /\ r.rows = batches[i].rows /\ r.done = batches[i].done
    BY <1>3, <1>7 DEF BatchRow
<1>9. batches' = [batches EXCEPT ![i] = r]
    BY <1>1, <1>7
<1>10. /\ batches' \in Seq(BatchRow) /\ DOMAIN batches' = DOMAIN batches /\ batches'[i] = r
       /\ \A j \in DOMAIN batches : /\ j # i => batches'[j] = batches[j]
                                    /\ batches'[j].rows = batches[j].rows
    BY <1>2, <1>8, <1>9, BatchChanges
<1>11. WavesTyped' /\ Switches'
    BY <1>1, <1>5, <1>6, <1>10 DEF WavesInv, WavesTyped, Switches
<1>12. OneBatchEach'
    BY <1>1, <1>10, RowsStay DEF WavesInv
<1>13. \A a \in DOMAIN attempts : attempts'[a] = attempts[a]
    BY <1>3, <1>5
<1>14. attempts'[new].batch = i /\ attempts'[new].status = "active"
    BY <1>5
<1>15. \A a \in DOMAIN attempts' : attempts'[a].batch \in DOMAIN batches'
    BY <1>6, <1>10, <1>13, <1>14 DEF WavesInv
<1>16. ASSUME NEW j \in DOMAIN batches PROVE Linked(j)'
  <2>1. Linked(j) /\ Linked(i)
      BY DEF WavesInv
  <2>2. AttemptsOf(j, "completed")' = AttemptsOf(j, "completed")
      BY <1>6, <1>13, <1>14 DEF AttemptsOf
  <2>3. CASE j # i
    <3>1. AttemptsOf(j, "active")' = AttemptsOf(j, "active")
        BY <2>3, <1>6, <1>13, <1>14 DEF AttemptsOf
    <3>2. batches'[j] = batches[j] /\ (j \in DOMAIN lane' => j \in DOMAIN lane /\ lane'[j] = lane[j])
        BY <2>3, <1>1, <1>10
    <3> QED
        BY <2>1, <2>2, <3>1, <3>2, <1>6 DEF Linked
  <2>4. CASE j = i
    <3>1. AttemptsOf(i, "active")' = {new}
        BY <2>1, <1>1, <1>6, <1>13, <1>14 DEF AttemptsOf, Linked
    <3>2. batches'[i].active = new /\ ~batches'[i].done /\ new # Nobody
        BY <1>1, <1>6, <1>8, <1>10 DEF Nobody
    <3>3. AttemptsOf(i, "completed") = {}
        BY <2>1, <1>1 DEF Linked
    <3> QED
        BY <2>2, <2>4, <3>1, <3>2, <3>3 DEF Linked
  <2> QED
      BY <2>3, <2>4
<1>17. ASSUME NEW j \in DOMAIN lane' PROVE Heard(j)'
  <2>1. j \in DOMAIN lane /\ j \in DOMAIN batches
      BY <1>1, <1>2 DEF WavesTyped
  <2>2. CASE j = i
      BY <2>2, <1>1 DEF Heard
  <2>3. CASE j # i /\ lane[j] \in {"answered", "told"}
    <3>1. Attempt(j) \in DOMAIN attempts
        BY <2>1, <2>3, <1>2, TaskAttempt DEF WavesInv, Waits
    <3>2. batches[j].active # new /\ batches'[j] = batches[j] /\ lane'[j] = lane[j]
        BY <3>1, <2>1, <2>3, <1>1, <1>6, <1>10 DEF Attempt
    <3> QED
        BY <3>2, <2>1, <1>1 DEF WavesInv, Heard
  <2>4. CASE j # i /\ lane[j] \notin {"answered", "told"}
      BY <2>1, <2>4, <1>1 DEF Heard
  <2> QED
      BY <2>2, <2>3, <2>4
<1>18. TurnsAreOpen'
    BY <1>1, <1>2, <1>13, <1>14 DEF WavesInv, WavesTyped, TurnsAreOpen
<1>19. ReportedBeforeDone'
    BY <1>1, <1>2, <1>13 DEF WavesInv, WavesTyped, ReportedBeforeDone
<1> QED
    BY <1>10, <1>11, <1>12, <1>15, <1>16, <1>17, <1>18, <1>19 DEF WavesInv

LEMMA CompleteKeeps ==
  ASSUME WavesInv, NEW i \in DOMAIN batches, Complete(i)
  PROVE  WavesInv'
<1>1. /\ UNCHANGED <<log, claims, deltas, turns, tries, draining, mailbox, started, queue>>
      /\ i \in DOMAIN lane /\ lane[i] = "told" /\ lane' = [lane EXCEPT ![i] = "settled"]
      /\ attempts' = [attempts EXCEPT ![Attempt(i)].status = "completed"]
      /\ batches' = [batches EXCEPT ![i].active = Nobody, ![i].done = TRUE]
    BY DEF Complete, At, Go, graph, clock
<1>2. WavesTyped /\ batches[i] \in BatchRow /\ lane[i] \in Waits
    BY <1>1, TablesAre DEF WavesInv, Waits
<1>3. PICK r \in BatchRow : r = [batches[i] EXCEPT !.active = Nobody, !.done = TRUE]
    BY <1>2 DEF BatchRow, Nobody
<1>4. r.active = Nobody /\ r.rows = batches[i].rows /\ r.done
    BY <1>2, <1>3 DEF BatchRow
<1>5. batches' = [batches EXCEPT ![i] = r]
    BY <1>1, <1>3
<1>6. /\ attempts' \in Seq(AttemptRow) /\ DOMAIN attempts' = DOMAIN attempts
      /\ batches' \in Seq(BatchRow) /\ DOMAIN batches' = DOMAIN batches
      /\ \A j \in DOMAIN batches : batches'[j].rows = batches[j].rows
      /\ \A a \in DOMAIN attempts : attempts'[a].batch = attempts[a].batch
      /\ \A j \in DOMAIN batches : Linked(j)'
    BY <1>1, <1>2, <1>4, <1>5, AttemptEnds
<1>7. PICK a \in DOMAIN attempts : a = batches[i].active /\ a = Attempt(i) /\ attempts[a].batch = i
    BY <1>1, <1>2, TaskAttempt DEF WavesInv, Attempt
<1>8. \A b \in DOMAIN attempts : attempts'[b].status = IF b = a THEN "completed" ELSE attempts[b].status
  <2>1. attempts' = [attempts EXCEPT ![a].status = "completed"] /\ "completed" \in Statuses
      BY <1>1, <1>7 DEF Statuses
  <2> QED
      BY <1>2, <2>1, StatusChanges
<1>9. Heard(i) /\ a \notin turns
    BY <1>1, <1>7 DEF WavesInv, Heard
<1>10. WavesTyped' /\ Switches'
    BY <1>1, <1>6 DEF WavesInv, WavesTyped, Switches
<1>11. OneBatchEach'
    BY <1>1, <1>6, RowsStay DEF WavesInv
<1>12. \A b \in DOMAIN attempts' : attempts'[b].batch \in DOMAIN batches'
    BY <1>6 DEF WavesInv
<1>13. ASSUME NEW j \in DOMAIN lane' PROVE Heard(j)'
  <2>1. j \in DOMAIN lane /\ j \in DOMAIN batches
      BY <1>1, <1>2 DEF WavesTyped
  <2>2. CASE j = i
      BY <2>1, <2>2, <1>1 DEF Heard
  <2>3. CASE j # i
    <3>1. lane'[j] = lane[j] /\ Heard(j)
        BY <2>1, <2>3, <1>1 DEF WavesInv
    <3>2. batches'[j] = batches[j]
        BY <2>1, <2>3, <1>5
    <3> QED
        BY <3>1, <3>2, <1>1 DEF Heard
  <2> QED
      BY <2>2, <2>3
<1>14. TurnsAreOpen'
    BY <1>1, <1>2, <1>8, <1>9 DEF WavesInv, WavesTyped, TurnsAreOpen
<1>15. ReportedBeforeDone'
    BY <1>1, <1>2, <1>6, <1>7, <1>8, <1>9 DEF WavesInv, WavesTyped, Heard, ReportedBeforeDone
<1> QED
    BY <1>6, <1>10, <1>11, <1>12, <1>13, <1>14, <1>15 DEF WavesInv

(* A try fails: the attempt and the claim on the Batch go, what was        *)
(* recorded and told stays.                                                *)
LEMMA RetryKeeps ==
  ASSUME WavesInv, NEW i \in DOMAIN batches, i \in DOMAIN lane, lane[i] \in Waits, Retry(i),
         UNCHANGED <<log, claims, draining, mailbox, started, queue>>, turns' \subseteq turns,
         deltas' \in {deltas, Told(i)}
  PROVE  WavesInv'
<1>1. /\ attempts' = [attempts EXCEPT ![Attempt(i)].status = "failed"]
      /\ batches' = [batches EXCEPT ![i].active = Nobody]
      /\ DOMAIN tries' = DOMAIN tries
      /\ lane' = [lane EXCEPT ![i] = IF tries[i] + 1 < Tries THEN "begin" ELSE "failed"]
    BY DEF Retry, Go
<1>2. WavesTyped /\ batches[i] \in BatchRow
    BY TablesAre DEF WavesInv
<1>3. PICK r \in BatchRow : r = [batches[i] EXCEPT !.active = Nobody]
    BY <1>2 DEF BatchRow, Nobody
<1>4. r.active = Nobody /\ r.rows = batches[i].rows /\ r.done = batches[i].done
    BY <1>2, <1>3 DEF BatchRow
<1>5. batches' = [batches EXCEPT ![i] = r]
    BY <1>1, <1>3
<1>6. PICK point \in {"begin", "settled", "failed"} : lane' = [lane EXCEPT ![i] = point]
    BY <1>1
<1>7. /\ attempts' \in Seq(AttemptRow) /\ DOMAIN attempts' = DOMAIN attempts
      /\ batches' \in Seq(BatchRow) /\ DOMAIN batches' = DOMAIN batches
      /\ \A j \in DOMAIN batches : batches'[j].rows = batches[j].rows
      /\ \A a \in DOMAIN attempts : attempts'[a].batch = attempts[a].batch
      /\ \A j \in DOMAIN batches : Linked(j)'
    BY <1>1, <1>4, <1>5, <1>6, AttemptEnds
<1>8. PICK a \in DOMAIN attempts : a = Attempt(i) /\ attempts[a].batch = i
    BY <1>2, TaskAttempt DEF WavesInv
<1>9. \A b \in DOMAIN attempts : attempts'[b].status = IF b = a THEN "failed" ELSE attempts[b].status
  <2>1. attempts' = [attempts EXCEPT ![a].status = "failed"] /\ "failed" \in Statuses
      BY <1>1, <1>8 DEF Statuses
  <2> QED
      BY <1>2, <2>1, StatusChanges
<1>10. deltas \subseteq deltas' /\ deltas' \subseteq [batch : Nat, from : SUBSET Nat]
    BY <1>2, ToldIs DEF WavesTyped
<1>11. WavesTyped' /\ Switches'
    BY <1>6, <1>1, <1>7, <1>10 DEF WavesInv, WavesTyped, Switches
<1>12. OneBatchEach'
    BY <1>7, RowsStay DEF WavesInv
<1>13. \A b \in DOMAIN attempts' : attempts'[b].batch \in DOMAIN batches'
    BY <1>7 DEF WavesInv
<1>14. ASSUME NEW j \in DOMAIN lane' PROVE Heard(j)'
  <2>1. j \in DOMAIN lane /\ j \in DOMAIN batches
      BY <1>6, <1>2 DEF WavesTyped
  <2>2. CASE j = i
      BY <2>1, <2>2, <1>6 DEF Heard
  <2>3. CASE j # i
    <3>1. lane'[j] = lane[j] /\ batches'[j] = batches[j] /\ Heard(j)
        BY <2>1, <2>3, <1>5, <1>6 DEF WavesInv
    <3> QED
        BY <3>1, <1>10 DEF Heard
  <2> QED
      BY <2>2, <2>3
<1>15. TurnsAreOpen'
    BY <1>2, <1>9 DEF WavesInv, WavesTyped, TurnsAreOpen
<1>16. ReportedBeforeDone'
    BY <1>2, <1>7, <1>9, <1>10 DEF WavesInv, WavesTyped, ReportedBeforeDone
<1> QED
    BY <1>7, <1>11, <1>12, <1>13, <1>14, <1>15, <1>16 DEF WavesInv

LEMMA TroubleKeeps ==
  ASSUME WavesInv, NEW i \in DOMAIN batches, Trouble(i)
  PROVE  WavesInv'
<1>1. CASE AskFails(i)
  <2>1. /\ i \in DOMAIN lane /\ lane[i] \in Waits /\ Retry(i) /\ turns' \subseteq turns
        /\ UNCHANGED <<log, claims, deltas, draining, mailbox, started, queue>>
      BY <1>1 DEF AskFails, At, Waits, graph, clock
  <2> QED
      BY <2>1, RetryKeeps
<1>2. CASE TellFails(i)
  <2>1. /\ i \in DOMAIN lane /\ lane[i] \in Waits /\ Retry(i) /\ turns' = turns
        /\ UNCHANGED <<log, claims, draining, mailbox, started, queue>> /\ deltas' \in {deltas, Told(i)}
      BY <1>2 DEF TellFails, At, Waits, clock
  <2> QED
      BY <2>1, RetryKeeps
<1>3. CASE StoreFails(i) /\ At(i, "told") /\ Retry(i) /\ UNCHANGED turns
  <2>1. /\ i \in DOMAIN lane /\ lane[i] \in Waits
        /\ UNCHANGED <<log, claims, deltas, draining, mailbox, started, queue>>
      BY <1>3 DEF StoreFails, At, Waits, graph, clock
  <2> QED
      BY <2>1, <1>3, RetryKeeps
<1>4. CASE StoreFails(i) /\ i \in DOMAIN lane /\ Go(i, "failed")
           /\ UNCHANGED <<attempts, batches, tries, turns>>
  <2>1. /\ UNCHANGED <<log, batches, attempts, claims, deltas, turns, tries, draining, mailbox, started, queue>>
        /\ lane' = [lane EXCEPT ![i] = "failed"]
      BY <1>4 DEF StoreFails, Go, graph, clock
  <2>2. WavesTyped' /\ Switches'
      BY <2>1 DEF WavesInv, WavesTyped, Switches
  <2>3. \A j \in DOMAIN lane' : j \in DOMAIN lane /\ (lane'[j] \in Waits => lane[j] \in Waits)
      BY <2>1 DEF Waits
  <2>4. /\ OneBatchEach'
        /\ \A b \in DOMAIN attempts' : attempts'[b].batch \in DOMAIN batches'
        /\ \A j \in DOMAIN batches' : Linked(j)'
      BY <2>1, <2>3, StoreStays
  <2>5. \A j \in DOMAIN lane' : Heard(j)'
      BY <2>1 DEF WavesInv, Heard
  <2>6. TurnsAreOpen' /\ ReportedBeforeDone'
      BY <2>1 DEF WavesInv, TurnsAreOpen, ReportedBeforeDone
  <2> QED
      BY <2>2, <2>4, <2>5, <2>6 DEF WavesInv
<1> QED
    BY <1>1, <1>2, <1>3, <1>4 DEF Trouble, StoreFails

LEMMA DieKeeps ==
  ASSUME WavesInv, Die
  PROVE  WavesInv'
<1>1. /\ UNCHANGED <<log, claims, deltas>> /\ attempts' = Interrupted /\ batches' = ReleasedBatches
      /\ lane' = NoTask /\ tries' = NoTask /\ turns' = {} /\ queue' = 1
      /\ mailbox' = FALSE /\ started' = FALSE /\ draining' = FALSE
    BY DEF Die, graph, Recovered
<1>2. DOMAIN NoTask = {}
    BY DEF NoTask
<1>3. WavesTyped
    BY DEF WavesInv
<1>4. /\ DOMAIN batches = 1..Len(batches) /\ Len(batches) \in Nat
      /\ DOMAIN attempts = 1..Len(attempts) /\ Len(attempts) \in Nat
      /\ \A i \in DOMAIN batches : batches[i] \in BatchRow
      /\ \A a \in DOMAIN attempts : attempts[a] \in AttemptRow
    BY <1>3, TablesAre
<1>5. /\ attempts' \in Seq(AttemptRow) /\ DOMAIN attempts' = DOMAIN attempts
      /\ \A a \in DOMAIN attempts :
           /\ attempts'[a].batch = attempts[a].batch
           /\ attempts'[a].status = IF attempts[a].status = "active" THEN "interrupted" ELSE attempts[a].status
  <2>1. \A r \in AttemptRow : LET q == [r EXCEPT !.status = "interrupted"]
                              IN  q \in AttemptRow /\ q.batch = r.batch /\ q.status = "interrupted"
      BY DEF AttemptRow, Statuses
  <2>2. \A a \in DOMAIN attempts : Interrupted[a] \in AttemptRow
      BY <2>1, <1>4 DEF Interrupted
  <2>3. Interrupted \in [1..Len(attempts) -> AttemptRow]
      BY <2>2, <1>4 DEF Interrupted
  <2>4. Interrupted \in Seq(AttemptRow) /\ DOMAIN Interrupted = DOMAIN attempts
      BY <2>3, <1>4, IsASeq
  <2> QED
      BY <2>1, <2>4, <1>1, <1>4 DEF Interrupted
<1>6. /\ batches' \in Seq(BatchRow) /\ DOMAIN batches' = DOMAIN batches
      /\ \A i \in DOMAIN batches :
           /\ batches'[i].active = Nobody /\ batches'[i].rows = batches[i].rows
           /\ batches'[i].done = batches[i].done
  <2>1. \A r \in BatchRow : LET q == [r EXCEPT !.active = Nobody]
                            IN  q \in BatchRow /\ q.active = Nobody /\ q.rows = r.rows /\ q.done = r.done
      BY DEF BatchRow, Nobody
  <2>2. ReleasedBatches \in [1..Len(batches) -> BatchRow]
      BY <2>1, <1>4 DEF ReleasedBatches
  <2>3. ReleasedBatches \in Seq(BatchRow) /\ DOMAIN ReleasedBatches = DOMAIN batches
      BY <2>2, <1>4, IsASeq
  <2> QED
      BY <2>1, <2>3, <1>1, <1>4 DEF ReleasedBatches
<1>7. WavesTyped'
    BY <1>1, <1>2, <1>3, <1>5, <1>6 DEF WavesTyped
<1>8. Switches'
    BY <1>1 DEF Switches
<1>9. OneBatchEach'
    BY <1>1, <1>6, RowsStay DEF WavesInv
<1>10. ASSUME NEW i \in DOMAIN batches PROVE Linked(i)'
  <2>1. Linked(i)
      BY DEF WavesInv
  <2>2. AttemptsOf(i, "active")' = {}
      BY <1>5 DEF AttemptsOf
  <2>3. AttemptsOf(i, "completed")' = AttemptsOf(i, "completed")
      BY <1>5 DEF AttemptsOf
  <2> QED
      BY <2>1, <2>2, <2>3, <1>1, <1>2, <1>5, <1>6 DEF Linked
<1>11. TurnsAreOpen' /\ \A i \in DOMAIN lane' : Heard(i)'
    BY <1>1, <1>2 DEF TurnsAreOpen
<1>12. ReportedBeforeDone'
    BY <1>1, <1>3, <1>5 DEF WavesInv, WavesTyped, ReportedBeforeDone
<1>13. \A b \in DOMAIN attempts' : attempts'[b].batch \in DOMAIN batches'
    BY <1>5, <1>6 DEF WavesInv
<1> QED
    BY <1>6, <1>7, <1>8, <1>9, <1>10, <1>11, <1>12, <1>13 DEF WavesInv

-----------------------------------------------------------------------------
(* A wave is claimed: the Batches cut from the inbox are new, and the      *)
(* oldest of what is pending is in them.                                   *)

LEMMA ReopenedIs ==
  ASSUME WavesTyped
  PROVE  Reopened \subseteq DOMAIN batches /\ IsFiniteSet(Reopened) /\ Cardinality(Reopened) \in Nat
<1>1. Reopened \subseteq DOMAIN batches
    BY DEF Reopened
<1>2. DOMAIN batches = 1..Len(batches) /\ Len(batches) \in Nat
    BY TablesAre
<1>3. IsFiniteSet(DOMAIN batches)
  <2>1. IsFiniteSet(1..Len(batches))
      BY <1>2, FS_Interval
  <2> QED
      BY <1>2, <2>1
<1> QED
    BY <1>1, <1>3, FS_Subset, FS_CardinalityType

Cut ==
  LET slots == WaveBatches - Cardinality(Reopened)
  IN  IF slots > 0 THEN Split(NextRows, slots) ELSE <<>>

LEMMA CutIs ==
  ASSUME WavesTyped
  PROVE  /\ Cut \in Seq(Seq(Observation))
         /\ \A k \in DOMAIN Cut : Cut[k] # <<>> /\ IsInjective(Cut[k]) /\ Range(Cut[k]) \subseteq Pending
         /\ \A k, l \in DOMAIN Cut : k # l => Range(Cut[k]) \cap Range(Cut[l]) = {}
         /\ \A k \in DOMAIN Cut : \A o \in Range(Cut[k]), p \in Pending :
              (\A l \in DOMAIN Cut : p \notin Range(Cut[l])) => ~Precedes(p, o)
<1> DEFINE slots == WaveBatches - Cardinality(Reopened)
<1>1. slots \in Int
    BY ReopenedIs, WavesAssumption
<1>2. log \in Seq(Observation)
    BY DEF WavesTyped
<1>3. CASE ~(slots > 0)
  <2>1. Cut = <<>>
      BY <1>3 DEF Cut
  <2>2. <<>> \in Seq(Seq(Observation)) /\ DOMAIN <<>> = {}
      BY EmptySeq
  <2> QED
      BY <2>1, <2>2
<1>4. CASE slots > 0
  <2>1. slots \in Nat \ {0}
      BY <1>1, <1>4
  <2>2. Cut = Split(NextRows, slots)
      BY <1>4 DEF Cut
  <2>3. /\ NextRows \in Seq(Pending) /\ IsInjective(NextRows)
        /\ \A o \in Range(NextRows), p \in Pending \ Range(NextRows) : ~Precedes(p, o)
      BY <1>2, NextRowsAre
  <2>4. Range(NextRows) \subseteq Pending
      BY <2>3, RangeOfSeq
  <2>5. Pending \subseteq Observation
      BY <1>2, RangeOfSeq DEF Pending
  <2>6. NextRows \in Seq(Observation)
      BY <2>3, <2>5, SeqMonotonic
  <2> HIDE DEF slots
  <2>7. /\ Cut \in Seq(Seq(Observation))
        /\ \A k \in DOMAIN Cut : Cut[k] # <<>> /\ IsInjective(Cut[k]) /\ Range(Cut[k]) \subseteq Range(NextRows)
        /\ \A k, l \in DOMAIN Cut : k # l => Range(Cut[k]) \cap Range(Cut[l]) = {}
        /\ \A r \in Range(NextRows) : \E k \in DOMAIN Cut : r \in Range(Cut[k])
      BY <2>1, <2>2, <2>3, <2>6, SplitIs
  <2>8. ASSUME NEW k \in DOMAIN Cut, NEW o \in Range(Cut[k]), NEW p \in Pending,
               \A l \in DOMAIN Cut : p \notin Range(Cut[l])
        PROVE  ~Precedes(p, o)
    <3>1. o \in Range(NextRows) /\ p \notin Range(NextRows)
        BY <2>7, <2>8
    <3> QED
        BY <3>1, <2>3
  <2> QED
      BY <2>4, <2>7, <2>8
<1> QED
    BY <1>3, <1>4

LEMMA ClaimIs ==
  ASSUME WavesInv, ClaimWave
  PROVE  /\ batches' \in Seq(BatchRow)
         /\ DOMAIN batches' = DOMAIN batches \cup {Len(batches) + k : k \in DOMAIN Cut}
         /\ \A i \in DOMAIN batches : batches'[i] = batches[i]
         /\ \A k \in DOMAIN Cut : /\ Len(batches) + k \notin DOMAIN batches
                                  /\ batches'[Len(batches) + k] = Fresh(Cut[k])
         /\ DOMAIN lane' \subseteq DOMAIN batches' /\ DOMAIN tries' = DOMAIN lane'
         /\ \A i \in DOMAIN lane' : lane'[i] = "begin"
         /\ draining' \in BOOLEAN
         /\ UNCHANGED <<log, attempts, claims, deltas, mailbox, started, queue, turns>>
<1> DEFINE more == [k \in DOMAIN Cut |-> Fresh(Cut[k])]
           tasks == Reopened \cup {Len(batches) + k : k \in DOMAIN Cut}
<1>1. WavesTyped /\ batches \in Seq(BatchRow)
    BY DEF WavesInv, WavesTyped
<1>2. /\ batches' = batches \o more
      /\ lane' = [i \in tasks |-> "begin"] /\ tries' = [i \in tasks |-> 0]
      /\ draining' = (tasks # {})
      /\ UNCHANGED <<log, attempts, claims, deltas, mailbox, started, queue, turns>>
    BY DEF ClaimWave, Cut, graph, clock
<1>3. Cut \in Seq(Seq(Observation)) /\ Reopened \subseteq DOMAIN batches
    BY <1>1, CutIs, ReopenedIs
<1>4. DOMAIN Cut = 1..Len(Cut) /\ Len(Cut) \in Nat /\ \A k \in DOMAIN Cut : Cut[k] \in Seq(Observation)
    BY <1>3, LenProperties, ElementOfSeq
<1>5. \A k \in DOMAIN Cut : Fresh(Cut[k]) \in BatchRow
    BY <1>4 DEF Fresh, BatchRow, Nobody
<1>6. more \in Seq(BatchRow) /\ Len(more) = Len(Cut)
  <2>1. more \in [1..Len(Cut) -> BatchRow]
      BY <1>4, <1>5
  <2> HIDE DEF more
  <2>2. more \in Seq(BatchRow)
      BY <2>1, <1>4, IsASeq
  <2> QED
      BY <2>1, <2>2, <1>4, LenProperties
<1>7. DOMAIN batches = 1..Len(batches) /\ Len(batches) \in Nat
    BY <1>1, TablesAre
<1>8. /\ batches' \in Seq(BatchRow) /\ Len(batches') = Len(batches) + Len(Cut)
      /\ \A i \in 1..(Len(batches) + Len(Cut)) :
           batches'[i] = IF i <= Len(batches) THEN batches[i] ELSE more[i - Len(batches)]
  <2> HIDE DEF more
  <2>1. /\ batches \o more \in Seq(BatchRow) /\ Len(batches \o more) = Len(batches) + Len(more)
        /\ \A i \in 1..(Len(batches) + Len(more)) :
             (batches \o more)[i] = IF i <= Len(batches) THEN batches[i] ELSE more[i - Len(batches)]
      BY <1>1, <1>6, ConcatProperties
  <2>2. batches' = batches \o more /\ Len(more) = Len(Cut)
      BY <1>2, <1>6
  <2> QED
      BY <2>1, <2>2
<1>9. DOMAIN batches' = 1..(Len(batches) + Len(Cut))
    BY <1>8, LenProperties
<1>10. DOMAIN batches' = DOMAIN batches \cup {Len(batches) + k : k \in DOMAIN Cut}
  <2>1. \A i \in 1..(Len(batches) + Len(Cut)) :
          i \in 1..Len(batches) \/ (i - Len(batches) \in 1..Len(Cut) /\ i = Len(batches) + (i - Len(batches)))
      BY <1>4, <1>7
  <2>2. \A k \in 1..Len(Cut) : Len(batches) + k \in 1..(Len(batches) + Len(Cut))
      BY <1>4, <1>7
  <2>3. \A i \in 1..Len(batches) : i \in 1..(Len(batches) + Len(Cut))
      BY <1>4, <1>7
  <2> QED
      BY <2>1, <2>2, <2>3, <1>4, <1>7, <1>9
<1>11. \A i \in DOMAIN batches : batches'[i] = batches[i]
  <2>1. \A i \in 1..Len(batches) : i \in 1..(Len(batches) + Len(Cut)) /\ i <= Len(batches)
      BY <1>4, <1>7
  <2> HIDE DEF more
  <2> QED
      BY <2>1, <1>7, <1>8
<1>12. ASSUME NEW k \in DOMAIN Cut
       PROVE  /\ Len(batches) + k \notin DOMAIN batches
              /\ batches'[Len(batches) + k] = Fresh(Cut[k])
  <2>1. /\ Len(batches) + k \in 1..(Len(batches) + Len(Cut)) /\ ~(Len(batches) + k <= Len(batches))
        /\ (Len(batches) + k) - Len(batches) = k
      BY <1>4, <1>7
  <2>2. more[k] = Fresh(Cut[k])
      OBVIOUS
  <2>3. batches'[Len(batches) + k] = more[k]
    <3> HIDE DEF more
    <3> QED
      BY <2>1, <1>8
  <2> QED
      BY <2>1, <2>2, <2>3, <1>7
<1>13. DOMAIN lane' \subseteq DOMAIN batches' /\ DOMAIN tries' = DOMAIN lane'
       /\ \A i \in DOMAIN lane' : lane'[i] = "begin"
    BY <1>2, <1>3, <1>10
<1>14. draining' \in BOOLEAN
  <2>1. draining' = (tasks # {})
      BY <1>2
  <2> HIDE DEF tasks
  <2> QED
      BY <2>1, Zenon
<1> QED
    BY <1>2, <1>8, <1>10, <1>11, <1>12, <1>13, <1>14

LEMMA ClaimWaveKeeps ==
  ASSUME WavesInv, ClaimWave
  PROVE  WavesInv'
<1> DEFINE at(k) == Len(batches) + k
<1>1. /\ batches' \in Seq(BatchRow)
      /\ DOMAIN batches' = DOMAIN batches \cup {at(k) : k \in DOMAIN Cut}
      /\ \A i \in DOMAIN batches : batches'[i] = batches[i]
      /\ \A k \in DOMAIN Cut : at(k) \notin DOMAIN batches /\ batches'[at(k)] = Fresh(Cut[k])
      /\ DOMAIN lane' \subseteq DOMAIN batches' /\ DOMAIN tries' = DOMAIN lane'
      /\ \A i \in DOMAIN lane' : lane'[i] = "begin"
      /\ UNCHANGED <<log, attempts, claims, deltas, mailbox, started, queue, turns>>
    BY ClaimIs
<1>2. WavesTyped /\ \A i \in DOMAIN batches : Linked(i)
    BY DEF WavesInv
<1>3. /\ \A k \in DOMAIN Cut : Cut[k] # <<>> /\ IsInjective(Cut[k]) /\ Range(Cut[k]) \subseteq Pending
      /\ \A k, l \in DOMAIN Cut : k # l => Range(Cut[k]) \cap Range(Cut[l]) = {}
    BY <1>2, CutIs
<1>4. WavesTyped'
    BY <1>1, <1>2 DEF WavesTyped
<1>5. Switches'
  <2>1. draining' \in BOOLEAN
      BY ClaimIs
  <2>2. mailbox' \in BOOLEAN /\ started' \in BOOLEAN
      BY <1>1 DEF WavesInv, Switches
  <2> QED
      BY <2>1, <2>2 DEF Switches
<1>6. \A k \in DOMAIN Cut : batches'[at(k)].rows = Cut[k] /\ batches'[at(k)].active = Nobody
                            /\ batches'[at(k)].done = FALSE
  <2>1. \A s : Fresh(s).rows = s /\ Fresh(s).active = Nobody /\ Fresh(s).done = FALSE
      BY DEF Fresh
  <2>2. \A k \in DOMAIN Cut : batches'[at(k)] = Fresh(Cut[k])
      BY <1>1
  <2> QED
      BY <2>1, <2>2
<1>7. OneBatchEach'
  <2>1. \A i \in DOMAIN batches' : i \in DOMAIN batches \/ \E k \in DOMAIN Cut : i = at(k)
      BY <1>1
  <2>2. ASSUME NEW i \in DOMAIN batches' PROVE batches'[i].rows # <<>> /\ IsInjective(batches'[i].rows)
    <3>1. CASE i \in DOMAIN batches
        BY <3>1, <1>1 DEF WavesInv, OneBatchEach
    <3>2. CASE \E k \in DOMAIN Cut : i = at(k)
        BY <3>2, <1>3, <1>6
    <3> QED
        BY <2>1, <3>1, <3>2
  <2>3. ASSUME NEW i \in DOMAIN batches PROVE batches'[i].rows = batches[i].rows /\ Range(batches[i].rows) \subseteq Batched
      BY <1>1 DEF Batched
  <2>4. \A k \in DOMAIN Cut : Range(Cut[k]) \cap Batched = {} /\ Range(Cut[k]) \subseteq Range(log)
      BY <1>3 DEF Pending
  <2>5. ASSUME NEW i \in DOMAIN batches', NEW j \in DOMAIN batches', i # j
        PROVE  Range(batches'[i].rows) \cap Range(batches'[j].rows) = {}
    <3>1. CASE i \in DOMAIN batches /\ j \in DOMAIN batches
        BY <3>1, <2>3, <2>5 DEF WavesInv, OneBatchEach
    <3>2. CASE i \in DOMAIN batches /\ \E k \in DOMAIN Cut : j = at(k)
        BY <3>2, <2>3, <2>4, <1>6
    <3>3. CASE j \in DOMAIN batches /\ \E k \in DOMAIN Cut : i = at(k)
        BY <3>3, <2>3, <2>4, <1>6
    <3>4. CASE (\E k \in DOMAIN Cut : i = at(k)) /\ (\E l \in DOMAIN Cut : j = at(l))
      <4>1. PICK k \in DOMAIN Cut : i = at(k)
          BY <3>4
      <4>2. PICK l \in DOMAIN Cut : j = at(l)
          BY <3>4
      <4>3. k # l
          BY <4>1, <4>2, <2>5
      <4> QED
          BY <4>1, <4>2, <4>3, <1>3, <1>6
    <3> QED
        BY <2>1, <3>1, <3>2, <3>3, <3>4
  <2>6. Batched' \subseteq Range(log)'
    <3> SUFFICES ASSUME NEW i \in DOMAIN batches' PROVE Range(batches'[i].rows) \subseteq Range(log)
        BY <1>1 DEF Batched
    <3>1. CASE i \in DOMAIN batches
        BY <3>1, <2>3 DEF WavesInv, OneBatchEach
    <3>2. CASE \E k \in DOMAIN Cut : i = at(k)
        BY <3>2, <2>4, <1>6
    <3> QED
        BY <2>1, <3>1, <3>2
  <2> QED
      BY <2>2, <2>5, <2>6 DEF OneBatchEach
<1>8. \A a \in DOMAIN attempts' : attempts'[a].batch \in DOMAIN batches'
    BY <1>1 DEF WavesInv
<1>9. ASSUME NEW i \in DOMAIN batches' PROVE Linked(i)'
  <2>1. AttemptsOf(i, "active")' = AttemptsOf(i, "active")
        /\ AttemptsOf(i, "completed")' = AttemptsOf(i, "completed")
      BY <1>1 DEF AttemptsOf
  <2>2. i \in DOMAIN lane' => lane'[i] \notin Waits
      BY <1>1 DEF Waits
  <2>3. CASE i \in DOMAIN batches
      BY <2>1, <2>2, <2>3, <1>1, <1>2 DEF Linked
  <2>4. CASE i \notin DOMAIN batches
    <3>1. AttemptsOf(i, "active") = {} /\ AttemptsOf(i, "completed") = {}
        BY <2>4 DEF AttemptsOf, WavesInv
    <3>2. batches'[i].active = Nobody /\ batches'[i].done = FALSE
        BY <2>4, <1>1, <1>6
    <3> QED
        BY <2>1, <2>2, <3>1, <3>2 DEF Linked
  <2> QED
      BY <2>3, <2>4
<1>10. \A i \in DOMAIN lane' : Heard(i)'
    BY <1>1 DEF Heard
<1>11. TurnsAreOpen' /\ ReportedBeforeDone'
    BY <1>1 DEF WavesInv, TurnsAreOpen, ReportedBeforeDone
<1> QED
    BY <1>4, <1>5, <1>7, <1>8, <1>9, <1>10, <1>11 DEF WavesInv

LEMMA NextWavesInv == WavesInv /\ [ScribeNext]_scribeVars => WavesInv'
<1> SUFFICES ASSUME WavesInv, [ScribeNext]_scribeVars PROVE WavesInv'
    OBVIOUS
<1>1. CASE (\E o \in Observation : Offer(o)) \/ Flush \/ DrainStarts \/ WaveSettles
           \/ UNCHANGED scribeVars
    BY <1>1, ClockKeeps
<1>2. CASE ClaimWave
    BY <1>2, ClaimWaveKeeps
<1>3. CASE \E i \in DOMAIN batches : Task(i) \/ Trouble(i)
    BY <1>3, BeginKeeps, AnswerKeeps, TellKeeps, CompleteKeeps, TroubleKeeps DEF Task
<1>4. CASE \E a \in turns : Attest(a)
    BY <1>4, AttestKeeps
<1>5. CASE Die
    BY <1>5, DieKeeps
<1> QED
    BY <1>1, <1>2, <1>3, <1>4, <1>5 DEF ScribeNext

(* Only a claim gives a Batch rows.                                        *)
LEMMA OnlyClaimsMoveRows ==
  ASSUME WavesInv, [ScribeNext]_scribeVars, ~ClaimWave
  PROVE  Batched' = Batched
<1>1. WavesTyped /\ \A i \in DOMAIN batches : batches[i] \in BatchRow
    BY TablesAre DEF WavesInv
<1>2. \/ batches' = batches
      \/ \E i \in DOMAIN batches, n \in Nat : batches' = [batches EXCEPT ![i].active = n]
      \/ \E i \in DOMAIN batches : batches' = [batches EXCEPT ![i].active = Nobody, ![i].done = TRUE]
      \/ batches' = ReleasedBatches
  <2>1. CASE \E i \in DOMAIN batches : Begin(i)
    <3>1. Len(attempts) + 1 \in Nat
        BY <1>1, TablesAre
    <3> QED
        BY <2>1, <3>1 DEF Begin
  <2>2. CASE \E i \in DOMAIN batches : Retry(i)
    <3>1. Nobody \in Nat
        BY DEF Nobody
    <3> QED
        BY <2>2, <3>1 DEF Retry
  <2>3. CASE \E i \in DOMAIN batches : Complete(i)
      BY <2>3 DEF Complete
  <2>4. CASE Die
      BY <2>4 DEF Die
  <2>5. CASE UNCHANGED batches
      BY <2>5
  <2>6. \A i \in DOMAIN batches : Trouble(i) => Retry(i) \/ UNCHANGED batches
      BY DEF Trouble, AskFails, TellFails, StoreFails
  <2> QED
      BY <2>1, <2>2, <2>3, <2>4, <2>5, <2>6
      DEF ScribeNext, Offer, Flush, DrainStarts, WaveSettles, Task, Answer, Tell, Attest,
          scribeVars, store
<1>3. DOMAIN batches' = DOMAIN batches /\ \A j \in DOMAIN batches : batches'[j].rows = batches[j].rows
  <2>1. CASE \E i \in DOMAIN batches, n \in Nat : batches' = [batches EXCEPT ![i].active = n]
      BY <2>1, <1>1 DEF BatchRow
  <2>2. CASE \E i \in DOMAIN batches : batches' = [batches EXCEPT ![i].active = Nobody, ![i].done = TRUE]
      BY <2>2, <1>1 DEF BatchRow
  <2>3. CASE batches' = ReleasedBatches
      BY <2>3, <1>1 DEF ReleasedBatches, BatchRow
  <2> QED
      BY <2>1, <2>2, <2>3, <1>2
<1> QED
    BY <1>3 DEF Batched

LEMMA ClaimsInOrder ==
  ASSUME WavesInv, [ScribeNext]_scribeVars,
         NEW o \in Batched' \ Batched, NEW p \in Pending'
  PROVE  ~KnownBefore(p, o)
<1>1. ClaimWave
    BY OnlyClaimsMoveRows
<1>2. /\ DOMAIN batches' = DOMAIN batches \cup {Len(batches) + k : k \in DOMAIN Cut}
      /\ \A i \in DOMAIN batches : batches'[i] = batches[i]
      /\ \A k \in DOMAIN Cut : batches'[Len(batches) + k] = Fresh(Cut[k])
      /\ log' = log
    BY <1>1, ClaimIs
<1>3. \A k \in DOMAIN Cut : batches'[Len(batches) + k].rows = Cut[k]
  <2>1. \A s : Fresh(s).rows = s
      BY DEF Fresh
  <2> QED
      BY <2>1, <1>2
<1>4. PICK i \in DOMAIN batches' : o \in Range(batches'[i].rows)
    BY DEF Batched
<1>5. i \notin DOMAIN batches
    BY <1>2, <1>4 DEF Batched
<1>6. PICK k \in DOMAIN Cut : o \in Range(Cut[k])
    BY <1>2, <1>3, <1>4, <1>5
<1>7. p \in Pending
  <2>1. Batched \subseteq Batched'
      BY <1>2 DEF Batched
  <2> QED
      BY <2>1, <1>2 DEF Pending
<1>8. \A l \in DOMAIN Cut : p \notin Range(Cut[l])
    BY <1>2, <1>3 DEF Pending, Batched
<1>9. ~Precedes(p, o)
    BY <1>6, <1>7, <1>8, CutIs DEF WavesInv
<1>10. o \in Pending
    BY <1>6, CutIs DEF WavesInv
<1>11. OccurredAt[p] \in Nat /\ OccurredAt[o] \in Nat
  <2>1. Pending \subseteq Observation
      BY RangeOfSeq DEF WavesInv, WavesTyped, Pending
  <2> QED
      BY <2>1, <1>7, <1>10, WavesAssumption
<1> QED
    BY <1>9, <1>11 DEF KnownBefore, Precedes

LEMMA ClaimsAreTimely ==
  ASSUME WavesInv, [ScribeNext]_scribeVars, NEW a \in claims' \ claims
  PROVE  attempts[a].status \in {"active", "failed"}
<1>1. CASE \E b \in turns : Attest(b)
    BY <1>1 DEF Attest, WavesInv, TurnsAreOpen
<1>2. CASE UNCHANGED claims
    BY <1>2
<1> QED
    BY <1>1, <1>2 DEF ScribeNext, Offer, Flush, DrainStarts, ClaimWave, WaveSettles, Task, Begin,
       Answer, Tell, Complete, Trouble, AskFails, TellFails, StoreFails, Die, scribeVars, graph

(* One attempt is active and one at most completed.                        *)
LEMMA LinkedAgree ==
  ASSUME WavesInv
  PROVE  AttemptsAgree
<1> SUFFICES ASSUME NEW i \in DOMAIN batches
    PROVE /\ AttemptsOf(i, "active") = (IF batches[i].active = Nobody THEN {} ELSE {batches[i].active})
          /\ Cardinality(AttemptsOf(i, "completed")) = (IF batches[i].done THEN 1 ELSE 0)
          /\ batches[i].done => batches[i].active = Nobody
          /\ i \in DOMAIN lane /\ lane[i] \in Waits => batches[i].active # Nobody
    BY DEF AttemptsAgree, AttemptsOf, Waits
<1>1. Linked(i)
    BY DEF WavesInv
<1>2. CASE batches[i].done
  <2>1. PICK a \in DOMAIN attempts : AttemptsOf(i, "completed") = {a}
      BY <1>1, <1>2 DEF Linked
  <2>2. Cardinality(AttemptsOf(i, "completed")) = 1
      BY <2>1, FS_Singleton
  <2> QED
      BY <1>1, <1>2, <2>2 DEF Linked
<1>3. CASE ~batches[i].done
  <2>1. Cardinality(AttemptsOf(i, "completed")) = 0
      BY <1>1, <1>3, FS_EmptySet DEF Linked
  <2> QED
      BY <1>1, <1>3, <2>1 DEF Linked
<1> QED
    BY <1>2, <1>3

-----------------------------------------------------------------------------
(* The inductive invariant of the waves holds always: the two tables agree *)
(* on every attempt, a turn that can still record has an attempt that is   *)
(* open, and a task that has told the Brain has told it everything.        *)
THEOREM WavesInvariant == ScribeSpec => []WavesInv
<1> QED
    BY InitWavesInv, NextWavesInv, PTL DEF ScribeSpec

(* The Scribe's ledger is exact for any inbox, wave size and number of     *)
(* tries, through failures and deaths: an observation is in one Batch at   *)
(* most, attempts and Batches agree, what a completed attempt recorded the *)
(* Brain was told, waves take what occurred first, and no finished attempt *)
(* records anything (scribe/inbox.ts, durable-clock.ts).                   *)
THEOREM WavesAreExactAlways == ScribeSpec => WavesAreExact
<1>1. WavesInv => ScribeTypeOK /\ OneBatchEach /\ ReportedBeforeDone
  <2> SUFFICES ASSUME WavesInv PROVE ScribeTypeOK /\ OneBatchEach /\ ReportedBeforeDone
      OBVIOUS
  <2>1. mailbox \in BOOLEAN /\ started \in BOOLEAN /\ draining \in BOOLEAN
      BY DEF WavesInv, Switches
  <2>2. ScribeTypeOK
      BY <2>1, Zenon DEF WavesInv, WavesTyped, BatchRow, AttemptRow, Statuses, ScribeTypeOK
  <2> QED
      BY <2>2 DEF WavesInv
<1>2. WavesInv => AttemptsAgree
    BY LinkedAgree
<1>3. WavesInv /\ [ScribeNext]_scribeVars =>
        [\A o \in Batched' \ Batched, p \in Pending' : ~KnownBefore(p, o)]_scribeVars
    BY ClaimsInOrder
<1>4. WavesInv /\ [ScribeNext]_scribeVars =>
        [\A a \in claims' \ claims : attempts[a].status \in {"active", "failed"}]_scribeVars
    BY ClaimsAreTimely
<1> QED
    BY <1>1, <1>2, <1>3, <1>4, WavesInvariant, PTL
    DEF ScribeSpec, WavesAreExact, ChronologicalClaims, NoLateClaims

-----------------------------------------------------------------------------
Scanner == [mode : {"none", "catching_up", "live", "failed", "disabled"},
            phase : {"snapshot", "tail"}, mark : Nat \cup {NoMark}, cursor : Nat, after : Nat]

(* Where the marks and the cursor of a scanner lie.                        *)
Placed(c) ==
  /\ scanner[c].after <= Len(rows)
  /\ scanner[c].mark # NoMark => scanner[c].mark <= Len(rows)
  /\ scanner[c].cursor # 0 => scanner[c].cursor \in RowsOf(c)
  /\ scanner[c].mode = "none" => scanner[c] = Unknown
  /\ scanner[c].mark = NoMark => scanner[c].phase = "snapshot" /\ scanner[c].cursor = 0
  /\ scanner[c].mode = "live" => scanner[c].phase = "tail" /\ scanner[c].mark # NoMark

(* NothingSkipped, of one chat; a scanner that never ran has passed nothing. *)
Unskipped(c) ==
  /\ Visible(Passed(c)) \subseteq fed \cup cut
  /\ scanner[c].mode = "live" =>
       Visible(RowsOf(c) \ Passed(c)) \cap accepted \subseteq fed \cup windows

(* The batch of a run: rows its scanners still catch up with, and with a   *)
(* row every earlier one of its chat.                                      *)
Working == {"feed", "drain", "told"}
Taken(r) ==
  LET c == ReplayChatOf[rows[r]]
  IN /\ scanner[c].mode = "catching_up"
     /\ r \in RowsFor(c)
     /\ \A q \in RowsFor(c) : Earlier(q, r) => q \in batch
BatchHeld ==
  /\ run # "off" => host = "up"
  /\ run \in Working => batch \subseteq DOMAIN rows /\ \A r \in batch : Taken(r)
  /\ run \in {"drain", "told"} => Visible(batch) \subseteq fed
  /\ run = "told" => Visible(batch) \subseteq done

ReplayInv ==
  /\ ReplayTypeOK
  /\ accepted \subseteq Shown
  /\ \A c \in ReplayChat : Placed(c) /\ Unskipped(c)
  /\ BatchHeld

-----------------------------------------------------------------------------
(* Rows and their order.                                                   *)

LEMMA MaxIsGreatest ==
  ASSUME NEW n \in Nat, NEW S \in SUBSET (1..n), S # {}
  PROVE  Max(S) \in S /\ \A y \in S : Max(S) >= y
<1> DEFINE T == {n - s : s \in S}
<1>0. \A s \in S : s \in 1..n
    OBVIOUS
<1>1. T \in SUBSET Nat /\ T # {}
  <2>1. \A s \in S : n - s \in Nat
      BY <1>0
  <2> QED
      BY <2>1
<1>2. PICK t \in T : \A m \in T : t <= m
  <2> HIDE DEF T
  <2> QED BY <1>1, LeastRow
<1>3. PICK x \in S : t = n - x
    BY <1>2
<1>4. \A y \in S : n - x <= n - y
    BY <1>2, <1>3
<1>5. \A y \in S : x >= y
    BY <1>4
<1> QED
    BY <1>5 DEF Max

LEMMA LastRowIs ==
  ASSUME ReplayTypeOK, NEW c \in ReplayChat
  PROVE  /\ LastRow(c) \in 0..Len(rows)
         /\ \A r \in RowsOf(c) : r \in 1..Len(rows) /\ r <= LastRow(c)
<1>1. Len(rows) \in Nat /\ DOMAIN rows = 1..Len(rows)
    BY DEF ReplayTypeOK
<1>2. RowsOf(c) \in SUBSET (1..Len(rows))
    BY <1>1 DEF RowsOf
<1>3. CASE RowsOf(c) = {}
    BY <1>1, <1>3 DEF LastRow
<1>4. CASE RowsOf(c) # {}
  <2>1. Max(RowsOf(c)) \in RowsOf(c) /\ \A y \in RowsOf(c) : Max(RowsOf(c)) >= y
      BY <1>1, <1>2, <1>4, MaxIsGreatest
  <2>2. LastRow(c) = Max(RowsOf(c))
      BY <1>4 DEF LastRow
  <2>3. LastRow(c) \in 1..Len(rows)
      BY <2>1, <2>2, <1>2
  <2> QED
      BY <2>1, <2>2, <2>3, <1>2, <1>1
<1> QED
    BY <1>3, <1>4

(* Chronological order is a strict order of all rows.                      *)
LEMMA EarlierIsAnOrder ==
  ASSUME ReplayTypeOK, NEW q \in DOMAIN rows, NEW r \in DOMAIN rows, NEW s \in DOMAIN rows
  PROVE  /\ ~Earlier(r, r)
         /\ Earlier(q, r) /\ Earlier(r, s) => Earlier(q, s)
         /\ q = r \/ Earlier(q, r) \/ Earlier(r, q)
<1>1. rows \in Seq(ArchiveEvent)
    BY DEF ReplayTypeOK
<1>2. \A p \in DOMAIN rows : p \in Nat /\ SentAt[rows[p]] \in Nat
    BY <1>1, ReplayAssumption
<1> QED
    BY <1>2 DEF Earlier

LEMMA LatestExists ==
  ASSUME ReplayTypeOK, NEW S \in SUBSET DOMAIN rows, S # {}
  PROVE  \E r \in S : \A q \in S : q = r \/ Earlier(q, r)
<1> DEFINE Has(k) == \E r \in S \cap (1..k) : \A q \in S \cap (1..k) : q = r \/ Earlier(q, r)
<1> DEFINE Bad == {k \in 1..Len(rows) : S \cap (1..k) # {} /\ ~Has(k)}
<1>0. Len(rows) \in Nat /\ DOMAIN rows = 1..Len(rows)
    BY DEF ReplayTypeOK
<1>1. Bad = {}
  <2> SUFFICES ASSUME Bad # {} PROVE FALSE
      OBVIOUS
  <2>1. Bad \in SUBSET Nat
      OBVIOUS
  <2>2. PICK k \in Bad : \A m \in Bad : k <= m
    <3> HIDE DEF Bad
    <3> QED BY <2>1, LeastRow
  <2>3. k \in 1..Len(rows) /\ S \cap (1..k) # {} /\ ~Has(k)
      BY <2>2
  <2>4. k - 1 \notin Bad
    <3>1. k \in Nat /\ ~(k <= k - 1)
        BY <2>3, <1>0
    <3> HIDE DEF Bad
    <3> QED BY <2>2, <3>1
  <2>5. 1..k = (1..(k-1)) \cup {k}
    <3>1. k \in Nat /\ k >= 1
        BY <2>3, <1>0
    <3>2. k \in 1..k /\ 1..(k-1) \subseteq 1..k
        BY <3>1
    <3>3. \A i \in 1..k : i \in 1..(k-1) \/ i = k
        BY <3>1
    <3> HIDE DEF Bad
    <3> QED BY <3>2, <3>3
  <2>6. CASE S \cap (1..(k-1)) = {}
    <3>1. S \cap (1..k) = {k}
        BY <2>3, <2>5, <2>6
    <3> QED
        BY <3>1, <2>3
  <2>7. CASE S \cap (1..(k-1)) # {}
    <3>1. k - 1 \in 1..Len(rows)
        BY <2>3, <2>7, <1>0
    <3>2. Has(k - 1)
        BY <3>1, <2>4, <2>7
    <3>3. PICK m \in S \cap (1..(k-1)) : \A q \in S \cap (1..(k-1)) : q = m \/ Earlier(q, m)
        BY <3>2
    <3>4. \A q \in S \cap (1..k) : q = k \/ q = m \/ Earlier(q, m)
        BY <3>3, <2>5
    <3>5. m \in DOMAIN rows /\ k \in DOMAIN rows /\ m # k
        BY <3>3, <2>3, <1>0
    <3>6. k \in S
        BY <3>4, <3>3, <2>5, <2>3
    <3>7. CASE Earlier(k, m)
        BY <3>7, <3>4, <3>3, <2>5, <2>3
    <3>8. CASE Earlier(m, k)
      <4>1. \A q \in S : Earlier(q, m) => Earlier(q, k)
          BY <3>8, <3>5, EarlierIsAnOrder
      <4>2. \A q \in S \cap (1..k) : q = k \/ Earlier(q, k)
          BY <4>1, <3>4, <3>8
      <4> QED
          BY <4>2, <3>6, <2>3, <2>5
    <3> QED
        BY <3>7, <3>8, <3>5, EarlierIsAnOrder
  <2> QED
      BY <2>6, <2>7
<1>2. S \cap (1..Len(rows)) = S /\ Len(rows) \in 1..Len(rows)
    BY <1>0
<1>3. Has(Len(rows))
    BY <1>1, <1>2
<1> QED
    BY <1>3, <1>2

(* With a row the batch takes every earlier one of any scanner.            *)
LEMMA NextBatchIs ==
  ASSUME ReplayTypeOK, NEW r \in NextBatch
  PROVE  /\ r \in DOMAIN rows
         /\ scanner[ReplayChatOf[rows[r]]].mode = "catching_up"
         /\ r \in RowsFor(ReplayChatOf[rows[r]])
         /\ \A q \in RowsFor(ReplayChatOf[rows[r]]) : Earlier(q, r) => q \in NextBatch
<1> DEFINE R == UNION {RowsFor(d) : d \in CatchingUp}
           Ahead(p) == {q \in R : Earlier(q, p)}
<1>1. Len(rows) \in Nat /\ DOMAIN rows = 1..Len(rows)
    BY DEF ReplayTypeOK
<1>2. \A d \in ReplayChat : RowsFor(d) \subseteq RowsOf(d)
    BY DEF RowsFor
<1>3. R \subseteq DOMAIN rows
    BY <1>2 DEF RowsOf, CatchingUp
<1>4. r \in R /\ Cardinality(Ahead(r)) < BatchLimit
    BY DEF NextBatch
<1>5. PICK d \in CatchingUp : r \in RowsFor(d)
    BY <1>4
<1>6. d = ReplayChatOf[rows[r]] /\ d \in ReplayChat
    BY <1>5, <1>2 DEF RowsOf, CatchingUp
<1>7. ASSUME NEW q \in RowsFor(d), Earlier(q, r) PROVE q \in NextBatch
  <2>1. q \in R
      BY <1>5, <1>7
  <2>2. Ahead(q) \subseteq Ahead(r)
      BY <1>3, <1>4, <1>7, <2>1, EarlierIsAnOrder
  <2>3. IsFiniteSet(Ahead(r))
    <3>1. IsFiniteSet(1..Len(rows))
        BY <1>1, FS_Interval
    <3>2. Ahead(r) \subseteq 1..Len(rows)
        BY <1>1, <1>3
    <3> QED
        BY <3>1, <3>2, FS_Subset
  <2>4. Cardinality(Ahead(q)) <= Cardinality(Ahead(r)) /\ IsFiniteSet(Ahead(q))
      BY <2>2, <2>3, FS_Subset
  <2>5. Cardinality(Ahead(q)) \in Nat /\ Cardinality(Ahead(r)) \in Nat
      BY <2>3, <2>4, FS_CardinalityType
  <2>6. Cardinality(Ahead(q)) < BatchLimit
      BY <2>4, <2>5, <1>4, ReplayAssumption
  <2> QED
      BY <2>1, <2>6 DEF NextBatch
<1> QED
    BY <1>3, <1>4, <1>5, <1>6, <1>7 DEF CatchingUp

-----------------------------------------------------------------------------
(* What a change of a scanner leaves true.                                 *)

LEMMA ScannerIs ==
  ASSUME ReplayTypeOK, NEW c \in ReplayChat
  PROVE  /\ scanner[c] \in Scanner
         /\ scanner[c].after \in Nat /\ scanner[c].cursor \in Nat
         /\ scanner[c].mark \in Nat \cup {NoMark}
         /\ rows \in Seq(ArchiveEvent) /\ Len(rows) \in Nat /\ DOMAIN rows = 1..Len(rows)
         /\ NoMark \notin Nat
BY ReplayAssumption DEF ReplayTypeOK, Scanner

(* A scanner that stays where it is.                                       *)
LEMMA ScannerStays ==
  ASSUME NEW c \in ReplayChat, Placed(c), Unskipped(c),
         UNCHANGED <<rows, accepted, windows>>, scanner'[c] = scanner[c],
         fed \subseteq fed', cut \subseteq cut'
  PROVE  Placed(c)' /\ Unskipped(c)'
<1>1. RowsOf(c)' = RowsOf(c)
    BY DEF RowsOf
<1>2. Passed(c)' = Passed(c)
    BY <1>1 DEF Passed, Earlier
<1>3. Visible(Passed(c))' = Visible(Passed(c)) /\ Visible(RowsOf(c) \ Passed(c))' = Visible(RowsOf(c) \ Passed(c))
    BY <1>1, <1>2 DEF Visible
<1>4. Placed(c)'
    BY <1>1 DEF Placed
<1> QED
    BY <1>3, <1>4 DEF Unskipped

(* A scanner that is stopped or resumed has passed what it had passed.     *)
LEMMA ModeChanges ==
  ASSUME ReplayTypeOK, NEW c \in ReplayChat, Placed(c), Unskipped(c),
         UNCHANGED <<rows, accepted, windows, fed>>, cut \subseteq cut',
         NEW m \in {"catching_up", "failed", "disabled"},
         scanner'[c] = [scanner[c] EXCEPT !.mode = m]
  PROVE  Placed(c)' /\ Unskipped(c)'
<1>1. /\ scanner'[c].mode = m /\ scanner'[c].phase = scanner[c].phase
      /\ scanner'[c].mark = scanner[c].mark /\ scanner'[c].cursor = scanner[c].cursor
      /\ scanner'[c].after = scanner[c].after
    BY ScannerIs DEF Scanner
<1>2. RowsOf(c)' = RowsOf(c)
    BY DEF RowsOf
<1>3. Passed(c)' = Passed(c)
    BY <1>1, <1>2 DEF Passed, Earlier
<1>4. Visible(Passed(c))' = Visible(Passed(c))
    BY <1>3 DEF Visible
<1>5. Placed(c)'
    BY <1>1, <1>2 DEF Placed
<1> QED
    BY <1>1, <1>4, <1>5 DEF Unskipped

(* A mark is captured by a scanner that has not begun.                     *)
LEMMA MarkCaptured ==
  ASSUME ReplayTypeOK, NEW c \in ReplayChat, Placed(c), Unskipped(c),
         UNCHANGED <<rows, accepted, windows, fed, cut>>, scanner' = Captured
  PROVE  Placed(c)' /\ Unskipped(c)'
<1>0. CASE ~(c \in CatchingUp /\ scanner[c].mark = NoMark)
  <2>1. scanner'[c] = scanner[c]
      BY <1>0 DEF Captured
  <2> QED
      BY <2>1, ScannerStays
<1>1. CASE c \in CatchingUp /\ scanner[c].mark = NoMark
  <2>1. scanner'[c] = [scanner[c] EXCEPT !.mark = LastRow(c)]
      BY <1>1 DEF Captured
  <2>2. /\ scanner'[c].mode = "catching_up" /\ scanner'[c].phase = "snapshot"
        /\ scanner'[c].mark = LastRow(c) /\ scanner'[c].cursor = 0
        /\ scanner'[c].after = scanner[c].after
      BY <2>1, <1>1, ScannerIs DEF Scanner, CatchingUp, Placed
  <2>3. Passed(c)' = {}
      BY <2>2 DEF Passed
  <2>4. Visible(Passed(c))' = {}
      BY <2>3 DEF Visible
  <2>5. LastRow(c) \in 0..Len(rows)
      BY LastRowIs
  <2>6. Placed(c)'
      BY <2>2, <2>5, ScannerIs DEF Placed
  <2> QED
      BY <2>2, <2>4, <2>6 DEF Unskipped
<1> QED
    BY <1>0, <1>1

(* A round is over when a scanner has passed every row up to its mark.     *)
LEMMA RoundPassed ==
  ASSUME ReplayTypeOK, NEW c \in ReplayChat, RowsFor(c) = {}, scanner[c].mark # NoMark
  PROVE  \A r \in RowsOf(c) : r <= scanner[c].mark => r \in Passed(c)
BY ScannerIs DEF RowsFor, Passed, RowsOf

(* The next round begins behind what is passed, and so does the live       *)
(* stream, which no row has reached yet.                                   *)
LEMMA ScannerAdvances ==
  ASSUME ReplayTypeOK, NEW c \in ReplayChat, Placed(c), Unskipped(c),
         UNCHANGED <<rows, accepted, windows, fed, cut>>,
         Advances, ~AdvanceThrows, scanner' = Advanced
  PROVE  Placed(c)' /\ Unskipped(c)'
<1>0. CASE c \notin Moving
  <2>1. scanner'[c] = scanner[c]
      BY <1>0 DEF Advanced
  <2> QED
      BY <2>1, ScannerStays
<1>1. CASE c \in Moving
  <2>1. RowsFor(c) = {} /\ scanner[c].mark # NoMark
      BY <1>1 DEF Advances, AdvanceThrows
  <2>2. \A r \in RowsOf(c) : r <= scanner[c].mark => r \in Passed(c)
      BY <2>1, RoundPassed
  <2>3. RowsOf(c)' = RowsOf(c)
      BY DEF RowsOf
  <2>4. LastRow(c) \in 0..Len(rows) /\ \A r \in RowsOf(c) : r <= LastRow(c)
      BY LastRowIs
  <2>5. scanner[c].mode = "catching_up"
      BY <1>1 DEF Moving, CatchingUp, Snapshots
  <2>6. CASE Snapshots # {} \/ HasNewRows
    <3>1. scanner'[c] = NextRound(scanner[c], c)
        BY <1>1, <2>6 DEF Advanced
    <3>2. /\ scanner'[c].mode = "catching_up" /\ scanner'[c].phase = "tail"
          /\ scanner'[c].mark = LastRow(c) /\ scanner'[c].cursor = 0
          /\ scanner'[c].after = scanner[c].mark
        BY <3>1, <2>5, ScannerIs DEF Scanner, NextRound
    <3>3. Passed(c)' \subseteq Passed(c)
        BY <3>2, <2>2, <2>3 DEF Passed
    <3>4. Visible(Passed(c))' \subseteq Visible(Passed(c))
        BY <3>3 DEF Visible
    <3>5. Placed(c)'
        BY <3>2, <2>4, <2>1, ScannerIs DEF Placed
    <3> QED
        BY <3>2, <3>4, <3>5 DEF Unskipped
  <2>7. CASE Snapshots = {} /\ ~HasNewRows
    <3>1. scanner'[c] = WentLive(scanner[c])
        BY <1>1, <2>7 DEF Advanced
    <3>2. /\ scanner'[c].mode = "live" /\ scanner'[c].phase = scanner[c].phase
          /\ scanner'[c].mark = scanner[c].mark /\ scanner'[c].cursor = 0
          /\ scanner'[c].after = scanner[c].mark
        BY <3>1, ScannerIs DEF Scanner, WentLive
    <3>3. scanner[c].phase = "tail"
        BY <2>5, <2>7, ScannerIs DEF Snapshots, CatchingUp, Scanner
    <3>4. Passed(c)' \subseteq Passed(c)
        BY <3>2, <2>2, <2>3 DEF Passed
    <3>5. Visible(Passed(c))' \subseteq Visible(Passed(c))
        BY <3>4 DEF Visible
    <3>6. LastRow(c) <= scanner[c].mark
        BY <2>1, <2>4, <2>5, <2>7, ScannerIs DEF HasNewRows, MarkedAt, CatchingUp
    <3>7. \A r \in RowsOf(c) : r <= scanner[c].mark
      <4>1. \A r \in RowsOf(c) : r \in Nat
          BY ScannerIs DEF RowsOf
      <4> QED
          BY <4>1, <3>6, <2>4, <2>1, ScannerIs
    <3>8. (RowsOf(c) \ Passed(c))' = {}
        BY <3>7, <3>2, <3>3, <2>3 DEF Passed
    <3>9. Visible(RowsOf(c) \ Passed(c))' = {}
        BY <3>8 DEF Visible
    <3>10. Placed(c)'
        BY <3>2, <3>3, <2>1, ScannerIs DEF Placed
    <3> QED
        BY <3>5, <3>9, <3>10 DEF Unskipped
  <2> QED
      BY <2>6, <2>7
<1> QED
    BY <1>0, <1>1

(* The cursor passes no row but those of the batch, which the Scribe holds. *)
LEMMA CursorMoves ==
  ASSUME ReplayTypeOK, NEW c \in ReplayChat, Placed(c), Unskipped(c), BatchHeld, run = "told",
         UNCHANGED <<rows, accepted, windows, fed, cut>>, scanner' = Moved(batch)
  PROVE  /\ Placed(c)' /\ Unskipped(c)'
         /\ scanner'[c] # scanner[c] => scanner'[c] = [scanner[c] EXCEPT !.cursor = LatestOf(batch, c)]
                                        /\ LatestOf(batch, c) \in RowsOf(c)
<1>0. CASE ~(c \in CatchingUp /\ batch \cap RowsOf(c) # {})
  <2>1. scanner'[c] = scanner[c]
      BY <1>0 DEF Moved
  <2> QED
      BY <2>1, ScannerStays
<1>1. CASE c \in CatchingUp /\ batch \cap RowsOf(c) # {}
  <2> DEFINE mine == batch \cap RowsOf(c)
             last == LatestOf(batch, c)
  <2>1. scanner'[c] = [scanner[c] EXCEPT !.cursor = last]
      BY <1>1 DEF Moved
  <2>2. mine \in SUBSET DOMAIN rows /\ mine # {}
      BY <1>1 DEF RowsOf
  <2>3. \E r \in mine : \A q \in mine : q = r \/ Earlier(q, r)
    <3> HIDE DEF mine
    <3> QED BY <2>2, LatestExists
  <2>4. last \in mine /\ \A q \in mine : q = last \/ Earlier(q, last)
      BY <2>3 DEF LatestOf
  <2>5. last \in RowsOf(c) /\ last \in batch /\ last \in DOMAIN rows
      BY <2>4 DEF RowsOf
  <2>6. ReplayChatOf[rows[last]] = c
      BY <2>5 DEF RowsOf
  <2>7. last \in RowsFor(c) /\ \A q \in RowsFor(c) : Earlier(q, last) => q \in batch
      BY <2>5, <2>6 DEF BatchHeld, Working, Taken
  <2>8. Visible(batch) \subseteq fed
      BY DEF BatchHeld
  <2>9. scanner[c].mark # NoMark /\ last # 0
      BY <2>5, <2>7, ScannerIs DEF RowsFor
  <2> HIDE DEF last
  <2>10. /\ scanner'[c].mode = "catching_up" /\ scanner'[c].phase = scanner[c].phase
         /\ scanner'[c].mark = scanner[c].mark /\ scanner'[c].cursor = last
         /\ scanner'[c].after = scanner[c].after
      BY <2>1, <1>1, ScannerIs DEF Scanner, CatchingUp
  <2>11. RowsOf(c)' = RowsOf(c)
      BY DEF RowsOf
  <2>12. \A r \in Passed(c)' : r \in Passed(c) \/ r \in batch
    <3> SUFFICES ASSUME NEW r \in Passed(c)', r \notin Passed(c) PROVE r \in batch
        OBVIOUS
    <3>1. r \in RowsOf(c) /\ r \in DOMAIN rows
        BY <2>11 DEF Passed, RowsOf
    <3>2. r <= scanner[c].mark /\ ~Earlier(last, r)
        BY <2>10, <3>1 DEF Passed, Earlier
    <3>3. r \in RowsFor(c)
        BY <3>1, <3>2, <2>9, ScannerIs DEF RowsFor, Passed
    <3>4. r = last \/ Earlier(r, last)
        BY <3>1, <3>2, <2>5, EarlierIsAnOrder
    <3> QED
        BY <3>3, <3>4, <2>5, <2>7
  <2>13. Visible(Passed(c))' \subseteq Visible(Passed(c)) \cup Visible(batch)
      BY <2>12 DEF Visible
  <2>14. Placed(c)'
      BY <2>10, <2>11, <2>5, <2>9, ScannerIs DEF Placed
  <2> QED
      BY <2>1, <2>5, <2>8, <2>10, <2>13, <2>14 DEF Unskipped, last
<1> QED
    BY <1>0, <1>1

-----------------------------------------------------------------------------
(* What the other steps leave true.                                        *)

(* An event that arrives is a row beyond every mark.                       *)
LEMMA RowArrives ==
  ASSUME ReplayTypeOK, NEW e \in ArchiveEvent, e \notin Range(rows), rows' = Append(rows, e)
  PROVE  /\ rows' \in Seq(ArchiveEvent) /\ IsInjective(rows)'
         /\ Len(rows') = Len(rows) + 1 /\ rows'[Len(rows) + 1] = e
         /\ DOMAIN rows' = DOMAIN rows \cup {Len(rows) + 1}
         /\ \A r \in DOMAIN rows : rows'[r] = rows[r] /\ r # Len(rows) + 1
         /\ Range(rows') = Range(rows) \cup {e}
<1>1. rows \in Seq(ArchiveEvent) /\ Len(rows) \in Nat /\ DOMAIN rows = 1..Len(rows)
    BY DEF ReplayTypeOK
<1>2. /\ rows' \in Seq(ArchiveEvent) /\ Len(rows') = Len(rows) + 1
      /\ rows'[Len(rows) + 1] = e /\ \A r \in DOMAIN rows : rows'[r] = rows[r]
    BY <1>1
<1>3. DOMAIN rows' = 1..(Len(rows) + 1)
    BY <1>2
<1>4. DOMAIN rows' = DOMAIN rows \cup {Len(rows) + 1} /\ \A r \in DOMAIN rows : r # Len(rows) + 1
    BY <1>1, <1>3
<1>5. \A r \in DOMAIN rows : rows[r] # e
    BY DEF Range
<1>6. IsInjective(rows)'
    BY <1>2, <1>4, <1>5 DEF ReplayTypeOK, IsInjective
<1>7. Range(rows') = Range(rows) \cup {e}
    BY <1>2, <1>4 DEF Range
<1> QED
    BY <1>2, <1>4, <1>6, <1>7

LEMMA RowKeepsScanner ==
  ASSUME ReplayTypeOK, NEW e \in ArchiveEvent, e \notin Range(rows), rows' = Append(rows, e),
         UNCHANGED <<scanner, fed, cut>>, NEW c \in ReplayChat, Placed(c), Unskipped(c),
         accepted \subseteq accepted', windows \subseteq windows',
         accepted' \subseteq accepted \cup {e},
         scanner[c].mode = "live" /\ e \in accepted' => e \in windows'
  PROVE  Placed(c)' /\ Unskipped(c)'
<1>1. /\ Len(rows') = Len(rows) + 1 /\ rows'[Len(rows) + 1] = e
      /\ DOMAIN rows' = DOMAIN rows \cup {Len(rows) + 1}
      /\ \A r \in DOMAIN rows : rows'[r] = rows[r]
    BY RowArrives
<1>2. RowsOf(c) \subseteq RowsOf(c)' /\ RowsOf(c)' \subseteq RowsOf(c) \cup {Len(rows) + 1}
    BY <1>1 DEF RowsOf
<1>3. Placed(c)'
    BY <1>1, <1>2, ScannerIs DEF Placed
<1>4. \A r \in RowsOf(c) : r \in DOMAIN rows
    BY DEF RowsOf
<1>5. Passed(c)' \subseteq Passed(c)
  <2> SUFFICES ASSUME NEW r \in Passed(c)' PROVE r \in Passed(c)
      OBVIOUS
  <2>1. r \in RowsOf(c)'
      BY DEF Passed
  <2>2. r # Len(rows) + 1
    <3> SUFFICES ASSUME r = Len(rows) + 1 PROVE FALSE
        OBVIOUS
    <3>1. ~(r <= scanner[c].after) /\ (scanner[c].mark # NoMark => ~(r <= scanner[c].mark))
        BY ScannerIs DEF Placed
    <3> QED
        BY <3>1 DEF Passed
  <2>3. r \in RowsOf(c)
      BY <2>1, <2>2, <1>2
  <2>4. scanner[c].cursor # 0 => scanner[c].cursor \in DOMAIN rows
      BY <1>4 DEF Placed
  <2>5. scanner[c].cursor # 0 => (Earlier(scanner[c].cursor, r)' <=> Earlier(scanner[c].cursor, r))
      BY <2>3, <2>4, <1>1, <1>4 DEF Earlier
  <2> QED
      BY <2>3, <2>5 DEF Passed
<1>6. Passed(c) \subseteq Passed(c)'
  <2> SUFFICES ASSUME NEW r \in Passed(c) PROVE r \in Passed(c)'
      OBVIOUS
  <2>1. r \in RowsOf(c)
      BY DEF Passed
  <2>2. scanner[c].cursor # 0 => scanner[c].cursor \in DOMAIN rows
      BY <1>4 DEF Placed
  <2>3. scanner[c].cursor # 0 => (Earlier(scanner[c].cursor, r)' <=> Earlier(scanner[c].cursor, r))
      BY <2>1, <2>2, <1>1, <1>4 DEF Earlier
  <2> QED
      BY <2>1, <2>3, <1>2 DEF Passed
<1>7. Visible(Passed(c))' \subseteq Visible(Passed(c))
  <2>1. \A r \in Passed(c)' : r \in Passed(c) /\ rows'[r] = rows[r]
      BY <1>5, <1>4, <1>1 DEF Passed
  <2> QED
      BY <2>1 DEF Visible
<1>8. scanner[c].mode = "live" =>
        Visible(RowsOf(c) \ Passed(c))' \cap accepted' \subseteq fed' \cup windows'
  <2> SUFFICES ASSUME scanner[c].mode = "live", NEW r \in RowsOf(c)', r \notin Passed(c)',
                      rows'[r] \in Shown, rows'[r] \in accepted'
               PROVE  rows'[r] \in fed \cup windows'
      BY DEF Visible
  <2>1. CASE r = Len(rows) + 1
      BY <2>1, <1>1
  <2>2. CASE r \in RowsOf(c)
    <3>1. rows'[r] = rows[r] /\ rows[r] # e /\ r \notin Passed(c)
        BY <2>2, <1>1, <1>4, <1>6 DEF Range
    <3>2. rows[r] \in Visible(RowsOf(c) \ Passed(c)) \cap accepted
        BY <3>1, <2>2 DEF Visible
    <3> QED
        BY <3>1, <3>2 DEF Unskipped
  <2> QED
      BY <2>1, <2>2, <1>2
<1> QED
    BY <1>3, <1>7, <1>8 DEF Unskipped

(* A row that a run holds stays as it is when an event arrives.            *)
LEMMA RowKeepsBatch ==
  ASSUME ReplayTypeOK, NEW e \in ArchiveEvent, e \notin Range(rows), rows' = Append(rows, e),
         UNCHANGED <<scanner, batch, run, host, fed, done>>, BatchHeld,
         \A c \in ReplayChat : Placed(c)
  PROVE  BatchHeld'
<1>1. /\ Len(rows') = Len(rows) + 1
      /\ DOMAIN rows' = DOMAIN rows \cup {Len(rows) + 1}
      /\ \A r \in DOMAIN rows : rows'[r] = rows[r]
    BY RowArrives
<1>2. ASSUME run \in Working
      PROVE  batch \subseteq DOMAIN rows' /\ \A r \in batch : Taken(r)'
  <2>1. batch \subseteq DOMAIN rows
      BY <1>2 DEF BatchHeld
  <2> SUFFICES ASSUME NEW r \in batch PROVE Taken(r)'
      BY <2>1, <1>1
  <2>2. r \in DOMAIN rows /\ Taken(r)
      BY <1>2, <2>1 DEF BatchHeld
  <2> DEFINE c == ReplayChatOf[rows[r]]
  <2>3. c \in ReplayChat /\ ReplayChatOf[rows'[r]] = c
      BY <2>2, <1>1, ScannerIs, ReplayAssumption DEF ReplayTypeOK
  <2>4. PICK d \in ReplayChat : d = ReplayChatOf[rows[r]]
      BY <2>3
  <2>5. /\ scanner[d].mode = "catching_up" /\ r \in RowsFor(d)
        /\ \A q \in RowsFor(d) : Earlier(q, r) => q \in batch
      BY <2>2, <2>4 DEF Taken
  <2>6. Placed(d) /\ scanner[d].mark # NoMark
      BY <2>5 DEF RowsFor
  <2>7. \A q \in RowsOf(d) : q \in DOMAIN rows /\ rows'[q] = rows[q] /\ q \in RowsOf(d)'
      BY <1>1 DEF RowsOf
  <2>8. \A q \in RowsOf(d)' : q \in RowsOf(d) \/ q = Len(rows) + 1
      BY <1>1 DEF RowsOf
  <2>9. \A q \in RowsOf(d) : scanner[d].cursor # 0 =>
          (Earlier(scanner[d].cursor, q)' <=> Earlier(scanner[d].cursor, q))
      BY <2>6, <2>7 DEF Placed, Earlier
  <2>10. ~(Len(rows) + 1 <= scanner[d].mark)
      BY <2>6, ScannerIs DEF Placed
  <2>11. RowsFor(d)' = RowsFor(d)
    <3>1. \A q \in RowsFor(d) : q \in RowsFor(d)'
        BY <2>6, <2>7, <2>9 DEF RowsFor
    <3>2. \A q \in RowsFor(d)' : q \in RowsFor(d)
        BY <2>6, <2>8, <2>9, <2>10 DEF RowsFor
    <3> QED
        BY <3>1, <3>2
  <2>12. \A q \in RowsFor(d) : Earlier(q, r)' <=> Earlier(q, r)
      BY <2>2, <2>7, <1>1 DEF RowsFor, Earlier
  <2>13. \A q \in RowsFor(d)' : Earlier(q, r)' => q \in batch'
      BY <2>5, <2>11, <2>12
  <2> QED
      BY <2>3, <2>4, <2>5, <2>11, <2>13 DEF Taken
<1>3. run \in Working => Visible(batch)' = Visible(batch)
    BY <1>1 DEF BatchHeld, Visible
<1> QED
    BY <1>2, <1>3 DEF BatchHeld, Working

(* With neither the archive nor a scanner, a row of the batch stays put.    *)
LEMMA TakenStays ==
  ASSUME NEW r \in batch, Taken(r), UNCHANGED <<rows, scanner, batch>>
  PROVE  Taken(r)'
BY DEF Taken, RowsFor, RowsOf, Earlier

(* The batch of a run, while neither the archive nor a scanner moves.      *)
LEMMA BatchStays ==
  ASSUME BatchHeld, UNCHANGED <<rows, scanner, batch, run, host>>,
         fed \subseteq fed', done \subseteq done'
  PROVE  BatchHeld'
<1>1. \A r \in batch : Taken(r) => Taken(r)'
    BY TakenStays
<1>2. Visible(batch)' = Visible(batch)
    BY DEF Visible
<1> QED
    BY <1>1, <1>2 DEF BatchHeld

LEMMA AllScannersStay ==
  ASSUME \A c \in ReplayChat : Placed(c) /\ Unskipped(c),
         UNCHANGED <<rows, accepted, windows, scanner, cut>>, fed \subseteq fed'
  PROVE  \A c \in ReplayChat : Placed(c)' /\ Unskipped(c)'
BY ScannerStays

-----------------------------------------------------------------------------
(* The steps, one by one.                                                  *)

LEMMA InitReplayInv == ReplayInit => ReplayInv
<1> SUFFICES ASSUME ReplayInit PROVE ReplayInv
    OBVIOUS
<1>1. /\ rows = <<>> /\ accepted = {} /\ windows = {} /\ fed = {} /\ done = {} /\ backlog = {}
      /\ run = "off" /\ host = "sync" /\ scanner = [c \in ReplayChat |-> Unknown]
    BY DEF ReplayInit, ReplayBlank
<1>2. rows \in Seq(ArchiveEvent) /\ DOMAIN rows = {} /\ Len(rows) = 0
    BY <1>1
<1>3. ReplayTypeOK
    BY <1>1, <1>2 DEF ReplayTypeOK, IsInjective, Unknown
<1>4. \A c \in ReplayChat : Placed(c)
    BY <1>1, <1>2, ReplayAssumption DEF Placed, Unknown
<1>5. \A c \in ReplayChat : Unskipped(c)
    BY <1>1, <1>2 DEF Unskipped, Unknown, Passed, Visible, RowsOf
<1>6. BatchHeld
    BY <1>1 DEF BatchHeld, Working
<1> QED
    BY <1>1, <1>3, <1>4, <1>5, <1>6 DEF ReplayInv

LEMMA ImportHistoryKeeps ==
  ASSUME ReplayInv, NEW e \in ArchiveEvent, ImportHistory(e)
  PROVE  ReplayInv'
<1>1. ReplayTypeOK /\ e \notin Range(rows) /\ rows' = Append(rows, e)
    BY DEF ReplayInv, ImportHistory
<1>2. UNCHANGED <<accepted, windows, scanner, fed, done, backlog, cut, host, run, batch>>
    BY DEF ImportHistory, scribeState, hostState, runState
<1>3. ReplayTypeOK'
    BY <1>1, <1>2, RowArrives DEF ReplayTypeOK
<1>4. \A c \in ReplayChat : Placed(c)' /\ Unskipped(c)'
  <2> SUFFICES ASSUME NEW c \in ReplayChat PROVE Placed(c)' /\ Unskipped(c)'
      OBVIOUS
  <2>1. e \notin accepted
      BY <1>1 DEF ReplayTypeOK
  <2> QED
      BY <1>1, <1>2, <2>1, RowKeepsScanner DEF ReplayInv
<1>5. BatchHeld'
    BY <1>1, <1>2, RowKeepsBatch DEF ReplayInv
<1> QED
    BY <1>1, <1>2, <1>3, <1>4, <1>5 DEF ReplayInv

LEMMA ArchiveKeeps ==
  ASSUME ReplayInv, NEW e \in ArchiveEvent, Archive(e)
  PROVE  ReplayInv'
<1>1. ReplayTypeOK /\ e \notin Range(rows) /\ rows' = Append(rows, e)
    BY DEF ReplayInv, Archive
<1>2. UNCHANGED <<scanner, fed, done, backlog, cut, host, run, batch>>
    BY DEF Archive, scribeState, hostState, runState
<1>3. \/ accepted' = accepted \cup {e} /\ windows' = windows \cup {e} /\ e \in Shown
      \/ UNCHANGED <<accepted, windows>>
    BY DEF Archive
<1>4. ReplayTypeOK'
    BY <1>1, <1>2, <1>3, RowArrives DEF ReplayTypeOK
<1>5. \A c \in ReplayChat : Placed(c)' /\ Unskipped(c)'
  <2> SUFFICES ASSUME NEW c \in ReplayChat PROVE Placed(c)' /\ Unskipped(c)'
      OBVIOUS
  <2>1. e \notin accepted
      BY <1>1 DEF ReplayTypeOK
  <2>2. e \in accepted' => e \in windows'
      BY <1>3, <2>1
  <2> QED
      BY <1>1, <1>2, <1>3, <2>2, RowKeepsScanner DEF ReplayInv
<1>6. BatchHeld'
    BY <1>1, <1>2, RowKeepsBatch DEF ReplayInv
<1> QED
    BY <1>3, <1>4, <1>5, <1>6 DEF ReplayInv

(* An event beyond the mark of a live chat is in the live slice.           *)
LEMMA DispatchWindowKeeps ==
  ASSUME ReplayInv, NEW e \in ArchiveEvent, DispatchWindow(e)
  PROVE  ReplayInv'
<1>1. /\ UNCHANGED <<rows, accepted, scanner, done, backlog, cut, host, run, batch>>
      /\ e \in windows /\ windows' = windows \ {e}
      /\ fed' = IF Slice(e) THEN fed \cup {e} ELSE fed
    BY DEF DispatchWindow, hostState, runState
<1>2. fed \subseteq fed'
    BY <1>1
<1>3. ReplayTypeOK'
  <2>1. e \in Shown
      BY <1>1 DEF ReplayInv, ReplayTypeOK
  <2> QED
      BY <1>1, <2>1 DEF ReplayInv, ReplayTypeOK
<1>4. ASSUME NEW c \in ReplayChat PROVE Placed(c)' /\ Unskipped(c)'
  <2>1. Placed(c) /\ Unskipped(c) /\ ReplayTypeOK
      BY DEF ReplayInv
  <2>2. Placed(c)'
      BY <1>1, <2>1 DEF Placed, RowsOf
  <2>3. Passed(c)' = Passed(c) /\ RowsOf(c)' = RowsOf(c)
      BY <1>1 DEF Passed, RowsOf, Earlier
  <2>4. Visible(Passed(c))' = Visible(Passed(c))
        /\ Visible(RowsOf(c) \ Passed(c))' = Visible(RowsOf(c) \ Passed(c))
      BY <1>1, <2>3 DEF Visible
  <2>5. ASSUME scanner[c].mode = "live", e \in Visible(RowsOf(c) \ Passed(c)) PROVE Slice(e)
    <3>1. PICK r \in RowsOf(c) \ Passed(c) : rows[r] = e
        BY <2>5 DEF Visible
    <3>2. r \in DOMAIN rows /\ ReplayChatOf[e] = c
        BY <3>1 DEF RowsOf
    <3>3. ~(r <= scanner[c].after)
        BY <3>1, <2>5, <2>1 DEF Passed, Placed
    <3>4. r > scanner[c].after
        BY <3>2, <3>3, <2>1, ScannerIs
    <3> QED
        BY <3>1, <3>2, <3>4, <2>5 DEF Slice
  <2>6. scanner[c].mode = "live" =>
          Visible(RowsOf(c) \ Passed(c)) \cap accepted \subseteq fed' \cup windows'
      BY <1>1, <2>1, <2>5 DEF Unskipped
  <2> QED
      BY <1>1, <1>2, <2>1, <2>2, <2>4, <2>6 DEF Unskipped
<1>5. BatchHeld'
    BY <1>1, <1>2, BatchStays DEF ReplayInv
<1> QED
    BY <1>1, <1>3, <1>4, <1>5 DEF ReplayInv

LEMMA RetryScannerKeeps ==
  ASSUME ReplayInv, NEW c \in ReplayChat, RetryScanner(c)
  PROVE  ReplayInv'
<1>1. /\ UNCHANGED <<rows, accepted, windows, fed, done, backlog, cut, host, run, batch>>
      /\ scanner[c].mode \in {"failed", "disabled"}
      /\ scanner' = [scanner EXCEPT ![c].mode = "catching_up"]
    BY DEF RetryScanner, archiveState, scribeState, hostState, runState
<1>2. \A d \in ReplayChat : Placed(d) /\ Unskipped(d) /\ scanner[d] \in Scanner
    BY ScannerIs DEF ReplayInv
<1>3. scanner \in [ReplayChat -> Scanner]
    BY DEF ReplayInv, ReplayTypeOK, Scanner
<1>4. /\ scanner'[c] = [scanner[c] EXCEPT !.mode = "catching_up"]
      /\ \A d \in ReplayChat : d # c => scanner'[d] = scanner[d]
    BY <1>1, <1>3
<1>5. scanner' \in [ReplayChat -> Scanner]
    BY <1>1, <1>3 DEF Scanner
<1>6. ReplayTypeOK'
    BY <1>1, <1>5 DEF ReplayInv, ReplayTypeOK, Scanner
<1>7. ASSUME NEW d \in ReplayChat PROVE Placed(d)' /\ Unskipped(d)'
  <2>1. CASE d = c
      BY <2>1, <1>1, <1>2, <1>4, ModeChanges DEF ReplayInv
  <2>2. CASE d # c
      BY <2>2, <1>1, <1>2, <1>4, ScannerStays
  <2> QED
      BY <2>1, <2>2
<1>8. BatchHeld'
  <2>1. ASSUME run \in Working, NEW r \in batch PROVE Taken(r)'
    <3>1. r \in DOMAIN rows /\ Taken(r)
        BY <2>1 DEF ReplayInv, BatchHeld
    <3>2. ReplayChatOf[rows[r]] \in ReplayChat
        BY <3>1, ReplayAssumption DEF ReplayInv, ReplayTypeOK
    <3>3. ReplayChatOf[rows[r]] # c
        BY <3>1, <1>1 DEF Taken
    <3> QED
        BY <3>1, <3>2, <3>3, <1>1, <1>4 DEF Taken, RowsFor, RowsOf, Earlier
  <2>2. Visible(batch)' = Visible(batch)
      BY <1>1 DEF Visible
  <2> QED
      BY <2>1, <2>2, <1>1 DEF ReplayInv, BatchHeld
<1> QED
    BY <1>1, <1>6, <1>7, <1>8 DEF ReplayInv

LEMMA BootChatKeeps ==
  ASSUME ReplayInv, NEW c \in ReplayChat, BootChat(c)
  PROVE  ReplayInv'
<1>1. /\ UNCHANGED <<rows, accepted, windows, fed, done, backlog, host, run, batch>>
      /\ host = "reconcile"
    BY DEF BootChat, archiveState, scribeState, runState
<1>2. /\ Placed(c) /\ Unskipped(c) /\ ReplayTypeOK /\ scanner[c] \in Scanner
      /\ scanner \in [ReplayChat -> Scanner]
    BY ScannerIs DEF ReplayInv, ReplayTypeOK, Scanner
<1>3. cut \subseteq cut'
    BY DEF BootChat
<1>4. LastRow(c) \in 0..Len(rows) /\ Len(rows) \in Nat
      /\ \A r \in RowsOf(c) : r \in 1..Len(rows) /\ r <= LastRow(c)
    BY <1>2, LastRowIs, ScannerIs
<1>5. \/ UNCHANGED scanner
      \/ scanner' = [scanner EXCEPT ![c].mode = "catching_up"]
      \/ scanner' = [scanner EXCEPT ![c] = Disabled(c)]
    BY DEF BootChat
<1>6. Disabled(c) \in Scanner
  <2>1. LastRow(c) \in Nat
      BY <1>4
  <2>2. [scanner[c] EXCEPT !.mode = "disabled"] \in Scanner
      BY <1>2 DEF Scanner
  <2>3. [scanner[c] EXCEPT !.mode = "disabled", !.after = LastRow(c), !.mark = LastRow(c),
                           !.cursor = 0] \in Scanner
      BY <1>2, <2>1 DEF Scanner
  <2> QED
      BY <2>2, <2>3 DEF Disabled
<1>7. scanner' \in [ReplayChat -> Scanner] /\ \A d \in ReplayChat : d # c => scanner'[d] = scanner[d]
    BY <1>2, <1>5, <1>6 DEF Scanner
<1>8. ReplayTypeOK'
    BY <1>1, <1>2, <1>7 DEF ReplayTypeOK, Scanner
<1>9. Placed(c)' /\ Unskipped(c)'
  <2>1. CASE UNCHANGED scanner
      BY <2>1, <1>1, <1>2, <1>3, ScannerStays
  <2>2. CASE scanner' = [scanner EXCEPT ![c].mode = "catching_up"]
    <3>1. scanner'[c] = [scanner[c] EXCEPT !.mode = "catching_up"]
        BY <2>2, <1>2
    <3> QED
        BY <3>1, <1>1, <1>2, <1>3, ModeChanges
  <2>3. CASE scanner' = [scanner EXCEPT ![c] = Disabled(c)] /\ scanner[c].mode # "live"
    <3>1. scanner'[c] = [scanner[c] EXCEPT !.mode = "disabled"]
        BY <2>3, <1>2 DEF Disabled
    <3> QED
        BY <3>1, <1>1, <1>2, <1>3, ModeChanges
  <2>4. CASE scanner' = [scanner EXCEPT ![c] = Disabled(c)] /\ scanner[c].mode = "live"
    <3>1. /\ scanner'[c].mode = "disabled" /\ scanner'[c].phase = "tail"
          /\ scanner'[c].mark = LastRow(c) /\ scanner'[c].after = LastRow(c)
          /\ scanner'[c].cursor = 0
        BY <2>4, <1>2 DEF Disabled, Placed, Scanner
    <3>2. Placed(c)'
        BY <3>1, <1>1, <1>4, ScannerIs, <1>2 DEF Placed
    <3>3. CASE c \in managed
      <4>1. scanner' = scanner
          BY <3>3, <2>4 DEF BootChat
      <4> QED
          BY <4>1, <1>1, <1>2, <1>3, ScannerStays
    <3>4. CASE c \notin managed
      <4>1. cut' = cut \cup (Visible(RowsOf(c)) \ fed)
          BY <3>4, <2>4 DEF BootChat
      <4>2. Visible(Passed(c))' \subseteq Visible(RowsOf(c))
          BY <1>1 DEF Visible, Passed, RowsOf
      <4> QED
          BY <4>1, <4>2, <3>1, <3>2, <1>1 DEF Unskipped
    <3> QED
        BY <3>3, <3>4
  <2> QED
      BY <2>1, <2>2, <2>3, <2>4, <1>5
<1>10. ASSUME NEW d \in ReplayChat PROVE Placed(d)' /\ Unskipped(d)'
  <2>1. CASE d # c
      BY <2>1, <1>1, <1>3, <1>7, ScannerStays DEF ReplayInv
  <2> QED
      BY <2>1, <1>9
<1>11. BatchHeld'
    BY <1>1 DEF ReplayInv, BatchHeld, Working
<1> QED
    BY <1>1, <1>8, <1>10, <1>11 DEF ReplayInv

LEMMA CaptureKeeps ==
  ASSUME ReplayInv, CaptureSnapshots \/ StartRun
  PROVE  ReplayInv'
<1>1. /\ UNCHANGED <<rows, accepted, windows, fed, done, backlog, cut, batch>>
      /\ scanner' = Captured /\ run \notin Working /\ run' \notin Working
      /\ host' \in {host, "cross"} /\ run' \in {run, "next"} /\ (run' # "off" => host' = "up")
    BY DEF CaptureSnapshots, StartRun, archiveState, scribeState, hostState, runState,
           ReplayInv, BatchHeld, Working
<1>2. ReplayTypeOK /\ scanner \in [ReplayChat -> Scanner]
    BY DEF ReplayInv, ReplayTypeOK, Scanner
<1>3. \A c \in ReplayChat : LastRow(c) \in Nat
    BY <1>2, LastRowIs, ScannerIs
<1>4. scanner' \in [ReplayChat -> Scanner]
    BY <1>1, <1>2, <1>3 DEF Captured, Scanner
<1>5. ReplayTypeOK'
    BY <1>1, <1>2, <1>4 DEF ReplayTypeOK, Scanner
<1>6. \A c \in ReplayChat : Placed(c)' /\ Unskipped(c)'
    BY <1>1, <1>2, MarkCaptured DEF ReplayInv
<1>7. BatchHeld'
    BY <1>1 DEF BatchHeld, Working
<1> QED
    BY <1>1, <1>5, <1>6, <1>7 DEF ReplayInv

LEMMA AdvanceKeeps ==
  ASSUME ReplayInv, Cross \/ Advance
  PROVE  ReplayInv'
<1>1. /\ UNCHANGED <<rows, accepted, windows, fed, done, backlog, cut, host, run, batch>>
      /\ Advances /\ ~AdvanceThrows /\ scanner' = Advanced /\ run \notin Working
    BY DEF Cross, Advance, archiveState, scribeState, hostState, runState,
           ReplayInv, BatchHeld, Working
<1>2. ReplayTypeOK /\ scanner \in [ReplayChat -> Scanner]
    BY DEF ReplayInv, ReplayTypeOK, Scanner
<1>3. \A c \in ReplayChat : LastRow(c) \in Nat /\ (c \in Moving => scanner[c].mark \in Nat)
    BY <1>1, <1>2, LastRowIs, ScannerIs DEF AdvanceThrows
<1>4. scanner' \in [ReplayChat -> Scanner]
    BY <1>1, <1>2, <1>3 DEF Advanced, NextRound, WentLive, Scanner
<1>5. ReplayTypeOK'
    BY <1>1, <1>2, <1>4 DEF ReplayTypeOK, Scanner
<1>6. \A c \in ReplayChat : Placed(c)' /\ Unskipped(c)'
    BY <1>1, <1>2, ScannerAdvances DEF ReplayInv
<1>7. BatchHeld'
    BY <1>1 DEF ReplayInv, BatchHeld, Working
<1> QED
    BY <1>1, <1>5, <1>6, <1>7 DEF ReplayInv

LEMMA CheckpointKeeps ==
  ASSUME ReplayInv, Checkpoint
  PROVE  ReplayInv'
<1>1. /\ UNCHANGED <<rows, accepted, windows, fed, done, backlog, cut, host>>
      /\ scanner' = Moved(batch) /\ run = "told" /\ run' = "next"
    BY DEF Checkpoint, archiveState, scribeState, hostState
<1>2. ReplayTypeOK /\ scanner \in [ReplayChat -> Scanner] /\ BatchHeld
    BY DEF ReplayInv, ReplayTypeOK, Scanner
<1>3. ASSUME NEW c \in ReplayChat
      PROVE  /\ Placed(c)' /\ Unskipped(c)'
             /\ scanner'[c] # scanner[c] => scanner'[c] = [scanner[c] EXCEPT !.cursor = LatestOf(batch, c)]
                                            /\ LatestOf(batch, c) \in Nat
  <2>1. \A r \in RowsOf(c) : r \in Nat
      BY <1>2, ScannerIs DEF RowsOf
  <2> QED
      BY <2>1, <1>1, <1>2, CursorMoves DEF ReplayInv
<1>4. \A s \in Scanner, n \in Nat : [s EXCEPT !.cursor = n] \in Scanner
    BY DEF Scanner
<1>5. scanner' \in [ReplayChat -> Scanner]
  <2>1. \A c \in ReplayChat : scanner[c] \in Scanner
      BY <1>2
  <2>2. ASSUME NEW c \in ReplayChat PROVE scanner'[c] \in Scanner
    <3>1. CASE scanner'[c] = scanner[c]
        BY <3>1, <2>1
    <3>2. CASE scanner'[c] # scanner[c]
      <4>1. scanner'[c] = [scanner[c] EXCEPT !.cursor = LatestOf(batch, c)] /\ LatestOf(batch, c) \in Nat
          BY <3>2, <1>3
      <4> QED
          BY <4>1, <2>1, <1>4
    <3> QED
        BY <3>1, <3>2
  <2> QED
      BY <2>2, <1>1 DEF Moved
<1>6. ReplayTypeOK'
    BY <1>1, <1>2, <1>5 DEF ReplayTypeOK, Scanner
<1>7. BatchHeld'
    BY <1>1, <1>2 DEF BatchHeld, Working
<1> QED
    BY <1>1, <1>3, <1>6, <1>7 DEF ReplayInv

LEMMA FailRunKeeps ==
  ASSUME ReplayInv, FailRun
  PROVE  ReplayInv'
<1>1. /\ UNCHANGED <<rows, accepted, windows, fed, done, backlog, cut, host>>
      /\ run' = "off"
      /\ scanner' = [c \in ReplayChat |->
                       IF c \in CatchingUp THEN [scanner[c] EXCEPT !.mode = "failed"] ELSE scanner[c]]
    BY DEF FailRun, archiveState, scribeState, hostState
<1>2. ReplayTypeOK /\ scanner \in [ReplayChat -> Scanner]
    BY DEF ReplayInv, ReplayTypeOK, Scanner
<1>3. scanner' \in [ReplayChat -> Scanner]
    BY <1>1, <1>2 DEF Scanner
<1>4. ReplayTypeOK'
    BY <1>1, <1>2, <1>3 DEF ReplayTypeOK, Scanner
<1>5. ASSUME NEW c \in ReplayChat PROVE Placed(c)' /\ Unskipped(c)'
  <2>1. CASE scanner'[c] = scanner[c]
      BY <2>1, <1>1, ScannerStays DEF ReplayInv
  <2>2. CASE scanner'[c] = [scanner[c] EXCEPT !.mode = "failed"]
      BY <2>2, <1>1, <1>2, ModeChanges DEF ReplayInv
  <2> QED
      BY <2>1, <2>2, <1>1
<1>6. BatchHeld'
    BY <1>1 DEF BatchHeld, Working
<1> QED
    BY <1>1, <1>4, <1>5, <1>6 DEF ReplayInv

(* What is fed and drained, and what only the host sees.                   *)
LEMMA RestKeeps ==
  ASSUME ReplayInv,
         \/ \E M \in SUBSET ReplayChat : Reload(M)
         \/ OtherDrain \/ BrainSettles
         \/ Synchronized \/ GoOnline \/ BootFails \/ ReplayDies \/ Restart
         \/ TakeBatch \/ EndRun \/ Feed \/ Drain
  PROVE  ReplayInv'
<1>1. UNCHANGED <<rows, accepted, windows, scanner, cut>> /\ fed \subseteq fed'
    BY DEF Reload, OtherDrain, BrainSettles, Synchronized, GoOnline, BootFails, ReplayDies,
           Restart, TakeBatch, EndRun, Feed, Drain, archiveState, scribeState, Extract
<1>2. ReplayTypeOK /\ BatchHeld
    BY DEF ReplayInv
<1>3. done \subseteq done' /\ done' \subseteq fed' /\ backlog' \subseteq done'
    BY <1>2 DEF Reload, OtherDrain, BrainSettles, Synchronized, GoOnline, BootFails, ReplayDies,
           Restart, TakeBatch, EndRun, Feed, Drain, archiveState, scribeState, Extract, ReplayTypeOK
<1>4. fed' \subseteq Shown
    BY <1>2 DEF Reload, OtherDrain, BrainSettles, Synchronized, GoOnline, BootFails, ReplayDies,
           Restart, TakeBatch, EndRun, Feed, Drain, archiveState, scribeState, ReplayTypeOK, Visible
<1>5. /\ host' \in {"down", "sync", "reconcile", "cross", "up"}
      /\ run' \in {"off", "start", "next", "feed", "drain", "told"}
    BY <1>2 DEF Reload, OtherDrain, BrainSettles, Synchronized, GoOnline, BootFails, ReplayDies,
           Restart, TakeBatch, EndRun, Feed, Drain, hostState, runState, Stopped, ReplayTypeOK
<1>6. ReplayTypeOK'
    BY <1>1, <1>2, <1>3, <1>4, <1>5 DEF ReplayTypeOK
<1>7. \A c \in ReplayChat : Placed(c)' /\ Unskipped(c)'
    BY <1>1, AllScannersStay DEF ReplayInv
<1>8. BatchHeld'
  <2>1. CASE \/ \E M \in SUBSET ReplayChat : Reload(M)
             \/ OtherDrain \/ BrainSettles
    <3>1. UNCHANGED <<batch, run, host>>
        BY <2>1 DEF Reload, OtherDrain, BrainSettles, hostState, runState
    <3> QED
        BY <3>1, <1>1, <1>2, <1>3, BatchStays
  <2>2. CASE Synchronized \/ GoOnline \/ BootFails \/ ReplayDies \/ Restart \/ EndRun
    <3>1. run' \notin Working /\ (run' # "off" => host' = "up")
        BY <2>2, <1>2 DEF Synchronized, GoOnline, BootFails, ReplayDies, Restart, EndRun,
                          Stopped, hostState, runState, BatchHeld, Working
    <3> QED
        BY <3>1 DEF BatchHeld, Working
  <2>3. CASE TakeBatch
    <3>1. /\ host = "up" /\ host' = "up" /\ batch' = NextBatch
          /\ run' = IF Visible(NextBatch) = {} THEN "told" ELSE "feed"
        BY <2>3, <1>2 DEF TakeBatch, hostState, BatchHeld
    <3>2. \A r \in NextBatch : r \in DOMAIN rows
        BY <1>2, NextBatchIs
    <3>3. ASSUME NEW r \in NextBatch PROVE Taken(r)'
      <4>1. /\ scanner[ReplayChatOf[rows[r]]].mode = "catching_up"
            /\ r \in RowsFor(ReplayChatOf[rows[r]])
            /\ \A q \in RowsFor(ReplayChatOf[rows[r]]) : Earlier(q, r) => q \in batch'
          BY <3>1, <1>2, NextBatchIs
      <4>2. rows' = rows /\ scanner' = scanner
          BY <1>1
      <4> QED
          BY <4>1, <4>2 DEF Taken, RowsFor, RowsOf, Earlier
    <3>4. Visible(batch)' = Visible(NextBatch)
        BY <3>1, <1>1 DEF Visible
    <3> QED
        BY <3>1, <3>2, <3>3, <3>4, <1>1 DEF BatchHeld, Working
  <2>4. CASE Feed \/ Drain
    <3>1. /\ UNCHANGED <<batch, host>> /\ run \in Working /\ run' \in {"drain", "told"} /\ host = "up"
          /\ Visible(batch) \subseteq fed'
          /\ (run' = "told" => done' = fed /\ Visible(batch) \subseteq fed)
        BY <2>4, <1>2 DEF Feed, Drain, Extract, hostState, BatchHeld, Working
    <3>2. \A r \in batch : Taken(r) => Taken(r)'
        BY <3>1, <1>1, TakenStays
    <3>3. Visible(batch)' = Visible(batch)
        BY <3>1, <1>1 DEF Visible
    <3> QED
        BY <3>1, <3>2, <3>3, <1>1, <1>2 DEF BatchHeld, Working
  <2> QED
      BY <2>1, <2>2, <2>3, <2>4
<1> QED
    BY <1>1, <1>6, <1>7, <1>8 DEF ReplayInv

LEMMA NextReplayInv == ReplayInv /\ [ReplayNext]_replayVars => ReplayInv'
<1> SUFFICES ASSUME ReplayInv, [ReplayNext]_replayVars PROVE ReplayInv'
    OBVIOUS
<1>1. CASE \E e \in ArchiveEvent : ImportHistory(e) \/ Archive(e) \/ DispatchWindow(e)
    BY <1>1, ImportHistoryKeeps, ArchiveKeeps, DispatchWindowKeeps
<1>2. CASE \E c \in ReplayChat : RetryScanner(c) \/ BootChat(c)
    BY <1>2, RetryScannerKeeps, BootChatKeeps
<1>3. CASE CaptureSnapshots \/ StartRun
    BY <1>3, CaptureKeeps
<1>4. CASE Cross \/ Advance
    BY <1>4, AdvanceKeeps
<1>5. CASE Checkpoint
    BY <1>5, CheckpointKeeps
<1>6. CASE FailRun
    BY <1>6, FailRunKeeps
<1>7. CASE \/ \E M \in SUBSET ReplayChat : Reload(M)
           \/ OtherDrain \/ BrainSettles
           \/ Synchronized \/ GoOnline \/ BootFails \/ ReplayDies \/ Restart
           \/ TakeBatch \/ EndRun \/ Feed \/ Drain
    BY <1>7, RestKeeps
<1>8. CASE UNCHANGED replayVars
  <2>1. UNCHANGED <<rows, accepted, windows, scanner, fed, done, backlog, cut, host, run, batch>>
      BY <1>8 DEF replayVars, archiveState, scribeState, hostState, runState
  <2>2. \A c \in ReplayChat : Placed(c)' /\ Unskipped(c)'
      BY <2>1, AllScannersStay DEF ReplayInv
  <2>3. BatchHeld'
      BY <2>1, BatchStays DEF ReplayInv
  <2>4. ReplayTypeOK'
      BY <2>1 DEF ReplayInv, ReplayTypeOK
  <2> QED
      BY <2>1, <2>2, <2>3, <2>4 DEF ReplayInv
<1> QED
    BY <1>1, <1>2, <1>3, <1>4, <1>5, <1>6, <1>7, <1>8 DEF ReplayNext, Boot, Workflow

(* The cursor of a scanner moves to a row in a checkpoint only.            *)
LEMMA CursorFollowsExtraction ==
  ASSUME ReplayInv, [ReplayNext]_replayVars, NEW c \in ReplayChat,
         scanner'[c].cursor # 0, scanner'[c].cursor # scanner[c].cursor
  PROVE  Visible(batch \cap RowsOf(c)) \subseteq done
<1>1. scanner[c] \in Scanner /\ scanner \in [ReplayChat -> Scanner]
    BY ScannerIs DEF ReplayInv, ReplayTypeOK, Scanner
<1>2. CASE Checkpoint
    BY <1>2 DEF Checkpoint, ReplayInv, BatchHeld, Visible
<1>3. CASE \E d \in ReplayChat : RetryScanner(d) \/ BootChat(d)
  <2>1. PICK d \in ReplayChat : \/ UNCHANGED scanner
                                \/ scanner' = [scanner EXCEPT ![d].mode = "catching_up"]
                                \/ scanner' = [scanner EXCEPT ![d] = Disabled(d)]
      BY <1>3 DEF RetryScanner, BootChat
  <2>2. /\ Disabled(c).cursor \in {0, scanner[c].cursor}
        /\ [scanner[c] EXCEPT !.mode = "catching_up"].cursor = scanner[c].cursor
      BY <1>1 DEF Disabled, Scanner
  <2>3. scanner'[c] \in {scanner[c], [scanner[c] EXCEPT !.mode = "catching_up"], Disabled(c)}
      BY <2>1, <1>1
  <2> QED
      BY <2>2, <2>3
<1>4. CASE CaptureSnapshots \/ StartRun
    BY <1>1, <1>4 DEF CaptureSnapshots, StartRun, Captured, Scanner
<1>5. CASE Cross \/ Advance
  <2>1. NextRound(scanner[c], c).cursor = 0 /\ WentLive(scanner[c]).cursor = 0
      BY <1>1 DEF NextRound, WentLive, Scanner
  <2>2. scanner'[c] \in {scanner[c], NextRound(scanner[c], c), WentLive(scanner[c])}
      BY <1>5 DEF Cross, Advance, Advanced
  <2> QED
      BY <2>1, <2>2
<1>6. CASE FailRun
    BY <1>1, <1>6 DEF FailRun, Scanner
<1>7. CASE UNCHANGED scanner
    BY <1>7
<1> QED
    BY <1>2, <1>3, <1>4, <1>5, <1>6, <1>7
    DEF ReplayNext, Boot, Workflow, ImportHistory, Archive, DispatchWindow, Reload, OtherDrain,
        BrainSettles, Synchronized, GoOnline, BootFails, ReplayDies, Restart, TakeBatch, EndRun,
        Feed, Drain, replayVars

(* A scanner goes live in the last step of a round only.                   *)
LEMMA LiveInOneStep ==
  ASSUME ReplayInv, [ReplayNext]_replayVars, NEW c \in ReplayChat,
         scanner[c].mode = "catching_up", scanner'[c].mode = "live", NEW d \in CatchingUp
  PROVE  scanner'[d].mode = "live" /\ RowsFor(d) = {} /\ LastRow(d) <= scanner[d].mark
<1>1. /\ scanner[c] \in Scanner /\ scanner \in [ReplayChat -> Scanner] /\ d \in ReplayChat
      /\ scanner[d] \in Scanner /\ scanner[d].mode = "catching_up"
    BY ScannerIs DEF ReplayInv, ReplayTypeOK, Scanner, CatchingUp
<1>2. CASE Checkpoint
    BY <1>1, <1>2 DEF Checkpoint, Moved, Scanner
<1>3. CASE \E e \in ReplayChat : RetryScanner(e) \/ BootChat(e)
    BY <1>1, <1>3 DEF RetryScanner, BootChat, Disabled, Scanner
<1>4. CASE CaptureSnapshots \/ StartRun
    BY <1>1, <1>4 DEF CaptureSnapshots, StartRun, Captured, Scanner
<1>5. CASE Cross \/ Advance
  <2>1. Advances /\ ~AdvanceThrows /\ scanner' = Advanced
      BY <1>5 DEF Cross, Advance
  <2>2. Snapshots = {} /\ ~HasNewRows
      BY <2>1, <1>1 DEF Advanced, NextRound, Scanner
  <2>3. d \in Moving /\ RowsFor(d) = {} /\ scanner[d].mark # NoMark
      BY <2>1, <2>2 DEF Moving, Advances, AdvanceThrows
  <2>4. scanner'[d].mode = "live"
      BY <2>1, <2>2, <2>3, <1>1 DEF Advanced, WentLive, Scanner
  <2>5. ~(LastRow(d) > scanner[d].mark)
      BY <2>2, <2>3 DEF HasNewRows, MarkedAt
  <2>6. LastRow(d) <= scanner[d].mark
    <3>1. LastRow(d) \in Nat /\ scanner[d].mark \in Nat
        BY <1>1, <2>3, LastRowIs, ScannerIs DEF ReplayInv
    <3> QED
        BY <3>1, <2>5
  <2> QED
      BY <2>3, <2>4, <2>6
<1>6. CASE FailRun
    BY <1>1, <1>6 DEF FailRun, Scanner
<1>7. CASE UNCHANGED scanner
    BY <1>7
<1> QED
    BY <1>2, <1>3, <1>4, <1>5, <1>6, <1>7
    DEF ReplayNext, Boot, Workflow, ImportHistory, Archive, DispatchWindow, Reload, OtherDrain,
        BrainSettles, Synchronized, GoOnline, BootFails, ReplayDies, Restart, TakeBatch, EndRun,
        Feed, Drain, replayVars

-----------------------------------------------------------------------------
(* The inductive invariant of the replay holds always: the types, where    *)
(* marks and cursors lie, what is passed, and what a run holds.            *)
THEOREM ReplayInvariant == ReplaySpec => []ReplayInv
<1> QED
    BY InitReplayInv, NextReplayInv, PTL DEF ReplaySpec

(* The handoff from the archive to the live stream leaves no gap, for any  *)
(* chats, archive and batch size, through deaths, failures, retries and    *)
(* reloads: what a scanner has passed is fed or was cut off, what lies     *)
(* beyond a live chat's mark is fed or waits in its Window, a cursor       *)
(* passes only what is extracted, and chats go live together               *)
(* (historical-replay.ts, the workflow, liveSlice).                        *)
THEOREM HandoffIsExactAlways == ReplaySpec => HandoffIsExact
<1>1. ReplayInv => ReplayTypeOK /\ NothingSkipped
    BY DEF ReplayInv, Unskipped, NothingSkipped
<1>2. ReplayInv /\ [ReplayNext]_replayVars =>
        [\A c \in ReplayChat : scanner'[c].cursor # 0 /\ scanner'[c].cursor # scanner[c].cursor =>
           Visible(batch \cap RowsOf(c)) \subseteq done]_replayVars
    BY CursorFollowsExtraction
<1>3. ReplayInv /\ [ReplayNext]_replayVars =>
        [\A c \in ReplayChat : scanner[c].mode = "catching_up" /\ scanner'[c].mode = "live" =>
           \A d \in CatchingUp : scanner'[d].mode = "live" /\ RowsFor(d) = {}
                                   /\ LastRow(d) <= scanner[d].mark]_replayVars
    BY LiveInOneStep
<1> QED
    BY <1>1, <1>2, <1>3, ReplayInvariant, PTL
    DEF ReplaySpec, HandoffIsExact, CheckpointAfterExtraction, LiveTogether
=============================================================================
