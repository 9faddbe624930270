-------------------------- MODULE EntryCodecProofs --------------------------
(***************************************************************************)
(* Proofs about the conversions of a desired entry, for all lists of       *)
(* selectors, all SPIFFE IDs and any behaviour of SPIRE's other clients.   *)
(***************************************************************************)
EXTENDS EntryCodec, FiniteSetTheorems, FunctionTheorems, TLAPS

\* A selector the API accepts is one the SPIRE client can take apart.
LEMMA SelectorAgrees ==
    ASSUME NEW raw, ValidSelector(raw)
    PROVE  SelectorParses(raw)
BY DEF ValidSelector, SelectorParses, SelectorTypes

\* validateDesiredFields is at least as strict as desiredEntry and
\* toProtoEntry together, as far as the body goes; it does not see the SPIFFE
\* ID of the workload the body is stored for.
LEMMA ValidIsApplicable ==
    ASSUME NEW d \in Bodies, Valid(d), NEW id
    PROVE  /\ Desirable(StoredAs(d, id))
           /\ Canonical(id) => Converts(StoredAs(d, id))
<1>1. d.selectors # <<>>
  BY DEF Valid
<1>2. \A i \in DOMAIN d.selectors : SelectorParses(d.selectors[i])
  BY SelectorAgrees DEF Valid
<1>3. ValidTTL(d.ttl) /\ Canonical(d.parent)
  BY DEF Valid, ValidSPIFFEID
<1>4. /\ StoredAs(d, id).selectors = d.selectors
      /\ StoredAs(d, id).parent = d.parent
      /\ StoredAs(d, id).ttl = d.ttl
      /\ StoredAs(d, id).spiffe = id
  BY DEF StoredAs
<1> QED
  BY <1>1, <1>2, <1>3, <1>4 DEF Desirable, Converts

\* Whatever selectors, TTL and parent the API stores, desiredEntry accepts
\* them and the client's conversion takes them apart: what may still refuse an
\* accepted rule is its workload's SPIFFE ID, which no request carries.
THEOREM AcceptedApplicable == CodecSpec => []AcceptedIsApplicable
<1>1. CodecInit => AcceptedIsApplicable
  BY DEF CodecInit, AcceptedIsApplicable
<1>2. AcceptedIsApplicable /\ [CodecNext]_codecVars => AcceptedIsApplicable'
  <2> SUFFICES ASSUME AcceptedIsApplicable, [CodecNext]_codecVars
               PROVE  AcceptedIsApplicable'
    OBVIOUS
  <2>1. ASSUME NEW d \in Inputs, Replace(d) PROVE AcceptedIsApplicable'
    <3>1. d \in Bodies /\ Valid(d) /\ rule' = StoredAs(d, rule.spiffe)
      BY <2>1, SpellingAssumption DEF Replace
    <3>2. rule'.spiffe = rule.spiffe
      BY <3>1 DEF StoredAs
    <3>3. Desirable(rule') /\ (Canonical(rule'.spiffe) => Converts(rule'))
      BY <3>1, <3>2, ValidIsApplicable
    <3> QED
      BY <3>3 DEF AcceptedIsApplicable
  <2>2. CASE UNCHANGED <<rule, validated>>
    BY <2>2 DEF AcceptedIsApplicable
  <2>3. Reconcile \/ Drift \/ UNCHANGED codecVars
           => UNCHANGED <<rule, validated>>
    BY DEF Reconcile, Drift, codecVars
  <2> QED
    BY <2>1, <2>2, <2>3 DEF CodecNext
<1> QED
  BY <1>1, <1>2, PTL DEF CodecSpec
-----------------------------------------------------------------------------
\* What the proofs use of sequences.
LEMMA SeqElements ==
    ASSUME NEW S, NEW a \in Seq(S)
    PROVE  /\ DOMAIN a = 1 .. Len(a) /\ Len(a) \in Nat
           /\ \A i \in 1 .. Len(a) : a[i] \in S
OBVIOUS

LEMMA FcnIsSeq ==
    ASSUME NEW S, NEW n \in Nat, NEW f \in [1 .. n -> S]
    PROVE  f \in Seq(S) /\ Len(f) = n
OBVIOUS

\* A non-empty set of numbers has a least one.
LEMMA Least ==
    ASSUME NEW T \in SUBSET Nat, T # {}
    PROVE  \E x \in T : \A y \in T : x <= y
<1>1. PICK x \in T : \A y \in T : <<y, x>> \notin OpToRel(<, Nat)
  BY NatLessThanWellFounded, WFMin
<1>2. \A y \in T : ~(y < x)
  BY <1>1 DEF OpToRel
<1> QED
  BY <1>2

\* Parts that rank alike are the same.
LEMMA RankOrders ==
    /\ \A part \in PartNames : Rank(part) \in Int
    /\ \A s, t \in PartNames : Rank(s) = Rank(t) => s = t
<1>1. \A part \in PartNames :
         Rank(part) \in DOMAIN Parts /\ Parts[Rank(part)] = part
  BY DEF PartNames, Rank
<1>2. DOMAIN Parts = 1 .. 7
  BY DEF Parts
<1> QED
  BY <1>1, <1>2

\* Less is a strict total order of the selector strings.
LEMMA LessIrreflexive ==
    ASSUME NEW s \in Seq(PartNames)
    PROVE  ~Less(s, s)
<1>1. \A i \in DOMAIN s : s[i] \in PartNames
  OBVIOUS
<1> QED
  BY <1>1, RankOrders DEF Less

LEMMA LessTransitive ==
    ASSUME NEW s \in Seq(PartNames), NEW t \in Seq(PartNames),
           NEW u \in Seq(PartNames), Less(s, t), Less(t, u)
    PROVE  Less(s, u)
<1>0. /\ DOMAIN s = 1 .. Len(s) /\ DOMAIN t = 1 .. Len(t)
      /\ DOMAIN u = 1 .. Len(u)
  OBVIOUS
<1>1. PICK i \in 1 .. Len(t) :
         /\ \A j \in 1 .. i - 1 : j \in 1 .. Len(s) /\ s[j] = t[j]
         /\ i \in 1 .. Len(s) => Rank(s[i]) < Rank(t[i])
  BY <1>0, Zenon DEF Less
<1>2. PICK k \in 1 .. Len(u) :
         /\ \A j \in 1 .. k - 1 : j \in 1 .. Len(t) /\ t[j] = u[j]
         /\ k \in 1 .. Len(t) => Rank(t[k]) < Rank(u[k])
  BY <1>0, Zenon DEF Less
<1>3. /\ \A j \in 1 .. Len(s) : Rank(s[j]) \in Int
      /\ \A j \in 1 .. Len(t) : Rank(t[j]) \in Int
      /\ \A j \in 1 .. Len(u) : Rank(u[j]) \in Int
  BY RankOrders
<1> DEFINE Found(m) ==
              /\ m \in 1 .. Len(u)
              /\ \A j \in 1 .. m - 1 : j \in 1 .. Len(s) /\ s[j] = u[j]
              /\ m \in 1 .. Len(s) => Rank(s[m]) < Rank(u[m])
<1>4. CASE i < k
  <2> Found(i)
    BY <1>1, <1>2, <1>4
  <2> QED
    BY DEF Less
<1>5. CASE i = k
  <2> Found(i)
    BY <1>1, <1>2, <1>3, <1>5
  <2> QED
    BY DEF Less
<1>6. CASE i > k
  <2> Found(k)
    BY <1>1, <1>2, <1>6
  <2> QED
    BY DEF Less
<1> QED
  BY <1>4, <1>5, <1>6

LEMMA LessTotal ==
    ASSUME NEW s \in Seq(PartNames), NEW t \in Seq(PartNames), s # t
    PROVE  Less(s, t) \/ Less(t, s)
<1> DEFINE D == {k \in Nat :
                    k >= 1 /\ (k <= Len(s) /\ k <= Len(t) => s[k] # t[k])}
<1>1. Len(s) + 1 \in D
  OBVIOUS
<1>2. PICK i \in D : \A k \in D : i <= k
  <2> HIDE DEF D
  <2>1. D \in SUBSET Nat /\ D # {}
    BY <1>1 DEF D
  <2> QED
    BY <2>1, Least
<1>3. /\ i \in Nat /\ i >= 1 /\ (i <= Len(s) /\ i <= Len(t) => s[i] # t[i])
      /\ \A k \in 1 .. i - 1 : k <= Len(s) /\ k <= Len(t) /\ s[k] = t[k]
  <2>1. \A k \in 1 .. i - 1 : k \notin D
    BY <1>2
  <2> QED
    BY <2>1
<1>4. CASE i <= Len(s) /\ i <= Len(t)
  <2>1. Rank(s[i]) < Rank(t[i]) \/ Rank(t[i]) < Rank(s[i])
    <3>1. s[i] \in PartNames /\ t[i] \in PartNames /\ s[i] # t[i]
      BY <1>3, <1>4
    <3> HIDE DEF D
    <3> QED
      BY <3>1, RankOrders
  <2> QED
    BY <2>1, <1>3, <1>4 DEF Less
<1>5. CASE i > Len(s) /\ i <= Len(t)
  BY <1>3, <1>5 DEF Less
<1>6. CASE i <= Len(s) /\ i > Len(t)
  BY <1>3, <1>6 DEF Less
<1>7. CASE i > Len(s) /\ i > Len(t)
  <2>1. Len(s) = i - 1 /\ Len(t) = i - 1
    BY <1>3, <1>7
  <2>2. \A k \in 1 .. Len(s) : s[k] = t[k]
    BY <2>1, <1>3
  <2> HIDE DEF D
  <2> QED
    BY <2>1, <2>2
<1> QED
  BY <1>3, <1>4, <1>5, <1>6, <1>7
\* Counting in intervals, and the pigeon-hole principle for them.
LEMMA Interval ==
    ASSUME NEW n \in Nat
    PROVE  IsFiniteSet(1 .. n) /\ Cardinality(1 .. n) = n
<1>1. 1 \in Int /\ n \in Int
  OBVIOUS
<1>2. /\ IsFiniteSet(1 .. n)
      /\ Cardinality(1 .. n) = IF 1 > n THEN 0 ELSE n - 1 + 1
  BY <1>1, FS_Interval, Zenon
<1> QED
  BY <1>2

LEMMA Pigeons ==
    ASSUME NEW n \in Nat, NEW f \in [1 .. n + 1 -> 1 .. n]
    PROVE  \E i, j \in 1 .. n + 1 : i # j /\ f[i] = f[j]
<1>1. /\ IsFiniteSet(1 .. n) /\ Cardinality(1 .. n) = n
      /\ IsFiniteSet(1 .. n + 1) /\ Cardinality(1 .. n + 1) = n + 1
  BY Interval
<1>2. Cardinality(1 .. n) < Cardinality(1 .. n + 1)
  BY <1>1
<1> QED
  BY <1>1, <1>2, FS_PigeonHole, Zenon

\* Bijections of a set onto itself can be undone and composed.
LEMMA Inverting ==
    ASSUME NEW I, NEW p \in Bijection(I, I)
    PROVE  \E q \in Bijection(I, I) :
              \A i \in I : /\ q[i] \in I /\ p[i] \in I
                           /\ q[p[i]] = i /\ p[q[i]] = i
<1> DEFINE q == Inverse(p, I, I)
<1>1. q \in Bijection(I, I) /\ \A i \in I : q[p[i]] = i
  BY Fun_BijInverse, Zenon
<1> HIDE DEF q
<1>2. p \in [I -> I] /\ \A j \in I : \E i \in I : p[i] = j
  BY Fun_BijectionProperties, Zenon
<1>3. q \in [I -> I]
  BY <1>1, Fun_BijectionProperties, Zenon
<1>4. \A j \in I : p[q[j]] = j
  BY <1>1, <1>2, Zenon
<1> QED
  BY <1>1, <1>2, <1>3, <1>4

LEMMA Composing ==
    ASSUME NEW I, NEW p \in Bijection(I, I), NEW q \in Bijection(I, I)
    PROVE  [i \in I |-> p[q[i]]] \in Bijection(I, I)
BY Fun_BijTransitive, Zenon

\* A rearrangement is a list of the same length whose places stand for
\* places of the other.
LEMMA RearrangementIsSeq ==
    ASSUME NEW S, NEW a \in Seq(S), NEW b \in Rearrangements(a)
    PROVE  /\ b \in Seq(S) /\ Len(b) = Len(a)
           /\ \E p \in Bijection(1 .. Len(a), 1 .. Len(a)) :
                 \A i \in 1 .. Len(a) : p[i] \in 1 .. Len(a) /\ b[i] = a[p[i]]
<1>0. DOMAIN a = 1 .. Len(a) /\ Len(a) \in Nat
  OBVIOUS
<1>1. PICK p \in Bijection(1 .. Len(a), 1 .. Len(a)) :
         b = [i \in 1 .. Len(a) |-> a[p[i]]]
  BY <1>0, Zenon DEF Rearrangements
<1>2. p \in [1 .. Len(a) -> 1 .. Len(a)]
  BY <1>1, Fun_BijectionProperties, Zenon
<1>3. \A i \in 1 .. Len(a) : p[i] \in 1 .. Len(a) /\ b[i] = a[p[i]]
  BY <1>1, <1>2, Zenon
<1>4. b \in [1 .. Len(a) -> S]
  BY <1>1, <1>2
<1>5. b \in Seq(S) /\ Len(b) = Len(a)
  BY <1>0, <1>4
<1> QED
  BY <1>3, <1>5, Zenon

LEMMA IsRearrangement ==
    ASSUME NEW S, NEW a \in Seq(S), NEW b \in Seq(S), Len(b) = Len(a),
           NEW p \in Bijection(1 .. Len(a), 1 .. Len(a)),
           \A i \in 1 .. Len(a) : b[i] = a[p[i]]
    PROVE  b \in Rearrangements(a)
<1>1. DOMAIN a = 1 .. Len(a)
  OBVIOUS
<1>2. b = [i \in 1 .. Len(a) |-> a[p[i]]]
  <2>1. b = [i \in 1 .. Len(a) |-> b[i]]
    OBVIOUS
  <2> QED
    BY <2>1, Zenon
<1> QED
  BY <1>1, <1>2, Zenon DEF Rearrangements

\* Being a rearrangement is symmetric and transitive.
LEMMA RearrangementSymmetric ==
    ASSUME NEW S, NEW a \in Seq(S), NEW b \in Rearrangements(a)
    PROVE  a \in Rearrangements(b)
<1> DEFINE I == 1 .. Len(a)
<1>1. b \in Seq(S) /\ Len(b) = Len(a)
  BY RearrangementIsSeq
<1>2. PICK p \in Bijection(I, I) :
         \A i \in I : p[i] \in I /\ b[i] = a[p[i]]
  BY RearrangementIsSeq
<1>3. PICK q \in Bijection(I, I) :
         \A i \in I : q[i] \in I /\ p[i] \in I /\ q[p[i]] = i /\ p[q[i]] = i
  <2> HIDE DEF I
  <2> QED
    BY Inverting
<1>4. \A j \in I : a[j] = b[q[j]]
  BY <1>2, <1>3
<1> QED
  BY <1>1, <1>3, <1>4, IsRearrangement

LEMMA RearrangementTransitive ==
    ASSUME NEW S, NEW a \in Seq(S), NEW b \in Rearrangements(a),
           NEW c \in Rearrangements(b)
    PROVE  c \in Rearrangements(a)
<1> DEFINE I == 1 .. Len(a)
<1>1. b \in Seq(S) /\ Len(b) = Len(a)
  BY RearrangementIsSeq
<1>2. PICK p \in Bijection(I, I) :
         \A i \in I : p[i] \in I /\ b[i] = a[p[i]]
  BY RearrangementIsSeq
<1>3. c \in Seq(S) /\ Len(c) = Len(a)
  BY <1>1, RearrangementIsSeq
<1>4. PICK q \in Bijection(I, I) :
         \A i \in I : q[i] \in I /\ c[i] = b[q[i]]
  BY <1>1, RearrangementIsSeq
<1> DEFINE r == [i \in I |-> p[q[i]]]
<1>5. r \in Bijection(I, I)
  <2> HIDE DEF I
  <2> QED
    BY Composing
<1>6. \A i \in I : c[i] = a[r[i]]
  BY <1>2, <1>4, Zenon
<1> HIDE DEF r
<1> QED
  BY <1>3, <1>5, <1>6, IsRearrangement

\* Every list of selector strings can be sorted: a place goes to the number
\* of places before it, equal strings in the order they come in.
LEMMA Sortable ==
    ASSUME NEW a \in Seq(Seq(PartNames))
    PROVE  \E b \in Rearrangements(a) : InOrder(b)
<1> DEFINE I == 1 .. Len(a)
           Before(i, j) == Less(a[i], a[j]) \/ (a[i] = a[j] /\ i < j)
           Below(i) == {j \in I : Before(j, i)}
           rank == [i \in I |-> Cardinality(Below(i)) + 1]
<1>1. /\ Len(a) \in Nat /\ IsFiniteSet(I) /\ Cardinality(I) = Len(a)
      /\ \A i \in I : a[i] \in Seq(PartNames)
      /\ I \subseteq Nat
  <2>1. Len(a) \in Nat
    OBVIOUS
  <2>2. IsFiniteSet(I) /\ Cardinality(I) = Len(a)
    BY <2>1, Interval
  <2> QED
    BY <2>2
<1> HIDE DEF I
<1>2. /\ \A i \in I : ~Before(i, i)
      /\ \A i, j, k \in I : Before(i, j) /\ Before(j, k) => Before(i, k)
      /\ \A i, j \in I : i = j \/ Before(i, j) \/ Before(j, i)
  <2>1. \A i \in I : ~Before(i, i)
    BY <1>1, LessIrreflexive
  <2>2. \A i, j, k \in I : Before(i, j) /\ Before(j, k) => Before(i, k)
    <3> SUFFICES ASSUME NEW i \in I, NEW j \in I, NEW k \in I,
                        Before(i, j), Before(j, k)
                 PROVE  Before(i, k)
      BY Zenon
    <3>1. /\ a[i] \in Seq(PartNames) /\ a[j] \in Seq(PartNames)
          /\ a[k] \in Seq(PartNames)
      BY <1>1
    <3>2. Less(a[i], a[j]) /\ Less(a[j], a[k]) => Less(a[i], a[k])
      BY <3>1, LessTransitive
    <3> QED
      BY <1>1, <3>2
  <2>3. \A i, j \in I : i = j \/ Before(i, j) \/ Before(j, i)
    BY <1>1, LessTotal
  <2> QED
    BY <2>1, <2>2, <2>3
<1> HIDE DEF Before
<1>3. \A i \in I : /\ IsFiniteSet(Below(i))
                   /\ Cardinality(Below(i)) \in 0 .. Len(a) - 1
  <2> SUFFICES ASSUME NEW i \in I
               PROVE  /\ IsFiniteSet(Below(i))
                      /\ Cardinality(Below(i)) \in 0 .. Len(a) - 1
    OBVIOUS
  <2>1. Below(i) \in SUBSET I /\ Below(i) # I
    BY <1>2
  <2> HIDE DEF Below
  <2>2. /\ IsFiniteSet(Below(i)) /\ Cardinality(Below(i)) <= Cardinality(I)
        /\ Cardinality(Below(i)) # Cardinality(I)
    BY <1>1, <2>1, FS_Subset
  <2>3. Cardinality(Below(i)) \in Nat
    BY <2>2, FS_CardinalityType
  <2> QED
    BY <1>1, <2>2, <2>3
<1>4. \A i, j \in I :
         Before(i, j) => Cardinality(Below(i)) < Cardinality(Below(j))
  <2> SUFFICES ASSUME NEW i \in I, NEW j \in I, Before(i, j)
               PROVE  Cardinality(Below(i)) < Cardinality(Below(j))
    OBVIOUS
  <2>1. Below(i) \in SUBSET Below(j) /\ Below(i) # Below(j)
    BY <1>2
  <2> HIDE DEF Below
  <2>2. /\ Cardinality(Below(i)) <= Cardinality(Below(j))
        /\ Cardinality(Below(i)) # Cardinality(Below(j))
    BY <1>3, <2>1, FS_Subset
  <2> QED
    BY <1>3, <2>2
<1>5. rank \in [I -> I] /\ \A i, j \in I : Before(i, j) => rank[i] < rank[j]
  <2> HIDE DEF Below
  <2>1. \A i \in I : rank[i] \in I
    BY <1>1, <1>3 DEF I
  <2>2. \A i \in I : rank[i] = Cardinality(Below(i)) + 1
    OBVIOUS
  <2>3. rank \in [I -> I]
    BY <2>1
  <2> HIDE DEF rank
  <2>4. ASSUME NEW i \in I, NEW j \in I, Before(i, j)
        PROVE  rank[i] < rank[j]
    BY <1>3, <1>4, <2>2, <2>4
  <2> QED
    BY <2>3, <2>4
<1> HIDE DEF rank
<1>6. rank \in Bijection(I, I)
  <2>1. rank \in Injection(I, I)
    <3>1. \A i, j \in I : rank[i] = rank[j] => i = j
      <4> SUFFICES ASSUME NEW i \in I, NEW j \in I, rank[i] = rank[j], i # j
                   PROVE  FALSE
        OBVIOUS
      <4>1. Before(i, j) \/ Before(j, i)
        BY <1>2
      <4>2. rank[i] < rank[j] \/ rank[j] < rank[i]
        BY <1>5, <4>1
      <4>3. rank[i] \in Nat /\ rank[j] \in Nat
        BY <1>1, <1>5
      <4> QED
        BY <4>2, <4>3
    <3> QED
      BY <1>5, <3>1, Fun_IsInj
  <2>2. rank \in Surjection(I, I)
    BY <1>1, <2>1, FS_Injection
  <2> QED
    BY <2>1, <2>2, Fun_IsBij
<1> DEFINE p == Inverse(rank, I, I)
<1>7. p \in Bijection(I, I) /\ \A i \in I : p[rank[i]] = i
  BY <1>6, Fun_BijInverse, Zenon
<1>8. p \in [I -> I] /\ \A j \in I : \E i \in I : rank[i] = j
  BY <1>6, <1>7, Fun_BijectionProperties, Zenon
<1>9. \A j \in I : rank[p[j]] = j
  BY <1>7, <1>8, Zenon
<1> HIDE DEF p
<1> DEFINE b == [i \in I |-> a[p[i]]]
<1>10. b \in Rearrangements(a)
  <2>1. DOMAIN a = I
    BY DEF I
  <2> QED
    BY <1>7, <2>1, Zenon DEF Rearrangements
<1>11. InOrder(b)
  <2> SUFFICES ASSUME NEW i \in I, NEW j \in I, i < j, Less(b[j], b[i])
               PROVE  FALSE
    BY Zenon DEF InOrder
  <2>1. Before(p[j], p[i]) /\ p[j] \in I /\ p[i] \in I
    BY <1>8 DEF Before
  <2>2. rank[p[j]] < rank[p[i]]
    BY <1>5, <2>1
  <2> QED
    BY <1>1, <1>9, <2>2
<1> QED
  BY <1>10, <1>11
\* Of two sorted lists with the same elements neither is smaller anywhere:
\* all that comes up to place i in b would have to fit below i in a.
LEMMA NotBelow ==
    ASSUME NEW a \in Seq(Seq(PartNames)), NEW b \in Rearrangements(a),
           InOrder(a), InOrder(b), NEW i \in 1 .. Len(a)
    PROVE  ~Less(b[i], a[i])
<1> SUFFICES ASSUME Less(b[i], a[i])
             PROVE  FALSE
  OBVIOUS
<1> DEFINE n == Len(a)
           I == 1 .. n
<1>1. /\ n \in Nat /\ b \in Seq(Seq(PartNames)) /\ Len(b) = n
      /\ DOMAIN a = I /\ DOMAIN b = I
  BY RearrangementIsSeq
<1>2. \A k \in I : a[k] \in Seq(PartNames) /\ b[k] \in Seq(PartNames)
  BY <1>1
<1>3. PICK p \in Bijection(I, I) : \A k \in I : p[k] \in I /\ b[k] = a[p[k]]
  BY RearrangementIsSeq
<1>4. ASSUME NEW k \in 1 .. i
      PROVE  p[k] \in 1 .. i - 1
  <2>1. k \in I /\ i \in I
    BY <1>1
  <2>2. b[k] = b[i] \/ Less(b[k], b[i])
    <3>1. k < i => ~Less(b[i], b[k])
      BY <1>1, <2>1, Zenon DEF InOrder
    <3> QED
      BY <1>2, <2>1, <3>1, LessTotal
  <2>3. Less(b[k], a[i])
    <3>1. /\ b[k] \in Seq(PartNames) /\ b[i] \in Seq(PartNames)
          /\ a[i] \in Seq(PartNames)
      BY <1>2, <2>1
    <3> QED
      BY <2>2, <3>1, LessTransitive
  <2>4. p[k] \in I /\ Less(a[p[k]], a[i])
    BY <1>3, <2>1, <2>3
  <2>5. ~(i < p[k])
    BY <1>1, <2>1, <2>4 DEF InOrder
  <2>6. p[k] # i
    BY <1>2, <2>1, <2>4, LessIrreflexive
  <2> QED
    BY <1>1, <2>4, <2>5, <2>6
<1>5. \A k, m \in I : p[k] = p[m] => k = m
  <2> HIDE DEF I
  <2> QED
    BY Fun_BijectionProperties
<1> DEFINE f == [k \in 1 .. i |-> p[k]]
<1>6. i - 1 \in Nat /\ i = (i - 1) + 1 /\ f \in [1 .. i -> 1 .. i - 1]
  BY <1>4
<1>7. PICK k \in 1 .. i, m \in 1 .. i : k # m /\ f[k] = f[m]
  <2> HIDE DEF f
  <2>1. f \in [1 .. (i - 1) + 1 -> 1 .. i - 1]
    BY <1>6
  <2>2. \E k, m \in 1 .. (i - 1) + 1 : k # m /\ f[k] = f[m]
    BY <1>6, <2>1, Pigeons, Zenon
  <2> QED
    BY <1>6, <2>2
<1>8. k \in I /\ m \in I /\ p[k] = p[m]
  BY <1>1, <1>7
<1> QED
  BY <1>5, <1>7, <1>8

\* So there is only one way to sort a list.
LEMMA SortedUnique ==
    ASSUME NEW a \in Seq(Seq(PartNames)), NEW b \in Rearrangements(a),
           InOrder(a), InOrder(b)
    PROVE  a = b
<1>1. b \in Seq(Seq(PartNames)) /\ Len(b) = Len(a) /\ a \in Rearrangements(b)
  BY RearrangementIsSeq, RearrangementSymmetric
<1>2. ASSUME NEW i \in 1 .. Len(a)
      PROVE  a[i] = b[i]
  <2>1. ~Less(b[i], a[i])
    BY NotBelow
  <2>2. ~Less(a[i], b[i])
    BY <1>1, NotBelow
  <2>3. a[i] \in Seq(PartNames) /\ b[i] \in Seq(PartNames)
    BY <1>1
  <2> QED
    BY <2>1, <2>2, <2>3, LessTotal
<1> QED
  BY <1>1, <1>2

\* What sort.Strings leaves is sorted and has the elements of the list.
LEMMA SortedIsInOrder ==
    ASSUME NEW a \in Seq(Seq(PartNames))
    PROVE  /\ Sorted(a) \in Rearrangements(a) /\ InOrder(Sorted(a))
           /\ Sorted(a) \in Seq(Seq(PartNames)) /\ Len(Sorted(a)) = Len(a)
<1>1. Sorted(a) \in Rearrangements(a) /\ InOrder(Sorted(a))
  BY Sortable, Zenon DEF Sorted
<1> QED
  BY <1>1, RearrangementIsSeq

\* Comparing sorted lists, as entriesEquivalent does, decides whether they
\* have the same elements, each as often.
LEMMA SortedDecides ==
    ASSUME NEW a \in Seq(Seq(PartNames)), NEW b \in Seq(Seq(PartNames))
    PROVE  Sorted(a) = Sorted(b) <=> a \in Rearrangements(b)
<1> DEFINE s == Sorted(a)
           t == Sorted(b)
           Lists == Seq(Seq(PartNames))
<1>1. /\ s \in Rearrangements(a) /\ InOrder(s) /\ s \in Lists
      /\ t \in Rearrangements(b) /\ InOrder(t) /\ t \in Lists
      /\ a \in Lists /\ b \in Lists
  BY SortedIsInOrder
<1> HIDE DEF s, t
<1>2. a \in Rearrangements(s) /\ b \in Rearrangements(t)
  BY <1>1, RearrangementSymmetric
<1>3. ASSUME s = t PROVE a \in Rearrangements(b)
  BY <1>1, <1>2, <1>3, RearrangementTransitive
<1>4. ASSUME a \in Rearrangements(b) PROVE s = t
  <2>1. a \in Rearrangements(t)
    BY <1>1, <1>2, <1>4, RearrangementTransitive
  <2>2. s \in Rearrangements(t)
    BY <1>1, <2>1, RearrangementTransitive
  <2> QED
    BY <1>1, <2>2, SortedUnique
<1> QED
  BY <1>3, <1>4 DEF s, t
-----------------------------------------------------------------------------
\* parseSelector takes a string apart so that fromProtoEntry puts it together
\* again, colons in its value included.
LEMMA SelectorComesBack ==
    ASSUME NEW raw \in Seq(PartNames), SelectorParses(raw)
    PROVE  /\ parseSelector(raw) \in [type : PartNames, value : Seq(PartNames)]
           /\ <<parseSelector(raw).type>> \o parseSelector(raw).value = raw
<1>1. raw # <<>>
  <2>1. Len(raw) >= 2
    BY DEF SelectorParses
  <2> QED
    BY <2>1
<1>2. /\ parseSelector(raw).type = Head(raw)
      /\ parseSelector(raw).value = Tail(raw)
  BY DEF parseSelector
<1>3. <<Head(raw)>> \o Tail(raw) = raw
  BY <1>1
<1>4. Head(raw) \in PartNames /\ Tail(raw) \in Seq(PartNames)
  BY <1>1
<1>5. parseSelector(raw) \in [type : PartNames, value : Seq(PartNames)]
  BY <1>4 DEF parseSelector
<1> QED
  BY <1>2, <1>3, <1>5

\* And the other way round: a selector of an answer, written as a string, is
\* taken apart into the same selector.
LEMMA SelectorGoesBack ==
    ASSUME NEW sel \in [type : PartNames, value : Seq(PartNames)]
    PROVE  /\ <<sel.type>> \o sel.value \in Seq(PartNames)
           /\ parseSelector(<<sel.type>> \o sel.value) = sel
<1> DEFINE raw == <<sel.type>> \o sel.value
<1>1. sel.type \in PartNames /\ sel.value \in Seq(PartNames)
  OBVIOUS
<1>2. /\ raw \in Seq(PartNames) /\ raw # <<>>
      /\ Head(raw) = sel.type /\ Tail(raw) = sel.value
  BY <1>1
<1>3. sel = [type |-> sel.type, value |-> sel.value]
  OBVIOUS
<1> HIDE DEF raw
<1>4. parseSelector(raw) = sel
  BY <1>2, <1>3 DEF parseSelector
<1> QED
  BY <1>2, <1>4 DEF raw

\* Unescaping gives a SPIFFE ID.
LEMMA ParsedSPIFFEID ==
    ASSUME NEW id \in SPIFFEIDs
    PROVE  parseSPIFFEID(id) \in SPIFFEIDs
<1>1. id.host \in Hosts /\ id.path \in Seq(Segments)
  BY DEF SPIFFEIDs
<1>2. \A i \in DOMAIN id.path : Unescape(id.path[i]) \in Segments
  <2> SUFFICES ASSUME NEW i \in DOMAIN id.path
               PROVE  Unescape(id.path[i]) \in Segments
    OBVIOUS
  <2>1. id.path[i] \in Segments
    BY <1>1
  <2> QED
    BY <2>1 DEF Unescape, Segments
<1>3. [i \in DOMAIN id.path |-> Unescape(id.path[i])] \in Seq(Segments)
  BY <1>1, <1>2
<1> QED
  BY <1>1, <1>3 DEF parseSPIFFEID, SPIFFEIDs

\* toProtoEntry, part by part.
LEMMA ProtoEntry ==
    ASSUME NEW d \in Desired, Converts(d)
    PROVE  /\ toProtoEntry(d) \in Entries
           /\ toProtoEntry(d).spiffe = parseSPIFFEID(d.spiffe)
           /\ toProtoEntry(d).parent = parseSPIFFEID(d.parent)
           /\ toProtoEntry(d).ttl = d.ttl
           /\ Len(toProtoEntry(d).selectors) = Len(d.selectors)
           /\ \A i \in 1 .. Len(d.selectors) :
                 toProtoEntry(d).selectors[i] = parseSelector(d.selectors[i])
<1> DEFINE Sels == [type : PartNames, value : Seq(PartNames)]
           ts == [i \in DOMAIN d.selectors |-> parseSelector(d.selectors[i])]
<1>1. /\ d.selectors \in Seq(Seq(PartNames))
      /\ d.spiffe \in SPIFFEIDs /\ d.parent \in SPIFFEIDs
      /\ d.ttl \in Int /\ DOMAIN d.selectors = 1 .. Len(d.selectors)
  BY DEF Desired
<1>2. \A i \in 1 .. Len(d.selectors) : parseSelector(d.selectors[i]) \in Sels
  <2> SUFFICES ASSUME NEW i \in 1 .. Len(d.selectors)
               PROVE  parseSelector(d.selectors[i]) \in Sels
    OBVIOUS
  <2>1. d.selectors[i] \in Seq(PartNames)
    BY <1>1
  <2>2. SelectorParses(d.selectors[i])
    BY <1>1, Zenon DEF Converts
  <2> QED
    BY <2>1, <2>2, SelectorComesBack
<1>3. ts \in Seq(Sels) /\ Len(ts) = Len(d.selectors)
  <2> HIDE DEF Sels
  <2>1. ts \in [1 .. Len(d.selectors) -> Sels]
    BY <1>1, <1>2
  <2>2. Len(d.selectors) \in Nat
    BY <1>1
  <2> QED
    BY <2>1, <2>2
<1>4. /\ parseSPIFFEID(d.spiffe) \in SPIFFEIDs
      /\ parseSPIFFEID(d.parent) \in SPIFFEIDs
  BY <1>1, ParsedSPIFFEID
<1>5. toProtoEntry(d) =
         [spiffe |-> parseSPIFFEID(d.spiffe),
          parent |-> parseSPIFFEID(d.parent), ttl |-> d.ttl, selectors |-> ts]
  BY DEF toProtoEntry
<1>6. \A i \in 1 .. Len(d.selectors) : ts[i] = parseSelector(d.selectors[i])
  BY <1>1
<1> HIDE DEF ts
<1> QED
  BY <1>1, <1>3, <1>4, <1>5, <1>6 DEF Entries

\* Comparing an ID that SPIRE has accepted with the desired string is as good
\* as comparing it with the parsed one: they differ only for an escape, and
\* then SPIRE has accepted neither.
LEMMA SpelledAlike ==
    ASSUME NEW x \in SPIFFEIDs, NEW id \in SPIFFEIDs,
           \A i \in DOMAIN x.path : x.path[i] \in {"a", "b"}
    PROVE  x = id <=> x = parseSPIFFEID(id)
<1> DEFINE path == [i \in DOMAIN id.path |-> Unescape(id.path[i])]
<1>1. parseSPIFFEID(id) = [host |-> id.host, path |-> path]
  BY DEF parseSPIFFEID
<1>2. id = [host |-> id.host, path |-> id.path] /\ id.path \in Seq(Segments)
  BY DEF SPIFFEIDs
<1>3. ASSUME \/ \A i \in DOMAIN id.path : id.path[i] \in {"a", "b"}
             \/ \A i \in DOMAIN path : path[i] \in {"a", "b"}
      PROVE  path = id.path
  <2>1. \A i \in DOMAIN id.path : Unescape(id.path[i]) = id.path[i]
    BY <1>3 DEF Unescape
  <2> QED
    BY <1>2, <2>1
<1> HIDE DEF path
<1>4. ASSUME x = id PROVE path = id.path
  BY <1>3, <1>4
<1>5. ASSUME x = parseSPIFFEID(id) PROVE path = id.path
  BY <1>1, <1>3, <1>5
<1> QED
  BY <1>1, <1>2, <1>4, <1>5

\* The selectors of an answer, as strings, are those of the desired entry
\* exactly if they are those of its converted form.
LEMMA SelectorsAlike ==
    ASSUME NEW s \in Seq([type : PartNames, value : Seq(PartNames)]),
           NEW d \in Desired, Converts(d)
    PROVE  LET strings == [i \in DOMAIN s |-> <<s[i].type>> \o s[i].value] IN
           /\ strings \in Seq(Seq(PartNames))
           /\ strings \in Rearrangements(d.selectors)
                 <=> s \in Rearrangements(toProtoEntry(d).selectors)
<1> DEFINE Sels == [type : PartNames, value : Seq(PartNames)]
           strings == [i \in DOMAIN s |-> <<s[i].type>> \o s[i].value]
           raws == d.selectors
           ts == toProtoEntry(d).selectors
           I == 1 .. Len(raws)
<1>1. /\ s \in Seq(Sels) /\ DOMAIN s = 1 .. Len(s) /\ Len(s) \in Nat
      /\ \A i \in 1 .. Len(s) : s[i] \in Sels
  BY SeqElements, Zenon
<1> HIDE DEF Sels
<1>2. \A i \in 1 .. Len(s) : /\ strings[i] \in Seq(PartNames)
                            /\ strings[i] = <<s[i].type>> \o s[i].value
                            /\ parseSelector(strings[i]) = s[i]
  BY <1>1, SelectorGoesBack DEF Sels
<1>3. strings \in Seq(Seq(PartNames)) /\ Len(strings) = Len(s)
  <2>1. strings \in [1 .. Len(s) -> Seq(PartNames)]
    BY <1>1, <1>2
  <2> HIDE DEF strings
  <2> QED
    BY <1>1, <2>1, FcnIsSeq
<1> HIDE DEF strings
<1>4. raws \in Seq(Seq(PartNames)) /\ \A i \in I : raws[i] \in Seq(PartNames)
  BY DEF Desired
<1>5. /\ ts \in Seq(Sels) /\ Len(ts) = Len(raws)
      /\ \A i \in I : ts[i] = parseSelector(raws[i])
  BY ProtoEntry DEF Entries, Sels
<1>6. \A i \in I : <<ts[i].type>> \o ts[i].value = raws[i]
  <2> SUFFICES ASSUME NEW i \in I PROVE <<ts[i].type>> \o ts[i].value = raws[i]
    OBVIOUS
  <2>1. SelectorParses(raws[i])
    BY <1>4 DEF Converts
  <2> QED
    BY <1>4, <1>5, <2>1, SelectorComesBack, Zenon
<1> HIDE DEF raws, ts
<1>7. ASSUME strings \in Rearrangements(raws) PROVE s \in Rearrangements(ts)
  <2>1. PICK p \in Bijection(I, I) :
           \A i \in I : p[i] \in I /\ strings[i] = raws[p[i]]
    <3> DEFINE Lists == Seq(PartNames)
    <3>1. raws \in Seq(Lists)
      BY <1>4
    <3> HIDE DEF Lists
    <3> QED
      BY <1>7, <3>1, RearrangementIsSeq
  <2>2. Len(s) = Len(raws)
    BY <1>3, <1>4, <1>7, RearrangementIsSeq
  <2>3. \A i \in I : s[i] = ts[p[i]]
    BY <1>2, <1>5, <2>1, <2>2
  <2> QED
    BY <1>1, <1>5, <2>1, <2>2, <2>3, IsRearrangement
<1>8. ASSUME s \in Rearrangements(ts) PROVE strings \in Rearrangements(raws)
  <2>1. PICK p \in Bijection(1 .. Len(ts), 1 .. Len(ts)) :
           \A i \in 1 .. Len(ts) : p[i] \in 1 .. Len(ts) /\ s[i] = ts[p[i]]
    BY <1>5, <1>8, RearrangementIsSeq
  <2>2. Len(s) = Len(raws)
    BY <1>5, <1>8, RearrangementIsSeq
  <2>3. \A i \in I : p[i] \in I /\ s[i] = ts[p[i]]
    BY <1>5, <2>1
  <2>4. \A i \in I : strings[i] = <<s[i].type>> \o s[i].value
    BY <1>2, <2>2
  <2>5. \A i \in I : strings[i] = raws[p[i]]
    BY <1>6, <2>3, <2>4, Zenon
  <2> QED
    BY <1>3, <1>4, <1>5, <2>1, <2>2, <2>5, IsRearrangement
<1> QED
  BY <1>3, <1>7, <1>8, Zenon DEF raws, ts, strings

\* entriesEquivalent finds an answer equal to the desired entry exactly if
\* the entry it was made from is the converted desired one.
LEMMA EquivalentIsRepresents ==
    ASSUME NEW e \in Entries, SpireAccepts(e), NEW d \in Desired,
           Converts(d), NEW answer \in Answers(e)
    PROVE  entriesEquivalent(fromProtoEntry(answer), d) <=> Represents(e, d)
<1> DEFINE Sels == [type : PartNames, value : Seq(PartNames)]
           ts == toProtoEntry(d).selectors
<1>1. PICK s \in Rearrangements(e.selectors) :
         answer = [e EXCEPT !.selectors = s]
  BY DEF Answers
<1> DEFINE strings == [i \in DOMAIN s |-> <<s[i].type>> \o s[i].value]
<1>2. e.selectors \in Seq(Sels)
  BY DEF Entries
<1>3. s \in Seq(Sels) /\ e.selectors \in Rearrangements(s)
  <2> HIDE DEF Sels
  <2> QED
    BY <1>2, RearrangementIsSeq, RearrangementSymmetric
<1>4. ts \in Seq(Sels)
  BY ProtoEntry DEF Entries
<1>5. /\ strings \in Seq(Seq(PartNames))
      /\ strings \in Rearrangements(d.selectors) <=> s \in Rearrangements(ts)
  BY <1>3, SelectorsAlike
<1>6. s \in Rearrangements(ts) <=> e.selectors \in Rearrangements(ts)
  <2> HIDE DEF Sels, ts
  <2> QED
    BY <1>1, <1>3, <1>4, RearrangementTransitive
<1>7. /\ answer.selectors = s /\ answer.spiffe = e.spiffe
      /\ answer.parent = e.parent /\ answer.ttl = e.ttl
  BY <1>1 DEF Entries
<1>8. fromProtoEntry(answer) =
         [spiffe |-> e.spiffe, parent |-> e.parent, ttl |-> e.ttl,
          selectors |-> strings]
  BY <1>7, Zenon DEF fromProtoEntry
<1> HIDE DEF strings
<1>9. entriesEquivalent(fromProtoEntry(answer), d) <=>
         /\ e.spiffe = d.spiffe /\ e.parent = d.parent /\ e.ttl = d.ttl
         /\ Sorted(strings) = Sorted(d.selectors)
  <2>1. d.selectors \in Seq(Seq(PartNames))
    BY DEF Desired
  <2> DEFINE left == Sorted(strings)
             right == Sorted(d.selectors)
  <2>2. left \in Seq(Seq(PartNames)) /\ right \in Seq(Seq(PartNames))
    BY <1>5, <2>1, SortedIsInOrder
  <2>3. entriesEquivalent(fromProtoEntry(answer), d) <=>
           /\ e.spiffe = d.spiffe /\ e.parent = d.parent /\ e.ttl = d.ttl
           /\ Len(left) = Len(right)
           /\ \A i \in DOMAIN left : left[i] = right[i]
    BY <1>8 DEF entriesEquivalent
  <2> HIDE DEF left, right
  <2>4. left = right <=> /\ Len(left) = Len(right)
                         /\ \A i \in DOMAIN left : left[i] = right[i]
    BY <2>2
  <2> QED
    BY <2>3, <2>4 DEF left, right
<1>10. Sorted(strings) = Sorted(d.selectors)
          <=> e.selectors \in Rearrangements(ts)
  <2>1. d.selectors \in Seq(Seq(PartNames))
    BY DEF Desired
  <2> QED
    BY <1>5, <1>6, <2>1, SortedDecides
<1>11. Represents(e, d) <=>
          /\ e.spiffe = parseSPIFFEID(d.spiffe)
          /\ e.parent = parseSPIFFEID(d.parent) /\ e.ttl = d.ttl
          /\ e.selectors \in Rearrangements(ts)
  <2>1. /\ toProtoEntry(d) \in Entries
        /\ toProtoEntry(d).spiffe = parseSPIFFEID(d.spiffe)
        /\ toProtoEntry(d).parent = parseSPIFFEID(d.parent)
        /\ toProtoEntry(d).ttl = d.ttl
    BY ProtoEntry
  <2> DEFINE x == toProtoEntry(d)
  <2> HIDE DEF x
  <2>2. \A u : e = [x EXCEPT !.selectors = u] <=>
                 /\ e.spiffe = x.spiffe /\ e.parent = x.parent
                 /\ e.ttl = x.ttl /\ e.selectors = u
    BY <2>1 DEF Entries, x
  <2>3. Represents(e, d) <=> \E u \in Rearrangements(x.selectors) :
                                e = [x EXCEPT !.selectors = u]
    BY Zenon DEF Represents, Answers, x
  <2> QED
    BY <2>1, <2>2, <2>3 DEF x
<1>12. /\ e.spiffe = d.spiffe <=> e.spiffe = parseSPIFFEID(d.spiffe)
       /\ e.parent = d.parent <=> e.parent = parseSPIFFEID(d.parent)
  <2>1. /\ e.spiffe \in SPIFFEIDs /\ d.spiffe \in SPIFFEIDs
        /\ e.parent \in SPIFFEIDs /\ d.parent \in SPIFFEIDs
    BY DEF Entries, Desired
  <2>2. /\ \A i \in DOMAIN e.spiffe.path : e.spiffe.path[i] \in {"a", "b"}
        /\ \A i \in DOMAIN e.parent.path : e.parent.path[i] \in {"a", "b"}
    BY DEF SpireAccepts
  <2> QED
    BY <2>1, <2>2, SpelledAlike
<1> QED
  BY <1>9, <1>10, <1>11, <1>12

\* Parsing changes nothing but escapes.
LEMMA ParsedAlike ==
    ASSUME NEW id \in SPIFFEIDs, \A i \in DOMAIN id.path : id.path[i] # "%20"
    PROVE  parseSPIFFEID(id) = id
<1>1. \A i \in DOMAIN id.path : Unescape(id.path[i]) = id.path[i]
  BY DEF Unescape
<1>2. [i \in DOMAIN id.path |-> Unescape(id.path[i])] = id.path
  BY <1>1 DEF SPIFFEIDs
<1> QED
  BY <1>2 DEF parseSPIFFEID, SPIFFEIDs

\* The client's conversions are inverse: an entry that was written for a rule
\* and is listed unchanged, in the same order, is the desired one, unless a
\* path segment was escaped (which SPIRE does not accept anyway).
THEOREM RoundTrip ==
    ASSUME NEW d \in Desired, Converts(d),
           \A i \in DOMAIN d.spiffe.path : d.spiffe.path[i] # "%20",
           \A i \in DOMAIN d.parent.path : d.parent.path[i] # "%20"
    PROVE  fromProtoEntry(toProtoEntry(d)) = d
<1> DEFINE e == toProtoEntry(d)
<1>1. /\ parseSPIFFEID(d.spiffe) = d.spiffe
      /\ parseSPIFFEID(d.parent) = d.parent
  BY ParsedAlike DEF Desired
<1>2. /\ e.spiffe = d.spiffe /\ e.parent = d.parent /\ e.ttl = d.ttl
      /\ DOMAIN e.selectors = DOMAIN d.selectors
      /\ \A i \in DOMAIN d.selectors :
            e.selectors[i] = parseSelector(d.selectors[i])
  BY <1>1 DEF toProtoEntry
<1>3. \A i \in DOMAIN d.selectors :
         <<e.selectors[i].type>> \o e.selectors[i].value = d.selectors[i]
  <2> SUFFICES ASSUME NEW i \in DOMAIN d.selectors
               PROVE  <<e.selectors[i].type>> \o e.selectors[i].value
                         = d.selectors[i]
    OBVIOUS
  <2>1. d.selectors[i] \in Seq(PartNames)
    BY DEF Desired
  <2>2. SelectorParses(d.selectors[i])
    BY DEF Converts
  <2>3. e.selectors[i] = parseSelector(d.selectors[i])
    BY <1>2
  <2> QED
    BY <2>1, <2>2, <2>3, SelectorComesBack
<1>4. [i \in DOMAIN e.selectors |->
          <<e.selectors[i].type>> \o e.selectors[i].value] = d.selectors
  <2>1. d.selectors = [i \in DOMAIN d.selectors |-> d.selectors[i]]
    BY DEF Desired
  <2>2. [i \in DOMAIN e.selectors |->
            <<e.selectors[i].type>> \o e.selectors[i].value]
           = [i \in DOMAIN d.selectors |-> d.selectors[i]]
    BY <1>2, <1>3, Zenon
  <2> QED
    BY <2>1, <2>2, Zenon
<1> HIDE DEF e
<1>5. fromProtoEntry(e) =
         [spiffe |-> d.spiffe, parent |-> d.parent, ttl |-> d.ttl,
          selectors |-> d.selectors]
  BY <1>2, <1>4 DEF fromProtoEntry
<1> QED
  BY <1>5 DEF e, Desired
-----------------------------------------------------------------------------
\* The inductive invariant: the rule is spelled as desired entries are, and
\* the entry is one SPIRE accepts.
Spelled ==
    /\ rule \in Desired
    /\ entry # None => entry \in Entries /\ SpireAccepts(entry)

\* Spelled is an invariant: operators and other clients stay within the
\* assumption, and Write stores only what was converted and accepted.
LEMMA SpelledInvariant == CodecSpec => []Spelled
<1>1. CodecInit => Spelled
  BY SpellingAssumption DEF CodecInit, Spelled
<1>2. Spelled /\ [CodecNext]_codecVars => Spelled'
  <2> SUFFICES ASSUME Spelled, [CodecNext]_codecVars
               PROVE  Spelled'
    OBVIOUS
  <2>1. ASSUME NEW d \in Inputs, Replace(d) PROVE Spelled'
    <3>1. /\ d \in Bodies /\ rule \in Desired /\ UNCHANGED entry
          /\ rule' = StoredAs(d, rule.spiffe)
      BY <2>1, SpellingAssumption DEF Replace, Spelled
    <3>2. rule' \in Desired
      BY <3>1 DEF StoredAs, Bodies, Desired
    <3> QED
      BY <3>1, <3>2 DEF Spelled
  <2>2. ASSUME NEW op, Write(op)
        PROVE  entry' # None => entry' \in Entries /\ SpireAccepts(entry')
    <3>1. CASE /\ Converts(rule) /\ SpireAccepts(toProtoEntry(rule))
               /\ entry' = toProtoEntry(rule)
      <4>1. rule \in Desired
        BY DEF Spelled
      <4>2. toProtoEntry(rule) \in Entries
        BY <3>1, <4>1, ProtoEntry
      <4> QED
        BY <3>1, <4>2
    <3>2. CASE UNCHANGED entry
      BY <3>2 DEF Spelled
    <3> QED
      BY <2>2, <3>1, <3>2 DEF Write
  <2>3. CASE Reconcile
    <3>1. rule' = rule
      BY <2>3 DEF Reconcile
    <3>2. UNCHANGED entry \/ Write("created") \/ Write("updated")
      BY <2>3 DEF Reconcile
    <3>3. entry' # None => entry' \in Entries /\ SpireAccepts(entry')
      <4>1. CASE UNCHANGED entry
        BY <4>1 DEF Spelled
      <4> QED
        BY <2>2, <3>2, <4>1
    <3> QED
      BY <3>1, <3>3 DEF Spelled
  <2>4. CASE Drift
    BY <2>4, SpellingAssumption DEF Drift, Spelled
  <2>5. CASE UNCHANGED codecVars
    BY <2>5 DEF codecVars, Spelled
  <2> QED
    BY <2>1, <2>3, <2>4, <2>5 DEF CodecNext
<1> QED
  BY <1>1, <1>2, PTL DEF CodecSpec

\* entriesEquivalent is exact in every reachable state: it reports a
\* difference if and only if SPIRE's entry is not the desired one, whatever
\* the order of the answer and whatever other clients have made of the entry.
THEOREM EquivalenceIsExact == CodecSpec => []EquivalenceExact
<1>1. Spelled => EquivalenceExact
  <2> SUFFICES ASSUME Spelled, entry # None, Applicable(rule),
                      NEW answer \in Answers(entry)
               PROVE  entriesEquivalent(fromProtoEntry(answer), rule)
                         <=> Represents(entry, rule)
    BY DEF EquivalenceExact
  <2>1. entry \in Entries /\ SpireAccepts(entry) /\ rule \in Desired
    BY DEF Spelled
  <2>2. Converts(rule)
    BY DEF Applicable
  <2> QED
    BY <2>1, <2>2, EquivalentIsRepresents
<1> QED
  BY <1>1, SpelledInvariant, PTL

\* What was written is not written again: in every order SPIRE may list its
\* selectors, a freshly written entry is equivalent to the desired one, so
\* that a run updates only what another client or an operator has changed.
THEOREM WrittenIsEquivalent ==
    ASSUME NEW d \in Desired, Converts(d), SpireAccepts(toProtoEntry(d)),
           NEW answer \in Answers(toProtoEntry(d))
    PROVE  entriesEquivalent(fromProtoEntry(answer), d)
<1> DEFINE e == toProtoEntry(d)
           Sels == [type : PartNames, value : Seq(PartNames)]
<1>1. e \in Entries
  BY ProtoEntry
<1>2. e.selectors \in Rearrangements(e.selectors)
  <2>1. e.selectors \in Seq(Sels)
    BY <1>1 DEF Entries
  <2> HIDE DEF e, Sels
  <2>2. PICK b \in Rearrangements(e.selectors) : TRUE
    <3>1. [i \in DOMAIN e.selectors |-> i]
             \in Bijection(DOMAIN e.selectors, DOMAIN e.selectors)
      BY Fun_IsBij
    <3> QED
      BY <3>1 DEF Rearrangements
  <2>3. e.selectors \in Rearrangements(b) /\ b \in Seq(Sels)
    BY <2>1, RearrangementIsSeq, RearrangementSymmetric
  <2> QED
    BY <2>1, <2>2, <2>3, RearrangementTransitive
<1>3. e = [e EXCEPT !.selectors = e.selectors]
  BY <1>1 DEF Entries
<1>4. Represents(e, d)
  BY <1>2, <1>3 DEF Represents, Answers
<1> QED
  BY <1>1, <1>4, EquivalentIsRepresents
=============================================================================
