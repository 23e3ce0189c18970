-------------------------- MODULE Continuity_proofs --------------------------
(***************************************************************************)
(* Proofs about Continuity, for every number of witnesses of the form      *)
(* 3f+1, every history and every bound on it.                              *)
(*                                                                         *)
(* Continuity!InductiveInvariant holds initially, every merge preserves    *)
(* it, and the properties that MCContinuity checks follow from it.         *)
(***************************************************************************)
EXTENDS Continuity, FiniteSetTheorems, WellFoundedInduction, TLAPS

-----------------------------------------------------------------------------
(* The thresholds of `3f+1` witnesses, at least four of them.              *)
LEMMA Thresholds ==
  /\ F \in Nat /\ F >= 1
  /\ FPlusOne = F + 1
  /\ SuperMajority = 2 * F + 1
<1>1. Cardinality(Witness) \in Nat
  <2>1. IsFiniteSet(Witness)
    BY WitnessAssumption, FS_Subset
  <2> QED BY <2>1, FS_CardinalityType
<1>2. Cardinality(Witness) > 3 /\ Cardinality(Witness) % 3 = 1
  BY WitnessAssumption DEF ValidWitnessCount
<1>3. PICK f \in Nat : Cardinality(Witness) = 3 * f + 1
  <2>1. Cardinality(Witness) = 3 * (Cardinality(Witness) \div 3) + 1
    BY <1>1, <1>2
  <2>2. Cardinality(Witness) \div 3 \in Nat
    BY <1>1
  <2> QED BY <2>1, <2>2
<1>4. f >= 1
  BY <1>2, <1>3
<1>5. F = f
  BY <1>2, <1>3, <1>4 DEF F, MaximumFailures
<1>6. SuperMajority = 2 * f + 1
  BY <1>2, <1>3, <1>4 DEF SuperMajority, Supermajority
<1> QED
  BY <1>4, <1>5, <1>6 DEF FPlusOne

(* Sets of witnesses can be counted.                                       *)
LEMMA WitnessSets ==
  ASSUME NEW S \in SUBSET Witness
  PROVE  IsFiniteSet(S) /\ Cardinality(S) \in Nat
<1>1. IsFiniteSet(Witness)
  BY WitnessAssumption, FS_Subset
<1>2. IsFiniteSet(S)
  BY <1>1, FS_Subset
<1> QED BY <1>2, FS_CardinalityType

(* LatestOf picks the greatest of a set of generations.                    *)
LEMMA LatestOfIsMaximum ==
  ASSUME NEW S \in SUBSET Generation, S # {}
  PROVE  LatestOf(S) \in S /\ \A h \in S : h <= LatestOf(S)
<1> DEFINE T == {MaxGeneration - s : s \in S}
           R == OpToRel(<, Nat)
<1>1. IsWellFoundedOn(R, Nat)
  BY NatLessThanWellFounded
<1>2. T \subseteq Nat /\ T # {}
  <2>1. \A s \in S : s \in Nat /\ s <= MaxGeneration
    BY BoundAssumption DEF Generation
  <2>2. \A s \in S : MaxGeneration - s \in Nat
    BY <2>1, BoundAssumption
  <2> QED BY <2>2
<1>3. PICK x \in T : \A y \in T : ~(<<y, x>> \in R)
  <2> HIDE DEF T, R
  <2> QED BY <1>1, <1>2, WFMin
<1>4. \A y \in T : ~(y < x)
  BY <1>2, <1>3 DEF OpToRel
<1>5. PICK g \in S : x = MaxGeneration - g
  OBVIOUS
<1>6. \A h \in S : h <= g
  BY <1>4, <1>5, BoundAssumption DEF Generation
<1> QED BY <1>6 DEF LatestOf

-----------------------------------------------------------------------------
(* The ancestry vector of a new event: how far its parents have seen, and  *)
(* nothing that does not exist.                                            *)
LEMMA AncestorVector ==
  ASSUME TypeOK, WellFormed, NEW n \in Node, NEW parents \in ParentSets(n)
  PROVE  LET mra == MostRecentAncestors(n, parents)
         IN  /\ mra \in [Node -> Generation]
             /\ mra[n] = head[n]
             /\ \A m \in Node : mra[m] <= head[m]
             /\ \A x \in parents \cup {HeadEvent(n)} :
                  /\ \A k \in Node : seen[x][k] <= mra[k]
                  /\ x[2] <= mra[x[1]]
             /\ \A m \in Node \ {n} :
                  \/ \E x \in parents \cup {HeadEvent(n)} : mra[m] = seen[x][m]
                  \/ <<m, mra[m]>> \in parents
<1> DEFINE mra == MostRecentAncestors(n, parents)
           A(m) == {seen[HeadEvent(n)][m]}
                     \cup {seen[p][m] : p \in parents}
                     \cup {p[2] : p \in {q \in parents : q[1] = m}}
<1>1. HeadEvent(n) \in EventId /\ head[n] \in Generation
  BY DEF TypeOK, HeadEvent, EventId
<1>2. \A p \in parents : p \in Events /\ p \in EventId /\ p[1] # n
  BY DEF ParentSets, Events
<1>3. \A x \in EventId : \A m \in Node : seen[x][m] \in Generation
  BY DEF TypeOK
<1>4. \A p \in parents : p[1] \in Node /\ p[2] \in Generation /\ p = <<p[1], p[2]>>
  BY <1>2 DEF EventId
<1>5. ASSUME NEW m \in Node
      PROVE  A(m) \in SUBSET Generation /\ A(m) # {}
  BY <1>1, <1>2, <1>3, <1>4
<1>6. ASSUME NEW m \in Node \ {n}
      PROVE  /\ mra[m] = LatestOf(A(m))
             /\ mra[m] \in A(m)
             /\ \A h \in A(m) : h <= mra[m]
  <2>1. mra[m] = LatestOf(A(m))
    BY DEF MostRecentAncestors
  <2> HIDE DEF mra, A
  <2> QED BY <2>1, <1>5, LatestOfIsMaximum
<1>7. mra[n] = head[n]
  BY DEF MostRecentAncestors
<1>8. mra \in [Node -> Generation]
  <2>1. \A m \in Node : mra[m] \in Generation
    <3>1. \A m \in Node \ {n} : mra[m] \in Generation
      <4> HIDE DEF mra, A
      <4> QED BY <1>5, <1>6
    <3> QED BY <3>1, <1>1, <1>7
  <2>2. mra = [m \in Node |-> mra[m]]
    BY DEF MostRecentAncestors
  <2> HIDE DEF mra
  <2> QED BY <2>1, <2>2
<1>9. \A x \in parents \cup {HeadEvent(n)} : \A k \in Node : seen[x][k] <= head[k]
  <2>1. \A x \in Events : \A k \in Node : seen[x][k] <= head[k]
    BY DEF WellFormed
  <2>2. ~Exists(HeadEvent(n)) => \A k \in Node : seen[HeadEvent(n)][k] = 0
    BY <1>1 DEF WellFormed
  <2>3. \A k \in Node : 0 <= head[k]
    BY BoundAssumption DEF TypeOK, Generation
  <2>4. Exists(HeadEvent(n)) => HeadEvent(n) \in Events
    BY <1>1 DEF Events
  <2> QED BY <1>2, <2>1, <2>2, <2>3, <2>4
<1>10. \A p \in parents : p[2] <= head[p[1]]
  BY <1>2 DEF Events, Exists
<1>11. \A m \in Node : mra[m] <= head[m]
  <2>1. \A m \in Node \ {n} : \A h \in A(m) : h <= head[m]
    BY <1>9, <1>10
  <2>2. head[n] <= head[n]
    BY <1>1, BoundAssumption DEF Generation
  <2> HIDE DEF mra, A
  <2> QED BY <2>1, <2>2, <1>6, <1>7
<1>12. ASSUME NEW x \in parents \cup {HeadEvent(n)}, NEW k \in Node
       PROVE  seen[x][k] <= mra[k]
  <2>1. CASE k = n
    <3> HIDE DEF mra, A
    <3> QED BY <2>1, <1>7, <1>9
  <2>2. CASE k # n
    <3>1. seen[x][k] \in A(k)
      OBVIOUS
    <3> HIDE DEF mra, A
    <3> QED BY <2>2, <3>1, <1>6
  <2> QED BY <2>1, <2>2
<1>13. ASSUME NEW x \in parents \cup {HeadEvent(n)}
       PROVE  x[2] <= mra[x[1]]
  <2>1. CASE x \in parents
    <3>1. x[2] \in A(x[1])
      BY <2>1
    <3>2. x[1] \in Node \ {n}
      BY <2>1, <1>2, <1>4
    <3> HIDE DEF mra, A
    <3> QED BY <3>1, <3>2, <1>6
  <2>2. CASE x = HeadEvent(n)
    <3> HIDE DEF mra, A
    <3> QED BY <2>2, <1>1, <1>7, BoundAssumption DEF HeadEvent, Generation
  <2> QED BY <2>1, <2>2
<1>14. ASSUME NEW m \in Node \ {n}
       PROVE  \/ \E x \in parents \cup {HeadEvent(n)} : mra[m] = seen[x][m]
              \/ <<m, mra[m]>> \in parents
  <2>1. mra[m] \in A(m)
    <3> HIDE DEF mra, A
    <3> QED BY <1>6
  <2>2. \A h \in A(m) :
          \/ \E x \in parents \cup {HeadEvent(n)} : h = seen[x][m]
          \/ <<m, h>> \in parents
    BY <1>4
  <2> HIDE DEF mra, A
  <2> QED BY <2>1, <2>2
<1> HIDE DEF mra
<1>15. QED
  BY <1>7, <1>8, <1>11, <1>12, <1>13, <1>14 DEF mra

(* What a new event leaves alone: all events there are keep their ancestry *)
(* and exist on.                                                           *)
LEMMA EventCreated ==
  ASSUME TypeOK, NEW n \in Node, NEW parents, CreateEvent(n, parents)
  PROVE  LET e == <<n, head[n] + 1>>
             mra == MostRecentAncestors(n, parents)
         IN  /\ e \in EventId /\ ~Exists(e) /\ e[1] = n /\ e[2] = head[n] + 1
             /\ head[n] + 1 \in Generation
             /\ head' \in [Node -> Generation]
             /\ head'[n] = head[n] + 1
             /\ \A m \in Node : head[m] <= head'[m]
             /\ \A d \in EventId : Exists(d)' <=> Exists(d) \/ d = e
             /\ Events' = Events \cup {e}
             /\ WitnessEvents' = WitnessEvents \cup (IF n \in Witness THEN {e} ELSE {})
             /\ seen'[e] = mra
             /\ \A d \in EventId \ {e} : seen'[d] = seen[d]
<1> DEFINE e == <<n, head[n] + 1>>
           mra == MostRecentAncestors(n, parents)
<1>1. head \in [Node -> Generation] /\ seen \in [EventId -> [Node -> Generation]]
  BY DEF TypeOK
<1>2. head[n] \in Nat /\ head[n] < MaxGeneration
  BY <1>1, BoundAssumption DEF CreateEvent, Generation
<1>3. head[n] + 1 \in Generation /\ e \in EventId /\ ~Exists(e)
  BY <1>2, BoundAssumption DEF Generation, EventId, Exists
<1>4. /\ head' = [head EXCEPT ![n] = head[n] + 1]
      /\ seen' = [seen EXCEPT ![e] = mra]
  BY DEF CreateEvent
<1>5. /\ head' \in [Node -> Generation]
      /\ head'[n] = head[n] + 1
      /\ \A m \in Node \ {n} : head'[m] = head[m]
  BY <1>1, <1>3, <1>4
<1>6. \A m \in Node : head[m] <= head'[m]
  BY <1>1, <1>2, <1>5, BoundAssumption DEF Generation
<1>7. seen'[e] = mra /\ \A d \in EventId \ {e} : seen'[d] = seen[d]
  <2> HIDE DEF mra, e
  <2> QED BY <1>1, <1>3, <1>4
<1>8. ASSUME NEW d \in EventId
      PROVE  Exists(d)' <=> Exists(d) \/ d = e
  <2>1. d[1] \in Node /\ d[2] \in Nat /\ d = <<d[1], d[2]>>
    BY BoundAssumption DEF EventId, Generation
  <2>2. CASE d[1] = n
    BY <2>1, <2>2, <1>2, <1>5 DEF Exists
  <2>3. CASE d[1] # n
    BY <2>1, <2>3, <1>5 DEF Exists
  <2> QED BY <2>2, <2>3
<1>9. Events' = Events \cup {e}
  <2> HIDE DEF e
  <2> QED BY <1>3, <1>8 DEF Events, EventId, Generation
<1>10. WitnessEvents' = WitnessEvents \cup (IF n \in Witness THEN {e} ELSE {})
  BY <1>9 DEF WitnessEvents
<1> HIDE DEF mra
<1> QED
  BY <1>3, <1>5, <1>6, <1>7, <1>8, <1>9, <1>10 DEF mra

(* A new event sees what the most recent events it sees have seen.         *)
LEMMA AncestorsSeen ==
  ASSUME TypeOK, WellFormed, AncestryClosed,
         NEW n \in Node, NEW parents \in ParentSets(n),
         NEW mra, mra = MostRecentAncestors(n, parents),
         NEW m \in Node, NEW k \in Node
  PROVE  seen[<<m, mra[m]>>][k] <= mra[k]
<1>1. /\ mra \in [Node -> Generation]
      /\ mra[n] = head[n]
      /\ \A x \in parents \cup {HeadEvent(n)} : \A i \in Node : seen[x][i] <= mra[i]
      /\ \A i \in Node \ {n} :
           \/ \E x \in parents \cup {HeadEvent(n)} : mra[i] = seen[x][i]
           \/ <<i, mra[i]>> \in parents
  BY AncestorVector
<1>2. /\ seen \in [EventId -> [Node -> Generation]]
      /\ head \in [Node -> Generation]
      /\ Generation \subseteq Nat
  BY BoundAssumption DEF TypeOK, Generation
<1>3. parents \subseteq Events /\ Events \subseteq EventId
  BY DEF ParentSets, Events
<1>4. <<m, mra[m]>> \in EventId
  BY <1>1 DEF EventId
<1>5. CASE m = n
  <2>1. <<m, mra[m]>> = HeadEvent(n)
    BY <1>5, <1>1 DEF HeadEvent
  <2> QED BY <2>1, <1>1
<1>6. CASE <<m, mra[m]>> \in parents
  BY <1>6, <1>1
<1>7. ASSUME NEW x \in parents \cup {HeadEvent(n)}, mra[m] = seen[x][m]
      PROVE  seen[<<m, mra[m]>>][k] <= mra[k]
  <2>1. x \in EventId
    BY <1>2, <1>3 DEF HeadEvent, EventId
  <2>2. seen[<<m, seen[x][m]>>][k] <= seen[x][k]
    <3>1. CASE x \in Events
      BY <3>1 DEF AncestryClosed
    <3>2. CASE x \notin Events
      <4>1. seen[x] = [i \in Node |-> 0]
        BY <2>1, <3>2 DEF WellFormed, Events
      <4>2. seen[<<m, 0>>] = [i \in Node |-> 0]
        <5>1. <<m, 0>> \in EventId /\ ~Exists(<<m, 0>>)
          BY BoundAssumption DEF EventId, Generation, Exists
        <5> QED BY <5>1 DEF WellFormed
      <4> QED BY <4>1, <4>2
    <3> QED BY <3>1, <3>2
  <2>3. seen[x][k] <= mra[k]
    BY <1>1
  <2>4. seen[<<m, mra[m]>>][k] \in Nat /\ seen[x][k] \in Nat /\ mra[k] \in Nat
    BY <2>1, <1>1, <1>2, <1>4
  <2> QED BY <1>7, <2>2, <2>3, <2>4
<1> QED BY <1>5, <1>6, <1>7, <1>1

(* A new event closes what it has seen, and disturbs no other ancestry.    *)
LEMMA CreationKeepsHistory ==
  ASSUME TypeOK, WellFormed, AncestryClosed,
         NEW n \in Node, NEW parents \in ParentSets(n), CreateEvent(n, parents)
  PROVE  /\ seen' \in [EventId -> [Node -> Generation]]
         /\ \A d \in EventId : ~Exists(d)' => seen'[d] = [m \in Node |-> 0]
         /\ \A d \in Events' : seen'[d][d[1]] = d[2] - 1
         /\ \A d \in Events' : \A m \in Node : seen'[d][m] <= head'[m]
         /\ AncestryClosed'
<1> DEFINE e == <<n, head[n] + 1>>
           mra == MostRecentAncestors(n, parents)
<1>1. /\ e \in EventId /\ ~Exists(e) /\ e[1] = n /\ e[2] = head[n] + 1
      /\ head' \in [Node -> Generation]
      /\ \A m \in Node : head[m] <= head'[m]
      /\ \A d \in EventId : Exists(d)' <=> Exists(d) \/ d = e
      /\ Events' = Events \cup {e}
      /\ seen'[e] = mra
      /\ \A d \in EventId \ {e} : seen'[d] = seen[d]
  BY EventCreated
<1>2. /\ mra \in [Node -> Generation]
      /\ mra[n] = head[n]
      /\ \A m \in Node : mra[m] <= head[m]
      /\ \A x \in parents \cup {HeadEvent(n)} : \A k \in Node : seen[x][k] <= mra[k]
      /\ \A m \in Node \ {n} :
           \/ \E x \in parents \cup {HeadEvent(n)} : mra[m] = seen[x][m]
           \/ <<m, mra[m]>> \in parents
  BY AncestorVector
<1>3. /\ seen \in [EventId -> [Node -> Generation]]
      /\ head \in [Node -> Generation]
      /\ Generation \subseteq Nat
  BY BoundAssumption DEF TypeOK, Generation
<1>4. parents \subseteq Events /\ Events \subseteq EventId /\ e \notin Events
  BY <1>1 DEF ParentSets, Events
<1>5. ASSUME NEW m \in Node, NEW g \in Nat, g <= head[m]
      PROVE  <<m, g>> # e
  <2>1. head[m] \in Nat
    BY <1>3
  <2>2. CASE m = n
    BY <2>1, <2>2, <1>5
  <2>3. CASE m # n
    BY <2>3
  <2> QED BY <2>2, <2>3
<1> HIDE DEF e, mra
<1>6. seen' \in [EventId -> [Node -> Generation]]
  BY <1>2, <1>3 DEF CreateEvent, mra
<1>7. \A d \in EventId : ~Exists(d)' => seen'[d] = [m \in Node |-> 0]
  BY <1>1 DEF WellFormed
<1>8. \A d \in Events' : seen'[d][d[1]] = d[2] - 1
  <2>1. \A d \in Events : seen'[d][d[1]] = d[2] - 1
    BY <1>1, <1>4 DEF WellFormed
  <2>2. seen'[e][e[1]] = e[2] - 1
    <3>1. head[n] \in Nat /\ seen'[e][n] = head[n]
      BY <1>1, <1>2, <1>3
    <3> QED BY <3>1, <1>1
  <2> QED BY <1>1, <2>1, <2>2
<1>9. \A d \in Events' : \A m \in Node : seen'[d][m] <= head'[m]
  <2>1. ASSUME NEW d \in Events, NEW m \in Node
        PROVE  seen'[d][m] <= head'[m]
    <3>1. seen[d][m] <= head[m] /\ head[m] <= head'[m]
      BY <1>1 DEF WellFormed
    <3>2. seen[d][m] \in Nat /\ head[m] \in Nat /\ head'[m] \in Nat
      BY <1>1, <1>3, <1>4
    <3> QED BY <3>1, <3>2, <1>1, <1>4
  <2>2. ASSUME NEW m \in Node
        PROVE  seen'[e][m] <= head'[m]
    <3>1. mra[m] \in Nat /\ head[m] \in Nat /\ head'[m] \in Nat
      BY <1>1, <1>2, <1>3
    <3> QED BY <3>1, <1>1, <1>2
  <2> QED BY <1>1, <2>1, <2>2
<1>10. \A d \in Events' : \A m, k \in Node : seen'[<<m, seen'[d][m]>>][k] <= seen'[d][k]
  <2>1. ASSUME NEW d \in Events, NEW m \in Node, NEW k \in Node
        PROVE  seen'[<<m, seen'[d][m]>>][k] <= seen'[d][k]
    <3>1. seen'[d] = seen[d]
      BY <1>1, <1>4
    <3>2. <<m, seen[d][m]>> \in EventId
      BY <1>3, <1>4 DEF EventId
    <3>3. <<m, seen[d][m]>> # e
      <4>1. seen[d][m] <= head[m]
        BY DEF WellFormed
      <4>2. seen[d][m] \in Nat
        BY <1>3, <1>4
      <4> QED BY <4>1, <4>2, <1>5
    <3>4. seen[<<m, seen[d][m]>>][k] <= seen[d][k]
      BY DEF AncestryClosed
    <3> QED BY <3>1, <3>2, <3>3, <3>4, <1>1
  <2>2. ASSUME NEW m \in Node, NEW k \in Node
        PROVE  seen'[<<m, mra[m]>>][k] <= mra[k]
    <3>1. <<m, mra[m]>> \in EventId
      BY <1>2 DEF EventId
    <3>2. <<m, mra[m]>> # e
      <4>1. mra[m] \in Nat /\ mra[m] <= head[m]
        BY <1>2, <1>3
      <4> QED BY <4>1, <1>5
    <3>3. seen'[<<m, mra[m]>>] = seen[<<m, mra[m]>>]
      BY <3>1, <3>2, <1>1
    <3>4. seen[<<m, mra[m]>>][k] <= mra[k]
      BY AncestorsSeen DEF mra
    <3> QED BY <3>3, <3>4
  <2> QED BY <1>1, <2>1, <2>2
<1>11. AncestryClosed'
  BY <1>10 DEF AncestryClosed
<1> QED
  BY <1>6, <1>7, <1>8, <1>9, <1>11

-----------------------------------------------------------------------------
(* The support set of an event of n is made of sets its participants       *)
(* support, and n: either it holds a set with f+1 supporters or it is the  *)
(* union of all sets.                                                      *)
LEMMA SupportChosen ==
  ASSUME TypeOK, NEW n \in Witness, NEW mra \in [Node -> Generation],
         NEW S \in SupportChoices(n, mra)
  PROVE  /\ S \in SUBSET Witness
         /\ \A w \in S :
              \/ w = n /\ head[n] = 0
              \/ \E u \in Participants(mra) : w \in support[Latest(mra, u)]
         /\ \/ \E A \in SUBSET S : Cardinality(Supporters(mra, A)) >= FPlusOne
            \/ /\ head[n] = 0 => n \in S
               /\ \A u \in Participants(mra) : support[Latest(mra, u)] \subseteq S
<1> DEFINE Seen == SetsSeen(mra)
           Own == IF head[n] = 0 THEN {n} ELSE {}
<1>1. \A u \in Participants(mra) : Latest(mra, u) \in EventId
  BY WitnessAssumption DEF Participants, Latest, EventId
<1>2. Seen = {support[Latest(mra, u)] : u \in Participants(mra)}
  BY DEF SetsSeen
<1>3. Seen \subseteq SUBSET Witness
  BY <1>1, <1>2 DEF TypeOK
<1>4. ASSUME NEW k \in Nat, k >= FPlusOne, NEW A \in SetsWith(mra, k)
      PROVE  A \in Seen /\ Cardinality(Supporters(mra, A)) >= FPlusOne
  <2>1. A \in Seen /\ Cardinality(Supporters(mra, A)) >= k
    BY DEF SetsWith
  <2>2. Supporters(mra, A) \in SUBSET Witness
    BY DEF Supporters, Participants
  <2>3. Cardinality(Supporters(mra, A)) \in Nat /\ FPlusOne \in Nat
    BY <2>2, WitnessSets, Thresholds
  <2> QED BY <2>1, <2>3, <1>4
<1>5. FPlusOne \in Nat /\ FPlusOne + 1 \in Nat /\ FPlusOne + 1 >= FPlusOne
  BY Thresholds
<1>6. \/ S = (UNION Seen) \cup Own
      \/ S \in SetsWith(mra, FPlusOne)
      \/ S \in SetsWith(mra, FPlusOne + 1)
      \/ \E A, B \in SetsWith(mra, FPlusOne) : S = A \cup B
  BY DEF SupportChoices
<1>7. CASE S = (UNION Seen) \cup Own
  <2>1. Own \subseteq {n} /\ (n \in Own <=> head[n] = 0)
    OBVIOUS
  <2> HIDE DEF Seen, Own
  <2>2. S \in SUBSET Witness
    BY <2>1, <1>3, <1>7
  <2>3. ASSUME NEW w \in S, ~(w = n /\ head[n] = 0)
        PROVE  \E u \in Participants(mra) : w \in support[Latest(mra, u)]
    <3>1. w \in UNION Seen
      BY <2>1, <2>3, <1>7
    <3> QED BY <3>1, <1>2
  <2>4. head[n] = 0 => n \in S
    BY <2>1, <1>7
  <2>5. \A u \in Participants(mra) : support[Latest(mra, u)] \subseteq S
    <3>1. \A u \in Participants(mra) : support[Latest(mra, u)] \in Seen
      BY <1>2
    <3> QED BY <3>1, <1>7
  <2> QED BY <2>2, <2>3, <2>4, <2>5
<1>8. CASE S \in SetsWith(mra, FPlusOne)
  <2>1. S \in Seen /\ Cardinality(Supporters(mra, S)) >= FPlusOne
    BY <1>4, <1>5, <1>8
  <2> QED BY <2>1, <1>2, <1>3
<1>9. CASE S \in SetsWith(mra, FPlusOne + 1)
  <2>1. S \in Seen /\ Cardinality(Supporters(mra, S)) >= FPlusOne
    BY <1>4, <1>5, <1>9
  <2> QED BY <2>1, <1>2, <1>3
<1>10. ASSUME NEW A \in SetsWith(mra, FPlusOne), NEW B \in SetsWith(mra, FPlusOne),
              S = A \cup B
       PROVE  /\ S \in SUBSET Witness
              /\ \A w \in S :
                   \E u \in Participants(mra) : w \in support[Latest(mra, u)]
              /\ \E C \in SUBSET S : Cardinality(Supporters(mra, C)) >= FPlusOne
  <2>1. A \in Seen /\ B \in Seen /\ Cardinality(Supporters(mra, A)) >= FPlusOne
    BY <1>4, <1>5
  <2> QED BY <2>1, <1>2, <1>3, <1>10
<1> QED
  BY <1>6, <1>7, <1>8, <1>9, <1>10

(* A set that f+1 witnesses support has f+1 witnesses itself: a supporter  *)
(* of a smaller set is an element of it.                                   *)
LEMMA StrongSupport ==
  ASSUME TypeOK, SupportsItself, NEW mra \in [Node -> Generation],
         \A m \in Node : mra[m] <= head[m],
         NEW A \in SUBSET Witness, Cardinality(Supporters(mra, A)) >= FPlusOne
  PROVE  Cardinality(A) >= FPlusOne
<1>1. ASSUME Cardinality(A) < FPlusOne
      PROVE  FALSE
  <2>1. Supporters(mra, A) \subseteq A
    <3> SUFFICES ASSUME NEW u \in Supporters(mra, A)
                 PROVE  u \in A
      OBVIOUS
    <3>1. u \in Witness /\ u \in Node /\ mra[u] > 0 /\ support[Latest(mra, u)] = A
      BY WitnessAssumption DEF Supporters, Participants
    <3>2. Latest(mra, u) \in WitnessEvents
      BY <3>1 DEF WitnessEvents, Events, Exists, Latest, EventId
    <3>3. u \in A \/ Cardinality(A) >= FPlusOne
      BY <3>1, <3>2 DEF SupportsItself, Latest
    <3> QED BY <3>3, <1>1, WitnessSets, Thresholds
  <2>2. IsFiniteSet(A) /\ Cardinality(A) \in Nat
    BY WitnessSets
  <2>3. Cardinality(Supporters(mra, A)) <= Cardinality(A)
    BY <2>1, <2>2, FS_Subset
  <2>4. Cardinality(Supporters(mra, A)) \in Nat
    BY <2>1, WitnessSets
  <2> QED BY <2>2, <2>3, <2>4, <1>1, Thresholds
<1> QED BY <1>1, WitnessSets, Thresholds

(* A larger set of witnesses has no fewer elements.                        *)
LEMMA CardinalityGrows ==
  ASSUME NEW S \in SUBSET Witness, NEW A \in SUBSET S, Cardinality(A) >= FPlusOne
  PROVE  Cardinality(S) >= FPlusOne
<1>1. IsFiniteSet(S) /\ Cardinality(S) \in Nat /\ Cardinality(A) \in Nat
  BY WitnessSets
<1>2. Cardinality(A) <= Cardinality(S)
  BY <1>1, FS_Subset
<1> QED BY <1>1, <1>2, Thresholds

(* What holds of the next event of witness n if it settles on S.           *)
LEMMA NextWitnessEvent ==
  ASSUME InductiveInvariant,
         NEW n \in Witness, NEW parents \in ParentSets(n),
         NEW mra, mra = MostRecentAncestors(n, parents),
         NEW S \in SupportChoices(n, mra)
  PROVE  /\ S \in SUBSET Witness
         /\ \A w \in S : (w = n /\ head[n] = 0) \/ 1 <= mra[w]
         /\ n \in S \/ Cardinality(S) >= FPlusOne
         /\ KeptProposal(n, S) \in Generation
         /\ KeptProposal(n, S) > 0 =>
              /\ KeptProposal(n, S) <= head[n]
              /\ support[<<n, KeptProposal(n, S)>>] = S
              /\ Cardinality(S) >= FPlusOne
         /\ SupportCount(n, mra, S) >= SuperMajority => Cardinality(S) >= FPlusOne
         /\ Decides(n, mra, S) => Cardinality(S) >= FPlusOne
<1>1. /\ TypeOK /\ WellFormed /\ AncestryClosed /\ SupportsItself
      /\ ProposalsKeepSupport /\ SupportInAncestry
  BY DEF InductiveInvariant
<1>2. /\ n \in Node
      /\ head \in [Node -> Generation] /\ Generation \subseteq Nat
      /\ 0 \in Generation
  BY <1>1, WitnessAssumption, BoundAssumption DEF TypeOK, Generation
<1>3. /\ mra \in [Node -> Generation]
      /\ mra[n] = head[n]
      /\ \A m \in Node : mra[m] <= head[m]
      /\ \A m \in Node \ {n} :
           \/ \E x \in parents \cup {HeadEvent(n)} : mra[m] = seen[x][m]
           \/ <<m, mra[m]>> \in parents
      /\ \A x \in parents \cup {HeadEvent(n)} : \A k \in Node : seen[x][k] <= mra[k]
  BY <1>1, <1>2, AncestorVector
<1>4. /\ S \in SUBSET Witness
      /\ \A w \in S :
           \/ w = n /\ head[n] = 0
           \/ \E u \in Participants(mra) : w \in support[Latest(mra, u)]
      /\ \/ \E A \in SUBSET S : Cardinality(Supporters(mra, A)) >= FPlusOne
         \/ /\ head[n] = 0 => n \in S
            /\ \A u \in Participants(mra) : support[Latest(mra, u)] \subseteq S
  BY <1>1, <1>3, SupportChosen
<1>5. \A u \in Participants(mra) :
        /\ u \in Node /\ Latest(mra, u) \in WitnessEvents
        /\ Latest(mra, u) = <<u, mra[u]>> /\ mra[u] \in Nat /\ 1 <= mra[u]
  <2> SUFFICES ASSUME NEW u \in Participants(mra)
               PROVE  /\ u \in Node /\ Latest(mra, u) \in WitnessEvents
                      /\ Latest(mra, u) = <<u, mra[u]>>
                      /\ mra[u] \in Nat /\ 1 <= mra[u]
    OBVIOUS
  <2>1. u \in Witness /\ u \in Node /\ mra[u] > 0
    BY WitnessAssumption DEF Participants
  <2>2. mra[u] \in Generation /\ mra[u] \in Nat /\ mra[u] <= head[u]
    BY <2>1, <1>2, <1>3
  <2>3. Latest(mra, u) = <<u, mra[u]>>
    BY DEF Latest
  <2>4. <<u, mra[u]>> \in WitnessEvents
    BY <2>1, <2>2 DEF WitnessEvents, Events, Exists, EventId
  <2> QED BY <2>1, <2>2, <2>3, <2>4
<1>6. HeadEvent(n) \in EventId
  BY <1>2 DEF HeadEvent, EventId
<1>7. ASSUME NEW w \in S, ~(w = n /\ head[n] = 0)
      PROVE  1 <= mra[w]
  <2>1. PICK u \in Participants(mra) : w \in support[Latest(mra, u)]
    BY <1>4, <1>7
  <2>2. w \in Node /\ mra[w] \in Nat
    BY <1>2, <1>3, <1>4, WitnessAssumption
  <2>3. InAncestry(<<w, 1>>, Latest(mra, u))
    BY <2>1, <1>1, <1>5 DEF SupportInAncestry
  <2>4. CASE w = u
    BY <2>4, <1>5
  <2>5. CASE 1 <= seen[<<u, mra[u]>>][w]
    <3>1. seen[<<u, mra[u]>>][w] <= mra[w]
      BY <2>2, <1>5, <1>1, AncestorsSeen, <1>2, <1>3
    <3>2. seen[<<u, mra[u]>>][w] \in Nat
      <4>1. <<u, mra[u]>> \in EventId
        BY <1>5, <2>1 DEF WitnessEvents, Events
      <4>2. seen \in [EventId -> [Node -> Generation]]
        BY <1>1 DEF TypeOK
      <4>3. seen[<<u, mra[u]>>] \in [Node -> Generation]
        BY <4>1, <4>2, Zenon
      <4>4. seen[<<u, mra[u]>>][w] \in Generation
        BY <2>2, <4>3, Zenon
      <4> QED BY <1>2, <4>4, Zenon
    <3>3. \A i, j \in Nat : 1 <= i /\ i <= j => 1 <= j
      OBVIOUS
    <3> QED BY <3>1, <3>2, <3>3, <2>2, <2>5, Zenon
  <2> QED BY <2>3, <2>4, <2>5, <1>5 DEF InAncestry
<1>8. n \in S \/ Cardinality(S) >= FPlusOne
  <2>1. ASSUME NEW A \in SUBSET S, Cardinality(Supporters(mra, A)) >= FPlusOne
        PROVE  Cardinality(S) >= FPlusOne
    <3>1. A \in SUBSET Witness
      BY <1>4
    <3>2. Cardinality(A) >= FPlusOne
      BY <3>1, <2>1, <1>1, <1>3, StrongSupport
    <3> QED BY <3>2, <1>4, CardinalityGrows
  <2>2. ASSUME head[n] = 0 => n \in S,
               \A u \in Participants(mra) : support[Latest(mra, u)] \subseteq S
        PROVE  n \in S \/ Cardinality(S) >= FPlusOne
    <3>1. CASE head[n] = 0
      BY <3>1, <2>2
    <3>2. CASE head[n] > 0
      <4>1. n \in Participants(mra)
        BY <3>2, <1>3 DEF Participants
      <4>2. /\ n \in support[Latest(mra, n)]
               \/ Cardinality(support[Latest(mra, n)]) >= FPlusOne
            /\ support[Latest(mra, n)] \subseteq S
        BY <4>1, <2>2, <1>1, <1>5 DEF SupportsItself
      <4> QED BY <4>2, <1>4, CardinalityGrows
    <3>3. head[n] \in Nat
      BY <1>2
    <3> QED BY <3>1, <3>2, <3>3
  <2> QED BY <2>1, <2>2, <1>4
<1>9. /\ KeptProposal(n, S) \in Generation
      /\ KeptProposal(n, S) > 0 =>
           /\ KeptProposal(n, S) <= head[n]
           /\ support[<<n, KeptProposal(n, S)>>] = S
           /\ Cardinality(S) >= FPlusOne
  <2> DEFINE p == proposal[HeadEvent(n)]
  <2>1. p \in Generation
    BY <1>1, <1>6 DEF TypeOK
  <2>2. CASE p > 0 /\ support[<<n, p>>] = S
    <3>1. HeadEvent(n) \in WitnessEvents
      BY <2>2, <1>1, <1>6 DEF WellFormed, WitnessEvents, Events, HeadEvent
    <3>2. /\ p <= head[n]
          /\ support[<<n, p>>] = support[HeadEvent(n)]
          /\ Cardinality(support[HeadEvent(n)]) >= FPlusOne
      BY <3>1, <2>2, <1>1 DEF ProposalsKeepSupport, HeadEvent
    <3>3. KeptProposal(n, S) = p
      BY <2>2 DEF KeptProposal
    <3> QED BY <3>2, <3>3, <2>1, <2>2
  <2>3. CASE ~(p > 0 /\ support[<<n, p>>] = S)
    <3>1. KeptProposal(n, S) = 0
      BY <2>3 DEF KeptProposal
    <3> QED BY <3>1, <1>2
  <2> QED BY <2>2, <2>3
<1>10. ASSUME SupportCount(n, mra, S) >= SuperMajority
       PROVE  Cardinality(S) >= FPlusOne
  <2>1. Supporters(mra, S) \in SUBSET Witness
    BY DEF Supporters, Participants
  <2>2. Cardinality(Supporters(mra, S)) >= FPlusOne
    BY <2>1, <1>10, WitnessSets, Thresholds DEF SupportCount
  <2> QED BY <2>2, <1>1, <1>3, <1>4, StrongSupport
<1>11. ASSUME Decides(n, mra, S)
       PROVE  Cardinality(S) >= FPlusOne
  <2> DEFINE X == {w \in Supporters(mra, S) : endorsed[Latest(mra, w)]}
  <2>1. X \in SUBSET Witness
    BY DEF Supporters, Participants
  <2>2. Cardinality(X) >= 1
    BY <2>1, <1>11, WitnessSets, Thresholds DEF Decides, EndorsedCount
  <2>3. X # {}
    BY <2>2, FS_EmptySet
  <2>4. PICK w \in Supporters(mra, S) : endorsed[Latest(mra, w)]
    BY <2>3
  <2>5. w \in Participants(mra) /\ support[Latest(mra, w)] = S
    BY <2>4 DEF Supporters
  <2> QED BY <2>4, <2>5, <1>1, <1>5 DEF ProposalsKeepSupport
<1> QED BY <1>4, <1>7, <1>8, <1>9, <1>10, <1>11

-----------------------------------------------------------------------------
(* A merge of a witness preserves the invariant.                           *)
LEMMA MergeWitnessKeepsInvariant ==
  ASSUME InductiveInvariant,
         NEW n \in Node, NEW parents \in ParentSets(n), MergeWitness(n, parents)
  PROVE  InductiveInvariant'
<1> DEFINE e == <<n, head[n] + 1>>
           mra == MostRecentAncestors(n, parents)
<1>1. /\ TypeOK /\ WellFormed /\ AncestryClosed /\ SupportsItself
      /\ ProposalsKeepSupport /\ SupportInAncestry
  BY DEF InductiveInvariant
<1>2. n \in Witness /\ CreateEvent(n, parents)
  BY DEF MergeWitness
<1>3. /\ e \in EventId /\ ~Exists(e) /\ e[1] = n /\ e[2] = head[n] + 1
      /\ head[n] + 1 \in Generation
      /\ head' \in [Node -> Generation]
      /\ \A d \in EventId : Exists(d)' <=> Exists(d) \/ d = e
      /\ Events' = Events \cup {e}
      /\ WitnessEvents' = WitnessEvents \cup {e}
      /\ seen'[e] = mra
      /\ \A d \in EventId \ {e} : seen'[d] = seen[d]
  BY <1>1, <1>2, EventCreated
<1>4. /\ seen' \in [EventId -> [Node -> Generation]]
      /\ \A d \in EventId : ~Exists(d)' => seen'[d] = [m \in Node |-> 0]
      /\ \A d \in Events' : seen'[d][d[1]] = d[2] - 1
      /\ \A d \in Events' : \A m \in Node : seen'[d][m] <= head'[m]
      /\ AncestryClosed'
  BY <1>1, <1>2, CreationKeepsHistory
<1>5. PICK S \in SupportChoices(n, mra) :
        /\ support' = [support EXCEPT ![e] = S]
        /\ decision' = [decision EXCEPT ![e] = Decides(n, mra, S)]
        /\ endorsed' = [endorsed EXCEPT ![e] = KeptEndorsed(n, mra, S)]
        /\ proposal' = [proposal EXCEPT ![e] = NextProposal(n, mra, S)]
  BY DEF MergeWitness
<1> HIDE DEF e, mra
<1>6. /\ S \in SUBSET Witness
      /\ \A w \in S : (w = n /\ head[n] = 0) \/ 1 <= mra[w]
      /\ n \in S \/ Cardinality(S) >= FPlusOne
      /\ KeptProposal(n, S) \in Generation
      /\ KeptProposal(n, S) > 0 =>
           /\ KeptProposal(n, S) <= head[n]
           /\ support[<<n, KeptProposal(n, S)>>] = S
           /\ Cardinality(S) >= FPlusOne
      /\ SupportCount(n, mra, S) >= SuperMajority => Cardinality(S) >= FPlusOne
      /\ Decides(n, mra, S) => Cardinality(S) >= FPlusOne
  BY <1>2, NextWitnessEvent DEF mra
<1>7. /\ head \in [Node -> Generation] /\ Generation \subseteq Nat
      /\ support \in [EventId -> SUBSET Witness]
      /\ proposal \in [EventId -> Generation]
      /\ endorsed \in [EventId -> BOOLEAN] /\ decision \in [EventId -> BOOLEAN]
      /\ 0 \in Generation
  BY <1>1, BoundAssumption DEF TypeOK, Generation
<1>8. /\ Decides(n, mra, S) \in BOOLEAN /\ KeptEndorsed(n, mra, S) \in BOOLEAN
      /\ NextProposal(n, mra, S) \in Generation
      /\ NextProposal(n, mra, S) \in {0, KeptProposal(n, S), head[n] + 1}
      /\ NextProposal(n, mra, S) > 0 => Cardinality(S) >= FPlusOne
  <2>1. Decides(n, mra, S) \in BOOLEAN
    BY DEF Decides
  <2>2. KeptEndorsed(n, mra, S) \in BOOLEAN
    BY DEF KeptEndorsed
  <2>3. \/ NextProposal(n, mra, S) = 0
        \/ KeptProposal(n, S) > 0 /\ NextProposal(n, mra, S) = KeptProposal(n, S)
        \/ /\ SupportCount(n, mra, S) >= SuperMajority
           /\ NextProposal(n, mra, S) = head[n] + 1
    BY <2>1 DEF NextProposal
  <2> QED BY <2>1, <2>2, <2>3, <1>3, <1>6, <1>7
<1>9. /\ support'[e] = S /\ decision'[e] = Decides(n, mra, S)
      /\ endorsed'[e] = KeptEndorsed(n, mra, S)
      /\ proposal'[e] = NextProposal(n, mra, S)
      /\ \A d \in EventId \ {e} :
           /\ support'[d] = support[d] /\ decision'[d] = decision[d]
           /\ endorsed'[d] = endorsed[d] /\ proposal'[d] = proposal[d]
  BY <1>3, <1>5, <1>7
<1>10. WitnessEvents \subseteq Events /\ Events \subseteq EventId /\ e \notin Events
  BY <1>3 DEF WitnessEvents, Events
<1>11. TypeOK'
  BY <1>3, <1>4, <1>5, <1>6, <1>7, <1>8 DEF TypeOK
<1>12. WellFormed'
  BY <1>1, <1>3, <1>4, <1>9 DEF WellFormed
<1>13. SupportsItself'
  <2>1. \A d \in WitnessEvents :
          d[1] \in support'[d] \/ Cardinality(support'[d]) >= FPlusOne
    BY <1>1, <1>9, <1>10 DEF SupportsItself
  <2>2. e[1] \in support'[e] \/ Cardinality(support'[e]) >= FPlusOne
    BY <1>3, <1>6, <1>9
  <2> QED BY <2>1, <2>2, <1>3 DEF SupportsItself
<1>14. ProposalsKeepSupport'
  <2>1. ASSUME NEW d \in WitnessEvents
        PROVE  /\ proposal'[d] > 0 =>
                    /\ proposal'[d] <= d[2]
                    /\ support'[<<d[1], proposal'[d]>>] = support'[d]
               /\ proposal'[d] > 0 \/ endorsed'[d] \/ decision'[d] =>
                    Cardinality(support'[d]) >= FPlusOne
    <3>1. /\ support'[d] = support[d] /\ decision'[d] = decision[d]
          /\ endorsed'[d] = endorsed[d] /\ proposal'[d] = proposal[d]
      BY <1>9, <1>10
    <3>2. ASSUME proposal[d] > 0
          PROVE  support'[<<d[1], proposal[d]>>] = support[<<d[1], proposal[d]>>]
      <4>1. /\ d[1] \in Node /\ d[2] \in Nat /\ d[2] <= head[d[1]]
            /\ head[d[1]] \in Nat
        BY <1>7, <1>10 DEF WitnessEvents, Events, Exists, EventId
      <4>2. proposal[d] \in Generation /\ proposal[d] \in Nat
        BY <1>7, <1>10
      <4>3. proposal[d] <= d[2]
        BY <3>2, <1>1 DEF ProposalsKeepSupport
      <4>4. <<d[1], proposal[d]>> \in EventId
        BY <4>1, <4>2 DEF EventId
      <4>5. <<d[1], proposal[d]>> # e
        <5>1. CASE d[1] = n
          BY <5>1, <4>1, <4>2, <4>3, <1>3
        <5>2. CASE d[1] # n
          BY <5>2, <1>3
        <5> QED BY <5>1, <5>2
      <4> QED BY <4>4, <4>5, <1>9
    <3> QED BY <3>1, <3>2, <1>1 DEF ProposalsKeepSupport
  <2>2. proposal'[e] > 0 =>
          /\ proposal'[e] <= e[2]
          /\ support'[<<e[1], proposal'[e]>>] = support'[e]
    <3>1. head[n] \in Nat
      BY <1>7
    <3>2. CASE proposal'[e] = 0
      BY <3>2
    <3>3. CASE proposal'[e] = head[n] + 1
      BY <3>1, <3>3, <1>3 DEF e
    <3>4. CASE proposal'[e] = KeptProposal(n, S) /\ KeptProposal(n, S) > 0
      <4>1. KeptProposal(n, S) \in Nat /\ KeptProposal(n, S) <= head[n]
        BY <3>4, <1>6, <1>7
      <4>2. <<n, KeptProposal(n, S)>> \in EventId /\ <<n, KeptProposal(n, S)>> # e
        BY <4>1, <3>1, <1>3, <1>6 DEF EventId
      <4>3. support'[<<n, KeptProposal(n, S)>>] = S
        BY <4>2, <3>4, <1>6, <1>9
      <4> QED BY <4>1, <4>3, <3>1, <3>4, <1>3, <1>9
    <3> QED BY <3>2, <3>3, <3>4, <1>6, <1>7, <1>8, <1>9
  <2>3. proposal'[e] > 0 \/ endorsed'[e] \/ decision'[e] =>
          Cardinality(support'[e]) >= FPlusOne
    BY <1>6, <1>8, <1>9 DEF KeptEndorsed
  <2> QED BY <2>1, <2>2, <2>3, <1>3 DEF ProposalsKeepSupport
<1>15. SupportInAncestry'
  <2>1. ASSUME NEW d \in WitnessEvents, NEW w \in support'[d]
        PROVE  <<w, 1>> = d \/ 1 <= seen'[d][w]
    <3>1. support'[d] = support[d] /\ seen'[d] = seen[d]
      BY <1>3, <1>9, <1>10
    <3>2. InAncestry(<<w, 1>>, d)
      BY <3>1, <1>1 DEF SupportInAncestry
    <3> QED BY <3>1, <3>2 DEF InAncestry
  <2>2. ASSUME NEW w \in support'[e]
        PROVE  <<w, 1>> = e \/ 1 <= seen'[e][w]
    <3>1. CASE w = n /\ head[n] = 0
      BY <3>1 DEF e
    <3>2. CASE 1 <= mra[w]
      BY <3>2, <1>3
    <3> QED BY <3>1, <3>2, <1>6, <1>9
  <2>3. \A d \in WitnessEvents' : \A w \in support'[d] :
          <<w, 1>> = d \/ 1 <= seen'[d][w]
    BY <2>1, <2>2, <1>3
  <2> QED BY <2>3 DEF SupportInAncestry, InAncestry
<1> QED
  BY <1>4, <1>11, <1>12, <1>13, <1>14, <1>15 DEF InductiveInvariant

(* A merge of a node that is not a witness only extends the ancestry.      *)
LEMMA MergePeerKeepsInvariant ==
  ASSUME InductiveInvariant,
         NEW n \in Node, NEW parents \in ParentSets(n), MergePeer(n, parents)
  PROVE  InductiveInvariant'
<1> DEFINE e == <<n, head[n] + 1>>
<1>1. /\ TypeOK /\ WellFormed /\ AncestryClosed /\ SupportsItself
      /\ ProposalsKeepSupport /\ SupportInAncestry
  BY DEF InductiveInvariant
<1>2. /\ n \notin Witness /\ CreateEvent(n, parents)
      /\ UNCHANGED <<support, proposal, endorsed, decision>>
  BY DEF MergePeer
<1>3. /\ e \in EventId /\ ~Exists(e)
      /\ head' \in [Node -> Generation]
      /\ \A d \in EventId : Exists(d)' <=> Exists(d) \/ d = e
      /\ WitnessEvents' = WitnessEvents
      /\ \A d \in EventId \ {e} : seen'[d] = seen[d]
  BY <1>1, <1>2, EventCreated
<1>4. /\ seen' \in [EventId -> [Node -> Generation]]
      /\ \A d \in EventId : ~Exists(d)' => seen'[d] = [m \in Node |-> 0]
      /\ \A d \in Events' : seen'[d][d[1]] = d[2] - 1
      /\ \A d \in Events' : \A m \in Node : seen'[d][m] <= head'[m]
      /\ AncestryClosed'
  BY <1>1, <1>2, CreationKeepsHistory
<1> HIDE DEF e
<1>5. TypeOK'
  BY <1>1, <1>2, <1>3, <1>4 DEF TypeOK
<1>6. WellFormed'
  BY <1>1, <1>2, <1>3, <1>4 DEF WellFormed
<1>7. SupportsItself'
  BY <1>1, <1>2, <1>3 DEF SupportsItself
<1>8. ProposalsKeepSupport'
  BY <1>1, <1>2, <1>3 DEF ProposalsKeepSupport
<1>9. SupportInAncestry'
  <2>1. \A d \in WitnessEvents : d \in EventId /\ d # e
    BY <1>3 DEF WitnessEvents, Events
  <2>2. \A d \in WitnessEvents : seen'[d] = seen[d]
    BY <2>1, <1>3
  <2> QED BY <2>2, <1>1, <1>2, <1>3 DEF SupportInAncestry, InAncestry
<1> QED
  BY <1>4, <1>5, <1>6, <1>7, <1>8, <1>9 DEF InductiveInvariant

(* Nothing has been merged yet.                                            *)
LEMMA InitialInvariant == Init => InductiveInvariant
<1> SUFFICES ASSUME Init
             PROVE  InductiveInvariant
  OBVIOUS
<1>1. 0 \in Generation
  BY BoundAssumption DEF Generation
<1>2. TypeOK
  BY <1>1 DEF Init, TypeOK
<1>3. \A e \in EventId : ~Exists(e)
  BY BoundAssumption DEF Init, Exists, EventId, Generation
<1>4. Events = {} /\ WitnessEvents = {}
  BY <1>3 DEF Events, WitnessEvents
<1>5. WellFormed
  BY <1>4 DEF WellFormed, Init
<1> QED
  BY <1>2, <1>4, <1>5
     DEF InductiveInvariant, AncestryClosed, SupportsItself, ProposalsKeepSupport,
         SupportInAncestry

(* Every step preserves the invariant.                                     *)
LEMMA StepKeepsInvariant == InductiveInvariant /\ [Next]_vars => InductiveInvariant'
<1> SUFFICES ASSUME InductiveInvariant, [Next]_vars
             PROVE  InductiveInvariant'
  OBVIOUS
<1>1. CASE Next
  <2>1. PICK n \in Node :
          \E parents \in ParentSets(n) : MergeWitness(n, parents) \/ MergePeer(n, parents)
    BY <1>1 DEF Next
  <2>2. PICK parents \in ParentSets(n) : MergeWitness(n, parents) \/ MergePeer(n, parents)
    BY <2>1
  <2>3. CASE MergeWitness(n, parents)
    BY <2>3, MergeWitnessKeepsInvariant
  <2>4. CASE MergePeer(n, parents)
    BY <2>4, MergePeerKeepsInvariant
  <2> QED BY <2>2, <2>3, <2>4
<1>2. CASE UNCHANGED vars
  BY <1>2
     DEF vars, InductiveInvariant, TypeOK, WellFormed, AncestryClosed, SupportsItself,
         ProposalsKeepSupport, SupportInAncestry, Events, WitnessEvents, Exists,
         InAncestry
<1> QED BY <1>1, <1>2

(* The experiments of recent history keep the invariant (lib/continuity.js,*)
(* _experiment), however the witnesses merge.                              *)
THEOREM InvariantHolds == Spec => []InductiveInvariant
<1> QED
  BY InitialInvariant, StepKeepsInvariant, PTL DEF Spec

(* The model is well typed: every ancestor, proposal and support set of an *)
(* event is one of this recent history.                                    *)
THEOREM TypeCorrect == Spec => []TypeOK
<1>1. InductiveInvariant => TypeOK
  BY DEF InductiveInvariant
<1> QED
  BY <1>1, InvariantHolds, PTL

(* A set that any event proposes or decides (_experiment) holds the `y` of *)
(* f+1 witnesses.                                                          *)
THEOREM EnoughWitnesses == Spec => []ProposalsNeedWitnesses
<1>1. InductiveInvariant => ProposalsNeedWitnesses
  BY DEF InductiveInvariant, ProposalsKeepSupport, ProposalsNeedWitnesses
<1> QED
  BY <1>1, InvariantHolds, PTL

(* An event supports (_chooseSupport) only `y` events in its own ancestry. *)
THEOREM SupportFromAncestry == Spec => []SupportInAncestry
<1>1. InductiveInvariant => SupportInAncestry
  BY DEF InductiveInvariant
<1> QED
  BY <1>1, InvariantHolds, PTL

-----------------------------------------------------------------------------
(* The next event of a witness carries its branch's proposal on, endorsed  *)
(* as before, unless its support switches or it decides.                   *)
LEMMA MergeHoldsProposal ==
  ASSUME InductiveInvariant, ProposalHeld,
         NEW n \in Node, NEW parents \in ParentSets(n), MergeWitness(n, parents)
  PROVE  ProposalHeld'
<1> DEFINE e == <<n, head[n] + 1>>
           mra == MostRecentAncestors(n, parents)
           Before(d) == <<d[1], d[2] - 1>>
<1>1. TypeOK /\ WellFormed /\ ProposalsKeepSupport
  BY DEF InductiveInvariant
<1>2. n \in Witness /\ CreateEvent(n, parents)
  BY DEF MergeWitness
<1>3. /\ e \in EventId /\ e[1] = n /\ e[2] = head[n] + 1
      /\ ~Exists(e)
      /\ WitnessEvents' = WitnessEvents \cup {e}
  BY <1>1, <1>2, EventCreated
<1>4. PICK S \in SupportChoices(n, mra) :
        /\ support' = [support EXCEPT ![e] = S]
        /\ decision' = [decision EXCEPT ![e] = Decides(n, mra, S)]
        /\ endorsed' = [endorsed EXCEPT ![e] = KeptEndorsed(n, mra, S)]
        /\ proposal' = [proposal EXCEPT ![e] = NextProposal(n, mra, S)]
  BY DEF MergeWitness
<1>5. /\ head \in [Node -> Generation] /\ Generation \subseteq Nat
      /\ support \in [EventId -> SUBSET Witness]
      /\ proposal \in [EventId -> Generation]
      /\ endorsed \in [EventId -> BOOLEAN] /\ decision \in [EventId -> BOOLEAN]
  BY <1>1, BoundAssumption DEF TypeOK, Generation
<1> HIDE DEF mra
<1>6. head[n] \in Nat /\ Before(e) = HeadEvent(n) /\ HeadEvent(n) \in EventId
  <2>1. head[n] \in Generation /\ head[n] \in Nat
    BY <1>5
  <2>2. e[1] = n /\ e[2] - 1 = head[n]
    BY <2>1, <1>3
  <2> QED BY <2>1, <2>2 DEF HeadEvent, EventId
<1>7. HeadEvent(n) # e
  BY <1>6 DEF HeadEvent
<1> HIDE DEF e
<1>8. /\ support'[e] = S /\ decision'[e] = Decides(n, mra, S)
      /\ endorsed'[e] = KeptEndorsed(n, mra, S)
      /\ proposal'[e] = NextProposal(n, mra, S)
      /\ \A d \in EventId \ {e} :
           /\ support'[d] = support[d] /\ decision'[d] = decision[d]
           /\ endorsed'[d] = endorsed[d] /\ proposal'[d] = proposal[d]
  BY <1>3, <1>4, <1>5
<1>9. ASSUME NEW d \in WitnessEvents
      PROVE  /\ d \in EventId /\ d # e
             /\ Before(d) \in EventId /\ Before(d) # e
  <2>1. /\ d \in EventId /\ d # e /\ d = <<d[1], d[2]>> /\ d[1] \in Node
        /\ d[2] \in Generation /\ 0 < d[2] /\ d[2] <= head[d[1]]
    BY <1>3 DEF WitnessEvents, Events, Exists, EventId
  <2>2. d[2] \in Nat /\ d[2] - 1 \in Generation /\ head[d[1]] \in Nat
    BY <2>1, <1>5, BoundAssumption DEF Generation
  <2>3. Before(d) \in EventId
    BY <2>1, <2>2 DEF EventId
  <2>4. Before(d) # e
    <3>1. CASE d[1] = n
      BY <3>1, <2>1, <2>2, <1>3, <1>6
    <3>2. CASE d[1] # n
      BY <3>2, <1>3
    <3> QED BY <3>1, <3>2
  <2> QED BY <2>1, <2>3, <2>4
<1>10. ASSUME NEW d \in WitnessEvents
       PROVE  proposal'[Before(d)] > 0 /\ support'[d] = support'[Before(d)] /\ ~decision'[d]
                => /\ proposal'[d] = proposal'[Before(d)]
                   /\ endorsed'[Before(d)] => endorsed'[d]
  <2>1. proposal[Before(d)] > 0 /\ support[d] = support[Before(d)] /\ ~decision[d]
          => /\ proposal[d] = proposal[Before(d)]
             /\ endorsed[Before(d)] => endorsed[d]
    BY DEF ProposalHeld
  <2> QED BY <2>1, <1>8, <1>9
<1>11. ASSUME proposal[HeadEvent(n)] > 0, S = support[HeadEvent(n)], ~Decides(n, mra, S)
       PROVE  /\ NextProposal(n, mra, S) = proposal[HeadEvent(n)]
              /\ endorsed[HeadEvent(n)] => KeptEndorsed(n, mra, S)
  <2>1. HeadEvent(n) \in WitnessEvents
    BY <1>1, <1>2, <1>6, <1>11 DEF WellFormed, WitnessEvents, Events, HeadEvent
  <2>2. support[<<n, proposal[HeadEvent(n)]>>] = S
    BY <2>1, <1>1, <1>11 DEF ProposalsKeepSupport, HeadEvent
  <2>3. KeptProposal(n, S) = proposal[HeadEvent(n)]
    BY <2>2, <1>11 DEF KeptProposal
  <2>4. NextProposal(n, mra, S) = KeptProposal(n, S)
    BY <2>3, <1>11 DEF NextProposal
  <2> QED BY <2>3, <2>4, <1>11 DEF KeptEndorsed
<1>12. proposal'[Before(e)] > 0 /\ support'[e] = support'[Before(e)] /\ ~decision'[e]
         => /\ proposal'[e] = proposal'[Before(e)]
            /\ endorsed'[Before(e)] => endorsed'[e]
  BY <1>6, <1>7, <1>8, <1>11
<1> QED
  BY <1>3, <1>10, <1>12 DEF ProposalHeld

(* A branch gives a proposal up only by rejecting it (_experiment): while  *)
(* its support stays the same it neither replaces the proposal nor loses   *)
(* the endorsement.                                                        *)
THEOREM ProposalsAreHeld == Spec => []ProposalHeld
<1>1. Init => ProposalHeld
  <2> SUFFICES ASSUME Init
               PROVE  ProposalHeld
    OBVIOUS
  <2>1. WitnessEvents = {}
    BY BoundAssumption
       DEF Init, WitnessEvents, Events, Exists, EventId, Generation
  <2> QED BY <2>1 DEF ProposalHeld
<1>2. InductiveInvariant /\ ProposalHeld /\ [Next]_vars => ProposalHeld'
  <2> SUFFICES ASSUME InductiveInvariant, ProposalHeld, [Next]_vars
               PROVE  ProposalHeld'
    OBVIOUS
  <2>1. ASSUME NEW n \in Node, NEW parents \in ParentSets(n), MergePeer(n, parents)
        PROVE  ProposalHeld'
    <3>1. WitnessEvents' = WitnessEvents
      BY <2>1, EventCreated DEF MergePeer, InductiveInvariant
    <3> QED BY <3>1, <2>1 DEF ProposalHeld, MergePeer
  <2>2. CASE Next
    BY <2>1, <2>2, MergeHoldsProposal DEF Next
  <2>3. CASE UNCHANGED vars
    BY <2>3 DEF vars, ProposalHeld, WitnessEvents, Events, Exists
  <2> QED BY <2>2, <2>3
<1> QED
  BY <1>1, <1>2, InvariantHolds, PTL DEF Spec

-----------------------------------------------------------------------------
(* Four witnesses, so f+1 = 2, do not suffice for a third strong set, or   *)
(* for a second one beside a set with three supporters.                    *)
LEMMA StrongSetsOfFour ==
  ASSUME Cardinality(Witness) = 4,
         NEW A \in SUBSET Witness, NEW B \in SUBSET Witness, A \cap B = {},
         Cardinality(A) >= 2, Cardinality(B) >= 2
  PROVE  /\ Cardinality(A) = 2
         /\ A \cup B = Witness
<1>1. /\ IsFiniteSet(A) /\ IsFiniteSet(B) /\ IsFiniteSet(Witness)
      /\ Cardinality(A) \in Nat /\ Cardinality(B) \in Nat
  BY WitnessSets, WitnessAssumption, FS_Subset
<1>2. Cardinality(A \cup B) = Cardinality(A) + Cardinality(B)
  <2>1. Cardinality(A \cup B) = Cardinality(A) + Cardinality(B) - Cardinality(A \cap B)
    BY <1>1, FS_Union
  <2>2. Cardinality(A \cap B) = 0
    BY FS_EmptySet
  <2> QED BY <1>1, <2>1, <2>2
<1>3. A \cup B \in SUBSET Witness
  OBVIOUS
<1>4. Cardinality(A \cup B) <= 4 /\ (Cardinality(A \cup B) = 4 => A \cup B = Witness)
  BY <1>1, <1>3, FS_Subset
<1> QED BY <1>1, <1>2, <1>4

(* With four witnesses the first two entries of the list are all the sets  *)
(* with f+1 supporters there are (_chooseSupport).                         *)
LEMMA FourUnite ==
  ASSUME TypeOK, Cardinality(Witness) = 4,
         NEW n \in Witness, NEW mra \in [Node -> Generation],
         NEW S \in SupportChoices(n, mra), SetsWith(mra, FPlusOne) # {}
  PROVE  S = UNION SetsWith(mra, FPlusOne)
<1> DEFINE strong == SetsWith(mra, FPlusOne)
<1>1. FPlusOne = 2
  BY DEF FPlusOne, F, MaximumFailures
<1>2. \A A \in strong : /\ Supporters(mra, A) \in SUBSET Witness
                        /\ Cardinality(Supporters(mra, A)) >= 2
  BY <1>1 DEF SetsWith, Supporters, Participants
<1>3. \A A, B : A # B => Supporters(mra, A) \cap Supporters(mra, B) = {}
  BY DEF Supporters
<1>4. ASSUME NEW A \in strong, NEW B \in strong, A # B
      PROVE  /\ Cardinality(Supporters(mra, A)) = 2
             /\ Supporters(mra, A) \cup Supporters(mra, B) = Witness
  <2> HIDE DEF strong
  <2> QED BY <1>2, <1>3, <1>4, StrongSetsOfFour
<1>5. IsFiniteSet(strong)
  <2>1. \A u \in Participants(mra) : support[Latest(mra, u)] \in SUBSET Witness
    BY WitnessAssumption DEF Participants, Latest, EventId, TypeOK
  <2>2. strong \in SUBSET (SUBSET Witness)
    BY <2>1 DEF SetsWith, SetsSeen
  <2>3. IsFiniteSet(SUBSET Witness)
    BY WitnessAssumption, FS_Subset, FS_SUBSET
  <2> QED BY <2>2, <2>3, FS_Subset
<1>6. CASE Cardinality(strong) = 1
  <2>1. PICK A : strong = {A}
    BY <1>5, <1>6, FS_Singleton
  <2>2. S \in strong
    BY <1>6 DEF SupportChoices
  <2> QED BY <2>1, <2>2
<1>7. CASE Cardinality(strong) # 1
  <2>1. \/ S \in SetsWith(mra, FPlusOne + 1)
        \/ \E A, B \in strong : A # B /\ S = A \cup B
    BY <1>7 DEF SupportChoices
  <2>2. \A A : strong # {A}
    BY <1>5, <1>7, FS_Singleton
  <2>3. S \notin SetsWith(mra, FPlusOne + 1)
    <3> SUFFICES ASSUME S \in SetsWith(mra, FPlusOne + 1) PROVE FALSE
      OBVIOUS
    <3>1. S \in SetsSeen(mra) /\ Cardinality(Supporters(mra, S)) >= 3
      BY <1>1 DEF SetsWith
    <3>2. Cardinality(Supporters(mra, S)) \in Nat
      BY WitnessSets DEF Supporters, Participants
    <3>3. S \in strong
      BY <1>1, <3>1, <3>2 DEF SetsWith
    <3>4. PICK B \in strong : B # S
      BY <2>2, <3>3
    <3> QED BY <1>4, <3>1, <3>2, <3>3, <3>4
  <2>4. PICK A \in strong, B \in strong : A # B /\ S = A \cup B
    BY <2>1, <2>3
  <2>5. ASSUME NEW C \in strong, C # A, C # B
        PROVE  FALSE
    <3>1. Supporters(mra, A) \cup Supporters(mra, B) = Witness
      BY <1>4, <2>4
    <3>2. Supporters(mra, C) = {}
      <4> HIDE DEF strong
      <4>1. Supporters(mra, C) \subseteq Witness
        BY <1>2
      <4> QED BY <4>1, <1>3, <2>5, <3>1
    <3>3. Cardinality(Supporters(mra, C)) = 0
      BY <3>2, FS_EmptySet
    <3> HIDE DEF strong
    <3> QED BY <1>2, <3>3
  <2>6. S = UNION strong
    <3> HIDE DEF strong
    <3> QED BY <2>4, <2>5
  <2> QED BY <2>6
<1> QED BY <1>6, <1>7

(* The support of what an event has seen does not change any more.         *)
LEMMA MergeKeepsStrong ==
  ASSUME InductiveInvariant,
         NEW n \in Node, NEW parents \in ParentSets(n), MergeWitness(n, parents),
         NEW mra \in [Node -> Generation], \A m \in Node : mra[m] <= head[m]
  PROVE  SetsWith(mra, FPlusOne)' = SetsWith(mra, FPlusOne)
<1> DEFINE e == <<n, head[n] + 1>>
<1>1. TypeOK
  BY DEF InductiveInvariant
<1>2. PICK S : support' = [support EXCEPT ![e] = S]
  BY DEF MergeWitness
<1>3. ASSUME NEW u \in Participants(mra)
      PROVE  support'[Latest(mra, u)] = support[Latest(mra, u)]
  <2>1. u \in Node /\ mra[u] \in Generation /\ mra[u] <= head[u]
    BY WitnessAssumption DEF Participants
  <2>2. head[u] \in Nat /\ mra[u] \in Nat
    BY <1>1, <2>1, BoundAssumption DEF TypeOK, Generation
  <2>3. Latest(mra, u) # e
    BY <2>1, <2>2 DEF Latest
  <2>4. Latest(mra, u) \in EventId
    BY <2>1 DEF Latest, EventId
  <2> QED BY <1>1, <1>2, <2>3, <2>4 DEF TypeOK
<1>4. Participants(mra)' = Participants(mra)
  BY DEF Participants
<1>5. \A A : Supporters(mra, A)' = Supporters(mra, A)
  BY <1>3, <1>4 DEF Supporters, Latest
<1>6. SetsSeen(mra)' = SetsSeen(mra)
  BY <1>3, <1>4 DEF SetsSeen, Latest
<1> QED BY <1>5, <1>6 DEF SetsWith

LEMMA MergeUnites ==
  ASSUME InductiveInvariant, UnionOfStrongSupport, Cardinality(Witness) = 4,
         NEW n \in Node, NEW parents \in ParentSets(n), MergeWitness(n, parents)
  PROVE  UnionOfStrongSupport'
<1> DEFINE e == <<n, head[n] + 1>>
           mra == MostRecentAncestors(n, parents)
<1>1. TypeOK /\ WellFormed
  BY DEF InductiveInvariant
<1>2. n \in Witness /\ CreateEvent(n, parents)
  BY DEF MergeWitness
<1>3. /\ e \in EventId /\ ~Exists(e)
      /\ WitnessEvents' = WitnessEvents \cup {e}
      /\ seen'[e] = mra
      /\ \A d \in EventId \ {e} : seen'[d] = seen[d]
  BY <1>1, <1>2, EventCreated
<1>4. mra \in [Node -> Generation] /\ \A m \in Node : mra[m] <= head[m]
  BY <1>1, AncestorVector
<1>5. PICK S \in SupportChoices(n, mra) : support' = [support EXCEPT ![e] = S]
  BY DEF MergeWitness
<1> HIDE DEF mra, e
<1>6. support'[e] = S /\ \A d \in EventId \ {e} : support'[d] = support[d]
  BY <1>1, <1>3, <1>5 DEF TypeOK
<1>7. ASSUME NEW d \in WitnessEvents, SetsWith(seen[d], FPlusOne)' # {}
      PROVE  support'[d] = UNION (SetsWith(seen[d], FPlusOne)')
  <2>1. d \in Events /\ d \in EventId \ {e}
    BY <1>3 DEF WitnessEvents, Events
  <2>2. seen[d] \in [Node -> Generation] /\ \A m \in Node : seen[d][m] <= head[m]
    BY <1>1, <2>1 DEF TypeOK, WellFormed
  <2>3. PICK v : v = seen[d]
    OBVIOUS
  <2>4. SetsWith(v, FPlusOne)' = SetsWith(v, FPlusOne)
    BY <2>2, <2>3, MergeKeepsStrong
  <2> QED BY <1>3, <1>6, <1>7, <2>1, <2>3, <2>4 DEF UnionOfStrongSupport
<1>8. ASSUME NEW d, d = e, SetsWith(seen[d], FPlusOne)' # {}
      PROVE  support'[d] = UNION (SetsWith(seen[d], FPlusOne)')
  <2>1. PICK v : v = mra
    OBVIOUS
  <2>2. seen'[d] = v
    BY <1>3, <1>8, <2>1
  <2>3. SetsWith(v, FPlusOne)' = SetsWith(v, FPlusOne)
    BY <1>4, <2>1, MergeKeepsStrong
  <2>4. SetsWith(v, FPlusOne) # {} => S = UNION SetsWith(v, FPlusOne)
    BY <1>1, <1>2, <1>4, <2>1, FourUnite
  <2> QED BY <1>6, <1>8, <2>2, <2>3, <2>4
<1> QED BY <1>3, <1>7, <1>8 DEF UnionOfStrongSupport

(* An event of a peer takes no part in the experiment.                     *)
LEMMA PeerUnites ==
  ASSUME InductiveInvariant, UnionOfStrongSupport,
         NEW n \in Node, NEW parents \in ParentSets(n), MergePeer(n, parents)
  PROVE  UnionOfStrongSupport'
<1>1. TypeOK /\ n \notin Witness /\ CreateEvent(n, parents) /\ UNCHANGED support
  BY DEF InductiveInvariant, MergePeer
<1>2. WitnessEvents' = WitnessEvents
  BY <1>1, EventCreated
<1>3. ASSUME NEW d \in WitnessEvents
      PROVE  SetsWith(seen[d], FPlusOne)' = SetsWith(seen[d], FPlusOne)
  <2>1. seen'[d] = seen[d]
    BY <1>1, EventCreated DEF WitnessEvents, Events
  <2> QED BY <1>1, <2>1 DEF SetsWith, SetsSeen, Supporters, Participants, Latest
<1> QED BY <1>1, <1>2, <1>3 DEF UnionOfStrongSupport

(* With four witnesses an event supports the union of all sets that have   *)
(* f+1 support, as _chooseSupport says (not so with seven, where a set may *)
(* be listed twice).                                                       *)
THEOREM StrongSupportUnites ==
  ASSUME Cardinality(Witness) = 4
  PROVE  Spec => []UnionOfStrongSupport
<1>1. Init => UnionOfStrongSupport
  <2> SUFFICES ASSUME Init
               PROVE  UnionOfStrongSupport
    OBVIOUS
  <2>1. WitnessEvents = {}
    BY BoundAssumption
       DEF Init, WitnessEvents, Events, Exists, EventId, Generation
  <2> QED BY <2>1 DEF UnionOfStrongSupport
<1>2. InductiveInvariant /\ UnionOfStrongSupport /\ [Next]_vars => UnionOfStrongSupport'
  <2> SUFFICES ASSUME InductiveInvariant, UnionOfStrongSupport, [Next]_vars
               PROVE  UnionOfStrongSupport'
    OBVIOUS
  <2>1. CASE Next
    BY <2>1, MergeUnites, PeerUnites DEF Next
  <2>2. CASE UNCHANGED vars
    <3>1. WitnessEvents' = WitnessEvents /\ support' = support
      BY <2>2 DEF vars, WitnessEvents, Events, Exists
    <3>2. ASSUME NEW d
          PROVE  SetsWith(seen[d], FPlusOne)' = SetsWith(seen[d], FPlusOne)
      BY <2>2 DEF vars, SetsWith, SetsSeen, Supporters, Participants, Latest
    <3> QED BY <3>1, <3>2 DEF UnionOfStrongSupport
  <2> QED BY <2>1, <2>2
<1> QED
  BY <1>1, <1>2, InvariantHolds, PTL DEF Spec
=============================================================================
