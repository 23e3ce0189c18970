---------------------- MODULE ContinuityPriority_proofs ----------------------
(***************************************************************************)
(* Proofs about ContinuityPriority: no witness that could bring a decision *)
(* nearer is left out of the priority peers.                               *)
(***************************************************************************)
EXTENDS ContinuityPriority, ContinuityRun_proofs

(* What the passes of _getPriorityPeers hand on.                           *)
Found == [endorsers : [WithEndorsers -> SUBSET Witness], peers : SUBSET Witness]

-----------------------------------------------------------------------------
(* A proposal is not made after the event that carries it on.              *)
LEMMA ProposalBefore ==
  ASSUME TypeOK, RunTypeOK, WorkedInOrder, EndorsementsFound, NEW e \in EventId
  PROVE  runProposal[e] \in Nat /\ e[2] \in Nat /\ runProposal[e] <= e[2]
<1>1. runProposal[e] \in Nat /\ e[2] \in Nat
  BY Generations DEF RunTypeOK, EventId
<1>2. CASE e \in tried
  <2>1. CASE runProposal[e] > 0
    <3>1. EndorsementKnown(e, <<e[1], runProposal[e]>>)
      BY <1>2, <2>1 DEF EndorsementsFound
    <3> QED BY <1>1, <3>1 DEF EndorsementKnown
  <2> QED BY <1>1, <2>1
<1>3. CASE e \notin tried
  BY <1>1, <1>3 DEF WorkedInOrder
<1> QED BY <1>1, <1>2, <1>3

(* The heads in view, and what they have seen.                             *)
LEMMA HeadsInView ==
  ASSUME HistoryInvariant, RunInvariant, NEW w \in WithHead
  PROVE  /\ w \in Witness /\ w \in Node
         /\ view[w] \in Nat /\ view[w] > 0 /\ view[w] <= head[w] /\ head[w] \in Nat
         /\ HeadInView(w) = <<w, view[w]>> /\ HeadInView(w) \in EventId
         /\ runProposal[HeadInView(w)] \in Nat /\ runProposal[HeadInView(w)] <= view[w]
         /\ seen[HeadInView(w)] \in [Node -> Generation]
         /\ seen[HeadInView(w)][w] = view[w] - 1
         /\ \A m \in Node : /\ seen[HeadInView(w)][m] \in Nat /\ view[m] \in Nat
                            /\ seen[HeadInView(w)][m] <= view[m] /\ view[m] <= head[m]
<1>1. /\ TypeOK /\ WellFormed /\ RunTypeOK /\ ViewReceived /\ WorkedInOrder
      /\ EndorsementsFound
  BY DEF HistoryInvariant, InductiveInvariant, RunInvariant
<1>2. w \in Witness /\ w \in Node /\ view[w] > 0
  BY WitnessAssumption DEF WithHead, Tails
<1>3. /\ view[w] \in Nat /\ view[w] <= head[w] /\ head[w] \in Nat /\ view[w] \in Generation
      /\ \A m \in Node : view[m] \in Nat /\ view[m] <= head[m]
  BY <1>1, <1>2, Generations DEF RunTypeOK, ViewReceived
<1>4. PICK g \in Nat : g = view[w]
  BY <1>3
<1>5. <<w, g>> \in Events /\ <<w, g>> \in EventId
  BY <1>1, <1>2, <1>3, <1>4, OnBranch
<1>6. runProposal[<<w, g>>] \in Nat /\ runProposal[<<w, g>>] <= g
  <2>1. PICK e : e = <<w, g>>
    OBVIOUS
  <2>2. e \in EventId /\ e[2] = g
    BY <1>5, <2>1
  <2>3. runProposal[e] \in Nat /\ runProposal[e] <= g
    BY <1>1, <2>2, ProposalBefore
  <2> QED BY <2>1, <2>3
<1>7. seen[<<w, g>>] \in [Node -> Generation]
  BY <1>1, <1>5 DEF TypeOK
<1>8. seen[<<w, g>>][w] = g - 1
  BY <1>1, <1>5 DEF WellFormed
<1>9. ASSUME NEW m \in Node
      PROVE  seen[<<w, g>>][m] \in Nat /\ seen[<<w, g>>][m] <= view[m]
  BY <1>1, <1>2, <1>4, <1>5, Generations DEF ViewReceived
<1> QED BY <1>2, <1>3, <1>4, <1>5, <1>6, <1>7, <1>8, <1>9 DEF HeadInView

(* Those whose heads endorse the proposal of w have been collected, or are *)
(* found when their heads are looked at.                                   *)
LEMMA EndorsersOfHead ==
  ASSUME HistoryInvariant, RunInvariant, NEW w \in WithEndorsers
  PROVE  /\ CollectedEndorsers[w] \in SUBSET Witness
         /\ EndorsingHeads(w) \subseteq
              CollectedEndorsers[w] \cup {o \in WithHead \ {w} : Endorses(o, w)}
<1>1. w \in WithHead /\ runProposal[HeadInView(w)] > 0 /\ runProposal[HeadInView(w)] < view[w]
  BY DEF WithEndorsers, Waiting
<1>2. PICK p \in Nat : p = runProposal[HeadInView(w)]
  BY <1>1, HeadsInView
<1>3. PICK g \in Nat : g = view[w]
  BY <1>1, HeadsInView
<1>4. g \in (p + 1)..g /\ HeadInView(w) = <<w, g>>
  BY <1>1, <1>2, <1>3 DEF HeadInView
<1>5. CollectedEndorsers[w] = EndorsersUpTo(<<w, p>>, g)
  BY <1>2, <1>3 DEF CollectedEndorsers
<1>6. w \in Witness
  BY <1>1, HeadsInView
<1>7. EndorsersUpTo(<<w, p>>, g) \in SUBSET Witness
  BY <1>6 DEF EndorsersUpTo, Participants
<1>8. ASSUME NEW o \in EndorsingHeads(w),
             o \notin {u \in WithHead \ {w} : Endorses(u, w)}
      PROVE  o \in EndorsersUpTo(<<w, p>>, g)
  <2>1. CASE o = w
    BY <2>1 DEF EndorsersUpTo
  <2>2. CASE o # w
    <3>1. o \in WithHead /\ seen[HeadInView(o)][w] >= p
      BY <1>2, <2>2 DEF EndorsingHeads
    <3>2. LastSeen(w, o) = HeadInView(o)
      BY <1>2, <1>8, <2>2, <3>1 DEF Endorses
    <3>3. seen[<<w, g>>][o] = view[o]
      BY <1>4, <3>2 DEF LastSeen, HeadInView
    <3>4. o \in Witness /\ view[o] > 0
      BY <3>1, HeadsInView
    <3>5. Latest(seen[<<w, g>>], o) = HeadInView(o)
      BY <3>3 DEF Latest, HeadInView
    <3>6. o \in {u \in Participants(seen[<<w, g>>]) :
                   seen[Latest(seen[<<w, g>>], u)][w] >= p}
      BY <3>1, <3>3, <3>4, <3>5 DEF Participants
    <3> QED BY <1>4, <3>6 DEF EndorsersUpTo
  <2> QED BY <2>1, <2>2
<1> QED BY <1>5, <1>7, <1>8

(* The pass of one witness, with its proposal's endorsers as the run has   *)
(* collected them: it finds the witness or nothing that matters to it.     *)
LEMMA PassOfWitness ==
  ASSUME HistoryInvariant, RunInvariant, NEW order \in Orders,
         NEW acc \in Found, NEW w \in WithHead,
         NEW next, next = Prioritize(acc, w, order)
  PROVE  /\ next \in Found
         /\ acc.peers \subseteq next.peers
         /\ \A u \in WithEndorsers \ {w} : next.endorsers[u] = acc.endorsers[u]
         /\ (w \in WithEndorsers => acc.endorsers[w] = CollectedEndorsers[w])
              => w \in next.peers \/ LeftOut(w)
<1> DEFINE worth == {i \in DOMAIN order :
                       order[i] # w /\ IsWorthMerging(w, order[i], acc.endorsers)}
           passed == {order[i] : i \in {j \in DOMAIN order :
                                         order[j] # w /\ \A k \in worth : j < k}}
           endorsers ==
             IF w \in WithEndorsers
             THEN [acc.endorsers EXCEPT ![w] = @ \cup {o \in passed : Endorses(o, w)}]
             ELSE acc.endorsers
           isEndorsed == w \in WithEndorsers /\ Cardinality(endorsers[w]) >= SuperMajority
<1>1. next = [endorsers |-> endorsers,
              peers |-> IF worth # {} \/ isEndorsed THEN acc.peers \cup {w} ELSE acc.peers]
  BY DEF Prioritize
<1>2. /\ order \in [1..Cardinality(WithHead) -> WithHead]
      /\ \A o \in WithHead : \E i \in 1..Cardinality(WithHead) : order[i] = o
  BY DEF Orders, Bijection, Injection, Surjection
<1>3. DOMAIN order = 1..Cardinality(WithHead)
  BY <1>2
<1>4. w \in Witness /\ WithHead \in SUBSET Witness
  BY HeadsInView
<1>5. acc.endorsers \in [WithEndorsers -> SUBSET Witness] /\ acc.peers \in SUBSET Witness
  BY DEF Found
<1>6. passed \in SUBSET WithHead
  BY <1>2, <1>3
<1>7. /\ endorsers \in [WithEndorsers -> SUBSET Witness]
      /\ \A u \in WithEndorsers \ {w} : endorsers[u] = acc.endorsers[u]
      /\ w \in WithEndorsers =>
           endorsers[w] = acc.endorsers[w] \cup {o \in passed : Endorses(o, w)}
  <2> HIDE DEF passed
  <2> QED BY <1>4, <1>5, <1>6
<1>8. next.endorsers = endorsers
      /\ next.peers = IF worth # {} \/ isEndorsed THEN acc.peers \cup {w} ELSE acc.peers
  <2> HIDE DEF worth, endorsers, isEndorsed
  <2> QED BY <1>1
<1>9. next \in Found
  <2>1. next.peers \in SUBSET Witness
    BY <1>4, <1>5, <1>8, Zenon
  <2>2. next = [endorsers |-> next.endorsers, peers |-> next.peers]
    <3> HIDE DEF worth, endorsers, isEndorsed
    <3> QED BY <1>1
  <2> HIDE DEF endorsers
  <2> QED BY <1>7, <1>8, <2>1, <2>2 DEF Found
<1>10. ASSUME w \notin next.peers,
              w \in WithEndorsers => acc.endorsers[w] = CollectedEndorsers[w]
       PROVE  LeftOut(w)
  <2>1. worth = {} /\ ~isEndorsed
    <3> HIDE DEF worth, isEndorsed
    <3> QED BY <1>8, <1>10
  <2>2. ASSUME NEW o \in WithHead \ {w}
        PROVE  ~IsWorthMerging(w, o, acc.endorsers) /\ o \in passed
    <3>1. PICK i \in 1..Cardinality(WithHead) : order[i] = o
      BY <1>2
    <3>2. i \in DOMAIN order /\ order[i] # w
      BY <1>3, <3>1
    <3>3. i \notin worth
      BY <2>1
    <3>4. ~IsWorthMerging(w, o, acc.endorsers)
      BY <3>1, <3>2, <3>3
    <3>5. i \in {j \in DOMAIN order : order[j] # w /\ \A k \in worth : j < k}
      <4> HIDE DEF worth
      <4> QED BY <2>1, <3>2
    <3>6. o \in passed
      <4> HIDE DEF worth
      <4> QED BY <3>1, <3>5
    <3> QED BY <3>4, <3>6
  <2>3. \A o \in WithHead \ {w} : NothingNew(w, o)
    BY <2>2 DEF IsWorthMerging, NothingNew
  <2>4. ASSUME w \in WithEndorsers
        PROVE  Cardinality(EndorsingHeads(w)) < SuperMajority
    <3>1. PICK A, B : A = EndorsingHeads(w) /\ B = endorsers[w]
      OBVIOUS
    <3>2. ~(Cardinality(B) >= SuperMajority)
      BY <2>1, <2>4, <3>1
    <3>3. A \subseteq B
      <4>1. A \subseteq CollectedEndorsers[w] \cup {o \in WithHead \ {w} : Endorses(o, w)}
        BY <2>4, <3>1, EndorsersOfHead
      <4>2. {o \in WithHead \ {w} : Endorses(o, w)} \subseteq {o \in passed : Endorses(o, w)}
        <5> HIDE DEF passed
        <5> QED BY <2>2
      <4>3. B = CollectedEndorsers[w] \cup {o \in passed : Endorses(o, w)}
        <5> HIDE DEF passed, endorsers
        <5> QED BY <1>7, <1>10, <2>4, <3>1
      <4> HIDE DEF passed, endorsers
      <4> QED BY <4>1, <4>2, <4>3
    <3>4. B \in SUBSET Witness
      <4> HIDE DEF endorsers
      <4> QED BY <1>7, <2>4, <3>1
    <3>5. IsFiniteSet(B) /\ Cardinality(B) \in Nat /\ Cardinality(A) \in Nat
      BY <3>3, <3>4, WitnessSets
    <3>6. Cardinality(A) <= Cardinality(B)
      BY <3>3, <3>5, FS_Subset
    <3> QED BY <3>1, <3>2, <3>5, <3>6, Thresholds
  <2> QED BY <2>3, <2>4 DEF LeftOut
<1>11. acc.peers \subseteq next.peers
  <2> HIDE DEF worth, isEndorsed
  <2> QED BY <1>8
<1>12. \A u \in WithEndorsers \ {w} : next.endorsers[u] = acc.endorsers[u]
  <2> HIDE DEF endorsers
  <2> QED BY <1>7, <1>8
<1> QED BY <1>9, <1>10, <1>11, <1>12

(* Passes is what its definition says.                                     *)
LEMMA PassesFollow ==
  ASSUME HistoryInvariant, RunInvariant, NEW order \in Orders,
         NEW n, n = Cardinality(WithHead)
  PROVE  /\ n \in Nat
         /\ Passes(order)[0] = [endorsers |-> CollectedEndorsers, peers |-> Witness \ WithHead]
         /\ Passes(order) \in [0..n -> Found]
         /\ \A i \in 1..n : Passes(order)[i] = Prioritize(Passes(order)[i - 1], order[i], order)
<1> DEFINE first == [endorsers |-> CollectedEndorsers, peers |-> Witness \ WithHead]
           step == [i \in 1..n |-> [acc \in Found |-> Prioritize(acc, order[i], order)]]
           IsPasses(f) == f = [i \in 0..n |->
                                 IF i = 0 THEN first
                                 ELSE Prioritize(f[i - 1], order[i], order)]
<1>1. WithHead \in SUBSET Witness /\ order \in [1..n -> WithHead]
  BY HeadsInView DEF Orders, Bijection, Injection
<1>2. n \in Nat
  BY <1>1, WitnessSets
<1>3. first \in Found
  <2>1. CollectedEndorsers \in [WithEndorsers -> SUBSET Witness]
    <3>1. \A w \in WithEndorsers : CollectedEndorsers[w] \in SUBSET Witness
      BY EndorsersOfHead
    <3>2. CollectedEndorsers = [w \in WithEndorsers |-> CollectedEndorsers[w]]
      BY DEF CollectedEndorsers
    <3> QED BY <3>1, <3>2
  <2> QED BY <2>1 DEF Found
<1>4. \A i \in 1..n : \A acc \in Found : Prioritize(acc, order[i], order) \in Found
  <2> SUFFICES ASSUME NEW i \in 1..n, NEW acc \in Found
               PROVE  Prioritize(acc, order[i], order) \in Found
    OBVIOUS
  <2>1. order[i] \in WithHead
    BY <1>1
  <2> QED BY <2>1, PassOfWitness
<1>5. step \in [1..n -> [Found -> Found]]
  BY <1>4
<1>6. \A i \in 1..n, acc \in Found : step[i][acc] = Prioritize(acc, order[i], order)
  OBVIOUS
<1>7. PICK f \in [0..n -> Found] : IsRecursion(f, n, first, step)
  <2> HIDE DEF first, step
  <2> QED BY <1>2, <1>3, <1>5, RecursionExists
<1>8. \A i \in 1..n : f[i] = Prioritize(f[i - 1], order[i], order)
  <2> SUFFICES ASSUME NEW i \in 1..n
               PROVE  f[i] = Prioritize(f[i - 1], order[i], order)
    OBVIOUS
  <2>1. i - 1 \in 0..n
    BY <1>2
  <2>2. f[i - 1] \in Found
    BY <2>1
  <2> HIDE DEF first, step
  <2> QED BY <1>6, <1>7, <2>2 DEF IsRecursion
<1>9. IsPasses(f)
  <2>1. \A i \in 0..n : i = 0 \/ i \in 1..n
    BY <1>2
  <2>2. \A i \in 0..n :
          f[i] = IF i = 0 THEN first ELSE Prioritize(f[i - 1], order[i], order)
    <3> HIDE DEF first, step
    <3> QED BY <1>7, <1>8, <2>1, Zenon DEF IsRecursion
  <2>3. f = [i \in 0..n |-> f[i]]
    OBVIOUS
  <2> HIDE DEF first, step
  <2> QED BY <2>2, <2>3, Zenon
<1>10. IsPasses(Passes(order))
  <2>1. Passes(order) = CHOOSE g : IsPasses(g)
    BY DEF Passes
  <2> HIDE DEF IsPasses
  <2> QED BY <1>9, <2>1, Zenon
<1>11. \A i \in 0..n :
         Passes(order)[i] = IF i = 0 THEN first
                            ELSE Prioritize(Passes(order)[i - 1], order[i], order)
  <2> HIDE DEF first
  <2> QED BY <1>10
<1>12. Passes(order)[0] = first
  <2>1. 0 \in 0..n
    BY <1>2
  <2> HIDE DEF first
  <2> QED BY <1>11, <2>1, Zenon
<1>13. \A i \in 1..n : Passes(order)[i] = Prioritize(Passes(order)[i - 1], order[i], order)
  <2>1. \A i \in 1..n : i \in 0..n /\ i # 0
    BY <1>2
  <2> HIDE DEF first
  <2> QED BY <1>11, <2>1, Zenon
<1>14. Passes(order) \in [0..n -> Found]
  <2> DEFINE S == {i \in 0..n : Passes(order)[i] \in Found}
  <2>1. 0 \in S
    BY <1>2, <1>3, <1>12
  <2>2. ASSUME NEW i \in 0..(n - 1), i \in S
        PROVE  i + 1 \in S
    <3>1. i + 1 \in 1..n /\ (i + 1) - 1 = i /\ i + 1 \in 0..n
      BY <1>2
    <3>2. Passes(order)[i + 1] = Prioritize(Passes(order)[i], order[i + 1], order)
      BY <1>13, <3>1
    <3> QED BY <1>4, <2>2, <3>1, <3>2
  <2>3. 0..n \subseteq S
    <3> HIDE DEF S
    <3> QED BY <1>2, <2>1, <2>2, IntervalInduction
  <2>4. \A i \in 0..n : Passes(order)[i] \in Found
    BY <2>3
  <2>5. Passes(order) = [i \in 0..n |-> Passes(order)[i]]
    <3> HIDE DEF first
    <3> QED BY <1>10
  <2> QED BY <2>4, <2>5
<1> QED BY <1>2, <1>12, <1>13, <1>14

(* Whoever is not among the priority peers has been passed over for good   *)
(* reason, and there are more than f of them.                              *)
LEMMA ReportedPeers ==
  ASSUME HistoryInvariant, RunInvariant, NEW order \in Orders
  PROVE  /\ PriorityPeers(order) \subseteq Witness
         /\ Cardinality(PriorityPeers(order)) > F
         /\ \A w \in Witness \ PriorityPeers(order) : LeftOut(w)
<1>1. PICK n : n = Cardinality(WithHead)
  OBVIOUS
<1>2. PICK p : p = Passes(order)
  OBVIOUS
<1>3. /\ n \in Nat /\ p \in [0..n -> Found]
      /\ p[0] = [endorsers |-> CollectedEndorsers, peers |-> Witness \ WithHead]
      /\ \A i \in 1..n : p[i] = Prioritize(p[i - 1], order[i], order)
  BY <1>1, <1>2, PassesFollow
<1>4. /\ order \in [1..n -> WithHead]
      /\ \A i, j \in 1..n : order[i] = order[j] => i = j
      /\ \A w \in WithHead : \E i \in 1..n : order[i] = w
  <2>1. /\ order \in [1..n -> WithHead] /\ IsInjective(order)
        /\ \A w \in WithHead : \E i \in 1..n : order[i] = w
    BY <1>1 DEF Orders, Bijection, Injection, Surjection
  <2>2. DOMAIN order = 1..n
    BY <2>1
  <2> QED BY <2>1, <2>2 DEF IsInjective
<1> DEFINE Untouched(i) == \A j \in (i + 1)..n : order[j] \in WithEndorsers =>
                             p[i].endorsers[order[j]] = CollectedEndorsers[order[j]]
           Sorted(i) == /\ Witness \ WithHead \subseteq p[i].peers
                        /\ \A j \in 1..i : order[j] \in p[i].peers \/ LeftOut(order[j])
           S == {i \in 0..n : Untouched(i) /\ Sorted(i)}
<1>5. 0 \in S
  <2>1. \A j \in 1..0 : FALSE
    OBVIOUS
  <2>2. p[0].endorsers = CollectedEndorsers /\ p[0].peers = Witness \ WithHead
    BY <1>3
  <2> QED BY <1>3, <2>1, <2>2
<1>6. ASSUME NEW i \in 0..(n - 1), i \in S
      PROVE  i + 1 \in S
  <2>1. PICK k : k = i + 1
    OBVIOUS
  <2>2. k \in 1..n /\ k - 1 = i /\ k \in 0..n /\ i \in 0..n /\ k \in (i + 1)..n
    BY <1>3, <2>1
  <2>3. PICK w : w = order[k]
    OBVIOUS
  <2>4. w \in WithHead /\ p[i] \in Found
    BY <1>3, <1>4, <2>2, <2>3
  <2>5. p[k] = Prioritize(p[i], w, order)
    BY <1>3, <2>2, <2>3
  <2>6. /\ p[i].peers \subseteq p[k].peers
        /\ \A u \in WithEndorsers \ {w} : p[k].endorsers[u] = p[i].endorsers[u]
        /\ (w \in WithEndorsers => p[i].endorsers[w] = CollectedEndorsers[w])
             => w \in p[k].peers \/ LeftOut(w)
    BY <2>4, <2>5, PassOfWitness
  <2>7. Untouched(i) /\ Sorted(i)
    BY <1>6
  <2>8. w \in p[k].peers \/ LeftOut(w)
    BY <2>2, <2>3, <2>6, <2>7
  <2>9. Untouched(k)
    <3> SUFFICES ASSUME NEW j \in (k + 1)..n, order[j] \in WithEndorsers
                 PROVE  p[k].endorsers[order[j]] = CollectedEndorsers[order[j]]
      OBVIOUS
    <3>1. j \in 1..n /\ j # k /\ j \in (i + 1)..n
      BY <2>1, <2>2
    <3>2. order[j] # w
      BY <1>4, <2>2, <2>3, <3>1
    <3> QED BY <2>6, <2>7, <3>1, <3>2
  <2>10. Sorted(k)
    <3>1. \A j \in 1..k : j = k \/ j \in 1..i
      BY <2>1, <2>2
    <3> QED BY <2>3, <2>6, <2>7, <2>8, <3>1
  <2> QED BY <2>1, <2>2, <2>9, <2>10
<1>7. n \in S
  <2>1. 0..n \subseteq S
    <3> HIDE DEF S
    <3> QED BY <1>3, <1>5, <1>6, IntervalInduction
  <2> HIDE DEF S
  <2> QED BY <1>3, <2>1
<1>8. PICK found : found = p[n].peers
  OBVIOUS
<1>9. found \in SUBSET Witness
  <2>1. p[n] \in Found
    BY <1>3
  <2> QED BY <1>8, <2>1 DEF Found
<1>10. ASSUME NEW w \in Witness \ found
       PROVE  LeftOut(w)
  <2>1. Sorted(n)
    BY <1>7
  <2>2. w \in WithHead
    BY <1>8, <2>1
  <2>3. PICK i \in 1..n : order[i] = w
    BY <1>4, <2>2
  <2> QED BY <1>8, <2>1, <2>3
<1>11. PriorityPeers(order) = IF Cardinality(found) <= F THEN Witness ELSE found
  BY <1>1, <1>2, <1>8 DEF PriorityPeers
<1>12. Cardinality(found) \in Nat /\ F \in Nat
  BY <1>9, WitnessSets, Thresholds
<1>13. Cardinality(Witness) > F
  <2>1. F = 1
    BY FourWitnesses DEF F, MaximumFailures
  <2> QED BY <2>1, FourWitnesses
<1> QED BY <1>9, <1>10, <1>11, <1>12, <1>13

-----------------------------------------------------------------------------
(* What a report says stays true while the history grows.                  *)
LEMMA GrowthKeepsReport ==
  ASSUME HistoryInvariant, RunInvariant, PriorityInvariant,
         [Next]_vars, UNCHANGED <<runVars, priority>>
  PROVE  PriorityInvariant'
<1>1. TypeOK /\ WellFormed
  BY DEF HistoryInvariant, InductiveInvariant
<1>2. UNCHANGED <<phase, view, pending, tried, runSupport, runProposal, endorsement,
                  marked, decider, priority>>
  BY DEF runVars
<1>3. ASSUME NEW w \in WithHead
      PROVE  seen'[HeadInView(w)] = seen[HeadInView(w)]
  <2>1. HeadInView(w) \in Events
    BY <1>1, HeadsInView, OnBranch
  <2> QED BY <1>1, <2>1, PastStays
<1>4. /\ WithHead' = WithHead /\ WithEndorsers' = WithEndorsers
      /\ \A w : HeadInView(w)' = HeadInView(w)
  BY <1>2 DEF WithHead, Tails, WithEndorsers, Waiting, HasEndorsedProposal, HeadInView
<1>5. ASSUME NEW w \in WithHead, LeftOut(w)
      PROVE  LeftOut(w)'
  <2>1. ASSUME NEW o \in WithHead \ {w}
        PROVE  NothingNew(w, o)'
    BY <1>2, <1>3, <1>5, <2>1
       DEF LeftOut, NothingNew, HasSeen, LastSeen, HeadInView, HasEndorsedProposal,
           WithHead, Tails
  <2>2. EndorsingHeads(w)' = EndorsingHeads(w)
    BY <1>2, <1>3, <1>4 DEF EndorsingHeads
  <2> QED BY <1>4, <1>5, <2>1, <2>2 DEF LeftOut
<1>6. \A w : LeftOut(w) => w \in WithHead
  BY DEF LeftOut
<1> QED BY <1>2, <1>5, <1>6 DEF PriorityInvariant

(* The history, the run and its report take their steps one at a time.     *)
LEMMA StepKeepsPriority ==
  HistoryInvariant /\ RunInvariant /\ PriorityInvariant
    /\ [PriorityStep]_<<vars, runVars, priority>>
  => HistoryInvariant' /\ RunInvariant' /\ PriorityInvariant'
<1> SUFFICES ASSUME HistoryInvariant, RunInvariant, PriorityInvariant,
                    [PriorityStep]_<<vars, runVars, priority>>
             PROVE  HistoryInvariant' /\ RunInvariant' /\ PriorityInvariant'
  OBVIOUS
<1>1. [RunStep]_<<vars, runVars>>
  BY DEF PriorityStep, PriorityNext, Report, RunStep
<1>2. HistoryInvariant' /\ RunInvariant'
  BY <1>1, StepKeepsRun
<1>3. CASE [Next]_vars /\ UNCHANGED <<runVars, priority>>
  BY <1>2, <1>3, GrowthKeepsReport
<1>4. CASE RunNext /\ UNCHANGED priority
  <2>1. phase # "done"
    BY <1>4 DEF RunNext, Start, Experiment, GiveUp
  <2>2. priority = {} /\ priority' = {}
    BY <1>4, <2>1 DEF PriorityInvariant
  <2> QED BY <1>2, <2>2 DEF PriorityInvariant
<1>5. CASE Report /\ UNCHANGED vars
  <2>1. PICK order \in Orders : priority' = PriorityPeers(order)
    BY <1>5 DEF Report
  <2>2. /\ priority' \subseteq Witness /\ Cardinality(priority') > F
        /\ \A w \in Witness \ priority' : LeftOut(w)
    BY <2>1, ReportedPeers
  <2>3. phase' = "done" /\ UNCHANGED <<vars, runVars>>
    BY <1>5 DEF Report, runVars
  <2>4. \A w : LeftOut(w)' <=> LeftOut(w)
    BY <2>3
       DEF LeftOut, NothingNew, HasSeen, LastSeen, HeadInView, HasEndorsedProposal, Waiting,
           WithHead, Tails, WithEndorsers, EndorsingHeads, vars, runVars
  <2> QED BY <1>2, <2>2, <2>3, <2>4 DEF PriorityInvariant
<1>6. \/ [Next]_vars /\ UNCHANGED <<runVars, priority>>
      \/ RunNext /\ UNCHANGED priority
      \/ Report /\ UNCHANGED vars
  BY DEF PriorityStep, PriorityNext
<1> QED BY <1>2, <1>3, <1>4, <1>5, <1>6

(* The run's invariant and what is said of its report hold in every        *)
(* reachable state.                                                        *)
THEOREM PriorityInvariantHolds ==
  PrioritySpec => [](HistoryInvariant /\ RunInvariant /\ PriorityInvariant)
<1>1. Init /\ PriorityInit => HistoryInvariant /\ RunInvariant /\ PriorityInvariant
  BY InitialRun DEF PriorityInit, PriorityInvariant
<1> QED
  BY <1>1, StepKeepsPriority, PTL DEF PrioritySpec

-----------------------------------------------------------------------------
(* The next event of a witness counts, and measures, as all others do.     *)
LEMMA SameCounting ==
  /\ \A S : Then!Cardinality(S) = Cardinality(S) /\ Then!LatestOf(S) = LatestOf(S)
  /\ Then!FPlusOne = FPlusOne /\ Then!SuperMajority = SuperMajority
<1>1. ASSUME NEW S
      PROVE  Then!Cardinality(S) = Cardinality(S)
  BY DEF Then!Cardinality, Cardinality
<1>2. ASSUME NEW S
      PROVE  Then!LatestOf(S) = LatestOf(S)
  BY DEF Then!LatestOf, LatestOf
<1>3. Then!FPlusOne = FPlusOne
  BY <1>1 DEF Then!FPlusOne, Then!F, Then!MaximumFailures, FPlusOne, F, MaximumFailures
<1>4. Then!SuperMajority = SuperMajority
  BY <1>1 DEF Then!SuperMajority, Then!Supermajority, SuperMajority, Supermajority
<1> QED BY <1>1, <1>2, <1>3, <1>4

(* If it merges all heads it sees the whole view, and if none, what the    *)
(* head of w has seen.                                                     *)
LEMMA AncestorsOfNext ==
  ASSUME HistoryInvariant, RunInvariant, NEW w \in WithHead,
         NEW m \in Node \ {w}
  PROVE  /\ Then!MostRecentAncestors(w, OtherHeads(w))[m] = view[m]
         /\ Then!MostRecentAncestors(w, {})[m] = seen[HeadInView(w)][m]
<1>1. /\ TypeOK /\ WellFormed /\ RunTypeOK /\ ViewReceived
  BY DEF HistoryInvariant, InductiveInvariant, RunInvariant
<1>2. PICK s : s = seen[HeadInView(w)][m]
  OBVIOUS
<1>3. s \in Generation /\ s \in Nat /\ s <= view[m]
  BY <1>2, HeadsInView, Generations
<1>4. view[m] \in Generation /\ view[m] \in Nat
  BY <1>1, Generations DEF RunTypeOK
<1>5. Then!HeadEvent(w) = HeadInView(w)
  BY DEF Then!HeadEvent, HeadInView
<1>6. ASSUME NEW parents
      PROVE  Then!MostRecentAncestors(w, parents)[m]
               = LatestOf({s} \cup {seen[p][m] : p \in parents}
                            \cup {p[2] : p \in {q \in parents : q[1] = m}})
  BY <1>2, <1>5, SameCounting DEF Then!MostRecentAncestors
<1>7. Then!MostRecentAncestors(w, {})[m] = s
  <2>1. {s} \cup {seen[p][m] : p \in {}} \cup {p[2] : p \in {q \in {} : q[1] = m}} = {s}
    OBVIOUS
  <2>2. Then!MostRecentAncestors(w, {})[m] = LatestOf({s})
    BY <1>6, <2>1
  <2>3. LatestOf({s}) \in {s}
    BY <1>3, LatestOfIsMaximum
  <2> QED BY <2>2, <2>3
<1>8. Then!MostRecentAncestors(w, OtherHeads(w))[m] = view[m]
  <2>1. PICK parents : parents = OtherHeads(w)
    OBVIOUS
  <2>2. PICK G : G = {s} \cup {seen[p][m] : p \in parents}
                       \cup {p[2] : p \in {q \in parents : q[1] = m}}
    OBVIOUS
  <2>3. ASSUME NEW p \in parents
        PROVE  /\ seen[p][m] \in Generation /\ seen[p][m] <= view[m]
               /\ p[1] = m => p[2] = view[m]
    <3>1. PICK n \in Node : p = <<n, view[n]>> /\ view[n] > 0
      BY <2>1 DEF OtherHeads, HeadInView
    <3>2. view[n] \in Generation
      BY <1>1 DEF RunTypeOK
    <3>3. p \in EventId
      BY <1>1, <3>1, <3>2, Generations
    <3>4. seen[p][m] \in Generation
      BY <1>1, <3>3, Generations
    <3> QED BY <1>1, <3>1, <3>4 DEF ViewReceived
  <2>4. G \subseteq Generation /\ G # {}
    BY <1>3, <1>4, <2>2, <2>3
  <2>5. \A g \in G : g <= view[m]
    BY <1>3, <1>4, <2>2, <2>3, Generations
  <2>6. view[m] \in G
    <3>1. CASE view[m] = 0
      BY <1>3, <2>2, <3>1
    <3>2. CASE view[m] > 0
      <4>1. <<m, view[m]>> \in parents
        BY <2>1, <3>2 DEF OtherHeads, HeadInView
      <4> QED BY <2>2, <4>1
    <3> QED BY <1>4, <3>1, <3>2
  <2>7. LatestOf(G) \in G /\ \A g \in G : g <= LatestOf(G)
    BY <2>4, LatestOfIsMaximum
  <2>8. LatestOf(G) = view[m]
    <3>1. PICK l, v : l = LatestOf(G) /\ v = view[m]
      OBVIOUS
    <3>2. l \in Generation /\ l <= v /\ v <= l
      BY <2>4, <2>5, <2>6, <2>7, <3>1
    <3>3. l \in Nat /\ v \in Nat
      BY <1>1, <1>4, <3>1, <3>2, Generations
    <3> QED BY <3>1, <3>2, <3>3
  <2> QED BY <1>6, <2>1, <2>2, <2>8
<1> QED BY <1>2, <1>7, <1>8

(* For a witness left out, those taking part in its next event, and what   *)
(* they take part with, have the same attributes, merging or not.          *)
LEMMA NothingToGain ==
  ASSUME HistoryInvariant, RunInvariant, NEW w, LeftOut(w),
         NEW a, a = Then!MostRecentAncestors(w, OtherHeads(w)),
         NEW b, b = Then!MostRecentAncestors(w, {})
  PROVE  /\ Then!Participants(a) = WithHead /\ Then!Participants(b) = WithHead
         /\ \A u \in WithHead :
              /\ Then!Latest(a, u) = HeadInView(u) /\ HeadInView(u) \in EventId
              /\ Then!Latest(b, u) = IF u = w THEN HeadInView(w) ELSE LastSeen(w, u)
              /\ Then!Latest(b, u) \in EventId
              /\ runSupport[Then!Latest(a, u)] = runSupport[Then!Latest(b, u)]
              /\ HasEndorsedProposal(Then!Latest(a, u))
                   = HasEndorsedProposal(Then!Latest(b, u))
<1>1. /\ TypeOK /\ WellFormed /\ RunTypeOK /\ w \in WithHead
  BY DEF HistoryInvariant, InductiveInvariant, RunInvariant, LeftOut
<1>2. a[w] = view[w] /\ b[w] = view[w] /\ w \in Witness /\ w \in Node
  BY <1>1, HeadsInView DEF Then!MostRecentAncestors
<1>3. \A m \in Node \ {w} : a[m] = view[m] /\ b[m] = seen[HeadInView(w)][m]
  BY <1>1, AncestorsOfNext
<1>4. \A m \in Witness : m \in Node
  BY <1>1, Generations
<1>5. Then!Participants(a) = WithHead
  BY <1>2, <1>3, <1>4 DEF Then!Participants, WithHead, Tails
<1>6. \A o \in WithHead \ {w} : seen[HeadInView(w)][o] > 0
  BY DEF LeftOut, NothingNew, HasSeen
<1>7. \A m \in Witness \ WithHead : m # w /\ ~(seen[HeadInView(w)][m] > 0)
  <2> SUFFICES ASSUME NEW m \in Witness \ WithHead
               PROVE  m # w /\ ~(seen[HeadInView(w)][m] > 0)
    OBVIOUS
  <2>1. m \in Node /\ ~(view[m] > 0)
    BY <1>4 DEF WithHead, Tails
  <2>2. /\ seen[HeadInView(w)][m] \in Nat /\ view[m] \in Nat
        /\ seen[HeadInView(w)][m] <= view[m]
    BY <1>1, <2>1, HeadsInView
  <2> QED BY <1>1, <2>1, <2>2
<1>8. Then!Participants(b) = WithHead
  <2>1. WithHead \subseteq Witness /\ view[w] > 0
    BY <1>1, HeadsInView
  <2>2. \A m \in Witness : b[m] > 0 <=> m \in WithHead
    BY <1>2, <1>3, <1>4, <1>6, <1>7, <2>1
  <2> QED BY <2>1, <2>2 DEF Then!Participants
<1>9. ASSUME NEW u \in WithHead
      PROVE  /\ Then!Latest(a, u) = HeadInView(u) /\ HeadInView(u) \in EventId
             /\ Then!Latest(b, u) = IF u = w THEN HeadInView(w) ELSE LastSeen(w, u)
             /\ Then!Latest(b, u) \in EventId
             /\ runSupport[Then!Latest(a, u)] = runSupport[Then!Latest(b, u)]
             /\ HasEndorsedProposal(Then!Latest(a, u)) = HasEndorsedProposal(Then!Latest(b, u))
  <2>1. u \in Node /\ u \in Witness /\ HeadInView(u) \in EventId /\ HeadInView(u) = <<u, view[u]>>
    BY HeadsInView
  <2>2. CASE u = w
    BY <1>2, <2>1, <2>2 DEF Then!Latest
  <2>3. CASE u # w
    <3>1. PICK x, y : x = HeadInView(u) /\ y = LastSeen(w, u)
      OBVIOUS
    <3>2. Then!Latest(a, u) = x /\ Then!Latest(b, u) = y
      BY <1>3, <2>1, <2>3, <3>1 DEF Then!Latest, LastSeen
    <3>3. x = <<u, view[u]>> /\ y = <<u, seen[HeadInView(w)][u]>>
      BY <2>1, <3>1 DEF LastSeen
    <3>4. seen[HeadInView(w)][u] \in Nat /\ seen[HeadInView(w)][u] <= view[u] /\ view[u] \in Nat
          /\ seen[HeadInView(w)][u] \in Generation
      BY <1>1, <2>1, HeadsInView, Generations
    <3>5. y \in EventId /\ x \in EventId /\ x[1] = y[1] /\ y[2] <= x[2] /\ y[2] \in Nat
          /\ x[2] \in Nat
      BY <1>1, <2>1, <3>1, <3>3, <3>4, Generations
    <3>6. y # x => /\ runSupport[x] = runSupport[y]
                   /\ runProposal[x] = runProposal[y]
                   /\ HasEndorsedProposal(x) => HasEndorsedProposal(y)
      BY <2>3, <3>1 DEF LeftOut, NothingNew
    <3>7. y # x /\ HasEndorsedProposal(y) => HasEndorsedProposal(x)
      <4> SUFFICES ASSUME y # x, HasEndorsedProposal(y)
                   PROVE  HasEndorsedProposal(x)
        OBVIOUS
      <4>1. PICK q : q = <<x[1], runProposal[x]>>
        OBVIOUS
      <4>2. runProposal[x] > 0 /\ q \in marked /\ y[2] >= endorsement[q]
        BY <3>5, <3>6, <4>1 DEF HasEndorsedProposal
      <4>3. endorsement[q] \in Nat
        <5>1. q \in EventId
          BY <1>1, <4>2 DEF RunTypeOK
        <5> QED BY <1>1, <5>1, Generations DEF RunTypeOK
      <4>4. x[2] >= endorsement[q]
        BY <3>5, <4>2, <4>3
      <4> QED BY <4>1, <4>2, <4>4 DEF HasEndorsedProposal
    <3>8. HasEndorsedProposal(x) = HasEndorsedProposal(y)
      <4>1. HasEndorsedProposal(x) \in BOOLEAN /\ HasEndorsedProposal(y) \in BOOLEAN
        BY DEF HasEndorsedProposal
      <4> QED BY <3>6, <3>7, <4>1
    <3> QED BY <2>3, <3>1, <3>2, <3>5, <3>6, <3>8
  <2> QED BY <2>2, <2>3
<1> QED BY <1>5, <1>8, <1>9

(* Its proposal is not endorsed by merging what it leaves out, unless that *)
(* is its head itself.                                                     *)
LEMMA NoEndorsement ==
  ASSUME HistoryInvariant, RunInvariant, NEW w, LeftOut(w), ~ProposesAtHead(w),
         NEW a, a = Then!MostRecentAncestors(w, OtherHeads(w)),
         NEW b, b = Then!MostRecentAncestors(w, {}), NEW S
  PROVE  Then!KeptEndorsed(w, a, S) = Then!KeptEndorsed(w, b, S)
<1>1. /\ TypeOK /\ WellFormed /\ AncestryClosed /\ RunTypeOK /\ w \in WithHead
  BY DEF HistoryInvariant, InductiveInvariant, RunInvariant, LeftOut
<1>2. PICK p : p = Then!KeptProposal(w, S)
  OBVIOUS
<1>3. /\ Then!HeadEvent(w) = HeadInView(w) /\ HeadInView(w) = <<w, view[w]>>
      /\ HeadInView(w) \in EventId
  BY <1>1, HeadsInView DEF Then!HeadEvent, HeadInView
<1>4. p > 0 => p = runProposal[HeadInView(w)]
  BY <1>2, <1>3 DEF Then!KeptProposal
<1>5. ASSUME NEW mra
      PROVE  Then!KeptEndorsed(w, mra, S)
               = (p > 0 /\ (HasEndorsedProposal(HeadInView(w))
                              \/ Cardinality(Then!Endorsers(w, mra, p)) >= SuperMajority))
  BY <1>2, <1>3, SameCounting DEF Then!KeptEndorsed, Then!EndorsementReached
<1>6. ASSUME p > 0, ~HasEndorsedProposal(HeadInView(w)),
             NEW mra \in {a, b}
      PROVE  ~(Cardinality(Then!Endorsers(w, mra, p)) >= SuperMajority)
  <2>1. w \in WithEndorsers
    <3>1. /\ runProposal[HeadInView(w)] \in Nat /\ view[w] \in Nat /\ view[w] > 0
          /\ runProposal[HeadInView(w)] <= view[w]
      BY <1>1, HeadsInView
    <3>2. runProposal[HeadInView(w)] # view[w] /\ runProposal[HeadInView(w)] > 0
      BY <1>4, <1>6, <3>1 DEF ProposesAtHead
    <3>3. runProposal[HeadInView(w)] < view[w]
      BY <3>1, <3>2
    <3> QED BY <1>1, <1>6, <3>2, <3>3 DEF WithEndorsers, Waiting
  <2>2. Cardinality(EndorsingHeads(w)) < SuperMajority
    BY <2>1 DEF LeftOut
  <2>3. Then!Endorsers(w, mra, p) \subseteq EndorsingHeads(w)
    <3> SUFFICES ASSUME NEW o \in Then!Endorsers(w, mra, p), o # w
                 PROVE  o \in WithHead /\ seen[HeadInView(o)][w] >= p
      BY <1>4, <1>6 DEF EndorsingHeads
    <3>1. o \in WithHead /\ seen[Then!Latest(mra, o)][w] >= p
      BY <1>6, NothingToGain DEF Then!Endorsers
    <3>2. CASE mra = a
      BY <3>1, <3>2, NothingToGain
    <3>3. CASE mra = b
      <4>1. PICK g, h : g = seen[HeadInView(w)][o] /\ h = view[o]
        OBVIOUS
      <4>2. Then!Latest(mra, o) = <<o, g>> /\ HeadInView(o) = <<o, h>>
        <5>1. Then!Latest(b, o) = LastSeen(w, o)
          BY <3>1, NothingToGain
        <5> QED BY <3>3, <4>1, <5>1 DEF LastSeen, HeadInView
      <4>3. o \in Node /\ h \in Nat /\ h <= head[o] /\ head[o] \in Nat /\ w \in Node
        BY <1>1, <3>1, <4>1, HeadsInView
      <4>4. g \in Nat /\ g <= h
        BY <1>1, <4>1, <4>3, HeadsInView
      <4>5. seen[<<o, g>>][w] <= seen[<<o, h>>][w]
        BY <1>1, <4>3, <4>4, BranchMonotone
      <4>6. <<o, g>> \in EventId /\ <<o, h>> \in EventId
        BY <1>1, <4>3, <4>4, Generations
      <4>7. seen[<<o, g>>][w] \in Nat /\ seen[<<o, h>>][w] \in Nat /\ p \in Nat
        BY <1>1, <1>4, <1>6, <4>3, <4>6, Generations, HeadsInView
      <4> QED BY <3>1, <4>2, <4>5, <4>7
    <3> QED BY <1>6, <3>2, <3>3
  <2>4. EndorsingHeads(w) \in SUBSET Witness
    BY <1>1, HeadsInView DEF EndorsingHeads
  <2>5. PICK A, B : A = Then!Endorsers(w, mra, p) /\ B = EndorsingHeads(w)
    OBVIOUS
  <2>6. A \subseteq B /\ B \in SUBSET Witness /\ Cardinality(B) < SuperMajority
    BY <2>2, <2>3, <2>4, <2>5
  <2>7. IsFiniteSet(B) /\ Cardinality(B) \in Nat /\ Cardinality(A) \in Nat
    BY <2>6, WitnessSets
  <2>8. Cardinality(A) <= Cardinality(B)
    BY <2>6, <2>7, FS_Subset
  <2> QED BY <2>5, <2>6, <2>7, <2>8, Thresholds
<1> QED
  <2>1. a \in {a, b} /\ b \in {a, b}
    OBVIOUS
  <2> QED BY <1>5, <1>6, <2>1

(* So merging makes no difference to its next event.                       *)
LEMMA SameOutcomes ==
  ASSUME HistoryInvariant, RunInvariant, NEW w, LeftOut(w), ~ProposesAtHead(w)
  PROVE  Outcomes(w, OtherHeads(w)) = Outcomes(w, {})
<1>1. PICK a, b : /\ a = Then!MostRecentAncestors(w, OtherHeads(w))
                  /\ b = Then!MostRecentAncestors(w, {})
  OBVIOUS
<1>2. /\ Then!Participants(a) = WithHead /\ Then!Participants(b) = WithHead
      /\ \A u \in WithHead :
           /\ Then!Latest(a, u) \in EventId /\ Then!Latest(b, u) \in EventId
           /\ runSupport[Then!Latest(a, u)] = runSupport[Then!Latest(b, u)]
           /\ HasEndorsedProposal(Then!Latest(a, u)) = HasEndorsedProposal(Then!Latest(b, u))
  BY <1>1, NothingToGain
<1>3. \A S : Then!KeptEndorsed(w, a, S) = Then!KeptEndorsed(w, b, S)
  BY <1>1, NoEndorsement
<1>4. \A S : Then!Supporters(a, S) = Then!Supporters(b, S)
  BY <1>2 DEF Then!Supporters
<1>5. Then!SetsSeen(a) = Then!SetsSeen(b)
  BY <1>2 DEF Then!SetsSeen
<1>6. \A k : Then!SetsWith(a, k) = Then!SetsWith(b, k)
  BY <1>4, <1>5 DEF Then!SetsWith
<1>7. Then!SupportChoices(w, a) = Then!SupportChoices(w, b)
  <2>1. PICK sets, strong, more :
          /\ sets = Then!SetsSeen(a) /\ sets = Then!SetsSeen(b)
          /\ strong = Then!SetsWith(a, Then!FPlusOne) /\ strong = Then!SetsWith(b, Then!FPlusOne)
          /\ more = Then!SetsWith(a, Then!FPlusOne + 1)
          /\ more = Then!SetsWith(b, Then!FPlusOne + 1)
    BY <1>5, <1>6, Zenon
  <2> QED BY <2>1 DEF Then!SupportChoices
<1>8. ASSUME NEW S
      PROVE  {u \in Then!Supporters(a, S) :
                [d \in EventId |-> HasEndorsedProposal(d)][Then!Latest(a, u)]}
               = {u \in Then!Supporters(b, S) :
                    [d \in EventId |-> HasEndorsedProposal(d)][Then!Latest(b, u)]}
  BY <1>2, <1>4 DEF Then!Supporters
<1>9. \A S : Then!Decides(w, a, S) = Then!Decides(w, b, S)
  BY <1>3, <1>8, Zenon DEF Then!Decides, Then!EndorsedCount
<1>10. \A S : Then!SupportCount(w, a, S) = Then!SupportCount(w, b, S)
  BY <1>4, Zenon DEF Then!SupportCount
<1>11. ASSUME NEW S
       PROVE  Then!NextProposal(w, a, S) = Then!NextProposal(w, b, S)
  <2>1. PICK d, c : /\ d = Then!Decides(w, a, S) /\ d = Then!Decides(w, b, S)
                    /\ c = Then!SupportCount(w, a, S) /\ c = Then!SupportCount(w, b, S)
    BY <1>9, <1>10
  <2> QED BY <2>1 DEF Then!NextProposal
<1> QED BY <1>1, <1>3, <1>7, <1>9, <1>11, Zenon DEF Outcomes

(* Nor does its next event endorse a proposal that its head does not.      *)
LEMMA NoneEndorsed ==
  ASSUME HistoryInvariant, RunInvariant, NEW w, LeftOut(w)
  PROVE  ~EndorsesOther(w)
<1>1. /\ TypeOK /\ RunTypeOK /\ WorkedInOrder /\ EndorsementsFound /\ w \in WithHead
  BY DEF HistoryInvariant, InductiveInvariant, RunInvariant, LeftOut
<1> SUFFICES ASSUME NEW o \in WithHead \ {w},
                    seen[HeadInView(w)][o] < runProposal[HeadInView(o)]
             PROVE  FALSE
  BY DEF EndorsesOther
<1>2. PICK g, x, y : g = seen[HeadInView(w)][o] /\ x = HeadInView(o) /\ y = LastSeen(w, o)
  OBVIOUS
<1>3. o \in Node /\ runProposal[x] \in Nat /\ runProposal[x] <= view[o] /\ x = <<o, view[o]>>
      /\ view[o] \in Nat
  BY <1>2, HeadsInView
<1>4. g \in Nat /\ g \in Generation /\ g <= view[o] /\ y = <<o, g>>
  BY <1>1, <1>2, <1>3, HeadsInView, Generations DEF LastSeen
<1>5. y # x
  BY <1>2, <1>3, <1>4
<1>6. runProposal[x] = runProposal[y]
  BY <1>2, <1>5 DEF LeftOut, NothingNew
<1>7. runProposal[y] <= g
  <2>1. y \in EventId /\ y[2] = g
    BY <1>1, <1>3, <1>4, Generations
  <2> QED BY <1>1, <2>1, ProposalBefore
<1> QED BY <1>2, <1>3, <1>4, <1>6, <1>7

(* _getPriorityPeers leaves no witness out that could bring a decision     *)
(* nearer: whenever merging the heads that a node knows would change what  *)
(* the next event of a witness supports, proposes, decides or has endorsed *)
(* (other than a proposal that is its head), or would endorse another's    *)
(* proposal, that witness is among the priority peers.                     *)
THEOREM HelpfulAreReported == PrioritySpec => []HelpfulIsPriority
<1>1. HistoryInvariant /\ RunInvariant /\ PriorityInvariant => HelpfulIsPriority
  <2> SUFFICES ASSUME HistoryInvariant, RunInvariant, PriorityInvariant,
                      priority # {}, NEW w \in Witness, w \notin priority
               PROVE  /\ ~(Outcomes(w, OtherHeads(w)) # Outcomes(w, {}) /\ ~ProposesAtHead(w))
                      /\ ~EndorsesOther(w)
    BY DEF HelpfulIsPriority
  <2>1. LeftOut(w)
    BY DEF PriorityInvariant
  <2> QED BY <2>1, SameOutcomes, NoneEndorsed
<1> QED
  BY <1>1, PriorityInvariantHolds, PTL

(* There are always more than f priority peers, so that one of them has    *)
(* not failed.                                                             *)
THEOREM PriorityOfOneCorrect ==
  PrioritySpec => [](priority # {} => priority \subseteq Witness /\ Cardinality(priority) > F)
<1>1. PriorityInvariant =>
        (priority # {} => priority \subseteq Witness /\ Cardinality(priority) > F)
  BY DEF PriorityInvariant
<1> QED
  BY <1>1, PriorityInvariantHolds, PTL
=============================================================================
