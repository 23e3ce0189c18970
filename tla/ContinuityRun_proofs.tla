------------------------ MODULE ContinuityRun_proofs ------------------------
(***************************************************************************)
(* Proofs about ContinuityRun, for every history of four witnesses and any *)
(* number of other nodes, every bound on it, and every view of it.         *)
(***************************************************************************)
EXTENDS ContinuityRun, Continuity_proofs, Induction

-----------------------------------------------------------------------------
(* Generations are numbers, and so is what has been seen.                  *)
LEMMA Generations ==
  ASSUME TypeOK
  PROVE  /\ Generation \subseteq Nat /\ 0 \in Generation
         /\ \A n \in Node : head[n] \in Generation /\ head[n] \in Nat
         /\ \A e \in EventId : \A m \in Node : seen[e][m] \in Generation /\ seen[e][m] \in Nat
         /\ \A g \in Nat : \A h \in Generation : g <= h => g \in Generation
         /\ \A n, g : <<n, g>> \in EventId <=> n \in Node /\ g \in Generation
         /\ \A n \in Witness : n \in Node
<1>1. Generation \subseteq Nat /\ 0 \in Generation
  BY BoundAssumption DEF Generation
<1>2. \A n \in Node : head[n] \in Generation
  BY DEF TypeOK
<1>3. \A e \in EventId : \A m \in Node : seen[e][m] \in Generation
  BY DEF TypeOK
<1>4. \A g \in Nat : \A h \in Generation : g <= h => g \in Generation
  BY BoundAssumption DEF Generation
<1>5. \A n, g : <<n, g>> \in EventId <=> n \in Node /\ g \in Generation
  BY DEF EventId
<1> QED BY <1>1, <1>2, <1>3, <1>4, <1>5, WitnessAssumption

(* What exists on a branch is numbered from 1 to its head.                 *)
LEMMA OnBranch ==
  ASSUME TypeOK, NEW n \in Node, NEW g \in Nat, 1 <= g, g <= head[n]
  PROVE  /\ <<n, g>> \in EventId /\ <<n, g>> \in Events
         /\ n \in Witness => <<n, g>> \in WitnessEvents
<1>1. <<n, g>> \in EventId
  BY Generations
<1>2. Exists(<<n, g>>)
  BY Generations DEF Exists
<1> QED BY <1>1, <1>2 DEF Events, WitnessEvents

(* And what exists has a number, and a tree parent on the same branch.     *)
LEMMA EventsOnBranch ==
  ASSUME TypeOK, NEW e \in Events
  PROVE  /\ e \in EventId /\ e = <<e[1], e[2]>> /\ e[1] \in Node
         /\ e[2] \in Generation /\ e[2] \in Nat /\ 1 <= e[2] /\ e[2] <= head[e[1]]
         /\ e[2] - 1 \in Nat /\ e[2] - 1 \in Generation
         /\ TreeParent(e) = <<e[1], e[2] - 1>> /\ TreeParent(e) \in EventId
<1>1. e \in EventId /\ Exists(e)
  BY DEF Events
<1>2. e = <<e[1], e[2]>> /\ e[1] \in Node /\ e[2] \in Generation
  BY <1>1 DEF EventId
<1>3. e[2] \in Nat /\ 1 <= e[2] /\ e[2] <= head[e[1]]
  BY <1>1, <1>2, Generations DEF Exists
<1>4. e[2] - 1 \in Nat /\ e[2] - 1 \in Generation
  BY <1>2, <1>3, Generations
<1> QED BY <1>1, <1>2, <1>3, <1>4, Generations DEF TreeParent

(* Each event of a branch has seen what the one before it has seen.        *)
LEMMA BranchMonotone ==
  ASSUME TypeOK, WellFormed, AncestryClosed,
         NEW n \in Node, NEW g \in Nat, NEW h \in Nat, g <= h, h <= head[n],
         NEW k \in Node
  PROVE  seen[<<n, g>>][k] <= seen[<<n, h>>][k]
<1> DEFINE S == {d \in Nat : g + d <= head[n] => seen[<<n, g>>][k] <= seen[<<n, g + d>>][k]}
<1>1. head[n] \in Nat /\ head[n] \in Generation
  BY Generations
<1>2. \A i \in Nat : i <= head[n] => <<n, i>> \in EventId /\ seen[<<n, i>>][k] \in Nat
  BY <1>1, Generations
<1>3. 0 \in S
  <2>1. g + 0 = g /\ g <= head[n]
    BY <1>1
  <2>2. seen[<<n, g>>][k] <= seen[<<n, g + 0>>][k]
    BY <1>2, <2>1
  <2> QED BY <2>2
<1>4. ASSUME NEW d \in 0..(h - g - 1), d \in S PROVE d + 1 \in S
  <2>1. d \in Nat /\ g + d \in Nat /\ g + (d + 1) = (g + d) + 1
    OBVIOUS
  <2> SUFFICES ASSUME (g + d) + 1 <= head[n]
               PROVE  seen[<<n, g>>][k] <= seen[<<n, (g + d) + 1>>][k]
    BY <2>1
  <2>2. PICK i \in Nat : i = g + d
    BY <2>1
  <2>3. i + 1 \in Nat /\ 1 <= i + 1 /\ i + 1 <= head[n] /\ i <= head[n] /\ (i + 1) - 1 = i
    BY <1>1, <2>2
  <2>4. <<n, i + 1>> \in Events
    BY <2>3, OnBranch
  <2>5. seen[<<n, i + 1>>][n] = i
    <3>1. seen[<<n, i + 1>>][<<n, i + 1>>[1]] = <<n, i + 1>>[2] - 1
      BY <2>4 DEF WellFormed
    <3> QED BY <2>3, <3>1
  <2>6. seen[<<n, i>>][k] <= seen[<<n, i + 1>>][k]
    BY <2>4, <2>5 DEF AncestryClosed
  <2>7. seen[<<n, g>>][k] <= seen[<<n, i>>][k]
    BY <1>4, <2>2, <2>3
  <2> QED BY <1>1, <1>2, <2>2, <2>3, <2>6, <2>7
<1> HIDE DEF S
<1>5. PICK d \in Nat : d = h - g
  OBVIOUS
<1>6. d \in S
  <2>1. \A i \in 0..(d - 1) : i \in S => i + 1 \in S
    BY <1>4, <1>5
  <2>2. 0..d \subseteq S
    BY <1>3, <2>1, IntervalInduction
  <2> QED BY <2>2
<1>7. g + d = h
  BY <1>5
<1> QED BY <1>6, <1>7 DEF S

-----------------------------------------------------------------------------
(* Whatever has seen more has seen more endorsers of a proposal.           *)
LEMMA EndorsersGrow ==
  ASSUME TypeOK, WellFormed, AncestryClosed,
         NEW n \in Node, NEW p \in Nat, p > 0,
         NEW less \in [Node -> Generation], NEW more \in [Node -> Generation],
         \A m \in Node : less[m] <= more[m] /\ more[m] <= head[m]
  PROVE  /\ Endorsers(n, less, p) \subseteq Endorsers(n, more, p)
         /\ n \in Witness /\ EndorsementReached(n, less, p) => EndorsementReached(n, more, p)
<1>1. ASSUME NEW w \in Endorsers(n, less, p), w # n
      PROVE  w \in Endorsers(n, more, p)
  <2>1. w \in Witness /\ w \in Node /\ less[w] > 0 /\ seen[<<w, less[w]>>][n] >= p
    BY <1>1, WitnessAssumption DEF Endorsers, Participants, Latest
  <2>2. PICK i \in Nat, j \in Nat : i = less[w] /\ j = more[w]
    BY <2>1, Generations
  <2>3. i <= j /\ j <= head[w] /\ i \in Generation /\ j \in Generation
    BY <2>1, <2>2
  <2>4. seen[<<w, i>>][n] <= seen[<<w, j>>][n]
    BY <2>1, <2>3, BranchMonotone
  <2>5. seen[<<w, i>>][n] \in Nat /\ seen[<<w, j>>][n] \in Nat
    BY <2>1, <2>3, Generations
  <2>6. seen[<<w, j>>][n] >= p /\ j > 0
    BY <2>1, <2>2, <2>3, <2>4, <2>5
  <2> QED BY <1>1, <2>1, <2>2, <2>6 DEF Endorsers, Participants, Latest
<1>2. n \in Endorsers(n, more, p)
  BY DEF Endorsers
<1>3. PICK A, B : A = Endorsers(n, less, p) /\ B = Endorsers(n, more, p)
  OBVIOUS
<1>4. A \subseteq B
  BY <1>1, <1>2, <1>3
<1>5. ASSUME n \in Witness, Cardinality(A) >= SuperMajority
      PROVE  Cardinality(B) >= SuperMajority
  <2>1. B \in SUBSET Witness
    BY <1>3, <1>5 DEF Endorsers, Participants
  <2>2. IsFiniteSet(B) /\ Cardinality(B) \in Nat /\ Cardinality(A) \in Nat
    BY <1>4, <2>1, WitnessSets
  <2>3. Cardinality(A) <= Cardinality(B)
    BY <1>4, <2>2, FS_Subset
  <2> QED BY <1>5, <2>2, <2>3, Thresholds
<1> QED BY <1>3, <1>4, <1>5 DEF EndorsementReached

(* What an event has seen, up to the heads.                                *)
LEMMA SeenOnBranch ==
  ASSUME TypeOK, WellFormed, AncestryClosed,
         NEW n \in Node, NEW g \in Nat, NEW h \in Nat, g <= h, h <= head[n]
  PROVE  /\ seen[<<n, g>>] \in [Node -> Generation] /\ seen[<<n, h>>] \in [Node -> Generation]
         /\ \A m \in Node : seen[<<n, g>>][m] <= seen[<<n, h>>][m] /\ seen[<<n, h>>][m] <= head[m]
<1>1. <<n, g>> \in EventId /\ <<n, h>> \in EventId
  BY Generations
<1>2. seen[<<n, g>>] \in [Node -> Generation] /\ seen[<<n, h>>] \in [Node -> Generation]
  BY <1>1 DEF TypeOK
<1>3. ASSUME NEW m \in Node
      PROVE  seen[<<n, h>>][m] <= head[m]
  <2>1. CASE h = 0
    <3>1. ~Exists(<<n, h>>)
      BY <2>1 DEF Exists
    <3>2. seen[<<n, h>>][m] = 0
      BY <1>1, <3>1 DEF WellFormed
    <3> QED BY <3>2, Generations
  <2>2. CASE 1 <= h
    <3>1. <<n, h>> \in Events
      BY <2>2, OnBranch
    <3> QED BY <3>1 DEF WellFormed
  <2> QED BY <2>1, <2>2
<1> QED BY <1>2, <1>3, BranchMonotone

(* Once endorsed, a proposal is so on the rest of its branch.              *)
LEMMA ReachedOnward ==
  ASSUME TypeOK, WellFormed, AncestryClosed,
         NEW n \in Witness, NEW p \in Nat, p > 0,
         NEW g \in Nat, NEW h \in Nat, g <= h, h <= head[n],
         Reached(<<n, p>>, g)
  PROVE  Reached(<<n, p>>, h)
<1>1. n \in Node
  BY WitnessAssumption
<1>2. EndorsementReached(n, seen[<<n, g>>], p)
  BY DEF Reached
<1>3. EndorsementReached(n, seen[<<n, h>>], p)
  BY <1>1, <1>2, SeenOnBranch, EndorsersGrow
<1> QED BY <1>3 DEF Reached

(* The walk of _findEndorsement collects what its last event has seen.     *)
LEMMA EndorsersCollected ==
  ASSUME TypeOK, WellFormed, AncestryClosed,
         NEW n \in Node, NEW p \in Nat, p > 0,
         NEW g \in Nat, p < g, g <= head[n]
  PROVE  EndorsersUpTo(<<n, p>>, g) = Endorsers(n, seen[<<n, g>>], p)
<1> DEFINE Found(h) == {w \in Participants(seen[<<n, h>>]) :
                          seen[Latest(seen[<<n, h>>], w)][n] >= p}
<1>1. \A h \in Nat : Endorsers(n, seen[<<n, h>>], p) \ {n} = Found(h) \ {n}
  BY DEF Endorsers
<1>2. \A h \in (p + 1)..g : Found(h) \subseteq Endorsers(n, seen[<<n, g>>], p)
  <2> SUFFICES ASSUME NEW h \in (p + 1)..g
               PROVE  Found(h) \subseteq Endorsers(n, seen[<<n, g>>], p)
    OBVIOUS
  <2>1. h \in Nat /\ h <= g
    OBVIOUS
  <2>2. Endorsers(n, seen[<<n, h>>], p) \subseteq Endorsers(n, seen[<<n, g>>], p)
    BY <2>1, SeenOnBranch, EndorsersGrow
  <2>3. n \in Endorsers(n, seen[<<n, g>>], p)
    BY DEF Endorsers
  <2> QED BY <1>1, <2>1, <2>2, <2>3
<1>3. g \in (p + 1)..g
  OBVIOUS
<1>4. EndorsersUpTo(<<n, p>>, g) = {n} \cup UNION {Found(h) : h \in (p + 1)..g}
  BY DEF EndorsersUpTo
<1>5. Endorsers(n, seen[<<n, g>>], p) = {n} \cup (Found(g) \ {n})
  BY <1>1 DEF Endorsers
<1> HIDE DEF Found
<1> QED BY <1>2, <1>3, <1>4, <1>5

(* _findEndorsement finds the first generation in view at which the        *)
(* proposal is endorsed, if there is one.                                  *)
LEMMA EndorsementFound ==
  ASSUME TypeOK, WellFormed, AncestryClosed,
         NEW n \in Witness, NEW p \in Nat, p > 0, p <= view[n], view[n] \in Nat, view[n] <= head[n],
         NEW f, f = FindEndorsement(<<n, p>>)
  PROVE  /\ f \in Nat
         /\ f > 0 => p < f /\ f <= view[n]
         /\ \A g \in (p + 1)..view[n] : Reached(<<n, p>>, g) <=> f > 0 /\ f <= g
<1> DEFINE reached == {g \in (p + 1)..view[n] :
                         Cardinality(EndorsersUpTo(<<n, p>>, g)) >= SuperMajority}
<1>1. n \in Node /\ head[n] \in Nat
  BY WitnessAssumption, Generations
<1>2. \A g \in (p + 1)..view[n] : Reached(<<n, p>>, g) <=> g \in reached
  <2> SUFFICES ASSUME NEW g \in (p + 1)..view[n]
               PROVE  Reached(<<n, p>>, g) <=> g \in reached
    OBVIOUS
  <2>1. g \in Nat /\ p < g /\ g <= head[n]
    BY <1>1
  <2>2. EndorsersUpTo(<<n, p>>, g) = Endorsers(n, seen[<<n, g>>], p)
    BY <1>1, <2>1, EndorsersCollected
  <2> QED BY <2>2 DEF Reached, EndorsementReached
<1>3. f = IF reached = {} THEN 0 ELSE CHOOSE g \in reached : \A h \in reached : g <= h
  BY DEF FindEndorsement
<1>4. CASE reached = {}
  BY <1>2, <1>3, <1>4
<1>5. CASE reached # {}
  <2>1. reached \in SUBSET Nat
    OBVIOUS
  <2>2. \E g \in reached : \A h \in reached : g <= h
    <3> HIDE DEF reached
    <3> QED BY <1>5, <2>1, LeastNumber
  <2>3. f \in reached /\ \A h \in reached : f <= h
    <3> HIDE DEF reached
    <3> QED BY <1>3, <1>5, <2>2
  <2>4. f \in Nat /\ f > 0 /\ p < f /\ f <= view[n]
    BY <2>3
  <2>5. ASSUME NEW g \in (p + 1)..view[n]
        PROVE  g \in reached <=> f <= g
    <3>1. g \in Nat /\ g <= head[n]
      BY <1>1
    <3>2. CASE f <= g
      <4>1. Reached(<<n, p>>, f)
        BY <1>2, <2>3, <2>4
      <4>2. Reached(<<n, p>>, g)
        BY <2>4, <3>1, <3>2, <4>1, ReachedOnward
      <4> QED BY <1>2, <3>2, <4>2
    <3> QED BY <2>3, <3>2
  <2> QED BY <1>2, <2>4, <2>5
<1> QED BY <1>4, <1>5

-----------------------------------------------------------------------------
(* What an event has seen, and what is known of that, does not change when *)
(* the history grows.                                                      *)
LEMMA TallyStays ==
  ASSUME TypeOK, NEW n \in Node, NEW parents, CreateEvent(n, parents),
         \A d \in EventId \ {<<n, head[n] + 1>>} :
           support'[d] = support[d] /\ endorsed'[d] = endorsed[d],
         NEW mra \in [Node -> Generation], \A m \in Node : mra[m] <= head[m]
  PROVE  /\ \A S : Supporters(mra, S)' = Supporters(mra, S)
         /\ SetsSeen(mra)' = SetsSeen(mra)
         /\ SetsWith(mra, FPlusOne)' = SetsWith(mra, FPlusOne)
         /\ \A S : {w \in Supporters(mra, S)' : endorsed'[Latest(mra, w)]}
                     = {w \in Supporters(mra, S) : endorsed[Latest(mra, w)]}
<1>1. ASSUME NEW u \in Participants(mra)
      PROVE  /\ support'[Latest(mra, u)] = support[Latest(mra, u)]
             /\ endorsed'[Latest(mra, u)] = endorsed[Latest(mra, u)]
  <2>1. u \in Node /\ mra[u] \in Generation /\ mra[u] <= head[u]
    BY WitnessAssumption DEF Participants
  <2>2. head[u] \in Nat /\ mra[u] \in Nat
    BY <2>1, Generations
  <2>3. Latest(mra, u) # <<n, head[n] + 1>>
    BY <2>1, <2>2 DEF Latest
  <2>4. Latest(mra, u) \in EventId
    BY <2>1, Generations DEF Latest
  <2> QED BY <2>3, <2>4
<1>2. \A S : Supporters(mra, S)' = Supporters(mra, S)
  BY <1>1 DEF Supporters, Latest, Participants
<1>3. SetsSeen(mra)' = SetsSeen(mra)
  BY <1>1 DEF SetsSeen, Latest, Participants
<1>4. SetsWith(mra, FPlusOne)' = SetsWith(mra, FPlusOne)
  BY <1>2, <1>3 DEF SetsWith
<1>5. ASSUME NEW S
      PROVE  {w \in Supporters(mra, S)' : endorsed'[Latest(mra, w)]}
               = {w \in Supporters(mra, S) : endorsed[Latest(mra, w)]}
  <2>1. \A w \in Supporters(mra, S) : endorsed'[Latest(mra, w)] = endorsed[Latest(mra, w)]
    BY <1>1 DEF Supporters
  <2> QED BY <1>2, <2>1
<1> QED BY <1>2, <1>3, <1>4, <1>5

(* Nor does where a proposal has been endorsed.                            *)
LEMMA EndorsersStay ==
  ASSUME TypeOK, WellFormed, NEW n \in Node, NEW parents, CreateEvent(n, parents),
         NEW m \in Node, NEW p,
         NEW mra \in [Node -> Generation], \A k \in Node : mra[k] <= head[k]
  PROVE  EndorsementReached(m, mra, p)' <=> EndorsementReached(m, mra, p)
<1>1. ASSUME NEW w \in Participants(mra)
      PROVE  seen'[Latest(mra, w)] = seen[Latest(mra, w)]
  <2>1. w \in Node /\ mra[w] \in Generation /\ mra[w] <= head[w]
    BY WitnessAssumption DEF Participants
  <2>2. head[w] \in Nat /\ mra[w] \in Nat
    BY <2>1, Generations
  <2>3. Latest(mra, w) \in EventId \ {<<n, head[n] + 1>>}
    BY <2>1, <2>2, Generations DEF Latest
  <2> QED BY <2>3, EventCreated
<1>2. Endorsers(m, mra, p)' = Endorsers(m, mra, p)
  BY <1>1 DEF Endorsers, Participants, Latest
<1> QED BY <1>2 DEF EndorsementReached

(* An event that exists has reached its endorsement or has not, whatever   *)
(* is created after it.                                                    *)
LEMMA ReachedStays ==
  ASSUME TypeOK, WellFormed, NEW n \in Node, NEW parents, CreateEvent(n, parents),
         NEW m \in Node, NEW p, NEW g \in Nat, 1 <= g, g <= head[m]
  PROVE  Reached(<<m, p>>, g)' <=> Reached(<<m, p>>, g)
<1>1. <<m, g>> \in Events /\ <<m, g>> \in EventId
  BY OnBranch
<1>2. <<m, g>> # <<n, head[n] + 1>>
  BY Generations
<1>3. PICK v : v = seen[<<m, g>>]
  OBVIOUS
<1>4. seen'[<<m, g>>] = v
  BY <1>1, <1>2, <1>3, EventCreated
<1>5. v \in [Node -> Generation] /\ \A k \in Node : v[k] <= head[k]
  BY <1>1, <1>3 DEF TypeOK, WellFormed
<1>6. EndorsementReached(m, v, p)' <=> EndorsementReached(m, v, p)
  BY <1>5, EndorsersStay
<1> QED BY <1>3, <1>4, <1>6 DEF Reached

(* What the settling of an old event was said of stays.                    *)
LEMMA SettledStays ==
  ASSUME TypeOK, WellFormed, ProposalsKeepSupport,
         NEW n \in Node, NEW parents, CreateEvent(n, parents),
         \A d \in EventId \ {<<n, head[n] + 1>>} :
           /\ support'[d] = support[d] /\ endorsed'[d] = endorsed[d]
           /\ proposal'[d] = proposal[d],
         NEW d \in WitnessEvents
  PROVE  /\ CarriedOn(d)' = CarriedOn(d)
         /\ EndorsedHere(d)' <=> EndorsedHere(d)
         /\ Backing(d)' = Backing(d)
         /\ EndorsedBacking(d)' = EndorsedBacking(d)
         /\ SetsSeen(seen[d])' = SetsSeen(seen[d])
         /\ SetsWith(seen[d], FPlusOne)' = SetsWith(seen[d], FPlusOne)
         /\ TreeParent(d) \in EventId \ {<<n, head[n] + 1>>}
<1> DEFINE e == <<n, head[n] + 1>>
<1>1. d \in Events /\ d[1] \in Witness
  BY DEF WitnessEvents
<1>2. /\ d \in EventId /\ d = <<d[1], d[2]>> /\ d[1] \in Node
      /\ d[2] \in Generation /\ d[2] \in Nat /\ 1 <= d[2] /\ d[2] <= head[d[1]]
      /\ d[2] - 1 \in Nat /\ d[2] - 1 \in Generation
      /\ TreeParent(d) = <<d[1], d[2] - 1>> /\ TreeParent(d) \in EventId
  BY <1>1, EventsOnBranch
<1>3. head[d[1]] \in Nat
  BY <1>2, Generations
<1>4. \A g \in Nat : g <= d[2] => <<d[1], g>> \in EventId \ {e}
  <2> SUFFICES ASSUME NEW g \in Nat, g <= d[2] PROVE <<d[1], g>> \in EventId \ {e}
    OBVIOUS
  <2>1. <<d[1], g>> \in EventId
    BY <1>2, Generations
  <2>2. g < head[d[1]] + 1
    BY <1>2, <1>3
  <2>3. <<d[1], g>> # e
    BY <1>3, <2>2
  <2> QED BY <2>1, <2>3
<1>5. d \in EventId \ {e} /\ TreeParent(d) \in EventId \ {e}
  <2>1. d[2] <= d[2] /\ d[2] - 1 <= d[2]
    BY <1>2
  <2>2. <<d[1], d[2]>> \in EventId \ {e} /\ <<d[1], d[2] - 1>> \in EventId \ {e}
    BY <1>2, <1>4, <2>1
  <2> QED BY <1>2, <2>2, Zenon
<1>6. PICK v : v = seen[d]
  OBVIOUS
<1>7. seen'[d] = v
  BY <1>5, <1>6, EventCreated
<1>8. v \in [Node -> Generation] /\ \A k \in Node : v[k] <= head[k]
  BY <1>1, <1>2, <1>6 DEF TypeOK, WellFormed
<1>9. /\ \A S : Supporters(v, S)' = Supporters(v, S)
      /\ SetsSeen(v)' = SetsSeen(v)
      /\ SetsWith(v, FPlusOne)' = SetsWith(v, FPlusOne)
      /\ \A S : {w \in Supporters(v, S)' : endorsed'[Latest(v, w)]}
                  = {w \in Supporters(v, S) : endorsed[Latest(v, w)]}
  BY <1>8, TallyStays
<1>10. PICK p : p = proposal[TreeParent(d)]
  OBVIOUS
<1>11. p \in Nat /\ p <= d[2]
  <2>1. proposal[TreeParent(d)] \in Generation /\ p \in Nat
    BY <1>2, <1>10, Generations DEF TypeOK
  <2>2. CASE d[2] = 1
    <3>1. ~Exists(TreeParent(d))
      BY <1>2, <2>2 DEF Exists
    <3>2. p = 0
      BY <1>2, <1>10, <3>1 DEF WellFormed
    <3> QED BY <1>2, <3>2
  <2>3. CASE d[2] # 1
    <3>1. 1 <= d[2] - 1 /\ d[2] - 1 <= head[d[1]]
      BY <1>2, <1>3, <2>3
    <3>2. TreeParent(d) \in WitnessEvents
      BY <1>1, <1>2, <3>1, OnBranch
    <3>3. p > 0 => p <= TreeParent(d)[2]
      BY <1>10, <3>2 DEF ProposalsKeepSupport
    <3>4. TreeParent(d)[2] = d[2] - 1
      BY <1>2
    <3> QED BY <1>2, <2>1, <3>3, <3>4
  <2> QED BY <2>2, <2>3
<1>12. CarriedOn(d)' = CarriedOn(d)
  <2>1. <<d[1], p>> \in EventId \ {e}
    BY <1>4, <1>11
  <2>2. /\ proposal'[TreeParent(d)] = p
        /\ support'[<<d[1], p>>] = support[<<d[1], p>>]
        /\ support'[d] = support[d]
    BY <1>5, <1>10, <2>1, Zenon
  <2>3. TreeParent(d)' = TreeParent(d)
    BY DEF TreeParent
  <2> QED BY <1>10, <2>2, <2>3, Zenon DEF CarriedOn
<1>13. EndorsedHere(d)' <=> EndorsedHere(d)
  <2>1. PICK c : c = CarriedOn(d)
    OBVIOUS
  <2>2. CarriedOn(d)' = c
    BY <1>12, <2>1
  <2>3. Reached(<<d[1], c>>, d[2])' <=> Reached(<<d[1], c>>, d[2])
    BY <1>2, ReachedStays
  <2>4. TreeParent(d)' = TreeParent(d) /\ endorsed'[TreeParent(d)] = endorsed[TreeParent(d)]
    BY <1>5 DEF TreeParent
  <2> QED BY <2>1, <2>2, <2>3, <2>4 DEF EndorsedHere
<1>14. PICK s : s = support[d]
  OBVIOUS
<1>15. support'[d] = s /\ support'[TreeParent(d)] = support[TreeParent(d)]
  BY <1>5, <1>14
<1>16. Backing(d)' = Backing(d)
  <2>1. Supporters(v, s)' = Supporters(v, s)
    BY <1>9
  <2> QED BY <1>6, <1>7, <1>14, <1>15, <2>1 DEF Backing, TreeParent
<1>17. EndorsedBacking(d)' = EndorsedBacking(d)
  <2>1. {w \in Supporters(v, s)' : endorsed'[Latest(v, w)]}
          = {w \in Supporters(v, s) : endorsed[Latest(v, w)]}
    BY <1>9
  <2>2. EndorsedBacking(d)
          = Cardinality({w \in Supporters(v, s) : endorsed[Latest(v, w)]})
              + (IF EndorsedHere(d) THEN 1 ELSE 0)
    BY <1>6, <1>14 DEF EndorsedBacking
  <2>3. EndorsedBacking(d)'
          = Cardinality({w \in Supporters(v, s)' : endorsed'[Latest(v, w)]})
              + (IF EndorsedHere(d)' THEN 1 ELSE 0)
    BY <1>7, <1>15 DEF EndorsedBacking, Latest
  <2> QED BY <1>13, <2>1, <2>2, <2>3
<1>18. /\ SetsSeen(seen[d])' = SetsSeen(seen[d])
       /\ SetsWith(seen[d], FPlusOne)' = SetsWith(seen[d], FPlusOne)
  BY <1>6, <1>7, <1>9
<1> QED BY <1>5, <1>12, <1>13, <1>16, <1>17, <1>18

(* What a witness's new event settles on, read from what it has seen.      *)
LEMMA NewEventSettled ==
  ASSUME InductiveInvariant, EndorsedOnceReached, Cardinality(Witness) = 4,
         NEW n \in Node, NEW parents \in ParentSets(n), MergeWitness(n, parents),
         NEW e, e = <<n, head[n] + 1>>
  PROVE  /\ SetsWith(seen[e], FPlusOne)' = {} =>
              support'[e] = (UNION (SetsSeen(seen[e])')) \cup (IF e[2] = 1 THEN {e[1]} ELSE {})
         /\ decision'[e] <=> EndorsedBacking(e)' >= FPlusOne
         /\ endorsed'[e] <=>
              CarriedOn(e)' > 0 /\ (endorsed'[TreeParent(e)] \/ EndorsedHere(e)')
         /\ proposal'[e] =
              IF decision'[e] THEN 0
              ELSE IF CarriedOn(e)' > 0 THEN CarriedOn(e)'
              ELSE IF Backing(e)' >= SuperMajority THEN e[2] ELSE 0
         /\ proposal'[e] > 0 =>
              (endorsed'[e] <=>
                proposal'[e] < e[2] /\ Reached(<<e[1], proposal[e]>>, e[2])')
<1>1. /\ TypeOK /\ WellFormed /\ AncestryClosed /\ ProposalsKeepSupport
      /\ n \in Witness /\ CreateEvent(n, parents)
  BY DEF InductiveInvariant, MergeWitness
<1>2. /\ e \in EventId /\ e[1] = n /\ e[2] = head[n] + 1
      /\ head[n] \in Nat /\ head[n] + 1 \in Generation
      /\ seen'[e] = MostRecentAncestors(n, parents)
  BY <1>1, EventCreated, Generations
<1>3. PICK mra : mra = MostRecentAncestors(n, parents)
  OBVIOUS
<1>4. /\ mra \in [Node -> Generation] /\ \A m \in Node : mra[m] <= head[m]
      /\ \A k \in Node : seen[HeadEvent(n)][k] <= mra[k]
  BY <1>1, <1>3, AncestorVector
<1>5. PICK S \in SupportChoices(n, mra) :
        /\ support' = [support EXCEPT ![e] = S]
        /\ decision' = [decision EXCEPT ![e] = Decides(n, mra, S)]
        /\ endorsed' = [endorsed EXCEPT ![e] = KeptEndorsed(n, mra, S)]
        /\ proposal' = [proposal EXCEPT ![e] = NextProposal(n, mra, S)]
  BY <1>3 DEF MergeWitness
<1>6. /\ support'[e] = S /\ decision'[e] = Decides(n, mra, S)
      /\ endorsed'[e] = KeptEndorsed(n, mra, S) /\ proposal'[e] = NextProposal(n, mra, S)
      /\ \A d \in EventId \ {e} : /\ support'[d] = support[d] /\ endorsed'[d] = endorsed[d]
                                  /\ proposal'[d] = proposal[d]
  BY <1>1, <1>2, <1>5 DEF TypeOK
<1>7. HeadEvent(n) = <<n, head[n]>> /\ TreeParent(e) = HeadEvent(n)
  BY <1>2 DEF HeadEvent, TreeParent
<1>8. HeadEvent(n) \in EventId \ {e}
  BY <1>1, <1>2, <1>7, Generations
<1>9. PICK p : p = proposal[HeadEvent(n)]
  OBVIOUS
<1>10. /\ p \in Nat /\ p <= head[n]
       /\ p > 0 => HeadEvent(n) \in WitnessEvents
  <2>1. p \in Nat
    BY <1>1, <1>8, <1>9, Generations DEF TypeOK
  <2>2. CASE head[n] = 0
    <3>1. ~Exists(HeadEvent(n))
      BY <1>7, <2>2 DEF Exists
    <3>2. p = 0
      BY <1>1, <1>8, <1>9, <3>1 DEF WellFormed
    <3> QED BY <2>1, <2>2, <3>2
  <2>3. CASE head[n] # 0
    <3>1. HeadEvent(n) \in WitnessEvents
      BY <1>1, <1>2, <1>7, <2>3, OnBranch
    <3>2. HeadEvent(n)[2] = head[n]
      BY <1>7
    <3>3. p > 0 => p <= HeadEvent(n)[2]
      BY <1>1, <1>9, <3>1 DEF ProposalsKeepSupport
    <3> QED BY <1>2, <2>1, <3>1, <3>2, <3>3
  <2> QED BY <2>2, <2>3
<1>11. PICK kept : kept = KeptProposal(n, S)
  OBVIOUS
<1>12. CarriedOn(e)' = kept /\ kept \in Nat /\ (kept > 0 => kept = p)
  <2>1. <<n, p>> # e /\ <<n, p>> \in EventId
    BY <1>1, <1>2, <1>10, Generations
  <2>2. support'[<<n, p>>] = support[<<n, p>>]
    BY <1>6, <2>1
  <2>3. proposal'[TreeParent(e)] = p /\ TreeParent(e)' = TreeParent(e)
    BY <1>6, <1>7, <1>8, <1>9 DEF TreeParent
  <2>4. kept = IF p > 0 /\ support[<<n, p>>] = S THEN p ELSE 0
    BY <1>9, <1>11 DEF KeptProposal
  <2>5. CarriedOn(e)' = IF p > 0 /\ support[<<n, p>>] = S THEN p ELSE 0
    BY <1>2, <1>6, <2>2, <2>3 DEF CarriedOn
  <2> QED BY <1>10, <2>4, <2>5
<1>13. /\ Reached(<<e[1], kept>>, e[2])' <=> EndorsementReached(n, mra, kept)
       /\ endorsed'[TreeParent(e)] = endorsed[HeadEvent(n)]
  <2>1. EndorsementReached(n, mra, kept)' <=> EndorsementReached(n, mra, kept)
    BY <1>1, <1>4, EndorsersStay
  <2>2. <<e[1], e[2]>> = e
    BY <1>2
  <2> QED BY <1>2, <1>3, <1>6, <1>7, <1>8, <2>1, <2>2 DEF Reached
<1>14. EndorsedHere(e)' <=>
         kept > 0 /\ ~endorsed[HeadEvent(n)] /\ EndorsementReached(n, mra, kept)
  BY <1>12, <1>13 DEF EndorsedHere, TreeParent
<1>15. KeptEndorsed(n, mra, S) <=>
         kept > 0 /\ (endorsed[HeadEvent(n)] \/ EndorsementReached(n, mra, kept))
  BY <1>11 DEF KeptEndorsed
<1>16. /\ \A T : Supporters(mra, T)' = Supporters(mra, T)
       /\ SetsSeen(mra)' = SetsSeen(mra)
       /\ SetsWith(mra, FPlusOne)' = SetsWith(mra, FPlusOne)
       /\ \A T : {w \in Supporters(mra, T)' : endorsed'[Latest(mra, w)]}
                   = {w \in Supporters(mra, T) : endorsed[Latest(mra, w)]}
  <2>1. \A d \in EventId \ {<<n, head[n] + 1>>} :
          support'[d] = support[d] /\ endorsed'[d] = endorsed[d]
    BY <1>6
  <2> QED BY <1>1, <1>4, <2>1, TallyStays
<1>17. EndorsedBacking(e)' = EndorsedCount(n, mra, S)
  <2>1. EndorsedHere(e)' <=> KeptEndorsed(n, mra, S) /\ ~endorsed[HeadEvent(n)]
    BY <1>14, <1>15
  <2>2. EndorsedBacking(e)' =
          Cardinality({w \in Supporters(mra, S)' : endorsed'[Latest(mra, w)]})
            + (IF EndorsedHere(e)' THEN 1 ELSE 0)
    BY <1>2, <1>3, <1>6 DEF EndorsedBacking, Latest
  <2> QED BY <1>16, <2>1, <2>2 DEF EndorsedCount
<1>18. Backing(e)' = SupportCount(n, mra, S)
  <2>1. Supporters(mra, S)' = Supporters(mra, S)
    BY <1>16
  <2>2. e[2] = 1 <=> head[n] = 0
    BY <1>2
  <2>3. support'[TreeParent(e)] = support[HeadEvent(n)]
    BY <1>6, <1>7, <1>8
  <2>4. Backing(e)' = Cardinality(Supporters(mra, S)')
                        + (IF e[2] = 1 \/ support'[TreeParent(e)] # S THEN 1 ELSE 0)
    BY <1>2, <1>3, <1>6 DEF Backing, TreeParent
  <2> QED BY <2>1, <2>2, <2>3, <2>4 DEF SupportCount, Switched
<1>19. proposal'[e] =
         IF decision'[e] THEN 0
         ELSE IF CarriedOn(e)' > 0 THEN CarriedOn(e)'
         ELSE IF Backing(e)' >= SuperMajority THEN e[2] ELSE 0
  BY <1>2, <1>6, <1>11, <1>12, <1>18 DEF NextProposal
<1>20. SetsWith(seen[e], FPlusOne)' = {} =>
         support'[e] = (UNION (SetsSeen(seen[e])')) \cup (IF e[2] = 1 THEN {e[1]} ELSE {})
  <2>1. SetsSeen(seen[e])' = SetsSeen(mra) /\ SetsWith(seen[e], FPlusOne)' = SetsWith(mra, FPlusOne)
    BY <1>2, <1>3, <1>16
  <2>2. SetsWith(mra, FPlusOne) = {} =>
          S = (UNION SetsSeen(mra)) \cup (IF head[n] = 0 THEN {n} ELSE {})
    BY DEF SupportChoices
  <2> QED BY <1>2, <1>6, <2>1, <2>2
<1>21. decision'[e] <=> EndorsedBacking(e)' >= FPlusOne
  BY <1>6, <1>17 DEF Decides
<1>22. endorsed'[e] <=>
         CarriedOn(e)' > 0 /\ (endorsed'[TreeParent(e)] \/ EndorsedHere(e)')
  BY <1>6, <1>12, <1>13, <1>14, <1>15
<1>23. ASSUME proposal'[e] > 0
       PROVE  endorsed'[e] <=>
                proposal'[e] < e[2] /\ Reached(<<e[1], proposal[e]>>, e[2])'
  <2>1. CASE kept > 0
    <3>1. proposal'[e] = kept /\ kept = p /\ kept < e[2] /\ HeadEvent(n) \in WitnessEvents
      BY <1>2, <1>10, <1>12, <1>19, <1>23, <2>1
    <3>2. endorsed[HeadEvent(n)] => EndorsementReached(n, mra, kept)
      <4> SUFFICES ASSUME endorsed[HeadEvent(n)]
                   PROVE  EndorsementReached(n, mra, kept)
        OBVIOUS
      <4>1. Reached(<<HeadEvent(n)[1], p>>, HeadEvent(n)[2])
        BY <1>9, <2>1, <3>1 DEF EndorsedOnceReached
      <4>2. EndorsementReached(n, seen[HeadEvent(n)], kept)
        BY <1>7, <3>1, <4>1 DEF Reached
      <4>3. seen[HeadEvent(n)] \in [Node -> Generation]
        BY <1>1, <1>8 DEF TypeOK
      <4> QED BY <1>1, <1>4, <1>12, <2>1, <4>2, <4>3, EndorsersGrow
    <3>3. endorsed'[e] <=> EndorsementReached(n, mra, kept)
      BY <1>6, <1>15, <2>1, <3>2
    <3>4. Reached(<<e[1], proposal[e]>>, e[2])' <=> EndorsementReached(n, mra, kept)
      BY <1>2, <1>13, <3>1
    <3> QED BY <3>1, <3>3, <3>4
  <2>2. CASE ~(kept > 0)
    <3>1. proposal'[e] = e[2]
      BY <1>12, <1>19, <1>23, <2>2
    <3>2. ~endorsed'[e]
      BY <1>6, <1>15, <2>2
    <3> QED BY <1>2, <3>1, <3>2
  <2> QED BY <2>1, <2>2
<1> QED BY <1>19, <1>20, <1>21, <1>22, <1>23

(* Old events settle as they did.                                          *)
LEMMA OldEventsSettled ==
  ASSUME InductiveInvariant, SettledFromAncestry, EndorsedOnceReached,
         NEW n \in Node, NEW parents, CreateEvent(n, parents),
         \A d \in EventId \ {<<n, head[n] + 1>>} :
           /\ support'[d] = support[d] /\ endorsed'[d] = endorsed[d]
           /\ proposal'[d] = proposal[d] /\ decision'[d] = decision[d],
         NEW d \in WitnessEvents
  PROVE  /\ SetsWith(seen[d], FPlusOne)' = {} =>
              support'[d] = (UNION (SetsSeen(seen[d])')) \cup (IF d[2] = 1 THEN {d[1]} ELSE {})
         /\ decision'[d] <=> EndorsedBacking(d)' >= FPlusOne
         /\ endorsed'[d] <=>
              CarriedOn(d)' > 0 /\ (endorsed'[TreeParent(d)] \/ EndorsedHere(d)')
         /\ proposal'[d] =
              IF decision'[d] THEN 0
              ELSE IF CarriedOn(d)' > 0 THEN CarriedOn(d)'
              ELSE IF Backing(d)' >= SuperMajority THEN d[2] ELSE 0
         /\ proposal'[d] > 0 =>
              (endorsed'[d] <=>
                proposal'[d] < d[2] /\ Reached(<<d[1], proposal[d]>>, d[2])')
<1>1. TypeOK /\ WellFormed /\ ProposalsKeepSupport
  BY DEF InductiveInvariant
<1>2. /\ d \in EventId /\ d[1] \in Node /\ d[2] \in Nat /\ 1 <= d[2] /\ d[2] <= head[d[1]]
      /\ d \in Events
  BY <1>1, EventsOnBranch DEF WitnessEvents
<1>3. d # <<n, head[n] + 1>>
  BY <1>1, <1>2, Generations
<1>4. /\ support'[d] = support[d] /\ endorsed'[d] = endorsed[d]
      /\ proposal'[d] = proposal[d] /\ decision'[d] = decision[d]
  BY <1>2, <1>3
<1>5. /\ CarriedOn(d)' = CarriedOn(d)
      /\ EndorsedHere(d)' <=> EndorsedHere(d)
      /\ Backing(d)' = Backing(d)
      /\ EndorsedBacking(d)' = EndorsedBacking(d)
      /\ SetsSeen(seen[d])' = SetsSeen(seen[d])
      /\ SetsWith(seen[d], FPlusOne)' = SetsWith(seen[d], FPlusOne)
      /\ endorsed'[TreeParent(d)] = endorsed[TreeParent(d)]
  BY <1>1, SettledStays
<1>6. PICK p : p = proposal[d]
  OBVIOUS
<1>7. Reached(<<d[1], p>>, d[2])' <=> Reached(<<d[1], p>>, d[2])
  BY <1>1, <1>2, ReachedStays
<1>8. Reached(<<d[1], proposal[d]>>, d[2])' <=> Reached(<<d[1], proposal[d]>>, d[2])
  BY <1>4, <1>6, <1>7
<1>9. proposal'[d] > 0 =>
        (endorsed'[d] <=> proposal'[d] < d[2] /\ Reached(<<d[1], proposal[d]>>, d[2])')
  BY <1>4, <1>8 DEF EndorsedOnceReached
<1>10. /\ SetsWith(seen[d], FPlusOne)' = {} =>
            support'[d] = (UNION (SetsSeen(seen[d])')) \cup (IF d[2] = 1 THEN {d[1]} ELSE {})
       /\ decision'[d] <=> EndorsedBacking(d)' >= FPlusOne
       /\ endorsed'[d] <=>
            CarriedOn(d)' > 0 /\ (endorsed'[TreeParent(d)] \/ EndorsedHere(d)')
       /\ proposal'[d] =
            IF decision'[d] THEN 0
            ELSE IF CarriedOn(d)' > 0 THEN CarriedOn(d)'
            ELSE IF Backing(d)' >= SuperMajority THEN d[2] ELSE 0
  BY <1>4, <1>5 DEF SettledFromAncestry
<1> QED BY <1>9, <1>10

(* Events keep what they are; only the new one of a witness may decide.    *)
LEMMA PastStays ==
  ASSUME TypeOK, WellFormed, [Next]_vars
  PROVE  /\ \A m \in Node : head[m] <= head'[m]
         /\ \A d \in Events :
              /\ seen'[d] = seen[d] /\ support'[d] = support[d] /\ proposal'[d] = proposal[d]
              /\ endorsed'[d] = endorsed[d] /\ decision'[d] = decision[d]
         /\ \A d \in Events' \ Events : decision'[d] => d[1] \in Witness
         /\ \A m \in Node : \A p : \A g \in Nat :
              1 <= g /\ g <= head[m] => (Reached(<<m, p>>, g)' <=> Reached(<<m, p>>, g))
<1>1. CASE UNCHANGED vars
  <2>1. UNCHANGED <<head, seen, support, proposal, endorsed, decision>> /\ Events' = Events
    BY <1>1 DEF vars, Events, Exists
  <2>2. ASSUME NEW x, NEW g
        PROVE  Reached(x, g)' <=> Reached(x, g)
    BY <2>1 DEF Reached, EndorsementReached, Endorsers, Participants, Latest
  <2> QED BY <2>1, <2>2, Generations
<1>2. ASSUME NEW n \in Node, NEW parents \in ParentSets(n),
             MergeWitness(n, parents) \/ MergePeer(n, parents)
      PROVE  /\ \A m \in Node : head[m] <= head'[m]
             /\ \A d \in Events :
                  /\ seen'[d] = seen[d] /\ support'[d] = support[d] /\ proposal'[d] = proposal[d]
                  /\ endorsed'[d] = endorsed[d] /\ decision'[d] = decision[d]
             /\ \A d \in Events' \ Events : decision'[d] => d[1] \in Witness
             /\ \A m \in Node : \A p : \A g \in Nat :
                  1 <= g /\ g <= head[m] => (Reached(<<m, p>>, g)' <=> Reached(<<m, p>>, g))
  <2>1. CreateEvent(n, parents)
    BY <1>2 DEF MergeWitness, MergePeer
  <2>2. PICK e : e = <<n, head[n] + 1>>
    OBVIOUS
  <2>3. /\ \A m \in Node : head[m] <= head'[m]
        /\ Events' = Events \cup {e} /\ e[1] = n /\ e \in EventId
        /\ ~Exists(e)
        /\ \A d \in EventId \ {e} : seen'[d] = seen[d]
    BY <2>1, <2>2, EventCreated
  <2>4. e \notin Events
    BY <2>3 DEF Events
  <2>5. \A d \in EventId \ {e} : /\ support'[d] = support[d] /\ proposal'[d] = proposal[d]
                                 /\ endorsed'[d] = endorsed[d] /\ decision'[d] = decision[d]
    BY <1>2, <2>2, <2>3 DEF MergeWitness, MergePeer, TypeOK
  <2>6. Events \subseteq EventId \ {e}
    BY <2>4 DEF Events
  <2>7. n \notin Witness => decision'[e] = decision[e] /\ ~decision[e]
    BY <1>2, <2>3 DEF MergeWitness, MergePeer, WellFormed
  <2>8. ASSUME NEW m \in Node, NEW p, NEW g \in Nat, 1 <= g, g <= head[m]
        PROVE  Reached(<<m, p>>, g)' <=> Reached(<<m, p>>, g)
    BY <2>1, <2>8, ReachedStays
  <2>9. \A d \in Events :
          /\ seen'[d] = seen[d] /\ support'[d] = support[d] /\ proposal'[d] = proposal[d]
          /\ endorsed'[d] = endorsed[d] /\ decision'[d] = decision[d]
    BY <2>3, <2>5, <2>6
  <2>10. \A d \in Events' \ Events : decision'[d] => d[1] \in Witness
    BY <2>3, <2>7
  <2> QED BY <2>3, <2>8, <2>9, <2>10
<1> QED BY <1>1, <1>2 DEF Next

(* Every step by which the history grows preserves what is said of it.     *)
LEMMA StepKeepsHistory == HistoryInvariant /\ [Next]_vars => HistoryInvariant'
<1> SUFFICES ASSUME HistoryInvariant, [Next]_vars
             PROVE  HistoryInvariant'
  OBVIOUS
<1>1. /\ InductiveInvariant /\ UnionOfStrongSupport /\ TypeOK
      /\ SettledFromAncestry /\ EndorsedOnceReached /\ OnlyWitnessesDecide
      /\ WellFormed
  BY DEF HistoryInvariant, InductiveInvariant
<1>2. InductiveInvariant'
  BY <1>1, StepKeepsInvariant
<1>3. ASSUME NEW n \in Node, NEW parents \in ParentSets(n), MergeWitness(n, parents)
      PROVE  UnionOfStrongSupport' /\ SettledFromAncestry' /\ EndorsedOnceReached'
  <2>1. UnionOfStrongSupport'
    BY <1>1, <1>3, FourWitnesses, MergeUnites
  <2>2. n \in Witness /\ CreateEvent(n, parents)
    BY <1>3 DEF MergeWitness
  <2>3. PICK e : e = <<n, head[n] + 1>>
    OBVIOUS
  <2>4. /\ WitnessEvents' = WitnessEvents \cup {e} /\ e \in EventId
    BY <1>1, <2>2, <2>3, EventCreated
  <2>5. \A d \in EventId \ {<<n, head[n] + 1>>} :
          /\ support'[d] = support[d] /\ endorsed'[d] = endorsed[d]
          /\ proposal'[d] = proposal[d] /\ decision'[d] = decision[d]
    BY <1>1, <1>3, <2>3, <2>4 DEF MergeWitness, TypeOK
  <2>6. SettledFromAncestry'
    <3> SUFFICES ASSUME NEW d \in WitnessEvents'
                 PROVE  /\ SetsWith(seen[d], FPlusOne)' = {} =>
                             support'[d] = (UNION (SetsSeen(seen[d])'))
                                              \cup (IF d[2] = 1 THEN {d[1]} ELSE {})
                        /\ decision'[d] <=> EndorsedBacking(d)' >= FPlusOne
                        /\ endorsed'[d] <=>
                             CarriedOn(d)' > 0 /\ (endorsed'[TreeParent(d)] \/ EndorsedHere(d)')
                        /\ proposal'[d] =
                             IF decision'[d] THEN 0
                             ELSE IF CarriedOn(d)' > 0 THEN CarriedOn(d)'
                             ELSE IF Backing(d)' >= SuperMajority THEN d[2] ELSE 0
      BY DEF SettledFromAncestry, TreeParent
    <3>1. CASE d = e
      BY <1>1, <1>3, <2>3, <3>1, FourWitnesses, NewEventSettled
    <3>2. CASE d \in WitnessEvents
      BY <1>1, <2>2, <2>5, <3>2, OldEventsSettled
    <3> QED BY <2>4, <3>1, <3>2
  <2>7. EndorsedOnceReached'
    <3> SUFFICES ASSUME NEW d \in WitnessEvents', proposal'[d] > 0
                 PROVE  endorsed'[d] <=>
                          proposal'[d] < d[2] /\ Reached(<<d[1], proposal[d]>>, d[2])'
      BY DEF EndorsedOnceReached
    <3>1. CASE d = e
      BY <1>1, <1>3, <2>3, <3>1, FourWitnesses, NewEventSettled
    <3>2. CASE d \in WitnessEvents
      BY <1>1, <2>2, <2>5, <3>2, OldEventsSettled
    <3> QED BY <2>4, <3>1, <3>2
  <2> QED BY <2>1, <2>6, <2>7
<1>4. ASSUME NEW n \in Node, NEW parents \in ParentSets(n), MergePeer(n, parents)
      PROVE  UnionOfStrongSupport' /\ SettledFromAncestry' /\ EndorsedOnceReached'
  <2>1. UnionOfStrongSupport'
    BY <1>1, <1>4, PeerUnites
  <2>2. /\ n \notin Witness /\ CreateEvent(n, parents)
        /\ UNCHANGED <<support, proposal, endorsed, decision>>
    BY <1>4 DEF MergePeer
  <2>3. WitnessEvents' = WitnessEvents
    BY <1>1, <2>2, EventCreated
  <2>4. ASSUME NEW d \in WitnessEvents
        PROVE  /\ SetsWith(seen[d], FPlusOne)' = {} =>
                    support'[d] = (UNION (SetsSeen(seen[d])'))
                                     \cup (IF d[2] = 1 THEN {d[1]} ELSE {})
               /\ decision'[d] <=> EndorsedBacking(d)' >= FPlusOne
               /\ endorsed'[d] <=>
                    CarriedOn(d)' > 0 /\ (endorsed'[TreeParent(d)] \/ EndorsedHere(d)')
               /\ proposal'[d] =
                    IF decision'[d] THEN 0
                    ELSE IF CarriedOn(d)' > 0 THEN CarriedOn(d)'
                    ELSE IF Backing(d)' >= SuperMajority THEN d[2] ELSE 0
               /\ proposal'[d] > 0 =>
                    (endorsed'[d] <=>
                      proposal'[d] < d[2] /\ Reached(<<d[1], proposal[d]>>, d[2])')
    BY <1>1, <2>2, OldEventsSettled
  <2>5. SettledFromAncestry'
    BY <2>3, <2>4 DEF SettledFromAncestry, TreeParent
  <2>6. EndorsedOnceReached'
    BY <2>3, <2>4 DEF EndorsedOnceReached
  <2> QED BY <2>1, <2>5, <2>6
<1>5. ASSUME UNCHANGED vars
      PROVE  UnionOfStrongSupport' /\ SettledFromAncestry' /\ EndorsedOnceReached'
  <2>1. /\ UNCHANGED <<head, seen, support, proposal, endorsed, decision>>
        /\ WitnessEvents' = WitnessEvents
    BY <1>5 DEF vars, WitnessEvents, Events, Exists
  <2>2. ASSUME NEW mra, NEW S
        PROVE  /\ Supporters(mra, S)' = Supporters(mra, S)
               /\ SetsSeen(mra)' = SetsSeen(mra)
               /\ {w \in Supporters(mra, S)' : endorsed'[Latest(mra, w)]}
                    = {w \in Supporters(mra, S) : endorsed[Latest(mra, w)]}
    BY <2>1 DEF SetsSeen, Supporters, Participants, Latest
  <2>3. ASSUME NEW d
        PROVE  /\ SetsSeen(seen[d])' = SetsSeen(seen[d])
               /\ SetsWith(seen[d], FPlusOne)' = SetsWith(seen[d], FPlusOne)
               /\ CarriedOn(d)' = CarriedOn(d)
               /\ EndorsedHere(d)' <=> EndorsedHere(d)
               /\ Backing(d)' = Backing(d)
               /\ EndorsedBacking(d)' = EndorsedBacking(d)
    <3>1. PICK v, s : v = seen[d] /\ s = support[d]
      OBVIOUS
    <3>2. SetsSeen(v)' = SetsSeen(v) /\ SetsWith(v, FPlusOne)' = SetsWith(v, FPlusOne)
      BY <2>2 DEF SetsWith
    <3>3. CarriedOn(d)' = CarriedOn(d)
      BY <2>1 DEF CarriedOn, TreeParent
    <3>4. EndorsedHere(d)' <=> EndorsedHere(d)
      BY <2>1, <3>3
         DEF EndorsedHere, TreeParent, Reached, EndorsementReached, Endorsers, Participants,
             Latest
    <3>5. Supporters(v, s)' = Supporters(v, s)
      BY <2>2
    <3>6. Backing(d)' = Backing(d)
      BY <2>1, <3>1, <3>5 DEF Backing, TreeParent
    <3>7. {w \in Supporters(v, s)' : endorsed'[Latest(v, w)]}
            = {w \in Supporters(v, s) : endorsed[Latest(v, w)]}
      BY <2>2
    <3>8. EndorsedBacking(d)' = EndorsedBacking(d)
      BY <2>1, <3>1, <3>4, <3>7 DEF EndorsedBacking, Latest
    <3> QED BY <2>1, <3>1, <3>2, <3>3, <3>4, <3>6, <3>8
  <2>4. ASSUME NEW x, NEW g
        PROVE  Reached(x, g)' <=> Reached(x, g)
    BY <2>1 DEF Reached, EndorsementReached, Endorsers, Participants, Latest
  <2>5. UnionOfStrongSupport'
    BY <1>1, <2>1, <2>3 DEF UnionOfStrongSupport
  <2>6. SettledFromAncestry'
    <3>1. ASSUME NEW d \in WitnessEvents
          PROVE  /\ SetsWith(seen[d], FPlusOne)' = {} =>
                      support'[d] = (UNION (SetsSeen(seen[d])'))
                                       \cup (IF d[2] = 1 THEN {d[1]} ELSE {})
                 /\ decision'[d] <=> EndorsedBacking(d)' >= FPlusOne
                 /\ endorsed'[d] <=>
                      CarriedOn(d)' > 0 /\ (endorsed'[TreeParent(d)] \/ EndorsedHere(d)')
                 /\ proposal'[d] =
                      IF decision'[d] THEN 0
                      ELSE IF CarriedOn(d)' > 0 THEN CarriedOn(d)'
                      ELSE IF Backing(d)' >= SuperMajority THEN d[2] ELSE 0
      BY <1>1, <2>1, <2>3 DEF SettledFromAncestry
    <3> QED BY <2>1, <3>1 DEF SettledFromAncestry, TreeParent
  <2>7. ASSUME NEW d \in WitnessEvents
        PROVE  Reached(<<d[1], proposal[d]>>, d[2])' <=> Reached(<<d[1], proposal[d]>>, d[2])
    <3>1. PICK p : p = proposal[d]
      OBVIOUS
    <3>2. Reached(<<d[1], p>>, d[2])' <=> Reached(<<d[1], p>>, d[2])
      BY <2>4
    <3> QED BY <2>1, <3>1, <3>2
  <2>8. EndorsedOnceReached'
    BY <1>1, <2>1, <2>7 DEF EndorsedOnceReached
  <2> QED BY <1>2, <2>5, <2>6, <2>8
<1>6. OnlyWitnessesDecide'
  BY <1>1, PastStays DEF OnlyWitnessesDecide
<1>7. CASE Next
  <2>1. PICK n \in Node :
          \E parents \in ParentSets(n) : MergeWitness(n, parents) \/ MergePeer(n, parents)
    BY <1>7 DEF Next
  <2>2. PICK parents \in ParentSets(n) : MergeWitness(n, parents) \/ MergePeer(n, parents)
    BY <2>1
  <2> QED BY <1>2, <1>3, <1>4, <1>6, <2>2 DEF HistoryInvariant
<1>8. CASE UNCHANGED vars
  BY <1>2, <1>5, <1>6, <1>8 DEF HistoryInvariant
<1> QED BY <1>7, <1>8

-----------------------------------------------------------------------------
(* An instance has its own copy of the operators its module extends.       *)
LEMMA SameOperators ==
  ASSUME NEW e
  PROVE  /\ \A S : At(e)!Cardinality(S) = Cardinality(S)
         /\ At(e)!FPlusOne = FPlusOne /\ At(e)!SuperMajority = SuperMajority
<1>1. ASSUME NEW S
      PROVE  At(e)!Cardinality(S) = Cardinality(S)
  BY DEF At!Cardinality, Cardinality
<1>2. At(e)!FPlusOne = FPlusOne
  BY <1>1 DEF At!FPlusOne, At!F, At!MaximumFailures, FPlusOne, F, MaximumFailures
<1>3. At(e)!SuperMajority = SuperMajority
  BY <1>1 DEF At!SuperMajority, At!Supermajority, SuperMajority, Supermajority
<1> QED BY <1>1, <1>2, <1>3

(* In the experiment of e, a run tallies as Continuity does, if it has     *)
(* computed the same for what e has seen.                                  *)
LEMMA RunTally ==
  ASSUME TypeOK, NEW e \in WitnessEvents,
         \A w \in Participants(seen[e]) :
           /\ runSupport[Latest(seen[e], w)] = support[Latest(seen[e], w)]
           /\ HasEndorsedProposal(Latest(seen[e], w)) = endorsed[Latest(seen[e], w)]
  PROVE  /\ \A S : At(e)!Supporters(seen[e], S) = Supporters(seen[e], S)
         /\ \A S : {w \in At(e)!Supporters(seen[e], S) :
                      HasEndorsedProposal(Latest(seen[e], w))}
                     = {w \in Supporters(seen[e], S) : endorsed[Latest(seen[e], w)]}
         /\ At(e)!SetsSeen(seen[e]) = SetsSeen(seen[e])
         /\ \A k : At(e)!SetsWith(seen[e], k) = SetsWith(seen[e], k)
<1>1. At(e)!Participants(seen[e]) = Participants(seen[e])
  BY DEF At!Participants, Participants
<1>2. \A w : At(e)!Latest(seen[e], w) = Latest(seen[e], w)
  BY DEF At!Latest, Latest
<1>3. ASSUME NEW S
      PROVE  At(e)!Supporters(seen[e], S) = Supporters(seen[e], S)
  BY <1>1, <1>2 DEF At!Supporters, Supporters
<1>4. ASSUME NEW S
      PROVE  {w \in At(e)!Supporters(seen[e], S) : HasEndorsedProposal(Latest(seen[e], w))}
               = {w \in Supporters(seen[e], S) : endorsed[Latest(seen[e], w)]}
  <2>1. \A w \in Supporters(seen[e], S) :
          HasEndorsedProposal(Latest(seen[e], w)) = endorsed[Latest(seen[e], w)]
    BY DEF Supporters
  <2> QED BY <1>3, <2>1
<1>5. At(e)!SetsSeen(seen[e]) = SetsSeen(seen[e])
  BY <1>1, <1>2 DEF At!SetsSeen, SetsSeen
<1>6. ASSUME NEW k
      PROVE  At(e)!SetsWith(seen[e], k) = SetsWith(seen[e], k)
  BY <1>3, <1>5, SameOperators DEF At!SetsWith, SetsWith
<1> QED BY <1>3, <1>4, <1>5, <1>6

(* So it chooses what the event supports.                                  *)
LEMMA RunChoice ==
  ASSUME HistoryInvariant, NEW e \in WitnessEvents,
         \A w \in Participants(seen[e]) :
           /\ runSupport[Latest(seen[e], w)] = support[Latest(seen[e], w)]
           /\ HasEndorsedProposal(Latest(seen[e], w)) = endorsed[Latest(seen[e], w)],
         NEW S \in At(e)!SupportChoices(e[1], seen[e])
  PROVE  S = support[e]
<1>1. /\ TypeOK /\ UnionOfStrongSupport /\ SettledFromAncestry
      /\ e \in Events /\ e[1] \in Witness
  BY DEF HistoryInvariant, InductiveInvariant, WitnessEvents
<1>2. /\ At(e)!SetsSeen(seen[e]) = SetsSeen(seen[e])
      /\ At(e)!FPlusOne = FPlusOne
      /\ \A k : At(e)!SetsWith(seen[e], k) = SetsWith(seen[e], k)
      /\ \A T : At(e)!Cardinality(T) = Cardinality(T)
  BY <1>1, RunTally, SameOperators
<1>3. e[1] \in Node /\ e[2] \in Nat /\ head \in [Node -> Generation]
  BY <1>1, EventsOnBranch DEF TypeOK
<1>4. CASE SetsWith(seen[e], FPlusOne) = {}
  <2>1. S = (UNION SetsSeen(seen[e]))
              \cup (IF [head EXCEPT ![e[1]] = e[2] - 1][e[1]] = 0 THEN {e[1]} ELSE {})
    BY <1>2, <1>4 DEF At!SupportChoices
  <2>2. [head EXCEPT ![e[1]] = e[2] - 1][e[1]] = e[2] - 1
    BY <1>3
  <2>3. e[2] - 1 = 0 <=> e[2] = 1
    BY <1>3
  <2> QED BY <1>1, <1>4, <2>1, <2>2, <2>3 DEF SettledFromAncestry
<1>5. CASE SetsWith(seen[e], FPlusOne) # {}
  <2>1. S \in SupportChoices(e[1], seen[e])
    BY <1>2, <1>5 DEF At!SupportChoices, SupportChoices
  <2>2. seen[e] \in [Node -> Generation]
    BY <1>1, EventsOnBranch DEF TypeOK
  <2>3. S = UNION SetsWith(seen[e], FPlusOne)
    BY <1>1, <1>5, <2>1, <2>2, FourUnite, FourWitnesses
  <2> QED BY <1>1, <1>5, <2>3 DEF UnionOfStrongSupport
<1> QED BY <1>4, <1>5

-----------------------------------------------------------------------------
(* Where a run has come, it is about events that exist.                    *)
LEMMA WorkExists ==
  ASSUME TypeOK, RunTypeOK, ViewReceived, WorkedInOrder,
         NEW e \in pending \cup tried \cup decider
  PROVE  /\ e \in WitnessEvents /\ e \in Events /\ e \in EventId
         /\ e[1] \in Witness /\ e[1] \in Node /\ e = <<e[1], e[2]>>
         /\ e[2] \in Nat /\ 1 <= e[2] /\ e[2] <= view[e[1]]
         /\ view[e[1]] \in Nat /\ view[e[1]] <= head[e[1]] /\ head[e[1]] \in Nat
         /\ \A g \in Nat : g <= e[2] => <<e[1], g>> \in EventId
<1>1. e \in EventId /\ e[1] \in Witness /\ 1 <= e[2] /\ e[2] <= view[e[1]]
  BY DEF RunTypeOK, WorkedInOrder
<1>2. e[1] \in Node /\ e[2] \in Generation /\ e = <<e[1], e[2]>>
  BY <1>1 DEF EventId
<1>3. /\ view[e[1]] \in Nat /\ view[e[1]] <= head[e[1]] /\ head[e[1]] \in Nat
      /\ e[2] \in Nat
  BY <1>2, Generations DEF RunTypeOK, ViewReceived
<1>4. e[2] <= head[e[1]]
  BY <1>1, <1>3
<1>5. <<e[1], e[2]>> \in Events /\ <<e[1], e[2]>> \in WitnessEvents
  BY <1>1, <1>2, <1>3, <1>4, OnBranch
<1>6. e \in Events /\ e \in WitnessEvents
  BY <1>2, <1>5
<1>7. \A g \in Nat : g <= e[2] => <<e[1], g>> \in EventId
  BY <1>2, Generations
<1> QED BY <1>1, <1>2, <1>3, <1>6, <1>7

(* What stands at generation 0 has no attributes.                          *)
LEMMA NothingBefore ==
  ASSUME TypeOK, WellFormed, NEW n \in Node
  PROVE  <<n, 0>> \in EventId /\ proposal[<<n, 0>>] = 0
<1>1. <<n, 0>> \in EventId
  BY Generations
<1>2. ~Exists(<<n, 0>>)
  BY DEF Exists
<1> QED BY <1>1, <1>2 DEF WellFormed

(* An event a run has tried has an endorsed proposal if and only if its    *)
(* ancestry says so: the marks are set in time, and none before.           *)
LEMMA TriedEndorsed ==
  ASSUME HistoryInvariant, RunInvariant, NEW e \in tried
  PROVE  HasEndorsedProposal(e) = endorsed[e]
<1>1. /\ TypeOK /\ WellFormed /\ SettledFromAncestry /\ EndorsedOnceReached
      /\ RunTypeOK /\ ViewReceived /\ WorkedInOrder /\ EndorsementsFound /\ AgreesWithHistory
  BY DEF HistoryInvariant, InductiveInvariant, RunInvariant
<1>2. /\ e \in WitnessEvents /\ e \in EventId /\ e[1] \in Node
      /\ e[2] \in Nat /\ 1 <= e[2] /\ e[2] <= view[e[1]] /\ view[e[1]] \in Nat
  BY <1>1, WorkExists
<1>3. runProposal[e] = proposal[e] /\ ~decision[e]
  BY <1>1 DEF AgreesWithHistory
<1>4. PICK q : q = proposal[e]
  OBVIOUS
<1>5. q \in Nat /\ endorsed[e] \in BOOLEAN
  BY <1>1, <1>2, <1>4, Generations DEF TypeOK
<1>6. PICK x : x = <<e[1], q>>
  OBVIOUS
<1>7. PICK f : f = endorsement[x]
  OBVIOUS
<1>8. HasEndorsedProposal(e) <=> q > 0 /\ x \in marked /\ e[2] >= f
  BY <1>3, <1>4, <1>6, <1>7 DEF HasEndorsedProposal
<1>9. CASE q = 0
  <2>1. CarriedOn(e) > 0 => proposal[e] = CarriedOn(e)
    BY <1>1, <1>2, <1>3 DEF SettledFromAncestry
  <2>2. ~endorsed[e]
    BY <1>1, <1>2, <1>4, <1>9, <2>1 DEF SettledFromAncestry
  <2>3. ~HasEndorsedProposal(e)
    BY <1>8, <1>9
  <2> QED BY <1>5, <2>2, <2>3 DEF HasEndorsedProposal
<1>10. CASE q > 0
  <2>1. /\ q <= e[2]
        /\ f > 0 => q < f /\ f <= view[e[1]]
        /\ \A g \in (q + 1)..view[e[1]] : Reached(x, g) <=> f > 0 /\ f <= g
        /\ f > 0 /\ f <= e[2] => x \in marked
    BY <1>1, <1>3, <1>4, <1>6, <1>7, <1>10 DEF EndorsementsFound, EndorsementKnown
  <2>2. x \in EventId /\ f \in Nat
    BY <1>1, <1>2, <1>5, <1>6, <1>7, <2>1, Generations, WorkExists DEF RunTypeOK
  <2>3. x \in marked => f > 0
    BY <1>1, <1>7 DEF EndorsementsFound, EndorsementKnown
  <2>4. endorsed[e] <=> q < e[2] /\ Reached(x, e[2])
    BY <1>1, <1>2, <1>4, <1>6, <1>10 DEF EndorsedOnceReached
  <2>5. CASE q < e[2]
    <3>1. e[2] \in (q + 1)..view[e[1]]
      BY <1>2, <1>5, <2>5
    <3>2. Reached(x, e[2]) <=> f > 0 /\ f <= e[2]
      BY <2>1, <3>1
    <3>3. HasEndorsedProposal(e) <=> endorsed[e]
      BY <1>2, <1>8, <1>10, <2>1, <2>2, <2>3, <2>4, <2>5, <3>2
    <3> QED BY <1>5, <3>3 DEF HasEndorsedProposal
  <2>6. CASE ~(q < e[2])
    <3>1. ~endorsed[e]
      BY <2>4, <2>6
    <3>2. ~HasEndorsedProposal(e)
      BY <1>2, <1>5, <1>8, <2>1, <2>2, <2>3, <2>6
    <3> QED BY <1>5, <3>1, <3>2 DEF HasEndorsedProposal
  <2> QED BY <2>5, <2>6
<1> QED BY <1>5, <1>9, <1>10

(* What the events of an experiment have been computed to.                 *)
LEMMA ReadyEvent ==
  ASSUME HistoryInvariant, RunInvariant, phase = "running",
         NEW e \in pending, Ready(e)
  PROVE  /\ e \notin tried /\ decider = {}
         /\ \A w \in Participants(seen[e]) :
              /\ runSupport[Latest(seen[e], w)] = support[Latest(seen[e], w)]
              /\ HasEndorsedProposal(Latest(seen[e], w)) = endorsed[Latest(seen[e], w)]
         /\ \A g \in 1..(e[2] - 1) : <<e[1], g>> \in tried
         /\ e[2] # 1 => TreeParent(e) \in tried
         /\ runProposal[TreeParent(e)] = proposal[TreeParent(e)]
         /\ proposal[TreeParent(e)] \in Nat /\ proposal[TreeParent(e)] < e[2]
         /\ proposal[TreeParent(e)] > 0 =>
              TreeParent(e) \in tried /\ <<e[1], proposal[TreeParent(e)]>> \in tried
<1>1. /\ TypeOK /\ WellFormed
      /\ RunTypeOK /\ ViewReceived /\ WorkedInOrder /\ EndorsementsFound /\ AgreesWithHistory
  BY DEF HistoryInvariant, InductiveInvariant, RunInvariant
<1>2. /\ e \in WitnessEvents /\ e \in Events /\ e \in EventId /\ e[1] \in Witness
      /\ e[1] \in Node /\ e[2] \in Nat /\ 1 <= e[2]
      /\ \A g \in Nat : g <= e[2] => <<e[1], g>> \in EventId
  BY <1>1, WorkExists
<1>3. e \notin tried /\ decider = {}
  BY <1>1 DEF WorkedInOrder, AgreesWithHistory
<1>4. ASSUME NEW w \in Participants(seen[e])
      PROVE  /\ runSupport[Latest(seen[e], w)] = support[Latest(seen[e], w)]
             /\ HasEndorsedProposal(Latest(seen[e], w)) = endorsed[Latest(seen[e], w)]
  <2>1. Latest(seen[e], w) \in tried
    BY DEF Ready
  <2> QED BY <1>1, <2>1, TriedEndorsed DEF AgreesWithHistory
<1>5. TreeParent(e) = <<e[1], e[2] - 1>>
  BY DEF TreeParent
<1>6. e[2] # 1 => TreeParent(e) \in tried
  <2> SUFFICES ASSUME e[2] # 1 PROVE TreeParent(e) \in tried
    OBVIOUS
  <2>1. seen[e][e[1]] = e[2] - 1
    BY <1>1, <1>2 DEF WellFormed
  <2>2. e[1] \in Participants(seen[e])
    BY <1>2, <2>1 DEF Participants
  <2>3. Latest(seen[e], e[1]) = TreeParent(e)
    BY <1>5, <2>1 DEF Latest
  <2> QED BY <2>2, <2>3 DEF Ready
<1>7. \A g \in 1..(e[2] - 1) : <<e[1], g>> \in tried
  <2> SUFFICES ASSUME NEW g \in 1..(e[2] - 1) PROVE <<e[1], g>> \in tried
    OBVIOUS
  <2>1. TreeParent(e) \in tried /\ TreeParent(e)[1] = e[1] /\ TreeParent(e)[2] = e[2] - 1
    BY <1>2, <1>5, <1>6
  <2>2. \A h \in 1..TreeParent(e)[2] : <<TreeParent(e)[1], h>> \in tried
    BY <1>1, <2>1 DEF WorkedInOrder
  <2> QED BY <2>1, <2>2
<1>8. /\ runProposal[TreeParent(e)] = proposal[TreeParent(e)]
      /\ proposal[TreeParent(e)] \in Nat /\ proposal[TreeParent(e)] < e[2]
  <2>1. CASE e[2] = 1
    <3>1. TreeParent(e) = <<e[1], 0>>
      BY <1>5, <2>1
    <3>2. <<e[1], 0>> \in EventId /\ proposal[<<e[1], 0>>] = 0
      BY <1>1, <1>2, NothingBefore
    <3>3. <<e[1], 0>> \notin tried
      <4> SUFFICES ASSUME <<e[1], 0>> \in tried PROVE FALSE
        OBVIOUS
      <4>1. 1 <= <<e[1], 0>>[2]
        BY <1>1 DEF WorkedInOrder
      <4> QED BY <4>1
    <3>4. runProposal[<<e[1], 0>>] = 0
      BY <1>1, <3>2, <3>3 DEF WorkedInOrder
    <3> QED BY <2>1, <3>1, <3>2, <3>4
  <2>2. CASE e[2] # 1
    <3>1. TreeParent(e) \in tried /\ TreeParent(e) \in EventId
      BY <1>1, <1>6, <2>2 DEF RunTypeOK
    <3>2. runProposal[TreeParent(e)] = proposal[TreeParent(e)]
      BY <1>1, <3>1 DEF AgreesWithHistory
    <3>3. proposal[TreeParent(e)] \in Nat
      BY <1>1, <3>1, Generations DEF TypeOK
    <3>4. runProposal[TreeParent(e)] > 0 => runProposal[TreeParent(e)] <= TreeParent(e)[2]
      BY <1>1, <3>1 DEF EndorsementsFound, EndorsementKnown
    <3>5. TreeParent(e)[2] = e[2] - 1
      BY <1>5
    <3> QED BY <1>2, <3>2, <3>3, <3>4, <3>5
  <2> QED BY <2>1, <2>2
<1>9. proposal[TreeParent(e)] > 0 =>
        TreeParent(e) \in tried /\ <<e[1], proposal[TreeParent(e)]>> \in tried
  <2>1. e[2] = 1 => proposal[TreeParent(e)] = 0
    BY <1>8
  <2>2. proposal[TreeParent(e)] > 0 => proposal[TreeParent(e)] \in 1..(e[2] - 1)
    BY <1>2, <1>8
  <2> QED BY <1>6, <1>7, <2>1, <2>2
<1> QED BY <1>3, <1>4, <1>6, <1>7, <1>8, <1>9

(* An experiment finds what the event settled on when it was created.      *)
LEMMA ExperimentAgrees ==
  ASSUME HistoryInvariant, RunInvariant, phase = "running",
         NEW e \in pending, Ready(e),
         NEW S \in At(e)!SupportChoices(e[1], seen[e])
  PROVE  /\ S = support[e]
         /\ At(e)!KeptProposal(e[1], S) = CarriedOn(e)
         /\ CarriedOn(e) \in Nat
         /\ CarriedOn(e) > 0 => CarriedOn(e) = proposal[TreeParent(e)]
         /\ At(e)!SupportCount(e[1], seen[e], S) = Backing(e)
         /\ RunEndorsedCount(e, S) = EndorsedBacking(e)
<1>1. /\ TypeOK /\ WellFormed /\ SettledFromAncestry /\ EndorsedOnceReached
      /\ RunTypeOK /\ ViewReceived /\ WorkedInOrder /\ EndorsementsFound /\ AgreesWithHistory
  BY DEF HistoryInvariant, InductiveInvariant, RunInvariant
<1>2. /\ e \in WitnessEvents /\ e \in Events /\ e \in EventId /\ e[1] \in Witness
      /\ e[1] \in Node /\ e[2] \in Nat /\ 1 <= e[2] /\ e[2] <= view[e[1]]
      /\ view[e[1]] \in Nat /\ e = <<e[1], e[2]>>
      /\ \A g \in Nat : g <= e[2] => <<e[1], g>> \in EventId
  BY <1>1, WorkExists
<1>3. /\ e \notin tried /\ decider = {}
      /\ \A w \in Participants(seen[e]) :
           /\ runSupport[Latest(seen[e], w)] = support[Latest(seen[e], w)]
           /\ HasEndorsedProposal(Latest(seen[e], w)) = endorsed[Latest(seen[e], w)]
      /\ e[2] # 1 => TreeParent(e) \in tried
      /\ runProposal[TreeParent(e)] = proposal[TreeParent(e)]
      /\ proposal[TreeParent(e)] \in Nat /\ proposal[TreeParent(e)] < e[2]
      /\ proposal[TreeParent(e)] > 0 =>
           TreeParent(e) \in tried /\ <<e[1], proposal[TreeParent(e)]>> \in tried
  BY ReadyEvent
<1>4. S = support[e]
  BY <1>2, <1>3, RunChoice
<1>5. [head EXCEPT ![e[1]] = e[2] - 1][e[1]] = e[2] - 1
  BY <1>1, <1>2 DEF TypeOK
<1>6. At(e)!HeadEvent(e[1]) = TreeParent(e)
  BY <1>5 DEF At!HeadEvent, TreeParent
<1>7. PICK p : p = proposal[TreeParent(e)]
  OBVIOUS
<1>8. p > 0 => runSupport[<<e[1], p>>] = support[<<e[1], p>>]
  BY <1>1, <1>3, <1>7 DEF AgreesWithHistory
<1>9. At(e)!KeptProposal(e[1], S) = IF p > 0 /\ runSupport[<<e[1], p>>] = S THEN p ELSE 0
  BY <1>3, <1>6, <1>7 DEF At!KeptProposal
<1>10. CarriedOn(e) = IF p > 0 /\ support[<<e[1], p>>] = S THEN p ELSE 0
  BY <1>4, <1>7 DEF CarriedOn
<1>11. At(e)!KeptProposal(e[1], S) = CarriedOn(e)
  BY <1>8, <1>9, <1>10
<1>12. PICK c \in Nat : c = CarriedOn(e) /\ (c > 0 => c = p)
  BY <1>3, <1>7, <1>10
<1>13. At(e)!SupportCount(e[1], seen[e], S) = Backing(e)
  <2>1. At(e)!Supporters(seen[e], S) = Supporters(seen[e], S)
    BY <1>1, <1>2, <1>3, RunTally
  <2>2. At(e)!Switched(e[1], S) <=> e[2] - 1 = 0 \/ runSupport[TreeParent(e)] # S
    BY <1>5, <1>6 DEF At!Switched
  <2>3. e[2] # 1 => runSupport[TreeParent(e)] = support[TreeParent(e)]
    BY <1>1, <1>3 DEF AgreesWithHistory
  <2>4. At(e)!Switched(e[1], S) <=> e[2] = 1 \/ support[TreeParent(e)] # support[e]
    BY <1>2, <1>4, <2>2, <2>3
  <2>5. At(e)!SupportCount(e[1], seen[e], S)
          = Cardinality(Supporters(seen[e], S)) + (IF At(e)!Switched(e[1], S) THEN 1 ELSE 0)
    BY <2>1, SameOperators DEF At!SupportCount
  <2> QED BY <1>4, <2>4, <2>5 DEF Backing
<1>14. PICK x, f : x = <<e[1], c>> /\ f = endorsement[x]
  OBVIOUS
<1>15. Marks(e, c) <=> c > 0 /\ f = e[2] /\ x \notin marked
  BY <1>14 DEF Marks
<1>16. EndorsedHere(e) <=> c > 0 /\ ~endorsed[TreeParent(e)] /\ Reached(x, e[2])
  BY <1>12, <1>14 DEF EndorsedHere
<1>17. Marks(e, c) <=> EndorsedHere(e)
  <2>1. CASE c > 0
    <3>1. /\ TreeParent(e) \in tried /\ runProposal[TreeParent(e)] = c
          /\ TreeParent(e)[1] = e[1] /\ TreeParent(e)[2] = e[2] - 1
          /\ c < e[2]
      BY <1>3, <1>7, <1>12, <2>1 DEF TreeParent
    <3>2. /\ f > 0 => c < f /\ f <= view[e[1]]
          /\ \A g \in (c + 1)..view[e[1]] : Reached(x, g) <=> f > 0 /\ f <= g
          /\ f > 0 /\ f <= e[2] - 1 => x \in marked
      BY <1>1, <1>14, <2>1, <3>1 DEF EndorsementsFound, EndorsementKnown
    <3>3. e[2] \in (c + 1)..view[e[1]]
      BY <1>2, <1>12, <3>1
    <3>4. Reached(x, e[2]) <=> f > 0 /\ f <= e[2]
      BY <3>2, <3>3
    <3>5. endorsed[TreeParent(e)] <=> x \in marked /\ e[2] - 1 >= f
      <4>1. HasEndorsedProposal(TreeParent(e)) = endorsed[TreeParent(e)]
        BY <3>1, TriedEndorsed
      <4>2. HasEndorsedProposal(TreeParent(e)) <=> x \in marked /\ e[2] - 1 >= f
        BY <1>14, <2>1, <3>1 DEF HasEndorsedProposal
      <4> QED BY <4>1, <4>2
    <3>6. x \in marked => f > 0 /\ (f = e[2] => e \in tried \cup decider)
      BY <1>1, <1>2, <1>14 DEF EndorsementsFound, EndorsementKnown
    <3>7. f \in Nat
      <4>1. x \in EventId
        BY <1>2, <1>12, <1>14, <3>1
      <4> QED BY <1>1, <1>14, <4>1, Generations DEF RunTypeOK
    <3>8. x \in marked => f # e[2]
      BY <1>3, <3>6
    <3> QED BY <1>2, <1>15, <1>16, <2>1, <3>2, <3>4, <3>5, <3>7, <3>8
  <2>2. CASE ~(c > 0)
    BY <1>15, <1>16, <2>2
  <2> QED BY <2>1, <2>2
<1>18. RunEndorsedCount(e, S) = EndorsedBacking(e)
  <2>1. {w \in At(e)!Supporters(seen[e], S) : HasEndorsedProposal(Latest(seen[e], w))}
          = {w \in Supporters(seen[e], S) : endorsed[Latest(seen[e], w)]}
    BY <1>1, <1>2, <1>3, RunTally
  <2>2. Marks(e, At(e)!KeptProposal(e[1], S)) <=> EndorsedHere(e)
    BY <1>11, <1>12, <1>17
  <2> QED BY <1>4, <2>1, <2>2 DEF RunEndorsedCount, EndorsedBacking
<1> QED BY <1>4, <1>7, <1>11, <1>12, <1>13, <1>18

-----------------------------------------------------------------------------
(* An experiment marks the proposal that is endorsed at its event.         *)
LEMMA MarkedInTime ==
  ASSUME HistoryInvariant, RunInvariant, phase = "running",
         NEW e \in pending, Ready(e),
         NEW c, c = CarriedOn(e),
         marked' = IF Marks(e, c) THEN marked \cup {<<e[1], c>>} ELSE marked,
         \A x \in tried : endorsement'[x] = endorsement[x],
         tried \subseteq tried', e \in tried' \cup decider'
  PROVE  /\ \A x \in marked' :
              /\ x \in tried' /\ endorsement'[x] > 0
              /\ <<x[1], endorsement'[x]>> \in tried' \cup decider'
         /\ marked \subseteq marked' /\ marked' \subseteq EventId
<1>1. /\ TypeOK /\ RunTypeOK /\ ViewReceived /\ WorkedInOrder /\ EndorsementsFound
  BY DEF HistoryInvariant, InductiveInvariant, RunInvariant
<1>2. /\ e[2] \in Nat /\ 1 <= e[2] /\ e = <<e[1], e[2]>>
  BY <1>1, WorkExists
<1>3. /\ decider = {}
      /\ proposal[TreeParent(e)] > 0 => <<e[1], proposal[TreeParent(e)]>> \in tried
  BY ReadyEvent
<1>4. c > 0 => c = proposal[TreeParent(e)]
  BY DEF CarriedOn
<1>5. ASSUME NEW x \in marked
      PROVE  /\ x \in tried' /\ endorsement'[x] > 0
             /\ <<x[1], endorsement'[x]>> \in tried' \cup decider'
  <2>1. x \in tried /\ endorsement[x] > 0 /\ <<x[1], endorsement[x]>> \in tried
    BY <1>1, <1>3 DEF EndorsementsFound, EndorsementKnown
  <2> QED BY <2>1
<1>6. ASSUME Marks(e, c)
      PROVE  /\ <<e[1], c>> \in tried /\ endorsement'[<<e[1], c>>] > 0
             /\ <<<<e[1], c>>[1], endorsement'[<<e[1], c>>]>> \in tried' \cup decider'
  <2>1. c > 0 /\ endorsement[<<e[1], c>>] = e[2]
    BY <1>6 DEF Marks
  <2>2. <<e[1], c>> \in tried
    BY <1>3, <1>4, <2>1
  <2>3. endorsement'[<<e[1], c>>] = e[2]
    BY <2>1, <2>2
  <2>4. <<e[1], endorsement'[<<e[1], c>>]>> = e
    BY <1>2, <2>3
  <2> QED BY <1>2, <2>2, <2>3, <2>4
<1>7. marked' \subseteq EventId
  BY <1>1, <1>6 DEF RunTypeOK
<1> QED BY <1>5, <1>6, <1>7

(* What was known of the proposals of events tried stays.                  *)
LEMMA EndorsementsKept ==
  ASSUME HistoryInvariant, RunInvariant, UNCHANGED <<seen, view>>,
         \A d \in tried : runProposal'[d] = runProposal[d] /\ endorsement'[d] = endorsement[d],
         marked \subseteq marked',
         NEW d \in tried, runProposal'[d] > 0,
         NEW x, x = <<d[1], runProposal'[d]>>
  PROVE  /\ x \in tried
         /\ x[2] <= d[2]
         /\ endorsement'[x] > 0 => x[2] < endorsement'[x] /\ endorsement'[x] <= view'[d[1]]
         /\ \A g \in (x[2] + 1)..view'[d[1]] :
              Reached(x, g)' <=> endorsement'[x] > 0 /\ endorsement'[x] <= g
         /\ endorsement'[x] > 0 /\ endorsement'[x] <= d[2] => x \in marked'
<1>1. /\ TypeOK /\ RunTypeOK /\ ViewReceived /\ WorkedInOrder /\ EndorsementsFound
  BY DEF HistoryInvariant, InductiveInvariant, RunInvariant
<1>2. runProposal[d] > 0 /\ x = <<d[1], runProposal[d]>> /\ x[1] = d[1] /\ x[2] = runProposal[d]
  OBVIOUS
<1>3. /\ x[2] <= d[2]
      /\ endorsement[x] > 0 => x[2] < endorsement[x] /\ endorsement[x] <= view[d[1]]
      /\ \A g \in (x[2] + 1)..view[d[1]] :
           Reached(x, g) <=> endorsement[x] > 0 /\ endorsement[x] <= g
      /\ endorsement[x] > 0 /\ endorsement[x] <= d[2] => x \in marked
  BY <1>1, <1>2 DEF EndorsementsFound, EndorsementKnown
<1>4. x \in tried
  <2>1. d[2] \in Nat /\ d \in EventId
    BY <1>1, WorkExists
  <2>2. runProposal[d] \in Nat
    BY <1>1, <2>1, Generations DEF RunTypeOK
  <2>3. runProposal[d] \in 1..d[2]
    BY <1>2, <1>3, <2>1, <2>2
  <2> QED BY <1>1, <1>2, <2>3 DEF WorkedInOrder
<1>5. ASSUME NEW g
      PROVE  Reached(x, g)' <=> Reached(x, g)
  BY DEF Reached, EndorsementReached, Endorsers, Participants, Latest
<1>6. endorsement'[x] = endorsement[x]
  BY <1>4
<1> QED BY <1>3, <1>4, <1>5, <1>6

(* What the tallies of an event count is finite.                           *)
LEMMA BackingIsNumber ==
  ASSUME NEW e
  PROVE  EndorsedBacking(e) \in Nat /\ Backing(e) \in Nat
<1>1. Supporters(seen[e], support[e]) \in SUBSET Witness
  BY DEF Supporters, Participants
<1>2. {w \in Supporters(seen[e], support[e]) : endorsed[Latest(seen[e], w)]} \in SUBSET Witness
  BY <1>1
<1>3. /\ Cardinality(Supporters(seen[e], support[e])) \in Nat
      /\ Cardinality({w \in Supporters(seen[e], support[e]) :
                        endorsed[Latest(seen[e], w)]}) \in Nat
  BY <1>1, <1>2, WitnessSets
<1> QED BY <1>3 DEF EndorsedBacking, Backing

(* An experiment that ends without a decision keeps what a run knows.      *)
LEMMA SettleKeepsInvariant ==
  ASSUME HistoryInvariant, RunInvariant, UNCHANGED vars, UNCHANGED view, phase = "running",
         NEW e \in pending, Ready(e),
         NEW S \in At(e)!SupportChoices(e[1], seen[e]),
         marked' = IF Marks(e, At(e)!KeptProposal(e[1], S))
                   THEN marked \cup {<<e[1], At(e)!KeptProposal(e[1], S)>>}
                   ELSE marked,
         Settle(e, S)
  PROVE  RunInvariant'
<1>1. /\ TypeOK /\ WellFormed /\ AncestryClosed /\ SettledFromAncestry
      /\ RunTypeOK /\ ViewReceived /\ WorkedInOrder /\ NothingForgotten
      /\ EndorsementsFound /\ AgreesWithHistory
  BY DEF HistoryInvariant, InductiveInvariant, RunInvariant
<1>2. UNCHANGED <<head, seen, support, proposal, endorsed, decision, view, phase, decider>>
  BY DEF vars, Settle
<1>3. /\ e \in WitnessEvents /\ e \in Events /\ e \in EventId /\ e[1] \in Witness
      /\ e[1] \in Node /\ e[2] \in Nat /\ 1 <= e[2] /\ e[2] <= view[e[1]]
      /\ view[e[1]] \in Nat /\ view[e[1]] <= head[e[1]] /\ e = <<e[1], e[2]>>
  BY <1>1, WorkExists
<1>4. /\ e \notin tried /\ decider = {}
      /\ \A g \in 1..(e[2] - 1) : <<e[1], g>> \in tried
      /\ e[2] # 1 => TreeParent(e) \in tried
      /\ runProposal[TreeParent(e)] = proposal[TreeParent(e)]
      /\ proposal[TreeParent(e)] \in Nat /\ proposal[TreeParent(e)] < e[2]
      /\ proposal[TreeParent(e)] > 0 =>
           TreeParent(e) \in tried /\ <<e[1], proposal[TreeParent(e)]>> \in tried
  BY ReadyEvent
<1>5. PICK c \in Nat : c = CarriedOn(e) /\ (c > 0 => c = proposal[TreeParent(e)])
  BY ExperimentAgrees
<1>6. /\ S = support[e] /\ At(e)!KeptProposal(e[1], S) = c
      /\ At(e)!SupportCount(e[1], seen[e], S) = Backing(e)
      /\ RunEndorsedCount(e, S) = EndorsedBacking(e)
  BY <1>5, ExperimentAgrees
<1>7. /\ EndorsedBacking(e) < FPlusOne
      /\ runSupport' = [runSupport EXCEPT ![e] = support[e]]
      /\ runProposal' = [runProposal EXCEPT ![e] =
                           IF c = 0 /\ Backing(e) >= SuperMajority THEN e[2] ELSE c]
      /\ endorsement' = IF c = 0 /\ Backing(e) >= SuperMajority
                        THEN [endorsement EXCEPT ![e] = FindEndorsement(e)]
                        ELSE endorsement
      /\ tried' = tried \cup {e}
      /\ pending' = (pending \ {e}) \cup TreeChildren(e)
  BY <1>6, SameOperators DEF Settle
<1>8. marked' = IF Marks(e, c) THEN marked \cup {<<e[1], c>>} ELSE marked
  BY <1>6
<1>9. ~decision[e]
  <2>1. EndorsedBacking(e) \in Nat
    BY BackingIsNumber
  <2>2. ~(EndorsedBacking(e) >= FPlusOne)
    BY <1>7, <2>1, Thresholds
  <2> QED BY <1>1, <1>3, <2>2 DEF SettledFromAncestry
<1>10. proposal[e] = IF c = 0 /\ Backing(e) >= SuperMajority THEN e[2] ELSE c
  <2>1. proposal[e] = IF c > 0 THEN c ELSE IF Backing(e) >= SuperMajority THEN e[2] ELSE 0
    BY <1>1, <1>3, <1>5, <1>9 DEF SettledFromAncestry
  <2>2. c > 0 \/ c = 0
    BY <1>5
  <2> QED BY <1>5, <2>1, <2>2
<1>11. /\ runSupport'[e] = support[e] /\ runProposal'[e] = proposal[e]
       /\ \A d \in EventId \ {e} : /\ runSupport'[d] = runSupport[d]
                                   /\ runProposal'[d] = runProposal[d]
                                   /\ endorsement'[d] = endorsement[d]
       /\ tried \subseteq EventId \ {e}
  BY <1>1, <1>3, <1>4, <1>7, <1>10 DEF RunTypeOK
<1>12. /\ \A x \in marked' :
            /\ x \in tried' /\ endorsement'[x] > 0
            /\ <<x[1], endorsement'[x]>> \in tried' \cup decider'
       /\ marked \subseteq marked' /\ marked' \subseteq EventId
  <2>1. \A x \in tried : endorsement'[x] = endorsement[x]
    BY <1>11
  <2>2. tried \subseteq tried' /\ e \in tried' \cup decider'
    BY <1>7
  <2> QED BY <1>5, <1>8, <2>1, <2>2, MarkedInTime
<1>13. RunTypeOK'
  <2>1. proposal[e] \in Generation /\ support[e] \in SUBSET Witness
    BY <1>1, <1>3 DEF TypeOK
  <2>2. FindEndorsement(<<e[1], e[2]>>) \in Generation
    <3>1. PICK f : f = FindEndorsement(<<e[1], e[2]>>)
      OBVIOUS
    <3>2. f \in Nat /\ (f > 0 => f <= view[e[1]])
      BY <1>1, <1>3, <3>1, EndorsementFound
    <3>3. view[e[1]] \in Generation
      BY <1>1, <1>3 DEF RunTypeOK
    <3>4. f = 0 \/ f <= view[e[1]]
      BY <3>2
    <3> QED BY <1>1, <3>1, <3>2, <3>3, <3>4, Generations
  <2>3. FindEndorsement(e) \in Generation
    BY <1>3, <2>2
  <2>4. /\ runSupport' \in [EventId -> SUBSET Witness]
        /\ runProposal' \in [EventId -> Generation]
        /\ endorsement' \in [EventId -> Generation]
    BY <1>1, <1>7, <1>10, <2>1, <2>3 DEF RunTypeOK
  <2>5. pending' \in SUBSET EventId /\ tried' \in SUBSET EventId
    BY <1>1, <1>3, <1>7 DEF RunTypeOK, TreeChildren
  <2> QED BY <1>1, <1>2, <1>12, <2>4, <2>5 DEF RunTypeOK
<1>14. ViewReceived'
  BY <1>1, <1>2 DEF ViewReceived
<1>15. \A d \in TreeChildren(e) :
         /\ d = <<e[1], e[2] + 1>> /\ d \in EventId /\ d[1] = e[1] /\ d[2] = e[2] + 1
         /\ d[2] <= view[e[1]] /\ d # e /\ d \notin tried
  <2> SUFFICES ASSUME NEW d \in TreeChildren(e)
               PROVE  /\ d = <<e[1], e[2] + 1>> /\ d \in EventId /\ d[1] = e[1] /\ d[2] = e[2] + 1
                      /\ d[2] <= view[e[1]] /\ d # e /\ d \notin tried
    OBVIOUS
  <2>1. d = <<e[1], e[2] + 1>> /\ d \in EventId /\ d[1] = e[1] /\ d[2] = e[2] + 1
    BY DEF TreeChildren
  <2>2. d[2] <= view[e[1]]
    BY <2>1 DEF TreeChildren, InView
  <2>3. d # e
    BY <1>3, <2>1
  <2>4. d \notin tried
    <3> SUFFICES ASSUME d \in tried PROVE FALSE
      OBVIOUS
    <3>1. e[2] \in 1..d[2]
      BY <1>3, <2>1
    <3>2. <<d[1], e[2]>> \in tried
      BY <1>1, <3>1 DEF WorkedInOrder
    <3> QED BY <1>3, <1>4, <2>1, <3>2
  <2> QED BY <2>1, <2>2, <2>3, <2>4
<1>16. WorkedInOrder'
  <2>1. ASSUME NEW d \in pending' \cup tried' \cup decider'
        PROVE  d[1] \in Witness /\ 1 <= d[2] /\ d[2] <= view'[d[1]]
    <3>1. CASE d \in TreeChildren(e)
      BY <1>2, <1>3, <1>15, <3>1
    <3>2. CASE d \in pending \cup tried
      BY <1>1, <1>2, <3>2 DEF WorkedInOrder
    <3>3. d \in TreeChildren(e) \cup pending \cup tried
      BY <1>2, <1>4, <1>7, <2>1
    <3> QED BY <3>1, <3>2, <3>3
  <2>2. pending' \cap tried' = {}
    <3>1. pending \cap tried = {}
      BY <1>1 DEF WorkedInOrder
    <3> QED BY <1>7, <1>15, <3>1
  <2>3. ASSUME NEW d \in tried', NEW g \in 1..d[2]
        PROVE  <<d[1], g>> \in tried'
    <3>1. CASE d = e
      <4>1. g = e[2] \/ g \in 1..(e[2] - 1)
        BY <1>3, <2>3, <3>1
      <4>2. CASE g = e[2]
        BY <1>3, <1>7, <3>1, <4>2
      <4>3. CASE g \in 1..(e[2] - 1)
        BY <1>4, <1>7, <3>1, <4>3
      <4> QED BY <4>1, <4>2, <4>3
    <3>2. CASE d \in tried
      BY <1>1, <1>7, <2>3, <3>2 DEF WorkedInOrder
    <3> QED BY <1>7, <3>1, <3>2
  <2>4. ASSUME NEW d \in EventId \ tried'
        PROVE  runProposal'[d] = 0
    <3>1. d \in EventId \ {e} /\ d \in EventId \ tried
      BY <1>7
    <3> QED BY <1>1, <1>11, <3>1 DEF WorkedInOrder
  <2>5. phase' # "idle"
    BY <1>2
  <2> QED BY <2>1, <2>2, <2>3, <2>4, <2>5 DEF WorkedInOrder
<1>17. NothingForgotten'
  <2>1. /\ Tails(view)' = Tails(view)
        /\ \A d : TreeChildren(d)' = TreeChildren(d)
    BY <1>2 DEF Tails, TreeChildren, InView
  <2>2. /\ Cardinality(Tails(view)) >= SuperMajority =>
             \A w \in Tails(view) : <<w, 1>> \in pending \cup tried
        /\ \A d \in tried : TreeChildren(d) \subseteq pending \cup tried
    BY <1>1, <1>4 DEF NothingForgotten
  <2>3. pending \cup tried \subseteq pending' \cup tried' /\ TreeChildren(e) \subseteq pending'
    BY <1>7
  <2>4. \A d \in tried' : TreeChildren(d)' \subseteq pending' \cup tried'
    BY <1>7, <2>1, <2>2, <2>3
  <2>5. Cardinality(Tails(view)') >= SuperMajority =>
             \A w \in Tails(view)' : <<w, 1>> \in pending' \cup tried'
    BY <2>1, <2>2, <2>3
  <2>6. phase' # "done"
    BY <1>2
  <2>7. Cardinality(Tails(view)') >= SuperMajority
    BY <1>1, <1>4, <2>1 DEF NothingForgotten
  <2> QED BY <2>4, <2>5, <2>6, <2>7 DEF NothingForgotten
<1>18. EndorsementsFound'
  <2>1. ASSUME NEW d \in tried', runProposal'[d] > 0,
               NEW x, x = <<d[1], runProposal'[d]>>
        PROVE  /\ x[2] <= d[2]
               /\ endorsement'[x] > 0 => x[2] < endorsement'[x] /\ endorsement'[x] <= view'[d[1]]
               /\ \A g \in (x[2] + 1)..view'[d[1]] :
                    Reached(x, g)' <=> endorsement'[x] > 0 /\ endorsement'[x] <= g
               /\ endorsement'[x] > 0 /\ endorsement'[x] <= d[2] => x \in marked'
    <3>1. \A b \in tried :
            runProposal'[b] = runProposal[b] /\ endorsement'[b] = endorsement[b]
      BY <1>11
    <3>2. CASE d \in tried
      BY <1>2, <1>12, <2>1, <3>1, <3>2, EndorsementsKept
    <3>3. CASE d = e /\ c > 0
      <4>1. PICK t : t = TreeParent(e)
        OBVIOUS
      <4>2. /\ t \in tried /\ t[1] = e[1] /\ t[2] = e[2] - 1
            /\ runProposal'[t] = c /\ c < e[2]
        BY <1>4, <1>5, <3>1, <3>3, <4>1 DEF TreeParent
      <4>3. x = <<t[1], runProposal'[t]>> /\ x[2] = c /\ x = <<e[1], c>>
        BY <1>5, <1>10, <1>11, <2>1, <3>3, <4>2
      <4>4. /\ x \in tried
            /\ x[2] <= t[2]
            /\ endorsement'[x] > 0 => x[2] < endorsement'[x] /\ endorsement'[x] <= view'[t[1]]
            /\ \A g \in (x[2] + 1)..view'[t[1]] :
                 Reached(x, g)' <=> endorsement'[x] > 0 /\ endorsement'[x] <= g
            /\ endorsement'[x] > 0 /\ endorsement'[x] <= t[2] => x \in marked'
        BY <1>2, <1>12, <3>1, <3>3, <4>2, <4>3, EndorsementsKept
      <4>5. endorsement'[x] \in Nat
        BY <1>1, <1>13, <4>4, Generations DEF RunTypeOK
      <4>6. endorsement'[x] = e[2] => x \in marked'
        <5>1. endorsement'[x] = endorsement[x]
          BY <3>1, <4>4
        <5>2. endorsement[x] = e[2] /\ x \notin marked => Marks(e, c)
          BY <3>3, <4>3 DEF Marks
        <5>3. Marks(e, c) => x \in marked'
          BY <1>8, <4>3
        <5> QED BY <1>12, <5>1, <5>2, <5>3
      <4>7. endorsement'[x] > 0 /\ endorsement'[x] <= e[2] => x \in marked'
        BY <1>3, <4>2, <4>4, <4>5, <4>6
      <4> QED BY <1>3, <1>5, <3>3, <4>2, <4>3, <4>4, <4>7
    <3>4. CASE d = e /\ c = 0
      <4>1. x = e /\ x[2] = e[2] /\ Backing(e) >= SuperMajority
        BY <1>3, <1>10, <1>11, <2>1, <3>4
      <4>2. endorsement'[x] = FindEndorsement(<<e[1], e[2]>>)
        BY <1>1, <1>3, <1>7, <3>4, <4>1 DEF RunTypeOK
      <4>3. PICK f : f = FindEndorsement(<<e[1], e[2]>>)
        OBVIOUS
      <4>4. /\ f \in Nat
            /\ f > 0 => e[2] < f /\ f <= view[e[1]]
            /\ \A g \in (e[2] + 1)..view[e[1]] : Reached(<<e[1], e[2]>>, g) <=> f > 0 /\ f <= g
        BY <1>1, <1>3, <4>3, EndorsementFound
      <4>5. ASSUME NEW g
            PROVE  Reached(x, g)' <=> Reached(x, g)
        BY <1>2 DEF Reached, EndorsementReached, Endorsers, Participants, Latest
      <4>6. \A g \in (e[2] + 1)..view[e[1]] : Reached(x, g)' <=> f > 0 /\ f <= g
        BY <1>3, <4>1, <4>4, <4>5
      <4>7. ~(f > 0 /\ f <= e[2])
        BY <1>3, <4>4
      <4> QED BY <1>2, <1>3, <3>4, <4>1, <4>2, <4>3, <4>4, <4>6, <4>7
    <3>5. d \in tried \/ (d = e /\ (c > 0 \/ c = 0))
      BY <1>5, <1>7
    <3> QED BY <3>2, <3>3, <3>4, <3>5
  <2>2. ASSUME NEW d \in tried', runProposal'[d] > 0
        PROVE  EndorsementKnown(d, <<d[1], runProposal[d]>>)'
    <3>1. PICK x : x = <<d[1], runProposal'[d]>>
      OBVIOUS
    <3>2. EndorsementKnown(d, x)'
      BY <2>1, <2>2, <3>1 DEF EndorsementKnown
    <3> QED BY <3>1, <3>2
  <2> QED BY <1>12, <2>2 DEF EndorsementsFound
<1>19. AgreesWithHistory'
  <2>1. ASSUME NEW d \in tried'
        PROVE  runSupport'[d] = support[d] /\ runProposal'[d] = proposal[d] /\ ~decision[d]
    BY <1>1, <1>7, <1>9, <1>11 DEF AgreesWithHistory
  <2> QED BY <1>2, <1>4, <2>1 DEF AgreesWithHistory
<1> QED BY <1>13, <1>14, <1>16, <1>17, <1>18, <1>19 DEF RunInvariant

(* An experiment that decides ends the run with the event's set.           *)
LEMMA DecideKeepsInvariant ==
  ASSUME HistoryInvariant, RunInvariant, UNCHANGED vars, UNCHANGED view, phase = "running",
         NEW e \in pending, Ready(e),
         NEW S \in At(e)!SupportChoices(e[1], seen[e]),
         marked' = IF Marks(e, At(e)!KeptProposal(e[1], S))
                   THEN marked \cup {<<e[1], At(e)!KeptProposal(e[1], S)>>}
                   ELSE marked,
         Decide(e, S)
  PROVE  RunInvariant'
<1>1. /\ TypeOK /\ SettledFromAncestry
      /\ RunTypeOK /\ ViewReceived /\ WorkedInOrder /\ AgreesWithHistory
  BY DEF HistoryInvariant, InductiveInvariant, RunInvariant
<1>2. /\ UNCHANGED <<head, seen, support, proposal, endorsed, decision, view>>
      /\ UNCHANGED <<pending, tried, runProposal, endorsement>>
      /\ decider' = {e} /\ phase' = "done"
      /\ runSupport' = [runSupport EXCEPT ![e] = S]
  BY DEF vars, Decide
<1>3. /\ e \in WitnessEvents /\ e \in EventId /\ e[1] \in Witness
      /\ 1 <= e[2] /\ e[2] <= view[e[1]]
  BY <1>1, WorkExists
<1>4. e \notin tried /\ decider = {}
  BY ReadyEvent
<1>5. PICK c : c = CarriedOn(e)
  OBVIOUS
<1>6. /\ S = support[e] /\ At(e)!KeptProposal(e[1], S) = c
      /\ RunEndorsedCount(e, S) = EndorsedBacking(e)
  BY <1>5, ExperimentAgrees
<1>7. decision[e]
  <2>1. EndorsedBacking(e) >= FPlusOne
    BY <1>6 DEF Decide
  <2> QED BY <1>1, <1>3, <2>1 DEF SettledFromAncestry
<1>8. /\ runSupport'[e] = support[e]
      /\ \A d \in EventId \ {e} : runSupport'[d] = runSupport[d]
      /\ tried \subseteq EventId \ {e}
  BY <1>1, <1>2, <1>3, <1>4, <1>6 DEF RunTypeOK
<1>9. /\ \A x \in marked' :
           /\ x \in tried' /\ endorsement'[x] > 0
           /\ <<x[1], endorsement'[x]>> \in tried' \cup decider'
      /\ marked \subseteq marked' /\ marked' \subseteq EventId
  <2>1. marked' = IF Marks(e, c) THEN marked \cup {<<e[1], c>>} ELSE marked
    BY <1>6
  <2>2. /\ \A x \in tried : endorsement'[x] = endorsement[x]
        /\ tried \subseteq tried' /\ e \in tried' \cup decider'
    BY <1>2
  <2> QED BY <1>5, <2>1, <2>2, MarkedInTime
<1>10. RunTypeOK'
  <2>1. runSupport' \in [EventId -> SUBSET Witness]
    BY <1>1, <1>2, <1>3, <1>6 DEF RunTypeOK, TypeOK
  <2> QED BY <1>1, <1>2, <1>3, <1>9, <2>1 DEF RunTypeOK
<1>11. ViewReceived'
  BY <1>1, <1>2 DEF ViewReceived
<1>12. WorkedInOrder'
  BY <1>1, <1>2, <1>3, <1>4 DEF WorkedInOrder
<1>13. NothingForgotten'
  BY <1>2 DEF NothingForgotten
<1>14. EndorsementsFound'
  <2>1. ASSUME NEW d \in tried', runProposal'[d] > 0
        PROVE  EndorsementKnown(d, <<d[1], runProposal[d]>>)'
    <3>1. PICK x : x = <<d[1], runProposal'[d]>>
      OBVIOUS
    <3>2. EndorsementKnown(d, x)'
      BY <1>2, <1>9, <2>1, <3>1, EndorsementsKept DEF EndorsementKnown
    <3> QED BY <3>1, <3>2
  <2> QED BY <1>9, <2>1 DEF EndorsementsFound
<1>15. AgreesWithHistory'
  BY <1>1, <1>2, <1>7, <1>8 DEF AgreesWithHistory
<1> QED BY <1>10, <1>11, <1>12, <1>13, <1>14, <1>15 DEF RunInvariant

(* A run begins on a closed view, with the tails if there are 2f+1.        *)
LEMMA StartKeepsInvariant ==
  ASSUME HistoryInvariant, RunInvariant, UNCHANGED vars, Start
  PROVE  RunInvariant'
<1>1. /\ TypeOK /\ RunTypeOK /\ WorkedInOrder /\ EndorsementsFound /\ AgreesWithHistory
      /\ phase = "idle"
  BY DEF HistoryInvariant, InductiveInvariant, RunInvariant, Start
<1>2. /\ pending = {} /\ tried = {} /\ decider = {} /\ marked = {}
  BY <1>1 DEF WorkedInOrder, EndorsementsFound, EndorsementKnown
<1>3. PICK v \in Views :
        /\ view' = v
        /\ pending' = IF Cardinality(Tails(v)) < SuperMajority THEN {}
                      ELSE {<<w, 1>> : w \in Tails(v)}
        /\ phase' = "running"
        /\ UNCHANGED <<tried, runSupport, runProposal, endorsement, marked, decider>>
  BY DEF Start
<1>4. UNCHANGED <<head, seen, support, proposal, endorsed, decision>>
  BY DEF vars
<1>5. /\ v \in [Node -> Generation]
      /\ \A n \in Node : v[n] <= head[n]
      /\ \A n \in Node : v[n] > 0 => \A m \in Node : seen[<<n, v[n]>>][m] <= v[m]
  BY DEF Views
<1>6. \A w \in Tails(v) : w \in Witness /\ 1 <= v[w] /\ <<w, 1>> \in EventId
  <2> SUFFICES ASSUME NEW w \in Tails(v)
               PROVE  w \in Witness /\ 1 <= v[w] /\ <<w, 1>> \in EventId
    OBVIOUS
  <2>1. w \in Witness /\ w \in Node /\ v[w] > 0
    BY WitnessAssumption DEF Tails
  <2>2. v[w] \in Nat /\ v[w] \in Generation
    BY <1>1, <1>5, <2>1, Generations
  <2>3. 1 <= v[w]
    BY <2>1, <2>2
  <2> QED BY <1>1, <2>1, <2>2, <2>3, Generations
<1>7. RunTypeOK'
  <2>1. pending' \in SUBSET EventId
    BY <1>3, <1>6
  <2> QED BY <1>1, <1>3, <1>5, <2>1 DEF RunTypeOK
<1>8. ViewReceived'
  BY <1>3, <1>4, <1>5 DEF ViewReceived
<1>9. WorkedInOrder'
  <2>1. \A d \in pending' : d[1] \in Witness /\ 1 <= d[2] /\ d[2] <= v[d[1]]
    BY <1>3, <1>6
  <2> QED BY <1>1, <1>2, <1>3, <2>1 DEF WorkedInOrder
<1>10. NothingForgotten'
  <2>1. Cardinality(Tails(v)) \in Nat
    BY WitnessSets DEF Tails
  <2>2. Cardinality(Tails(v)) >= SuperMajority => \A w \in Tails(v) : <<w, 1>> \in pending'
    BY <1>3, <2>1, Thresholds
  <2>3. Tails(view)' = Tails(v)
    BY <1>3 DEF Tails
  <2>4. pending' # {} => Cardinality(Tails(v)) >= SuperMajority
    BY <1>3, <2>1, Thresholds
  <2> QED BY <1>2, <1>3, <2>2, <2>3, <2>4 DEF NothingForgotten
<1>11. EndorsementsFound'
  BY <1>2, <1>3 DEF EndorsementsFound
<1>12. AgreesWithHistory'
  BY <1>2, <1>3 DEF AgreesWithHistory
<1> QED BY <1>7, <1>8, <1>9, <1>10, <1>11, <1>12 DEF RunInvariant

(* A run that has nothing left ends as it stands.                          *)
LEMMA GiveUpKeepsInvariant ==
  ASSUME HistoryInvariant, RunInvariant, UNCHANGED vars, GiveUp
  PROVE  RunInvariant'
<1>1. /\ RunTypeOK /\ ViewReceived /\ WorkedInOrder /\ NothingForgotten
      /\ EndorsementsFound /\ AgreesWithHistory
  BY DEF RunInvariant
<1>2. /\ phase = "running" /\ pending = {} /\ phase' = "done"
      /\ UNCHANGED <<view, pending, tried, runSupport, runProposal, endorsement,
                     marked, decider>>
      /\ UNCHANGED <<head, seen, support, proposal, endorsed, decision>>
  BY DEF GiveUp, vars
<1>3. RunTypeOK' /\ ViewReceived' /\ WorkedInOrder' /\ AgreesWithHistory'
  BY <1>1, <1>2 DEF RunTypeOK, ViewReceived, WorkedInOrder, AgreesWithHistory
<1>4. NothingForgotten'
  BY <1>1, <1>2 DEF NothingForgotten, Tails, TreeChildren, InView
<1>5. EndorsementsFound'
  <2>1. ASSUME NEW d \in tried', runProposal'[d] > 0
        PROVE  EndorsementKnown(d, <<d[1], runProposal[d]>>)'
    <3>1. PICK x : x = <<d[1], runProposal'[d]>>
      OBVIOUS
    <3>2. EndorsementKnown(d, x)'
      BY <1>2, <2>1, <3>1, EndorsementsKept DEF EndorsementKnown
    <3> QED BY <3>1, <3>2
  <2> QED BY <1>1, <1>2, <2>1 DEF EndorsementsFound
<1> QED BY <1>3, <1>4, <1>5 DEF RunInvariant

(* History grows under a run without touching what it works on.            *)
LEMMA GrowthKeepsInvariant ==
  ASSUME HistoryInvariant, RunInvariant, [Next]_vars, UNCHANGED runVars
  PROVE  RunInvariant'
<1>1. /\ TypeOK /\ WellFormed /\ RunTypeOK /\ ViewReceived /\ WorkedInOrder
      /\ NothingForgotten /\ EndorsementsFound /\ AgreesWithHistory
  BY DEF HistoryInvariant, InductiveInvariant, RunInvariant
<1>2. UNCHANGED <<phase, view, pending, tried, runSupport, runProposal, endorsement,
                  marked, decider>>
  BY DEF runVars
<1>3. /\ \A m \in Node : head[m] <= head'[m]
      /\ \A d \in Events :
           /\ seen'[d] = seen[d] /\ support'[d] = support[d] /\ proposal'[d] = proposal[d]
           /\ endorsed'[d] = endorsed[d] /\ decision'[d] = decision[d]
      /\ \A m \in Node : \A p : \A g \in Nat :
           1 <= g /\ g <= head[m] => (Reached(<<m, p>>, g)' <=> Reached(<<m, p>>, g))
  BY <1>1, PastStays
<1>4. RunTypeOK' /\ WorkedInOrder'
  BY <1>1, <1>2 DEF RunTypeOK, WorkedInOrder
<1>5. NothingForgotten'
  BY <1>1, <1>2 DEF NothingForgotten, Tails, TreeChildren, InView
<1>6. ViewReceived'
  <2> SUFFICES ASSUME NEW n \in Node
               PROVE  /\ view[n] <= head'[n]
                      /\ \A m \in Node : view[n] > 0 => seen'[<<n, view[n]>>][m] <= view[m]
    BY <1>2 DEF ViewReceived
  <2>1. /\ view[n] \in Nat /\ view[n] <= head[n] /\ head[n] \in Nat /\ head[n] <= head'[n]
    BY <1>1, <1>3, Generations DEF RunTypeOK, ViewReceived
  <2>2. head'[n] \in Nat
    <3>1. TypeOK'
      <4>1. InductiveInvariant
        BY DEF HistoryInvariant
      <4>2. InductiveInvariant'
        BY <4>1, StepKeepsInvariant
      <4> QED BY <4>2 DEF InductiveInvariant
    <3> QED BY <3>1, BoundAssumption DEF TypeOK, Generation
  <2>3. view[n] > 0 => <<n, view[n]>> \in Events
    BY <1>1, <2>1, OnBranch
  <2>4. view[n] > 0 => seen'[<<n, view[n]>>] = seen[<<n, view[n]>>]
    BY <1>3, <2>3
  <2> QED BY <1>1, <2>1, <2>2, <2>4 DEF ViewReceived
<1>7. EndorsementsFound'
  <2>1. ASSUME NEW d \in tried', runProposal'[d] > 0
        PROVE  EndorsementKnown(d, <<d[1], runProposal[d]>>)'
    <3>1. PICK x : x = <<d[1], runProposal'[d]>>
      OBVIOUS
    <3>2. EndorsementKnown(d, x)
      BY <1>1, <1>2, <2>1, <3>1 DEF EndorsementsFound
    <3>3. /\ d \in tried /\ d[1] \in Node /\ view[d[1]] \in Nat /\ view[d[1]] <= head[d[1]]
          /\ head[d[1]] \in Nat /\ d \in EventId
      BY <1>1, <1>2, <2>1, WorkExists
    <3>4. x[2] \in Nat /\ x = <<d[1], x[2]>>
      <4>1. runProposal'[d] \in Nat
        BY <1>1, <1>2, <3>3, Generations DEF RunTypeOK
      <4> QED BY <3>1, <4>1
    <3>5. ASSUME NEW g \in (x[2] + 1)..view[d[1]]
          PROVE  Reached(x, g)' <=> Reached(x, g)
      <4>1. g \in Nat /\ 1 <= g /\ g <= head[d[1]]
        BY <3>3, <3>4
      <4>2. Reached(<<d[1], x[2]>>, g)' <=> Reached(<<d[1], x[2]>>, g)
        BY <1>3, <3>3, <4>1
      <4> QED BY <3>4, <4>2
    <3>6. EndorsementKnown(d, x)'
      BY <1>2, <3>2, <3>5 DEF EndorsementKnown
    <3> QED BY <3>1, <3>6
  <2> QED BY <1>1, <1>2, <2>1 DEF EndorsementsFound
<1>8. AgreesWithHistory'
  <2>1. \A d \in tried \cup decider : d \in Events
    BY <1>1, WorkExists
  <2> QED BY <1>1, <1>2, <1>3, <2>1 DEF AgreesWithHistory
<1> QED BY <1>4, <1>5, <1>6, <1>7, <1>8 DEF RunInvariant

(* Every step, of the run or of the history under it.                      *)
LEMMA StepKeepsRun ==
  HistoryInvariant /\ RunInvariant /\ [RunStep]_<<vars, runVars>>
    => HistoryInvariant' /\ RunInvariant'
<1> SUFFICES ASSUME HistoryInvariant, RunInvariant, [RunStep]_<<vars, runVars>>
             PROVE  HistoryInvariant' /\ RunInvariant'
  OBVIOUS
<1>1. [Next]_vars
  BY DEF RunStep
<1>2. HistoryInvariant'
  BY <1>1, StepKeepsHistory
<1>3. CASE UNCHANGED runVars
  BY <1>1, <1>2, <1>3, GrowthKeepsInvariant
<1>4. CASE RunNext /\ UNCHANGED vars
  <2>1. CASE Start
    BY <1>2, <1>4, <2>1, StartKeepsInvariant
  <2>2. CASE GiveUp
    BY <1>2, <1>4, <2>2, GiveUpKeepsInvariant
  <2>3. ASSUME NEW e \in pending, Experiment(e)
        PROVE  RunInvariant'
    <3>1. phase = "running" /\ Ready(e) /\ UNCHANGED view
      BY <2>3 DEF Experiment
    <3>2. PICK S \in At(e)!SupportChoices(e[1], seen[e]) :
            /\ marked' = IF Marks(e, At(e)!KeptProposal(e[1], S))
                         THEN marked \cup {<<e[1], At(e)!KeptProposal(e[1], S)>>}
                         ELSE marked
            /\ Settle(e, S) \/ Decide(e, S)
      BY <2>3 DEF Experiment
    <3>3. CASE Settle(e, S)
      BY <1>4, <3>1, <3>2, <3>3, SettleKeepsInvariant
    <3>4. CASE Decide(e, S)
      BY <1>4, <3>1, <3>2, <3>4, DecideKeepsInvariant
    <3> QED BY <3>2, <3>3, <3>4
  <2> QED BY <1>2, <1>4, <2>1, <2>2, <2>3 DEF RunNext
<1>5. UNCHANGED runVars \/ (RunNext /\ UNCHANGED vars)
  BY DEF RunStep
<1> QED BY <1>3, <1>4, <1>5

(* Before anything has happened there is nothing to go wrong.              *)
LEMMA InitialRun == Init /\ RunInit => HistoryInvariant /\ RunInvariant
<1> SUFFICES ASSUME Init, RunInit
             PROVE  HistoryInvariant /\ RunInvariant
  OBVIOUS
<1>1. InductiveInvariant
  BY InitialInvariant
<1>2. TypeOK
  BY <1>1 DEF InductiveInvariant
<1>3. Events = {} /\ WitnessEvents = {}
  BY BoundAssumption DEF Init, WitnessEvents, Events, Exists, EventId, Generation
<1>4. HistoryInvariant
  BY <1>1, <1>3
     DEF HistoryInvariant, UnionOfStrongSupport, SettledFromAncestry, EndorsedOnceReached,
         OnlyWitnessesDecide
<1>5. 0 \in Generation
  BY BoundAssumption DEF Generation
<1>6. RunTypeOK
  BY <1>5 DEF RunInit, RunTypeOK
<1>7. ViewReceived
  BY <1>2, Generations DEF RunInit, ViewReceived, Init
<1>8. WorkedInOrder /\ NothingForgotten /\ EndorsementsFound /\ AgreesWithHistory
  BY DEF RunInit, WorkedInOrder, NothingForgotten, EndorsementsFound, AgreesWithHistory
<1> QED BY <1>4, <1>6, <1>7, <1>8 DEF RunInvariant

-----------------------------------------------------------------------------
(* A view that holds an endorsed proposal holds the tails of the 2f+1      *)
(* witnesses whose events endorse it.                                      *)
LEMMA EndorsersInView ==
  ASSUME TypeOK, WellFormed, AncestryClosed, RunTypeOK, ViewReceived,
         NEW n \in Witness, NEW p \in Nat, NEW g \in Nat, 1 <= g, g <= view[n],
         Reached(<<n, p>>, g)
  PROVE  Cardinality(Tails(view)) >= SuperMajority
<1>1. n \in Node
  BY WitnessAssumption
<1>2. /\ view[n] \in Nat /\ view[n] <= head[n]
      /\ \A m \in Node : view[m] \in Nat
  BY <1>1, Generations DEF RunTypeOK, ViewReceived
<1>3. PICK h \in Nat : h = view[n]
  BY <1>2
<1>4. ASSUME NEW w \in Endorsers(n, seen[<<n, g>>], p)
      PROVE  w \in Tails(view)
  <2>1. CASE w = n
    BY <1>2, <2>1 DEF Tails
  <2>2. CASE w # n
    <3>1. w \in Witness /\ w \in Node /\ seen[<<n, g>>][w] > 0
      BY <2>2, WitnessAssumption DEF Endorsers, Participants
    <3>2. seen[<<n, g>>][w] <= seen[<<n, h>>][w]
      BY <1>1, <1>2, <1>3, <3>1, BranchMonotone
    <3>3. seen[<<n, h>>][w] <= view[w]
      BY <1>1, <1>2, <1>3, <3>1 DEF ViewReceived
    <3>4. <<n, g>> \in EventId /\ <<n, h>> \in EventId
      BY <1>1, <1>2, <1>3, Generations
    <3>5. seen[<<n, g>>][w] \in Nat /\ seen[<<n, h>>][w] \in Nat /\ view[w] \in Nat
      BY <1>2, <3>1, <3>4, Generations
    <3>6. view[w] > 0
      BY <3>1, <3>2, <3>3, <3>5
    <3> QED BY <3>1, <3>6 DEF Tails
  <2> QED BY <2>1, <2>2
<1>5. PICK A, B : A = Endorsers(n, seen[<<n, g>>], p) /\ B = Tails(view)
  OBVIOUS
<1>6. A \subseteq B /\ Cardinality(A) >= SuperMajority
  BY <1>4, <1>5 DEF Reached, EndorsementReached
<1>7. B \in SUBSET Witness
  BY <1>5 DEF Tails
<1>8. IsFiniteSet(B) /\ Cardinality(B) \in Nat /\ Cardinality(A) \in Nat
  BY <1>6, <1>7, WitnessSets
<1>9. Cardinality(A) <= Cardinality(B)
  BY <1>6, <1>8, FS_Subset
<1> QED BY <1>5, <1>6, <1>8, <1>9, Thresholds

(* An event with an endorsed proposal, if it is in view, brings them too.  *)
LEMMA EndorsedInView ==
  ASSUME HistoryInvariant, RunTypeOK, ViewReceived,
         NEW d \in WitnessEvents, InView(d), endorsed[d] \/ EndorsedHere(d)
  PROVE  Cardinality(Tails(view)) >= SuperMajority
<1>1. /\ TypeOK /\ WellFormed /\ AncestryClosed /\ SettledFromAncestry /\ EndorsedOnceReached
  BY DEF HistoryInvariant, InductiveInvariant
<1>2. /\ d \in Events /\ d[1] \in Witness
  BY DEF WitnessEvents
<1>3. /\ d[1] \in Node /\ d[2] \in Nat /\ 1 <= d[2] /\ d[2] <= head[d[1]] /\ d[2] <= view[d[1]]
      /\ d[2] - 1 \in Nat /\ TreeParent(d) = <<d[1], d[2] - 1>> /\ TreeParent(d) \in EventId
      /\ head[d[1]] \in Nat /\ view[d[1]] \in Nat
  BY <1>1, <1>2, EventsOnBranch, Generations DEF InView, RunTypeOK
<1>4. CarriedOn(d) > 0 /\ (endorsed[TreeParent(d)] \/ EndorsedHere(d))
  BY <1>1 DEF SettledFromAncestry, EndorsedHere
<1>5. PICK p : p = proposal[TreeParent(d)]
  OBVIOUS
<1>6. p \in Nat
  BY <1>1, <1>3, <1>5, Generations DEF TypeOK
<1>7. CarriedOn(d) = p /\ p > 0
  BY <1>4, <1>5 DEF CarriedOn
<1>8. CASE EndorsedHere(d)
  <2>1. Reached(<<d[1], p>>, d[2])
    BY <1>7, <1>8 DEF EndorsedHere
  <2> QED BY <1>1, <1>2, <1>3, <1>6, <2>1, EndorsersInView
<1>9. CASE endorsed[TreeParent(d)]
  <2>1. PICK g \in Nat : g = d[2] - 1
    BY <1>3
  <2>2. TreeParent(d) = <<d[1], g>>
    BY <1>3, <2>1
  <2>3. g # 0
    BY <1>1, <1>3, <1>5, <1>7, <2>2, NothingBefore
  <2>4. 1 <= g /\ g <= head[d[1]] /\ g <= view[d[1]]
    BY <1>3, <2>1, <2>3
  <2>5. <<d[1], g>> \in WitnessEvents
    BY <1>1, <1>2, <1>3, <2>4, OnBranch
  <2>6. Reached(<<d[1], p>>, g)
    BY <1>1, <1>5, <1>7, <1>9, <2>2, <2>5 DEF EndorsedOnceReached
  <2> QED BY <1>1, <1>2, <1>6, <2>4, <2>6, EndorsersInView
<1> QED BY <1>4, <1>8, <1>9

(* So findConsensus misses nothing where it stops for too few tails.       *)
LEMMA DecisionInView ==
  ASSUME HistoryInvariant, RunTypeOK, ViewReceived,
         NEW e \in Events, InView(e), decision[e]
  PROVE  Cardinality(Tails(view)) >= SuperMajority
<1>1. /\ TypeOK /\ WellFormed /\ AncestryClosed /\ SettledFromAncestry
  BY DEF HistoryInvariant, InductiveInvariant
<1>2. e \in WitnessEvents
  BY DEF HistoryInvariant, OnlyWitnessesDecide, WitnessEvents
<1>3. EndorsedBacking(e) >= FPlusOne
  BY <1>1, <1>2 DEF SettledFromAncestry
<1>4. CASE EndorsedHere(e)
  BY <1>2, <1>4, EndorsedInView
<1>5. CASE ~EndorsedHere(e)
  <2>1. PICK W : W = {w \in Supporters(seen[e], support[e]) : endorsed[Latest(seen[e], w)]}
    OBVIOUS
  <2>2. EndorsedBacking(e) = Cardinality(W) + 0
    BY <1>5, <2>1 DEF EndorsedBacking
  <2>3. W \in SUBSET Witness
    BY <2>1 DEF Supporters, Participants
  <2>4. W # {}
    <3>1. Cardinality(W) \in Nat
      BY <2>3, WitnessSets
    <3>2. Cardinality(W) # 0
      BY <1>3, <2>2, <3>1, Thresholds
    <3> QED BY <3>2, FS_EmptySet
  <2>5. PICK w \in W : TRUE
    BY <2>4
  <2>6. /\ w \in Witness /\ w \in Node /\ seen[e][w] > 0
        /\ endorsed[Latest(seen[e], w)]
    BY <2>1, <2>5, WitnessAssumption DEF Supporters, Participants
  <2>7. /\ e \in EventId /\ e = <<e[1], e[2]>> /\ e[1] \in Node /\ e[2] \in Nat /\ 1 <= e[2]
        /\ e[2] <= view[e[1]] /\ view[e[1]] \in Nat /\ view[e[1]] <= head[e[1]]
        /\ head[e[1]] \in Nat
    BY <1>1, EventsOnBranch, Generations DEF InView, RunTypeOK, ViewReceived
  <2>8. PICK i \in Nat, j \in Nat : i = e[2] /\ j = view[e[1]]
    BY <2>7
  <2>9. e = <<e[1], i>> /\ i <= j /\ j <= head[e[1]] /\ <<e[1], j>> \in EventId
    BY <1>1, <2>7, <2>8, Generations
  <2>10. seen[<<e[1], i>>][w] <= seen[<<e[1], j>>][w]
    BY <1>1, <2>6, <2>7, <2>9, BranchMonotone
  <2>11. j > 0
    BY <2>7, <2>8
  <2>12. seen[<<e[1], j>>][w] <= view[w]
    BY <2>6, <2>7, <2>8, <2>11 DEF ViewReceived
  <2>13. PICK g \in Nat : g = seen[e][w]
    BY <1>1, <2>6, <2>7, Generations
  <2>14. seen[<<e[1], j>>][w] \in Nat /\ view[w] \in Nat /\ view[w] <= head[w] /\ head[w] \in Nat
    BY <1>1, <2>6, <2>9, Generations DEF RunTypeOK, ViewReceived
  <2>15. 1 <= g /\ g <= view[w] /\ g <= head[w]
    BY <2>6, <2>9, <2>10, <2>12, <2>13, <2>14
  <2>16. Latest(seen[e], w) = <<w, g>>
    BY <2>13 DEF Latest
  <2>17. <<w, g>> \in WitnessEvents /\ InView(<<w, g>>) /\ endorsed[<<w, g>>]
    BY <1>1, <2>6, <2>15, <2>16, OnBranch DEF InView
  <2> QED BY <2>17, EndorsedInView
<1> QED BY <1>4, <1>5

(* A run that is done without a decision has tried every event in view.    *)
LEMMA AllTried ==
  ASSUME HistoryInvariant, RunInvariant, phase = "done", decider = {},
         Cardinality(Tails(view)) >= SuperMajority,
         NEW e \in WitnessEvents, InView(e)
  PROVE  e \in tried
<1>1. TypeOK /\ RunTypeOK /\ NothingForgotten /\ ViewReceived
  BY DEF HistoryInvariant, InductiveInvariant, RunInvariant
<1>2. /\ e[1] \in Witness /\ e[1] \in Node /\ e = <<e[1], e[2]>> /\ e[2] \in Nat /\ 1 <= e[2]
      /\ e[2] \in Generation /\ e[2] <= view[e[1]] /\ view[e[1]] \in Nat
  BY <1>1, EventsOnBranch, Generations DEF InView, RunTypeOK, WitnessEvents
<1>3. /\ pending = {}
      /\ \A w \in Tails(view) : <<w, 1>> \in tried
      /\ \A d \in tried : TreeChildren(d) \subseteq tried
  BY <1>1 DEF NothingForgotten
<1>4. PICK n, top : n = e[1] /\ top = e[2]
  OBVIOUS
<1> DEFINE S == {d \in Nat : <<n, d + 1>> \in tried}
<1>5. 0 \in S
  <2>1. view[n] > 0
    BY <1>2, <1>4
  <2>2. <<n, 1>> \in tried
    BY <1>2, <1>3, <1>4, <2>1 DEF Tails
  <2> QED BY <2>2
<1>6. ASSUME NEW d \in 0..((top - 1) - 1), d \in S
      PROVE  d + 1 \in S
  <2>1. PICK k \in Nat : k = d + 1
    OBVIOUS
  <2>2. <<n, k>> \in tried
    BY <1>6, <2>1
  <2>3. k + 1 \in Nat /\ k + 1 <= top
    BY <1>2, <1>4, <2>1
  <2>4. <<n, k + 1>> \in EventId
    BY <1>1, <1>2, <1>4, <2>3, Generations
  <2>5. k + 1 <= view[n]
    BY <1>2, <1>4, <2>3
  <2>6. <<n, k + 1>> \in TreeChildren(<<n, k>>)
    BY <2>4, <2>5 DEF TreeChildren, InView
  <2>7. <<n, k + 1>> \in tried
    BY <1>3, <2>2, <2>6
  <2> QED BY <2>1, <2>7
<1> HIDE DEF S
<1>7. PICK m \in Nat : m = top - 1
  BY <1>2, <1>4
<1>8. m \in S
  <2>1. \A d \in 0..(m - 1) : d \in S => d + 1 \in S
    BY <1>6, <1>7
  <2>2. 0..m \subseteq S
    BY <1>5, <2>1, IntervalInduction
  <2> QED BY <2>2
<1>9. m + 1 = top
  BY <1>2, <1>4, <1>7
<1> QED BY <1>2, <1>4, <1>8, <1>9 DEF S

(* The invariant of the history and of a run of _runExperiments on any     *)
(* view of it holds in every reachable state.                              *)
THEOREM RunInvariantHolds == RunSpec => [](HistoryInvariant /\ RunInvariant)
<1> QED
  BY InitialRun, StepKeepsRun, PTL DEF RunSpec, RunStep

(* A run of findConsensus is type correct; it never works on an event that *)
(* does not exist.                                                         *)
THEOREM RunTypeCorrect == RunSpec => []RunTypeOK
<1>1. RunInvariant => RunTypeOK
  BY DEF RunInvariant
<1> QED
  BY <1>1, RunInvariantHolds, PTL

(* What _experiment computes for an event (support, proposal, whether that *)
(* is endorsed) is what its ancestry says: it is the same on every node,   *)
(* whatever else the node has received, in whatever order branches are     *)
(* worked off and events deferred, and while the history goes on growing.  *)
THEOREM ViewsAgree == RunSpec => []ViewIndependence
<1>1. HistoryInvariant /\ RunInvariant => ViewIndependence
  <2> SUFFICES ASSUME HistoryInvariant, RunInvariant, NEW e \in tried
               PROVE  /\ runSupport[e] = support[e]
                      /\ runProposal[e] = proposal[e]
                      /\ HasEndorsedProposal(e) = endorsed[e]
    BY DEF ViewIndependence
  <2>1. HasEndorsedProposal(e) = endorsed[e]
    BY TriedEndorsed
  <2>2. runSupport[e] = support[e] /\ runProposal[e] = proposal[e]
    BY DEF RunInvariant, AgreesWithHistory
  <2> QED BY <2>1, <2>2
<1> QED
  BY <1>1, RunInvariantHolds, PTL

(* findConsensus returns consensus if and only if what the node has        *)
(* received holds an event that decides, and returns that event's set:     *)
(* neither the early return for too few tails nor the deferring of events  *)
(* in _runExperiments loses a decision.                                    *)
THEOREM ConsensusFound == RunSpec => []FindsConsensusInView
<1>1. HistoryInvariant /\ RunInvariant => FindsConsensusInView
  <2> SUFFICES ASSUME HistoryInvariant, RunInvariant, phase = "done"
               PROVE  /\ decider = {} <=> ~ \E e \in Events : InView(e) /\ decision[e]
                      /\ \A e \in decider : decision[e] /\ runSupport[e] = support[e]
    BY DEF FindsConsensusInView
  <2>1. /\ TypeOK /\ RunTypeOK /\ ViewReceived /\ WorkedInOrder /\ AgreesWithHistory
    BY DEF HistoryInvariant, InductiveInvariant, RunInvariant
  <2>2. \A e \in decider : decision[e] /\ runSupport[e] = support[e]
    BY <2>1 DEF AgreesWithHistory
  <2>3. \A e \in decider : e \in Events /\ InView(e)
    BY <2>1, WorkExists DEF InView
  <2>4. ASSUME decider = {}, NEW e \in Events, InView(e), decision[e]
        PROVE  FALSE
    <3>1. Cardinality(Tails(view)) >= SuperMajority
      BY <2>1, <2>4, DecisionInView
    <3>2. e \in WitnessEvents
      BY <2>4 DEF HistoryInvariant, OnlyWitnessesDecide, WitnessEvents
    <3>3. e \in tried
      BY <2>4, <3>1, <3>2, AllTried
    <3> QED BY <2>1, <2>4, <3>3 DEF AgreesWithHistory
  <2> QED BY <2>2, <2>3, <2>4
<1> QED
  BY <1>1, RunInvariantHolds, PTL

-----------------------------------------------------------------------------
(* The events e has seen.                                                  *)
PastOf(e) == {x \in EventId : 1 <= x[2] /\ x[2] <= seen[e][x[1]]}

(* An event that must wait does so, directly or not, for one that is       *)
(* pending as well, and that has seen less.                                *)
LEMMA WaitsForEarlier ==
  ASSUME HistoryInvariant, RunInvariant, phase = "running",
         NEW e \in pending, ~Ready(e)
  PROVE  \E d \in pending : PastOf(d) \subseteq PastOf(e) /\ PastOf(d) # PastOf(e)
<1>1. /\ TypeOK /\ WellFormed /\ AncestryClosed /\ RunTypeOK /\ ViewReceived
      /\ WorkedInOrder /\ NothingForgotten /\ AgreesWithHistory
  BY DEF HistoryInvariant, InductiveInvariant, RunInvariant
<1>2. /\ e \in Events /\ e \in EventId /\ e[1] \in Node /\ e[2] \in Nat /\ e[2] <= view[e[1]]
      /\ 1 <= e[2] /\ e = <<e[1], e[2]>>
      /\ view[e[1]] \in Nat /\ view[e[1]] <= head[e[1]]
  BY <1>1, WorkExists
<1>3. /\ \A u \in Tails(view) : <<u, 1>> \in pending \cup tried
      /\ \A d \in tried : TreeChildren(d) \subseteq pending \cup tried
  BY <1>1 DEF NothingForgotten, AgreesWithHistory
<1>4. PICK w \in Participants(seen[e]) : Latest(seen[e], w) \notin tried
  BY DEF Ready
<1>5. PICK h : h = seen[e][w]
  OBVIOUS
<1>6. /\ w \in Witness /\ w \in Node /\ h \in Nat /\ 1 <= h /\ <<w, h>> \notin tried
  BY <1>1, <1>2, <1>4, <1>5, Generations DEF Participants, Latest
<1>7. h <= view[w] /\ view[w] \in Nat /\ view[w] \in Generation /\ view[w] <= head[w]
  <2>1. PICK n, g, v : n = e[1] /\ g = e[2] /\ v = view[e[1]]
    OBVIOUS
  <2>2. n \in Node /\ g \in Nat /\ v \in Nat /\ g <= v /\ v <= head[n] /\ v > 0 /\ e = <<n, g>>
    BY <1>2, <2>1
  <2>3. seen[<<n, g>>][w] <= seen[<<n, v>>][w]
    BY <1>1, <1>6, <2>2, BranchMonotone
  <2>4. seen[<<n, v>>][w] <= view[w]
    BY <1>1, <1>6, <2>1, <2>2 DEF ViewReceived
  <2>5. view[w] \in Generation /\ view[w] <= head[w]
    BY <1>1, <1>6 DEF RunTypeOK, ViewReceived
  <2>6. view[w] \in Nat /\ seen[<<n, v>>][w] \in Nat
    BY <1>1, <1>6, <2>2, <2>5, Generations
  <2> QED BY <1>5, <1>6, <2>2, <2>3, <2>4, <2>5, <2>6
<1> DEFINE Untried == {g \in Nat : 1 <= g /\ <<w, g>> \notin tried}
<1>8. PICK g \in Untried : \A i \in Untried : g <= i
  <2>1. Untried \in SUBSET Nat /\ h \in Untried
    BY <1>6
  <2> HIDE DEF Untried
  <2> QED BY <2>1, LeastNumber
<1>9. /\ g \in Nat /\ 1 <= g /\ g <= h /\ <<w, g>> \notin tried
      /\ g # 1 => <<w, g - 1>> \in tried
  BY <1>6, <1>8
<1>10. <<w, g>> \in pending
  <2>1. CASE g = 1
    <3>1. w \in Tails(view)
      BY <1>6, <1>7 DEF Tails
    <3> QED BY <1>3, <1>9, <2>1, <3>1
  <2>2. CASE g # 1
    <3>1. PICK i \in Nat : i = g - 1 /\ i + 1 = g
      BY <1>9
    <3>2. g <= view[w]
      BY <1>6, <1>7, <1>9
    <3>3. <<w, g>> \in EventId
      BY <1>1, <1>6, <1>7, <1>9, <3>2, Generations
    <3>4. <<w, g>> \in TreeChildren(<<w, i>>)
      BY <3>1, <3>2, <3>3 DEF TreeChildren, InView
    <3> QED BY <1>3, <1>9, <2>2, <3>1, <3>4
  <2> QED BY <2>1, <2>2
<1>11. ASSUME NEW k \in Node
       PROVE  seen[<<w, g>>][k] <= seen[e][k] /\ seen[<<w, g>>][k] \in Nat /\ seen[e][k] \in Nat
  <2>1. seen[<<w, g>>][k] <= seen[<<w, h>>][k]
    BY <1>1, <1>6, <1>7, <1>9, Generations, BranchMonotone
  <2>2. seen[<<w, h>>][k] <= seen[e][k]
    BY <1>1, <1>2, <1>5, <1>6 DEF AncestryClosed
  <2>3. <<w, g>> \in EventId /\ <<w, h>> \in EventId
    BY <1>1, <1>6, <1>7, <1>9, Generations
  <2>4. seen[<<w, g>>][k] \in Nat /\ seen[<<w, h>>][k] \in Nat /\ seen[e][k] \in Nat
    BY <1>1, <1>2, <2>3, Generations
  <2> QED BY <2>1, <2>2, <2>4
<1>12. PastOf(<<w, g>>) \subseteq PastOf(e)
  <2> SUFFICES ASSUME NEW x \in PastOf(<<w, g>>)
               PROVE  x \in PastOf(e)
    OBVIOUS
  <2>1. x \in EventId /\ 1 <= x[2] /\ x[2] <= seen[<<w, g>>][x[1]]
    BY DEF PastOf
  <2>2. x[1] \in Node /\ x[2] \in Nat
    BY <1>1, <2>1, Generations DEF EventId
  <2>3. x[2] <= seen[e][x[1]]
    BY <1>11, <2>1, <2>2
  <2> QED BY <2>1, <2>3 DEF PastOf
<1>13. <<w, g>> \in PastOf(e) /\ <<w, g>> \notin PastOf(<<w, g>>)
  <2>1. <<w, g>> \in EventId /\ <<w, g>> \in Events
    BY <1>1, <1>6, <1>7, <1>9, <1>10, WorkExists
  <2>2. seen[<<w, g>>][w] = g - 1
    BY <1>1, <2>1 DEF WellFormed
  <2> QED BY <1>5, <1>6, <1>9, <2>1, <2>2 DEF PastOf
<1> QED BY <1>10, <1>12, <1>13

(* _runExperiments is never left with deferred events only: whatever a     *)
(* node has received, and in whatever order it has worked so far, one of   *)
(* the events it still has to try finds all it depends on computed.        *)
THEOREM RunsNeverStick == RunSpec => []NeverStuck
<1>1. HistoryInvariant /\ RunInvariant => NeverStuck
  <2> SUFFICES ASSUME HistoryInvariant, RunInvariant, phase = "running", pending # {},
                      \A e \in pending : ~Ready(e)
               PROVE  FALSE
    BY DEF NeverStuck
  <2>1. ASSUME NEW e
        PROVE  IsFiniteSet(PastOf(e)) /\ Cardinality(PastOf(e)) \in Nat
    <3>1. IsFiniteSet(Node) /\ IsFiniteSet(Generation)
      BY WitnessAssumption, BoundAssumption, FS_Interval DEF Generation
    <3>2. IsFiniteSet(EventId)
      BY <3>1, FS_Product DEF EventId
    <3>3. IsFiniteSet(PastOf(e))
      BY <3>2, FS_Subset DEF PastOf
    <3> QED BY <3>3, FS_CardinalityType
  <2> DEFINE Sizes == {Cardinality(PastOf(e)) : e \in pending}
  <2>2. PICK least \in Sizes : \A i \in Sizes : least <= i
    <3>1. Sizes \in SUBSET Nat /\ Sizes # {}
      BY <2>1
    <3> HIDE DEF Sizes
    <3> QED BY <3>1, LeastNumber
  <2>3. PICK e \in pending : Cardinality(PastOf(e)) = least
    OBVIOUS
  <2>4. PICK d \in pending : PastOf(d) \subseteq PastOf(e) /\ PastOf(d) # PastOf(e)
    BY WaitsForEarlier
  <2>5. PICK i, j : i = Cardinality(PastOf(d)) /\ j = Cardinality(PastOf(e))
    OBVIOUS
  <2>6. i <= j /\ i # j /\ i \in Nat /\ j \in Nat
    BY <2>1, <2>4, <2>5, FS_Subset
  <2>7. j <= i
    BY <2>2, <2>3, <2>5
  <2> QED BY <2>6, <2>7
<1> QED
  BY <1>1, RunInvariantHolds, PTL

(* Every experiment tries an event that was not tried before, or ends the  *)
(* run: a deferred event is put back without a change, so that no run goes *)
(* on for longer than its view has events.                                 *)
THEOREM RunsAdvance == RunSpec => [][RunAdvances]_runVars
<1>1. RunInvariant /\ [RunStep]_<<vars, runVars>> => [RunAdvances]_runVars
  <2> SUFFICES ASSUME RunInvariant, RunNext, phase = "running"
               PROVE  phase' = "done" \/ (tried \subseteq tried' /\ tried' # tried)
    BY DEF RunStep, RunAdvances, runVars
  <2>1. pending \cap tried = {}
    BY DEF RunInvariant, WorkedInOrder
  <2>2. CASE Start
    BY <2>2 DEF Start
  <2>3. CASE GiveUp
    BY <2>3 DEF GiveUp
  <2>4. ASSUME NEW e \in pending, Experiment(e)
        PROVE  phase' = "done" \/ (tried \subseteq tried' /\ tried' # tried)
    <3>1. PICK S : Settle(e, S) \/ Decide(e, S)
      BY <2>4 DEF Experiment
    <3>2. Settle(e, S) => tried' = tried \cup {e}
      BY DEF Settle
    <3>3. Decide(e, S) => phase' = "done"
      BY DEF Decide
    <3> QED BY <2>1, <3>1, <3>2, <3>3
  <2> QED BY <2>2, <2>3, <2>4 DEF RunNext
<1> QED
  BY <1>1, RunInvariantHolds, PTL DEF RunSpec
=============================================================================
