----------------------------- MODULE Gossip_proofs -----------------------------
(***************************************************************************)
(* Proofs about Gossip, for any peers, any history of theirs without       *)
(* cycles, any depth and any permits: what a node queues and stores has no *)
(* gaps, is valid and within its height, and peers go on announcing what   *)
(* they have merged until they have answered a request.                    *)
(***************************************************************************)
EXTENDS Gossip, Induction, FiniteSetTheorems

-----------------------------------------------------------------------------
(* History *)

LEMMA ParentTypes ==
  /\ \A m \in MergeEvent : /\ MergeParents(m) \subseteq MergeEvent
                           /\ Regulars(m) \subseteq RegularEvent
                           /\ ParentsOf[m] \subseteq MergeParents(m) \cup Regulars(m)
                           /\ ParentsOf[m] \cup MergeParents(m) \subseteq Parents(m)
                           /\ ParentsOf[m] \cup MergeParents(m) \subseteq Event
  /\ MergeEvent \subseteq Event /\ RegularEvent \subseteq Event
  /\ \A e \in Event : e \in MergeEvent <=> e \notin RegularEvent
BY GossipAssumption DEF MergeParents, Regulars, Parents, Event

(* A regular event has one merge event that vouches for it.                *)
LEMMA OneVouches ==
  ASSUME NEW r \in RegularEvent, NEW m \in MergeEvent, NEW n \in MergeEvent,
         r \in ParentsOf[m], r \in ParentsOf[n]
  PROVE  m = n
<1> DEFINE S == {k \in MergeEvent : r \in ParentsOf[k]}
<1>1. IsFiniteSet(S) /\ Cardinality(S) = 1
  BY AncestryAssumption, FS_Subset, OneMerge
<1>2. \E x : S = {x}
  <2> HIDE DEF S
  <2> QED BY <1>1, FS_Singleton
<1> QED BY <1>2

\* The least set with m that is closed under merge parents.
Closed(S) == \A m \in S : MergeParents(m) \subseteq S
LeastWith(m) == {x \in MergeEvent : \A S \in SUBSET MergeEvent : m \in S /\ Closed(S) => x \in S}

(* Ancestry is what its definition says: the least closed sets satisfy the *)
(* equation.                                                               *)
LEMMA AncestryIs ==
  Ancestry = [m \in MergeEvent |-> {m} \cup UNION {Ancestry[p] : p \in MergeParents(m)}]
<1> DEFINE IsAncestry(f) ==
             f = [m \in MergeEvent |-> {m} \cup UNION {f[p] : p \in MergeParents(m)}]
           least == [m \in MergeEvent |-> LeastWith(m)]
<1>1. ASSUME NEW m \in MergeEvent
      PROVE  LeastWith(m) \subseteq MergeEvent /\ m \in LeastWith(m) /\ Closed(LeastWith(m))
  <2>1. ASSUME NEW x \in LeastWith(m), NEW y \in MergeParents(x)
        PROVE  y \in LeastWith(m)
    <3>1. y \in MergeEvent
      BY ParentTypes DEF LeastWith
    <3>2. \A S \in SUBSET MergeEvent : m \in S /\ Closed(S) => y \in S
      BY DEF LeastWith, Closed
    <3> QED BY <3>1, <3>2 DEF LeastWith
  <2> QED BY <2>1 DEF LeastWith, Closed
<1>2. ASSUME NEW m \in MergeEvent
      PROVE  LeastWith(m) = {m} \cup UNION {LeastWith(p) : p \in MergeParents(m)}
  <2> DEFINE T == {m} \cup UNION {LeastWith(p) : p \in MergeParents(m)}
  <2>1. T \subseteq LeastWith(m)
    <3>1. ASSUME NEW p \in MergeParents(m), NEW x \in LeastWith(p)
          PROVE  x \in LeastWith(m)
      BY <1>1 DEF LeastWith, Closed
    <3> QED BY <1>1, <3>1
  <2>2. T \subseteq MergeEvent
    BY <2>1 DEF LeastWith
  <2>3. Closed(T)
    <3>1. ASSUME NEW p \in MergeParents(m), NEW x \in LeastWith(p)
          PROVE  MergeParents(x) \subseteq T
      BY <1>1, ParentTypes DEF Closed
    <3>2. MergeParents(m) \subseteq T
      BY <1>1, ParentTypes
    <3> QED BY <3>1, <3>2 DEF Closed
  <2>4. LeastWith(m) \subseteq T
    <3> HIDE DEF T
    <3>1. m \in T
      BY DEF T
    <3> QED BY <2>2, <2>3, <3>1 DEF LeastWith
  <2> QED BY <2>1, <2>4
<1>3. IsAncestry(least)
  <2>1. ASSUME NEW m \in MergeEvent
        PROVE  least[m] = {m} \cup UNION {least[p] : p \in MergeParents(m)}
    <3>1. \A p \in MergeParents(m) : least[p] = LeastWith(p)
      BY ParentTypes
    <3>2. {least[p] : p \in MergeParents(m)} = {LeastWith(p) : p \in MergeParents(m)}
      BY <3>1
    <3> QED BY <1>2, <3>2
  <2> HIDE DEF least
  <2>2. least = [m \in MergeEvent |-> least[m]]
    BY DEF least
  <2> QED BY <2>1, <2>2, Zenon
<1>4. Ancestry = CHOOSE f : IsAncestry(f)
  BY DEF Ancestry
<1> HIDE DEF IsAncestry, least
<1>5. IsAncestry(Ancestry)
  BY <1>3, <1>4
<1> QED BY <1>5 DEF IsAncestry

(* The ancestry of an event is a closed set of merge events with the event.*)
LEMMA AncestryIsClosed ==
  ASSUME NEW m \in MergeEvent
  PROVE  Ancestry[m] \subseteq MergeEvent /\ m \in Ancestry[m] /\ Closed(Ancestry[m])
<1> PICK rank \in [MergeEvent -> 0..Cardinality(MergeEvent)] :
      \A n \in MergeEvent : \A p \in MergeParents(n) : rank[p] < rank[n]
  BY AncestryAssumption
<1> DEFINE Good(n) == Ancestry[n] \subseteq MergeEvent /\ Closed(Ancestry[n])
           bad == {n \in MergeEvent : ~Good(n)}
<1>1. \A n \in MergeEvent :
        Ancestry[n] = {n} \cup UNION {Ancestry[p] : p \in MergeParents(n)}
  <2> DEFINE body(n) == {n} \cup UNION {Ancestry[p] : p \in MergeParents(n)}
  <2>1. Ancestry = [n \in MergeEvent |-> body(n)]
    BY AncestryIs
  <2> HIDE DEF body
  <2>2. \A n \in MergeEvent : Ancestry[n] = body(n)
    BY <2>1
  <2> QED BY <2>2 DEF body
<1>2. bad = {}
  <2> SUFFICES ASSUME bad # {} PROVE FALSE
    OBVIOUS
  <2> DEFINE ranks == {rank[n] : n \in bad}
  <2>1. ranks \in SUBSET Nat /\ ranks # {}
    BY AncestryAssumption, FS_CardinalityType
  <2>2. PICK least \in ranks : \A k \in ranks : least <= k
    <3> HIDE DEF ranks
    <3> QED BY <2>1, LeastNumber
  <2>3. PICK n \in bad : rank[n] = least
    BY <2>2
  <2>4. ASSUME NEW p \in MergeParents(n)
        PROVE  p \in MergeEvent /\ Good(p)
    <3>1. p \in MergeEvent /\ rank[p] < rank[n]
      BY <2>3, ParentTypes
    <3>2. ~(least <= rank[p])
      <4>1. rank[p] \in Int /\ least \in Int
        BY <2>1, <2>2, <3>1
      <4> HIDE DEF ranks
      <4> QED BY <2>3, <3>1, <4>1
    <3>3. p \notin bad
      BY <2>2, <3>2
    <3> QED BY <3>1, <3>3
  <2>5. n \in MergeEvent
    BY <2>3
  <2>6. Ancestry[n] \subseteq MergeEvent
    BY <1>1, <2>4, <2>5
  <2>7. Closed(Ancestry[n])
    <3>1. MergeParents(n) \subseteq Ancestry[n]
      <4>1. \A p \in MergeParents(n) : p \in Ancestry[p]
        BY <1>1, <2>4
      <4> QED BY <1>1, <2>5, <4>1
    <3>2. ASSUME NEW p \in MergeParents(n), NEW x \in Ancestry[p]
          PROVE  MergeParents(x) \subseteq Ancestry[n]
      <4>1. MergeParents(x) \subseteq Ancestry[p]
        BY <2>4 DEF Closed
      <4>2. Ancestry[p] \subseteq Ancestry[n]
        BY <1>1, <2>5
      <4> QED BY <4>1, <4>2
    <3>3. \A x \in Ancestry[n] : x = n \/ \E p \in MergeParents(n) : x \in Ancestry[p]
      BY <1>1, <2>5
    <3> QED BY <3>1, <3>2, <3>3 DEF Closed
  <2> QED BY <2>3, <2>6, <2>7
<1>3. Good(m)
  BY <1>2
<1>4. m \in Ancestry[m]
  BY <1>1
<1> QED BY <1>3, <1>4

(* More events decide more blocks.                                         *)
LEMMA HeightGrows ==
  ASSUME NEW S, NEW T, S \subseteq T
  PROVE  /\ HeightIn(S) \in 0..Cardinality(DOMAIN DecidedBy)
         /\ HeightIn(T) \in Nat /\ HeightIn(S) <= HeightIn(T)
<1> DEFINE H(E) == {h \in DOMAIN DecidedBy :
                      \A k \in DOMAIN DecidedBy : k <= h => DecidedBy[k] \subseteq E}
<1>1. H(S) \subseteq H(T) /\ H(S) \subseteq DOMAIN DecidedBy /\ H(T) \subseteq DOMAIN DecidedBy
  OBVIOUS
<1>2. HeightIn(S) = Cardinality(H(S)) /\ HeightIn(T) = Cardinality(H(T))
  BY DEF HeightIn
<1>3. IsFiniteSet(DOMAIN DecidedBy)
  BY AncestryAssumption
<1> HIDE DEF H
<1>4. IsFiniteSet(H(S)) /\ IsFiniteSet(H(T))
  BY <1>1, <1>3, FS_Subset
<1>5. Cardinality(H(S)) <= Cardinality(H(T))
      /\ Cardinality(H(S)) <= Cardinality(DOMAIN DecidedBy)
  BY <1>1, <1>3, <1>4, FS_Subset
<1>6. /\ Cardinality(H(S)) \in Nat /\ Cardinality(H(T)) \in Nat
      /\ Cardinality(DOMAIN DecidedBy) \in Nat
  BY <1>3, <1>4, FS_CardinalityType
<1> QED BY <1>2, <1>5, <1>6

(* What a peer gives is closed, and each regular event in it comes with    *)
(* the merge event that vouches for it.                                    *)
LEMMA PartitionIsClosed ==
  ASSUME TypeOK, PeersAreClosed, NEW p \in Peer
  PROVE  /\ Partition(p) \subseteq Event
         /\ \A m \in Partition(p) \cap MergeEvent :
              ParentsOf[m] \cup MergeParents(m) \subseteq Partition(p)
         /\ \A r \in Partition(p) \cap RegularEvent :
              \E m \in Partition(p) \cap MergeEvent : r \in ParentsOf[m]
<1> DEFINE heads == {n \in Own(p, has[p]) : Generation[n] = HeadIn(p, known) + MaxDepth}
           deep == UNION {Ancestry[m] : m \in heads}
<1>1. deep \subseteq MergeEvent /\ Closed(deep)
  <2>1. heads \subseteq MergeEvent
    BY DEF Own
  <2> HIDE DEF heads
  <2>2. \A m \in heads : Ancestry[m] \subseteq MergeEvent /\ Closed(Ancestry[m])
    BY <2>1, AncestryIsClosed
  <2> QED BY <2>2 DEF Closed
<1>2. has[p] \subseteq MergeEvent /\ Closed(has[p])
  BY DEF TypeOK, PeersAreClosed, Closed
<1> PICK X \in SUBSET MergeEvent : Closed(X) /\ Partition(p) = WithRegulars(X)
  <2> HIDE DEF deep, heads
  <2>1. Partition(p) = WithRegulars(IF Truncated(p) THEN deep ELSE has[p])
    BY DEF Partition, deep, heads
  <2> QED BY <1>1, <1>2, <2>1
<1>3. \A e \in Partition(p) : e \in X \/ \E m \in X : e \in Regulars(m)
  BY DEF WithRegulars
<1>4. X \subseteq Partition(p) /\ \A m \in X : Regulars(m) \subseteq Partition(p)
  BY DEF WithRegulars
<1>5. Partition(p) \cap MergeEvent = X
  BY <1>3, <1>4, ParentTypes
<1>6. Partition(p) \subseteq Event
  BY <1>3, ParentTypes
<1>7. \A m \in X : ParentsOf[m] \cup MergeParents(m) \subseteq Partition(p)
  BY <1>4, ParentTypes DEF Closed
<1>8. \A r \in Partition(p) \cap RegularEvent : \E m \in X : r \in ParentsOf[m]
  BY <1>3, ParentTypes DEF Regulars
<1> QED BY <1>5, <1>6, <1>7, <1>8

-----------------------------------------------------------------------------
(* Steps that leave the batch and what the peers announce alone *)

LEMMA CycleKeeps ==
  ASSUME InductiveInvariant, TypeOK',
         UNCHANGED <<peerVars, known, batchVars>>,
         {pc, pc'} \cap {"asked", "refused", "batch"} # {} => pc' = pc,
         stored \subseteq stored',
         height' = height \/ height' = HeightIn(stored)
  PROVE  InductiveInvariant'
<1> USE DEF InductiveInvariant, peerVars, batchVars
<1>1. KnownIsClosed' /\ KnownIsValid' /\ KnownRegularsFit' /\ PeersAreClosed'
  BY DEF KnownIsClosed, KnownIsValid, KnownRegularsFit, PeersAreClosed
<1>2. NoneUnrelated' /\ BatchSoFar'
  BY DEF NoneUnrelated, BatchSoFar
<1>3. StillAnnounced' /\ ExchangeSoFar'
  BY DEF StillAnnounced, ExchangeSoFar, Own
<1>4. height <= height' /\ height' <= HeightIn(stored')
  <2>1. /\ HeightIn(stored) <= HeightIn(stored') /\ HeightIn(stored) \in Nat
        /\ HeightIn(stored') \in Nat
    BY HeightGrows
  <2>2. height \in Nat /\ height <= HeightIn(stored)
    BY AncestryAssumption, FS_CardinalityType DEF TypeOK, HeightSoFar
  <2> QED BY <2>1, <2>2
<1>5. WithinHeight'
  <2>1. height \in Nat /\ height' \in Nat
    BY AncestryAssumption, FS_CardinalityType DEF TypeOK
  <2>2. \A r \in RegularEvent : BasisOf[r] \in Nat
    BY GossipAssumption, AncestryAssumption, FS_CardinalityType
  <2> QED BY <1>4, <2>1, <2>2 DEF WithinHeight
<1> QED BY <1>1, <1>2, <1>3, <1>4, <1>5 DEF HeightSoFar

LEMMA CycleSteps ==
  ASSUME InductiveInvariant,
         \/ StartSession \/ EndSession \/ ExtendAndGetPeers \/ EndCycle \/ CoolDown
         \/ \E p \in Peer : SkipPeer(p) \/ AskFails(p) \/ NotifyFails(p) \/ ExpireStatus(p)
         \/ \E p \in Peer : AddNotification(p)
         \/ UNCHANGED vars
  PROVE  InductiveInvariant'
<1> USE DEF InductiveInvariant, peerVars, nodeVars, statusVars, cycleVars, batchVars, vars
<1>1. CASE StartSession \/ EndSession \/ CoolDown \/ UNCHANGED vars
  <2>1. TypeOK'
    BY <1>1 DEF StartSession, EndSession, CoolDown, TypeOK
  <2>2. {pc, pc'} \cap {"asked", "refused", "batch"} # {} => pc' = pc
    BY <1>1 DEF StartSession, EndSession, CoolDown
  <2> QED BY <1>1, <2>1, <2>2, CycleKeeps DEF StartSession, EndSession, CoolDown, TypeOK
<1>2. CASE ExtendAndGetPeers
  <2>1. height' \in 0..Cardinality(DOMAIN DecidedBy)
    BY <1>2, HeightGrows DEF ExtendAndGetPeers
  <2>2. Permits \in 0..Permits
    BY GossipAssumption
  <2>3. line' \subseteq Peer /\ first' \in line' \cup {NoPeer} /\ notifications' \subseteq Peer
    BY <1>2, GossipAssumption DEF ExtendAndGetPeers, Line, TypeOK
  <2>4. TypeOK'
    BY <1>2, <2>1, <2>2, <2>3 DEF ExtendAndGetPeers, TypeOK
  <2> QED BY <1>2, <2>4, CycleKeeps DEF ExtendAndGetPeers
<1>3. CASE EndCycle
  <2>1. 0 \in 0..Permits
    BY GossipAssumption
  <2>2. TypeOK'
    BY <1>3, <2>1 DEF EndCycle, TypeOK
  <2>3. pc = "cycle" /\ pc' \in {"wait", "extend"}
    BY <1>3 DEF EndCycle
  <2> QED BY <1>3, <2>2, <2>3, CycleKeeps DEF EndCycle, TypeOK
<1>4. ASSUME NEW p \in Peer, SkipPeer(p)
      PROVE  InductiveInvariant'
  <2>1. TypeOK'
    BY <1>4 DEF SkipPeer, Shift, LeaveBehind, TypeOK
  <2> QED BY <1>4, <2>1, CycleKeeps DEF SkipPeer, Shift
<1>5. ASSUME NEW p \in Peer, NotifyFails(p) \/ ExpireStatus(p) \/ AddNotification(p)
      PROVE  InductiveInvariant'
  <2>1. faults' \in 0..MaxFaults
    BY <1>5, GossipAssumption DEF NotifyFails, ExpireStatus, AddNotification, TypeOK
  <2>2. TypeOK'
    BY <1>5, <2>1 DEF NotifyFails, ExpireStatus, AddNotification, Tells, Own, TypeOK
  <2>3. {pc, pc'} \cap {"asked", "refused", "batch"} # {} => pc' = pc
    BY <1>5 DEF NotifyFails, ExpireStatus, AddNotification
  <2> QED BY <1>5, <2>2, <2>3, CycleKeeps DEF NotifyFails, ExpireStatus, AddNotification
<1>6. ASSUME NEW p \in Peer, AskFails(p)
      PROVE  InductiveInvariant'
  <2>1. faults' \in 0..MaxFaults
    BY <1>6, GossipAssumption DEF AskFails, Fails, TypeOK
  <2>2. TypeOK'
    BY <1>6, <2>1 DEF AskFails, Fails, LeaveBehind, Shift, TypeOK
  <2> QED BY <1>6, <2>2, CycleKeeps DEF AskFails, Shift
<1> QED BY <1>1, <1>2, <1>3, <1>4, <1>5, <1>6

-----------------------------------------------------------------------------
(* The peers *)

LEMMA PeersKeep ==
  ASSUME InductiveInvariant, Peers
  PROVE  InductiveInvariant'
<1> USE DEF InductiveInvariant, peerVars, nodeVars, statusVars, cycleVars, batchVars
<1>1. ASSUME UNCHANGED <<nodeVars, pc, batchVars>>
      PROVE  /\ KnownIsClosed' /\ KnownIsValid' /\ KnownRegularsFit' /\ NoneUnrelated'
             /\ BatchSoFar' /\ WithinHeight' /\ HeightSoFar'
  <2>1. KnownIsClosed' /\ KnownIsValid' /\ KnownRegularsFit'
    BY <1>1 DEF KnownIsClosed, KnownIsValid, KnownRegularsFit
  <2>2. NoneUnrelated' /\ BatchSoFar' /\ WithinHeight' /\ HeightSoFar'
    BY <1>1 DEF NoneUnrelated, BatchSoFar, WithinHeight, HeightSoFar
  <2> QED BY <2>1, <2>2
<1>2. ASSUME NEW p \in Peer, NEW m \in MergeEvent, Learn(p, m)
      PROVE  InductiveInvariant'
  <2>1. /\ has' = [has EXCEPT ![p] = @ \cup {m}] /\ MergeParents(m) \subseteq has[p]
        /\ toFlag' = IF CreatorOf[m] = p THEN toFlag \cup {p} ELSE toFlag
        /\ UNCHANGED <<flag, answering, answered, silent, nodeVars, statusVars, pc, cycleVars,
                       batchVars, told, faults>>
    BY <1>2 DEF Learn
  <2>2. TypeOK'
    BY <2>1 DEF TypeOK
  <2>3. has'[p] = has[p] \cup {m} /\ \A q \in Peer \ {p} : has'[q] = has[q]
    BY <2>1 DEF TypeOK
  <2>4. PeersAreClosed'
    BY <2>1, <2>3 DEF PeersAreClosed
  <2>5. \A q \in Peer : Own(q, has'[q]) = Own(q, has[q]) \/ q \in toFlag'
    BY <2>1, <2>3 DEF Own
  <2>6. StillAnnounced' /\ ExchangeSoFar'
    BY <2>1, <2>5 DEF StillAnnounced, ExchangeSoFar
  <2> QED BY <1>1, <2>1, <2>2, <2>4, <2>6
<1>3. ASSUME NEW p \in Peer, AddFlag(p)
      PROVE  InductiveInvariant'
  <2>1. TypeOK' /\ PeersAreClosed'
    BY <1>3 DEF AddFlag, TypeOK, PeersAreClosed
  <2>2. StillAnnounced' /\ ExchangeSoFar'
    BY <1>3 DEF AddFlag, StillAnnounced, ExchangeSoFar
  <2> QED BY <1>1, <1>3, <2>1, <2>2 DEF AddFlag
<1>4. ASSUME NEW p \in Peer, PeerCrash(p)
      PROVE  InductiveInvariant'
  <2>1. faults' \in 0..MaxFaults
    BY <1>4, GossipAssumption DEF PeerCrash, TypeOK
  <2>2. TypeOK' /\ PeersAreClosed'
    BY <1>4, <2>1 DEF PeerCrash, TypeOK, PeersAreClosed
  <2>3. StillAnnounced' /\ ExchangeSoFar'
    BY <1>4 DEF PeerCrash, StillAnnounced, ExchangeSoFar
  <2> QED BY <1>1, <1>4, <2>2, <2>3 DEF PeerCrash
<1>5. ASSUME NEW p \in Peer, Request(p) \/ Answer(p) \/ AnswerLost(p)
      PROVE  InductiveInvariant'
  <2>1. faults' \in 0..MaxFaults
    BY <1>5, GossipAssumption DEF Request, Answer, AnswerLost, TypeOK
  <2>2. Own(p, has[p]) \subseteq MergeEvent
    BY DEF Own
  <2>3. TypeOK' /\ PeersAreClosed'
    BY <1>5, <2>1, <2>2 DEF Request, Answer, Answers, AnswerLost, TypeOK, PeersAreClosed
  <2>4. StillAnnounced'
    BY <1>5 DEF Request, Answer, Answers, AnswerLost, StillAnnounced, Own
  <2>5. ExchangeSoFar'
    BY <1>5 DEF Request, Answer, Answers, AnswerLost, ExchangeSoFar
  <2> QED BY <1>1, <1>5, <2>3, <2>4, <2>5 DEF Request, Answer, Answers, AnswerLost
<1> QED BY <1>2, <1>3, <1>4, <1>5, CycleSteps DEF Peers

-----------------------------------------------------------------------------
(* Exchanges *)

LEMMA AskKeeps ==
  ASSUME InductiveInvariant, NEW p \in Peer, Ask(p)
  PROVE  InductiveInvariant'
<1> USE DEF InductiveInvariant, peerVars, nodeVars, statusVars, cycleVars, batchVars
<1>1. /\ pc = "cycle" /\ pc' = "asked" /\ line' = line \ {p} /\ first' = NoPeer
      /\ flag' = flag \ {p} /\ peer' = p
      /\ UNCHANGED <<has, toFlag, answering, answered, silent, nodeVars, statusVars,
                     needsGossip, permits, batch, todo, deferring, told, faults>>
  BY DEF Ask, Shift
<1>2. p # NoPeer
  BY GossipAssumption
<1>3. TypeOK'
  BY <1>1 DEF TypeOK
<1>4. KnownIsClosed' /\ KnownIsValid' /\ KnownRegularsFit' /\ PeersAreClosed' /\ WithinHeight'
      /\ HeightSoFar'
  BY <1>1 DEF KnownIsClosed, KnownIsValid, KnownRegularsFit, PeersAreClosed, WithinHeight,
              HeightSoFar
<1>5. NoneUnrelated' /\ BatchSoFar'
  BY <1>1 DEF NoneUnrelated, BatchSoFar
<1>6. ExchangeSoFar'
  BY <1>1, <1>2 DEF ExchangeSoFar
<1>7. StillAnnounced'
  BY <1>1 DEF StillAnnounced
<1> QED BY <1>3, <1>4, <1>5, <1>6, <1>7

LEMMA ExchangeKeeps ==
  ASSUME InductiveInvariant, Exchange
  PROVE  InductiveInvariant'
<1> USE DEF InductiveInvariant, peerVars, nodeVars, statusVars, cycleVars, batchVars
<1>1. /\ pc = "asked"
      /\ answered' = answered \cup Own(peer, has[peer]) /\ silent' = silent \ {peer}
      /\ batch' = Needed(peer) /\ todo' = Needed(peer) /\ deferring' = FALSE
      /\ pc' = IF IsAcceptable(Needed(peer)) THEN "batch" ELSE "refused"
      /\ UNCHANGED <<has, toFlag, flag, answering, nodeVars, statusVars, cycleVars, peer, told,
                     faults>>
  BY DEF Exchange, Answers
<1>2. peer \in Peer /\ peer # NoPeer
  BY <1>1 DEF ExchangeSoFar, TypeOK
<1>3. Needed(peer) \subseteq Event /\ Own(peer, has[peer]) \subseteq MergeEvent
  BY <1>2, PartitionIsClosed DEF Needed, Own
<1>4. TypeOK'
  BY <1>1, <1>3 DEF TypeOK
<1>5. KnownIsClosed' /\ KnownIsValid' /\ KnownRegularsFit' /\ PeersAreClosed' /\ WithinHeight'
      /\ HeightSoFar'
  BY <1>1 DEF KnownIsClosed, KnownIsValid, KnownRegularsFit, PeersAreClosed, WithinHeight,
              HeightSoFar
<1>6. NoneUnrelated'
  <2> SUFFICES ASSUME NEW r \in Needed(peer) \cap RegularEvent
               PROVE  \E m \in Needed(peer) \cap MergeEvent : r \in ParentsOf[m]
    BY <1>1 DEF NoneUnrelated
  <2>1. PICK m \in Partition(peer) \cap MergeEvent : r \in ParentsOf[m]
    BY <1>2, PartitionIsClosed DEF Needed
  <2>2. m \notin known
    BY <2>1 DEF KnownIsClosed, Needed
  <2> QED BY <2>1, <2>2 DEF Needed
<1>7. BatchSoFar'
  <2>1. \A m \in Needed(peer) \cap MergeEvent :
          ParentsOf[m] \cup MergeParents(m) \subseteq Needed(peer) \cup known
    BY <1>2, PartitionIsClosed DEF Needed
  <2>2. pc' = "batch" => IsAcceptable(Needed(peer))
    BY <1>1
  <2>3. known' = known /\ batch' \ todo' = {}
    BY <1>1
  <2> QED BY <1>1, <2>1, <2>2, <2>3 DEF BatchSoFar
<1>8. ExchangeSoFar'
  BY <1>1, <1>2 DEF ExchangeSoFar
<1>9. StillAnnounced'
  BY <1>1 DEF StillAnnounced, Own
<1> QED BY <1>4, <1>5, <1>6, <1>7, <1>8, <1>9

LEMMA ExchangeFailsKeeps ==
  ASSUME InductiveInvariant, ExchangeFails
  PROVE  InductiveInvariant'
<1> USE DEF InductiveInvariant, peerVars, nodeVars, statusVars, cycleVars, batchVars
<1>1. /\ pc = "asked" /\ pc' = "cycle"
      /\ peer' = NoPeer /\ batch' = {} /\ todo' = {} /\ deferring' = FALSE
      /\ faults < MaxFaults /\ faults' = faults + 1
      /\ failed' \subseteq failed \cup {peer} /\ told' \subseteq told
      /\ \/ silent' = silent \cup {peer} /\ answered' = answered
         \/ silent' = silent \ {peer} /\ answered' = answered \cup Own(peer, has[peer])
      /\ UNCHANGED <<has, toFlag, flag, answering, nodeVars, notifications, cycleVars>>
  BY DEF ExchangeFails, Fails, NoBatch, LeaveBehind, Answers
<1>2. peer \in Peer
  BY <1>1 DEF ExchangeSoFar, TypeOK
<1>3. TypeOK'
  <2>1. faults' \in 0..MaxFaults
    BY <1>1, GossipAssumption DEF TypeOK
  <2>2. answered' \subseteq MergeEvent /\ silent' \subseteq Peer
    BY <1>1, <1>2 DEF TypeOK, Own
  <2> QED BY <1>1, <1>2, <2>1, <2>2 DEF TypeOK
<1>4. KnownIsClosed' /\ KnownIsValid' /\ KnownRegularsFit' /\ PeersAreClosed' /\ WithinHeight'
      /\ HeightSoFar'
  BY <1>1 DEF KnownIsClosed, KnownIsValid, KnownRegularsFit, PeersAreClosed, WithinHeight,
              HeightSoFar
<1>5. NoneUnrelated' /\ BatchSoFar'
  BY <1>1 DEF NoneUnrelated, BatchSoFar
<1>6. ExchangeSoFar'
  BY <1>1 DEF ExchangeSoFar
<1>7. StillAnnounced'
  BY <1>1, <1>2 DEF StillAnnounced, Own
<1> QED BY <1>3, <1>4, <1>5, <1>6, <1>7

\* However an exchange ends, a peer that has not answered yet will.
LEMMA EndsKeep ==
  ASSUME InductiveInvariant, RefuseBatch \/ EndBatch \/ CutSession
  PROVE  InductiveInvariant'
<1> USE DEF InductiveInvariant, peerVars, nodeVars, statusVars, cycleVars, batchVars
<1>1. /\ peer' = NoPeer /\ batch' = {} /\ todo' = {} /\ deferring' = FALSE
      /\ pc' \in {"cycle", "idle"}
      /\ answering' = IF pc = "asked" THEN answering \cup {peer} ELSE answering
      /\ UNCHANGED <<has, toFlag, flag, answered, silent, nodeVars, notifications, needsGossip>>
  BY DEF RefuseBatch, EndBatch, CutSession, EndExchange, NoBatch
<1>2. pc = "asked" => peer \in Peer
  BY DEF ExchangeSoFar, TypeOK
<1>3. TypeOK'
  <2>1. told' \subseteq MergeEvent
    BY DEF RefuseBatch, EndBatch, CutSession, EndExchange, LeaveBehind, TypeOK
  <2>2. faults' \in 0..MaxFaults /\ permits' \in 0..Permits
    BY GossipAssumption DEF RefuseBatch, EndBatch, CutSession, TypeOK
  <2>3. line' \subseteq Peer /\ first' \in line' \cup {NoPeer} /\ failed' \subseteq Peer
    BY DEF RefuseBatch, EndBatch, CutSession, EndExchange, TypeOK
  <2> QED BY <1>1, <1>2, <2>1, <2>2, <2>3 DEF TypeOK
<1>4. KnownIsClosed' /\ KnownIsValid' /\ KnownRegularsFit' /\ PeersAreClosed' /\ WithinHeight'
      /\ HeightSoFar'
  BY <1>1 DEF KnownIsClosed, KnownIsValid, KnownRegularsFit, PeersAreClosed, WithinHeight,
              HeightSoFar
<1>5. NoneUnrelated' /\ BatchSoFar'
  BY <1>1 DEF NoneUnrelated, BatchSoFar
<1>6. ExchangeSoFar'
  BY <1>1, GossipAssumption DEF ExchangeSoFar
<1>7. StillAnnounced'
  BY <1>1 DEF StillAnnounced
<1> QED BY <1>3, <1>4, <1>5, <1>6, <1>7

-----------------------------------------------------------------------------
(* The events of a batch *)

\* An event is processed; it may be queued.
LEMMA ProcessingKeeps ==
  ASSUME InductiveInvariant, NEW e \in todo, Follows(e), BatchUnchanged, permits' \in 0..Permits,
         deferring' \in BOOLEAN, deferring => deferring',
         \/ known' = known /\ deferring'
         \/ known' = known \cup {e},
         KnownIsClosed', KnownIsValid', KnownRegularsFit', WithinHeight'
  PROVE  InductiveInvariant'
<1> USE DEF InductiveInvariant, BatchUnchanged, peerVars, statusVars
<1>1. /\ pc = "batch" /\ todo' = todo \ {e} /\ known \subseteq known'
      /\ UNCHANGED <<peerVars, stored, height, statusVars, pc, needsGossip, line, first, peer,
                     batch, told, faults>>
  BY DEF Follows
<1>2. TypeOK'
  BY <1>1 DEF TypeOK
<1>3. NoneUnrelated' /\ PeersAreClosed' /\ HeightSoFar'
  BY <1>1 DEF NoneUnrelated, PeersAreClosed, HeightSoFar
<1>4. BatchSoFar'
  BY <1>1 DEF BatchSoFar
<1>5. ExchangeSoFar' /\ StillAnnounced'
  BY <1>1 DEF ExchangeSoFar, StillAnnounced, Own
<1> QED BY <1>2, <1>3, <1>4, <1>5

LEMMA NotQueuedKeeps ==
  ASSUME InductiveInvariant, NEW e \in todo, Defer(e) \/ PassOver(e)
  PROVE  InductiveInvariant'
<1>1. /\ Follows(e) /\ BatchUnchanged /\ UNCHANGED <<known, permits>> /\ deferring' = TRUE
      /\ UNCHANGED height
  BY DEF Defer, PassOver, IsPassedOver, BatchUnchanged, InductiveInvariant, TypeOK
<1>2. KnownIsClosed' /\ KnownIsValid' /\ KnownRegularsFit' /\ WithinHeight'
  BY <1>1 DEF InductiveInvariant, KnownIsClosed, KnownIsValid, KnownRegularsFit, WithinHeight
<1> QED BY <1>1, <1>2, ProcessingKeeps DEF InductiveInvariant, TypeOK

LEMMA AddRegularKeeps ==
  ASSUME InductiveInvariant, NEW e \in todo, AddRegular(e)
  PROVE  InductiveInvariant'
<1>1. /\ Follows(e) /\ BatchUnchanged /\ UNCHANGED <<permits, deferring, height>>
      /\ known' = known \cup {e} /\ e \in RegularEvent /\ ~(BasisOf[e] > height) /\ pc = "batch"
      /\ e \in batch
  BY DEF AddRegular, Follows, Queue, IsDeferred, BatchUnchanged, InductiveInvariant, TypeOK
<1>2. KnownIsClosed' /\ KnownIsValid'
  BY <1>1, ParentTypes DEF InductiveInvariant, KnownIsClosed, KnownIsValid
<1>3. WithinHeight'
  <2>1. height \in Nat /\ BasisOf[e] \in Nat
    BY <1>1, GossipAssumption, AncestryAssumption, FS_CardinalityType
       DEF InductiveInvariant, TypeOK
  <2> QED BY <1>1, <2>1 DEF InductiveInvariant, WithinHeight
<1>4. KnownRegularsFit'
  <2>1. PICK m \in batch \cap MergeEvent : e \in ParentsOf[m]
    BY <1>1 DEF InductiveInvariant, NoneUnrelated
  <2>2. TreeOf[e] = TreeOf[m]
    BY <1>1, <2>1 DEF InductiveInvariant, BatchSoFar, IsAcceptable, Valid,
                      ValidRegularParents, Regulars
  <2>3. \A n \in MergeEvent : e \in ParentsOf[n] => TreeOf[e] = TreeOf[n]
    BY <1>1, <2>1, <2>2, OneVouches
  <2> QED BY <1>1, <2>3 DEF InductiveInvariant, KnownRegularsFit
<1> QED BY <1>1, <1>2, <1>3, <1>4, ProcessingKeeps DEF InductiveInvariant, TypeOK

LEMMA AddMergeKeeps ==
  ASSUME InductiveInvariant, NEW m \in todo, AddMerge(m)
  PROVE  InductiveInvariant'
<1>1. /\ Follows(m) /\ BatchUnchanged /\ UNCHANGED <<deferring, height>>
      /\ known' = known \cup {m} /\ m \in MergeEvent /\ pc = "batch" /\ m \in batch
      /\ deferring => Parents(m) \cap batch = {}
      /\ Parents(m) \cap todo = {}
  BY DEF AddMerge, Follows, Queue, IsPassedOver, BatchUnchanged, InductiveInvariant, TypeOK
<1>2. ParentsOf[m] \cup MergeParents(m) \subseteq known
  <2>1. ParentsOf[m] \cup MergeParents(m) \subseteq batch \cup known
    BY <1>1 DEF InductiveInvariant, BatchSoFar
  <2>2. ParentsOf[m] \cup MergeParents(m) \subseteq Parents(m)
    BY <1>1, ParentTypes
  <2>3. CASE deferring
    BY <1>1, <2>1, <2>2, <2>3
  <2>4. CASE ~deferring
    BY <1>1, <2>1, <2>2, <2>4 DEF InductiveInvariant, BatchSoFar
  <2> QED BY <2>3, <2>4
<1>3. KnownIsClosed'
  BY <1>1, <1>2 DEF InductiveInvariant, KnownIsClosed
<1>4. KnownIsValid'
  <2>1. ValidTreeParent(m) /\ ValidMergeParents(m)
    BY <1>1 DEF InductiveInvariant, BatchSoFar, IsAcceptable, Valid
  <2>2. ValidRegularParents(m, Event)
    BY <1>1, <1>2, ParentTypes
       DEF InductiveInvariant, KnownRegularsFit, ValidRegularParents, Regulars
  <2> QED BY <1>1, <2>1, <2>2 DEF InductiveInvariant, KnownIsValid, Valid
<1>5. KnownRegularsFit' /\ WithinHeight'
  BY <1>1, ParentTypes DEF InductiveInvariant, KnownRegularsFit, WithinHeight
<1>6. permits' \in 0..Permits
  BY GossipAssumption DEF AddMerge, InductiveInvariant, TypeOK
<1> QED BY <1>1, <1>3, <1>4, <1>5, <1>6, ProcessingKeeps DEF InductiveInvariant, TypeOK

-----------------------------------------------------------------------------
(* The invariant *)

LEMMA InitialInvariant == Init => InductiveInvariant
<1> SUFFICES ASSUME Init PROVE InductiveInvariant
  OBVIOUS
<1> USE DEF Init
<1>1. TypeOK
  <2>1. /\ 0 \in 0..Cardinality(DOMAIN DecidedBy) /\ 0 \in 0..Permits /\ 0 \in 0..MaxFaults
    BY GossipAssumption, AncestryAssumption, FS_CardinalityType
  <2> QED BY <2>1 DEF TypeOK
<1>2. HeightSoFar
  <2>1. HeightIn(stored) \in Nat
    BY HeightGrows
  <2> QED BY <2>1 DEF HeightSoFar
<1>3. KnownIsClosed /\ KnownIsValid /\ KnownRegularsFit /\ WithinHeight /\ PeersAreClosed
  BY DEF KnownIsClosed, KnownIsValid, KnownRegularsFit, WithinHeight, PeersAreClosed
<1>4. NoneUnrelated /\ BatchSoFar /\ ExchangeSoFar /\ StillAnnounced
  BY GossipAssumption DEF NoneUnrelated, BatchSoFar, ExchangeSoFar, StillAnnounced, Own
<1> QED BY <1>1, <1>2, <1>3, <1>4 DEF InductiveInvariant

LEMMA StepKeepsInvariant == InductiveInvariant /\ [Next]_vars => InductiveInvariant'
<1> SUFFICES ASSUME InductiveInvariant, [Next]_vars PROVE InductiveInvariant'
  OBVIOUS
<1>1. CASE Pipeline
  <2>1. CASE StartSession \/ EndSession \/ ExtendAndGetPeers \/ EndCycle \/ CoolDown
    BY <2>1, CycleSteps
  <2>2. ASSUME NEW p \in Peer, SkipPeer(p) \/ Ask(p) \/ AskFails(p)
        PROVE  InductiveInvariant'
    BY <2>2, CycleSteps, AskKeeps
  <2>3. CASE Exchange \/ ExchangeFails
    BY <2>3, ExchangeKeeps, ExchangeFailsKeeps
  <2>4. CASE ProcessBatch
    BY <2>4, EndsKeep, NotQueuedKeeps, AddRegularKeeps, AddMergeKeeps DEF ProcessBatch
  <2> QED BY <1>1, <2>1, <2>2, <2>3, <2>4 DEF Pipeline
<1>2. CASE Peers
  BY <1>2, PeersKeep
<1>3. CASE CutSession
  BY <1>3, EndsKeep
<1>4. ASSUME NEW p \in Peer, NotifyFails(p) \/ ExpireStatus(p)
      PROVE  InductiveInvariant'
  BY <1>4, CycleSteps
<1>5. CASE UNCHANGED vars
  BY <1>5, CycleSteps
<1> QED BY <1>1, <1>2, <1>3, <1>4, <1>5 DEF Next

(* A batch is closed but for what is known, it was accepted as a whole,    *)
(* and until an event of it is deferred all that is processed is queued.   *)
THEOREM InvariantHolds == Spec => []InductiveInvariant
BY InitialInvariant, StepKeepsInvariant, PTL DEF Spec

(* Gossip is type correct.                                                 *)
THEOREM TypeCorrect == Spec => []TypeOK
<1>1. InductiveInvariant => TypeOK
  BY DEF InductiveInvariant
<1> QED BY <1>1, InvariantHolds, PTL

(* What is queued and stored has no gaps, whatever part of a batch is      *)
(* deferred or passed over and wherever the session is cut off.            *)
THEOREM HistoryHasNoGaps == Spec => []KnownIsClosed
<1>1. InductiveInvariant => KnownIsClosed
  BY DEF InductiveInvariant
<1> QED BY <1>1, InvariantHolds, PTL

(* Every regular event of a batch comes with its merge event.              *)
THEOREM BatchesAreRelated == Spec => []NoneUnrelated
<1>1. InductiveInvariant => NoneUnrelated
  BY DEF InductiveInvariant
<1> QED BY <1>1, InvariantHolds, PTL

(* No event is validated against a configuration that is not reached.      *)
THEOREM EventsAreWithinHeight == Spec => []WithinHeight
<1>1. InductiveInvariant => WithinHeight
  BY DEF InductiveInvariant
<1> QED BY <1>1, InvariantHolds, PTL

(* What is queued obeys the rules for parents, although a merge event is   *)
(* compared only with the regular events that are in its batch.            *)
THEOREM HistoryIsValid == Spec => []KnownIsValid
<1>1. InductiveInvariant => KnownIsValid
  BY DEF InductiveInvariant
<1> QED BY <1>1, InvariantHolds, PTL

(* A peer announces what it has merged until it has answered a request     *)
(* after the merge, unless it crashed before it set its flag or the answer *)
(* for which it took it down was lost.                                     *)
THEOREM PeersStayAnnounced == Spec => []StillAnnounced
<1>1. InductiveInvariant => StillAnnounced
  BY DEF InductiveInvariant
<1> QED BY <1>1, InvariantHolds, PTL
=============================================================================
