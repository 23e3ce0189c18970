--------------------------- MODULE LocalNode_proofs ---------------------------
(***************************************************************************)
(* Proofs about LocalNode, for any peers, any number of events of every    *)
(* kind, any limit on the parents of a merge event and any number of cuts: *)
(* the cache follows storage and the own branch implements Branch.         *)
(***************************************************************************)
EXTENDS LocalNode, Induction, FiniteSetTheorems

-----------------------------------------------------------------------------
(* Events *)

LEMMA Kinds ==
  /\ LocalMerge \subseteq Event /\ Regular \subseteq Event
  /\ Config \subseteq Event /\ PeerMerge \subseteq Event
  /\ Event = LocalMerge \cup Regular \cup Config \cup PeerMerge
  /\ \A e \in LocalMerge : e \notin Regular /\ e \notin Config /\ e \notin PeerMerge
  /\ \A e \in Regular : e \notin Config /\ e \notin PeerMerge
  /\ \A e \in Config : e \notin PeerMerge
BY PeerAssumption DEF Event, LocalMerge, Regular, Config, PeerMerge

LEMMA OwnEvents ==
  /\ \A g \in 0..MaxMerges : Own(g) \in LocalMerge
  /\ \A e \in LocalMerge : \E g \in 0..MaxMerges : e = Own(g)
  /\ \A g, h : Own(g) = Own(h) => g = h
  /\ Genesis = Own(0) /\ Genesis \in LocalMerge
BY LimitAssumption DEF LocalMerge, Own, Genesis

LEMMA RegularEvents ==
  /\ \A n \in 1..MaxRegular : <<"r", n>> \in Regular
  /\ \A e \in Regular : \E n \in 1..MaxRegular : e = <<"r", n>>
BY DEF Regular

LEMMA PeerEvents ==
  /\ \A p \in Peer, n \in 1..MaxPeerEvents : <<p, n>> \in PeerMerge
  /\ \A e \in PeerMerge : /\ e[1] \in Peer /\ Generation(e) \in 1..MaxPeerEvents
                          /\ e = <<e[1], Generation(e)>>
  /\ \A e \in Event : e[1] \in Peer <=> e \in PeerMerge
BY PeerAssumption DEF PeerMerge, Generation, Event, LocalMerge, Regular, Config

(* The numbers up to n beside a name are n events.                         *)
LEMMA Counting ==
  ASSUME NEW n \in Nat, NEW p
  PROVE  /\ IsFiniteSet({<<p, i>> : i \in 1..n})
         /\ Cardinality({<<p, i>> : i \in 1..n}) = n
<1> DEFINE S == {<<p, i>> : i \in 1..n}
           f == [i \in 1..n |-> <<p, i>>]
<1>1. f \in Bijection(1..n, S)
  <2>1. f \in [1..n -> S] /\ \A i \in 1..n : f[i] = <<p, i>>
    OBVIOUS
  <2>2. \A e \in S : \E i \in 1..n : e = <<p, i>>
    OBVIOUS
  <2>3. \A i, j \in 1..n : <<p, i>> = <<p, j>> => i = j
    OBVIOUS
  <2> HIDE DEF f, S
  <2>4. f \in Injection(1..n, S)
    BY <2>1, <2>3, SMT DEF Injection, IsInjective
  <2>5. f \in Surjection(1..n, S)
    BY <2>1, <2>2, Zenon DEF Surjection
  <2> QED BY <2>4, <2>5 DEF Bijection
<1>2. IsFiniteSet(1..n) /\ Cardinality(1..n) = n
  BY FS_Interval
<1>3. ExistsBijection(1..n, S)
  BY <1>1 DEF ExistsBijection
<1> HIDE DEF S
<1>4. IsFiniteSet(S) /\ Cardinality(S) = n
  BY <1>2, <1>3, FS_Bijection
<1> QED BY <1>4 DEF S

LEMMA FiniteEvents == IsFiniteSet(Event)
<1>1. \A n \in Nat : IsFiniteSet(0..n) /\ IsFiniteSet(1..n)
  BY FS_Interval
<1>2. \A x : IsFiniteSet({x})
  BY FS_Singleton
<1>3. IsFiniteSet(LocalMerge) /\ IsFiniteSet(Regular)
  BY <1>1, <1>2, FS_Product, LimitAssumption DEF LocalMerge, Regular
<1>4. IsFiniteSet(Config) /\ IsFiniteSet(PeerMerge)
  BY <1>1, <1>2, FS_Product, LimitAssumption, PeerAssumption DEF Config, PeerMerge
<1> QED BY <1>3, <1>4, FS_Union DEF Event

(* The greatest generation in storage is that up to which all are.         *)
LEMMA GreatestGeneration ==
  ASSUME NEW S, NEW h \in 0..MaxMerges,
         \A g \in 0..MaxMerges : Own(g) \in S <=> g <= h
  PROVE  h = CHOOSE g \in 0..MaxMerges :
               /\ Own(g) \in S
               /\ \A i \in 0..MaxMerges : Own(i) \in S => i <= g
<1> DEFINE Greatest(g) == /\ Own(g) \in S
                          /\ \A i \in 0..MaxMerges : Own(i) \in S => i <= g
<1>1. Greatest(h)
  OBVIOUS
<1>2. ASSUME NEW g \in 0..MaxMerges, Greatest(g)
      PROVE  g = h
  <2>1. h <= g
    BY <1>1, <1>2
  <2>2. g <= h
    BY <1>2
  <2> QED BY <2>1, <2>2
<1> HIDE DEF Greatest
<1>3. h = CHOOSE g \in 0..MaxMerges : Greatest(g)
  BY <1>1, <1>2
<1> QED BY <1>3 DEF Greatest

(* Queues *)
LEMMA SetOfSequence ==
  ASSUME NEW s \in Seq(PeerMerge)
  PROVE  /\ SetOf(s) \subseteq PeerMerge
         /\ \A e : SetOf(Append(s, e)) = SetOf(s) \cup {e}
         /\ \A e \in PeerMerge : Append(s, e) \in Seq(PeerMerge)
         /\ SubSeq(s, Len(s) + 1, Len(s)) = <<>>
<1>1. SetOf(s) \subseteq PeerMerge
  BY DEF SetOf
<1>2. ASSUME NEW e PROVE SetOf(Append(s, e)) = SetOf(s) \cup {e}
  <2> DEFINE t == Append(s, e)
  <2>1. /\ Len(t) = Len(s) + 1 /\ Len(s) \in Nat /\ t[Len(s) + 1] = e
        /\ \A i \in 1..Len(s) : t[i] = s[i]
    OBVIOUS
  <2> HIDE DEF t
  <2>2. \A i \in 1..(Len(s) + 1) : i \in 1..Len(s) \/ i = Len(s) + 1
    BY <2>1
  <2>3. \A i \in 1..Len(s) : i \in 1..(Len(s) + 1)
    BY <2>1
  <2>4. Len(s) + 1 \in 1..(Len(s) + 1)
    BY <2>1
  <2>5. \A x : x \in SetOf(t) <=> x \in SetOf(s) \cup {e}
    BY <2>1, <2>2, <2>3, <2>4 DEF SetOf
  <2> QED BY <2>5 DEF t
<1>3. \A e \in PeerMerge : Append(s, e) \in Seq(PeerMerge)
  OBVIOUS
<1>4. SubSeq(s, Len(s) + 1, Len(s)) = <<>>
  OBVIOUS
<1> QED BY <1>1, <1>2, <1>3, <1>4

LEMMA SetOfEmpty == SetOf(<<>>) = {}
BY DEF SetOf

-----------------------------------------------------------------------------
(* Types *)

LEMMA Sizes ==
  ASSUME NEW S \in SUBSET Event
  PROVE  IsFiniteSet(S) /\ Cardinality(S) \in Nat
BY FiniteEvents, FS_Subset, FS_CardinalityType

LEMMA RoomSize ==
  ASSUME TypeOK
  PROVE  /\ RoomForRegular \in 0..MaxEvents
         /\ RoomForRegular = 0 \/ RoomForRegular + Cardinality(status.local) < MaxEvents
<1>1. Cardinality(status.peer) \in Nat /\ Cardinality(status.local) \in Nat
  BY Sizes DEF TypeOK
<1>2. (MaxEvents + 1) \div 2 \in Nat /\ MaxEvents \in Nat
  BY LimitAssumption
<1> QED BY <1>1, <1>2 DEF RoomForRegular, Minus, Least

LEMMA IdleTypes ==
  ASSUME Idle
  PROVE  /\ pc' = "idle" /\ batch' \in Seq(PeerMerge) /\ dups' \subseteq PeerMerge
         /\ status' \in [peer : SUBSET Event, local : SUBSET Event]
         /\ room' \in 0..MaxEvents /\ regularEvents' \in Nat /\ unprivileged' \in BOOLEAN
<1>1. <<>> \in Seq(PeerMerge) /\ 0 \in 0..MaxEvents
  BY LimitAssumption
<1>2. [peer |-> {}, local |-> {}] \in [peer : SUBSET Event, local : SUBSET Event]
  OBVIOUS
<1>3. batch' \in Seq(PeerMerge) /\ room' \in 0..MaxEvents
  BY <1>1, Zenon DEF Idle
<1>4. status' \in [peer : SUBSET Event, local : SUBSET Event]
  BY <1>2, Zenon DEF Idle, NoStatus
<1> QED BY <1>3, <1>4 DEF Idle

LEMMA OutsideTypes ==
  ASSUME TypeOK, ReferencesSoFar,
         \/ Submit \/ \E p \in Peer : AddPeerEvent(p)
         \/ \E e \in PeerMerge \cup LocalMerge : WriteBlock(e)
  PROVE  TypeOK'
<1> USE DEF storageVars, mergeVars, writerVars, loopVars, historyVars
<1>1. CASE Submit
  <2>1. chunks' \in 0..MaxRegular
    <3>1. Cardinality(stored \cap Regular) \in Nat
      BY Kinds, Sizes
    <3>2. chunks \in Nat /\ chunks + Cardinality(stored \cap Regular) < MaxRegular
      BY <1>1, LimitAssumption DEF Submit, TypeOK
    <3>3. chunks + 1 \in 0..MaxRegular
      BY <3>1, <3>2, LimitAssumption
    <3> QED BY <1>1, <3>3 DEF Submit
  <2> QED BY <1>1, <2>1 DEF Submit, TypeOK
<1>2. ASSUME NEW p \in Peer, AddPeerEvent(p)
      PROVE  TypeOK'
  <2> DEFINE n == 1 + Cardinality({e \in Known : e[1] = p})
  <2>1. Known \subseteq Event
    BY SetOfSequence, Kinds DEF Known, TypeOK
  <2>2. n \in 1..MaxPeerEvents
    <3>1. Cardinality({e \in Known : e[1] = p}) \in Nat
      BY <2>1, Sizes
    <3> QED BY <1>2, <3>1, LimitAssumption DEF AddPeerEvent
  <2>3. <<p, n>> \in PeerMerge
    BY <2>2, PeerEvents
  <2>4. queue' \in Seq(PeerMerge)
    BY <1>2, <2>3 DEF AddPeerEvent, TypeOK
  <2>5. parents' \in [Event -> SUBSET Event]
    <3>1. PICK others \in SUBSET {e \in Known \cap (LocalMerge \cup PeerMerge) :
                                   e[1] # p /\ e # Genesis} :
            parents' = [parents EXCEPT ![<<p, n>>] = others]
      BY <1>2 DEF AddPeerEvent
    <3> HIDE DEF n
    <3> QED BY <2>1, <3>1 DEF TypeOK
  <2>6. tree' \in [Event -> Event]
    <3>1. n # 1 => <<p, n - 1>> \in PeerMerge
      BY <2>2, PeerEvents, LimitAssumption
    <3>2. tree' = [tree EXCEPT ![<<p, n>>] = IF n = 1 THEN Genesis ELSE <<p, n - 1>>]
      BY <1>2 DEF AddPeerEvent
    <3> HIDE DEF n
    <3> QED BY <3>1, <3>2, Kinds, OwnEvents DEF TypeOK
  <2> QED BY <1>2, <2>4, <2>5, <2>6 DEF AddPeerEvent, TypeOK
<1>3. ASSUME NEW e \in PeerMerge \cup LocalMerge, WriteBlock(e)
      PROVE  TypeOK'
  <2>1. consensus' \subseteq stored
    <3>1. consensus' = consensus \cup {e} \cup (parents[e] \cap (Regular \cup Config))
      BY <1>3 DEF WriteBlock
    <3>2. parents[e] \subseteq stored \cup SetOf(queue)
      BY <1>3 DEF WriteBlock, ReferencesSoFar, Known, Merges
    <3>3. SetOf(queue) \subseteq PeerMerge
      BY SetOfSequence DEF TypeOK
    <3> QED BY <1>3, <3>1, <3>2, <3>3, Kinds DEF WriteBlock, TypeOK
  <2> QED BY <1>3, <2>1 DEF WriteBlock, TypeOK
<1> QED BY <1>1, <1>2, <1>3

LEMMA WriterTypes ==
  ASSUME TypeOK, Write \/ CutStoring
  PROVE  TypeOK'
<1> USE DEF storageVars, mergeVars, writerVars, loopVars, historyVars
<1>1. SetOf(batch) \subseteq PeerMerge /\ SetOf(queue) \subseteq PeerMerge
  BY SetOfSequence DEF TypeOK
<1>2. CASE ReadQueue
  BY <1>2 DEF ReadQueue, TypeOK
<1>3. CASE StoreBatch
  <2>1. stored' \subseteq Event /\ consensus' \subseteq stored' /\ dups' \subseteq PeerMerge
    BY <1>1, <1>3, Kinds DEF StoreBatch, TypeOK
  <2> QED BY <1>3, <2>1 DEF StoreBatch, TypeOK
<1>4. CASE UpdateCache
  <2>1. queue' \in Seq(PeerMerge)
    <3>1. queue' = SubSeq(queue, Len(batch) + 1, Len(queue)) /\ queue \in Seq(PeerMerge)
          /\ batch \in Seq(PeerMerge)
      BY <1>4 DEF UpdateCache, TypeOK
    <3> QED BY <3>1
  <2>2. childless' \subseteq Event /\ outstanding' \subseteq LocalMerge \cup PeerMerge
    BY <1>1, <1>4, Kinds DEF UpdateCache, TypeOK, NewHeads
  <2> QED BY <1>4, <2>1, <2>2, IdleTypes DEF UpdateCache, TypeOK
<1>5. CASE CutStoring
  <2>1. cuts' \in 0..MaxCuts
    BY <1>5, LimitAssumption DEF CutStoring, TypeOK
  <2>2. stored' \subseteq Event /\ consensus' \subseteq stored' /\ torn' \subseteq Event
    BY <1>1, <1>5, Kinds DEF CutStoring, TypeOK
  <2> QED BY <1>5, <2>1, <2>2, IdleTypes DEF CutStoring, TypeOK
<1> QED BY <1>2, <1>3, <1>4, <1>5 DEF Write

LEMMA CacheLocalMergeTypes ==
  ASSUME TypeOK, NEW g \in 0..MaxMerges, CacheLocalMerge(g)
  PROVE  /\ head' \in 0..MaxMerges /\ childless' \subseteq Event
         /\ localChildless' \subseteq Event /\ outstanding' \subseteq LocalMerge \cup PeerMerge
BY OwnEvents DEF CacheLocalMerge, TypeOK

LEMMA NextRegular ==
  ASSUME TypeOK, NumbersSoFar
  PROVE  /\ Cardinality(stored \cap Regular) \in Nat
         /\ chunks > 0 => /\ <<"r", 1 + Cardinality(stored \cap Regular)>> \in Regular
                          /\ <<"r", 1 + Cardinality(stored \cap Regular)>> \notin stored
                          /\ chunks - 1 \in 0..MaxRegular
<1>1. Cardinality(stored \cap Regular) \in Nat
  BY Kinds, Sizes
<1>2. chunks \in Nat /\ MaxRegular \in Nat /\ chunks <= MaxRegular
  BY LimitAssumption DEF TypeOK
<1> DEFINE k == Cardinality(stored \cap Regular)
<1>3. chunks + k <= MaxRegular
  BY DEF NumbersSoFar
<1>4. chunks > 0 => 1 + k \in 1..MaxRegular /\ ~(1 + k <= k) /\ chunks - 1 \in 0..MaxRegular
  <2> HIDE DEF k
  <2> QED BY <1>1, <1>2, <1>3 DEF k
<1>5. chunks > 0 => <<"r", 1 + k>> \in Regular /\ <<"r", 1 + k>> \notin stored
  <2> SUFFICES ASSUME chunks > 0
               PROVE  <<"r", 1 + k>> \in Regular /\ <<"r", 1 + k>> \notin stored
    OBVIOUS
  <2>1. \A n \in 1..MaxRegular : <<"r", n>> \in stored <=> n <= k
    BY DEF NumbersSoFar
  <2> HIDE DEF k
  <2> QED BY <1>4, <2>1, RegularEvents
<1> QED BY <1>1, <1>4, <1>5

LEMMA CreatingIsRegular ==
  ASSUME TypeOK, CacheSoFar
  PROVE  Creating \subseteq Regular
<1>1. Creating \subseteq Event
  BY DEF CacheSoFar, TypeOK
<1>2. \A k : <<"r", k>> \notin LocalMerge \cup Config \cup PeerMerge
  BY PeerAssumption DEF LocalMerge, Config, PeerMerge
<1>3. \A e \in Creating : \E k : e = <<"r", k>>
  BY DEF Creating
<1> QED BY <1>1, <1>2, <1>3, Kinds

LEMMA MergeTypes ==
  ASSUME InductiveInvariant, Merge
  PROVE  TypeOK'
<1> USE DEF InductiveInvariant, storageVars, mergeVars, writerVars, loopVars, historyVars
<1>1. CASE ValidateCache
  <2>1. CASE UNCHANGED mergeVars
    BY <1>1, <2>1 DEF ValidateCache, TypeOK
  <2>2. CASE CacheLocalMerge(StorageHead)
    BY <1>1, <2>2, CacheLocalMergeTypes DEF ValidateCache, TypeOK, HeadSoFar
  <2> QED BY <1>1, <2>1, <2>2 DEF ValidateCache
<1>2. ASSUME NEW others \in BOOLEAN, ReadMergeStatus(others)
      PROVE  TypeOK'
  BY <1>2 DEF ReadMergeStatus, TypeOK
<1>3. CASE CheckMergeable
  <2>1. CASE Idle
    BY <1>3, <2>1, IdleTypes DEF CheckMergeable, TypeOK
  <2>2. CASE ~Idle
    <3>1. room' \in 0..MaxEvents
      BY <1>3, <2>2, RoomSize DEF CheckMergeable
    <3>2. regularEvents' \in Nat
      BY <1>3, <2>2, Sizes DEF CheckMergeable, TypeOK
    <3> QED BY <1>3, <2>2, <3>1, <3>2 DEF CheckMergeable, TypeOK
  <2> QED BY <2>1, <2>2
<1>4. CASE CreateRegular
  <2> DEFINE r == <<"r", 1 + Cardinality(stored \cap Regular)>>
  <2>1. r \in Event /\ chunks - 1 \in 0..MaxRegular /\ Own(head) \in Event
    BY <1>4, NextRegular, Kinds, OwnEvents DEF CreateRegular, TypeOK
  <2>2. /\ stored' = stored \cup {r} /\ tree' = [tree EXCEPT ![r] = Own(head)]
        /\ chunks' = chunks - 1
    BY <1>4 DEF CreateRegular
  <2> HIDE DEF r
  <2>3. stored' \subseteq Event /\ tree' \in [Event -> Event] /\ consensus' \subseteq stored'
    <3>1. /\ stored \subseteq Event /\ tree \in [Event -> Event]
          /\ consensus \subseteq stored /\ consensus' = consensus
      BY <1>4 DEF CreateRegular, TypeOK
    <3> QED BY <2>1, <2>2, <3>1
  <2>4. /\ pc' \in {"created", "lastCreated"} /\ chunks' \in 0..MaxRegular
        /\ UNCHANGED <<parents, consensus, mergeVars, queue, writerVars, loopVars, request,
                       historyVars>>
    BY <1>4, <2>1 DEF CreateRegular
  <2> QED BY <2>3, <2>4 DEF TypeOK
<1>5. CASE CacheRegular
  <2> DEFINE r == <<"r", Cardinality(stored \cap Regular)>>
  <2>1. r \in Event
    BY <1>5, CreatingIsRegular, Kinds DEF CacheRegular, Creating
  <2>2. /\ childless' = childless \cup {r} /\ localChildless' = localChildless \cup {r}
        /\ status' = [status EXCEPT !.local = @ \cup {r}]
    BY <1>5 DEF CacheRegular
  <2> HIDE DEF r
  <2>3. /\ childless' \subseteq Event /\ localChildless' \subseteq Event
        /\ status' \in [peer : SUBSET Event, local : SUBSET Event]
    BY <2>1, <2>2 DEF TypeOK
  <2>4. room' \in 0..MaxEvents /\ regularEvents' \in Nat
    BY <1>5, LimitAssumption DEF CacheRegular, TypeOK, StatusSoFar
  <2> QED BY <1>5, <2>3, <2>4 DEF CacheRegular, TypeOK
<1>6. CASE CreateNothing
  BY <1>6 DEF CreateNothing, TypeOK
<1>7. CASE StoreMerge
  <2>1. CASE Idle
    BY <1>7, <2>1, IdleTypes DEF StoreMerge, TypeOK, Idle
  <2>2. CASE ~Idle
    <3>1. /\ head < MaxMerges /\ stored' = stored \cup {Own(head + 1)} /\ pc' = "merged"
          /\ tree' = [tree EXCEPT ![Own(head + 1)] = Own(head)]
          /\ UNCHANGED <<writerVars, loopVars>>
      BY <1>7, <2>2 DEF StoreMerge
    <3>2. PICK peers \in PeerParents :
            parents' = [parents EXCEPT ![Own(head + 1)] = status.local \cup peers]
      BY <1>7, <2>2 DEF StoreMerge
    <3>3. Own(head + 1) \in Event /\ Own(head) \in Event
      BY <3>1, OwnEvents, Kinds, LimitAssumption DEF TypeOK
    <3>4. peers \subseteq status.peer
      BY DEF PeerParents
    <3>5. tree' \in [Event -> Event] /\ parents' \in [Event -> SUBSET Event]
      BY <3>1, <3>2, <3>3, <3>4 DEF TypeOK
    <3>6. stored' \subseteq Event /\ consensus' \subseteq stored'
      BY <1>7, <3>1, <3>3 DEF StoreMerge, TypeOK
    <3> QED BY <1>7, <3>1, <3>5, <3>6 DEF StoreMerge, TypeOK
  <2> QED BY <2>1, <2>2
<1>8. CASE AddLocalMergeEvent
  <2>1. head + 1 \in 0..MaxMerges
    BY <1>8 DEF AddLocalMergeEvent, HeadSoFar
  <2> QED BY <1>8, <2>1, CacheLocalMergeTypes, IdleTypes DEF AddLocalMergeEvent, TypeOK
<1> QED BY <1>1, <1>2, <1>3, <1>4, <1>5, <1>6, <1>7, <1>8 DEF Merge

LEMMA RequestTypes ==
  ASSUME TypeOK, NEW c \in Config, Change(c) \/ CutRequest(c)
  PROVE  TypeOK'
<1> USE DEF storageVars, mergeVars, writerVars, loopVars, historyVars
<1>1. c \in Event /\ Own(head) \in Event
  BY Kinds, OwnEvents DEF TypeOK
<1>2. CASE ReadHead(c)
  BY <1>1, <1>2 DEF ReadHead, TypeOK
<1>3. CASE StoreConfig(c)
  BY <1>1, <1>3 DEF StoreConfig, TypeOK
<1>4. CASE CacheConfig(c)
  BY <1>1, <1>4 DEF CacheConfig, TypeOK
<1>5. CASE CutRequest(c)
  <2>1. cuts' \in 0..MaxCuts
    BY <1>5, LimitAssumption DEF CutRequest, TypeOK
  <2> QED BY <1>1, <1>5, <2>1 DEF CutRequest, TypeOK
<1> QED BY <1>2, <1>3, <1>4, <1>5 DEF Change

\* What a session that is cut off leaves behind.
LEMMA LeftIs ==
  LeftBySession = IF pc = "written" THEN SetOf(batch) \ dups ELSE Creating
BY DEF LeftBySession, LeftByWriter, Creating

LEMMA CutTypes ==
  ASSUME TypeOK, CacheSoFar, CutSession
  PROVE  TypeOK'
<1> USE DEF storageVars, mergeVars, writerVars, loopVars, historyVars
<1>1. cuts' \in 0..MaxCuts
  BY LimitAssumption DEF CutSession, TypeOK
<1>2. torn' \subseteq Event
  BY LeftIs, CreatingIsRegular, Kinds, SetOfSequence DEF CutSession, TypeOK
<1> QED BY <1>1, <1>2, IdleTypes DEF CutSession, TypeOK

-----------------------------------------------------------------------------
(* What a step keeps that adds events but leaves those there are alone *)

KeepsReferences == \A e \in Known : tree'[e] = tree[e] /\ parents'[e] = parents[e]

LEMMA KnownEvents ==
  ASSUME TypeOK
  PROVE  /\ Known \subseteq Event /\ stored \subseteq Known
         /\ SetOf(queue) \subseteq PeerMerge /\ SetOf(queue) \subseteq Known
         /\ \A e \in Known : e \notin PeerMerge => e \in stored
         /\ \A p : {e \in Known : e[1] = p} \subseteq Event
BY SetOfSequence, Kinds DEF Known, TypeOK

LEMMA HeadKeeps ==
  ASSUME TypeOK, HeadSoFar, KeepsReferences, stored' \cap LocalMerge = stored \cap LocalMerge,
         head' = head,
         pc' = "merged" => StorageHead = head + 1,
         pc' \in {"valid", "status", "create", "created", "lastCreated", "merge"} =>
           StorageHead = head
  PROVE  HeadSoFar' /\ StorageHead' = StorageHead
<1>1. \A g \in 0..MaxMerges : Own(g) \in stored' <=> g <= StorageHead
  BY OwnEvents DEF HeadSoFar
<1>2. StorageHead' = StorageHead
  BY <1>1, GreatestGeneration DEF StorageHead, HeadSoFar
<1>3. \A g \in 1..StorageHead : Own(g) \in Known
  BY LimitAssumption DEF HeadSoFar, Known
<1>4. \A g \in 1..StorageHead : tree'[Own(g)] = Own(g - 1)
  BY <1>3 DEF HeadSoFar, KeepsReferences
<1>5. StorageHead \in 0..MaxMerges /\ StorageHead \in {head, head + 1}
  BY DEF HeadSoFar
<1> HIDE DEF HeadSoFar
<1>6. HeadSoFar'
  BY <1>1, <1>2, <1>4, <1>5 DEF HeadSoFar
<1> QED BY <1>2, <1>6

LEMMA PeerNumbersKeep ==
  ASSUME TypeOK, TypeOK', Known' \cap PeerMerge = Known \cap PeerMerge
  PROVE  /\ \A p \in Peer : LastOf(p)' = LastOf(p)
         /\ \A p \in Peer, n \in 1..MaxPeerEvents : <<p, n>> \in Known' <=> <<p, n>> \in Known
<1>1. ASSUME NEW p \in Peer
      PROVE  LastOf(p)' = LastOf(p)
  <2>1. {e \in Known' : e[1] = p} = {e \in Known : e[1] = p}
    <3>1. \A e \in Known \cup Known' : e[1] = p => e \in PeerMerge
      <4>1. Known \subseteq Event /\ Known' \subseteq Event
        BY KnownEvents, SetOfSequence, Kinds DEF Known, TypeOK
      <4> QED BY <4>1, PeerEvents
    <3> QED BY <3>1
  <2> QED BY <2>1 DEF LastOf
<1>2. \A p \in Peer, n \in 1..MaxPeerEvents : <<p, n>> \in Known' <=> <<p, n>> \in Known
  BY PeerEvents
<1> QED BY <1>1, <1>2

LEMMA NumbersKeep ==
  ASSUME TypeOK, NumbersSoFar, stored' \cap Regular = stored \cap Regular,
         TypeOK', Known' \cap PeerMerge = Known \cap PeerMerge,
         chunks' + Cardinality(stored \cap Regular) <= MaxRegular
  PROVE  NumbersSoFar'
<1>1. \A n \in 1..MaxRegular : <<"r", n>> \in stored' <=> <<"r", n>> \in stored
  BY RegularEvents
<1> QED BY <1>1, PeerNumbersKeep DEF NumbersSoFar

LEMMA ReferencesKeep ==
  ASSUME TypeOK, ReferencesSoFar, KeepsReferences, stored \subseteq stored',
         Known \subseteq Known', consensus' = consensus,
         \A e \in Known' \ Known :
           /\ Merges(e)' \subseteq Known'
           /\ e \in PeerMerge => Merges(e)' \subseteq LocalMerge \cup PeerMerge
           /\ e \in LocalMerge => parents'[e] \cap LocalMerge = {}
           /\ \A p \in Peer : \A n \in 2..MaxPeerEvents :
                e = <<p, n>> => tree'[e] = <<p, n - 1>>,
         \A e \in Regular \cup Config : parents'[e] = {} /\ tree'[e] \in LocalMerge
  PROVE  ReferencesSoFar'
<1>1. \A e \in Known : Merges(e)' = Merges(e)
  BY DEF KeepsReferences, Merges
<1>2. \A e \in Known' : Merges(e)' \subseteq Known'
  BY <1>1 DEF ReferencesSoFar
<1>3. \A e \in Known' \cap PeerMerge : Merges(e)' \subseteq LocalMerge \cup PeerMerge
  BY <1>1 DEF ReferencesSoFar
<1>4. \A p \in Peer : \A n \in 2..MaxPeerEvents :
        <<p, n>> \in Known' => tree'[<<p, n>>] = <<p, n - 1>>
  <2> SUFFICES ASSUME NEW p \in Peer, NEW n \in 2..MaxPeerEvents, <<p, n>> \in Known'
               PROVE  tree'[<<p, n>>] = <<p, n - 1>>
    OBVIOUS
  <2>1. CASE <<p, n>> \in Known
    BY <2>1 DEF ReferencesSoFar, KeepsReferences
  <2>2. CASE <<p, n>> \in Known' \ Known
    BY <2>2
  <2> QED BY <2>1, <2>2
<1>5. \A e \in Known' \cap LocalMerge : parents'[e] \cap LocalMerge = {}
  BY DEF ReferencesSoFar, KeepsReferences
<1>6. \A e \in consensus' : HasChild(e)'
  BY <1>1, KnownEvents DEF ReferencesSoFar, HasChild
<1> QED BY <1>2, <1>3, <1>4, <1>5, <1>6 DEF ReferencesSoFar

LEMMA QueueKeeps ==
  ASSUME TypeOK, TypeOK', QueueSoFar, ReferencesSoFar, KeepsReferences, queue' = queue,
         stored \subseteq stored', torn \subseteq torn',
         pc' = pc \/ {pc, pc'} \cap {"read", "written"} = {},
         pc' = pc => UNCHANGED <<batch, dups>>,
         \A e \in stored' \ stored : e \notin PeerMerge /\ Merges(e)' \cap SetOf(queue) = {},
         torn' \ torn \subseteq stored' \ (LocalMerge \cup PeerMerge)
  PROVE  QueueSoFar'
<1>1. SetOf(queue) \subseteq PeerMerge /\ stored' \cap SetOf(queue) = stored \cap SetOf(queue)
  BY KnownEvents
<1>2. \A e \in Known : Merges(e)' = Merges(e)
  BY DEF KeepsReferences, Merges
<1>3. \A e \in Known' : e \in Known \/ (e \in stored' \ stored)
  BY DEF Known
<1>4. \A e \in SetOf(queue), f \in Known' :
        f[1] = e[1] /\ Generation(f) > Generation(e) => f \in SetOf(queue)
  <2> SUFFICES ASSUME NEW e \in SetOf(queue), NEW f \in Known', f[1] = e[1],
                      Generation(f) > Generation(e)
               PROVE  f \in SetOf(queue)
    OBVIOUS
  <2>1. CASE f \in Known
    BY <2>1 DEF QueueSoFar
  <2>2. CASE f \in stored' \ stored
    <3>1. e[1] \in Peer
      BY <1>1, PeerEvents
    <3>2. f \in PeerMerge
      BY <2>2, <3>1, PeerEvents DEF TypeOK
    <3> QED BY <2>2, <3>2
  <2> QED BY <1>3, <2>1, <2>2
<1>5. \A e \in Known' \ SetOf(queue) : Merges(e)' \cap SetOf(queue) = {}
  BY <1>2, <1>3 DEF QueueSoFar
<1>6. torn' \subseteq stored' \ LocalMerge
  BY DEF QueueSoFar
<1>7. torn' \cap SetOf(queue) = torn \cap SetOf(queue)
  BY <1>1
<1>8. pc' # "written" => SetOf(queue) \cap stored' \subseteq torn'
  BY <1>1 DEF QueueSoFar
<1>9. pc' = "written" => /\ SetOf(queue) \subseteq stored' /\ dups' \subseteq torn'
                         /\ dups' \subseteq SetOf(queue)
                         /\ (SetOf(queue) \ dups') \cap torn' = {}
  BY <1>7 DEF QueueSoFar
<1>10. pc' \in {"read", "written"} => batch' = queue'
  BY DEF QueueSoFar
<1> QED BY <1>4, <1>5, <1>6, <1>8, <1>9, <1>10 DEF QueueSoFar

LEMMA CacheKeeps ==
  ASSUME TypeOK, CacheSoFar, KeepsReferences, stored \subseteq stored',
         UNCHANGED <<childless, localChildless, outstanding, consensus>>,
         stored' \ Hidden' = stored \ Hidden, LocalMerge \subseteq Hidden,
         Taken \subseteq Taken',
         \A c \in Taken' \ Taken : /\ c \notin LocalMerge \cup PeerMerge
                                   /\ Merges(c)' \subseteq LocalMerge,
         \A e \in Taken : e \in LocalMerge \cup PeerMerge => (e \in torn' <=> e \in torn),
         \A e \in Creating' \cup Changing' : e \in stored' \ torn' /\ ~HasChild(e)'
  PROVE  CacheSoFar'
<1>1. Taken \subseteq stored /\ Taken' \subseteq stored' /\ stored \subseteq Known
  BY KnownEvents DEF Taken
<1>2. \A c \in Taken : Merges(c)' = Merges(c)
  BY <1>1 DEF KeepsReferences, Merges
<1>3. childless' = {e \in stored' \ Hidden' : \A c \in Taken' : e \notin Merges(c)'}
  <2>1. ASSUME NEW e \in stored \ Hidden
        PROVE  (\A c \in Taken' : e \notin Merges(c)') <=> (\A c \in Taken : e \notin Merges(c))
    BY <1>2
  <2> QED BY <2>1 DEF CacheSoFar
<1>4. outstanding' = (OutstandingInStorage' \ torn') \cap Taken'
  BY <1>1 DEF CacheSoFar, OutstandingInStorage, InStorage
<1> QED BY <1>3, <1>4 DEF CacheSoFar

LEMMA NoNewChild ==
  ASSUME TypeOK, KeepsReferences, NEW e, ~HasChild(e),
         \A c \in stored' \ stored : e \notin Merges(c)'
  PROVE  ~HasChild(e)'
BY KnownEvents DEF HasChild, KeepsReferences, Merges

LEMMA RegularsKeep ==
  ASSUME TypeOK, RegularsAreSiblings, ReferencesSoFar, KeepsReferences,
         stored' \cap LocalMerge = stored \cap LocalMerge
  PROVE  RegularsAreSiblings'
<1>1. \A m \in stored \cap LocalMerge : m \in Known /\ parents[m] \subseteq Known
  BY KnownEvents DEF ReferencesSoFar, Merges
<1> QED BY <1>1 DEF RegularsAreSiblings, KeepsReferences

LEMMA SiblingsKeep ==
  ASSUME TypeOK, SiblingsSoFar, HeadSoFar, CacheSoFar, KeepsReferences,
         UNCHANGED <<head, localChildless, StorageHead>>, Creating' \subseteq Creating
  PROVE  SiblingsSoFar'
<1>1. childless \subseteq Known /\ Creating \subseteq Known
  BY KnownEvents DEF CacheSoFar
<1>2. StorageHead = head + 1 => Own(StorageHead) \in Known
  BY KnownEvents DEF HeadSoFar
<1>3. \A r \in (localChildless \cap Regular) \cup Creating : r \in Known
  BY <1>1 DEF CacheSoFar
<1> QED BY <1>2, <1>3 DEF SiblingsSoFar, KeepsReferences

-----------------------------------------------------------------------------
(* Steps that leave storage and cache as they are *)

LEMMA SessionKeeps ==
  ASSUME InductiveInvariant, TypeOK',
         UNCHANGED <<storageVars, mergeVars, queue, request>>,
         chunks' + Cardinality(stored \cap Regular) <= MaxRegular,
         torn \subseteq torn', torn' \ torn \subseteq (Creating \ Creating') \cup SetOf(queue),
         Creating' \subseteq Creating, Creating \subseteq Creating' \cup torn',
         pc' = "merged" => StorageHead = head + 1,
         pc' \in {"valid", "status", "create", "created", "lastCreated", "merge"} =>
           StorageHead = head,
         QueueSoFar', StatusSoFar'
  PROVE  InductiveInvariant'
<1> USE DEF InductiveInvariant, storageVars, mergeVars
<1>1. Known' = Known /\ KeepsReferences
  BY DEF Known, KeepsReferences
<1>2. HeadSoFar' /\ StorageHead' = StorageHead
  BY <1>1, HeadKeeps
<1>3. NumbersSoFar'
  BY <1>1, NumbersKeep
<1>4. ReferencesSoFar'
  BY <1>1, ReferencesKeep DEF ReferencesSoFar
<1>5. CacheSoFar'
  <2>1. Taken' = Taken /\ Changing' = Changing
    BY DEF Taken, Changing
  <2>2. stored' \ Hidden' = stored \ Hidden /\ LocalMerge \subseteq Hidden
    BY <2>1 DEF Hidden
  <2>3. Creating \subseteq Regular /\ Changing \subseteq Config
    BY CreatingIsRegular DEF Changing
  <2>4. \A e \in Taken : e \in LocalMerge \cup PeerMerge => (e \in torn' <=> e \in torn)
    BY <2>3, Kinds DEF Taken
  <2>5. ASSUME NEW e \in Creating' \cup Changing'
        PROVE  e \in stored' \ torn' /\ ~HasChild(e)'
    <3>1. e \in Creating \cup Changing /\ e \notin SetOf(queue)
      BY <2>1, <2>3, KnownEvents, Kinds
    <3>2. e \notin Creating \ Creating'
      BY <2>1, <2>3, <2>5, Kinds
    <3>3. e \in stored \ torn /\ ~HasChild(e)
      BY <3>1 DEF CacheSoFar
    <3>4. ~HasChild(e)'
      BY <1>1, <3>3, NoNewChild
    <3> QED BY <3>1, <3>2, <3>3, <3>4
  <2> QED BY <1>1, <2>1, <2>2, <2>4, <2>5, CacheKeeps
<1>6. RequestsSoFar'
  BY DEF RequestsSoFar
<1>7. SiblingsSoFar'
  BY <1>1, <1>2, SiblingsKeep
<1>8. RegularsAreSiblings'
  BY <1>1, RegularsKeep
<1> QED BY <1>2, <1>3, <1>4, <1>5, <1>6, <1>7, <1>8

LEMMA SubmitKeeps ==
  ASSUME InductiveInvariant, TypeOK', Submit
  PROVE  InductiveInvariant'
<1> USE DEF InductiveInvariant, Submit, storageVars, mergeVars, writerVars, loopVars,
            historyVars
<1>1. chunks' + Cardinality(stored \cap Regular) <= MaxRegular
  <2>1. Cardinality(stored \cap Regular) \in Nat
    BY Kinds, Sizes
  <2>2. chunks \in Nat /\ MaxRegular \in Nat
    BY LimitAssumption DEF TypeOK
  <2> QED BY <2>1, <2>2
<1>2. Creating' = Creating
  BY DEF Creating
<1>3. QueueSoFar'
  BY QueueKeeps DEF KeepsReferences
<1>4. StatusSoFar'
  BY DEF StatusSoFar
<1> QED BY <1>1, <1>2, <1>3, <1>4, SessionKeeps DEF HeadSoFar

LEMMA ReadQueueKeeps ==
  ASSUME InductiveInvariant, TypeOK', ReadQueue
  PROVE  InductiveInvariant'
<1> USE DEF InductiveInvariant, ReadQueue, storageVars, mergeVars, writerVars, loopVars,
            historyVars
<1>1. Creating' = {} /\ Creating = {}
  BY DEF Creating
<1>2. QueueSoFar'
  <2>1. Known' = Known /\ \A e \in Known : Merges(e)' = Merges(e)
    BY DEF Known, Merges
  <2> QED BY <2>1 DEF QueueSoFar
<1>3. StatusSoFar'
  BY DEF StatusSoFar
<1>4. chunks' + Cardinality(stored \cap Regular) <= MaxRegular
  BY DEF NumbersSoFar
<1> QED BY <1>1, <1>2, <1>3, <1>4, SessionKeeps

LEMMA LoopKeeps ==
  ASSUME InductiveInvariant, TypeOK',
         \/ \E others \in BOOLEAN : ReadMergeStatus(others)
         \/ CheckMergeable \/ CreateNothing
         \/ StoreMerge /\ Idle
  PROVE  InductiveInvariant'
<1> USE DEF InductiveInvariant, storageVars, mergeVars, writerVars, loopVars, historyVars
<1>1. UNCHANGED <<storageVars, mergeVars, queue, request, chunks, torn>>
  BY DEF ReadMergeStatus, CheckMergeable, CreateNothing, StoreMerge, Idle
<1>2. /\ pc \in {"valid", "status", "create", "merge"}
      /\ pc' \in {"idle", "status", "create", "merge"}
  BY DEF ReadMergeStatus, CheckMergeable, CreateNothing, StoreMerge, Idle
<1>3. Creating' = {} /\ Creating = {}
  BY <1>2 DEF Creating
<1>4. QueueSoFar'
  <2>1. pc' = pc => UNCHANGED <<batch, dups>>
    BY DEF ReadMergeStatus, CheckMergeable, CreateNothing, StoreMerge, Idle
  <2>2. {pc, pc'} \cap {"read", "written"} = {}
    BY <1>2
  <2> QED BY <1>1, <2>1, <2>2, QueueKeeps DEF KeepsReferences
<1>5. StatusSoFar'
  <2>1. CASE \E others \in BOOLEAN : ReadMergeStatus(others)
    <3>1. /\ status'.peer = childless \ localChildless /\ status'.local = localChildless
          /\ pc' = "status"
      BY <2>1 DEF ReadMergeStatus
    <3>2. childless \subseteq PeerMerge \cup Regular \cup Config
      BY Kinds DEF CacheSoFar, Hidden, TypeOK
    <3>3. childless \ localChildless \subseteq childless \cap PeerMerge
      BY <3>2 DEF CacheSoFar
    <3> QED BY <1>1, <3>1, <3>3 DEF StatusSoFar
  <2>2. CASE CheckMergeable \/ CreateNothing \/ (StoreMerge /\ Idle)
    <3>1. pc' = "idle" \/ status' = status
      BY <2>2 DEF CheckMergeable, CreateNothing, Idle
    <3>2. pc \in {"status", "create", "merge"}
      BY <2>2 DEF CheckMergeable, CreateNothing, StoreMerge
    <3> QED BY <1>1, <1>2, <3>1, <3>2 DEF StatusSoFar
  <2> QED BY <2>1, <2>2
<1>6. StorageHead = head
  BY <1>2 DEF HeadSoFar
<1>7. chunks' + Cardinality(stored \cap Regular) <= MaxRegular
  BY <1>1 DEF NumbersSoFar
<1> QED BY <1>1, <1>2, <1>3, <1>4, <1>5, <1>6, <1>7, SessionKeeps

LEMMA CutSessionKeeps ==
  ASSUME InductiveInvariant, TypeOK', CutSession
  PROVE  InductiveInvariant'
<1> USE DEF InductiveInvariant, CutSession, Idle, storageVars, mergeVars, writerVars,
            loopVars, historyVars
<1>1. Creating' = {} /\ pc' = "idle"
  BY DEF Creating
<1>2. torn' = torn \cup LeftBySession
  OBVIOUS
<1>3. torn' \ torn \subseteq Creating \cup SetOf(queue) /\ Creating \subseteq torn'
  <2>1. CASE pc = "written"
    BY <1>2, <2>1, LeftIs DEF Creating, QueueSoFar
  <2>2. CASE pc # "written"
    BY <1>2, <2>2, LeftIs
  <2> QED BY <2>1, <2>2
<1>4. QueueSoFar'
  <2>1. Known' = Known /\ \A e \in Known : Merges(e)' = Merges(e)
    BY DEF Known, Merges
  <2>2. SetOf(queue) \cap stored \subseteq torn'
    <3>1. CASE pc = "written"
      BY <1>2, <3>1, LeftIs DEF QueueSoFar
    <3>2. CASE pc # "written"
      BY <1>2, <3>2 DEF QueueSoFar
    <3> QED BY <3>1, <3>2
  <2>3. torn' \subseteq stored \ LocalMerge
    <3>1. Creating \subseteq stored \ LocalMerge
      BY CreatingIsRegular, Kinds DEF CacheSoFar
    <3>2. pc = "written" => SetOf(batch) \subseteq stored \ LocalMerge
      BY SetOfSequence, Kinds DEF QueueSoFar, TypeOK
    <3> QED BY <1>2, <3>1, <3>2, LeftIs DEF QueueSoFar
  <2> QED BY <1>1, <2>1, <2>2, <2>3 DEF QueueSoFar
<1>5. StatusSoFar'
  BY <1>1 DEF StatusSoFar
<1>6. chunks' + Cardinality(stored \cap Regular) <= MaxRegular
  BY DEF NumbersSoFar
<1> QED BY <1>1, <1>3, <1>4, <1>5, <1>6, SessionKeeps

-----------------------------------------------------------------------------
(* The world outside *)

LEMMA AddPeerEventKeeps ==
  ASSUME InductiveInvariant, TypeOK', NEW p \in Peer, AddPeerEvent(p)
  PROVE  InductiveInvariant'
<1> USE DEF InductiveInvariant, storageVars, mergeVars, writerVars, loopVars, historyVars
<1> PICK n : n = 1 + LastOf(p)
  OBVIOUS
<1> PICK x : x = <<p, n>>
  OBVIOUS
<1>1. n \in 1..MaxPeerEvents /\ LastOf(p) = n - 1
  <2>1. LastOf(p) \in Nat
    BY KnownEvents, Sizes DEF LastOf
  <2>2. n <= MaxPeerEvents
    BY DEF AddPeerEvent, LastOf
  <2> QED BY <2>1, <2>2, LimitAssumption
<1>2. x \in PeerMerge /\ x \notin Known
  <2>1. <<p, n>> \in Known <=> n <= LastOf(p)
    BY <1>1 DEF NumbersSoFar
  <2>2. ~(n <= LastOf(p))
    BY <1>1
  <2> QED BY <1>1, <2>1, <2>2, PeerEvents
<1>3. PICK others \in SUBSET {e \in Known \cap (LocalMerge \cup PeerMerge) :
                                e[1] # p /\ e # Genesis} :
        parents' = [parents EXCEPT ![x] = others]
  BY DEF AddPeerEvent, LastOf
<1> PICK last : last = IF n = 1 THEN Genesis ELSE <<p, n - 1>>
  OBVIOUS
<1>4. tree' = [tree EXCEPT ![x] = last] /\ queue' = Append(queue, x) /\ pc = "idle"
  BY DEF AddPeerEvent, LastOf
<1>5. last \in Known \cap (LocalMerge \cup PeerMerge)
  <2>1. CASE n = 1
    BY <2>1, OwnEvents, LimitAssumption, KnownEvents DEF HeadSoFar
  <2>2. CASE n # 1
    <3>1. n - 1 \in 1..MaxPeerEvents /\ n - 1 <= LastOf(p)
      BY <1>1, <2>2, LimitAssumption
    <3> QED BY <2>2, <3>1, PeerEvents DEF NumbersSoFar
  <2> QED BY <2>1, <2>2
<1>6. /\ tree'[x] = last /\ parents'[x] = others
      /\ \A e \in Event \ {x} : tree'[e] = tree[e] /\ parents'[e] = parents[e]
  BY <1>2, <1>3, <1>4, Kinds DEF TypeOK
<1>7. /\ SetOf(queue') = SetOf(queue) \cup {x}
      /\ UNCHANGED <<stored, consensus, mergeVars, chunks, pc, writerVars, loopVars,
                     request, historyVars>>
  BY <1>4, SetOfSequence DEF TypeOK, AddPeerEvent
<1>8. Known' = Known \cup {x}
  BY <1>7 DEF Known
<1>9. KeepsReferences
  BY <1>2, <1>6, KnownEvents DEF KeepsReferences
<1>10. HeadSoFar' /\ StorageHead' = StorageHead
  BY <1>4, <1>7, <1>9, HeadKeeps
<1>11. NumbersSoFar'
  <2> DEFINE count(q) == Cardinality({e \in Known' : e[1] = q})
  <2>1. count(p) = n
    <3> DEFINE S == {e \in Known : e[1] = p}
               T == {e \in Known' : e[1] = p}
    <3>1. T = S \cup {x}
      BY <1>8
    <3>2. IsFiniteSet(S) /\ x \notin S
      BY <1>2, KnownEvents, Sizes
    <3>3. Cardinality(S) = n - 1
      BY <1>1 DEF LastOf
    <3>4. Cardinality(T) = n
      <4> HIDE DEF S, T
      <4>1. Cardinality(S \cup {x}) = Cardinality(S) + 1
        BY <3>2, FS_AddElement
      <4>2. n \in Nat /\ n - 1 + 1 = n
        BY <1>1, LimitAssumption
      <4> QED BY <3>1, <3>3, <4>1, <4>2, Zenon
    <3> QED BY <3>4
  <2>2. ASSUME NEW q \in Peer \ {p}
        PROVE  count(q) = LastOf(q)
    <3>1. {e \in Known' : e[1] = q} = {e \in Known : e[1] = q}
      BY <1>8
    <3> QED BY <3>1 DEF LastOf
  <2>3. ASSUME NEW q \in Peer, NEW i \in 1..MaxPeerEvents
        PROVE  <<q, i>> \in Known' <=> i <= count(q)
    <3>1. <<q, i>> \in Known' <=> <<q, i>> \in Known \/ <<q, i>> = x
      BY <1>8
    <3>2. <<q, i>> \in Known <=> i <= LastOf(q)
      BY DEF NumbersSoFar
    <3> HIDE DEF count, NumbersSoFar
    <3>3. CASE q = p
      <4>1. <<q, i>> \in Known <=> i <= n - 1
        BY <1>1, <3>2, <3>3
      <4>2. <<q, i>> = x <=> i = n
        BY <3>3
      <4>3. count(q) = n
        BY <2>1, <3>3
      <4>4. i \in Nat /\ n \in Nat
        BY <1>1, LimitAssumption
      <4>5. i <= n - 1 \/ i = n <=> i <= n
        BY <4>4
      <4> QED BY <3>1, <4>1, <4>2, <4>3, <4>5, Zenon
    <3>4. CASE q # p
      <4>1. count(q) = LastOf(q) /\ <<q, i>> # x
        BY <2>2, <3>4
      <4> QED BY <3>1, <3>2, <4>1
    <3> QED BY <3>3, <3>4
  <2>4. chunks' + Cardinality(stored' \cap Regular) <= MaxRegular
    BY <1>7 DEF NumbersSoFar
  <2>5. \A i \in 1..MaxRegular :
          <<"r", i>> \in stored' <=> i <= Cardinality(stored' \cap Regular)
    BY <1>7 DEF NumbersSoFar
  <2> QED BY <2>3, <2>4, <2>5, Zenon DEF NumbersSoFar, LastOf
<1>12. ReferencesSoFar'
  <2>1. Merges(x)' \subseteq Known \cap (LocalMerge \cup PeerMerge)
    BY <1>5, <1>6 DEF Merges
  <2>2. \A q \in Peer : \A i \in 2..MaxPeerEvents : x = <<q, i>> => tree'[x] = <<q, i - 1>>
    BY <1>6
  <2>3. \A e \in Regular \cup Config : parents'[e] = {} /\ tree'[e] \in LocalMerge
    BY <1>2, <1>6, Kinds DEF ReferencesSoFar
  <2> QED BY <1>2, <1>7, <1>8, <1>9, <2>1, <2>2, <2>3, Kinds, ReferencesKeep
<1>13. QueueSoFar'
  <2>1. x \notin stored /\ pc' = "idle"
    BY <1>2, <1>4, <1>7, KnownEvents
  <2>2. ASSUME NEW e \in SetOf(queue'), NEW f \in Known', f[1] = e[1],
               Generation(f) > Generation(e)
        PROVE  f \in SetOf(queue')
    <3>1. CASE f = x
      BY <1>7, <3>1
    <3>2. CASE f # x /\ e # x
      BY <1>7, <1>8, <2>2, <3>2 DEF QueueSoFar
    <3>3. CASE f # x /\ e = x
      <4>1. f \in Known /\ f[1] = p /\ Generation(f) > n
        BY <1>8, <2>2, <3>3 DEF Generation
      <4>2. f \in PeerMerge
        BY <4>1, PeerEvents, KnownEvents
      <4>3. Generation(f) \in 1..MaxPeerEvents /\ f = <<p, Generation(f)>>
        BY <4>1, <4>2, PeerEvents
      <4>4. Generation(f) <= n - 1
        BY <1>1, <4>1, <4>3 DEF NumbersSoFar
      <4> QED BY <1>1, <4>1, <4>3, <4>4
    <3> QED BY <3>1, <3>2, <3>3
  <2>3. ASSUME NEW e \in Known' \ SetOf(queue')
        PROVE  Merges(e)' \cap SetOf(queue') = {}
    <3>1. e \in Known \ SetOf(queue) /\ Merges(e)' = Merges(e)
      BY <1>7, <1>8, <1>9 DEF KeepsReferences, Merges
    <3>2. Merges(e) \subseteq Known /\ Merges(e) \cap SetOf(queue) = {}
      BY <3>1 DEF QueueSoFar, ReferencesSoFar
    <3> QED BY <1>2, <1>7, <3>1, <3>2
  <2>4. SetOf(queue') \cap stored' \subseteq torn' /\ torn' \subseteq stored' \ LocalMerge
    BY <1>4, <1>7, <2>1 DEF QueueSoFar
  <2> QED BY <2>1, <2>2, <2>3, <2>4 DEF QueueSoFar
<1>14. CacheSoFar'
  <2>1. x \notin stored
    BY <1>2, KnownEvents
  <2>2. Creating' = Creating /\ Changing' = Changing /\ Hidden' = Hidden \cup {x}
    BY <1>7 DEF Creating, Changing, Hidden
  <2>3. Taken' = Taken
    BY <1>7, <2>1 DEF Taken
  <2>4. \A e \in Creating' \cup Changing' : e \in stored' \ torn' /\ ~HasChild(e)'
    <3>1. \A e \in Creating \cup Changing : e \in stored \ torn /\ ~HasChild(e)
      BY DEF CacheSoFar
    <3> QED BY <1>7, <1>9, <2>2, <3>1, NoNewChild
  <2> QED BY <1>7, <1>9, <2>1, <2>2, <2>3, <2>4, CacheKeeps DEF Hidden
<1>15. RequestsSoFar'
  BY <1>2, <1>6, <1>7, Kinds DEF RequestsSoFar
<1>16. SiblingsSoFar'
  BY <1>7, <1>9, <1>10, SiblingsKeep DEF Creating
<1>17. RegularsAreSiblings' /\ StatusSoFar'
  BY <1>4, <1>7, <1>9, RegularsKeep DEF StatusSoFar
<1> QED BY <1>10, <1>11, <1>12, <1>13, <1>14, <1>15, <1>16, <1>17

LEMMA WriteBlockKeeps ==
  ASSUME InductiveInvariant, TypeOK', NEW e \in PeerMerge \cup LocalMerge, WriteBlock(e)
  PROVE  InductiveInvariant'
<1> USE DEF InductiveInvariant, WriteBlock, storageVars, mergeVars, writerVars, loopVars,
            historyVars
<1> DEFINE beside == parents[e] \cap (Regular \cup Config)
<1>1. /\ Known' = Known /\ KeepsReferences /\ \A f \in Known : Merges(f)' = Merges(f)
      /\ \A f : HasChild(f)' <=> HasChild(f)
  BY DEF Known, KeepsReferences, Merges, HasChild
<1>2. HeadSoFar' /\ StorageHead' = StorageHead
  BY <1>1, HeadKeeps DEF HeadSoFar
<1>3. NumbersSoFar'
  BY <1>1, NumbersKeep DEF NumbersSoFar
<1>4. e \in Taken /\ beside \subseteq Taken /\ \A f \in beside : HasChild(f)
  <2>1. e \in Taken /\ e \in stored
    BY DEF CacheSoFar
  <2>2. beside \subseteq Known
    BY <2>1, KnownEvents DEF ReferencesSoFar, Merges
  <2>3. beside \subseteq Taken
    BY <2>2, KnownEvents, Kinds, OwnEvents, LimitAssumption DEF Taken, HeadSoFar, TypeOK
  <2> QED BY <2>1, <2>3 DEF HasChild, Merges
<1>5. ReferencesSoFar'
  <2>1. \A f \in consensus' : HasChild(f)'
    BY <1>1, <1>4 DEF ReferencesSoFar
  <2> QED BY <1>1, <2>1 DEF ReferencesSoFar
<1>6. QueueSoFar'
  BY <1>1 DEF QueueSoFar
<1>7. CacheSoFar'
  <2>1. Creating' = Creating /\ Changing' = Changing /\ Hidden' = Hidden /\ Taken' = Taken
    BY DEF Creating, Changing, Hidden, Taken
  <2>2. consensus' \subseteq Taken'
    BY <1>4, <2>1 DEF CacheSoFar
  <2>3. outstanding' = (OutstandingInStorage' \ torn') \cap Taken'
    BY <2>1, Kinds DEF CacheSoFar, OutstandingInStorage, InStorage
  <2>4. childless' = {f \in stored' \ Hidden' : \A c \in Taken' : f \notin Merges(c)'}
    <3>1. \A c \in Taken : Merges(c)' = Merges(c)
      BY DEF Merges
    <3> QED BY <2>1, <3>1 DEF CacheSoFar
  <2> QED BY <1>1, <2>1, <2>2, <2>3, <2>4 DEF CacheSoFar
<1>8. RequestsSoFar'
  BY DEF RequestsSoFar
<1>9. SiblingsSoFar'
  BY <1>1, <1>2, SiblingsKeep DEF Creating
<1>10. RegularsAreSiblings' /\ StatusSoFar'
  BY <1>1, RegularsKeep DEF StatusSoFar
<1> QED BY <1>2, <1>3, <1>5, <1>6, <1>7, <1>8, <1>9, <1>10

-----------------------------------------------------------------------------
(* The event writer *)

\* All or some of the queue gets into storage.
LEMMA StoringKeeps ==
  ASSUME InductiveInvariant, TypeOK', pc = "read", pc' \in {"idle", "written"},
         NEW some \in SUBSET SetOf(queue), stored' = stored \cup some,
         torn \subseteq torn', torn' \ torn \subseteq some,
         UNCHANGED <<tree, parents, consensus, mergeVars, queue, chunks, request>>,
         QueueSoFar'
  PROVE  InductiveInvariant'
<1> USE DEF InductiveInvariant, mergeVars
<1>1. some \subseteq PeerMerge /\ SetOf(queue) \subseteq PeerMerge
  BY KnownEvents
<1>2. Known' = Known /\ KeepsReferences /\ \A e \in Known : Merges(e)' = Merges(e)
  BY DEF Known, KeepsReferences, Merges
<1>3. stored' \cap LocalMerge = stored \cap LocalMerge
      /\ stored' \cap Regular = stored \cap Regular
      /\ stored' \cap Config = stored \cap Config
  BY <1>1, Kinds
<1>4. HeadSoFar' /\ StorageHead' = StorageHead
  BY <1>2, <1>3, HeadKeeps
<1>5. NumbersSoFar'
  BY <1>2, <1>3, NumbersKeep DEF NumbersSoFar
<1>6. ReferencesSoFar'
  BY <1>2, ReferencesKeep DEF ReferencesSoFar
<1>7. CacheSoFar'
  <2>1. Creating = {} /\ Creating' = {} /\ Changing' = Changing
    BY DEF Creating, Changing
  <2>2. Hidden' = Hidden /\ stored' \ Hidden' = stored \ Hidden /\ LocalMerge \subseteq Hidden
    BY <2>1 DEF Hidden
  <2>3. Taken' = Taken
    BY DEF Taken
  <2>4. \A e \in Taken : e \in torn' <=> e \in torn
    BY DEF Taken
  <2>5. ASSUME NEW c \in Changing
        PROVE  c \in stored' \ torn' /\ ~HasChild(c)'
    <3>1. c \in Config /\ c \in stored \ torn /\ ~HasChild(c)
      BY DEF Changing, CacheSoFar
    <3>2. \A e \in some : c \notin Merges(e)'
      BY <1>1, <1>2, <3>1, KnownEvents, Kinds DEF ReferencesSoFar
    <3> QED BY <1>1, <1>2, <3>1, <3>2, Kinds, NoNewChild
  <2> QED BY <1>2, <2>1, <2>2, <2>3, <2>4, <2>5, CacheKeeps
<1>8. RequestsSoFar'
  BY <1>3 DEF RequestsSoFar
<1>9. SiblingsSoFar'
  BY <1>2, <1>4, SiblingsKeep DEF Creating
<1>10. RegularsAreSiblings' /\ StatusSoFar'
  BY <1>2, <1>3, RegularsKeep DEF StatusSoFar
<1> QED BY <1>4, <1>5, <1>6, <1>7, <1>8, <1>9, <1>10

LEMMA StoreBatchKeeps ==
  ASSUME InductiveInvariant, TypeOK', StoreBatch
  PROVE  InductiveInvariant'
<1> USE DEF InductiveInvariant, StoreBatch, mergeVars, historyVars
<1>1. batch = queue /\ SetOf(queue) \cap stored \subseteq torn /\ torn \subseteq stored \ LocalMerge
  BY DEF QueueSoFar
<1>2. Known' = Known /\ \A e \in Known : Merges(e)' = Merges(e)
  BY <1>1 DEF Known, Merges
<1>3. QueueSoFar'
  BY <1>1, <1>2 DEF QueueSoFar
<1> QED BY <1>1, <1>3, StoringKeeps

LEMMA CutStoringKeeps ==
  ASSUME InductiveInvariant, TypeOK', CutStoring
  PROVE  InductiveInvariant'
<1> USE DEF InductiveInvariant, CutStoring, Idle, mergeVars
<1>1. batch = queue /\ SetOf(queue) \cap stored \subseteq torn /\ torn \subseteq stored \ LocalMerge
  BY DEF QueueSoFar
<1>2. PICK some \in SUBSET SetOf(queue) : stored' = stored \cup some /\ torn' = torn \cup some
  BY <1>1
<1>3. Known' = Known /\ \A e \in Known : Merges(e)' = Merges(e)
  BY <1>2 DEF Known, Merges
<1>4. some \cap LocalMerge = {}
  BY KnownEvents, Kinds
<1>5. QueueSoFar'
  BY <1>1, <1>2, <1>3, <1>4 DEF QueueSoFar
<1> QED BY <1>2, <1>5, StoringKeeps

\* A peer's event in the batch that is not its last there is a parent of the
\* next one.
LEMMA OthersAreParents ==
  ASSUME InductiveInvariant, batch = queue, NEW e \in SetOf(queue), e \notin BatchParents
  PROVE  LastOfCreator(e)
<1> USE DEF InductiveInvariant
<1> SUFFICES ASSUME NEW f \in SetOf(queue), f[1] = e[1], ~(Generation(f) <= Generation(e))
             PROVE  FALSE
  BY DEF LastOfCreator
<1> PICK p \in Peer, n \in 1..MaxPeerEvents : e = <<p, n>>
  BY KnownEvents, PeerEvents
<1> PICK m \in 1..MaxPeerEvents : f = <<p, m>>
  BY KnownEvents, PeerEvents
<1>1. n < m /\ n \in Nat /\ m \in Nat /\ MaxPeerEvents \in Nat
  BY LimitAssumption DEF Generation
<1>2. n + 1 \in 1..MaxPeerEvents /\ n + 1 \in 2..MaxPeerEvents /\ n + 1 <= m /\ n + 1 > n
      /\ n + 1 - 1 = n
  BY <1>1
<1>3. <<p, n + 1>> \in Known
  <2>1. m <= LastOf(p)
    BY KnownEvents DEF NumbersSoFar
  <2>2. LastOf(p) \in Nat
    BY KnownEvents, Sizes DEF LastOf
  <2>3. n + 1 <= LastOf(p)
    BY <1>1, <2>1, <2>2
  <2> QED BY <1>2, <2>3 DEF NumbersSoFar
<1>4. <<p, n + 1>> \in SetOf(queue)
  BY <1>2, <1>3 DEF QueueSoFar, Generation
<1>5. tree[<<p, n + 1>>] = <<p, n>>
  <2>1. \A i \in 2..MaxPeerEvents : <<p, i>> \in Known => tree[<<p, i>>] = <<p, i - 1>>
    BY DEF ReferencesSoFar
  <2> HIDE DEF InductiveInvariant
  <2>2. PICK k \in 2..MaxPeerEvents : k = n + 1 /\ k - 1 = n
    BY <1>2
  <2>3. <<p, k>> \in Known
    BY <1>3, <2>2
  <2>4. tree[<<p, k>>] = <<p, k - 1>>
    BY <2>1, <2>3
  <2> QED BY <2>2, <2>4
<1> QED BY <1>4, <1>5 DEF BatchParents, Merges

LEMMA UpdateCacheKeeps ==
  ASSUME InductiveInvariant, TypeOK', UpdateCache
  PROVE  InductiveInvariant'
<1> USE DEF InductiveInvariant, storageVars, historyVars
<1>1. /\ pc = "written" /\ batch = queue /\ SetOf(queue) \subseteq stored
      /\ dups \subseteq torn /\ (SetOf(queue) \ dups) \cap torn = {}
  BY DEF QueueSoFar, UpdateCache
<1>2. /\ childless' = (childless \cup NewHeads) \ BatchParents
      /\ outstanding' = outstanding \cup (SetOf(queue) \ dups)
      /\ pc' = "idle" /\ queue' = <<>>
      /\ UNCHANGED <<storageVars, localChildless, head, chunks, request, historyVars>>
  <2>1. queue' = SubSeq(queue, Len(queue) + 1, Len(queue))
    BY <1>1 DEF UpdateCache
  <2> QED BY <1>1, <2>1, SetOfSequence DEF UpdateCache, Idle, TypeOK
<1>3. SetOf(queue') = {}
  BY <1>2, SetOfEmpty
<1>4. /\ Known' = Known /\ KeepsReferences /\ \A e \in Event : Merges(e)' = Merges(e)
      /\ \A e : HasChild(e)' <=> HasChild(e)
  BY <1>1, <1>2, <1>3 DEF Known, KeepsReferences, Merges, HasChild
<1>5. HeadSoFar' /\ StorageHead' = StorageHead
  BY <1>2, <1>4, HeadKeeps
<1>6. NumbersSoFar'
  BY <1>2, <1>4, NumbersKeep DEF NumbersSoFar
<1>7. ReferencesSoFar'
  BY <1>2, <1>4, ReferencesKeep DEF ReferencesSoFar
<1>8. QueueSoFar'
  BY <1>2, <1>3 DEF QueueSoFar
<1>9. CacheSoFar'
  <2>1. Creating' = {} /\ Creating = {} /\ Changing' = Changing
    BY <1>1, <1>2 DEF Creating, Changing
  <2>2. SetOf(queue) \subseteq PeerMerge /\ SetOf(queue) \cap Taken = {}
        /\ Taken \subseteq Known \ SetOf(queue)
    BY KnownEvents DEF Taken
  <2>3. Taken' = Taken \cup SetOf(queue)
    <3>1. \A g \in (head + 1)..MaxMerges : Own(g) \notin SetOf(queue)
      BY <2>2, PeerAssumption DEF Own, PeerMerge
    <3> QED BY <1>1, <1>2, <1>3, <3>1 DEF Taken
  <2>4. stored' \ Hidden' = (stored \ Hidden) \cup (SetOf(queue) \ dups)
    <3>1. Hidden' = LocalMerge \cup torn \cup Changing
      BY <1>2, <1>3, <2>1 DEF Hidden
    <3>2. Hidden = LocalMerge \cup torn \cup Changing \cup SetOf(queue)
      BY <2>1 DEF Hidden
    <3>3. SetOf(queue) \cap (LocalMerge \cup Changing) = {}
      BY <2>2, Kinds DEF Changing
    <3> HIDE DEF InductiveInvariant
    <3> QED BY <1>1, <1>2, <3>1, <3>2, <3>3
  <2>5. BatchParents = UNION {Merges(e) : e \in SetOf(queue)}
    BY <1>1 DEF BatchParents
  <2>6. ASSUME NEW e \in stored \ Hidden
        PROVE  e \in childless' <=> \A c \in Taken' : e \notin Merges(c)'
    <3>1. e \notin NewHeads
      BY <1>1 DEF NewHeads, Hidden
    <3>2. e \in childless <=> \A c \in Taken : e \notin Merges(c)
      BY DEF CacheSoFar
    <3>3. e \in BatchParents <=> \E c \in SetOf(queue) : e \in Merges(c)
      BY <2>5
    <3>4. \A c \in Taken \cup SetOf(queue) : Merges(c)' = Merges(c)
      BY <1>4, <2>2, KnownEvents, Kinds
    <3> HIDE DEF InductiveInvariant
    <3> QED BY <1>2, <2>3, <3>1, <3>2, <3>3, <3>4
  <2>7. ASSUME NEW e \in SetOf(queue) \ dups
        PROVE  e \in childless' <=> \A c \in Taken' : e \notin Merges(c)'
    <3>1. e \notin childless
      BY DEF CacheSoFar, Hidden
    <3>2. \A c \in Taken : e \notin Merges(c)
      BY <2>2 DEF QueueSoFar
    <3>3. e \in BatchParents <=> \E c \in SetOf(queue) : e \in Merges(c)
      BY <2>5
    <3>4. \A c \in Taken \cup SetOf(queue) : Merges(c)' = Merges(c)
      BY <1>4, <2>2, KnownEvents, Kinds
    <3>5. e \notin BatchParents => e \in NewHeads
      BY <1>1, OthersAreParents DEF NewHeads
    <3> HIDE DEF InductiveInvariant
    <3> QED BY <1>2, <2>3, <3>1, <3>2, <3>3, <3>4, <3>5
  <2>8. childless' \subseteq stored' \ Hidden'
    <3>1. childless \subseteq stored \ Hidden
      BY DEF CacheSoFar
    <3>2. NewHeads \subseteq SetOf(queue) \ dups
      BY <1>1 DEF NewHeads
    <3> HIDE DEF InductiveInvariant
    <3> QED BY <1>2, <2>4, <3>1, <3>2
  <2>9. childless' = {e \in stored' \ Hidden' : \A c \in Taken' : e \notin Merges(c)'}
    <3> HIDE DEF InductiveInvariant
    <3> QED BY <2>4, <2>6, <2>7, <2>8
  <2>10. localChildless' = childless' \cap (Regular \cup Config)
    <3>1. BatchParents \cap (Regular \cup Config) = {}
      BY <2>2, <2>5, KnownEvents, Kinds DEF ReferencesSoFar
    <3>2. NewHeads \cap (Regular \cup Config) = {}
      BY <1>1, <2>2, Kinds DEF NewHeads
    <3>3. localChildless = childless \cap (Regular \cup Config)
      BY DEF CacheSoFar
    <3> HIDE DEF InductiveInvariant
    <3> QED BY <1>2, <3>1, <3>2, <3>3
  <2>11. outstanding' = (OutstandingInStorage' \ torn') \cap Taken'
    <3>1. SetOf(queue) \ dups \subseteq OutstandingInStorage \ torn
      BY <1>1, <2>2 DEF OutstandingInStorage, InStorage, CacheSoFar
    <3>2. OutstandingInStorage' = OutstandingInStorage
      BY <1>2 DEF OutstandingInStorage, InStorage
    <3>3. outstanding = (OutstandingInStorage \ torn) \cap Taken
      BY DEF CacheSoFar
    <3> HIDE DEF InductiveInvariant
    <3> QED BY <1>1, <1>2, <2>3, <3>1, <3>2, <3>3
  <2>12. \A e \in Creating' \cup Changing' : e \in stored' \ torn' /\ ~HasChild(e)'
    BY <1>2, <1>4, <2>1 DEF CacheSoFar
  <2>13. consensus' \subseteq Taken'
    BY <1>2, <2>3 DEF CacheSoFar
  <2> QED BY <2>9, <2>10, <2>11, <2>12, <2>13 DEF CacheSoFar
<1>10. RequestsSoFar'
  BY <1>2 DEF RequestsSoFar
<1>11. SiblingsSoFar'
  BY <1>2, <1>4, <1>5, SiblingsKeep DEF Creating
<1>12. RegularsAreSiblings' /\ StatusSoFar'
  BY <1>2, <1>4, RegularsKeep DEF StatusSoFar
<1> QED BY <1>5, <1>6, <1>7, <1>8, <1>9, <1>10, <1>11, <1>12

-----------------------------------------------------------------------------
(* The merge step *)

\* The cache is told of the last merge event, at once or by a later session.
LEMMA CacheMergeKeeps ==
  ASSUME InductiveInvariant, TypeOK', StorageHead = head + 1, CacheLocalMerge(StorageHead),
         pc \in {"idle", "merged"}, pc' \in {"idle", "valid"},
         UNCHANGED <<storageVars, queue, chunks, request, historyVars>>
  PROVE  InductiveInvariant'
<1> USE DEF InductiveInvariant, storageVars, historyVars
<1> PICK m : m = Own(StorageHead)
  OBVIOUS
<1>1. /\ childless' = childless \ parents[m] /\ localChildless' = localChildless \ parents[m]
      /\ outstanding' = outstanding \cup {m} /\ head' = StorageHead
  BY DEF CacheLocalMerge
<1>2. /\ Known' = Known /\ KeepsReferences /\ \A e : Merges(e)' = Merges(e)
      /\ \A e : HasChild(e)' <=> HasChild(e)
  BY DEF Known, KeepsReferences, Merges, HasChild
<1>3. StorageHead' = StorageHead /\ StorageHead \in 0..MaxMerges /\ StorageHead = head + 1
      /\ head \in Nat /\ MaxMerges \in Nat
  BY LimitAssumption DEF StorageHead, HeadSoFar, TypeOK
<1>4. HeadSoFar'
  <2>1. \A g \in 0..MaxMerges : Own(g) \in stored <=> g <= StorageHead
    BY DEF HeadSoFar
  <2>2. \A g \in 1..StorageHead : tree[Own(g)] = Own(g - 1)
    BY DEF HeadSoFar
  <2> HIDE DEF InductiveInvariant
  <2> QED BY <1>1, <1>3, <2>1, <2>2 DEF HeadSoFar
<1>5. NumbersSoFar'
  BY <1>2, NumbersKeep DEF NumbersSoFar
<1>6. ReferencesSoFar'
  BY <1>2, ReferencesKeep DEF ReferencesSoFar
<1>7. QueueSoFar'
  BY <1>2 DEF QueueSoFar
<1>8. /\ m \in stored \cap LocalMerge /\ tree[m] \in LocalMerge /\ m \notin SetOf(queue)
      /\ m \notin Taken /\ Taken' = Taken \cup {m}
  <2>1. m \in stored \cap LocalMerge
    BY <1>3, OwnEvents DEF HeadSoFar
  <2>2. tree[m] \in LocalMerge
    <3>1. StorageHead \in 1..StorageHead /\ StorageHead - 1 \in 0..MaxMerges
      BY <1>3
    <3> QED BY <3>1, OwnEvents DEF HeadSoFar
  <2>3. m \notin SetOf(queue)
    BY <2>1, KnownEvents, Kinds
  <2>4. \A g \in (head + 1)..MaxMerges : g = StorageHead \/ g \in (StorageHead + 1)..MaxMerges
    BY <1>3
  <2>5. \A g \in (StorageHead + 1)..MaxMerges : g \in (head + 1)..MaxMerges /\ Own(g) # m
    BY <1>3, OwnEvents
  <2>6. StorageHead \in (head + 1)..MaxMerges
    BY <1>3
  <2> HIDE DEF InductiveInvariant
  <2>7. {Own(g) : g \in (head + 1)..MaxMerges} = {Own(g) : g \in (StorageHead + 1)..MaxMerges} \cup {m}
        /\ m \notin {Own(g) : g \in (StorageHead + 1)..MaxMerges}
    BY <2>4, <2>5, <2>6
  <2>8. Taken' = stored \ (SetOf(queue) \cup {Own(g) : g \in (StorageHead + 1)..MaxMerges})
    BY <1>1 DEF Taken
  <2> QED BY <2>1, <2>2, <2>3, <2>7, <2>8 DEF Taken
<1>9. CacheSoFar'
  <2>1. Creating' = {} /\ Creating = {} /\ Changing' = Changing /\ Hidden' = Hidden
    BY DEF Creating, Changing, Hidden
  <2>2. childless' = {e \in stored' \ Hidden' : \A c \in Taken' : e \notin Merges(c)'}
    <3>1. ASSUME NEW e \in stored \ Hidden
          PROVE  e \in Merges(m) <=> e \in parents[m]
      BY <1>8 DEF Hidden, Merges
    <3>2. childless = {e \in stored \ Hidden : \A c \in Taken : e \notin Merges(c)}
      BY DEF CacheSoFar
    <3>3. stored' \ Hidden' = stored \ Hidden
      BY <2>1
    <3>4. {e \in stored' \ Hidden' : \A c \in Taken' : e \notin Merges(c)'}
            = {e \in stored \ Hidden : \A c \in Taken \cup {m} : e \notin Merges(c)}
      BY <1>2, <1>8, <3>3
    <3> HIDE DEF InductiveInvariant
    <3> QED BY <1>1, <3>1, <3>2, <3>4
  <2>3. localChildless' = childless' \cap (Regular \cup Config)
    BY <1>1 DEF CacheSoFar
  <2>4. outstanding' = (OutstandingInStorage' \ torn') \cap Taken'
    <3>1. m \in OutstandingInStorage \ torn
      BY <1>8 DEF OutstandingInStorage, InStorage, CacheSoFar, QueueSoFar
    <3>2. OutstandingInStorage' = OutstandingInStorage
      BY DEF OutstandingInStorage, InStorage
    <3>3. outstanding = (OutstandingInStorage \ torn) \cap Taken
      BY DEF CacheSoFar
    <3> HIDE DEF InductiveInvariant
    <3> QED BY <1>1, <1>8, <3>1, <3>2, <3>3
  <2>5. \A e \in Creating' \cup Changing' : e \in stored' \ torn' /\ ~HasChild(e)'
    BY <1>2, <2>1 DEF CacheSoFar
  <2>6. consensus' \subseteq Taken'
    BY <1>8 DEF CacheSoFar
  <2> QED BY <2>2, <2>3, <2>4, <2>5, <2>6 DEF CacheSoFar
<1>10. RequestsSoFar'
  BY DEF RequestsSoFar
<1>11. SiblingsSoFar'
  <2>1. localChildless' \cap Regular = {} /\ Creating' = {}
    BY <1>1 DEF SiblingsSoFar, Creating
  <2>2. ~(StorageHead' = head' + 1)
    BY <1>1, <1>3
  <2> QED BY <2>1, <2>2 DEF SiblingsSoFar
<1>12. RegularsAreSiblings' /\ StatusSoFar'
  BY <1>2, RegularsKeep DEF StatusSoFar
<1> QED BY <1>4, <1>5, <1>6, <1>7, <1>9, <1>10, <1>11, <1>12

LEMMA CacheUpdatesKeep ==
  ASSUME InductiveInvariant, TypeOK', ValidateCache \/ AddLocalMergeEvent
  PROVE  InductiveInvariant'
<1> USE DEF InductiveInvariant, storageVars, mergeVars, writerVars, loopVars, historyVars
<1>1. CASE ValidateCache /\ head = StorageHead
  <2>1. UNCHANGED <<storageVars, mergeVars, queue, chunks, request, torn>> /\ pc' = "valid"
    <3>1. head \in Nat /\ ~(head = head + 1)
      BY DEF TypeOK
    <3> QED BY <1>1, <3>1 DEF ValidateCache
  <2>2. pc = "idle" /\ Creating' = {} /\ Creating = {}
    BY <1>1, <2>1 DEF Creating, ValidateCache
  <2>3. QueueSoFar'
    BY <2>1, <2>2, QueueKeeps DEF KeepsReferences
  <2>4. StatusSoFar' /\ chunks' + Cardinality(stored \cap Regular) <= MaxRegular
    BY <2>1 DEF StatusSoFar, NumbersSoFar
  <2> QED BY <1>1, <2>1, <2>2, <2>3, <2>4, SessionKeeps
<1>2. CASE ValidateCache /\ head # StorageHead
  BY <1>2, CacheMergeKeeps DEF ValidateCache
<1>3. CASE AddLocalMergeEvent
  BY <1>3, CacheMergeKeeps DEF AddLocalMergeEvent, HeadSoFar, Idle
<1> QED BY <1>1, <1>2, <1>3

LEMMA CreateRegularKeeps ==
  ASSUME InductiveInvariant, TypeOK', CreateRegular
  PROVE  InductiveInvariant'
<1> USE DEF InductiveInvariant, mergeVars, writerVars, loopVars, historyVars
<1> PICK k : k = Cardinality(stored \cap Regular)
  OBVIOUS
<1> PICK r : r = <<"r", 1 + k>>
  OBVIOUS
<1>1. /\ pc = "create" /\ room > 0 /\ chunks > 0 /\ pc' \in {"created", "lastCreated"}
      /\ stored' = stored \cup {r} /\ tree' = [tree EXCEPT ![r] = Own(head)]
      /\ chunks' = chunks - 1
      /\ UNCHANGED <<parents, consensus, mergeVars, queue, writerVars, loopVars, request,
                     historyVars>>
  BY DEF CreateRegular
<1>2. k \in Nat /\ r \in Regular /\ r \notin stored
  BY <1>1, NextRegular
<1>3. r \notin Known /\ r \in Event /\ r \notin LocalMerge \cup Config \cup PeerMerge
  BY <1>2, KnownEvents, Kinds
<1>4. /\ tree'[r] = Own(head) /\ parents'[r] = {} /\ parents' = parents
      /\ \A e \in Event \ {r} : tree'[e] = tree[e]
  BY <1>1, <1>2, <1>3 DEF TypeOK, ReferencesSoFar
<1>5. Known' = Known \cup {r} /\ KeepsReferences
  BY <1>1, <1>3, <1>4, KnownEvents DEF Known, KeepsReferences
<1>6. Cardinality(stored' \cap Regular) = k + 1
  <2>1. stored' \cap Regular = (stored \cap Regular) \cup {r}
    BY <1>1, <1>2
  <2>2. IsFiniteSet(stored \cap Regular) /\ r \notin stored \cap Regular
    BY <1>2, Kinds, Sizes
  <2>3. Cardinality((stored \cap Regular) \cup {r}) = Cardinality(stored \cap Regular) + 1
    BY <2>2, FS_AddElement
  <2> HIDE DEF InductiveInvariant
  <2> QED BY <2>1, <2>3
<1>7. StorageHead = head /\ Own(head) \in stored \cap LocalMerge
  BY <1>1, OwnEvents DEF HeadSoFar, TypeOK
<1>8. HeadSoFar' /\ StorageHead' = StorageHead
  <2>1. stored' \cap LocalMerge = stored \cap LocalMerge
    BY <1>1, <1>3
  <2> QED BY <1>1, <1>5, <1>7, <2>1, HeadKeeps
<1>9. NumbersSoFar'
  <2>1. chunks + k <= MaxRegular /\ chunks \in Nat /\ MaxRegular \in Nat
    BY LimitAssumption DEF NumbersSoFar, TypeOK
  <2>2. chunks' + (k + 1) <= MaxRegular
    BY <1>1, <1>2, <2>1
  <2>3. \A n \in 1..MaxRegular : <<"r", n>> \in stored <=> n <= k
    BY DEF NumbersSoFar
  <2>4. ASSUME NEW n \in 1..MaxRegular
        PROVE  <<"r", n>> \in stored' <=> n <= k + 1
    <3>1. <<"r", n>> = r <=> n = k + 1
      BY <1>2
    <3>2. n <= k + 1 <=> n <= k \/ n = k + 1
      BY <1>2, <2>1
    <3> QED BY <1>1, <2>3, <3>1, <3>2
  <2>5. Known' \cap PeerMerge = Known \cap PeerMerge
    BY <1>3, <1>5
  <2> QED BY <1>6, <2>2, <2>4, <2>5, PeerNumbersKeep DEF NumbersSoFar
<1>10. Merges(r)' = {Own(head)}
  BY <1>4 DEF Merges
<1>11. ReferencesSoFar'
  <2>1. Known' \ Known = {r} /\ Merges(r)' \subseteq Known'
    BY <1>3, <1>5, <1>7, <1>10, KnownEvents
  <2>2. \A e \in Regular \cup Config : parents'[e] = {} /\ tree'[e] \in LocalMerge
    BY <1>4, <1>7, Kinds DEF ReferencesSoFar
  <2>3. ASSUME NEW q \in Peer, NEW n \in 2..MaxPeerEvents
        PROVE  r # <<q, n>>
    BY PeerAssumption
  <2> QED BY <1>1, <1>3, <1>5, <2>1, <2>2, <2>3, ReferencesKeep
<1>12. QueueSoFar'
  <2>1. Own(head) \notin SetOf(queue)
    BY <1>7, KnownEvents, Kinds
  <2> QED BY <1>1, <1>3, <1>5, <1>10, <2>1, QueueKeeps
<1>13. CacheSoFar'
  <2>1. Creating = {} /\ Creating' = {r} /\ Changing' = Changing
    <3>1. Creating' = {<<"r", k + 1>>}
      BY <1>1, <1>6 DEF Creating
    <3>2. <<"r", k + 1>> = r
      BY <1>2
    <3> QED BY <1>1, <3>1, <3>2 DEF Creating, Changing
  <2>2. Hidden' = Hidden \cup {r} /\ stored' \ Hidden' = stored \ Hidden
    <3>1. Hidden' = Hidden \cup {r}
      BY <1>1, <2>1 DEF Hidden
    <3> QED BY <1>1, <1>2, <3>1
  <2>3. Taken' = Taken \cup {r}
    <3>1. \A g \in (head + 1)..MaxMerges : Own(g) # r
      BY DEF Own
    <3> QED BY <1>1, <1>2, <1>3, <3>1, KnownEvents DEF Taken
  <2>4. r \in stored' \ torn' /\ ~HasChild(r)'
    <3>1. r \notin torn
      BY <1>2 DEF QueueSoFar
    <3>2. \A c \in stored : Merges(c)' = Merges(c) /\ r \notin Merges(c)
      BY <1>3, <1>5, KnownEvents DEF KeepsReferences, Merges, ReferencesSoFar
    <3> QED BY <1>1, <1>3, <1>7, <1>10, <3>1, <3>2 DEF HasChild
  <2>5. ASSUME NEW c \in Changing
        PROVE  c \in stored' \ torn' /\ ~HasChild(c)'
    <3>1. c \in Config /\ c \in stored \ torn /\ ~HasChild(c)
      BY DEF Changing, CacheSoFar
    <3>2. c \notin Merges(r)'
      BY <1>7, <1>10, <3>1, Kinds
    <3> QED BY <1>1, <1>5, <3>1, <3>2, NoNewChild
  <2>6. LocalMerge \subseteq Hidden /\ torn' = torn
    BY <1>1 DEF Hidden
  <2> QED BY <1>1, <1>3, <1>5, <1>7, <1>10, <2>1, <2>2, <2>3, <2>4, <2>5, <2>6, CacheKeeps
<1>14. RequestsSoFar'
  <2>1. \A c \in Config : c # r /\ c \in Event
    BY <1>3, Kinds
  <2>2. \A c \in Config : tree'[c] = tree[c] /\ (c \in stored' <=> c \in stored)
    BY <1>1, <1>4, <2>1
  <2>3. request' = request /\ stored \subseteq stored' /\ RequestsSoFar
    BY <1>1
  <2> HIDE DEF InductiveInvariant
  <2> QED BY <2>2, <2>3 DEF RequestsSoFar
<1>15. SiblingsSoFar'
  <2>1. Creating' \subseteq {r}
    <3>1. Creating' \subseteq {<<"r", k + 1>>}
      BY <1>6 DEF Creating
    <3>2. <<"r", k + 1>> = r
      BY <1>2
    <3> QED BY <3>1, <3>2
  <2>2. \A e \in localChildless \cap Regular : e \in stored /\ tree[e] = Own(head)
    BY DEF SiblingsSoFar, CacheSoFar
  <2>3. \A e \in localChildless \cap Regular : tree'[e] = Own(head)
    BY <1>2, <1>4, <2>2, Kinds
  <2>4. ~(StorageHead' = head' + 1)
    BY <1>1, <1>7, <1>8 DEF TypeOK
  <2> QED BY <1>1, <1>4, <2>1, <2>3, <2>4 DEF SiblingsSoFar
<1>16. RegularsAreSiblings' /\ StatusSoFar'
  <2>1. stored' \cap LocalMerge = stored \cap LocalMerge
    BY <1>1, <1>3
  <2> QED BY <1>1, <1>5, <2>1, RegularsKeep DEF StatusSoFar
<1> QED BY <1>8, <1>9, <1>11, <1>12, <1>13, <1>14, <1>15, <1>16

LEMMA CacheRegularKeeps ==
  ASSUME InductiveInvariant, TypeOK', CacheRegular
  PROVE  InductiveInvariant'
<1> USE DEF InductiveInvariant, storageVars, writerVars, historyVars
<1> PICK r : r = <<"r", Cardinality(stored \cap Regular)>>
  OBVIOUS
<1>1. /\ pc \in {"created", "lastCreated"} /\ pc' \in {"create", "merge"}
      /\ childless' = childless \cup {r} /\ localChildless' = localChildless \cup {r}
      /\ status' = [status EXCEPT !.local = @ \cup {r}]
      /\ UNCHANGED <<storageVars, outstanding, head, queue, chunks, writerVars, unprivileged,
                     request, historyVars>>
  BY DEF CacheRegular
<1>2. Creating = {r} /\ Creating' = {} /\ Changing' = Changing
  BY <1>1 DEF Creating, Changing
<1>3. r \in Regular /\ r \in stored \ torn /\ ~HasChild(r) /\ tree[r] = Own(head)
  BY <1>2, CreatingIsRegular DEF CacheSoFar, SiblingsSoFar
<1>4. /\ Known' = Known /\ KeepsReferences /\ \A e : Merges(e)' = Merges(e)
      /\ \A e : HasChild(e)' <=> HasChild(e)
  BY <1>1 DEF Known, KeepsReferences, Merges, HasChild
<1>5. HeadSoFar' /\ StorageHead' = StorageHead /\ StorageHead = head
  <2>1. StorageHead = head
    BY <1>1 DEF HeadSoFar
  <2> QED BY <1>1, <1>4, <2>1, HeadKeeps
<1>6. NumbersSoFar'
  BY <1>1, <1>4, NumbersKeep DEF NumbersSoFar
<1>7. ReferencesSoFar'
  BY <1>1, <1>4, ReferencesKeep DEF ReferencesSoFar
<1>8. QueueSoFar'
  BY <1>1, <1>4, QueueKeeps
<1>9. CacheSoFar'
  <2>1. stored' \ Hidden' = (stored \ Hidden) \cup {r}
    <3>1. Hidden = Hidden' \cup {r}
      BY <1>1, <1>2 DEF Hidden
    <3>2. r \notin Hidden'
      BY <1>1, <1>2, <1>3, KnownEvents, Kinds DEF Hidden, Changing
    <3> HIDE DEF InductiveInvariant
    <3> QED BY <1>1, <1>3, <3>1, <3>2
  <2>2. Taken' = Taken /\ \A c \in Taken : r \notin Merges(c)
    BY <1>1, <1>3 DEF Taken, HasChild
  <2>3. childless = {e \in stored \ Hidden : \A c \in Taken : e \notin Merges(c)}
    BY DEF CacheSoFar
  <2>4. childless' = {e \in stored' \ Hidden' : \A c \in Taken' : e \notin Merges(c)'}
    <3> HIDE DEF InductiveInvariant
    <3> QED BY <1>1, <1>4, <2>1, <2>2, <2>3
  <2>5. localChildless' = childless' \cap (Regular \cup Config)
    BY <1>1, <1>3 DEF CacheSoFar
  <2>6. outstanding' = (OutstandingInStorage' \ torn') \cap Taken'
    BY <1>1, <2>2 DEF CacheSoFar, OutstandingInStorage, InStorage
  <2> QED BY <1>1, <1>2, <1>4, <2>2, <2>4, <2>5, <2>6 DEF CacheSoFar
<1>10. RequestsSoFar'
  BY <1>1 DEF RequestsSoFar
<1>11. SiblingsSoFar'
  <2>1. ~(StorageHead' = head' + 1)
    BY <1>1, <1>5 DEF TypeOK
  <2> QED BY <1>1, <1>2, <1>3, <2>1 DEF SiblingsSoFar
<1>12. StatusSoFar'
  <2>1. status'.peer = status.peer /\ status'.local = status.local \cup {r}
    BY <1>1 DEF TypeOK
  <2> QED BY <1>1, <2>1 DEF StatusSoFar
<1>13. RegularsAreSiblings'
  BY <1>1, <1>4, RegularsKeep
<1> QED BY <1>5, <1>6, <1>7, <1>8, <1>9, <1>10, <1>11, <1>12, <1>13

\* A merge event gets into storage, on the head that storage and cache have in
\* common, and takes the local events that the cache had.
LEMMA StoreMergeKeeps ==
  ASSUME InductiveInvariant, TypeOK', StoreMerge, ~Idle
  PROVE  InductiveInvariant'
<1> USE DEF InductiveInvariant, mergeVars, writerVars, loopVars, historyVars
<1> PICK m : m = Own(head + 1)
  OBVIOUS
<1>1. /\ pc = "merge" /\ pc' = "merged" /\ head < MaxMerges /\ m \notin stored
      /\ stored' = stored \cup {m} /\ tree' = [tree EXCEPT ![m] = Own(head)]
      /\ UNCHANGED <<consensus, mergeVars, queue, chunks, writerVars, loopVars, request,
                     historyVars>>
  BY DEF StoreMerge
<1>2. PICK peers \in SUBSET status.peer :
        parents' = [parents EXCEPT ![m] = status.local \cup peers]
  BY DEF StoreMerge, PeerParents
<1>3. /\ head \in Nat /\ MaxMerges \in Nat /\ head + 1 \in 1..MaxMerges
      /\ head \in 0..MaxMerges /\ head + 1 \in 0..MaxMerges
  BY <1>1, LimitAssumption DEF TypeOK
<1>4. /\ m \in LocalMerge /\ m \in Event /\ m \notin Regular \cup Config \cup PeerMerge
      /\ m \notin Known
  <2>1. m \in LocalMerge
    BY <1>3, OwnEvents
  <2> QED BY <1>1, <2>1, Kinds, KnownEvents
<1>5. StorageHead = head /\ Own(head) \in stored \cap LocalMerge
  BY <1>1, <1>3, OwnEvents DEF HeadSoFar
<1>6. /\ tree'[m] = Own(head) /\ parents'[m] = status.local \cup peers
      /\ \A e \in Event \ {m} : tree'[e] = tree[e] /\ parents'[e] = parents[e]
  BY <1>1, <1>2, <1>4 DEF TypeOK
<1>7. Known' = Known \cup {m} /\ KeepsReferences
  BY <1>1, <1>4, <1>6, KnownEvents DEF Known, KeepsReferences
<1>8. parents'[m] \subseteq childless /\ childless \subseteq stored \ Hidden
  BY <1>1, <1>6 DEF StatusSoFar, CacheSoFar
<1>9. Merges(m)' = parents'[m] \cup {Own(head)} /\ Merges(m)' \subseteq stored
  BY <1>5, <1>6, <1>8 DEF Merges
<1>10. StorageHead' = head + 1 /\ HeadSoFar'
  <2>1. \A g \in 0..MaxMerges : Own(g) = m <=> g = head + 1
    BY OwnEvents
  <2>2. \A g \in 0..MaxMerges : Own(g) \in stored <=> g <= head
    BY <1>5 DEF HeadSoFar
  <2>3. \A g \in 0..MaxMerges : Own(g) \in stored' <=> g <= head + 1
    <3>1. \A g \in 0..MaxMerges : g <= head + 1 <=> g <= head \/ g = head + 1
      BY <1>3
    <3> QED BY <1>1, <2>1, <2>2, <3>1
  <2>4. StorageHead' = head + 1
    BY <1>3, <2>3, GreatestGeneration DEF StorageHead
  <2>5. \A g \in 1..(head + 1) : tree'[Own(g)] = Own(g - 1)
    <3>1. tree'[Own(head + 1)] = Own(head)
      BY <1>6
    <3>2. ASSUME NEW g \in 1..head
          PROVE  tree'[Own(g)] = Own(g - 1)
      <4>1. g \in 0..MaxMerges /\ g # head + 1 /\ g <= head
        BY <1>3
      <4>2. Own(g) \in Event \ {m}
        BY <2>1, <4>1, OwnEvents, Kinds
      <4> QED BY <1>5, <1>6, <4>2 DEF HeadSoFar
    <3>3. \A g \in 1..(head + 1) : g \in 1..head \/ g = head + 1
      BY <1>3
    <3> SUFFICES ASSUME NEW g \in 1..(head + 1)
                 PROVE  tree'[Own(g)] = Own(g - 1)
      OBVIOUS
    <3>4. CASE g = head + 1
      <4>1. g - 1 = head
        BY <1>3, <3>4
      <4>2. tree'[Own(g)] = Own(head)
        BY <3>1, <3>4
      <4> QED BY <4>1, <4>2
    <3> QED BY <3>2, <3>3, <3>4, Zenon
  <2>6. head' = head /\ pc' = "merged"
    BY <1>1
  <2> HIDE DEF InductiveInvariant
  <2> QED BY <1>3, <2>3, <2>4, <2>5, <2>6 DEF HeadSoFar
<1>11. NumbersSoFar'
  <2>1. stored' \cap Regular = stored \cap Regular /\ Known' \cap PeerMerge = Known \cap PeerMerge
    BY <1>1, <1>4, <1>7
  <2> QED BY <1>1, <2>1, NumbersKeep DEF NumbersSoFar
<1>12. ReferencesSoFar'
  <2>1. Known' \ Known = {m} /\ Merges(m)' \subseteq Known'
    BY <1>4, <1>7, <1>9, KnownEvents
  <2>2. \A e \in Regular \cup Config : parents'[e] = {} /\ tree'[e] \in LocalMerge
    BY <1>4, <1>6, Kinds DEF ReferencesSoFar
  <2>3. ASSUME NEW q \in Peer, NEW n \in 2..MaxPeerEvents
        PROVE  m # <<q, n>>
    BY PeerAssumption DEF Own
  <2>4. parents'[m] \cap LocalMerge = {}
    BY <1>8 DEF Hidden
  <2> QED BY <1>1, <1>4, <1>7, <2>1, <2>2, <2>3, <2>4, ReferencesKeep
<1>13. QueueSoFar'
  <2>1. Merges(m)' \cap SetOf(queue) = {}
    <3>1. Own(head) \notin SetOf(queue)
      BY <1>5, KnownEvents, Kinds
    <3> QED BY <1>8, <1>9, <3>1 DEF Hidden
  <2> QED BY <1>1, <1>4, <1>7, <2>1, QueueKeeps
<1>14. CacheSoFar'
  <2>1. Creating = {} /\ Creating' = {} /\ Changing' = Changing /\ Hidden' = Hidden
    BY <1>1 DEF Creating, Changing, Hidden
  <2>2. stored' \ Hidden' = stored \ Hidden /\ LocalMerge \subseteq Hidden
    BY <1>1, <1>4, <2>1 DEF Hidden
  <2>3. Taken' = Taken
    <3>1. head + 1 \in (head + 1)..MaxMerges
      BY <1>3
    <3>2. m \in {Own(g) : g \in (head + 1)..MaxMerges}
      BY <3>1
    <3> HIDE DEF InductiveInvariant
    <3> QED BY <1>1, <3>2 DEF Taken
  <2>4. ASSUME NEW c \in Changing
        PROVE  c \in stored' \ torn' /\ ~HasChild(c)'
    <3>1. c \in Config /\ c \in stored \ torn /\ ~HasChild(c)
      BY DEF Changing, CacheSoFar
    <3>2. c \notin Merges(m)'
      BY <1>5, <1>8, <1>9, <3>1, Kinds DEF Hidden
    <3> QED BY <1>1, <1>7, <3>1, <3>2, NoNewChild
  <2> QED BY <1>1, <1>7, <2>1, <2>2, <2>3, <2>4, CacheKeeps
<1>15. RequestsSoFar'
  <2>1. \A c \in Config : c # m /\ c \in Event
    BY <1>4, Kinds
  <2>2. \A c \in Config : tree'[c] = tree[c] /\ (c \in stored' <=> c \in stored)
    BY <1>1, <1>6, <2>1
  <2> QED BY <1>1, <2>2 DEF RequestsSoFar
<1>16. SiblingsSoFar'
  <2>1. localChildless' \cap Regular \subseteq parents'[m]
    BY <1>1, <1>6 DEF StatusSoFar
  <2>2. \A e \in localChildless \cap Regular : e \in Event \ {m} /\ tree[e] = Own(head)
    BY <1>4, Kinds DEF SiblingsSoFar
  <2>3. Creating' = {} /\ head' = head /\ localChildless' = localChildless
    BY <1>1 DEF Creating
  <2>4. Own(StorageHead') = m
    BY <1>10
  <2> QED BY <1>6, <2>1, <2>2, <2>3, <2>4 DEF SiblingsSoFar
<1>17. RegularsAreSiblings'
  <2>1. ASSUME NEW e \in parents'[m] \cap Regular
        PROVE  tree'[e] = tree'[m]
    <3>1. e \in localChildless
      BY <1>8, <2>1 DEF CacheSoFar
    <3>2. tree[e] = Own(head) /\ e # m /\ e \in Event
      BY <1>4, <3>1, Kinds DEF SiblingsSoFar
    <3> QED BY <1>6, <3>2
  <2>2. ASSUME NEW n \in stored \cap LocalMerge, NEW e \in parents'[n] \cap Regular
        PROVE  tree'[e] = tree'[n]
    <3>1. n \in Event \ {m} /\ e \in Event \ {m}
      BY <1>1, <1>4, Kinds
    <3> QED BY <1>6, <3>1 DEF RegularsAreSiblings
  <2> QED BY <1>1, <2>1, <2>2 DEF RegularsAreSiblings
<1>18. StatusSoFar'
  BY <1>1 DEF StatusSoFar
<1> QED BY <1>10, <1>11, <1>12, <1>13, <1>14, <1>15, <1>16, <1>17, <1>18

-----------------------------------------------------------------------------
(* Requests *)

LEMMA ReadHeadKeeps ==
  ASSUME InductiveInvariant, TypeOK', NEW c \in Config, ReadHead(c)
  PROVE  InductiveInvariant'
<1> USE DEF InductiveInvariant, mergeVars, writerVars, loopVars, historyVars
<1>1. /\ request[c] = "new" /\ request' = [request EXCEPT ![c] = "read"]
      /\ tree' = [tree EXCEPT ![c] = Own(head)]
      /\ UNCHANGED <<stored, parents, consensus, mergeVars, queue, chunks, pc, writerVars,
                     loopVars, historyVars>>
  BY DEF ReadHead
<1>2. c \notin Known /\ c \in Event /\ c \notin Regular
  BY <1>1, KnownEvents, Kinds DEF RequestsSoFar
<1>3. /\ tree'[c] = Own(head) /\ \A e \in Event \ {c} : tree'[e] = tree[e]
      /\ parents' = parents
  BY <1>1, <1>2 DEF TypeOK
<1>4. Known' = Known /\ KeepsReferences
  <2>1. Known' = Known
    BY <1>1 DEF Known
  <2>2. \A e \in Known : e \in Event \ {c}
    BY <1>2, KnownEvents
  <2> QED BY <1>3, <2>1, <2>2 DEF KeepsReferences
<1>5. Own(head) \in stored \cap LocalMerge
  <2>1. head \in 0..MaxMerges
    BY DEF TypeOK
  <2>2. /\ StorageHead \in 0..MaxMerges /\ StorageHead \in {head, head + 1}
        /\ \A g \in 0..MaxMerges : Own(g) \in stored <=> g <= StorageHead
    BY DEF HeadSoFar
  <2>3. head <= StorageHead
    BY <2>1, <2>2, LimitAssumption
  <2>4. Own(head) \in stored
    BY <2>1, <2>2, <2>3, Zenon
  <2> QED BY <2>1, <2>4, OwnEvents, Zenon
<1>6. HeadSoFar' /\ StorageHead' = StorageHead
  BY <1>1, <1>4, HeadKeeps DEF HeadSoFar
<1>7. NumbersSoFar'
  BY <1>1, <1>4, NumbersKeep DEF NumbersSoFar
<1>8. ReferencesSoFar'
  <2>1. \A e \in Regular \cup Config : parents'[e] = {} /\ tree'[e] \in LocalMerge
    BY <1>3, <1>5, Kinds DEF ReferencesSoFar
  <2> QED BY <1>1, <1>4, <2>1, ReferencesKeep
<1>9. QueueSoFar'
  BY <1>1, <1>4, QueueKeeps
<1>10. Creating' = Creating /\ Changing' = Changing
  <2>1. \A d \in Config : request'[d] = "stored" <=> request[d] = "stored"
    BY <1>1 DEF TypeOK
  <2> QED BY <1>1, <2>1 DEF Creating, Changing
<1>11. CacheSoFar'
  <2>1. Hidden' = Hidden /\ Taken' = Taken /\ LocalMerge \subseteq Hidden
    BY <1>1, <1>10 DEF Hidden, Taken
  <2>2. \A e \in Creating' \cup Changing' : e \in stored' \ torn' /\ ~HasChild(e)'
    BY <1>1, <1>4, <1>10, NoNewChild DEF CacheSoFar
  <2> QED BY <1>1, <1>4, <2>1, <2>2, CacheKeeps
<1>12. RequestsSoFar'
  <2>1. ASSUME NEW d \in Config \ {c}
        PROVE  request'[d] = request[d] /\ tree'[d] = tree[d]
    BY <1>1, <1>3, Kinds DEF TypeOK
  <2>2. request'[c] = "read" /\ c \notin stored
    BY <1>1, <1>2, KnownEvents DEF TypeOK
  <2>3. stored' = stored /\ RequestsSoFar
    BY <1>1
  <2> HIDE DEF InductiveInvariant
  <2> QED BY <1>3, <1>5, <2>1, <2>2, <2>3 DEF RequestsSoFar
<1>13. SiblingsSoFar'
  BY <1>1, <1>4, <1>6, <1>10, SiblingsKeep
<1>14. RegularsAreSiblings' /\ StatusSoFar'
  BY <1>1, <1>4, RegularsKeep DEF StatusSoFar
<1> QED BY <1>6, <1>7, <1>8, <1>9, <1>11, <1>12, <1>13, <1>14

LEMMA StoreConfigKeeps ==
  ASSUME InductiveInvariant, TypeOK', NEW c \in Config, StoreConfig(c)
  PROVE  InductiveInvariant'
<1> USE DEF InductiveInvariant, mergeVars, writerVars, loopVars, historyVars
<1>1. /\ request[c] = "read" /\ request' = [request EXCEPT ![c] = "stored"]
      /\ stored' = stored \cup {c}
      /\ UNCHANGED <<tree, parents, consensus, mergeVars, queue, chunks, pc, writerVars,
                     loopVars, historyVars>>
  BY DEF StoreConfig
<1>2. /\ c \notin stored /\ c \notin Known /\ c \in Event
      /\ c \notin LocalMerge \cup Regular \cup PeerMerge
  BY <1>1, KnownEvents, Kinds DEF RequestsSoFar
<1>3. /\ Known' = Known \cup {c} /\ KeepsReferences /\ \A e : Merges(e)' = Merges(e)
  BY <1>1 DEF Known, KeepsReferences, Merges
<1>4. Merges(c) = {tree[c]} /\ tree[c] \in LocalMerge \cap stored
  BY DEF Merges, ReferencesSoFar, RequestsSoFar
<1>5. /\ stored' \cap LocalMerge = stored \cap LocalMerge
      /\ stored' \cap Regular = stored \cap Regular
      /\ Known' \cap PeerMerge = Known \cap PeerMerge
  BY <1>1, <1>2, <1>3
<1>6. HeadSoFar' /\ StorageHead' = StorageHead
  BY <1>1, <1>3, <1>5, HeadKeeps DEF HeadSoFar
<1>7. NumbersSoFar'
  BY <1>1, <1>5, NumbersKeep DEF NumbersSoFar
<1>8. ReferencesSoFar'
  <2>1. Known' \ Known = {c} /\ Merges(c)' \subseteq Known'
    BY <1>2, <1>3, <1>4, KnownEvents
  <2>2. \A e \in Regular \cup Config : parents'[e] = {} /\ tree'[e] \in LocalMerge
    BY <1>1 DEF ReferencesSoFar
  <2>3. ASSUME NEW q \in Peer, NEW n \in 2..MaxPeerEvents
        PROVE  c # <<q, n>>
    BY PeerAssumption DEF Config
  <2> QED BY <1>1, <1>2, <1>3, <2>1, <2>2, <2>3, ReferencesKeep
<1>9. QueueSoFar'
  <2>1. tree[c] \notin SetOf(queue)
    BY <1>4, KnownEvents, Kinds
  <2> QED BY <1>1, <1>2, <1>3, <1>4, <2>1, QueueKeeps
<1>10. Creating' = Creating /\ Changing' = Changing \cup {c}
  <2>1. \A d \in Config : request'[d] = "stored" <=> request[d] = "stored" \/ d = c
    BY <1>1 DEF TypeOK
  <2> QED BY <1>1, <1>5, <2>1 DEF Creating, Changing
<1>11. CacheSoFar'
  <2>1. Hidden' = Hidden \cup {c} /\ LocalMerge \subseteq Hidden
    BY <1>1, <1>10 DEF Hidden
  <2>2. stored' \ Hidden' = stored \ Hidden
    BY <1>1, <1>2, <2>1
  <2>3. Taken' = Taken \cup {c}
    <3>1. \A g \in (head + 1)..MaxMerges : Own(g) # c
      BY DEF Own, Config
    <3> QED BY <1>1, <1>2, <3>1, KnownEvents DEF Taken
  <2>4. c \in stored' \ torn' /\ ~HasChild(c)'
    <3>1. c \notin torn
      BY <1>2 DEF QueueSoFar
    <3>2. \A e \in stored : c \notin Merges(e)
      BY <1>2, KnownEvents DEF ReferencesSoFar
    <3> QED BY <1>1, <1>2, <1>3, <1>4, <3>1, <3>2 DEF HasChild
  <2>5. ASSUME NEW e \in Creating \cup Changing
        PROVE  e \in stored' \ torn' /\ ~HasChild(e)'
    <3>1. e \in stored \ torn /\ ~HasChild(e)
      BY DEF CacheSoFar
    <3>2. e \notin LocalMerge
      BY CreatingIsRegular, Kinds DEF Changing
    <3>3. e \notin Merges(c)'
      BY <1>3, <1>4, <3>2
    <3> QED BY <1>1, <1>3, <3>1, <3>3, NoNewChild
  <2> QED BY <1>1, <1>2, <1>3, <1>4, <1>10, <2>1, <2>2, <2>3, <2>4, <2>5, CacheKeeps
<1>12. RequestsSoFar'
  <2>1. ASSUME NEW d \in Config
        PROVE  /\ d # c => request'[d] = request[d]
               /\ d = c => request'[d] = "stored"
    BY <1>1 DEF TypeOK
  <2>2. tree' = tree /\ RequestsSoFar
    BY <1>1
  <2> HIDE DEF InductiveInvariant
  <2> QED BY <1>1, <2>1, <2>2 DEF RequestsSoFar
<1>13. SiblingsSoFar'
  BY <1>1, <1>3, <1>6, <1>10, SiblingsKeep
<1>14. RegularsAreSiblings' /\ StatusSoFar'
  BY <1>1, <1>3, <1>5, RegularsKeep DEF StatusSoFar
<1> QED BY <1>6, <1>7, <1>8, <1>9, <1>11, <1>12, <1>13, <1>14

\* A request comes to its end, with the event in the cache or, when it was
\* cut off, without.
LEMMA RequestEnds ==
  ASSUME InductiveInvariant, NEW c \in Config, request[c] = "stored",
         request' = [request EXCEPT ![c] = "done"],
         UNCHANGED <<storageVars, head, queue, chunks, pc, writerVars, loopVars>>
  PROVE  /\ c \in stored \ torn /\ ~HasChild(c) /\ c \in Event
         /\ c \notin LocalMerge \cup Regular \cup PeerMerge \cup SetOf(queue) \cup Creating
         /\ Known' = Known /\ KeepsReferences /\ \A e : Merges(e)' = Merges(e)
         /\ \A e : HasChild(e)' <=> HasChild(e)
         /\ Creating' = Creating /\ Changing' = Changing \ {c} /\ c \in Changing
         /\ Taken' = Taken
         /\ HeadSoFar' /\ StorageHead' = StorageHead /\ NumbersSoFar' /\ RequestsSoFar'
<1> USE DEF InductiveInvariant, storageVars, writerVars
<1>1. /\ Known' = Known /\ KeepsReferences /\ \A e : Merges(e)' = Merges(e)
      /\ \A e : HasChild(e)' <=> HasChild(e)
  BY DEF Known, KeepsReferences, Merges, HasChild
<1>2. c \in Changing /\ c \in stored \ torn /\ ~HasChild(c) /\ c \in Event
  BY Kinds DEF Changing, CacheSoFar
<1>3. c \notin LocalMerge \cup Regular \cup PeerMerge \cup SetOf(queue) \cup Creating
  BY CreatingIsRegular, KnownEvents, Kinds
<1>4. \A d \in Config : request'[d] = IF d = c THEN "done" ELSE request[d]
  BY DEF TypeOK
<1>5. Creating' = Creating /\ Changing' = Changing \ {c} /\ Taken' = Taken
  BY <1>4 DEF Creating, Changing, Taken
<1>6. HeadSoFar' /\ StorageHead' = StorageHead
  BY <1>1, HeadKeeps DEF HeadSoFar
<1>7. NumbersSoFar'
  BY DEF NumbersSoFar, LastOf, Known
<1>8. RequestsSoFar'
  BY <1>4 DEF RequestsSoFar
<1> QED BY <1>1, <1>2, <1>3, <1>5, <1>6, <1>7, <1>8

LEMMA CacheConfigKeeps ==
  ASSUME InductiveInvariant, TypeOK', NEW c \in Config, CacheConfig(c)
  PROVE  InductiveInvariant'
<1> USE DEF InductiveInvariant, storageVars, writerVars, loopVars, historyVars
<1>1. /\ request[c] = "stored" /\ request' = [request EXCEPT ![c] = "done"]
      /\ childless' = childless \cup {c} /\ localChildless' = localChildless \cup {c}
      /\ UNCHANGED <<storageVars, outstanding, head, queue, chunks, pc, writerVars,
                     loopVars, historyVars>>
  BY DEF CacheConfig
<1>2. /\ c \in stored \ torn /\ ~HasChild(c) /\ c \in Event
      /\ c \notin LocalMerge \cup Regular \cup PeerMerge \cup SetOf(queue) \cup Creating
      /\ Known' = Known /\ KeepsReferences /\ \A e : Merges(e)' = Merges(e)
      /\ \A e : HasChild(e)' <=> HasChild(e)
      /\ Creating' = Creating /\ Changing' = Changing \ {c} /\ c \in Changing
      /\ Taken' = Taken
      /\ HeadSoFar' /\ StorageHead' = StorageHead /\ NumbersSoFar' /\ RequestsSoFar'
  BY <1>1, RequestEnds
<1>3. ReferencesSoFar'
  BY <1>1, <1>2, ReferencesKeep DEF ReferencesSoFar
<1>4. QueueSoFar'
  BY <1>1, <1>2, QueueKeeps
<1>5. CacheSoFar'
  <2>1. stored' \ Hidden' = (stored \ Hidden) \cup {c}
    <3>1. Hidden = Hidden' \cup {c} /\ c \notin Hidden'
      BY <1>1, <1>2 DEF Hidden
    <3> HIDE DEF InductiveInvariant
    <3> QED BY <1>1, <1>2, <3>1
  <2>2. \A d \in Taken : c \notin Merges(d)
    BY <1>2 DEF Taken, HasChild
  <2>3. childless = {e \in stored \ Hidden : \A d \in Taken : e \notin Merges(d)}
    BY DEF CacheSoFar
  <2>4. childless' = {e \in stored' \ Hidden' : \A d \in Taken' : e \notin Merges(d)'}
    <3> HIDE DEF InductiveInvariant
    <3> QED BY <1>1, <1>2, <2>1, <2>2, <2>3
  <2>5. localChildless' = childless' \cap (Regular \cup Config)
    BY <1>1 DEF CacheSoFar
  <2>6. outstanding' = (OutstandingInStorage' \ torn') \cap Taken'
    BY <1>1, <1>2 DEF CacheSoFar, OutstandingInStorage, InStorage
  <2>7. \A e \in Creating' \cup Changing' : e \in stored' \ torn' /\ ~HasChild(e)'
    BY <1>1, <1>2 DEF CacheSoFar
  <2> QED BY <1>1, <1>2, <2>4, <2>5, <2>6, <2>7 DEF CacheSoFar
<1>6. SiblingsSoFar'
  <2>1. localChildless' \cap Regular = localChildless \cap Regular
    BY <1>1, <1>2
  <2> QED BY <1>1, <1>2, <2>1 DEF SiblingsSoFar
<1>7. RegularsAreSiblings'
  BY <1>1, <1>2, RegularsKeep
<1>8. StatusSoFar'
  <2>1. localChildless' \cap Regular = localChildless \cap Regular
    BY <1>1, <1>2
  <2> QED BY <1>1, <2>1 DEF StatusSoFar
<1> QED BY <1>2, <1>3, <1>4, <1>5, <1>6, <1>7, <1>8

LEMMA CutRequestKeeps ==
  ASSUME InductiveInvariant, TypeOK', NEW c \in Config, CutRequest(c)
  PROVE  InductiveInvariant'
<1> USE DEF InductiveInvariant, storageVars, mergeVars, writerVars, loopVars
<1>1. /\ request[c] = "stored" /\ request' = [request EXCEPT ![c] = "done"]
      /\ torn' = torn \cup {c}
      /\ UNCHANGED <<storageVars, mergeVars, queue, chunks, pc, writerVars, loopVars>>
  BY DEF CutRequest
<1>2. /\ c \in stored \ torn /\ ~HasChild(c) /\ c \in Event
      /\ c \notin LocalMerge \cup Regular \cup PeerMerge \cup SetOf(queue) \cup Creating
      /\ Known' = Known /\ KeepsReferences /\ \A e : Merges(e)' = Merges(e)
      /\ \A e : HasChild(e)' <=> HasChild(e)
      /\ Creating' = Creating /\ Changing' = Changing \ {c} /\ c \in Changing
      /\ Taken' = Taken
      /\ HeadSoFar' /\ StorageHead' = StorageHead /\ NumbersSoFar' /\ RequestsSoFar'
  BY <1>1, RequestEnds
<1>3. ReferencesSoFar'
  BY <1>1, <1>2, ReferencesKeep DEF ReferencesSoFar
<1>4. QueueSoFar'
  BY <1>1, <1>2, QueueKeeps
<1>5. CacheSoFar'
  <2>1. Hidden' = Hidden /\ LocalMerge \subseteq Hidden
    BY <1>1, <1>2 DEF Hidden
  <2>2. \A e \in Creating' \cup Changing' : e \in stored' \ torn' /\ ~HasChild(e)'
    BY <1>1, <1>2 DEF CacheSoFar
  <2>3. \A e \in LocalMerge \cup PeerMerge : e \in torn' <=> e \in torn
    BY <1>1, <1>2
  <2> QED BY <1>1, <1>2, <2>1, <2>2, <2>3, CacheKeeps
<1>6. SiblingsSoFar'
  BY <1>1, <1>2, SiblingsKeep
<1>7. RegularsAreSiblings' /\ StatusSoFar'
  BY <1>1, <1>2, RegularsKeep DEF StatusSoFar
<1> QED BY <1>2, <1>3, <1>4, <1>5, <1>6, <1>7

-----------------------------------------------------------------------------
(* The invariant *)

LEMMA InitialInvariant == Init => InductiveInvariant
<1> SUFFICES ASSUME Init PROVE InductiveInvariant
  OBVIOUS
<1> USE DEF Init
<1>1. Genesis = Own(0) /\ Genesis \in LocalMerge /\ Genesis \in Event /\ 0 \in 0..MaxMerges
      /\ Genesis \notin Regular \cup Config \cup PeerMerge
  BY OwnEvents, Kinds, LimitAssumption
<1>2. SetOf(queue) = {} /\ Known = {Genesis}
  BY SetOfEmpty DEF Known
<1>3. TypeOK
  <2>1. 0 \in 0..MaxEvents /\ 0 \in 0..MaxRegular /\ 0 \in 0..MaxCuts /\ 0 \in Nat
    BY LimitAssumption
  <2>2. <<>> \in Seq(PeerMerge)
    OBVIOUS
  <2>3. NoStatus \in [peer : SUBSET Event, local : SUBSET Event]
    BY DEF NoStatus
  <2>4. /\ tree \in [Event -> Event] /\ parents \in [Event -> SUBSET Event]
        /\ request \in [Config -> {"new", "read", "stored", "done"}]
    BY <1>1
  <2>5. queue \in Seq(PeerMerge) /\ batch \in Seq(PeerMerge)
        /\ status \in [peer : SUBSET Event, local : SUBSET Event]
        /\ head \in 0..MaxMerges /\ chunks \in 0..MaxRegular /\ cuts \in 0..MaxCuts
        /\ room \in 0..MaxEvents /\ regularEvents \in Nat
    BY <1>1, <2>1, <2>2, <2>3, Zenon
  <2>6. stored \subseteq Event /\ consensus \subseteq stored
    BY <1>1
  <2> QED BY <2>4, <2>5, <2>6 DEF TypeOK
<1>4. StorageHead = 0
  <2>1. \A g \in 0..MaxMerges : Own(g) \in stored <=> g <= 0
    BY <1>1, OwnEvents, LimitAssumption
  <2> QED BY <1>1, <2>1, GreatestGeneration DEF StorageHead
<1>5. HeadSoFar
  <2>1. \A g \in 0..MaxMerges : Own(g) \in stored <=> g <= 0
    BY <1>1, OwnEvents, LimitAssumption
  <2> QED BY <1>1, <1>4, <2>1 DEF HeadSoFar
<1>6. NumbersSoFar
  <2>1. stored \cap Regular = {} /\ Cardinality(stored \cap Regular) = 0
    BY <1>1, FS_EmptySet
  <2>2. \A n \in 1..MaxRegular : <<"r", n>> \notin stored /\ ~(n <= 0)
    BY <2>1, RegularEvents, LimitAssumption
  <2>3. ASSUME NEW q \in Peer
        PROVE  LastOf(q) = 0
    <3>1. {e \in Known : e[1] = q} = {}
      BY <1>2, PeerAssumption DEF Genesis
    <3> QED BY <3>1, FS_EmptySet DEF LastOf
  <2>4. \A q \in Peer, n \in 1..MaxPeerEvents : <<q, n>> \notin Known /\ ~(n <= 0)
    BY <1>1, <1>2, PeerEvents, LimitAssumption
  <2>5. chunks + Cardinality(stored \cap Regular) <= MaxRegular
    BY <2>1, LimitAssumption
  <2>6. \A n \in 1..MaxRegular :
          <<"r", n>> \in stored <=> n <= Cardinality(stored \cap Regular)
    BY <2>1, <2>2
  <2> QED BY <2>3, <2>4, <2>5, <2>6, Zenon DEF NumbersSoFar
<1>7. Merges(Genesis) = {Genesis}
  BY <1>1 DEF Merges
<1>8. ReferencesSoFar
  <2>1. \A e \in consensus : HasChild(e)
    BY <1>7 DEF HasChild
  <2>2. \A e \in Regular \cup Config : parents[e] = {} /\ tree[e] \in LocalMerge
    BY <1>1, Kinds
  <2>3. parents[Genesis] = {}
    BY <1>1
  <2>4. \A q \in Peer : \A n \in 2..MaxPeerEvents : <<q, n>> # Genesis
    BY PeerAssumption DEF Genesis
  <2> QED BY <1>1, <1>2, <1>7, <2>1, <2>2, <2>3, <2>4 DEF ReferencesSoFar
<1>9. QueueSoFar
  BY <1>2 DEF QueueSoFar
<1>10. CacheSoFar
  <2>1. Creating = {} /\ Changing = {}
    BY DEF Creating, Changing
  <2>2. stored \ Hidden = {}
    BY <1>1 DEF Hidden
  <2>3. Genesis \in Taken
    <3>1. \A g \in (head + 1)..MaxMerges : Own(g) # Genesis
      BY DEF Own, Genesis
    <3> QED BY <1>2, <3>1 DEF Taken
  <2> QED BY <2>1, <2>2, <2>3 DEF CacheSoFar, OutstandingInStorage, InStorage
<1>11. RequestsSoFar
  BY <1>1, Kinds DEF RequestsSoFar
<1>12. SiblingsSoFar
  BY <1>4 DEF SiblingsSoFar, Creating
<1>13. RegularsAreSiblings /\ StatusSoFar
  BY <1>1 DEF RegularsAreSiblings, StatusSoFar
<1> QED BY <1>3, <1>5, <1>6, <1>8, <1>9, <1>10, <1>11, <1>12, <1>13 DEF InductiveInvariant

LEMMA StutterKeeps ==
  ASSUME InductiveInvariant, UNCHANGED vars
  PROVE  InductiveInvariant'
<1> USE DEF InductiveInvariant, vars, storageVars, mergeVars, writerVars, loopVars,
            historyVars
<1>1. TypeOK'
  BY DEF TypeOK
<1>2. Creating' = Creating /\ chunks' + Cardinality(stored \cap Regular) <= MaxRegular
  BY DEF Creating, NumbersSoFar
<1>3. QueueSoFar'
  <2>1. Known' = Known /\ \A e \in Known : Merges(e)' = Merges(e)
    BY DEF Known, Merges
  <2> QED BY <2>1 DEF QueueSoFar
<1>4. StatusSoFar'
  BY DEF StatusSoFar
<1> QED BY <1>1, <1>2, <1>3, <1>4, SessionKeeps DEF HeadSoFar

LEMMA StepKeepsInvariant == InductiveInvariant /\ [Next]_vars => InductiveInvariant'
<1> SUFFICES ASSUME InductiveInvariant, [Next]_vars PROVE InductiveInvariant'
  OBVIOUS
<1>1. CASE Submit
  BY <1>1, OutsideTypes, SubmitKeeps DEF InductiveInvariant
<1>2. ASSUME NEW p \in Peer, AddPeerEvent(p) PROVE InductiveInvariant'
  BY <1>2, OutsideTypes, AddPeerEventKeeps DEF InductiveInvariant
<1>3. ASSUME NEW e \in PeerMerge \cup LocalMerge, WriteBlock(e) PROVE InductiveInvariant'
  BY <1>3, OutsideTypes, WriteBlockKeeps DEF InductiveInvariant
<1>4. CASE Write \/ CutStoring
  <2>1. TypeOK'
    BY <1>4, WriterTypes DEF InductiveInvariant
  <2> QED BY <1>4, <2>1, ReadQueueKeeps, StoreBatchKeeps, UpdateCacheKeeps, CutStoringKeeps
          DEF Write
<1>5. CASE Merge
  <2>1. TypeOK'
    BY <1>5, MergeTypes
  <2>2. ASSUME NEW others \in BOOLEAN, ReadMergeStatus(others) PROVE InductiveInvariant'
    BY <2>1, <2>2, LoopKeeps
  <2>3. CASE CheckMergeable
    BY <2>1, <2>3, LoopKeeps
  <2>4. CASE CreateNothing
    BY <2>1, <2>4, LoopKeeps
  <2>5. CASE ValidateCache \/ AddLocalMergeEvent
    BY <2>1, <2>5, CacheUpdatesKeep
  <2>6. CASE CreateRegular
    BY <2>1, <2>6, CreateRegularKeeps
  <2>7. CASE CacheRegular
    BY <2>1, <2>7, CacheRegularKeeps
  <2>8. CASE StoreMerge
    <3>1. CASE Idle
      BY <2>1, <2>8, <3>1, LoopKeeps
    <3>2. CASE ~Idle
      BY <2>1, <2>8, <3>2, StoreMergeKeeps
    <3> QED BY <3>1, <3>2
  <2> QED BY <1>5, <2>2, <2>3, <2>4, <2>5, <2>6, <2>7, <2>8 DEF Merge
<1>6. ASSUME NEW c \in Config, Change(c) \/ CutRequest(c) PROVE InductiveInvariant'
  <2>1. TypeOK'
    BY <1>6, RequestTypes DEF InductiveInvariant
  <2> QED BY <1>6, <2>1, ReadHeadKeeps, StoreConfigKeeps, CacheConfigKeeps, CutRequestKeeps
          DEF Change
<1>7. CASE CutSession
  BY <1>7, CutTypes, CutSessionKeeps DEF InductiveInvariant
<1>8. CASE UNCHANGED vars
  BY <1>8, StutterKeeps
<1> QED BY <1>1, <1>2, <1>3, <1>4, <1>5, <1>6, <1>7, <1>8 DEF Next

(* What the cache has not been told of is known at every step: the part of *)
(* the queue that is in storage, what has just been stored and the merge   *)
(* event that the cached head is behind.                                   *)
THEOREM InvariantHolds == Spec => []InductiveInvariant
BY InitialInvariant, StepKeepsInvariant, PTL DEF Spec

(* LocalNode is type correct.                                              *)
THEOREM TypeCorrect == Spec => []TypeOK
<1>1. InductiveInvariant => TypeOK
  BY DEF InductiveInvariant
<1> QED BY <1>1, InvariantHolds, PTL

(* The regular events that a merge event merges were made on the merge     *)
(* event it is made on, also after a session that was cut off between      *)
(* storage and cache.                                                      *)
THEOREM SiblingsMerged == Spec => []RegularsAreSiblings
<1>1. InductiveInvariant => RegularsAreSiblings
  BY DEF InductiveInvariant
<1> QED BY <1>1, InvariantHolds, PTL

(* Between two steps of the pipeline the cached sets are those that        *)
(* priming would compute from storage, but for events whose update of the  *)
(* cache was cut off.                                                      *)
THEOREM CacheFollowsStorage == Spec => []CacheMatchesStorage
<1>1. InductiveInvariant => CacheMatchesStorage
  <2> SUFFICES ASSUME InductiveInvariant, Settled
               PROVE  /\ childless = ChildlessInStorage \ torn
                      /\ localChildless = childless \cap (Regular \cup Config)
                      /\ outstanding = OutstandingInStorage \ torn
    BY DEF CacheMatchesStorage
  <2> USE DEF InductiveInvariant
  <2>1. Creating = {} /\ Changing = {} /\ head = StorageHead /\ SetOf(queue) \cap stored = {}
    BY DEF Settled, Creating, Changing
  <2>2. Taken = stored
    <3>1. \A g \in (head + 1)..MaxMerges : Own(g) \notin stored
      BY <2>1, LimitAssumption DEF HeadSoFar, TypeOK
    <3> QED BY <2>1, <3>1 DEF Taken
  <2>3. ASSUME NEW e \in stored, ~HasChild(e)
        PROVE  e \notin consensus /\ (e \in LocalMerge <=> e = Own(StorageHead))
    <3>1. e \notin consensus
      BY <2>3 DEF ReferencesSoFar
    <3>2. Own(StorageHead) \in LocalMerge
      BY OwnEvents DEF HeadSoFar
    <3>3. ASSUME NEW g \in 0..MaxMerges, e = Own(g)
          PROVE  g = StorageHead
      <4>1. g <= StorageHead /\ StorageHead \in 0..MaxMerges
        BY <3>3 DEF HeadSoFar
      <4>2. CASE g < StorageHead
        <5>1. g + 1 \in 0..MaxMerges /\ g + 1 \in 1..StorageHead /\ g + 1 - 1 = g
          BY <4>1, <4>2, LimitAssumption
        <5> PICK h \in 1..StorageHead : h = g + 1 /\ h - 1 = g /\ h \in 0..MaxMerges
          BY <5>1
        <5>2. Own(h) \in stored /\ tree[Own(h)] = Own(h - 1)
          BY DEF HeadSoFar
        <5> QED BY <2>3, <3>3, <5>2 DEF HasChild, Merges
      <4> QED BY <4>1, <4>2, LimitAssumption
    <3> QED BY <3>1, <3>2, <3>3, OwnEvents
  <2>4. childless = {e \in stored \ Hidden : ~HasChild(e)}
    BY <2>2 DEF CacheSoFar, HasChild
  <2>5. stored \ Hidden = stored \ (LocalMerge \cup torn)
    BY <2>1 DEF Hidden
  <2>6. childless = ChildlessInStorage \ torn
    <3>1. ASSUME NEW e
          PROVE  e \in childless <=> e \in ChildlessInStorage \ torn
      <4>1. e \in ChildlessInStorage \ torn <=>
              /\ e \in stored /\ ~HasChild(e) /\ e \notin torn
              /\ e \notin consensus /\ e # Own(StorageHead)
        BY DEF ChildlessInStorage, InStorage
      <4>2. e \in childless <=> /\ e \in stored /\ ~HasChild(e) /\ e \notin torn
                                /\ e \notin LocalMerge
        BY <2>4, <2>5
      <4> HIDE DEF InductiveInvariant
      <4> QED BY <2>3, <4>1, <4>2
    <3> HIDE DEF InductiveInvariant
    <3> QED BY <3>1
  <2>7. outstanding = OutstandingInStorage \ torn
    BY <2>2 DEF CacheSoFar, OutstandingInStorage, InStorage
  <2> QED BY <2>6, <2>7 DEF CacheSoFar
<1> QED BY <1>1, InvariantHolds, PTL

-----------------------------------------------------------------------------
(* The own branch *)

StoresMerge == StoreMerge /\ ~Idle

\* Only storing a merge event changes the branch.
LEMMA BranchKeeps ==
  ASSUME InductiveInvariant, [Next]_vars, ~StoresMerge
  PROVE  /\ stored' \cap LocalMerge = stored \cap LocalMerge
         /\ \A m \in stored \cap LocalMerge : parents'[m] = parents[m]
         /\ StorageHead' = StorageHead
<1> USE DEF InductiveInvariant, storageVars, mergeVars, writerVars, loopVars, historyVars
<1>1. /\ stored' \cap LocalMerge = stored \cap LocalMerge
      /\ \A m \in stored \cap LocalMerge : parents'[m] = parents[m]
  <2>1. CASE stored' = stored /\ parents' = parents
    BY <2>1
  <2>2. CASE Submit \/ CutSession \/ ReadQueue \/ UpdateCache \/ UNCHANGED vars
    BY <2>1, <2>2 DEF Submit, CutSession, ReadQueue, UpdateCache, vars
  <2>3. ASSUME NEW p \in Peer, AddPeerEvent(p)
        PROVE  /\ stored' \cap LocalMerge = stored \cap LocalMerge
               /\ \A m \in stored \cap LocalMerge : parents'[m] = parents[m]
    <3>1. PICK x, others : x[1] = p /\ parents' = [parents EXCEPT ![x] = others]
      BY <2>3 DEF AddPeerEvent
    <3>2. x \notin LocalMerge
      BY <3>1, PeerAssumption DEF LocalMerge
    <3> QED BY <2>3, <3>1, <3>2 DEF AddPeerEvent, TypeOK
  <2>4. ASSUME NEW e \in PeerMerge \cup LocalMerge, WriteBlock(e)
        PROVE  stored' = stored /\ parents' = parents
    BY <2>4 DEF WriteBlock
  <2>5. CASE StoreBatch \/ CutStoring
    <3>1. SetOf(batch) \subseteq PeerMerge
      BY SetOfSequence DEF TypeOK
    <3> QED BY <2>5, <3>1, Kinds DEF StoreBatch, CutStoring
  <2>6. ASSUME NEW others \in BOOLEAN, ReadMergeStatus(others)
        PROVE  stored' = stored /\ parents' = parents
    BY <2>6 DEF ReadMergeStatus
  <2>7. CASE ValidateCache \/ CheckMergeable \/ CacheRegular \/ CreateNothing \/ AddLocalMergeEvent
    BY <2>1, <2>7 DEF ValidateCache, CheckMergeable, CacheRegular, CreateNothing,
                      AddLocalMergeEvent
  <2>8. CASE CreateRegular
    <3>1. \A k : <<"r", k>> \notin LocalMerge
      BY DEF LocalMerge
    <3> QED BY <2>8, <3>1 DEF CreateRegular
  <2>9. CASE StoreMerge
    BY <2>1, <2>9 DEF StoreMerge, StoresMerge, Idle
  <2>10. ASSUME NEW c \in Config, Change(c) \/ CutRequest(c)
         PROVE  stored' \cap LocalMerge = stored \cap LocalMerge /\ parents' = parents
    BY <2>10, Kinds DEF Change, ReadHead, StoreConfig, CacheConfig, CutRequest
  <2> QED BY <2>1, <2>2, <2>3, <2>4, <2>5, <2>6, <2>7, <2>8, <2>9, <2>10
          DEF Next, Write, Merge
<1>2. StorageHead' = StorageHead
  <2>1. \A g \in 0..MaxMerges : Own(g) \in stored' <=> g <= StorageHead
    BY <1>1, OwnEvents DEF HeadSoFar
  <2> QED BY <2>1, GreatestGeneration DEF StorageHead, HeadSoFar
<1> QED BY <1>1, <1>2

\* What StoresMerge does.
LEMMA MergeIs ==
  ASSUME InductiveInvariant, InductiveInvariant', StoresMerge
  PROVE  /\ head \in Nat /\ StorageHead = head /\ StorageHead' = head + 1
         /\ Own(head + 1) \in Event
         /\ stored' = stored \cup {Own(head + 1)}
         /\ \E peers \in PeerParents :
              /\ status.local \cup peers # {}
              /\ parents' = [parents EXCEPT ![Own(head + 1)] = status.local \cup peers]
         /\ pc = "merge" /\ pc' = "merged"
         /\ UNCHANGED <<consensus, mergeVars, queue, chunks, loopVars, request, historyVars>>
<1> USE DEF InductiveInvariant, StoresMerge, mergeVars, loopVars
<1>1. /\ pc = "merge" /\ pc' = "merged" /\ stored' = stored \cup {Own(head + 1)}
      /\ UNCHANGED <<consensus, mergeVars, queue, chunks, loopVars, request, historyVars>>
      /\ \E peers \in PeerParents :
           /\ status.local \cup peers # {}
           /\ parents' = [parents EXCEPT ![Own(head + 1)] = status.local \cup peers]
      /\ head < MaxMerges
  BY DEF StoreMerge
<1>2. head \in Nat /\ StorageHead = head /\ StorageHead' = head + 1
  BY <1>1 DEF HeadSoFar, TypeOK
<1>3. Own(head + 1) \in Event
  <2>1. head + 1 \in 0..MaxMerges
    BY <1>1, <1>2, LimitAssumption
  <2> QED BY <2>1, OwnEvents, Kinds
<1> QED BY <1>1, <1>2, <1>3

(* A merge event that is stored is appended to the branch, with parents of *)
(* which none has been merged before, although they are taken from the     *)
(* cache; no other step changes the branch.                                *)
THEOREM ImplementsBranch == Spec => NeverForks
<1> DEFINE branch == [g \in 1..StorageHead |-> parents[Own(g)]]
<1>1. Init => B!Init
  <2> SUFFICES ASSUME Init PROVE branch = <<>>
    BY DEF B!Init
  <2>1. StorageHead = 0
    <3>1. Genesis = Own(0) /\ 0 \in 0..MaxMerges /\ stored = {Genesis}
      BY OwnEvents, LimitAssumption DEF Init
    <3>2. \A g \in 0..MaxMerges : Own(g) \in stored <=> g <= 0
      BY <3>1, OwnEvents, LimitAssumption
    <3> QED BY <3>1, <3>2, GreatestGeneration DEF StorageHead
  <2> QED BY <2>1
<1>2. ASSUME InductiveInvariant, InductiveInvariant', [Next]_vars
      PROVE  [B!Merge]_branch
  <2>1. StorageHead \in Nat
    BY <1>2, LimitAssumption DEF InductiveInvariant, HeadSoFar
  <2>2. Len(branch) = StorageHead
    <3> PICK n \in Nat : n = StorageHead
      BY <2>1
    <3> DEFINE f == [g \in 1..n |-> parents[Own(g)]]
    <3>1. f \in Seq({f[g] : g \in 1..n}) /\ Len(f) = n
      OBVIOUS
    <3> QED BY <3>1
  <2>3. CASE ~StoresMerge
    <3>1. \A g \in 1..StorageHead : Own(g) \in stored \cap LocalMerge
      BY <1>2, OwnEvents, LimitAssumption DEF InductiveInvariant, HeadSoFar
    <3>2. branch' = branch
      BY <1>2, <2>3, <3>1, BranchKeeps
    <3> QED BY <3>2
  <2>4. CASE StoresMerge
    <3>1. /\ head \in Nat /\ StorageHead = head /\ StorageHead' = head + 1
          /\ Own(head + 1) \in Event /\ pc = "merge"
      BY <1>2, <2>4, MergeIs
    <3>2. PICK peers \in PeerParents :
            /\ status.local \cup peers # {}
            /\ parents' = [parents EXCEPT ![Own(head + 1)] = status.local \cup peers]
      BY <1>2, <2>4, MergeIs
    <3> DEFINE new == status.local \cup peers
    <3>3. parents'[Own(head + 1)] = new
          /\ \A g \in 1..head : parents'[Own(g)] = parents[Own(g)]
      <4>1. \A g \in 1..head : Own(g) # Own(head + 1)
        BY <3>1, OwnEvents
      <4>2. parents \in [Event -> SUBSET Event]
        BY <1>2 DEF InductiveInvariant, TypeOK
      <4>3. \A g \in 1..head : Own(g) \in Event
        BY <1>2, <3>1, OwnEvents, Kinds, LimitAssumption DEF InductiveInvariant, HeadSoFar
      <4> QED BY <3>1, <3>2, <4>1, <4>2, <4>3
    <3>4. new \subseteq childless
      BY <1>2, <3>1 DEF PeerParents, InductiveInvariant, StatusSoFar, CacheSoFar
    <3>5. ASSUME NEW g \in 1..head
          PROVE  new \cap parents[Own(g)] = {}
      <4>1. Own(g) \in stored
        BY <1>2, <3>1, LimitAssumption DEF InductiveInvariant, HeadSoFar
      <4>2. Own(g) \notin SetOf(queue)
        BY <1>2, PeerAssumption, KnownEvents DEF InductiveInvariant, Own, PeerMerge
      <4>3. \A i \in (head + 1)..MaxMerges : Own(i) # Own(g)
        <5>1. \A i \in (head + 1)..MaxMerges : i # g
          BY <3>1
        <5> QED BY <5>1, OwnEvents
      <4>4. Own(g) \in Taken
        BY <4>1, <4>2, <4>3 DEF Taken
      <4>5. \A e \in childless : e \notin Merges(Own(g))
        BY <1>2, <4>4 DEF InductiveInvariant, CacheSoFar
      <4> QED BY <3>4, <4>5 DEF Merges
    <3>6. new \subseteq Event
      BY <1>2, <3>4 DEF InductiveInvariant, TypeOK
    <3>7. B!Merged = UNION {parents[Own(g)] : g \in 1..head}
      BY <2>2, <3>1 DEF B!Merged
    <3> PICK p : p = new
      OBVIOUS
    <3>8. p \subseteq Event \ B!Merged /\ p # {}
      BY <3>2, <3>5, <3>6, <3>7
    <3>9. Len(branch') = head + 1
      <4> PICK n \in Nat : n = StorageHead'
        BY <3>1
      <4> DEFINE f == [g \in 1..n |-> parents'[Own(g)]]
      <4>1. f \in Seq({f[g] : g \in 1..n}) /\ Len(f) = n
        OBVIOUS
      <4> QED BY <3>1, <4>1
    <3>10. \A g \in 1..Len(branch) : branch'[g] = branch[g]
      BY <2>2, <3>1, <3>3
    <3>11. branch'[Len(branch) + 1] = p
      BY <2>2, <3>1, <3>3
    <3>12. B!Merge
      <4>1. Len(branch') = Len(branch) + 1
        BY <2>2, <3>1, <3>9
      <4> HIDE DEF branch
      <4> QED BY <3>8, <3>10, <3>11, <4>1 DEF B!Merge, branch
    <3> QED BY <3>12
  <2> QED BY <2>3, <2>4
<1> QED BY <1>1, <1>2, InvariantHolds, PTL DEF Spec, NeverForks, B!Spec

-----------------------------------------------------------------------------
(* The number of parents *)

LEMMA Subsets ==
  ASSUME NEW S \in SUBSET Event, NEW T \in SUBSET S
  PROVE  Cardinality(T) <= Cardinality(S)
BY FiniteEvents, FS_Subset

LEMMA SetAndOne ==
  ASSUME NEW S \in SUBSET Event, NEW x
  PROVE  Cardinality(S \cup {x}) <= Cardinality(S) + 1
<1>1. IsFiniteSet(S) /\ Cardinality(S) \in Nat
  BY Sizes
<1>2. CASE x \in S
  <2>1. S \cup {x} = S
    BY <1>2
  <2> QED BY <1>1, <2>1
<1>3. CASE x \notin S
  <2>1. Cardinality(S \cup {x}) = Cardinality(S) + 1
    BY <1>1, <1>3, FS_AddElement
  <2>2. Cardinality(S \cup {x}) \in Nat
    BY <1>1, <2>1
  <2> QED BY <2>1, <2>2
<1> QED BY <1>2, <1>3

LEMMA TwoSets ==
  ASSUME NEW S \in SUBSET Event, NEW T \in SUBSET Event
  PROVE  Cardinality(S \cup T) <= Cardinality(S) + Cardinality(T)
<1>1. IsFiniteSet(S) /\ IsFiniteSet(T) /\ IsFiniteSet(S \cap T)
  BY FiniteEvents, FS_Subset
<1>2. Cardinality(S) \in Nat /\ Cardinality(T) \in Nat /\ Cardinality(S \cap T) \in Nat
  BY Sizes
<1>3. Cardinality(S \cup T) = Cardinality(S) + Cardinality(T) - Cardinality(S \cap T)
  BY <1>1, FS_Union
<1> QED BY <1>2, <1>3

\* The local events that wait are regular events and configuration events.
LEMMA LocalWaiting ==
  ASSUME TypeOK, CacheSoFar
  PROVE  /\ Waiting \in Nat /\ Chosen \in Nat
         /\ Cardinality(localChildless) <= Waiting + MaxConfigs
<1>1. Waiting \in Nat /\ Chosen \in Nat
  BY Sizes DEF Waiting, Chosen, TypeOK
<1>2. Cardinality(localChildless \cap Config) <= MaxConfigs
  <2>1. Config = {<<"c", i>> : i \in 1..MaxConfigs}
    BY DEF Config
  <2>2. MaxConfigs \in Nat
    BY LimitAssumption
  <2>3. Cardinality(Config) = MaxConfigs
    BY <2>1, <2>2, Counting
  <2> QED BY <2>3, Subsets, Kinds
<1>3. localChildless = (localChildless \cap Regular) \cup (localChildless \cap Config)
  BY DEF CacheSoFar
<1>4. Cardinality(localChildless) <= Waiting + Cardinality(localChildless \cap Config)
  <2> DEFINE S == localChildless \cap Regular
             T == localChildless \cap Config
  <2>1. S \subseteq Event /\ T \subseteq Event
    BY DEF TypeOK
  <2>2. localChildless = S \cup T
    BY <1>3
  <2> HIDE DEF S, T
  <2>3. Cardinality(localChildless) <= Cardinality(S) + Cardinality(T)
    BY <2>1, <2>2, TwoSets
  <2> QED BY <2>3 DEF S, T, Waiting
<1>5. Cardinality(localChildless) \in Nat /\ Cardinality(localChildless \cap Config) \in Nat
      /\ MaxConfigs \in Nat
  BY Sizes, LimitAssumption DEF TypeOK
<1> QED BY <1>1, <1>2, <1>4, <1>5

\* Steps that neither choose nor create: no more regular events wait than
\* before, and the session goes on at most within the part in which at most
\* one may.
LEMMA RoomKeeps ==
  ASSUME InductiveInvariant, InductiveInvariant', RoomSoFar, FewConfigs, cuts = 0,
         UNCHANGED <<status, room, regularEvents>>,
         localChildless' \cap Regular \subseteq localChildless \cap Regular,
         StorageHead' = head' \/ pc' = "merged",
         \/ pc' = pc
         \/ pc = "create" /\ pc' \in {"created", "lastCreated", "merge"}
         \/ /\ pc \in {"idle", "read", "written", "valid", "status"}
            /\ pc' \in {"idle", "read", "written", "valid"}
  PROVE  RoomSoFar'
<1>1. Waiting' <= Waiting /\ Waiting \in Nat /\ Waiting' \in Nat /\ Chosen \in Nat
      /\ Chosen' = Chosen
  <2>1. localChildless \cap Regular \subseteq Event
    BY Kinds
  <2> QED BY <2>1, Subsets, LocalWaiting, Sizes
          DEF InductiveInvariant, Waiting, Chosen, TypeOK
<1>2. pc' \in {"idle", "read", "written", "valid", "status"} => Waiting' <= 1
  BY <1>1 DEF RoomSoFar
<1>3. pc' = "status" => Chosen' < MaxEvents
  BY <1>1 DEF RoomSoFar
<1>4. room \in Nat /\ regularEvents \in Nat /\ MaxEvents \in Nat
  BY LimitAssumption DEF InductiveInvariant, TypeOK
<1>5. pc' \in {"create", "created", "lastCreated"} =>
        Chosen' + room' < MaxEvents /\ Chosen' <= regularEvents'
  BY <1>1 DEF RoomSoFar
<1>6. pc' = "merge" => Chosen' < MaxEvents /\ Chosen' <= regularEvents' + 1
  BY <1>1, <1>4 DEF RoomSoFar
<1> QED BY <1>2, <1>3, <1>5, <1>6 DEF RoomSoFar

\* The pipeline begins anew.
LEMMA RoomWhenIdle ==
  ASSUME pc' = "idle", StorageHead' = head', Waiting' <= 1
  PROVE  RoomSoFar'
BY DEF RoomSoFar

LEMMA StepKeepsRoom ==
  ASSUME InductiveInvariant, InductiveInvariant', RoomSoFar, [Next]_vars
  PROVE  RoomSoFar'
<1> SUFFICES ASSUME FewConfigs, cuts' = 0
             PROVE  RoomSoFar'
  BY DEF RoomSoFar
<1> USE DEF storageVars, mergeVars, writerVars, loopVars, historyVars
<1>1. cuts = 0 /\ UNCHANGED cuts
  <2>1. cuts \in Nat
    BY LimitAssumption DEF InductiveInvariant, TypeOK
  <2>2. cuts' = cuts \/ cuts' = cuts + 1
    BY DEF Next, Submit, AddPeerEvent, WriteBlock, Write, ReadQueue, StoreBatch, UpdateCache,
           Merge, ValidateCache, ReadMergeStatus, CheckMergeable, CreateRegular, CacheRegular,
           CreateNothing, StoreMerge, AddLocalMergeEvent, Change, ReadHead, StoreConfig,
           CacheConfig, CutSession, CutStoring, CutRequest, vars
  <2> QED BY <2>1, <2>2
<1>2. /\ StorageHead = head \/ pc = "merged"
      /\ pc \in {"idle", "read", "written", "valid", "status"} => Waiting <= 1
      /\ Waiting \in Nat /\ Chosen \in Nat /\ MaxEvents \in Nat /\ MaxConfigs \in Nat
      /\ head \in Nat /\ room \in Nat /\ regularEvents \in Nat
  BY <1>1, LocalWaiting, LimitAssumption DEF RoomSoFar, InductiveInvariant, TypeOK
<1>3. \A S \in SUBSET (localChildless \cap Regular) : Cardinality(S) <= Waiting
  BY Subsets, Kinds DEF Waiting
<1>4. CASE Submit
  <2>1. StorageHead' = StorageHead
    BY <1>4, BranchKeeps DEF StoresMerge, StoreMerge, Submit
  <2> QED BY <1>1, <1>2, <1>4, <2>1, RoomKeeps DEF Submit
<1>5. ASSUME NEW p \in Peer, AddPeerEvent(p) PROVE RoomSoFar'
  <2>1. StorageHead' = StorageHead
    BY <1>5, BranchKeeps DEF StoresMerge, StoreMerge, AddPeerEvent
  <2> QED BY <1>1, <1>2, <1>5, <2>1, RoomKeeps DEF AddPeerEvent
<1>6. ASSUME NEW e \in PeerMerge \cup LocalMerge, WriteBlock(e) PROVE RoomSoFar'
  <2>1. StorageHead' = StorageHead
    BY <1>6, BranchKeeps DEF StoresMerge, StoreMerge, WriteBlock
  <2> QED BY <1>1, <1>2, <1>6, <2>1, RoomKeeps DEF WriteBlock
<1>7. CASE Write
  <2>1. StorageHead' = StorageHead /\ pc \in {"idle", "read", "written"}
    BY <1>7, BranchKeeps DEF StoresMerge, StoreMerge, Write, ReadQueue, StoreBatch, UpdateCache
  <2>2. CASE ReadQueue \/ StoreBatch
    BY <1>1, <1>2, <2>1, <2>2, RoomKeeps DEF ReadQueue, StoreBatch
  <2>3. CASE UpdateCache
    <3>1. Waiting' = Waiting /\ pc' = "idle" /\ head' = head
      BY <2>3 DEF UpdateCache, Idle, Waiting
    <3> QED BY <1>2, <2>1, <3>1, RoomWhenIdle
  <2> QED BY <1>7, <2>2, <2>3 DEF Write
<1>8. CASE ValidateCache
  <2>1. StorageHead' = StorageHead /\ StorageHead = head /\ pc = "idle" /\ pc' = "valid"
    BY <1>2, <1>8, BranchKeeps DEF StoresMerge, StoreMerge, ValidateCache
  <2>2. UNCHANGED mergeVars
    <3>1. ~(head = head + 1)
      BY <1>2
    <3> QED BY <1>8, <2>1, <3>1 DEF ValidateCache
  <2> QED BY <1>1, <1>2, <1>8, <2>1, <2>2, RoomKeeps DEF ValidateCache
<1>9. ASSUME NEW others \in BOOLEAN, ReadMergeStatus(others) PROVE RoomSoFar'
  <2>1. /\ StorageHead' = StorageHead /\ pc = "valid" /\ pc' = "status"
        /\ status'.local = localChildless /\ head' = head /\ localChildless' = localChildless
    BY <1>9, BranchKeeps DEF StoresMerge, StoreMerge, ReadMergeStatus
  <2>2. Waiting' = Waiting /\ Chosen' = Cardinality(localChildless)
    BY <2>1 DEF Waiting, Chosen
  <2>3. Waiting <= 1 /\ StorageHead = head
    BY <1>2, <2>1
  <2>4. Cardinality(localChildless) <= Waiting + MaxConfigs
        /\ Cardinality(localChildless) \in Nat
    BY LocalWaiting, Sizes DEF InductiveInvariant, TypeOK
  <2>5. Chosen' < MaxEvents
    BY <1>2, <2>2, <2>3, <2>4 DEF FewConfigs
  <2> QED BY <2>1, <2>2, <2>3, <2>5 DEF RoomSoFar
<1>10. CASE CheckMergeable
  <2>1. /\ StorageHead' = StorageHead /\ pc = "status" /\ head' = head
        /\ localChildless' = localChildless
    BY <1>10, BranchKeeps DEF StoresMerge, StoreMerge, CheckMergeable
  <2>2. Waiting' = Waiting /\ StorageHead = head /\ Chosen < MaxEvents /\ Waiting <= 1
    BY <1>1, <1>2, <2>1 DEF Waiting, RoomSoFar
  <2>3. CASE Idle
    BY <2>1, <2>2, <2>3, RoomWhenIdle DEF Idle
  <2>4. CASE ~Idle
    <3>1. /\ room' = RoomForRegular /\ regularEvents' = Cardinality(status.local)
          /\ pc' = "create" /\ status' = status
      BY <1>10, <2>4 DEF CheckMergeable
    <3>2. Chosen' = Chosen /\ regularEvents' = Chosen
      BY <3>1 DEF Chosen
    <3>3. RoomForRegular \in 0..MaxEvents
          /\ (RoomForRegular = 0 \/ RoomForRegular + Chosen < MaxEvents)
      BY RoomSize DEF InductiveInvariant, Chosen
    <3>4. Chosen' + room' < MaxEvents /\ Chosen' <= regularEvents'
      BY <1>2, <2>2, <3>1, <3>2, <3>3
    <3> QED BY <2>1, <2>2, <3>1, <3>4 DEF RoomSoFar
  <2> QED BY <2>3, <2>4
<1>11. CASE CreateRegular \/ CreateNothing
  <2>1. /\ StorageHead' = StorageHead /\ pc = "create"
        /\ pc' \in {"created", "lastCreated", "merge"}
        /\ UNCHANGED <<head, localChildless, status, room, regularEvents>>
    BY <1>11, BranchKeeps DEF StoresMerge, StoreMerge, CreateRegular, CreateNothing
  <2> QED BY <1>1, <1>2, <2>1, RoomKeeps
<1>12. CASE CacheRegular
  <2> PICK r : r = <<"r", Cardinality(stored \cap Regular)>>
    OBVIOUS
  <2>1. /\ StorageHead' = StorageHead /\ pc \in {"created", "lastCreated"}
        /\ head' = head /\ status'.local = status.local \cup {r}
        /\ \/ /\ pc = "created" /\ pc' = "create"
              /\ room' = room - 1 /\ regularEvents' = regularEvents + 1
           \/ /\ pc = "lastCreated" /\ pc' = "merge" /\ UNCHANGED <<room, regularEvents>>
    BY <1>12, BranchKeeps DEF StoresMerge, StoreMerge, CacheRegular, InductiveInvariant, TypeOK
  <2>2. Chosen' <= Chosen + 1 /\ Chosen' \in Nat
    <3>1. Chosen' = Cardinality(status.local \cup {r})
      BY <2>1 DEF Chosen
    <3>2. Chosen' \in Nat
      <4>1. status' \in [peer : SUBSET Event, local : SUBSET Event]
        BY DEF InductiveInvariant, TypeOK
      <4>2. status'.local \in SUBSET Event
        BY <4>1
      <4> QED BY <2>1, <3>1, <4>2, Sizes
    <3> QED BY <3>1, <3>2, SetAndOne DEF Chosen, InductiveInvariant, TypeOK
  <2>3. room > 0 /\ Chosen + room < MaxEvents /\ Chosen <= regularEvents /\ StorageHead = head
    BY <1>1, <1>2, <2>1 DEF RoomSoFar, InductiveInvariant, StatusSoFar
  <2>4. CASE pc = "created"
    <3>1. room' = room - 1 /\ regularEvents' = regularEvents + 1
      BY <2>1, <2>4
    <3>2. PICK chosen \in Nat, next \in Nat : chosen = Chosen /\ next = Chosen'
      BY <1>2, <2>2
    <3>3. next + (room - 1) < MaxEvents /\ next <= regularEvents + 1
      <4>1. room \in Nat /\ regularEvents \in Nat /\ MaxEvents \in Nat
        BY <1>2
      <4>2. next <= chosen + 1 /\ chosen + room < MaxEvents /\ chosen <= regularEvents
        BY <2>2, <2>3, <3>2
      <4> QED BY <4>1, <4>2
    <3>4. Chosen' + room' < MaxEvents /\ Chosen' <= regularEvents'
      BY <3>1, <3>2, <3>3, Zenon
    <3> QED BY <2>1, <2>3, <2>4, <3>4 DEF RoomSoFar
  <2>5. CASE pc = "lastCreated"
    <3>1. room' = room /\ regularEvents' = regularEvents
      BY <2>1, <2>5
    <3>2. Chosen' < MaxEvents /\ Chosen' <= regularEvents' + 1
      BY <1>2, <2>2, <2>3, <3>1
    <3> QED BY <2>1, <2>3, <2>5, <3>2 DEF RoomSoFar
  <2> QED BY <2>1, <2>4, <2>5
<1>13. CASE StoreMerge /\ Idle
  <2>1. /\ StorageHead' = StorageHead /\ pc = "merge" /\ pc' = "idle" /\ head' = head
        /\ localChildless' = localChildless
        /\ regularEvents = 0 \/ status.local = {}
    <3>1. pc' = "idle"
      BY <1>13 DEF Idle
    <3>2. regularEvents = 0 \/ status.local = {}
      BY <1>13, <3>1 DEF StoreMerge
    <3> QED BY <1>13, <3>1, <3>2, BranchKeeps DEF StoresMerge, StoreMerge
  <2>2. Chosen <= 1
    <3>1. CASE regularEvents = 0
      BY <1>1, <1>2, <2>1, <3>1 DEF RoomSoFar
    <3>2. CASE status.local = {}
      BY <3>2, FS_EmptySet DEF Chosen
    <3> QED BY <2>1, <3>1, <3>2
  <2>3. Waiting <= Chosen
    BY <2>1, Subsets DEF Waiting, Chosen, InductiveInvariant, StatusSoFar, TypeOK
  <2>4. Waiting' = Waiting
    BY <2>1 DEF Waiting
  <2> QED BY <1>2, <2>1, <2>2, <2>3, <2>4, RoomWhenIdle
<1>14. CASE StoresMerge
  <2>1. pc' = "merged"
    BY <1>14, MergeIs
  <2> QED BY <2>1 DEF RoomSoFar
<1>15. CASE AddLocalMergeEvent
  <2>1. /\ StorageHead' = StorageHead /\ pc = "merged" /\ pc' = "idle" /\ head' = head + 1
        /\ localChildless' = localChildless \ parents[Own(head + 1)]
    BY <1>15, BranchKeeps DEF StoresMerge, StoreMerge, AddLocalMergeEvent, CacheLocalMerge, Idle
  <2>2. StorageHead = head + 1 /\ localChildless' \cap Regular = {}
    BY <2>1 DEF InductiveInvariant, HeadSoFar, SiblingsSoFar
  <2>3. Waiting' = 0
    BY <2>2, FS_EmptySet DEF Waiting
  <2> QED BY <2>1, <2>2, <2>3, RoomWhenIdle
<1>16. ASSUME NEW c \in Config, Change(c) PROVE RoomSoFar'
  <2>1. StorageHead' = StorageHead
    <3>1. Change(c) => UNCHANGED pc
      BY DEF Change, ReadHead, StoreConfig, CacheConfig
    <3> QED BY <1>16, <3>1, BranchKeeps DEF StoresMerge, StoreMerge
  <2>2. localChildless' \cap Regular = localChildless \cap Regular
    BY <1>16, Kinds DEF Change, ReadHead, StoreConfig, CacheConfig
  <2>3. UNCHANGED <<pc, head, status, room, regularEvents>>
    BY <1>16 DEF Change, ReadHead, StoreConfig, CacheConfig
  <2> QED BY <1>1, <1>2, <2>1, <2>2, <2>3, RoomKeeps
<1>17. CASE CutSession \/ CutStoring \/ (\E c \in Config : CutRequest(c))
  BY <1>1, <1>17 DEF CutSession, CutStoring, CutRequest
<1>18. CASE UNCHANGED vars
  BY <1>18 DEF vars, RoomSoFar, StorageHead, Waiting, Chosen
<1>19. CASE Merge
  BY <1>8, <1>9, <1>10, <1>11, <1>12, <1>13, <1>14, <1>15, <1>19 DEF Merge, StoresMerge
<1> QED BY <1>4, <1>5, <1>6, <1>7, <1>16, <1>17, <1>18, <1>19 DEF Next

\* What is chosen and the peers' events that there is room for fit.
LEMMA StepKeepsFit ==
  ASSUME InductiveInvariant, InductiveInvariant', RoomSoFar, ParentsFit, [Next]_vars,
         RoomSoFar'
  PROVE  ParentsFit'
<1> SUFFICES ASSUME FewConfigs, cuts' = 0, NEW m \in stored' \cap LocalMerge
             PROVE  Cardinality(parents'[m]) < MaxEvents
  BY DEF ParentsFit
<1> USE DEF storageVars, mergeVars, writerVars, loopVars, historyVars
<1>1. cuts = 0
  <2>1. cuts \in Nat
    BY LimitAssumption DEF InductiveInvariant, TypeOK
  <2>2. cuts' = cuts \/ cuts' = cuts + 1
    BY DEF Next, Submit, AddPeerEvent, WriteBlock, Write, ReadQueue, StoreBatch, UpdateCache,
           Merge, ValidateCache, ReadMergeStatus, CheckMergeable, CreateRegular, CacheRegular,
           CreateNothing, StoreMerge, AddLocalMergeEvent, Change, ReadHead, StoreConfig,
           CacheConfig, CutSession, CutStoring, CutRequest, vars
  <2> QED BY <2>1, <2>2
<1>2. CASE ~StoresMerge
  BY <1>1, <1>2, BranchKeeps DEF ParentsFit
<1>3. CASE StoresMerge
  <2>1. /\ Own(head + 1) \in Event /\ stored' = stored \cup {Own(head + 1)} /\ pc = "merge"
    BY <1>3, MergeIs
  <2>2. PICK peers \in PeerParents :
          parents' = [parents EXCEPT ![Own(head + 1)] = status.local \cup peers]
    BY <1>3, MergeIs
  <2>3. parents \in [Event -> SUBSET Event] /\ status.local \subseteq Event
        /\ status.peer \subseteq Event
    BY DEF InductiveInvariant, TypeOK
  <2>4. CASE m # Own(head + 1)
    <3>1. parents'[m] = parents[m] /\ m \in stored \cap LocalMerge
      BY <2>1, <2>2, <2>3, <2>4, Kinds
    <3> QED BY <1>1, <3>1 DEF ParentsFit
  <2>5. CASE m = Own(head + 1)
    <3>1. parents'[m] = status.local \cup peers
      BY <2>1, <2>2, <2>3, <2>5
    <3>2. Chosen < MaxEvents
      BY <1>1, <2>1 DEF RoomSoFar
    <3>3. Chosen \in Nat /\ MaxEvents \in Nat /\ Cardinality(status.peer) \in Nat
      BY <2>3, Sizes, LimitAssumption DEF Chosen
    <3>4. peers \subseteq Event /\ Cardinality(peers) \in Nat
          /\ Cardinality(peers) <= MaxEvents - (Chosen + 1)
      <4>1. peers \subseteq status.peer
        BY DEF PeerParents
      <4>2. Chosen + 1 <= MaxEvents
        BY <3>2, <3>3
      <4>3. Cardinality(peers) = Least(Cardinality(status.peer), MaxEvents - (Chosen + 1))
        BY <4>2 DEF PeerParents, Chosen
      <4>4. peers \subseteq Event /\ Cardinality(peers) \in Nat
        BY <2>3, <4>1, Sizes
      <4> QED BY <3>3, <4>3, <4>4 DEF Least
    <3>5. Cardinality(status.local \cup peers) <= Chosen + Cardinality(peers)
      BY <2>3, <3>4, TwoSets DEF Chosen
    <3>6. Cardinality(status.local \cup peers) \in Nat
      BY <2>3, <3>4, Sizes
    <3> QED BY <3>1, <3>3, <3>4, <3>5, <3>6
  <2> QED BY <2>4, <2>5
<1> QED BY <1>2, <1>3

LEMMA InitialRoom == Init => RoomSoFar /\ ParentsFit
<1> SUFFICES ASSUME Init PROVE RoomSoFar /\ ParentsFit
  OBVIOUS
<1>1. InductiveInvariant
  BY InitialInvariant
<1>2. StorageHead = head
  <2>1. Own(1) \notin stored
    BY DEF Init, Own, Genesis
  <2> QED BY <1>1, <2>1, LimitAssumption DEF InductiveInvariant, HeadSoFar, Init
<1>3. Waiting = 0 /\ pc = "idle"
  <2>1. localChildless \cap Regular = {}
    BY DEF Init
  <2> QED BY <2>1, FS_EmptySet DEF Waiting, Init
<1>4. ParentsFit
  <2>1. stored = {Genesis} /\ parents[Genesis] = {}
    BY OwnEvents, Kinds DEF Init
  <2>2. Cardinality({}) = 0
    BY FS_EmptySet
  <2>3. 0 < MaxEvents
    BY LimitAssumption
  <2> QED BY <2>1, <2>2, <2>3 DEF ParentsFit
<1> QED BY <1>2, <1>3, <1>4 DEF RoomSoFar

(* No merge event has more than maxEvents parents, although what there is  *)
(* room for is decided before the regular events are created and may be    *)
(* more by the time the merge event is made, as long as no session was cut *)
(* off and the configuration events leave room for two parents.            *)
THEOREM ParentsAreBounded == Spec => []ParentsFit
<1>1. InductiveInvariant /\ InductiveInvariant' /\ RoomSoFar /\ ParentsFit /\ [Next]_vars
        => RoomSoFar' /\ ParentsFit'
  BY StepKeepsRoom, StepKeepsFit
<1> QED BY <1>1, InitialRoom, InvariantHolds, PTL DEF Spec
=============================================================================
