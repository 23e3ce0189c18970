------------------------ MODULE BlockExtension_proofs ------------------------
(***************************************************************************)
(* Proofs about BlockExtension, for every number of heights, every history *)
(* of decided events and every number of crashes: its invariants hold, and *)
(* the stored blocks implement DecidedBlocks.                              *)
(***************************************************************************)
EXTENDS BlockExtension, Induction

-----------------------------------------------------------------------------
(* What is decided for a height is its merge events and regular events of  *)
(* theirs, and no event is decided for two heights.                        *)
LEMMA DecidedOnce ==
  /\ \A h \in Height : /\ Decided[h] \subseteq Event
                       /\ Decided[h] \cap MergeEvent = MergesOf(h)
  /\ \A h, k \in Height : \A e \in Decided[h] \cap Decided[k] : h = k
<1>1. ASSUME NEW h \in Height
      PROVE  Decided[h] = MergesOf(h) \cup UNION {ParentsOf[m] \cap RegularEvent :
                                                    m \in MergesOf(h)}
  BY DEF Decided
<1>2. ASSUME NEW h \in Height
      PROVE  Decided[h] \subseteq Event /\ Decided[h] \cap MergeEvent = MergesOf(h)
  BY <1>1, HistoryAssumption DEF Event, MergesOf
<1>3. ASSUME NEW h \in Height, NEW k \in Height, NEW e \in Decided[h] \cap Decided[k]
      PROVE  h = k
  <2>1. CASE e \in MergeEvent
    BY <2>1, <1>2 DEF MergesOf
  <2>2. CASE e \notin MergeEvent
    <3>1. PICK m \in MergesOf(h) : e \in ParentsOf[m] \cap RegularEvent
      BY <2>2, <1>1 DEF MergesOf
    <3>2. PICK n \in MergesOf(k) : e \in ParentsOf[n] \cap RegularEvent
      BY <2>2, <1>1 DEF MergesOf
    <3>3. m = n
      BY <3>1, <3>2, AncestryAssumption DEF MergesOf
    <3> QED BY <3>3 DEF MergesOf
  <2> QED BY <2>1, <2>2
<1> QED BY <1>2, <1>3

(* DueAfter is what its definition says.                                   *)
LEMMA DueAfterEachBlock ==
  /\ DueAfter \in [0..MaxHeight -> SUBSET Config]
  /\ DueAfter[0] = {}
  /\ \A h \in Height :
       DueAfter[h] = DueAfter[h - 1] \cup EffectiveIn(Decided[h], DueAfter[h - 1])
<1> DEFINE D == SUBSET Config
           step == [h \in 1..MaxHeight |-> [S \in D |-> S \cup EffectiveIn(Decided[h], S)]]
           IsDue(f) == f = [h \in 0..MaxHeight |->
                              IF h = 0 THEN {}
                              ELSE f[h - 1] \cup EffectiveIn(Decided[h], f[h - 1])]
<1>1. step \in [1..MaxHeight -> [D -> D]]
  BY DEF EffectiveIn
<1>2. \A h \in 1..MaxHeight, S \in D : step[h][S] = S \cup EffectiveIn(Decided[h], S)
  OBVIOUS
<1>3. PICK f \in [0..MaxHeight -> D] : IsRecursion(f, MaxHeight, {}, step)
  <2>1. {} \in D /\ MaxHeight \in Nat
    BY HistoryAssumption
  <2> HIDE DEF D, step, IsDue
  <2> QED BY <1>1, <2>1, RecursionExists
<1>4. \A h \in 1..MaxHeight : f[h] = f[h - 1] \cup EffectiveIn(Decided[h], f[h - 1])
  <2> SUFFICES ASSUME NEW h \in 1..MaxHeight
               PROVE  f[h] = f[h - 1] \cup EffectiveIn(Decided[h], f[h - 1])
    OBVIOUS
  <2>1. h - 1 \in 0..MaxHeight
    BY HistoryAssumption
  <2>2. f[h - 1] \in D
    BY <2>1
  <2> HIDE DEF D, step
  <2> QED BY <1>2, <1>3, <2>2 DEF IsRecursion
<1>5. IsDue(f)
  <2>1. \A h \in 0..MaxHeight : h = 0 \/ h \in 1..MaxHeight
    BY HistoryAssumption
  <2>2. \A h \in 0..MaxHeight :
          f[h] = IF h = 0 THEN {} ELSE f[h - 1] \cup EffectiveIn(Decided[h], f[h - 1])
    BY <1>3, <1>4, <2>1, Zenon DEF IsRecursion
  <2>3. f = [h \in 0..MaxHeight |-> f[h]]
    OBVIOUS
  <2> QED BY <2>2, <2>3, Zenon
<1>6. IsDue(DueAfter)
  <2>1. DueAfter = CHOOSE g : IsDue(g)
    BY DEF DueAfter
  <2> HIDE DEF IsDue
  <2> QED BY <1>5, <2>1, Zenon
<1>7. \A h \in 0..MaxHeight :
        DueAfter[h] = IF h = 0 THEN {}
                      ELSE DueAfter[h - 1] \cup EffectiveIn(Decided[h], DueAfter[h - 1])
  BY <1>6
<1>8. DueAfter[0] = {}
  <2>1. 0 \in 0..MaxHeight
    BY HistoryAssumption
  <2> QED BY <1>7, <2>1, Zenon
<1>9. ASSUME NEW h \in Height
      PROVE  DueAfter[h] = DueAfter[h - 1] \cup EffectiveIn(Decided[h], DueAfter[h - 1])
  <2>1. h \in 0..MaxHeight /\ h # 0
    BY HistoryAssumption DEF Height
  <2> QED BY <1>7, <2>1, Zenon
<1>10. DueAfter \in [0..MaxHeight -> SUBSET Config]
  <2>1. \A h \in 0..MaxHeight : DueAfter[h] \in SUBSET Config
    <3> DEFINE S == {h \in 0..MaxHeight : DueAfter[h] \subseteq Config}
    <3>1. 0 \in S
      BY <1>8, HistoryAssumption
    <3>2. ASSUME NEW h \in 0..(MaxHeight - 1), h \in S
          PROVE  h + 1 \in S
      <4>1. h + 1 \in Height /\ h + 1 \in 0..MaxHeight /\ (h + 1) - 1 = h
        BY HistoryAssumption DEF Height
      <4>2. DueAfter[h + 1] = DueAfter[h] \cup EffectiveIn(Decided[h + 1], DueAfter[h])
        BY <1>9, <4>1
      <4>3. DueAfter[h] \subseteq Config
        BY <3>2
      <4>4. DueAfter[h + 1] \subseteq Config
        BY <4>2, <4>3 DEF EffectiveIn
      <4> QED BY <4>1, <4>4
    <3>3. 0..MaxHeight \subseteq S
      <4> HIDE DEF S
      <4>1. MaxHeight \in Nat
        BY HistoryAssumption
      <4> QED BY <3>1, <3>2, <4>1, IntervalInduction
    <3> QED BY <3>3
  <2>2. DueAfter = [h \in 0..MaxHeight |-> DueAfter[h]]
    BY <1>6
  <2> QED BY <2>1, <2>2
<1> QED BY <1>8, <1>9, <1>10

-----------------------------------------------------------------------------
(* The numbers that the invariant speaks of.                               *)
LEMMA Heights ==
  ASSUME InductiveInvariant
  PROVE  /\ MaxHeight \in Nat
         /\ Len(blocks) \in 0..MaxHeight /\ NextHeight = Len(blocks) + 1
         /\ cachedHeight \in Nat
         /\ 1..Len(blocks) \subseteq Height
         /\ \A m \in MergeEvent : HeightOf[m] \in Height
         /\ \A e \in Event : blockOf[e] \in Nat
<1>1. Len(blocks) \in Nat
  BY DEF InductiveInvariant, TypeOK
<1> QED
  BY <1>1, HistoryAssumption DEF InductiveInvariant, TypeOK, NextHeight, Height

(* What consensus.find returns for the next height is what is decided for  *)
(* it, also if an earlier try has marked some of its events already.       *)
LEMMA AncestorsAreDecided ==
  ASSUME InductiveInvariant, NextHeight <= MaxHeight
  PROVE  Ancestors(NextHeight) = Decided[NextHeight]
<1> DEFINE h == NextHeight
<1>1. h \in Height
  BY Heights DEF Height
<1>2. Decided[h] = MergesOf(h) \cup UNION {ParentsOf[m] \cap RegularEvent : m \in MergesOf(h)}
  BY <1>1 DEF Decided
<1>3. \A m \in MergesOf(h) : m \in MergeEvent /\ HeightOf[m] = h /\ ParentsOf[m] \subseteq Event
  BY HistoryAssumption DEF MergesOf
\* An event that a block has is decided for the height of that block.
<1>4. ASSUME NEW e \in Event, blockOf[e] \in 1..Len(blocks)
      PROVE  e \in Decided[blockOf[e]] /\ blockOf[e] \in Height /\ blockOf[e] # h
  BY <1>4, Heights DEF InductiveInvariant, MarkedAsListed, BlocksSoFar
<1>5. ASSUME NEW m \in MergesOf(h), NEW r \in ParentsOf[m] \cap RegularEvent
      PROVE  blockOf[r] \in {0, h}
  <2>1. r \in Decided[h] /\ r \in Event
    BY <1>2 DEF Event
  <2>2. blockOf[r] \notin 1..Len(blocks)
    BY <2>1, <1>1, <1>4, DecidedOnce
  <2>3. blockOf[r] <= h /\ blockOf[r] \in Nat
    BY <2>1, Heights DEF InductiveInvariant, MarkedForNext
  <2> QED BY <2>2, <2>3, Heights
<1>6. ASSUME NEW m \in MergesOf(h), NEW p \in ParentsOf[m] \cap MergeEvent,
             blockOf[p] \in {0, h}
      PROVE  p \in MergesOf(h)
  <2>1. HeightOf[p] <= h /\ HeightOf[p] \in Height
    BY <1>3, AncestryAssumption, HistoryAssumption
  <2>2. HeightOf[p] \notin 1..Len(blocks)
    <3>1. SUFFICES ASSUME HeightOf[p] \in 1..Len(blocks) PROVE FALSE
      OBVIOUS
    <3>2. p \in Decided[HeightOf[p]]
      BY <2>1 DEF Decided, MergesOf
    <3>3. blockOf[p] = HeightOf[p]
      BY <3>1, <3>2 DEF InductiveInvariant, BlocksSoFar, MarkedAsListed
    <3> QED BY <3>1, <3>3, <1>6, Heights
  <2> QED BY <2>1, <2>2, Heights DEF Height, MergesOf
<1>7. Ancestors(h) \subseteq Decided[h]
  <2> SUFFICES ASSUME NEW e \in Ancestors(h), e \notin MergesOf(h)
               PROVE  e \in Decided[h]
    BY <1>2
  <2>1. PICK m \in MergesOf(h) : e \in ParentsOf[m] /\ blockOf[e] \in {0, h}
    BY DEF Ancestors
  <2>2. e \in Event
    BY <1>3, <2>1
  <2>3. CASE e \in RegularEvent
    BY <2>1, <2>3, <1>2
  <2>4. CASE e \in MergeEvent
    BY <2>1, <2>4, <1>6, <1>2
  <2> QED BY <2>2, <2>3, <2>4 DEF Event
<1>8. Decided[h] \subseteq Ancestors(h)
  BY <1>2, <1>5 DEF Ancestors
<1> QED BY <1>7, <1>8

-----------------------------------------------------------------------------
(* The invariant holds at first, and each action preserves it.             *)
LEMMA InitialInvariant == Init => InductiveInvariant
<1> SUFFICES ASSUME Init PROVE InductiveInvariant
  OBVIOUS
<1> USE DEF Init
<1>1. TypeOK
  <2>1. blocks \in Seq(SUBSET Event) /\ Len(blocks) <= MaxHeight
    BY HistoryAssumption
  <2>2. cachedHeight \in 0..MaxHeight /\ crashes \in 0..MaxCrashes
    BY HistoryAssumption
  <2> QED BY <2>1, <2>2 DEF TypeOK
<1>2. Len(blocks) = 0
  OBVIOUS
<1>3. MarkedAsListed /\ HandsOver /\ BlocksSoFar
  BY <1>2 DEF MarkedAsListed, HandsOver, BlocksSoFar
<1>4. PlanIsDecided
  BY DEF PlanIsDecided, Writing, Written
<1>5. MarkedForNext
  BY <1>2 DEF MarkedForNext, NextHeight
<1>6. CacheSoFar
  BY <1>2 DEF CacheSoFar, Writing
<1>7. EffectiveSoFar
  <2>1. effective = DueAfter[Len(blocks)]
    BY <1>2, DueAfterEachBlock, Zenon
  <2> QED BY <2>1 DEF EffectiveSoFar, Written
<1> QED BY <1>1, <1>3, <1>4, <1>5, <1>6, <1>7 DEF InductiveInvariant

LEMMA StoreKeepsInvariant ==
  ASSUME InductiveInvariant, NEW m \in MergeEvent, StoreMergeEvent(m)
  PROVE  InductiveInvariant'
<1> USE DEF StoreMergeEvent, InductiveInvariant, sessionVars, historyVars
<1>1. TypeOK'
  BY HistoryAssumption DEF TypeOK, Event
<1>2. MarkedAsListed' /\ HandsOver' /\ PlanIsDecided' /\ MarkedForNext' /\ EffectiveSoFar'
  BY DEF MarkedAsListed, HandsOver, PlanIsDecided, MarkedForNext, EffectiveSoFar,
         Writing, Written, NextHeight
<1>3. BlocksSoFar'
  BY DEF BlocksSoFar
<1>4. HeightOf[m] > cachedHeight
  <2>1. HeightOf[m] \notin 1..Len(blocks)
    BY DEF BlocksSoFar, MergesOf
  <2>2. HeightOf[m] \in Nat /\ HeightOf[m] >= 1
    BY Heights DEF Height
  <2> QED BY <2>1, <2>2, Heights DEF CacheSoFar
<1>5. CacheSoFar'
  <2>1. stored' \cap MergeEvent = (stored \cap MergeEvent) \cup {m}
    BY HistoryAssumption
  <2> QED BY <1>4, <2>1 DEF CacheSoFar, Writing
<1> QED BY <1>1, <1>2, <1>3, <1>5

LEMMA UpdateStateKeepsInvariant ==
  ASSUME InductiveInvariant, UpdateState
  PROVE  InductiveInvariant'
<1> USE DEF UpdateState, InductiveInvariant, storageVars, historyVars
<1>1. BlocksSoFar' /\ MarkedAsListed' /\ HandsOver' /\ MarkedForNext' /\ EffectiveSoFar'
  BY DEF MarkedAsListed, HandsOver, BlocksSoFar, MarkedForNext, EffectiveSoFar,
         Writing, Written, NextHeight
<1>2. PlanIsDecided'
  BY DEF PlanIsDecided, Writing, Written, NextHeight
<1>3. TypeOK' /\ CacheSoFar'
  <2>1. CASE Len(blocks) = cachedHeight /\ UNCHANGED cacheVars
    BY <2>1 DEF TypeOK, CacheSoFar, Writing, cacheVars
  <2>2. CASE Len(blocks) = cachedHeight + 1
             /\ CommitToCache({m \in MergeEvent : blockOf[m] = Len(blocks)})
    <3>1. Len(blocks) \in 1..Len(blocks) /\ Len(blocks) \in Height
      BY <2>2, Heights
    <3>2. {m \in MergeEvent : blockOf[m] = Len(blocks)} = MergesOf(Len(blocks))
      <4>1. {e \in Event : blockOf[e] = Len(blocks)} = Decided[Len(blocks)]
        BY <3>1 DEF MarkedAsListed, BlocksSoFar
      <4>2. {m \in MergeEvent : blockOf[m] = Len(blocks)}
              = Decided[Len(blocks)] \cap MergeEvent
        BY <4>1 DEF Event
      <4> QED BY <4>2, <3>1, DecidedOnce
    <3>3. outstanding' = {m \in MergeEvent \cap stored' : HeightOf[m] > cachedHeight'}
      BY <2>2, <3>2, Heights DEF CommitToCache, CacheSoFar, MergesOf, Height
    <3>4. cachedHeight' = Len(blocks') /\ Len(blocks') \in 0..MaxHeight
      BY <2>2, Heights DEF CommitToCache
    <3>5. TypeOK'
      BY <2>2, <3>4 DEF TypeOK, CommitToCache
    <3>6. CacheSoFar'
      BY <3>3, <3>4 DEF CacheSoFar
    <3> QED BY <3>5, <3>6
  <2> QED BY <2>1, <2>2
<1> QED BY <1>1, <1>2, <1>3

LEMMA FindKeepsInvariant ==
  ASSUME InductiveInvariant, FindConsensus
  PROVE  InductiveInvariant'
<1> USE DEF FindConsensus, InductiveInvariant, storageVars, cacheVars, historyVars
<1>1. BlocksSoFar' /\ MarkedAsListed' /\ HandsOver' /\ MarkedForNext' /\ EffectiveSoFar'
  BY DEF MarkedAsListed, HandsOver, BlocksSoFar, MarkedForNext, EffectiveSoFar,
         Writing, Written, NextHeight
<1>2. CacheSoFar'
  BY DEF CacheSoFar, Writing
<1>3. NextHeight <= MaxHeight /\ NextHeight \in Height
  BY Heights DEF PlanIsDecided, Height
<1>4. CASE pc' = "found"
  <2>1. plan' = Decided[NextHeight] /\ plan' \subseteq Event
    BY <1>3, <1>4, AncestorsAreDecided, DecidedOnce
  <2>2. MergesOf(NextHeight) \subseteq stored
    BY <1>4 DEF CacheSoFar
  <2>3. PlanIsDecided'
    BY <1>3, <1>4, <2>1, <2>2 DEF PlanIsDecided, Writing, Written, NextHeight, MergesOf
  <2>4. todo = {}
    BY DEF PlanIsDecided, TypeOK
  <2>5. TypeOK'
    BY <1>4, <2>1, <2>4 DEF TypeOK
  <2> QED BY <1>1, <1>2, <2>3, <2>5
<1>5. CASE pc' = "idle"
  <2>1. TypeOK' /\ PlanIsDecided'
    BY <1>5 DEF TypeOK, PlanIsDecided, Writing, Written
  <2> QED BY <1>1, <1>2, <2>1
<1> QED BY <1>4, <1>5

LEMMA BeginWriteKeepsInvariant ==
  ASSUME InductiveInvariant, BeginWrite
  PROVE  InductiveInvariant'
<1> USE DEF BeginWrite, Idle, InductiveInvariant, storageVars, cacheVars, historyVars
<1>1. TypeOK'
  BY DEF TypeOK
<1>2. BlocksSoFar' /\ MarkedAsListed' /\ HandsOver'
  BY DEF MarkedAsListed, HandsOver, BlocksSoFar
<1>3. MarkedForNext'
  BY DEF MarkedForNext, NextHeight
<1>4. CacheSoFar'
  BY DEF CacheSoFar, Writing
<1>5. PlanIsDecided'
  BY DEF PlanIsDecided, Writing, Written, NextHeight, MergesOf
<1>6. EffectiveSoFar'
  BY DEF EffectiveSoFar, Written
<1> QED BY <1>1, <1>2, <1>3, <1>4, <1>5, <1>6

LEMMA UpdateEventKeepsInvariant ==
  ASSUME InductiveInvariant, NEW e \in Event, UpdateEvent(e)
  PROVE  InductiveInvariant'
<1> USE DEF UpdateEvent, InductiveInvariant, cacheVars, historyVars
<1>1. NextHeight \in Height /\ NextHeight \notin 1..Len(blocks)
  BY Heights DEF PlanIsDecided, Writing, Height
<1>2. e \in Decided[NextHeight]
  BY DEF TypeOK, PlanIsDecided, Writing
<1>3. TypeOK'
  BY <1>1 DEF TypeOK
<1>4. \A d \in Event : blockOf'[d] = IF d = e THEN NextHeight ELSE blockOf[d]
  BY DEF TypeOK
<1>5. MarkedAsListed'
  <2>1. blockOf[e] \notin 1..Len(blocks)
    <3> SUFFICES ASSUME blockOf[e] \in 1..Len(blocks) PROVE FALSE
      OBVIOUS
    <3>1. e \in Decided[blockOf[e]] /\ blockOf[e] \in Height
      BY Heights DEF MarkedAsListed, BlocksSoFar
    <3> QED BY <3>1, <1>1, <1>2, DecidedOnce
  <2> QED BY <1>1, <1>4, <2>1 DEF MarkedAsListed
<1>6. MarkedForNext'
  BY <1>2, <1>4, Heights DEF MarkedForNext, NextHeight, TypeOK
<1>7. HandsOver' /\ BlocksSoFar' /\ EffectiveSoFar' /\ CacheSoFar' /\ PlanIsDecided'
  BY DEF HandsOver, BlocksSoFar, EffectiveSoFar, CacheSoFar, PlanIsDecided, NextHeight,
         Writing, Written, MergesOf
<1> QED BY <1>3, <1>5, <1>6, <1>7
LEMMA AddBlockKeepsInvariant ==
  ASSUME InductiveInvariant, AddBlock
  PROVE  InductiveInvariant'
<1> USE DEF AddBlock, InductiveInvariant, cacheVars, historyVars
<1> DEFINE n == Len(blocks)
<1>1. n \in Nat /\ n + 1 <= MaxHeight /\ n + 1 \in Height /\ plan \subseteq Event
  BY Heights DEF PlanIsDecided, Writing, Height, TypeOK
<1>2. /\ blocks' \in Seq(SUBSET Event)
      /\ Len(blocks') = n + 1
      /\ blocks'[n + 1] = plan
      /\ \A h \in 1..n : blocks'[h] = blocks[h]
  BY <1>1 DEF TypeOK
<1>3. plan = Decided[n + 1] /\ MergesOf(n + 1) \subseteq stored
  BY DEF PlanIsDecided, Writing, NextHeight
<1>4. TypeOK'
  BY <1>1, <1>2 DEF TypeOK
<1>5. \A h \in 1..(n + 1) : h = n + 1 \/ h \in 1..n
  BY <1>1
<1>6. BlocksSoFar'
  BY <1>2, <1>3, <1>5 DEF BlocksSoFar, MergesOf
<1>7. {e \in Event : blockOf[e] = n + 1} = plan
  BY <1>1, <1>3 DEF MarkedForNext, NextHeight
<1>8. MarkedAsListed'
  BY <1>2, <1>5, <1>7 DEF MarkedAsListed
<1>9. HandsOver'
  <2> SUFFICES ASSUME ~skipped, NEW h \in 1..(n + 1)
               PROVE  OursIsLatest(DueAfter[h - 1])
    BY <1>2 DEF HandsOver
  <2>1. CASE h = n + 1
    <3>1. OursIsLatest(effective) /\ effective = DueAfter[n]
      BY DEF EffectiveSoFar, Written
    <3>2. h - 1 = n
      BY <2>1, <1>1
    <3> QED BY <3>1, <3>2
  <2>2. CASE h \in 1..n
    BY <2>2 DEF HandsOver
  <2> QED BY <1>5, <2>1, <2>2
<1>10. PlanIsDecided'
  BY <1>1, <1>2, <1>3 DEF PlanIsDecided, Writing, Written
<1>11. MarkedForNext'
  <2>1. \A e \in Event : blockOf[e] \in Nat /\ blockOf[e] <= n + 1
    BY Heights DEF MarkedForNext, NextHeight
  <2> QED BY <1>1, <1>2, <2>1 DEF MarkedForNext, NextHeight
<1>12. CacheSoFar'
  BY <1>1, <1>2, Heights DEF CacheSoFar, Writing
<1>13. EffectiveSoFar'
  <2>1. (n + 1) - 1 = n
    BY <1>1
  <2>2. ~skipped => effective = DueAfter[n]
    BY DEF EffectiveSoFar, Written
  <2> QED BY <1>2, <2>1, <2>2 DEF EffectiveSoFar, Written
<1> QED BY <1>4, <1>6, <1>8, <1>9, <1>10, <1>11, <1>12, <1>13

LEMMA CommitKeepsInvariant ==
  ASSUME InductiveInvariant, CommitBlock
  PROVE  InductiveInvariant'
<1> USE DEF CommitBlock, CommitToCache, InductiveInvariant, storageVars, historyVars
<1>1. BlocksSoFar' /\ MarkedAsListed' /\ HandsOver' /\ PlanIsDecided'
  BY DEF MarkedAsListed, HandsOver, BlocksSoFar, PlanIsDecided, Writing, Written
<1>2. MarkedForNext' /\ EffectiveSoFar'
  BY DEF MarkedForNext, EffectiveSoFar, Written, NextHeight
<1>3. Len(blocks) \in Height /\ plan = Decided[Len(blocks)]
      /\ cachedHeight' = Len(blocks) /\ cachedHeight = Len(blocks) - 1
  BY Heights DEF PlanIsDecided, Written, CacheSoFar, Height
<1>4. plan \cap MergeEvent = MergesOf(Len(blocks))
  BY <1>3, DecidedOnce
<1>5. TypeOK'
  BY <1>3, Heights DEF TypeOK
<1>6. outstanding' = {m \in MergeEvent \cap stored : HeightOf[m] > cachedHeight'}
  BY <1>3, <1>4, Heights DEF CacheSoFar, MergesOf, Height
<1>7. CacheSoFar'
  BY <1>3, <1>6 DEF CacheSoFar, Writing
<1> QED BY <1>1, <1>2, <1>5, <1>7

(* The configuration of the latest block, which is due.                    *)
LEMMA LatestIsDue ==
  ASSUME InductiveInvariant, Written, ~skipped
  PROVE  DueAfter[Len(blocks)]
           = effective \cup EffectiveIn(Decided[Len(blocks)], effective)
<1>1. Len(blocks) \in Height
  BY Heights DEF InductiveInvariant, PlanIsDecided, Height
<1>2. effective = DueAfter[Len(blocks) - 1]
  BY DEF InductiveInvariant, EffectiveSoFar
<1> QED BY <1>1, <1>2, DueAfterEachBlock, Zenon

LEMMA SetEffectiveKeepsInvariant ==
  ASSUME InductiveInvariant, SetEffectiveConfiguration
  PROVE  InductiveInvariant'
<1> USE DEF SetEffectiveConfiguration, Idle, InductiveInvariant, cacheVars, historyVars
<1>1. TypeOK'
  BY DEF TypeOK, EffectiveIn
<1>2. BlocksSoFar' /\ MarkedAsListed' /\ HandsOver'
  BY DEF MarkedAsListed, HandsOver, BlocksSoFar
<1>3. PlanIsDecided' /\ MarkedForNext' /\ CacheSoFar'
  BY DEF PlanIsDecided, MarkedForNext, CacheSoFar, Writing, Written, NextHeight
<1>4. {e \in Event : blockOf[e] = Len(blocks)} = Decided[Len(blocks)]
  <2>1. Len(blocks) \in 1..Len(blocks)
    BY Heights DEF PlanIsDecided, Written
  <2> QED BY <2>1 DEF MarkedAsListed, BlocksSoFar
<1>5. ~skipped => effective' = DueAfter[Len(blocks)]
  BY <1>4, LatestIsDue DEF Written
<1>6. EffectiveSoFar'
  BY <1>5 DEF EffectiveSoFar, Written
<1> QED BY <1>1, <1>2, <1>3, <1>6

LEMMA CrashKeepsInvariant ==
  ASSUME InductiveInvariant, Crash
  PROVE  InductiveInvariant'
<1> USE DEF Crash, Idle, InductiveInvariant, storageVars, cacheVars
<1>1. TypeOK'
  BY HistoryAssumption DEF TypeOK
<1>2. BlocksSoFar' /\ MarkedAsListed'
  BY DEF MarkedAsListed, BlocksSoFar
<1>3. PlanIsDecided' /\ MarkedForNext' /\ CacheSoFar'
  BY DEF PlanIsDecided, MarkedForNext, CacheSoFar, Writing, Written, NextHeight
<1>4. HandsOver'
  BY DEF HandsOver
<1>5. ASSUME ~skipped' PROVE effective = DueAfter[Len(blocks)]
  <2>1. CASE Written
    <3>1. EffectiveIn(Decided[Len(blocks)], effective) = {}
      BY <1>5, <2>1 DEF PlanIsDecided, Written
    <3> QED BY <1>5, <2>1, <3>1, LatestIsDue
  <2>2. CASE ~Written
    BY <1>5, <2>2 DEF EffectiveSoFar
  <2> QED BY <2>1, <2>2
<1>6. EffectiveSoFar'
  BY <1>5 DEF EffectiveSoFar, Written
<1> QED BY <1>1, <1>2, <1>3, <1>4, <1>6

LEMMA StepKeepsInvariant ==
  ASSUME InductiveInvariant, [Next]_vars
  PROVE  InductiveInvariant'
<1>1. CASE UNCHANGED vars
  BY <1>1 DEF vars, storageVars, cacheVars, sessionVars, historyVars,
              InductiveInvariant, TypeOK, MarkedAsListed, HandsOver, BlocksSoFar,
              PlanIsDecided, MarkedForNext, CacheSoFar, EffectiveSoFar,
              Writing, Written, NextHeight, MergesOf
<1>2. CASE \E m \in MergeEvent : StoreMergeEvent(m)
  BY <1>2, StoreKeepsInvariant
<1>3. CASE Extend
  BY <1>3, UpdateStateKeepsInvariant, FindKeepsInvariant, BeginWriteKeepsInvariant,
     UpdateEventKeepsInvariant, AddBlockKeepsInvariant, CommitKeepsInvariant,
     SetEffectiveKeepsInvariant DEF Extend
<1>4. CASE Crash
  BY <1>4, CrashKeepsInvariant
<1> QED BY <1>1, <1>2, <1>3, <1>4 DEF Next

(* All that makes the invariants of block extension hold, holds throughout. *)
THEOREM InvariantHolds == Spec => []InductiveInvariant
BY InitialInvariant, StepKeepsInvariant, PTL DEF Spec

-----------------------------------------------------------------------------
(* Storage, cache and session are what their types say.                    *)
THEOREM TypeCorrect == Spec => []TypeOK
<1>1. InductiveInvariant => TypeOK
  BY DEF InductiveInvariant
<1> QED BY <1>1, InvariantHolds, PTL

(* The mark on an event and the list of a block agree, whatever crash came *)
(* between them (blocks.write, repairCache).                               *)
THEOREM MarksAgree == Spec => []MarkedAsListed
<1>1. InductiveInvariant => MarkedAsListed
  BY DEF InductiveInvariant
<1> QED BY <1>1, InvariantHolds, PTL

(* The cache is never more than one block behind, so that _updateState     *)
(* never throws, and is the history of the blocks to come when it is not.  *)
THEOREM CacheIsRepaired == Spec => []CacheFollows
<1>1. InductiveInvariant => CacheFollows
  BY DEF InductiveInvariant, CacheSoFar, CacheFollows
<1> QED BY <1>1, InvariantHolds, PTL

(* A configuration takes effect behind its block, and no other does, if no *)
(* crash has come between the two (setEffectiveConfiguration).             *)
THEOREM ConfigurationsTakeEffect == Spec => []ConfigurationsInEffect
<1>1. InductiveInvariant => ConfigurationsInEffect
  BY DEF InductiveInvariant, EffectiveSoFar, Written, ConfigurationsInEffect
<1> QED BY <1>1, InvariantHolds, PTL

(* No block follows one that hands over to another consensus method        *)
(* (blocks.write), with the same exception.                                *)
THEOREM HandoverIsFinal == Spec => []HandsOver
<1>1. InductiveInvariant => HandsOver
  BY DEF InductiveInvariant
<1> QED BY <1>1, InvariantHolds, PTL

-----------------------------------------------------------------------------
(* The stored blocks implement DecidedBlocks: each step appends the block  *)
(* that was decided for the next height, or leaves the blocks alone,       *)
(* however often the writing of a block was begun.                         *)
THEOREM ImplementsDecidedBlocks == Spec => BlocksAreDecided
<1>1. Init => Ledger!WriteGenesis
  BY DEF Init, Ledger!WriteGenesis
<1>2. ASSUME InductiveInvariant, [Next]_vars
      PROVE  [Ledger!Write]_blocks
  <2>1. CASE AddBlock
    <3> DEFINE h == Ledger!NextBlockHeight
    <3>1. h \in Height /\ plan = Decided[h]
      BY <1>2, <2>1, Heights
         DEF AddBlock, InductiveInvariant, PlanIsDecided, Writing, NextHeight, Height,
             Ledger!NextBlockHeight
    <3>2. h \in DOMAIN Decided /\ blocks' = Append(blocks, Decided[h])
      BY <2>1, <3>1 DEF AddBlock, Decided
    <3> QED BY <3>2 DEF Ledger!Write
  <2>2. CASE ~AddBlock
    <3>1. UNCHANGED blocks
      BY <1>2, <2>2
         DEF Next, Extend, vars, storageVars, StoreMergeEvent, UpdateState, FindConsensus,
             BeginWrite, UpdateEvent, CommitBlock, SetEffectiveConfiguration, Crash
    <3> QED BY <3>1
  <2> QED BY <2>1, <2>2
<1> QED BY <1>1, <1>2, InvariantHolds, PTL DEF Spec, BlocksAreDecided, Ledger!Spec
=============================================================================
