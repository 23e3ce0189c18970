--------------------------- MODULE BlockExtension ---------------------------
(***************************************************************************)
(* Extending the blockchain (lib/worker/blockchain.js, lib/blocks.js,      *)
(* lib/cache/blocks.js, lib/consensus.js): events are marked with their    *)
(* block one by one, then the block is stored, then it is committed to the *)
(* cache, then its configuration takes effect, and the session may crash   *)
(* between any two of these.                                               *)
(*                                                                         *)
(* What the consensus algorithm decides for a height is given: merge       *)
(* events by HeightOf.  It is found when the cached history has them all.  *)
(***************************************************************************)
EXTENDS Naturals, Sequences, FiniteSets

CONSTANTS
  MaxHeight,
  MergeEvent, RegularEvent,
  Config,          \* regular events that are configuration events
  HeightOf,        \* the height each merge event is decided for
  ParentsOf,       \* parentHash of each merge event
  SequenceOf,      \* the sequence of each configuration
  OtherMethod,     \* configurations with a consensusMethod that is not ours
  MaxCrashes

Height == 1..MaxHeight
Event == MergeEvent \cup RegularEvent

ASSUME HistoryAssumption ==
  /\ MaxHeight \in Nat /\ MaxCrashes \in Nat
  /\ MergeEvent \cap RegularEvent = {} /\ Config \subseteq RegularEvent
  /\ OtherMethod \subseteq Config
  /\ HeightOf \in [MergeEvent -> Height]
  /\ ParentsOf \in [MergeEvent -> SUBSET Event]
  /\ SequenceOf \in [Config -> Nat]
ASSUME AncestryAssumption ==
  /\ \A m \in MergeEvent : \A p \in ParentsOf[m] \cap MergeEvent :
       HeightOf[p] <= HeightOf[m]
  /\ \A r \in RegularEvent : \E m \in MergeEvent :
       \A n \in MergeEvent : r \in ParentsOf[n] <=> n = m
  /\ \A h \in Height : \E m \in MergeEvent : HeightOf[m] = h

VARIABLES
  \* storage
  stored,          \* events
  blockOf,         \* meta.blockHeight, 0 while meta.consensus is false
  blocks,          \* the events of each block
  effective,       \* configurations with meta.effectiveConfiguration
  \* cache
  outstanding,     \* merge events without consensus
  cachedHeight,
  \* work session
  pc,
  plan,            \* eventHash of the result of _consensus.find
  todo,            \* events of it that are not updated yet
  \* history
  crashes,
  skipped          \* a crash came between a block and its configuration

storageVars == <<stored, blockOf, blocks, effective>>
cacheVars == <<outstanding, cachedHeight>>
sessionVars == <<pc, plan, todo>>
historyVars == <<crashes, skipped>>
vars == <<storageVars, cacheVars, sessionVars, historyVars>>

TypeOK ==
  /\ stored \subseteq Event
  /\ blockOf \in [Event -> Height \cup {0}]
  /\ blocks \in Seq(SUBSET Event) /\ Len(blocks) <= MaxHeight
  /\ effective \subseteq Config
  /\ outstanding \subseteq MergeEvent /\ cachedHeight \in 0..MaxHeight
  /\ pc \in {"idle", "find", "found", "update", "added", "committed"}
  /\ plan \subseteq Event /\ todo \subseteq plan
  /\ crashes \in 0..MaxCrashes /\ skipped \in BOOLEAN

\* getNextBlockInfo
NextHeight == Len(blocks) + 1
MergesOf(h) == {m \in MergeEvent : HeightOf[m] = h}

Init ==
  /\ stored = {} /\ blockOf = [e \in Event |-> 0]
  /\ blocks = <<>> /\ effective = {}
  /\ outstanding = {} /\ cachedHeight = 0
  /\ pc = "idle" /\ plan = {} /\ todo = {}
  /\ crashes = 0 /\ skipped = FALSE

\* Between two runs of extend the event writer stores merge events, with
\* the regular events they merge, and puts them in the cache.
StoreMergeEvent(m) ==
  /\ pc = "idle" /\ m \notin stored
  /\ ParentsOf[m] \cap MergeEvent \subseteq stored
  /\ stored' = stored \cup {m} \cup (ParentsOf[m] \cap RegularEvent)
  /\ outstanding' = outstanding \cup {m}
  /\ UNCHANGED <<blockOf, blocks, effective, cachedHeight, sessionVars, historyVars>>
-----------------------------------------------------------------------------
(* cache/blocks.js: one transaction. *)
CommitToCache(merges) ==
  /\ outstanding' = outstanding \ merges
  /\ cachedHeight' = cachedHeight + 1

\* _updateState: the heights agree, or the last block is committed again,
\* its merge events taken from storage; further apart, it throws.
\* Mutants: no repair; a repair that only counts; a repair each time.
UpdateStateOnly ==
  /\ pc = "idle" /\ NextHeight <= MaxHeight
  /\ Len(blocks) = cachedHeight /\ UNCHANGED cacheVars
  /\ pc' = "find"
  /\ UNCHANGED <<storageVars, plan, todo, historyVars>>
UpdateStateHeight ==
  /\ pc = "idle" /\ NextHeight <= MaxHeight
  /\ \/ Len(blocks) = cachedHeight /\ UNCHANGED cacheVars
     \/ Len(blocks) = cachedHeight + 1 /\ CommitToCache({})
  /\ pc' = "find"
  /\ UNCHANGED <<storageVars, plan, todo, historyVars>>
UpdateStateAlways ==
  /\ pc = "idle" /\ NextHeight <= MaxHeight
  /\ CommitToCache({m \in MergeEvent : blockOf[m] = Len(blocks)})
  /\ pc' = "find"
  /\ UNCHANGED <<storageVars, plan, todo, historyVars>>
UpdateState ==
  /\ pc = "idle" /\ NextHeight <= MaxHeight
  /\ \/ Len(blocks) = cachedHeight /\ UNCHANGED cacheVars
     \/ /\ Len(blocks) = cachedHeight + 1
        /\ CommitToCache({m \in MergeEvent : blockOf[m] = Len(blocks)})
  /\ pc' = "find"
  /\ UNCHANGED <<storageVars, plan, todo, historyVars>>

\* consensus.js, _getAncestors: the merge events, and of their other parents
\* those without consensus and those that an earlier try at this height has
\* already given to it.
\* Mutant: without the latter.
AncestorsWithoutConsensus(h) ==
  MergesOf(h) \cup {e \in UNION {ParentsOf[m] : m \in MergesOf(h)} : blockOf[e] = 0}
Ancestors(h) ==
  MergesOf(h) \cup {e \in UNION {ParentsOf[m] : m \in MergesOf(h)} : blockOf[e] \in {0, h}}

FindConsensus ==
  /\ pc = "find"
  /\ \/ /\ MergesOf(NextHeight) \subseteq outstanding
        /\ plan' = Ancestors(NextHeight)
        /\ pc' = "found"
     \/ /\ ~(MergesOf(NextHeight) \subseteq outstanding)
        /\ pc' = "idle" /\ plan' = plan
  /\ UNCHANGED <<storageVars, cacheVars, todo, historyVars>>
-----------------------------------------------------------------------------
(* blocks.write *)

LatestSequence(configs) ==
  IF configs = {} THEN 0
  ELSE CHOOSE s \in {SequenceOf[c] : c \in configs} :
         \A c \in configs : SequenceOf[c] <= s
OursIsLatest(configs) ==
  \A c \in configs : SequenceOf[c] = LatestSequence(configs) => c \notin OtherMethod

Idle == pc' = "idle" /\ plan' = {} /\ todo' = {}

\* getLatestConfig and the check of its consensusMethod.
\* Mutant: without the check.
BeginWriteUnchecked ==
  /\ pc = "found"
  /\ pc' = "update" /\ todo' = plan /\ plan' = plan
  /\ UNCHANGED <<storageVars, cacheVars, historyVars>>
BeginWrite ==
  /\ pc = "found"
  /\ \/ OursIsLatest(effective) /\ pc' = "update" /\ todo' = plan /\ plan' = plan
     \/ ~OursIsLatest(effective) /\ Idle
  /\ UNCHANGED <<storageVars, cacheVars, historyVars>>

\* storage.events.update of each event, up to 100 of them at a time and in
\* no order.
\* Mutant: with the height of the latest block.
UpdateEventLatest(e) ==
  /\ pc = "update" /\ e \in todo
  /\ blockOf' = [blockOf EXCEPT ![e] = Len(blocks)]
  /\ todo' = todo \ {e}
  /\ UNCHANGED <<stored, blocks, effective, cacheVars, pc, plan, historyVars>>
UpdateEvent(e) ==
  /\ pc = "update" /\ e \in todo
  /\ blockOf' = [blockOf EXCEPT ![e] = NextHeight]
  /\ todo' = todo \ {e}
  /\ UNCHANGED <<stored, blocks, effective, cacheVars, pc, plan, historyVars>>

\* Mutant: the updates are not waited for.
AddBlockAtOnce ==
  /\ pc = "update"
  /\ blocks' = Append(blocks, plan)
  /\ pc' = "added"
  /\ UNCHANGED <<stored, blockOf, effective, cacheVars, plan, todo, historyVars>>
AddBlock ==
  /\ pc = "update" /\ todo = {}
  /\ blocks' = Append(blocks, plan)
  /\ pc' = "added"
  /\ UNCHANGED <<stored, blockOf, effective, cacheVars, plan, todo, historyVars>>

CommitBlock ==
  /\ pc = "added"
  /\ CommitToCache(plan \cap MergeEvent)
  /\ pc' = "committed"
  /\ UNCHANGED <<storageVars, plan, todo, historyVars>>

\* setEffectiveConfiguration marks the configuration of the block that has
\* the sequence after the latest one.  If there is one extend throws, and the
\* session ends; else it goes on with the next height.  Both lead to
\* _updateState.
EffectiveIn(events, configs) ==
  {c \in Config \cap events : SequenceOf[c] = LatestSequence(configs) + 1}
\* Mutant: the sequence of the configuration is not looked at.
SetEffectiveOfAnySequence ==
  /\ pc = "committed"
  /\ effective' = effective \cup {c \in Config : blockOf[c] = Len(blocks)}
  /\ Idle
  /\ UNCHANGED <<stored, blockOf, blocks, cacheVars, historyVars>>
SetEffectiveConfiguration ==
  /\ pc = "committed"
  /\ effective' = effective \cup EffectiveIn({e \in Event : blockOf[e] = Len(blocks)},
                                             effective)
  /\ Idle
  /\ UNCHANGED <<stored, blockOf, blocks, cacheVars, historyVars>>

\* A crash, or a call that rejects.
Crash ==
  /\ pc # "idle" /\ crashes < MaxCrashes
  /\ crashes' = crashes + 1
  /\ skipped' = (skipped \/ /\ pc \in {"added", "committed"}
                            /\ EffectiveIn(plan, effective) # {})
  /\ Idle
  /\ UNCHANGED <<storageVars, cacheVars>>
-----------------------------------------------------------------------------
Extend ==
  \/ UpdateState \/ FindConsensus \/ BeginWrite
  \/ \E e \in Event : UpdateEvent(e)
  \/ AddBlock \/ CommitBlock \/ SetEffectiveConfiguration
Next ==
  \/ \E m \in MergeEvent : StoreMergeEvent(m)
  \/ Extend \/ Crash

\* The scheduler starts session after session, and each begins with extend.
Spec == Init /\ [][Next]_vars /\ WF_vars(Extend)
-----------------------------------------------------------------------------
(* Properties *)

\* What is decided for a height: its merge events and the regular events
\* they merge.
Decided == [h \in Height |->
  MergesOf(h) \cup UNION {ParentsOf[m] \cap RegularEvent : m \in MergesOf(h)}]

\* The stored blocks implement DecidedBlocks: whatever was written when a
\* session crashed, the next one writes the same block, whole and once.
Ledger == INSTANCE DecidedBlocks WITH written <- blocks
BlocksAreDecided == Ledger!Spec

\* An event is marked with the height of a stored block exactly if the block
\* lists it: repairCache and setEffectiveConfiguration read the mark.
MarkedAsListed ==
  \A h \in 1..Len(blocks) : blocks[h] = {e \in Event : blockOf[e] = h}

\* The cache is at the height of storage or one block behind ("this should
\* never happen" of more than one, lib/worker/blockchain.js:88 ff.), and
\* when it is not behind its history is that of the blocks to come.
CacheFollows ==
  /\ Len(blocks) - cachedHeight \in {0, 1}
  /\ Len(blocks) = cachedHeight =>
       outstanding = {m \in MergeEvent \cap stored : HeightOf[m] > Len(blocks)}

\* The configurations that the first h blocks put into effect.
DueAfter[h \in 0..MaxHeight] ==
  IF h = 0 THEN {}
  ELSE DueAfter[h - 1] \cup EffectiveIn(Decided[h], DueAfter[h - 1])

\* Between two runs of extend the configurations in effect are those that the
\* blocks call for, unless a crash came between a block and its configuration:
\* nothing makes up for that.
ConfigurationsInEffect ==
  pc = "idle" /\ ~skipped => effective = DueAfter[Len(blocks)]

\* No block follows one that hands over to another consensus method, with
\* the same exception.
HandsOver ==
  ~skipped => \A h \in 1..Len(blocks) : OursIsLatest(DueAfter[h - 1])

-----------------------------------------------------------------------------
(* What makes the invariants above inductive.                              *)

\* The stored blocks are those decided, of merge events that were stored.
BlocksSoFar ==
  \A h \in 1..Len(blocks) : blocks[h] = Decided[h] /\ MergesOf(h) \subseteq stored

\* What the session holds at each of its steps.
Writing == pc \in {"found", "update"}
Written == pc \in {"added", "committed"}
PlanIsDecided ==
  /\ pc \in {"idle", "find"} => plan = {}
  /\ Writing => plan = Decided[NextHeight] /\ MergesOf(NextHeight) \subseteq stored
  /\ Written => Len(blocks) > 0 /\ plan = Decided[Len(blocks)]
  /\ pc = "find" \/ Writing => NextHeight <= MaxHeight

\* Marks beyond the stored blocks were left by writing the next one.
MarkedForNext ==
  /\ \A e \in Event :
       /\ blockOf[e] <= NextHeight
       /\ blockOf[e] = NextHeight => e \in Decided[NextHeight]
  /\ pc = "update" => \A e \in plan \ todo : blockOf[e] = NextHeight

\* The cache is behind between a block and its commit or its repair, and
\* is a history of its own height also then.
CacheSoFar ==
  /\ Len(blocks) - cachedHeight \in {0, 1}
  /\ pc = "find" \/ Writing \/ pc = "committed" => cachedHeight = Len(blocks)
  /\ pc = "added" => cachedHeight = Len(blocks) - 1
  /\ outstanding = {m \in MergeEvent \cap stored : HeightOf[m] > cachedHeight}

\* The configuration of a block takes effect behind it.
EffectiveSoFar ==
  ~skipped =>
    /\ effective = IF Written THEN DueAfter[Len(blocks) - 1] ELSE DueAfter[Len(blocks)]
    /\ pc = "update" => OursIsLatest(effective)

InductiveInvariant ==
  /\ TypeOK
  /\ MarkedAsListed /\ HandsOver
  /\ BlocksSoFar /\ PlanIsDecided /\ MarkedForNext /\ CacheSoFar /\ EffectiveSoFar
-----------------------------------------------------------------------------
\* A decision is written as a block sooner or later, however often (within
\* the bound) the session crashes.
DecidedIsWritten ==
  \A h \in Height :
    MergesOf(h) \subseteq stored /\ Len(blocks) = h - 1 /\ OursIsLatest(DueAfter[h - 1])
      ~> (Len(blocks) >= h /\ cachedHeight >= h)
=============================================================================
