# Verification of bedrock-ledger-consensus-continuity

TLA+ modules, TLC configurations and TLAPS proofs for the Continuity2017
consensus plugin. The reference is the code under `src/lib/`; every definition
names, in `PROJECT.json` under `map`, the lines it stands for.

- [The system](#the-system): the components, their state, how they interact
- [The modules](#the-modules): what models what, and what is left out of each
- [The runs](#the-runs): questions, bounds, fairness
- [The proofs](#the-proofs)
- [Where code and documentation part](#where-code-and-documentation-part)
- [Not modelled](#not-modelled) and [the plan](#the-plan)

## The system

A ledger node keeps a DAG of *events*. Regular events carry operations;
configuration events carry a ledger configuration; a *merge event* names the
node's own previous merge event (its tree parent) and any number of events of
its own and merge events of other nodes. Nodes gossip events to one another.
For every block height some nodes are *witnesses*; when the merge events of the
witnesses show enough support for a set of the witnesses' first events (`y`), a
node that sees this writes the block of that height.

A node runs a web process or several (requests, submissions, notifications) and
one *work session* per ledger at a time, a bounded pipeline
gossip → write events → merge → extend blockchain. They share MongoDB (storage)
and redis (cache), and each process has a single redis connection.

| component | state | operations | interacts with |
|---|---|---|---|
| consensus algorithm `continuity.js` | none of its own: recent history in, `_c` attributes per event | `findConsensus`: history index, tails, experiments, proposals, order of the block | history, consensus entry |
| witness selection `witnesses.js` | cache of the electors of a height | `getBlockWitnesses` | plugin, blocks |
| operation intake and queue `operations.js`, `cache/operations.js`, `cache/OperationQueue.js` | documents, hash keys, list and selected list in redis; operations in Mongo | `add`, `write`, `hasNextChunk`, `getNextChunk`, `popChunk` | requests, local events |
| local events `events.js`, `worker/merge.js`, `cache/events.js` | head, childless sets, outstanding merge events, local events in Mongo | `create`, `getMergeStatus`, `merge`, cache repair | queue, history, ledger configuration |
| event writer `worker/EventWriter.js` | event queue and documents in redis | `write`: dedupe, `addMany`, one redis transaction | peer batches, local events |
| block extension `worker/blockchain.js`, `blocks.js`, `cache/blocks.js` | latest block in Mongo and redis, consensus flags on events | `extend`, `write`, `repairCache`, `commitBlock` | consensus entry, priming, ledger configuration |
| peer event batches `peerEvents.js` | none; adds to the event queue | validate, defer by height, reject, queue | gossip, event writer |
| gossip and notifications `worker/gossip.js`, `worker/GossipPeer*.js`, `cache/gossip.js`, `gossip.js` | notification sets, peer status (backoff), cursor | select peers, download, `notify` | HTTP interface, peer batches |
| work session `worker/index.js` | promises of the running pipeline, halt flag, pending wake up | loop, cool down, resume on message | all of the pipeline |
| history and priming `history.js`, `cache/history.js`, `cache/prime.js` | cached heads and recent history | `getRecent`, `getHead`, `partition`, `aggregate`, `prime` | local events, consensus entry |
| consensus entry `consensus.js` | none; worker pool | filter the result by storage | continuity, blocks |
| peers `peers.js` | peers and voters in Mongo | create on demand | HTTP interface |
| ledger configuration `ledgerConfiguration.js` | a configuration event | `change` | head, events, merge |

### What is hard about it

*Order and interleaving.* Events reach nodes in any order; experiments are
deferred until what they depend on is done, so their order differs from node to
node. Requests submit operations while the session takes them off the queue;
the only mutual exclusion is the redis transaction, and its WATCH belongs to a
connection that is shared.

*Two stores.* Redis and Mongo are updated one after the other. A call that
rejects or a process that stops in between leaves them apart, and the code
repairs some of these cases at the next session.

*Time.* The session has a deadline it may overrun, the pipeline sleeps and is
woken by messages, peers are backed off, merging is held back by counts and
delays.

*Arithmetic on small numbers.* `f`, `f+1`, `2f+1`, `3f+1`, chunk sizes, heights
and generations that differ by one.

### What makes each component correct

- Consensus: no two nodes decide different sets for one height; what a node
  computes for an event does not depend on what else it has received; a decided
  set has the first events of f+1 witnesses and lies in the decider's ancestry;
  a proposal ends with its rejection only; every call of `findConsensus` ends.
- Operation intake: an operation is in at most one event; an accepted one is
  never forgotten as a duplicate; it gets into an event, and that event is
  merged; all operations of an event have its `basisBlockHeight`.
- Local events: a node never forks its branch; the cached head follows storage
  also through crashes; every stored local event is merged at some time.
- Event writer: an event that is queued is stored once, and after it is stored
  and before it is merged it is childless or outstanding.
- Block extension: heights are consecutive, a height has one block on a node,
  its events are those of the decision also after a crash in the middle; storage
  and cache agree at the start of a session.
- Peer batches: an event is queued only with its ancestors.
- Gossip and session: a peer goes on announcing what it has merged until it has
  answered somebody; a notification that arrives is followed up; what a priority
  peer has gets into storage.

`PROJECT.json` lists the places where each of these could go wrong under
`hazards`, with the properties that cover them so far.

## The modules

| module | models | needs |
|---|---|---|
| `ContinuityQuorum` | thresholds of `continuity.js`, valid numbers of `witnesses.js` | |
| `Continuity` | recent history growing event by event, and what the algorithm computes for each event | `ContinuityQuorum` |
| `Continuity_proofs` | theorems about `Continuity` | `Continuity`, `TLAPS`, `FiniteSetTheorems` |
| `ContinuityRun` | one call of `findConsensus` on one node's view | `Continuity` (extended, and instantiated on the run's own results) |
| `ContinuityRun_proofs` | theorems about `ContinuityRun` | `ContinuityRun`, `Continuity_proofs`, `Induction` |
| `ContinuityPriority` | what a run that finds nothing reports: the priority peers | `ContinuityRun` (extended), `Continuity` (instantiated on the view) |
| `ContinuityPriority_proofs` | theorems about `ContinuityPriority` | `ContinuityPriority`, `ContinuityRun_proofs` |
| `ConsensusOrder` | the order of the events of a block | |
| `LocalOperations` | from `operations.add` to the local regular event | |
| `LocalNode` | event writer, merge step and configuration requests over Mongo and redis, with crashes | `Branch` |
| `Branch` | abstract: a node's branch is appended to and never forks | |
| `BlockExtension` | the steps of `extend` and `blocks.write`, with crashes | `DecidedBlocks` |
| `DecidedBlocks` | abstract: decided blocks, one by one, each once | |
| `Gossip` | session loop, peer selection, exchange, batch of peer events, notifications, with failures | |
| `LocalOperations_proofs`, `LocalNode_proofs`, `BlockExtension_proofs`, `Gossip_proofs` | theorems about these modules | the module, `TLAPS`, `Induction` where numbers are counted |
| `Induction` | lemmas on numbers, intervals and recursive functions | `WellFoundedInduction`, `TLAPS` |
| `MC...` | instances for TLC | |

The components meet in a few places, and there each module takes what the other
one promises: `LocalNode` begins where `LocalOperations` has a chunk on the
queue; `Gossip` ends with the event queue that `LocalNode` writes, and reaches a
block height when the deciding events are stored, which is what `BlockExtension`
shows; what `BlockExtension` writes is a decision of `Continuity`; that merging
waits for priority peers (`LocalNode`) is harmless only if the right ones are
reported (`ContinuityPriority`).

### Continuity

An event is `<<n, g>>`, generation `g` on the branch of `n`; `<<w, 1>>` is the `y`
of witness `w`, and support sets are sets of witnesses. `seen[e]` is a vector of
the most recent ancestor of `e` on every branch; restricted to the witnesses it
is the code's `mostRecentWitnessAncestors`, and because no branch forks it
stands for the whole ancestry, so that there is no recursion to prove about.

| code | definition |
|---|---|
| `supermajority`, `maximumFailures` | `Supermajority`, `MaximumFailures` |
| `_computeMostRecentWitnessAncestors` | `MostRecentAncestors` |
| `_tallySupport`, `_chooseSupport` | `Supporters`, `SetsWith`, `SupportChoices`, `SupportCount` |
| `_findEndorsement`, `_hasEndorsedProposal` | `Endorsers`, `KeptEndorsed` |
| `_experiment` | `MergeWitness` with `KeptProposal`, `Decides`, `NextProposal` |

`MergeWitness` and `MergePeer` are the only actions. Which events a node has
received is left to gossip: it merges any set of events it has not merged yet,
none of them an ancestor of another. Every interleaving of merges by the nodes
is a behaviour, and a node may stop for ever.

Assumed: hashes identify events; witnesses do not fork (the code's fork
detection takes the events of a forking witness out of the experiment, planned
below); the height's history starts with nothing merged. `SupportChoices` is a
set because the code unites the first two entries of a list whose order depends
on hashes and arrival: with four witnesses it always has one member.

### ContinuityRun

The same computation as the code does it: a worklist of branches, events put
back until the events they depend on have support, proposals with an
endorsement event found by walking forward in the view, the flag that marks an
endorsement as used, an early return on a decision. The tally and the choice of
support are those of `Continuity`, instantiated on what this run has computed so
far; everything else is modelled anew. The view is any ancestry-closed part of
the history, as gossip leaves it. The module assumes four witnesses, for which
the choice of support does not depend on an order.

### LocalOperations

| code | action |
|---|---|
| `operations.add`: `cache.operations.exists` | `CheckCache` |
| `operations.add`: storage `exists` | `CheckStorage` |
| `operations.add`: `cache.operations.add` | `Add` |
| `OperationQueue.hasNextChunk`, `getNextChunk`, `popChunk` | `HasNextChunk`, `GetNextChunk`, `PopChunk` |
| `events.create`: `operations.write` | `WriteOperations` |
| `events.create`: `setEventGossip`, `events.add`, `addLocalRegularEvent` | `SetEventGossip`, `StoreEvent`, `AddLocalRegularEvent` |
| a rejection or a crash anywhere in `create` | `Fail` |

Redis is external: a transaction (MULTI ... EXEC) is one step, WATCH belongs to a
connection, and any EXEC or UNWATCH on it ends all of its watches
(`EndsWatches`). `Fail` takes a write started beside the one that rejects as
having ended before. Documents have no expiry, as in the code. Signatures,
validation and the size of operations do not appear: validation is done before
the first step and rejects without a trace.

### ContinuityPriority

| code | definition |
|---|---|
| `_getPriorityPeers`: tails, heads, last seen | `WithHead`, `HeadInView`, `LastSeen` |
| the reasons to merge a head | `IsWorthMerging` |
| the loop over the other heads, with the endorsers found on the way | `Endorses`, `Prioritize` |
| the loop over the witnesses, in the order of their list | `Orders`, `Passes` |
| all witnesses when f or fewer are found | `PriorityPeers` |

`Report` extends a finished run of `ContinuityRun` by the report. The witnesses
are gone through in any order (`Orders`; the two loops of the code have the same).
Endorsers found during one witness's pass stay for the next ones, as the code's
shared sets do. `Outcomes`, in which the property is stated, instantiates
`Continuity` with the node's view as the history: what the next event of a witness
would be.

### ConsensusOrder

| code | definition |
|---|---|
| `_getAncestorHashes`: decided events and their parents, level by level | `TakeDecided`, `SkipVisited`, `Visit` |
| synthesised regular events | `ListedBy` |
| `compareEvents` | `IsBefore` |
| `Array.sort` of V8 (external) | `BeginSort`, `Insert` |
| `_getAncestors` and the filter in `consensus.js` | `FilterOrder` |

Mixed hashes come in any order but for that of the first event, whose buffer is
the base itself (`Buffer.slice` shares memory), so that mixing leaves nothing of
it and it ranks lowest. The sort is V8's for fewer than 64 elements; because the
comparison is no order (see below), its result depends on the algorithm.

### LocalNode

| code | action |
|---|---|
| `EventWriter.write`: read the queue, `addMany`, redis transaction | `ReadQueue`, `StoreBatch`, `UpdateCache` |
| `_validateCache` | `ValidateCache` |
| `getMergeStatus`: transaction; what follows it | `ReadMergeStatus`; `CheckMergeable` |
| `merge.js`: the loop around `events.create` | `CreateRegular`, `CacheRegular`, `CreateNothing` |
| `events.merge`: store; `addLocalMergeEvent` | `StoreMerge`; `AddLocalMergeEvent` |
| `ledgerConfiguration.change` | `ReadHead`, `StoreConfig`, `CacheConfig` |
| a rejection, a halt or a crash | `CutSession`, `CutStoring`, `CutRequest` |

`Submit`, `AddPeerEvent` and `WriteBlock` are the world around. Sessions do not
overlap: the scheduler holds a lock for a session's time plus five seconds.
`create` takes one chunk per event; that a crash loses one is the subject of
`LocalOperations`, so a chunk is taken here when its event is stored.
Regular events of peers are in none of the cached sets; whether storage has one
without consensus, which `hasOutstandingRegularEvents` counts as well, is left open
at each merge step. `torn` is a history variable: what is in storage and will never be in the cached
sets, because the update of the cache was cut off. The database's
`hasOutstandingRegularEvents` is external and taken to count configuration
events, as `test/mocha/090-multinode.js` needs.

### BlockExtension

| code | action |
|---|---|
| `_updateState`, `repairCache` | `UpdateState` |
| `consensus.find` with `_getAncestors` | `FindConsensus` |
| `blocks.write`: check of the configuration, event updates, insertion of the block | `BeginWrite`, `UpdateEvent`, `AddBlock` |
| `cache.blocks.commitBlock` | `CommitBlock` |
| `setEffectiveConfiguration` | `SetEffectiveConfiguration` |
| a crash between any two of them | `Crash` |

What is decided for a height is a constant, and is found when the cached
history holds it. That every session decides the same from the same history is
what `Continuity` and `ContinuityRun` are about.

### Gossip

| code | action |
|---|---|
| `_sync`: start, halt, cool down | `StartSession`, `EndSession`, `CoolDown` |
| `extendBlockchain`, `getPeers` | `ExtendAndGetPeers` |
| `runGossipCycle`, `isRecommended` | `SkipPeer` |
| `gossipWith`: the request, the answer and the events, a failure | `Ask`, `Exchange`, `AskFails`, `ExchangeFails` |
| `server.js` at the peer: `notifyFlag({remove: true})`, the answer | `Ask` and `Request`, `Exchange` and `Answer`, `AnswerLost` |
| `history.partition` at the peer | `Truncated`, `Partition` |
| `_validateGraph`, `_validateEvents` | `Valid`, `IsAcceptable`, `RefuseBatch` |
| `addBatch`: defer, pass over, queue | `Defer`, `PassOver`, `AddRegular`, `AddMerge`, `EndBatch` |
| `EventWriter.write`, `merge`, the wait | `EndCycle` |
| `notifyFlag`, the notification route, `resume` | `AddFlag`, `AddNotification` |
| the node's own `notify` | `NotifyFails` |

One node pulls; the peers' events are constants, which they merge and exchange
in any order the rules allow, except that a peer does not validate what it
merges itself. Five things of the code shape this module:

- A peer has one notify flag for all others. The route takes it down for any
  caller before it answers (`server.js:61-62`), so another node's request ends an
  announcement that this node has not followed: `Request` is such a request, of a
  peer or of a node that is not among them, and a peer takes over only what its
  creator has answered somebody with. A request for heads only, which nothing in
  `lib/` makes, is left out, and so is one that finds neither a flag nor anything
  new, which changes nothing.
- While its flag is set a peer notifies two of its priority peers in each cycle,
  shuffled (`worker/gossip.js:49-75`). This node may be one of them now and then,
  or never: `AddNotification` may happen whenever the flag is set, and nothing
  says that it does. One that is lost is a stuttering step.

- `GossipPeer.fail` hands redis `undefined`, which is stored as a string, and
  the status then reads back without a `detectedBlockHeight`. Such a peer is not
  recommended until its key expires after 24 h (`ExpireStatus`) or it is
  contacted as a priority peer; the backoff itself is never waited for.
- An exchange that fails by a timeout is recorded as a failure by `gossipWith`
  and then as a success by `_gw` (`Fails`).
- The number of permits an exchange may use is not looked at, so a batch may
  overshoot; the remaining number is then 0.

`aggregateHistory` belongs to the storage plugin and is taken to return a
regular event only with the merge event that merges it. Three variables are
history: `answered`, what peers had merged when they last answered somebody;
`silent`, peers that lost an announcement by a crash or a lost answer and have
neither set the flag nor answered since; `told`, what peers that are no priority
peers had merged when they notified this node, till it is stored here, or the
attempt that used the notification up is over without it (`Tells`, `LeaveBehind`).
A session that halts in the middle of a cycle counts as one that is cut off.

## The runs

| run | module, configuration | result |
|---|---|---|
| `merges` | `MCContinuity`, `MCContinuityMerges.cfg` | passes, about 130 000 states |
| `agreement` | `MCContinuity`, `MCContinuityAgreement.cfg` | `Agreement` violated |
| `seven_witnesses` | `MCContinuity`, `MCContinuitySeven.cfg` | `UnionOfStrongSupport` violated |
| `find_consensus` | `MCContinuityRun`, `MCContinuityRun.cfg` | passes, about 4 600 states |
| `consensus_order` | `MCConsensusOrder`, `MCConsensusOrder.cfg` | `OperationsInOrder` violated |
| `local_operations` | `MCLocalOperations`, `MCLocalOperations.cfg` | passes, about 240 000 states |
| `lost_chunk` | `MCLocalOperations`, `MCLocalOperationsLost.cfg` | `NothingLost` violated |
| `shared_connection` | `MCLocalOperations`, `MCLocalOperationsShared.cfg` | `NeverTwice` violated |
| `local_node` | `MCLocalNode`, `MCLocalNode.cfg` | passes, about 600 000 states |
| `config_siblings` | `MCLocalNode`, `MCLocalNodeSiblings.cfg` | `SiblingsOfMerge` violated |
| `block_extension` | `MCBlockExtension`, `MCBlockExtension.cfg` | passes, about 3 100 states |
| `gossip` | `MCGossip`, `MCGossip.cfg` | passes, about 880 000 states |

**Bounds of the consensus runs.** Four witnesses is the least number with a
tolerance (`f = 1`, `f+1 = 2`, `2f+1 = 3`) and the smallest in which two sets can
both have f+1 support. The histories used
here decide at their 13th and 19th merge: a breadth-first search from an empty
history does not get there. `MCContinuity` therefore takes a *script* of merges and then up to `MaxFree`
arbitrary ones, each of at most `MaxParents` events that are at most `MaxLag`
generations behind their branch's head. `merges` starts from nothing (every
first round), from the history of `continuity-test-vectors/figure-1-2.js` two
merges before its decision, and from a history in which the witnesses merge in
pairs and proposals are made, rejected and endorsed; from both of the latter
decisions are reached in the free part. `MaxGeneration` = 6 leaves room for them.
`agreement` continues the pairwise history by six free merges of one event each.
`seven_witnesses` has seven (`f = 2`), the least number with f+2 in one set and f+1
in another. Deadlock is off: a bounded history is complete at some time, and in
the system no node has to merge.

**Bounds of `find_consensus`.** Three complete histories: two with deciding
events, one of them with a node that is no witness, and one in which a proposal
waits for its endorsement; every ancestry-closed view of them and every order of
the worklist and of the list of witnesses. Rejections, endorsements of a
proposal before and after the event that is looked at, and views with no, one
and two deciding events occur.

**Bounds of `consensus_order`.** One witness, four merge events and two regular
events, every order of their hashes: the least history in which a regular event
descends from another one by way of two branches.

**Bounds of `local_operations`.** Three requests for two operations: two of the same
and a third beside, in every combination with two heights; chunks of up to two;
one failure at any step. Deadlock is off: the system rests when all requests are
answered and the queue is empty.

**Bounds of `local_node`.** One peer with two merge events, two local regular
events, one configuration event, two merge events of the node, one cut at any
step. `MaxEvents` = 3 makes peers and local events compete for the parents of a
merge event: half of three, rounded up, is for peers. Two merge events are the
least with which an event can be merged twice, or be made on one head and merged
on the next. `config_siblings` needs no peer and no cut; it has `MaxEvents` = 4.

**Bounds of `block_extension`.** Four heights and four crashes: a configuration
out of sequence, one that takes effect, one that hands over to another method,
and a height that must not follow. Four crashes allow one in each height, or
several in one.

**Bounds of the gossip run.** A priority peer and another peer that merge one
another's events in turn. `MaxDepth` = 1 truncates the answer of either. The first
event of the other peer has operations based on the block that the priority peer's
first event decides, so that they must be deferred; its second one is what
`config_siblings` shows a node to make, and is refused, in a batch that may hold
the priority peer's second event too. `Permits` = 2 is scaled down from at least
nine and is still used up by one batch. One fault: a failing exchange or
notification, a cut session, a lost answer, or a peer that stops before it sets its
flag. A second fault multiplies the states beyond what is run here. One peer that
is no priority peer shows all that the line does with a notification; which of
several is popped is left to redis.

Deadlock is off in these: bounded events run out, and the chain ends when it is
handed over.

**Fairness.** `ContinuityRun`: weak fairness of the run's steps, which are one
synchronous function; nothing is assumed of the nodes that merge.
`LocalOperations`: weak fairness of the worker's steps, because the session
scheduler runs sessions again and again and every session's merge step calls
`create` while the queue is not empty; requests and failures are not fair.
`LocalNode`: weak fairness of the session's steps, for the same reason, and of
a request that has begun; strong fairness of `ReadQueue`, because every cycle calls
the event writer before it merges. Nothing is assumed of the network: a node
that is a priority peer in no cycle at all is among the behaviours.
`BlockExtension`: weak fairness of `extend`; crashes are not fair.
`Gossip`: weak fairness of the pipeline; strong fairness of `EndSession`, since
a session ends after a minute and the writer runs at the start of the next, and
of `ExtendAndGetPeers`, so that not every session is cut at its first step.
Nothing the peers do is fair, neither their merges, flags and answers nor their
notifications, and no fault is.
`Continuity` has no fairness: a run of asynchronous merges need not reach
consensus.

**What the passing properties say.**

- `InductiveInvariant` of a module: what its theorems rest on. That of `Gossip`,
  whose run has most states and temporal properties, and `HistoryInvariant` and
  `RunInvariant` of `ContinuityRun`, which the run's other invariants follow from,
  are proved and in no configuration, nor are `PriorityInvariant` and `NeverStuck`;
  each passes when it is put into that of its run.
- `ProposalsNeedWitnesses`, `SupportInAncestry`, `ProposalHeld`,
  `UnionOfStrongSupport` (four witnesses): see the comments in `Continuity`.
- `ViewIndependence`: for every event a run has tried, support, proposal and
  endorsement are what `Continuity` gave it at its creation. This is what lets
  `Continuity` compute them once.
- `FindsConsensusInView`: a run returns a decision if and only if its view
  holds a deciding event. `RunTerminates`: no event is deferred for ever. Its
  safety part is proved: `NeverStuck` and `RunAdvances`.
- `HelpfulIsPriority`: a witness that would change its support, proposal or
  decision by merging the others' heads, or endorse a proposal, is a priority
  peer, with the two exceptions named there and below.
- `NeverTwice` with a connection for each request, `StaysDetectable`,
  `OneBasis`; `AcceptedIsMerged` while nothing fails.
- `NeverForks`: storage implements `Branch`, through every cut and repair.
  `CacheMatchesStorage`: between two steps of the pipeline the cached sets are
  what priming would compute from storage, but for torn events.
  `RegularsAreSiblings`: a node's regular events are merged on the head they
  were made on. `ParentsFit`: the limit on parents holds without cuts (after
  one, local events left over may exceed it) and while the configuration events
  that wait leave room for two parents (`FewConfigs`; with a smaller limit they
  fill a merge event beside what a cycle has left over). `StoredIsMerged`: a stored local
  event is merged in the end, unless it is torn or the node waits for other
  priority peers for ever, as `getMergeStatus` makes a node do that is none of them
  once its head has regular events and no consensus. An event that `merge.js:58`
  leaves behind, because the loop before has not counted it, is merged in a later
  cycle.
- `BlocksAreDecided`: storage implements `DecidedBlocks`, whatever was half written when
  a session crashed. `MarkedAsListed`, `CacheFollows`: marks on events, blocks
  and cache agree as far as the repair relies on it. `ConfigurationsInEffect`,
  `HandsOver`: unless a crash has come between a block and its configuration.
  `DecidedIsWritten`: also after crashes.
- `KnownIsClosed`, `KnownIsValid`, `WithinHeight`, `NoneUnrelated`: what is
  queued has its ancestors, keeps the rules and can be validated. `StillAnnounced`:
  whoever's requests take the flag down, a peer has announced what it merged
  until it has answered somebody since, unless the announcement was lost
  (`silent`). It does not say that this node is told. `NotifiedIsPulled`: if it is, by a
  peer that is no priority peer, what that peer has merged by then is stored,
  but for what is left behind by the exchange the notification is used up by, or
  all of it when that fails, is cut off or skipped after a failure (`told`). `CatchesUp`: all that a priority peer has
  gets into storage, whatever was deferred, refused or failed.

## The proofs

Every safety invariant of the passing runs is a theorem, for every value of the
constants, and both abstract specifications are shown to be implemented step by
step. Each module
of proofs has the same layout: lemmas about the operators, one lemma per action
(or group of actions that touch the same state) that it preserves
`InductiveInvariant`, `InitialInvariant`, `StepKeepsInvariant`, the theorem
`InvariantHolds`, and the theorems that follow from it. The parts that are added
to the checked invariants to make them inductive stand in the module itself,
under "What makes the invariants above inductive", so that TLC checks them too.

### Continuity

For every finite set of nodes, every valid number of witnesses above three (so
every `f >= 1`) and every bound on the branches:

| theorem | states |
|---|---|
| `InvariantHolds` | `Spec => []InductiveInvariant` |
| `TypeCorrect` | `Spec => []TypeOK` |
| `EnoughWitnesses` | `Spec => []ProposalsNeedWitnesses` |
| `SupportFromAncestry` | `Spec => []SupportInAncestry` |
| `ProposalsAreHeld` | `Spec => []ProposalHeld` |
| `StrongSupportUnites` | `Cardinality(Witness) = 4` implies `Spec => []UnionOfStrongSupport` |

They rest on `WitnessAssumption` and `BoundAssumption` of `Continuity` and nothing
else. The argument:

1. `Thresholds`: `f >= 1`, and the two thresholds are `f+1` and `2f+1`.
2. `InductiveInvariant` adds to the properties what they need to be inductive.
   `WellFormed`: what is not created has no attributes, and an event has seen
   its own branch up to its tree parent. `AncestryClosed`: an event has seen what its
   ancestors have seen, so support taken over from the latest event of a witness
   stays in the ancestry. `SupportsItself`: a witness supports itself or at least
   f+1 others, so a set with 2f+1 supporters has at least f+1 members: either all of
   them are in it, or it is large already. `ProposalsKeepSupport`: a
   proposal is carried with the set it was made for, so what holds of the set
   when it is proposed holds when it is decided.
3. The lemmas follow the computation of a new event: `AncestorVector` and
   `AncestorsSeen` for its ancestry, `SupportChosen` for the three cases of the
   choice of support, `StrongSupport` and `CardinalityGrows` for the counting,
   `NextWitnessEvent` for its attributes, `CreationKeepsHistory` for all other
   events, which a creation leaves alone.
4. `ProposalHeld` and `UnionOfStrongSupport` are not part of the invariant's
   argument. `MergeHoldsProposal` proves that a merge preserves the first.
   The second is false for seven witnesses (`seven_witnesses`), so four are a
   hypothesis: `StrongSetsOfFour` shows that two sets with f+1 supporters each
   have all four witnesses between them, so that neither has a third and no other
   set is left, and the first two list entries are all there are.

### ContinuityRun

For four witnesses (`FourWitnesses`), any finite set of other nodes, any bound on
the branches and any history, which may go on growing during the run:

| theorem | states |
|---|---|
| `RunInvariantHolds` | `RunSpec => [](HistoryInvariant /\ RunInvariant)` |
| `RunTypeCorrect` | `RunSpec => []RunTypeOK` |
| `ViewsAgree` | `RunSpec => []ViewIndependence` |
| `ConsensusFound` | `RunSpec => []FindsConsensusInView` |
| `RunsNeverStick` | `RunSpec => []NeverStuck` |
| `RunsAdvance` | `RunSpec => [][RunAdvances]_runVars` |

`RunSpec` lets steps of `Continuity` and steps of the run interleave; in the
instance, `MCSpec`, the history is complete before the run begins, and every step
of it is a step of `RunSpec` or changes `priority` only. The argument:

1. `HistoryInvariant` says of the history what `Continuity` did one event at a
   time. `SettledFromAncestry`: the attributes of an event are a function of
   those of its ancestors (for the support of strong sets that is
   `UnionOfStrongSupport`, hence four witnesses). `EndorsedOnceReached`: the flag
   `Continuity` hands on from tree parent to child says the same as counting, at
   any event of the branch, who has endorsed by then. The two agree because what
   a branch has seen only grows (`BranchMonotone`, `EndorsersGrow`), which is also why
   the walk of `_findEndorsement`, which accumulates endorsers, finds the first
   generation at which an event has seen 2f+1 of them by itself
   (`EndorsersCollected`, `EndorsementFound`). `StepKeepsHistory` preserves all this.
2. `RunInvariant` says what the run's own variables have to do with it.
   `WorkedInOrder`: a branch is tried from its tail without gaps, so a proposal is
   made before the events that carry it on are tried. `EndorsementsFound`: where a
   proposal is endorsed is known from its making on, and its mark is set by the
   time the event that endorses it is done, and not before (`MarkedInTime`). So
   `_hasEndorsedProposal` is right at every event that has been tried
   (`TriedEndorsed`), the experiment of an event whose ancestors have been tried
   tallies and chooses what the history says (`RunTally`, `RunChoice`,
   `ExperimentAgrees`), and a step keeps `AgreesWithHistory`. One lemma for each way
   a step ends: `SettleKeepsInvariant`, `DecideKeepsInvariant`, `StartKeepsInvariant`,
   `GiveUpKeepsInvariant`, `GrowthKeepsInvariant`.
3. `ConsensusFound` needs that no decision is missed. A run that is done without
   one has tried all events of its view (`NothingForgotten`, `AllTried`), if it began
   at all: the code returns at once unless the view has the tails of 2f+1
   witnesses. A view with a deciding event has them (`DecisionInView`): the event
   counts an endorsed proposal, and the endorsers of that are in the view.
4. `RunsNeverStick` is about the loop that puts events back. An event that is not
   ready waits for one that is in the view, because the view is closed; on that
   one's branch some event is pending, because no branch is forgotten; and what
   is pending there has a smaller past than the event that waits
   (`WaitsForEarlier`). So a pending event with the smallest past is ready. Together
   with `RunsAdvance`, that a step of a run tries one event more or ends it, this
   is why `RunTerminates` holds: only the fairness is left to TLC.

### ContinuityPriority

For four witnesses, like `ContinuityRun`, with any other nodes, any history and any
view of it, and every order of the list of witnesses. `PrioritySpec` lets steps of
`Continuity`, of the run and of the report interleave; every step of `MCSpec` is one
of its steps.

| theorem | states |
|---|---|
| `PriorityInvariantHolds` | `PrioritySpec => [](HistoryInvariant /\ RunInvariant /\ PriorityInvariant)` |
| `HelpfulAreReported` | `PrioritySpec => []HelpfulIsPriority` |
| `PriorityOfOneCorrect` | `PrioritySpec => [](priority # {} => priority \subseteq Witness /\ Cardinality(priority) > F)` |

`HelpfulIsPriority` is not inductive: it speaks of an event that does not exist yet
and says nothing of how the report came about. The argument:

1. `PriorityInvariant` says what a pass of `_getPriorityPeers` over a witness that
   it leaves out has established, one head at a time (`LeftOut`): the witness has seen
   an event of every head's branch with the same support and the same proposal,
   endorsed if the head's is (`NothingNew`), and the heads that descend from its own
   waiting proposal are fewer than 2f+1 (`EndorsingHeads`).
2. `PassesFollow` gives that the recursive function `Passes` satisfies its equation
   (`Induction!RecursionExists`), `PassOfWitness` what one pass does, and
   `ReportedPeers` goes through the passes by induction. A pass adds to the
   endorsers of its own witness's proposal only, so each one starts with what
   `_findEndorsement` collected. No head that endorses is missing from those and the
   ones the pass finds (`EndorsersOfHead`).
3. From there to the whole tally. A next event that merges all heads sees the view,
   one that merges none sees what its tree parent has seen (`AncestorsOfNext`). For
   a witness left out the same witnesses take part in both with the same
   attributes (`NothingToGain`: a proposal endorsed at an event stays so at a later
   one that carries it on), and neither has 2f+1 endorsers of the witness's proposal
   (`NoEndorsement`). So support, decision, proposal and endorsement are the same
   (`SameOutcomes`). Nor would the next event be the first of its witness to descend
   from another's waiting proposal, since such a proposal is no later than the
   last event seen that carries it (`ProposalBefore`, `NoneEndorsed`).
4. `GrowthKeepsReport`: the heads of the view have seen what they have seen, so all
   this stays true while other nodes go on merging.

The proof shows what each clause of the code is for. The last one, that `otherHead`
has a proposal that `witness` can endorse (`continuity.js:1461`), is used nowhere in
it: when the clauses before it have let a head pass, the witness has already merged
an event that carries that proposal.

### LocalOperations

For any operations, heights, requests, connections, chunk sizes and bounds on
failures (`ConnectionAssumption`, `ChunkAssumption`, `BasisAssumption`,
`FailuresAssumption`):

| theorem | states |
|---|---|
| `InvariantHolds`, `TypeCorrect` | `Spec => []InductiveInvariant`, `Spec => []TypeOK` |
| `EventsHaveOneBasis` | `Spec => []OneBasis` |
| `AcceptedStaysDetectable` | `Unshared` implies `Spec => []StaysDetectable` |
| `NothingTwice` | `Unshared` implies `Spec => []NeverTwice` |

`Unshared`, a connection for each request and another for the worker, is a
hypothesis and no assumption of the module, since it is not what the code does:
a process has one connection, and `shared_connection` shows both requests queue
the operation. The theorems say that sharing is all that is wrong.
The invariant: `CallSoFar` (what the worker holds is the head of the queue,
although requests append to it in the meantime), `Found` (what is queued or taken
has its hash key until it is in storage), `OnePlace` (an operation is in the
queue, in the taken chunk or in one event), and `Watches`, the heart of it: between
its two lookups and its transaction, a request's watch is stale or its operation
is still neither queued nor stored.

### LocalNode

For any finite set of peers (`PeerAssumption`, with names that are not those of
the node's own kinds of events) and any limits (`LimitAssumption`):

| theorem | states |
|---|---|
| `InvariantHolds`, `TypeCorrect` | `Spec => []InductiveInvariant`, `Spec => []TypeOK` |
| `SiblingsMerged` | `Spec => []RegularsAreSiblings` |
| `CacheFollowsStorage` | `Spec => []CacheMatchesStorage` |
| `ImplementsBranch` | `Spec => NeverForks`, that is, `LocalNode` implements `Branch` |
| `ParentsAreBounded` | `Spec => []ParentsFit` |

`CacheMatchesStorage` speaks of the states between two steps of the pipeline.
`CacheSoFar` says at every state what the cached sets are: those of storage
without what is `Hidden`, the part of the queue in storage, events just stored,
and a merge event ahead of the cached head. `QueueSoFar` and `HeadSoFar` bound what
can be hidden (a queue left by a writer that was cut off is torn; the cached head
is at most one behind), and `ReferencesSoFar` that nothing in storage refers to
it. So the parents `getMergeStatus` takes from the cache have no child, which is
what `ImplementsBranch` needs: they have not been merged before.
`RoomSoFar` counts, for `ParentsAreBounded`, what a merge step has chosen, has room
for and leaves over; it is proved beside the invariant, on top of it.

### BlockExtension

For any history and any decisions that satisfy `HistoryAssumption` (the types) and
`AncestryAssumption` (a merge event is decided no earlier than its parents; a
regular event belongs to one merge event; each height has merge events):

| theorem | states |
|---|---|
| `InvariantHolds`, `TypeCorrect` | `Spec => []InductiveInvariant`, `Spec => []TypeOK` |
| `MarksAgree` | `Spec => []MarkedAsListed` |
| `CacheIsRepaired` | `Spec => []CacheFollows` |
| `ConfigurationsTakeEffect` | `Spec => []ConfigurationsInEffect` |
| `HandoverIsFinal` | `Spec => []HandsOver` |
| `ImplementsDecidedBlocks` | `Spec => BlocksAreDecided`, that is, `BlockExtension` implements `DecidedBlocks` |

The invariant says what a crash may leave behind: marks of the next height, and of
no later one, on events of its decision only (`MarkedForNext`), so that trying
again plans the same block (`PlanIsDecided`); a cache one block behind
(`CacheSoFar`), which the repair makes up for from the marks; and, until a
crash has skipped one, the configurations due after the stored blocks or, between
a block and its configuration, those before it (`EffectiveSoFar`). `DueAfter` is a
recursive function; `Induction!RecursionExists` gives that it satisfies its
equation.

### Gossip

For any peers, any depth of an answer and any number of permits and faults
(`GossipAssumption`), and any finite history without cycles
(`AncestryAssumption`) in which a regular event is merged by one merge event
(`OneMerge`):

| theorem | states |
|---|---|
| `InvariantHolds`, `TypeCorrect` | `Spec => []InductiveInvariant`, `Spec => []TypeOK` |
| `HistoryHasNoGaps` | `Spec => []KnownIsClosed` |
| `BatchesAreRelated` | `Spec => []NoneUnrelated` |
| `EventsAreWithinHeight` | `Spec => []WithinHeight` |
| `HistoryIsValid` | `Spec => []KnownIsValid` |
| `PeersStayAnnounced` | `Spec => []StillAnnounced` |

An answer is closed but for what the node knows (`PartitionIsClosed`), also when
it is truncated. `AncestryIs` shows that the recursive function `Ancestry` satisfies
its equation, which is what its being well defined for a history without cycles
means; the least sets closed under parents stand in for the induction. `BatchSoFar`
carries that through the batch: until an event is deferred, all that is processed
is queued, and from then on nothing is whose merge event was not.
`KnownRegularsFit` is what makes `KnownIsValid` inductive: a merge event is
compared only with those of its regular events that come in the same batch, and
one that was queued in an earlier batch fits because it was compared there.
`StillAnnounced` is inductive but for `ExchangeSoFar`, which says whose answer is
under way: every step that takes a flag down leaves a request to be answered, and
an answer is taken from what the peer has then.

### Reach of the proofs

Induction as the library states it takes an operator, which none of the provers
instantiates. `Induction` states it of sets (`LeastNumber`,
`IntervalInduction`) and of functions (`RecursionExists`), which is enough for the
recursive functions of these modules.

Model-checked only:

- Liveness (`RunTerminates`, `AcceptedIsMerged`, `StoredIsMerged`,
  `DecidedIsWritten`, `CatchesUp`, `NotifiedIsPulled`), which needs fairness and
  ENABLED, out of the prover's reach. Of `RunTerminates` the safety part is proved.

For more than four witnesses `ViewIndependence` is neither checked nor proved: the
choice of support then depends on an order that the model leaves open, for the
history and for the run alike.

## Where code and documentation part

Each has a run whose counterexample shows it.

- **Two decisions for one height** (`agreement`, `continuity.js:984`). Witness 2
  decides {1, 4} at its third event while witness 1 decides {1, 2, 4} at its
  sixth; all four follow the protocol. f+1 endorsed proposals for one set do not
  keep other witnesses, whose events have not merged those, from gathering f+1
  endorsed proposals for another. A node that has the first event and not the
  second writes a different block from one that has it the other way round.
  `ViewIndependence` and `FindsConsensusInView` justify reading the two events as
  two calls of `findConsensus`.
- **Union of strong sets** (`seven_witnesses`, `continuity.js:1040`). A set is
  listed again for each supporter above f+1, and the union is of the first two
  list entries, which may be one set.
- **A chunk that is not resumed** (`lost_chunk`, `cache/OperationQueue.js:45`). After
  a failure the cached chunk is resumed only by a queue that knows its
  `basisBlockHeight`, and a new queue never does; the next `popChunk` deletes it.
- **Shared watches** (`shared_connection`, `cache/operations.js:50`). Two
  requests in one process queue the same operation twice.
- **A configuration on an old head** (`config_siblings`,
  `ledgerConfiguration.js:63`). The head is read by a request and the event
  stored later; if the session adds a merge event in between, the next one merges
  the configuration event on a head that is not its own, and peers that receive
  both refuse the batch, and with it the branch.
- **Order of operations** (`consensus_order`, `continuity.js:358`). Ancestry is
  looked up through merge events only, so a regular event and an event that
  descends from it by way of another branch are compared by hash: a block can
  have operations before those that their creator had already merged.

Further observations, without a run of their own:

- `operations.js:67` does not await the transaction's result: a request whose
  transaction was dropped, because the same operation was queued in the meantime,
  reports success as well. `StaysDetectable` holds all the same.
- An event whose update of the cache was cut off (`torn`) is never merged:
  `events.js:545-550` asks whether storage should be looked at, and nothing calls
  `primeAll` of `cache/prime.js`.
- A crash between a block and `setEffectiveConfiguration` is not made up for
  (`skipped`): the configuration never takes effect on that node.
- `_getPriorityPeers` does not look at what a witness's own last switch of
  support does to its next tally, nor, because `_findEndorsement` returns early,
  at the endorsement of a proposal that is the head itself.
- The last clause of `_getPriorityPeers` (`continuity.js:1461`) only adds witnesses
  that have endorsed the proposal before, with an event that its proposer has not
  seen; the proofs do not need it (see ContinuityPriority above).
- A peer status written by `fail` does not read back (see `Gossip`).
- An announcement is used up by the request of any one node. What this node then
  leaves behind of a peer that is no priority peer, deferred, truncated or lost
  with a failed exchange, it may not be told of again; it gets it with that
  peer's next merge, or from a priority peer that has merged it. The TODO at
  `GossipPeerSelector.js:29-34` says as much of a peer that is none.

## Not modelled

- Branches that fork. The code takes the events of a forking witness out of the
  experiment; every module here has correct creators, one event per generation.
- Cryptography, canonisation and hashing (sound and collision free), validation
  of operations and schemas, which reject without a trace.
- HTTP transport and routing, the elector plugin, the storage plugin's queries,
  the creation of peers (a unique index decides), genesis, key names, indexes,
  logging and configuration.
- Sessions that overlap because one overran its time by more than the
  scheduler's five seconds.
- The support cache of `continuity.js` between calls: the session's worker gives
  it none that it reuses.

## The plan

Done: `Continuity`, `ContinuityRun`, `Continuity_proofs`, `LocalOperations`;
`LocalNode` with `Branch`; `BlockExtension` with `DecidedBlocks`; `Gossip`, which took in
the peer batches; `ConsensusOrder`; `ContinuityPriority`.

Proved: `Continuity`, `ContinuityRun` and `ContinuityPriority`; `LocalOperations`,
`BlockExtension`, `LocalNode` and `Gossip`, with the abstract specifications they
implement. No safety property of a passing run is left without a theorem.

Left, in the model: forks in `Continuity`, and `ContinuityRun` with more
witnesses.
