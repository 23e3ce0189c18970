------------------------------- MODULE Gossip -------------------------------
(***************************************************************************)
(* How a node gets the events of its peers: the pipeline of the work       *)
(* session (lib/worker/index.js), the gossip cycle with its notifications  *)
(* and peer status (lib/worker/gossip.js, GossipPeer.js,                   *)
(* GossipPeerSelector.js, lib/cache/gossip.js, lib/gossip.js), the answer  *)
(* of the peer (lib/server.js, lib/history.js) and the batch of events     *)
(* that is validated, deferred in part and queued (lib/peerEvents.js).     *)
(*                                                                         *)
(* One node pulls from Peer.  What the peers create and exchange among     *)
(* themselves is given by the history constants; block heights are         *)
(* reached as the events that decide them are stored (BlockExtension).     *)
(***************************************************************************)
EXTENDS Naturals, FiniteSets

CONSTANTS
  Peer,
  Priority,        \* priorityPeers without this node
  MergeEvent, RegularEvent,
  Genesis,         \* the genesis merge event, known to all
  CreatorOf, TreeOf,
  ParentsOf,       \* of a merge event the parents beside its tree parent
  BasisOf,         \* basisBlockHeight of a regular event
  DecidedBy,       \* for each block height the events that decide it
  MaxDepth,        \* gossip.maxDepth
  Permits,         \* mergePermits - 1
  NoPeer,
  MaxFaults        \* bound on cut sessions, peers that crash and calls that fail

Event == MergeEvent \cup RegularEvent
Parents(e) == (IF e \in MergeEvent THEN ParentsOf[e] ELSE {}) \cup {TreeOf[e]}
Regulars(m) == ParentsOf[m] \cap RegularEvent
MergeParents(m) == (ParentsOf[m] \cap MergeEvent) \cup ({TreeOf[m]} \ {Genesis})

ASSUME GossipAssumption ==
  /\ Priority \subseteq Peer /\ NoPeer \notin Peer
  /\ MergeEvent \cap RegularEvent = {} /\ Genesis \notin Event
  /\ CreatorOf \in [MergeEvent -> Peer]
  /\ TreeOf \in [Event -> MergeEvent \cup {Genesis}]
  /\ ParentsOf \in [MergeEvent -> SUBSET Event]
  /\ BasisOf \in [RegularEvent -> 0..Cardinality(DOMAIN DecidedBy)]
  /\ {MaxDepth, Permits, MaxFaults} \subseteq Nat /\ MaxDepth > 0 /\ Permits > 0
\* An event names its parents by their hashes: ancestry has no cycles.
ASSUME AncestryAssumption ==
  /\ IsFiniteSet(MergeEvent) /\ IsFiniteSet(DOMAIN DecidedBy)
  /\ \E rank \in [MergeEvent -> 0..Cardinality(MergeEvent)] :
       \A m \in MergeEvent : \A p \in MergeParents(m) : rank[p] < rank[m]
ASSUME OneMerge ==
  \A r \in RegularEvent : Cardinality({m \in MergeEvent : r \in ParentsOf[m]}) = 1

VARIABLES
  \* peers
  has,             \* merge events of each peer
  toFlag,          \* peers that have merged and not set their flag yet
  flag,            \* peers whose notifyFlag is set
  answering,       \* peers that have taken it down for a request of another node
  \* storage and cache of this node
  known,           \* events in the event queue or in storage
  stored,          \* events in storage
  height,          \* of the last block
  notifications,   \* peers that have sent one
  failed,          \* peers whose status holds no detectedBlockHeight
  \* work session
  pc,
  needsGossip,
  line,            \* peers still to be contacted in this cycle
  first,           \* the notifying peer at the head of the line
  permits,         \* remainingPermits
  peer,            \* the peer of the exchange under way
  batch,           \* events it has supplied
  todo,            \* events of the batch that are not processed yet
  deferring,       \* deferredEvents is not empty
  \* history
  answered,        \* merge events their creator had when it answered somebody
  silent,          \* peers that have lost an announcement and since then neither
                   \* set the flag nor answered
  told,            \* merge events of other than priority peers which these had
                   \* when they notified this node, till they are stored or the
                   \* attempt to get them is over
  faults

peerVars == <<has, toFlag, flag, answering, answered, silent>>
nodeVars == <<known, stored, height>>
statusVars == <<notifications, failed>>
cycleVars == <<needsGossip, line, first, permits>>
batchVars == <<peer, batch, todo, deferring>>
vars == <<peerVars, nodeVars, statusVars, pc, cycleVars, batchVars, told, faults>>

TypeOK ==
  /\ has \in [Peer -> SUBSET MergeEvent]
  /\ toFlag \subseteq Peer /\ flag \subseteq Peer /\ answering \subseteq Peer
  /\ answered \subseteq MergeEvent /\ silent \subseteq Peer
  /\ stored \subseteq known /\ known \subseteq Event
  /\ height \in 0..Cardinality(DOMAIN DecidedBy)
  /\ notifications \subseteq Peer /\ failed \subseteq Peer
  /\ pc \in {"idle", "extend", "cycle", "asked", "refused", "batch", "wait"}
  /\ needsGossip \in BOOLEAN
  /\ line \subseteq Peer /\ first \in line \cup {NoPeer} /\ permits \in 0..Permits
  /\ peer \in Peer \cup {NoPeer} /\ batch \subseteq Event /\ todo \subseteq batch
  /\ deferring \in BOOLEAN
  /\ told \subseteq MergeEvent /\ faults \in 0..MaxFaults
-----------------------------------------------------------------------------
(* History *)

\* The generation of an event is that of its tree parent and one.
Generation[m \in MergeEvent] ==
  IF TreeOf[m] = Genesis THEN 1 ELSE Generation[TreeOf[m]] + 1
Ancestry[m \in MergeEvent] == {m} \cup UNION {Ancestry[p] : p \in MergeParents(m)}
Own(p, events) == {m \in events \cap MergeEvent : CreatorOf[m] = p}
\* The generation of a creator's head among events, 0 for the genesis head.
HeadIn(p, events) ==
  CHOOSE g \in {0} \cup {Generation[m] : m \in Own(p, events)} :
    \A m \in Own(p, events) : Generation[m] <= g
WithRegulars(events) == events \cup UNION {Regulars(m) : m \in events}
HeightIn(events) ==
  Cardinality({h \in DOMAIN DecidedBy :
                 \A k \in DOMAIN DecidedBy : k <= h => DecidedBy[k] \subseteq events})

\* _validateGraph of one merge event: the rules for its tree parent, for its
\* other merge parents and for regular events that are in the batch as well.
ValidTreeParent(m) == TreeOf[m] # Genesis => CreatorOf[TreeOf[m]] = CreatorOf[m]
ValidMergeParents(m) ==
  \A p, q \in ParentsOf[m] \cap MergeEvent :
    CreatorOf[p] # CreatorOf[m] /\ (CreatorOf[p] = CreatorOf[q] => p = q)
ValidRegularParents(m, events) ==
  \A r \in Regulars(m) \cap events : TreeOf[r] = TreeOf[m]
Valid(m, events) ==
  ValidTreeParent(m) /\ ValidMergeParents(m) /\ ValidRegularParents(m, events)
-----------------------------------------------------------------------------
Init ==
  /\ has = [p \in Peer |-> {}] /\ toFlag = {} /\ flag = {}
  /\ answering = {} /\ answered = {} /\ silent = {}
  /\ known = {} /\ stored = {} /\ height = 0
  /\ notifications = {} /\ failed = {}
  /\ pc = "idle" /\ needsGossip = TRUE
  /\ line = {} /\ first = NoPeer /\ permits = 0
  /\ peer = NoPeer /\ batch = {} /\ todo = {} /\ deferring = FALSE
  /\ told = {} /\ faults = 0

NoBatch == peer' = NoPeer /\ batch' = {} /\ todo' = {} /\ deferring' = FALSE

\* What these peers told this node of, and it did not get, is left behind.
LeaveBehind(peers) ==
  told' = {m \in told : m \in known \/ CreatorOf[m] \notin peers}
-----------------------------------------------------------------------------
(* The peers *)

\* A peer merges, or takes over what another peer has merged and somebody has
\* got from it.  It holds to the same rules as this node, with one exception:
\* what it merges itself it does not validate.
Learn(p, m) ==
  /\ m \notin has[p] /\ MergeParents(m) \subseteq has[p]
  /\ \A r \in Regulars(m) : BasisOf[r] <= HeightIn(has[p])
  /\ \/ CreatorOf[m] = p /\ p \notin toFlag /\ toFlag' = toFlag \cup {p}
     \/ /\ CreatorOf[m] # p /\ m \in answered /\ Valid(m, Event)
        /\ toFlag' = toFlag
  /\ has' = [has EXCEPT ![p] = @ \cup {m}]
  /\ UNCHANGED <<flag, answering, answered, silent, nodeVars, statusVars, pc, cycleVars,
                 batchVars, told, faults>>

\* notifyFlag({add: true}) after the merge: it announces what was lost as well.
AddFlag(p) ==
  /\ p \in toFlag
  /\ flag' = flag \cup {p} /\ toFlag' = toFlag \ {p} /\ silent' = silent \ {p}
  /\ UNCHANGED <<has, answering, answered, nodeVars, statusVars, pc, cycleVars, batchVars,
                 told, faults>>

\* The peer's session ends between the merge and the flag.
PeerCrash(p) ==
  /\ p \in toFlag /\ faults < MaxFaults
  /\ toFlag' = toFlag \ {p} /\ silent' = silent \cup {p}
  /\ faults' = faults + 1
  /\ UNCHANGED <<has, flag, answering, answered, nodeVars, statusVars, pc, cycleVars,
                 batchVars, told>>

\* The request of any other node takes the flag down before it is answered.
\* One that finds neither a flag nor anything new changes nothing.
Request(p) ==
  /\ p \notin answering /\ (p \in flag \/ ~(Own(p, has[p]) \subseteq answered))
  /\ flag' = flag \ {p} /\ answering' = answering \cup {p}
  /\ UNCHANGED <<has, toFlag, answered, silent, nodeVars, statusVars, pc, cycleVars,
                 batchVars, told, faults>>
Answers(p) == answered' = answered \cup Own(p, has[p]) /\ silent' = silent \ {p}
Answer(p) ==
  /\ p \in answering
  /\ answering' = answering \ {p} /\ Answers(p)
  /\ UNCHANGED <<has, toFlag, flag, nodeVars, statusVars, pc, cycleVars, batchVars, told,
                 faults>>
AnswerLost(p) ==
  /\ p \in answering /\ faults < MaxFaults
  /\ answering' = answering \ {p} /\ silent' = silent \cup {p}
  /\ faults' = faults + 1
  /\ UNCHANGED <<has, toFlag, flag, answered, nodeVars, statusVars, pc, cycleVars, batchVars,
                 told>>

\* What there is of a notification to pull.
Tells(p) == IF p \in Priority THEN {} ELSE Own(p, has[p]) \ stored

\* In each of its cycles a peer whose flag is set sends notifications, to two
\* of its priority peers at most: this node may get one and may be none of
\* them.  A notification calls resume.
\* Mutant: the flag is taken down once the notification is sent.
AddNotificationOnce(p) ==
  /\ p \in flag
  /\ flag' = flag \ {p}
  /\ notifications' = notifications \cup {p} /\ told' = told \cup Tells(p)
  /\ pc' = IF pc = "wait" THEN "extend" ELSE pc
  /\ UNCHANGED <<has, toFlag, answering, answered, silent, nodeVars, failed, cycleVars,
                 batchVars, faults>>
AddNotification(p) ==
  /\ p \in flag
  /\ notifications' = notifications \cup {p} /\ told' = told \cup Tells(p)
  /\ pc' = IF pc = "wait" THEN "extend" ELSE pc
  /\ UNCHANGED <<peerVars, nodeVars, failed, cycleVars, batchVars, faults>>

\* The answer to a gossip request: a peer that is more than maxDepth ahead
\* gives the ancestry of its last event within that depth, else all it has.
Truncated(p) == HeadIn(p, has[p]) > HeadIn(p, known) + MaxDepth
Partition(p) ==
  WithRegulars(
    IF Truncated(p)
    THEN UNION {Ancestry[m] : m \in
           {n \in Own(p, has[p]) : Generation[n] = HeadIn(p, known) + MaxDepth}}
    ELSE has[p])
-----------------------------------------------------------------------------
(* The work session *)

StartSession ==
  /\ pc = "idle"
  /\ stored' = known /\ told' = told \ known
  /\ needsGossip' = TRUE /\ pc' = "extend"
  /\ UNCHANGED <<peerVars, known, height, statusVars, line, first, permits, batchVars, faults>>

\* halt() at the top of the pipeline.
EndSession ==
  /\ pc = "extend" /\ pc' = "idle"
  /\ UNCHANGED <<peerVars, nodeVars, statusVars, cycleVars, batchVars, told, faults>>

\* extendBlockchain, then getPeers, which pops one notification if there is
\* one.
\* Mutant: the peer that sent it is not added to the priority peers.
LineOfPriority(notified) ==
  /\ line' = Priority /\ first' = NoPeer
  /\ notifications' = notifications \ {notified}
Line(notified) ==
  /\ line' = (Priority \cup {notified}) \ {NoPeer}
  /\ first' = IF notified \in Priority THEN NoPeer ELSE notified
  /\ notifications' = notifications \ {notified}
ExtendAndGetPeers ==
  /\ pc = "extend"
  /\ height' = HeightIn(stored)
  /\ \/ notifications = {} /\ Line(NoPeer)
     \/ \E p \in notifications : Line(p)
  /\ permits' = Permits /\ pc' = "cycle"
  /\ UNCHANGED <<peerVars, known, stored, failed, needsGossip, batchVars, told, faults>>

\* The loop of runGossipCycle takes the next peer off the line.
\* Mutant: the notifying peer stays at the head.
ShiftBehindFirst(p) ==
  /\ pc = "cycle" /\ permits > 0
  /\ p \in line /\ first \in {NoPeer, p}
  /\ line' = line \ {p} /\ first' = first
Shift(p) ==
  /\ pc = "cycle" /\ permits > 0
  /\ p \in line /\ first \in {NoPeer, p}
  /\ line' = line \ {p} /\ first' = NoPeer

\* getStatus reads detectedBlockHeight for the date of the last contact: the
\* backoff is over at once, except after fail(), which writes no such number.
\* Mutant: the rule for priority peers is left out.
IsRecommended(p) == p \notin failed
IsContactedIfRecommended(p) == IsRecommended(p)
IsContacted(p) == (needsGossip /\ p \in Priority) \/ IsRecommended(p)

SkipPeer(p) ==
  /\ Shift(p) /\ ~IsContacted(p) /\ LeaveBehind({p})
  /\ UNCHANGED <<peerVars, nodeVars, statusVars, pc, needsGossip, permits, batchVars, faults>>

\* _validateEvents: one event that breaks a rule refuses the batch.
\* Mutant: regular events are not compared with the tree parent.
IsAcceptableUnrelated(events) ==
  \A m \in events \cap MergeEvent : ValidTreeParent(m) /\ ValidMergeParents(m)
IsAcceptable(events) == \A m \in events \cap MergeEvent : Valid(m, events)

\* gossipWith: the request reaches the peer, which takes its flag down, and of
\* the events it answers with those this node does not know are fetched.
Ask(p) ==
  /\ Shift(p) /\ IsContacted(p)
  /\ flag' = flag \ {p}
  /\ peer' = p /\ pc' = "asked"
  /\ UNCHANGED <<has, toFlag, answering, answered, silent, nodeVars, statusVars, needsGossip,
                 permits, batch, todo, deferring, told, faults>>

Needed(p) == Partition(p) \ known
Exchange ==
  /\ pc = "asked"
  /\ Answers(peer)
  /\ batch' = Needed(peer) /\ todo' = Needed(peer) /\ deferring' = FALSE
  /\ pc' = IF IsAcceptable(Needed(peer)) THEN "batch" ELSE "refused"
  /\ UNCHANGED <<has, toFlag, flag, answering, nodeVars, statusVars, cycleVars, peer, told,
                 faults>>

\* The exchange fails.  A timeout is recorded as a success in the end.
Fails(p) ==
  /\ faults < MaxFaults /\ faults' = faults + 1
  /\ failed' \in {failed \cup {p}, failed \ {p}}
  /\ LeaveBehind({p})
\* The request does not reach the peer.
AskFails(p) ==
  /\ Shift(p) /\ IsContacted(p) /\ Fails(p)
  /\ UNCHANGED <<peerVars, nodeVars, notifications, pc, needsGossip, permits, batchVars>>
\* The answer is lost, or the events are not supplied.
ExchangeFails ==
  /\ pc = "asked" /\ Fails(peer)
  /\ \/ silent' = silent \cup {peer} /\ answered' = answered
     \/ Answers(peer)
  /\ NoBatch /\ pc' = "cycle"
  /\ UNCHANGED <<has, toFlag, flag, answering, nodeVars, notifications, cycleVars>>
-----------------------------------------------------------------------------
(* addBatch *)

\* Success is recorded whatever becomes of the batch.
EndExchange ==
  /\ failed' = failed \ {peer}
  /\ LeaveBehind({peer}) /\ NoBatch
  /\ pc' = "cycle"

RefuseBatch ==
  /\ pc = "refused"
  /\ EndExchange
  /\ UNCHANGED <<peerVars, nodeVars, notifications, cycleVars, faults>>

\* The events come ancestors first, in any such order.
Follows(e) ==
  /\ pc = "batch" /\ e \in todo
  /\ Parents(e) \cap todo = {}
  /\ todo' = todo \ {e}
Queue(e) == known' = known \cup {e}
BatchUnchanged ==
  UNCHANGED <<peerVars, stored, height, statusVars, pc, needsGossip, line, first, peer,
              batch, told, faults>>

\* Mutant: nothing is deferred.
IsDeferredNever(e) == FALSE
IsDeferred(e) == e \in RegularEvent /\ BasisOf[e] > height
Defer(e) ==
  /\ Follows(e) /\ IsDeferred(e)
  /\ deferring' = TRUE
  /\ UNCHANGED <<known, permits>> /\ BatchUnchanged

AddRegular(e) ==
  /\ Follows(e) /\ e \in RegularEvent /\ ~IsDeferred(e)
  /\ Queue(e)
  /\ UNCHANGED <<permits, deferring>> /\ BatchUnchanged

\* Once an event is deferred a merge event with a parent in the batch is
\* passed over, whether or not that parent was.
\* Mutants: it is not; only merge events in the batch count.
IsPassedOverNever(m) == FALSE
IsPassedOverForMerges(m) == deferring /\ MergeParents(m) \cap batch # {}
IsPassedOver(m) == deferring /\ Parents(m) \cap batch # {}
PassOver(m) ==
  /\ Follows(m) /\ m \in MergeEvent /\ IsPassedOver(m)
  /\ UNCHANGED <<known, permits, deferring>> /\ BatchUnchanged
AddMerge(m) ==
  /\ Follows(m) /\ m \in MergeEvent /\ ~IsPassedOver(m)
  /\ Queue(m)
  /\ permits' = IF permits > 0 THEN permits - 1 ELSE 0
  /\ UNCHANGED deferring /\ BatchUnchanged

EndBatch ==
  /\ pc = "batch" /\ todo = {}
  /\ EndExchange
  /\ UNCHANGED <<peerVars, nodeVars, notifications, cycleVars, faults>>
-----------------------------------------------------------------------------
\* After the last peer, or the last permit: the event writer, a merge, which
\* takes a permit as well, and a wait if there was nothing to do.
EndCycle ==
  /\ pc = "cycle" /\ (line = {} \/ permits = 0)
  /\ stored' = known /\ told' = told \ known
  /\ \E merged \in BOOLEAN :
       /\ needsGossip' \in BOOLEAN
       /\ pc' = IF permits = Permits /\ ~merged /\ ~needsGossip' THEN "wait" ELSE "extend"
  /\ line' = {} /\ first' = NoPeer /\ permits' = 0
  /\ UNCHANGED <<peerVars, known, height, statusVars, batchVars, faults>>

\* The node's own notification to a peer fails, as often as it is tried.
NotifyFails(p) ==
  /\ pc = "wait" \/ pc = "extend"
  /\ p \in Priority /\ faults < MaxFaults
  /\ failed' = failed \cup {p} /\ faults' = faults + 1
  /\ UNCHANGED <<peerVars, nodeVars, notifications, pc, cycleVars, batchVars, told>>

\* setTimeout of the cool down period.
CoolDown ==
  /\ pc = "wait" /\ pc' = "extend"
  /\ UNCHANGED <<peerVars, nodeVars, statusVars, cycleVars, batchVars, told, faults>>

\* The session is cut off.  What it has queued stays in redis, and a peer that
\* was asked answers all the same.
CutSession ==
  /\ pc # "idle" /\ faults < MaxFaults
  /\ faults' = faults + 1 /\ pc' = "idle"
  /\ line' = {} /\ first' = NoPeer /\ permits' = 0 /\ NoBatch
  /\ answering' = IF pc = "asked" THEN answering \cup {peer} ELSE answering
  /\ LeaveBehind({first, peer})
  /\ UNCHANGED <<has, toFlag, flag, answered, silent, nodeVars, statusVars, needsGossip>>

\* The status of a peer expires after a day.
ExpireStatus(p) ==
  /\ p \in failed /\ failed' = failed \ {p}
  /\ UNCHANGED <<peerVars, nodeVars, notifications, pc, cycleVars, batchVars, told, faults>>
-----------------------------------------------------------------------------
ProcessBatch ==
  \/ RefuseBatch \/ EndBatch
  \/ \E e \in todo : Defer(e) \/ AddRegular(e)
  \/ \E m \in todo : PassOver(m) \/ AddMerge(m)
Pipeline ==
  \/ StartSession \/ EndSession \/ ExtendAndGetPeers \/ EndCycle \/ CoolDown
  \/ \E p \in Peer : SkipPeer(p) \/ Ask(p) \/ AskFails(p)
  \/ Exchange \/ ExchangeFails
  \/ ProcessBatch
Peers ==
  \E p \in Peer :
    \/ \E m \in MergeEvent : Learn(p, m)
    \/ AddFlag(p) \/ PeerCrash(p) \/ AddNotification(p)
    \/ Request(p) \/ Answer(p) \/ AnswerLost(p)
Next ==
  \/ Pipeline \/ Peers \/ CutSession
  \/ \E p \in Peer : NotifyFails(p) \/ ExpireStatus(p)

\* The scheduler starts sessions again and again, each ends after a minute,
\* and none ends each time before it has begun.  Nothing is assumed of the
\* peers: a peer may never merge, and this node never be notified.
Fairness == WF_vars(Pipeline) /\ SF_vars(EndSession) /\ SF_vars(ExtendAndGetPeers)
Spec == Init /\ [][Next]_vars /\ Fairness
-----------------------------------------------------------------------------
(* Properties *)

\* The history a node queues and stores has no gaps: a merge event comes
\* after its parents, whatever part of a batch is deferred and wherever the
\* session is cut off.
KnownIsClosed ==
  \A m \in known \cap MergeEvent : ParentsOf[m] \cup MergeParents(m) \subseteq known

\* A batch that was accepted is processed to its end: it has no regular event
\* without the merge event that vouches for it ("An unrelated event was
\* detected in the batch", lib/peerEvents.js:58), though earlier batches may
\* have left regular events without theirs.
NoneUnrelated ==
  pc = "batch" =>
    \A r \in batch \cap RegularEvent :
      \E m \in batch \cap MergeEvent : r \in ParentsOf[m]

\* No event is validated against a configuration the node has not reached.
WithinHeight == \A r \in known \cap RegularEvent : BasisOf[r] <= height

\* A merge event that breaks a rule is never queued, and no history built on it.
KnownIsValid == \A m \in known \cap MergeEvent : Valid(m, Event)

\* A peer goes on announcing what it has merged until it has answered
\* somebody who asks ("to indicate that a gossip session has occurred",
\* lib/server.js:61), unless it crashed before it set its flag, or the answer
\* for which it took it down was lost.
StillAnnounced ==
  \A p \in Peer \ silent :
    \/ Own(p, has[p]) \subseteq answered
    \/ p \in toFlag \cup flag \cup answering
    \/ pc = "asked" /\ p = peer

-----------------------------------------------------------------------------
(* What makes the invariants above inductive. *)

\* A peer has the merge events behind those it has.
PeersAreClosed == \A p \in Peer : \A m \in has[p] : MergeParents(m) \subseteq has[p]

\* A regular event without its merge event, which was deferred or passed over,
\* has been compared with it all the same: the next batch has it no more.
KnownRegularsFit ==
  \A r \in known \cap RegularEvent : \A m \in MergeEvent :
    r \in ParentsOf[m] => TreeOf[r] = TreeOf[m]

HeightSoFar == height <= HeightIn(stored)

\* Until an event is deferred all that is processed is queued.
BatchSoFar ==
  pc = "batch" =>
    /\ IsAcceptable(batch)
    /\ \A m \in batch \cap MergeEvent :
         ParentsOf[m] \cup MergeParents(m) \subseteq batch \cup known
    /\ deferring \/ batch \ todo \subseteq known

\* There is a peer while an exchange is under way.
ExchangeSoFar == peer # NoPeer <=> pc \in {"asked", "refused", "batch"}

InductiveInvariant ==
  /\ TypeOK /\ KnownIsClosed /\ NoneUnrelated /\ WithinHeight /\ KnownIsValid
  /\ StillAnnounced
  /\ PeersAreClosed /\ KnownRegularsFit /\ HeightSoFar /\ BatchSoFar /\ ExchangeSoFar
-----------------------------------------------------------------------------
\* Everything a priority peer has gets into storage, however its events were
\* deferred, other peers' batches refused, its exchanges failed and
\* notifications were lost.  (There are finitely many events.)
CatchesUp ==
  \A p \in Priority : []<>(has[p] \subseteq stored)

\* What another peer had merged when it notified this node gets there too:
\* its notification brings all of it, unless the session ends or the exchange
\* fails, is skipped after a failure or leaves some behind, which then waits
\* for the next notification.
NotifiedIsPulled == []<>(told = {})
=============================================================================
