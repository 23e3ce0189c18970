------------------------------ MODULE LocalNode ------------------------------
(***************************************************************************)
(* A node's own branch over its two stores: the merge step of a work       *)
(* session (lib/worker/merge.js, lib/events.js), the event writer          *)
(* (lib/worker/EventWriter.js), configuration events made by requests      *)
(* (lib/ledgerConfiguration.js) and what they leave in redis               *)
(* (lib/cache/events.js).  Storage (Mongo) and cache (redis) are written   *)
(* one after the other; a session or a request may be cut off in between.  *)
(*                                                                         *)
(* An event is <<owner, n>>: a merge event of this node ("m", generation   *)
(* n), a regular event ("r"), a configuration event ("c") or a merge event *)
(* of a peer.  Regular events of peers are in none of the sets; whether    *)
(* storage has one without consensus is left open at each merge step.      *)
(***************************************************************************)
EXTENDS Naturals, Sequences, FiniteSets

CONSTANTS
  Peer,
  MaxEvents,       \* continuityConstants.mergeEvents.maxEvents
  MaxMerges, MaxRegular, MaxConfigs, MaxPeerEvents,  \* bounds on the events
  MaxCuts          \* bound on the sessions and requests that are cut off

ASSUME PeerAssumption == IsFiniteSet(Peer) /\ Peer \cap {"m", "r", "c"} = {}
ASSUME LimitAssumption ==
  /\ MaxEvents \in Nat /\ MaxEvents >= 2
  /\ {MaxMerges, MaxRegular, MaxConfigs, MaxPeerEvents, MaxCuts} \subseteq Nat

LocalMerge == {"m"} \X (0..MaxMerges)
Regular == {"r"} \X (1..MaxRegular)
Config == {"c"} \X (1..MaxConfigs)
PeerMerge == Peer \X (1..MaxPeerEvents)
Event == LocalMerge \cup Regular \cup Config \cup PeerMerge
Genesis == <<"m", 0>>
Own(g) == <<"m", g>>
Generation(e) == e[2]

VARIABLES
  \* storage
  stored,          \* events
  tree,            \* treeHash of an event
  parents,         \* its other parents
  consensus,       \* events whose meta.consensus is set
  \* cache
  head,            \* generation of the cached head of the own branch
  childless, localChildless,
  outstanding,     \* merge events for the consensus algorithm
  queue,           \* peer merge events to be written
  chunks,          \* chunks of operations on the operation queue
  \* work session
  pc,
  batch,           \* the part of the queue the writer has read
  dups,            \* events of the batch that storage had already
  status,          \* peer and local hashes of getMergeStatus
  room,            \* maxRegularEvents
  regularEvents,
  unprivileged,    \* there are priority peers and this node is none of them
  \* requests for a change of the configuration
  request,
  \* history
  cuts,
  torn             \* events stored whose update of the cache was cut off

storageVars == <<stored, tree, parents, consensus>>
mergeVars == <<childless, localChildless, outstanding, head>>
writerVars == <<batch, dups>>
loopVars == <<status, room, regularEvents, unprivileged>>
historyVars == <<cuts, torn>>
vars == <<storageVars, mergeVars, queue, chunks, pc, writerVars, loopVars, request,
          historyVars>>

SetOf(s) == {s[i] : i \in 1..Len(s)}
Least(m, n) == IF m <= n THEN m ELSE n
Minus(m, n) == IF m <= n THEN 0 ELSE m - n
NoStatus == [peer |-> {}, local |-> {}]

StorageHead == CHOOSE g \in 0..MaxMerges :
  /\ Own(g) \in stored
  /\ \A h \in 0..MaxMerges : Own(h) \in stored => h <= g
Merged == UNION {parents[e] : e \in stored \cap LocalMerge}
Merges(e) == parents[e] \cup {tree[e]}
HasChild(e) == \E c \in stored : e \in Merges(c)

TypeOK ==
  /\ stored \subseteq Event /\ consensus \subseteq stored
  /\ tree \in [Event -> Event] /\ parents \in [Event -> SUBSET Event]
  /\ head \in 0..MaxMerges
  /\ childless \subseteq Event /\ localChildless \subseteq Event
  /\ outstanding \subseteq LocalMerge \cup PeerMerge
  /\ queue \in Seq(PeerMerge) /\ batch \in Seq(PeerMerge)
  /\ dups \subseteq PeerMerge
  /\ chunks \in 0..MaxRegular
  /\ pc \in {"idle", "read", "written", "valid", "status", "create", "created",
             "lastCreated", "merge", "merged"}
  /\ status \in [peer : SUBSET Event, local : SUBSET Event]
  /\ room \in 0..MaxEvents /\ regularEvents \in Nat
  /\ unprivileged \in BOOLEAN
  /\ request \in [Config -> {"new", "read", "stored", "done"}]
  /\ cuts \in 0..MaxCuts /\ torn \subseteq Event
-----------------------------------------------------------------------------
Init ==
  /\ stored = {Genesis} /\ consensus = {Genesis}
  /\ tree = [e \in Event |-> Genesis]
  /\ parents = [e \in Event |-> {}]
  /\ head = 0
  /\ childless = {} /\ localChildless = {} /\ outstanding = {}
  /\ queue = <<>> /\ chunks = 0
  /\ pc = "idle" /\ batch = <<>> /\ dups = {}
  /\ status = NoStatus /\ room = 0 /\ regularEvents = 0 /\ unprivileged = FALSE
  /\ request = [c \in Config |-> "new"]
  /\ cuts = 0 /\ torn = {}

\* Every way in which the session gets back to the top of its pipeline.
Idle ==
  /\ pc' = "idle"
  /\ batch' = <<>> /\ dups' = {}
  /\ status' = NoStatus /\ room' = 0 /\ regularEvents' = 0
  /\ unprivileged' = FALSE
-----------------------------------------------------------------------------
(* The world outside: operations and peer events come in, blocks go out. *)

Submit ==
  /\ chunks + Cardinality(stored \cap Regular) < MaxRegular
  /\ chunks' = chunks + 1
  /\ UNCHANGED <<storageVars, mergeVars, queue, pc, writerVars, loopVars, request,
                 historyVars>>

\* addPeerEvent, after peerEvents.addBatch has found the parents.
Known == stored \cup SetOf(queue)
AddPeerEvent(p) ==
  LET n == 1 + Cardinality({e \in Known : e[1] = p})
      last == IF n = 1 THEN Genesis ELSE <<p, n - 1>>
  IN /\ n <= MaxPeerEvents
     /\ pc = "idle"
     /\ \E others \in SUBSET {e \in Known \cap (LocalMerge \cup PeerMerge) :
                                e[1] # p /\ e # Genesis} :
          /\ \A e, f \in others : e[1] = f[1] => e = f
          /\ parents' = [parents EXCEPT ![<<p, n>>] = others]
     /\ tree' = [tree EXCEPT ![<<p, n>>] = last]
     /\ queue' = Append(queue, <<p, n>>)
  /\ UNCHANGED <<stored, consensus, mergeVars, chunks, pc, writerVars, loopVars,
                 request, historyVars>>

\* A block takes outstanding merge events, ancestors first, and the events
\* beside them; those it takes have descendants.
WriteBlock(e) ==
  /\ pc = "idle"
  /\ e \in outstanding \cap stored
  /\ Merges(e) \cap outstanding = {} /\ HasChild(e)
  /\ consensus' = consensus \cup {e} \cup (parents[e] \cap (Regular \cup Config))
  /\ outstanding' = outstanding \ {e}
  /\ UNCHANGED <<stored, tree, parents, childless, localChildless, head, queue,
                 chunks, pc, writerVars, loopVars, request, historyVars>>
-----------------------------------------------------------------------------
(* The event writer. *)

ReadQueue ==
  /\ pc = "idle" /\ queue # <<>>
  /\ batch' = queue /\ pc' = "read"
  /\ UNCHANGED <<storageVars, mergeVars, queue, chunks, dups, loopVars, request,
                 historyVars>>

\* storage.events.addMany skips events that storage has and reports them.
\* Mutant: it does not report them.
StoreBatchUnreported ==
  /\ pc = "read"
  /\ dups' = {}
  /\ stored' = stored \cup SetOf(batch)
  /\ pc' = "written"
  /\ UNCHANGED <<tree, parents, consensus, mergeVars, queue, chunks, batch, loopVars,
                 request, historyVars>>
StoreBatch ==
  /\ pc = "read"
  /\ dups' = SetOf(batch) \cap stored
  /\ stored' = stored \cup SetOf(batch)
  /\ pc' = "written"
  /\ UNCHANGED <<tree, parents, consensus, mergeVars, queue, chunks, batch, loopVars,
                 request, historyVars>>

\* Mutant: the treeHash is taken for no parent.
BatchParentsOfOthers == UNION {parents[e] : e \in SetOf(batch)}
BatchParents == UNION {Merges(e) : e \in SetOf(batch)}
LastOfCreator(e) ==
  \A f \in SetOf(batch) : f[1] = e[1] => Generation(f) <= Generation(e)
NewHeads == {e \in SetOf(batch) : LastOfCreator(e)} \ (BatchParents \cup dups)

UpdateCache ==
  /\ pc = "written"
  /\ queue' = SubSeq(queue, Len(batch) + 1, Len(queue))
  /\ childless' = (childless \cup NewHeads) \ BatchParents
  /\ outstanding' = outstanding \cup (SetOf(batch) \ dups)
  /\ Idle
  /\ UNCHANGED <<storageVars, localChildless, head, chunks, request, historyVars>>
-----------------------------------------------------------------------------
(* The merge step. *)

\* What addLocalMergeEvent does to the cache, in one transaction.
\* Mutant: events of peers are left in the set of childless events.
CacheLocalMergeOwnOnly(g) ==
  /\ childless' = childless \ (parents[Own(g)] \cap localChildless)
  /\ localChildless' = localChildless \ parents[Own(g)]
  /\ outstanding' = outstanding \cup {Own(g)}
  /\ head' = g
CacheLocalMerge(g) ==
  /\ childless' = childless \ parents[Own(g)]
  /\ localChildless' = localChildless \ parents[Own(g)]
  /\ outstanding' = outstanding \cup {Own(g)}
  /\ head' = g

\* _validateCache: with the heads one apart the update that was cut off is
\* done again; further apart, it throws.
ValidateCache ==
  /\ pc = "idle"
  /\ pc' = "valid"
  /\ \/ head = StorageHead /\ UNCHANGED mergeVars
     \/ StorageHead = head + 1 /\ CacheLocalMerge(StorageHead)
  /\ UNCHANGED <<storageVars, queue, chunks, writerVars, loopVars, request,
                 historyVars>>

\* getMergeStatus, the transaction; who the priority peers are is what
\* extendBlockchain has found in this cycle.
ReadMergeStatus(others) ==
  /\ pc = "valid"
  /\ status' = [peer |-> childless \ localChildless, local |-> localChildless]
  /\ unprivileged' = others
  /\ pc' = "status"
  /\ UNCHANGED <<storageVars, mergeVars, queue, chunks, writerVars, room,
                 regularEvents, request, historyVars>>

\* The storage plugin's hasOutstandingRegularEvents is taken to count
\* configuration events: test/mocha/090-multinode.js adds one and nothing
\* else, and it reaches consensus.  It counts the regular events of peers,
\* which may be stored before the merge event that has them as parents.
HasOutstandingOperations(ofPeers) ==
  chunks > 0 \/ ofPeers \/ \E e \in stored \cap (Regular \cup Config) : e \notin consensus

\* What the node has made and peers have had no time to answer: it waits for
\* merge events of priority peers before it merges any more of its own.
HeadIsAnswered ==
  \/ StorageHead = 0
  \/ Own(StorageHead) \in consensus
  \/ parents[Own(StorageHead)] \cap Regular = {}

\* The branches of getMergeStatus behind the transaction.
\* Mutant: only chunks count as local events to merge.
MayMergeChunks(ofPeers) ==
  /\ HasOutstandingOperations(ofPeers)
  /\ status.peer = {} /\ unprivileged => chunks > 0 /\ HeadIsAnswered
MayMerge(ofPeers) ==
  /\ HasOutstandingOperations(ofPeers)
  /\ status.peer = {} /\ unprivileged =>
       (status.local # {} \/ chunks > 0) /\ HeadIsAnswered

\* Half of the parents, rounded up, for peers, and one for the treeHash.
\* Mutant: the local events there are already are not subtracted.
RoomForAll ==
  Minus(MaxEvents, Least((MaxEvents + 1) \div 2, Cardinality(status.peer)) + 1)
RoomForRegular ==
  LET peers == Least((MaxEvents + 1) \div 2, Cardinality(status.peer))
  IN Minus(MaxEvents, peers + 1 + Cardinality(status.local))

CheckMergeable ==
  /\ pc = "status"
  /\ \E ofPeers \in BOOLEAN :
       \/ /\ MayMerge(ofPeers)
          /\ room' = RoomForRegular
          /\ regularEvents' = Cardinality(status.local)
          /\ pc' = "create"
          /\ UNCHANGED <<writerVars, status, unprivileged>>
       \/ ~MayMerge(ofPeers) /\ Idle
  /\ UNCHANGED <<storageVars, mergeVars, queue, chunks, request, historyVars>>

\* events.create up to and with storage.events.add, on the cached head; it
\* knows here whether the queue has more.
\* Mutant: the loop runs once more than there is room.
CreateRegularAtLimit ==
  LET r == <<"r", 1 + Cardinality(stored \cap Regular)>>
  IN /\ pc = "create" /\ chunks > 0
     /\ stored' = stored \cup {r}
     /\ tree' = [tree EXCEPT ![r] = Own(head)]
     /\ chunks' = chunks - 1
     /\ pc' = IF chunks > 1 THEN "created" ELSE "lastCreated"
  /\ UNCHANGED <<parents, consensus, mergeVars, queue, writerVars, loopVars, request,
                 historyVars>>
CreateRegular ==
  LET r == <<"r", 1 + Cardinality(stored \cap Regular)>>
  IN /\ pc = "create" /\ room > 0 /\ chunks > 0
     /\ stored' = stored \cup {r}
     /\ tree' = [tree EXCEPT ![r] = Own(head)]
     /\ chunks' = chunks - 1
     /\ pc' = IF chunks > 1 THEN "created" ELSE "lastCreated"
  /\ UNCHANGED <<parents, consensus, mergeVars, queue, writerVars, loopVars, request,
                 historyVars>>

\* addLocalRegularEvent, and the rest of the loop in merge.js: the event
\* joins the hashes to merge; the last one is not counted.
\* Mutant: it does not join them.
CacheRegularUnmerged ==
  LET r == <<"r", Cardinality(stored \cap Regular)>>
  IN /\ pc \in {"created", "lastCreated"}
     /\ childless' = childless \cup {r}
     /\ localChildless' = localChildless \cup {r}
     /\ \/ /\ pc = "created"
           /\ room' = room - 1 /\ regularEvents' = regularEvents + 1
           /\ pc' = "create"
        \/ /\ pc = "lastCreated"
           /\ pc' = "merge"
           /\ UNCHANGED <<room, regularEvents>>
  /\ UNCHANGED <<storageVars, outstanding, head, queue, chunks, writerVars, status,
                 unprivileged, request, historyVars>>
CacheRegular ==
  LET r == <<"r", Cardinality(stored \cap Regular)>>
  IN /\ pc \in {"created", "lastCreated"}
     /\ childless' = childless \cup {r}
     /\ localChildless' = localChildless \cup {r}
     /\ status' = [status EXCEPT !.local = @ \cup {r}]
     /\ \/ /\ pc = "created"
           /\ room' = room - 1 /\ regularEvents' = regularEvents + 1
           /\ pc' = "create"
        \/ /\ pc = "lastCreated"
           /\ pc' = "merge"
           /\ UNCHANGED <<room, regularEvents>>
  /\ UNCHANGED <<storageVars, outstanding, head, queue, chunks, writerVars, unprivileged,
                 request, historyVars>>

CreateNothing ==
  /\ pc = "create" /\ (room = 0 \/ chunks = 0)
  /\ pc' = "merge"
  /\ UNCHANGED <<storageVars, mergeVars, queue, chunks, writerVars, loopVars, request,
                 historyVars>>

\* slice(0, remaining) of the peer hashes: a negative number drops that
\* many from the end.
PeerParents ==
  LET used == Cardinality(status.local) + 1
      count == Cardinality(status.peer)
      taken == IF used <= MaxEvents THEN Least(count, MaxEvents - used)
               ELSE Minus(count, used - MaxEvents)
  IN {s \in SUBSET status.peer : Cardinality(s) = taken}

\* events.merge up to and with storage.events.add, whose unique index
\* refuses a second event of one generation.
StoreMerge ==
  /\ pc = "merge"
  /\ \/ /\ regularEvents > 0 \/ ~unprivileged
        /\ head < MaxMerges /\ Own(head + 1) \notin stored
        /\ \E peers \in PeerParents :
             /\ status.local \cup peers # {}
             /\ parents' = [parents EXCEPT ![Own(head + 1)] = status.local \cup peers]
        /\ tree' = [tree EXCEPT ![Own(head + 1)] = Own(head)]
        /\ stored' = stored \cup {Own(head + 1)}
        /\ pc' = "merged"
        /\ UNCHANGED <<writerVars, loopVars>>
     \/ /\ \/ regularEvents = 0 /\ unprivileged
           \/ status.local \cup status.peer = {}
        /\ Idle
        /\ UNCHANGED <<stored, tree, parents>>
  /\ UNCHANGED <<consensus, mergeVars, queue, chunks, request, historyVars>>

AddLocalMergeEvent ==
  /\ pc = "merged"
  /\ CacheLocalMerge(head + 1)
  /\ Idle
  /\ UNCHANGED <<storageVars, queue, chunks, request, historyVars>>
-----------------------------------------------------------------------------
(* A request for a new configuration, in the process that serves it. *)

ReadHead(c) ==
  /\ request[c] = "new"
  /\ request' = [request EXCEPT ![c] = "read"]
  /\ tree' = [tree EXCEPT ![c] = Own(head)]
  /\ UNCHANGED <<stored, parents, consensus, mergeVars, queue, chunks, pc, writerVars,
                 loopVars, historyVars>>

StoreConfig(c) ==
  /\ request[c] = "read"
  /\ request' = [request EXCEPT ![c] = "stored"]
  /\ stored' = stored \cup {c}
  /\ UNCHANGED <<tree, parents, consensus, mergeVars, queue, chunks, pc, writerVars,
                 loopVars, historyVars>>

CacheConfig(c) ==
  /\ request[c] = "stored"
  /\ request' = [request EXCEPT ![c] = "done"]
  /\ childless' = childless \cup {c}
  /\ localChildless' = localChildless \cup {c}
  /\ UNCHANGED <<storageVars, outstanding, head, queue, chunks, pc, writerVars,
                 loopVars, historyVars>>
-----------------------------------------------------------------------------
(* Halts, rejections and crashes. *)

\* What storage has and the cache will not be told of.  A merge event of
\* this node is not among it: the next _validateCache finds it.
LeftByWriter == SetOf(batch) \ dups
LeftBySession ==
  CASE pc = "written" -> LeftByWriter
    [] pc \in {"created", "lastCreated"} -> {<<"r", Cardinality(stored \cap Regular)>>}
    [] OTHER -> {}

CutSession ==
  /\ pc # "idle" /\ cuts < MaxCuts
  /\ cuts' = cuts + 1
  /\ torn' = torn \cup LeftBySession
  /\ Idle
  /\ UNCHANGED <<storageVars, mergeVars, queue, chunks, request>>

\* addMany ends with only some of the batch stored.
CutStoring ==
  /\ pc = "read" /\ cuts < MaxCuts
  /\ cuts' = cuts + 1
  /\ \E some \in SUBSET (SetOf(batch) \ stored) \ {{}} :
       stored' = stored \cup some /\ torn' = torn \cup some
  /\ Idle
  /\ UNCHANGED <<tree, parents, consensus, mergeVars, queue, chunks, request>>

CutRequest(c) ==
  /\ request[c] = "stored" /\ cuts < MaxCuts
  /\ cuts' = cuts + 1
  /\ torn' = torn \cup {c}
  /\ request' = [request EXCEPT ![c] = "done"]
  /\ UNCHANGED <<storageVars, mergeVars, queue, chunks, pc, writerVars, loopVars>>
-----------------------------------------------------------------------------
Write == ReadQueue \/ StoreBatch \/ UpdateCache
Merge ==
  \/ ValidateCache
  \/ \E others \in BOOLEAN : ReadMergeStatus(others)
  \/ CheckMergeable \/ CreateRegular \/ CacheRegular \/ CreateNothing
  \/ StoreMerge \/ AddLocalMergeEvent
Change(c) == ReadHead(c) \/ StoreConfig(c) \/ CacheConfig(c)

Next ==
  \/ Submit \/ \E p \in Peer : AddPeerEvent(p)
  \/ \E e \in PeerMerge \cup LocalMerge : WriteBlock(e)
  \/ Write \/ Merge
  \/ \E c \in Config : Change(c)
  \/ CutSession \/ CutStoring \/ \E c \in Config : CutRequest(c)

\* The session scheduler runs the pipeline again and again, the writer in
\* each of its cycles; a request that has begun goes on.  Nothing is assumed of
\* the network: the node may never be a priority peer.
Fairness ==
  /\ WF_vars(Write \/ Merge) /\ SF_vars(ReadQueue)
  /\ \A c \in Config : WF_vars(StoreConfig(c) \/ CacheConfig(c))
Spec == Init /\ [][Next]_vars /\ Fairness
-----------------------------------------------------------------------------
(* Properties *)

\* The own branch in storage implements Branch: it never forks, is never
\* rewritten, and no event is merged twice, although the cache that the
\* merged events are taken from is updated after storage (lib/events.js:258
\* fears the contrary).
B == INSTANCE Branch WITH
  branch <- [g \in 1..StorageHead |-> parents[Own(g)]]
NeverForks == B!Spec

\* What lib/cache/prime.js would compute from storage.
InStorage == stored \ consensus
ChildlessInStorage == {e \in InStorage \ {Own(StorageHead)} : ~HasChild(e)}
OutstandingInStorage == InStorage \cap (LocalMerge \cup PeerMerge)

\* Between two steps of the pipeline the cached sets are those that priming
\* would compute, but for events whose update of the cache was cut off.
Settled ==
  /\ pc = "idle" /\ head = StorageHead
  /\ SetOf(queue) \cap stored = {}
  /\ \A c \in Config : request[c] # "stored"
CacheMatchesStorage ==
  Settled =>
    /\ childless = ChildlessInStorage \ torn
    /\ localChildless = childless \cap (Regular \cup Config)
    /\ outstanding = OutstandingInStorage \ torn

\* Peers take a merge event only if the regular events it merges were made
\* on the merge event it is made on.
RegularsAreSiblings ==
  \A m \in stored \cap LocalMerge : \A r \in parents[m] \cap Regular :
    tree[r] = tree[m]

\* As above, for configuration events too.
SiblingsOfMerge ==
  \A m \in stored \cap LocalMerge : \A e \in parents[m] \cap (Regular \cup Config) :
    tree[e] = tree[m]

\* A merge event has at most maxEvents parents, the treeHash among them ("maximum
\* regular event limits are enforced via merge.js", lib/events.js:273), unless a
\* session was cut off and has left regular events to the next, or there are
\* configuration events enough to fill it: with the treeHash and the one
\* regular event that a merge step may leave they have to fit.
FewConfigs == MaxConfigs + 2 <= MaxEvents
ParentsFit ==
  FewConfigs /\ cuts = 0 => \A m \in stored \cap LocalMerge : Cardinality(parents[m]) < MaxEvents

-----------------------------------------------------------------------------
(* What makes the invariants above inductive. *)

\* The node's merge events are numbered without gaps and each is made on the
\* one before; the cache is at the last or, when its update was cut off, one
\* behind.
HeadSoFar ==
  /\ StorageHead \in 0..MaxMerges /\ StorageHead \in {head, head + 1}
  /\ \A g \in 0..MaxMerges : Own(g) \in stored <=> g <= StorageHead
  /\ \A g \in 1..StorageHead : tree[Own(g)] = Own(g - 1)
  /\ pc = "merged" => StorageHead = head + 1
  /\ pc \in {"valid", "status", "create", "created", "lastCreated", "merge"} =>
       StorageHead = head

\* Regular events and the events of each peer are numbered without gaps.
LastOf(p) == Cardinality({e \in Known : e[1] = p})
NumbersSoFar ==
  /\ chunks + Cardinality(stored \cap Regular) <= MaxRegular
  /\ \A n \in 1..MaxRegular :
       <<"r", n>> \in stored <=> n <= Cardinality(stored \cap Regular)
  /\ \A p \in Peer : \A n \in 1..MaxPeerEvents : <<p, n>> \in Known <=> n <= LastOf(p)

\* Events refer to events there are, peers only to merge events.
ReferencesSoFar ==
  /\ \A e \in Known : Merges(e) \subseteq Known
  /\ \A e \in Known \cap PeerMerge : Merges(e) \subseteq LocalMerge \cup PeerMerge
  /\ \A p \in Peer : \A n \in 2..MaxPeerEvents :
       <<p, n>> \in Known => tree[<<p, n>>] = <<p, n - 1>>
  /\ \A e \in Known \cap LocalMerge : parents[e] \cap LocalMerge = {}
  /\ \A e \in Regular \cup Config : parents[e] = {} /\ tree[e] \in LocalMerge
  /\ \A e \in consensus : HasChild(e)

\* The batch is the queue, as long as the writer works on it.  What the queue
\* has in common with storage was left by a writer that was cut off.
QueueSoFar ==
  /\ pc \in {"read", "written"} => batch = queue
  /\ pc = "written" => /\ SetOf(queue) \subseteq stored /\ dups \subseteq torn
                       /\ dups \subseteq SetOf(queue)
                       /\ (SetOf(queue) \ dups) \cap torn = {}
  /\ pc # "written" => SetOf(queue) \cap stored \subseteq torn
  /\ \A e \in SetOf(queue), f \in Known :
       f[1] = e[1] /\ Generation(f) > Generation(e) => f \in SetOf(queue)
  /\ \A e \in Known \ SetOf(queue) : Merges(e) \cap SetOf(queue) = {}
  /\ torn \subseteq stored \ LocalMerge

\* What the cache has not been told of: the part of the queue in storage,
\* events that have just been stored, and a merge event ahead of its head.
Creating ==
  IF pc \in {"created", "lastCreated"} THEN {<<"r", Cardinality(stored \cap Regular)>>}
  ELSE {}
Changing == {c \in Config : request[c] = "stored"}
Hidden == LocalMerge \cup torn \cup SetOf(queue) \cup Creating \cup Changing
Taken == stored \ (SetOf(queue) \cup {Own(g) : g \in (head + 1)..MaxMerges})
CacheSoFar ==
  /\ childless = {e \in stored \ Hidden : \A c \in Taken : e \notin Merges(c)}
  /\ localChildless = childless \cap (Regular \cup Config)
  /\ outstanding = (OutstandingInStorage \ torn) \cap Taken
  /\ \A e \in Creating \cup Changing : e \in stored \ torn /\ ~HasChild(e)
  /\ consensus \subseteq Taken

RequestsSoFar ==
  \A c \in Config :
    /\ c \in stored <=> request[c] \in {"stored", "done"}
    /\ tree[c] \in stored

\* Regular events that wait to be merged were made on the cached head, and
\* none is left behind by the merge that is to come.
SiblingsSoFar ==
  /\ \A r \in (localChildless \cap Regular) \cup Creating : tree[r] = Own(head)
  /\ StorageHead = head + 1 =>
       localChildless \cap Regular \subseteq parents[Own(StorageHead)]

\* From getMergeStatus to the merge.
StatusSoFar ==
  /\ pc \in {"created", "lastCreated"} => room > 0
  /\ pc \in {"status", "create", "created", "lastCreated", "merge"} =>
       /\ status.peer \subseteq childless \cap PeerMerge
       /\ status.local \subseteq localChildless
       /\ localChildless \cap Regular \subseteq status.local

InductiveInvariant ==
  /\ TypeOK /\ RegularsAreSiblings
  /\ HeadSoFar /\ NumbersSoFar /\ ReferencesSoFar /\ QueueSoFar /\ CacheSoFar
  /\ RequestsSoFar /\ SiblingsSoFar /\ StatusSoFar

\* The counting behind ParentsFit.
Waiting == Cardinality(localChildless \cap Regular)
Chosen == Cardinality(status.local)
RoomSoFar ==
  FewConfigs /\ cuts = 0 =>
    /\ StorageHead = head \/ pc = "merged"
    /\ pc \in {"idle", "read", "written", "valid", "status"} => Waiting <= 1
    /\ pc = "status" => Chosen < MaxEvents
    /\ pc \in {"create", "created", "lastCreated"} =>
         Chosen + room < MaxEvents /\ Chosen <= regularEvents
    /\ pc = "merge" => Chosen < MaxEvents /\ Chosen <= regularEvents + 1
-----------------------------------------------------------------------------
\* An event that this node has made and stored gets merged, though it be no
\* priority peer ever again, unless the event was never put in the cache:
\* merging takes local events from there only, and nothing in lib/ calls
\* primeAll of cache/prime.js (lib/events.js:545 asks whether storage is looked
\* at).  The one thing it may wait for is other priority peers, to merge and to
\* decide on its head (lib/events.js:392).
WaitsForPeers ==
  queue = <<>> /\ childless \subseteq localChildless /\ ~HeadIsAnswered
StoredIsMerged ==
  \A e \in Regular \cup Config :
    e \in stored ~> (e \in Merged \cup torn \/ head = MaxMerges \/ []WaitsForPeers)
=============================================================================
