--------------------------- MODULE LocalOperations ---------------------------
(***************************************************************************)
(* The way of an operation from its submission to a local regular event:   *)
(* operations.add (lib/operations.js, lib/cache/operations.js) queues it   *)
(* in redis unless it is a duplicate, and the worker's events.create       *)
(* (lib/events.js) takes chunks off the queue (lib/cache/OperationQueue.js)*)
(* and writes them to storage as events.                                   *)
(*                                                                         *)
(* Every process of the node has one redis connection, `cache.client`, for *)
(* all it does.  A redis WATCH belongs to the connection: the next EXEC or *)
(* UNWATCH on it, whoever sends it, ends all watches of the connection.    *)
(***************************************************************************)
EXTENDS Naturals, Sequences, FiniteSets

CONSTANTS
  Operation,       \* operations; two with the same hash are the same
  Basis,           \* values of basisBlockHeight
  Request,         \* calls of operations.add
  Connection,      \* redis connections
  ConnectionOf,    \* [Request -> Connection]
  WorkerConnection,\* the connection of the process that runs the work session
  MaxOperations,   \* continuityConstants.events.maxOperations
  MaxFailures      \* bound on the calls of events.create that fail

ASSUME ConnectionAssumption ==
  /\ ConnectionOf \in [Request -> Connection]
  /\ WorkerConnection \in Connection
ASSUME ChunkAssumption == MaxOperations \in Nat \ {0}
ASSUME FailuresAssumption == MaxFailures \in Nat

NoBasis == 0
ASSUME BasisAssumption == Basis \subseteq Nat \ {NoBasis}

VARIABLES
  phase,       \* where each request is in operations.add
  key,         \* the operation key of each request, <<basis, operation>>
  watched,     \* operation hashes watched on each connection
  stale,       \* connections with a watched key that has changed
  documents,   \* operation keys that hold a document
  hashes,      \* operations whose hash key exists
  list,        \* the queue: the operation list
  selected,    \* the cached chunk: the operation selected list
  stored,      \* operations in storage
  events,      \* local regular events in storage, in the order written
  gossip,      \* events in the cache for gossip
  childless,   \* events to be merged, by position in `events`
  step,        \* where the worker is in events.create
  todo,        \* writes of the event that are not done yet
  opKeys,      \* opKeys of the worker's OperationQueue
  basis,       \* its basisBlockHeight
  chunkCached, \* its chunkCached
  failures

requestVars == <<phase, key>>
redisVars == <<watched, stale, documents, hashes, list, selected, gossip, childless>>
storageVars == <<stored, events>>
workerVars == <<step, todo, opKeys, basis, chunkCached, failures>>
vars == <<requestVars, redisVars, storageVars, workerVars>>

Key == Basis \X Operation
SetOf(s) == {s[i] : i \in 1..Len(s)}
OperationsOf(s) == {k[2] : k \in SetOf(s)}
Event == [basis : Basis, keys : Seq(Key)]

TypeOK ==
  /\ phase \in [Request -> {"new", "watching", "unknown", "accepted", "duplicate"}]
  /\ key \in [Request -> Key]
  /\ watched \in [Connection -> SUBSET Operation]
  /\ stale \in SUBSET Connection
  /\ documents \in SUBSET Key
  /\ hashes \in SUBSET Operation
  /\ list \in Seq(Key) /\ selected \in Seq(Key) /\ opKeys \in Seq(Key)
  /\ stored \in SUBSET Operation
  /\ events \in Seq(Event)
  /\ \A e \in gossip : e \in Event
  /\ childless \in SUBSET (1..Len(events))
  /\ step \in {"idle", "chosen", "taken", "written"}
  /\ todo \in SUBSET {"gossip", "store", "childless"}
  /\ basis \in Basis \cup {NoBasis}
  /\ chunkCached \in BOOLEAN
  /\ failures \in 0..MaxFailures

Init ==
  /\ phase = [r \in Request |-> "new"]
  /\ key \in [Request -> Key]
  /\ watched = [c \in Connection |-> {}]
  /\ stale = {}
  /\ documents = {} /\ hashes = {} /\ list = <<>> /\ selected = <<>>
  /\ stored = {} /\ events = <<>> /\ gossip = {} /\ childless = {}
  /\ step = "idle" /\ todo = {} /\ opKeys = <<>> /\ basis = NoBasis
  /\ chunkCached = FALSE
  /\ failures = 0

-----------------------------------------------------------------------------
(* UNWATCH or EXEC on c ends its watches; an EXEC that touches the hash    *)
(* keys of `changed` makes the watches other connections hold on them      *)
(* stale.                                                                  *)
EndsWatches(c, changed) ==
  /\ watched' = [watched EXCEPT ![c] = {}]
  /\ stale' = (stale \cup {d \in Connection : watched[d] \cap changed # {}}) \ {c}

(* Mutant: the operation is looked up, but not watched.                    *)
CheckCacheOnly(r) ==
  /\ phase[r] = "new"
  /\ phase' = [phase EXCEPT ![r] = IF key[r][2] \in hashes THEN "duplicate" ELSE "watching"]
  /\ UNCHANGED <<key, redisVars, storageVars, workerVars>>

(* cache.operations.exists: the hash key is watched and looked up, and the *)
(* watch given up if the operation is queued already.                      *)
CheckCache(r) ==
  LET op == key[r][2]
      c == ConnectionOf[r]
  IN  /\ phase[r] = "new"
      /\ IF op \in hashes
         THEN /\ phase' = [phase EXCEPT ![r] = "duplicate"]
              /\ EndsWatches(c, {})
         ELSE /\ phase' = [phase EXCEPT ![r] = "watching"]
              /\ watched' = [watched EXCEPT ![c] = @ \cup {op}]
              /\ UNCHANGED stale
      /\ UNCHANGED <<key, documents, hashes, list, selected, gossip, childless,
                     storageVars, workerVars>>

(* Mutant: the watch is given up after the storage lookup.                 *)
CheckStorageUnwatching(r) ==
  /\ phase[r] = "watching"
  /\ phase' = [phase EXCEPT ![r] =
                IF key[r][2] \in stored THEN "duplicate" ELSE "unknown"]
  /\ EndsWatches(ConnectionOf[r], {})
  /\ UNCHANGED <<key, documents, hashes, list, selected, gossip, childless,
                 storageVars, workerVars>>

(* The storage lookup.  A watch stays when the operation is found there.   *)
CheckStorage(r) ==
  /\ phase[r] = "watching"
  /\ phase' = [phase EXCEPT ![r] =
                IF key[r][2] \in stored THEN "duplicate" ELSE "unknown"]
  /\ UNCHANGED <<key, redisVars, storageVars, workerVars>>

(* cache.operations.add: the transaction is dropped if a watched key has   *)
(* changed.  Its result is compared with null but not awaited, so the      *)
(* request is accepted either way; that the answer may leave just before   *)
(* the transaction, already sent, takes effect is not told apart.          *)
Add(r) ==
  LET op == key[r][2]
      c == ConnectionOf[r]
  IN  /\ phase[r] = "unknown"
      /\ phase' = [phase EXCEPT ![r] = "accepted"]
      /\ IF c \in stale
         THEN /\ EndsWatches(c, {})
              /\ UNCHANGED <<documents, hashes, list>>
         ELSE /\ EndsWatches(c, {op})
              /\ documents' = documents \cup {key[r]}
              /\ hashes' = hashes \cup {op}
              /\ list' = Append(list, key[r])
      /\ UNCHANGED <<key, selected, gossip, childless, storageVars, workerVars>>

-----------------------------------------------------------------------------
(* Mutant: a chunk is not cut where basisBlockHeight changes.              *)
NextKeysOfAnyBasis(l) ==
  SubSeq(l, 1, IF Len(l) < MaxOperations THEN Len(l) ELSE MaxOperations)

(* The keys of the next chunk: as many as fit, all of the first one's      *)
(* basisBlockHeight.                                                       *)
NextKeys(l) ==
  LET fits == SubSeq(l, 1, IF Len(l) < MaxOperations THEN Len(l) ELSE MaxOperations)
      same == {n \in 1..Len(fits) : \A i \in 1..n : fits[i][1] = l[1][1]}
  IN  SubSeq(fits, 1, Cardinality(same))

(* A chunk cached by an earlier queue is taken up again only by a queue     *)
(* that knows a basisBlockHeight.  Every call of create begins with a new   *)
(* queue, which knows none.                                                 *)
Resumes == selected # <<>> /\ basis # NoBasis

(* hasNextChunk                                                            *)
HasNextChunk ==
  /\ step = "idle"
  /\ Resumes \/ list # <<>>
  /\ opKeys' = IF Resumes THEN selected ELSE NextKeys(list)
  /\ basis' = IF Resumes THEN basis ELSE list[1][1]
  /\ chunkCached' = Resumes
  /\ step' = "chosen"
  /\ UNCHANGED <<requestVars, redisVars, storageVars, todo, failures>>

(* What is left of a call of create that is over: its queue is dropped.    *)
Over ==
  /\ step' = "idle" /\ todo' = {} /\ opKeys' = <<>> /\ basis' = NoBasis
  /\ chunkCached' = FALSE

(* getNextChunk: one transaction reads the documents, takes the keys off   *)
(* the list and caches the chunk.  create fails on a dropped transaction,  *)
(* and on a key without document.                                          *)
GetNextChunk ==
  /\ step = "chosen"
  /\ EndsWatches(WorkerConnection, {})
  /\ IF WorkerConnection \in stale
     THEN Over /\ UNCHANGED <<list, selected>>
     ELSE /\ list' = IF chunkCached THEN list
                     ELSE SubSeq(list, Len(opKeys) + 1, Len(list))
          /\ selected' = IF chunkCached THEN selected ELSE selected \o opKeys
          /\ IF SetOf(opKeys) \subseteq documents
             THEN step' = "taken" /\ UNCHANGED <<todo, opKeys, basis, chunkCached>>
             ELSE Over
  /\ UNCHANGED <<requestVars, documents, hashes, gossip, childless, storageVars,
                 failures>>

(* Mutant: the cache is told of the event beside the write to storage, not *)
(* after it.                                                               *)
WriteOperationsAllAtOnce ==
  /\ step = "taken"
  /\ stored' = stored \cup OperationsOf(opKeys)
  /\ step' = "written"
  /\ todo' = {"gossip", "store", "childless"}
  /\ UNCHANGED <<requestVars, redisVars, events, opKeys, basis, chunkCached, failures>>

(* operations.write                                                        *)
WriteOperations ==
  /\ step = "taken"
  /\ stored' = stored \cup OperationsOf(opKeys)
  /\ step' = "written"
  /\ todo' = {"gossip", "store"}
  /\ UNCHANGED <<requestVars, redisVars, events, opKeys, basis, chunkCached, failures>>

(* setEventGossip and events.add run side by side.                         *)
SetEventGossip ==
  /\ step = "written" /\ "gossip" \in todo
  /\ todo' = todo \ {"gossip"}
  /\ gossip' = gossip \cup {[basis |-> basis, keys |-> opKeys]}
  /\ UNCHANGED <<requestVars, watched, stale, documents, hashes, list, selected,
                 childless, storageVars, step, opKeys, basis, chunkCached, failures>>

(* storage.events.add in _writeEvent                                       *)
StoreEvent ==
  /\ step = "written" /\ "store" \in todo
  /\ todo' = (todo \ {"store"}) \cup {"childless"}
  /\ events' = Append(events, [basis |-> basis, keys |-> opKeys])
  /\ UNCHANGED <<requestVars, redisVars, stored, step, opKeys, basis, chunkCached,
                 failures>>

(* cache.events.addLocalRegularEvent; like any transaction on the          *)
(* connection it is dropped if a watched key has changed.                  *)
AddLocalRegularEvent ==
  /\ step = "written" /\ "childless" \in todo
  /\ todo' = todo \ {"childless"}
  /\ childless' = IF WorkerConnection \in stale THEN childless
                  ELSE childless \cup {Len(events)}
  /\ EndsWatches(WorkerConnection, {})
  /\ UNCHANGED <<requestVars, documents, hashes, list, selected, gossip, storageVars,
                 step, opKeys, basis, chunkCached, failures>>

(* Mutant: the chunk is popped as soon as its documents have been read.    *)
PopChunkEarly ==
  /\ step = "taken"
  /\ EndsWatches(WorkerConnection, OperationsOf(opKeys))
  /\ selected' = <<>>
  /\ documents' = documents \ SetOf(opKeys)
  /\ hashes' = hashes \ OperationsOf(opKeys)
  /\ Over
  /\ UNCHANGED <<requestVars, list, gossip, childless, storageVars, failures>>

(* popChunk, once the event is written: the cached chunk, whatever it      *)
(* holds, and the keys of this chunk's operations are deleted.             *)
PopChunk ==
  /\ step = "written" /\ todo = {}
  /\ IF WorkerConnection \in stale
     THEN EndsWatches(WorkerConnection, {}) /\ UNCHANGED <<selected, documents, hashes>>
     ELSE /\ EndsWatches(WorkerConnection, OperationsOf(opKeys))
          /\ selected' = <<>>
          /\ documents' = documents \ SetOf(opKeys)
          /\ hashes' = hashes \ OperationsOf(opKeys)
  /\ Over
  /\ UNCHANGED <<requestVars, list, gossip, childless, storageVars, failures>>

(* A call rejects and the session logs the error (worker/merge.js), or the *)
(* process stops: what create has done so far stays.  A write that was     *)
(* started beside the one that rejects and ends later is taken to have     *)
(* ended before the failure.                                               *)
Fail ==
  /\ step # "idle"
  /\ failures < MaxFailures
  /\ failures' = failures + 1
  /\ Over
  /\ UNCHANGED <<requestVars, redisVars, storageVars>>

Worker ==
  \/ HasNextChunk
  \/ GetNextChunk
  \/ WriteOperations
  \/ SetEventGossip
  \/ StoreEvent
  \/ AddLocalRegularEvent
  \/ PopChunk

Next ==
  \/ \E r \in Request : CheckCache(r) \/ CheckStorage(r) \/ Add(r)
  \/ Worker
  \/ Fail

(* The session loop keeps calling create; a request need never end.        *)
Spec == Init /\ [][Next]_vars /\ WF_vars(Worker)

-----------------------------------------------------------------------------
(* How often an operation is, or will be, in a local event.                *)
Times(op) ==
  Cardinality({i \in 1..Len(list) : list[i][2] = op})
    + Cardinality({at \in (1..Len(events)) \X (1..MaxOperations) :
                     /\ at[2] <= Len(events[at[1]].keys)
                     /\ events[at[1]].keys[at[2]][2] = op})

(* No operation is queued, or written to events, twice, though any number  *)
(* of requests may submit it at the same time (operations.add).            *)
NeverTwice == \A op \in Operation : Times(op) <= 1

(* An operation that was accepted is found as a duplicate from then on: in *)
(* the cache or, once its keys are deleted, in storage.                    *)
StaysDetectable ==
  \A r \in Request : phase[r] = "accepted" => key[r][2] \in hashes \cup stored

(* The operations of an event were submitted at the basisBlockHeight the   *)
(* event records, against which peers validate them.                       *)
OneBasis ==
  \A i \in 1..Len(events) : \A k \in SetOf(events[i].keys) : k[1] = events[i].basis

-----------------------------------------------------------------------------
(* What makes the invariants above inductive.                              *)

(* The requests of a node do not share a connection with each other or     *)
(* with the worker: what the watches rely on, and what NeverTwice and      *)
(* StaysDetectable need.                                                   *)
Unshared ==
  \A r \in Request :
    /\ ConnectionOf[r] # WorkerConnection
    /\ \A s \in Request : ConnectionOf[s] = ConnectionOf[r] => s = r

(* The call of create in progress: its chunk is of one basisBlockHeight    *)
(* and is the head of the queue when chosen; an event that is not marked   *)
(* childless yet is the last one stored.                                   *)
CallSoFar ==
  /\ chunkCached = FALSE
  /\ step = "idle" => basis = NoBasis /\ todo = {} /\ opKeys = <<>>
  /\ step # "idle" => basis \in Basis
  /\ step \in {"chosen", "taken"} => todo = {}
  /\ \A i \in 1..Len(opKeys) : opKeys[i][1] = basis
  /\ step = "chosen" => /\ Len(opKeys) <= Len(list)
                        /\ \A i \in 1..Len(opKeys) : opKeys[i] = list[i]
  /\ "childless" \in todo => events # <<>>

(* What is queued, or taken and not yet in an event of its own, has a hash *)
(* key; what is in an event is in storage.                                 *)
Queued == OperationsOf(list)
Taken == IF step \in {"taken", "written"} THEN OperationsOf(opKeys) ELSE {}
Unwritten == IF "store" \in todo \/ step = "taken" THEN OperationsOf(opKeys) ELSE {}
WrittenIn(i) == OperationsOf(events[i].keys)
Found ==
  /\ Queued \cup Taken \subseteq hashes
  /\ step = "written" => Taken \subseteq stored
  /\ \A i \in 1..Len(events) : WrittenIn(i) \subseteq stored

(* An operation has one place: in the queue, in the chunk taken from it or *)
(* in an event.                                                            *)
Distinct(s) == \A i, j \in 1..Len(s) : s[i][2] = s[j][2] => i = j
OnePlace ==
  /\ Distinct(list) /\ Distinct(opKeys)
  /\ \A i \in 1..Len(events) : Distinct(events[i].keys)
  /\ Queued \cap Taken = {}
  /\ \A i \in 1..Len(events) : WrittenIn(i) \cap (Queued \cup Unwritten) = {}
  /\ \A i, j \in 1..Len(events) : WrittenIn(i) \cap WrittenIn(j) # {} => i = j

(* The watch of a request tells whether its operation has been queued since *)
(* it looked: by then it is in the cache or, once popped, in storage.       *)
Watches ==
  /\ watched[WorkerConnection] = {} /\ WorkerConnection \notin stale
  /\ \A r \in Request :
       LET op == key[r][2]
           c == ConnectionOf[r]
       IN  /\ watched[c] \subseteq {op}
           /\ c \in stale => op \in hashes \cup stored
           /\ phase[r] \in {"watching", "unknown"} =>
                c \in stale \/ op \in watched[c] \ hashes
           /\ phase[r] = "unknown" => c \in stale \/ op \notin stored

InductiveInvariant ==
  /\ TypeOK /\ OneBasis /\ CallSoFar
  /\ Unshared => StaysDetectable /\ Found /\ OnePlace /\ Watches
-----------------------------------------------------------------------------
(* While no call of create fails, what is accepted gets into an event and  *)
(* that event into the set to be merged.                                   *)
Merging(op) == \E i \in childless : op \in OperationsOf(events[i].keys)

AcceptedIsMerged ==
  \A r \in Request :
    phase[r] = "accepted" ~> Merging(key[r][2]) \/ failures > 0

(* A chunk that could not be written is resumed (OperationQueue.js), so no *)
(* accepted operation leaves the queue but into an event.                  *)
NothingLost ==
  \A r \in Request :
    phase[r] = "accepted" =>
      \/ key[r][2] \in OperationsOf(list) \cup OperationsOf(selected)
      \/ \E i \in 1..Len(events) : key[r][2] \in OperationsOf(events[i].keys)
=============================================================================
