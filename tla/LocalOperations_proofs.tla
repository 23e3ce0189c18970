----------------------- MODULE LocalOperations_proofs -----------------------
(***************************************************************************)
(* Proofs about LocalOperations, for any operations, requests and          *)
(* connections, any size of a chunk and any number of failures.            *)
(***************************************************************************)
EXTENDS LocalOperations, Induction, FiniteSetTheorems

-----------------------------------------------------------------------------
(* Queues of operation keys *)

LEMMA KeyParts ==
  ASSUME NEW k \in Key
  PROVE  k[1] \in Basis /\ k[2] \in Operation
BY DEF Key

LEMMA OperationsOfSequence ==
  ASSUME NEW s \in Seq(Key)
  PROVE  /\ SetOf(s) \subseteq Key
         /\ OperationsOf(s) \subseteq Operation
         /\ \A op : op \in OperationsOf(s) <=> \E i \in 1..Len(s) : s[i][2] = op
<1>1. \A i \in 1..Len(s) : s[i] \in Key
  OBVIOUS
<1>2. SetOf(s) \subseteq Key
  BY <1>1 DEF SetOf
<1>3. OperationsOf(s) \subseteq Operation
  BY <1>2, KeyParts DEF OperationsOf
<1>4. \A op : op \in OperationsOf(s) <=> \E i \in 1..Len(s) : s[i][2] = op
  BY DEF OperationsOf, SetOf
<1> QED BY <1>2, <1>3, <1>4

LEMMA OperationsOfAppend ==
  ASSUME NEW s \in Seq(Key), NEW k \in Key
  PROVE  /\ Append(s, k) \in Seq(Key)
         /\ OperationsOf(Append(s, k)) = OperationsOf(s) \cup {k[2]}
         /\ Distinct(s) /\ k[2] \notin OperationsOf(s) => Distinct(Append(s, k))
<1> DEFINE t == Append(s, k)
<1>1. /\ t \in Seq(Key) /\ Len(t) = Len(s) + 1 /\ Len(s) \in Nat
      /\ t[Len(s) + 1] = k /\ \A i \in 1..Len(s) : t[i] = s[i]
  OBVIOUS
<1> HIDE DEF t
<1>2. \A i \in 1..(Len(s) + 1) : i \in 1..Len(s) \/ i = Len(s) + 1
  BY <1>1
<1>3. \A i \in 1..Len(s) : i \in 1..(Len(s) + 1)
  BY <1>1
<1>4. Len(s) + 1 \in 1..(Len(s) + 1)
  BY <1>1
<1>5. \A op : op \in OperationsOf(t) <=> op \in OperationsOf(s) \cup {k[2]}
  BY <1>1, <1>2, <1>3, <1>4, OperationsOfSequence
<1>6. OperationsOf(t) = OperationsOf(s) \cup {k[2]}
  BY <1>5
<1>7. ASSUME Distinct(s), k[2] \notin OperationsOf(s)
      PROVE  Distinct(t)
  <2>1. \A i \in 1..Len(s) : s[i][2] # k[2]
    BY <1>7, OperationsOfSequence
  <2> QED BY <1>1, <1>2, <1>7, <2>1 DEF Distinct
<1> QED BY <1>1, <1>6, <1>7 DEF t

(* A set of numbers that has all smaller ones of each is an interval.      *)
LEMMA DownwardClosed ==
  ASSUME NEW n \in Nat, NEW S \in SUBSET (1..n),
         \A i \in S : \A j \in 1..i : j \in S
  PROVE  S = 1..Cardinality(S) /\ Cardinality(S) \in 0..n
<1> DEFINE Outside == {i \in 1..(n + 1) : i \notin S}
<1>1. Outside \in SUBSET Nat /\ n + 1 \in Outside
  OBVIOUS
<1>2. PICK m \in Outside : \A i \in Outside : m <= i
  <2> HIDE DEF Outside
  <2> QED BY <1>1, LeastNumber
<1>3. m \in 1..(n + 1) /\ m \notin S
  OBVIOUS
<1>4. ASSUME NEW i \in 1..n
      PROVE  i \in S <=> i < m
  <2>1. i < m => i \in S
    BY <1>2
  <2>2. i \in S /\ m <= i => m \in S
    BY <1>3
  <2> QED BY <2>1, <2>2, <1>3
<1>5. S = 1..(m - 1)
  <2>1. m - 1 \in 0..n
    BY <1>3
  <2>2. \A i : i \in S <=> i \in 1..(m - 1)
    <3>1. \A i \in 1..n : i < m <=> i \in 1..(m - 1)
      BY <1>3
    <3>2. \A i \in 1..(m - 1) : i \in 1..n
      BY <1>3
    <3> HIDE DEF Outside
    <3> QED BY <3>1, <3>2, <1>4
  <2> QED BY <2>2
<1>6. Cardinality(S) = m - 1
  BY <1>3, <1>5, FS_Interval
<1> QED BY <1>3, <1>5, <1>6

(* NextKeys takes the head of the queue, not empty unless the queue is, of *)
(* one basisBlockHeight.                                                   *)
LEMMA NextKeysOfQueue ==
  ASSUME NEW l \in Seq(Key), l # <<>>
  PROVE  /\ NextKeys(l) \in Seq(Key)
         /\ Len(NextKeys(l)) \in 1..Len(l)
         /\ \A i \in 1..Len(NextKeys(l)) :
              NextKeys(l)[i] = l[i] /\ l[i][1] = l[1][1]
<1> DEFINE most == IF Len(l) < MaxOperations THEN Len(l) ELSE MaxOperations
           fits == SubSeq(l, 1, most)
           same == {n \in 1..Len(fits) : \A i \in 1..n : fits[i][1] = l[1][1]}
<1>1. most \in 1..Len(l)
  BY ChunkAssumption
<1>2. /\ fits \in Seq(Key) /\ Len(fits) = most
      /\ \A i \in 1..most : fits[i] = l[i]
  <2> HIDE DEF most
  <2> QED BY <1>1
<1> HIDE DEF most, fits
<1>3. same = 1..Cardinality(same) /\ Cardinality(same) \in 0..Len(fits)
  <2>1. \A n \in same : \A j \in 1..n : j \in same
    BY <1>1, <1>2
  <2>2. same \in SUBSET (1..Len(fits)) /\ Len(fits) \in Nat
    BY <1>1, <1>2
  <2> HIDE DEF same
  <2> QED BY <2>1, <2>2, DownwardClosed
<1>4. 1 \in same
  BY <1>1, <1>2
<1> DEFINE size == Cardinality(same)
<1>5. size \in 1..most
  <2> HIDE DEF same
  <2> QED BY <1>1, <1>2, <1>3, <1>4
<1>6. size \in same
  <2> HIDE DEF same
  <2> QED BY <1>3, <1>5
<1>7. \A i \in 1..size : fits[i][1] = l[1][1]
  BY <1>6
<1>8. NextKeys(l) = SubSeq(fits, 1, size)
  BY Zenon DEF NextKeys, fits, most
<1> HIDE DEF size, same
<1> QED BY <1>1, <1>2, <1>5, <1>7, <1>8

-----------------------------------------------------------------------------
(* The call of create in progress *)

Basic == TypeOK /\ OneBasis /\ CallSoFar

LEMMA InitialBasic == Init => Basic
<1> SUFFICES ASSUME Init PROVE Basic
  OBVIOUS
<1>1. TypeOK
  <2>1. <<>> \in Seq(Key) /\ <<>> \in Seq(Event) /\ 0 \in 0..MaxFailures
    BY FailuresAssumption
  <2>2. /\ watched \in [Connection -> SUBSET Operation] /\ key \in [Request -> Key]
        /\ phase \in [Request -> {"new", "watching", "unknown", "accepted", "duplicate"}]
    BY DEF Init
  <2>3. /\ stale \in SUBSET Connection /\ documents \in SUBSET Key
        /\ hashes \in SUBSET Operation /\ stored \in SUBSET Operation
        /\ childless \in SUBSET (1..Len(events)) /\ \A e \in gossip : e \in Event
        /\ todo \in SUBSET {"gossip", "store", "childless"}
    BY DEF Init
  <2>4. /\ list \in Seq(Key) /\ selected \in Seq(Key) /\ opKeys \in Seq(Key)
        /\ events \in Seq(Event) /\ failures \in 0..MaxFailures
    BY <2>1, Zenon DEF Init
  <2>5. /\ step \in {"idle", "chosen", "taken", "written"} /\ chunkCached \in BOOLEAN
        /\ basis \in Basis \cup {NoBasis}
    BY DEF Init
  <2> QED BY <2>2, <2>3, <2>4, <2>5, Zenon DEF TypeOK
<1>2. OneBasis /\ CallSoFar
  BY DEF Init, OneBasis, CallSoFar
<1> QED BY <1>1, <1>2 DEF Basic

LEMMA WatchesEnd ==
  ASSUME TypeOK, NEW c \in Connection, NEW changed, EndsWatches(c, changed)
  PROVE  /\ watched' \in [Connection -> SUBSET Operation]
         /\ stale' \in SUBSET Connection
         /\ c \notin stale' /\ watched'[c] = {}
         /\ \A d \in Connection \ {c} :
              /\ watched'[d] = watched[d]
              /\ d \in stale' <=> d \in stale \/ watched[d] \cap changed # {}
BY DEF EndsWatches, TypeOK

LEMMA RequestKeepsBasic ==
  ASSUME Basic, NEW r \in Request, CheckCache(r) \/ CheckStorage(r) \/ Add(r)
  PROVE  Basic'
<1> USE DEF Basic, requestVars, redisVars, storageVars, workerVars
<1> DEFINE c == ConnectionOf[r]
<1>1. c \in Connection /\ key[r] \in Key /\ key[r][2] \in Operation
  BY ConnectionAssumption, KeyParts DEF TypeOK
<1>2. CASE CheckCache(r)
  <2>1. watched' \in [Connection -> SUBSET Operation] /\ stale' \in SUBSET Connection
    <3>1. CASE key[r][2] \in hashes
      BY <1>1, <1>2, <3>1, WatchesEnd DEF CheckCache
    <3>2. CASE key[r][2] \notin hashes
      BY <1>1, <1>2, <3>2 DEF CheckCache, TypeOK
    <3> QED BY <3>1, <3>2
  <2>2. TypeOK'
    BY <1>2, <2>1 DEF CheckCache, TypeOK
  <2>3. OneBasis' /\ CallSoFar'
    BY <1>2 DEF CheckCache, OneBasis, CallSoFar
  <2> QED BY <2>2, <2>3
<1>3. CASE CheckStorage(r)
  <2>1. TypeOK'
    BY <1>3 DEF CheckStorage, TypeOK
  <2>2. OneBasis' /\ CallSoFar'
    BY <1>3 DEF CheckStorage, OneBasis, CallSoFar
  <2> QED BY <2>1, <2>2
<1>4. CASE Add(r)
  <2>1. watched' \in [Connection -> SUBSET Operation] /\ stale' \in SUBSET Connection
    BY <1>1, <1>4, WatchesEnd DEF Add
  <2>2. /\ documents' \in SUBSET Key /\ hashes' \in SUBSET Operation
        /\ list' \in Seq(Key) /\ Len(list) <= Len(list')
        /\ \A i \in 1..Len(list) : list'[i] = list[i]
    <3>1. CASE c \in stale
      BY <1>4, <3>1 DEF Add, TypeOK
    <3>2. CASE c \notin stale
      <4>1. /\ documents' = documents \cup {key[r]} /\ hashes' = hashes \cup {key[r][2]}
            /\ list' = Append(list, key[r])
        BY <1>4, <3>2 DEF Add
      <4>2. list \in Seq(Key)
        BY DEF TypeOK
      <4>3. documents' \in SUBSET Key /\ hashes' \in SUBSET Operation
        BY <1>1, <4>1 DEF TypeOK
      <4> QED BY <1>1, <4>1, <4>2, <4>3
    <3> QED BY <3>1, <3>2
  <2>3. TypeOK'
    BY <1>4, <2>1, <2>2 DEF Add, TypeOK
  <2>4. OneBasis'
    BY <1>4 DEF Add, OneBasis
  <2>5. CallSoFar'
    BY <1>4, <2>2 DEF Add, CallSoFar, TypeOK
  <2> QED BY <2>3, <2>4, <2>5
<1> QED BY <1>2, <1>3, <1>4

LEMMA HasNextChunkKeepsBasic ==
  ASSUME Basic, HasNextChunk
  PROVE  /\ Basic'
         /\ opKeys' = NextKeys(list) /\ list' = list /\ list # <<>>
<1> USE DEF Basic, HasNextChunk, requestVars, redisVars, storageVars, workerVars
<1>1. ~Resumes
  BY DEF Resumes, CallSoFar
<1>2. opKeys' = NextKeys(list) /\ basis' = list[1][1] /\ chunkCached' = FALSE
  BY <1>1
<1>3. list # <<>> /\ list \in Seq(Key)
  BY <1>1 DEF TypeOK
<1>4. /\ opKeys' \in Seq(Key) /\ Len(opKeys') \in 1..Len(list)
      /\ \A i \in 1..Len(opKeys') : opKeys'[i] = list[i] /\ list[i][1] = basis'
  BY <1>2, <1>3, NextKeysOfQueue
<1>5. basis' \in Basis
  BY <1>2, <1>3, KeyParts
<1>6. TypeOK'
  BY <1>2, <1>4, <1>5 DEF TypeOK
<1>7. OneBasis'
  BY DEF OneBasis
<1>8. CallSoFar'
  BY <1>2, <1>4, <1>5 DEF CallSoFar
<1> QED BY <1>2, <1>3, <1>6, <1>7, <1>8

LEMMA GetNextChunkKeepsBasic ==
  ASSUME Basic, GetNextChunk
  PROVE  Basic'
<1> USE DEF Basic, GetNextChunk, Over, requestVars, redisVars, storageVars, workerVars
<1>1. watched' \in [Connection -> SUBSET Operation] /\ stale' \in SUBSET Connection
  BY WatchesEnd, ConnectionAssumption
<1>2. list \in Seq(Key) /\ selected \in Seq(Key) /\ opKeys \in Seq(Key)
  BY DEF TypeOK
<1>3. list' \in Seq(Key) /\ selected' \in Seq(Key) /\ opKeys' \in Seq(Key)
  <2>1. \/ list' = list /\ selected' = selected
        \/ /\ list' = SubSeq(list, Len(opKeys) + 1, Len(list))
           /\ selected' = selected \o opKeys
    BY DEF CallSoFar
  <2>2. opKeys' = opKeys \/ opKeys' = <<>>
    OBVIOUS
  <2>3. SubSeq(list, Len(opKeys) + 1, Len(list)) \in Seq(Key)
    BY <1>2
  <2>4. selected \o opKeys \in Seq(Key) /\ <<>> \in Seq(Key)
    BY <1>2
  <2> QED BY <1>2, <2>1, <2>2, <2>3, <2>4, Zenon
<1>4. TypeOK'
  BY <1>1, <1>3 DEF TypeOK
<1>5. OneBasis'
  BY DEF OneBasis
<1>6. CallSoFar'
  BY DEF CallSoFar
<1> QED BY <1>4, <1>5, <1>6

LEMMA EventOfChunk ==
  ASSUME Basic, step # "idle"
  PROVE  [basis |-> basis, keys |-> opKeys] \in Event
BY DEF Basic, TypeOK, CallSoFar, Event

LEMMA WritesKeepBasic ==
  ASSUME Basic, WriteOperations \/ SetEventGossip
  PROVE  Basic'
<1> USE DEF Basic, requestVars, redisVars, storageVars, workerVars
<1>1. CASE WriteOperations
  <2>1. stored' \in SUBSET Operation
    BY <1>1, OperationsOfSequence DEF WriteOperations, TypeOK
  <2>2. TypeOK'
    BY <1>1, <2>1 DEF WriteOperations, TypeOK
  <2> QED BY <1>1, <2>2 DEF WriteOperations, OneBasis, CallSoFar
<1>2. CASE SetEventGossip
  <2>1. \A e \in gossip' : e \in Event
    BY <1>2, EventOfChunk DEF SetEventGossip, TypeOK
  <2>2. TypeOK'
    BY <1>2, <2>1 DEF SetEventGossip, TypeOK
  <2> QED BY <1>2, <2>2 DEF SetEventGossip, OneBasis, CallSoFar
<1> QED BY <1>1, <1>2

LEMMA StoreEventKeepsBasic ==
  ASSUME Basic, StoreEvent
  PROVE  Basic'
<1> USE DEF Basic, StoreEvent, requestVars, redisVars, storageVars, workerVars
<1> DEFINE new == [basis |-> basis, keys |-> opKeys]
<1>1. new \in Event /\ events \in Seq(Event)
  BY EventOfChunk DEF TypeOK
<1>2. events' = Append(events, new)
  OBVIOUS
<1>3. new.basis = basis /\ new.keys = opKeys
  OBVIOUS
<1> HIDE DEF new
<1>4. /\ events' \in Seq(Event) /\ Len(events') = Len(events) + 1
      /\ Len(events) \in Nat
      /\ \A i \in 1..Len(events) : events'[i] = events[i]
      /\ events'[Len(events) + 1] = new
  BY <1>1, <1>2
<1>5. childless' \in SUBSET (1..Len(events'))
  BY <1>4 DEF TypeOK
<1>6. TypeOK'
  BY <1>4, <1>5 DEF TypeOK
<1>7. OneBasis'
  <2> SUFFICES ASSUME NEW i \in 1..Len(events'), NEW k \in SetOf(events'[i].keys)
               PROVE  k[1] = events'[i].basis
    BY DEF OneBasis
  <2>1. CASE i \in 1..Len(events)
    BY <1>4, <2>1 DEF OneBasis
  <2>2. CASE i = Len(events) + 1
    BY <1>3, <1>4, <2>2 DEF CallSoFar, SetOf
  <2> QED BY <1>4, <2>1, <2>2
<1>8. CallSoFar'
  BY <1>4 DEF CallSoFar
<1> QED BY <1>6, <1>7, <1>8

LEMMA AddLocalRegularEventKeepsBasic ==
  ASSUME Basic, AddLocalRegularEvent
  PROVE  Basic'
<1> USE DEF Basic, AddLocalRegularEvent, requestVars, redisVars, storageVars, workerVars
<1>1. watched' \in [Connection -> SUBSET Operation] /\ stale' \in SUBSET Connection
  BY WatchesEnd, ConnectionAssumption
<1>2. childless' \in SUBSET (1..Len(events'))
  <2>1. Len(events) \in 1..Len(events)
    BY DEF TypeOK, CallSoFar
  <2> QED BY <2>1 DEF TypeOK
<1>3. TypeOK'
  BY <1>1, <1>2 DEF TypeOK
<1> QED BY <1>3 DEF OneBasis, CallSoFar

LEMMA PopChunkKeepsBasic ==
  ASSUME Basic, PopChunk
  PROVE  Basic'
<1> USE DEF Basic, PopChunk, Over, requestVars, redisVars, storageVars, workerVars
<1>1. watched' \in [Connection -> SUBSET Operation] /\ stale' \in SUBSET Connection
  BY WatchesEnd, ConnectionAssumption
<1>2. <<>> \in Seq(Key)
  OBVIOUS
<1>3. TypeOK'
  BY <1>1, <1>2 DEF TypeOK
<1> QED BY <1>3 DEF OneBasis, CallSoFar

LEMMA FailKeepsBasic ==
  ASSUME Basic, Fail
  PROVE  Basic'
<1> USE DEF Basic, Fail, Over, requestVars, redisVars, storageVars, workerVars
<1>1. failures' \in 0..MaxFailures
  BY FailuresAssumption DEF TypeOK
<1>2. <<>> \in Seq(Key)
  OBVIOUS
<1>3. TypeOK'
  BY <1>1, <1>2 DEF TypeOK
<1> QED BY <1>3 DEF OneBasis, CallSoFar

LEMMA StepKeepsBasic == Basic /\ [Next]_vars => Basic'
<1> SUFFICES ASSUME Basic, [Next]_vars PROVE Basic'
  OBVIOUS
<1>1. CASE \E r \in Request : CheckCache(r) \/ CheckStorage(r) \/ Add(r)
  BY <1>1, RequestKeepsBasic
<1>2. CASE Worker
  BY <1>2, HasNextChunkKeepsBasic, GetNextChunkKeepsBasic, WritesKeepBasic,
     StoreEventKeepsBasic, AddLocalRegularEventKeepsBasic, PopChunkKeepsBasic
     DEF Worker
<1>3. CASE Fail
  BY <1>3, FailKeepsBasic
<1>4. CASE UNCHANGED vars
  BY <1>4 DEF Basic, TypeOK, OneBasis, CallSoFar, vars, requestVars, redisVars,
              storageVars, workerVars
<1> QED BY <1>1, <1>2, <1>3, <1>4 DEF Next

-----------------------------------------------------------------------------
(* Every operation in one place, and found by the requests that submit it  *)

Detection == StaysDetectable /\ Found /\ OnePlace /\ Watches

LEMMA InitialDetection == Init => Detection
<1> SUFFICES ASSUME Init PROVE Detection
  OBVIOUS
<1>1. /\ list = <<>> /\ opKeys = <<>> /\ events = <<>> /\ todo = {} /\ step = "idle"
  BY DEF Init
<1>2. Queued = {} /\ Taken = {} /\ Unwritten = {}
  BY <1>1 DEF Queued, Taken, Unwritten, OperationsOf, SetOf
<1>3. Found
  BY <1>1, <1>2 DEF Found
<1>4. OnePlace
  BY <1>1, <1>2 DEF OnePlace, Distinct
<1>5. StaysDetectable /\ Watches
  BY ConnectionAssumption DEF Init, StaysDetectable, Watches
<1> QED BY <1>3, <1>4, <1>5 DEF Detection

(* An operation that is in an event or will be is in storage or has a hash. *)
LEMMA UnwrittenIsTaken == CallSoFar /\ TypeOK => Unwritten \subseteq Taken
BY DEF CallSoFar, TypeOK, Unwritten, Taken

LEMMA PlacesKeep ==
  ASSUME OnePlace, UNCHANGED events, Distinct(list'), Distinct(opKeys'),
         Queued' \cap Taken' = {},
         \A i \in 1..Len(events) : WrittenIn(i) \cap (Queued' \cup Unwritten') = {}
  PROVE  OnePlace'
<1>1. \A i : WrittenIn(i)' = WrittenIn(i)
  BY DEF WrittenIn
<1>2. \A i \in 1..Len(events) : Distinct(events[i].keys)
  BY DEF OnePlace
<1>3. \A i \in 1..Len(events') : Distinct(events'[i].keys)
  BY <1>2, Zenon
<1>4. \A i, j \in 1..Len(events) : WrittenIn(i) \cap WrittenIn(j) # {} => i = j
  BY DEF OnePlace
<1>5. \A i, j \in 1..Len(events') : WrittenIn(i)' \cap WrittenIn(j)' # {} => i = j
  BY <1>1, <1>4, Zenon
<1>6. \A i \in 1..Len(events') : WrittenIn(i)' \cap (Queued' \cup Unwritten') = {}
  BY <1>1, Zenon
<1> QED BY <1>3, <1>5, <1>6, Zenon DEF OnePlace

LEMMA PlacesUnchanged ==
  ASSUME Found, OnePlace,
         UNCHANGED <<list, opKeys, events, step, todo, hashes, stored>>
  PROVE  Found' /\ OnePlace'
<1>1. Queued' = Queued /\ Taken' = Taken /\ Unwritten' = Unwritten
  BY Zenon DEF Queued, Taken, Unwritten
<1>2. Found'
  BY <1>1 DEF Found, WrittenIn
<1>3. OnePlace'
  <2>1. /\ Distinct(list) /\ Distinct(opKeys) /\ Queued \cap Taken = {}
        /\ \A i \in 1..Len(events) : WrittenIn(i) \cap (Queued \cup Unwritten) = {}
    BY DEF OnePlace
  <2> QED BY <1>1, <2>1, PlacesKeep, Zenon
<1> QED BY <1>2, <1>3

(* The watches of requests while nothing they look at changes.             *)
LEMMA WatchesUnchanged ==
  ASSUME TypeOK, Watches, Unshared, StaysDetectable,
         UNCHANGED <<phase, key, hashes, stored>>,
         \/ UNCHANGED <<watched, stale>>
         \/ EndsWatches(WorkerConnection, {})
  PROVE  StaysDetectable' /\ Watches'
<1>1. StaysDetectable'
  BY DEF StaysDetectable
<1>2. Watches'
  <2>1. CASE UNCHANGED <<watched, stale>>
    BY <2>1 DEF Watches
  <2>2. CASE EndsWatches(WorkerConnection, {})
    <3>1. /\ watched'[WorkerConnection] = {} /\ WorkerConnection \notin stale'
          /\ \A r \in Request :
               /\ watched'[ConnectionOf[r]] = watched[ConnectionOf[r]]
               /\ ConnectionOf[r] \in stale' <=> ConnectionOf[r] \in stale
      <4>1. \A r \in Request : ConnectionOf[r] \in Connection \ {WorkerConnection}
        BY ConnectionAssumption DEF Unshared
      <4> QED BY <2>2, <4>1, WatchesEnd, ConnectionAssumption
    <3> QED BY <3>1 DEF Watches
  <2> QED BY <2>1, <2>2
<1> QED BY <1>1, <1>2

LEMMA CheckCacheKeepsDetection ==
  ASSUME Basic, Unshared, Detection, NEW r \in Request, CheckCache(r)
  PROVE  Detection'
<1> USE DEF Basic, Detection, requestVars, redisVars, storageVars, workerVars
<1> DEFINE c(q) == ConnectionOf[q]
           op(q) == key[q][2]
<1>1. \A q \in Request : /\ c(q) \in Connection /\ c(q) # WorkerConnection
                         /\ q # r => c(q) # c(r)
  BY ConnectionAssumption DEF Unshared
<1>2. Found' /\ OnePlace'
  BY PlacesUnchanged DEF CheckCache
<1>3. /\ key' = key /\ hashes' = hashes /\ stored' = stored
      /\ \A q \in Request \ {r} : phase'[q] = phase[q]
      /\ phase'[r] \notin {"accepted", "unknown"}
      /\ phase'[r] = "watching" => op(r) \notin hashes
  BY DEF CheckCache, TypeOK
<1>4. StaysDetectable'
  BY <1>3 DEF StaysDetectable
<1>5. /\ watched'[WorkerConnection] = watched[WorkerConnection]
      /\ WorkerConnection \in stale' => WorkerConnection \in stale
      /\ \A q \in Request \ {r} : /\ watched'[c(q)] = watched[c(q)]
                                  /\ c(q) \in stale' <=> c(q) \in stale
      /\ watched'[c(r)] \subseteq {op(r)}
      /\ c(r) \in stale' => c(r) \in stale
      /\ phase'[r] = "watching" => op(r) \in watched'[c(r)]
  <2>1. CASE op(r) \in hashes
    <3>1. EndsWatches(c(r), {}) /\ phase'[r] = "duplicate"
      BY <2>1 DEF CheckCache, TypeOK
    <3> QED BY <1>1, <3>1, WatchesEnd, ConnectionAssumption
  <2>2. CASE op(r) \notin hashes
    <3>1. watched' = [watched EXCEPT ![c(r)] = @ \cup {op(r)}] /\ stale' = stale
      BY <2>2 DEF CheckCache
    <3>2. watched \in [Connection -> SUBSET Operation]
      BY DEF TypeOK
    <3>3. /\ watched'[c(r)] = watched[c(r)] \cup {op(r)}
          /\ \A d \in Connection \ {c(r)} : watched'[d] = watched[d]
      BY <1>1, <3>1, <3>2
    <3>4. watched[c(r)] \subseteq {op(r)}
      BY DEF Watches
    <3> QED BY <1>1, <3>1, <3>3, <3>4, ConnectionAssumption
  <2> QED BY <2>1, <2>2
<1>6. Watches'
  <2> SUFFICES ASSUME NEW q \in Request
               PROVE  /\ watched'[c(q)] \subseteq {op(q)}
                      /\ c(q) \in stale' => op(q) \in hashes \cup stored
                      /\ phase'[q] \in {"watching", "unknown"} =>
                           c(q) \in stale' \/ op(q) \in watched'[c(q)] \ hashes
                      /\ phase'[q] = "unknown" => c(q) \in stale' \/ op(q) \notin stored
    BY <1>3, <1>5 DEF Watches
  <2>1. CASE q = r
    BY <1>3, <1>5, <2>1 DEF Watches
  <2>2. CASE q # r
    BY <1>3, <1>5, <2>2 DEF Watches
  <2> QED BY <2>1, <2>2
<1> QED BY <1>2, <1>4, <1>6

LEMMA CheckStorageKeepsDetection ==
  ASSUME Basic, Unshared, Detection, NEW r \in Request, CheckStorage(r)
  PROVE  Detection'
<1> USE DEF Basic, Detection, requestVars, redisVars, storageVars, workerVars
<1>1. Found' /\ OnePlace'
  BY PlacesUnchanged DEF CheckStorage
<1>2. StaysDetectable'
  BY DEF CheckStorage, StaysDetectable, TypeOK
<1>3. Watches'
  BY DEF CheckStorage, Watches, TypeOK
<1> QED BY <1>1, <1>2, <1>3

LEMMA AddKeepsDetection ==
  ASSUME Basic, Unshared, Detection, NEW r \in Request, Add(r)
  PROVE  Detection'
<1> USE DEF Basic, Detection, requestVars, redisVars, storageVars, workerVars
<1> DEFINE c(q) == ConnectionOf[q]
           op(q) == key[q][2]
<1>1. \A q \in Request : /\ c(q) \in Connection /\ c(q) # WorkerConnection
                         /\ q # r => c(q) # c(r)
  BY ConnectionAssumption DEF Unshared
<1>2. /\ key' = key /\ stored' = stored /\ events' = events /\ opKeys' = opKeys
      /\ step' = step /\ todo' = todo
      /\ phase'[r] = "accepted" /\ \A q \in Request \ {r} : phase'[q] = phase[q]
  BY DEF Add, TypeOK
<1>3. CASE c(r) \in stale
  <2>1. EndsWatches(c(r), {}) /\ hashes' = hashes /\ list' = list
    BY <1>3 DEF Add
  <2>2. Found' /\ OnePlace'
    BY <1>2, <2>1, PlacesUnchanged
  <2>3. StaysDetectable'
    BY <1>2, <1>3, <2>1 DEF StaysDetectable, Watches
  <2>4. /\ watched'[WorkerConnection] = watched[WorkerConnection]
        /\ WorkerConnection \in stale' => WorkerConnection \in stale
        /\ watched'[c(r)] = {} /\ c(r) \notin stale'
        /\ \A q \in Request \ {r} : /\ watched'[c(q)] = watched[c(q)]
                                    /\ c(q) \in stale' <=> c(q) \in stale
    BY <1>1, <2>1, WatchesEnd, ConnectionAssumption
  <2>5. Watches'
    BY <1>2, <2>1, <2>4 DEF Watches
  <2> QED BY <2>2, <2>3, <2>5
<1>4. CASE c(r) \notin stale
  <2>1. /\ EndsWatches(c(r), {op(r)}) /\ hashes' = hashes \cup {op(r)}
        /\ list' = Append(list, key[r]) /\ phase[r] = "unknown"
    BY <1>4 DEF Add
  <2>2. op(r) \notin hashes /\ op(r) \notin stored
    BY <1>4, <2>1 DEF Watches
  <2>3. /\ op(r) \notin Queued /\ op(r) \notin Taken /\ op(r) \notin Unwritten
        /\ \A i \in 1..Len(events) : op(r) \notin WrittenIn(i)
    BY <2>2, UnwrittenIsTaken DEF Found
  <2>4. Queued' = Queued \cup {op(r)} /\ Distinct(list')
    BY <2>1, <2>3, OperationsOfAppend DEF OnePlace, Queued, TypeOK
  <2>5. /\ Taken' = Taken /\ Unwritten' = Unwritten
        /\ \A i \in 1..Len(events) : WrittenIn(i)' = WrittenIn(i)
    BY <1>2 DEF Taken, Unwritten, WrittenIn
  <2>6. Found'
    BY <1>2, <2>1, <2>4, <2>5 DEF Found, WrittenIn
  <2>7. OnePlace'
    <3>1. \A i \in 1..Len(events) : WrittenIn(i) \cap (Queued' \cup Unwritten) = {}
      BY <2>3, <2>4 DEF OnePlace
    <3>2. Queued' \cap Taken = {}
      BY <2>3, <2>4 DEF OnePlace
    <3>3. Distinct(opKeys') /\ UNCHANGED events
      BY <1>2 DEF OnePlace
    <3>4. Queued' \cap Taken' = {}
      BY <2>5, <3>2
    <3> QED BY <2>4, <2>5, <3>1, <3>3, <3>4, PlacesKeep, Zenon
  <2>8. StaysDetectable'
    BY <1>2, <2>1 DEF StaysDetectable
  <2>9. /\ watched'[WorkerConnection] = watched[WorkerConnection]
        /\ WorkerConnection \in stale' => WorkerConnection \in stale
        /\ watched'[c(r)] = {} /\ c(r) \notin stale'
        /\ \A q \in Request \ {r} :
             /\ watched'[c(q)] = watched[c(q)]
             /\ c(q) \in stale' <=> c(q) \in stale \/ op(r) \in watched[c(q)]
    <3>1. op(r) \notin watched[WorkerConnection]
      BY DEF Watches
    <3> QED BY <1>1, <2>1, <3>1, WatchesEnd, ConnectionAssumption
  <2>10. Watches'
    <3> SUFFICES ASSUME NEW q \in Request
                 PROVE  /\ watched'[c(q)] \subseteq {op(q)}
                        /\ c(q) \in stale' => op(q) \in hashes' \cup stored
                        /\ phase'[q] \in {"watching", "unknown"} =>
                             c(q) \in stale' \/ op(q) \in watched'[c(q)] \ hashes'
                        /\ phase'[q] = "unknown" =>
                             c(q) \in stale' \/ op(q) \notin stored
      BY <1>2, <2>9 DEF Watches
    <3>1. CASE q = r
      BY <1>2, <2>9, <3>1
    <3>2. CASE q # r
      <4>1. op(r) \in watched[c(q)] => op(q) = op(r)
        BY DEF Watches
      <4> QED BY <1>2, <2>1, <2>9, <3>2, <4>1 DEF Watches
    <3> QED BY <3>1, <3>2
  <2> QED BY <2>6, <2>7, <2>8, <2>10
<1> QED BY <1>3, <1>4

LEMMA HasNextChunkKeepsDetection ==
  ASSUME Basic, Unshared, Detection, HasNextChunk
  PROVE  Detection'
<1> USE DEF Basic, Detection, requestVars, redisVars, storageVars, workerVars
<1>1. StaysDetectable' /\ Watches'
  BY WatchesUnchanged DEF HasNextChunk
<1>2. /\ Basic' /\ opKeys' = NextKeys(list) /\ list' = list /\ list # <<>>
      /\ step = "idle" /\ step' = "chosen" /\ todo' = todo /\ events' = events
      /\ hashes' = hashes /\ stored' = stored
  BY HasNextChunkKeepsBasic DEF HasNextChunk
<1>3. /\ Queued' = Queued /\ Taken = {} /\ Taken' = {} /\ Unwritten = {} /\ Unwritten' = {}
  BY <1>2 DEF Queued, Taken, Unwritten, CallSoFar
<1>4. Distinct(opKeys')
  <2>1. /\ Len(opKeys') \in 1..Len(list)
        /\ \A i \in 1..Len(opKeys') : opKeys'[i] = list[i]
    BY <1>2, NextKeysOfQueue DEF TypeOK
  <2>2. \A i \in 1..Len(opKeys') : i \in 1..Len(list)
    BY <2>1
  <2> QED BY <2>1, <2>2 DEF OnePlace, Distinct
<1>5. Found'
  BY <1>2, <1>3 DEF Found, WrittenIn
<1>6. OnePlace'
  <2>1. Distinct(list) /\ \A i \in 1..Len(events) : WrittenIn(i) \cap Queued = {}
    BY DEF OnePlace
  <2>2. Distinct(list') /\ UNCHANGED events
    BY <1>2, <2>1
  <2>3. \A i \in 1..Len(events) : WrittenIn(i) \cap (Queued' \cup Unwritten') = {}
    BY <1>3, <2>1
  <2>4. Queued' \cap Taken' = {}
    BY <1>3
  <2> QED BY <1>4, <2>2, <2>3, <2>4, PlacesKeep
<1> QED BY <1>1, <1>5, <1>6

(* Whatever a failed call leaves: its chunk is not in the queue any more,  *)
(* or still is.                                                            *)
LEMMA OverKeepsPlaces ==
  ASSUME CallSoFar, Found, OnePlace, Over, list' \in Seq(Key), Queued' \subseteq Queued,
         Distinct(list'), UNCHANGED <<events, stored>>, Queued' \subseteq hashes'
  PROVE  Found' /\ OnePlace'
<1>1. Taken' = {} /\ Unwritten' = {} /\ opKeys' = <<>> /\ step' = "idle"
  BY DEF Over, Taken, Unwritten
<1>2. Found'
  BY <1>1 DEF Found, WrittenIn
<1>3. Distinct(opKeys')
  BY <1>1 DEF Distinct
<1>4. OnePlace'
  <2>1. \A i \in 1..Len(events) : WrittenIn(i) \cap (Queued' \cup Unwritten') = {}
    BY <1>1 DEF OnePlace
  <2>2. Queued' \cap Taken' = {} /\ UNCHANGED events
    BY <1>1
  <2> QED BY <1>3, <2>1, <2>2, PlacesKeep
<1> QED BY <1>2, <1>4

LEMMA GetNextChunkKeepsDetection ==
  ASSUME Basic, Unshared, Detection, GetNextChunk
  PROVE  Detection'
<1> USE DEF Basic, Detection, requestVars, redisVars, storageVars, workerVars
<1>1. StaysDetectable' /\ Watches'
  BY WatchesUnchanged DEF GetNextChunk
<1>2. /\ list' = SubSeq(list, Len(opKeys) + 1, Len(list)) /\ step = "chosen"
      /\ UNCHANGED <<events, stored, hashes>>
      /\ \/ step' = "taken" /\ todo' = todo /\ opKeys' = opKeys
         \/ Over
  BY DEF GetNextChunk, Watches, CallSoFar
<1> DEFINE n == Len(opKeys)
<1>3. /\ n \in Nat /\ Len(list) \in Nat /\ n <= Len(list)
      /\ \A i \in 1..n : i \in 1..Len(list) /\ opKeys[i] = list[i]
  BY <1>2 DEF CallSoFar, TypeOK
<1>4. /\ list' \in Seq(Key) /\ Len(list') = Len(list) - n
      /\ \A i \in 1..Len(list') : i + n \in 1..Len(list) /\ list'[i] = list[i + n]
  <2>1. list \in Seq(Key)
    BY DEF TypeOK
  <2> HIDE DEF n
  <2> QED BY <1>2, <1>3, <2>1 DEF n
<1> HIDE DEF n
<1>5. list \in Seq(Key) /\ opKeys \in Seq(Key)
  BY DEF TypeOK
<1>6. Queued' \subseteq Queued
  BY <1>4, <1>5, OperationsOfSequence DEF Queued
<1>7. OperationsOf(opKeys) \subseteq Queued
  BY <1>3, <1>5, OperationsOfSequence DEF Queued, n
<1>8. Queued' \cap OperationsOf(opKeys) = {}
  <2> SUFFICES ASSUME NEW i \in 1..Len(list'), NEW j \in 1..n,
                      list'[i][2] = opKeys[j][2]
               PROVE  FALSE
    <3>1. \A op \in Queued' : \E i \in 1..Len(list') : list'[i][2] = op
      BY <1>4, OperationsOfSequence DEF Queued
    <3>2. \A op \in OperationsOf(opKeys) : \E j \in 1..n : opKeys[j][2] = op
      BY <1>5, OperationsOfSequence DEF n
    <3> QED BY <3>1, <3>2
  <2>1. i + n = j
    BY <1>3, <1>4 DEF OnePlace, Distinct
  <2> QED BY <1>3, <1>4, <2>1
<1>9. Distinct(list')
  <2> SUFFICES ASSUME NEW i \in 1..Len(list'), NEW j \in 1..Len(list'),
                      list'[i][2] = list'[j][2]
               PROVE  i = j
    BY DEF Distinct
  <2>1. i + n = j + n
    BY <1>4 DEF OnePlace, Distinct
  <2> QED BY <1>3, <1>4, <2>1
<1>10. CASE Over
  BY <1>1, <1>2, <1>4, <1>6, <1>9, <1>10, OverKeepsPlaces DEF Found
<1>11. CASE step' = "taken" /\ todo' = todo /\ opKeys' = opKeys
  <2>1. Taken' = OperationsOf(opKeys) /\ Unwritten' = OperationsOf(opKeys)
    BY <1>11 DEF Taken, Unwritten
  <2>2. Found'
    BY <1>2, <1>6, <1>7, <1>11, <2>1 DEF Found, WrittenIn
  <2>3. \A i \in 1..Len(events) : WrittenIn(i) \cap (Queued' \cup Unwritten') = {}
    BY <1>6, <1>7, <2>1 DEF OnePlace
  <2>4. OnePlace'
    <3>1. Distinct(opKeys') /\ UNCHANGED events
      BY <1>2, <1>11 DEF OnePlace
    <3>2. Queued' \cap Taken' = {}
      BY <1>8, <2>1
    <3> QED BY <1>9, <2>3, <3>1, <3>2, PlacesKeep
  <2> QED BY <1>1, <2>2, <2>4
<1> QED BY <1>2, <1>10, <1>11

LEMMA WriteOperationsKeepsDetection ==
  ASSUME Basic, Unshared, Detection, WriteOperations
  PROVE  Detection'
<1> USE DEF Basic, Detection, WriteOperations, requestVars, redisVars, storageVars, workerVars
<1>1. /\ Taken' = Taken /\ Taken = OperationsOf(opKeys) /\ Unwritten' = Unwritten
      /\ Queued' = Queued /\ stored' = stored \cup Taken
  BY DEF Taken, Unwritten, Queued
<1>2. Found'
  BY <1>1 DEF Found, WrittenIn
<1>3. OnePlace'
  <2>1. Distinct(list') /\ Distinct(opKeys') /\ UNCHANGED events
    BY DEF OnePlace
  <2>2. Queued' \cap Taken' = {}
    BY <1>1 DEF OnePlace
  <2>3. \A i \in 1..Len(events) : WrittenIn(i) \cap (Queued' \cup Unwritten') = {}
    BY <1>1 DEF OnePlace
  <2> QED BY <2>1, <2>2, <2>3, PlacesKeep
<1>4. StaysDetectable'
  BY DEF StaysDetectable
<1>5. Taken \subseteq hashes
  BY DEF Found
<1>6. Watches'
  BY <1>1, <1>5 DEF Watches
<1> QED BY <1>2, <1>3, <1>4, <1>6

LEMMA SetEventGossipKeepsDetection ==
  ASSUME Basic, Unshared, Detection, SetEventGossip
  PROVE  Detection'
<1> USE DEF Basic, Detection, SetEventGossip, requestVars, redisVars, storageVars, workerVars
<1>1. StaysDetectable' /\ Watches'
  BY WatchesUnchanged
<1>2. Taken' = Taken /\ Unwritten' = Unwritten /\ Queued' = Queued
  BY DEF Taken, Unwritten, Queued
<1>3. Found'
  BY <1>2 DEF Found, WrittenIn
<1>4. OnePlace'
  <2>1. Distinct(list') /\ Distinct(opKeys') /\ UNCHANGED events
    BY DEF OnePlace
  <2>2. Queued' \cap Taken' = {}
    BY <1>2 DEF OnePlace
  <2>3. \A i \in 1..Len(events) : WrittenIn(i) \cap (Queued' \cup Unwritten') = {}
    BY <1>2 DEF OnePlace
  <2> QED BY <2>1, <2>2, <2>3, PlacesKeep
<1> QED BY <1>1, <1>3, <1>4

LEMMA StoreEventKeepsDetection ==
  ASSUME Basic, Unshared, Detection, StoreEvent
  PROVE  Detection'
<1> USE DEF Basic, Detection, StoreEvent, requestVars, redisVars, storageVars, workerVars
<1>1. StaysDetectable' /\ Watches'
  BY WatchesUnchanged
<1>2. /\ Taken' = Taken /\ Unwritten' = {} /\ Queued' = Queued
      /\ Taken = OperationsOf(opKeys) /\ Unwritten = OperationsOf(opKeys)
  BY DEF Taken, Unwritten, Queued
<1> DEFINE new == [basis |-> basis, keys |-> opKeys]
<1>3. new.keys = opKeys /\ new \in Event /\ events \in Seq(Event)
  BY EventOfChunk DEF TypeOK
<1>4. events' = Append(events, new)
  OBVIOUS
<1> HIDE DEF new
<1> PICK n \in Nat : n = Len(events) + 1
  BY <1>3
<1>5. /\ Len(events') = n /\ events'[n] = new
      /\ \A i \in 1..Len(events) : events'[i] = events[i]
      /\ \A i \in 1..n : i = n \/ i \in 1..Len(events)
  BY <1>3, <1>4
<1>6. /\ WrittenIn(n)' = OperationsOf(opKeys)
      /\ \A i \in 1..Len(events) : WrittenIn(i)' = WrittenIn(i)
  BY <1>3, <1>5 DEF WrittenIn
<1>7. Found'
  BY <1>2, <1>5, <1>6 DEF Found
<1>8. OnePlace'
  <2>1. Distinct(list') /\ Distinct(opKeys') /\ Queued' \cap Taken' = {}
    BY <1>2 DEF OnePlace
  <2>2. ASSUME NEW i \in 1..n
        PROVE  /\ Distinct(events'[i].keys)
               /\ WrittenIn(i)' \cap (Queued' \cup Unwritten') = {}
    BY <1>2, <1>3, <1>5, <1>6 DEF OnePlace
  <2>3. ASSUME NEW i \in 1..n, NEW j \in 1..n, WrittenIn(i)' \cap WrittenIn(j)' # {}
        PROVE  i = j
    BY <1>2, <1>5, <1>6, <2>3 DEF OnePlace
  <2> QED BY <1>5, <2>1, <2>2, <2>3 DEF OnePlace, Distinct
<1> QED BY <1>1, <1>7, <1>8

LEMMA AddLocalRegularEventKeepsDetection ==
  ASSUME Basic, Unshared, Detection, AddLocalRegularEvent
  PROVE  Detection'
<1> USE DEF Basic, Detection, AddLocalRegularEvent, requestVars, redisVars, storageVars,
            workerVars
<1>1. StaysDetectable' /\ Watches'
  BY WatchesUnchanged
<1>2. Taken' = Taken /\ Unwritten' = Unwritten /\ Queued' = Queued
  BY DEF Taken, Unwritten, Queued
<1>3. Found'
  BY <1>2 DEF Found, WrittenIn
<1>4. OnePlace'
  <2>1. Distinct(list') /\ Distinct(opKeys') /\ UNCHANGED events
    BY DEF OnePlace
  <2>2. Queued' \cap Taken' = {}
    BY <1>2 DEF OnePlace
  <2>3. \A i \in 1..Len(events) : WrittenIn(i) \cap (Queued' \cup Unwritten') = {}
    BY <1>2 DEF OnePlace
  <2> QED BY <2>1, <2>2, <2>3, PlacesKeep
<1> QED BY <1>1, <1>3, <1>4

LEMMA PopChunkKeepsDetection ==
  ASSUME Basic, Unshared, Detection, PopChunk
  PROVE  Detection'
<1> USE DEF Basic, Detection, requestVars, redisVars, storageVars, workerVars
<1>1. /\ EndsWatches(WorkerConnection, Taken) /\ hashes' = hashes \ Taken
      /\ Over /\ Taken \subseteq stored
      /\ UNCHANGED <<phase, key, list, events, stored>>
  BY DEF PopChunk, Watches, Taken, Found
<1>2. Found' /\ OnePlace'
  <2>1. Queued' = Queued /\ list' \in Seq(Key) /\ Distinct(list')
    BY <1>1 DEF Queued, TypeOK, OnePlace
  <2>2. Queued' \subseteq hashes'
    BY <1>1, <2>1 DEF Found, OnePlace
  <2> QED BY <1>1, <2>1, <2>2, OverKeepsPlaces
<1>3. StaysDetectable'
  BY <1>1 DEF StaysDetectable
<1>4. /\ watched'[WorkerConnection] = {} /\ WorkerConnection \notin stale'
      /\ \A r \in Request :
           /\ watched'[ConnectionOf[r]] = watched[ConnectionOf[r]]
           /\ ConnectionOf[r] \in stale' <=>
                ConnectionOf[r] \in stale \/ watched[ConnectionOf[r]] \cap Taken # {}
  <2>1. \A r \in Request : ConnectionOf[r] \in Connection \ {WorkerConnection}
    BY ConnectionAssumption DEF Unshared
  <2> QED BY <1>1, <2>1, WatchesEnd, ConnectionAssumption
<1>5. Watches'
  <2> SUFFICES ASSUME NEW r \in Request
               PROVE  LET op == key[r][2]
                          c == ConnectionOf[r]
                      IN  /\ watched'[c] \subseteq {op}
                          /\ c \in stale' => op \in hashes' \cup stored
                          /\ phase[r] \in {"watching", "unknown"} =>
                               c \in stale' \/ op \in watched'[c] \ hashes'
                          /\ phase[r] = "unknown" => c \in stale' \/ op \notin stored
    BY <1>1, <1>4 DEF Watches
  <2>1. watched[ConnectionOf[r]] \cap Taken # {} => key[r][2] \in Taken
    BY DEF Watches
  <2> QED BY <1>1, <1>4, <2>1 DEF Watches
<1> QED BY <1>2, <1>3, <1>5

LEMMA FailKeepsDetection ==
  ASSUME Basic, Unshared, Detection, Fail
  PROVE  Detection'
<1> USE DEF Basic, Detection, Fail, requestVars, redisVars, storageVars, workerVars
<1>1. StaysDetectable' /\ Watches'
  BY WatchesUnchanged
<1>2. Queued' = Queued /\ list' \in Seq(Key) /\ Distinct(list') /\ Queued' \subseteq hashes'
  BY DEF Queued, TypeOK, OnePlace, Found
<1>3. Found' /\ OnePlace'
  BY <1>2, OverKeepsPlaces
<1> QED BY <1>1, <1>3

LEMMA StepKeepsDetection ==
  Unshared /\ Basic /\ Detection /\ [Next]_vars => Detection'
<1> SUFFICES ASSUME Unshared, Basic, Detection, [Next]_vars PROVE Detection'
  OBVIOUS
<1>1. CASE \E r \in Request : CheckCache(r) \/ CheckStorage(r) \/ Add(r)
  BY <1>1, CheckCacheKeepsDetection, CheckStorageKeepsDetection, AddKeepsDetection
<1>2. CASE Worker
  BY <1>2, HasNextChunkKeepsDetection, GetNextChunkKeepsDetection,
     WriteOperationsKeepsDetection, SetEventGossipKeepsDetection,
     StoreEventKeepsDetection, AddLocalRegularEventKeepsDetection,
     PopChunkKeepsDetection DEF Worker
<1>3. CASE Fail
  BY <1>3, FailKeepsDetection
<1>4. CASE UNCHANGED vars
  <2>1. Found' /\ OnePlace'
    BY <1>4, PlacesUnchanged DEF Detection, vars, requestVars, redisVars, storageVars, workerVars
  <2>2. StaysDetectable' /\ Watches'
    BY <1>4, WatchesUnchanged DEF Basic, Detection, vars, requestVars, redisVars,
                                  storageVars, workerVars
  <2> QED BY <2>1, <2>2 DEF Detection
<1> QED BY <1>1, <1>2, <1>3, <1>4 DEF Next

-----------------------------------------------------------------------------
(* The theorems *)

(* The call in progress holds the head of the queue, and if every request  *)
(* has a connection of its own, every operation has one place and is found *)
(* by all requests that submit it.                                         *)
THEOREM InvariantHolds == Spec => []InductiveInvariant
<1>1. Init => InductiveInvariant
  BY InitialBasic, InitialDetection DEF InductiveInvariant, Basic, Detection
<1>2. InductiveInvariant /\ [Next]_vars => InductiveInvariant'
  <2> SUFFICES ASSUME InductiveInvariant, [Next]_vars PROVE InductiveInvariant'
    OBVIOUS
  <2>1. Basic'
    BY StepKeepsBasic DEF InductiveInvariant, Basic
  <2>2. Unshared => Detection'
    BY StepKeepsDetection DEF InductiveInvariant, Basic, Detection
  <2> QED BY <2>1, <2>2 DEF InductiveInvariant, Basic, Detection, Unshared
<1> QED BY <1>1, <1>2, PTL DEF Spec

(* LocalOperations is type correct.                                        *)
THEOREM TypeCorrect == Spec => []TypeOK
<1>1. InductiveInvariant => TypeOK
  BY DEF InductiveInvariant
<1> QED BY <1>1, InvariantHolds, PTL

(* The operations of an event were submitted at its basisBlockHeight, also *)
(* while requests add to the queue that the worker takes the chunk from.   *)
THEOREM EventsHaveOneBasis == Spec => []OneBasis
<1>1. InductiveInvariant => OneBasis
  BY DEF InductiveInvariant
<1> QED BY <1>1, InvariantHolds, PTL

(* An accepted operation, also one whose transaction was dropped, is found *)
(* as a duplicate from then on, if no connection is shared.                *)
THEOREM AcceptedStaysDetectable ==
  ASSUME Unshared
  PROVE  Spec => []StaysDetectable
<1>1. InductiveInvariant => StaysDetectable
  BY DEF InductiveInvariant
<1> QED BY <1>1, InvariantHolds, PTL

(* A set without two members has at most one.                              *)
LEMMA AtMostOne ==
  ASSUME NEW S, \A x, y \in S : x = y
  PROVE  /\ Cardinality(S) \in {0, 1}
         /\ Cardinality(S) = 0 <=> S = {}
<1>1. CASE S = {}
  BY <1>1, FS_EmptySet
<1>2. CASE S # {}
  <2>1. PICK x \in S : S = {x}
    BY <1>2
  <2> QED BY <2>1, FS_Singleton
<1> QED BY <1>1, <1>2

(* One place means that an operation is counted once.                      *)
LEMMA CountedOnce == TypeOK /\ OnePlace => NeverTwice
<1> SUFFICES ASSUME TypeOK, OnePlace, NEW op \in Operation
             PROVE  Times(op) <= 1
  BY DEF NeverTwice
<1> DEFINE inList == {i \in 1..Len(list) : list[i][2] = op}
           inEvents == {at \in (1..Len(events)) \X (1..MaxOperations) :
                          /\ at[2] <= Len(events[at[1]].keys)
                          /\ events[at[1]].keys[at[2]][2] = op}
<1>1. list \in Seq(Key) /\ \A i \in 1..Len(events) : events[i].keys \in Seq(Key)
  <2>1. list \in Seq(Key) /\ events \in Seq(Event)
    BY DEF TypeOK
  <2>2. \A i \in 1..Len(events) : events[i] \in Event
    BY <2>1
  <2>3. \A e \in Event : e.keys \in Seq(Key)
    BY DEF Event
  <2> QED BY <2>1, <2>2, <2>3
<1>2. \A i, j \in inList : i = j
  BY DEF OnePlace, Distinct
<1>3. ASSUME NEW at \in inEvents
      PROVE  /\ at = <<at[1], at[2]>> /\ at[1] \in 1..Len(events)
             /\ at[2] \in 1..Len(events[at[1]].keys)
             /\ events[at[1]].keys[at[2]][2] = op
             /\ op \in WrittenIn(at[1])
  <2>1. /\ at = <<at[1], at[2]>> /\ at[1] \in 1..Len(events) /\ at[2] \in 1..MaxOperations
        /\ at[2] <= Len(events[at[1]].keys) /\ events[at[1]].keys[at[2]][2] = op
    OBVIOUS
  <2>2. at[2] \in 1..Len(events[at[1]].keys)
    BY <1>1, <2>1, ChunkAssumption
  <2>3. op \in WrittenIn(at[1])
    BY <1>1, <2>1, <2>2, OperationsOfSequence DEF WrittenIn
  <2> QED BY <2>1, <2>2, <2>3
<1> HIDE DEF inEvents
<1>4. \A at, bt \in inEvents : at = bt
  <2> SUFFICES ASSUME NEW at \in inEvents, NEW bt \in inEvents PROVE at = bt
    OBVIOUS
  <2>1. at[1] = bt[1]
    BY <1>3 DEF OnePlace
  <2>2. at[2] = bt[2]
    BY <1>3, <2>1 DEF OnePlace, Distinct
  <2> QED BY <1>3, <2>1, <2>2
<1>5. inList = {} \/ inEvents = {}
  <2> SUFFICES ASSUME NEW i \in inList, NEW at \in inEvents PROVE FALSE
    OBVIOUS
  <2>1. op \in Queued
    BY <1>1, OperationsOfSequence DEF Queued
  <2> QED BY <1>3, <2>1 DEF OnePlace
<1>6. /\ Cardinality(inList) \in {0, 1} /\ Cardinality(inEvents) \in {0, 1}
      /\ Cardinality(inList) = 0 \/ Cardinality(inEvents) = 0
  <2> HIDE DEF inList
  <2> QED BY <1>2, <1>4, <1>5, AtMostOne
<1>7. Times(op) = Cardinality(inList) + Cardinality(inEvents)
  BY Zenon DEF Times, inEvents
<1> HIDE DEF inList
<1> QED BY <1>6, <1>7

(* No operation is queued or written twice, however the requests that      *)
(* submit it interleave with each other and with the worker, if no         *)
(* connection is shared.                                                   *)
THEOREM NothingTwice ==
  ASSUME Unshared
  PROVE  Spec => []NeverTwice
<1>1. InductiveInvariant => NeverTwice
  BY CountedOnce DEF InductiveInvariant
<1> QED BY <1>1, InvariantHolds, PTL
=============================================================================
