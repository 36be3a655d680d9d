--------------------------- MODULE TelemetryProofs ---------------------------
(***************************************************************************)
(* The way of a reading, proved for any number of requests, keys, readings *)
(* and attempts: the bridge that forwards it, and the store that keeps it  *)
(* and answers queries from the cache.                                     *)
(***************************************************************************)
EXTENDS MqttBridge, TelemetryStore, FiniteSetTheorems, TLAPS

-----------------------------------------------------------------------------
(* The store: types.                                                        *)

\* The worker's locals are reset to their types when a request ends.
LEMMA EndsTyped ==
    ASSUME TypeOK, NEW r \in Requests, Ends(r)
    PROVE  /\ pc' \in [Requests -> PCs]
           /\ tries' \in [Requests -> 0..MaxAttempts]
           /\ own' \in [Requests -> SUBSET Readings]
           /\ todo' \in [Requests -> SUBSET DeviceKeys]
           /\ key' \in [Requests -> Keys \union {NoKey}]
           /\ seen' \in [Requests -> SUBSET Readings]
  BY StoreConstants DEF TypeOK, Ends, GoTo, PCs

\* An insertion makes a reading within the bound and is the request's own.
LEMMA StoresTyped ==
    ASSUME TypeOK, NEW r \in Requests, Stores(r)
    PROVE  /\ made' \in 0..MaxReadings /\ made' = made + 1
           /\ docs' \subseteq Readings
           /\ own' \in [Requests -> SUBSET Readings]
<1> USE StoreConstants DEF TypeOK, Stores, Readings
<1>1. made' = made + 1 /\ made + 1 \in 1..MaxReadings /\ made' \in 0..MaxReadings
  OBVIOUS
<1>2. docs' = docs \union {made + 1}
  OBVIOUS
<1>3. own' = [own EXCEPT ![r] = @ \union {made + 1}]
  OBVIOUS
<1> HIDE DEF Stores
<1> QED
  BY <1>1, <1>2, <1>3

\* A request moves to one of the places it can be at.
LEMMA GoToTyped ==
    ASSUME TypeOK, NEW r \in Requests, NEW p \in PCs, GoTo(r, p)
    PROVE  pc' \in [Requests -> PCs]
  BY DEF TypeOK, GoTo

\* Every step keeps the types.
LEMMA TypeStep == TypeOK /\ StoreInv /\ [Next]_vars => TypeOK'
<1> SUFFICES ASSUME TypeOK, StoreInv, [Next]_vars PROVE TypeOK'
  OBVIOUS
<1> USE StoreConstants DEF cache, locals, history, At
<1>1. ASSUME NEW r \in Requests, Request(r) PROVE TypeOK'
  <2>1. CASE StartIngest(r)
    <3>1. pc' \in [Requests -> PCs]
      BY <2>1, GoToTyped DEF StartIngest, PCs
    <3>2. tries' \in [Requests -> 0..MaxAttempts]
      BY <2>1 DEF StartIngest, TypeOK
    <3> QED
      BY <2>1, <3>1, <3>2 DEF StartIngest, TypeOK
  <2>2. CASE FindDevice(r)
    <3>1. CASE exists
      BY <2>2, <3>1, GoToTyped DEF FindDevice, PCs, TypeOK
    <3>2. CASE ~exists
      BY <2>2, <3>2, EndsTyped DEF FindDevice, TypeOK
    <3> QED
      BY <3>1, <3>2
  <2>3. CASE StartDirect(r)
    BY <2>3, GoToTyped DEF StartDirect, PCs, TypeOK
  <2>4. CASE Insert(r)
    BY <2>4, GoToTyped, StoresTyped DEF Insert, PCs, TypeOK
  <2>5. CASE UpdateDevice(r)
    <3>1. CASE tries[r] > 0 /\ GoTo(r, "scan") /\ UNCHANGED <<tries, own, todo, key, seen>>
      BY <2>5, <3>1, GoToTyped DEF UpdateDevice, PCs, TypeOK
    <3>2. CASE Ends(r)
      BY <2>5, <3>2, EndsTyped DEF UpdateDevice, TypeOK
    <3>3. CASE /\ GoTo(r, "insert")
               /\ own' = [own EXCEPT ![r] = {}] /\ UNCHANGED <<tries, todo, key, seen>>
      <4>1. pc' \in [Requests -> PCs]
        BY <3>3, GoToTyped DEF PCs
      <4> QED
        BY <2>5, <3>3, <4>1 DEF UpdateDevice, TypeOK
    <3> QED
      BY <2>5, <3>1, <3>2, <3>3 DEF UpdateDevice
  <2>6. CASE Retry(r)
    <3>1. pc' \in [Requests -> PCs]
      BY <2>6, GoToTyped DEF Retry, PCs
    <3>2. tries' \in [Requests -> 0..MaxAttempts]
      BY <2>6 DEF Retry, TypeOK
    <3>3. /\ made' \in 0..MaxReadings /\ docs' \subseteq Readings
          /\ own' \in [Requests -> SUBSET Readings]
      BY <2>6, StoresTyped DEF Retry, TypeOK
    <3> QED
      BY <2>6, <3>1, <3>2, <3>3 DEF Retry, TypeOK
  <2>7. CASE Scan(r)
    <3>1. pc' \in [Requests -> PCs]
      BY <2>7, GoToTyped DEF Scan, PCs
    <3>2. todo' \in [Requests -> SUBSET DeviceKeys]
      BY <2>7 DEF Scan, TypeOK
    <3> QED
      BY <2>7, <3>1, <3>2 DEF Scan, TypeOK
  <2>8. CASE DeleteKey(r)
    <3>1. PICK k \in todo[r] :
             /\ todo' = [todo EXCEPT ![r] = @ \ {k}]
             /\ left' = [left EXCEPT ![k] = 0]
             /\ items' = [items EXCEPT ![k] = {}]
             /\ behind' = behind \ {k}
      BY <2>8 DEF DeleteKey
    <3>2. k \in Keys
      BY <3>1 DEF TypeOK
    <3>3. todo' \in [Requests -> SUBSET DeviceKeys]
      BY <3>1 DEF TypeOK
    <3>4. /\ left' \in [Keys -> 0..Ttl] /\ items' \in [Keys -> SUBSET Readings]
          /\ behind' \subseteq Keys
      BY <3>1, <3>2 DEF TypeOK
    <3> QED
      BY <2>8, <3>3, <3>4 DEF DeleteKey, TypeOK
  <2>9. CASE AnswerIngest(r)
    BY <2>9, EndsTyped DEF AnswerIngest, TypeOK
  <2>10. CASE Look(r)
    <3>1. CASE UNCHANGED <<pc, key>>
      BY <2>10, <3>1 DEF Look, TypeOK
    <3>2. CASE \E k \in Keys : GoTo(r, "query") /\ key' = [key EXCEPT ![r] = k]
      <4>1. pc' \in [Requests -> PCs]
        BY <3>2, GoToTyped DEF PCs
      <4>2. key' \in [Requests -> Keys \union {NoKey}]
        BY <3>2 DEF TypeOK
      <4> QED
        BY <2>10, <4>1, <4>2 DEF Look, TypeOK
    <3> QED
      BY <2>10, <3>1, <3>2 DEF Look
  <2>11. CASE Query(r)
    <3>1. CASE Ends(r)
      BY <2>11, <3>1, EndsTyped DEF Query, TypeOK
    <3>2. CASE /\ GoTo(r, "put") /\ seen' = [seen EXCEPT ![r] = docs]
               /\ UNCHANGED <<tries, own, todo, key>>
      <4>1. pc' \in [Requests -> PCs]
        BY <3>2, GoToTyped DEF PCs
      <4> QED
        BY <2>11, <3>2, <4>1 DEF Query, TypeOK
    <3> QED
      BY <2>11, <3>1, <3>2 DEF Query
  <2>12. CASE Put(r)
    <3>0. key[r] \in Keys
      BY <2>12 DEF Put, StoreInv
    <3>1. seen[r] \in SUBSET Readings /\ Ttl \in 0..Ttl
      BY DEF TypeOK
    <3>2. items' \in [Keys -> SUBSET Readings]
      BY <2>12, <3>1 DEF Put, TypeOK
    <3>3. left' \in [Keys -> 0..Ttl]
      BY <2>12, <3>1 DEF Put, TypeOK
    <3>4. behind' \subseteq Keys
      BY <2>12, <3>0 DEF Put, TypeOK
    <3> QED
      BY <2>12, <3>2, <3>3, <3>4, EndsTyped DEF Put, TypeOK
  <2>13. CASE DeleteDevice(r)
    BY <2>13, GoToTyped DEF DeleteDevice, PCs, TypeOK
  <2>14. CASE EraseReadings(r)
    BY <2>14, EndsTyped DEF EraseReadings, TypeOK
  <2>15. CASE Dies(r)
    BY <2>15, EndsTyped DEF Dies, TypeOK
  <2>16. CASE InvalidationFails(r)
    <3>1. behind' \subseteq Keys
      BY <2>16 DEF InvalidationFails, TypeOK
    <3> QED
      BY <2>16, <3>1, EndsTyped DEF InvalidationFails, TypeOK
  <2> QED
    BY <1>1, <2>1, <2>2, <2>3, <2>4, <2>5, <2>6, <2>7, <2>8, <2>9, <2>10,
       <2>11, <2>12, <2>13, <2>14, <2>15, <2>16 DEF Request
<1>2. CASE Tick
  <2>1. \A n \in 0..Ttl : Older(n) \in 0..Ttl
    BY DEF Older
  <2>2. left' \in [Keys -> 0..Ttl]
    BY <1>2, <2>1 DEF Tick, TypeOK
  <2>3. items' \in [Keys -> SUBSET Readings] /\ behind' \subseteq Keys
    BY <1>2 DEF Tick, TypeOK
  <2> QED
    BY <1>2, <2>2, <2>3 DEF Tick, TypeOK
<1>3. CASE Expire \/ UNCHANGED vars
  BY <1>3 DEF Expire, vars, TypeOK
<1> QED
  BY <1>1, <1>2, <1>3 DEF Next
-----------------------------------------------------------------------------
(* The store: what a step may do.                                           *)

\* A request that ends has left everything behind; the others go on.
LEMMA EndsClean ==
    ASSUME TypeOK, NEW r \in Requests, Ends(r)
    PROVE  /\ pc'[r] = "idle" /\ tries'[r] = 0 /\ own'[r] = {} /\ seen'[r] = {}
           /\ \A q \in Requests \ {r} :
                 /\ pc'[q] = pc[q] /\ tries'[q] = tries[q] /\ own'[q] = own[q]
                 /\ todo'[q] = todo[q] /\ key'[q] = key[q] /\ seen'[q] = seen[q]
  BY DEF TypeOK, Ends, GoTo

\* A step of one request leaves the others where they are, with what they have.
LEMMA OthersKept ==
    ASSUME TypeOK, NEW r \in Requests, Request(r), NEW q \in Requests, q # r
    PROVE  /\ pc'[q] = pc[q] /\ tries'[q] = tries[q] /\ own'[q] = own[q]
           /\ todo'[q] = todo[q] /\ key'[q] = key[q] /\ seen'[q] = seen[q]
<1> USE DEF locals, cache, history
<1>1. CASE Ends(r)
  BY <1>1, EndsClean
<1>2. CASE StartIngest(r) \/ StartDirect(r) \/ Insert(r) \/ Retry(r)
  BY <1>2 DEF StartIngest, StartDirect, Insert, Retry, Stores, GoTo, TypeOK
<1>3. CASE FindDevice(r) \/ UpdateDevice(r)
  BY <1>1, <1>3 DEF FindDevice, UpdateDevice, GoTo, TypeOK
<1>4. CASE Scan(r) \/ DeleteKey(r)
  BY <1>4 DEF Scan, DeleteKey, GoTo, TypeOK
<1>5. CASE Look(r)
  BY <1>5 DEF Look, GoTo, TypeOK
<1>6. CASE Query(r)
  BY <1>1, <1>6 DEF Query, GoTo, TypeOK
<1>7. CASE DeleteDevice(r)
  BY <1>7 DEF DeleteDevice, GoTo, TypeOK
<1>8. CASE InvalidationFails(r) \/ AnswerIngest(r) \/ Put(r) \/ EraseReadings(r) \/ Dies(r)
  BY <1>1, <1>8 DEF InvalidationFails, AnswerIngest, Put, EraseReadings, Dies
<1> QED
  BY <1>2, <1>3, <1>4, <1>5, <1>6, <1>7, <1>8 DEF Request

\* The readings of a step: one is made, or none and there are no more than before.
LEMMA ReadingsStep ==
    ASSUME [Next]_vars
    PROVE  \/ made' = made /\ docs' \subseteq docs
           \/ made' = made + 1 /\ docs' = docs \union {made + 1}
<1> USE DEF history, cache, locals
<1>1. ASSUME NEW r \in Requests, Request(r)
      PROVE  \/ made' = made /\ docs' \subseteq docs
             \/ made' = made + 1 /\ docs' = docs \union {made + 1}
  <2>1. CASE Insert(r) \/ Retry(r)
    BY <2>1 DEF Insert, Retry, Stores
  <2>2. CASE EraseReadings(r)
    BY <2>2 DEF EraseReadings
  <2>3. CASE \/ StartIngest(r) \/ FindDevice(r) \/ StartDirect(r) \/ UpdateDevice(r)
             \/ Scan(r) \/ DeleteKey(r) \/ InvalidationFails(r) \/ AnswerIngest(r)
    BY <2>3 DEF StartIngest, FindDevice, StartDirect, UpdateDevice, Scan,
                DeleteKey, InvalidationFails, AnswerIngest
  <2>4. CASE \/ Look(r) \/ Query(r) \/ Put(r) \/ DeleteDevice(r) \/ Dies(r)
    BY <2>4 DEF Look, Query, Put, DeleteDevice, Dies
  <2> QED
    BY <1>1, <2>1, <2>2, <2>3, <2>4 DEF Request
<1>2. CASE Expire \/ Tick \/ UNCHANGED vars
  BY <1>2 DEF Expire, Tick, vars
<1> QED
  BY <1>1, <1>2 DEF Next

\* A step adds no reading that was made before it.
LEMMA NothingComesBack ==
    ASSUME TypeOK, [Next]_vars
    PROVE  /\ made' >= made /\ 1..made \subseteq 1..made'
           /\ \A s \in SUBSET (1..made) : s \intersect docs' \subseteq s \intersect docs
<1> USE DEF TypeOK
<1>1. made + 1 \notin 1..made /\ made \in Nat /\ 1..made \subseteq 1..(made + 1)
  BY StoreConstants
<1>2. made' = made \/ made' = made + 1
  BY ReadingsStep
<1>3. made' >= made /\ 1..made \subseteq 1..made'
  BY <1>1, <1>2
<1> QED
  BY <1>1, <1>3, ReadingsStep

\* An entry that is live and not out of date after a step was so before it and
\* shows the same, or it has been put with the readings that are there.
LEMMA GoodEntries ==
    ASSUME TypeOK, [Next]_vars, NEW k \in Keys, Live(k)', k \notin behind'
    PROVE  \/ Live(k) /\ k \notin behind /\ items'[k] = items[k]
           \/ docs' \subseteq items'[k]
<1> USE DEF history, cache, locals, Live
<1> DEFINE Good == \/ Live(k) /\ k \notin behind /\ items'[k] = items[k]
                   \/ docs' \subseteq items'[k]
<1>1. ASSUME NEW r \in Requests, Request(r) PROVE Good
  <2>1. CASE UNCHANGED cache /\ behind \subseteq behind'
    BY <2>1
  <2>2. CASE DeleteKey(r)
    <3>1. PICK d \in todo[r] :
             /\ left' = [left EXCEPT ![d] = 0]
             /\ items' = [items EXCEPT ![d] = {}]
             /\ behind' = behind \ {d}
      BY <2>2 DEF DeleteKey
    <3>2. k # d
      BY <3>1 DEF TypeOK
    <3> QED
      BY <3>1, <3>2 DEF TypeOK
  <2>3. CASE Put(r)
    <3>1. CASE k = key[r]
      BY <2>3, <3>1 DEF Put, TypeOK
    <3>2. CASE k # key[r]
      BY <2>3, <3>2 DEF Put, TypeOK
    <3> QED
      BY <3>1, <3>2
  <2> QED
    BY <1>1, <2>1, <2>2, <2>3
       DEF Request, StartIngest, FindDevice, StartDirect, Insert, UpdateDevice,
           Retry, Scan, InvalidationFails, AnswerIngest, Look, Query, DeleteDevice, EraseReadings, Dies
<1>2. CASE Tick
  <2>1. left[k] > 1
    BY <1>2, StoreConstants DEF Tick, TypeOK, Older
  <2> QED
    BY <1>2, <2>1 DEF Tick, TypeOK
<1>3. CASE Expire \/ UNCHANGED vars
  BY <1>3 DEF Expire, vars
<1> QED
  BY <1>1, <1>2, <1>3 DEF Next

-----------------------------------------------------------------------------
(* The store: the invariant, one part at a time.                            *)

\* The readings that are stored were made.
LEMMA ReadingsMade ==
    ASSUME TypeOK, StoreInv, [Next]_vars
    PROVE  docs' \subseteq 1..made'
<1>1. docs \subseteq 1..made /\ 1..made \subseteq 1..made'
  BY NothingComesBack DEF StoreInv, OnlyMade
<1>2. CASE made' = made /\ docs' \subseteq docs
  BY <1>1, <1>2
<1>3. CASE made' = made + 1 /\ docs' = docs \union {made + 1}
  <2>1. made' \in 1..made'
    BY <1>3, StoreConstants DEF TypeOK
  <2> QED
    BY <1>1, <1>3, <2>1
<1> QED
  BY <1>2, <1>3, ReadingsStep

\* What a request has inserted or seen was made.
LEMMA LocalsMade ==
    ASSUME TypeOK, StoreInv, NEW r \in Requests, Request(r), NEW q \in Requests
    PROVE  own'[q] \union seen'[q] \subseteq 1..made'
<1> USE DEF cache, locals, history
<1>1. 1..made \subseteq 1..made' /\ (made' = made + 1 => made' \in 1..made')
  <2>1. made' >= made
    BY NothingComesBack DEF Next
  <2> QED
    BY <2>1, ReadingsStep, StoreConstants DEF TypeOK, Next
<1>2. own[q] \union seen[q] \subseteq 1..made
  BY DEF StoreInv, OnlyMade
<1>3. CASE q # r
  BY <1>1, <1>2, <1>3, OthersKept
<1>4. CASE q = r /\ Ends(r)
  BY <1>4, EndsClean
<1>5. CASE q = r /\ (Insert(r) \/ Retry(r))
  <2>1. seen'[r] = seen[r]
    BY <1>5 DEF Insert, Retry
  <2>2. CASE Stores(r)
    <3>1. own'[r] = own[r] \union {made'} /\ made' = made + 1
      BY <2>2 DEF Stores, TypeOK
    <3> QED
      BY <1>1, <1>2, <1>5, <2>1, <3>1
  <2>3. CASE UNCHANGED <<docs, made, own>>
    BY <1>1, <1>2, <1>5, <2>1, <2>3
  <2> QED
    BY <1>5, <2>2, <2>3 DEF Insert, Retry
<1>6. CASE q = r /\ UpdateDevice(r) /\ ~Ends(r)
  <2>1. seen'[r] = seen[r] /\ own'[r] \subseteq own[r]
    BY <1>6 DEF UpdateDevice, TypeOK
  <2> QED
    BY <1>1, <1>2, <1>6, <2>1
<1>7. CASE q = r /\ Query(r) /\ ~Ends(r)
  <2>1. seen'[r] = docs /\ own'[r] = own[r]
    BY <1>7 DEF Query, TypeOK
  <2>2. docs \subseteq 1..made
    BY DEF StoreInv, OnlyMade
  <2> QED
    BY <1>1, <1>2, <1>7, <2>1, <2>2
<1>8. CASE q = r /\ UNCHANGED <<own, seen>>
  BY <1>1, <1>2, <1>8
<1>9. Ends(r) \/ Insert(r) \/ Retry(r) \/ UpdateDevice(r) \/ Query(r) \/ UNCHANGED <<own, seen>>
  BY DEF Request, StartIngest, FindDevice, StartDirect, Scan, DeleteKey,
         InvalidationFails, AnswerIngest, Look, Put, DeleteDevice, EraseReadings, Dies
<1> QED
  BY <1>3, <1>4, <1>5, <1>6, <1>7, <1>8, <1>9

\* What the cache shows was made, and an entry that has expired shows nothing.
LEMMA CacheMade ==
    ASSUME TypeOK, StoreInv, [Next]_vars, NEW k \in Keys
    PROVE  /\ items'[k] \subseteq 1..made'
           /\ ~Live(k)' => items'[k] = {} /\ k \notin behind'
<1> USE DEF cache, locals, history, Live
<1>1. 1..made \subseteq 1..made'
  BY NothingComesBack
<1>2. items[k] \subseteq 1..made /\ (~Live(k) => items[k] = {} /\ k \notin behind)
  BY DEF StoreInv, OnlyMade
<1>3. CASE UNCHANGED cache /\ behind' \subseteq behind \union {d \in Keys : left[d] > 0}
  BY <1>1, <1>2, <1>3
<1>4. ASSUME NEW r \in Requests, DeleteKey(r)
      PROVE  /\ items'[k] \subseteq 1..made'
             /\ ~Live(k)' => items'[k] = {} /\ k \notin behind'
  <2>1. PICK d \in todo[r] :
           /\ left' = [left EXCEPT ![d] = 0]
           /\ items' = [items EXCEPT ![d] = {}]
           /\ behind' = behind \ {d}
    BY <1>4 DEF DeleteKey
  <2>2. CASE k = d
    BY <2>1, <2>2 DEF TypeOK
  <2>3. CASE k # d
    BY <1>1, <1>2, <2>1, <2>3 DEF TypeOK
  <2> QED
    BY <2>2, <2>3
<1>5. ASSUME NEW r \in Requests, Put(r)
      PROVE  /\ items'[k] \subseteq 1..made'
             /\ ~Live(k)' => items'[k] = {} /\ k \notin behind'
  <2>1. CASE k = key[r]
    <3>1. items'[k] = seen[r] /\ left'[k] > 0
      BY <1>5, <2>1, StoreConstants DEF Put, TypeOK
    <3>2. seen[r] \subseteq 1..made
      BY DEF StoreInv, OnlyMade
    <3> QED
      BY <1>1, <3>1, <3>2
  <2>2. CASE k # key[r]
    BY <1>1, <1>2, <1>5, <2>2 DEF Put, TypeOK
  <2> QED
    BY <2>1, <2>2
<1>6. CASE Tick
  <2>1. CASE left[k] = 1
    BY <1>6, <2>1 DEF Tick, TypeOK
  <2>2. CASE left[k] # 1
    <3>1. ~Live(k)' => ~Live(k)
      BY <1>6, <2>2, StoreConstants DEF Tick, TypeOK, Older
    <3>2. items'[k] = items[k] /\ (k \in behind' => k \in behind)
      BY <1>6, <2>2 DEF Tick, TypeOK
    <3> QED
      BY <1>1, <1>2, <3>1, <3>2
  <2> QED
    BY <2>1, <2>2
<1>7. ASSUME NEW r \in Requests, InvalidationFails(r)
      PROVE  UNCHANGED cache /\ behind' \subseteq behind \union {d \in Keys : left[d] > 0}
  BY <1>7, StoreConstants DEF InvalidationFails, TypeOK
<1> QED
  BY <1>3, <1>4, <1>5, <1>6, <1>7
     DEF vars, Next, Request, StartIngest, FindDevice, StartDirect, Insert,
         UpdateDevice, Retry, Scan, AnswerIngest, Look, Query, DeleteDevice,
         EraseReadings, Dies, Expire

\* Only the last step of an ingestion adds to the readings that are answered for.
LEMMA ClearedStep ==
    ASSUME [Next]_vars
    PROVE  answered' = answered \/ \E r \in Requests : AnswerIngest(r) \/ InvalidationFails(r)
  BY DEF vars, history, Next, Request, StartIngest, FindDevice, StartDirect, Insert,
         UpdateDevice, Retry, Scan, DeleteKey, Look, Query, Put, DeleteDevice,
         EraseReadings, Dies, Expire, Tick

\* No entry that is live and not out of date misses a reading whose ingestion
\* has answered.
LEMMA StaleStep ==
    ASSUME TypeOK, StoreInv, [Next]_vars
    PROVE  StaleHasCause' /\ answered' \subseteq 1..made'
<1>1. 1..made \subseteq 1..made'
  BY NothingComesBack
<1>2. /\ answered \subseteq 1..made
      /\ \A r \in Requests : own[r] \subseteq 1..made
  BY DEF StoreInv, OnlyMade
<1>3. answered' \subseteq 1..made
  BY <1>2, ClearedStep DEF AnswerIngest, InvalidationFails
<1>4. ASSUME NEW k \in DeviceKeys, Live(k)', k \notin behind'
      PROVE  answered' \intersect docs' \subseteq items'[k]
  <2>1. CASE docs' \subseteq items'[k]
    BY <2>1
  <2>2. CASE Live(k) /\ k \notin behind /\ items'[k] = items[k]
    <3>1. answered \intersect docs \subseteq items[k]
      BY <2>2 DEF StoreInv, StaleHasCause
    <3>2. answered' \intersect docs' \subseteq answered' \intersect docs
      BY <1>3, NothingComesBack
    <3>3. CASE answered' = answered
      BY <2>2, <3>1, <3>2, <3>3
    <3>4. ASSUME NEW r \in Requests, AnswerIngest(r)
          PROVE  answered' \intersect docs' \subseteq items'[k]
      <4>1. own[r] \intersect docs \subseteq items[k]
        BY <2>2, <3>4 DEF AnswerIngest, At, StoreInv, ClearedSoFar
      <4>2. answered' = answered \union own[r]
        BY <3>4 DEF AnswerIngest
      <4> QED
        BY <2>2, <3>1, <3>2, <4>1, <4>2
    <3>5. ASSUME NEW r \in Requests, InvalidationFails(r)
          PROVE  answered' \intersect docs' \subseteq items'[k]
      <4>1. /\ answered' = answered \union own[r] /\ pc[r] \in {"scan", "clear"}
            /\ k \notin {d \in IF At(r, "scan") THEN DeviceKeys ELSE todo[r] :
                           Live(d) /\ ~(own[r] \intersect docs \subseteq items[d])}
        BY <1>4, <3>5 DEF InvalidationFails
      <4>2. CASE k \in IF At(r, "scan") THEN DeviceKeys ELSE todo[r]
        BY <2>2, <3>1, <3>2, <4>1, <4>2
      <4>3. CASE pc[r] = "clear" /\ k \notin todo[r]
        <5>1. own[r] \intersect docs \subseteq items[k]
          BY <2>2, <4>3 DEF StoreInv, ClearedSoFar
        <5> QED
          BY <2>2, <3>1, <3>2, <4>1, <5>1
      <4> QED
        BY <4>1, <4>2, <4>3 DEF At
    <3> QED
      BY <3>3, <3>4, <3>5, ClearedStep
  <2> QED
    BY <1>4, <2>1, <2>2, GoodEntries, StoreConstants
<1> QED
  BY <1>1, <1>3, <1>4 DEF StaleHasCause, Live

\* While a request clears the cache, the entries it leaves alone miss none of
\* its readings.
LEMMA ClearedSoFarStep ==
    ASSUME TypeOK, StoreInv, NEW r \in Requests, Request(r), NEW q \in Requests
    PROVE  ClearedSoFar(q)'
<1> USE DEF cache, locals, history, At, GoTo
<1> SUFFICES ASSUME pc'[q] = "clear", NEW k \in DeviceKeys \ todo'[q],
                    Live(k)', k \notin behind'
             PROVE  own'[q] \intersect docs' \subseteq items'[k]
  BY DEF ClearedSoFar, Live
<1>1. own[q] \intersect docs' \subseteq own[q] \intersect docs
  BY NothingComesBack DEF Next, StoreInv, OnlyMade
<1>2. CASE docs' \subseteq items'[k]
  BY <1>2
<1>3. CASE Live(k) /\ k \notin behind /\ items'[k] = items[k]
  <2>1. ASSUME pc[q] = "clear", own'[q] = own[q], k \notin todo[q]
        PROVE  own'[q] \intersect docs' \subseteq items'[k]
    BY <1>1, <1>3, <2>1 DEF StoreInv, ClearedSoFar
  <2>2. CASE q # r
    BY <2>1, <2>2, OthersKept
  <2>3. CASE q = r /\ Scan(r)
    BY <1>3, <2>3 DEF Scan, TypeOK
  <2>4. CASE q = r /\ DeleteKey(r)
    <3>1. pc[q] = "clear" /\ own'[q] = own[q]
      BY <2>4 DEF DeleteKey
    <3>2. PICK d \in todo[r] :
             /\ todo' = [todo EXCEPT ![r] = @ \ {d}]
             /\ left' = [left EXCEPT ![d] = 0]
      BY <2>4 DEF DeleteKey
    <3>3. k # d
      BY <3>2, StoreConstants DEF TypeOK, Live
    <3>4. k \notin todo[q]
      BY <2>4, <3>2, <3>3 DEF TypeOK
    <3> QED
      BY <2>1, <3>1, <3>4
  <2>5. Ends(r) => pc'[r] = "idle"
    BY EndsClean
  <2>6. CASE q = r /\ ~Scan(r) /\ ~DeleteKey(r)
    <3>1. pc[r] = "clear" => pc'[r] = "idle"
      BY <2>5, <2>6
         DEF Request, StartIngest, FindDevice, StartDirect, Insert, Stores,
             UpdateDevice, Retry, InvalidationFails, AnswerIngest, Look, Query, Put, DeleteDevice,
             EraseReadings, Dies, TypeOK
    <3>2. pc'[r] # "clear"
      BY <2>5, <2>6, <3>1
         DEF Request, StartIngest, FindDevice, StartDirect, Insert, Stores,
             UpdateDevice, Retry, InvalidationFails, AnswerIngest, Look, Query, Put, DeleteDevice,
             EraseReadings, Dies, TypeOK
    <3> QED
      BY <2>6, <3>2
  <2> QED
    BY <2>2, <2>3, <2>4, <2>6
<1> QED
  BY <1>2, <1>3, GoodEntries, StoreConstants DEF Next

\* A request that queries or puts has chosen its key.
LEMMA KeyStep ==
    ASSUME TypeOK, StoreInv, NEW r \in Requests, Request(r), NEW q \in Requests,
           pc'[q] \in {"query", "put"}
    PROVE  key'[q] \in Keys
<1> USE DEF cache, locals, history, At, GoTo
<1>1. CASE q # r
  BY <1>1, OthersKept DEF StoreInv
<1>2. CASE q = r /\ Look(r)
  BY <1>2 DEF Look, TypeOK, StoreInv
<1>3. CASE q = r /\ Query(r) /\ ~Ends(r)
  BY <1>3 DEF Query, TypeOK, StoreInv
<1>4. Ends(r) => pc'[r] = "idle"
  BY EndsClean
<1>5. CASE q = r /\ ~Look(r) /\ ~Query(r)
  <2>1. CASE DeleteKey(r)
    BY <1>5, <2>1 DEF DeleteKey
  <2>2. CASE ~DeleteKey(r)
    BY <1>4, <1>5, <2>2
       DEF Request, StartIngest, FindDevice, StartDirect, Insert, Stores,
           UpdateDevice, Retry, Scan, InvalidationFails, AnswerIngest, Put, DeleteDevice,
           EraseReadings, Dies, TypeOK
  <2> QED
    BY <2>1, <2>2
<1> QED
  BY <1>1, <1>2, <1>3, <1>4, <1>5

\* One more reading is one more at most.
LEMMA OneMore ==
    ASSUME NEW s, IsFiniteSet(s), NEW n
    PROVE  /\ IsFiniteSet(s \union {n})
           /\ Cardinality(s) \in Nat /\ Cardinality(s \union {n}) \in Nat
           /\ Cardinality(s \union {n}) <= Cardinality(s) + 1
<1>1. Cardinality(s) \in Nat
  BY FS_CardinalityType
<1>2. /\ IsFiniteSet(s \union {n})
      /\ Cardinality(s \union {n}) =
            IF n \in s THEN Cardinality(s) ELSE Cardinality(s) + 1
  BY FS_AddElement
<1> QED
  BY <1>1, <1>2

\* An attempt that inserts a reading adds one copy, and the attempts that have
\* begun stay ahead of the copies.
LEMMA CopiesStep ==
    ASSUME TypeOK, TypeOK', StoreInv, NEW r \in Requests, Request(r), NEW q \in Requests
    PROVE  /\ CopiesSoFar(q)'
           /\ Cardinality(own'[q]) <= IF tries'[q] = 0 THEN 1 ELSE tries'[q]
<1> USE DEF cache, locals, history, At, GoTo
<1> DEFINE Begun(n) == IF n = 0 THEN 1 ELSE n
           Good == /\ CopiesSoFar(q)'
                   /\ Cardinality(own'[q]) <= Begun(tries'[q])
<1>1. /\ IsFiniteSet(own[q]) /\ Cardinality(own[q]) \in Nat
      /\ pc[q] = "idle" => own[q] = {} /\ tries[q] = 0
      /\ pc[q] \in {"find", "insert"} => Cardinality(own[q]) < Begun(tries[q])
      /\ Cardinality(own[q]) <= Begun(tries[q])
      /\ tries[q] \in Nat
  BY FS_CardinalityType DEF StoreInv, CopiesSoFar, CopiesBounded, TypeOK
<1>2. IsFiniteSet({}) /\ Cardinality({}) = 0
  BY FS_EmptySet
<1>3. CASE q # r
  <2>1. pc'[q] = pc[q] /\ tries'[q] = tries[q] /\ own'[q] = own[q]
    BY <1>3, OthersKept
  <2> QED
    BY <1>1, <2>1 DEF CopiesSoFar
<1>4. CASE q = r /\ Ends(r)
  <2>1. pc'[q] = "idle" /\ tries'[q] = 0 /\ own'[q] = {}
    BY <1>4, EndsClean
  <2> QED
    BY <1>2, <2>1 DEF CopiesSoFar
<1>5. CASE q = r /\ StartIngest(r)
  <2>1. pc'[q] = "find" /\ tries'[q] = 1 /\ own'[q] = own[q] /\ pc[q] = "idle"
    BY <1>5, StoreConstants DEF StartIngest, TypeOK
  <2> QED
    BY <1>1, <1>2, <2>1 DEF CopiesSoFar
<1>6. CASE q = r /\ StartDirect(r)
  <2>1. pc'[q] = "insert" /\ tries'[q] = tries[q] /\ own'[q] = own[q] /\ pc[q] = "idle"
    BY <1>6 DEF StartDirect, TypeOK
  <2> QED
    BY <1>1, <1>2, <2>1 DEF CopiesSoFar
<1>7. CASE q = r /\ FindDevice(r) /\ ~Ends(r)
  <2>1. pc'[q] = "insert" /\ tries'[q] = tries[q] /\ own'[q] = own[q] /\ pc[q] = "find"
    BY <1>7 DEF FindDevice, TypeOK
  <2> QED
    BY <1>1, <2>1 DEF CopiesSoFar
<1>8. ASSUME q = r, Stores(r)
      PROVE  /\ pc[q] = "insert" /\ IsFiniteSet(own'[q])
             /\ Cardinality(own'[q]) \in Nat
             /\ Cardinality(own'[q]) <= Begun(tries[q])
  <2>1. own'[q] = own[q] \union {made + 1} /\ pc[q] = "insert"
    BY <1>8 DEF Stores, TypeOK
  <2>2. /\ IsFiniteSet(own'[q]) /\ Cardinality(own'[q]) \in Nat
        /\ Cardinality(own'[q]) <= Cardinality(own[q]) + 1
    BY <1>1, <2>1, OneMore
  <2> QED
    BY <1>1, <2>1, <2>2
<1>9. CASE q = r /\ Insert(r)
  <2>1. pc'[q] = "update" /\ tries'[q] = tries[q]
    BY <1>9 DEF Insert, TypeOK
  <2> QED
    BY <1>8, <1>9, <2>1 DEF CopiesSoFar, Insert
<1>10. CASE q = r /\ Retry(r)
  <2>1. /\ pc'[q] = "find" /\ tries'[q] = tries[q] + 1
        /\ Begun(tries[q]) = tries[q] /\ Begun(tries'[q]) = tries[q] + 1
    BY <1>1, <1>10 DEF Retry, TypeOK
  <2>2. IsFiniteSet(own'[q]) /\ Cardinality(own'[q]) \in Nat
        /\ Cardinality(own'[q]) <= Begun(tries[q])
    BY <1>1, <1>8, <1>10 DEF Retry
  <2>3. Cardinality(own'[q]) < Begun(tries'[q])
    BY <1>1, <2>1, <2>2
  <2>4. Cardinality(own'[q]) <= Begun(tries'[q])
    BY <1>1, <2>1, <2>2
  <2> QED
    BY <2>1, <2>2, <2>3, <2>4 DEF CopiesSoFar
<1>11. CASE q = r /\ UpdateDevice(r) /\ ~Ends(r)
  <2>1. CASE pc'[q] = "scan" /\ tries'[q] = tries[q] /\ own'[q] = own[q]
    BY <1>1, <2>1 DEF CopiesSoFar
  <2>2. CASE pc'[q] = "insert" /\ tries'[q] = 0 /\ own'[q] = {}
    BY <1>2, <2>2 DEF CopiesSoFar
  <2> QED
    BY <1>11, <2>1, <2>2 DEF UpdateDevice, TypeOK
<1>12. CASE q = r /\ ~Ends(r) /\ pc'[q] \notin {"find", "insert"} /\ UNCHANGED <<own, tries>>
  <2>1. pc'[q] = "idle" => pc[q] = "idle"
    BY <1>12
       DEF Request, StartIngest, FindDevice, StartDirect, Insert, UpdateDevice,
           Retry, Scan, DeleteKey, InvalidationFails, AnswerIngest, Look, Query, Put, DeleteDevice,
           EraseReadings, Dies, TypeOK
  <2> QED
    BY <1>1, <1>12, <2>1 DEF CopiesSoFar
<1>13. CASE q = r /\ (Look(r) \/ Query(r) \/ Scan(r) \/ DeleteKey(r) \/ DeleteDevice(r)) /\ ~Ends(r)
  <2>1. pc'[q] \notin {"find", "insert"} /\ UNCHANGED <<own, tries>>
    BY <1>13 DEF Look, Query, Scan, DeleteKey, DeleteDevice, TypeOK
  <2> QED
    BY <1>12, <1>13, <2>1
<1>14. InvalidationFails(r) \/ AnswerIngest(r) \/ Put(r) \/ EraseReadings(r) \/ Dies(r) => Ends(r)
  BY DEF InvalidationFails, AnswerIngest, Put, EraseReadings, Dies
<1> QED
  BY <1>3, <1>4, <1>5, <1>6, <1>7, <1>9, <1>10, <1>11, <1>13, <1>14 DEF Request

\* The store starts in the invariant.
LEMMA StoreInitInv == Init => TypeOK /\ StoreInv
<1> SUFFICES ASSUME Init PROVE TypeOK /\ StoreInv
  OBVIOUS
<1>1. TypeOK
  BY StoreConstants DEF Init, TypeOK, PCs
<1>2. IsFiniteSet({}) /\ Cardinality({}) = 0 /\ 1..0 = {}
  BY FS_EmptySet
<1>3. CopiesBounded /\ \A r \in Requests : CopiesSoFar(r)
  BY <1>2 DEF Init, CopiesBounded, CopiesSoFar
<1>4. StaleHasCause /\ OnlyMade
  BY <1>2 DEF Init, StaleHasCause, OnlyMade
<1> QED
  BY <1>1, <1>3, <1>4 DEF Init, StoreInv, ClearedSoFar, Live

\* Every step keeps it.
LEMMA StoreStepInv == TypeOK /\ StoreInv /\ [Next]_vars => TypeOK' /\ StoreInv'
<1> SUFFICES ASSUME TypeOK, StoreInv, [Next]_vars PROVE TypeOK' /\ StoreInv'
  OBVIOUS
<1>1. TypeOK'
  BY TypeStep
<1>2. StaleHasCause' /\ answered' \subseteq 1..made'
  BY StaleStep
<1>3. docs' \subseteq 1..made'
  BY ReadingsMade
<1>4. \A k \in Keys : /\ items'[k] \subseteq 1..made'
                      /\ ~Live(k)' => items'[k] = {} /\ k \notin behind'
  BY CacheMade
<1>5. ASSUME NEW r \in Requests, Request(r)
      PROVE  \A q \in Requests :
                /\ own'[q] \union seen'[q] \subseteq 1..made'
                /\ CopiesSoFar(q)' /\ ClearedSoFar(q)'
                /\ Cardinality(own'[q]) <= IF tries'[q] = 0 THEN 1 ELSE tries'[q]
                /\ pc'[q] \in {"query", "put"} => key'[q] \in Keys
  BY <1>1, <1>5, LocalsMade, CopiesStep, ClearedSoFarStep, KeyStep
<1>6. CASE Expire \/ Tick \/ UNCHANGED vars
  <2>1. UNCHANGED <<locals, made>> /\ docs' \subseteq docs
    BY <1>6 DEF Expire, Tick, vars
  <2>2. ASSUME NEW q \in Requests, NEW k \in DeviceKeys \ todo'[q],
               pc'[q] = "clear", Live(k)', k \notin behind'
        PROVE  own'[q] \intersect docs' \subseteq items'[k]
    <3>1. CASE docs' \subseteq items'[k]
      BY <3>1
    <3>2. CASE Live(k) /\ k \notin behind /\ items'[k] = items[k]
      BY <2>1, <2>2, <3>2 DEF locals, StoreInv, ClearedSoFar
    <3> QED
      BY <2>2, <3>1, <3>2, GoodEntries, StoreConstants
  <2>3. \A q \in Requests : ClearedSoFar(q)'
    BY <2>2 DEF ClearedSoFar, Live
  <2>4. \A q \in Requests :
           /\ own'[q] \union seen'[q] \subseteq 1..made'
           /\ CopiesSoFar(q)'
           /\ Cardinality(own'[q]) <= IF tries'[q] = 0 THEN 1 ELSE tries'[q]
           /\ pc'[q] \in {"query", "put"} => key'[q] \in Keys
    BY <2>1 DEF locals, StoreInv, OnlyMade, CopiesSoFar, CopiesBounded
  <2> QED
    BY <1>1, <1>2, <1>3, <1>4, <2>3, <2>4
       DEF StoreInv, OnlyMade, CopiesBounded
<1>7. CASE \E r \in Requests : Request(r)
  BY <1>1, <1>2, <1>3, <1>4, <1>5, <1>7 DEF StoreInv, OnlyMade, CopiesBounded
<1> QED
  BY <1>6, <1>7 DEF Next

\* TypeOK and StoreInv hold together.
LEMMA StoreInvHolds == Spec => [](TypeOK /\ StoreInv)
  BY StoreInitInv, StoreStepInv, PTL DEF Spec

\* Every reachable state of the store is well typed; in particular no ingestion
\* begins an attempt past the last.
THEOREM StoreTypeCorrect == Spec => []TypeOK
  BY StoreInvHolds, PTL

\* An entry of the device's own name that misses a reading whose ingestion has
\* answered with success was put by a query that overlapped a change, or was left
\* by an invalidation that failed, for any number of requests, keys and readings.
THEOREM StaleEntriesHaveACause == Spec => []StaleHasCause
<1>1. StoreInv => StaleHasCause
  BY DEF StoreInv
<1> QED
  BY <1>1, StoreInvHolds, PTL

\* A request stores its reading no more often than it has begun an attempt.
THEOREM CopiesAreBounded == Spec => []CopiesBounded
<1>1. StoreInv => CopiesBounded
  BY DEF StoreInv
<1> QED
  BY <1>1, StoreInvHolds, PTL

-----------------------------------------------------------------------------
(* The store: what its liveness rests on.  Fairness makes entries expire and *)
(* late readers end; here is why what has gone then does not come back.      *)

\* A reading is in the way of the cache while an entry shows it or a query that
\* has not put its answer yet has found it.
Remembered(n) ==
    \/ \E k \in Keys : n \in items[k]
    \/ \E r \in Requests : n \in seen[r]

ForgottenForGood == \A n \in Gone : ~Remembered(n) => ~Remembered(n)'

\* A reading is visible when every live entry and every answer that is still to
\* be put has it.
Visible(n) ==
    /\ \A k \in Keys : Live(k) => n \in items[k]
    /\ \A r \in Requests : pc[r] = "put" => n \in seen[r]

ShownForGood == \A n \in docs \intersect docs' : Visible(n) => Visible(n)'

\* Where the answers that are still to be put come from.
LEMMA SeenStep ==
    ASSUME TypeOK, [Next]_vars, NEW r \in Requests
    PROVE  /\ seen'[r] \in {{}, seen[r], docs}
           /\ pc'[r] = "put" =>
                 \/ pc[r] = "put" /\ seen'[r] = seen[r]
                 \/ seen'[r] = docs
<1> USE DEF locals, cache, history, At, GoTo
<1>1. ASSUME NEW q \in Requests, Request(q)
      PROVE  /\ seen'[r] \in {{}, seen[r], docs}
             /\ pc'[r] = "put" =>
                   \/ pc[r] = "put" /\ seen'[r] = seen[r]
                   \/ seen'[r] = docs
  <2>1. CASE q # r
    BY <1>1, <2>1, OthersKept
  <2>2. CASE q = r /\ Ends(r)
    BY <2>2, EndsClean
  <2>3. CASE q = r /\ Query(r) /\ ~Ends(r)
    BY <2>3 DEF Query, TypeOK
  <2>4. CASE q = r /\ ~Query(r) /\ ~Ends(r)
    <3>1. seen' = seen
      BY <1>1, <2>4
         DEF Request, StartIngest, FindDevice, StartDirect, Insert, UpdateDevice,
             Retry, Scan, DeleteKey, InvalidationFails, AnswerIngest, Look, Put, DeleteDevice,
             EraseReadings, Dies
    <3>2. pc'[r] = "put" => pc[r] = "put"
      <4>1. CASE DeleteKey(r)
        BY <4>1 DEF DeleteKey
      <4>2. CASE ~DeleteKey(r)
        BY <1>1, <2>4, <4>2
           DEF Request, StartIngest, FindDevice, StartDirect, Insert, UpdateDevice,
               Retry, Scan, InvalidationFails, AnswerIngest, Look, Put, DeleteDevice,
               EraseReadings, Dies, TypeOK
      <4> QED
        BY <4>1, <4>2
    <3> QED
      BY <3>1, <3>2
  <2> QED
    BY <2>1, <2>2, <2>3, <2>4
<1>2. CASE Expire \/ Tick \/ UNCHANGED vars
  BY <1>2 DEF Expire, Tick, vars
<1> QED
  BY <1>1, <1>2 DEF Next

\* What an entry shows after a step: what it showed, the answer of a query that
\* was put, or nothing any more.
LEMMA EntryStep ==
    ASSUME TypeOK, [Next]_vars, NEW k \in Keys
    PROVE  \/ items'[k] = items[k] /\ (Live(k)' => Live(k))
           \/ items'[k] = {} /\ ~Live(k)'
           \/ \E r \in Requests : pc[r] = "put" /\ items'[k] = seen[r]
<1> USE DEF history, cache, locals, Live, At
<1> DEFINE Good == \/ items'[k] = items[k] /\ (Live(k)' => Live(k))
                   \/ items'[k] = {} /\ ~Live(k)'
                   \/ \E r \in Requests : pc[r] = "put" /\ items'[k] = seen[r]
<1>1. ASSUME NEW r \in Requests, DeleteKey(r) PROVE Good
  <2>1. PICK d \in todo[r] :
           /\ left' = [left EXCEPT ![d] = 0]
           /\ items' = [items EXCEPT ![d] = {}]
    BY <1>1 DEF DeleteKey
  <2>2. CASE k = d
    BY <2>1, <2>2 DEF TypeOK
  <2>3. CASE k # d
    BY <2>1, <2>3 DEF TypeOK
  <2> QED
    BY <2>2, <2>3
<1>2. ASSUME NEW r \in Requests, Put(r) PROVE Good
  <2>1. CASE k = key[r]
    BY <1>2, <2>1 DEF Put, TypeOK
  <2>2. CASE k # key[r]
    BY <1>2, <2>2 DEF Put, TypeOK
  <2> QED
    BY <2>1, <2>2
<1>3. CASE Tick
  <2>1. CASE left[k] = 1
    BY <1>3, <2>1 DEF Tick, TypeOK, Older
  <2>2. CASE left[k] # 1
    BY <1>3, <2>2 DEF Tick, TypeOK, Older
  <2> QED
    BY <2>1, <2>2
<1>4. CASE UNCHANGED cache
  BY <1>4
<1> QED
  BY <1>1, <1>2, <1>3, <1>4
     DEF vars, Next, Request, StartIngest, FindDevice, StartDirect, Insert,
         UpdateDevice, Retry, Scan, InvalidationFails, AnswerIngest, Look, Query,
         DeleteDevice, EraseReadings, Dies, Expire

\* The safety half of EventuallyForgotten: a reading that is gone and that neither an entry
\* nor an answer to be put still has is never shown again.
THEOREM GoneStayForgotten == Spec => [][ForgottenForGood]_vars
<1>1. TypeOK /\ StoreInv /\ [Next]_vars => [ForgottenForGood]_vars
  <2> SUFFICES ASSUME TypeOK, StoreInv, [Next]_vars,
                      NEW n \in Gone, ~Remembered(n)
               PROVE  ~Remembered(n)'
    BY DEF ForgottenForGood
  <2>1. n \notin docs
    BY DEF Gone
  <2>2. \A r \in Requests : n \notin seen'[r]
    BY <2>1, SeenStep DEF Remembered
  <2>3. \A k \in Keys : n \notin items'[k]
    BY EntryStep DEF Remembered
  <2> QED
    BY <2>2, <2>3 DEF Remembered
<1> QED
  BY <1>1, StoreInvHolds, PTL DEF Spec

\* The safety half of EventuallyShown: a reading that every entry and every answer
\* to be put shows is shown by every entry as long as it is in the database.
THEOREM VisibleStayShown == Spec => [][ShownForGood]_vars
<1>1. TypeOK /\ [Next]_vars => [ShownForGood]_vars
  <2> SUFFICES ASSUME TypeOK, [Next]_vars, NEW n \in docs, n \in docs', Visible(n)
               PROVE  Visible(n)'
    BY DEF ShownForGood
  <2>1. \A r \in Requests : pc'[r] = "put" => n \in seen'[r]
    BY SeenStep DEF Visible
  <2>2. \A k \in Keys : Live(k)' => n \in items'[k]
    BY EntryStep DEF Visible
  <2> QED
    BY <2>1, <2>2 DEF Visible, Live
<1> QED
  BY <1>1, StoreInvHolds, PTL DEF Spec

-----------------------------------------------------------------------------
(* The bridge.                                                              *)

\* The types and the invariant of the bridge.
BridgeOK == BridgeTypeOK /\ BridgeInv

\* A process that starts satisfies the invariant.
LEMMA BridgeStarts == BridgeInit => BridgeOK
  BY BridgeNumbers DEF BridgeOK, BridgeInit, BridgeTypeOK,
         BridgeInv, Accounted, AtMostOnce, PostsWithToken, InHand

\* So does one that docker has started again.
LEMMA BridgeRestart == Restart => BridgeOK'
  BY BridgeNumbers DEF BridgeOK, Restart, BridgeTypeOK,
         BridgeInv, Accounted, AtMostOnce, PostsWithToken, InHand

\* Every step of the bridge and of its environment keeps the invariant.
LEMMA BridgeStep == BridgeOK /\ [BridgeNext]_bridge => BridgeOK'
<1> SUFFICES ASSUME BridgeOK, [BridgeNext]_bridge PROVE BridgeOK'
  OBVIOUS
<1> USE BridgeNumbers DEF BridgeOK, BridgeTypeOK, BridgeInv,
            Accounted, AtMostOnce, PostsWithToken, InHand, stats, call
<1>1. CASE LoginOk
  BY <1>1 DEF LoginOk
<1>2. CASE LoginFails
  BY <1>2 DEF LoginFails
<1>3. CASE GiveUpLogin
  <2>1. CASE phase = "auth" /\ Restart
    BY <2>1, BridgeRestart
  <2>2. CASE phase = "running" /\ Fails
    BY <1>3, <2>2 DEF GiveUpLogin, Fails, BackToIdle
  <2> QED
    BY <1>3, <2>1, <2>2 DEF GiveUpLogin
<1>4. CASE PostAccepted
  BY <1>4 DEF PostAccepted, Succeeds, BackToIdle
<1>5. CASE PostNotFound
  BY <1>5 DEF PostNotFound, Succeeds, BackToIdle
<1>6. CASE PostRejected
  BY <1>6 DEF PostRejected, Fails, BackToIdle
<1>7. CASE PostLost
  BY <1>7 DEF PostLost, Fails, BackToIdle
<1>8. CASE PostUnauthorized
  BY <1>8 DEF PostUnauthorized
<1>9. CASE ConnectMqtt
  BY <1>9 DEF ConnectMqtt
<1>10. CASE ConnectFails \/ Crash
  BY <1>10, BridgeRestart DEF ConnectFails, Crash
<1>11. CASE OnConnect \/ OnDisconnect \/ HandleCertReload \/ TokenDue
  BY <1>11 DEF OnConnect, OnDisconnect, HandleCertReload, TokenDue
<1>12. CASE DropMalformed \/ IgnoreData
  <2>1. received + 1 \in 0 .. MaxMessages /\ errors + 1 \in Nat /\ ignored + 1 \in Nat
    BY <1>12 DEF DropMalformed, IgnoreData, CanReceive
  <2>2. CASE DropMalformed
    BY <2>1, <2>2 DEF DropMalformed, CanReceive
  <2>3. CASE IgnoreData
    BY <2>1, <2>3 DEF IgnoreData, CanReceive
  <2> QED
    BY <1>12, <2>2, <2>3
<1>13. ASSUME NEW k \in {"telemetry", "heartbeat"}, Receive(k)
       PROVE BridgeOK'
  BY <1>13 DEF Receive, CanReceive
<1>14. CASE UNCHANGED bridge
  BY <1>14 DEF bridge
<1> QED
  BY <1>1, <1>2, <1>3, <1>4, <1>5, <1>6, <1>7, <1>8, <1>9, <1>10, <1>11,
     <1>12, <1>13, <1>14 DEF BridgeNext, Login, Post, Environment

\* The invariant itself: a message in hand has not been taken, and outside of the
\* main loop nothing is counted and nothing but a login happens.
THEOREM BridgeIsSound == BridgeSpec => []BridgeOK
  BY BridgeStarts, BridgeStep, PTL DEF BridgeSpec

\* Every reachable state of the bridge is well typed: no loop of logins or posts
\* runs past its bound.
THEOREM BridgeTypeCorrect == BridgeSpec => []BridgeTypeOK
  BY BridgeIsSound, PTL DEF BridgeOK

\* The statistics account for every message at every moment.
THEOREM StatisticsAddUp == BridgeSpec => []Accounted
<1>1. BridgeOK => Accounted
  BY DEF BridgeOK, BridgeInv
<1> QED
  BY <1>1, BridgeIsSound, PTL

\* The API takes a message at most once within the life of a bridge process.
THEOREM NothingTwice == BridgeSpec => []AtMostOnce
<1>1. BridgeOK => AtMostOnce
  BY DEF BridgeOK, BridgeInv
<1> QED
  BY <1>1, BridgeIsSound, PTL

\* Requests go out with a token only.
THEOREM TokenFirst == BridgeSpec => []PostsWithToken
<1>1. BridgeOK => PostsWithToken
  BY DEF BridgeOK, BridgeInv
<1> QED
  BY <1>1, BridgeIsSound, PTL

\* Requests to the API that the message in hand can still cost: a login and its
\* attempts, and the post, for each post that is left.
PostsLeft == MaxPosts - posts

LoginsUsed == IF thread = "post" THEN MaxLogins ELSE logins

Budget == PostsLeft * (MaxLogins + 1) - LoginsUsed

InWork == phase = "running" /\ thread # "idle"

\* While the message is not done with, every answer of the API, a refusal or a
\* timeout as well, uses some of the budget up.
BudgetShrinks ==
    InWork /\ (Login \/ Post) => ~InWork' \/ (Budget' \in Nat /\ Budget' < Budget)

\* Nothing but an answer touches it, short of a new start: a broken link, the
\* clock and the renewed certificates leave the message in work as it is.
BudgetKept ==
    InWork /\ ~Login /\ ~Post => ~InWork' \/ Budget' = Budget

\* One post less is worth a whole round of logins.
LEMMA OneRoundLess ==
    ASSUME NEW n \in Nat, NEW m \in Nat
    PROVE  /\ (n + 1) * m = n * m + m
           /\ n * m \in Nat
  OBVIOUS

\* What MessageEnds rests on: with a thread that gets on (the timeouts of the HTTP
\* calls), the budget of a message runs out.
THEOREM MessageBudget == BridgeSpec => [][BudgetShrinks /\ BudgetKept]_bridge
<1>1. BridgeOK /\ [BridgeNext]_bridge => [BudgetShrinks /\ BudgetKept]_bridge
  <2> SUFFICES ASSUME BridgeOK, [BridgeNext]_bridge, InWork, InWork',
                      ~(UNCHANGED bridge)
               PROVE  /\ Login \/ Post =>
                            Budget' \in Nat /\ Budget' < Budget
                      /\ ~Login /\ ~Post => Budget' = Budget
    BY DEF BudgetShrinks, BudgetKept
  <2>1. /\ MaxLogins \in Nat \ {0} /\ MaxPosts \in Nat \ {0}
        /\ logins \in 0 .. MaxLogins - 1 /\ posts \in 0 .. MaxPosts - 1
        /\ logins' \in 0 .. MaxLogins - 1 /\ posts' \in 0 .. MaxPosts - 1
        /\ thread \in {"login", "post"} /\ thread' \in {"login", "post"}
        /\ thread = "post" => logins = 0
    BY BridgeNumbers, BridgeStep DEF BridgeOK, BridgeTypeOK, BridgeInv, InWork
  <2>2. PostsLeft \in Nat /\ PostsLeft >= 1 /\ PostsLeft' \in Nat /\ PostsLeft' >= 1
    <3>1. \A m \in Nat \ {0} : \A n \in 0 .. m - 1 : m - n \in Nat /\ m - n >= 1
      OBVIOUS
    <3> QED
      BY <2>1, <3>1 DEF PostsLeft
  <2>3. LoginsUsed \in 0 .. MaxLogins /\ LoginsUsed' \in 0 .. MaxLogins
    <3>1. logins \in 0 .. MaxLogins /\ logins' \in 0 .. MaxLogins /\ MaxLogins \in 0 .. MaxLogins
      BY <2>1
    <3> QED
      BY <3>1 DEF LoginsUsed
  <2>4. /\ PostsLeft' * (MaxLogins + 1) \in Nat
        /\ PostsLeft' * (MaxLogins + 1) >= MaxLogins + 1
        /\ Budget' \in Nat
    <3>1. MaxLogins + 1 \in Nat
      BY <2>1
    <3>2. PostsLeft' - 1 \in Nat /\ PostsLeft' = (PostsLeft' - 1) + 1
      <4>1. \A n \in Nat : n >= 1 => n - 1 \in Nat /\ n = (n - 1) + 1
        OBVIOUS
      <4> QED
        BY <4>1, <2>2
    <3>3. /\ (PostsLeft' - 1) * (MaxLogins + 1) \in Nat
          /\ PostsLeft' * (MaxLogins + 1)
                = (PostsLeft' - 1) * (MaxLogins + 1) + (MaxLogins + 1)
      BY <3>1, <3>2, OneRoundLess
    <3>4. \A n, m \in Nat : n + (m + 1) \in Nat /\ n + (m + 1) >= m + 1
      OBVIOUS
    <3>5. /\ PostsLeft' * (MaxLogins + 1) \in Nat
          /\ PostsLeft' * (MaxLogins + 1) >= MaxLogins + 1
      BY <3>3, <3>4, <2>1
    <3>6. \A n, m \in Nat : \A u \in 0 .. m : n >= m + 1 => n - u \in Nat
      OBVIOUS
    <3> QED
      BY <3>5, <3>6, <2>1, <2>3 DEF Budget
  <2>5. CASE PostsLeft' = PostsLeft /\ LoginsUsed' > LoginsUsed /\ (Login \/ Post)
    <3>1. PostsLeft * (MaxLogins + 1) \in Nat
      BY <2>4, <2>5
    <3>2. \A n, m \in Nat : \A u, v \in 0 .. m : v > u => n - v < n - u
      OBVIOUS
    <3> QED
      BY <2>1, <2>3, <2>4, <2>5, <3>1, <3>2 DEF Budget
  <2>6. CASE LoginOk
    BY <2>1, <2>5, <2>6 DEF LoginOk, Login, InWork, PostsLeft, LoginsUsed
  <2>7. CASE LoginFails
    BY <2>1, <2>5, <2>7 DEF LoginFails, Login, PostsLeft, LoginsUsed
  <2>8. CASE PostUnauthorized
    <3>1. /\ PostsLeft' = PostsLeft - 1 /\ LoginsUsed = MaxLogins /\ LoginsUsed' = 0
          /\ Post
      BY <2>1, <2>8 DEF PostUnauthorized, Post, PostsLeft, LoginsUsed
    <3>2. PostsLeft * (MaxLogins + 1) = (PostsLeft - 1) * (MaxLogins + 1) + (MaxLogins + 1)
      <4>1. PostsLeft - 1 \in Nat /\ MaxLogins + 1 \in Nat /\ PostsLeft = (PostsLeft - 1) + 1
        BY <2>1, <2>2
      <4> QED
        BY <4>1, OneRoundLess
    <3>3. (PostsLeft - 1) * (MaxLogins + 1) = PostsLeft' * (MaxLogins + 1)
      BY <3>1
    <3> QED
      BY <2>1, <2>4, <3>1, <3>2, <3>3 DEF Budget
  <2>9. ASSUME GiveUpLogin \/ PostAccepted \/ PostNotFound
                 \/ PostRejected \/ PostLost
        PROVE  FALSE
    BY <2>9 DEF GiveUpLogin, PostAccepted, PostNotFound,
                PostRejected, PostLost, Succeeds, Fails, BackToIdle, Restart, InWork
  <2>10. ASSUME ConnectMqtt \/ ConnectFails \/ OnConnect
                  \/ Crash \/ DropMalformed \/ IgnoreData
                  \/ \E k \in {"telemetry", "heartbeat"} : Receive(k)
         PROVE  FALSE
    BY <2>10 DEF ConnectMqtt, ConnectFails, OnConnect,
                 Crash, DropMalformed, IgnoreData,
                 Receive, CanReceive, Restart, InWork
  <2>11. ASSUME OnDisconnect \/ HandleCertReload \/ TokenDue
         PROVE  Budget' = Budget /\ ~Login /\ ~Post
    <3>1. Budget' = Budget
      BY <2>11 DEF OnDisconnect, HandleCertReload, TokenDue,
                   call, Budget, PostsLeft, LoginsUsed
    <3>2. logins' = logins /\ thread' = thread /\ posts' = posts
      BY <2>11 DEF OnDisconnect, HandleCertReload, TokenDue,
                   call
    <3>3. ~Login /\ ~Post
      BY <3>2, <2>1, <2>9 DEF Login, Post, LoginOk,
                   LoginFails, PostUnauthorized, InWork
    <3> QED
      BY <3>1, <3>3
  <2> QED
    BY <2>6, <2>7, <2>8, <2>9, <2>10, <2>11 DEF BridgeNext, Login,
       Post, Environment
<1> QED
  BY <1>1, BridgeIsSound, PTL DEF BridgeSpec
=============================================================================
