--------------------------- MODULE TelemetryStore ---------------------------
(***************************************************************************)
(* The telemetry of one device: the readings in MongoDB, and the answers   *)
(* to queries that are kept in Redis for five minutes.  One ingestion      *)
(* endpoint retries and invalidates the cache, the others insert directly  *)
(* and leave the cache to its expiry.  The copy in TimescaleDB is written  *)
(* after the insertion, by a call that never raises, and no answer here    *)
(* comes from it; it is left out.  A reading is a number; every insertion  *)
(* makes the next one, a repeated one included.                            *)
(***************************************************************************)
EXTENDS Integers, FiniteSets

CONSTANTS
    Requests,       \* requests in flight: threads of the API workers
    Keys,           \* cache keys: a name of the device with a limit
    DeviceKeys,     \* those under the device_id; the others are under its _id
    MaxReadings,    \* bound: readings ever made, within every limit
    MaxAttempts,    \* attempts of one ingestion: 3
    Ttl,            \* life of a cache entry: 300 s
    NoKey           \* of a request that is not a query

ASSUME StoreConstants ==
    /\ DeviceKeys \subseteq Keys /\ NoKey \notin Keys
    /\ MaxReadings \in Nat /\ MaxAttempts \in Nat \ {0} /\ Ttl \in Nat \ {0}

Readings == 1..MaxReadings

VARIABLES
    exists,             \* the device document is there
    docs,               \* its readings in db.telemetry
    made,               \* the last reading that was made
    items, left,        \* the cache: readings of an entry and its life left
    pc,                 \* next call of each request
    tries,              \* the attempt an ingestion is in, 0 for other requests
    own,                \* readings this request has inserted
    todo,               \* keys the invalidation has still to delete
    key, seen,          \* the key of a query, and what the query found
    answered,           \* history: readings whose ingestion was answered with success
    behind              \* history: entries that were out of date when put, or that
                        \* an invalidation left out of date when it failed

cache == <<items, left>>
locals == <<pc, tries, own, todo, key, seen>>
history == <<answered, behind>>
vars == <<exists, docs, made, cache, locals, history>>

PCs == {"idle", "find", "insert", "update", "scan", "clear",
        "query", "put", "erase"}

TypeOK ==
    /\ exists \in BOOLEAN
    /\ docs \subseteq Readings /\ made \in 0..MaxReadings
    /\ items \in [Keys -> SUBSET Readings]
    /\ left \in [Keys -> 0..Ttl]
    /\ pc \in [Requests -> PCs]
    /\ tries \in [Requests -> 0..MaxAttempts]
    /\ own \in [Requests -> SUBSET Readings]
    /\ todo \in [Requests -> SUBSET DeviceKeys]
    /\ key \in [Requests -> Keys \union {NoKey}]
    /\ seen \in [Requests -> SUBSET Readings]
    /\ answered \subseteq Readings /\ behind \subseteq Keys

Init ==
    /\ exists = TRUE
    /\ docs = {} /\ made = 0
    /\ items = [k \in Keys |-> {}] /\ left = [k \in Keys |-> 0]
    /\ pc = [r \in Requests |-> "idle"]
    /\ tries = [r \in Requests |-> 0]
    /\ own = [r \in Requests |-> {}]
    /\ todo = [r \in Requests |-> {}]
    /\ key = [r \in Requests |-> NoKey]
    /\ seen = [r \in Requests |-> {}]
    /\ answered = {} /\ behind = {}

-----------------------------------------------------------------------------
At(r, p) == pc[r] = p
GoTo(r, p) == pc' = [pc EXCEPT ![r] = p]

Ends(r) ==
    /\ GoTo(r, "idle")
    /\ tries' = [tries EXCEPT ![r] = 0]
    /\ own' = [own EXCEPT ![r] = {}]
    /\ todo' = [todo EXCEPT ![r] = {}]
    /\ seen' = [seen EXCEPT ![r] = {}]
    /\ key' = [key EXCEPT ![r] = NoKey]

Live(k) == left[k] > 0

\* Readings that were erased with the device, or have expired.
Gone == (1..made) \ docs

-----------------------------------------------------------------------------
(* ingest_device_telemetry, and the endpoints that insert directly.         *)

StartIngest(r) ==
    /\ At(r, "idle") /\ GoTo(r, "find")
    /\ tries' = [tries EXCEPT ![r] = 1]
    /\ UNCHANGED <<exists, docs, made, cache, own, todo, key, seen, history>>

\* A device that is not found is answered 404.
FindDevice(r) ==
    /\ At(r, "find")
    /\ \/ exists /\ GoTo(r, "insert") /\ UNCHANGED <<tries, own, todo, key, seen>>
       \/ ~exists /\ Ends(r)
    /\ UNCHANGED <<exists, docs, made, cache, history>>

\* The direct endpoints look the device up for its organization alone.
StartDirect(r) ==
    /\ At(r, "idle") /\ GoTo(r, "insert")
    /\ UNCHANGED <<exists, docs, made, cache, tries, own, todo, key,
                   seen, history>>

\* insert_one; the connection may break after MongoDB has done it.
Stores(r) ==
    /\ At(r, "insert") /\ made < MaxReadings
    /\ made' = made + 1
    /\ docs' = docs \union {made + 1}
    /\ own' = [own EXCEPT ![r] = @ \union {made + 1}]

Insert(r) ==
    /\ Stores(r) /\ GoTo(r, "update")
    /\ UNCHANGED <<exists, cache, tries, todo, key, seen, history>>

\* Mutant: the cache is not invalidated.
UpdateDevice_NoInvalidation(r) ==
    /\ At(r, "update") /\ Ends(r)
    /\ answered' = IF tries[r] > 0 THEN answered \union own[r] ELSE answered
    /\ UNCHANGED <<exists, docs, made, cache, behind>>

\* last_seen and, for the direct endpoints, telemetry_count of the document.
UpdateDevice(r) ==
    /\ At(r, "update")
    /\ \/ tries[r] > 0 /\ GoTo(r, "scan") /\ UNCHANGED <<tries, own, todo, key, seen>>
       \/ tries[r] = 0 /\ Ends(r)
       \/ tries[r] = 0 /\ GoTo(r, "insert")     \* the next one of a batch
          /\ own' = [own EXCEPT ![r] = {}] /\ UNCHANGED <<tries, todo, key, seen>>
    /\ UNCHANGED <<exists, docs, made, cache, history>>

\* Mutant: a retry of MongoDB's own, which no attempt counts.
Retry_Uncounted(r) ==
    /\ pc[r] \in {"find", "insert", "update"} /\ tries[r] \in 1..(MaxAttempts - 1)
    /\ GoTo(r, "find")
    /\ \/ Stores(r)
       \/ UNCHANGED <<docs, made, own>>
    /\ UNCHANGED <<exists, cache, tries, todo, key, seen, history>>

\* ConnectionFailure or ServerSelectionTimeoutError from any call of an attempt,
\* with the effect of the call or without: the next attempt starts over.
Retry(r) ==
    /\ pc[r] \in {"find", "insert", "update"} /\ tries[r] \in 1..(MaxAttempts - 1)
    /\ GoTo(r, "find")
    /\ tries' = [tries EXCEPT ![r] = @ + 1]
    /\ \/ Stores(r)
       \/ UNCHANGED <<docs, made, own>>
    /\ UNCHANGED <<exists, cache, todo, key, seen, history>>

\* scan_iter returns every matching key that is there all the time, and may
\* return one that comes meanwhile.
Scan(r) ==
    /\ At(r, "scan") /\ GoTo(r, "clear")
    /\ \E late_keys \in SUBSET DeviceKeys :
          todo' = [todo EXCEPT ![r] = {k \in DeviceKeys : Live(k)} \union late_keys]
    /\ UNCHANGED <<exists, docs, made, cache, tries, own, key, seen, history>>

DeleteKey(r) ==
    /\ At(r, "clear")
    /\ \E k \in todo[r] :
          /\ todo' = [todo EXCEPT ![r] = @ \ {k}]
          /\ left' = [left EXCEPT ![k] = 0]
          /\ items' = [items EXCEPT ![k] = {}]
          /\ behind' = behind \ {k}
    /\ UNCHANGED <<exists, docs, made, pc, tries, own, key, seen, answered>>

\* Redis fails: the error is swallowed, the entries that were not deleted stay, and
\* the ingestion is answered as ever.
InvalidationFails(r) ==
    /\ pc[r] \in {"scan", "clear"} /\ Ends(r)
    /\ answered' = answered \union own[r]
    /\ behind' = behind \union
          {k \in IF At(r, "scan") THEN DeviceKeys ELSE todo[r] :
              Live(k) /\ ~(own[r] \intersect docs \subseteq items[k])}
    /\ UNCHANGED <<exists, docs, made, cache>>

\* The log entry, and the answer.
AnswerIngest(r) ==
    /\ At(r, "clear") /\ todo[r] = {}
    /\ answered' = answered \union own[r]
    /\ Ends(r)
    /\ UNCHANGED <<exists, docs, made, cache, behind>>

-----------------------------------------------------------------------------
(* get_device_telemetry; the readers that put nothing change nothing.       *)

\* Mutant: a hit renews the expiry of the entry.
Look_Renewing(r) ==
    /\ At(r, "idle")
    /\ \E k \in Keys :
          \/ /\ Live(k) /\ left' = [left EXCEPT ![k] = Ttl]
             /\ UNCHANGED <<pc, key>>
          \/ /\ GoTo(r, "query") /\ key' = [key EXCEPT ![r] = k]
             /\ UNCHANGED left
    /\ UNCHANGED <<exists, docs, made, items, tries, own, todo, seen, history>>

\* A hit is answered from the entry, without a look at the device; a miss, and
\* a Redis that does not answer, goes on to MongoDB.
Look(r) ==
    /\ At(r, "idle")
    /\ \E k \in Keys :
          \/ Live(k) /\ UNCHANGED <<pc, key>>
          \/ GoTo(r, "query") /\ key' = [key EXCEPT ![r] = k]
    /\ UNCHANGED <<exists, docs, made, cache, tries, own, todo, seen, history>>

\* An empty answer, or none because there is no such device, is not kept.
Query(r) ==
    /\ At(r, "query")
    /\ \/ /\ exists /\ docs # {}
          /\ GoTo(r, "put")
          /\ seen' = [seen EXCEPT ![r] = docs]
          /\ UNCHANGED <<tries, own, todo, key>>
       \/ (~exists \/ docs = {}) /\ Ends(r)
    /\ UNCHANGED <<exists, docs, made, cache, history>>

\* Mutant: an entry that is there is kept, and its expiry renewed.
Put_Renewing(r) ==
    /\ At(r, "put") /\ Ends(r)
    /\ IF Live(key[r]) THEN UNCHANGED <<items, behind>>
       ELSE /\ items' = [items EXCEPT ![key[r]] = seen[r]]
            /\ behind' = IF docs \subseteq seen[r] THEN behind ELSE behind \union {key[r]}
    /\ left' = [left EXCEPT ![key[r]] = Ttl]
    /\ UNCHANGED <<exists, docs, made, answered>>

\* setex
Put(r) ==
    /\ At(r, "put") /\ Ends(r)
    /\ items' = [items EXCEPT ![key[r]] = seen[r]]
    /\ left' = [left EXCEPT ![key[r]] = Ttl]
    /\ behind' = IF docs \subseteq seen[r] THEN behind \ {key[r]} ELSE behind \union {key[r]}
    /\ UNCHANGED <<exists, docs, made, answered>>

-----------------------------------------------------------------------------
\* delete_device: the document, then the readings; the cache and the samples
\* in TimescaleDB stay.
DeleteDevice(r) ==
    /\ At(r, "idle") /\ exists
    /\ GoTo(r, "erase")
    /\ exists' = FALSE
    /\ UNCHANGED <<docs, made, cache, tries, own, todo, key, seen, history>>

EraseReadings(r) ==
    /\ At(r, "erase") /\ Ends(r)
    /\ docs' = {}
    /\ UNCHANGED <<exists, made, cache, history>>

\* A call fails for good, with its effect or without, or the worker dies.
Dies(r) ==
    /\ pc[r] # "idle" /\ Ends(r)
    /\ UNCHANGED <<exists, docs, made, cache, history>>

\* The index on the timestamp removes a reading thirty days after it, or at once:
\* the direct endpoints take the timestamp from the device.
Expire ==
    /\ \E n \in docs : docs' = docs \ {n}
    /\ UNCHANGED <<exists, made, cache, locals, history>>

Older(n) == IF n = 0 THEN 0 ELSE n - 1

Tick ==
    /\ left' = [k \in Keys |-> Older(left[k])]
    /\ items' = [k \in Keys |-> IF left[k] = 1 THEN {} ELSE items[k]]
    /\ behind' = {k \in behind : left[k] # 1}
    /\ UNCHANGED <<exists, docs, made, locals, answered>>

Request(r) ==
    \/ StartIngest(r) \/ FindDevice(r) \/ StartDirect(r) \/ Insert(r)
    \/ UpdateDevice(r) \/ Retry(r)
    \/ Scan(r) \/ DeleteKey(r) \/ InvalidationFails(r) \/ AnswerIngest(r)
    \/ Look(r) \/ Query(r) \/ Put(r)
    \/ DeleteDevice(r) \/ EraseReadings(r) \/ Dies(r)

Next == (\E r \in Requests : Request(r)) \/ Expire \/ Tick

\* Time passes, and a request that has the answer of a query ends.
Fairness ==
    /\ WF_vars(Tick)
    /\ \A r \in Requests : WF_vars(At(r, "put") /\ (Put(r) \/ Dies(r)))

Spec == Init /\ [][Next]_vars /\ Fairness

-----------------------------------------------------------------------------
(* Properties.                                                              *)

\* "Invalidate telemetry cache when new data is ingested": once an ingestion has
\* answered with success, an entry of the device without its reading was put
\* late, by a reader whose query came before a reading that was there when it was
\* put, or was left by an invalidation that failed.
StaleHasCause ==
    \A k \in DeviceKeys :
        Live(k) /\ k \notin behind => answered \intersect docs \subseteq items[k]

\* An ingestion that is retried after a broken connection stores its reading
\* again, but no more often than it has begun; the other endpoints store it once.
CopiesBounded ==
    \A r \in Requests : Cardinality(own[r]) <= IF tries[r] = 0 THEN 1 ELSE tries[r]

\* Why both hold.  An attempt stores its reading only after the lookup of the
\* device, so that before it there is one copy less than attempts; nothing
\* shows a reading that was not made; and while
\* a request clears the cache, an entry it has not still to delete is missing
\* none of its readings, unless it is known to be behind.
CopiesSoFar(r) ==
    /\ IsFiniteSet(own[r])
    /\ pc[r] = "idle" => own[r] = {} /\ tries[r] = 0
    /\ pc[r] \in {"find", "insert"} =>
          Cardinality(own[r]) < IF tries[r] = 0 THEN 1 ELSE tries[r]

OnlyMade ==
    /\ docs \union answered \subseteq 1..made
    /\ \A k \in Keys : items[k] \subseteq 1..made
    /\ \A r \in Requests : own[r] \union seen[r] \subseteq 1..made

ClearedSoFar(r) ==
    pc[r] = "clear" =>
        \A k \in DeviceKeys \ todo[r] :
            Live(k) /\ k \notin behind => own[r] \intersect docs \subseteq items[k]

StoreInv ==
    /\ StaleHasCause /\ CopiesBounded
    /\ OnlyMade
    /\ \A r \in Requests :
          /\ CopiesSoFar(r) /\ ClearedSoFar(r)
          /\ pc[r] \in {"query", "put"} => key[r] \in Keys
    /\ \A k \in Keys : ~Live(k) => items[k] = {} /\ k \notin behind

\* A reading is shown by every key within the life of an entry, also when it
\* was inserted by an endpoint that does not invalidate, when a late reader puts
\* an older answer or when the invalidation fails.
EventuallyShown ==
    \A n \in Readings :
        n \in docs ~> [](n \in docs => \A k \in Keys : Live(k) => n \in items[k])

\* The cache is not cleared when a device is deleted, and is answered from
\* without a look at the device; but the readings that are erased with a device, or
\* have expired, leave it for good.
EventuallyForgotten ==
    \A n \in Readings : n \in Gone ~> [](\A k \in Keys : n \notin items[k])
=============================================================================
