------------------------------- MODULE PgPool -------------------------------
(***************************************************************************)
(* The PostgreSQL connections of one API worker: an enhanced pool with a   *)
(* health check, the standard pool that takes its place for good after a   *)
(* failed or slow entry, and the requests that take a connection of either *)
(* and give it back when they end. A pool is counted: connections in it    *)
(* that work, connections in it that do not, and slots in use; a slot in   *)
(* use whose connection nobody holds is lost until the worker restarts.    *)
(***************************************************************************)
EXTENDS Integers, FiniteSets

CONSTANTS
    Requests,           \* requests in flight: threads of the worker
    MinEnh, MaxEnh,     \* the enhanced pool keeps 5 and allows 50
    MinStd, MaxStd,     \* the standard pool keeps 2 and allows 20
    MaxOutages          \* bound: how often PostgreSQL goes away

ASSUME PoolConstants ==
    /\ IsFiniteSet(Requests)
    /\ MaxEnh \in Nat /\ MinEnh \in 0..MaxEnh
    /\ MaxStd \in Nat /\ MinStd \in 0..MaxStd
    /\ MaxOutages \in Nat

VARIABLES
    flag,               \* use_enhanced_pooling
    enh, std,           \* the pools
    there,              \* postgres_pool is not None
    pc,                 \* where each request is in get_postgres_conn
    mgr,                \* g.postgres_conn_mgr: unset, has a connection, or failed to enter
    conn,               \* the connection that the request or its manager holds
    state,              \* and whether it works
    checking,           \* the connection of the health check
    up, outages         \* PostgreSQL, and how often it went away

pools == <<flag, enh, std, there>>
locals == <<pc, mgr, conn, state>>
server == <<up, outages>>
vars == <<pools, locals, checking, server>>

Pool == [idle : Nat, dead : Nat, used : Nat]

TypeOK ==
    /\ flag \in BOOLEAN /\ there \in BOOLEAN /\ up \in BOOLEAN
    /\ enh \in Pool /\ enh.used <= MaxEnh /\ enh.idle + enh.dead <= MinEnh
    /\ std \in Pool /\ std.used <= MaxStd /\ std.idle + std.dead <= MinStd
    /\ pc \in [Requests -> {"run", "enter", "late", "flip", "std", "init"}]
    /\ mgr \in [Requests -> {"unset", "entered", "failed"}]
    /\ conn \in [Requests -> {"none", "enh", "std", "old"}]
    /\ state \in [Requests -> {"works", "broken", "closed"}]
    /\ checking \in {"none", "works", "broken"}
    /\ outages \in 0..MaxOutages

Fresh(n) == [idle |-> n, dead |-> 0, used |-> 0]

Init ==
    /\ flag = TRUE /\ enh = Fresh(MinEnh)
    /\ there = FALSE /\ std = Fresh(0)
    /\ pc = [r \in Requests |-> "run"]
    /\ mgr = [r \in Requests |-> "unset"]
    /\ conn = [r \in Requests |-> "none"]
    /\ state = [r \in Requests |-> "works"]
    /\ checking = "none"
    /\ up = TRUE /\ outages = 0

-----------------------------------------------------------------------------
(* psycopg2's pools.  getconn never waits; putconn keeps what is missing to  *)
(* the minimum and closes the rest.                                          *)

Empty(p) == p.idle + p.dead = 0

TakeNew(p) == [p EXCEPT !.used = @ + 1]
TakeIdle(p) == [TakeNew(p) EXCEPT !.idle = @ - 1]
TakeDead(p) == [TakeNew(p) EXCEPT !.dead = @ - 1]

CanConnect(p, max) == Empty(p) /\ p.used < max /\ up
Refuses(p, max) == Empty(p) /\ (p.used >= max \/ ~up)

Discard(p) == [p EXCEPT !.used = @ - 1]
Keep(p, min) ==
    IF p.idle + p.dead < min THEN [Discard(p) EXCEPT !.idle = @ + 1] ELSE Discard(p)
KeepDead(p, min) ==
    IF p.idle + p.dead < min THEN [Discard(p) EXCEPT !.dead = @ + 1] ELSE Discard(p)

Kill(p) == [idle |-> 0, dead |-> p.idle + p.dead, used |-> p.used]

-----------------------------------------------------------------------------
(* get_postgres_conn.                                                       *)

GoTo(r, from, to) == pc[r] = from /\ pc' = [pc EXCEPT ![r] = to]

Holds(r, whose, how) ==
    /\ conn' = [conn EXCEPT ![r] = whose]
    /\ state' = [state EXCEPT ![r] = how]

\* A request that has a connection is given that one again.
Get(r) ==
    /\ conn[r] = "none"
    /\ GoTo(r, "run", IF flag THEN "enter" ELSE "std")
    /\ UNCHANGED <<pools, mgr, conn, state, checking, server>>

\* The manager is stored before it is entered.  A pooled connection is not tried,
\* and one that took more than five seconds to get, or that cannot be set up, is
\* an error: connecting may take ten.
Enter(r) ==
    /\ \/ /\ \E to \in {"run", "late"} : GoTo(r, "enter", to)
          /\ mgr' = [mgr EXCEPT ![r] = "entered"]
          /\ \/ enh.idle > 0 /\ enh' = TakeIdle(enh) /\ Holds(r, "enh", "works")
             \/ enh.dead > 0 /\ enh' = TakeDead(enh) /\ Holds(r, "enh", "broken")
             \/ CanConnect(enh, MaxEnh) /\ enh' = TakeNew(enh) /\ Holds(r, "enh", "works")
       \/ /\ GoTo(r, "enter", "flip")
          /\ Refuses(enh, MaxEnh)
          /\ mgr' = [mgr EXCEPT ![r] = "failed"]
          /\ UNCHANGED <<enh, conn, state>>
    /\ UNCHANGED <<flag, std, there, checking, server>>

GiveBack(r) ==
    enh' = IF state[r] = "works" THEN Keep(enh, MinEnh) ELSE Discard(enh)

\* The connection goes back before the error gets to get_postgres_conn.
BackOut(r) ==
    /\ GoTo(r, "late", "flip")
    /\ mgr' = [mgr EXCEPT ![r] = "failed"]
    /\ Holds(r, "none", "works")
    /\ GiveBack(r)
    /\ UNCHANGED <<flag, std, there, checking, server>>

Flip(r) ==
    /\ GoTo(r, "flip", "std")
    /\ flag' = FALSE
    /\ UNCHANGED <<enh, std, there, mgr, conn, state, checking, server>>

\* get_postgres_connection looks for the pool without a lock.
FindStd(r) ==
    /\ ~there /\ GoTo(r, "std", "init")
    /\ UNCHANGED <<pools, mgr, conn, state, checking, server>>

\* Connections of a pool that is replaced belong to no pool any more.
InitStd(r) ==
    /\ \/ /\ up /\ GoTo(r, "init", "std")
          /\ there' = TRUE /\ std' = Fresh(MinStd)
          /\ conn' = [q \in Requests |-> IF conn[q] = "std" THEN "old" ELSE conn[q]]
       \/ /\ ~up /\ GoTo(r, "init", "run")
          /\ UNCHANGED <<std, there, conn>>
    /\ UNCHANGED <<flag, enh, mgr, state, checking, server>>

\* A pooled connection that fails the test query is neither answered nor put back.
GetStd(r) ==
    /\ there /\ GoTo(r, "std", "run")
    /\ \/ std.idle > 0 /\ std' = TakeIdle(std) /\ Holds(r, "std", "works")
       \/ std.dead > 0 /\ std' = TakeDead(std) /\ UNCHANGED <<conn, state>>
       \/ CanConnect(std, MaxStd) /\ std' = TakeNew(std) /\ Holds(r, "std", "works")
       \/ Refuses(std, MaxStd) /\ UNCHANGED <<std, conn, state>>
    /\ UNCHANGED <<flag, enh, there, mgr, checking, server>>

-----------------------------------------------------------------------------
(* The end of a request: the teardown of its application context.           *)

Ends(r) ==
    /\ pc[r] = "run" /\ (conn[r] # "none" \/ mgr[r] # "unset")
    /\ mgr' = [mgr EXCEPT ![r] = "unset"]
    /\ Holds(r, "none", "works")
    /\ UNCHANGED pc

\* Mutant: a connection that does not work is not put back to be closed.
EndEnhanced_Kept(r) ==
    /\ mgr[r] = "entered" /\ Ends(r)
    /\ enh' = IF state[r] = "works" THEN Keep(enh, MinEnh) ELSE enh
    /\ UNCHANGED <<flag, std, there, checking, server>>

EndEnhanced(r) ==
    /\ mgr[r] = "entered" /\ Ends(r)
    /\ GiveBack(r)
    /\ UNCHANGED <<flag, std, there, checking, server>>

\* The manager that did not enter has nothing to give back, and is all that is
\* looked at: the connection of the standard pool is dropped.
EndFailed(r) ==
    /\ mgr[r] = "failed" /\ Ends(r)
    /\ UNCHANGED <<pools, checking, server>>

\* Mutant: nothing is put back.
EndStandard_NoPut(r) ==
    /\ mgr[r] = "unset" /\ Ends(r)
    /\ UNCHANGED <<pools, checking, server>>

\* return_postgres_connection puts back what is not closed.  putconn fails if it
\* has to roll back on a broken connection, and for that of another pool.
EndStandard(r) ==
    /\ mgr[r] = "unset" /\ Ends(r)
    /\ \/ /\ conn[r] = "std" /\ state[r] = "works"
          /\ std' = Keep(std, MinStd)
       \/ /\ conn[r] = "std" /\ state[r] = "broken"
          /\ std' \in {KeepDead(std, MinStd), std}
       \/ /\ conn[r] = "old" \/ state[r] = "closed"
          /\ UNCHANGED std
    /\ UNCHANGED <<flag, enh, there, checking, server>>

-----------------------------------------------------------------------------
(* The health check of the enhanced pool.                                   *)

HealthTake ==
    /\ checking = "none"
    /\ \/ enh.idle > 0 /\ enh' = TakeIdle(enh) /\ checking' = "works"
       \/ enh.dead > 0 /\ enh' = TakeDead(enh) /\ checking' = "broken"
       \/ CanConnect(enh, MaxEnh) /\ enh' = TakeNew(enh) /\ checking' = "works"
    /\ UNCHANGED <<flag, std, there, locals, server>>

\* Mutant: the connection is put back only to be closed.
HealthPut_BrokenOnly ==
    /\ checking # "none" /\ checking' = "none"
    /\ enh' = IF checking = "works" THEN enh ELSE Discard(enh)
    /\ UNCHANGED <<flag, std, there, locals, server>>

HealthPut ==
    /\ checking # "none" /\ checking' = "none"
    /\ enh' = IF checking = "works" THEN Keep(enh, MinEnh) ELSE Discard(enh)
    /\ UNCHANGED <<flag, std, there, locals, server>>

-----------------------------------------------------------------------------
(* PostgreSQL.                                                              *)

\* Every connection there is breaks, pooled or held.
Outage ==
    /\ up /\ outages < MaxOutages
    /\ up' = FALSE /\ outages' = outages + 1
    /\ enh' = Kill(enh) /\ std' = Kill(std)
    /\ state' = [r \in Requests |->
                    IF conn[r] # "none" /\ state[r] = "works" THEN "broken" ELSE state[r]]
    /\ checking' = IF checking = "works" THEN "broken" ELSE checking
    /\ UNCHANGED <<flag, there, pc, mgr, conn>>

Recover ==
    /\ ~up /\ up' = TRUE
    /\ UNCHANGED <<pools, locals, checking, outages>>

\* A query on a broken connection closes it.
Notice(r) ==
    /\ pc[r] = "run" /\ state[r] = "broken"
    /\ state' = [state EXCEPT ![r] = "closed"]
    /\ UNCHANGED <<pools, pc, mgr, conn, checking, server>>

Request(r) ==
    \/ Get(r) \/ Enter(r) \/ BackOut(r) \/ Flip(r) \/ FindStd(r) \/ InitStd(r) \/ GetStd(r)
    \/ EndEnhanced(r) \/ EndFailed(r) \/ EndStandard(r) \/ Notice(r)

Next ==
    \/ \E r \in Requests : Request(r)
    \/ HealthTake \/ HealthPut \/ Outage \/ Recover

Spec == Init /\ [][Next]_vars

-----------------------------------------------------------------------------
(* Properties.                                                              *)

\* The enhanced pool has room for every request and the health check.
Roomy == MaxEnh > Cardinality(Requests)

Entered == {r \in Requests : mgr[r] = "entered"}
Holders == {r \in Requests : conn[r] = "std"}

\* The enhanced pool loses no slot, whatever breaks between taking a connection
\* and giving it back: every slot in use is that of a request or of the check.
NoEnhancedLoss ==
    enh.used = Cardinality(Entered) + (IF checking = "none" THEN 0 ELSE 1)

\* The standard pool does lose slots: one for every request whose entry of the
\* enhanced pool failed, and one for every connection it has when PostgreSQL goes
\* away.  It loses no more than these, however slow entries, outages and requests
\* interleave, so a worker is out of connections for good only after many outages.
StandardLossBounded ==
    std.used <= Cardinality(Holders) + Cardinality(Requests)
                    + outages * (MinStd + Cardinality(Requests))

\* With room for every request and the check, no request meets an exhausted
\* enhanced pool: a worker gives that pool up after a connection that could not be
\* opened, or was slow, and never because connections were taken and not returned.
NeverExhausted ==
    Roomy => \A r \in Requests : pc[r] = "enter" => enh.used < MaxEnh
=============================================================================
