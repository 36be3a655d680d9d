---------------------------- MODULE PgPoolProofs ----------------------------
(***************************************************************************)
(* Theorems about PgPool for every number of requests and outages and for  *)
(* pools of every size.                                                    *)
(***************************************************************************)
EXTENDS PgPool, FiniteSetTheorems, TLAPS

\* A pool never has more connections than it may have.
Room(p, max) == p.idle + p.dead + p.used <= max

RoomInv == Room(enh, MaxEnh) /\ Room(std, MaxStd)

\* The requests that may find a manager that failed to enter when they end.
Falling == {r \in Requests : pc[r] \in {"enter", "late", "flip"} \/ mgr[r] = "failed"}

Broken == {r \in Requests : conn[r] = "std" /\ state[r] # "works"}

\* A request has one connection, and none of the standard pool before the
\* enhanced pool is given up.
UseInv ==
    /\ \A r \in Requests : pc[r] \notin {"run", "late"} => conn[r] = "none"
    /\ \A r \in Requests : pc[r] = "late" => mgr[r] = "entered"
    /\ \A r \in Requests : mgr[r] = "entered" => conn[r] = "enh"
    /\ flag => ~there /\ \A r \in Requests : pc[r] \in {"run", "enter", "late", "flip"}
    /\ ~there => std = Fresh(0) /\ Holders = {}

\* What is held is in use.
HeldInv == Cardinality(Holders) <= std.used

\* The slots that are lost, with those that requests and broken connections are
\* still to lose, and what the outages account for.
Share == MinStd + Cardinality(Requests)

LossInv ==
    there =>
        std.used + Cardinality(Falling) + std.dead + Cardinality(Broken)
            <= Cardinality(Holders) + Cardinality(Requests) + outages * Share

PoolInv == RoomInv /\ UseInv /\ NoEnhancedLoss /\ HeldInv /\ LossInv

\* Sets of requests are finite, and their sizes follow inclusion.
LEMMA Counting ==
    ASSUME NEW R \in SUBSET Requests, NEW Q \in SUBSET R
    PROVE  /\ IsFiniteSet(R) /\ IsFiniteSet(Q)
           /\ Cardinality(R) \in Nat /\ Cardinality(Q) \in Nat
           /\ Cardinality(Requests) \in Nat
           /\ Cardinality(Q) <= Cardinality(R)
           /\ Cardinality(R) <= Cardinality(Requests)
<1>1. IsFiniteSet(R) /\ IsFiniteSet(Q)
  BY PoolConstants, FS_Subset
<1> QED
  BY <1>1, PoolConstants, FS_Subset, FS_CardinalityType

LEMMA Removing ==
    ASSUME NEW R \in SUBSET Requests, NEW r \in R
    PROVE  Cardinality(R \ {r}) = Cardinality(R) - 1
BY Counting, FS_RemoveElement

LEMMA Fewer ==
    ASSUME NEW R \in SUBSET Requests, NEW r, NEW Q \in SUBSET Requests
    PROVE  /\ Q = R \ {r} => Cardinality(Q) >= Cardinality(R) - 1
           /\ r \in R /\ Q \subseteq R \ {r} => Cardinality(Q) <= Cardinality(R) - 1
<1>1. Cardinality(R) \in Nat /\ Cardinality(Q) \in Nat
  BY Counting
<1>2. CASE r \in R
  <2>1. Cardinality(R \ {r}) = Cardinality(R) - 1
    BY <1>2, Removing
  <2>2. ASSUME Q \subseteq R \ {r} PROVE Cardinality(Q) <= Cardinality(R \ {r})
    BY <2>2, Counting
  <2> QED
    BY <1>1, <2>1, <2>2
<1>3. CASE r \notin R
  <2>1. R \ {r} = R
    BY <1>3
  <2> QED
    BY <1>1, <1>3, <2>1
<1> QED
  BY <1>2, <1>3

LEMMA Adding ==
    ASSUME NEW R \in SUBSET Requests, NEW r \in Requests \ R
    PROVE  Cardinality(R \union {r}) = Cardinality(R) + 1
BY Counting, FS_AddElement

\* What each operation does to the fields of a pool.
LEMMA PoolOps ==
    ASSUME NEW p \in Pool, NEW min \in Nat
    PROVE  /\ p.idle \in Nat /\ p.dead \in Nat /\ p.used \in Nat
           /\ TakeIdle(p) = [idle |-> p.idle - 1, dead |-> p.dead, used |-> p.used + 1]
           /\ TakeDead(p) = [idle |-> p.idle, dead |-> p.dead - 1, used |-> p.used + 1]
           /\ TakeNew(p) = [idle |-> p.idle, dead |-> p.dead, used |-> p.used + 1]
           /\ Discard(p) = [idle |-> p.idle, dead |-> p.dead, used |-> p.used - 1]
           /\ Kill(p) = [idle |-> 0, dead |-> p.idle + p.dead, used |-> p.used]
           /\ \/ /\ p.idle + p.dead < min
                 /\ Keep(p, min) = [idle |-> p.idle + 1, dead |-> p.dead, used |-> p.used - 1]
                 /\ KeepDead(p, min) = [idle |-> p.idle, dead |-> p.dead + 1, used |-> p.used - 1]
              \/ /\ p.idle + p.dead >= min
                 /\ Keep(p, min) = [idle |-> p.idle, dead |-> p.dead, used |-> p.used - 1]
                 /\ KeepDead(p, min) = [idle |-> p.idle, dead |-> p.dead, used |-> p.used - 1]
<1> USE DEF Pool
<1>1. p.idle \in Nat /\ p.dead \in Nat /\ p.used \in Nat
  OBVIOUS
<1>2. p = [idle |-> p.idle, dead |-> p.dead, used |-> p.used]
  OBVIOUS
<1>3. /\ TakeIdle(p) = [idle |-> p.idle - 1, dead |-> p.dead, used |-> p.used + 1]
      /\ TakeDead(p) = [idle |-> p.idle, dead |-> p.dead - 1, used |-> p.used + 1]
      /\ TakeNew(p) = [idle |-> p.idle, dead |-> p.dead, used |-> p.used + 1]
  <2>1. TakeNew(p) = [idle |-> p.idle, dead |-> p.dead, used |-> p.used + 1]
    BY <1>1 DEF TakeNew
  <2> QED
    BY <1>1, <2>1 DEF TakeIdle, TakeDead
<1>4. Kill(p) = [idle |-> 0, dead |-> p.idle + p.dead, used |-> p.used]
  BY DEF Kill
<1>5. Discard(p) = [idle |-> p.idle, dead |-> p.dead, used |-> p.used - 1]
  BY DEF Discard
<1>6. /\ [Discard(p) EXCEPT !.idle = @ + 1] =
            [idle |-> p.idle + 1, dead |-> p.dead, used |-> p.used - 1]
      /\ [Discard(p) EXCEPT !.dead = @ + 1] =
            [idle |-> p.idle, dead |-> p.dead + 1, used |-> p.used - 1]
  BY <1>1, <1>5
<1>7. CASE p.idle + p.dead < min
  BY <1>1, <1>3, <1>4, <1>5, <1>6, <1>7 DEF Keep, KeepDead
<1>8. CASE p.idle + p.dead >= min
  BY <1>1, <1>3, <1>4, <1>5, <1>8 DEF Keep, KeepDead
<1> QED
  BY <1>1, <1>7, <1>8

LEMMA SharesType ==
    /\ Cardinality(Requests) \in Nat /\ Share \in Nat
    /\ \A n \in Nat : n * Share \in Nat /\ (n + 1) * Share = n * Share + Share
<1>1. Cardinality(Requests) \in Nat
  BY PoolConstants, FS_CardinalityType
<1>2. Share \in Nat
  BY <1>1, PoolConstants DEF Share
<1> QED
  BY <1>1, <1>2

\* The slots in use cover what gives them back.
LEMMA SlotsThere ==
    ASSUME TypeOK, NoEnhancedLoss, HeldInv
    PROVE  /\ \A r \in Requests : mgr[r] = "entered" => enh.used > 0
           /\ checking # "none" => enh.used > 0
           /\ \A r \in Requests : conn[r] = "std" => std.used > 0
<1>1. /\ Cardinality(Entered) \in Nat /\ Cardinality(Holders) \in Nat
      /\ enh.used \in Nat /\ std.used \in Nat
  BY Counting DEF Entered, Holders, TypeOK, Pool
<1>2. ASSUME NEW r \in Requests, mgr[r] = "entered" PROVE enh.used > 0
  <2>1. Cardinality(Entered \ {r}) = Cardinality(Entered) - 1
    BY <1>2, Removing DEF Entered
  <2>2. Cardinality(Entered \ {r}) \in Nat
    BY Counting DEF Entered
  <2> QED
    BY <1>1, <2>1, <2>2 DEF NoEnhancedLoss
<1>3. ASSUME NEW r \in Requests, conn[r] = "std" PROVE std.used > 0
  <2>1. Cardinality(Holders \ {r}) = Cardinality(Holders) - 1
    BY <1>3, Removing DEF Holders
  <2>2. Cardinality(Holders \ {r}) \in Nat
    BY Counting DEF Holders
  <2> QED
    BY <1>1, <2>1, <2>2 DEF HeldInv
<1> QED
  BY <1>1, <1>2, <1>3 DEF NoEnhancedLoss

LEMMA InitInv == Init => TypeOK /\ PoolInv
<1> SUFFICES ASSUME Init PROVE TypeOK /\ PoolInv
  OBVIOUS
<1> USE PoolConstants
<1>1. TypeOK
  <2>1. enh = Fresh(MinEnh) /\ std = Fresh(0)
    BY DEF Init
  <2>2. /\ enh \in Pool /\ enh.used <= MaxEnh /\ enh.idle + enh.dead <= MinEnh
        /\ std \in Pool /\ std.used <= MaxStd /\ std.idle + std.dead <= MinStd
    BY <2>1 DEF Pool, Fresh
  <2>3. flag \in BOOLEAN /\ there \in BOOLEAN /\ up \in BOOLEAN
    BY Zenon DEF Init
  <2> QED
    BY <2>2, <2>3 DEF Init, TypeOK
<1>2. RoomInv /\ UseInv
  BY DEF Init, RoomInv, Room, UseInv, Fresh, Holders
<1>3. Entered = {} /\ Holders = {}
  BY DEF Init, Entered, Holders
<1>4. NoEnhancedLoss /\ HeldInv
  BY <1>3, FS_EmptySet DEF Init, NoEnhancedLoss, HeldInv, Fresh
<1>5. LossInv
  BY DEF Init, LossInv
<1> QED
  BY <1>1, <1>2, <1>4, <1>5 DEF PoolInv

\* Every variable keeps its type, and each pool its size.
LEMMA StepType ==
    ASSUME TypeOK, RoomInv, UseInv, NoEnhancedLoss, HeldInv, [Next]_vars
    PROVE  TypeOK' /\ RoomInv'
<1> USE PoolConstants DEF pools, locals, server
<1>1. CASE UNCHANGED vars
  BY <1>1, PoolOps, SlotsThere DEF vars, TypeOK, RoomInv, Room, Pool, Fresh, CanConnect, Empty
<1>2. CASE HealthTake \/ HealthPut \/ Outage \/ Recover
  <2>1. CASE HealthTake
    BY <2>1, PoolOps, SlotsThere DEF HealthTake, TypeOK, RoomInv, Room, Pool, Fresh, CanConnect, Empty
  <2>2. CASE HealthPut
    BY <2>2, PoolOps, SlotsThere DEF HealthPut, TypeOK, RoomInv, Room, Pool, Fresh, CanConnect, Empty
  <2>3. CASE Outage
    <3>1. /\ enh' \in Pool /\ enh'.used <= MaxEnh /\ enh'.idle + enh'.dead <= MinEnh
          /\ Room(enh', MaxEnh)
      BY <2>3, PoolOps, SlotsThere DEF Outage, TypeOK, RoomInv, Room, Pool, CanConnect, Empty
    <3>2. /\ std' \in Pool /\ std'.used <= MaxStd /\ std'.idle + std'.dead <= MinStd
          /\ Room(std', MaxStd)
      BY <2>3, PoolOps, SlotsThere DEF Outage, TypeOK, RoomInv, Room, Pool, CanConnect, Empty, Fresh
    <3>3. /\ pc' \in [Requests -> {"run", "enter", "late", "flip", "std", "init"}]
          /\ mgr' \in [Requests -> {"unset", "entered", "failed"}]
      BY <2>3 DEF Outage, TypeOK
    <3>4. /\ conn' \in [Requests -> {"none", "enh", "std", "old"}]
          /\ state' \in [Requests -> {"works", "broken", "closed"}]
      BY <2>3 DEF Outage, TypeOK
    <3>5. flag' \in BOOLEAN /\ there' \in BOOLEAN /\ up' \in BOOLEAN
      BY Zenon, <2>3 DEF Outage, TypeOK
    <3>6. checking' \in {"none", "works", "broken"} /\ outages' \in 0..MaxOutages
      BY <2>3 DEF Outage, TypeOK
    <3> QED
      BY <3>1, <3>2, <3>3, <3>4, <3>5, <3>6 DEF TypeOK, RoomInv, Room
  <2>4. CASE Recover
    BY <2>4, PoolOps, SlotsThere DEF Recover, TypeOK, RoomInv, Room, Pool, Fresh, CanConnect, Empty
  <2> QED
    BY <1>2, <2>1, <2>2, <2>3, <2>4
<1>3. ASSUME NEW r \in Requests, Request(r)
    PROVE  TypeOK' /\ RoomInv'
  <2>1. CASE Get(r)
    BY <2>1, PoolOps, SlotsThere DEF Get, GoTo, TypeOK, RoomInv, Room, Pool, Fresh, CanConnect, Empty
  <2>2. CASE Enter(r)
    <3>1. /\ enh' \in Pool /\ enh'.used <= MaxEnh /\ enh'.idle + enh'.dead <= MinEnh
          /\ Room(enh', MaxEnh)
      BY <2>2, PoolOps, SlotsThere DEF Enter, GoTo, Holds, TypeOK, RoomInv, Room, Pool, CanConnect, Empty
    <3>2. /\ std' \in Pool /\ std'.used <= MaxStd /\ std'.idle + std'.dead <= MinStd
          /\ Room(std', MaxStd)
      BY <2>2, PoolOps, SlotsThere DEF Enter, GoTo, Holds, TypeOK, RoomInv, Room, Pool, CanConnect, Empty, Fresh
    <3>3. /\ pc' \in [Requests -> {"run", "enter", "late", "flip", "std", "init"}]
          /\ mgr' \in [Requests -> {"unset", "entered", "failed"}]
      BY <2>2 DEF Enter, GoTo, Holds, TypeOK
    <3>4. /\ conn' \in [Requests -> {"none", "enh", "std", "old"}]
          /\ state' \in [Requests -> {"works", "broken", "closed"}]
      BY <2>2 DEF Enter, GoTo, Holds, TypeOK
    <3>5. flag' \in BOOLEAN /\ there' \in BOOLEAN /\ up' \in BOOLEAN
      BY Zenon, <2>2 DEF Enter, GoTo, Holds, TypeOK
    <3>6. checking' \in {"none", "works", "broken"} /\ outages' \in 0..MaxOutages
      BY <2>2 DEF Enter, GoTo, Holds, TypeOK
    <3> QED
      BY <3>1, <3>2, <3>3, <3>4, <3>5, <3>6 DEF TypeOK, RoomInv, Room
  <2>3. CASE Flip(r)
    BY <2>3, PoolOps, SlotsThere DEF Flip, GoTo, TypeOK, RoomInv, Room, Pool, Fresh, CanConnect, Empty
  <2>4. CASE FindStd(r)
    BY <2>4, PoolOps, SlotsThere DEF FindStd, GoTo, TypeOK, RoomInv, Room, Pool, Fresh, CanConnect, Empty
  <2>5. CASE InitStd(r)
    <3>1. /\ enh' \in Pool /\ enh'.used <= MaxEnh /\ enh'.idle + enh'.dead <= MinEnh
          /\ Room(enh', MaxEnh)
      BY <2>5, PoolOps, SlotsThere DEF InitStd, GoTo, TypeOK, RoomInv, Room, Pool, CanConnect, Empty
    <3>2. /\ std' \in Pool /\ std'.used <= MaxStd /\ std'.idle + std'.dead <= MinStd
          /\ Room(std', MaxStd)
      BY <2>5, PoolOps, SlotsThere DEF InitStd, GoTo, TypeOK, RoomInv, Room, Pool, CanConnect, Empty, Fresh
    <3>3. /\ pc' \in [Requests -> {"run", "enter", "late", "flip", "std", "init"}]
          /\ mgr' \in [Requests -> {"unset", "entered", "failed"}]
      BY <2>5 DEF InitStd, GoTo, TypeOK
    <3>4. /\ conn' \in [Requests -> {"none", "enh", "std", "old"}]
          /\ state' \in [Requests -> {"works", "broken", "closed"}]
      BY <2>5 DEF InitStd, GoTo, TypeOK
    <3>5. flag' \in BOOLEAN /\ there' \in BOOLEAN /\ up' \in BOOLEAN
      BY Zenon, <2>5 DEF InitStd, GoTo, TypeOK
    <3>6. checking' \in {"none", "works", "broken"} /\ outages' \in 0..MaxOutages
      BY <2>5 DEF InitStd, GoTo, TypeOK
    <3> QED
      BY <3>1, <3>2, <3>3, <3>4, <3>5, <3>6 DEF TypeOK, RoomInv, Room
  <2>6. CASE GetStd(r)
    <3>1. /\ enh' \in Pool /\ enh'.used <= MaxEnh /\ enh'.idle + enh'.dead <= MinEnh
          /\ Room(enh', MaxEnh)
      BY <2>6, PoolOps, SlotsThere DEF GetStd, GoTo, Holds, TypeOK, RoomInv, Room, Pool, CanConnect, Empty
    <3>2. /\ std' \in Pool /\ std'.used <= MaxStd /\ std'.idle + std'.dead <= MinStd
          /\ Room(std', MaxStd)
      BY <2>6, PoolOps, SlotsThere DEF GetStd, GoTo, Holds, TypeOK, RoomInv, Room, Pool, CanConnect, Empty, Fresh
    <3>3. /\ pc' \in [Requests -> {"run", "enter", "late", "flip", "std", "init"}]
          /\ mgr' \in [Requests -> {"unset", "entered", "failed"}]
      BY <2>6 DEF GetStd, GoTo, Holds, TypeOK
    <3>4. /\ conn' \in [Requests -> {"none", "enh", "std", "old"}]
          /\ state' \in [Requests -> {"works", "broken", "closed"}]
      BY <2>6 DEF GetStd, GoTo, Holds, TypeOK
    <3>5. flag' \in BOOLEAN /\ there' \in BOOLEAN /\ up' \in BOOLEAN
      BY Zenon, <2>6 DEF GetStd, GoTo, Holds, TypeOK
    <3>6. checking' \in {"none", "works", "broken"} /\ outages' \in 0..MaxOutages
      BY <2>6 DEF GetStd, GoTo, Holds, TypeOK
    <3> QED
      BY <3>1, <3>2, <3>3, <3>4, <3>5, <3>6 DEF TypeOK, RoomInv, Room
  <2>7. CASE EndEnhanced(r)
    BY <2>7, PoolOps, SlotsThere DEF EndEnhanced, GiveBack, Ends, Holds, TypeOK, RoomInv, Room, Pool, Fresh, CanConnect, Empty
  <2>8. CASE EndFailed(r)
    BY <2>8, PoolOps, SlotsThere DEF EndFailed, Ends, Holds, TypeOK, RoomInv, Room, Pool, Fresh, CanConnect, Empty
  <2>9. CASE EndStandard(r)
    BY <2>9, PoolOps, SlotsThere DEF EndStandard, Ends, Holds, TypeOK, RoomInv, Room, Pool, Fresh, CanConnect, Empty
  <2>10. CASE Notice(r)
    BY <2>10, PoolOps, SlotsThere DEF Notice, TypeOK, RoomInv, Room, Pool, Fresh, CanConnect, Empty
  <2>11. CASE BackOut(r)
    <3>1. enh.used > 0
      BY <2>11, SlotsThere DEF BackOut, GoTo, UseInv
    <3>2. /\ enh' \in Pool /\ enh'.used <= MaxEnh /\ enh'.idle + enh'.dead <= MinEnh
          /\ Room(enh', MaxEnh)
      BY <2>11, <3>1, PoolOps DEF BackOut, GiveBack, TypeOK, RoomInv, Room, Pool
    <3>3. UNCHANGED <<std, flag, there, up, checking, outages>>
      BY <2>11 DEF BackOut
    <3>4. /\ pc' \in [Requests -> {"run", "enter", "late", "flip", "std", "init"}]
          /\ mgr' \in [Requests -> {"unset", "entered", "failed"}]
          /\ conn' \in [Requests -> {"none", "enh", "std", "old"}]
          /\ state' \in [Requests -> {"works", "broken", "closed"}]
      BY <2>11 DEF BackOut, GoTo, Holds, TypeOK
    <3> QED
      BY <3>2, <3>3, <3>4 DEF TypeOK, RoomInv, Room
  <2> QED
    BY <1>3, <2>1, <2>2, <2>3, <2>4, <2>5, <2>6, <2>7, <2>8, <2>9, <2>10, <2>11
       DEF Request
<1> QED
  BY <1>1, <1>2, <1>3 DEF Next

\* Nobody takes a second connection.
LEMMA StepUse ==
    ASSUME TypeOK, UseInv, [Next]_vars
    PROVE  UseInv'
<1> USE PoolConstants DEF pools, locals, server
<1>1. CASE UNCHANGED vars
  BY <1>1, PoolOps DEF vars, UseInv, TypeOK, Holders, Fresh, Pool
<1>2. CASE HealthTake \/ HealthPut \/ Outage \/ Recover
  <2>1. CASE HealthTake
    BY <2>1, PoolOps DEF HealthTake, UseInv, TypeOK, Holders, Fresh, Pool
  <2>2. CASE HealthPut
    BY <2>2, PoolOps DEF HealthPut, UseInv, TypeOK, Holders, Fresh, Pool
  <2>3. CASE Outage
    BY <2>3, PoolOps DEF Outage, UseInv, TypeOK, Holders, Fresh, Pool
  <2>4. CASE Recover
    BY <2>4, PoolOps DEF Recover, UseInv, TypeOK, Holders, Fresh, Pool
  <2> QED
    BY <1>2, <2>1, <2>2, <2>3, <2>4
<1>3. ASSUME NEW r \in Requests, Request(r)
    PROVE  UseInv'
  <2>1. CASE Get(r)
    BY <2>1, PoolOps DEF Get, GoTo, UseInv, TypeOK, Holders, Fresh, Pool
  <2>2. CASE Enter(r)
    <3>1. conn[r] = "none" /\ pc[r] = "enter" /\ pc' \in [Requests -> {"run", "enter", "late", "flip", "std", "init"}]
      BY <2>2 DEF Enter, GoTo, UseInv, TypeOK
    <3>2. UNCHANGED <<flag, std, there>>
      BY <2>2 DEF Enter
    <3>3. \A q \in Requests : /\ pc'[q] \notin {"run", "late"} => conn'[q] = "none"
                              /\ pc'[q] = "late" => mgr'[q] = "entered"
      BY <2>2 DEF Enter, GoTo, Holds, UseInv, TypeOK
    <3>4. \A q \in Requests : mgr'[q] = "entered" => conn'[q] = "enh"
      BY <2>2 DEF Enter, GoTo, Holds, UseInv, TypeOK
    <3>5. \A q \in Requests : flag => pc'[q] \in {"run", "enter", "late", "flip"}
      BY <2>2 DEF Enter, GoTo, Holds, UseInv, TypeOK
    <3>6. Holders' \subseteq Holders
      BY <2>2, <3>1 DEF Enter, GoTo, Holds, TypeOK, Holders
    <3> QED
      BY <3>2, <3>3, <3>4, <3>5, <3>6 DEF UseInv
  <2>3. CASE Flip(r)
    BY <2>3, PoolOps DEF Flip, GoTo, UseInv, TypeOK, Holders, Fresh, Pool
  <2>4. CASE FindStd(r)
    BY <2>4, PoolOps DEF FindStd, GoTo, UseInv, TypeOK, Holders, Fresh, Pool
  <2>5. CASE InitStd(r)
    <3>1. UNCHANGED <<flag, mgr>> /\ ~flag
      BY <2>5 DEF InitStd, GoTo, UseInv
    <3>2. \A q \in Requests : conn[q] \in {"none", "enh"} => conn'[q] = conn[q]
      BY <2>5 DEF InitStd, TypeOK
    <3>3. pc[r] = "init" /\ pc'[r] # "late" /\ \A q \in Requests \ {r} : pc'[q] = pc[q]
      BY <2>5 DEF InitStd, GoTo, TypeOK
    <3>4. there' \/ UNCHANGED <<there, std, conn>>
      BY <2>5 DEF InitStd
    <3>5. ~there' => std' = Fresh(0) /\ Holders' = {}
      BY <3>4 DEF UseInv, Holders
    <3>6. \A q \in Requests : pc[q] \notin {"run", "late"} => conn[q] = "none"
      BY DEF UseInv
    <3>7. \A q \in Requests : pc'[q] \notin {"run", "late"} => conn'[q] = "none"
      BY <3>2, <3>3, <3>6
    <3>8. \A q \in Requests : mgr'[q] = "entered" => conn'[q] = "enh"
      BY <3>1, <3>2 DEF UseInv
    <3> QED
      BY <3>1, <3>3, <3>5, <3>7, <3>8 DEF UseInv
  <2>6. CASE GetStd(r)
    BY <2>6, PoolOps DEF GetStd, GoTo, Holds, UseInv, TypeOK, Holders, Fresh, Pool
  <2>7. CASE EndEnhanced(r)
    BY <2>7, PoolOps DEF EndEnhanced, GiveBack, Ends, Holds, UseInv, TypeOK, Holders, Fresh, Pool
  <2>8. CASE EndFailed(r)
    BY <2>8, PoolOps DEF EndFailed, Ends, Holds, UseInv, TypeOK, Holders, Fresh, Pool
  <2>9. CASE EndStandard(r)
    BY <2>9, PoolOps DEF EndStandard, Ends, Holds, UseInv, TypeOK, Holders, Fresh, Pool
  <2>10. CASE Notice(r)
    BY <2>10, PoolOps DEF Notice, UseInv, TypeOK, Holders, Fresh, Pool
  <2>11. CASE BackOut(r)
    BY <2>11, PoolOps DEF BackOut, GiveBack, GoTo, Holds, UseInv, TypeOK, Holders, Fresh, Pool
  <2> QED
    BY <1>3, <2>1, <2>2, <2>3, <2>4, <2>5, <2>6, <2>7, <2>8, <2>9, <2>10, <2>11
       DEF Request
<1> QED
  BY <1>1, <1>2, <1>3 DEF Next

\* A slot of the enhanced pool is taken and given back by a request or the check.
LEMMA EnteredSteps ==
    ASSUME TypeOK, UseInv, [Next]_vars
    PROVE  \/ Entered' = Entered /\ (checking = "none" <=> checking' = "none")
                                 /\ enh'.used = enh.used
           \/ \E q \in Requests \ Entered : /\ Entered' = Entered \union {q}
                 /\ checking' = checking /\ enh'.used = enh.used + 1
           \/ \E q \in Entered : /\ Entered' = Entered \ {q}
                 /\ checking' = checking /\ enh'.used = enh.used - 1
           \/ /\ Entered' = Entered /\ checking = "none" /\ checking' # "none"
              /\ enh'.used = enh.used + 1
           \/ /\ Entered' = Entered /\ checking # "none" /\ checking' = "none"
              /\ enh'.used = enh.used - 1
<1> USE PoolConstants DEF pools, locals, server
<1>1. CASE UNCHANGED vars
  BY <1>1, PoolOps DEF vars, UseInv, TypeOK, Entered
<1>2. CASE HealthTake \/ HealthPut \/ Outage \/ Recover
  <2>1. CASE HealthTake
    BY <2>1, PoolOps DEF HealthTake, UseInv, TypeOK, Entered
  <2>2. CASE HealthPut
    BY <2>2, PoolOps DEF HealthPut, UseInv, TypeOK, Entered
  <2>3. CASE Outage
    BY <2>3, PoolOps DEF Outage, UseInv, TypeOK, Entered
  <2>4. CASE Recover
    BY <2>4, PoolOps DEF Recover, UseInv, TypeOK, Entered
  <2> QED
    BY <1>2, <2>1, <2>2, <2>3, <2>4
<1>3. ASSUME NEW r \in Requests, Request(r)
    PROVE  \/ Entered' = Entered /\ (checking = "none" <=> checking' = "none")
                                 /\ enh'.used = enh.used
           \/ \E q \in Requests \ Entered : /\ Entered' = Entered \union {q}
                 /\ checking' = checking /\ enh'.used = enh.used + 1
           \/ \E q \in Entered : /\ Entered' = Entered \ {q}
                 /\ checking' = checking /\ enh'.used = enh.used - 1
           \/ /\ Entered' = Entered /\ checking = "none" /\ checking' # "none"
              /\ enh'.used = enh.used + 1
           \/ /\ Entered' = Entered /\ checking # "none" /\ checking' = "none"
              /\ enh'.used = enh.used - 1
  <2>1. CASE Get(r)
    BY <2>1, PoolOps DEF Get, GoTo, UseInv, TypeOK, Entered
  <2>2. CASE Enter(r)
    BY <2>2, PoolOps DEF Enter, GoTo, Holds, UseInv, TypeOK, Entered
  <2>3. CASE Flip(r)
    BY <2>3, PoolOps DEF Flip, GoTo, UseInv, TypeOK, Entered
  <2>4. CASE FindStd(r)
    BY <2>4, PoolOps DEF FindStd, GoTo, UseInv, TypeOK, Entered
  <2>5. CASE InitStd(r)
    BY <2>5, PoolOps DEF InitStd, GoTo, UseInv, TypeOK, Entered
  <2>6. CASE GetStd(r)
    BY <2>6, PoolOps DEF GetStd, GoTo, Holds, UseInv, TypeOK, Entered
  <2>7. CASE EndEnhanced(r)
    <3>1. r \in Entered /\ Entered' = Entered \ {r} /\ checking' = checking
      BY <2>7 DEF EndEnhanced, Ends, Holds, TypeOK, Entered
    <3>2. enh' = Keep(enh, MinEnh) \/ enh' = Discard(enh)
      BY <2>7 DEF EndEnhanced, GiveBack
    <3>3. enh'.used = enh.used - 1
      <4>1. enh \in Pool /\ MinEnh \in Nat
        BY DEF TypeOK
      <4>2. Keep(enh, MinEnh).used = enh.used - 1 /\ Discard(enh).used = enh.used - 1
        BY <4>1, PoolOps
      <4> QED
        BY <3>2, <4>2
    <3> QED
      BY Zenon, <3>1, <3>3
  <2>8. CASE EndFailed(r)
    BY <2>8, PoolOps DEF EndFailed, Ends, Holds, UseInv, TypeOK, Entered
  <2>9. CASE EndStandard(r)
    BY <2>9, PoolOps DEF EndStandard, Ends, Holds, UseInv, TypeOK, Entered
  <2>10. CASE Notice(r)
    BY <2>10, PoolOps DEF Notice, UseInv, TypeOK, Entered
  <2>11. CASE BackOut(r)
    <3>1. r \in Entered /\ Entered' = Entered \ {r} /\ checking' = checking
      BY <2>11 DEF BackOut, Holds, TypeOK, UseInv, GoTo, Entered
    <3>2. enh' = Keep(enh, MinEnh) \/ enh' = Discard(enh)
      BY <2>11 DEF BackOut, GiveBack
    <3>3. enh'.used = enh.used - 1
      <4>1. enh \in Pool /\ MinEnh \in Nat
        BY DEF TypeOK
      <4>2. Keep(enh, MinEnh).used = enh.used - 1 /\ Discard(enh).used = enh.used - 1
        BY <4>1, PoolOps
      <4> QED
        BY <3>2, <4>2
    <3> QED
      BY Zenon, <3>1, <3>3
  <2> QED
    BY <1>3, <2>1, <2>2, <2>3, <2>4, <2>5, <2>6, <2>7, <2>8, <2>9, <2>10, <2>11
       DEF Request
<1> QED
  BY <1>1, <1>2, <1>3 DEF Next

\* A connection of the standard pool is held with a slot, and given up with it or without.
LEMMA HoldersSteps ==
    ASSUME TypeOK, UseInv, [Next]_vars
    PROVE  \/ Holders' \subseteq Holders /\ std'.used >= std.used
           \/ Holders' = {} /\ std'.used \in Nat
           \/ \E q \in Requests \ Holders : /\ Holders' = Holders \union {q}
                                            /\ std'.used = std.used + 1
           \/ \E q \in Holders : /\ Holders' = Holders \ {q}
                                 /\ std'.used = std.used - 1
<1> USE PoolConstants DEF pools, locals, server
<1>1. CASE UNCHANGED vars
  BY <1>1, PoolOps DEF vars, UseInv, TypeOK, Holders, Fresh
<1>2. CASE HealthTake \/ HealthPut \/ Outage \/ Recover
  <2>1. CASE HealthTake
    BY <2>1, PoolOps DEF HealthTake, UseInv, TypeOK, Holders, Fresh
  <2>2. CASE HealthPut
    BY <2>2, PoolOps DEF HealthPut, UseInv, TypeOK, Holders, Fresh
  <2>3. CASE Outage
    BY <2>3, PoolOps DEF Outage, UseInv, TypeOK, Holders, Fresh
  <2>4. CASE Recover
    BY <2>4, PoolOps DEF Recover, UseInv, TypeOK, Holders, Fresh
  <2> QED
    BY <1>2, <2>1, <2>2, <2>3, <2>4
<1>3. ASSUME NEW r \in Requests, Request(r)
    PROVE  \/ Holders' \subseteq Holders /\ std'.used >= std.used
           \/ Holders' = {} /\ std'.used \in Nat
           \/ \E q \in Requests \ Holders : /\ Holders' = Holders \union {q}
                                            /\ std'.used = std.used + 1
           \/ \E q \in Holders : /\ Holders' = Holders \ {q}
                                 /\ std'.used = std.used - 1
  <2>1. CASE Get(r)
    BY <2>1, PoolOps DEF Get, GoTo, UseInv, TypeOK, Holders, Fresh
  <2>2. CASE Enter(r)
    BY <2>2, PoolOps DEF Enter, GoTo, Holds, UseInv, TypeOK, Holders, Fresh
  <2>3. CASE Flip(r)
    BY <2>3, PoolOps DEF Flip, GoTo, UseInv, TypeOK, Holders, Fresh
  <2>4. CASE FindStd(r)
    BY <2>4, PoolOps DEF FindStd, GoTo, UseInv, TypeOK, Holders, Fresh
  <2>5. CASE InitStd(r)
    BY <2>5, PoolOps DEF InitStd, GoTo, UseInv, TypeOK, Holders, Fresh
  <2>6. CASE GetStd(r)
    BY <2>6, PoolOps DEF GetStd, GoTo, Holds, UseInv, TypeOK, Holders, Fresh
  <2>7. CASE EndEnhanced(r)
    BY <2>7, PoolOps DEF EndEnhanced, GiveBack, Ends, Holds, UseInv, TypeOK, Holders, Fresh
  <2>8. CASE EndFailed(r)
    BY <2>8, PoolOps DEF EndFailed, Ends, Holds, UseInv, TypeOK, Holders, Fresh
  <2>9. CASE EndStandard(r)
    <3>1. UNCHANGED <<enh, there>> /\ conn' = [conn EXCEPT ![r] = "none"]
      BY <2>9 DEF EndStandard, Ends, Holds
    <3>2. Holders' = Holders \ {r}
      BY <3>1 DEF Holders, TypeOK
    <3>3. CASE std' = std
      BY <3>2, <3>3 DEF TypeOK, Pool
    <3>4. CASE std' # std
      <4>1. conn[r] = "std" /\ (std' = Keep(std, MinStd) \/ std' = KeepDead(std, MinStd))
        BY <2>9, <3>4 DEF EndStandard
      <4>2. std'.used = std.used - 1
        BY <4>1, PoolOps DEF TypeOK
      <4> QED
        BY Zenon, <3>2, <4>1, <4>2 DEF Holders
    <3> QED
      BY <3>3, <3>4
  <2>10. CASE Notice(r)
    BY <2>10, PoolOps DEF Notice, UseInv, TypeOK, Holders, Fresh
  <2>11. CASE BackOut(r)
    BY <2>11, PoolOps DEF BackOut, GiveBack, GoTo, Holds, UseInv, TypeOK, Holders, Fresh
  <2> QED
    BY <1>3, <2>1, <2>2, <2>3, <2>4, <2>5, <2>6, <2>7, <2>8, <2>9, <2>10, <2>11
       DEF Request
<1> QED
  BY <1>1, <1>2, <1>3 DEF Next

\* What can become of a slot of the standard pool, and of what threatens it.
LEMMA LossSteps ==
    ASSUME TypeOK, UseInv, there, [Next]_vars
    PROVE  \/ /\ Holders \subseteq Holders' /\ Broken' \subseteq Broken /\ Falling' \subseteq Falling
              /\ std'.used + std'.dead <= std.used + std.dead /\ outages' = outages
           \/ /\ Holders' = {} /\ Broken' = {} /\ std'.used = 0 /\ std'.dead = 0
              /\ outages' = outages
           \/ /\ \E q \in Requests \ Holders : Holders' = Holders \union {q}
              /\ Broken' \subseteq Broken /\ Falling' \subseteq Falling
              /\ std'.used = std.used + 1 /\ std'.dead = std.dead /\ outages' = outages
           \/ /\ \E q \in Falling : /\ Falling' \subseteq Falling \ {q}
                                    /\ Holders' = Holders \ {q}
              /\ Broken' \subseteq Broken
              /\ std' = std /\ outages' = outages
           \/ /\ \E q \in Holders : Holders' = Holders \ {q}
              /\ Broken' \subseteq Broken /\ Falling' \subseteq Falling
              /\ std'.used = std.used - 1 /\ std'.dead = std.dead /\ outages' = outages
           \/ /\ \E q \in Broken : /\ Broken' \subseteq Broken \ {q}
                                   /\ Holders' = Holders \ {q}
              /\ Falling' \subseteq Falling
              /\ std'.used + std'.dead <= std.used + std.dead /\ outages' = outages
           \/ /\ Holders' = Holders /\ Falling' = Falling
              /\ std'.used = std.used /\ std'.dead <= MinStd /\ outages' = outages + 1
<1> USE PoolConstants DEF pools, locals, server
<1>1. CASE UNCHANGED vars
  BY <1>1, PoolOps DEF vars, UseInv, TypeOK, Holders, Broken, Falling, Fresh
<1>2. CASE HealthTake \/ HealthPut \/ Outage \/ Recover
  <2>1. CASE HealthTake
    BY <2>1, PoolOps DEF HealthTake, UseInv, TypeOK, Holders, Broken, Falling, Fresh
  <2>2. CASE HealthPut
    BY <2>2, PoolOps DEF HealthPut, UseInv, TypeOK, Holders, Broken, Falling, Fresh
  <2>3. CASE Outage
    BY <2>3, PoolOps DEF Outage, UseInv, TypeOK, Holders, Broken, Falling, Fresh
  <2>4. CASE Recover
    BY <2>4, PoolOps DEF Recover, UseInv, TypeOK, Holders, Broken, Falling, Fresh
  <2> QED
    BY <1>2, <2>1, <2>2, <2>3, <2>4
<1>3. ASSUME NEW r \in Requests, Request(r)
    PROVE  \/ /\ Holders \subseteq Holders' /\ Broken' \subseteq Broken /\ Falling' \subseteq Falling
              /\ std'.used + std'.dead <= std.used + std.dead /\ outages' = outages
           \/ /\ Holders' = {} /\ Broken' = {} /\ std'.used = 0 /\ std'.dead = 0
              /\ outages' = outages
           \/ /\ \E q \in Requests \ Holders : Holders' = Holders \union {q}
              /\ Broken' \subseteq Broken /\ Falling' \subseteq Falling
              /\ std'.used = std.used + 1 /\ std'.dead = std.dead /\ outages' = outages
           \/ /\ \E q \in Falling : /\ Falling' \subseteq Falling \ {q}
                                    /\ Holders' = Holders \ {q}
              /\ Broken' \subseteq Broken
              /\ std' = std /\ outages' = outages
           \/ /\ \E q \in Holders : Holders' = Holders \ {q}
              /\ Broken' \subseteq Broken /\ Falling' \subseteq Falling
              /\ std'.used = std.used - 1 /\ std'.dead = std.dead /\ outages' = outages
           \/ /\ \E q \in Broken : /\ Broken' \subseteq Broken \ {q}
                                   /\ Holders' = Holders \ {q}
              /\ Falling' \subseteq Falling
              /\ std'.used + std'.dead <= std.used + std.dead /\ outages' = outages
           \/ /\ Holders' = Holders /\ Falling' = Falling
              /\ std'.used = std.used /\ std'.dead <= MinStd /\ outages' = outages + 1
  <2>1. CASE Get(r)
    BY <2>1, PoolOps DEF Get, GoTo, UseInv, TypeOK, Holders, Broken, Falling, Fresh
  <2>2. CASE Enter(r)
    BY <2>2, PoolOps DEF Enter, GoTo, Holds, UseInv, TypeOK, Holders, Broken, Falling, Fresh
  <2>3. CASE Flip(r)
    BY <2>3, PoolOps DEF Flip, GoTo, UseInv, TypeOK, Holders, Broken, Falling, Fresh
  <2>4. CASE FindStd(r)
    BY <2>4, PoolOps DEF FindStd, GoTo, UseInv, TypeOK, Holders, Broken, Falling, Fresh
  <2>5. CASE InitStd(r)
    <3>1. outages' = outages
      BY <2>5 DEF InitStd
    <3>2. CASE std' = Fresh(MinStd) /\ conn' = [q \in Requests |-> IF conn[q] = "std" THEN "old" ELSE conn[q]]
      <4>1. Holders' = {} /\ Broken' = {}
        BY <3>2 DEF Holders, Broken
      <4> QED
        BY <3>1, <3>2, <4>1 DEF Fresh
    <3>3. CASE UNCHANGED <<std, conn>>
      <4>1. Holders' = Holders /\ Broken' = Broken
        BY <2>5, <3>3 DEF InitStd, Holders, Broken
      <4>2. Falling' \subseteq Falling
        BY <2>5 DEF InitStd, GoTo, Falling, TypeOK
      <4> QED
        BY <3>1, <3>3, <4>1, <4>2 DEF TypeOK, Pool
    <3> QED
      BY <2>5, <3>2, <3>3 DEF InitStd
  <2>6. CASE GetStd(r)
    <3>1. outages' = outages /\ mgr' = mgr /\ r \notin Holders
      BY <2>6 DEF GetStd, GoTo, Holders, UseInv
    <3>2. Falling' \subseteq Falling
      BY <2>6 DEF GetStd, GoTo, Falling, TypeOK
    <3>3. CASE /\ conn' = [conn EXCEPT ![r] = "std"] /\ state' = [state EXCEPT ![r] = "works"]
               /\ std' = TakeIdle(std) \/ std' = TakeNew(std)
      <4>1. Holders' = Holders \union {r} /\ Broken' \subseteq Broken
        BY <3>3 DEF Holders, Broken, TypeOK
      <4>2. std'.used = std.used + 1 /\ std'.dead = std.dead
        BY <3>3, PoolOps DEF TypeOK
      <4> QED
        BY <3>1, <3>2, <4>1, <4>2
    <3>4. CASE UNCHANGED <<conn, state>> /\ (std' = TakeDead(std) \/ std' = std)
      <4>1. Holders' = Holders /\ Broken' = Broken
        BY <3>4 DEF Holders, Broken
      <4>2. std \in Pool
        BY DEF TypeOK
      <4>3. std'.used + std'.dead <= std.used + std.dead
        BY <3>4, <4>2, PoolOps
      <4> QED
        BY <3>1, <3>2, <4>1, <4>3
    <3> QED
      BY <2>6, <3>3, <3>4 DEF GetStd, Holds
  <2>7. CASE EndEnhanced(r)
    BY <2>7, PoolOps DEF EndEnhanced, GiveBack, Ends, Holds, UseInv, TypeOK, Holders, Broken, Falling, Fresh
  <2>8. CASE EndFailed(r)
    BY <2>8, PoolOps DEF EndFailed, Ends, Holds, UseInv, TypeOK, Holders, Broken, Falling, Fresh
  <2>9. CASE EndStandard(r)
    <3>1. /\ outages' = outages /\ conn' = [conn EXCEPT ![r] = "none"]
          /\ state' = [state EXCEPT ![r] = "works"]
      BY <2>9 DEF EndStandard, Ends, Holds
    <3>2. Falling' \subseteq Falling
      BY <2>9 DEF EndStandard, Ends, Falling, TypeOK
    <3>3. Holders' = Holders \ {r} /\ Broken' = Broken \ {r}
      BY <3>1 DEF Holders, Broken, TypeOK
    <3>4. std \in Pool /\ MinStd \in Nat
      BY DEF TypeOK
    <3>5. CASE conn[r] = "std" /\ state[r] = "works" /\ std' = Keep(std, MinStd)
      <4>1. std'.used = std.used - 1 /\ std'.dead = std.dead
        BY <3>4, <3>5, PoolOps
      <4>2. r \in Holders /\ Broken' \subseteq Broken
        BY <3>3, <3>5 DEF Holders
      <4> QED
        BY <3>1, <3>2, <3>3, <4>1, <4>2
    <3>6. CASE conn[r] = "std" /\ state[r] # "works" /\ std' \in {KeepDead(std, MinStd), std}
      <4>1. std'.used + std'.dead <= std.used + std.dead
        BY <3>4, <3>6, PoolOps
      <4>2. r \in Broken
        BY <3>6 DEF Broken
      <4> QED
        BY <3>1, <3>2, <3>3, <4>1, <4>2
    <3>7. CASE conn[r] # "std" /\ std' = std
      <4>1. Holders' = Holders /\ Broken' \subseteq Broken
        BY <3>3, <3>7 DEF Holders
      <4>2. std'.used + std'.dead <= std.used + std.dead
        BY <3>4, <3>7, PoolOps
      <4> QED
        BY <3>1, <3>2, <4>1, <4>2
    <3> QED
      BY <2>9, <3>5, <3>6, <3>7 DEF EndStandard
  <2>10. CASE Notice(r)
    BY <2>10, PoolOps DEF Notice, UseInv, TypeOK, Holders, Broken, Falling, Fresh
  <2>11. CASE BackOut(r)
    BY <2>11, PoolOps DEF BackOut, GiveBack, GoTo, Holds, UseInv, TypeOK, Holders, Broken, Falling, Fresh
  <2> QED
    BY <1>3, <2>1, <2>2, <2>3, <2>4, <2>5, <2>6, <2>7, <2>8, <2>9, <2>10, <2>11
       DEF Request
<1> QED
  BY <1>1, <1>2, <1>3 DEF Next

\* The standard pool starts with nothing in use.
LEMMA FirstPool ==
    ASSUME TypeOK, UseInv, ~there, [Next]_vars
    PROVE  there' => Holders' = {} /\ Broken' = {} /\ std'.used = 0 /\ std'.dead = 0
<1> USE PoolConstants DEF pools, locals, server
<1>1. CASE UNCHANGED vars
  BY <1>1 DEF vars, UseInv, Holders, Broken, Fresh
<1>2. CASE HealthTake \/ HealthPut \/ Outage \/ Recover
  <2>1. CASE HealthTake
    BY <2>1 DEF HealthTake, UseInv, Holders, Broken, Fresh
  <2>2. CASE HealthPut
    BY <2>2 DEF HealthPut, UseInv, Holders, Broken, Fresh
  <2>3. CASE Outage
    BY <2>3 DEF Outage, UseInv, Holders, Broken, Fresh
  <2>4. CASE Recover
    BY <2>4 DEF Recover, UseInv, Holders, Broken, Fresh
  <2> QED
    BY <1>2, <2>1, <2>2, <2>3, <2>4
<1>3. ASSUME NEW r \in Requests, Request(r)
    PROVE  there' => Holders' = {} /\ Broken' = {} /\ std'.used = 0 /\ std'.dead = 0
  <2>1. CASE Get(r)
    BY <2>1 DEF Get, GoTo, UseInv, Holders, Broken, Fresh
  <2>2. CASE Enter(r)
    BY <2>2 DEF Enter, GoTo, Holds, UseInv, Holders, Broken, Fresh
  <2>3. CASE Flip(r)
    BY <2>3 DEF Flip, GoTo, UseInv, Holders, Broken, Fresh
  <2>4. CASE FindStd(r)
    BY <2>4 DEF FindStd, GoTo, UseInv, Holders, Broken, Fresh
  <2>5. CASE InitStd(r)
    <3>1. CASE std' = Fresh(MinStd) /\ conn' = [q \in Requests |-> IF conn[q] = "std" THEN "old" ELSE conn[q]]
      <4>1. Holders' = {} /\ Broken' = {}
        BY <3>1 DEF Holders, Broken
      <4> QED
        BY <3>1, <4>1 DEF Fresh
    <3>2. CASE UNCHANGED there
      BY <3>2
    <3> QED
      BY <2>5, <3>1, <3>2 DEF InitStd
  <2>6. CASE GetStd(r)
    BY <2>6 DEF GetStd, GoTo, Holds, UseInv, Holders, Broken, Fresh
  <2>7. CASE EndEnhanced(r)
    BY <2>7 DEF EndEnhanced, GiveBack, Ends, Holds, UseInv, Holders, Broken, Fresh
  <2>8. CASE EndFailed(r)
    BY <2>8 DEF EndFailed, Ends, Holds, UseInv, Holders, Broken, Fresh
  <2>9. CASE EndStandard(r)
    BY <2>9 DEF EndStandard, Ends, Holds, UseInv, Holders, Broken, Fresh
  <2>10. CASE Notice(r)
    BY <2>10 DEF Notice, UseInv, Holders, Broken, Fresh
  <2>11. CASE BackOut(r)
    BY <2>11 DEF BackOut, GiveBack, GoTo, Holds, UseInv, Holders, Broken, Fresh
  <2> QED
    BY <1>3, <2>1, <2>2, <2>3, <2>4, <2>5, <2>6, <2>7, <2>8, <2>9, <2>10, <2>11
       DEF Request
<1> QED
  BY <1>1, <1>2, <1>3 DEF Next

LEMMA StepSlots ==
    ASSUME TypeOK, TypeOK', UseInv, NoEnhancedLoss, HeldInv, [Next]_vars
    PROVE  NoEnhancedLoss' /\ HeldInv'
<1>1. /\ enh.used \in Nat /\ std.used \in Nat /\ enh'.used \in Nat /\ std'.used \in Nat
  BY DEF TypeOK, Pool
<1>2. /\ Entered \subseteq Requests /\ Entered' \subseteq Requests
      /\ Holders \subseteq Requests /\ Holders' \subseteq Requests
  BY DEF Entered, Holders
<1>3. /\ Cardinality(Entered) \in Nat /\ Cardinality(Entered') \in Nat
      /\ Cardinality(Holders) \in Nat /\ Cardinality(Holders') \in Nat
  BY <1>2, Counting
<1>4. enh'.used = Cardinality(Entered') + (IF checking' = "none" THEN 0 ELSE 1)
  <2>1. ASSUME NEW r \in Requests \ Entered, Entered' = Entered \union {r}
        PROVE  Cardinality(Entered') = Cardinality(Entered) + 1
    BY <1>2, <2>1, Adding
  <2>2. ASSUME NEW r \in Entered, Entered' = Entered \ {r}
        PROVE  Cardinality(Entered') = Cardinality(Entered) - 1
    BY <1>2, <2>2, Removing
  <2> QED
    BY <1>1, <1>3, <2>1, <2>2, EnteredSteps DEF NoEnhancedLoss
<1>5. Cardinality(Holders') <= std'.used
  <2>1. ASSUME NEW r \in Requests \ Holders, Holders' = Holders \union {r}
        PROVE  Cardinality(Holders') = Cardinality(Holders) + 1
    BY <1>2, <2>1, Adding
  <2>2. ASSUME NEW r \in Holders, Holders' = Holders \ {r}
        PROVE  Cardinality(Holders') = Cardinality(Holders) - 1
    BY <1>2, <2>2, Removing
  <2>3. ASSUME Holders' \subseteq Holders
        PROVE  Cardinality(Holders') <= Cardinality(Holders)
    BY <1>2, <2>3, Counting
  <2>4. ASSUME Holders' = {} PROVE Cardinality(Holders') = 0
    BY <2>4, FS_EmptySet
  <2> QED
    BY <1>1, <1>3, <2>1, <2>2, <2>3, <2>4, HoldersSteps DEF HeldInv
<1> QED
  BY <1>4, <1>5 DEF NoEnhancedLoss, HeldInv

\* What a pool has lost is made up for by what has failed.
LEMMA StepLoss ==
    ASSUME TypeOK, TypeOK', UseInv, UseInv', LossInv, [Next]_vars
    PROVE  LossInv'
<1> SUFFICES ASSUME there'
             PROVE  std'.used + Cardinality(Falling') + std'.dead + Cardinality(Broken')
                        <= Cardinality(Holders') + Cardinality(Requests)
                               + outages' * Share
  BY DEF LossInv, Share
<1>1. /\ std.used \in Nat /\ std.dead \in Nat /\ std'.used \in Nat /\ std'.dead \in Nat
      /\ outages \in Nat /\ outages' \in Nat /\ MinStd \in Nat
  BY PoolConstants DEF TypeOK, Pool
<1>2. /\ Falling \subseteq Requests /\ Falling' \subseteq Requests
      /\ Broken \subseteq Requests /\ Broken' \subseteq Requests
      /\ Holders \subseteq Requests /\ Holders' \subseteq Requests
  BY DEF Falling, Broken, Holders
<1>3. /\ Cardinality(Falling) \in Nat /\ Cardinality(Falling') \in Nat
      /\ Cardinality(Broken) \in Nat /\ Cardinality(Broken') \in Nat
      /\ Cardinality(Holders) \in Nat /\ Cardinality(Holders') \in Nat
      /\ Cardinality(Requests) \in Nat
      /\ Cardinality(Falling') <= Cardinality(Requests)
      /\ Cardinality(Broken') <= Cardinality(Requests)
  BY <1>2, Counting
<1>4. outages * Share \in Nat /\ outages' * Share \in Nat
  BY <1>1, SharesType
<1>5. CASE ~there
  <2>1. Holders' = {} /\ Broken' = {} /\ std'.used = 0 /\ std'.dead = 0
    BY <1>5, FirstPool
  <2>2. Cardinality(Broken') = 0 /\ Cardinality(Holders') = 0
    BY <2>1, FS_EmptySet
  <2> QED
    BY <1>1, <1>3, <1>4, <2>1, <2>2
<1>6. CASE there
  <2>1. std.used + Cardinality(Falling) + std.dead + Cardinality(Broken)
            <= Cardinality(Holders) + Cardinality(Requests) + outages * Share
    BY <1>6 DEF LossInv
  <2>2. CASE /\ Holders \subseteq Holders' /\ Broken' \subseteq Broken
             /\ Falling' \subseteq Falling
             /\ std'.used + std'.dead <= std.used + std.dead /\ outages' = outages
    <3>1. /\ Cardinality(Holders) <= Cardinality(Holders')
          /\ Cardinality(Broken') <= Cardinality(Broken)
          /\ Cardinality(Falling') <= Cardinality(Falling)
      BY <1>2, <2>2, Counting
    <3> QED
      BY <1>1, <1>3, <1>4, <2>1, <2>2, <3>1
  <2>3. CASE /\ Holders' = {} /\ Broken' = {} /\ std'.used = 0 /\ std'.dead = 0
    <3>1. Cardinality(Broken') = 0 /\ Cardinality(Holders') = 0
      BY <2>3, FS_EmptySet
    <3> QED
      BY <1>1, <1>3, <1>4, <2>3, <3>1
  <2>4. ASSUME NEW r \in Requests \ Holders, Holders' = Holders \union {r},
               Broken' \subseteq Broken, Falling' \subseteq Falling,
               std'.used = std.used + 1, std'.dead = std.dead, outages' = outages
        PROVE  std'.used + Cardinality(Falling') + std'.dead + Cardinality(Broken')
                   <= Cardinality(Holders') + Cardinality(Requests)
                          + outages' * Share
    <3>1. /\ Cardinality(Holders') = Cardinality(Holders) + 1
          /\ Cardinality(Broken') <= Cardinality(Broken)
          /\ Cardinality(Falling') <= Cardinality(Falling)
      BY <1>2, <2>4, Counting, Adding
    <3> QED
      BY <1>1, <1>3, <1>4, <2>1, <2>4, <3>1
  <2>5. ASSUME NEW r \in Falling, Falling' \subseteq Falling \ {r}, Holders' = Holders \ {r},
               Broken' \subseteq Broken, std' = std, outages' = outages
        PROVE  std'.used + Cardinality(Falling') + std'.dead + Cardinality(Broken')
                   <= Cardinality(Holders') + Cardinality(Requests)
                          + outages' * Share
    <3>1. /\ Cardinality(Holders') >= Cardinality(Holders) - 1
          /\ Cardinality(Falling') <= Cardinality(Falling) - 1
          /\ Cardinality(Broken') <= Cardinality(Broken)
      BY <1>2, <2>5, Counting, Fewer
    <3> QED
      BY <1>1, <1>3, <1>4, <2>1, <2>5, <3>1
  <2>6. ASSUME NEW r \in Holders, Holders' = Holders \ {r},
               Broken' \subseteq Broken, Falling' \subseteq Falling,
               std'.used = std.used - 1, std'.dead = std.dead, outages' = outages
        PROVE  std'.used + Cardinality(Falling') + std'.dead + Cardinality(Broken')
                   <= Cardinality(Holders') + Cardinality(Requests)
                          + outages' * Share
    <3>1. /\ Cardinality(Holders') = Cardinality(Holders) - 1
          /\ Cardinality(Broken') <= Cardinality(Broken)
          /\ Cardinality(Falling') <= Cardinality(Falling)
      BY <1>2, <2>6, Counting, Removing
    <3> QED
      BY <1>1, <1>3, <1>4, <2>1, <2>6, <3>1
  <2>7. ASSUME NEW r \in Broken, Broken' \subseteq Broken \ {r}, Holders' = Holders \ {r},
               Falling' \subseteq Falling,
               std'.used + std'.dead <= std.used + std.dead, outages' = outages
        PROVE  std'.used + Cardinality(Falling') + std'.dead + Cardinality(Broken')
                   <= Cardinality(Holders') + Cardinality(Requests)
                          + outages' * Share
    <3>1. /\ Cardinality(Holders') >= Cardinality(Holders) - 1
          /\ Cardinality(Broken') <= Cardinality(Broken) - 1
          /\ Cardinality(Falling') <= Cardinality(Falling)
      BY <1>2, <2>7, Counting, Fewer
    <3> QED
      BY <1>1, <1>3, <1>4, <2>1, <2>7, <3>1
  <2>8. CASE /\ Holders' = Holders /\ Falling' = Falling
             /\ std'.used = std.used /\ std'.dead <= MinStd /\ outages' = outages + 1
    <3>1. outages' * Share = outages * Share + MinStd + Cardinality(Requests)
      <4>1. (outages + 1) * Share = outages * Share + Share
        BY <1>1, SharesType
      <4> QED
        BY <1>1, <1>3, <1>4, <2>8, <4>1 DEF Share
    <3> QED
      BY <1>1, <1>3, <1>4, <2>1, <2>8, <3>1
  <2> QED
    BY <1>6, <2>2, <2>3, <2>4, <2>5, <2>6, <2>7, <2>8, LossSteps
<1> QED
  BY <1>5, <1>6

IInv == TypeOK /\ PoolInv

\* The invariant holds in every reachable state.
THEOREM Inductive == Spec => []IInv
<1>1. Init => IInv
  BY InitInv DEF IInv
<1>2. IInv /\ [Next]_vars => IInv'
  <2> SUFFICES ASSUME IInv, [Next]_vars PROVE IInv'
    OBVIOUS
  <2>1. /\ TypeOK /\ RoomInv /\ UseInv /\ NoEnhancedLoss /\ HeldInv /\ LossInv
    BY DEF IInv, PoolInv
  <2>2. TypeOK' /\ RoomInv'
    BY <2>1, StepType
  <2>3. UseInv'
    BY <2>1, StepUse
  <2>4. NoEnhancedLoss' /\ HeldInv'
    BY <2>1, <2>2, StepSlots
  <2>5. LossInv'
    BY <2>1, <2>2, <2>3, StepLoss
  <2> QED
    BY <2>2, <2>3, <2>4, <2>5 DEF IInv, PoolInv
<1> QED
  BY <1>1, <1>2, PTL DEF Spec

\* The variables keep their types, and the pools the limits of psycopg2.
THEOREM TypeCorrect == Spec => []TypeOK
<1>1. IInv => TypeOK
  BY DEF IInv
<1> QED
  BY <1>1, Inductive, PTL

\* However broken a connection is, its slot of the enhanced pool is given back.
THEOREM EnhancedKeepsItsSlots == Spec => []NoEnhancedLoss
<1>1. IInv => NoEnhancedLoss
  BY DEF IInv, PoolInv
<1> QED
  BY <1>1, Inductive, PTL

\* A pool with room for all requests is never exhausted: what makes a worker give
\* it up is a connection that cannot be opened, or was slow.
THEOREM ExhaustionIsNoReason == Spec => []NeverExhausted
<1>1. IInv => NeverExhausted
  <2> SUFFICES ASSUME IInv, Roomy, NEW r \in Requests, pc[r] = "enter"
               PROVE  enh.used < MaxEnh
    BY DEF NeverExhausted
  <2>1. UseInv /\ NoEnhancedLoss /\ TypeOK
    BY DEF IInv, PoolInv
  <2>2. r \in Requests \ Entered
    BY <2>1 DEF Entered, UseInv
  <2>3. Cardinality(Entered \union {r}) = Cardinality(Entered) + 1
    BY <2>2, Adding DEF Entered
  <2>4. /\ Cardinality(Entered \union {r}) <= Cardinality(Requests)
        /\ Cardinality(Entered) \in Nat /\ Cardinality(Requests) \in Nat
    BY Counting DEF Entered
  <2>5. enh.used <= Cardinality(Entered) + 1 /\ enh.used \in Nat
    BY <2>1, <2>4 DEF NoEnhancedLoss, TypeOK, Pool
  <2> QED
    BY <2>3, <2>4, <2>5, PoolConstants DEF Roomy
<1> QED
  BY <1>1, Inductive, PTL

\* What the standard pool has lost is bounded by the requests and the outages.
THEOREM StandardLossIsBounded == Spec => []StandardLossBounded
<1>1. IInv => StandardLossBounded
  <2> SUFFICES ASSUME IInv
               PROVE  std.used <= Cardinality(Holders) + Cardinality(Requests)
                                    + outages * Share
    BY DEF StandardLossBounded, Share
  <2>1. /\ std.used \in Nat /\ std.dead \in Nat /\ outages \in Nat
        /\ Cardinality(Falling) \in Nat /\ Cardinality(Broken) \in Nat
        /\ Cardinality(Holders) \in Nat /\ Cardinality(Requests) \in Nat
    BY Counting DEF IInv, TypeOK, Pool, Falling, Broken, Holders
  <2>2. outages * Share \in Nat
    BY <2>1, SharesType
  <2>3. CASE there
    BY <2>1, <2>2, <2>3 DEF IInv, PoolInv, LossInv
  <2>4. CASE ~there
    BY <2>1, <2>2, <2>4 DEF IInv, PoolInv, UseInv, Fresh
  <2> QED
    BY <2>3, <2>4
<1> QED
  BY <1>1, Inductive, PTL
=============================================================================
