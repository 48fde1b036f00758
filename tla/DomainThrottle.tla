--------------------------- MODULE DomainThrottle ---------------------------
(***************************************************************************)
(* The throttle of deliveries to one recipient domain: the local one of      *)
(* worker/domain_throttle.go and the one shared through Redis of             *)
(* worker/domain_throttle_redis.go, each used by blocking workers (acquire)  *)
(* or, with MX shaping, by workers that defer (tryLease).  Domains share     *)
(* nothing, so one is modelled.  Redis is external: each call is one step    *)
(* that succeeds, fails, or takes effect although its reply is lost.  The    *)
(* hosts' clocks are taken to agree.                                         *)
(***************************************************************************)
EXTENDS Integers, FiniteSets

CONSTANTS
    TWorkers, Processes,
    SlotLimit,      \* DomainMaxConcurrent for the domain
    LeaseTTL,
    Samples,        \* 20 in observe
    FirstPenalty, MaxPenalty, LeastPenalty,  \* 200ms, DomainPenaltyMax, 50ms
    TMaxTime        \* bound

ASSUME ThrottleAssumption == {SlotLimit, LeaseTTL, Samples} \subseteq Nat \ {0}

VARIABLES
    tRedis, tShaping,   \* the configuration: the backend, MX shaping
    tProcess,   \* the process of each worker
    tNow,
    tStats,     \* tStats[p]: penalty and samples as process p, or "redis", has them
    tNext,      \* tNext[p]: nextAllowed of the local throttle
    tLeases,    \* the members of the sorted set, the gate excepted
    tGate,      \* the score of __penalty_gate, 0 without it
    tWork,      \* tWork[w]: what worker w is doing
    tGated      \* history: until when the last lease under a penalty bars others,
                \* of the same process or, with Redis, of all

tvars == <<tRedis, tShaping, tProcess, tNow, tStats, tNext, tLeases, tGate, tWork, tGated>>
tconfig == <<tRedis, tShaping, tProcess>>

NoStats == [samples |-> 0, failed |-> 0, penalty |-> 0]
(* step: "asleep" until wake (acquire), "ready" to take a slot, "holding".   *)
(* token 0: a lease without a slot behind it, after a backend error; taken:  *)
(* when; barred: what tGated was then, for a lease under a penalty.          *)
AtRest == [step |-> "rest", penalty |-> 0, wake |-> 0, token |-> 0, taken |-> 0, barred |-> 0]

TInit ==
    /\ tRedis \in BOOLEAN /\ tShaping \in BOOLEAN /\ tProcess \in [TWorkers -> Processes] /\ tNow = 0
    /\ tStats = [p \in Processes \cup {"redis"} |-> NoStats] /\ tNext = [p \in Processes |-> 0]
    /\ tLeases = {} /\ tGate = 0 /\ tWork = [w \in TWorkers |-> AtRest]
    /\ tGated = [p \in Processes \cup {"redis"} |-> 0]

(* observe, after a delivery: doubled or halved once there are enough        *)
(* samples, half of which are temporary failures at the threshold assumed.   *)
Observed(st, failure) ==
    LET samples == st.samples + 1
        failed == st.failed + failure
        raised == IF st.penalty = 0 THEN FirstPenalty ELSE st.penalty * 2
        lowered == IF st.penalty \div 2 < LeastPenalty THEN 0 ELSE st.penalty \div 2
    IN IF samples < Samples THEN [st EXCEPT !.samples = samples, !.failed = failed]
       ELSE [samples |-> 0, failed |-> 0,
             penalty |-> IF 2 * failed < samples THEN lowered
                         ELSE IF raised > MaxPenalty THEN MaxPenalty ELSE raised]

(* currentPenalty: of Redis, or of the process when Redis cannot be asked or *)
(* has none.                                                                 *)
Penalties(p) ==
    {tStats[p].penalty} \cup (IF tRedis THEN {tStats["redis"].penalty} ELSE {})

(* acquire reads the penalty and sleeps for it; tryLease goes on with it. *)
BeginLease(w) ==
    /\ tWork[w] = AtRest
    /\ \E penalty \in Penalties(tProcess[w]) :
          tWork' = [tWork EXCEPT ![w] = IF tShaping
                       THEN [AtRest EXCEPT !.step = "ready", !.penalty = penalty]
                       ELSE [AtRest EXCEPT !.step = IF penalty = 0 THEN "ready" ELSE "asleep", !.wake = tNow + penalty]]
    /\ UNCHANGED <<tconfig, tNow, tStats, tNext, tLeases, tGate, tGated>>

Wake(w) ==
    /\ tWork[w].step = "asleep" /\ tWork[w].wake <= tNow
    /\ tWork' = [tWork EXCEPT ![w] = [AtRest EXCEPT !.step = "ready"]]
    /\ UNCHANGED <<tconfig, tNow, tStats, tNext, tLeases, tGate, tGated>>

Scope(w) == IF tRedis THEN "redis" ELSE tProcess[w]
Holding(w, token, penalty) ==
    /\ tWork' = [tWork EXCEPT ![w] = [AtRest EXCEPT !.step = "holding", !.token = token, !.taken = tNow,
                                                    !.barred = IF penalty > 0 THEN tGated[Scope(w)] ELSE 0]]
    /\ tGated' = [tGated EXCEPT ![Scope(w)] = IF penalty > 0 THEN tNow + penalty ELSE @]
Deferred(w) == tWork' = [tWork EXCEPT ![w] = AtRest] /\ UNCHANGED tGated

(* The semaphore of a process. *)
InUse(p) == Cardinality({w \in TWorkers : tProcess[w] = p /\ tWork[w].step = "holding"})

(* A blocking worker waits for the semaphore and ignores nextAllowed. *)
TakeLocal(w) ==
    LET p == tProcess[w]  penalty == tStats[p].penalty IN
    /\ ~tRedis /\ tWork[w].step = "ready" /\ UNCHANGED <<tconfig, tNow, tStats, tLeases, tGate>>
    /\ IF ~tShaping THEN InUse(p) < SlotLimit /\ Holding(w, 1, 0) /\ UNCHANGED tNext
       ELSE IF tNext[p] > tNow \/ InUse(p) >= SlotLimit THEN Deferred(w) /\ UNCHANGED tNext
       ELSE Holding(w, 1, penalty) /\ tNext' = [tNext EXCEPT ![p] = tNow + penalty]

Live == {l \in tLeases : l.expires > tNow}
LiveGate == IF tGate > tNow THEN tGate ELSE 0

Members == Cardinality(Live) + (IF LiveGate > 0 THEN 1 ELSE 0)

(* Mutant: the gate is looked up before what has expired is removed. *)
leaseCountByOldGate == Members - (IF tGate > 0 THEN 1 ELSE 0)

(* The members of the sorted set, less the gate if it is one of them. *)
leaseCount == Members - (IF LiveGate > 0 THEN 1 ELSE 0)

FreshToken == CHOOSE n \in 1 .. (Cardinality(tLeases) + Cardinality(TWorkers) + 1) :
            (\A l \in tLeases : l.token # n) /\ (\A w \in TWorkers : tWork[w].token # n)

(* The acquire script: 0 changes at most what has expired. *)
Barred(penalty) == penalty > 0 /\ tGate > tNow
Granted(penalty) ==
    /\ ~Barred(penalty) /\ leaseCount < SlotLimit
    /\ tLeases' = Live \cup {[token |-> FreshToken, expires |-> tNow + LeaseTTL]}
    /\ tGate' = IF penalty > 0 THEN tNow + penalty ELSE LiveGate
Refused(penalty) ==
    IF Barred(penalty) THEN UNCHANGED <<tLeases, tGate>>
    ELSE leaseCount >= SlotLimit /\ tLeases' = Live /\ tGate' = LiveGate

(* The script is run with the penalty read before (tryLease) or with none.   *)
(* After an error acquire goes on without a slot and tryLease defers; the    *)
(* script may have run.                                                      *)
TakeShared(w) ==
    LET penalty == tWork[w].penalty IN
    /\ tRedis /\ tWork[w].step = "ready" /\ UNCHANGED <<tconfig, tNow, tStats, tNext>>
    /\ \/ Granted(penalty) /\ Holding(w, FreshToken, penalty)
       \/ Refused(penalty) /\ IF tShaping THEN Deferred(w) ELSE UNCHANGED <<tWork, tGated>>
       \/ /\ Granted(penalty) \/ UNCHANGED <<tLeases, tGate>>
          /\ IF tShaping THEN Deferred(w) ELSE Holding(w, 0, 0)

(* The delivery ends: observe, in the process and then in Redis, which may   *)
(* fail, and release of the worker's own token, which may fail too.          *)
End(w) ==
    LET p == tProcess[w]  mine == {l \in tLeases : l.token = tWork[w].token} IN
    /\ tWork[w].step = "holding" /\ tWork' = [tWork EXCEPT ![w] = AtRest]
    /\ \E failure \in {0, 1}, counted \in BOOLEAN :
          /\ counted => tRedis
          /\ tStats' = [q \in DOMAIN tStats |-> IF q = p \/ (q = "redis" /\ counted) THEN Observed(tStats[q], failure) ELSE tStats[q]]
    /\ tLeases' \in IF tRedis THEN {tLeases, tLeases \ mine} ELSE {tLeases}
    /\ UNCHANGED <<tconfig, tNow, tNext, tGate, tGated>>

(* A process stops and starts; what it held in Redis stays until it expires. *)
TRestart(p) ==
    /\ tWork' = [w \in TWorkers |-> IF tProcess[w] = p THEN AtRest ELSE tWork[w]]
    /\ tStats' = [tStats EXCEPT ![p] = NoStats] /\ tNext' = [tNext EXCEPT ![p] = 0]
    /\ tGated' = [tGated EXCEPT ![p] = 0]
    /\ UNCHANGED <<tconfig, tNow, tLeases, tGate>>

TTick == tNow < TMaxTime /\ tNow' = tNow + 1 /\ UNCHANGED <<tconfig, tStats, tNext, tLeases, tGate, tWork, tGated>>

TNext ==
    \/ \E w \in TWorkers : BeginLease(w) \/ Wake(w) \/ TakeLocal(w) \/ TakeShared(w) \/ End(w)
    \/ TTick \/ \E p \in Processes : TRestart(p)
-----------------------------------------------------------------------------
Working(w) == tWork[w].step = "holding" /\ tWork[w].token > 0

(* No more deliveries to the domain than its limit run at a time: in one     *)
(* process with the local throttle, in all processes together with Redis,    *)
(* those apart that a backend error let pass or that outlast their lease.    *)
(* And with MX shaping leases under a penalty keep the distance that the     *)
(* penalty of the earlier one asks for.                                      *)
LeasesBounded ==
    /\ tRedis => Cardinality({w \in TWorkers : Working(w) /\ tNow < tWork[w].taken + LeaseTTL}) <= SlotLimit
    /\ \A p \in Processes : ~tRedis => InUse(p) <= SlotLimit
    /\ \A w \in TWorkers : Working(w) => tWork[w].taken >= tWork[w].barred
=============================================================================
