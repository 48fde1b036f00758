----------------------------- MODULE MTASTSCache -----------------------------
(***************************************************************************)
(* The MTA-STS policy cache of one recipient domain (MTASTSResolver in      *)
(* delivery/mta_sts.go).  Several deliveries look the policy up at once;    *)
(* the lock is free while the TXT record and the policy are fetched.        *)
(***************************************************************************)
EXTENDS Integers

CONSTANTS
    Lookups,            \* goroutines in Lookup
    Ids, NoId,          \* values of the id in the TXT record; NoId: none was found
    TTL, Ages,          \* the configured cache_ttl and the max_age values of policies
    minRetryDelay, maxRetryDelay,
    MaxFailures,        \* bound on counted failures
    MaxTime

ASSUME MTASTSAssumption ==
    /\ NoId \notin Ids /\ TTL \in Nat /\ Ages \subseteq Nat \ {0}
    /\ minRetryDelay \in Nat \ {0} /\ maxRetryDelay \in Nat \ {0}

rolloverNeed == 2

VARIABLES
    clock,
    cache,      \* the cached policy or NoPolicy
    failures, retryAt,
    rollover,   \* the policy id that waits for confirmation, and how often it was seen
    at,         \* at[g]: "idle", "look" or "fetch"
    seen,       \* seen[g]: now and the TXT id at the start of the call, and the stale policy
    lastId,     \* history: the id of the policy fetched last
    change      \* history: how the cache was written last

svars == <<clock, cache, failures, retryAt, rollover, at, seen, lastId, change>>

NoPolicy == [id |-> NoId, expires |-> -1]
Fresh == [now |-> 0, id |-> NoId, stale |-> NoPolicy]
NoRollover == [id |-> NoId, confirmations |-> 0]

SInit ==
    /\ clock = 0 /\ cache = NoPolicy /\ failures = 0 /\ retryAt = 0
    /\ rollover = NoRollover /\ lastId = NoId /\ change = "none"
    /\ at = [g \in Lookups |-> "idle"] /\ seen = [g \in Lookups |-> Fresh]

Return(g) == at' = [at EXCEPT ![g] = "idle"] /\ seen' = [seen EXCEPT ![g] = Fresh]

(* The TXT record is looked up without the lock. *)
lookupPolicyID(g) ==
    /\ at[g] = "idle" /\ at' = [at EXCEPT ![g] = "look"]
    /\ \E id \in Ids \cup {NoId} : seen' = [seen EXCEPT ![g] = [Fresh EXCEPT !.now = clock, !.id = id]]
    /\ UNCHANGED <<clock, cache, failures, retryAt, rollover, lastId, change>>

refreshByID(g) == seen[g].id # NoId /\ cache.id # NoId /\ seen[g].id # cache.id

(* The cached policy is used while it is fresh, and while a failed refresh   *)
(* waits for its retry; an id that differs asks for a fetch at once.         *)
CacheHit(g) ==
    /\ at[g] = "look" /\ cache # NoPolicy /\ ~refreshByID(g)
    /\ seen[g].now < cache.expires \/ seen[g].now < retryAt
    /\ Return(g) /\ UNCHANGED <<clock, cache, failures, retryAt, rollover, lastId, change>>

CacheMiss(g) ==
    /\ at[g] = "look"
    /\ cache # NoPolicy /\ ~refreshByID(g) => seen[g].now >= cache.expires /\ seen[g].now >= retryAt
    /\ at' = [at EXCEPT ![g] = "fetch"] /\ seen' = [seen EXCEPT ![g].stale = cache]
    /\ IF cache # NoPolicy /\ refreshByID(g) THEN failures' = 0 /\ retryAt' = 0
                                         ELSE UNCHANGED <<failures, retryAt>>
    /\ UNCHANGED <<clock, cache, rollover, lastId, change>>

(* The delay doubles with every failure, up to the maximum. *)
retryDelay[n \in Nat] ==
    IF n <= 1 THEN (IF minRetryDelay > maxRetryDelay THEN maxRetryDelay ELSE minRetryDelay)
    ELSE IF retryDelay[n - 1] >= maxRetryDelay \div 2 THEN maxRetryDelay ELSE 2 * retryDelay[n - 1]

(* No policy, or one that does not parse: the stale one serves on. *)
FetchFailed(g) ==
    /\ at[g] = "fetch" /\ Return(g)
    /\ IF seen[g].stale = NoPolicy THEN UNCHANGED <<failures, retryAt>>
       ELSE /\ failures < MaxFailures /\ failures' = failures + 1
            /\ retryAt' = seen[g].now + retryDelay[failures']
    /\ UNCHANGED <<clock, cache, rollover, lastId, change>>

(* A policy with another id has to be fetched rolloverNeed times in a row. *)
confirmedAtOnce(g) == TRUE
confirmed(g) == rollover.id = seen[g].id /\ rollover.confirmations + 1 >= rolloverNeed

rollsOver(g) == LET old == seen[g].stale IN
    old # NoPolicy /\ old.id # NoId /\ seen[g].id # NoId /\ seen[g].id # old.id

observeRollover(g) ==
    rollover' = [id |-> seen[g].id,
                 confirmations |-> IF rollover.id = seen[g].id THEN rollover.confirmations + 1 ELSE 1]

Expiry(g, age) == seen[g].now + (IF TTL < age THEN TTL ELSE age)

Fetched(g, age) ==
    /\ at[g] = "fetch" /\ Return(g) /\ failures' = 0 /\ retryAt' = 0 /\ lastId' = seen[g].id
    /\ IF rollsOver(g) /\ ~confirmed(g) THEN observeRollover(g) /\ UNCHANGED <<cache, change>>
       ELSE /\ cache' = [id |-> seen[g].id, expires |-> Expiry(g, age)]
            /\ rollover' = NoRollover
            /\ change' = IF rollsOver(g) THEN (IF lastId = seen[g].id THEN "confirmed" ELSE "unconfirmed")
                         ELSE "same"
    /\ UNCHANGED clock

Tick == clock < MaxTime /\ clock' = clock + 1
        /\ UNCHANGED <<cache, failures, retryAt, rollover, at, seen, lastId, change>>

SNext == Tick \/ \E g \in Lookups :
    lookupPolicyID(g) \/ CacheHit(g) \/ CacheMiss(g) \/ FetchFailed(g) \/ \E a \in Ages : Fetched(g, a)

-----------------------------------------------------------------------------
(* A named policy gives way to one with another id only after that one was   *)
(* fetched twice with no other policy fetched in between, also when several  *)
(* look-ups fetch at once and finish in any order.                           *)
RolloverConfirmed == change # "unconfirmed"
=============================================================================
