----------------------------- MODULE RateWindow -----------------------------
(***************************************************************************)
(* The ingress rate rules (ingress/flexible_limiter.go, ratelimit.go and     *)
(* redis_limit_store.go).  A call of FlexibleLimiter.Allow reads the clock   *)
(* and then passes the rules of its event one by one; each rule is one       *)
(* atomic step of the store, and other connections' calls come in between.   *)
(***************************************************************************)
EXTENDS Integers, Sequences, FiniteSets

CONSTANTS
    Calls,              \* connections calling Allow at one time
    Rules,              \* the rules: records Event, Key, Limit, Window
    Froms,              \* MAIL addresses; all calls are of one client address
    Delay,              \* longest time between reading the clock and the last rule
    LastTime            \* bound on the clock

KeyTypes == {"ip", "helo", "mailfrom", "ip+helo", "ip+mailfrom"}
ASSUME RateAssumption ==
    /\ \A i \in DOMAIN Rules : /\ Rules[i].Key \in KeyTypes
                               /\ Rules[i].Limit \in Int /\ Rules[i].Window \in Nat
    /\ Delay \in Nat /\ LastTime \in Nat

VARIABLES
    redis,      \* the store is Redis, or memory
    rclock,
    call,       \* call[c]: rule reached (0: no call), event, address and time
    hits,       \* hits[i][k]: times kept for rule i and key k
    expiry,     \* expiry[i][k]: when Redis drops the key
    passed      \* passed[i][k]: the times the rule let pass, while a period may hold them

rvars == <<redis, rclock, call, hits, expiry, passed>>

Events == {Rules[i].Event : i \in DOMAIN Rules}
Idle == [rule |-> 0, event |-> "none", from |-> "", now |-> 0]

(* A key is the pair of its parts, "" for what the event does not have or the *)
(* type leaves out; the empty key skips the rule.                             *)
heloOf(event) == IF event = "connect" THEN "" ELSE "greeting"
buildRateKey(key, event, from) ==
    CASE key = "ip" -> <<"client", "">>
      [] key = "helo" -> <<"", heloOf(event)>>
      [] key = "mailfrom" -> <<"", from>>
      [] key = "ip+helo" -> <<"client", heloOf(event)>>
      [] key = "ip+mailfrom" -> <<"client", from>>

Keys(i) == {buildRateKey(Rules[i].Key, Rules[i].Event, f) : f \in Froms \cup {""}}

RInit ==
    /\ redis \in BOOLEAN /\ rclock = 0 /\ call = [c \in Calls |-> Idle]
    /\ hits = [i \in DOMAIN Rules |-> [k \in Keys(i) |-> <<>>]]
    /\ expiry = [i \in DOMAIN Rules |-> [k \in Keys(i) |-> 0]]
    /\ passed = [i \in DOMAIN Rules |-> [k \in Keys(i) |-> <<>>]]

(* The rules a call passes: of its event, with a limit and a key. *)
Applies(i, e, f) == Rules[i].Event = e /\ Rules[i].Limit > 0 /\ buildRateKey(Rules[i].Key, e, f) # <<"", "">>
NextRule(n, e, f) ==
    LET later == {i \in DOMAIN Rules : i > n /\ Applies(i, e, f)} IN
    IF later = {} THEN 0 ELSE CHOOSE i \in later : \A j \in later : i <= j

Begin(c, e, f) ==
    /\ call[c].rule = 0 /\ (f = "" <=> e # "mailfrom") /\ NextRule(0, e, f) # 0
    /\ call' = [call EXCEPT ![c] = [rule |-> NextRule(0, e, f), event |-> e, from |-> f, now |-> rclock]]
    /\ UNCHANGED <<redis, rclock, hits, expiry, passed>>

Stop(c) == call' = [call EXCEPT ![c] = Idle]
Proceed(c) ==
    LET n == NextRule(call[c].rule, call[c].event, call[c].from) IN
    IF n = 0 THEN Stop(c) ELSE call' = [call EXCEPT ![c].rule = n]

(* Both stores drop the times before the window of this call; Redis also       *)
(* drops the key when nobody has used it for a window.                         *)
Found(i, k) == IF redis /\ rclock > expiry[i][k] THEN <<>> ELSE hits[i][k]
keptLate(i, k, now) == SelectSeq(Found(i, k), LAMBDA t : t > now - Rules[i].Window)
kept(i, k, now) == SelectSeq(Found(i, k), LAMBDA t : t >= now - Rules[i].Window)

Recent(i, times) == SelectSeq(times, LAMBDA t : t >= rclock - Rules[i].Window - Delay)

Allow(c) ==
    /\ call[c].rule > 0
    /\ LET i == call[c].rule  now == call[c].now
           k == buildRateKey(Rules[i].Key, call[c].event, call[c].from)
           old == kept(i, k, now) IN
       /\ IF Len(old) >= Rules[i].Limit
          THEN hits' = [hits EXCEPT ![i][k] = old] /\ Stop(c) /\ UNCHANGED passed
          ELSE /\ hits' = [hits EXCEPT ![i][k] = Append(old, now)]
               /\ passed' = [passed EXCEPT ![i][k] = Append(Recent(i, @), now)] /\ Proceed(c)
       /\ expiry' = [expiry EXCEPT ![i][k] = IF redis THEN rclock + Rules[i].Window ELSE @]
    /\ UNCHANGED <<redis, rclock>>

(* Redis cannot be reached: the call ends and the caller lets the event pass. *)
StoreError(c) ==
    /\ redis /\ call[c].rule > 0 /\ Stop(c)
    /\ UNCHANGED <<redis, rclock, hits, expiry, passed>>

Tick ==
    /\ rclock < LastTime /\ \A c \in Calls : call[c].rule > 0 => rclock < call[c].now + Delay
    /\ rclock' = rclock + 1 /\ UNCHANGED <<redis, call, hits, expiry, passed>>

RNext == Tick \/ \E c \in Calls :
    Allow(c) \/ StoreError(c) \/ \E e \in Events, f \in Froms \cup {""} : Begin(c, e, f)

-----------------------------------------------------------------------------
(* A rule lets at most Limit events of a key pass in any period as long as     *)
(* its window less the time a call may lie between reading the clock and the   *)
(* store: calls arrive at the store out of the order of their times, and a     *)
(* later call has already dropped what an earlier one still had to count.      *)
RateHeld ==
    \A i \in DOMAIN Rules : \A k \in Keys(i) :
        \A a \in DOMAIN passed[i][k] :
            Cardinality({b \in DOMAIN passed[i][k] :
                passed[i][k][b] <= passed[i][k][a] /\
                passed[i][k][b] >= passed[i][k][a] - (Rules[i].Window - Delay)})
            <= IF Rules[i].Limit <= 0 THEN 0 ELSE Rules[i].Limit
=============================================================================
