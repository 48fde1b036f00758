------------------------------ MODULE Shaping -------------------------------
(***************************************************************************)
(* The limiter of MX shaping for one group of hosts (shaping/limiter.go and  *)
(* shaping/redis.go): two token buckets, for messages and for connections,   *)
(* and leases of connections that expire.  Groups share nothing but the      *)
(* capacity of the map, for which idle ones are forgotten.  A token counts   *)
(* as Scale units and a rate as units per tick of the clock.                 *)
(***************************************************************************)
EXTENDS Integers, FiniteSets, FiniteSetsExt

CONSTANTS
    Dialers,
    LimitChoices,   \* of records [mrate, mburst, crate, cburst, maxc]
    Scale,
    ShapeTTL,       \* leaseTTL
    Slack,          \* the minute that idleTTL adds
    SMaxTime        \* bound

VARIABLES
    sLimits, sRedis,    \* the configuration
    sNow,
    sGroup,     \* the state of the group or NoGroup
    sHeld,      \* sHeld[c]: the token of dialer c's lease, 0 without one
    sMessages, sConnections  \* history: the largest excess, over all intervals that end
                             \* now, of what was admitted over what the rate adds

shvars == <<sLimits, sRedis, sNow, sGroup, sHeld, sMessages, sConnections>>

NoGroup == [last |-> -1, mt |-> 0, ct |-> 0, leases |-> {}]
Burst(n) == Max({n, 1}) * Scale

ShInit ==
    /\ sLimits \in LimitChoices /\ sRedis \in BOOLEAN /\ sNow = 0
    /\ sGroup = NoGroup /\ sHeld = [c \in Dialers |-> 0]
    /\ sMessages = 0 /\ sConnections = 0

(* bucket.refill; a rate of 0 is no limit and leaves the bucket alone. *)
refill(tokens, rate, burst) ==
    IF rate = 0 THEN tokens
    ELSE IF sGroup = NoGroup THEN Burst(burst)
    ELSE Min({Burst(burst), tokens + (sNow - sGroup.last) * rate})

Refilled ==
    [last |-> sNow, mt |-> refill(sGroup.mt, sLimits.mrate, sLimits.mburst), ct |-> refill(sGroup.ct, sLimits.crate, sLimits.cburst),
     leases |-> {l \in sGroup.leases : l.expires > sNow}]

Lacks(tokens, rate) == rate > 0 /\ tokens < Scale

(* The wait is positive; a refused reservation takes from neither bucket. *)
Refuses(g, message) ==
    \/ Lacks(g.ct, sLimits.crate) \/ (message /\ Lacks(g.mt, sLimits.mrate))
    \/ sLimits.maxc > 0 /\ Cardinality(g.leases) >= sLimits.maxc

NewToken == CHOOSE n \in 1 .. (Cardinality(sGroup.leases) + Cardinality(Dialers) + 1) :
                (\A l \in sGroup.leases : l.token # n) /\ (\A c \in Dialers : sHeld[c] # n)
Admits(g, message) ==
    [g EXCEPT !.mt = IF message /\ sLimits.mrate > 0 THEN @ - Scale ELSE @, !.ct = IF sLimits.crate > 0 THEN @ - Scale ELSE @,
              !.leases = @ \cup {[token |-> NewToken, expires |-> sNow + ShapeTTL]}]

(* acquire, with or without a message.  With Redis the reply may be lost,    *)
(* which defers the attempt whether the script ran or not.                   *)
AcquireShaped(c, message) ==
    LET g == Refilled IN
    /\ sHeld[c] = 0 /\ UNCHANGED <<sLimits, sRedis, sNow>>
    /\ \/ Refuses(g, message) /\ sGroup' = g /\ UNCHANGED <<sHeld, sMessages, sConnections>>
       \/ /\ ~Refuses(g, message) /\ sGroup' = Admits(g, message)
          /\ sHeld' = [sHeld EXCEPT ![c] = NewToken]
          /\ sMessages' = IF message /\ sLimits.mrate > 0 THEN sMessages + Scale ELSE sMessages
          /\ sConnections' = IF sLimits.crate > 0 THEN sConnections + Scale ELSE sConnections
       \/ /\ sRedis /\ ~Refuses(g, message) /\ sGroup' = Admits(g, message)
          /\ UNCHANGED <<sHeld, sMessages, sConnections>>

(* release takes the lease away once, if it is still there; the call of      *)
(* Redis may fail.                                                           *)
ReleaseShaped(c) ==
    /\ sHeld[c] > 0 /\ sHeld' = [sHeld EXCEPT ![c] = 0]
    /\ LET released == [sGroup EXCEPT !.leases = {l \in @ : l.token # sHeld[c]}] IN
       sGroup' \in IF sRedis THEN {sGroup, released} ELSE {released}
    /\ UNCHANGED <<sLimits, sRedis, sNow, sMessages, sConnections>>

(* Mutant: the time that an empty bucket takes to fill is left out. *)
idleTTLOfLease == ShapeTTL + Slack

Fills(rate, burst) == IF rate = 0 THEN 0 ELSE (Burst(burst) + rate - 1) \div rate
idleTTL == Max({ShapeTTL, Fills(sLimits.mrate, sLimits.mburst), Fills(sLimits.crate, sLimits.cburst)}) + Slack

(* An idle group is forgotten, when the map is full or by Redis. *)
ForgetGroup ==
    /\ sGroup # NoGroup /\ sNow - sGroup.last >= (IF sRedis THEN idleTTL ELSE idleTTL + 1)
    /\ sGroup' = NoGroup /\ UNCHANGED <<sLimits, sRedis, sNow, sHeld, sMessages, sConnections>>

STick ==
    /\ sNow < SMaxTime /\ sNow' = sNow + 1
    /\ sMessages' = Max({0, sMessages - sLimits.mrate}) /\ sConnections' = Max({0, sConnections - sLimits.crate})
    /\ UNCHANGED <<sLimits, sRedis, sGroup, sHeld>>

ShNext ==
    \/ \E c \in Dialers : (\E message \in BOOLEAN : AcquireShaped(c, message)) \/ ReleaseShaped(c)
    \/ ForgetGroup \/ STick
-----------------------------------------------------------------------------
(* In every interval no more messages and no more connections are admitted   *)
(* than the burst and what the rate adds in its length, although refused     *)
(* attempts, attempts without a message and the forgetting of idle groups    *)
(* come in between; and the connections whose leases have not expired are at *)
(* most MaxConnections.                                                      *)
ShapedWithin ==
    /\ sMessages <= Burst(sLimits.mburst) /\ sConnections <= Burst(sLimits.cburst)
    /\ sLimits.maxc > 0 => Cardinality({l \in sGroup.leases : l.expires > sNow}) <= sLimits.maxc
=============================================================================
