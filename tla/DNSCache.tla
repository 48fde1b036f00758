------------------------------ MODULE DNSCache ------------------------------
(***************************************************************************)
(* CachedResolver of router/cache.go: answers for MX and addresses, each    *)
(* with a map of entries and a map of calls in flight that later callers    *)
(* wait for.  Of an answer only its kind and the time at which the resolver *)
(* gave it are kept.                                                        *)
(***************************************************************************)
EXTENDS Integers, FiniteSets

CONSTANTS
    Callers,
    MXNames, AddressNames, \* the domains asked for MX, the hosts asked for addresses
    PositiveTTL, NegativeTTL, Capacity,
    DMaxTime        \* bound

ASSUME DNSAssumption == {PositiveTTL, NegativeTTL, Capacity} \subseteq Nat \ {0}

DKinds == {"mx", "host"}

(* The address of a domain is asked for as the fallback for its MX. *)
NamesOf(k) == IF k = "mx" THEN MXNames ELSE MXNames \cup AddressNames

VARIABLES
    dNow,
    dCache,     \* dCache[k][n]: the entry of name n or NoEntry
    dTask       \* dTask[c]: what caller c is doing

dvars == <<dNow, dCache, dTask>>

(* "found", "negative" (DNS says so), "error" (cancelled or timed out), and   *)
(* "fallback": the name itself as its MX because it has an address, or       *)
(* "no-address": neither MX nor address.                                     *)
Result(kind, answered) == [kind |-> kind, answered |-> answered]
NoEntry == [res |-> Result("none", 0), expires |-> 0, used |-> 0]

(* step: "ask" owns a call, "wait" waits for one; outer: the start of the    *)
(* call for MX that this look-up of addresses belongs to, or -1; addr: the   *)
(* answer for the address.                                                   *)
Idle == [step |-> "idle", kind |-> "mx", name |-> "none", start |-> 0, outer |-> -1, addr |-> Result("none", 0)]

DInit ==
    /\ dNow = 0 /\ dCache = [k \in DKinds |-> [n \in NamesOf(k) |-> NoEntry]]
    /\ dTask = [c \in Callers |-> Idle]

Valid(k, n) == dCache[k][n].expires > dNow
Owns(c, k, n) == \/ dTask[c].step = "ask" /\ dTask[c].kind = k /\ dTask[c].name = n
                 \/ k = "mx" /\ dTask[c].outer >= 0 /\ dTask[c].name = n
InFlight(k, n) == \E c \in Callers : Owns(c, k, n)
Waiting(k, n) == {c \in Callers : dTask[c].step = "wait" /\ dTask[c].kind = k /\ dTask[c].name = n}

Task(step, k, n, outer) ==
    [step |-> step, kind |-> k, name |-> n, start |-> IF step = "ask" THEN dNow ELSE 0, outer |-> outer, addr |-> Result("none", 0)]
Touched(k, n) == [dCache EXCEPT ![k][n].used = dNow]

(* LookupMX and LookupHost up to the query: a valid entry, a call in flight  *)
(* or a call of its own.                                                     *)
Call(c, k, n) ==
    /\ dTask[c] = Idle
    /\ \/ Valid(k, n) /\ dCache' = Touched(k, n) /\ UNCHANGED dTask
       \/ /\ ~Valid(k, n) /\ UNCHANGED dCache
          /\ dTask' = [dTask EXCEPT ![c] = Task(IF InFlight(k, n) THEN "wait" ELSE "ask", k, n, -1)]
    /\ UNCHANGED dNow

(* Mutant: whatever the call returned is cached. *)
cacheableDNSResultAlways(res) == BOOLEAN

(* An answer is not cached when it is an error of the context or a timeout,  *)
(* nor when the caller's context has ended meanwhile.                        *)
cacheableDNSResult(res) == IF res.kind = "error" THEN {FALSE} ELSE BOOLEAN

(* evictMXLocked and evictHostLocked, with the time of the call's start. *)
Evicted(entries, now) ==
    LET live == [n \in DOMAIN entries |-> IF entries[n].expires > now THEN entries[n] ELSE NoEntry]
        full == {n \in DOMAIN entries : live[n] # NoEntry}
        oldest == {n \in full : \A m \in full : live[n].used <= live[m].used}
    IN IF Cardinality(full) < Capacity THEN {live} ELSE {[live EXCEPT ![n] = NoEntry] : n \in oldest}

Cached(k, n, start, res) ==
    LET ttl == IF res.kind \in {"negative", "no-address", "error"} THEN NegativeTTL ELSE PositiveTTL IN
    \E entries \in Evicted(dCache[k], start) :
        dCache' = [dCache EXCEPT ![k] = [entries EXCEPT ![n] = [res |-> res, expires |-> start + ttl, used |-> start]]]

(* The waiters of a call take its answer; those that look an address up for  *)
(* a call of their own for MX go on with it.                                 *)
AfterFinish(k, n, owner, res) ==
    [c \in Callers |-> IF c = owner \/ c \in Waiting(k, n)
                       THEN IF k = "host" /\ dTask[c].outer >= 0
                            THEN [dTask[c] EXCEPT !.step = "fallback", !.kind = "mx", !.start = 0, !.addr = res] ELSE Idle
                       ELSE dTask[c]]

(* The end of LookupMX and LookupHost. *)
Finish(c, k, n, start, res) ==
    /\ \E cacheable \in cacheableDNSResult(res) :
          IF cacheable THEN Cached(k, n, start, res) ELSE UNCHANGED dCache
    /\ dTask' = AfterFinish(k, n, c, res)
    /\ UNCHANGED dNow

(* The resolver answers a query for MX: without records, the address of the  *)
(* name is looked up in the same way (lookupMXAndFallback).                  *)
MXAnswers(c) ==
    LET t == dTask[c] IN
    /\ t.step = "ask" /\ t.kind = "mx"
    /\ \/ Finish(c, "mx", t.name, t.start, Result("found", dNow))
       \/ /\ Valid("host", t.name) /\ dCache' = Touched("host", t.name)
          /\ dTask' = [dTask EXCEPT ![c].step = "fallback", ![c].start = 0, ![c].outer = t.start, ![c].addr = dCache["host"][t.name].res]
          /\ UNCHANGED dNow
       \/ /\ ~Valid("host", t.name) /\ UNCHANGED <<dNow, dCache>>
          /\ dTask' = [dTask EXCEPT ![c] = Task(IF InFlight("host", t.name) THEN "wait" ELSE "ask", "host", t.name, t.start)]

(* The call for MX ends with the answer for the address, or with the error   *)
(* of its own query.                                                         *)
Fallback(c) ==
    LET t == dTask[c] IN
    /\ t.step = "fallback"
    /\ IF t.addr.kind = "found"
       THEN Finish(c, "mx", t.name, t.outer, Result("fallback", t.addr.answered))
       ELSE \E res \in {Result("negative", dNow), Result("error", dNow)} \cup
                       (IF t.addr.kind = "negative" THEN {Result("no-address", t.addr.answered)} ELSE {}) :
               Finish(c, "mx", t.name, t.outer, res)

HostAnswers(c) ==
    LET t == dTask[c] IN
    /\ t.step = "ask" /\ t.kind = "host"
    /\ \E kind \in {"found", "negative", "error"} : Finish(c, "host", t.name, t.start, Result(kind, dNow))

(* A waiter's own context ends first. *)
GivesUp(c) ==
    LET t == dTask[c] IN
    /\ t.step = "wait"
    /\ dTask' = [dTask EXCEPT ![c] = IF t.outer < 0 THEN Idle
                                     ELSE [t EXCEPT !.step = "fallback", !.kind = "mx", !.start = 0, !.addr = Result("error", dNow)]]
    /\ UNCHANGED <<dNow, dCache>>

DTick == dNow < DMaxTime /\ dNow' = dNow + 1 /\ UNCHANGED <<dCache, dTask>>

DNext ==
    \/ \E c \in Callers : \/ \E k \in DKinds : \E n \in NamesOf(k) : Call(c, k, n)
                          \/ MXAnswers(c) \/ HostAnswers(c) \/ Fallback(c) \/ GivesUp(c)
    \/ DTick

DSpec == DInit /\ [][DNext]_dvars
-----------------------------------------------------------------------------
MaxAge(kind) == CASE kind = "found" -> PositiveTTL
                  [] kind = "negative" -> NegativeTTL
                  [] kind = "fallback" -> 2 * PositiveTTL
                  [] kind = "no-address" -> 2 * NegativeTTL

(* A cached answer that is served was given by the resolver less than its    *)
(* TTL ago, less than twice the TTL for the address behind a fallback, which *)
(* may itself come from the cache.  A timeout or the end of one caller's context is never    *)
(* served to later callers.  Each name has one query in flight, and a map    *)
(* never has more than Capacity entries.                                     *)
FreshAnswers ==
    /\ \A k \in DKinds : \A n \in NamesOf(k) : Valid(k, n) =>
          LET res == dCache[k][n].res IN res.kind # "error" /\ dNow - res.answered < MaxAge(res.kind)
    /\ \A k \in DKinds : Cardinality({n \in NamesOf(k) : dCache[k][n] # NoEntry}) <= Capacity
    /\ \A k \in DKinds : \A n \in NamesOf(k) : Cardinality({c \in Callers : Owns(c, k, n)}) <= 1
=============================================================================
