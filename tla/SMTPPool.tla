------------------------------ MODULE SMTPPool ------------------------------
(***************************************************************************)
(* The pool of outbound SMTP connections (internal/delivery/smtp_pool.go)  *)
(* and its use by deliverHost: get a session, deliver, put it back.        *)
(*                                                                         *)
(* Two kinds of counting channels limit the connections: one per key       *)
(* (destination, source address, credentials, TLS policy) and one in       *)
(* total.  get takes a slot of each outside the mutex, so other goroutines *)
(* run between the two.  A goroutine that finds no slot waits on changed,  *)
(* a channel with room for one signal and shared by the waiters of all     *)
(* keys; it may be given up only when its context is cancelled.            *)
(*                                                                         *)
(* What runs under the mutex is one step.  closeSessionLocked frees its    *)
(* two slots within such a step.  idle is a set: the code takes the        *)
(* session returned last, and closes those it passes that are too old.     *)
(***************************************************************************)
EXTENDS Naturals, FiniteSets

CONSTANTS
    Workers,            \* goroutines that deliver
    Keys,               \* smtpPoolKey values
    Sessions,           \* names for connections
    None,               \* no session, no key
    MaxConnections, MaxConnectionsKey, MaxIdle, MaxIdleKey, MaxDeliveries

(* SMTPConnectionPoolConfig.Validate. *)
ASSUME PoolAssumption ==
    /\ None \notin Sessions \cup Keys
    /\ IsFiniteSet(Workers) /\ IsFiniteSet(Sessions)
    /\ MaxConnections \in Nat \ {0} /\ MaxConnectionsKey \in 1 .. MaxConnections
    /\ MaxIdle \in 0 .. MaxConnections /\ MaxIdleKey \in 0 .. MaxConnectionsKey
    /\ MaxDeliveries \in Nat \ {0}
    /\ Cardinality(Sessions) >= MaxConnections

VARIABLES
    pc,             \* pc[w]: where the goroutine is in get, or "use" after it
    want,           \* want[w]: the key it asked for, None outside get and the delivery
    sess,           \* sess[w]: the session it uses
    idle,           \* sessions in the pool
    skey,           \* skey[s]: smtpSession.key of an open connection, else None
    deliveries,     \* deliveries[s] over an open connection, else 0
    old,            \* open sessions past MaxLifetime
    stale,          \* idle sessions past IdleTimeout
    keySlots,       \* keySlots[k]: slots taken of the key's channel
    total,          \* slots taken of the total channel
    changed,        \* a signal is in the channel
    closed          \* the pool was closed

vars == <<pc, want, sess, idle, skey, deliveries, old, stale,
          keySlots, total, changed, closed>>
pool == <<idle, skey, deliveries, old, stale>>

open == {s \in Sessions : skey[s] # None}
IdleOf(k) == {s \in idle : skey[s] = k}
Goto(w, label) == pc' = [pc EXCEPT ![w] = label] /\ UNCHANGED want
Leave(w) == pc' = [pc EXCEPT ![w] = "free"] /\ want' = [want EXCEPT ![w] = None]

Init ==
    /\ pc = [w \in Workers |-> "free"] /\ sess = [w \in Workers |-> None]
    /\ want = [w \in Workers |-> None]
    /\ idle = {} /\ old = {} /\ stale = {}
    /\ skey = [s \in Sessions |-> None]
    /\ deliveries = [s \in Sessions |-> 0]
    /\ keySlots = [k \in Keys |-> 0] /\ total = 0
    /\ changed = FALSE /\ closed = FALSE

-----------------------------------------------------------------------------
(* The connections of gone are closed. *)
Forget(gone) ==
    /\ skey' = [s \in Sessions |-> IF s \in gone THEN None ELSE skey[s]]
    /\ deliveries' = [s \in Sessions |-> IF s \in gone THEN 0 ELSE deliveries[s]]
    /\ old' = old \ gone /\ stale' = stale \ gone

(* closeSessionLocked, for several sessions of a key: each frees a slot of   *)
(* the key and one of the total and signals.  stay is what remains idle.     *)
closeSessions(gone, k, stay) ==
    /\ idle' = stay /\ Forget(gone)
    /\ keySlots' = [keySlots EXCEPT ![k] = @ - Cardinality(gone)]
    /\ total' = total - Cardinality(gone)
    /\ changed' = (changed \/ gone # {})

(* A delivery asks for a session. *)
Get(w, k) ==
    /\ pc[w] = "free"
    /\ pc' = [pc EXCEPT ![w] = "look"] /\ want' = [want EXCEPT ![w] = k]
    /\ UNCHANGED <<sess, pool, keySlots, total, changed, closed>>

(* The part of get under the mutex: the idle sessions of the key, those too  *)
(* old or too often used are closed on the way.  Mutant: any key will do.    *)
UsableAnywhere(k) == {s \in idle : s \notin old \cup stale /\ deliveries[s] < MaxDeliveries}
Usable(k) == {s \in IdleOf(k) : s \notin old \cup stale /\ deliveries[s] < MaxDeliveries}
Expired(k) == IdleOf(k) \ Usable(k)
Look(w) ==
    /\ pc[w] = "look"
    /\ \/ /\ closed
          /\ Leave(w)
          /\ UNCHANGED <<sess, pool, keySlots, total, changed>>
       \/ /\ ~closed
          /\ \E s \in Usable(want[w]), gone \in SUBSET Expired(want[w]) :
               /\ sess' = [sess EXCEPT ![w] = s]
               /\ Goto(w, "use")
               /\ closeSessions(gone, want[w], idle \ (gone \cup {s}))
       \/ /\ ~closed /\ Usable(want[w]) = {}
          /\ Goto(w, "key")
          /\ closeSessions(Expired(want[w]), want[w], idle \ Expired(want[w]))
          /\ UNCHANGED sess
    /\ UNCHANGED closed

(* The first select: a slot of the key, if there is one. *)
TakeKeySlot(w) ==
    /\ pc[w] = "key"
    /\ IF keySlots[want[w]] < MaxConnectionsKey
       THEN Goto(w, "total") /\ keySlots' = [keySlots EXCEPT ![want[w]] = @ + 1]
       ELSE Goto(w, "wait") /\ UNCHANGED keySlots
    /\ UNCHANGED <<sess, pool, total, changed, closed>>

(* The second: a slot of the total, or the key's slot is given back, without *)
(* a signal.  Mutant: it is kept.                                            *)
TakeTotalKeeping(w) ==
    /\ pc[w] = "total"
    /\ IF total < MaxConnections
       THEN Goto(w, "dial") /\ total' = total + 1
       ELSE Goto(w, "wait") /\ UNCHANGED total
    /\ UNCHANGED <<sess, pool, keySlots, changed, closed>>

TakeTotal(w) ==
    /\ pc[w] = "total"
    /\ IF total < MaxConnections
       THEN Goto(w, "dial") /\ total' = total + 1 /\ UNCHANGED keySlots
       ELSE /\ Goto(w, "wait")
            /\ keySlots' = [keySlots EXCEPT ![want[w]] = @ - 1]
            /\ UNCHANGED total
    /\ UNCHANGED <<sess, pool, changed, closed>>

(* dial succeeds; also when the pool was closed meanwhile. *)
Dialed(w) ==
    /\ pc[w] = "dial"
    /\ Goto(w, "use")
    /\ \E s \in Sessions \ open :
         /\ sess' = [sess EXCEPT ![w] = s]
         /\ skey' = [skey EXCEPT ![s] = want[w]]
    /\ UNCHANGED <<idle, deliveries, old, stale, keySlots, total, changed, closed>>

(* dial fails: the total slot is freed, then the key's, then the signal. *)
DialFailed(w) ==
    /\ pc[w] = "dial"
    /\ Goto(w, "undo")
    /\ total' = total - 1
    /\ UNCHANGED <<sess, pool, keySlots, changed, closed>>
Undo(w) ==
    /\ pc[w] = "undo"
    /\ Leave(w)
    /\ keySlots' = [keySlots EXCEPT ![want[w]] = @ - 1]
    /\ changed' = TRUE
    /\ UNCHANGED <<sess, pool, total, closed>>

(* The last select: the signal, or the end of the context. *)
Wake(w) ==
    /\ pc[w] = "wait" /\ changed
    /\ changed' = FALSE
    /\ Goto(w, "look")
    /\ UNCHANGED <<sess, pool, keySlots, total, closed>>
Cancel(w) ==
    /\ pc[w] = "wait"
    /\ Leave(w)
    /\ UNCHANGED <<sess, pool, keySlots, total, changed, closed>>

(* put, after a delivery that leaves the connection reusable or not.  Mutants: *)
(* the state of the pool, or the number of idle sessions, is not looked at, or *)
(* the return is not signalled.                                                *)
fullKey(k) == Cardinality(IdleOf(k)) >= MaxIdleKey
full(k) == Cardinality(IdleOf(k)) >= MaxIdleKey \/ Cardinality(idle) >= MaxIdle
discardOpen(s, reusable) ==
    ~reusable \/ s \in old \/ deliveries[s] + 1 >= MaxDeliveries \/ full(skey[s])
discard(s, reusable) ==
    \/ ~reusable \/ closed \/ s \in old
    \/ deliveries[s] + 1 >= MaxDeliveries
    \/ full(skey[s])
putSilently(w, reusable) ==
    /\ pc[w] = "use"
    /\ Leave(w)
    /\ sess' = [sess EXCEPT ![w] = None]
    /\ IF discard(sess[w], reusable)
       THEN closeSessions({sess[w]}, skey[sess[w]], idle)
       ELSE /\ idle' = idle \cup {sess[w]}
            /\ deliveries' = [deliveries EXCEPT ![sess[w]] = @ + 1]
            /\ UNCHANGED <<skey, old, stale, keySlots, total, changed>>
    /\ UNCHANGED closed

put(w, reusable) ==
    LET s == sess[w]
    IN  /\ pc[w] = "use"
        /\ Leave(w)
        /\ sess' = [sess EXCEPT ![w] = None]
        /\ IF discard(s, reusable)
           THEN closeSessions({s}, skey[s], idle)
           ELSE /\ idle' = idle \cup {s}
                /\ deliveries' = [deliveries EXCEPT ![s] = @ + 1]
                /\ changed' = TRUE
                /\ UNCHANGED <<skey, old, stale, keySlots, total>>
        /\ UNCHANGED closed

(* Close: all idle sessions, of every key. *)
Close ==
    /\ ~closed
    /\ closed' = TRUE
    /\ idle' = {} /\ Forget(idle)
    /\ keySlots' = [k \in Keys |-> keySlots[k] - Cardinality(IdleOf(k))]
    /\ total' = total - Cardinality(idle)
    /\ changed' = TRUE
    /\ UNCHANGED <<pc, want, sess>>

(* Time passes MaxLifetime or IdleTimeout. *)
Age(s) ==
    /\ \/ s \in open /\ old' = old \cup {s} /\ UNCHANGED stale
       \/ s \in idle /\ stale' = stale \cup {s} /\ UNCHANGED old
    /\ UNCHANGED <<pc, want, sess, idle, skey, deliveries, keySlots, total, changed, closed>>

Step(w) ==
    \/ Look(w) \/ TakeKeySlot(w) \/ TakeTotal(w) \/ Dialed(w) \/ DialFailed(w)
    \/ Undo(w) \/ Wake(w) \/ \E reusable \in BOOLEAN : put(w, reusable)

Next ==
    \/ \E w \in Workers : Step(w) \/ Cancel(w) \/ \E k \in Keys : Get(w, k)
    \/ Close
    \/ \E s \in Sessions : Age(s)

Spec == Init /\ [][Next]_vars

(* A goroutine goes on, a delivery ends (its connection has a deadline), and *)
(* the channel serves its receivers in the order they came, so a waiter is   *)
(* not passed over for ever.  Nobody need ask again or be cancelled.         *)
Fairness ==
    \A w \in Workers : WF_vars(Step(w)) /\ SF_vars(Wake(w))
FairSpec == Spec /\ Fairness

-----------------------------------------------------------------------------
(* The state has its type. *)
TypeOK ==
    /\ pc \in [Workers -> {"free", "look", "key", "total", "dial", "undo", "wait", "use"}]
    /\ want \in [Workers -> Keys \cup {None}] /\ sess \in [Workers -> Sessions \cup {None}]
    /\ idle \subseteq open /\ old \subseteq open /\ stale \subseteq idle
    /\ skey \in [Sessions -> Keys \cup {None}] /\ deliveries \in [Sessions -> Nat]
    /\ keySlots \in [Keys -> Nat] /\ total \in Nat
    /\ changed \in BOOLEAN /\ closed \in BOOLEAN

OpenOf(k) == {s \in open : skey[s] = k}
At(labels) == {w \in Workers : pc[w] \in labels}
AtFor(labels, k) == {w \in At(labels) : want[w] = k}

(* No slot leaks and none is freed twice: on every path through get, put and *)
(* Close the slots taken are those of the open connections and of the        *)
(* goroutines between taking a slot and dialling.                            *)
SlotsExact ==
    /\ total = Cardinality(open) + Cardinality(At({"dial"}))
    /\ \A k \in Keys :
         keySlots[k] = Cardinality(OpenOf(k)) + Cardinality(AtFor({"total", "dial", "undo"}, k))

(* The open and the idle connections are within max_connections,             *)
(* max_connections_per_key, max_idle and max_idle_per_key.                   *)
WithinLimits ==
    /\ Cardinality(open) <= MaxConnections /\ Cardinality(idle) <= MaxIdle
    /\ \A k \in Keys : /\ Cardinality(OpenOf(k)) <= MaxConnectionsKey
                       /\ Cardinality(IdleOf(k)) <= MaxIdleKey

(* A connection is used by one goroutine at a time, one that asked for its   *)
(* key; it is open, not in the pool, and has deliveries left.                *)
OneUser ==
    /\ \A w \in At({"use"}) : /\ sess[w] \in open \ idle
                               /\ skey[sess[w]] = want[w]
                               /\ deliveries[sess[w]] < MaxDeliveries
    /\ \A w1, w2 \in At({"use"}) : sess[w1] = sess[w2] => w1 = w2

(* After Close the pool keeps no connection: whatever was dialled or in use  *)
(* meanwhile is closed when put returns it.                                  *)
NothingKept == closed => idle = {}

(* After Close every connection is closed in the end, those that were being  *)
(* dialled or in use at the time of Close included.                          *)
Drained == closed ~> open = {}

(* No wake-up is lost while the pool is open: once no new request comes in,  *)
(* every goroutine that waits gets a connection or an error, although one    *)
(* signal is shared by the waiters of all keys and two signals may become    *)
(* one.  It holds when MaxIdle < MaxConnections, so that some open session   *)
(* is always in use, and its return signals.                                 *)
WaitersServed ==
    []~closed /\ <>[][\A w \in Workers, k \in Keys : ~Get(w, k)]_vars
    => \A w \in Workers : pc[w] = "wait" ~> pc[w] \in {"use", "free"}

(* A goroutine that waits while a session of its key has come back to the    *)
(* pool is woken (smtp_pool_test.go:93).                                     *)
ReturnedSessionWakes ==
    \A w \in Workers : (pc[w] = "wait" /\ IdleOf(want[w]) # {}) ~> pc[w] # "wait"
=============================================================================
