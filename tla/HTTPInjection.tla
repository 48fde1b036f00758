--------------------------- MODULE HTTPInjection ----------------------------
(***************************************************************************)
(* The HTTP injection API (httpinjection/api.go) with its idempotency store  *)
(* (httpinjection/idempotency.go), for the keys of one principal.  A request *)
(* takes several steps under enqueueMu; the process may stop between any two *)
(* of them and each may fail.  The queue is the local one, which ignores an  *)
(* id that it has in any state, or Kafka, which does not.                    *)
(***************************************************************************)
EXTENDS Integers

CONSTANTS
    Clients, HKeys, Payloads,
    TTL,            \* IdempotencyTTL
    RatePerMinute,
    Minute,         \* in ticks of the clock
    HMaxTime        \* bound

ASSUME HTTPAssumption == TTL \in Nat /\ "free" \notin Clients

VARIABLES
    hLocal,     \* the queue is the local one
    hNow,
    hRec,       \* hRec[k]: the record file of key k or NoRecord
    hIds,       \* the keys whose message id the local queue has
    hWindow,    \* the principal's window of the limiter
    hReq,       \* hReq[c]: the request of client c
    hLock,      \* the client that holds enqueueMu, or "free"
    hInjected,  \* history: hInjected[k], the payloads put in the queue
    hTold,      \* history: hTold[k], the last success and how long it stands
    hAgain,     \* history: keys injected again while a success stood
    hExpired    \* history: keys one of whose records has expired

hvars == <<hLocal, hNow, hRec, hIds, hWindow, hReq, hLock, hInjected, hTold, hAgain, hExpired>>

NoRecord == [state |-> "none"]
NoRequest == [step |-> "idle"]
NotTold == [until |-> 0]
NoWindow == [start |-> 0, count |-> 0]

HInit ==
    /\ hLocal \in BOOLEAN /\ hNow = 0
    /\ hRec = [k \in HKeys |-> NoRecord] /\ hIds = {} /\ hWindow = NoWindow
    /\ hReq = [c \in Clients |-> NoRequest] /\ hLock = "free"
    /\ hInjected = [k \in HKeys |-> {}] /\ hTold = [k \in HKeys |-> NotTold] /\ hAgain = {} /\ hExpired = {}

hhist == <<hInjected, hTold, hAgain, hExpired>>

(* principalLimiter.allow; a refusal changes nothing. *)
allow ==
    LET fresh == hWindow.count = 0 \/ hNow - hWindow.start >= Minute IN
    /\ fresh \/ hWindow.count < RatePerMinute
    /\ hWindow' = IF fresh THEN [start |-> hNow, count |-> 1] ELSE [hWindow EXCEPT !.count = @ + 1]

(* handleInject up to enqueueMu, for a request that is authenticated and     *)
(* valid; the message id derives from the key, the hash from the payload.    *)
Request(c, k, p) ==
    /\ hReq[c] = NoRequest /\ allow
    /\ hReq' = [hReq EXCEPT ![c] = [step |-> "lookup", key |-> k, payload |-> p]]
    /\ UNCHANGED <<hLocal, hNow, hRec, hIds, hLock, hhist>>

(* A request of the principal that is refused later counts in the window. *)
InvalidRequest == allow /\ UNCHANGED <<hLocal, hNow, hRec, hIds, hReq, hLock, hhist>>

(* The handler returns, with or without an answer that promises something. *)
Respond(c) == hReq' = [hReq EXCEPT ![c] = NoRequest] /\ hLock' = "free"
Success(k, p, until) == hTold' = [hTold EXCEPT ![k] = [until |-> until, payload |-> p]]
Step(c, step) == hReq' = [hReq EXCEPT ![c].step = step] /\ hLock' = c

KeyFound(k) == hRec[k] # NoRecord /\ hRec[k].expires > hNow

(* Mutant: the hashes are not compared. *)
reusedIgnored(k, p) == FALSE

reused(k, p) == hRec[k].payload # p

(* enqueueMu and lookup, which removes an expired record: an error, 409,     *)
(* 200 for a committed record, or on to prepare.                             *)
lookup(c) ==
    LET k == hReq[c].key  p == hReq[c].payload IN
    /\ hReq[c].step = "lookup" /\ hLock = "free" /\ UNCHANGED <<hLocal, hNow, hIds, hWindow, hInjected, hAgain>>
    /\ \/ Respond(c) /\ UNCHANGED <<hRec, hTold, hExpired>>
       \/ /\ KeyFound(k) /\ UNCHANGED <<hRec, hExpired>>
          /\ IF reused(k, p) THEN Respond(c) /\ UNCHANGED hTold
             ELSE IF hRec[k].committed THEN Respond(c) /\ Success(k, p, hRec[k].expires)
             ELSE Step(c, "prepare") /\ UNCHANGED hTold
       \/ /\ ~KeyFound(k) /\ hRec' = [hRec EXCEPT ![k] = NoRecord]
          /\ hExpired' = IF hRec[k] = NoRecord THEN hExpired ELSE hExpired \cup {k}
          /\ Step(c, "prepare") /\ UNCHANGED hTold

Keep(k, p, committed) ==
    hRec' = [hRec EXCEPT ![k] = [state |-> "kept", payload |-> p, committed |-> committed, expires |-> hNow + TTL]]

(* write may fail before or after the rename. *)
prepare(c) ==
    LET k == hReq[c].key  p == hReq[c].payload IN
    /\ hReq[c].step = "prepare" /\ UNCHANGED <<hLocal, hNow, hIds, hWindow, hhist>>
    /\ \/ Keep(k, p, FALSE) /\ (Step(c, "enqueue") \/ Respond(c))
       \/ UNCHANGED hRec /\ Respond(c)

(* Enqueue: a new message, nothing for an id that the local queue has, or an *)
(* error; Kafka may have the record in spite of the error.                   *)
Enqueue(c) ==
    LET k == hReq[c].key  p == hReq[c].payload
        inject == /\ hInjected' = [hInjected EXCEPT ![k] = @ \cup {p}] /\ hIds' = hIds \cup {k}
                  /\ hAgain' = IF hTold[k].until > hNow THEN hAgain \cup {k} ELSE hAgain
        ignore == UNCHANGED <<hInjected, hIds, hAgain>>
    IN
    /\ hReq[c].step = "enqueue" /\ UNCHANGED <<hLocal, hNow, hRec, hWindow, hTold, hExpired>>
    /\ \/ Step(c, "commit") /\ IF hLocal /\ k \in hIds THEN ignore ELSE inject
       \/ Respond(c) /\ (ignore \/ (~hLocal /\ inject))

commit(c) ==
    LET k == hReq[c].key  p == hReq[c].payload IN
    /\ hReq[c].step = "commit" /\ Respond(c) /\ UNCHANGED <<hLocal, hNow, hIds, hWindow, hInjected, hAgain, hExpired>>
    /\ \/ Keep(k, hRec[k].payload, TRUE) /\ (Success(k, p, hNow + TTL) \/ UNCHANGED hTold)
       \/ UNCHANGED <<hRec, hTold>>

(* The process stops and starts: requests and windows are gone. *)
HRestart ==
    /\ hReq' = [c \in Clients |-> NoRequest] /\ hLock' = "free" /\ hWindow' = NoWindow
    /\ UNCHANGED <<hLocal, hNow, hRec, hIds, hhist>>

(* An operator deletes the message from the local queue. *)
DeleteMessage(k) ==
    /\ hLocal /\ k \in hIds /\ hIds' = hIds \ {k}
    /\ UNCHANGED <<hLocal, hNow, hRec, hWindow, hReq, hLock, hhist>>

HTick ==
    /\ hNow < HMaxTime /\ hNow' = hNow + 1
    /\ UNCHANGED <<hLocal, hRec, hIds, hWindow, hReq, hLock, hhist>>

HNext ==
    \/ \E c \in Clients : \/ \E k \in HKeys, p \in Payloads : Request(c, k, p)
                          \/ lookup(c) \/ prepare(c) \/ Enqueue(c) \/ commit(c)
    \/ InvalidRequest \/ HRestart \/ HTick \/ \E k \in HKeys : DeleteMessage(k)

HSpec == HInit /\ [][HNext]_hvars
-----------------------------------------------------------------------------
(* While a success that a client was told (202 or 200) stands, for the TTL   *)
(* from the commit, every request with the key meets its committed record:   *)
(* the same payload is replayed, another is refused, and the message is not  *)
(* injected again, whatever failed or crashed before.  And unless a record   *)
(* of the key has expired, a success was told only for a payload that is in  *)
(* the queue.                                                                *)
InjectedOnce ==
    \A k \in HKeys :
        /\ hTold[k].until > hNow => /\ hRec[k] # NoRecord /\ hRec[k].committed
                                    /\ hRec[k].payload = hTold[k].payload /\ hRec[k].expires >= hTold[k].until
        /\ k \notin hAgain
        /\ hTold[k] # NotTold /\ k \notin hExpired => hTold[k].payload \in hInjected[k]
=============================================================================
