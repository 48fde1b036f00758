---------------------------- MODULE DeliveryPause ----------------------------
(***************************************************************************)
(* Pauses of delivery to a domain (deliverypause/), set and lifted by an    *)
(* operator over the administration API and set by the response throttle    *)
(* (worker/response_throttle.go) after enough temporary failures.  The      *)
(* pauses are in a local file with a copy in memory, or in Redis.           *)
(***************************************************************************)
EXTENDS Integers, Sequences, FiniteSets

CONSTANTS
    PDomains, PWorkers,
    PRules,                                 \* rules of the response throttle
    PThreshold, PWindow, PPause,            \* of each rule
    PMaxKeys,                               \* maxResponseThrottleKeys
    MaxEntries, MaxDuration,
    PMaxTime                                \* bound

VARIABLES
    pRedis, pDryRun,    \* configuration: the backend; dry_run of the throttle
    pNow,
    pEntries,           \* the pauses: Redis, or Local.entries
    pFile,              \* the local file
    pEvents,            \* responseThrottle.events by rule and domain: times
    pCall,              \* pCall[w]: what a worker that triggered a rule is about to put
    pTold,              \* history: the pause that the operator was last told of
    pRaced              \* history: a worker had looked the domain up before that pause

pvars == <<pRedis, pDryRun, pNow, pEntries, pFile, pEvents, pCall, pTold, pRaced>>

Free == [expires |-> 0, actor |-> "nobody"]
NoPut == [step |-> "none", domain |-> "none", expires |-> 0]
PauseOf(expires, actor) == [expires |-> expires, actor |-> actor]
NoEvents == [r \in PRules |-> [d \in PDomains |-> <<>>]]

PInit ==
    /\ pRedis \in BOOLEAN /\ pDryRun \in BOOLEAN /\ pNow = 0
    /\ pEntries = [d \in PDomains |-> Free] /\ pFile = pEntries
    /\ pEvents = NoEvents /\ pCall = [w \in PWorkers |-> NoPut]
    /\ pTold = [d \in PDomains |-> Free] /\ pRaced = {}

InForce(entries, d) == entries[d].expires > pNow
active(entries) == [d \in PDomains |-> IF InForce(entries, d) THEN entries[d] ELSE Free]

(* Lookup of both stores: an expired entry is no pause. *)
Lookup(d) == IF InForce(pEntries, d) THEN pEntries[d] ELSE Free

Validate(expires) == expires > pNow /\ expires <= pNow + MaxDuration

Within(next) == Cardinality({d \in PDomains : next[d] # Free}) <= MaxEntries

(* Local saves the file and then takes over the new map, in one step for     *)
(* every reader; when the file cannot be written nothing changes.  Redis     *)
(* runs one script; it may be executed although the caller gets an error.    *)
Stored(next, ok) ==
    \/ ok /\ pEntries' = next /\ pFile' = IF pRedis THEN pFile ELSE next
    \/ ~ok /\ UNCHANGED <<pEntries, pFile>>
    \/ ~ok /\ pRedis /\ pEntries' = next /\ UNCHANGED pFile

Put(d, e, ok) ==
    LET next == [active(pEntries) EXCEPT ![d] = e] IN
    IF ~Validate(e.expires) \/ ~Within(next)
    THEN ~ok /\ UNCHANGED <<pEntries, pFile>>
    ELSE Stored(next, ok)

(* Local.Remove saves only when there was a pause. *)
Remove(d, ok) ==
    IF ~pRedis /\ ~InForce(pEntries, d)
    THEN ok /\ UNCHANGED <<pEntries, pFile>>
    ELSE Stored([active(pEntries) EXCEPT ![d] = Free], ok)

Pending(d) == {w \in PWorkers : pCall[w].step = "put" /\ pCall[w].domain = d}
RacedAfterPut(d) == IF Pending(d) = {} THEN pRaced \ {d} ELSE pRaced \cup {d}

(* handleDeliveryPauses: POST; a dry run checks and changes nothing. *)
handleDeliveryPauses(d) ==
    /\ \E expires \in 1..(PMaxTime + 1), ok, dry \in BOOLEAN :
          LET e == PauseOf(expires, "operator") IN
          IF dry THEN UNCHANGED <<pEntries, pFile, pTold, pRaced>>
          ELSE /\ Validate(expires) /\ Put(d, e, ok)
               /\ pTold' = [pTold EXCEPT ![d] = IF ok THEN e ELSE IF pRedis THEN Free ELSE @]
               /\ pRaced' = IF ok THEN RacedAfterPut(d) ELSE pRaced
    /\ UNCHANGED <<pRedis, pDryRun, pNow, pEvents, pCall>>

handleDeliveryResume(d) ==
    /\ \E ok, dry \in BOOLEAN :
          IF dry THEN UNCHANGED <<pEntries, pFile, pTold>>
          ELSE Remove(d, ok) /\ pTold' = [pTold EXCEPT ![d] = IF ok \/ pRedis THEN Free ELSE @]
    /\ UNCHANGED <<pRedis, pDryRun, pNow, pEvents, pCall, pRaced>>

Keys == {k \in PRules \X PDomains : pEvents[k[1]][k[2]] # <<>>}

(* observe, under its lock: a temporary response of d counts for the first   *)
(* rule that it matches, within the window of the rule; without room for a   *)
(* new key it does not count.                                                *)
observe(w, r, d) ==
    /\ pCall[w] = NoPut
    /\ <<r, d>> \in Keys \/ Cardinality(Keys) < PMaxKeys
    /\ LET inWindow(at) == at > pNow - PWindow[r]
           values == Append(SelectSeq(pEvents[r][d], inWindow), pNow)
           triggered == Len(values) >= PThreshold[r] IN
       /\ pEvents' = [pEvents EXCEPT ![r][d] = IF triggered THEN <<>> ELSE values]
       /\ pCall' = IF triggered /\ ~pDryRun
                   THEN [pCall EXCEPT ![w] = [step |-> "lookup", domain |-> d, expires |-> pNow + PPause[r]]]
                   ELSE pCall
    /\ UNCHANGED <<pRedis, pDryRun, pNow, pEntries, pFile, pTold, pRaced>>

(* Mutant: an automatic pause is put whatever is in force. *)
observeLookupIgnored(w) == pCall' = [pCall EXCEPT ![w].step = "put"]

(* After the lock: an existing pause, or an error of Redis, ends the call. *)
observeLookup(w) ==
    \/ Lookup(pCall[w].domain) = Free /\ pCall' = [pCall EXCEPT ![w].step = "put"]
    \/ Lookup(pCall[w].domain) # Free /\ pCall' = [pCall EXCEPT ![w] = NoPut]
    \/ pRedis /\ pCall' = [pCall EXCEPT ![w] = NoPut]

ThrottleLooksUp(w) ==
    /\ pCall[w].step = "lookup" /\ observeLookup(w)
    /\ UNCHANGED <<pRedis, pDryRun, pNow, pEntries, pFile, pEvents, pTold, pRaced>>

ThrottlePuts(w) ==
    /\ pCall[w].step = "put"
    /\ \E ok \in BOOLEAN : Put(pCall[w].domain, PauseOf(pCall[w].expires, "auto"), ok)
    /\ pCall' = [pCall EXCEPT ![w] = NoPut]
    /\ UNCHANGED <<pRedis, pDryRun, pNow, pEvents, pTold, pRaced>>

(* A crash and a new start: NewLocal loads the file. *)
PRestart ==
    /\ pEntries' = IF pRedis THEN pEntries ELSE pFile
    /\ pEvents' = NoEvents /\ pCall' = [w \in PWorkers |-> NoPut]
    /\ UNCHANGED <<pRedis, pDryRun, pNow, pFile, pTold, pRaced>>

PTick ==
    /\ pNow < PMaxTime /\ pNow' = pNow + 1
    /\ UNCHANGED <<pRedis, pDryRun, pEntries, pFile, pEvents, pCall, pTold, pRaced>>

PNext ==
    \/ \E d \in PDomains : handleDeliveryPauses(d) \/ handleDeliveryResume(d)
    \/ \E w \in PWorkers : \/ \E r \in PRules, d \in PDomains : observe(w, r, d)
                           \/ ThrottleLooksUp(w) \/ ThrottlePuts(w)
    \/ PRestart \/ PTick

PSpec == PInit /\ [][PNext]_pvars
-----------------------------------------------------------------------------
(* A pause that the operator was told of is the one in force until it        *)
(* expires or is lifted, also after a new start, and the response throttle   *)
(* does not replace it; the exception is an automatic pause whose worker had *)
(* found the domain free before the operator's pause.  No more than          *)
(* MaxEntries pauses are in force.                                           *)
PauseStands ==
    /\ \A d \in PDomains \ pRaced : pTold[d].expires > pNow =>
          /\ Lookup(d) = pTold[d]
          /\ pRedis \/ pFile[d] = pTold[d]
    /\ Within(active(pEntries))
=============================================================================
