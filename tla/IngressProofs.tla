--------------------------- MODULE IngressProofs ----------------------------
(***************************************************************************)
(* Proofs about two ways into the server, HTTP injection and the          *)
(* connections of a listener, for any clients, keys, payloads, connections *)
(* and addresses and any limits.                                           *)
(***************************************************************************)
EXTENDS HTTPInjection, SMTPListener, FiniteSetTheorems, TLAPS

-----------------------------------------------------------------------------
(* HTTP injection.                                                           *)
KeptRecords == [state : {"kept"}, payload : Payloads, committed : BOOLEAN, expires : Nat]
Requests == [step : {"lookup", "prepare", "enqueue", "commit"}, key : HKeys, payload : Payloads]
Promises == [until : Nat, payload : Payloads]

HTypeOK ==
    /\ hNow \in Nat
    /\ hRec \in [HKeys -> KeptRecords \cup {NoRecord}]
    /\ hReq \in [Clients -> Requests \cup {NoRequest}]
    /\ hInjected \in [HKeys -> SUBSET Payloads]
    /\ hTold \in [HKeys -> Promises \cup {NotTold}]

Inside(c) == hReq[c].step \in {"prepare", "enqueue", "commit"}

(* A request past lookup holds the lock and meets no success that stands;    *)
(* what it writes is the payload that the record has, if there is one.       *)
InsideOK(c) ==
    LET k == hReq[c].key  p == hReq[c].payload IN
    /\ hLock = c /\ hTold[k].until <= hNow
    /\ hRec[k] # NoRecord => hRec[k].payload = p
    /\ hReq[c].step # "prepare" => hRec[k] # NoRecord
    /\ hReq[c].step = "commit" /\ k \notin hExpired => p \in hInjected[k]

(* Until a record of the key expires, only the payload of the record is in   *)
(* the queue, and it is there once the record is committed.                  *)
KeyOK(k) ==
    /\ k \in hIds => hInjected[k] # {}
    /\ k \notin hExpired /\ hInjected[k] # {} => hRec[k] # NoRecord /\ hInjected[k] \subseteq {hRec[k].payload}
    /\ k \notin hExpired /\ hRec[k] # NoRecord /\ hRec[k].committed => hRec[k].payload \in hInjected[k]

HInv ==
    /\ HTypeOK /\ hAgain = {} /\ InjectedOnce
    /\ \A c \in Clients : Inside(c) => InsideOK(c)
    /\ \A k \in HKeys : KeyOK(k)

LEMMA HInvInit == HInit => HInv
BY DEF HInit, HInv, HTypeOK, InjectedOnce, Inside, InsideOK, KeyOK, NoRequest, NoRecord, NotTold

(* The request of c goes on, or returns; no other one is past lookup. *)
Stepped(c, step) ==
    /\ hReq' \in [Clients -> Requests \cup {NoRequest}] /\ hLock' = c
    /\ hReq'[c].key = hReq[c].key /\ hReq'[c].payload = hReq[c].payload /\ hReq'[c].step = step
    /\ \A d \in Clients \ {c} : ~Inside(d)'
Responded == hReq' \in [Clients -> Requests \cup {NoRequest}] /\ \A d \in Clients : ~Inside(d)'

LEMMA AloneInside ==
    ASSUME HInv, NEW c \in Clients, Inside(c)
    PROVE  /\ hReq[c] \in Requests /\ hReq[c].key \in HKeys /\ hReq[c].payload \in Payloads /\ KeyOK(hReq[c].key)
           /\ InsideOK(c) /\ \A d \in Clients \ {c} : ~Inside(d)
<1>1. hReq[c] \in Requests
  BY DEF HInv, HTypeOK, Inside, NoRequest
<1>2. hReq[c].key \in HKeys /\ hReq[c].payload \in Payloads
  BY <1>1 DEF Requests
<1>3. InsideOK(c) /\ \A d \in Clients : Inside(d) => hLock = d
  BY DEF HInv, InsideOK
<1>4. hLock = c
  BY <1>3 DEF InsideOK
<1> QED BY <1>1, <1>2, <1>3, <1>4 DEF HInv

LEMMA StepTaken ==
    ASSUME HTypeOK, NEW c \in Clients, hReq[c] \in Requests, \A d \in Clients \ {c} : ~Inside(d),
           NEW step \in {"prepare", "enqueue", "commit"}, Step(c, step)
    PROVE  Stepped(c, step)
<1>1. hReq'[c] = [hReq[c] EXCEPT !.step = step] /\ \A d \in Clients \ {c} : hReq'[d] = hReq[d]
  BY DEF HTypeOK, Step
<1>2. /\ hReq'[c] \in Requests /\ hReq'[c].step = step
      /\ hReq'[c].key = hReq[c].key /\ hReq'[c].payload = hReq[c].payload
  BY <1>1 DEF Requests
<1> QED BY <1>1, <1>2 DEF HTypeOK, Step, Inside, Stepped

LEMMA HandlerReturned ==
    ASSUME HTypeOK, NEW c \in Clients, \A d \in Clients \ {c} : ~Inside(d), Respond(c)
    PROVE  Responded
BY DEF HTypeOK, Respond, Inside, NoRequest, Responded

LEMMA HInvStep == HInv /\ [HNext]_hvars => HInv'
<1> SUFFICES ASSUME HInv, [HNext]_hvars PROVE HInv'
  OBVIOUS
<1>0. TTL \in Nat /\ "free" \notin Clients
  BY HTTPAssumption
<1>1. ASSUME NEW c \in Clients, NEW k \in HKeys, NEW p \in Payloads, Request(c, k, p) PROVE HInv'
  BY <1>1 DEF HInv, HTypeOK, Request, hhist, InjectedOnce, Inside, InsideOK, KeyOK, Requests, NoRequest
<1>2. ASSUME NEW c \in Clients, lookup(c) PROVE HInv'
  <2> DEFINE k == hReq[c].key
             p == hReq[c].payload
  <2>0. hReq[c] \in Requests
    BY <1>2 DEF HInv, HTypeOK, NoRequest, lookup
  <2>1. /\ k \in HKeys /\ p \in Payloads /\ KeyOK(k)
        /\ \A d \in Clients : ~Inside(d)
    <3>1. k \in HKeys /\ p \in Payloads
      BY <2>0 DEF Requests
    <3>2. hLock = "free"
      BY <1>2 DEF lookup
    <3> QED BY <1>0, <3>1, <3>2 DEF HInv, InsideOK
  <2>2. hNow' = hNow /\ hIds' = hIds /\ hInjected' = hInjected /\ hAgain' = hAgain
    BY <1>2 DEF lookup
  <2>3. CASE Respond(c) /\ UNCHANGED <<hRec, hTold, hExpired>>
    BY <2>1, <2>2, <2>3 DEF HInv, HTypeOK, Respond, InjectedOnce, Inside, InsideOK, KeyOK, NoRequest
  <2>4. CASE KeyFound(k) /\ ~reused(k, p) /\ hRec[k].committed /\ UNCHANGED <<hRec, hExpired>>
             /\ Respond(c) /\ Success(k, p, hRec[k].expires)
    <3>1. hRec[k] \in KeptRecords /\ hRec[k].payload = p /\ hRec[k].expires \in Nat
      BY <2>1, <2>4 DEF HInv, HTypeOK, KeyFound, reused, KeptRecords
    <3>2. HTypeOK'
      BY <2>1, <2>2, <2>4, <3>1 DEF HInv, HTypeOK, Respond, Success, Promises
    <3>3. InjectedOnce'
      <4>1. hTold'[k] = [until |-> hRec[k].expires, payload |-> p] /\ \A j \in HKeys \ {k} : hTold'[j] = hTold[j]
        BY <2>1, <2>4 DEF HInv, HTypeOK, Success
      <4>2. k \notin hExpired => p \in hInjected[k]
        BY <2>1, <2>4, <3>1 DEF KeyOK, KeyFound
      <4>3. hRec[k] # NoRecord
        BY <2>4 DEF KeyFound
      <4> QED BY <2>2, <2>4, <3>1, <4>1, <4>2, <4>3 DEF HInv, InjectedOnce
    <3>4. \A d \in Clients : ~Inside(d)'
      BY <2>1, <2>4 DEF HInv, HTypeOK, Respond, Inside, NoRequest
    <3>5. \A j \in HKeys : KeyOK(j)'
      BY <2>2, <2>4 DEF HInv, KeyOK
    <3> QED BY <2>2, <3>2, <3>3, <3>4, <3>5 DEF HInv
  <2>5. CASE /\ Step(c, "prepare") /\ UNCHANGED hTold /\ hTold[k].until <= hNow
             /\ hRec[k] # NoRecord /\ hRec[k].payload = p /\ UNCHANGED <<hRec, hExpired>>
    <3>1. Stepped(c, "prepare")
      BY <2>0, <2>1, <2>5, StepTaken DEF HInv
    <3>2. \A d \in Clients : Inside(d)' => InsideOK(d)'
      BY <2>2, <2>5, <3>1 DEF Stepped, InsideOK
    <3>3. HTypeOK' /\ InjectedOnce' /\ \A j \in HKeys : KeyOK(j)'
      BY <2>2, <2>5, <3>1 DEF HInv, HTypeOK, InjectedOnce, KeyOK, Stepped
    <3> QED BY <2>2, <3>2, <3>3 DEF HInv
  <2>6. CASE /\ Step(c, "prepare") /\ UNCHANGED hTold /\ ~KeyFound(k) /\ hRec' = [hRec EXCEPT ![k] = NoRecord]
             /\ hExpired' = IF hRec[k] = NoRecord THEN hExpired ELSE hExpired \cup {k}
    <3>1. Stepped(c, "prepare")
      BY <2>0, <2>1, <2>6, StepTaken DEF HInv
    <3>2. hRec' \in [HKeys -> KeptRecords \cup {NoRecord}] /\ hRec'[k] = NoRecord /\ \A j \in HKeys \ {k} : hRec'[j] = hRec[j]
      BY <2>1, <2>6 DEF HInv, HTypeOK
    <3>3. hTold[k].until <= hNow
      BY <2>1, <2>6 DEF HInv, HTypeOK, InjectedOnce, KeyFound, Promises, NotTold, KeptRecords
    <3>4. \A d \in Clients : Inside(d)' => InsideOK(d)'
      BY <2>2, <2>6, <3>1, <3>2, <3>3 DEF Stepped, InsideOK
    <3>5. HTypeOK' /\ InjectedOnce'
      BY <2>1, <2>2, <2>6, <3>1, <3>2, <3>3 DEF HInv, HTypeOK, InjectedOnce, Promises, NotTold, Stepped
    <3>6. \A j \in HKeys : KeyOK(j)'
      BY <2>1, <2>2, <2>6, <3>2 DEF HInv, KeyOK
    <3> QED BY <2>2, <3>4, <3>5, <3>6 DEF HInv
  <2>7. KeyFound(k) /\ ~hRec[k].committed => hRec[k] # NoRecord /\ hTold[k].until <= hNow
    BY <2>1 DEF HInv, HTypeOK, InjectedOnce, KeyFound, Promises, NotTold
  <2> QED BY <1>2, <2>3, <2>4, <2>5, <2>6, <2>7 DEF lookup, reused
<1>3. ASSUME NEW c \in Clients, prepare(c) PROVE HInv'
  <2> DEFINE k == hReq[c].key
             p == hReq[c].payload
  <2>0. Inside(c)
    BY <1>3 DEF prepare, Inside
  <2>1. hReq[c] \in Requests /\ k \in HKeys /\ p \in Payloads /\ KeyOK(k)
    BY <2>0, AloneInside
  <2>2. InsideOK(c) /\ \A d \in Clients \ {c} : ~Inside(d)
    BY <2>0, AloneInside
  <2>3. Respond(c) => Responded
    BY <2>2, HandlerReturned DEF HInv
  <2>4. Step(c, "enqueue") => Stepped(c, "enqueue")
    BY <2>1, <2>2, StepTaken DEF HInv
  <2>5. UNCHANGED <<hNow, hIds, hInjected, hTold, hAgain, hExpired>>
    BY <1>3 DEF prepare, hhist
  <2>6. CASE Keep(k, p, FALSE)
    <3>1. /\ hRec'[k] \in KeptRecords /\ hRec'[k].payload = p /\ hRec'[k].committed = FALSE /\ hRec'[k] # NoRecord
          /\ \A j \in HKeys \ {k} : hRec'[j] = hRec[j]
          /\ hRec' \in [HKeys -> KeptRecords \cup {NoRecord}]
      <4> DEFINE rec == [state |-> "kept", payload |-> p, committed |-> FALSE, expires |-> hNow + TTL]
      <4>1. rec \in KeptRecords /\ rec # NoRecord
        <5>1. hNow + TTL \in Nat
          BY <1>0 DEF HInv, HTypeOK
        <5>2. rec \in KeptRecords
          BY <2>1, <5>1 DEF KeptRecords
        <5> QED BY <5>2 DEF KeptRecords, NoRecord
      <4>2. hRec' = [hRec EXCEPT ![k] = rec]
        BY <2>6 DEF Keep
      <4>3. rec.payload = p /\ rec.committed = FALSE
        OBVIOUS
      <4> HIDE DEF rec
      <4> QED BY <2>1, <4>1, <4>2, <4>3 DEF HInv, HTypeOK
    <3>2. HTypeOK'
      BY ZenonT(40), <1>3, <2>3, <2>4, <2>5, <3>1 DEF HInv, HTypeOK, prepare, Stepped, Responded
    <3>3. InjectedOnce'
      BY <2>2, <2>5, <3>1 DEF HInv, HTypeOK, InjectedOnce, InsideOK, Promises, NotTold
    <3>4. \A j \in HKeys : KeyOK(j)'
      BY ZenonT(40), <2>1, <2>2, <2>5, <3>1 DEF HInv, KeyOK, InsideOK
    <3>5. \A d \in Clients : Inside(d)' => InsideOK(d)'
      BY ZenonT(40), <1>3, <2>2, <2>3, <2>4, <2>5, <3>1 DEF prepare, InsideOK, Stepped, Responded
    <3> QED BY <2>5, <3>2, <3>3, <3>4, <3>5 DEF HInv
  <2>7. CASE UNCHANGED hRec /\ Respond(c)
    BY ZenonT(40), <2>3, <2>5, <2>7 DEF HInv, HTypeOK, InjectedOnce, KeyOK, Responded
  <2> QED BY ZenonT(40), <1>3, <2>6, <2>7 DEF prepare
<1>4. ASSUME NEW c \in Clients, Enqueue(c) PROVE HInv'
  <2> DEFINE k == hReq[c].key
             p == hReq[c].payload
  <2>0. Inside(c)
    BY <1>4 DEF Enqueue, Inside
  <2>1. hReq[c] \in Requests /\ k \in HKeys /\ p \in Payloads /\ KeyOK(k)
    BY <2>0, AloneInside
  <2>2. InsideOK(c) /\ \A d \in Clients \ {c} : ~Inside(d)
    BY <2>0, AloneInside
  <2>3. Respond(c) => Responded
    BY <2>2, HandlerReturned DEF HInv
  <2>4. Step(c, "commit") => Stepped(c, "commit")
    BY <2>1, <2>2, StepTaken DEF HInv
  <2>5. UNCHANGED <<hNow, hRec, hTold, hExpired>> /\ hReq[c].step = "enqueue"
    BY <1>4 DEF Enqueue
  <2>6. hReq' \in [Clients -> Requests \cup {NoRequest}]
    BY <1>4, <2>3, <2>4 DEF Enqueue, Stepped, Responded
  <2>7. /\ hRec[k] # NoRecord /\ hRec[k].payload = p /\ ~(hTold[k].until > hNow)
    BY <2>1, <2>2, <2>5 DEF HInv, HTypeOK, InsideOK, Promises, NotTold
  <2>8. CASE UNCHANGED <<hInjected, hIds, hAgain>> /\ (Respond(c) \/ (Step(c, "commit") /\ k \in hIds))
    <3>1. \A d \in Clients : Inside(d)' => InsideOK(d)'
      BY ZenonT(40), <2>1, <2>2, <2>3, <2>4, <2>5, <2>7, <2>8 DEF InsideOK, KeyOK, Stepped, Responded
    <3> QED BY ZenonT(40), <2>5, <2>6, <2>8, <3>1 DEF HInv, HTypeOK, InjectedOnce, KeyOK
  <2>9. CASE /\ hInjected' = [hInjected EXCEPT ![k] = @ \cup {p}] /\ hIds' = hIds \cup {k}
             /\ hAgain' = IF hTold[k].until > hNow THEN hAgain \cup {k} ELSE hAgain
             /\ Respond(c) \/ Step(c, "commit")
    <3>1. /\ hInjected' \in [HKeys -> SUBSET Payloads] /\ hInjected'[k] = hInjected[k] \cup {p}
          /\ \A j \in HKeys \ {k} : hInjected'[j] = hInjected[j]
      BY <2>1, <2>9 DEF HInv, HTypeOK
    <3>2. hAgain' = hAgain
      BY <2>7, <2>9
    <3>3. \A d \in Clients : Inside(d)' => InsideOK(d)'
      BY ZenonT(40), <2>2, <2>3, <2>4, <2>5, <2>7, <2>9, <3>1 DEF InsideOK, Stepped, Responded
    <3>4. \A j \in HKeys : KeyOK(j)'
      BY ZenonT(40), <2>1, <2>5, <2>7, <2>9, <3>1 DEF HInv, KeyOK
    <3> QED BY ZenonT(40), <2>5, <2>6, <3>1, <3>2, <3>3, <3>4 DEF HInv, HTypeOK, InjectedOnce
  <2> QED BY ZenonT(40), <1>4, <2>8, <2>9 DEF Enqueue
<1>5. ASSUME NEW c \in Clients, commit(c) PROVE HInv'
  <2> DEFINE k == hReq[c].key
             p == hReq[c].payload
  <2>0. Inside(c)
    BY <1>5 DEF commit, Inside
  <2>1. hReq[c] \in Requests /\ k \in HKeys /\ p \in Payloads /\ KeyOK(k)
    BY <2>0, AloneInside
  <2>2. InsideOK(c) /\ \A d \in Clients \ {c} : ~Inside(d)
    BY <2>0, AloneInside
  <2>3. Respond(c) => Responded
    BY <2>2, HandlerReturned DEF HInv
  <2>4. UNCHANGED <<hNow, hIds, hInjected, hAgain, hExpired>> /\ Respond(c) /\ hReq[c].step = "commit"
    BY <1>5 DEF commit
  <2>5. CASE UNCHANGED <<hRec, hTold>>
    BY <2>3, <2>4, <2>5 DEF HInv, HTypeOK, InjectedOnce, KeyOK, Responded
  <2>6. CASE Keep(k, hRec[k].payload, TRUE) /\ (Success(k, p, hNow + TTL) \/ UNCHANGED hTold)
    <3>1. /\ hRec'[k].payload = p /\ hRec'[k].committed = TRUE /\ hRec'[k].expires = hNow + TTL /\ hRec'[k] # NoRecord
          /\ \A j \in HKeys \ {k} : hRec'[j] = hRec[j]
          /\ hRec' \in [HKeys -> KeptRecords \cup {NoRecord}]
      <4>1. hRec[k].payload = p
        BY ZenonT(40), <2>2, <2>4 DEF InsideOK
      <4> DEFINE rec == [state |-> "kept", payload |-> p, committed |-> TRUE, expires |-> hNow + TTL]
      <4>2. rec \in KeptRecords /\ rec # NoRecord
        <5>1. hNow + TTL \in Nat
          BY <1>0 DEF HInv, HTypeOK
        <5>2. rec \in KeptRecords
          BY <2>1, <5>1 DEF KeptRecords
        <5> QED BY ZenonT(40), <5>2 DEF KeptRecords, NoRecord
      <4>3. hRec' = [hRec EXCEPT ![k] = rec]
        BY <2>6, <4>1 DEF Keep
      <4>4. rec.payload = p /\ rec.committed = TRUE /\ rec.expires = hNow + TTL
        OBVIOUS
      <4> HIDE DEF rec
      <4> QED BY ZenonT(40), <2>1, <4>2, <4>3, <4>4 DEF HInv, HTypeOK
    <3>2. /\ hTold' \in [HKeys -> Promises \cup {NotTold}] /\ \A j \in HKeys \ {k} : hTold'[j] = hTold[j]
          /\ hTold'[k] = hTold[k] \/ hTold'[k] = [until |-> hNow + TTL, payload |-> p]
      <4>1. [until |-> hNow + TTL, payload |-> p] \in Promises
        BY <1>0, <2>1 DEF HInv, HTypeOK, Promises
      <4> QED BY <2>1, <2>6, <4>1 DEF HInv, HTypeOK, Success
    <3>3. k \notin hExpired => p \in hInjected[k]
      BY <2>2, <2>4 DEF InsideOK
    <3>4. HTypeOK'
      BY ZenonT(40), <2>3, <2>4, <3>1, <3>2 DEF HInv, HTypeOK, Responded
    <3>5. InjectedOnce'
      <4>1. ASSUME NEW j \in HKeys \ {k}
            PROVE  hRec'[j] = hRec[j] /\ hTold'[j] = hTold[j]
        BY <3>1, <3>2
      <4>2. hTold'[k].until > hNow => hTold'[k].until = hNow + TTL /\ hTold'[k].payload = p
        <5>1. hTold[k].until \in Nat /\ hNow \in Nat /\ hTold[k].until <= hNow
          BY <2>1, <2>2 DEF InsideOK, HInv, HTypeOK, Promises, NotTold
        <5>2. ~(hTold[k].until > hNow)
          BY <5>1
        <5> QED BY <3>2, <5>2
      <4>3. hTold'[k] # NotTold /\ k \notin hExpired => hTold'[k].payload \in hInjected[k]
        BY <2>1, <3>2, <3>3 DEF HInv, InjectedOnce
      <4>4. hNow + TTL >= hNow + TTL
        BY <1>0 DEF HInv, HTypeOK
      <4> QED BY <2>4, <3>1, <4>1, <4>2, <4>3, <4>4 DEF HInv, InjectedOnce
    <3>6. \A j \in HKeys : KeyOK(j)'
      BY ZenonT(40), <2>1, <2>2, <2>4, <3>1, <3>3 DEF HInv, KeyOK, InsideOK
    <3> QED BY ZenonT(40), <2>3, <2>4, <3>4, <3>5, <3>6 DEF HInv, Responded
  <2> QED BY ZenonT(40), <1>5, <2>5, <2>6 DEF commit
<1>6. ASSUME InvalidRequest \/ HRestart \/ HTick \/ UNCHANGED hvars PROVE HInv'
  <2>1. CASE InvalidRequest \/ UNCHANGED hvars
    BY ZenonT(40), <2>1 DEF InvalidRequest, hvars, hhist, HInv, HTypeOK, InjectedOnce, Inside, InsideOK, KeyOK
  <2>2. CASE HRestart
    BY ZenonT(40), <2>2 DEF HRestart, hhist, HInv, HTypeOK, InjectedOnce, Inside, InsideOK, KeyOK, NoRequest
  <2>3. CASE HTick
    <3>1. hNow' = hNow + 1 /\ UNCHANGED <<hRec, hIds, hReq, hLock, hInjected, hTold, hAgain, hExpired>>
      BY <2>3 DEF HTick, hhist
    <3>2. hNow \in Nat /\ \A k \in HKeys : hTold[k].until \in Nat
      BY DEF HInv, HTypeOK, Promises, NotTold
    <3>3. HTypeOK' /\ \A k \in HKeys : KeyOK(k)'
      BY <3>1, <3>2 DEF HInv, HTypeOK, KeyOK
    <3>4. \A k \in HKeys : hTold[k].until > hNow' => hTold[k].until > hNow
      BY <3>1, <3>2
    <3>5. InjectedOnce'
      BY <3>1, <3>4 DEF HInv, InjectedOnce
    <3>6. ASSUME NEW c \in Clients, Inside(c)' PROVE InsideOK(c)'
      <4>1. Inside(c)
        BY <3>1, <3>6 DEF Inside
      <4>2. InsideOK(c) /\ hReq[c].key \in HKeys
        BY <4>1, AloneInside
      <4>3. hTold[hReq[c].key].until <= hNow'
        BY <3>1, <3>2, <4>2 DEF InsideOK
      <4> QED BY <3>1, <4>2, <4>3 DEF InsideOK
    <3> QED BY <3>1, <3>3, <3>5, <3>6 DEF HInv
  <2> QED BY <1>6, <2>1, <2>2, <2>3
<1>7. ASSUME NEW k \in HKeys, DeleteMessage(k) PROVE HInv'
  BY ZenonT(40), <1>7 DEF HInv, HTypeOK, DeleteMessage, hhist, InjectedOnce, Inside, InsideOK, KeyOK
<1> QED BY <1>1, <1>2, <1>3, <1>4, <1>5, <1>6, <1>7 DEF HNext

(* While a success told to a client stands, the key injects nothing more,    *)
(* and unless a record of the key expired the message is in the queue: for   *)
(* all clients, keys and payloads, any TTL, and any failures and crashes.    *)
THEOREM HTTPInjectedOnce == HSpec => []InjectedOnce
<1>1. HInv => InjectedOnce
  BY DEF HInv
<1> QED BY <1>1, HInvInit, HInvStep, PTL DEF HSpec

-----------------------------------------------------------------------------
(* The connections of a listener. *)
Bit(b) == IF b THEN 1 ELSE 0

(* The number of elements of two finite sets that differ in one at most. *)
LEMMA DifferInOne ==
    ASSUME NEW S, NEW T, NEW x, IsFiniteSet(S), IsFiniteSet(T), T \ {x} = S \ {x}
    PROVE  /\ Cardinality(S) \in Nat /\ Cardinality(T) \in Nat
           /\ Cardinality(T) = Cardinality(S) + Bit(x \in T) - Bit(x \in S)
<1>1. Cardinality(S) \in Nat /\ Cardinality(T) \in Nat
  BY FS_CardinalityType
<1>2. Cardinality(S \ {x}) = IF x \in S THEN Cardinality(S) - 1 ELSE Cardinality(S)
  BY FS_RemoveElement
<1>3. Cardinality(T \ {x}) = IF x \in T THEN Cardinality(T) - 1 ELSE Cardinality(T)
  BY FS_RemoveElement
<1> QED BY <1>1, <1>2, <1>3 DEF Bit

Running == {c \in Conns : phase[c] # "none"}
Of(i) == {c \in Conns : phase[c] \in Admitted /\ ip[c] = i}

Phases == {"none", "started", "ending"} \cup Admitted
CTypeOK ==
    /\ phase \in [Conns -> Phases] /\ ip \in [Conns -> IPs \cup {Nowhere}]
    /\ peer \in [Conns -> IPs \cup {Nowhere}]
    /\ connections \in Nat /\ connectionsPerIP \in [IPs -> Nat]

(* Every goroutine past admission holds the slot of an address. *)
CInv ==
    /\ CTypeOK /\ ConnectionsCounted
    /\ \A c \in Conns : phase[c] \in Admitted => ip[c] \in IPs
    /\ run = "returned" => \A c \in Conns : phase[c] = "none"

LEMMA RunningFinite == IsFiniteSet(Running) /\ \A i \in IPs : IsFiniteSet(Of(i))
BY ListenerAssumption, FS_Subset DEF Running, Of

LEMMA CInvInit == CInit => CInv
<1> SUFFICES ASSUME CInit PROVE CInv
  OBVIOUS
<1>1. {c \in Conns : phase[c] # "none"} = {}
      /\ \A i \in IPs : {c \in Conns : phase[c] \in Admitted /\ ip[c] = i} = {}
  BY DEF CInit, Admitted
<1>2. ConnectionsCounted
  BY <1>1, FS_EmptySet, ListenerAssumption DEF CInit, ConnectionsCounted
<1> QED BY <1>2 DEF CInit, CInv, CTypeOK, Phases, Admitted

(* The step of one goroutine changes the counters as its phase changes. *)
Moves(c) ==
    /\ run' = run /\ \A d \in Conns \ {c} : phase'[d] = phase[d] /\ ip'[d] = ip[d]
    /\ phase'[c] \in Admitted => ip'[c] \in IPs
    /\ run = "returned" => phase'[c] = "none"
    /\ connections' = connections + Bit(phase'[c] # "none") - Bit(phase[c] # "none")
    /\ connections' <= MaxConnections
    /\ \A i \in IPs :
          /\ connectionsPerIP'[i] = connectionsPerIP[i] + Bit(phase'[c] \in Admitted /\ ip'[c] = i)
                                                        - Bit(phase[c] \in Admitted /\ ip[c] = i)
          /\ connectionsPerIP'[i] <= MaxConnectionsPerIP

LEMMA OneGoroutine ==
    ASSUME CInv, CTypeOK', NEW c \in Conns, Moves(c)
    PROVE  CInv'
<1>1. connections' = Cardinality(Running')
  <2>1. Running' \ {c} = Running \ {c} /\ (c \in Running <=> phase[c] # "none") /\ (c \in Running' <=> phase'[c] # "none")
    BY DEF Running, Moves
  <2>2. IsFiniteSet(Running) /\ IsFiniteSet(Running')
    BY ListenerAssumption, FS_Subset DEF Running
  <2>3. Cardinality(Running') = Cardinality(Running) + Bit(c \in Running') - Bit(c \in Running)
    BY <2>1, <2>2, DifferInOne
  <2>4. connections = Cardinality(Running)
    BY DEF CInv, ConnectionsCounted, Running
  <2> QED BY ZenonT(40), <2>1, <2>3, <2>4 DEF Bit, Moves
<1>2. ASSUME NEW i \in IPs PROVE connectionsPerIP'[i] = Cardinality(Of(i)')
  <2>1. /\ Of(i)' \ {c} = Of(i) \ {c} /\ (c \in Of(i) <=> phase[c] \in Admitted /\ ip[c] = i)
        /\ (c \in Of(i)' <=> phase'[c] \in Admitted /\ ip'[c] = i)
    <3>1. \A d \in Conns \ {c} : phase'[d] = phase[d] /\ ip'[d] = ip[d]
      BY DEF Moves
    <3>2. \A d \in Conns \ {c} : d \in Of(i)' <=> d \in Of(i)
      BY <3>1 DEF Of
    <3>3. Of(i) \subseteq Conns /\ Of(i)' \subseteq Conns
      BY DEF Of
    <3>4. Of(i)' \ {c} = Of(i) \ {c}
      BY <3>2, <3>3
    <3>5. (c \in Of(i) <=> phase[c] \in Admitted /\ ip[c] = i) /\ (c \in Of(i)' <=> phase'[c] \in Admitted /\ ip'[c] = i)
      BY DEF Of
    <3> QED BY <3>4, <3>5
  <2>2. IsFiniteSet(Of(i)) /\ IsFiniteSet(Of(i)')
    BY ZenonT(40), ListenerAssumption, FS_Subset DEF Of
  <2>3. Cardinality(Of(i)') = Cardinality(Of(i)) + Bit(c \in Of(i)') - Bit(c \in Of(i))
    BY <2>1, <2>2, DifferInOne
  <2>4. connectionsPerIP[i] = Cardinality(Of(i))
    BY DEF CInv, ConnectionsCounted, Of
  <2> QED BY ZenonT(40), <2>1, <2>3, <2>4 DEF Bit, Moves
<1>3. run' = "returned" => \A d \in Conns : phase'[d] = "none"
  BY DEF CInv, Moves
<1>4. run' = "returned" => connections' = 0
  BY <1>3 DEF CInv, ConnectionsCounted, Bit, Moves
<1>5. ConnectionsCounted'
  BY <1>1, <1>2, <1>4 DEF ConnectionsCounted, Running, Of, Moves
<1> QED BY <1>3, <1>5 DEF CInv, Moves

LEMMA NotNone ==
    ASSUME NEW S, IsFiniteSet(S), NEW x \in S
    PROVE  Cardinality(S) \in Nat \ {0}
BY FS_CardinalityType, FS_EmptySet

LEMMA CInvStep == CInv /\ [CNext]_cvars => CInv'
<1> SUFFICES ASSUME CInv, [CNext]_cvars PROVE CInv'
  OBVIOUS
<1> USE ListenerAssumption DEF Phases, Admitted
<1>0. /\ CTypeOK /\ connections <= MaxConnections /\ (run = "returned" => \A c \in Conns : phase[c] = "none")
      /\ \A i \in IPs : connectionsPerIP[i] <= MaxConnectionsPerIP
      /\ \A c \in Conns : phase[c] \in Admitted => ip[c] \in IPs
  BY ZenonT(40) DEF CInv, ConnectionsCounted
<1>1. ASSUME NEW c \in Conns, NEW p \in IPs, Accept(c, p) PROVE CInv'
  <2>1. CTypeOK' /\ phase'[c] = "started" /\ UNCHANGED <<ip, connectionsPerIP, run>>
        /\ \A d \in Conns \ {c} : phase'[d] = phase[d]
    BY <1>0, <1>1 DEF CTypeOK, Accept
  <2>3. Moves(c)
    BY <1>0, <1>1, <2>1 DEF CTypeOK, Moves, Bit, Accept
  <2> QED BY <2>1, <2>3, OneGoroutine
<1>2. ASSUME NEW c \in Conns, NEW i \in IPs, acquireConnection(c, i) PROVE CInv'
  <2>1. CASE connectionsPerIP[i] < MaxConnectionsPerIP
    <3>1. /\ CTypeOK' /\ phase'[c] \in Admitted /\ ip'[c] = i /\ UNCHANGED <<connections, run>>
          /\ \A d \in Conns \ {c} : phase'[d] = phase[d] /\ ip'[d] = ip[d]
          /\ connectionsPerIP'[i] = connectionsPerIP[i] + 1
          /\ \A j \in IPs \ {i} : connectionsPerIP'[j] = connectionsPerIP[j]
      BY <1>0, <1>2, <2>1 DEF CTypeOK, acquireConnection, AfterAdmission
    <3>2. Moves(c)
      BY <1>0, <1>2, <2>1, <3>1 DEF CTypeOK, Moves, Bit, acquireConnection
    <3> QED BY <3>1, <3>2, OneGoroutine
  <2>2. CASE ~(connectionsPerIP[i] < MaxConnectionsPerIP)
    <3>1. /\ CTypeOK' /\ phase'[c] = "ending" /\ UNCHANGED <<ip, connections, connectionsPerIP, run>>
          /\ \A d \in Conns \ {c} : phase'[d] = phase[d]
      BY <1>0, <1>2, <2>2 DEF CTypeOK, acquireConnection
    <3>2. Moves(c)
      BY <1>0, <1>2, <3>1 DEF CTypeOK, Moves, Bit, acquireConnection
    <3> QED BY <3>1, <3>2, OneGoroutine
  <2> QED BY <2>1, <2>2
<1>3. ASSUME NEW c \in Conns, ProxyRefused(c) \/ Advance(c) PROVE CInv'
  <2>1. /\ CTypeOK' /\ phase'[c] # "none" /\ phase[c] # "none" /\ (phase'[c] \in Admitted <=> phase[c] \in Admitted)
        /\ UNCHANGED <<ip, connections, connectionsPerIP, run>> /\ \A d \in Conns \ {c} : phase'[d] = phase[d]
    BY <1>0, <1>3 DEF CTypeOK, ProxyRefused, Advance
  <2>3. Moves(c)
    BY <1>0, <2>1 DEF CTypeOK, Moves, Bit
  <2> QED BY <2>1, <2>3, OneGoroutine
<1>4. ASSUME NEW c \in Conns, releaseConnection(c) PROVE CInv'
  <2>1. connectionsPerIP[ip[c]] \in Nat \ {0} /\ ip[c] \in IPs
    <3>1. ip[c] \in IPs /\ c \in Of(ip[c])
      BY ZenonT(40), <1>0, <1>4 DEF releaseConnection, Of
    <3>2. Cardinality(Of(ip[c])) \in Nat \ {0}
      BY <3>1, RunningFinite, NotNone
    <3> QED BY <3>1, <3>2 DEF CInv, ConnectionsCounted, Of
  <2>2. /\ CTypeOK' /\ phase'[c] = "ending" /\ UNCHANGED <<connections, run>>
        /\ \A d \in Conns \ {c} : phase'[d] = phase[d] /\ ip'[d] = ip[d]
        /\ connectionsPerIP'[ip[c]] = connectionsPerIP[ip[c]] - 1
        /\ \A j \in IPs \ {ip[c]} : connectionsPerIP'[j] = connectionsPerIP[j]
    BY <1>0, <1>4, <2>1 DEF CTypeOK, releaseConnection
  <2>3. Moves(c)
    BY <1>0, <1>4, <2>1, <2>2 DEF CTypeOK, Moves, Bit, releaseConnection
  <2> QED BY <2>2, <2>3, OneGoroutine
<1>5. ASSUME NEW c \in Conns, Finish(c) PROVE CInv'
  <2>1. connections \in Nat \ {0}
    <3>1. c \in Running
      BY <1>5 DEF Finish, Running
    <3>2. Cardinality(Running) \in Nat \ {0}
      BY <3>1, RunningFinite, NotNone
    <3> QED BY <3>2 DEF CInv, ConnectionsCounted, Running
  <2>2. /\ CTypeOK' /\ phase'[c] = "none" /\ UNCHANGED <<ip, connectionsPerIP, run>> /\ connections' = connections - 1
        /\ \A d \in Conns \ {c} : phase'[d] = phase[d]
    BY <1>0, <1>5, <2>1 DEF CTypeOK, Finish
  <2>3. Moves(c)
    BY <1>0, <1>5, <2>1, <2>2 DEF CTypeOK, Moves, Bit, Finish
  <2> QED BY <2>2, <2>3, OneGoroutine
<1>6. ASSUME Cancel \/ ListenerClosed \/ Return \/ Restart,
             UNCHANGED <<config, phase, peer, ip, connections, connectionsPerIP>> PROVE CInv'
  <2>1. run' = "returned" => connections = 0 /\ \A c \in Conns : phase[c] = "none"
    <3>1. run' = "returned" => \A c \in Conns : phase[c] = "none"
      BY <1>6 DEF Cancel, ListenerClosed, Return, Restart
    <3>2. (\A c \in Conns : phase[c] = "none") => Running = {}
      BY DEF Running
    <3> QED BY ZenonT(40), <3>1, <3>2, FS_EmptySet DEF CInv, ConnectionsCounted, Running
  <2> QED BY <1>0, <1>6, <2>1 DEF CInv, CTypeOK, ConnectionsCounted
<1>7. ASSUME UNCHANGED cvars PROVE CInv'
  BY <1>7 DEF cvars, CInv, CTypeOK, ConnectionsCounted
<1> QED BY <1>1, <1>2, <1>3, <1>4, <1>5, <1>6, <1>7 DEF CNext

(* Every handler gives back exactly the slots it took, on every way out, and *)
(* no limit is passed: for any connections, addresses and limits.            *)
THEOREM ListenerCounts == CSpec => []ConnectionsCounted
<1>1. CInv => ConnectionsCounted
  BY DEF CInv
<1> QED BY <1>1, CInvInit, CInvStep, PTL DEF CSpec
=============================================================================
