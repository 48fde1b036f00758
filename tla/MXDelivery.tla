----------------------------- MODULE MXDelivery -----------------------------
(***************************************************************************)
(* One recipient's delivery by the SMTP client (delivery/smtp_client.go):   *)
(* Deliver in mode mx, the TLS policy of deliverByMX, the loop over the MX  *)
(* hosts, the shaping lease and the session of deliverHost, the dialogue of *)
(* deliverTransaction, and what the call reports to the delivery worker.    *)
(* The receiving servers, DNS and the policy lookups answer as they like.   *)
(* Limits and waiting of the pool are the subject of SMTPPool: here the     *)
(* pool is the set of sessions it keeps.                                    *)
(***************************************************************************)
EXTENDS Naturals, FiniteSets

CONSTANTS
    Workers,            \* goroutines that call Deliver
    Messages,
    RequireTLS,         \* the messages received with REQUIRETLS
    Hosts,
    Records,            \* sets of usable TLSA records
    MaxIdle,            \* sessions the pool keeps
    None

ASSUME MXAssumption ==
    /\ RequireTLS \subseteq Messages
    /\ None \notin Messages \cup Hosts \cup Records
    /\ IsFiniteSet(Workers) /\ IsFiniteSet(Hosts) /\ MaxIdle \in Nat

VARIABLES
    pc,         \* pc[w]: where the goroutine is, "idle" between two calls
    msg,        \* msg[w]: the message of the call
    todo,       \* todo[w]: the MX hosts still to try
    host,       \* host[w]: the MX host being tried
    require,    \* require[w]: requireTLS of deliverByMX
    dane,       \* dane[w][h]: daneByHost
    lastErr,    \* lastErr[w]
    reserved,   \* reserved[w]: shapingAttempt.messageReserved
    sess,       \* sess[w]: the session in use
    idle,       \* the sessions the pool keeps
    leases,     \* number of shaping leases held
    result,     \* result[w]: what the last call reported
    accepted,   \* history: the hosts that took the message in this call
    lost,       \* history: a final reply was lost in this call
    tried,      \* history: a host was contacted in this call
    spent       \* history: message tokens of shaping spent in this call

call == <<msg, require, dane>>
history == <<accepted, lost, tried, spent>>
vars == <<pc, msg, todo, host, require, dane, lastErr, reserved, sess, idle, leases, result,
          accepted, lost, tried, spent>>

(* What a call reports.  "shaped" is a DeferredError, "unknown" a            *)
(* DeliveryStatusUnknownError, "perm" a 5xx response and "temp" any other.   *)
Errors == {"temp", "perm", "unknown"}
Results == Errors \cup {"ok", "shaped"}

(* A session: the key it is kept under, what was negotiated when it was      *)
(* opened, and, in the server, the messages whose recipients are in the open *)
(* transaction and whether it reads commands or the text of a message.       *)
Session == [host : Hosts, require : BOOLEAN, dane : Records \cup {None},
            tls : BOOLEAN, verified : Records \cup {None}, ext : BOOLEAN,
            env : SUBSET Messages, reads : {"commands", "text"}]

requireTLS(w) == require[w] \/ msg[w] \in RequireTLS
keyWithoutDANE(w) == [host |-> host[w], require |-> requireTLS(w), dane |-> None]
smtpPoolKey(w) == [host |-> host[w], require |-> requireTLS(w), dane |-> dane[w][host[w]]]
keyOf(s) == [host |-> s.host, require |-> s.require, dane |-> s.dane]

Init ==
    /\ pc = [w \in Workers |-> "idle"] /\ msg = [w \in Workers |-> None]
    /\ todo = [w \in Workers |-> {}] /\ host = [w \in Workers |-> None]
    /\ require = [w \in Workers |-> FALSE]
    /\ dane = [w \in Workers |-> [h \in Hosts |-> None]]
    /\ lastErr = [w \in Workers |-> None] /\ reserved = [w \in Workers |-> FALSE]
    /\ sess = [w \in Workers |-> None] /\ idle = {} /\ leases = 0
    /\ result = [w \in Workers |-> None]
    /\ accepted = [w \in Workers |-> {}] /\ lost = [w \in Workers |-> FALSE]
    /\ tried = [w \in Workers |-> FALSE] /\ spent = [w \in Workers |-> 0]

-----------------------------------------------------------------------------
Goto(w, label) == pc' = [pc EXCEPT ![w] = label]

(* The call returns r; its locals are gone. *)
Report(w, r) ==
    /\ Goto(w, "idle") /\ result' = [result EXCEPT ![w] = r]
    /\ msg' = [msg EXCEPT ![w] = None] /\ require' = [require EXCEPT ![w] = FALSE]
    /\ todo' = [todo EXCEPT ![w] = {}] /\ host' = [host EXCEPT ![w] = None]
    /\ dane' = [dane EXCEPT ![w] = [h \in Hosts |-> None]]
    /\ lastErr' = [lastErr EXCEPT ![w] = None] /\ reserved' = [reserved EXCEPT ![w] = FALSE]

(* A call begins; took is where the message lies after this step. *)
Begin(w, took) ==
    /\ pc[w] = "idle"
    /\ accepted' = [accepted EXCEPT ![w] = took] /\ lost' = [lost EXCEPT ![w] = FALSE]
    /\ tried' = [tried EXCEPT ![w] = FALSE] /\ spent' = [spent EXCEPT ![w] = 0]
    /\ UNCHANGED <<sess, idle, leases>>

(* Egress selection or the MX lookup fails: no host is tried. *)
DeliverRefused(w) == Begin(w, {}) /\ \E r \in {"temp", "shaped"} : Report(w, r)

(* Delivery into the local spool, which promises no TLS on the way. *)
storeToSpool(w, m) ==
    \/ Begin(w, {}) /\ Report(w, IF m \in RequireTLS THEN "perm" ELSE "temp")
    \/ m \notin RequireTLS /\ Begin(w, {"spool"}) /\ Report(w, "ok")

(* The hosts to try: with usable TLSA records those that have one, otherwise *)
(* those that an enforced MTA-STS policy allows.  The order of preference is *)
(* arbitrary, so it need not be chosen before the hosts are tried.           *)
HasDANE(records) == \E h \in Hosts : records[h] # None
targets(hosts, records, sts, allowed) ==
    IF HasDANE(records) THEN {h \in hosts : records[h] # None}
    ELSE IF sts THEN hosts \cap allowed ELSE hosts

deliverByMX(w, m, hosts, records, sts, allowed) ==
    /\ Begin(w, {}) /\ msg' = [msg EXCEPT ![w] = m]
    /\ todo' = [todo EXCEPT ![w] = targets(hosts, records, sts, allowed)]
    /\ dane' = [dane EXCEPT ![w] = records]
    /\ require' = [require EXCEPT ![w] = HasDANE(records) \/ sts]
    /\ Goto(w, "next") /\ result' = [result EXCEPT ![w] = None]
    /\ UNCHANGED <<host, lastErr, reserved>>

-----------------------------------------------------------------------------
(* The loop over the hosts. *)
Exhausted(w) ==
    /\ pc[w] = "next" /\ todo[w] = {}
    /\ Report(w, IF lastErr[w] = None THEN "temp" ELSE lastErr[w])
    /\ UNCHANGED <<sess, idle, leases, history>>

(* Shaper.Acquire: a lease, and a message token unless the call has one. *)
Acquire(w) ==
    /\ pc[w] = "next" /\ leases' = leases + 1
    /\ \E h \in todo[w] : /\ host' = [host EXCEPT ![w] = h]
                         /\ todo' = [todo EXCEPT ![w] = @ \ {h}]
    /\ spent' = [spent EXCEPT ![w] = IF reserved[w] THEN @ ELSE @ + 1]
    /\ reserved' = [reserved EXCEPT ![w] = TRUE] /\ tried' = [tried EXCEPT ![w] = TRUE]
    /\ Goto(w, "open") /\ UNCHANGED <<call, lastErr, sess, idle, result, accepted, lost>>

(* Shaping lets the call wait.  A failure at an earlier host is reported. *)
Shaped(w) ==
    /\ pc[w] = "next" /\ todo[w] # {}
    /\ Report(w, IF lastErr[w] = None THEN "shaped" ELSE lastErr[w])
    /\ UNCHANGED <<sess, idle, leases, history>>

(* The context has ended: an error as any other. *)
Cancelled(w) ==
    /\ pc[w] = "next" /\ lastErr' = [lastErr EXCEPT ![w] = "temp"]
    /\ \E h \in todo[w] : todo' = [todo EXCEPT ![w] = @ \ {h}]
    /\ UNCHANGED <<pc, call, host, reserved, sess, idle, leases, result, history>>

-----------------------------------------------------------------------------
(* deliverHost ends: the session s goes back to the pool or is closed, and   *)
(* the lease is released.                                                    *)
put(w, s, reusable) ==
    /\ sess' = [sess EXCEPT ![w] = None]
    /\ idle' = IF reusable /\ Cardinality(idle) < MaxIdle THEN idle \cup {s} ELSE idle
    /\ leases' = leases - 1

(* A TLS failure that the policy makes is permanent under DANE. *)
classifyDANEFailure(w, e) ==
    IF e = "starttls" THEN (IF HasDANE(dane[w]) THEN "perm" ELSE "temp") ELSE e

HostFailed(w, e) ==
    /\ lastErr' = [lastErr EXCEPT ![w] = classifyDANEFailure(w, e)]
    /\ host' = [host EXCEPT ![w] = None]
    /\ Goto(w, "next") /\ UNCHANGED <<call, todo, reserved, result>>

(* The pool has a session for the key. *)
Reuse(w) ==
    /\ pc[w] = "open"
    /\ \E s \in idle : /\ keyOf(s) = smtpPoolKey(w)
                       /\ sess' = [sess EXCEPT ![w] = s] /\ idle' = idle \ {s}
    /\ Goto(w, "mail")
    /\ UNCHANGED <<call, todo, host, lastErr, reserved, leases, result, history>>

(* The errors of openSMTPSession, after the server offered STARTTLS or not,  *)
(* agreed to it or not, the handshake went well or not and the certificate   *)
(* matched a TLSA record or not.                                             *)
openErrors(w, offered, agreed, handshake, matched) ==
    IF offered /\ ~agreed /\ requireTLS(w) THEN {"temp", "perm"}
    ELSE IF offered /\ agreed /\ ~handshake THEN {IF requireTLS(w) THEN "starttls" ELSE "temp"}
    ELSE IF offered /\ agreed /\ dane[w][host[w]] # None /\ ~matched THEN {"perm"}
    ELSE IF ~offered /\ requireTLS(w) THEN {"starttls"} ELSE {}

openSMTPSession(w, offered, agreed, handshake, matched) ==
    /\ pc[w] = "open" /\ openErrors(w, offered, agreed, handshake, matched) = {}
    /\ \E ext \in BOOLEAN :
         sess' = [sess EXCEPT ![w] =
            [host |-> host[w], require |-> smtpPoolKey(w).require, dane |-> smtpPoolKey(w).dane,
             tls |-> offered /\ agreed,
             verified |-> IF offered /\ agreed THEN dane[w][host[w]] ELSE None,
             ext |-> ext, env |-> {}, reads |-> "commands"]]
    /\ Goto(w, "mail")
    /\ UNCHANGED <<call, todo, host, lastErr, reserved, idle, leases, result, history>>

(* No session: the pool, DNS, the dial, the greeting, EHLO, TLS or AUTH. *)
OpenFailed(w) ==
    /\ pc[w] = "open"
    /\ \E e \in {"temp", "perm"} \cup
            UNION {openErrors(w, o, a, h, m) : o, a, h, m \in BOOLEAN} : HostFailed(w, e)
    /\ leases' = leases - 1 /\ UNCHANGED <<sess, idle, history>>

-----------------------------------------------------------------------------
(* deliverTransaction. *)

(* RSET: a server that reads text takes it for text and does not answer. *)
resetSession(w, e) ==
    \E answered \in BOOLEAN :
        /\ answered => sess[w].reads = "commands"
        /\ put(w, [sess[w] EXCEPT !.env = {}], answered) /\ HostFailed(w, e)

(* A reject: the session is kept if RSET succeeds, unless the code was 421. *)
keepAfterReject(w, e) == put(w, sess[w], TRUE) /\ HostFailed(w, e)
reusableAfterReject(w, e) ==
    \/ e = "temp" /\ put(w, sess[w], FALSE) /\ HostFailed(w, e)
    \/ resetSession(w, e)

Broken(w, e) == put(w, sess[w], FALSE) /\ HostFailed(w, e)

Server(w, env, reads) == sess' = [sess EXCEPT ![w].env = env, ![w].reads = reads]
Quiet == UNCHANGED <<call, todo, host, lastErr, reserved, idle, leases, result, history>>

(* A message that requires TLS goes only where TLS and REQUIRETLS are. *)
refusedByPolicy(w) == msg[w] \in RequireTLS /\ ~(sess[w].tls /\ sess[w].ext)

Mail(w) ==
    /\ pc[w] = "mail"
    /\ \/ refusedByPolicy(w) /\ Broken(w, "perm") /\ UNCHANGED history
       \/ ~refusedByPolicy(w) /\ Goto(w, "rcpt") /\ UNCHANGED sess /\ Quiet
       \/ ~refusedByPolicy(w) /\ Broken(w, "temp") /\ UNCHANGED history
       \/ /\ ~refusedByPolicy(w) /\ \E e \in {"temp", "perm"} : reusableAfterReject(w, e)
          /\ UNCHANGED history

Rcpt(w) ==
    /\ pc[w] = "rcpt"
    /\ \/ /\ Server(w, sess[w].env \cup {msg[w]}, "commands")
          /\ Goto(w, "data") /\ Quiet
       \/ Broken(w, "temp") /\ UNCHANGED history
       \/ (\E e \in {"temp", "perm"} : reusableAfterReject(w, e)) /\ UNCHANGED history

Data(w) ==
    /\ pc[w] = "data"
    /\ \/ Server(w, sess[w].env, "text") /\ Goto(w, "text") /\ Quiet
       \/ Broken(w, "temp") /\ UNCHANGED history
       \/ (\E e \in {"temp", "perm"} : reusableAfterReject(w, e)) /\ UNCHANGED history

(* prepareOutboundMessage signs the message, after the server asked for it. *)
SigningFailed(w) == resetSession(w, "temp") /\ UNCHANGED history

(* The message is written, if it could be signed; writing may break. *)
Text(w) ==
    /\ pc[w] = "text"
    /\ \/ Goto(w, "reply") /\ UNCHANGED sess /\ Quiet
       \/ SigningFailed(w)
       \/ Broken(w, "temp") /\ UNCHANGED history

(* The server has the whole message: it takes it or not, and its answer is   *)
(* read or not.                                                              *)
Took(w) == accepted' = [accepted EXCEPT ![w] = @ \cup {host[w]}]

FinalOK(w) ==
    /\ pc[w] = "reply"
    /\ Took(w) /\ put(w, [sess[w] EXCEPT !.env = {}, !.reads = "commands"], TRUE)
    /\ Report(w, "ok") /\ UNCHANGED <<lost, tried, spent>>

FinalReject(w) ==
    /\ pc[w] = "reply"
    /\ \E e \in {"temp", "perm"} : Broken(w, e)
    /\ UNCHANGED history

FinalLostAsReject(w) ==
    /\ pc[w] = "reply"
    /\ Took(w) \/ UNCHANGED accepted
    /\ Broken(w, "temp")
    /\ UNCHANGED <<lost, tried, spent>>

FinalLost(w) ==
    /\ pc[w] = "reply"
    /\ Took(w) \/ UNCHANGED accepted
    /\ lost' = [lost EXCEPT ![w] = TRUE] /\ Broken(w, "unknown")
    /\ UNCHANGED <<tried, spent>>

(* A session the pool keeps reaches its time limit and is closed. *)
Expire ==
    /\ \E s \in idle : idle' = idle \ {s}
    /\ UNCHANGED <<pc, call, todo, host, lastErr, reserved, sess, leases, result, history>>

-----------------------------------------------------------------------------
Deliver(w) ==
    \/ DeliverRefused(w)
    \/ \E m \in Messages : storeToSpool(w, m)
    \/ \E m \in Messages, hosts \in SUBSET Hosts \ {{}}, sts \in BOOLEAN, allowed \in SUBSET Hosts,
          records \in [Hosts -> Records \cup {None}] :
            /\ \A h \in Hosts : records[h] # None => h \in hosts
            /\ deliverByMX(w, m, hosts, records, sts, allowed)

Step(w) ==
    \/ Exhausted(w) \/ Acquire(w) \/ Shaped(w) \/ Cancelled(w)
    \/ Reuse(w) \/ OpenFailed(w)
    \/ \E o, a, h, m \in BOOLEAN : openSMTPSession(w, o, a, h, m)
    \/ Mail(w) \/ Rcpt(w) \/ Data(w) \/ Text(w)
    \/ FinalOK(w) \/ FinalReject(w) \/ FinalLost(w)

Next == (\E w \in Workers : Deliver(w) \/ Step(w)) \/ Expire

Spec == Init /\ [][Next]_vars

-----------------------------------------------------------------------------
(* The text of a message goes over no connection that is weaker than what    *)
(* its policy asks for, also when the pool hands out a session that another  *)
(* delivery opened: TLS when DANE, MTA-STS or REQUIRETLS asks for it, a      *)
(* server with REQUIRETLS for such a message, and a certificate that was     *)
(* verified with the TLSA records of this very lookup.                       *)
PolicyKept ==
    \A w \in Workers : pc[w] \in {"text", "reply"} =>
        /\ require[w] \/ msg[w] \in RequireTLS => sess[w].tls
        /\ msg[w] \in RequireTLS => sess[w].ext
        /\ dane[w][host[w]] # None => sess[w].verified = dane[w][host[w]]

(* When the server reads the text of a message, the recipients it holds are  *)
(* those of this message: no earlier transaction on the session is left      *)
(* over, whatever was rejected or failed in it.                              *)
OwnEnvelope ==
    \A w \in Workers : pc[w] \in {"text", "reply"} => sess[w].env = {msg[w]}

(* A delivery is reported as done only if a server took the message, and a   *)
(* failure, for which the message may be sent again, only if none did, as    *)
(* long as no final reply was lost.  A wait for shaping, which counts no     *)
(* attempt, is reported only if no host was contacted and no message token   *)
(* spent; a call spends one token, however many hosts it tries.              *)
HonestResult ==
    \A w \in Workers :
        /\ spent[w] <= 1
        /\ pc[w] = "idle" =>
            /\ result[w] = "ok" => accepted[w] # {}
            /\ result[w] \in {"temp", "perm", "shaped"} /\ ~lost[w] => accepted[w] = {}
            /\ result[w] = "shaped" => ~tried[w] /\ spent[w] = 0
=============================================================================
