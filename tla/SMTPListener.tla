---------------------------- MODULE SMTPListener ----------------------------
(***************************************************************************)
(* The life of a connection of one listener, from accept to close (Run and   *)
(* handleConnWithContext in smtp/server.go, limits.go, proxy_protocol.go):   *)
(* the slot of the listener, the PROXY header, the slot of the client's      *)
(* address, the TLS handshake, the ingress checks, the session, shutdown.    *)
(* Every connection has a goroutine; what they share are the two counters.   *)
(***************************************************************************)
EXTENDS Naturals, FiniteSets

CONSTANTS
    Conns,                      \* connections at one time
    IPs,                        \* addresses, of peers and of clients behind them
    TrustedPeers,               \* peers whose PROXY header is believed
    MaxConnections, MaxConnectionsPerIP,
    Nowhere

ASSUME ListenerAssumption ==
    /\ IsFiniteSet(Conns) /\ TrustedPeers \subseteq IPs /\ Nowhere \notin IPs
    /\ MaxConnections \in Nat \ {0} /\ MaxConnectionsPerIP \in Nat \ {0}

VARIABLES
    proxyEnabled,       \* the listener expects PROXY headers
    implicitTLS,
    phase,              \* phase[c]: where the goroutine of c is
    peer,               \* peer[c]: the transport's remote address
    ip,                 \* ip[c]: the effective client address
    connections,        \* slots of the listener in use
    connectionsPerIP,   \* slots in use for an address
    run                 \* of Run: accepting, canceled, waiting or returned

cvars == <<proxyEnabled, implicitTLS, phase, peer, ip, connections, connectionsPerIP, run>>
config == <<proxyEnabled, implicitTLS>>

CInit ==
    /\ proxyEnabled \in BOOLEAN /\ implicitTLS \in BOOLEAN
    /\ phase = [c \in Conns |-> "none"] /\ peer = [c \in Conns |-> Nowhere]
    /\ ip = [c \in Conns |-> Nowhere]
    /\ connections = 0 /\ connectionsPerIP = [i \in IPs |-> 0] /\ run = "accepting"

(* A connection above the limit is closed at once, without a goroutine. *)
Accept(c, p) ==
    /\ run \in {"accepting", "canceled"} /\ phase[c] = "none"
    /\ connections < MaxConnections /\ connections' = connections + 1
    /\ phase' = [phase EXCEPT ![c] = "started"] /\ peer' = [peer EXCEPT ![c] = p]
    /\ UNCHANGED <<config, ip, connectionsPerIP, run>>

(* accept of the PROXY policy: an untrusted peer, a header that is late or    *)
(* malformed, or the end of the server; no slot of an address is held yet.    *)
ProxyRefused(c) ==
    /\ phase[c] = "started" /\ proxyEnabled /\ phase' = [phase EXCEPT ![c] = "ending"]
    /\ UNCHANGED <<config, peer, ip, connections, connectionsPerIP, run>>

(* The client named by a trusted peer's header; the peer itself for its own   *)
(* (LOCAL) connections and for a listener without PROXY.                      *)
EffectiveIPs(c) ==
    IF proxyEnabled THEN (IF peer[c] \in TrustedPeers THEN IPs ELSE {}) ELSE {peer[c]}

AfterAdmission == IF implicitTLS THEN "handshake" ELSE "checks"

acquireConnection(c, i) ==
    /\ phase[c] = "started" /\ i \in EffectiveIPs(c)
    /\ IF connectionsPerIP[i] < MaxConnectionsPerIP
       THEN /\ connectionsPerIP' = [connectionsPerIP EXCEPT ![i] = @ + 1]
            /\ ip' = [ip EXCEPT ![c] = i] /\ phase' = [phase EXCEPT ![c] = AfterAdmission]
       ELSE phase' = [phase EXCEPT ![c] = "ending"] /\ UNCHANGED <<ip, connectionsPerIP>>
    /\ UNCHANGED <<config, peer, connections, run>>

Admitted == {"handshake", "checks", "session"}

(* The handshake succeeds; the rate limits and the block list let it pass. *)
Advance(c) ==
    /\ phase[c] \in {"handshake", "checks"}
    /\ phase' = [phase EXCEPT ![c] = IF phase[c] = "handshake" THEN "checks" ELSE "session"]
    /\ UNCHANGED <<config, peer, ip, connections, connectionsPerIP, run>>

(* The handler returns: a failed handshake, a refusal, the end of the session  *)
(* or the server's end, which closes the connection under it.  The deferred    *)
(* release is of the address the slot was taken for.                           *)
releaseConnectionOfPeer(c) ==
    /\ phase[c] \in Admitted /\ phase' = [phase EXCEPT ![c] = "ending"]
    /\ connectionsPerIP' = [connectionsPerIP EXCEPT ![peer[c]] = IF @ = 0 THEN 0 ELSE @ - 1]
    /\ ip' = [ip EXCEPT ![c] = Nowhere] /\ UNCHANGED <<config, peer, connections, run>>
releaseConnection(c) ==
    /\ phase[c] \in Admitted /\ phase' = [phase EXCEPT ![c] = "ending"]
    /\ connectionsPerIP' = [connectionsPerIP EXCEPT ![ip[c]] = @ - 1]
    /\ ip' = [ip EXCEPT ![c] = Nowhere] /\ UNCHANGED <<config, peer, connections, run>>

(* The goroutine gives the listener's slot back and is done. *)
Finish(c) ==
    /\ phase[c] = "ending" /\ phase' = [phase EXCEPT ![c] = "none"]
    /\ peer' = [peer EXCEPT ![c] = Nowhere] /\ connections' = connections - 1
    /\ UNCHANGED <<config, ip, connectionsPerIP, run>>

(* The context ends; the listener is closed; Run waits for the goroutines and  *)
(* returns, and the process may start it again.                                *)
Cancel == run = "accepting" /\ run' = "canceled"
ListenerClosed == run = "canceled" /\ run' = "waiting"
Return == run = "waiting" /\ (\A c \in Conns : phase[c] = "none") /\ run' = "returned"
Restart == run = "returned" /\ run' = "accepting"

CNext ==
    \/ /\ Cancel \/ ListenerClosed \/ Return \/ Restart
       /\ UNCHANGED <<config, phase, peer, ip, connections, connectionsPerIP>>
    \/ \E c \in Conns :
          \/ \E p \in IPs : Accept(c, p)
          \/ \E i \in IPs : acquireConnection(c, i)
          \/ ProxyRefused(c) \/ Advance(c) \/ releaseConnection(c) \/ Finish(c)

CSpec == CInit /\ [][CNext]_cvars

-----------------------------------------------------------------------------
(* The counters are the goroutines they stand for, on every way out of a      *)
(* handler and with PROXY headers that give a client another address than     *)
(* its connection: no slot leaks, none is given back twice, no limit is       *)
(* passed, and nothing is left when Run returns.                              *)
ConnectionsCounted ==
    /\ connections = Cardinality({c \in Conns : phase[c] # "none"})
    /\ connections <= MaxConnections
    /\ \A i \in IPs :
          /\ connectionsPerIP[i] = Cardinality({c \in Conns : phase[c] \in Admitted /\ ip[c] = i})
          /\ connectionsPerIP[i] <= MaxConnectionsPerIP
    /\ run = "returned" => connections = 0
=============================================================================
