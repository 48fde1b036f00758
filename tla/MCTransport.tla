----------------------------- MODULE MCTransport -----------------------------
(* The ways out of the server, for TLC: delivery over SMTP, delivery of a     *)
(* batch over LMTP, and what they ask first: the caches of MTA-STS policies   *)
(* and DNS answers, the throttle, the shaping and the pauses of domains.      *)
(* They share no state, so a behaviour is one of a single part and the others *)
(* rest.                                                                      *)
EXTENDS MXDelivery, LMTPDelivery, MTASTSCache, DNSCache, DomainThrottle, Shaping, DeliveryPause, TLC
CONSTANTS w1, m1, m2, h1, h2, r1, r2, g1, g2, i1, i2
VARIABLE part

Batch == <<"a", "b", "c">>
HostSymmetry == Permutations({h1, h2}) \cup Permutations({r1, r2})
Two == "rule" :> 2
ShapingLimits ==
    {[mrate |-> 1, mburst |-> 1, crate |-> 0, cburst |-> 0, maxc |-> 1],
     [mrate |-> 1, mburst |-> 2, crate |-> 2, cburst |-> 1, maxc |-> 0]}

Parts == {"smtp", "lmtp", "mta-sts", "dns", "throttle", "shaping", "pause"}

(* The configuration of a part that rests is one of its own; which worker is *)
(* called w1 makes no difference.                                             *)
XInit ==
    /\ part \in Parts
    /\ Init /\ LInit /\ SInit /\ DInit /\ TInit /\ ShInit /\ PInit
    /\ tProcess["w1"] = "p1"
    /\ part # "throttle" => tRedis = FALSE /\ tShaping = FALSE /\ tProcess["w2"] = "p1"
    /\ part # "shaping" => sRedis = FALSE /\ sLimits.mburst = 1
    /\ part # "pause" => pRedis = FALSE /\ pDryRun = FALSE
XNext ==
    /\ UNCHANGED part
    /\ \/ part = "smtp" /\ Next /\ UNCHANGED <<lvars, svars, dvars, tvars, shvars, pvars>>
       \/ part = "lmtp" /\ LNext /\ UNCHANGED <<vars, svars, dvars, tvars, shvars, pvars>>
       \/ part = "mta-sts" /\ SNext /\ UNCHANGED <<vars, lvars, dvars, tvars, shvars, pvars>>
       \/ part = "dns" /\ DNext /\ UNCHANGED <<vars, lvars, svars, tvars, shvars, pvars>>
       \/ part = "throttle" /\ TNext /\ UNCHANGED <<vars, lvars, svars, dvars, shvars, pvars>>
       \/ part = "shaping" /\ ShNext /\ UNCHANGED <<vars, lvars, svars, dvars, tvars, pvars>>
       \/ part = "pause" /\ PNext /\ UNCHANGED <<vars, lvars, svars, dvars, tvars, shvars>>
XSpec == XInit /\ [][XNext]_<<vars, lvars, svars, dvars, tvars, shvars, pvars, part>>
=============================================================================
