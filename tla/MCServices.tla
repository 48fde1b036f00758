----------------------------- MODULE MCServices -----------------------------
(* The services beside queue and transport, for TLC.  They share no state: a *)
(* behaviour is one of a single part and the others rest.                    *)
EXTENDS KafkaQueue, AggregateReports, EventOutbox, Feedback, TLC
VARIABLE part

TwoTopics == {<<"inbound", 1>>, <<"retry", 1>>}
GroupOf == <<"g", "g", "g", "h">>

Init ==
    /\ part \in {"kafka", "dmarc", "tls", "events", "reputation", "suppression"} /\ today = 0
    /\ KInit /\ RInit /\ YInit /\ OInit /\ UInit /\ VInit
    /\ part # "kafka" => Records = 0
Next ==
    /\ UNCHANGED part
    /\ \/ part = "kafka" /\ KNext /\ UNCHANGED <<today, rvars, yvars, ovars, uvars, vvars>>
       \/ part = "dmarc" /\ RNext /\ UNCHANGED <<kvars, yvars, ovars, uvars, vvars>>
       \/ part = "tls" /\ YNext /\ UNCHANGED <<kvars, rvars, ovars, uvars, vvars>>
       \/ part = "events" /\ ONext /\ UNCHANGED <<kvars, today, rvars, yvars, uvars, vvars>>
       \/ part = "reputation" /\ UNext /\ UNCHANGED <<kvars, today, rvars, yvars, ovars, vvars>>
       \/ part = "suppression" /\ VNext /\ UNCHANGED <<kvars, today, rvars, yvars, ovars, uvars>>
Spec == Init /\ [][Next]_<<part, today, kvars, rvars, yvars, ovars, uvars, vvars>>
=============================================================================
