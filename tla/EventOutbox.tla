---------------------------- MODULE EventOutbox -----------------------------
(***************************************************************************)
(* The outbox of delivery events (eventwebhook/outbox.go) and the           *)
(* dispatcher that posts them (eventwebhook/dispatcher.go).  Every operation *)
(* of the outbox holds its lock, so only a failure or a crash can end one in *)
(* the middle: each is an action that completes or, at the cost of a fault,  *)
(* stops after one of its file operations.  The endpoint is external.        *)
(***************************************************************************)
EXTENDS Integers, FiniteSets

CONSTANTS
    Events,
    MaxPending, OMaxAttempts,
    BatchSize,      \* 100 in dispatch
    OMaxFaults      \* bound on failed operations, crashes and damaged files

ASSUME OutboxAssumption == IsFiniteSet(Events) /\ {MaxPending, OMaxFaults} \subseteq Nat

VARIABLES
    oPending,   \* oPending[e]: the file of event e in pending, or NoFile
    oDlq,       \* oDlq[e]: "none", "new" or "old" (past the retention)
    oTemp,      \* a temporary file left in pending by a crash, likewise
    oCount,     \* pendingCount
    oPhase,     \* of dispatch: "idle", "batch", "sweep"
    oBatch,     \* the records it still has to send, event by event
    oReply,     \* the event just sent and the result of send, or NoReply
    oFaults,
    oReceived, oBuried, oTold  \* history: received, put in dlq, answered

ofiles == <<oPending, oDlq, oTemp, oCount>>
orun == <<oPhase, oBatch, oReply>>
ohist == <<oReceived, oBuried, oTold>>
ovars == <<ofiles, orun, oFaults, ohist>>

NoFile == [state |-> "none"]
File(attempts, due) == [state |-> "good", attempts |-> attempts, due |-> due, old |-> FALSE]
NoReply == [event |-> "none"]

Present == {e \in Events : oPending[e] # NoFile}
Damaged == {e \in Present : oPending[e].state = "damaged"}
Aged == {e \in Present : oPending[e].old}

OInit ==
    /\ oPending = [e \in Events |-> NoFile] /\ oDlq = [e \in Events |-> "none"] /\ oTemp = "none" /\ oCount = 0
    /\ oPhase = "idle" /\ oBatch = <<>> /\ oReply = NoReply /\ oFaults = 0
    /\ oReceived = {} /\ oBuried = {} /\ oTold = [e \in Events |-> "new"]

Fault == oFaults < OMaxFaults /\ oFaults' = oFaults + 1
NoFault == UNCHANGED oFaults

Written(e, file) == oPending' = [oPending EXCEPT ![e] = file]
Removed(S) == oPending' = [e \in Events |-> IF e \in S THEN NoFile ELSE oPending[e]]

(* The process ends and Open counts the files of pending again. *)
Reopened ==
    /\ oPhase' = "idle" /\ oBatch' = <<>> /\ oReply' = NoReply
    /\ oCount' = Cardinality(Present) /\ UNCHANGED oPending

(* write: complete; renamed and an error from the sync of the directory; an  *)
(* error before; or a crash before the rename, which leaves the temporary    *)
(* file.                                                                     *)
Write(e, file, onOK, onError) ==
    \/ NoFault /\ Written(e, file) /\ UNCHANGED oTemp /\ onOK
    \/ Fault /\ oPending' \in {oPending, [oPending EXCEPT ![e] = file]} /\ UNCHANGED oTemp /\ onError
    \/ Fault /\ oTemp = "none" /\ oTemp' = "new" /\ Reopened

Tell(e, answer) == oTold' = [oTold EXCEPT ![e] = answer] /\ UNCHANGED <<oReceived, oBuried>>

(* Enqueue, for an event with a new random id. *)
OEnqueue(e) ==
    /\ oTold[e] = "new" /\ UNCHANGED oDlq
    /\ IF oCount >= MaxPending
       THEN Tell(e, "refused") /\ UNCHANGED <<oPending, oTemp, oCount, orun, oFaults>>
       ELSE \E answer \in {"accepted", "failed"} :
               /\ Tell(e, answer)
               /\ Write(e, File(0, TRUE),
                        answer = "accepted" /\ oCount' = oCount + 1 /\ UNCHANGED orun,
                        answer = "failed" /\ UNCHANGED <<oCount, orun>>)
               /\ answer = "accepted" => oFaults' = oFaults

(* due, at the start of dispatch: files that do not decode go to dlq; with   *)
(* an error after some of them dispatch ends.                                *)
Due ==
    /\ oPhase = "idle" /\ UNCHANGED <<oTemp, oReply, oReceived, oTold>>
    /\ \E moved \in SUBSET Damaged :
          /\ Removed(moved) /\ oCount' = oCount - Cardinality(moved)
          /\ oDlq' = [e \in Events |-> IF e \in moved THEN "new" ELSE oDlq[e]]
          /\ oBuried' = oBuried \cup moved
          /\ LET ready == {e \in Present \ moved : oPending[e].state = "good" /\ oPending[e].due} IN
             \/ /\ moved = Damaged /\ NoFault /\ oPhase' = "batch"
                /\ \E S \in SUBSET ready : /\ Cardinality(S) = IF Cardinality(ready) < BatchSize THEN Cardinality(ready) ELSE BatchSize
                                           /\ oBatch' = [e \in S |-> oPending[e].attempts]
             \/ Fault /\ UNCHANGED <<oPhase, oBatch>>

(* send: the endpoint has the event and its answer is 2xx ("ok"), lost or    *)
(* 429 or 5xx ("retry"), or another ("refused"); the request may also be     *)
(* lost before it arrives.                                                   *)
Send(e) ==
    /\ oPhase = "batch" /\ oReply = NoReply /\ e \in DOMAIN oBatch
    /\ \/ oReceived' = oReceived \cup {e} /\ \E result \in {"ok", "retry"} : oReply' = [event |-> e, result |-> result]
       \/ UNCHANGED oReceived /\ \E result \in {"retry", "refused"} : oReply' = [event |-> e, result |-> result]
    /\ UNCHANGED <<ofiles, oPhase, oBatch, oFaults, oBuried, oTold>>

Settled(e) == oReply' = NoReply /\ oPhase' = oPhase /\ oBatch' = [f \in DOMAIN oBatch \ {e} |-> oBatch[f]]

(* ack; a removal that fails leaves the file. *)
Ack(e) ==
    /\ oReply = [event |-> e, result |-> "ok"] /\ Settled(e)
    /\ \/ NoFault /\ Removed({e}) /\ oCount' = IF e \in Present THEN oCount - 1 ELSE oCount
       \/ Fault /\ UNCHANGED <<oPending, oCount>>
    /\ UNCHANGED <<oDlq, oTemp, ohist>>

Retried(e) == oReply.event = e /\ oReply.result = "retry" /\ oBatch[e] + 1 < OMaxAttempts

(* retry writes the record that dispatch read, with one attempt more. *)
ORetry(e) ==
    /\ oReply # NoReply /\ Retried(e)
    /\ Write(e, File(oBatch[e] + 1, FALSE), Settled(e) /\ UNCHANGED oCount, Settled(e) /\ UNCHANGED oCount)
    /\ UNCHANGED <<oDlq, ohist>>

(* Mutant: the file leaves pending before it is written to dlq. *)
FailRemovingFirst(e) ==
    \/ NoFault /\ Removed({e}) /\ oCount' = oCount - 1 /\ oDlq' = [oDlq EXCEPT ![e] = "new"] /\ oBuried' = oBuried \cup {e}
    \/ Fault /\ Removed({e}) /\ UNCHANGED <<oCount, oDlq, oBuried>>

(* fail: dlq first, then the removal from pending; an error after neither or *)
(* after the first.                                                          *)
FailInOrder(e) ==
    \/ NoFault /\ Removed({e}) /\ oCount' = oCount - 1 /\ oDlq' = [oDlq EXCEPT ![e] = "new"] /\ oBuried' = oBuried \cup {e}
    \/ Fault /\ oDlq' = [oDlq EXCEPT ![e] = "new"] /\ oBuried' = oBuried \cup {e} /\ UNCHANGED <<oCount, oPending>>
    \/ Fault /\ UNCHANGED <<oCount, oPending, oDlq, oBuried>>

OFail(e) ==
    /\ oReply # NoReply /\ oReply.event = e /\ oReply.result # "ok" /\ ~Retried(e)
    /\ FailInOrder(e) /\ Settled(e)
    /\ UNCHANGED <<oTemp, oReceived, oTold>>

(* The batch is done. *)
Done == oPhase = "batch" /\ oReply = NoReply /\ DOMAIN oBatch = {} /\ oPhase' = "sweep"
        /\ UNCHANGED <<ofiles, oBatch, oReply, oFaults, ohist>>

(* sweep: files past the retention are removed from pending, temporary ones  *)
(* included, each counting as an event, and then from dlq; or an error ends  *)
(* it early.                                                                 *)
Sweep ==
    /\ oPhase = "sweep" /\ oPhase' = "idle" /\ UNCHANGED <<oBatch, oReply, ohist>>
    /\ \E gone \in SUBSET Aged, temp \in BOOLEAN, dead \in BOOLEAN :
          /\ temp => oTemp = "old"
          /\ Removed(gone) /\ oTemp' = IF temp THEN "none" ELSE oTemp
          /\ oCount' = oCount - Cardinality(gone) - (IF temp THEN 1 ELSE 0)
          /\ oDlq' = [e \in Events |-> IF dead /\ oDlq[e] = "old" THEN "none" ELSE oDlq[e]]
          /\ LET all == gone = Aged /\ (oTemp = "old" => temp) IN
             IF all /\ dead THEN NoFault ELSE Fault /\ (dead => all)

(* The process ends between two operations of the outbox and starts again. *)
ORestart == Fault /\ Reopened /\ UNCHANGED <<oDlq, oTemp, ohist>>

(* Time: files are compared with the time at the start of dispatch, so ages  *)
(* and delays matter only between two rounds.                                *)
Elapse(e) ==
    /\ oPhase = "idle" /\ UNCHANGED <<oTemp, oCount, orun, oFaults, ohist>>
    /\ \/ e \in Present \ Damaged /\ ~oPending[e].due /\ oPending' = [oPending EXCEPT ![e].due = TRUE] /\ UNCHANGED oDlq
       \/ e \in Present \ Aged /\ oPending' = [oPending EXCEPT ![e].old = TRUE] /\ UNCHANGED oDlq
       \/ oDlq[e] = "new" /\ oDlq' = [oDlq EXCEPT ![e] = "old"] /\ UNCHANGED oPending
ElapseTemp ==
    /\ oPhase = "idle" /\ oTemp = "new" /\ oTemp' = "old"
    /\ UNCHANGED <<oPending, oDlq, oCount, orun, oFaults, ohist>>

(* A file of pending is damaged while nothing is read. *)
Damage(e) ==
    /\ oPhase = "idle" /\ Fault /\ e \in Present \ Damaged
    /\ oPending' = [oPending EXCEPT ![e].state = "damaged"]
    /\ UNCHANGED <<oDlq, oTemp, oCount, orun, ohist>>

ONext ==
    \/ \E e \in Events : \/ OEnqueue(e) \/ Send(e) \/ Ack(e) \/ ORetry(e) \/ OFail(e)
                         \/ Elapse(e) \/ Damage(e)
    \/ Due \/ Done \/ Sweep \/ ElapseTemp \/ ORestart

OSpec == OInit /\ [][ONext]_ovars
-----------------------------------------------------------------------------
Channel == INSTANCE EventChannel
           WITH kept <- Present, aged <- Aged, received <- oReceived, buried <- oBuried, told <- oTold

(* The outbox implements EventChannel: whatever fails and whenever the       *)
(* process ends, an event leaves pending only after the endpoint received    *)
(* it, after it was written to dlq, or past the retention; an accepted event *)
(* is in pending; and ErrCapacity is returned only when pending is full,     *)
(* although pendingCount is kept by hand beside the directory.               *)
OutboxKeepsEvents == Channel!Spec
=============================================================================
