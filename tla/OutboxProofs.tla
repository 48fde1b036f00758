---------------------------- MODULE OutboxProofs ----------------------------
(***************************************************************************)
(* The proof that the outbox of delivery events implements EventChannel, for *)
(* any events and limits and any number of failures and crashes.             *)
(***************************************************************************)
EXTENDS EventOutbox, FiniteSetTheorems, TLAPS

Files == [state : {"good", "damaged"}, attempts : Nat, due : BOOLEAN, old : BOOLEAN]
Replies == [event : Events, result : {"ok", "retry", "refused"}]

OTypeOK ==
    /\ oPending \in [Events -> Files \cup {NoFile}] /\ oCount \in Int /\ oFaults \in Nat
    /\ oReply \in Replies \cup {NoReply} /\ oPhase \in {"idle", "batch", "sweep"}
    /\ \A e \in DOMAIN oBatch : oBatch[e] \in Nat
    /\ oTold \in [Events -> {"new", "accepted", "refused", "failed"}]

(* What dispatch has read is still in pending, as nothing but dispatch       *)
(* removes files; an id is new until it is recorded; and pendingCount never  *)
(* exceeds the files, although it may fall behind them.                      *)
OInv ==
    /\ OTypeOK /\ DOMAIN oBatch \subseteq Present
    /\ oPhase # "batch" => DOMAIN oBatch = {} /\ oReply = NoReply
    /\ oReply # NoReply => oReply.event \in DOMAIN oBatch /\ (oReply.result = "ok" => oReply.event \in oReceived)
    /\ \A e \in Events : oTold[e] = "new" => e \notin Present
    /\ oCount <= Cardinality(Present)

LEMMA PresentFinite == IsFiniteSet(Present) /\ Cardinality(Present) \in Nat
<1>1. IsFiniteSet(Present)
  BY OutboxAssumption, FS_Subset DEF Present
<1> QED BY <1>1, FS_CardinalityType

LEMMA ChannelCardinality == Channel!Cardinality(Present) = Cardinality(Present)
BY DEF Cardinality, Channel!Cardinality

(* A file is written, or files are removed. *)
LEMMA FileWritten ==
    ASSUME OInv, NEW e \in Events, NEW file \in Files, file.old = FALSE, Written(e, file)
    PROVE  /\ oPending' \in [Events -> Files \cup {NoFile}]
           /\ Present' = Present \cup {e} /\ Aged' = Aged \ {e}
<1>1. file # NoFile
  BY DEF Files, NoFile
<1>2. oPending'[e] = file /\ \A f \in Events \ {e} : oPending'[f] = oPending[f]
  BY DEF OInv, OTypeOK, Written
<1>3. oPending' \in [Events -> Files \cup {NoFile}]
  BY DEF OInv, OTypeOK, Written
<1>4. Present' = Present \cup {e}
  BY <1>1, <1>2 DEF Present
<1>5. Aged' = Aged \ {e}
  <2>1. ~oPending'[e].old
    BY <1>2
  <2> QED BY <1>2, <1>4, <2>1 DEF Aged, Present
<1> QED BY <1>3, <1>4, <1>5

LEMMA FilesRemoved ==
    ASSUME OInv, NEW S \in SUBSET Present, Removed(S)
    PROVE  /\ oPending' \in [Events -> Files \cup {NoFile}]
           /\ Present' = Present \ S /\ Aged' = Aged \ S
           /\ Cardinality(S) \in Nat /\ Cardinality(Present') = Cardinality(Present) - Cardinality(S)
<1>1. \A e \in Events : oPending'[e] = IF e \in S THEN NoFile ELSE oPending[e]
  BY DEF Removed
<1>2. oPending' \in [Events -> Files \cup {NoFile}]
  BY DEF OInv, OTypeOK, Removed
<1>3. Present' = Present \ S
  BY <1>1 DEF Present
<1>4. Aged' = Aged \ S
  BY <1>1, <1>3 DEF Aged, Present
<1>5. IsFiniteSet(S) /\ Cardinality(S) \in Nat
  BY PresentFinite, FS_Subset, FS_CardinalityType
<1>6. Cardinality(Present \ S) = Cardinality(Present) - Cardinality(Present \cap S)
  BY ZenonT(40), PresentFinite, FS_Difference
<1>7. Present \cap S = S
  OBVIOUS
<1> QED BY <1>2, <1>3, <1>4, <1>5, <1>6, <1>7

(* The channel sees nothing of a step that changes no file and no answer. *)
Unseen == UNCHANGED <<Present, Aged, oReceived, oBuried, oTold>>

LEMMA UnseenStutters == Unseen => UNCHANGED Channel!cvars
BY DEF Unseen, Channel!cvars

(* The program stops and starts with the files it has. *)
LEMMA Restarted ==
    ASSUME OInv, Reopened, oFaults' \in Nat, UNCHANGED <<oReceived, oBuried>>,
           oTold' \in [Events -> {"new", "accepted", "refused", "failed"}],
           \A e \in Events : oTold'[e] = "new" => oTold[e] = "new"
    PROVE  OInv' /\ UNCHANGED <<Present, Aged>>
<1>1. oPending' = oPending /\ oPhase' = "idle" /\ DOMAIN oBatch' = {} /\ oReply' = NoReply
      /\ oCount' = Cardinality(Present)
  BY DEF Reopened
<1>2. Present' = Present /\ Aged' = Aged
  BY <1>1 DEF Present, Aged
<1>3. OTypeOK'
  BY <1>1, PresentFinite DEF OInv, OTypeOK
<1> QED BY <1>1, <1>2, <1>3, PresentFinite DEF OInv

LEMMA OInvInit == OInit => OInv /\ Channel!Init
<1> SUFFICES ASSUME OInit PROVE OInv /\ Channel!Init
  OBVIOUS
<1>1. Present = {} /\ Aged = {}
  BY DEF OInit, Present, Aged
<1>2. OTypeOK /\ DOMAIN oBatch = {}
  BY DEF OInit, OTypeOK
<1>3. OInv
  BY <1>1, <1>2, FS_EmptySet DEF OInit, OInv
<1>4. Channel!Init
  BY <1>1 DEF OInit, Channel!Init
<1> QED BY <1>3, <1>4

LEMMA OInvEnqueue ==
    ASSUME OInv, NEW e \in Events, OEnqueue(e)
    PROVE  OInv' /\ (Channel!Accept(e) \/ Channel!Refuse(e) \/ Channel!Fail(e))
<1>1. CASE oCount >= MaxPending
  <2>1. oTold[e] = "new" /\ Tell(e, "refused") /\ UNCHANGED <<oPending, oTemp, oCount, orun, oFaults>>
    BY <1>1 DEF OEnqueue
  <2>2. Present' = Present /\ Aged' = Aged
    BY <2>1 DEF Present, Aged
  <2>3. Cardinality(Present) >= MaxPending
    BY <1>1, PresentFinite, OutboxAssumption DEF OInv, OTypeOK
  <2>4. OInv'
    BY <2>1, <2>2 DEF OInv, OTypeOK, Tell, orun
  <2>5. Channel!Refuse(e)
    BY <2>1, <2>2, <2>3, ChannelCardinality DEF Channel!Refuse, Tell
  <2> QED BY <2>4, <2>5
<1>2. CASE ~(oCount >= MaxPending)
  <2>1. PICK answer \in {"accepted", "failed"} :
          /\ Tell(e, answer)
          /\ Write(e, File(0, TRUE), answer = "accepted" /\ oCount' = oCount + 1 /\ UNCHANGED orun,
                   answer = "failed" /\ UNCHANGED <<oCount, orun>>)
          /\ answer = "accepted" => oFaults' = oFaults
    BY ZenonT(40), <1>2 DEF OEnqueue
  <2>2. /\ oTold[e] = "new" /\ e \notin Present /\ e \notin Aged /\ oTold' = [oTold EXCEPT ![e] = answer]
        /\ UNCHANGED <<oReceived, oBuried>> /\ oFaults \in Nat
    BY <2>1 DEF OEnqueue, Tell, OInv, OTypeOK, Aged
  <2>3. File(0, TRUE) \in Files /\ File(0, TRUE).old = FALSE
    BY DEF File, Files
  <2>4. /\ oTold' \in [Events -> {"new", "accepted", "refused", "failed"}]
        /\ \A f \in Events : oTold'[f] = "new" => oTold[f] = "new" /\ f # e
    BY <2>1, <2>2 DEF OInv, OTypeOK
  <2>5. ASSUME Written(e, File(0, TRUE))
        PROVE  /\ oPending' \in [Events -> Files \cup {NoFile}] /\ Present' = Present \cup {e} /\ Aged' = Aged
               /\ Cardinality(Present') = Cardinality(Present) + 1
    <3>1. oPending' \in [Events -> Files \cup {NoFile}] /\ Present' = Present \cup {e} /\ Aged' = Aged \ {e}
      BY ZenonT(40), <2>3, <2>5, FileWritten
    <3>2. Cardinality(Present \cup {e}) = Cardinality(Present) + 1
      BY ZenonT(40), <2>2, PresentFinite, FS_AddElement
    <3> QED BY <2>2, <3>1, <3>2
  <2>6. CASE /\ oFaults' = oFaults /\ Written(e, File(0, TRUE)) /\ answer = "accepted" /\ oCount' = oCount + 1
             /\ UNCHANGED orun
    <3>1. OInv'
      BY <2>2, <2>4, <2>5, <2>6, PresentFinite DEF OInv, OTypeOK, orun
    <3>2. Channel!Accept(e)
      BY <2>2, <2>5, <2>6 DEF Channel!Accept
    <3> QED BY <3>1, <3>2
  <2>7. CASE /\ Fault /\ oPending' \in {oPending, [oPending EXCEPT ![e] = File(0, TRUE)]}
             /\ answer = "failed" /\ UNCHANGED <<oCount, orun>>
    <3>1. oFaults' \in Nat
      BY <2>2, <2>7 DEF Fault
    <3>2. CASE oPending' = oPending
      <4>1. Present' = Present /\ Aged' = Aged
        BY <3>2 DEF Present, Aged
      <4>2. OInv'
        BY <2>2, <2>4, <2>7, <3>1, <3>2, <4>1 DEF OInv, OTypeOK, orun
      <4>3. Channel!Fail(e)
        BY <2>2, <2>7, <4>1 DEF Channel!Fail
      <4> QED BY <4>2, <4>3
    <3>3. CASE Written(e, File(0, TRUE))
      <4>1. OInv'
        BY <2>2, <2>4, <2>5, <2>7, <3>1, <3>3, PresentFinite DEF OInv, OTypeOK, orun
      <4>2. Channel!Fail(e)
        BY <2>2, <2>5, <2>7, <3>3 DEF Channel!Fail
      <4> QED BY <4>1, <4>2
    <3> QED BY ZenonT(40), <2>7, <3>2, <3>3 DEF Written
  <2>8. CASE Fault /\ Reopened
    <3>1. oFaults' \in Nat /\ oFaults' # oFaults
      BY <2>2, <2>8 DEF Fault
    <3>2. answer = "failed"
      BY <2>1, <3>1
    <3>3. OInv' /\ UNCHANGED <<Present, Aged>>
      BY <2>2, <2>4, <2>8, <3>1, Restarted
    <3>4. Channel!Fail(e)
      BY <2>2, <3>2, <3>3 DEF Channel!Fail
    <3> QED BY <3>3, <3>4
  <2> QED BY ZenonT(40), <2>1, <2>6, <2>7, <2>8 DEF Write, NoFault
<1> QED BY <1>1, <1>2

LEMMA OInvDue ==
    ASSUME OInv, Due
    PROVE  OInv' /\ \E S \in SUBSET Events : Channel!Bury(S)
<1>1. PICK moved \in SUBSET Damaged :
        /\ Removed(moved) /\ oCount' = oCount - Cardinality(moved) /\ oBuried' = oBuried \cup moved
        /\ LET ready == {e \in Present \ moved : oPending[e].state = "good" /\ oPending[e].due} IN
           \/ /\ oFaults' = oFaults /\ oPhase' = "batch"
              /\ \E S \in SUBSET ready : oBatch' = [e \in S |-> oPending[e].attempts]
           \/ Fault /\ UNCHANGED <<oPhase, oBatch>>
  BY ZenonT(40) DEF Due, NoFault
<1>2. oPhase = "idle" /\ UNCHANGED <<oReply, oReceived, oTold>> /\ moved \in SUBSET Present /\ moved \in SUBSET Events
  BY DEF Due, Damaged, Present
<1>3. /\ oPending' \in [Events -> Files \cup {NoFile}] /\ Present' = Present \ moved /\ Aged' = Aged \ moved
      /\ Cardinality(moved) \in Nat /\ Cardinality(Present') = Cardinality(Present) - Cardinality(moved)
  BY <1>1, <1>2, FilesRemoved
<1>4. DOMAIN oBatch = {} /\ oReply = NoReply
  BY <1>2 DEF OInv
<1>5. /\ DOMAIN oBatch' \subseteq Present' /\ \A e \in DOMAIN oBatch' : oBatch'[e] \in Nat
      /\ oFaults' \in Nat /\ (oPhase' = "batch" \/ (oPhase' = oPhase /\ oBatch' = oBatch))
  <2>1. CASE Fault /\ UNCHANGED <<oPhase, oBatch>>
    BY <1>4, <2>1 DEF Fault, OInv, OTypeOK
  <2>2. ASSUME NEW S \in SUBSET {e \in Present \ moved : oPending[e].state = "good" /\ oPending[e].due},
               oBatch' = [e \in S |-> oPending[e].attempts]
        PROVE  DOMAIN oBatch' \subseteq Present' /\ \A e \in DOMAIN oBatch' : oBatch'[e] \in Nat
    <3>1. DOMAIN oBatch' = S /\ \A e \in S : oBatch'[e] = oPending[e].attempts
      BY <2>2
    <3>2. \A e \in Present : oPending[e] \in Files
      BY DEF OInv, OTypeOK, Present
    <3> QED BY <1>3, <3>1, <3>2 DEF Files
  <2> QED BY <1>1, <2>1, <2>2 DEF OInv, OTypeOK
<1>6. OTypeOK'
  BY <1>1, <1>2, <1>3, <1>5 DEF OInv, OTypeOK
<1>7. oCount' <= Cardinality(Present')
  BY <1>1, <1>3, PresentFinite DEF OInv, OTypeOK
<1>8. OInv'
  BY <1>2, <1>3, <1>4, <1>5, <1>6, <1>7 DEF OInv
<1>9. Channel!Bury(moved)
  BY <1>1, <1>2, <1>3 DEF Channel!Bury, Channel!Drop
<1> QED BY <1>2, <1>8, <1>9

LEMMA OInvSweep ==
    ASSUME OInv, Sweep
    PROVE  OInv' /\ \E S \in SUBSET Events : Channel!Expire(S)
<1>1. PICK gone \in SUBSET Aged, temp \in BOOLEAN :
        /\ Removed(gone) /\ oCount' = oCount - Cardinality(gone) - (IF temp THEN 1 ELSE 0)
        /\ oFaults' = oFaults \/ Fault
  BY DEF Sweep, NoFault
<1>2. /\ oPhase = "sweep" /\ oPhase' = "idle" /\ UNCHANGED <<oBatch, oReply, oReceived, oBuried, oTold>>
      /\ gone \in SUBSET Present /\ gone \in SUBSET Events
  BY DEF Sweep, ohist, Aged, Present
<1>3. /\ oPending' \in [Events -> Files \cup {NoFile}] /\ Present' = Present \ gone /\ Aged' = Aged \ gone
      /\ Cardinality(gone) \in Nat /\ Cardinality(Present') = Cardinality(Present) - Cardinality(gone)
  BY <1>1, <1>2, FilesRemoved
<1>4. DOMAIN oBatch = {} /\ oReply = NoReply
  BY <1>2 DEF OInv
<1>5. oCount' \in Int /\ oCount' <= Cardinality(Present')
  BY <1>1, <1>3, PresentFinite DEF OInv, OTypeOK
<1>6. oFaults' \in Nat
  BY <1>1 DEF OInv, OTypeOK, Fault
<1>7. OInv'
  BY <1>2, <1>3, <1>4, <1>5, <1>6 DEF OInv, OTypeOK
<1>8. Channel!Expire(gone)
  BY <1>2, <1>3 DEF Channel!Expire, Channel!Drop
<1> QED BY <1>2, <1>7, <1>8

(* Dispatch is done with the event of the reply. *)
LEMMA EventSettled ==
    ASSUME OInv, NEW e \in Events, oReply # NoReply, oReply.event = e, Settled(e)
    PROVE  /\ oPhase = "batch" /\ oPhase' = "batch" /\ oReply' = NoReply /\ e \in DOMAIN oBatch /\ e \in Present
           /\ oBatch[e] \in Nat /\ DOMAIN oBatch' = DOMAIN oBatch \ {e} /\ DOMAIN oBatch' \subseteq Present \ {e}
           /\ \A f \in DOMAIN oBatch' : oBatch'[f] \in Nat
<1>1. oPhase = "batch" /\ e \in DOMAIN oBatch /\ oBatch[e] \in Nat
  BY DEF OInv, OTypeOK
<1>2. DOMAIN oBatch' = DOMAIN oBatch \ {e} /\ \A f \in DOMAIN oBatch' : oBatch'[f] = oBatch[f]
  BY DEF Settled
<1> QED BY <1>1, <1>2 DEF OInv, OTypeOK, Settled

LEMMA OInvAck ==
    ASSUME OInv, NEW e \in Events, Ack(e)
    PROVE  OInv' /\ (Unseen \/ Channel!Forget({e}))
<1>1. oReply # NoReply /\ oReply.event = e /\ oReply.result = "ok" /\ Settled(e) /\ UNCHANGED <<oReceived, oBuried, oTold>>
  BY DEF Ack, NoReply, ohist
<1>2. /\ oPhase = "batch" /\ oPhase' = "batch" /\ oReply' = NoReply /\ e \in DOMAIN oBatch /\ e \in Present
      /\ DOMAIN oBatch' \subseteq Present \ {e} /\ \A f \in DOMAIN oBatch' : oBatch'[f] \in Nat
  BY ZenonT(40), <1>1, EventSettled
<1>3. e \in oReceived
  BY <1>1 DEF OInv
<1>4. CASE oFaults' = oFaults /\ Removed({e}) /\ oCount' = IF e \in Present THEN oCount - 1 ELSE oCount
  <2>1. /\ oPending' \in [Events -> Files \cup {NoFile}] /\ Present' = Present \ {e} /\ Aged' = Aged \ {e}
        /\ Cardinality(Present') = Cardinality(Present) - Cardinality({e})
    BY <1>2, <1>4, FilesRemoved
  <2>2. Cardinality({e}) = 1
    BY FS_Singleton
  <2>3. oCount' \in Int /\ oCount' <= Cardinality(Present')
    BY <1>2, <1>4, <2>1, <2>2, PresentFinite DEF OInv, OTypeOK
  <2>4. OInv'
    BY <1>1, <1>2, <1>4, <2>1, <2>3 DEF OInv, OTypeOK
  <2>5. Channel!Forget({e})
    BY <1>1, <1>2, <1>3, <2>1 DEF Channel!Forget, Channel!Drop
  <2> QED BY <2>4, <2>5
<1>5. CASE Fault /\ UNCHANGED <<oPending, oCount>>
  <2>1. Present' = Present /\ Aged' = Aged
    BY <1>5 DEF Present, Aged
  <2>2. OInv'
    BY <1>1, <1>2, <1>5, <2>1 DEF OInv, OTypeOK, Fault
  <2> QED BY <1>1, <2>1, <2>2 DEF Unseen
<1> QED BY <1>4, <1>5 DEF Ack, NoFault

LEMMA OInvRetry ==
    ASSUME OInv, NEW e \in Events, ORetry(e)
    PROVE  OInv' /\ (Unseen \/ Channel!Age(e))
<1> DEFINE file == File(oBatch[e] + 1, FALSE)
<1>1. /\ oReply # NoReply /\ oReply.event = e /\ UNCHANGED <<oReceived, oBuried, oTold>>
      /\ Write(e, file, Settled(e) /\ UNCHANGED oCount, Settled(e) /\ UNCHANGED oCount)
  BY ZenonT(40) DEF ORetry, Retried, ohist
<1>2. oBatch[e] \in Nat /\ e \in Present
  BY <1>1 DEF OInv, OTypeOK
<1>3. file \in Files /\ file.old = FALSE
  BY <1>2 DEF File, Files
<1> HIDE DEF file
<1>4. CASE oFaults' \in Nat /\ Written(e, file) /\ Settled(e) /\ UNCHANGED oCount
  <2>1. oPending' \in [Events -> Files \cup {NoFile}] /\ Present' = Present /\ Aged' = Aged \ {e}
    BY ZenonT(40), <1>2, <1>3, <1>4, FileWritten
  <2>2. /\ oPhase' = "batch" /\ oReply' = NoReply
        /\ DOMAIN oBatch' \subseteq Present \ {e} /\ \A f \in DOMAIN oBatch' : oBatch'[f] \in Nat
    BY ZenonT(40), <1>1, <1>4, EventSettled
  <2>3. OInv'
    BY <1>1, <1>4, <2>1, <2>2 DEF OInv, OTypeOK
  <2>4. Channel!Age(e)
    BY <1>1, <1>2, <2>1 DEF Channel!Age
  <2> QED BY <2>3, <2>4
<1>5. CASE oFaults' \in Nat /\ oPending' = oPending /\ Settled(e) /\ UNCHANGED oCount
  <2>1. Present' = Present /\ Aged' = Aged
    BY <1>5 DEF Present, Aged
  <2>2. /\ oPhase' = "batch" /\ oReply' = NoReply
        /\ DOMAIN oBatch' \subseteq Present \ {e} /\ \A f \in DOMAIN oBatch' : oBatch'[f] \in Nat
    BY ZenonT(40), <1>1, <1>5, EventSettled
  <2>3. OInv'
    BY <1>1, <1>5, <2>1, <2>2 DEF OInv, OTypeOK
  <2> QED BY <1>1, <2>1, <2>3 DEF Unseen
<1>6. CASE oFaults' \in Nat /\ Reopened
  <2>1. OInv' /\ UNCHANGED <<Present, Aged>>
    BY <1>1, <1>6, Restarted DEF OInv, OTypeOK
  <2> QED BY <1>1, <2>1 DEF Unseen
<1>7. oFaults' \in Nat
  BY <1>1 DEF Write, Fault, NoFault, OInv, OTypeOK
<1> QED BY <1>1, <1>4, <1>5, <1>6, <1>7 DEF Write, Written

LEMMA OInvFail ==
    ASSUME OInv, NEW e \in Events, OFail(e)
    PROVE  OInv' /\ (Unseen \/ Channel!Bury({e}))
<1>1. oReply # NoReply /\ oReply.event = e /\ Settled(e) /\ FailInOrder(e) /\ UNCHANGED <<oReceived, oTold>>
  BY DEF OFail
<1>2. /\ oPhase = "batch" /\ oPhase' = "batch" /\ oReply' = NoReply /\ e \in DOMAIN oBatch /\ e \in Present
      /\ DOMAIN oBatch' \subseteq Present \ {e} /\ \A f \in DOMAIN oBatch' : oBatch'[f] \in Nat
  BY ZenonT(40), <1>1, EventSettled
<1>3. oFaults' \in Nat
  BY <1>1 DEF FailInOrder, Fault, NoFault, OInv, OTypeOK
<1>4. CASE Removed({e}) /\ oCount' = oCount - 1 /\ oBuried' = oBuried \cup {e}
  <2>1. /\ oPending' \in [Events -> Files \cup {NoFile}] /\ Present' = Present \ {e} /\ Aged' = Aged \ {e}
        /\ Cardinality(Present') = Cardinality(Present) - Cardinality({e})
    BY <1>2, <1>4, FilesRemoved
  <2>2. Cardinality({e}) = 1
    BY FS_Singleton
  <2>3. oCount' \in Int /\ oCount' <= Cardinality(Present')
    BY <1>4, <2>1, <2>2, PresentFinite DEF OInv, OTypeOK
  <2>4. OInv'
    BY <1>1, <1>2, <1>3, <2>1, <2>3 DEF OInv, OTypeOK
  <2>5. Channel!Bury({e})
    BY <1>1, <1>2, <1>4, <2>1 DEF Channel!Bury, Channel!Drop
  <2> QED BY <2>4, <2>5
<1>5. CASE UNCHANGED <<oCount, oPending>> /\ (oBuried' = oBuried \cup {e} \/ oBuried' = oBuried)
  <2>1. Present' = Present /\ Aged' = Aged
    BY <1>5 DEF Present, Aged
  <2>2. OInv'
    BY <1>1, <1>2, <1>3, <1>5, <2>1 DEF OInv, OTypeOK
  <2>3. oBuried' = oBuried => Unseen
    BY <1>1, <2>1 DEF Unseen
  <2>4. oBuried' = oBuried \cup {e} => Channel!Bury({e})
    BY <1>1, <1>2, <2>1 DEF Channel!Bury
  <2> QED BY <1>5, <2>2, <2>3, <2>4
<1> QED BY <1>1, <1>4, <1>5 DEF FailInOrder

LEMMA OInvSend ==
    ASSUME OInv, NEW e \in Events, Send(e)
    PROVE  OInv' /\ (Unseen \/ Channel!Receive(e))
<1>1. /\ oPhase = "batch" /\ e \in DOMAIN oBatch /\ UNCHANGED <<oPending, oCount, oPhase, oBatch, oFaults, oBuried, oTold>>
      /\ \/ oReceived' = oReceived \cup {e} /\ \E result \in {"ok", "retry"} : oReply' = [event |-> e, result |-> result]
         \/ oReceived' = oReceived /\ \E result \in {"retry", "refused"} : oReply' = [event |-> e, result |-> result]
  BY DEF Send, ofiles
<1>2. Present' = Present /\ Aged' = Aged
  BY <1>1 DEF Present, Aged
<1>3. oReply' \in Replies /\ oReply'.event = e /\ (oReply'.result = "ok" => e \in oReceived')
  BY <1>1 DEF Replies
<1>4. OInv'
  BY <1>1, <1>2, <1>3 DEF OInv, OTypeOK
<1>5. Unseen \/ Channel!Receive(e)
  BY <1>1, <1>2 DEF Unseen, Channel!Receive, OInv
<1> QED BY <1>4, <1>5

(* Time passes and files are damaged between two rounds. *)
LEMMA OInvElapse ==
    ASSUME OInv, NEW e \in Events, Elapse(e) \/ Damage(e)
    PROVE  OInv' /\ (Unseen \/ Channel!Age(e))
<1>1. UNCHANGED <<oCount, oPhase, oBatch, oReply, oReceived, oBuried, oTold>> /\ oFaults' \in Nat
  BY DEF Elapse, Damage, orun, ohist, Fault, OInv, OTypeOK
<1>2. CASE UNCHANGED oPending
  <2>1. Present' = Present /\ Aged' = Aged
    BY <1>2 DEF Present, Aged
  <2> QED BY <1>1, <1>2, <2>1 DEF OInv, OTypeOK, Unseen
<1>3. ASSUME e \in Present, NEW file \in Files, oPending' = [oPending EXCEPT ![e] = file],
             file.old = oPending[e].old \/ file.old = TRUE
      PROVE  OInv' /\ (Unseen \/ Channel!Age(e))
  <2>1. oPending' \in [Events -> Files \cup {NoFile}] /\ oPending'[e] = file /\ \A f \in Events \ {e} : oPending'[f] = oPending[f]
    BY <1>3 DEF OInv, OTypeOK
  <2>2. file # NoFile
    BY DEF Files, NoFile
  <2>3. Present' = Present
    BY <1>3, <2>1, <2>2 DEF Present
  <2>4. Aged' = Aged \/ Aged' = Aged \cup {e}
    <3>1. CASE file.old = oPending[e].old
      BY <2>1, <2>3, <3>1 DEF Aged, Present
    <3>2. CASE file.old = TRUE
      BY <1>3, <2>1, <2>3, <3>2 DEF Aged, Present
    <3> QED BY ZenonT(40), <1>3, <3>1, <3>2
  <2>5. OInv'
    BY <1>1, <2>1, <2>3 DEF OInv, OTypeOK
  <2>6. Unseen \/ Channel!Age(e)
    BY <1>1, <1>3, <2>3, <2>4 DEF Unseen, Channel!Age
  <2> QED BY <2>5, <2>6
<1>4. ASSUME e \in Present PROVE oPending[e] \in Files
  BY <1>4 DEF OInv, OTypeOK, Present
<1>5. CASE e \in Present /\ oPending' = [oPending EXCEPT ![e].due = TRUE]
  <2>1. [oPending[e] EXCEPT !.due = TRUE] \in Files /\ [oPending[e] EXCEPT !.due = TRUE].old = oPending[e].old
    BY ZenonT(40), <1>4, <1>5 DEF Files
  <2> QED BY ZenonT(40), <1>3, <1>5, <2>1
<1>6. CASE e \in Present /\ oPending' = [oPending EXCEPT ![e].old = TRUE]
  <2>1. [oPending[e] EXCEPT !.old = TRUE] \in Files /\ [oPending[e] EXCEPT !.old = TRUE].old = TRUE
    BY ZenonT(40), <1>4, <1>6 DEF Files
  <2> QED BY ZenonT(40), <1>3, <1>6, <2>1
<1>7. CASE e \in Present /\ oPending' = [oPending EXCEPT ![e].state = "damaged"]
  <2>1. [oPending[e] EXCEPT !.state = "damaged"] \in Files /\ [oPending[e] EXCEPT !.state = "damaged"].old = oPending[e].old
    BY <1>4, <1>7 DEF Files
  <2> QED BY ZenonT(40), <1>3, <1>7, <2>1
<1> QED BY <1>2, <1>5, <1>6, <1>7 DEF Elapse, Damage

LEMMA OInvOther ==
    ASSUME OInv, Done \/ ElapseTemp \/ ORestart \/ UNCHANGED ovars
    PROVE  OInv' /\ Unseen
<1>1. CASE ORestart
  <2>1. OInv' /\ UNCHANGED <<Present, Aged>>
    BY <1>1, Restarted DEF ORestart, ohist, Fault, OInv, OTypeOK
  <2> QED BY <1>1, <2>1 DEF ORestart, ohist, Unseen
<1>2. CASE Done \/ ElapseTemp \/ UNCHANGED ovars
  <2>1. /\ UNCHANGED <<oPending, oCount, oBatch, oReply, oFaults, oReceived, oBuried, oTold>>
        /\ oPhase' = oPhase \/ (oPhase' = "sweep" /\ DOMAIN oBatch = {} /\ oReply = NoReply)
    BY <1>2 DEF Done, ElapseTemp, ovars, ofiles, orun, ohist
  <2>2. Present' = Present /\ Aged' = Aged
    BY <2>1 DEF Present, Aged
  <2> QED BY <2>1, <2>2 DEF OInv, OTypeOK, Unseen
<1> QED BY <1>1, <1>2

LEMMA OStep == OInv /\ [ONext]_ovars => OInv' /\ [Channel!Next]_(Channel!cvars)
<1> SUFFICES ASSUME OInv, [ONext]_ovars PROVE OInv' /\ [Channel!Next]_(Channel!cvars)
  OBVIOUS
<1>1. ASSUME NEW e \in Events, OEnqueue(e) PROVE OInv' /\ Channel!Next
  BY <1>1, OInvEnqueue DEF Channel!Next
<1>2. ASSUME NEW e \in Events, Send(e) PROVE OInv' /\ (Unseen \/ Channel!Next)
  BY <1>2, OInvSend DEF Channel!Next
<1>3. ASSUME NEW e \in Events, Ack(e) PROVE OInv' /\ (Unseen \/ Channel!Next)
  BY ZenonT(40), <1>3, OInvAck DEF Channel!Next
<1>4. ASSUME NEW e \in Events, ORetry(e) PROVE OInv' /\ (Unseen \/ Channel!Next)
  BY <1>4, OInvRetry DEF Channel!Next
<1>5. ASSUME NEW e \in Events, OFail(e) PROVE OInv' /\ (Unseen \/ Channel!Next)
  BY ZenonT(40), <1>5, OInvFail DEF Channel!Next
<1>6. ASSUME NEW e \in Events, Elapse(e) \/ Damage(e) PROVE OInv' /\ (Unseen \/ Channel!Next)
  BY <1>6, OInvElapse DEF Channel!Next
<1>7. ASSUME Due \/ Sweep PROVE OInv' /\ Channel!Next
  BY <1>7, OInvDue, OInvSweep DEF Channel!Next
<1>8. ASSUME Done \/ ElapseTemp \/ ORestart \/ UNCHANGED ovars PROVE OInv' /\ Unseen
  BY <1>8, OInvOther
<1> QED BY <1>1, <1>2, <1>3, <1>4, <1>5, <1>6, <1>7, <1>8, UnseenStutters DEF ONext

(* OutboxKeepsEvents: the outbox implements EventChannel for any events,     *)
(* limits and numbers of failures and crashes.                               *)
THEOREM OutboxImplementsChannel == OSpec => OutboxKeepsEvents
<1> QED BY OInvInit, OStep, PTL DEF OSpec, OutboxKeepsEvents, Channel!Spec
=============================================================================
