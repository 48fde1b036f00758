-------------------------- MODULE LocalQueueProofs --------------------------
(***************************************************************************)
(* Proofs about the local file queue, for any number of messages,          *)
(* recipients and faults and any limits.                                   *)
(***************************************************************************)
EXTENDS LocalQueue, TLAPS, FiniteSetTheorems

(* What Store.write followed by removals may do to the files: other ids keep *)
(* theirs, the written file is there, and the other directories keep or lose *)
(* theirs; without a fault all the removals have happened.                   *)
LEMMA PersistEffect ==
    ASSUME TypeOK, NEW id \in Ids, NEW d \in Dirs, NEW m \in Message, NEW removals,
           removals \subseteq SUBSET (Dirs \ {d}), Persist(id, d, m, removals)
    PROVE  /\ files' \in [Dirs -> [Ids -> Slots]]
           /\ faults' \in Nat /\ faults <= faults'
           /\ \A e \in Dirs, i \in Ids \ {id} : files'[e][i] = files[e][i]
           /\ \A e \in Dirs \ {d} : files'[e][id] \in {files[e][id], NoFile}
           /\ \/ files' = files
              \/ files'[d][id] = m
           /\ faults' = 0 => /\ files'[d][id] = m
                             /\ \A dirs \in removals : \A e \in dirs : files'[e][id] = NoFile
<1>1. CASE Fault(TRUE) /\ UNCHANGED files
  BY <1>1 DEF TypeOK, Fault
<1>2. CASE \E removed \in removals :
             /\ files' = Moved(id, d, m, removed)
             /\ Fault(\E dirs \in removals : \E e \in dirs \ removed : Exists(e, id))
  <2>1. PICK removed \in removals :
             /\ files' = Moved(id, d, m, removed)
             /\ Fault(\E dirs \in removals : \E e \in dirs \ removed : Exists(e, id))
    BY ZenonT(40), <1>2
  <2>2. files \in [Dirs -> [Ids -> Slots]] /\ removed \subseteq Dirs \ {d} /\ faults \in Nat
    BY DEF TypeOK
  <2>3. \A e \in Dirs, i \in Ids :
          files'[e][i] = IF i = id /\ e = d THEN m
                         ELSE IF i = id /\ e \in removed THEN NoFile
                         ELSE files[e][i]
    BY <2>1 DEF Moved
  <2>4. files' \in [Dirs -> [Ids -> Slots]]
    BY <2>1, <2>2 DEF Moved, Slots
  <2>5. /\ \A e \in Dirs, i \in Ids \ {id} : files'[e][i] = files[e][i]
        /\ \A e \in Dirs \ {d} : files'[e][id] \in {files[e][id], NoFile}
        /\ \A e \in removed : files'[e][id] = NoFile
        /\ files'[d][id] = m
    BY <2>2, <2>3
  <2>6. faults' \in Nat /\ faults <= faults'
    BY <2>1, <2>2 DEF Fault
  <2>7. ASSUME faults' = 0, NEW dirs \in removals, NEW e \in dirs
        PROVE  files'[e][id] = NoFile
    <3>1. e \in Dirs \ {d}
      OBVIOUS
    <3>2. e \notin removed => files[e][id] = NoFile
      BY <2>1, <2>2, <2>7 DEF Fault, Exists
    <3> QED BY <2>5, <3>1, <3>2
  <2> QED BY <2>4, <2>5, <2>6, <2>7
<1> QED BY ZenonT(40), <1>1, <1>2 DEF Persist

(* The directories named by the operations, and the records they write. *)
LEMMA Directories ==
    /\ PendingDirs \subseteq Dirs /\ TerminalDirs \subseteq Dirs
    /\ \A d \in Dirs : removePendingExcept(d) \subseteq SUBSET (Dirs \ {d})
    /\ \A d \in Dirs : PendingDirs \ {d} \in removePendingExcept(d)
    /\ \A state \in AdminStates : dirForState(state) \in Dirs
BY DEF PendingDirs, TerminalDirs, Dirs, removePendingExcept, AdminStates, dirForState

LEMMA Records ==
    \A rcpt \in SUBSET Rcpts, attempts \in Nat, due \in BOOLEAN :
        Record(rcpt, attempts, due) \in Message /\ Record(rcpt, attempts, due).hold = "no"
BY DEF Record, Message

(* Replacing one file. *)
LEMMA PointUpdate ==
    ASSUME TypeOK, NEW d \in Dirs, NEW id \in Ids, NEW v \in Slots
    PROVE  /\ [files EXCEPT ![d][id] = v] \in [Dirs -> [Ids -> Slots]]
           /\ \A e \in Dirs, i \in Ids :
                [files EXCEPT ![d][id] = v][e][i] = IF e = d /\ i = id THEN v ELSE files[e][i]
BY DEF TypeOK

(* The passing of time changes one file's due or hold. *)
LEMMA ElapseEffect ==
    ASSUME TypeOK, NEW d \in PendingDirs, NEW id \in Ids, Elapse(d, id)
    PROVE  /\ UNCHANGED <<paused, leased, buffer, up, faults, accepted, held, excused>>
           /\ Readable(d, id)
           /\ \E v \in Message : /\ (v.hold = "no") <=> (files[d][id].hold = "no")
                                 /\ v.rcpt = files[d][id].rcpt
                                 /\ v.attempts = files[d][id].attempts
                                 /\ files' = [files EXCEPT ![d][id] = v]
<1>1. files[d][id] \in Message
  BY Directories DEF Elapse, Readable, TypeOK, Slots
<1>2. CASE files' = [files EXCEPT ![d][id].due = TRUE]
  <2> DEFINE v == [files[d][id] EXCEPT !.due = TRUE]
  <2>1. v \in Message /\ v.hold = files[d][id].hold
        /\ v.rcpt = files[d][id].rcpt /\ v.attempts = files[d][id].attempts
    BY ZenonT(40), <1>1 DEF Message
  <2>2. files' = [files EXCEPT ![d][id] = v]
    BY <1>2
  <2> HIDE DEF v
  <2> QED BY ZenonT(40), <2>1, <2>2 DEF Elapse, history
<1>3. CASE files[d][id].hold = "held" /\ files' = [files EXCEPT ![d][id].hold = "expired"]
  <2> DEFINE v == [files[d][id] EXCEPT !.hold = "expired"]
  <2>1. v \in Message /\ v.hold = "expired"
        /\ v.rcpt = files[d][id].rcpt /\ v.attempts = files[d][id].attempts
    BY <1>1 DEF Message
  <2>2. files' = [files EXCEPT ![d][id] = v]
    BY <1>3
  <2> HIDE DEF v
  <2> QED BY ZenonT(40), <1>3, <2>1, <2>2 DEF Elapse, history
<1> QED BY <1>2, <1>3 DEF Elapse

(* The effect of a worker's result: none if it is refused, else a write to d *)
(* with the removal of the message from the other pending directories.       *)
LEMMA SettleEffect ==
    ASSUME TypeOK, NEW c \in leased, NEW d \in Dirs, NEW m \in Message, Settle(c, d, m)
    PROVE  /\ c.id \in Ids
           /\ leased' = leased \ {c}
           /\ UNCHANGED <<paused, buffer, up, accepted, held, excused>>
           /\ \/ UNCHANGED <<files, faults>>
              \/ /\ messageState(c.id) \in PendingDirs
                 /\ Persist(c.id, d, m, removePendingExcept(d))
BY DEF Settle, history, TypeOK, Copy

(* A requeue writes to inbound and takes the source away. *)
LEMMA RequeueEffect ==
    ASSUME TypeOK, NEW state \in AdminStates, NEW id \in Ids, RequeueFromState(state, id)
    PROVE  /\ dirForState(state) \in Dirs /\ Readable(dirForState(state), id)
           /\ files[dirForState(state)][id].hold # "no" => state = "quarantine"
           /\ Released(dirForState(state), id) \in Message
           /\ Released(dirForState(state), id).hold = "no"
           /\ paused' \in BOOLEAN
           /\ leased' = leased /\ buffer' = buffer
           /\ up' = up /\ accepted' = accepted /\ excused' = excused
           /\ held' = IF state = "quarantine" /\ files' # files THEN held \ {id} ELSE held
           /\ \/ UNCHANGED <<files, faults>>
              \/ /\ dirForState(state) \in TerminalDirs =>
                      \E diskOK \in DiskReadings : admit(id, diskOK) = "ok"
                 /\ Persist(id, "inbound", Released(dirForState(state), id),
                            {{}, {dirForState(state)} \ {"inbound"}})
<1>1. dirForState(state) \in Dirs
  BY Directories
<1>2. files[dirForState(state)][id] \in Message
  BY <1>1 DEF RequeueFromState, Readable, TypeOK, Slots
<1>3. /\ Released(dirForState(state), id) \in Message
      /\ Released(dirForState(state), id).hold = "no"
  BY ZenonT(40), <1>2 DEF Message, Released
<1>4. paused' \in BOOLEAN
  BY ZenonT(40) DEF RequeueFromState, TypeOK
<1> QED
  BY ZenonT(40), <1>1, <1>3, <1>4 DEF RequeueFromState

LEMMA TypeInit == Init => TypeOK
<1> SUFFICES ASSUME Init PROVE TypeOK
  OBVIOUS
<1>1. PICK legacy \in SUBSET LegacyIds :
        /\ accepted = legacy
        /\ files = [d \in Dirs |-> [id \in Ids |->
             IF d = "pending" /\ id \in legacy
             THEN [rcpt |-> Rcpts, attempts |-> 0, due |-> TRUE, hold |-> "no"]
             ELSE NoFile]]
  BY DEF Init
<1>2. [rcpt |-> Rcpts, attempts |-> 0, due |-> TRUE, hold |-> "no"] \in Message
  BY DEF Message
<1> QED BY ZenonT(40), <1>1, <1>2, IdAssumption DEF Init, TypeOK, Slots

LEMMA TypeStep == TypeOK /\ [Next]_vars => TypeOK'
<1> SUFFICES ASSUME TypeOK, [Next]_vars PROVE TypeOK'
  OBVIOUS
<1>1. ASSUME NEW id \in Ids, NEW rcpt \in (SUBSET Rcpts) \ {{}}, NEW hold \in Holds,
             Enqueue(id, rcpt, hold)
      PROVE  TypeOK'
  <2> DEFINE m == [rcpt |-> rcpt, attempts |-> 0, due |-> TRUE, hold |-> hold]
  <2>1. m \in Message
    BY DEF Message, Holds
  <2>2. CASE UNCHANGED <<files, faults, history>> /\ paused' = TRUE
    BY <1>1, <2>2 DEF Enqueue, TypeOK, history
  <2>3. CASE Persist(id, "inbound", m, {{}}) /\ paused' = FALSE
    <3>1. files' \in [Dirs -> [Ids -> Slots]] /\ faults' \in Nat
      BY <2>1, <2>3, PersistEffect, Directories DEF PendingDirs
    <3> QED BY ZenonT(40), <1>1, <2>3, <3>1 DEF Enqueue, TypeOK, history
  <2> QED BY ZenonT(40), <1>1, <2>2, <2>3 DEF Enqueue
<1>2. CASE Due
  <2>0. PICK stuck \in SUBSET (TornFiles \cup ExpiredFiles) :
          LET cleaned == (TornFiles \cup ExpiredFiles) \ stuck
          IN  /\ Fault(stuck # {})
              /\ files' = [d \in Dirs |-> [id \in Ids |->
                             IF <<d, id>> \in cleaned THEN NoFile ELSE files[d][id]]]
              /\ excused' = excused \cup {id \in {f[2] : f \in cleaned} :
                                 \A d \in Dirs : files'[d][id] = NoFile}
    BY ZenonT(40), <1>2 DEF Due
  <2>1. files' \in [Dirs -> [Ids -> Slots]] /\ faults' \in Nat /\ excused' \subseteq Ids
    BY <2>0 DEF TypeOK, Slots, Fault, TornFiles, ExpiredFiles, PendingFiles
  <2>2. ASSUME NEW f \in DueFiles PROVE CopyOf(f) \in Copy
    BY Directories DEF TypeOK, DueFiles, PendingFiles, TornFiles, Readable, Slots, Message, CopyOf, Copy
  <2>3. \A n : \A batch \in Batches(n) : batch \subseteq Copy
    BY <2>2 DEF Batches
  <2>4. leased' \subseteq Copy /\ buffer' \subseteq Copy
    BY <1>2, <2>3 DEF Due, TypeOK, buffered, HandOuts
  <2> QED BY <1>2, <2>1, <2>4 DEF Due, TypeOK
<1>3. ASSUME NEW c \in leased, NEW d \in Dirs, NEW m \in Message, Settle(c, d, m)
      PROVE  TypeOK'
  <2>1. files' \in [Dirs -> [Ids -> Slots]] /\ faults' \in Nat
    BY <1>3, SettleEffect, PersistEffect, Directories DEF TypeOK
  <2> QED BY <1>3, <2>1, SettleEffect DEF TypeOK
<1>4. ASSUME NEW c \in leased, AckSent(c) PROVE TypeOK'
  BY ZenonT(40), <1>3, <1>4, Records DEF AckSent, TypeOK, Copy, Dirs, TerminalDirs
<1>5. ASSUME NEW c \in leased, NEW remaining \in SUBSET c.rcpt,
             Retry(c, remaining) \/ Defer(c, remaining) \/ Fail(c, remaining)
      PROVE  TypeOK'
  <2>1. remaining \in SUBSET Rcpts /\ c.attempts \in Nat /\ counted(c.attempts) \in Nat
    BY DEF TypeOK, Copy, counted
  <2>2. "retry" \in Dirs /\ "dlq" \in Dirs
    BY DEF Dirs, TerminalDirs, PendingDirs
  <2>3. CASE Retry(c, remaining)
    <3>1. Record(remaining, counted(c.attempts), FALSE) \in Message
      BY ZenonT(40), <2>1, Records
    <3> QED BY ZenonT(40), <1>3, <2>2, <2>3, <3>1 DEF Retry
  <2>4. CASE Defer(c, remaining)
    BY ZenonT(40), <1>3, <2>1, <2>2, <2>4, Records DEF Defer
  <2>5. CASE Fail(c, remaining)
    <3>1. Record(remaining, counted(c.attempts), TRUE) \in Message
      BY ZenonT(40), <2>1, Records
    <3> QED BY ZenonT(40), <1>3, <2>2, <2>5, <3>1 DEF Fail
  <2> QED BY <1>5, <2>3, <2>4, <2>5
<1>6. ASSUME NEW state \in AdminStates, NEW id \in Ids, RequeueFromState(state, id)
      PROVE  TypeOK'
  <2>1. {{}, {dirForState(state)} \ {"inbound"}} \subseteq SUBSET (Dirs \ {"inbound"})
    BY Directories
  <2>2. files' \in [Dirs -> [Ids -> Slots]] /\ faults' \in Nat
    <3> DEFINE d == dirForState(state)
    <3>1. Released(d, id) \in Message /\ "inbound" \in Dirs
      BY ZenonT(40), <1>6, RequeueEffect DEF Dirs, PendingDirs
    <3>2. CASE UNCHANGED <<files, faults>>
      BY <3>2 DEF TypeOK
    <3>3. CASE Persist(id, "inbound", Released(d, id), {{}, {d} \ {"inbound"}})
      BY <2>1, <3>1, <3>3, PersistEffect
    <3> QED BY ZenonT(40), <1>6, <3>2, <3>3, RequeueEffect
  <2> QED BY ZenonT(40), <1>6, <2>2, RequeueEffect DEF TypeOK
<1>7. ASSUME NEW d \in Dirs, NEW id \in Ids, Discard(d, id) PROVE TypeOK'
  BY <1>7 DEF Discard, TypeOK, Slots
<1>8. ASSUME NEW id \in Ids, DeleteQuarantined(id) PROVE TypeOK'
  BY <1>7, <1>8, Directories DEF DeleteQuarantined, PendingDirs
<1>9. ASSUME NEW d \in TerminalDirs, NEW id \in Ids, removeOlder(d, id) PROVE TypeOK'
  BY <1>7, <1>9, Directories DEF removeOlder
<1>10. ASSUME NEW d \in PendingDirs, NEW id \in Ids, Elapse(d, id) PROVE TypeOK'
  <2>1. PICK v \in Message : files' = [files EXCEPT ![d][id] = v]
    BY <1>10, ElapseEffect
  <2>2. files' \in [Dirs -> [Ids -> Slots]]
    BY <2>1, PointUpdate, Directories DEF Slots
  <2>3. UNCHANGED <<paused, leased, buffer, up, faults, accepted, held, excused>>
    BY <1>10, ElapseEffect
  <2> QED BY <2>2, <2>3 DEF TypeOK
<1>11. CASE Crash
  <2>1. ASSUME NEW d \in Dirs, NEW id \in Ids, files' = [files EXCEPT ![d][id] = Torn]
        PROVE  files' \in [Dirs -> [Ids -> Slots]]
    BY <2>1, PointUpdate DEF Slots
  <2>2. files' \in [Dirs -> [Ids -> Slots]]
    BY <1>11, <2>1 DEF Crash, TypeOK
  <2>3. faults' \in Nat
    BY <1>11 DEF Crash, TypeOK, Fault
  <2> QED BY ZenonT(40), <1>11, <2>2, <2>3 DEF Crash, TypeOK, history
<1>12. CASE NewBackend
  BY <1>12 DEF NewBackend, TypeOK, history
<1>13. ASSUME NEW f \in PendingDirs \X Ids, Repair(f) PROVE TypeOK'
  BY <1>7, <1>13, Directories DEF Repair
<1>14. CASE UNCHANGED vars
  BY <1>14 DEF vars, TypeOK
<1> QED
  BY <1>1, <1>2, <1>4, <1>5, <1>6, <1>8, <1>9, <1>10, <1>11, <1>12, <1>13, <1>14 DEF Next

(* The state has its type in every behaviour. *)
THEOREM TypeCorrect == Spec => []TypeOK
BY TypeInit, TypeStep, PTL DEF Spec

-----------------------------------------------------------------------------
(* What messageState says of the directories. *)
LEMMA StateMeaning ==
    \A id : /\ messageState(id) = "none" => \A d \in Dirs : ~Exists(d, id)
            /\ messageState(id) \in TerminalDirs => \A d \in PendingDirs : ~Exists(d, id)
            /\ messageState(id) \in PendingDirs =>
                  Exists(messageState(id), id) /\ messageState(id) # "quarantine"
BY SMTT(40) DEF messageState, Dirs, PendingDirs, TerminalDirs, Exists

(* The steps of the queue, with the four results of a worker in one case and *)
(* the three deletions in another.                                           *)
Removable(d, id) ==
    \/ d = "inbound" /\ Readable(d, id) /\ files[d][id].hold # "no"
    \/ \A c \in Copies : c.id # id

DownIdle == ~up => Copies = {}

LEMMA StepCases ==
    ASSUME TypeOK, DownIdle, Next
    PROVE  \/ \E id \in Ids, rcpt \in SUBSET Rcpts, hold \in {"no", "held"} : Enqueue(id, rcpt, hold)
           \/ Due
           \/ \E c \in leased, d \in {"sent", "retry", "dlq"}, m \in Message :
                 m.hold = "no" /\ Settle(c, d, m)
           \/ \E state \in AdminStates, id \in Ids : RequeueFromState(state, id)
           \/ \E d \in Dirs, id \in Ids : Removable(d, id) /\ Discard(d, id)
           \/ \E d \in PendingDirs, id \in Ids : Elapse(d, id)
           \/ Crash
           \/ NewBackend
<1>1. ASSUME NEW c \in leased, AckSent(c)
      PROVE  \E d \in {"sent", "retry", "dlq"}, m \in Message : m.hold = "no" /\ Settle(c, d, m)
  <2>1. /\ Record(c.rcpt, c.attempts, TRUE) \in Message
        /\ Record(c.rcpt, c.attempts, TRUE).hold = "no"
    BY ZenonT(40), Records DEF TypeOK, Copy
  <2> QED BY ZenonT(40), <1>1, <2>1 DEF AckSent
<1>2. ASSUME NEW c \in leased, NEW remaining \in SUBSET c.rcpt,
             Retry(c, remaining) \/ Defer(c, remaining) \/ Fail(c, remaining)
      PROVE  \E d \in {"sent", "retry", "dlq"}, m \in Message : m.hold = "no" /\ Settle(c, d, m)
  <2>1. remaining \in SUBSET Rcpts /\ c.attempts \in Nat /\ counted(c.attempts) \in Nat
    BY DEF TypeOK, Copy, counted
  <2>2. \A due \in BOOLEAN : /\ Record(remaining, c.attempts, due) \in Message
                             /\ Record(remaining, c.attempts, due).hold = "no"
                             /\ Record(remaining, counted(c.attempts), due) \in Message
                             /\ Record(remaining, counted(c.attempts), due).hold = "no"
    BY <2>1, Records
  <2> QED BY ZenonT(40), <1>2, <2>2 DEF Retry, Defer, Fail
<1>3. ASSUME NEW id \in Ids, DeleteQuarantined(id)
      PROVE  \E d \in Dirs, i \in Ids : Removable(d, i) /\ Discard(d, i)
  BY <1>3 DEF DeleteQuarantined, Removable, Dirs, PendingDirs
<1>4. ASSUME NEW d \in TerminalDirs, NEW id \in Ids, removeOlder(d, id)
      PROVE  \E e \in Dirs, i \in Ids : Removable(e, i) /\ Discard(e, i)
  BY <1>4, Directories DEF removeOlder, Removable
<1>5. ASSUME NEW f \in PendingDirs \X Ids, Repair(f)
      PROVE  \E e \in Dirs, i \in Ids : Removable(e, i) /\ Discard(e, i)
  BY <1>5, Directories DEF Repair, Removable, DownIdle
<1> QED BY <1>1, <1>2, <1>3, <1>4, <1>5 DEF Next, Holds

(* Every readable file on hold belongs to a message the history counts as    *)
(* held.                                                                     *)
HoldTracked ==
    \A d \in Dirs, id \in Ids :
        Readable(d, id) /\ files[d][id].hold # "no" => id \in held

(* The inductive invariant: AcceptedKept and QuarantineHolds are what we     *)
(* want.  QuarantineHolds needs that a new quarantined message is in no      *)
(* worker's hands (LeasedBacked: a leased id has a file, so it is not new),  *)
(* and LeasedBacked needs that a deletion from quarantine cannot hit the     *)
(* file that backs a lease (HoldTracked), and that repairs find no leases    *)
(* (DownIdle).                                                               *)
KeepInv == /\ AcceptedKept /\ LeasedBacked /\ HoldTracked
           /\ DownIdle /\ QuarantineHolds

LEMMA KeepEnqueue ==
    ASSUME TypeOK, KeepInv, NEW id \in Ids, NEW rcpt \in SUBSET Rcpts,
           NEW hold \in {"no", "held"}, Enqueue(id, rcpt, hold)
    PROVE  KeepInv'
<1> DEFINE m == [rcpt |-> rcpt, attempts |-> 0, due |-> TRUE, hold |-> hold]
<1>1. m \in Message /\ m.hold = hold
  BY DEF Message
<1>2. \A d \in Dirs : files[d][id] = NoFile
  BY StateMeaning DEF Enqueue, Exists
<1>3. \A c \in Copies : c.id # id
  BY <1>2 DEF KeepInv, LeasedBacked, Readable
<1>4. Copies' = Copies /\ up' = up
  BY SMTT(40) DEF Enqueue, Copies
<1>5. CASE files' = files /\ UNCHANGED history
  BY <1>4, <1>5 DEF KeepInv, AcceptedKept, LeasedBacked, HoldTracked, DownIdle,
                    QuarantineHolds, Holders, Exists, Readable, history
<1>6. CASE Persist(id, "inbound", m, {{}}) /\ files' # files
  <2>0. "inbound" \in Dirs
    BY DEF Dirs, PendingDirs
  <2>1. /\ \A e \in Dirs, i \in Ids \ {id} : files'[e][i] = files[e][i]
        /\ \A e \in Dirs \ {"inbound"} : files'[e][id] = NoFile
        /\ files'["inbound"][id] = m
    BY <1>1, <1>2, <1>6, <2>0, PersistEffect
  <2>2. /\ accepted' = accepted \cup {id}
        /\ held' = IF hold = "no" THEN held \ {id} ELSE held \cup {id}
        /\ excused' = excused \ {id}
    BY <1>6 DEF Enqueue, history
  <2>3. m \notin {NoFile, Torn}
    BY ZenonT(40), <1>1, SlotAssumption
  <2> HIDE DEF m
  <2>4. AcceptedKept'
    BY SMTT(40), <2>0, <2>1, <2>2, <2>3 DEF KeepInv, AcceptedKept, Holders, Exists, TypeOK
  <2>5. LeasedBacked'
    BY <1>3, <1>4, <2>1 DEF KeepInv, LeasedBacked, Readable, TypeOK, Copy, Copies
  <2>6. HoldTracked'
    BY SMTT(40), <1>1, <1>2, <2>1, <2>2 DEF KeepInv, HoldTracked, Readable
  <2>7. QuarantineHolds'
    BY <1>1, <1>3, <1>4, <2>0, <2>1, <2>2 DEF KeepInv, QuarantineHolds, Readable, Holders, Exists, TypeOK
  <2> QED BY <1>4, <2>4, <2>5, <2>6, <2>7 DEF KeepInv, DownIdle
<1> QED
  <2>1. CASE UNCHANGED <<files, faults, history>>
    BY <1>5, <2>1 DEF history
  <2>2. CASE /\ Persist(id, "inbound", m, {{}})
             /\ IF files' = files THEN UNCHANGED history ELSE TRUE
    BY <1>5, <1>6, <2>2
  <2> QED BY <2>1, <2>2 DEF Enqueue

LEMMA KeepDue ==
    ASSUME TypeOK, KeepInv, Due
    PROVE  KeepInv'
<1>1. PICK cleaned \in SUBSET (TornFiles \cup ExpiredFiles) :
        /\ files' = [d \in Dirs |-> [id \in Ids |->
                       IF <<d, id>> \in cleaned THEN NoFile ELSE files[d][id]]]
        /\ excused' = excused \cup {id \in {f[2] : f \in cleaned} :
                           \A d \in Dirs : files'[d][id] = NoFile}
  BY ZenonT(40) DEF Due
<1>2. \A d \in Dirs, id \in Ids :
        files'[d][id] = IF <<d, id>> \in cleaned THEN NoFile ELSE files[d][id]
  BY <1>1
<1>3. accepted' = accepted /\ held' = held /\ up' = up /\ up
  BY DEF Due
<1>4. \A d \in Dirs, id \in Ids :
        Readable(d, id) /\ files[d][id].hold = "no" => files'[d][id] = files[d][id]
  BY ZenonT(40), <1>2 DEF TornFiles, ExpiredFiles, Readable
<1>5. AcceptedKept'
  <2> SUFFICES ASSUME NEW id \in accepted, id \notin excused', \A d \in Dirs : files'[d][id] = NoFile
               PROVE  FALSE
    BY <1>3 DEF AcceptedKept, Holders, Exists
  <2>1. id \in Ids /\ id \notin excused
    BY <1>1 DEF TypeOK
  <2>2. PICK d \in Dirs : files[d][id] # NoFile
    BY <2>1 DEF KeepInv, AcceptedKept, Holders, Exists
  <2>3. <<d, id>> \in cleaned
    BY <1>2, <2>1, <2>2
  <2>4. id \in {f[2] : f \in cleaned}
    BY <2>3
  <2> QED BY <1>1, <2>4
<1>6. \A c \in Copies' : c \in Copies \/ \E f \in DueFiles : c = CopyOf(f)
  <2>1. \A n : \A batch \in Batches(n) : \A c \in batch : \E f \in DueFiles : c = CopyOf(f)
    BY DEF Batches
  <2> QED BY <2>1 DEF Due, buffered, HandOuts, Copies
<1>7. LeasedBacked'
  <2> SUFFICES ASSUME NEW c \in Copies'
               PROVE  \E d \in Dirs : Readable(d, c.id)' /\ files'[d][c.id].hold = "no"
    BY DEF LeasedBacked
  <2>1. c.id \in Ids /\ \E d \in Dirs : Readable(d, c.id) /\ files[d][c.id].hold = "no"
    <3>1. CASE c \in Copies
      BY SMTT(40), <3>1 DEF KeepInv, LeasedBacked, TypeOK, Copy, Copies
    <3>2. ASSUME NEW f \in DueFiles, c = CopyOf(f) PROVE <2>1
      BY <3>2, Directories DEF CopyOf, DueFiles, PendingFiles, TornFiles
    <3> QED BY <1>6, <3>1, <3>2
  <2> QED BY <1>4, <2>1 DEF Readable
<1>8. HoldTracked'
  BY ZenonT(40), <1>2, <1>3 DEF KeepInv, HoldTracked, Readable
<1>9. QuarantineHolds'
  <2> SUFFICES ASSUME NEW id \in held
               PROVE  /\ \A c \in Copies' : c.id # id
                      /\ \A d \in Dirs : files'[d][id] # NoFile => d = "inbound"
                      /\ Readable("inbound", id)' => files'["inbound"][id].hold # "no"
    BY <1>3 DEF QuarantineHolds, Holders, Exists
  <2>1. id \in Ids /\ "inbound" \in Dirs
    BY DEF TypeOK, Dirs, PendingDirs
  <2>2. \A d \in Dirs : files[d][id] # NoFile => d = "inbound"
    BY DEF KeepInv, QuarantineHolds, Holders, Exists
  <2>3. Readable("inbound", id) => files["inbound"][id].hold # "no"
    BY SMTT(40) DEF KeepInv, QuarantineHolds
  <2>4. ASSUME NEW f \in DueFiles PROVE CopyOf(f).id # id
    BY SMTT(40), <2>2, <2>3, Directories DEF CopyOf, DueFiles, PendingFiles, TornFiles, Exists
  <2>5. \A c \in Copies : c.id # id
    BY DEF KeepInv, QuarantineHolds
  <2> QED BY ZenonT(40), <1>2, <1>6, <2>1, <2>2, <2>3, <2>4, <2>5 DEF Readable
<1> QED BY <1>3, <1>5, <1>7, <1>8, <1>9 DEF KeepInv, DownIdle

(* A write of a message without a hold keeps the invariant when it releases  *)
(* the message or the message was not held, and when no lease is added.      *)
LEMMA KeepPersist ==
    ASSUME TypeOK, KeepInv, NEW id \in Ids, NEW d \in Dirs, NEW m \in Message, m.hold = "no",
           NEW removals, removals \subseteq SUBSET (Dirs \ {d}), Persist(id, d, m, removals),
           id \notin held', held \ {id} \subseteq held', held' \subseteq held,
           id \in held => d = "inbound",
           Copies' \subseteq Copies, up' = up, accepted' = accepted, excused' = excused,
           files' = files => held' = held
    PROVE  KeepInv'
<1>1. CASE files' = files
  BY <1>1 DEF KeepInv, AcceptedKept, LeasedBacked, HoldTracked, DownIdle,
              QuarantineHolds, Holders, Exists, Readable
<1>2. CASE files' # files
  <2>1. /\ \A e \in Dirs, i \in Ids \ {id} : files'[e][i] = files[e][i]
        /\ \A e \in Dirs \ {d} : files'[e][id] \in {files[e][id], NoFile}
        /\ files'[d][id] = m
    BY <1>2, PersistEffect
  <2>2. m \notin {NoFile, Torn}
    BY SlotAssumption
  <2>3. AcceptedKept'
    BY SMTT(40), <2>1, <2>2 DEF KeepInv, AcceptedKept, Holders, Exists, TypeOK
  <2>4. LeasedBacked'
    BY <2>1, <2>2 DEF KeepInv, LeasedBacked, Readable, TypeOK, Copy, Copies
  <2>5. HoldTracked'
    <3> SUFFICES ASSUME NEW e \in Dirs, NEW i \in Ids, Readable(e, i)', files'[e][i].hold # "no"
                 PROVE  i \in held'
      BY DEF HoldTracked
    <3>1. CASE i # id
      BY <2>1, <3>1 DEF KeepInv, HoldTracked, Readable
    <3>2. CASE i = id
      <4>1. e # d
        BY SMTT(40), <2>1, <3>2
      <4>2. Readable(e, i) /\ files[e][i].hold # "no"
        BY SMTT(40), <2>1, <3>2, <4>1 DEF Readable
      <4>3. id \in held /\ e = "inbound"
        BY SMTT(40), <3>2, <4>2 DEF KeepInv, HoldTracked, QuarantineHolds, Holders, Exists, Readable
      <4> QED BY SMTT(40), <4>1, <4>3
    <3> QED BY <3>1, <3>2
  <2>6. QuarantineHolds'
    <3> SUFFICES ASSUME NEW i \in held'
                 PROVE  /\ \A c \in Copies' : c.id # i
                        /\ \A e \in Dirs : files'[e][i] # NoFile => e = "inbound"
                        /\ Readable("inbound", i)' => files'["inbound"][i].hold # "no"
      BY DEF QuarantineHolds, Holders, Exists
    <3>1. i \in held /\ i \in Ids \ {id} /\ "inbound" \in Dirs
      BY DEF TypeOK, Dirs, PendingDirs
    <3>2. \A e \in Dirs : files'[e][i] = files[e][i]
      BY <2>1, <3>1
    <3> QED BY SMTT(40), <3>1, <3>2 DEF KeepInv, QuarantineHolds, Holders, Exists, Readable
  <2> QED BY SMTT(40), <2>3, <2>4, <2>5, <2>6 DEF KeepInv, DownIdle
<1> QED BY SMTT(40), <1>1, <1>2

LEMMA KeepSettle ==
    ASSUME TypeOK, KeepInv, NEW c \in leased, NEW d \in {"sent", "retry", "dlq"},
           NEW m \in Message, m.hold = "no", Settle(c, d, m)
    PROVE  KeepInv'
<1>1. d \in Dirs
  BY DEF Dirs, PendingDirs, TerminalDirs
<1>2. /\ c.id \in Ids /\ Copies' \subseteq Copies
      /\ up' = up /\ accepted' = accepted /\ held' = held /\ excused' = excused
  BY <1>1, SettleEffect DEF Copies
<1>3. c.id \notin held
  BY SMTT(40) DEF KeepInv, QuarantineHolds, Copies
<1>4. CASE UNCHANGED <<files, faults>>
  BY <1>2, <1>4 DEF KeepInv, AcceptedKept, LeasedBacked, HoldTracked, DownIdle,
                    QuarantineHolds, Holders, Exists, Readable
<1>5. CASE Persist(c.id, d, m, removePendingExcept(d))
  BY SMTT(40), <1>1, <1>2, <1>3, <1>5, KeepPersist, Directories
<1> QED BY <1>1, <1>4, <1>5, SettleEffect

LEMMA KeepRequeue ==
    ASSUME TypeOK, KeepInv, NEW state \in AdminStates, NEW id \in Ids, RequeueFromState(state, id)
    PROVE  KeepInv'
<1> DEFINE d == dirForState(state)
<1>1. /\ d \in Dirs /\ Readable(d, id)
      /\ files[d][id].hold # "no" => state = "quarantine"
      /\ Released(d, id) \in Message /\ Released(d, id).hold = "no"
      /\ Copies' = Copies /\ up' = up /\ accepted' = accepted /\ excused' = excused
      /\ held' = IF state = "quarantine" /\ files' # files THEN held \ {id} ELSE held
      /\ \/ UNCHANGED <<files, faults>>
         \/ Persist(id, "inbound", Released(d, id), {{}, {d} \ {"inbound"}})
  <2>1. /\ d \in Dirs /\ Readable(d, id)
        /\ files[d][id].hold # "no" => state = "quarantine"
        /\ Released(d, id) \in Message /\ Released(d, id).hold = "no"
    BY ZenonT(40), RequeueEffect
  <2>2. /\ Copies' = Copies /\ up' = up /\ accepted' = accepted /\ excused' = excused
        /\ held' = IF state = "quarantine" /\ files' # files THEN held \ {id} ELSE held
    BY ZenonT(40), RequeueEffect DEF Copies
  <2>3. \/ UNCHANGED <<files, faults>>
        \/ Persist(id, "inbound", Released(d, id), {{}, {d} \ {"inbound"}})
    BY ZenonT(40), RequeueEffect
  <2> QED BY <2>1, <2>2, <2>3
<1> HIDE DEF d
<1>2. CASE files' = files
  BY <1>1, <1>2 DEF KeepInv, AcceptedKept, LeasedBacked, HoldTracked, DownIdle,
                    QuarantineHolds, Holders, Exists, Readable
<1>3. CASE files' # files /\ Persist(id, "inbound", Released(d, id), {{}, {d} \ {"inbound"}})
  <2>1. "inbound" \in Dirs /\ {{}, {d} \ {"inbound"}} \subseteq SUBSET (Dirs \ {"inbound"})
    BY SMTT(40), <1>1 DEF Dirs, PendingDirs
  <2>2. id \in held => state = "quarantine"
    BY SMTT(40), <1>1 DEF KeepInv, QuarantineHolds, Holders, Exists, Readable
  <2>3. id \notin held' /\ held \ {id} \subseteq held' /\ held' \subseteq held
    BY <1>1, <1>3, <2>2
  <2> QED BY ZenonT(40), <1>1, <1>3, <2>1, <2>3, KeepPersist
<1> QED BY SMTT(40), <1>1, <1>2, <1>3

LEMMA KeepDiscard ==
    ASSUME TypeOK, KeepInv, NEW d \in Dirs, NEW id \in Ids, Removable(d, id), Discard(d, id)
    PROVE  KeepInv'
<1>1. \A e \in Dirs, i \in Ids : files'[e][i] = IF e = d /\ i = id THEN NoFile ELSE files[e][i]
  BY PointUpdate DEF Discard, Slots
<1>2. /\ excused' = IF Holders(id) = {d} THEN excused \cup {id} ELSE excused
      /\ Copies' = Copies /\ up' = up /\ accepted' = accepted /\ held' = held
  BY DEF Discard, Copies
<1>3. AcceptedKept'
  <2> SUFFICES ASSUME NEW i \in accepted, i \notin excused'
               PROVE  \E e \in Dirs : files'[e][i] # NoFile
    BY <1>2 DEF AcceptedKept, Holders, Exists
  <2>1. i \in Ids /\ i \notin excused /\ Holders(i) # {} /\ (i = id => Holders(i) # {d})
    BY <1>2 DEF KeepInv, AcceptedKept, TypeOK
  <2>2. PICK e \in Dirs : Exists(e, i) /\ (i = id => e # d)
    BY SMTT(40), <2>1 DEF Holders
  <2> QED BY <1>1, <2>1, <2>2 DEF Exists
<1>4. LeasedBacked'
  BY SMTT(40), <1>1, <1>2 DEF KeepInv, LeasedBacked, Removable, Readable, TypeOK, Copy, Copies
<1>5. HoldTracked'
  BY ZenonT(40), <1>1, <1>2 DEF KeepInv, HoldTracked, Readable
<1>6. QuarantineHolds'
  BY <1>1, <1>2 DEF KeepInv, QuarantineHolds, Readable, Holders, Exists, TypeOK, Dirs, PendingDirs
<1> QED BY SMTT(40), <1>2, <1>3, <1>4, <1>5, <1>6 DEF KeepInv, DownIdle

(* Neither time nor a restart adds a file, and neither lifts a hold. *)
LEMMA KeepEnvironment ==
    ASSUME TypeOK, KeepInv,
           Crash \/ NewBackend \/ \E d \in PendingDirs, id \in Ids : Elapse(d, id)
    PROVE  KeepInv'
<1>1. CASE NewBackend
  BY <1>1 DEF NewBackend, Copies, KeepInv, AcceptedKept, LeasedBacked, HoldTracked, DownIdle,
              QuarantineHolds, Holders, Exists, Readable, history
<1>2. ASSUME NEW d \in PendingDirs, NEW id \in Ids, Elapse(d, id) PROVE KeepInv'
  <2>1. PICK v \in Message : /\ (v.hold = "no") <=> (files[d][id].hold = "no")
                            /\ files' = [files EXCEPT ![d][id] = v]
    BY <1>2, ElapseEffect
  <2>2. \A e \in Dirs, i \in Ids : files'[e][i] = IF e = d /\ i = id THEN v ELSE files[e][i]
    BY <2>1, PointUpdate, Directories DEF Slots
  <2>3. UNCHANGED <<Copies, up, accepted, held, excused>> /\ Readable(d, id)
    BY <1>2, ElapseEffect DEF Copies
  <2>4. v \notin {NoFile, Torn}
    BY SlotAssumption
  <2>5. \A e \in Dirs, i \in Ids : /\ Exists(e, i)' <=> Exists(e, i)
                                   /\ Readable(e, i)' <=> Readable(e, i)
                                   /\ (files'[e][i].hold = "no") <=> (files[e][i].hold = "no")
    BY SMTT(40), <2>1, <2>2, <2>3, <2>4 DEF Exists, Readable
  <2>6. AcceptedKept' /\ DownIdle'
    BY SMTT(40), <2>3, <2>5 DEF KeepInv, AcceptedKept, DownIdle, Holders, TypeOK
  <2>7. LeasedBacked' /\ HoldTracked'
    BY SMTT(40), <2>3, <2>5 DEF KeepInv, LeasedBacked, HoldTracked, TypeOK, Copy, Copies
  <2>8. QuarantineHolds'
    BY ZenonT(40), <2>3, <2>5 DEF KeepInv, QuarantineHolds, Holders, TypeOK, Dirs, PendingDirs
  <2> QED BY <2>6, <2>7, <2>8 DEF KeepInv
<1>3. CASE Crash
  <2>1. Copies' = {} /\ accepted' = accepted /\ held' = held /\ excused' = excused
    BY <1>3 DEF Crash, history, Copies
  <2>2. \A e \in Dirs, i \in Ids : \/ files'[e][i] = files[e][i]
                                   \/ files[e][i] # NoFile /\ files'[e][i] = Torn
    <3>1. ASSUME NEW d \in Dirs, NEW id \in Ids, Exists(d, id),
                 files' = [files EXCEPT ![d][id] = Torn]
          PROVE  <2>2
      BY SMTT(40), <3>1, PointUpdate DEF Slots, Exists
    <3> QED BY <1>3, <3>1 DEF Crash
  <2>3. AcceptedKept' /\ LeasedBacked' /\ DownIdle'
    BY SMTT(40), <2>1, <2>2, SlotAssumption DEF KeepInv, AcceptedKept, LeasedBacked, DownIdle, Holders, Exists, TypeOK
  <2>4. HoldTracked'
    BY <2>1, <2>2 DEF KeepInv, HoldTracked, Readable
  <2>5. QuarantineHolds'
    <3> SUFFICES ASSUME NEW i \in held
                 PROVE  /\ Holders(i)' \subseteq {"inbound"}
                        /\ Readable("inbound", i)' => files'["inbound"][i].hold # "no"
      BY <2>1 DEF QuarantineHolds, Readable
    <3>1. i \in Ids /\ "inbound" \in Dirs
      BY DEF TypeOK, Dirs, PendingDirs
    <3>2. /\ Holders(i) \subseteq {"inbound"}
          /\ Readable("inbound", i) => files["inbound"][i].hold # "no"
      BY DEF KeepInv, QuarantineHolds
    <3>3. Holders(i)' \subseteq Holders(i)
      BY <2>2, <3>1 DEF Holders, Exists
    <3>4. Readable("inbound", i)' => files'["inbound"][i] = files["inbound"][i]
      BY <2>2, <3>1 DEF Readable
    <3> QED BY <3>2, <3>3, <3>4 DEF Readable
  <2> QED BY <2>3, <2>4, <2>5 DEF KeepInv
<1> QED BY SMTT(40), <1>1, <1>2, <1>3

LEMMA KeepInvariant == Spec => []KeepInv
<1>1. Init => KeepInv
  <2> SUFFICES ASSUME Init PROVE KeepInv
    OBVIOUS
  <2>1. PICK legacy \in SUBSET LegacyIds :
          /\ accepted = legacy
          /\ files = [d \in Dirs |-> [id \in Ids |->
               IF d = "pending" /\ id \in legacy
               THEN [rcpt |-> Rcpts, attempts |-> 0, due |-> TRUE, hold |-> "no"]
               ELSE NoFile]]
    BY DEF Init
  <2>2. \A d \in Dirs, id \in Ids :
          files[d][id] = IF d = "pending" /\ id \in legacy
                         THEN [rcpt |-> Rcpts, attempts |-> 0, due |-> TRUE, hold |-> "no"]
                         ELSE NoFile
    BY <2>1
  <2>3. [rcpt |-> Rcpts, attempts |-> 0, due |-> TRUE, hold |-> "no"] # NoFile
    <3>1. [rcpt |-> Rcpts, attempts |-> 0, due |-> TRUE, hold |-> "no"] \in Message
      BY DEF Message
    <3> QED BY ZenonT(40), <3>1, SlotAssumption
  <2>4. AcceptedKept
    BY ZenonT(40), <2>1, <2>2, <2>3, IdAssumption DEF AcceptedKept, Holders, Exists, Dirs, PendingDirs
  <2> QED BY <2>2, <2>4 DEF Init, Copies, KeepInv, LeasedBacked, HoldTracked, DownIdle, QuarantineHolds, Readable
<1>2. TypeOK /\ KeepInv /\ [Next]_vars => KeepInv'
  <2> SUFFICES ASSUME TypeOK, KeepInv, [Next]_vars PROVE KeepInv'
    BY SMTT(40)
  <2>1. CASE UNCHANGED vars
    BY <2>1 DEF vars, Copies, KeepInv, AcceptedKept, LeasedBacked, HoldTracked, DownIdle,
                QuarantineHolds, Holders, Exists, Readable
  <2>2. CASE Next
    <3>1. DownIdle
      BY DEF KeepInv
    <3> QED BY <2>2, <3>1, StepCases, KeepEnqueue, KeepDue, KeepSettle, KeepRequeue,
               KeepDiscard, KeepEnvironment
  <2> QED BY <2>1, <2>2
<1> QED BY <1>1, <1>2, TypeCorrect, PTL DEF Spec

(* No accepted message is lost, whatever the number of crashes and failed    *)
(* writes or removals.                                                       *)
THEOREM NothingAcceptedIsLost == Spec => []AcceptedKept
BY KeepInvariant, PTL DEF KeepInv

(* A copy in a worker's hands always has a file behind it. *)
THEOREM LeasesAreBacked == Spec => []LeasedBacked
BY KeepInvariant, PTL DEF KeepInv

(* Only an operator's release lets a quarantined message out. *)
THEOREM QuarantineIsKept == Spec => []QuarantineHolds
BY KeepInvariant, PTL DEF KeepInv
=============================================================================
