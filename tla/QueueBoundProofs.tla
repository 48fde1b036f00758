-------------------------- MODULE QueueBoundProofs --------------------------
(***************************************************************************)
(* What the local file queue bounds: the copies of a message until a fault, *)
(* the pending messages, and what an operator and the limits leave alone.  *)
(***************************************************************************)
EXTENDS LocalQueueProofs

(* Without faults no message has two files, nor two workers. *)
SingleInv ==
    /\ faults = 0 => \A id \in Ids : \A d, e \in Dirs : Exists(d, id) /\ Exists(e, id) => d = e
    /\ OneWorker
    /\ ~Fair => buffer = {}

(* Steps that keep or lose files and leases, and steps that count a fault    *)
(* when the buffer is off, keep SingleInv.                                   *)
LEMMA SingleShrinks ==
    ASSUME TypeOK, SingleInv, leased' \subseteq leased, buffer' \subseteq buffer,
           faults' \in Nat, faults <= faults',
           faults' = 0 => \A d \in Dirs, id \in Ids : files'[d][id] = NoFile \/ Exists(d, id)
    PROVE  SingleInv'
<1>1. faults' = 0 => faults = 0
  BY DEF TypeOK
<1>2. OneWorker'
  BY <1>1 DEF SingleInv, OneWorker, Copies
<1>3. faults' = 0 => \A id \in Ids : \A d, e \in Dirs : Exists(d, id)' /\ Exists(e, id)' => d = e
  BY <1>1 DEF SingleInv, Exists
<1> QED BY <1>2, <1>3 DEF SingleInv

(* A write keeps it: if it succeeds without a fault the other files of the   *)
(* message, if any, are gone.                                                *)
LEMMA SinglePersist ==
    ASSUME TypeOK, SingleInv, NEW id \in Ids, NEW d \in Dirs, NEW m \in Message,
           NEW removals, removals \subseteq SUBSET (Dirs \ {d}), Persist(id, d, m, removals),
           leased' \subseteq leased, buffer' \subseteq buffer,
           \A e \in Dirs \ {d} : Exists(e, id) => faults # 0 \/ \E dirs \in removals : e \in dirs
    PROVE  SingleInv'
<1>1. /\ faults' \in Nat /\ faults <= faults'
      /\ \A e \in Dirs, i \in Ids \ {id} : files'[e][i] = files[e][i]
      /\ \A e \in Dirs \ {d} : files'[e][id] \in {files[e][id], NoFile}
      /\ faults' = 0 => \A dirs \in removals : \A e \in dirs : files'[e][id] = NoFile
  BY PersistEffect
<1>2. faults' = 0 => faults = 0
  BY <1>1 DEF TypeOK
<1>3. OneWorker'
  BY <1>2 DEF SingleInv, OneWorker, Copies
<1>4. faults' = 0 => \A e \in Dirs \ {d} : files'[e][id] = NoFile
  BY <1>1, <1>2 DEF Exists
<1>5. ASSUME faults' = 0, NEW i \in Ids, NEW e1 \in Dirs, NEW e2 \in Dirs, Exists(e1, i)', Exists(e2, i)'
      PROVE  e1 = e2
  <2>1. CASE i = id
    BY SMTT(40), <1>4, <1>5, <2>1 DEF Exists
  <2>2. CASE i # id
    BY <1>1, <1>2, <1>5, <2>2 DEF SingleInv, Exists
  <2> QED BY <2>1, <2>2
<1> QED BY <1>3, <1>5 DEF SingleInv

LEMMA SingleDue ==
    ASSUME TypeOK, SingleInv, Due
    PROVE  SingleInv'
<1>1. faults' \in Nat /\ faults <= faults'
  BY DEF Due, Fault, TypeOK
<1>2. \A d \in Dirs, id \in Ids : files'[d][id] \in {files[d][id], NoFile}
  BY DEF Due
<1>3. faults' = 0 => faults = 0
  BY <1>1 DEF TypeOK
<1>4. faults' = 0 => \A id \in Ids : \A d, e \in Dirs : Exists(d, id)' /\ Exists(e, id)' => d = e
  BY <1>2, <1>3 DEF SingleInv, Exists
<1>5. ASSUME faults = 0, NEW f \in DueFiles, NEW g \in DueFiles, CopyOf(f).id = CopyOf(g).id
      PROVE  CopyOf(f) = CopyOf(g)
  <2>1. /\ f \in PendingDirs \X Ids /\ Exists(f[1], f[2])
        /\ g \in PendingDirs \X Ids /\ Exists(g[1], g[2])
    BY DEF DueFiles, PendingFiles
  <2>2. f[2] = g[2]
    BY <1>5 DEF CopyOf
  <2>3. f[1] = g[1]
    BY <1>5, <2>1, <2>2, Directories DEF SingleInv
  <2> QED BY <2>2, <2>3 DEF CopyOf
<1>6. ASSUME UNCHANGED <<leased, buffer>> PROVE OneWorker'
  BY <1>3, <1>6 DEF SingleInv, OneWorker, Copies
<1>7. ASSUME Fair, leased = {}, NEW n, NEW batch \in Batches(n), NEW b \in buffered(batch),
             NEW out \in HandOuts(buffer \cup b),
             leased' = out, buffer' = (buffer \cup b) \ out
      PROVE  OneWorker'
  BY <1>7 DEF SingleInv, OneWorker, buffered, HandOuts, Copies
<1>8. ASSUME ~Fair, buffer = {}, NEW n, leased' \in Batches(n), buffer' = buffer
      PROVE  OneWorker'
  <2>1. \A c \in leased' : \E f \in DueFiles : c = CopyOf(f)
    BY SMTT(40), <1>8 DEF Batches
  <2> QED BY <1>3, <1>5, <1>8, <2>1 DEF OneWorker, Copies
<1>9. OneWorker'
  BY ZenonT(40), <1>6, <1>7, <1>8 DEF Due, SingleInv
<1>10. (~Fair => buffer = {})'
  BY DEF Due, SingleInv
<1> QED BY <1>4, <1>9, <1>10 DEF SingleInv

LEMMA SingleInvariant == Spec => []SingleInv
<1>1. Init => SingleInv
  <2> SUFFICES ASSUME Init PROVE SingleInv
    OBVIOUS
  <2>1. \A d \in Dirs, id \in Ids : d # "pending" => files[d][id] = NoFile
    BY DEF Init
  <2>2. leased = {} /\ buffer = {}
    BY DEF Init
  <2> QED BY <2>1, <2>2 DEF SingleInv, OneWorker, Copies, Exists
<1>2. TypeOK /\ DownIdle /\ SingleInv /\ [Next]_vars => SingleInv'
  <2> SUFFICES ASSUME TypeOK, DownIdle, SingleInv, [Next]_vars PROVE SingleInv'
    OBVIOUS
  <2>1. ASSUME NEW id \in Ids, NEW rcpt \in SUBSET Rcpts, NEW hold \in {"no", "held"},
               Enqueue(id, rcpt, hold)
        PROVE  SingleInv'
    <3> DEFINE m == [rcpt |-> rcpt, attempts |-> 0, due |-> TRUE, hold |-> hold]
    <3>1. m \in Message /\ "inbound" \in Dirs /\ {{}} \subseteq SUBSET (Dirs \ {"inbound"})
      BY DEF Message, Dirs, PendingDirs
    <3>2. \A e \in Dirs : ~Exists(e, id)
      BY <2>1, StateMeaning DEF Enqueue
    <3>3. leased' = leased /\ buffer' = buffer
      BY <2>1 DEF Enqueue
    <3>4. CASE UNCHANGED <<files, faults>>
      BY <3>3, <3>4 DEF SingleInv, OneWorker, Copies, Exists
    <3>5. CASE Persist(id, "inbound", m, {{}})
      <4> HIDE DEF m
      <4> QED BY <3>1, <3>2, <3>3, <3>5, SinglePersist
    <3> QED BY <2>1, <3>4, <3>5 DEF Enqueue
  <2>2. CASE Due
    BY <2>2, SingleDue
  <2>3. ASSUME NEW c \in leased, NEW d \in {"sent", "retry", "dlq"}, NEW m \in Message, Settle(c, d, m)
        PROVE  SingleInv'
    <3>1. d \in Dirs /\ c.id \in Ids /\ leased' \subseteq leased /\ buffer' \subseteq buffer
      BY <2>3, SettleEffect DEF Dirs, PendingDirs, TerminalDirs
    <3>2. CASE UNCHANGED <<files, faults>>
      BY <3>1, <3>2 DEF SingleInv, OneWorker, Copies, Exists
    <3>3. CASE messageState(c.id) \in PendingDirs /\ Persist(c.id, d, m, removePendingExcept(d))
      <4>1. Exists(messageState(c.id), c.id) /\ messageState(c.id) \in Dirs
        BY <3>3, StateMeaning, Directories
      <4>2. ASSUME NEW e \in Dirs \ {d}, Exists(e, c.id), faults = 0
            PROVE  \E dirs \in removePendingExcept(d) : e \in dirs
        <5>1. e = messageState(c.id)
          BY ZenonT(40), <3>1, <4>1, <4>2 DEF SingleInv
        <5>2. e \in PendingDirs \ {d}
          BY <3>3, <5>1
        <5> QED BY ZenonT(40), <3>1, <5>2, Directories
      <4> QED BY <3>1, <3>3, <4>2, SinglePersist, Directories
    <3> QED BY <2>3, <3>1, <3>2, <3>3, SettleEffect
  <2>4. ASSUME NEW state \in AdminStates, NEW id \in Ids, RequeueFromState(state, id)
        PROVE  SingleInv'
    <3> DEFINE d == dirForState(state)
    <3>1. /\ d \in Dirs /\ Exists(d, id) /\ Released(d, id) \in Message
          /\ leased' = leased /\ buffer' = buffer
      BY ZenonT(40), <2>4, RequeueEffect DEF Readable, Exists
    <3>2. \/ UNCHANGED <<files, faults>>
          \/ Persist(id, "inbound", Released(d, id), {{}, {d} \ {"inbound"}})
      BY ZenonT(40), <2>4, RequeueEffect
    <3> HIDE DEF d
    <3>3. CASE UNCHANGED <<files, faults>>
      BY <3>1, <3>3 DEF SingleInv, OneWorker, Copies, Exists
    <3>4. CASE Persist(id, "inbound", Released(d, id), {{}, {d} \ {"inbound"}})
      <4>1. "inbound" \in Dirs /\ {{}, {d} \ {"inbound"}} \subseteq SUBSET (Dirs \ {"inbound"})
        BY <3>1 DEF Dirs, PendingDirs
      <4> DEFINE removals == {{}, {d} \ {"inbound"}}
      <4>2. \A e \in Dirs \ {"inbound"} : Exists(e, id) =>
              faults # 0 \/ \E dirs \in removals : e \in dirs
        BY <3>1 DEF SingleInv
      <4>3. removals \subseteq SUBSET (Dirs \ {"inbound"}) /\ Persist(id, "inbound", Released(d, id), removals)
        BY <3>4, <4>1
      <4> HIDE DEF removals
      <4> QED BY <3>1, <4>1, <4>2, <4>3, SinglePersist
    <3> QED BY SMTT(40), <3>2, <3>3, <3>4
  <2>5. ASSUME NEW d \in Dirs, NEW id \in Ids, Discard(d, id) PROVE SingleInv'
    <3>1. \A e \in Dirs, i \in Ids : files'[e][i] = NoFile \/ Exists(e, i)
      BY <2>5, PointUpdate DEF Discard, Slots, Exists
    <3> QED BY <2>5, <3>1, SingleShrinks DEF Discard, TypeOK
  <2>6. ASSUME NEW d \in PendingDirs, NEW id \in Ids, Elapse(d, id) PROVE SingleInv'
    <3>1. \A e \in Dirs, i \in Ids : files'[e][i] = NoFile \/ Exists(e, i)
      BY <2>6, ElapseEffect, PointUpdate, Directories DEF Slots, Exists, Readable
    <3> QED BY SMTT(40), <2>6, <3>1, ElapseEffect, SingleShrinks DEF TypeOK
  <2>7. CASE Crash
    <3>1. faults' \in Nat /\ faults < faults' /\ leased' = {} /\ buffer' = {}
      BY <2>7 DEF Crash, Fault, TypeOK
    <3> QED BY <3>1, SingleShrinks DEF TypeOK
  <2>8. CASE NewBackend
    BY <2>8 DEF NewBackend, SingleInv, OneWorker, Copies, Exists
  <2>9. CASE UNCHANGED vars
    BY <2>9 DEF vars, SingleInv, OneWorker, Copies, Exists
  <2> QED BY SMTT(40), <2>1, <2>2, <2>3, <2>4, <2>5, <2>6, <2>7, <2>8, <2>9, StepCases
<1>3. KeepInv => DownIdle
  BY DEF KeepInv
<1> QED BY <1>1, <1>2, <1>3, TypeCorrect, KeepInvariant, PTL DEF Spec

(* Until something fails, a message lies in one directory at a time. *)
THEOREM OneCopyUntilFault == Spec => []OneCopy
<1>1. SingleInv => OneCopy
  <2> SUFFICES ASSUME SingleInv, faults = 0, NEW id \in Ids PROVE Cardinality(Holders(id)) <= 1
    BY DEF OneCopy
  <2>1. CASE Holders(id) = {}
    BY <2>1, FS_EmptySet
  <2>2. CASE Holders(id) # {}
    <3>1. PICK d \in Holders(id) : TRUE
      BY <2>2
    <3>2. Holders(id) = {d}
      BY <3>1 DEF SingleInv, Holders
    <3>3. Cardinality({d}) = 1
      BY FS_Singleton
    <3> QED BY <3>2, <3>3
  <2> QED BY <2>1, <2>2
<1> QED BY <1>1, SingleInvariant, PTL

(* Two workers never deliver one message at a time, unless a fault left two  *)
(* files of it and there is no fairness buffer.                              *)
THEOREM OneWorkerPerMessage == Spec => []OneWorker
BY SingleInvariant, PTL DEF SingleInv

-----------------------------------------------------------------------------
(* The files of the pending directories are finitely many, and there are at  *)
(* least as many of them as pending messages.                                *)
LEMMA PendingCount ==
    /\ IsFiniteSet(PendingIds) /\ Cardinality(PendingIds) \in Nat
    /\ Cardinality(PendingIds) <= usageCount /\ usageCount \in Nat
<1>1. IsFiniteSet(PendingDirs)
  <2>1. IsFiniteSet({"inbound"}) /\ IsFiniteSet({"retry"}) /\ IsFiniteSet({"pending"})
    BY ZenonT(40), FS_Singleton
  <2>2. IsFiniteSet({"inbound"} \cup {"retry"})
    BY ZenonT(40), <2>1, FS_Union
  <2>3. IsFiniteSet(({"inbound"} \cup {"retry"}) \cup {"pending"})
    BY ZenonT(40), <2>1, <2>2, FS_Union
  <2>4. PendingDirs = ({"inbound"} \cup {"retry"}) \cup {"pending"}
    BY DEF PendingDirs
  <2> QED BY <2>3, <2>4
<1>2. IsFiniteSet(PendingDirs \X Ids)
  BY <1>1, IdAssumption, FS_Product
<1>3. IsFiniteSet(PendingFiles) /\ Cardinality(PendingFiles) \in Nat
  BY <1>2, FS_Subset, FS_CardinalityType DEF PendingFiles
<1> DEFINE proj == [f \in PendingFiles |-> f[2]]
<1>4. PendingIds = {proj[f] : f \in PendingFiles}
  <2>1. ASSUME NEW id \in PendingIds PROVE \E f \in PendingFiles : proj[f] = id
    <3>1. PICK d \in PendingDirs : Exists(d, id)
      BY DEF PendingIds, Holders
    <3>2. <<d, id>> \in PendingFiles
      BY <3>1 DEF PendingFiles, PendingIds
    <3> QED BY <3>2
  <2>2. ASSUME NEW f \in PendingFiles PROVE proj[f] \in PendingIds
    BY Directories DEF PendingFiles, PendingIds, Holders
  <2> QED BY <2>1, <2>2
<1>5. proj \in Surjection(PendingFiles, PendingIds)
  BY <1>4 DEF Surjection
<1>6. IsFiniteSet(PendingIds) /\ Cardinality(PendingIds) <= Cardinality(PendingFiles)
  BY <1>3, <1>5, FS_Surjection
<1>7. Cardinality(PendingIds) \in Nat
  BY <1>6, FS_CardinalityType
<1> QED BY <1>3, <1>6, <1>7 DEF usageCount

(* A step that adds no pending message, or one that the limits admitted,     *)
(* keeps the bound.                                                          *)
LEMMA BoundStep ==
    ASSUME MessageBound,
           \/ PendingIds' \subseteq PendingIds
           \/ \E id \in Ids, diskOK \in DiskReadings :
                PendingIds' \subseteq PendingIds \cup {id} /\ admit(id, diskOK) = "ok"
    PROVE  MessageBound'
<1> SUFFICES ASSUME MaxMessages > 0 PROVE Cardinality(PendingIds') <= MaxMessages
  BY DEF MessageBound
<1>1. CASE PendingIds' \subseteq PendingIds
  <2>1. Cardinality(PendingIds') \in Nat /\ Cardinality(PendingIds') <= Cardinality(PendingIds)
    BY SMTT(40), <1>1, PendingCount, FS_Subset, FS_CardinalityType
  <2> QED BY <2>1, PendingCount, LimitAssumption DEF MessageBound
<1>2. ASSUME NEW id \in Ids, NEW diskOK \in DiskReadings,
             PendingIds' \subseteq PendingIds \cup {id}, admit(id, diskOK) = "ok"
      PROVE  Cardinality(PendingIds') <= MaxMessages
  <2>1. usageCount < MaxMessages
    BY <1>2, LimitAssumption, PendingCount DEF admit, limitsEnabled
  <2>2. /\ IsFiniteSet(PendingIds \cup {id})
        /\ Cardinality(PendingIds \cup {id}) \in Nat
        /\ Cardinality(PendingIds \cup {id}) <= Cardinality(PendingIds) + 1
    <3>1. /\ IsFiniteSet(PendingIds \cup {id})
          /\ Cardinality(PendingIds \cup {id})
               = IF id \in PendingIds THEN Cardinality(PendingIds) ELSE Cardinality(PendingIds) + 1
      BY PendingCount, FS_AddElement
    <3> QED BY <3>1, PendingCount
  <2>3. Cardinality(PendingIds') \in Nat /\ Cardinality(PendingIds') <= Cardinality(PendingIds \cup {id})
    BY <1>2, <2>2, FS_Subset, FS_CardinalityType
  <2> QED BY SMTT(40), <2>1, <2>2, <2>3, PendingCount, LimitAssumption
<1> QED BY <1>1, <1>2

(* The pending directories before and after a step that changes only the     *)
(* files of one message.                                                     *)
LEMMA PendingElsewhere ==
    ASSUME TypeOK, NEW id \in Ids,
           \A e \in Dirs, i \in Ids \ {id} : files'[e][i] = NoFile \/ Exists(e, i)
    PROVE  PendingIds' \subseteq PendingIds \cup {id}
BY DEF PendingIds, Holders, Exists

(* How a message becomes pending: the limits admitted it, alone, and it was  *)
(* new or an operator took it back from sent or dlq.                         *)
LEMMA PendingGrowth ==
    ASSUME TypeOK, DownIdle, [Next]_vars, NEW id \in Ids, id \in PendingIds', id \notin PendingIds
    PROVE  /\ PendingIds' \subseteq PendingIds \cup {id}
           /\ \E diskOK \in DiskReadings : admit(id, diskOK) = "ok"
           /\ \/ messageState(id) = "none"
              \/ \E state \in TerminalDirs : RequeueFromState(state, id)
<1>0. PICK p \in PendingDirs : Exists(p, id)' /\ ~Exists(p, id)
  BY Directories DEF PendingIds, Holders
<1>1. ASSUME \A d \in Dirs, i \in Ids : files'[d][i] = NoFile \/ Exists(d, i)
      PROVE  FALSE
  BY <1>0, <1>1, Directories DEF Exists
<1> DEFINE Goal == /\ PendingIds' \subseteq PendingIds \cup {id}
                   /\ \E diskOK \in DiskReadings : admit(id, diskOK) = "ok"
                   /\ \/ messageState(id) = "none"
                      \/ \E state \in TerminalDirs : RequeueFromState(state, id)
<1>2. ASSUME NEW i \in Ids, NEW rcpt \in SUBSET Rcpts, NEW hold \in {"no", "held"},
             Enqueue(i, rcpt, hold)
      PROVE  Goal
  <2> DEFINE m == [rcpt |-> rcpt, attempts |-> 0, due |-> TRUE, hold |-> hold]
  <2>1. files' # files
    BY SMTT(40), <1>1 DEF Exists
  <2>2. /\ Persist(i, "inbound", m, {{}})
        /\ \E diskOK \in DiskReadings : admit(i, diskOK) = "ok"
        /\ messageState(i) = "none"
    BY <1>2, <2>1 DEF Enqueue
  <2>3. m \in Message /\ "inbound" \in Dirs /\ {{}} \subseteq SUBSET (Dirs \ {"inbound"})
    BY DEF Message, Dirs, PendingDirs
  <2>4. \A e \in Dirs, j \in Ids \ {i} : files'[e][j] = files[e][j]
    <3> HIDE DEF m
    <3> QED BY SMTT(40), <2>2, <2>3, PersistEffect
  <2>5. i = id
    BY ZenonT(40), <1>0, <2>4, Directories DEF Exists
  <2> QED BY ZenonT(40), <2>2, <2>4, <2>5, PendingElsewhere DEF Exists
<1>3. CASE Due
  BY SMTT(40), <1>1, <1>3 DEF Due, Exists
<1>4. ASSUME NEW c \in leased, NEW d \in {"sent", "retry", "dlq"}, NEW m \in Message, Settle(c, d, m)
      PROVE  FALSE
  <2>1. d \in Dirs /\ files' # files
    BY <1>1 DEF Dirs, PendingDirs, TerminalDirs, Exists
  <2>2. c.id \in Ids /\ messageState(c.id) \in PendingDirs /\ Persist(c.id, d, m, removePendingExcept(d))
    BY <1>4, <2>1, SettleEffect
  <2>3. c.id # id
    BY SMTT(40), <2>2, StateMeaning, Directories DEF PendingIds, Holders
  <2> QED BY <1>0, <2>1, <2>2, <2>3, PersistEffect, Directories DEF Exists
<1>5. ASSUME NEW state \in AdminStates, NEW i \in Ids, RequeueFromState(state, i)
      PROVE  Goal
  <2> DEFINE d == dirForState(state)
             m == Released(d, i)
             removals == {{}, {d} \ {"inbound"}}
  <2>1. files' # files
    BY SMTT(40), <1>1 DEF Exists
  <2>2. d \in Dirs /\ Readable(d, i) /\ m \in Message
    BY ZenonT(40), <1>5, RequeueEffect
  <2>3. /\ d \in TerminalDirs => \E diskOK \in DiskReadings : admit(i, diskOK) = "ok"
        /\ Persist(i, "inbound", m, removals)
    BY ZenonT(40), <1>5, <2>1, RequeueEffect
  <2>4. "inbound" \in Dirs /\ removals \subseteq SUBSET (Dirs \ {"inbound"})
    BY <2>2 DEF Dirs, PendingDirs
  <2>5. \A e \in Dirs, j \in Ids \ {i} : files'[e][j] = files[e][j]
    <3> HIDE DEF d, m, removals
    <3> QED BY SMTT(40), <2>2, <2>3, <2>4, PersistEffect
  <2>6. i = id
    BY SMTT(40), <1>0, <2>5, Directories DEF Exists
  <2>7. d \in TerminalDirs
    BY <2>2, <2>6 DEF PendingIds, Holders, Readable, Exists, Dirs
  <2>8. state \in TerminalDirs
    BY <2>7 DEF AdminStates, dirForState, TerminalDirs
  <2> QED BY ZenonT(40), <1>5, <2>3, <2>5, <2>6, <2>7, <2>8, PendingElsewhere DEF Exists
<1>6. ASSUME NEW d \in Dirs, NEW i \in Ids, Discard(d, i) PROVE FALSE
  BY SMTT(40), <1>1, <1>6, PointUpdate DEF Discard, Slots, Exists
<1>7. ASSUME NEW d \in PendingDirs, NEW i \in Ids, Elapse(d, i) PROVE FALSE
  BY <1>1, <1>7, ElapseEffect, PointUpdate, Directories DEF Slots, Exists, Readable
<1>8. CASE Crash
  <2>1. ASSUME NEW d \in Dirs, NEW i \in Ids, Exists(d, i), files' = [files EXCEPT ![d][i] = Torn]
        PROVE  FALSE
    BY <1>1, <2>1, PointUpdate DEF Slots, Exists
  <2> QED BY <1>1, <1>8, <2>1 DEF Crash, Exists
<1>9. CASE UNCHANGED files
  BY <1>1, <1>9 DEF Exists
<1> QED
  <2>1. CASE UNCHANGED vars
    BY SMTT(40), <1>9, <2>1 DEF vars
  <2>2. CASE Next
    BY ZenonT(40), <1>2, <1>3, <1>4, <1>5, <1>6, <1>7, <1>8, <1>9, <2>2, StepCases DEF NewBackend
  <2> QED BY <2>1, <2>2

(* The number of undelivered messages stays within queue_max_messages. *)
THEOREM MessagesAreBounded == Spec => []MessageBound
<1>1. Init => MessageBound
  <2> SUFFICES ASSUME Init, MaxMessages > 0 PROVE Cardinality(PendingIds) <= MaxMessages
    BY DEF MessageBound
  <2>1. PICK legacy \in SUBSET LegacyIds :
          /\ Cardinality(legacy) <= MaxMessages
          /\ \A d \in Dirs, id \in Ids :
               d # "pending" \/ id \notin legacy => files[d][id] = NoFile
    BY DEF Init
  <2>2. IsFiniteSet(legacy) /\ Cardinality(legacy) \in Nat
    BY IdAssumption, FS_Subset, FS_CardinalityType
  <2>3. PendingIds \subseteq legacy
    BY <2>1 DEF PendingIds, Holders, Exists
  <2>4. Cardinality(PendingIds) <= Cardinality(legacy)
    BY <2>2, <2>3, FS_Subset
  <2> QED BY <2>1, <2>2, <2>4, PendingCount, LimitAssumption
<1>2. TypeOK /\ DownIdle /\ MessageBound /\ [Next]_vars => MessageBound'
  <2> SUFFICES ASSUME TypeOK, DownIdle, MessageBound, [Next]_vars PROVE MessageBound'
    OBVIOUS
  <2>1. CASE PendingIds' \subseteq PendingIds
    BY <2>1, BoundStep
  <2>2. CASE ~(PendingIds' \subseteq PendingIds)
    <3>1. PICK id \in PendingIds' : id \notin PendingIds
      BY <2>2
    <3>2. id \in Ids
      BY <3>1 DEF PendingIds
    <3>3. /\ PendingIds' \subseteq PendingIds \cup {id}
          /\ \E diskOK \in DiskReadings : admit(id, diskOK) = "ok"
      BY <3>1, <3>2, PendingGrowth
    <3> QED BY <3>2, <3>3, BoundStep
  <2> QED BY <2>1, <2>2
<1>3. KeepInv => DownIdle
  BY DEF KeepInv
<1> QED BY <1>1, <1>2, <1>3, TypeCorrect, KeepInvariant, PTL DEF Spec

(* A settled message becomes pending only when an operator requeues it. *)
THEOREM SettledIsFinal == Spec => SettledStays
<1>1. ASSUME TypeOK, DownIdle, [Next]_vars
      PROVE  \A id \in Ids :
               messageState(id) \in TerminalDirs /\ id \in PendingIds'
               => \E state \in TerminalDirs : RequeueFromState(state, id)
  <2> SUFFICES ASSUME NEW id \in Ids, messageState(id) \in TerminalDirs, id \in PendingIds'
               PROVE  \E state \in TerminalDirs : RequeueFromState(state, id)
    OBVIOUS
  <2>1. id \notin PendingIds /\ messageState(id) # "none"
    BY StateMeaning DEF PendingIds, Holders, TerminalDirs
  <2> QED BY <1>1, <2>1, PendingGrowth
<1>2. KeepInv => DownIdle
  BY DEF KeepInv
<1> QED BY <1>1, <1>2, TypeCorrect, KeepInvariant, PTL DEF Spec, SettledStays

(* While admission is paused nothing becomes pending above the watermarks. *)
THEOREM AdmissionHasHysteresis == Spec => ResumesBelowLow
<1>1. ASSUME TypeOK, DownIdle, [Next]_vars, paused, ~(PendingIds' \subseteq PendingIds)
      PROVE  below(usageCount, MaxMessages) /\ below(usageBytes, MaxBytes)
  <2>1. PICK id \in PendingIds' : id \notin PendingIds
    BY <1>1
  <2>2. PICK diskOK \in DiskReadings : admit(id, diskOK) = "ok"
    BY <1>1, <2>1, PendingGrowth DEF PendingIds
  <2>3. CASE ~limitsEnabled
    BY <2>3 DEF limitsEnabled, below
  <2>4. CASE limitsEnabled
    BY <1>1, <2>2, <2>4 DEF admit, stillPaused
  <2> QED BY <2>3, <2>4
<1>2. KeepInv => DownIdle
  BY DEF KeepInv
<1> QED BY <1>1, <1>2, TypeCorrect, KeepInvariant, PTL DEF Spec, ResumesBelowLow
=============================================================================
