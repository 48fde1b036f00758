----------------------------- MODULE LocalQueue -----------------------------
(***************************************************************************)
(* The local file queue: internal/queue/store.go, capacity.go and          *)
(* quarantine.go, with the retention sweeper (internal/retention) that     *)
(* deletes from the same directories and the start-up scan of factory.go.  *)
(*                                                                         *)
(* A message is one JSON file per directory; its id is the file name.      *)
(* Every operation of Store runs under one mutex, so an operation is one   *)
(* action.  What is not atomic is the pair "rename the new file into       *)
(* place, then remove the old ones": a crash or an I/O error in between    *)
(* leaves two copies.  Such a step takes one of MaxFaults faults.          *)
(*                                                                         *)
(* Due leases nothing: it returns copies and leaves the files in place.    *)
(* leased is the set of copies in the hands of workers, buffer the set of  *)
(* those that wait in the fairness buffer (internal/worker/fair_queue.go). *)
(* The four results of a worker are AckSent, Retry, Defer and Fail, each   *)
(* with the recipients to keep.                                            *)
(*                                                                         *)
(* Time is abstracted: due says that NextAttempt has passed, and a hold    *)
(* becomes "expired" when its ExpiresAt has.                               *)
(***************************************************************************)
EXTENDS Integers, FiniteSets, FiniteSetsExt

CONSTANTS
    Ids,            \* message ids
    Rcpts,          \* recipients
    Size,           \* Size[id]: length of the message's Data
    LegacyIds,      \* ids that may lie in the old "pending" directory at first
    NoFile, Torn,   \* no such file; a file that does not decode
    MaxMessages, MaxBytes, LowPercent,  \* CapacityLimits, 0 disables
    MinFree,        \* whether queue_min_free_bytes is set
    Quarantine,     \* whether quarantine is enabled
    BatchLimit,     \* messages handed to the workers at a time
    Fair,           \* whether the fairness buffer sits between Due and workers
    FetchLimit,     \* its size, the batch limit times the prefetch factor
    AttemptCap,     \* where the model stops counting Attempts
    MaxFaults       \* bound on crashes and I/O errors

PendingDirs == {"inbound", "retry", "pending"}
TerminalDirs == {"sent", "dlq"}
Dirs == PendingDirs \cup TerminalDirs

Message == [rcpt: SUBSET Rcpts, attempts: Nat, due: BOOLEAN,
            hold: {"no", "held", "expired"}]
Copy == [id: Ids, dir: PendingDirs, rcpt: SUBSET Rcpts, attempts: Nat]

ASSUME SlotAssumption == /\ NoFile \notin Message
                         /\ Torn \notin Message
                         /\ NoFile # Torn
ASSUME LimitAssumption == /\ MaxMessages \in Nat /\ MaxBytes \in Nat
                          /\ LowPercent \in 0 .. 99
                          /\ MinFree \in BOOLEAN /\ Quarantine \in BOOLEAN
                          /\ Fair \in BOOLEAN
                          /\ BatchLimit \in Nat \ {0} /\ AttemptCap \in Nat
                          /\ FetchLimit \in Nat /\ FetchLimit >= BatchLimit
                          /\ MaxFaults \in Nat
ASSUME IdAssumption == /\ IsFiniteSet(Ids) /\ LegacyIds \subseteq Ids
                       /\ Size \in [Ids -> Nat]

VARIABLES
    files,      \* files[dir][id]: the file's content, NoFile or Torn
    paused,     \* Store.paused: admission is stopped
    leased,     \* copies in the hands of workers
    buffer,     \* copies in the fairness buffer
    up,         \* the process runs
    faults,     \* crashes and I/O errors so far
    accepted,   \* history: ids whose Enqueue reported success
    held,       \* history: ids accepted under quarantine and not released
    excused     \* history: ids whose last file a rule of the system deleted

history == <<accepted, held, excused>>
vars == <<files, paused, leased, buffer, up, faults, accepted, held, excused>>

Slots == Message \cup {NoFile, Torn}
Exists(d, id) == files[d][id] # NoFile
Readable(d, id) == files[d][id] \notin {NoFile, Torn}
Holders(id) == {d \in Dirs : Exists(d, id)}
Copies == leased \cup buffer
PendingIds == {id \in Ids : Holders(id) \cap PendingDirs # {}}

Init ==
    /\ \E legacy \in SUBSET LegacyIds :
         /\ MaxMessages > 0 => Cardinality(legacy) <= MaxMessages
         /\ accepted = legacy
         /\ files = [d \in Dirs |-> [id \in Ids |->
              IF d = "pending" /\ id \in legacy
              THEN [rcpt |-> Rcpts, attempts |-> 0, due |-> TRUE, hold |-> "no"]
              ELSE NoFile]]
    /\ paused = FALSE /\ leased = {} /\ buffer = {} /\ up = TRUE /\ faults = 0
    /\ held = {} /\ excused = {}

-----------------------------------------------------------------------------
(* Store.messageState: the first directory, in this order, that has the id.*)
messageState(id) ==
    IF Exists("inbound", id)
    THEN IF ~Readable("inbound", id) THEN "error"
         ELSE IF files["inbound"][id].hold # "no" THEN "quarantine" ELSE "inbound"
    ELSE IF Exists("retry", id) THEN "retry"
    ELSE IF Exists("pending", id) THEN "pending"
    ELSE IF Exists("sent", id) THEN "sent"
    ELSE IF Exists("dlq", id) THEN "dlq"
    ELSE "none"

(* Store.dirForState, the directories an operator can name. *)
AdminStates == {"inbound", "quarantine", "retry", "dlq", "sent"}
dirForState(state) == IF state = "quarantine" THEN "inbound" ELSE state

(* A step that fails part-way uses up one fault. *)
Fault(failed) ==
    /\ failed => faults < MaxFaults
    /\ faults' = IF failed THEN faults + 1 ELSE faults

(* Store.write renames m into place; then the files of the directories in  *)
(* removed go.                                                              *)
Moved(id, d, m, removed) ==
    [e \in Dirs |-> [i \in Ids |->
        IF i = id /\ e = d THEN m
        ELSE IF i = id /\ e \in removed THEN NoFile
        ELSE files[e][i]]]

(* Mutant of Persist: the old files go before the new one is in place. *)
PersistRemovingFirst(id, d, m, removals) ==
    \/ files' = Moved(id, d, m, UNION removals) /\ Fault(FALSE)
    \/ files' = Moved(id, d, files[d][id], UNION removals) /\ Fault(TRUE)

(* Write m to directory d, then remove the id elsewhere: removals has the   *)
(* set of directories cleared after each step, the last being all of them.  *)
(* The write itself may fail, too.                                          *)
Persist(id, d, m, removals) ==
    \/ \E removed \in removals :
         /\ files' = Moved(id, d, m, removed)
         /\ Fault(\E dirs \in removals : \E e \in dirs \ removed : Exists(e, id))
    \/ /\ Fault(TRUE)
       /\ UNCHANGED files

(* Mutant: the legacy directory is forgotten. *)
RemoveWithoutLegacy(d) == {dirs \ {d} : dirs \in {{}, {"inbound"}, {"inbound", "retry"}}}

(* Store.removePendingExcept: inbound, then retry, then the legacy one. *)
removePendingExcept(d) ==
    {dirs \ {d} : dirs \in {{}, {"inbound"}, {"inbound", "retry"}, PendingDirs}}

-----------------------------------------------------------------------------
(* Store.usage counts the files of the pending directories, quarantined ones *)
(* too, and fails if any does not decode.  Mutants: a scan that misses the   *)
(* legacy directory, and one that adds up the bytes of inbound only.         *)
limitsEnabled == MaxMessages # 0 \/ MaxBytes # 0 \/ MinFree
ScanWithoutLegacy == {f \in (PendingDirs \ {"pending"}) \X Ids : Exists(f[1], f[2])}
PendingFiles == {f \in PendingDirs \X Ids : Exists(f[1], f[2])}
TornFiles == {f \in PendingFiles : ~Readable(f[1], f[2])}
usageCount == Cardinality(PendingFiles)
BytesOfInbound == MapThenSumSet(LAMBDA f : Size[f[2]], {f \in PendingFiles : f[1] = "inbound"})
usageBytes == MapThenSumSet(LAMBDA f : Size[f[2]], PendingFiles)

lowWatermark(max) ==
    LET low == IF LowPercent = 0 THEN 80 ELSE LowPercent
    IN  (max \div 100) * low + ((max % 100) * low) \div 100
below(n, max) == max = 0 \/ n <= lowWatermark(max)

(* Store.admit for a message of the given id.  diskOK is the outcome of the  *)
(* free-space reading.  Mutant: the resumption looks at the count alone.      *)
DiskReadings == IF MinFree THEN BOOLEAN ELSE {TRUE}
stillPausedByCount(diskOK) == paused /\ ~(below(usageCount, MaxMessages) /\ diskOK)
stillPaused(diskOK) ==
    paused /\ ~(below(usageCount, MaxMessages) /\ below(usageBytes, MaxBytes) /\ diskOK)
admit(id, diskOK) ==
    IF ~limitsEnabled THEN "ok"
    ELSE IF TornFiles # {} THEN "error"
    ELSE IF \/ stillPaused(diskOK)
            \/ MaxMessages > 0 /\ usageCount >= MaxMessages
            \/ MaxBytes > 0 /\ Size[id] > MaxBytes - usageBytes
            \/ ~diskOK
         THEN "full" ELSE "ok"

(* Store.Enqueue of a new id.  For an id the store has in any directory it   *)
(* reports success and changes nothing.                                      *)
Enqueue(id, rcpt, hold) ==
    LET m == [rcpt |-> rcpt, attempts |-> 0, due |-> TRUE, hold |-> hold]
    IN  /\ up
        /\ messageState(id) = "none"
        /\ \E diskOK \in DiskReadings :
             \/ /\ admit(id, diskOK) = "full"
                /\ paused' = TRUE
                /\ UNCHANGED <<files, faults, history>>
             \/ /\ admit(id, diskOK) = "ok"
                /\ paused' = FALSE
                /\ Persist(id, "inbound", m, {{}})
                /\ IF files' = files THEN UNCHANGED history
                   ELSE /\ accepted' = accepted \cup {id}
                        /\ held' = IF hold = "no" THEN held \ {id} ELSE held \cup {id}
                        /\ excused' = excused \ {id}
        /\ UNCHANGED <<leased, buffer, up>>

-----------------------------------------------------------------------------
(* Store.Due with dueFromDir.  Files that do not decode go to the poison     *)
(* directory (a failure to do so is ignored), expired quarantined ones are   *)
(* deleted (a failure ends the scan with an error and no message), and at    *)
(* most limit of the due messages are returned.                              *)
(* Mutant: the hold is not looked at.                                        *)
ExpiredFiles == {f \in PendingFiles \ TornFiles : files[f[1]][f[2]].hold = "expired"}
DueWhileHeld == {f \in PendingFiles \ TornFiles : files[f[1]][f[2]].due}
DueFiles == {f \in PendingFiles \ TornFiles : /\ files[f[1]][f[2]].hold = "no"
                                             /\ files[f[1]][f[2]].due}
CopyOf(f) == [id |-> f[2], dir |-> f[1], rcpt |-> files[f[1]][f[2]].rcpt,
              attempts |-> files[f[1]][f[2]].attempts]
Batches(limit) ==
    {{CopyOf(f) : f \in picked} : picked \in
        {p \in SUBSET DueFiles : /\ Cardinality(p) <= limit
                                 /\ Cardinality(p) < limit => p = DueFiles}}

(* fairQueue.due: of each message the batch has and the buffer has not, one  *)
(* copy is buffered; then some copies, at least one if there is any, go to   *)
(* the workers.  Class weights and caps decide which.                        *)
buffered(batch) ==
    {b \in SUBSET batch : /\ \A c \in b : \A l \in buffer : c.id # l.id
                          /\ \A c1, c2 \in b : c1.id = c2.id => c1 = c2
                          /\ \A c \in batch : \E l \in b \cup buffer : c.id = l.id}
HandOuts(waiting) ==
    {out \in SUBSET waiting : /\ Cardinality(out) <= BatchLimit
                              /\ waiting # {} => out # {}}

(* Dispatcher.processBatch asks for messages when the last batch is settled. *)
Due ==
    /\ up
    /\ leased = {}
    /\ \E stuck \in SUBSET (TornFiles \cup ExpiredFiles) :
         LET cleaned == (TornFiles \cup ExpiredFiles) \ stuck
         IN  /\ Fault(stuck # {})
             /\ files' = [d \in Dirs |-> [id \in Ids |->
                            IF <<d, id>> \in cleaned THEN NoFile ELSE files[d][id]]]
             /\ excused' = excused \cup {id \in {f[2] : f \in cleaned} :
                                \A d \in Dirs : files'[d][id] = NoFile}
             /\ \/ /\ stuck \cap ExpiredFiles # {}
                   /\ UNCHANGED <<leased, buffer>>
                \/ /\ stuck \cap ExpiredFiles = {}
                   /\ ~Fair
                   /\ leased' \in Batches(BatchLimit)
                   /\ buffer' = buffer
                \/ /\ stuck \cap ExpiredFiles = {}
                   /\ Fair
                   /\ \E batch \in Batches(FetchLimit - Cardinality(buffer)) :
                      \E b \in buffered(batch) :
                      \E out \in HandOuts(buffer \cup b) :
                        /\ leased' = out
                        /\ buffer' = (buffer \cup b) \ out
    /\ UNCHANGED <<paused, up, accepted, held>>

-----------------------------------------------------------------------------
(* The results a worker reports for its copy c.  Each is refused, without a  *)
(* change, unless the message is still in a pending directory and readable.  *)
(* Mutant: nothing is refused.                                               *)
SettleUnchecked(c, d, m) ==
    /\ up /\ c \in leased
    /\ leased' = leased \ {c}
    /\ Persist(c.id, d, m, removePendingExcept(d))
    /\ UNCHANGED <<paused, buffer, up, history>>

Settle(c, d, m) ==
    /\ up /\ c \in leased
    /\ leased' = leased \ {c}
    /\ IF messageState(c.id) \in PendingDirs
       THEN Persist(c.id, d, m, removePendingExcept(d))
       ELSE UNCHANGED <<files, faults>>
    /\ UNCHANGED <<paused, buffer, up, history>>

Record(rcpt, attempts, due) ==
    [rcpt |-> rcpt, attempts |-> attempts, due |-> due, hold |-> "no"]

(* Store.AckSent keeps the copy's recipients. *)
AckSent(c) == Settle(c, "sent", Record(c.rcpt, c.attempts, TRUE))

(* Store.Retry counts an attempt and waits. *)
counted(n) == IF n < AttemptCap THEN n + 1 ELSE n
Retry(c, remaining) == Settle(c, "retry", Record(remaining, counted(c.attempts), FALSE))

(* Store.Defer waits without counting an attempt. *)
Defer(c, remaining) == Settle(c, "retry", Record(remaining, c.attempts, FALSE))

(* Store.Fail moves the message to the dead-letter directory. *)
Fail(c, remaining) == Settle(c, "dlq", Record(remaining, counted(c.attempts), TRUE))

-----------------------------------------------------------------------------
(* Store.RequeueFromState, the operator's release and requeue.  Attempts is  *)
(* kept.  Only messages coming back from sent or dlq are new to the limits.  *)
Released(d, id) == [files[d][id] EXCEPT !.hold = "no", !.due = TRUE]

RequeueFromState(state, id) ==
    LET d == dirForState(state)
        write == Persist(id, "inbound", Released(d, id), {{}, {d} \ {"inbound"}})
    IN  /\ up
        /\ Readable(d, id)
        /\ (state = "quarantine") <=> (files[d][id].hold # "no")
        /\ files[d][id].hold # "expired"
        /\ \/ /\ d \notin TerminalDirs
              /\ write
              /\ UNCHANGED paused
           \/ /\ d \in TerminalDirs
              /\ \E diskOK \in DiskReadings :
                   \/ /\ admit(id, diskOK) = "full"
                      /\ paused' = TRUE
                      /\ UNCHANGED <<files, faults>>
                   \/ /\ admit(id, diskOK) = "ok"
                      /\ paused' = FALSE
                      /\ write
        /\ held' = IF state = "quarantine" /\ files' # files THEN held \ {id} ELSE held
        /\ UNCHANGED <<leased, buffer, up, accepted, excused>>

(* The file of id in directory d goes; the id is excused if it was the last. *)
Discard(d, id) ==
    /\ files' = [files EXCEPT ![d][id] = NoFile]
    /\ excused' = IF Holders(id) = {d} THEN excused \cup {id} ELSE excused
    /\ UNCHANGED <<paused, leased, buffer, up, faults, accepted, held>>

(* Store.DeleteQuarantined, not as a dry run.  Mutant: it deletes any message *)
(* of the inbound directory.                                                 *)
DeleteInbound(id) == up /\ Readable("inbound", id) /\ Discard("inbound", id)
DeleteQuarantined(id) ==
    /\ up
    /\ Readable("inbound", id)
    /\ files["inbound"][id].hold # "no"
    /\ Discard("inbound", id)

(* retention.removeOlder on sent and mail.dlq.  The retention times are in   *)
(* days: a copy in a worker's hands is settled long before.                  *)
removeOlder(d, id) ==
    /\ up
    /\ Exists(d, id)
    /\ \A c \in Copies : c.id # id
    /\ Discard(d, id)

(* Time reaches the NextAttempt or the quarantine deadline of a file. *)
Elapse(d, id) ==
    /\ Readable(d, id)
    /\ \/ /\ ~files[d][id].due
          /\ files' = [files EXCEPT ![d][id].due = TRUE]
       \/ /\ files[d][id].hold = "held"
          /\ files' = [files EXCEPT ![d][id].hold = "expired"]
    /\ UNCHANGED <<paused, leased, buffer, up, faults, history>>

-----------------------------------------------------------------------------
(* The process or the host dies.  What is in memory is lost; as Store.write  *)
(* does not sync, a host failure may also leave a file undecodable.          *)
Crash ==
    /\ up
    /\ Fault(TRUE)
    /\ up' = FALSE /\ leased' = {} /\ buffer' = {} /\ paused' = FALSE
    /\ \/ UNCHANGED files
       \/ \E d \in Dirs, id \in Ids : /\ Exists(d, id)
                                      /\ files' = [files EXCEPT ![d][id] = Torn]
    /\ UNCHANGED history

(* NewBackend: with limits or quarantine configured, a file the usage scan   *)
(* cannot decode refuses the start.                                          *)
NewBackend ==
    /\ ~up
    /\ limitsEnabled \/ Quarantine => TornFiles = {}
    /\ up' = TRUE
    /\ UNCHANGED <<files, paused, leased, buffer, faults, history>>

(* An operator takes an undecodable file away while the process is down. *)
Repair(f) == ~up /\ f \in TornFiles /\ Discard(f[1], f[2])

Holds == IF Quarantine THEN {"no", "held"} ELSE {"no"}

Next ==
    \/ \E id \in Ids, rcpt \in (SUBSET Rcpts) \ {{}}, hold \in Holds :
         Enqueue(id, rcpt, hold)
    \/ Due
    \/ \E c \in leased : AckSent(c)
    \/ \E c \in leased : \E remaining \in (SUBSET c.rcpt) \ {{}} :
         Retry(c, remaining) \/ Defer(c, remaining) \/ Fail(c, remaining)
    \/ \E state \in AdminStates, id \in Ids : RequeueFromState(state, id)
    \/ \E id \in Ids : DeleteQuarantined(id)
    \/ \E d \in TerminalDirs, id \in Ids : removeOlder(d, id)
    \/ \E d \in PendingDirs, id \in Ids : Elapse(d, id)
    \/ Crash
    \/ NewBackend
    \/ \E f \in PendingDirs \X Ids : Repair(f)

Spec == Init /\ [][Next]_vars

-----------------------------------------------------------------------------
(* The state has its type: files hold messages, leased holds copies. *)
TypeOK ==
    /\ files \in [Dirs -> [Ids -> Slots]]
    /\ leased \subseteq Copy /\ buffer \subseteq Copy
    /\ paused \in BOOLEAN /\ up \in BOOLEAN /\ faults \in Nat
    /\ accepted \subseteq Ids /\ held \subseteq Ids /\ excused \subseteq Ids

(* A message whose Enqueue succeeded is never lost: whatever crashes, failed *)
(* removals and late results happen, the store keeps a file of it until a    *)
(* rule of the system (poison, quarantine, retention) deletes the last one.  *)
(* Rests on every operation of store.go writing before it removes.           *)
AcceptedKept ==
    \A id \in accepted : Holders(id) # {} \/ id \in excused

(* Until a crash or an I/O error, a message lies in exactly one directory    *)
(* after any sequence of worker results and operator requeues.               *)
OneCopy ==
    faults = 0 => \A id \in Ids : Cardinality(Holders(id)) <= 1

(* Every copy handed out or buffered is backed by a readable file that is not   *)
(* on hold, so a crash before its result loses nothing: Due removes nothing, *)
(* and no other operation removes the last such file of a leased message.    *)
LeasedBacked ==
    \A c \in Copies : \E d \in Dirs : Readable(d, c.id) /\ files[d][c.id].hold = "no"

(* Two copies of one message are out only after a fault that left two files  *)
(* of it, and never with the fairness buffer, which drops the second.        *)
OneWorker ==
    faults = 0 \/ Fair => \A c1, c2 \in Copies : c1.id = c2.id => c1 = c2

(* A message accepted under quarantine is in no worker's hands and in no     *)
(* other directory until an operator releases it from "quarantine": neither  *)
(* a requeue from another state nor a restart lets it out.                   *)
QuarantineHolds ==
    \A id \in held :
        /\ \A c \in Copies : c.id # id
        /\ Holders(id) \subseteq {"inbound"}
        /\ Readable("inbound", id) => files["inbound"][id].hold # "no"

(* The undelivered messages never exceed queue_max_messages, also when       *)
(* failed removals leave two files of a message and when messages come back  *)
(* from sent or dlq.                                                         *)
MessageBound ==
    MaxMessages > 0 => Cardinality(PendingIds) <= MaxMessages

(* Nor does the Data of the undelivered messages exceed queue_max_bytes. *)
ByteBound ==
    MaxBytes > 0 => MapThenSumSet(LAMBDA id : Size[id], PendingIds) <= MaxBytes

(* Once admission is paused, no further message becomes pending before both  *)
(* usages are at or below the low watermark (the hysteresis of Store.admit). *)
ResumesBelowLow ==
    [][paused /\ ~(PendingIds' \subseteq PendingIds)
       => below(usageCount, MaxMessages) /\ below(usageBytes, MaxBytes)]_vars

(* A message that has settled in sent or dlq becomes pending again only by   *)
(* an operator's requeue: the late result of a second worker is refused.     *)
SettledStays ==
    [][\A id \in Ids :
         messageState(id) \in TerminalDirs /\ id \in PendingIds'
         => \E state \in TerminalDirs : RequeueFromState(state, id)]_vars
=============================================================================
