----------------------------- MODULE OnceProofs -----------------------------
(***************************************************************************)
(* Without faults and requeues of settled messages no recipient is sent a  *)
(* message twice.                                                          *)
(***************************************************************************)
EXTENDS DispatcherProofs, QueueBoundProofs

(* Until a fault, a recipient that may have the message is in no worker's    *)
(* list of things to do, in no buffered copy and in no pending file but that *)
(* of the message being handled.                                             *)
Clean(id) ==
    /\ \A r \in Rcpts : <<id, r>> \notin repeated
    /\ \A d \in PendingDirs :
         Readable(d, id) /\ files[d][id].rcpt \cap sentTo[id] # {} => \E c \in leased : c.id = id
    /\ \A c \in leased : c.id = id =>
         /\ work[c].todo \cap sentTo[id] = {}
         /\ work[c].waiting \cap sentTo[id] = {}
         /\ work[c].unknown \/ work[c].failed \cap sentTo[id] = {}
    /\ \A c \in buffer : c.id = id => c.rcpt \cap sentTo[id] = {}
OnceInv ==
    /\ leased \cap buffer = {}
    /\ \A d \in Dirs, id \in Ids : Readable(d, id) => id \in accepted
    /\ \A id \in Ids \ accepted : sentTo[id] = {}
    /\ faults = 0 => /\ \A c \in Copies : \E d \in PendingDirs : Readable(d, c.id)
                     /\ \A id \in Ids \ replayed : Clean(id)

(* All that the proof uses of a state. *)
AllInv == TypeOK /\ KeepInv /\ SingleInv /\ WorkInv /\ OnceInv

LEMMA LeaseMoves ==
    ASSUME TypeOK, WorkInv, [DNext]_all_vars
    PROVE  /\ TakeBatch \/ (leased' \subseteq leased /\ buffer' \subseteq buffer)
           /\ accepted \subseteq accepted'
           /\ replayed \subseteq replayed'
<1>1. CASE TakeBatch
  BY ZenonT(40), <1>1 DEF TakeBatch, Due
<1>2. ASSUME NEW k \in leased, NEW r \in Rcpts, Handle(k, r) \/ BounceHeld(k, r)
      PROVE  leased' = leased /\ buffer' = buffer /\ replayed' = replayed /\ accepted \subseteq accepted'
  <2>1. Notice /\ replayed' = replayed
    BY ZenonT(40), <1>2, HandleEffect, BounceEffect
  <2> QED BY ZenonT(40), <2>1, NoticeStep DEF Notice, vars, Enqueue, history
<1>3. CASE \E k \in leased : Settled(k)
  BY ZenonT(40), <1>3, SettledEffect DEF AckSent, Defer, Fail, Retry, Settle, history
<1>4. CASE Operate
  BY ZenonT(40), <1>4 DEF Operate, RequeueFromState, DeleteQuarantined, removeOlder, Repair, Discard
<1>5. CASE Stop
  BY <1>5 DEF Stop, Crash, history
<1>6. CASE (\E id \in Ids : Wait(id) \/ GrowOld(id)) \/ Start \/ UNCHANGED all_vars
           \/ \E id \in Ids, hold \in Holds : Accept(id, hold)
  BY ZenonT(40), <1>6 DEF Wait, GrowOld, Elapse, Start, NewBackend, all_vars, vars, Accept, Enqueue, history, work_vars
<1> QED BY SMTT(40), <1>1, <1>2, <1>3, <1>4, <1>5, <1>6 DEF DNext

(* Who sends, and to whom. *)
LEMMA SendStep ==
    ASSUME TypeOK, WorkInv, [DNext]_all_vars
    PROVE  \/ UNCHANGED <<sentTo, repeated>>
           \/ \E c \in leased, r \in Rcpts :
                /\ Handle(c, r) /\ Transmit(c, r) /\ r \in work[c].todo
<1>1. ASSUME NEW c \in leased, NEW r \in Rcpts, Handle(c, r)
      PROVE  UNCHANGED <<sentTo, repeated>> \/ (Transmit(c, r) /\ r \in work[c].todo)
  BY ZenonT(40), <1>1, HandleEffect DEF Outcome, NoTransmit
<1>2. ASSUME NEW c \in leased, NEW r \in Rcpts, BounceHeld(c, r)
      PROVE  UNCHANGED <<sentTo, repeated>>
  BY <1>2 DEF BounceHeld
<1> QED BY ZenonT(40), <1>1, <1>2
        DEF DNext, Accept, TakeBatch, Settled, Operate, Wait, GrowOld, Stop, Start, work_vars, all_vars

LEMMA LeasedAccepted ==
    ASSUME AllInv
    PROVE  \A c \in Copies : c.id \in Ids /\ c.id \in accepted
<1>1. ASSUME NEW c \in Copies PROVE c.id \in Ids /\ c.id \in accepted
  <2>1. c.id \in Ids
    BY DEF AllInv, TypeOK, Copies, Copy
  <2>2. PICK d \in Dirs : Readable(d, c.id)
    BY DEF AllInv, KeepInv, LeasedBacked
  <2> QED BY ZenonT(40), <2>1, <2>2 DEF AllInv, OnceInv
<1> QED BY SMTT(40), <1>1

(* The parts of OnceInv that hold after faults, too. *)
LEMMA OnceAlways ==
    ASSUME AllInv, [DNext]_all_vars
    PROVE  /\ leased' \cap buffer' = {}
           /\ \A d \in Dirs, id \in Ids : Readable(d, id)' => id \in accepted'
           /\ \A id \in Ids \ accepted' : sentTo'[id] = {}
<1>1. leased' \cap buffer' = {}
  <2>1. CASE TakeBatch
    BY ZenonT(40), <2>1 DEF TakeBatch, Due, AllInv, SingleInv, OnceInv
  <2> QED BY SMTT(40), <2>1, LeaseMoves DEF AllInv, OnceInv
<1>2. ASSUME NEW d \in Dirs, NEW id \in Ids, Readable(d, id)' PROVE id \in accepted'
  <2>1. accepted \subseteq accepted'
    BY LeaseMoves DEF AllInv
  <2>2. Inherited(d, id) \/ New(d, id) \/ \E c \in leased : id = c.id
    BY <1>2, FileOrigin DEF AllInv
  <2>3. Inherited(d, id) => id \in accepted
    BY DEF Inherited, AllInv, OnceInv
  <2> QED BY <2>1, <2>2, <2>3, LeasedAccepted DEF New, Copies
<1>3. ASSUME NEW id \in Ids \ accepted' PROVE sentTo'[id] = {}
  <2>1. id \notin accepted
    BY SMTT(40), LeaseMoves DEF AllInv
  <2>2. sentTo[id] = {}
    BY <2>1 DEF AllInv, OnceInv
  <2>3. \A c \in leased, r \in Rcpts : Transmit(c, r) => sentTo'[id] = sentTo[id]
    BY SMTT(40), <2>1, LeasedAccepted, TransmitEffect DEF AllInv, Copies
  <2> QED BY <2>2, <2>3, SendStep DEF AllInv
<1> QED BY <1>1, <1>2, <1>3

(* Until a fault, a worker's result replaces the one pending file. *)
LEMMA SettledReplaces ==
    ASSUME AllInv, faults' = 0, faults = 0, NEW c \in leased, Settled(c),
           NEW d \in PendingDirs, Readable(d, c.id)'
    PROVE  files'[d][c.id].rcpt = Remaining(c) /\ (work[c].failed = {} \/ ~shouldFail(c))
<1>0. c.id \in Ids /\ c.rcpt \in SUBSET Rcpts /\ c.attempts \in Nat /\ counted(c.attempts) \in Nat
      /\ Remaining(c) \in SUBSET Rcpts /\ TypeOK
  BY SMTT(40) DEF AllInv, TypeOK, Copy, counted, WorkInv, Progress, Remaining
<1>1. messageState(c.id) \in PendingDirs
  <2>1. PICK e \in PendingDirs : Readable(e, c.id)
    BY ZenonT(40) DEF AllInv, OnceInv, Copies
  <2>2. \A f \in Dirs : Exists(f, c.id) => f = e
    BY SMTT(40), <1>0, <2>1, Directories DEF AllInv, SingleInv, Exists, Readable
  <2>3. PICK f \in Dirs : Readable(f, c.id) /\ files[f][c.id].hold = "no"
    BY DEF AllInv, KeepInv, LeasedBacked, Copies
  <2>4. f = e
    BY <2>2, <2>3 DEF Exists, Readable
  <2> QED BY SMTT(40), <2>1, <2>2, <2>3, <2>4 DEF messageState, Exists, Readable, PendingDirs, Dirs, TerminalDirs
<1>2. ASSUME NEW e \in {"sent", "retry", "dlq"}, NEW m \in Message, Settle(c, e, m)
      PROVE  d = e /\ files'[d][c.id] = m
  <2>1. e \in Dirs /\ removePendingExcept(e) \subseteq SUBSET (Dirs \ {e})
        /\ PendingDirs \ {e} \in removePendingExcept(e)
    BY ZenonT(40), Directories DEF Dirs, PendingDirs, TerminalDirs
  <2>2. Persist(c.id, e, m, removePendingExcept(e))
    BY SMTT(40), <1>1, <1>2 DEF Settle
  <2>3. /\ files'[e][c.id] = m
        /\ \A dirs \in removePendingExcept(e) : \A k \in dirs : files'[k][c.id] = NoFile
    BY SMTT(40), <1>0, <2>1, <2>2, PersistEffect
  <2> QED BY <2>1, <2>3 DEF Readable
<1>3. \A rcpt \in SUBSET Rcpts, n \in Nat, due \in BOOLEAN :
         Record(rcpt, n, due) \in Message /\ Record(rcpt, n, due).rcpt = rcpt
  BY DEF Record, Message
<1>4. ~AckSent(c) /\ \A rem \in SUBSET Rcpts : ~Fail(c, rem)
  BY ZenonT(40), <1>0, <1>2, <1>3 DEF AckSent, Fail, PendingDirs
<1>5. ASSUME Defer(c, Remaining(c)) \/ Retry(c, Remaining(c))
      PROVE  files'[d][c.id].rcpt = Remaining(c)
  BY ZenonT(40), <1>0, <1>2, <1>3, <1>5 DEF Defer, Retry
<1>6. \/ work[c].failed = {} /\ Defer(c, Remaining(c))
      \/ ~shouldFail(c) /\ Retry(c, Remaining(c))
  BY ZenonT(40), <1>0, <1>4, SettledEffect DEF Remaining, AllInv
<1> QED BY SMTT(40), <1>5, <1>6

(* Until a fault, the file behind a copy is in a pending directory. *)
LEMMA CopiesPending ==
    ASSUME AllInv, KeepInv', SingleInv', [DNext]_all_vars, faults' = 0, faults = 0, NEW c \in Copies'
    PROVE  \E d \in PendingDirs : Readable(d, c.id)'
<1>1. \E d \in PendingDirs : Readable(d, c.id)
  <2>1. CASE c \in Copies
    BY <2>1 DEF AllInv, OnceInv
  <2>2. CASE \E d \in PendingDirs, id \in Ids : Readable(d, id) /\ c = CopyOf(<<d, id>>)
    BY <2>2 DEF CopyOf
  <2> QED BY <2>1, <2>2, CopyOrigin DEF AllInv
<1>2. c.id \in Ids
  <2>1. CASE c \in Copies
    BY <2>1, LeasedAccepted
  <2>2. CASE \E d \in PendingDirs, id \in Ids : Readable(d, id) /\ c = CopyOf(<<d, id>>)
    BY <2>2 DEF CopyOf
  <2> QED BY <2>1, <2>2, CopyOrigin DEF AllInv
<1>3. PICK e \in Dirs : Readable(e, c.id)'
  BY DEF KeepInv, LeasedBacked, Readable
<1>4. CASE e \in TerminalDirs
  <2>1. ~Readable(e, c.id)
    BY SMTT(40), <1>1, <1>2, <1>4, Directories DEF AllInv, SingleInv, Exists, Readable, PendingDirs, TerminalDirs
  <2>2. ~Inherited(e, c.id) /\ ~New(e, c.id)
    BY ZenonT(40), <1>4, <2>1 DEF Inherited, New, TerminalDirs
  <2>3. PICK k \in leased : c.id = k.id /\ Settled(k)
    BY ZenonT(40), <1>2, <1>3, <2>2, FileOrigin DEF AllInv, Written
  <2>4. leased' = leased \ {k} /\ buffer' = buffer
    BY ZenonT(40), <2>3, SettledEffect DEF AckSent, Defer, Fail, Retry, Settle, AllInv
  <2>5. c \in Copies /\ k \in Copies /\ c # k
    BY ZenonT(40), <2>4 DEF Copies, AllInv, OnceInv
  <2> QED BY SMTT(40), <2>3, <2>5 DEF AllInv, SingleInv, OneWorker
<1> QED BY SMTT(40), <1>3, <1>4 DEF Dirs

(* A copy taken from a file when no worker is busy is clean. *)
LEMMA TakenClean ==
    ASSUME AllInv, faults = 0, TakeBatch, NEW c \in Copies', c.id \in Ids \ replayed, [DNext]_all_vars
    PROVE  c.rcpt \cap sentTo[c.id] = {}
<1>1. leased = {}
  BY ZenonT(40) DEF TakeBatch, Due
<1>2. CASE c \in buffer
  BY <1>2 DEF AllInv, OnceInv, Clean
<1>3. ASSUME NEW d \in PendingDirs, NEW id \in Ids, Readable(d, id), c = CopyOf(<<d, id>>)
      PROVE  c.rcpt \cap sentTo[c.id] = {}
  <2>1. c.id = id /\ c.rcpt = files[d][id].rcpt
    BY SMTT(40), <1>3 DEF CopyOf
  <2> QED BY SMTT(40), <1>1, <1>3, <2>1 DEF AllInv, OnceInv, Clean
<1> QED BY ZenonT(40), <1>1, <1>2, <1>3, CopyOrigin DEF AllInv, Copies

(* What is sent to changes only for the message of the worker that sends. *)
LEMMA SentElsewhere ==
    ASSUME AllInv, faults = 0, [DNext]_all_vars, NEW id \in Ids
    PROVE  \/ sentTo'[id] = sentTo[id]
           \/ /\ leased' = leased
              /\ \E c \in leased, r \in Rcpts :
                   /\ c.id = id /\ Handle(c, r) /\ Transmit(c, r) /\ r \in work[c].todo
                   /\ sentTo'[id] = sentTo[id] \cup {r}
<1>1. ASSUME NEW c \in leased, NEW r \in Rcpts, Handle(c, r), Transmit(c, r), r \in work[c].todo
      PROVE  \/ sentTo'[id] = sentTo[id]
             \/ c.id = id /\ leased' = leased /\ sentTo'[id] = sentTo[id] \cup {r}
  <2>1. c.id \in Ids /\ WorkInv
    BY SMTT(40), LeasedAccepted DEF Copies, AllInv
  <2> QED BY SMTT(40), <1>1, <2>1, TransmitEffect, HandleEffect, NoticeStep
<1> QED BY SMTT(40), <1>1, SendStep DEF AllInv

(* The second part of Clean. *)
LEMMA CleanFiles ==
    ASSUME AllInv, faults = 0, faults' = 0, [DNext]_all_vars,
           NEW id \in Ids \ replayed', NEW d \in PendingDirs, Readable(d, id)',
           files'[d][id].rcpt \cap sentTo'[id] # {}
    PROVE  \E c \in leased' : c.id = id
<1>0. id \notin replayed /\ TypeOK /\ WorkInv
  BY LeaseMoves DEF AllInv
<1>1. CASE sentTo'[id] # sentTo[id]
  BY <1>1, SentElsewhere
<1>2. ASSUME sentTo'[id] = sentTo[id], NEW k \in leased, Settled(k), k.id = id
      PROVE  FALSE
  <2>1. files'[d][id].rcpt = Remaining(k) /\ (work[k].failed = {} \/ ~shouldFail(k))
    BY SMTT(40), <1>2, SettledReplaces
  <2>2. /\ work[k].waiting \cap sentTo[id] = {}
        /\ work[k].unknown \/ work[k].failed \cap sentTo[id] = {}
    BY <1>0, <1>2 DEF AllInv, OnceInv, Clean
  <2> QED BY SMTT(40), <1>2, <2>1, <2>2 DEF Remaining, shouldFail
<1>3. ASSUME sentTo'[id] = sentTo[id], \A k \in leased : Settled(k) => k.id # id
      PROVE  \E c \in leased' : c.id = id
  <2>1. Inherited(d, id) \/ New(d, id)
    BY SMTT(40), <1>0, <1>3, FileOrigin, Directories DEF Written
  <2>2. ~New(d, id)
    <3>1. id \notin accepted => sentTo[id] = {}
      BY ZenonT(40) DEF AllInv, OnceInv
    <3> QED BY ZenonT(40), <1>3, <3>1 DEF New
  <2>3. PICK c \in leased : c.id = id
    BY SMTT(40), <1>0, <1>3, <2>1, <2>2 DEF Inherited, AllInv, OnceInv, Clean
  <2>4. c \in leased'
    <3>1. CASE TakeBatch
      BY ZenonT(40), <3>1 DEF TakeBatch, Due
    <3>2. CASE \E k \in leased, r \in Rcpts : Handle(k, r) \/ BounceHeld(k, r)
      BY ZenonT(40), <1>0, <3>2, HandleEffect, BounceEffect, NoticeStep
    <3>3. CASE \E k \in leased : Settled(k)
      <4>1. PICK k \in leased : Settled(k)
        BY SMTT(40), <3>3
      <4>2. leased' = leased \ {k} /\ k.id # id
        BY ZenonT(40), <1>0, <1>3, <4>1, SettledEffect DEF AckSent, Defer, Fail, Retry, Settle
      <4> QED BY <2>3, <4>2
    <3>4. CASE Operate
      BY ZenonT(40), <3>4 DEF Operate, RequeueFromState, DeleteQuarantined, removeOlder, Repair, Discard
    <3>5. ~Stop
      <4>1. Stop => faults' = faults + 1
        BY DEF Stop, Crash, Fault
      <4> QED BY <1>0, <4>1 DEF TypeOK
    <3>6. CASE (\E i \in Ids : Wait(i) \/ GrowOld(i)) \/ Start \/ UNCHANGED all_vars
               \/ \E i \in Ids, hold \in Holds : Accept(i, hold)
      BY ZenonT(40), <3>6 DEF Wait, GrowOld, Elapse, Start, NewBackend, all_vars, vars, Accept, Enqueue
    <3> QED BY ZenonT(40), <3>1, <3>2, <3>3, <3>4, <3>5, <3>6 DEF DNext
  <2> QED BY SMTT(40), <2>3, <2>4
<1> QED BY ZenonT(40), <1>1, <1>2, <1>3

(* The third. *)
LEMMA CleanWork ==
    ASSUME AllInv, faults = 0, [DNext]_all_vars, NEW c \in leased', c.id \in Ids \ replayed'
    PROVE  /\ work'[c].todo \cap sentTo'[c.id] = {}
           /\ work'[c].waiting \cap sentTo'[c.id] = {}
           /\ work'[c].unknown \/ work'[c].failed \cap sentTo'[c.id] = {}
<1>0. c.id \notin replayed /\ TypeOK /\ WorkInv
  BY LeaseMoves DEF AllInv
<1>1. CASE TakeBatch
  <2>1. c.rcpt \cap sentTo[c.id] = {}
    BY SMTT(40), <1>0, <1>1, TakenClean DEF Copies
  <2>2. work'[c] = Fresh(c) /\ sentTo' = sentTo
    BY SMTT(40), <1>1 DEF TakeBatch
  <2> QED BY <2>1, <2>2 DEF Fresh
<1>2. ASSUME c \in leased
      PROVE  /\ work[c].todo \cap sentTo[c.id] = {}
             /\ work[c].waiting \cap sentTo[c.id] = {}
             /\ work[c].unknown \/ work[c].failed \cap sentTo[c.id] = {}
  BY SMTT(40), <1>0, <1>2 DEF AllInv, OnceInv, Clean
<1>3. CASE c \in leased /\ work'[c] = work[c] /\ sentTo'[c.id] = sentTo[c.id]
  BY SMTT(40), <1>2, <1>3
<1>4. ASSUME NEW k \in leased, NEW r \in Rcpts, Handle(k, r), c \in leased
      PROVE  /\ work'[c].todo \cap sentTo'[c.id] = {}
             /\ work'[c].waiting \cap sentTo'[c.id] = {}
             /\ work'[c].unknown \/ work'[c].failed \cap sentTo'[c.id] = {}
  <2>1. PICK w \in Progress : Outcome(k, r, w)
    BY SMTT(40), <1>0, <1>4, HandleEffect
  <2>2. k.id \in Ids /\ r \in work[k].todo
    BY SMTT(40), <1>0, <1>4, HandleEffect, LeasedAccepted DEF Copies
  <2>3. CASE k = c
    <3>1. work'[c] = w
      BY ZenonT(40), <1>0, <2>1, <2>3 DEF WorkInv, Outcome
    <3>2. CASE NoTransmit
      BY ZenonT(40), <1>2, <1>4, <2>1, <2>2, <2>3, <3>1, <3>2 DEF Outcome, Done, ToFailed, ToWaiting, NoTransmit
    <3>3. CASE Transmit(k, r)
      <4>1. sentTo'[c.id] = sentTo[c.id] \cup {r}
        BY SMTT(40), <1>0, <2>2, <2>3, <3>3, TransmitEffect
      <4>2. w.todo = work[c].todo \ {r}
        BY SMTT(40), <2>1, <2>3 DEF Outcome
      <4>3. r \notin work[c].failed /\ r \notin work[c].waiting
        BY SMTT(40), <1>0, <2>2, <2>3 DEF WorkInv
      <4>4. CASE Done(k, r, w)
        BY SMTT(40), <1>2, <1>4, <2>3, <3>1, <4>1, <4>2, <4>3, <4>4 DEF Done
      <4>5. CASE ToFailed(k, r, w) /\ w.unknown
        BY ZenonT(40), <1>2, <1>4, <2>3, <3>1, <4>1, <4>2, <4>3, <4>5 DEF ToFailed
      <4>6. \/ Done(k, r, w) \/ (ToFailed(k, r, w) /\ w.unknown) \/ sentTo' = sentTo
        BY SMTT(40), <2>1 DEF Outcome, NoTransmit
      <4>7. CASE sentTo' = sentTo
        BY ZenonT(40), <1>2, <1>4, <2>1, <2>2, <2>3, <3>1, <4>1, <4>7
           DEF Outcome, Done, ToFailed, ToWaiting
      <4> QED BY SMTT(40), <4>4, <4>5, <4>6, <4>7
    <3> QED BY ZenonT(40), <2>1, <3>2, <3>3 DEF Outcome
  <2>4. CASE k # c
    <3>1. k.id # c.id
      BY SMTT(40), <1>4, <2>4 DEF AllInv, SingleInv, OneWorker, Copies
    <3>2. work'[c] = work[c]
      BY ZenonT(40), <1>0, <1>4, <2>1, <2>4 DEF WorkInv, Outcome
    <3>3. sentTo'[c.id] = sentTo[c.id]
      BY ZenonT(40), <1>0, <2>1, <2>2, <3>1, TransmitEffect DEF Outcome, NoTransmit
    <3> QED BY ZenonT(40), <1>2, <1>4, <3>2, <3>3
  <2> QED BY SMTT(40), <2>3, <2>4
<1>5. ASSUME NEW k \in leased, NEW r \in Rcpts, BounceHeld(k, r), c \in leased
      PROVE  /\ work'[c].todo \cap sentTo'[c.id] = {}
             /\ work'[c].waiting \cap sentTo'[c.id] = {}
             /\ work'[c].unknown \/ work'[c].failed \cap sentTo'[c.id] = {}
  <2>1. PICK w \in Progress :
          /\ work' = [work EXCEPT ![k] = w]
          /\ w.todo = work[k].todo /\ w.failed = work[k].failed \ {r}
          /\ w.waiting = work[k].waiting /\ w.unknown = work[k].unknown
    BY ZenonT(40), <1>0, <1>5, BounceEffect
  <2>2. sentTo' = sentTo
    BY SMTT(40), <1>5 DEF BounceHeld
  <2>3. work'[c] = IF k = c THEN w ELSE work[c]
    BY ZenonT(40), <1>0, <1>5, <2>1 DEF WorkInv
  <2> QED BY SMTT(40), <1>2, <1>5, <2>1, <2>2, <2>3
<1>6. ASSUME ~TakeBatch, \A k \in leased, r \in Rcpts : ~Handle(k, r) /\ ~BounceHeld(k, r)
      PROVE  c \in leased /\ work'[c] = work[c] /\ sentTo'[c.id] = sentTo[c.id]
  <2>1. c \in leased
    BY SMTT(40), <1>0, <1>6, LeaseMoves
  <2>2. sentTo' = sentTo
    BY SMTT(40), <1>0, <1>6, SendStep
  <2>3. work'[c] = work[c]
    <3>1. CASE Stop
      BY <3>1 DEF Stop, Crash
    <3> QED BY ZenonT(40), <1>6, <2>1, <3>1 DEF DNext, Accept, Settled, Operate, Wait, GrowOld, Start,
            work_vars, all_vars
  <2> QED BY SMTT(40), <2>1, <2>2, <2>3
<1> QED BY ZenonT(40), <1>0, <1>1, <1>3, <1>4, <1>5, <1>6, LeaseMoves

LEMMA CleanStep ==
    ASSUME AllInv, faults = 0, faults' = 0, [DNext]_all_vars, NEW id \in Ids \ replayed'
    PROVE  Clean(id)'
<1>0. id \notin replayed /\ TypeOK /\ WorkInv
  BY SMTT(40), LeaseMoves DEF AllInv
<1>1. ASSUME NEW r \in Rcpts PROVE <<id, r>> \notin repeated'
  <2>1. <<id, r>> \notin repeated
    BY <1>0 DEF AllInv, OnceInv, Clean
  <2>2. ASSUME NEW c \in leased, NEW q \in Rcpts, Transmit(c, q), q \in work[c].todo
        PROVE  <<id, r>> \notin repeated'
    <3>1. CASE c.id = id
      <4>1. q \notin sentTo[c.id]
        BY SMTT(40), <1>0, <2>2, <3>1 DEF AllInv, OnceInv, Clean
      <4> QED BY ZenonT(40), <2>1, <2>2, <4>1 DEF Transmit
    <3>2. CASE c.id # id
      BY SMTT(40), <2>1, <2>2, <3>2 DEF Transmit
    <3> QED BY SMTT(40), <3>1, <3>2
  <2> QED BY ZenonT(40), <1>0, <2>1, <2>2, SendStep
<1>2. ASSUME NEW c \in buffer', c.id = id PROVE c.rcpt \cap sentTo'[id] = {}
  <2>1. CASE TakeBatch
    BY SMTT(40), <1>0, <1>2, <2>1, TakenClean DEF Copies, TakeBatch
  <2>2. CASE buffer' \subseteq buffer
    <3>1. c.rcpt \cap sentTo[id] = {}
      BY SMTT(40), <1>0, <1>2, <2>2 DEF AllInv, OnceInv, Clean
    <3>2. \A k \in leased : k.id # id
      BY ZenonT(40), <1>2, <2>2 DEF AllInv, SingleInv, OneWorker, OnceInv, Copies
    <3> QED BY SMTT(40), <3>1, <3>2, SentElsewhere
  <2> QED BY SMTT(40), <1>0, <2>1, <2>2, LeaseMoves
<1>3. ASSUME NEW d \in PendingDirs, Readable(d, id)', files'[d][id].rcpt \cap sentTo'[id] # {}
      PROVE  \E c \in leased' : c.id = id
  BY SMTT(40), <1>3, CleanFiles
<1>4. ASSUME NEW c \in leased', c.id = id
      PROVE  /\ work'[c].todo \cap sentTo'[id] = {}
             /\ work'[c].waiting \cap sentTo'[id] = {}
             /\ work'[c].unknown \/ work'[c].failed \cap sentTo'[id] = {}
  BY <1>4, CleanWork
<1> QED BY ZenonT(40), <1>1, <1>2, <1>3, <1>4 DEF Clean, Readable

LEMMA FaultsGrow ==
    ASSUME TypeOK, [Next]_vars
    PROVE  faults' = 0 => faults = 0
<1>0. faults \in Nat
  BY DEF TypeOK
<1>1. ASSUME NEW b, Fault(b) PROVE faults' = 0 => faults = 0
  BY <1>0, <1>1 DEF Fault
<1>2. ASSUME NEW id, NEW d, NEW m, NEW removals, Persist(id, d, m, removals)
      PROVE  faults' = 0 => faults = 0
  BY ZenonT(40), <1>1, <1>2 DEF Persist
<1>3. ASSUME NEW id, NEW rcpt, NEW hold, Enqueue(id, rcpt, hold) PROVE faults' = 0 => faults = 0
  BY ZenonT(40), <1>2, <1>3 DEF Enqueue
<1>4. ASSUME NEW c, NEW d, NEW m, Settle(c, d, m) PROVE faults' = 0 => faults = 0
  BY SMTT(40), <1>2, <1>4 DEF Settle
<1>5. ASSUME NEW state \in AdminStates, NEW id \in Ids, RequeueFromState(state, id)
      PROVE  faults' = 0 => faults = 0
  BY ZenonT(40), <1>2, <1>5, RequeueEffect
<1>6. CASE Due
  BY <1>1, <1>6 DEF Due
<1>7. CASE Crash
  BY ZenonT(40), <1>1, <1>7 DEF Crash
<1> QED BY ZenonT(40), <1>3, <1>4, <1>5, <1>6, <1>7 DEF Next, AckSent, Retry, Defer, Fail,
        DeleteQuarantined, removeOlder, Repair, Discard, Elapse, NewBackend, vars

LEMMA OnceStep ==
    ASSUME AllInv, KeepInv', SingleInv', TypeOK', [DNext]_all_vars
    PROVE  OnceInv'
<1>1. faults' = 0 => faults = 0
  <2>1. [Next]_vars
    BY QueueStep DEF AllInv
  <2> QED BY <2>1, FaultsGrow DEF AllInv
<1>2. faults' = 0 => \A c \in Copies' : \E d \in PendingDirs : Readable(d, c.id)'
  BY <1>1, CopiesPending
<1>3. faults' = 0 => \A id \in Ids \ replayed' : Clean(id)'
  BY <1>1, CleanStep
<1> QED BY ZenonT(40), <1>2, <1>3, OnceAlways DEF OnceInv, Readable

(* Without faults and requeues of settled messages, no recipient is sent a   *)
(* message twice.                                                            *)
THEOREM NoneTwice == DSpec => []AtMostOnce
<1>1. DInit => OnceInv
  <2> SUFFICES ASSUME DInit PROVE OnceInv
    OBVIOUS
  <2>1. \A d \in Dirs, id \in Ids : ~Readable(d, id)
    BY WorkAssumption DEF DInit, Init, Readable
  <2>2. leased = {} /\ buffer = {} /\ repeated = {} /\ sentTo = [id \in Ids |-> {}]
    BY DEF DInit, Init
  <2> QED BY ZenonT(40), <2>1, <2>2, Directories DEF OnceInv, Clean, Copies
<1>2. OnceInv /\ AllInv /\ KeepInv' /\ SingleInv' /\ TypeOK' /\ [DNext]_all_vars => OnceInv'
  BY OnceStep
<1>3. TypeOK /\ KeepInv /\ SingleInv /\ WorkInv /\ OnceInv => AllInv
  BY SMTT(40) DEF AllInv
<1>4. WorkInv /\ OnceInv => AtMostOnce
  BY DEF WorkInv, OnceInv, Clean, AtMostOnce
<1>5. DSpec => Spec
  BY DispatcherUsesQueue DEF UsesQueue
<1> QED BY <1>1, <1>2, <1>3, <1>4, <1>5, WorkInvariant, KeepInvariant, SingleInvariant, PTL DEF DSpec
=============================================================================
