-------------------------- MODULE DispatcherProofs --------------------------
(***************************************************************************)
(* Proofs about the delivery worker, for any number of messages,           *)
(* recipients, workers and faults: it uses the queue as the queue allows,  *)
(* and what becomes of a message in its hands.                             *)
(***************************************************************************)
EXTENDS Dispatcher, LocalQueueProofs

(* A worker's progress accounts for the recipients of its copy: each is to   *)
(* do, failed, waiting or finished, none is new, and what is to do is        *)
(* neither failed nor waiting.                                               *)
WorkInv ==
    /\ work \in [leased -> Progress]
    /\ aged \subseteq Ids /\ replayed \subseteq Ids /\ repeated \subseteq Ids \X Rcpts
    /\ finished \in [Ids -> SUBSET Rcpts] /\ sentTo \in [Ids -> SUBSET Rcpts]
    /\ \A c \in leased :
         /\ work[c].todo \subseteq c.rcpt
         /\ work[c].failed \subseteq c.rcpt
         /\ work[c].waiting \subseteq c.rcpt
         /\ work[c].todo \cap work[c].failed = {} /\ work[c].todo \cap work[c].waiting = {}
         /\ c.rcpt \subseteq work[c].todo \cup work[c].failed
                             \cup work[c].waiting \cup finished[c.id]

(* A notice is an Enqueue of the queue, or nothing. *)
Notice ==
    \/ UNCHANGED vars
    \/ \E n \in DsnIds : n \notin accepted /\ Enqueue(n, RcptTo[n], "no")

LEMMA NoticeEffect ==
    \A id, kind : emitDSN(id, kind) => Notice
BY ZenonT(40) DEF emitDSN, Notice

(* What becomes of recipient r of copy c, and of the progress w. *)
Done(c, r, w) ==
    /\ w.failed = work[c].failed /\ w.waiting = work[c].waiting
    /\ w.unknown = work[c].unknown
    /\ Finish(c, r)
ToFailed(c, r, w) ==
    /\ w.failed = work[c].failed \cup {r} /\ w.waiting = work[c].waiting
    /\ work[c].unknown => w.unknown
    /\ UNCHANGED finished
ToWaiting(c, r, w) ==
    /\ w.failed = work[c].failed /\ w.waiting = work[c].waiting \cup {r}
    /\ w.unknown = work[c].unknown
    /\ UNCHANGED finished
Outcome(c, r, w) ==
    /\ work' = [work EXCEPT ![c] = w]
    /\ w.todo = work[c].todo \ {r}
    /\ \/ Done(c, r, w) /\ (Transmit(c, r) \/ NoTransmit)
       \/ ToFailed(c, r, w) /\ w.unknown /\ Transmit(c, r)
       \/ ToFailed(c, r, w) /\ NoTransmit
       \/ ToWaiting(c, r, w) /\ NoTransmit

(* What the eight ways to handle a recipient have in common. *)
LEMMA HandleEffect ==
    ASSUME WorkInv, NEW c \in leased, NEW r \in Rcpts, Handle(c, r)
    PROVE  /\ Notice
           /\ UNCHANGED <<aged, replayed>>
           /\ r \in work[c].todo
           /\ \E w \in Progress : Outcome(c, r, w)
<1>1. work[c] \in Progress /\ r \in work[c].todo /\ UNCHANGED <<aged, replayed>>
  BY DEF WorkInv, Handle, Delivered, Permanent, Temporary, Unknown, Refused, Suppressed,
         Shaped, Paused, Step
<1>2. Notice
  BY NoticeEffect DEF Notice, Handle, Delivered, Permanent, Temporary, Unknown, Refused,
     Suppressed, Shaped, Paused
<1>3. \E w \in Progress : Outcome(c, r, w)
  <2> DEFINE dn == [work[c] EXCEPT !.todo = @ \ {r}]
             fl == [[work[c] EXCEPT !.failed = @ \cup {r}] EXCEPT !.todo = @ \ {r}]
             un == [[work[c] EXCEPT !.failed = @ \cup {r}, !.unknown = TRUE] EXCEPT !.todo = @ \ {r}]
             wt == [[work[c] EXCEPT !.waiting = @ \cup {r}] EXCEPT !.todo = @ \ {r}]
             ps == [[work[c] EXCEPT !.waiting = @ \cup {r}, !.paused = TRUE] EXCEPT !.todo = @ \ {r}]
  <2>1. dn \in Progress /\ dn.todo = work[c].todo \ {r} /\ dn.failed = work[c].failed
        /\ dn.waiting = work[c].waiting /\ dn.unknown = work[c].unknown
    BY <1>1 DEF Progress
  <2>2. fl \in Progress /\ fl.todo = work[c].todo \ {r} /\ fl.failed = work[c].failed \cup {r}
        /\ fl.waiting = work[c].waiting /\ fl.unknown = work[c].unknown
    BY ZenonT(40), <1>1 DEF Progress
  <2>3. un \in Progress /\ un.todo = work[c].todo \ {r} /\ un.failed = work[c].failed \cup {r}
        /\ un.waiting = work[c].waiting /\ un.unknown = TRUE
    BY ZenonT(40), <1>1 DEF Progress
  <2>4. wt \in Progress /\ wt.todo = work[c].todo \ {r} /\ wt.failed = work[c].failed
        /\ wt.waiting = work[c].waiting \cup {r} /\ wt.unknown = work[c].unknown
    BY ZenonT(40), <1>1 DEF Progress
  <2>5. ps \in Progress /\ ps.todo = work[c].todo \ {r} /\ ps.failed = work[c].failed
        /\ ps.waiting = work[c].waiting \cup {r} /\ ps.unknown = work[c].unknown
    BY ZenonT(40), <1>1 DEF Progress
  <2>6. \/ work' = [work EXCEPT ![c] = dn] /\ Finish(c, r) /\ (Transmit(c, r) \/ NoTransmit)
        \/ work' = [work EXCEPT ![c] = fl] /\ UNCHANGED finished /\ NoTransmit
        \/ work' = [work EXCEPT ![c] = un] /\ UNCHANGED finished /\ Transmit(c, r)
        \/ work' = [work EXCEPT ![c] = wt] /\ UNCHANGED finished /\ NoTransmit
        \/ work' = [work EXCEPT ![c] = ps] /\ UNCHANGED finished /\ NoTransmit
    BY DEF Handle, Delivered, Permanent, Temporary, Unknown, Refused, Suppressed, Shaped,
           Paused, Progressed
  <2> HIDE DEF dn, fl, un, wt, ps
  <2>7. CASE work' = [work EXCEPT ![c] = dn] /\ Finish(c, r) /\ (Transmit(c, r) \/ NoTransmit)
    BY ZenonT(40), <2>1, <2>7 DEF Outcome, Done
  <2>8. CASE work' = [work EXCEPT ![c] = fl] /\ UNCHANGED finished /\ NoTransmit
    BY ZenonT(40), <2>2, <2>8 DEF Outcome, ToFailed
  <2>9. CASE work' = [work EXCEPT ![c] = un] /\ UNCHANGED finished /\ Transmit(c, r)
    BY ZenonT(40), <2>3, <2>9 DEF Outcome, ToFailed
  <2>10. CASE work' = [work EXCEPT ![c] = wt] /\ UNCHANGED finished /\ NoTransmit
    BY ZenonT(40), <2>4, <2>10 DEF Outcome, ToWaiting
  <2>11. CASE work' = [work EXCEPT ![c] = ps] /\ UNCHANGED finished /\ NoTransmit
    BY ZenonT(40), <2>5, <2>11 DEF Outcome, ToWaiting
  <2> QED BY <2>6, <2>7, <2>8, <2>9, <2>10, <2>11
<1> QED BY <1>1, <1>2, <1>3

-----------------------------------------------------------------------------
LEMMA NoticeStep == ASSUME Notice PROVE [Next]_vars /\ leased' = leased /\ buffer' = buffer
<1>1. CASE UNCHANGED vars
  BY <1>1 DEF vars
<1>2. ASSUME NEW n \in DsnIds, Enqueue(n, RcptTo[n], "no")
      PROVE  Next /\ leased' = leased /\ buffer' = buffer
  <2>1. n \in Ids /\ RcptTo[n] \in (SUBSET Rcpts) \ {{}} /\ "no" \in Holds
    BY WorkAssumption DEF Holds
  <2> QED BY ZenonT(40), <1>2, <2>1 DEF Next, Enqueue
<1> QED BY <1>1, <1>2 DEF Notice

LEMMA BounceEffect ==
    ASSUME WorkInv, NEW c \in leased, NEW r \in Rcpts, BounceHeld(c, r)
    PROVE  /\ Notice
           /\ UNCHANGED <<aged, sentTo, repeated, replayed>>
           /\ r \in work[c].failed /\ Finish(c, r)
           /\ \E w \in Progress :
                /\ work' = [work EXCEPT ![c] = w]
                /\ w.todo = work[c].todo /\ w.failed = work[c].failed \ {r}
                /\ w.waiting = work[c].waiting /\ w.unknown = work[c].unknown
<1> DEFINE w == [work[c] EXCEPT !.failed = @ \ {r}]
<1>1. w \in Progress /\ w.todo = work[c].todo /\ w.failed = work[c].failed \ {r}
      /\ w.waiting = work[c].waiting /\ w.unknown = work[c].unknown
  BY DEF WorkInv, Progress
<1>2. work' = [work EXCEPT ![c] = w]
  BY DEF BounceHeld, WorkInv
<1> HIDE DEF w
<1> QED BY ZenonT(40), <1>1, <1>2, NoticeEffect DEF BounceHeld

(* The recipients a worker reports are some of its copy's. *)
LEMMA SettledEffect ==
    ASSUME TypeOK, WorkInv, NEW c \in leased, Settled(c)
    PROVE  /\ work[c].todo = {}
           /\ work' = [k \in leased' |-> work[k]]
           /\ UNCHANGED <<aged, finished, sentTo, repeated, replayed>>
           /\ \/ work[c].failed = {} /\ work[c].waiting = {} /\ AckSent(c)
              \/ \E remaining \in (SUBSET c.rcpt) \ {{}} :
                   /\ remaining = work[c].failed \cup work[c].waiting
                   /\ \/ work[c].failed = {} /\ Defer(c, remaining)
                      \/ Fail(c, remaining)
                      \/ ~shouldFail(c) /\ Retry(c, remaining)
<1>1. work[c].failed \cup work[c].waiting \in SUBSET c.rcpt
  BY DEF WorkInv
<1>2. work[c].failed = {} => work[c].failed \cup work[c].waiting = work[c].waiting
  OBVIOUS
<1> QED BY <1>1, <1>2 DEF Settled

LEMMA QueueStep ==
    ASSUME TypeOK, WorkInv, [DNext]_all_vars
    PROVE  [Next]_vars
<1>1. ASSUME NEW id \in Ids, NEW hold \in Holds, Accept(id, hold)
      PROVE  Next
  <2>1. RcptTo[id] \in (SUBSET Rcpts) \ {{}}
    BY WorkAssumption
  <2> QED BY <1>1, <2>1 DEF Accept, Next
<1>2. CASE TakeBatch
  BY <1>2 DEF TakeBatch, Next
<1>3. ASSUME NEW c \in leased, NEW r \in Rcpts, Handle(c, r) \/ BounceHeld(c, r)
      PROVE  [Next]_vars
  BY <1>3, HandleEffect, BounceEffect, NoticeStep
<1>4. ASSUME NEW c \in leased, Settled(c)
      PROVE  Next
  BY <1>4, SettledEffect DEF Next
<1>5. CASE Operate
  BY <1>5 DEF Operate, Next
<1>6. ASSUME NEW id \in Ids, Wait(id) \/ GrowOld(id)
      PROVE  [Next]_vars
  BY <1>6 DEF Wait, GrowOld, Next
<1>7. CASE Stop \/ Start
  BY <1>7 DEF Stop, Start, Next
<1>8. CASE UNCHANGED all_vars
  BY SMTT(40), <1>8 DEF all_vars
<1> QED BY <1>1, <1>2, <1>3, <1>4, <1>5, <1>6, <1>7, <1>8 DEF DNext

(* Replacing the progress of one copy. *)
LEMMA WorkUpdate ==
    ASSUME WorkInv, leased' = leased, NEW c \in leased, NEW w \in Progress,
           c.id \in Ids,
           work' = [work EXCEPT ![c] = w],
           aged' = aged /\ replayed' = replayed,
           sentTo' \in [Ids -> SUBSET Rcpts], repeated' \subseteq Ids \X Rcpts,
           finished' \in [Ids -> SUBSET Rcpts],
           \A id \in Ids : finished[id] \subseteq finished'[id],
           w.todo \subseteq c.rcpt /\ w.failed \subseteq c.rcpt /\ w.waiting \subseteq c.rcpt,
           w.todo \cap w.failed = {} /\ w.todo \cap w.waiting = {},
           c.rcpt \subseteq w.todo \cup w.failed \cup w.waiting \cup finished'[c.id],
           leased \subseteq Copy
    PROVE  WorkInv'
<1>1. work' \in [leased' -> Progress]
  BY DEF WorkInv
<1>2. ASSUME NEW k \in leased'
      PROVE  /\ work'[k].todo \subseteq k.rcpt
             /\ work'[k].failed \subseteq k.rcpt
             /\ work'[k].waiting \subseteq k.rcpt
             /\ work'[k].todo \cap work'[k].failed = {} /\ work'[k].todo \cap work'[k].waiting = {}
             /\ k.rcpt \subseteq work'[k].todo \cup work'[k].failed
                                 \cup work'[k].waiting \cup finished'[k.id]
  <2>1. CASE k = c
    <3>1. work'[k] = w
      BY <2>1 DEF WorkInv
    <3> QED BY <2>1, <3>1
  <2>2. CASE k # c
    <3>1. work'[k] = work[k] /\ k \in leased /\ k.id \in Ids
      BY <2>2 DEF WorkInv, Copy
    <3>2. finished[k.id] \subseteq finished'[k.id]
      BY <3>1
    <3>3. /\ work[k].todo \subseteq k.rcpt
          /\ work[k].failed \subseteq k.rcpt
          /\ work[k].waiting \subseteq k.rcpt
          /\ work[k].todo \cap work[k].failed = {} /\ work[k].todo \cap work[k].waiting = {}
          /\ k.rcpt \subseteq work[k].todo \cup work[k].failed
                              \cup work[k].waiting \cup finished[k.id]
      BY <3>1 DEF WorkInv
    <3> QED BY SMTT(40), <3>1, <3>2, <3>3
  <2> QED BY <2>1, <2>2
<1> QED BY <1>1, <1>2 DEF WorkInv

LEMMA FinishEffect ==
    ASSUME WorkInv, NEW c \in leased, NEW r \in Rcpts, c.id \in Ids, Finish(c, r)
    PROVE  /\ finished' \in [Ids -> SUBSET Rcpts]
           /\ \A id \in Ids : finished[id] \subseteq finished'[id]
           /\ finished'[c.id] = finished[c.id] \cup {r}
           /\ \A id \in Ids \ {c.id} : finished'[id] = finished[id]
BY DEF WorkInv, Finish

LEMMA TransmitEffect ==
    ASSUME WorkInv, NEW c \in leased, NEW r \in Rcpts, c.id \in Ids, Transmit(c, r)
    PROVE  /\ sentTo' \in [Ids -> SUBSET Rcpts]
           /\ repeated' \subseteq Ids \X Rcpts
           /\ sentTo'[c.id] = sentTo[c.id] \cup {r}
           /\ \A id \in Ids \ {c.id} : sentTo'[id] = sentTo[id]
BY DEF WorkInv, Transmit

LEMMA WorkStep ==
    ASSUME TypeOK, WorkInv, [DNext]_all_vars, TypeOK'
    PROVE  WorkInv'
<1>0. /\ leased \subseteq Copy
      /\ \A c \in leased : c.id \in Ids /\ c.rcpt \in SUBSET Rcpts
      /\ \A c \in leased' : c.id \in Ids /\ c.rcpt \in SUBSET Rcpts
  BY DEF TypeOK, Copy
<1>1. ASSUME leased' = leased, UNCHANGED <<work, finished, sentTo, repeated>>,
             aged' \subseteq Ids, replayed' \subseteq Ids
      PROVE  WorkInv'
  BY <1>1 DEF WorkInv
<1>2. CASE TakeBatch
  <2>1. \A c \in leased' : /\ Fresh(c) \in Progress /\ Fresh(c).todo = c.rcpt
                           /\ Fresh(c).failed = {} /\ Fresh(c).waiting = {}
    BY <1>0 DEF Fresh, Progress
  <2>2. work' = [c \in leased' |-> Fresh(c)]
        /\ UNCHANGED <<aged, finished, sentTo, repeated, replayed>>
    BY <1>2 DEF TakeBatch
  <2> QED BY <2>1, <2>2 DEF WorkInv
<1>3. ASSUME NEW c \in leased, NEW r \in Rcpts, Handle(c, r)
      PROVE  WorkInv'
  <2>1. leased' = leased /\ aged' = aged /\ replayed' = replayed /\ r \in work[c].todo
    BY <1>3, HandleEffect, NoticeStep
  <2>2. PICK w \in Progress : Outcome(c, r, w)
    BY <1>3, HandleEffect
  <2>3. sentTo' \in [Ids -> SUBSET Rcpts] /\ repeated' \subseteq Ids \X Rcpts
    <3>1. CASE Transmit(c, r)
      BY <1>0, <3>1, TransmitEffect
    <3>2. CASE NoTransmit
      BY <3>2 DEF NoTransmit, WorkInv
    <3> QED BY <2>2, <3>1, <3>2 DEF Outcome
  <2>4. /\ work[c].todo \subseteq c.rcpt /\ work[c].failed \subseteq c.rcpt
        /\ work[c].waiting \subseteq c.rcpt
        /\ work[c].todo \cap work[c].failed = {} /\ work[c].todo \cap work[c].waiting = {}
        /\ c.rcpt \subseteq work[c].todo \cup work[c].failed
                            \cup work[c].waiting \cup finished[c.id]
    BY SMTT(40) DEF WorkInv
  <2>5. /\ finished' \in [Ids -> SUBSET Rcpts]
        /\ \A id \in Ids : finished[id] \subseteq finished'[id]
        /\ w.todo \subseteq c.rcpt /\ w.failed \subseteq c.rcpt /\ w.waiting \subseteq c.rcpt
        /\ w.todo \cap w.failed = {} /\ w.todo \cap w.waiting = {}
        /\ c.rcpt \subseteq w.todo \cup w.failed \cup w.waiting \cup finished'[c.id]
    <3>1. CASE Done(c, r, w)
      BY SMTT(40), <1>0, <2>1, <2>2, <2>4, <3>1, FinishEffect DEF Done, Outcome
    <3>2. CASE ToFailed(c, r, w)
      BY ZenonT(40), <2>1, <2>2, <2>4, <3>2 DEF ToFailed, Outcome, WorkInv
    <3>3. CASE ToWaiting(c, r, w)
      BY <2>1, <2>2, <2>4, <3>3 DEF ToWaiting, Outcome, WorkInv
    <3> QED BY SMTT(40), <2>2, <3>1, <3>2, <3>3 DEF Outcome
  <2> QED BY ZenonT(40), <1>0, <2>1, <2>2, <2>3, <2>5, WorkUpdate DEF Outcome
<1>4. ASSUME NEW c \in leased, NEW r \in Rcpts, BounceHeld(c, r)
      PROVE  WorkInv'
  <2>1. leased' = leased /\ Finish(c, r) /\ UNCHANGED <<aged, sentTo, repeated, replayed>>
    BY SMTT(40), <1>4, BounceEffect, NoticeStep
  <2>2. PICK w \in Progress :
           /\ work' = [work EXCEPT ![c] = w]
           /\ w.todo = work[c].todo /\ w.failed = work[c].failed \ {r}
           /\ w.waiting = work[c].waiting
    BY <1>4, BounceEffect
  <2>3. /\ finished' \in [Ids -> SUBSET Rcpts]
        /\ \A id \in Ids : finished[id] \subseteq finished'[id]
        /\ finished'[c.id] = finished[c.id] \cup {r}
    BY SMTT(40), <1>0, <2>1, FinishEffect
  <2>4. /\ w.todo \subseteq c.rcpt /\ w.failed \subseteq c.rcpt /\ w.waiting \subseteq c.rcpt
        /\ w.todo \cap w.failed = {} /\ w.todo \cap w.waiting = {}
        /\ c.rcpt \subseteq w.todo \cup w.failed \cup w.waiting \cup finished'[c.id]
    BY <2>2, <2>3 DEF WorkInv
  <2>5. sentTo' \in [Ids -> SUBSET Rcpts] /\ repeated' \subseteq Ids \X Rcpts
    BY <2>1 DEF WorkInv
  <2> QED BY ZenonT(40), <1>0, <2>1, <2>2, <2>3, <2>4, <2>5, WorkUpdate
<1>5. ASSUME NEW c \in leased, Settled(c)
      PROVE  WorkInv'
  <2>1. leased' = leased \ {c}
    BY ZenonT(40), <1>5, SettledEffect DEF AckSent, Defer, Fail, Retry, Settle
  <2>2. work' = [k \in leased' |-> work[k]]
        /\ UNCHANGED <<aged, finished, sentTo, repeated, replayed>>
    BY SMTT(40), <1>5, SettledEffect
  <2> QED BY <2>1, <2>2 DEF WorkInv
<1>6. CASE Operate
  <2>1. leased' = leased
    BY ZenonT(40), <1>6 DEF Operate, RequeueFromState, DeleteQuarantined, removeOlder, Repair, Discard
  <2>2. UNCHANGED <<work, aged, finished, sentTo, repeated>> /\ replayed' \subseteq Ids
    BY SMTT(40), <1>6 DEF Operate, WorkInv
  <2> QED BY <1>1, <2>1, <2>2 DEF WorkInv
<1>7. ASSUME NEW id \in Ids, Wait(id) \/ GrowOld(id)
      PROVE  WorkInv'
  <2>1. leased' = leased
    BY <1>7 DEF Wait, GrowOld, Elapse, vars
  <2>2. UNCHANGED <<work, finished, sentTo, repeated, replayed>> /\ aged' \subseteq Ids
    BY <1>7 DEF Wait, GrowOld, WorkInv, work_vars
  <2> QED BY <1>1, <2>1, <2>2 DEF WorkInv
<1>8. CASE Stop
  <2>1. leased' = {} /\ work' = [c \in {} |-> {}]
        /\ UNCHANGED <<aged, finished, sentTo, repeated, replayed>>
    BY SMTT(40), <1>8 DEF Stop, Crash
  <2> QED BY <2>1 DEF WorkInv
<1>9. CASE Start \/ UNCHANGED all_vars \/ \E id \in Ids, hold \in Holds : Accept(id, hold)
  <2>1. leased' = leased /\ UNCHANGED work_vars
    BY ZenonT(40), <1>9 DEF Start, NewBackend, all_vars, vars, Accept, Enqueue
  <2> QED BY <1>1, <2>1 DEF work_vars, WorkInv
<1> QED BY SMTT(40), <1>2, <1>3, <1>4, <1>5, <1>6, <1>7, <1>8, <1>9 DEF DNext

(* The workers' progress has its type and accounts for every recipient. *)
LEMMA WorkInvariant == DSpec => [](TypeOK /\ WorkInv)
<1>1. DInit => TypeOK /\ WorkInv
  BY TypeInit DEF DInit, Init, WorkInv
<1>2. TypeOK /\ WorkInv /\ [DNext]_all_vars => (TypeOK /\ WorkInv)'
  BY QueueStep, TypeStep, WorkStep
<1> QED BY <1>1, <1>2, PTL DEF DSpec

(* The dispatcher's variables have their types. *)
THEOREM WorkTypeCorrect == DSpec => []WorkTypeOK
BY WorkInvariant, PTL DEF WorkTypeOK, WorkInv

(* The delivery worker uses the queue as LocalQueue specifies, so all that   *)
(* is proved of LocalQueue holds of the two together.                        *)
THEOREM DispatcherUsesQueue == DSpec => UsesQueue
<1>1. DInit => Init
  BY DEF DInit
<1>2. TypeOK /\ WorkInv /\ [DNext]_all_vars => [Next]_vars
  BY QueueStep
<1> QED BY <1>1, <1>2, WorkInvariant, PTL DEF DSpec, UsesQueue, Spec

-----------------------------------------------------------------------------
(***************************************************************************)
(* What becomes of a message in the hands of the workers: no recipient is  *)
(* dropped, sent means finished, and the retries are bounded.              *)
(***************************************************************************)

(* Where the content of a file comes from: from another file of the message, *)
(* from its acceptance, or from a worker.                                    *)
Inherited(d, id) ==
    \E e \in Dirs :
        /\ Readable(e, id)
        /\ files'[d][id].rcpt = files[e][id].rcpt
        /\ files'[d][id].attempts = files[e][id].attempts
        /\ d \in TerminalDirs => e = d
        /\ d \in PendingDirs => e \in PendingDirs \/ id \in replayed'
New(d, id) ==
    /\ d = "inbound" /\ files'[d][id].rcpt = RcptTo[id] /\ files'[d][id].attempts = 0
    /\ id \notin accepted /\ id \in accepted'
Remaining(c) == work[c].failed \cup work[c].waiting
Written(c, d, m) ==
    /\ c \in leased /\ Settled(c)
    /\ \/ d = "sent" /\ Remaining(c) = {} /\ m.rcpt = c.rcpt
       \/ d = "retry" /\ work[c].failed = {} /\ m.rcpt = Remaining(c) /\ m.attempts = c.attempts
       \/ d = "retry" /\ ~shouldFail(c) /\ m.rcpt = Remaining(c)
                      /\ m.attempts = counted(c.attempts)
       \/ d = "dlq" /\ m.rcpt = Remaining(c)

LEMMA SameFile ==
    ASSUME NEW d \in Dirs, NEW id \in Ids, Readable(d, id)', files'[d][id] = files[d][id]
    PROVE  Inherited(d, id)
BY DEF Inherited, Readable

LEMMA EnqueueOrigin ==
    ASSUME TypeOK, NEW n \in Ids \ accepted, NEW hold \in {"no", "held"},
           Enqueue(n, RcptTo[n], hold), NEW d \in Dirs, NEW id \in Ids, Readable(d, id)'
    PROVE  Inherited(d, id) \/ New(d, id)
<1> DEFINE m == [rcpt |-> RcptTo[n], attempts |-> 0, due |-> TRUE, hold |-> hold]
<1>1. m \in Message /\ m.rcpt = RcptTo[n] /\ m.attempts = 0
  BY WorkAssumption DEF Message
<1>2. files' = files \/ Persist(n, "inbound", m, {{}})
  BY DEF Enqueue
<1> HIDE DEF m
<1>3. CASE files' = files
  BY <1>3, SameFile
<1>4. CASE Persist(n, "inbound", m, {{}})
  <2>1. /\ \A e \in Dirs, i \in Ids \ {n} : files'[e][i] = files[e][i]
        /\ \A e \in Dirs \ {"inbound"} : files'[e][n] \in {files[e][n], NoFile}
        /\ files' = files \/ files'["inbound"][n] = m
    BY <1>1, <1>4, PersistEffect DEF Dirs, PendingDirs
  <2>2. files'[d][id] = files[d][id] \/ (id = n /\ d = "inbound" /\ files'[d][id] = m)
    BY <2>1 DEF Readable
  <2>3. files'["inbound"][n] = m => n \in accepted'
    <3>1. files["inbound"][n] = NoFile
      BY StateMeaning DEF Enqueue, Exists, Dirs, PendingDirs
    <3>2. m # NoFile
      BY <1>1, SlotAssumption
    <3> QED BY ZenonT(40), <3>1, <3>2 DEF Enqueue, history
  <2> QED BY <1>1, <2>2, <2>3, SameFile DEF New
<1> QED BY <1>2, <1>3, <1>4

LEMMA RequeueOrigin ==
    ASSUME TypeOK, NEW state \in AdminStates, NEW n \in Ids, RequeueFromState(state, n),
           replayed' = IF state \in TerminalDirs THEN replayed \cup {n} ELSE replayed,
           NEW d \in Dirs, NEW id \in Ids, Readable(d, id)'
    PROVE  Inherited(d, id)
<1> DEFINE e == dirForState(state)
           m == Released(e, n)
<1>1. e \in Dirs /\ Readable(e, n) /\ m \in Message
  BY ZenonT(40), RequeueEffect
<1>2. m.rcpt = files[e][n].rcpt /\ m.attempts = files[e][n].attempts
  BY <1>1 DEF Released, TypeOK, Slots, Readable, Message
<1>3. e \notin PendingDirs => n \in replayed'
  BY DEF AdminStates, dirForState, PendingDirs, TerminalDirs
<1>4. files' = files \/ Persist(n, "inbound", m, {{}, {e} \ {"inbound"}})
  BY ZenonT(40), RequeueEffect
<1>5. {{}, {e} \ {"inbound"}} \subseteq SUBSET (Dirs \ {"inbound"}) /\ "inbound" \in Dirs
  BY <1>1 DEF Dirs, PendingDirs
<1> HIDE DEF e, m
<1>6. CASE files' = files
  BY ZenonT(40), <1>6, SameFile
<1>7. CASE Persist(n, "inbound", m, {{}, {e} \ {"inbound"}})
  <2>1. /\ \A k \in Dirs, i \in Ids \ {n} : files'[k][i] = files[k][i]
        /\ \A k \in Dirs \ {"inbound"} : files'[k][n] \in {files[k][n], NoFile}
        /\ files' = files \/ files'["inbound"][n] = m
    BY SMTT(40), <1>1, <1>5, <1>7, PersistEffect
  <2>2. files'[d][id] = files[d][id] \/ (id = n /\ d = "inbound" /\ files'[d][id] = m)
    BY SMTT(40), <2>1 DEF Readable
  <2> QED BY SMTT(40), <1>1, <1>2, <1>3, <2>2, SameFile DEF Inherited, TerminalDirs
<1> QED BY <1>4, <1>6, <1>7

LEMMA SettledOrigin ==
    ASSUME TypeOK, WorkInv, NEW c \in leased, Settled(c),
           NEW d \in Dirs, NEW id \in Ids, Readable(d, id)'
    PROVE  Inherited(d, id) \/ (id = c.id /\ Written(c, d, files'[d][id]))
<1> DEFINE rem == Remaining(c)
<1>0. c.id \in Ids /\ c.rcpt \in SUBSET Rcpts /\ c.attempts \in Nat /\ counted(c.attempts) \in Nat
      /\ rem \in SUBSET Rcpts
  BY DEF TypeOK, Copy, counted, WorkInv, Progress, Remaining
<1>1. ASSUME NEW e \in {"sent", "retry", "dlq"}, NEW m \in Message, Settle(c, e, m)
      PROVE  Inherited(d, id) \/ (id = c.id /\ d = e /\ files'[d][id] = m)
  <2>1. e \in Dirs /\ removePendingExcept(e) \subseteq SUBSET (Dirs \ {e})
    BY Directories DEF Dirs, PendingDirs, TerminalDirs
  <2>2. files' = files \/ Persist(c.id, e, m, removePendingExcept(e))
    BY <1>1, <2>1, SettleEffect
  <2>3. CASE files' = files
    BY <2>3, SameFile
  <2>4. CASE Persist(c.id, e, m, removePendingExcept(e))
    <3>1. /\ \A k \in Dirs, i \in Ids \ {c.id} : files'[k][i] = files[k][i]
          /\ \A k \in Dirs \ {e} : files'[k][c.id] \in {files[k][c.id], NoFile}
          /\ files' = files \/ files'[e][c.id] = m
      BY SMTT(40), <1>0, <2>1, <2>4, PersistEffect
    <3>2. files'[d][id] = files[d][id] \/ (id = c.id /\ d = e /\ files'[d][id] = m)
      BY <3>1 DEF Readable
    <3> QED BY SMTT(40), <3>2, SameFile
  <2> QED BY <2>2, <2>3, <2>4
<1>2. \A rcpt \in SUBSET Rcpts, n \in Nat, due \in BOOLEAN :
         /\ Record(rcpt, n, due) \in Message
         /\ Record(rcpt, n, due).rcpt = rcpt /\ Record(rcpt, n, due).attempts = n
  BY DEF Record, Message
<1>3. CASE rem = {} /\ AckSent(c)
  <2> DEFINE m == Record(c.rcpt, c.attempts, TRUE)
  <2>1. m \in Message /\ m.rcpt = c.rcpt /\ m.attempts = c.attempts
    BY ZenonT(40), <1>0, <1>2
  <2>2. Settle(c, "sent", m)
    BY ZenonT(40), <1>3 DEF AckSent
  <2> HIDE DEF m
  <2>3. Inherited(d, id) \/ (id = c.id /\ d = "sent" /\ files'[d][id] = m)
    BY ZenonT(40), <1>1, <2>1, <2>2
  <2> QED BY <1>3, <2>1, <2>3 DEF Written
<1>4. CASE work[c].failed = {} /\ Defer(c, rem)
  <2> DEFINE m == Record(rem, c.attempts, FALSE)
  <2>1. m \in Message /\ m.rcpt = rem /\ m.attempts = c.attempts
    BY ZenonT(40), <1>0, <1>2
  <2>2. Settle(c, "retry", m)
    BY ZenonT(40), <1>4 DEF Defer
  <2> HIDE DEF m
  <2>3. Inherited(d, id) \/ (id = c.id /\ d = "retry" /\ files'[d][id] = m)
    BY ZenonT(40), <1>1, <2>1, <2>2
  <2> QED BY <1>4, <2>1, <2>3 DEF Written
<1>5. CASE Fail(c, rem)
  <2> DEFINE m == Record(rem, counted(c.attempts), TRUE)
  <2>1. m \in Message /\ m.rcpt = rem /\ m.attempts = counted(c.attempts)
    BY ZenonT(40), <1>0, <1>2
  <2>2. Settle(c, "dlq", m)
    BY ZenonT(40), <1>5 DEF Fail
  <2> HIDE DEF m
  <2>3. Inherited(d, id) \/ (id = c.id /\ d = "dlq" /\ files'[d][id] = m)
    BY ZenonT(40), <1>1, <2>1, <2>2
  <2> QED BY <1>5, <2>1, <2>3 DEF Written
<1>6. CASE ~shouldFail(c) /\ Retry(c, rem)
  <2> DEFINE m == Record(rem, counted(c.attempts), FALSE)
  <2>1. m \in Message /\ m.rcpt = rem /\ m.attempts = counted(c.attempts)
    BY ZenonT(40), <1>0, <1>2
  <2>2. Settle(c, "retry", m)
    BY ZenonT(40), <1>6 DEF Retry
  <2> HIDE DEF m
  <2>3. Inherited(d, id) \/ (id = c.id /\ d = "retry" /\ files'[d][id] = m)
    BY <1>1, <2>1, <2>2
  <2> QED BY <1>6, <2>1, <2>3 DEF Written
<1> QED BY ZenonT(40), <1>3, <1>4, <1>5, <1>6, SettledEffect DEF Remaining

LEMMA FileOrigin ==
    ASSUME TypeOK, WorkInv, [DNext]_all_vars, NEW d \in Dirs, NEW id \in Ids, Readable(d, id)'
    PROVE  Inherited(d, id) \/ New(d, id) \/ \E c \in leased : id = c.id /\ Written(c, d, files'[d][id])
<1> DEFINE Goal == Inherited(d, id) \/ New(d, id) \/ \E c \in leased : id = c.id /\ Written(c, d, files'[d][id])
<1>1. CASE \E n \in Ids, hold \in Holds : Accept(n, hold)
  BY ZenonT(40), <1>1, EnqueueOrigin DEF Accept, Holds
<1>2. CASE TakeBatch
  <2>1. files'[d][id] \in {files[d][id], NoFile}
    BY <1>2 DEF TakeBatch, Due
  <2> QED BY ZenonT(40), <2>1, SameFile DEF Readable
<1>3. CASE Notice
  <2>1. CASE files' = files
    BY <2>1, SameFile
  <2>2. ASSUME NEW n \in DsnIds \ accepted, Enqueue(n, RcptTo[n], "no") PROVE Goal
    BY ZenonT(40), <2>2, WorkAssumption, EnqueueOrigin
  <2> QED BY SMTT(40), <1>3, <2>1, <2>2 DEF Notice, vars
<1>4. ASSUME NEW c \in leased, Settled(c) PROVE Goal
  BY <1>4, SettledOrigin
<1>5. ASSUME NEW e \in Dirs, NEW n \in Ids, Discard(e, n) PROVE Goal
  <2>1. files'[d][id] \in {files[d][id], NoFile}
    <3>1. NoFile \in Slots
      BY Zenon DEF Slots
    <3>2. [files EXCEPT ![e][n] = NoFile][d][id] = IF d = e /\ id = n THEN NoFile ELSE files[d][id]
      BY SMTT(40), <3>1, PointUpdate
    <3>3. files' = [files EXCEPT ![e][n] = NoFile]
      BY Zenon, <1>5 DEF Discard
    <3> QED BY ZenonT(40), <3>2, <3>3
  <2> QED BY <2>1, SameFile DEF Readable
<1>6. CASE Operate
  <2>1. CASE \E state \in AdminStates, n \in Ids :
              /\ RequeueFromState(state, n)
              /\ replayed' = IF state \in TerminalDirs THEN replayed \cup {n} ELSE replayed
    BY ZenonT(40), <2>1, RequeueOrigin
  <2>2. CASE \E e \in Dirs, n \in Ids : Discard(e, n)
    BY ZenonT(40), <1>5, <2>2
  <2> QED BY <1>6, <2>1, <2>2, Directories DEF Operate, DeleteQuarantined, removeOlder, Repair, PendingDirs
<1>7. ASSUME NEW n \in Ids, Wait(n) PROVE Goal
  <2>1. PICK e \in PendingDirs : Elapse(e, n)
    BY <1>7 DEF Wait
  <2>2. PICK v \in Message : /\ v.rcpt = files[e][n].rcpt /\ v.attempts = files[e][n].attempts
                             /\ files' = [files EXCEPT ![e][n] = v]
    BY <2>1, ElapseEffect
  <2>3. e \in Dirs /\ Readable(e, n)
    BY ZenonT(40), <2>1, ElapseEffect, Directories
  <2>4. files'[d][id] = IF d = e /\ id = n THEN v ELSE files[d][id]
    BY SMTT(40), <2>2, <2>3, PointUpdate DEF Slots
  <2>5. CASE d = e /\ id = n
    BY ZenonT(40), <2>1, <2>2, <2>3, <2>4, <2>5 DEF Inherited
  <2> QED BY <2>4, <2>5, SameFile
<1>8. CASE Stop
  <2>1. files'[d][id] \in {files[d][id], Torn}
    BY SMTT(40), <1>8, PointUpdate DEF Stop, Crash, Slots
  <2> QED BY SMTT(40), <2>1, SameFile DEF Readable
<1>9. CASE files' = files
  BY <1>9, SameFile
<1> QED BY ZenonT(40), <1>1, <1>2, <1>3, <1>4, <1>6, <1>7, <1>8, <1>9, HandleEffect, BounceEffect
        DEF DNext, GrowOld, Start, NewBackend, all_vars, vars

LEMMA CopyOrigin ==
    ASSUME TypeOK, WorkInv, [DNext]_all_vars, NEW c \in Copies'
    PROVE  \/ c \in Copies
           \/ TakeBatch /\ \E d \in PendingDirs, id \in Ids :
                 /\ Readable(d, id) /\ c = CopyOf(<<d, id>>)
                 /\ files[d][id].hold = "no"
<1>1. CASE TakeBatch
  <2>1. ASSUME NEW f \in DueFiles, c = CopyOf(f)
        PROVE  \E d \in PendingDirs, id \in Ids : Readable(d, id) /\ c = CopyOf(<<d, id>>)
                                                  /\ files[d][id].hold = "no"
    <3>1. f = <<f[1], f[2]>> /\ f[1] \in PendingDirs /\ f[2] \in Ids /\ Readable(f[1], f[2])
          /\ files[f[1]][f[2]].hold = "no"
      BY DEF DueFiles, PendingFiles, TornFiles
    <3> QED BY <2>1, <3>1
  <2>2. \A n : \A batch \in Batches(n) : c \in batch => \E f \in DueFiles : c = CopyOf(f)
    BY DEF Batches
  <2>3. c \in Copies \/ \E f \in DueFiles : c = CopyOf(f)
    <3>1. c \in Copies \/ \E n : \E batch \in Batches(n) : c \in batch
      BY SMTT(40), <1>1 DEF TakeBatch, Due, Copies, buffered, HandOuts
    <3> QED BY <2>2, <3>1
  <2> QED BY <1>1, <2>1, <2>3
<1>2. CASE \E k \in leased, r \in Rcpts : Handle(k, r) \/ BounceHeld(k, r)
  <2>1. Notice
    BY ZenonT(40), <1>2, HandleEffect, BounceEffect
  <2>2. Copies' = Copies
    BY ZenonT(40), <2>1, NoticeStep DEF Copies
  <2> QED BY <2>2
<1>3. CASE \E k \in leased : Settled(k)
  BY ZenonT(40), <1>3, SettledEffect DEF AckSent, Defer, Fail, Retry, Settle, Copies
<1>4. CASE Operate
  BY ZenonT(40), <1>4 DEF Operate, RequeueFromState, DeleteQuarantined, removeOlder, Repair, Discard, Copies
<1>5. CASE Stop
  BY <1>5 DEF Stop, Crash, Copies
<1>6. CASE (\E id \in Ids : Wait(id) \/ GrowOld(id)) \/ Start \/ UNCHANGED all_vars
           \/ \E id \in Ids, hold \in Holds : Accept(id, hold)
  BY ZenonT(40), <1>6 DEF Wait, GrowOld, Elapse, Start, NewBackend, all_vars, vars, Accept, Enqueue, Copies
<1> QED BY ZenonT(40), <1>1, <1>2, <1>3, <1>4, <1>5, <1>6 DEF DNext

LEMMA FinishedGrows ==
    ASSUME TypeOK, WorkInv, [DNext]_all_vars, NEW id \in Ids
    PROVE  finished[id] \subseteq finished'[id]
<1>0. \A c \in leased : c.id \in Ids
  BY SMTT(40) DEF TypeOK, Copy
<1>1. ASSUME NEW c \in leased, NEW r \in Rcpts, Handle(c, r)
      PROVE  finished[id] \subseteq finished'[id]
  <2>1. PICK w \in Progress : Outcome(c, r, w)
    BY ZenonT(40), <1>1, HandleEffect
  <2>2. Finish(c, r) \/ UNCHANGED finished
    BY ZenonT(40), <2>1 DEF Outcome, Done, ToFailed, ToWaiting
  <2>3. CASE Finish(c, r)
    BY ZenonT(40), <1>0, <2>3, FinishEffect
  <2> QED BY <2>2, <2>3
<1>2. ASSUME NEW c \in leased, NEW r \in Rcpts, BounceHeld(c, r)
      PROVE  finished[id] \subseteq finished'[id]
  <2>1. Finish(c, r)
    BY ZenonT(40), <1>2, BounceEffect
  <2> QED BY ZenonT(40), <1>0, <2>1, FinishEffect
<1>3. CASE UNCHANGED finished
  BY Zenon, <1>3
<1> QED BY ZenonT(40), <1>1, <1>2, <1>3
        DEF DNext, Accept, TakeBatch, Settled, Operate, Wait, GrowOld, Stop, Start, work_vars, all_vars

(* Every file and every copy of a message names the recipients whose fate is *)
(* open.  UnfinishedKept alone is not inductive: a worker writes from its    *)
(* copy, not from the file.                                                  *)
FateInv ==
    /\ UnfinishedKept
    /\ SentMeansFinished
    /\ \A c \in Copies : RcptTo[c.id] \ finished[c.id] \subseteq c.rcpt

LEMMA FateStep ==
    ASSUME TypeOK, WorkInv, FateInv, [DNext]_all_vars
    PROVE  FateInv'
<1>0. \A c \in leased : c.id \in Ids /\ c \in Copies
  BY SMTT(40) DEF TypeOK, Copy, Copies
<1>1. ASSUME NEW c \in leased, Settled(c)
      PROVE  RcptTo[c.id] \ finished[c.id] \subseteq Remaining(c)
  <2>1. RcptTo[c.id] \ finished[c.id] \subseteq c.rcpt
    BY ZenonT(40), <1>0 DEF FateInv
  <2>2. c.rcpt \subseteq work[c].todo \cup work[c].failed \cup work[c].waiting \cup finished[c.id]
    BY DEF WorkInv
  <2>3. work[c].todo = {}
    BY ZenonT(40), <1>1 DEF Settled
  <2> QED BY <2>1, <2>2, <2>3 DEF Remaining
<1>2. ASSUME NEW id \in Ids, NEW d \in Dirs, Readable(d, id)'
      PROVE  /\ RcptTo[id] \ finished'[id] \subseteq files'[d][id].rcpt
             /\ d = "sent" => RcptTo[id] \subseteq finished'[id]
  <2>0. finished[id] \subseteq finished'[id]
    BY FinishedGrows
  <2>1. CASE Inherited(d, id)
    BY <2>0, <2>1 DEF Inherited, FateInv, UnfinishedKept, SentMeansFinished, TerminalDirs
  <2>2. CASE New(d, id)
    <3>1. files'[d][id].rcpt = RcptTo[id] /\ d # "sent"
      BY ZenonT(40), <2>2 DEF New
    <3> QED BY <3>1
  <2>3. ASSUME NEW c \in leased, id = c.id, Written(c, d, files'[d][id])
        PROVE  /\ RcptTo[id] \ finished'[id] \subseteq files'[d][id].rcpt
               /\ d = "sent" => RcptTo[id] \subseteq finished'[id]
    BY <1>0, <1>1, <2>0, <2>3 DEF Written, FateInv
  <2> QED BY SMTT(40), <1>2, <2>1, <2>2, <2>3, FileOrigin
<1>3. ASSUME NEW c \in Copies'
      PROVE  RcptTo[c.id] \ finished'[c.id] \subseteq c.rcpt
  <2>1. CASE c \in Copies
    <3>1. c.id \in Ids
      BY ZenonT(40), <2>1 DEF TypeOK, Copies, Copy
    <3> QED BY SMTT(40), <2>1, <3>1, FinishedGrows DEF FateInv
  <2>2. ASSUME TakeBatch, NEW d \in PendingDirs, NEW id \in Ids, Readable(d, id), c = CopyOf(<<d, id>>)
        PROVE  RcptTo[c.id] \ finished'[c.id] \subseteq c.rcpt
    <3>1. c.id = id /\ c.rcpt = files[d][id].rcpt /\ finished' = finished
      BY <2>2 DEF CopyOf, TakeBatch
    <3> QED BY ZenonT(40), <2>2, <3>1, Directories DEF FateInv, UnfinishedKept
  <2> QED BY ZenonT(40), <2>1, <2>2, CopyOrigin
<1> QED BY ZenonT(40), <1>2, <1>3 DEF FateInv, UnfinishedKept, SentMeansFinished, Dirs, TerminalDirs, Readable

LEMMA FateInvariant == DSpec => []FateInv
<1>1. DInit => FateInv
  BY WorkAssumption DEF DInit, Init, FateInv, UnfinishedKept, SentMeansFinished, Readable, Copies,
     Dirs, PendingDirs, TerminalDirs
<1>2. TypeOK /\ WorkInv /\ FateInv /\ [DNext]_all_vars => FateInv'
  BY FateStep
<1> QED BY <1>1, <1>2, WorkInvariant, PTL DEF DSpec

(* No recipient is dropped before its fate is decided, and what lies in sent *)
(* is finished for every recipient.                                          *)
THEOREM NoRecipientDropped == DSpec => []NobodyDropped
<1>1. FateInv => NobodyDropped
  BY DEF FateInv, NobodyDropped
<1> QED BY <1>1, FateInvariant, PTL

(* No pending file and no copy of a message has more than MaxAttempts        *)
(* attempts, until an operator takes it back from sent or dlq.               *)
AttemptInv ==
    MaxAttempts > 0 =>
        \A id \in Ids \ replayed :
            /\ \A d \in PendingDirs : Readable(d, id) => files[d][id].attempts <= MaxAttempts
            /\ \A c \in Copies : c.id = id => c.attempts <= MaxAttempts

LEMMA AttemptStep ==
    ASSUME TypeOK, WorkInv, AttemptInv, [DNext]_all_vars
    PROVE  AttemptInv'
<1> SUFFICES ASSUME MaxAttempts > 0, NEW id \in Ids \ replayed'
             PROVE  /\ \A d \in PendingDirs : Readable(d, id)' => files'[d][id].attempts <= MaxAttempts
                    /\ \A c \in Copies' : c.id = id => c.attempts <= MaxAttempts
  BY SMTT(40) DEF AttemptInv, Readable
<1>0. id \notin replayed
  BY ZenonT(40) DEF DNext, Accept, TakeBatch, Settled, Operate, Wait, GrowOld, Stop, Start, work_vars, all_vars,
     BounceHeld, Handle, Delivered, Permanent, Temporary, Unknown, Refused, Suppressed, Shaped,
     Paused, Step
<1>1. ASSUME NEW d \in PendingDirs, Readable(d, id)'
      PROVE  files'[d][id].attempts <= MaxAttempts
  <2>1. CASE Inherited(d, id)
    BY <1>0, <2>1 DEF Inherited, AttemptInv
  <2>2. CASE New(d, id)
    BY SMTT(40), <2>2, WorkAssumption DEF New
  <2>3. ASSUME NEW c \in leased, id = c.id, Written(c, d, files'[d][id])
        PROVE  files'[d][id].attempts <= MaxAttempts
    <3>1. c.attempts \in Nat /\ c \in Copies /\ c.attempts <= MaxAttempts
      BY SMTT(40), <1>0, <2>3 DEF TypeOK, Copy, Copies, AttemptInv
    <3>2. ~shouldFail(c) => counted(c.attempts) <= MaxAttempts
      BY SMTT(40), <3>1, WorkAssumption DEF shouldFail, counted
    <3> QED BY ZenonT(40), <2>3, <3>1, <3>2 DEF Written, PendingDirs
  <2>4. id \in Ids /\ d \in Dirs
    BY ZenonT(40), Directories
  <2> QED BY ZenonT(40), <1>1, <2>1, <2>2, <2>3, <2>4, FileOrigin
<1>2. ASSUME NEW c \in Copies', c.id = id
      PROVE  c.attempts <= MaxAttempts
  BY <1>0, <1>2, CopyOrigin DEF CopyOf, AttemptInv
<1> QED BY SMTT(40), <1>1, <1>2

(* Left to itself a message is retried at most MaxAttempts times. *)
THEOREM AttemptsAreBounded == DSpec => []AttemptsBounded
<1>1. DInit => AttemptInv
  BY WorkAssumption DEF DInit, Init, AttemptInv, Readable, Copies, Dirs, PendingDirs, TerminalDirs
<1>2. TypeOK /\ WorkInv /\ AttemptInv /\ [DNext]_all_vars => AttemptInv'
  BY AttemptStep
<1>3. AttemptInv => AttemptsBounded
  BY DEF AttemptInv, AttemptsBounded
<1> QED BY <1>1, <1>2, <1>3, WorkInvariant, PTL DEF DSpec
=============================================================================
