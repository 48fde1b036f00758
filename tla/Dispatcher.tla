----------------------------- MODULE Dispatcher -----------------------------
(***************************************************************************)
(* The delivery worker (internal/worker/dispatcher.go) on top of the local *)
(* queue.  LocalQueue lets a worker report any result with any recipients; *)
(* here the result is the one handleMessage computes from what happened to *)
(* each recipient, so every behaviour of this module is one of LocalQueue. *)
(*                                                                         *)
(* A worker takes the recipients of its copy one at a time (LMTP ones last *)
(* and together, which changes only their order) and sorts them:           *)
(*   finished   delivered, bounced or suppressed: dropped from the message *)
(*   failed     an entry of errs: to be retried, failed or, when the       *)
(*              message is given up while others wait for a pause, bounced *)
(*   waiting    deferred by shaping, by a domain throttle, by a stopped    *)
(*              dispatcher or by a delivery pause, without an error        *)
(* remaining, in the code, is failed and waiting together, deferredUntil   *)
(* is set when waiting is not empty.  Notices (DSN) are messages of the    *)
(* same queue, with ids in DsnIds, and give rise to no notice themselves.  *)
(* A call of Deliver is one step here, with the result it reports.         *)
(***************************************************************************)
EXTENDS LocalQueue

CONSTANTS
    RcptTo,         \* RcptTo[id]: the recipients a message is accepted for
    DsnIds,         \* ids of notices: dsn- and the time in nanoseconds
    NotifyOn,       \* which of FAILURE, DELAY, SUCCESS the messages ask for
    MaxAttempts,    \* cfg.MaxAttempts, 0 for no limit
    MaxRetryAge     \* whether cfg.MaxRetryAge is set

ASSUME WorkAssumption ==
    /\ RcptTo \in [Ids -> (SUBSET Rcpts) \ {{}}] /\ DsnIds \subseteq Ids
    /\ NotifyOn \subseteq {"FAILURE", "DELAY", "SUCCESS"}
    /\ MaxAttempts \in Nat /\ MaxRetryAge \in BOOLEAN
    /\ LegacyIds = {}

VARIABLES
    work,           \* work[c]: how far the worker is with copy c
    aged,           \* ids whose CreatedAt is MaxRetryAge ago
    finished,       \* history: recipients delivered, bounced or suppressed
    sentTo,         \* history: recipients Deliver reported done, or unknown
    repeated,       \* history: those for which it reported so twice
    replayed        \* history: ids an operator took back from sent or dlq

work_vars == <<work, aged, finished, sentTo, repeated, replayed>>
all_vars == <<vars, work_vars>>

Progress == [todo: SUBSET Rcpts, failed: SUBSET Rcpts, waiting: SUBSET Rcpts,
             paused: BOOLEAN, unknown: BOOLEAN]
Fresh(c) == [todo |-> c.rcpt, failed |-> {}, waiting |-> {}, paused |-> FALSE, unknown |-> FALSE]

DInit ==
    /\ Init
    /\ work = [c \in {} |-> {}]
    /\ aged = {} /\ replayed = {} /\ repeated = {}
    /\ finished = [id \in Ids |-> {}] /\ sentTo = [id \in Ids |-> {}]

-----------------------------------------------------------------------------
(* bounce.ShouldNotify: a notice has a null reverse-path. *)
ShouldNotify(id, kind) == id \notin DsnIds /\ kind \in NotifyOn

(* emitHardBounceDSN, emitSoftBounceDSN and emitSuccessDSN: an error of      *)
(* Enqueue is only logged, and a notice with the id of an earlier one, made  *)
(* in the same nanosecond, is taken for that one.                            *)
emitDSN(id, kind) ==
    \/ ~ShouldNotify(id, kind) /\ UNCHANGED vars
    \/ /\ ShouldNotify(id, kind)
       /\ \E n \in DsnIds :
            \/ n \notin accepted /\ Enqueue(n, RcptTo[n], "no")
            \/ (n \in accepted \/ admit(n, TRUE) = "error") /\ UNCHANGED vars

Finish(c, r) == finished' = [finished EXCEPT ![c.id] = @ \cup {r}]
Transmit(c, r) ==
    /\ sentTo' = [sentTo EXCEPT ![c.id] = @ \cup {r}]
    /\ repeated' = IF r \in sentTo[c.id] THEN repeated \cup {<<c.id, r>>} ELSE repeated
NoTransmit == UNCHANGED <<sentTo, repeated>>

Step(c, r) ==
    /\ up /\ c \in leased
    /\ r \in work[c].todo
    /\ UNCHANGED <<aged, replayed>>
Progressed(c, r, w) == work' = [work EXCEPT ![c] = [w EXCEPT !.todo = @ \ {r}]]

(* handleResult without an error. *)
Delivered(c, r) ==
    /\ Step(c, r)
    /\ Progressed(c, r, work[c])
    /\ Finish(c, r) /\ Transmit(c, r)
    /\ emitDSN(c.id, "SUCCESS")

(* handleResult with a permanent SMTP reply. *)
Permanent(c, r) ==
    /\ Step(c, r)
    /\ Progressed(c, r, work[c])
    /\ Finish(c, r) /\ NoTransmit
    /\ emitDSN(c.id, "FAILURE")

(* handleResult with any other error but the next two: the notice of delay   *)
(* is sent at the first attempt only.                                        *)
Temporary(c, r) ==
    /\ Step(c, r)
    /\ Progressed(c, r, [work[c] EXCEPT !.failed = @ \cup {r}])
    /\ UNCHANGED finished /\ NoTransmit
    /\ IF c.attempts = 0 THEN emitDSN(c.id, "DELAY") ELSE UNCHANGED vars

(* handleResult with DeliveryStatusUnknownError: the final reply to DATA did *)
(* not arrive.                                                               *)
Unknown(c, r) ==
    /\ Step(c, r)
    /\ Progressed(c, r, [work[c] EXCEPT !.failed = @ \cup {r}, !.unknown = TRUE])
    /\ UNCHANGED finished /\ Transmit(c, r)
    /\ UNCHANGED vars

(* reputation.Tracker.Admit says no. *)
Refused(c, r) ==
    /\ Step(c, r)
    /\ Progressed(c, r, [work[c] EXCEPT !.failed = @ \cup {r}])
    /\ UNCHANGED finished /\ NoTransmit
    /\ UNCHANGED vars

(* SuppressionStore.IsSuppressed. *)
Suppressed(c, r) ==
    /\ Step(c, r)
    /\ Progressed(c, r, work[c])
    /\ Finish(c, r) /\ NoTransmit
    /\ UNCHANGED vars

(* A shaping.DeferredError, a domain throttle without a free slot, or a      *)
(* dispatcher that is being stopped.  Mutant: only the time is recorded, not  *)
(* the recipient.                                                            *)
ShapedForgotten(c, r) ==
    /\ Step(c, r)
    /\ Progressed(c, r, work[c])
    /\ UNCHANGED finished /\ NoTransmit
    /\ UNCHANGED vars

Shaped(c, r) ==
    /\ Step(c, r)
    /\ Progressed(c, r, [work[c] EXCEPT !.waiting = @ \cup {r}])
    /\ UNCHANGED finished /\ NoTransmit
    /\ UNCHANGED vars

(* checkPause finds a pause, or cannot look it up. *)
Paused(c, r) ==
    /\ Step(c, r)
    /\ \/ /\ c.id \in aged
          /\ Progressed(c, r, work[c])
          /\ Finish(c, r)
          /\ emitDSN(c.id, "FAILURE")
       \/ /\ c.id \notin aged
          /\ Progressed(c, r, [work[c] EXCEPT !.waiting = @ \cup {r}, !.paused = TRUE])
          /\ UNCHANGED finished
          /\ UNCHANGED vars
    /\ NoTransmit

-----------------------------------------------------------------------------
(* shouldFail, for errs that hold no permanent reply (handleResult returns   *)
(* before it would add one).  Mutants: one attempt too many, no limit at     *)
(* all, and a lost reply taken for a temporary failure.                      *)
shouldFailLate(c) ==
    (MaxAttempts > 0 /\ c.attempts > MaxAttempts) \/ c.id \in aged \/ work[c].unknown
shouldFailByAge(c) == c.id \in aged \/ work[c].unknown
shouldFailKnown(c) == (MaxAttempts > 0 /\ c.attempts >= MaxAttempts) \/ c.id \in aged
shouldFail(c) ==
    \/ MaxAttempts > 0 /\ c.attempts >= MaxAttempts
    \/ c.id \in aged
    \/ work[c].unknown

(* A message is given up while some of its recipients wait for a pause: the  *)
(* failed ones are bounced, one after another, before the rest is deferred.  *)
BounceHeld(c, r) ==
    /\ up /\ c \in leased
    /\ work[c].todo = {} /\ r \in work[c].failed
    /\ shouldFail(c) /\ work[c].paused
    /\ work' = [work EXCEPT ![c].failed = @ \ {r}]
    /\ Finish(c, r)
    /\ emitDSN(c.id, "FAILURE")
    /\ UNCHANGED <<aged, sentTo, repeated, replayed>>

(* The end of handleMessage: what is persisted of the message.  Mutant: a    *)
(* failure keeps the deferred recipients only.                               *)
SettledWithoutFailed(c) ==
    LET w == work[c]
    IN  /\ c \in leased
        /\ w.todo = {}
        /\ \/ w.failed = {} /\ w.waiting # {} /\ Defer(c, w.waiting)
           \/ w.failed = {} /\ w.waiting = {} /\ AckSent(c)
           \/ w.failed # {} /\ shouldFail(c) /\ ~w.paused /\ Fail(c, w.waiting)
           \/ w.failed # {} /\ ~shouldFail(c) /\ Retry(c, w.failed \cup w.waiting)
        /\ work' = [k \in leased' |-> work[k]]
        /\ UNCHANGED <<aged, finished, sentTo, repeated, replayed>>

Settled(c) ==
    LET w == work[c]
    IN  /\ c \in leased
        /\ w.todo = {}
        /\ \/ w.failed = {} /\ w.waiting # {} /\ Defer(c, w.waiting)
           \/ w.failed = {} /\ w.waiting = {} /\ AckSent(c)
           \/ w.failed # {} /\ shouldFail(c) /\ ~w.paused /\ Fail(c, w.failed \cup w.waiting)
           \/ w.failed # {} /\ ~shouldFail(c) /\ Retry(c, w.failed \cup w.waiting)
        /\ work' = [k \in leased' |-> work[k]]
        /\ UNCHANGED <<aged, finished, sentTo, repeated, replayed>>

Handle(c, r) ==
    \/ Delivered(c, r) \/ Permanent(c, r) \/ Temporary(c, r) \/ Unknown(c, r)
    \/ Refused(c, r) \/ Suppressed(c, r) \/ Shaped(c, r) \/ Paused(c, r)

-----------------------------------------------------------------------------
(* The rest of the queue's steps, and the passing of the message's lifetime. *)
Accept(id, hold) ==
    /\ id \notin DsnIds \cup accepted
    /\ Enqueue(id, RcptTo[id], hold)
    /\ UNCHANGED work_vars

TakeBatch ==
    /\ Due
    /\ work' = [c \in leased' |-> Fresh(c)]
    /\ UNCHANGED <<aged, finished, sentTo, repeated, replayed>>

Operate ==
    /\ \/ \E state \in AdminStates, id \in Ids :
            /\ RequeueFromState(state, id)
            /\ replayed' = IF state \in TerminalDirs THEN replayed \cup {id} ELSE replayed
       \/ /\ \/ \E id \in Ids : DeleteQuarantined(id)
             \/ \E d \in TerminalDirs, id \in Ids : removeOlder(d, id)
             \/ \E f \in PendingDirs \X Ids : Repair(f)
          /\ UNCHANGED replayed
    /\ UNCHANGED <<work, aged, finished, sentTo, repeated>>

Wait(id) == (\E d \in PendingDirs : Elapse(d, id)) /\ UNCHANGED work_vars

GrowOld(id) ==
    /\ MaxRetryAge /\ id \in accepted
    /\ aged' = aged \cup {id}
    /\ UNCHANGED <<vars, work, finished, sentTo, repeated, replayed>>

(* The process stops. *)
Stop ==
    /\ Crash
    /\ work' = [c \in {} |-> {}]
    /\ UNCHANGED <<aged, finished, sentTo, repeated, replayed>>

Start == NewBackend /\ UNCHANGED work_vars

DNext ==
    \/ \E id \in Ids, hold \in Holds : Accept(id, hold)
    \/ TakeBatch
    \/ \E c \in leased, r \in Rcpts : Handle(c, r) \/ BounceHeld(c, r)
    \/ \E c \in leased : Settled(c)
    \/ Operate
    \/ \E id \in Ids : Wait(id) \/ GrowOld(id)
    \/ Stop
    \/ Start

DSpec == DInit /\ [][DNext]_all_vars

(* A recipient for which delivery is tried, or refused, in earnest. *)
Attempt(c, r) ==
    \/ Delivered(c, r) \/ Permanent(c, r) \/ Temporary(c, r) \/ Unknown(c, r)
    \/ Refused(c, r) \/ Suppressed(c, r)

(* Time passes, the process is restarted, the scan runs at every tick and    *)
(* takes the messages that wait longest (Due sorts by NextAttempt, the       *)
(* fairness buffer goes round), and a worker finishes what it has begun.     *)
(* Limits and pauses may defer a message any number of times but not for     *)
(* ever: that is an assumption about the configuration and the operators.    *)
Fairness ==
    /\ WF_all_vars(Start) /\ WF_all_vars(TakeBatch)
    /\ \A id \in Ids :
         /\ WF_all_vars(Wait(id))
         /\ WF_all_vars(\E c \in leased : /\ c.id = id
                                          /\ \/ Settled(c)
                                             \/ \E r \in Rcpts : Handle(c, r) \/ BounceHeld(c, r))
         /\ SF_all_vars(TakeBatch /\ \E c \in leased' : c.id = id)
         /\ SF_all_vars(\E c \in leased, r \in Rcpts : c.id = id /\ Attempt(c, r))
FairDSpec == DSpec /\ Fairness

-----------------------------------------------------------------------------
(* The workers' progress has its type and is kept for the copies handed out. *)
WorkTypeOK ==
    /\ TypeOK
    /\ work \in [leased -> Progress]
    /\ aged \subseteq Ids /\ replayed \subseteq Ids /\ repeated \subseteq Ids \X Rcpts
    /\ finished \in [Ids -> SUBSET Rcpts] /\ sentTo \in [Ids -> SUBSET Rcpts]

UnfinishedKept ==
    \A id \in Ids, d \in Dirs :
        Readable(d, id) => RcptTo[id] \ finished[id] \subseteq files[d][id].rcpt

SentMeansFinished ==
    \A id \in Ids : Readable("sent", id) => RcptTo[id] \subseteq finished[id]

(* No recipient is dropped before its fate is decided: every file of a       *)
(* message, whichever worker wrote it and with whatever stale copy, still    *)
(* names all recipients not delivered, bounced or suppressed so far, and a   *)
(* message lies in sent only when all its recipients are finished.           *)
NobodyDropped == UnfinishedKept /\ SentMeansFinished

(* A recipient whose delivery was reported as done, or as unknown because    *)
(* the reply to DATA was lost, is not sent the message again, unless a fault *)
(* lost the record of that or an operator requeued it from sent or dlq.      *)
AtMostOnce ==
    faults = 0 => \A p \in repeated : p[1] \in replayed

(* Left to itself a message is retried at most MaxAttempts times. *)
AttemptsBounded ==
    MaxAttempts > 0 =>
        \A id \in Ids \ replayed, d \in PendingDirs :
            Readable(d, id) => files[d][id].attempts <= MaxAttempts

(* The workers use the queue as LocalQueue allows: what they report keeps    *)
(* some of the copy's recipients, and at least one unless the message is     *)
(* sent.                                                                     *)
UsesQueue == Spec

(* A message whose final reply to DATA was lost for some recipient goes to   *)
(* the dead letters, for an operator to look at (docs/configuration.md:175). *)
UnknownToDLQ ==
    [][\A c \in leased : c \notin leased' /\ up' /\ work[c].unknown => Exists("dlq", c.id)']_all_vars

(* Every pending message leaves the pending directories: it is sent, fails   *)
(* after at most MaxAttempts retries, or is moved away as undecodable.       *)
EventuallySettles ==
    \A id \in Ids : id \in PendingIds ~> id \notin PendingIds
=============================================================================
