---------------------------- MODULE LMTPDelivery ----------------------------
(***************************************************************************)
(* Delivery of one message to the recipients of an LMTP route in a single   *)
(* transaction (DeliverBatch in delivery/smtp_client.go and deliverLMTP in  *)
(* delivery/lmtp.go).  The server answers RCPT per recipient and, after the *)
(* text, once more for each recipient it accepted, in that order; the       *)
(* connection may break at any point.                                       *)
(***************************************************************************)
EXTENDS Naturals, Sequences, FiniteSets

CONSTANT
    Recipients          \* the recipients of the batch, in order

ASSUME LMTPAssumption ==
    /\ Recipients # <<>>
    /\ \A i, j \in DOMAIN Recipients : Recipients[i] = Recipients[j] => i = j

VARIABLES
    lpc,        \* where deliverLMTP is
    next,       \* index of the recipient it is at
    results,    \* results[r]: the error or "ok" returned for r, "missing" if there is none yet
    taken,      \* accepted: the recipients accepted at RCPT, in order
    broken,     \* the connection is lost
    stored      \* in the server: the recipients it has delivered the message to

lvars == <<lpc, next, results, taken, broken, stored>>

Rcpts == {Recipients[i] : i \in DOMAIN Recipients}

LInit ==
    /\ lpc = "start" /\ next = 1 /\ results = [r \in Rcpts |-> "missing"]
    /\ taken = <<>> /\ broken = FALSE /\ stored = {}

(* setAll: everyone without a result gets this one, and the call returns. *)
setAll(e) ==
    /\ results' = [r \in Rcpts |-> IF results[r] = "missing" THEN e ELSE results[r]]
    /\ lpc' = "done"

(* A message with REQUIRETLS, a client that failed to start or an ended      *)
(* context: no connection is made.                                           *)
DeliverBatchRefused ==
    /\ lpc = "start" /\ \E e \in {"temp", "perm"} : setAll(e)
    /\ UNCHANGED <<next, taken, broken, stored>>

(* The dialogue up to the reply to MAIL. *)
Opening ==
    /\ lpc = "start"
    /\ \/ lpc' = "rcpt" /\ UNCHANGED results
       \/ \E e \in {"temp", "perm"} : setAll(e)
    /\ UNCHANGED <<next, taken, broken, stored>>

(* The connection breaks: what is read from now on is an error, what is      *)
(* written may still go into a buffer.                                       *)
Break == lpc \notin {"start", "done"} /\ ~broken /\ broken' = TRUE
         /\ UNCHANGED <<lpc, next, results, taken, stored>>

RcptTo ==
    /\ lpc = "rcpt" /\ next <= Len(Recipients)
    /\ \/ /\ ~broken /\ taken' = Append(taken, Recipients[next]) /\ next' = next + 1
          /\ UNCHANGED <<lpc, results>>
       \/ /\ \E e \in (IF broken THEN {"temp"} ELSE {"temp", "perm"}) :
                results' = [results EXCEPT ![Recipients[next]] = e]
          /\ next' = next + 1 /\ UNCHANGED <<lpc, taken>>
       \/ broken /\ setAll("temp") /\ UNCHANGED <<next, taken>>
    /\ UNCHANGED <<broken, stored>>

(* DATA, the signed message and its end.  Without an accepted recipient the  *)
(* call returns what it has.                                                 *)
DataTo ==
    /\ lpc = "rcpt" /\ next > Len(Recipients)
    /\ \/ taken = <<>> /\ lpc' = "done" /\ UNCHANGED <<next, results>>
       \/ taken # <<>> /\ ~broken /\ lpc' = "reply" /\ next' = 1 /\ UNCHANGED results
       \/ taken # <<>> /\ (\E e \in {"temp", "perm"} : setAll(e)) /\ UNCHANGED next
    /\ UNCHANGED <<taken, broken, stored>>

(* After the text the server delivers to the recipients in order, answering  *)
(* for each; it may be some deliveries ahead of the replies that are read.   *)
Deliverable(n) == n \in DOMAIN taken
Store ==
    /\ lpc = "reply" /\ broken
    /\ \E r \in {taken[i] : i \in next..Len(taken)} \ stored : stored' = stored \cup {r}
    /\ UNCHANGED <<lpc, next, results, taken, broken>>

FinalReplyByPosition ==
    /\ lpc = "reply" /\ ~broken /\ Deliverable(next)
    /\ \/ /\ stored' = stored \cup {taken[next]}
          /\ results' = [results EXCEPT ![Recipients[next]] = "ok"]
       \/ /\ \E e \in {"temp", "perm"} : results' = [results EXCEPT ![Recipients[next]] = e]
          /\ UNCHANGED stored
    /\ next' = next + 1 /\ UNCHANGED <<lpc, taken, broken>>

FinalReply ==
    /\ lpc = "reply" /\ ~broken /\ Deliverable(next)
    /\ \/ /\ stored' = stored \cup {taken[next]}
          /\ results' = [results EXCEPT ![taken[next]] = "ok"]
       \/ /\ \E e \in {"temp", "perm"} : results' = [results EXCEPT ![taken[next]] = e]
          /\ UNCHANGED stored
    /\ next' = next + 1 /\ UNCHANGED <<lpc, taken, broken>>

(* A reply that cannot be read: this one and the ones after it are missing. *)
ReplyMissing ==
    /\ lpc = "reply" /\ broken /\ Deliverable(next)
    /\ results' = [r \in Rcpts |-> IF results[r] = "missing" THEN "temp" ELSE results[r]]
    /\ lpc' = "done" /\ UNCHANGED <<next, taken, broken, stored>>

Quit == lpc = "reply" /\ ~Deliverable(next) /\ lpc' = "done"
        /\ UNCHANGED <<next, results, taken, broken, stored>>

(* The worker turns to the next batch. *)
NextBatch ==
    /\ lpc = "done" /\ lpc' = "start" /\ next' = 1 /\ results' = [r \in Rcpts |-> "missing"]
    /\ taken' = <<>> /\ broken' = FALSE /\ stored' = {}

LNext == NextBatch \/ DeliverBatchRefused \/ Opening \/ Break \/ RcptTo \/ DataTo \/ Store
         \/ FinalReply \/ ReplyMissing \/ Quit

-----------------------------------------------------------------------------
(* When deliverLMTP returns, every recipient of the batch has a result: "ok" *)
(* only if the server delivered to that very recipient, and a failure, which *)
(* has it sent again, only if it did not or if the connection broke.  A      *)
(* recipient without a result would pass for delivered in the worker.        *)
BatchResults ==
    lpc = "done" => \A r \in Rcpts :
        /\ results[r] # "missing"
        /\ results[r] = "ok" => r \in stored
        /\ results[r] # "ok" /\ ~broken => r \notin stored
=============================================================================
