--------------------------- MODULE SessionProofs ---------------------------
(***************************************************************************)
(* Proofs about the SMTP session, for any addresses, users and settings    *)
(* and any limits.                                                         *)
(***************************************************************************)
EXTENDS SMTPSession, TLAPS

Bodies == {"7BIT", "8BITMIME"}
Envelopes == [mail : BOOLEAN, from : Senders \cup {""}, rcpts : Seq(Addresses),
              dsn : SUBSET (Addresses \cup {"mail"}), requireTLS : BOOLEAN, body : Bodies]
SessionRecords ==
    [seenHelo : BOOLEAN, extended : BOOLEAN, tls : BOOLEAN, auth : Users \cup {NoUser},
     mailFrom : Senders \cup {""}, rcptTo : Seq(Addresses), dsn : SUBSET (Addresses \cup {"mail"}),
     requireTLS : BOOLEAN, bodyMode : Bodies, quarantine : {"none", "auth_policy", "policy_hook"},
     authFailures : Nat, rcptFailures : Nat, messages : Nat]

SessionTypeOK ==
    /\ cfg \in ConfigType /\ ss \in SessionRecords
    /\ told \in [envelope : Envelopes, layer : {"none", "plain", "tls"}]
    /\ total \in [auth : Nat, rcpt : Nat, msg : Nat]

(* The session is what the client was told, and counts what was counted. *)
AsTold ==
    /\ ss.mailFrom = told.envelope.from /\ ss.rcptTo = told.envelope.rcpts
    /\ ss.dsn = told.envelope.dsn /\ ss.requireTLS = told.envelope.requireTLS
    /\ ss.mailFrom # "" => ss.bodyMode = told.envelope.body
    /\ ss.rcptTo # <<>> => ss.mailFrom # ""
Counted ==
    /\ total.auth = ss.authFailures /\ total.rcpt = ss.rcptFailures /\ total.msg = ss.messages

(* Who the client is was settled on this layer, and before its transaction. *)
Foreigners == \E i \in DOMAIN ss.rcptTo : ss.rcptTo[i] \in Foreign
Entitled ==
    /\ ss.auth # NoUser => cfg.submission /\ told.layer = IF ss.tls THEN "tls" ELSE "plain"
    /\ ss.mailFrom # "" /\ cfg.submission /\ cfg.SubmissionAuth => ss.auth # NoUser
    /\ Foreigners => cfg.trusted \/ ss.auth # NoUser

SSInv ==
    /\ SessionTypeOK /\ AsTold /\ Counted /\ Entitled
    /\ MessageAsTold /\ AuthCurrent /\ SessionBounded

(* The helpers that build a session, field by field: no transaction is left, *)
(* and the counters and the user are those of s.                            *)
Cleared(s) == s \in SessionRecords /\ s.mailFrom = "" /\ s.rcptTo = <<>> /\ s.dsn = {} /\ s.requireTLS = FALSE
SameCounts(s, t) == t.authFailures = s.authFailures /\ t.rcptFailures = s.rcptFailures /\ t.messages = s.messages
SameUser(s, t) == t.auth = s.auth /\ t.tls = s.tls

LEMMA SessionLimits ==
    MaxAuthFailures \in Nat \ {0} /\ MaxRcptFailures \in Nat \ {0} /\ MaxMessages \in Nat \ {0}
BY SessionAssumption

LEMMA NoForeigners == ss.rcptTo = <<>> => ~Foreigners
<1>1. DOMAIN <<>> = {}
  OBVIOUS
<1> QED BY <1>1 DEF Foreigners

LEMMA NothingForeign == ss'.rcptTo = <<>> => ~Foreigners'
<1>1. DOMAIN <<>> = {}
  OBVIOUS
<1> QED BY <1>1 DEF Foreigners

LEMMA EmptyFields ==
    Empty.from = "" /\ Empty.rcpts = <<>> /\ Empty.dsn = {} /\ Empty.requireTLS = FALSE
BY DEF Empty

LEMMA EmptyEnvelope == Empty \in Envelopes /\ Unused \in [envelope : Envelopes, layer : {"none", "plain", "tls"}]
<1>1. <<>> \in Seq(Addresses) /\ {} \in SUBSET (Addresses \cup {"mail"})
  OBVIOUS
<1>2. Empty \in Envelopes
  BY ZenonT(40), <1>1 DEF Empty, Envelopes, Bodies
<1> QED BY <1>2 DEF Unused

LEMMA NewIsCleared ==
    ASSUME NEW c \in ConfigType
    PROVE  /\ Cleared(NewSession(c)) /\ NewSession(c).auth = NoUser
           /\ NewSession(c).authFailures = 0 /\ NewSession(c).rcptFailures = 0 /\ NewSession(c).messages = 0
<1>1. c.implicitTLS \in BOOLEAN
  BY DEF ConfigType
<1>2. <<>> \in Seq(Addresses) /\ {} \in SUBSET (Addresses \cup {"mail"})
  OBVIOUS
<1> QED BY ZenonT(40), <1>1, <1>2 DEF Cleared, NewSession, SessionRecords, Bodies

LEMMA FinishDataClears ==
    ASSUME NEW s \in SessionRecords
    PROVE  Cleared(finishData(s)) /\ SameCounts(s, finishData(s)) /\ SameUser(s, finishData(s))
<1>0. <<>> \in Seq(Addresses) /\ {} \in SUBSET (Addresses \cup {"mail"})
  OBVIOUS
<1>1. finishData(s) \in SessionRecords
  BY <1>0 DEF finishData, SessionRecords
<1>2. /\ finishData(s).mailFrom = "" /\ finishData(s).rcptTo = <<>> /\ finishData(s).dsn = {}
      /\ finishData(s).requireTLS = FALSE
  BY DEF finishData, SessionRecords
<1>3. SameCounts(s, finishData(s)) /\ SameUser(s, finishData(s))
  BY DEF finishData, SessionRecords, SameCounts, SameUser
<1> QED BY <1>1, <1>2, <1>3 DEF Cleared

LEMMA ResetClears ==
    ASSUME NEW s \in SessionRecords
    PROVE  Cleared(resetTransaction(s)) /\ SameCounts(s, resetTransaction(s)) /\ SameUser(s, resetTransaction(s))
<1> DEFINE f == finishData(s)
<1>1. Cleared(f) /\ SameCounts(s, f) /\ SameUser(s, f)
  BY FinishDataClears
<1>2. resetTransaction(s) = [f EXCEPT !.bodyMode = "7BIT"]
  BY DEF resetTransaction
<1> HIDE DEF f
<1> QED BY <1>1, <1>2 DEF Cleared, SameCounts, SameUser, SessionRecords, Bodies

LEMMA GreetingClears ==
    ASSUME NEW s \in SessionRecords, NEW ext \in BOOLEAN
    PROVE  Cleared(acceptGreeting(s, ext)) /\ SameCounts(s, acceptGreeting(s, ext)) /\ SameUser(s, acceptGreeting(s, ext))
<1> DEFINE f == resetTransaction(s)
<1>1. Cleared(f) /\ SameCounts(s, f) /\ SameUser(s, f)
  BY ResetClears
<1>2. acceptGreeting(s, ext) = [f EXCEPT !.seenHelo = TRUE, !.extended = ext]
  BY DEF acceptGreeting
<1> HIDE DEF f
<1> QED BY <1>1, <1>2 DEF Cleared, SameCounts, SameUser, SessionRecords

LEMMA TLSClears ==
    ASSUME NEW s \in SessionRecords
    PROVE  Cleared(resetAfterTLS(s)) /\ SameCounts(s, resetAfterTLS(s)) /\ resetAfterTLS(s).auth = NoUser
<1> DEFINE f == resetTransaction(s)
<1>1. Cleared(f) /\ SameCounts(s, f)
  BY ResetClears
<1>2. resetAfterTLS(s) = [f EXCEPT !.tls = TRUE, !.seenHelo = FALSE, !.extended = FALSE, !.auth = NoUser]
  BY DEF resetAfterTLS
<1> HIDE DEF f
<1> QED BY <1>1, <1>2 DEF Cleared, SameCounts, SessionRecords

LEMMA MailBegins ==
    ASSUME NEW s \in SessionRecords, NEW a \in MailArgs
    PROVE  LET t == beginTransaction(s, a) IN
           /\ t \in SessionRecords /\ SameCounts(s, t) /\ SameUser(s, t)
           /\ t.mailFrom = a.Address /\ t.rcptTo = <<>> /\ t.dsn = a.DSN /\ t.requireTLS = a.RequireTLS
           /\ t.bodyMode = IF a.Body = "" THEN "7BIT" ELSE a.Body
<1> DEFINE f == resetTransaction(s)
           body == IF a.Body = "" THEN "7BIT" ELSE a.Body
<1>1. Cleared(f) /\ SameCounts(s, f) /\ SameUser(s, f)
  BY ResetClears
<1>2. beginTransaction(s, a) =
         [f EXCEPT !.mailFrom = a.Address, !.dsn = a.DSN, !.requireTLS = a.RequireTLS, !.bodyMode = body]
  BY DEF beginTransaction
<1>3. /\ a.Address \in Senders \cup {""} /\ a.DSN \in SUBSET (Addresses \cup {"mail"}) /\ a.RequireTLS \in BOOLEAN
      /\ body \in Bodies
  BY DEF MailArgs, Bodies
<1> HIDE DEF f, body
<1>4. [f EXCEPT !.mailFrom = a.Address, !.dsn = a.DSN, !.requireTLS = a.RequireTLS, !.bodyMode = body] \in SessionRecords
  BY <1>1, <1>3 DEF Cleared, SessionRecords
<1> DEFINE t == beginTransaction(s, a)
<1>5. t.mailFrom = a.Address /\ t.rcptTo = f.rcptTo /\ t.dsn = a.DSN /\ t.requireTLS = a.RequireTLS /\ t.bodyMode = body
  BY <1>1, <1>2 DEF Cleared, SessionRecords
<1>6. SameCounts(f, t) /\ SameUser(f, t)
  BY <1>1, <1>2 DEF Cleared, SessionRecords, SameCounts, SameUser
<1> QED BY <1>1, <1>2, <1>4, <1>5, <1>6 DEF Cleared, SameCounts, SameUser, body

LEMMA SSInvInit == SSInit => SSInv
<1> SUFFICES ASSUME SSInit PROVE SSInv
  OBVIOUS
<1>1. cfg \in ConfigType /\ ss = NewSession(cfg) /\ told = Unused /\ total = Zero /\ sent = NoMessage
  BY SessionAssumption DEF SSInit
<1>2. /\ Cleared(ss) /\ ss.auth = NoUser
      /\ ss.authFailures = 0 /\ ss.rcptFailures = 0 /\ ss.messages = 0
  BY <1>1, NewIsCleared
<1>3. SessionTypeOK
  BY <1>1, <1>2, EmptyEnvelope DEF SessionTypeOK, Cleared, Zero
<1>4. AsTold /\ Entitled
  BY <1>1, <1>2, NoForeigners DEF AsTold, Entitled, Cleared, Unused, Empty
<1>5. Counted /\ SessionBounded
  BY <1>1, <1>2, SessionLimits DEF Counted, SessionBounded, Zero
<1> QED BY <1>1, <1>3, <1>4, <1>5 DEF SSInv, MessageAsTold, AuthCurrent

(* A command that queues nothing: what is left to show is about the session. *)
LEMMA NothingSent ==
    ASSUME SSInv, sent' = NoMessage, SessionTypeOK', AsTold', Counted', Entitled', SessionBounded'
    PROVE  SSInv'
BY DEF SSInv, MessageAsTold, AuthCurrent

(* A command that ends the transaction, and keeps the user and the layer or  *)
(* forgets the user.                                                         *)
Ends ==
    /\ Cleared(ss') /\ SameCounts(ss, ss') /\ cfg' = cfg /\ total' = total /\ sent' = NoMessage
    /\ \/ SameUser(ss, ss') /\ told' = [told EXCEPT !.envelope = Empty]
       \/ ss'.auth = NoUser /\ told' = Unused

LEMMA TransactionEnds ==
    ASSUME SSInv, Ends PROVE SSInv'
<1>1. /\ told' \in [envelope : Envelopes, layer : {"none", "plain", "tls"}] /\ told'.envelope = Empty
      /\ ss'.auth # NoUser => SameUser(ss, ss') /\ told'.layer = told.layer
  BY EmptyEnvelope DEF Ends, SSInv, SessionTypeOK, Unused
<1>2. SessionTypeOK'
  BY <1>1 DEF Ends, Cleared, SSInv, SessionTypeOK
<1>3. AsTold'
  <2>1. Cleared(ss')
    BY DEF Ends
  <2> QED BY <1>1, <2>1, EmptyFields DEF Cleared, AsTold
<1>4. Counted' /\ SessionBounded'
  BY DEF Ends, SameCounts, SSInv, Counted, SessionBounded
<1>5. Entitled'
  BY <1>1, NothingForeign DEF Ends, Cleared, SameUser, SSInv, Entitled
<1> QED BY <1>2, <1>3, <1>4, <1>5, NothingSent DEF Ends

LEMMA SSInvStep == SSInv /\ [SSNext]_ssvars => SSInv'
<1> SUFFICES ASSUME SSInv, [SSNext]_ssvars PROVE SSInv'
  OBVIOUS
<1>0. /\ ss \in SessionRecords /\ cfg \in ConfigType /\ total \in [auth : Nat, rcpt : Nat, msg : Nat]
      /\ told \in [envelope : Envelopes, layer : {"none", "plain", "tls"}]
  BY DEF SSInv, SessionTypeOK
<1>1. ASSUME Close PROVE SSInv'
  <2>1. UNCHANGED <<cfg, ss, told, total>> /\ sent' = NoMessage
    BY <1>1 DEF Close
  <2> QED BY <2>1 DEF SSInv, SessionTypeOK, AsTold, Counted, Entitled, Foreigners, MessageAsTold, AuthCurrent, SessionBounded
<1>2. ASSUME Connect PROVE SSInv'
  <2>1. cfg' = cfg /\ ss' = NewSession(cfg) /\ told' = Unused /\ total' = Zero /\ sent' = NoMessage
    BY <1>2 DEF Connect
  <2>2. /\ Cleared(ss') /\ ss'.auth = NoUser
        /\ ss'.authFailures = 0 /\ ss'.rcptFailures = 0 /\ ss'.messages = 0
    BY <1>0, <2>1, NewIsCleared
  <2>3. SessionTypeOK'
    BY <1>0, <2>1, <2>2, EmptyEnvelope DEF SessionTypeOK, Cleared, Zero
  <2>4. AsTold' /\ Entitled'
    BY <2>1, <2>2, NothingForeign DEF AsTold, Entitled, Cleared, Unused, Empty
  <2>5. Counted' /\ SessionBounded'
    BY <2>1, <2>2, SessionLimits DEF Counted, SessionBounded, Zero
  <2> QED BY <2>1, <2>3, <2>4, <2>5, NothingSent
<1>3. ASSUME NEW ext \in BOOLEAN, Greeting(ext) PROVE SSInv'
  <2>1. CASE ss' = acceptGreeting(ss, ext) /\ told' = [told EXCEPT !.envelope = Empty] /\ sent' = NoMessage
             /\ UNCHANGED <<cfg, open, total>>
    BY <1>0, <2>1, GreetingClears, TransactionEnds DEF Ends
  <2> QED BY <1>1, <1>3, <2>1 DEF Greeting
<1>4. ASSUME NEW a \in MailArgs, handleMailCommand(a) PROVE SSInv'
  <2> DEFINE e == [Empty EXCEPT !.mail = TRUE, !.from = a.Address, !.dsn = a.DSN, !.requireTLS = a.RequireTLS,
                                !.body = IF a.Body = "" THEN "7BIT" ELSE a.Body]
  <2>1. CASE /\ ss' = beginTransaction(ss, a) /\ told' = [told EXCEPT !.envelope = e] /\ sent' = NoMessage
             /\ UNCHANGED <<cfg, open, total>>
    <3>1. /\ ss' \in SessionRecords /\ SameCounts(ss, ss') /\ SameUser(ss, ss')
          /\ ss'.mailFrom = a.Address /\ ss'.rcptTo = <<>> /\ ss'.dsn = a.DSN /\ ss'.requireTLS = a.RequireTLS
          /\ ss'.bodyMode = IF a.Body = "" THEN "7BIT" ELSE a.Body
      BY <1>0, <2>1, MailBegins
    <3>2. /\ e \in Envelopes /\ e.from = a.Address /\ e.rcpts = <<>> /\ e.dsn = a.DSN /\ e.requireTLS = a.RequireTLS
          /\ e.body = IF a.Body = "" THEN "7BIT" ELSE a.Body
      <4>1. /\ a.Address \in Senders \cup {""} /\ a.DSN \in SUBSET (Addresses \cup {"mail"}) /\ a.RequireTLS \in BOOLEAN
            /\ (IF a.Body = "" THEN "7BIT" ELSE a.Body) \in Bodies
        BY DEF MailArgs, Bodies
      <4>2. e \in Envelopes
        BY <4>1, EmptyEnvelope DEF Envelopes
      <4>3. /\ e.from = a.Address /\ e.rcpts = <<>> /\ e.dsn = a.DSN /\ e.requireTLS = a.RequireTLS
            /\ e.body = IF a.Body = "" THEN "7BIT" ELSE a.Body
        BY DEF Empty
      <4> QED BY <4>2, <4>3
    <3> HIDE DEF e
    <3>3. told'.envelope = e /\ told'.layer = told.layer
      BY <1>0, <2>1
    <3>4. SessionTypeOK'
      BY <1>0, <2>1, <3>1, <3>2 DEF SessionTypeOK
    <3>5. AsTold'
      BY <3>1, <3>2, <3>3 DEF AsTold
    <3>6. Counted' /\ SessionBounded'
      BY <2>1, <3>1 DEF SSInv, Counted, SessionBounded, SameCounts
    <3>7. Entitled'
      BY <1>4, <2>1, <3>1, <3>3, NothingForeign DEF SSInv, Entitled, SameUser, handleMailCommand, MailAllowed
    <3> QED BY <2>1, <3>4, <3>5, <3>6, <3>7, NothingSent
  <2> QED BY <1>1, <1>4, <2>1 DEF handleMailCommand
<1>5. ASSUME NEW r \in Addresses, NEW dsn \in BOOLEAN, RcptAccepted(r, dsn) PROVE SSInv'
  <2> DEFINE marks == IF dsn THEN ss.dsn \cup {r} ELSE ss.dsn
  <2>1. /\ ss.rcptTo \in Seq(Addresses) /\ Append(ss.rcptTo, r) \in Seq(Addresses) /\ Append(ss.rcptTo, r) # <<>>
        /\ marks \in SUBSET (Addresses \cup {"mail"})
        /\ told.envelope.rcpts = ss.rcptTo /\ told.envelope.dsn = ss.dsn
    <3>1. ss.rcptTo \in Seq(Addresses) /\ ss.dsn \in SUBSET (Addresses \cup {"mail"})
      BY <1>0 DEF SessionRecords
    <3>2. Append(ss.rcptTo, r) \in Seq(Addresses) /\ Append(ss.rcptTo, r) # <<>>
      BY <3>1
    <3>3. told.envelope.rcpts = ss.rcptTo /\ told.envelope.dsn = ss.dsn
      BY DEF SSInv, AsTold
    <3> QED BY <3>1, <3>2, <3>3
  <2>2. ss' = [ss EXCEPT !.rcptTo = Append(ss.rcptTo, r), !.dsn = marks]
    BY <1>5 DEF RcptAccepted
  <2>3. told' = [told EXCEPT !.envelope = [told.envelope EXCEPT !.rcpts = Append(ss.rcptTo, r), !.dsn = marks]]
    BY <1>0, <1>5, <2>1 DEF RcptAccepted, Envelopes
  <2>4. UNCHANGED <<cfg, total>> /\ sent' = NoMessage /\ ss.mailFrom # "" /\ Authorize(cfg.submission /\ ss.auth # NoUser, r)
    BY <1>5 DEF RcptAccepted, MayAppend
  <2> HIDE DEF marks
  <2>5. /\ ss' \in SessionRecords /\ SameCounts(ss, ss') /\ SameUser(ss, ss') /\ ss'.rcptTo = Append(ss.rcptTo, r)
        /\ ss'.dsn = marks /\ ss'.mailFrom = ss.mailFrom /\ ss'.bodyMode = ss.bodyMode /\ ss'.requireTLS = ss.requireTLS
    BY <1>0, <2>1, <2>2 DEF SessionRecords, SameCounts, SameUser
  <2>6. /\ told'.envelope \in Envelopes /\ told'.layer = told.layer /\ told'.envelope.rcpts = Append(ss.rcptTo, r)
        /\ told'.envelope.dsn = marks /\ told'.envelope.from = told.envelope.from
        /\ told'.envelope.body = told.envelope.body /\ told'.envelope.requireTLS = told.envelope.requireTLS
    BY <1>0, <2>1, <2>3 DEF Envelopes
  <2>7. SessionTypeOK'
    BY <1>0, <2>3, <2>4, <2>5, <2>6 DEF SessionTypeOK
  <2>8. AsTold'
    BY <2>4, <2>5, <2>6 DEF SSInv, AsTold
  <2>9. Counted' /\ SessionBounded'
    BY ZenonT(40), <2>4, <2>5 DEF SSInv, Counted, SessionBounded, SameCounts
  <2>10. Foreigners' => Foreigners \/ r \in Foreign
    BY <2>1, <2>5 DEF Foreigners
  <2>11. Entitled'
    BY ZenonT(40), <2>4, <2>5, <2>6, <2>10, SessionAssumption DEF SSInv, Entitled, SameUser, Authorize
  <2> QED BY <2>4, <2>7, <2>8, <2>9, <2>11, NothingSent
<1>6. ASSUME RcptRefused PROVE SSInv'
  <2>1. /\ ss' = [ss EXCEPT !.rcptFailures = ss.rcptFailures + 1] /\ total' = [total EXCEPT !.rcpt = total.rcpt + 1]
        /\ UNCHANGED <<cfg, told>> /\ sent' = NoMessage /\ ~(ss.rcptFailures >= MaxRcptFailures)
    BY <1>6 DEF RcptRefused, Ready, LimitReached
  <2>2. ss.rcptFailures \in Nat /\ total.rcpt = ss.rcptFailures
    BY <1>0 DEF SessionRecords, SSInv, Counted
  <2>3. /\ ss' \in SessionRecords /\ SameUser(ss, ss') /\ ss'.rcptTo = ss.rcptTo /\ ss'.dsn = ss.dsn
        /\ ss'.mailFrom = ss.mailFrom /\ ss'.bodyMode = ss.bodyMode /\ ss'.requireTLS = ss.requireTLS
        /\ ss'.rcptFailures = ss.rcptFailures + 1 /\ ss'.authFailures = ss.authFailures /\ ss'.messages = ss.messages
    <3> DEFINE n == ss.rcptFailures + 1
    <3>1. n \in Nat /\ ss' = [ss EXCEPT !.rcptFailures = n]
      BY <2>1, <2>2
    <3> HIDE DEF n
    <3>2. ss' \in SessionRecords
      BY <1>0, <3>1 DEF SessionRecords
    <3>3. ss'.rcptFailures = n
      BY <1>0, <3>1 DEF SessionRecords
    <3>4. /\ SameUser(ss, ss') /\ ss'.rcptTo = ss.rcptTo /\ ss'.dsn = ss.dsn /\ ss'.mailFrom = ss.mailFrom
          /\ ss'.bodyMode = ss.bodyMode /\ ss'.requireTLS = ss.requireTLS
          /\ ss'.authFailures = ss.authFailures /\ ss'.messages = ss.messages
      BY <1>0, <3>1 DEF SessionRecords, SameUser
    <3> QED BY <3>2, <3>3, <3>4 DEF n
  <2>4. /\ total' \in [auth : Nat, rcpt : Nat, msg : Nat] /\ total'.rcpt = total.rcpt + 1
        /\ total'.auth = total.auth /\ total'.msg = total.msg
    BY <1>0, <2>1, <2>2
  <2>5. SessionTypeOK' /\ AsTold' /\ Entitled'
    BY <1>0, <2>1, <2>3, <2>4 DEF SSInv, SessionTypeOK, AsTold, Entitled, Foreigners, SameUser
  <2>6. Counted' /\ SessionBounded'
    BY <2>1, <2>2, <2>3, <2>4, SessionLimits DEF SSInv, Counted, SessionBounded
  <2> QED BY <2>1, <2>5, <2>6, NothingSent
<1>7. ASSUME DataRejected \/ RSET PROVE SSInv'
  <2>1. /\ ss' = finishData(ss) \/ ss' = resetTransaction(ss)
        /\ told' = [told EXCEPT !.envelope = Empty] /\ sent' = NoMessage /\ UNCHANGED <<cfg, total>>
    BY <1>7 DEF DataRejected, RSET
  <2> QED BY <1>0, <2>1, FinishDataClears, ResetClears, TransactionEnds DEF Ends
<1>8. ASSUME NEW auth \in AuthVerdicts, NEW hook \in HookVerdicts, DataTempFailed(auth, hook) PROVE SSInv'
  <2>1. /\ ss' = [ss EXCEPT !.quarantine = applyPolicyHook(AuthHold(auth), hook)]
        /\ UNCHANGED <<cfg, told, total>> /\ sent' = NoMessage
    BY <1>8 DEF DataTempFailed
  <2>2. applyPolicyHook(AuthHold(auth), hook) \in {"none", "auth_policy", "policy_hook"}
    BY DEF applyPolicyHook, AuthHold
  <2>3. /\ ss' \in SessionRecords /\ SameUser(ss, ss') /\ SameCounts(ss, ss') /\ ss'.rcptTo = ss.rcptTo /\ ss'.dsn = ss.dsn
        /\ ss'.mailFrom = ss.mailFrom /\ ss'.bodyMode = ss.bodyMode /\ ss'.requireTLS = ss.requireTLS
    BY <1>0, <2>1, <2>2 DEF SessionRecords, SameUser, SameCounts
  <2>4. SessionTypeOK' /\ AsTold' /\ Entitled' /\ Counted' /\ SessionBounded'
    BY <1>0, <2>1, <2>3 DEF SSInv, SessionTypeOK, AsTold, Entitled, Foreigners, SameUser, Counted, SessionBounded, SameCounts
  <2> QED BY <2>1, <2>4, NothingSent
<1>9. ASSUME NEW auth \in AuthVerdicts, NEW hook \in HookVerdicts, NEW b \in BOOLEAN, DataQueued(auth, hook, b)
      PROVE  SSInv'
  <2> DEFINE f == finishData(ss)
             held == applyPolicyHook(AuthHold(auth), hook)
             verdict == cfg.quarantine /\ "quarantine" \in {auth, hook}
  <2>1. /\ sent' = enqueue(held, b, verdict) /\ ss' = [f EXCEPT !.messages = f.messages + 1]
        /\ told' = [told EXCEPT !.envelope = Empty] /\ total' = [total EXCEPT !.msg = total.msg + 1] /\ cfg' = cfg
        /\ ss.rcptTo # <<>> /\ (b => ss.bodyMode = "8BITMIME") /\ ~(ss.messages >= MaxMessages) /\ HookPasses(hook)
    BY <1>9 DEF DataQueued, DataReady, Ready, LimitReached
  <2>2. Cleared(f) /\ SameCounts(ss, f) /\ SameUser(ss, f)
    BY <1>0, FinishDataClears
  <2>3. (held # "none") <=> verdict
    BY <2>1 DEF applyPolicyHook, AuthHold, HookPasses
  <2> HIDE DEF f, held, verdict
  <2>4. ss.messages \in Nat /\ total.msg = ss.messages /\ f.messages = ss.messages
    BY <1>0, <2>2 DEF SessionRecords, SSInv, Counted, SameCounts
  <2>5. /\ Cleared(ss') /\ SameUser(ss, ss') /\ ss'.messages = ss.messages + 1
        /\ ss'.authFailures = ss.authFailures /\ ss'.rcptFailures = ss.rcptFailures
    <3> DEFINE n == f.messages + 1
    <3>1. n \in Nat /\ n = ss.messages + 1 /\ ss' = [f EXCEPT !.messages = n] /\ f \in SessionRecords
      <4>1. n = ss.messages + 1 /\ f \in SessionRecords
        BY <2>2, <2>4 DEF Cleared
      <4> QED BY <2>1, <2>4, <4>1
    <3> HIDE DEF n
    <3>2. ss' \in SessionRecords /\ ss'.messages = n
      BY <3>1 DEF SessionRecords
    <3>3. /\ ss'.mailFrom = f.mailFrom /\ ss'.rcptTo = f.rcptTo /\ ss'.dsn = f.dsn /\ ss'.requireTLS = f.requireTLS
          /\ SameUser(f, ss') /\ ss'.authFailures = f.authFailures /\ ss'.rcptFailures = f.rcptFailures
      BY <3>1 DEF SessionRecords, SameUser
    <3> QED BY <2>2, <3>1, <3>2, <3>3 DEF Cleared, SameUser, SameCounts
  <2>6. /\ told' \in [envelope : Envelopes, layer : {"none", "plain", "tls"}] /\ told'.envelope = Empty
        /\ told'.layer = told.layer
    BY <1>0, <2>1, EmptyEnvelope
  <2>7. /\ total' \in [auth : Nat, rcpt : Nat, msg : Nat] /\ total'.msg = total.msg + 1
        /\ total'.auth = total.auth /\ total'.rcpt = total.rcpt
    BY <1>0, <2>1, <2>4
  <2>8. SessionTypeOK' /\ AsTold' /\ Entitled'
    BY <1>0, <2>1, <2>5, <2>6, <2>7, NothingForeign DEF SSInv, SessionTypeOK, AsTold, Entitled, SameUser, Cleared, Empty
  <2>9. Counted' /\ SessionBounded'
    BY <2>1, <2>4, <2>5, <2>7, SessionLimits DEF SSInv, Counted, SessionBounded
  <2>10. /\ sent'.from = ss.mailFrom /\ sent'.rcpts = ss.rcptTo /\ sent'.dsn = ss.dsn /\ sent'.requireTLS = ss.requireTLS
         /\ sent'.held = held /\ sent'.tenant = ss.auth /\ sent'.eightBit = b /\ sent'.verdictHold = verdict
         /\ sent'.told = told
    BY <2>1 DEF enqueue
  <2>11. MessageAsTold'
    BY <2>1, <2>3, <2>10 DEF SSInv, MessageAsTold, AsTold
  <2>12. AuthCurrent'
    BY <2>1, <2>5, <2>10 DEF SSInv, AuthCurrent, AsTold, Entitled, Foreigners, SameUser
  <2> QED BY <2>8, <2>9, <2>11, <2>12 DEF SSInv
<1>10. ASSUME NEW u \in Users, AuthSucceeded(u) PROVE SSInv'
  <2>1. /\ ss' = [ss EXCEPT !.auth = u] /\ told' = [told EXCEPT !.layer = IF ss.tls THEN "tls" ELSE "plain"]
        /\ UNCHANGED <<cfg, total>> /\ sent' = NoMessage /\ cfg.submission
    BY <1>10 DEF AuthSucceeded, AuthOffered
  <2>2. /\ ss' \in SessionRecords /\ ss'.tls = ss.tls /\ ss'.auth = u /\ SameCounts(ss, ss') /\ ss'.rcptTo = ss.rcptTo
        /\ ss'.dsn = ss.dsn /\ ss'.mailFrom = ss.mailFrom /\ ss'.bodyMode = ss.bodyMode /\ ss'.requireTLS = ss.requireTLS
    BY <1>0, <2>1 DEF SessionRecords, SameCounts
  <2>3. told' \in [envelope : Envelopes, layer : {"none", "plain", "tls"}] /\ told'.envelope = told.envelope
        /\ told'.layer = IF ss.tls THEN "tls" ELSE "plain"
    BY <1>0, <2>1
  <2>4. SessionTypeOK' /\ Counted' /\ SessionBounded'
    BY <1>0, <2>1, <2>2, <2>3 DEF SSInv, SessionTypeOK, Counted, SessionBounded, SameCounts
  <2>5. AsTold'
    BY <2>2, <2>3 DEF SSInv, AsTold
  <2>6. Entitled'
    BY <2>1, <2>2, <2>3, SessionAssumption DEF SSInv, Entitled
  <2> QED BY <2>1, <2>4, <2>5, <2>6, NothingSent
<1>11. ASSUME AuthRefused PROVE SSInv'
  <2>1. /\ ss' = [ss EXCEPT !.authFailures = ss.authFailures + 1] /\ total' = [total EXCEPT !.auth = total.auth + 1]
        /\ UNCHANGED <<cfg, told>> /\ sent' = NoMessage /\ ~(ss.authFailures >= MaxAuthFailures)
    BY <1>11 DEF AuthRefused, AuthOffered, Ready, LimitReached
  <2>2. ss.authFailures \in Nat /\ total.auth = ss.authFailures
    BY <1>0 DEF SessionRecords, SSInv, Counted
  <2>3. /\ ss' \in SessionRecords /\ SameUser(ss, ss') /\ ss'.rcptTo = ss.rcptTo /\ ss'.dsn = ss.dsn
        /\ ss'.mailFrom = ss.mailFrom /\ ss'.bodyMode = ss.bodyMode /\ ss'.requireTLS = ss.requireTLS
        /\ ss'.authFailures = ss.authFailures + 1 /\ ss'.rcptFailures = ss.rcptFailures /\ ss'.messages = ss.messages
    <3> DEFINE n == ss.authFailures + 1
    <3>1. n \in Nat /\ ss' = [ss EXCEPT !.authFailures = n]
      BY <2>1, <2>2
    <3> HIDE DEF n
    <3>2. ss' \in SessionRecords
      BY <1>0, <3>1 DEF SessionRecords
    <3>3. ss'.authFailures = n
      BY <1>0, <3>1 DEF SessionRecords
    <3>4. /\ SameUser(ss, ss') /\ ss'.rcptTo = ss.rcptTo /\ ss'.dsn = ss.dsn /\ ss'.mailFrom = ss.mailFrom
          /\ ss'.bodyMode = ss.bodyMode /\ ss'.requireTLS = ss.requireTLS
          /\ ss'.rcptFailures = ss.rcptFailures /\ ss'.messages = ss.messages
      BY <1>0, <3>1 DEF SessionRecords, SameUser
    <3> QED BY <3>2, <3>3, <3>4 DEF n
  <2>4. /\ total' \in [auth : Nat, rcpt : Nat, msg : Nat] /\ total'.auth = total.auth + 1
        /\ total'.rcpt = total.rcpt /\ total'.msg = total.msg
    BY <1>0, <2>1, <2>2
  <2>5. SessionTypeOK' /\ AsTold' /\ Entitled'
    BY <1>0, <2>1, <2>3, <2>4 DEF SSInv, SessionTypeOK, AsTold, Entitled, Foreigners, SameUser
  <2>6. Counted' /\ SessionBounded'
    BY <2>1, <2>2, <2>3, <2>4, SessionLimits DEF SSInv, Counted, SessionBounded
  <2> QED BY <2>1, <2>5, <2>6, NothingSent
<1>12. ASSUME handleStartTLSCommand PROVE SSInv'
  <2>1. CASE ss' = resetAfterTLS(ss) /\ told' = Unused /\ sent' = NoMessage /\ UNCHANGED <<cfg, total>>
    BY <1>0, <2>1, TLSClears, TransactionEnds DEF Ends
  <2> QED BY <1>1, <1>12, <2>1 DEF handleStartTLSCommand
<1>13. ASSUME UNCHANGED ssvars PROVE SSInv'
  BY ZenonT(40), <1>13 DEF ssvars, SSInv, SessionTypeOK, AsTold, Counted, Entitled, Foreigners, MessageAsTold, AuthCurrent, SessionBounded
<1> QED BY <1>1, <1>2, <1>3, <1>4, <1>5, <1>6, <1>7, <1>8, <1>9, <1>10, <1>11, <1>12, <1>13
        DEF SSNext, SessionLimit, Ended, DataUnread, AuthUnread

(* What DATA hands to the queue is what the replies since the last accepted  *)
(* MAIL told the client, for any addresses, limits and settings of the       *)
(* listener.                                                                 *)
THEOREM QueuedAsTold == SSSpec => []MessageAsTold
<1>1. SSInv => MessageAsTold
  BY DEF SSInv
<1> QED BY <1>1, SSInvInit, SSInvStep, PTL DEF SSSpec

(* A message is queued for a tenant only if AUTH succeeded on the layer it   *)
(* came over; resetAfterTLS forgets what was given before STARTTLS.          *)
THEOREM AuthIsCurrent == SSSpec => []AuthCurrent
<1>1. SSInv => AuthCurrent
  BY DEF SSInv
<1> QED BY <1>1, SSInvInit, SSInvStep, PTL DEF SSSpec

(* RSET, greetings and STARTTLS restore none of the limits on refused AUTH   *)
(* and RCPT commands and on messages, whatever the limits are.               *)
THEOREM SessionIsBounded == SSSpec => []SessionBounded
<1>1. SSInv => SessionBounded
  BY DEF SSInv
<1> QED BY <1>1, SSInvInit, SSInvStep, PTL DEF SSSpec
=============================================================================
