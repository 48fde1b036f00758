----------------------------- MODULE SMTPSession -----------------------------
(***************************************************************************)
(* One SMTP session (the command loop of smtp/server.go and its handlers).  *)
(* The client sends commands in any order; an action is one command handled *)
(* to its reply.  A command that is answered with an error and changes      *)
(* nothing is no action here: its refusal is the guard of the action.       *)
(***************************************************************************)
EXTENDS Naturals, Sequences, FiniteSets

CONSTANTS
    Users,              \* principals of the authentication backend
    Senders,            \* mailboxes a client may give to MAIL
    Allowed,            \* Allowed[u]: the senders in the scope of u
    Local,              \* existing recipients of the hosted domains
    Foreign,            \* recipients elsewhere
    Unknown,            \* addresses of the hosted domains that do not exist
    MaxRecipients, MaxAuthFailures, MaxRcptFailures, MaxMessages,
    Configs,            \* the listeners considered: records as below
    NoUser, NoMessage

Addresses == Local \cup Foreign \cup Unknown

(* The listener's settings: submission or not, TLS from the start, a         *)
(* certificate, authentication required, senders tied to the user, AUTH      *)
(* without TLS, a signing profile file, quarantine enabled, a policy hook,   *)
(* all deliveries by MX or relay, and whether the peer is in a trusted       *)
(* network.                                                                  *)
ConfigType ==
    [submission : BOOLEAN, implicitTLS : BOOLEAN, cert : BOOLEAN, SubmissionAuth : BOOLEAN,
     SubmissionSenderID : BOOLEAN, insecureAuth : BOOLEAN, profiles : BOOLEAN,
     quarantine : BOOLEAN, hook : BOOLEAN, mxOnly : BOOLEAN, trusted : BOOLEAN]

ASSUME SessionAssumption ==
    /\ Allowed \in [Users -> SUBSET Senders] /\ "" \notin Senders /\ NoUser \notin Users
    /\ Local \cap Foreign = {}
    /\ Configs \subseteq ConfigType
    /\ {MaxRecipients, MaxAuthFailures, MaxRcptFailures, MaxMessages} \subseteq Nat \ {0}

VARIABLES
    cfg,        \* the settings of the listener
    open,       \* the connection is open
    ss,         \* the session
    told,       \* what the replies made the client believe: the envelope it has
                \* built since its last MAIL, and the layer its AUTH succeeded on
    total,      \* refused AUTH and RCPT commands and queued messages of the connection
    sent        \* the message the last command handed to the queue

ssvars == <<cfg, open, ss, told, total, sent>>

Empty == [mail |-> FALSE, from |-> "", rcpts |-> <<>>, dsn |-> {}, requireTLS |-> FALSE, body |-> "7BIT"]

NewSession(c) ==
    [seenHelo |-> FALSE, extended |-> FALSE, tls |-> c.implicitTLS, auth |-> NoUser,
     mailFrom |-> "", rcptTo |-> <<>>, dsn |-> {}, requireTLS |-> FALSE, bodyMode |-> "7BIT",
     quarantine |-> "none", authFailures |-> 0, rcptFailures |-> 0, messages |-> 0]

Unused == [envelope |-> Empty, layer |-> "none"]
Zero == [auth |-> 0, rcpt |-> 0, msg |-> 0]

SSInit ==
    /\ cfg \in Configs /\ open = TRUE /\ ss = NewSession(cfg)
    /\ told = Unused /\ total = Zero /\ sent = NoMessage

-----------------------------------------------------------------------------
(* The ways the session is reset. *)
finishDataKeepingRcpt(s) ==
    [s EXCEPT !.mailFrom = "", !.dsn = {}, !.requireTLS = FALSE, !.quarantine = "none"]
finishData(s) ==
    [s EXCEPT !.mailFrom = "", !.rcptTo = <<>>, !.dsn = {}, !.requireTLS = FALSE,
              !.quarantine = "none"]
resetTransaction(s) == [finishData(s) EXCEPT !.bodyMode = "7BIT"]
beginTransaction(s, a) ==
    [resetTransaction(s) EXCEPT !.mailFrom = a.Address, !.dsn = a.DSN,
                                !.requireTLS = a.RequireTLS,
                                !.bodyMode = IF a.Body = "" THEN "7BIT" ELSE a.Body]
acceptGreeting(s, ext) ==
    [resetTransaction(s) EXCEPT !.seenHelo = TRUE, !.extended = ext]
resetAfterTLSKeepingAuth(s) ==
    [resetTransaction(s) EXCEPT !.tls = TRUE, !.seenHelo = FALSE, !.extended = FALSE]
resetAfterTLSFresh(s) == [NewSession(cfg) EXCEPT !.tls = TRUE]
resetAfterTLS(s) ==
    [resetTransaction(s) EXCEPT !.tls = TRUE, !.seenHelo = FALSE, !.extended = FALSE,
                                !.auth = NoUser]

-----------------------------------------------------------------------------
LimitReached ==
    \/ ss.authFailures >= MaxAuthFailures \/ ss.rcptFailures >= MaxRcptFailures
    \/ ss.messages >= MaxMessages
Ready == open /\ ~LimitReached
Close == open' = FALSE /\ sent' = NoMessage /\ UNCHANGED <<cfg, ss, told, total>>

SessionLimit == open /\ LimitReached /\ Close

(* QUIT, a line that cannot be read (closed, too slow, over the bytes of the *)
(* session), or the end of the server.                                       *)
Ended == Ready /\ Close

(* The next client of this listener. *)
Connect ==
    /\ ~open /\ open' = TRUE /\ ss' = NewSession(cfg) /\ told' = Unused /\ total' = Zero
    /\ sent' = NoMessage /\ UNCHANGED cfg

Greeting(ext) ==
    /\ Ready
    /\ \/ ext /\ Close                                  \* a rate rule of the event helo
       \/ /\ ss' = acceptGreeting(ss, ext)
          /\ told' = [told EXCEPT !.envelope = Empty]
          /\ sent' = NoMessage /\ UNCHANGED <<cfg, open, total>>

(* Parsed arguments of MAIL: a null reverse-path is the empty string. *)
MailArgs == [Address : Senders \cup {""}, DSN : {{}, {"mail"}}, RequireTLS : BOOLEAN,
             Body : {"", "8BITMIME"}]
requireTLSAvailable == cfg.submission /\ cfg.SubmissionAuth /\ cfg.mxOnly
MailAllowed(a) ==
    /\ ss.seenHelo
    /\ cfg.submission /\ cfg.SubmissionAuth => ss.auth # NoUser
    /\ a.Body # "" \/ a.DSN # {} \/ a.RequireTLS => ss.extended
    /\ a.RequireTLS => requireTLSAvailable
    /\ cfg.submission /\ cfg.SubmissionSenderID /\ ss.auth # NoUser => a.Address \in Allowed[ss.auth]
handleMailCommand(a) ==
    /\ Ready /\ MailAllowed(a)
    /\ \/ Close                                         \* a rate rule of the event mailfrom
       \/ /\ ss' = beginTransaction(ss, a)
          /\ told' = [told EXCEPT !.envelope =
                         [Empty EXCEPT !.mail = TRUE, !.from = a.Address, !.dsn = a.DSN,
                                       !.requireTLS = a.RequireTLS,
                                       !.body = IF a.Body = "" THEN "7BIT" ELSE a.Body]]
          /\ sent' = NoMessage /\ UNCHANGED <<cfg, open, total>>

(* staticRecipientPolicy: hosted domains are checked for the recipient, all  *)
(* others need an authenticated submission or a trusted peer.                *)
Authorize(authenticated, r) == r \in Local \/ (r \in Foreign /\ (authenticated \/ cfg.trusted))

MayAppend(r, dsn) ==
    /\ ss.mailFrom # "" /\ Len(ss.rcptTo) < MaxRecipients
    /\ dsn => ss.extended
    /\ Authorize(cfg.submission /\ ss.auth # NoUser, r)
RcptAccepted(r, dsn) ==
    /\ Ready /\ MayAppend(r, dsn)
    /\ ss' = [ss EXCEPT !.rcptTo = Append(@, r), !.dsn = IF dsn THEN @ \cup {r} ELSE @]
    /\ told' = [told EXCEPT !.envelope.rcpts = Append(@, r),
                            !.envelope.dsn = IF dsn THEN @ \cup {r} ELSE @]
    /\ sent' = NoMessage /\ UNCHANGED <<cfg, open, total>>
(* Any refusal counts: order, limit, syntax, policy, its backend or the hook. *)
RcptRefused ==
    /\ Ready /\ ss' = [ss EXCEPT !.rcptFailures = @ + 1] /\ total' = [total EXCEPT !.rcpt = @ + 1]
    /\ sent' = NoMessage /\ UNCHANGED <<cfg, open, told>>

-----------------------------------------------------------------------------
(* DATA.  The checks on the text are external to the session: the client's   *)
(* text is 8-bit or not, the authentication pipeline and the hook give a      *)
(* verdict, and the identity for signing needs the sender in the user's scope. *)
AuthVerdicts == {"accept", "quarantine", "reject"}
HookVerdicts == IF cfg.hook THEN {"accept", "quarantine", "reject", "tempfail"} ELSE {"accept"}

DataReady == Ready /\ ss.rcptTo # <<>>
signingIdentity == cfg.profiles /\ cfg.submission /\ ss.auth # NoUser => ss.mailFrom \in Allowed[ss.auth]

(* The text cannot be read to its end, is too long or has too long a line. *)
DataUnread == DataReady /\ Close

applyPolicyHook(held, v) ==
    IF v = "quarantine" THEN (IF held = "none" THEN "policy_hook" ELSE held) ELSE held
HookPasses(v) == v = "accept" \/ (v = "quarantine" /\ cfg.quarantine)

(* The hold the checks of this DATA decide, starting from none. *)
AuthHold(v) == IF v = "quarantine" /\ cfg.quarantine THEN "auth_policy" ELSE "none"

(* 8-bit text that was not announced, the verdict "reject", an author outside *)
(* the scope, or a hook that does not let it pass.                            *)
DataRejected ==
    /\ DataReady /\ ss' = finishData(ss) /\ told' = [told EXCEPT !.envelope = Empty]
    /\ sent' = NoMessage /\ UNCHANGED <<cfg, open, total>>

(* No id, or an error of Enqueue: 451, and the transaction stays. *)
DataTempFailed(auth, hook) ==
    /\ DataReady /\ signingIdentity /\ auth # "reject" /\ HookPasses(hook)
    /\ ss' = [ss EXCEPT !.quarantine = applyPolicyHook(AuthHold(auth), hook)]
    /\ sent' = NoMessage /\ UNCHANGED <<cfg, open, told, total>>

enqueue(held, eightBit, expected) ==
    [from |-> ss.mailFrom, rcpts |-> ss.rcptTo, dsn |-> ss.dsn, requireTLS |-> ss.requireTLS,
     held |-> held, tenant |-> ss.auth, eightBit |-> eightBit, verdictHold |-> expected,
     told |-> told]
DataQueued(auth, hook, eightBit) ==
    /\ DataReady /\ signingIdentity /\ auth # "reject" /\ HookPasses(hook)
    /\ eightBit => ss.bodyMode = "8BITMIME"
    /\ sent' = enqueue(applyPolicyHook(AuthHold(auth), hook), eightBit,
                       cfg.quarantine /\ "quarantine" \in {auth, hook})
    /\ ss' = [finishData(ss) EXCEPT !.messages = @ + 1]
    /\ told' = [told EXCEPT !.envelope = Empty] /\ total' = [total EXCEPT !.msg = @ + 1]
    /\ UNCHANGED <<cfg, open>>

-----------------------------------------------------------------------------
RSET ==
    /\ Ready /\ ss' = resetTransaction(ss) /\ told' = [told EXCEPT !.envelope = Empty]
    /\ sent' = NoMessage /\ UNCHANGED <<cfg, open, total>>

(* AUTH may be given again, also inside a transaction.  A response that      *)
(* cannot be read closes the connection.                                     *)
AuthOffered == Ready /\ cfg.submission /\ ss.extended /\ (ss.tls \/ cfg.insecureAuth)
AuthSucceeded(u) ==
    /\ AuthOffered /\ ss' = [ss EXCEPT !.auth = u]
    /\ told' = [told EXCEPT !.layer = IF ss.tls THEN "tls" ELSE "plain"]
    /\ sent' = NoMessage /\ UNCHANGED <<cfg, open, total>>
AuthRefused ==
    /\ AuthOffered /\ ss' = [ss EXCEPT !.authFailures = @ + 1]
    /\ total' = [total EXCEPT !.auth = @ + 1]
    /\ sent' = NoMessage /\ UNCHANGED <<cfg, open, told>>
AuthUnread == AuthOffered /\ Close

handleStartTLSCommand ==
    /\ Ready /\ ~ss.tls /\ cfg.cert
    /\ \/ Close                                         \* the handshake fails
       \/ /\ ss' = resetAfterTLS(ss) /\ told' = Unused
          /\ sent' = NoMessage /\ UNCHANGED <<cfg, open, total>>

SSNext ==
    \/ SessionLimit \/ Ended \/ Connect \/ RcptRefused \/ DataUnread \/ DataRejected
    \/ RSET \/ AuthRefused \/ AuthUnread \/ handleStartTLSCommand
    \/ \E ext \in BOOLEAN : Greeting(ext)
    \/ \E a \in MailArgs : handleMailCommand(a)
    \/ \E r \in Addresses, dsn \in BOOLEAN : RcptAccepted(r, dsn)
    \/ \E u \in Users : AuthSucceeded(u)
    \/ \E auth \in AuthVerdicts, hook \in HookVerdicts : DataTempFailed(auth, hook)
    \/ \E auth \in AuthVerdicts, hook \in HookVerdicts, b \in BOOLEAN : DataQueued(auth, hook, b)

SSSpec == SSInit /\ [][SSNext]_ssvars

-----------------------------------------------------------------------------
(* What DATA hands to the queue is what the replies since the last accepted  *)
(* MAIL told the client: that sender, those recipients in order, those DSN   *)
(* and REQUIRETLS options, 8-bit text only if that MAIL announced it; and it  *)
(* is held exactly when the checks of this very DATA say so.  Nothing of an   *)
(* earlier transaction, ended by RSET, a greeting, STARTTLS, a second MAIL,   *)
(* a rejection or a temporary failure, is left in it.                         *)
MessageAsTold ==
    sent # NoMessage =>
        LET e == sent.told.envelope IN
        /\ sent.from = e.from /\ sent.rcpts = e.rcpts /\ sent.dsn = e.dsn
        /\ sent.requireTLS = e.requireTLS
        /\ sent.eightBit => e.body = "8BITMIME"
        /\ (sent.held # "none") <=> sent.verdictHold

(* A message is queued for a tenant only if the AUTH that named them          *)
(* succeeded on the layer the message came over: credentials given before     *)
(* STARTTLS count for nothing after it (resetAfterTLS).  A submission that    *)
(* requires authentication queues for no one else, and a foreign recipient    *)
(* is accepted only for such a tenant or a trusted peer.                      *)
AuthCurrent ==
    sent # NoMessage =>
        /\ sent.tenant # NoUser =>
              cfg.submission /\ sent.told.layer = (IF ss.tls THEN "tls" ELSE "plain")
        /\ cfg.submission /\ cfg.SubmissionAuth => sent.tenant # NoUser
        /\ (\E i \in DOMAIN sent.rcpts : sent.rcpts[i] \in Foreign) =>
              cfg.trusted \/ sent.tenant # NoUser

(* Over a whole connection, whatever is reset in between by RSET, a greeting  *)
(* or STARTTLS, no more than MaxAuthFailures AUTH and MaxRcptFailures RCPT     *)
(* commands are refused and no more than MaxMessages messages queued.         *)
SessionBounded ==
    total.auth <= MaxAuthFailures /\ total.rcpt <= MaxRcptFailures /\ total.msg <= MaxMessages

(* A client whose MAIL was accepted can name an existing recipient, whatever  *)
(* the sender was, the null reverse-path included.                            *)
MailLeadsToRcpt ==
    \A r \in Local :
        open /\ told.envelope.mail /\ Len(told.envelope.rcpts) < MaxRecipients => MayAppend(r, FALSE)
=============================================================================
