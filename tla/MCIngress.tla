----------------------------- MODULE MCIngress -----------------------------
(* The ways into the server, for TLC: the connections of a listener, the rate *)
(* rules, the session of one connection, the HTTP API, and the authentication *)
(* of a message.  A session reads nothing of the others but whether it is let *)
(* in and the action on its message, which are choices there; so a behaviour  *)
(* is one of a single part and the others rest.                               *)
EXTENDS SMTPSession, SMTPListener, RateWindow, HTTPInjection, SPFCheck, DMARCPolicy, TLC
CONSTANTS c1, c2, c3, a1, a2, q1, q2
VARIABLE part

MX == [submission |-> FALSE, implicitTLS |-> FALSE, cert |-> TRUE, SubmissionAuth |-> FALSE,
       SubmissionSenderID |-> FALSE, insecureAuth |-> FALSE, profiles |-> FALSE,
       quarantine |-> TRUE, hook |-> TRUE, mxOnly |-> TRUE, trusted |-> FALSE]
Submission == [MX EXCEPT !.submission = TRUE, !.SubmissionAuth = TRUE, !.SubmissionSenderID = TRUE,
                         !.insecureAuth = TRUE, !.quarantine = FALSE]
SubmissionTLS == [Submission EXCEPT !.implicitTLS = TRUE, !.profiles = TRUE, !.hook = FALSE]
Relay == [Submission EXCEPT !.SubmissionAuth = FALSE, !.SubmissionSenderID = FALSE,
                            !.cert = FALSE, !.hook = FALSE, !.trusted = TRUE]
Listeners == {MX, Submission, SubmissionTLS, Relay}
Scopes == [u \in {"u", "v"} |-> IF u = "u" THEN {"s"} ELSE {"s", "t"}]

TwoRules == <<[Event |-> "mailfrom", Key |-> "ip", Limit |-> 2, Window |-> 2],
              [Event |-> "mailfrom", Key |-> "ip+mailfrom", Limit |-> 1, Window |-> 3]>>

(* SPF: two domains whose records name each other.  A pair of terms at the    *)
(* first, one at the second, in front of any redirect.                        *)
T(q, n, a, p) == [qualifier |-> q, name |-> n, arg |-> a, prefix |-> p]
FirstTerms == {T("-", "all", "", FALSE), T("?", "ip", "client", FALSE), T("+", "ip", "%", FALSE), T("+", "a", "", TRUE),
               T("~", "a", "h", FALSE), T("-", "mx", "", TRUE), T("+", "include", "e", FALSE), T("-", "include", "d", FALSE),
               T("+", "exists", "h", FALSE), T("+", "ptr", "", FALSE), T("+", "x", "", FALSE), T("+", "include", "%", FALSE)}
SecondTerms == {T("+", "all", "", FALSE), T("~", "all", "", FALSE), T("+", "a", "h", TRUE), T("+", "mx", "h", FALSE), T("~", "include", "d", FALSE),
                T("+", "exists", "", FALSE)}
Text(spf, header, terms, target) == [spf |-> spf, header |-> header, terms |-> terms, redirect |-> target]
UpTo(S, n) == UNION {[1 .. k -> S] : k \in 0 .. n}
Zone == [x \in {"d", "e"} |->
    IF x = "d" THEN {<<>>, <<Text(TRUE, FALSE, <<>>, "")>>} \cup {<<Text(TRUE, TRUE, t, r)>> : t \in UpTo(FirstTerms, 2), r \in {"", "e"}}
    ELSE {<<Text(FALSE, FALSE, <<>>, "")>>, <<Text(TRUE, TRUE, <<>>, ""), Text(TRUE, TRUE, <<>>, "")>>}
           \cup {<<Text(TRUE, TRUE, t, r)>> : t \in UpTo(SecondTerms, 1), r \in {"", "d", "%"}}]
MailHosts == {<<>>, <<"h", "k">>}
Reverse == {<<"k">>, <<"h", "k">>}
Under == {<<"k", "d">>}

(* DMARC: a domain o, names below it, and one more name than a walk may ask. *)
O == <<"o">>
A == <<"a">> \o O
B == <<"b">> \o O
X == <<"x">> \o A
R(res, d) == [result |-> res, domain |-> d]
Mail == [wellFormed |-> TRUE, author |-> A, helo |-> R("pass", B), mailFrom |-> R("pass", B), nullSender |-> FALSE,
         sigs |-> <<>>, arc |-> "none", bucket |-> 50]
Mails == {Mail, [Mail EXCEPT !.mailFrom = R("pass", A), !.arc = "fail"], [Mail EXCEPT !.author = X],
          [Mail EXCEPT !.mailFrom = R("softfail", A), !.sigs = <<R("fail", A), R("pass", O)>>],
          [Mail EXCEPT !.wellFormed = FALSE], [Mail EXCEPT !.author = <<>>], [Mail EXCEPT !.author = O, !.arc = "fail"],
          [Mail EXCEPT !.nullSender = TRUE, !.mailFrom = R("none", <<>>), !.helo = R("fail", A), !.arc = "fail"],
          [Mail EXCEPT !.mailFrom = R("permerror", B), !.sigs = <<R("pass", <<>>), R("pass", <<"y">> \o X)>>, !.bucket = 20]}
AuthPolicy(h, m, a, d) == [helo |-> h, mailFrom |-> m, arc |-> a, dmarc |-> d]
Advisory == AuthPolicy("advisory", "advisory", "quarantine", "enforce")
ThePolicies == {Advisory, AuthPolicy("off", "enforce", "reject", "legacy"), AuthPolicy("enforce", "off", "reject", "shadow")}
Tags == [malformed |-> FALSE, p |-> "reject", sp |-> "", np |-> "", psd |-> "", t |-> "", aspf |-> "", adkim |-> "", pct |-> 100]
DMARCZone == {<<>>, <<Tags>>, <<Tags, Tags>>, <<[Tags EXCEPT !.malformed = TRUE, !.pct = 0]>>,
              <<[Tags EXCEPT !.p = "none", !.sp = "quarantine", !.np = "reject", !.adkim = "s"]>>,
              <<[Tags EXCEPT !.psd = "n", !.t = "y", !.aspf = "s"]>>, <<[Tags EXCEPT !.psd = "y", !.pct = 30]>>}
Suffixes == {B}

Symmetry == Permutations({c1, c2, c3}) \cup Permutations({q1, q2})

IInit == part \in {"session", "listener", "rates", "http", "spf", "dmarc"}
          /\ SSInit /\ CInit /\ RInit /\ HInit /\ SPFInit /\ AuthInit
          /\ (part # "session" => cfg = MX)
          /\ (part # "listener" => proxyEnabled = FALSE /\ implicitTLS = FALSE)
          /\ (part # "rates" => redis = FALSE)
          /\ (part # "http" => hLocal = TRUE)
          /\ (part # "dmarc" => authMsg = Mail /\ authPolicy = Advisory)
INext ==
    /\ UNCHANGED part
    /\ \/ part = "session" /\ SSNext /\ UNCHANGED <<cvars, rvars, hvars, spfvars, authvars>>
       \/ part = "listener" /\ CNext /\ UNCHANGED <<ssvars, rvars, hvars, spfvars, authvars>>
       \/ part = "rates" /\ RNext /\ UNCHANGED <<ssvars, cvars, hvars, spfvars, authvars>>
       \/ part = "http" /\ HNext /\ UNCHANGED <<ssvars, cvars, rvars, spfvars, authvars>>
       \/ part = "spf" /\ SPFNext /\ UNCHANGED <<ssvars, cvars, rvars, hvars, authvars>>
       \/ part = "dmarc" /\ AuthNext /\ UNCHANGED <<ssvars, cvars, rvars, hvars, spfvars>>
ISpec == IInit /\ [][INext]_<<ssvars, cvars, rvars, hvars, spfvars, authvars, part>>
=============================================================================
