---------------------------- MODULE DMARCPolicy -----------------------------
(***************************************************************************)
(* From the results of SPF, DKIM and ARC to the action on a message:         *)
(* EvaluateWithPolicy (mailauth/pipeline.go), the DMARC evaluation of RFC    *)
(* 7489 (dmarc.go) and the one of RFC 9989 with its tree walk (dmarcbis.go). *)
(* A domain is the sequence of its labels, <<>> when there is none.  Every   *)
(* DNS query may fail; what a name has published stays the same for one      *)
(* message.  The DMARC texts of a name are records of their tags, "" for one *)
(* that is absent; other texts are ignored by both evaluations.              *)
(***************************************************************************)
EXTENDS Integers, Sequences, FiniteSets, TLC

CONSTANTS
    Messages,       \* the results of SPF, DKIM and ARC, and the From domain
    AuthPolicies,   \* SPFPolicy, normalised
    DMARCTexts,     \* the lists of DMARC texts a name may have
    TwoLevelPSL,
    MaxWalk         \* the 8 queries of dmarcBisTreeWalk

VARIABLES
    authStep, authMsg, authPolicy,
    dmarcDNS,       \* what the names asked for have published
    dmarcLegacy,    \* DMARCResult of EvalDMARC
    dmarcBis,       \* DMARCbisResult, as far as it is known
    dmarcWalk,      \* dmarcBisTreeWalk: the names left to ask, and the records
    authResult      \* Action and Reason

authvars == <<authStep, authMsg, authPolicy, dmarcDNS, dmarcLegacy, dmarcBis, dmarcWalk, authResult>>

NoResult == [result |-> "none", policy |-> "none", pct |-> 100]
NoBis == [result |-> "", domain |-> <<>>, org |-> <<>>, policy |-> "", tags |-> <<>>, aligned |-> FALSE, sig |-> 0]
NoWalk == [names |-> <<>>, records |-> <<>>]
NotYet == [action |-> "", reason |-> ""]

AuthInit ==
    /\ authStep = "start" /\ authMsg \in Messages /\ authPolicy \in AuthPolicies
    /\ dmarcDNS = <<>> /\ dmarcLegacy = NoResult /\ dmarcBis = NoBis /\ dmarcWalk = NoWalk /\ authResult = NotYet

Enforcing == authPolicy.dmarc = "enforce"
author == authMsg.author

(* effectiveSPF, of a disabled check "none". *)
Disabled == [result |-> "none", domain |-> <<>>]
spfHelo == IF authPolicy.helo = "off" THEN Disabled ELSE authMsg.helo
spfMailFrom == IF authPolicy.mailFrom = "off" THEN Disabled ELSE authMsg.mailFrom
effectiveSPF == IF authMsg.nullSender \/ authPolicy.mailFrom = "off" THEN spfHelo ELSE spfMailFrom

(* A TXT query for _dmarc.name that gets an answer. *)
NotFound == [found |-> FALSE, texts |-> <<>>]
DMARCAnswers(name) ==
    IF name \in DOMAIN dmarcDNS THEN {dmarcDNS[name]}
    ELSE {NotFound} \cup {[found |-> TRUE, texts |-> l] : l \in DMARCTexts}
AskDMARC(name, ans) == dmarcDNS' = (name :> ans) @@ dmarcDNS

-----------------------------------------------------------------------------
(* RFC 7489.  A name that does not exist is an error like any other. *)

Suffix(d, n) == SubSeq(d, Len(d) - n + 1, Len(d))

organizationalDomain(d) ==
    IF Len(d) <= 2 THEN d ELSE IF Suffix(d, 2) \in TwoLevelPSL THEN Suffix(d, 3) ELSE Suffix(d, 2)

aligned(from, d, mode) ==
    d # <<>> /\ (IF mode = "s" THEN from = d ELSE organizationalDomain(from) = organizationalDomain(d))

Or(tag, default) == IF tag = "" THEN default ELSE tag

Evaluated7489(tags, policyDomain) ==
    LET p == Or(tags.p, "none")
        pass == \/ effectiveSPF.result = "pass" /\ aligned(author, effectiveSPF.domain, Or(tags.aspf, "r"))
                \/ \E i \in DOMAIN authMsg.sigs : /\ authMsg.sigs[i].result = "pass"
                                                  /\ aligned(author, authMsg.sigs[i].domain, Or(tags.adkim, "r")) IN
    [result |-> IF pass THEN "pass" ELSE "fail",
     policy |-> IF author = policyDomain THEN p ELSE Or(tags.sp, p), pct |-> tags.pct]

Legacy(res) ==
    /\ dmarcLegacy' = res
    /\ authStep' = IF authPolicy.dmarc = "legacy" THEN "decide" ELSE "bis"
    /\ UNCHANGED <<authMsg, authPolicy, dmarcBis, dmarcWalk, authResult>>
LegacyError(kind) == Legacy([NoResult EXCEPT !.result = kind, !.policy = ""])

(* lookupDMARC at the From domain and, when that has no record, at its       *)
(* organizational domain; EvalDMARC.                                         *)
EvalDMARC ==
    /\ authStep = "start" /\ authMsg.wellFormed
    /\ \/ author = <<>> /\ LegacyError("permerror") /\ UNCHANGED dmarcDNS
       \/ author # <<>> /\ LegacyError("temperror") /\ UNCHANGED dmarcDNS
       \/ author # <<>> /\ \E ans \in DMARCAnswers(author) : AskDMARC(author, ans) /\
            CASE ~ans.found -> LegacyError("temperror")
              [] ans.texts # <<>> -> Legacy(Evaluated7489(ans.texts[1], author))
              [] organizationalDomain(author) = author -> Legacy(NoResult)
              [] OTHER -> authStep' = "org" /\ UNCHANGED <<authMsg, authPolicy, dmarcLegacy, dmarcBis, dmarcWalk, authResult>>

EvalDMARCAtOrg ==
    /\ authStep = "org"
    /\ \/ LegacyError("temperror") /\ UNCHANGED dmarcDNS
       \/ \E ans \in DMARCAnswers(organizationalDomain(author)) : AskDMARC(organizationalDomain(author), ans) /\
            CASE ~ans.found -> LegacyError("temperror")
              [] ans.texts # <<>> -> Legacy(Evaluated7489(ans.texts[1], organizationalDomain(author)))
              [] OTHER -> Legacy(NoResult)

-----------------------------------------------------------------------------
(* RFC 9989. *)

DispositionOrNone == {"", "none", "quarantine", "reject"}
parseDMARCbisRecord(x) ==
    ~x.malformed /\ {x.p, x.sp, x.np} \subseteq DispositionOrNone /\ x.psd \in {"", "y", "n"}

walkNamesShort(d) ==
    LET start == IF Len(d) > MaxWalk THEN Len(d) - MaxWalk ELSE 1
        more == IF Len(d) - start < MaxWalk - 1 THEN Len(d) - start ELSE MaxWalk - 1 IN
    <<d>> \o [i \in 1 .. more |-> Suffix(d, Len(d) - start - i + 1)]

(* The names dmarcBisTreeWalk asks for, unless a record stops it. *)
walkNames(d) ==
    LET start == IF Len(d) > MaxWalk THEN Len(d) - (MaxWalk - 1) ELSE 1
        more == IF Len(d) - start < MaxWalk - 1 THEN Len(d) - start ELSE MaxWalk - 1 IN
    <<d>> \o [i \in 1 .. more |-> Suffix(d, Len(d) - start - i + 1)]

orgFromRecords(d, records) ==
    LET marked == {i \in DOMAIN records : \/ records[i].tags.psd = "n"
                                          \/ records[i].domain # d /\ records[i].tags.psd = "y"}
        first == CHOOSE i \in marked : \A j \in marked : i <= j IN
    CASE marked = {} -> records[Len(records)].domain
      [] records[first].tags.psd = "n" -> records[first].domain
      [] OTHER -> d     \* labelChild

bisRest == <<authMsg, authPolicy, dmarcLegacy, authResult>>
BisEnds(res) ==
    /\ authStep' = "decide" /\ dmarcBis' = [dmarcBis EXCEPT !.result = res] /\ dmarcWalk' = NoWalk
    /\ UNCHANGED bisRest
Walk(d) == dmarcWalk' = [names |-> walkNames(d), records |-> <<>>] /\ UNCHANGED dmarcBis

(* EvalDMARCbis up to the walk from the Author Domain. *)
EvalDMARCbis ==
    /\ authStep = "bis" /\ UNCHANGED dmarcDNS
    /\ IF author = <<>> THEN BisEnds("permerror")
       ELSE authStep' = "discover" /\ Walk(author) /\ UNCHANGED bisRest

(* The identities in the order of their evaluation: SPF, then the signatures. *)
Identity(k) == IF k = 0 THEN effectiveSPF ELSE authMsg.sigs[k]
Mode(k) == IF k = 0 THEN Or(dmarcBis.tags.aspf, "r") ELSE Or(dmarcBis.tags.adkim, "r")

(* On to the next identity; the first aligned signature is the last one. *)
Aligned(k, yes) ==
    /\ dmarcBis' = [dmarcBis EXCEPT !.aligned = @ \/ yes,
                                    !.sig = IF k > 0 /\ yes THEN Len(authMsg.sigs) + 1 ELSE k + 1]
    /\ dmarcWalk' = NoWalk /\ authStep' = "align" /\ UNCHANGED bisRest

Discovered(records) ==
    IF records = <<>> THEN BisEnds("none")
    ELSE /\ dmarcBis' = [dmarcBis EXCEPT !.domain = records[1].domain, !.org = orgFromRecords(author, records),
                                         !.tags = records[1].tags, !.policy = Or(records[1].tags.p, "none")]
         /\ authStep' = IF records[1].domain = author THEN "align" ELSE "exists"
         /\ dmarcWalk' = NoWalk /\ UNCHANGED bisRest

(* The end of a walk: dmarcBisOrgFromRecords for the author or an identity. *)
WalkEnds(records) ==
    IF authStep = "discover" THEN Discovered(records)
    ELSE LET d == Identity(dmarcBis.sig).domain IN
         Aligned(dmarcBis.sig, dmarcBis.org = IF records = <<>> THEN d ELSE orgFromRecords(d, records))

(* One query of dmarcBisTreeWalk. *)
query ==
    /\ dmarcWalk.names # <<>>
    /\ \/ BisEnds("temperror") /\ UNCHANGED dmarcDNS
       \/ \E ans \in DMARCAnswers(Head(dmarcWalk.names)) : AskDMARC(Head(dmarcWalk.names), ans) /\
            LET valid == SelectSeq(ans.texts, parseDMARCbisRecord)
                one == Len(valid) = 1
                records == IF one THEN Append(dmarcWalk.records, [domain |-> Head(dmarcWalk.names), tags |-> valid[1]])
                           ELSE dmarcWalk.records IN
            IF Len(dmarcWalk.names) = 1 \/ (one /\ valid[1].psd # "") THEN WalkEnds(records)
            ELSE /\ dmarcWalk' = [names |-> Tail(dmarcWalk.names), records |-> records]
                 /\ UNCHANGED <<authStep, dmarcBis, bisRest>>

(* sp for an Author Domain that exists and np for one that does not. *)
dmarcBisDomainExists ==
    /\ authStep = "exists" /\ UNCHANGED dmarcDNS
    /\ \/ BisEnds("temperror")
       \/ \E exists \in BOOLEAN :
            /\ dmarcBis' = [dmarcBis EXCEPT !.policy = Or(IF exists THEN dmarcBis.tags.sp ELSE dmarcBis.tags.np, @)]
            /\ authStep' = "align" /\ UNCHANGED <<dmarcWalk, bisRest>>

(* dmarcBisAligned up to its walk, and after the last identity the result:   *)
(* t=y takes a failed policy one step down.                                  *)
Reduced(policy) == IF policy = "reject" THEN "quarantine" ELSE "none"
dmarcBisAligned ==
    /\ authStep = "align" /\ dmarcWalk = NoWalk /\ UNCHANGED dmarcDNS
    /\ LET k == dmarcBis.sig IN
       IF k > Len(authMsg.sigs)
       THEN /\ dmarcBis' = IF dmarcBis.aligned THEN [dmarcBis EXCEPT !.result = "pass"]
                           ELSE [dmarcBis EXCEPT !.result = "fail",
                                                 !.policy = IF dmarcBis.tags.t = "y" THEN Reduced(@) ELSE @]
            /\ authStep' = "decide" /\ UNCHANGED <<dmarcWalk, bisRest>>
       ELSE IF Identity(k).result # "pass" \/ Identity(k).domain = <<>> THEN Aligned(k, FALSE)
       ELSE IF Mode(k) = "s" THEN Aligned(k, Identity(k).domain = author)
       ELSE Walk(Identity(k).domain) /\ UNCHANGED <<authStep, bisRest>>

-----------------------------------------------------------------------------
spfRejected(r) == r \in {"fail", "softfail", "permerror", "temperror"}
Enforced(policy) == policy \in {"reject", "quarantine"}

(* shouldApplyDMARCPolicy: pct of the messages, by a hash of each. *)
sampledIn == dmarcLegacy.pct >= 100 \/ (dmarcLegacy.pct > 0 /\ authMsg.bucket < dmarcLegacy.pct)

Act(action, reason) == [action |-> action, reason |-> reason]
arcOrAccept ==
    IF authMsg.arc = "fail" /\ authPolicy.arc # "accept" THEN Act(authPolicy.arc, "arc") ELSE Act("accept", "")

legacyAction ==
    IF dmarcLegacy.result = "fail" /\ Enforced(dmarcLegacy.policy)
    THEN IF sampledIn THEN Act(dmarcLegacy.policy, "dmarc") ELSE Act("accept", "sampled out")
    ELSE arcOrAccept

applyDMARCbisPolicy ==
    IF dmarcBis.result = "fail" /\ Enforced(dmarcBis.policy) THEN Act(dmarcBis.policy, "dmarc") ELSE arcOrAccept

(* The last part of EvaluateWithPolicy. *)
EvaluateWithPolicy ==
    /\ authStep = "decide" /\ authStep' = "done"
    /\ authResult' =
         CASE authPolicy.helo = "enforce" /\ spfRejected(spfHelo.result) -> Act("reject", "spf")
           [] authPolicy.mailFrom = "enforce" /\ ~authMsg.nullSender /\ spfRejected(spfMailFrom.result) -> Act("reject", "spf")
           [] Enforcing -> applyDMARCbisPolicy
           [] OTHER -> legacyAction
    /\ UNCHANGED <<authMsg, authPolicy, dmarcDNS, dmarcLegacy, dmarcBis, dmarcWalk>>

(* SplitMessage or ParseHeaders fails: nothing is evaluated. *)
InvalidFormat ==
    /\ authStep = "start" /\ ~authMsg.wellFormed /\ authStep' = "done" /\ authResult' = Act("reject", "format")
    /\ UNCHANGED <<authMsg, authPolicy, dmarcDNS, dmarcLegacy, dmarcBis, dmarcWalk>>

NextMessage ==
    /\ authStep = "done" /\ authStep' = "start" /\ authMsg' \in Messages /\ UNCHANGED authPolicy
    /\ dmarcDNS' = <<>> /\ dmarcLegacy' = NoResult /\ dmarcBis' = NoBis /\ dmarcWalk' = NoWalk /\ authResult' = NotYet

AuthNext ==
    \/ EvalDMARC \/ EvalDMARCAtOrg \/ EvalDMARCbis \/ query \/ dmarcBisDomainExists \/ dmarcBisAligned
    \/ EvaluateWithPolicy \/ InvalidFormat \/ NextMessage
AuthSpec == AuthInit /\ [][AuthNext]_authvars

-----------------------------------------------------------------------------
(* RFC 9989 without a walk: the records that count for a domain are those of *)
(* its suffixes in reach that no record with psd hides.                      *)

ValidAt(x) == IF x \in DOMAIN dmarcDNS THEN SelectSeq(dmarcDNS[x].texts, parseDMARCbisRecord) ELSE <<>>
PublishedAt(x) == Len(ValidAt(x)) = 1
TagsAt(x) == ValidAt(x)[1]
Reach(d) == {d} \cup {Suffix(d, n) : n \in 1 .. (IF Len(d) < MaxWalk THEN Len(d) ELSE MaxWalk) - 1}
Counting(d) == {x \in Reach(d) : PublishedAt(x) /\ \A y \in Reach(d) :
                                    Len(y) > Len(x) => ~(PublishedAt(y) /\ TagsAt(y).psd # "")}
Longest(S) == CHOOSE x \in S : \A y \in S : Len(y) <= Len(x)
Shortest(S) == CHOOSE x \in S : \A y \in S : Len(y) >= Len(x)

Organization(d) ==
    IF Counting(d) = {} \/ TagsAt(Shortest(Counting(d))).psd = "y" THEN d ELSE Shortest(Counting(d))

Passing == {Identity(k).domain : k \in {k \in 0 .. Len(authMsg.sigs) : Identity(k).result = "pass"}} \ {<<>>}
SameOrganization(k, tags) ==
    LET d == Identity(k).domain mode == IF k = 0 THEN tags.aspf ELSE tags.adkim IN
    Identity(k).result = "pass" /\ d # <<>>
        /\ (d = author \/ (mode # "s" /\ Organization(d) = Organization(author)))

(* The dispositions that a record allows, for an author that exists or not. *)
Dispositions(x, tags) ==
    LET p == Or(tags.p, "none")
        asked == IF x = author THEN {p} ELSE {Or(tags.sp, p), Or(tags.np, p)} IN
    IF tags.t = "y" THEN {Reduced(q) : q \in asked} ELSE asked

(* A message with a passing identity of exactly the Author Domain is not     *)
(* refused for DMARC, under either RFC.  With mode enforce and no failed     *)
(* query it is refused for DMARC exactly when the record that counts asks    *)
(* for it and no passing identity is of the author's organization, and then  *)
(* as that record asks; after a failed query it is not refused for DMARC.    *)
VerdictJustified ==
    authStep = "done" /\ authMsg.wellFormed =>
        LET dmarc == authResult.reason = "dmarc" IN
        /\ dmarc => author \notin Passing
        /\ Enforcing /\ dmarcBis.result = "temperror" => ~dmarc
        /\ Enforcing /\ dmarcBis.result # "temperror" /\ author # <<>> /\ authResult.reason # "spf" =>
             IF Counting(author) = {} THEN ~dmarc
             ELSE LET x == Longest(Counting(author))
                      tags == TagsAt(x)
                      authentic == \E k \in 0 .. Len(authMsg.sigs) : SameOrganization(k, tags) IN
                  /\ dmarc => ~authentic /\ authResult.action \in Dispositions(x, tags)
                  /\ ~authentic /\ "none" \notin Dispositions(x, tags) => dmarc
=============================================================================
