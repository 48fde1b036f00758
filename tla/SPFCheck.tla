------------------------------ MODULE SPFCheck ------------------------------
(***************************************************************************)
(* One SPF evaluation (mailauth/spf.go).  evalSPFDomain calls itself for     *)
(* include and redirect: spfStack holds its activations, outermost first,    *)
(* and spfReturn the result of one that has just returned.  A step makes at  *)
(* most one DNS query; its answer is a choice, which stands for the rest of  *)
(* the evaluation.  Macros, addresses and prefixes are data: an argument is  *)
(* a name, or Invalid when its expansion fails, and an address is the        *)
(* client's, in the prefix of the mechanism only ("near"), or another one.   *)
(* The explanation of a fail, which decides nothing, is left out.            *)
(***************************************************************************)
EXTENDS Integers, Sequences, FiniteSets, TLC

CONSTANTS
    SPFDomains, SPFRoot,
    Texts,          \* Texts[d]: the TXT answers d may have
    MXAnswers,      \* the lists of hosts an MX query may return
    PTRAnswers,     \* the lists of names of the client's address
    Below,          \* domainMatches: the pairs of a name and a domain it is under
    Invalid,
    spfMaxDNSLookups, spfMaxVoidLookups,
    MaxIncludeDepth \* the 10 of evalSPFDomain's first test

VARIABLES
    spfStack, spfReturn, spfLookups, spfVoids,
    spfDNS,     \* the answers given so far
    spfLimit    \* history: "" , or whether a limit's error was "reported" or "dropped"

spfvars == <<spfStack, spfReturn, spfLookups, spfVoids, spfDNS, spfLimit>>

Activation(d) == [domain |-> d, record |-> <<>>, term |-> 0, hosts |-> <<>>]

SPFInit ==
    /\ spfStack = <<Activation(SPFRoot)>> /\ spfReturn = "" /\ spfLookups = 0 /\ spfVoids = 0
    /\ spfDNS = <<>> /\ spfLimit = ""

Depth == Len(spfStack)
Top == spfStack[Depth]
Terms == Top.record[1].terms
Term == Terms[Top.term]
InTerm == spfReturn = "" /\ Depth > 0 /\ Top.term > 0 /\ Top.term <= Len(Terms) /\ Top.hosts = <<>>
counters == <<spfLookups, spfVoids, spfDNS, spfLimit>>

Yield(res) == spfReturn' = res /\ spfStack' = SubSeq(spfStack, 1, Depth - 1)
Go(activation) == spfReturn' = "" /\ spfStack' = [spfStack EXCEPT ![Depth] = activation]
NextTerm == Go([Top EXCEPT !.term = @ + 1, !.hosts = <<>>])
Call(d) == spfReturn' = "" /\ spfStack' = Append(spfStack, Activation(d))

qualifierResult(q) ==
    CASE q = "-" -> "fail" [] q = "~" -> "softfail" [] q = "?" -> "neutral" [] OTHER -> "pass"
Settle(match) == IF match THEN Yield(qualifierResult(Term.qualifier)) ELSE NextTerm

(* An error ends the activation: the limits' as permerror, the resolver's as *)
(* temperror.                                                                *)
Abort(err) ==
    /\ Yield(IF err = "limit" THEN "permerror" ELSE "temperror")
    /\ spfLimit' = IF err = "limit" THEN "reported" ELSE spfLimit

Answers(q) ==
    {[err |-> TRUE, list |-> <<>>]} \cup
    {[err |-> FALSE, list |-> l] : l \in
        CASE q[1] = "TXT" -> Texts[q[2]]
          [] q[1] = "MX" -> MXAnswers
          [] q[1] = "PTR" -> PTRAnswers
          [] OTHER -> {<<>>, <<"client">>, <<"near">>, <<"far">>}}

(* lookupTXT, lookupIP, lookupMX and lookupAddr: consumeLookup before the    *)
(* query, consumeVoid after an empty answer.                                 *)
Reply(q, ans) ==
    LET void == ~ans.err /\ ans.list = <<>>
        voids == spfVoids + (IF void THEN 1 ELSE 0) IN
    [err |-> CASE ans.err -> "resolver" [] void /\ voids > spfMaxVoidLookups -> "limit" [] OTHER -> "",
     list |-> ans.list, voids |-> voids, dns |-> (q :> ans) @@ spfDNS]
Replies(q) ==
    IF spfLookups + 1 > spfMaxDNSLookups
    THEN {[err |-> "limit", list |-> <<>>, voids |-> spfVoids, dns |-> spfDNS]}
    ELSE {Reply(q, ans) : ans \in IF q \in DOMAIN spfDNS THEN {spfDNS[q]} ELSE Answers(q)}
Lookup(r) == spfLookups' = spfLookups + 1 /\ spfVoids' = r.voids /\ spfDNS' = r.dns

lookupSPFRecord(r) ==
    LET records == SelectSeq(r.list, LAMBDA x : x.spf) IN
    IF r.err # "" THEN Abort(r.err)
    ELSE /\ UNCHANGED spfLimit
         /\ CASE Len(records) > 1 -> Yield("permerror")
              [] Len(records) = 0 -> Yield("none")
              [] ~records[1].header -> Yield("permerror")
              [] OTHER -> Go([Top EXCEPT !.record = records, !.term = 1])

(* evalSPFDomain up to the first term. *)
enterDomain ==
    /\ spfReturn = "" /\ Depth > 0 /\ Top.term = 0
    /\ IF Depth - 1 > MaxIncludeDepth \/ \E i \in 1 .. Depth - 1 : spfStack[i].domain = Top.domain
       THEN Yield("permerror") /\ UNCHANGED counters
       ELSE \E r \in Replies(<<"TXT", Top.domain>>) : Lookup(r) /\ lookupSPFRecord(r)

host == IF Term.arg = "" THEN Top.domain ELSE Term.arg
Expanded == {"a", "mx", "include", "exists", "ptr"}
Queried(name) == InTerm /\ Term.name = name /\ Term.arg # Invalid

(* The terms that ask nothing; an unknown one is skipped. *)
MatchLocally ==
    /\ InTerm /\ UNCHANGED counters
    /\ CASE Term.name \in Expanded -> /\ Term.arg = Invalid \/ (Term.arg = "" /\ Term.name \in {"include", "exists"})
                                      /\ IF Term.arg = Invalid THEN Yield("permerror") ELSE NextTerm
         [] Term.name = "all" -> Settle(TRUE)
         [] Term.name = "ip" -> IF Term.arg = Invalid THEN Yield("temperror") ELSE Settle(Term.arg = "client")
         [] OTHER -> NextTerm

Matches(ips, prefix) == \E i \in DOMAIN ips : ips[i] = "client" \/ (prefix /\ ips[i] = "near")

matchHostIPs ==
    Queried("a") /\ \E r \in Replies(<<"A", host>>) : Lookup(r) /\
        IF r.err # "" THEN Abort(r.err) ELSE Settle(Matches(r.list, Term.prefix)) /\ UNCHANGED spfLimit

matchExists ==
    Queried("exists") /\ Term.arg # "" /\ \E r \in Replies(<<"A", Term.arg>>) : Lookup(r) /\
        IF r.err # "" THEN Abort(r.err) ELSE Settle(r.list # <<>>) /\ UNCHANGED spfLimit

Try(hosts) == (IF hosts = <<>> THEN NextTerm ELSE Go([Top EXCEPT !.hosts = hosts])) /\ UNCHANGED spfLimit

matchMX ==
    Queried("mx") /\ \E r \in Replies(<<"MX", host>>) : Lookup(r) /\
        IF r.err # "" THEN Abort(r.err) ELSE Try(r.list)

matchPTR ==
    Queried("ptr") /\ \E r \in Replies(<<"PTR", "client">>) : Lookup(r) /\
        IF r.err # "" THEN Abort(r.err) ELSE Try(SelectSeq(r.list, LAMBDA n : <<n, host>> \in Below))

(* The addresses of one host of an mx, or of one name of a ptr.  Any error,  *)
(* a limit's included, only moves on to the next.                            *)
TryHost ==
    /\ spfReturn = "" /\ Depth > 0 /\ Top.hosts # <<>>
    /\ \E r \in Replies(<<"A", Head(Top.hosts)>>) :
         /\ Lookup(r)
         /\ spfLimit' = IF r.err = "limit" THEN "dropped" ELSE spfLimit
         /\ CASE r.err = "" /\ Matches(r.list, Term.name = "mx" /\ Term.prefix) -> Settle(TRUE)
              [] Len(Top.hosts) = 1 -> NextTerm
              [] OTHER -> Go([Top EXCEPT !.hosts = Tail(@)])

include == Queried("include") /\ Term.arg # "" /\ Call(Term.arg) /\ UNCHANGED counters

(* Behind the last term: redirect, wherever it stands in the record. *)
redirect ==
    /\ spfReturn = "" /\ Depth > 0 /\ Top.term > 0 /\ Top.term > Len(Terms) /\ UNCHANGED counters
    /\ LET target == Top.record[1].redirect IN
       CASE target = "" -> Yield("neutral") [] target = Invalid -> Yield("permerror") [] OTHER -> Call(target)

ResumeAsRedirect ==
    /\ spfReturn # "" /\ Depth > 0 /\ UNCHANGED counters
    /\ IF spfReturn \in {"none", "neutral"} /\ Top.term <= Len(Terms) THEN NextTerm
       ELSE Yield(IF spfReturn = "none" THEN "permerror" ELSE spfReturn)

(* The caller goes on with the result of an include or a redirect. *)
Resume ==
    /\ spfReturn # "" /\ Depth > 0 /\ UNCHANGED counters
    /\ IF Top.term > Len(Terms) THEN Yield(IF spfReturn = "none" THEN "permerror" ELSE spfReturn)
       ELSE CASE spfReturn = "pass" -> Settle(TRUE)
              [] spfReturn \in {"permerror", "temperror"} -> Yield(spfReturn)
              [] OTHER -> NextTerm

Evaluated == spfReturn # "" /\ Depth = 0

(* The next message: EvalSPFMailFrom and EvalSPFHelo start from a new state. *)
EvalSPF ==
    /\ Evaluated /\ spfStack' = <<Activation(SPFRoot)>> /\ spfReturn' = "" /\ spfLookups' = 0 /\ spfVoids' = 0
    /\ spfDNS' = <<>> /\ spfLimit' = ""

SPFNext ==
    \/ enterDomain \/ MatchLocally \/ matchHostIPs \/ matchExists \/ matchMX \/ matchPTR \/ TryHost
    \/ include \/ redirect \/ Resume \/ EvalSPF
SPFSpec == SPFInit /\ [][SPFNext]_spfvars

-----------------------------------------------------------------------------
(* check_host without limits, without a stack and without an order of        *)
(* queries: the first term that does not fail to match decides.  check[n]    *)
(* gives up n activations deep; a cycle is deep at any n.                    *)

Known(kind, name) ==
    IF <<kind, name>> \in DOMAIN spfDNS THEN spfDNS[<<kind, name>>] ELSE [err |-> FALSE, list |-> <<>>]

AnyHost(names, prefix) == \E i \in DOMAIN names : ~Known("A", names[i]).err /\ Matches(Known("A", names[i]).list, prefix)

(* What term t says of a client: "no", or the result it decides on. *)
Outcome(t, d, sub) ==
    LET at == IF t.arg = "" THEN d ELSE t.arg
        hit == qualifierResult(t.qualifier)
        Asked(ans, match) == CASE ans.err -> "temperror" [] match -> hit [] OTHER -> "no" IN
    CASE t.name = "all" -> hit
      [] t.name = "ip" -> CASE t.arg = Invalid -> "temperror" [] t.arg = "client" -> hit [] OTHER -> "no"
      [] t.name \in Expanded /\ t.arg = Invalid -> "permerror"
      [] t.name = "a" -> Asked(Known("A", at), Matches(Known("A", at).list, t.prefix))
      [] t.name = "exists" /\ t.arg # "" -> Asked(Known("A", at), Known("A", at).list # <<>>)
      [] t.name = "mx" -> Asked(Known("MX", at), AnyHost(Known("MX", at).list, t.prefix))
      [] t.name = "ptr" -> LET names == Known("PTR", "client") IN
             Asked(names, AnyHost(SelectSeq(names.list, LAMBDA n : <<n, at>> \in Below), FALSE))
      [] t.name = "include" /\ t.arg # "" ->
             CASE sub[at] = "pass" -> hit [] sub[at] \in {"permerror", "temperror"} -> sub[at] [] OTHER -> "no"
      [] OTHER -> "no"

Verdict(d, sub) ==
    LET txt == Known("TXT", d)
        records == SelectSeq(txt.list, LAMBDA x : x.spf)
        r == records[1]
        deciding == {i \in DOMAIN r.terms : Outcome(r.terms[i], d, sub) # "no"} IN
    CASE txt.err -> "temperror"
      [] Len(records) = 0 -> "none"
      [] Len(records) > 1 \/ ~r.header -> "permerror"
      [] deciding # {} -> Outcome(r.terms[CHOOSE i \in deciding : \A j \in deciding : i <= j], d, sub)
      [] r.redirect = "" -> "neutral"
      [] r.redirect = Invalid \/ sub[r.redirect] = "none" -> "permerror"
      [] OTHER -> sub[r.redirect]

check[n \in 0 .. Cardinality(SPFDomains)] ==
    [d \in SPFDomains |-> IF n = 0 THEN "permerror" ELSE Verdict(d, check[n - 1])]
checkHost == check[Cardinality(SPFDomains)][SPFRoot]

(* Once an evaluation has ended: within the limits its result is the one the *)
(* published records define, whatever the nesting of include and redirect;   *)
(* a limit's error that is not dropped at a host of an mx or a ptr makes it  *)
(* permerror.  At any time there are no more queries than lookups allowed,   *)
(* and never so many activations that the limit on their depth decides.      *)
SPFAsPublished ==
    /\ Evaluated => /\ spfLimit # "reported" /\ spfLookups <= spfMaxDNSLookups => spfReturn = checkHost
                    /\ spfLimit = "reported" => spfReturn = "permerror"
    /\ Cardinality(DOMAIN spfDNS) <= spfMaxDNSLookups /\ Depth <= MaxIncludeDepth + 1
=============================================================================
