SPECIFICATION ISpec
CONSTANTS
    Users = {"u", "v"}
    Senders = {"s", "t"}
    Allowed <- Scopes
    Local = {"l"}
    Foreign = {"f"}
    Unknown = {"x"}
    MaxRecipients = 2
    MaxAuthFailures = 2
    MaxRcptFailures = 2
    MaxMessages = 2
    Configs <- Listeners
    NoUser = NoUser
    NoMessage = NoMessage
    c1 = c1
    c2 = c2
    c3 = c3
    a1 = a1
    a2 = a2
    q1 = q1
    q2 = q2
    Conns = {c1, c2, c3}
    IPs = {a1, a2}
    TrustedPeers = {a1}
    MaxConnections = 2
    MaxConnectionsPerIP = 1
    Nowhere = Nowhere
    Calls = {q1, q2}
    Rules <- TwoRules
    Froms = {"s", "t"}
    Delay = 1
    LastTime = 4
    Clients = {"c1", "c2"}
    HKeys = {"k"}
    Payloads = {"p", "q"}
    TTL = 2
    RatePerMinute = 2
    Minute = 2
    HMaxTime = 4
    SPFDomains = {"d", "e"}
    SPFRoot = "d"
    Texts <- Zone
    MXAnswers <- MailHosts
    PTRAnswers <- Reverse
    Below <- Under
    Invalid = "%"
    spfMaxDNSLookups = 4
    spfMaxVoidLookups = 1
    MaxIncludeDepth = 4
    Messages <- Mails
    AuthPolicies <- ThePolicies
    DMARCTexts <- DMARCZone
    TwoLevelPSL <- Suffixes
    MaxWalk = 3
INVARIANT MailLeadsToRcpt
SYMMETRY Symmetry
