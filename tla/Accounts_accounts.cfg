\* Two requests of one user: tokens and versions together up to four; two calls
\* about two links between two addresses, or about the addresses of two people of which
\* there are three; two dispatchers; two members of a team that may have one instance,
\* of two challenges.
CONSTANTS
    u1 = u1
    u2 = u2
    User = {u1}
    Request = {r1, r2}
    Supers <- MCNone
    Kinds = {"grant", "ban"}
    MaxEvents = 4
    Person = {p1, p2}
    Address = {a1, a2, a3}
    NoAddress = NoAddress
    Call = {c1, c2}
    Dispatcher = {d1, d2}
    MaxAttempts = 2
    MaxLinks = 4
    MaxClaims = 2
    Caller = {q1, q2}
    Member = {m1, m2}
    ActsFor <- MCActsFor
    Quota <- MCQuota
    Owner = {t1}
    Challenge = {x1, x2}
    Key = {k1}
    Operations = {"start", "stop", "reset"}
    MaxInstances = 2
    Focus = {"sessions", "logins", "links", "taken", "outbox", "quota", "retries"}
SPECIFICATION MCSpec
SYMMETRY MCSymmetry
CHECK_DEADLOCK FALSE
INVARIANTS
    ClaimsCurrent
    RevocationHolds
    OneUsablePerFamily
    LinksSound
    MailHonest
    AdmissionSound
PROPERTIES
    VerdictsSound
