\* Two super administrators, and two removals of the role at once.
CONSTANTS
    u1 = u1
    u2 = u2
    User = {u1, u2}
    Request = {r1, r2}
    Supers <- MCBoth
    Kinds = {"remove"}
    MaxEvents = 4
    Person = {p1}
    Address = {a1, a2}
    NoAddress = NoAddress
    Call = {c1, c2}
    Dispatcher = {d1, d2}
    MaxAttempts = 2
    MaxLinks = 3
    MaxClaims = 2
    Caller = {q1, q2}
    Member = {m1, m2}
    ActsFor <- MCActsFor
    Quota <- MCQuota
    Owner = {t1}
    Challenge = {x1, x2}
    Key = {k1}
    Operations = {"start", "stop", "reset"}
    MaxInstances = 2
    Focus = {"sessions"}
SPECIFICATION MCSpec
SYMMETRY MCSymmetry
CHECK_DEADLOCK FALSE
INVARIANT SomeSuperAdmin
