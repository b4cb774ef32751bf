\* What moves is chosen in the first state; two calls are open at once.
CONSTANTS
    Player = {p1, p2, p3}
    NoPlayer = NoPlayer
    Team = {t1, t2}
    NoTeam = NoTeam
    Competition = {c1}
    Limits = {2, 3}
    Sizes <- MCSizes
    Request = {r1, r2}
    Editor = {q1, q2}
    MaxPending = 1
    Challenge = {x1, x2}
    Contest = {k1}
    File = {f1, f2}
    Path = {w1}
    Foundation = w1
    MaxVersion = 2
    MaxEdition = 2
    Client = {e1, e2}
    Asset = {a1}
    Object = {o1, o2, o3}
    NoObject = NoObject
    Slot = {s1}
    Binding = {b1, b2, b3}
    Writeup = {d1}
    Text = {"old", "new"}
    User = {u1, u2}
    Focus = {"members", "rosters", "pool", "paths", "files", "assets", "shown", "writeups"}
SPECIFICATION MCSpec
SYMMETRY MCSymmetry
CHECK_DEADLOCK FALSE
INVARIANTS
    MembersSound
    RosterSound
    ContentSound
    FilesServed
    ShownSound
    WriteupsSound
PROPERTIES
    AdminPathsKept
