\* What happens is chosen in the first state: two transactions are open at once, three
\* dates drawn where members of one team compete, two elsewhere.
CONSTANTS
    ann = ann
    bob = bob
    eve = eve
    red = red
    blue = blue
    User = {ann, bob, eve}
    Team <- MCTeam
    TeamOf <- MCTeamOf
    NoUser = NoUser
    NoChallenge = NoChallenge
    Challenge = {c1}
    Mode = "team"
    BloodRanks = 1
    Request = {r1, r2}
    Kind = {"submit", "hint", "adjust", "void"}
    Reader = {a1}
    Rebuilder = {b1}
    MaxStamps = 3
    MaxDates = 2
    Focus = {"solves", "freeze", "reads", "rebuild"}
SPECIFICATION MCSpec
SYMMETRY MCSymmetry
INVARIANTS
    TypeOK
    OneAwardPerOwner
    PriceOrder
    BloodOrder
    CorrectionsFinal
    FrozenReadsHide
    FreezeSnapshotStable
    FinalComplete
    ScoreAccounted
CHECK_DEADLOCK FALSE
