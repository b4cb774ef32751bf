CONSTANTS
    ann = ann
    bob = bob
    eve = eve
    red = red
    blue = blue
    User = {ann}
    Team <- MCTeam
    TeamOf <- MCTeamOf
    NoUser = NoUser
    NoChallenge = NoChallenge
    Challenge = {c1}
    Mode = "team"
    BloodRanks = 1
    Request = {r1}
    Kind = {"submit"}
    Reader = {}
    Rebuilder = {b1}
    MaxStamps = 1
    MaxDates = 1
    Focus = {"rebuild"}
SPECIFICATION MCSpec
SYMMETRY MCSymmetry
INVARIANTS
    DerivedExact
CHECK_DEADLOCK FALSE
