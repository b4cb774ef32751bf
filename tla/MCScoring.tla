----------------------------- MODULE MCScoring -----------------------------
(* Scoring for TLC: two teams, one of which has two members.  Focus says      *)
(* what a behaviour is about: solves and the events that are voided, the      *)
(* freeze and the settlement against all who write, a reader of the public    *)
(* board, or the rebuild of the derived scores, which no reader and no change *)
(* of the status looks at.                                                    *)
EXTENDS Scoring, TLC

CONSTANTS ann, bob, eve, red, blue,
          Focus,     \* bound: what may happen
          MaxDates   \* bound: timestamps drawn where three are not needed

VARIABLE focus

MCTeam   == {red, blue}
MCTeamOf == [u \in User |-> IF u = eve THEN blue ELSE red]

MCInit == Init /\ focus \in Focus

Asked(kinds) == \A r \in Request : pc'[r] # "idle" => req'[r].kind \in kinds
OneEach == clock' <= MaxDates /\ \A r \in Request : req'[r].user # bob

SolvesOnly == UNCHANGED <<rebuild, asks>> /\ Asked({"submit", "void"})
FreezeOnly == UNCHANGED <<rebuild, asks>> /\ Asked({"submit", "hint", "adjust"}) /\ OneEach
ReadsOnly == UNCHANGED rebuild /\ Asked({"submit"}) /\ OneEach
RebuildOnly == UNCHANGED <<boardVars, asks>> /\ Asked({"submit", "hint", "void"}) /\ OneEach

MCNext ==
    /\ Next
    /\ focus = "solves" => SolvesOnly
    /\ focus = "freeze" => FreezeOnly
    /\ focus = "reads" => ReadsOnly
    /\ focus = "rebuild" => RebuildOnly
    /\ UNCHANGED focus

MCSpec == MCInit /\ [][MCNext]_<<vars, focus>>

\* Transactions are interchangeable, and so are the members of a team.
MCSymmetry == Permutations(Request) \cup IF bob \in User THEN Permutations({ann, bob}) ELSE {}
=============================================================================
