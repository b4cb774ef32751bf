--------------------------- MODULE MCRuntimeJobs ---------------------------
(***************************************************************************)
(* Values of the constants of RuntimeJobs for TLC.                         *)
(***************************************************************************)
EXTENDS RuntimeJobs, TLC

CONSTANTS w1, w2, i1, i2, i3

TwoWorkers     == {w1, w2}
OneWorker      == {w1}
OneInstance    == {i1}
ThreeInstances == {i1, i2, i3}
OneChallenge   == [i \in Instance |-> "c1"]
TwoChallenges  == [i \in Instance |-> IF i = i3 THEN "c2" ELSE "c1"]

TwoJobs   == 1..2
ThreeJobs == 1..3

\* Workers are interchangeable, and so are the instances of one challenge.
Workers   == Permutations(Worker)
Instances == Permutations({i1, i2})
=============================================================================
