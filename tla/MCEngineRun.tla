---------------------------- MODULE MCEngineRun ----------------------------
(* Model values for EngineRun: a second step whose candidate never compiles *)
(* shares the run with a step that is trained.                              *)
EXTENDS EngineRun, TLC

CONSTANTS c1, c2, w1, w2, w3, t1, t2

TwoCoordinators == {c1, c2}
OneCoordinator == {c1}
TwoWorkers == {w1, w2}
ThreeWorkers == {w1, w2, w3}
TwoStamps == {t1, t2}
OneStamp == {t1}
Unrejected == {}
SecondRejected == {2}

Symmetry == Permutations(TwoCoordinators) \union Permutations(Workers)
              \union Permutations(TwoStamps)
=============================================================================
