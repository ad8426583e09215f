----------------------------- MODULE MCCampaign -----------------------------
(* Model values for Campaign: one case of two systems, one of them without  *)
(* a resume contract, or two cases of one system.                           *)
EXTENDS Campaign, TLC

CONSTANTS c1, c2, g1, g2, k1, k2

TwoControllers == {c1, c2}
OneController == {c1}
TwoGroups == {g1, g2}
OneCaseTwoSystems == <<k1, k1>>
TwoCases == <<k1, k2>>
SecondUnresumable == {2}
AllResumable == {}
NoFilter == {None}
SecondOrAll == {None, k2}

Symmetry == Permutations(TwoControllers) \union Permutations(TwoGroups)
=============================================================================
