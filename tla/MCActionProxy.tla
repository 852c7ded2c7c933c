---------------------------- MODULE MCActionProxy ----------------------------
(* ActionProxy on small instances. *)
EXTENDS ActionProxy, TLC

CONSTANTS b1, b2, g1, g2

TwoBridges == {b1, b2}
OneBridge  == {b1}
TwoGoals   == {g1, g2}

BridgeAndGoalSymmetry == Permutations(TwoBridges) \cup Permutations(TwoGoals)
=============================================================================
