--------------------------- MODULE MCServiceProxy ----------------------------
(* ServiceProxy on small instances. *)
EXTENDS ServiceProxy, TLC

CONSTANTS b1, b2, c1, c2

TwoBridges == {b1, b2}
OneBridge  == {b1}
OneCall    == {c1}
TwoCalls   == {c1, c2}

BridgeAndCallSymmetry == Permutations(TwoBridges) \cup Permutations(TwoCalls)
=============================================================================
