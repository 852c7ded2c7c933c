--------------------------- MODULE MCRosWsGateway ----------------------------
(* RosWsGateway on small instances. *)
EXTENDS RosWsGateway, TLC

CONSTANTS b1, b2, t1, refused, tyA, tyB, tyU

MCBridges == {b1, b2}
OneBridge == {b1}

BridgeSymmetry == Permutations(MCBridges)

\* Bound: the agent has queued commands for one gateway at a time.
OneBatch == \A b, c \in Bridges : b # c => batch_queue[b] = <<>> \/ batch_queue[c] = <<>>
=============================================================================
