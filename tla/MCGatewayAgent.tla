--------------------------- MODULE MCGatewayAgent ----------------------------
(* GatewayAgent on small instances. *)
EXTENDS GatewayAgent, TLC

CONSTANTS publish, expose, n1, n2

TopicAndService == {publish, expose}
OnlyService     == {expose}
TwoNames        == {n1, n2}
OneName         == {n1}
=============================================================================
