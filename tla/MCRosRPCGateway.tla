--------------------------- MODULE MCRosRPCGateway ---------------------------
(* The node manager under gateways and REST clients, on small instances. *)
EXTENDS RosRPCGateway, TLC

CONSTANTS b1, r1, t1, refused, tyA, tyB, tyU, u1, u2

MCBridges == {b1, r1}
MCClients == {r1}
MCTypes   == {tyA, tyB, tyU}

\* One name ROS accepts and one it refuses.
MixedTopics == {t1, refused}

\* Rules that work, clash with a gateway, change a type, subscribe a name ROS
\* refuses, publish on one, name a type nobody defines, and name another service.
MCRules == { [in |-> t1, out |-> t1, uri |-> u1, req |-> tyA, resp |-> tyA],
             [in |-> t1, out |-> t1, uri |-> u1, req |-> tyA, resp |-> tyB],
             [in |-> refused, out |-> t1, uri |-> u1, req |-> tyA, resp |-> tyA],
             [in |-> t1, out |-> refused, uri |-> u1, req |-> tyA, resp |-> tyA],
             [in |-> t1, out |-> t1, uri |-> u1, req |-> tyU, resp |-> tyA],
             [in |-> t1, out |-> t1, uri |-> u2, req |-> tyA, resp |-> tyA] }
=============================================================================
