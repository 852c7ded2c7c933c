---------------------------- MODULE MCRemoteCalls ----------------------------
(* RemoteCalls on small instances: two robots that call each other. *)
EXTENDS RemoteCalls, TLC

CONSTANTS p1, p2, c1, c2, c3

Pair       == {p1, p2}
PairTarget == (p1 :> p2) @@ (p2 :> p1)

\* They call each other's services.
PairKind   == [p \in Pair |-> "service"]

\* The first sends the other one goals, and offers it a service.
CrossKind  == (p1 :> "service") @@ (p2 :> "action")

TwoCalls   == {c1, c2}
ThreeCalls == {c1, c2, c3}
=============================================================================
