---------------------------- MODULE SharedHandles ----------------------------
(***************************************************************************)
(* What the node manager promises the bridges (gateway connections) that    *)
(* share its ROS node: a ROS handle per key is opened for the first bridge  *)
(* that asks for it, shared by all who ask, and closed when the last user   *)
(* has gone.  The node may fail once, taking all handles with it.           *)
(* NodeManager implements this specification twice, with its publishers and *)
(* with its subscriptions.                                                  *)
(***************************************************************************)
CONSTANTS Bridges, \* who asks for handles
          Keys     \* what a handle is opened for

VARIABLES users,   \* users[k]: the bridges that use the handle of k
          open,    \* the keys whose handle is open
          failed   \* the node is gone

vars == <<users, open, failed>>

Init == /\ users = [k \in Keys |-> {}]
        /\ open = {}
        /\ failed = FALSE

\* The keys that would be in use under u.
InUse(u) == {k \in Keys : u[k] # {}}

\* The users change, and the node opens and closes handles to match.
ChangeUsers(u) ==
    /\ users' = u
    /\ open' = IF failed THEN {} ELSE InUse(u)
    /\ UNCHANGED failed

Acquire(b, k) == ChangeUsers([users EXCEPT ![k] = @ \cup {b}])
Release(b, k) == ChangeUsers([users EXCEPT ![k] = @ \ {b}])
Leave(b)      == ChangeUsers([k \in Keys |-> users[k] \ {b}])

Fail == /\ open' = {}
        /\ failed' = TRUE
        /\ UNCHANGED users

Next == \/ \E b \in Bridges, k \in Keys : Acquire(b, k) \/ Release(b, k)
        \/ \E b \in Bridges : Leave(b)
        \/ Fail

Spec == Init /\ [][Next]_vars
=============================================================================
