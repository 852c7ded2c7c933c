---------------------------- MODULE LossyChannel -----------------------------
(***************************************************************************)
(* What a bridged topic promises whoever publishes on one side and          *)
(* subscribes on the other: as long as the channel is open messages arrive   *)
(* in the order they were given, each at most once, in a form that is        *)
(* allowed for it.  Any may be lost on the way; one that was overtaken by    *)
(* one that has arrived does not arrive any more, and none does once the     *)
(* channel has broken.  TopicRelay implements this specification.            *)
(***************************************************************************)
EXTENDS Naturals, Sequences

CONSTANTS Values,    \* what may be given
          ArrivesAs  \* ArrivesAs[v]: the forms in which v may arrive

VARIABLES given,     \* the values given
          arrived,   \* the values that have arrived, with their numbers in given
          open       \* can anything still arrive?

vars == <<given, arrived, open>>

Init == given = <<>> /\ arrived = <<>> /\ open = TRUE

Give(v) ==
    /\ given' = Append(given, v)
    /\ UNCHANGED <<arrived, open>>

\* The n-th value may still arrive.
Pending(n) == open /\ \A i \in DOMAIN arrived : arrived[i].n < n

Deliver(n, v) ==
    /\ Pending(n)
    /\ arrived' = Append(arrived, [n |-> n, value |-> v])
    /\ UNCHANGED <<given, open>>

Break ==
    /\ open
    /\ open' = FALSE
    /\ UNCHANGED <<given, arrived>>

Next == \/ \E v \in Values : Give(v)
        \/ \E n \in DOMAIN given : \E v \in ArrivesAs[given[n]] : Deliver(n, v)
        \/ Break

Spec == Init /\ [][Next]_vars
=============================================================================
