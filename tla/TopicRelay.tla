----------------------------- MODULE TopicRelay ------------------------------
(***************************************************************************)
(* A topic from one process to another: ros_ws_gateway.py at both ends of a *)
(* connection, the commands pub, unadv, sub and unsub of batch_cmd, the     *)
(* handlers they reach, and the way of a message from the ROS thread of the *)
(* sender to the publisher of the receiver.                                 *)
(*                                                                          *)
(* Either end's agent may ask for the topic or withdraw it, at any time and *)
(* without knowing of the other.  The wire keeps the order of frames, in    *)
(* each direction; a message is on the ROS thread, then with the loop, then *)
(* on the wire, and what it meets at the receiver may have changed.         *)
(***************************************************************************)
EXTENDS Conversion

CONSTANTS Samples,     \* the messages on the topic, pairs of a type and a value
          Compressions,\* what a publish rule may give as compression
          MaxCommands, \* bound: commands of both agents
          MaxMessages  \* bound: messages published on the sender's topic

\* The compressions that _send_mesg_data tells apart; it raises on the last one.
Codecs == {"text", "js-buffer", "cbor", "cbor-raw", "zip", "unknown"}

ASSUME RelayAssumption ==
    /\ Samples \subseteq Typed
    /\ Compressions \subseteq Codecs
    /\ MaxCommands \in Nat /\ MaxMessages \in Nat

VARIABLES type,      \* of the topic
          conn,      \* is the connection up?
          sub,       \* the sender's subscription: its codec, or "none"
          raw,       \* is it a subscription to serialized messages?
          queue,     \* messages the ROS thread of the sender has to take
          outbox,    \* the frames that thread has handed to the loop
          waits,     \* does it wait to see its last frame sent?
          wire,      \* the frames to the receiver
          requests,  \* the frames to the sender
          adv,       \* has the receiver the topic in published_topic?
          out,       \* the messages the receiver has published
          dead,      \* has the ROS thread of the sender ended?
          commands, published,
          given,     \* history: the messages the subscription has been given
          withdrawn  \* history: has either agent withdrawn the topic?

bounds == <<commands, published>>
ends   == <<sub, raw, queue, adv>>
frames == <<conn, outbox, waits, wire, requests>>
vars   == <<type, frames, ends, out, dead, bounds, given, withdrawn>>

-----------------------------------------------------------------------------
Init ==
    /\ type \in {s[1] : s \in Samples}
    /\ conn = TRUE
    /\ sub = "none" /\ raw = FALSE
    /\ queue = <<>> /\ outbox = <<>> /\ waits = FALSE
    /\ wire = <<>> /\ requests = <<>>
    /\ adv = FALSE /\ out = <<>>
    /\ dead = FALSE
    /\ commands = 0 /\ published = 0
    /\ given = <<>> /\ withdrawn = FALSE

\* A subscription stays raw, or not, for as long as the bridge keeps it; only
\* its codec changes.
Subscribe(codec) ==
    /\ sub' = codec
    /\ raw' = IF sub = "none" THEN codec = "cbor-raw" ELSE raw

Unsubscribe == sub' = "none" /\ raw' = FALSE /\ queue' = <<>>

-----------------------------------------------------------------------------
(***************************************************************************)
(* The commands of the agents                                               *)
(***************************************************************************)
Command(withdraws) ==
    /\ conn
    /\ commands < MaxCommands
    /\ commands' = commands + 1
    /\ withdrawn' = (withdrawn \/ withdraws)
    /\ UNCHANGED <<type, conn, outbox, waits, out, dead, published, given>>

\* Seeded bug: the codec goes by the name of the flag.
CodecByFlag(compression, israw) == IF israw THEN "israw" ELSE compression

Codec(compression, israw) == IF israw THEN "cbor-raw" ELSE compression

\* 'pub': the own node subscribes before the peer is told; no message comes
\* between the two, the loop does not give way.
BatchPub(compression, israw) ==
    /\ Command(FALSE)
    /\ Subscribe(Codec(compression, israw))
    /\ wire' = Append(wire, [op |-> "advertise"])
    /\ UNCHANGED <<queue, requests, adv>>

\* 'unadv': nothing is sent when the node has no such subscription.
BatchUnadv ==
    /\ Command(TRUE)
    /\ sub # "none"
    /\ Unsubscribe
    /\ wire' = Append(wire, [op |-> "unadvertise"])
    /\ UNCHANGED <<requests, adv>>

\* Seeded bug: the topic is asked for, but not advertised by the own node.
BatchSubWithoutAdvertise(israw) ==
    /\ Command(FALSE)
    /\ requests' = Append(requests, [op |-> "subscribe", codec |-> Codec("text", israw)])
    /\ UNCHANGED <<sub, raw, queue, adv, wire>>

\* 'sub': the own node advertises before the peer is asked.
BatchSub(israw) ==
    /\ Command(FALSE)
    /\ adv' = TRUE
    /\ requests' = Append(requests, [op |-> "subscribe", codec |-> Codec("text", israw)])
    /\ UNCHANGED <<sub, raw, queue, wire>>

BatchUnsub ==
    /\ Command(TRUE)
    /\ adv
    /\ adv' = FALSE
    /\ requests' = Append(requests, [op |-> "unsubscribe"])
    /\ UNCHANGED <<sub, raw, queue, wire>>

-----------------------------------------------------------------------------
(***************************************************************************)
(* The sender                                                               *)
(***************************************************************************)
\* Somebody publishes on the sender's side.
Publish(m) ==
    /\ published < MaxMessages
    /\ published' = published + 1
    /\ IF sub = "none" \/ dead THEN UNCHANGED <<queue, given>>
       ELSE /\ given' = Append(given, m)
            /\ queue' = Append(queue, [n |-> Len(given'), value |-> m])
    /\ UNCHANGED <<type, frames, sub, raw, adv, out, dead, commands, withdrawn>>

Frame(m) == [op |-> "publish", m |-> m, codec |-> sub, raw |-> raw]

\* Seeded bug: a message that comes while another one is sent is thrown away.
TakeMessageOrDrop ==
    /\ ~dead /\ queue # <<>>
    /\ queue' = Tail(queue)
    /\ outbox' = IF waits THEN outbox ELSE Append(outbox, Frame(Head(queue)))
    /\ waits' = TRUE
    /\ UNCHANGED <<type, conn, wire, requests, sub, raw, adv, out, dead, bounds, given, withdrawn>>

\* The callback converts the message and hands the frame to the loop.  A codec
\* that nobody knows raises, which ends the ROS thread.
TakeMessage ==
    /\ ~dead /\ ~waits /\ queue # <<>>
    /\ IF sub = "unknown" THEN dead' = TRUE /\ queue' = <<>> /\ UNCHANGED <<outbox, waits>>
       ELSE /\ outbox' = Append(outbox, Frame(Head(queue)))
            /\ waits' = TRUE
            /\ queue' = Tail(queue)
            /\ UNCHANGED dead
    /\ UNCHANGED <<type, conn, wire, requests, sub, raw, adv, out, bounds, given, withdrawn>>

\* Seeded bug: each frame is sent by a thread of its own, in any order.
SendAnyFrame ==
    /\ \E i \in DOMAIN outbox :
          /\ wire' = IF conn THEN Append(wire, outbox[i]) ELSE wire
          /\ outbox' = SubSeq(outbox, 1, i - 1) \o SubSeq(outbox, i + 1, Len(outbox))
          /\ waits' = (waits /\ i < Len(outbox))
    /\ UNCHANGED <<type, conn, requests, ends, out, dead, bounds, given, withdrawn>>

\* The loop comes to the first frame.  Sending on a connection that is down
\* raises, within the coroutine.
SendFrame ==
    /\ outbox # <<>>
    /\ wire' = IF conn THEN Append(wire, Head(outbox)) ELSE wire
    /\ outbox' = Tail(outbox)
    /\ waits' = (waits /\ Len(outbox) > 1)
    /\ UNCHANGED <<type, conn, requests, ends, out, dead, bounds, given, withdrawn>>

\* Seeded bug: the message is put back to be sent again.
RetryAfterTimeout ==
    /\ waits
    /\ waits' = FALSE
    /\ queue' = <<outbox[Len(outbox)].m>> \o queue
    /\ UNCHANGED <<type, conn, outbox, wire, requests, sub, raw, adv, out, dead, bounds, given,
                   withdrawn>>

\* _run_async_func waits for a second and goes on.  It cancels what it waits for,
\* but the loop starts the coroutine before it hears of that, and the coroutine
\* writes its frame before it first gives way: the frame is sent all the same.
SendTimesOut ==
    /\ waits
    /\ waits' = FALSE
    /\ UNCHANGED <<type, conn, outbox, wire, requests, ends, out, dead, bounds, given, withdrawn>>

\* An exception of a handler ends the connection.
BreakIf(raises) ==
    /\ conn' = ~raises
    /\ IF raises THEN wire' = <<>> /\ requests' = <<>> ELSE UNCHANGED wire

\* subscribe and unsubscribe frames; a subscription that is not there raises.
OnRequest ==
    /\ conn /\ requests # <<>>
    /\ \/ /\ Head(requests).op = "subscribe"
          /\ requests' = Tail(requests)
          /\ Subscribe(Head(requests).codec)
          /\ UNCHANGED <<conn, wire, queue>>
       \/ /\ Head(requests).op = "unsubscribe" /\ sub # "none"
          /\ requests' = Tail(requests)
          /\ Unsubscribe
          /\ UNCHANGED <<conn, wire>>
       \/ /\ Head(requests).op = "unsubscribe" /\ sub = "none"
          /\ BreakIf(TRUE)
          /\ UNCHANGED <<sub, raw, queue>>
    /\ UNCHANGED <<type, outbox, waits, adv, out, dead, bounds, given, withdrawn>>

-----------------------------------------------------------------------------
(***************************************************************************)
(* The receiver                                                             *)
(***************************************************************************)
\* Each compression is undone by its own branch.  A raw subscription delivers
\* bytes, which only 'cbor-raw' sends as such; of a dictionary made by
\* 'js-buffer' only the names of its fields are sent.
PublishRaises(f) ==
    CASE f.codec = "cbor-raw"       -> FALSE
      [] f.codec = "js-buffer"      -> TRUE
      [] f.codec = "text"           -> f.raw \/ ConversionRaises[<<"text", <<type, f.m.value>>>>]
      [] f.codec \in {"cbor", "zip"} -> f.raw \/ ConversionRaises[<<"bin", <<type, f.m.value>>>>]

Arrived(f) == [f.m EXCEPT !.value = IF f.codec = "cbor-raw" THEN @ ELSE Carried[<<type, @>>]]

\* advertise, unadvertise and publish frames; a topic that is not advertised
\* raises.
OnFrame ==
    LET f == Head(wire)
    IN /\ conn /\ wire # <<>>
       /\ \/ /\ f.op = "advertise"
             /\ adv' = TRUE /\ wire' = Tail(wire)
             /\ UNCHANGED <<conn, requests, out>>
          \/ /\ f.op = "unadvertise" /\ adv
             /\ adv' = FALSE /\ wire' = Tail(wire)
             /\ UNCHANGED <<conn, requests, out>>
          \/ /\ f.op = "publish" /\ adv /\ ~PublishRaises(f)
             /\ out' = Append(out, Arrived(f)) /\ wire' = Tail(wire)
             /\ UNCHANGED <<conn, requests, adv>>
          \/ /\ f.op # "advertise"
             /\ ~adv \/ (f.op = "publish" /\ PublishRaises(f))
             /\ BreakIf(TRUE)
             /\ UNCHANGED <<adv, out>>
       /\ UNCHANGED <<type, outbox, waits, sub, raw, queue, dead, bounds, given, withdrawn>>

-----------------------------------------------------------------------------
Relay == TakeMessage \/ SendFrame \/ OnRequest \/ OnFrame

Next ==
    \/ \E compression \in Compressions, israw \in BOOLEAN : BatchPub(compression, israw)
    \/ \E israw \in BOOLEAN : BatchSub(israw)
    \/ BatchUnadv \/ BatchUnsub
    \/ \E s \in Samples : s[1] = type /\ Publish(s[2])
    \/ SendTimesOut
    \/ Relay

Spec == Init /\ [][Next]_vars

-----------------------------------------------------------------------------
(***************************************************************************)
(* Properties                                                               *)
(***************************************************************************)
TypeOK ==
    /\ type \in {s[1] : s \in Samples}
    /\ conn \in BOOLEAN /\ raw \in BOOLEAN /\ adv \in BOOLEAN /\ dead \in BOOLEAN
    /\ waits \in BOOLEAN /\ withdrawn \in BOOLEAN
    /\ sub \in Codecs \cup {"none"}
    /\ \A i \in DOMAIN wire : wire[i].op \in {"advertise", "unadvertise", "publish"}
    /\ \A i \in DOMAIN requests : requests[i].op \in {"subscribe", "unsubscribe"}
    /\ \A i \in DOMAIN outbox : outbox[i].op = "publish"
    /\ \A i \in DOMAIN queue : queue[i].n \in DOMAIN given
    /\ \A i \in DOMAIN out : out[i].n \in DOMAIN given

\* Where messages are, from the publisher of the receiver back to the ROS thread
\* of the sender, and which one is there.
Places ==
    {<<1, i>> : i \in DOMAIN out}
    \cup {<<2, i>> : i \in {j \in DOMAIN wire : wire[j].op = "publish"}}
    \cup {<<3, i>> : i \in DOMAIN outbox}
    \cup {<<4, i>> : i \in DOMAIN queue}

At(a) == CASE a[1] = 1 -> out[a[2]].n
           [] a[1] = 2 -> wire[a[2]].m.n
           [] a[1] = 3 -> outbox[a[2]].m.n
           [] a[1] = 4 -> queue[a[2]].n

IsAhead(a, b) == a[1] < b[1] \/ (a[1] = b[1] /\ a[2] < b[2])

\* From the ROS thread of the sender to the publisher of the receiver messages
\* keep their order and none is doubled, whatever the agents ask for and withdraw
\* meanwhile, and also when the ROS thread has stopped waiting for a frame and
\* goes on with the next message.
RelayedInOrder ==
    \A a, b \in Places : IsAhead(a, b) => At(a) < At(b)

\* "It causes configured ROS messages to be delivered to the specified gateway"
\* (api_publisher_add): as long as nobody withdraws the topic and the connection
\* lasts, no message vanishes, not even one whose frame took too long.
NoneVanishes ==
    conn /\ ~dead /\ ~withdrawn => {At(a) : a \in Places} = DOMAIN given

\* What the receiver publishes is what the sender's node was given, through any
\* codec, also when the codec of the subscription changes under way.  (Arrays
\* that a new message starts with are left in front of those that were sent.)
RelayedIntact ==
    \A i \in DOMAIN out :
        LET m == given[out[i].n]
        IN StartsEmpty[<<type, m>>] => out[i].value = m

\* A message never arrives before its topic: until somebody withdraws it, the
\* frame that is handled next does not end the connection for want of one.
FramesAreWelcome ==
    conn /\ ~withdrawn /\ wire # <<>> /\ Head(wire).op = "publish" => adv

\* A message arrives as it was given, or converted if that makes a difference.
ArrivesAs ==
    [s \in Samples |-> {s} \cup (IF StartsEmpty[s] THEN {} ELSE {<<s[1], Carried[s]>>})]

\* The messages at either end, with their type.
GivenTyped   == [i \in DOMAIN given |-> <<type, given[i]>>]
ArrivedTyped == [i \in DOMAIN out |-> [n |-> out[i].n, value |-> <<type, out[i].value>>]]

Channel ==
    INSTANCE LossyChannel WITH Values <- Samples,
        given <- GivenTyped, arrived <- ArrivedTyped, open <- conn

\* The topic is a channel in the sense of LossyChannel: whatever the agents do, and
\* whether or not the connection or the ROS thread lasts, each step of the two
\* gateways takes one message in, delivers one that comes after all that have
\* arrived, ends the channel, or does none of these.
RelayIsChannel == Channel!Spec

=============================================================================
