---------------------------- MODULE RosWsGateway -----------------------------
(***************************************************************************)
(* The topic half of rosextpy/ros_ws_gateway.py: the gateways (one per      *)
(* websocket connection, named by its bridge id) of one process, over the   *)
(* node manager they share.                                                 *)
(*                                                                          *)
(* A gateway has two sources of work on the asyncio loop: the messages of   *)
(* its peer (on_message) and the commands of the local agent, queued by     *)
(* add_publish ... remove_subscribe and taken one by one by the task        *)
(* batch_cmd.  The topic handlers _op_* never suspend, so a message or a    *)
(* command is one action.  A handler that raises ends the connection when   *)
(* on_message called it, and ends the batch task, the connection staying    *)
(* open, when batch_cmd did.                                                *)
(*                                                                          *)
(* What a gateway sends is abstracted to whether the send raises.           *)
(***************************************************************************)
EXTENDS NodeManager, Sequences, Naturals

CONSTANTS MaxQueue,     \* bound: commands queued per gateway
          FailingCloses \* the gateways whose close() may raise half way

ASSUME GatewayAssumption == /\ MaxQueue \in Nat \ {0}
                            /\ FailingCloses \subseteq Bridges

VARIABLES conn,             \* the connection's life: new, open, closing, closed, leaked
          published_topic,  \* per gateway: topic -> type (NoType: no key)
          subscribed_topic, \* per gateway: the keys of the dictionary
          batch_queue,      \* per gateway: queued commands
          batch_task        \* none, running, dead (it raised), cancelled

topicVars   == <<published_topic, subscribed_topic>>
batchVars   == <<batch_queue, batch_task>>
gatewayVars == <<nodeVars, conn, topicVars, batchVars>>

\* add_publish, remove_publish, add_subscribe, remove_subscribe
Commands ==
    [op : {"pub"}, topic : Topics, type : Types, mode : Modes]
      \cup [op : {"sub"}, topic : Topics, type : Types]
      \cup [op : {"unadv", "unsub"}, topic : Topics]

GInit ==
    /\ Init
    /\ conn = [b \in Bridges |-> "new"]
    /\ published_topic = [b \in Bridges |-> [t \in Topics |-> NoType]]
    /\ subscribed_topic = [b \in Bridges |-> {}]
    /\ batch_queue = [b \in Bridges |-> <<>>]
    /\ batch_task = [b \in Bridges |-> "none"]

-----------------------------------------------------------------------------
(***************************************************************************)
(* The handlers: what each does, whether or not it raises, and when it does *)
(***************************************************************************)
\* The dictionary is written before create_publisher may raise.
AdvertiseRaises(b, t, ty) ==
    IF published_topic[b][t] = NoType THEN CreatePublisherRaises(ty, t)
    ELSE published_topic[b][t] # ty

op_advertise(b, t, ty) ==
    LET new == published_topic[b][t] = NoType
    IN /\ published_topic' = IF new THEN [published_topic EXCEPT ![b][t] = ty]
                             ELSE published_topic
       /\ IF new /\ ~CreatePublisherRaises(ty, t) THEN create_publisher(ty, t, b)
          ELSE UNCHANGED nodeVars
       /\ UNCHANGED subscribed_topic

UnadvertiseRaises(b, t) == published_topic[b][t] = NoType

op_unadvertise(b, t) ==
    /\ published_topic' = [published_topic EXCEPT ![b][t] = NoType]
    /\ IF ~UnadvertiseRaises(b, t) /\ HasPublisher(t) THEN destroy_publisher(t, b)
       ELSE UNCHANGED nodeVars
    /\ UNCHANGED subscribed_topic

\* Nothing is published for a topic with no publisher of any bridge; a message
\* that does not fit the publisher's type, or a destroyed publisher, raises.
PublishRaises(b, t) ==
    \/ published_topic[b][t] = NoType
    \/ HasPublisher(t) /\ (publisher[t].type # published_topic[b][t] \/ ~spinning)

\* ty is the type given, or else found by get_topic_type (NoType: not found);
\* get_topic_type looks into its cache, and asks the node, which may be gone.
TypeLookupRaises(ty) == ty = NoType /\ ~spinning

SubscribeRaises(t, ty) == TypeLookupRaises(ty) \/ CreateSubscriptionRaises(ty, t)

\* Seeded bug: the dictionary is keyed by the type.
SubscribeKeyedByType(b, t, ty, mode) ==
    /\ subscribed_topic' = IF TypeLookupRaises(ty) THEN subscribed_topic
                           ELSE [subscribed_topic EXCEPT ![b] = @ \cup {ty}]
    /\ IF SubscribeRaises(t, ty) THEN UNCHANGED nodeVars
       ELSE create_subscription(ty, t, b, mode)
    /\ UNCHANGED published_topic

\* The dictionary is written before create_subscription may raise.
op_subscribe(b, t, ty, mode) ==
    /\ subscribed_topic' = IF TypeLookupRaises(ty) THEN subscribed_topic
                           ELSE [subscribed_topic EXCEPT ![b] = @ \cup {t}]
    /\ IF SubscribeRaises(t, ty) THEN UNCHANGED nodeVars
       ELSE create_subscription(ty, t, b, mode)
    /\ UNCHANGED published_topic

\* RosWsGatewayException when no bridge subscribes; AttributeError when the
\* last bridge leaves a manager without handle.
UnsubscribeRaises(b, t) == ~HasSubscription(t) \/ DestroySubscriptionRaises(t, b)

op_unsubscribe(b, t) ==
    /\ subscribed_topic' = [subscribed_topic EXCEPT ![b] = @ \ {t}]
    /\ IF HasSubscription(t) THEN destroy_subscription(t, b) ELSE UNCHANGED nodeVars
    /\ UNCHANGED published_topic

-----------------------------------------------------------------------------
(***************************************************************************)
(* Messages of the peer                                                     *)
(***************************************************************************)
\* Any exception of a handler ends the reader, also a RosWsGatewayException:
\* the status that should report it cannot be serialized (json.dumps of the
\* exception object raises TypeError).
EndIf(b, raises) == conn' = IF raises THEN [conn EXCEPT ![b] = "closing"] ELSE conn

OnAdvertise(b, t, ty) ==
    /\ conn[b] = "open"
    /\ op_advertise(b, t, ty)
    /\ EndIf(b, AdvertiseRaises(b, t, ty))
    /\ UNCHANGED batchVars

OnUnadvertise(b, t) ==
    /\ conn[b] = "open"
    /\ op_unadvertise(b, t)
    /\ EndIf(b, UnadvertiseRaises(b, t))
    /\ UNCHANGED batchVars

OnPublish(b, t) ==
    /\ conn[b] = "open"
    /\ EndIf(b, PublishRaises(b, t))
    /\ UNCHANGED <<nodeVars, topicVars, batchVars>>

OnSubscribe(b, t, ty, mode) ==
    /\ conn[b] = "open"
    /\ op_subscribe(b, t, ty, mode)
    /\ EndIf(b, SubscribeRaises(t, ty))
    /\ UNCHANGED batchVars

OnUnsubscribe(b, t) ==
    /\ conn[b] = "open"
    /\ op_unsubscribe(b, t)
    /\ EndIf(b, UnsubscribeRaises(b, t))
    /\ UNCHANGED batchVars

-----------------------------------------------------------------------------
(***************************************************************************)
(* Commands of the agent                                                    *)
(***************************************************************************)
\* (A command queued after the close is never taken: left out.)
AddCommand(b, c) ==
    /\ conn[b] \in {"open", "closing", "leaked"}
    /\ Len(batch_queue[b]) < MaxQueue
    /\ batch_queue' = [batch_queue EXCEPT ![b] = Append(@, c)]
    /\ UNCHANGED <<nodeVars, conn, topicVars, batch_task>>

\* batch_cmd takes the next command c; it dies of any exception but the
\* RosWsGatewayException of an unadv or unsub, which skips the send.
Take(b, op) ==
    /\ batch_task[b] = "running"
    /\ batch_queue[b] # <<>>
    /\ Head(batch_queue[b]).op = op
    /\ batch_queue' = [batch_queue EXCEPT ![b] = Tail(@)]
    /\ UNCHANGED conn

\* Seeded bug: batch_cmd logs every exception and goes on.
DieNever(b, raises) == UNCHANGED batch_task

DieIf(b, raises) ==
    batch_task' = IF raises THEN [batch_task EXCEPT ![b] = "dead"] ELSE batch_task

BatchPub(b, sendFails) ==
    /\ Take(b, "pub")
    /\ LET c == Head(batch_queue[b])
       IN /\ op_subscribe(b, c.topic, c.type, c.mode)
          /\ DieIf(b, SubscribeRaises(c.topic, c.type) \/ sendFails)

BatchUnadv(b, sendFails) ==
    /\ Take(b, "unadv")
    /\ LET t == Head(batch_queue[b]).topic
       IN /\ op_unsubscribe(b, t)
          /\ DieIf(b, HasSubscription(t) /\ (DestroySubscriptionRaises(t, b) \/ sendFails))

BatchSub(b, sendFails) ==
    /\ Take(b, "sub")
    /\ LET c == Head(batch_queue[b])
       IN /\ op_advertise(b, c.topic, c.type)
          /\ DieIf(b, AdvertiseRaises(b, c.topic, c.type) \/ sendFails)

BatchUnsub(b, sendFails) ==
    /\ Take(b, "unsub")
    /\ LET t == Head(batch_queue[b]).topic
       IN /\ op_unadvertise(b, t)
          /\ DieIf(b, ~UnadvertiseRaises(b, t) /\ sendFails)

\* A send raises only once the connection is going down.
BatchStep(b) ==
    \E sendFails \in (IF conn[b] = "open" THEN {FALSE} ELSE BOOLEAN) :
        \/ BatchPub(b, sendFails) \/ BatchUnadv(b, sendFails)
        \/ BatchSub(b, sendFails) \/ BatchUnsub(b, sendFails)

-----------------------------------------------------------------------------
(***************************************************************************)
(* The connection                                                           *)
(***************************************************************************)
\* on_connect starts the batch task.
Connect(b) ==
    /\ conn[b] = "new"
    /\ conn' = [conn EXCEPT ![b] = "open"]
    /\ batch_task' = [batch_task EXCEPT ![b] = "running"]
    /\ UNCHANGED <<nodeVars, topicVars, batch_queue>>

\* The peer or the network ends the connection, or the agent cancels it.
Hangup(b) ==
    /\ conn[b] = "open"
    /\ conn' = [conn EXCEPT ![b] = "closing"]
    /\ UNCHANGED <<nodeVars, topicVars, batchVars>>

\* Seeded bug: the batch task is not cancelled.
FinishCloseKeepingBatch(b) ==
    /\ conn[b] = "closing"
    /\ conn' = [conn EXCEPT ![b] = "closed"]
    /\ remove_with_gateway(b)
    /\ UNCHANGED <<topicVars, batchVars>>

\* close() after it awaited the websocket's own close; batch_cmd may have run
\* meanwhile.  The dictionaries keep their keys.
FinishClose(b) ==
    /\ conn[b] = "closing"
    /\ conn' = [conn EXCEPT ![b] = "closed"]
    /\ batch_task' = [batch_task EXCEPT ![b] = "cancelled"]
    /\ remove_with_gateway(b)
    /\ UNCHANGED <<topicVars, batch_queue>>

\* The websocket's close() raises (its peer is gone already), or clearing the
\* pending service or action calls does: the rest of close() is skipped, the
\* batch task lives on and nobody calls close() again.
CloseRaises(b) ==
    /\ conn[b] = "closing"
    /\ b \in FailingCloses
    /\ conn' = [conn EXCEPT ![b] = "leaked"]
    /\ UNCHANGED <<nodeVars, topicVars, batchVars>>

\* The ROS thread ends, by an exception of a delivery or by stop().
RosThread ==
    /\ stop \/ \E t \in Topics : DeliverUnknownCompression(t)
    /\ UNCHANGED <<conn, topicVars, batchVars>>

OnMessage(b) ==
    \E t \in Topics :
        \/ \E ty \in Types : OnAdvertise(b, t, ty)
        \/ OnUnadvertise(b, t)
        \/ OnPublish(b, t)
        \/ \E ty \in Types \cup {NoType}, mode \in Modes : OnSubscribe(b, t, ty, mode)
        \/ OnUnsubscribe(b, t)

GNext ==
    \/ \E b \in Bridges :
           \/ Connect(b) \/ Hangup(b) \/ FinishClose(b) \/ CloseRaises(b)
           \/ OnMessage(b)
           \/ \E c \in Commands : AddCommand(b, c)
           \/ BatchStep(b)
    \/ RosThread

GSpec == GInit /\ [][GNext]_gatewayVars

\* The asyncio loop runs every task that is ready, and a websocket close ends
\* (the websockets library gives up after its close timeout).
Fairness == \A b \in Bridges : WF_gatewayVars(BatchStep(b)) /\ WF_gatewayVars(FinishClose(b))

FairGSpec == GSpec /\ Fairness

-----------------------------------------------------------------------------
(***************************************************************************)
(* Properties                                                               *)
(***************************************************************************)
\* The variables of the gateways.
GTypeOK ==
    /\ TypeOK
    /\ conn \in [Bridges -> {"new", "open", "closing", "closed", "leaked"}]
    /\ published_topic \in [Bridges -> [Topics -> Types \cup {NoType}]]
    /\ subscribed_topic \in [Bridges -> SUBSET Topics]
    /\ batch_queue \in [Bridges -> Seq(Commands)]
    /\ batch_task \in [Bridges -> {"none", "running", "dead", "cancelled"}]

\* A bridge never shares a publisher of another type than it advertised itself:
\* whatever order messages, commands and failures come in, a bridge registered
\* with the publisher of a topic has that very type in published_topic, so what
\* _op_publish converts for it fits the publisher.
AdvertisedTypesAgree ==
    \A b \in Bridges, t \in Topics :
        b \in publisher[t].bridges => published_topic[b][t] = publisher[t].type

\* A gateway whose connection and batch task are alive knows exactly what it
\* has registered: no handler that failed half way left a key of
\* published_topic or subscribed_topic without registration, or the reverse.
HealthyGatewaysAgree ==
    \A b \in Bridges :
        conn[b] = "open" /\ batch_task[b] = "running" =>
            \A t \in Topics :
                /\ published_topic[b][t] # NoType <=> b \in publisher[t].bridges
                /\ t \in subscribed_topic[b] <=> b \in Subscribers(subscriptions[t])

RegisteredNowhere(b) ==
    \A t \in Topics : b \notin publisher[t].bridges \cup Subscribers(subscriptions[t])

\* A gateway that is closed has left the node manager, and no queued command
\* brings it back: close() ends the batch task before it takes the bridge out.
ClosedLeavesNothing ==
    \A b \in Bridges : conn[b] \in {"new", "closed"} => RegisteredNowhere(b)

\* A connection that goes down is closed, and its bridge leaves the node
\* manager for good, whatever commands are still queued, unless close() raises.
DisconnectReleases ==
    \A b \in Bridges \ FailingCloses : conn[b] = "closing" ~> [](RegisteredNowhere(b))

\* "It causes configured ROS messages to be delivered to the specified gateway"
\* (api_publisher_add): a queued command to forward a topic is carried out as
\* long as the connection is open and the node runs.
AddPublishIsCarriedOut ==
    \A b \in Bridges, t \in Topics :
        (\E i \in DOMAIN batch_queue[b] : /\ batch_queue[b][i].op = "pub"
                                          /\ batch_queue[b][i].topic = t)
          ~> (conn[b] # "open" \/ ~spinning \/ b \in Subscribers(subscriptions[t]))
=============================================================================
