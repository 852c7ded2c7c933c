------------------------- MODULE RosWsGatewayProofs --------------------------
(***************************************************************************)
(* Proofs about RosWsGateway, for any gateways, topics, types and length of *)
(* the batch queue.  What NodeManagerProofs proves of the registry is used  *)
(* here through one theorem, that gateways change it by its calls only.     *)
(***************************************************************************)
EXTENDS RosWsGateway, NodeManagerProofs

-----------------------------------------------------------------------------
(***************************************************************************)
(* What a message or a command of b does                                    *)
(***************************************************************************)
\* The handlers of topics, for any of their arguments.
Handler(b) ==
    \E t \in Topics :
        \/ \E ty \in Types : op_advertise(b, t, ty)
        \/ op_unadvertise(b, t)
        \/ \E ty \in Types \cup {NoType}, mode \in Modes : op_subscribe(b, t, ty, mode)
        \/ op_unsubscribe(b, t)
        \/ UNCHANGED <<nodeVars, topicVars>>

\* A message runs one handler.
LEMMA MessageHandler ==
    ASSUME NEW b \in Bridges, OnMessage(b)
    PROVE  /\ Handler(b) /\ UNCHANGED batchVars
           /\ conn[b] = "open" /\ conn' \in {conn, [conn EXCEPT ![b] = "closing"]}
BY DEF OnMessage, OnAdvertise, OnUnadvertise, OnPublish, OnSubscribe, OnUnsubscribe,
       Handler, EndIf

\* A command runs one handler too; only the queue and the task of b move on.
LEMMA CommandHandler ==
    ASSUME NEW b \in Bridges, GTypeOK, BatchStep(b)
    PROVE  /\ Handler(b) /\ UNCHANGED conn
           /\ batch_task[b] = "running"
           /\ batch_task' \in {batch_task, [batch_task EXCEPT ![b] = "dead"]}
           /\ batch_queue' = [batch_queue EXCEPT ![b] = Tail(@)]
<1> DEFINE c == Head(batch_queue[b])
<1>1. batch_queue[b] # <<>>
  BY DEF BatchStep, BatchPub, BatchUnadv, BatchSub, BatchUnsub, Take
<1>2. c \in Commands
  BY <1>1 DEF GTypeOK
<1>3. /\ c.topic \in Topics
      /\ c.op = "pub" => c.type \in Types /\ c.mode \in Modes
      /\ c.op = "sub" => c.type \in Types
  BY <1>2 DEF Commands
<1>4. PICK sendFails \in BOOLEAN :
        \/ BatchPub(b, sendFails) \/ BatchUnadv(b, sendFails)
        \/ BatchSub(b, sendFails) \/ BatchUnsub(b, sendFails)
  BY DEF BatchStep
<1>5. Handler(b)
  <2>1. CASE BatchPub(b, sendFails)
    BY <1>3, <2>1 DEF BatchPub, Take, Handler
  <2>2. CASE BatchUnadv(b, sendFails)
    BY <1>3, <2>2 DEF BatchUnadv, Take, Handler
  <2>3. CASE BatchSub(b, sendFails)
    BY <1>3, <2>3 DEF BatchSub, Take, Handler
  <2>4. CASE BatchUnsub(b, sendFails)
    BY <1>3, <2>4 DEF BatchUnsub, Take, Handler
  <2>5. QED
    BY <1>4, <2>1, <2>2, <2>3, <2>4
<1>6. QED
  BY <1>4, <1>5 DEF BatchPub, BatchUnadv, BatchSub, BatchUnsub, Take, DieIf

\* A handler makes at most one call of the node manager, for b.
LEMMA HandlerCalls ==
    ASSUME NEW b \in Bridges, Handler(b)
    PROVE  \/ \E t \in Topics : PublisherCall(b, t) \/ SubscriptionCall(b, t)
           \/ UNCHANGED nodeVars
BY DEF Handler, op_advertise, op_unadvertise, op_subscribe, op_unsubscribe,
       PublisherCall, SubscriptionCall

-----------------------------------------------------------------------------
(***************************************************************************)
(* The gateways and the node manager                                        *)
(***************************************************************************)
\* The types of the gateways' own variables.
LEMMA TypesStep == GTypeOK /\ TypeOK' /\ [GNext]_gatewayVars => GTypeOK'
<1> SUFFICES ASSUME GTypeOK, TypeOK', [GNext]_gatewayVars
             PROVE  GTypeOK'
  OBVIOUS
<1>1. ASSUME NEW b \in Bridges, Handler(b)
      PROVE  /\ published_topic' \in [Bridges -> [Topics -> Types \cup {NoType}]]
             /\ subscribed_topic' \in [Bridges -> SUBSET Topics]
  <2>1. ASSUME NEW t \in Topics, NEW ty \in Types, op_advertise(b, t, ty)
        PROVE  published_topic' \in [Bridges -> [Topics -> Types \cup {NoType}]]
    BY <2>1 DEF op_advertise, GTypeOK
  <2>2. ASSUME NEW t \in Topics, op_unadvertise(b, t)
        PROVE  published_topic' \in [Bridges -> [Topics -> Types \cup {NoType}]]
    BY <2>2 DEF op_unadvertise, GTypeOK
  <2>3. ASSUME NEW t \in Topics, op_unsubscribe(b, t)
        PROVE  subscribed_topic' \in [Bridges -> SUBSET Topics]
    <3>1. (subscribed_topic[b] \ {t}) \in SUBSET Topics
      BY DEF GTypeOK
    <3>2. QED
      BY <2>3, <3>1 DEF op_unsubscribe, GTypeOK
  <2>4. ASSUME NEW t \in Topics, NEW ty \in Types \cup {NoType}, NEW mode \in Modes,
               op_subscribe(b, t, ty, mode)
        PROVE  subscribed_topic' \in [Bridges -> SUBSET Topics]
    <3>1. (subscribed_topic[b] \cup {t}) \in SUBSET Topics
      BY DEF GTypeOK
    <3>2. QED
      BY <2>4, <3>1 DEF op_subscribe, GTypeOK
  <2>5. \/ UNCHANGED subscribed_topic /\ \E t \in Topics :
              op_unadvertise(b, t) \/ \E ty \in Types : op_advertise(b, t, ty)
        \/ UNCHANGED published_topic /\ \E t \in Topics :
              \/ op_unsubscribe(b, t)
              \/ \E ty \in Types \cup {NoType}, mode \in Modes :
                     op_subscribe(b, t, ty, mode)
        \/ UNCHANGED topicVars
    BY <1>1 DEF Handler, op_advertise, op_unadvertise, op_subscribe, op_unsubscribe
  <2>6. CASE UNCHANGED topicVars
    BY <2>6 DEF GTypeOK, topicVars
  <2>7. QED
    BY <2>1, <2>2, <2>3, <2>4, <2>5, <2>6 DEF GTypeOK
<1>2. ASSUME NEW b \in Bridges, Connect(b) \/ Hangup(b) \/ FinishClose(b) \/ CloseRaises(b)
      PROVE  GTypeOK'
  BY <1>2 DEF Connect, Hangup, FinishClose, CloseRaises, GTypeOK, topicVars, batchVars
<1>3. ASSUME NEW b \in Bridges, NEW c \in Commands, AddCommand(b, c)
      PROVE  GTypeOK'
  BY <1>3 DEF AddCommand, GTypeOK, topicVars
<1>4. ASSUME NEW b \in Bridges, OnMessage(b)
      PROVE  GTypeOK'
  BY <1>1, <1>4, MessageHandler DEF GTypeOK, batchVars
<1>5. ASSUME NEW b \in Bridges, BatchStep(b)
      PROVE  GTypeOK'
  <2>1. batch_queue[b] \in Seq(Commands) /\ batch_queue[b] # <<>>
    BY <1>5 DEF GTypeOK, BatchStep, BatchPub, BatchUnadv, BatchSub, BatchUnsub, Take
  <2>2. Tail(batch_queue[b]) \in Seq(Commands)
    BY <2>1
  <2>3. batch_queue' \in [Bridges -> Seq(Commands)]
    BY <1>5, <2>2, CommandHandler DEF GTypeOK
  <2>4. batch_task' \in [Bridges -> {"none", "running", "dead", "cancelled"}]
    BY <1>5, CommandHandler DEF GTypeOK
  <2>5. QED
    BY <1>1, <1>5, <2>3, <2>4, CommandHandler DEF GTypeOK
<1>6. CASE RosThread
  BY <1>6 DEF RosThread, GTypeOK, topicVars, batchVars
<1>7. CASE UNCHANGED gatewayVars
  BY <1>7 DEF gatewayVars, GTypeOK, topicVars, batchVars
<1>8. QED
  BY <1>2, <1>3, <1>4, <1>5, <1>6, <1>7 DEF GNext

\* Every step of the gateways is a step of the node manager, or none.
LEMMA StepUsesNode == GTypeOK /\ [GNext]_gatewayVars => [Next]_nodeVars
<1> SUFFICES ASSUME GTypeOK, [GNext]_gatewayVars
             PROVE  [Next]_nodeVars
  OBVIOUS
<1>1. ASSUME NEW b \in Bridges, OnMessage(b) \/ BatchStep(b)
      PROVE  [Next]_nodeVars
  BY <1>1, MessageHandler, CommandHandler, HandlerCalls DEF Next
<1>2. ASSUME NEW b \in Bridges, Connect(b) \/ Hangup(b) \/ FinishClose(b) \/ CloseRaises(b)
      PROVE  [Next]_nodeVars
  BY <1>2 DEF Connect, Hangup, FinishClose, CloseRaises, Next
<1>3. ASSUME NEW b \in Bridges, NEW c \in Commands, AddCommand(b, c)
      PROVE  [Next]_nodeVars
  BY <1>3 DEF AddCommand
<1>4. CASE RosThread
  BY <1>4 DEF RosThread, Next
<1>5. CASE UNCHANGED gatewayVars
  BY <1>5 DEF gatewayVars, nodeVars
<1>6. QED
  BY <1>1, <1>2, <1>3, <1>4, <1>5 DEF GNext

\* Nothing is registered initially.
LEMMA GInitTypes == GInit => GTypeOK /\ IInv
<1>1. GInit => IInv
  BY InitIInv DEF GInit
<1>2. GInit /\ IInv => GTypeOK
  BY DEF GInit, GTypeOK, IInv
<1>3. QED
  BY <1>1, <1>2

\* The gateways' state has its types and the registry keeps its invariant.
THEOREM GatewayTypeCorrect == GSpec => [](GTypeOK /\ IInv)
<1>1. GInit => GTypeOK /\ IInv
  BY GInitTypes
<1>2. GTypeOK /\ IInv /\ [GNext]_gatewayVars => GTypeOK' /\ IInv'
  BY StepUsesNode, NextIInv, TypesStep DEF IInv
<1>3. QED
  BY <1>1, <1>2, PTL DEF GSpec

\* Whatever the gateways do, together they are a user of the node manager, so
\* all it promises about handles and isolation holds in the process.
THEOREM GatewaysUseNodeManager == GSpec => Spec
<1>1. GInit => Init
  BY DEF GInit
<1>2. QED
  BY <1>1, StepUsesNode, GatewayTypeCorrect, PTL DEF GSpec, Spec

-----------------------------------------------------------------------------
(***************************************************************************)
(* The gateways and their own dictionaries                                  *)
(***************************************************************************)
\* b's dictionaries agree with the registry.
Agree(b) ==
    \A t \in Topics :
        /\ published_topic[b][t] # NoType <=> b \in publisher[t].bridges
        /\ t \in subscribed_topic[b] <=> b \in Subscribers(subscriptions[t])

\* Batch tasks run only on connections that were opened and not yet closed, and
\* a gateway that has not connected has nothing in its dictionaries.
TasksFollowConnections ==
    \A b \in Bridges :
        /\ batch_task[b] = "running" => conn[b] \in {"open", "closing", "leaked"}
        /\ conn[b] = "new" => \A t \in Topics : /\ published_topic[b][t] = NoType
                                              /\ t \notin subscribed_topic[b]

\* The inductive invariant of the gateways.  A key of published_topic that a
\* failed advertise left behind is why HealthyGatewaysAgree speaks of healthy
\* gateways only, and AdvertisedTypesAgree in one direction only.
GInv ==
    /\ GTypeOK
    /\ IInv
    /\ AdvertisedTypesAgree
    /\ HealthyGatewaysAgree
    /\ ClosedLeavesNothing
    /\ TasksFollowConnections

\* Only d's dictionaries may change.
TopicsOnlyOf(d) ==
    \A b \in Bridges \ {d} : /\ published_topic'[b] = published_topic[b]
                            /\ subscribed_topic'[b] = subscribed_topic[b]

OnlyOf(d) == PubsOnlyOf(d) /\ SubsOnlyOf(d) /\ TopicsOnlyOf(d) /\ PubsKept

\* A handler of d touches nothing of the other gateways.
LEMMA HandlerIsolation ==
    ASSUME GTypeOK, IInv, NEW d \in Bridges, Handler(d)
    PROVE  OnlyOf(d)
<1>1. PubInv /\ SubInv
  BY IInvSplits
<1>2. TopicsOnlyOf(d)
  BY DEF Handler, op_advertise, op_unadvertise, op_subscribe, op_unsubscribe,
         GTypeOK, topicVars, TopicsOnlyOf
<1>3. ASSUME NEW t \in Topics, PublisherCall(d, t)
      PROVE  OnlyOf(d)
  <2>1. UNCHANGED subVars
    BY <1>3 DEF PublisherCall, create_publisher, destroy_publisher
  <2>2. QED
    BY <1>1, <1>2, <1>3, <2>1, PublisherIsolation, SubsUnchangedIsolation DEF OnlyOf
<1>4. ASSUME NEW t \in Topics, SubscriptionCall(d, t)
      PROVE  OnlyOf(d)
  <2>1. UNCHANGED pubVars
    BY <1>4 DEF SubscriptionCall, create_subscription, destroy_subscription
  <2>2. QED
    BY <1>1, <1>2, <1>4, <2>1, SubscriptionIsolation, PubsUnchangedIsolation DEF OnlyOf
<1>5. CASE UNCHANGED nodeVars
  BY <1>2, <1>5, PubsUnchangedIsolation, SubsUnchangedIsolation
     DEF OnlyOf, nodeVars, pubVars, subVars
<1>6. QED
  BY <1>3, <1>4, <1>5, HandlerCalls

\* A gateway that closes touches nothing of the others and leaves the registry.
LEMMA CloseIsolation ==
    ASSUME GTypeOK, IInv, NEW d \in Bridges, FinishClose(d)
    PROVE  OnlyOf(d) /\ RegisteredNowhere(d)'
<1>1. PubInv /\ SubInv
  BY IInvSplits
<1>2. OnlyOf(d)
  BY <1>1, DropPublishersIsolation, RemoveWithGatewayIsolation
     DEF FinishClose, remove_with_gateway, topicVars, OnlyOf, TopicsOnlyOf
<1>3. ASSUME NEW t \in Topics
      PROVE  d \notin publisher'[t].bridges
  BY <1>1 DEF FinishClose, remove_with_gateway, DropPublishers, NoPublisher, PubInv,
              PubManager, HasPublisher
<1>4. ASSUME NEW t \in Topics
      PROVE  d \notin Subscribers(subscriptions'[t])
  <2>1. PICK gone \in SUBSET Emptied(Topics, d), destroyed \in SUBSET Emptied(Topics, d) :
           DropSubscriptions(Topics, d, gone, destroyed)
    BY DEF FinishClose, remove_with_gateway, DestroySubscriptionsOf
  <2>2. subscriptions'[t] \in {NoSubscription, Without(t, d)}
    BY <2>1 DEF DropSubscriptions
  <2>3. d \notin Subscribers(NoSubscription)
    BY DEF NoSubscription, Subscribers
  <2>4. d \notin Subscribers(Without(t, d))
    BY <1>1, WithoutType DEF SubInv
  <2>5. QED
    BY <2>2, <2>3, <2>4
<1>5. QED
  BY <1>2, <1>3, <1>4 DEF RegisteredNowhere

\* What holds of another gateway survives a step of d alone.
LEMMA OthersKeep ==
    ASSUME NEW d \in Bridges, NEW b \in Bridges \ {d}, OnlyOf(d)
    PROVE  /\ Agree(b) => Agree(b)'
           /\ RegisteredNowhere(b) => RegisteredNowhere(b)'
           /\ AdvertisedTypesAgree =>
                \A t \in Topics : b \in publisher'[t].bridges
                                    => published_topic'[b][t] = publisher'[t].type
<1>1. ASSUME NEW t \in Topics
      PROVE  b \in Subscribers(subscriptions'[t]) <=> b \in Subscribers(subscriptions[t])
  BY DEF OnlyOf, SubsOnlyOf, Subscribers
<1>2. QED
  BY <1>1 DEF OnlyOf, PubsOnlyOf, TopicsOnlyOf, PubsKept, Agree, RegisteredNowhere,
              AdvertisedTypesAgree

-----------------------------------------------------------------------------
(***************************************************************************)
(* Each handler and its own dictionary                                      *)
(***************************************************************************)
\* The part of AdvertisedTypesAgree that is about b.
OwnTypesAgree(b) ==
    \A t \in Topics : b \in publisher[t].bridges => published_topic[b][t] = publisher[t].type

\* Advertising never registers b under a type that is not in its dictionary, and
\* if it does not raise dictionary and registry keep agreeing.
LEMMA AdvertiseKeeps ==
    ASSUME GTypeOK, IInv, NEW b \in Bridges, NEW t \in Topics, NEW ty \in Types,
           op_advertise(b, t, ty), OwnTypesAgree(b)
    PROVE  /\ OwnTypesAgree(b)'
           /\ Agree(b) /\ ~AdvertiseRaises(b, t, ty) => Agree(b)'
<1>1. PubInv /\ published_topic \in [Bridges -> [Topics -> Types \cup {NoType}]]
  BY IInvSplits DEF GTypeOK
<1>2. /\ subscribed_topic' = subscribed_topic
      /\ subscriptions' = subscriptions
  BY DEF op_advertise, create_publisher, subVars, nodeVars
<1>3. CASE published_topic[b][t] # NoType
  BY <1>2, <1>3 DEF op_advertise, nodeVars, OwnTypesAgree, Agree, Subscribers
<1>4. CASE published_topic[b][t] = NoType /\ CreatePublisherRaises(ty, t)
  <2>1. UNCHANGED publisher /\ AdvertiseRaises(b, t, ty)
    BY <1>4 DEF op_advertise, nodeVars, AdvertiseRaises
  <2>2. b \notin publisher[t].bridges
    BY <1>1, <1>4 DEF OwnTypesAgree, PubInv, HasPublisher
  <2>3. \A u \in Topics \ {t} : published_topic'[b][u] = published_topic[b][u]
    BY <1>1, <1>4 DEF op_advertise
  <2>4. QED
    BY <2>1, <2>2, <2>3 DEF OwnTypesAgree
<1>5. CASE published_topic[b][t] = NoType /\ ~CreatePublisherRaises(ty, t)
  <2>1. create_publisher(ty, t, b)
    BY <1>5 DEF op_advertise
  <2>2. /\ published_topic'[b][t] = ty
        /\ \A u \in Topics \ {t} : published_topic'[b][u] = published_topic[b][u]
    BY <1>1, <1>5 DEF op_advertise
  <2>3. /\ publisher'[t].type = ty
        /\ b \in publisher'[t].bridges
        /\ \A u \in Topics \ {t} : publisher'[u] = publisher[u]
    BY <1>1, <2>1 DEF create_publisher, PubInv, PubManager
  <2>4. ty # NoType
    BY NodeAssumption
  <2>5. OwnTypesAgree(b)'
    BY <2>2, <2>3 DEF OwnTypesAgree
  <2>6. Agree(b) => Agree(b)'
    BY <1>2, <2>2, <2>3, <2>4 DEF Agree, Subscribers
  <2>7. QED
    BY <2>5, <2>6
<1>6. QED
  BY <1>3, <1>4, <1>5

\* Unadvertising keeps the agreement whether it raises or not.
LEMMA UnadvertiseKeeps ==
    ASSUME GTypeOK, IInv, NEW b \in Bridges, NEW t \in Topics,
           op_unadvertise(b, t), OwnTypesAgree(b)
    PROVE  OwnTypesAgree(b)' /\ (Agree(b) => Agree(b)')
<1>1. PubInv /\ published_topic \in [Bridges -> [Topics -> Types \cup {NoType}]]
  BY IInvSplits DEF GTypeOK
<1>2. /\ subscribed_topic' = subscribed_topic
      /\ subscriptions' = subscriptions
  BY DEF op_unadvertise, destroy_publisher, subVars, nodeVars
<1>3. /\ published_topic'[b][t] = NoType
      /\ \A u \in Topics \ {t} : published_topic'[b][u] = published_topic[b][u]
  BY <1>1 DEF op_unadvertise
<1>4. CASE UnadvertiseRaises(b, t) \/ ~HasPublisher(t)
  <2>1. publisher' = publisher /\ b \notin publisher[t].bridges
    BY <1>1, <1>4 DEF op_unadvertise, nodeVars, UnadvertiseRaises, OwnTypesAgree, PubInv,
                      HasPublisher
  <2>2. QED
    BY <1>2, <1>3, <2>1 DEF OwnTypesAgree, Agree, Subscribers
<1>5. CASE ~UnadvertiseRaises(b, t) /\ HasPublisher(t)
  <2>1. DropPublishers({t}, b)
    BY <1>5 DEF op_unadvertise, destroy_publisher
  <2>2. /\ b \notin publisher'[t].bridges
        /\ \A u \in Topics \ {t} : publisher'[u] = publisher[u]
    BY <1>1, <2>1 DEF DropPublishers, NoPublisher, PubInv, PubManager
  <2>3. QED
    BY <1>2, <1>3, <2>2 DEF OwnTypesAgree, Agree, Subscribers
<1>6. QED
  BY <1>4, <1>5

\* Subscribing keeps the agreement if it does not raise.
LEMMA SubscribeKeeps ==
    ASSUME GTypeOK, IInv, NEW b \in Bridges, NEW t \in Topics,
           NEW ty \in Types \cup {NoType}, NEW mode \in Modes,
           op_subscribe(b, t, ty, mode), OwnTypesAgree(b)
    PROVE  /\ OwnTypesAgree(b)'
           /\ Agree(b) /\ ~SubscribeRaises(t, ty) => Agree(b)'
<1>1. SubInv /\ subscribed_topic \in [Bridges -> SUBSET Topics]
  BY IInvSplits DEF GTypeOK
<1>2. published_topic' = published_topic /\ publisher' = publisher
  BY DEF op_subscribe, create_subscription, nodeVars, pubVars
<1>3. ~SubscribeRaises(t, ty) => subscribed_topic'[b] = subscribed_topic[b] \cup {t}
  BY <1>1 DEF op_subscribe, SubscribeRaises
<1>4. CASE SubscribeRaises(t, ty)
  BY <1>2, <1>4 DEF OwnTypesAgree
<1>5. CASE ~SubscribeRaises(t, ty)
  <2> DEFINE m == IF HasSubscription(t) THEN subscriptions[t]
                  ELSE NewSubscription(ty, t, mode)
  <2>1. subscriptions' = [subscriptions EXCEPT ![t] = [m EXCEPT !.callbacks[b] = mode]]
    BY <1>5 DEF op_subscribe, create_subscription
  <2>2. m \in SubManager
    BY <1>1 DEF SubInv, NewSubscription, SubManager
  <2> HIDE DEF m
  <2>3. /\ b \in Subscribers(subscriptions'[t])
        /\ \A u \in Topics \ {t} : subscriptions'[u] = subscriptions[u]
    BY <1>1, <2>1, <2>2, NodeAssumption DEF SubInv, SubManager, Subscribers
  <2>4. QED
    BY <1>2, <1>3, <2>3 DEF OwnTypesAgree, Agree
<1>6. QED
  BY <1>4, <1>5

\* Unsubscribing keeps the agreement whether it raises or not: when it fails to
\* destroy the manager the bridge has already left it.
LEMMA UnsubscribeKeeps ==
    ASSUME GTypeOK, IInv, NEW b \in Bridges, NEW t \in Topics,
           op_unsubscribe(b, t), OwnTypesAgree(b)
    PROVE  OwnTypesAgree(b)' /\ (Agree(b) => Agree(b)')
<1>1. SubInv /\ subscribed_topic \in [Bridges -> SUBSET Topics]
  BY IInvSplits DEF GTypeOK
<1>2. published_topic' = published_topic /\ publisher' = publisher
  BY DEF op_unsubscribe, destroy_subscription, nodeVars, pubVars
<1>3. subscribed_topic'[b] = subscribed_topic[b] \ {t}
  BY <1>1 DEF op_unsubscribe
<1>4. CASE ~HasSubscription(t)
  <2>1. subscriptions' = subscriptions /\ b \notin Subscribers(subscriptions[t])
    BY <1>1, <1>4 DEF op_unsubscribe, nodeVars, SubInv
  <2>2. QED
    BY <1>2, <1>3, <2>1 DEF OwnTypesAgree, Agree
<1>5. CASE HasSubscription(t)
  <2>1. PICK gone \in SUBSET Topics : DropSubscriptions({t}, b, gone, gone) /\ gone \subseteq {t}
    BY <1>5 DEF op_unsubscribe, destroy_subscription, Emptied
  <2>2. /\ subscriptions'[t] \in {NoSubscription, Without(t, b)}
        /\ \A u \in Topics \ {t} : subscriptions'[u] = subscriptions[u]
    BY <2>1 DEF DropSubscriptions
  <2>3. /\ b \notin Subscribers(NoSubscription)
        /\ b \notin Subscribers(Without(t, b))
    BY <1>1, WithoutType DEF NoSubscription, Subscribers, SubInv
  <2>4. b \notin Subscribers(subscriptions'[t])
    BY <2>2, <2>3
  <2>5. QED
    BY <1>2, <1>3, <2>2, <2>4 DEF OwnTypesAgree, Agree
<1>6. QED
  BY <1>4, <1>5

-----------------------------------------------------------------------------
(***************************************************************************)
(* The invariant of the gateways                                            *)
(***************************************************************************)
\* A message of b keeps b's own types right, and its agreement unless the
\* connection goes down.
LEMMA MessageKeeps ==
    ASSUME GTypeOK, IInv, NEW b \in Bridges, OnMessage(b), OwnTypesAgree(b)
    PROVE  /\ OwnTypesAgree(b)'
           /\ Agree(b) => Agree(b)' \/ conn'[b] = "closing"
<1>1. PICK t \in Topics :
         \/ \E ty \in Types : OnAdvertise(b, t, ty)
         \/ OnUnadvertise(b, t)
         \/ OnPublish(b, t)
         \/ \E ty \in Types \cup {NoType}, mode \in Modes : OnSubscribe(b, t, ty, mode)
         \/ OnUnsubscribe(b, t)
  BY DEF OnMessage
<1>2. ASSUME NEW raises \in BOOLEAN, EndIf(b, raises), raises
      PROVE  conn'[b] = "closing"
  BY <1>2 DEF EndIf, GTypeOK
<1>3. ASSUME NEW ty \in Types, OnAdvertise(b, t, ty)
      PROVE  OwnTypesAgree(b)' /\ (Agree(b) => Agree(b)' \/ conn'[b] = "closing")
  <2>1. AdvertiseRaises(b, t, ty) \in BOOLEAN
    BY DEF AdvertiseRaises, CreatePublisherRaises
  <2>2. QED
    BY <1>2, <1>3, <2>1, AdvertiseKeeps DEF OnAdvertise
<1>4. ASSUME NEW ty \in Types \cup {NoType}, NEW mode \in Modes, OnSubscribe(b, t, ty, mode)
      PROVE  OwnTypesAgree(b)' /\ (Agree(b) => Agree(b)' \/ conn'[b] = "closing")
  <2>1. SubscribeRaises(t, ty) \in BOOLEAN
    BY DEF SubscribeRaises, TypeLookupRaises, CreateSubscriptionRaises
  <2>2. QED
    BY <1>2, <1>4, <2>1, SubscribeKeeps DEF OnSubscribe
<1>5. CASE OnUnadvertise(b, t)
  BY <1>5, UnadvertiseKeeps DEF OnUnadvertise
<1>6. CASE OnUnsubscribe(b, t)
  BY <1>6, UnsubscribeKeeps DEF OnUnsubscribe
<1>7. CASE OnPublish(b, t)
  BY <1>7 DEF OnPublish, nodeVars, topicVars, OwnTypesAgree, Agree, Subscribers
<1>8. QED
  BY <1>1, <1>3, <1>4, <1>5, <1>6, <1>7

\* A command of b keeps b's own types right, and its agreement unless the batch
\* task dies of it.
LEMMA CommandKeeps ==
    ASSUME GTypeOK, IInv, NEW b \in Bridges, BatchStep(b), OwnTypesAgree(b)
    PROVE  /\ OwnTypesAgree(b)'
           /\ Agree(b) => Agree(b)' \/ batch_task'[b] = "dead"
<1> DEFINE c == Head(batch_queue[b])
<1>1. batch_queue[b] # <<>>
  BY DEF BatchStep, BatchPub, BatchUnadv, BatchSub, BatchUnsub, Take
<1>2. c \in Commands
  BY <1>1 DEF GTypeOK
<1>3. /\ c.topic \in Topics
      /\ c.op = "pub" => c.type \in Types /\ c.mode \in Modes
      /\ c.op = "sub" => c.type \in Types
  BY <1>2 DEF Commands
<1>4. PICK sendFails \in BOOLEAN :
        \/ BatchPub(b, sendFails) \/ BatchUnadv(b, sendFails)
        \/ BatchSub(b, sendFails) \/ BatchUnsub(b, sendFails)
  BY DEF BatchStep
<1>5. ASSUME NEW raises \in BOOLEAN, DieIf(b, raises), raises
      PROVE  batch_task'[b] = "dead"
  BY <1>5 DEF DieIf, GTypeOK
<1> HIDE DEF c
<1>6. CASE BatchPub(b, sendFails)
  <2>1. /\ c.op = "pub"
        /\ op_subscribe(b, c.topic, c.type, c.mode)
        /\ DieIf(b, SubscribeRaises(c.topic, c.type) \/ sendFails)
    BY <1>6 DEF BatchPub, Take, c
  <2>2. (SubscribeRaises(c.topic, c.type) \/ sendFails) \in BOOLEAN
    OBVIOUS
  <2>3. SubscribeRaises(c.topic, c.type) => batch_task'[b] = "dead"
    BY <1>5, <2>1, <2>2
  <2>4. QED
    BY <1>3, <2>1, <2>3, SubscribeKeeps
<1>7. CASE BatchSub(b, sendFails)
  <2>1. /\ c.op = "sub"
        /\ op_advertise(b, c.topic, c.type)
        /\ DieIf(b, AdvertiseRaises(b, c.topic, c.type) \/ sendFails)
    BY <1>7 DEF BatchSub, Take, c
  <2>2. (AdvertiseRaises(b, c.topic, c.type) \/ sendFails) \in BOOLEAN
    OBVIOUS
  <2>3. AdvertiseRaises(b, c.topic, c.type) => batch_task'[b] = "dead"
    BY <1>5, <2>1, <2>2
  <2>4. QED
    BY <1>3, <2>1, <2>3, AdvertiseKeeps
<1>8. CASE BatchUnadv(b, sendFails)
  BY <1>3, <1>8, UnsubscribeKeeps DEF BatchUnadv, c
<1>9. CASE BatchUnsub(b, sendFails)
  BY <1>3, <1>9, UnadvertiseKeeps DEF BatchUnsub, c
<1>10. QED
  BY <1>4, <1>6, <1>7, <1>8, <1>9

\* The parts of the invariant about all gateways, from their parts about each.
LEMMA GInvByGateway ==
    /\ AdvertisedTypesAgree <=> \A b \in Bridges : OwnTypesAgree(b)
    /\ HealthyGatewaysAgree <=>
         \A b \in Bridges : conn[b] = "open" /\ batch_task[b] = "running" => Agree(b)
BY DEF AdvertisedTypesAgree, OwnTypesAgree, HealthyGatewaysAgree, Agree

\* Every step keeps the invariant.
LEMMA GNextGInv == GInv /\ [GNext]_gatewayVars => GInv'
<1> SUFFICES ASSUME GInv, [GNext]_gatewayVars
             PROVE  /\ AdvertisedTypesAgree' /\ HealthyGatewaysAgree'
                    /\ ClosedLeavesNothing' /\ TasksFollowConnections'
  BY StepUsesNode, NextIInv, TypesStep DEF GInv, IInv
<1> DEFINE Goal == /\ AdvertisedTypesAgree' /\ HealthyGatewaysAgree'
                   /\ ClosedLeavesNothing' /\ TasksFollowConnections'
<1> USE DEF GInv
<1>1. /\ conn \in [Bridges -> {"new", "open", "closing", "closed", "leaked"}]
      /\ batch_task \in [Bridges -> {"none", "running", "dead", "cancelled"}]
      /\ \A b \in Bridges : OwnTypesAgree(b)
  BY GInvByGateway DEF GTypeOK
<1>2. ASSUME NEW d \in Bridges, OnMessage(d)
      PROVE  Goal
  <2>1. OnlyOf(d)
    BY <1>2, MessageHandler, HandlerIsolation
  <2>2. OwnTypesAgree(d)' /\ (Agree(d) => Agree(d)' \/ conn'[d] = "closing")
    BY <1>1, <1>2, MessageKeeps
  <2>3. /\ conn[d] = "open" /\ conn' \in {conn, [conn EXCEPT ![d] = "closing"]}
        /\ batch_task' = batch_task
    BY <1>2, MessageHandler DEF batchVars
  <2>4. AdvertisedTypesAgree'
    BY <2>1, <2>2, OthersKeep DEF AdvertisedTypesAgree, OwnTypesAgree
  <2>5. HealthyGatewaysAgree'
    <3>1. SUFFICES ASSUME NEW b \in Bridges, conn'[b] = "open", batch_task'[b] = "running"
                   PROVE  Agree(b)'
      BY DEF HealthyGatewaysAgree, Agree
    <3>2. conn[b] = "open" /\ batch_task[b] = "running" /\ Agree(b)
      BY <1>1, <2>3, <3>1, GInvByGateway
    <3>3. QED
      BY <2>1, <2>2, <3>1, <3>2, OthersKeep
  <2>6. ClosedLeavesNothing'
    BY <1>1, <2>1, <2>3, OthersKeep DEF ClosedLeavesNothing, RegisteredNowhere
  <2>7. TasksFollowConnections'
    BY <1>1, <2>1, <2>3 DEF TasksFollowConnections, OnlyOf, TopicsOnlyOf
  <2>8. QED
    BY <2>4, <2>5, <2>6, <2>7
<1>3. ASSUME NEW d \in Bridges, BatchStep(d)
      PROVE  Goal
  <2>1. OnlyOf(d)
    BY <1>3, CommandHandler, HandlerIsolation
  <2>2. OwnTypesAgree(d)' /\ (Agree(d) => Agree(d)' \/ batch_task'[d] = "dead")
    BY <1>1, <1>3, CommandKeeps
  <2>3. /\ batch_task[d] = "running"
        /\ batch_task' \in {batch_task, [batch_task EXCEPT ![d] = "dead"]}
        /\ conn' = conn
        /\ conn[d] \in {"open", "closing", "leaked"}
    BY <1>3, CommandHandler DEF TasksFollowConnections
  <2>4. AdvertisedTypesAgree'
    BY <2>1, <2>2, OthersKeep DEF AdvertisedTypesAgree, OwnTypesAgree
  <2>5. HealthyGatewaysAgree'
    <3>1. SUFFICES ASSUME NEW b \in Bridges, conn'[b] = "open", batch_task'[b] = "running"
                   PROVE  Agree(b)'
      BY DEF HealthyGatewaysAgree, Agree
    <3>2. conn[b] = "open" /\ batch_task[b] = "running" /\ Agree(b)
      BY <1>1, <2>3, <3>1, GInvByGateway
    <3>3. QED
      BY <2>1, <2>2, <3>1, <3>2, OthersKeep
  <2>6. ClosedLeavesNothing'
    BY <2>1, <2>3, OthersKeep DEF ClosedLeavesNothing, RegisteredNowhere
  <2>7. TasksFollowConnections'
    BY <1>1, <2>1, <2>3 DEF TasksFollowConnections, OnlyOf, TopicsOnlyOf
  <2>8. QED
    BY <2>4, <2>5, <2>6, <2>7
<1>4. ASSUME NEW d \in Bridges, FinishClose(d)
      PROVE  Goal
  <2>1. OnlyOf(d) /\ RegisteredNowhere(d)'
    BY <1>4, CloseIsolation
  <2>2. /\ conn' = [conn EXCEPT ![d] = "closed"]
        /\ batch_task' = [batch_task EXCEPT ![d] = "cancelled"]
    BY <1>4 DEF FinishClose
  <2>3. AdvertisedTypesAgree'
    BY <2>1, OthersKeep DEF AdvertisedTypesAgree, RegisteredNowhere
  <2>4. HealthyGatewaysAgree'
    BY <1>1, <2>1, <2>2, OthersKeep, GInvByGateway DEF HealthyGatewaysAgree, Agree
  <2>5. ClosedLeavesNothing'
    BY <1>1, <2>1, <2>2, OthersKeep DEF ClosedLeavesNothing, RegisteredNowhere
  <2>6. TasksFollowConnections'
    BY <1>1, <1>4, <2>2 DEF TasksFollowConnections, FinishClose, topicVars
  <2>7. QED
    BY <2>3, <2>4, <2>5, <2>6
<1>5. ASSUME NEW d \in Bridges, Connect(d) \/ Hangup(d) \/ CloseRaises(d)
      PROVE  Goal
  <2>1. UNCHANGED <<nodeVars, topicVars>>
    BY <1>5 DEF Connect, Hangup, CloseRaises
  <2>2. conn[d] = "new" => Agree(d)
    BY DEF ClosedLeavesNothing, TasksFollowConnections, RegisteredNowhere, Agree
  <2>3. ASSUME NEW b \in Bridges
        PROVE  /\ Agree(b) => Agree(b)'
               /\ RegisteredNowhere(b) => RegisteredNowhere(b)'
    BY <2>1 DEF nodeVars, topicVars, Agree, RegisteredNowhere, Subscribers
  <2>4. AdvertisedTypesAgree'
    BY <2>1 DEF nodeVars, topicVars, AdvertisedTypesAgree
  <2>5. HealthyGatewaysAgree'
    <3>1. SUFFICES ASSUME NEW b \in Bridges, conn'[b] = "open", batch_task'[b] = "running"
                   PROVE  Agree(b)'
      BY DEF HealthyGatewaysAgree, Agree
    <3>2. CASE Connect(d)
      <4>1. \/ b = d /\ conn[d] = "new"
            \/ conn[b] = "open" /\ batch_task[b] = "running"
        BY <1>1, <3>1, <3>2 DEF Connect
      <4>2. QED
        BY <2>2, <2>3, <4>1, GInvByGateway
    <3>3. CASE Hangup(d) \/ CloseRaises(d)
      <4>1. conn[b] = "open" /\ batch_task[b] = "running"
        BY <1>1, <3>1, <3>3 DEF Hangup, CloseRaises, batchVars
      <4>2. QED
        BY <2>3, <4>1, GInvByGateway
    <3>4. QED
      BY <1>5, <3>2, <3>3
  <2>6. ClosedLeavesNothing'
    <3>1. ASSUME NEW b \in Bridges, conn'[b] \in {"new", "closed"}
          PROVE  conn[b] \in {"new", "closed"}
      BY <1>1, <1>5, <3>1 DEF Connect, Hangup, CloseRaises
    <3>2. QED
      BY <2>3, <3>1 DEF ClosedLeavesNothing, RegisteredNowhere
  <2>7. TasksFollowConnections'
    BY <1>1, <1>5 DEF TasksFollowConnections, Connect, Hangup, CloseRaises, topicVars, batchVars
  <2>8. QED
    BY <2>4, <2>5, <2>6, <2>7
<1>6. CASE (\E b \in Bridges, c \in Commands : AddCommand(b, c)) \/ RosThread
           \/ UNCHANGED gatewayVars
  <2>1. /\ UNCHANGED <<conn, topicVars, batch_task, publisher>>
        /\ UNCHANGED subscriptions
    BY <1>6 DEF AddCommand, RosThread, stop, DeliverUnknownCompression, RosThreadEnds,
                batchVars, gatewayVars, nodeVars
  <2>2. QED
    BY <2>1 DEF topicVars, AdvertisedTypesAgree, HealthyGatewaysAgree, Subscribers,
                ClosedLeavesNothing, RegisteredNowhere, TasksFollowConnections
<1>7. QED
  BY <1>2, <1>3, <1>4, <1>5, <1>6 DEF GNext

\* The inductive invariant holds in every reachable state.
THEOREM GatewayInvariant == GSpec => []GInv
<1>1. GInit => GInv
  <2>1. GInit => GTypeOK /\ IInv
    BY GInitTypes
  <2>2. GInit => AdvertisedTypesAgree /\ HealthyGatewaysAgree /\ ClosedLeavesNothing
                 /\ TasksFollowConnections
    BY DEF GInit, Init, NoPublisher, NoSubscription, Subscribers, AdvertisedTypesAgree,
           HealthyGatewaysAgree, ClosedLeavesNothing, RegisteredNowhere,
           TasksFollowConnections
  <2>3. QED
    BY <2>1, <2>2 DEF GInv
<1>2. QED
  BY <1>1, GNextGInv, PTL DEF GSpec

\* No gateway ever shares a publisher of a type it did not advertise.
THEOREM AdvertisedTypesAlwaysAgree == GSpec => []AdvertisedTypesAgree
BY GatewayInvariant, PTL DEF GInv

\* While its connection and batch task live, a gateway's dictionaries list
\* exactly what the node manager has registered for it.
THEOREM HealthyGatewaysAlwaysAgree == GSpec => []HealthyGatewaysAgree
BY GatewayInvariant, PTL DEF GInv

\* After close() a gateway is out of the registry and stays out.
THEOREM ClosedGatewaysLeaveNothing == GSpec => []ClosedLeavesNothing
BY GatewayInvariant, PTL DEF GInv
=============================================================================
