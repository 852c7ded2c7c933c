----------------------------- MODULE NodeManager -----------------------------
(***************************************************************************)
(* The topic half of rosextpy/node_manager.py: one ROS node per process,    *)
(* shared by every bridge (a gateway connection, known by its bridge_id).   *)
(* Bridges ask for publishers and subscriptions by topic; the manager keeps *)
(* one PublishManager and one SubscriptionManager per topic and destroys    *)
(* the ROS handle when the last bridge has gone.                            *)
(*                                                                          *)
(* The registry is changed on the asyncio loop only, by calls that do not   *)
(* await: each call is one action.  The ROS thread (run) reads it when it   *)
(* delivers a message, and ends for good when a callback raises.            *)
(*                                                                          *)
(* Definitions whose comment starts with "Seeded bug" are no part of the    *)
(* specification: they vary the definition that follows, to test that the   *)
(* properties notice.                                                       *)
(*                                                                          *)
(* A call that raises before it has changed anything is not an action here  *)
(* (it is a stuttering step); its condition is an operator, because the     *)
(* gateway that made the call behaves differently when it raises.           *)
(***************************************************************************)
CONSTANTS Bridges,       \* bridge ids
          Topics,        \* topic names
          Types,         \* ROS message type names
          NoType,        \* "not given" / "no manager"
          RejectedNames, \* the topic names that ROS refuses
          UnknownTypes,  \* the type names that no installed package defines
          Modes          \* how bridges want messages, see SubManager

ASSUME NodeAssumption ==
    /\ RejectedNames \subseteq Topics
    /\ UnknownTypes \subseteq Types
    /\ NoType \notin Types
    /\ Modes \subseteq {"raw", "fields"}

VARIABLES publisher,         \* NodeManager.publisher
          subscriptions,     \* NodeManager.subscriptions
          ros_publishers,    \* the topics with a ROS publisher of the node
          ros_subscriptions, \* the topics with a ROS subscription of the node
          spinning           \* run() has not ended: the node exists

pubVars  == <<publisher, ros_publishers>>
subVars  == <<subscriptions, ros_subscriptions>>
nodeVars == <<publisher, subscriptions, ros_publishers, ros_subscriptions,
              spinning>>

-----------------------------------------------------------------------------
\* A manager object, or the absence of one (its type is then NoType).
PubManager == [type : Types \cup {NoType}, bridges : SUBSET Bridges]
NoPublisher == [type |-> NoType, bridges |-> {}]

\* callbacks[b]: how b wants the messages (compression "cbor-raw" or any
\* other), "off" when b has no callback.  raw: the ROS subscription hands over
\* serialized bytes.  handle: the constructor got a subscription from the node.
SubManager == [type      : Types \cup {NoType},
               raw       : BOOLEAN,
               handle    : BOOLEAN,
               callbacks : [Bridges -> Modes \cup {"off"}]]
NoSubscription == [type |-> NoType, raw |-> FALSE, handle |-> FALSE,
                   callbacks |-> [b \in Bridges |-> "off"]]

HasPublisher(t)    == publisher[t].type # NoType
HasSubscription(t) == subscriptions[t].type # NoType   \* has_subscription

Subscribers(m) == {b \in Bridges : m.callbacks[b] # "off"}

Init ==
    /\ publisher = [t \in Topics |-> NoPublisher]
    /\ subscriptions = [t \in Topics |-> NoSubscription]
    /\ ros_publishers = {}
    /\ ros_subscriptions = {}
    /\ spinning = TRUE

-----------------------------------------------------------------------------
(***************************************************************************)
(* Publishers                                                               *)
(***************************************************************************)
\* Seeded bug: an existing manager is taken whatever its type is.
CreatePublisherIgnoresType(ty, t) ==
    ~HasPublisher(t) /\ (ty \in UnknownTypes \/ t \in RejectedNames \/ ~spinning)

\* The constructor lets every failure through: a type it cannot load, a name
\* the node refuses, a node that is gone.  An existing manager insists on its
\* own type.
CreatePublisherRaises(ty, t) ==
    IF HasPublisher(t) THEN ty # publisher[t].type
    ELSE ty \in UnknownTypes \/ t \in RejectedNames \/ ~spinning

\* Seeded bug: a new manager replaces the registered one.
CreatePublisherAnew(ty, t, b) ==
    /\ ~CreatePublisherRaises(ty, t)
    /\ publisher' = [publisher EXCEPT ![t] = [type |-> ty, bridges |-> {b}]]
    /\ ros_publishers' = ros_publishers \cup {t}
    /\ UNCHANGED <<subVars, spinning>>

create_publisher(ty, t, b) ==
    /\ ~CreatePublisherRaises(ty, t)
    /\ publisher' = [publisher EXCEPT ![t] = [type |-> ty,
                                              bridges |-> @.bridges \cup {b}]]
    /\ ros_publishers' = IF HasPublisher(t) THEN ros_publishers
                         ELSE ros_publishers \cup {t}
    /\ UNCHANGED <<subVars, spinning>>

\* Seeded bug: destroy_when_empty looks before the bridge is taken out.
DropPublishersTooEarly(ts, b) ==
    LET empty == {t \in ts : HasPublisher(t) /\ publisher[t].bridges = {}}
    IN /\ publisher' = [t \in Topics |->
                          IF t \in empty THEN NoPublisher
                          ELSE IF t \in ts THEN [publisher[t] EXCEPT !.bridges = @ \ {b}]
                          ELSE publisher[t]]
       /\ ros_publishers' = ros_publishers \ empty

\* destroy_when_empty, for every manager of ts once it has lost the bridge b.
DropPublishers(ts, b) ==
    LET left(t) == publisher[t].bridges \ {b}
        empty   == {t \in ts : HasPublisher(t) /\ left(t) = {}}
    IN /\ publisher' = [t \in Topics |->
                          IF t \in empty THEN NoPublisher
                          ELSE IF t \in ts THEN [publisher[t] EXCEPT !.bridges = left(t)]
                          ELSE publisher[t]]
       /\ ros_publishers' = ros_publishers \ empty

\* Seeded bug: the manager goes although other bridges use it.
DestroyPublisherOfAll(t, b) ==
    /\ HasPublisher(t)
    /\ publisher' = [publisher EXCEPT ![t] = NoPublisher]
    /\ ros_publishers' = ros_publishers \ {t}
    /\ UNCHANGED <<subVars, spinning>>

destroy_publisher(t, b) ==
    /\ HasPublisher(t)
    /\ DropPublishers({t}, b)
    /\ UNCHANGED <<subVars, spinning>>

-----------------------------------------------------------------------------
(***************************************************************************)
(* Subscriptions                                                            *)
(***************************************************************************)
\* Only an unloadable or unknown type raises, and only for a new manager: what
\* the node raises is logged and swallowed by the constructor.
CreateSubscriptionRaises(ty, t) ==
    ~HasSubscription(t) /\ ty \in UnknownTypes \cup {NoType}

NewSubscription(ty, t, mode) ==
    [type |-> ty, raw |-> (mode = "raw"),
     handle |-> (spinning /\ t \notin RejectedNames),
     callbacks |-> [b \in Bridges |-> "off"]]

\* Seeded bug: the node is given the type for the name.
CreateSubscriptionSwapped(ty, t, b, mode) ==
    LET m == IF HasSubscription(t) THEN subscriptions[t]
             ELSE NewSubscription(ty, t, mode)
    IN /\ ~CreateSubscriptionRaises(ty, t)
       /\ subscriptions' = [subscriptions EXCEPT ![t] =
                              [m EXCEPT !.callbacks[b] = mode]]
       /\ ros_subscriptions' = ros_subscriptions \cup {ty}
       /\ UNCHANGED <<pubVars, spinning>>

create_subscription(ty, t, b, mode) ==
    LET m == IF HasSubscription(t) THEN subscriptions[t]
             ELSE NewSubscription(ty, t, mode)
    IN /\ ~CreateSubscriptionRaises(ty, t)
       /\ subscriptions' = [subscriptions EXCEPT ![t] =
                              [m EXCEPT !.callbacks[b] = mode]]
       /\ ros_subscriptions' = IF ~HasSubscription(t) /\ m.handle
                               THEN ros_subscriptions \cup {t}
                               ELSE ros_subscriptions
       /\ UNCHANGED <<pubVars, spinning>>

\* The manager of t after remove_subscription(b).
Without(t, b) == [subscriptions[t] EXCEPT !.callbacks[b] = "off"]

\* Seeded bug: managers count as empty as soon as b leaves them.
EmptiedAlways(ts, b) == {t \in ts : HasSubscription(t)}

\* The managers of ts that remove_subscription(b) leaves with no callback.
Emptied(ts, b) == {t \in ts : HasSubscription(t) /\ Subscribers(Without(t, b)) = {}}

\* Destroying an empty manager that never got a handle raises AttributeError.
Unusable(ts) == {t \in ts : HasSubscription(t) /\ ~subscriptions[t].handle}

\* Seeded bug: the managers leave the registry, their subscriptions live on.
DropSubscriptionsKeepingHandles(ts, b, gone, destroyed) ==
    /\ subscriptions' = [t \in Topics |->
                           IF t \in gone THEN NoSubscription
                           ELSE IF t \in ts THEN Without(t, b)
                           ELSE subscriptions[t]]
    /\ UNCHANGED ros_subscriptions

\* remove_subscription(b) on all managers of ts; those of gone leave the
\* registry, and the node destroys the subscriptions of destroyed.
DropSubscriptions(ts, b, gone, destroyed) ==
    /\ subscriptions' = [t \in Topics |->
                           IF t \in gone THEN NoSubscription
                           ELSE IF t \in ts THEN Without(t, b)
                           ELSE subscriptions[t]]
    /\ ros_subscriptions' = ros_subscriptions \ destroyed

DestroySubscriptionRaises(t, b) == Emptied({t}, b) \cap Unusable({t}) # {}

\* When it raises the bridge has left but the manager stays registered.
destroy_subscription(t, b) ==
    LET gone == IF DestroySubscriptionRaises(t, b) THEN {} ELSE Emptied({t}, b)
    IN /\ HasSubscription(t)
       /\ DropSubscriptions({t}, b, gone, gone)
       /\ UNCHANGED <<pubVars, spinning>>

\* One manager without a handle among the emptied ones ends the loop before
\* self.subscriptions is replaced: the managers met before it (any subset of
\* the others: the order of the dict is abstracted) are destroyed and stay
\* registered.  The exception is logged, not raised.
DestroySubscriptionsOf(b) ==
    LET empty == Emptied(Topics, b)
        bad   == empty \cap Unusable(Topics)
    IN \/ bad = {} /\ DropSubscriptions(Topics, b, empty, empty)
       \/ /\ bad # {}
          /\ \E met \in SUBSET (empty \ bad) : DropSubscriptions(Topics, b, {}, met)

\* Seeded bug: the publishers of the gateway are forgotten.
RemoveWithGatewaySubscriptionsOnly(b) ==
    /\ DestroySubscriptionsOf(b)
    /\ UNCHANGED <<pubVars, spinning>>

\* remove_with_gateway: what close() of a gateway calls.
remove_with_gateway(b) ==
    /\ DestroySubscriptionsOf(b)
    /\ DropPublishers(Topics, b)
    /\ UNCHANGED spinning

-----------------------------------------------------------------------------
(***************************************************************************)
(* The ROS thread                                                           *)
(***************************************************************************)
\* run(): an exception other than ROSServiceFailException ends the thread,
\* which destroys the node.
RosThreadEnds ==
    /\ spinning
    /\ spinning' = FALSE
    /\ ros_publishers' = {}
    /\ ros_subscriptions' = {}
    /\ UNCHANGED <<publisher, subscriptions>>

\* A message arrives on t and a callback that converts its fields raises in the
\* ROS thread: it was registered with a compression that nobody knows.
DeliverUnknownCompression(t) ==
    /\ t \in ros_subscriptions
    /\ \E b \in Bridges : subscriptions[t].callbacks[b] = "fields"
    /\ RosThreadEnds

\* stop(): the agent's close destroys the node under the running thread.
stop == RosThreadEnds

-----------------------------------------------------------------------------
PublisherCall(b, t) == \/ \E ty \in Types : create_publisher(ty, t, b)
                       \/ destroy_publisher(t, b)

SubscriptionCall(b, t) ==
    \/ \E ty \in Types \cup {NoType}, mode \in Modes :
           create_subscription(ty, t, b, mode)
    \/ destroy_subscription(t, b)

Next ==
    \/ \E b \in Bridges, t \in Topics : PublisherCall(b, t) \/ SubscriptionCall(b, t)
    \/ \E b \in Bridges : remove_with_gateway(b)
    \/ \E t \in Topics : DeliverUnknownCompression(t)
    \/ stop

Spec == Init /\ [][Next]_nodeVars

-----------------------------------------------------------------------------
(***************************************************************************)
(* Properties                                                               *)
(***************************************************************************)
\* The dictionaries hold managers, the node holds handles of topics.
TypeOK ==
    /\ publisher \in [Topics -> PubManager]
    /\ subscriptions \in [Topics -> SubManager]
    /\ ros_publishers \subseteq Topics
    /\ ros_subscriptions \subseteq Topics
    /\ spinning \in BOOLEAN

\* Nothing is ever orphaned: whatever calls succeed, fail half way or race with
\* the end of the ROS thread, each handle of the node belongs to a registered
\* manager, so that a later call can still find and destroy it and no second
\* handle is opened for the topic; a topic that is not registered has no users.
NothingOrphaned ==
    /\ \A t \in ros_publishers : HasPublisher(t)
    /\ \A t \in ros_subscriptions : HasSubscription(t) /\ subscriptions[t].handle
    /\ ~spinning => ros_publishers \cup ros_subscriptions = {}
    /\ \A t \in Topics : /\ ~HasPublisher(t) => publisher[t].bridges = {}
                         /\ ~HasSubscription(t) => Subscribers(subscriptions[t]) = {}

\* While the node runs, its publishers are exactly those some bridge uses, and
\* so are its subscriptions as long as every registered subscription manager
\* got a handle: no call of destroy_* or remove_with_gateway leaves a handle
\* without users, or a user without handle.
HandlesMatchUse ==
    spinning =>
        /\ ros_publishers = {t \in Topics : publisher[t].bridges # {}}
        /\ Unusable(Topics) = {} =>
             ros_subscriptions = {t \in Topics : Subscribers(subscriptions[t]) # {}}

\* What b has registered with the node manager.
RegisteredBy(b) ==
    <<{t \in Topics : b \in publisher[t].bridges},
      [t \in Topics |-> subscriptions[t].callbacks[b]]>>

\* A step changes what one bridge has registered at most, and as long as the
\* node lives a handle is not destroyed, nor its manager replaced by one of
\* another type, under a bridge that used it before the step and uses it after.
NoDisturbance ==
    /\ \A b, c \in Bridges : \/ b = c
                             \/ UNCHANGED RegisteredBy(b)
                             \/ UNCHANGED RegisteredBy(c)
    /\ \A t \in Topics, b \in Bridges :
          b \in publisher[t].bridges /\ b \in publisher'[t].bridges =>
              /\ publisher'[t].type = publisher[t].type
              /\ spinning' /\ t \in ros_publishers => t \in ros_publishers'
    /\ \A t \in Topics, b \in Bridges :
          b \in Subscribers(subscriptions[t]) /\ b \in Subscribers(subscriptions'[t]) =>
              /\ subscriptions'[t].type = subscriptions[t].type
              /\ spinning' /\ t \in ros_subscriptions => t \in ros_subscriptions'

\* Bridges that share a handle do not disturb each other, whatever each of
\* them calls, clashes over or leaves behind (remove_publish and
\* remove_subscription take out one bridge, destroy_when_empty looks at all).
OthersUndisturbed == [][NoDisturbance]_nodeVars

\* The publishers of the node are shared handles in the sense of SharedHandles,
\* whatever names and types the bridges ask for.
SharedPublishers ==
    INSTANCE SharedHandles WITH Keys <- Topics,
        users <- [t \in Topics |-> publisher[t].bridges],
        open <- ros_publishers, failed <- ~spinning
PublishersAreShared == SharedPublishers!Spec

\* So are its subscriptions, if ROS accepts the topic names.
SharedSubscriptions ==
    INSTANCE SharedHandles WITH Keys <- Topics,
        users <- [t \in Topics |-> Subscribers(subscriptions[t])],
        open <- ros_subscriptions, failed <- ~spinning
SubscriptionsAreShared == SharedSubscriptions!Spec
=============================================================================
