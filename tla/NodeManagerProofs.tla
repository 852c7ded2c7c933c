-------------------------- MODULE NodeManagerProofs --------------------------
(***************************************************************************)
(* Proofs about NodeManager for any bridges, topics and types.              *)
(***************************************************************************)
EXTENDS NodeManager, TLAPS

USE NodeAssumption

\* The inductive invariant.  NothingOrphaned and HandlesMatchUse are not
\* inductive alone: joining a registered manager opens no handle, so a
\* registered manager must already have one (ManagersHaveHandles), and must
\* have a user, or its handle would be open without one (ManagersHaveUsers).
\* For subscriptions both fail for good once a manager without handle is
\* registered, because no call ever takes such a manager out.
ManagersHaveUsers ==
    \A t \in Topics :
        /\ HasPublisher(t) => publisher[t].bridges # {}
        /\ Unusable(Topics) = {} =>
             (HasSubscription(t) => Subscribers(subscriptions[t]) # {})

ManagersHaveHandles ==
    spinning =>
      \A t \in Topics :
        /\ HasPublisher(t) => t \in ros_publishers
        /\ Unusable(Topics) = {} => (HasSubscription(t) => t \in ros_subscriptions)

IInv == TypeOK /\ NothingOrphaned /\ ManagersHaveUsers /\ ManagersHaveHandles

-----------------------------------------------------------------------------
(***************************************************************************)
(* The operators on managers                                                *)
(***************************************************************************)
\* Without takes b from the callbacks of t's manager and changes nothing else.
LEMMA WithoutType ==
    ASSUME subscriptions \in [Topics -> SubManager], NEW t \in Topics, NEW b \in Bridges
    PROVE  /\ Without(t, b) \in SubManager
           /\ Without(t, b).type = subscriptions[t].type
           /\ Without(t, b).handle = subscriptions[t].handle
           /\ Subscribers(Without(t, b)) = Subscribers(subscriptions[t]) \ {b}
BY DEF Without, SubManager, Subscribers

\* The publishers' half of the invariant.
PubInv ==
    /\ publisher \in [Topics -> PubManager]
    /\ ros_publishers \subseteq Topics
    /\ \A t \in ros_publishers : HasPublisher(t)
    /\ ~spinning => ros_publishers = {}
    /\ \A t \in Topics : /\ ~HasPublisher(t) => publisher[t].bridges = {}
                         /\ HasPublisher(t) => publisher[t].bridges # {}
                         /\ spinning /\ HasPublisher(t) => t \in ros_publishers

\* The subscriptions' half.
SubInv ==
    /\ subscriptions \in [Topics -> SubManager]
    /\ ros_subscriptions \subseteq Topics
    /\ \A t \in ros_subscriptions : HasSubscription(t) /\ subscriptions[t].handle
    /\ ~spinning => ros_subscriptions = {}
    /\ \A t \in Topics : ~HasSubscription(t) => Subscribers(subscriptions[t]) = {}
    /\ Unusable(Topics) = {} =>
         \A t \in Topics : HasSubscription(t) =>
             /\ Subscribers(subscriptions[t]) # {}
             /\ spinning => t \in ros_subscriptions

\* The invariant is the conjunction of its halves.
LEMMA IInvSplits ==
    /\ IInv <=> PubInv /\ SubInv /\ spinning \in BOOLEAN
    /\ IInv' <=> PubInv' /\ SubInv' /\ spinning' \in BOOLEAN
BY DEF IInv, PubInv, SubInv, TypeOK, NothingOrphaned, ManagersHaveUsers,
       ManagersHaveHandles

\* Dropping a bridge from any set of publishers keeps the publishers' half.
LEMMA DropPublishersInv ==
    ASSUME NEW ts \in SUBSET Topics, NEW b \in Bridges,
           PubInv, DropPublishers(ts, b), UNCHANGED spinning
    PROVE  PubInv'
BY DEF PubInv, DropPublishers, HasPublisher, PubManager, NoPublisher

\* create_publisher keeps the publishers' half: it opens the handle it registers.
LEMMA CreatePublisherInv ==
    ASSUME NEW ty \in Types, NEW t \in Topics, NEW b \in Bridges,
           PubInv, create_publisher(ty, t, b)
    PROVE  PubInv'
BY DEF PubInv, create_publisher, CreatePublisherRaises, HasPublisher, PubManager,
       NoPublisher

\* Attaching a bridge to the manager of a topic, new or registered, keeps the
\* subscriptions' half.
LEMMA CreateSubscriptionInv ==
    ASSUME NEW ty \in Types \cup {NoType}, NEW t \in Topics, NEW b \in Bridges,
           NEW mode \in Modes, SubInv, create_subscription(ty, t, b, mode)
    PROVE  SubInv'
<1> DEFINE m == IF HasSubscription(t) THEN subscriptions[t]
                ELSE NewSubscription(ty, t, mode)
           n == [m EXCEPT !.callbacks[b] = mode]
<1>1. /\ m \in SubManager
      /\ m.type # NoType
      /\ ~HasSubscription(t) => (m.handle => spinning)
  BY DEF SubInv, create_subscription, CreateSubscriptionRaises, HasSubscription,
         NewSubscription, SubManager
<1>2. /\ n \in SubManager /\ n.type = m.type /\ n.handle = m.handle
      /\ b \in Subscribers(n)
  BY <1>1 DEF SubManager, Subscribers
<1>3. /\ subscriptions' = [subscriptions EXCEPT ![t] = n]
      /\ ros_subscriptions' = IF ~HasSubscription(t) /\ m.handle
                              THEN ros_subscriptions \cup {t} ELSE ros_subscriptions
      /\ spinning' = spinning
  BY DEF create_subscription
<1> HIDE DEF m, n
<1>4. subscriptions' \in [Topics -> SubManager] /\ subscriptions'[t] = n
  BY <1>2, <1>3 DEF SubInv
<1>5. ASSUME NEW u \in Topics, u # t
      PROVE  subscriptions'[u] = subscriptions[u]
  BY <1>3, <1>5 DEF SubInv
<1>6. ASSUME Unusable(Topics)' = {}
      PROVE  Unusable(Topics) = {} /\ m.handle
  <2>1. m.handle
    BY <1>1, <1>2, <1>4, <1>6 DEF Unusable, HasSubscription, SubManager
  <2>2. HasSubscription(t) => subscriptions[t].handle
    BY <2>1 DEF m
  <2>3. QED
    BY <1>5, <1>6, <2>1, <2>2 DEF Unusable, HasSubscription
<1>7. /\ ros_subscriptions' \subseteq Topics
      /\ ~spinning' => ros_subscriptions' = {}
  BY <1>1, <1>3 DEF SubInv
<1>8. ASSUME NEW u \in ros_subscriptions'
      PROVE  (HasSubscription(u) /\ subscriptions[u].handle)'
  <2>1. u = t => m.handle
    BY <1>3, <1>8 DEF SubInv, m
  <2>2. QED
    BY <1>1, <1>2, <1>3, <1>4, <1>5, <1>8, <2>1 DEF SubInv, HasSubscription
<1>9. ASSUME NEW u \in Topics
      PROVE  /\ (~HasSubscription(u) => Subscribers(subscriptions[u]) = {})'
             /\ Unusable(Topics)' = {} =>
                  (HasSubscription(u) => /\ Subscribers(subscriptions[u]) # {}
                                         /\ spinning => u \in ros_subscriptions)'
  <2>1. CASE u = t
    <3>1. Unusable(Topics)' = {} /\ spinning => t \in ros_subscriptions'
      BY <1>3, <1>6 DEF SubInv
    <3>2. QED
      BY <1>1, <1>2, <1>3, <1>4, <2>1, <3>1 DEF HasSubscription
  <2>2. CASE u # t
    <3>1. subscriptions'[u] = subscriptions[u]
      BY <1>5, <2>2
    <3>2. u \in ros_subscriptions => u \in ros_subscriptions'
      BY <1>3
    <3>3. QED
      BY <1>3, <1>6, <3>1, <3>2 DEF SubInv, HasSubscription, Subscribers
  <2>3. QED
    BY <2>1, <2>2
<1>10. QED
  BY <1>4, <1>7, <1>8, <1>9 DEF SubInv

\* Taking b out of the callbacks of ts, deregistering and destroying emptied
\* managers with a handle, keeps the subscriptions' half; if the destroyed
\* ones stay registered, some manager is unusable.
LEMMA DropSubscriptionsInv ==
    ASSUME NEW ts \in SUBSET Topics, NEW b \in Bridges,
           NEW gone \in SUBSET Emptied(ts, b),
           NEW destroyed \in SUBSET Emptied(ts, b),
           gone \subseteq destroyed,
           gone \cap Unusable(ts) = {},
           Unusable(ts) = {} => gone = Emptied(ts, b) /\ destroyed = gone,
           SubInv, DropSubscriptions(ts, b, gone, destroyed), UNCHANGED spinning
    PROVE  SubInv'
<1>1. ASSUME NEW t \in Topics
      PROVE  /\ t \in gone => subscriptions'[t] = NoSubscription
             /\ t \notin gone /\ t \in ts => subscriptions'[t] = Without(t, b)
             /\ t \notin ts => subscriptions'[t] = subscriptions[t]
  BY DEF DropSubscriptions, Emptied
<1>2. /\ NoSubscription \in SubManager
      /\ NoSubscription.type = NoType
      /\ Subscribers(NoSubscription) = {}
  BY DEF NoSubscription, SubManager, Subscribers
<1>3. ASSUME NEW t \in Topics
      PROVE  /\ Without(t, b) \in SubManager
             /\ Without(t, b).type = subscriptions[t].type
             /\ Without(t, b).handle = subscriptions[t].handle
             /\ Subscribers(Without(t, b)) = Subscribers(subscriptions[t]) \ {b}
  BY WithoutType DEF SubInv
<1>4. subscriptions' \in [Topics -> SubManager]
  <2>1. \A t \in Topics : subscriptions'[t] \in SubManager
    BY <1>1, <1>2, <1>3 DEF SubInv
  <2>2. QED
    BY <2>1 DEF DropSubscriptions
<1>5. /\ ros_subscriptions' = ros_subscriptions \ destroyed
      /\ ros_subscriptions' \subseteq Topics
      /\ ~spinning' => ros_subscriptions' = {}
  BY DEF DropSubscriptions, SubInv
<1>6. \A t \in ros_subscriptions' : (HasSubscription(t) /\ subscriptions[t].handle)'
  BY <1>1, <1>3, <1>5 DEF SubInv, HasSubscription
<1>7. \A t \in Topics : (~HasSubscription(t) => Subscribers(subscriptions[t]) = {})'
  BY <1>1, <1>2, <1>3 DEF SubInv, HasSubscription, Subscribers
<1>8. Unusable(Topics) \subseteq Unusable(Topics)'
  BY <1>1, <1>3 DEF Unusable, HasSubscription
<1>9. ASSUME Unusable(Topics)' = {}, NEW t \in Topics, HasSubscription(t)'
      PROVE  (Subscribers(subscriptions[t]) # {}
                /\ (spinning => t \in ros_subscriptions))'
  <2>1. Unusable(Topics) = {} /\ Unusable(ts) = {}
    BY <1>8, <1>9 DEF Unusable
  <2>2. gone = Emptied(ts, b) /\ destroyed = gone /\ t \notin gone
    BY <1>1, <1>2, <1>9, <2>1 DEF HasSubscription
  <2>3. HasSubscription(t)
    BY <1>1, <1>3, <1>9, <2>2 DEF HasSubscription
  <2>4. QED
    BY <1>1, <1>5, <2>1, <2>2, <2>3 DEF SubInv, Emptied, Subscribers
<1>10. QED
  BY <1>4, <1>5, <1>6, <1>7, <1>9 DEF SubInv

\* Each call of the node manager about subscriptions is such a drop.
LEMMA DestroySubscriptionInv ==
    ASSUME NEW t \in Topics, NEW b \in Bridges, SubInv, destroy_subscription(t, b)
    PROVE  SubInv'
<1> DEFINE gone == IF DestroySubscriptionRaises(t, b) THEN {} ELSE Emptied({t}, b)
<1>1. gone \subseteq Emptied({t}, b) /\ gone \cap Unusable({t}) = {}
  BY DEF DestroySubscriptionRaises
<1>2. Unusable({t}) = {} => gone = Emptied({t}, b)
  BY DEF DestroySubscriptionRaises
<1>3. DropSubscriptions({t}, b, gone, gone) /\ UNCHANGED spinning
  BY DEF destroy_subscription
<1>4. QED
  BY <1>1, <1>2, <1>3, DropSubscriptionsInv

\* Taking a gateway out keeps the subscriptions' half, also when the loop ends
\* half way.
LEMMA RemoveWithGatewayInv ==
    ASSUME NEW b \in Bridges, SubInv, DestroySubscriptionsOf(b), UNCHANGED spinning
    PROVE  SubInv'
<1> DEFINE empty == Emptied(Topics, b)
           bad   == empty \cap Unusable(Topics)
<1>1. CASE bad = {}
  <2>1. DropSubscriptions(Topics, b, empty, empty)
    BY <1>1 DEF DestroySubscriptionsOf
  <2>2. QED
    BY <1>1, <2>1, DropSubscriptionsInv
<1>2. CASE bad # {}
  <2>1. PICK met \in SUBSET (empty \ bad) : DropSubscriptions(Topics, b, {}, met)
    BY <1>2 DEF DestroySubscriptionsOf
  <2>2. Unusable(Topics) # {} /\ met \in SUBSET Emptied(Topics, b)
    BY <1>2
  <2>3. QED
    BY <2>1, <2>2, DropSubscriptionsInv
<1>3. QED
  BY <1>1, <1>2

-----------------------------------------------------------------------------
(***************************************************************************)
(* The invariant                                                            *)
(***************************************************************************)
\* The invariant holds of the empty registry.
LEMMA InitIInv == Init => IInv
<1> SUFFICES ASSUME Init PROVE PubInv /\ SubInv /\ spinning \in BOOLEAN
  BY IInvSplits
<1>1. PubInv
  BY DEF Init, PubInv, PubManager, NoPublisher, HasPublisher
<1>2. SubInv
  BY DEF Init, SubInv, SubManager, NoSubscription, HasSubscription, Subscribers
<1>3. QED
  BY <1>1, <1>2 DEF Init

\* A step that leaves one half's variables alone keeps that half.
LEMMA PubInvUnchanged ==
    ASSUME PubInv, UNCHANGED pubVars, UNCHANGED spinning PROVE PubInv'
BY DEF PubInv, pubVars, HasPublisher

\* The same for the subscriptions' half.
LEMMA SubInvUnchanged ==
    ASSUME SubInv, UNCHANGED subVars, UNCHANGED spinning PROVE SubInv'
BY DEF SubInv, subVars, HasSubscription, Unusable

\* Every step of the node manager keeps the invariant.
LEMMA NextIInv == IInv /\ [Next]_nodeVars => IInv'
<1> SUFFICES ASSUME PubInv, SubInv, spinning \in BOOLEAN, [Next]_nodeVars
             PROVE  PubInv' /\ SubInv' /\ spinning' \in BOOLEAN
  BY IInvSplits
<1>1. ASSUME NEW b \in Bridges, NEW t \in Topics, PublisherCall(b, t)
      PROVE  PubInv' /\ SubInv' /\ spinning' \in BOOLEAN
  <2>1. UNCHANGED <<subVars, spinning>>
    BY <1>1 DEF PublisherCall, create_publisher, destroy_publisher
  <2>2. ASSUME NEW ty \in Types, create_publisher(ty, t, b)
        PROVE  PubInv'
    BY <2>2, CreatePublisherInv
  <2>3. ASSUME destroy_publisher(t, b)
        PROVE  PubInv'
    BY <2>3, DropPublishersInv DEF destroy_publisher
  <2>4. QED
    BY <1>1, <2>1, <2>2, <2>3, SubInvUnchanged DEF PublisherCall
<1>2. ASSUME NEW b \in Bridges, NEW t \in Topics, SubscriptionCall(b, t)
      PROVE  PubInv' /\ SubInv' /\ spinning' \in BOOLEAN
  <2>1. UNCHANGED <<pubVars, spinning>>
    BY <1>2 DEF SubscriptionCall, create_subscription, destroy_subscription
  <2>2. SubInv'
    BY <1>2, CreateSubscriptionInv, DestroySubscriptionInv DEF SubscriptionCall
  <2>3. QED
    BY <2>1, <2>2, PubInvUnchanged
<1>3. ASSUME NEW b \in Bridges, remove_with_gateway(b)
      PROVE  PubInv' /\ SubInv' /\ spinning' \in BOOLEAN
  BY <1>3, RemoveWithGatewayInv, DropPublishersInv DEF remove_with_gateway
<1>4. ASSUME RosThreadEnds
      PROVE  PubInv' /\ SubInv' /\ spinning' \in BOOLEAN
  BY <1>4 DEF RosThreadEnds, PubInv, SubInv, HasPublisher, HasSubscription, Unusable
<1>5. CASE UNCHANGED nodeVars
  BY <1>5, PubInvUnchanged, SubInvUnchanged DEF nodeVars, pubVars, subVars
<1>6. QED
  BY <1>1, <1>2, <1>3, <1>4, <1>5 DEF Next, DeliverUnknownCompression, stop

\* The inductive invariant holds in every reachable state.
THEOREM NodeInvariant == Spec => []IInv
BY InitIInv, NextIInv, PTL DEF Spec

\* The node manager's dictionaries always hold managers of its topics.
THEOREM TypeCorrect == Spec => []TypeOK
BY NodeInvariant, PTL DEF IInv

\* No handle of the node is ever orphaned, however calls and failures interleave.
THEOREM NothingIsOrphaned == Spec => []NothingOrphaned
BY NodeInvariant, PTL DEF IInv

\* Handles match use because managers have users, and users have managers.
LEMMA HandlesFollow == IInv => HandlesMatchUse
BY DEF IInv, TypeOK, NothingOrphaned, ManagersHaveUsers, ManagersHaveHandles,
       HandlesMatchUse

\* While the node runs and ROS has accepted the subscriptions, handles are open
\* exactly for the topics some bridge uses.
THEOREM HandlesAlwaysMatchUse == Spec => []HandlesMatchUse
BY HandlesFollow, NodeInvariant, PTL

-----------------------------------------------------------------------------
(***************************************************************************)
(* Isolation: what a step may do to the other bridges                       *)
(***************************************************************************)
\* A step that is not a bridge's own call leaves its registrations alone, and
\* never takes a handle or a type from under a bridge that stays.
PubsKept ==
    \A t \in Topics, b \in Bridges :
        b \in publisher[t].bridges /\ b \in publisher'[t].bridges =>
            /\ publisher'[t].type = publisher[t].type
            /\ spinning' /\ t \in ros_publishers => t \in ros_publishers'

SubsKept ==
    \A t \in Topics, b \in Bridges :
        b \in Subscribers(subscriptions[t]) /\ b \in Subscribers(subscriptions'[t]) =>
            /\ subscriptions'[t].type = subscriptions[t].type
            /\ spinning' /\ t \in ros_subscriptions => t \in ros_subscriptions'

\* Only d's registrations as a publisher, or as a subscriber, may change.
PubsOnlyOf(d) ==
    \A t \in Topics, b \in Bridges \ {d} :
        b \in publisher'[t].bridges <=> b \in publisher[t].bridges

SubsOnlyOf(d) ==
    \A t \in Topics, b \in Bridges \ {d} :
        subscriptions'[t].callbacks[b] = subscriptions[t].callbacks[b]

\* A call about one publisher changes the registrations of the caller only.
LEMMA PublisherIsolation ==
    ASSUME PubInv, NEW d \in Bridges, NEW t \in Topics, PublisherCall(d, t)
    PROVE  PubsKept /\ PubsOnlyOf(d)
<1>1. ASSUME NEW ty \in Types, create_publisher(ty, t, d)
      PROVE  PubsKept /\ PubsOnlyOf(d)
  BY <1>1 DEF create_publisher, CreatePublisherRaises, PubInv, PubManager,
              HasPublisher, PubsKept, PubsOnlyOf
<1>2. ASSUME destroy_publisher(t, d)
      PROVE  PubsKept /\ PubsOnlyOf(d)
  BY <1>2 DEF destroy_publisher, DropPublishers, PubInv, PubManager, NoPublisher,
              HasPublisher, PubsKept, PubsOnlyOf
<1>3. QED
  BY <1>1, <1>2 DEF PublisherCall

\* Dropping d from any publishers leaves the other bridges' publishers alone.
LEMMA DropPublishersIsolation ==
    ASSUME PubInv, NEW d \in Bridges, DropPublishers(Topics, d)
    PROVE  PubsKept /\ PubsOnlyOf(d)
BY DEF DropPublishers, PubInv, PubManager, NoPublisher, HasPublisher, PubsKept,
       PubsOnlyOf

\* Dropping d from any subscriptions leaves the other bridges' subscriptions alone.
LEMMA DropSubscriptionsIsolation ==
    ASSUME SubInv, NEW d \in Bridges, NEW ts \in SUBSET Topics,
           NEW gone \in SUBSET Emptied(ts, d), NEW destroyed \in SUBSET Emptied(ts, d),
           DropSubscriptions(ts, d, gone, destroyed)
    PROVE  SubsKept /\ SubsOnlyOf(d)
<1>1. ASSUME NEW t \in Topics
      PROVE  /\ t \in gone => subscriptions'[t] = NoSubscription
             /\ t \notin gone /\ t \in ts => subscriptions'[t] = Without(t, d)
             /\ t \notin ts => subscriptions'[t] = subscriptions[t]
             /\ t \in Emptied(ts, d) => Subscribers(Without(t, d)) = {}
  BY DEF DropSubscriptions, Emptied
<1>2. ASSUME NEW t \in Topics, NEW b \in Bridges
      PROVE  /\ NoSubscription.callbacks[b] = "off"
             /\ b # d => Without(t, d).callbacks[b] = subscriptions[t].callbacks[b]
             /\ Without(t, d).type = subscriptions[t].type
             /\ Subscribers(Without(t, d)) = Subscribers(subscriptions[t]) \ {d}
  BY WithoutType DEF NoSubscription, Without, SubInv, SubManager
<1>3. Subscribers(NoSubscription) = {}
  BY DEF NoSubscription, Subscribers
<1>4. ASSUME NEW t \in Topics, NEW b \in Bridges \ {d}
      PROVE  subscriptions'[t].callbacks[b] = subscriptions[t].callbacks[b]
  <2>1. t \in gone => subscriptions[t].callbacks[b] = "off"
    BY <1>1, <1>2 DEF Subscribers
  <2>2. QED
    BY <1>1, <1>2, <2>1
<1>5. ASSUME NEW t \in Topics, NEW b \in Bridges,
             b \in Subscribers(subscriptions[t]), b \in Subscribers(subscriptions'[t])
      PROVE  /\ subscriptions'[t].type = subscriptions[t].type
             /\ t \in ros_subscriptions => t \in ros_subscriptions'
  <2>1. t \notin gone
    BY <1>1, <1>3, <1>5
  <2>2. t \notin destroyed
    <3>1. SUFFICES ASSUME t \in destroyed PROVE FALSE
      OBVIOUS
    <3>2. t \in Emptied(ts, d) /\ t \in ts
      BY <3>1 DEF Emptied
    <3>3. subscriptions'[t] = Without(t, d) /\ Subscribers(Without(t, d)) = {}
      BY <1>1, <2>1, <3>2
    <3>4. QED
      BY <1>5, <3>3
  <2>3. QED
    BY <1>1, <1>2, <2>1, <2>2 DEF DropSubscriptions
<1>6. QED
  BY <1>4, <1>5 DEF SubsKept, SubsOnlyOf

\* A call about one subscription changes the registrations of the caller only.
LEMMA SubscriptionIsolation ==
    ASSUME SubInv, NEW d \in Bridges, NEW t \in Topics, SubscriptionCall(d, t)
    PROVE  SubsKept /\ SubsOnlyOf(d)
<1>1. ASSUME NEW ty \in Types \cup {NoType}, NEW mode \in Modes,
             create_subscription(ty, t, d, mode)
      PROVE  SubsKept /\ SubsOnlyOf(d)
  <2> DEFINE m == IF HasSubscription(t) THEN subscriptions[t]
                  ELSE NewSubscription(ty, t, mode)
  <2>1. /\ subscriptions' = [subscriptions EXCEPT ![t] = [m EXCEPT !.callbacks[d] = mode]]
        /\ ros_subscriptions \subseteq ros_subscriptions'
    BY <1>1 DEF create_subscription
  <2>2. /\ m \in SubManager
        /\ HasSubscription(t) => m.type = subscriptions[t].type
        /\ \A b \in Bridges : m.callbacks[b] = subscriptions[t].callbacks[b]
    BY <1>1 DEF SubInv, create_subscription, CreateSubscriptionRaises, HasSubscription,
                NewSubscription, SubManager, Subscribers
  <2> HIDE DEF m
  <2>3. /\ subscriptions'[t].type = m.type
        /\ \A b \in Bridges \ {d} : subscriptions'[t].callbacks[b] = m.callbacks[b]
        /\ \A u \in Topics \ {t} : subscriptions'[u] = subscriptions[u]
    BY <2>1, <2>2 DEF SubInv, SubManager
  <2>4. SubsOnlyOf(d)
    BY <2>2, <2>3 DEF SubsOnlyOf
  <2>5. ASSUME NEW b \in Bridges, b \in Subscribers(subscriptions[t])
        PROVE  HasSubscription(t)
    BY <2>5 DEF SubInv
  <2>6. SubsKept
    BY <2>1, <2>2, <2>3, <2>5 DEF SubsKept
  <2>7. QED
    BY <2>4, <2>6
<1>2. ASSUME destroy_subscription(t, d)
      PROVE  SubsKept /\ SubsOnlyOf(d)
  BY <1>2, DropSubscriptionsIsolation DEF destroy_subscription
<1>3. QED
  BY <1>1, <1>2 DEF SubscriptionCall

\* A gateway that closes takes out its own registrations only.
LEMMA RemoveWithGatewayIsolation ==
    ASSUME SubInv, NEW d \in Bridges, DestroySubscriptionsOf(d)
    PROVE  SubsKept /\ SubsOnlyOf(d)
<1> DEFINE empty == Emptied(Topics, d)
           bad   == empty \cap Unusable(Topics)
<1>1. CASE DropSubscriptions(Topics, d, empty, empty)
  BY <1>1, DropSubscriptionsIsolation
<1>2. ASSUME NEW met \in SUBSET (empty \ bad), DropSubscriptions(Topics, d, {}, met)
      PROVE  SubsKept /\ SubsOnlyOf(d)
  BY <1>2, DropSubscriptionsIsolation
<1>3. QED
  BY <1>1, <1>2 DEF DestroySubscriptionsOf

\* Halves that do not change keep everything of theirs.
LEMMA PubsUnchangedIsolation ==
    ASSUME UNCHANGED pubVars PROVE PubsKept /\ \A d \in Bridges : PubsOnlyOf(d)
BY DEF pubVars, PubsKept, PubsOnlyOf

\* The same for subscriptions.
LEMMA SubsUnchangedIsolation ==
    ASSUME UNCHANGED subVars PROVE SubsKept /\ \A d \in Bridges : SubsOnlyOf(d)
BY DEF subVars, SubsKept, SubsOnlyOf

\* The body of OthersUndisturbed for a step that only d's registrations explain.
LEMMA OneBridgeIsolation ==
    ASSUME PubInv, PubInv', NEW d \in Bridges, PubsOnlyOf(d), SubsOnlyOf(d)
    PROVE  \A b, c \in Bridges : \/ b = c
                                 \/ UNCHANGED RegisteredBy(b)
                                 \/ UNCHANGED RegisteredBy(c)
<1>1. ASSUME NEW b \in Bridges \ {d}
      PROVE  UNCHANGED RegisteredBy(b)
  BY DEF RegisteredBy, PubsOnlyOf, SubsOnlyOf
<1>2. QED
  BY <1>1

\* Bridges that share a handle never disturb each other, whatever the others
\* call and whenever they leave.
THEOREM OthersAreUndisturbed == Spec => OthersUndisturbed
<1> DEFINE Apart == \A b, c \in Bridges : \/ b = c
                                          \/ UNCHANGED RegisteredBy(b)
                                          \/ UNCHANGED RegisteredBy(c)
<1>1. ASSUME IInv, IInv', Next
      PROVE  Apart /\ PubsKept /\ SubsKept
  <2>1. PubInv /\ SubInv /\ PubInv'
    BY <1>1, IInvSplits
  <2>2. ASSUME NEW d \in Bridges, NEW t \in Topics, PublisherCall(d, t)
        PROVE  Apart /\ PubsKept /\ SubsKept
    <3>1. UNCHANGED subVars
      BY <2>2 DEF PublisherCall, create_publisher, destroy_publisher
    <3>2. QED
      BY <2>1, <2>2, <3>1, PublisherIsolation, SubsUnchangedIsolation, OneBridgeIsolation
  <2>3. ASSUME NEW d \in Bridges, NEW t \in Topics, SubscriptionCall(d, t)
        PROVE  Apart /\ PubsKept /\ SubsKept
    <3>1. UNCHANGED pubVars
      BY <2>3 DEF SubscriptionCall, create_subscription, destroy_subscription
    <3>2. QED
      BY <2>1, <2>3, <3>1, SubscriptionIsolation, PubsUnchangedIsolation, OneBridgeIsolation
  <2>4. ASSUME NEW d \in Bridges, remove_with_gateway(d)
        PROVE  Apart /\ PubsKept /\ SubsKept
    BY <2>1, <2>4, RemoveWithGatewayIsolation, DropPublishersIsolation, OneBridgeIsolation
       DEF remove_with_gateway
  <2>5. ASSUME RosThreadEnds
        PROVE  Apart /\ PubsKept /\ SubsKept
    BY <2>5 DEF RosThreadEnds, RegisteredBy, PubsKept, SubsKept
  <2>6. QED
    BY <1>1, <2>2, <2>3, <2>4, <2>5 DEF Next, DeliverUnknownCompression, stop
<1>2. QED
  <2>1. ASSUME IInv, IInv', Next PROVE NoDisturbance
    BY <1>1, <2>1 DEF NoDisturbance, PubsKept, SubsKept
  <2>2. QED
    BY <2>1, NodeInvariant, PTL DEF Spec, OthersUndisturbed

-----------------------------------------------------------------------------
(***************************************************************************)
(* Refinement of SharedHandles                                              *)
(***************************************************************************)
\* The publishers change hands as SharedHandles allows.
LEMMA PublishersStep ==
    ASSUME IInv, IInv', [Next]_nodeVars
    PROVE  [SharedPublishers!Next]_(SharedPublishers!vars)
<1> DEFINE users == [t \in Topics |-> publisher[t].bridges]
<1>1. ros_publishers' = IF ~spinning' THEN {} ELSE {t \in Topics : users'[t] # {}}
  <2>1. HandlesMatchUse'
    BY HandlesFollow, PTL
  <2>2. CASE ~spinning'
    BY <2>2 DEF IInv, NothingOrphaned
  <2>3. CASE spinning'
    BY <2>1, <2>3 DEF HandlesMatchUse
  <2>4. QED
    BY <2>2, <2>3
<1>3. ASSUME NEW b \in Bridges, NEW t \in Topics, PublisherCall(b, t)
      PROVE  SharedPublishers!Next
  <2>1. UNCHANGED spinning
    BY <1>3 DEF PublisherCall, create_publisher, destroy_publisher
  <2>2. ASSUME NEW ty \in Types, create_publisher(ty, t, b)
        PROVE  users' = [users EXCEPT ![t] = @ \cup {b}]
    BY <2>2 DEF create_publisher, IInv, TypeOK
  <2>3. ASSUME destroy_publisher(t, b)
        PROVE  users' = [users EXCEPT ![t] = @ \ {b}]
    BY <2>3 DEF destroy_publisher, DropPublishers, NoPublisher, IInv, TypeOK, PubManager
  <2>4. ASSUME NEW ty \in Types, create_publisher(ty, t, b)
        PROVE  SharedPublishers!Acquire(b, t)
    BY <1>1, <2>1, <2>2, <2>4
       DEF SharedPublishers!Acquire, SharedPublishers!ChangeUsers, SharedPublishers!InUse
  <2>5. ASSUME destroy_publisher(t, b)
        PROVE  SharedPublishers!Release(b, t)
    BY <1>1, <2>1, <2>3, <2>5
       DEF SharedPublishers!Release, SharedPublishers!ChangeUsers, SharedPublishers!InUse
  <2>6. QED
    BY <1>3, <2>4, <2>5 DEF PublisherCall, SharedPublishers!Next
<1>4. ASSUME NEW b \in Bridges, remove_with_gateway(b)
      PROVE  SharedPublishers!Next
  <2>1. users' = [t \in Topics |-> users[t] \ {b}]
    BY <1>4 DEF remove_with_gateway, DropPublishers, NoPublisher, HasPublisher, IInv,
                TypeOK, PubManager, NothingOrphaned
  <2>2. SharedPublishers!Leave(b)
    BY <1>1, <1>4, <2>1 DEF remove_with_gateway, SharedPublishers!Leave,
       SharedPublishers!ChangeUsers, SharedPublishers!InUse
  <2>3. QED
    BY <2>2 DEF SharedPublishers!Next
<1>5. ASSUME RosThreadEnds
      PROVE  SharedPublishers!Next
  BY <1>5 DEF RosThreadEnds, SharedPublishers!Next, SharedPublishers!Fail
<1>6. ASSUME UNCHANGED <<pubVars, spinning>>
      PROVE  UNCHANGED SharedPublishers!vars
  BY <1>6 DEF pubVars, SharedPublishers!vars
<1>7. ASSUME NEW b \in Bridges, NEW t \in Topics, SubscriptionCall(b, t)
      PROVE  UNCHANGED SharedPublishers!vars
  BY <1>6, <1>7 DEF SubscriptionCall, create_subscription, destroy_subscription
<1>8. CASE UNCHANGED nodeVars
  BY <1>6, <1>8 DEF nodeVars, pubVars
<1>9. QED
  BY <1>3, <1>4, <1>5, <1>7, <1>8 DEF Next, DeliverUnknownCompression, stop

\* The node manager's publishers implement shared handles: opened for the first
\* bridge, shared, closed with the last, for any bridges, topics and types.
THEOREM PublishersImplementSharedHandles == Spec => PublishersAreShared
<1>1. Init => SharedPublishers!Init
  BY DEF Init, NoPublisher, SharedPublishers!Init
<1>2. QED
  BY <1>1, PublishersStep, NodeInvariant, PTL
     DEF Spec, PublishersAreShared, SharedPublishers!Spec

\* When ROS accepts all names, every subscription manager of a running node has
\* a handle.
AllUsable == spinning => Unusable(Topics) = {}

\* If ROS refuses no name, no step leaves a running node with a manager that has
\* no handle.
LEMMA AllUsableStep ==
    ASSUME RejectedNames = {}, IInv, AllUsable, [Next]_nodeVars
    PROVE  AllUsable'
<1>1. subscriptions \in [Topics -> SubManager]
  BY DEF IInv, TypeOK
<1>2. ASSUME NEW ts \in SUBSET Topics, NEW b \in Bridges, NEW gone, NEW destroyed,
             DropSubscriptions(ts, b, gone, destroyed), UNCHANGED spinning
      PROVE  AllUsable'
  <2>1. ASSUME NEW t \in Topics
        PROVE  \/ subscriptions'[t] = NoSubscription
               \/ subscriptions'[t] = Without(t, b)
               \/ subscriptions'[t] = subscriptions[t]
    BY <1>2 DEF DropSubscriptions
  <2>2. ASSUME NEW t \in Topics
        PROVE  /\ NoSubscription.type = NoType
               /\ Without(t, b).type = subscriptions[t].type
               /\ Without(t, b).handle = subscriptions[t].handle
    BY <1>1, WithoutType DEF NoSubscription
  <2>3. QED
    BY <1>2, <2>1, <2>2 DEF AllUsable, Unusable, HasSubscription
<1>3. ASSUME NEW b \in Bridges, NEW t \in Topics, SubscriptionCall(b, t)
      PROVE  AllUsable'
  <2>1. ASSUME NEW ty \in Types \cup {NoType}, NEW mode \in Modes,
               create_subscription(ty, t, b, mode)
        PROVE  AllUsable'
    BY <1>1, <2>1 DEF create_subscription, NewSubscription, AllUsable, Unusable,
                      HasSubscription, SubManager
  <2>2. ASSUME destroy_subscription(t, b)
        PROVE  AllUsable'
    BY <1>2, <2>2 DEF destroy_subscription
  <2>3. QED
    BY <1>3, <2>1, <2>2 DEF SubscriptionCall
<1>4. ASSUME NEW b \in Bridges, remove_with_gateway(b)
      PROVE  AllUsable'
  BY <1>2, <1>4 DEF remove_with_gateway, DestroySubscriptionsOf
<1>5. ASSUME NEW b \in Bridges, NEW t \in Topics, PublisherCall(b, t)
      PROVE  AllUsable'
  BY <1>5 DEF PublisherCall, create_publisher, destroy_publisher, subVars, AllUsable,
              Unusable, HasSubscription
<1>6. CASE RosThreadEnds
  BY <1>6 DEF RosThreadEnds, AllUsable
<1>7. CASE UNCHANGED nodeVars
  BY <1>7 DEF nodeVars, AllUsable, Unusable, HasSubscription
<1>8. QED
  BY <1>3, <1>4, <1>5, <1>6, <1>7 DEF Next, DeliverUnknownCompression, stop

\* The subscriptions change hands as SharedHandles allows.
LEMMA SubscriptionsStep ==
    ASSUME IInv, IInv', AllUsable', [Next]_nodeVars
    PROVE  [SharedSubscriptions!Next]_(SharedSubscriptions!vars)
<1> DEFINE users == [t \in Topics |-> Subscribers(subscriptions[t])]
<1>0. subscriptions \in [Topics -> SubManager]
  BY DEF IInv, TypeOK
<1>1. ros_subscriptions' = IF ~spinning' THEN {} ELSE {t \in Topics : users'[t] # {}}
  <2>1. HandlesMatchUse'
    BY HandlesFollow, PTL
  <2>2. CASE ~spinning'
    BY <2>2 DEF IInv, NothingOrphaned
  <2>3. CASE spinning'
    BY <2>1, <2>3 DEF HandlesMatchUse, AllUsable
  <2>4. QED
    BY <2>2, <2>3
<1>2. ASSUME NEW ts \in SUBSET Topics, NEW b \in Bridges, NEW gone \in SUBSET Emptied(ts, b),
             NEW destroyed, DropSubscriptions(ts, b, gone, destroyed)
      PROVE  users' = [t \in Topics |-> IF t \in ts THEN users[t] \ {b} ELSE users[t]]
  <2>1. ASSUME NEW t \in Topics
        PROVE  /\ t \in gone => subscriptions'[t] = NoSubscription
               /\ t \notin gone /\ t \in ts => subscriptions'[t] = Without(t, b)
               /\ t \notin ts => subscriptions'[t] = subscriptions[t]
               /\ t \in gone => t \in ts /\ Subscribers(Without(t, b)) = {}
    BY <1>2 DEF DropSubscriptions, Emptied
  <2>2. Subscribers(NoSubscription) = {}
    BY DEF NoSubscription, Subscribers
  <2>3. ASSUME NEW t \in Topics
        PROVE  Subscribers(Without(t, b)) = Subscribers(subscriptions[t]) \ {b}
    BY <1>0, WithoutType
  <2>4. ASSUME NEW t \in Topics
        PROVE  users'[t] = IF t \in ts THEN users[t] \ {b} ELSE users[t]
    BY <2>1, <2>2, <2>3
  <2>5. QED
    BY <2>4
<1>3. ASSUME NEW b \in Bridges, NEW t \in Topics, SubscriptionCall(b, t)
      PROVE  SharedSubscriptions!Next
  <2>1. UNCHANGED spinning
    BY <1>3 DEF SubscriptionCall, create_subscription, destroy_subscription
  <2>2. ASSUME NEW ty \in Types \cup {NoType}, NEW mode \in Modes,
               create_subscription(ty, t, b, mode)
        PROVE  SharedSubscriptions!Acquire(b, t)
    <3> DEFINE m == IF HasSubscription(t) THEN subscriptions[t]
                    ELSE NewSubscription(ty, t, mode)
               n == [m EXCEPT !.callbacks[b] = mode]
    <3>1. Subscribers(m) = Subscribers(subscriptions[t]) /\ m \in SubManager
      BY <1>0, <2>2 DEF IInv, NothingOrphaned, HasSubscription, NewSubscription, Subscribers,
                  SubManager, create_subscription, CreateSubscriptionRaises
    <3>2. subscriptions' = [subscriptions EXCEPT ![t] = n]
      BY <2>2 DEF create_subscription
    <3> HIDE DEF m
    <3>3. Subscribers(n) = Subscribers(m) \cup {b}
      BY <3>1 DEF SubManager, Subscribers
    <3> HIDE DEF n
    <3>4. users' = [users EXCEPT ![t] = @ \cup {b}]
      BY <1>0, <3>1, <3>2, <3>3
    <3>5. QED
      BY <1>1, <2>1, <3>4 DEF SharedSubscriptions!Acquire,
         SharedSubscriptions!ChangeUsers, SharedSubscriptions!InUse
  <2>3. ASSUME destroy_subscription(t, b)
        PROVE  SharedSubscriptions!Release(b, t)
    <3>1. users' = [u \in Topics |-> IF u \in {t} THEN users[u] \ {b} ELSE users[u]]
      BY <1>2, <2>3 DEF destroy_subscription
    <3>2. users' = [users EXCEPT ![t] = @ \ {b}]
      BY <3>1
    <3>3. QED
      BY <1>1, <2>1, <3>2 DEF SharedSubscriptions!Release,
         SharedSubscriptions!ChangeUsers, SharedSubscriptions!InUse
  <2>4. QED
    BY <1>3, <2>2, <2>3 DEF SubscriptionCall, SharedSubscriptions!Next
<1>4. ASSUME NEW b \in Bridges, remove_with_gateway(b)
      PROVE  SharedSubscriptions!Next
  <2>1. users' = [t \in Topics |-> users[t] \ {b}]
    <3>1. \E gone \in SUBSET Emptied(Topics, b), destroyed \in SUBSET Emptied(Topics, b) :
             DropSubscriptions(Topics, b, gone, destroyed)
      BY <1>4 DEF remove_with_gateway, DestroySubscriptionsOf
    <3>2. users' = [t \in Topics |-> IF t \in Topics THEN users[t] \ {b} ELSE users[t]]
      BY <1>2, <3>1
    <3>3. QED
      BY <3>2
  <2>2. SharedSubscriptions!Leave(b)
    BY <1>1, <1>4, <2>1 DEF remove_with_gateway, SharedSubscriptions!Leave,
       SharedSubscriptions!ChangeUsers, SharedSubscriptions!InUse
  <2>3. QED
    BY <2>2 DEF SharedSubscriptions!Next
<1>5. ASSUME RosThreadEnds
      PROVE  SharedSubscriptions!Next
  BY <1>5 DEF RosThreadEnds, SharedSubscriptions!Next, SharedSubscriptions!Fail
<1>6. ASSUME UNCHANGED <<subVars, spinning>>
      PROVE  UNCHANGED SharedSubscriptions!vars
  BY <1>6 DEF subVars, SharedSubscriptions!vars
<1>7. ASSUME NEW b \in Bridges, NEW t \in Topics, PublisherCall(b, t)
      PROVE  UNCHANGED SharedSubscriptions!vars
  BY <1>6, <1>7 DEF PublisherCall, create_publisher, destroy_publisher
<1>8. CASE UNCHANGED nodeVars
  BY <1>6, <1>8 DEF nodeVars, subVars
<1>9. QED
  BY <1>3, <1>4, <1>5, <1>7, <1>8 DEF Next, DeliverUnknownCompression, stop

\* When ROS accepts all topic names the subscriptions implement shared handles
\* too; the hypothesis is needed because of the managers without handle.
THEOREM SubscriptionsImplementSharedHandles ==
    ASSUME RejectedNames = {}
    PROVE  Spec => SubscriptionsAreShared
<1>1. Init => AllUsable /\ SharedSubscriptions!Init
  BY DEF Init, NoSubscription, AllUsable, Unusable, HasSubscription, Subscribers,
         SharedSubscriptions!Init
<1>2. IInv /\ AllUsable /\ [Next]_nodeVars => AllUsable'
  BY AllUsableStep, Zenon
<1>3. IInv /\ IInv' /\ AllUsable' /\ [Next]_nodeVars
        => [SharedSubscriptions!Next]_(SharedSubscriptions!vars)
  BY SubscriptionsStep, Zenon
<1>4. QED
  BY <1>1, <1>2, <1>3, NodeInvariant, PTL
     DEF Spec, SubscriptionsAreShared, SharedSubscriptions!Spec
=============================================================================
