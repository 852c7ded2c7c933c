------------------------- MODULE RosRPCGatewayProofs -------------------------
(***************************************************************************)
(* Proofs about RosRPCGateway, for any bridges, clients and rules.          *)
(*                                                                          *)
(* A client's connection outlasts what others do, because each step of the  *)
(* registry belongs to one bridge (NodeManagerProofs).  What its own        *)
(* handlers do is followed from call to call: the invariant says where a    *)
(* client that is in the hands of a handler may be registered.              *)
(***************************************************************************)
EXTENDS RosRPCGateway, NodeManagerProofs

USE NodeAssumption, ClientAssumption

InHand(c) == rest.pc # "idle" /\ rest.c = c

Client == [state : {"new", "bound", "failed", "stopped"}, good : BOOLEAN,
           held : Types \cup {NoType}, rule : Rules \cup {NoClient}]

RTypeOK ==
    /\ gw \in [Clients -> Client]
    /\ rest \in [pc : {"idle", "subscribing", "publishing", "unpublishing", "unsubscribing"},
                 op : {"none", "add", "reset", "stop"}, c : Clients \cup {NoClient}]
    /\ stale \subseteq Clients

\* Which handler may be where, for which client.
HandlersAgree ==
    /\ \A c \in Clients : gw[c].state # "new" => gw[c].rule \in Rules
    /\ rest.pc # "idle" => rest.c \in Clients /\ gw[rest.c].rule \in Rules
    /\ rest.pc \in {"subscribing", "publishing"} =>
          rest.op \in {"add", "reset"}
    /\ rest.pc \in {"unpublishing", "unsubscribing"} => rest.op \in {"reset", "stop"}
    /\ rest.pc # "idle" => gw[rest.c].state = IF rest.op = "add" THEN "new" ELSE "bound"

\* The client is registered as its rule says, and its publisher is alive.
Connected(c) ==
    LET r == gw[c].rule
    IN /\ subscriptions[r.in].callbacks[c] = "fields"
       /\ c \in publisher[r.out].bridges
       /\ publisher[r.out].type = r.resp
       /\ gw[c].held = r.resp /\ c \notin stale

GoodAreConnected ==
    \A c \in Clients :
        gw[c].state = "bound" /\ gw[c].good /\ ~InHand(c) => Connected(c)

SubscribedFirst ==
    rest.pc = "publishing" =>
        subscriptions[gw[rest.c].rule.in].callbacks[rest.c] = "fields"

\* A client is registered where its rule says and nowhere else, and not at all
\* before it subscribes and after it has been stopped.
RegisteredByRule ==
    \A c \in Clients, t \in Topics :
        /\ c \in publisher[t].bridges =>
              /\ gw[c].state = "bound" /\ t = gw[c].rule.out
              /\ InHand(c) => rest.pc = "unpublishing"
        /\ subscriptions[t].callbacks[c] # "off" =>
              /\ t = gw[c].rule.in
              /\ gw[c].state \in {"bound", "failed"} \/ (InHand(c) /\ rest.pc = "publishing")

RInv == /\ IInv /\ RTypeOK /\ HandlersAgree
        /\ GoodAreConnected /\ SubscribedFirst /\ RegisteredByRule

RestTypes == RTypeOK /\ HandlersAgree

-----------------------------------------------------------------------------
(***************************************************************************)
(* The calls of a handler                                                   *)
(***************************************************************************)
\* The client in hand and its rule are what the calls to the node are made of.
LEMMA InHandTyped ==
    ASSUME RestTypes, rest.pc # "idle"
    PROVE  /\ rest.c \in Clients /\ rest.c \in Bridges
           /\ gw[rest.c].rule \in [in : Topics, out : Topics, uri : Services, req : Types, resp : Types]
           /\ gw[rest.c].rule \in Rules
           /\ gw[rest.c].rule.resp # NoType
  <1>1. rest.c \in Clients /\ gw[rest.c].rule \in Rules
    BY DEF RestTypes, HandlersAgree
  <1>2. gw[rest.c].rule \in [in : Topics, out : Topics, uri : Services, req : Types, resp : Types]
    BY <1>1
  <1> QED
    BY <1>1, <1>2

\* What an exception of a handler leaves of the client, and of the others.
LEMMA AfterRaise ==
    ASSUME RTypeOK, rest.c \in Clients, HandlerRaises
    PROVE  /\ gw' \in [Clients -> Client]
           /\ gw'[rest.c].rule = gw[rest.c].rule /\ gw'[rest.c].held = gw[rest.c].held
           /\ gw'[rest.c].good = FALSE
           /\ gw'[rest.c].state = IF rest.op = "add" THEN "failed" ELSE gw[rest.c].state
           /\ \A c \in Clients \ {rest.c} : gw'[c] = gw[c]
           /\ rest'.pc = "idle" /\ rest'.op = "none" /\ rest'.c = NoClient /\ rest' = AtRest
  <1> DEFINE failed == [gw[rest.c] EXCEPT !.good = FALSE,
                           !.state = IF rest.op = "add" THEN "failed" ELSE @]
  <1>1. gw' = [gw EXCEPT ![rest.c] = failed]
    BY DEF HandlerRaises, RTypeOK
  <1>2. gw[rest.c] \in Client
    BY DEF RTypeOK
  <1>3. /\ failed \in Client /\ failed.rule = gw[rest.c].rule /\ failed.held = gw[rest.c].held
        /\ failed.good = FALSE
        /\ failed.state = IF rest.op = "add" THEN "failed" ELSE gw[rest.c].state
    BY <1>2 DEF Client
  <1> HIDE DEF failed
  <1> QED
    BY <1>1, <1>3 DEF RTypeOK, HandlerRaises, AtRest

\* Advertise where nothing is raised.
Advertised ==
    LET c == rest.c
        r == gw[c].rule
    IN /\ create_publisher(r.resp, r.out, c)
       /\ gw' = [gw EXCEPT ![c].state = "bound", ![c].good = TRUE, ![c].held = r.resp]
       /\ rest' = AtRest
       /\ NoteStale({c})

\* What a handler that comes to its end leaves.
LEMMA AfterAdvertise ==
    ASSUME RestTypes, rest.pc = "publishing", Advertised
    PROVE  /\ create_publisher(gw[rest.c].rule.resp, gw[rest.c].rule.out, rest.c)
           /\ gw' \in [Clients -> Client]
           /\ gw'[rest.c].rule = gw[rest.c].rule /\ gw'[rest.c].held = gw[rest.c].rule.resp
           /\ gw'[rest.c].good = TRUE /\ gw'[rest.c].state = "bound"
           /\ \A c \in Clients \ {rest.c} : gw'[c] = gw[c]
           /\ rest'.pc = "idle" /\ rest'.op = "none" /\ rest'.c = NoClient /\ rest' = AtRest
           /\ NoteStale({rest.c})
  <1> DEFINE bound == [gw[rest.c] EXCEPT !.state = "bound", !.good = TRUE,
                                          !.held = gw[rest.c].rule.resp]
  <1>1. gw' = [gw EXCEPT ![rest.c] = bound]
    BY DEF Advertised, RestTypes, RTypeOK
  <1>2. gw[rest.c] \in Client /\ gw[rest.c].rule.resp \in Types /\ rest.c \in Clients
    BY InHandTyped DEF RestTypes, RTypeOK
  <1>3. /\ bound \in Client /\ bound.rule = gw[rest.c].rule /\ bound.held = gw[rest.c].rule.resp
        /\ bound.good = TRUE /\ bound.state = "bound"
    BY <1>2 DEF Client
  <1> HIDE DEF bound
  <1>4. /\ create_publisher(gw[rest.c].rule.resp, gw[rest.c].rule.out, rest.c)
        /\ rest' = AtRest /\ NoteStale({rest.c})
    BY DEF Advertised
  <1> QED
    BY <1>1, <1>2, <1>3, <1>4 DEF RestTypes, RTypeOK, AtRest

\* A step of the registry that only the client in hand explains.
NodeOnlyOf(d) == PubsOnlyOf(d) /\ SubsOnlyOf(d) /\ PubsKept

\* A handler's step is a call of the client in hand, or leaves the node alone.
LEMMA HandlerUsesNode ==
    ASSUME RestTypes, Subscribe \/ Advertise \/ Unpublish \/ Unsubscribe
    PROVE  \/ UNCHANGED nodeVars
           \/ \E t \in Topics : PublisherCall(rest.c, t) \/ SubscriptionCall(rest.c, t)
  <1>1. CASE Subscribe
    BY <1>1, InHandTyped DEF Subscribe, SubscriptionCall
  <1>2. CASE Advertise
    BY <1>2, InHandTyped DEF Advertise, PublisherCall
  <1>3. CASE Unpublish
    BY <1>3, InHandTyped DEF Unpublish, PublisherCall
  <1>4. CASE Unsubscribe
    BY <1>4, InHandTyped DEF Unsubscribe, SubscriptionCall
  <1> QED
    BY <1>1, <1>2, <1>3, <1>4

\* Every step is a call of one bridge, the end of the ROS thread, or none.
LEMMA StepUsesNode == RestTypes /\ [RNext]_rpcVars => [Next]_nodeVars
  <1> SUFFICES ASSUME RestTypes, [RNext]_rpcVars PROVE [Next]_nodeVars
    OBVIOUS
  <1>1. CASE Subscribe \/ Advertise \/ Unpublish \/ Unsubscribe
    <2>1. rest.c \in Bridges
      BY <1>1, InHandTyped DEF Subscribe, Advertise, Unpublish, Unsubscribe
    <2> QED
      BY <1>1, <2>1, HandlerUsesNode DEF Next
  <1>2. CASE NoAnswer \/ Answer \/ PublishAnswer
    BY <1>2 DEF NoAnswer, Answer, PublishAnswer, Next, stop
  <1>3. ASSUME NEW c \in Clients, TakeMessage(c) \/ api_rosrest_stop(c)
        PROVE  [Next]_nodeVars
    BY <1>3 DEF TakeMessage, api_rosrest_stop
  <1>4. ASSUME NEW c \in Clients, NEW r \in Rules, api_rosrest_add(c, r)
        PROVE  [Next]_nodeVars
    BY <1>4 DEF api_rosrest_add
  <1>5. ASSUME NEW b \in Bridges \ Clients, GatewayCall(b) PROVE [Next]_nodeVars
    BY <1>5 DEF GatewayCall, Next
  <1>6. CASE RosThreadFails
    BY <1>6 DEF RosThreadFails, Next
  <1>7. CASE UNCHANGED rpcVars
    BY <1>7 DEF rpcVars
  <1> QED
    BY <1>1, <1>2, <1>3, <1>4, <1>5, <1>6, <1>7 DEF RNext, ClientStep

-----------------------------------------------------------------------------
(***************************************************************************)
(* Types                                                                    *)
(***************************************************************************)
\* The invariant holds before the first rule.
LEMMA RestInit == RInit => RInv
  <1> SUFFICES ASSUME RInit PROVE RInv
    OBVIOUS
  <1>1. IInv
    BY InitIInv DEF RInit
  <1>2. RTypeOK /\ HandlersAgree
    BY DEF RInit, RTypeOK, HandlersAgree, NewClient, AtRest, Client
  <1>3. GoodAreConnected /\ SubscribedFirst
    BY DEF RInit, GoodAreConnected, SubscribedFirst, NewClient, AtRest
  <1>4. RegisteredByRule
    BY DEF RInit, Init, NoPublisher, NoSubscription, RegisteredByRule
  <1> QED
    BY <1>1, <1>2, <1>3, <1>4 DEF RInv

\* No handler of the REST api, and no message, leaves the clients' state ill typed.
LEMMA TypesStep == RestTypes /\ [RNext]_rpcVars => RestTypes'
  <1> SUFFICES ASSUME RestTypes, [RNext]_rpcVars PROVE RestTypes'
    OBVIOUS
  <1> USE DEF RestTypes, HandlersAgree
  <1>1. ASSUME NEW c \in Clients, NEW r \in Rules, api_rosrest_add(c, r) PROVE RestTypes'
    BY <1>1 DEF api_rosrest_add, BoundTo, RTypeOK, Client
  <1>2. ASSUME NEW c \in Clients, api_rosrest_stop(c) PROVE RestTypes'
    BY <1>2 DEF api_rosrest_stop, RTypeOK
  <1>3. ASSUME NEW kept, NoteStale(kept) PROVE stale' \subseteq Clients
    BY <1>3 DEF NoteStale
  <1>4. ASSUME rest.pc # "idle", HandlerRaises, stale' \subseteq Clients
        PROVE  RestTypes'
    BY <1>4, AfterRaise DEF RTypeOK, AtRest
  <1>5. CASE Subscribe
    <2>1. CASE rest' = RestAt("publishing") /\ UNCHANGED gw
      BY <1>3, <1>5, <2>1 DEF Subscribe, RestAt, RTypeOK
    <2> QED
      BY <1>3, <1>4, <1>5, <2>1 DEF Subscribe
  <1>6. CASE Advertise
    <2>1. rest.pc = "publishing"
      BY <1>6 DEF Advertise
    <2>2. CASE HandlerRaises /\ NoteStale({})
      BY <1>3, <1>4, <2>1, <2>2
    <2>3. CASE Advertised
      <3>1. stale' \subseteq Clients
        BY <1>3, <2>3 DEF Advertised
      <3> QED
        BY <2>1, <2>3, <3>1, InHandTyped, AfterAdvertise DEF AtRest, RTypeOK
    <2> QED
      BY <1>6, <2>2, <2>3 DEF Advertise, Advertised
  <1>7. CASE Unpublish
    BY <1>3, <1>7 DEF Unpublish, RestAt, RTypeOK
  <1>8. CASE Unsubscribe
    <2>1. CASE HandlerRaises
      BY <1>3, <1>4, <1>8, <2>1 DEF Unsubscribe
    <2>2. CASE Closed
      BY <1>3, <1>8, <2>2 DEF Unsubscribe, Closed, RestAt, AtRest, RTypeOK, Client
    <2> QED
      BY <1>8, <2>1, <2>2 DEF Unsubscribe
  <1>9. CASE UNCHANGED <<gw, rest>> /\ stale' \subseteq Clients
    BY <1>9 DEF RTypeOK
  <1>10. CASE \/ NoAnswer \/ Answer \/ PublishAnswer \/ RosThreadFails
              \/ \E c \in Clients : TakeMessage(c)
              \/ UNCHANGED rpcVars
    BY <1>9, <1>10 DEF NoAnswer, Answer, PublishAnswer, RosThreadFails, TakeMessage,
                    rpcVars, clientVars, RTypeOK
  <1>11. ASSUME NEW b \in Bridges \ Clients, GatewayCall(b) PROVE RestTypes'
    BY <1>3, <1>9, <1>11 DEF GatewayCall
  <1> QED
    BY <1>1, <1>2, <1>5, <1>6, <1>7, <1>8, <1>10, <1>11 DEF RNext, ClientStep

-----------------------------------------------------------------------------
(***************************************************************************)
(* What the calls leave in the registry                                     *)
(***************************************************************************)
\* A subscription adds one callback and leaves the publishers alone.
LEMMA SubscribeEffect ==
    ASSUME IInv, NEW ty \in Types, NEW t \in Topics, NEW b \in Bridges,
           create_subscription(ty, t, b, "fields")
    PROVE  /\ subscriptions'[t].callbacks[b] = "fields"
           /\ \A s \in Topics \ {t} : subscriptions'[s] = subscriptions[s]
           /\ UNCHANGED publisher
  <1> DEFINE m == IF HasSubscription(t) THEN subscriptions[t]
                  ELSE NewSubscription(ty, t, "fields")
  <1>1. subscriptions \in [Topics -> SubManager]
    BY DEF IInv, TypeOK
  <1>2. subscriptions' = [subscriptions EXCEPT ![t] = [m EXCEPT !.callbacks[b] = "fields"]]
    BY DEF create_subscription
  <1>3. m \in SubManager
    BY <1>1 DEF SubManager, NewSubscription
  <1>4. [m EXCEPT !.callbacks[b] = "fields"].callbacks[b] = "fields"
    BY <1>3 DEF SubManager
  <1> HIDE DEF m
  <1> QED
    BY <1>1, <1>2, <1>4 DEF create_subscription, pubVars

\* A publisher is had with its type, for one bridge more.
LEMMA PublishEffect ==
    ASSUME IInv, NEW ty \in Types, NEW t \in Topics, NEW b \in Bridges,
           create_publisher(ty, t, b)
    PROVE  /\ publisher'[t].bridges = publisher[t].bridges \cup {b} /\ publisher'[t].type = ty
           /\ \A s \in Topics \ {t} : publisher'[s] = publisher[s]
           /\ UNCHANGED subscriptions
  BY DEF IInv, TypeOK, create_publisher, PubManager, subVars

\* The bridge leaves the manager, and nobody joins one.
LEMMA UnpublishEffect ==
    ASSUME IInv, NEW t \in Topics, NEW b \in Bridges, destroy_publisher(t, b)
    PROVE  /\ b \notin publisher'[t].bridges
           /\ \A s \in Topics : publisher'[s].bridges \subseteq publisher[s].bridges
           /\ UNCHANGED subscriptions
  BY DEF IInv, TypeOK, destroy_publisher, DropPublishers, PubManager, NoPublisher, subVars

\* The bridge loses its callback, whether or not the manager can be destroyed.
LEMMA UnsubscribeEffect ==
    ASSUME IInv, NEW t \in Topics, NEW b \in Bridges, destroy_subscription(t, b)
    PROVE  /\ subscriptions'[t].callbacks[b] = "off"
           /\ \A s \in Topics \ {t} : subscriptions'[s] = subscriptions[s]
           /\ UNCHANGED publisher
  <1>1. subscriptions \in [Topics -> SubManager]
    BY DEF IInv, TypeOK
  <1>2. PICK gone \in SUBSET Topics : DropSubscriptions({t}, b, gone, gone) /\ gone \subseteq {t}
    BY DEF destroy_subscription, Emptied
  <1>3. Without(t, b).callbacks[b] = "off" /\ NoSubscription.callbacks[b] = "off"
    BY <1>1 DEF Without, SubManager, NoSubscription
  <1> QED
    BY <1>1, <1>2, <1>3 DEF DropSubscriptions, destroy_subscription, pubVars

\* A call of one bridge is the business of that bridge.
LEMMA CallIsolated ==
    ASSUME IInv, NEW d \in Bridges,
           \/ \E t \in Topics : PublisherCall(d, t) \/ SubscriptionCall(d, t)
           \/ remove_with_gateway(d)
           \/ UNCHANGED nodeVars
    PROVE  NodeOnlyOf(d)
  <1>0. PubInv /\ SubInv
    BY IInvSplits
  <1>1. ASSUME NEW t \in Topics, PublisherCall(d, t) PROVE NodeOnlyOf(d)
    <2>1. UNCHANGED subVars
      BY <1>1 DEF PublisherCall, create_publisher, destroy_publisher
    <2> QED
      BY <1>0, <1>1, <2>1, PublisherIsolation, SubsUnchangedIsolation DEF NodeOnlyOf
  <1>2. ASSUME NEW t \in Topics, SubscriptionCall(d, t) PROVE NodeOnlyOf(d)
    <2>1. UNCHANGED pubVars
      BY <1>2 DEF SubscriptionCall, create_subscription, destroy_subscription
    <2> QED
      BY <1>0, <1>2, <2>1, PubsUnchangedIsolation, SubscriptionIsolation DEF NodeOnlyOf
  <1>3. CASE remove_with_gateway(d)
    BY <1>0, <1>3, RemoveWithGatewayIsolation, DropPublishersIsolation
       DEF remove_with_gateway, NodeOnlyOf
  <1>4. CASE UNCHANGED nodeVars
    BY <1>4, PubsUnchangedIsolation, SubsUnchangedIsolation
       DEF NodeOnlyOf, nodeVars, pubVars, subVars
  <1> QED
    BY <1>1, <1>2, <1>3, <1>4

\* Nothing but its own handler disconnects a client.
LEMMA ConnectedKept ==
    ASSUME IInv, RestTypes, NEW c \in Clients, gw[c].rule \in Rules, Connected(c),
           gw'[c] = gw[c],
           NEW d \in Bridges \ {c}, NodeOnlyOf(d), NEW kept, NoteStale(kept)
    PROVE  Connected(c)'
  <1> DEFINE r == gw[c].rule
  <1>1. /\ c \in Bridges /\ r.resp # NoType
        /\ r \in [in : Topics, out : Topics, uri : Services, req : Types, resp : Types]
    OBVIOUS
  <1>2. subscriptions'[r.in].callbacks[c] = "fields" /\ c \in publisher'[r.out].bridges
    BY <1>1 DEF Connected, NodeOnlyOf, SubsOnlyOf, PubsOnlyOf
  <1>3. publisher'[r.out].type = r.resp
    BY <1>1, <1>2 DEF Connected, NodeOnlyOf, PubsKept
  <1>4. c \notin stale'
    BY <1>1, <1>3 DEF Connected, NoteStale
  <1> QED
    BY <1>2, <1>3, <1>4 DEF Connected

-----------------------------------------------------------------------------
(***************************************************************************)
(* The invariant                                                            *)
(***************************************************************************)
\* What a step of another client's handler, or of a gateway, leaves of a client.
ClientInv(c) ==
    /\ gw[c].state = "bound" /\ gw[c].good /\ ~InHand(c) => Connected(c)
    /\ \A t \in Topics :
        /\ c \in publisher[t].bridges =>
              /\ gw[c].state = "bound" /\ t = gw[c].rule.out
              /\ InHand(c) => rest.pc = "unpublishing"
        /\ subscriptions[t].callbacks[c] # "off" =>
              /\ t = gw[c].rule.in
              /\ gw[c].state \in {"bound", "failed"} \/ (InHand(c) /\ rest.pc = "publishing")

\* For all clients at once.
ClientsInv == (\A c \in Clients : ClientInv(c)) /\ SubscribedFirst

\* The invariants of the clients, client by client, before and after a step.
LEMMA PerClient ==
    /\ GoodAreConnected /\ RegisteredByRule <=> \A c \in Clients : ClientInv(c)
    /\ (GoodAreConnected /\ RegisteredByRule)' <=> \A c \in Clients : ClientInv(c)'
  BY DEF GoodAreConnected, RegisteredByRule, ClientInv

\* A call of some other bridge leaves a client that is not in hand as it is.
LEMMA OthersKept ==
    ASSUME IInv, RestTypes, NEW c \in Clients, ClientInv(c), gw'[c] = gw[c],
           ~InHand(c), ~InHand(c)',
           NEW d \in Bridges \ {c}, NodeOnlyOf(d), NEW kept, NoteStale(kept)
    PROVE  ClientInv(c)'
  <1>1. gw'[c].state = "bound" /\ gw'[c].good => Connected(c)'
    BY ConnectedKept DEF ClientInv, RestTypes, HandlersAgree
  <1>2. c \in Bridges
    OBVIOUS
  <1>3. \A t \in Topics : /\ c \in publisher'[t].bridges <=> c \in publisher[t].bridges
                          /\ subscriptions'[t].callbacks[c] = subscriptions[t].callbacks[c]
    BY <1>2 DEF NodeOnlyOf, PubsOnlyOf, SubsOnlyOf
  <1> QED
    BY <1>1, <1>3 DEF ClientInv

\* The ROS thread reads the clients and the registry.
LEMMA ReadersKeep ==
    ASSUME NEW c \in Clients, ClientInv(c), SubscribedFirst,
           UNCHANGED <<gw, rest, stale, publisher, subscriptions>>
    PROVE  ClientInv(c)' /\ SubscribedFirst'
  BY DEF ClientInv, SubscribedFirst, InHand, Connected

\* A rule is added or stopped before any call to the node.
LEMMA TakenInHand ==
    ASSUME RInv, NEW d \in Clients,
           (\E r \in Rules : api_rosrest_add(d, r)) \/ api_rosrest_stop(d)
    PROVE  (\A c \in Clients : ClientInv(c)') /\ SubscribedFirst'
  <1>1. /\ rest.pc = "idle" /\ UNCHANGED <<publisher, subscriptions, stale>>
        /\ rest'.c = d /\ rest'.pc \in {"subscribing", "unpublishing"}
        /\ rest'.pc = "subscribing" => gw[d].state = "new"
        /\ rest'.pc = "unpublishing" => gw[d].state = "bound"
    BY DEF api_rosrest_add, api_rosrest_stop, BoundTo, nodeVars
  <1>2. /\ \A c \in Clients \ {d} : gw'[c] = gw[c]
        /\ gw'[d].state = gw[d].state
        /\ gw[d].state = "bound" => /\ gw'[d].rule.in = gw[d].rule.in
                                    /\ gw'[d].rule.out = gw[d].rule.out
    BY DEF api_rosrest_add, api_rosrest_stop, BoundTo, Key, RInv, RTypeOK, Client
  <1>3. \A c \in Clients : ClientInv(c)
    BY PerClient DEF RInv
  <1>4. ASSUME NEW c \in Clients \ {d} PROVE ClientInv(c)'
    BY <1>1, <1>2, <1>3 DEF ClientInv, InHand, Connected
  <1>5. ClientInv(d)'
    BY <1>1, <1>2, <1>3 DEF ClientInv, InHand
  <1> QED
    BY <1>1, <1>4, <1>5 DEF SubscribedFirst

\* The clients that are not in hand do not notice the handler's calls.
LEMMA OthersOfHandler ==
    ASSUME RInv, RestTypes', Subscribe \/ Advertise \/ Unpublish \/ Unsubscribe,
           NEW c \in Clients, c # rest.c
    PROVE  ClientInv(c)'
  <1>1. RestTypes /\ IInv /\ ClientInv(c) /\ rest.pc # "idle"
    BY PerClient DEF RInv, RestTypes, Subscribe, Advertise, Unpublish, Unsubscribe
  <1>2. rest.c \in Bridges \ {c}
    BY <1>1, InHandTyped
  <1>3. NodeOnlyOf(rest.c)
    BY <1>1, <1>2, HandlerUsesNode, CallIsolated
  <1>4. gw'[c] = gw[c] /\ (rest'.pc = "idle" \/ rest'.c = rest.c)
    BY <1>1 DEF Subscribe, Advertise, Unpublish, Unsubscribe, HandlerRaises, Closed,
                RestAt, AtRest, RestTypes, RTypeOK
  <1>5. NoteStale({}) \/ NoteStale({rest.c})
    BY DEF Subscribe, Advertise, Unpublish, Unsubscribe
  <1>6. ~InHand(c) /\ ~InHand(c)'
    BY <1>4 DEF InHand
  <1> QED
    BY <1>1, <1>2, <1>3, <1>4, <1>5, <1>6, OthersKept

\* The client in hand after the first loop of _init.
LEMMA AfterSubscribe ==
    ASSUME RInv, RestTypes', Subscribe, NEW c \in Clients, c = rest.c
    PROVE  ClientInv(c)' /\ SubscribedFirst'
  <1> DEFINE r == gw[c].rule
  <1>1. /\ c \in Clients /\ c \in Bridges /\ ClientInv(c) /\ IInv /\ RestTypes
        /\ r.in \in Topics /\ r.req \in Types
    BY InHandTyped, PerClient DEF RInv, RestTypes, Subscribe
  <1>2. /\ \A t \in Topics : c \notin publisher[t].bridges
        /\ \A t \in Topics : subscriptions[t].callbacks[c] # "off" =>
              t = r.in /\ gw[c].state = "bound"
        /\ gw[c].state = IF rest.op = "add" THEN "new" ELSE "bound"
    BY <1>1 DEF Subscribe, ClientInv, InHand, RestTypes, HandlersAgree
  <1>3. CASE HandlerRaises /\ UNCHANGED nodeVars
    <2>1. /\ rest'.pc = "idle" /\ gw'[c].good = FALSE /\ gw'[c].rule = r
          /\ gw'[c].state = IF rest.op = "add" THEN "failed" ELSE "bound"
          /\ UNCHANGED <<publisher, subscriptions>>
      BY <1>1, <1>2, <1>3, AfterRaise DEF RestTypes, nodeVars
    <2> QED
      BY <1>1, <1>2, <2>1 DEF ClientInv, SubscribedFirst, InHand
  <1>4. CASE /\ create_subscription(r.req, r.in, c, "fields")
             /\ rest' = RestAt("publishing") /\ UNCHANGED gw
    <2>1. /\ subscriptions'[r.in].callbacks[c] = "fields"
          /\ \A s \in Topics \ {r.in} : subscriptions'[s] = subscriptions[s]
          /\ UNCHANGED publisher
      BY <1>1, <1>4, SubscribeEffect
    <2>2. rest'.c = c /\ rest'.pc = "publishing" /\ gw' = gw
      BY <1>1, <1>4 DEF RestAt, RestTypes, RTypeOK
    <2> QED
      BY <1>1, <1>2, <2>1, <2>2 DEF ClientInv, SubscribedFirst, InHand
  <1> QED
    BY <1>3, <1>4 DEF Subscribe

\* The client in hand after the second loop of _init: connected, or not good.
LEMMA AfterPublish ==
    ASSUME RInv, RestTypes', Advertise, NEW c \in Clients, c = rest.c
    PROVE  ClientInv(c)' /\ SubscribedFirst'
  <1> DEFINE r == gw[c].rule
  <1>1. /\ c \in Clients /\ c \in Bridges /\ ClientInv(c) /\ IInv /\ RestTypes
        /\ r.in \in Topics /\ r.out \in Topics /\ r.resp \in Types /\ r.resp # NoType
    BY InHandTyped, PerClient DEF RInv, RestTypes, Advertise
  <1>2. /\ \A t \in Topics : c \notin publisher[t].bridges
        /\ \A t \in Topics : subscriptions[t].callbacks[c] # "off" => t = r.in
        /\ subscriptions[r.in].callbacks[c] = "fields"
        /\ gw[c].state = IF rest.op = "add" THEN "new" ELSE "bound"
    BY <1>1 DEF Advertise, ClientInv, InHand, RestTypes, HandlersAgree, RInv, SubscribedFirst
  <1>3. CASE HandlerRaises /\ UNCHANGED nodeVars
    <2>1. /\ rest'.pc = "idle" /\ gw'[c].good = FALSE /\ gw'[c].rule = r
          /\ gw'[c].state = IF rest.op = "add" THEN "failed" ELSE "bound"
      BY <1>1, <1>2, <1>3, AfterRaise DEF RestTypes
    <2> QED
      BY <1>1, <1>2, <1>3, <2>1 DEF ClientInv, SubscribedFirst, InHand, nodeVars
  <1>4. CASE Advertised
    <2>1. /\ create_publisher(r.resp, r.out, c)
          /\ gw'[c].rule = r /\ gw'[c].held = r.resp /\ gw'[c].state = "bound"
          /\ rest'.pc = "idle" /\ NoteStale({c})
      BY <1>1, <1>4, AfterAdvertise DEF Advertise
    <2>2. /\ publisher'[r.out].bridges = publisher[r.out].bridges \cup {c}
          /\ publisher'[r.out].type = r.resp
          /\ \A s \in Topics \ {r.out} : publisher'[s] = publisher[s]
          /\ UNCHANGED subscriptions
      <3> DEFINE t == r.out
                 ty == r.resp
      <3>1. ty \in Types /\ t \in Topics /\ create_publisher(ty, t, c)
        BY <1>1, <2>1
      <3> HIDE DEF t, ty
      <3>2. /\ publisher'[t].bridges = publisher[t].bridges \cup {c} /\ publisher'[t].type = ty
            /\ \A s \in Topics \ {t} : publisher'[s] = publisher[s]
            /\ UNCHANGED subscriptions
        BY <1>1, <3>1, PublishEffect
      <3> QED
        BY <3>2 DEF t, ty
    <2>3. c \notin stale'
      BY <1>1, <2>1, <2>2 DEF NoteStale
    <2>4. Connected(c)'
      BY <1>2, <2>1, <2>2, <2>3 DEF Connected
    <2>5. ASSUME NEW t \in Topics
          PROVE  /\ c \in publisher'[t].bridges => t = r.out
                 /\ subscriptions'[t].callbacks[c] # "off" => t = r.in
      BY <1>2, <2>2
    <2>6. ClientInv(c)'
      BY <2>1, <2>4, <2>5 DEF ClientInv, InHand
    <2> QED
      BY <2>1, <2>6 DEF SubscribedFirst
  <1> QED
    BY <1>3, <1>4 DEF Advertise, Advertised

\* The client in hand after the first loop of close: it publishes no more.
LEMMA AfterUnpublish ==
    ASSUME RInv, RestTypes', Unpublish, NEW c \in Clients, c = rest.c
    PROVE  ClientInv(c)' /\ SubscribedFirst'
  <1> DEFINE r == gw[c].rule
  <1>1. /\ c \in Clients /\ c \in Bridges /\ ClientInv(c) /\ IInv /\ RestTypes
        /\ r.out \in Topics
    BY InHandTyped, PerClient DEF RInv, RestTypes, Unpublish
  <1>2. /\ \A t \in Topics : c \in publisher[t].bridges => t = r.out
        /\ \A t \in Topics : subscriptions[t].callbacks[c] # "off" => t = r.in
        /\ gw[c].state = "bound"
    BY <1>1 DEF Unpublish, ClientInv, InHand, RestTypes, HandlersAgree
  <1>3. /\ \A t \in Topics : c \notin publisher'[t].bridges
        /\ UNCHANGED subscriptions
    <2>1. CASE HasPublisher(r.out)
      BY <1>1, <1>2, <2>1, UnpublishEffect DEF Unpublish
    <2>2. CASE ~HasPublisher(r.out)
      BY <1>1, <1>2, <2>2 DEF Unpublish, nodeVars, IInv, NothingOrphaned
    <2> QED
      BY <2>1, <2>2
  <1>4. rest'.c = c /\ rest'.pc = "unsubscribing" /\ gw' = gw
    BY <1>1 DEF Unpublish, RestAt, RestTypes, RTypeOK
  <1> QED
    BY <1>1, <1>2, <1>3, <1>4 DEF ClientInv, SubscribedFirst, InHand

\* The client in hand after the second loop of close: it is registered nowhere.
LEMMA AfterUnsubscribe ==
    ASSUME RInv, RestTypes', Unsubscribe, NEW c \in Clients, c = rest.c
    PROVE  ClientInv(c)' /\ SubscribedFirst'
  <1> DEFINE r == gw[c].rule
  <1>1. /\ c \in Clients /\ c \in Bridges /\ ClientInv(c) /\ IInv /\ RestTypes
        /\ r.in \in Topics
    BY InHandTyped, PerClient DEF RInv, RestTypes, Unsubscribe
  <1>2. /\ \A t \in Topics : c \notin publisher[t].bridges
        /\ \A t \in Topics : subscriptions[t].callbacks[c] # "off" => t = r.in
        /\ gw[c].state = "bound" /\ rest.op \in {"reset", "stop"}
    BY <1>1 DEF Unsubscribe, ClientInv, InHand, RestTypes, HandlersAgree
  <1>3. /\ \A t \in Topics : subscriptions'[t].callbacks[c] = "off"
        /\ UNCHANGED publisher
    <2>1. CASE HasSubscription(r.in)
      BY <1>1, <1>2, <2>1, UnsubscribeEffect DEF Unsubscribe
    <2>2. CASE ~HasSubscription(r.in)
      BY <1>1, <1>2, <2>2 DEF Unsubscribe, nodeVars, IInv, NothingOrphaned, Subscribers
    <2> QED
      BY <2>1, <2>2
  <1>4. CASE HandlerRaises
    <2>1. rest'.pc = "idle" /\ gw'[c].good = FALSE
      BY <1>1, <1>4, AfterRaise DEF RestTypes
    <2> QED
      BY <1>1, <1>2, <1>3, <2>1 DEF ClientInv, SubscribedFirst, InHand
  <1>5. CASE Closed
    <2>1. CASE rest.op = "stop"
      <3>1. rest'.pc = "idle" /\ gw'[c].state = "stopped"
        BY <1>1, <1>5, <2>1 DEF Closed, AtRest, RestTypes, RTypeOK, Client
      <3> QED
        BY <1>1, <1>2, <1>3, <3>1 DEF ClientInv, SubscribedFirst, InHand
    <2>2. CASE rest.op # "stop"
      <3>1. rest'.c = c /\ rest'.pc = "subscribing" /\ gw' = gw
        BY <1>1, <1>5, <2>2 DEF Closed, RestAt, RestTypes, RTypeOK
      <3> QED
        BY <1>1, <1>2, <1>3, <3>1 DEF ClientInv, SubscribedFirst, InHand
    <2> QED
      BY <2>1, <2>2
  <1> QED
    BY <1>4, <1>5 DEF Unsubscribe

\* Every step of the clients, of the gateways and of the ROS thread keeps the
\* invariant.
LEMMA RNextInv == RInv /\ [RNext]_rpcVars => RInv'
  <1> SUFFICES ASSUME RInv, [RNext]_rpcVars PROVE RInv'
    OBVIOUS
  <1>1. IInv' /\ RestTypes' /\ RestTypes
    BY StepUsesNode, NextIInv, TypesStep DEF RInv, RestTypes
  <1>2. (\A c \in Clients : ClientInv(c)) /\ SubscribedFirst
    BY PerClient DEF RInv
  <1>3. ASSUME NEW c \in Clients,
               (\E r \in Rules : api_rosrest_add(c, r)) \/ api_rosrest_stop(c)
        PROVE  ClientsInv'
    BY <1>3, TakenInHand DEF ClientsInv
  <1>4. ASSUME Subscribe \/ Advertise \/ Unpublish \/ Unsubscribe PROVE ClientsInv'
    <2>1. rest.c \in Clients
      BY <1>1, <1>4, InHandTyped DEF Subscribe, Advertise, Unpublish, Unsubscribe
    <2>2. \A c \in Clients : c = rest.c => ClientInv(c)' /\ SubscribedFirst'
      BY <1>1, <1>4, AfterSubscribe, AfterPublish, AfterUnpublish, AfterUnsubscribe
    <2>3. \A c \in Clients : c # rest.c => ClientInv(c)'
      BY <1>1, <1>4, OthersOfHandler
    <2>4. SubscribedFirst'
      BY <2>1, <2>2
    <2>5. \A c \in Clients : ClientInv(c)'
      BY <2>2, <2>3
    <2> QED
      BY <2>4, <2>5 DEF ClientsInv
  <1>5. ASSUME NEW b \in Bridges \ Clients, GatewayCall(b) PROVE ClientsInv'
    <2>1. NodeOnlyOf(b)
      BY <1>5, CallIsolated DEF GatewayCall, RInv
    <2>2. gw' = gw /\ rest' = rest /\ rest.pc = "idle" /\ NoteStale({})
      BY <1>5 DEF GatewayCall
    <2>3. \A c \in Clients : ~InHand(c) /\ ~InHand(c)' /\ b \in Bridges \ {c} /\ gw'[c] = gw[c]
      BY <2>2 DEF InHand
    <2>4. \A c \in Clients : ClientInv(c)'
      BY <1>1, <1>2, <2>1, <2>2, <2>3, OthersKept DEF RInv
    <2> QED
      BY <2>2, <2>4 DEF ClientsInv, SubscribedFirst
  <1>6. ASSUME \/ NoAnswer \/ Answer \/ PublishAnswer \/ RosThreadFails
               \/ \E c \in Clients : TakeMessage(c)
               \/ UNCHANGED rpcVars
        PROVE  ClientsInv'
    <2>1. UNCHANGED <<gw, rest, stale, publisher, subscriptions>>
      BY <1>6 DEF NoAnswer, Answer, PublishAnswer, RosThreadFails, TakeMessage, rpcVars,
                  clientVars, nodeVars, stop, DeliverUnknownCompression, RosThreadEnds
    <2>2. \A c \in Clients : ClientInv(c)'
      BY <1>2, <2>1, ReadersKeep
    <2>3. SubscribedFirst'
      BY <1>2, <2>1 DEF SubscribedFirst
    <2> QED
      BY <2>2, <2>3 DEF ClientsInv
  <1>7. ClientsInv'
    BY <1>3, <1>4, <1>5, <1>6 DEF RNext, ClientStep
  <1> QED
    BY <1>1, <1>7, PerClient DEF RInv, RestTypes, ClientsInv

-----------------------------------------------------------------------------
(***************************************************************************)
(* The theorems                                                             *)
(***************************************************************************)
\* For any bridges, clients and rules the invariant is one of the system.
THEOREM ClientsInvariant == RSpec => []RInv
  BY RestInit, RNextInv, PTL DEF RSpec

\* The REST clients and the gateways together use the node manager as its
\* specification says, so that what NodeManagerProofs proves holds of them.
THEOREM ClientsUseNodeManager == RSpec => Spec
  <1>1. RInit => Init
    BY DEF RInit
  <1>2. RInv /\ [RNext]_rpcVars => [Next]_nodeVars
    BY StepUsesNode DEF RInv, RestTypes
  <1> QED
    BY <1>1, <1>2, ClientsInvariant, PTL DEF RSpec, Spec

\* A rule that was said yes to is registered while it stands, its publisher is
\* alive, and the node has its handles, unless ROS refused some subscription.
THEOREM GoodRulesStayConnected == RSpec => []GoodRulesAreConnected
  <1>1. RInv => GoodRulesAreConnected
    <2> SUFFICES ASSUME RInv, rest.pc = "idle",
                        NEW c \in Clients, gw[c].state = "bound", gw[c].good
                 PROVE  /\ Connected(c)
                        /\ spinning => gw[c].rule.out \in ros_publishers
                        /\ spinning /\ Unusable(Topics) = {}
                             => gw[c].rule.in \in ros_subscriptions
      BY DEF GoodRulesAreConnected, Connected
    <2>1. Connected(c)
      BY DEF RInv, GoodAreConnected, InHand
    <2>2. gw[c].rule.in \in Topics /\ gw[c].rule.out \in Topics /\ c \in Bridges
      BY DEF RInv, HandlersAgree
    <2>3. HandlesMatchUse
      BY HandlesFollow DEF RInv
    <2>4. subscriptions[gw[c].rule.in].callbacks[c] # "off"
      BY <2>1 DEF Connected
    <2> QED
      BY <2>1, <2>2, <2>3, <2>4 DEF Connected, HandlesMatchUse, Subscribers
  <1> QED
    BY <1>1, ClientsInvariant, PTL

\* Whatever is registered for a client can be stopped; a stopped one left nothing.
THEOREM RegisteredStayBound == RSpec => []RegisteredAreBound
  <1>1. RInv => RegisteredAreBound
    BY DEF RInv, RegisteredByRule, RegisteredAreBound, InHand, Subscribers
  <1> QED
    BY <1>1, ClientsInvariant, PTL
=============================================================================
