--------------------------- MODULE RosRPCGateway -----------------------------
(***************************************************************************)
(* ROS topics bound to REST services: rosextpy/ros_rpc_gateway_client.py    *)
(* and the api_rosrest_... methods of ros_gateway_agent.py, over the node   *)
(* manager's registry, which the clients share with the gateways.           *)
(*                                                                          *)
(* A rule subscribes one topic, posts each of its messages to a service,    *)
(* and publishes the answers on another (or the same) topic.  REST handlers *)
(* run on the asyncio loop and do not await, so the calls of one handler    *)
(* meet the ROS thread alone.  That thread waits for the service inside the *)
(* subscription callback, and runs nothing else meanwhile.                  *)
(***************************************************************************)
EXTENDS NodeManager

CONSTANTS Clients,  \* the ids that RosRPCGatewayClient objects draw
          NoClient,
          Services, \* the URIs of the REST services
          Rules     \* the rules that are added: topics, their types, the service

ASSUME ClientAssumption ==
    /\ Clients \subseteq Bridges /\ NoClient \notin Clients
    /\ Rules \subseteq [in : Topics, out : Topics, uri : Services, req : Types, resp : Types]
    /\ "fields" \in Modes

VARIABLES gw,    \* per client: its rule and what became of it
          rest,  \* what the REST handler on the loop is doing
          stale, \* the clients whose publishers entry is a destroyed manager
          call   \* the service call the ROS thread waits for

clientVars == <<gw, rest, stale, call>>
rpcVars    == <<nodeVars, clientVars>>

-----------------------------------------------------------------------------
\* The rule is that of the last request.  state: bound clients are those of
\* rpc_map, failed ones were never entered.  good: the last call for it did not
\* raise.  held: the type of the manager in publishers, NoType without one.
NewClient == [state |-> "new", good |-> TRUE, held |-> NoType, rule |-> NoClient]
AtRest == [pc |-> "idle", op |-> "none", c |-> NoClient]
NoCall == [pc |-> "idle", c |-> NoClient, type |-> NoType]

RInit == /\ Init
         /\ gw = [c \in Clients |-> NewClient]
         /\ rest = AtRest
         /\ stale = {}
         /\ call = NoCall

\* rpc_map: the key of a rule is made of its topics and its service.
Key(r)     == <<r.out, r.uri, r.in>>
BoundTo(r) == {c \in Clients : gw[c].state = "bound" /\ Key(gw[c].rule) = Key(r)}

\* A manager object dies when its entry leaves the registry.
NoteStale(kept) ==
    stale' = {c \in Clients :
                 /\ gw'[c].held # NoType
                 /\ c \in stale \ kept \/ publisher'[gw'[c].rule.out].type = NoType}

RestAt(pc) == [rest EXCEPT !.pc = pc]

-----------------------------------------------------------------------------
(***************************************************************************)
(* The REST handlers                                                        *)
(***************************************************************************)
\* A new rule constructs a client; one with known topics resets its client,
\* which closes it first.
api_rosrest_add(c, r) ==
    /\ rest.pc = "idle"
    /\ \/ /\ gw[c].state = "new" /\ BoundTo(r) = {}
          /\ rest' = [pc |-> "subscribing", op |-> "add", c |-> c]
       \/ /\ c \in BoundTo(r)
          /\ rest' = [pc |-> "unpublishing", op |-> "reset", c |-> c]
    /\ gw' = [gw EXCEPT ![c].rule = r]
    /\ UNCHANGED <<nodeVars, stale, call>>

api_rosrest_stop(c) ==
    /\ rest.pc = "idle" /\ gw[c].state = "bound"
    /\ rest' = [pc |-> "unpublishing", op |-> "stop", c |-> c]
    /\ UNCHANGED <<nodeVars, gw, stale, call>>

\* The handler swallows the exception: a client under construction is lost, a
\* bound one stays in rpc_map as far as it got.
HandlerRaises ==
    /\ gw' = [gw EXCEPT ![rest.c].good = FALSE,
                        ![rest.c].state = IF rest.op = "add" THEN "failed" ELSE @]
    /\ rest' = AtRest

\* _init, first loop.
Subscribe ==
    LET c == rest.c
        r == gw[c].rule
    IN /\ rest.pc = "subscribing"
       /\ \/ /\ CreateSubscriptionRaises(r.req, r.in)
             /\ HandlerRaises /\ UNCHANGED nodeVars
          \/ /\ create_subscription(r.req, r.in, c, "fields")
             /\ rest' = RestAt("publishing") /\ UNCHANGED gw
       /\ NoteStale({}) /\ UNCHANGED call

\* Seeded bug: a publisher that cannot be had is passed over.
AdvertiseForgiving ==
    LET c == rest.c
        r == gw[c].rule
    IN /\ rest.pc = "publishing"
       /\ \/ CreatePublisherRaises(r.resp, r.out) /\ UNCHANGED nodeVars
          \/ create_publisher(r.resp, r.out, c)
       /\ gw' = [gw EXCEPT ![c].state = "bound", ![c].good = TRUE, ![c].held = r.resp]
       /\ rest' = AtRest
       /\ NoteStale({c}) /\ UNCHANGED call

\* _init, second loop.
Advertise ==
    LET c == rest.c
        r == gw[c].rule
    IN /\ rest.pc = "publishing"
       /\ \/ /\ CreatePublisherRaises(r.resp, r.out)
             /\ HandlerRaises /\ UNCHANGED nodeVars
             /\ NoteStale({})
          \/ /\ create_publisher(r.resp, r.out, c)
             /\ gw' = [gw EXCEPT ![c].state = "bound", ![c].good = TRUE, ![c].held = r.resp]
             /\ rest' = AtRest
             /\ NoteStale({c})
       /\ UNCHANGED call

\* close, first loop: publishers is not emptied.
Unpublish ==
    LET c == rest.c
    IN /\ rest.pc = "unpublishing"
       /\ IF HasPublisher(gw[c].rule.out) THEN destroy_publisher(gw[c].rule.out, c)
          ELSE UNCHANGED nodeVars
       /\ rest' = RestAt("unsubscribing")
       /\ UNCHANGED <<gw, call>> /\ NoteStale({})

\* The end of close: a stop leaves rpc_map, a reset goes on with _init.
Closed ==
    IF rest.op = "stop"
    THEN gw' = [gw EXCEPT ![rest.c].state = "stopped"] /\ rest' = AtRest
    ELSE rest' = RestAt("subscribing") /\ UNCHANGED gw

\* Seeded bug: close forgets the subscriptions.
UnsubscribeNothing ==
    /\ rest.pc = "unsubscribing"
    /\ Closed
    /\ UNCHANGED <<nodeVars, call>> /\ NoteStale({})

\* close, second loop.
Unsubscribe ==
    LET c == rest.c
        t == gw[c].rule.in
    IN /\ rest.pc = "unsubscribing"
       /\ IF HasSubscription(t) THEN destroy_subscription(t, c) ELSE UNCHANGED nodeVars
       /\ IF DestroySubscriptionRaises(t, c) THEN HandlerRaises ELSE Closed
       /\ UNCHANGED call /\ NoteStale({})

-----------------------------------------------------------------------------
(***************************************************************************)
(* The ROS thread                                                           *)
(***************************************************************************)
\* _ros_subscription_callback posts the message.
TakeMessage(c) ==
    LET t == gw[c].rule.in
    IN /\ spinning /\ call.pc = "idle" /\ gw[c].rule # NoClient
       /\ t \in ros_subscriptions /\ ~subscriptions[t].raw
       /\ subscriptions[t].callbacks[c] = "fields"
       /\ call' = [NoCall EXCEPT !.pc = "calling", !.c = c]
       /\ UNCHANGED <<nodeVars, gw, rest, stale>>

\* The message makes no request under the rule's mapping, the service fails, or
\* it answers what the rule does not expect: nothing is published.
NoAnswer ==
    /\ spinning /\ call.pc = "calling"
    /\ call' = NoCall
    /\ UNCHANGED <<nodeVars, gw, rest, stale>>

\* response_to_mesg makes a message of the type of the manager in publishers;
\* without one it raises, as it does for an answer it cannot map.
Answer ==
    /\ spinning /\ call.pc = "calling"
    /\ \/ /\ gw[call.c].held # NoType
          /\ call' = [call EXCEPT !.pc = "publishing", !.type = gw[call.c].held]
          /\ UNCHANGED nodeVars
       \/ call' = NoCall /\ RosThreadEnds
    /\ UNCHANGED <<gw, rest, stale>>

\* The publisher is looked up again: one that was destroyed meanwhile, or has
\* another type, raises.
PublishAnswer ==
    LET c == call.c
        fits == c \notin stale /\ gw[c].held = call.type
    IN /\ spinning /\ call.pc = "publishing"
       /\ IF fits THEN UNCHANGED nodeVars ELSE RosThreadEnds
       /\ call' = NoCall
       /\ UNCHANGED <<gw, rest, stale>>

-----------------------------------------------------------------------------
\* What the other bridges do.
GatewayCall(b) ==
    /\ rest.pc = "idle"
    /\ \/ \E t \in Topics : PublisherCall(b, t) \/ SubscriptionCall(b, t)
       \/ remove_with_gateway(b)
    /\ UNCHANGED <<gw, rest, call>> /\ NoteStale({})

RosThreadFails ==
    /\ \/ stop
       \/ call.pc = "idle" /\ \E t \in Topics : DeliverUnknownCompression(t)
    /\ UNCHANGED clientVars

ClientStep == \/ Subscribe \/ Advertise \/ Unpublish \/ Unsubscribe
              \/ NoAnswer \/ Answer \/ PublishAnswer

RNext ==
    \/ \E c \in Clients :
          \/ \E r \in Rules : api_rosrest_add(c, r)
          \/ api_rosrest_stop(c)
          \/ TakeMessage(c)
    \/ ClientStep
    \/ \E b \in Bridges \ Clients : GatewayCall(b)
    \/ RosThreadFails

RSpec == RInit /\ [][RNext]_rpcVars

-----------------------------------------------------------------------------
(***************************************************************************)
(* Properties                                                               *)
(***************************************************************************)
\* A rule that was said yes to is registered, whatever gateways do with the same
\* topics and whichever earlier calls failed half way: its publisher lives and
\* has the rule's type, so that no answer published while the rule stands ends
\* the ROS thread; and while the node lives it has a ROS subscription, of the
\* type of whoever subscribed first.  (Once ROS has refused the name of some
\* subscription the last is not certain: its manager can never be destroyed, a
\* purge stops there and leaves others registered whose handles it destroyed.)
GoodRulesAreConnected ==
    rest.pc = "idle" =>
        \A c \in Clients :
            gw[c].state = "bound" /\ gw[c].good =>
                LET r == gw[c].rule
                IN /\ subscriptions[r.in].callbacks[c] = "fields"
                   /\ c \in publisher[r.out].bridges
                   /\ publisher[r.out].type = r.resp
                   /\ gw[c].held = r.resp /\ c \notin stale
                   /\ spinning => r.out \in ros_publishers
                   /\ spinning /\ Unusable(Topics) = {} => r.in \in ros_subscriptions

\* A client that is still registered with the node is in rpc_map, where a stop
\* finds it, through failing resets and stops; one that was stopped has left
\* nothing.  (A client whose constructor failed is not found: its subscription
\* stays.)
RegisteredAreBound ==
    rest.pc = "idle" =>
        \A c \in Clients :
            gw[c].state \in {"new", "stopped"} =>
                \A t \in Topics : /\ c \notin publisher[t].bridges
                                  /\ c \notin Subscribers(subscriptions[t])
=============================================================================
