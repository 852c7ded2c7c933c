# Verification of ros2-ws-gateway

TLA+ models of the gateway between ROS 2 and rosbridge-style websockets, the
TLC runs that check them, and TLAPS proofs about them. All source paths below are
relative to `src/rosextpy/rosextpy/` unless they start with `src/`.

## 1. The system

A process holds one ROS node and any number of *gateways*, one per websocket
connection, accepted (`ros_ws_gateway_endpoint.py`) or opened
(`ros_ws_gateway_client.py`). A gateway executes the messages of its peer
(advertise, publish, subscribe, services, actions) against the node, and sends
the peer what ROS delivers. A local agent with a REST interface tells gateways
which topics, services and actions to forward.

**Threads.** The *asyncio loop* runs message readers, the batch task of each
gateway, the REST handlers and every change of the node manager's registry. The
*ROS thread* (`NodeManager.run`) spins the node: it runs subscription callbacks
and the coroutines that proxy service and action calls. They share dictionaries
without a lock.

| component | state | operations | interacts with |
|---|---|---|---|
| Node manager, `node_manager.py` | registries `publisher`, `subscriptions`, `srv_services`, `srv_clients`, `act_servers`, `act_clients`; type caches; the node | create/destroy a manager for a bridge, purge a bridge, `run`, `stop` | called by gateways and REST clients; calls back from the ROS thread |
| Gateway, `ros_ws_gateway.py` | `published_topic`, `subscribed_topic`, `_adv_services`, `_adv_action_servers`, `batch_queue`, `_batch_task`, closed flag | 15 peer operations, 8 agent commands, connect, close, proxy and delivery callbacks | node manager; websocket; both threads |
| Endpoint and wrappers, `ros_ws_gateway_endpoint.py`, `websocket_utils.py` | list of open sockets | accept, read loop, disconnect | creates and closes gateways |
| Client, `ros_ws_gateway_client.py` | socket, reader task, handler lists | connect, reader, cancel, close | creates and closes gateways; used by the agent |
| Agent, `ros_gateway_agent.py` | `gw_map`, `gw_tasks`, `gw_config`, `gw_task_logs`, RPC clients | REST api, configuration, connection tasks, task log | clients, node manager |
| REST to ROS, `ros_rpc_gateway_client.py` | rules, its subscriptions and publishers | init, reset, close, delivery to a REST server | node manager |
| Message conversion, `ext_type_support.py`, C++ under `src/rosext`, `src/rosextpy/src` | loaded type support | convert, serialize | gateways |
| REST service, `app/ros_gateway_service.py` | none of its own | wrappers of agent methods | agent |
| Type packages, `ros_type_support_manager.py` | files | generate and build packages | nobody imports it |
| rosapi, `src/mrosapi` | parameter lock, loader cache | introspection services | separate node |

**What is hard.** A registry shared by connections that come, clash and go in any
order; constructors that swallow some failures and raise others; handlers that
raise half way and whose exception ends a connection in one context and a
background task in another; `close()`, which awaits in its middle and may itself
raise; coroutines on the ROS thread that look a context up, wait, and look again,
while the loop replaces, clears or deletes it; exceptions that end the ROS thread
and so everything the process does; waits without timeout on a callback group that
runs one callback at a time. `PROJECT.json` lists these hazards with their lines.

**What makes it correct**, per component:

- node manager: handles of the node are exactly the ones bridges use; a bridge
  never suffers from what another does; a purge leaves nothing of its bridge;
- gateway, topics: the gateway's dictionaries are its registrations, types agree,
  a connection that is gone is out of the registry for good, commands are executed;
- gateway, services: every proxied call ends, by a response, a withdrawal or a
  close; late or repeated messages do no harm; the ROS thread survives;
- actions: the same, and a goal handle gets one terminal transition;
- calls across processes: a call is dealt with in one place at a time and is answered in
  the end, unless its target drops it;
- REST rules: a rule that was said yes to stays registered, its publisher alive, a stopped one has left nothing;
- topics across processes: in order, once, unaltered, after their advertisement;
- client and agent: accepted rules reach the gateway, a removed gateway is disconnected, whatever ends a
  connection closes it and purges its bridge, handlers are notified once.

## 2. Modules

| module | models | checked by |
|---|---|---|
| `SharedHandles` | abstract: a handle per key, open exactly while somebody uses it, all gone when the node fails | refinement target |
| `LossyChannel` | abstract: what is given on one side arrives in order, at most once, in a form that is allowed for it, or not at all | refinement target |
| `NodeManager` | topics of `node_manager.py` | `NodeTopics` |
| `RosRPCGateway` | REST rules: `ros_rpc_gateway_client.py` and `api_rosrest_*`, next to gateways, over `NodeManager` (EXTENDS) | `NodeTopics` |
| `RosWsGateway` | topics, batch task and connection of `ros_ws_gateway.py`, over `NodeManager` (EXTENDS) | `GatewayTopics`, `GatewayRejected`, `GatewayBatch` |
| `ServiceProxy` | services that a peer offers: gateway, service manager and ROS thread of the process that calls | `ServicePolite`, `ServiceAgain` |
| `ActionProxy` | actions that a peer offers, with many goals under way | `ActionGoals` |
| `RemoteCalls` | services and actions called by the peer, and the way of call and answer through several processes | `RemoteCross`, `RemoteMutual` |
| `TopicRelay` | a topic from the ROS thread of one process to the publisher of another | `TopicRelay` |
| `Conversion` | `ext_type_support.py`: what a message becomes on the way (EXTENDed by `TopicRelay`) | `TopicRelay` |
| `GatewayAgent` | rules, connection task and client of one remote gateway: `ros_gateway_agent.py`, `ros_ws_gateway_client.py` | `AgentTask`, `AgentRemoved` |
| `NodeManagerProofs`, `RosRPCGatewayProofs`, `RosWsGatewayProofs`, `ServiceProxyProofs`, `ActionProxyProofs`, `RemoteCallsProofs`, `TopicRelayProofs` (with `Conversion`), `GatewayAgentProofs` | proofs about the module of that name | TLAPS |
| `MC...` | small instances, symmetry, bounds | |

How they fit: `RosWsGateway` and `RosRPCGateway` both drive the one registry of `NodeManager`.
`ServiceProxy` and `ActionProxy` look closely at one process between its two threads, with
the peer as an environment that answers what it owes, in any order; `RemoteCalls` joins several such
processes by FIFO wires, with each proxy reduced to a call that waits, and asks who waits for
whom. `TopicRelay` does the same for a topic. `GatewayAgent` decides when connections are made and what
they are told.

Each module has a few operators whose comment starts with *Seeded bug*. They are
not part of the specification; each varies the operator that follows the way a
plausible mistake would (a dropped check, a missing reset, a wrong key), and each
property has been seen to fail with one of them in place.

### NodeManager

`publisher[t]` and `subscriptions[t]` are the entries of the dictionaries, a record
with `type = NoType` for a missing entry. `ros_publishers` and `ros_subscriptions`
are the handles the node really has; `spinning` is whether the ROS thread has not
ended. The two differ from the registry exactly where the code lets them: the
subscription constructor swallows a refused name (`handle = FALSE`), a purge
stopped by such a manager leaves destroyed managers registered, and the end of the
ROS thread destroys all handles and no entry.

Registry calls do not await, so a call is one action: `create_publisher`,
`destroy_publisher`, `create_subscription`, `destroy_subscription`,
`remove_with_gateway`. `DeliverUnknownCompression` is a delivery that ends the ROS
thread: a callback was registered with a compression that nobody knows, and raises when a
message comes. `stop` ends it from outside; any other exception of a callback has the same
effect. A call that raises before it changes anything is a stuttering step, with its condition
kept as an operator (`CreatePublisherRaises`, ...), because the gateway behaves differently.

The order in which a purge meets the managers is the dictionary's; the model allows
any order (`DestroySubscriptionsOf`). QoS, queue lengths and message contents are
left out. The type found by `get_topic_type` for a subscription without type is any
type or none; with none, and the node gone, the look-up raises (`TypeLookupRaises` of `RosWsGateway`).

### RosRPCGateway

A client is one rule: it subscribes a topic, posts each message to a REST service and publishes the
answer. Rules with the same topics and service URI have the same key (`Key`), whatever their types. `gw[c]` is its rule and its standing in `rpc_map`; `rest` is where the REST handler on the loop
stands. Handlers do not await, so no two of them interleave, but the ROS thread may deliver
between any two calls they make of the node: each such call is an action (`Subscribe`, `Advertise`, `Unpublish`,
`Unsubscribe`), and an exception is swallowed by the handler, which leaves the client as far as it got
(`HandlerRaises`). `call` is the request the ROS thread waits for, inside the callback; the publisher
found when the answer comes may have been destroyed since (`stale`), which ends the thread.
`GatewayCall` is everything a gateway can do to the registry meanwhile. A rule whose construction failed
keeps its subscription and is in no map; the model keeps such clients as `failed`, and no property
pretends they can be stopped.

### RosWsGateway

`conn[b]` is a connection's life: `new`, `open`, `closing` (the read loop has ended
and `close()` awaits the websocket's own close), `closed`, or `leaked` (`close()`
raised before the purge). A topic handler never suspends, so a message or a command
is one action, split into what the handler does (`op_subscribe`), when it raises
(`SubscribeRaises`) and what the caller makes of that: `EndIf` for a message (the
connection ends; also for `RosWsGatewayException`, because the status that should
report it cannot be serialized, line 862), `DieIf` for a command (the batch task
ends, the connection stays).

`CloseRaises` is there for the gateways of `FailingCloses`. It stands for the websocket's
close failing (accepted sockets raise when the peer has gone, depending on the ASGI
server's version) and for an exception while pending services or actions are
cleared; `ServiceProxy` and `ActionProxy` show such causes in detail. Properties about clean-up
speak of closes that complete and say so (`FailingCloses`, `leaked`).

### ServiceProxy

One service name; names share nothing. `adv[b]` is the number of the context that
`_adv_services` holds for gateway `b`, 0 for none. Contexts are numbered by the advertisement that
made them, over all gateways (`MaxAdverts` bounds them in all); `called[n]` is the calls entered
in context `n`; `future[c]` what has completed a call's future; `srv` the one
`SrvServiceManager` of the name. `loop` is where the handler that is running on the
loop stands: handlers do not interleave with each other (their awaits do not
suspend) but with the ROS thread, so each is split at the accesses the other thread
can observe. `ros` is where the proxy coroutine stands; states `died_*` mean that an
exception has ended the ROS thread, and where.

Facts about rclpy that the module assumes: the node's callbacks share one mutually
exclusive group, so a second proxy call does not start before the first has
returned; only `ROSServiceFailException` is survived by `run`; a response through
a service that was destroyed raises; completing a future again is harmless.
`late` marks a call entered into a context that was cleared between lookup and
entry. Nothing in the code ever completes it; the properties that speak of
waiting calls exempt it by name.

`Polite = TRUE` has peers advertise a name again only after withdrawing it, which
is how the agent's own expose and hide commands are meant to be used. Without it a
replaced context loses its waiting call; `ServiceProxyProofs` shows which properties need it.

### ActionProxy

The same handlers for actions; contexts, `loop` and `Polite` are as above. Goals are accepted at any
time and each runs as a task of its own, so several proxies wait at once, and `ros` says
which one is between two awaits. `goal[g]` holds the goal handle's terminal `status`, the proxy's
`future` and the `reply` its ROS client got. Assumed of rclpy: a task's exception is survived and the goal is
answered with an empty result; a goal without terminal status is aborted; a second terminal status raises; once
the action server is destroyed, updates are ignored and clients hear nothing (`lost`). Hence two ways a peer ends its
own connection: a second answer to a goal whose task has not left yet, and an answer or feedback to one that is unknown, for
instance because its task has left. A peer may answer any goal it was sent as often as it likes (`WasSent`); `owed` only
tells which goals have not been answered at all, for `AnswersAreWelcome`. A `close()` that
meets a goal whose result has come, but whose task has not left, raises in `abort()` and skips the rest (`leaked`).

### RemoteCalls

`Target[p]` is the process whose local ROS service or action is offered to the ROS clients of `p`, so that an
instance is a graph of processes. On the caller's side the group is busy from `TakeRequest` to `Finish` for a service, not
for a goal; on the other, `loop[q]` is the call for whose local server `wait_for_service` blocks the loop,
`outbox[q]` the answers handed to that loop and not sent yet, and `waits[q]` whether the ROS thread blocks in `_run_async_func` until
the last of them is sent. Local servers come and go
(`ChangeServer`), goals are accepted, rejected and give feedback, and the first feedback ends the ROS
thread (its callback is looked up under a misspelt key). A call that the code drops
without telling its caller enters the history variable `lost`: no server within three seconds, a
rejected goal, a server that leaves with its requests. `SendTimesOut` is the end of that second of waiting: `future.cancel()`
does not take the send back (the loop creates the task before it hears of the cancellation, and the first step of the task writes the
frame), so the ROS thread goes on, takes other work, and the answer is still sent.
Closes and withdrawals are single steps here.

`CanAct(p)` lists the guards of what `p` does by itself. `NoCircle` rules out processes that call each other's services in a
circle, which `RemoteMutual` shows to block; `SomebodyCanAct` says that nothing else does. A goal anywhere in a circle is
enough, since it runs as a task of its own outside the callback group; `RemoteCross` is that case.

### TopicRelay and Conversion

Both ends of one connection. The agents of both may ask for the topic (`BatchPub`, `BatchSub`) and withdraw it,
with different codecs, while messages are queued in the sender's node, handed by its ROS thread
to its loop (`outbox`), on the wire, or published (`out`). The ROS thread waits (`waits`) until its frame is sent, or gives up waiting
after a second (`SendTimesOut`), which leaves the frame in `outbox` as in `RemoteCalls`; so several frames may be there. A frame for a topic the
receiver does not know, or that it cannot convert, ends the connection.

`Places` are where a message can be, the farthest first; `At` is the number of the one that is there.

To its users a bridged topic is a `LossyChannel`: `Channel` maps the messages the subscription was given, those the
publisher has published and whether the connection is up to the channel's three variables, and `ArrivesAs` says that a message arrives as it
was, or as the conversion makes it where that differs. Unlike `NoneVanishes`, this holds through withdrawals, a lost
connection and a dead ROS thread as well; it does not say that nothing is lost without need, which is what `NoneVanishes` adds.

`Conversion` describes a message type by the defaults a new message has, as `ext_type_support.py` sees it, and
says when converting back raises (`ConversionRaises`) and what arrives otherwise (`Carried`). The code goes down into
lists and nested messages by recursion; here these are recursive functions on the messages that the constant `Depth`
knows, together with all their parts (`Parts`), each nesting less deep than the whole. Two losses of the code
are part of it: lists of anything but messages, bounded sequences and fixed arrays of messages cannot be converted
back, and arrays with default elements keep them in front.

### GatewayAgent

One remote address. `config` holds the rules that `_add_gateway_task` stored, per kind and without their
titles; `asked` what the gateway was handed, `accepted` what the api has said yes to (a history
variable). `task` is where the task of `_run_gateway_task` stands, `reader` where the client's
reader stands; their actions are cut at the awaits. REST handlers run on the loop and never await, so each
is one action. `InMap` is derived: `gw_map` lists the client from the first line of the `with` block to
the `finally`.

`Cancel` is `api_remove_gateways` or the agent's own close. A task that waits for its reader passes the
cancellation on and swallows the outcome (`wait_on_reader`), so it goes on to close properly; at any other await
it ends there (`aborted`). Anything tenacity sees counts as a failed attempt, and one attempt is
all `retry_config` allows; the finished task stays in `gw_tasks`. So an address is connected to at most once
in the life of a process, and rules added afterwards are stored, answered with "ok", and never used.

The log of exposed services and actions is modelled because it can raise: its check for a
known name reads `x['name']`, which its entries lack, so the second name of a kind raises
`KeyError`, after the gateway has been handed the rule (`LogRaises`, `ReplayRaises`). The same check for topics is
inverted: only names it already has are added again. Nothing but `api_get_config` reads those lists, and they are
left out. `api_add_gateways` passes no configuration, whose `.get` raises inside `_run_gateway_task`, which swallows it: it
answers "ok", starts nothing, and is a stuttering step here.

The gateway's own `close()` always succeeds in this module; `RosWsGateway` has closes that raise.

## 3. What the runs show

| run | instance | result |
|---|---|---|
| `NodeTopics` | a gateway and a REST client, 1 accepted and 1 refused name, 2 known types and 1 unknown, raw and not, 2 REST services, 6 rules | 870,000 states; registry and handles agree, bridges are isolated, publishers refine `SharedHandles`, rules are registered with their handles or gone |
| `GatewayTopics` | 2 gateways, 1 topic, 2 types, closes may fail, queue of 1 | 176,000 states; dictionaries, registry and types agree, a closed gateway leaves nothing, subscriptions refine `SharedHandles` |
| `GatewayRejected` | 1 gateway, accepted and refused name, known and unknown type, queue of 1 | 55,000 states; a connection that goes down leaves the registry for good |
| `GatewayBatch` | 1 gateway, 1 topic, 2 types, queue of 2 | violation: a command that raises ends the batch task, the next one is never executed |
| `ServicePolite` | 2 gateways, 2 calls, 3 advertisements in all | 1,573,000 states; a waiting call stays reachable, contexts keep no finished call, late answers find their call, a close ends the waiting call |
| `ServiceAgain` | 1 gateway, 2 calls, 2 advertisements | violation: `finally: del ...` in the wrong or missing context ends the ROS thread |
| `ActionGoals` | 2 gateways, 2 goals, 2 advertisements in all | 1,092,000 states; waiting goals stay reachable, first answers are welcome, "succeeded" comes with the result also after contradicting answers, a close ends its goals |
| `RemoteCross` | 2 processes, services one way and goals the other, 3 calls, 1 change of a server | 330,000 states; a call is in one place at a time, some process can always act until all are answered, and each is answered unless dropped or a process is stuck |
| `RemoteMutual` | 2 processes that call each other's services, 2 calls | violation: both groups are busy with calls to each other, for ever |
| `TopicRelay` | 7 message types, 5 compressions, 3 commands, 3 messages | 1,966,000 states; in order, once, unaltered, none vanishes, none arrives before its topic; the relay refines `LossyChannel` |
| `AgentTask` | 2 kinds (topics, services), 2 names, 2 rules of a kind, 2 cancellations | 70,000 states; accepted rules are handed over, the connection is closed and purged, handlers run once |
| `AgentRemoved` | 2 kinds, 1 name, 1 cancellation | violation: a gateway removed while connect handlers run stays connected |

The four violations are disagreements between the code and what its comments
promise; `PROJECT.json` quotes the lines under "findings".

**Bounds.** Two bridges are the fewest that share, clash and take over; the
registry treats topics independently except in a purge, where an accepted and a refused one are the
fewest that matter, and `NodeTopics` has both. Two types are the fewest
that clash; the six rules of `NodeTopics` have one each of what can go wrong (a type that clashes with a
gateway's, a name refused for the subscription, one refused for the publisher, an unknown type), one
that works, and one for another service with the same topics. `MaxQueue` bounds the commands waiting per gateway: two are needed for one to be stuck
behind a failing one (`GatewayBatch`); elsewhere one command that interleaves with messages and the close is
the interesting case. `OneBatch` (a constraint of `GatewayTopics`) lets commands
wait for one gateway at a time; commands of two gateways meet through the registry only. A single
mode in `GatewayTopics` keeps both gateways' interleavings affordable; the two modes
meet in `NodeTopics` and `GatewayRejected`.

`MaxAdverts` is 3 in `ServicePolite`: both gateways own the name and one of them withdraws and comes
back under a call; 2 in `ActionGoals` and `ServiceAgain` give either a second owner or a second context. Two calls,
or goals, are the fewest where one is waiting while the answer to another is outstanding. In `RemoteCross` each
process is both caller and server, so that a wait passes from a group of one to a group of the other and could come back, and
three calls let one be queued behind one that is served. In `TopicRelay` three commands are a request, its withdrawal and one
of the other agent; three messages are enough for two to overtake a third.
In `AgentTask` two rules of a kind are the fewest that make the log raise, and two cancellations the
fewest that interrupt a close which a first one began.
Symmetry is used in safety runs only. `CHECK_DEADLOCK FALSE` stands where all
gateways may be closed, the ROS thread be dead, or a bounded supply of
advertisements, commands and calls be used up.

**Fairness.** `GatewayRejected` and `GatewayBatch`: weak fairness of each gateway's batch step (the
asyncio loop runs every ready task) and of `FinishClose` (a websocket close ends: the
library gives up after its close timeout). Nothing is assumed of the peer or the agent, and none
of `CloseRaises`. `ServicePolite` and `ActionGoals`: one weak fairness condition for the loop, which covers the
handler that has begun and the closing of connections that are down, and one for the ROS thread (two operating
system threads, neither blocked by the other in these steps; a task that can run makes progress, and
which one is not said). `RemoteCross` and `RemoteMutual`: a single weak fairness condition over the loops, the ROS
threads and the local servers of all processes; it says no more than that a system in which something can be
done does something. That is enough because calls are finite in number, so no part can keep the others waiting for ever. `AgentTask`:
weak fairness of the connection task and of the reader (the loop runs
ready tasks; a websocket close ends by its timeout), none of connecting or of anything the peer does. Nowhere
fairness for requests, answers of peers, advertisements or hang-ups.

## 4. What is proved

For all values of the constants that satisfy the modules' assumptions
(`NodeAssumption`, `ClientAssumption`, `GatewayAssumption`, `ServiceAssumption`, `ActionAssumption`, `CallAssumption`, `ConversionAssumption`, `RelayAssumption`,
`AgentAssumption`: subsets, any graph of processes, messages that have the shape of their type and finite depth, `NoType` is no type, REST clients use the mode "fields", bounds):

- `TypeCorrect`, `NothingIsOrphaned`, `HandlesAlwaysMatchUse` of `NodeManager`, through the
  inductive invariant `IInv`. The checked invariants are not inductive: joining a
  registered manager opens no handle, so the induction must know that registered managers
  have a handle and a user. Both fail for subscriptions from the moment a manager without handle is
  registered, since no call ever removes it; the invariant is conditional on that.
- `OthersAreUndisturbed`: each step is a call of one bridge (or the end of the
  thread), and a handle goes only when its manager has lost the last bridge.
- `PublishersImplementSharedHandles`, and `SubscriptionsImplementSharedHandles` under
  `RejectedNames = {}`: each call maps to one abstract step or a stutter. With refused names the
  subscriptions do not implement it: a subscription then has users and no handle.
- `GatewaysUseNodeManager` and `ClientsUseNodeManager`: every step of the gateways, and every step of REST
  clients next to gateways, is on the registry's variables a
  step of `NodeManager` or leaves them alone, so its theorems hold of both.
- `AdvertisedTypesAlwaysAgree`, `HealthyGatewaysAlwaysAgree`, `ClosedGatewaysLeaveNothing`, through
  `GInv`, which relates dictionaries and registrations of one gateway at a time. A step of one
  gateway keeps what another has registered (`HandlerIsolation`, `CloseIsolation`), so the
  induction is done per gateway.
- `GoodRulesStayConnected` and `RegisteredStayBound` of `RosRPCGateway`, through `RInv`. A client that is not in
  the hands of a handler keeps its connection because every other step belongs to another bridge (`CallIsolated`,
  from the node manager's isolation lemmas); for the one that is, the invariant says from call to call where it
  may be registered (`RegisteredByRule`), that it subscribed before it advertises (`SubscribedFirst`), and the
  `After...` lemmas carry it through each call, raising or not.
- `ServiceTypesHold` and `ContextsKeepNoStaleCalls` of `ServiceProxy` for any peers, through `SInv`; `WaitingStaysReachable`
  and `OwedStayKnown` for polite peers, through `PInv`. A context is followed from its number being drawn to its
  being popped: it belongs to one bridge and is empty before it is entered (`ContextsAreOwned`), and
  only a context whose calls have been failed is popped (`PoppedAreCleared`, which is where politeness is
  needed). A call under way is followed from the lookup to the return: it has a context as long as that has not been cleared
  (`CallsHaveContext`), and what a peer owes and nobody has failed is the call that waits (`OwedAreWaiting`).
- `ActionTypesHold` of `ActionProxy` for any peers; `WaitingFound`, `FirstAnswerTaken` and `ResultDelivered` for polite
  peers, through `IInv`. Besides the contexts (`ContextInv`, `CalledInv`) the induction follows every goal: its handle has a
  terminal status exactly when its future has been given a value, as long as its server lives, and a server that is gone
  never lives again, because managers are numbered (`HandleInv`); a goal that has succeeded is still entered
  where its task deletes it, since a context is popped only after an iteration that met no succeeded goal (`EntryInv`); and what
  a peer owes to a current context still waits, except while that context is being cleared (`OwedInv`). `TaskMoves` sums up
  what a task does from one await to the next, so that the steps of the loop and of the ROS thread are dealt with apart.
- `CallTypesHold` and `CallsStaySomewhere` of `RemoteCalls`, for any graph of processes and any calls, through `CInv`.
  `CallsAreSomewhere` only speaks of calls that wait over an open connection, which is not inductive: the
  answer to a call whose caller hung up is still under way at the other process. `PlaceInv` therefore
  says of every call, waiting or not, that it is at one of six stages at most (`Stages`: on the way, in the waiting loop, at the local
  server, answered, with the loop to be sent, on the way back), and `HomeInv` that only its caller's wires and its
  target hold it and that no set holds it twice. A step then leaves a call where it is, takes it to another
  stage, or from the last one (`Steady`, `Moved`, `Gone`).
- `NobodyWaitsForAll` of `RemoteCalls`, for any graph of processes: if nobody can act and nobody is stuck, `PlaceInv` leaves one
  stage for a call that waits, among the answers that the ROS thread of the target cannot take because its group is busy
  (`WaitsForTarget`; a thread that waits for a send has one to wait for, `WaitInv`). The group is busy with a service call that waits in turn (`GroupInv`), so the busy processes
  are closed under `Target` and contain a circle.
- `CarriedUnchanged` and `BinaryRaisesMore` of `Conversion`, for messages of any type and depth: a message comes back as it
  was exactly if no array in it is preset, and every message that text form cannot carry, binary form cannot
  either. `StartsEmptyIs`, `RaisesIs` and `CarriedIs` first show that the recursive functions exist and do what their
  definitions say (for `Carried`, whose values are not Booleans, by extending partial solutions message by message). The
  theorems then follow from `Shallowest`: among the messages for which one fails, there is one
  whose parts are all fine (`LeastNatural`, from the well-foundedness of `<` on the naturals).
- `RelayTypes`, `RelayOrder`, `RelayCompleteness`, `RelayIntegrity` and `RelayWelcome`: the five invariants of `TopicRelay`, for any
  messages, compressions and bounds, through `RInv`. Order is kept since each place has only earlier messages than the
  places behind it (`Placed`), and the place itself is in order (`Climbs`). That no message comes before its topic needs more than the head
  of the wire: every message on it has an advertisement before it, or the topic is advertised already; so it is for a frame that
  is still to be sent and for any the subscription may yet produce; and a peer only asks for a topic that it has advertised itself (`TopicInv`).
  `ContentInv` says of every message under way that it is the one given, and of a published one that it is that or its conversion;
  `CarriedUnchanged` does the rest.
- `RelayImplementsChannel`: `TopicRelay` implements `LossyChannel`, step by step. A message that is published is behind all that have arrived,
  because it was at the head of the wire (`IsPending`, from `OrderInv`).
- `AcceptedAreAlwaysAsked`, `EndedIsAlwaysReleased` and `AlwaysNotifiedOnce` of `GatewayAgent`, for any kinds, names
  and bounds, through `AInv`. The induction needs that rules accepted before the connection is up are stored
  (`WaitingAreStored`), that the flag `_closed` goes with the purge (`FlagIsPurge`), and that, unless the replay raised, a
  task closes only when its reader is done (`OneCloser`).

Every invariant and action property that a passing run checks is proved. Only model-checked: every liveness property
(`DisconnectReleases`, `ClosingWakes`, `GoalsEndWithConnection`, `LostIsReleased`, `RequestsAreAnswered` and
`AddPublishIsCarriedOut`), since liveness under fairness is out of TLAPS's reach here. The library's induction theorems
are too, as they take an operator; where induction is needed, for `Conversion`, it is done by a least counterexample. The other modules use no
recursion.

## 5. Not modelled, and what is left

Left out for good: the REST service (`app/ros_gateway_service.py` forwards each request to one method of the
agent and keeps no state), generated type packages (files and subprocesses, imported by nobody), the C++ type support
(shared libraries and memory layouts), rosapi (a separate third-party node), framing and logging.

The proxies of services and actions await `self.send` on the ROS thread (`ros_ws_gateway.py:652` and `680`), while the loop writes to
the same websocket. The models make such a send one step that puts the message on the wire or raises; what the
websocket library does when two threads meet inside it, or when the send has to wait for the socket to drain on a
thread that has no loop, is not modelled. Frames and answers go
through `_run_async_func` to the loop, as modelled.

Left out of modelled components: the client's own retry (`DEFAULT_RETRY_CONFIG`, which only tests use: the agent
switches it off); the log of topics, which only `api_get_config` reads; cancelling a goal, which neither
side forwards; QoS; the type caches, abstracted to the type they return; a topic forwarded in both directions
at once, whose messages would circulate.

What could follow: a `TopicRelay` in both directions, with the bridge's own
publications coming back; the two proxies under `RosWsGateway`'s close, so that `CloseRaises` is derived
and not assumed.
