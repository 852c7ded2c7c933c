---------------------------- MODULE GatewayAgent -----------------------------
(***************************************************************************)
(* The agent's connection to one remote gateway: the forwarding rules of    *)
(* rosextpy/ros_gateway_agent.py (apply_config and the REST api) and the    *)
(* task that connects, with the client of ros_ws_gateway_client.py inside.  *)
(*                                                                          *)
(* Two tasks of the asyncio loop share the client: the task that            *)
(* _run_gateway_task starts (connect, hand the rules over, wait for the     *)
(* reader, close) and the client's reader.  An action is what one of them   *)
(* does between two awaits, or one call of the REST api, which never        *)
(* awaits.  Addresses share nothing; this is one of them.  The table        *)
(* gw_tasks never forgets a task and retry_config stops after one attempt,  *)
(* so an address is connected to at most once in the life of the process.   *)
(* A gateway's own close() succeeds here; RosWsGateway has those that raise. *)
(***************************************************************************)
EXTENDS Sequences, Naturals, FiniteSets, Functions

CONSTANTS Kinds,        \* publish, subscribe, expose-service, expose-action
          ServiceKinds, \* the last two
          Names,
          MaxRules,     \* bound: rules of a kind in gw_config
          MaxCancels    \* bound: cancellations

ASSUME AgentAssumption ==
    /\ ServiceKinds \subseteq Kinds
    /\ MaxRules \in Nat
    /\ MaxCancels \in Nat

VARIABLES config,   \* gw_config: per kind, the rules stored for the address
          log,      \* gw_task_logs: per service kind, the names it lists
          asked,    \* rules the gateway was handed and has not been told to drop
          accepted, \* rules the api has said "ok" to, and not removed since
          task,     \* where the task of _run_gateway_task stands
          reader,   \* where the reader task stands
          sock,     \* none, open, shut (lost, or this end has begun to close it)
          closed,   \* the gateway's _closed flag
          notified, \* how often close() has purged the bridge and notified
          cancels   \* how often the task was cancelled

ruleVars == <<config, log, asked, accepted>>
connVars == <<task, reader, sock, closed, notified>>
vars     == <<ruleVars, connVars, cancels>>

-----------------------------------------------------------------------------
Rules == Kinds \X Names

Stored == {r \in Rules : r[2] \in Range(config[r[1]])}

\* closing_ws: awaits the websocket's close; closing_gw: has then found the
\* gateway not yet closed and awaits the same close again, inside it.
TaskStates   == {"none", "connecting", "starting", "up", "closing_ws", "closing_gw",
                 "ended", "aborted"}
ReaderStates == {"none", "reading", "closing_ws", "closing_gw", "done"}
Closing      == {"closing_ws", "closing_gw"}

\* gw_map lists the client from the first line of the with block to its finally.
InMap == task \in Closing \cup {"up"}

Init ==
    /\ config = [k \in Kinds |-> <<>>]
    /\ log = [k \in ServiceKinds |-> {}]
    /\ asked = {} /\ accepted = {}
    /\ task = "none" /\ reader = "none"
    /\ sock = "none" /\ closed = FALSE
    /\ notified = 0 /\ cancels = 0

-----------------------------------------------------------------------------
(***************************************************************************)
(* The REST api                                                             *)
(***************************************************************************)
\* The log's check for an exposed name reads a key that its entries lack.
LogRaises(k) == k \in ServiceKinds /\ log[k] # {}

\* Seeded bug: the whole rule is listed, not its name.
ListedAsRule(k, n) ==
    [j \in ServiceKinds |-> IF j = k THEN log[j] \cup {<<k, n>>} ELSE log[j]]

Listed(k, n) == [j \in ServiceKinds |-> IF j = k THEN log[j] \cup {n} ELSE log[j]]

Unlisted(k, n) == [j \in ServiceKinds |-> IF j = k THEN log[j] \ {n} ELSE log[j]]

HandOver(k, n) ==
    /\ InMap
    /\ asked' = asked \cup {<<k, n>>}
    /\ \/ /\ LogRaises(k)
          /\ UNCHANGED <<log, accepted>>
       \/ /\ ~LogRaises(k)
          /\ log' = Listed(k, n)
          /\ accepted' = accepted \cup {<<k, n>>}
    /\ UNCHANGED <<config, task>>

\* Seeded bug: a rule is stored only along with the task it starts.
StoreWithTask(k, n) ==
    /\ ~InMap /\ Len(config[k]) < MaxRules
    /\ config' = IF task = "none" THEN [config EXCEPT ![k] = Append(@, n)] ELSE config
    /\ accepted' = accepted \cup {<<k, n>>}
    /\ task' = IF task = "none" THEN "connecting" ELSE task
    /\ UNCHANGED <<log, asked>>

\* _run_gateway_task: gw_tasks holds a task from its first rule on.
Store(k, n) ==
    /\ ~InMap /\ Len(config[k]) < MaxRules
    /\ config' = [config EXCEPT ![k] = Append(@, n)]
    /\ accepted' = accepted \cup {<<k, n>>}
    /\ task' = IF task = "none" THEN "connecting" ELSE task
    /\ UNCHANGED <<log, asked>>

AddRule(k, n) ==
    /\ HandOver(k, n) \/ Store(k, n)
    /\ UNCHANGED <<reader, sock, closed, notified, cancels>>

RemoveRule(k, n) ==
    /\ InMap
    /\ asked' = asked \ {<<k, n>>}
    /\ accepted' = accepted \ {<<k, n>>}
    /\ log' = Unlisted(k, n)
    /\ UNCHANGED <<config, connVars, cancels>>

-----------------------------------------------------------------------------
(***************************************************************************)
(* The client's reader, and its cancellation                                *)
(***************************************************************************)
\* A cancelled reader closes the connection; one that is closing gives up.
Interrupt ==
    /\ reader' = CASE reader = "reading"  -> "closing_ws"
                   [] reader \in Closing  -> "done"
                   [] OTHER               -> reader
    /\ sock' = IF reader = "reading" THEN "shut" ELSE sock

\* ConnectionClosedError makes the reader close, ConnectionClosedOK just ends it.
HangUp ==
    /\ reader = "reading"
    /\ reader' \in {"closing_ws", "done"}
    /\ sock' = "shut"
    /\ UNCHANGED <<ruleVars, task, closed, notified, cancels>>

MessageRaises ==
    /\ reader = "reading"
    /\ reader' = "done"
    /\ UNCHANGED <<ruleVars, task, sock, closed, notified, cancels>>

\* Seeded bug: the flag is set before the close it speaks of is complete.
ReaderChecksFlagFirst ==
    /\ reader = "closing_ws"
    /\ reader' = IF closed THEN "done" ELSE "closing_gw"
    /\ closed' = TRUE
    /\ UNCHANGED <<ruleVars, task, sock, notified, cancels>>

\* The websocket has closed: is the gateway closed as well?
ReaderChecks ==
    /\ reader = "closing_ws"
    /\ reader' = IF closed THEN "done" ELSE "closing_gw"
    /\ UNCHANGED <<ruleVars, task, sock, closed, notified, cancels>>

\* RosWsGateway.close(): flag, purge and notifications run without an await.
CloseGateway ==
    /\ closed' = TRUE
    /\ notified' = notified + 1

ReaderCloses ==
    /\ reader = "closing_gw"
    /\ CloseGateway
    /\ reader' = "done"
    /\ UNCHANGED <<ruleVars, task, sock, cancels>>

-----------------------------------------------------------------------------
(***************************************************************************)
(* The connection task                                                      *)
(***************************************************************************)
ConnectFails ==
    /\ task = "connecting"
    /\ task' = "ended"
    /\ UNCHANGED <<ruleVars, reader, sock, closed, notified, cancels>>

\* __connect__ has a websocket and a reader, and awaits the connect handlers.
SocketOpens ==
    /\ task = "connecting"
    /\ task' = "starting" /\ reader' = "reading" /\ sock' = "open"
    /\ UNCHANGED <<ruleVars, closed, notified, cancels>>

\* A new log raises at the second rule of a service kind.
ReplayRaises == \E k \in ServiceKinds : Len(config[k]) > 1

\* The with block up to its await hands all stored rules over.
Connected ==
    /\ task = "starting" /\ ~ReplayRaises
    /\ task' = "up"
    /\ asked' = Stored
    /\ log' = [k \in ServiceKinds |-> Range(config[k])]
    /\ UNCHANGED <<config, accepted, reader, sock, closed, notified, cancels>>

\* Which rules come before the one that raises is up to their titles.  The with
\* block is left: __aexit__ cancels the reader and begins to close.
ConnectedRaises ==
    /\ task = "starting" /\ ReplayRaises
    /\ task' = "closing_ws"
    /\ \E handed \in SUBSET Stored :
          /\ asked' = handed
          /\ log' = [k \in ServiceKinds |->
                        {n \in Names : /\ <<k, n>> \in handed
                                       /\ n = Head(config[k])}]
    /\ reader' = IF reader = "reading" THEN "closing_ws" ELSE "done"
    /\ sock' = "shut"
    /\ UNCHANGED <<config, accepted, closed, notified, cancels>>

\* wait_on_reader returns or raises; either way __aexit__ closes.
LeaveBody ==
    /\ task = "up" /\ reader = "done"
    /\ task' = "closing_ws" /\ sock' = "shut"
    /\ UNCHANGED <<ruleVars, reader, closed, notified, cancels>>

\* Seeded bug: the task closes the gateway without asking.
TaskChecksNot ==
    /\ task = "closing_ws"
    /\ task' = "closing_gw"
    /\ UNCHANGED <<ruleVars, reader, sock, closed, notified, cancels>>

TaskChecks ==
    /\ task = "closing_ws"
    /\ task' = IF closed THEN "ended" ELSE "closing_gw"
    /\ UNCHANGED <<ruleVars, reader, sock, closed, notified, cancels>>

\* Seeded bug: the task trusts the reader to have closed the gateway.
TaskLeaves ==
    /\ task = "closing_gw"
    /\ task' = "ended"
    /\ UNCHANGED <<ruleVars, reader, sock, closed, notified, cancels>>

TaskCloses ==
    /\ task = "closing_gw"
    /\ CloseGateway
    /\ task' = "ended"
    /\ UNCHANGED <<ruleVars, reader, sock, cancels>>

\* api_remove_gateways and close(): a task that waits for its reader hands the
\* cancellation to it and swallows the outcome; at any other await it ends there.
Cancel ==
    /\ cancels < MaxCancels /\ task \notin {"none", "ended", "aborted"}
    /\ cancels' = cancels + 1
    /\ \/ /\ task = "up" /\ Interrupt
          /\ UNCHANGED task
       \/ /\ task # "up" /\ task' = "aborted"
          /\ UNCHANGED <<reader, sock>>
    /\ UNCHANGED <<ruleVars, closed, notified>>

-----------------------------------------------------------------------------
TaskStep   == \/ Connected \/ ConnectedRaises \/ LeaveBody
              \/ TaskChecks \/ TaskCloses
ReaderStep == ReaderChecks \/ ReaderCloses

Next ==
    \/ \E k \in Kinds, n \in Names : AddRule(k, n) \/ RemoveRule(k, n)
    \/ HangUp \/ MessageRaises \/ ReaderChecks \/ ReaderCloses
    \/ ConnectFails \/ SocketOpens \/ Connected \/ ConnectedRaises
    \/ LeaveBody \/ TaskChecks \/ TaskCloses
    \/ Cancel

Spec == Init /\ [][Next]_vars

\* The loop runs every ready task, and a websocket close ends by its timeout.
FairSpec == Spec /\ WF_vars(TaskStep) /\ WF_vars(ReaderStep)

-----------------------------------------------------------------------------
(***************************************************************************)
(* Properties                                                               *)
(***************************************************************************)
\* The variables have the types the code gives them.
TypeOK ==
    /\ config \in [Kinds -> Seq(Names)]
    /\ log \in [ServiceKinds -> SUBSET Names]
    /\ asked \subseteq Rules /\ accepted \subseteq Rules
    /\ task \in TaskStates /\ reader \in ReaderStates
    /\ sock \in {"none", "open", "shut"}
    /\ closed \in BOOLEAN
    /\ notified \in Nat /\ cancels \in 0..MaxCancels

\* While the connection is up, every rule the api has said yes to has been handed to
\* the gateway, whether it came before the connection, while it was set up, or since.
AcceptedAreAsked == task = "up" => accepted \subseteq asked

\* A task that was not cut off leaves no connection behind: the gateway it had
\* is closed and its bridge purged, whichever of the two tasks did it.
EndedIsReleased == task = "ended" /\ sock # "none" => closed /\ notified > 0

\* Reader and task agree who closes the gateway: the disconnect handlers run at
\* most once.  (Except after a replay that raised, when both are closing.)
NotifiedOnce == ~ReplayRaises => notified <= 1

\* A connection that is lost is closed and purged, unless the task was cut off.
LostIsReleased == (sock = "shut" \/ reader = "done") ~> (notified > 0 \/ task = "aborted")

\* "Set the address of the gateway to disconnect" (ros_gateway_agent.py:483): once
\* the cancelled task is gone, the connection it had is not open any more.
RemovedIsDisconnected == task = "aborted" => sock # "open"
=============================================================================
