----------------------------- MODULE RemoteCalls -----------------------------
(***************************************************************************)
(* Services and actions across processes: ros_ws_gateway.py and             *)
(* node_manager.py, the handlers call_service and call_action, the client   *)
(* managers that carry the calls out, and the way of the answers back.      *)
(*                                                                          *)
(* A process p has one gateway connection to the process Target[p], whose   *)
(* local ROS service or action is offered to the ROS clients of p.  In each *)
(* process the asyncio loop and the ROS thread wait for each other:  the    *)
(* callbacks of the node share one mutually exclusive group, which a        *)
(* proxied service call keeps busy until it is answered; the loop blocks    *)
(* while a local server is waited for; and the ROS thread blocks while the  *)
(* loop sends an answer.  What a withdrawal, a new advertisement or a close *)
(* may meet half way at the proxy is the matter of ServiceProxy and         *)
(* ActionProxy:  here a connection is closed in one step.                   *)
(***************************************************************************)
EXTENDS Naturals, Sequences, FiniteSets

CONSTANTS Procs,
          Calls,
          NoCall,
          NoProc,
          Target,     \* per process: the process it calls, or NoProc
          Kind,       \* per process: it offers a "service" or an "action"
          MaxChanges  \* bound: how often local servers come and go

ASSUME CallAssumption ==
    /\ NoProc \notin Procs /\ NoCall \notin Calls
    /\ Target \in [Procs -> Procs \cup {NoProc}]
    /\ Kind \in [Procs -> {"service", "action"}]
    /\ MaxChanges \in Nat

VARIABLES who,      \* per call: the process whose client made it, or NoProc
          conn,     \* per process: is the connection to its target open?
          toPeer,   \* the call frames on their way to the target
          fromPeer, \* the answer frames on their way back
          called,   \* ctx['called']: the calls whose proxies wait
          settled,  \* the calls whose futures are done
          group,    \* the proxied service call that keeps the group busy
          loop,     \* the call for whose local server the loop waits
          outbox,   \* the answers the loop has been given to send
          waits,    \* does the ROS thread wait for the last of them to be sent?
          known,    \* has the process a client manager for its local server?
          ready,    \* is the local server there?
          changes,
          server,   \* what the local server still has to answer
          answers,  \* its answers, before the ROS thread takes them
          dead,     \* has the ROS thread ended?
          lost      \* history: the calls nobody will answer

proxyVars  == <<who, called, settled, group>>
wireVars   == <<conn, toPeer, fromPeer>>
serverVars == <<ready, changes, server, answers>>
vars == <<proxyVars, wireVars, loop, outbox, waits, known, serverVars, dead, lost>>

-----------------------------------------------------------------------------
\* The processes that offer something to another one.
Offering == {Target[p] : p \in Procs} \ {NoProc}

Init ==
    /\ who = [c \in Calls |-> NoProc]
    /\ conn = [p \in Procs |-> Target[p] # NoProc]
    /\ toPeer = [p \in Procs |-> <<>>]
    /\ fromPeer = [p \in Procs |-> <<>>]
    /\ called = [p \in Procs |-> {}]
    /\ settled = {}
    /\ group = [p \in Procs |-> NoCall]
    /\ loop = [p \in Procs |-> NoCall]
    /\ outbox = [p \in Procs |-> <<>>]
    /\ waits = [p \in Procs |-> FALSE]
    /\ known = [p \in Procs |-> FALSE]
    /\ \E up \in SUBSET Offering : ready = [p \in Procs |-> p \in up]
    /\ changes = 0
    /\ server = [p \in Procs |-> {}]
    /\ answers = [p \in Procs |-> {}]
    /\ dead = [p \in Procs |-> FALSE]
    /\ lost = {}

\* The ROS thread can run tasks, and callbacks of the node's group.
RosFree(p)   == ~dead[p] /\ ~waits[p]
GroupFree(p) == RosFree(p) /\ group[p] = NoCall

\* The connection of p breaks, and what is on the wire with it.
Disconnect(p) ==
    /\ conn' = [conn EXCEPT ![p] = FALSE]
    /\ toPeer' = [toPeer EXCEPT ![p] = <<>>]
    /\ fromPeer' = [fromPeer EXCEPT ![p] = <<>>]

-----------------------------------------------------------------------------
(***************************************************************************)
(* The calling process                                                      *)
(***************************************************************************)
\* A goal runs as a task of its own and leaves the group; a service request
\* keeps the group until its coroutine returns.
TakeRequest(p, c) ==
    /\ conn[p] /\ GroupFree(p)
    /\ who[c] = NoProc
    /\ who' = [who EXCEPT ![c] = p]
    /\ called' = [called EXCEPT ![p] = @ \cup {c}]
    /\ toPeer' = [toPeer EXCEPT ![p] = Append(@, c)]
    /\ group' = [group EXCEPT ![p] = IF Kind[Target[p]] = "service" THEN c ELSE NoCall]
    /\ UNCHANGED <<settled, conn, fromPeer, loop, outbox, waits, known, serverVars, dead, lost>>

\* service_response and action_result: an unknown id raises KeyError.
OnAnswer(p) ==
    /\ conn[p] /\ loop[p] = NoCall
    /\ fromPeer[p] # <<>>
    /\ LET c == Head(fromPeer[p])
       IN IF c \in called[p]
          THEN /\ settled' = settled \cup {c}
               /\ fromPeer' = [fromPeer EXCEPT ![p] = Tail(@)]
               /\ UNCHANGED <<conn, toPeer>>
          ELSE Disconnect(p) /\ UNCHANGED settled
    /\ UNCHANGED <<who, called, group, loop, outbox, waits, known, serverVars, dead, lost>>

\* Seeded bug: close() forgets the services.
CloseWithoutClearing(p) ==
    /\ Target[p] # NoProc /\ ~conn[p] /\ loop[p] = NoCall
    /\ UNCHANGED vars

\* close() fails the calls that wait.
Close(p) ==
    /\ Target[p] # NoProc /\ ~conn[p] /\ loop[p] = NoCall
    /\ ~(called[p] \subseteq settled)
    /\ settled' = settled \cup called[p]
    /\ UNCHANGED <<who, called, group, wireVars, loop, outbox, waits, known, serverVars, dead, lost>>

\* Seeded bug: the callback returns, but its group is not given free.
FinishKeepingGroup(p, c) ==
    /\ RosFree(p)
    /\ c \in called[p] \cap settled
    /\ called' = [called EXCEPT ![p] = @ \ {c}]
    /\ UNCHANGED <<who, settled, group, wireVars, loop, outbox, waits, known, serverVars, dead, lost>>

\* The proxy returns what its future has been given, to its ROS client.
Finish(p, c) ==
    /\ RosFree(p)
    /\ c \in called[p] \cap settled
    /\ called' = [called EXCEPT ![p] = @ \ {c}]
    /\ group' = [group EXCEPT ![p] = IF @ = c THEN NoCall ELSE @]
    /\ UNCHANGED <<who, settled, wireVars, loop, outbox, waits, known, serverVars, dead, lost>>

Hangup(p) ==
    /\ conn[p]
    /\ Disconnect(p)
    /\ UNCHANGED <<proxyVars, loop, outbox, waits, known, serverVars, dead, lost>>

-----------------------------------------------------------------------------
(***************************************************************************)
(* The called process: the asyncio loop                                     *)
(***************************************************************************)
\* call_async and send_goal_async; a goal is answered twice.
Request(c, q) == <<c, IF Kind[q] = "service" THEN "result" ELSE "goal">>
Ask(c, q)     == server' = [server EXCEPT ![q] = @ \cup {Request(c, q)}]

\* call_service_async and send_goal_async, up to the wait for the local server.
Serve(p, q, c) ==
    /\ toPeer' = [toPeer EXCEPT ![p] = Tail(@)]
    /\ known' = [known EXCEPT ![q] = TRUE]
    /\ IF ready[q] THEN Ask(c, q) /\ UNCHANGED loop
       ELSE loop' = [loop EXCEPT ![q] = c] /\ UNCHANGED server
    /\ UNCHANGED <<conn, fromPeer>>

\* create_srv_client needs the type of the service: it raises when the name is
\* served nowhere and was never looked up before.
CreateSrvClientRaises(q) == dead[q] \/ (~known[q] /\ ~ready[q])

OnCallService(p) ==
    LET q == Target[p]
    IN /\ conn[p] /\ toPeer[p] # <<>>
       /\ Kind[q] = "service" /\ loop[q] = NoCall
       /\ \/ /\ CreateSrvClientRaises(q)
             /\ Disconnect(p) /\ UNCHANGED <<known, server, loop>>
          \/ /\ ~CreateSrvClientRaises(q)
             /\ Serve(p, q, Head(toPeer[p]))
       /\ UNCHANGED <<proxyVars, outbox, waits, ready, changes, answers, dead, lost>>

\* create_action_client is given the type.
OnCallAction(p) ==
    LET q == Target[p]
    IN /\ conn[p] /\ toPeer[p] # <<>>
       /\ Kind[q] = "action" /\ loop[q] = NoCall
       /\ \/ dead[q] /\ Disconnect(p) /\ UNCHANGED <<known, server, loop>>
          \/ ~dead[q] /\ Serve(p, q, Head(toPeer[p]))
       /\ UNCHANGED <<proxyVars, outbox, waits, ready, changes, answers, dead, lost>>

\* Seeded bug: the request is sent although no server has come.
AskAnyway(q) ==
    /\ loop[q] # NoCall /\ ~dead[q]
    /\ loop' = [loop EXCEPT ![q] = NoCall]
    /\ Ask(loop[q], q)
    /\ lost' = IF ready[q] THEN lost ELSE lost \cup {loop[q]}
    /\ UNCHANGED <<proxyVars, wireVars, outbox, waits, known, ready, changes, answers, dead>>

\* wait_for_service and wait_for_server end when the server comes, or after
\* three seconds: the call is then dropped and its caller hears nothing.
EndWait(q) ==
    /\ loop[q] # NoCall /\ ~dead[q]
    /\ loop' = [loop EXCEPT ![q] = NoCall]
    /\ IF ready[q] THEN Ask(loop[q], q) /\ UNCHANGED lost
       ELSE lost' = lost \cup {loop[q]} /\ UNCHANGED server
    /\ UNCHANGED <<proxyVars, wireVars, outbox, waits, known, ready, changes, answers, dead>>

\* With the node gone the wait raises, which ends the connection of the caller.
WaitRaises(q) ==
    /\ loop[q] # NoCall /\ dead[q]
    /\ loop' = [loop EXCEPT ![q] = NoCall]
    /\ Disconnect(who[loop[q]])
    /\ UNCHANGED <<proxyVars, outbox, waits, known, serverVars, dead, lost>>

-----------------------------------------------------------------------------
(***************************************************************************)
(* The called process: its local server, and the ROS thread                 *)
(***************************************************************************)
Answer(q, c, what) ==
    /\ <<c, what>> \in server[q]
    /\ server' = [server EXCEPT ![q] = @ \ {<<c, what>>}]
    /\ \E reply \in IF what = "goal" THEN {"accepted", "rejected"} ELSE {"result"} :
          answers' = [answers EXCEPT ![q] = @ \cup {<<c, reply>>}]
    /\ UNCHANGED <<proxyVars, wireVars, loop, outbox, waits, known, ready, changes, dead, lost>>

\* Servers come and go; one that goes takes its requests along.
ChangeServer(q) ==
    /\ q \in Offering
    /\ changes < MaxChanges
    /\ changes' = changes + 1
    /\ ready' = [ready EXCEPT ![q] = ~@]
    /\ lost' = lost \cup {r[1] : r \in server[q]}
    /\ server' = [server EXCEPT ![q] = {}]
    /\ UNCHANGED <<proxyVars, wireVars, loop, outbox, waits, known, answers, dead>>

\* goal_response_callback: the result of an accepted goal is asked for; that a
\* goal was rejected is logged, and its caller hears nothing.
GoalResponse(q, c) ==
    /\ GroupFree(q)
    /\ \/ /\ <<c, "accepted">> \in answers[q]
          /\ answers' = [answers EXCEPT ![q] = @ \ {<<c, "accepted">>}]
          /\ server' = [server EXCEPT ![q] = @ \cup {<<c, "result">>}]
          /\ UNCHANGED lost
       \/ /\ <<c, "rejected">> \in answers[q]
          /\ answers' = [answers EXCEPT ![q] = @ \ {<<c, "rejected">>}]
          /\ lost' = lost \cup {c}
          /\ UNCHANGED server
    /\ UNCHANGED <<proxyVars, wireVars, loop, outbox, waits, known, ready, changes, dead>>

\* The first feedback ends the ROS thread: its callback is looked up under a
\* misspelt key ('callbck').
Feedback(q, c) ==
    /\ Kind[q] = "action" /\ GroupFree(q)
    /\ <<c, "result">> \in server[q]
    /\ dead' = [dead EXCEPT ![q] = TRUE]
    /\ UNCHANGED <<proxyVars, wireVars, loop, outbox, waits, known, serverVars, lost>>

\* Seeded bug: the frame is given the process for an id, not the call.
HandOverProcess(q, c) ==
    /\ GroupFree(q)
    /\ <<c, "result">> \in answers[q]
    /\ answers' = [answers EXCEPT ![q] = @ \ {<<c, "result">>}]
    /\ outbox' = [outbox EXCEPT ![q] = Append(@, q)]
    /\ waits' = [waits EXCEPT ![q] = TRUE]
    /\ UNCHANGED <<proxyVars, wireVars, loop, known, ready, changes, server, dead, lost>>

\* The ROS thread makes a frame of the answer and has it sent by the loop.
HandOver(q, c) ==
    /\ GroupFree(q)
    /\ <<c, "result">> \in answers[q]
    /\ answers' = [answers EXCEPT ![q] = @ \ {<<c, "result">>}]
    /\ outbox' = [outbox EXCEPT ![q] = Append(@, c)]
    /\ waits' = [waits EXCEPT ![q] = TRUE]
    /\ UNCHANGED <<proxyVars, wireVars, loop, known, ready, changes, server, dead, lost>>

TakeResponse(q, c)   == Kind[q] = "service" /\ HandOver(q, c)
TakeGoalResult(q, c) == Kind[q] = "action" /\ HandOver(q, c)

\* The loop sends the next frame; what send() raises on a closed connection
\* stays within its coroutine.  The last one is what the ROS thread waits for.
SendAnswer(q) ==
    LET c == Head(outbox[q])
        p == who[c]
    IN /\ outbox[q] # <<>> /\ loop[q] = NoCall
       /\ fromPeer' = IF conn[p] THEN [fromPeer EXCEPT ![p] = Append(@, c)] ELSE fromPeer
       /\ outbox' = [outbox EXCEPT ![q] = Tail(@)]
       /\ waits' = [waits EXCEPT ![q] = @ /\ Len(outbox[q]) > 1]
       /\ UNCHANGED <<proxyVars, conn, toPeer, loop, known, serverVars, dead, lost>>

\* _run_async_func gives up after a second, which a loop that waits for a local
\* server lets pass.  It takes nothing back:  the cancellation comes to the loop
\* behind the task that it has been given, whose first step sends the frame.
SendTimesOut(q) ==
    /\ waits[q] /\ loop[q] # NoCall
    /\ waits' = [waits EXCEPT ![q] = FALSE]
    /\ UNCHANGED <<proxyVars, wireVars, loop, outbox, known, serverVars, dead, lost>>

-----------------------------------------------------------------------------
LoopStep == \E p \in Procs :
    \/ OnAnswer(p) \/ Close(p)
    \/ OnCallService(p) \/ OnCallAction(p) \/ EndWait(p) \/ WaitRaises(p)

RosStep == \E p \in Procs :
    \/ SendAnswer(p) \/ SendTimesOut(p)
    \/ \E c \in Calls : \/ Finish(p, c) \/ GoalResponse(p, c)
                        \/ TakeResponse(p, c) \/ TakeGoalResult(p, c)

ServerStep == \E p \in Procs, c \in Calls, what \in {"goal", "result"} : Answer(p, c, what)

Next ==
    \/ \E p \in Procs : \/ Hangup(p) \/ ChangeServer(p)
                        \/ \E c \in Calls : TakeRequest(p, c) \/ Feedback(p, c)
    \/ LoopStep \/ RosStep \/ ServerStep

Spec == Init /\ [][Next]_vars

\* Threads run, and local servers answer what they are asked; nobody has to
\* call, to hang up, to come or to go.
FairSpec == Spec /\ WF_vars(LoopStep \/ RosStep \/ ServerStep)

-----------------------------------------------------------------------------
(***************************************************************************)
(* Properties                                                               *)
(***************************************************************************)
Whats == {"goal", "accepted", "rejected", "result"}

TypeOK ==
    /\ who \in [Calls -> Procs \cup {NoProc}]
    /\ conn \in [Procs -> BOOLEAN]
    /\ toPeer \in [Procs -> Seq(Calls)]
    /\ fromPeer \in [Procs -> Seq(Calls)]
    /\ called \in [Procs -> SUBSET Calls]
    /\ settled \subseteq Calls
    /\ \A f \in {group, loop} : f \in [Procs -> Calls \cup {NoCall}]
    /\ outbox \in [Procs -> Seq(Calls)]
    /\ \A f \in {waits, known, ready, dead} : f \in [Procs -> BOOLEAN]
    /\ changes \in 0..MaxChanges
    /\ \A f \in {server, answers} : f \in [Procs -> SUBSET (Calls \X Whats)]
    /\ lost \subseteq Calls

\* Where, on the wires of p and at its target, a call is being dealt with.
Places(p, c) ==
    LET q == Target[p]
    IN {<<"calling", i>> : i \in {j \in DOMAIN toPeer[p] : toPeer[p][j] = c}}
       \cup {<<"answering", i>> : i \in {j \in DOMAIN fromPeer[p] : fromPeer[p][j] = c}}
       \cup {r \in server[q] : r[1] = c}
       \cup {<<"answers", r>> : r \in {a \in answers[q] : a[1] = c}}
       \cup (IF loop[q] = c THEN {<<"loop">>} ELSE {})
       \cup {<<"sending", i>> : i \in {j \in DOMAIN outbox[q] : outbox[q][j] = c}}

\* Across both processes and the wire, a call whose proxy waits is being dealt
\* with in exactly one place until its future is set, and nowhere once its target
\* has dropped it: a call vanishes only where the code drops it (no local server
\* in time, one that goes, a goal rejected), and none is carried out or answered
\* twice, also when the ROS thread has not waited for its answer to be sent.
CallsAreSomewhere ==
    \A p \in Procs : conn[p] =>
        \A c \in called[p] :
            Cardinality(Places(p, c)) = IF c \in settled \cup lost THEN 0 ELSE 1

\* A process whose callbacks never run again: its ROS thread has ended, or its
\* group belongs to a call that was dropped, and the connection stays.
Stuck(p) == dead[p] \/ (conn[p] /\ group[p] \in lost)

\* The guards of what threads and local servers of p do by themselves.
CanAct(p) ==
    \/ loop[p] # NoCall \/ outbox[p] # <<>>
    \/ conn[p] /\ fromPeer[p] # <<>>
    \/ conn[p] /\ toPeer[p] # <<>> /\ loop[Target[p]] = NoCall
    \/ Target[p] # NoProc /\ ~conn[p] /\ ~(called[p] \subseteq settled)
    \/ RosFree(p) /\ called[p] \cap settled # {}
    \/ server[p] \cap (Calls \X {"goal", "result"}) # {}
    \/ GroupFree(p) /\ answers[p] \cap (Calls \X {"accepted", "rejected", "result"}) # {}

\* No circle of processes in which each calls a service of the next.
NoCircle ==
    \A S \in SUBSET Procs :
        S # {} => \E p \in S : Target[p] \notin S \/ Kind[Target[p]] = "action"

\* Processes never all wait for each other while a client waits for one of them,
\* unless they call each other's services in a circle: a goal in it is enough,
\* since it does not keep the group of its caller.
SomebodyCanAct ==
    /\ NoCircle
    /\ \E p \in Procs : ~(called[p] \subseteq (IF conn[p] THEN lost ELSE {}))
    /\ ~\E p \in Procs : Stuck(p)
    => \E p \in Procs : CanAct(p)

\* "The _inter_callback receives a request from local ROS peers and it should
\* return a response" (node_manager.py): time and again every process has
\* answered its clients, save those whose calls were dropped, unless some
\* process is stuck; a connection that breaks releases the dropped calls too.
RequestsAreAnswered ==
    \A p \in Procs :
        []<>(\/ called[p] \subseteq (IF conn[p] THEN lost ELSE {})
             \/ \E q \in Procs : Stuck(q))

=============================================================================
