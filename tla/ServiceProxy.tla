---------------------------- MODULE ServiceProxy -----------------------------
(***************************************************************************)
(* Remote services: rosextpy/ros_ws_gateway.py and node_manager.py, the     *)
(* handlers advertise_service, unadvertise_service and service_response,    *)
(* close(), and the callback that proxies a local ROS request to the peer.  *)
(*                                                                          *)
(* Two threads share the dictionaries without a lock.  The asyncio loop     *)
(* runs one handler at a time, here in the steps between which the other    *)
(* thread can see a difference; the ROS thread runs the proxy coroutine,    *)
(* which waits on a future that a response, an unadvertise or a close sets. *)
(* One service name is enough: names share nothing.  A bridge is a gateway  *)
(* connection, Calls are the ids drawn for requests, in any order.          *)
(***************************************************************************)
EXTENDS Naturals, FiniteSets

CONSTANTS Bridges,
          Calls,
          None,       \* no bridge, no call, no manager
          MaxAdverts, \* bound: advertisements in all
          Polite      \* peers advertise a service again only once withdrawn

ASSUME ServiceAssumption ==
    /\ None \notin Bridges \cup Calls \cup Nat
    /\ MaxAdverts \in Nat \ {0}
    /\ Polite \in BOOLEAN

VARIABLES conn,     \* per bridge: open, closing, closed, leaked (close() raised)
          adverts,  \* how often the service has been advertised
          adv,      \* _adv_services: the number of the current context, 0: none
          called,   \* per context: ctx['called']
          cleared,  \* the contexts whose pending calls have all been failed
          future,   \* per call: none, result, failed
          owed,     \* per bridge: the calls the peer has not answered
          srv,      \* the SrvServiceManager of the name
          loop,     \* what the asyncio loop is doing
          ros       \* what the ROS thread is doing

peerVars == <<conn, owed>>
ctxVars  == <<adverts, adv, called, cleared, future>>
vars     == <<peerVars, ctxVars, srv, loop, ros>>

-----------------------------------------------------------------------------
\* A manager, and a context, is known by the advertisement that created it.
\* owner: whose callback it calls.  handle: the node made the ROS service.
Adverts   == 1..MaxAdverts
NoService == [mgr |-> None, owner |-> None, handle |-> FALSE]

Idle    == [pc |-> "idle", b |-> None, visited |-> {}, used |-> 0]
LoopAt(pc) == [loop EXCEPT !.pc = pc]

RosIdle == [pc |-> "idle", mgr |-> None, owner |-> None, ctx |-> 0, call |-> None,
            late |-> FALSE, outcome |-> "none"]
Died    == {"died_calling", "died_sending", "died_deleting", "died_responding"}
Alive   == ros.pc \notin Died

Init ==
    /\ conn = [b \in Bridges |-> "open"]
    /\ adverts = 0
    /\ adv = [b \in Bridges |-> 0]
    /\ called = [n \in Adverts |-> {}]
    /\ cleared = {}
    /\ future = [c \in Calls |-> "none"]
    /\ owed = [b \in Bridges |-> {}]
    /\ srv = NoService
    /\ loop = Idle
    /\ ros = RosIdle

-----------------------------------------------------------------------------
(***************************************************************************)
(* The asyncio loop: advertise_service                                      *)
(***************************************************************************)
\* create_srv_service: a new manager has a ROS service before it has a callback.
OnAdvertise(b) ==
    /\ loop.pc = "idle" /\ conn[b] = "open"
    /\ adverts < MaxAdverts
    /\ Polite => adv[b] = 0
    /\ adverts' = adverts + 1
    /\ srv' = IF srv.mgr # None THEN srv
              ELSE [mgr |-> adverts', owner |-> None, handle |-> Alive]
    /\ loop' = [Idle EXCEPT !.pc = "owning", !.b = b]
    /\ UNCHANGED <<peerVars, adv, called, cleared, future, ros>>

\* add_srv_service: the last bridge to advertise takes the name over.
add_srv_service ==
    /\ loop.pc = "owning"
    /\ srv' = [srv EXCEPT !.owner = loop.b]
    /\ loop' = LoopAt("entering")
    /\ UNCHANGED <<peerVars, ctxVars, ros>>

\* Seeded bug: contexts are numbered from two.
EnterContextOffByOne ==
    /\ loop.pc = "entering"
    /\ adv' = [adv EXCEPT ![loop.b] = adverts + 1]
    /\ loop' = Idle
    /\ UNCHANGED <<peerVars, adverts, called, cleared, future, srv, ros>>

\* A new context with no calls replaces the old one, if there is one.
EnterContext ==
    /\ loop.pc = "entering"
    /\ adv' = [adv EXCEPT ![loop.b] = adverts]
    /\ loop' = Idle
    /\ UNCHANGED <<peerVars, adverts, called, cleared, future, srv, ros>>

-----------------------------------------------------------------------------
(***************************************************************************)
(* The asyncio loop: unadvertise_service and close                          *)
(***************************************************************************)
CalledOf(b) == IF adv[b] = 0 THEN {} ELSE called[adv[b]]

StartClearing(b, pc) ==
    loop' = [pc |-> pc, b |-> b, visited |-> {}, used |-> Cardinality(CalledOf(b))]

\* Seeded bug: the pending calls are not cleared.
UnadvertiseWithoutClearing(b) ==
    /\ loop.pc = "idle" /\ conn[b] = "open"
    /\ adv[b] # 0
    /\ loop' = [Idle EXCEPT !.pc = "popping", !.b = b]
    /\ UNCHANGED <<peerVars, ctxVars, srv, ros>>

OnUnadvertise(b) ==
    /\ loop.pc = "idle" /\ conn[b] = "open"
    /\ adv[b] # 0
    /\ StartClearing(b, "clearing")
    /\ UNCHANGED <<peerVars, ctxVars, srv, ros>>

\* Seeded bug: close() forgets the services.
CloseWithoutClearing(b) ==
    /\ loop.pc = "idle" /\ conn[b] = "closing"
    /\ conn' = [conn EXCEPT ![b] = "closed"]
    /\ UNCHANGED <<owed, ctxVars, srv, loop, ros>>

\* close(), after the websocket's own close.
OnClose(b) ==
    /\ loop.pc = "idle" /\ conn[b] = "closing"
    /\ IF adv[b] # 0 THEN StartClearing(b, "closing_clear")
       ELSE loop' = [Idle EXCEPT !.pc = "emptying", !.b = b]
    /\ UNCHANGED <<peerVars, ctxVars, srv, ros>>

\* An exception ends the connection of a message's handler, or skips the rest
\* of close().
Raise(closing) ==
    /\ conn' = [conn EXCEPT ![loop.b] = IF closing THEN "leaked" ELSE "closing"]
    /\ loop' = Idle

\* _clear_srv_pending_task iterates over a dictionary the ROS thread changes:
\* a change of its size raises RuntimeError.
ClearNext(closing) ==
    LET b == loop.b
        left == CalledOf(b) \ loop.visited
    IN /\ loop.pc = IF closing THEN "closing_clear" ELSE "clearing"
       /\ \/ /\ Cardinality(CalledOf(b)) # loop.used
             /\ Raise(closing)
             /\ UNCHANGED <<future, cleared>>
          \/ /\ Cardinality(CalledOf(b)) = loop.used
             /\ \E c \in left :
                   /\ future' = [future EXCEPT ![c] = "failed"]
                   /\ loop' = [loop EXCEPT !.visited = @ \cup {c}]
             /\ UNCHANGED <<conn, cleared>>
          \/ /\ Cardinality(CalledOf(b)) = loop.used
             /\ left = {}
             /\ cleared' = cleared \cup {adv[b]}
             /\ loop' = LoopAt(IF closing THEN "closing_destroy" ELSE "popping")
             /\ UNCHANGED <<conn, future>>
       /\ UNCHANGED <<owed, adverts, adv, called, srv, ros>>

PopContext ==
    /\ loop.pc = "popping"
    /\ adv' = [adv EXCEPT ![loop.b] = 0]
    /\ loop' = LoopAt("destroying")
    /\ UNCHANGED <<peerVars, adverts, called, cleared, future, srv, ros>>

\* destroy_srv_service goes by the name, whoever owns it; a manager that never
\* got a handle loses its callback, raises and stays.
destroy_srv_service(closing) ==
    /\ loop.pc = IF closing THEN "closing_destroy" ELSE "destroying"
    /\ IF srv.mgr # None /\ ~srv.handle
       THEN srv' = [srv EXCEPT !.owner = None] /\ Raise(closing)
       ELSE /\ srv' = NoService
            /\ loop' = IF closing THEN LoopAt("emptying") ELSE Idle
            /\ UNCHANGED conn
    /\ UNCHANGED <<owed, ctxVars, ros>>

FinishClose ==
    /\ loop.pc = "emptying"
    /\ adv' = [adv EXCEPT ![loop.b] = 0]
    /\ conn' = [conn EXCEPT ![loop.b] = "closed"]
    /\ loop' = Idle
    /\ UNCHANGED <<owed, adverts, called, cleared, future, srv, ros>>

-----------------------------------------------------------------------------
(***************************************************************************)
(* The asyncio loop: service_response                                       *)
(***************************************************************************)
UnknownCall(b, c) == adv[b] # 0 /\ c \notin CalledOf(b)

\* An id that the current context does not know raises KeyError.
OnServiceResponse(b, c, outcome) ==
    /\ loop.pc = "idle" /\ conn[b] = "open"
    /\ c \in owed[b]
    /\ owed' = [owed EXCEPT ![b] = @ \ {c}]
    /\ future' = IF c \in CalledOf(b) THEN [future EXCEPT ![c] = outcome] ELSE future
    /\ conn' = IF UnknownCall(b, c) THEN [conn EXCEPT ![b] = "closing"] ELSE conn
    /\ UNCHANGED <<adverts, adv, called, cleared, srv, loop, ros>>

Hangup(b) ==
    /\ conn[b] = "open"
    /\ conn' = [conn EXCEPT ![b] = "closing"]
    /\ UNCHANGED <<owed, ctxVars, srv, loop, ros>>

-----------------------------------------------------------------------------
(***************************************************************************)
(* The ROS thread                                                           *)
(***************************************************************************)
RosAt(pc) == [ros EXCEPT !.pc = pc]
Fresh(c) == /\ future[c] = "none"
            /\ \A n \in Adverts : c \notin called[n]
            /\ \A b \in Bridges : c \notin owed[b]

\* The executor takes a request; the node's callback group is mutually
\* exclusive, so there is never a second proxy call under way.
TakeRequest(c) ==
    /\ ros.pc = "idle"
    /\ srv.mgr # None /\ srv.handle
    /\ Fresh(c)
    /\ ros' = [RosIdle EXCEPT !.pc = "taken", !.mgr = srv.mgr, !.call = c]
    /\ UNCHANGED <<peerVars, ctxVars, srv, loop>>

\* _inter_callback: a manager without callback, not yet or no longer, raises.
_inter_callback ==
    LET callback == IF srv.mgr = ros.mgr THEN srv.owner ELSE None
    IN /\ ros.pc = "taken"
       /\ ros' = IF callback = None THEN RosAt("died_calling")
                 ELSE [RosAt("looking") EXCEPT !.owner = callback]
       /\ UNCHANGED <<peerVars, ctxVars, srv, loop>>

\* ROSServiceFailException is survived; the ROS client gets no response.
LookUpContext ==
    /\ ros.pc = "looking"
    /\ ros' = IF adv[ros.owner] = 0 THEN RosIdle
              ELSE [RosAt("sending") EXCEPT !.ctx = adv[ros.owner]]
    /\ UNCHANGED <<peerVars, ctxVars, srv, loop>>

\* The call is entered into the context found before, then sent; sending on a
\* connection that is not open raises, or loses the message while it closes.
SendCall ==
    LET b == ros.owner
        Sent == /\ owed' = IF conn[b] = "open" THEN [owed EXCEPT ![b] = @ \cup {ros.call}]
                           ELSE owed
                /\ ros' = [RosAt("waiting") EXCEPT !.late = ros.ctx \in cleared]
    IN /\ ros.pc = "sending"
       /\ called' = [called EXCEPT ![ros.ctx] = @ \cup {ros.call}]
       /\ \/ conn[b] \in {"open", "closing"} /\ Sent
          \/ conn[b] # "open" /\ ros' = RosAt("died_sending") /\ UNCHANGED owed
       /\ UNCHANGED <<conn, adverts, adv, cleared, future, srv, loop>>

\* Seeded bug: the await gives up after a while, as if the call had failed.
WakeWithTimeout ==
    /\ ros.pc = "waiting"
    /\ ros' = [RosAt("leaving") EXCEPT !.outcome = "failed"]
    /\ UNCHANGED <<peerVars, ctxVars, srv, loop>>

\* The await ends as soon as the future is done.
Wake ==
    /\ ros.pc = "waiting"
    /\ future[ros.call] # "none"
    /\ ros' = [RosAt("leaving") EXCEPT !.outcome = future[ros.call]]
    /\ UNCHANGED <<peerVars, ctxVars, srv, loop>>

\* finally: the test, and the deletion from whatever context is current then.
LeaveContext ==
    /\ ros.pc = "leaving"
    /\ ros' = RosAt(IF adv[ros.owner] = 0 THEN "returning" ELSE "deleting")
    /\ UNCHANGED <<peerVars, ctxVars, srv, loop>>

\* Seeded bug: the call stays in the context.
DeleteNothing ==
    /\ ros.pc = "deleting"
    /\ ros' = RosAt("returning")
    /\ UNCHANGED <<peerVars, ctxVars, srv, loop>>

DeleteCall ==
    LET b == ros.owner
    IN /\ ros.pc = "deleting"
       /\ IF ros.call \in CalledOf(b)
          THEN /\ called' = [called EXCEPT ![adv[b]] = @ \ {ros.call}]
               /\ ros' = RosAt("returning")
          ELSE UNCHANGED called /\ ros' = RosAt("died_deleting")
       /\ UNCHANGED <<peerVars, adverts, adv, cleared, future, srv, loop>>

\* rclpy sends the response through the service that took the request; a failed
\* call is logged and gets none.
Return ==
    /\ ros.pc = "returning"
    /\ ros' = IF ros.outcome = "result" /\ srv.mgr # ros.mgr THEN RosAt("died_responding")
              ELSE RosIdle
    /\ UNCHANGED <<peerVars, ctxVars, srv, loop>>

-----------------------------------------------------------------------------
LoopStep ==
    \/ add_srv_service \/ EnterContext
    \/ \E closing \in BOOLEAN : ClearNext(closing) \/ destroy_srv_service(closing)
    \/ PopContext \/ FinishClose

RosStep == \/ _inter_callback \/ LookUpContext \/ SendCall \/ Wake
           \/ LeaveContext \/ DeleteCall \/ Return

Next ==
    \/ \E b \in Bridges : \/ OnAdvertise(b) \/ OnUnadvertise(b)
                          \/ OnClose(b) \/ Hangup(b)
                          \/ \E c \in Calls, outcome \in {"result", "failed"} :
                                OnServiceResponse(b, c, outcome)
    \/ \E c \in Calls : TakeRequest(c)
    \/ LoopStep
    \/ RosStep

Spec == Init /\ [][Next]_vars

\* The operating system runs both threads, and the loop closes what is down.
FairSpec == /\ Spec
            /\ WF_vars(LoopStep \/ \E b \in Bridges : OnClose(b))
            /\ WF_vars(RosStep)

-----------------------------------------------------------------------------
(***************************************************************************)
(* Properties                                                               *)
(***************************************************************************)
TypeOK ==
    /\ conn \in [Bridges -> {"open", "closing", "closed", "leaked"}]
    /\ adverts \in 0..MaxAdverts
    /\ adv \in [Bridges -> 0..MaxAdverts]
    /\ called \in [Adverts -> SUBSET Calls]
    /\ cleared \subseteq Adverts
    /\ future \in [Calls -> {"none", "result", "failed"}]
    /\ owed \in [Bridges -> SUBSET Calls]
    /\ srv \in [mgr : Adverts \cup {None}, owner : Bridges \cup {None}, handle : BOOLEAN]
    /\ loop \in [pc : {"idle", "owning", "entering", "clearing", "popping", "destroying",
                       "closing_clear", "closing_destroy", "emptying"},
                 b : Bridges \cup {None}, visited : SUBSET Calls, used : Nat]
    /\ ros \in [pc : Died \cup {"idle", "taken", "looking", "sending", "waiting", "leaving",
                                "deleting", "returning"},
                mgr : Adverts \cup {None}, owner : Bridges \cup {None},
                ctx : 0..MaxAdverts, call : Calls \cup {None}, late : BOOLEAN,
                outcome : {"none", "result", "failed"}]

\* A proxy call that waits on a future nobody has set is found by whoever has to
\* fail it: it is in the current context of its bridge, whatever unadvertise,
\* close and other bridges did meanwhile.  (Calls entered late, into a context
\* that was already cleared, are lost: the ROS thread waits on them for ever.)
WaitingIsReachable ==
    ros.pc = "waiting" /\ future[ros.call] = "none" /\ ~ros.late =>
        adv[ros.owner] = ros.ctx /\ ros.call \in CalledOf(ros.owner)

\* ctx['called'] does not grow: while the ROS thread lives, a current context
\* holds the call that is under way at most.
NoStaleCalls ==
    Alive => \A b \in Bridges :
        CalledOf(b) \subseteq (IF ros.owner = b THEN {ros.call} ELSE {})

\* An answer of the peer that is still to come finds its call, so a late answer
\* does not end the connection, unless the call has been failed meanwhile.
OwedAreKnown ==
    loop.pc = "idle" =>
        \A b \in Bridges, c \in Calls :
            /\ conn[b] = "open" /\ adv[b] # 0 /\ c \in owed[b]
            /\ future[c] = "none" /\ ~(ros.call = c /\ ros.late)
            => c \in CalledOf(b)

\* The call that waits for a peer whose connection is down.
Stranded ==
    {c \in Calls : /\ ros.pc = "waiting" /\ ros.call = c /\ ~ros.late
                   /\ conn[ros.owner] \in {"closing", "closed"}}

\* When a connection goes down its waiting call ends, or else close() failed.
ClosingWakes == []<>(Stranded = {})

\* "The gateway stops the role of a service server" (unadvertise_service): it
\* does not stop the ROS thread by deleting a call from the wrong context.
WithdrawalIsHarmless == ros.pc # "died_deleting"

=============================================================================
