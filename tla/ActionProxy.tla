---------------------------- MODULE ActionProxy ------------------------------
(***************************************************************************)
(* Remote actions: rosextpy/ros_ws_gateway.py and node_manager.py, the      *)
(* handlers advertise_action, unadvertise_action, action_result and         *)
(* action_feedback, close(), and the callback that proxies a goal of a      *)
(* local ROS client to the peer.                                            *)
(*                                                                          *)
(* Unlike service calls, many goals are under way at a time: each one runs  *)
(* as a task of the ROS thread that gives way only where it awaits.  rclpy  *)
(* survives whatever such a task raises: it takes an empty result, and      *)
(* aborts a goal that has no terminal status.  A second terminal status     *)
(* raises, unless the action server has been destroyed: updates of its      *)
(* goals are ignored, and their clients hear nothing.                       *)
(* One action name is enough: names share nothing.                          *)
(***************************************************************************)
EXTENDS Naturals, FiniteSets

CONSTANTS Bridges,
          Goals,
          None,       \* no bridge, no goal, no manager
          MaxAdverts, \* bound: advertisements in all
          Polite      \* peers advertise an action again only once withdrawn

ASSUME ActionAssumption ==
    /\ None \notin Bridges \cup Goals \cup Nat
    /\ MaxAdverts \in Nat \ {0}
    /\ Polite \in BOOLEAN

VARIABLES conn,    \* per bridge: open, closing, closed, leaked (close() raised)
          adverts, \* how often the action has been advertised
          adv,     \* _adv_action_servers: the number of the context, 0: none
          called,  \* per context: ctx['called']
          cleared, \* the contexts whose pending goals have all been failed
          owed,    \* per bridge: the goals the peer has not answered
          srv,     \* the ActionServerManager of the name
          loop,    \* what the asyncio loop is doing
          goal,    \* per goal: its handle, its future, its task
          ros      \* the goal whose task runs on the ROS thread

ctxVars  == <<adverts, adv, called, cleared>>
loopVars == <<conn, ctxVars, owed, srv, loop>>
rosVars  == <<goal, ros>>
vars     == <<loopVars, rosVars>>

-----------------------------------------------------------------------------
\* A manager, and a context, is known by the advertisement that created it;
\* owner: whose callback executes its goals.
Adverts  == 1..MaxAdverts
NoServer == [mgr |-> None, owner |-> None]

Idle       == [pc |-> "idle", b |-> None, visited |-> {}, used |-> 0]
LoopAt(pc) == [loop EXCEPT !.pc = pc]

\* status: the terminal status.  future: what the awaited future was given.
\* reply: what the ROS client got, "lost" when its server is gone.
NewGoal == [pc |-> "new", mgr |-> None, owner |-> None, ctx |-> 0, late |-> FALSE,
            status |-> "active", future |-> "none", reply |-> "none"]

Init ==
    /\ conn = [b \in Bridges |-> "open"]
    /\ adverts = 0
    /\ adv = [b \in Bridges |-> 0]
    /\ called = [n \in Adverts |-> {}]
    /\ cleared = {}
    /\ owed = [b \in Bridges |-> {}]
    /\ srv = NoServer
    /\ loop = Idle
    /\ goal = [g \in Goals |-> NewGoal]
    /\ ros = None

\* The server that accepted g exists, so that its handle can be updated.
Live(g) == srv.mgr = goal[g].mgr

\* succeed() and abort() of a goal handle.
SettleRaises(g) == Live(g) /\ goal[g].status # "active"

\* The terminal status, then the result of the future.
Settle(g, status, value) ==
    goal' = [goal EXCEPT ![g].status = IF Live(g) THEN status ELSE @, ![g].future = value]

-----------------------------------------------------------------------------
(***************************************************************************)
(* The asyncio loop: advertise_action                                       *)
(***************************************************************************)
\* create_action_server: the last bridge to advertise takes the name over.  (A
\* goal that meets a new manager before its callback is aborted, as is one that
\* comes before the context is entered: the two moments are one here.)
OnAdvertise(b) ==
    /\ loop.pc = "idle" /\ conn[b] = "open"
    /\ adverts < MaxAdverts
    /\ Polite => adv[b] = 0
    /\ adverts' = adverts + 1
    /\ srv' = [mgr |-> IF srv.mgr = None THEN adverts' ELSE srv.mgr, owner |-> b]
    /\ loop' = [Idle EXCEPT !.pc = "entering", !.b = b]
    /\ UNCHANGED <<conn, adv, called, cleared, owed, rosVars>>

\* Seeded bug: contexts are numbered from two.
EnterContextOffByOne ==
    /\ loop.pc = "entering"
    /\ adv' = [adv EXCEPT ![loop.b] = adverts + 1]
    /\ loop' = Idle
    /\ UNCHANGED <<conn, adverts, called, cleared, owed, srv, rosVars>>

\* A new context with no goals replaces the old one, if there is one.
EnterContext ==
    /\ loop.pc = "entering"
    /\ adv' = [adv EXCEPT ![loop.b] = adverts]
    /\ loop' = Idle
    /\ UNCHANGED <<conn, adverts, called, cleared, owed, srv, rosVars>>

-----------------------------------------------------------------------------
(***************************************************************************)
(* The asyncio loop: unadvertise_action and close                           *)
(***************************************************************************)
CalledOf(b) == IF adv[b] = 0 THEN {} ELSE called[adv[b]]

StartClearing(b, pc) ==
    loop' = [pc |-> pc, b |-> b, visited |-> {}, used |-> Cardinality(CalledOf(b))]

\* Seeded bug: the pending goals are not cleared.
UnadvertiseWithoutClearing(b) ==
    /\ loop.pc = "idle" /\ conn[b] = "open"
    /\ adv[b] # 0
    /\ loop' = [Idle EXCEPT !.pc = "popping", !.b = b]
    /\ UNCHANGED <<conn, ctxVars, owed, srv, rosVars>>

OnUnadvertise(b) ==
    /\ loop.pc = "idle" /\ conn[b] = "open"
    /\ adv[b] # 0
    /\ StartClearing(b, "clearing")
    /\ UNCHANGED <<conn, ctxVars, owed, srv, rosVars>>

\* Seeded bug: close() forgets the pending goals.
CloseWithoutClearing(b) ==
    /\ loop.pc = "idle" /\ conn[b] = "closing"
    /\ conn' = [conn EXCEPT ![b] = "closed"]
    /\ UNCHANGED <<ctxVars, owed, srv, loop, rosVars>>

\* close(), after the websocket's own close; with no action it has nothing to do.
OnClose(b) ==
    /\ loop.pc = "idle" /\ conn[b] = "closing"
    /\ IF adv[b] # 0 THEN StartClearing(b, "closing_clear") /\ UNCHANGED conn
       ELSE conn' = [conn EXCEPT ![b] = "closed"] /\ UNCHANGED loop
    /\ UNCHANGED <<ctxVars, owed, srv, rosVars>>

\* An exception ends the connection of a message's handler, or skips the rest
\* of close().
Raise(closing) ==
    /\ conn' = [conn EXCEPT ![loop.b] = IF closing THEN "leaked" ELSE "closing"]
    /\ loop' = Idle

\* _clear_act_pending_task: abort() raises for a goal whose result has come and
\* whose task has not left yet, and a goal that enters or leaves under the
\* iteration raises RuntimeError; the goals not met yet keep waiting.
ClearNext(closing) ==
    LET b == loop.b
        left == CalledOf(b) \ loop.visited
        intact == Cardinality(CalledOf(b)) = loop.used
    IN /\ loop.pc = IF closing THEN "closing_clear" ELSE "clearing"
       /\ \/ ~intact /\ Raise(closing) /\ UNCHANGED <<cleared, goal>>
          \/ /\ intact
             /\ \E g \in left :
                   IF SettleRaises(g) THEN Raise(closing) /\ UNCHANGED goal
                   ELSE /\ Settle(g, "aborted", "empty")
                        /\ loop' = [loop EXCEPT !.visited = @ \cup {g}]
                        /\ UNCHANGED conn
             /\ UNCHANGED cleared
          \/ /\ intact /\ left = {}
             /\ cleared' = cleared \cup {adv[b]}
             /\ loop' = LoopAt(IF closing THEN "closing_destroy" ELSE "popping")
             /\ UNCHANGED <<conn, goal>>
       /\ UNCHANGED <<adverts, adv, called, owed, srv, ros>>

PopContext ==
    /\ loop.pc = "popping"
    /\ adv' = [adv EXCEPT ![loop.b] = 0]
    /\ loop' = LoopAt("destroying")
    /\ UNCHANGED <<conn, adverts, called, cleared, owed, srv, rosVars>>

\* destroy_action_server goes by the name, whoever owns it.  close() does not
\* empty _adv_action_servers.
destroy_action_server(closing) ==
    /\ loop.pc = IF closing THEN "closing_destroy" ELSE "destroying"
    /\ srv' = NoServer
    /\ loop' = Idle
    /\ conn' = IF closing THEN [conn EXCEPT ![loop.b] = "closed"] ELSE conn
    /\ UNCHANGED <<ctxVars, owed, rosVars>>

-----------------------------------------------------------------------------
(***************************************************************************)
(* The asyncio loop: action_result and action_feedback                      *)
(***************************************************************************)
\* b was sent g while open: it may answer, also more than once.
WasSent(b, g) == /\ goal[g].owner = b /\ goal[g].ctx # 0
                 /\ goal[g].pc \in {"waiting", "leaving", "deleting", "ended"}

UnknownGoal(b, g) == adv[b] # 0 /\ g \notin CalledOf(b)

\* Seeded bug: the future is completed before the terminal status is set.
ResultBeforeStatus(b, g, succeeded) ==
    LET known  == g \in CalledOf(b)
        raises == UnknownGoal(b, g) \/ (known /\ SettleRaises(g))
    IN /\ loop.pc = "idle" /\ conn[b] = "open"
       /\ WasSent(b, g)
       /\ owed' = [owed EXCEPT ![b] = @ \ {g}]
       /\ IF ~known THEN UNCHANGED goal
          ELSE IF raises
          THEN goal' = [goal EXCEPT ![g].future = IF succeeded THEN "result" ELSE "empty"]
          ELSE IF succeeded THEN Settle(g, "succeeded", "result")
          ELSE Settle(g, "aborted", "empty")
       /\ conn' = IF raises THEN [conn EXCEPT ![b] = "closing"] ELSE conn
       /\ UNCHANGED <<ctxVars, srv, loop, ros>>

\* Without a context the answer is ignored; a goal the context does not know,
\* or one that has a terminal status, answered or aborted before, ends the
\* connection.
OnActionResult(b, g, succeeded) ==
    LET known  == g \in CalledOf(b)
        raises == UnknownGoal(b, g) \/ (known /\ SettleRaises(g))
    IN /\ loop.pc = "idle" /\ conn[b] = "open"
       /\ WasSent(b, g)
       /\ owed' = [owed EXCEPT ![b] = @ \ {g}]
       /\ IF ~known \/ raises THEN UNCHANGED goal
          ELSE IF succeeded THEN Settle(g, "succeeded", "result")
          ELSE Settle(g, "aborted", "empty")
       /\ conn' = IF raises THEN [conn EXCEPT ![b] = "closing"] ELSE conn
       /\ UNCHANGED <<ctxVars, srv, loop, ros>>

\* Feedback changes nothing here, unless its goal is unknown.
OnActionFeedback(b, g) ==
    /\ loop.pc = "idle" /\ conn[b] = "open"
    /\ WasSent(b, g)
    /\ UnknownGoal(b, g)
    /\ conn' = [conn EXCEPT ![b] = "closing"]
    /\ UNCHANGED <<ctxVars, owed, srv, loop, rosVars>>

Hangup(b) ==
    /\ conn[b] = "open"
    /\ conn' = [conn EXCEPT ![b] = "closing"]
    /\ UNCHANGED <<ctxVars, owed, srv, loop, rosVars>>

-----------------------------------------------------------------------------
(***************************************************************************)
(* The ROS thread                                                           *)
(***************************************************************************)
\* The server accepts every goal; its task is run later.
AcceptGoal(g) ==
    /\ ros = None /\ srv.mgr # None
    /\ goal[g].pc = "new"
    /\ goal' = [goal EXCEPT ![g].pc = "accepted", ![g].mgr = srv.mgr]
    /\ UNCHANGED <<loopVars, ros>>

RunTo(g, pc) == goal' = [goal EXCEPT ![g].pc = pc]

\* The task is over, with the value that its callback returned; empty if the
\* callback raised.
End(g, value) ==
    /\ goal' = [goal EXCEPT ![g].pc = "ended",
                   ![g].status = IF Live(g) /\ @ = "active" THEN "aborted" ELSE @,
                   ![g].reply = IF Live(g) THEN value ELSE "lost"]
    /\ ros' = None

\* Without callback the goal is aborted.
_inter_exec_callback(g) ==
    /\ ros = None /\ goal[g].pc = "accepted"
    /\ IF Live(g)
       THEN goal' = [goal EXCEPT ![g].pc = "looking", ![g].owner = srv.owner] /\ ros' = g
       ELSE End(g, "empty")
    /\ UNCHANGED loopVars

LookUpContext(g) ==
    /\ ros = g /\ goal[g].pc = "looking"
    /\ IF adv[goal[g].owner] = 0 THEN End(g, "empty")
       ELSE goal' = [goal EXCEPT ![g].pc = "sending", ![g].ctx = adv[goal[g].owner]]
            /\ UNCHANGED ros
    /\ UNCHANGED loopVars

\* The goal is entered into the context found before, then sent; sending on a
\* connection that is not open raises, and the entry stays, or loses the
\* message while it closes.
SendGoal(g) ==
    LET b == goal[g].owner
        n == goal[g].ctx
    IN /\ ros = g /\ goal[g].pc = "sending"
       /\ called' = [called EXCEPT ![n] = @ \cup {g}]
       /\ \/ /\ conn[b] \in {"open", "closing"}
             /\ owed' = IF conn[b] = "open" THEN [owed EXCEPT ![b] = @ \cup {g}] ELSE owed
             /\ goal' = [goal EXCEPT ![g].pc = "waiting", ![g].late = n \in cleared]
             /\ ros' = None
          \/ conn[b] # "open" /\ End(g, "empty") /\ UNCHANGED owed
       /\ UNCHANGED <<conn, adverts, adv, cleared, srv, loop>>

\* Seeded bug: the await gives up after a while.
WakeWithTimeout(g) ==
    /\ ros = None /\ goal[g].pc = "waiting"
    /\ RunTo(g, "leaving") /\ ros' = g
    /\ UNCHANGED loopVars

Wake(g) ==
    /\ ros = None /\ goal[g].pc = "waiting"
    /\ goal[g].future # "none"
    /\ RunTo(g, "leaving") /\ ros' = g
    /\ UNCHANGED loopVars

\* finally: the test ...
LeaveContext(g) ==
    /\ ros = g /\ goal[g].pc = "leaving"
    /\ IF adv[goal[g].owner] = 0 THEN End(g, goal[g].future)
       ELSE RunTo(g, "deleting") /\ UNCHANGED ros
    /\ UNCHANGED loopVars

\* ... and the deletion from whatever context is current then: if the goal is
\* not in it, KeyError replaces the result.
DeleteGoal(g) ==
    LET b == goal[g].owner
    IN /\ ros = g /\ goal[g].pc = "deleting"
       /\ IF g \in CalledOf(b)
          THEN called' = [called EXCEPT ![adv[b]] = @ \ {g}] /\ End(g, goal[g].future)
          ELSE UNCHANGED called /\ End(g, "empty")
       /\ UNCHANGED <<conn, adverts, adv, cleared, owed, srv, loop>>

-----------------------------------------------------------------------------
LoopStep ==
    \/ EnterContext \/ PopContext
    \/ \E closing \in BOOLEAN : ClearNext(closing) \/ destroy_action_server(closing)

TaskStep(g) == \/ _inter_exec_callback(g) \/ LookUpContext(g) \/ SendGoal(g)
               \/ Wake(g) \/ LeaveContext(g) \/ DeleteGoal(g)

Next ==
    \/ \E b \in Bridges : \/ OnAdvertise(b) \/ OnUnadvertise(b)
                          \/ OnClose(b) \/ Hangup(b)
                          \/ \E g \in Goals : \/ OnActionFeedback(b, g)
                                              \/ \E succeeded \in BOOLEAN :
                                                    OnActionResult(b, g, succeeded)
    \/ LoopStep
    \/ \E g \in Goals : AcceptGoal(g) \/ TaskStep(g)

Spec == Init /\ [][Next]_vars

\* The operating system runs both threads, and the loop closes what is down.
FairSpec == /\ Spec
            /\ WF_vars(LoopStep \/ \E b \in Bridges : OnClose(b))
            /\ WF_vars(\E g \in Goals : TaskStep(g))

-----------------------------------------------------------------------------
(***************************************************************************)
(* Properties                                                               *)
(***************************************************************************)
TypeOK ==
    /\ conn \in [Bridges -> {"open", "closing", "closed", "leaked"}]
    /\ adverts \in 0..MaxAdverts
    /\ adv \in [Bridges -> 0..MaxAdverts]
    /\ called \in [Adverts -> SUBSET Goals]
    /\ cleared \subseteq Adverts
    /\ owed \in [Bridges -> SUBSET Goals]
    /\ srv \in [mgr : Adverts \cup {None}, owner : Bridges \cup {None}]
    /\ loop \in [pc : {"idle", "entering", "clearing", "popping", "destroying",
                       "closing_clear", "closing_destroy"},
                 b : Bridges \cup {None}, visited : SUBSET Goals, used : Nat]
    /\ goal \in [Goals ->
          [pc : {"new", "accepted", "looking", "sending", "waiting", "leaving", "deleting",
                 "ended"},
           mgr : Adverts \cup {None}, owner : Bridges \cup {None}, ctx : 0..MaxAdverts,
           late : BOOLEAN, status : {"active", "succeeded", "aborted"},
           future : {"none", "result", "empty"}, reply : {"none", "result", "empty", "lost"}]]
    /\ ros \in Goals \cup {None}

\* A goal that waits on a future nobody has set is found by whoever has to end
\* it: it is in the current context of its bridge, however many goals entered,
\* left or raised since.  (A goal entered into a context that was already
\* cleared waits for ever.)
WaitingIsReachable ==
    \A g \in Goals :
        goal[g].pc = "waiting" /\ goal[g].future = "none" /\ ~goal[g].late =>
            /\ adv[goal[g].owner] = goal[g].ctx
            /\ g \in CalledOf(goal[g].owner)

\* The first answer of the peer to a goal of the current context does not end
\* the connection: the goal is known, and has no terminal status yet, whatever
\* became of other goals, of the name and of the ROS thread in between.
AnswersAreWelcome ==
    loop.pc = "idle" =>
        \A b \in Bridges, g \in Goals :
            conn[b] = "open" /\ g \in owed[b] /\ adv[b] = goal[g].ctx =>
                g \in CalledOf(b) /\ ~SettleRaises(g)

\* A client is told "succeeded" with the result of the peer and with nothing
\* else: neither finally, nor an abort of the goals pending, nor a second answer
\* that contradicts the first replaces a result, or makes one of an abort.
SucceededHasResult ==
    \A g \in Goals :
        goal[g].pc = "ended" /\ goal[g].reply # "lost" =>
            (goal[g].status = "succeeded" <=> goal[g].reply = "result")

\* The goals that wait for a peer whose connection is down.
Stranded ==
    {g \in Goals : /\ goal[g].pc = "waiting" /\ ~goal[g].late
                   /\ conn[goal[g].owner] \in {"closing", "closed"}}

\* When a connection goes down all of its waiting goals end, whatever goals of
\* its own and other connections do meanwhile, or else its close() has failed.
GoalsEndWithConnection == []<>(Stranded = {})
=============================================================================
