------------------------- MODULE ServiceProxyProofs --------------------------
(***************************************************************************)
(* Proofs about ServiceProxy, for any bridges, calls and advertisements.    *)
(*                                                                          *)
(* The checked invariants speak of a call that waits, or of an idle loop;   *)
(* the induction follows a context from its number being drawn to its being *)
(* popped, and a call from the context it has looked up to the return.      *)
(***************************************************************************)
EXTENDS ServiceProxy, FiniteSetTheorems, TLAPS

Looked  == {"sending", "waiting", "leaving", "deleting"}
Talking == Looked \cup {"looking", "returning"}

\* What the two threads hold while they are under way.
ThreadsHold ==
    /\ loop.pc # "idle" => loop.b \in Bridges
    /\ loop.pc \in {"clearing", "closing_clear"} => adv[loop.b] # 0
    /\ ros.pc \in {"idle", "taken"} => ros.owner = None
    /\ ros.pc \in Talking \cup {"taken"} => ros.call \in Calls
    /\ ros.pc \in Talking => ros.owner \in Bridges
    /\ ros.pc \in Looked => ros.ctx \in Adverts

FiniteCalled == \A n \in Adverts : IsFiniteSet(called[n])

TInv == TypeOK /\ ThreadsHold /\ FiniteCalled

\* The number of the last context that has been entered.
LastEntered == IF loop.pc \in {"owning", "entering"} THEN adverts - 1 ELSE adverts

\* A context has one bridge, is empty before it is entered, and stays the one of
\* the bridge whose callback has looked it up.
ContextsAreOwned ==
    /\ LastEntered \in Nat
    /\ \A b \in Bridges : adv[b] <= LastEntered
    /\ \A b, d \in Bridges : adv[b] = adv[d] /\ adv[b] # 0 => b = d
    /\ \A n \in cleared : n <= LastEntered
    /\ \A n \in Adverts : n > LastEntered => called[n] = {}
    /\ ros.pc \in Looked => /\ ros.ctx <= LastEntered
                            /\ \A b \in Bridges : adv[b] = ros.ctx => b = ros.owner

\* A call that returns has left its context.
ReturningHasLeft == ros.pc = "returning" => CalledOf(ros.owner) = {}

\* A context is popped, or forgotten, after its calls have been failed; none is
\* replaced if peers are polite.
PoppedAreCleared ==
    /\ loop.pc \in {"owning", "entering"} => adv[loop.b] = 0
    /\ loop.pc \in {"popping", "closing_destroy"} => adv[loop.b] \in cleared
    /\ loop.pc = "emptying" => adv[loop.b] \in cleared \cup {0}
    /\ \A c \in loop.visited : future[c] # "none"

\* A call that is sent or waits, and was in time, has a context to be failed by.
CallsHaveContext ==
    /\ ros.pc = "sending" /\ ros.ctx \notin cleared => adv[ros.owner] = ros.ctx
    /\ WaitingIsReachable
    /\ ros.pc = "waiting" /\ ros.ctx \in cleared /\ ~ros.late => future[ros.call] # "none"

\* What a peer has not answered, and nobody has failed, is the waiting call.
OwedAreWaiting ==
    \A b \in Bridges, c \in Calls :
        c \in owed[b] /\ future[c] = "none" =>
            ros.pc = "waiting" /\ ros.call = c /\ ros.owner = b

SInv == TInv /\ ContextsAreOwned /\ ReturningHasLeft /\ NoStaleCalls
PInv == SInv /\ PoppedAreCleared /\ CallsHaveContext /\ OwedAreWaiting

-----------------------------------------------------------------------------
LEMMA ServiceInit == Init => PInv
  <1> SUFFICES ASSUME Init PROVE PInv
    OBVIOUS
  <1> USE DEF Init, Idle, RosIdle, NoService
  <1>1. TypeOK
    BY ServiceAssumption DEF TypeOK, Adverts
  <1>2. FiniteCalled
    BY FS_EmptySet DEF FiniteCalled
  <1>3. ThreadsHold
    BY DEF ThreadsHold, Looked, Talking
  <1>4. ContextsAreOwned
    BY DEF ContextsAreOwned, LastEntered, Looked, Adverts
  <1>5. ReturningHasLeft /\ NoStaleCalls
    BY DEF ReturningHasLeft, NoStaleCalls, CalledOf
  <1>6. PoppedAreCleared /\ CallsHaveContext /\ OwedAreWaiting
    BY DEF PoppedAreCleared, CallsHaveContext, WaitingIsReachable, OwedAreWaiting
  <1> QED
    BY <1>1, <1>2, <1>3, <1>4, <1>5, <1>6 DEF PInv, SInv, TInv

\* What one step of the ROS thread does to the call it has under way.
SameCall == ros'.owner = ros.owner /\ ros'.call = ros.call
LetGo    == ros' = RosIdle

LEMMA RosMoves ==
    ASSUME TypeOK, RosStep
    PROVE  /\ UNCHANGED <<conn, adverts, adv, cleared, future, srv, loop>>
           /\ SendCall \/ UNCHANGED owed
           /\ SendCall \/ DeleteCall \/ UNCHANGED called
           /\ \/ ros.pc = "taken" /\ ros'.pc \in {"died_calling", "looking"}
              \/ ros.pc = "looking" /\ LetGo /\ adv[ros.owner] = 0
              \/ /\ ros.pc = "looking" /\ ros'.pc = "sending" /\ SameCall
                 /\ adv[ros.owner] # 0 /\ ros'.ctx = adv[ros.owner]
              \/ /\ SendCall /\ ros.pc = "sending" /\ SameCall /\ ros'.ctx = ros.ctx
                 /\ \/ ros'.pc = "waiting" /\ (ros'.late <=> ros.ctx \in cleared)
                    \/ ros'.pc = "died_sending"
              \/ /\ ros.pc = "waiting" /\ ros'.pc = "leaving" /\ SameCall /\ ros'.ctx = ros.ctx
                 /\ future[ros.call] # "none"
              \/ /\ ros.pc = "leaving" /\ SameCall /\ ros'.ctx = ros.ctx
                 /\ ros'.pc = IF adv[ros.owner] = 0 THEN "returning" ELSE "deleting"
              \/ /\ DeleteCall /\ ros.pc = "deleting" /\ SameCall
                 /\ ros'.pc = IF ros.call \in CalledOf(ros.owner) THEN "returning" ELSE "died_deleting"
              \/ ros.pc = "returning" /\ (LetGo \/ ros'.pc = "died_responding")
  <1> USE DEF SameCall, LetGo, RosAt, TypeOK
  <1>1. CASE _inter_callback
    BY <1>1 DEF _inter_callback, peerVars, ctxVars
  <1>2. CASE LookUpContext
    BY <1>2 DEF LookUpContext, peerVars, ctxVars
  <1>3. CASE SendCall
    BY <1>3 DEF SendCall
  <1>4. CASE Wake
    BY <1>4 DEF Wake, peerVars, ctxVars
  <1>5. CASE LeaveContext
    BY <1>5 DEF LeaveContext, peerVars, ctxVars
  <1>6. CASE DeleteCall
    BY <1>6 DEF DeleteCall, peerVars
  <1>7. CASE Return
    BY <1>7 DEF Return, peerVars, ctxVars
  <1> QED
    BY <1>1, <1>2, <1>3, <1>4, <1>5, <1>6, <1>7 DEF RosStep

\* The calls of a current context can be counted.
LEMMA CalledIsFinite ==
    ASSUME TInv, NEW b \in Bridges
    PROVE  CalledOf(b) \subseteq Calls /\ Cardinality(CalledOf(b)) \in Nat
  <1>1. adv[b] = 0 \/ adv[b] \in Adverts
    BY ServiceAssumption DEF TInv, TypeOK, Adverts
  <1>2. IsFiniteSet(CalledOf(b))
    BY <1>1, FS_EmptySet DEF CalledOf, TInv, FiniteCalled
  <1>3. CalledOf(b) \subseteq Calls
    BY <1>1 DEF CalledOf, TInv, TypeOK
  <1> QED
    BY <1>2, <1>3, FS_CardinalityType

\* Every handler, and every step of the proxy, leaves the variables well typed and
\* keeps hold of the bridge, the call and the context it works on.
LEMMA TypesStep == TInv /\ [Next]_vars => TInv'
  <1> SUFFICES ASSUME TInv, [Next]_vars PROVE TInv'
    OBVIOUS
  <1> USE ServiceAssumption DEF TInv
  <1>1. ASSUME NEW b \in Bridges, OnAdvertise(b) PROVE TInv'
    <2>1. adverts' \in Adverts
      BY <1>1 DEF OnAdvertise, TypeOK, Adverts
    <2>2. srv' \in [mgr : Adverts \cup {None}, owner : Bridges \cup {None}, handle : BOOLEAN]
      BY <1>1, <2>1 DEF OnAdvertise, TypeOK, Alive
    <2>3. loop' = [pc |-> "owning", b |-> b, visited |-> {}, used |-> 0]
      BY <1>1 DEF OnAdvertise, Idle
    <2>4. UNCHANGED <<conn, owed, adv, called, cleared, future, ros>>
      BY <1>1 DEF OnAdvertise, peerVars
    <2> QED
      BY <2>1, <2>2, <2>3, <2>4 DEF TypeOK, ThreadsHold, FiniteCalled, Adverts, Looked, Talking
  <1>2. CASE add_srv_service
    BY <1>2 DEF add_srv_service, TypeOK, ThreadsHold, FiniteCalled, LoopAt, peerVars, ctxVars, Looked, Talking
  <1>3. CASE EnterContext
    BY <1>3 DEF EnterContext, TypeOK, ThreadsHold, FiniteCalled, Idle, peerVars, Looked, Talking
  <1>4. ASSUME NEW b \in Bridges, OnUnadvertise(b) PROVE TInv'
    BY <1>4, CalledIsFinite
       DEF OnUnadvertise, StartClearing, TypeOK, ThreadsHold, FiniteCalled, peerVars, ctxVars, Looked, Talking
  <1>5. ASSUME NEW b \in Bridges, OnClose(b) PROVE TInv'
    <2>1. /\ loop' \in [pc : {"closing_clear", "emptying"}, b : {b}, visited : SUBSET Calls, used : Nat]
          /\ loop'.pc = "closing_clear" => adv[b] # 0
      <3>1. \/ /\ adv[b] # 0
               /\ loop' = [pc |-> "closing_clear", b |-> b, visited |-> {},
                           used |-> Cardinality(CalledOf(b))]
            \/ loop' = [pc |-> "emptying", b |-> b, visited |-> {}, used |-> 0]
        BY <1>5 DEF OnClose, StartClearing, Idle
      <3>2. Cardinality(CalledOf(b)) \in Nat
        BY CalledIsFinite
      <3> QED
        BY <3>1, <3>2
    <2>2. UNCHANGED <<conn, owed, adverts, adv, called, cleared, future, srv, ros>>
      BY <1>5 DEF OnClose, peerVars, ctxVars
    <2> QED
      BY <2>1, <2>2 DEF TypeOK, ThreadsHold, FiniteCalled, Looked, Talking
  <1>6. ASSUME NEW closing \in BOOLEAN, ClearNext(closing) PROVE TInv'
    <2>1. loop.b \in Bridges /\ adv[loop.b] \in Adverts
      BY <1>6 DEF ClearNext, TypeOK, ThreadsHold, Adverts
    <2>2. CalledOf(loop.b) \subseteq Calls
      BY <2>1, CalledIsFinite
    <2>3. /\ conn' \in [Bridges -> {"open", "closing", "closed", "leaked"}]
          /\ future' \in [Calls -> {"none", "result", "failed"}]
          /\ cleared' \subseteq Adverts
      BY <1>6, <2>1, <2>2 DEF ClearNext, Raise, TypeOK
    <2>4. /\ loop' \in [pc : {"idle", "clearing", "popping", "closing_clear", "closing_destroy"},
                        b : Bridges \cup {None}, visited : SUBSET Calls, used : Nat]
          /\ loop'.pc # "idle" => loop'.b = loop.b
      BY <1>6, <2>1, <2>2 DEF ClearNext, Raise, LoopAt, Idle, TypeOK
    <2>5. UNCHANGED <<owed, adverts, adv, called, srv, ros>>
      BY <1>6 DEF ClearNext
    <2>6. loop'.pc \in {"clearing", "closing_clear"} => adv[loop'.b] # 0
      BY <2>1, <2>4 DEF Adverts
    <2> QED
      BY <2>1, <2>3, <2>4, <2>5, <2>6 DEF TypeOK, ThreadsHold, FiniteCalled, Looked, Talking
  <1>7. CASE PopContext
    BY <1>7 DEF PopContext, LoopAt, TypeOK, ThreadsHold, FiniteCalled, peerVars, Looked, Talking
  <1>8. ASSUME NEW closing \in BOOLEAN, destroy_srv_service(closing) PROVE TInv'
    <2>1. loop.b \in Bridges
      BY <1>8 DEF destroy_srv_service, ThreadsHold
    <2>2. loop' \in [pc : {"idle", "emptying"}, b : Bridges \cup {None}, visited : SUBSET Calls, used : Nat]
          /\ (loop'.pc = "emptying" => loop'.b = loop.b)
      BY <1>8, <2>1 DEF destroy_srv_service, Raise, LoopAt, Idle, TypeOK
    <2>3. /\ conn' \in [Bridges -> {"open", "closing", "closed", "leaked"}]
          /\ srv' \in [mgr : Adverts \cup {None}, owner : Bridges \cup {None}, handle : BOOLEAN]
      <3>1. \/ srv' = [srv EXCEPT !.owner = None]
            \/ srv' = [mgr |-> None, owner |-> None, handle |-> FALSE]
        BY <1>8 DEF destroy_srv_service, NoService
      <3>2. \/ UNCHANGED conn
            \/ \E s \in {"leaked", "closing"} : conn' = [conn EXCEPT ![loop.b] = s]
        BY <1>8 DEF destroy_srv_service, Raise
      <3>3. conn' \in [Bridges -> {"open", "closing", "closed", "leaked"}]
        BY <2>1, <3>2 DEF TypeOK
      <3>4. srv' \in [mgr : Adverts \cup {None}, owner : Bridges \cup {None}, handle : BOOLEAN]
        <4>1. CASE srv' = [srv EXCEPT !.owner = None]
          BY <4>1 DEF TypeOK
        <4>2. CASE srv' = [mgr |-> None, owner |-> None, handle |-> FALSE]
          BY <4>2
        <4> QED
          BY <3>1, <4>1, <4>2
      <3> QED
        BY <3>3, <3>4
    <2>4. UNCHANGED <<owed, adverts, adv, called, cleared, future, ros>>
      BY <1>8 DEF destroy_srv_service, ctxVars
    <2> QED
      BY <2>1, <2>2, <2>3, <2>4 DEF TypeOK, ThreadsHold, FiniteCalled, Looked, Talking
  <1>9. CASE FinishClose
    BY <1>9 DEF FinishClose, Idle, TypeOK, ThreadsHold, FiniteCalled, Looked, Talking
  <1>10. ASSUME NEW b \in Bridges, NEW c \in Calls, NEW outcome \in {"result", "failed"},
                OnServiceResponse(b, c, outcome)
         PROVE  TInv'
    BY <1>10 DEF OnServiceResponse, TypeOK, ThreadsHold, FiniteCalled, Looked, Talking
  <1>11. ASSUME NEW b \in Bridges, Hangup(b) PROVE TInv'
    BY <1>11 DEF Hangup, TypeOK, ThreadsHold, FiniteCalled, ctxVars, Looked, Talking
  <1>12. ASSUME NEW c \in Calls, TakeRequest(c) PROVE TInv'
    <2>1. /\ srv.mgr \in Adverts
          /\ ros' = [pc |-> "taken", mgr |-> srv.mgr, owner |-> None, ctx |-> 0, call |-> c,
                     late |-> FALSE, outcome |-> "none"]
      BY <1>12 DEF TakeRequest, RosIdle, TypeOK
    <2>2. UNCHANGED <<conn, owed, adverts, adv, called, cleared, future, srv, loop>>
      BY <1>12 DEF TakeRequest, peerVars, ctxVars
    <2> QED
      BY <2>1, <2>2 DEF TypeOK, ThreadsHold, FiniteCalled, Looked, Talking
  <1>13. CASE RosStep /\ ~SendCall /\ ~DeleteCall
    <2>1. UNCHANGED <<peerVars, ctxVars, srv, loop>>
      BY <1>13 DEF RosStep, _inter_callback, LookUpContext, Wake, LeaveContext, Return
    <2>2. TypeOK'
      <3>1. ros' \in [pc : Died \cup {"idle", "taken", "looking", "sending", "waiting", "leaving",
                                      "deleting", "returning"},
                      mgr : Adverts \cup {None}, owner : Bridges \cup {None},
                      ctx : 0..MaxAdverts, call : Calls \cup {None}, late : BOOLEAN,
                      outcome : {"none", "result", "failed"}]
        <4>1. CASE _inter_callback
          BY <4>1 DEF _inter_callback, RosAt, TypeOK, Died
        <4>2. CASE LookUpContext
          BY <4>2 DEF LookUpContext, RosAt, RosIdle, TypeOK, Died, ThreadsHold, Talking
        <4>3. CASE Wake
          BY <4>3 DEF Wake, RosAt, TypeOK, Died, ThreadsHold, Talking, Looked
        <4>4. CASE LeaveContext
          BY <4>4 DEF LeaveContext, RosAt, TypeOK, Died
        <4>5. CASE Return
          BY <4>5 DEF Return, RosAt, RosIdle, TypeOK, Died
        <4> QED
          BY <1>13, <4>1, <4>2, <4>3, <4>4, <4>5 DEF RosStep
      <3> QED
        BY <2>1, <3>1 DEF TypeOK, peerVars, ctxVars
    <2>3. ThreadsHold'
      <3> USE <2>1 DEF ThreadsHold, Looked, Talking, RosAt, peerVars, ctxVars
      <3>1. CASE _inter_callback
        BY <3>1 DEF _inter_callback, TypeOK
      <3>2. CASE LookUpContext
        BY <3>2 DEF LookUpContext, RosIdle, TypeOK, Adverts
      <3>3. CASE Wake
        BY <3>3 DEF Wake, TypeOK
      <3>4. CASE LeaveContext
        BY <3>4 DEF LeaveContext, TypeOK
      <3>5. CASE Return
        BY <3>5 DEF Return, RosIdle, TypeOK
      <3> QED
        BY <1>13, <3>1, <3>2, <3>3, <3>4, <3>5 DEF RosStep
    <2>4. FiniteCalled'
      BY <2>1 DEF FiniteCalled, ctxVars
    <2> QED
      BY <2>2, <2>3, <2>4
  <1>14. CASE SendCall
    <2>1. /\ ros.ctx \in Adverts /\ ros.call \in Calls /\ ros.owner \in Bridges
          /\ called' = [called EXCEPT ![ros.ctx] = @ \cup {ros.call}]
      BY <1>14 DEF SendCall, ThreadsHold, Looked, Talking
    <2>2. FiniteCalled'
      <3> SUFFICES ASSUME NEW n \in Adverts PROVE IsFiniteSet(called'[n])
        BY DEF FiniteCalled
      <3>1. called'[n] = called[n] \/ called'[n] = called[n] \cup {ros.call}
        BY <2>1 DEF TypeOK
      <3>2. IsFiniteSet(called[n])
        BY DEF FiniteCalled
      <3>3. IsFiniteSet(called[n] \cup {ros.call})
        BY <3>2, FS_AddElement
      <3> QED
        BY <3>1, <3>2, <3>3
    <2>3. ros' \in [pc : {"waiting", "died_sending"}, mgr : {ros.mgr}, owner : {ros.owner},
                    ctx : {ros.ctx}, call : {ros.call}, late : BOOLEAN, outcome : {ros.outcome}]
      <3>1. \/ ros' = [RosAt("waiting") EXCEPT !.late = ros.ctx \in cleared]
            \/ ros' = RosAt("died_sending")
        BY <1>14 DEF SendCall
      <3>2. CASE ros' = [RosAt("waiting") EXCEPT !.late = ros.ctx \in cleared]
        <4>1. ros' = [pc |-> "waiting", mgr |-> ros.mgr, owner |-> ros.owner, ctx |-> ros.ctx,
                      call |-> ros.call, late |-> ros.ctx \in cleared, outcome |-> ros.outcome]
          BY <3>2 DEF RosAt, TypeOK
        <4> QED
          BY <4>1 DEF TypeOK
      <3>3. CASE ros' = RosAt("died_sending")
        BY <3>3 DEF TypeOK, RosAt
      <3> QED
        BY <3>1, <3>2, <3>3
    <2>4. owed' \in [Bridges -> SUBSET Calls]
      BY <1>14, <2>1 DEF SendCall, TypeOK
    <2>5. called' \in [Adverts -> SUBSET Calls]
      BY <2>1 DEF TypeOK
    <2>6. UNCHANGED <<conn, adverts, adv, cleared, future, srv, loop>>
      BY <1>14 DEF SendCall
    <2>7. TypeOK'
      BY <2>3, <2>4, <2>5, <2>6 DEF TypeOK, Died
    <2>8. ThreadsHold'
      BY <2>1, <2>3, <2>6 DEF ThreadsHold, Looked, Talking
    <2> QED
      BY <2>2, <2>7, <2>8
  <1>15. CASE DeleteCall
    <2>1. /\ ros.call \in Calls /\ ros.owner \in Bridges
          /\ ros' = RosAt("returning") \/ ros' = RosAt("died_deleting")
          /\ UNCHANGED <<peerVars, adverts, adv, cleared, future, srv, loop>>
      BY <1>15 DEF DeleteCall, ThreadsHold, Looked, Talking
    <2>2. \/ UNCHANGED called
          \/ /\ adv[ros.owner] \in Adverts
             /\ called' = [called EXCEPT ![adv[ros.owner]] = @ \ {ros.call}]
      BY <1>15, <2>1 DEF DeleteCall, CalledOf, TypeOK, Adverts
    <2>3. FiniteCalled'
      <3> SUFFICES ASSUME NEW n \in Adverts PROVE IsFiniteSet(called'[n])
        BY DEF FiniteCalled
      <3>1. called'[n] = called[n] \/ called'[n] = called[n] \ {ros.call}
        BY <2>2 DEF TypeOK
      <3>2. IsFiniteSet(called[n])
        BY DEF FiniteCalled
      <3>3. IsFiniteSet(called[n] \ {ros.call})
        BY <3>2, FS_RemoveElement
      <3> QED
        BY <3>1, <3>2, <3>3
    <2>4. TypeOK'
      BY <2>1, <2>2 DEF RosAt, TypeOK, Died, peerVars
    <2>5. ThreadsHold'
      BY <2>1 DEF RosAt, TypeOK, Died, ThreadsHold, Looked, Talking
    <2> QED
      BY <2>3, <2>4, <2>5
  <1>16. CASE UNCHANGED vars
    BY <1>16 DEF vars, peerVars, ctxVars, TypeOK, ThreadsHold, FiniteCalled
  <1> QED
    BY <1>1, <1>2, <1>3, <1>4, <1>5, <1>6, <1>7, <1>8, <1>9, <1>10, <1>11, <1>12, <1>13, <1>14, <1>15, <1>16
       DEF Next, LoopStep, RosStep

\* Unadvertise and close have nothing to do before they clear.
LEMMA ClearingStarts ==
    ASSUME NEW b \in Bridges, OnUnadvertise(b) \/ OnClose(b)
    PROVE  /\ loop.pc = "idle" /\ loop'.pc \in {"clearing", "closing_clear", "emptying"}
           /\ loop'.b = b /\ loop'.visited = {} /\ (loop'.pc = "emptying" => adv[b] = 0)
           /\ UNCHANGED <<ctxVars, ros>>
  <1>1. CASE OnUnadvertise(b)
    <2>1. loop' = [pc |-> "clearing", b |-> b, visited |-> {}, used |-> Cardinality(CalledOf(b))]
      BY <1>1 DEF OnUnadvertise, StartClearing
    <2> QED
      BY <1>1, <2>1 DEF OnUnadvertise
  <1>2. CASE OnClose(b)
    <2>1. \E pc \in {"closing_clear", "emptying"}, used \in {0, Cardinality(CalledOf(b))} :
             /\ loop' = [pc |-> pc, b |-> b, visited |-> {}, used |-> used]
             /\ pc = "emptying" => adv[b] = 0
      BY <1>2 DEF OnClose, StartClearing, Idle
    <2> QED
      BY <1>2, <2>1 DEF OnClose
  <1> QED
    BY <1>1, <1>2

-----------------------------------------------------------------------------
LEMMA ContextsStep == SInv /\ [Next]_vars => ContextsAreOwned'
  <1> SUFFICES ASSUME SInv, [Next]_vars PROVE ContextsAreOwned'
    OBVIOUS
  <1>0. TInv /\ TInv' /\ ContextsAreOwned
    BY TypesStep DEF SInv
  <1> USE <1>0 DEF ContextsAreOwned, LastEntered, Looked
  <1>1. ASSUME NEW b \in Bridges, OnAdvertise(b) PROVE ContextsAreOwned'
    BY <1>1 DEF OnAdvertise, Idle, TInv, TypeOK, peerVars
  <1>2. CASE add_srv_service
    BY <1>2 DEF add_srv_service, LoopAt, TInv, TypeOK, peerVars, ctxVars
  <1>3. CASE EnterContext
    BY <1>3 DEF EnterContext, Idle, TInv, TypeOK, ThreadsHold, Adverts, peerVars
  <1>4. ASSUME NEW b \in Bridges, OnUnadvertise(b) \/ OnClose(b) PROVE ContextsAreOwned'
    BY <1>4, ClearingStarts DEF ctxVars
  <1>5. ASSUME NEW closing \in BOOLEAN, ClearNext(closing) PROVE ContextsAreOwned'
    <2>1. /\ loop.pc \notin {"owning", "entering"} /\ loop'.pc \notin {"owning", "entering"}
          /\ loop.b \in Bridges
      BY <1>5 DEF ClearNext, Raise, LoopAt, Idle, TInv, TypeOK, ThreadsHold
    <2>2. /\ cleared' \subseteq cleared \cup {adv[loop.b]}
          /\ UNCHANGED <<owed, adverts, adv, called, srv, ros>>
      BY <1>5 DEF ClearNext
    <2> QED
      BY <2>1, <2>2
  <1>6. CASE PopContext
    BY <1>6 DEF PopContext, LoopAt, TInv, TypeOK, ThreadsHold, Adverts, peerVars
  <1>7. ASSUME NEW closing \in BOOLEAN, destroy_srv_service(closing) PROVE ContextsAreOwned'
    BY <1>7 DEF destroy_srv_service, Raise, LoopAt, Idle, TInv, TypeOK, ctxVars
  <1>8. CASE FinishClose
    BY <1>8 DEF FinishClose, Idle, TInv, TypeOK, ThreadsHold, Adverts
  <1>9. ASSUME NEW b \in Bridges, NEW c \in Calls, NEW outcome \in {"result", "failed"},
               OnServiceResponse(b, c, outcome)
        PROVE  ContextsAreOwned'
    BY <1>9 DEF OnServiceResponse
  <1>10. ASSUME NEW c \in Calls, TakeRequest(c) PROVE ContextsAreOwned'
    BY <1>10 DEF TakeRequest, RosIdle, peerVars, ctxVars
  <1>11. CASE RosStep
    <2>1. UNCHANGED <<adverts, adv, cleared, loop>>
      BY <1>11, RosMoves DEF TInv
    <2>2. \/ ros'.pc \notin Looked
          \/ ros.pc \in Looked /\ SameCall /\ ros'.ctx = ros.ctx
          \/ SameCall /\ ros'.ctx = adv[ros.owner] /\ adv[ros.owner] # 0 /\ ros.owner \in Bridges
      BY <1>11, RosMoves DEF LetGo, RosIdle, TInv, ThreadsHold, Talking
    <2>3. ASSUME NEW n \in Adverts, n > LastEntered PROVE called'[n] = {}
      <3>1. CASE SendCall
        BY <2>3, <3>1 DEF SendCall, TInv, TypeOK, Adverts
      <3>2. CASE DeleteCall
        BY <2>3, <3>2 DEF DeleteCall, CalledOf, TInv, TypeOK, Adverts
      <3> QED
        BY <1>11, <2>3, <3>1, <3>2, RosMoves DEF TInv
    <2> QED
      BY <2>1, <2>2, <2>3 DEF SameCall, TInv, TypeOK
  <1>12. CASE UNCHANGED vars
    BY <1>12 DEF vars, peerVars, ctxVars
  <1>13. CASE \E b \in Bridges : Hangup(b)
    BY <1>13 DEF Hangup, ctxVars
  <1> QED
    BY <1>1, <1>2, <1>3, <1>4, <1>5, <1>6, <1>7, <1>8, <1>9, <1>10, <1>11, <1>12, <1>13
       DEF Next, LoopStep

-----------------------------------------------------------------------------
\* The ROS thread gives a context the call it has under way, and no other.
LEMMA StaleStep == SInv /\ [Next]_vars => ReturningHasLeft' /\ NoStaleCalls'
  <1> SUFFICES ASSUME SInv, [Next]_vars PROVE ReturningHasLeft' /\ NoStaleCalls'
    OBVIOUS
  <1>0. /\ TypeOK /\ ThreadsHold /\ ContextsAreOwned /\ ContextsAreOwned' /\ ReturningHasLeft /\ NoStaleCalls
        /\ \A b \in Bridges : adv[b] \in Nat /\ (adv[b] # 0 => adv[b] \in Adverts)
    BY ContextsStep, ServiceAssumption DEF SInv, TInv, TypeOK, Adverts
  <1> USE DEF ReturningHasLeft, NoStaleCalls, CalledOf, Alive, Died
  <1>1. ASSUME UNCHANGED <<called, ros>>, \A b \in Bridges : adv'[b] \in {adv[b], 0}
        PROVE  ReturningHasLeft' /\ NoStaleCalls'
    BY <1>0, <1>1 DEF ThreadsHold, Talking
  <1>2. CASE EnterContext
    <2>1. /\ adv' = [adv EXCEPT ![loop.b] = adverts] /\ UNCHANGED <<called, ros>>
          /\ loop.b \in Bridges /\ adverts \in Adverts /\ called[adverts] = {}
      BY <1>0, <1>2 DEF EnterContext, TypeOK, ThreadsHold, ContextsAreOwned, LastEntered, Adverts
    <2> QED
      BY <1>0, <2>1 DEF TypeOK, ThreadsHold, Talking
  <1>3. CASE RosStep
    <2>0. UNCHANGED adv
      BY <1>0, <1>3, RosMoves
    <2>1. CASE SendCall
      <3>1. /\ called' = [called EXCEPT ![ros.ctx] = @ \cup {ros.call}]
            /\ ros.pc = "sending" /\ ros.ctx \in Adverts /\ ros.owner \in Bridges
        BY <1>0, <2>1 DEF SendCall, ThreadsHold, Looked, Talking
      <3>2. \A b \in Bridges : adv[b] = ros.ctx => b = ros.owner
        BY <1>0, <3>1 DEF ContextsAreOwned, Looked
      <3>3. ros'.pc \in {"waiting", "died_sending"} /\ SameCall
        BY <1>0, <1>3, <3>1, RosMoves
      <3> QED
        BY <1>0, <2>0, <3>1, <3>2, <3>3 DEF SameCall, TypeOK
    <2>2. CASE DeleteCall
      <3>1. ros.pc = "deleting" /\ ros.owner \in Bridges /\ SameCall
        BY <1>0, <1>3, <2>2, RosMoves DEF DeleteCall, ThreadsHold, Looked, Talking
      <3>2. CASE ros.call \in CalledOf(ros.owner)
        <4>1. /\ adv[ros.owner] \in Adverts
              /\ called' = [called EXCEPT ![adv[ros.owner]] = @ \ {ros.call}]
          BY <1>0, <2>2, <3>1, <3>2 DEF DeleteCall
        <4>2. \A b \in Bridges : adv[b] = adv[ros.owner] => b = ros.owner
          BY <1>0, <3>1, <4>1 DEF ContextsAreOwned, Adverts
        <4> QED
          BY <1>0, <2>0, <3>1, <4>1, <4>2 DEF SameCall, TypeOK
      <3>3. CASE ros.call \notin CalledOf(ros.owner)
        <4>1. ros'.pc = "died_deleting"
          BY <1>0, <1>3, <2>2, <3>1, <3>3, RosMoves DEF DeleteCall
        <4> QED
          BY <4>1
      <3> QED
        BY <3>2, <3>3
    <2>3. CASE ~SendCall /\ ~DeleteCall
      <3>0. UNCHANGED called
        BY <1>0, <1>3, <2>3, RosMoves
      <3>1. CASE ros'.pc \in Died
        BY <3>1
      <3>2. CASE LetGo
        <4>1. \/ ros.pc = "looking" /\ CalledOf(ros.owner) = {}
              \/ ros.pc = "returning" /\ CalledOf(ros.owner) = {}
          BY <1>0, <1>3, <2>3, <3>2, RosMoves DEF LetGo, RosIdle
        <4>2. \A b \in Bridges : CalledOf(b) = {}
          BY <1>0, <4>1
        <4> QED
          BY <1>0, <2>0, <3>0, <3>2, <4>2 DEF LetGo, RosIdle
      <3>3. CASE ros.pc = "taken" /\ ros'.pc = "looking"
        BY <1>0, <2>0, <3>0, <3>3, ServiceAssumption DEF ThreadsHold
      <3>4. CASE SameCall /\ (ros'.pc = "returning" => adv[ros.owner] = 0) /\ ros.pc \notin Died
        BY <1>0, <2>0, <3>0, <3>4 DEF SameCall
      <3> QED
        BY <1>0, <1>3, <2>3, <3>1, <3>2, <3>3, <3>4, RosMoves
    <2> QED
      BY <1>0, <1>3, <2>1, <2>2, <2>3, RosMoves
  <1>4. ASSUME NEW c \in Calls, TakeRequest(c) PROVE ReturningHasLeft' /\ NoStaleCalls'
    BY <1>0, <1>4, ServiceAssumption DEF TakeRequest, RosIdle, ThreadsHold, ctxVars, peerVars
  <1>5. CASE \E b \in Bridges : \/ OnAdvertise(b) \/ OnUnadvertise(b) \/ OnClose(b) \/ Hangup(b)
                                \/ \E c \in Calls, outcome \in {"result", "failed"} :
                                      OnServiceResponse(b, c, outcome)
    BY <1>1, <1>5 DEF OnAdvertise, OnUnadvertise, OnClose, Hangup, OnServiceResponse, ctxVars
  <1>6. CASE LoopStep
    <2>1. ASSUME ~EnterContext
          PROVE UNCHANGED <<called, ros>> /\ \A b \in Bridges : adv'[b] \in {adv[b], 0}
      BY <1>0, <1>6, <2>1 DEF LoopStep, add_srv_service, ClearNext, destroy_srv_service, PopContext, FinishClose,
                         ctxVars, peerVars, TypeOK
    <2> QED
      BY <1>1, <1>2, <2>1
  <1>7. CASE UNCHANGED vars
    BY <1>1, <1>7 DEF vars, ctxVars
  <1> QED
    BY <1>3, <1>4, <1>5, <1>6, <1>7 DEF Next

-----------------------------------------------------------------------------
LEMMA SafeStep == SInv /\ [Next]_vars => SInv'
  BY TypesStep, ContextsStep, StaleStep DEF SInv

\* A context leaves its bridge only when its calls have been failed.
LEMMA PoppedStep == PInv /\ Polite /\ [Next]_vars => PoppedAreCleared'
  <1> SUFFICES ASSUME PInv, Polite, [Next]_vars PROVE PoppedAreCleared'
    OBVIOUS
  <1>0. TypeOK /\ ThreadsHold /\ PoppedAreCleared
    BY DEF PInv, SInv, TInv
  <1> USE DEF PoppedAreCleared
  <1>1. ASSUME NEW b \in Bridges, OnAdvertise(b) PROVE PoppedAreCleared'
    BY <1>0, <1>1 DEF OnAdvertise, Idle, peerVars
  <1>2. CASE add_srv_service
    BY <1>0, <1>2 DEF add_srv_service, LoopAt, TypeOK, ctxVars, peerVars
  <1>3. CASE EnterContext
    BY <1>0, <1>3 DEF EnterContext, Idle
  <1>4. ASSUME NEW b \in Bridges, OnUnadvertise(b) \/ OnClose(b) PROVE PoppedAreCleared'
    BY <1>4, ClearingStarts DEF ctxVars
  <1>6. ASSUME NEW closing \in BOOLEAN, ClearNext(closing) PROVE PoppedAreCleared'
    <2>1. UNCHANGED adv /\ loop.b \in Bridges
      BY <1>0, <1>6 DEF ClearNext, ThreadsHold
    <2>2. CASE Raise(closing) /\ UNCHANGED <<future, cleared>>
      BY <2>2 DEF Raise, Idle
    <2>3. ASSUME NEW c \in CalledOf(loop.b), future' = [future EXCEPT ![c] = "failed"],
                 loop' = [loop EXCEPT !.visited = @ \cup {c}], UNCHANGED cleared
          PROVE  PoppedAreCleared'
      <3>1. loop'.pc = loop.pc /\ loop'.visited = loop.visited \cup {c} /\ loop.visited \subseteq Calls
        BY <1>0, <2>3 DEF TypeOK
      <3>2. loop.pc \in {"clearing", "closing_clear"}
        BY <1>6 DEF ClearNext
      <3>3. c \in Calls
        BY <1>0, <2>1, <2>3, CalledIsFinite DEF PInv, SInv
      <3> QED
        BY <1>0, <2>3, <3>1, <3>2, <3>3 DEF TypeOK
    <2>4. CASE /\ cleared' = cleared \cup {adv[loop.b]} /\ UNCHANGED future
               /\ loop' = LoopAt(IF closing THEN "closing_destroy" ELSE "popping")
      BY <1>0, <2>1, <2>4 DEF LoopAt, TypeOK
    <2> QED
      BY <1>6, <2>2, <2>3, <2>4 DEF ClearNext
  <1>7. CASE PopContext
    BY <1>0, <1>7 DEF PopContext, LoopAt, TypeOK
  <1>8. ASSUME NEW closing \in BOOLEAN, destroy_srv_service(closing) PROVE PoppedAreCleared'
    <2>1. /\ UNCHANGED ctxVars
          /\ \/ loop' = Idle
             \/ loop.pc = "closing_destroy" /\ loop' = LoopAt("emptying")
      BY <1>8 DEF destroy_srv_service, Raise
    <2> QED
      BY <1>0, <2>1 DEF LoopAt, Idle, TypeOK, ctxVars
  <1>9. CASE FinishClose
    BY <1>0, <1>9 DEF FinishClose, Idle
  <1>10. ASSUME NEW b \in Bridges, NEW c \in Calls, NEW outcome \in {"result", "failed"},
                OnServiceResponse(b, c, outcome)
         PROVE  PoppedAreCleared'
    <2>1. UNCHANGED <<adv, cleared, loop>> /\ \A d \in Calls : future[d] # "none" => future'[d] # "none"
      BY <1>0, <1>10 DEF OnServiceResponse, TypeOK
    <2> QED
      BY <1>0, <2>1 DEF TypeOK
  <1>11. CASE UNCHANGED <<adv, cleared, future, loop>>
    BY <1>0, <1>11
  <1>12. CASE RosStep
    <2>1. UNCHANGED <<adv, cleared, future, loop>>
      BY <1>0, <1>12, RosMoves
    <2> QED
      BY <1>11, <2>1
  <1>13. CASE \/ \E b \in Bridges : Hangup(b)
              \/ \E c \in Calls : TakeRequest(c)
              \/ UNCHANGED vars
    BY <1>11, <1>13 DEF Hangup, TakeRequest, vars, ctxVars
  <1> QED
    BY <1>1, <1>2, <1>3, <1>4, <1>6, <1>7, <1>8, <1>9, <1>10, <1>12, <1>13 DEF Next, LoopStep

-----------------------------------------------------------------------------
\* What is waited for and in time stays where unadvertise and close will look.
LEMMA HaveContextStep == PInv /\ Polite /\ [Next]_vars => CallsHaveContext'
  <1> SUFFICES ASSUME PInv, Polite, [Next]_vars PROVE CallsHaveContext'
    OBVIOUS
  <1>0. TypeOK /\ ThreadsHold /\ ContextsAreOwned /\ PoppedAreCleared /\ CallsHaveContext
    BY DEF PInv, SInv, TInv
  <1> USE DEF CallsHaveContext, WaitingIsReachable, CalledOf
  <1>1. ASSUME UNCHANGED <<called, ros>>, cleared \subseteq cleared', 
               \A b \in Bridges : adv'[b] # adv[b] => adv[b] \in cleared' \cup {0},
               \A n \in cleared' \ cleared :
                  \E b \in Bridges : adv[b] = n /\ \A c \in called[n] : future[c] # "none",
               \A c \in Calls : future[c] # "none" => future'[c] # "none"
        PROVE  CallsHaveContext'
    <2>1. CASE ros.pc = "sending"
      <3>1. ros.ctx \in Adverts /\ ros.owner \in Bridges /\ ros'.pc = "sending"
        BY <1>0, <1>1, <2>1 DEF ThreadsHold, Looked, Talking
      <3> QED
        BY <1>0, <1>1, <2>1, <3>1 DEF Adverts
    <2>2. CASE ros.pc = "waiting"
      <3>1. ros.ctx \in Adverts /\ ros.ctx # 0 /\ ros.owner \in Bridges /\ ros.call \in Calls
        BY <1>0, <2>2 DEF ThreadsHold, Looked, Talking, Adverts
      <3>2. ASSUME ros.ctx \in cleared', ~ros.late PROVE future[ros.call] # "none"
        <4>1. CASE ros.ctx \in cleared
          BY <1>0, <2>2, <3>2, <4>1
        <4>2. CASE ros.ctx \notin cleared
          <5>1. \A c \in called[ros.ctx] : future[c] # "none"
            BY <1>1, <3>2, <4>2
          <5> QED
            BY <1>0, <2>2, <3>1, <3>2, <5>1
        <4> QED
          BY <4>1, <4>2
      <3>3. ASSUME future'[ros.call] = "none", ~ros.late
            PROVE  adv'[ros.owner] = ros.ctx /\ ros.call \in called[ros.ctx]
        <4>1. future[ros.call] = "none" /\ ros.ctx \notin cleared'
          BY <1>1, <3>1, <3>2, <3>3
        <4>2. adv[ros.owner] = ros.ctx /\ ros.call \in called[ros.ctx]
          BY <1>0, <2>2, <3>1, <3>3, <4>1
        <4> QED
          BY <1>1, <3>1, <4>1, <4>2
      <3> QED
        BY <1>1, <2>2, <3>1, <3>2, <3>3
    <2> QED
      BY <1>1, <2>1, <2>2
  <1>2. ASSUME NEW closing \in BOOLEAN, ClearNext(closing) PROVE CallsHaveContext'
    <2>1. loop.b \in Bridges /\ adv[loop.b] \in Adverts /\ UNCHANGED <<adv, called, ros>>
      BY <1>0, <1>2 DEF ClearNext, TypeOK, ThreadsHold, Adverts
    <2>2. cleared' = cleared \/ cleared' = cleared \cup {adv[loop.b]}
      BY <1>2 DEF ClearNext
    <2>3. ASSUME cleared' # cleared PROVE \A c \in called[adv[loop.b]] : future[c] # "none"
      BY <1>0, <1>2, <2>1, <2>3 DEF ClearNext, PoppedAreCleared, Adverts
    <2>4. ASSUME NEW c \in Calls, future[c] # "none" PROVE future'[c] # "none"
      BY <1>0, <1>2, <2>4 DEF ClearNext, TypeOK
    <2> QED
      BY <1>1, <2>1, <2>2, <2>3, <2>4
  <1>3. CASE PopContext \/ FinishClose
    <2>1. /\ loop.b \in Bridges /\ adv' = [adv EXCEPT ![loop.b] = 0]
          /\ UNCHANGED <<called, cleared, future, ros>>
      BY <1>0, <1>3 DEF PopContext, FinishClose, ThreadsHold
    <2>2. adv[loop.b] \in cleared \cup {0}
      BY <1>0, <1>3 DEF PopContext, FinishClose, PoppedAreCleared
    <2> QED
      BY <1>0, <1>1, <2>1, <2>2 DEF TypeOK
  <1>4. CASE EnterContext
    <2>1. /\ loop.b \in Bridges /\ adv' = [adv EXCEPT ![loop.b] = adverts] /\ adv[loop.b] = 0
          /\ UNCHANGED <<called, cleared, future, ros>>
      BY <1>0, <1>4 DEF EnterContext, ThreadsHold, PoppedAreCleared
    <2> QED
      BY <1>0, <1>1, <2>1 DEF TypeOK
  <1>5. CASE \E b \in Bridges : \E c \in Calls, outcome \in {"result", "failed"} :
                OnServiceResponse(b, c, outcome)
    <2>1. UNCHANGED <<adv, called, cleared, ros>>
      BY <1>5 DEF OnServiceResponse
    <2>2. \A c \in Calls : future[c] # "none" => future'[c] # "none"
      BY <1>0, <1>5 DEF OnServiceResponse, TypeOK
    <2> QED
      BY <1>1, <2>1, <2>2
  <1>6. CASE UNCHANGED <<ctxVars, ros>>
    BY <1>1, <1>6 DEF ctxVars
  <1>7. CASE \/ \E b \in Bridges : OnUnadvertise(b) \/ OnClose(b) \/ Hangup(b)
             \/ add_srv_service \/ \E closing \in BOOLEAN : destroy_srv_service(closing)
             \/ UNCHANGED vars
    BY <1>6, <1>7 DEF OnUnadvertise, OnClose, Hangup, add_srv_service, destroy_srv_service, vars
  <1>8. CASE \E b \in Bridges : OnAdvertise(b)
    BY <1>1, <1>8 DEF OnAdvertise
  <1>9. CASE \E c \in Calls : TakeRequest(c)
    BY <1>9 DEF TakeRequest, RosIdle
  <1>10. CASE RosStep
    <2>0. UNCHANGED <<adv, cleared, future>>
      BY <1>0, <1>10, RosMoves
    <2>1. CASE SendCall
      <3>1. /\ ros.pc = "sending" /\ SameCall /\ ros'.ctx = ros.ctx
            /\ ros'.pc = "waiting" => (ros'.late <=> ros.ctx \in cleared)
            /\ ros'.pc \in {"waiting", "died_sending"}
        BY <1>0, <1>10, <2>1, RosMoves DEF SendCall
      <3>2. /\ ros.ctx \in Adverts /\ ros.ctx # 0
            /\ called' = [called EXCEPT ![ros.ctx] = @ \cup {ros.call}]
        BY <1>0, <2>1 DEF SendCall, ThreadsHold, Looked, Adverts
      <3> QED
        BY <1>0, <2>0, <3>1, <3>2 DEF SameCall, TypeOK
    <2>2. CASE ~SendCall
      <3>1. \/ ros'.pc \notin {"sending", "waiting"}
            \/ ros'.pc = "sending" /\ SameCall /\ ros'.ctx = adv[ros.owner]
        BY <1>0, <1>10, <2>2, RosMoves DEF LetGo, RosIdle
      <3> QED
        BY <2>0, <3>1 DEF SameCall
    <2> QED
      BY <2>1, <2>2
  <1> QED
    BY <1>2, <1>3, <1>4, <1>5, <1>7, <1>8, <1>9, <1>10 DEF Next, LoopStep

\* A call stays owed and pending only while its proxy waits.
LEMMA OwedStep == PInv /\ [Next]_vars => OwedAreWaiting'
  <1> SUFFICES ASSUME PInv, [Next]_vars PROVE OwedAreWaiting'
    OBVIOUS
  <1>0. TypeOK /\ ThreadsHold /\ OwedAreWaiting
    BY DEF PInv, SInv, TInv
  <1> USE DEF OwedAreWaiting
  <1>1. ASSUME UNCHANGED ros, \A b \in Bridges : owed'[b] \subseteq owed[b],
               \A c \in Calls : future[c] # "none" => future'[c] # "none"
        PROVE  OwedAreWaiting'
    BY <1>0, <1>1
  <1>2. CASE \E b \in Bridges : \/ OnAdvertise(b) \/ OnUnadvertise(b) \/ OnClose(b) \/ Hangup(b)
                                \/ \E c \in Calls, outcome \in {"result", "failed"} :
                                      OnServiceResponse(b, c, outcome)
    <2>1. UNCHANGED ros /\ \A b \in Bridges : owed'[b] \subseteq owed[b]
      BY <1>0, <1>2 DEF OnAdvertise, OnUnadvertise, OnClose, Hangup, OnServiceResponse, peerVars, TypeOK
    <2>2. \A c \in Calls : future[c] # "none" => future'[c] # "none"
      BY <1>0, <1>2 DEF OnAdvertise, OnUnadvertise, OnClose, Hangup, OnServiceResponse, ctxVars, TypeOK
    <2> QED
      BY <1>1, <2>1, <2>2
  <1>3. CASE LoopStep
    <2>1. UNCHANGED <<owed, ros>>
      BY <1>3 DEF LoopStep, add_srv_service, EnterContext, ClearNext, destroy_srv_service, PopContext,
                  FinishClose, peerVars
    <2>2. \A c \in Calls : future[c] # "none" => future'[c] # "none"
      BY <1>0, <1>3 DEF LoopStep, add_srv_service, EnterContext, ClearNext, destroy_srv_service, PopContext,
                  FinishClose, ctxVars, TypeOK
    <2> QED
      BY <1>1, <2>1, <2>2
  <1>4. CASE \E c \in Calls : TakeRequest(c)
    BY <1>0, <1>4 DEF TakeRequest, peerVars, ctxVars
  <1>5. CASE RosStep
    <2>1. CASE SendCall
      <3>1. /\ ros.pc = "sending" /\ SameCall /\ ros'.pc \in {"waiting", "died_sending"}
            /\ UNCHANGED future /\ ros.owner \in Bridges
        BY <1>0, <1>5, <2>1, RosMoves DEF SendCall, ThreadsHold, Looked, Talking
      <3>2. \/ UNCHANGED owed
            \/ ros'.pc = "waiting" /\ owed' = [owed EXCEPT ![ros.owner] = @ \cup {ros.call}]
        BY <1>0, <2>1 DEF SendCall, RosAt, TypeOK
      <3> QED
        BY <1>0, <3>1, <3>2 DEF SameCall, TypeOK
    <2>2. CASE ~SendCall
      <3>1. UNCHANGED <<future, owed>>
        BY <1>0, <1>5, <2>2, RosMoves
      <3>2. ros.pc # "waiting" \/ future[ros.call] # "none"
        BY <1>0, <1>5, <2>2, RosMoves
      <3> QED
        BY <1>0, <3>1, <3>2
    <2> QED
      BY <2>1, <2>2
  <1>6. CASE UNCHANGED vars
    BY <1>1, <1>6 DEF vars, peerVars, ctxVars
  <1> QED
    BY <1>2, <1>3, <1>4, <1>5, <1>6 DEF Next

-----------------------------------------------------------------------------
(***************************************************************************)
(* The theorems                                                             *)
(***************************************************************************)
LEMMA SafeAlways == Spec => []SInv
  <1>1. Init => SInv
    BY ServiceInit DEF PInv
  <1> QED
    BY <1>1, SafeStep, PTL DEF Spec

LEMMA PoliteAlways == ASSUME Polite PROVE Spec => []PInv
  <1>1. PInv /\ [Next]_vars => PInv'
    BY SafeStep, PoppedStep, HaveContextStep, OwedStep DEF PInv
  <1> QED
    BY <1>1, ServiceInit, PTL DEF Spec

\* The dictionaries, futures and threads of ros_ws_gateway.py only ever hold what
\* they are meant to hold, however handlers and proxy calls interleave.
THEOREM ServiceTypesHold == Spec => []TypeOK
  <1>1. SInv => TypeOK
    BY DEF SInv, TInv
  <1> QED
    BY <1>1, SafeAlways, PTL

\* ctx['called'] does not grow: while the ROS thread lives, the finally clause has
\* taken every finished call out of the current contexts, polite peers or not.
THEOREM ContextsKeepNoStaleCalls == Spec => []NoStaleCalls
  <1>1. SInv => NoStaleCalls
    BY DEF SInv
  <1> QED
    BY <1>1, SafeAlways, PTL

\* When peers advertise again only after withdrawing, a proxy call that was entered
\* in time is, as long as it waits, where unadvertise_service and close() fail it.
THEOREM WaitingStaysReachable == ASSUME Polite PROVE Spec => []WaitingIsReachable
  <1>1. PInv => WaitingIsReachable
    BY DEF PInv, CallsHaveContext
  <1> QED
    BY <1>1, PoliteAlways, PTL

\* Under the same condition service_response finds the call it answers, so that a
\* late answer does not end the connection.
THEOREM OwedStayKnown == ASSUME Polite PROVE Spec => []OwedAreKnown
  <1>1. PInv => OwedAreKnown
    <2> SUFFICES ASSUME PInv, NEW b \in Bridges, NEW c \in Calls,
                        adv[b] # 0, c \in owed[b], future[c] = "none", ~(ros.call = c /\ ros.late)
                 PROVE  c \in CalledOf(b)
      BY DEF OwedAreKnown
    <2>1. ros.pc = "waiting" /\ ros.call = c /\ ros.owner = b
      BY DEF PInv, OwedAreWaiting
    <2> QED
      BY <2>1 DEF PInv, CallsHaveContext, WaitingIsReachable
  <1> QED
    BY <1>1, PoliteAlways, PTL
=============================================================================
