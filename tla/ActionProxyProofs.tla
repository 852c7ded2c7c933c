-------------------------- MODULE ActionProxyProofs --------------------------
(***************************************************************************)
(* Proofs about ActionProxy, for any bridges, goals and advertisements.     *)
(*                                                                          *)
(* As for services, a context is followed from its number being drawn to    *)
(* its being popped.  Here many goals are under way, so what is known of    *)
(* them is said of each goal: what its handle and its future tell of each   *)
(* other, and where it is entered.                                          *)
(***************************************************************************)
EXTENDS ActionProxy, FiniteSetTheorems, TLAPS

Running == {"looking", "sending", "leaving", "deleting"}
Looked  == {"sending", "waiting", "leaving", "deleting"}
Before  == {"new", "accepted", "looking", "sending"}

Goal == [pc : {"new", "accepted", "looking", "sending", "waiting", "leaving", "deleting", "ended"},
         mgr : Adverts \cup {None}, owner : Bridges \cup {None}, ctx : 0..MaxAdverts,
         late : BOOLEAN, status : {"active", "succeeded", "aborted"},
         future : {"none", "result", "empty"}, reply : {"none", "result", "empty", "lost"}]

\* What the loop and a task hold while they are under way.
ThreadsHold ==
    /\ loop.pc # "idle" => loop.b \in Bridges
    /\ loop.pc \in {"clearing", "closing_clear"} => adv[loop.b] # 0
    /\ srv.mgr # None => srv.owner \in Bridges
    /\ \A g \in Goals :
        /\ goal[g].pc \in Running => ros = g
        /\ goal[g].pc # "new" => goal[g].mgr # None
        /\ goal[g].pc \in Looked \cup {"looking"} => goal[g].owner \in Bridges
        /\ goal[g].pc \in Looked => goal[g].ctx # 0

FiniteCalled == \A n \in Adverts : IsFiniteSet(called[n])

TInv == TypeOK /\ ThreadsHold /\ FiniteCalled

-----------------------------------------------------------------------------
(***************************************************************************)
(* What a step does to a goal                                               *)
(***************************************************************************)
OthersSame(g) == \A h \in Goals \ {g} : goal'[h] = goal[h]

\* All but its position and what it has been told.
SameGoal(g) == /\ goal'[g].mgr = goal[g].mgr /\ goal'[g].owner = goal[g].owner
               /\ goal'[g].ctx = goal[g].ctx /\ goal'[g].late = goal[g].late

Settled(g, status, value) ==
    /\ SameGoal(g) /\ goal'[g].pc = goal[g].pc /\ goal'[g].reply = goal[g].reply
    /\ goal'[g].status = IF Live(g) THEN status ELSE goal[g].status
    /\ goal'[g].future = value

Ended(g, value) ==
    /\ SameGoal(g) /\ goal'[g].pc = "ended" /\ goal'[g].future = goal[g].future
    /\ goal'[g].status = IF Live(g) /\ goal[g].status = "active" THEN "aborted"
                         ELSE goal[g].status
    /\ goal'[g].reply = IF Live(g) THEN value ELSE "lost"

MovedTo(g, pc) ==
    /\ SameGoal(g) /\ goal'[g].pc = pc /\ goal'[g].future = goal[g].future
    /\ goal'[g].status = goal[g].status /\ goal'[g].reply = goal[g].reply

Typed == goal' \in [Goals -> Goal]

\* The effect of Settle, field by field.
LEMMA SettleEffect ==
    ASSUME TypeOK, NEW g \in Goals, NEW status \in {"succeeded", "aborted"},
           NEW value \in {"result", "empty"}, Settle(g, status, value)
    PROVE  Typed /\ OthersSame(g) /\ Settled(g, status, value)
  <1> DEFINE s == IF Live(g) THEN status ELSE goal[g].status
             new == [goal[g] EXCEPT !.status = s, !.future = value]
  <1>1. goal \in [Goals -> Goal]
    BY DEF TypeOK, Goal
  <1>2. goal' = [goal EXCEPT ![g] = new]
    BY <1>1 DEF Settle
  <1>3. s \in {"active", "succeeded", "aborted"}
    BY <1>1 DEF Goal
  <1> HIDE DEF s
  <1>4. /\ new \in Goal /\ new.pc = goal[g].pc /\ new.mgr = goal[g].mgr
        /\ new.owner = goal[g].owner /\ new.ctx = goal[g].ctx /\ new.late = goal[g].late
        /\ new.reply = goal[g].reply /\ new.status = s /\ new.future = value
    <2>1. goal[g] \in Goal
      BY <1>1
    <2>2. new \in Goal
      BY <1>3, <2>1 DEF Goal
    <2> QED
      BY <2>1, <2>2 DEF Goal
  <1> HIDE DEF new
  <1>5. /\ goal'[g] = new /\ Typed /\ OthersSame(g)
    BY <1>1, <1>2, <1>4 DEF Typed, OthersSame
  <1> QED
    BY <1>4, <1>5 DEF Settled, SameGoal, s

\* The effect of End.
LEMMA EndEffect ==
    ASSUME TypeOK, NEW g \in Goals, NEW value \in {"none", "result", "empty"}, End(g, value)
    PROVE  Typed /\ OthersSame(g) /\ Ended(g, value) /\ ros' = None
  <1> DEFINE s == IF Live(g) /\ goal[g].status = "active" THEN "aborted" ELSE goal[g].status
             r == IF Live(g) THEN value ELSE "lost"
             new == [goal[g] EXCEPT !.pc = "ended", !.status = s, !.reply = r]
  <1>1. goal \in [Goals -> Goal]
    BY DEF TypeOK, Goal
  <1>2. goal' = [goal EXCEPT ![g] = new]
    BY <1>1 DEF End
  <1>3. s \in {"active", "succeeded", "aborted"} /\ r \in {"none", "result", "empty", "lost"}
    BY <1>1 DEF Goal
  <1> HIDE DEF s, r
  <1>4. /\ new \in Goal /\ new.pc = "ended" /\ new.mgr = goal[g].mgr
        /\ new.owner = goal[g].owner /\ new.ctx = goal[g].ctx /\ new.late = goal[g].late
        /\ new.reply = r /\ new.status = s /\ new.future = goal[g].future
    <2>1. goal[g] \in Goal
      BY <1>1
    <2>2. new \in Goal
      BY <1>3, <2>1 DEF Goal
    <2> QED
      BY <2>1, <2>2 DEF Goal
  <1> HIDE DEF new
  <1>5. /\ goal'[g] = new /\ Typed /\ OthersSame(g)
    BY <1>1, <1>2, <1>4 DEF Typed, OthersSame
  <1>6. ros' = None
    BY DEF End
  <1>7. SameGoal(g) /\ goal'[g].pc = "ended" /\ goal'[g].future = goal[g].future
    BY <1>4, <1>5 DEF SameGoal
  <1>8. goal'[g].status = s /\ goal'[g].reply = r
    BY <1>4, <1>5
  <1>9. Ended(g, value)
    BY <1>7, <1>8 DEF Ended, s, r
  <1> QED
    BY <1>5, <1>6, <1>9

\* The effect of RunTo.
LEMMA RunEffect ==
    ASSUME TypeOK, NEW g \in Goals, NEW pc \in {"leaving", "deleting"}, RunTo(g, pc)
    PROVE  Typed /\ OthersSame(g) /\ MovedTo(g, pc)
  BY DEF RunTo, TypeOK, Goal, Typed, OthersSame, MovedTo, SameGoal

-----------------------------------------------------------------------------
(***************************************************************************)
(* What a task does from one await to the next                              *)
(***************************************************************************)
Taken(g) ==
    /\ goal[g].pc = "accepted" /\ Live(g) /\ ros' = g
    /\ goal'[g].pc = "looking" /\ goal'[g].owner = srv.owner
    /\ goal'[g].mgr = goal[g].mgr /\ goal'[g].ctx = goal[g].ctx
    /\ goal'[g].late = goal[g].late /\ goal'[g].status = goal[g].status
    /\ goal'[g].future = goal[g].future /\ goal'[g].reply = goal[g].reply
    /\ UNCHANGED <<called, owed>>

Refused(g) ==
    /\ goal[g].pc \in {"accepted", "looking"} /\ Ended(g, "empty") /\ ros' = None
    /\ UNCHANGED <<called, owed>>

Found(g) ==
    /\ goal[g].pc = "looking" /\ ros = g /\ ros' = g
    /\ goal'[g].pc = "sending" /\ goal'[g].owner = goal[g].owner
    /\ goal'[g].ctx = adv[goal[g].owner] /\ adv[goal[g].owner] # 0
    /\ goal'[g].mgr = goal[g].mgr
    /\ goal'[g].late = goal[g].late /\ goal'[g].status = goal[g].status
    /\ goal'[g].future = goal[g].future /\ goal'[g].reply = goal[g].reply
    /\ UNCHANGED <<called, owed>>

Entered(g) ==
    /\ goal[g].pc = "sending" /\ ros' = None
    /\ called' = [called EXCEPT ![goal[g].ctx] = @ \cup {g}]

Sent(g) ==
    /\ Entered(g)
    /\ goal'[g].pc = "waiting" /\ goal'[g].owner = goal[g].owner
    /\ goal'[g].ctx = goal[g].ctx /\ goal'[g].mgr = goal[g].mgr
    /\ (goal'[g].late <=> goal[g].ctx \in cleared) /\ goal'[g].status = goal[g].status
    /\ goal'[g].future = goal[g].future /\ goal'[g].reply = goal[g].reply
    /\ \A b \in Bridges : owed'[b] \subseteq owed[b] \cup (IF b = goal[g].owner THEN {g} ELSE {})
    /\ owed' \in [Bridges -> SUBSET Goals]

Unsent(g) == Entered(g) /\ Ended(g, "empty") /\ UNCHANGED owed

Woken(g) ==
    /\ goal[g].pc = "waiting" /\ goal[g].future # "none"
    /\ MovedTo(g, "leaving") /\ ros' = g
    /\ UNCHANGED <<called, owed>>

Left(g) ==
    /\ goal[g].pc = "leaving" /\ adv[goal[g].owner] = 0
    /\ Ended(g, goal[g].future) /\ ros' = None
    /\ UNCHANGED <<called, owed>>

Tested(g) ==
    /\ goal[g].pc = "leaving" /\ adv[goal[g].owner] # 0 /\ ros = g
    /\ MovedTo(g, "deleting") /\ ros' = ros
    /\ UNCHANGED <<called, owed>>

Deleted(g) ==
    /\ goal[g].pc = "deleting" /\ g \in CalledOf(goal[g].owner)
    /\ called' = [called EXCEPT ![adv[goal[g].owner]] = @ \ {g}]
    /\ Ended(g, goal[g].future) /\ ros' = None
    /\ UNCHANGED owed

Missed(g) ==
    /\ goal[g].pc = "deleting" /\ g \notin CalledOf(goal[g].owner)
    /\ Ended(g, "empty") /\ ros' = None
    /\ UNCHANGED <<called, owed>>

Moves(g) == \/ Taken(g) \/ Refused(g) \/ Found(g) \/ Sent(g) \/ Unsent(g) \/ Woken(g)
            \/ Left(g) \/ Tested(g) \/ Deleted(g) \/ Missed(g)

\* A task is alone on the ROS thread, and moves as the operators above say.
LEMMA TaskMoves ==
    ASSUME TInv, NEW g \in Goals, TaskStep(g)
    PROVE  /\ UNCHANGED <<conn, adverts, adv, cleared, srv, loop>>
           /\ ros \in {None, g}
           /\ Typed /\ OthersSame(g) /\ Moves(g)
  <1> USE ActionAssumption DEF TInv
  <1>0. goal \in [Goals -> Goal] /\ TypeOK
    BY DEF TypeOK, Goal
  <1>1. CASE _inter_exec_callback(g)
    <2>1. UNCHANGED loopVars /\ ros = None /\ goal[g].pc = "accepted"
      BY <1>1 DEF _inter_exec_callback
    <2>2. CASE Live(g)
      <3>1. goal' = [goal EXCEPT ![g].pc = "looking", ![g].owner = srv.owner] /\ ros' = g
        BY <1>1, <2>2 DEF _inter_exec_callback
      <3> DEFINE new == [goal[g] EXCEPT !.pc = "looking", !.owner = srv.owner]
      <3>2. goal' = [goal EXCEPT ![g] = new]
        BY <1>0, <3>1
      <3>3. srv.owner \in Bridges \cup {None}
        BY <1>0 DEF TypeOK
      <3>4. /\ new \in Goal /\ new.pc = "looking" /\ new.owner = srv.owner
            /\ new.mgr = goal[g].mgr /\ new.ctx = goal[g].ctx /\ new.late = goal[g].late
            /\ new.status = goal[g].status /\ new.future = goal[g].future
            /\ new.reply = goal[g].reply
        <4>1. goal[g] \in Goal
          BY <1>0
        <4>2. new \in Goal
          BY <3>3, <4>1 DEF Goal
        <4> QED
          BY <4>1, <4>2 DEF Goal
      <3> HIDE DEF new
      <3>5. goal'[g] = new /\ Typed /\ OthersSame(g)
        BY <1>0, <3>2, <3>4 DEF Typed, OthersSame
      <3>6. Taken(g)
        BY <2>1, <2>2, <3>1, <3>4, <3>5 DEF Taken, loopVars, ctxVars
      <3> QED
        BY <2>1, <3>5, <3>6 DEF Moves, loopVars, ctxVars
    <2>3. CASE ~Live(g)
      <3>1. Typed /\ OthersSame(g) /\ Ended(g, "empty") /\ ros' = None
        BY <1>0, <1>1, <2>3, EndEffect DEF _inter_exec_callback
      <3> QED
        BY <2>1, <3>1 DEF Moves, Refused, loopVars, ctxVars
    <2> QED
      BY <2>2, <2>3
  <1>2. CASE LookUpContext(g)
    <2>1. UNCHANGED loopVars /\ ros = g /\ goal[g].pc = "looking" /\ goal[g].owner \in Bridges
      BY <1>2 DEF LookUpContext, ThreadsHold
    <2>2. CASE adv[goal[g].owner] = 0
      <3>1. Typed /\ OthersSame(g) /\ Ended(g, "empty") /\ ros' = None
        BY <1>0, <1>2, <2>2, EndEffect DEF LookUpContext
      <3> QED
        BY <2>1, <3>1 DEF Moves, Refused, loopVars, ctxVars
    <2>3. CASE adv[goal[g].owner] # 0
      <3>1. /\ goal' = [goal EXCEPT ![g].pc = "sending", ![g].ctx = adv[goal[g].owner]]
            /\ UNCHANGED ros
        BY <1>2, <2>3 DEF LookUpContext
      <3>2. adv[goal[g].owner] \in 0..MaxAdverts
        BY <1>0, <2>1 DEF TypeOK
      <3> DEFINE new == [goal[g] EXCEPT !.pc = "sending", !.ctx = adv[goal[g].owner]]
      <3>3. goal' = [goal EXCEPT ![g] = new] /\ goal[g] \in Goal
        BY <1>0, <3>1
      <3>4. new \in Goal
        BY <3>2, <3>3 DEF Goal
      <3>5. /\ new.pc = "sending" /\ new.ctx = adv[goal[g].owner]
            /\ new.owner = goal[g].owner /\ new.mgr = goal[g].mgr /\ new.late = goal[g].late
            /\ new.status = goal[g].status /\ new.future = goal[g].future
            /\ new.reply = goal[g].reply
        BY <3>3, <3>4 DEF Goal
      <3> HIDE DEF new
      <3>6. goal'[g] = new /\ Typed /\ OthersSame(g)
        BY <1>0, <3>3, <3>4 DEF Typed, OthersSame
      <3>7. Found(g)
        BY <2>1, <2>3, <3>1, <3>5, <3>6 DEF Found, loopVars, ctxVars
      <3> QED
        BY <2>1, <3>6, <3>7 DEF Moves, loopVars, ctxVars
    <2> QED
      BY <2>2, <2>3
  <1>3. CASE SendGoal(g)
    <2>1. /\ UNCHANGED <<conn, adverts, adv, cleared, srv, loop>>
          /\ ros = g /\ goal[g].pc = "sending" /\ goal[g].owner \in Bridges
          /\ called' = [called EXCEPT ![goal[g].ctx] = @ \cup {g}]
      BY <1>3 DEF SendGoal, ThreadsHold, Looked
    <2>2. CASE conn[goal[g].owner] # "open" /\ End(g, "empty") /\ UNCHANGED owed
      <3>1. Typed /\ OthersSame(g) /\ Ended(g, "empty") /\ ros' = None
        BY <1>0, <2>2, EndEffect
      <3> QED
        BY <2>1, <2>2, <3>1 DEF Moves, Unsent, Entered
    <2>3. CASE /\ owed' = IF conn[goal[g].owner] = "open"
                          THEN [owed EXCEPT ![goal[g].owner] = @ \cup {g}] ELSE owed
               /\ goal' = [goal EXCEPT ![g].pc = "waiting", ![g].late = goal[g].ctx \in cleared]
               /\ ros' = None
      <3> DEFINE late == goal[g].ctx \in cleared
                 new  == [goal[g] EXCEPT !.pc = "waiting", !.late = late]
      <3>1. goal' = [goal EXCEPT ![g].pc = "waiting", ![g].late = late]
        BY <2>3
      <3>2. late \in BOOLEAN
        OBVIOUS
      <3> HIDE DEF late
      <3>3. late \in BOOLEAN /\ goal' = [goal EXCEPT ![g] = new]
        BY <1>0, <3>1, <3>2
      <3>4. /\ owed' \in [Bridges -> SUBSET Goals]
            /\ \A b \in Bridges :
                  owed'[b] \subseteq owed[b] \cup (IF b = goal[g].owner THEN {g} ELSE {})
        BY <1>0, <2>1, <2>3 DEF TypeOK
      <3>5. /\ new \in Goal /\ new.pc = "waiting" /\ new.owner = goal[g].owner
            /\ new.ctx = goal[g].ctx /\ new.mgr = goal[g].mgr
            /\ new.late = late /\ new.status = goal[g].status
            /\ new.future = goal[g].future /\ new.reply = goal[g].reply
        <4>1. goal[g] \in Goal
          BY <1>0
        <4>2. new \in Goal
          BY <3>3, <4>1 DEF Goal
        <4> QED
          BY <4>1, <4>2 DEF Goal
      <3> HIDE DEF new
      <3>6. goal'[g] = new /\ Typed /\ OthersSame(g)
        BY <1>0, <3>3, <3>5 DEF Typed, OthersSame
      <3>7. goal'[g].late <=> goal[g].ctx \in cleared
        BY <3>5, <3>6 DEF late
      <3>8. Sent(g)
        BY <2>1, <2>3, <3>4, <3>5, <3>6, <3>7 DEF Sent, Entered
      <3> QED
        BY <2>1, <3>6, <3>8 DEF Moves
    <2> QED
      BY <1>3, <2>2, <2>3 DEF SendGoal
  <1>4. CASE Wake(g)
    <2>1. Typed /\ OthersSame(g) /\ MovedTo(g, "leaving")
      BY <1>0, <1>4, RunEffect DEF Wake
    <2> QED
      BY <1>4, <2>1 DEF Wake, Moves, Woken, loopVars, ctxVars
  <1>5. CASE LeaveContext(g)
    <2>1. UNCHANGED loopVars /\ ros = g /\ goal[g].pc = "leaving"
      BY <1>5 DEF LeaveContext
    <2>2. CASE adv[goal[g].owner] = 0
      <3>1. goal[g].future \in {"none", "result", "empty"}
        BY <1>0 DEF Goal
      <3>2. Typed /\ OthersSame(g) /\ Ended(g, goal[g].future) /\ ros' = None
        BY <1>0, <1>5, <2>2, <3>1, EndEffect DEF LeaveContext
      <3> QED
        BY <2>1, <2>2, <3>2 DEF Moves, Left, loopVars, ctxVars
    <2>3. CASE adv[goal[g].owner] # 0
      <3>1. Typed /\ OthersSame(g) /\ MovedTo(g, "deleting") /\ ros' = ros
        BY <1>0, <1>5, <2>3, RunEffect DEF LeaveContext
      <3> QED
        BY <2>1, <2>3, <3>1 DEF Moves, Tested, loopVars, ctxVars
    <2> QED
      BY <2>2, <2>3
  <1>6. CASE DeleteGoal(g)
    <2>1. /\ UNCHANGED <<conn, adverts, adv, cleared, owed, srv, loop>>
          /\ ros = g /\ goal[g].pc = "deleting"
      BY <1>6 DEF DeleteGoal
    <2>2. CASE g \in CalledOf(goal[g].owner)
      <3>1. goal[g].future \in {"none", "result", "empty"}
        BY <1>0 DEF Goal
      <3>2. Typed /\ OthersSame(g) /\ Ended(g, goal[g].future) /\ ros' = None
        BY <1>0, <1>6, <2>2, <3>1, EndEffect DEF DeleteGoal
      <3> QED
        BY <1>6, <2>1, <2>2, <3>2 DEF DeleteGoal, Moves, Deleted
    <2>3. CASE g \notin CalledOf(goal[g].owner)
      <3>1. Typed /\ OthersSame(g) /\ Ended(g, "empty") /\ ros' = None
        BY <1>0, <1>6, <2>3, EndEffect DEF DeleteGoal
      <3> QED
        BY <1>6, <2>1, <2>3, <3>1 DEF DeleteGoal, Moves, Missed
    <2> QED
      BY <2>2, <2>3
  <1> QED
    BY <1>1, <1>2, <1>3, <1>4, <1>5, <1>6 DEF TaskStep

-----------------------------------------------------------------------------
(***************************************************************************)
(* Types                                                                    *)
(***************************************************************************)
\* A task's step keeps the types, and what the threads hold.
LEMMA TaskTyped ==
    ASSUME TInv, NEW g \in Goals, TaskStep(g)
    PROVE  TInv'
  <1> USE ActionAssumption DEF TInv
  <1>1. /\ UNCHANGED <<conn, adverts, adv, cleared, srv, loop>>
        /\ ros \in {None, g}
        /\ Typed /\ OthersSame(g) /\ Moves(g)
    BY TaskMoves
  <1>2. goal[g] \in Goal /\ goal'[g] \in Goal
    BY <1>1 DEF TypeOK, Goal, Typed
  <1>3. \/ UNCHANGED called
        \/ goal[g].pc = "sending" /\ called' = [called EXCEPT ![goal[g].ctx] = @ \cup {g}]
        \/ /\ goal[g].pc = "deleting" /\ g \in CalledOf(goal[g].owner)
           /\ called' = [called EXCEPT ![adv[goal[g].owner]] = @ \ {g}]
    BY <1>1 DEF Moves, Taken, Refused, Found, Entered, Sent, Unsent, Woken, Left, Tested,
                Deleted, Missed
  <1>4. called' \in [Adverts -> SUBSET Goals] /\ FiniteCalled'
    <2>1. CASE UNCHANGED called
      BY <2>1 DEF TypeOK, FiniteCalled
    <2>2. CASE /\ goal[g].pc = "sending"
               /\ called' = [called EXCEPT ![goal[g].ctx] = @ \cup {g}]
      <3>1. called' \in [Adverts -> SUBSET Goals]
        BY <2>2 DEF TypeOK
      <3>2. ASSUME NEW n \in Adverts PROVE IsFiniteSet(called'[n])
        <4>1. called'[n] = called[n] \/ called'[n] = called[n] \cup {g}
          BY <2>2 DEF TypeOK
        <4>2. IsFiniteSet(called[n])
          BY DEF FiniteCalled
        <4>3. IsFiniteSet(called[n] \cup {g})
          BY <4>2, FS_AddElement
        <4> QED
          BY <4>1, <4>2, <4>3
      <3> QED
        BY <3>1, <3>2 DEF FiniteCalled
    <2>3. CASE /\ goal[g].pc = "deleting" /\ g \in CalledOf(goal[g].owner)
               /\ called' = [called EXCEPT ![adv[goal[g].owner]] = @ \ {g}]
      <3>1. called' \in [Adverts -> SUBSET Goals]
        BY <2>3 DEF TypeOK
      <3>2. ASSUME NEW n \in Adverts PROVE IsFiniteSet(called'[n])
        <4>1. called'[n] = called[n] \/ called'[n] = called[n] \ {g}
          BY <2>3 DEF TypeOK
        <4>2. IsFiniteSet(called[n])
          BY DEF FiniteCalled
        <4>3. IsFiniteSet(called[n] \ {g})
          BY <4>2, FS_RemoveElement
        <4> QED
          BY <4>1, <4>2, <4>3
      <3> QED
        BY <3>1, <3>2 DEF FiniteCalled
    <2> QED
      BY <1>3, <2>1, <2>2, <2>3
  <1>5. owed' \in [Bridges -> SUBSET Goals] /\ ros' \in {None, g}
    BY <1>1 DEF TypeOK, Moves, Taken, Refused, Found, Entered, Sent, Unsent, Woken, Left,
                Tested, Deleted, Missed
  <1>6. TypeOK'
    BY <1>1, <1>4, <1>5 DEF TypeOK, Typed, Goal
  <1>7. /\ goal'[g].pc \in Running => ros' = g
        /\ goal'[g].pc # "new" /\ goal'[g].mgr = goal[g].mgr /\ goal[g].pc # "new"
        /\ goal'[g].pc \in Looked \cup {"looking"} => goal'[g].owner \in Bridges
        /\ goal'[g].pc \in Looked => goal'[g].ctx # 0
    <2>1. CASE Taken(g)
      BY <1>1, <2>1 DEF Taken, ThreadsHold, TypeOK, Running, Looked, Live
    <2>2. CASE Refused(g) \/ Unsent(g) \/ Left(g) \/ Deleted(g) \/ Missed(g)
      BY <2>2 DEF Refused, Unsent, Entered, Left, Deleted, Missed, Ended, SameGoal, Running, Looked
    <2>3. CASE Found(g) \/ Sent(g)
      BY <2>3 DEF Found, Sent, Entered, ThreadsHold, Running, Looked
    <2>4. CASE Woken(g) \/ Tested(g)
      BY <2>4 DEF Woken, Tested, MovedTo, SameGoal, ThreadsHold, Running, Looked
    <2> QED
      BY <1>1, <2>1, <2>2, <2>3, <2>4 DEF Moves
  <1>8. ASSUME NEW h \in Goals
        PROVE  /\ goal'[h].pc \in Running => ros' = h
               /\ goal'[h].pc # "new" => goal'[h].mgr # None
               /\ goal'[h].pc \in Looked \cup {"looking"} => goal'[h].owner \in Bridges
               /\ goal'[h].pc \in Looked => goal'[h].ctx # 0
    <2>1. CASE h = g
      BY <1>7, <2>1 DEF ThreadsHold
    <2>2. CASE h # g
      <3>1. goal'[h] = goal[h]
        BY <1>1, <2>2 DEF OthersSame
      <3> QED
        BY <1>1, <2>2, <3>1 DEF ThreadsHold
    <2> QED
      BY <2>1, <2>2
  <1> QED
    BY <1>1, <1>4, <1>6, <1>8 DEF ThreadsHold

\* A server accepts a goal.
AcceptedNow(g) ==
    /\ goal[g].pc = "new" /\ srv.mgr # None
    /\ goal'[g].pc = "accepted" /\ goal'[g].mgr = srv.mgr
    /\ goal'[g].owner = goal[g].owner /\ goal'[g].ctx = goal[g].ctx
    /\ goal'[g].late = goal[g].late /\ goal'[g].status = goal[g].status
    /\ goal'[g].future = goal[g].future /\ goal'[g].reply = goal[g].reply

\* The effect of AcceptGoal.
LEMMA AcceptEffect ==
    ASSUME TInv, NEW g \in Goals, AcceptGoal(g)
    PROVE  Typed /\ OthersSame(g) /\ AcceptedNow(g)
  <1> DEFINE new == [goal[g] EXCEPT !.pc = "accepted", !.mgr = srv.mgr]
  <1>1. goal \in [Goals -> Goal]
    BY DEF TInv, TypeOK, Goal
  <1>2. goal' = [goal EXCEPT ![g] = new] /\ goal[g].pc = "new" /\ srv.mgr # None
    BY <1>1 DEF AcceptGoal
  <1>3. srv.mgr \in Adverts \cup {None}
    BY DEF TInv, TypeOK
  <1>4. goal[g] \in Goal
    BY <1>1
  <1>5. /\ new \in Goal /\ new.pc = "accepted" /\ new.mgr = srv.mgr
        /\ new.owner = goal[g].owner /\ new.ctx = goal[g].ctx /\ new.late = goal[g].late
        /\ new.status = goal[g].status /\ new.future = goal[g].future
        /\ new.reply = goal[g].reply
    <2>1. new \in Goal
      BY <1>3, <1>4 DEF Goal
    <2> QED
      BY <1>4, <2>1 DEF Goal
  <1> HIDE DEF new
  <1>6. goal'[g] = new /\ Typed /\ OthersSame(g)
    BY <1>1, <1>2, <1>5 DEF Typed, OthersSame
  <1> QED
    BY <1>2, <1>5, <1>6 DEF AcceptedNow

\* An accepted goal keeps the types.
LEMMA AcceptTyped ==
    ASSUME TInv, NEW g \in Goals, AcceptGoal(g)
    PROVE  TInv'
  <1>1. Typed /\ OthersSame(g) /\ AcceptedNow(g)
    BY AcceptEffect
  <1>2. UNCHANGED loopVars /\ UNCHANGED ros
    BY DEF AcceptGoal
  <1>3. TypeOK' /\ FiniteCalled'
    BY <1>1, <1>2 DEF TInv, TypeOK, Typed, Goal, FiniteCalled, loopVars, ctxVars
  <1>4. ASSUME NEW h \in Goals
        PROVE  /\ goal'[h].pc \in Running => ros' = h
               /\ goal'[h].pc # "new" => goal'[h].mgr # None
               /\ goal'[h].pc \in Looked \cup {"looking"} => goal'[h].owner \in Bridges
               /\ goal'[h].pc \in Looked => goal'[h].ctx # 0
    <2>1. CASE h = g
      BY <1>1, <2>1 DEF AcceptedNow, Running, Looked
    <2>2. CASE h # g
      BY <1>1, <1>2, <2>2 DEF OthersSame, TInv, ThreadsHold
    <2> QED
      BY <2>1, <2>2
  <1> QED
    BY <1>2, <1>3, <1>4 DEF TInv, ThreadsHold, loopVars, ctxVars

\* The steps of the asyncio loop, and a peer that hangs up.
LoopMoves == LoopStep \/ \E b \in Bridges :
                \/ OnAdvertise(b) \/ OnUnadvertise(b) \/ OnClose(b) \/ Hangup(b)
                \/ \E g \in Goals : \/ OnActionFeedback(b, g)
                                    \/ \E succeeded \in BOOLEAN : OnActionResult(b, g, succeeded)

\* What a step of the loop leaves to the tasks.
GoalsKept ==
    \/ UNCHANGED goal
    \/ \E g \in Goals : /\ Typed /\ OthersSame(g)
                        /\ SameGoal(g) /\ goal'[g].pc = goal[g].pc

\* A step of the loop moves no task: it settles one goal or none.
LEMMA LoopKeepsGoals ==
    ASSUME TInv, LoopMoves
    PROVE  GoalsKept /\ UNCHANGED <<called, ros>>
  <1> USE DEF TInv
  <1>1. CASE EnterContext \/ PopContext \/ \E closing \in BOOLEAN : destroy_action_server(closing)
    BY <1>1 DEF EnterContext, PopContext, destroy_action_server, GoalsKept, rosVars, ctxVars
  <1>2. ASSUME NEW closing \in BOOLEAN, ClearNext(closing)
        PROVE  GoalsKept /\ UNCHANGED <<called, ros>>
    <2>1. UNCHANGED <<called, ros>>
      BY <1>2 DEF ClearNext
    <2>2. \/ UNCHANGED goal
          \/ \E g \in CalledOf(loop.b) : Settle(g, "aborted", "empty")
      BY <1>2 DEF ClearNext
    <2>3. CASE UNCHANGED goal
      BY <2>1, <2>3 DEF GoalsKept
    <2>4. ASSUME NEW g \in CalledOf(loop.b), Settle(g, "aborted", "empty")
          PROVE  GoalsKept
      <3>1. g \in Goals
        BY <1>2, <2>4 DEF CalledOf, TypeOK, ThreadsHold, ClearNext, Adverts
      <3> QED
        BY <2>4, <3>1, SettleEffect DEF GoalsKept, Settled
    <2> QED
      BY <2>1, <2>2, <2>3, <2>4
  <1>3. ASSUME NEW b \in Bridges, NEW g \in Goals, NEW succeeded \in BOOLEAN,
               OnActionResult(b, g, succeeded)
        PROVE  GoalsKept /\ UNCHANGED <<called, ros>>
    <2>1. UNCHANGED <<called, ros>>
      BY <1>3 DEF OnActionResult, ctxVars
    <2>2. \/ UNCHANGED goal
          \/ Settle(g, "succeeded", "result") \/ Settle(g, "aborted", "empty")
      BY <1>3 DEF OnActionResult
    <2> QED
      BY <2>1, <2>2, SettleEffect DEF GoalsKept, Settled
  <1>4. ASSUME NEW b \in Bridges,
               \/ OnAdvertise(b) \/ OnUnadvertise(b) \/ OnClose(b) \/ Hangup(b)
               \/ \E g \in Goals : OnActionFeedback(b, g)
        PROVE  GoalsKept /\ UNCHANGED <<called, ros>>
    BY <1>4 DEF OnAdvertise, OnUnadvertise, OnClose, Hangup, OnActionFeedback, GoalsKept,
                rosVars, ctxVars
  <1> QED
    BY <1>1, <1>2, <1>3, <1>4 DEF LoopMoves, LoopStep

\* A step of the loop keeps the types, and what the threads hold.
LEMMA LoopTyped ==
    ASSUME TInv, LoopMoves
    PROVE  TInv'
  <1> USE ActionAssumption DEF TInv
  <1>1. GoalsKept /\ UNCHANGED <<called, ros>>
    BY LoopKeepsGoals
  <1> DEFINE Rest ==
        /\ conn' \in [Bridges -> {"open", "closing", "closed", "leaked"}]
        /\ adverts' \in 0..MaxAdverts
        /\ adv' \in [Bridges -> 0..MaxAdverts]
        /\ cleared' \subseteq Adverts
        /\ owed' \in [Bridges -> SUBSET Goals]
        /\ srv' \in [mgr : Adverts \cup {None}, owner : Bridges \cup {None}]
        /\ loop' \in [pc : {"idle", "entering", "clearing", "popping", "destroying",
                            "closing_clear", "closing_destroy"},
                      b : Bridges \cup {None}, visited : SUBSET Goals, used : Nat]
        /\ loop'.pc # "idle" => loop'.b \in Bridges
        /\ loop'.pc \in {"clearing", "closing_clear"} => adv'[loop'.b] # 0
        /\ srv'.mgr # None => srv'.owner \in Bridges
  <1>2. Rest
    <2>1. CASE EnterContext
      BY <2>1 DEF EnterContext, TypeOK, ThreadsHold, Idle
    <2>2. CASE PopContext
      BY <2>2 DEF PopContext, TypeOK, ThreadsHold, LoopAt
    <2>3. ASSUME NEW closing \in BOOLEAN, destroy_action_server(closing) PROVE Rest
      BY <2>3 DEF destroy_action_server, TypeOK, ThreadsHold, Idle, NoServer, ctxVars
    <2>4. ASSUME NEW closing \in BOOLEAN, ClearNext(closing) PROVE Rest
      <3>1. /\ UNCHANGED <<adverts, adv, called, owed, srv>>
            /\ loop.b \in Bridges /\ adv[loop.b] \in Adverts
        BY <2>4 DEF ClearNext, ThreadsHold, TypeOK, Adverts
      <3>2. CASE Raise(closing) /\ UNCHANGED cleared
        BY <3>1, <3>2 DEF Raise, Idle, TypeOK, ThreadsHold
      <3>3. ASSUME NEW g \in CalledOf(loop.b),
                   loop' = [loop EXCEPT !.visited = @ \cup {g}], UNCHANGED <<conn, cleared>>
            PROVE  Rest
        <4>1. g \in Goals
          BY <3>1 DEF CalledOf, TypeOK
        <4> QED
          BY <3>1, <3>3, <4>1 DEF TypeOK, ThreadsHold
      <3>4. CASE /\ cleared' = cleared \cup {adv[loop.b]} /\ UNCHANGED conn
                 /\ loop' = LoopAt(IF closing THEN "closing_destroy" ELSE "popping")
        BY <3>1, <3>4 DEF LoopAt, TypeOK, ThreadsHold
      <3> QED
        BY <2>4, <3>2, <3>3, <3>4 DEF ClearNext
    <2>5. ASSUME NEW b \in Bridges, OnAdvertise(b) PROVE Rest
      <3>1. adverts' = adverts + 1 /\ adverts' \in Adverts
        BY <2>5 DEF OnAdvertise, TypeOK, Adverts
      <3>2. /\ srv'.mgr \in Adverts \cup {None} /\ srv'.owner = b
            /\ srv' \in [mgr : Adverts \cup {None}, owner : Bridges \cup {None}]
        BY <2>5, <3>1 DEF OnAdvertise, TypeOK
      <3>3. /\ loop'.pc = "entering" /\ loop'.b = b
            /\ loop' \in [pc : {"idle", "entering", "clearing", "popping", "destroying",
                                "closing_clear", "closing_destroy"},
                          b : Bridges \cup {None}, visited : SUBSET Goals, used : Nat]
        BY <2>5 DEF OnAdvertise, Idle
      <3> QED
        BY <2>5, <3>1, <3>2, <3>3 DEF OnAdvertise, TypeOK, Adverts
    <2>6. ASSUME NEW b \in Bridges, OnUnadvertise(b) \/ OnClose(b) PROVE Rest
      <3>1. IsFiniteSet(CalledOf(b))
        BY FS_EmptySet DEF CalledOf, FiniteCalled, TypeOK, Adverts
      <3>2. Cardinality(CalledOf(b)) \in Nat
        BY <3>1, FS_CardinalityType
      <3> QED
        BY <2>6, <3>2 DEF OnUnadvertise, OnClose, StartClearing, TypeOK, ThreadsHold, ctxVars
    <2>7. ASSUME NEW b \in Bridges, NEW g \in Goals, NEW succeeded \in BOOLEAN,
                 OnActionResult(b, g, succeeded)
          PROVE  Rest
      <3>1. /\ owed' \in [Bridges -> SUBSET Goals]
            /\ conn' \in [Bridges -> {"open", "closing", "closed", "leaked"}]
            /\ UNCHANGED <<adverts, adv, cleared, srv, loop>>
        BY <2>7 DEF OnActionResult, TypeOK, ctxVars
      <3> QED
        BY <3>1 DEF TypeOK, ThreadsHold
    <2>8. ASSUME NEW b \in Bridges, Hangup(b) \/ \E g \in Goals : OnActionFeedback(b, g)
          PROVE  Rest
      <3>1. /\ conn' \in [Bridges -> {"open", "closing", "closed", "leaked"}]
            /\ UNCHANGED <<adverts, adv, cleared, owed, srv, loop>>
        BY <2>8 DEF Hangup, OnActionFeedback, TypeOK, ctxVars
      <3> QED
        BY <3>1 DEF TypeOK, ThreadsHold
    <2> HIDE DEF Rest
    <2> QED
      BY <2>1, <2>2, <2>3, <2>4, <2>5, <2>6, <2>7, <2>8 DEF LoopMoves, LoopStep
  <1>3. TypeOK' /\ FiniteCalled'
    BY <1>1, <1>2 DEF TypeOK, FiniteCalled, GoalsKept, Typed, Goal
  <1>4. ASSUME NEW h \in Goals
        PROVE  /\ goal'[h].pc = goal[h].pc /\ goal'[h].mgr = goal[h].mgr
               /\ goal'[h].owner = goal[h].owner /\ goal'[h].ctx = goal[h].ctx
    BY <1>1 DEF GoalsKept, OthersSame, SameGoal
  <1> QED
    BY <1>1, <1>2, <1>3, <1>4 DEF ThreadsHold

\* A step is the loop's or a goal's.
LEMMA NextMoves ==
    ASSUME Next
    PROVE  LoopMoves \/ \E g \in Goals : AcceptGoal(g) \/ TaskStep(g)
  BY DEF Next, LoopMoves

\* The types hold at first ...
LEMMA InitTyped == Init => TInv
  BY FS_EmptySet, ActionAssumption
     DEF Init, TInv, TypeOK, ThreadsHold, FiniteCalled, NewGoal, NoServer, Idle, Running,
         Looked, Adverts

\* ... and always, with what each thread holds while it is under way.
LEMMA TypeInductive ==
    Spec => []TInv
  <1>1. Init => TInv
    BY InitTyped
  <1>2. TInv /\ [Next]_vars => TInv'
    <2>1. ASSUME TInv, UNCHANGED vars PROVE TInv'
      BY <2>1 DEF TInv, TypeOK, ThreadsHold, FiniteCalled, vars, loopVars, rosVars, ctxVars
    <2> QED
      BY <2>1, NextMoves, LoopTyped, AcceptTyped, TaskTyped
  <1> QED
    BY <1>1, <1>2, PTL DEF Spec

\* The variables keep their types: contexts, managers, goals and what the loop
\* and the ROS thread hold while they are under way.
THEOREM ActionTypesHold == Spec => []TypeOK
  <1>1. TInv => TypeOK
    BY DEF TInv
  <1> QED
    BY <1>1, TypeInductive, PTL
-----------------------------------------------------------------------------
(***************************************************************************)
(* The invariant: contexts, handles, entries, debts                         *)
(***************************************************************************)
\* The last advertisement whose context has been entered.
LastEntered == IF loop.pc = "entering" THEN adverts - 1 ELSE adverts

Clearing == {"clearing", "closing_clear"}
Closing  == {"closing_clear", "closing_destroy"}

\* A context is one bridge's, and is cleared before it is popped.
ContextInv ==
    /\ \A b \in Bridges : adv[b] <= LastEntered
    /\ \A b, c \in Bridges : adv[b] = adv[c] /\ adv[b] # 0 => b = c
    /\ \A n \in cleared : n <= LastEntered
    /\ loop.pc = "entering" => adverts # 0 /\ adv[loop.b] = 0
    /\ loop.pc \in Clearing \cup {"popping"} => adv[loop.b] # 0
    /\ loop.pc \in Closing => conn[loop.b] # "open"
    /\ loop.pc = "popping" => adv[loop.b] \in cleared
    /\ srv.mgr # None => srv.mgr <= adverts

\* A goal is entered into its own context only, once it has been sent.
CalledInv ==
    \A n \in Adverts : \A g \in called[n] : goal[g].ctx = n /\ goal[g].pc \notin Before

\* A goal's position, its handle and its future agree while its server lives,
\* and a server that has gone never lives again.
HandleInv(g) ==
    /\ goal[g].pc # "new" => goal[g].mgr <= adverts
    /\ goal[g].ctx <= LastEntered
    /\ goal[g].pc \in {"new", "accepted", "looking"} => goal[g].ctx = 0
    /\ goal[g].ctx # 0 => \A b \in Bridges : adv[b] = goal[g].ctx => b = goal[g].owner
    /\ goal[g].pc \in Before => goal[g].status = "active" /\ goal[g].future = "none"
    /\ goal[g].pc \in {"leaving", "deleting"} => goal[g].future # "none"
    /\ Live(g) /\ goal[g].pc # "ended" =>
          /\ goal[g].future = "none" <=> goal[g].status = "active"
          /\ goal[g].future = "result" <=> goal[g].status = "succeeded"
    /\ Live(g) /\ goal[g].pc = "ended" => goal[g].status # "active"
    /\ goal[g].pc = "ended" /\ goal[g].reply # "lost" =>
          (goal[g].status = "succeeded" <=> goal[g].reply = "result")

\* A goal that waits, or that has succeeded and has not left yet, is where the
\* loop and the task look for it; what has been cleared has been told.
EntryInv(g) ==
    /\ goal[g].pc = "sending" => adv[goal[g].owner] = goal[g].ctx \/ goal[g].ctx \in cleared
    /\ goal[g].pc = "waiting" /\ goal[g].future = "none" =>
          /\ ~goal[g].late => adv[goal[g].owner] = goal[g].ctx /\ g \in called[goal[g].ctx]
          /\ goal[g].ctx \in cleared => goal[g].late
    /\ Live(g) /\ goal[g].status = "succeeded" /\ goal[g].pc # "ended" =>
          adv[goal[g].owner] = goal[g].ctx /\ g \in called[goal[g].ctx]
    /\ loop.pc \in Clearing /\ g \in loop.visited =>
          goal[g].future # "none" /\ (Live(g) => goal[g].status # "succeeded")
    /\ loop.pc = "popping" /\ g \in called[adv[loop.b]] =>
          (Live(g) => goal[g].status # "succeeded")

\* What the peer owes for a current context still waits for it.
OwedInv(g) ==
    \A b \in Bridges : g \in owed[b] =>
        /\ goal[g].owner = b /\ goal[g].pc \notin Before /\ goal[g].ctx # 0
        /\ adv[b] = goal[g].ctx /\ conn[b] = "open"
           /\ ~(loop.b = b /\ loop.pc \in {"clearing", "popping"}) =>
              /\ goal[g].pc = "waiting" /\ goal[g].future = "none"
              /\ g \in called[goal[g].ctx]

GoalInv(g) == HandleInv(g) /\ EntryInv(g) /\ OwedInv(g)

IInv == TInv /\ ContextInv /\ CalledInv /\ \A g \in Goals : GoalInv(g)

-----------------------------------------------------------------------------
(***************************************************************************)
(* The steps of a task                                                      *)
(***************************************************************************)
\* A goal that another one's task does not touch.
LEMMA OthersKept ==
    ASSUME TInv, ContextInv, NEW h \in Goals, goal'[h] = goal[h],
           UNCHANGED <<conn, adverts, adv, cleared, srv, loop>>,
           \A n \in Adverts : h \in called'[n] <=> h \in called[n],
           \A b \in Bridges : h \in owed'[b] => h \in owed[b],
           GoalInv(h)
    PROVE  GoalInv(h)'
  <1>1. goal[h] \in Goal
    BY DEF TInv, TypeOK, Goal
  <1>2. goal[h].pc \in Looked => goal[h].ctx \in Adverts
    BY <1>1 DEF TInv, ThreadsHold, Goal, Adverts
  <1>3. Live(h)' <=> Live(h)
    BY DEF Live
  <1>4. HandleInv(h)'
    BY <1>3 DEF GoalInv, HandleInv, LastEntered
  <1>5. goal[h].status = "succeeded" /\ goal[h].pc # "ended" => goal[h].pc \in Looked
    BY <1>1 DEF GoalInv, HandleInv, Before, Looked, Goal
  <1>6. loop.pc = "popping" => adv[loop.b] \in Adverts
    BY DEF TInv, TypeOK, ThreadsHold, ContextInv, Adverts
  <1>7. EntryInv(h)'
    BY <1>2, <1>3, <1>5, <1>6 DEF GoalInv, EntryInv, Looked
  <1>8. OwedInv(h)'
    BY <1>2 DEF GoalInv, OwedInv, Looked
  <1> QED
    BY <1>4, <1>7, <1>8 DEF GoalInv

\* What is known of a task's goal before its step.
LEMMA TaskFacts ==
    ASSUME IInv, NEW g \in Goals, TaskStep(g)
    PROVE  /\ UNCHANGED <<conn, adverts, adv, cleared, srv, loop>>
           /\ ros \in {None, g} /\ OthersSame(g) /\ Moves(g)
           /\ goal[g] \in Goal /\ goal'[g] \in Goal
           /\ goal[g].pc \in Looked => goal[g].ctx \in Adverts
           /\ goal[g].pc \in Looked \cup {"looking"} => goal[g].owner \in Bridges
           /\ HandleInv(g) /\ EntryInv(g) /\ OwedInv(g)
           /\ \A n \in Adverts :
                 g \in called[n] => goal[g].ctx = n /\ goal[g].pc \notin Before
  <1>1. TInv
    BY DEF IInv
  <1>2. /\ UNCHANGED <<conn, adverts, adv, cleared, srv, loop>>
        /\ ros \in {None, g} /\ Typed /\ OthersSame(g) /\ Moves(g)
    BY <1>1, TaskMoves
  <1>3. goal[g] \in Goal /\ goal'[g] \in Goal
    BY <1>1, <1>2 DEF TInv, TypeOK, Goal, Typed
  <1>4. goal[g].pc \in Looked => goal[g].ctx \in Adverts
    BY <1>1, <1>3 DEF TInv, ThreadsHold, Goal, Adverts
  <1> QED
    BY <1>1, <1>2, <1>3, <1>4 DEF IInv, TInv, ThreadsHold, GoalInv, CalledInv

\* The handle and the future of a goal whose task moves still agree.
LEMMA TaskHandle ==
    ASSUME IInv, NEW g \in Goals, TaskStep(g)
    PROVE  HandleInv(g)'
  <1>1. /\ UNCHANGED <<conn, adverts, adv, cleared, srv, loop>> /\ Moves(g)
        /\ goal[g] \in Goal
        /\ goal[g].pc \in Looked \cup {"looking"} => goal[g].owner \in Bridges
        /\ HandleInv(g) /\ EntryInv(g)
    BY TaskFacts
  <1>2. LastEntered' = LastEntered
    BY <1>1 DEF LastEntered
  <1>3. \A n \in Adverts : g \in called[n] => goal[g].ctx = n /\ goal[g].pc \notin Before
    BY TaskFacts
  <1> USE DEF HandleInv, Live, Before
  <1>4. CASE Taken(g)
    BY <1>1, <1>2, <1>4 DEF Taken
  <1>5. CASE Refused(g)
    BY <1>1, <1>2, <1>5 DEF Refused, Ended, SameGoal
  <1>6. CASE Found(g)
    <2>1. /\ goal[g].owner \in Bridges /\ adv[goal[g].owner] <= LastEntered
          /\ \A b \in Bridges : adv[b] = adv[goal[g].owner] => b = goal[g].owner
      BY <1>1, <1>6 DEF Found, IInv, ContextInv
    <2> QED
      BY <1>1, <1>2, <1>6, <2>1 DEF Found
  <1>7. CASE Sent(g)
    BY <1>1, <1>2, <1>7 DEF Sent, Entered
  <1>8. CASE Unsent(g)
    BY <1>1, <1>2, <1>8 DEF Unsent, Entered, Ended, SameGoal
  <1>9. CASE Woken(g) \/ Tested(g)
    BY <1>1, <1>2, <1>9 DEF Woken, Tested, MovedTo, SameGoal
  <1>10. CASE Left(g) \/ Deleted(g)
    BY <1>1, <1>2, <1>10 DEF Left, Deleted, Ended, SameGoal, Goal
  <1>11. CASE Missed(g)
    <2>1. ~(Live(g) /\ goal[g].status = "succeeded")
      <3>1. SUFFICES ASSUME Live(g), goal[g].status = "succeeded" PROVE FALSE
        OBVIOUS
      <3>2. /\ adv[goal[g].owner] = goal[g].ctx /\ g \in called[goal[g].ctx]
            /\ goal[g].ctx \in Adverts
        BY <1>1, <1>11, <3>1, TaskFacts DEF Missed, EntryInv, Looked
      <3> QED
        BY <1>11, <3>2 DEF Missed, CalledOf, Adverts
    <2>2. /\ SameGoal(g) /\ goal'[g].pc = "ended" /\ goal[g].pc = "deleting"
          /\ Live(g)' <=> Live(g)
          /\ Live(g) => goal'[g].status # "active" /\ goal'[g].status # "succeeded"
          /\ goal'[g].reply # "lost" => Live(g) /\ goal'[g].reply = "empty"
      BY <1>1, <1>11, <2>1 DEF Missed, Ended, SameGoal, Goal
    <2> QED
      BY <1>1, <1>2, <2>2 DEF SameGoal
  <1> QED
    BY <1>1, <1>4, <1>5, <1>6, <1>7, <1>8, <1>9, <1>10, <1>11 DEF Moves

\* ... it is still entered where it is looked for ...
LEMMA TaskEntry ==
    ASSUME IInv, NEW g \in Goals, TaskStep(g)
    PROVE  EntryInv(g)'
  <1>1. /\ UNCHANGED <<conn, adverts, adv, cleared, srv, loop>> /\ Moves(g)
        /\ goal[g] \in Goal
        /\ goal[g].pc \in Looked => goal[g].ctx \in Adverts
        /\ HandleInv(g) /\ EntryInv(g)
    BY TaskFacts
  <1>2. \A n \in Adverts : g \in called[n] => goal[g].ctx = n /\ goal[g].pc \notin Before
    BY TaskFacts
  <1>3. called \in [Adverts -> SUBSET Goals]
    BY DEF IInv, TInv, TypeOK
  <1>4. loop.pc = "popping" => adv[loop.b] \in Adverts
    BY DEF IInv, TInv, TypeOK, ThreadsHold, ContextInv, Adverts
  <1>5. goal[g].pc \in Before => goal[g].status = "active" /\ goal[g].future = "none"
    BY <1>1 DEF HandleInv
  <1> USE DEF EntryInv, Live, Before
  <1>6. CASE Taken(g) \/ Found(g)
    BY <1>1, <1>5, <1>6 DEF Taken, Found
  <1>7. CASE Refused(g)
    BY <1>1, <1>5, <1>7 DEF Refused, Ended, SameGoal
  <1>8. CASE Sent(g)
    <2>1. g \in called'[goal[g].ctx]
      BY <1>1, <1>3, <1>8 DEF Sent, Entered, Looked
    <2> QED
      BY <1>1, <1>5, <1>8, <2>1 DEF Sent, Entered
  <1>9. CASE Unsent(g)
    BY <1>1, <1>5, <1>9 DEF Unsent, Entered, Ended, SameGoal
  <1>10. CASE Woken(g) \/ Tested(g)
    BY <1>1, <1>10 DEF Woken, Tested, MovedTo, SameGoal, Looked
  <1>11. CASE Left(g) \/ Deleted(g) \/ Missed(g)
    <2>1. /\ SameGoal(g) /\ goal'[g].pc = "ended" /\ goal'[g].future = goal[g].future
          /\ goal'[g].status = "succeeded" => goal[g].status = "succeeded"
      BY <1>11 DEF Left, Deleted, Missed, Ended
    <2>2. \A n \in Adverts : g \in called'[n] => g \in called[n]
      BY <1>3, <1>11 DEF Left, Deleted, Missed
    <2> QED
      BY <1>1, <1>4, <2>1, <2>2 DEF SameGoal
  <1> QED
    BY <1>1, <1>6, <1>7, <1>8, <1>9, <1>10, <1>11 DEF Moves

\* ... and the peer still owes an answer only to a goal that waits.
LEMMA TaskOwed ==
    ASSUME IInv, NEW g \in Goals, TaskStep(g)
    PROVE  OwedInv(g)'
  <1>1. /\ UNCHANGED <<conn, adverts, adv, cleared, srv, loop>> /\ Moves(g)
        /\ goal[g] \in Goal
        /\ goal[g].pc \in Looked => goal[g].ctx \in Adverts
        /\ HandleInv(g) /\ OwedInv(g)
    BY TaskFacts
  <1>2. called \in [Adverts -> SUBSET Goals]
    BY DEF IInv, TInv, TypeOK
  <1> USE DEF OwedInv, Before
  <1>3. CASE Taken(g) \/ Found(g)
    BY <1>1, <1>3 DEF Taken, Found
  <1>4. CASE Refused(g)
    BY <1>1, <1>4 DEF Refused
  <1>5. CASE Sent(g)
    <2>1. g \in called'[goal[g].ctx] /\ goal[g].future = "none"
      BY <1>1, <1>2, <1>5 DEF Sent, Entered, Looked, HandleInv
    <2>2. \A b \in Bridges : g \in owed'[b] => b = goal[g].owner
      BY <1>1, <1>5 DEF Sent, Entered
    <2> QED
      BY <1>1, <1>5, <2>1, <2>2 DEF Sent, Entered, Looked, Adverts
  <1>6. CASE Unsent(g)
    BY <1>1, <1>6 DEF Unsent, Entered
  <1>7. CASE Woken(g) \/ Tested(g)
    BY <1>1, <1>7 DEF Woken, Tested, MovedTo, SameGoal
  <1>8. CASE Left(g) \/ Deleted(g) \/ Missed(g)
    <2>1. /\ goal[g].pc \in {"leaving", "deleting"} /\ UNCHANGED owed
          /\ SameGoal(g) /\ goal'[g].pc = "ended"
      BY <1>8 DEF Left, Deleted, Missed, Ended
    <2> QED
      BY <1>1, <2>1 DEF SameGoal
  <1> QED
    BY <1>1, <1>3, <1>4, <1>5, <1>6, <1>7, <1>8 DEF Moves

\* A task's step keeps the invariant.
LEMMA TaskKeeps ==
    ASSUME IInv, NEW g \in Goals, TaskStep(g)
    PROVE  IInv'
  <1>1. /\ UNCHANGED <<conn, adverts, adv, cleared, srv, loop>>
        /\ OthersSame(g) /\ Moves(g)
        /\ goal[g].pc \in Looked => goal[g].ctx \in Adverts
        /\ goal[g].pc \in Looked \cup {"looking"} => goal[g].owner \in Bridges
    BY TaskFacts
  <1>2. TInv' /\ TInv
    BY TaskTyped DEF IInv
  <1>3. ContextInv' /\ ContextInv
    BY <1>1 DEF IInv, ContextInv, LastEntered
  <1>4. called \in [Adverts -> SUBSET Goals]
    BY <1>2 DEF TInv, TypeOK
  <1>5. \A n \in Adverts : g \in called[n] => goal[g].ctx = n /\ goal[g].pc \notin Before
    BY TaskFacts
  <1>6. /\ \A n \in Adverts : g \in called'[n] =>
              \/ g \in called[n]
              \/ goal[g].pc = "sending" /\ goal[g].ctx = n
        /\ \A n \in Adverts : \A h \in Goals \ {g} : h \in called'[n] <=> h \in called[n]
        /\ \A b \in Bridges : \A h \in Goals \ {g} : h \in owed'[b] => h \in owed[b]
    BY <1>1, <1>4 DEF Moves, Taken, Refused, Found, Entered, Sent, Unsent, Woken, Left, Tested,
                      Deleted, Missed
  <1>7. /\ goal[g].pc \notin Before \/ goal[g].pc = "sending" =>
             goal'[g].pc \notin Before /\ goal'[g].ctx = goal[g].ctx
    BY <1>1 DEF Moves, Taken, Refused, Found, Entered, Sent, Unsent, Woken, Left, Tested,
                Deleted, Missed, Ended, MovedTo, SameGoal, Before
  <1>8. CalledInv'
    <2> SUFFICES ASSUME NEW n \in Adverts, NEW h \in called'[n]
                 PROVE  goal'[h].ctx = n /\ goal'[h].pc \notin Before
      BY DEF CalledInv
    <2>1. CASE h = g
      BY <1>5, <1>6, <1>7, <2>1
    <2>2. CASE h # g
      <3>1. h \in Goals
        BY <1>2 DEF TInv, TypeOK
      <3>2. goal'[h] = goal[h] /\ h \in called[n]
        BY <1>1, <1>6, <2>2, <3>1 DEF OthersSame
      <3> QED
        BY <3>2 DEF IInv, CalledInv
    <2> QED
      BY <2>1, <2>2
  <1>9. GoalInv(g)'
    BY TaskHandle, TaskEntry, TaskOwed DEF GoalInv
  <1>10. ASSUME NEW h \in Goals \ {g} PROVE GoalInv(h)'
    <2>1. goal'[h] = goal[h] /\ GoalInv(h)
      BY <1>1 DEF OthersSame, IInv
    <2> QED
      BY <1>1, <1>2, <1>3, <1>6, <2>1, OthersKept
  <1>11. \A h \in Goals : GoalInv(h)'
    BY <1>9, <1>10
  <1> QED
    BY <1>2, <1>3, <1>8, <1>11 DEF IInv

\* A goal that is accepted: its server lives.
LEMMA AcceptKeeps ==
    ASSUME IInv, NEW g \in Goals, AcceptGoal(g)
    PROVE  IInv'
  <1>1. TInv /\ TInv'
    BY AcceptTyped DEF IInv
  <1>2. OthersSame(g) /\ AcceptedNow(g)
    BY <1>1, AcceptEffect
  <1>3. UNCHANGED <<conn, adverts, adv, called, cleared, owed, srv, loop, ros>>
    BY DEF AcceptGoal, loopVars, ctxVars
  <1>4. ContextInv' /\ ContextInv
    BY <1>3 DEF IInv, ContextInv, LastEntered
  <1>5. goal[g].pc = "new" /\ HandleInv(g) /\ EntryInv(g) /\ OwedInv(g)
    BY <1>2 DEF IInv, GoalInv, AcceptedNow
  <1>6. \A n \in Adverts : g \notin called[n]
    BY <1>5 DEF IInv, CalledInv, Before
  <1>7. CalledInv'
    <2> SUFFICES ASSUME NEW n \in Adverts, NEW h \in called[n]
                 PROVE  goal'[h].ctx = n /\ goal'[h].pc \notin Before
      BY <1>3 DEF CalledInv
    <2>1. h \in Goals /\ h # g
      BY <1>1, <1>6 DEF TInv, TypeOK
    <2> QED
      BY <1>2, <2>1 DEF OthersSame, IInv, CalledInv
  <1>8. HandleInv(g)'
    BY <1>2, <1>3, <1>4, <1>5 DEF HandleInv, ContextInv, AcceptedNow, LastEntered, Before
  <1>9. EntryInv(g)' /\ OwedInv(g)'
    BY <1>2, <1>3, <1>5 DEF HandleInv, EntryInv, OwedInv, AcceptedNow, Before
  <1>10. ASSUME NEW h \in Goals \ {g} PROVE GoalInv(h)'
    <2>1. goal'[h] = goal[h] /\ GoalInv(h)
      BY <1>2 DEF OthersSame, IInv
    <2> QED
      BY <1>1, <1>3, <1>4, <2>1, OthersKept
  <1>11. \A h \in Goals : GoalInv(h)'
    BY <1>8, <1>9, <1>10 DEF GoalInv
  <1> QED
    BY <1>1, <1>4, <1>7, <1>11 DEF IInv

-----------------------------------------------------------------------------
(***************************************************************************)
(* The steps of the loop                                                    *)
(***************************************************************************)
\* What the invariant says of one goal.
LEMMA GoalFacts ==
    ASSUME IInv, NEW h \in Goals
    PROVE  /\ goal[h] \in Goal
           /\ goal[h].pc \in Looked => goal[h].ctx \in Adverts
           /\ goal[h].pc \in Looked => goal[h].owner \in Bridges
           /\ goal[h].pc # "new" => goal[h].mgr # None
           /\ HandleInv(h) /\ EntryInv(h) /\ OwedInv(h)
           /\ \A n \in Adverts :
                 h \in called[n] => goal[h].ctx = n /\ goal[h].pc \notin Before
  BY DEF IInv, TInv, TypeOK, ThreadsHold, GoalInv, CalledInv, Goal, Adverts

\* What the invariant says of the loop and the contexts.
LEMMA LoopFacts ==
    ASSUME IInv
    PROVE  /\ TInv /\ ContextInv
           /\ adverts \in 0..MaxAdverts /\ adv \in [Bridges -> 0..MaxAdverts]
           /\ called \in [Adverts -> SUBSET Goals]
           /\ conn \in [Bridges -> {"open", "closing", "closed", "leaked"}]
           /\ loop.pc # "idle" => loop.b \in Bridges
           /\ loop.pc \in Clearing \cup {"popping"} => adv[loop.b] \in Adverts
  BY DEF IInv, TInv, TypeOK, ThreadsHold, ContextInv, Adverts, Clearing

\* A step that leaves the goals alone.
LEMMA LoopKeeps ==
    ASSUME IInv, LoopMoves, UNCHANGED goal, ContextInv',
           \A h \in Goals : HandleInv(h)' /\ EntryInv(h)' /\ OwedInv(h)'
    PROVE  IInv'
  <1>1. TInv' /\ UNCHANGED called
    BY LoopTyped, LoopKeepsGoals DEF IInv
  <1>2. CalledInv'
    BY <1>1 DEF IInv, CalledInv
  <1> QED
    BY <1>1, <1>2 DEF IInv, GoalInv

\* A new number is above every context, and a new manager above every goal's.
LEMMA AdvertiseKeeps ==
    ASSUME Polite, IInv, NEW b \in Bridges, OnAdvertise(b)
    PROVE  IInv'
  <1> USE ActionAssumption
  <1>1. /\ loop.pc = "idle" /\ adv[b] = 0 /\ adverts' = adverts + 1
        /\ srv'.mgr = (IF srv.mgr = None THEN adverts' ELSE srv.mgr)
        /\ loop'.pc = "entering" /\ loop'.b = b
        /\ UNCHANGED <<conn, adv, called, cleared, owed, goal, ros>>
    BY DEF OnAdvertise, Idle, rosVars
  <1>2. adverts \in Nat /\ ContextInv
    BY LoopFacts
  <1>3. LastEntered = adverts /\ LastEntered' = adverts
    BY <1>1, <1>2 DEF LastEntered
  <1>4. ContextInv'
    <2>1. /\ \A c \in Bridges : adv[c] \in Nat
          /\ \A n \in cleared : n \in Nat
          /\ srv.mgr # None => srv.mgr \in Nat
      BY LoopFacts DEF TInv, TypeOK, Adverts
    <2> QED
      BY <1>1, <1>2, <1>3, <2>1 DEF ContextInv, Clearing, Closing
  <1>5. ASSUME NEW h \in Goals
        PROVE  HandleInv(h)' /\ EntryInv(h)' /\ OwedInv(h)'
    <2>1. /\ goal[h] \in Goal /\ HandleInv(h) /\ EntryInv(h) /\ OwedInv(h)
          /\ goal[h].pc # "new" => goal[h].mgr # None
      BY GoalFacts
    <2>2. goal[h].pc # "new" => goal[h].mgr \in Nat /\ goal[h].mgr <= adverts
      BY <2>1 DEF Goal, Adverts, HandleInv
    <2>3. goal[h].pc # "new" /\ Live(h)' => Live(h)
      BY <1>1, <1>2, <2>2 DEF Live
    <2>4. HandleInv(h)'
      BY <1>1, <1>2, <1>3, <2>1, <2>2, <2>3 DEF HandleInv, Before
    <2>5. EntryInv(h)' /\ OwedInv(h)'
      BY <1>1, <2>1, <2>3 DEF HandleInv, EntryInv, OwedInv, Clearing, Before
    <2> QED
      BY <2>4, <2>5
  <1>6. LoopMoves
    BY DEF LoopMoves
  <1> QED
    BY <1>1, <1>4, <1>5, <1>6, LoopKeeps

\* The context that is entered is new to every goal.
LEMMA EnterKeeps ==
    ASSUME IInv, EnterContext
    PROVE  IInv'
  <1> USE ActionAssumption
  <1>1. /\ loop.pc = "entering" /\ adv' = [adv EXCEPT ![loop.b] = adverts]
        /\ loop'.pc = "idle" /\ loop'.b = None
        /\ UNCHANGED <<conn, adverts, called, cleared, owed, srv, goal, ros>>
    BY DEF EnterContext, Idle, rosVars
  <1>2. /\ adverts \in Nat /\ ContextInv /\ loop.b \in Bridges
        /\ adv \in [Bridges -> 0..MaxAdverts] /\ adverts # 0 /\ adv[loop.b] = 0
    BY <1>1, LoopFacts DEF ContextInv
  <1>3. LastEntered = adverts - 1 /\ LastEntered' = adverts
    BY <1>1, <1>2 DEF LastEntered
  <1>4. \A c \in Bridges : adv'[c] = IF c = loop.b THEN adverts ELSE adv[c]
    BY <1>1, <1>2
  <1>5. /\ \A c \in Bridges : adv[c] \in Nat /\ adv[c] <= adverts - 1
        /\ \A n \in cleared : n \in Nat /\ n <= adverts - 1
    BY <1>2, <1>3, LoopFacts DEF ContextInv, TInv, TypeOK, Adverts
  <1>6. ContextInv'
    BY <1>1, <1>2, <1>3, <1>4, <1>5 DEF ContextInv, Clearing, Closing
  <1>7. ASSUME NEW h \in Goals
        PROVE  HandleInv(h)' /\ EntryInv(h)' /\ OwedInv(h)'
    <2>1. /\ goal[h] \in Goal /\ HandleInv(h) /\ EntryInv(h) /\ OwedInv(h)
          /\ goal[h].pc \in Looked => goal[h].ctx \in Adverts /\ goal[h].owner \in Bridges
      BY GoalFacts
    <2>2. /\ Live(h)' <=> Live(h)
          /\ goal[h].ctx \in Nat /\ goal[h].ctx <= adverts - 1
          /\ goal[h].pc # "new" => goal[h].mgr <= adverts
      BY <1>1, <1>3, <2>1 DEF Live, HandleInv, Goal
    <2>3. HandleInv(h)'
      BY <1>1, <1>2, <1>3, <1>4, <2>1, <2>2 DEF HandleInv
    <2>4. goal[h].status = "succeeded" /\ goal[h].pc # "ended" => goal[h].pc \in Looked
      BY <2>1 DEF HandleInv, Before, Looked, Goal
    <2>5. /\ goal[h].pc \in Looked /\ adv[goal[h].owner] = goal[h].ctx =>
                adv'[goal[h].owner] = goal[h].ctx
          /\ goal[h].pc \in Looked /\ adv[goal[h].owner] # goal[h].ctx =>
                adv'[goal[h].owner] # goal[h].ctx
      BY <1>2, <1>4, <2>1, <2>2 DEF Adverts
    <2>6. EntryInv(h)'
      BY <1>1, <2>1, <2>2, <2>4, <2>5 DEF EntryInv, Clearing, Looked
    <2>7. OwedInv(h)'
      BY <1>1, <1>2, <1>4, <2>1, <2>2 DEF OwedInv
    <2> QED
      BY <2>3, <2>6, <2>7
  <1>8. LoopMoves
    BY DEF LoopMoves, LoopStep
  <1> QED
    BY <1>1, <1>6, <1>7, <1>8, LoopKeeps

\* The context that is popped has been cleared.
LEMMA PopKeeps ==
    ASSUME IInv, PopContext
    PROVE  IInv'
  <1> USE ActionAssumption
  <1>1. /\ loop.pc = "popping" /\ adv' = [adv EXCEPT ![loop.b] = 0]
        /\ loop'.pc = "destroying" /\ loop'.b = loop.b
        /\ UNCHANGED <<conn, adverts, called, cleared, owed, srv, goal, ros>>
    BY LoopFacts DEF PopContext, LoopAt, rosVars, TInv, TypeOK
  <1>2. /\ adverts \in Nat /\ ContextInv /\ loop.b \in Bridges
        /\ adv \in [Bridges -> 0..MaxAdverts] /\ adv[loop.b] \in cleared
    BY <1>1, LoopFacts DEF ContextInv
  <1>3. LastEntered = adverts /\ LastEntered' = adverts
    BY <1>1 DEF LastEntered
  <1>4. \A c \in Bridges : adv'[c] = IF c = loop.b THEN 0 ELSE adv[c]
    BY <1>1, <1>2
  <1>5. ContextInv'
    BY <1>1, <1>2, <1>3, <1>4 DEF ContextInv, Clearing, Closing
  <1>6. ASSUME NEW h \in Goals
        PROVE  HandleInv(h)' /\ EntryInv(h)' /\ OwedInv(h)'
    <2>1. /\ goal[h] \in Goal /\ HandleInv(h) /\ EntryInv(h) /\ OwedInv(h)
          /\ goal[h].pc \in Looked => goal[h].ctx \in Adverts
          /\ goal[h].pc \in Looked => goal[h].owner \in Bridges
      BY GoalFacts
    <2>2. Live(h)' <=> Live(h)
      BY <1>1 DEF Live
    <2>3. HandleInv(h)'
      BY <1>1, <1>3, <1>4, <2>1, <2>2 DEF HandleInv
    <2>4. goal[h].status = "succeeded" /\ goal[h].pc # "ended" => goal[h].pc \in Looked
      BY <2>1 DEF HandleInv, Before, Looked, Goal
    <2>5. goal[h].pc = "sending" =>
             adv'[goal[h].owner] = goal[h].ctx \/ goal[h].ctx \in cleared
      BY <1>2, <1>4, <2>1 DEF EntryInv, Looked
    <2>6. goal[h].pc = "waiting" /\ goal[h].future = "none" /\ ~goal[h].late =>
             adv'[goal[h].owner] = goal[h].ctx /\ h \in called[goal[h].ctx]
      BY <1>2, <1>4, <2>1 DEF EntryInv, Looked
    <2>7. Live(h) /\ goal[h].status = "succeeded" /\ goal[h].pc # "ended" =>
             adv'[goal[h].owner] = goal[h].ctx /\ h \in called[goal[h].ctx]
      BY <1>1, <1>2, <1>4, <2>1, <2>4 DEF EntryInv
    <2>8. EntryInv(h)'
      BY <1>1, <2>1, <2>2, <2>5, <2>6, <2>7 DEF EntryInv, Clearing
    <2>9. OwedInv(h)'
      BY <1>1, <1>2, <1>4, <2>1 DEF OwedInv
    <2> QED
      BY <2>3, <2>8, <2>9
  <1>7. LoopMoves
    BY DEF LoopMoves, LoopStep
  <1> QED
    BY <1>1, <1>5, <1>6, <1>7, LoopKeeps

\* With the server of the name all its goals die.
LEMMA DestroyKeeps ==
    ASSUME IInv, NEW closing \in BOOLEAN, destroy_action_server(closing)
    PROVE  IInv'
  <1> USE ActionAssumption
  <1>1. /\ loop.pc \in {"destroying", "closing_destroy"} /\ loop.b \in Bridges
        /\ srv'.mgr = None /\ loop'.pc = "idle" /\ loop'.b = None
        /\ UNCHANGED <<adverts, adv, called, cleared, owed, goal, ros>>
        /\ \A c \in Bridges : conn'[c] = "open" => conn[c] = "open"
    BY LoopFacts DEF destroy_action_server, Idle, NoServer, ctxVars, rosVars
  <1>2. ContextInv /\ LastEntered' = LastEntered
    BY <1>1, LoopFacts DEF LastEntered
  <1>3. ContextInv'
    BY <1>1, <1>2 DEF ContextInv, Clearing, Closing
  <1>4. ASSUME NEW h \in Goals
        PROVE  HandleInv(h)' /\ EntryInv(h)' /\ OwedInv(h)'
    <2>1. /\ goal[h] \in Goal /\ HandleInv(h) /\ EntryInv(h) /\ OwedInv(h)
          /\ goal[h].pc # "new" => goal[h].mgr # None
      BY GoalFacts
    <2>2. Live(h)' => goal[h].pc = "new"
      BY <1>1, <2>1 DEF Live
    <2>3. HandleInv(h)'
      BY <1>1, <1>2, <2>1, <2>2 DEF HandleInv, Before
    <2>4. EntryInv(h)' /\ OwedInv(h)'
      BY <1>1, <2>1, <2>2 DEF HandleInv, EntryInv, OwedInv, Clearing, Before
    <2> QED
      BY <2>3, <2>4
  <1>5. LoopMoves
    BY DEF LoopMoves, LoopStep
  <1> QED
    BY <1>1, <1>3, <1>4, <1>5, LoopKeeps

\* The start of a clearing.
LEMMA StartKeeps ==
    ASSUME IInv, NEW b \in Bridges, OnUnadvertise(b) \/ OnClose(b)
    PROVE  IInv'
  <1> USE ActionAssumption
  <1>1. /\ loop.pc = "idle"
        /\ UNCHANGED <<adverts, adv, called, cleared, owed, srv, goal, ros>>
        /\ \A c \in Bridges : conn'[c] = "open" => conn[c] = "open"
        /\ \/ UNCHANGED loop
           \/ loop'.pc = "clearing" /\ loop'.b = b /\ loop'.visited = {} /\ adv[b] # 0
           \/ /\ loop'.pc = "closing_clear" /\ loop'.b = b /\ loop'.visited = {} /\ adv[b] # 0
              /\ conn[b] = "closing"
    BY LoopFacts DEF OnUnadvertise, OnClose, StartClearing, ctxVars, rosVars
  <1>2. ContextInv /\ LastEntered' = LastEntered
    BY <1>1, LoopFacts DEF LastEntered
  <1>3. ContextInv'
    BY <1>1, <1>2 DEF ContextInv, Clearing, Closing
  <1>4. ASSUME NEW h \in Goals
        PROVE  HandleInv(h)' /\ EntryInv(h)' /\ OwedInv(h)'
    <2>1. /\ goal[h] \in Goal /\ HandleInv(h) /\ EntryInv(h) /\ OwedInv(h)
          /\ Live(h)' <=> Live(h)
      BY <1>1, GoalFacts DEF Live
    <2>2. HandleInv(h)'
      BY <1>1, <1>2, <2>1 DEF HandleInv
    <2>3. EntryInv(h)'
      BY <1>1, <2>1 DEF EntryInv, Clearing
    <2>4. OwedInv(h)'
      BY <1>1, <2>1 DEF OwedInv
    <2> QED
      BY <2>2, <2>3, <2>4
  <1>5. LoopMoves
    BY DEF LoopMoves
  <1> QED
    BY <1>1, <1>3, <1>4, <1>5, LoopKeeps

\* A connection that goes down, and answers that may be forgotten.
LEMMA DownKeeps ==
    ASSUME IInv, LoopMoves,
           UNCHANGED <<adverts, adv, called, cleared, srv, loop, goal>>,
           \A c \in Bridges : conn'[c] = "open" => conn[c] = "open",
           \A c \in Bridges : owed'[c] \subseteq owed[c]
    PROVE  IInv'
  <1>1. ContextInv /\ LastEntered' = LastEntered
    BY LoopFacts DEF LastEntered
  <1>2. ContextInv'
    BY <1>1, LoopFacts DEF ContextInv, Closing
  <1>3. ASSUME NEW h \in Goals
        PROVE  HandleInv(h)' /\ EntryInv(h)' /\ OwedInv(h)'
    <2>1. /\ goal[h] \in Goal /\ HandleInv(h) /\ EntryInv(h) /\ OwedInv(h)
          /\ Live(h)' <=> Live(h)
      BY GoalFacts DEF Live
    <2>2. HandleInv(h)'
      BY <1>1, <2>1 DEF HandleInv
    <2>3. EntryInv(h)'
      BY <2>1 DEF EntryInv
    <2>4. OwedInv(h)'
      BY <2>1 DEF OwedInv
    <2> QED
      BY <2>2, <2>3, <2>4
  <1> QED
    BY <1>2, <1>3, LoopKeeps

\* A goal that is settled by the loop, with its terminal status and its future.
LEMMA SettledHandle ==
    ASSUME IInv, NEW g \in Goals, NEW status, NEW value,
           \/ status = "succeeded" /\ value = "result"
           \/ status = "aborted" /\ value = "empty",
           Settled(g, status, value), ~SettleRaises(g), goal[g].pc \notin Before,
           UNCHANGED <<srv, adverts, adv>>, LastEntered' = LastEntered
    PROVE  HandleInv(g)'
  <1>1. goal[g] \in Goal /\ HandleInv(g)
    BY GoalFacts
  <1>2. Live(g)' <=> Live(g)
    BY DEF Live, Settled, SameGoal
  <1>3. goal[g].pc = "ended" => ~Live(g)
    BY <1>1 DEF HandleInv, SettleRaises
  <1> QED
    BY <1>1, <1>2, <1>3 DEF HandleInv, Settled, SameGoal

\* One step of _clear_act_pending_task.
LEMMA ClearKeeps ==
    ASSUME IInv, NEW closing \in BOOLEAN, ClearNext(closing)
    PROVE  IInv'
  <1> USE ActionAssumption
  <1>1. /\ loop.pc = (IF closing THEN "closing_clear" ELSE "clearing")
        /\ loop.pc \in Clearing /\ loop.b \in Bridges /\ adv[loop.b] \in Adverts
        /\ UNCHANGED <<adverts, adv, called, owed, srv, ros>>
    BY LoopFacts DEF ClearNext, Clearing
  <1>2. CalledOf(loop.b) = called[adv[loop.b]]
    BY <1>1 DEF CalledOf, Adverts
  <1>3. LoopMoves
    BY DEF LoopMoves, LoopStep
  <1>4. TInv' /\ TInv /\ ContextInv
    BY <1>3, LoopTyped, LoopFacts DEF IInv
  <1>5. CASE Raise(closing) /\ UNCHANGED <<cleared, goal>>
    <2>1. /\ loop'.pc = "idle" /\ loop'.b = None
          /\ \A c \in Bridges : conn'[c] = "open" => conn[c] = "open" /\ c # loop.b
      BY <1>1, <1>5, LoopFacts DEF Raise, Idle
    <2>2. LastEntered' = LastEntered
      BY <1>1, <2>1 DEF LastEntered, Clearing
    <2>3. ContextInv'
      BY <1>1, <1>4, <1>5, <2>1, <2>2 DEF ContextInv, Clearing, Closing
    <2>4. ASSUME NEW h \in Goals
          PROVE  HandleInv(h)' /\ EntryInv(h)' /\ OwedInv(h)'
      <3>1. /\ HandleInv(h) /\ EntryInv(h) /\ OwedInv(h)
            /\ Live(h)' <=> Live(h)
        BY <1>1, <1>5, GoalFacts DEF Live
      <3>2. HandleInv(h)'
        BY <1>1, <1>5, <2>2, <3>1 DEF HandleInv
      <3>3. EntryInv(h)' /\ OwedInv(h)'
        BY <1>1, <1>5, <2>1, <3>1 DEF EntryInv, OwedInv, Clearing
      <3> QED
        BY <3>2, <3>3
    <2> QED
      BY <1>3, <1>5, <2>3, <2>4, LoopKeeps
  <1>6. ASSUME NEW g \in CalledOf(loop.b), ~SettleRaises(g), Settle(g, "aborted", "empty"),
               loop' = [loop EXCEPT !.visited = @ \cup {g}], UNCHANGED <<conn, cleared>>
        PROVE  IInv'
    <2>1. g \in Goals /\ goal[g].ctx = adv[loop.b] /\ goal[g].pc \notin Before
      BY <1>1, <1>2, LoopFacts DEF IInv, CalledInv
    <2>2. OthersSame(g) /\ Settled(g, "aborted", "empty")
      BY <1>4, <1>6, <2>1, SettleEffect DEF TInv
    <2>3. loop'.pc = loop.pc /\ loop'.b = loop.b /\ loop'.visited = loop.visited \cup {g}
      BY <1>4, <1>6 DEF TInv, TypeOK
    <2>4. LastEntered' = LastEntered
      BY <1>1, <2>3 DEF LastEntered
    <2>5. ContextInv'
      BY <1>1, <1>4, <1>6, <2>3, <2>4 DEF ContextInv
    <2>6. CalledInv'
      <3> SUFFICES ASSUME NEW n \in Adverts, NEW h \in called[n]
                   PROVE  goal'[h].ctx = n /\ goal'[h].pc \notin Before
        BY <1>1 DEF CalledInv
      <3>1. h \in Goals
        BY LoopFacts
      <3>2. goal'[h].ctx = goal[h].ctx /\ goal'[h].pc = goal[h].pc
        BY <2>2, <3>1 DEF OthersSame, Settled, SameGoal
      <3> QED
        BY <3>2 DEF IInv, CalledInv
    <2>7. HandleInv(g)'
      BY <1>1, <1>6, <2>1, <2>2, <2>4, SettledHandle
    <2>8. /\ HandleInv(g) /\ EntryInv(g) /\ OwedInv(g)
          /\ Live(g)' <=> Live(g)
      BY <1>1, <2>1, <2>2, GoalFacts DEF Live, Settled, SameGoal
    <2>9. EntryInv(g)'
      BY <1>1, <1>6, <2>1, <2>2, <2>3, <2>8 DEF EntryInv, Settled, SameGoal, Clearing, Before
    <2>10. OwedInv(g)'
      <3> SUFFICES ASSUME NEW b \in Bridges, g \in owed[b]
                   PROVE  /\ goal[g].owner = b /\ goal[g].pc \notin Before /\ goal[g].ctx # 0
                          /\ ~(/\ adv[b] = goal[g].ctx /\ conn[b] = "open"
                               /\ ~(loop.b = b /\ loop.pc \in {"clearing", "popping"}))
        BY <1>1, <1>6, <2>2, <2>3 DEF OwedInv, Settled, SameGoal
      <3>1. adv[b] = goal[g].ctx => b = loop.b
        BY <1>1, <1>4, <2>1 DEF ContextInv, Adverts
      <3>2. loop.pc # "clearing" => conn[loop.b] # "open"
        BY <1>1, <1>4 DEF ContextInv, Closing, Clearing
      <3> QED
        BY <2>8, <3>1, <3>2 DEF OwedInv
    <2>11. ASSUME NEW h \in Goals \ {g} PROVE GoalInv(h)'
      <3>1. goal'[h] = goal[h] /\ HandleInv(h) /\ EntryInv(h) /\ OwedInv(h)
        BY <2>2, GoalFacts DEF OthersSame
      <3>2. Live(h)' <=> Live(h)
        BY <1>1, <3>1 DEF Live
      <3>3. HandleInv(h)'
        BY <1>1, <2>4, <3>1, <3>2 DEF HandleInv
      <3>4. EntryInv(h)'
        BY <1>1, <1>6, <2>3, <3>1, <3>2 DEF EntryInv, Clearing
      <3>5. OwedInv(h)'
        BY <1>1, <1>6, <2>3, <3>1 DEF OwedInv
      <3> QED
        BY <3>3, <3>4, <3>5 DEF GoalInv
    <2>12. \A h \in Goals : GoalInv(h)'
      BY <2>7, <2>9, <2>10, <2>11 DEF GoalInv
    <2> QED
      BY <1>4, <2>5, <2>6, <2>12 DEF IInv
  <1>7. CASE /\ CalledOf(loop.b) \ loop.visited = {}
             /\ cleared' = cleared \cup {adv[loop.b]}
             /\ loop' = LoopAt(IF closing THEN "closing_destroy" ELSE "popping")
             /\ UNCHANGED <<conn, goal>>
    <2>1. /\ loop'.pc = (IF closing THEN "closing_destroy" ELSE "popping") /\ loop'.b = loop.b
      BY <1>4, <1>7 DEF LoopAt, TInv, TypeOK
    <2>2. LastEntered' = LastEntered
      BY <1>1, <2>1 DEF LastEntered, Clearing
    <2>3. ContextInv'
      BY <1>1, <1>4, <1>7, <2>1, <2>2 DEF ContextInv, Clearing, Closing, Adverts
    <2>4. ASSUME NEW h \in Goals
          PROVE  HandleInv(h)' /\ EntryInv(h)' /\ OwedInv(h)'
      <3>1. /\ HandleInv(h) /\ EntryInv(h) /\ OwedInv(h)
            /\ Live(h)' <=> Live(h)
        BY <1>1, <1>7, GoalFacts DEF Live
      <3>2. HandleInv(h)'
        BY <1>1, <1>7, <2>2, <3>1 DEF HandleInv
      <3>3. h \in called[adv[loop.b]] =>
               goal[h].future # "none" /\ (Live(h) => goal[h].status # "succeeded")
        BY <1>1, <1>2, <1>7, <3>1 DEF EntryInv
      <3>4. EntryInv(h)'
        BY <1>1, <1>7, <2>1, <3>1, <3>3 DEF EntryInv, Clearing
      <3>5. OwedInv(h)'
        BY <1>1, <1>4, <1>7, <2>1, <3>1 DEF OwedInv, ContextInv, Closing
      <3> QED
        BY <3>2, <3>4, <3>5
    <2> QED
      BY <1>1, <1>3, <1>7, <2>3, <2>4, LoopKeeps
  <1> QED
    BY <1>5, <1>6, <1>7 DEF ClearNext

\* An answer settles the goal it names, or ends the connection.
LEMMA ResultKeeps ==
    ASSUME IInv, NEW b \in Bridges, NEW g \in Goals, NEW succeeded \in BOOLEAN,
           OnActionResult(b, g, succeeded)
    PROVE  IInv'
  <1> USE ActionAssumption
  <1>1. /\ loop.pc = "idle"
        /\ UNCHANGED <<adverts, adv, called, cleared, srv, loop, ros>>
        /\ \A c \in Bridges : conn'[c] = "open" => conn[c] = "open"
        /\ \A c \in Bridges : owed'[c] = IF c = b THEN owed[c] \ {g} ELSE owed[c]
    BY DEF OnActionResult, IInv, TInv, TypeOK, ctxVars
  <1>2. LoopMoves
    BY DEF LoopMoves
  <1>3. TInv' /\ TInv /\ ContextInv
    BY <1>2, LoopTyped, LoopFacts DEF IInv
  <1>4. CASE UNCHANGED goal
    <2>1. \A c \in Bridges : owed'[c] \subseteq owed[c]
      BY <1>1
    <2> QED
      BY <1>1, <1>2, <1>4, <2>1, DownKeeps
  <1>5. ASSUME NEW status, NEW value,
               \/ status = "succeeded" /\ value = "result"
               \/ status = "aborted" /\ value = "empty",
               Settle(g, status, value), g \in CalledOf(b), ~SettleRaises(g), UNCHANGED conn
        PROVE  IInv'
    <2>1. adv[b] \in Adverts /\ g \in called[adv[b]]
      BY <1>5, LoopFacts DEF CalledOf, Adverts
    <2>2. goal[g].ctx = adv[b] /\ goal[g].pc \notin Before
      BY <2>1 DEF IInv, CalledInv
    <2>3. OthersSame(g) /\ Settled(g, status, value)
      BY <1>3, <1>5, SettleEffect DEF TInv
    <2>4. LastEntered' = LastEntered
      BY <1>1 DEF LastEntered
    <2>5. ContextInv'
      BY <1>1, <1>3, <1>5, <2>4 DEF ContextInv
    <2>6. CalledInv'
      <3> SUFFICES ASSUME NEW n \in Adverts, NEW h \in called[n]
                   PROVE  goal'[h].ctx = n /\ goal'[h].pc \notin Before
        BY <1>1 DEF CalledInv
      <3>1. h \in Goals
        BY LoopFacts
      <3>2. goal'[h].ctx = goal[h].ctx /\ goal'[h].pc = goal[h].pc
        BY <2>3, <3>1 DEF OthersSame, Settled, SameGoal
      <3> QED
        BY <3>2 DEF IInv, CalledInv
    <2>7. HandleInv(g)'
      BY <1>1, <1>5, <2>2, <2>3, <2>4, SettledHandle
    <2>8. goal[g].owner = b
      BY <2>1, <2>2, GoalFacts DEF HandleInv, Adverts
    <2>9. EntryInv(g)'
      BY <1>1, <1>5, <2>1, <2>2, <2>3, <2>8 DEF EntryInv, Settled, SameGoal, Clearing, Before
    <2>10. OwedInv(g)'
      <3>1. \A c \in Bridges : g \in owed[c] => c = b
        BY <2>8, GoalFacts DEF OwedInv
      <3> QED
        BY <1>1, <3>1 DEF OwedInv
    <2>11. ASSUME NEW h \in Goals \ {g} PROVE GoalInv(h)'
      <3>1. goal'[h] = goal[h] /\ HandleInv(h) /\ EntryInv(h) /\ OwedInv(h)
        BY <2>3, GoalFacts DEF OthersSame
      <3>2. Live(h)' <=> Live(h)
        BY <1>1, <3>1 DEF Live
      <3>3. HandleInv(h)'
        BY <1>1, <2>4, <3>1, <3>2 DEF HandleInv
      <3>4. EntryInv(h)'
        BY <1>1, <3>1, <3>2 DEF EntryInv
      <3>5. OwedInv(h)'
        BY <1>1, <1>5, <3>1 DEF OwedInv
      <3> QED
        BY <3>3, <3>4, <3>5 DEF GoalInv
    <2>12. \A h \in Goals : GoalInv(h)'
      BY <2>7, <2>9, <2>10, <2>11 DEF GoalInv
    <2> QED
      BY <1>3, <2>5, <2>6, <2>12 DEF IInv
  <1>6. \/ UNCHANGED goal
        \/ /\ g \in CalledOf(b) /\ ~SettleRaises(g) /\ UNCHANGED conn
           /\ Settle(g, "succeeded", "result") \/ Settle(g, "aborted", "empty")
    BY DEF OnActionResult
  <1> QED
    BY <1>4, <1>5, <1>6

\* A hangup, or feedback for an unknown goal.
LEMMA HangupKeeps ==
    ASSUME IInv, NEW b \in Bridges, Hangup(b) \/ \E g \in Goals : OnActionFeedback(b, g)
    PROVE  IInv'
  <1>1. /\ UNCHANGED <<adverts, adv, called, cleared, owed, srv, loop, goal>>
        /\ \A c \in Bridges : conn'[c] = "open" => conn[c] = "open"
    BY LoopFacts DEF Hangup, OnActionFeedback, ctxVars, rosVars
  <1>2. LoopMoves
    BY DEF LoopMoves
  <1> QED
    BY <1>1, <1>2, DownKeeps

-----------------------------------------------------------------------------
(***************************************************************************)
(* The theorems                                                             *)
(***************************************************************************)
\* The invariant holds at first ...
LEMMA InitHolds == Init => IInv
  <1> SUFFICES ASSUME Init PROVE IInv
    OBVIOUS
  <1>1. TInv
    BY InitTyped
  <1>2. ContextInv /\ CalledInv
    BY ActionAssumption
       DEF Init, ContextInv, CalledInv, LastEntered, Idle, NoServer, Clearing, Closing
  <1>3. ASSUME NEW g \in Goals PROVE GoalInv(g)
    BY <1>3, ActionAssumption
       DEF Init, GoalInv, HandleInv, EntryInv, OwedInv, NewGoal, Idle, LastEntered, Before,
           Clearing
  <1> QED
    BY <1>1, <1>2, <1>3 DEF IInv

\* ... every step keeps it, as long as no peer advertises over itself ...
LEMMA NextKeeps ==
    ASSUME Polite, IInv, [Next]_vars
    PROVE  IInv'
  <1>1. CASE UNCHANGED vars
    BY <1>1 DEF IInv, TInv, TypeOK, ThreadsHold, FiniteCalled, ContextInv, CalledInv, GoalInv,
                HandleInv, EntryInv, OwedInv, LastEntered, Live, vars, loopVars, rosVars, ctxVars
  <1>2. CASE LoopStep
    BY <1>2, EnterKeeps, PopKeeps, ClearKeeps, DestroyKeeps DEF LoopStep
  <1>3. ASSUME NEW b \in Bridges,
               \/ OnAdvertise(b) \/ OnUnadvertise(b) \/ OnClose(b) \/ Hangup(b)
               \/ \E g \in Goals : \/ OnActionFeedback(b, g)
                                   \/ \E succeeded \in BOOLEAN : OnActionResult(b, g, succeeded)
        PROVE  IInv'
    BY <1>3, AdvertiseKeeps, StartKeeps, HangupKeeps, ResultKeeps
  <1>4. ASSUME NEW g \in Goals, AcceptGoal(g) \/ TaskStep(g) PROVE IInv'
    BY <1>4, AcceptKeeps, TaskKeeps
  <1> QED
    BY <1>1, <1>2, <1>3, <1>4, NextMoves DEF LoopMoves

\* ... and so it always holds.
LEMMA Inductive == ASSUME Polite PROVE Spec => []IInv
  <1>1. IInv /\ [Next]_vars => IInv'
    BY NextKeeps
  <1> QED
    BY <1>1, InitHolds, PTL DEF Spec

\* A goal that still waits is in the current context of its bridge, where
\* unadvertise_action and close() look for it, whatever goals entered, left or
\* raised meanwhile; as long as no peer advertises over itself.
THEOREM WaitingFound == ASSUME Polite PROVE Spec => []WaitingIsReachable
  <1>1. ASSUME IInv PROVE WaitingIsReachable
    BY <1>1, GoalFacts DEF WaitingIsReachable, EntryInv, CalledOf, Looked, Adverts
  <1> QED
    BY <1>1, Inductive, PTL

\* The first answer to a goal of the current context is known, and its handle
\* takes the terminal status: it does not end the peer's connection.
THEOREM FirstAnswerTaken == ASSUME Polite PROVE Spec => []AnswersAreWelcome
  <1>1. ASSUME IInv PROVE AnswersAreWelcome
    <2> SUFFICES ASSUME loop.pc = "idle", NEW b \in Bridges, NEW g \in Goals,
                        conn[b] = "open", g \in owed[b], adv[b] = goal[g].ctx
                 PROVE  g \in CalledOf(b) /\ ~SettleRaises(g)
      BY DEF AnswersAreWelcome
    <2>1. OwedInv(g) /\ HandleInv(g)
      BY <1>1, GoalFacts
    <2>2. /\ goal[g].pc = "waiting" /\ goal[g].future = "none"
          /\ g \in called[goal[g].ctx] /\ goal[g].ctx # 0
      BY <2>1 DEF OwedInv
    <2> QED
      BY <2>1, <2>2 DEF CalledOf, SettleRaises, HandleInv
  <1> QED
    BY <1>1, Inductive, PTL

\* The client of a goal that succeeded gets the peer's result, and no other
\* client does.
THEOREM ResultDelivered == ASSUME Polite PROVE Spec => []SucceededHasResult
  <1>1. ASSUME IInv PROVE SucceededHasResult
    BY <1>1, GoalFacts DEF SucceededHasResult, HandleInv
  <1> QED
    BY <1>1, Inductive, PTL
=============================================================================
