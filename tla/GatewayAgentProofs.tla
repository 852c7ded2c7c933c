------------------------- MODULE GatewayAgentProofs --------------------------
(***************************************************************************)
(* Proofs about GatewayAgent, for any kinds, names and bounds.              *)
(*                                                                          *)
(* The checked invariants speak of the ends of a connection's life (up,     *)
(* ended); the induction needs what holds before: no connection without a   *)
(* socket, rules that wait for one are stored, and the flag _closed goes    *)
(* with the purge.                                                          *)
(***************************************************************************)
EXTENDS GatewayAgent, TLAPS

Waiting == {"none", "connecting", "starting"}

\* A connection that has not begun has left no trace.
FreshIsClean ==
    task \in {"none", "connecting"} =>
        reader = "none" /\ sock = "none" /\ ~closed /\ notified = 0

\* A reader has a socket to read from.
ReaderHasSocket == reader # "none" => sock # "none"

\* The flag is set along with the purge, and never without it.
FlagIsPurge == closed <=> notified > 0

\* Rules accepted before the connection is up are stored.
WaitingAreStored == task \in Waiting => accepted \subseteq Stored

\* Without a failing replay a task only closes once the reader is done, so at most
\* one of the two ever finds the gateway open.
OneCloser ==
    ~ReplayRaises =>
        /\ task \in Closing \cup {"ended"} => reader \in {"none", "done"}
        /\ reader = "closing_gw" => ~closed
        /\ task = "closing_gw" => ~closed

AInv == /\ TypeOK
        /\ FreshIsClean /\ ReaderHasSocket /\ FlagIsPurge
        /\ WaitingAreStored /\ AcceptedAreAsked
        /\ EndedIsReleased
        /\ OneCloser /\ NotifiedOnce

-----------------------------------------------------------------------------
\* Storing a rule of one kind keeps the stored rules and adds the new one, and a
\* failing replay stays one.
LEMMA StoringAdds ==
    ASSUME TypeOK, NEW k \in Kinds, NEW n \in Names,
           config' = [config EXCEPT ![k] = Append(@, n)]
    PROVE  /\ Stored' = Stored \cup {<<k, n>>}
           /\ config' \in [Kinds -> Seq(Names)]
           /\ ReplayRaises => ReplayRaises'
  <1>1. /\ config \in [Kinds -> Seq(Names)]
        /\ config' \in [Kinds -> Seq(Names)]
    BY DEF TypeOK
  <1>2. ASSUME NEW j \in Kinds
        PROVE  Range(config'[j]) = IF j = k THEN Range(config[j]) \cup {n}
                                   ELSE Range(config[j])
    <2>1. CASE j = k
      <3>1. config'[j] = Append(config[j], n) /\ config[j] \in Seq(Names)
        BY <1>1, <2>1
      <3>2. /\ DOMAIN config'[j] = DOMAIN config[j] \cup {Len(config[j]) + 1}
            /\ \A i \in DOMAIN config[j] : config'[j][i] = config[j][i]
            /\ config'[j][Len(config[j]) + 1] = n
        BY <3>1
      <3>3. ASSUME NEW x PROVE x \in Range(config'[j]) <=> x \in Range(config[j]) \cup {n}
        <4>1. (x \in Range(config'[j])) <=> \E i \in DOMAIN config'[j] : x = config'[j][i]
          BY DEF Range
        <4>2. (x \in Range(config[j])) <=> \E i \in DOMAIN config[j] : x = config[j][i]
          BY DEF Range
        <4> HIDE DEF Range
        <4> QED
          BY <3>2, <4>1, <4>2, SMT
      <3>4. Range(config'[j]) = Range(config[j]) \cup {n}
        <4> HIDE DEF Range
        <4> QED
          BY <3>3
      <3> QED
        BY <2>1, <3>4
    <2>2. CASE j # k
      BY <1>1, <2>2
    <2> QED
      BY <2>1, <2>2
  <1>3. Stored' = Stored \cup {<<k, n>>}
    <2>1. ASSUME NEW r \in Rules
          PROVE  r \in Stored' <=> r \in Stored \cup {<<k, n>>}
      <3>1. r[1] \in Kinds /\ r[2] \in Names /\ r = <<r[1], r[2]>>
        BY DEF Rules
      <3>2. r \in Stored' <=> r[2] \in Range(config'[r[1]])
        BY DEF Stored
      <3>3. r \in Stored <=> r[2] \in Range(config[r[1]])
        BY DEF Stored
      <3>4. Range(config'[r[1]]) = IF r[1] = k THEN Range(config[r[1]]) \cup {n}
                                   ELSE Range(config[r[1]])
        BY <1>2, <3>1
      <3> QED
        BY <3>1, <3>2, <3>3, <3>4
    <2>2. Stored \subseteq Rules /\ Stored' \subseteq Rules /\ <<k, n>> \in Rules
      BY DEF Stored, Rules
    <2> QED
      BY <2>1, <2>2
  <1>4. ASSUME ReplayRaises PROVE ReplayRaises'
    <2>1. PICK j \in ServiceKinds : Len(config[j]) > 1
      BY <1>4 DEF ReplayRaises
    <2>2. j \in Kinds
      BY AgentAssumption
    <2>3. Len(config'[j]) > 1
      BY <1>1, <2>1, <2>2
    <2> QED
      BY <2>3 DEF ReplayRaises
  <1> QED
    BY <1>1, <1>3, <1>4

-----------------------------------------------------------------------------
LEMMA AgentInit == Init => AInv
  <1> SUFFICES ASSUME Init PROVE AInv
    OBVIOUS
  <1>1. <<>> \in Seq(Names)
    OBVIOUS
  <1>2. config \in [Kinds -> Seq(Names)] /\ log \in [ServiceKinds -> SUBSET Names]
    BY <1>1 DEF Init
  <1>3. TypeOK
    <2>1. cancels \in 0..MaxCancels
      BY AgentAssumption DEF Init
    <2>2. closed \in BOOLEAN
      BY Zenon DEF Init
    <2> QED
      BY <1>2, <2>1, <2>2 DEF Init, TypeOK, TaskStates, ReaderStates
  <1> QED
    BY <1>3 DEF Init, AInv, FreshIsClean, ReaderHasSocket, FlagIsPurge, WaitingAreStored,
                AcceptedAreAsked, EndedIsReleased, OneCloser, NotifiedOnce, Closing

LEMMA AgentStep == AInv /\ [Next]_vars => AInv'
  <1> SUFFICES ASSUME AInv, [Next]_vars PROVE AInv'
    OBVIOUS
  <1> USE DEF AInv, TypeOK, FreshIsClean, ReaderHasSocket, FlagIsPurge, WaitingAreStored,
              AcceptedAreAsked, EndedIsReleased, OneCloser, NotifiedOnce, Waiting,
              Closing, TaskStates, ReaderStates, ruleVars, connVars
  <1>0. ASSUME config' = config
        PROVE  Stored' = Stored /\ (ReplayRaises' <=> ReplayRaises)
    BY <1>0, Zenon DEF Stored, ReplayRaises
  <1>1. ASSUME NEW k \in Kinds, NEW n \in Names, AddRule(k, n)
        PROVE  AInv'
    <2>1. CASE HandOver(k, n)
      <3>1. /\ UNCHANGED <<config, task, reader, sock, closed, notified, cancels>>
            /\ asked' = asked \cup {<<k, n>>}
            /\ task \in {"up", "closing_ws", "closing_gw"}
        BY <1>1, <2>1 DEF AddRule, HandOver, InMap
      <3>2. /\ accepted' \in {accepted, accepted \cup {<<k, n>>}}
            /\ log' \in [ServiceKinds -> SUBSET Names]
        BY <2>1 DEF HandOver, Listed
      <3>3. <<k, n>> \in Rules
        BY DEF Rules
      <3>4. TypeOK' /\ AcceptedAreAsked' /\ WaitingAreStored'
        BY <3>1, <3>2, <3>3
      <3> QED
        BY <1>0, <3>1, <3>4
    <2>2. CASE Store(k, n)
      <3>1. /\ Stored' = Stored \cup {<<k, n>>}
            /\ config' \in [Kinds -> Seq(Names)]
            /\ ReplayRaises => ReplayRaises'
        BY <2>2, StoringAdds, Zenon DEF Store
      <3>2. TypeOK' /\ WaitingAreStored' /\ AcceptedAreAsked'
        BY <1>1, <2>2, <3>1 DEF AddRule, Store, InMap, Rules
      <3>3. FreshIsClean' /\ ReaderHasSocket' /\ FlagIsPurge' /\ EndedIsReleased'
        BY <1>1, <2>2 DEF AddRule, Store, InMap
      <3>4. OneCloser' /\ NotifiedOnce'
        BY <1>1, <2>2, <3>1 DEF AddRule, Store, InMap
      <3> QED
        BY <3>2, <3>3, <3>4
    <2> QED
      BY <1>1, <2>1, <2>2 DEF AddRule
  <1>2. ASSUME NEW k \in Kinds, NEW n \in Names, RemoveRule(k, n)
        PROVE  AInv'
    BY <1>0, <1>2 DEF RemoveRule, Unlisted, InMap
  <1>3. ASSUME HangUp PROVE AInv'
    BY <1>0, <1>3 DEF HangUp
  <1>4. ASSUME MessageRaises PROVE AInv'
    BY <1>0, <1>4 DEF MessageRaises
  <1>5. ASSUME ReaderChecks PROVE AInv'
    BY <1>0, <1>5 DEF ReaderChecks
  <1>6. ASSUME ReaderCloses PROVE AInv'
    BY <1>0, <1>6 DEF ReaderCloses, CloseGateway
  <1>7. ASSUME ConnectFails PROVE AInv'
    BY <1>0, <1>7 DEF ConnectFails
  <1>8. ASSUME SocketOpens PROVE AInv'
    BY <1>0, <1>8 DEF SocketOpens
  <1>9. ASSUME Connected PROVE AInv'
    <2>1. ASSUME NEW k \in Kinds PROVE Range(config[k]) \subseteq Names
      <3>1. config[k] \in Seq(Names)
        OBVIOUS
      <3> QED
        BY <3>1 DEF Range
    <2>2. log' \in [ServiceKinds -> SUBSET Names]
      BY <1>9, <2>1, AgentAssumption DEF Connected
    <2> QED
      BY <1>0, <1>9, <2>2 DEF Connected, Stored
  <1>10. ASSUME ConnectedRaises PROVE AInv'
    <2>1. Stored \subseteq Rules
      BY DEF Stored
    <2>2. asked' \subseteq Rules /\ log' \in [ServiceKinds -> SUBSET Names]
      BY <1>10, <2>1 DEF ConnectedRaises
    <2> QED
      BY <1>0, <1>10, <2>2 DEF ConnectedRaises
  <1>11. ASSUME LeaveBody PROVE AInv'
    BY <1>0, <1>11 DEF LeaveBody
  <1>12. ASSUME TaskChecks PROVE AInv'
    BY <1>0, <1>12 DEF TaskChecks
  <1>13. ASSUME TaskCloses PROVE AInv'
    BY <1>0, <1>13 DEF TaskCloses, CloseGateway
  <1>14. ASSUME Cancel PROVE AInv'
    BY <1>0, <1>14, AgentAssumption DEF Cancel, Interrupt
  <1>15. CASE UNCHANGED vars
    BY <1>0, <1>15 DEF vars
  <1> QED
    BY <1>1, <1>2, <1>3, <1>4, <1>5, <1>6, <1>7, <1>8, <1>9, <1>10, <1>11, <1>12,
       <1>13, <1>14, <1>15 DEF Next

\* The inductive invariant of the agent's connection.
THEOREM AgentInvariant == Spec => []AInv
  BY AgentInit, AgentStep, PTL DEF Spec

-----------------------------------------------------------------------------
\* The agent's variables keep their types.
THEOREM AgentTypeCorrect == Spec => []TypeOK
  <1>1. AInv => TypeOK
    BY DEF AInv
  <1> QED
    BY <1>1, AgentInvariant, PTL

\* While the connection is up the gateway has been handed every rule the api
\* accepted, in whatever order rules, connection and removals came.
THEOREM AcceptedAreAlwaysAsked == Spec => []AcceptedAreAsked
  <1>1. AInv => AcceptedAreAsked
    BY DEF AInv
  <1> QED
    BY <1>1, AgentInvariant, PTL

\* A task that ran to its end has closed its gateway and purged the bridge.
THEOREM EndedIsAlwaysReleased == Spec => []EndedIsReleased
  <1>1. AInv => EndedIsReleased
    BY DEF AInv
  <1> QED
    BY <1>1, AgentInvariant, PTL

\* Reader and task never both run the disconnect handlers, however cancellations
\* and hang-ups interleave, unless the replay of the rules has raised.
THEOREM AlwaysNotifiedOnce == Spec => []NotifiedOnce
  <1>1. AInv => NotifiedOnce
    BY DEF AInv
  <1> QED
    BY <1>1, AgentInvariant, PTL
=============================================================================
