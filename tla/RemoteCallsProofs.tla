------------------------- MODULE RemoteCallsProofs --------------------------
(***************************************************************************)
(* Proofs about RemoteCalls, for any graph of processes and any calls: a    *)
(* call is dealt with in at most one place, on the wire, in the loop, at    *)
(* the local server or in the ROS thread, and leaves the last one only      *)
(* answered or counted as lost.                                             *)
(***************************************************************************)
EXTENDS RemoteCalls, FiniteSetTheorems, SequenceTheorems, TLAPS

-----------------------------------------------------------------------------
(***************************************************************************)
(* The invariant                                                            *)
(***************************************************************************)
\* c is on the wire s; no frame is on it twice.
Has(s, c) == \E i \in DOMAIN s : s[i] = c
Once(s)   == \A i, j \in DOMAIN s : s[i] = s[j] => i = j

\* A local server, and the ROS thread, have one thing to do for a call.
OneEach(S) == \A r, s \in S : r[1] = s[1] => r = s

\* q is the process that has to answer c.
CalledBy(c, q) == who[c] \in Procs /\ Target[who[c]] = q

\* A call is dealt with by its own caller ...
CallerHome(p) ==
    /\ conn[p] => Target[p] \in Procs
    /\ Once(toPeer[p]) /\ Once(fromPeer[p])
    /\ \A c \in Calls : Has(toPeer[p], c) \/ Has(fromPeer[p], c) \/ c \in called[p]
                           => who[c] = p

\* ... and by that one's target only.
TargetHome(q) ==
    /\ OneEach(server[q]) /\ OneEach(answers[q])
    /\ \A r \in server[q] \cup answers[q] : CalledBy(r[1], q)
    /\ loop[q] # NoCall => CalledBy(loop[q], q)
    /\ Once(outbox[q]) /\ \A c \in Calls : Has(outbox[q], c) => CalledBy(c, q)

\* A call that nobody has made is neither answered nor lost.
CallHome(c) ==
    /\ who[c] \in Procs => Target[who[c]] \in Procs
    /\ who[c] = NoProc => c \notin settled \cup lost

HomeInv ==
    /\ \A p \in Procs : CallerHome(p)
    /\ \A q \in Procs : TargetHome(q)
    /\ \A c \in Calls : CallHome(c)

Stages == {"calling", "loop", "server", "answers", "sending", "answering"}

\* Where c is being dealt with.
At(c, k) ==
    LET p == who[c]
        q == Target[p]
    IN \/ k = "calling" /\ Has(toPeer[p], c)
       \/ k = "loop" /\ loop[q] = c
       \/ k = "server" /\ \E r \in server[q] : r[1] = c
       \/ k = "answers" /\ \E r \in answers[q] : r[1] = c
       \/ k = "sending" /\ Has(outbox[q], c)
       \/ k = "answering" /\ Has(fromPeer[p], c)

\* In one place at most; over a connection that is up, in none once it is
\* answered or lost, and in one until then.
PlaceInv(c) ==
    who[c] \in Procs =>
        /\ \A k, l \in Stages : At(c, k) /\ At(c, l) => k = l
        /\ conn[who[c]] =>
              /\ c \in settled \cup lost => \A k \in Stages : ~At(c, k)
              /\ c \in called[who[c]] \ (settled \cup lost) => \E k \in Stages : At(c, k)

CInv == TypeOK /\ HomeInv /\ \A c \in Calls : PlaceInv(c)

-----------------------------------------------------------------------------
(***************************************************************************)
(* Wires                                                                    *)
(***************************************************************************)
\* What is on a wire after a frame has been sent ...
LEMMA WireAppend ==
    ASSUME NEW s \in Seq(Calls), NEW e \in Calls
    PROVE  /\ Append(s, e) \in Seq(Calls)
           /\ \A c : Has(Append(s, e), c) <=> Has(s, c) \/ c = e
           /\ Once(s) /\ ~Has(s, e) => Once(Append(s, e))
  <1>1. /\ Append(s, e) \in Seq(Calls) /\ Len(Append(s, e)) = Len(s) + 1
        /\ DOMAIN s = 1..Len(s) /\ Len(s) \in Nat
        /\ DOMAIN Append(s, e) = 1..(Len(s) + 1)
        /\ \A i \in 1..Len(s) : Append(s, e)[i] = s[i]
        /\ Append(s, e)[Len(s) + 1] = e
    OBVIOUS
  <1> DEFINE t == Append(s, e)
  <1> HIDE DEF t
  <1>2. ASSUME NEW c PROVE Has(t, c) <=> Has(s, c) \/ c = e
    <2>1. Has(t, c) => Has(s, c) \/ c = e
      BY <1>1 DEF Has, t
    <2>2. Has(s, c) => Has(t, c)
      BY <1>1 DEF Has, t
    <2>3. Has(t, e)
      BY <1>1 DEF Has, t
    <2> QED
      BY <2>1, <2>2, <2>3
  <1>3. ASSUME Once(s), ~Has(s, e) PROVE Once(t)
    BY <1>1, <1>3 DEF Has, Once, t
  <1> QED
    BY <1>1, <1>2, <1>3 DEF t

\* ... and after one has been received.
LEMMA WireTail ==
    ASSUME NEW s \in Seq(Calls), s # <<>>
    PROVE  /\ Head(s) \in Calls /\ Tail(s) \in Seq(Calls)
           /\ \A c : Has(s, c) <=> Has(Tail(s), c) \/ c = Head(s)
           /\ Once(s) => Once(Tail(s)) /\ ~Has(Tail(s), Head(s))
  <1>1. /\ Head(s) \in Calls /\ Tail(s) \in Seq(Calls) /\ Head(s) = s[1]
        /\ Len(s) \in Nat \ {0} /\ DOMAIN s = 1..Len(s) /\ Len(Tail(s)) = Len(s) - 1
        /\ DOMAIN Tail(s) = 1..(Len(s) - 1)
        /\ \A i \in 1..(Len(s) - 1) : Tail(s)[i] = s[i + 1]
    BY EmptySeq, HeadTailProperties, LenProperties
  <1> DEFINE t == Tail(s)
             h == Head(s)
  <1> HIDE DEF t, h
  <1>2. ASSUME NEW c PROVE Has(s, c) <=> Has(t, c) \/ c = h
    <2>1. ASSUME NEW i \in DOMAIN s, s[i] = c PROVE Has(t, c) \/ c = h
      <3>1. CASE i = 1
        BY <1>1, <2>1, <3>1 DEF h
      <3>2. CASE i # 1
        <4>1. i - 1 \in 1..(Len(s) - 1) /\ t[i - 1] = c
          BY <1>1, <2>1, <3>2 DEF t
        <4> QED
          BY <1>1, <4>1 DEF Has, t
      <3> QED
        BY <3>1, <3>2
    <2>2. ASSUME NEW i \in DOMAIN t, t[i] = c PROVE Has(s, c)
      <3>1. i + 1 \in DOMAIN s /\ s[i + 1] = c
        BY <1>1, <2>2 DEF t
      <3> QED
        BY <3>1 DEF Has
    <2>3. Has(s, h)
      BY <1>1 DEF Has, h
    <2> QED
      BY <2>1, <2>2, <2>3 DEF Has
  <1>3. ASSUME Once(s) PROVE Once(t) /\ ~Has(t, h)
    <2>1. Once(t)
      BY <1>1, <1>3 DEF Once, t
    <2>2. ~Has(t, h)
      BY <1>1, <1>3 DEF Once, Has, t, h
    <2> QED
      BY <2>1, <2>2
  <1> QED
    BY <1>1, <1>2, <1>3 DEF t, h

\* Nothing is on an empty wire.
LEMMA WireEmpty == <<>> \in Seq(Calls) /\ Once(<<>>) /\ \A c : ~Has(<<>>, c)
  BY DEF Once, Has

-----------------------------------------------------------------------------
(***************************************************************************)
(* Types                                                                    *)
(***************************************************************************)
CallOrNone == Calls \cup {NoCall}
Work       == SUBSET (Calls \X Whats)

\* TypeOK, function by function.
Types ==
    /\ who \in [Calls -> Procs \cup {NoProc}] /\ conn \in [Procs -> BOOLEAN]
    /\ toPeer \in [Procs -> Seq(Calls)] /\ fromPeer \in [Procs -> Seq(Calls)]
    /\ called \in [Procs -> SUBSET Calls] /\ settled \in SUBSET Calls
    /\ group \in [Procs -> CallOrNone] /\ loop \in [Procs -> CallOrNone]
    /\ outbox \in [Procs -> Seq(Calls)] /\ waits \in [Procs -> BOOLEAN]
    /\ known \in [Procs -> BOOLEAN] /\ ready \in [Procs -> BOOLEAN]
    /\ dead \in [Procs -> BOOLEAN] /\ changes \in 0..MaxChanges
    /\ server \in [Procs -> Work] /\ answers \in [Procs -> Work]
    /\ lost \in SUBSET Calls

\* Types says what TypeOK says.
LEMMA TypesAreTypeOK == TypeOK <=> Types
  BY DEF TypeOK, Types, CallOrNone, Work

\* A connection that breaks keeps the types of the wires.
LEMMA DisconnectTyped ==
    ASSUME Types, NEW p, Disconnect(p)
    PROVE  /\ conn' \in [Procs -> BOOLEAN]
           /\ toPeer' \in [Procs -> Seq(Calls)] /\ fromPeer' \in [Procs -> Seq(Calls)]
  BY WireEmpty DEF Disconnect, Types

\* The steps of the calling process keep the types.
LEMMA CallerTyped ==
    ASSUME Types, NEW p \in Procs,
           \/ \E c \in Calls : TakeRequest(p, c) \/ Finish(p, c)
           \/ OnAnswer(p) \/ Close(p) \/ Hangup(p)
    PROVE  Types'
  <1> USE DEF proxyVars, wireVars, serverVars
  <1>1. ASSUME NEW c \in Calls, TakeRequest(p, c) PROVE Types'
    <2>1. toPeer' \in [Procs -> Seq(Calls)]
      BY <1>1, WireAppend DEF TakeRequest, Types
    <2>2. group' \in [Procs -> CallOrNone]
      BY <1>1 DEF TakeRequest, Types, CallOrNone
    <2> QED
      BY <1>1, <2>1, <2>2 DEF TakeRequest, Types
  <1>2. ASSUME NEW c \in Calls, Finish(p, c) PROVE Types'
    <2>1. group' \in [Procs -> CallOrNone]
      BY <1>2 DEF Finish, Types, CallOrNone
    <2> QED
      BY <1>2, <2>1 DEF Finish, Types
  <1>3. CASE OnAnswer(p)
    <2>1. Head(fromPeer[p]) \in Calls /\ Tail(fromPeer[p]) \in Seq(Calls)
      BY <1>3, WireTail DEF OnAnswer, Types
    <2>2. CASE Disconnect(p) /\ UNCHANGED settled
      BY <1>3, <2>2, DisconnectTyped DEF OnAnswer, Types
    <2>3. CASE /\ settled' = settled \cup {Head(fromPeer[p])}
               /\ fromPeer' = [fromPeer EXCEPT ![p] = Tail(@)] /\ UNCHANGED <<conn, toPeer>>
      BY <1>3, <2>1, <2>3 DEF OnAnswer, Types
    <2> QED
      BY <1>3, <2>2, <2>3 DEF OnAnswer
  <1>4. CASE Close(p)
    BY <1>4 DEF Close, Types
  <1>5. CASE Hangup(p)
    BY <1>5, DisconnectTyped DEF Hangup, Types
  <1> QED
    BY <1>1, <1>2, <1>3, <1>4, <1>5

\* A local server that is asked for a call keeps its type.
LEMMA ServedTyped ==
    ASSUME Types, NEW q, NEW c \in Calls, Ask(c, q)
    PROVE  server' \in [Procs -> Work]
  <1>1. Request(c, q) \in Calls \X Whats
    BY DEF Request, Whats
  <1>2. \A x \in Procs : server[x] \cup {Request(c, q)} \in Work
    BY <1>1 DEF Types, Work
  <1> QED
    BY <1>2 DEF Ask, Types

\* The steps of the loop of the called process keep the types.
LEMMA LoopTyped ==
    ASSUME Types, NEW p \in Procs,
           OnCallService(p) \/ OnCallAction(p) \/ EndWait(p) \/ WaitRaises(p)
    PROVE  Types'
  <1> USE DEF proxyVars, wireVars, serverVars
  <1>1. CASE OnCallService(p) \/ OnCallAction(p)
    <2> DEFINE q == Target[p]
    <2> HIDE DEF q
    <2>1. /\ UNCHANGED <<proxyVars, outbox, waits, ready, changes, answers, dead, lost>>
          /\ toPeer[p] # <<>>
          /\ \/ Disconnect(p) /\ UNCHANGED <<known, server, loop>>
             \/ Serve(p, q, Head(toPeer[p]))
      BY <1>1 DEF OnCallService, OnCallAction, q
    <2>2. Head(toPeer[p]) \in Calls /\ Tail(toPeer[p]) \in Seq(Calls)
      BY <2>1, WireTail DEF Types
    <2>3. CASE Disconnect(p) /\ UNCHANGED <<known, server, loop>>
      BY <2>1, <2>3, DisconnectTyped DEF Types
    <2>4. CASE Serve(p, q, Head(toPeer[p]))
      <3>1. server' \in [Procs -> Work]
        BY <2>2, <2>4, ServedTyped DEF Serve, Types
      <3>2. loop' \in [Procs -> CallOrNone] /\ known' \in [Procs -> BOOLEAN]
        BY <2>2, <2>4 DEF Serve, Types, CallOrNone
      <3>3. toPeer' \in [Procs -> Seq(Calls)] /\ UNCHANGED <<conn, fromPeer>>
        BY <2>2, <2>4 DEF Serve, Types
      <3> QED
        BY <2>1, <3>1, <3>2, <3>3 DEF Types
    <2> QED
      BY <2>1, <2>3, <2>4
  <1>2. CASE EndWait(p)
    <2>1. loop[p] \in Calls /\ loop' \in [Procs -> CallOrNone]
      BY <1>2 DEF EndWait, Types, CallOrNone
    <2>2. server' \in [Procs -> Work] /\ lost' \in SUBSET Calls
      BY <1>2, <2>1, ServedTyped DEF EndWait, Types
    <2> QED
      BY <1>2, <2>1, <2>2 DEF EndWait, Types
  <1>3. CASE WaitRaises(p)
    <2>1. loop' \in [Procs -> CallOrNone]
      BY <1>3 DEF WaitRaises, Types, CallOrNone
    <2> QED
      BY <1>3, <2>1, DisconnectTyped DEF WaitRaises, Types
  <1> QED
    BY <1>1, <1>2, <1>3

\* The steps of the local server, and what the ROS thread does with a goal's
\* response and feedback, keep the types.
LEMMA ServerTyped ==
    ASSUME Types, NEW q \in Procs,
           \/ ChangeServer(q)
           \/ \E c \in Calls : \/ \E what \in {"goal", "result"} : Answer(q, c, what)
                               \/ Feedback(q, c) \/ GoalResponse(q, c)
    PROVE  Types'
  <1> USE DEF proxyVars, wireVars, serverVars
  <1>1. CASE ChangeServer(q)
    <2>1. {r[1] : r \in server[q]} \subseteq Calls
      BY DEF Types, Work
    <2>2. changes' \in 0..MaxChanges /\ ready' \in [Procs -> BOOLEAN]
      BY <1>1, CallAssumption DEF ChangeServer, Types
    <2>3. server' \in [Procs -> Work] /\ lost' \in SUBSET Calls
      BY <1>1, <2>1 DEF ChangeServer, Types, Work
    <2> QED
      BY <1>1, <2>2, <2>3 DEF ChangeServer, Types
  <1>2. ASSUME NEW c \in Calls, NEW what \in {"goal", "result"}, Answer(q, c, what)
        PROVE  Types'
    <2>1. server' \in [Procs -> Work]
      BY <1>2 DEF Answer, Types, Work
    <2>2. answers' \in [Procs -> Work]
      <3>1. PICK reply \in {"accepted", "rejected", "result"} :
               answers' = [answers EXCEPT ![q] = @ \cup {<<c, reply>>}]
        BY <1>2 DEF Answer
      <3>2. <<c, reply>> \in Calls \X Whats
        BY DEF Whats
      <3> QED
        BY <3>1, <3>2 DEF Types, Work
    <2> QED
      BY <1>2, <2>1, <2>2 DEF Answer, Types
  <1>3. ASSUME NEW c \in Calls, Feedback(q, c) PROVE Types'
    BY <1>3 DEF Feedback, Types
  <1>4. ASSUME NEW c \in Calls, GoalResponse(q, c) PROVE Types'
    <2>1. <<c, "result">> \in Calls \X Whats
      BY DEF Whats
    <2>2. /\ answers[q] \ {<<c, "accepted">>} \in Work
          /\ answers[q] \ {<<c, "rejected">>} \in Work
          /\ server[q] \cup {<<c, "result">>} \in Work
      BY <2>1 DEF Types, Work
    <2>3. answers' \in [Procs -> Work]
      <3>1. PICK S \in Work : answers' = [answers EXCEPT ![q] = S]
        BY <1>4, <2>2 DEF GoalResponse
      <3> QED
        BY <3>1 DEF Types
    <2>4. server' \in [Procs -> Work] /\ lost' \in SUBSET Calls
      <3>1. \/ UNCHANGED server /\ lost' = lost \cup {c}
            \/ UNCHANGED lost /\ server' = [server EXCEPT ![q] = @ \cup {<<c, "result">>}]
        BY <1>4 DEF GoalResponse
      <3> QED
        BY <2>2, <3>1 DEF Types
    <2> QED
      BY <1>4, <2>3, <2>4 DEF GoalResponse, Types
  <1> QED
    BY <1>1, <1>2, <1>3, <1>4

\* The steps that send an answer back keep the types.
LEMMA SenderTyped ==
    ASSUME Types, NEW q \in Procs,
           \/ SendAnswer(q) \/ SendTimesOut(q)
           \/ \E c \in Calls : HandOver(q, c)
    PROVE  Types'
  <1> USE DEF proxyVars, wireVars, serverVars
  <1>1. CASE SendAnswer(q)
    <2> DEFINE c == Head(outbox[q])
    <2>1. c \in Calls /\ Tail(outbox[q]) \in Seq(Calls)
      BY <1>1, WireTail DEF SendAnswer, Types
    <2>2. fromPeer' = IF conn[who[c]] THEN [fromPeer EXCEPT ![who[c]] = Append(@, c)]
                      ELSE fromPeer
      BY <1>1 DEF SendAnswer
    <2>3. outbox' \in [Procs -> Seq(Calls)] /\ waits' \in [Procs -> BOOLEAN]
      BY <1>1, <2>1 DEF SendAnswer, Types
    <2> HIDE DEF c
    <2>4. fromPeer' \in [Procs -> Seq(Calls)]
      <3>1. \A p \in Procs : Append(fromPeer[p], c) \in Seq(Calls)
        BY <2>1, WireAppend DEF Types
      <3> QED
        BY <2>2, <3>1 DEF Types
    <2> QED
      BY <1>1, <2>3, <2>4 DEF SendAnswer, Types
  <1>2. CASE SendTimesOut(q)
    BY <1>2 DEF SendTimesOut, Types
  <1>3. ASSUME NEW c \in Calls, HandOver(q, c) PROVE Types'
    <2>1. outbox' \in [Procs -> Seq(Calls)] /\ waits' \in [Procs -> BOOLEAN]
      BY <1>3, WireAppend DEF HandOver, Types
    <2>2. answers' \in [Procs -> Work]
      BY <1>3 DEF HandOver, Types, Work
    <2> QED
      BY <1>3, <2>1, <2>2 DEF HandOver, Types
  <1> QED
    BY <1>1, <1>2, <1>3

-----------------------------------------------------------------------------
(***************************************************************************)
(* A call in its place                                                      *)
(***************************************************************************)
\* The step drops nothing of c, and adds nothing, unless its connection is down.
Steady(c) ==
    /\ who'[c] = who[c]
    /\ \A k \in Stages : At(c, k)' => At(c, k)
    /\ conn'[who[c]] =>
          /\ conn[who[c]]
          /\ \A k \in Stages : At(c, k) => At(c, k)'
          /\ c \in settled' \cup lost' <=> c \in settled \cup lost
          /\ c \in called'[who[c]] => c \in called[who[c]]

\* c goes from one stage to another ...
Moves(c, k, l) ==
    /\ who'[c] = who[c] /\ k \in Stages /\ l \in Stages
    /\ At(c, k) /\ \A m \in Stages : At(c, m)' <=> m = l
    /\ conn'[who[c]] => conn[who[c]]

\* ... or leaves the last one, answered, lost, or with its connection.
Ends(c, k) ==
    /\ who'[c] = who[c] /\ k \in Stages
    /\ At(c, k) /\ \A m \in Stages : ~At(c, m)'
    /\ conn'[who[c]] => c \in settled' \cup lost'

\* PlaceInv survives a step that leaves c where it is ...
LEMMA SteadyKeeps ==
    ASSUME NEW c, PlaceInv(c), Steady(c)
    PROVE  PlaceInv(c)'
  BY DEF PlaceInv, Steady

\* ... one that takes it to another stage ...
LEMMA MoveKeeps ==
    ASSUME NEW c, NEW k, NEW l, who[c] \in Procs, PlaceInv(c), Moves(c, k, l),
           c \in settled' \cup lost' => c \in settled \cup lost
    PROVE  PlaceInv(c)'
  BY DEF PlaceInv, Moves

\* ... and one that takes it from the last.
LEMMA EndKeeps ==
    ASSUME NEW c, NEW k, who[c] \in Procs, PlaceInv(c), Ends(c, k)
    PROVE  PlaceInv(c)'
  BY DEF PlaceInv, Ends

\* What is known of a call at one stage.
LEMMA Before ==
    ASSUME NEW c, PlaceInv(c), NEW q, CalledBy(c, q), NEW k \in Stages, At(c, k)
    PROVE  /\ Has(toPeer[who[c]], c) <=> k = "calling"
           /\ loop[q] = c <=> k = "loop"
           /\ (\E r \in server[q] : r[1] = c) <=> k = "server"
           /\ (\E r \in answers[q] : r[1] = c) <=> k = "answers"
           /\ Has(outbox[q], c) <=> k = "sending"
           /\ Has(fromPeer[who[c]], c) <=> k = "answering"
  <1>1. \A l \in Stages : At(c, l) <=> l = k
    BY DEF PlaceInv, CalledBy
  <1>2. /\ At(c, "calling") <=> Has(toPeer[who[c]], c)
        /\ At(c, "loop") <=> loop[q] = c
        /\ At(c, "server") <=> \E r \in server[q] : r[1] = c
        /\ At(c, "answers") <=> \E r \in answers[q] : r[1] = c
        /\ At(c, "sending") <=> Has(outbox[q], c)
        /\ At(c, "answering") <=> Has(fromPeer[who[c]], c)
    BY DEF At, CalledBy
  <1> QED
    BY <1>1, <1>2 DEF Stages

\* After a step c is at the stage l, and PlaceInv holds of it still.
LEMMA Moved ==
    ASSUME NEW c, PlaceInv(c), NEW q, CalledBy(c, q), NEW k \in Stages, At(c, k),
           NEW l \in Stages, UNCHANGED who, conn'[who[c]] => conn[who[c]],
           Has(toPeer'[who[c]], c) <=> l = "calling",
           loop'[q] = c <=> l = "loop",
           (\E r \in server'[q] : r[1] = c) <=> l = "server",
           (\E r \in answers'[q] : r[1] = c) <=> l = "answers",
           Has(outbox'[q], c) <=> l = "sending",
           Has(fromPeer'[who[c]], c) <=> l = "answering",
           c \in settled' \cup lost' => c \in settled \cup lost
    PROVE  PlaceInv(c)'
  <1>1. /\ At(c, "calling")' <=> Has(toPeer'[who[c]], c)
        /\ At(c, "loop")' <=> loop'[q] = c
        /\ At(c, "server")' <=> \E r \in server'[q] : r[1] = c
        /\ At(c, "answers")' <=> \E r \in answers'[q] : r[1] = c
        /\ At(c, "sending")' <=> Has(outbox'[q], c)
        /\ At(c, "answering")' <=> Has(fromPeer'[who[c]], c)
    BY DEF At, CalledBy
  <1>2. \A m \in Stages : At(c, m)' <=> m = l
    BY <1>1 DEF Stages
  <1> QED
    BY <1>2, MoveKeeps DEF Moves, CalledBy

\* After a step c is nowhere, and PlaceInv holds of it still.
LEMMA Gone ==
    ASSUME NEW c, PlaceInv(c), NEW q, CalledBy(c, q), NEW k \in Stages, At(c, k),
           UNCHANGED who, conn'[who[c]] => c \in settled' \cup lost',
           ~Has(toPeer'[who[c]], c), loop'[q] # c, \A r \in server'[q] : r[1] # c,
           \A r \in answers'[q] : r[1] # c, ~Has(outbox'[q], c), ~Has(fromPeer'[who[c]], c)
    PROVE  PlaceInv(c)'
  <1>1. \A m \in Stages : ~At(c, m)'
    BY DEF At, CalledBy, Stages
  <1> QED
    BY <1>1, EndKeeps DEF Ends, CalledBy

\* Less work for calls.
LEMMA OneEachLess ==
    ASSUME NEW S, OneEach(S), NEW T, T \subseteq S
    PROVE  OneEach(T)
  BY DEF OneEach

\* Work for one more call.
LEMMA OneEachMore ==
    ASSUME NEW S, OneEach(S), NEW r, \A s \in S : s[1] # r[1]
    PROVE  OneEach(S \cup {r})
  BY DEF OneEach

\* What is left when the connection of p has broken.
LEMMA Disconnected ==
    ASSUME Types, NEW p, Disconnect(p), NEW x \in Procs
    PROVE  /\ conn'[x] => /\ conn[x] /\ x # p
                          /\ toPeer'[x] = toPeer[x] /\ fromPeer'[x] = fromPeer[x]
           /\ \A c : /\ Has(toPeer'[x], c) => Has(toPeer[x], c)
                     /\ Has(fromPeer'[x], c) => Has(fromPeer[x], c)
           /\ Once(toPeer[x]) => Once(toPeer'[x])
           /\ Once(fromPeer[x]) => Once(fromPeer'[x])
  <1>1. CASE x = p
    <2>1. ~conn'[x] /\ toPeer'[x] = <<>> /\ fromPeer'[x] = <<>>
      BY <1>1 DEF Disconnect, Types
    <2> QED
      BY <2>1, WireEmpty
  <1>2. CASE x # p
    BY <1>2 DEF Disconnect, Types
  <1> QED
    BY <1>1, <1>2

-----------------------------------------------------------------------------
(***************************************************************************)
(* The calling process                                                      *)
(***************************************************************************)
\* TakeRequest: a call nobody made is put on the wire.
LEMMA TakeRequestKeeps ==
    ASSUME CInv, NEW p \in Procs, NEW c \in Calls, TakeRequest(p, c)
    PROVE  HomeInv' /\ \A d \in Calls : PlaceInv(d)'
  <1> USE CallAssumption
  <1>1. Types /\ HomeInv
    BY TypesAreTypeOK DEF CInv
  <1>2. /\ conn[p] /\ who[c] = NoProc
        /\ \A d \in Calls : who'[d] = IF d = c THEN p ELSE who[d]
        /\ toPeer'[p] = Append(toPeer[p], c) /\ called'[p] = called[p] \cup {c}
        /\ \A x \in Procs \ {p} : toPeer'[x] = toPeer[x] /\ called'[x] = called[x]
        /\ UNCHANGED <<settled, conn, fromPeer, loop, outbox, server, answers, lost>>
    BY <1>1 DEF TakeRequest, Types, serverVars
  <1>3. Target[p] \in Procs /\ c \notin settled \cup lost
    BY <1>1, <1>2 DEF HomeInv, CallerHome, CallHome
  <1>4. /\ \A x \in Procs : ~Has(toPeer[x], c) /\ ~Has(fromPeer[x], c)
        /\ \A q \in Procs : /\ \A r \in server[q] \cup answers[q] : r[1] # c
                            /\ loop[q] # c /\ ~Has(outbox[q], c)
    BY <1>1, <1>2 DEF HomeInv, CallerHome, TargetHome, CalledBy, Types, CallOrNone
  <1>5. /\ \A d : Has(toPeer'[p], d) <=> Has(toPeer[p], d) \/ d = c
        /\ Once(toPeer'[p])
    BY <1>1, <1>2, <1>4, WireAppend DEF Types, HomeInv, CallerHome
  <1>6. HomeInv'
    <2>1. ASSUME NEW x \in Procs PROVE CallerHome(x)'
      <3>1. CallerHome(x)
        BY <1>1 DEF HomeInv
      <3>2. Once(toPeer'[x])
        BY <1>2, <1>5, <3>1 DEF CallerHome
      <3>3. ASSUME NEW d \in Calls, Has(toPeer'[x], d) \/ Has(fromPeer'[x], d) \/ d \in called'[x]
            PROVE  who'[d] = x
        <4>1. CASE x = p
          BY <1>2, <1>5, <3>1, <3>3, <4>1 DEF CallerHome
        <4>2. CASE x # p
          <5>1. toPeer'[x] = toPeer[x] /\ fromPeer'[x] = fromPeer[x] /\ called'[x] = called[x]
            BY <1>2, <4>2
          <5>2. who[d] = x
            BY <3>1, <3>3, <5>1 DEF CallerHome
          <5> QED
            BY <1>2, <5>2
        <4> QED
          BY <4>1, <4>2
      <3> QED
        BY <1>2, <3>1, <3>2, <3>3 DEF CallerHome
    <2>2. ASSUME NEW q \in Procs PROVE TargetHome(q)'
      <3>1. /\ \A r \in server[q] \cup answers[q] : r[1] \in Calls
            /\ loop[q] # NoCall => loop[q] \in Calls
        BY <1>1 DEF Types, Work, CallOrNone
      <3> QED
        BY <1>1, <1>2, <1>4, <3>1 DEF HomeInv, TargetHome, CalledBy
    <2>3. ASSUME NEW d \in Calls PROVE CallHome(d)'
      BY <1>1, <1>2, <1>3 DEF HomeInv, CallHome
    <2> QED
      BY <2>1, <2>2, <2>3 DEF HomeInv
  <1>7. ASSUME NEW d \in Calls PROVE PlaceInv(d)'
    <2>1. CASE d = c
      <3>1. \A k \in Stages : At(c, k)' <=> k = "calling"
        BY <1>2, <1>3, <1>4, <1>5 DEF At, Stages
      <3> QED
        BY <1>2, <1>3, <2>1, <3>1 DEF PlaceInv, Stages
    <2>2. CASE d # c
      <3>1. SUFFICES ASSUME who[d] \in Procs PROVE PlaceInv(d)'
        BY <1>2, <2>2 DEF PlaceInv
      <3>2. who'[d] = who[d] /\ \A x \in Procs : d \in called'[x] <=> d \in called[x]
        BY <1>2, <2>2
      <3>3. \A x \in Procs : Has(toPeer'[x], d) <=> Has(toPeer[x], d)
        BY <1>2, <1>5, <2>2
      <3>4. Steady(d)
        BY <1>2, <3>1, <3>2, <3>3 DEF Steady, At, Stages
      <3> QED
        BY <3>4, SteadyKeeps DEF CInv
    <2> QED
      BY <2>1, <2>2
  <1> QED
    BY <1>6, <1>7

\* A connection that breaks, of whatever cause, takes what is on its wires along.
LEMMA HangupKeeps ==
    ASSUME CInv, NEW p, Disconnect(p),
           UNCHANGED <<who, called, settled, loop, outbox, server, answers, lost>>
    PROVE  HomeInv' /\ \A d \in Calls : PlaceInv(d)'
  <1>1. Types /\ HomeInv
    BY TypesAreTypeOK DEF CInv
  <1>2. HomeInv'
    BY <1>1, Disconnected DEF HomeInv, CallerHome, TargetHome, CallHome, CalledBy
  <1>3. ASSUME NEW d \in Calls PROVE PlaceInv(d)'
    <2>1. SUFFICES ASSUME who[d] \in Procs PROVE PlaceInv(d)'
      BY DEF PlaceInv
    <2>2. Steady(d)
      BY <1>1, <2>1, Disconnected DEF Steady, At, Stages
    <2> QED
      BY <2>2, SteadyKeeps DEF CInv
  <1> QED
    BY <1>2, <1>3

\* OnAnswer: an answer settles its call, or an unknown one breaks the connection.
LEMMA AnswerKeeps ==
    ASSUME CInv, NEW p \in Procs, OnAnswer(p)
    PROVE  HomeInv' /\ \A d \in Calls : PlaceInv(d)'
  <1>1. Types /\ HomeInv
    BY TypesAreTypeOK DEF CInv
  <1> DEFINE c == Head(fromPeer[p])
  <1>2. /\ conn[p] /\ fromPeer[p] # <<>>
        /\ UNCHANGED <<who, called, loop, outbox, server, answers, lost>>
        /\ \/ Disconnect(p) /\ UNCHANGED settled
           \/ /\ settled' = settled \cup {c}
              /\ fromPeer' = [fromPeer EXCEPT ![p] = Tail(@)] /\ UNCHANGED <<conn, toPeer>>
    BY DEF OnAnswer, serverVars
  <1>3. CASE Disconnect(p) /\ UNCHANGED settled
    BY <1>2, <1>3, HangupKeeps
  <1>4. CASE /\ settled' = settled \cup {c}
             /\ fromPeer' = [fromPeer EXCEPT ![p] = Tail(@)] /\ UNCHANGED <<conn, toPeer>>
    <2>1. /\ c \in Calls
          /\ \A x \in Procs : fromPeer'[x] = IF x = p THEN Tail(fromPeer[x]) ELSE fromPeer[x]
          /\ \A d : Has(fromPeer[p], d) <=> Has(fromPeer'[p], d) \/ d = c
          /\ Once(fromPeer'[p]) /\ ~Has(fromPeer'[p], c)
      BY <1>1, <1>2, <1>4, WireTail DEF Types, HomeInv, CallerHome
    <2> HIDE DEF c
    <2>2. who[c] = p
      BY <1>1, <2>1 DEF HomeInv, CallerHome
    <2>3. HomeInv'
      BY <1>1, <1>2, <1>4, <2>1, <2>2, CallAssumption
         DEF HomeInv, CallerHome, TargetHome, CallHome, CalledBy
    <2>4. ASSUME NEW d \in Calls PROVE PlaceInv(d)'
      <3>1. SUFFICES ASSUME who[d] \in Procs PROVE PlaceInv(d)'
        BY <1>2 DEF PlaceInv
      <3>2. CASE d = c
        <4>1. CalledBy(c, Target[p]) /\ At(c, "answering") /\ PlaceInv(c)
          BY <2>1, <2>2, <3>2 DEF CalledBy, At, CInv
        <4>2. /\ ~Has(toPeer[p], c) /\ loop[Target[p]] # c /\ ~Has(outbox[Target[p]], c)
              /\ \A r \in server[Target[p]] \cup answers[Target[p]] : r[1] # c
          BY <2>2, <4>1, Before DEF Stages
        <4> QED
          BY <1>2, <1>4, <2>1, <2>2, <3>2, <4>1, <4>2, Gone DEF Stages
      <3>3. CASE d # c
        <4>1. Steady(d)
          BY <1>2, <1>4, <2>1, <3>1, <3>3 DEF Steady, At, Stages
        <4> QED
          BY <4>1, SteadyKeeps DEF CInv
      <3> QED
        BY <3>2, <3>3
    <2> QED
      BY <2>3, <2>4
  <1> QED
    BY <1>2, <1>3, <1>4

\* Close and Finish: calls are settled on a closed connection, and returned.
LEMMA FinishKeeps ==
    ASSUME CInv, NEW p \in Procs, Close(p) \/ \E c \in Calls : Finish(p, c)
    PROVE  HomeInv' /\ \A d \in Calls : PlaceInv(d)'
  <1>1. Types /\ HomeInv
    BY TypesAreTypeOK DEF CInv
  <1>2. /\ UNCHANGED <<who, conn, toPeer, fromPeer, loop, outbox, server, answers, lost>>
        /\ \A x \in Procs : called'[x] \subseteq called[x]
        /\ settled' = settled \/ (~conn[p] /\ settled' = settled \cup called[p])
    <2>1. CASE Close(p)
      BY <2>1 DEF Close, wireVars, serverVars
    <2>2. ASSUME NEW c \in Calls, Finish(p, c)
          PROVE  /\ UNCHANGED <<who, settled, conn, toPeer, fromPeer, loop, outbox, server,
                                answers, lost>>
                 /\ \A x \in Procs : called'[x] \subseteq called[x]
      BY <1>1, <2>2 DEF Finish, Types, wireVars, serverVars
    <2> QED
      BY <2>1, <2>2
  <1>3. \A c \in called[p] : c \in Calls /\ who[c] = p
    BY <1>1 DEF HomeInv, CallerHome, Types
  <1>4. HomeInv'
    BY <1>1, <1>2, <1>3, CallAssumption
         DEF HomeInv, CallerHome, TargetHome, CallHome, CalledBy
  <1>5. ASSUME NEW d \in Calls PROVE PlaceInv(d)'
    <2>1. SUFFICES ASSUME who[d] \in Procs PROVE PlaceInv(d)'
      BY <1>2 DEF PlaceInv
    <2>2. Steady(d)
      BY <1>2, <1>3, <2>1 DEF Steady, At, Stages
    <2> QED
      BY <2>2, SteadyKeeps DEF CInv
  <1> QED
    BY <1>4, <1>5

-----------------------------------------------------------------------------
(***************************************************************************)
(* The called process                                                       *)
(***************************************************************************)
\* The local server of q has one more thing to do, for c.
OneMore(c, q) ==
    /\ \A x \in Procs \ {q} : server'[x] = server[x]
    /\ \A d : (\E r \in server'[q] : r[1] = d) <=> d = c \/ \E r \in server[q] : r[1] = d
    /\ \A x \in Procs : OneEach(server'[x])
    /\ \A x \in Procs : \A r \in server'[x] : r \in server[x] \/ (x = q /\ r[1] = c)

\* The local server is asked about c.
LEMMA Asked ==
    ASSUME Types, HomeInv, NEW q \in Procs, NEW c \in Calls, CalledBy(c, q), Ask(c, q),
           ~At(c, "server"), UNCHANGED who
    PROVE  OneMore(c, q)
  <1>1. /\ \A x \in Procs \ {q} : server'[x] = server[x]
        /\ server'[q] = server[q] \cup {Request(c, q)}
    BY DEF Ask, Types
  <1>2. Request(c, q)[1] = c
    BY DEF Request
  <1>3. \A r \in server[q] : r[1] # c
    BY DEF At, CalledBy
  <1>4. OneEach(server'[q])
    BY <1>1, <1>2, <1>3, OneEachMore DEF HomeInv, TargetHome
  <1> DEFINE new == Request(c, q)
  <1> HIDE DEF new
  <1>5. server'[q] = server[q] \cup {new} /\ new[1] = c
    BY <1>1, <1>2 DEF new
  <1>6. \A d : (\E r \in server'[q] : r[1] = d) <=> d = c \/ \E r \in server[q] : r[1] = d
    BY <1>5
  <1>7. \A x \in Procs : OneEach(server'[x])
    BY <1>1, <1>4 DEF HomeInv, TargetHome
  <1>8. ASSUME NEW x \in Procs, NEW r \in server'[x]
        PROVE  r \in server[x] \/ (x = q /\ r[1] = c)
    BY <1>1, <1>5, <1>8
  <1> QED
    BY <1>1, <1>6, <1>7, <1>8 DEF OneMore

\* Serve: the call goes from the wire to the local server or to the waiting loop.
LEMMA ServeKeeps ==
    ASSUME CInv, NEW p \in Procs, NEW q, q = Target[p], conn[p], toPeer[p] # <<>>,
           loop[q] = NoCall, Serve(p, q, Head(toPeer[p])),
           UNCHANGED <<who, called, settled, outbox, answers, lost>>
    PROVE  HomeInv' /\ \A d \in Calls : PlaceInv(d)'
  <1> DEFINE c == Head(toPeer[p])
  <1>1. Types /\ HomeInv /\ q \in Procs
    BY TypesAreTypeOK DEF CInv, HomeInv, CallerHome
  <1>2. /\ c \in Calls /\ toPeer'[p] = Tail(toPeer[p])
        /\ \A x \in Procs \ {p} : toPeer'[x] = toPeer[x]
        /\ \A d : Has(toPeer[p], d) <=> Has(toPeer'[p], d) \/ d = c
        /\ Once(toPeer'[p]) /\ ~Has(toPeer'[p], c)
        /\ UNCHANGED <<conn, fromPeer>>
    BY <1>1, WireTail DEF Serve, Types, HomeInv, CallerHome
  <1>3. \/ Ask(c, q) /\ UNCHANGED loop
        \/ UNCHANGED server /\ loop' = [loop EXCEPT ![q] = c]
    BY DEF Serve
  <1> HIDE DEF c
  <1>4. who[c] = p /\ CalledBy(c, q)
    BY <1>1, <1>2 DEF HomeInv, CallerHome, CalledBy
  <1>5. At(c, "calling") /\ PlaceInv(c)
    BY <1>2, <1>4 DEF At, CInv
  <1>6. /\ loop[q] # c /\ ~Has(outbox[q], c) /\ ~Has(fromPeer[p], c)
        /\ \A r \in server[q] \cup answers[q] : r[1] # c
    BY <1>4, <1>5, Before DEF Stages
  <1>7. \A x \in Procs : CallerHome(x)'
    BY <1>1, <1>2 DEF HomeInv, CallerHome
  <1>8. \A d \in Calls : CallHome(d)'
    BY <1>1 DEF HomeInv, CallHome
  <1>9. CASE Ask(c, q) /\ UNCHANGED loop
    <2>1. ~At(c, "server")
      BY <1>4, <1>6 DEF At, CalledBy
    <2>2. /\ \A x \in Procs \ {q} : server'[x] = server[x]
          /\ \A d : (\E r \in server'[q] : r[1] = d) <=> d = c \/ \E r \in server[q] : r[1] = d
          /\ \A x \in Procs : OneEach(server'[x])
          /\ \A x \in Procs : \A r \in server'[x] : r \in server[x] \/ (x = q /\ r[1] = c)
      <3>1. OneMore(c, q)
        BY <1>1, <1>2, <1>4, <1>9, <2>1, Asked
      <3> QED
        BY <3>1 DEF OneMore
    <2>3. \A x \in Procs : TargetHome(x)'
      BY <1>1, <1>4, <1>9, <2>2 DEF HomeInv, TargetHome, CalledBy
    <2>4. ASSUME NEW d \in Calls PROVE PlaceInv(d)'
      <3>1. SUFFICES ASSUME who[d] \in Procs PROVE PlaceInv(d)'
        BY DEF PlaceInv
      <3>2. CASE d = c
        <4>1. \E r \in server'[q] : r[1] = c
          BY <2>2
        <4> QED
          BY <1>2, <1>4, <1>5, <1>6, <1>9, <3>2, <4>1, Moved DEF Stages
      <3>3. CASE d # c
        <4>1. \A x \in Procs : (\E r \in server'[x] : r[1] = d) <=> \E r \in server[x] : r[1] = d
          BY <2>2, <3>3
        <4>2. Steady(d)
          BY <1>1, <1>2, <1>9, <3>1, <3>3, <4>1 DEF Steady, At, Stages, HomeInv, CallHome
        <4> QED
          BY <4>2, SteadyKeeps DEF CInv
      <3> QED
        BY <3>2, <3>3
    <2> QED
      BY <1>7, <1>8, <2>3, <2>4 DEF HomeInv
  <1>10. CASE UNCHANGED server /\ loop' = [loop EXCEPT ![q] = c]
    <2>1. loop'[q] = c /\ \A x \in Procs \ {q} : loop'[x] = loop[x]
      BY <1>1, <1>10 DEF Types
    <2>2. \A x \in Procs : TargetHome(x)'
      BY <1>1, <1>4, <1>10, <2>1 DEF HomeInv, TargetHome, CalledBy
    <2>3. ASSUME NEW d \in Calls PROVE PlaceInv(d)'
      <3>1. SUFFICES ASSUME who[d] \in Procs PROVE PlaceInv(d)'
        BY DEF PlaceInv
      <3>2. CASE d = c
        BY <1>2, <1>4, <1>5, <1>6, <1>10, <2>1, <3>2, Moved DEF Stages
      <3>3. CASE d # c
        <4>1. \A x \in Procs : loop'[x] = d <=> loop[x] = d
          BY <2>1, <3>3, CallAssumption
        <4>2. Steady(d)
          BY <1>1, <1>2, <1>10, <3>1, <3>3, <4>1 DEF Steady, At, Stages, HomeInv, CallHome
        <4> QED
          BY <4>2, SteadyKeeps DEF CInv
      <3> QED
        BY <3>2, <3>3
    <2> QED
      BY <1>7, <1>8, <2>2, <2>3 DEF HomeInv
  <1> QED
    BY <1>3, <1>9, <1>10

\* OnCallService and OnCallAction: Serve, or an exception that ends the connection.
LEMMA RequestKeeps ==
    ASSUME CInv, NEW p \in Procs, OnCallService(p) \/ OnCallAction(p)
    PROVE  HomeInv' /\ \A d \in Calls : PlaceInv(d)'
  <1>1. /\ conn[p] /\ toPeer[p] # <<>> /\ loop[Target[p]] = NoCall
        /\ UNCHANGED <<who, called, settled, outbox, answers, lost>>
        /\ \/ Disconnect(p) /\ UNCHANGED <<server, loop>>
           \/ Serve(p, Target[p], Head(toPeer[p]))
    BY DEF OnCallService, OnCallAction, proxyVars
  <1> QED
    BY <1>1, HangupKeeps, ServeKeeps

\* A call for whose server the loop waited.
LEMMA WaitedFor ==
    ASSUME CInv, NEW q \in Procs, NEW c, c = loop[q], c # NoCall
    PROVE  /\ c \in Calls /\ CalledBy(c, q) /\ who[c] \in Procs
           /\ At(c, "loop") /\ PlaceInv(c)
           /\ ~Has(toPeer[who[c]], c) /\ ~Has(fromPeer[who[c]], c) /\ ~Has(outbox[q], c)
           /\ \A r \in server[q] \cup answers[q] : r[1] # c
  <1>1. c \in Calls /\ CalledBy(c, q)
    BY TypesAreTypeOK DEF CInv, Types, CallOrNone, HomeInv, TargetHome
  <1>2. who[c] \in Procs /\ At(c, "loop") /\ PlaceInv(c)
    BY <1>1 DEF CalledBy, At, CInv
  <1> QED
    BY <1>1, <1>2, Before DEF Stages

\* EndWait: the local server is asked at last, or the call is lost.
LEMMA EndWaitKeeps ==
    ASSUME CInv, NEW q \in Procs, EndWait(q)
    PROVE  HomeInv' /\ \A d \in Calls : PlaceInv(d)'
  <1> DEFINE c == loop[q]
  <1>1. Types /\ HomeInv
    BY TypesAreTypeOK DEF CInv
  <1>2. /\ c \in Calls /\ c # NoCall /\ CalledBy(c, q) /\ who[c] \in Procs
        /\ At(c, "loop") /\ PlaceInv(c)
        /\ ~Has(toPeer[who[c]], c) /\ ~Has(fromPeer[who[c]], c) /\ ~Has(outbox[q], c)
        /\ \A r \in server[q] \cup answers[q] : r[1] # c
    BY WaitedFor DEF EndWait
  <1>3. /\ UNCHANGED <<who, called, settled, conn, toPeer, fromPeer, outbox, answers>>
        /\ \/ Ask(c, q) /\ UNCHANGED lost
           \/ lost' = lost \cup {c} /\ UNCHANGED server
    BY DEF EndWait, proxyVars, wireVars
  <1>4. loop'[q] = NoCall /\ \A x \in Procs \ {q} : loop'[x] = loop[x]
    BY <1>1 DEF EndWait, Types
  <1>5. loop[q] = c
    OBVIOUS
  <1> HIDE DEF c
  <1>6. \A x \in Procs : CallerHome(x)'
    BY <1>1, <1>3 DEF HomeInv, CallerHome
  <1>7. \A d \in Calls : CallHome(d)'
    BY <1>1, <1>2, <1>3, CallAssumption DEF HomeInv, CallHome
  <1>8. ASSUME NEW d \in Calls, d # c, NEW x \in Procs PROVE loop'[x] = d <=> loop[x] = d
    BY <1>4, <1>5, <1>8, CallAssumption
  <1>9. CASE Ask(c, q) /\ UNCHANGED lost
    <2>1. ~At(c, "server")
      BY <1>2 DEF At, CalledBy
    <2>2. /\ \A x \in Procs \ {q} : server'[x] = server[x]
          /\ \A d : (\E r \in server'[q] : r[1] = d) <=> d = c \/ \E r \in server[q] : r[1] = d
          /\ \A x \in Procs : OneEach(server'[x])
          /\ \A x \in Procs : \A r \in server'[x] : r \in server[x] \/ (x = q /\ r[1] = c)
      <3>1. OneMore(c, q)
        BY <1>1, <1>2, <1>3, <1>9, <2>1, Asked
      <3> QED
        BY <3>1 DEF OneMore
    <2>3. \A x \in Procs : TargetHome(x)'
      BY <1>1, <1>2, <1>3, <1>4, <2>2 DEF HomeInv, TargetHome, CalledBy
    <2>4. ASSUME NEW d \in Calls PROVE PlaceInv(d)'
      <3>1. SUFFICES ASSUME who[d] \in Procs PROVE PlaceInv(d)'
        BY <1>3 DEF PlaceInv
      <3>2. CASE d = c
        <4>1. \E r \in server'[q] : r[1] = c
          BY <2>2
        <4> QED
          BY <1>2, <1>3, <1>4, <1>9, <3>2, <4>1, Moved DEF Stages
      <3>3. CASE d # c
        <4>1. \A x \in Procs : (\E r \in server'[x] : r[1] = d) <=> \E r \in server[x] : r[1] = d
          BY <2>2, <3>3
        <4>2. Steady(d)
          BY <1>1, <1>3, <1>8, <1>9, <3>1, <3>3, <4>1 DEF Steady, At, Stages, HomeInv, CallHome
        <4> QED
          BY <4>2, SteadyKeeps DEF CInv
      <3> QED
        BY <3>2, <3>3
    <2> QED
      BY <1>6, <1>7, <2>3, <2>4 DEF HomeInv
  <1>10. CASE lost' = lost \cup {c} /\ UNCHANGED server
    <2>1. \A x \in Procs : TargetHome(x)'
      BY <1>1, <1>3, <1>4, <1>10 DEF HomeInv, TargetHome, CalledBy
    <2>2. ASSUME NEW d \in Calls PROVE PlaceInv(d)'
      <3>1. SUFFICES ASSUME who[d] \in Procs PROVE PlaceInv(d)'
        BY <1>3 DEF PlaceInv
      <3>2. CASE d = c
        BY <1>2, <1>3, <1>4, <1>10, <3>2, Gone DEF Stages
      <3>3. CASE d # c
        <4>1. Steady(d)
          BY <1>1, <1>3, <1>8, <1>10, <3>1, <3>3 DEF Steady, At, Stages, HomeInv, CallHome
        <4> QED
          BY <4>1, SteadyKeeps DEF CInv
      <3> QED
        BY <3>2, <3>3
    <2> QED
      BY <1>6, <1>7, <2>1, <2>2 DEF HomeInv
  <1> QED
    BY <1>3, <1>9, <1>10

\* WaitRaises: the caller's connection goes, with the call the loop waited for.
LEMMA WaitRaisesKeeps ==
    ASSUME CInv, NEW q \in Procs, WaitRaises(q)
    PROVE  HomeInv' /\ \A d \in Calls : PlaceInv(d)'
  <1> DEFINE c == loop[q]
  <1>1. Types /\ HomeInv
    BY TypesAreTypeOK DEF CInv
  <1>2. /\ c \in Calls /\ c # NoCall /\ CalledBy(c, q) /\ who[c] \in Procs
        /\ At(c, "loop") /\ PlaceInv(c)
        /\ ~Has(toPeer[who[c]], c) /\ ~Has(fromPeer[who[c]], c) /\ ~Has(outbox[q], c)
        /\ \A r \in server[q] \cup answers[q] : r[1] # c
    BY WaitedFor DEF WaitRaises
  <1>3. /\ UNCHANGED <<who, called, settled, outbox, server, answers, lost>>
        /\ Disconnect(who[c])
    BY DEF WaitRaises, proxyVars, serverVars
  <1>4. loop'[q] = NoCall /\ \A x \in Procs \ {q} : loop'[x] = loop[x]
    BY <1>1 DEF WaitRaises, Types
  <1>5. loop[q] = c
    OBVIOUS
  <1> HIDE DEF c
  <1>6. HomeInv'
    <2>1. \A x \in Procs : CallerHome(x)'
      BY <1>1, <1>3, Disconnected DEF HomeInv, CallerHome
    <2>2. \A x \in Procs : TargetHome(x)'
      BY <1>1, <1>3, <1>4 DEF HomeInv, TargetHome, CalledBy
    <2>3. \A d \in Calls : CallHome(d)'
      BY <1>1, <1>3 DEF HomeInv, CallHome
    <2> QED
      BY <2>1, <2>2, <2>3 DEF HomeInv
  <1>7. ASSUME NEW d \in Calls PROVE PlaceInv(d)'
    <2>1. SUFFICES ASSUME who[d] \in Procs PROVE PlaceInv(d)'
      BY <1>3 DEF PlaceInv
    <2>2. CASE d = c
      <3>1. /\ ~conn'[who[c]]
            /\ Has(toPeer'[who[c]], c) => Has(toPeer[who[c]], c)
            /\ Has(fromPeer'[who[c]], c) => Has(fromPeer[who[c]], c)
        BY <1>1, <1>2, <1>3, Disconnected
      <3> QED
        BY <1>2, <1>3, <1>4, <2>2, <3>1, Gone DEF Stages
    <2>3. CASE d # c
      <3>1. \A x \in Procs : loop'[x] = d <=> loop[x] = d
        BY <1>4, <1>5, <2>3, CallAssumption
      <3>2. Steady(d)
        BY <1>1, <1>3, <2>1, <3>1, Disconnected DEF Steady, At, Stages, HomeInv, CallHome
      <3> QED
        BY <3>2, SteadyKeeps DEF CInv
    <2> QED
      BY <2>2, <2>3
  <1> QED
    BY <1>6, <1>7

-----------------------------------------------------------------------------
(***************************************************************************)
(* The local server, and the ROS thread                                     *)
(***************************************************************************)
\* A call the local server has to answer is nowhere else.
LEMMA ServerHas ==
    ASSUME CInv, NEW q \in Procs, NEW r \in server[q], NEW c, c = r[1]
    PROVE  /\ c \in Calls /\ CalledBy(c, q) /\ who[c] \in Procs
           /\ At(c, "server") /\ PlaceInv(c)
           /\ ~Has(toPeer[who[c]], c) /\ ~Has(fromPeer[who[c]], c)
           /\ loop[q] # c /\ ~Has(outbox[q], c)
           /\ \A s \in answers[q] : s[1] # c
           /\ \A s \in server[q] \ {r} : s[1] # c
  <1>1. c \in Calls /\ CalledBy(c, q) /\ OneEach(server[q])
    BY TypesAreTypeOK DEF CInv, Types, Work, HomeInv, TargetHome
  <1>2. who[c] \in Procs /\ At(c, "server") /\ PlaceInv(c)
    BY <1>1 DEF CalledBy, At, CInv
  <1>3. \A s \in server[q] \ {r} : s[1] # c
    BY <1>1 DEF OneEach
  <1> QED
    BY <1>1, <1>2, <1>3, Before DEF Stages

\* One that is answered.
LEMMA AnswersHave ==
    ASSUME CInv, NEW q \in Procs, NEW r \in answers[q], NEW c, c = r[1]
    PROVE  /\ c \in Calls /\ CalledBy(c, q) /\ who[c] \in Procs
           /\ At(c, "answers") /\ PlaceInv(c)
           /\ ~Has(toPeer[who[c]], c) /\ ~Has(fromPeer[who[c]], c)
           /\ loop[q] # c /\ ~Has(outbox[q], c)
           /\ \A s \in server[q] : s[1] # c
           /\ \A s \in answers[q] \ {r} : s[1] # c
  <1>1. c \in Calls /\ CalledBy(c, q) /\ OneEach(answers[q])
    BY TypesAreTypeOK DEF CInv, Types, Work, HomeInv, TargetHome
  <1>2. who[c] \in Procs /\ At(c, "answers") /\ PlaceInv(c)
    BY <1>1 DEF CalledBy, At, CInv
  <1>3. \A s \in answers[q] \ {r} : s[1] # c
    BY <1>1 DEF OneEach
  <1> QED
    BY <1>1, <1>2, <1>3, Before DEF Stages

\* One whose answer the loop is to send next.
LEMMA SendingHas ==
    ASSUME CInv, NEW q \in Procs, outbox[q] # <<>>, NEW c, c = Head(outbox[q])
    PROVE  /\ c \in Calls /\ CalledBy(c, q) /\ who[c] \in Procs
           /\ At(c, "sending") /\ PlaceInv(c)
           /\ ~Has(toPeer[who[c]], c) /\ ~Has(fromPeer[who[c]], c) /\ loop[q] # c
           /\ \A r \in server[q] \cup answers[q] : r[1] # c
  <1>1. c \in Calls /\ Has(outbox[q], c)
    BY TypesAreTypeOK, WireTail DEF CInv, Types
  <1>2. CalledBy(c, q)
    BY <1>1 DEF CInv, HomeInv, TargetHome
  <1>3. who[c] \in Procs /\ At(c, "sending") /\ PlaceInv(c)
    BY <1>1, <1>2 DEF CalledBy, At, CInv
  <1> QED
    BY <1>1, <1>2, <1>3, Before DEF Stages

\* Work that is taken out of one set, and put into another one, is the same
\* for every other call.
LEMMA WorkMoves ==
    ASSUME NEW S, NEW r, NEW c, r[1] = c
    PROVE  \A d : d # c => /\ (\E s \in S \ {r} : s[1] = d) <=> \E s \in S : s[1] = d
                           /\ (\E s \in S \cup {r} : s[1] = d) <=> \E s \in S : s[1] = d
  OBVIOUS

\* Answer: the call goes from the local server to its answers.
LEMMA LocalAnswerKeeps ==
    ASSUME CInv, NEW q \in Procs, NEW c, NEW what, Answer(q, c, what)
    PROVE  HomeInv' /\ \A d \in Calls : PlaceInv(d)'
  <1> DEFINE old == <<c, what>>
  <1>1. Types /\ HomeInv
    BY TypesAreTypeOK DEF CInv
  <1>2. PICK reply : answers' = [answers EXCEPT ![q] = @ \cup {<<c, reply>>}]
    BY DEF Answer
  <1> DEFINE new == <<c, reply>>
  <1>3. old[1] = c /\ new[1] = c
    OBVIOUS
  <1>4. /\ old \in server[q]
        /\ server'[q] = server[q] \ {old} /\ \A x \in Procs \ {q} : server'[x] = server[x]
        /\ answers'[q] = answers[q] \cup {new} /\ \A x \in Procs \ {q} : answers'[x] = answers[x]
        /\ UNCHANGED <<who, called, settled, conn, toPeer, fromPeer, loop, outbox, lost>>
    BY <1>1, <1>2 DEF Answer, Types, proxyVars, wireVars
  <1> HIDE DEF old, new
  <1>5. /\ c \in Calls /\ CalledBy(c, q) /\ who[c] \in Procs
        /\ At(c, "server") /\ PlaceInv(c)
        /\ ~Has(toPeer[who[c]], c) /\ ~Has(fromPeer[who[c]], c)
        /\ loop[q] # c /\ ~Has(outbox[q], c)
        /\ \A s \in answers[q] : s[1] # c
        /\ \A s \in server[q] \ {old} : s[1] # c
    BY <1>3, <1>4, ServerHas
  <1>6. \A x \in Procs : CallerHome(x)'
    BY <1>1, <1>4 DEF HomeInv, CallerHome
  <1>7. \A d \in Calls : CallHome(d)'
    BY <1>1, <1>4 DEF HomeInv, CallHome
  <1>8. ASSUME NEW x \in Procs PROVE TargetHome(x)'
    <2>1. OneEach(server'[x]) /\ OneEach(answers'[x])
      <3>1. OneEach(server[x]) /\ OneEach(answers[x])
        BY <1>1 DEF HomeInv, TargetHome
      <3>2. CASE x = q
        <4>1. server'[x] \subseteq server[x]
          BY <1>4, <3>2
        <4>2. OneEach(answers[q] \cup {new})
          BY <1>3, <1>5, <3>1, <3>2, OneEachMore
        <4> QED
          BY <1>4, <3>1, <3>2, <4>1, <4>2, OneEachLess
      <3>3. CASE x # q
        BY <1>4, <3>1, <3>3
      <3> QED
        BY <3>2, <3>3
    <2>2. \A r \in server'[x] \cup answers'[x] : r \in server[x] \cup answers[x] \/ (x = q /\ r[1] = c)
      BY <1>3, <1>4
    <2> QED
      BY <1>1, <1>4, <1>5, <2>1, <2>2 DEF HomeInv, TargetHome, CalledBy
  <1>9. ASSUME NEW d \in Calls PROVE PlaceInv(d)'
    <2>1. SUFFICES ASSUME who[d] \in Procs PROVE PlaceInv(d)'
      BY <1>4 DEF PlaceInv
    <2>2. CASE d = c
      <3>1. (\E r \in answers'[q] : r[1] = c) /\ \A r \in server'[q] : r[1] # c
        BY <1>3, <1>4, <1>5
      <3> QED
        BY <1>4, <1>5, <2>2, <3>1, Moved DEF Stages
    <2>3. CASE d # c
      <3>1. \A x \in Procs : /\ (\E r \in server'[x] : r[1] = d) <=> \E r \in server[x] : r[1] = d
                             /\ (\E r \in answers'[x] : r[1] = d) <=> \E r \in answers[x] : r[1] = d
        BY <1>3, <1>4, <2>3, WorkMoves
      <3>2. Steady(d)
        BY <1>1, <1>4, <2>1, <3>1 DEF Steady, At, Stages, HomeInv, CallHome
      <3> QED
        BY <3>2, SteadyKeeps DEF CInv
    <2> QED
      BY <2>2, <2>3
  <1> QED
    BY <1>6, <1>7, <1>8, <1>9 DEF HomeInv

\* ChangeServer: the calls the server had are lost with it.
LEMMA ChangeServerKeeps ==
    ASSUME CInv, NEW q \in Procs, ChangeServer(q)
    PROVE  HomeInv' /\ \A d \in Calls : PlaceInv(d)'
  <1>1. Types /\ HomeInv
    BY TypesAreTypeOK DEF CInv
  <1>2. /\ server'[q] = {} /\ \A x \in Procs \ {q} : server'[x] = server[x]
        /\ \A d : d \in lost' <=> d \in lost \/ \E r \in server[q] : r[1] = d
        /\ UNCHANGED <<who, called, settled, conn, toPeer, fromPeer, loop, outbox, answers>>
    BY <1>1 DEF ChangeServer, Types, proxyVars, wireVars
  <1>3. \A r \in server[q] : r[1] \in Calls /\ CalledBy(r[1], q)
    BY <1>1 DEF HomeInv, TargetHome, Types, Work
  <1>4. HomeInv'
    <2>1. \A x \in Procs : CallerHome(x)'
      BY <1>1, <1>2 DEF HomeInv, CallerHome
    <2>2. ASSUME NEW x \in Procs PROVE TargetHome(x)'
      <3>1. server'[x] \subseteq server[x]
        BY <1>2
      <3> QED
        BY <1>1, <1>2, <3>1, OneEachLess DEF HomeInv, TargetHome, CalledBy
    <2>3. \A d \in Calls : CallHome(d)'
      BY <1>1, <1>2, <1>3, CallAssumption DEF HomeInv, CallHome, CalledBy
    <2> QED
      BY <2>1, <2>2, <2>3 DEF HomeInv
  <1>5. ASSUME NEW d \in Calls PROVE PlaceInv(d)'
    <2>1. SUFFICES ASSUME who[d] \in Procs PROVE PlaceInv(d)'
      BY <1>2 DEF PlaceInv
    <2>2. ASSUME NEW r \in server[q], r[1] = d PROVE PlaceInv(d)'
      <3>1. /\ CalledBy(d, q) /\ At(d, "server") /\ PlaceInv(d)
            /\ ~Has(toPeer[who[d]], d) /\ ~Has(fromPeer[who[d]], d)
            /\ loop[q] # d /\ ~Has(outbox[q], d)
            /\ \A s \in answers[q] : s[1] # d
        BY <2>2, ServerHas
      <3>2. d \in lost'
        BY <1>2, <2>2
      <3> QED
        BY <1>2, <3>1, <3>2, Gone DEF Stages
    <2>3. CASE \A r \in server[q] : r[1] # d
      <3>1. \A x \in Procs : (\E r \in server'[x] : r[1] = d) <=> \E r \in server[x] : r[1] = d
        BY <1>2, <2>3
      <3>2. d \in lost' <=> d \in lost
        BY <1>2, <2>3
      <3>3. Steady(d)
        BY <1>1, <1>2, <2>1, <3>1, <3>2 DEF Steady, At, Stages, HomeInv, CallHome
      <3> QED
        BY <3>3, SteadyKeeps DEF CInv
    <2> QED
      BY <2>2, <2>3
  <1> QED
    BY <1>4, <1>5

\* Feedback, a send that times out, and stuttering: nothing a call depends on changes.
LEMMA FeedbackKeeps ==
    ASSUME CInv, UNCHANGED <<who, called, settled, conn, toPeer, fromPeer, loop, outbox,
                             server, answers, lost>>
    PROVE  HomeInv' /\ \A d \in Calls : PlaceInv(d)'
  <1>1. HomeInv'
    BY DEF CInv, HomeInv, CallerHome, TargetHome, CallHome, CalledBy
  <1>2. ASSUME NEW d \in Calls PROVE PlaceInv(d)'
    <2>1. Steady(d)
      BY DEF Steady, At, Stages
    <2> QED
      BY <2>1, SteadyKeeps DEF CInv
  <1> QED
    BY <1>1, <1>2

\* GoalResponse: an accepted goal is asked for its result, a rejected one lost.
LEMMA GoalResponseKeeps ==
    ASSUME CInv, NEW q \in Procs, NEW c, GoalResponse(q, c)
    PROVE  HomeInv' /\ \A d \in Calls : PlaceInv(d)'
  <1>1. Types /\ HomeInv
    BY TypesAreTypeOK DEF CInv
  <1>2. PICK reply : /\ <<c, reply>> \in answers[q]
                     /\ answers' = [answers EXCEPT ![q] = @ \ {<<c, reply>>}]
                     /\ \/ /\ server' = [server EXCEPT ![q] = @ \cup {<<c, "result">>}]
                           /\ UNCHANGED lost
                        \/ lost' = lost \cup {c} /\ UNCHANGED server
    BY DEF GoalResponse
  <1> DEFINE old == <<c, reply>>
             new == <<c, "result">>
  <1>3. old[1] = c /\ new[1] = c
    OBVIOUS
  <1>4. /\ old \in answers[q]
        /\ answers'[q] = answers[q] \ {old} /\ \A x \in Procs \ {q} : answers'[x] = answers[x]
        /\ UNCHANGED <<who, called, settled, conn, toPeer, fromPeer, loop, outbox>>
    BY <1>1, <1>2 DEF GoalResponse, Types, proxyVars, wireVars
  <1>5. \/ /\ server'[q] = server[q] \cup {new}
           /\ \A x \in Procs \ {q} : server'[x] = server[x]
           /\ UNCHANGED lost
        \/ lost' = lost \cup {c} /\ UNCHANGED server
    BY <1>1, <1>2 DEF Types
  <1> HIDE DEF old, new
  <1>6. /\ c \in Calls /\ CalledBy(c, q) /\ who[c] \in Procs
        /\ At(c, "answers") /\ PlaceInv(c)
        /\ ~Has(toPeer[who[c]], c) /\ ~Has(fromPeer[who[c]], c)
        /\ loop[q] # c /\ ~Has(outbox[q], c)
        /\ \A s \in server[q] : s[1] # c
        /\ \A s \in answers[q] \ {old} : s[1] # c
    BY <1>3, <1>4, AnswersHave
  <1>7. \A x \in Procs : CallerHome(x)'
    BY <1>1, <1>4 DEF HomeInv, CallerHome
  <1>8. \A d \in Calls : CallHome(d)'
    BY <1>1, <1>4, <1>5, <1>6, CallAssumption DEF HomeInv, CallHome
  <1>9. \A x \in Procs : OneEach(server[x]) /\ OneEach(answers[x])
    BY <1>1 DEF HomeInv, TargetHome
  <1>10. \A x \in Procs : OneEach(answers'[x]) /\ answers'[x] \subseteq answers[x]
    <2>1. \A x \in Procs : answers'[x] \subseteq answers[x]
      BY <1>4
    <2> QED
      BY <1>9, <2>1, OneEachLess
  <1>11. CASE /\ server'[q] = server[q] \cup {new}
              /\ \A x \in Procs \ {q} : server'[x] = server[x]
              /\ UNCHANGED lost
    <2>1. OneEach(server[q] \cup {new})
      BY <1>3, <1>6, <1>9, OneEachMore
    <2>2. ASSUME NEW x \in Procs
          PROVE  /\ OneEach(server'[x])
                 /\ \A r \in server'[x] : r \in server[x] \/ (x = q /\ r[1] = c)
      BY <1>3, <1>9, <1>11, <2>1
    <2>3. \A x \in Procs : TargetHome(x)'
      BY <1>1, <1>4, <1>6, <1>10, <2>2 DEF HomeInv, TargetHome, CalledBy
    <2>4. ASSUME NEW d \in Calls PROVE PlaceInv(d)'
      <3>1. SUFFICES ASSUME who[d] \in Procs PROVE PlaceInv(d)'
        BY <1>4 DEF PlaceInv
      <3>2. CASE d = c
        <4>1. (\E r \in server'[q] : r[1] = c) /\ \A r \in answers'[q] : r[1] # c
          BY <1>3, <1>4, <1>6, <1>11
        <4> QED
          BY <1>4, <1>6, <1>11, <3>2, <4>1, Moved DEF Stages
      <3>3. CASE d # c
        <4>1. \A x \in Procs : /\ (\E r \in server'[x] : r[1] = d) <=> \E r \in server[x] : r[1] = d
                               /\ (\E r \in answers'[x] : r[1] = d) <=> \E r \in answers[x] : r[1] = d
          BY <1>3, <1>4, <1>11, <3>3, WorkMoves
        <4>2. Steady(d)
          BY <1>1, <1>4, <1>11, <3>1, <4>1 DEF Steady, At, Stages, HomeInv, CallHome
        <4> QED
          BY <4>2, SteadyKeeps DEF CInv
      <3> QED
        BY <3>2, <3>3
    <2> QED
      BY <1>7, <1>8, <2>3, <2>4 DEF HomeInv
  <1>12. CASE lost' = lost \cup {c} /\ UNCHANGED server
    <2>1. \A x \in Procs : TargetHome(x)'
      BY <1>1, <1>4, <1>10, <1>12 DEF HomeInv, TargetHome, CalledBy
    <2>2. ASSUME NEW d \in Calls PROVE PlaceInv(d)'
      <3>1. SUFFICES ASSUME who[d] \in Procs PROVE PlaceInv(d)'
        BY <1>4 DEF PlaceInv
      <3>2. CASE d = c
        <4>1. \A r \in answers'[q] : r[1] # c
          BY <1>4, <1>6
        <4> QED
          BY <1>4, <1>6, <1>12, <3>2, <4>1, Gone DEF Stages
      <3>3. CASE d # c
        <4>1. \A x \in Procs : (\E r \in answers'[x] : r[1] = d) <=> \E r \in answers[x] : r[1] = d
          BY <1>3, <1>4, <3>3, WorkMoves
        <4>2. Steady(d)
          BY <1>1, <1>4, <1>12, <3>1, <3>3, <4>1 DEF Steady, At, Stages, HomeInv, CallHome
        <4> QED
          BY <4>2, SteadyKeeps DEF CInv
      <3> QED
        BY <3>2, <3>3
    <2> QED
      BY <1>7, <1>8, <2>1, <2>2 DEF HomeInv
  <1> QED
    BY <1>5, <1>11, <1>12

\* HandOver: the answer goes to the ROS thread's hands.
LEMMA HandOverKeeps ==
    ASSUME CInv, NEW q \in Procs, NEW c \in Calls, HandOver(q, c)
    PROVE  HomeInv' /\ \A d \in Calls : PlaceInv(d)'
  <1> DEFINE old == <<c, "result">>
  <1>1. Types /\ HomeInv
    BY TypesAreTypeOK DEF CInv
  <1>2. /\ old \in answers[q] /\ old[1] = c
        /\ answers'[q] = answers[q] \ {old} /\ \A x \in Procs \ {q} : answers'[x] = answers[x]
        /\ outbox'[q] = Append(outbox[q], c) /\ \A x \in Procs \ {q} : outbox'[x] = outbox[x]
        /\ UNCHANGED <<who, called, settled, conn, toPeer, fromPeer, loop, server, lost>>
    BY <1>1 DEF HandOver, Types, proxyVars, wireVars
  <1> HIDE DEF old
  <1>3. /\ c \in Calls /\ CalledBy(c, q) /\ who[c] \in Procs
        /\ At(c, "answers") /\ PlaceInv(c)
        /\ ~Has(toPeer[who[c]], c) /\ ~Has(fromPeer[who[c]], c)
        /\ loop[q] # c /\ ~Has(outbox[q], c)
        /\ \A s \in server[q] : s[1] # c
        /\ \A s \in answers[q] \ {old} : s[1] # c
    BY <1>2, AnswersHave
  <1>4. /\ \A d : Has(outbox'[q], d) <=> Has(outbox[q], d) \/ d = c
        /\ Once(outbox'[q])
    BY <1>1, <1>2, <1>3, WireAppend DEF Types, HomeInv, TargetHome
  <1>5. \A x \in Procs : CallerHome(x)'
    BY <1>1, <1>2 DEF HomeInv, CallerHome
  <1>6. \A d \in Calls : CallHome(d)'
    BY <1>1, <1>2 DEF HomeInv, CallHome
  <1>7. ASSUME NEW x \in Procs PROVE TargetHome(x)'
    <2>1. answers'[x] \subseteq answers[x]
      BY <1>2
    <2>2. TargetHome(x)
      BY <1>1 DEF HomeInv
    <2>3. Once(outbox'[x]) /\ \A d \in Calls : Has(outbox'[x], d) => CalledBy(d, x)
      <3>1. CASE x = q
        BY <1>3, <1>4, <2>2, <3>1 DEF TargetHome
      <3>2. CASE x # q
        BY <1>2, <2>2, <3>2 DEF TargetHome
      <3> QED
        BY <3>1, <3>2
    <2> QED
      BY <1>2, <2>1, <2>2, <2>3, OneEachLess DEF TargetHome, CalledBy
  <1>8. ASSUME NEW d \in Calls PROVE PlaceInv(d)'
    <2>1. SUFFICES ASSUME who[d] \in Procs PROVE PlaceInv(d)'
      BY <1>2 DEF PlaceInv
    <2>2. CASE d = c
      <3>1. \A r \in answers'[q] : r[1] # c
        BY <1>2, <1>3
      <3> QED
        BY <1>2, <1>3, <1>4, <2>2, <3>1, Moved DEF Stages
    <2>3. CASE d # c
      <3>1. \A x \in Procs : /\ (\E r \in answers'[x] : r[1] = d) <=> \E r \in answers[x] : r[1] = d
                             /\ Has(outbox'[x], d) <=> Has(outbox[x], d)
        BY <1>2, <1>4, <2>3, WorkMoves
      <3>2. Steady(d)
        BY <1>1, <1>2, <2>1, <3>1 DEF Steady, At, Stages, HomeInv, CallHome
      <3> QED
        BY <3>2, SteadyKeeps DEF CInv
    <2> QED
      BY <2>2, <2>3
  <1> QED
    BY <1>5, <1>6, <1>7, <1>8 DEF HomeInv

\* SendAnswer: the answer goes to the wire, or nowhere on a closed connection.
LEMMA SendAnswerKeeps ==
    ASSUME CInv, NEW q \in Procs, SendAnswer(q)
    PROVE  HomeInv' /\ \A d \in Calls : PlaceInv(d)'
  <1> DEFINE c == Head(outbox[q])
             p == who[c]
  <1>1. Types /\ HomeInv
    BY TypesAreTypeOK DEF CInv
  <1>2. /\ c \in Calls /\ CalledBy(c, q) /\ p \in Procs
        /\ At(c, "sending") /\ PlaceInv(c)
        /\ ~Has(toPeer[p], c) /\ ~Has(fromPeer[p], c) /\ loop[q] # c
        /\ \A r \in server[q] \cup answers[q] : r[1] # c
    BY SendingHas DEF SendAnswer
  <1>3. /\ UNCHANGED <<who, called, settled, conn, toPeer, loop, server, answers, lost>>
        /\ \/ conn[p] /\ fromPeer' = [fromPeer EXCEPT ![p] = Append(@, c)]
           \/ ~conn[p] /\ UNCHANGED fromPeer
    BY DEF SendAnswer, proxyVars, serverVars
  <1>4. /\ \A x \in Procs \ {q} : outbox'[x] = outbox[x]
        /\ \A d : Has(outbox[q], d) <=> Has(outbox'[q], d) \/ d = c
        /\ Once(outbox'[q]) /\ ~Has(outbox'[q], c)
    <2>1. outbox[q] # <<>> /\ outbox'[q] = Tail(outbox[q]) /\ Once(outbox[q])
      BY <1>1 DEF SendAnswer, Types, HomeInv, TargetHome
    <2>2. outbox[q] \in Seq(Calls) /\ \A x \in Procs \ {q} : outbox'[x] = outbox[x]
      BY <1>1 DEF SendAnswer, Types
    <2> QED
      BY <2>1, <2>2, WireTail
  <1>5. who[c] = p
    OBVIOUS
  <1> HIDE DEF c, p
  <1>6. \A x \in Procs : TargetHome(x)'
    BY <1>1, <1>3, <1>4 DEF HomeInv, TargetHome, CalledBy
  <1>7. \A d \in Calls : CallHome(d)'
    BY <1>1, <1>3 DEF HomeInv, CallHome
  <1>8. ASSUME NEW d \in Calls, d # c, NEW x \in Procs
        PROVE  Has(outbox'[x], d) <=> Has(outbox[x], d)
    BY <1>4, <1>8
  <1>9. CASE conn[p] /\ fromPeer' = [fromPeer EXCEPT ![p] = Append(@, c)]
    <2>1. /\ fromPeer'[p] = Append(fromPeer[p], c)
          /\ \A x \in Procs \ {p} : fromPeer'[x] = fromPeer[x]
      BY <1>1, <1>2, <1>9 DEF Types
    <2>2. /\ \A d : Has(fromPeer'[p], d) <=> Has(fromPeer[p], d) \/ d = c
          /\ Once(fromPeer'[p])
      BY <1>1, <1>2, <2>1, WireAppend DEF Types, HomeInv, CallerHome
    <2>3. ASSUME NEW x \in Procs PROVE CallerHome(x)'
      <3>1. CallerHome(x)
        BY <1>1 DEF HomeInv
      <3>2. Once(fromPeer'[x])
        BY <2>1, <2>2, <3>1 DEF CallerHome
      <3>3. ASSUME NEW d \in Calls, Has(toPeer[x], d) \/ Has(fromPeer'[x], d) \/ d \in called[x]
            PROVE  who[d] = x
        <4>1. CASE x = p
          BY <1>5, <2>2, <3>1, <3>3, <4>1 DEF CallerHome
        <4>2. CASE x # p
          BY <2>1, <3>1, <3>3, <4>2 DEF CallerHome
        <4> QED
          BY <4>1, <4>2
      <3> QED
        BY <1>3, <3>1, <3>2, <3>3 DEF CallerHome
    <2>4. ASSUME NEW d \in Calls PROVE PlaceInv(d)'
      <3>1. SUFFICES ASSUME who[d] \in Procs PROVE PlaceInv(d)'
        BY <1>3 DEF PlaceInv
      <3>2. CASE d = c
        <4>1. Has(fromPeer'[p], c) /\ ~Has(outbox'[q], c)
          BY <1>3, <1>4, <2>2
        <4> QED
          BY <1>2, <1>3, <1>5, <3>2, <4>1, Moved DEF Stages
      <3>3. CASE d # c
        <4>1. \A x \in Procs : Has(fromPeer'[x], d) <=> Has(fromPeer[x], d)
          BY <2>1, <2>2, <3>3
        <4>2. Steady(d)
          BY <1>1, <1>3, <1>8, <3>1, <3>3, <4>1 DEF Steady, At, Stages, HomeInv, CallHome
        <4> QED
          BY <4>2, SteadyKeeps DEF CInv
      <3> QED
        BY <3>2, <3>3
    <2> QED
      BY <1>6, <1>7, <2>3, <2>4 DEF HomeInv
  <1>10. CASE ~conn[p] /\ UNCHANGED fromPeer
    <2>1. \A x \in Procs : CallerHome(x)'
      BY <1>1, <1>3, <1>10 DEF HomeInv, CallerHome
    <2>2. ASSUME NEW d \in Calls PROVE PlaceInv(d)'
      <3>1. SUFFICES ASSUME who[d] \in Procs PROVE PlaceInv(d)'
        BY <1>3 DEF PlaceInv
      <3>2. CASE d = c
        BY <1>2, <1>3, <1>4, <1>5, <1>10, <3>2, Gone DEF Stages
      <3>3. CASE d # c
        <4>1. Steady(d)
          BY <1>1, <1>3, <1>8, <1>10, <3>1, <3>3 DEF Steady, At, Stages, HomeInv, CallHome
        <4> QED
          BY <4>1, SteadyKeeps DEF CInv
      <3> QED
        BY <3>2, <3>3
    <2> QED
      BY <1>6, <1>7, <2>1, <2>2 DEF HomeInv
  <1> QED
    BY <1>3, <1>9, <1>10

-----------------------------------------------------------------------------
(***************************************************************************)
(* The theorems                                                             *)
(***************************************************************************)
\* Nothing has been called.
LEMMA InitCInv == Init => CInv
  <1> SUFFICES ASSUME Init PROVE CInv
    OBVIOUS
  <1> USE CallAssumption DEF Init
  <1>1. Types
    <2>1. toPeer \in [Procs -> Seq(Calls)] /\ fromPeer \in [Procs -> Seq(Calls)]
          /\ outbox \in [Procs -> Seq(Calls)]
      BY WireEmpty
    <2>2. ready \in [Procs -> BOOLEAN] /\ conn \in [Procs -> BOOLEAN]
      OBVIOUS
    <2>3. server \in [Procs -> Work] /\ answers \in [Procs -> Work]
      BY DEF Work
    <2> QED
      BY <2>1, <2>2, <2>3 DEF Types, CallOrNone
  <1>2. \A c \in Calls : who[c] = NoProc
    OBVIOUS
  <1>3. ASSUME NEW p \in Procs PROVE CallerHome(p)
    <2>1. toPeer[p] = <<>> /\ fromPeer[p] = <<>> /\ called[p] = {}
      OBVIOUS
    <2>2. conn[p] => Target[p] \in Procs
      OBVIOUS
    <2> QED
      BY <2>1, <2>2, WireEmpty DEF CallerHome
  <1>4. ASSUME NEW q \in Procs PROVE TargetHome(q)
    <2>1. /\ server[q] = {} /\ answers[q] = {} /\ loop[q] = NoCall /\ outbox[q] = <<>>
      OBVIOUS
    <2> QED
      BY <2>1, WireEmpty DEF TargetHome, OneEach
  <1>5. \A c \in Calls : CallHome(c) /\ PlaceInv(c)
    BY <1>2 DEF CallHome, PlaceInv
  <1> QED
    BY <1>1, <1>3, <1>4, <1>5, TypesAreTypeOK DEF CInv, HomeInv

\* Every step keeps the types, and every call in its place.
LEMMA NextCInv == CInv /\ [Next]_vars => CInv'
  <1> SUFFICES ASSUME CInv, [Next]_vars PROVE CInv'
    OBVIOUS
  <1>1. Types
    BY TypesAreTypeOK DEF CInv
  <1> DEFINE Kept == Types' /\ HomeInv' /\ \A d \in Calls : PlaceInv(d)'
  <1>2. SUFFICES Kept
    BY TypesAreTypeOK DEF CInv, TypeOK, Types, CallOrNone, Work, Whats
  <1>3. ASSUME NEW p \in Procs, NEW c \in Calls, TakeRequest(p, c) PROVE Kept
    BY <1>1, <1>3, CallerTyped, TakeRequestKeeps
  <1>4. ASSUME NEW p \in Procs, Hangup(p) PROVE Kept
    <2>1. /\ Disconnect(p)
          /\ UNCHANGED <<who, called, settled, loop, outbox, server, answers, lost>>
      BY <1>4 DEF Hangup, proxyVars, serverVars
    <2> QED
      BY <1>1, <1>4, <2>1, CallerTyped, HangupKeeps
  <1>5. ASSUME NEW q \in Procs, ChangeServer(q) PROVE Kept
    BY <1>1, <1>5, ServerTyped, ChangeServerKeeps
  <1>6. ASSUME NEW q \in Procs, NEW c \in Calls, Feedback(q, c) PROVE Kept
    <2>1. UNCHANGED <<who, called, settled, conn, toPeer, fromPeer, loop, outbox,
                      server, answers, lost>>
      BY <1>6 DEF Feedback, proxyVars, wireVars, serverVars
    <2> QED
      BY <1>1, <1>6, <2>1, ServerTyped, FeedbackKeeps
  <1>7. CASE LoopStep
    <2>1. ASSUME NEW p \in Procs, OnAnswer(p) PROVE Kept
      BY <1>1, <2>1, CallerTyped, AnswerKeeps
    <2>2. ASSUME NEW p \in Procs, Close(p) PROVE Kept
      BY <1>1, <2>2, CallerTyped, FinishKeeps
    <2>3. ASSUME NEW p \in Procs, OnCallService(p) \/ OnCallAction(p) PROVE Kept
      BY <1>1, <2>3, LoopTyped, RequestKeeps
    <2>4. ASSUME NEW q \in Procs, EndWait(q) PROVE Kept
      BY <1>1, <2>4, LoopTyped, EndWaitKeeps
    <2>5. ASSUME NEW q \in Procs, WaitRaises(q) PROVE Kept
      BY <1>1, <2>5, LoopTyped, WaitRaisesKeeps
    <2> QED
      BY <1>7, <2>1, <2>2, <2>3, <2>4, <2>5 DEF LoopStep
  <1>8. CASE RosStep
    <2>1. ASSUME NEW q \in Procs, SendAnswer(q) PROVE Kept
      BY <1>1, <2>1, SenderTyped, SendAnswerKeeps
    <2>2. ASSUME NEW q \in Procs, SendTimesOut(q) PROVE Kept
      <3>1. UNCHANGED <<who, called, settled, conn, toPeer, fromPeer, loop, outbox,
                        server, answers, lost>>
        BY <2>2 DEF SendTimesOut, proxyVars, wireVars, serverVars
      <3> QED
        BY <1>1, <2>2, <3>1, SenderTyped, FeedbackKeeps
    <2>3. ASSUME NEW p \in Procs, NEW c \in Calls, Finish(p, c) PROVE Kept
      BY <1>1, <2>3, CallerTyped, FinishKeeps
    <2>4. ASSUME NEW q \in Procs, NEW c \in Calls, GoalResponse(q, c) PROVE Kept
      BY <1>1, <2>4, ServerTyped, GoalResponseKeeps
    <2>5. ASSUME NEW q \in Procs, NEW c \in Calls, TakeResponse(q, c) \/ TakeGoalResult(q, c)
          PROVE  Kept
      <3>1. HandOver(q, c)
        BY <2>5 DEF TakeResponse, TakeGoalResult
      <3> QED
        BY <1>1, <3>1, SenderTyped, HandOverKeeps
    <2> QED
      BY <1>8, <2>1, <2>2, <2>3, <2>4, <2>5 DEF RosStep
  <1>9. CASE ServerStep
    <2>1. ASSUME NEW q \in Procs, NEW c \in Calls, NEW what \in {"goal", "result"},
                 Answer(q, c, what)
          PROVE  Kept
      BY <1>1, <2>1, ServerTyped, LocalAnswerKeeps
    <2> QED
      BY <1>9, <2>1 DEF ServerStep
  <1>10. CASE UNCHANGED vars
    <2>1. Types'
      BY <1>1, <1>10 DEF Types, vars, proxyVars, wireVars, serverVars
    <2>2. UNCHANGED <<who, called, settled, conn, toPeer, fromPeer, loop, outbox,
                      server, answers, lost>>
      BY <1>10 DEF vars, proxyVars, wireVars, serverVars
    <2> QED
      BY <2>1, <2>2, FeedbackKeeps
  <1> QED
    BY <1>3, <1>4, <1>5, <1>6, <1>7, <1>8, <1>9, <1>10 DEF Next

\* The inductive invariant.
LEMMA CInvHolds == Spec => []CInv
  BY InitCInv, NextCInv, PTL DEF Spec

\* A call is in one place of a stage, and its stage is where its places are.
LEMMA PlacesAtOnce ==
    ASSUME CInv, NEW p \in Procs, conn[p], NEW c \in called[p]
    PROVE  /\ c \in Calls /\ who[c] = p
           /\ \A x \in Places(p, c) : \E k \in Stages : At(c, k)
           /\ \A k \in Stages : At(c, k) => \E x : Places(p, c) = {x}
  <1> DEFINE q == Target[p]
             Calling == {<<"calling", i>> : i \in {j \in DOMAIN toPeer[p] : toPeer[p][j] = c}}
             Answering == {<<"answering", i>> : i \in {j \in DOMAIN fromPeer[p] : fromPeer[p][j] = c}}
             Serving == {r \in server[q] : r[1] = c}
             Served == {<<"answers", r>> : r \in {a \in answers[q] : a[1] = c}}
             Waiting == IF loop[q] = c THEN {<<"loop">>} ELSE {}
             Sending == {<<"sending", i>> : i \in {j \in DOMAIN outbox[q] : outbox[q][j] = c}}
  <1>1. /\ c \in Calls /\ who[c] = p /\ q \in Procs /\ CalledBy(c, q) /\ PlaceInv(c)
        /\ Once(toPeer[p]) /\ Once(fromPeer[p]) /\ Once(outbox[q])
        /\ OneEach(server[q]) /\ OneEach(answers[q])
    BY TypesAreTypeOK DEF CInv, Types, HomeInv, CallerHome, TargetHome, CalledBy
  <1>2. Places(p, c) = Calling \cup Answering \cup Serving \cup Served \cup Waiting \cup Sending
    BY DEF Places
  <1>3. /\ Has(toPeer[p], c) <=> Calling # {}
        /\ Has(fromPeer[p], c) <=> Answering # {}
        /\ (\E r \in server[q] : r[1] = c) <=> Serving # {}
        /\ (\E r \in answers[q] : r[1] = c) <=> Served # {}
        /\ loop[q] = c <=> Waiting # {}
        /\ Has(outbox[q], c) <=> Sending # {}
    BY DEF Has
  <1>4. /\ Calling # {} => \E x : Calling = {x}
        /\ Answering # {} => \E x : Answering = {x}
        /\ Serving # {} => \E x : Serving = {x}
        /\ Served # {} => \E x : Served = {x}
        /\ Waiting # {} => \E x : Waiting = {x}
        /\ Sending # {} => \E x : Sending = {x}
    <2>1. \A x, y \in Calling : x = y
      BY <1>1 DEF Once
    <2>2. \A x, y \in Answering : x = y
      BY <1>1 DEF Once
    <2>3. \A x, y \in Serving : x = y
      BY <1>1 DEF OneEach
    <2>4. \A x, y \in Served : x = y
      BY <1>1 DEF OneEach
    <2>5. \A S : S # {} /\ (\A x, y \in S : x = y) => \E x : S = {x}
      <3>1. SUFFICES ASSUME NEW S, S # {}, \A x, y \in S : x = y PROVE \E x : S = {x}
        OBVIOUS
      <3>2. PICK x : x \in S
        BY <3>1
      <3>3. S = {x}
        BY <3>1, <3>2
      <3> QED
        BY <3>3
    <2>6. Waiting # {} => Waiting = {<<"loop">>}
      OBVIOUS
    <2>7. \A x, y \in Sending : x = y
      BY <1>1 DEF Once
    <2> HIDE DEF Calling, Answering, Serving, Served, Waiting, Sending
    <2> QED
      BY <2>1, <2>2, <2>3, <2>4, <2>5, <2>6, <2>7
  <1> HIDE DEF Calling, Answering, Serving, Served, Waiting, Sending
  <1>5. /\ At(c, "calling") <=> Calling # {}
        /\ At(c, "answering") <=> Answering # {}
        /\ At(c, "server") <=> Serving # {}
        /\ At(c, "answers") <=> Served # {}
        /\ At(c, "loop") <=> Waiting # {}
        /\ At(c, "sending") <=> Sending # {}
    BY <1>1, <1>3 DEF At
  <1>6. ASSUME NEW x \in Places(p, c) PROVE \E k \in Stages : At(c, k)
    BY <1>2, <1>5, <1>6 DEF Stages
  <1>7. ASSUME NEW k \in Stages, At(c, k) PROVE \E x : Places(p, c) = {x}
    <2>1. \A l \in Stages : At(c, l) <=> l = k
      BY <1>1, <1>7 DEF PlaceInv
    <2>2. CASE k = "calling"
      <3>1. Places(p, c) = Calling /\ Calling # {}
        BY <1>2, <1>5, <2>1, <2>2 DEF Stages
      <3> QED
        BY <1>4, <3>1
    <2>3. CASE k = "answering"
      <3>1. Places(p, c) = Answering /\ Answering # {}
        BY <1>2, <1>5, <2>1, <2>3 DEF Stages
      <3> QED
        BY <1>4, <3>1
    <2>4. CASE k = "server"
      <3>1. Places(p, c) = Serving /\ Serving # {}
        BY <1>2, <1>5, <2>1, <2>4 DEF Stages
      <3> QED
        BY <1>4, <3>1
    <2>5. CASE k = "answers"
      <3>1. Places(p, c) = Served /\ Served # {}
        BY <1>2, <1>5, <2>1, <2>5 DEF Stages
      <3> QED
        BY <1>4, <3>1
    <2>6. CASE k = "loop"
      <3>1. Places(p, c) = Waiting /\ Waiting # {}
        BY <1>2, <1>5, <2>1, <2>6 DEF Stages
      <3> QED
        BY <1>4, <3>1
    <2>7. CASE k = "sending"
      <3>1. Places(p, c) = Sending /\ Sending # {}
        BY <1>2, <1>5, <2>1, <2>7 DEF Stages
      <3> QED
        BY <1>4, <3>1
    <2> QED
      BY <1>7, <2>2, <2>3, <2>4, <2>5, <2>6, <2>7 DEF Stages
  <1> QED
    BY <1>1, <1>6, <1>7

\* TypeOK: every call has a caller or none, and what is on the wires, in the
\* loop, at the local servers and in the ROS thread are calls.
THEOREM CallTypesHold == Spec => []TypeOK
  <1>1. CInv => TypeOK
    BY DEF CInv
  <1> QED
    BY <1>1, CInvHolds, PTL

\* CallsAreSomewhere: for any graph of processes and any number of calls, no
\* step of the loops, the ROS threads, the local servers and the connections
\* doubles a call that waits, or loses it other than where the code drops it.
THEOREM CallsStaySomewhere == Spec => []CallsAreSomewhere
  <1>1. CInv => CallsAreSomewhere
    <2> SUFFICES ASSUME CInv, NEW p \in Procs, conn[p], NEW c \in called[p]
                 PROVE  Cardinality(Places(p, c)) = IF c \in settled \cup lost THEN 0 ELSE 1
      BY DEF CallsAreSomewhere
    <2>1. /\ c \in Calls /\ who[c] = p
          /\ \A x \in Places(p, c) : \E k \in Stages : At(c, k)
          /\ \A k \in Stages : At(c, k) => \E x : Places(p, c) = {x}
      BY PlacesAtOnce
    <2>2. PlaceInv(c)
      BY <2>1 DEF CInv
    <2>3. CASE c \in settled \cup lost
      <3>1. Places(p, c) = {}
        BY <2>1, <2>2, <2>3 DEF PlaceInv
      <3> QED
        BY <2>3, <3>1, FS_EmptySet
    <2>4. CASE c \notin settled \cup lost
      <3>1. PICK x : Places(p, c) = {x}
        BY <2>1, <2>2, <2>4 DEF PlaceInv
      <3> QED
        BY <2>4, <3>1, FS_Singleton
    <2> QED
      BY <2>3, <2>4
  <1> QED
    BY <1>1, CInvHolds, PTL

-----------------------------------------------------------------------------
(***************************************************************************)
(* Who waits for whom                                                       *)
(***************************************************************************)
\* The group of a process is busy with a service call that its client waits for.
GroupInv == \A p \in Procs :
    group[p] # NoCall => group[p] \in called[p] /\ Kind[Target[p]] = "service"

\* What a local server is asked for, and what it answers.
Questions == Calls \X {"goal", "result"}
Replies   == Calls \X {"accepted", "rejected", "result"}
WorkInv == \A q \in Procs : server[q] \subseteq Questions /\ answers[q] \subseteq Replies

\* The ROS thread waits for an answer the loop has still to send.
WaitInv == \A q \in Procs : waits[q] => outbox[q] # <<>>

\* A group is taken by the request that enters its call, and given free by the
\* return that removes it.
LEMMA NextGroupInv == Types /\ GroupInv /\ [Next]_vars => GroupInv'
  <1> SUFFICES ASSUME Types, GroupInv, [Next]_vars PROVE GroupInv'
    OBVIOUS
  <1> USE DEF proxyVars, wireVars, serverVars
  <1>1. ASSUME NEW p \in Procs, NEW c \in Calls, TakeRequest(p, c) PROVE GroupInv'
    <2>1. \A x \in Procs :
             /\ called'[x] = IF x = p THEN called[x] \cup {c} ELSE called[x]
             /\ group'[x] = IF x = p THEN IF Kind[Target[p]] = "service" THEN c ELSE NoCall
                            ELSE group[x]
      BY <1>1 DEF TakeRequest, Types
    <2> QED
      BY <2>1 DEF GroupInv
  <1>2. ASSUME NEW p \in Procs, NEW c \in Calls, Finish(p, c) PROVE GroupInv'
    <2>1. \A x \in Procs :
             /\ called'[x] = IF x = p THEN called[x] \ {c} ELSE called[x]
             /\ group'[x] = IF x = p /\ group[p] = c THEN NoCall ELSE group[x]
      BY <1>2 DEF Finish, Types
    <2> QED
      BY <2>1 DEF GroupInv
  <1>3. ASSUME UNCHANGED <<group, called>> PROVE GroupInv'
    BY <1>3 DEF GroupInv
  <1>4. ASSUME NEW p \in Procs,
               \/ Hangup(p) \/ ChangeServer(p) \/ \E c \in Calls : Feedback(p, c)
               \/ OnAnswer(p) \/ Close(p) \/ EndWait(p) \/ WaitRaises(p)
        PROVE  GroupInv'
    BY <1>3, <1>4 DEF Hangup, ChangeServer, Feedback, OnAnswer, Close, EndWait, WaitRaises
  <1>5. ASSUME NEW p \in Procs, OnCallService(p) \/ OnCallAction(p) PROVE GroupInv'
    BY <1>3, <1>5 DEF OnCallService, OnCallAction
  <1>6. ASSUME NEW p \in Procs,
               \/ SendAnswer(p) \/ SendTimesOut(p)
               \/ \E c \in Calls : \/ GoalResponse(p, c) \/ HandOver(p, c)
                                   \/ \E what \in {"goal", "result"} : Answer(p, c, what)
        PROVE  GroupInv'
    BY <1>3, <1>6 DEF SendAnswer, SendTimesOut, GoalResponse, HandOver, Answer
  <1>7. CASE UNCHANGED vars
    BY <1>3, <1>7 DEF vars
  <1>8. CASE Next
    BY <1>1, <1>2, <1>4, <1>5, <1>6, <1>8
       DEF Next, LoopStep, RosStep, ServerStep, TakeResponse, TakeGoalResult
  <1> QED
    BY <1>7, <1>8

\* Local servers are asked for goals, results and services only, and answer in
\* kind.
LEMMA NextWorkInv == Types /\ WorkInv /\ [Next]_vars => WorkInv'
  <1> SUFFICES ASSUME Types, WorkInv, [Next]_vars PROVE WorkInv'
    OBVIOUS
  <1> USE DEF proxyVars, wireVars, serverVars
  <1>1. ASSUME UNCHANGED <<server, answers>> PROVE WorkInv'
    BY <1>1 DEF WorkInv
  <1>2. ASSUME NEW q, NEW c \in Calls, Ask(c, q), UNCHANGED answers PROVE WorkInv'
    <2>1. Request(c, q) \in Questions
      BY DEF Request, Questions
    <2>2. \A x \in Procs : server'[x] \subseteq server[x] \cup {Request(c, q)}
      BY <1>2 DEF Ask, Types
    <2> QED
      BY <1>2, <2>1, <2>2 DEF WorkInv
  <1>3. ASSUME NEW p \in Procs, OnCallService(p) \/ OnCallAction(p) PROVE WorkInv'
    <2> DEFINE q == Target[p]
    <2>1. /\ toPeer[p] # <<>> /\ UNCHANGED answers
          /\ UNCHANGED server \/ Serve(p, q, Head(toPeer[p]))
      BY <1>3 DEF OnCallService, OnCallAction
    <2> HIDE DEF q
    <2>2. Head(toPeer[p]) \in Calls
      BY <2>1, WireTail DEF Types
    <2>3. UNCHANGED server \/ Ask(Head(toPeer[p]), q)
      BY <2>1 DEF Serve
    <2> QED
      BY <1>1, <1>2, <2>1, <2>2, <2>3
  <1>4. ASSUME NEW q \in Procs, EndWait(q) PROVE WorkInv'
    <2>1. loop[q] \in Calls /\ UNCHANGED answers /\ (UNCHANGED server \/ Ask(loop[q], q))
      BY <1>4 DEF EndWait, Types, CallOrNone
    <2> QED
      BY <1>1, <1>2, <2>1
  <1>5. ASSUME NEW q \in Procs, NEW c \in Calls, NEW what \in {"goal", "result"},
               Answer(q, c, what)
        PROVE  WorkInv'
    <2>1. PICK reply \in {"accepted", "rejected", "result"} :
             answers' = [answers EXCEPT ![q] = @ \cup {<<c, reply>>}]
      BY <1>5 DEF Answer
    <2>2. <<c, reply>> \in Replies
      BY DEF Replies
    <2>3. \A x \in Procs : /\ server'[x] \subseteq server[x]
                           /\ answers'[x] \subseteq answers[x] \cup {<<c, reply>>}
      BY <1>5, <2>1 DEF Answer, Types
    <2> QED
      BY <2>2, <2>3 DEF WorkInv
  <1>6. ASSUME NEW q \in Procs, ChangeServer(q) PROVE WorkInv'
    <2>1. \A x \in Procs : server'[x] \subseteq server[x] /\ answers'[x] = answers[x]
      BY <1>6 DEF ChangeServer, Types
    <2> QED
      BY <2>1 DEF WorkInv
  <1>7. ASSUME NEW q \in Procs, NEW c \in Calls, GoalResponse(q, c) \/ HandOver(q, c)
        PROVE  WorkInv'
    <2>1. \A x \in Procs : /\ server'[x] \subseteq server[x] \cup {<<c, "result">>}
                           /\ answers'[x] \subseteq answers[x]
      <3>1. CASE HandOver(q, c)
        BY <3>1 DEF HandOver, Types
      <3>2. CASE GoalResponse(q, c)
        <4>1. CASE /\ answers' = [answers EXCEPT ![q] = @ \ {<<c, "accepted">>}]
                   /\ server' = [server EXCEPT ![q] = @ \cup {<<c, "result">>}]
          BY <4>1 DEF Types
        <4>2. CASE /\ answers' = [answers EXCEPT ![q] = @ \ {<<c, "rejected">>}]
                   /\ UNCHANGED server
          BY <4>2 DEF Types
        <4> QED
          BY <3>2, <4>1, <4>2 DEF GoalResponse
      <3> QED
        BY <1>7, <3>1, <3>2
    <2>2. <<c, "result">> \in Questions
      BY DEF Questions
    <2> QED
      BY <2>1, <2>2 DEF WorkInv
  <1>8. ASSUME NEW p \in Procs,
               \/ Hangup(p) \/ OnAnswer(p) \/ Close(p) \/ WaitRaises(p)
               \/ SendAnswer(p) \/ SendTimesOut(p)
               \/ \E c \in Calls : TakeRequest(p, c) \/ Feedback(p, c) \/ Finish(p, c)
        PROVE  WorkInv'
    BY <1>1, <1>8 DEF Hangup, OnAnswer, Close, WaitRaises, SendAnswer, SendTimesOut,
        TakeRequest, Feedback, Finish
  <1>9. CASE UNCHANGED vars
    BY <1>1, <1>9 DEF vars
  <1>10. CASE Next
    BY <1>3, <1>4, <1>5, <1>6, <1>7, <1>8, <1>10
       DEF Next, LoopStep, RosStep, ServerStep, TakeResponse, TakeGoalResult
  <1> QED
    BY <1>9, <1>10

\* An answer is waited for from its hand-over until it is sent.
LEMMA NextWaitInv == Types /\ WaitInv /\ [Next]_vars => WaitInv'
  <1> SUFFICES ASSUME Types, WaitInv, [Next]_vars PROVE WaitInv'
    OBVIOUS
  <1> USE DEF proxyVars, wireVars, serverVars
  <1>1. ASSUME UNCHANGED <<outbox, waits>> PROVE WaitInv'
    BY <1>1 DEF WaitInv
  <1>2. ASSUME NEW q \in Procs, NEW c \in Calls, HandOver(q, c) PROVE WaitInv'
    <2>1. /\ outbox[q] \in Seq(Calls) /\ outbox'[q] = Append(outbox[q], c)
          /\ \A x \in Procs \ {q} : outbox'[x] = outbox[x] /\ waits'[x] = waits[x]
      BY <1>2 DEF HandOver, Types
    <2>2. outbox'[q] # <<>>
      BY <2>1, WireAppend, WireEmpty
    <2> QED
      BY <2>1, <2>2 DEF WaitInv
  <1>3. ASSUME NEW q \in Procs, SendAnswer(q) PROVE WaitInv'
    <2>1. /\ outbox[q] \in Seq(Calls) /\ outbox[q] # <<>>
          /\ outbox'[q] = Tail(outbox[q]) /\ waits'[q] = (waits[q] /\ Len(outbox[q]) > 1)
          /\ \A x \in Procs \ {q} : outbox'[x] = outbox[x] /\ waits'[x] = waits[x]
      BY <1>3 DEF SendAnswer, Types
    <2> DEFINE t == Tail(outbox[q])
               n == Len(outbox[q])
    <2>2. Len(t) = n - 1 /\ n \in Nat
      BY <2>1, HeadTailProperties, LenProperties
    <2>3. Len(<<>>) = 0
      OBVIOUS
    <2> HIDE DEF t, n
    <2>4. n > 1 => t # <<>>
      BY <2>2, <2>3
    <2> QED
      BY <2>1, <2>4 DEF WaitInv, t, n
  <1>4. ASSUME NEW q \in Procs, SendTimesOut(q) PROVE WaitInv'
    BY <1>4 DEF SendTimesOut, Types, WaitInv
  <1>5. ASSUME NEW p \in Procs,
               \/ Hangup(p) \/ ChangeServer(p) \/ OnAnswer(p) \/ Close(p)
               \/ OnCallService(p) \/ OnCallAction(p) \/ EndWait(p) \/ WaitRaises(p)
        PROVE  WaitInv'
    BY <1>1, <1>5 DEF Hangup, ChangeServer, OnAnswer, Close, OnCallService, OnCallAction,
        EndWait, WaitRaises
  <1>6. ASSUME NEW p \in Procs, NEW c \in Calls,
               \/ TakeRequest(p, c) \/ Feedback(p, c) \/ Finish(p, c) \/ GoalResponse(p, c)
               \/ \E what \in {"goal", "result"} : Answer(p, c, what)
        PROVE  WaitInv'
    BY <1>1, <1>6 DEF TakeRequest, Feedback, Finish, GoalResponse, Answer
  <1>7. CASE UNCHANGED vars
    BY <1>1, <1>7 DEF vars
  <1>8. CASE Next
    BY <1>2, <1>3, <1>4, <1>5, <1>6, <1>8
       DEF Next, LoopStep, RosStep, ServerStep, TakeResponse, TakeGoalResult
  <1> QED
    BY <1>7, <1>8

\* A process, whose client waits, is not stuck and can do nothing: the group of
\* its target is kept by a call that waits too.
LEMMA WaitsForTarget ==
    ASSUME CInv, GroupInv, WorkInv, WaitInv,
           \A p \in Procs : ~CanAct(p), \A p \in Procs : ~Stuck(p),
           NEW p \in Procs, NEW c \in called[p], conn[p] => c \notin lost
    PROVE  /\ Target[p] \in Procs
           /\ group[Target[p]] # NoCall
  <1> DEFINE q == Target[p]
  <1>1. Types
    BY TypesAreTypeOK DEF CInv
  <1>2. c \in Calls /\ who[c] = p /\ q \in Procs
    <2>1. c \in Calls /\ who[c] = p
      BY <1>1 DEF Types, CInv, HomeInv, CallerHome
    <2> QED
      BY <2>1 DEF CInv, HomeInv, CallHome
  <1>3. \A x \in Procs : loop[x] = NoCall /\ outbox[x] = <<>> /\ ~waits[x] /\ ~dead[x]
    BY DEF CanAct, Stuck, WaitInv
  <1>4. c \notin settled
    BY <1>3 DEF CanAct, RosFree
  <1>5. conn[p]
    BY <1>2, <1>4, CallAssumption DEF CanAct
  <1>6. toPeer[p] = <<>> /\ fromPeer[p] = <<>>
    BY <1>2, <1>3, <1>5 DEF CanAct
  <1>7. server[q] = {}
    BY <1>2 DEF CanAct, WorkInv, Questions
  <1>8. PICK k \in Stages : At(c, k)
    <2>1. PlaceInv(c) /\ c \in called[who[c]] \ (settled \cup lost) /\ conn[who[c]] /\ who[c] \in Procs
      BY <1>2, <1>4, <1>5 DEF CInv
    <2> QED
      BY <2>1 DEF PlaceInv
  <1>9. answers[q] # {}
    <2>1. c # NoCall
      BY <1>2, CallAssumption
    <2>2. ~Has(toPeer[p], c) /\ ~Has(fromPeer[p], c)
      BY <1>6, WireEmpty
    <2>3. loop[q] # c /\ ~Has(outbox[q], c)
      BY <1>2, <1>3, <2>1, WireEmpty
    <2> QED
      BY <1>2, <1>7, <1>8, <2>2, <2>3 DEF At
  <1>10. ~GroupFree(q)
    <2>1. answers[q] \cap Replies # {}
      BY <1>2, <1>9 DEF WorkInv
    <2> QED
      BY <1>2, <2>1 DEF CanAct, Replies
  <1> QED
    BY <1>2, <1>3, <1>10 DEF GroupFree, RosFree

\* SomebodyCanAct: for any graph of processes and any number of calls, processes
\* that all wait for each other call services, and not goals, in a circle.
THEOREM NobodyWaitsForAll == Spec => []SomebodyCanAct
  <1>1. Init => GroupInv /\ WorkInv /\ WaitInv
    BY DEF Init, GroupInv, WorkInv, WaitInv
  <1>2. CInv /\ GroupInv /\ WorkInv /\ WaitInv /\ [Next]_vars
            => GroupInv' /\ WorkInv' /\ WaitInv'
    BY TypesAreTypeOK, NextGroupInv, NextWorkInv, NextWaitInv DEF CInv
  <1>3. CInv /\ GroupInv /\ WorkInv /\ WaitInv => SomebodyCanAct
    <2> SUFFICES ASSUME CInv, GroupInv, WorkInv, WaitInv, NoCircle, \A p \in Procs : ~Stuck(p),
                        NEW p \in Procs, NEW c \in called[p], conn[p] => c \notin lost,
                        \A x \in Procs : ~CanAct(x)
                 PROVE  FALSE
      BY DEF SomebodyCanAct
    <2> DEFINE S == {x \in Procs : group[x] # NoCall}
    <2>1. ASSUME NEW x \in S PROVE Target[x] \in S /\ Kind[Target[x]] = "service"
      <3>1. group[x] \in called[x] /\ Kind[Target[x]] = "service"
        BY DEF GroupInv
      <3>2. conn[x] => group[x] \notin lost
        BY DEF Stuck
      <3> QED
        BY <3>1, <3>2, WaitsForTarget
    <2>2. Target[p] \in S
      BY WaitsForTarget
    <2> QED
      BY <2>1, <2>2 DEF NoCircle
  <1> QED
    BY <1>1, <1>2, <1>3, CInvHolds, PTL DEF Spec

=============================================================================
