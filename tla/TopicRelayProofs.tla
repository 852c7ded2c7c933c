-------------------------- MODULE TopicRelayProofs ---------------------------
(***************************************************************************)
(* Proofs about Conversion and TopicRelay, for messages of any type and     *)
(* depth, any compressions and any number of commands and messages.  First  *)
(* what the recursive functions of Conversion compute; then the way of the  *)
(* messages, in order and complete, and their content.                      *)
(***************************************************************************)
EXTENDS TopicRelay, SequenceTheorems, WellFoundedInduction, TLAPS

-----------------------------------------------------------------------------
(***************************************************************************)
(* The invariant                                                            *)
(***************************************************************************)
Values      == {s[2] : s \in Samples}
Arrivals    == Values \cup {Carried[s] : s \in Samples}
Messages(V) == [n : Nat, value : V]

\* A codec that nobody knows ends the ROS thread before there is a frame.
PublishFrames == [op : {"publish"}, m : Messages(Values), codec : Codecs \ {"unknown"},
                  raw : BOOLEAN]
Frames        == [op : {"advertise", "unadvertise"}] \cup PublishFrames
Requests      == [op : {"unsubscribe"}] \cup [op : {"subscribe"}, codec : Codecs]

Types ==
    /\ type \in {s[1] : s \in Samples}
    /\ conn \in BOOLEAN /\ raw \in BOOLEAN /\ adv \in BOOLEAN /\ dead \in BOOLEAN
    /\ withdrawn \in BOOLEAN
    /\ sub \in Codecs \cup {"none"}
    /\ queue \in Seq(Messages(Values)) /\ outbox \in Seq(PublishFrames) /\ waits \in BOOLEAN
    /\ wire \in Seq(Frames) /\ requests \in Seq(Requests)
    /\ out \in Seq(Messages(Arrivals))
    /\ given \in Seq(Values)

\* The numbers of the messages at each place.
Numbers(s)     == {s[i].n : i \in DOMAIN s}
WireNumbers(s) == {s[i].m.n : i \in {j \in DOMAIN s : s[j].op = "publish"}}

Out    == Numbers(out)
OnWire == WireNumbers(wire)
Sent   == WireNumbers(outbox)
Queued == Numbers(queue)
Alive  == Out \cup OnWire \cup Sent \cup Queued

Climbs(s) == \A i, j \in DOMAIN s : i < j => s[i].n < s[j].n
WireClimbs(s) == \A i, j \in DOMAIN s :
    i < j /\ s[i].op = "publish" /\ s[j].op = "publish" => s[i].m.n < s[j].m.n
Before(S, T) == \A m \in S, n \in T : m < n

Placed(O, W, S, Q) ==
    /\ Before(O, W) /\ Before(O, S) /\ Before(O, Q)
    /\ Before(W, S) /\ Before(W, Q) /\ Before(S, Q)

\* Places farther on have the earlier messages, each place has them in order.
OrderInv ==
    /\ Climbs(out) /\ WireClimbs(wire) /\ WireClimbs(outbox) /\ Climbs(queue)
    /\ Placed(Out, OnWire, Sent, Queued)
    /\ Alive \subseteq 1..Len(given)

\* What is on its way is what was given; what has arrived may have been converted.
ContentInv ==
    /\ \A n \in 1..Len(given) : <<type, given[n]>> \in Samples
    /\ \A i \in DOMAIN queue : queue[i].value = given[queue[i].n]
    /\ \A i \in DOMAIN outbox : outbox[i].m.value = given[outbox[i].m.n]
    /\ \A i \in DOMAIN wire : wire[i].op = "publish" => wire[i].m.value = given[wire[i].m.n]
    /\ \A i \in DOMAIN out :
          LET m == given[out[i].n] IN out[i].value = m \/ out[i].value = Carried[<<type, m>>]

\* The topic is advertised, or will be by a frame that comes before the i-th.
Advertised(i) == adv \/ \E j \in DOMAIN wire : j < i /\ wire[j].op = "advertise"

\* As long as nobody withdraws the topic, no message is ahead of its
\* advertisement, and a subscription is only asked for by a node that has
\* advertised.
TopicInv ==
    /\ queue # <<>> => sub # "none"
    /\ conn /\ ~withdrawn =>
          /\ \A i \in DOMAIN requests : requests[i].op = "subscribe"
          /\ requests # <<>> => adv
          /\ \A i \in DOMAIN wire : wire[i].op # "unadvertise"
          /\ \A i \in DOMAIN wire : wire[i].op = "publish" => Advertised(i)
          /\ sub # "none" \/ outbox # <<>> => Advertised(Len(wire) + 1)

AllAlive == conn /\ ~dead /\ ~withdrawn => 1..Len(given) \subseteq Alive

RInv == Types /\ OrderInv /\ ContentInv /\ TopicInv /\ AllAlive

-----------------------------------------------------------------------------
(***************************************************************************)
(* Nesting                                                                  *)
(***************************************************************************)
\* A set of natural numbers has a least one.
LEMMA LeastNatural ==
    ASSUME NEW S \in SUBSET Nat, S # {}
    PROVE  \E m \in S : \A k \in S : m <= k
  <1> DEFINE Less == {ss \in Nat \X Nat : ss[1] < ss[2]}
  <1>1. IsWellFoundedOn(Less, Nat)
    BY NatLessThanWellFounded DEF OpToRel
  <1>2. \A m, k \in Nat : k < m => <<k, m>> \in Less
    OBVIOUS
  <1> HIDE DEF Less
  <1>3. PICK m \in S : \A k \in S : <<k, m>> \notin Less
    BY <1>1, WFMin
  <1>4. ASSUME NEW k \in S PROVE m <= k
    <2>1. ~(k < m)
      BY <1>2, <1>3
    <2> QED
      BY <2>1
  <1> QED
    BY <1>4

\* The messages of a set that nest least have no part in it.
LEMMA Shallowest ==
    ASSUME NEW S \in SUBSET Typed, S # {}
    PROVE  \E x \in S : \A y \in Parts(x) : y \notin S
  <1> DEFINE depths == {Depth[x] : x \in S}
  <1>1. depths \in SUBSET Nat /\ depths # {}
    BY ConversionAssumption
  <1>2. PICK m \in depths : \A k \in depths : m <= k
    BY <1>1, LeastNatural
  <1>3. PICK x \in S : Depth[x] = m
    BY <1>2
  <1>4. ASSUME NEW y \in Parts(x), y \in S PROVE FALSE
    <2>1. Depth[y] < Depth[x] /\ Depth[y] \in Nat /\ Depth[x] \in Nat
      BY <1>4, ConversionAssumption
    <2>2. m <= Depth[y]
      BY <1>2, <1>4
    <2> QED
      BY <1>3, <2>1, <2>2
  <1> QED
    BY <1>4

-----------------------------------------------------------------------------
(***************************************************************************)
(* The recursive functions of Conversion                                    *)
(***************************************************************************)
\* StartsEmpty is the function that its definition describes.
LEMMA StartsEmptyIs ==
    \A x \in Typed : StartsEmpty[x] <=> /\ x[1].kind = "array" => x[1].default = <<>>
                                        /\ \A y \in Parts(x) : StartsEmpty[y]
  <1> DEFINE Good(x) == x[1].kind = "array" => x[1].default = <<>>
             Solves(f) == f = [x \in Typed |-> Good(x) /\ \A y \in Parts(x) : f[y]]
             All == UNION {S \in SUBSET Typed : \A x \in S : Good(x) /\ Parts(x) \subseteq S}
             F == [x \in Typed |-> x \in All]
  <1>1. ASSUME NEW x \in All PROVE Good(x) /\ Parts(x) \subseteq All
    OBVIOUS
  <1>2. ASSUME NEW x \in Typed, Good(x), Parts(x) \subseteq All PROVE x \in All
    <2>1. All \cup {x} \in SUBSET Typed
      OBVIOUS
    <2>2. \A z \in All \cup {x} : Good(z) /\ Parts(z) \subseteq All \cup {x}
      BY <1>1, <1>2
    <2> QED
      BY <2>1, <2>2
  <1>3. \A x \in Typed : Parts(x) \subseteq Typed
    BY ConversionAssumption
  <1> HIDE DEF All, Good
  <1>4. Solves(F)
    <2>1. ASSUME NEW x \in Typed
          PROVE  F[x] = (Good(x) /\ \A y \in Parts(x) : F[y])
      <3>1. \A y \in Parts(x) : F[y] = (y \in All)
        BY <1>3
      <3>2. F[x] = (x \in All)
        OBVIOUS
      <3>3. x \in All <=> Good(x) /\ Parts(x) \subseteq All
        BY <1>1, <1>2
      <3> HIDE DEF F
      <3>4. Parts(x) \subseteq All <=> \A y \in Parts(x) : F[y]
        BY <3>1
      <3> QED
        BY <3>2, <3>3, <3>4 DEF Good
    <2> HIDE DEF F
    <2>2. F = [x \in Typed |-> F[x]]
      BY DEF F
    <2> QED
      BY <2>1, <2>2
  <1>5. StartsEmpty = CHOOSE f : Solves(f)
    BY DEF StartsEmpty, Good
  <1>6. Solves(StartsEmpty)
    <2> HIDE DEF Solves, F
    <2> QED
      BY <1>4, <1>5
  <1>7. \A x \in Typed : StartsEmpty[x] = (Good(x) /\ \A y \in Parts(x) : StartsEmpty[y])
    BY <1>6
  <1> QED
    BY <1>7 DEF Good

\* ConversionRaises is the function that its definition describes.
LEMMA RaisesIs ==
    \A form \in Forms, x \in Typed :
        ConversionRaises[<<form, x>>] <=>
            PartRaises(form, x[1]) \/ \E y \in Parts(x) : ConversionRaises[<<form, y>>]
  <1> DEFINE Solves(f) == f = [fx \in Forms \X Typed |->
                                  \/ PartRaises(fx[1], fx[2][1])
                                  \/ \E y \in Parts(fx[2]) : f[<<fx[1], y>>]]
             Fine(form) == UNION {S \in SUBSET Typed :
                                     \A x \in S : ~PartRaises(form, x[1]) /\ Parts(x) \subseteq S}
             F == [fx \in Forms \X Typed |-> fx[2] \notin Fine(fx[1])]
  <1>1. ASSUME NEW form, NEW x \in Fine(form)
        PROVE  ~PartRaises(form, x[1]) /\ Parts(x) \subseteq Fine(form)
    OBVIOUS
  <1>2. ASSUME NEW form, NEW x \in Typed, ~PartRaises(form, x[1]), Parts(x) \subseteq Fine(form)
        PROVE  x \in Fine(form)
    <2>1. Fine(form) \cup {x} \in SUBSET Typed
      OBVIOUS
    <2>2. \A z \in Fine(form) \cup {x} :
              ~PartRaises(form, z[1]) /\ Parts(z) \subseteq Fine(form) \cup {x}
      BY <1>1, <1>2
    <2> QED
      BY <2>1, <2>2
  <1>3. \A x \in Typed : Parts(x) \subseteq Typed
    BY ConversionAssumption
  <1> HIDE DEF Fine
  <1>4. Solves(F)
    <2>1. ASSUME NEW fx \in Forms \X Typed
          PROVE  F[fx] = (\/ PartRaises(fx[1], fx[2][1])
                          \/ \E y \in Parts(fx[2]) : F[<<fx[1], y>>])
      <3>1. fx[1] \in Forms /\ fx[2] \in Typed
        OBVIOUS
      <3>2. \A y \in Parts(fx[2]) : F[<<fx[1], y>>] <=> y \notin Fine(fx[1])
        BY <1>3, <3>1
      <3>3. F[fx] <=> fx[2] \notin Fine(fx[1])
        OBVIOUS
      <3> QED
        BY <1>1, <1>2, <3>1, <3>2, <3>3
    <2> HIDE DEF F
    <2>2. F = [fx \in Forms \X Typed |-> F[fx]]
      BY DEF F
    <2> QED
      BY <2>1, <2>2
  <1>5. ConversionRaises = CHOOSE f : Solves(f)
    BY DEF ConversionRaises
  <1>6. Solves(ConversionRaises)
    <2> HIDE DEF Solves, F
    <2> QED
      BY <1>4, <1>5
  <1>7. ASSUME NEW form \in Forms, NEW x \in Typed
        PROVE  ConversionRaises[<<form, x>>] =
                   (PartRaises(form, x[1]) \/ \E y \in Parts(x) : ConversionRaises[<<form, y>>])
    <2>1. <<form, x>> \in Forms \X Typed /\ <<form, x>>[1] = form /\ <<form, x>>[2] = x
      OBVIOUS
    <2> QED
      BY <1>6, <2>1
  <1> QED
    BY <1>7


\* Carried is the function that its definition describes: two functions on
\* messages and all their parts that follow the definition agree, and any of them
\* can be extended by one more message, so that together they reach every message.
LEMMA CarriedIs ==
    \A x \in Typed : Carried[x] = Rebuilt(x, [y \in Parts(x) |-> Carried[y]])
  <1> DEFINE Solves(f) == f = [x \in Typed |-> Rebuilt(x, [y \in Parts(x) |-> f[y]])]
             Follows(g) == /\ DOMAIN g \subseteq Typed
                           /\ \A x \in DOMAIN g :
                                 /\ Parts(x) \subseteq DOMAIN g
                                 /\ g[x] = Rebuilt(x, [y \in Parts(x) |-> g[y]])
             Has(g, z) == Follows(g) /\ z \in DOMAIN g
             Reached == {z \in Typed : \E g : Has(g, z)}
             Of(z) == CHOOSE g : Has(g, z)
             F == [z \in Reached |-> Of(z)[z]]
  <1>1. ASSUME NEW g, NEW h, Follows(g), Follows(h), NEW z \in DOMAIN g \cap DOMAIN h
        PROVE  g[z] = h[z]
    <2> DEFINE Apart == {x \in DOMAIN g \cap DOMAIN h : g[x] # h[x]}
    <2>1. SUFFICES ASSUME Apart # {} PROVE FALSE
      OBVIOUS
    <2>2. Apart \in SUBSET Typed
      BY <1>1
    <2>3. PICK x \in Apart : \A y \in Parts(x) : y \notin Apart
      BY <2>1, <2>2, Shallowest
    <2>4. Parts(x) \subseteq DOMAIN g /\ Parts(x) \subseteq DOMAIN h
      BY <1>1
    <2>5. \A y \in Parts(x) : g[y] = h[y]
      BY <2>3, <2>4
    <2>6. [y \in Parts(x) |-> g[y]] = [y \in Parts(x) |-> h[y]]
      BY <2>5
    <2>7. g[x] = Rebuilt(x, [y \in Parts(x) |-> g[y]]) /\ h[x] = Rebuilt(x, [y \in Parts(x) |-> h[y]])
      BY <1>1
    <2> QED
      BY <2>6, <2>7
  <1>2. \A z \in Reached : Has(Of(z), z)
    <2> HIDE DEF Has
    <2> QED
      OBVIOUS
  <1>3. ASSUME NEW g, Follows(g), NEW z \in DOMAIN g PROVE z \in Reached /\ F[z] = g[z]
    <2>1. z \in Typed /\ Has(g, z)
      BY <1>3
    <2>2. z \in Reached
      <3> HIDE DEF Has
      <3> QED
        BY <2>1
    <2>3. Has(Of(z), z)
      BY <1>2, <2>2
    <2>4. F[z] = Of(z)[z]
      <3> HIDE DEF Reached, Of
      <3> QED
        BY <2>2
    <2> HIDE DEF Reached, F, Of
    <2>5. Of(z)[z] = g[z]
      <3> HIDE DEF Follows
      <3> QED
        BY <1>1, <1>3, <2>3
    <2> QED
      BY <2>2, <2>4, <2>5
  <1>4. \A x \in Reached : /\ Parts(x) \subseteq Reached
                           /\ F[x] = Rebuilt(x, [y \in Parts(x) |-> F[y]])
    <2> SUFFICES ASSUME NEW x \in Reached
                 PROVE  /\ Parts(x) \subseteq Reached
                        /\ F[x] = Rebuilt(x, [y \in Parts(x) |-> F[y]])
      OBVIOUS
    <2> DEFINE g == Of(x)
    <2>1. Follows(g) /\ x \in DOMAIN g
      BY <1>2
    <2>2. Parts(x) \subseteq DOMAIN g /\ g[x] = Rebuilt(x, [y \in Parts(x) |-> g[y]])
      BY <2>1
    <2> HIDE DEF g, F, Reached, Follows
    <2>3. \A y \in Parts(x) : y \in Reached /\ F[y] = g[y]
      BY <1>3, <2>1, <2>2
    <2>4. [y \in Parts(x) |-> F[y]] = [y \in Parts(x) |-> g[y]]
      BY <2>3
    <2>5. F[x] = g[x]
      BY <1>3, <2>1
    <2> QED
      BY <2>2, <2>3, <2>4, <2>5
  <1>5. Typed \subseteq Reached
    <2> DEFINE Rest == Typed \ Reached
    <2> SUFFICES ASSUME Rest # {} PROVE FALSE
      OBVIOUS
    <2>1. PICK x \in Rest : \A y \in Parts(x) : y \notin Rest
      <3> HIDE DEF Reached
      <3> QED
        BY Shallowest
    <2>2. Parts(x) \subseteq Reached /\ x \in Typed /\ x \notin Reached
      <3> HIDE DEF Reached
      <3> QED
        BY <2>1, ConversionAssumption
    <2> DEFINE V == Rebuilt(x, [y \in Parts(x) |-> F[y]])
               h == [z \in Reached \cup {x} |-> IF z = x THEN V ELSE F[z]]
    <2>3. DOMAIN h \subseteq Typed
      BY <2>2
    <2>4. ASSUME NEW z \in DOMAIN h
          PROVE  Parts(z) \subseteq DOMAIN h /\ h[z] = Rebuilt(z, [y \in Parts(z) |-> h[y]])
      <3> HIDE DEF Reached, V, F
      <3>1. Parts(z) \subseteq Reached
        BY <1>4, <2>2
      <3>2. \A y \in Parts(z) : h[y] = F[y]
        BY <2>2, <3>1
      <3>3. [y \in Parts(z) |-> h[y]] = [y \in Parts(z) |-> F[y]]
        BY <3>2
      <3>4. h[z] = Rebuilt(z, [y \in Parts(z) |-> F[y]])
        <4>1. CASE z = x
          <5>1. h[z] = V
            BY <4>1
          <5> QED
            BY <4>1, <5>1 DEF V
        <4>2. CASE z # x
          <5>1. h[z] = F[z] /\ z \in Reached
            BY <4>2
          <5> QED
            BY <5>1, <1>4
        <4> QED
          BY <4>1, <4>2
      <3> QED
        BY <3>1, <3>3, <3>4
    <2>5. x \in DOMAIN h
      OBVIOUS
    <2> HIDE DEF h, F, Reached
    <2>6. Follows(h)
      BY <2>3, <2>4
    <2> QED
      BY <1>3, <2>2, <2>5, <2>6
  <1>6. Solves(F)
    <2> HIDE DEF Of
    <2>1. Reached = Typed
      BY <1>5
    <2> HIDE DEF Reached
    <2>2. F = [x \in Typed |-> F[x]]
      BY <2>1
    <2> HIDE DEF F
    <2> QED
      BY <1>4, <2>1, <2>2
  <1>7. Carried = CHOOSE f : Solves(f)
    BY DEF Carried
  <1>8. Solves(Carried)
    <2> HIDE DEF Solves, F
    <2> QED
      BY <1>6, <1>7
  <1> QED
    BY <1>8

-----------------------------------------------------------------------------
(***************************************************************************)
(* What conversion does to a message                                        *)
(***************************************************************************)
\* What IsSequence holds of is a sequence.
LEMMA SequenceIs ==
    ASSUME NEW S, NEW s, IsSequence(s), \A i \in 1..Len(s) : s[i] \in S
    PROVE  s \in Seq(S)
  BY DEF IsSequence

\* A message is carried as it is when its parts are and nothing is put in front.
LEMMA RebuiltSame ==
    ASSUME NEW x \in Typed, x[1].kind = "array" => x[1].default = <<>>,
           NEW carried, \A y \in Parts(x) : carried[y] = y[2]
    PROVE  Rebuilt(x, carried) = x[2]
  <1>0. IsOfType(x)
    BY ConversionAssumption
  <1>1. CASE x[1].kind = "array"
    <2>1. x[1].default = <<>> /\ IsSequence(x[2])
      BY <1>0, <1>1 DEF IsOfType
    <2>2. PICK S : x[2] \in Seq(S)
      <3> DEFINE S == {x[2][i] : i \in 1..Len(x[2])}
      <3>1. x[2] \in Seq(S)
        BY <2>1, SequenceIs
      <3> QED
        BY <3>1
    <2>3. <<>> \o x[2] = x[2]
      BY <2>2, ConcatEmptySeq
    <2> QED
      BY <1>1, <2>1, <2>3 DEF Rebuilt
  <1>2. CASE x[1].kind = "list"
    <2>1. IsSequence(x[2])
      BY <1>0, <1>2 DEF IsOfType
    <2>2. DOMAIN x[2] = 1..Len(x[2]) /\ x[2] = [i \in DOMAIN x[2] |-> x[2][i]]
      BY <2>1 DEF IsSequence
    <2>3. \A i \in DOMAIN x[2] : <<x[1].item, x[2][i]>> \in Parts(x)
      BY <1>2 DEF Parts
    <2>4. \A i \in DOMAIN x[2] : carried[<<x[1].item, x[2][i]>>] = x[2][i]
      BY <2>3
    <2>5. [i \in DOMAIN x[2] |-> carried[<<x[1].item, x[2][i]>>]] = [i \in DOMAIN x[2] |-> x[2][i]]
      BY <2>4
    <2>6. Rebuilt(x, carried) = [i \in DOMAIN x[2] |-> carried[<<x[1].item, x[2][i]>>]]
      BY <1>2 DEF Rebuilt
    <2> QED
      BY <2>2, <2>5, <2>6
  <1>3. CASE x[1].kind = "message"
    <2>2. x[2] = [n \in DOMAIN x[1].fields |-> x[2][n]]
      BY <1>0, <1>3 DEF IsOfType
    <2>3. \A n \in DOMAIN x[1].fields : <<x[1].fields[n], x[2][n]>> \in Parts(x)
      BY <1>3 DEF Parts
    <2>4. \A n \in DOMAIN x[1].fields : carried[<<x[1].fields[n], x[2][n]>>] = x[2][n]
      BY <2>3
    <2>5. [n \in DOMAIN x[1].fields |-> carried[<<x[1].fields[n], x[2][n]>>]]
             = [n \in DOMAIN x[1].fields |-> x[2][n]]
      BY <2>4
    <2>6. Rebuilt(x, carried) = [n \in DOMAIN x[1].fields |-> carried[<<x[1].fields[n], x[2][n]>>]]
      BY <1>3 DEF Rebuilt
    <2> QED
      BY <2>2, <2>5, <2>6
  <1>4. CASE x[1].kind \notin {"array", "list", "message"}
    BY <1>4 DEF Rebuilt
  <1> QED
    BY <1>1, <1>2, <1>3, <1>4

\* A message that is rebuilt as it was has its parts as they were.
LEMMA RebuiltSameParts ==
    ASSUME NEW x \in Typed, NEW carried, Rebuilt(x, carried) = x[2]
    PROVE  /\ x[1].kind = "array" => x[1].default = <<>>
           /\ \A y \in Parts(x) : carried[y] = y[2]
  <1>0. IsOfType(x)
    BY ConversionAssumption
  <1>1. CASE x[1].kind = "array"
    <2>1. IsSequence(x[1].default) /\ IsSequence(x[2])
      BY <1>0, <1>1 DEF IsOfType
    <2> DEFINE S == {x[2][i] : i \in 1..Len(x[2])} \cup {x[1].default[i] : i \in 1..Len(x[1].default)}
    <2>2. x[2] \in Seq(S) /\ x[1].default \in Seq(S)
      BY <2>1, SequenceIs
    <2>3. x[1].default \o x[2] = x[2]
      BY <1>1 DEF Rebuilt
    <2>4. x[1].default = <<>>
      <3> HIDE DEF S
      <3>1. Len(x[1].default \o x[2]) = Len(x[1].default) + Len(x[2])
        BY <2>2, ConcatProperties
      <3>2. Len(x[1].default) \in Nat /\ Len(x[2]) \in Nat
        BY <2>1 DEF IsSequence
      <3>3. Len(x[1].default \o x[2]) = Len(x[2])
        BY ONLY <2>3, Zenon
      <3>4. \A k, l \in Nat : k + l = l => k = 0
        OBVIOUS
      <3>5. Len(x[1].default) = 0
        BY <3>1, <3>2, <3>3, <3>4
      <3> QED
        BY <2>2, <3>5, EmptySeq
    <2>5. Parts(x) = {}
      BY <1>1 DEF Parts
    <2> QED
      BY <2>4, <2>5
  <1>2. CASE x[1].kind = "list"
    <2>1. \A i \in DOMAIN x[2] : Rebuilt(x, carried)[i] = carried[<<x[1].item, x[2][i]>>]
      BY <1>2 DEF Rebuilt
    <2>2. \A i \in DOMAIN x[2] : carried[<<x[1].item, x[2][i]>>] = x[2][i]
      BY <2>1
    <2>3. Parts(x) = {<<x[1].item, x[2][i]>> : i \in DOMAIN x[2]}
      BY <1>2 DEF Parts
    <2> QED
      BY <1>2, <2>2, <2>3
  <1>3. CASE x[1].kind = "message"
    <2>1. \A n \in DOMAIN x[1].fields : Rebuilt(x, carried)[n] = carried[<<x[1].fields[n], x[2][n]>>]
      BY <1>3 DEF Rebuilt
    <2>2. \A n \in DOMAIN x[1].fields : carried[<<x[1].fields[n], x[2][n]>>] = x[2][n]
      BY <2>1
    <2>3. Parts(x) = {<<x[1].fields[n], x[2][n]>> : n \in DOMAIN x[1].fields}
      BY <1>3 DEF Parts
    <2> QED
      BY <1>3, <2>2, <2>3
  <1>4. CASE x[1].kind \notin {"array", "list", "message"}
    BY <1>4 DEF Parts
  <1> QED
    BY <1>1, <1>2, <1>3, <1>4

\* A message arrives as it was sent exactly if it has, at any depth, no array
\* that a new message starts with elements of: ros_from_text_dict and
\* ros_from_bin_dict append to them.
THEOREM CarriedUnchanged ==
    \A x \in Typed : Carried[x] = x[2] <=> StartsEmpty[x]
  <1> DEFINE Wrong == {x \in Typed : ~(Carried[x] = x[2] <=> StartsEmpty[x])}
  <1> SUFFICES ASSUME Wrong # {} PROVE FALSE
    OBVIOUS
  <1>1. PICK x \in Wrong : \A y \in Parts(x) : y \notin Wrong
    BY Shallowest
  <1> DEFINE carried == [y \in Parts(x) |-> Carried[y]]
  <1>2. \A y \in Parts(x) : carried[y] = y[2] <=> StartsEmpty[y]
    BY <1>1, ConversionAssumption
  <1>3. Carried[x] = Rebuilt(x, carried)
    BY CarriedIs
  <1> HIDE DEF carried
  <1>4. StartsEmpty[x] => Carried[x] = x[2]
    BY <1>2, <1>3, RebuiltSame, StartsEmptyIs
  <1>5. Carried[x] = x[2] => StartsEmpty[x]
    <2> SUFFICES ASSUME Carried[x] = x[2] PROVE StartsEmpty[x]
      OBVIOUS
    <2>1. Rebuilt(x, carried) = x[2]
      BY <1>3
    <2>2. /\ x[1].kind = "array" => x[1].default = <<>>
          /\ \A y \in Parts(x) : carried[y] = y[2]
      BY <2>1, RebuiltSameParts
    <2>3. \A y \in Parts(x) : StartsEmpty[y]
      BY <1>2, <2>2
    <2> QED
      BY <2>2, <2>3, StartsEmptyIs
  <1> QED
    BY <1>4, <1>5

\* Whatever a message loses its connection for as text, it does in binary form
\* too: ros_from_bin_dict reads no more types than ros_from_text_dict.
THEOREM BinaryRaisesMore ==
    \A x \in Typed : ConversionRaises[<<"text", x>>] => ConversionRaises[<<"bin", x>>]
  <1> DEFINE Wrong == {x \in Typed : ConversionRaises[<<"text", x>>] /\ ~ConversionRaises[<<"bin", x>>]}
  <1> SUFFICES ASSUME Wrong # {} PROVE FALSE
    OBVIOUS
  <1>1. PICK x \in Wrong : \A y \in Parts(x) : y \notin Wrong
    BY Shallowest
  <1>2. \A y \in Parts(x) : ConversionRaises[<<"text", y>>] => ConversionRaises[<<"bin", y>>]
    BY <1>1, ConversionAssumption
  <1>3. PartRaises("text", x[1]) => PartRaises("bin", x[1])
    BY DEF PartRaises, KeepsDType
  <1> QED
    BY <1>2, <1>3, RaisesIs DEF Forms

-----------------------------------------------------------------------------
(***************************************************************************)
(* Sequences of messages and frames                                         *)
(***************************************************************************)
\* One element more at the end, or one less in front.
Lengthened(s, t, e) ==
    /\ Len(s) \in Nat /\ DOMAIN s = 1..Len(s)
    /\ DOMAIN t = 1..(Len(s) + 1) /\ Len(t) = Len(s) + 1
    /\ \A i \in DOMAIN s : t[i] = s[i]
    /\ t[Len(s) + 1] = e

Shortened(s, t) ==
    /\ Len(s) \in Nat /\ DOMAIN s = 1..Len(s)
    /\ DOMAIN t = 1..(Len(s) - 1) /\ Len(t) = Len(s) - 1
    /\ \A i \in DOMAIN t : i + 1 \in DOMAIN s /\ t[i] = s[i + 1]
    /\ 1 \in DOMAIN s /\ Head(s) = s[1]

\* A frame other than a message at the end of the wire.
Controlled(s, t, f) ==
    /\ t \in Seq(Frames) /\ Lengthened(s, t, f)
    /\ WireClimbs(t) /\ WireNumbers(t) = WireNumbers(s)
    /\ \A i \in DOMAIN t : t[i].op = "publish" => i \in DOMAIN s /\ t[i] = s[i]

\* What Append and Tail do, element by element.
LEMMA AppendIs ==
    ASSUME NEW S, NEW s \in Seq(S), NEW e \in S
    PROVE  Append(s, e) \in Seq(S) /\ Lengthened(s, Append(s, e), e)
  BY AppendProperties, LenProperties, ElementOfSeq DEF Lengthened

LEMMA TailIs ==
    ASSUME NEW S, NEW s \in Seq(S), s # <<>>
    PROVE  Tail(s) \in Seq(S) /\ Head(s) \in S /\ Shortened(s, Tail(s))
  BY HeadTailProperties, LenProperties, ElementOfSeq DEF Shortened

\* A sequence of messages that gets the latest one at its end, or loses its head.
LEMMA MessagesAppend ==
    ASSUME NEW V, NEW s \in Seq(Messages(V)), NEW m \in Messages(V), Climbs(s),
           \A k \in Numbers(s) : k < m.n
    PROVE  /\ Climbs(Append(s, m))
           /\ Numbers(Append(s, m)) = Numbers(s) \cup {m.n}
  <1>1. /\ Len(s) \in Nat /\ DOMAIN s = 1..Len(s)
        /\ DOMAIN Append(s, m) = 1..(Len(s) + 1)
        /\ \A i \in DOMAIN s : Append(s, m)[i] = s[i]
        /\ Append(s, m)[Len(s) + 1] = m
    BY AppendIs DEF Lengthened
  <1> DEFINE t == Append(s, m)
  <1> HIDE DEF t
  <1>2. \A i \in DOMAIN s : s[i].n < m.n
    BY DEF Numbers
  <1>3. Climbs(t)
    BY <1>1, <1>2 DEF Climbs, t
  <1>4. Numbers(t) = Numbers(s) \cup {m.n}
    <2>1. \A i \in DOMAIN t : i \in DOMAIN s \/ i = Len(s) + 1
      BY <1>1 DEF t
    <2>2. \A i \in DOMAIN s : i \in DOMAIN t
      BY <1>1 DEF t
    <2>3. Len(s) + 1 \in DOMAIN t
      BY <1>1 DEF t
    <2>4. Numbers(t) \subseteq Numbers(s) \cup {m.n}
      BY <1>1, <2>1 DEF Numbers, t
    <2>5. m.n \in Numbers(t)
      BY <1>1, <2>3 DEF Numbers, t
    <2>6. Numbers(s) \subseteq Numbers(t)
      BY <1>1, <2>2 DEF Numbers, t
    <2> QED
      BY <2>4, <2>5, <2>6
  <1> QED
    BY <1>3, <1>4 DEF t

LEMMA MessagesTail ==
    ASSUME NEW V, NEW s \in Seq(Messages(V)), s # <<>>, Climbs(s)
    PROVE  /\ Climbs(Tail(s))
           /\ Numbers(s) = {Head(s).n} \cup Numbers(Tail(s))
           /\ \A k \in Numbers(Tail(s)) : Head(s).n < k
  <1> DEFINE t == Tail(s)
  <1>1. /\ Len(s) \in Nat /\ DOMAIN s = 1..Len(s)
        /\ DOMAIN t = 1..(Len(s) - 1)
        /\ \A i \in DOMAIN t : i + 1 \in DOMAIN s /\ t[i] = s[i + 1]
        /\ 1 \in DOMAIN s /\ Head(s) = s[1]
    BY TailIs DEF Shortened
  <1> HIDE DEF t
  <1>2. \A i \in DOMAIN s : i = 1 \/ (i - 1 \in DOMAIN t /\ t[i - 1] = s[i])
    BY <1>1
  <1>3. Climbs(t)
    BY <1>1 DEF Climbs
  <1>4. Numbers(t) \subseteq Numbers(s) /\ Head(s).n \in Numbers(s)
    BY <1>1 DEF Numbers
  <1>5. Numbers(s) \subseteq {Head(s).n} \cup Numbers(t)
    BY <1>1, <1>2 DEF Numbers
  <1>6. \A k \in Numbers(t) : Head(s).n < k
    BY <1>1 DEF Numbers, Climbs
  <1> QED
    BY <1>3, <1>4, <1>5, <1>6 DEF t

\* The numbers on a wire that gets a frame at its end, or loses its head.
LEMMA WireAppend ==
    ASSUME NEW s \in Seq(Frames), NEW f \in Frames, WireClimbs(s),
           f.op = "publish" => \A k \in WireNumbers(s) : k < f.m.n
    PROVE  /\ WireClimbs(Append(s, f))
           /\ WireNumbers(Append(s, f)) =
                 WireNumbers(s) \cup (IF f.op = "publish" THEN {f.m.n} ELSE {})
  <1> DEFINE t == Append(s, f)
  <1>1. /\ Len(s) \in Nat /\ DOMAIN s = 1..Len(s)
        /\ DOMAIN t = 1..(Len(s) + 1)
        /\ \A i \in DOMAIN s : t[i] = s[i]
        /\ t[Len(s) + 1] = f
    BY AppendIs DEF Lengthened
  <1> HIDE DEF t
  <1>2. \A i \in DOMAIN t : i \in DOMAIN s \/ i = Len(s) + 1
    BY <1>1
  <1>3. (\A i \in DOMAIN s : i \in DOMAIN t) /\ Len(s) + 1 \in DOMAIN t
    BY <1>1
  <1>4. f.op = "publish" => \A i \in DOMAIN s : s[i].op = "publish" => s[i].m.n < f.m.n
    BY DEF WireNumbers
  <1>5. WireClimbs(t)
    BY <1>1, <1>4 DEF WireClimbs
  <1>6. WireNumbers(s) \subseteq WireNumbers(t)
    BY <1>1, <1>3 DEF WireNumbers
  <1>7. f.op = "publish" => f.m.n \in WireNumbers(t)
    BY <1>1, <1>3 DEF WireNumbers
  <1>8. WireNumbers(t) \subseteq WireNumbers(s) \cup (IF f.op = "publish" THEN {f.m.n} ELSE {})
    BY <1>1, <1>2 DEF WireNumbers
  <1> QED
    BY <1>5, <1>6, <1>7, <1>8 DEF t

LEMMA WireTail ==
    ASSUME NEW s \in Seq(Frames), s # <<>>, WireClimbs(s)
    PROVE  /\ WireClimbs(Tail(s))
           /\ WireNumbers(s) =
                 (IF Head(s).op = "publish" THEN {Head(s).m.n} ELSE {}) \cup WireNumbers(Tail(s))
           /\ Head(s).op = "publish" => \A k \in WireNumbers(Tail(s)) : Head(s).m.n < k
  <1> DEFINE t == Tail(s)
  <1>1. /\ Len(s) \in Nat /\ DOMAIN s = 1..Len(s)
        /\ DOMAIN t = 1..(Len(s) - 1)
        /\ \A i \in DOMAIN t : i + 1 \in DOMAIN s /\ t[i] = s[i + 1]
        /\ 1 \in DOMAIN s /\ Head(s) = s[1]
    BY TailIs DEF Shortened
  <1> HIDE DEF t
  <1>2. \A i \in DOMAIN s : i = 1 \/ (i - 1 \in DOMAIN t /\ t[i - 1] = s[i])
    BY <1>1
  <1>3. WireClimbs(t)
    BY <1>1 DEF WireClimbs
  <1>4. WireNumbers(t) \subseteq WireNumbers(s)
    BY <1>1 DEF WireNumbers
  <1>5. Head(s).op = "publish" => Head(s).m.n \in WireNumbers(s)
    BY <1>1 DEF WireNumbers
  <1>6. WireNumbers(s) \subseteq (IF Head(s).op = "publish" THEN {Head(s).m.n} ELSE {}) \cup WireNumbers(t)
    BY <1>1, <1>2 DEF WireNumbers
  <1>7. Head(s).op = "publish" => \A k \in WireNumbers(t) : Head(s).m.n < k
    BY <1>1 DEF WireNumbers, WireClimbs
  <1> QED
    BY <1>3, <1>4, <1>5, <1>6, <1>7 DEF t

\* There is no number where there is nothing.
LEMMA EmptyPlaces ==
    /\ Climbs(<<>>) /\ WireClimbs(<<>>)
    /\ Numbers(<<>>) = {} /\ WireNumbers(<<>>) = {}
  BY DEF Climbs, WireClimbs, Numbers, WireNumbers

\* What the loop has been handed are frames with messages.
LEMMA OutboxIs ==
    Types => /\ outbox \in Seq(Frames) /\ DOMAIN outbox = 1..Len(outbox) /\ Len(outbox) \in Nat
             /\ \A i \in DOMAIN outbox : outbox[i] \in PublishFrames /\ outbox[i].op = "publish"
  <1> SUFFICES ASSUME Types
               PROVE  /\ outbox \in Seq(Frames) /\ DOMAIN outbox = 1..Len(outbox)
                      /\ Len(outbox) \in Nat
                      /\ \A i \in DOMAIN outbox : /\ outbox[i] \in PublishFrames
                                                  /\ outbox[i].op = "publish"
    OBVIOUS
  <1>1. outbox \in Seq(PublishFrames)
    BY DEF Types
  <1>2. DOMAIN outbox = 1..Len(outbox) /\ Len(outbox) \in Nat
    BY <1>1, LenProperties
  <1>3. \A i \in DOMAIN outbox : outbox[i] \in PublishFrames
    BY <1>1, <1>2, ElementOfSeq
  <1>4. outbox \in Seq(Frames)
    <2>1. Seq(PublishFrames) \subseteq Seq(Frames)
      BY DEF Frames
    <2> QED
      BY <1>1, <2>1
  <1>5. \A i \in DOMAIN outbox : outbox[i].op = "publish"
    BY <1>3 DEF PublishFrames
  <1> QED
    BY <1>2, <1>3, <1>4, <1>5

-----------------------------------------------------------------------------
(***************************************************************************)
(* Every step keeps the invariant                                           *)
(***************************************************************************)
\* Initially nothing is given and nothing is anywhere.
LEMMA RelayInit == Init => RInv
  <1> SUFFICES ASSUME Init PROVE RInv
    OBVIOUS
  <1>1. Types
    <2>1. <<>> \in Seq(Messages(Values)) /\ <<>> \in Seq(Frames) /\ <<>> \in Seq(Requests)
          /\ <<>> \in Seq(Messages(Arrivals)) /\ <<>> \in Seq(Values)
          /\ <<>> \in Seq(PublishFrames)
      OBVIOUS
    <2> QED
      BY <2>1 DEF Init, Types
  <1>2. Out = {} /\ OnWire = {} /\ Sent = {} /\ Queued = {}
    BY EmptyPlaces DEF Init, Out, OnWire, Sent, Queued
  <1>3. OrderInv
    BY <1>2, EmptyPlaces DEF Init, OrderInv, Placed, Before, Alive
  <1>4. ContentInv
    BY DEF Init, ContentInv
  <1>5. TopicInv
    BY DEF Init, TopicInv
  <1>6. AllAlive
    BY DEF Init, AllAlive
  <1> QED
    BY <1>1, <1>3, <1>4, <1>5, <1>6 DEF RInv

\* A frame other than a message changes no number on the wire.
LEMMA ControlFrame ==
    ASSUME NEW s \in Seq(Frames), WireClimbs(s), NEW f \in [op : {"advertise", "unadvertise"}]
    PROVE  Controlled(s, Append(s, f), f)
  <1>1. f \in Frames /\ f.op # "publish"
    BY DEF Frames
  <1>2. WireClimbs(Append(s, f)) /\ WireNumbers(Append(s, f)) = WireNumbers(s)
    BY <1>1, WireAppend
  <1>3. Append(s, f) \in Seq(Frames) /\ Lengthened(s, Append(s, f), f)
    BY <1>1, AppendIs DEF Lengthened
  <1>4. \A i \in DOMAIN Append(s, f) : i \in DOMAIN s \/ i = Len(s) + 1
    BY <1>3 DEF Lengthened
  <1> QED
    BY <1>1, <1>2, <1>3, <1>4 DEF Lengthened, Controlled

\* 'pub' keeps the invariant: its advertisement comes before any message of the
\* subscription that it makes.
LEMMA BatchPubKeeps ==
    ASSUME RInv, NEW compression \in Compressions, NEW israw \in BOOLEAN,
           BatchPub(compression, israw)
    PROVE  RInv'
  <1>0. /\ UNCHANGED <<type, conn, outbox, waits, out, dead, given, queue, requests, adv>>
        /\ withdrawn' = withdrawn
        /\ sub' \in Codecs /\ raw' \in BOOLEAN
        /\ wire' = Append(wire, [op |-> "advertise"])
    BY RelayAssumption DEF RInv, Types, BatchPub, Command, Subscribe, Codec, Codecs
  <1>1. Controlled(wire, wire', [op |-> "advertise"])
    BY <1>0, ControlFrame DEF RInv, Types, OrderInv
  <1>2. Types'
    BY <1>0, <1>1 DEF Controlled, Lengthened, RInv, Types
  <1>3. Out' = Out /\ OnWire' = OnWire /\ Sent' = Sent /\ Queued' = Queued /\ Alive' = Alive
    BY <1>0, <1>1 DEF Controlled, Lengthened, Out, OnWire, Sent, Queued, Alive
  <1>4. OrderInv'
    BY <1>0, <1>1, <1>3 DEF Controlled, Lengthened, RInv, OrderInv
  <1>5. ContentInv'
    BY <1>0, <1>1 DEF Controlled, Lengthened, RInv, ContentInv
  <1>6. TopicInv'
    <2>1. sub' # "none"
      BY <1>0 DEF Codecs
    <2> SUFFICES ASSUME conn, ~withdrawn
                 PROVE  /\ \A i \in DOMAIN wire' : wire'[i].op # "unadvertise"
                        /\ \A i \in DOMAIN wire' : wire'[i].op = "publish" => Advertised(i)'
                        /\ Advertised(Len(wire) + 1)'
      BY <1>0, <1>1, <2>1 DEF Controlled, Lengthened, RInv, TopicInv
    <2>2. /\ \A i \in DOMAIN requests : requests[i].op = "subscribe"
          /\ \A i \in DOMAIN wire : wire[i].op # "unadvertise"
          /\ \A i \in DOMAIN wire : wire[i].op = "publish" => Advertised(i)
      BY DEF RInv, TopicInv
    <2>3. \A i : Advertised(i) => Advertised(i)'
      BY <1>0, <1>1 DEF Controlled, Lengthened, Advertised
    <2>4. \A i \in DOMAIN wire' : wire'[i].op # "unadvertise"
      BY <1>1, <2>2 DEF Controlled, Lengthened
    <2>5. \A i \in DOMAIN wire' : wire'[i].op = "publish" => Advertised(i)'
      BY <1>1, <2>2, <2>3 DEF Controlled
    <2>6. Advertised(Len(wire) + 1)'
      BY <1>1 DEF Controlled, Lengthened, Advertised
    <2> QED
      BY <2>4, <2>5, <2>6
  <1>7. AllAlive'
    BY <1>0, <1>3 DEF RInv, AllAlive
  <1> QED
    BY <1>2, <1>4, <1>5, <1>6, <1>7 DEF RInv

\* 'unadv' keeps the invariant: what the subscription had is thrown away.
LEMMA BatchUnadvKeeps == RInv /\ BatchUnadv => RInv'
  <1> SUFFICES ASSUME RInv, BatchUnadv PROVE RInv'
    OBVIOUS
  <1>0. /\ UNCHANGED <<type, conn, outbox, waits, out, dead, given, requests, adv>>
        /\ withdrawn' = TRUE
        /\ sub' = "none" /\ raw' = FALSE /\ queue' = <<>>
        /\ wire' = Append(wire, [op |-> "unadvertise"])
    BY DEF RInv, Types, BatchUnadv, Command, Unsubscribe
  <1>1. Controlled(wire, wire', [op |-> "unadvertise"])
    BY <1>0, ControlFrame DEF RInv, Types, OrderInv
  <1>2. Types'
    <2>1. <<>> \in Seq(Messages(Values))
      OBVIOUS
    <2> QED
      BY <1>0, <1>1, <2>1 DEF Controlled, RInv, Types
  <1>3. Out' = Out /\ OnWire' = OnWire /\ Sent' = Sent /\ Queued' = {} /\ Alive' \subseteq Alive
    BY <1>0, <1>1, EmptyPlaces DEF Controlled, Out, OnWire, Sent, Queued, Alive
  <1>4. OrderInv'
    <2>1. Placed(Out, OnWire, Sent, {})
      BY DEF RInv, OrderInv, Placed, Before
    <2> QED
      BY <1>0, <1>1, <1>3, <2>1, EmptyPlaces DEF Controlled, RInv, OrderInv
  <1>5. ContentInv'
    BY <1>0, <1>1 DEF Controlled, RInv, ContentInv
  <1>6. TopicInv' /\ AllAlive'
    BY <1>0 DEF TopicInv, AllAlive
  <1> QED
    BY <1>2, <1>4, <1>5, <1>6 DEF RInv

\* A request to the sender's end is one of its known kinds.
LEMMA RequestAppended ==
    ASSUME RInv, NEW f \in Requests, requests' = Append(requests, f)
    PROVE  requests' \in Seq(Requests) /\ Lengthened(requests, requests', f)
  BY AppendIs DEF RInv, Types

\* 'sub' keeps the invariant: the topic is advertised before it is asked for.
LEMMA BatchSubKeeps ==
    ASSUME RInv, NEW israw \in BOOLEAN, BatchSub(israw)
    PROVE  RInv'
  <1> DEFINE f == [op |-> "subscribe", codec |-> Codec("text", israw)]
  <1>0. /\ UNCHANGED <<type, conn, outbox, waits, out, dead, given, queue, wire, sub, raw>>
        /\ withdrawn' = withdrawn /\ adv' = TRUE
        /\ requests' = Append(requests, f)
    BY DEF RInv, Types, BatchSub, Command
  <1>1. f \in Requests /\ f.op = "subscribe"
    BY DEF Requests, Codec, Codecs
  <1> HIDE DEF f
  <1>2. requests' \in Seq(Requests) /\ Lengthened(requests, requests', f)
    BY <1>0, <1>1, RequestAppended
  <1>3. Types'
    BY <1>0, <1>2 DEF RInv, Types
  <1>4. Out' = Out /\ OnWire' = OnWire /\ Sent' = Sent /\ Queued' = Queued /\ Alive' = Alive
    BY <1>0 DEF Out, OnWire, Sent, Queued, Alive
  <1>5. OrderInv' /\ ContentInv' /\ AllAlive'
    BY <1>0, <1>4 DEF RInv, OrderInv, ContentInv, AllAlive
  <1>6. TopicInv'
    <2>1. \A i : Advertised(i)'
      BY <1>0 DEF Advertised
    <2>2. \A i \in DOMAIN requests' : i \in DOMAIN requests \/ requests'[i] = f
      BY <1>2 DEF Lengthened
    <2>3. (\A i \in DOMAIN requests : requests[i].op = "subscribe")
             => \A i \in DOMAIN requests' : requests'[i].op = "subscribe"
      BY <1>1, <1>2, <2>2 DEF Lengthened
    <2> QED
      BY <1>0, <2>1, <2>3 DEF RInv, TopicInv
  <1> QED
    BY <1>3, <1>5, <1>6 DEF RInv

\* 'unsub' keeps the invariant.
LEMMA BatchUnsubKeeps == RInv /\ BatchUnsub => RInv'
  <1> SUFFICES ASSUME RInv, BatchUnsub PROVE RInv'
    OBVIOUS
  <1> DEFINE f == [op |-> "unsubscribe"]
  <1>0. /\ UNCHANGED <<type, conn, outbox, waits, out, dead, given, queue, wire, sub, raw>>
        /\ withdrawn' = TRUE /\ adv' = FALSE
        /\ requests' = Append(requests, f)
    BY DEF RInv, Types, BatchUnsub, Command
  <1>1. f \in Requests
    BY DEF Requests
  <1> HIDE DEF f
  <1>2. requests' \in Seq(Requests)
    BY <1>0, <1>1, RequestAppended
  <1>3. Types'
    BY <1>0, <1>2 DEF RInv, Types
  <1>4. Out' = Out /\ OnWire' = OnWire /\ Sent' = Sent /\ Queued' = Queued /\ Alive' = Alive
    BY <1>0 DEF Out, OnWire, Sent, Queued, Alive
  <1>5. OrderInv' /\ ContentInv' /\ AllAlive' /\ TopicInv'
    BY <1>0, <1>4 DEF RInv, OrderInv, ContentInv, AllAlive, TopicInv
  <1> QED
    BY <1>3, <1>5 DEF RInv

\* A message that is published gets the latest number, behind all that are under
\* way.
LEMMA PublishKeeps ==
    ASSUME RInv, NEW s \in Samples, s[1] = type, Publish(s[2])
    PROVE  RInv'
  <1>0. UNCHANGED <<type, frames, sub, raw, adv, out, dead, withdrawn>>
    BY DEF Publish
  <1>1. CASE UNCHANGED <<queue, given>>
    BY <1>0, <1>1 DEF frames, RInv, Types, OrderInv, ContentInv, TopicInv, AllAlive, Advertised,
        Out, OnWire, Sent, Queued, Alive
  <1>2. CASE ~UNCHANGED <<queue, given>>
    <2> DEFINE m == [n |-> Len(given'), value |-> s[2]]
    <2>1. sub # "none" /\ given' = Append(given, s[2]) /\ queue' = Append(queue, m)
      BY <1>2 DEF Publish
    <2>2. s[2] \in Values /\ given \in Seq(Values) /\ queue \in Seq(Messages(Values))
      BY DEF RInv, Types, Values
    <2>3. given' \in Seq(Values) /\ Lengthened(given, given', s[2])
      BY <2>1, <2>2, AppendIs
    <2>4. m \in Messages(Values) /\ m.n = Len(given) + 1 /\ m.value = s[2] /\ Len(given) \in Nat
      BY <2>2, <2>3 DEF Messages, Lengthened
    <2> HIDE DEF m
    <2>5. queue' \in Seq(Messages(Values)) /\ Lengthened(queue, queue', m)
      BY <2>1, <2>2, <2>4, AppendIs
    <2>6. \A k \in Alive : k \in 1..Len(given) /\ k < m.n
      <3>1. Alive \subseteq 1..Len(given)
        BY DEF RInv, OrderInv
      <3>2. \A k \in 1..Len(given) : k < m.n
        BY <2>4
      <3> QED
        BY <3>1, <3>2
    <2>7. Climbs(queue') /\ Queued' = Queued \cup {m.n}
      BY <2>1, <2>2, <2>4, <2>6, MessagesAppend DEF RInv, OrderInv, Queued, Alive
    <2>8. Out' = Out /\ OnWire' = OnWire /\ Sent' = Sent /\ Alive' = Alive \cup {m.n}
      BY <1>0, <2>7 DEF frames, Out, OnWire, Sent, Alive
    <2>9. Types'
      BY <1>0, <2>3, <2>5 DEF frames, RInv, Types
    <2>10. OrderInv'
      <3>1. Placed(Out, OnWire, Sent, Queued \cup {m.n})
        BY <2>6 DEF RInv, OrderInv, Placed, Before, Alive
      <3>2. Alive \cup {m.n} \subseteq 1..(Len(given) + 1)
        <4>1. 1..(Len(given) + 1) = 1..Len(given) \cup {m.n}
          BY <2>4
        <4> QED
          BY <2>6, <4>1
      <3>3. /\ Climbs(out') /\ WireClimbs(wire') /\ WireClimbs(outbox')
            /\ Len(given') = Len(given) + 1
        BY <1>0, <2>3 DEF frames, RInv, OrderInv, Lengthened
      <3> QED
        BY <2>7, <2>8, <3>1, <3>2, <3>3 DEF OrderInv
    <2>11. ContentInv'
      <3>1. \A k \in 1..Len(given) : given'[k] = given[k]
        BY <2>3 DEF Lengthened
      <3>2. \A k \in 1..Len(given') : <<type, given'[k]>> \in Samples
        <4>1. \A k \in 1..Len(given') : k \in 1..Len(given) \/ k = Len(given) + 1
          BY <2>3 DEF Lengthened
        <4>2. s = <<type, s[2]>>
          BY ConversionAssumption, RelayAssumption
        <4>3. given'[Len(given) + 1] = s[2]
          BY <2>3 DEF Lengthened
        <4> QED
          BY <3>1, <4>1, <4>2, <4>3 DEF RInv, ContentInv
      <3>3. \A i \in DOMAIN out : out[i].n \in 1..Len(given)
        BY <2>6 DEF Alive, Out, Numbers
      <3>4. \A i \in DOMAIN wire : wire[i].op = "publish" => wire[i].m.n \in 1..Len(given)
        BY <2>6 DEF Alive, OnWire, WireNumbers
      <3>5. \A i \in DOMAIN outbox : outbox[i].m.n \in 1..Len(given)
        BY <2>6, OutboxIs DEF RInv, Alive, Sent, WireNumbers
      <3>6. \A i \in DOMAIN queue : queue[i].n \in 1..Len(given)
        BY <2>6 DEF Alive, Queued, Numbers
      <3>7. \A i \in DOMAIN queue' : queue'[i].value = given'[queue'[i].n]
        <4>1. \A i \in DOMAIN queue' : i \in DOMAIN queue \/ i = Len(queue) + 1
          BY <2>5 DEF Lengthened
        <4>2. \A i \in DOMAIN queue : queue'[i] = queue[i] /\ queue[i].value = given[queue[i].n]
          BY <2>5 DEF Lengthened, RInv, ContentInv
        <4>3. queue'[Len(queue) + 1] = m /\ given'[m.n] = m.value
          BY <2>3, <2>4, <2>5 DEF Lengthened
        <4> QED
          BY <3>1, <3>6, <4>1, <4>2, <4>3
      <3>8. /\ \A i \in DOMAIN outbox : outbox[i].m.value = given'[outbox[i].m.n]
            /\ \A i \in DOMAIN wire : wire[i].op = "publish" => wire[i].m.value = given'[wire[i].m.n]
        BY <3>1, <3>4, <3>5 DEF RInv, ContentInv
      <3>9. \A i \in DOMAIN out : \/ out[i].value = given'[out[i].n]
                                  \/ out[i].value = Carried[<<type, given'[out[i].n]>>]
        BY <3>1, <3>3 DEF RInv, ContentInv
      <3> QED
        BY <1>0, <3>2, <3>7, <3>8, <3>9 DEF frames, ContentInv
    <2>12. TopicInv'
      BY <1>0, <2>1 DEF frames, RInv, TopicInv, Advertised
    <2>13. AllAlive'
      <3>1. 1..(Len(given) + 1) = 1..Len(given) \cup {m.n}
        BY <2>4
      <3>2. Len(given') = Len(given) + 1
        BY <2>3 DEF Lengthened
      <3> QED
        BY <1>0, <2>8, <3>1, <3>2 DEF frames, RInv, AllAlive
    <2> QED
      BY <2>9, <2>10, <2>11, <2>12, <2>13 DEF RInv
  <1> QED
    BY <1>1, <1>2

\* The ROS thread that stops waiting leaves every message where it is.
LEMMA SendTimesOutKeeps == RInv /\ SendTimesOut => RInv'
  <1> SUFFICES ASSUME RInv, SendTimesOut PROVE RInv'
    OBVIOUS
  <1>0. /\ UNCHANGED <<type, conn, outbox, wire, requests, sub, raw, queue, adv, out, dead, given,
                       withdrawn>>
        /\ waits' = FALSE
    BY DEF SendTimesOut, ends
  <1>1. Out' = Out /\ OnWire' = OnWire /\ Sent' = Sent /\ Queued' = Queued /\ Alive' = Alive
    BY <1>0 DEF Out, OnWire, Sent, Queued, Alive
  <1>2. Types'
    BY <1>0 DEF RInv, Types
  <1>3. OrderInv' /\ ContentInv' /\ TopicInv' /\ AllAlive'
    BY <1>0, <1>1 DEF RInv, OrderInv, ContentInv, TopicInv, AllAlive, Advertised
  <1> QED
    BY <1>2, <1>3 DEF RInv

\* What the ROS thread takes is the first message of the queue, ahead of all
\* others there and behind all that are farther on.
LEMMA TakeMessageKeeps == RInv /\ TakeMessage => RInv'
  <1> SUFFICES ASSUME RInv, TakeMessage PROVE RInv'
    OBVIOUS
  <1>0. /\ UNCHANGED <<type, conn, wire, requests, sub, raw, adv, out, given, withdrawn>>
        /\ ~dead /\ queue # <<>>
    BY DEF TakeMessage
  <1>1. Out' = Out /\ OnWire' = OnWire
    BY <1>0 DEF Out, OnWire
  <1>2. CASE sub = "unknown"
    <2>1. dead' = TRUE /\ queue' = <<>> /\ outbox' = outbox /\ waits' = waits
      BY <1>2 DEF TakeMessage
    <2>2. Queued' = {} /\ Sent' = Sent /\ Alive' \subseteq Alive
      BY <1>1, <2>1, EmptyPlaces DEF Queued, Sent, Alive
    <2>3. Types'
      <3>1. <<>> \in Seq(Messages(Values))
        OBVIOUS
      <3> QED
        BY <1>0, <2>1, <3>1 DEF RInv, Types
    <2>4. OrderInv'
      <3>1. Placed(Out, OnWire, Sent, {})
        BY DEF RInv, OrderInv, Placed, Before
      <3> QED
        BY <1>0, <1>1, <2>1, <2>2, <3>1, EmptyPlaces DEF RInv, OrderInv
    <2>5. ContentInv' /\ TopicInv' /\ AllAlive'
      BY <1>0, <2>1 DEF RInv, ContentInv, TopicInv, Advertised, AllAlive
    <2> QED
      BY <2>3, <2>4, <2>5 DEF RInv
  <1>3. CASE sub # "unknown"
    <2> DEFINE m == Head(queue)
               f == Frame(m)
    <2>1. outbox' = Append(outbox, f) /\ queue' = Tail(queue) /\ dead' = dead /\ waits' = TRUE
      BY <1>3 DEF TakeMessage
    <2>2. queue \in Seq(Messages(Values)) /\ Climbs(queue) /\ WireClimbs(outbox)
      BY DEF RInv, Types, OrderInv
    <2>3. /\ queue' \in Seq(Messages(Values)) /\ m \in Messages(Values)
          /\ Shortened(queue, queue')
      BY <1>0, <2>1, <2>2, TailIs
    <2>4. /\ Climbs(queue') /\ Queued = {m.n} \cup Queued'
          /\ \A k \in Queued' : m.n < k
      BY <1>0, <2>1, <2>2, MessagesTail DEF Queued
    <2>5. m = queue[1] /\ 1 \in DOMAIN queue
      BY <2>3 DEF Shortened
    <2> HIDE DEF m
    <2>6. sub \in Codecs \ {"unknown"}
      BY <1>0, <1>3 DEF RInv, Types, TopicInv
    <2>7. f \in PublishFrames /\ f.m = m /\ f.op = "publish" /\ f \in Frames
      BY <2>3, <2>6 DEF Frame, PublishFrames, Frames, RInv, Types
    <2> HIDE DEF f
    <2>8. outbox' \in Seq(PublishFrames) /\ Lengthened(outbox, outbox', f)
      BY <2>1, <2>7, AppendIs DEF RInv, Types
    <2>9. WireClimbs(outbox') /\ Sent' = Sent \cup {m.n} /\ Alive' = Alive
      <3>1. \A k \in Sent : k < m.n
        BY <2>4 DEF RInv, OrderInv, Placed, Before
      <3>2. outbox \in Seq(Frames)
        BY OutboxIs DEF RInv
      <3>3. /\ WireClimbs(Append(outbox, f))
            /\ WireNumbers(Append(outbox, f)) = WireNumbers(outbox) \cup {m.n}
        BY <2>2, <2>7, <3>1, <3>2, WireAppend DEF Sent
      <3>4. WireClimbs(outbox') /\ Sent' = Sent \cup {m.n}
        BY <2>1, <3>3 DEF Sent
      <3> QED
        BY <1>1, <2>4, <3>4 DEF Alive
    <2>10. Types'
      BY <1>0, <2>1, <2>3, <2>8 DEF RInv, Types
    <2>11. OrderInv'
      <3>1. Placed(Out, OnWire, Sent \cup {m.n}, Queued')
        BY <2>4 DEF RInv, OrderInv, Placed, Before
      <3> QED
        BY <1>0, <1>1, <2>4, <2>9, <3>1 DEF RInv, OrderInv
    <2>12. ContentInv'
      <3>1. \A i \in DOMAIN queue' : queue'[i].value = given[queue'[i].n]
        BY <2>3 DEF Shortened, RInv, ContentInv
      <3>2. f.m.value = given[f.m.n]
        BY <2>5, <2>7 DEF RInv, ContentInv
      <3>3. \A i \in DOMAIN outbox' : (i \in DOMAIN outbox /\ outbox'[i] = outbox[i]) \/ outbox'[i] = f
        BY <2>8 DEF Lengthened
      <3>4. \A i \in DOMAIN outbox' : outbox'[i].m.value = given[outbox'[i].m.n]
        BY <3>2, <3>3 DEF RInv, ContentInv
      <3> QED
        BY <1>0, <3>1, <3>4 DEF RInv, ContentInv
    <2>13. TopicInv'
      BY <1>0, <2>1 DEF RInv, TopicInv, Advertised
    <2>14. AllAlive'
      BY <1>0, <2>1, <2>9 DEF RInv, AllAlive
    <2> QED
      BY <2>10, <2>11, <2>12, <2>13, <2>14 DEF RInv
  <1> QED
    BY <1>2, <1>3

\* The frame that is sent comes behind all that are on the wire.
LEMMA SendFrameKeeps == RInv /\ SendFrame => RInv'
  <1> SUFFICES ASSUME RInv, SendFrame PROVE RInv'
    OBVIOUS
  <1> DEFINE f == Head(outbox)
  <1>0. /\ UNCHANGED <<type, conn, requests, ends, out, dead, given, withdrawn>>
        /\ outbox # <<>> /\ outbox' = Tail(outbox) /\ waits' \in BOOLEAN
        /\ wire' = IF conn THEN Append(wire, f) ELSE wire
    BY DEF SendFrame
  <1>1. /\ outbox' \in Seq(PublishFrames) /\ f \in PublishFrames
        /\ Shortened(outbox, outbox')
    BY <1>0, TailIs DEF RInv, Types
  <1>2. f \in Frames /\ f.op = "publish" /\ f = outbox[1] /\ 1 \in DOMAIN outbox
    BY <1>1 DEF Frames, PublishFrames, Shortened
  <1>3. /\ WireClimbs(outbox') /\ Sent = {f.m.n} \cup Sent'
        /\ \A k \in Sent' : f.m.n < k
    <2>1. outbox \in Seq(Frames) /\ WireClimbs(outbox)
      BY OutboxIs DEF RInv, OrderInv
    <2>2. /\ WireClimbs(Tail(outbox))
          /\ WireNumbers(outbox) = {f.m.n} \cup WireNumbers(Tail(outbox))
          /\ \A k \in WireNumbers(Tail(outbox)) : f.m.n < k
      BY <1>0, <1>2, <2>1, WireTail
    <2> QED
      BY <1>0, <2>2 DEF Sent
  <1> HIDE DEF f
  <1>4. Out' = Out /\ Queued' = Queued
    BY <1>0 DEF ends, Out, Queued
  <1>5. \A i \in DOMAIN outbox' : outbox'[i].m.value = given[outbox'[i].m.n]
    BY <1>1 DEF Shortened, RInv, ContentInv
  <1>6. CASE ~conn
    <2>1. wire' = wire /\ OnWire' = OnWire /\ Alive' \subseteq Alive
      BY <1>0, <1>3, <1>4, <1>6 DEF OnWire, Alive
    <2>2. Types'
      BY <1>0, <1>1, <2>1 DEF ends, RInv, Types
    <2>3. OrderInv'
      <3>1. Placed(Out, OnWire, Sent', Queued)
        BY <1>3 DEF RInv, OrderInv, Placed, Before
      <3> QED
        BY <1>0, <1>3, <1>4, <2>1, <3>1 DEF ends, RInv, OrderInv
    <2>4. ContentInv' /\ TopicInv' /\ AllAlive'
      BY <1>0, <1>5, <1>6, <2>1 DEF ends, RInv, ContentInv, TopicInv, AllAlive
    <2> QED
      BY <2>2, <2>3, <2>4 DEF RInv
  <1>7. CASE conn
    <2>1. wire' = Append(wire, f)
      BY <1>0, <1>7
    <2>2. wire \in Seq(Frames) /\ WireClimbs(wire)
      BY DEF RInv, Types, OrderInv
    <2>3. \A k \in OnWire : k < f.m.n
      BY <1>3 DEF RInv, OrderInv, Placed, Before
    <2>4. wire' \in Seq(Frames) /\ Lengthened(wire, wire', f)
      BY <1>2, <2>1, <2>2, AppendIs
    <2>5. WireClimbs(wire') /\ OnWire' = OnWire \cup {f.m.n}
      BY <1>2, <2>1, <2>2, <2>3, WireAppend DEF OnWire
    <2>6. Alive' = Alive
      BY <1>3, <1>4, <2>5 DEF Alive
    <2>7. \A i \in DOMAIN wire' : i \in DOMAIN wire \/ (i = Len(wire) + 1 /\ wire'[i] = f)
      BY <2>4 DEF Lengthened
    <2>8. \A i \in DOMAIN wire : i \in DOMAIN wire' /\ wire'[i] = wire[i]
      BY <2>4 DEF Lengthened
    <2>9. Types'
      BY <1>0, <1>1, <2>4 DEF ends, RInv, Types
    <2>10. OrderInv'
      <3>1. Placed(Out, OnWire \cup {f.m.n}, Sent', Queued)
        BY <1>3 DEF RInv, OrderInv, Placed, Before
      <3> QED
        BY <1>0, <1>3, <1>4, <2>5, <2>6, <3>1 DEF ends, RInv, OrderInv
    <2>11. ContentInv'
      <3>1. f.m.value = given[f.m.n]
        BY <1>2 DEF RInv, ContentInv
      <3>2. \A i \in DOMAIN wire' : wire'[i].op = "publish" => wire'[i].m.value = given[wire'[i].m.n]
        BY <2>7, <2>8, <3>1 DEF RInv, ContentInv
      <3> QED
        BY <1>0, <1>5, <3>2 DEF ends, RInv, ContentInv
    <2>12. TopicInv'
      <3>0. queue' # <<>> => sub' # "none"
        BY <1>0 DEF ends, RInv, TopicInv
      <3> SUFFICES ASSUME ~withdrawn
                   PROVE  /\ \A i \in DOMAIN wire' : wire'[i].op # "unadvertise"
                          /\ \A i \in DOMAIN wire' : wire'[i].op = "publish" => Advertised(i)'
                          /\ Advertised(Len(wire) + 1)'
        BY <1>0, <3>0 DEF ends, RInv, TopicInv
      <3>1. /\ \A i \in DOMAIN wire : wire[i].op # "unadvertise"
            /\ \A i \in DOMAIN wire : wire[i].op = "publish" => Advertised(i)
            /\ Advertised(Len(wire) + 1)
        BY <1>0, <1>7 DEF RInv, TopicInv
      <3>2. \A i : Advertised(i) => Advertised(i)'
        BY <1>0, <2>8 DEF ends, Advertised
      <3>3. \A i \in DOMAIN wire' : wire'[i].op # "unadvertise"
        BY <1>2, <2>7, <2>8, <3>1
      <3>4. \A i \in DOMAIN wire' : wire'[i].op = "publish" => Advertised(i)'
        BY <2>7, <2>8, <3>1, <3>2
      <3>5. Advertised(Len(wire) + 1)'
        <4>1. CASE adv
          BY <1>0, <4>1 DEF ends, Advertised
        <4>2. CASE ~adv
          <5>1. PICK j \in DOMAIN wire : wire[j].op = "advertise"
            BY <3>1, <4>2 DEF Advertised
          <5>2. j \in DOMAIN wire' /\ wire'[j].op = "advertise" /\ j < Len(wire') + 1
            BY <2>4, <2>8, <5>1 DEF Lengthened
          <5> QED
            BY <5>2 DEF Advertised
        <4> QED
          BY <4>1, <4>2
      <3> QED
        BY <3>3, <3>4, <3>5
    <2>13. AllAlive'
      BY <1>0, <2>6 DEF RInv, AllAlive
    <2> QED
      BY <2>9, <2>10, <2>11, <2>12, <2>13 DEF RInv
  <1> QED
    BY <1>6, <1>7

\* A connection that ends takes with it what is on the wire, and nothing else.
LEMMA BreakKeeps ==
    ASSUME RInv, conn' = FALSE, wire' = <<>>, requests' = <<>>,
           UNCHANGED <<type, outbox, waits, sub, raw, queue, adv, out, dead, given, withdrawn>>
    PROVE  RInv'
  <1>1. Out' = Out /\ OnWire' = {} /\ Sent' = Sent /\ Queued' = Queued /\ Alive' \subseteq Alive
    BY EmptyPlaces DEF Out, OnWire, Sent, Queued, Alive
  <1>2. Types'
    <2>1. <<>> \in Seq(Frames) /\ <<>> \in Seq(Requests)
      OBVIOUS
    <2> QED
      BY <2>1 DEF RInv, Types
  <1>3. OrderInv'
    <2>1. Placed(Out, {}, Sent, Queued)
      BY DEF RInv, OrderInv, Placed, Before
    <2> QED
      BY <1>1, <2>1, EmptyPlaces DEF RInv, OrderInv
  <1>4. ContentInv' /\ TopicInv' /\ AllAlive'
    BY DEF RInv, ContentInv, TopicInv, AllAlive
  <1> QED
    BY <1>2, <1>3, <1>4 DEF RInv

\* A request is answered by a subscription, by the end of one, or by the end of
\* the connection.
LEMMA OnRequestKeeps == RInv /\ OnRequest => RInv'
  <1> SUFFICES ASSUME RInv, OnRequest PROVE RInv'
    OBVIOUS
  <1>0. /\ UNCHANGED <<type, outbox, waits, adv, out, dead, given, withdrawn>>
        /\ conn /\ requests # <<>>
    BY DEF OnRequest
  <1> DEFINE f == Head(requests)
  <1>1. /\ Tail(requests) \in Seq(Requests) /\ f \in Requests
        /\ Shortened(requests, Tail(requests))
    BY <1>0, TailIs DEF RInv, Types
  <1>2. (\A i \in DOMAIN requests : requests[i].op = "subscribe") =>
            /\ f.op = "subscribe"
            /\ \A i \in DOMAIN Tail(requests) : Tail(requests)[i].op = "subscribe"
    BY <1>1 DEF Shortened
  <1>3. \/ /\ f.op = "subscribe" /\ requests' = Tail(requests)
           /\ Subscribe(f.codec)
           /\ UNCHANGED <<conn, wire, queue>>
        \/ /\ f.op = "unsubscribe" /\ requests' = Tail(requests)
           /\ Unsubscribe
           /\ UNCHANGED <<conn, wire>>
        \/ BreakIf(TRUE) /\ UNCHANGED <<sub, raw, queue>>
    BY DEF OnRequest
  <1> HIDE DEF f
  <1>4. CASE f.op = "subscribe" /\ requests' = Tail(requests) /\ Subscribe(f.codec)
             /\ UNCHANGED <<conn, wire, queue>>
    <2>1. f.codec \in Codecs
      BY <1>1, <1>4 DEF Requests
    <2>2. sub' \in Codecs /\ raw' \in BOOLEAN /\ sub' # "none"
      BY <1>4, <2>1 DEF Subscribe, Codecs, RInv, Types
    <2>3. Types'
      BY <1>0, <1>1, <1>4, <2>2 DEF RInv, Types
    <2>4. OrderInv' /\ ContentInv' /\ AllAlive'
      BY <1>0, <1>4 DEF RInv, OrderInv, ContentInv, AllAlive, Alive, Out, OnWire, Sent, Queued
    <2>5. TopicInv'
      <3>1. \A i : Advertised(i)' <=> Advertised(i)
        BY <1>0, <1>4 DEF Advertised
      <3>2. adv => \A i : Advertised(i)
        BY DEF Advertised
      <3> QED
        BY <1>0, <1>2, <1>4, <2>2, <3>1, <3>2 DEF RInv, TopicInv
    <2> QED
      BY <2>3, <2>4, <2>5 DEF RInv
  <1>5. CASE f.op = "unsubscribe" /\ requests' = Tail(requests) /\ Unsubscribe
             /\ UNCHANGED <<conn, wire>>
    <2>1. sub' = "none" /\ raw' = FALSE /\ queue' = <<>>
      BY <1>5 DEF Unsubscribe
    <2>2. withdrawn
      <3>1. \A i \in DOMAIN requests : conn /\ ~withdrawn => requests[i].op = "subscribe"
        BY DEF RInv, TopicInv
      <3>2. f.op # "subscribe"
        BY <1>5
      <3> QED
        BY <1>0, <1>2, <3>1, <3>2 DEF RInv, Types
    <2>3. Out' = Out /\ OnWire' = OnWire /\ Sent' = Sent /\ Queued' = {} /\ Alive' \subseteq Alive
      BY <1>0, <1>5, <2>1, EmptyPlaces DEF Out, OnWire, Sent, Queued, Alive
    <2>4. Types'
      <3>1. <<>> \in Seq(Messages(Values))
        OBVIOUS
      <3> QED
        BY <1>0, <1>1, <1>5, <2>1, <3>1 DEF RInv, Types
    <2>5. OrderInv'
      <3>1. Placed(Out, OnWire, Sent, {})
        BY DEF RInv, OrderInv, Placed, Before
      <3> QED
        BY <1>0, <1>5, <2>1, <2>3, <3>1, EmptyPlaces DEF RInv, OrderInv
    <2>6. ContentInv' /\ TopicInv' /\ AllAlive'
      BY <1>0, <1>5, <2>1, <2>2 DEF RInv, ContentInv, TopicInv, AllAlive
    <2> QED
      BY <2>4, <2>5, <2>6 DEF RInv
  <1>6. CASE BreakIf(TRUE) /\ UNCHANGED <<sub, raw, queue>>
    BY <1>0, <1>6, BreakKeeps DEF BreakIf
  <1> QED
    BY <1>3, <1>4, <1>5, <1>6

\* What the receiver publishes has the number of the message in the frame, and
\* its value as it is or converted.
LEMMA ArrivedIs ==
    ASSUME NEW f \in PublishFrames
    PROVE  Arrived(f) = [n |-> f.m.n,
                         value |-> IF f.codec = "cbor-raw" THEN f.m.value
                                   ELSE Carried[<<type, f.m.value>>]]
  BY DEF PublishFrames, Messages, Arrived

\* A frame is handled, or ends the connection; a message goes from the head of the
\* wire to the end of what is published.
LEMMA OnFrameKeeps == RInv /\ OnFrame => RInv'
  <1> SUFFICES ASSUME RInv, OnFrame PROVE RInv'
    OBVIOUS
  <1> DEFINE f == Head(wire)
  <1>0. /\ UNCHANGED <<type, outbox, waits, sub, raw, queue, dead, given, withdrawn>>
        /\ conn /\ wire # <<>>
    BY DEF OnFrame
  <1>1. \/ /\ f.op = "advertise"
           /\ adv' = TRUE /\ wire' = Tail(wire)
           /\ UNCHANGED <<conn, requests, out>>
        \/ /\ f.op = "unadvertise"
           /\ adv' = FALSE /\ wire' = Tail(wire)
           /\ UNCHANGED <<conn, requests, out>>
        \/ /\ f.op = "publish" /\ adv
           /\ out' = Append(out, Arrived(f)) /\ wire' = Tail(wire)
           /\ UNCHANGED <<conn, requests, adv>>
        \/ BreakIf(TRUE) /\ UNCHANGED <<adv, out>>
    BY DEF OnFrame
  <1>2. Tail(wire) \in Seq(Frames) /\ f \in Frames /\ Shortened(wire, Tail(wire))
    BY <1>0, TailIs DEF RInv, Types
  <1>3. /\ WireClimbs(Tail(wire))
        /\ OnWire = (IF f.op = "publish" THEN {f.m.n} ELSE {}) \cup WireNumbers(Tail(wire))
        /\ f.op = "publish" => \A k \in WireNumbers(Tail(wire)) : f.m.n < k
    BY <1>0, WireTail DEF RInv, Types, OrderInv, OnWire
  <1>4. f = wire[1] /\ 1 \in DOMAIN wire
        /\ \A i \in DOMAIN Tail(wire) : i + 1 \in DOMAIN wire /\ Tail(wire)[i] = wire[i + 1]
    BY <1>2 DEF Shortened
  <1> HIDE DEF f
  <1>5. ASSUME wire' = Tail(wire)
        PROVE  \A i \in DOMAIN wire' : wire'[i].op = "publish" => wire'[i].m.value = given[wire'[i].m.n]
    BY <1>4, <1>5 DEF RInv, ContentInv
  <1>6. ASSUME wire' = Tail(wire), conn' = conn, requests' = requests, ~withdrawn => adv'
        PROVE  TopicInv'
    <2>1. adv' => \A i : Advertised(i)'
      BY DEF Advertised
    <2>2. ~withdrawn => \A i \in DOMAIN wire' : wire'[i].op # "unadvertise"
      BY <1>0, <1>4, <1>6 DEF RInv, TopicInv
    <2> QED
      BY <1>0, <1>6, <2>1, <2>2 DEF RInv, TopicInv
  <1>7. CASE /\ f.op \in {"advertise", "unadvertise"} /\ adv' \in BOOLEAN
             /\ wire' = Tail(wire) /\ UNCHANGED <<conn, requests, out>>
             /\ f.op = "advertise" => adv' = TRUE
    <2>1. OnWire' = OnWire /\ WireClimbs(wire')
      BY <1>3, <1>7 DEF OnWire
    <2>2. Out' = Out /\ Sent' = Sent /\ Queued' = Queued /\ Alive' = Alive
      BY <1>0, <1>7, <2>1 DEF Out, Sent, Queued, Alive
    <2>3. Types'
      BY <1>0, <1>2, <1>7 DEF RInv, Types
    <2>4. OrderInv' /\ AllAlive'
      BY <1>0, <1>7, <2>1, <2>2 DEF RInv, OrderInv, AllAlive
    <2>5. ContentInv'
      BY <1>0, <1>5, <1>7 DEF RInv, ContentInv
    <2>6. ~withdrawn => f.op # "unadvertise"
      BY <1>0, <1>4 DEF RInv, TopicInv
    <2>7. TopicInv'
      BY <1>6, <1>7, <2>6
    <2> QED
      BY <2>3, <2>4, <2>5, <2>7 DEF RInv
  <1>8. CASE /\ f.op = "publish" /\ adv
             /\ out' = Append(out, Arrived(f)) /\ wire' = Tail(wire)
             /\ UNCHANGED <<conn, requests, adv>>
    <2> DEFINE a == Arrived(f)
    <2>1. f \in PublishFrames
      BY <1>2, <1>8 DEF Frames
    <2>2. f.m \in Messages(Values) /\ f.m.n \in Nat /\ f.m.n \in OnWire
      BY <1>3, <1>8, <2>1 DEF PublishFrames, Messages
    <2>3. /\ f.m.n \in 1..Len(given)
          /\ f.m.value = given[f.m.n]
          /\ <<type, f.m.value>> \in Samples
      <3>1. f.m.n \in 1..Len(given)
        BY <2>2 DEF RInv, OrderInv, Alive
      <3>2. f.m.value = given[f.m.n]
        BY <1>4, <1>8 DEF RInv, ContentInv
      <3> QED
        BY <3>1, <3>2 DEF RInv, ContentInv
    <2>4. PICK v \in {f.m.value, Carried[<<type, f.m.value>>]} : a = [n |-> f.m.n, value |-> v]
      BY <2>1, ArrivedIs
    <2>5. a \in Messages(Arrivals)
      <3>1. f.m.value \in Arrivals /\ Carried[<<type, f.m.value>>] \in Arrivals
        BY <2>2, <2>3 DEF Messages, Arrivals
      <3> HIDE DEF a
      <3> QED
        BY <2>2, <2>4, <3>1 DEF Messages
    <2>6. out' = Append(out, a)
      BY <1>8
    <2> HIDE DEF a
    <2>7. out \in Seq(Messages(Arrivals)) /\ Climbs(out)
      BY DEF RInv, Types, OrderInv
    <2>8. out' \in Seq(Messages(Arrivals)) /\ Lengthened(out, out', a)
      BY <2>5, <2>6, <2>7, AppendIs
    <2>9. \A k \in Out : k < a.n
      BY <2>2, <2>4 DEF RInv, OrderInv, Placed, Before
    <2>10. Climbs(out') /\ Out' = Out \cup {a.n}
      BY <2>5, <2>6, <2>7, <2>9, MessagesAppend DEF Out
    <2>11. /\ WireClimbs(wire') /\ OnWire = {a.n} \cup OnWire'
           /\ \A k \in OnWire' : a.n < k
      BY <1>3, <1>8, <2>4 DEF OnWire
    <2>12. Sent' = Sent /\ Queued' = Queued /\ Alive' = Alive
      BY <1>0, <2>10, <2>11 DEF Sent, Queued, Alive
    <2>13. Types'
      BY <1>0, <1>2, <1>8, <2>8 DEF RInv, Types
    <2>14. OrderInv'
      <3>1. Placed(Out \cup {a.n}, OnWire', Sent, Queued)
        BY <2>11 DEF RInv, OrderInv, Placed, Before
      <3> QED
        BY <1>0, <2>10, <2>11, <2>12, <3>1 DEF RInv, OrderInv
    <2>15. ContentInv'
      <3>1. \A i \in DOMAIN out' : \/ out'[i].value = given[out'[i].n]
                                   \/ out'[i].value = Carried[<<type, given[out'[i].n]>>]
        <4>1. \A i \in DOMAIN out' : (i \in DOMAIN out /\ out'[i] = out[i]) \/ out'[i] = a
          BY <2>8 DEF Lengthened
        <4>2. a.value = given[a.n] \/ a.value = Carried[<<type, given[a.n]>>]
          BY <2>3, <2>4
        <4> QED
          BY <4>1, <4>2 DEF RInv, ContentInv
      <3> QED
        BY <1>0, <1>5, <1>8, <3>1 DEF RInv, ContentInv
    <2>16. TopicInv'
      BY <1>6, <1>8
    <2>17. AllAlive'
      BY <1>0, <1>8, <2>12 DEF RInv, AllAlive
    <2> QED
      BY <2>13, <2>14, <2>15, <2>16, <2>17 DEF RInv
  <1>9. CASE BreakIf(TRUE) /\ UNCHANGED <<adv, out>>
    BY <1>0, <1>9, BreakKeeps DEF BreakIf
  <1> QED
    BY <1>1, <1>7, <1>8, <1>9

-----------------------------------------------------------------------------
(***************************************************************************)
(* The theorems                                                             *)
(***************************************************************************)
\* Every step keeps the invariant.
LEMMA RelayStep == RInv /\ [Next]_vars => RInv'
  <1> SUFFICES ASSUME RInv, [Next]_vars PROVE RInv'
    OBVIOUS
  <1>1. ASSUME NEW compression \in Compressions, NEW israw \in BOOLEAN,
               BatchPub(compression, israw)
        PROVE  RInv'
    BY <1>1, BatchPubKeeps
  <1>2. ASSUME NEW israw \in BOOLEAN, BatchSub(israw) PROVE RInv'
    BY <1>2, BatchSubKeeps
  <1>3. ASSUME NEW s \in Samples, s[1] = type, Publish(s[2]) PROVE RInv'
    BY <1>3, PublishKeeps
  <1>4. CASE BatchUnadv
    BY <1>4, BatchUnadvKeeps
  <1>5. CASE BatchUnsub
    BY <1>5, BatchUnsubKeeps
  <1>6. CASE SendTimesOut
    BY <1>6, SendTimesOutKeeps
  <1>7. CASE Relay
    BY <1>7, TakeMessageKeeps, SendFrameKeeps, OnRequestKeeps, OnFrameKeeps DEF Relay
  <1>8. CASE UNCHANGED vars
    BY <1>8 DEF vars, frames, ends, bounds, RInv, Types, OrderInv, ContentInv, TopicInv,
        AllAlive, Advertised, Alive, Out, OnWire, Sent, Queued
  <1> QED
    BY <1>1, <1>2, <1>3, <1>4, <1>5, <1>6, <1>7, <1>8 DEF Next

\* The invariant holds in every state that can be reached.
THEOREM RelayInvariant == Spec => []RInv
  <1> QED
    BY RelayInit, RelayStep, PTL DEF Spec

\* The numbers of the messages that are under way are those at the places.
LEMMA AliveIsPlaces == Types => {At(a) : a \in Places} = Alive
  <1> SUFFICES ASSUME Types PROVE {At(a) : a \in Places} = Alive
    OBVIOUS
  <1>0. \A i \in DOMAIN outbox : outbox[i].op = "publish"
    BY OutboxIs
  <1>1. ASSUME NEW a \in Places PROVE At(a) \in Alive
    BY <1>0 DEF Places, At, Alive, Out, OnWire, Sent, Queued, Numbers, WireNumbers
  <1>2. ASSUME NEW k \in Alive PROVE \E a \in Places : At(a) = k
    <2>1. CASE k \in Out
      <3>1. PICK i \in DOMAIN out : out[i].n = k
        BY <2>1 DEF Out, Numbers
      <3>2. <<1, i>> \in Places /\ At(<<1, i>>) = k
        BY <3>1 DEF Places, At
      <3> QED
        BY <3>2
    <2>2. CASE k \in OnWire
      <3>1. PICK i \in DOMAIN wire : wire[i].op = "publish" /\ wire[i].m.n = k
        BY <2>2 DEF OnWire, WireNumbers
      <3>2. <<2, i>> \in Places /\ At(<<2, i>>) = k
        BY <3>1 DEF Places, At
      <3> QED
        BY <3>2
    <2>3. CASE k \in Sent
      <3>1. PICK i \in DOMAIN outbox : outbox[i].m.n = k
        BY <2>3 DEF Sent, WireNumbers
      <3>2. <<3, i>> \in Places /\ At(<<3, i>>) = k
        BY <3>1 DEF Places, At
      <3> QED
        BY <3>2
    <2>4. CASE k \in Queued
      <3>1. PICK i \in DOMAIN queue : queue[i].n = k
        BY <2>4 DEF Queued, Numbers
      <3>2. <<4, i>> \in Places /\ At(<<4, i>>) = k
        BY <3>1 DEF Places, At
      <3> QED
        BY <3>2
    <2> QED
      BY <2>1, <2>2, <2>3, <2>4 DEF Alive
  <1> QED
    BY <1>1, <1>2

\* The numbers at two places one ahead of the other.
LEMMA PlacesInOrder ==
    ASSUME RInv, NEW a \in Places, NEW b \in Places, IsAhead(a, b)
    PROVE  At(a) < At(b)
  <1>1. /\ Climbs(out) /\ WireClimbs(wire) /\ WireClimbs(outbox) /\ Climbs(queue)
        /\ Placed(Out, OnWire, Sent, Queued)
        /\ \A i \in DOMAIN outbox : outbox[i].op = "publish"
    BY OutboxIs DEF RInv, OrderInv
  <1>2. ASSUME NEW c \in Places
        PROVE  \/ c[1] = 1 /\ c[2] \in DOMAIN out /\ At(c) = out[c[2]].n /\ At(c) \in Out
               \/ /\ c[1] = 2 /\ c[2] \in DOMAIN wire /\ wire[c[2]].op = "publish"
                  /\ At(c) = wire[c[2]].m.n /\ At(c) \in OnWire
               \/ /\ c[1] = 3 /\ c[2] \in DOMAIN outbox /\ outbox[c[2]].op = "publish"
                  /\ At(c) = outbox[c[2]].m.n /\ At(c) \in Sent
               \/ c[1] = 4 /\ c[2] \in DOMAIN queue /\ At(c) = queue[c[2]].n /\ At(c) \in Queued
    <2>1. CASE c \in {<<1, i>> : i \in DOMAIN out}
      BY <2>1 DEF At, Out, Numbers
    <2>2. CASE c \in {<<2, i>> : i \in {j \in DOMAIN wire : wire[j].op = "publish"}}
      BY <2>2 DEF At, OnWire, WireNumbers
    <2>3. CASE c \in {<<3, i>> : i \in DOMAIN outbox}
      BY <1>1, <2>3 DEF At, Sent, WireNumbers
    <2>4. CASE c \in {<<4, i>> : i \in DOMAIN queue}
      BY <2>4 DEF At, Queued, Numbers
    <2> QED
      BY <2>1, <2>2, <2>3, <2>4 DEF Places
  <1>3. CASE a[1] = b[1] /\ a[2] < b[2]
    BY <1>1, <1>2, <1>3 DEF Climbs, WireClimbs
  <1>4. CASE a[1] < b[1]
    BY <1>1, <1>2, <1>4 DEF Placed, Before
  <1> QED
    BY <1>3, <1>4 DEF IsAhead

\* Every variable keeps its kind, and every message under way is one that the
\* subscription was given.
THEOREM RelayTypes == Spec => []TypeOK
  <1>1. RInv => TypeOK
    <2> SUFFICES ASSUME RInv PROVE TypeOK
      OBVIOUS
    <2>1. \A i \in DOMAIN wire : wire[i] \in Frames
      BY ElementOfSeq, LenProperties DEF RInv, Types
    <2>2. \A i \in DOMAIN requests : requests[i] \in Requests
      BY ElementOfSeq, LenProperties DEF RInv, Types
    <2>3. \A i \in DOMAIN wire : wire[i].op \in {"advertise", "unadvertise", "publish"}
      BY <2>1 DEF Frames, PublishFrames
    <2>4. \A i \in DOMAIN requests : requests[i].op \in {"subscribe", "unsubscribe"}
      BY <2>2 DEF Requests
    <2>5. DOMAIN given = 1..Len(given)
      BY LenProperties DEF RInv, Types
    <2>6. /\ \A i \in DOMAIN queue : queue[i].n \in DOMAIN given
          /\ \A i \in DOMAIN out : out[i].n \in DOMAIN given
      BY <2>5 DEF RInv, OrderInv, Alive, Out, Queued, Numbers
    <2>7. \A i \in DOMAIN outbox : outbox[i].op = "publish"
      BY OutboxIs DEF RInv
    <2> QED
      BY <2>3, <2>4, <2>6, <2>7 DEF RInv, Types, TypeOK
  <1> QED
    BY <1>1, RelayInvariant, PTL

\* From the ROS thread of the sender to the publisher of the receiver messages
\* keep their order and none is doubled, however many there are, however long their
\* frames take and whatever the agents do.
THEOREM RelayOrder == Spec => []RelayedInOrder
  <1>1. RInv => RelayedInOrder
    BY PlacesInOrder DEF RelayedInOrder
  <1> QED
    BY <1>1, RelayInvariant, PTL

\* As long as the topic and the connection last, every message that was given has
\* arrived or is under way.
THEOREM RelayCompleteness == Spec => []NoneVanishes
  <1>1. RInv => NoneVanishes
    <2> SUFFICES ASSUME RInv, conn /\ ~dead /\ ~withdrawn
                 PROVE  {At(a) : a \in Places} = DOMAIN given
      BY DEF NoneVanishes
    <2>1. DOMAIN given = 1..Len(given)
      BY LenProperties DEF RInv, Types
    <2>2. Alive = 1..Len(given)
      BY DEF RInv, OrderInv, AllAlive
    <2> QED
      BY <2>1, <2>2, AliveIsPlaces DEF RInv
  <1> QED
    BY <1>1, RelayInvariant, PTL

\* Through any codec, a message that has no array preset at any depth is published
\* as it was given.
THEOREM RelayIntegrity == Spec => []RelayedIntact
  <1>1. RInv => RelayedIntact
    <2> SUFFICES ASSUME RInv, NEW i \in DOMAIN out, StartsEmpty[<<type, given[out[i].n]>>]
                 PROVE  out[i].value = given[out[i].n]
      BY DEF RelayedIntact
    <2> DEFINE m == given[out[i].n]
    <2>1. out[i].n \in 1..Len(given)
      BY DEF RInv, OrderInv, Alive, Out, Numbers
    <2>2. <<type, m>> \in Typed
      BY <2>1, RelayAssumption DEF RInv, ContentInv
    <2>3. Carried[<<type, m>>] = m
      BY <2>2, CarriedUnchanged
    <2>4. out[i].value = m \/ out[i].value = Carried[<<type, m>>]
      BY DEF RInv, ContentInv
    <2> QED
      BY <2>3, <2>4
  <1> QED
    BY <1>1, RelayInvariant, PTL

\* Until somebody withdraws the topic, no message arrives before it is advertised.
THEOREM RelayWelcome == Spec => []FramesAreWelcome
  <1>1. RInv => FramesAreWelcome
    <2> SUFFICES ASSUME RInv, conn, ~withdrawn, wire # <<>>, Head(wire).op = "publish"
                 PROVE  adv
      BY DEF FramesAreWelcome
    <2>1. Shortened(wire, Tail(wire))
      BY TailIs DEF RInv, Types
    <2>2. 1 \in DOMAIN wire /\ wire[1].op = "publish" /\ DOMAIN wire = 1..Len(wire)
      BY <2>1 DEF Shortened
    <2>3. Advertised(1)
      BY <2>2 DEF RInv, TopicInv
    <2> QED
      BY <2>2, <2>3 DEF Advertised
  <1> QED
    BY <1>1, RelayInvariant, PTL

-----------------------------------------------------------------------------
(***************************************************************************)
(* Refinement of LossyChannel                                               *)
(***************************************************************************)
\* A sequence with the elements of s and then e.
LEMMA AppendEqual ==
    ASSUME NEW S, NEW s \in Seq(S), NEW e \in S, NEW t \in Seq(S),
           Len(t) = Len(s) + 1, \A i \in 1..Len(s) : t[i] = s[i], t[Len(s) + 1] = e
    PROVE  t = Append(s, e)
  <1>1. /\ Append(s, e) \in Seq(S) /\ Len(s) \in Nat
        /\ Len(Append(s, e)) = Len(s) + 1
        /\ \A i \in 1..Len(s) : Append(s, e)[i] = s[i]
        /\ Append(s, e)[Len(s) + 1] = e
    BY AppendIs DEF Lengthened
  <1>2. \A i \in 1..Len(t) : t[i] = Append(s, e)[i]
    <2>1. \A i \in 1..Len(t) : i \in 1..Len(s) \/ i = Len(s) + 1
      BY <1>1
    <2> QED
      BY <1>1, <2>1
  <1> QED
    BY <1>1, <1>2, SeqEqual

\* A function on 1..n is a sequence of length n.
LEMMA FunctionIsSeq ==
    ASSUME NEW S, NEW n \in Nat, NEW f \in [1..n -> S]
    PROVE  f \in Seq(S) /\ Len(f) = n
  BY SeqDef, LenProperties

\* The two ends of the channel are sequences as well.
GivenShape ==
    /\ GivenTyped \in Seq(Samples) /\ Len(GivenTyped) = Len(given) /\ Len(given) \in Nat
    /\ \A i \in 1..Len(given) : GivenTyped[i] = <<type, given[i]>>

LEMMA GivenTypedIs == RInv => GivenShape
  <1> SUFFICES ASSUME RInv PROVE GivenShape
    OBVIOUS
  <1>1. DOMAIN given = 1..Len(given) /\ Len(given) \in Nat
    BY LenProperties DEF RInv, Types
  <1>2. GivenTyped \in [1..Len(given) -> Samples]
    BY <1>1 DEF GivenTyped, RInv, ContentInv
  <1> QED
    BY <1>1, <1>2, FunctionIsSeq DEF GivenTyped, GivenShape

TypedArrivals(ty) == Messages({<<ty, v>> : v \in Arrivals})

ArrivedShape ==
    /\ ArrivedTyped \in Seq(TypedArrivals(type)) /\ Len(ArrivedTyped) = Len(out)
    /\ Len(out) \in Nat /\ DOMAIN ArrivedTyped = DOMAIN out
    /\ \A i \in 1..Len(out) :
          ArrivedTyped[i] = [n |-> out[i].n, value |-> <<type, out[i].value>>]

LEMMA ArrivedTypedIs == RInv => ArrivedShape
  <1> SUFFICES ASSUME RInv PROVE ArrivedShape
    OBVIOUS
  <1>1. DOMAIN out = 1..Len(out) /\ Len(out) \in Nat
    BY LenProperties DEF RInv, Types
  <1>2. \A i \in 1..Len(out) : out[i].n \in Nat /\ out[i].value \in Arrivals
    <2>1. \A i \in 1..Len(out) : out[i] \in Messages(Arrivals)
      BY ElementOfSeq DEF RInv, Types
    <2> QED
      BY <2>1 DEF Messages
  <1>3. ArrivedTyped \in [1..Len(out) -> TypedArrivals(type)]
    BY <1>1, <1>2 DEF ArrivedTyped, TypedArrivals, Messages
  <1> QED
    BY <1>1, <1>3, FunctionIsSeq DEF ArrivedTyped, ArrivedShape

LEMMA ChannelInit == Init => Channel!Init
  <1> SUFFICES ASSUME Init PROVE Channel!Init
    OBVIOUS
  <1>1. given = <<>> /\ out = <<>> /\ conn = TRUE
    BY DEF Init
  <1>2. RInv
    BY RelayInit
  <1>3. GivenTyped = <<>> /\ ArrivedTyped = <<>>
    <2>1. Len(given) = 0 /\ Len(out) = 0
      BY <1>1
    <2> QED
      BY <1>2, <2>1, GivenTypedIs, ArrivedTypedIs, EmptySeq DEF GivenShape, ArrivedShape
  <1> QED
    BY <1>1, <1>3 DEF Channel!Init

\* A message that may still arrive, behind all that have.
LEMMA IsPending ==
    ASSUME RInv, conn, NEW n \in Alive, \A k \in Out : k < n
    PROVE  /\ n \in DOMAIN GivenTyped
           /\ Channel!Pending(n)
  <1>1. n \in 1..Len(given)
    BY DEF RInv, OrderInv
  <1>2. n \in DOMAIN GivenTyped
    BY <1>1, GivenTypedIs, LenProperties DEF GivenShape
  <1>3. \A i \in DOMAIN ArrivedTyped : ArrivedTyped[i].n < n
    <2>1. \A i \in DOMAIN out : out[i].n \in Out
      BY DEF Out, Numbers
    <2>2. \A i \in DOMAIN ArrivedTyped : ArrivedTyped[i].n = out[i].n /\ i \in DOMAIN out
      BY DEF ArrivedTyped
    <2> QED
      BY <2>1, <2>2
  <1> QED
    BY <1>1, <1>2, <1>3 DEF Channel!Pending

\* A message is taken in, unless nobody has subscribed.
LEMMA ChannelGives ==
    ASSUME RInv, RInv', NEW s \in Samples, s[1] = type, Publish(s[2])
    PROVE  Channel!Next \/ UNCHANGED Channel!vars
  <1>0. UNCHANGED <<type, out, conn>>
    BY DEF Publish, frames
  <1>1. CASE given' = given
    BY <1>0, <1>1 DEF Channel!vars, GivenTyped, ArrivedTyped
  <1>2. CASE given' # given
    <2>1. given' = Append(given, s[2])
      BY <1>2 DEF Publish
    <2>2. s[2] \in Values /\ given \in Seq(Values) /\ s = <<type, s[2]>>
      BY ConversionAssumption, RelayAssumption DEF RInv, Types, Values
    <2>3. Lengthened(given, given', s[2])
      BY <2>1, <2>2, AppendIs
    <2>4. GivenTyped' = Append(GivenTyped, s)
      <3>1. /\ GivenTyped \in Seq(Samples) /\ Len(GivenTyped) = Len(given) /\ Len(given) \in Nat
            /\ \A i \in 1..Len(given) : GivenTyped[i] = <<type, given[i]>>
        BY GivenTypedIs DEF GivenShape
      <3>2. /\ GivenTyped' \in Seq(Samples) /\ Len(GivenTyped') = Len(given')
            /\ \A i \in 1..Len(given') : GivenTyped'[i] = <<type, given'[i]>>
        <4>1. GivenShape'
          BY GivenTypedIs, PTL
        <4> QED
          BY <1>0, <4>1 DEF GivenShape
      <3>3. Len(given') = Len(given) + 1 /\ given'[Len(given) + 1] = s[2]
            /\ \A i \in 1..Len(given) : given'[i] = given[i] /\ i \in 1..Len(given')
        BY <2>3, <3>1 DEF Lengthened
      <3>4. GivenTyped'[Len(given) + 1] = s
        <4>1. Len(given) + 1 \in 1..Len(given')
          BY <3>1, <3>3
        <4>2. GivenTyped'[Len(given) + 1] = <<type, given'[Len(given) + 1]>>
          BY <3>2, <4>1
        <4>3. given'[Len(given) + 1] = s[2] /\ s = <<type, s[2]>>
          BY <2>2, <3>3
        <4> QED
          BY <4>2, <4>3
      <3>5. \A i \in 1..Len(given) : GivenTyped'[i] = GivenTyped[i]
        <4> SUFFICES ASSUME NEW i \in 1..Len(given) PROVE GivenTyped'[i] = GivenTyped[i]
          OBVIOUS
        <4>1. given'[i] = given[i] /\ i \in 1..Len(given')
          BY <3>3
        <4>2. GivenTyped'[i] = <<type, given'[i]>>
          BY <3>2, <4>1
        <4>3. GivenTyped[i] = <<type, given[i]>>
          BY <3>1
        <4> QED
          BY <4>1, <4>2, <4>3
      <3> QED
        <4>1. /\ Len(GivenTyped') = Len(GivenTyped) + 1 /\ GivenTyped'[Len(GivenTyped) + 1] = s
              /\ \A i \in 1..Len(GivenTyped) : GivenTyped'[i] = GivenTyped[i]
          BY <3>1, <3>2, <3>3, <3>4, <3>5
        <4>2. GivenTyped \in Seq(Samples) /\ GivenTyped' \in Seq(Samples)
          BY <3>1, <3>2
        <4> QED
          BY <4>1, <4>2, AppendEqual
    <2>5. Channel!Give(s)
      BY <1>0, <2>4 DEF Channel!Give, ArrivedTyped
    <2> QED
      BY <2>5 DEF Channel!Next
  <1> QED
    BY <1>1, <1>2

\* A connection that ends takes the channel along.
LEMMA ChannelBreaks ==
    ASSUME conn, conn' = FALSE, UNCHANGED <<type, given, out>>
    PROVE  Channel!Next
  <1>1. Channel!Break
    BY DEF Channel!Break, GivenTyped, ArrivedTyped
  <1> QED
    BY <1>1 DEF Channel!Next

\* What arrives is behind all that has arrived, and in a form that it may have.
LEMMA ChannelDelivers ==
    ASSUME RInv, RInv', OnFrame, Head(wire).op = "publish", out' # out
    PROVE  Channel!Next
  <1> DEFINE f == Head(wire)
  <1>1. /\ UNCHANGED <<type, given, conn>> /\ conn /\ wire # <<>>
        /\ out' = Append(out, Arrived(f))
    BY DEF OnFrame
  <1>2. f \in Frames /\ Shortened(wire, Tail(wire))
    BY <1>1, TailIs DEF RInv, Types
  <1>3. f \in PublishFrames /\ f = wire[1] /\ 1 \in DOMAIN wire
    BY <1>2 DEF Frames, Shortened
  <1>4. f.m \in Messages(Values) /\ f.m.n \in OnWire
    BY <1>3 DEF PublishFrames, OnWire, WireNumbers
  <1>5. f.m.n \in Alive /\ \A j \in Out : j < f.m.n
    BY <1>4 DEF Alive, RInv, OrderInv, Placed, Before
  <1>6. f.m.value = given[f.m.n]
    BY <1>3 DEF RInv, ContentInv
  <1> HIDE DEF f
  <1> DEFINE n == f.m.n
             v == Arrived(f).value
  <1>7. n \in DOMAIN GivenTyped /\ Channel!Pending(n) /\ n \in 1..Len(given)
    BY <1>1, <1>5, IsPending DEF RInv, OrderInv
  <1>8. GivenTyped[n] = <<type, given[n]>> /\ <<type, given[n]>> \in Samples
    BY <1>7, GivenTypedIs DEF RInv, ContentInv, GivenShape
  <1>9. Arrived(f) = [n |-> n, value |-> v] /\ v \in {given[n], Carried[<<type, given[n]>>]}
    BY <1>3, <1>6, ArrivedIs
  <1> HIDE DEF v
  <1>10. <<type, v>> \in ArrivesAs[GivenTyped[n]]
    <2> DEFINE x == <<type, given[n]>>
    <2>1. StartsEmpty[x] => Carried[x] = given[n]
      BY <1>8, CarriedUnchanged, RelayAssumption
    <2>2. ArrivesAs[x] = {x} \cup (IF StartsEmpty[x] THEN {} ELSE {<<x[1], Carried[x]>>})
      BY <1>8 DEF ArrivesAs
    <2> QED
      BY <1>8, <1>9, <2>1, <2>2
  <1>11. ArrivedTyped' = Append(ArrivedTyped, [n |-> n, value |-> <<type, v>>])
    <2> DEFINE e == [n |-> n, value |-> <<type, v>>]
    <2>1. /\ ArrivedTyped \in Seq(TypedArrivals(type)) /\ Len(ArrivedTyped) = Len(out)
          /\ Len(out) \in Nat
          /\ \A i \in 1..Len(out) :
                ArrivedTyped[i] = [n |-> out[i].n, value |-> <<type, out[i].value>>]
      BY ArrivedTypedIs DEF ArrivedShape
    <2>2. /\ ArrivedTyped' \in Seq(TypedArrivals(type)) /\ Len(ArrivedTyped') = Len(out')
          /\ \A i \in 1..Len(out') :
                ArrivedTyped'[i] = [n |-> out'[i].n, value |-> <<type, out'[i].value>>]
      <3>1. ArrivedShape'
        BY ArrivedTypedIs, PTL
      <3> QED
        BY <1>1, <3>1 DEF ArrivedShape
    <2>3. out \in Seq(Messages(Arrivals)) /\ Arrived(f) \in Messages(Arrivals)
      <3>1. given[n] \in Arrivals /\ Carried[<<type, given[n]>>] \in Arrivals
        BY <1>8 DEF Arrivals, Values
      <3>2. n \in Nat
        BY <1>4 DEF Messages
      <3>3. out \in Seq(Messages(Arrivals))
        BY DEF RInv, Types
      <3>4. v \in Arrivals
        BY <1>9, <3>1
      <3>5. [n |-> n, value |-> v] \in Messages(Arrivals)
        BY <3>2, <3>4 DEF Messages
      <3> QED
        BY <1>9, <3>3, <3>5
    <2>4. Lengthened(out, out', Arrived(f))
      BY <1>1, <2>3, AppendIs
    <2>5. /\ Len(out') = Len(out) + 1 /\ out'[Len(out) + 1] = [n |-> n, value |-> v]
          /\ \A i \in 1..Len(out) : out'[i] = out[i] /\ i \in 1..Len(out')
      BY <1>9, <2>1, <2>4 DEF Lengthened
    <2> HIDE DEF n
    <2>6. ArrivedTyped'[Len(out) + 1] = e
      <3>1. Len(out) + 1 \in 1..Len(out')
        BY <2>1, <2>5
      <3> QED
        BY <2>2, <2>5, <3>1
    <2>7. e \in TypedArrivals(type)
      BY <2>1, <2>2, <2>5, <2>6, ElementOfSeq
    <2>8. \A i \in 1..Len(out) : ArrivedTyped'[i] = ArrivedTyped[i]
      BY <2>1, <2>2, <2>5
    <2> HIDE DEF e
    <2>9. ArrivedTyped' = Append(ArrivedTyped, e)
      <3>1. /\ Len(ArrivedTyped') = Len(ArrivedTyped) + 1
            /\ ArrivedTyped'[Len(ArrivedTyped) + 1] = e
            /\ \A i \in 1..Len(ArrivedTyped) : ArrivedTyped'[i] = ArrivedTyped[i]
        BY <2>1, <2>2, <2>5, <2>6, <2>8
      <3>2. /\ ArrivedTyped \in Seq(TypedArrivals(type))
            /\ ArrivedTyped' \in Seq(TypedArrivals(type))
        BY <2>1, <2>2
      <3> QED
        BY <2>7, <3>1, <3>2, AppendEqual
    <2> QED
      BY <2>9 DEF e
  <1> HIDE DEF n
  <1>12. Channel!Deliver(n, <<type, v>>)
    BY <1>1, <1>7, <1>11 DEF Channel!Deliver, GivenTyped
  <1> QED
    BY <1>7, <1>10, <1>12 DEF Channel!Next

\* Every other step leaves the channel alone.
LEMMA ChannelStep ==
    ASSUME RInv, RInv', [Next]_vars
    PROVE  Channel!Next \/ UNCHANGED Channel!vars
  <1>0. UNCHANGED <<type, given, out, conn>> => UNCHANGED Channel!vars
    BY DEF Channel!vars, GivenTyped, ArrivedTyped
  <1>1. ASSUME NEW compression \in Compressions, NEW israw \in BOOLEAN,
               BatchPub(compression, israw)
        PROVE  UNCHANGED <<type, given, out, conn>>
    BY <1>1 DEF BatchPub, Command
  <1>2. ASSUME NEW israw \in BOOLEAN, BatchSub(israw)
        PROVE  UNCHANGED <<type, given, out, conn>>
    BY <1>2 DEF BatchSub, Command
  <1>3. ASSUME NEW s \in Samples, s[1] = type, Publish(s[2])
        PROVE  Channel!Next \/ UNCHANGED Channel!vars
    BY <1>3, ChannelGives
  <1>4. CASE BatchUnadv \/ BatchUnsub
    BY <1>0, <1>4 DEF BatchUnadv, BatchUnsub, Command
  <1>5. CASE SendTimesOut \/ TakeMessage \/ SendFrame
    BY <1>0, <1>5 DEF SendTimesOut, TakeMessage, SendFrame, ends
  <1>6. CASE OnRequest
    <2>1. UNCHANGED <<type, given, out>> /\ conn
      BY <1>6 DEF OnRequest
    <2>2. conn' = conn \/ conn' = FALSE
      BY <1>6 DEF OnRequest, BreakIf
    <2> QED
      BY <1>0, <2>1, <2>2, ChannelBreaks
  <1>7. CASE OnFrame
    <2>1. UNCHANGED <<type, given>> /\ conn
      BY <1>7 DEF OnFrame
    <2>2. \/ UNCHANGED <<conn, out>>
          \/ conn' = FALSE /\ out' = out
          \/ Head(wire).op = "publish" /\ out' # out
      BY <1>7 DEF OnFrame, BreakIf
    <2> QED
      BY <1>0, <1>7, <2>1, <2>2, ChannelBreaks, ChannelDelivers
  <1>8. CASE UNCHANGED vars
    BY <1>0, <1>8 DEF vars, frames
  <1> QED
    BY <1>0, <1>1, <1>2, <1>3, <1>4, <1>5, <1>6, <1>7, <1>8 DEF Next, Relay

\* A bridged topic is a lossy channel, for messages of any type and depth, any
\* compressions and whatever the agents ask for: in order, each message once, as
\* it was given, and none once the connection has ended.
THEOREM RelayImplementsChannel == Spec => RelayIsChannel
  <1>1. RInv /\ RInv' /\ [Next]_vars => [Channel!Next]_(Channel!vars)
    BY ChannelStep
  <1> QED
    BY <1>1, ChannelInit, RelayInvariant, PTL DEF Spec, RelayIsChannel, Channel!Spec

=============================================================================
