---------------------------- MODULE MCTopicRelay -----------------------------
(* TopicRelay on small instances: message types that between them have every *)
(* kind of field, at the top and in the items of a list.                     *)
EXTENDS TopicRelay, FiniteSetsExt, TLC

Stamp  == Message([sec |-> Plain])
Points == Message([stamp |-> Plain, points |-> List("sequence", Stamp)])
Scan   == Message([ranges |-> Array(<<>>), pose |-> NumPy("float64")])
Ids    == Message([ids |-> NumPy("int64")])
Preset == Message([gains |-> Array(<<1>>)])
Joints == Message([names |-> List("sequence", Plain)])
Rows   == Message([rows |-> List("sequence", Joints)])
Corner == Message([corners |-> List("fixed", Stamp)])

AllSamples ==
    {<<Points, [stamp |-> 1, points |-> <<[sec |-> 2], [sec |-> 3]>>]>>,
     <<Scan,   [ranges |-> <<1, 2>>, pose |-> <<3>>]>>,
     <<Ids,    [ids |-> <<5>>]>>,
     <<Preset, [gains |-> <<7>>]>>,
     <<Joints, [names |-> <<6>>]>>,
     <<Rows,   [rows |-> <<>>]>>,
     <<Rows,   [rows |-> <<[names |-> <<>>]>>]>>,
     <<Corner, [corners |-> <<[sec |-> 2]>>]>>}

\* Every part of a sample; the samples nest three times.
WithParts(S) == S \cup UNION {Parts(x) : x \in S}
AllParts     == WithParts(WithParts(WithParts(AllSamples)))

DepthOf[x \in AllParts] == Max({0} \cup {1 + DepthOf[y] : y \in Parts(x)})

AllCompressions == {"text", "js-buffer", "cbor", "zip", "unknown"}
=============================================================================
