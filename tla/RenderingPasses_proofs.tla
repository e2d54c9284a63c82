----------------------- MODULE RenderingPasses_proofs -----------------------
(***************************************************************************)
(* Lemmas about what Rendering's controllers write: the operators its      *)
(* sequences and functions are built from, the names of the objects, what  *)
(* a spec hands down and a template says, and the order of each pass.      *)
(***************************************************************************)
EXTENDS Rendering, SequenceTheorems, TLAPS

-----------------------------------------------------------------------------
(* Functions and sequences *)

(***************************************************************************)
(* What Over and Only are made for: a function with one value replaced.    *)
(***************************************************************************)
LEMMA OverFacts ==
    ASSUME NEW f, NEW g
    PROVE  /\ DOMAIN Over(f, g) = DOMAIN f \cup DOMAIN g
           /\ \A x \in DOMAIN f : Over(f, g)[x] = f[x]
           /\ \A x \in DOMAIN g : x \notin DOMAIN f => Over(f, g)[x] = g[x]
BY DEF Over

LEMMA OnlyFacts ==
    ASSUME NEW x, NEW y
    PROVE  DOMAIN Only(x, y) = {x} /\ Only(x, y)[x] = y
BY DEF Only

LEMMA OneReplaced ==
    ASSUME NEW x, NEW y, NEW f, NEW g, g = Over(Only(x, y), f)
    PROVE  DOMAIN g = DOMAIN f \cup {x} /\ g[x] = y
<1> DEFINE o == Only(x, y)
<1>1. DOMAIN o = {x} /\ o[x] = y
  BY OnlyFacts
<1>2. g = Over(o, f)
  OBVIOUS
<1> HIDE DEF o
<1>3. DOMAIN Over(o, f) = DOMAIN o \cup DOMAIN f
  BY OverFacts
<1>4. \A z \in DOMAIN o : Over(o, f)[z] = o[z]
  BY OverFacts
<1>5. QED
  BY <1>1, <1>2, <1>3, <1>4

LEMMA OthersKept ==
    ASSUME NEW x, NEW y, NEW f, NEW g, g = Over(Only(x, y), f), NEW z \in DOMAIN f, z # x
    PROVE  g[z] = f[z]
<1> DEFINE o == Only(x, y)
<1>1. DOMAIN o = {x}
  BY OnlyFacts
<1>2. g = Over(o, f)
  OBVIOUS
<1> HIDE DEF o
<1>3. \A v \in DOMAIN f : v \notin DOMAIN o => Over(o, f)[v] = f[v]
  BY OverFacts
<1>4. QED
  BY <1>1, <1>2, <1>3

(***************************************************************************)
(* The items of a sequence, through the operators the passes are built     *)
(* and consumed with.                                                      *)
(***************************************************************************)
Items(q) == {q[i] : i \in DOMAIN q}
Ids(q) == {w[1] : w \in Items(q)}

LEMMA SequenceFacts ==
    ASSUME NEW q, IsSequence(q)
    PROVE  Len(q) \in Nat /\ DOMAIN q = 1..Len(q)
BY DEF IsSequence

LEMMA WiderSequence ==
    ASSUME NEW q, IsSequence(q), NEW S, Items(q) \subseteq S
    PROVE  q \in Seq(S)
BY DEF IsSequence, Items

LEMMA AnySequence ==
    ASSUME NEW S, NEW q \in Seq(S)
    PROVE  IsSequence(q)
<1> DEFINE R == {q[i] : i \in DOMAIN q}
<1>1. PICK n \in Nat : q \in [1..n -> S]
  BY SeqDef
<1>2. q \in [1..n -> R]
  BY <1>1
<1>3. q \in Seq(R)
  BY <1>2, SeqDef
<1>4. QED
  BY <1>3 DEF IsSequence

LEMMA EmptySequence == IsSequence(<<>>) /\ Items(<<>>) = {} /\ Ids(<<>>) = {}
BY DEF IsSequence, Items, Ids

LEMMA Singleton ==
    ASSUME NEW w
    PROVE  IsSequence(<<w>>) /\ Items(<<w>>) = {w} /\ Ids(<<w>>) = {w[1]}
<1>1. IsSequence(<<w>>)
  BY DEF IsSequence
<1>2. Items(<<w>>) = {w}
  BY DEF Items
<1>3. QED
  BY <1>1, <1>2 DEF Ids

LEMMA Concatenation ==
    ASSUME NEW a, NEW b, IsSequence(a), IsSequence(b)
    PROVE  /\ IsSequence(a \o b)
           /\ Items(a \o b) = Items(a) \cup Items(b)
           /\ Ids(a \o b) = Ids(a) \cup Ids(b)
           /\ Len(a \o b) = Len(a) + Len(b)
           /\ \A i \in 1..Len(a) : (a \o b)[i] = a[i]
           /\ \A i \in 1..Len(b) : (a \o b)[Len(a) + i] = b[i]
<1> DEFINE S == Items(a) \cup Items(b)
<1>1. a \in Seq(S) /\ b \in Seq(S)
  BY WiderSequence
<1>2. /\ a \o b \in Seq(S) /\ Len(a \o b) = Len(a) + Len(b)
      /\ Len(a) \in Nat /\ Len(b) \in Nat
      /\ DOMAIN a = 1..Len(a) /\ DOMAIN b = 1..Len(b)
      /\ DOMAIN (a \o b) = 1..(Len(a) + Len(b))
  BY <1>1
<1>3. /\ \A i \in 1..Len(a) : (a \o b)[i] = a[i]
      /\ \A i \in 1..Len(b) : (a \o b)[Len(a) + i] = b[i]
  BY <1>1, <1>2
<1>4. Items(a \o b) \subseteq S
  BY <1>2 DEF Items
<1>5. Items(a) \subseteq Items(a \o b)
  BY <1>2, <1>3 DEF Items
<1>6. Items(b) \subseteq Items(a \o b)
  <2> SUFFICES ASSUME NEW i \in 1..Len(b) PROVE b[i] \in Items(a \o b)
    BY <1>2 DEF Items
  <2>1. Len(a) + i \in DOMAIN (a \o b) /\ (a \o b)[Len(a) + i] = b[i]
    BY <1>2, <1>3
  <2>2. QED
    BY <2>1 DEF Items
<1>7. Items(a \o b) = S
  BY <1>4, <1>5, <1>6
<1>8. IsSequence(a \o b)
  <2>1. a \o b \in Seq(Items(a \o b))
    BY <1>2, <1>7
  <2>2. QED
    BY <2>1 DEF IsSequence, Items
<1>9. Ids(a \o b) = Ids(a) \cup Ids(b)
  BY <1>7 DEF Ids
<1>10. QED
  BY <1>2, <1>3, <1>7, <1>8, <1>9

LEMMA TailFacts ==
    ASSUME NEW q, IsSequence(q), q # <<>>
    PROVE  /\ IsSequence(Tail(q)) /\ Items(Tail(q)) \subseteq Items(q)
           /\ Head(q) = q[1] /\ 1 \in DOMAIN q
           /\ Len(q) \in Nat \ {0} /\ Len(Tail(q)) = Len(q) - 1
           /\ \A i \in DOMAIN Tail(q) : i + 1 \in DOMAIN q /\ Tail(q)[i] = q[i + 1]
<1>1. q \in Seq(Items(q))
  BY DEF IsSequence, Items
<1>2. /\ Len(q) \in Nat \ {0} /\ DOMAIN q = 1..Len(q)
      /\ Len(Tail(q)) = Len(q) - 1 /\ DOMAIN Tail(q) = 1..(Len(q) - 1)
      /\ Tail(q) \in Seq(Items(q)) /\ Head(q) = q[1]
  BY <1>1
<1>3. \A i \in DOMAIN Tail(q) : i + 1 \in DOMAIN q /\ Tail(q)[i] = q[i + 1]
  BY <1>1, <1>2
<1>4. Items(Tail(q)) \subseteq Items(q)
  BY <1>3 DEF Items
<1>5. IsSequence(Tail(q))
  BY <1>2, AnySequence
<1>6. QED
  BY <1>2, <1>3, <1>4, <1>5

(***************************************************************************)
(* Writes that can be made in their order.                                 *)
(***************************************************************************)
LEMMA ResolvesInTurn ==
    ASSUME NEW a, NEW b, IsSequence(a), IsSequence(b), NEW D,
           Resolves(a, D), Resolves(b, D \cup Ids(a))
    PROVE  Resolves(a \o b, D)
<1>1. /\ IsSequence(a \o b) /\ Len(a \o b) = Len(a) + Len(b)
      /\ \A i \in 1..Len(a) : (a \o b)[i] = a[i]
      /\ \A i \in 1..Len(b) : (a \o b)[Len(a) + i] = b[i]
  BY Concatenation
<1>2. /\ Len(a) \in Nat /\ Len(b) \in Nat /\ DOMAIN a = 1..Len(a) /\ DOMAIN b = 1..Len(b)
      /\ DOMAIN (a \o b) = 1..(Len(a) + Len(b))
  BY <1>1, SequenceFacts
<1> SUFFICES ASSUME NEW i \in DOMAIN (a \o b), NEW x \in Needs((a \o b)[i][1], (a \o b)[i][2])
             PROVE  x \in D \cup {(a \o b)[j][1] : j \in 1..(i - 1)}
  BY DEF Resolves
<1>3. CASE i \in 1..Len(a)
  <2>1. x \in D \/ \E j \in 1..(i - 1) : x = a[j][1]
    BY <1>1, <1>2, <1>3 DEF Resolves
  <2>2. \A j \in 1..(i - 1) : (a \o b)[j] = a[j]
    BY <1>1, <1>2, <1>3
  <2>3. QED
    BY <2>1, <2>2
<1>4. CASE i \notin 1..Len(a)
  <2> DEFINE m == i - Len(a)
  <2>1. m \in 1..Len(b) /\ i = Len(a) + m /\ (a \o b)[i] = b[m]
    BY <1>1, <1>2, <1>4
  <2>2. x \in D \/ x \in Ids(a) \/ \E j \in 1..(m - 1) : x = b[j][1]
    BY <1>2, <2>1 DEF Resolves
  <2>3. CASE x \in Ids(a)
    <3>1. PICK j \in 1..Len(a) : x = a[j][1]
      BY <1>2, <2>3 DEF Ids, Items
    <3>2. j \in 1..(i - 1) /\ (a \o b)[j] = a[j]
      BY <1>1, <1>2, <2>1, <3>1
    <3>3. QED
      BY <3>1, <3>2
  <2>4. CASE \E j \in 1..(m - 1) : x = b[j][1]
    <3>1. PICK j \in 1..(m - 1) : x = b[j][1]
      BY <2>4
    <3>2. Len(a) + j \in 1..(i - 1) /\ (a \o b)[Len(a) + j] = b[j]
      BY <1>1, <1>2, <2>1, <3>1
    <3>3. QED
      BY <3>1, <3>2
  <2>5. QED
    BY <2>2, <2>3, <2>4
<1>5. QED
  BY <1>3, <1>4

LEMMA ResolvesAlone ==
    ASSUME NEW w, NEW D, Needs(w[1], w[2]) \subseteq D
    PROVE  Resolves(<<w>>, D)
BY DEF Resolves

LEMMA ResolvesMore ==
    ASSUME NEW q, NEW D, NEW E, D \subseteq E, Resolves(q, D)
    PROVE  Resolves(q, E)
BY DEF Resolves

LEMMA ResolvesNext ==
    ASSUME NEW q, IsSequence(q), q # <<>>, NEW D, Resolves(q, D)
    PROVE  /\ Resolves(Tail(q), D \cup {Head(q)[1]})
           /\ Needs(Head(q)[1], Head(q)[2]) \subseteq D
<1>1. /\ Head(q) = q[1] /\ 1 \in DOMAIN q /\ DOMAIN q = 1..Len(q) /\ Len(q) \in Nat
      /\ \A i \in DOMAIN Tail(q) : i + 1 \in DOMAIN q /\ Tail(q)[i] = q[i + 1]
      /\ DOMAIN Tail(q) = 1..(Len(q) - 1)
  BY TailFacts, SequenceFacts
<1>2. Needs(q[1][1], q[1][2]) \subseteq D
  BY <1>1 DEF Resolves
<1>3. ASSUME NEW i \in DOMAIN Tail(q), NEW x \in Needs(Tail(q)[i][1], Tail(q)[i][2])
      PROVE  x \in D \cup {Head(q)[1]} \cup {Tail(q)[j][1] : j \in 1..(i - 1)}
  <2>1. i \in Nat \ {0} /\ i <= Len(q) - 1 /\ i + 1 \in DOMAIN q /\ Tail(q)[i] = q[i + 1]
    BY <1>1
  <2>2. x \in D \/ \E j \in 1..i : x = q[j][1]
    BY <1>3, <2>1 DEF Resolves
  <2>3. ASSUME NEW j \in 1..i, x = q[j][1]
        PROVE  x \in {Head(q)[1]} \cup {Tail(q)[h][1] : h \in 1..(i - 1)}
    <3>1. CASE j = 1
      BY <1>1, <2>3, <3>1
    <3>2. CASE j # 1
      <4>1. j - 1 \in 1..(i - 1) /\ j - 1 \in DOMAIN Tail(q) /\ (j - 1) + 1 = j
        BY <1>1, <2>1, <3>2
      <4>2. Tail(q)[j - 1] = q[j]
        BY <1>1, <4>1
      <4>3. QED
        BY <2>3, <4>1, <4>2
    <3>3. QED
      BY <3>1, <3>2
  <2>4. QED
    BY <2>2, <2>3
<1>4. QED
  BY <1>1, <1>2, <1>3 DEF Resolves

(***************************************************************************)
(* An order of two objects in a pass, as the pass goes on.                 *)
(***************************************************************************)
LEMMA BeforeNext ==
    ASSUME NEW q, IsSequence(q), q # <<>>, NEW x, NEW y, Before(q, x, y), Head(q)[1] # x
    PROVE  Before(Tail(q), x, y) /\ Head(q)[1] # y
<1>1. /\ Head(q) = q[1] /\ 1 \in DOMAIN q /\ DOMAIN q = 1..Len(q) /\ Len(q) \in Nat
      /\ \A i \in DOMAIN Tail(q) : i + 1 \in DOMAIN q /\ Tail(q)[i] = q[i + 1]
      /\ DOMAIN Tail(q) = 1..(Len(q) - 1)
  BY TailFacts, SequenceFacts
<1>2. Head(q)[1] # y
  BY <1>1 DEF Before
<1>3. ASSUME NEW i \in DOMAIN Tail(q), Tail(q)[i][1] = y
      PROVE  \E j \in 1..(i - 1) : Tail(q)[j][1] = x
  <2>1. i \in Nat \ {0} /\ i <= Len(q) - 1 /\ i + 1 \in DOMAIN q /\ Tail(q)[i] = q[i + 1]
    BY <1>1
  <2>2. PICK j \in 1..i : q[j][1] = x
    BY <1>3, <2>1 DEF Before
  <2>3. j # 1
    BY <1>1, <2>2
  <2>4. j - 1 \in 1..(i - 1) /\ j - 1 \in DOMAIN Tail(q) /\ (j - 1) + 1 = j
    BY <1>1, <2>1, <2>3
  <2>5. Tail(q)[j - 1] = q[j]
    BY <1>1, <2>4
  <2>6. QED
    BY <2>2, <2>4, <2>5
<1>4. QED
  BY <1>2, <1>3 DEF Before

LEMMA BeforeFirst ==
    ASSUME NEW q, IsSequence(q), NEW x, NEW y, x # y, q = <<>> \/ q[1][1] = x
    PROVE  Before(q, x, y)
<1>1. DOMAIN q = 1..Len(q) /\ Len(q) \in Nat
  BY SequenceFacts
<1> SUFFICES ASSUME NEW i \in DOMAIN q, q[i][1] = y PROVE \E j \in 1..(i - 1) : q[j][1] = x
  BY DEF Before
<1>2. q # <<>> /\ i # 1
  BY <1>1
<1>3. 1 \in 1..(i - 1)
  BY <1>1, <1>2
<1>4. QED
  BY <1>2, <1>3

-----------------------------------------------------------------------------
(* Names *)

LEMMA KindFacts ==
    ASSUME NEW k \in ComponentKinds
    PROVE  /\ WorkloadKind(k) \in {"Deployment", "StatefulSet", "DaemonSet"}
           /\ WorkloadKind(k) = "StatefulSet" <=> k = "ZelosBackplane"
           /\ WorkloadKind(k) = "DaemonSet" <=> k = "ZelosClient"
           /\ k # "ZelosPlatform" /\ k \in Controllers
           /\ k \notin {"Deployment", "StatefulSet", "DaemonSet", "ConfigMap", "Service",
                        "PersistentVolumeClaim", "HorizontalPodAutoscaler"}
BY DEF ComponentKinds, WorkloadKind, Controllers

LEMMA IdFacts ==
    ASSUME NEW k \in ComponentKinds, NEW l \in ComponentKinds
    PROVE  /\ Resource(k) = Resource(l) => k = l
           /\ ConfigId(k) = ConfigId(l) => k = l
           /\ WorkloadId(k) = WorkloadId(l) => k = l
           /\ Resource(k) \notin {TelemetryEnvId, ConfigId(l), WorkloadId(l)}
           /\ ConfigId(k) \notin {TelemetryEnvId, WorkloadId(l)}
           /\ WorkloadId(k) # TelemetryEnvId
           /\ Resource(k)[1] = k /\ ConfigId(k)[1] = "ConfigMap"
           /\ WorkloadId(k)[1] = WorkloadKind(k) /\ WorkloadId(k)[2] = RunsAs(k)
<1>1. /\ Resource(k)[1] = k /\ ConfigId(k)[1] = "ConfigMap"
      /\ WorkloadId(k)[1] = WorkloadKind(k) /\ WorkloadId(k)[2] = RunsAs(k)
      /\ Resource(l)[1] = l /\ ConfigId(l)[1] = "ConfigMap"
      /\ WorkloadId(l)[1] = WorkloadKind(l) /\ WorkloadId(l)[2] = RunsAs(l)
      /\ TelemetryEnvId[1] = "ConfigMap"
  BY DEF Resource, ConfigId, WorkloadId, TelemetryEnvId
<1>2. /\ ConfigId(k) = ConfigId(l) => k = l
      /\ RunsAs(k) = RunsAs(l) => k = l
      /\ ConfigId(k) # TelemetryEnvId
  BY NamesAssumption
<1>3. QED
  BY <1>1, <1>2, KindFacts

(***************************************************************************)
(* What a controller's writes are called.                                  *)
(***************************************************************************)
LEMMA PartWriteFacts ==
    ASSUME NEW cr, cr.kind \in ComponentKinds, NEW p \in Parts
    PROVE  /\ p = "ConfigMap" => PartWrite(cr, p) = <<ConfigId(cr.kind), ConfigData(cr)>>
           /\ p = "PVC" => PartWrite(cr, p) = <<ClaimId(cr.kind), cr.size>>
           /\ p = "Workload" => PartWrite(cr, p) = <<WorkloadId(cr.kind), Workload(cr)>>
           /\ p = "Service" => PartWrite(cr, p) = <<<<"Service", RunsAs(cr.kind)>>,
                                                    SelectorLabels(LabelOf(cr.kind))>>
           /\ p = "HPA" => PartWrite(cr, p) = <<<<"HorizontalPodAutoscaler", RunsAs(cr.kind)>>,
                                                WorkloadId(cr.kind)>>
BY DEF PartWrite, Parts

LEMMA PartIds ==
    ASSUME NEW cr, cr.kind \in ComponentKinds, NEW p \in Parts,
           NEW l \in ComponentKinds, NEW w, w = PartWrite(cr, p)
    PROVE  /\ w = <<w[1], w[2]>>
           /\ w[1] # Resource(l) /\ w[1] # TelemetryEnvId
           /\ w[1] = ConfigId(l) => p = "ConfigMap" /\ l = cr.kind
           /\ w[1] = WorkloadId(l) => p = "Workload" /\ l = cr.kind
<1> DEFINE k == cr.kind
<1>2. k \in ComponentKinds /\ k = cr.kind
  OBVIOUS
<1>3. /\ p = "ConfigMap" => w = <<ConfigId(k), ConfigData(cr)>>
      /\ p = "PVC" => w = <<ClaimId(k), cr.size>>
      /\ p = "Workload" => w = <<WorkloadId(k), Workload(cr)>>
      /\ p = "Service" => w = <<<<"Service", RunsAs(k)>>, SelectorLabels(LabelOf(k))>>
      /\ p = "HPA" => w = <<<<"HorizontalPodAutoscaler", RunsAs(k)>>, WorkloadId(k)>>
  BY PartWriteFacts
<1> HIDE DEF k
<1>4. /\ Resource(l)[1] = l /\ ConfigId(l)[1] = "ConfigMap"
       /\ WorkloadId(l)[1] \in {"Deployment", "StatefulSet", "DaemonSet"}
       /\ TelemetryEnvId[1] = "ConfigMap"
       /\ l \notin {"Service", "PersistentVolumeClaim", "HorizontalPodAutoscaler"}
  BY IdFacts, KindFacts DEF TelemetryEnvId
<1>5. CASE p = "ConfigMap"
  BY <1>2, <1>3, <1>4, <1>5, IdFacts
<1>6. CASE p = "PVC"
  <2>1. w[1] = ClaimId(k) /\ w[1][1] = "PersistentVolumeClaim" /\ w = <<w[1], w[2]>>
    BY <1>3, <1>6 DEF ClaimId
  <2>2. QED
    BY <1>4, <2>1
<1>7. CASE p = "Workload"
  BY <1>2, <1>3, <1>4, <1>7, IdFacts
<1>8. CASE p = "Service"
  <2>1. w[1][1] = "Service" /\ w = <<w[1], w[2]>>
    BY <1>3, <1>8
  <2>2. QED
    BY <1>4, <2>1
<1>9. CASE p = "HPA"
  <2>1. w[1][1] = "HorizontalPodAutoscaler" /\ w = <<w[1], w[2]>>
    BY <1>3, <1>9
  <2>2. QED
    BY <1>4, <2>1
<1>10. QED
  BY <1>5, <1>6, <1>7, <1>8, <1>9 DEF Parts, k

LEMMA RenderedParts ==
    ASSUME NEW cr, cr.kind \in ComponentKinds
    PROVE  Rendered(cr) \subseteq Parts
BY DEF Rendered, ReconcileOrder, Parts, GatewayOrder, BackplaneOrder, MCPOrder, BrokerOrder,
       ServerOrder, ClientOrder

(***************************************************************************)
(* What is handed down.                                                    *)
(***************************************************************************)
LEMMA HandedDownFacts ==
    ASSUME NEW s, NEW k \in ComponentKinds, NEW cr, cr = HandedDown(s, k)
    PROVE  /\ cr.kind = k /\ cr.substrate = "nats"
           /\ \A x \in DOMAIN FromPlatform(s, k) : cr[x] = FromPlatform(s, k)[x]
<1> DEFINE given == FromPlatform(s, k)
           base == DefaultSpec(k)
<1>1. cr = Over(given, base)
  BY DEF HandedDown
<1>2. "kind" \notin DOMAIN given /\ "substrate" \notin DOMAIN given
  BY DEF FromPlatform
<1>3. /\ "kind" \in DOMAIN base /\ "substrate" \in DOMAIN base
      /\ base["kind"] = k /\ base["substrate"] = "nats"
  BY DEF DefaultSpec
<1> HIDE DEF given, base
<1>4. \A x \in DOMAIN given : cr[x] = given[x]
  <2>1. \A x \in DOMAIN given : Over(given, base)[x] = given[x]
    BY OverFacts
  <2>2. QED
    BY <1>1, <2>1
<1>5. cr["kind"] = k /\ cr["substrate"] = "nats"
  <2>1. \A x \in DOMAIN base : x \notin DOMAIN given => Over(given, base)[x] = base[x]
    BY OverFacts
  <2>2. QED
    BY <1>1, <1>2, <1>3, <2>1
<1>6. QED
  BY <1>4, <1>5 DEF given

LEMMA HandedDownKind ==
    ASSUME NEW s, NEW k \in ComponentKinds
    PROVE  /\ HandedDown(s, k).kind = k
           /\ HandedDown(s, k).persistence = "on" => KeepsState(k)
<1> SUFFICES ASSUME NEW cr, cr = HandedDown(s, k)
             PROVE  cr.kind = k /\ (cr.persistence = "on" => KeepsState(k))
  OBVIOUS
<1>1. cr.kind = k
  BY HandedDownFacts
<1>2. /\ "persistence" \in DOMAIN FromPlatform(s, k)
      /\ FromPlatform(s, k)["persistence"] =
            IF KeepsState(k) THEN s.child[k].persistence ELSE "unset"
  BY DEF FromPlatform
<1>3. cr["persistence"] = FromPlatform(s, k)["persistence"]
  BY <1>2, HandedDownFacts
<1>4. QED
  BY <1>1, <1>2, <1>3

-----------------------------------------------------------------------------
(* The writes of a component's controller *)

(***************************************************************************)
(* Three fields of a record replaced at a time.                            *)
(***************************************************************************)
LEMMA ThreeReplaced ==
    ASSUME NEW r, NEW x1, NEW x2, NEW x3, NEW y1, NEW y2, NEW y3, NEW q,
           {x1, x2, x3} \subseteq DOMAIN r, x1 # x2, x1 # x3, x2 # x3,
           q = [r EXCEPT ![x1] = y1, ![x2] = y2, ![x3] = y3]
    PROVE  /\ DOMAIN q = DOMAIN r
           /\ q[x1] = y1 /\ q[x2] = y2 /\ q[x3] = y3
           /\ \A z \in DOMAIN r : z \notin {x1, x2, x3} => q[z] = r[z]
<1> DEFINE a == [r EXCEPT ![x1] = y1]
           b == [a EXCEPT ![x2] = y2]
<1>1. q = [b EXCEPT ![x3] = y3]
  OBVIOUS
<1>2. DOMAIN a = DOMAIN r /\ a[x1] = y1 /\ \A z \in DOMAIN r : z # x1 => a[z] = r[z]
  OBVIOUS
<1> HIDE DEF a
<1>3. DOMAIN b = DOMAIN a /\ b[x2] = y2 /\ \A z \in DOMAIN a : z # x2 => b[z] = a[z]
  BY <1>2
<1> HIDE DEF b
<1>4. DOMAIN q = DOMAIN b /\ q[x3] = y3 /\ \A z \in DOMAIN b : z # x3 => q[z] = b[z]
  BY <1>1, <1>2, <1>3
<1>5. QED
  BY <1>2, <1>3, <1>4

(***************************************************************************)
(* What a workload's template says of itself and of other objects, and     *)
(* what it gives its pods.                                                 *)
(***************************************************************************)
LEMMA WorkloadFacts ==
    ASSUME NEW cr, cr.kind \in ComponentKinds, NEW pod, pod = Workload(cr)
    PROVE  /\ pod.labels = Labels(LabelOf(cr.kind), cr.kind)
           /\ pod.selector = SelectorLabels(LabelOf(cr.kind))
           /\ pod.envFrom = IF cr.kind = "ZelosBackplane" THEN <<>>
                            ELSE <<TelemetryEnvId, ConfigId(cr.kind)>>
           /\ pod.claims = IF WorkloadKind(cr.kind) = "Deployment" /\ WantsPVC(cr)
                           THEN {ClaimId(cr.kind)} ELSE {}
           /\ cr.kind # "ZelosBackplane" =>
                 /\ pod.image = MergeImage([repository |-> "ghcr.io/zelosai/" \o cr.kind,
                                            tag |-> "develop"], cr.image)
                 /\ pod.pullSecrets = {cr.pullSecret, "ghcr-pull-secret"}
                 /\ pod.env = IF cr.kind = "ZelosClient" THEN PodInfo(cr.kind)
                              ELSE Over(SecretEnv(cr.kind, SecretRefs(cr)),
                                        StandardEnv(cr.kind))
                 /\ cr.kind # "ZelosClient" =>
                       pod.mounts = SecretMounts(SecretRefs(cr)) \o StateMount(cr)
<1> DEFINE k == cr.kind
           l == Labels(LabelOf(k), k)
           sel == SelectorLabels(LabelOf(k))
           img == MergeImage([repository |-> "ghcr.io/zelosai/" \o k, tag |-> "develop"],
                             cr.image)
           secrets == {cr.pullSecret, "ghcr-pull-secret"}
           from == <<TelemetryEnvId, ConfigId(k)>>
           refs == SecretRefs(cr)
           env == Over(SecretEnv(k, refs), StandardEnv(k))
           mounts == SecretMounts(refs) \o StateMount(cr)
           claims == IF WantsPVC(cr) THEN {ClaimId(k)} ELSE {}
           name == PodInfo(k)
           base == PodTemplate(k)
           own == [base EXCEPT !.image = img, !.pullSecrets = secrets, !.envFrom = from]
<1>1. k \in ComponentKinds /\ k = cr.kind
  OBVIOUS
<1>2. /\ DOMAIN base = {"labels", "selector", "image", "pullSecrets", "env", "envFrom",
                        "mounts", "claims"}
      /\ base.labels = l /\ base.selector = sel /\ base.envFrom = <<>> /\ base.claims = {}
  BY DEF PodTemplate
<1>3. /\ WorkloadKind(k) = "StatefulSet" => pod = base
      /\ WorkloadKind(k) = "DaemonSet" => pod = [own EXCEPT !.env = name]
      /\ WorkloadKind(k) = "Deployment" =>
            pod = [own EXCEPT !.env = env, !.mounts = mounts, !.claims = claims]
  BY <1>1, KindFacts DEF Workload
<1> HIDE DEF l, sel, img, secrets, from, env, mounts, claims, k, name, base
<1>4. /\ DOMAIN own = DOMAIN base
      /\ own["image"] = img /\ own["pullSecrets"] = secrets /\ own["envFrom"] = from
      /\ own["labels"] = l /\ own["selector"] = sel /\ own["claims"] = {}
  <2>1. /\ DOMAIN own = DOMAIN base
        /\ own["image"] = img /\ own["pullSecrets"] = secrets /\ own["envFrom"] = from
        /\ \A z \in DOMAIN base : z \notin {"image", "pullSecrets", "envFrom"} =>
              own[z] = base[z]
    BY <1>2, ThreeReplaced
  <2> HIDE DEF own
  <2>2. QED
    BY <1>2, <2>1
<1> HIDE DEF own
<1>5. CASE WorkloadKind(k) = "StatefulSet"
  BY <1>1, <1>2, <1>3, <1>5, KindFacts DEF l, sel
<1>6. CASE WorkloadKind(k) = "DaemonSet"
  <2>1. pod = [own EXCEPT !.env = name]
    BY <1>3, <1>6
  <2>2. /\ pod.labels = l /\ pod.selector = sel /\ pod.envFrom = from /\ pod.claims = {}
        /\ pod.image = img /\ pod.pullSecrets = secrets /\ pod.env = name
    BY <1>2, <1>4, <2>1
  <2>3. QED
    BY <1>1, <1>6, <2>2, KindFacts DEF l, sel, from, img, secrets, name
<1>7. CASE WorkloadKind(k) = "Deployment"
  <2>1. pod = [own EXCEPT !.env = env, !.mounts = mounts, !.claims = claims]
    BY <1>3, <1>7
  <2>2. /\ pod["env"] = env /\ pod["mounts"] = mounts /\ pod["claims"] = claims
        /\ \A z \in DOMAIN own : z \notin {"env", "mounts", "claims"} => pod[z] = own[z]
    BY <1>2, <1>4, <2>1, ThreeReplaced
  <2>3. /\ pod.labels = l /\ pod.selector = sel /\ pod.envFrom = from
        /\ pod.image = img /\ pod.pullSecrets = secrets
    BY <1>2, <1>4, <2>2
  <2>4. QED
    BY <1>1, <1>7, <2>2, <2>3, KindFacts
    DEF l, sel, from, img, secrets, env, mounts, claims, refs
<1>8. QED
  BY <1>1, <1>5, <1>6, <1>7, KindFacts

LEMMA PartNeeds ==
    ASSUME NEW cr, cr.kind \in ComponentKinds, NEW p \in Parts, NEW w, w = PartWrite(cr, p)
    PROVE  /\ p \in {"ConfigMap", "PVC", "Service"} => Needs(w[1], w[2]) = {}
           /\ p = "HPA" => Needs(w[1], w[2]) = {WorkloadId(cr.kind)}
           /\ p = "Workload" =>
                 /\ cr.kind = "ZelosBackplane" => Needs(w[1], w[2]) = {}
                 /\ Needs(w[1], w[2]) \subseteq {TelemetryEnvId, ConfigId(cr.kind)} \cup
                        IF WorkloadKind(cr.kind) = "Deployment" /\ WantsPVC(cr)
                        THEN {ClaimId(cr.kind)} ELSE {}
<1> DEFINE k == cr.kind
<1>1. k \in ComponentKinds /\ k = cr.kind
  OBVIOUS
<1>2. CASE p \in {"ConfigMap", "PVC", "Service"}
  <2>1. w[1][1] \in {"ConfigMap", "PersistentVolumeClaim", "Service"}
    BY <1>1, <1>2, PartWriteFacts, IdFacts DEF ClaimId
  <2>2. QED
    BY <1>2, <2>1 DEF Needs
<1>3. CASE p = "HPA"
  <2>1. w[1][1] = "HorizontalPodAutoscaler" /\ w[2] = WorkloadId(k)
    BY <1>1, <1>3, PartWriteFacts
  <2>2. QED
    BY <1>3, <2>1 DEF Needs
<1>4. CASE p = "Workload"
  <2>1. w[1] = WorkloadId(k) /\ w[2] = Workload(cr)
    BY <1>1, <1>4, PartWriteFacts
  <2>2. w[1][1] \in {"Deployment", "StatefulSet", "DaemonSet"}
    BY <1>1, <2>1, IdFacts, KindFacts
  <2>3. Needs(w[1], w[2]) = References(Workload(cr))
    BY <2>1, <2>2 DEF Needs
  <2>4. /\ Workload(cr).envFrom = IF k = "ZelosBackplane" THEN <<>>
                                  ELSE <<TelemetryEnvId, ConfigId(k)>>
        /\ Workload(cr).claims = IF WorkloadKind(k) = "Deployment" /\ WantsPVC(cr)
                                 THEN {ClaimId(k)} ELSE {}
    BY WorkloadFacts
  <2>5. CASE k = "ZelosBackplane"
    BY <1>4, <2>3, <2>4, <2>5, KindFacts DEF References
  <2>6. CASE k # "ZelosBackplane"
    BY <1>4, <2>3, <2>4, <2>6 DEF References
  <2>7. QED
    BY <2>5, <2>6
<1>5. QED
  BY <1>2, <1>3, <1>4 DEF Parts

\* The i-th call of a pass: whether it is made, and what it writes.
Called(cr, i) ==
    i \in DOMAIN ReconcileOrder(cr.kind) /\ ReconcileOrder(cr.kind)[i] \in Rendered(cr)
CallOf(cr, i) == PartWrite(cr, ReconcileOrder(cr.kind)[i])

\* The objects that the calls up to the n-th have written.
Made(cr, n) == {CallOf(cr, j)[1] : j \in {m \in 1..n : Called(cr, m)}}

LEMMA OneCall ==
    ASSUME NEW made \in BOOLEAN, NEW w, NEW D, made => Needs(w[1], w[2]) \subseteq D,
           NEW q, q = IF made THEN <<w>> ELSE <<>>
    PROVE  /\ IsSequence(q) /\ Resolves(q, D)
           /\ Items(q) = IF made THEN {w} ELSE {}
           /\ Ids(q) = IF made THEN {w[1]} ELSE {}
<1>1. CASE made
  BY <1>1, Singleton, ResolvesAlone
<1>2. CASE ~made
  <2>1. Resolves(<<>>, D)
    BY DEF Resolves
  <2>2. QED
    BY <1>2, <2>1, EmptySequence
<1>3. QED
  BY <1>1, <1>2

LEMMA CallsInOrder ==
    ASSUME NEW cr, NEW D,
           \A i \in 1..4 : Called(cr, i) =>
              Needs(CallOf(cr, i)[1], CallOf(cr, i)[2]) \subseteq D \cup Made(cr, i - 1)
    PROVE  /\ IsSequence(ComponentWrites(cr)) /\ Resolves(ComponentWrites(cr), D)
           /\ Items(ComponentWrites(cr)) = {CallOf(cr, i) : i \in {j \in 1..4 : Called(cr, j)}}
           /\ Called(cr, 1) => ComponentWrites(cr)[1] = CallOf(cr, 1)
<1> DEFINE Call(i) == IF Called(cr, i) THEN <<CallOf(cr, i)>> ELSE <<>>
           W(i) == CallOf(cr, i)
           B(i) == Called(cr, i)
<1>1. ComponentWrites(cr) = Call(1) \o Call(2) \o Call(3) \o Call(4)
  BY DEF ComponentWrites, Called, CallOf
<1>2. \A i \in 1..4 : /\ IsSequence(Call(i)) /\ Resolves(Call(i), D \cup Made(cr, i - 1))
                      /\ Items(Call(i)) = IF B(i) THEN {W(i)} ELSE {}
                      /\ Ids(Call(i)) = IF B(i) THEN {W(i)[1]} ELSE {}
  <2> SUFFICES ASSUME NEW i \in 1..4
               PROVE  /\ IsSequence(Call(i)) /\ Resolves(Call(i), D \cup Made(cr, i - 1))
                      /\ Items(Call(i)) = IF B(i) THEN {W(i)} ELSE {}
                      /\ Ids(Call(i)) = IF B(i) THEN {W(i)[1]} ELSE {}
    OBVIOUS
  <2>1. B(i) \in BOOLEAN
    BY DEF Called
  <2>2. B(i) => Needs(W(i)[1], W(i)[2]) \subseteq D \cup Made(cr, i - 1)
    OBVIOUS
  <2> HIDE DEF B, W
  <2>3. QED
    BY <2>1, <2>2, OneCall DEF B, W
<1>3. /\ Made(cr, 1 - 1) = {}
      /\ Made(cr, 2 - 1) = Ids(Call(1))
      /\ Made(cr, 3 - 1) = Ids(Call(1)) \cup Ids(Call(2))
      /\ Made(cr, 4 - 1) = Ids(Call(1)) \cup Ids(Call(2)) \cup Ids(Call(3))
  <2>1. 1..(1 - 1) = {} /\ 1..(2 - 1) = {1} /\ 1..(3 - 1) = {1, 2} /\ 1..(4 - 1) = {1, 2, 3}
    OBVIOUS
  <2>2. /\ Ids(Call(1)) = IF B(1) THEN {W(1)[1]} ELSE {}
        /\ Ids(Call(2)) = IF B(2) THEN {W(2)[1]} ELSE {}
        /\ Ids(Call(3)) = IF B(3) THEN {W(3)[1]} ELSE {}
    BY <1>2
  <2> HIDE DEF Call
  <2>3. QED
    BY <2>1, <2>2 DEF Made
<1> HIDE DEF Call
<1> DEFINE q2 == Call(1) \o Call(2)
           q3 == q2 \o Call(3)
           q4 == q3 \o Call(4)
<1>4. /\ IsSequence(q2) /\ Ids(q2) = Ids(Call(1)) \cup Ids(Call(2))
      /\ Items(q2) = Items(Call(1)) \cup Items(Call(2)) /\ Resolves(q2, D)
  <2>1. IsSequence(Call(1)) /\ IsSequence(Call(2))
    BY <1>2
  <2>2. Resolves(Call(1), D) /\ Resolves(Call(2), D \cup Ids(Call(1)))
    <3>1. Resolves(Call(1), D \cup Made(cr, 1 - 1)) /\ Resolves(Call(2), D \cup Made(cr, 2 - 1))
      BY <1>2
    <3>2. D \cup Made(cr, 1 - 1) = D
      BY <1>3
    <3>3. QED
      BY <1>3, <3>1, <3>2
  <2>3. QED
    BY <2>1, <2>2, Concatenation, ResolvesInTurn
<1>5. /\ IsSequence(q3) /\ Ids(q3) = Ids(q2) \cup Ids(Call(3))
      /\ Items(q3) = Items(q2) \cup Items(Call(3)) /\ Resolves(q3, D)
  <2> HIDE DEF q2
  <2>1. IsSequence(Call(3)) /\ Resolves(Call(3), D \cup Made(cr, 3 - 1))
    BY <1>2
  <2>2. Resolves(Call(3), D \cup Ids(q2))
    BY <1>3, <1>4, <2>1
  <2>3. QED
    BY <1>4, <2>1, <2>2, Concatenation, ResolvesInTurn
<1>6. /\ IsSequence(q4) /\ Items(q4) = Items(q3) \cup Items(Call(4)) /\ Resolves(q4, D)
  <2> HIDE DEF q3
  <2>1. IsSequence(Call(4)) /\ Resolves(Call(4), D \cup Made(cr, 4 - 1))
    BY <1>2
  <2>2. Made(cr, 4 - 1) = Ids(q3)
    BY <1>3, <1>4, <1>5
  <2>3. Resolves(Call(4), D \cup Ids(q3))
    BY <2>1, <2>2
  <2>4. QED
    BY <1>5, <2>1, <2>3, Concatenation, ResolvesInTurn
<1>7. Items(q4) = {CallOf(cr, i) : i \in {j \in 1..4 : Called(cr, j)}}
  <2>1. 1..4 = {1, 2, 3, 4}
    OBVIOUS
  <2>2. /\ Items(Call(1)) = IF B(1) THEN {W(1)} ELSE {}
        /\ Items(Call(2)) = IF B(2) THEN {W(2)} ELSE {}
        /\ Items(Call(3)) = IF B(3) THEN {W(3)} ELSE {}
        /\ Items(Call(4)) = IF B(4) THEN {W(4)} ELSE {}
    BY <1>2
  <2>3. Items(q4) = Items(Call(1)) \cup Items(Call(2)) \cup Items(Call(3)) \cup Items(Call(4))
    BY <1>4, <1>5, <1>6
  <2> HIDE DEF q4
  <2>4. QED
    BY <2>1, <2>2, <2>3
<1>8. ASSUME Called(cr, 1) PROVE q4[1] = CallOf(cr, 1)
  <2>1. Call(1) = <<CallOf(cr, 1)>>
    BY <1>8 DEF Call
  <2>2. Len(Call(1)) = 1 /\ Call(1)[1] = CallOf(cr, 1)
    BY <2>1
  <2>3. IsSequence(Call(2)) /\ IsSequence(Call(3)) /\ IsSequence(Call(4)) /\ IsSequence(Call(1))
    BY <1>2
  <2>4. Len(q2) >= 1 /\ Len(q2) \in Nat /\ q2[1] = Call(1)[1]
    <3>1. Len(q2) = Len(Call(1)) + Len(Call(2)) /\ \A i \in 1..Len(Call(1)) : q2[i] = Call(1)[i]
      BY <2>3, Concatenation
    <3>2. QED
      BY <2>2, <2>3, <3>1, SequenceFacts
  <2>5. Len(q3) >= 1 /\ Len(q3) \in Nat /\ q3[1] = q2[1]
    <3> HIDE DEF q2
    <3>1. Len(q3) = Len(q2) + Len(Call(3)) /\ \A i \in 1..Len(q2) : q3[i] = q2[i]
      BY <1>4, <2>3, Concatenation
    <3>2. QED
      BY <2>3, <2>4, <3>1, SequenceFacts
  <2>6. q4[1] = q3[1]
    <3> HIDE DEF q3
    <3>1. \A i \in 1..Len(q3) : q4[i] = q3[i]
      BY <1>5, <2>3, Concatenation
    <3>2. 1 \in 1..Len(q3)
      BY <2>5
    <3> HIDE DEF q4
    <3>3. QED
      BY <3>1, <3>2
  <2>7. QED
    BY <2>2, <2>4, <2>5, <2>6
<1>9. QED
  BY <1>1, <1>6, <1>7, <1>8


(***************************************************************************)
(* The orders of the calls: the ConfigMap first, a claim before the        *)
(* workload that mounts it, and the workload before its autoscaler.        *)
(***************************************************************************)
LEMMA OrderFacts ==
    ASSUME NEW k \in ComponentKinds, NEW o, o = ReconcileOrder(k), NEW m \in DOMAIN o
    PROVE  /\ m \in 1..4 /\ o[m] \in Parts
           /\ k # "ZelosBackplane" => 1 \in DOMAIN o /\ o[1] = "ConfigMap"
           /\ o[m] = "Workload" /\ KeepsState(k) /\ WorkloadKind(k) = "Deployment" =>
                 m = 3 /\ 2 \in DOMAIN o /\ o[2] = "PVC"
           /\ o[m] = "HPA" => m = 4 /\ 2 \in DOMAIN o /\ o[2] = "Workload"
<1>1. CASE k = "ZelosGateway"
  <2>1. o = GatewayOrder
    BY <1>1 DEF ReconcileOrder
  <2>2. DOMAIN o = {1, 2, 3, 4}
    BY <2>1 DEF GatewayOrder
  <2>3. QED
    BY <1>1, <2>1, <2>2 DEF GatewayOrder, KeepsState, WorkloadKind, Parts
<1>2. CASE k = "ZelosBackplane"
  <2>1. o = BackplaneOrder
    BY <1>2 DEF ReconcileOrder
  <2>2. DOMAIN o = {1, 2}
    BY <2>1 DEF BackplaneOrder
  <2>3. QED
    BY <1>2, <2>1, <2>2 DEF BackplaneOrder, KeepsState, WorkloadKind, Parts
<1>3. CASE k = "ZelosMCP"
  <2>1. o = MCPOrder
    BY <1>3 DEF ReconcileOrder
  <2>2. DOMAIN o = {1, 2, 3, 4}
    BY <2>1 DEF MCPOrder
  <2>3. QED
    BY <1>3, <2>1, <2>2 DEF MCPOrder, KeepsState, WorkloadKind, Parts
<1>4. CASE k = "ZelosBroker"
  <2>1. o = BrokerOrder
    BY <1>4 DEF ReconcileOrder
  <2>2. DOMAIN o = {1, 2, 3, 4}
    BY <2>1 DEF BrokerOrder
  <2>3. QED
    BY <1>4, <2>1, <2>2 DEF BrokerOrder, KeepsState, WorkloadKind, Parts
<1>5. CASE k = "ZelosServer"
  <2>1. o = ServerOrder
    BY <1>5 DEF ReconcileOrder
  <2>2. DOMAIN o = {1, 2, 3}
    BY <2>1 DEF ServerOrder
  <2>3. QED
    BY <1>5, <2>1, <2>2 DEF ServerOrder, KeepsState, WorkloadKind, Parts
<1>6. CASE k = "ZelosClient"
  <2>1. o = ClientOrder
    BY <1>6 DEF ReconcileOrder
  <2>2. DOMAIN o = {1, 2}
    BY <2>1 DEF ClientOrder
  <2>3. QED
    BY <1>6, <2>1, <2>2 DEF ClientOrder, KeepsState, WorkloadKind, Parts
<1>7. QED
  BY <1>1, <1>2, <1>3, <1>4, <1>5, <1>6 DEF ComponentKinds

LEMMA CallOrder ==
    ASSUME NEW cr, cr.kind \in ComponentKinds, NEW i \in 1..4, Called(cr, i),
           cr.persistence = "on" => KeepsState(cr.kind),
           NEW o, o = ReconcileOrder(cr.kind)
    PROVE  /\ o[i] \in Parts
           /\ cr.kind # "ZelosBackplane" =>
                 /\ Called(cr, 1) /\ o[1] = "ConfigMap"
                 /\ o[i] # "ConfigMap" => 1 \in 1..(i - 1)
           /\ o[i] = "Workload" /\ WorkloadKind(cr.kind) = "Deployment" /\ WantsPVC(cr) =>
                 \E j \in 1..(i - 1) : Called(cr, j) /\ o[j] = "PVC"
           /\ o[i] = "HPA" => \E j \in 1..(i - 1) : Called(cr, j) /\ o[j] = "Workload"
<1>1. \A j : Called(cr, j) <=> /\ j \in DOMAIN o /\ Managed(cr)
                               /\ o[j] = "PVC" => WantsPVC(cr)
                               /\ o[j] = "HPA" => WantsHPA(cr)
  BY DEF Called, Rendered
<1>2. i \in DOMAIN o /\ Managed(cr)
  BY <1>1
<1>3. /\ o[i] \in Parts
      /\ cr.kind # "ZelosBackplane" => 1 \in DOMAIN o /\ o[1] = "ConfigMap"
      /\ o[i] = "Workload" /\ KeepsState(cr.kind) /\ WorkloadKind(cr.kind) = "Deployment" =>
            i = 3 /\ 2 \in DOMAIN o /\ o[2] = "PVC"
      /\ o[i] = "HPA" => i = 4 /\ 2 \in DOMAIN o /\ o[2] = "Workload"
  BY <1>2, OrderFacts
<1>4. WantsPVC(cr) => KeepsState(cr.kind)
  BY DEF WantsPVC, KeepsState
<1>5. ASSUME cr.kind # "ZelosBackplane"
      PROVE  /\ Called(cr, 1) /\ o[1] = "ConfigMap"
             /\ o[i] # "ConfigMap" => 1 \in 1..(i - 1)
  <2>1. Called(cr, 1) /\ o[1] = "ConfigMap"
    BY <1>1, <1>2, <1>3, <1>5
  <2>2. o[i] # "ConfigMap" => i # 1
    BY <2>1
  <2>3. QED
    BY <2>1, <2>2
<1>6. ASSUME o[i] = "Workload", WorkloadKind(cr.kind) = "Deployment", WantsPVC(cr)
      PROVE  \E j \in 1..(i - 1) : Called(cr, j) /\ o[j] = "PVC"
  <2>1. i = 3 /\ o[2] = "PVC" /\ Called(cr, 2)
    BY <1>1, <1>2, <1>3, <1>4, <1>6
  <2>2. QED
    BY <2>1
<1>7. ASSUME o[i] = "HPA"
      PROVE  \E j \in 1..(i - 1) : Called(cr, j) /\ o[j] = "Workload"
  <2>1. i = 4 /\ o[2] = "Workload" /\ Called(cr, 2)
    BY <1>1, <1>2, <1>3, <1>7
  <2>2. QED
    BY <2>1
<1>8. QED
  BY <1>3, <1>5, <1>6, <1>7

(***************************************************************************)
(* A pass of a component's controller writes what the spec renders, and    *)
(* nothing before what it refers to, where the telemetry's ConfigMap is.   *)
(***************************************************************************)
LEMMA ComponentPass ==
    ASSUME NEW cr, NEW k \in ComponentKinds, cr.kind = k, NEW D, TelemetryEnvId \in D,
           cr.persistence = "on" => KeepsState(k),
           NEW q, q = ComponentWrites(cr)
    PROVE  /\ IsSequence(q) /\ Resolves(q, D)
           /\ Items(q) = {PartWrite(cr, p) : p \in Rendered(cr)}
           /\ k # "ZelosBackplane" => Before(q, ConfigId(k), WorkloadId(k))
<1> DEFINE o == ReconcileOrder(k)
<1>1. \A i : CallOf(cr, i) = PartWrite(cr, o[i])
  BY DEF CallOf
<1>2. ASSUME NEW i \in 1..4, Called(cr, i)
      PROVE  Needs(CallOf(cr, i)[1], CallOf(cr, i)[2]) \subseteq D \cup Made(cr, i - 1)
  <2> DEFINE w == CallOf(cr, i)
  <2>1. /\ o[i] \in Parts
        /\ k # "ZelosBackplane" =>
              /\ Called(cr, 1) /\ o[1] = "ConfigMap"
              /\ o[i] # "ConfigMap" => 1 \in 1..(i - 1)
        /\ o[i] = "Workload" /\ WorkloadKind(k) = "Deployment" /\ WantsPVC(cr) =>
              \E j \in 1..(i - 1) : Called(cr, j) /\ o[j] = "PVC"
        /\ o[i] = "HPA" => \E j \in 1..(i - 1) : Called(cr, j) /\ o[j] = "Workload"
    BY <1>2, CallOrder
  <2>2. w = PartWrite(cr, o[i])
    BY <1>1
  <2> HIDE DEF w
  <2>3. /\ o[i] \in {"ConfigMap", "PVC", "Service"} => Needs(w[1], w[2]) = {}
        /\ o[i] = "HPA" => Needs(w[1], w[2]) = {WorkloadId(k)}
        /\ o[i] = "Workload" =>
              /\ k = "ZelosBackplane" => Needs(w[1], w[2]) = {}
              /\ Needs(w[1], w[2]) \subseteq {TelemetryEnvId, ConfigId(k)} \cup
                     IF WorkloadKind(k) = "Deployment" /\ WantsPVC(cr)
                     THEN {ClaimId(k)} ELSE {}
    BY <2>1, <2>2, PartNeeds
  <2>4. \A j \in 1..(i - 1) : Called(cr, j) =>
           /\ o[j] = "ConfigMap" => ConfigId(k) \in Made(cr, i - 1)
           /\ o[j] = "PVC" => ClaimId(k) \in Made(cr, i - 1)
           /\ o[j] = "Workload" => WorkloadId(k) \in Made(cr, i - 1)
    <3> SUFFICES ASSUME NEW j \in 1..(i - 1), Called(cr, j)
                 PROVE  /\ o[j] = "ConfigMap" => ConfigId(k) \in Made(cr, i - 1)
                        /\ o[j] = "PVC" => ClaimId(k) \in Made(cr, i - 1)
                        /\ o[j] = "Workload" => WorkloadId(k) \in Made(cr, i - 1)
      OBVIOUS
    <3>1. CallOf(cr, j)[1] \in Made(cr, i - 1)
      BY DEF Made
    <3>2. /\ o[j] = "ConfigMap" => CallOf(cr, j)[1] = ConfigId(k)
          /\ o[j] = "PVC" => CallOf(cr, j)[1] = ClaimId(k)
          /\ o[j] = "Workload" => CallOf(cr, j)[1] = WorkloadId(k)
      BY <1>1, PartWriteFacts DEF Parts
    <3>3. QED
      BY <3>1, <3>2
  <2>5. Needs(w[1], w[2]) \subseteq D \cup Made(cr, i - 1)
    <3>1. CASE o[i] \in {"ConfigMap", "PVC", "Service"}
      BY <2>3, <3>1
    <3>2. CASE o[i] = "HPA"
      BY <2>1, <2>3, <2>4, <3>2
    <3>3. CASE o[i] = "Workload" /\ k = "ZelosBackplane"
      BY <2>3, <3>3
    <3>4. CASE o[i] = "Workload" /\ k # "ZelosBackplane"
      <4>1. ConfigId(k) \in Made(cr, i - 1)
        BY <2>1, <2>4, <3>4
      <4>2. WorkloadKind(k) = "Deployment" /\ WantsPVC(cr) => ClaimId(k) \in Made(cr, i - 1)
        BY <2>1, <2>4, <3>4
      <4>3. QED
        BY <2>3, <3>4, <4>1, <4>2
    <3>5. QED
      BY <2>1, <3>1, <3>2, <3>3, <3>4 DEF Parts
  <2>6. QED
    BY <2>5 DEF w
<1>3. /\ IsSequence(q) /\ Resolves(q, D)
      /\ Items(q) = {CallOf(cr, i) : i \in {j \in 1..4 : Called(cr, j)}}
      /\ Called(cr, 1) => q[1] = CallOf(cr, 1)
  BY <1>2, CallsInOrder
<1>4. \A p : p \in Rendered(cr) => \E i \in 1..4 : Called(cr, i) /\ o[i] = p
  <2> SUFFICES ASSUME NEW p \in Rendered(cr)
               PROVE  \E i \in 1..4 : Called(cr, i) /\ o[i] = p
    OBVIOUS
  <2>1. PICK i \in DOMAIN o : o[i] = p
    BY DEF Rendered
  <2>2. i \in 1..4
    BY <2>1, OrderFacts
  <2>3. QED
    BY <2>1, <2>2 DEF Called
<1>5. Items(q) = {PartWrite(cr, p) : p \in Rendered(cr)}
  BY <1>1, <1>3, <1>4 DEF Called
<1>6. ASSUME k # "ZelosBackplane"
      PROVE  Before(q, ConfigId(k), WorkloadId(k))
  <2>1. q = <<>> \/ q[1][1] = ConfigId(k)
    <3>1. CASE \E i \in 1..4 : Called(cr, i)
      <4>1. Called(cr, 1) /\ o[1] = "ConfigMap"
        BY <1>6, <3>1, CallOrder
      <4>2. q[1] = PartWrite(cr, "ConfigMap")
        BY <1>1, <1>3, <4>1
      <4>3. QED
        BY <4>2, PartWriteFacts DEF Parts
    <3>2. CASE ~ \E i \in 1..4 : Called(cr, i)
      <4>1. Items(q) = {}
        BY <1>3, <3>2
      <4>2. DOMAIN q = 1..Len(q) /\ Len(q) \in Nat /\ DOMAIN q = {}
        BY <1>3, <4>1, SequenceFacts DEF Items
      <4>3. QED
        BY <1>3, <4>1, <4>2 DEF IsSequence
    <3>3. QED
      BY <3>1, <3>2
  <2>2. QED
    BY <1>3, <2>1, BeforeFirst, IdFacts
<1>7. QED
  BY <1>3, <1>5, <1>6

-----------------------------------------------------------------------------
(* The writes of the umbrella *)

LEMMA CollectorFacts ==
    ASSUME NEW pod, pod = CollectorPod
    PROVE  /\ pod.labels = Labels(CollectorName, "")
           /\ pod.selector = SelectorLabels(CollectorName)
           /\ pod.envFrom = <<CollectorConfigId>>
           /\ pod.claims = {} /\ pod.mounts = <<>>
<1> DEFINE base == PodTemplate("ZelosPlatform")
           l == Labels(CollectorName, "")
           sel == SelectorLabels(CollectorName)
           img == [repository |-> "otel/opentelemetry-collector-contrib", tag |-> "0.110.0"]
           from == <<CollectorConfigId>>
           own == [base EXCEPT !.labels = l, !.selector = sel, !.image = img]
<1>1. /\ DOMAIN base = {"labels", "selector", "image", "pullSecrets", "env", "envFrom",
                        "mounts", "claims"}
      /\ base.mounts = <<>> /\ base.claims = {}
  BY DEF PodTemplate
<1>2. pod = [own EXCEPT !.envFrom = from]
  BY DEF CollectorPod
<1> HIDE DEF base, l, sel, img, from
<1>3. /\ DOMAIN own = DOMAIN base /\ own["labels"] = l /\ own["selector"] = sel
      /\ \A z \in DOMAIN base : z \notin {"labels", "selector", "image"} => own[z] = base[z]
  BY <1>1, ThreeReplaced
<1> HIDE DEF own
<1>4. own.labels = l /\ own.selector = sel /\ own.claims = {} /\ own.mounts = <<>>
  BY <1>1, <1>3
<1>5. /\ pod.labels = l /\ pod.selector = sel /\ pod.claims = {} /\ pod.mounts = <<>>
      /\ pod.envFrom = from
  BY <1>1, <1>2, <1>3, <1>4
<1>6. QED
  BY <1>5 DEF l, sel, from

LEMMA CollectorPass ==
    ASSUME NEW D
    PROVE  IsSequence(CollectorWrites) /\ Resolves(CollectorWrites, D)
<1> DEFINE a == <<CollectorConfigId, <<>>>>
           b == <<<<"Deployment", CollectorName>>, CollectorPod>>
           c == <<<<"Service", CollectorName>>, SelectorLabels(CollectorName)>>
           q == CollectorWrites
<1>1. q = <<a, b, c>>
  BY DEF CollectorWrites
<1>2. /\ a[1] = CollectorConfigId /\ a[1][1] = "ConfigMap"
      /\ b[1][1] = "Deployment" /\ b[2] = CollectorPod /\ c[1][1] = "Service"
  BY DEF CollectorConfigId
<1>3. References(CollectorPod) = {CollectorConfigId}
  <2> DEFINE pod == CollectorPod
  <2>1. pod.claims = {} /\ pod.envFrom = <<CollectorConfigId>>
    BY CollectorFacts
  <2> HIDE DEF pod
  <2>2. References(pod) = {CollectorConfigId}
    BY <2>1 DEF References
  <2>3. QED
    BY <2>2 DEF pod
<1> HIDE DEF a, b, c
<1>4. /\ Needs(a[1], a[2]) = {} /\ Needs(b[1], b[2]) = {a[1]} /\ Needs(c[1], c[2]) = {}
  BY <1>2, <1>3 DEF Needs
<1> HIDE DEF q
<1>5. q[1] = a /\ q[2] = b /\ q[3] = c /\ DOMAIN q = 1..3 /\ q \in Seq({a, b, c})
  BY <1>1
<1>6. Resolves(q, D)
  <2> SUFFICES ASSUME NEW i \in 1..3, NEW x \in Needs(q[i][1], q[i][2])
               PROVE  x \in {q[j][1] : j \in 1..(i - 1)}
    BY <1>5 DEF Resolves
  <2>1. i = 2 /\ x = q[1][1]
    BY <1>4, <1>5
  <2>2. QED
    BY <2>1
<1>7. QED
  BY <1>5, <1>6, AnySequence DEF q

\* The writes q begin with one of object x, depend on nothing but D, and are W.
Begins(q, x, D, W) ==
    IsSequence(q) /\ Len(q) >= 1 /\ q[1][1] = x /\ Resolves(q, D) /\ Items(q) = W

LEMMA BeginsAndGoesOn ==
    ASSUME NEW q, NEW x, NEW D, NEW W, Begins(q, x, D, W), NEW b, IsSequence(b),
           Resolves(b, D)
    PROVE  Begins(q \o b, x, D, W \cup Items(b))
<1>1. /\ IsSequence(q) /\ Len(q) >= 1 /\ q[1][1] = x /\ Resolves(q, D) /\ Items(q) = W
      /\ Len(q) \in Nat /\ Len(b) \in Nat
  BY SequenceFacts DEF Begins
<1>2. Resolves(b, D \cup Ids(q))
  BY ResolvesMore
<1>3. /\ IsSequence(q \o b) /\ Items(q \o b) = W \cup Items(b)
      /\ Len(q \o b) = Len(q) + Len(b) /\ \A i \in 1..Len(q) : (q \o b)[i] = q[i]
      /\ Resolves(q \o b, D)
  BY <1>1, <1>2, Concatenation, ResolvesInTurn
<1>4. (q \o b)[1] = q[1] /\ Len(q \o b) >= 1
  BY <1>1, <1>3
<1>5. QED
  BY <1>1, <1>3, <1>4 DEF Begins

(***************************************************************************)
(* A pass of the umbrella writes the telemetry's ConfigMap, and then what  *)
(* else the spec calls for.                                                *)
(***************************************************************************)
LEMMA PlatformPass ==
    ASSUME NEW s, DOMAIN s.child \subseteq ComponentKinds, NEW D,
           NEW q, q = PlatformWrites(s)
    PROVE  /\ IsSequence(q) /\ Resolves(q, D)
           /\ Items(q) = {w \in Items(q) : UmbrellaWrite(s, w)}
           /\ <<TelemetryEnvId, TelemetryEnv(s)>> \in Items(q)
           /\ \A k \in DOMAIN s.child : <<Resource(k), HandedDown(s, k)>> \in Items(q)
           /\ \A k \in ComponentKinds : Before(q, TelemetryEnvId, Resource(k))
<1> DEFINE tel == <<TelemetryEnvId, TelemetryEnv(s)>>
           col == IF s.telemetry = "collector" THEN CollectorWrites ELSE <<>>
           Res(k) == <<Resource(k), HandedDown(s, k)>>
           Child(k) == IF k \in DOMAIN s.child THEN <<Res(k)>> ELSE <<>>
           W(k) == Items(Child(k))
           x == TelemetryEnvId
           q0 == <<tel>>
           q1 == q0 \o col
           q2 == q1 \o Child("ZelosBackplane")
           q3 == q2 \o Child("ZelosGateway")
           q4 == q3 \o Child("ZelosMCP")
           q5 == q4 \o Child("ZelosBroker")
           q6 == q5 \o Child("ZelosServer")
           q7 == q6 \o Child("ZelosClient")
           W1 == {tel} \cup Items(col)
           W7 == W1 \cup W("ZelosBackplane") \cup W("ZelosGateway") \cup W("ZelosMCP")
                    \cup W("ZelosBroker") \cup W("ZelosServer") \cup W("ZelosClient")
<1>1. q = q7
  BY DEF PlatformWrites
<1>2. tel[1] = x /\ x[1] = "ConfigMap" /\ Needs(tel[1], tel[2]) = {}
  BY DEF TelemetryEnvId, Needs
<1>3. IsSequence(col) /\ Resolves(col, D)
  <2>1. Resolves(<<>>, D)
    BY DEF Resolves
  <2>2. QED
    BY <2>1, CollectorPass, EmptySequence
<1>4. \A k \in ComponentKinds :
         IsSequence(Child(k)) /\ Resolves(Child(k), D)
         /\ W(k) = IF k \in DOMAIN s.child THEN {Res(k)} ELSE {}
  <2> SUFFICES ASSUME NEW k \in ComponentKinds
               PROVE  /\ IsSequence(Child(k)) /\ Resolves(Child(k), D)
                      /\ W(k) = IF k \in DOMAIN s.child THEN {Res(k)} ELSE {}
    OBVIOUS
  <2> DEFINE w == Res(k)
             made == k \in DOMAIN s.child
  <2>1. Needs(w[1], w[2]) = {}
    BY IdFacts, KindFacts DEF Needs, Resource
  <2>2. made \in BOOLEAN /\ Child(k) = IF made THEN <<w>> ELSE <<>>
    OBVIOUS
  <2> HIDE DEF w, made, Child
  <2>3. /\ IsSequence(Child(k)) /\ Resolves(Child(k), D)
        /\ Items(Child(k)) = IF made THEN {w} ELSE {}
    BY <2>1, <2>2, OneCall
  <2>4. QED
    BY <2>3 DEF w, made
<1>5. {"ZelosBackplane", "ZelosGateway", "ZelosMCP", "ZelosBroker", "ZelosServer",
       "ZelosClient"} = ComponentKinds
  BY DEF ComponentKinds
<1> HIDE DEF tel, col, Child, Res, x
<1>6. Begins(q0, x, D, {tel})
  <2>1. IsSequence(q0) /\ Items(q0) = {tel} /\ Resolves(q0, D) /\ Len(q0) = 1 /\ q0[1] = tel
    BY <1>2, Singleton, ResolvesAlone
  <2>2. QED
    BY <1>2, <2>1 DEF Begins
<1>7. Begins(q7, x, D, W7)
  <2> HIDE DEF q0
  <2>1. Begins(q1, x, D, W1)
    BY <1>3, <1>6, BeginsAndGoesOn
  <2> HIDE DEF q1, W1
  <2>2. Begins(q2, x, D, W1 \cup W("ZelosBackplane"))
    BY <1>4, <1>5, <2>1, BeginsAndGoesOn
  <2> HIDE DEF q2
  <2> DEFINE W2 == W1 \cup W("ZelosBackplane")
  <2> HIDE DEF W2
  <2>3. Begins(q3, x, D, W2 \cup W("ZelosGateway"))
    BY <1>4, <1>5, <2>2, BeginsAndGoesOn DEF W2
  <2> HIDE DEF q3
  <2> DEFINE W3 == W2 \cup W("ZelosGateway")
  <2> HIDE DEF W3
  <2>4. Begins(q4, x, D, W3 \cup W("ZelosMCP"))
    BY <1>4, <1>5, <2>3, BeginsAndGoesOn DEF W3
  <2> HIDE DEF q4
  <2> DEFINE W4 == W3 \cup W("ZelosMCP")
  <2> HIDE DEF W4
  <2>5. Begins(q5, x, D, W4 \cup W("ZelosBroker"))
    BY <1>4, <1>5, <2>4, BeginsAndGoesOn DEF W4
  <2> HIDE DEF q5
  <2> DEFINE W5 == W4 \cup W("ZelosBroker")
  <2> HIDE DEF W5
  <2>6. Begins(q6, x, D, W5 \cup W("ZelosServer"))
    BY <1>4, <1>5, <2>5, BeginsAndGoesOn DEF W5
  <2> HIDE DEF q6
  <2> DEFINE W6 == W5 \cup W("ZelosServer")
  <2> HIDE DEF W6
  <2>7. Begins(q7, x, D, W6 \cup W("ZelosClient"))
    BY <1>4, <1>5, <2>6, BeginsAndGoesOn DEF W6
  <2>8. QED
    BY <2>7 DEF W6, W5, W4, W3, W2
<1> HIDE DEF q7
<1>8. IsSequence(q) /\ q[1][1] = x /\ Resolves(q, D) /\ Items(q) = W7
  BY <1>1, <1>7 DEF Begins
<1>9. \A k \in DOMAIN s.child : Res(k) \in Items(q)
  <2> SUFFICES ASSUME NEW k \in DOMAIN s.child PROVE Res(k) \in Items(q)
    OBVIOUS
  <2>1. k \in ComponentKinds /\ Res(k) \in W(k)
    BY <1>4
  <2> HIDE DEF W
  <2>2. QED
    BY <1>5, <1>8, <2>1
<1>10. \A w \in Items(q) : UmbrellaWrite(s, w)
  <2> SUFFICES ASSUME NEW w \in Items(q) PROVE UmbrellaWrite(s, w)
    OBVIOUS
  <2>1. CASE w = tel
    BY <2>1 DEF UmbrellaWrite, tel
  <2>2. CASE w \in Items(col)
    BY <2>2, EmptySequence DEF UmbrellaWrite, col, Items
  <2>3. CASE \E k \in ComponentKinds : w \in W(k)
    <3>1. PICK k \in ComponentKinds : w \in W(k)
      BY <2>3
    <3>2. k \in DOMAIN s.child /\ w = Res(k)
      BY <1>4, <3>1
    <3>3. QED
      BY <3>2 DEF UmbrellaWrite, Res
  <2> HIDE DEF W
  <2>4. QED
    BY <1>5, <1>8, <2>1, <2>2, <2>3
<1>11. \A k \in ComponentKinds : Before(q, x, Resource(k))
  BY <1>8, BeforeFirst, IdFacts DEF x
<1>12. QED
  BY <1>8, <1>9, <1>10, <1>11 DEF tel, Res, x

=============================================================================
