-------------------------- MODULE Rendering_proofs --------------------------
(***************************************************************************)
(* Proofs about Rendering, for every platform, every set of specs and      *)
(* every number of edits: objects refer to objects that exist, selectors   *)
(* are exact, pods start with configuration as new as their template, and  *)
(* what a settled spec promises is what pods are given.                    *)
(***************************************************************************)
EXTENDS RenderingPasses_proofs

Typed ==
    /\ specs \in Seq(PlatformSpecs) /\ specs # <<>>
    /\ DOMAIN pass = Controllers /\ \A c \in Controllers : IsSequence(pass[c])

-----------------------------------------------------------------------------
(* What is written, by whom *)

LEMMA SpecFacts ==
    ASSUME Typed
    PROVE  /\ Len(specs) \in Nat \ {0} /\ DOMAIN specs = 1..Len(specs)
           /\ Len(specs) \in DOMAIN specs
           /\ \A n \in DOMAIN specs : DOMAIN specs[n].child \subseteq ComponentKinds
<1>1. specs \in Seq(PlatformSpecs) /\ specs # <<>>
  BY DEF Typed
<1>2. /\ Len(specs) \in Nat \ {0} /\ DOMAIN specs = 1..Len(specs)
      /\ \A n \in DOMAIN specs : specs[n] \in PlatformSpecs
  BY <1>1
<1>3. QED
  BY <1>2, SpecsAssumption

(***************************************************************************)
(* Each object the umbrella writes is known by its name.                   *)
(***************************************************************************)
LEMMA UmbrellaIds ==
    ASSUME NEW s, DOMAIN s.child \subseteq ComponentKinds, NEW w, UmbrellaWrite(s, w),
           NEW k \in ComponentKinds
    PROVE  /\ w = <<w[1], w[2]>>
           /\ w[1] # ConfigId(k) /\ w[1] # WorkloadId(k)
           /\ w[1] = TelemetryEnvId => w[2] = TelemetryEnv(s)
           /\ w[1] = Resource(k) => k \in DOMAIN s.child /\ w[2] = HandedDown(s, k)
<1>1. /\ Resource(k) # TelemetryEnvId /\ ConfigId(k) # TelemetryEnvId
      /\ WorkloadId(k) # TelemetryEnvId /\ Resource(k)[1] = k
      /\ ConfigId(k)[1] = "ConfigMap" /\ WorkloadId(k)[1] = WorkloadKind(k)
      /\ WorkloadId(k)[2] = RunsAs(k)
  BY IdFacts
<1>2. /\ RunsAs(k) # CollectorName /\ ConfigId(k) # CollectorConfigId
      /\ TelemetryEnvId # CollectorConfigId
  BY NamesAssumption
<1>3. /\ WorkloadKind(k) \in {"Deployment", "StatefulSet", "DaemonSet"}
      /\ k \notin {"Deployment", "StatefulSet", "DaemonSet", "ConfigMap", "Service"}
  BY KindFacts
<1>4. CASE w = <<TelemetryEnvId, TelemetryEnv(s)>>
  BY <1>1, <1>4
<1>5. CASE \E i \in DOMAIN CollectorWrites : w = CollectorWrites[i]
  <2>1. \/ w = <<CollectorConfigId, <<>>>>
        \/ w = <<<<"Deployment", CollectorName>>, CollectorPod>>
        \/ w = <<<<"Service", CollectorName>>, SelectorLabels(CollectorName)>>
    BY <1>5 DEF CollectorWrites
  <2>2. CollectorConfigId[1] = "ConfigMap" /\ TelemetryEnvId[1] = "ConfigMap"
    BY DEF CollectorConfigId, TelemetryEnvId
  <2>3. CASE w = <<CollectorConfigId, <<>>>>
    BY <1>1, <1>2, <1>3, <2>2, <2>3
  <2>4. CASE w = <<<<"Deployment", CollectorName>>, CollectorPod>>
    <3>1. w[1] = <<"Deployment", CollectorName>> /\ w = <<w[1], w[2]>>
      BY <2>4
    <3>2. w[1][1] = "Deployment" /\ w[1][2] = CollectorName
      BY <3>1
    <3>3. QED
      BY <1>1, <1>2, <1>3, <2>2, <3>1, <3>2
  <2>5. CASE w = <<<<"Service", CollectorName>>, SelectorLabels(CollectorName)>>
    <3>1. w[1] = <<"Service", CollectorName>> /\ w = <<w[1], w[2]>>
      BY <2>5
    <3>2. w[1][1] = "Service"
      BY <3>1
    <3>3. QED
      BY <1>1, <1>2, <1>3, <2>2, <3>1, <3>2
  <2>6. QED
    BY <2>1, <2>3, <2>4, <2>5
<1>6. CASE \E l \in DOMAIN s.child : w = <<Resource(l), HandedDown(s, l)>>
  <2>1. PICK l \in DOMAIN s.child : w = <<Resource(l), HandedDown(s, l)>>
    BY <1>6
  <2>2. l \in ComponentKinds /\ w[1] = Resource(l) /\ w[2] = HandedDown(s, l)
    BY <2>1
  <2>3. w[1] # ConfigId(k) /\ w[1] # WorkloadId(k) /\ w[1] # TelemetryEnvId
    BY <2>2, IdFacts
  <2>4. w[1] = Resource(k) => k = l
    BY <2>2, IdFacts
  <2>5. QED
    BY <2>1, <2>2, <2>3, <2>4
<1>7. QED
  BY <1>4, <1>5, <1>6 DEF UmbrellaWrite

(***************************************************************************)
(* So is each object that the controller of component k writes.            *)
(***************************************************************************)
LEMMA ComponentIds ==
    ASSUME NEW s, NEW k \in ComponentKinds, NEW w, ComponentWrite(HandedDown(s, k), w),
           NEW l \in ComponentKinds
    PROVE  /\ w = <<w[1], w[2]>>
           /\ w[1] # Resource(l) /\ w[1] # TelemetryEnvId
           /\ w[1] = ConfigId(l) =>
                 l = k /\ k # "ZelosBackplane" /\ w[2] = ConfigData(HandedDown(s, k))
           /\ w[1] = WorkloadId(l) => l = k /\ w[2] = Workload(HandedDown(s, k))
<1> DEFINE cr == HandedDown(s, k)
<1>1. cr.kind = k
  BY HandedDownKind
<1>2. PICK p \in Rendered(cr) : w = PartWrite(cr, p)
  BY DEF ComponentWrite
<1> HIDE DEF cr
<1>3. p \in Parts
  BY <1>1, <1>2, RenderedParts
<1>4. /\ w = <<w[1], w[2]>> /\ w[1] # Resource(l) /\ w[1] # TelemetryEnvId
      /\ w[1] = ConfigId(l) => p = "ConfigMap" /\ l = k
      /\ w[1] = WorkloadId(l) => p = "Workload" /\ l = k
  BY <1>1, <1>2, <1>3, PartIds
<1>5. /\ p = "ConfigMap" => w = <<ConfigId(k), ConfigData(cr)>>
      /\ p = "Workload" => w = <<WorkloadId(k), Workload(cr)>>
  BY <1>1, <1>2, <1>3, PartWriteFacts
<1>6. k = "ZelosBackplane" => p # "ConfigMap"
  <2> SUFFICES ASSUME k = "ZelosBackplane" PROVE p # "ConfigMap"
    OBVIOUS
  <2>1. ReconcileOrder(cr.kind) = BackplaneOrder
    BY <1>1 DEF ReconcileOrder
  <2>2. PICK i \in DOMAIN BackplaneOrder : p = BackplaneOrder[i]
    BY <1>2, <2>1 DEF Rendered
  <2>3. QED
    BY <2>2 DEF BackplaneOrder
<1>7. QED
  BY <1>4, <1>5, <1>6 DEF cr

-----------------------------------------------------------------------------
(* What a step leaves alone *)

\* Object x is the same after the step; every spec there was still is there.
Held(x) ==
    /\ x \in DOMAIN objs' <=> x \in DOMAIN objs
    /\ x \in DOMAIN objs => objs'[x] = objs[x]
SpecsHeld ==
    /\ Len(specs) \in Nat /\ DOMAIN specs = 1..Len(specs)
    /\ Len(specs') \in Nat /\ DOMAIN specs' = 1..Len(specs')
    /\ Len(specs) <= Len(specs')
    /\ \A n \in DOMAIN specs : specs'[n] = specs[n]

LEMMA VersionsHeld ==
    ASSUME SpecsHeld, NEW k, NEW n \in DOMAIN specs
    PROVE  n \in DOMAIN specs' /\ (Wanted(k, n)' <=> Wanted(k, n)) /\ Handed(k, n)' = Handed(k, n)
<1>1. n \in DOMAIN specs' /\ specs'[n] = specs[n]
  BY DEF SpecsHeld
<1>2. Wanted(k, n)' <=> Wanted(k, n)
  BY <1>1 DEF Wanted
<1>3. Handed(k, n)' = Handed(k, n)
  BY <1>1 DEF Handed
<1>4. QED
  BY <1>1, <1>2, <1>3

LEMMA ResourceHeld ==
    ASSUME SpecsHeld, NEW k, NEW c \in DOMAIN specs, ResourceAt(k, c), Held(Resource(k)),
           DOMAIN objs \subseteq DOMAIN objs'
    PROVE  ResourceAt(k, c)'
<1>1. (Wanted(k, c)' <=> Wanted(k, c)) /\ Handed(k, c)' = Handed(k, c)
  BY VersionsHeld
<1>2. Resource(k)' = Resource(k) /\ TelemetryEnvId' = TelemetryEnvId
  BY DEF Resource, TelemetryEnvId
<1>3. QED
  BY <1>1, <1>2 DEF ResourceAt, Held

LEMMA ConfigHeld ==
    ASSUME SpecsHeld, NEW k, NEW f \in DOMAIN specs, ConfigAt(k, f), Held(ConfigId(k))
    PROVE  ConfigAt(k, f)'
<1>1. (Wanted(k, f)' <=> Wanted(k, f)) /\ Handed(k, f)' = Handed(k, f)
  BY VersionsHeld
<1>2. QED
  BY <1>1 DEF ConfigAt, Held

LEMMA WorkloadHeld ==
    ASSUME SpecsHeld, NEW k, NEW w \in DOMAIN specs, WorkloadAt(k, w), Held(WorkloadId(k))
    PROVE  WorkloadAt(k, w)'
<1>1. (Wanted(k, w)' <=> Wanted(k, w)) /\ Handed(k, w)' = Handed(k, w)
  BY VersionsHeld
<1>2. QED
  BY <1>1 DEF WorkloadAt, Held

LEMMA PassHeld ==
    ASSUME SpecsHeld, NEW k, NEW p \in DOMAIN specs, PassAt(k, p),
           Items(pass'[k]) \subseteq Items(pass[k])
    PROVE  PassAt(k, p)'
<1>1. (Wanted(k, p)' <=> Wanted(k, p)) /\ Handed(k, p)' = Handed(k, p)
  BY VersionsHeld
<1>2. \A w \in Items(pass[k]) : Wanted(k, p) /\ ComponentWrite(Handed(k, p), w)
  BY DEF PassAt, Items
<1>3. \A i \in DOMAIN pass'[k] : pass'[k][i] \in Items(pass[k])
  BY DEF Items
<1>4. QED
  BY <1>1, <1>2, <1>3 DEF PassAt

LEMMA PodHeld ==
    ASSUME SpecsHeld, NEW k, NEW s \in DOMAIN specs, PodAt(k, s),
           DOMAIN objs \subseteq DOMAIN objs',
           WorkloadId(k) \in DOMAIN pods' <=> WorkloadId(k) \in DOMAIN pods,
           WorkloadId(k) \in DOMAIN pods => pods'[WorkloadId(k)] = pods[WorkloadId(k)]
    PROVE  PodAt(k, s)'
<1> DEFINE id == WorkloadId(k)
<1> SUFFICES ASSUME id \in DOMAIN pods
             PROVE  PodAt(k, s)'
  BY DEF PodAt
<1>1. (Wanted(k, s)' <=> Wanted(k, s)) /\ Handed(k, s)' = Handed(k, s)
  BY VersionsHeld
<1>2. PICK m \in s..Len(specs), n \in s..Len(specs) :
         /\ Wanted(k, m)
         /\ pods[id].env = Environment(pods[id].template.env, TelemetryEnv(specs[n]),
                                       ConfigData(Handed(k, m)))
  BY DEF PodAt
<1>3. m \in DOMAIN specs /\ n \in DOMAIN specs /\ m \in s..Len(specs') /\ n \in s..Len(specs')
  BY <1>2 DEF SpecsHeld
<1>4. Wanted(k, m)' /\ Handed(k, m)' = Handed(k, m) /\ specs'[n] = specs[n]
  BY <1>2, <1>3, VersionsHeld DEF SpecsHeld
<1>5. pods'[id].env = Environment(pods'[id].template.env, TelemetryEnv(specs'[n]),
                                  ConfigData(Handed(k, m)'))
  BY <1>2, <1>4
<1>6. /\ k # "ZelosBackplane" /\ id \in DOMAIN objs /\ Wanted(k, s)
      /\ pods[id].template = Workload(Handed(k, s))
  BY DEF PodAt
<1>7. QED
  BY <1>1, <1>3, <1>4, <1>5, <1>6 DEF PodAt

(***************************************************************************)
(* A step that leaves the objects, the pass and the pods of component k    *)
(* alone leaves it where it was.                                           *)
(***************************************************************************)
LEMMA ComponentHeld ==
    ASSUME SpecsHeld, NEW k, NEW t, NEW c \in DOMAIN specs, NEW p \in DOMAIN specs,
           NEW f \in DOMAIN specs, NEW w \in DOMAIN specs, NEW s \in DOMAIN specs,
           ComponentAt(k, t, c, p, f, w, s), NEW t2 \in DOMAIN specs', t \in DOMAIN specs,
           t <= t2, DOMAIN objs \subseteq DOMAIN objs',
           Held(Resource(k)), Held(ConfigId(k)), Held(WorkloadId(k)),
           pass'[k] = pass[k],
           WorkloadId(k) \in DOMAIN pods' <=> WorkloadId(k) \in DOMAIN pods,
           WorkloadId(k) \in DOMAIN pods => pods'[WorkloadId(k)] = pods[WorkloadId(k)]
    PROVE  ComponentAt(k, t2, c, p, f, w, s)'
<1>1. /\ s <= w /\ w <= f /\ f <= p /\ p <= c /\ c <= t
      /\ ResourceAt(k, c) /\ PassAt(k, p) /\ ConfigAt(k, f) /\ ConfigFirst(k, f, p)
      /\ WorkloadAt(k, w) /\ PodAt(k, s)
  BY DEF ComponentAt
<1>2. c <= t2
  BY <1>1 DEF SpecsHeld
<1>3. ResourceAt(k, c)'
  BY <1>1, ResourceHeld
<1>4. PassAt(k, p)'
  BY <1>1, PassHeld
<1>5. ConfigAt(k, f)'
  BY <1>1, ConfigHeld
<1>6. ConfigFirst(k, f, p)'
  BY <1>1 DEF ConfigFirst, Held
<1>7. WorkloadAt(k, w)'
  BY <1>1, WorkloadHeld
<1>8. PodAt(k, s)'
  BY <1>1, PodHeld
<1>9. QED
  BY <1>1, <1>2, <1>3, <1>4, <1>5, <1>6, <1>7, <1>8 DEF ComponentAt

LEMMA UmbrellaHeld ==
    ASSUME SpecsHeld, NEW t \in DOMAIN specs, NEW u \in DOMAIN specs, UmbrellaAt(t, u),
           Held(TelemetryEnvId), pass'["ZelosPlatform"] = pass["ZelosPlatform"]
    PROVE  UmbrellaAt(t, u)'
<1>1. specs'[t] = specs[t] /\ specs'[u] = specs[u]
  BY DEF SpecsHeld
<1>2. QED
  BY <1>1 DEF UmbrellaAt, Held

\* Component k follows the telemetry of spec t.
Follows(k, t) == \E c, p, f, w, s \in DOMAIN specs : ComponentAt(k, t, c, p, f, w, s)

LEMMA FollowsHeld ==
    ASSUME SpecsHeld, NEW k, NEW t \in DOMAIN specs, Follows(k, t),
           NEW t2 \in DOMAIN specs', t <= t2, DOMAIN objs \subseteq DOMAIN objs',
           Held(Resource(k)), Held(ConfigId(k)), Held(WorkloadId(k)),
           pass'[k] = pass[k],
           WorkloadId(k) \in DOMAIN pods' <=> WorkloadId(k) \in DOMAIN pods,
           WorkloadId(k) \in DOMAIN pods => pods'[WorkloadId(k)] = pods[WorkloadId(k)]
    PROVE  Follows(k, t2)'
<1>1. PICK c \in DOMAIN specs, p \in DOMAIN specs, f \in DOMAIN specs, w \in DOMAIN specs,
           s \in DOMAIN specs : ComponentAt(k, t, c, p, f, w, s)
  BY DEF Follows
<1>2. ComponentAt(k, t2, c, p, f, w, s)'
  BY <1>1, ComponentHeld
<1>3. DOMAIN specs \subseteq DOMAIN specs'
  BY DEF SpecsHeld
<1>4. QED
  BY <1>2, <1>3 DEF Follows

LEMMA ChainIs ==
    Chain <=> \E u \in DOMAIN specs : \E t \in DOMAIN specs :
                 UmbrellaAt(t, u) /\ \A k \in ComponentKinds : Follows(k, t)
BY DEF Chain, Follows

LEMMA KnownHeld ==
    ASSUME SpecsHeld, ObjectsKnown, objs' = objs,
           \A c \in Controllers : Resolves(pass'[c], DOMAIN objs)
    PROVE  ObjectsKnown'
<1>1. ASSUME NEW id \in DOMAIN objs
      PROVE  /\ Admitted(<<id, objs[id]>>)
             /\ Needs(id, objs[id]) \subseteq DOMAIN objs
             /\ \E n \in DOMAIN specs' :
                   \/ UmbrellaWrite(specs'[n], <<id, objs[id]>>)
                   \/ \E k \in DOMAIN specs'[n].child :
                         ComponentWrite(HandedDown(specs'[n], k), <<id, objs[id]>>)
  <2>1. /\ Admitted(<<id, objs[id]>>)
        /\ Needs(id, objs[id]) \subseteq DOMAIN objs
    BY DEF ObjectsKnown
  <2>2. PICK n \in DOMAIN specs :
           \/ UmbrellaWrite(specs[n], <<id, objs[id]>>)
           \/ \E k \in DOMAIN specs[n].child :
                 ComponentWrite(HandedDown(specs[n], k), <<id, objs[id]>>)
    BY DEF ObjectsKnown
  <2>3. n \in DOMAIN specs' /\ specs'[n] = specs[n]
    BY DEF SpecsHeld
  <2>4. QED
    BY <2>1, <2>2, <2>3
<1>2. QED
  BY <1>1 DEF ObjectsKnown

LEMMA InductiveIs == Inductive <=> Typed /\ ObjectsKnown /\ Chain
BY DEF Inductive, Typed

-----------------------------------------------------------------------------
(* A pass begins *)

LEMMA PlatformBegins ==
    ASSUME Inductive, Begin("ZelosPlatform")
    PROVE  Inductive'
<1> DEFINE P == "ZelosPlatform"
           q == PlatformWrites(Newest)
<1>1. Typed /\ ObjectsKnown /\ Chain
  BY InductiveIs
<1>2. /\ pass' = [pass EXCEPT ![P] = q]
      /\ specs' = specs /\ objs' = objs /\ pods' = pods
  BY DEF Begin, Writes
<1>3. /\ DOMAIN pass = Controllers /\ P \in Controllers
      /\ \A c \in Controllers : IsSequence(pass[c])
      /\ specs \in Seq(PlatformSpecs) /\ specs # <<>>
  BY <1>1 DEF Typed, Controllers
<1>4. PICK n \in DOMAIN specs :
         /\ n = Len(specs) /\ n \in Nat \ {0} /\ DOMAIN specs = 1..n
         /\ DOMAIN specs[n].child \subseteq ComponentKinds
  BY <1>1, SpecFacts
<1>5. q = PlatformWrites(specs[n])
  BY <1>4 DEF Newest
<1> HIDE DEF q
<1>6. DOMAIN pass' = Controllers /\ pass'[P] = q /\ \A c \in Controllers \ {P} : pass'[c] = pass[c]
  BY <1>2, <1>3
<1>7. /\ IsSequence(q) /\ Resolves(q, DOMAIN objs)
      /\ Items(q) = {w \in Items(q) : UmbrellaWrite(specs[n], w)}
      /\ \A k \in ComponentKinds : Before(q, TelemetryEnvId, Resource(k))
  BY <1>4, <1>5, PlatformPass
<1>8. SpecsHeld
  BY <1>2, <1>4 DEF SpecsHeld
<1>9. Typed'
  BY <1>2, <1>3, <1>6, <1>7 DEF Typed
<1>10. ObjectsKnown'
  <2>1. \A c \in Controllers : Resolves(pass[c], DOMAIN objs)
    BY <1>1 DEF ObjectsKnown
  <2>2. \A c \in Controllers : Resolves(pass'[c], DOMAIN objs)
    BY <1>6, <1>7, <2>1
  <2>3. QED
    BY <1>1, <1>2, <1>8, <2>2, KnownHeld
<1>11. Chain'
  <2>1. PICK u \in DOMAIN specs, t \in DOMAIN specs :
           UmbrellaAt(t, u) /\ \A k \in ComponentKinds : Follows(k, t)
    BY <1>1, ChainIs
  <2>2. UmbrellaAt(t, n)'
    <3>1. t <= n
      BY <1>4
    <3>2. TelemetryEnvId \in DOMAIN objs => objs[TelemetryEnvId] = TelemetryEnv(specs[t])
      BY <2>1 DEF UmbrellaAt
    <3>3. \A i \in DOMAIN q : UmbrellaWrite(specs[n], q[i])
      BY <1>7 DEF Items
    <3>4. QED
      BY <1>2, <1>6, <1>7, <3>1, <3>2, <3>3 DEF UmbrellaAt
  <2>3. ASSUME NEW k \in ComponentKinds PROVE Follows(k, t)'
    <3>1. pass'[k] = pass[k]
      BY <1>6, KindFacts
    <3>2. Held(Resource(k)) /\ Held(ConfigId(k)) /\ Held(WorkloadId(k))
      BY <1>2 DEF Held
    <3>3. QED
      BY <1>2, <1>4, <1>8, <2>1, <3>1, <3>2, FollowsHeld
  <2>4. n \in DOMAIN specs' /\ t \in DOMAIN specs'
    BY <1>2, <1>4
  <2>5. (\E u1 \in DOMAIN specs : \E t1 \in DOMAIN specs :
            UmbrellaAt(t1, u1) /\ \A k \in ComponentKinds : Follows(k, t1))'
    BY <2>2, <2>3, <2>4
  <2>6. QED
    BY <2>5 DEF Chain, Follows
<1>12. QED
  BY <1>9, <1>10, <1>11 DEF Inductive, Typed

LEMMA ComponentBegins ==
    ASSUME Inductive, NEW k \in ComponentKinds, Begin(k)
    PROVE  Inductive'
<1> DEFINE q == Writes(k)
<1>1. Typed /\ ObjectsKnown /\ Chain
  BY InductiveIs
<1>2. /\ pass' = [pass EXCEPT ![k] = q] /\ ~UpToDate(k)
      /\ specs' = specs /\ objs' = objs /\ pods' = pods
  BY DEF Begin
<1>3. /\ DOMAIN pass = Controllers /\ k \in Controllers /\ k # "ZelosPlatform"
      /\ \A c \in Controllers : IsSequence(pass[c])
      /\ specs \in Seq(PlatformSpecs) /\ specs # <<>>
  BY <1>1, KindFacts DEF Typed
<1>4. Resource(k) \in DOMAIN objs /\ q = ComponentWrites(objs[Resource(k)])
  <2>1. q # <<>>
    BY <1>2 DEF UpToDate
  <2>2. QED
    BY <1>3, <2>1 DEF Writes
<1> HIDE DEF q
<1>5. /\ DOMAIN pass' = Controllers /\ pass'[k] = q
      /\ \A c \in Controllers \ {k} : pass'[c] = pass[c]
  BY <1>2, <1>3
<1>6. SpecsHeld
  BY <1>1, <1>2, SpecFacts DEF SpecsHeld
<1>7. PICK u \in DOMAIN specs, t \in DOMAIN specs :
         UmbrellaAt(t, u) /\ \A l \in ComponentKinds : Follows(l, t)
  BY <1>1, ChainIs
<1>8. PICK c \in DOMAIN specs, p \in DOMAIN specs, f \in DOMAIN specs, w \in DOMAIN specs,
           s \in DOMAIN specs : ComponentAt(k, t, c, p, f, w, s)
  BY <1>7 DEF Follows
<1>9. /\ s <= w /\ w <= f /\ f <= p /\ p <= c /\ c <= t
      /\ ResourceAt(k, c) /\ ConfigAt(k, f) /\ WorkloadAt(k, w) /\ PodAt(k, s)
  BY <1>8 DEF ComponentAt
<1>10. /\ TelemetryEnvId \in DOMAIN objs /\ Wanted(k, c)
       /\ objs[Resource(k)] = Handed(k, c)
  BY <1>4, <1>9 DEF ResourceAt
<1>11. Handed(k, c).kind = k /\ (Handed(k, c).persistence = "on" => KeepsState(k))
  BY HandedDownKind DEF Handed
<1>12. /\ IsSequence(q) /\ Resolves(q, DOMAIN objs)
       /\ Items(q) = {PartWrite(Handed(k, c), x) : x \in Rendered(Handed(k, c))}
       /\ k # "ZelosBackplane" => Before(q, ConfigId(k), WorkloadId(k))
  BY <1>4, <1>10, <1>11, ComponentPass
<1>13. Typed'
  BY <1>2, <1>3, <1>5, <1>12 DEF Typed
<1>14. ObjectsKnown'
  <2>1. \A x \in Controllers : Resolves(pass[x], DOMAIN objs)
    BY <1>1 DEF ObjectsKnown
  <2>2. \A x \in Controllers : Resolves(pass'[x], DOMAIN objs)
    BY <1>5, <1>12, <2>1
  <2>3. QED
    BY <1>1, <1>2, <1>6, <2>2, KnownHeld
<1>15. ComponentAt(k, t, c, c, f, w, s)'
  <2>1. \A i \in DOMAIN q : Wanted(k, c) /\ ComponentWrite(Handed(k, c), q[i])
    <3>1. \A i \in DOMAIN q : q[i] \in Items(q)
      BY DEF Items
    <3>2. QED
      BY <1>10, <1>12, <3>1 DEF ComponentWrite
  <2>2. PassAt(k, c)'
    BY <1>2, <1>5, <2>1 DEF PassAt, Wanted, Handed
  <2>3. ConfigFirst(k, f, c)'
    BY <1>5, <1>12 DEF ConfigFirst
  <2>4. ResourceAt(k, c)' /\ ConfigAt(k, f)' /\ WorkloadAt(k, w)' /\ PodAt(k, s)'
    <3>1. Held(Resource(k)) /\ Held(ConfigId(k)) /\ Held(WorkloadId(k))
      BY <1>2 DEF Held
    <3>2. QED
      BY <1>2, <1>6, <1>9, <3>1, ResourceHeld, ConfigHeld, WorkloadHeld, PodHeld
  <2>5. f <= c /\ c <= c /\ c <= t
    BY <1>6, <1>9 DEF SpecsHeld
  <2>6. QED
    BY <1>9, <2>2, <2>3, <2>4, <2>5 DEF ComponentAt
<1>16. Chain'
  <2>1. UmbrellaAt(t, u)'
    <3>1. Held(TelemetryEnvId) /\ pass'["ZelosPlatform"] = pass["ZelosPlatform"]
      BY <1>2, <1>3, <1>5 DEF Held, Controllers
    <3>2. QED
      BY <1>6, <1>7, <3>1, UmbrellaHeld
  <2>2. ASSUME NEW l \in ComponentKinds PROVE Follows(l, t)'
    <3>1. CASE l = k
      BY <1>2, <1>15, <3>1 DEF Follows
    <3>2. CASE l # k
      <4>1. pass'[l] = pass[l]
        BY <1>5, <3>2, KindFacts
      <4>2. Held(Resource(l)) /\ Held(ConfigId(l)) /\ Held(WorkloadId(l)) /\ t <= t
        BY <1>2, <1>6 DEF Held, SpecsHeld
      <4>3. QED
        BY <1>2, <1>6, <1>7, <4>1, <4>2, FollowsHeld
    <3>3. QED
      BY <3>1, <3>2
  <2>3. (\E u1 \in DOMAIN specs : \E t1 \in DOMAIN specs :
            UmbrellaAt(t1, u1) /\ \A l \in ComponentKinds : Follows(l, t1))'
    BY <1>2, <2>1, <2>2
  <2>4. QED
    BY <2>3 DEF Chain, Follows
<1>17. QED
  BY <1>13, <1>14, <1>16 DEF Inductive, Typed

-----------------------------------------------------------------------------
(* A write is applied *)

LEMMA ApplyFacts ==
    ASSUME Typed, NEW c \in Controllers, Apply(c), NEW w, w = Head(pass[c])
    PROVE  /\ specs' = specs /\ pods' = pods /\ SpecsHeld /\ Typed'
           /\ \A d \in Controllers \ {c} : pass'[d] = pass[d]
           /\ IsSequence(pass[c]) /\ pass[c] # <<>> /\ w \in Items(pass[c])
           /\ Items(pass'[c]) \subseteq Items(pass[c])
           /\ DOMAIN objs \subseteq DOMAIN objs'
           /\ \A x : x # w[1] => Held(x)
           /\ \/ objs' = objs /\ pass'[c] = <<>>
              \/ /\ Admitted(w) /\ pass'[c] = Tail(pass[c])
                 /\ DOMAIN objs' = DOMAIN objs \cup {w[1]} /\ objs'[w[1]] = w[2]
<1>1. /\ pass[c] # <<>> /\ specs' = specs /\ pods' = pods
      /\ \/ /\ Admitted(w) /\ objs' = Over(Only(w[1], w[2]), objs)
            /\ pass' = [pass EXCEPT ![c] = Tail(pass[c])]
         \/ objs' = objs /\ pass' = [pass EXCEPT ![c] = <<>>]
  BY DEF Apply
<1>2. /\ DOMAIN pass = Controllers /\ \A d \in Controllers : IsSequence(pass[d])
      /\ specs \in Seq(PlatformSpecs) /\ specs # <<>>
  BY DEF Typed
<1>3. /\ IsSequence(Tail(pass[c])) /\ Items(Tail(pass[c])) \subseteq Items(pass[c])
      /\ w \in Items(pass[c])
  BY <1>1, <1>2, TailFacts DEF Items
<1>4. SpecsHeld
  BY <1>1, SpecFacts DEF SpecsHeld
<1>5. CASE objs' = objs /\ pass' = [pass EXCEPT ![c] = <<>>]
  <2>1. /\ DOMAIN pass' = Controllers /\ pass'[c] = <<>>
        /\ \A d \in Controllers \ {c} : pass'[d] = pass[d]
    BY <1>2, <1>5
  <2>2. IsSequence(pass'[c]) /\ Items(pass'[c]) = {}
    BY <2>1, EmptySequence
  <2>3. Typed'
    BY <1>1, <1>2, <2>1, <2>2 DEF Typed
  <2>4. \A x : Held(x)
    BY <1>5 DEF Held
  <2>5. QED
    BY <1>1, <1>2, <1>3, <1>4, <1>5, <2>1, <2>2, <2>3, <2>4
<1>6. CASE /\ Admitted(w) /\ objs' = Over(Only(w[1], w[2]), objs)
           /\ pass' = [pass EXCEPT ![c] = Tail(pass[c])]
  <2>1. /\ DOMAIN pass' = Controllers /\ pass'[c] = Tail(pass[c])
        /\ \A d \in Controllers \ {c} : pass'[d] = pass[d]
    BY <1>2, <1>6
  <2>2. Typed'
    BY <1>1, <1>2, <1>3, <2>1 DEF Typed
  <2>3. /\ DOMAIN objs' = DOMAIN objs \cup {w[1]} /\ objs'[w[1]] = w[2]
        /\ \A x \in DOMAIN objs : x # w[1] => objs'[x] = objs[x]
    <3>1. PICK x, y, f, g : x = w[1] /\ y = w[2] /\ f = objs /\ g = objs'
      OBVIOUS
    <3>2. g = Over(Only(x, y), f)
      BY <1>6, <3>1
    <3>3. DOMAIN g = DOMAIN f \cup {x} /\ g[x] = y
      BY <3>2, OneReplaced
    <3>4. ASSUME NEW z \in DOMAIN f, z # x PROVE g[z] = f[z]
      BY <3>2, <3>4, OthersKept
    <3>5. QED
      BY <3>1, <3>3, <3>4
  <2>4. \A x : x # w[1] => Held(x)
    BY <2>3 DEF Held
  <2>5. QED
    BY <1>1, <1>2, <1>3, <1>4, <1>6, <2>1, <2>2, <2>3, <2>4
<1>7. QED
  BY <1>1, <1>5, <1>6

(***************************************************************************)
(* The objects are known after a write of what spec n says.                *)
(***************************************************************************)
LEMMA ApplyKnown ==
    ASSUME Typed, ObjectsKnown, NEW c \in Controllers, Apply(c),
           NEW w, w = Head(pass[c]), w = <<w[1], w[2]>>, NEW n \in DOMAIN specs,
           \/ UmbrellaWrite(specs[n], w)
           \/ \E k \in DOMAIN specs[n].child : ComponentWrite(HandedDown(specs[n], k), w)
    PROVE  ObjectsKnown'
<1>1. /\ specs' = specs /\ SpecsHeld /\ IsSequence(pass[c]) /\ pass[c] # <<>>
      /\ \A d \in Controllers \ {c} : pass'[d] = pass[d]
      /\ DOMAIN objs \subseteq DOMAIN objs' /\ \A x : x # w[1] => Held(x)
      /\ \/ objs' = objs /\ pass'[c] = <<>>
         \/ /\ Admitted(w) /\ pass'[c] = Tail(pass[c])
            /\ DOMAIN objs' = DOMAIN objs \cup {w[1]} /\ objs'[w[1]] = w[2]
  BY ApplyFacts
<1>2. \A d \in Controllers : Resolves(pass[d], DOMAIN objs)
  BY DEF ObjectsKnown
<1>3. CASE objs' = objs /\ pass'[c] = <<>>
  <2>1. Resolves(<<>>, DOMAIN objs)
    BY DEF Resolves
  <2>2. \A d \in Controllers : Resolves(pass'[d], DOMAIN objs)
    BY <1>1, <1>2, <1>3, <2>1
  <2>3. QED
    BY <1>1, <1>3, <2>2, KnownHeld
<1>4. CASE /\ Admitted(w) /\ pass'[c] = Tail(pass[c])
           /\ DOMAIN objs' = DOMAIN objs \cup {w[1]} /\ objs'[w[1]] = w[2]
  <2>1. /\ Resolves(Tail(pass[c]), DOMAIN objs')
        /\ Needs(w[1], w[2]) \subseteq DOMAIN objs
    BY <1>1, <1>2, <1>4, ResolvesNext
  <2>2. ASSUME NEW d \in Controllers PROVE Resolves(pass'[d], DOMAIN objs')
    BY <1>1, <1>2, <1>4, <2>1, ResolvesMore
  <2>3. ASSUME NEW id \in DOMAIN objs'
        PROVE  /\ Admitted(<<id, objs'[id]>>)
               /\ Needs(id, objs'[id]) \subseteq DOMAIN objs'
               /\ \E m \in DOMAIN specs :
                     \/ UmbrellaWrite(specs[m], <<id, objs'[id]>>)
                     \/ \E k \in DOMAIN specs[m].child :
                           ComponentWrite(HandedDown(specs[m], k), <<id, objs'[id]>>)
    <3>1. CASE id = w[1]
      <4>1. <<id, objs'[id]>> = w
        BY <1>4, <3>1
      <4>2. QED
        BY <1>4, <2>1, <3>1, <4>1
    <3>2. CASE id # w[1]
      <4>1. id \in DOMAIN objs /\ objs'[id] = objs[id]
        BY <1>1, <1>4, <3>2 DEF Held
      <4>2. /\ Admitted(<<id, objs[id]>>) /\ Needs(id, objs[id]) \subseteq DOMAIN objs
            /\ \E m \in DOMAIN specs :
                  \/ UmbrellaWrite(specs[m], <<id, objs[id]>>)
                  \/ \E k \in DOMAIN specs[m].child :
                        ComponentWrite(HandedDown(specs[m], k), <<id, objs[id]>>)
        BY <4>1 DEF ObjectsKnown
      <4>3. QED
        BY <1>1, <4>1, <4>2
    <3>3. QED
      BY <3>1, <3>2
  <2>4. QED
    BY <1>1, <2>2, <2>3 DEF ObjectsKnown
<1>5. QED
  BY <1>1, <1>3, <1>4

LEMMA PlatformApplies ==
    ASSUME Inductive, Apply("ZelosPlatform")
    PROVE  Inductive'
<1> DEFINE P == "ZelosPlatform"
<1>1. Typed /\ ObjectsKnown /\ Chain /\ P \in Controllers
  BY InductiveIs DEF Controllers
<1>2. PICK w : w = Head(pass[P])
  OBVIOUS
<1>3. PICK u \in DOMAIN specs, t \in DOMAIN specs :
         UmbrellaAt(t, u) /\ \A l \in ComponentKinds : Follows(l, t)
  BY <1>1, ChainIs
<1>4. /\ specs' = specs /\ pods' = pods /\ SpecsHeld /\ Typed'
      /\ \A d \in Controllers \ {P} : pass'[d] = pass[d]
      /\ IsSequence(pass[P]) /\ pass[P] # <<>> /\ w \in Items(pass[P])
      /\ Items(pass'[P]) \subseteq Items(pass[P])
      /\ DOMAIN objs \subseteq DOMAIN objs'
      /\ \A x : x # w[1] => Held(x)
      /\ \/ objs' = objs /\ pass'[P] = <<>>
         \/ /\ Admitted(w) /\ pass'[P] = Tail(pass[P])
            /\ DOMAIN objs' = DOMAIN objs \cup {w[1]} /\ objs'[w[1]] = w[2]
  BY <1>1, <1>2, ApplyFacts
<1>5. DOMAIN specs[u].child \subseteq ComponentKinds
  BY <1>1, SpecFacts
<1>6. /\ t <= u
      /\ TelemetryEnvId \in DOMAIN objs => objs[TelemetryEnvId] = TelemetryEnv(specs[t])
      /\ \A x \in Items(pass[P]) : UmbrellaWrite(specs[u], x)
      /\ \/ t = u /\ TelemetryEnvId \in DOMAIN objs
         \/ \A k \in ComponentKinds : Before(pass[P], TelemetryEnvId, Resource(k))
  BY <1>3 DEF UmbrellaAt, Items
<1>7. UmbrellaWrite(specs[u], w)
  BY <1>4, <1>6
<1>8. \A k \in ComponentKinds :
         /\ w = <<w[1], w[2]>>
         /\ w[1] # ConfigId(k) /\ w[1] # WorkloadId(k)
         /\ w[1] = TelemetryEnvId => w[2] = TelemetryEnv(specs[u])
         /\ w[1] = Resource(k) => k \in DOMAIN specs[u].child /\ w[2] = HandedDown(specs[u], k)
  BY <1>5, <1>7, UmbrellaIds
<1>9. w = <<w[1], w[2]>> /\ (w[1] = TelemetryEnvId => w[2] = TelemetryEnv(specs[u]))
  <2>1. "ZelosMCP" \in ComponentKinds
    BY DEF ComponentKinds
  <2>2. QED
    BY <1>8, <2>1
<1>10. ObjectsKnown'
  BY <1>1, <1>2, <1>7, <1>9, ApplyKnown
<1>11. \A i \in DOMAIN pass'[P] : UmbrellaWrite(specs[u], pass'[P][i])
  BY <1>4, <1>6 DEF Items
<1>12. \A k \in ComponentKinds : pass'[k] = pass[k]
  BY <1>4, KindFacts
<1>13. ASSUME NEW t2 \in DOMAIN specs, t <= t2, NEW k \in ComponentKinds, w[1] # Resource(k)
       PROVE  Follows(k, t2)'
  <2>1. Held(Resource(k)) /\ Held(ConfigId(k)) /\ Held(WorkloadId(k))
    BY <1>4, <1>8, <1>13
  <2>2. QED
    BY <1>3, <1>4, <1>12, <1>13, <2>1, FollowsHeld
<1>14. \E t2 \in DOMAIN specs : UmbrellaAt(t2, u)' /\ \A k \in ComponentKinds : Follows(k, t2)'
  <2>1. CASE objs' = objs /\ pass'[P] = <<>>
    <3>1. UmbrellaAt(t, u)'
      BY <1>4, <1>6, <1>11, <2>1 DEF UmbrellaAt, Before
    <3>2. \A k \in ComponentKinds : Follows(k, t)'
      <4> SUFFICES ASSUME NEW k \in ComponentKinds PROVE Follows(k, t)'
        OBVIOUS
      <4>1. Held(Resource(k)) /\ Held(ConfigId(k)) /\ Held(WorkloadId(k)) /\ t <= t
        BY <1>4, <2>1 DEF Held, SpecsHeld
      <4>2. QED
        BY <1>3, <1>4, <1>12, <4>1, FollowsHeld
    <3>3. QED
      BY <3>1, <3>2
  <2>2. CASE /\ w[1] = TelemetryEnvId /\ DOMAIN objs' = DOMAIN objs \cup {w[1]}
             /\ objs'[w[1]] = w[2]
    <3>1. UmbrellaAt(u, u)'
      <4>1. u <= u /\ TelemetryEnvId' = TelemetryEnvId
        BY <1>4 DEF SpecsHeld, TelemetryEnvId
      <4>2. QED
        BY <1>4, <1>9, <1>11, <2>2, <4>1 DEF UmbrellaAt
    <3>2. \A k \in ComponentKinds : Follows(k, u)'
      BY <1>6, <1>13, <2>2, IdFacts
    <3>3. QED
      BY <3>1, <3>2
  <2>3. CASE /\ w[1] # TelemetryEnvId /\ pass'[P] = Tail(pass[P])
             /\ DOMAIN objs' = DOMAIN objs \cup {w[1]} /\ objs'[w[1]] = w[2]
    <3>1. Held(TelemetryEnvId)
      BY <1>4, <2>3
    <3>2. \/ t = u /\ TelemetryEnvId \in DOMAIN objs
          \/ \A k \in ComponentKinds :
                Before(Tail(pass[P]), TelemetryEnvId, Resource(k)) /\ w[1] # Resource(k)
      BY <1>2, <1>4, <1>6, <2>3, BeforeNext
    <3>3. UmbrellaAt(t, u)'
      <4>1. TelemetryEnvId \in DOMAIN objs' => objs'[TelemetryEnvId] = TelemetryEnv(specs[t])
        BY <1>6, <3>1 DEF Held
      <4>2. \/ t = u /\ TelemetryEnvId \in DOMAIN objs'
            \/ \A k \in ComponentKinds : Before(pass'[P], TelemetryEnvId, Resource(k))
        BY <2>3, <3>2
      <4>3. QED
        BY <1>4, <1>6, <1>11, <4>1, <4>2 DEF UmbrellaAt
    <3>4. ASSUME NEW k \in ComponentKinds, w[1] = Resource(k)
          PROVE  Follows(k, t)'
      <4>1. t = u /\ TelemetryEnvId \in DOMAIN objs
        BY <3>2, <3>4
      <4>2. PICK c \in DOMAIN specs, p \in DOMAIN specs, f \in DOMAIN specs,
                 v \in DOMAIN specs, s \in DOMAIN specs : ComponentAt(k, t, c, p, f, v, s)
        BY <1>3 DEF Follows
      <4>3. /\ s <= v /\ v <= f /\ f <= p /\ p <= c /\ c <= t
            /\ PassAt(k, p) /\ ConfigAt(k, f) /\ ConfigFirst(k, f, p)
            /\ WorkloadAt(k, v) /\ PodAt(k, s)
        BY <4>2 DEF ComponentAt
      <4>4. p <= t /\ t <= t
        BY <1>4, <4>3 DEF SpecsHeld
      <4>5. Held(ConfigId(k)) /\ Held(WorkloadId(k))
        BY <1>4, <1>8
      <4>6. ResourceAt(k, t)'
        <5>1. Wanted(k, t)' /\ objs'[Resource(k)] = Handed(k, t)'
          BY <1>4, <1>8, <2>3, <3>4, <4>1 DEF Wanted, Handed
        <5>2. TelemetryEnvId \in DOMAIN objs'
          BY <1>4, <4>1
        <5>3. QED
          BY <5>1, <5>2 DEF ResourceAt
      <4>7. PassAt(k, p)'
        BY <1>4, <1>12, <4>3, PassHeld
      <4>8. ConfigFirst(k, f, p)'
        BY <1>12, <4>3, <4>5 DEF ConfigFirst, Held
      <4>9. ConfigAt(k, f)' /\ WorkloadAt(k, v)' /\ PodAt(k, s)'
        BY <1>4, <4>3, <4>5, ConfigHeld, WorkloadHeld, PodHeld
      <4>10. ComponentAt(k, t, t, p, f, v, s)'
        BY <4>3, <4>4, <4>6, <4>7, <4>8, <4>9 DEF ComponentAt
      <4>11. QED
        BY <1>4, <4>10 DEF Follows
    <3>5. \A k \in ComponentKinds : Follows(k, t)'
      <4>1. t <= t
        BY <1>4 DEF SpecsHeld
      <4>2. QED
        BY <1>13, <3>4, <4>1
    <3>6. QED
      BY <3>3, <3>5
  <2>4. QED
    BY <1>4, <2>1, <2>2, <2>3
<1>15. Chain'
  <2>1. (\E u1 \in DOMAIN specs : \E t1 \in DOMAIN specs :
            UmbrellaAt(t1, u1) /\ \A k \in ComponentKinds : Follows(k, t1))'
    BY <1>4, <1>14
  <2>2. QED
    BY <2>1 DEF Chain, Follows
<1>16. QED
  BY <1>4, <1>10, <1>15 DEF Inductive, Typed

LEMMA ComponentApplies ==
    ASSUME Inductive, NEW k \in ComponentKinds, Apply(k)
    PROVE  Inductive'
<1>1. Typed /\ ObjectsKnown /\ Chain /\ k \in Controllers /\ k # "ZelosPlatform"
  BY InductiveIs, KindFacts
<1>2. PICK v : v = Head(pass[k])
  OBVIOUS
<1>3. PICK u \in DOMAIN specs, t \in DOMAIN specs :
         UmbrellaAt(t, u) /\ \A l \in ComponentKinds : Follows(l, t)
  BY <1>1, ChainIs
<1>4. /\ specs' = specs /\ pods' = pods /\ SpecsHeld /\ Typed'
      /\ \A d \in Controllers \ {k} : pass'[d] = pass[d]
      /\ IsSequence(pass[k]) /\ pass[k] # <<>> /\ v \in Items(pass[k])
      /\ Items(pass'[k]) \subseteq Items(pass[k])
      /\ DOMAIN objs \subseteq DOMAIN objs'
      /\ \A x : x # v[1] => Held(x)
      /\ \/ objs' = objs /\ pass'[k] = <<>>
         \/ /\ Admitted(v) /\ pass'[k] = Tail(pass[k])
            /\ DOMAIN objs' = DOMAIN objs \cup {v[1]} /\ objs'[v[1]] = v[2]
  BY <1>1, <1>2, ApplyFacts
<1>5. PICK c \in DOMAIN specs, p \in DOMAIN specs, f \in DOMAIN specs, w \in DOMAIN specs,
           s \in DOMAIN specs : ComponentAt(k, t, c, p, f, w, s)
  BY <1>3 DEF Follows
<1>6. /\ s <= w /\ w <= f /\ f <= p /\ p <= c /\ c <= t
      /\ ResourceAt(k, c) /\ PassAt(k, p) /\ ConfigAt(k, f) /\ ConfigFirst(k, f, p)
      /\ WorkloadAt(k, w) /\ PodAt(k, s)
  BY <1>5 DEF ComponentAt
<1>7. Wanted(k, p) /\ ComponentWrite(Handed(k, p), v)
  <2>1. \A x \in Items(pass[k]) : Wanted(k, p) /\ ComponentWrite(Handed(k, p), x)
    BY <1>6 DEF PassAt, Items
  <2>2. QED
    BY <1>4, <2>1
<1>8. \A l \in ComponentKinds :
         /\ v = <<v[1], v[2]>>
         /\ v[1] # Resource(l) /\ v[1] # TelemetryEnvId
         /\ v[1] = ConfigId(l) =>
               l = k /\ k # "ZelosBackplane" /\ v[2] = ConfigData(Handed(k, p))
         /\ v[1] = WorkloadId(l) => l = k /\ v[2] = Workload(Handed(k, p))
  BY <1>7, ComponentIds DEF Handed
<1>9. /\ v = <<v[1], v[2]>> /\ v[1] # Resource(k) /\ v[1] # TelemetryEnvId
      /\ v[1] = ConfigId(k) => k # "ZelosBackplane" /\ v[2] = ConfigData(Handed(k, p))
      /\ v[1] = WorkloadId(k) => v[2] = Workload(Handed(k, p))
  BY <1>8
<1>10. ObjectsKnown'
  BY <1>1, <1>2, <1>7, <1>9, ApplyKnown DEF Wanted, Handed
<1>11. (Wanted(k, p)' <=> Wanted(k, p)) /\ Handed(k, p)' = Handed(k, p)
  BY <1>4, VersionsHeld
<1>12. /\ s <= w /\ w <= f /\ f <= p /\ w <= p /\ p <= p /\ p <= c /\ c <= t /\ s <= p
  BY <1>4, <1>6 DEF SpecsHeld
<1>13. ResourceAt(k, c)' /\ PassAt(k, p)' /\ PodAt(k, s)'
  <2>1. Held(Resource(k))
    BY <1>4, <1>9
  <2>2. ResourceAt(k, c)'
    BY <1>4, <1>6, <2>1, ResourceHeld
  <2>3. PassAt(k, p)'
    BY <1>4, <1>6, PassHeld
  <2>4. PodAt(k, s)'
    BY <1>4, <1>6, PodHeld
  <2>5. QED
    BY <2>2, <2>3, <2>4
<1>14. Follows(k, t)'
  <2>1. CASE objs' = objs /\ pass'[k] = <<>>
    <3>1. Held(ConfigId(k)) /\ Held(WorkloadId(k))
      BY <2>1 DEF Held
    <3>2. ConfigFirst(k, f, p)'
      BY <2>1 DEF ConfigFirst, Before
    <3>3. ConfigAt(k, f)' /\ WorkloadAt(k, w)'
      BY <1>4, <1>6, <3>1, ConfigHeld, WorkloadHeld
    <3>4. ComponentAt(k, t, c, p, f, w, s)'
      BY <1>6, <1>13, <3>2, <3>3 DEF ComponentAt
    <3>5. QED
      BY <1>4, <3>4 DEF Follows
  <2>2. ASSUME v[1] = ConfigId(k), DOMAIN objs' = DOMAIN objs \cup {v[1]},
               objs'[v[1]] = v[2]
        PROVE  Follows(k, t)'
    <3>1. ConfigFirst(k, p, p)'
      BY <2>2 DEF ConfigFirst
    <3>2. ConfigAt(k, p)'
      BY <1>7, <1>9, <1>11, <2>2 DEF ConfigAt
    <3>3. WorkloadAt(k, w)'
      <4>1. Held(WorkloadId(k))
        BY <1>4, <2>2, IdFacts
      <4>2. QED
        BY <1>4, <1>6, <4>1, WorkloadHeld
    <3>4. ComponentAt(k, t, c, p, p, w, s)'
      BY <1>12, <1>13, <3>1, <3>2, <3>3 DEF ComponentAt
    <3>5. QED
      BY <1>4, <3>4 DEF Follows
  <2>3. ASSUME v[1] # ConfigId(k), pass'[k] = Tail(pass[k])
        PROVE  Held(ConfigId(k)) /\ ConfigFirst(k, f, p)'
    <3>1. Held(ConfigId(k))
      BY <1>4, <2>3
    <3>2. CASE Before(pass[k], ConfigId(k), WorkloadId(k))
      <4>1. Before(Tail(pass[k]), ConfigId(k), WorkloadId(k))
        BY <1>2, <1>4, <2>3, <3>2, BeforeNext
      <4>2. QED
        BY <2>3, <3>1, <4>1 DEF ConfigFirst
    <3>3. QED
      BY <1>6, <3>1, <3>2 DEF ConfigFirst, Held
  <2>4. ASSUME v[1] = WorkloadId(k), pass'[k] = Tail(pass[k]),
               DOMAIN objs' = DOMAIN objs \cup {v[1]}, objs'[v[1]] = v[2]
        PROVE  Follows(k, t)'
    <3>1. v[1] # ConfigId(k)
      BY <2>4, IdFacts
    <3>2. Held(ConfigId(k))
      BY <2>3, <2>4, <3>1
    <3>3. WorkloadAt(k, p)'
      BY <1>7, <1>9, <1>11, <2>4 DEF WorkloadAt
    <3>4. ConfigFirst(k, p, p)' /\ ConfigAt(k, p)'
      <4>1. CASE k = "ZelosBackplane"
        <5>1. ConfigId(k) \notin DOMAIN objs
          <6> SUFFICES ASSUME ConfigId(k) \in DOMAIN objs PROVE FALSE
            OBVIOUS
          <6> DEFINE z == <<ConfigId(k), objs[ConfigId(k)]>>
          <6>1. PICK n \in DOMAIN specs :
                   \/ UmbrellaWrite(specs[n], z)
                   \/ \E l \in DOMAIN specs[n].child : ComponentWrite(HandedDown(specs[n], l), z)
            BY <1>1 DEF ObjectsKnown
          <6>2. z[1] = ConfigId(k)
            OBVIOUS
          <6> HIDE DEF z
          <6>3. DOMAIN specs[n].child \subseteq ComponentKinds
            BY <1>1, SpecFacts
          <6>4. ~UmbrellaWrite(specs[n], z)
            BY <6>2, <6>3, UmbrellaIds
          <6>5. PICK l \in ComponentKinds : ComponentWrite(HandedDown(specs[n], l), z)
            BY <6>1, <6>3, <6>4
          <6>6. k = l /\ l # "ZelosBackplane"
            BY <6>2, <6>5, ComponentIds
          <6>7. QED
            BY <4>1, <6>6
        <5>2. ConfigId(k) \notin DOMAIN objs'
          BY <3>2, <5>1 DEF Held
        <5>3. QED
          BY <4>1, <5>2 DEF ConfigAt, ConfigFirst
      <4>2. CASE k # "ZelosBackplane"
        <5>1. ~Before(pass[k], ConfigId(k), WorkloadId(k))
          BY <1>2, <1>4, <2>4, <3>1, BeforeNext
        <5>2. f = p /\ ConfigId(k) \in DOMAIN objs
          BY <1>6, <4>2, <5>1 DEF ConfigFirst
        <5>3. ConfigAt(k, p)'
          BY <1>4, <1>6, <3>2, <5>2, ConfigHeld
        <5>4. ConfigFirst(k, p, p)'
          BY <1>4, <5>2 DEF ConfigFirst
        <5>5. QED
          BY <5>3, <5>4
      <4>3. QED
        BY <4>1, <4>2
    <3>5. ComponentAt(k, t, c, p, p, p, s)'
      BY <1>12, <1>13, <3>3, <3>4 DEF ComponentAt
    <3>6. QED
      BY <1>4, <3>5 DEF Follows
  <2>5. ASSUME v[1] # ConfigId(k), v[1] # WorkloadId(k), pass'[k] = Tail(pass[k])
        PROVE  Follows(k, t)'
    <3>1. Held(ConfigId(k)) /\ Held(WorkloadId(k)) /\ ConfigFirst(k, f, p)'
      BY <1>4, <2>3, <2>5
    <3>2. ConfigAt(k, f)' /\ WorkloadAt(k, w)'
      BY <1>4, <1>6, <3>1, ConfigHeld, WorkloadHeld
    <3>3. ComponentAt(k, t, c, p, f, w, s)'
      BY <1>6, <1>13, <3>1, <3>2 DEF ComponentAt
    <3>4. QED
      BY <1>4, <3>3 DEF Follows
  <2>6. QED
    BY <1>4, <2>1, <2>2, <2>4, <2>5
<1>15. Chain'
  <2>1. UmbrellaAt(t, u)'
    <3>1. Held(TelemetryEnvId) /\ pass'["ZelosPlatform"] = pass["ZelosPlatform"]
      BY <1>1, <1>4, <1>9 DEF Controllers
    <3>2. QED
      BY <1>3, <1>4, <3>1, UmbrellaHeld
  <2>2. ASSUME NEW l \in ComponentKinds, l # k PROVE Follows(l, t)'
    <3>1. pass'[l] = pass[l]
      BY <1>4, <2>2, KindFacts
    <3>2. Held(Resource(l)) /\ Held(ConfigId(l)) /\ Held(WorkloadId(l)) /\ t <= t
      BY <1>4, <1>8, <2>2 DEF SpecsHeld
    <3>3. QED
      BY <1>3, <1>4, <3>1, <3>2, FollowsHeld
  <2>3. (\E u1 \in DOMAIN specs : \E t1 \in DOMAIN specs :
            UmbrellaAt(t1, u1) /\ \A l \in ComponentKinds : Follows(l, t1))'
    BY <1>4, <1>14, <2>1, <2>2
  <2>4. QED
    BY <2>3 DEF Chain, Follows
<1>16. QED
  BY <1>4, <1>10, <1>15 DEF Inductive, Typed

-----------------------------------------------------------------------------
(* The pods and the edits *)

(***************************************************************************)
(* A workload is the collector's, or that of one component and one spec.   *)
(***************************************************************************)
LEMMA WorkloadOwner ==
    ASSUME Typed, ObjectsKnown, NEW id \in WorkloadIds
    PROVE  \/ id = <<"Deployment", CollectorName>> /\ objs[id] = CollectorPod
           \/ \E k \in ComponentKinds : \E n \in DOMAIN specs :
                 id = WorkloadId(k) /\ objs[id] = Workload(Handed(k, n))
<1> DEFINE z == <<id, objs[id]>>
<1>1. id \in DOMAIN objs /\ id[1] \in {"Deployment", "StatefulSet", "DaemonSet"}
  BY DEF WorkloadIds
<1>2. z[1] = id /\ z[2] = objs[id]
  OBVIOUS
<1>3. PICK n \in DOMAIN specs :
         \/ UmbrellaWrite(specs[n], z)
         \/ \E k \in DOMAIN specs[n].child : ComponentWrite(HandedDown(specs[n], k), z)
  BY <1>1 DEF ObjectsKnown
<1>4. DOMAIN specs[n].child \subseteq ComponentKinds
  BY SpecFacts
<1> HIDE DEF z
<1>5. CASE UmbrellaWrite(specs[n], z)
  <2>1. z[1] # TelemetryEnvId
    BY <1>1, <1>2 DEF TelemetryEnvId
  <2>2. \A k \in DOMAIN specs[n].child : z[1] # Resource(k)
    BY <1>1, <1>2, <1>4, KindFacts, IdFacts
  <2>3. \E i \in DOMAIN CollectorWrites : z = CollectorWrites[i]
    <3>1. \/ z = <<TelemetryEnvId, TelemetryEnv(specs[n])>>
          \/ \E i \in DOMAIN CollectorWrites : z = CollectorWrites[i]
          \/ \E k \in DOMAIN specs[n].child : z = <<Resource(k), HandedDown(specs[n], k)>>
      BY <1>5 DEF UmbrellaWrite
    <3>2. z # <<TelemetryEnvId, TelemetryEnv(specs[n])>>
      BY <2>1
    <3>3. \A k \in DOMAIN specs[n].child : z # <<Resource(k), HandedDown(specs[n], k)>>
      BY <2>2
    <3>4. QED
      BY <3>1, <3>2, <3>3
  <2>4. \/ z = <<CollectorConfigId, <<>>>>
        \/ z = <<<<"Deployment", CollectorName>>, CollectorPod>>
        \/ z = <<<<"Service", CollectorName>>, SelectorLabels(CollectorName)>>
    BY <2>3 DEF CollectorWrites
  <2>5. z # <<CollectorConfigId, <<>>>>
    BY <1>1, <1>2 DEF CollectorConfigId
  <2>6. z # <<<<"Service", CollectorName>>, SelectorLabels(CollectorName)>>
    BY <1>1, <1>2
  <2>7. QED
    BY <1>2, <2>4, <2>5, <2>6
<1>6. CASE \E k \in DOMAIN specs[n].child : ComponentWrite(HandedDown(specs[n], k), z)
  <2>1. PICK k \in ComponentKinds : ComponentWrite(Handed(k, n), z)
    BY <1>4, <1>6 DEF Handed
  <2>2. Handed(k, n).kind = k
    BY HandedDownKind DEF Handed
  <2>3. PICK p \in Rendered(Handed(k, n)) : z = PartWrite(Handed(k, n), p)
    BY <2>1 DEF ComponentWrite
  <2>4. p \in Parts
    BY <2>2, <2>3, RenderedParts
  <2>5. /\ p = "ConfigMap" => z[1] = ConfigId(k)
        /\ p = "PVC" => z[1] = ClaimId(k)
        /\ p = "Workload" => z[1] = WorkloadId(k) /\ z[2] = Workload(Handed(k, n))
        /\ p = "Service" => z[1] = <<"Service", RunsAs(k)>>
        /\ p = "HPA" => z[1] = <<"HorizontalPodAutoscaler", RunsAs(k)>>
    BY <2>2, <2>3, <2>4, PartWriteFacts
  <2>6. ConfigId(k)[1] = "ConfigMap" /\ ClaimId(k)[1] = "PersistentVolumeClaim"
    BY IdFacts DEF ClaimId
  <2>7. p = "Workload"
    BY <1>1, <1>2, <2>4, <2>5, <2>6 DEF Parts
  <2>8. QED
    BY <1>2, <2>5, <2>7
<1>7. QED
  BY <1>3, <1>5, <1>6

LEMMA PodOwner ==
    ASSUME Typed, ObjectsKnown, NEW id \in ComponentPods
    PROVE  \E k \in ComponentKinds : k # "ZelosBackplane" /\ id = WorkloadId(k)
<1>1. id \in WorkloadIds /\ Len(objs[id].envFrom) = 2
  BY DEF ComponentPods
<1>2. objs[id] # CollectorPod
  <2>1. CollectorPod.envFrom = <<CollectorConfigId>>
    BY CollectorFacts
  <2>2. Len(<<CollectorConfigId>>) = 1
    OBVIOUS
  <2>3. QED
    BY <1>1, <2>1, <2>2
<1>3. PICK k \in ComponentKinds, n \in DOMAIN specs :
         id = WorkloadId(k) /\ objs[id] = Workload(Handed(k, n))
  BY <1>1, <1>2, WorkloadOwner
<1>4. ASSUME k = "ZelosBackplane" PROVE FALSE
  <2>1. Handed(k, n).kind = k
    BY HandedDownKind DEF Handed
  <2>2. objs[id].envFrom = <<>>
    BY <1>3, <1>4, <2>1, WorkloadFacts
  <2>3. QED
    BY <1>1, <2>2
<1>5. QED
  BY <1>3, <1>4

(***************************************************************************)
(* A pod of component k that starts with the template of spec n reads      *)
(* configuration that is as new.                                           *)
(***************************************************************************)
LEMMA PodStarts ==
    ASSUME Typed, ObjectsKnown, Chain, NEW k \in ComponentKinds, k # "ZelosBackplane",
           NEW pod, Start(WorkloadId(k), pod), WorkloadId(k) \in DOMAIN objs,
           \/ pod = objs[WorkloadId(k)]
           \/ WorkloadId(k) \in DOMAIN pods /\ pod = pods[WorkloadId(k)].template
    PROVE  Inductive'
<1> DEFINE id == WorkloadId(k)
           started == [template |-> pod, env |-> EnvironmentNow(pod)]
<1>1. /\ References(pod) \subseteq DOMAIN objs
      /\ specs' = specs /\ objs' = objs /\ pass' = pass
      /\ pods' = Over(Only(id, started), pods)
  BY DEF Start
<1>2. /\ DOMAIN pods' = DOMAIN pods \cup {id} /\ pods'[id] = started
      /\ \A x \in DOMAIN pods : x # id => pods'[x] = pods[x]
  <2>1. PICK x, y, f, g : x = id /\ y = started /\ f = pods /\ g = pods'
    OBVIOUS
  <2>2. g = Over(Only(x, y), f)
    BY <1>1, <2>1
  <2>3. DOMAIN g = DOMAIN f \cup {x} /\ g[x] = y
    BY <2>2, OneReplaced
  <2>4. ASSUME NEW z \in DOMAIN f, z # x PROVE g[z] = f[z]
    BY <2>2, <2>4, OthersKept
  <2>5. QED
    BY <2>1, <2>3, <2>4
<1>3. SpecsHeld
  BY <1>1, SpecFacts DEF SpecsHeld
<1>4. PICK u \in DOMAIN specs, t \in DOMAIN specs :
         UmbrellaAt(t, u) /\ \A l \in ComponentKinds : Follows(l, t)
  BY ChainIs
<1>5. PICK c \in DOMAIN specs, p \in DOMAIN specs, f \in DOMAIN specs, w \in DOMAIN specs,
           s \in DOMAIN specs : ComponentAt(k, t, c, p, f, w, s)
  BY <1>4 DEF Follows
<1>6. /\ s <= w /\ w <= f /\ f <= p /\ p <= c /\ c <= t
      /\ ResourceAt(k, c) /\ PassAt(k, p) /\ ConfigAt(k, f) /\ ConfigFirst(k, f, p)
      /\ WorkloadAt(k, w) /\ PodAt(k, s)
  BY <1>5 DEF ComponentAt
<1>7. \A x : Held(x)
  BY <1>1 DEF Held
<1>8. /\ ResourceAt(k, c)' /\ PassAt(k, p)' /\ ConfigAt(k, f)' /\ WorkloadAt(k, w)'
      /\ ConfigFirst(k, f, p)'
  <2>1. ResourceAt(k, c)' /\ ConfigAt(k, f)' /\ WorkloadAt(k, w)'
    BY <1>1, <1>3, <1>6, <1>7, ResourceHeld, ConfigHeld, WorkloadHeld
  <2>2. PassAt(k, p)'
    BY <1>1, <1>3, <1>6, PassHeld
  <2>3. ConfigFirst(k, f, p)'
    BY <1>1, <1>6 DEF ConfigFirst
  <2>4. QED
    BY <2>1, <2>2, <2>3
<1>9. PICK r \in DOMAIN specs :
         /\ r \in {s, w} /\ Wanted(k, r) /\ pod = Workload(Handed(k, r))
  BY <1>6 DEF WorkloadAt, PodAt
<1>10. pod.envFrom = <<TelemetryEnvId, ConfigId(k)>>
  <2>1. Handed(k, r).kind = k
    BY HandedDownKind DEF Handed
  <2>2. QED
    BY <1>9, <2>1, WorkloadFacts
<1>11. /\ TelemetryEnvId \in DOMAIN objs /\ ConfigId(k) \in DOMAIN objs
       /\ pod.envFrom[2] = ConfigId(k)
  <2>1. /\ pod.envFrom[1] = TelemetryEnvId /\ pod.envFrom[2] = ConfigId(k)
        /\ DOMAIN pod.envFrom = {1, 2}
    BY <1>10
  <2>2. {TelemetryEnvId, ConfigId(k)} \subseteq References(pod)
    BY <2>1 DEF References
  <2>3. QED
    BY <1>1, <2>1, <2>2
<1>12. /\ objs[TelemetryEnvId] = TelemetryEnv(specs[t])
       /\ Wanted(k, f) /\ objs[ConfigId(k)] = ConfigData(Handed(k, f))
  BY <1>4, <1>6, <1>11 DEF UmbrellaAt, ConfigAt
<1>13. EnvironmentNow(pod) = Environment(pod.env, TelemetryEnv(specs[t]),
                                         ConfigData(Handed(k, f)))
  BY <1>11, <1>12 DEF EnvironmentNow
<1>14. /\ r <= w /\ f \in r..Len(specs) /\ t \in r..Len(specs)
  BY <1>3, <1>6, <1>9 DEF SpecsHeld
<1>15. PodAt(k, r)'
  <2>1. pods'[id].template = pod /\ pods'[id].env = EnvironmentNow(pod)
    BY <1>2
  <2>2. Wanted(k, r)' /\ Handed(k, r)' = Handed(k, r) /\ Wanted(k, f)'
        /\ Handed(k, f)' = Handed(k, f)
    BY <1>3, <1>9, <1>12, VersionsHeld
  <2>3. /\ f \in r..Len(specs') /\ t \in r..Len(specs')
        /\ pods'[id].env = Environment(pods'[id].template.env, TelemetryEnv(specs'[t]),
                                       ConfigData(Handed(k, f)'))
    BY <1>1, <1>13, <1>14, <2>1, <2>2
  <2> HIDE DEF started
  <2>4. QED
    BY <1>1, <1>9, <2>1, <2>2, <2>3 DEF PodAt
<1>16. Follows(k, t)'
  <2>1. ComponentAt(k, t, c, p, f, w, r)'
    BY <1>6, <1>8, <1>14, <1>15 DEF ComponentAt
  <2>2. QED
    BY <1>1, <2>1 DEF Follows
<1>17. UmbrellaAt(t, u)'
  BY <1>1, <1>3, <1>4, <1>7, UmbrellaHeld
<1>18. ASSUME NEW l \in ComponentKinds, l # k PROVE Follows(l, t)'
  <2>1. WorkloadId(l) # id /\ t <= t
    BY <1>3, <1>18, IdFacts DEF SpecsHeld
  <2>2. /\ WorkloadId(l) \in DOMAIN pods' <=> WorkloadId(l) \in DOMAIN pods
        /\ WorkloadId(l) \in DOMAIN pods => pods'[WorkloadId(l)] = pods[WorkloadId(l)]
    BY <1>2, <2>1
  <2>3. QED
    BY <1>1, <1>3, <1>4, <1>7, <2>1, <2>2, FollowsHeld
<1>19. Chain'
  <2>1. (\E u1 \in DOMAIN specs : \E t1 \in DOMAIN specs :
            UmbrellaAt(t1, u1) /\ \A l \in ComponentKinds : Follows(l, t1))'
    BY <1>1, <1>16, <1>17, <1>18
  <2>2. QED
    BY <2>1 DEF Chain, Follows
<1>20. ObjectsKnown'
  BY <1>1, <1>3, KnownHeld DEF ObjectsKnown
<1>21. Typed'
  BY <1>1 DEF Typed
<1>22. QED
  BY <1>19, <1>20, <1>21 DEF Inductive, Typed

LEMMA PodsStart ==
    ASSUME Inductive, NEW id \in ComponentPods, RollOut(id) \/ PodRestarts(id)
    PROVE  Inductive'
<1>1. Typed /\ ObjectsKnown /\ Chain
  BY InductiveIs
<1>2. PICK k \in ComponentKinds : k # "ZelosBackplane" /\ id = WorkloadId(k)
  BY <1>1, PodOwner
<1>3. id \in DOMAIN objs
  BY DEF ComponentPods, WorkloadIds
<1>4. CASE RollOut(id)
  <2>1. Start(id, objs[id])
    BY <1>4 DEF RollOut
  <2>2. QED
    BY <1>1, <1>2, <1>3, <2>1, PodStarts
<1>5. CASE PodRestarts(id)
  <2>1. id \in DOMAIN pods /\ Start(id, pods[id].template)
    BY <1>5 DEF PodRestarts
  <2>2. QED
    BY <1>1, <1>2, <1>3, <2>1, PodStarts
<1>6. QED
  BY <1>4, <1>5

LEMMA SpecEdited ==
    ASSUME Inductive, NEW e \in PlatformSpecs, EditSpec(e)
    PROVE  Inductive'
<1>1. Typed /\ ObjectsKnown /\ Chain
  BY InductiveIs
<1>2. specs' = Append(specs, e) /\ objs' = objs /\ pass' = pass /\ pods' = pods
  BY DEF EditSpec
<1>3. specs \in Seq(PlatformSpecs) /\ Len(specs) \in Nat /\ DOMAIN specs = 1..Len(specs)
  BY <1>1, SpecFacts DEF Typed
<1>4. /\ specs' \in Seq(PlatformSpecs) /\ Len(specs') = Len(specs) + 1
      /\ DOMAIN specs' = 1..(Len(specs) + 1) /\ specs' # <<>>
      /\ \A n \in 1..Len(specs) : specs'[n] = specs[n]
  BY <1>2, <1>3
<1>5. SpecsHeld
  BY <1>3, <1>4 DEF SpecsHeld
<1>6. \A x : Held(x)
  BY <1>2 DEF Held
<1>7. PICK u \in DOMAIN specs, t \in DOMAIN specs :
         UmbrellaAt(t, u) /\ \A l \in ComponentKinds : Follows(l, t)
  BY <1>1, ChainIs
<1>8. u \in DOMAIN specs' /\ t \in DOMAIN specs' /\ t <= t
  BY <1>3, <1>4
<1>9. UmbrellaAt(t, u)'
  BY <1>2, <1>5, <1>6, <1>7, UmbrellaHeld
<1>10. ASSUME NEW k \in ComponentKinds PROVE Follows(k, t)'
  BY <1>2, <1>5, <1>6, <1>7, <1>8, FollowsHeld
<1>11. Chain'
  <2>1. (\E u1 \in DOMAIN specs : \E t1 \in DOMAIN specs :
            UmbrellaAt(t1, u1) /\ \A l \in ComponentKinds : Follows(l, t1))'
    BY <1>8, <1>9, <1>10
  <2>2. QED
    BY <2>1 DEF Chain, Follows
<1>12. ObjectsKnown'
  BY <1>1, <1>2, <1>5, KnownHeld DEF ObjectsKnown
<1>13. Typed'
  BY <1>1, <1>2, <1>4 DEF Typed
<1>14. QED
  BY <1>11, <1>12, <1>13 DEF Inductive, Typed

-----------------------------------------------------------------------------
(* The theorems *)

LEMMA InitInductive ==
    ASSUME Init
    PROVE  Inductive
<1>1. PICK s \in PlatformSpecs : specs = <<s>>
  BY DEF Init
<1>2. objs = <<>> /\ pods = <<>> /\ pass = [c \in Controllers |-> <<>>]
  BY DEF Init
<1>3. DOMAIN objs = {} /\ DOMAIN pods = {} /\ \A c \in Controllers : pass[c] = <<>>
  BY <1>2
<1>4. specs \in Seq(PlatformSpecs) /\ specs # <<>> /\ DOMAIN specs = {1}
  BY <1>1
<1>5. Typed
  BY <1>2, <1>3, <1>4, EmptySequence DEF Typed
<1>6. ObjectsKnown
  BY <1>3 DEF ObjectsKnown, Resolves
<1>7. UmbrellaAt(1, 1)
  <2>1. "ZelosPlatform" \in Controllers
    BY DEF Controllers
  <2>2. pass["ZelosPlatform"] = <<>>
    BY <1>3, <2>1
  <2>3. QED
    BY <1>3, <2>2 DEF UmbrellaAt, Before
<1>8. ASSUME NEW k \in ComponentKinds PROVE ComponentAt(k, 1, 1, 1, 1, 1, 1)
  <2>1. pass[k] = <<>>
    BY <1>3, KindFacts
  <2>2. ResourceAt(k, 1) /\ PassAt(k, 1) /\ ConfigAt(k, 1) /\ WorkloadAt(k, 1) /\ PodAt(k, 1)
    BY <1>3, <2>1 DEF ResourceAt, PassAt, ConfigAt, WorkloadAt, PodAt
  <2>3. ConfigFirst(k, 1, 1)
    BY <2>1 DEF ConfigFirst, Before
  <2>4. QED
    BY <2>2, <2>3 DEF ComponentAt
<1>9. Chain
  BY <1>4, <1>7, <1>8 DEF Chain
<1>10. QED
  BY <1>5, <1>6, <1>9, InductiveIs

LEMMA NothingChanged ==
    ASSUME Inductive, UNCHANGED vars
    PROVE  Inductive'
<1>1. Typed /\ ObjectsKnown /\ Chain
  BY InductiveIs
<1>2. specs' = specs /\ objs' = objs /\ pass' = pass /\ pods' = pods
  BY DEF vars
<1>3. SpecsHeld /\ \A x : Held(x)
  BY <1>1, <1>2, SpecFacts DEF SpecsHeld, Held
<1>4. PICK u \in DOMAIN specs, t \in DOMAIN specs :
         UmbrellaAt(t, u) /\ \A l \in ComponentKinds : Follows(l, t)
  BY <1>1, ChainIs
<1>5. UmbrellaAt(t, u)'
  BY <1>2, <1>3, <1>4, UmbrellaHeld
<1>6. ASSUME NEW k \in ComponentKinds PROVE Follows(k, t)'
  <2>1. t <= t
    BY <1>3 DEF SpecsHeld
  <2>2. QED
    BY <1>2, <1>3, <1>4, <2>1, FollowsHeld
<1>7. Chain'
  <2>1. (\E u1 \in DOMAIN specs : \E t1 \in DOMAIN specs :
            UmbrellaAt(t1, u1) /\ \A l \in ComponentKinds : Follows(l, t1))'
    BY <1>2, <1>5, <1>6
  <2>2. QED
    BY <2>1 DEF Chain, Follows
<1>8. ObjectsKnown'
  BY <1>1, <1>2, <1>3, KnownHeld DEF ObjectsKnown
<1>9. QED
  BY <1>1, <1>2, <1>7, <1>8 DEF Inductive, Typed

LEMMA NextKeeps ==
    ASSUME Inductive, [Next]_vars
    PROVE  Inductive'
<1>1. CASE UNCHANGED vars
  BY <1>1, NothingChanged
<1>2. ASSUME NEW c \in Controllers, Begin(c)
      PROVE  Inductive'
  BY <1>2, PlatformBegins, ComponentBegins DEF Controllers
<1>3. ASSUME NEW c \in Controllers, Apply(c)
      PROVE  Inductive'
  BY <1>3, PlatformApplies, ComponentApplies DEF Controllers
<1>4. ASSUME NEW s \in PlatformSpecs, EditSpec(s)
      PROVE  Inductive'
  BY <1>4, SpecEdited
<1>5. ASSUME NEW id \in ComponentPods, RollOut(id) \/ PodRestarts(id)
      PROVE  Inductive'
  BY <1>5, PodsStart
<1>6. QED
  BY <1>1, <1>2, <1>3, <1>4, <1>5 DEF Next

(***************************************************************************)
(* Every edit of the platform's spec goes down one chain, through the      *)
(* custom resources, the passes over them, the ConfigMaps and the          *)
(* workloads to the pods, and no stage overtakes the one before it.        *)
(***************************************************************************)
THEOREM InvariantHolds == Spec => []Inductive
<1>1. Init => Inductive
  BY InitInductive
<1>2. Inductive /\ [Next]_vars => Inductive'
  BY NextKeeps
<1>3. QED
  BY <1>1, <1>2, PTL DEF Spec

(***************************************************************************)
(* No object on the server names another one that is missing, at any point *)
(* of any pass.                                                            *)
(***************************************************************************)
THEOREM ObjectsRefer == Spec => []ReferencesResolve
<1>1. ASSUME Inductive PROVE ReferencesResolve
  <2>1. \A id \in DOMAIN objs : Needs(id, objs[id]) \subseteq DOMAIN objs
    BY <1>1 DEF Inductive, ObjectsKnown
  <2>2. ASSUME NEW id \in WorkloadIds PROVE References(objs[id]) \subseteq DOMAIN objs
    <3>1. id \in DOMAIN objs /\ id[1] \in {"Deployment", "StatefulSet", "DaemonSet"}
      BY DEF WorkloadIds
    <3>2. Needs(id, objs[id]) = References(objs[id])
      BY <3>1 DEF Needs
    <3>3. QED
      BY <2>1, <3>1, <3>2
  <2>3. ASSUME NEW id \in DOMAIN objs, id[1] = "HorizontalPodAutoscaler"
        PROVE  objs[id] \in DOMAIN objs
    <3>1. Needs(id, objs[id]) = {objs[id]}
      BY <2>3 DEF Needs
    <3>2. QED
      BY <2>1, <3>1
  <2>4. QED
    BY <2>2, <2>3 DEF ReferencesResolve
<1>2. QED
  BY <1>1, InvariantHolds, PTL

(***************************************************************************)
(* A pod never combines the template of one edit with the configuration of *)
(* an earlier one, however the passes and the pods' starts interleave.     *)
(***************************************************************************)
THEOREM ConfigIsFresh == Spec => []FreshConfig
<1>1. ASSUME Inductive PROVE FreshConfig
  <2> SUFFICES ASSUME NEW k \in ComponentKinds, WorkloadId(k) \in DOMAIN pods
               PROVE  \E n \in DOMAIN specs :
                 /\ k \in DOMAIN specs[n].child
                 /\ pods[WorkloadId(k)].template = Workload(HandedDown(specs[n], k))
                 /\ \E c, t \in n..Len(specs) :
                       /\ k \in DOMAIN specs[c].child
                       /\ pods[WorkloadId(k)].env =
                             Environment(pods[WorkloadId(k)].template.env,
                                TelemetryEnv(specs[t]), ConfigData(HandedDown(specs[c], k)))
    BY DEF FreshConfig
  <2>1. \E s \in DOMAIN specs : PodAt(k, s)
    BY <1>1 DEF Inductive, Chain, ComponentAt
  <2>2. QED
    BY <2>1 DEF PodAt, Wanted, Handed
<1>2. QED
  BY <1>1, InvariantHolds, PTL

-----------------------------------------------------------------------------
(* Selectors *)

LEMMA ServiceOwner ==
    ASSUME Typed, ObjectsKnown, NEW name, <<"Service", name>> \in DOMAIN objs
    PROVE  \/ name = CollectorName /\ objs[<<"Service", name>>] = SelectorLabels(CollectorName)
           \/ \E k \in ComponentKinds :
                 name = RunsAs(k) /\ objs[<<"Service", name>>] = SelectorLabels(LabelOf(k))
<1> DEFINE id == <<"Service", name>>
           z == <<id, objs[id]>>
<1>1. z[1] = id /\ z[2] = objs[id] /\ id[1] = "Service" /\ id[2] = name
  OBVIOUS
<1>2. PICK n \in DOMAIN specs :
         \/ UmbrellaWrite(specs[n], z)
         \/ \E k \in DOMAIN specs[n].child : ComponentWrite(HandedDown(specs[n], k), z)
  BY DEF ObjectsKnown
<1>3. DOMAIN specs[n].child \subseteq ComponentKinds
  BY SpecFacts
<1> HIDE DEF z, id
<1>4. CASE UmbrellaWrite(specs[n], z)
  <2>1. z[1] # TelemetryEnvId
    BY <1>1 DEF TelemetryEnvId
  <2>2. \A k \in DOMAIN specs[n].child : z[1] # Resource(k)
    BY <1>1, <1>3, KindFacts, IdFacts
  <2>3. \E i \in DOMAIN CollectorWrites : z = CollectorWrites[i]
    <3>1. \/ z = <<TelemetryEnvId, TelemetryEnv(specs[n])>>
          \/ \E i \in DOMAIN CollectorWrites : z = CollectorWrites[i]
          \/ \E k \in DOMAIN specs[n].child : z = <<Resource(k), HandedDown(specs[n], k)>>
      BY <1>4 DEF UmbrellaWrite
    <3>2. z # <<TelemetryEnvId, TelemetryEnv(specs[n])>>
      BY <2>1
    <3>3. \A k \in DOMAIN specs[n].child : z # <<Resource(k), HandedDown(specs[n], k)>>
      BY <2>2
    <3>4. QED
      BY <3>1, <3>2, <3>3
  <2>4. \/ z = <<CollectorConfigId, <<>>>>
        \/ z = <<<<"Deployment", CollectorName>>, CollectorPod>>
        \/ z = <<<<"Service", CollectorName>>, SelectorLabels(CollectorName)>>
    BY <2>3 DEF CollectorWrites
  <2>5. z = <<<<"Service", CollectorName>>, SelectorLabels(CollectorName)>>
    BY <1>1, <2>4 DEF CollectorConfigId
  <2>6. QED
    BY <1>1, <2>5 DEF id
<1>5. CASE \E k \in DOMAIN specs[n].child : ComponentWrite(HandedDown(specs[n], k), z)
  <2>1. PICK k \in ComponentKinds : ComponentWrite(Handed(k, n), z)
    BY <1>3, <1>5 DEF Handed
  <2>2. Handed(k, n).kind = k
    BY HandedDownKind DEF Handed
  <2>3. PICK p \in Rendered(Handed(k, n)) : z = PartWrite(Handed(k, n), p)
    BY <2>1 DEF ComponentWrite
  <2>4. p \in Parts
    BY <2>2, <2>3, RenderedParts
  <2>5. /\ p = "ConfigMap" => z[1] = ConfigId(k)
        /\ p = "PVC" => z[1] = ClaimId(k)
        /\ p = "Workload" => z[1] = WorkloadId(k)
        /\ p = "Service" => /\ z[1] = <<"Service", RunsAs(k)>>
                            /\ z[2] = SelectorLabels(LabelOf(k))
        /\ p = "HPA" => z[1] = <<"HorizontalPodAutoscaler", RunsAs(k)>>
    BY <2>2, <2>3, <2>4, PartWriteFacts
  <2>6. /\ ConfigId(k)[1] = "ConfigMap" /\ ClaimId(k)[1] = "PersistentVolumeClaim"
        /\ WorkloadId(k)[1] \in {"Deployment", "StatefulSet", "DaemonSet"}
    BY IdFacts, KindFacts DEF ClaimId
  <2>7. p = "Service"
    BY <1>1, <2>4, <2>5, <2>6 DEF Parts
  <2>8. z[1] = <<"Service", RunsAs(k)>> /\ z[2] = SelectorLabels(LabelOf(k))
    BY <2>5, <2>7
  <2>9. name = RunsAs(k)
    BY <1>1, <2>8
  <2>10. QED
    BY <1>1, <2>8, <2>9 DEF id
<1>6. QED
  BY <1>2, <1>4, <1>5

LEMMA SelectedByName ==
    ASSUME NEW a, NEW b, NEW k
    PROVE  Selects(SelectorLabels(a), Labels(b, k)) <=> a = b
BY DEF Selects, SelectorLabels, Labels

(***************************************************************************)
(* What a workload is to the selectors: the name it is labelled with, and  *)
(* no two workloads have the same.                                         *)
(***************************************************************************)
LabelsOf(id, n) ==
    \/ id = <<"Deployment", CollectorName>> /\ n = CollectorName
    \/ \E k \in ComponentKinds : id = WorkloadId(k) /\ n = LabelOf(k)

LEMMA LabelsDistinct ==
    ASSUME NEW id, NEW other, NEW n, NEW m, LabelsOf(id, n), LabelsOf(other, m)
    PROVE  n = m <=> id = other
<1>1. \A k, l \in ComponentKinds :
         /\ LabelOf(k) = LabelOf(l) => k = l
         /\ LabelOf(k) # CollectorName
  BY DEF LabelOf, ComponentKinds, CollectorName
<1>2. \A k \in ComponentKinds : WorkloadId(k) # <<"Deployment", CollectorName>>
  <2> SUFFICES ASSUME NEW k \in ComponentKinds
               PROVE  WorkloadId(k) # <<"Deployment", CollectorName>>
    OBVIOUS
  <2>1. WorkloadId(k)[2] = RunsAs(k) /\ RunsAs(k) # CollectorName
    BY IdFacts, NamesAssumption
  <2>2. QED
    BY <2>1
<1>3. CASE id = <<"Deployment", CollectorName>> /\ n = CollectorName
  BY <1>1, <1>2, <1>3 DEF LabelsOf
<1>4. CASE \E k \in ComponentKinds : id = WorkloadId(k) /\ n = LabelOf(k)
  <2>1. PICK k \in ComponentKinds : id = WorkloadId(k) /\ n = LabelOf(k)
    BY <1>4
  <2>2. CASE other = <<"Deployment", CollectorName>> /\ m = CollectorName
    BY <1>1, <1>2, <2>1, <2>2
  <2>3. CASE \E l \in ComponentKinds : other = WorkloadId(l) /\ m = LabelOf(l)
    <3>1. PICK l \in ComponentKinds : other = WorkloadId(l) /\ m = LabelOf(l)
      BY <2>3
    <3>2. WorkloadId(k) = WorkloadId(l) => k = l
      BY IdFacts
    <3>3. QED
      BY <1>1, <2>1, <3>1, <3>2
  <2>4. QED
    BY <2>2, <2>3 DEF LabelsOf
<1>5. QED
  BY <1>3, <1>4 DEF LabelsOf

LEMMA WorkloadLabels ==
    ASSUME Typed, ObjectsKnown, NEW id \in WorkloadIds
    PROVE  \E n : /\ LabelsOf(id, n)
                  /\ objs[id].selector = SelectorLabels(n)
                  /\ \E k : objs[id].labels = Labels(n, k)
                  /\ <<"Service", id[2]>> \in DOMAIN objs =>
                        objs[<<"Service", id[2]>>] = SelectorLabels(n)
<1> DEFINE name == id[2]
           served == <<"Service", name>> \in DOMAIN objs
           service == objs[<<"Service", name>>]
<1>1. served => \/ name = CollectorName /\ service = SelectorLabels(CollectorName)
                \/ \E l \in ComponentKinds :
                      name = RunsAs(l) /\ service = SelectorLabels(LabelOf(l))
  BY ServiceOwner
<1>2. CASE id = <<"Deployment", CollectorName>> /\ objs[id] = CollectorPod
  <2>1. name = CollectorName
    BY <1>2
  <2> HIDE DEF name, served, service
  <2>2. served => service = SelectorLabels(CollectorName)
    BY <1>1, <2>1, NamesAssumption
  <2>3. /\ objs[id].selector = SelectorLabels(CollectorName)
        /\ objs[id].labels = Labels(CollectorName, "")
    BY <1>2, CollectorFacts
  <2>4. LabelsOf(id, CollectorName)
    BY <1>2 DEF LabelsOf
  <2>5. QED
    BY <2>2, <2>3, <2>4 DEF name, served, service
<1>3. CASE \E k \in ComponentKinds : \E n \in DOMAIN specs :
              id = WorkloadId(k) /\ objs[id] = Workload(Handed(k, n))
  <2>1. PICK k \in ComponentKinds, n \in DOMAIN specs :
           id = WorkloadId(k) /\ objs[id] = Workload(Handed(k, n))
    BY <1>3
  <2>2. name = RunsAs(k)
    BY <2>1, IdFacts
  <2> HIDE DEF name, served, service
  <2>3. served => service = SelectorLabels(LabelOf(k))
    BY <1>1, <2>2, NamesAssumption
  <2>4. Handed(k, n).kind = k
    BY HandedDownKind DEF Handed
  <2>5. /\ objs[id].selector = SelectorLabels(LabelOf(k))
        /\ objs[id].labels = Labels(LabelOf(k), k)
    BY <2>1, <2>4, WorkloadFacts
  <2>6. LabelsOf(id, LabelOf(k))
    BY <2>1 DEF LabelsOf
  <2>7. QED
    BY <2>3, <2>5, <2>6 DEF name, served, service
<1>4. QED
  BY <1>2, <1>3, WorkloadOwner

(***************************************************************************)
(* Whatever the platform is called, a workload and the Service of its name *)
(* select the pods of that workload and no others.                         *)
(***************************************************************************)
THEOREM SelectorsExact == Spec => []SelectorsAreExact
<1>1. ASSUME Inductive PROVE SelectorsAreExact
  <2>1. Typed /\ ObjectsKnown
    BY <1>1, InductiveIs
  <2> SUFFICES ASSUME NEW id \in WorkloadIds, NEW other \in WorkloadIds
               PROVE  /\ Selects(objs[id].selector, objs[other].labels) <=> id = other
                      /\ <<"Service", id[2]>> \in ServiceIds =>
                            (Selects(objs[<<"Service", id[2]>>], objs[other].labels)
                                <=> id = other)
    BY DEF SelectorsAreExact
  <2>2. PICK n : /\ LabelsOf(id, n) /\ objs[id].selector = SelectorLabels(n)
                 /\ <<"Service", id[2]>> \in DOMAIN objs =>
                       objs[<<"Service", id[2]>>] = SelectorLabels(n)
    BY <2>1, WorkloadLabels
  <2>3. PICK m, l : LabelsOf(other, m) /\ objs[other].labels = Labels(m, l)
    BY <2>1, WorkloadLabels
  <2>4. n = m <=> id = other
    BY <2>2, <2>3, LabelsDistinct
  <2>5. Selects(SelectorLabels(n), objs[other].labels) <=> id = other
    BY <2>3, <2>4, SelectedByName
  <2>6. QED
    BY <2>2, <2>5 DEF ServiceIds
<1>2. QED
  BY <1>1, InvariantHolds, PTL

-----------------------------------------------------------------------------
(* The settings on their way *)

\* All that pass c would write is on the server.
LEMMA AllWritten ==
    ASSUME NEW c, UpToDate(c), NEW w \in Items(Writes(c))
    PROVE  w[1] \in DOMAIN objs /\ objs[w[1]] = w[2]
<1>1. PICK i \in DOMAIN Writes(c) : w = Writes(c)[i]
  BY DEF Items
<1>2. Written(Writes(c)[i])
  BY DEF UpToDate
<1>3. QED
  BY <1>1, <1>2 DEF Written

LEMMA ConfigAndWorkload ==
    ASSUME NEW cr, NEW k \in ComponentKinds, cr.kind = k, k # "ZelosBackplane", Managed(cr)
    PROVE  {"ConfigMap", "Workload"} \subseteq Rendered(cr)
<1> DEFINE o == ReconcileOrder(k)
<1>1. \E i, j \in DOMAIN o : o[i] = "ConfigMap" /\ o[j] = "Workload"
  <2>1. CASE k = "ZelosGateway"
    <3>1. o = GatewayOrder
      BY <2>1 DEF ReconcileOrder
    <3>2. {1, 2} \subseteq DOMAIN o /\ o[1] = "ConfigMap" /\ o[2] = "Workload"
      BY <3>1 DEF GatewayOrder
    <3>3. QED
      BY <3>2
  <2>2. CASE k = "ZelosMCP"
    <3>1. o = MCPOrder
      BY <2>2 DEF ReconcileOrder
    <3>2. {1, 3} \subseteq DOMAIN o /\ o[1] = "ConfigMap" /\ o[3] = "Workload"
      BY <3>1 DEF MCPOrder
    <3>3. QED
      BY <3>2
  <2>3. CASE k = "ZelosBroker"
    <3>1. o = BrokerOrder
      BY <2>3 DEF ReconcileOrder
    <3>2. {1, 3} \subseteq DOMAIN o /\ o[1] = "ConfigMap" /\ o[3] = "Workload"
      BY <3>1 DEF BrokerOrder
    <3>3. QED
      BY <3>2
  <2>4. CASE k = "ZelosServer"
    <3>1. o = ServerOrder
      BY <2>4 DEF ReconcileOrder
    <3>2. {1, 2} \subseteq DOMAIN o /\ o[1] = "ConfigMap" /\ o[2] = "Workload"
      BY <3>1 DEF ServerOrder
    <3>3. QED
      BY <3>2
  <2>5. CASE k = "ZelosClient"
    <3>1. o = ClientOrder
      BY <2>5 DEF ReconcileOrder
    <3>2. {1, 2} \subseteq DOMAIN o /\ o[1] = "ConfigMap" /\ o[2] = "Workload"
      BY <3>1 DEF ClientOrder
    <3>3. QED
      BY <3>2
  <2>6. QED
    BY <2>1, <2>2, <2>3, <2>4, <2>5 DEF ComponentKinds
<1>2. QED
  BY <1>1 DEF Rendered

(***************************************************************************)
(* With nothing left to write, the newest spec is in the objects a         *)
(* component's pods are started with.                                      *)
(***************************************************************************)
LEMMA SettledObjects ==
    ASSUME Inductive, Settled, NEW k \in WithPods
    PROVE  /\ k \in ComponentKinds /\ k # "ZelosBackplane"
           /\ Newest \in PlatformSpecs /\ k \in DOMAIN Newest.child
           /\ objs[TelemetryEnvId] = TelemetryEnv(Newest)
           /\ objs[ConfigId(k)] = ConfigData(HandedDown(Newest, k))
           /\ objs[WorkloadId(k)] = Workload(HandedDown(Newest, k))
           /\ Admitted(<<WorkloadId(k), objs[WorkloadId(k)]>>)
<1> DEFINE cr == HandedDown(Newest, k)
           q == PlatformWrites(Newest)
<1>1. Typed /\ ObjectsKnown
  BY InductiveIs
<1>2. Newest \in PlatformSpecs /\ DOMAIN Newest.child \subseteq ComponentKinds
  <2>1. Newest \in PlatformSpecs
    BY <1>1, SpecFacts DEF Newest, Typed
  <2>2. QED
    BY <2>1, SpecsAssumption
<1>3. k \in DOMAIN Newest.child /\ k # "ZelosBackplane" /\ Managed(cr)
  BY DEF WithPods
<1>4. k \in ComponentKinds /\ k # "ZelosPlatform" /\ cr.kind = k
      /\ (cr.persistence = "on" => KeepsState(k))
  BY <1>2, <1>3, KindFacts, HandedDownKind
<1>5. /\ <<TelemetryEnvId, TelemetryEnv(Newest)>> \in Items(q)
      /\ <<Resource(k), cr>> \in Items(q)
  <2> HIDE DEF q
  <2>1. \A n : n = Newest => /\ DOMAIN n.child \subseteq ComponentKinds
                             /\ k \in DOMAIN n.child /\ q = PlatformWrites(n)
    BY <1>2, <1>3 DEF q
  <2>2. PICK n : n = Newest
    OBVIOUS
  <2>3. /\ <<TelemetryEnvId, TelemetryEnv(n)>> \in Items(q)
        /\ \A l \in DOMAIN n.child : <<Resource(l), HandedDown(n, l)>> \in Items(q)
    BY <2>1, <2>2, PlatformPass
  <2>4. QED
    BY <2>1, <2>2, <2>3
<1>6. UpToDate("ZelosPlatform") /\ UpToDate(k)
  BY <1>3 DEF Settled
<1>7. Writes("ZelosPlatform") = q
  BY DEF Writes
<1> HIDE DEF q, cr
<1>8. /\ objs[TelemetryEnvId] = TelemetryEnv(Newest)
      /\ Resource(k) \in DOMAIN objs /\ objs[Resource(k)] = cr
  <2> DEFINE a == <<TelemetryEnvId, TelemetryEnv(Newest)>>
             b == <<Resource(k), cr>>
  <2>1. a[1] = TelemetryEnvId /\ a[2] = TelemetryEnv(Newest) /\ b[1] = Resource(k) /\ b[2] = cr
    OBVIOUS
  <2>2. a \in Items(Writes("ZelosPlatform")) /\ b \in Items(Writes("ZelosPlatform"))
    BY <1>5, <1>7
  <2> HIDE DEF a, b
  <2>3. objs[a[1]] = a[2] /\ b[1] \in DOMAIN objs /\ objs[b[1]] = b[2]
    BY <1>6, <2>2, AllWritten
  <2>4. QED
    BY <2>1, <2>3
<1>9. Writes(k) = ComponentWrites(cr)
  BY <1>4, <1>8 DEF Writes
<1>10. Items(Writes(k)) = {PartWrite(cr, p) : p \in Rendered(cr)}
  BY <1>4, <1>9, ComponentPass
<1>11. {"ConfigMap", "Workload"} \subseteq Rendered(cr)
  BY <1>3, <1>4, ConfigAndWorkload DEF cr
<1>12. /\ PartWrite(cr, "ConfigMap") = <<ConfigId(k), ConfigData(cr)>>
       /\ PartWrite(cr, "Workload") = <<WorkloadId(k), Workload(cr)>>
  BY <1>4, PartWriteFacts DEF Parts
<1>13. /\ objs[ConfigId(k)] = ConfigData(cr)
       /\ WorkloadId(k) \in DOMAIN objs /\ objs[WorkloadId(k)] = Workload(cr)
  <2> DEFINE a == <<ConfigId(k), ConfigData(cr)>>
             b == <<WorkloadId(k), Workload(cr)>>
  <2>1. a[1] = ConfigId(k) /\ a[2] = ConfigData(cr) /\ b[1] = WorkloadId(k) /\ b[2] = Workload(cr)
    OBVIOUS
  <2>2. a \in Items(Writes(k)) /\ b \in Items(Writes(k))
    BY <1>10, <1>11, <1>12
  <2> HIDE DEF a, b
  <2>3. objs[a[1]] = a[2] /\ b[1] \in DOMAIN objs /\ objs[b[1]] = b[2]
    BY <1>6, <2>2, AllWritten
  <2>4. QED
    BY <2>1, <2>3
<1>14. Admitted(<<WorkloadId(k), objs[WorkloadId(k)]>>)
  BY <1>1, <1>13 DEF ObjectsKnown
<1>15. QED
  BY <1>2, <1>3, <1>4, <1>8, <1>13, <1>14 DEF cr

(***************************************************************************)
(* The fields of a custom resource that its pods' template is made from.   *)
(***************************************************************************)
LEMMA FieldsHandedDown ==
    ASSUME NEW s, NEW k \in ComponentKinds
    PROVE  /\ HandedDown(s, k).image = MergeImage(s.image, s.child[k].image)
           /\ HandedDown(s, k).pullSecret =
                 IF s.pullSecret = "" THEN "ghcr-pull-secret" ELSE s.pullSecret
           /\ HandedDown(s, k).config = s.child[k].config
           /\ HandedDown(s, k).settings = s.child[k].settings
           /\ HandedDown(s, k).secretRefs = s.child[k].secretRefs
           /\ HandedDown(s, k).auth = IF k = "ZelosMCP" THEN s.child[k].auth ELSE ""
<1>1. PICK cr : cr = HandedDown(s, k)
  OBVIOUS
<1>2. \A x \in DOMAIN FromPlatform(s, k) : cr[x] = FromPlatform(s, k)[x]
  BY <1>1, HandedDownFacts
<1>3. /\ {"image", "pullSecret", "config", "settings", "secretRefs", "auth"}
            \subseteq DOMAIN FromPlatform(s, k)
      /\ FromPlatform(s, k)["image"] = MergeImage(s.image, s.child[k].image)
      /\ FromPlatform(s, k)["pullSecret"] =
            IF s.pullSecret = "" THEN "ghcr-pull-secret" ELSE s.pullSecret
      /\ FromPlatform(s, k)["config"] = s.child[k].config
      /\ FromPlatform(s, k)["settings"] = s.child[k].settings
      /\ FromPlatform(s, k)["secretRefs"] = s.child[k].secretRefs
      /\ FromPlatform(s, k)["auth"] = IF k = "ZelosMCP" THEN s.child[k].auth ELSE ""
  BY DEF FromPlatform
<1>4. \A x \in {"image", "pullSecret", "config", "settings", "secretRefs", "auth"} :
         cr[x] = FromPlatform(s, k)[x]
  BY <1>2, <1>3
<1>5. /\ cr["image"] = FromPlatform(s, k)["image"]
      /\ cr["pullSecret"] = FromPlatform(s, k)["pullSecret"]
      /\ cr["config"] = FromPlatform(s, k)["config"]
      /\ cr["settings"] = FromPlatform(s, k)["settings"]
      /\ cr["secretRefs"] = FromPlatform(s, k)["secretRefs"]
      /\ cr["auth"] = FromPlatform(s, k)["auth"]
  BY <1>4, Zenon
<1>6. /\ cr["image"] = MergeImage(s.image, s.child[k].image)
      /\ cr["config"] = s.child[k].config
      /\ cr["settings"] = s.child[k].settings
      /\ cr["secretRefs"] = s.child[k].secretRefs
  BY <1>3, <1>5
<1>7. cr["pullSecret"] = IF s.pullSecret = "" THEN "ghcr-pull-secret" ELSE s.pullSecret
  BY <1>3, <1>5
<1>8. cr["auth"] = IF k = "ZelosMCP" THEN s.child[k].auth ELSE ""
  BY <1>3, <1>5
<1>9. QED
  BY <1>1, <1>6, <1>7, <1>8

(***************************************************************************)
(* Two merges: the component's own image, else the platform's, else the    *)
(* default.                                                                *)
(***************************************************************************)
LEMMA MergedTwice ==
    ASSUME NEW repo, NEW tag, NEW a \in Images, NEW b \in Images,
           NEW m, m = MergeImage([repository |-> repo, tag |-> tag], MergeImage(a, b))
    PROVE  m = [repository |-> FirstSet(b.repository, a.repository, repo),
                tag |-> FirstSet(b.tag, a.tag, tag)]
<1> DEFINE base == [repository |-> repo, tag |-> tag]
           ab == MergeImage(a, b)
<1>1. DOMAIN a = {"repository", "tag"} /\ DOMAIN base = {"repository", "tag"}
  BY DEF Images
<1>2. ab = [f \in {"repository", "tag"} |-> IF b[f] = "" THEN a[f] ELSE b[f]]
  BY <1>1 DEF MergeImage
<1>3. ab["repository"] = (IF b["repository"] = "" THEN a["repository"] ELSE b["repository"])
      /\ ab["tag"] = (IF b["tag"] = "" THEN a["tag"] ELSE b["tag"])
  BY <1>2
<1>4. base["repository"] = repo /\ base["tag"] = tag
  OBVIOUS
<1> HIDE DEF base, ab
<1>5. m = [f \in {"repository", "tag"} |-> IF ab[f] = "" THEN base[f] ELSE ab[f]]
  BY <1>1 DEF MergeImage, base, ab
<1>6. /\ m["repository"] = FirstSet(b.repository, a.repository, repo)
      /\ m["tag"] = FirstSet(b.tag, a.tag, tag)
  BY <1>3, <1>4, <1>5 DEF FirstSet
<1>7. m \in [{"repository", "tag"} -> {m["repository"], m["tag"]}]
  BY <1>5
<1>8. QED
  BY <1>6, <1>7

(***************************************************************************)
(* The references of the spec come first, and those of the auth provider   *)
(* are there.                                                              *)
(***************************************************************************)
Continues(all, refs) == \A i \in DOMAIN refs : i \in DOMAIN all /\ all[i] = refs[i]
HasKeys(all, name) ==
    \A key \in AuthKeys : \E i \in DOMAIN all : all[i].name = name /\ all[i].key = key

LEMMA SecretRefsFacts ==
    ASSUME NEW cr, NEW refs, refs = cr.secretRefs, IsSequence(refs),
           NEW all, all = SecretRefs(cr)
    PROVE  /\ IsSequence(all) /\ Continues(all, refs)
           /\ cr.auth # "" => HasKeys(all, cr.auth)
<1>1. Len(refs) \in Nat /\ DOMAIN refs = 1..Len(refs)
  BY SequenceFacts
<1>2. CASE cr.auth = ""
  <2>1. all = refs
    BY <1>2 DEF SecretRefs
  <2>2. IsSequence(all)
    BY <2>1
  <2>3. Continues(all, refs)
    BY <1>1, <2>1 DEF Continues
  <2>4. QED
    BY <1>2, <2>2, <2>3
<1>3. CASE cr.auth # ""
  <2> DEFINE x == AuthMount(cr, "auth.key")
             y == AuthMount(cr, "providers.json")
             Listed(n) == \E i \in DOMAIN refs : refs[i].name = n.name /\ refs[i].key = n.key
             More(n) == IF Listed(n) THEN <<>> ELSE <<n>>
             q == refs \o More(x)
  <2>1. all = q \o More(y)
    BY <1>3 DEF SecretRefs
  <2>2. /\ x.name = cr.auth /\ x.key = "auth.key"
        /\ y.name = cr.auth /\ y.key = "providers.json"
    BY DEF AuthMount
  <2> HIDE DEF x, y
  <2>3. ASSUME NEW n
        PROVE  IsSequence(More(n)) /\ (~Listed(n) => Items(More(n)) = {n})
    BY EmptySequence, Singleton
  <2>4. IsSequence(More(x)) /\ IsSequence(More(y))
    BY <2>3
  <2> HIDE DEF More
  <2>5. /\ IsSequence(q) /\ Items(q) = Items(refs) \cup Items(More(x))
        /\ Len(q) = Len(refs) + Len(More(x)) /\ \A i \in 1..Len(refs) : q[i] = refs[i]
    BY <2>4, Concatenation
  <2> HIDE DEF q
  <2>6. /\ IsSequence(all) /\ Items(all) = Items(q) \cup Items(More(y))
        /\ Len(all) = Len(q) + Len(More(y)) /\ \A i \in 1..Len(q) : all[i] = q[i]
    BY <2>1, <2>4, <2>5, Concatenation
  <2>7. /\ Len(More(x)) \in Nat /\ Len(More(y)) \in Nat /\ Len(q) \in Nat
        /\ Len(all) \in Nat /\ DOMAIN all = 1..Len(all)
    BY <2>4, <2>5, <2>6, SequenceFacts
  <2>8. \A i \in DOMAIN refs : i \in DOMAIN all /\ all[i] = refs[i]
    BY <1>1, <2>5, <2>6, <2>7
  <2>9. \A n \in Items(all) : \E i \in DOMAIN all : all[i] = n
    BY DEF Items
  <2>10. \A n \in {x, y} : \E i \in DOMAIN all : all[i].name = n.name /\ all[i].key = n.key
    <3>1. ASSUME NEW n \in {x, y}, Listed(n)
          PROVE  \E i \in DOMAIN all : all[i].name = n.name /\ all[i].key = n.key
      BY <2>8, <3>1
    <3>2. ASSUME NEW n \in {x, y}, ~Listed(n)
          PROVE  \E i \in DOMAIN all : all[i].name = n.name /\ all[i].key = n.key
      <4>1. n \in Items(all)
        BY <2>3, <2>5, <2>6, <3>2
      <4>2. QED
        BY <2>9, <4>1
    <3> HIDE DEF Listed
    <3>3. QED
      BY <3>1, <3>2
  <2>11. \A key \in AuthKeys : \E i \in DOMAIN all : all[i].name = cr.auth /\ all[i].key = key
    BY <2>2, <2>10 DEF AuthKeys
  <2>12. Continues(all, refs) /\ HasKeys(all, cr.auth)
    BY <2>8, <2>11, Zenon DEF Continues, HasKeys
  <2>13. QED
    BY <2>6, <2>12
<1>4. QED
  BY <1>2, <1>3

(***************************************************************************)
(* One function over another.                                              *)
(***************************************************************************)
LEMMA Combined ==
    ASSUME NEW f, NEW g, NEW h, h = Over(f, g), NEW x
    PROVE  /\ x \in DOMAIN h <=> x \in DOMAIN f \/ x \in DOMAIN g
           /\ x \in DOMAIN f => h[x] = f[x]
           /\ x \notin DOMAIN f /\ x \in DOMAIN g => h[x] = g[x]
BY DEF Over

(***************************************************************************)
(* The variables that a component's pod has of its own: the files of its   *)
(* secrets, and the standard ones.                                         *)
(***************************************************************************)
InfoNames == {"OTEL_SERVICE_NAME", "POD_NAME", "POD_NAMESPACE"}
StandardNames(k) == InfoNames \cup {k \o "_PORT", k \o "_STATE_DIR"}

LEMMA OwnVariables ==
    ASSUME NEW k \in ComponentKinds, k # "ZelosBackplane", NEW cr, cr.kind = k,
           NEW all, k = "ZelosClient" => all = <<>>,
           k # "ZelosClient" => all = SecretRefs(cr),
           NEW files, files = SecretEnv(k, all), NEW env, env = Workload(cr).env, NEW n
    PROVE  /\ n \in DOMAIN env => n \in DOMAIN files \cup StandardNames(k)
           /\ n \in DOMAIN files => n \in DOMAIN env /\ env[n] = files[n]
<1>1. CASE k = "ZelosClient"
  <2>1. env = PodInfo(k)
    BY <1>1, WorkloadFacts
  <2>2. all = <<>>
    BY <1>1
  <2>3. DOMAIN files = {}
    BY <2>2 DEF SecretEnv
  <2>4. DOMAIN env = InfoNames
    BY <2>1 DEF PodInfo, InfoNames
  <2>5. InfoNames \subseteq StandardNames(k)
    BY DEF StandardNames
  <2>6. QED
    BY <2>3, <2>4, <2>5
<1>2. CASE k # "ZelosClient"
  <2> DEFINE b == StandardEnv(k)
             x == k \o "_PORT"
             y == k \o "_STATE_DIR"
             f == Only(x, "http")
             g == Only(y, StateDir(k))
             z == Over(f, g)
             v == PodInfo(k)
  <2>1. env = Over(files, b)
    BY <1>2, WorkloadFacts
  <2>2. b = Over(v, z)
    BY DEF StandardEnv
  <2>3. DOMAIN v = InfoNames
    BY DEF PodInfo, InfoNames
  <2>4. DOMAIN f = {x} /\ DOMAIN g = {y}
    BY OnlyFacts
  <2>5. StandardNames(k) = InfoNames \cup {x, y}
    BY DEF StandardNames
  <2> HIDE DEF v, f, g, x, y
  <2>6. n \in DOMAIN z <=> n \in DOMAIN f \/ n \in DOMAIN g
    BY Combined
  <2> HIDE DEF z
  <2>7. n \in DOMAIN b <=> n \in DOMAIN v \/ n \in DOMAIN z
    BY <2>2, Combined
  <2> HIDE DEF b
  <2>8. /\ n \in DOMAIN env <=> n \in DOMAIN files \/ n \in DOMAIN b
        /\ n \in DOMAIN files => env[n] = files[n]
    BY <2>1, Combined
  <2>9. n \in DOMAIN b => n \in InfoNames \cup {x, y}
    BY <2>3, <2>4, <2>6, <2>7
  <2>10. QED
    BY <2>8, <2>9, <2>5
<1>3. QED
  BY <1>1, <1>2

(***************************************************************************)
(* A setting reaches the environment unless the pod has a variable of its  *)
(* name; so does an entry of the configuration that no setting overrides.  *)
(***************************************************************************)
LEMMA FromConfig ==
    ASSUME NEW cr, NEW own, NEW telemetry, NEW env,
           env = Environment(own, telemetry, ConfigData(cr)),
           NEW n, n \notin DOMAIN own, n # "ZELOSBACKPLANE_URL"
    PROVE  /\ n \in DOMAIN cr.settings => env[n] = cr.settings[n]
           /\ n \in DOMAIN cr.config \ DOMAIN cr.settings => env[n] = cr.config[n]
           /\ n \in DOMAIN telemetry \ (DOMAIN cr.settings \cup DOMAIN cr.config) =>
                 env[n] = telemetry[n]
<1> DEFINE url == IF cr.kind \in {"ZelosGateway", "ZelosClient"}
                  THEN [ZELOSBACKPLANE_URL |-> NATSURL] ELSE <<>>
           set == cr.settings
           given == cr.config
           both == Over(set, given)
           data == Over(url, both)
           seen == Over(data, telemetry)
<1>1. data = ConfigData(cr)
  BY DEF ConfigData
<1>2. env = Over(own, seen)
  BY <1>1 DEF Environment
<1>3. n \notin DOMAIN url
  <2>1. DOMAIN [ZELOSBACKPLANE_URL |-> NATSURL] = {"ZELOSBACKPLANE_URL"}
    OBVIOUS
  <2>2. DOMAIN <<>> = {}
    OBVIOUS
  <2>3. QED
    BY <2>1, <2>2
<1> HIDE DEF url, set, given
<1>4. /\ n \in DOMAIN both <=> n \in DOMAIN set \/ n \in DOMAIN given
      /\ n \in DOMAIN set => both[n] = set[n]
      /\ n \notin DOMAIN set /\ n \in DOMAIN given => both[n] = given[n]
  BY Combined
<1> HIDE DEF both
<1>5. /\ n \in DOMAIN data <=> n \in DOMAIN url \/ n \in DOMAIN both
      /\ n \notin DOMAIN url /\ n \in DOMAIN both => data[n] = both[n]
  BY Combined
<1> HIDE DEF data
<1>6. /\ n \in DOMAIN seen <=> n \in DOMAIN data \/ n \in DOMAIN telemetry
      /\ n \in DOMAIN data => seen[n] = data[n]
      /\ n \notin DOMAIN data /\ n \in DOMAIN telemetry => seen[n] = telemetry[n]
  BY Combined
<1> HIDE DEF seen
<1>7. n \notin DOMAIN own /\ n \in DOMAIN seen => env[n] = seen[n]
  BY <1>2, Combined
<1>8. /\ n \in DOMAIN set => env[n] = set[n]
      /\ n \in DOMAIN given \ DOMAIN set => env[n] = given[n]
      /\ n \in DOMAIN telemetry \ (DOMAIN set \cup DOMAIN given) => env[n] = telemetry[n]
  BY <1>3, <1>4, <1>5, <1>6, <1>7
<1>9. QED
  BY <1>8 DEF set, given

(***************************************************************************)
(* The pod's own variables win.                                            *)
(***************************************************************************)
LEMMA FromPod ==
    ASSUME NEW own, NEW telemetry, NEW config, NEW n \in DOMAIN own
    PROVE  Environment(own, telemetry, config)[n] = own[n]
BY Combined DEF Environment

(***************************************************************************)
(* The log level of the suite.                                             *)
(***************************************************************************)
LEMMA LogLevel ==
    ASSUME NEW s, NEW telemetry, telemetry = TelemetryEnv(s)
    PROVE  /\ "OTEL_LOG_LEVEL" \in DOMAIN telemetry
           /\ telemetry["OTEL_LOG_LEVEL"] = FirstSet(s.logLevel, "info", "")
<1> DEFINE x == IF s.logLevel = "" THEN "info" ELSE s.logLevel
<1>1. PICK e, g : telemetry = Over([OTEL_LOG_LEVEL |-> x, OTEL_LOGS_EXPORTER |-> e], g)
  BY DEF TelemetryEnv
<1>2. PICK f : f = [OTEL_LOG_LEVEL |-> x, OTEL_LOGS_EXPORTER |-> e]
  OBVIOUS
<1>3. "OTEL_LOG_LEVEL" \in DOMAIN f /\ f["OTEL_LOG_LEVEL"] = x
  BY <1>2
<1>4. x = FirstSet(s.logLevel, "info", "")
  BY DEF FirstSet
<1>5. telemetry = Over(f, g)
  BY <1>1, <1>2
<1>6. PICK n : n = "OTEL_LOG_LEVEL"
  OBVIOUS
<1>7. n \in DOMAIN telemetry /\ telemetry[n] = x
  <2>1. n \in DOMAIN f /\ f[n] = x
    BY <1>3, <1>6
  <2> HIDE DEF x
  <2>2. QED
    BY <1>5, <2>1, Combined
<1>8. QED
  BY <1>4, <1>6, <1>7

(***************************************************************************)
(* A variable that one reference alone has is set to that one's path.      *)
(***************************************************************************)
LEMMA FileOfOne ==
    ASSUME NEW k, NEW all, IsSequence(all), NEW i \in DOMAIN all,
           NEW n, n = FileEnv(k, all[i]),
           \A j \in DOMAIN all \ {i} : FileEnv(k, all[j]) # n,
           NEW files, files = SecretEnv(k, all)
    PROVE  n \in DOMAIN files /\ files[n] = MountPath(all[i])
<1> DEFINE last == CHOOSE m \in DOMAIN all :
                      /\ FileEnv(k, all[m]) = n
                      /\ \A j \in DOMAIN all : FileEnv(k, all[j]) = n => j <= m
<1>1. n \in {FileEnv(k, all[j]) : j \in DOMAIN all}
  OBVIOUS
<1>2. n \in DOMAIN files /\ files[n] = MountPath(all[last])
  BY <1>1 DEF SecretEnv
<1>3. i \in Nat
  BY SequenceFacts
<1>4. \A j \in DOMAIN all : FileEnv(k, all[j]) = n => j = i
  OBVIOUS
<1>5. last = i
  <2>1. /\ FileEnv(k, all[i]) = n
        /\ \A j \in DOMAIN all : FileEnv(k, all[j]) = n => j <= i
    BY <1>3, <1>4
  <2>2. last \in DOMAIN all /\ FileEnv(k, all[last]) = n
    BY <2>1
  <2>3. QED
    BY <1>4, <2>2
<1>6. QED
  BY <1>2, <1>5


(***************************************************************************)
(* Once the newest spec is settled, the template and the environment of    *)
(* the pods of component k are what the spec of its custom resource makes  *)
(* them.                                                                   *)
(***************************************************************************)
LEMMA SettledPods ==
    ASSUME Inductive, Settled, NEW k \in WithPods,
           NEW s, s = Newest, NEW cr, cr = HandedDown(s, k),
           NEW pod, pod = objs[WorkloadId(k)], NEW env, env = EnvironmentNow(pod)
    PROVE  /\ k \in ComponentKinds \ {"ZelosBackplane"}
           /\ s \in PlatformSpecs /\ k \in DOMAIN s.child
           /\ cr.kind = k /\ pod = Workload(cr)
           /\ env = Environment(pod.env, TelemetryEnv(s), ConfigData(cr))
           /\ Admitted(<<WorkloadId(k), pod>>)
<1>1. /\ k \in ComponentKinds /\ k # "ZelosBackplane"
      /\ s \in PlatformSpecs /\ k \in DOMAIN s.child
      /\ objs[TelemetryEnvId] = TelemetryEnv(s)
      /\ objs[ConfigId(k)] = ConfigData(cr)
      /\ pod = Workload(cr) /\ Admitted(<<WorkloadId(k), pod>>)
  BY SettledObjects
<1>2. cr.kind = k
  BY <1>1, HandedDownFacts
<1>3. pod.envFrom = <<TelemetryEnvId, ConfigId(k)>>
  BY <1>1, <1>2, WorkloadFacts
<1>4. pod.envFrom[2] = ConfigId(k)
  BY <1>3
<1>5. env = Environment(pod.env, objs[TelemetryEnvId], objs[ConfigId(k)])
  BY <1>4 DEF EnvironmentNow
<1>6. env = Environment(pod.env, TelemetryEnv(s), ConfigData(cr))
  BY <1>1, <1>5
<1>7. QED
  BY <1>1, <1>2, <1>6

(***************************************************************************)
(* Those pods have each reference of the spec as a file, and no two mounts *)
(* at one path.                                                            *)
(***************************************************************************)
MountedAt(mounts, i, ref) ==
    /\ i \in DOMAIN mounts
    /\ mounts[i] = [path |-> MountPath(ref), volume |-> ref.name, key |-> ref.key]
    /\ \A j \in DOMAIN mounts : mounts[j].path = MountPath(ref) => j = i

LEMMA SettledMounts ==
    ASSUME NEW k \in ComponentKinds, k \notin {"ZelosBackplane", "ZelosClient"},
           NEW cr, cr.kind = k, NEW pod, pod = Workload(cr),
           Admitted(<<WorkloadId(k), pod>>),
           NEW all, all = SecretRefs(cr), IsSequence(all),
           NEW i \in DOMAIN all, NEW ref, ref = all[i]
    PROVE  MountedAt(pod.mounts, i, ref)
<1>1. pod.mounts = SecretMounts(all) \o StateMount(cr)
  BY WorkloadFacts
<1>2. PICK mounts : mounts = pod.mounts
  OBVIOUS
<1>3. /\ i \in DOMAIN mounts
      /\ mounts[i] = [path |-> MountPath(ref), volume |-> ref.name, key |-> ref.key]
  <2> DEFINE a == SecretMounts(all)
             b == StateMount(cr)
  <2>1. Len(all) \in Nat /\ DOMAIN all = 1..Len(all)
    BY SequenceFacts
  <2>2. a = [j \in 1..Len(all) |->
                [path |-> MountPath(all[j]), volume |-> all[j].name, key |-> all[j].key]]
    BY <2>1 DEF SecretMounts
  <2>3. /\ a[i] = [path |-> MountPath(ref), volume |-> ref.name, key |-> ref.key]
        /\ a \in Seq({a[j] : j \in 1..Len(all)}) /\ Len(a) = Len(all)
    BY <2>1, <2>2
  <2>4. IsSequence(a)
    BY <2>3, AnySequence
  <2>5. IsSequence(b)
    BY EmptySequence, Singleton DEF StateMount
  <2>6. mounts = a \o b
    BY <1>1, <1>2
  <2> HIDE DEF a, b
  <2>7. /\ IsSequence(a \o b) /\ Len(a \o b) = Len(a) + Len(b) /\ Len(b) \in Nat
        /\ \A j \in 1..Len(a) : (a \o b)[j] = a[j]
        /\ DOMAIN (a \o b) = 1..Len(a \o b)
    BY <2>4, <2>5, Concatenation, SequenceFacts
  <2>8. QED
    BY <2>1, <2>3, <2>6, <2>7
<1>4. WorkloadKind(k) = "Deployment"
  BY KindFacts
<1>5. \A m, j \in DOMAIN mounts : mounts[m].path = mounts[j].path => m = j
  <2>1. PICK w : w = <<WorkloadId(k), pod>>
    OBVIOUS
  <2>2. w[1][1] = "Deployment" /\ w[2] = pod
    BY <1>4, <2>1 DEF WorkloadId
  <2>3. QED
    BY <1>2, <2>1, <2>2 DEF Admitted
<1>6. mounts[i].path = MountPath(ref)
  BY <1>3
<1>7. \A j \in DOMAIN mounts : mounts[j].path = MountPath(ref) => j = i
  BY <1>3, <1>5, <1>6
<1>8. QED
  BY <1>2, <1>3, <1>7 DEF MountedAt

(***************************************************************************)
(* What a spec says of a component's image, references and settings.       *)
(***************************************************************************)
LEMMA SpecGiven ==
    ASSUME NEW s \in PlatformSpecs, NEW k \in DOMAIN s.child, NEW c, c = s.child[k]
    PROVE  /\ s.image \in Images /\ c.image \in Images
           /\ IsSequence(c.secretRefs)
           /\ \A n \in DOMAIN c.settings : n \notin CommonVariables(k)
<1>1. /\ s.image \in Images /\ c.image \in Images /\ c.secretRefs \in Seq(Mounts)
      /\ DOMAIN c.settings \cap CommonVariables(k) = {}
  BY SpecsAssumption
<1>2. IsSequence(c.secretRefs)
  BY <1>1, AnySequence
<1>3. QED
  BY <1>1, <1>2


(***************************************************************************)
(* What Given promises, conjunct by conjunct: the image and the pull       *)
(* secret.                                                                 *)
(***************************************************************************)
LEMMA ImageIsGiven ==
    ASSUME NEW s \in PlatformSpecs, NEW k \in ComponentKinds, k # "ZelosBackplane",
           k \in DOMAIN s.child,
           NEW cr, cr = HandedDown(s, k), NEW pod, pod = Workload(cr)
    PROVE  GivenImage(s, k, pod)
<1> PICK c : c = s.child[k]
  OBVIOUS
<1>1. cr.kind = k
  BY HandedDownFacts
<1>2. /\ pod.image = MergeImage([repository |-> "ghcr.io/zelosai/" \o k,
                                 tag |-> "develop"], cr.image)
      /\ pod.pullSecrets = {cr.pullSecret, "ghcr-pull-secret"}
  BY <1>1, WorkloadFacts
<1>3. /\ cr.image = MergeImage(s.image, c.image)
      /\ cr.pullSecret = IF s.pullSecret = "" THEN "ghcr-pull-secret" ELSE s.pullSecret
  BY FieldsHandedDown
<1>4. PICK repo, a, b, m : /\ repo = "ghcr.io/zelosai/" \o k /\ a = s.image /\ b = c.image
                           /\ m = pod.image
  OBVIOUS
<1>5. a \in Images /\ b \in Images
  BY <1>4, SpecGiven
<1>6. m = MergeImage([repository |-> repo, tag |-> "develop"], MergeImage(a, b))
  BY <1>2, <1>3, <1>4
<1>7. m = [repository |-> FirstSet(b.repository, a.repository, repo),
           tag |-> FirstSet(b.tag, a.tag, "develop")]
  BY <1>5, <1>6, MergedTwice
<1>8. s.pullSecret # "" => s.pullSecret \in pod.pullSecrets
  BY <1>2, <1>3
<1>9. QED
  BY <1>4, <1>7, <1>8 DEF GivenImage

(***************************************************************************)
(* The settings, the configuration and the log level.                      *)
(***************************************************************************)
LEMMA VariablesAreGiven ==
    ASSUME NEW s \in PlatformSpecs, NEW k \in ComponentKinds, k # "ZelosBackplane",
           k \in DOMAIN s.child,
           NEW cr, cr = HandedDown(s, k), NEW pod, pod = Workload(cr),
           NEW env, env = Environment(pod.env, TelemetryEnv(s), ConfigData(cr))
    PROVE  GivenVariables(s, k, pod, env)
<1>0. PICK c, own, all, named :
         c = s.child[k] /\ own = pod.env /\ all = MountedRefs(s, k) /\ named = Named(s, k)
  OBVIOUS
<1>1. cr.kind = k
  BY HandedDownFacts
<1>2. cr.settings = c.settings /\ cr.config = c.config
  BY <1>0, FieldsHandedDown
<1>3. PICK port, dir, telemetry, files :
         /\ port = k \o "_PORT" /\ dir = k \o "_STATE_DIR" /\ telemetry = TelemetryEnv(s)
         /\ files = SecretEnv(k, all)
  OBVIOUS
<1>4. env = Environment(own, telemetry, ConfigData(cr)) /\ own = Workload(cr).env
  BY <1>0, <1>3
<1>5. DOMAIN files = named
  BY <1>0, <1>3 DEF SecretEnv, Named
<1>6. \A n : /\ n \in DOMAIN own => n \in named \cup InfoNames \cup {port, dir}
             /\ n \in named => n \in DOMAIN own /\ own[n] = files[n]
  <2>1. /\ k \in ComponentKinds /\ k # "ZelosBackplane"
        /\ k = "ZelosClient" => all = <<>>
        /\ k # "ZelosClient" => all = SecretRefs(cr)
    BY <1>0 DEF MountedRefs
  <2>2. ASSUME NEW n
        PROVE  /\ n \in DOMAIN own => n \in DOMAIN files \cup StandardNames(k)
               /\ n \in DOMAIN files => n \in DOMAIN own /\ own[n] = files[n]
    BY <1>1, <1>3, <1>4, <2>1, OwnVariables
  <2>3. StandardNames(k) = InfoNames \cup {port, dir}
    BY <1>3 DEF StandardNames
  <2>4. QED
    BY <1>5, <2>2, <2>3
<1>7. \A n \in DOMAIN c.settings :
         n \notin InfoNames \cup {"OTEL_LOG_LEVEL", "ZELOSBACKPLANE_URL", port, dir}
  <2>1. \A n \in DOMAIN c.settings : n \notin CommonVariables(k)
    BY <1>0, SpecGiven
  <2>2. CommonVariables(k) =
           InfoNames \cup {"OTEL_LOG_LEVEL", "ZELOSBACKPLANE_URL", port, dir}
    BY <1>3 DEF CommonVariables, InfoNames
  <2>3. QED
    BY <2>1, <2>2
<1>8. ASSUME NEW n \in DOMAIN c.settings, n \notin named
      PROVE  env[n] = c.settings[n]
  <2>1. n \notin DOMAIN own /\ n # "ZELOSBACKPLANE_URL"
    BY <1>6, <1>7, <1>8
  <2>2. n \in DOMAIN cr.settings
    BY <1>2
  <2>3. env[n] = cr.settings[n]
    BY <1>4, <2>1, <2>2, FromConfig
  <2>4. QED
    BY <1>2, <2>3
<1>9. ASSUME NEW n \in DOMAIN c.config, n \notin DOMAIN own, n \notin DOMAIN c.settings,
             n # "ZELOSBACKPLANE_URL"
      PROVE  env[n] = c.config[n]
  <2>1. n \in DOMAIN cr.config \ DOMAIN cr.settings
    BY <1>2, <1>9
  <2>2. env[n] = cr.config[n]
    BY <1>4, <1>9, <2>1, FromConfig
  <2>3. QED
    BY <1>2, <2>2
<1>10. ASSUME "OTEL_LOG_LEVEL" \notin DOMAIN c.config, "OTEL_LOG_LEVEL" \notin named
       PROVE  env["OTEL_LOG_LEVEL"] = FirstSet(s.logLevel, "info", "")
  <2>1. PICK n : n = "OTEL_LOG_LEVEL"
    OBVIOUS
  <2>2. n # port /\ n # dir /\ n \notin InfoNames /\ n # "ZELOSBACKPLANE_URL"
    BY <1>3, <2>1, NamesAssumption DEF InfoNames
  <2>3. n \notin DOMAIN own
    BY <1>6, <1>10, <2>1, <2>2
  <2>4. n \notin DOMAIN c.settings
    BY <1>7, <2>1
  <2>5. n \in DOMAIN telemetry /\ telemetry[n] = FirstSet(s.logLevel, "info", "")
    BY <1>3, <2>1, LogLevel
  <2>6. n \in DOMAIN telemetry \ (DOMAIN cr.settings \cup DOMAIN cr.config)
    BY <1>2, <1>10, <2>1, <2>4, <2>5
  <2>7. env[n] = telemetry[n]
    BY <1>4, <2>2, <2>3, <2>6, FromConfig
  <2>8. QED
    BY <2>1, <2>5, <2>7
<1>11. /\ \A n \in DOMAIN c.settings \ named : env[n] = c.settings[n]
       /\ \A n \in DOMAIN c.config \ (DOMAIN own \cup DOMAIN c.settings
                                        \cup {"ZELOSBACKPLANE_URL"}) : env[n] = c.config[n]
       /\ "OTEL_LOG_LEVEL" \in DOMAIN c.config \cup named
             \/ env["OTEL_LOG_LEVEL"] = FirstSet(s.logLevel, "info", "")
  BY <1>8, <1>9, <1>10
<1>12. QED
  BY <1>0, <1>11 DEF GivenVariables


(***************************************************************************)
(* A reference that is mounted is the one file at its path.                *)
(***************************************************************************)
LEMMA OneFile ==
    ASSUME NEW mounts, NEW i, NEW ref, MountedAt(mounts, i, ref),
           NEW path, path = MountPath(ref)
    PROVE  {mounts[m] : m \in {j \in DOMAIN mounts : mounts[j].path = path}}
              = {[path |-> path, volume |-> ref.name, key |-> ref.key]}
<1>1. PICK mount : mount = [path |-> path, volume |-> ref.name, key |-> ref.key]
  OBVIOUS
<1>2. i \in DOMAIN mounts /\ mounts[i] = mount /\ mounts[i].path = path
  BY <1>1 DEF MountedAt
<1>3. \A j \in DOMAIN mounts : mounts[j].path = path => j = i
  BY DEF MountedAt
<1>4. {j \in DOMAIN mounts : mounts[j].path = path} = {i}
  BY <1>2, <1>3
<1>5. {mounts[m] : m \in {i}} = {mount}
  BY <1>2
<1>6. QED
  BY <1>1, <1>4, <1>5

(***************************************************************************)
(* The files, each under its variable if that is its alone, and the MCP    *)
(* component's authentication.                                             *)
(***************************************************************************)
LEMMA FilesAreGiven ==
    ASSUME NEW s \in PlatformSpecs,
           NEW k \in ComponentKinds, k \notin {"ZelosBackplane", "ZelosClient"},
           k \in DOMAIN s.child,
           NEW cr, cr = HandedDown(s, k), NEW pod, pod = Workload(cr),
           Admitted(<<WorkloadId(k), pod>>),
           NEW env, env = Environment(pod.env, TelemetryEnv(s), ConfigData(cr))
    PROVE  /\ GivenFiles(s, k, pod, env)
           /\ k = "ZelosMCP" /\ s.child[k].auth # "" => GivenAuth(s.child[k], pod)
<1>0. PICK c, refs, all : c = s.child[k] /\ refs = c.secretRefs /\ all = SecretRefs(cr)
  OBVIOUS
<1>1. cr.kind = k
  BY HandedDownFacts
<1>2. /\ cr.secretRefs = refs
      /\ cr.auth = IF k = "ZelosMCP" THEN c.auth ELSE ""
  BY <1>0, FieldsHandedDown
<1>3. IsSequence(refs)
  BY <1>0, SpecGiven
<1>4. IsSequence(all)
  BY <1>0, <1>2, <1>3, SecretRefsFacts
<1>5. \A i \in DOMAIN refs : i \in DOMAIN all /\ all[i] = refs[i]
  <2>1. Continues(all, refs)
    BY <1>0, <1>2, <1>3, SecretRefsFacts
  <2>2. QED
    BY <2>1 DEF Continues
<1>6. cr.auth # "" => HasKeys(all, cr.auth)
  BY <1>0, <1>2, <1>3, SecretRefsFacts
<1>7. ASSUME NEW i \in DOMAIN all, NEW ref, ref = all[i]
      PROVE  MountedAt(pod.mounts, i, ref)
  BY <1>0, <1>1, <1>4, <1>7, SettledMounts
<1>8. ASSUME NEW i \in DOMAIN refs
      PROVE  MountedAt(pod.mounts, i, refs[i])
  BY <1>5, <1>7
<1>9. ASSUME NEW i \in DOMAIN refs,
             \A j \in DOMAIN all \ {i} : FileEnv(k, all[j]) # FileEnv(k, refs[i])
      PROVE  env[FileEnv(k, refs[i])] = MountPath(refs[i])
  <2>1. PICK n, files, own : /\ n = FileEnv(k, refs[i]) /\ files = SecretEnv(k, all)
                             /\ own = Workload(cr).env
    OBVIOUS
  <2>2. i \in DOMAIN all /\ all[i] = refs[i]
    BY <1>5
  <2>3. \A j \in DOMAIN all \ {i} : FileEnv(k, all[j]) # n
    BY <1>9, <2>1
  <2>4. n = FileEnv(k, all[i])
    BY <2>1, <2>2
  <2>5. n \in DOMAIN files /\ files[n] = MountPath(all[i])
    BY <1>4, <2>1, <2>2, <2>3, <2>4, FileOfOne
  <2>6. n \in DOMAIN own /\ own[n] = files[n]
    BY <1>0, <1>1, <2>1, <2>5, OwnVariables
  <2>7. env[n] = own[n]
    BY <2>1, <2>6, FromPod
  <2>8. QED
    BY <2>1, <2>2, <2>5, <2>6, <2>7
<1>10. ASSUME k = "ZelosMCP", c.auth # "", NEW key \in AuthKeys
       PROVE  \E i \in DOMAIN pod.mounts :
                 pod.mounts[i].volume = c.auth /\ pod.mounts[i].key = key
  <2>1. cr.auth = c.auth
    BY <1>2, <1>10
  <2>2. HasKeys(all, c.auth)
    BY <1>6, <1>10, <2>1
  <2>3. PICK i \in DOMAIN all : all[i].name = c.auth /\ all[i].key = key
    BY <2>2 DEF HasKeys
  <2>4. MountedAt(pod.mounts, i, all[i])
    BY <1>7
  <2>5. QED
    BY <2>3, <2>4 DEF MountedAt
<1>11. GivenFiles(s, k, pod, env)
  <2>1. all = MountedRefs(s, k)
    BY <1>0 DEF MountedRefs
  <2>2. ASSUME NEW i \in DOMAIN refs
        PROVE  {pod.mounts[m] : m \in {j \in DOMAIN pod.mounts :
                                          pod.mounts[j].path = MountPath(refs[i])}} =
                 {[path |-> MountPath(refs[i]), volume |-> refs[i].name, key |-> refs[i].key]}
    BY <1>8, OneFile
  <2>3. QED
    BY <1>0, <1>9, <2>1, <2>2 DEF GivenFiles
<1>12. k = "ZelosMCP" /\ c.auth # "" => GivenAuth(c, pod)
  BY <1>10 DEF GivenAuth
<1>13. QED
  BY <1>0, <1>11, <1>12


(***************************************************************************)
(* Everything that the spec promises.                                      *)
(***************************************************************************)
LEMMA GivenHolds ==
    ASSUME NEW s \in PlatformSpecs, NEW k \in ComponentKinds, k # "ZelosBackplane",
           k \in DOMAIN s.child, NEW cr, cr = HandedDown(s, k),
           NEW pod, pod = Workload(cr), Admitted(<<WorkloadId(k), pod>>),
           NEW env, env = Environment(pod.env, TelemetryEnv(s), ConfigData(cr))
    PROVE  Given(s, k, pod, env)
<1>1. GivenImage(s, k, pod)
  BY ImageIsGiven
<1>2. GivenVariables(s, k, pod, env)
  BY VariablesAreGiven
<1>3. k # "ZelosClient" => GivenFiles(s, k, pod, env)
  BY FilesAreGiven
<1>4. k = "ZelosMCP" /\ s.child[k].auth # "" => GivenAuth(s.child[k], pod)
  BY FilesAreGiven
<1>5. QED
  BY <1>1, <1>2, <1>3, <1>4 DEF Given

(***************************************************************************)
(* Once the newest spec is in every object, the pods that start are given  *)
(* what it promises them.                                                  *)
(***************************************************************************)
THEOREM SettingsGiven == Spec => []SettingsReachPods
<1>1. ASSUME Inductive, Settled, NEW k \in WithPods
      PROVE  Given(Newest, k, objs[WorkloadId(k)], EnvironmentNow(objs[WorkloadId(k)]))
  <2>1. PICK s, cr, pod, env :
           /\ s = Newest /\ cr = HandedDown(s, k)
           /\ pod = objs[WorkloadId(k)] /\ env = EnvironmentNow(pod)
    OBVIOUS
  <2>2. /\ k \in ComponentKinds \ {"ZelosBackplane"}
        /\ s \in PlatformSpecs /\ k \in DOMAIN s.child
        /\ cr.kind = k /\ pod = Workload(cr)
        /\ env = Environment(pod.env, TelemetryEnv(s), ConfigData(cr))
        /\ Admitted(<<WorkloadId(k), pod>>)
    BY <1>1, <2>1, SettledPods
  <2>3. Given(s, k, pod, env)
    BY <2>1, <2>2, GivenHolds
  <2>4. QED
    BY <2>1, <2>3
<1>2. Inductive => SettingsReachPods
  BY <1>1 DEF SettingsReachPods
<1>3. QED
  BY <1>2, InvariantHolds, PTL

=============================================================================
