--------------------- MODULE ComponentController_proofs ---------------------
(***************************************************************************)
(* Proofs about the component controller, for every kind of component, set *)
(* of specs, bound and set of faults.                                      *)
(***************************************************************************)
EXTENDS ComponentController, TLAPS

(***************************************************************************)
(* Only known objects are rendered.                                        *)
(***************************************************************************)
LEMMA RenderedFacts == \A s : Rendered(s) \subseteq Parts
<1> SUFFICES ASSUME NEW s PROVE Rendered(s) \subseteq Parts
  OBVIOUS
<1>1. ReconcileOrder(s.kind) \in
          {<<"ConfigMap", "Workload", "Service", "HPA">>, <<"Workload", "Service">>,
           <<"ConfigMap", "Workload", "Service">>, <<"ConfigMap", "Workload">>,
           <<"ConfigMap", "PVC", "Workload", "Service">>}
  BY DEF ReconcileOrder, GatewayOrder, BackplaneOrder, MCPOrder,
         BrokerOrder, ServerOrder, ClientOrder
<1>2. \A i \in DOMAIN ReconcileOrder(s.kind) : ReconcileOrder(s.kind)[i] \in Parts
  BY <1>1 DEF Parts
<1>3. QED
  BY <1>2 DEF Rendered

(***************************************************************************)
(* Every verdict has the type of the workloadReadiness struct.             *)
(***************************************************************************)
LEMMA ReadinessType ==
    ASSUME NEW k, NEW o \in Objects
    PROVE  WorkloadReadiness(k, o) \in Verdicts
BY DEF WorkloadReadiness, NotFound, DaemonSetReadiness, ReplicaReadiness,
       Verdicts, Objects

LEMMA UnmanagedType ==
    ASSUME NEW s \in ComponentSpecs
    PROVE  UnmanagedVerdict(s) \in Verdicts
<1>1. (s.kind = "ZelosClient" \/ s.externalURL) \in BOOLEAN
  BY DEF ComponentSpecs
<1>2. QED
  BY <1>1 DEF UnmanagedVerdict, UnmanagedReadiness, Verdicts

(***************************************************************************)
(* The pass works on a spec the custom resource once had.                  *)
(***************************************************************************)
LEMMA SnapSpecType ==
    ASSUME TypeOK, CopiesLag
    PROVE  snap.gen \in 1..Len(specs) /\ SnapSpec \in ComponentSpecs
<1>1. snap.gen \in 1..Len(specs)
  BY DEF TypeOK, CopiesLag, Resources
<1>2. QED
  BY <1>1, SpecsAssumption DEF TypeOK, SnapSpec

LEMMA DesiredType ==
    ASSUME TypeOK, CopiesLag, NEW p \in Parts
    PROVE  DesiredOf(p) \in Nat
<1>1. SnapSpec.replicas \in Nat
  BY SnapSpecType DEF ComponentSpecs
<1>2. obj[p].desired \in Nat
  BY DEF TypeOK, Objects
<1>3. QED
  BY <1>1, <1>2 DEF DesiredOf

LEMMA OldPodsType ==
    ASSUME TypeOK, NEW p \in Parts
    PROVE  OldPods(p) \in Nat
<1>1. obj[p].avail \in Nat /\ obj[p].old \in Nat
  BY DEF TypeOK, Objects
<1>2. QED
  BY <1>1 DEF OldPods

LEMMA VerdictType ==
    ASSUME TypeOK, CopiesLag
    PROVE  Verdict \in Verdicts
<1>1. objCache["Workload"] \in Objects
  BY DEF TypeOK, Parts
<1>2. QED
  BY <1>1, SnapSpecType, ReadinessType, UnmanagedType DEF Verdict

(***************************************************************************)
(* A write by the running pass sets one object to the pass's generation    *)
(* and leaves the others alone.                                            *)
(***************************************************************************)
LEMMA WriteFacts ==
    ASSUME TypeOK, CopiesLag, NEW p \in Parts, WriteObject(p)
    PROVE  /\ obj' \in [Parts -> Objects]
           /\ obj'[p].gen = snap.gen
           /\ \A q \in Parts \ {p} : obj'[q] = obj[q]
<1>1. /\ obj[p] \in Objects /\ snap.gen \in Nat /\ DesiredOf(p) \in Nat
      /\ OldPods(p) \in Nat
  BY DesiredType, OldPodsType DEF TypeOK, Resources
<1> DEFINE o == Applied(obj[p], snap.gen, DesiredOf(p), OldPods(p))
<1>2. o \in Objects /\ o.gen = snap.gen
  BY <1>1 DEF Applied, Objects
<1>3. obj' = [obj EXCEPT ![p] = o]
  BY DEF WriteObject
<1> HIDE DEF o
<1>4. QED
  BY <1>2, <1>3 DEF TypeOK

(***************************************************************************)
(* The published status: if the write is taken, the copy was the newest    *)
(* and the generation observed is the current one.                         *)
(***************************************************************************)
LEMMA PublishFacts ==
    ASSUME TypeOK, CopiesLag, PublishStatus
    PROVE  /\ cr' \in Resources
           /\ faults' \subseteq Faults
           /\ cr'.gen = cr.gen
           /\ cr'.rv = cr.rv \/ cr'.rv = cr.rv + 1
           /\ cr'.rv = cr.rv => cr' = cr
           /\ cr'.obs = cr.obs \/ (cr'.obs = cr.gen /\ snap.gen = cr.gen)
<1>1. CASE UNCHANGED cr
  <2>1. faults' \subseteq Faults
    BY DEF PublishStatus, Fault, TypeOK
  <2>2. QED
    BY <1>1, <2>1 DEF TypeOK
<1>2. CASE /\ snap.rv = cr.rv
           /\ cr' = IF NewStatus = cr THEN cr ELSE [NewStatus EXCEPT !.rv = @ + 1]
           /\ UNCHANGED faults
  <2>1. snap = cr /\ snap \in Resources /\ cr \in Resources
    BY <1>2 DEF TypeOK, CopiesLag, Resources
  <2>2. /\ NewStatus \in Resources
        /\ NewStatus.gen = cr.gen /\ NewStatus.rv = cr.rv /\ NewStatus.obs = cr.gen
    BY <2>1, VerdictType DEF NewStatus, Resources
  <2>3. CASE NewStatus = cr
    BY <1>2, <2>1, <2>3 DEF TypeOK
  <2>4. CASE NewStatus # cr
    <3>1. cr' = [NewStatus EXCEPT !.rv = @ + 1]
      BY <1>2, <2>4
    <3>2. cr' \in Resources /\ cr'.gen = cr.gen /\ cr'.rv = cr.rv + 1 /\ cr'.obs = cr.gen
      BY <2>2, <3>1 DEF Resources
    <3>3. QED
      BY <1>2, <2>1, <3>2 DEF TypeOK, Resources
  <2>5. QED
    BY <2>3, <2>4
<1>3. QED
  BY <1>1, <1>2 DEF PublishStatus

(***************************************************************************)
(* The cluster changes an object's status, never the generation it was     *)
(* rendered from.                                                          *)
(***************************************************************************)
LEMMA SetWorkloadFacts ==
    ASSUME TypeOK, NEW d \in Nat, NEW a \in Nat, NEW o \in Nat, SetWorkload(d, a, o)
    PROVE  /\ obj' \in [Parts -> Objects]
           /\ \A q \in Parts : obj'[q].gen = obj[q].gen
<1>1. obj["Workload"] \in Objects /\ "Workload" \in Parts
  BY DEF TypeOK, Parts
<1>2. /\ WithStatus(obj["Workload"], d, a, o) \in Objects
      /\ WithStatus(obj["Workload"], d, a, o).gen = obj["Workload"].gen
  BY <1>1 DEF WithStatus, Objects
<1>3. QED
  BY <1>1, <1>2 DEF TypeOK, SetWorkload

(***************************************************************************)
(* The autoscaler works from a spec the custom resource once had.          *)
(***************************************************************************)
LEMMA ScalerType ==
    ASSUME Inductive, Autoscale
    PROVE  specs[obj["HPA"].gen].minReplicas \in Nat
<1>1. "HPA" \in Parts
  BY DEF Parts
<1>2. obj["HPA"].gen \in Nat /\ obj["HPA"].gen > 0 /\ obj["HPA"].gen <= crCache.gen
  BY <1>1 DEF Autoscale, Inductive, TypeOK, Objects, ObjectsLag
<1>3. obj["HPA"].gen \in 1..Len(specs)
  <2>1. crCache.gen <= cr.gen /\ cr.gen = Len(specs)
    BY DEF Inductive, CopiesLag, TypeOK
  <2>2. crCache.gen \in Nat /\ cr.gen \in Nat
    BY DEF Inductive, TypeOK, Resources
  <2>3. QED
    BY <1>2, <2>1, <2>2
<1>4. specs[obj["HPA"].gen] \in Specs
  <2>1. specs \in Seq(Specs)
    BY DEF Inductive, TypeOK
  <2>2. QED
    BY <1>3, <2>1
<1>5. \A s \in Specs : s.minReplicas \in Nat
  BY SpecsAssumption DEF ComponentSpecs
<1>6. QED
  BY <1>4, <1>5

LEMMA WorkloadStep ==
    ASSUME Inductive,
           \/ NodesCounted \/ PodBecomesAvailable \/ PodScaledDown \/ RollOut
           \/ PodFails \/ Autoscale \/ Annotate
    PROVE  /\ obj' \in [Parts -> Objects]
           /\ \A q \in Parts : obj'[q].gen = obj[q].gen
           /\ faults' \subseteq Faults
           /\ UNCHANGED <<specs, cr, crCache, objCache, wake, running, todo, snap>>
<1> USE DEF Inductive
<1> DEFINE w == obj["Workload"]
<1>1. /\ w \in Objects /\ w.desired \in Nat /\ w.avail \in Nat /\ w.old \in Nat
      /\ Nodes \in Nat
  BY NodesAssumption DEF TypeOK, Parts, Objects
<1>2. CASE NodesCounted
  BY <1>1, <1>2, SetWorkloadFacts DEF NodesCounted, controllerVars, TypeOK
<1>3. CASE PodBecomesAvailable
  <2>1. SetWorkload(w.desired, w.avail + 1, w.old) /\ w.avail + 1 \in Nat
    BY <1>1, <1>3 DEF PodBecomesAvailable
  <2>2. QED
    BY <1>1, <1>3, <2>1, SetWorkloadFacts DEF PodBecomesAvailable, controllerVars, TypeOK
<1>4. CASE PodScaledDown \/ PodFails
  <2>1. PICK old \in 0..(w.avail - 1) : SetWorkload(w.desired, w.avail - 1, old)
    BY <1>4 DEF PodScaledDown, PodFails, PodStops
  <2>2. old \in Nat /\ w.avail - 1 \in Nat
    BY <1>1
  <2>3. faults' \subseteq Faults
    BY <1>4 DEF PodScaledDown, PodFails, Fault, TypeOK
  <2>4. QED
    BY <1>1, <1>4, <2>1, <2>2, <2>3, SetWorkloadFacts
       DEF PodScaledDown, PodFails, controllerVars
<1>5. CASE RollOut
  <2>1. PICK a \in {w.avail, w.avail - 1} :
           a \in Nat /\ w.old - 1 \in Nat /\ SetWorkload(w.desired, a, w.old - 1)
    BY <1>1, <1>5 DEF RollOut
  <2>2. QED
    BY <1>1, <1>5, <2>1, SetWorkloadFacts DEF RollOut, controllerVars, TypeOK
<1>6. CASE Autoscale
  <2>1. SetWorkload(specs[obj["HPA"].gen].minReplicas, w.avail, w.old)
    BY <1>6 DEF Autoscale
  <2>2. QED
    BY <1>1, <1>6, <2>1, ScalerType, SetWorkloadFacts DEF Autoscale, controllerVars, TypeOK
<1>7. CASE Annotate
  BY <1>1, <1>7, SetWorkloadFacts DEF Annotate, controllerVars, TypeOK
<1>8. QED
  BY <1>2, <1>3, <1>4, <1>5, <1>6, <1>7

LEMMA SealFacts ==
    ASSUME TypeOK, NEW p \in Parts, Seal(p)
    PROVE  /\ obj' \in [Parts -> Objects]
           /\ \A q \in Parts : obj'[q].gen = obj[q].gen
<1>1. obj[p] \in Objects
  BY DEF TypeOK
<1>2. Sealed(obj[p]) \in Objects /\ Sealed(obj[p]).gen = obj[p].gen
  BY <1>1 DEF Sealed, Objects
<1>3. QED
  BY <1>2 DEF Seal, TypeOK

(***************************************************************************)
(* A step of the cluster that leaves the generations of the objects alone  *)
(* preserves the invariant.                                                *)
(***************************************************************************)
LEMMA ClusterStep ==
    ASSUME Inductive,
           obj' \in [Parts -> Objects],
           \A q \in Parts : obj'[q].gen = obj[q].gen,
           faults' \subseteq Faults,
           UNCHANGED <<specs, cr, crCache, objCache, wake, running, todo, snap>>
    PROVE  Inductive'
<1>1. TypeOK'
  BY DEF Inductive, TypeOK
<1>2. CopiesLag' /\ EventKept'
  BY DEF Inductive, CopiesLag, EventKept
<1>3. ObjectsLag'
  BY DEF Inductive, ObjectsLag
<1>4. PassProgress'
  BY RenderedFacts DEF Inductive, PassProgress, SnapSpec
<1>5. HonestStatus'
  BY RenderedFacts DEF Inductive, HonestStatus
<1>6. QED
  BY <1>1, <1>2, <1>3, <1>4, <1>5 DEF Inductive

(***************************************************************************)
(* A pass that ends in an error leaves what it has already applied.        *)
(***************************************************************************)
LEMMA FailStep ==
    ASSUME Inductive, Fail, faults' \subseteq Faults, UNCHANGED <<specs, cr, crCache, obj, objCache, snap>>
    PROVE  Inductive'
<1>1. running' = FALSE /\ todo' = {} /\ wake' \in {"delayed", "due"}
  BY DEF Fail, Requeued
<1>2. TypeOK'
  BY <1>1, RenderedFacts DEF Inductive, TypeOK
<1>3. CopiesLag' /\ HonestStatus'
  BY DEF Inductive, CopiesLag, HonestStatus
<1>4. ObjectsLag' /\ EventKept'
  BY <1>1 DEF Inductive, ObjectsLag, EventKept
<1>5. PassProgress'
  BY <1>1, RenderedFacts DEF PassProgress
<1>6. QED
  BY <1>2, <1>3, <1>4, <1>5 DEF Inductive

(***************************************************************************)
(* The write of an object keeps every fact about the other objects, and    *)
(* keeps the status honest: the object only moves forward.                 *)
(***************************************************************************)
LEMMA WriteStep ==
    ASSUME Inductive, NEW p \in Parts, running, WriteObject(p),
           UNCHANGED <<specs, cr, crCache, objCache, snap>>
    PROVE  /\ obj' \in [Parts -> Objects]
           /\ \A q \in Parts : obj'[q].gen <= snap.gen /\ obj'[q].gen >= obj[q].gen
           /\ \A q \in Parts : q # p => obj'[q] = obj[q]
           /\ obj'[p].gen = snap.gen
           /\ HonestStatus'
<1>1. /\ obj' \in [Parts -> Objects]
      /\ obj'[p].gen = snap.gen
      /\ \A q \in Parts \ {p} : obj'[q] = obj[q]
  BY WriteFacts DEF Inductive
<1>2. \A q \in Parts : obj[q].gen <= snap.gen /\ obj[q].gen \in Nat /\ snap.gen \in Nat
  BY DEF Inductive, ObjectsLag, TypeOK, Objects, Resources
<1>3. \A q \in Parts : obj'[q].gen <= snap.gen /\ obj'[q].gen >= obj[q].gen
  BY <1>1, <1>2
<1>4. \A q \in Parts : obj'[q].gen \in Nat
  BY <1>1 DEF Objects
<1>5. cr.obs \in Nat
  BY DEF Inductive, TypeOK, Resources
<1>6. HonestStatus'
  <2> SUFFICES ASSUME cr.obs > 0, NEW q \in Rendered(specs[cr.obs])
               PROVE  obj'[q].gen >= cr.obs
    BY DEF HonestStatus
  <2>1. q \in Parts /\ obj[q].gen >= cr.obs
    BY RenderedFacts DEF Inductive, HonestStatus
  <2>2. QED
    BY <1>2, <1>3, <1>4, <1>5, <2>1
<1>7. QED
  BY <1>1, <1>3, <1>6

LEMMA InitInductive == Init => Inductive
<1> SUFFICES ASSUME Init PROVE Inductive
  OBVIOUS
<1>1. PICK s \in Specs : specs = <<s>>
  BY DEF Init
<1>2. specs \in Seq(Specs) /\ Len(specs) = 1
  BY <1>1
<1>3. cr \in Resources /\ NoObject \in Objects
  BY DEF Init, Resources, Verdicts, NotFound, Objects, NoObject
<1>4. TypeOK
  BY <1>2, <1>3, RenderedFacts DEF Init, TypeOK
<1>5. CopiesLag /\ EventKept /\ HonestStatus
  BY <1>2 DEF Init, CopiesLag, EventKept, HonestStatus
<1>6. ObjectsLag
  BY DEF Init, ObjectsLag, NoObject
<1>7. PassProgress
  BY RenderedFacts DEF Init, PassProgress
<1>8. QED
  BY <1>4, <1>5, <1>6, <1>7 DEF Inductive

LEMMA BeginStep == Inductive /\ Begin => Inductive'
<1> SUFFICES ASSUME Inductive, Begin PROVE Inductive'
  OBVIOUS
<1>1. TypeOK'
  BY RenderedFacts DEF Inductive, TypeOK, Begin
<1>2. CopiesLag'
  BY DEF Inductive, CopiesLag, TypeOK, Resources, Begin
<1>3. ObjectsLag'
  BY DEF Inductive, ObjectsLag, Begin
<1>4. PassProgress'
  <2>1. running' /\ todo' = Rendered(SnapSpec')
    BY DEF Begin, SnapSpec
  <2>2. QED
    BY <2>1 DEF PassProgress
<1>5. EventKept'
  <2>1. snap'.rv = crCache'.rv /\ crCache.rv \in Nat
    BY DEF Inductive, TypeOK, Resources, Begin
  <2>2. QED
    BY <2>1 DEF EventKept, Begin
<1>6. HonestStatus'
  BY DEF Inductive, HonestStatus, Begin
<1>7. QED
  BY <1>1, <1>2, <1>3, <1>4, <1>5, <1>6 DEF Inductive

LEMMA ApplyStep == ASSUME NEW p \in Parts PROVE Inductive /\ Apply(p) => Inductive'
<1> SUFFICES ASSUME Inductive, Apply(p) PROVE Inductive'
  OBVIOUS
<1>1. running /\ running' /\ WriteObject(p) /\ todo' = todo \ {p}
  BY DEF Apply, Applying
<1>2. /\ obj' \in [Parts -> Objects]
      /\ \A q \in Parts : obj'[q].gen <= snap.gen /\ obj'[q].gen >= obj[q].gen
      /\ \A q \in Parts : q # p => obj'[q] = obj[q]
      /\ obj'[p].gen = snap.gen
      /\ HonestStatus'
  BY <1>1, WriteStep DEF Apply
<1>3. TypeOK'
  BY <1>1, <1>2, RenderedFacts DEF Inductive, TypeOK, Apply
<1>4. CopiesLag' /\ EventKept'
  BY <1>1, RenderedFacts DEF Inductive, CopiesLag, EventKept, Apply
<1>5. ObjectsLag'
  <2> SUFFICES ASSUME NEW q \in Parts
               PROVE  obj'[q].gen <= crCache.gen /\ obj'[q].gen <= snap.gen
    BY DEF ObjectsLag, Apply
  <2>1. obj'[q].gen \in Nat /\ snap.gen \in Nat /\ crCache.gen \in Nat
    BY <1>2 DEF Inductive, TypeOK, Objects, Resources
  <2>2. QED
    BY <1>2, <2>1 DEF Inductive, CopiesLag
<1>6. PassProgress'
  <2>a. todo \ {p} \subseteq Rendered(SnapSpec)
    BY <1>1 DEF Inductive, PassProgress
  <2>b. SnapSpec' = SnapSpec /\ snap' = snap
    BY DEF Apply, SnapSpec
  <2> SUFFICES ASSUME NEW q \in Rendered(SnapSpec) \ (todo \ {p})
               PROVE  obj'[q].gen = snap.gen
    BY <1>1, <2>a, <2>b DEF PassProgress
  <2>1. CASE q = p
    BY <1>2, <2>1
  <2>2. CASE q # p
    BY <1>1, <1>2, <2>2, RenderedFacts DEF Inductive, PassProgress
  <2>3. QED
    BY <2>1, <2>2
<1>7. QED
  BY <1>2, <1>3, <1>4, <1>5, <1>6 DEF Inductive

LEMMA ApplyFailsStep ==
    ASSUME NEW p \in Parts PROVE Inductive /\ ApplyFails(p) => Inductive'
<1> SUFFICES ASSUME Inductive, ApplyFails(p) PROVE Inductive'
  OBVIOUS
<1>1. faults' \subseteq Faults /\ Fail /\ UNCHANGED <<specs, cr, crCache, objCache, snap>>
  BY DEF ApplyFails, Fault, Inductive, TypeOK
<1>2. CASE UNCHANGED obj
  BY <1>1, <1>2, FailStep
<1>3. CASE WriteObject(p)
  <2>1. running
    BY DEF ApplyFails, Applying
  <2>2. /\ obj' \in [Parts -> Objects]
        /\ \A q \in Parts : obj'[q].gen <= snap.gen /\ obj'[q].gen >= obj[q].gen
        /\ HonestStatus'
    BY <1>1, <1>3, <2>1, WriteStep
  <2>3. running' = FALSE /\ todo' = {} /\ wake' \in {"delayed", "due"}
    BY <1>1 DEF Fail, Requeued
  <2>4. TypeOK'
    BY <1>1, <2>2, <2>3, RenderedFacts DEF Inductive, TypeOK
  <2>5. CopiesLag' /\ EventKept'
    BY <1>1, <2>3 DEF Inductive, CopiesLag, EventKept
  <2>6. ObjectsLag'
    <3> SUFFICES ASSUME NEW q \in Parts PROVE obj'[q].gen <= crCache.gen
      BY <1>1, <2>3 DEF ObjectsLag
    <3>1. obj'[q].gen \in Nat /\ snap.gen \in Nat /\ crCache.gen \in Nat
      BY <2>2 DEF Inductive, TypeOK, Objects, Resources
    <3>2. QED
      BY <2>2, <3>1 DEF Inductive, CopiesLag
  <2>7. PassProgress'
    BY <2>3, RenderedFacts DEF PassProgress
  <2>8. QED
    BY <2>2, <2>4, <2>5, <2>6, <2>7 DEF Inductive
<1>4. QED
  BY <1>2, <1>3 DEF ApplyFails

(***************************************************************************)
(* When a pass ends, every object it calls for is at its generation.       *)
(***************************************************************************)
LEMMA PassComplete ==
    ASSUME Inductive, running, todo = {}
    PROVE  \A p \in Rendered(SnapSpec) : p \in Parts /\ obj[p].gen = snap.gen
BY RenderedFacts DEF Inductive, PassProgress

LEMMA FinishStep == Inductive /\ Finish => Inductive'
<1> SUFFICES ASSUME Inductive, Finish PROVE Inductive'
  OBVIOUS
<1>1. /\ running /\ todo = {} /\ ~running' /\ todo' = {} /\ wake' \in {"none", "delayed", "due"}
      /\ PublishStatus
      /\ UNCHANGED <<specs, crCache, obj, objCache, snap>>
  BY DEF Finish, Requeued, Inductive, TypeOK
<1>2. /\ cr' \in Resources
      /\ faults' \subseteq Faults
      /\ cr'.gen = cr.gen
      /\ cr'.rv = cr.rv \/ cr'.rv = cr.rv + 1
      /\ cr'.rv = cr.rv => cr' = cr
      /\ cr'.obs = cr.obs \/ (cr'.obs = cr.gen /\ snap.gen = cr.gen)
  BY <1>1, PublishFacts DEF Inductive
<1>3. TypeOK'
  <2>1. running' \in BOOLEAN
    BY DEF Finish
  <2>2. todo' \subseteq Parts
    BY <1>1
  <2>3. QED
    BY <1>1, <1>2, <2>1, <2>2 DEF Inductive, TypeOK
<1>4. CopiesLag'
  BY <1>1, <1>2 DEF Inductive, CopiesLag, TypeOK, Resources
<1>5. ObjectsLag' /\ EventKept'
  BY <1>1 DEF Inductive, ObjectsLag, EventKept
<1>6. PassProgress'
  BY <1>1, RenderedFacts DEF PassProgress
<1>7. HonestStatus'
  <2>1. CASE cr'.obs = cr.obs
    BY <1>1, <2>1 DEF Inductive, HonestStatus
  <2>2. CASE cr'.obs = cr.gen /\ snap.gen = cr.gen
    <3>1. \A p \in Rendered(SnapSpec) : p \in Parts /\ obj[p].gen = snap.gen
      BY <1>1, PassComplete
    <3>2. cr.gen \in Nat
      BY DEF Inductive, TypeOK, Resources
    <3>3. QED
      BY <1>1, <2>2, <3>1, <3>2 DEF HonestStatus, SnapSpec
  <2>3. QED
    BY <1>2, <2>1, <2>2
<1>8. QED
  BY <1>3, <1>4, <1>5, <1>6, <1>7 DEF Inductive

LEMMA ManagerStep == Inductive /\ Manager => Inductive'
<1> SUFFICES ASSUME Inductive, Manager PROVE Inductive'
  OBVIOUS
<1>1. CASE DeliverResource
  <2>1. TypeOK'
    BY <1>1 DEF Inductive, TypeOK, DeliverResource
  <2>2. CopiesLag' /\ EventKept'
    BY <1>1 DEF Inductive, CopiesLag, EventKept, TypeOK, Resources, DeliverResource
  <2>3. ObjectsLag'
    BY <1>1 DEF Inductive, ObjectsLag, CopiesLag, TypeOK, Resources, Objects,
                DeliverResource
  <2>4. PassProgress' /\ HonestStatus'
    BY <1>1 DEF Inductive, PassProgress, HonestStatus, SnapSpec, DeliverResource
  <2>5. QED
    BY <2>1, <2>2, <2>3, <2>4 DEF Inductive
<1>2. ASSUME NEW p \in Parts, DeliverObject(p) PROVE Inductive'
  <2>1. TypeOK'
    BY <1>2 DEF Inductive, TypeOK, DeliverObject, controllerVars
  <2>2. CopiesLag' /\ EventKept' /\ ObjectsLag' /\ PassProgress' /\ HonestStatus'
    BY <1>2 DEF Inductive, CopiesLag, EventKept, ObjectsLag, PassProgress,
                HonestStatus, SnapSpec, DeliverObject, controllerVars
  <2>3. QED
    BY <2>1, <2>2 DEF Inductive
<1>3. CASE TimerFires
  <2>1. TypeOK'
    BY <1>3 DEF Inductive, TypeOK, TimerFires
  <2>2. CopiesLag' /\ EventKept' /\ ObjectsLag' /\ PassProgress' /\ HonestStatus'
    BY <1>3 DEF Inductive, CopiesLag, EventKept, ObjectsLag, PassProgress,
                HonestStatus, SnapSpec, TimerFires
  <2>3. QED
    BY <2>1, <2>2 DEF Inductive
<1>4. CASE Restart
  <2>1. TypeOK'
    <3>1. running' \in BOOLEAN /\ todo' \subseteq Parts /\ wake' = "due"
      BY <1>4 DEF Restart
    <3>2. faults' \subseteq Faults
      BY <1>4 DEF Restart, Fault, Inductive, TypeOK
    <3>3. QED
      BY <1>4, <3>1, <3>2 DEF Inductive, TypeOK, Restart
  <2>2. CopiesLag' /\ EventKept'
    BY <1>4 DEF Inductive, CopiesLag, EventKept, TypeOK, Resources, Restart
  <2>3. ObjectsLag'
    BY <1>4 DEF Inductive, ObjectsLag, CopiesLag, TypeOK, Resources, Objects, Restart
  <2>4. PassProgress' /\ HonestStatus'
    BY <1>4, RenderedFacts DEF Inductive, PassProgress, HonestStatus, Restart
  <2>5. QED
    BY <2>1, <2>2, <2>3, <2>4 DEF Inductive
<1>5. QED
  BY <1>1, <1>2, <1>3, <1>4 DEF Manager

LEMMA EditStep ==
    ASSUME NEW s \in Specs PROVE Inductive /\ EditSpec(s) => Inductive'
<1> SUFFICES ASSUME Inductive, EditSpec(s) PROVE Inductive'
  OBVIOUS
<1>1. /\ specs' = Append(specs, s)
      /\ cr' = [cr EXCEPT !.gen = @ + 1, !.rv = @ + 1]
      /\ UNCHANGED <<crCache, obj, objCache, wake, running, todo, snap, faults>>
  BY DEF EditSpec, controllerVars
<1>2. /\ specs' \in Seq(Specs) /\ Len(specs') = Len(specs) + 1
      /\ \A g \in 1..Len(specs) : specs'[g] = specs[g]
  BY <1>1 DEF Inductive, TypeOK
<1>3. /\ cr' \in Resources /\ cr'.gen = cr.gen + 1 /\ cr'.rv = cr.rv + 1
      /\ cr'.obs = cr.obs
  <2>1. cr \in Resources
    BY DEF Inductive, TypeOK
  <2> DEFINE next == [cr EXCEPT !.gen = cr.gen + 1]
  <2>2. /\ next \in Resources /\ next.gen = cr.gen + 1 /\ next.rv = cr.rv
        /\ next.obs = cr.obs
    BY <2>1 DEF Resources
  <2>3. cr' = [next EXCEPT !.rv = next.rv + 1]
    BY <1>1, <2>1, <2>2 DEF Resources
  <2> HIDE DEF next
  <2>4. QED
    BY <2>2, <2>3 DEF Resources
<1>4. snap.gen \in 1..Len(specs) /\ cr.obs \in 0..Len(specs)
  BY SnapSpecType DEF Inductive, CopiesLag, TypeOK, Resources
<1>5. TypeOK'
  BY <1>1, <1>2, <1>3 DEF Inductive, TypeOK
<1>6. CopiesLag'
  BY <1>1, <1>2, <1>3 DEF Inductive, CopiesLag, TypeOK, Resources
<1>7. ObjectsLag' /\ EventKept'
  BY <1>1 DEF Inductive, ObjectsLag, EventKept
<1>8. PassProgress'
  <2>1. SnapSpec' = SnapSpec
    BY <1>1, <1>2, <1>4 DEF SnapSpec
  <2>2. QED
    BY <1>1, <2>1 DEF Inductive, PassProgress
<1>9. HonestStatus'
  BY <1>1, <1>2, <1>3, <1>4 DEF Inductive, HonestStatus
<1>10. QED
  BY <1>5, <1>6, <1>7, <1>8, <1>9 DEF Inductive

LEMMA ClusterPreserves == Inductive /\ Cluster => Inductive'
<1> SUFFICES ASSUME Inductive, Cluster PROVE Inductive'
  OBVIOUS
<1>1. TypeOK
  BY DEF Inductive
<1>2. CASE \E s \in Specs : EditSpec(s)
  BY <1>2, EditStep
<1>3. CASE \/ NodesCounted \/ PodBecomesAvailable \/ PodScaledDown \/ RollOut
           \/ PodFails \/ Autoscale \/ Annotate
  BY <1>3, WorkloadStep, ClusterStep
<1>4. ASSUME NEW p \in Parts, Seal(p) PROVE Inductive'
  BY <1>1, <1>4, SealFacts, ClusterStep DEF Seal, controllerVars, TypeOK
<1>5. QED
  BY <1>2, <1>3, <1>4 DEF Cluster

LEMMA ReconcileStep == Inductive /\ Reconcile => Inductive'
<1> SUFFICES ASSUME Inductive, Reconcile PROVE Inductive'
  OBVIOUS
<1>1. ASSUME NEW p \in Parts, ApplyRefused(p) PROVE Inductive'
  BY <1>1, FailStep DEF ApplyRefused, Inductive, TypeOK
<1>2. QED
  BY <1>1, BeginStep, ApplyStep, ApplyFailsStep, FinishStep DEF Reconcile

LEMMA InductiveStep == Inductive /\ [Next]_vars => Inductive'
<1>1. Inductive /\ UNCHANGED vars => Inductive'
  BY DEF Inductive, TypeOK, CopiesLag, ObjectsLag, PassProgress, EventKept,
         HonestStatus, SnapSpec, vars
<1>2. QED
  BY <1>1, ReconcileStep, ManagerStep, ClusterPreserves DEF Next

(***************************************************************************)
(* The inductive invariant holds in every reachable state.                 *)
(***************************************************************************)
THEOREM InvariantHolds == Spec => []Inductive
BY InitInductive, InductiveStep, PTL DEF Spec

(***************************************************************************)
(* The variables keep their types: generations and versions are counters,  *)
(* the queue and the pass have the states the controller gives them.       *)
(***************************************************************************)
THEOREM TypeCorrect == Spec => []TypeOK
<1>1. Inductive => TypeOK
  BY DEF Inductive
<1>2. QED
  BY <1>1, InvariantHolds, PTL

(***************************************************************************)
(* Status().Update comes after every applyObject has succeeded: whatever   *)
(* fails, the generation the status claims to have observed is in every    *)
(* object that generation calls for.                                       *)
(***************************************************************************)
THEOREM StatusIsHonest == Spec => []HonestStatus
<1>1. Inductive => HonestStatus
  BY DEF Inductive
<1>2. QED
  BY <1>1, InvariantHolds, PTL

-----------------------------------------------------------------------------
(* No lost wake-up *)

(***************************************************************************)
(* A step that publishes either writes a status on the newest version, or  *)
(* finds that a newer version exists.                                      *)
(***************************************************************************)
LEMMA PublishOutcome ==
    ASSUME Inductive, "status" \notin faults', PublishStatus
    PROVE  \/ snap.rv < cr.rv /\ UNCHANGED cr
           \/ snap = cr /\ cr'.rv = cr.rv + 1 /\ cr'.gen = cr.gen
                 /\ cr'.obs = cr.gen /\ cr'.verdict = Verdict
           \/ snap = cr /\ cr' = cr /\ cr.obs = cr.gen /\ cr.verdict = Verdict
<1>1. snap.rv <= cr.rv /\ snap.rv \in Nat /\ cr.rv \in Nat /\ snap \in Resources
  BY DEF Inductive, CopiesLag, TypeOK, Resources
<1>2. CASE snap.rv # cr.rv
  BY <1>1, <1>2 DEF PublishStatus, Fault
<1>3. CASE snap.rv = cr.rv
  <2>1. snap = cr
    BY <1>1, <1>3 DEF Inductive, CopiesLag, TypeOK, Resources
  <2>2. cr' = IF NewStatus = cr THEN cr ELSE [NewStatus EXCEPT !.rv = @ + 1]
    BY <1>3 DEF PublishStatus, Fault
  <2>3. /\ NewStatus \in Resources /\ NewStatus.gen = cr.gen /\ NewStatus.rv = cr.rv
        /\ NewStatus.obs = cr.gen /\ NewStatus.verdict = Verdict
    BY <1>1, <2>1, VerdictType DEF NewStatus, Resources, Inductive
  <2>4. CASE NewStatus = cr
    BY <2>1, <2>2, <2>3, <2>4
  <2>5. CASE NewStatus # cr
    BY <2>1, <2>2, <2>3, <2>5 DEF Resources
  <2>6. QED
    BY <2>4, <2>5
<1>4. QED
  BY <1>2, <1>3

LEMMA WakeupInit == Init => NoLostWakeup
BY DEF Init, NoLostWakeup, Unsettled, Quiescent

(***************************************************************************)
(* A fault is never forgotten.                                             *)
(***************************************************************************)
LEMMA FaultsStay == [Next]_vars => faults \subseteq faults'
BY DEF Next, Reconcile, Manager, Cluster, Begin, Apply, ApplyRefused, ApplyFails, Finish,
       PublishStatus, DeliverResource, DeliverObject, TimerFires, Restart, EditSpec,
       NodesCounted, PodBecomesAvailable, PodScaledDown, RollOut, PodFails, Autoscale,
       Annotate, Seal, Fault, vars

LEMMA WakeupStep ==
    ASSUME Inductive, NoLostWakeup, [Next]_vars
    PROVE  NoLostWakeup'
<1> SUFFICES ASSUME "status" \notin faults'
             PROVE  Unsettled' => ~Quiescent'
  BY DEF NoLostWakeup
<1>0. Unsettled => ~Quiescent
  BY FaultsStay DEF NoLostWakeup
<1> USE <1>0 DEF Unsettled, Quiescent
<1>1. /\ cr.rv \in Nat /\ crCache.rv \in Nat /\ snap.rv \in Nat
      /\ snap.rv <= crCache.rv /\ crCache.rv <= cr.rv /\ cr.gen = Len(specs)
  BY DEF Inductive, CopiesLag, TypeOK, Resources
<1>2. CASE Finish
  <2>1. /\ running /\ ~running' /\ PublishStatus
        /\ UNCHANGED <<specs, crCache, obj, objCache, snap>>
        /\ wake' = IF Managed(SnapSpec) /\ ~Verdict.available THEN Requeued ELSE wake
    BY <1>2 DEF Finish
  <2>2. CASE snap.rv < cr.rv /\ UNCHANGED cr
    <3>1. CASE crCache.rv = cr.rv
      <4>1. wake = "due"
        BY <1>1, <2>1, <2>2, <3>1, RenderedFacts DEF Inductive, EventKept
      <4>2. QED
        BY <2>1, <4>1 DEF Requeued
    <3>2. QED
      BY <2>1, <2>2, <3>1
  <2>3. CASE snap = cr /\ cr'.rv = cr.rv + 1
    BY <1>1, <2>1, <2>3
  <2>4. CASE /\ snap = cr /\ cr' = cr /\ cr.obs = cr.gen /\ cr.verdict = Verdict
    BY <2>1, <2>4 DEF Requeued, SnapSpec
  <2>5. QED
    BY <2>1, <2>2, <2>3, <2>4, PublishOutcome
<1>3. CASE \E s \in Specs : EditSpec(s)
  <2>1. cr'.rv = cr.rv + 1 /\ crCache' = crCache
    BY <1>3 DEF EditSpec, Inductive, TypeOK, Resources
  <2>2. QED
    BY <1>1, <2>1
<1>4. CASE Begin \/ DeliverResource \/ TimerFires \/ Restart
  BY <1>4, RenderedFacts DEF Begin, DeliverResource, TimerFires, Restart
<1>5. ASSUME NEW p \in Parts, Apply(p) \/ ApplyRefused(p) \/ ApplyFails(p)
      PROVE  Unsettled' => ~Quiescent'
  BY <1>5, RenderedFacts DEF Apply, ApplyRefused, ApplyFails, Applying, Fail, Requeued
<1>6. ASSUME NEW p \in Parts, DeliverObject(p) \/ Seal(p)
      PROVE  Unsettled' => ~Quiescent'
  BY <1>6 DEF DeliverObject, Seal, controllerVars
<1>7. CASE \/ NodesCounted \/ PodBecomesAvailable \/ PodScaledDown \/ RollOut
           \/ PodFails \/ Autoscale \/ Annotate
  BY <1>7 DEF NodesCounted, PodBecomesAvailable, PodScaledDown, RollOut, PodFails,
              Autoscale, Annotate, controllerVars
<1>8. CASE UNCHANGED vars
  BY <1>8 DEF vars
<1>9. QED
  BY <1>2, <1>3, <1>4, <1>5, <1>6, <1>7, <1>8 DEF Next, Reconcile, Manager, Cluster

(***************************************************************************)
(* Until a status write fails for another reason than a Conflict, a        *)
(* status that is behind the spec, or not Ready, is always going to be     *)
(* looked at again: conflicts, failed applies, lost answers, crashes and   *)
(* edits during a pass lose no wake-up.                                    *)
(***************************************************************************)
THEOREM NoWakeupLost == Spec => []NoLostWakeup
<1>1. Inductive /\ NoLostWakeup /\ [Next]_vars => NoLostWakeup'
  BY WakeupStep
<1>2. QED
  BY <1>1, WakeupInit, InvariantHolds, PTL DEF Spec

-----------------------------------------------------------------------------
(* The contract *)

(***************************************************************************)
(* What a step of the controller does to the objects' generations.         *)
(***************************************************************************)
LEMMA GenerationSteps ==
    ASSUME Inductive, [Next]_vars
    PROVE  \/ \A q \in Parts : obj'[q].gen = obj[q].gen
           \/ \E p \in Parts :
                /\ Applying(p) /\ WriteObject(p)
                /\ UNCHANGED <<specs, cr, crCache, objCache, snap>>
<1>1. TypeOK
  BY DEF Inductive
<1>2. CASE UNCHANGED obj
  BY <1>2
<1>3. CASE \/ NodesCounted \/ PodBecomesAvailable \/ PodScaledDown \/ RollOut
           \/ PodFails \/ Autoscale \/ Annotate
  BY <1>3, WorkloadStep
<1>4. ASSUME NEW p \in Parts, Seal(p)
      PROVE  \A q \in Parts : obj'[q].gen = obj[q].gen
  BY <1>1, <1>4, SealFacts
<1>5. ASSUME NEW p \in Parts, Apply(p) \/ ApplyFails(p)
      PROVE  \/ UNCHANGED obj
             \/ /\ Applying(p) /\ WriteObject(p)
                /\ UNCHANGED <<specs, cr, crCache, objCache, snap>>
  BY <1>5 DEF Apply, ApplyFails
<1>6. CASE \/ Begin \/ Finish \/ DeliverResource \/ TimerFires \/ Restart
           \/ UNCHANGED vars
  BY <1>6 DEF Begin, Finish, DeliverResource, TimerFires, Restart, vars
<1>7. ASSUME NEW p \in Parts, ApplyRefused(p) \/ DeliverObject(p)
       PROVE  UNCHANGED obj
  BY <1>7 DEF ApplyRefused, DeliverObject
<1>8. ASSUME NEW s \in Specs, EditSpec(s) PROVE UNCHANGED obj
  BY <1>8 DEF EditSpec
<1>9. QED
  BY <1>2, <1>3, <1>4, <1>5, <1>6, <1>7, <1>8
     DEF Next, Reconcile, Manager, Cluster

(***************************************************************************)
(* An object is never taken back to an earlier generation: every pass      *)
(* reads a copy at least as new as the pass before it, also after a        *)
(* restart.                                                                *)
(***************************************************************************)
THEOREM NoRollback == Spec => NeverRolledBack
<1>1. Inductive /\ [Next]_vars => [\A p \in Parts : obj'[p].gen >= obj[p].gen]_vars
  <2> SUFFICES ASSUME Inductive, [Next]_vars
               PROVE  \A q \in Parts : obj'[q].gen >= obj[q].gen
    OBVIOUS
  <2>1. \A q \in Parts : obj[q].gen \in Nat
    BY DEF Inductive, TypeOK, Objects
  <2>2. ASSUME NEW p \in Parts, Applying(p), WriteObject(p),
               UNCHANGED <<specs, cr, crCache, objCache, snap>>
        PROVE  \A q \in Parts : obj'[q].gen >= obj[q].gen
    BY <2>2, WriteStep DEF Applying
  <2>3. QED
    BY <2>1, <2>2, GenerationSteps
<1>2. QED
  BY <1>1, InvariantHolds, PTL DEF Spec, NeverRolledBack

LEMMA SameTables ==
    /\ Contract!Parts = Parts
    /\ \A s : Contract!Rendered(s) = Rendered(s)
<1>1. Contract!Parts = Parts
  BY DEF Contract!Parts, Parts
<1>2. \A k : Contract!ReconcileOrder(k) = ReconcileOrder(k)
  BY DEF Contract!ReconcileOrder, ReconcileOrder,
         Contract!GatewayOrder, GatewayOrder, Contract!BackplaneOrder, BackplaneOrder,
         Contract!MCPOrder, MCPOrder, Contract!BrokerOrder, BrokerOrder,
         Contract!ServerOrder, ServerOrder, Contract!ClientOrder, ClientOrder
<1>3. ASSUME NEW s
      PROVE  /\ Contract!Managed(s) = Managed(s)
             /\ Contract!WantsPVC(s) = WantsPVC(s)
             /\ Contract!WantsHPA(s) = WantsHPA(s)
  BY DEF Contract!Managed, Managed, Contract!OperatorManagedNATS, OperatorManagedNATS,
         Contract!WantsPVC, WantsPVC, Contract!WantsHPA, WantsHPA
<1>4. ASSUME NEW s PROVE Contract!Rendered(s) = Rendered(s)
  BY <1>2, <1>3 DEF Contract!Rendered, Rendered
<1>5. QED
  BY <1>1, <1>4

LEMMA ContractInit == Init => Contract!Init
<1> SUFFICES ASSUME Init PROVE Contract!Init
  OBVIOUS
<1>1. [p \in Parts |-> obj[p].gen] = [p \in Parts |-> 0]
  BY DEF Init, NoObject
<1>2. QED
  BY <1>1, SameTables DEF Init, Contract!Init

LEMMA ContractStep ==
    ASSUME Inductive, [Next]_vars
    PROVE  [Contract!Next]_(Contract!vars)
<1> DEFINE rendered == [p \in Parts |-> obj[p].gen]
<1>1. CASE \E s \in Specs : EditSpec(s)
  <2>1. PICK s \in Specs : EditSpec(s)
    BY <1>1
  <2>2. /\ specs' = Append(specs, s) /\ cr'.obs = cr.obs /\ obj' = obj
        /\ s.kind = specs[cr.gen].kind
    BY <2>1 DEF EditSpec, Inductive, TypeOK, Resources
  <2>3. Contract!Edit(s)
    BY <2>2 DEF Contract!Edit, Contract!Newest, Inductive, CopiesLag
  <2>4. QED
    BY <2>3 DEF Contract!Next
<1>2. CASE Finish
  <2>1. /\ running /\ todo = {} /\ PublishStatus
        /\ UNCHANGED <<specs, crCache, obj, objCache, snap>>
    BY <1>2 DEF Finish
  <2>2. CASE cr'.obs = cr.obs
    BY <2>1, <2>2 DEF Contract!vars
  <2>3. CASE cr'.obs = cr.gen /\ snap.gen = cr.gen
    <3>1. cr.gen = Len(specs)
      BY DEF Inductive, CopiesLag
    <3>2. \A p \in Rendered(specs[Len(specs)]) : p \in Parts /\ obj[p].gen = Len(specs)
      BY <2>1, <2>3, <3>1, PassComplete DEF SnapSpec
    <3>3. Contract!Observe
      BY <2>1, <2>3, <3>1, <3>2, SameTables DEF Contract!Observe, Contract!Newest
    <3>4. QED
      BY <3>3 DEF Contract!Next
  <2>4. QED
    BY <2>1, <2>2, <2>3, PublishFacts DEF Inductive
<1>3. ASSUME NEW p \in Parts, Applying(p), WriteObject(p),
             UNCHANGED <<specs, cr, crCache, objCache, snap>>
      PROVE  Contract!Render(p)
  <2>1. /\ obj' \in [Parts -> Objects]
        /\ \A q \in Parts : q # p => obj'[q] = obj[q]
        /\ obj'[p].gen = snap.gen
    BY <1>3, WriteStep DEF Applying
  <2>2. snap.gen \in 1..Len(specs) /\ p \in Rendered(specs[snap.gen])
    BY <1>3, SnapSpecType DEF Applying, SnapSpec, Inductive, PassProgress
  <2>3. obj[p].gen <= snap.gen
    BY <1>3, RenderedFacts DEF Inductive, ObjectsLag, Applying
  <2>4. rendered' = [rendered EXCEPT ![p] = snap.gen]
    BY <2>1
  <2>5. QED
    BY <1>3, <2>2, <2>3, <2>4, SameTables DEF Contract!Render, Contract!Newest
<1>4. CASE ~(\E s \in Specs : EditSpec(s)) /\ ~Finish
  <2>1. UNCHANGED <<specs, cr>>
    BY <1>4 DEF Next, Reconcile, Manager, Cluster, Begin, Apply, ApplyRefused,
       ApplyFails, DeliverResource, DeliverObject, TimerFires, Restart, NodesCounted,
       PodBecomesAvailable, PodScaledDown, RollOut, PodFails, Autoscale, Annotate, Seal,
       vars
  <2>2. CASE \A q \in Parts : obj'[q].gen = obj[q].gen
    <3>1. rendered' = rendered
      BY <2>2
    <3>2. QED
      BY <2>1, <3>1 DEF Contract!vars
  <2>3. CASE \E p \in Parts :
               /\ Applying(p) /\ WriteObject(p)
               /\ UNCHANGED <<specs, cr, crCache, objCache, snap>>
    BY <1>3, <2>3, SameTables DEF Contract!Next
  <2>4. QED
    BY <2>2, <2>3, GenerationSteps
<1>5. QED
  BY <1>1, <1>2, <1>4

(***************************************************************************)
(* The controller implements the contract of a component.                  *)
(***************************************************************************)
THEOREM ContractKept == Spec => KeepsContract
BY ContractInit, ContractStep, InvariantHolds, PTL DEF Spec, KeepsContract, Contract!Spec

=============================================================================
