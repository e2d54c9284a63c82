------------------------ MODULE ComponentReady_proofs ------------------------
(***************************************************************************)
(* Proof that a component's Ready is true whenever nothing will re-examine *)
(* it, unless a pod has failed.                                            *)
(***************************************************************************)
EXTENDS ComponentController_proofs

-----------------------------------------------------------------------------
(* What specs render *)

LEMMA ManagedHasWorkload ==
    ASSUME NEW s \in ComponentSpecs
    PROVE  /\ "Workload" \in Rendered(s) <=> Managed(s)
           /\ Rendered(s) # {} => Managed(s)
           /\ "HPA" \in Rendered(s) => s.kind = "ZelosGateway" /\ WantsHPA(s)
<1> DEFINE order == ReconcileOrder(s.kind)
<1>1. s.kind \in ComponentKinds
  BY DEF ComponentSpecs
<1>2. /\ \E i \in DOMAIN order : order[i] = "Workload"
      /\ (\E i \in DOMAIN order : order[i] = "HPA") => s.kind = "ZelosGateway"
  <2>1. CASE s.kind = "ZelosGateway"
    <3>1. order = <<"ConfigMap", "Workload", "Service", "HPA">>
      BY <2>1 DEF ReconcileOrder, GatewayOrder
    <3>2. 2 \in DOMAIN order /\ order[2] = "Workload"
      BY <3>1
    <3>3. QED
      BY <2>1, <3>2
  <2>2. CASE s.kind = "ZelosBackplane"
    <3>1. order = <<"Workload", "Service">>
      BY <2>2 DEF ReconcileOrder, BackplaneOrder
    <3>2. 1 \in DOMAIN order /\ order[1] = "Workload"
      BY <3>1
    <3>3. QED
      BY <3>1, <3>2
  <2>3. CASE s.kind \in {"ZelosMCP", "ZelosBroker"}
    <3>1. order = <<"ConfigMap", "PVC", "Workload", "Service">>
      BY <2>3 DEF ReconcileOrder, MCPOrder, BrokerOrder
    <3>2. 3 \in DOMAIN order /\ order[3] = "Workload"
      BY <3>1
    <3>3. QED
      BY <3>1, <3>2
  <2>4. CASE s.kind = "ZelosServer"
    <3>1. order = <<"ConfigMap", "Workload", "Service">>
      BY <2>4 DEF ReconcileOrder, ServerOrder
    <3>2. 2 \in DOMAIN order /\ order[2] = "Workload"
      BY <3>1
    <3>3. QED
      BY <3>1, <3>2
  <2>5. CASE s.kind = "ZelosClient"
    <3>1. order = <<"ConfigMap", "Workload">>
      BY <2>5 DEF ReconcileOrder, ClientOrder
    <3>2. 2 \in DOMAIN order /\ order[2] = "Workload"
      BY <3>1
    <3>3. QED
      BY <3>1, <3>2
  <2>6. QED
    BY <1>1, <2>1, <2>2, <2>3, <2>4, <2>5 DEF ComponentKinds
<1>3. \A p : p \in Rendered(s) <=>
                /\ \E i \in DOMAIN order : order[i] = p
                /\ Managed(s) /\ (p = "PVC" => WantsPVC(s)) /\ (p = "HPA" => WantsHPA(s))
  BY DEF Rendered
<1> HIDE DEF order
<1>4. QED
  BY <1>2, <1>3

(***************************************************************************)
(* For all kinds but the client, available is what it says.                *)
(***************************************************************************)
LEMMA AvailableFacts ==
    ASSUME NEW s \in ComponentSpecs, s.kind # "ZelosClient", NEW o \in Objects
    PROVE  WorkloadReadiness(WorkloadKind(s.kind), o).available <=> Available(o)
<1>1. WorkloadKind(s.kind) # "DaemonSet"
  BY DEF WorkloadKind
<1>2. CASE Exists(o)
  BY <1>1, <1>2 DEF WorkloadReadiness, ReplicaReadiness, Available
<1>3. CASE ~Exists(o)
  BY <1>3 DEF WorkloadReadiness, NotFound, Available
<1>4. QED
  BY <1>2, <1>3

(***************************************************************************)
(* Where workloads are steady, none that is managed is a DaemonSet.        *)
(***************************************************************************)
LEMMA NoDaemonSet ==
    ASSUME Steady, NEW s \in Specs, Managed(s)
    PROVE  s.kind # "ZelosClient" /\ WorkloadKind(s.kind) # "DaemonSet"
BY DEF Steady, SizesAgree, Managed, WorkloadKind

LEMMA SpecFacts ==
    ASSUME Inductive, NEW g \in 1..Len(specs)
    PROVE  specs[g] \in Specs /\ specs[g] \in ComponentSpecs
BY SpecsAssumption DEF Inductive, TypeOK

LEMMA PartFacts == "Workload" \in Parts /\ "HPA" \in Parts /\ "Workload" # "HPA"
BY DEF Parts

(***************************************************************************)
(* Generations and versions are numbers.                                   *)
(***************************************************************************)
LEMMA Counters ==
    ASSUME Inductive
    PROVE  /\ cr.gen \in Nat /\ crCache.gen \in Nat /\ snap.gen \in Nat
           /\ cr.rv \in Nat /\ crCache.rv \in Nat /\ snap.rv \in Nat
           /\ cr.obs \in Nat /\ crCache.obs \in Nat /\ snap.obs \in Nat
           /\ snap.gen \in 1..Len(specs) /\ crCache.gen \in 1..Len(specs)
           /\ cr.gen \in 1..Len(specs)
           /\ \A p \in Parts : /\ obj[p] \in Objects /\ objCache[p] \in Objects
                               /\ obj[p].gen \in 0..Len(specs)
<1>1. /\ cr.gen \in Nat /\ crCache.gen \in Nat /\ snap.gen \in Nat
      /\ cr.rv \in Nat /\ crCache.rv \in Nat /\ snap.rv \in Nat
      /\ cr.obs \in Nat /\ crCache.obs \in Nat /\ snap.obs \in Nat
  BY DEF Inductive, TypeOK, Resources
<1>2. /\ snap.gen \in 1..Len(specs) /\ crCache.gen \in 1..Len(specs)
      /\ cr.gen \in 1..Len(specs)
  BY <1>1 DEF Inductive, CopiesLag
<1>3. \A p \in Parts : obj[p] \in Objects /\ objCache[p] \in Objects
  BY DEF Inductive, TypeOK
<1>4. \A p \in Parts : obj[p].gen \in 0..Len(specs)
  <2>1. \A o \in Objects : o.gen \in Nat
    BY DEF Objects
  <2>2. QED
    BY <1>2, <1>3, <2>1 DEF Inductive, ObjectsLag
<1>5. QED
  BY <1>1, <1>2, <1>3, <1>4

-----------------------------------------------------------------------------
(* What a step does to the objects *)

\* A pass writes object p.
Writes(p) ==
    /\ Applying(p) /\ Taken(p) /\ WriteObject(p)
    /\ UNCHANGED <<specs, cr, crCache, objCache, snap>>

\* The cluster counts pods: closer to the size, unless one fails, and not more
\* of an earlier template than there were.
CountsPods ==
    /\ Exists(obj["Workload"])
    /\ \E a, o \in Nat :
          /\ SetWorkload(obj["Workload"].desired, a, o)
          /\ o <= obj["Workload"].old
          /\ \/ "pod" \in faults'
             \/ a >= obj["Workload"].avail
             \/ a >= obj["Workload"].desired
    /\ UNCHANGED <<specs, cr, crCache, objCache, wake, running, todo, snap>>

(***************************************************************************)
(* Where workloads are steady, these are the steps that change objects.    *)
(***************************************************************************)
LEMMA ObjectSteps ==
    ASSUME Steady, Inductive, SizedBySpec, [Next]_vars
    PROVE  \/ UNCHANGED obj
           \/ \E p \in Parts : Writes(p)
           \/ CountsPods
           \/ \E p \in Parts : Seal(p)
<1> DEFINE w == obj["Workload"]
<1>1. /\ w \in Objects /\ w.desired \in Nat /\ w.avail \in Nat /\ w.rv \in Nat
      /\ w.old \in Nat
  BY PartFacts, Counters DEF Objects
<1>2. CASE Autoscale
  <2>1. /\ obj["HPA"].gen > 0 /\ w.desired > 0
        /\ w.desired # specs[obj["HPA"].gen].minReplicas
    BY <1>2 DEF Autoscale
  <2>2. /\ Exists(w) /\ w.gen > 0 /\ w.desired = specs[w.gen].replicas
        /\ specs[obj["HPA"].gen].kind = "ZelosGateway"
        /\ WantsHPA(specs[obj["HPA"].gen])
        /\ \A g \in 1..Len(specs) : specs[g].kind = specs[1].kind
    BY <2>1 DEF SizedBySpec
  <2>3. w.gen \in 1..Len(specs) /\ obj["HPA"].gen \in 1..Len(specs)
    BY <2>1, <2>2, PartFacts, Counters
  <2>4. specs[w.gen].kind = "ZelosGateway"
    <3>1. specs[w.gen].kind = specs[1].kind /\ specs[obj["HPA"].gen].kind = specs[1].kind
      BY <2>2, <2>3
    <3>2. QED
      BY <2>2, <3>1
  <2>5. specs[w.gen].replicas = specs[obj["HPA"].gen].minReplicas
    BY <2>2, <2>3, <2>4, SpecFacts DEF Steady, SizesAgree
  <2>6. QED
    BY <2>1, <2>2, <2>5
<1>3. CASE NodesCounted
  <2>1. WorkloadKind(specs[cr.gen].kind) = "DaemonSet"
    BY <1>3 DEF NodesCounted
  <2>2. Exists(w)
    BY <1>3 DEF NodesCounted
  <2>3. w.gen > 0 /\ Managed(specs[w.gen]) /\ specs[w.gen].kind = specs[cr.gen].kind
    BY <2>2, PartFacts, Counters DEF SizedBySpec
  <2>4. QED
    BY <2>1, <2>3, PartFacts, Counters, SpecFacts, NoDaemonSet
<1>4. CASE PodBecomesAvailable
  <2>1. SetWorkload(w.desired, w.avail + 1, w.old) /\ w.avail + 1 \in Nat /\ Exists(w)
    BY <1>1, <1>4 DEF PodBecomesAvailable
  <2>2. w.avail + 1 >= w.avail /\ w.old <= w.old
    BY <1>1
  <2>3. UNCHANGED <<specs, cr, crCache, objCache, wake, running, todo, snap>>
    BY <1>4 DEF PodBecomesAvailable, controllerVars
  <2>4. QED
    BY <1>1, <2>1, <2>2, <2>3 DEF CountsPods
<1>5. CASE PodScaledDown \/ PodFails
  <2>1. w.avail > 0 /\ w.avail - 1 \in Nat
    BY <1>1, <1>5 DEF PodScaledDown, PodFails, PodStops
  <2>2. PICK o \in 0..(w.avail - 1) :
           (o = w.old \/ o + 1 = w.old) /\ SetWorkload(w.desired, w.avail - 1, o)
    BY <1>5 DEF PodScaledDown, PodFails, PodStops
  <2>3. o \in Nat /\ o <= w.old
    BY <1>1, <2>2
  <2>4. "pod" \in faults' \/ w.avail - 1 >= w.desired
    BY <1>1, <1>5 DEF PodScaledDown, PodFails, Fault
  <2>5. UNCHANGED <<specs, cr, crCache, objCache, wake, running, todo, snap>>
    BY <1>5 DEF PodScaledDown, PodFails, controllerVars
  <2>6. Exists(w)
    BY <2>1 DEF SizedBySpec
  <2>7. QED
    BY <2>1, <2>2, <2>3, <2>4, <2>5, <2>6 DEF CountsPods
<1>6. CASE RollOut
  <2>1. w.old > 0 /\ w.old - 1 \in Nat /\ w.old - 1 <= w.old
    BY <1>1, <1>6 DEF RollOut
  <2>2. UNCHANGED <<specs, cr, crCache, objCache, wake, running, todo, snap>>
    BY <1>6 DEF RollOut, controllerVars
  <2>3. /\ Exists(w) /\ w.gen \in 1..Len(specs) /\ Managed(specs[w.gen])
        /\ w.desired = specs[w.gen].replicas
        /\ specs[cr.gen].kind = specs[w.gen].kind
    BY <2>1, PartFacts, Counters DEF SizedBySpec
  <2>4. MaxUnavailable(WorkloadKind(specs[cr.gen].kind), w.desired) = 0
    <3>1. PICK g \in 1..Len(specs) :
             Managed(specs[g]) /\ Template(specs[g]) # Template(specs[w.gen])
      BY <2>1 DEF SizedBySpec
    <3>2. specs[g].kind = specs[w.gen].kind
      BY <2>3 DEF SizedBySpec
    <3>3. specs[g] \in Specs /\ specs[w.gen] \in Specs
      BY <2>3, SpecFacts
    <3>4. QED
      BY <2>3, <3>1, <3>2, <3>3 DEF Steady, RollsInPlace
  <2>5. CASE w.avail > w.desired /\ SetWorkload(w.desired, w.avail - 1, w.old - 1)
    <3>1. w.avail - 1 \in Nat /\ w.avail - 1 >= w.desired
      BY <1>1, <2>5
    <3>2. QED
      BY <2>1, <2>2, <2>3, <2>5, <3>1 DEF CountsPods
  <2>6. CASE SetWorkload(w.desired, w.avail, w.old - 1)
    <3>1. w.avail >= w.avail
      BY <1>1
    <3>2. QED
      BY <1>1, <2>1, <2>2, <2>3, <2>6, <3>1 DEF CountsPods
  <2>7. QED
    BY <1>1, <1>6, <2>4, <2>5, <2>6 DEF RollOut
<1>7. CASE Annotate
  <2>1. /\ SetWorkload(w.desired, w.avail, w.old) /\ Exists(w)
        /\ UNCHANGED <<specs, cr, crCache, objCache, wake, running, todo, snap>>
    BY <1>7 DEF Annotate, controllerVars
  <2>2. w.avail >= w.avail /\ w.old <= w.old
    BY <1>1
  <2>3. QED
    BY <1>1, <2>1, <2>2 DEF CountsPods
<1>8. ASSUME NEW p \in Parts, Apply(p) \/ ApplyFails(p)
      PROVE  UNCHANGED obj \/ Writes(p)
  BY <1>8 DEF Apply, ApplyFails, Writes
<1>9. CASE \/ Begin \/ Finish \/ DeliverResource \/ TimerFires \/ Restart
           \/ UNCHANGED vars
  BY <1>9 DEF Begin, Finish, DeliverResource, TimerFires, Restart, vars
<1>10. ASSUME NEW p \in Parts, ApplyRefused(p) \/ DeliverObject(p) PROVE UNCHANGED obj
  BY <1>10 DEF ApplyRefused, DeliverObject
<1>11. ASSUME NEW s \in Specs, EditSpec(s) PROVE UNCHANGED obj
  BY <1>11 DEF EditSpec
<1>12. QED
  BY <1>2, <1>3, <1>4, <1>5, <1>6, <1>7, <1>8, <1>9, <1>10, <1>11
     DEF Next, Reconcile, Manager, Cluster

(***************************************************************************)
(* A write brings one object to the generation of the pass, and the        *)
(* workload to the size of that generation; a workload that is already     *)
(* there is left alone.                                                    *)
(***************************************************************************)
LEMMA WritesFacts ==
    ASSUME Steady, Inductive, SizedBySpec, NEW p \in Parts, Writes(p)
    PROVE  /\ running /\ p \in Rendered(SnapSpec)
           /\ objCache[p].rv = obj[p].rv
           /\ \A q \in Parts : q # p => obj'[q] = obj[q]
           /\ obj'[p] \in Objects /\ Exists(obj'[p])
           /\ obj'[p].gen = snap.gen /\ snap.gen > 0 /\ obj[p].gen <= snap.gen
           /\ obj'[p] = obj[p] \/ obj'[p].rv = obj[p].rv + 1
           /\ Managed(specs[snap.gen])
           /\ p = "Workload" => obj'[p].desired = specs[snap.gen].replicas
           /\ p = "Workload" /\ obj[p].gen = snap.gen => obj'[p] = obj[p]
           /\ p = "Workload" /\ obj'[p].old > 0 =>
                 \E g \in 1..Len(specs) :
                    Managed(specs[g]) /\ Template(specs[g]) # Template(specs[snap.gen])
<1>1. running /\ p \in todo /\ p \in Rendered(SnapSpec)
  BY DEF Writes, Applying, Inductive, PassProgress
<1>2. objCache[p].rv = obj[p].rv
  BY DEF Writes, Taken, Accepted
<1>3. /\ obj' \in [Parts -> Objects] /\ obj'[p].gen = snap.gen
      /\ \A q \in Parts \ {p} : obj'[q] = obj[q]
  BY WriteFacts DEF Inductive, Writes
<1>4. snap.gen > 0 /\ obj[p].gen <= snap.gen
  BY <1>1, Counters DEF Inductive, ObjectsLag
<1>5. obj[p] \in Objects /\ obj[p].rv \in Nat /\ DesiredOf(p) \in Nat /\ snap.gen \in Nat
  BY Counters, DesiredType DEF Inductive, Objects
<1>6. obj'[p] = Applied(obj[p], snap.gen, DesiredOf(p), OldPods(p))
  BY DEF Writes, WriteObject, Inductive, TypeOK
<1>7. /\ Exists(obj'[p])
      /\ obj'[p] = obj[p] \/ obj'[p].rv = obj[p].rv + 1
      /\ obj'[p].desired = DesiredOf(p)
  BY <1>5, <1>6 DEF Applied, Exists
<1>8. Managed(specs[snap.gen])
  BY <1>1, Counters, SpecFacts, ManagedHasWorkload DEF SnapSpec
<1>9. ASSUME p = "Workload"
      PROVE  DesiredOf(p) = specs[snap.gen].replicas
  BY <1>8, <1>9, Counters, SpecFacts, NoDaemonSet DEF DesiredOf, SnapSpec
<1>10. ASSUME p = "Workload", obj[p].gen = snap.gen
       PROVE  obj'[p] = obj[p]
  <2>1. Exists(obj[p]) /\ obj[p].desired = specs[snap.gen].replicas
    BY <1>4, <1>10 DEF SizedBySpec
  <2>2. QED
    BY <1>6, <1>9, <1>10, <2>1 DEF Applied
<1>11. ASSUME p = "Workload", obj'[p].old > 0
       PROVE  \E g \in 1..Len(specs) :
                 Managed(specs[g]) /\ Template(specs[g]) # Template(specs[snap.gen])
  <2>1. CASE obj[p].gen = snap.gen
    BY <1>10, <1>11, <2>1 DEF SizedBySpec
  <2>2. CASE obj[p].gen # snap.gen
    <3>1. OldPods(p) > 0
      BY <1>6, <1>11, <2>2 DEF Applied
    <3>2. Exists(obj[p])
      BY <1>11, <3>1 DEF OldPods, SizedBySpec
    <3>3. obj[p].gen \in 1..Len(specs) /\ Managed(specs[obj[p].gen])
      BY <1>11, <3>2, Counters DEF SizedBySpec
    <3>4. CASE Template(specs[obj[p].gen]) # Template(specs[snap.gen])
      BY <3>3, <3>4
    <3>5. CASE Template(specs[obj[p].gen]) = Template(specs[snap.gen])
      <4>1. obj[p].old > 0
        BY <3>1, <3>5 DEF OldPods, SnapSpec
      <4>2. QED
        BY <1>11, <3>5, <4>1 DEF SizedBySpec
    <3>6. QED
      BY <3>4, <3>5
  <2>3. QED
    BY <2>1, <2>2
<1>12. QED
  BY <1>1, <1>2, <1>3, <1>4, <1>7, <1>8, <1>9, <1>10, <1>11

(***************************************************************************)
(* Every object goes forward: each change takes a new version, and none    *)
(* goes back to an earlier generation.                                     *)
(***************************************************************************)
LEMMA ObjectsForward ==
    ASSUME Steady, Inductive, SizedBySpec, [Next]_vars, NEW q \in Parts
    PROVE  /\ obj'[q] \in Objects
           /\ obj'[q] = obj[q] \/ obj'[q].rv = obj[q].rv + 1
           /\ obj'[q].gen >= obj[q].gen
<1>1. obj[q] \in Objects /\ obj[q].gen \in Nat /\ TypeOK
  BY Counters DEF Objects, Inductive
<1>2. CASE UNCHANGED obj
  BY <1>1, <1>2
<1>3. ASSUME NEW p \in Parts, Writes(p)
      PROVE  /\ obj'[q] \in Objects
             /\ obj'[q] = obj[q] \/ obj'[q].rv = obj[q].rv + 1
             /\ obj'[q].gen >= obj[q].gen
  <2>1. CASE q = p
    BY <1>1, <1>3, <2>1, WritesFacts, Counters
  <2>2. CASE q # p
    BY <1>1, <1>3, <2>2, WritesFacts
  <2>3. QED
    BY <2>1, <2>2
<1>4. CASE CountsPods
  <2>1. PICK a \in Nat, o \in Nat : SetWorkload(obj["Workload"].desired, a, o)
    BY <1>4 DEF CountsPods
  <2>2. obj["Workload"].desired \in Nat
    BY PartFacts, Counters DEF Objects
  <2>3. obj' \in [Parts -> Objects] /\ obj'[q].gen = obj[q].gen
    BY <1>1, <2>1, <2>2, SetWorkloadFacts
  <2>4. obj'[q] = obj[q] \/ obj'[q].rv = obj[q].rv + 1
    BY <1>1, <2>1 DEF SetWorkload, WithStatus, TypeOK
  <2>5. QED
    BY <1>1, <2>3, <2>4
<1>5. ASSUME NEW p \in Parts, Seal(p)
      PROVE  /\ obj'[q] \in Objects
             /\ obj'[q] = obj[q] \/ obj'[q].rv = obj[q].rv + 1
             /\ obj'[q].gen >= obj[q].gen
  <2>1. obj' \in [Parts -> Objects] /\ obj'[q].gen = obj[q].gen
    BY <1>1, <1>5, SealFacts
  <2>2. obj'[q] = obj[q] \/ obj'[q].rv = obj[q].rv + 1
    BY <1>1, <1>5 DEF Seal, Sealed, TypeOK
  <2>3. QED
    BY <1>1, <2>1, <2>2
<1>6. QED
  BY <1>2, <1>3, <1>4, <1>5, ObjectSteps

(***************************************************************************)
(* An available workload stays available while its generation stays and no *)
(* pod fails.                                                              *)
(***************************************************************************)
LEMMA AvailableKept ==
    ASSUME Steady, Inductive, SizedBySpec, [Next]_vars,
           "pod" \notin faults', Available(obj["Workload"]),
           obj'["Workload"].gen = obj["Workload"].gen
    PROVE  Available(obj'["Workload"])
<1> DEFINE w == obj["Workload"]
<1>1. TypeOK /\ w \in Objects /\ w.desired \in Nat /\ w.avail \in Nat /\ w.rv \in Nat
  BY PartFacts, Counters DEF Objects, Inductive
<1>2. CASE UNCHANGED obj
  BY <1>2
<1>3. ASSUME NEW p \in Parts, Writes(p)
      PROVE  Available(obj'["Workload"])
  <2>1. obj'["Workload"] = obj["Workload"]
    BY <1>3, PartFacts, WritesFacts
  <2>2. QED
    BY <2>1
<1>4. CASE CountsPods
  <2>1. PICK a \in Nat, o \in Nat : /\ SetWorkload(w.desired, a, o)
                                    /\ a >= w.avail \/ a >= w.desired
    BY <1>4 DEF CountsPods
  <2>2. obj'["Workload"] = WithStatus(w, w.desired, a, o)
    BY <1>1, <2>1, PartFacts DEF SetWorkload, TypeOK
  <2>3. QED
    BY <1>1, <2>1, <2>2 DEF WithStatus, Available, Exists
<1>5. ASSUME NEW p \in Parts, Seal(p)
      PROVE  Available(obj'["Workload"])
  <2>1. obj'["Workload"] = w \/ obj'["Workload"] = Sealed(w)
    BY <1>1, <1>5, PartFacts DEF Seal, TypeOK
  <2>2. QED
    BY <1>1, <2>1 DEF Sealed, Available, Exists
<1>6. QED
  BY <1>2, <1>3, <1>4, <1>5, ObjectSteps

-----------------------------------------------------------------------------
(* What a step does to the specs and the copies *)

LEMMA SpecsStep ==
    ASSUME Inductive, [Next]_vars
    PROVE  \/ UNCHANGED specs
           \/ /\ \E s \in Specs : specs' = Append(specs, s) /\ s.kind = specs[Len(specs)].kind
              /\ UNCHANGED <<crCache, obj, objCache, wake, running, todo, snap, faults>>
              /\ cr'.rv = cr.rv + 1
<1>1. ASSUME NEW s \in Specs, EditSpec(s)
      PROVE  /\ specs' = Append(specs, s) /\ s.kind = specs[Len(specs)].kind
             /\ UNCHANGED <<crCache, obj, objCache, wake, running, todo, snap, faults>>
             /\ cr'.rv = cr.rv + 1
  BY <1>1 DEF EditSpec, controllerVars, Inductive, CopiesLag, TypeOK, Resources
<1>2. QED
  BY <1>1 DEF Next, Reconcile, Manager, Cluster, Begin, Apply, ApplyRefused,
       ApplyFails, Finish, DeliverResource, DeliverObject, TimerFires, Restart,
       NodesCounted, PodBecomesAvailable, PodScaledDown, RollOut, PodFails, Autoscale,
       Annotate, Seal, vars

LEMMA SpecsKept ==
    ASSUME Inductive, [Next]_vars
    PROVE  \A g \in 1..Len(specs) : g \in 1..Len(specs') /\ specs'[g] = specs[g]
<1>1. specs \in Seq(Specs) /\ Len(specs) \in Nat
  BY DEF Inductive, TypeOK
<1>2. QED
  BY <1>1, SpecsStep

LEMMA CopiesStep ==
    ASSUME [Next]_vars
    PROVE  snap' \in {snap, crCache} /\ crCache' \in {crCache, cr}
BY DEF Next, Reconcile, Manager, Cluster, Begin, Apply, ApplyRefused,
       ApplyFails, Finish, DeliverResource, DeliverObject, TimerFires, Restart,
       NodesCounted, PodBecomesAvailable, PodScaledDown, RollOut, PodFails, Autoscale,
       Annotate, Seal, EditSpec, controllerVars, vars

LEMMA ObjectCopiesStep ==
    ASSUME Inductive, [Next]_vars, NEW q \in Parts
    PROVE  \/ objCache'[q] = objCache[q]
           \/ objCache'[q] = obj[q] /\ UNCHANGED obj
<1>1. objCache \in [Parts -> Objects]
  BY DEF Inductive, TypeOK
<1>2. QED
  BY <1>1 DEF Next, Reconcile, Manager, Cluster, Begin, Apply, ApplyRefused,
       ApplyFails, Finish, DeliverResource, DeliverObject, TimerFires, Restart,
       NodesCounted, PodBecomesAvailable, PodScaledDown, RollOut, PodFails, Autoscale,
       Annotate, Seal, EditSpec, controllerVars, vars

-----------------------------------------------------------------------------
(* The invariant *)

LEMMA ObjectCopiesLagStep ==
    ASSUME Steady, Inductive, SizedBySpec, ObjectCopiesLag, [Next]_vars
    PROVE  ObjectCopiesLag'
<1> SUFFICES ASSUME NEW q \in Parts
             PROVE  /\ objCache'[q].rv <= obj'[q].rv
                    /\ objCache'[q].rv = obj'[q].rv => objCache'[q] = obj'[q]
                    /\ objCache'[q].gen <= obj'[q].gen
  BY DEF ObjectCopiesLag
<1>1. /\ obj[q].rv \in Nat /\ obj[q].gen \in Nat
      /\ objCache[q].rv \in Nat /\ objCache[q].gen \in Nat
  BY Counters DEF Objects
<1>2. /\ obj'[q].rv \in Nat /\ obj'[q].gen \in Nat
      /\ obj'[q] = obj[q] \/ obj'[q].rv = obj[q].rv + 1
      /\ obj'[q].gen >= obj[q].gen
  BY ObjectsForward DEF Objects
<1>3. CASE objCache'[q] = objCache[q]
  BY <1>1, <1>2, <1>3 DEF ObjectCopiesLag
<1>4. CASE objCache'[q] = obj[q] /\ UNCHANGED obj
  BY <1>1, <1>4
<1>5. QED
  BY <1>3, <1>4, ObjectCopiesStep

LEMMA SizedBySpecStep ==
    ASSUME Steady, Inductive, SizedBySpec, [Next]_vars
    PROVE  SizedBySpec'
<1> DEFINE Workload(o, s) ==
        IF Exists(o) THEN o.gen > 0 /\ Managed(s[o.gen]) /\ o.desired = s[o.gen].replicas
        ELSE o.gen = 0 /\ o.desired = 0 /\ o.avail = 0 /\ o.old = 0
    Old(o, s) == o.old > 0 =>
        \E g \in 1..Len(s) : Managed(s[g]) /\ Template(s[g]) # Template(s[o.gen])
    HPA(o, s) == o.gen > 0 => s[o.gen].kind = "ZelosGateway" /\ WantsHPA(s[o.gen])
<1>1. SizedBySpec <=> /\ \A g \in 1..Len(specs) : specs[g].kind = specs[1].kind
                      /\ Workload(obj["Workload"], specs)
                      /\ Old(obj["Workload"], specs)
                      /\ HPA(obj["HPA"], specs)
  BY DEF SizedBySpec
<1>2. SizedBySpec' <=> /\ \A g \in 1..Len(specs') : specs'[g].kind = specs'[1].kind
                       /\ Workload(obj'["Workload"], specs')
                       /\ Old(obj'["Workload"], specs')
                       /\ HPA(obj'["HPA"], specs')
  BY DEF SizedBySpec
<1>3. specs \in Seq(Specs) /\ Len(specs) \in Nat /\ Len(specs) >= 1
  BY Counters DEF Inductive, TypeOK
<1>4. \A g \in 1..Len(specs') : specs'[g].kind = specs'[1].kind
  <2>1. CASE UNCHANGED specs
    BY <1>1, <2>1
  <2>2. ASSUME NEW s \in Specs, specs' = Append(specs, s), s.kind = specs[Len(specs)].kind
        PROVE  \A g \in 1..Len(specs') : specs'[g].kind = specs'[1].kind
    <3>1. s.kind = specs[1].kind
      BY <1>1, <1>3, <2>2
    <3>2. QED
      BY <1>1, <1>3, <2>2, <3>1
  <2>3. QED
    BY <2>1, <2>2, SpecsStep
<1>5. /\ obj["Workload"].gen > 0 => obj["Workload"].gen \in 1..Len(specs)
      /\ obj["HPA"].gen > 0 => obj["HPA"].gen \in 1..Len(specs)
  BY PartFacts, Counters
<1>6. CASE UNCHANGED obj
  <2>1. Workload(obj["Workload"], specs')
    BY <1>1, <1>5, SpecsKept
  <2>2. HPA(obj["HPA"], specs')
    BY <1>1, <1>5, SpecsKept
  <2>3. Old(obj["Workload"], specs')
    <3>1. CASE obj["Workload"].old > 0
      <4>1. obj["Workload"].gen \in 1..Len(specs)
        BY <1>1, <1>5, <3>1
      <4>2. PICK g \in 1..Len(specs) :
               Managed(specs[g]) /\ Template(specs[g]) # Template(specs[obj["Workload"].gen])
        BY <1>1, <3>1
      <4>3. g \in 1..Len(specs') /\ specs'[g] = specs[g]
            /\ specs'[obj["Workload"].gen] = specs[obj["Workload"].gen]
        BY <4>1, SpecsKept
      <4>4. QED
        BY <4>2, <4>3
    <3>2. QED
      BY <3>1
  <2>4. QED
    BY <1>2, <1>4, <1>6, <2>1, <2>2, <2>3
<1>7. ASSUME NEW p \in Parts, Writes(p)
      PROVE  SizedBySpec'
  <2>1. /\ running /\ p \in Rendered(SnapSpec)
        /\ \A q \in Parts : q # p => obj'[q] = obj[q]
        /\ Exists(obj'[p]) /\ obj'[p].gen = snap.gen /\ snap.gen > 0
        /\ Managed(specs[snap.gen])
        /\ p = "Workload" => obj'[p].desired = specs[snap.gen].replicas
        /\ p = "Workload" /\ obj'[p].old > 0 =>
              \E g \in 1..Len(specs) :
                 Managed(specs[g]) /\ Template(specs[g]) # Template(specs[snap.gen])
    BY <1>7, WritesFacts
  <2>2. specs' = specs
    BY <1>7 DEF Writes
  <2>3. Workload(obj'["Workload"], specs)
    BY <1>1, <2>1, PartFacts
  <2>4. HPA(obj'["HPA"], specs)
    <3>1. CASE p = "HPA"
      BY <2>1, <3>1, Counters, SpecFacts, ManagedHasWorkload DEF SnapSpec
    <3>2. CASE p # "HPA"
      BY <1>1, <2>1, <3>2, PartFacts
    <3>3. QED
      BY <3>1, <3>2
  <2>5. Old(obj'["Workload"], specs)
    <3>1. CASE p = "Workload"
      BY <2>1, <3>1
    <3>2. CASE p # "Workload"
      BY <1>1, <2>1, <3>2, PartFacts
    <3>3. QED
      BY <3>1, <3>2
  <2>6. QED
    BY <1>2, <1>4, <2>2, <2>3, <2>4, <2>5
<1>8. CASE CountsPods
  <2>1. PICK a \in Nat, o \in Nat :
           SetWorkload(obj["Workload"].desired, a, o) /\ o <= obj["Workload"].old
    BY <1>8 DEF CountsPods
  <2>2. Exists(obj["Workload"]) /\ specs' = specs
    BY <1>8 DEF CountsPods
  <2>3. /\ obj'["HPA"] = obj["HPA"]
        /\ obj'["Workload"] = WithStatus(obj["Workload"], obj["Workload"].desired, a, o)
    BY <2>1, PartFacts DEF SetWorkload, Inductive, TypeOK
  <2>4. obj["Workload"].rv \in Nat /\ obj["Workload"].old \in Nat
    BY PartFacts, Counters DEF Objects
  <2>5. Workload(obj'["Workload"], specs)
    BY <1>1, <2>2, <2>3, <2>4 DEF WithStatus, Exists
  <2>6. Old(obj'["Workload"], specs)
    <3>1. /\ obj'["Workload"].old > 0 => obj["Workload"].old > 0
          /\ obj'["Workload"].gen = obj["Workload"].gen
      BY <2>1, <2>3, <2>4 DEF WithStatus
    <3>2. QED
      BY <1>1, <3>1
  <2>7. QED
    BY <1>1, <1>2, <1>4, <2>2, <2>3, <2>5, <2>6
<1>9. ASSUME NEW p \in Parts, Seal(p)
      PROVE  SizedBySpec'
  <2>1. specs' = specs /\ Exists(obj[p])
    BY <1>9 DEF Seal
  <2>2. /\ obj'[p] = Sealed(obj[p])
        /\ \A q \in Parts : q # p => obj'[q] = obj[q]
    BY <1>9 DEF Seal, Inductive, TypeOK
  <2>3. obj[p].rv \in Nat
    BY Counters DEF Objects
  <2>4. Workload(obj'["Workload"], specs)
    BY <1>1, <2>1, <2>2, <2>3, PartFacts DEF Sealed, Exists
  <2>5. HPA(obj'["HPA"], specs)
    BY <1>1, <2>2, PartFacts DEF Sealed
  <2>6. Old(obj'["Workload"], specs)
    <3>1. /\ obj'["Workload"].old = obj["Workload"].old
          /\ obj'["Workload"].gen = obj["Workload"].gen
      BY <2>2, PartFacts DEF Sealed
    <3>2. QED
      BY <1>1, <3>1
  <2>7. QED
    BY <1>2, <1>4, <2>1, <2>4, <2>5, <2>6
<1>10. QED
  BY <1>6, <1>7, <1>8, <1>9, ObjectSteps

LEMMA HonestCopiesStep ==
    ASSUME Steady, Inductive, SizedBySpec, HonestCopies, [Next]_vars
    PROVE  HonestCopies'
<1> SUFFICES ASSUME NEW r \in {snap', crCache'}
             PROVE  /\ r.obs <= r.gen
                    /\ r.obs > 0 => \A p \in Rendered(specs'[r.obs]) : obj'[p].gen >= r.obs
  BY DEF HonestCopies
<1>1. r \in {snap, crCache, cr}
  BY CopiesStep
<1>2. r.obs \in Nat /\ r.gen \in 1..Len(specs)
  BY <1>1, Counters
<1>3. /\ r.obs <= r.gen
      /\ r.obs > 0 => \A p \in Rendered(specs[r.obs]) : obj[p].gen >= r.obs
  BY <1>1 DEF HonestCopies, Inductive, CopiesLag, HonestStatus
<1>4. ASSUME r.obs > 0, NEW p \in Rendered(specs'[r.obs])
      PROVE  obj'[p].gen >= r.obs
  <2>1. r.obs \in 1..Len(specs)
    BY <1>2, <1>3, <1>4
  <2>2. p \in Parts /\ obj[p].gen >= r.obs
    BY <1>3, <1>4, <2>1, SpecsKept, RenderedFacts
  <2>3. obj'[p].gen >= obj[p].gen /\ obj[p].gen \in Nat /\ obj'[p].gen \in Nat
    BY <2>2, ObjectsForward, Counters DEF Objects
  <2>4. QED
    BY <1>2, <2>2, <2>3
<1>5. QED
  BY <1>3, <1>4

LEMMA CopyIsTrueStep ==
    ASSUME Steady, Inductive, SizedBySpec, ObjectCopiesLag, CopyIsTrue, [Next]_vars
    PROVE  CopyIsTrue'
<1> SUFFICES ASSUME "pod" \notin faults',
                    objCache'["Workload"].gen = obj'["Workload"].gen,
                    Available(objCache'["Workload"])
             PROVE  Available(obj'["Workload"])
  BY DEF CopyIsTrue
<1>1. CASE objCache'["Workload"] = obj["Workload"] /\ UNCHANGED obj
  BY <1>1
<1>2. CASE objCache'["Workload"] = objCache["Workload"]
  <2>1. /\ objCache["Workload"].gen \in Nat /\ obj["Workload"].gen \in Nat
        /\ obj'["Workload"].gen \in Nat /\ obj'["Workload"].gen >= obj["Workload"].gen
    BY PartFacts, Counters, ObjectsForward DEF Objects
  <2>2. objCache["Workload"].gen <= obj["Workload"].gen
    BY PartFacts DEF ObjectCopiesLag
  <2>3. obj'["Workload"].gen = obj["Workload"].gen
    BY <1>2, <2>1, <2>2
  <2>4. "pod" \notin faults
    BY FaultsStay
  <2>5. Available(obj["Workload"])
    BY <1>2, <2>3, <2>4 DEF CopyIsTrue
  <2>6. QED
    BY <2>3, <2>5, AvailableKept
<1>3. QED
  BY <1>1, <1>2, PartFacts, ObjectCopiesStep

LEMMA PollIsCurrentStep ==
    ASSUME Steady, Inductive, ReadyInvariant, [Next]_vars
    PROVE  PollIsCurrent'
<1> SUFFICES ASSUME running', snap'.obs = snap'.gen,
                    "Workload" \in Rendered(specs'[snap'.gen]) \ todo'
             PROVE  objCache'["Workload"].gen = snap'.gen
  BY DEF PollIsCurrent, SnapSpec
<1>0. snap.gen \in 1..Len(specs)
  BY Counters
<1>1. CASE /\ UNCHANGED <<running, snap, todo>>
           /\ UNCHANGED specs \/ \A g \in 1..Len(specs) : specs'[g] = specs[g]
           /\ objCache'["Workload"] = objCache["Workload"]
  BY <1>0, <1>1 DEF ReadyInvariant, PollIsCurrent, SnapSpec
<1>2. CASE Begin
  BY <1>2 DEF Begin
<1>3. ASSUME NEW p \in Parts, Apply(p)
      PROVE  objCache'["Workload"].gen = snap'.gen
  <2>1. /\ running /\ UNCHANGED <<snap, specs, objCache>> /\ todo' = todo \ {p}
        /\ Taken(p)
    BY <1>3 DEF Apply, Applying
  <2>2. CASE p = "Workload"
    <3>1. objCache["Workload"] = obj["Workload"]
      BY <2>1, <2>2 DEF Taken, Accepted, ReadyInvariant, ObjectCopiesLag
    <3>2. snap.obs > 0 /\ snap.obs = snap.gen /\ "Workload" \in Rendered(specs[snap.obs])
      BY <1>0, <2>1
    <3>3. obj["Workload"].gen >= snap.gen
      BY <3>2 DEF ReadyInvariant, HonestCopies
    <3>4. obj["Workload"].gen <= snap.gen
      BY <2>1, PartFacts DEF Inductive, ObjectsLag
    <3>5. obj["Workload"].gen \in Nat /\ snap.gen \in Nat
      BY PartFacts, Counters
    <3>6. QED
      BY <2>1, <3>1, <3>3, <3>4, <3>5
  <2>3. CASE p # "Workload"
    BY <2>1, <2>3 DEF ReadyInvariant, PollIsCurrent, SnapSpec
  <2>4. QED
    BY <2>2, <2>3
<1>4. ASSUME NEW p \in Parts, ApplyRefused(p) \/ ApplyFails(p)
      PROVE  FALSE
  BY <1>4 DEF ApplyRefused, ApplyFails, Fail
<1>5. CASE Finish \/ Restart
  BY <1>5 DEF Finish, Restart
<1>6. ASSUME NEW p \in Parts, DeliverObject(p)
      PROVE  objCache'["Workload"].gen = snap'.gen
  <2>1. /\ UNCHANGED <<running, snap, todo, specs, obj>>
        /\ objCache' = [objCache EXCEPT ![p] = obj[p]]
    BY <1>6 DEF DeliverObject, controllerVars
  <2>2. CASE p = "Workload"
    <3>1. obj["Workload"].gen = snap.gen
      BY <2>1 DEF Inductive, PassProgress, SnapSpec
    <3>2. QED
      BY <2>1, <2>2, <3>1, PartFacts DEF Inductive, TypeOK
  <2>3. CASE p # "Workload"
    BY <1>1, <2>1, <2>3, PartFacts DEF Inductive, TypeOK
  <2>4. QED
    BY <2>2, <2>3
<1>7. CASE DeliverResource \/ TimerFires
  BY <1>1, <1>7 DEF DeliverResource, TimerFires
<1>8. ASSUME NEW s \in Specs, EditSpec(s)
      PROVE  objCache'["Workload"].gen = snap'.gen
  BY <1>1, <1>8, SpecsKept DEF EditSpec, controllerVars
<1>9. CASE \/ NodesCounted \/ PodBecomesAvailable \/ PodScaledDown \/ RollOut
           \/ PodFails \/ Autoscale \/ Annotate
  BY <1>1, <1>9, WorkloadStep
<1>10. ASSUME NEW p \in Parts, Seal(p)
       PROVE  objCache'["Workload"].gen = snap'.gen
  BY <1>1, <1>10 DEF Seal, controllerVars
<1>11. CASE UNCHANGED vars
  BY <1>1, <1>11 DEF vars
<1>12. QED
  BY <1>2, <1>3, <1>4, <1>5, <1>6, <1>7, <1>8, <1>9, <1>10, <1>11
     DEF Next, Reconcile, Manager, Cluster

(***************************************************************************)
(* A pass that ends and leaves nothing to wake the controller has polled a *)
(* true copy of a workload of its generation.                              *)
(***************************************************************************)
LEMMA LastPoll ==
    ASSUME Steady, Inductive, ReadyInvariant, Finish, "pod" \notin faults', Quiescent',
           cr'.obs = cr'.gen, Managed(specs'[cr'.gen])
    PROVE  Available(obj'["Workload"])
<1>1. /\ running /\ todo = {} /\ PublishStatus
      /\ UNCHANGED <<specs, crCache, obj, objCache, snap>>
      /\ wake' = IF Managed(SnapSpec) /\ ~Verdict.available THEN Requeued ELSE wake
  BY DEF Finish
<1>2. wake' = "none" /\ crCache.rv = cr'.rv
  BY <1>1 DEF Quiescent
<1>3. cr' = cr
  BY <1>1, <1>2, Counters, PublishFacts DEF Inductive, CopiesLag
<1>4. crCache = cr
  BY <1>2, <1>3 DEF Inductive, CopiesLag
<1>5. wake = "none" /\ (Managed(SnapSpec) => Verdict.available)
  BY <1>1, <1>2 DEF Requeued
<1>6. snap = cr
  <2>1. ~(snap.rv < crCache.rv)
    BY <1>1, <1>5 DEF Inductive, EventKept
  <2>2. QED
    BY <1>4, <2>1, Counters DEF Inductive, CopiesLag
<1>7. SnapSpec = specs[cr.gen] /\ SnapSpec \in Specs /\ SnapSpec \in ComponentSpecs
  BY <1>6, Counters, SpecFacts DEF SnapSpec
<1>8. /\ Managed(SnapSpec) /\ "Workload" \in Rendered(SnapSpec)
      /\ SnapSpec.kind # "ZelosClient"
  BY <1>1, <1>3, <1>7, ManagedHasWorkload, NoDaemonSet
<1>9. Available(objCache["Workload"])
  BY <1>5, <1>7, <1>8, PartFacts, Counters, AvailableFacts DEF Verdict
<1>10. objCache["Workload"].gen = snap.gen
  BY <1>1, <1>3, <1>6, <1>8 DEF ReadyInvariant, PollIsCurrent
<1>11. obj["Workload"].gen = snap.gen
  BY <1>1, <1>8 DEF Inductive, PassProgress
<1>12. "pod" \notin faults
  BY <1>1 DEF PublishStatus, Fault
<1>13. QED
  BY <1>1, <1>9, <1>10, <1>11, <1>12 DEF ReadyInvariant, CopyIsTrue

LEMMA ReadyAtRestStep ==
    ASSUME Steady, Inductive, ReadyInvariant, [Next]_vars
    PROVE  ReadyAtRest'
<1> SUFFICES ASSUME "pod" \notin faults', Quiescent', cr'.obs = cr'.gen,
                    Managed(specs'[cr'.gen]), cr'.verdict.available
             PROVE  Available(obj'["Workload"])
  BY DEF ReadyAtRest
<1>1. CASE /\ UNCHANGED <<specs, cr, crCache, wake, running>>
           /\ obj'["Workload"].gen = obj["Workload"].gen
  <2>1. "pod" \notin faults
    BY FaultsStay
  <2>2. Available(obj["Workload"])
    BY <1>1, <2>1 DEF ReadyInvariant, ReadyAtRest, Quiescent
  <2>3. QED
    BY <1>1, <2>2, AvailableKept DEF ReadyInvariant
<1>2. CASE Finish
  BY <1>2, LastPoll
<1>3. CASE Begin \/ DeliverResource \/ TimerFires \/ Restart
  BY <1>3 DEF Begin, DeliverResource, TimerFires, Restart, Quiescent
<1>4. ASSUME NEW p \in Parts, Apply(p) \/ ApplyRefused(p) \/ ApplyFails(p)
      PROVE  FALSE
  BY <1>4 DEF Apply, Applying, ApplyRefused, ApplyFails, Fail, Requeued, Quiescent
<1>5. ASSUME NEW s \in Specs, EditSpec(s)
      PROVE  FALSE
  <2>1. crCache' = crCache /\ cr'.rv = cr.rv + 1
    BY <1>5 DEF EditSpec, Inductive, TypeOK, Resources
  <2>2. QED
    BY <2>1, Counters DEF Quiescent, Inductive, CopiesLag
<1>6. ASSUME NEW p \in Parts, DeliverObject(p)
      PROVE  Available(obj'["Workload"])
  BY <1>1, <1>6 DEF DeliverObject, controllerVars
<1>7. CASE \/ NodesCounted \/ PodBecomesAvailable \/ PodScaledDown \/ RollOut
           \/ PodFails \/ Autoscale \/ Annotate
  BY <1>1, <1>7, WorkloadStep, PartFacts
<1>8. ASSUME NEW p \in Parts, Seal(p)
      PROVE  Available(obj'["Workload"])
  <2>1. TypeOK
    BY DEF Inductive
  <2>2. obj'["Workload"].gen = obj["Workload"].gen
    BY <1>8, <2>1, SealFacts, PartFacts
  <2>3. QED
    BY <1>1, <1>8, <2>2 DEF Seal, controllerVars
<1>9. CASE UNCHANGED vars
  BY <1>1, <1>9 DEF vars
<1>10. QED
  BY <1>2, <1>3, <1>4, <1>5, <1>6, <1>7, <1>8, <1>9 DEF Next, Reconcile, Manager, Cluster

LEMMA ReadyInit == Init => ReadyInvariant
<1> SUFFICES ASSUME Init PROVE ReadyInvariant
  OBVIOUS
<1>1. PICK s \in Specs : specs = <<s>>
  BY DEF Init
<1>2. \A p \in Parts : obj[p] = NoObject /\ objCache[p] = NoObject
  BY DEF Init
<1>3. ObjectCopiesLag /\ CopyIsTrue
  BY <1>2, PartFacts DEF ObjectCopiesLag, CopyIsTrue, NoObject
<1>4. SizedBySpec
  BY <1>1, <1>2, PartFacts DEF SizedBySpec, NoObject, Exists
<1>5. HonestCopies /\ PollIsCurrent /\ ReadyAtRest
  BY DEF Init, HonestCopies, PollIsCurrent, ReadyAtRest, Quiescent
<1>6. QED
  BY <1>3, <1>4, <1>5 DEF ReadyInvariant

LEMMA ReadyStep ==
    ASSUME Steady, Inductive, ReadyInvariant, [Next]_vars
    PROVE  ReadyInvariant'
<1>1. ObjectCopiesLag' /\ SizedBySpec' /\ HonestCopies' /\ CopyIsTrue'
  BY ObjectCopiesLagStep, SizedBySpecStep, HonestCopiesStep, CopyIsTrueStep
     DEF ReadyInvariant
<1>2. PollIsCurrent' /\ ReadyAtRest'
  BY PollIsCurrentStep, ReadyAtRestStep
<1>3. QED
  BY <1>1, <1>2 DEF ReadyInvariant

LEMMA ReadyHolds ==
    ASSUME Inductive, ReadyInvariant, Steady
    PROVE  ReadyUnlessPodFailed
<1> SUFFICES ASSUME "pod" \notin faults, cr.obs = cr.gen, Quiescent,
                    Managed(specs[cr.gen]), cr.verdict.available
             PROVE  WorkloadAvailable
  BY DEF ReadyUnlessPodFailed, ReadyIsTrue
<1>1. Available(obj["Workload"])
  BY DEF ReadyInvariant, ReadyAtRest
<1>2. specs[cr.gen] \in ComponentSpecs /\ specs[cr.gen].kind # "ZelosClient"
  BY Counters, SpecFacts, NoDaemonSet
<1>3. QED
  BY <1>1, <1>2, PartFacts, Counters, AvailableFacts DEF WorkloadAvailable

(***************************************************************************)
(* The invariant of a true Ready holds in every reachable state, where     *)
(* nothing but the spec decides the size of a workload and no template is  *)
(* rolled out by taking pods down first.                                   *)
(***************************************************************************)
THEOREM ReadyInvariantHolds ==
    ASSUME Steady
    PROVE  Spec => []ReadyInvariant
<1>1. Inductive /\ ReadyInvariant /\ [Next]_vars => ReadyInvariant'
  BY ReadyStep
<1>2. QED
  BY <1>1, ReadyInit, InvariantHolds, PTL DEF Spec

(***************************************************************************)
(* Where nothing but the spec decides the size of a workload, and no       *)
(* template is rolled out by taking pods down first, a component that      *)
(* nothing will re-examine and that says Ready for its newest generation   *)
(* has an available workload, unless a pod has failed: the poll of a stale *)
(* cache is always corrected.                                              *)
(***************************************************************************)
THEOREM ReadyIsHonest ==
    ASSUME Steady
    PROVE  Spec => []ReadyUnlessPodFailed
<1>1. Inductive /\ ReadyInvariant => ReadyUnlessPodFailed
  BY ReadyHolds
<1>2. QED
  BY <1>1, ReadyInvariantHolds, InvariantHolds, PTL

=============================================================================
