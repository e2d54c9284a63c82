------------------------ MODULE ComponentController ------------------------
(***************************************************************************)
(* One component custom resource and its controller: the Reconcile of the  *)
(* gateway, backplane, MCP, broker, server or client, by the resource's    *)
(* kind.                                                                   *)
(*                                                                         *)
(* The controller reads through informer caches that lag behind the API    *)
(* server object by object, writes under the resource version it read, and *)
(* runs one pass at a time when its work queue says so.  A pass reads the  *)
(* custom resource, applies the rendered objects one by one, returning on  *)
(* the first error, then reads the workload's status from the cache and    *)
(* publishes its verdict, ignoring the outcome of that write.  The only    *)
(* watch is on the custom resource: nothing wakes the controller when the  *)
(* workload changes.                                                       *)
(***************************************************************************)
EXTENDS Components, FiniteSets

CONSTANTS
    Specs,      \* the specs an edit may give the custom resource
    Nodes,      \* nodes that match a DaemonSet's selector
    Sealing,    \* objects whose spec the cluster may seal (a bound claim)
    Faults,     \* the kinds of fault that may happen
    MaxGen,     \* bound: generations of the custom resource
    MaxFaults,  \* bound: kinds of fault in a behaviour
    MaxTouched  \* bound: the version of the workload up to which the autoscaler
                \* and the Deployment controller write it of their own accord

FaultKinds == {"apply", "reply", "status", "pod", "crash"}

ASSUME SpecsAssumption == Specs \subseteq ComponentSpecs
ASSUME NodesAssumption == Nodes \in Nat
ASSUME SealingAssumption == Sealing \subseteq Parts
ASSUME FaultsAssumption == Faults \subseteq FaultKinds
ASSUME BoundsAssumption == MaxGen \in Nat /\ MaxFaults \in Nat /\ MaxTouched \in Nat

VARIABLES
    specs,      \* the spec of every generation so far
    cr,         \* the custom resource on the server
    crCache,    \* the informer's copy of it
    obj,        \* the rendered objects on the server
    objCache,   \* the informers' copies of them
    wake,       \* the key's one entry of the work queue: none, delayed or due
    running,    \* a pass of Reconcile is running
    todo,       \* the objects it has yet to apply
    snap,       \* the copy of the custom resource the pass works on
    faults      \* the kinds of fault that have happened

vars == <<specs, cr, crCache, obj, objCache, wake, running, todo, snap, faults>>
controllerVars == <<wake, running, todo, snap>>

Resources == [gen: Nat, rv: Nat, obs: Nat, verdict: Verdicts]

TypeOK ==
    /\ specs \in Seq(Specs)
    /\ cr \in Resources
    /\ crCache \in Resources
    /\ obj \in [Parts -> Objects]
    /\ objCache \in [Parts -> Objects]
    /\ wake \in {"none", "delayed", "due"}
    /\ running \in BOOLEAN
    /\ todo \subseteq Parts
    /\ snap \in Resources
    /\ faults \subseteq Faults

\* The manager starts with a new custom resource; the first list of the
\* informer puts its key on the queue.
Init ==
    /\ \E s \in Specs : specs = <<s>>
    /\ cr = [gen |-> 1, rv |-> 1, obs |-> 0, verdict |-> NotFound]
    /\ crCache = cr
    /\ obj = [p \in Parts |-> NoObject]
    /\ objCache = obj
    /\ wake = "due"
    /\ running = FALSE
    /\ todo = {}
    /\ snap = cr
    /\ faults = {}

-----------------------------------------------------------------------------
(* Helpers *)

\* AddRateLimited and RequeueAfter.  The priority queue of controller-runtime
\* 0.24 keeps one entry per key, with the earliest time it was given: the key
\* becomes due later, unless an event made it due while the pass was running.
Requeued == IF wake = "due" THEN "due" ELSE "delayed"

Fault(f) ==
    /\ f \in Faults \ faults
    /\ Cardinality(faults) < MaxFaults
    /\ faults' = faults \cup {f}

\* The spec the pass works on, and the object it is about to apply.
SnapSpec == specs[snap.gen]
Applying(p) ==
    /\ running
    /\ p \in todo
    /\ \A q \in todo \ {p} : Precedes(ReconcileOrder(SnapSpec.kind), p, q)

\* spec.replicas is part of what Deployments and StatefulSets are given; a
\* DaemonSet's desired count is status, filled in by the cluster.
DesiredOf(p) ==
    IF p = "Workload" /\ WorkloadKind(SnapSpec.kind) # "DaemonSet"
    THEN SnapSpec.replicas ELSE obj[p].desired

\* Mutant of Fail: the error is dropped and nothing is retried.
FailQuietly ==
    /\ running' = FALSE
    /\ todo' = {}
    /\ UNCHANGED wake

\* Reconcile returns an error: the pass is over and will be retried.
Fail ==
    /\ running' = FALSE
    /\ todo' = {}
    /\ wake' = Requeued

\* The server takes the write: the version is current, and the size of an
\* existing volume is left alone.
Taken(p) ==
    /\ Accepted(objCache[p], obj[p])
    /\ Exists(obj[p]) /\ p \in HoldsVolume(SnapSpec.kind)
           => specs[obj[p].gen].size = SnapSpec.size

\* A new template makes every pod there is an old one.
OldPods(p) ==
    IF /\ p = "Workload" /\ Exists(obj[p])
       /\ Template(specs[obj[p].gen]) # Template(SnapSpec)
    THEN obj[p].avail ELSE obj[p].old

WriteObject(p) ==
    obj' = [obj EXCEPT ![p] = Applied(obj[p], snap.gen, DesiredOf(p), OldPods(p))]

-----------------------------------------------------------------------------
(* The controller *)

\* A worker takes the key and Reconcile reads the custom resource.
Begin ==
    /\ ~running
    /\ wake = "due"
    /\ wake' = "none"
    /\ running' = TRUE
    /\ snap' = crCache
    /\ todo' = Rendered(specs[crCache.gen])
    /\ UNCHANGED <<specs, cr, crCache, obj, objCache, faults>>

\* applyObject: the server takes the Create or the Update.
Apply(p) ==
    /\ Applying(p)
    /\ Taken(p)
    /\ WriteObject(p)
    /\ todo' = todo \ {p}
    /\ UNCHANGED <<specs, cr, crCache, objCache, wake, running, snap, faults>>

\* Mutant of ApplyRefused: a Conflict is taken for success.
ApplyRefusedIgnored(p) ==
    /\ Applying(p)
    /\ ~Taken(p)
    /\ todo' = todo \ {p}
    /\ UNCHANGED <<specs, cr, crCache, obj, objCache, wake, running, snap, faults>>

\* applyObject: AlreadyExists, Conflict or Forbidden, so Reconcile returns.
ApplyRefused(p) ==
    /\ Applying(p)
    /\ ~Taken(p)
    /\ Fail
    /\ UNCHANGED <<specs, cr, crCache, obj, objCache, snap, faults>>

\* applyObject: the call fails, or the answer to a call that was taken is lost.
ApplyFails(p) ==
    /\ Applying(p)
    /\ \/ Fault("apply") /\ UNCHANGED obj
       \/ Fault("reply") /\ Taken(p) /\ WriteObject(p)
    /\ Fail
    /\ UNCHANGED <<specs, cr, crCache, objCache, snap>>

\* The readiness poll: the workload as the cache has it.
Verdict ==
    IF Managed(SnapSpec)
    THEN WorkloadReadiness(WorkloadKind(SnapSpec.kind), objCache["Workload"])
    ELSE UnmanagedVerdict(SnapSpec)

\* applyWorkloadConditions and ObservedGeneration, on the pass's own copy.
NewStatus == [snap EXCEPT !.obs = snap.gen, !.verdict = Verdict]

\* Mutant of PublishStatus: a patch, which the server takes from any version.
PatchStatus ==
    /\ cr' = [cr EXCEPT !.obs = snap.gen, !.verdict = Verdict, !.rv = @ + 1]
    /\ UNCHANGED faults

\* Status().Update, whose error is dropped: written if the copy is current,
\* refused as a Conflict if it is not, or failed on the way.
PublishStatus ==
    \/ /\ snap.rv = cr.rv
       /\ cr' = IF NewStatus = cr THEN cr ELSE [NewStatus EXCEPT !.rv = @ + 1]
       /\ UNCHANGED faults
    \/ /\ snap.rv # cr.rv
       /\ UNCHANGED <<cr, faults>>
    \/ /\ Fault("status")
       /\ UNCHANGED cr

\* Mutant of Finish: no RequeueAfter.
FinishWithoutPoll ==
    /\ running
    /\ todo = {}
    /\ PublishStatus
    /\ running' = FALSE
    /\ UNCHANGED <<specs, crCache, obj, objCache, wake, todo, snap>>

\* The end of Reconcile: poll, publish, and ask to be requeued while a
\* managed workload is not available.
Finish ==
    /\ running
    /\ todo = {}
    /\ PublishStatus
    /\ running' = FALSE
    /\ wake' = IF Managed(SnapSpec) /\ ~Verdict.available THEN Requeued ELSE wake
    /\ UNCHANGED <<specs, crCache, obj, objCache, todo, snap>>

Reconcile ==
    \/ Begin
    \/ \E p \in Parts : Apply(p) \/ ApplyRefused(p) \/ ApplyFails(p)
    \/ Finish

-----------------------------------------------------------------------------
(* The manager: caches, queue, restarts *)

\* A watch event of the custom resource reaches the cache and the queue.
DeliverResource ==
    /\ crCache.rv < cr.rv
    /\ crCache' = cr
    /\ wake' = "due"
    /\ UNCHANGED <<specs, cr, obj, objCache, running, todo, snap, faults>>

\* A watch event of a rendered object reaches the cache, and nothing else.
DeliverObject(p) ==
    /\ objCache[p].rv < obj[p].rv
    /\ objCache' = [objCache EXCEPT ![p] = obj[p]]
    /\ UNCHANGED <<specs, cr, crCache, obj, controllerVars, faults>>

\* A retry delay, or the poll interval, is over.
TimerFires ==
    /\ wake = "delayed"
    /\ wake' = "due"
    /\ UNCHANGED <<specs, cr, crCache, obj, objCache, running, todo, snap, faults>>

\* The manager dies and another one starts: it lists everything, and every
\* custom resource is due.
Restart ==
    /\ Fault("crash")
    /\ crCache' = cr
    /\ objCache' = obj
    /\ wake' = "due"
    /\ running' = FALSE
    /\ todo' = {}
    /\ UNCHANGED <<specs, cr, obj, snap>>

-----------------------------------------------------------------------------
(* The rest of the cluster *)

\* The owner of the custom resource changes its spec.
EditSpec(s) ==
    /\ cr.gen < MaxGen
    /\ s # specs[cr.gen]
    /\ s.kind = specs[cr.gen].kind
    /\ specs' = Append(specs, s)
    /\ cr' = [cr EXCEPT !.gen = @ + 1, !.rv = @ + 1]
    /\ UNCHANGED <<crCache, obj, objCache, controllerVars, faults>>

SetWorkload(desired, avail, old) ==
    obj' = [obj EXCEPT !["Workload"] = WithStatus(@, desired, avail, old)]

\* An available pod goes, one of the new template or an old one.
PodStops ==
    LET w == obj["Workload"]
    IN  /\ w.avail > 0
        /\ \E old \in 0..(w.avail - 1) :
              /\ old = w.old \/ old + 1 = w.old
              /\ SetWorkload(w.desired, w.avail - 1, old)

\* The DaemonSet controller counts the nodes for the first time.
NodesCounted ==
    /\ WorkloadKind(specs[cr.gen].kind) = "DaemonSet"
    /\ Exists(obj["Workload"])
    /\ obj["Workload"].desired # Nodes
    /\ SetWorkload(Nodes, obj["Workload"].avail, obj["Workload"].old)
    /\ UNCHANGED <<specs, cr, crCache, objCache, controllerVars, faults>>

PodBecomesAvailable ==
    LET w == obj["Workload"]
    IN  /\ Exists(w)
        /\ w.avail < w.desired
        /\ SetWorkload(w.desired, w.avail + 1, w.old)
        /\ UNCHANGED <<specs, cr, crCache, objCache, controllerVars, faults>>

PodScaledDown ==
    /\ obj["Workload"].avail > obj["Workload"].desired
    /\ PodStops
    /\ UNCHANGED <<specs, cr, crCache, objCache, controllerVars, faults>>

\* A step of a roll-out: an old pod is taken down ahead of its successor, or,
\* by a Deployment, after it.
RollOut ==
    LET w == obj["Workload"]
        kind == WorkloadKind(specs[cr.gen].kind)
    IN  /\ w.old > 0
        /\ \/ /\ w.avail > 0
              /\ w.avail + MaxUnavailable(kind, w.desired) > w.desired
              /\ SetWorkload(w.desired, w.avail - 1, w.old - 1)
           \/ /\ kind = "Deployment"
              /\ SetWorkload(w.desired, w.avail, w.old - 1)
        /\ UNCHANGED <<specs, cr, crCache, objCache, controllerVars, faults>>

PodFails ==
    /\ Fault("pod")
    /\ PodStops
    /\ UNCHANGED <<specs, cr, crCache, objCache, controllerVars>>

\* The autoscaler, while its object exists, brings an idle Deployment to its
\* minimum; it leaves one that is scaled to zero alone.
Autoscale ==
    LET w == obj["Workload"]
        minReplicas == specs[obj["HPA"].gen].minReplicas
    IN  /\ obj["HPA"].gen > 0
        /\ w.desired > 0
        /\ w.desired # minReplicas
        /\ w.rv < MaxTouched
        /\ SetWorkload(minReplicas, w.avail, w.old)
        /\ UNCHANGED <<specs, cr, crCache, objCache, controllerVars, faults>>

\* The Deployment controller writes its revision annotation, which the next
\* Update takes away: each time the object has a new version.
Annotate ==
    LET w == obj["Workload"]
    IN  /\ Exists(w)
        /\ WorkloadKind(specs[cr.gen].kind) = "Deployment"
        /\ w.rv < MaxTouched
        /\ SetWorkload(w.desired, w.avail, w.old)
        /\ UNCHANGED <<specs, cr, crCache, objCache, controllerVars, faults>>

\* The claim is bound: its spec is immutable from now on.
Seal(p) ==
    /\ p \in Sealing
    /\ Exists(obj[p])
    /\ ~obj[p].bound
    /\ obj' = [obj EXCEPT ![p] = Sealed(@)]
    /\ UNCHANGED <<specs, cr, crCache, objCache, controllerVars, faults>>

Manager ==
    \/ DeliverResource
    \/ \E p \in Parts : DeliverObject(p)
    \/ TimerFires
    \/ Restart

Cluster ==
    \/ \E s \in Specs : EditSpec(s)
    \/ NodesCounted
    \/ PodBecomesAvailable
    \/ PodScaledDown
    \/ RollOut
    \/ PodFails
    \/ Autoscale
    \/ Annotate
    \/ \E p \in Parts : Seal(p)

Next == Reconcile \/ Manager \/ Cluster

Spec == Init /\ [][Next]_vars

(***************************************************************************)
(* Fairness: a worker goroutine runs while the queue is not empty, watches *)
(* deliver, timers fire, and the cluster starts and stops pods.  Nobody    *)
(* has to edit a spec, and no fault has to happen.                         *)
(***************************************************************************)
Fairness ==
    /\ WF_vars(Reconcile)
    /\ WF_vars(DeliverResource)
    /\ \A p \in Parts : WF_vars(DeliverObject(p))
    /\ WF_vars(TimerFires)
    /\ WF_vars(NodesCounted)
    /\ WF_vars(PodBecomesAvailable)
    /\ WF_vars(PodScaledDown)

FairSpec == Spec /\ Fairness

-----------------------------------------------------------------------------
(* Correctness *)

\* Nothing will wake the controller: no pass is running, the key is not on
\* the queue, and the watch has no event in flight.
Quiescent == ~running /\ wake = "none" /\ crCache.rv = cr.rv

WorkloadAvailable ==
    WorkloadReadiness(WorkloadKind(specs[cr.gen].kind), obj["Workload"]).available

\* A status that claims to have observed a generation speaks for objects
\* that were all rendered from it or from a later one, whatever conflicts,
\* failed calls, lost answers and crashes the passes met (the early returns
\* of every Reconcile before Status().Update).
HonestStatus ==
    cr.obs > 0 => \A p \in Rendered(specs[cr.obs]) : obj[p].gen >= cr.obs

\* The status is behind the spec, or says that the workload is not available.
Unsettled ==
    cr.obs # cr.gen \/ (Managed(specs[cr.gen]) /\ ~cr.verdict.available)

\* While the status is unsettled, something is bound to run Reconcile again: a
\* pass, the queue, a delay, or an event of the custom resource (RequeueAfter,
\* the retry of an error, and the For watch of SetupWithManager together).
\* Only a status write that failed other than by a conflict breaks it, since
\* its error is dropped.
NoLostWakeup == "status" \notin faults => (Unsettled => ~Quiescent)

\* Once nothing will run any more, a component that says Ready has an
\* available workload: a poll of a stale cache is always corrected, because
\* the pass it belongs to conflicts or another one follows it.
ReadyIsTrue ==
    Quiescent /\ Managed(specs[cr.gen]) /\ cr.verdict.available
        => WorkloadAvailable

\* The same for the operator alone: conflicts, retries, failed calls, lost
\* status writes and new managers never leave a false Ready for the newest
\* generation behind, where workloads are Steady (below).
ReadyUnlessPodFailed == "pod" \notin faults /\ cr.obs = cr.gen => ReadyIsTrue

\* A rendered object is never taken back to an earlier generation of the
\* spec, by a retry, a delayed pass or a new manager.
NeverRolledBack == [][\A p \in Parts : obj'[p].gen >= obj[p].gen]_vars

\* If edits and faults end, every object is at the newest generation and the
\* status says so, with the verdict the workload deserves, for ever: the
\* retries and the poll of every Reconcile converge.  A pod that fails and a
\* status write that is lost may come too late to be noticed.
Settled ==
    /\ cr.obs = cr.gen
    /\ \A p \in Rendered(specs[cr.gen]) : obj[p].gen = cr.gen
    /\ cr.verdict.available <=>
           IF Managed(specs[cr.gen]) THEN WorkloadAvailable
           ELSE UnmanagedVerdict(specs[cr.gen]).available

Converges == <>[](faults \cap {"status", "pod"} = {} => Settled)

\* Once the autoscaler a spec asks for has brought the workload to its
\* minimum, no pass takes the workload below it again.
ScalingKept ==
    [][LET s == specs[cr.gen]
           scaled == /\ s.minReplicas > 0
                     /\ obj["HPA"].gen = cr.gen
                     /\ obj["Workload"].desired >= s.minReplicas
       IN  scaled /\ cr'.gen = cr.gen
               => obj'["Workload"].desired >= s.minReplicas]_vars

\* What the safety properties rest on.  A copy of the custom resource is
\* never ahead of the one it was copied from, and is the same when it has the
\* same version: what makes a status write under a version safe.
CopiesLag ==
    /\ cr.gen = Len(specs)
    /\ 1 <= snap.gen /\ snap.gen <= crCache.gen /\ crCache.gen <= cr.gen
    /\ snap.rv <= crCache.rv /\ crCache.rv <= cr.rv
    /\ snap.rv = crCache.rv => snap = crCache
    /\ crCache.rv = cr.rv => crCache = cr
    /\ cr.obs <= cr.gen

\* No object is ahead of the copy the next pass, or the running one, reads.
ObjectsLag ==
    \A p \in Parts :
        /\ obj[p].gen <= crCache.gen
        /\ running => obj[p].gen <= snap.gen

\* A running pass has brought the objects it has passed to its generation,
\* and an idle one has nothing to do.
PassProgress ==
    IF running
    THEN /\ todo \subseteq Rendered(SnapSpec)
         /\ \A p \in Rendered(SnapSpec) \ todo : obj[p].gen = snap.gen
    ELSE todo = {}

\* A version that arrived during the pass is on the queue.
EventKept == running /\ snap.rv < crCache.rv => wake = "due"

\* The inductive invariant of the controller: the newest copies, the objects
\* and the running pass are in step with each other in every reachable state.
Inductive ==
    /\ TypeOK /\ CopiesLag /\ ObjectsLag /\ PassProgress /\ EventKept
    /\ HonestStatus

Contract == INSTANCE ComponentContract
    WITH rendered <- [p \in Parts |-> obj[p].gen], observed <- cr.obs

\* The controller keeps the contract of a component: seen from outside, its
\* passes are edits, renderings that go forward, and honest observations.
KeepsContract == Contract!Spec

-----------------------------------------------------------------------------
(* The invariant of the proof that Ready is true *)

(***************************************************************************)
(* No component's size is decided by anything but its spec: no DaemonSet,  *)
(* whose nodes the cluster counts late, and no autoscaler at odds with the *)
(* replicas, old or new, of the spec.  Without it a workload that was      *)
(* polled in time may grow later, and no watch tells the controller.       *)
(***************************************************************************)
SizesAgree ==
    \A s \in Specs :
        /\ s.kind = "ZelosClient" => ~s.inCluster
        /\ s.kind = "ZelosGateway" /\ WantsHPA(s) =>
              \A t \in Specs : t.kind = "ZelosGateway" => t.replicas = s.minReplicas

(***************************************************************************)
(* No new template is rolled out by taking pods down first, which no watch *)
(* tells the controller of either: where that is the way of the workload,  *)
(* as it is of a DaemonSet and of a Deployment of four pods or more, the   *)
(* specs have one template.  NATS has one in any case.                     *)
(***************************************************************************)
RollsInPlace ==
    \A s, t \in Specs :
        /\ s.kind = t.kind /\ Managed(s) /\ Managed(t)
        /\ Template(s) # Template(t)
        => MaxUnavailable(WorkloadKind(s.kind), s.replicas) = 0

\* The workload is decided by the spec and stays up from one to the next.
Steady == SizesAgree /\ RollsInPlace

\* A Deployment or StatefulSet with all its pods.
Available(w) == Exists(w) /\ w.avail >= w.desired /\ w.desired > 0

\* The copies of the objects are never ahead of them.
ObjectCopiesLag ==
    \A p \in Parts :
        /\ objCache[p].rv <= obj[p].rv
        /\ objCache[p].rv = obj[p].rv => objCache[p] = obj[p]
        /\ objCache[p].gen <= obj[p].gen

\* The workload has the size its generation asks for, a pod is old only if a
\* generation had another template, and only a gateway's spec with an
\* autoscaler has created an autoscaler.
SizedBySpec ==
    /\ \A g \in 1..Len(specs) : specs[g].kind = specs[1].kind
    /\ LET w == obj["Workload"]
       IN  IF Exists(w)
           THEN w.gen > 0 /\ Managed(specs[w.gen]) /\ w.desired = specs[w.gen].replicas
           ELSE w.gen = 0 /\ w.desired = 0 /\ w.avail = 0 /\ w.old = 0
    /\ obj["Workload"].old > 0 =>
          \E g \in 1..Len(specs) :
              /\ Managed(specs[g])
              /\ Template(specs[g]) # Template(specs[obj["Workload"].gen])
    /\ obj["HPA"].gen > 0 => /\ specs[obj["HPA"].gen].kind = "ZelosGateway"
                             /\ WantsHPA(specs[obj["HPA"].gen])

\* What the copies of the custom resource claim to be observed was rendered.
HonestCopies ==
    \A r \in {snap, crCache} :
        /\ r.obs <= r.gen
        /\ r.obs > 0 => \A p \in Rendered(specs[r.obs]) : obj[p].gen >= r.obs

\* Without a pod's failure, a workload that was available still is, until it
\* is rendered anew.
CopyIsTrue ==
    "pod" \notin faults /\ objCache["Workload"].gen = obj["Workload"].gen =>
        (Available(objCache["Workload"]) => Available(obj["Workload"]))

\* A pass over a generation that is already observed polls a copy of it.
PollIsCurrent ==
    running /\ snap.obs = snap.gen /\ "Workload" \in Rendered(SnapSpec) \ todo
        => objCache["Workload"].gen = snap.gen

\* A Ready that nothing will re-examine is true.
ReadyAtRest ==
    /\ "pod" \notin faults /\ Quiescent
    /\ cr.obs = cr.gen /\ Managed(specs[cr.gen]) /\ cr.verdict.available
    => Available(obj["Workload"])

\* Where workloads are Steady: what makes a poll that is not repeated true.  A
\* pass may read a stale workload and leave nothing behind that wakes the controller,
\* but only over a generation it has already observed, of which any copy is
\* as good as the workload itself.
ReadyInvariant ==
    /\ ObjectCopiesLag /\ SizedBySpec /\ HonestCopies /\ CopyIsTrue /\ PollIsCurrent
    /\ ReadyAtRest

=============================================================================
