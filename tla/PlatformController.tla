------------------------- MODULE PlatformController -------------------------
(***************************************************************************)
(* The umbrella controller: one ZelosPlatform, the telemetry objects and   *)
(* the component custom resources it applies, and the roll-up of their     *)
(* readiness into its own status (internal/controller/                     *)
(* zelosplatform_controller.go).                                           *)
(*                                                                         *)
(* Caches, queue, passes and faults are those of ComponentController.      *)
(* Here the watches also cover the component custom resources (Owns), but  *)
(* neither the OTel collector nor the NATS StatefulSet the roll-up reads.  *)
(* The component controllers are the environment: at any time, one may     *)
(* report a readiness for its custom resource, and NATS may come or go.    *)
(* System shows that the real backplane controller keeps to that.          *)
(***************************************************************************)
EXTENDS Components, FiniteSets

CONSTANTS
    Specs,      \* the specs an edit may give the platform
    Faults,     \* the kinds of fault that may happen
    MaxGen,     \* bound: generations of the platform
    MaxFaults,  \* bound: kinds of fault in a behaviour
    MaxVersions \* bound: versions up to which components and NATS report

Telemetry == {"TelemetryEnv", "CollectorConfig", "Collector", "CollectorService"}
Names == Telemetry \cup ComponentKinds \cup {"NATS"}

\* The components of the roll-up: "Operator" is the OTel collector.
Labels == ComponentKinds \cup {"Operator", "NATS"}

\* child[k] is the content the platform gives component k, 0 if it is not
\* enabled: an edit of one component leaves the others' content alone.
PlatformSpecs ==
    [telemetry: BOOLEAN, externalEndpoint: BOOLEAN, collectorImage: Nat,
     child: [ComponentKinds -> Nat], substrate: {"nats", "external"}, externalURL: BOOLEAN]

FaultKinds == {"apply", "reply", "status", "infra", "crash"}

ASSUME SpecsAssumption == Specs \subseteq PlatformSpecs
ASSUME FaultsAssumption == Faults \subseteq FaultKinds
ASSUME BoundsAssumption == MaxGen \in Nat /\ MaxFaults \in Nat /\ MaxVersions \in Nat

VARIABLES
    specs,      \* the spec of every generation so far
    cr,         \* the platform on the server, its status included
    crCache,    \* the informer's copy of it
    obj,        \* the objects the platform applies or reads, on the server
    objCache,   \* the informers' copies of them
    wake,       \* the key's one entry of the work queue: none, delayed or due
    running,    \* a pass of Reconcile is running
    todo,       \* the objects it has yet to apply
    snap,       \* the copy of the platform the pass works on
    faults      \* the kinds of fault that have happened

vars == <<specs, cr, crCache, obj, objCache, wake, running, todo, snap, faults>>
controllerVars == <<wake, running, todo, snap>>

\* An object: its version, its content, and its readiness: the Ready condition
\* of a component custom resource, or the verdict on a workload's counts.
ReadyValues == {"Unknown", "True", "False"}
Owned == [rv: Nat, content: Nat, ready: ReadyValues]
Missing == [rv |-> 0, content |-> 0, ready |-> "Unknown"]

\* Status: conditions and children that were never written are "None".
Written == {"None", "True", "False"}
Platforms ==
    [gen: Nat, rv: Nat, obs: Nat, ready: Written,
     phase: {"", "Pending", "Progressing", "Ready"},
     children: [ComponentKinds -> Written], available: [Labels -> Written]]

\* The calls of applyObject in Reconcile, in the order of the source.
Order ==
    <<"TelemetryEnv", "CollectorConfig", "Collector", "CollectorService",
      "ZelosBackplane", "ZelosGateway", "ZelosMCP", "ZelosBroker", "ZelosServer",
      "ZelosClient">>

TypeOK ==
    /\ specs \in Seq(Specs)
    /\ cr \in Platforms
    /\ crCache \in Platforms
    /\ obj \in [Names -> Owned]
    /\ objCache \in [Names -> Owned]
    /\ wake \in {"none", "delayed", "due"}
    /\ running \in BOOLEAN
    /\ todo \subseteq Names
    /\ snap \in Platforms
    /\ faults \subseteq Faults

Init ==
    /\ \E s \in Specs : specs = <<s>>
    /\ cr = [gen |-> 1, rv |-> 1, obs |-> 0, ready |-> "None", phase |-> "",
             children |-> [k \in ComponentKinds |-> "None"],
             available |-> [l \in Labels |-> "None"]]
    /\ crCache = cr
    /\ obj = [n \in Names |-> Missing]
    /\ objCache = obj
    /\ wake = "due"
    /\ running = FALSE
    /\ todo = {}
    /\ snap = cr
    /\ faults = {}

-----------------------------------------------------------------------------
(* What a spec calls for *)

Enabled(s) == {k \in ComponentKinds : s.child[k] > 0}

CollectorDeployed(s) == s.telemetry /\ ~s.externalEndpoint

BackplaneIsOperatorNATS(s) == s.substrate = "nats" /\ ~s.externalURL

Materialized(s) ==
    {"TelemetryEnv"} \cup Enabled(s)
        \cup IF CollectorDeployed(s)
             THEN {"CollectorConfig", "Collector", "CollectorService"} ELSE {}

\* The env ConfigMap names the endpoint and the exporters, and the collector's
\* Deployment has its image from the spec; its ConfigMap and Service are the
\* same for every spec.
ContentOf(n, s) ==
    CASE n \in ComponentKinds -> s.child[n]
      [] n = "Collector" -> s.collectorImage
      [] n = "TelemetryEnv" ->
            IF ~s.telemetry THEN 1 ELSE IF s.externalEndpoint THEN 2 ELSE 3
      [] OTHER -> 1

\* The components the roll-up counts.
Counted(s) ==
    Enabled(s)
        \cup (IF CollectorDeployed(s) THEN {"Operator"} ELSE {})
        \cup (IF "ZelosBackplane" \in Enabled(s) /\ BackplaneIsOperatorNATS(s)
              THEN {"NATS"} ELSE {})

Backing(l) == IF l = "Operator" THEN "Collector" ELSE l

\* Ready as childConditions and the workload polls see it in a set of
\* copies: a missing object, like one without the condition, is not ready.
Up(copies, l) == copies[Backing(l)].ready = "True"

AllReady(copies, s) ==
    Counted(s) # {} /\ \A l \in Counted(s) : Up(copies, l)

Flag(b) == IF b THEN "True" ELSE "False"

-----------------------------------------------------------------------------
(* The controller *)

\* As in ComponentController: the entry of the key keeps the earliest time.
Requeued == IF wake = "due" THEN "due" ELSE "delayed"

Fault(f) ==
    /\ f \in Faults \ faults
    /\ Cardinality(faults) < MaxFaults
    /\ faults' = faults \cup {f}

\* Mutant of Fail: the error is dropped and nothing is retried.
FailQuietly ==
    /\ running' = FALSE
    /\ todo' = {}
    /\ UNCHANGED wake

\* Reconcile returns an error: the pass is over and will be retried.
Fail ==
    /\ running' = FALSE
    /\ todo' = {}
    /\ wake' = Requeued

SnapSpec == specs[snap.gen]
Applying(n) ==
    /\ running
    /\ n \in todo
    /\ \A m \in todo \ {n} : Precedes(Order, n, m)

\* applyObject, as in ApplyObject: taken when the cached version is current;
\* an Update replaces the spec, and no status.
Taken(n) == objCache[n].rv = obj[n].rv

Updated(o, c) ==
    IF o.rv > 0 /\ o.content = c THEN o
    ELSE [o EXCEPT !.rv = @ + 1, !.content = c]

WriteObject(n) == obj' = [obj EXCEPT ![n] = Updated(@, ContentOf(n, SnapSpec))]

Begin ==
    /\ ~running
    /\ wake = "due"
    /\ wake' = "none"
    /\ running' = TRUE
    /\ snap' = crCache
    /\ todo' = Materialized(specs[crCache.gen])
    /\ UNCHANGED <<specs, cr, crCache, obj, objCache, faults>>

Apply(n) ==
    /\ Applying(n)
    /\ Taken(n)
    /\ WriteObject(n)
    /\ todo' = todo \ {n}
    /\ UNCHANGED <<specs, cr, crCache, objCache, wake, running, snap, faults>>

\* Mutant of ApplyRefused: a Conflict is taken for success.
ApplyRefusedIgnored(n) ==
    /\ Applying(n)
    /\ ~Taken(n)
    /\ todo' = todo \ {n}
    /\ UNCHANGED <<specs, cr, crCache, obj, objCache, wake, running, snap, faults>>

\* AlreadyExists or Conflict: Reconcile returns before the roll-up.
ApplyRefused(n) ==
    /\ Applying(n)
    /\ ~Taken(n)
    /\ Fail
    /\ UNCHANGED <<specs, cr, crCache, obj, objCache, snap, faults>>

\* The call fails, or the answer to a call that was taken is lost.
ApplyFails(n) ==
    /\ Applying(n)
    /\ \/ Fault("apply") /\ UNCHANGED obj
       \/ Fault("reply") /\ Taken(n) /\ WriteObject(n)
    /\ Fail
    /\ UNCHANGED <<specs, cr, crCache, objCache, snap>>

\* Mutant of RolledUp: the component custom resources only.
RolledUpChildren == \A k \in Enabled(SnapSpec) : Up(objCache, k)

\* What reconcileStatusConditions returns: false for an empty platform.
RolledUp == AllReady(objCache, SnapSpec)

\* writeTopLevelConditions.
Phase ==
    IF Counted(SnapSpec) = {} THEN "Pending"
    ELSE IF RolledUp THEN "Ready" ELSE "Progressing"

\* reconcileStatusConditions on the pass's copy: every counted component
\* gets its condition, conditions of other components stay as they are, and
\* the children are those the pass has applied.
NewStatus ==
    [gen |-> snap.gen, rv |-> snap.rv, obs |-> snap.gen,
     ready |-> Flag(RolledUp),
     phase |-> Phase,
     children |-> [k \in ComponentKinds |->
        IF k \in Enabled(SnapSpec) THEN Flag(Up(objCache, k)) ELSE "None"],
     available |-> [l \in Labels |->
        IF l \in Counted(SnapSpec) THEN Flag(Up(objCache, l))
        ELSE snap.available[l]]]

\* Status().Update: a Conflict is ignored, another error is only logged.
PublishStatus ==
    \/ /\ snap.rv = cr.rv
       /\ cr' = IF NewStatus = cr THEN cr ELSE [NewStatus EXCEPT !.rv = @ + 1]
       /\ UNCHANGED faults
    \/ /\ snap.rv # cr.rv
       /\ UNCHANGED <<cr, faults>>
    \/ /\ Fault("status")
       /\ UNCHANGED cr

\* Mutant of Finish: no RequeueAfter.
FinishWithoutPoll ==
    /\ running
    /\ todo = {}
    /\ PublishStatus
    /\ running' = FALSE
    /\ UNCHANGED <<specs, crCache, obj, objCache, wake, todo, snap>>

\* The end of Reconcile: roll up, publish, and ask to be requeued until
\* everything is Ready.
Finish ==
    /\ running
    /\ todo = {}
    /\ PublishStatus
    /\ running' = FALSE
    /\ wake' = IF ~RolledUp THEN Requeued ELSE wake
    /\ UNCHANGED <<specs, crCache, obj, objCache, todo, snap>>

Reconcile ==
    \/ Begin
    \/ \E n \in Names : Apply(n) \/ ApplyRefused(n) \/ ApplyFails(n)
    \/ Finish

-----------------------------------------------------------------------------
(* The manager: caches, queue, restarts *)

\* Mutant of DeliverPlatform: SetupWithManager with a predicate that lets
\* only new generations through.
DeliverNewGeneration ==
    /\ crCache.rv < cr.rv
    /\ crCache' = cr
    /\ wake' = IF crCache.gen < cr.gen THEN "due" ELSE wake
    /\ UNCHANGED <<specs, cr, obj, objCache, running, todo, snap, faults>>

DeliverPlatform ==
    /\ crCache.rv < cr.rv
    /\ crCache' = cr
    /\ wake' = "due"
    /\ UNCHANGED <<specs, cr, obj, objCache, running, todo, snap, faults>>

\* Mutant of DeliverObject: SetupWithManager without Owns.
DeliverObjectUnwatched(n) ==
    /\ objCache[n].rv < obj[n].rv
    /\ objCache' = [objCache EXCEPT ![n] = obj[n]]
    /\ UNCHANGED <<specs, cr, crCache, obj, controllerVars, faults>>

\* An event of an owned component wakes the platform; an event of the
\* collector or of NATS only reaches the cache.
DeliverObject(n) ==
    /\ objCache[n].rv < obj[n].rv
    /\ objCache' = [objCache EXCEPT ![n] = obj[n]]
    /\ wake' = IF n \in ComponentKinds THEN "due" ELSE wake
    /\ UNCHANGED <<specs, cr, crCache, obj, running, todo, snap, faults>>

TimerFires ==
    /\ wake = "delayed"
    /\ wake' = "due"
    /\ UNCHANGED <<specs, cr, crCache, obj, objCache, running, todo, snap, faults>>

Restart ==
    /\ Fault("crash")
    /\ crCache' = cr
    /\ objCache' = obj
    /\ wake' = "due"
    /\ running' = FALSE
    /\ todo' = {}
    /\ UNCHANGED <<specs, cr, obj, snap>>

-----------------------------------------------------------------------------
(* The rest of the cluster *)

EditSpec(s) ==
    /\ cr.gen < MaxGen
    /\ s # specs[cr.gen]
    /\ specs' = Append(specs, s)
    /\ cr' = [cr EXCEPT !.gen = @ + 1, !.rv = @ + 1]
    /\ UNCHANGED <<crCache, obj, objCache, controllerVars, faults>>

SetReady(n, ready) ==
    obj' = [obj EXCEPT ![n].rv = @ + 1, ![n].ready = ready]

\* A component controller writes the status of its custom resource, with the
\* readiness it had or another.
ChildReports(k, ready) ==
    /\ obj[k].rv \in 1..(MaxVersions - 1)
    /\ SetReady(k, ready)
    /\ UNCHANGED <<specs, cr, crCache, objCache, controllerVars, faults>>

\* The backplane controller's NATS is created, written, or counts its pods.
NATSChanges(ready) ==
    /\ obj["ZelosBackplane"].rv > 0
    /\ obj["NATS"].rv < MaxVersions
    /\ SetReady("NATS", ready)
    /\ UNCHANGED <<specs, cr, crCache, objCache, controllerVars, faults>>

CollectorComesUp ==
    /\ obj["Collector"].rv > 0
    /\ obj["Collector"].ready # "True"
    /\ SetReady("Collector", "True")
    /\ UNCHANGED <<specs, cr, crCache, objCache, controllerVars, faults>>

CollectorFails ==
    /\ obj["Collector"].ready = "True"
    /\ Fault("infra")
    /\ SetReady("Collector", "False")
    /\ UNCHANGED <<specs, cr, crCache, objCache, controllerVars>>

Manager ==
    \/ DeliverPlatform
    \/ \E n \in Names : DeliverObject(n)
    \/ TimerFires
    \/ Restart

Reports ==
    \/ \E k \in ComponentKinds, ready \in {"True", "False"} : ChildReports(k, ready)
    \/ \E ready \in {"True", "False"} : NATSChanges(ready)
    \/ CollectorComesUp
    \/ CollectorFails

Cluster == (\E s \in Specs : EditSpec(s)) \/ Reports

Next == Reconcile \/ Manager \/ Cluster

Spec == Init /\ [][Next]_vars

\* As for the components: the worker, the watches and the timer are fair.
Fairness ==
    /\ WF_vars(Reconcile)
    /\ WF_vars(DeliverPlatform)
    /\ \A n \in Names : WF_vars(DeliverObject(n))
    /\ WF_vars(TimerFires)

FairSpec == Spec /\ Fairness

-----------------------------------------------------------------------------
(* Correctness *)

\* Nothing will wake the controller.
Quiescent ==
    /\ ~running
    /\ wake = "none"
    /\ crCache.rv = cr.rv
    /\ \A k \in ComponentKinds : objCache[k].rv = obj[k].rv

\* Object n is there, with the content spec s gives it.
Given(n, s) == obj[n].rv > 0 /\ obj[n].content = ContentOf(n, s)

\* A platform that has observed its newest generation has given every object
\* that generation calls for its content, whichever of the ten calls failed,
\* conflicted or lost its answer on the way.
HonestStatus ==
    cr.obs = cr.gen =>
        \A n \in Materialized(specs[cr.gen]) : Given(n, specs[cr.gen])

\* The status is behind the spec, or does not say Ready.
Unsettled == cr.obs # cr.gen \/ cr.ready # "True"

\* While the status is unsettled, a pass, the queue, a delay or a watch event
\* is going to run Reconcile again ("Requeue until everything is Ready").
UnsettledIsRequeued == Unsettled => ~Quiescent

\* The same unless a status write failed other than by a conflict, an error
\* that is only logged.
NoLostWakeup == "status" \notin faults => UnsettledIsRequeued

\* Once nothing will run any more, a platform that is Ready at its newest
\* generation has only Ready components, and its children say so: a component
\* that stops being Ready always wakes the platform, also when its event
\* arrives in the middle of a pass or a status write is lost.
RollupIsTrue ==
    Quiescent /\ cr.obs = cr.gen /\ cr.ready = "True" =>
        \A k \in Enabled(specs[cr.gen]) : obj[k].ready = "True" /\ cr.children[k] = "True"

\* The same for the collector, which nothing watches, unless it failed later.
RollupCoversCollector ==
    Quiescent /\ cr.obs = cr.gen /\ cr.ready = "True" /\ "infra" \notin faults =>
        (CollectorDeployed(specs[cr.gen]) => Up(obj, "Operator"))

\* If edits, reports and faults end, the roll-up of the newest generation is
\* right for ever, about every component it watches; about the collector and
\* NATS it is never wrong for want of looking before the platform was Ready.
Settled ==
    /\ cr.obs = cr.gen
    /\ \A k \in Enabled(specs[cr.gen]) : cr.children[k] = Flag(Up(obj, k))
    /\ AllReady(obj, specs[cr.gen]) => cr.ready = "True"
    /\ cr.ready = "True" => \A k \in Enabled(specs[cr.gen]) : Up(obj, k)

Converges == <>[]("status" \notin faults => Settled)

-----------------------------------------------------------------------------
(* The invariant of the proofs *)

\* What the safety properties rest on.  A copy of the platform is never ahead
\* of the one it was copied from, and is the same when it has the same version.
CopiesLag ==
    /\ cr.gen = Len(specs)
    /\ 1 <= snap.gen /\ snap.gen <= crCache.gen /\ crCache.gen <= cr.gen
    /\ snap.rv <= crCache.rv /\ crCache.rv <= cr.rv
    /\ snap.rv = crCache.rv => snap = crCache
    /\ crCache.rv = cr.rv => crCache = cr
    /\ cr.obs <= cr.gen

\* So are the copies of the objects.
ObjectCopiesLag ==
    \A n \in Names :
        /\ objCache[n].rv <= obj[n].rv
        /\ objCache[n].rv = obj[n].rv => objCache[n] = obj[n]

\* A running pass has given the objects it has passed what its copy of the
\* spec calls for, and an idle one has nothing to do.
PassProgress ==
    IF running
    THEN /\ todo \subseteq Materialized(SnapSpec)
         /\ \A n \in Materialized(SnapSpec) \ todo : Given(n, SnapSpec)
    ELSE todo = {}

\* A version that arrived during the pass is on the queue.
EventKept == running /\ snap.rv < crCache.rv => wake = "due"

\* Once a generation is observed, no pass works on an earlier one, and a Ready
\* was published with the children it is about.
ObservedIsNewest ==
    cr.obs = cr.gen =>
        /\ crCache.gen = cr.gen
        /\ running => snap.gen = cr.gen
        /\ cr.ready = "True" =>
              \A k \in Enabled(specs[cr.gen]) : cr.children[k] = "True"

\* The inductive invariant of the umbrella controller: copies, objects, the
\* running pass of Reconcile and the published roll-up are in step with each
\* other in every reachable state.
Inductive ==
    /\ TypeOK /\ CopiesLag /\ ObjectCopiesLag /\ PassProgress /\ EventKept
    /\ ObservedIsNewest /\ HonestStatus

=============================================================================
