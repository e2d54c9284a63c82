# The Zelos operator in TLA+

A model-checked and partly proved description of the Kubernetes operator in this
repository: the umbrella controller of `ZelosPlatform` and the six component
controllers under `internal/controller`. It says what a pass of `Reconcile` does,
step by step, against caches that lag, writes that are refused or lost and managers
that restart, and what the published status can be trusted for.

## 1. Inventory

### 1.1 The parts

| part | where | state | operations |
|---|---|---|---|
| apply path | `internal/controller/util.go` | none; works on a cached and a live object | `applyObject`: own, read the cache, create or update under the version read |
| readiness | `internal/controller/status.go` | none | `deploymentReadiness`, `statefulSetReadiness`, `daemonSetReadiness`, `applyWorkloadConditions` |
| component controllers | `zelosgateway_`, `zelosbackplane_`, `zelosmcp_`, `zelosbroker_`, `zelosserver_`, `zelosclient_controller.go` | the custom resource and its status, the rendered objects, the informer caches, the work queue, the running pass | `Reconcile`, `SetupWithManager` |
| umbrella controller | `zelosplatform_controller.go` | the platform and its status (conditions, phase, children), telemetry objects, component custom resources | `Reconcile`, `reconcileStatusConditions`, `writeTopLevelConditions`, `SetupWithManager` |
| rendering | `internal/controller/render` | none | `Build*`, `SecretVolumes`, `ImageRef`, name and label helpers |
| API types | `api/v1alpha1` | none | defaults and enums of the CRDs |
| manager | `cmd/main.go` | one process: caches, queues | start seven controllers |

Manifests, Helm charts, Ansible, dashboards and the documents about the other Zelos
repositories are data and prose without a state machine of this program.

### 1.2 How they interact

The umbrella writes component custom resources; each component controller turns its
own into a ConfigMap, a claim, a workload, a Service and an autoscaler, reads the
workload's status and writes the resource's status; the umbrella reads those statuses,
and two workloads directly (the collector and NATS), and rolls them up. No controller
calls another. They share the API server, and each sees it through informer caches
that lag object by object. What wakes a controller is:

- an event of the custom resource it is `For`;
- for the umbrella, an event of a component custom resource it `Owns`;
- the retry of a pass that returned an error;
- `RequeueAfter`, while the workload is not available or the platform not Ready;
- the start of the manager, which lists everything.

A workload wakes nobody.

### 1.3 What is hard

- A pass reads stale copies and its writes are refused when they were stale.
- A pass returns at the first failed call, with some objects at the new generation and
  some at the old one. An error may also hide a write that was taken.
- The status write's error is dropped. On a conflict another pass must follow, but
  nothing in the code says so: it is the event that caused the conflict that brings it.
- The readiness poll may read the workload as it was before this very pass changed it.
- The poll stops at the first available verdict.
- A manager may die between any two of these steps.
- Edits arrive at any moment, and may change which objects exist at all.

- The umbrella and a component controller write the same custom resource, one its spec
  and one its status, and the umbrella reads a Ready that may be about the old spec.
- An autoscaler, a volume binder and a garbage collector write the same objects.
- A platform is deleted and created again while its objects are being collected, and the
  collector's objects have the same name for every platform.
- Pods read ConfigMaps when they start, at any moment between two writes of a pass.

`PROJECT.json` lists each of these, and others, at the line where it bites, with the
property that covers it or the reason why none does.

### 1.4 What makes each part correct

- Apply path: an object moves only forward through the generations of the spec.
- Component controllers: the observed generation is honest; no wake-up is lost; a Ready
  that nothing will look at again is true; the status settles.
- Umbrella: the same, for the roll-up of its components and its infrastructure.
- Both together: a platform's Ready is true of the pods; neither loses the other's writes.
- Ownership: the platform that exists owns what it calls for, and nothing else stays.
- Rendering: the objects refer to each other correctly at every moment, and what the user
  wrote reaches the pods.

## 2. Modules

| module | models |
|---|---|
| `ApplyObject` | an object on the API server and `applyObject`'s effect on it |
| `Readiness` | the verdict functions of `status.go` |
| `Components` | for each kind, which objects a spec calls for, in which order, and whether there is a workload to poll |
| `ComponentController` | one component custom resource and its controller |
| `ComponentContract` | what a component promises to a reader of its custom resource (abstract) |
| `ComponentController_proofs` | theorems about `ComponentController` |
| `ComponentReady_proofs` | theorems about what a component's Ready can be trusted for |
| `PlatformController` | the umbrella and its roll-up, with the component controllers as its environment |
| `PlatformController_proofs` | theorems about `PlatformController` |
| `System` | the umbrella and the backplane controller together, in one manager |
| `System_proofs` | the refinement of `PlatformController` and of `ComponentController` by `System` |
| `SystemReady_proofs` | what the platform's Ready says of the pods |
| `Ownership` | platforms that come and go, owner references and garbage collection |
| `Ownership_proofs` | theorems about `Ownership` |
| `Rendering` | what the objects contain, and what pods read of it when they start |
| `RenderingPasses_proofs` | lemmas about what each controller of `Rendering` writes, and in which order |
| `Rendering_proofs` | theorems about `Rendering` |
| `...MC` | the instances TLC uses |

`ComponentController`, `PlatformController`, `Ownership` and `Rendering` extend
`Components`, which extends `Readiness` and `ApplyObject`. `ComponentController`
instantiates `ComponentContract` with its refinement mapping. `System` extends
`ComponentController` and instantiates `PlatformController`, and shows that it implements
both.

### 2.1 The component controller

The six `Reconcile` methods have the same shape and differ in tables: the objects they
apply, in which order and under which condition (`GatewayOrder` ... `ClientOrder`,
`Rendered`), the kind of workload, and what is reported when nothing is managed. The
tables are in `Components`; the custom resource's kind, part of its spec, selects them.

| variable | code |
|---|---|
| `specs`, `cr` | the custom resource: its spec of every generation, generation, resource version, `status.observedGeneration`, and the verdict its conditions carry |
| `crCache`, `objCache` | the informer caches behind `client.Get` |
| `obj` | the rendered objects: version, generation rendered from, replicas asked for and available, how many of those run an earlier template, sealed or not |
| `wake` | the key's entry in the work queue: absent, waiting for a delay, or due. The priority queue of controller-runtime 0.24 has one entry per key and keeps the earliest time asked for, so a delayed entry becomes due with an event and a due one is not delayed |
| `running`, `todo`, `snap` | the pass of `Reconcile`: the objects it has yet to apply and the copy of the resource it works on |
| `faults` | the kinds of fault that have happened |

| action | code |
|---|---|
| `Begin` | the worker takes the key; `r.Get` of the custom resource |
| `Apply`, `ApplyRefused`, `ApplyFails` | one call of `applyObject`: taken; refused (AlreadyExists, Conflict, Forbidden); failed, or taken with its answer lost. The last two return from `Reconcile` |
| `Finish` | the poll, `applyWorkloadConditions`, `Status().Update` with its error dropped, and the returned result |
| `DeliverResource`, `DeliverObject` | a watch event reaches the cache, and for the custom resource also the queue |
| `TimerFires` | a retry delay or `componentRequeueInterval` is over |
| `Restart` | another manager takes over |
| `EditSpec` | the user |
| `NodesCounted`, `Pod...` | the workload controllers |
| `RollOut` | a step of the roll-out of a new template |
| `Annotate` | the Deployment controller writes an annotation of its own |
| `Autoscale` | the autoscaler, once its object exists, brings the workload to its minimum |
| `Seal` | the volume binder |

A fault is one of five kinds: a call that fails (`apply`), an answer that is lost (`reply`),
a status write that fails other than by a conflict (`status`), a pod that fails (`pod`), a
manager that dies (`crash`). Each happens once in a behaviour.

An edit may change the template of the pods (`Template`): then those that run become old
ones (`OldPods`), and `RollOut` replaces them one by one. How many may be taken down before
others are up is the default of the API server (`MaxUnavailable`), since no `Build` function
sets a strategy: a quarter of a Deployment, rounded down, and one pod of a DaemonSet or a
StatefulSet. The new pods that a Deployment starts ahead of the old ones are not counted by
themselves: such a replacement is one step.

The size of a volume is frozen once its claim, or the StatefulSet with its claim template,
exists: an Update with another size is refused (`HoldsVolume`, `Taken`).

### 2.2 The umbrella

`PlatformController` has the same variables and actions. The objects are the ten that
`Reconcile` applies (`Order`) and the NATS StatefulSet it only reads. The status is the
observed generation, `Ready`, the phase, the children with their `Ready`, and the
`<Label>Available` conditions, which outlive the component they are about. A component
custom resource carries its Ready condition and the content the umbrella gave it
(`ContentOf`): a number for each component's spec and for the collector's image, and for the
telemetry ConfigMap the endpoint it names.

The component controllers are the environment: `ChildReports` writes the status of a
custom resource, with any Ready, at any time; `NATSChanges` does the same for the
StatefulSet; `CollectorComesUp` and `CollectorFails` are the collector's.

### 2.3 The two together

`System` puts a `PlatformController` (the instance `P`, whose variables are `pspecs`,
`pcr` and so on) beside the `ComponentController` that it extends, which is the
backplane's and works from the creation of its custom resource on (`Created`). A step of
one is seen by the other:

| step | joins |
|---|---|
| `PlatformSteps` | the umbrella's write of the custom resource is the backplane's new generation (`HandedDown`) |
| `Backplane` | the status write and the StatefulSet are what the roll-up reads (`SeenByPlatform`) |
| `DeliverBackplane` | one informer feeds the `For` watch of one controller and the `Owns` watch of the other |
| `DeliverNATS` | one informer feeds both polls of the StatefulSet |
| `RestartManager` | one manager: both controllers start anew |

`UmbrellaSpecs` are the specs of the platform, `BackplaneSpecs` the component spec for each
content that they give the backplane, and `UmbrellaFaults` and `UmbrellaGen` the faults and
the generations of the umbrella. `BackplaneSpecsAssumption` says that contents are
backplanes and differ, `UmbrellaSpecsAssumption` that a platform enables the backplane and
no other component, has no collector, and reads the same substrate and external URL as the
backplane does, which is what the umbrella hands down.

The backplane is the component with the most contact: its StatefulSet is polled by both
controllers, and its mode changes what the umbrella counts.

### 2.4 Ownership

`Ownership` follows the owner references that `applyObject` sets, over platforms that are
created and deleted. Each platform has a uid; names are reused. A pass works for the uid it
has read, also after that platform is gone; `Collect` deletes what a platform that is gone
owns; an object's cache entry may lag (`lagging`). The collector's objects have one name
for all platforms, and its Deployment a selector with the platform's name in it, which
cannot be changed: the next platform has to wait until the last one's is collected.
Platforms exist one at a time ("Apply one ZelosPlatform per environment"). Names of
component custom resources and of the telemetry ConfigMap carry the platform's name.

### 2.5 Rendering

`Rendering` has the content of the objects: `HandedDown` is what the umbrella puts in a
component's spec, `Workload`, `ConfigData`, `SecretRefs` and the other operators are the
`Build*` functions, and `Environment` is what a container sees of four sources of
variables. `Begin` computes the writes of a pass from what is on the server, `Apply` does
the next one, `RollOut` and `PodRestarts` start pods that read the ConfigMaps of that
moment. The server refuses a container with two mounts at one path (`Admitted`).

A spec is a record of fields, and an environment or the set of objects is a function that
`Over` merges into another, the first one winning, as the assignments to a Go map or the
precedence of the kubelet's sources do. `SpecsAssumption` says what shape the specs have,
and that no field of a component ends up in a variable that all components have; and
`NamesAssumption` that the names of two objects, built with `fmt.Sprintf` from a
component's and the platform's, differ.

### 2.6 Abstractions

- An object's content is the generation it was rendered from (the umbrella: a number for
  the content of each child). `Rendering` is where content is looked at, without the
  caches, conflicts and crashes that the other modules are about.
- A condition is its status and the counts its message prints (they decide whether a
  status write changes anything). Reasons, wording and transition times are left out.
- A cache jumps to the newest version of one object. Delivering the versions in between
  changes nothing: a pass takes single copies, and an event is only a wake-up. In
  `Ownership`, where the order of creations and deletions matters, they come one by one.
- One call of `applyObject` is one step, and so are the poll and the status write of
  `Finish`. The cached read just before a write commutes with everything but a delivery
  of the same object, and a delivery in between is the behaviour in which it came later.
- The fields that the server and the workload controllers add to an object, which an
  Update strips or keeps, are left out, save for the claim's, which make the Update fail,
  and for the new versions they cause: an Update strips the revision annotation of a
  Deployment and the Deployment controller writes it again, each under a new version.
  `Annotate` stands for both, at any moment.
- In `Rendering`, variable names, paths and names keep their structure, and the port, the
  labels that are the same everywhere and the namespace are left out. `EnvKey`, the upper
  case of a key, is a constant function, in which two keys may coincide.

### 2.7 What is assumed of Kubernetes

These are external, modelled from how the code uses them:

- the API server refuses an Update under an old resource version, and one that changes
  nothing bumps no version and raises no event;
- a bound claim's spec is immutable, and an Update that leaves out the volume name the
  binder has filled in is refused; a claim's size, a claim template and the selector of a
  Deployment cannot be changed;
- the status subresource changes no spec and no generation;
- a controller has one worker (the default of controller-runtime), the queue keeps a key
  once, and an event makes a delayed key due;
- an error is retried after a delay, for ever;
- the autoscaler leaves a Deployment with zero replicas alone;
- a roll-out takes down no more of the available pods than the default strategy allows;
- the garbage collector deletes, some time after an owner is gone, what it owned, and
  only if the object has not changed since it was judged;
- of two variables with one name in a container, the last counts; `env` wins over
  `envFrom`, a later `envFrom` over an earlier;
- the ten-hour resync of the caches is not counted upon.

## 3. What is checked

Every run but the two of `Rendering` has `CHECK_DEADLOCK FALSE`: an operator with nothing
to do stops, rightly. In `Rendering` pods may always restart.

### 3.1 Properties

| property | of | says |
|---|---|---|
| `HonestStatus` | component, umbrella | an observed generation is in every object it calls for |
| `NoLostWakeup` | component, umbrella | unless a status write was lost, a status that is behind, or not Ready, will be looked at again |
| `ReadyUnlessPodFailed` | component | a Ready that nothing will re-examine is true, unless a pod failed |
| `Converges` (`ConvergesSystem`) | all five | when edits and faults end, the status, or the objects, settle on the truth |
| `ReadyInvariant` | component | where workloads are `Steady`: what makes that Ready true |
| `Inductive` (`InductiveSystem`) | all five | the invariant the proofs rest on |
| `KeepsContract` | component | `ComponentContract` is implemented |
| `RollupIsTrue` | umbrella | a Ready platform at rest has only Ready components |
| `RollupCoversCollector` | umbrella | ... and a collector that came up |
| `ReadyEndToEnd` | system | Ready at rest: the newest spec is in the backplane's objects and the substrate is up |
| `UmbrellaRefined` | system | the real backplane controller keeps to the umbrella's environment |
| `BackplaneRefined` | system | all the umbrella does to the backplane controller is to edit a spec |
| `NothingLeftToCollect` | ownership | a platform at rest owns all its objects |
| `LivePlatformKeepsObjects` | ownership | nothing takes from a platform that exists an object it has been given |
| `ReferencesResolve` | rendering | no object names one that is missing |
| `SelectorsAreExact` | rendering | workloads and Services select their own pods only |
| `FreshConfig` | rendering | no pod combines a template with older configuration |
| `SettingsReachPods` | rendering | what the spec promises is what pods are given |

### 3.2 Runs that pass

| run | instance |
|---|---|
| `component_contract` | MCP with its claim on or off, a client on or off the cluster, NATS with an edited volume, a gateway with an autoscaler that acts; annotations of the Deployments, and another image for the client; two generations; one fault of any kind; the claim may be bound; two nodes |
| `component_liveness` | a gateway with an autoscaler or without, a server that is resized and given another image, a backplane on NATS, on NATS with zero replicas, external with and without a URL; two generations; one fault of any kind |
| `platform_rollup` | a gateway, or a new version of it and a server; two generations; a failed apply, a lost answer, a lost status write or a crash |
| `platform_liveness` | nothing enabled before or after a gateway, a backplane on NATS or the collector, with one image or another; two generations; a collector that fails, or a crash |
| `system` | NATS with two replicas, then with one; two generations of the platform |
| `system_liveness` | NATS, then a substrate elsewhere; a crash |
| `ownership` | two platforms in turn, of one name or two; the collector's ConfigMap and Deployment and a component; a failed apply, a lost answer or a crash |
| `rendering` | eight specs and every edit from one to another: a gateway in three versions, an MCP component with its auth key listed in three ways, a client on NATS, a broker with a server |

What the passing runs say together: caches, conflicts, retries, lost answers and restarts
alone never make a status that nothing will re-examine wrong, neither of a component nor of
the platform; what they cannot hide is a change nobody looks at (section 3.4).

Bounds:

- `MaxGen` counts the generations of the edited resource, `MaxFaults` the kinds of fault of
  a behaviour. Two generations and one fault are enough for a pass, an event and a write of
  each generation to overlap with a failure, and for an object to be one behind.
- `MaxTouched` is the version of the workload up to which the autoscaler and `Annotate`
  write it: they and the controller would go on overwriting each other for ever. Two is
  enough for one such write to come between the reads and writes of a pass (the Create has
  made version one), three for the autoscaler to be overruled. `MaxTouched = 0` leaves both
  out.
- The replicas of the passing runs are at most two, so that a Deployment is rolled out in
  place, which `ReadyUnlessPodFailed` needs (section 4.2).
- `MaxVersions` is the version up to which components and NATS report in
  `PlatformController`: three allows the Create and two reports in any order. In `System`
  the real controllers end by themselves, and thirty is never reached. Nor is `MaxGen`
  there: the platform has `UmbrellaGen` = 2 generations, and so has the backplane.
- `MaxPlatforms` counts platforms in `Ownership`. Two are enough for a new one to meet the
  objects, the caches and the pass of another.
- `MaxEdits` counts specs in `Rendering`. With two, a pass and a pod's start meet the
  objects of the old spec and the new in every order.
- The instances of `ownership` follow one object with a fixed name and no selector, the
  one with a selector, and one that is watched: the others behave as one of the three.

`system` has no faults of its own, which `platform_rollup` and `component_liveness` check
with each controller alone; `system_liveness` has the crash, which hits both at once.

### 3.3 Fairness

`FairSpec` has weak fairness of `Reconcile` (a worker runs while the queue is not
empty), of every delivery (informers deliver), of `TimerFires` (the queue's delays end), of
the workload controllers starting and stopping pods, and in `Ownership` of the garbage
collector. Edits, faults, the autoscaler and reports are not fair, and all are bounded, so
`Converges` speaks of the time after the last of them. In `PlatformController` the
environment needs no fairness: whatever the components report last, the roll-up says. In
`System` each controller has its own worker and so its own fairness (`FairnessSystem`). In
`Rendering` every controller and every roll-out is fair, and the restart of a pod is not.

`EmptiedOrFilled` and `MovedAway` are `FairSpec` and `FairSpecSystem`, and `ScaledDown` is
`SpecSystem`, with a restriction on the specs, which keeps those runs to the edits they are
about.

### 3.4 Runs that find a violation

Each shows that the code does something else than a comment says.

| run | property | what happens |
|---|---|---|
| `workload_failure` | `ReadyIsTrue` | a pod fails after Ready; no poll, no watch, Ready stays (`util.go:47`) |
| `bound_claim` | `Converges` | every pass updates the claim, also when its spec has not changed; once bound, the Update is refused and the pass fails for ever (`util.go:18`) |
| `autoscaler_overruled` | `ScalingKept` | every pass writes the replicas of the spec over those of the autoscaler (`common_types.go:110`) |
| `external_backplane` | `PodsFindSubstrate` | the gateway and the client get the address of the operator's NATS also when the backplane is elsewhere and that NATS is not there (`zelosplatform_types.go:73`) |

Other differences met while modelling, which no run is about. Each is one line of code, or
follows from a run above:

- The same gap as `workload_failure`, one level up: NATS or the collector fails after the
  platform became Ready, and the platform stays Ready. `RollupCoversCollector` is checked
  for a collector that has not failed later.
- A status write that fails other than by a conflict in the last pass is never retried, by
  either controller: what is published stays behind. `NoLostWakeup` says so.
- The same gap without a fault: the pass that applies a new image to four replicas or more
  polls the pods of the old one, publishes Ready and does not come back, and then the
  roll-out takes one of them down first. `RollOut` has that step; with fewer replicas the
  successor comes first. `ReadyIsTrue` fails at once for an image edit with four replicas,
  which is why `ReadyUnlessPodFailed` is proved where workloads are `Steady` (section 4.2).
- Right after an edit of the replicas, Ready may be published for the new generation from
  the old counts (`status.go:80` does not read the workload's own observed generation).
  `ReadyUnlessPodFailed` shows that a later pass corrects it.
- A DaemonSet nobody has counted yet has zero desired nodes and is available, and the client
  is never polled again (`status.go:159`). The client is therefore not in the instance of
  `ReadyUnlessPodFailed`.
- A disabled component leaves `status.children`, while its custom resource and workload stay;
  an autoscaler, claim, DaemonSet or NATS that a spec no longer calls for stays as well.
- An edit of the configuration alone reaches pods when they next start, and nothing starts
  them. `FreshConfig` is about those that start.
- The autoscaling given to a backplane is handed down and rendered nowhere. So is the log
  level of a component (`docs/architecture/08-crds.md:92`): pods have the platform's.
  `defaults.nodeSelector` and `defaults.tolerations` (`08-crds.md:64`) are not handed down.
- A client's secret references and persistence are not rendered, and a gateway's or server's
  own custom resource with persistence mounts a claim nobody renders. Through the umbrella
  the latter cannot happen (`ReferencesResolve`).
- Two secret references with one key and no path are refused by the API server, and the
  component's passes fail until the spec is changed. `Rendering!Converges` is about specs
  whose mounts are unambiguous.
- Two platforms at a time in a namespace take the collector's objects from each other in
  every pass.

### 3.5 Mutants

Next to some definitions stands a "Mutant of" it: the same code with a plausible bug (a
dropped error, a missing requeue, a write without a version, a missing `Owns`, a watch that
drops status events, a workload written before its ConfigMap). No specification uses them. `PROJECT.json` says which
property each of them breaks.

## 4. What is proved

`ComponentController_proofs` proves, for every set of specs and thus every kind, number
of nodes, bound and set of faults:

| theorem | statement |
|---|---|
| `InvariantHolds` | `Spec => []Inductive` |
| `TypeCorrect` | `Spec => []TypeOK` |
| `StatusIsHonest` | `Spec => []HonestStatus` |
| `NoWakeupLost` | `Spec => []NoLostWakeup` |
| `NoRollback` | `Spec => NeverRolledBack` |
| `ContractKept` | `Spec => KeepsContract` |

`PlatformController_proofs` proves, for every set of platform specs, bound and set of
faults:

| theorem | statement |
|---|---|
| `InvariantHolds` | `Spec => []Inductive` |
| `TypeCorrect` | `Spec => []TypeOK` |
| `StatusIsHonest` | `Spec => []HonestStatus` |
| `NoWakeupLost` | `Spec => []NoLostWakeup` |
| `RollupTrue` | `Spec => []RollupIsTrue` |
| `RollupCovers` | `Spec => []RollupCoversCollector` |

The other modules prove, for every value of their constants:

| module | theorem | statement |
|---|---|---|
| `ComponentReady_proofs` | `ReadyInvariantHolds` | `Steady` implies `Spec => []ReadyInvariant` |
| | `ReadyIsHonest` | `Steady` implies `Spec => []ReadyUnlessPodFailed` |
| `System_proofs` | `StaysInStep` | `SpecSystem => []InStep` |
| | `UmbrellaIsRefined` | `SpecSystem => UmbrellaRefined` |
| | `BackplaneIsRefined` | `SpecSystem => BackplaneRefined` |
| `SystemReady_proofs` | `SystemInvariantHolds` | `SpecSystem => []InductiveSystem` |
| | `ReadyIsTrueEndToEnd` | `SpecSystem => []ReadyEndToEnd` |
| `Ownership_proofs` | `InvariantHolds` | `Spec => []Inductive` |
| | `NothingIsLeftBehind` | `Spec => []NothingLeftToCollect` |
| | `NobodyTakesObjects` | `Spec => LivePlatformKeepsObjects` |
| `Rendering_proofs` | `InvariantHolds` | `Spec => []Inductive` |
| | `ObjectsRefer` | `Spec => []ReferencesResolve` |
| | `SelectorsExact` | `Spec => []SelectorsAreExact` |
| | `ConfigIsFresh` | `Spec => []FreshConfig` |
| | `SettingsGiven` | `Spec => []SettingsReachPods` |

The assumptions are the named ones of the modules, which say that the constants have their
types, with five that say more:

- `Steady`, a hypothesis of the two theorems about Ready (section 4.2);
- `NamesAssumption` of `Rendering`. It is true of every name, because the names of two
  kinds of object start or end differently, but the provers know nothing of the characters
  of a string. TLC evaluates it.
- `SpecsAssumption` of `Rendering` (section 2.5), which TLC evaluates for the specs of its
  runs.
- `BackplaneSpecsAssumption` and `UmbrellaSpecsAssumption` of `System` (section 2.3). That
  two contents are two specs is what a content is; the rest says which part of a platform
  the composition is about. TLC evaluates them.

### 4.1 The component controller

`HonestStatus` is not inductive: a write of the status at the end of a pass keeps it only if
every object the pass went by is still where the pass left it. `Inductive` adds, in named
parts:

- `CopiesLag`: the pass's copy is not ahead of the cache, nor the cache of the server,
  and two copies with one version are equal. So a status write that is taken is made
  from the current resource, and is about the current generation.
- `ObjectsLag`: no object is ahead of the copy that the running pass, or the next one,
  works on. So a pass never takes an object back, also after a restart.
- `PassProgress`: the objects a pass has gone by are at its generation.
- `EventKept`: a version that arrived during the pass is on the queue. This is what a lost
  status write relies on.

There is one lemma per action for `Inductive`; `NoWakeupLost`, `NoRollback` and
`ContractKept` are step lemmas on top of it. `ContractKept` maps an object's generation to
`rendered` and the observed generation to `observed`: edits and writes of objects are
`Edit` and `Render`, a status write that is taken is `Observe`, and every other step
stutters.

### 4.2 The component's Ready

`ReadyUnlessPodFailed` is about a pass that reads a copy of the workload from before this
pass, or another one, wrote it, says available and does not come back. What saves it:

- If the pass writes a new status, the write is an event, and another pass follows.
- If it does not, its generation was observed before, by a pass that had rendered it. Then
  (`PollIsCurrent`) the copy it polls is of that generation as well: a copy that were older
  would have been refused as stale when the pass applied the workload.
- A copy of the same generation that is available stays true (`CopyIsTrue`): unless one
  fails, pods only start, go where there are too many, or are replaced by one that is up
  already, and the size asked for does not change (`SizedBySpec`).
- `HonestCopies` and `ObjectCopiesLag` carry this from one pass to the next.

The hypothesis `Steady` has two parts. The size not changing is what `SizesAgree` is for: no
DaemonSet, whose nodes are counted by the cluster after the pass, and no autoscaler whose
minimum differs from the replicas of the spec. Replacements coming up first is what
`RollsInPlace` is for: specs with different templates are of Deployments of fewer than four
replicas, of which a quarter is none. Without either the theorem is false: a DaemonSet that is
counted late, a workload the autoscaler enlarges, or a Deployment of four that is rolled out
is not available although a Ready nobody re-examines says so (section 3.4). The specs of `component_liveness` satisfy both.

### 4.3 The umbrella controller

Here the objects change under the controller's hands (a component reports), two passes may
give an object different contents in turn, and `HonestStatus` compares contents. `Inductive`
has, beside `CopiesLag`, `PassProgress` and `EventKept` as above:

- `ObjectCopiesLag`: the informers' copies of the objects are not ahead of the server, and
  the same under the same version. So every report is an event yet to come, and at rest
  the copies the roll-up has read are the objects.
- `ObservedIsNewest`: once the newest generation is observed, the cache has it, no pass
  works on an earlier one, and a published Ready comes with children that are all Ready. So
  no later write takes an object back to the content of an earlier generation.

`RollupTrue` needs one fact more, `ReadyAsCopied`: a Ready that nothing will look at again
agrees with the copies of the components. It holds because a pass that does not ask to be
requeued has rolled up Ready itself (`FinishIsLast`), whatever became of its status write,
and because the event of an owned component puts the platform on the queue.

`RollupCovers` is about an object that no watch covers. Only `CollectorFails` takes a
collector down, so until then a copy that says it is up is true (`CollectorSeen`), and the
last pass has read such a copy (`CollectorUp`), or it would have asked to be requeued.

### 4.4 The two together

A composition must show of each controller that it still is the one studied alone, and of
the environment it replaces that it did what was assumed of it.

`System_proofs` proves three parts of the invariant, together `InStep`: the umbrella's view
of the custom resource and the StatefulSet is the backplane controller's own state
(`ViewsAgree`), the umbrella works on specs the platform has had (`UmbrellaPass`), and the
backplane, from its creation on, has `Inductive`, `ReadyInvariant` and `NoLostWakeup`
(`BackplaneInStep`). One lemma per joint step then shows which action it is on either side:

- `UmbrellaIsRefined`: a status write of the backplane's that is taken is `ChildReports`, a
  change of the StatefulSet `NATSChanges`, a delivery `DeliverObject`, a restart `Restart`;
  everything else the backplane controller does is a stutter. `MaxVersions` bounds reports
  on both sides alike.
- `BackplaneIsRefined`: an Update of the custom resource is `EditSpec`, and whatever else
  the umbrella does is a stutter. The Create comes before the first of these steps, and
  leaves a resource its controller has yet to hear of, for which `BackplaneInStep` holds.

Because the backplane's steps are steps of the extended `ComponentController`, the step
lemmas of its proof modules are cited as they stand, and give `BackplaneInStep` again;
`Steady` holds because the backplane's workload is a StatefulSet without an autoscaler, whose
template is the same for every spec (`render/nats.go`).
The umbrella is an instance, whose theorems the prover cannot cite, so
`SystemReady_proofs` proves anew what it needs of it (`UmbrellaInStep`): `P!CopiesLag` and
`P!EventKept` as in section 4.3, and `ChildCopyLags`, `ChildApplied`, `ChildGiven` and
`ReadyAsCopied`, which are the parts of the umbrella's invariant that speak of this one
component.

`ReadyIsTrueEndToEnd` follows the Ready down. The platform is at rest, Ready, and has
observed its newest generation; the backplane controller is at rest too.

1. The umbrella's Ready is what the copy of the custom resource says (`ReadyAsCopied`), and
   at rest the copy is the resource (`ChildCopyLags`): the backplane says Ready.
2. The newest content was handed down (`ChildGiven`), so the backplane's newest generation
   is the one wanted (`ViewsAgree`). The Ready may still be about an older one:
   `childReadyStatus` does not read the observed generation.
3. It is not, because a backplane that is behind would not be at rest (`NoLostWakeup`). This
   is where a status write of the backplane's that was lost has to be excluded.
4. The generation observed is in every object it calls for (`HonestStatus`), and none is
   ahead (`ObjectsLag`).
5. The verdict behind the Ready is true: of NATS by `ReadyInvariant`, as no pod fails here,
   and of a substrate elsewhere by the spec (`UnmanagedVerdictHolds`).

Status writes of the umbrella's may be lost: what it published before is still true.

### 4.5 Ownership

`NothingLeftToCollect` is a statement about rest. `Inductive` says what holds on the way:

- `OwnersAreHeard`: no pass runs for, and nothing is owned by, a platform that the
  controller has not heard of.
- `StalePassIsFollowed`: while a pass for a platform that is gone goes on, the live one's
  key is due. The event of the creation is what brings it.
- `PassProgress` and `IdleIsSettled`: a pass for the live platform has given it what it has
  gone by, and a live platform without a pass ahead has everything.
- `OwnPassesOnly`: once the live platform owns an object, no pass for an earlier one runs.
  The controller has one worker, so the pass that gave the object came after the last of
  the earlier ones. `NobodyTakesObjects` is this and the collector's looking at owners
  that are gone only.

### 4.6 Rendering

`Inductive` follows every edit down one chain in which nothing overtakes (`Chain`). For each
component there are seven versions, each behind the one before it:

| version | of |
|---|---|
| u | the spec the umbrella last began a pass with |
| t | the spec its telemetry ConfigMap was written from |
| c | the spec the component's custom resource was written from |
| p | the spec its controller last began a pass with |
| f | the spec its ConfigMap was written from |
| w | the spec its workload was written from |
| s | the spec whose template the newest pod runs |

`ConfigIsFresh` is the end of the chain: a pod starts with a template of version w, reads
the ConfigMap of version f and the telemetry of version t, and w <= f <= t. The steps keep
it because a pass writes in an order: the telemetry before the custom resources
(`UmbrellaAt`), and the ConfigMap before the workload (`ConfigFirst`).

`ObjectsKnown` says that every object was rendered from a spec the platform has had, and
that what each pass has yet to write resolves in that order (`Resolves`). `ObjectsRefer` is
its first half. `SelectorsExact` follows from the same: every workload and every Service is
one of a component or the collector, so their labels and selectors are known, and two of
them are never of one name.

`SettingsGiven` is about content. When nothing is left to write, `Chain` gives the custom
resource, ConfigMap and workload of the newest spec, and the rest is a calculation through
`HandedDown`, `SecretRefs`, `Workload`, `ConfigData` and `Environment`, with one lemma for
each part of `Given`. Where one source of a variable wins over another, the statement says
which: a setting loses to a secret's file of the same name, and the spec's configuration to
every variable that the operator sets. That a mount is the only one at its path comes from
`Admitted`: a workload that is on the server was admitted.

### 4.7 Only model-checked

- `Converges` of every module: liveness under fairness is beyond the prover.
- The properties that are violated, of course.

## 5. Not modelled, and what is left

Worth doing next:

1. `System` with a second component controller, and faults of both controllers at once. The
   theorems hold for every set of faults in the calls, the runs have the crash.
2. Deletion in the foreground, where the platform stays while its dependents go and
   `Reconcile`, which does not look at the deletion timestamp, may create them again.

Left out for good:

- Resources, probes, security contexts, node selectors, tolerations, ports and the digests
  of `ImageRef`: fixed, or passed through without a decision that others depend on.
- Generated deep copies, scheme registration, flags, metrics and health endpoints,
  manifests, charts and scripts. They have no decisions a model would add to.
- Leader election is off by default; with it, `Restart` is the hand-over.
