----------------------------- MODULE Rendering -----------------------------
(***************************************************************************)
(* What the pods of a platform are given: the settings of its spec, handed *)
(* down field by field to the component custom resources, rendered from    *)
(* there to ConfigMaps, claims, workloads, Services and autoscalers, and   *)
(* read by the pods when they start.                                       *)
(*                                                                         *)
(* A pass is the sequence of writes that a controller computes from the    *)
(* copy it has read; the passes of the umbrella, of the components and the *)
(* pods' starts interleave.  Conflicts, lost answers and crashes are the   *)
(* other modules' subject; here a call fails when the API server refuses   *)
(* the object.  A pass that would write nothing new is left out.           *)
(***************************************************************************)
EXTENDS Components, FiniteSets

CONSTANTS
    Name,           \* the name of the platform, and so of its custom resources
    PlatformSpecs,  \* the specs an edit may give the platform
    EnvKey,         \* the upper case of a secret's key, with "-" made "_"
    MaxEdits        \* bound: specs in a behaviour

ASSUME EditsAssumption == MaxEdits \in Nat \ {0}

\* An image, and a reference to a key of a Secret, with what a spec leaves out.
Images == [repository: STRING, tag: STRING]
Mounts == [name: STRING, key: DOMAIN EnvKey, path: STRING, env: STRING]

\* The variables that every component is given, or both users of a substrate.
\* No field of a component has one of them as its variable.
CommonVariables(k) ==
    {"OTEL_SERVICE_NAME", "POD_NAME", "POD_NAMESPACE", "OTEL_LOG_LEVEL",
     "ZELOSBACKPLANE_URL", k \o "_PORT", k \o "_STATE_DIR"}

ASSUME SpecsAssumption ==
    \A s \in PlatformSpecs :
        /\ DOMAIN s.child \subseteq ComponentKinds
        /\ s.telemetry \in {"collector", "external", "off"}
        /\ s.image \in Images
        /\ \A k \in DOMAIN s.child :
              /\ s.child[k].image \in Images
              /\ s.child[k].secretRefs \in Seq(Mounts)
              /\ DOMAIN s.child[k].settings \cap CommonVariables(k) = {}

\* The keys of the auth provider's Secret.
AuthKeys == {"auth.key", "providers.json"}
ASSUME AuthKeysAssumption == AuthKeys \subseteq DOMAIN EnvKey

VARIABLES
    specs,  \* every spec the platform has had, the newest last
    objs,   \* the objects on the API server, custom resources included
    pass,   \* what each controller's running pass has yet to write
    pods    \* what the newest pod of each workload was started with

vars == <<specs, objs, pass, pods>>

Controllers == {"ZelosPlatform"} \cup ComponentKinds
Newest == specs[Len(specs)]

\* The function of one value, and f with what it leaves out taken from g.
Only(x, value) == [y \in {x} |-> value]
Over(f, g) == [x \in DOMAIN f \cup DOMAIN g |-> IF x \in DOMAIN f THEN f[x] ELSE g[x]]

-----------------------------------------------------------------------------
(* Names and labels *)

NATSName == "zelos-backplane-nats-" \o Name
NATSURL == "nats://" \o NATSName
CollectorName == "zelos-otel-collector"
ExternalURL == "nats://elsewhere"
ExternalEndpoint == "http://elsewhere"

\* An object is known by its kind and its name.
Resource(k) == <<k, Name>>
TelemetryEnvId == <<"ConfigMap", "zelos-otel-env-" \o Name>>
ConfigId(k) == <<"ConfigMap", k \o "-" \o Name \o "-config">>
RunsAs(k) == IF k = "ZelosBackplane" THEN NATSName ELSE k \o "-" \o Name
WorkloadId(k) == <<WorkloadKind(k), RunsAs(k)>>
ClaimId(k) == <<"PersistentVolumeClaim", k \o "-" \o Name>>
CollectorConfigId == <<"ConfigMap", CollectorName \o "-config">>

\* Whatever the platform's name is, no two of these names are the same: they
\* start with the component's, with zelos-otel-env- or zelos-otel-collector.
\* Nor is the log level's variable one of a component's own.
ASSUME NamesAssumption ==
    /\ \A k, l \in ComponentKinds :
          k # l => RunsAs(k) # RunsAs(l) /\ ConfigId(k) # ConfigId(l)
    /\ \A k \in ComponentKinds :
          /\ RunsAs(k) # CollectorName
          /\ ConfigId(k) \notin {TelemetryEnvId, CollectorConfigId}
          /\ "OTEL_LOG_LEVEL" \notin {k \o "_PORT", k \o "_STATE_DIR"}
    /\ TelemetryEnvId # CollectorConfigId

WorkloadIds == {id \in DOMAIN objs : id[1] \in {"Deployment", "StatefulSet", "DaemonSet"}}
ServiceIds == {id \in DOMAIN objs : id[1] = "Service"}

\* The labels of an object, and those that Services and workloads select by.
Labels(name, component) ==
    [name |-> name, instance |-> Name, component |-> component]

\* Mutant of SelectorLabels: every object of the instance is selected.
SelectorLabelsOfInstance(name) == [instance |-> Name]
SelectorLabels(name) == [name |-> name, instance |-> Name]

LabelOf(k) == IF k = "ZelosBackplane" THEN "nats" ELSE k
Selects(selector, labels) == \A f \in DOMAIN selector : selector[f] = labels[f]

-----------------------------------------------------------------------------
(* From the platform's spec to the component custom resources *)

\* Mutant of MergeImage: the defaults win.
MergeImageBaseWins(base, override) ==
    [f \in DOMAIN base |-> IF base[f] = "" THEN override[f] ELSE base[f]]
MergeImage(base, override) ==
    [f \in DOMAIN base |-> IF override[f] = "" THEN base[f] ELSE override[f]]

\* Mutant of KeepsState: the claim handed to a component that renders none.
KeepsStateAll(k) == TRUE

\* The components that are handed their persistence, and their autoscaling.
KeepsState(k) == k \in {"ZelosBackplane", "ZelosMCP", "ZelosBroker"}
IsScaled(k) == k \in {"ZelosBackplane", "ZelosGateway"}

\* The fields of a component's custom resource that come from the platform's
\* spec.  The settings are the fields of one component, by the variable they
\* end up in.  Replicas, resources and sizes are not followed here.
FromPlatform(s, k) ==
    LET c == s.child[k]
    IN  [minReplicas |-> IF IsScaled(k) THEN c.minReplicas ELSE 0,
         persistence |-> IF KeepsState(k) THEN c.persistence ELSE "unset",
         inCluster |-> c.inCluster,
         externalURL |-> c.externalURL,
         image |-> MergeImage(s.image, c.image),
         pullSecret |-> IF s.pullSecret = "" THEN "ghcr-pull-secret" ELSE s.pullSecret,
         config |-> c.config,
         settings |-> c.settings,
         secretRefs |-> c.secretRefs,
         auth |-> IF k = "ZelosMCP" THEN c.auth ELSE ""]

\* The spec of the custom resource the umbrella renders for component k.
HandedDown(s, k) == Over(FromPlatform(s, k), DefaultSpec(k))

\* The variables of the suite-wide telemetry ConfigMap.
TelemetryEnv(s) ==
    LET exporter == IF s.telemetry = "off" THEN "console" ELSE "otlp"
        endpoint == IF s.telemetry = "external" THEN ExternalEndpoint
                    ELSE "http://" \o CollectorName
    IN  Over([OTEL_LOG_LEVEL |-> IF s.logLevel = "" THEN "info" ELSE s.logLevel,
              OTEL_LOGS_EXPORTER |-> exporter],
             IF s.telemetry = "off" THEN <<>> ELSE [OTEL_EXPORTER_OTLP_ENDPOINT |-> endpoint])

-----------------------------------------------------------------------------
(* From a component custom resource to its objects *)

\* BuildConfigMap's data: what the controller sets wins over spec.config.
ConfigData(cr) ==
    LET url == IF cr.kind \in {"ZelosGateway", "ZelosClient"}
               THEN [ZELOSBACKPLANE_URL |-> NATSURL] ELSE <<>>
    IN  Over(url, Over(cr.settings, cr.config))

AuthMount(cr, key) == [name |-> cr.auth, key |-> key, path |-> "", env |-> ""]

\* Mutant of SecretRefs: the standard mounts are appended also when the spec
\* lists them.
SecretRefsTwice(cr) ==
    cr.secretRefs \o (IF cr.auth = "" THEN <<>>
                      ELSE <<AuthMount(cr, "auth.key"), AuthMount(cr, "providers.json")>>)

\* The MCP controller adds the two mounts of the auth provider's Secret, each
\* unless the spec already has that key of that Secret.
SecretRefs(cr) ==
    LET Listed(n) == \E i \in DOMAIN cr.secretRefs :
            cr.secretRefs[i].name = n.name /\ cr.secretRefs[i].key = n.key
        Unlisted(n) == IF Listed(n) THEN <<>> ELSE <<n>>
    IN  IF cr.auth = "" THEN cr.secretRefs
        ELSE cr.secretRefs \o Unlisted(AuthMount(cr, "auth.key"))
                           \o Unlisted(AuthMount(cr, "providers.json"))

MountPath(ref) == IF ref.path = "" THEN "/etc/zelos/secrets/" \o ref.key ELSE ref.path
FileEnv(k, ref) == IF ref.env = "" THEN k \o "_" \o EnvKey[ref.key] \o "_FILE" ELSE ref.env
StateDir(k) == "/var/lib/zelos/" \o k

\* One mount for each reference, and one for the claim.
SecretMounts(refs) ==
    [i \in DOMAIN refs |->
        [path |-> MountPath(refs[i]), volume |-> refs[i].name, key |-> refs[i].key]]
StateMount(cr) ==
    IF WantsPVC(cr) THEN <<[path |-> StateDir(cr.kind), volume |-> "state", key |-> ""]>>
    ELSE <<>>

\* Of two variables of one name in a container, the last counts.
SecretEnv(k, refs) ==
    [n \in {FileEnv(k, refs[i]) : i \in DOMAIN refs} |->
        MountPath(refs[CHOOSE i \in DOMAIN refs :
            /\ FileEnv(k, refs[i]) = n
            /\ \A j \in DOMAIN refs : FileEnv(k, refs[j]) = n => j <= i])]

PodInfo(k) ==
    [OTEL_SERVICE_NAME |-> k, POD_NAME |-> "metadata.name",
     POD_NAMESPACE |-> "metadata.namespace"]
StandardEnv(k) ==
    Over(PodInfo(k),
         Over(Only(k \o "_PORT", "http"), Only(k \o "_STATE_DIR", StateDir(k))))

PodTemplate(k) ==
    [labels |-> Labels(LabelOf(k), k), selector |-> SelectorLabels(LabelOf(k)),
     image |-> [repository |-> "nats", tag |-> "2.10-alpine"],
     pullSecrets |-> {}, env |-> <<>>, envFrom |-> <<>>, mounts |-> <<>>, claims |-> {}]

\* BuildDeployment; buildClientDaemonSet, which leaves the secrets, the state
\* and two of the variables out; BuildNATSStatefulSet.
Workload(cr) ==
    LET k == cr.kind
        pod == [PodTemplate(k) EXCEPT
            !.image = MergeImage(
                [repository |-> "ghcr.io/zelosai/" \o k, tag |-> "develop"], cr.image),
            !.pullSecrets = {cr.pullSecret, "ghcr-pull-secret"},
            !.envFrom = <<TelemetryEnvId, ConfigId(k)>>]
        refs == SecretRefs(cr)
    IN  CASE WorkloadKind(k) = "StatefulSet" -> PodTemplate(k)
          [] WorkloadKind(k) = "DaemonSet" -> [pod EXCEPT !.env = PodInfo(k)]
          [] OTHER -> [pod EXCEPT
                !.env = Over(SecretEnv(k, refs), StandardEnv(k)),
                !.mounts = SecretMounts(refs) \o StateMount(cr),
                !.claims = IF WantsPVC(cr) THEN {ClaimId(k)} ELSE {}]

\* The write of one part of a component: the object and its content.
PartWrite(cr, p) ==
    LET k == cr.kind
    IN  CASE p = "ConfigMap" -> <<ConfigId(k), ConfigData(cr)>>
          [] p = "PVC"       -> <<ClaimId(k), cr.size>>
          [] p = "Workload"  -> <<WorkloadId(k), Workload(cr)>>
          [] p = "Service"   -> <<<<"Service", RunsAs(k)>>, SelectorLabels(LabelOf(k))>>
          [] OTHER           -> <<<<"HorizontalPodAutoscaler", RunsAs(k)>>, WorkloadId(k)>>

ComponentWrites(cr) ==
    LET order == ReconcileOrder(cr.kind)
        Call(i) == IF i \in DOMAIN order /\ order[i] \in Rendered(cr)
                   THEN <<PartWrite(cr, order[i])>> ELSE <<>>
    IN  Call(1) \o Call(2) \o Call(3) \o Call(4)

-----------------------------------------------------------------------------
(* The umbrella's objects *)

\* BuildCollectorDeployment, for a platform that names no other image.
CollectorPod ==
    [PodTemplate("ZelosPlatform") EXCEPT
        !.labels = Labels(CollectorName, ""), !.selector = SelectorLabels(CollectorName),
        !.image = [repository |-> "otel/opentelemetry-collector-contrib", tag |-> "0.110.0"],
        !.envFrom = <<CollectorConfigId>>]

CollectorWrites ==
    <<<<CollectorConfigId, <<>>>>,
      <<<<"Deployment", CollectorName>>, CollectorPod>>,
      <<<<"Service", CollectorName>>, SelectorLabels(CollectorName)>>>>

PlatformWrites(s) ==
    LET Child(k) == IF k \in DOMAIN s.child
                    THEN <<<<Resource(k), HandedDown(s, k)>>>> ELSE <<>>
    IN  <<<<TelemetryEnvId, TelemetryEnv(s)>>>>
        \o (IF s.telemetry = "collector" THEN CollectorWrites ELSE <<>>)
        \o Child("ZelosBackplane") \o Child("ZelosGateway") \o Child("ZelosMCP")
        \o Child("ZelosBroker") \o Child("ZelosServer") \o Child("ZelosClient")

-----------------------------------------------------------------------------
(* Steps *)

Init ==
    /\ specs \in {<<s>> : s \in PlatformSpecs}
    /\ objs = <<>>
    /\ pass = [c \in Controllers |-> <<>>]
    /\ pods = <<>>

\* What a pass of controller c would write now.
Writes(c) ==
    IF c = "ZelosPlatform" THEN PlatformWrites(Newest)
    ELSE IF Resource(c) \in DOMAIN objs THEN ComponentWrites(objs[Resource(c)])
    ELSE <<>>

Written(w) == w[1] \in DOMAIN objs /\ objs[w[1]] = w[2]
UpToDate(c) == \A i \in DOMAIN Writes(c) : Written(Writes(c)[i])

Begin(c) ==
    /\ pass[c] = <<>>
    /\ ~UpToDate(c)
    /\ pass' = [pass EXCEPT ![c] = Writes(c)]
    /\ UNCHANGED <<specs, objs, pods>>

\* The API server takes no container with two mounts at one path.
Admitted(w) ==
    w[1][1] = "Deployment" =>
        \A i, j \in DOMAIN w[2].mounts : w[2].mounts[i].path = w[2].mounts[j].path => i = j

\* A refused object ends the pass, which is retried from its start.
Apply(c) ==
    /\ pass[c] # <<>>
    /\ LET w == Head(pass[c])
       IN  IF Admitted(w)
           THEN /\ objs' = Over(Only(w[1], w[2]), objs)
                /\ pass' = [pass EXCEPT ![c] = Tail(@)]
           ELSE /\ pass' = [pass EXCEPT ![c] = <<>>]
                /\ UNCHANGED objs
    /\ UNCHANGED <<specs, pods>>

EditSpec(s) ==
    /\ Len(specs) < MaxEdits
    /\ s # Newest
    /\ specs' = Append(specs, s)
    /\ UNCHANGED <<objs, pass, pods>>

\* What a container sees: its own variables first, then the later ConfigMap.
Environment(env, telemetry, config) == Over(env, Over(config, telemetry))

\* A workload's pods mount claims and read ConfigMaps that exist.
References(pod) == pod.claims \cup {pod.envFrom[i] : i \in DOMAIN pod.envFrom}

EnvironmentNow(pod) ==
    Environment(pod.env, objs[TelemetryEnvId], objs[pod.envFrom[2]])

\* A pod starts with the template: a roll-out, or a pod that is replaced.
Start(id, pod) ==
    /\ References(pod) \subseteq DOMAIN objs
    /\ pods' = Over(Only(id, [template |-> pod, env |-> EnvironmentNow(pod)]), pods)
    /\ UNCHANGED <<specs, objs, pass>>

\* The components' pods, which read both ConfigMaps.
ComponentPods == {id \in WorkloadIds : Len(objs[id].envFrom) = 2}

RollOut(id) ==
    /\ id \in ComponentPods
    /\ id \in DOMAIN pods => pods[id].template # objs[id]
    /\ Start(id, objs[id])

\* A container restarts: it reads its ConfigMaps again.
PodRestarts(id) ==
    /\ id \in DOMAIN pods
    /\ Start(id, pods[id].template)

Next ==
    \/ \E c \in Controllers : Begin(c) \/ Apply(c)
    \/ \E s \in PlatformSpecs : EditSpec(s)
    \/ \E id \in ComponentPods : RollOut(id) \/ PodRestarts(id)

Spec == Init /\ [][Next]_vars

\* Each controller has a worker and retries; roll-outs are Kubernetes's.
Fairness ==
    /\ \A c \in Controllers : WF_vars(Begin(c)) /\ WF_vars(Apply(c))
    /\ \A k \in ComponentKinds : WF_vars(RollOut(WorkloadId(k)))

FairSpec == Spec /\ Fairness

-----------------------------------------------------------------------------
(* Correctness *)

\* Whatever has been written so far, no object on the server names another
\* one that is missing: the ConfigMaps and claims of a workload, the workload
\* of an autoscaler.  Every pass writes an object before those that use it,
\* and the umbrella only gives a component state that its controller renders.
ReferencesResolve ==
    /\ \A id \in WorkloadIds : References(objs[id]) \subseteq DOMAIN objs
    /\ \A id \in DOMAIN objs : id[1] = "HorizontalPodAutoscaler" => objs[id] \in DOMAIN objs

\* Among the pods of all components, NATS and the collector, a workload and
\* the Service of its name select those of the workload and no others.
SelectorsAreExact ==
    \A id, other \in WorkloadIds :
        /\ Selects(objs[id].selector, objs[other].labels) <=> id = other
        /\ <<"Service", id[2]>> \in ServiceIds =>
              (Selects(objs[<<"Service", id[2]>>], objs[other].labels) <=> id = other)

\* A pod never combines the template of one edit with the configuration of an
\* earlier one: the ConfigMaps are written before the workload they belong to.
FreshConfig ==
    \A k \in ComponentKinds :
        LET id == WorkloadId(k)
            Has(n) == k \in DOMAIN specs[n].child
            Config(n) == ConfigData(HandedDown(specs[n], k))
        IN  id \in DOMAIN pods =>
              \E n \in DOMAIN specs :
                 /\ Has(n) /\ pods[id].template = Workload(HandedDown(specs[n], k))
                 /\ \E c, t \in n..Len(specs) :
                       /\ Has(c)
                       /\ pods[id].env = Environment(pods[id].template.env,
                                            TelemetryEnv(specs[t]), Config(c))

\* The components whose pods the newest spec asks for.
WithPods == {k \in DOMAIN Newest.child :
    k # "ZelosBackplane" /\ Managed(HandedDown(Newest, k))}

\* Nothing is left to write: the newest spec is in every object.
Settled == UpToDate("ZelosPlatform") /\ \A k \in DOMAIN Newest.child : UpToDate(k)

FirstSet(a, b, c) == IF a # "" THEN a ELSE IF b # "" THEN b ELSE c

\* The references that are mounted in the pods of k, and their variables.
MountedRefs(s, k) == IF k = "ZelosClient" THEN <<>> ELSE SecretRefs(HandedDown(s, k))
Named(s, k) == {FileEnv(k, MountedRefs(s, k)[i]) : i \in DOMAIN MountedRefs(s, k)}

\* The template has the image the component's spec asks for, else that of the
\* platform's, else the default, field by field, and the pull secret.
GivenImage(s, k, pod) ==
    LET c == s.child[k]
    IN  /\ pod.image = [repository |-> FirstSet(c.image.repository, s.image.repository,
                                                "ghcr.io/zelosai/" \o k),
                        tag |-> FirstSet(c.image.tag, s.image.tag, "develop")]
        /\ s.pullSecret # "" => s.pullSecret \in pod.pullSecrets

\* A pod that starts now reads the component's settings, the configuration the
\* operator has no value of its own for, and the log level.  A variable that
\* the spec gives to a secret key is that key's.
GivenVariables(s, k, pod, env) ==
    LET c == s.child[k]
        own == DOMAIN pod.env \cup DOMAIN c.settings \cup {"ZELOSBACKPLANE_URL"}
    IN  /\ \A n \in DOMAIN c.settings \ Named(s, k) : env[n] = c.settings[n]
        /\ \A n \in DOMAIN c.config \ own : env[n] = c.config[n]
        /\ "OTEL_LOG_LEVEL" \in DOMAIN c.config \cup Named(s, k)
              \/ env["OTEL_LOG_LEVEL"] = FirstSet(s.logLevel, "info", "")

\* Each secret key is a file, named by its variable if that is its alone.
GivenFiles(s, k, pod, env) ==
    LET refs == s.child[k].secretRefs
        all == MountedRefs(s, k)
        Alone(i) == \A j \in DOMAIN all \ {i} : FileEnv(k, all[j]) # FileEnv(k, refs[i])
        At(path) == {m \in DOMAIN pod.mounts : pod.mounts[m].path = path}
    IN  \A i \in DOMAIN refs :
           /\ {pod.mounts[m] : m \in At(MountPath(refs[i]))} =
                 {[path |-> MountPath(refs[i]), volume |-> refs[i].name, key |-> refs[i].key]}
           /\ Alone(i) => env[FileEnv(k, refs[i])] = MountPath(refs[i])

\* The keys of the auth provider are mounted.
GivenAuth(c, pod) ==
    \A key \in AuthKeys :
       \E i \in DOMAIN pod.mounts :
          pod.mounts[i].volume = c.auth /\ pod.mounts[i].key = key

\* What spec s promises the pods of component k.
Given(s, k, pod, env) ==
    /\ GivenImage(s, k, pod)
    /\ GivenVariables(s, k, pod, env)
    /\ k # "ZelosClient" => GivenFiles(s, k, pod, env)
    /\ k = "ZelosMCP" /\ s.child[k].auth # "" => GivenAuth(s.child[k], pod)

\* Once the newest spec is in every object, every pod that starts is given
\* what the platform's spec promises its component, on the way down through
\* two merges and the precedence of four sources of variables.
SettingsReachPods ==
    Settled => \A k \in WithPods :
        Given(Newest, k, objs[WorkloadId(k)], EnvironmentNow(objs[WorkloadId(k)]))

\* The URL in the backplane's status, which is where its substrate is.
SubstrateURL(s) == IF s.child["ZelosBackplane"].externalURL THEN ExternalURL ELSE NATSURL

\* Once the newest spec is in every object, the pods that are told where the
\* backplane is are told the address of its substrate.
PodsFindSubstrate ==
    Settled /\ "ZelosBackplane" \in DOMAIN Newest.child =>
        \A k \in WithPods \cap {"ZelosGateway", "ZelosClient"} :
            EnvironmentNow(objs[WorkloadId(k)])["ZELOSBACKPLANE_URL"] = SubstrateURL(Newest)

\* No path is asked for twice, by the references of the spec or by one of
\* them and a standard mount that the spec does not list itself.
Unambiguous(k, c) ==
    LET paths == [i \in DOMAIN c.secretRefs |-> MountPath(c.secretRefs[i])]
        Standard(r) == r.name = c.auth /\ r.key \in AuthKeys
    IN  /\ \A i, j \in DOMAIN paths : paths[i] = paths[j] => i = j
        /\ \A i \in DOMAIN paths :
              /\ paths[i] # StateDir(k)
              /\ c.auth # "" /\ ~Standard(c.secretRefs[i]) =>
                    paths[i] \notin {"/etc/zelos/secrets/" \o f : f \in AuthKeys}

\* If edits end, a spec whose mounts are unambiguous reaches every object, and
\* every workload runs pods of its template.  Nothing brings a change of a
\* ConfigMap alone to pods that run: they read it when they next start.
Converges ==
    <>[]((\A k \in DOMAIN Newest.child : Unambiguous(k, Newest.child[k])) =>
            /\ Settled
            /\ \A k \in WithPods :
                  LET id == WorkloadId(k)
                  IN  id \in DOMAIN pods /\ pods[id].template = objs[id])

-----------------------------------------------------------------------------
(* The invariant of the proofs *)

IsSequence(q) == q \in Seq({q[i] : i \in DOMAIN q})

\* In the writes q, one of object x comes before every one of object y.
Before(q, x, y) == \A i \in DOMAIN q : q[i][1] = y => \E j \in 1..(i - 1) : q[j][1] = x

UmbrellaWrite(s, w) ==
    \/ w = <<TelemetryEnvId, TelemetryEnv(s)>>
    \/ s.telemetry = "collector" /\ \E i \in DOMAIN CollectorWrites : w = CollectorWrites[i]
    \/ \E k \in DOMAIN s.child : w = <<Resource(k), HandedDown(s, k)>>

ComponentWrite(cr, w) == \E p \in Rendered(cr) : w = PartWrite(cr, p)

\* The umbrella last began with spec u, and last wrote the telemetry of spec
\* t, which it does before it writes anything else of u.
UmbrellaAt(t, u) ==
    /\ t <= u
    /\ TelemetryEnvId \in DOMAIN objs => objs[TelemetryEnvId] = TelemetryEnv(specs[t])
    /\ \A i \in DOMAIN pass["ZelosPlatform"] :
          UmbrellaWrite(specs[u], pass["ZelosPlatform"][i])
    /\ \/ t = u /\ TelemetryEnvId \in DOMAIN objs
       \/ \A k \in ComponentKinds :
             Before(pass["ZelosPlatform"], TelemetryEnvId, Resource(k))

\* Spec n has component k; what the umbrella hands it down then.
Wanted(k, n) == k \in DOMAIN specs[n].child
Handed(k, n) == HandedDown(specs[n], k)

\* The custom resource of component k is of spec c, and the umbrella wrote the
\* telemetry before it.
ResourceAt(k, c) ==
    Resource(k) \in DOMAIN objs =>
        TelemetryEnvId \in DOMAIN objs /\ Wanted(k, c) /\ objs[Resource(k)] = Handed(k, c)

\* The last pass of its controller is over spec p.
PassAt(k, p) ==
    \A i \in DOMAIN pass[k] : Wanted(k, p) /\ ComponentWrite(Handed(k, p), pass[k][i])

\* Its ConfigMap is of spec f, and is that of the pass before the workload is.
ConfigAt(k, f) ==
    ConfigId(k) \in DOMAIN objs =>
        Wanted(k, f) /\ objs[ConfigId(k)] = ConfigData(Handed(k, f))
ConfigFirst(k, f, p) ==
    \/ f = p /\ ConfigId(k) \in DOMAIN objs
    \/ k = "ZelosBackplane"
    \/ Before(pass[k], ConfigId(k), WorkloadId(k))

\* Its workload is of spec w.
WorkloadAt(k, w) ==
    WorkloadId(k) \in DOMAIN objs =>
        Wanted(k, w) /\ objs[WorkloadId(k)] = Workload(Handed(k, w))

\* The newest pod of component k runs the template of spec s, with the
\* configuration of that spec or of later ones.
PodAt(k, s) ==
    LET id == WorkloadId(k)
    IN  id \in DOMAIN pods =>
          /\ k # "ZelosBackplane" /\ id \in DOMAIN objs
          /\ Wanted(k, s) /\ pods[id].template = Workload(Handed(k, s))
          /\ \E m, n \in s..Len(specs) :
                /\ Wanted(k, m)
                /\ pods[id].env = Environment(pods[id].template.env,
                                     TelemetryEnv(specs[n]), ConfigData(Handed(k, m)))

\* On the way of component k from the platform's spec to its pods, its custom
\* resource is at spec c, its controller's last pass at p, its ConfigMap at f,
\* its workload at w, and its newest pod at s: each behind the one before it.
ComponentAt(k, t, c, p, f, w, s) ==
    /\ s <= w /\ w <= f /\ f <= p /\ p <= c /\ c <= t
    /\ ResourceAt(k, c) /\ PassAt(k, p) /\ ConfigAt(k, f) /\ ConfigFirst(k, f, p)
    /\ WorkloadAt(k, w) /\ PodAt(k, s)

\* Every edit goes down one chain, in which nothing overtakes.
Chain ==
    \E u \in DOMAIN specs : \E t \in DOMAIN specs :
        /\ UmbrellaAt(t, u)
        /\ \A k \in ComponentKinds :
              \E c, p, f, w, s \in DOMAIN specs : ComponentAt(k, t, c, p, f, w, s)

\* The objects that an object names: the kubelet, or an autoscaler, looks for
\* them.
Needs(id, content) ==
    IF id[1] \in {"Deployment", "StatefulSet", "DaemonSet"} THEN References(content)
    ELSE IF id[1] = "HorizontalPodAutoscaler" THEN {content}
    ELSE {}

\* The writes q can be made in their order where the objects of D exist.
Resolves(q, D) ==
    \A i \in DOMAIN q : Needs(q[i][1], q[i][2]) \subseteq D \cup {q[j][1] : j \in 1..(i - 1)}

\* Every object was rendered from a spec the platform has had, and names
\* objects that exist; the passes' writes will do so as well.
ObjectsKnown ==
    /\ \A id \in DOMAIN objs :
          /\ Admitted(<<id, objs[id]>>)
          /\ Needs(id, objs[id]) \subseteq DOMAIN objs
          /\ \E n \in DOMAIN specs :
                \/ UmbrellaWrite(specs[n], <<id, objs[id]>>)
                \/ \E k \in DOMAIN specs[n].child :
                      ComponentWrite(HandedDown(specs[n], k), <<id, objs[id]>>)
    /\ \A c \in Controllers : Resolves(pass[c], DOMAIN objs)

Inductive ==
    /\ specs \in Seq(PlatformSpecs) /\ specs # <<>>
    /\ DOMAIN pass = Controllers /\ \A c \in Controllers : IsSequence(pass[c])
    /\ ObjectsKnown
    /\ Chain

=============================================================================
