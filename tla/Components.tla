----------------------------- MODULE Components -----------------------------
(***************************************************************************)
(* What each of the six component controllers renders from the spec of its *)
(* custom resource: which objects, in which order, and whether there is a  *)
(* workload to poll.  A spec keeps the fields these decisions read; every  *)
(* other field only changes the content of the objects, which the          *)
(* generation stands for.                                                  *)
(***************************************************************************)
EXTENDS Readiness, Sequences

ComponentKinds ==
    {"ZelosGateway", "ZelosBackplane", "ZelosMCP", "ZelosBroker", "ZelosServer",
     "ZelosClient"}

Parts == {"ConfigMap", "PVC", "Workload", "Service", "HPA"}

ComponentSpecs ==
    [kind: ComponentKinds, image: Nat, replicas: Nat, minReplicas: Nat,
     persistence: {"unset", "off", "on"}, size: Nat, inCluster: BOOLEAN,
     substrate: {"nats", "external"}, externalURL: BOOLEAN]

\* image stands for all that an edit may change of the containers of a pod.
\* The defaults: BuildDeployment and BuildNATSStatefulSet take one replica
\* when spec.replicas is unset, a volume has 1Gi, an empty substrate is nats.
\* minReplicas is that of the autoscaler, 0 without one.
DefaultSpec(kind) ==
    [kind |-> kind, image |-> 1, replicas |-> 1, minReplicas |-> 0,
     persistence |-> "unset", size |-> 1, inCluster |-> FALSE,
     substrate |-> "nats", externalURL |-> FALSE]

WorkloadKind(kind) ==
    CASE kind = "ZelosBackplane" -> "StatefulSet"
      [] kind = "ZelosClient"    -> "DaemonSet"
      [] OTHER                   -> "Deployment"

\* Mutant of GatewayOrder: the Deployment is applied before its ConfigMap.
GatewayOrderWorkloadFirst == <<"Workload", "ConfigMap", "Service", "HPA">>

\* The calls of applyObject in each Reconcile, in the order of the source.
GatewayOrder == <<"ConfigMap", "Workload", "Service", "HPA">>
BackplaneOrder == <<"Workload", "Service">>
MCPOrder == <<"ConfigMap", "PVC", "Workload", "Service">>
BrokerOrder == <<"ConfigMap", "PVC", "Workload", "Service">>
ServerOrder == <<"ConfigMap", "Workload", "Service">>
ClientOrder == <<"ConfigMap", "Workload">>

ReconcileOrder(kind) ==
    CASE kind = "ZelosGateway"   -> GatewayOrder
      [] kind = "ZelosBackplane" -> BackplaneOrder
      [] kind = "ZelosMCP"       -> MCPOrder
      [] kind = "ZelosBroker"    -> BrokerOrder
      [] kind = "ZelosServer"    -> ServerOrder
      [] OTHER                   -> ClientOrder

\* p is applied before q.
Precedes(order, p, q) ==
    \E j \in DOMAIN order : order[j] = q /\ \E i \in 1..(j - 1) : order[i] = p

\* The backplane controller installs NATS only, and only when no URL is given.
OperatorManagedNATS(s) == s.substrate = "nats" /\ ~s.externalURL

\* The operator runs, and polls, a workload for this spec.
Managed(s) ==
    CASE s.kind = "ZelosBackplane" -> OperatorManagedNATS(s)
      [] s.kind = "ZelosClient"    -> s.inCluster
      [] OTHER                     -> TRUE

\* BuildPVC renders nothing without persistence; the MCP controller first
\* turns an unset persistence on.
WantsPVC(s) ==
    s.persistence = "on" \/ (s.kind = "ZelosMCP" /\ s.persistence = "unset")

\* What a spec puts in the template of its pods: a new one is rolled out, any
\* other edit leaves the pods running.  NATS's does not depend on the spec, and
\* a client has no state volume.
Template(s) ==
    IF s.kind = "ZelosBackplane" THEN [image |-> 0, state |-> FALSE]
    ELSE [image |-> s.image, state |-> s.kind # "ZelosClient" /\ WantsPVC(s)]

\* How many of the available pods a roll-out may take down before others have
\* come up, as no Build function sets a strategy: a quarter of a Deployment,
\* rounded down, and one pod of a DaemonSet or a StatefulSet.
MaxUnavailable(kind, replicas) == IF kind = "Deployment" THEN replicas \div 4 ELSE 1

\* BuildHPA renders nothing without autoscaling.
WantsHPA(s) == s.minReplicas > 0

\* The objects that hold a volume's size, which the API server freezes when
\* they are created: a claim, and the claim template of a StatefulSet.
HoldsVolume(kind) ==
    {"PVC"} \cup (IF WorkloadKind(kind) = "StatefulSet" THEN {"Workload"} ELSE {})

\* The objects a pass over spec s applies.
Rendered(s) ==
    {p \in {ReconcileOrder(s.kind)[i] : i \in DOMAIN ReconcileOrder(s.kind)} :
        /\ Managed(s)
        /\ p = "PVC" => WantsPVC(s)
        /\ p = "HPA" => WantsHPA(s)}

\* The verdict when nothing is managed: an off-cluster client is available,
\* an external backplane is available once it has a URL.
UnmanagedVerdict(s) ==
    UnmanagedReadiness(s.kind = "ZelosClient" \/ s.externalURL)

=============================================================================
