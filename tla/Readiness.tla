----------------------------- MODULE Readiness -----------------------------
(***************************************************************************)
(* The readiness verdicts of internal/controller/status.go.  A verdict is  *)
(* the workloadReadiness struct: Found and Available, and the two counts   *)
(* its Message prints, which decide whether a status write changes         *)
(* anything.                                                               *)
(***************************************************************************)
EXTENDS ApplyObject

WorkloadKinds == {"Deployment", "StatefulSet", "DaemonSet"}

Verdicts == [found: BOOLEAN, available: BOOLEAN, have: Nat, want: Nat]

NotFound == [found |-> FALSE, available |-> FALSE, have |-> 0, want |-> 0]

\* A Deployment's AvailableReplicas, and a StatefulSet's ReadyReplicas,
\* against spec.replicas: zero desired replicas are never available.
ReplicaReadiness(o) ==
    [found |-> TRUE, available |-> o.avail >= o.desired /\ o.desired > 0,
     have |-> o.avail, want |-> o.desired]

\* A DaemonSet's NumberAvailable against DesiredNumberScheduled, both of
\* its status: zero desired nodes are available.
DaemonSetReadiness(o) ==
    [found |-> TRUE, available |-> o.desired = 0 \/ o.avail >= o.desired,
     have |-> o.avail, want |-> o.desired]

\* A workload that does not exist, or cannot be read, is not found.
WorkloadReadiness(kind, o) ==
    IF ~Exists(o) THEN NotFound
    ELSE IF kind = "DaemonSet" THEN DaemonSetReadiness(o) ELSE ReplicaReadiness(o)

\* The verdict on a component the operator runs no workload for: an
\* off-cluster client, a backplane on a substrate it does not install.
UnmanagedReadiness(available) ==
    [found |-> TRUE, available |-> available, have |-> 0, want |-> 0]

=============================================================================
