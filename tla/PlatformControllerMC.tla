------------------------ MODULE PlatformControllerMC ------------------------
(***************************************************************************)
(* Instances of the umbrella controller for TLC: two components at most,   *)
(* one of them the backplane, with and without NATS and the collector.     *)
(***************************************************************************)
EXTENDS PlatformController

NoChild == [k \in ComponentKinds |-> 0]

\* Nothing enabled, telemetry off.
EmptySpec ==
    [telemetry |-> FALSE, externalEndpoint |-> FALSE, collectorImage |-> 1,
     child |-> NoChild, substrate |-> "nats", externalURL |-> FALSE]

WithChild(s, k, v) == [s EXCEPT !.child[k] = v]

\* A gateway alone, or a new version of it beside a server.
ChildSpecs ==
    {WithChild(EmptySpec, "ZelosGateway", 1),
     WithChild(WithChild(EmptySpec, "ZelosGateway", 2), "ZelosServer", 1)}

\* A backplane on NATS, or the collector and no component.
OnNATS == WithChild(EmptySpec, "ZelosBackplane", 1)
Collecting == [EmptySpec EXCEPT !.telemetry = TRUE]
CollectingAnew == [Collecting EXCEPT !.collectorImage = 2]

\* The platform is emptied, or filled with a gateway, a backplane on NATS, or
\* the collector, or the collector is given another image.
EmptyingSpecs ==
    {EmptySpec, WithChild(EmptySpec, "ZelosGateway", 1), OnNATS, Collecting,
     CollectingAnew}

EmptyingNext ==
    \/ Reconcile
    \/ Manager
    \/ \E s \in Specs :
          /\ {specs[1], s} \in {{EmptySpec, t} : t \in Specs \ {CollectingAnew}}
                                \cup {{Collecting, CollectingAnew}}
          /\ EditSpec(s)
    \/ Reports

EmptiedOrFilled == Init /\ [][EmptyingNext]_vars /\ Fairness

=============================================================================
