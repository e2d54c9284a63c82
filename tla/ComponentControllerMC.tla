----------------------- MODULE ComponentControllerMC -----------------------
(***************************************************************************)
(* Instances of the component controller for TLC: a few specs per kind,    *)
(* enough to change the replicas, to switch an optional object on and off, *)
(* and to enter and leave the mode in which nothing is managed.            *)
(***************************************************************************)
EXTENDS ComponentController

Gateway == DefaultSpec("ZelosGateway")
Backplane == DefaultSpec("ZelosBackplane")
MCP == DefaultSpec("ZelosMCP")
Broker == DefaultSpec("ZelosBroker")
Server == DefaultSpec("ZelosServer")
Client == DefaultSpec("ZelosClient")

\* A gateway at its autoscaler's minimum, with the autoscaler or without; a
\* server resized and given another image; NATS scaled to zero; a substrate
\* elsewhere without its URL, and with it.
ConvergingSpecs ==
    {Gateway, [Gateway EXCEPT !.minReplicas = 1],
     Server, [Server EXCEPT !.replicas = 2, !.image = 2],
     Backplane, [Backplane EXCEPT !.replicas = 0],
     [Backplane EXCEPT !.substrate = "external"],
     [Backplane EXCEPT !.externalURL = TRUE]}

\* Persistence left to its default, or off; off the cluster, or on it, with
\* one image or another; NATS with a volume of one size, or of another; an
\* autoscaler that wants more replicas than the spec.
ContractSpecs ==
    {MCP, [MCP EXCEPT !.persistence = "off"],
     Client, [Client EXCEPT !.inCluster = TRUE],
     [Client EXCEPT !.inCluster = TRUE, !.image = 2],
     Backplane, [Backplane EXCEPT !.size = 2],
     Gateway, [Gateway EXCEPT !.minReplicas = 2]}

BrokerSpecs == {[Broker EXCEPT !.persistence = "on"]}

MCPSpecs == {MCP}

ScalingSpecs == {[Gateway EXCEPT !.minReplicas = 2]}

=============================================================================
