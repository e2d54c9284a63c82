------------------------------ MODULE SystemMC ------------------------------
(***************************************************************************)
(* An instance of the composition for TLC: a backplane on NATS that is     *)
(* given one replica less, or moved to a substrate elsewhere.              *)
(***************************************************************************)
EXTENDS System

NATS == DefaultSpec("ZelosBackplane")
Contents ==
    <<NATS, [NATS EXCEPT !.replicas = 2], [NATS EXCEPT !.externalURL = TRUE]>>

ContentSet == {Contents[i] : i \in DOMAIN Contents}

\* The platform that enables the backplane with content c.
Giving(c) ==
    [telemetry |-> FALSE, externalEndpoint |-> FALSE, collectorImage |-> 1,
     child |-> [k \in ComponentKinds |-> IF k = "ZelosBackplane" THEN c ELSE 0],
     substrate |-> "nats", externalURL |-> c = 3]

Resized == {Giving(1), Giving(2)}
Moved == {Giving(1), Giving(3)}

\* The platform is created with a backplane on NATS of two replicas, and later
\* given one, or created with one, and later given a substrate elsewhere.
CreatedWith(c) == InitSystem /\ pspecs[1] = Giving(c)

ScaledDown == CreatedWith(2) /\ [][NextSystem]_varsSystem
MovedAway == CreatedWith(1) /\ [][NextSystem]_varsSystem /\ FairnessSystem

=============================================================================
