------------------------- MODULE ComponentContract -------------------------
(***************************************************************************)
(* What a component controller promises to whoever reads a component's     *)
(* custom resource, above caches, queues, retries and crashes: objects     *)
(* only move forward through the generations of the spec, and the status   *)
(* claims to have observed a generation only while that is the newest one  *)
(* and every object it calls for has been brought to it.                   *)
(***************************************************************************)
EXTENDS Components

CONSTANT Specs

VARIABLES
    specs,      \* the spec of every generation so far
    rendered,   \* the generation each object was last rendered from
    observed    \* status.observedGeneration

vars == <<specs, rendered, observed>>

Init ==
    /\ \E s \in Specs : specs = <<s>>
    /\ rendered = [p \in Parts |-> 0]
    /\ observed = 0

Newest == Len(specs)

Edit(s) ==
    /\ s.kind = specs[Newest].kind
    /\ specs' = Append(specs, s)
    /\ UNCHANGED <<rendered, observed>>

Render(p) ==
    /\ \E g \in 1..Newest :
        /\ p \in Rendered(specs[g])
        /\ rendered[p] <= g
        /\ rendered' = [rendered EXCEPT ![p] = g]
    /\ UNCHANGED <<specs, observed>>

Observe ==
    /\ \A p \in Rendered(specs[Newest]) : rendered[p] = Newest
    /\ observed' = Newest
    /\ UNCHANGED <<specs, rendered>>

Next ==
    \/ \E s \in Specs : Edit(s)
    \/ \E p \in Parts : Render(p)
    \/ Observe

Spec == Init /\ [][Next]_vars

=============================================================================
