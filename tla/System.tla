------------------------------- MODULE System -------------------------------
(***************************************************************************)
(* The umbrella and the backplane controller in one manager, from the      *)
(* platform's spec down to the pods of NATS and back up to its Ready.      *)
(*                                                                         *)
(* The backplane controller is ComponentController, which this module      *)
(* extends; the umbrella is an instance P of PlatformController, with its  *)
(* own queue and passes.  They meet in the API server and in the informer  *)
(* caches of the one manager: the custom resource that the umbrella        *)
(* applies is the one the backplane controller reads and writes the status *)
(* of, and the StatefulSet that the backplane controller polls is the one  *)
(* the roll-up polls.  pobj and pobjCache hold the umbrella's view of      *)
(* both, kept equal to the backplane controller's.                         *)
(***************************************************************************)
EXTENDS ComponentController

CONSTANTS
    UmbrellaSpecs,  \* the specs an edit may give the platform
    BackplaneSpecs, \* the component spec for each content handed down
    UmbrellaFaults, \* the kinds of fault in the umbrella's calls
    UmbrellaGen,    \* bound: generations of the platform
    MaxVersions     \* bound: versions of the custom resource and of NATS

\* A content is what is in the spec: two contents are two specs.
ASSUME BackplaneSpecsAssumption ==
    /\ BackplaneSpecs \in Seq({s \in ComponentSpecs : s.kind = "ZelosBackplane"})
    /\ \A i, j \in DOMAIN BackplaneSpecs : BackplaneSpecs[i] = BackplaneSpecs[j] => i = j
    /\ Specs = {BackplaneSpecs[i] : i \in DOMAIN BackplaneSpecs}
ASSUME UmbrellaSpecsAssumption ==
    \A s \in UmbrellaSpecs :
        /\ s.child["ZelosBackplane"] \in 0..Len(BackplaneSpecs)
        /\ \A k \in ComponentKinds \ {"ZelosBackplane"} : s.child[k] = 0
        /\ s.child["ZelosBackplane"] > 0 =>
              LET b == BackplaneSpecs[s.child["ZelosBackplane"]]
              IN  /\ b.substrate = s.substrate
                  /\ b.externalURL = s.externalURL
        /\ s.telemetry => s.externalEndpoint
        /\ s.collectorImage \in Nat

ASSUME UmbrellaBoundsAssumption == UmbrellaGen \in Nat /\ MaxVersions \in Nat

\* The platform, the umbrella's objects, and its controller.
VARIABLES pspecs, pcr, pcrCache, pobj, pobjCache, pwake, prunning, ptodo, psnap, pfaults

pvars == <<pspecs, pcr, pcrCache, pobj, pobjCache, pwake, prunning, ptodo, psnap, pfaults>>
varsSystem == <<pvars, vars>>

P == INSTANCE PlatformController
    WITH Specs <- UmbrellaSpecs, Faults <- UmbrellaFaults, MaxGen <- UmbrellaGen,
         specs <- pspecs, cr <- pcr, crCache <- pcrCache, obj <- pobj,
         objCache <- pobjCache, wake <- pwake, running <- prunning, todo <- ptodo,
         snap <- psnap, faults <- pfaults

\* The backplane before the umbrella has created it: nothing is on the server
\* or in the caches, and its key is on no queue.  The generation that its
\* controller will hear of first is at least 1.
Uncreated == [gen |-> 0, rv |-> 0, obs |-> 0, verdict |-> NotFound]
Unheard == [Uncreated EXCEPT !.gen = 1]

Created == cr.rv > 0

NoBackplane ==
    /\ specs = <<>>
    /\ cr = Uncreated
    /\ crCache = Unheard
    /\ obj = [p \in Parts |-> NoObject]
    /\ objCache = obj
    /\ wake = "none"
    /\ running = FALSE
    /\ todo = {}
    /\ snap = Unheard
    /\ faults = {}

InitSystem == P!Init /\ NoBackplane

-----------------------------------------------------------------------------
(* The two views of the backplane and of NATS *)

\* What childReadyStatus finds in the backplane's status.
ReadyCondition(r) == IF r.obs = 0 THEN "Unknown" ELSE P!Flag(r.verdict.available)

\* What statefulSetReadiness finds in NATS's.
NATSReady(w) ==
    IF Exists(w) THEN P!Flag(WorkloadReadiness("StatefulSet", w).available) ELSE "Unknown"

\* The umbrella sees a step of the backplane controller, or of the cluster, in
\* the custom resource and in the StatefulSet.
SeenByPlatform ==
    pobj' = [pobj EXCEPT
        !["ZelosBackplane"].rv = cr'.rv,
        !["ZelosBackplane"].ready = ReadyCondition(cr'),
        !["NATS"].rv = obj'["Workload"].rv,
        !["NATS"].ready = NATSReady(obj'["Workload"])]

\* Mutant of HandedDown: the resource is replaced by the one just built, which
\* has no status, instead of being given its spec.
HandedDownWithoutStatus ==
    LET b == pobj'["ZelosBackplane"]
    IN  IF b.content = pobj["ZelosBackplane"].content THEN UNCHANGED <<specs, cr>>
        ELSE /\ specs' = Append(specs, BackplaneSpecs[b.content])
             /\ cr' = [cr EXCEPT !.gen = @ + 1, !.rv = @ + 1,
                                 !.obs = 0, !.verdict = NotFound]

\* The backplane sees the umbrella's Create, or its Update with a new spec,
\* as a new generation.
HandedDown ==
    LET b == pobj'["ZelosBackplane"]
    IN  IF b.content = pobj["ZelosBackplane"].content THEN UNCHANGED <<specs, cr>>
        ELSE /\ specs' = Append(specs, BackplaneSpecs[b.content])
             /\ cr' = [cr EXCEPT !.gen = @ + 1, !.rv = @ + 1]

-----------------------------------------------------------------------------
(* Steps *)

\* The umbrella's passes, its timer, and the edits of the platform.
PlatformSteps ==
    /\ P!Reconcile
    /\ HandedDown
    /\ cr.gen < MaxGen \/ UNCHANGED cr
    /\ UNCHANGED <<crCache, obj, objCache, wake, running, todo, snap, faults>>

PlatformEvents ==
    /\ \/ P!DeliverPlatform
       \/ P!DeliverObject("TelemetryEnv")
       \/ P!TimerFires
       \/ \E s \in UmbrellaSpecs : P!EditSpec(s)
    /\ UNCHANGED vars

\* A step of the backplane controller, or of the pods of NATS.
Backplane(A) ==
    /\ Created
    /\ A
    /\ cr.rv < MaxVersions \/ UNCHANGED cr
    /\ obj["Workload"].rv < MaxVersions \/ UNCHANGED obj
    /\ SeenByPlatform
    /\ UNCHANGED <<pspecs, pcr, pcrCache, pobjCache, pwake, prunning, ptodo, psnap, pfaults>>

\* The backplane controller's passes and timer, and the pods of NATS, which
\* have one template for every spec, so none is rolled out, and which do not
\* fail here: workload_failure shows that nothing would notice.
BackplaneSteps ==
    \/ Backplane(Reconcile)
    \/ Backplane(TimerFires)
    \/ Backplane(PodBecomesAvailable)
    \/ Backplane(PodScaledDown)

DeliverService ==
    /\ DeliverObject("Service")
    /\ UNCHANGED pvars

\* Mutant of DeliverBackplane: SetupWithManager without Owns(ZelosBackplane).
DeliverBackplaneUnowned ==
    /\ DeliverResource
    /\ pobjCache' = [pobjCache EXCEPT !["ZelosBackplane"] = pobj["ZelosBackplane"]]
    /\ UNCHANGED <<pspecs, pcr, pcrCache, pobj, pwake, prunning, ptodo, psnap, pfaults>>

\* One informer feeds the For watch of one controller and the Owns watch of
\* the other.
DeliverBackplane ==
    /\ DeliverResource
    /\ P!DeliverObject("ZelosBackplane")

\* One informer feeds both polls of the StatefulSet, and wakes nobody.
DeliverNATS ==
    /\ DeliverObject("Workload")
    /\ P!DeliverObject("NATS")

\* Both controllers live in the manager.
RestartManager ==
    /\ P!Restart
    /\ IF Created THEN Restart ELSE UNCHANGED vars

NextSystem ==
    \/ PlatformSteps
    \/ PlatformEvents
    \/ BackplaneSteps
    \/ DeliverService
    \/ DeliverBackplane
    \/ DeliverNATS
    \/ RestartManager

SpecSystem == InitSystem /\ [][NextSystem]_varsSystem

\* Each controller has a worker of its own; the rest is as for the modules.
\* A pod too many hinders nothing, and none has to go.
FairnessSystem ==
    /\ WF_varsSystem(PlatformSteps)
    /\ WF_varsSystem(P!DeliverPlatform /\ UNCHANGED vars)
    /\ WF_varsSystem(P!DeliverObject("TelemetryEnv") /\ UNCHANGED vars)
    /\ WF_varsSystem(P!TimerFires /\ UNCHANGED vars)
    /\ WF_varsSystem(Backplane(Reconcile))
    /\ WF_varsSystem(Backplane(TimerFires))
    /\ WF_varsSystem(Backplane(PodBecomesAvailable))
    /\ WF_varsSystem(DeliverService)
    /\ WF_varsSystem(DeliverBackplane)
    /\ WF_varsSystem(DeliverNATS)

FairSpecSystem == SpecSystem /\ FairnessSystem

-----------------------------------------------------------------------------
(* Correctness *)

\* The content the newest spec gives the backplane, and what it renders to.
Wanted == pspecs[pcr.gen].child["ZelosBackplane"]
WantedSpec == BackplaneSpecs[Wanted]

\* The newest spec has reached every object it calls for.
HandedToPods ==
    /\ Created
    /\ specs[cr.gen] = WantedSpec
    /\ \A p \in Rendered(WantedSpec) : obj[p].gen = cr.gen

\* What the user is promised by Ready: the substrate the spec asks for is there.
SubstrateUp ==
    IF Managed(WantedSpec) THEN NATSReady(obj["Workload"]) = "True"
    ELSE UnmanagedVerdict(WantedSpec).available

\* Neither controller will run again.
AtRest == P!Quiescent /\ (Created => Quiescent)

\* Once both controllers have come to rest, a platform that says Ready for its
\* newest generation has that generation in every object of the backplane,
\* and its substrate is up: the Ready of the old content, which the roll-up
\* reads without its observedGeneration, is always replaced, unless a status
\* write of the backplane's was lost.
ReadyEndToEnd ==
    AtRest /\ pcr.obs = pcr.gen /\ pcr.ready = "True" /\ "status" \notin faults
        => HandedToPods /\ SubstrateUp

\* The umbrella's assumption about the backplane controller and NATS is kept
\* by the real ones: hidden behind the custom resource, they only report.
UmbrellaRefined == P!Spec

\* The backplane controller in the composition keeps to ComponentController,
\* from the creation of its custom resource on: what the umbrella does to that
\* is an edit of its spec, and nothing else.
BackplaneRefined == [][Created => [Next]_vars]_varsSystem

\* If edits and faults end, the newest spec reaches the pods, and the
\* platform is Ready for ever exactly if the substrate is up.
ConvergesSystem ==
    <>[]("status" \notin faults \cup pfaults =>
            /\ pcr.obs = pcr.gen
            /\ Wanted > 0 => HandedToPods /\ cr.obs = cr.gen
            /\ pcr.ready = "True" <=> Wanted > 0 /\ SubstrateUp)

-----------------------------------------------------------------------------
(* The invariant of the composition *)

\* The umbrella's view of the custom resource and of the StatefulSet is the
\* backplane controller's: there is one object on the server behind both, and
\* the newest spec of the one is the content the umbrella has given it.
ViewsAgree ==
    LET b == pobj["ZelosBackplane"]  n == pobj["NATS"]  w == obj["Workload"]
    IN  /\ b.rv = cr.rv /\ b.ready = ReadyCondition(cr)
        /\ n.rv = w.rv /\ n.ready = NATSReady(w)
        /\ IF Created
           THEN b.content \in DOMAIN BackplaneSpecs /\ specs[cr.gen] = BackplaneSpecs[b.content]
           ELSE b.content = 0

\* The umbrella's passes work on specs the platform has had, and apply what
\* those call for.
UmbrellaPass ==
    /\ pspecs \in Seq(UmbrellaSpecs)
    /\ pobj \in [P!Names -> P!Owned] /\ pobjCache \in [P!Names -> P!Owned]
    /\ \A r \in {pcr, pcrCache, psnap} :
          /\ {"gen", "rv", "obs", "ready"} \subseteq DOMAIN r
          /\ r.gen \in 1..Len(pspecs) /\ r.rv \in Nat /\ r.obs \in Nat
    /\ prunning => ptodo \subseteq P!Materialized(P!SnapSpec)

\* The verdict on a spec without a workload is the spec's own.
UnmanagedVerdictHolds ==
    cr.obs > 0 /\ ~Managed(specs[cr.obs]) => cr.verdict = UnmanagedVerdict(specs[cr.obs])

\* Once it is created, the backplane is as ComponentController would have it,
\* and no pod fails.
BackplaneInStep ==
    IF Created
    THEN /\ Inductive /\ ReadyInvariant /\ NoLostWakeup
         /\ UnmanagedVerdictHolds
         /\ "pod" \notin faults
    ELSE NoBackplane

\* The umbrella's copy of the custom resource is never ahead of it.
ChildCopyLags ==
    LET b == pobj["ZelosBackplane"]  c == pobjCache["ZelosBackplane"]
    IN  c.rv <= b.rv /\ (c.rv = b.rv => c = b)

\* A pass of the umbrella that has passed the backplane has given it the
\* content it works on, and an idle one has nothing to do.
ChildApplied ==
    IF prunning
    THEN "ZelosBackplane" \in P!Materialized(P!SnapSpec) \ ptodo
            => P!Given("ZelosBackplane", P!SnapSpec)
    ELSE ptodo = {}

\* Once a generation of the platform is observed, no pass works on an earlier
\* one, and the backplane has its content.
ChildGiven ==
    pcr.obs = pcr.gen =>
        /\ pcrCache.gen = pcr.gen
        /\ prunning => psnap.gen = pcr.gen
        /\ Wanted > 0 => P!Given("ZelosBackplane", pspecs[pcr.gen])

\* A Ready of the platform that nothing will re-examine is about a backplane
\* that is Ready in the copy the roll-up read.
ReadyAsCopied ==
    /\ ~prunning /\ pwake = "none" /\ pcrCache.rv = pcr.rv
    /\ pcr.obs = pcr.gen /\ pcr.ready = "True"
    => Wanted > 0 /\ pobjCache["ZelosBackplane"].ready = "True"

\* The umbrella's side of ReadyEndToEnd.
UmbrellaInStep ==
    /\ P!CopiesLag /\ P!EventKept
    /\ ChildCopyLags /\ ChildApplied /\ ChildGiven /\ ReadyAsCopied

\* The invariant of the composition: the two controllers have one view of what
\* they share, and each is in step with its own copies, passes and status.
InductiveSystem == ViewsAgree /\ UmbrellaPass /\ BackplaneInStep /\ UmbrellaInStep

=============================================================================
