---------------------------- MODULE System_proofs ----------------------------
(***************************************************************************)
(* Proofs that the composition is a refinement in two ways, for every set  *)
(* of specs, bound and set of faults: the umbrella and the backplane       *)
(* controller together are the umbrella in its abstract environment, and   *)
(* the backplane controller in it keeps to ComponentController.            *)
(*                                                                         *)
(* What is proved of ComponentController is used here by name: System      *)
(* extends it.  The umbrella is an instance, whose theorems cannot be      *)
(* cited, so that what is needed of it is proved from its definitions.     *)
(***************************************************************************)
EXTENDS System, ComponentReady_proofs

\* The two controllers agree on what they share, and the backplane's is as
\* ComponentController would have it.
InStep == ViewsAgree /\ UmbrellaPass /\ BackplaneInStep

LEMMA NameFacts ==
    /\ "ZelosBackplane" \in P!Names /\ "NATS" \in P!Names /\ "TelemetryEnv" \in P!Names
    /\ "ZelosBackplane" \in ComponentKinds /\ "ZelosBackplane" \in P!ComponentKinds
    /\ \A s : "NATS" \notin P!Materialized(s)
    /\ \A s : P!Materialized(s) \subseteq P!Names
    /\ P!ComponentKinds = ComponentKinds /\ ComponentKinds \subseteq P!Names
    /\ "NATS" \notin ComponentKinds /\ "TelemetryEnv" \notin ComponentKinds
BY DEF P!Names, P!Telemetry, P!ComponentKinds, ComponentKinds, P!Materialized, P!Enabled

(***************************************************************************)
(* A backplane's StatefulSet has the size its spec gives it, and one       *)
(* template for all specs.                                                 *)
(***************************************************************************)
LEMMA BackplaneSizes == Steady
<1>1. SizesAgree
  BY BackplaneSpecsAssumption DEF SizesAgree
<1>2. RollsInPlace
  BY BackplaneSpecsAssumption DEF RollsInPlace, Template
<1>3. QED
  BY <1>1, <1>2 DEF Steady

(***************************************************************************)
(* What a report says is always one of the values a condition may have.    *)
(***************************************************************************)
LEMMA ReadyTypes ==
    /\ \A r : ReadyCondition(r) \in P!ReadyValues
    /\ \A r : r.obs # 0 => ReadyCondition(r) \in {"True", "False"}
    /\ \A w : NATSReady(w) \in P!ReadyValues
    /\ \A w : Exists(w) => NATSReady(w) \in {"True", "False"}
BY DEF ReadyCondition, NATSReady, P!ReadyValues, P!Flag

(***************************************************************************)
(* An object of the umbrella, from its fields.                             *)
(***************************************************************************)
LEMMA OwnedFields ==
    ASSUME NEW o \in P!Owned
    PROVE  /\ o.rv \in Nat /\ o.content \in Nat /\ o.ready \in P!ReadyValues
           /\ o = [rv |-> o.rv, content |-> o.content, ready |-> o.ready]
BY DEF P!Owned

\* Object o with another version and readiness.
Seen(o, v, r) == [[o EXCEPT !.rv = v] EXCEPT !.ready = r]

LEMMA OwnedByFields ==
    ASSUME NEW o \in P!Owned, NEW v \in Nat, NEW r \in P!ReadyValues
    PROVE  /\ Seen(o, v, r) = [rv |-> v, content |-> o.content, ready |-> r]
           /\ [rv |-> v, content |-> o.content, ready |-> r] \in P!Owned
<1> DEFINE q == [o EXCEPT !.rv = v]
<1>1. /\ o = [rv |-> o.rv, content |-> o.content, ready |-> o.ready]
      /\ o.content \in Nat
  BY OwnedFields
<1>2. [rv |-> v, content |-> o.content, ready |-> r] \in P!Owned
  BY <1>1 DEF P!Owned
<1>3. q = [rv |-> v, content |-> o.content, ready |-> o.ready]
  BY <1>1
<1> HIDE DEF q
<1>4. [q EXCEPT !.ready = r] = [rv |-> v, content |-> o.content, ready |-> r]
  BY <1>3
<1>5. QED
  BY <1>2, <1>4 DEF q, Seen

-----------------------------------------------------------------------------
(* What the backplane controller does *)

(***************************************************************************)
(* A published status carries the verdict of the pass's own spec.          *)
(***************************************************************************)
LEMMA StatusSteps ==
    ASSUME Inductive, [Next]_vars
    PROVE  \/ cr'.obs = cr.obs /\ cr'.verdict = cr.verdict
           \/ cr'.obs = snap.gen /\ cr'.verdict = Verdict
<1>1. CASE UNCHANGED cr
  BY <1>1
<1>2. CASE Finish
  <2>1. PublishStatus
    BY <1>2 DEF Finish
  <2>2. CASE cr' = [NewStatus EXCEPT !.rv = @ + 1]
    <3>1. NewStatus.obs = snap.gen /\ NewStatus.verdict = Verdict
      BY DEF NewStatus, Inductive, TypeOK, Resources
    <3>2. DOMAIN NewStatus = {"gen", "rv", "obs", "verdict"}
      BY DEF NewStatus, Inductive, TypeOK, Resources
    <3>3. QED
      BY <2>2, <3>1, <3>2
  <2>3. QED
    BY <1>1, <2>1, <2>2 DEF PublishStatus
<1>3. ASSUME NEW s \in Specs, EditSpec(s)
      PROVE  cr'.obs = cr.obs /\ cr'.verdict = cr.verdict
  BY <1>3 DEF EditSpec, Inductive, TypeOK, Resources
<1>4. QED
  BY <1>1, <1>2, <1>3 DEF Next, Reconcile, Manager, Cluster, Begin, Apply, ApplyRefused,
     ApplyFails, DeliverResource, DeliverObject, TimerFires, Restart, NodesCounted,
     PodBecomesAvailable, PodScaledDown, RollOut, PodFails, Autoscale, Annotate, Seal,
     vars

LEMMA UnmanagedVerdictStep ==
    ASSUME Inductive, Inductive', UnmanagedVerdictHolds, [Next]_vars
    PROVE  UnmanagedVerdictHolds'
<1> SUFFICES ASSUME cr'.obs > 0, ~Managed(specs'[cr'.obs])
             PROVE  cr'.verdict = UnmanagedVerdict(specs'[cr'.obs])
  BY DEF UnmanagedVerdictHolds
<1>1. /\ cr.obs \in Nat /\ cr.obs <= cr.gen /\ cr.gen = Len(specs)
      /\ snap.gen \in 1..Len(specs) /\ Len(specs) \in Nat
  BY Counters DEF Inductive, CopiesLag
<1>2. \A g \in 1..Len(specs) : specs'[g] = specs[g]
  BY SpecsKept
<1>3. CASE cr'.obs = cr.obs /\ cr'.verdict = cr.verdict
  BY <1>1, <1>2, <1>3 DEF UnmanagedVerdictHolds
<1>4. CASE cr'.obs = snap.gen /\ cr'.verdict = Verdict
  BY <1>1, <1>2, <1>4 DEF Verdict, SnapSpec
<1>5. QED
  BY <1>3, <1>4, StatusSteps

(***************************************************************************)
(* A step of ComponentController, no pod failing, keeps what it promises.  *)
(***************************************************************************)
LEMMA ControllerKeepsStep ==
    ASSUME Created, BackplaneInStep, [Next]_vars, Created', "pod" \notin faults'
    PROVE  BackplaneInStep'
<1>1. Inductive /\ ReadyInvariant /\ NoLostWakeup /\ UnmanagedVerdictHolds
  BY DEF BackplaneInStep
<1>2. Inductive'
  BY <1>1, InductiveStep
<1>3. ReadyInvariant'
  BY <1>1, ReadyStep, BackplaneSizes
<1>4. NoLostWakeup'
  BY <1>1, WakeupStep
<1>5. UnmanagedVerdictHolds'
  BY <1>1, <1>2, UnmanagedVerdictStep
<1>6. QED
  BY <1>2, <1>3, <1>4, <1>5 DEF BackplaneInStep

LEMMA BackplaneStutters ==
    ASSUME BackplaneInStep, UNCHANGED vars
    PROVE  BackplaneInStep'
<1>1. CASE Created
  <2>1. Created' /\ "pod" \notin faults'
    BY <1>1 DEF BackplaneInStep, Created, vars
  <2>2. QED
    BY <1>1, <2>1, ControllerKeepsStep
<1>2. CASE ~Created
  <2>1. NoBackplane' /\ ~Created'
    BY <1>2 DEF BackplaneInStep, NoBackplane, Created, vars
  <2>2. QED
    BY <2>1 DEF BackplaneInStep
<1>3. QED
  BY <1>1, <1>2

(***************************************************************************)
(* A custom resource that has just been created is as Init has it, except  *)
(* that its controller has yet to hear of it.                              *)
(***************************************************************************)
LEMMA CreationStep ==
    ASSUME NoBackplane, NEW s \in Specs, specs' = <<s>>,
           cr' = [gen |-> 1, rv |-> 1, obs |-> 0, verdict |-> NotFound],
           UNCHANGED <<crCache, obj, objCache, wake, running, todo, snap, faults>>
    PROVE  BackplaneInStep'
<1>1. /\ crCache' = [gen |-> 1, rv |-> 0, obs |-> 0, verdict |-> NotFound]
      /\ snap' = crCache' /\ ~running' /\ todo' = {} /\ wake' = "none" /\ faults' = {}
      /\ obj' = [p \in Parts |-> NoObject] /\ objCache' = obj'
  BY DEF NoBackplane, Unheard, Uncreated
<1>2. specs' \in Seq(Specs) /\ Len(specs') = 1 /\ specs'[1] = s
  OBVIOUS
<1>3. TypeOK'
  <2>1. NotFound \in Verdicts /\ NoObject \in Objects
    BY DEF NotFound, Verdicts, NoObject, Objects
  <2>2. cr' \in Resources /\ crCache' \in Resources /\ snap' \in Resources
    BY <1>1, <2>1 DEF Resources
  <2>3. running' \in BOOLEAN
    BY DEF NoBackplane
  <2>4. QED
    BY <1>1, <1>2, <2>1, <2>2, <2>3 DEF TypeOK
<1>4. Inductive'
  <2>1. CopiesLag'
    BY <1>1, <1>2 DEF CopiesLag
  <2>2. ObjectsLag' /\ PassProgress' /\ EventKept' /\ HonestStatus'
    BY <1>1 DEF ObjectsLag, PassProgress, EventKept, HonestStatus, NoObject
  <2>3. QED
    BY <1>3, <2>1, <2>2 DEF Inductive
<1>5. ReadyInvariant'
  <2>1. \A p \in Parts : obj'[p] = NoObject /\ objCache'[p] = NoObject
    BY <1>1
  <2>2. ObjectCopiesLag' /\ CopyIsTrue'
    BY <2>1, PartFacts DEF ObjectCopiesLag, CopyIsTrue, NoObject
  <2>3. SizedBySpec'
    BY <1>2, <2>1, PartFacts DEF SizedBySpec, NoObject, Exists
  <2>4. HonestCopies' /\ PollIsCurrent' /\ ReadyAtRest'
    BY <1>1 DEF HonestCopies, PollIsCurrent, ReadyAtRest
  <2>5. QED
    BY <2>2, <2>3, <2>4 DEF ReadyInvariant
<1>6. NoLostWakeup' /\ UnmanagedVerdictHolds'
  BY <1>1 DEF NoLostWakeup, Quiescent, UnmanagedVerdictHolds
<1>7. Created' /\ "pod" \notin faults'
  BY <1>1 DEF Created
<1>8. QED
  BY <1>4, <1>5, <1>6, <1>7 DEF BackplaneInStep

(***************************************************************************)
(* A step of the backplane controller, or of the pods of NATS, writes the  *)
(* status of the custom resource, an object, or neither.                   *)
(***************************************************************************)
BackplaneActions == Reconcile \/ TimerFires \/ PodBecomesAvailable \/ PodScaledDown

LEMMA BackplaneChanges ==
    ASSUME Inductive, SizedBySpec, BackplaneActions
    PROVE  /\ UNCHANGED specs /\ cr'.gen = cr.gen
           /\ UNCHANGED cr \/ UNCHANGED obj
           /\ \/ UNCHANGED cr
              \/ cr'.rv = cr.rv + 1 /\ cr'.obs > 0
           /\ \/ UNCHANGED obj["Workload"]
              \/ obj'["Workload"].rv = obj["Workload"].rv + 1
           /\ cr' \in Resources /\ obj'["Workload"] \in Objects
           /\ "pod" \notin faults => "pod" \notin faults'
<1>1. Next
  BY DEF BackplaneActions, Next, Manager, Cluster
<1>2. /\ obj'["Workload"] \in Objects
      /\ UNCHANGED obj["Workload"] \/ obj'["Workload"].rv = obj["Workload"].rv + 1
  BY <1>1, BackplaneSizes, ObjectsForward, PartFacts
<1>3. cr' \in Resources
  BY <1>1, InductiveStep DEF Inductive, TypeOK
<1>4. "pod" \notin faults => "pod" \notin faults'
  BY DEF BackplaneActions, Reconcile, Begin, Apply, ApplyRefused, ApplyFails, Finish,
         PublishStatus, Fault, TimerFires, PodBecomesAvailable, PodScaledDown
<1>5. CASE Finish
  <2>1. PublishStatus /\ UNCHANGED <<specs, obj>>
    BY <1>5 DEF Finish
  <2>2. /\ cr'.gen = cr.gen
        /\ cr'.rv = cr.rv \/ cr'.rv = cr.rv + 1
        /\ cr'.rv = cr.rv => cr' = cr
    BY <2>1, PublishFacts DEF Inductive
  <2>3. UNCHANGED cr \/ cr'.obs > 0
    <3>1. CASE cr' = [NewStatus EXCEPT !.rv = @ + 1]
      <4>1. NewStatus.obs = snap.gen /\ DOMAIN NewStatus = {"gen", "rv", "obs", "verdict"}
        BY DEF NewStatus, Inductive, TypeOK, Resources
      <4>2. cr'.obs = snap.gen
        BY <3>1, <4>1
      <4>3. QED
        BY <4>2, Counters
    <3>2. QED
      BY <2>1, <3>1 DEF PublishStatus
  <2>4. QED
    BY <1>2, <1>3, <1>4, <2>1, <2>2, <2>3
<1>6. CASE ~Finish
  <2>1. UNCHANGED <<specs, cr>>
    BY <1>6 DEF BackplaneActions, Reconcile, Begin, Apply, ApplyRefused, ApplyFails,
           TimerFires, PodBecomesAvailable, PodScaledDown
  <2>2. QED
    BY <1>2, <1>3, <1>4, <2>1
<1>7. QED
  BY <1>5, <1>6

-----------------------------------------------------------------------------
(* What the umbrella sees of it *)

(***************************************************************************)
(* The view of the backplane and of NATS after a step of the backplane     *)
(* controller: two objects change, in their version and readiness.         *)
(***************************************************************************)
LEMMA SeenFacts ==
    ASSUME UmbrellaPass, SeenByPlatform, cr'.rv \in Nat, obj'["Workload"].rv \in Nat
    PROVE  /\ pobj' \in [P!Names -> P!Owned]
           /\ \A n \in P!Names \ {"ZelosBackplane", "NATS"} : pobj'[n] = pobj[n]
           /\ pobj'["ZelosBackplane"] = [rv |-> cr'.rv,
                 content |-> pobj["ZelosBackplane"].content, ready |-> ReadyCondition(cr')]
           /\ pobj'["NATS"] = [rv |-> obj'["Workload"].rv,
                 content |-> pobj["NATS"].content, ready |-> NATSReady(obj'["Workload"])]
<1> DEFINE b == pobj["ZelosBackplane"]
           n == pobj["NATS"]
           b2 == Seen(b, cr'.rv, ReadyCondition(cr'))
           n2 == Seen(n, obj'["Workload"].rv, NATSReady(obj'["Workload"]))
<1>1. pobj \in [P!Names -> P!Owned] /\ b \in P!Owned /\ n \in P!Owned
  BY NameFacts DEF UmbrellaPass
<1>2. /\ b2 \in P!Owned
      /\ b2 = [rv |-> cr'.rv, content |-> b.content, ready |-> ReadyCondition(cr')]
  BY <1>1, ReadyTypes, OwnedByFields
<1>3. /\ n2 \in P!Owned
      /\ n2 = [rv |-> obj'["Workload"].rv, content |-> n.content,
               ready |-> NATSReady(obj'["Workload"])]
  BY <1>1, ReadyTypes, OwnedByFields
<1>4. pobj' = [[[[pobj EXCEPT !["ZelosBackplane"].rv = cr'.rv]
                     EXCEPT !["ZelosBackplane"].ready = ReadyCondition(cr')]
                     EXCEPT !["NATS"].rv = obj'["Workload"].rv]
                     EXCEPT !["NATS"].ready = NATSReady(obj'["Workload"])]
  BY DEF SeenByPlatform
<1> HIDE DEF b2, n2
<1>5. pobj' = [[pobj EXCEPT !["ZelosBackplane"] = b2] EXCEPT !["NATS"] = n2]
  BY <1>1, <1>4, NameFacts DEF b2, n2, Seen
<1>6. QED
  BY <1>1, <1>2, <1>3, <1>5, NameFacts

(***************************************************************************)
(* The versions of the two shared objects are numbers.                     *)
(***************************************************************************)
LEMMA SharedVersions ==
    ASSUME BackplaneInStep
    PROVE  /\ cr.rv \in Nat /\ cr.gen \in Nat /\ cr.obs \in Nat
           /\ obj["Workload"].rv \in Nat
           /\ Created => Inductive /\ SizedBySpec /\ "pod" \notin faults
           /\ ~Created => NoBackplane
<1>1. CASE Created
  BY <1>1, Counters, PartFacts DEF BackplaneInStep, ReadyInvariant, Objects
<1>2. CASE ~Created
  BY <1>2, PartFacts DEF BackplaneInStep, NoBackplane, Uncreated, NoObject
<1>3. QED
  BY <1>1, <1>2

(***************************************************************************)
(* A step of the backplane controller is a report of the backplane or of   *)
(* NATS; what has not changed is seen unchanged.                           *)
(***************************************************************************)
LEMMA BackplaneView ==
    ASSUME InStep, Backplane(BackplaneActions)
    PROVE  /\ [Next]_vars /\ Created' /\ "pod" \notin faults' /\ ViewsAgree'
           /\ UNCHANGED <<pspecs, pcr, pcrCache, pobjCache, pwake, prunning, ptodo, psnap,
                          pfaults>>
           /\ \/ UNCHANGED pobj
              \/ \E r \in {"True", "False"} :
                    P!ChildReports("ZelosBackplane", r) \/ P!NATSChanges(r)
<1> DEFINE w == obj["Workload"]
<1>1. /\ Created /\ BackplaneActions /\ SeenByPlatform
      /\ ViewsAgree /\ UmbrellaPass /\ BackplaneInStep
      /\ cr.rv < MaxVersions \/ UNCHANGED cr
      /\ obj["Workload"].rv < MaxVersions \/ UNCHANGED obj
      /\ UNCHANGED <<pspecs, pcr, pcrCache, pobjCache, pwake, prunning, ptodo, psnap,
                     pfaults>>
  BY DEF Backplane, InStep
<1>2. /\ UNCHANGED specs /\ cr'.gen = cr.gen
      /\ UNCHANGED cr \/ UNCHANGED obj
      /\ \/ UNCHANGED cr
         \/ cr'.rv = cr.rv + 1 /\ cr'.obs > 0
      /\ UNCHANGED w \/ obj'["Workload"].rv = w.rv + 1
      /\ cr' \in Resources /\ obj'["Workload"] \in Objects
      /\ "pod" \notin faults'
  BY <1>1, SharedVersions, BackplaneChanges
<1>3. /\ cr.rv \in Nat /\ cr.rv > 0 /\ cr'.rv \in Nat /\ cr'.rv > 0
      /\ w.rv \in Nat /\ obj'["Workload"].rv \in Nat /\ cr'.obs \in Nat
  BY <1>1, <1>2, SharedVersions DEF Created, Resources, Objects
<1>4. /\ pobj' \in [P!Names -> P!Owned]
      /\ \A n \in P!Names \ {"ZelosBackplane", "NATS"} : pobj'[n] = pobj[n]
      /\ pobj'["ZelosBackplane"] = [rv |-> cr'.rv,
            content |-> pobj["ZelosBackplane"].content, ready |-> ReadyCondition(cr')]
      /\ pobj'["NATS"] = [rv |-> obj'["Workload"].rv,
            content |-> pobj["NATS"].content, ready |-> NATSReady(obj'["Workload"])]
  BY <1>1, <1>3, SeenFacts
<1>5. pobj \in [P!Names -> P!Owned]
  BY <1>1 DEF UmbrellaPass
<1>6. Created' /\ [Next]_vars
  BY <1>1, <1>3 DEF Created, BackplaneActions, Next, Manager, Cluster
<1>7. ViewsAgree'
  BY <1>1, <1>2, <1>4, <1>6 DEF ViewsAgree
<1>8. /\ pobj["ZelosBackplane"] = [rv |-> cr.rv,
            content |-> pobj["ZelosBackplane"].content, ready |-> ReadyCondition(cr)]
      /\ pobj["NATS"] = [rv |-> w.rv, content |-> pobj["NATS"].content,
            ready |-> NATSReady(w)]
  <2>1. pobj["ZelosBackplane"] \in P!Owned /\ pobj["NATS"] \in P!Owned
    BY <1>5, NameFacts
  <2>2. QED
    BY <1>1, <2>1, OwnedFields DEF ViewsAgree
<1>9. CASE UNCHANGED cr /\ obj'["Workload"] = w
  <2>1. \A n \in P!Names : pobj'[n] = pobj[n]
    BY <1>4, <1>8, <1>9
  <2>2. pobj' = pobj
    BY <1>4, <1>5, <2>1
  <2>3. QED
    BY <1>1, <1>2, <1>6, <1>7, <2>2
<1>10. CASE cr' # cr
  <2>1. UNCHANGED obj /\ cr'.rv = cr.rv + 1 /\ cr.rv < MaxVersions /\ cr'.obs # 0
    BY <1>1, <1>2, <1>3, <1>10
  <2>2. PICK r \in {"True", "False"} : ReadyCondition(cr') = r
    BY <2>1, ReadyTypes
  <2>3. P!SetReady("ZelosBackplane", r)
    <3>1. [[pobj EXCEPT !["ZelosBackplane"].rv = @ + 1] EXCEPT !["ZelosBackplane"].ready = r]
              = [pobj EXCEPT !["ZelosBackplane"] = pobj'["ZelosBackplane"]]
      <4> DEFINE b == pobj["ZelosBackplane"]
      <4>1. b \in P!Owned
        BY <1>5, NameFacts
      <4>2. Seen(b, cr.rv + 1, r) = pobj'["ZelosBackplane"]
        <5>1. cr.rv + 1 \in Nat /\ r \in P!ReadyValues
          BY <1>3 DEF P!ReadyValues
        <5>2. Seen(b, cr.rv + 1, r) = [rv |-> cr.rv + 1, content |-> b.content, ready |-> r]
          BY <4>1, <5>1, OwnedByFields
        <5>3. QED
          BY <1>4, <2>1, <2>2, <5>2
      <4>3. b.rv = cr.rv
        BY <1>1 DEF ViewsAgree
      <4> HIDE DEF b
      <4>4. QED
        BY <1>5, <4>2, <4>3, NameFacts DEF b, Seen
    <3>2. pobj' = [pobj EXCEPT !["ZelosBackplane"] = pobj'["ZelosBackplane"]]
      BY <1>4, <1>5, <1>8, <2>1, NameFacts
    <3>3. QED
      BY <3>1, <3>2 DEF P!SetReady
  <2>4. pobj["ZelosBackplane"].rv \in 1..(MaxVersions - 1)
    BY <1>1, <1>3, <2>1, UmbrellaBoundsAssumption DEF ViewsAgree
  <2>5. P!ChildReports("ZelosBackplane", r)
    BY <1>1, <2>3, <2>4 DEF P!ChildReports, P!controllerVars
  <2>6. QED
    BY <1>1, <1>2, <1>6, <1>7, <2>5
<1>11. CASE obj'["Workload"] # w
  <2>1. /\ UNCHANGED cr /\ obj'["Workload"].rv = w.rv + 1 /\ w.rv < MaxVersions
        /\ Exists(obj'["Workload"])
    BY <1>1, <1>2, <1>3, <1>11 DEF Exists
  <2>2. PICK r \in {"True", "False"} : NATSReady(obj'["Workload"]) = r
    BY <2>1, ReadyTypes
  <2>3. P!SetReady("NATS", r)
    <3>1. [[pobj EXCEPT !["NATS"].rv = @ + 1] EXCEPT !["NATS"].ready = r]
              = [pobj EXCEPT !["NATS"] = pobj'["NATS"]]
      <4> DEFINE n == pobj["NATS"]
      <4>1. n \in P!Owned
        BY <1>5, NameFacts
      <4>2. Seen(n, w.rv + 1, r) = pobj'["NATS"]
        <5>1. w.rv + 1 \in Nat /\ r \in P!ReadyValues
          BY <1>3 DEF P!ReadyValues
        <5>2. Seen(n, w.rv + 1, r) = [rv |-> w.rv + 1, content |-> n.content, ready |-> r]
          BY <4>1, <5>1, OwnedByFields
        <5>3. QED
          BY <1>4, <2>1, <2>2, <5>2
      <4>3. n.rv = w.rv
        BY <1>1 DEF ViewsAgree
      <4> HIDE DEF n
      <4>4. QED
        BY <1>5, <4>2, <4>3, NameFacts DEF n, Seen
    <3>2. pobj' = [pobj EXCEPT !["NATS"] = pobj'["NATS"]]
      BY <1>4, <1>5, <1>8, <2>1, NameFacts
    <3>3. QED
      BY <3>1, <3>2 DEF P!SetReady
  <2>4. pobj["ZelosBackplane"].rv > 0 /\ pobj["NATS"].rv < MaxVersions
    BY <1>1, <1>3, <2>1 DEF ViewsAgree
  <2>5. P!NATSChanges(r)
    BY <1>1, <2>3, <2>4 DEF P!NATSChanges, P!controllerVars
  <2>6. QED
    BY <1>1, <1>2, <1>6, <1>7, <2>5
<1>12. QED
  BY <1>9, <1>10, <1>11

-----------------------------------------------------------------------------
(* What the umbrella does *)

(***************************************************************************)
(* The content of a child is handed down only where the spec enables it.   *)
(***************************************************************************)
LEMMA ChildContent ==
    ASSUME NEW s, "ZelosBackplane" \in P!Materialized(s),
           s.child["ZelosBackplane"] \in Nat
    PROVE  /\ P!ContentOf("ZelosBackplane", s) = s.child["ZelosBackplane"]
           /\ s.child["ZelosBackplane"] > 0
<1>1. "ZelosBackplane" \in P!Enabled(s)
  BY DEF P!Materialized
<1>2. P!ContentOf("ZelosBackplane", s) = s.child["ZelosBackplane"]
  BY NameFacts DEF P!ContentOf
<1>3. QED
  BY <1>1, <1>2 DEF P!Enabled

LEMMA ContentType ==
    ASSUME NEW s \in UmbrellaSpecs, NEW n \in P!Names
    PROVE  P!ContentOf(n, s) \in Nat
<1>1. CASE n \in ComponentKinds
  <2>1. P!ContentOf(n, s) = s.child[n]
    <3>1. n \in P!ComponentKinds /\ n \notin {"TelemetryEnv", "Collector"}
      BY <1>1, NameFacts DEF ComponentKinds
    <3>2. QED
      BY <3>1 DEF P!ContentOf
  <2>2. s.child[n] \in Nat
    BY <1>1, UmbrellaSpecsAssumption, BackplaneSpecsAssumption
  <2>3. QED
    BY <2>1, <2>2
<1>2. CASE n \notin ComponentKinds
  <2>1. CASE n = "TelemetryEnv"
    <3>1. P!ContentOf(n, s) \in {1, 2, 3}
      BY <1>2, <2>1, NameFacts, Zenon DEF P!ContentOf
    <3>2. QED
      BY <3>1
  <2>2. CASE n = "Collector"
    <3>1. P!ContentOf(n, s) = s.collectorImage
      BY <1>2, <2>2, NameFacts, Zenon DEF P!ContentOf
    <3>2. QED
      BY <3>1, UmbrellaSpecsAssumption
  <2>3. CASE n \notin {"TelemetryEnv", "Collector"}
    <3>1. P!ContentOf(n, s) = 1
      BY <1>2, <2>3, NameFacts, Zenon DEF P!ContentOf
    <3>2. QED
      BY <3>1
  <2>4. QED
    BY <2>1, <2>2, <2>3
<1>3. QED
  BY <1>1, <1>2

(***************************************************************************)
(* The pass of the umbrella works on a spec the platform has had.          *)
(***************************************************************************)
LEMMA PassSpec ==
    ASSUME UmbrellaPass
    PROVE  P!SnapSpec \in UmbrellaSpecs
BY DEF UmbrellaPass, P!SnapSpec

(***************************************************************************)
(* A pass of the umbrella changes at most one object, one that its spec    *)
(* calls for.                                                              *)
(***************************************************************************)
LEMMA UmbrellaMoves ==
    ASSUME UmbrellaPass, P!Reconcile
    PROVE  \/ UNCHANGED pobj
           \/ \E n \in P!Names : P!WriteObject(n) /\ n \in P!Materialized(P!SnapSpec)
<1>1. ASSUME NEW n \in P!Names, P!Apply(n) \/ P!ApplyRefused(n) \/ P!ApplyFails(n)
      PROVE  \/ UNCHANGED pobj
             \/ P!WriteObject(n) /\ n \in P!Materialized(P!SnapSpec)
  <2>1. prunning /\ n \in ptodo
    BY <1>1 DEF P!Apply, P!ApplyRefused, P!ApplyFails, P!Applying
  <2>2. UNCHANGED pobj \/ P!WriteObject(n)
    BY <1>1 DEF P!Apply, P!ApplyRefused, P!ApplyFails
  <2>3. QED
    BY <2>1, <2>2 DEF UmbrellaPass
<1>2. QED
  BY <1>1 DEF P!Reconcile, P!Begin, P!Finish

LEMMA UpdatedFields ==
    ASSUME NEW o \in P!Owned, NEW c \in Nat
    PROVE  /\ P!Updated(o, c).ready = o.ready
           /\ P!Updated(o, c).content = c
           /\ P!Updated(o, c).rv = IF o.rv > 0 /\ o.content = c THEN o.rv ELSE o.rv + 1
<1>1. CASE o.rv > 0 /\ o.content = c
  BY <1>1 DEF P!Updated
<1>2. CASE ~(o.rv > 0 /\ o.content = c)
  BY <1>2 DEF P!Updated, P!Owned
<1>3. QED
  BY <1>1, <1>2

LEMMA UmbrellaWrites ==
    ASSUME UmbrellaPass, NEW n \in P!Names, P!WriteObject(n)
    PROVE  /\ pobj' \in [P!Names -> P!Owned]
           /\ pobj'[n] = P!Updated(pobj[n], P!ContentOf(n, P!SnapSpec))
           /\ \A m \in P!Names : m # n => pobj'[m] = pobj[m]
<1> DEFINE c == P!ContentOf(n, P!SnapSpec)
           o == pobj[n]
<1>1. c \in Nat /\ o \in P!Owned /\ pobj \in [P!Names -> P!Owned]
  BY PassSpec, ContentType DEF UmbrellaPass
<1>2. pobj' = [pobj EXCEPT ![n] = P!Updated(o, c)]
  BY DEF P!WriteObject
<1> HIDE DEF c, o
<1>3. P!Updated(o, c) \in P!Owned
  <2>1. CASE o.rv > 0 /\ o.content = c
    BY <1>1, <2>1 DEF P!Updated
  <2>2. CASE ~(o.rv > 0 /\ o.content = c)
    <3>1. P!Updated(o, c) = [o EXCEPT !.rv = @ + 1, !.content = c]
      BY <2>2 DEF P!Updated
    <3>2. o = [rv |-> o.rv, content |-> o.content, ready |-> o.ready]
          /\ o.rv \in Nat /\ o.ready \in P!ReadyValues
      BY <1>1, OwnedFields
    <3>3. P!Updated(o, c) = [rv |-> o.rv + 1, content |-> c, ready |-> o.ready]
      BY <3>1, <3>2
    <3>4. QED
      BY <1>1, <3>2, <3>3 DEF P!Owned
  <2>3. QED
    BY <2>1, <2>2
<1>4. QED
  BY <1>1, <1>2, <1>3 DEF c, o

(***************************************************************************)
(* A pass of the umbrella leaves the custom resource alone, creates it, or *)
(* edits its spec.                                                         *)
(***************************************************************************)
LEMMA SameContent ==
    ASSUME InStep, PlatformSteps,
           pobj'["ZelosBackplane"] = pobj["ZelosBackplane"], pobj'["NATS"] = pobj["NATS"]
    PROVE  UNCHANGED vars /\ ViewsAgree'
<1>1. UNCHANGED vars
  BY DEF PlatformSteps, HandedDown, vars
<1>2. QED
  BY <1>1 DEF InStep, ViewsAgree, Created, vars

LEMMA NewContent ==
    ASSUME InStep, PlatformSteps, NEW c \in DOMAIN BackplaneSpecs,
           pobj'["ZelosBackplane"].content = c, pobj["ZelosBackplane"].content # c,
           pobj'["ZelosBackplane"].rv = pobj["ZelosBackplane"].rv + 1,
           pobj'["ZelosBackplane"].ready = pobj["ZelosBackplane"].ready,
           pobj'["NATS"] = pobj["NATS"]
    PROVE  /\ Created => [Next]_vars
           /\ BackplaneInStep' /\ ViewsAgree'
<1> DEFINE s == BackplaneSpecs[c]
           b == pobj["ZelosBackplane"]
<1>1. /\ ViewsAgree /\ BackplaneInStep
      /\ specs' = Append(specs, s)
      /\ cr' = [cr EXCEPT !.gen = @ + 1, !.rv = @ + 1]
      /\ cr.gen < MaxGen \/ UNCHANGED cr
      /\ UNCHANGED <<crCache, obj, objCache, wake, running, todo, snap, faults>>
  BY DEF InStep, PlatformSteps, HandedDown
<1>2. s \in Specs /\ s.kind = "ZelosBackplane"
  BY BackplaneSpecsAssumption
<1>3. UNCHANGED <<crCache, wake, running, todo, snap, objCache, obj, faults>>
  BY <1>1
<1>4. CASE Created
  <2>1. /\ Inductive /\ cr \in Resources /\ specs \in Seq(Specs) /\ "pod" \notin faults
        /\ cr.gen = Len(specs) /\ cr.gen \in Nat /\ cr.rv \in Nat /\ cr.rv > 0
        /\ cr.gen \in 1..Len(specs)
    BY <1>1, <1>4, SharedVersions, Counters DEF Inductive, TypeOK, CopiesLag, Created
  <2>2. /\ cr' = [gen |-> cr.gen + 1, rv |-> cr.rv + 1, obs |-> cr.obs,
                  verdict |-> cr.verdict]
    BY <1>1, <2>1 DEF Resources
  <2>3. EditSpec(s)
    <3>1. cr.gen < MaxGen
      BY <1>1, <2>1, <2>2
    <3>2. s # specs[cr.gen] /\ specs[cr.gen].kind = s.kind
      <4>1. specs[cr.gen] = BackplaneSpecs[b.content] /\ b.content \in DOMAIN BackplaneSpecs
        BY <1>1, <1>4 DEF ViewsAgree
      <4>2. b.content # c
        OBVIOUS
      <4>3. QED
        BY <1>2, <4>1, <4>2, BackplaneSpecsAssumption
    <3>3. QED
      BY <1>1, <3>1, <3>2 DEF EditSpec, controllerVars
  <2>4. [Next]_vars
    BY <1>2, <2>3 DEF Next, Cluster
  <2>5. Created' /\ "pod" \notin faults'
    BY <1>1, <2>1, <2>2 DEF Created
  <2>6. BackplaneInStep'
    BY <1>1, <1>4, <2>4, <2>5, ControllerKeepsStep
  <2>7. specs'[cr'.gen] = s
    BY <1>1, <2>1, <2>2
  <2>8. ViewsAgree'
    <3>1. ReadyCondition(cr') = ReadyCondition(cr)
      BY <2>2 DEF ReadyCondition
    <3>2. QED
      BY <1>1, <2>2, <2>5, <2>7, <3>1 DEF ViewsAgree
  <2>9. QED
    BY <2>4, <2>6, <2>8
<1>5. CASE ~Created
  <2>1. NoBackplane
    BY <1>1, <1>5, SharedVersions
  <2>2. specs' = <<s>>
    BY <1>1, <2>1 DEF NoBackplane
  <2>3. cr' = [gen |-> 1, rv |-> 1, obs |-> 0, verdict |-> NotFound]
    <3>1. cr = [gen |-> 0, rv |-> 0, obs |-> 0, verdict |-> NotFound]
      BY <2>1 DEF NoBackplane, Uncreated
    <3>2. cr' = [cr EXCEPT !.gen = @ + 1, !.rv = @ + 1]
      BY <1>1
    <3>3. cr' = [gen |-> cr.gen + 1, rv |-> cr.rv + 1, obs |-> cr.obs,
                 verdict |-> cr.verdict]
      BY <3>1, <3>2
    <3>4. QED
      BY <3>1, <3>3
  <2>4. BackplaneInStep'
    BY <1>2, <1>3, <2>1, <2>2, <2>3, CreationStep
  <2>5. Created' /\ specs'[cr'.gen] = s
    BY <2>2, <2>3 DEF Created
  <2>6. ViewsAgree'
    <3>1. ReadyCondition(cr') = ReadyCondition(cr)
      BY <2>1, <2>3 DEF ReadyCondition, NoBackplane, Uncreated
    <3>2. b.rv = 0 /\ b.ready = ReadyCondition(cr)
      BY <1>1, <2>1 DEF ViewsAgree, NoBackplane, Uncreated
    <3>3. QED
      BY <1>1, <2>3, <2>5, <3>1, <3>2 DEF ViewsAgree
  <2>7. QED
    BY <1>5, <2>4, <2>6
<1>6. QED
  BY <1>4, <1>5

LEMMA PlatformStepsKeep ==
    ASSUME InStep, PlatformSteps
    PROVE  /\ Created => [Next]_vars
           /\ BackplaneInStep' /\ ViewsAgree'
<1> DEFINE b == pobj["ZelosBackplane"]
<1>1. /\ P!Reconcile /\ UmbrellaPass /\ ViewsAgree /\ BackplaneInStep
  BY DEF PlatformSteps, InStep
<1>2. CASE pobj'["ZelosBackplane"] = b /\ pobj'["NATS"] = pobj["NATS"]
  <2>1. UNCHANGED vars /\ ViewsAgree'
    BY <1>2, SameContent
  <2>2. QED
    BY <1>1, <2>1, BackplaneStutters
<1>3. ASSUME NEW n \in P!Names, P!WriteObject(n), n \in P!Materialized(P!SnapSpec)
      PROVE  /\ Created => [Next]_vars
             /\ BackplaneInStep' /\ ViewsAgree'
  <2> DEFINE c == P!ContentOf(n, P!SnapSpec)
  <2>1. /\ pobj'[n] = P!Updated(pobj[n], c)
        /\ \A m \in P!Names : m # n => pobj'[m] = pobj[m]
    BY <1>1, <1>3, UmbrellaWrites
  <2>2. n # "NATS" /\ pobj'["NATS"] = pobj["NATS"]
    BY <1>3, <2>1, NameFacts
  <2>3. CASE n # "ZelosBackplane"
    BY <1>2, <2>1, <2>2, <2>3, NameFacts
  <2>4. CASE n = "ZelosBackplane"
    <3>1. P!SnapSpec \in UmbrellaSpecs /\ b \in P!Owned /\ b.content \in Nat /\ b.rv \in Nat
      BY <1>1, PassSpec, NameFacts, OwnedFields DEF UmbrellaPass
    <3>2. c \in DOMAIN BackplaneSpecs
      <4>1. P!SnapSpec.child["ZelosBackplane"] \in 0..Len(BackplaneSpecs)
        BY <3>1, UmbrellaSpecsAssumption
      <4>2. c = P!SnapSpec.child["ZelosBackplane"] /\ c > 0
        BY <1>3, <2>4, <4>1, ChildContent, BackplaneSpecsAssumption
      <4>3. QED
        BY <4>1, <4>2, BackplaneSpecsAssumption
    <3>3. c \in Nat
      BY <3>2, BackplaneSpecsAssumption
    <3> HIDE DEF c
    <3>4. /\ pobj'["ZelosBackplane"].ready = b.ready
          /\ pobj'["ZelosBackplane"].content = c
          /\ pobj'["ZelosBackplane"].rv =
                IF b.rv > 0 /\ b.content = c THEN b.rv ELSE b.rv + 1
      BY <2>1, <2>4, <3>1, <3>3, UpdatedFields
    <3>5. b.content = c => b.rv > 0
      <4>1. CASE Created
        BY <1>1, <4>1 DEF ViewsAgree, Created
      <4>2. CASE ~Created
        BY <1>1, <3>2, <4>2, BackplaneSpecsAssumption DEF ViewsAgree
      <4>3. QED
        BY <4>1, <4>2
    <3>6. CASE b.content = c
      <4>1. pobj'["ZelosBackplane"] = b
        BY <2>1, <2>4, <3>5, <3>6 DEF P!Updated, c
      <4>2. QED
        BY <1>2, <2>2, <4>1
    <3>7. CASE b.content # c
      BY <2>2, <3>2, <3>4, <3>7, NewContent
    <3>8. QED
      BY <3>6, <3>7
  <2>5. QED
    BY <2>3, <2>4
<1>4. QED
  BY <1>1, <1>2, <1>3, UmbrellaMoves

-----------------------------------------------------------------------------
(* The other steps *)

LEMMA PlatformEventsKeep ==
    ASSUME InStep, PlatformEvents
    PROVE  UNCHANGED vars /\ BackplaneInStep' /\ ViewsAgree'
<1>1. UNCHANGED vars
  BY DEF PlatformEvents
<1>2. UNCHANGED pobj
  BY DEF PlatformEvents, P!DeliverPlatform, P!DeliverObject, P!TimerFires, P!EditSpec
<1>3. BackplaneInStep'
  BY <1>1, BackplaneStutters DEF InStep
<1>4. ViewsAgree'
  BY <1>1, <1>2 DEF InStep, ViewsAgree, Created, vars
<1>5. QED
  BY <1>1, <1>3, <1>4

LEMMA DeliveriesKeep ==
    ASSUME InStep, DeliverService \/ DeliverBackplane \/ DeliverNATS
    PROVE  [Next]_vars /\ BackplaneInStep' /\ ViewsAgree'
<1>1. DeliverResource \/ DeliverObject("Service") \/ DeliverObject("Workload")
  BY DEF DeliverService, DeliverBackplane, DeliverNATS
<1>2. UNCHANGED <<pobj, specs, cr, obj, faults>>
  BY DEF DeliverService, DeliverBackplane, DeliverNATS, DeliverObject, DeliverResource,
         P!DeliverObject, controllerVars, pvars
<1>3. [Next]_vars
  BY <1>1 DEF Next, Manager, Parts
<1>4. Created
  <2> SUFFICES ASSUME ~Created PROVE FALSE
    OBVIOUS
  <2>1. NoBackplane
    BY SharedVersions DEF InStep
  <2>2. crCache.rv = 0 /\ cr.rv = 0 /\ objCache = obj /\ \A p \in Parts : obj[p].rv = 0
    BY <2>1 DEF NoBackplane, Unheard, Uncreated, NoObject
  <2>3. QED
    BY <1>1, <2>2 DEF DeliverResource, DeliverObject, Parts
<1>5. Created' /\ "pod" \notin faults'
  BY <1>2, <1>4 DEF InStep, BackplaneInStep, Created
<1>6. BackplaneInStep'
  BY <1>3, <1>4, <1>5, ControllerKeepsStep DEF InStep
<1>7. ViewsAgree'
  BY <1>2 DEF InStep, ViewsAgree, Created
<1>8. QED
  BY <1>3, <1>6, <1>7

LEMMA RestartKeeps ==
    ASSUME InStep, RestartManager
    PROVE  [Next]_vars /\ BackplaneInStep' /\ ViewsAgree'
<1>1. UNCHANGED pobj
  BY DEF RestartManager, P!Restart
<1>2. CASE Created
  <2>1. Restart
    BY <1>2 DEF RestartManager
  <2>2. [Next]_vars /\ UNCHANGED <<specs, cr, obj>> /\ faults' = faults \cup {"crash"}
    BY <2>1 DEF Restart, Fault, Next, Manager
  <2>3. Created' /\ "pod" \notin faults'
    BY <1>2, <2>2 DEF InStep, BackplaneInStep, Created
  <2>4. BackplaneInStep'
    BY <1>2, <2>2, <2>3, ControllerKeepsStep DEF InStep
  <2>5. ViewsAgree'
    BY <1>1, <2>2 DEF InStep, ViewsAgree, Created
  <2>6. QED
    BY <2>2, <2>4, <2>5
<1>3. CASE ~Created
  <2>1. UNCHANGED vars
    BY <1>3 DEF RestartManager
  <2>2. BackplaneInStep'
    BY <2>1, BackplaneStutters DEF InStep
  <2>3. ViewsAgree'
    BY <1>1, <2>1 DEF InStep, ViewsAgree, Created, vars
  <2>4. QED
    BY <2>1, <2>2, <2>3
<1>4. QED
  BY <1>2, <1>3

LEMMA BackplaneStepsKeep ==
    ASSUME InStep, BackplaneSteps
    PROVE  [Next]_vars /\ BackplaneInStep' /\ ViewsAgree'
<1>1. Backplane(BackplaneActions) /\ Created
  BY DEF BackplaneSteps, Backplane, BackplaneActions
<1>2. [Next]_vars /\ Created' /\ "pod" \notin faults' /\ ViewsAgree'
  BY <1>1, BackplaneView
<1>3. QED
  BY <1>1, <1>2, ControllerKeepsStep DEF InStep

(***************************************************************************)
(* Every step of the composition keeps the views and the backplane in step *)
(* and is, once there is a backplane, one of ComponentController or none.  *)
(***************************************************************************)
LEMMA BackplaneStep ==
    ASSUME InStep, [NextSystem]_varsSystem
    PROVE  /\ Created => [Next]_vars
           /\ BackplaneInStep' /\ ViewsAgree'
<1>1. CASE UNCHANGED varsSystem
  <2>1. UNCHANGED vars /\ UNCHANGED pobj
    BY <1>1 DEF varsSystem, pvars
  <2>2. BackplaneInStep'
    BY <2>1, BackplaneStutters DEF InStep
  <2>3. ViewsAgree'
    BY <2>1 DEF InStep, ViewsAgree, Created, vars
  <2>4. QED
    BY <2>1, <2>2, <2>3
<1>2. CASE NextSystem
  BY <1>2, PlatformStepsKeep, PlatformEventsKeep, DeliveriesKeep, RestartKeeps,
     BackplaneStepsKeep DEF NextSystem
<1>3. QED
  BY <1>1, <1>2

(***************************************************************************)
(* Every step of the composition is, seen by the umbrella, a step of       *)
(* PlatformController or none.                                             *)
(***************************************************************************)
LEMMA UmbrellaStep ==
    ASSUME InStep, [NextSystem]_varsSystem
    PROVE  [P!Next]_(P!vars)
<1>1. CASE PlatformSteps
  BY <1>1 DEF PlatformSteps, P!Next
<1>2. CASE PlatformEvents
  BY <1>2, NameFacts DEF PlatformEvents, P!Next, P!Manager, P!Cluster
<1>3. CASE BackplaneSteps
  <2>1. Backplane(BackplaneActions)
    BY <1>3 DEF BackplaneSteps, Backplane, BackplaneActions
  <2>2. \/ UNCHANGED P!vars
        \/ \E r \in {"True", "False"} :
              P!ChildReports("ZelosBackplane", r) \/ P!NATSChanges(r)
    BY <2>1, BackplaneView DEF P!vars
  <2>3. QED
    BY <2>2, NameFacts DEF P!Next, P!Cluster, P!Reports
<1>4. CASE DeliverService \/ UNCHANGED varsSystem
  BY <1>4 DEF DeliverService, pvars, varsSystem, P!vars
<1>5. CASE DeliverBackplane \/ DeliverNATS
  BY <1>5, NameFacts DEF DeliverBackplane, DeliverNATS, P!Next, P!Manager
<1>6. CASE RestartManager
  BY <1>6 DEF RestartManager, P!Next, P!Manager
<1>7. QED
  BY <1>1, <1>2, <1>3, <1>4, <1>5, <1>6 DEF NextSystem

-----------------------------------------------------------------------------
(* The umbrella's passes *)

(***************************************************************************)
(* The copies of the platform are taken from each other in turn.           *)
(***************************************************************************)
LEMMA UmbrellaCopies ==
    ASSUME [P!Next]_(P!vars)
    PROVE  psnap' \in {psnap, pcrCache} /\ pcrCache' \in {pcrCache, pcr}
BY DEF P!Next, P!Reconcile, P!Manager, P!Cluster, P!Reports, P!Begin, P!Apply,
       P!ApplyRefused, P!ApplyFails, P!Finish, P!DeliverPlatform, P!DeliverObject,
       P!TimerFires, P!Restart, P!EditSpec, P!ChildReports, P!NATSChanges,
       P!CollectorComesUp, P!CollectorFails, P!controllerVars, P!vars

(***************************************************************************)
(* The platform changes with a status that is written over the version its *)
(* pass has read, or with an edit.                                         *)
(***************************************************************************)
PlatformPublished ==
    /\ psnap.rv = pcr.rv
    /\ pcr'.gen = psnap.gen /\ pcr'.rv = psnap.rv + 1 /\ pcr'.obs = psnap.gen
    /\ pcr'.ready = P!Flag(P!RolledUp)
    /\ {"gen", "rv", "obs", "ready"} \subseteq DOMAIN pcr'

PlatformEdited ==
    /\ pcr'.gen = pcr.gen + 1 /\ pcr'.rv = pcr.rv + 1
    /\ pcr'.obs = pcr.obs /\ pcr'.ready = pcr.ready
    /\ {"gen", "rv", "obs", "ready"} \subseteq DOMAIN pcr'

LEMMA UmbrellaPublishes ==
    ASSUME P!PublishStatus
    PROVE  \/ UNCHANGED pcr /\ psnap.rv # pcr.rv
           \/ UNCHANGED pcr /\ "status" \in pfaults'
           \/ UNCHANGED pcr /\ pcr = P!NewStatus
           \/ PlatformPublished
<1>1. CASE /\ psnap.rv = pcr.rv
           /\ pcr' = [P!NewStatus EXCEPT !.rv = @ + 1]
  <2>1. pcr' = [gen |-> psnap.gen, rv |-> psnap.rv + 1, obs |-> psnap.gen,
                ready |-> P!Flag(P!RolledUp), phase |-> P!Phase,
                children |-> P!NewStatus.children, available |-> P!NewStatus.available]
    BY <1>1 DEF P!NewStatus
  <2>2. QED
    BY <1>1, <2>1 DEF PlatformPublished
<1>2. QED
  BY <1>1 DEF P!PublishStatus, P!Fault

LEMMA UmbrellaEdits ==
    ASSUME UmbrellaPass, NEW s \in UmbrellaSpecs, P!EditSpec(s)
    PROVE  /\ PlatformEdited /\ pspecs' = Append(pspecs, s)
           /\ UNCHANGED <<pcrCache, pobj, pobjCache, pwake, prunning, ptodo, psnap>>
<1>1. {"gen", "rv", "obs", "ready"} \subseteq DOMAIN pcr
  BY DEF UmbrellaPass
<1> DEFINE g == [pcr EXCEPT !.gen = @ + 1]
<1>2. /\ {"gen", "rv", "obs", "ready"} \subseteq DOMAIN g
      /\ g.gen = pcr.gen + 1 /\ g.rv = pcr.rv /\ g.obs = pcr.obs /\ g.ready = pcr.ready
  BY <1>1
<1>3. pcr' = [g EXCEPT !.rv = @ + 1]
  BY DEF P!EditSpec
<1> HIDE DEF g
<1>4. PlatformEdited
  BY <1>2, <1>3 DEF PlatformEdited
<1>5. QED
  BY <1>4 DEF P!EditSpec, P!controllerVars

LEMMA PlatformChanges ==
    ASSUME UmbrellaPass, [P!Next]_(P!vars)
    PROVE  \/ UNCHANGED <<pspecs, pcr>>
           \/ UNCHANGED pspecs /\ P!Finish /\ PlatformPublished
           \/ \E s \in UmbrellaSpecs : P!EditSpec(s)
<1>1. CASE P!Finish
  BY <1>1, UmbrellaPublishes DEF P!Finish
<1>2. QED
  BY <1>1 DEF P!Next, P!Reconcile, P!Manager, P!Cluster, P!Reports, P!Begin, P!Apply,
       P!ApplyRefused, P!ApplyFails, P!DeliverPlatform, P!DeliverObject,
       P!TimerFires, P!Restart, P!ChildReports, P!NATSChanges,
       P!CollectorComesUp, P!CollectorFails, P!vars

LEMMA PlatformSpecsKept ==
    ASSUME UmbrellaPass, [P!Next]_(P!vars)
    PROVE  /\ pspecs' \in Seq(UmbrellaSpecs)
           /\ \A g \in 1..Len(pspecs) : g \in 1..Len(pspecs') /\ pspecs'[g] = pspecs[g]
<1>1. pspecs \in Seq(UmbrellaSpecs) /\ Len(pspecs) \in Nat
  BY DEF UmbrellaPass
<1>2. QED
  BY <1>1, PlatformChanges, UmbrellaEdits

(***************************************************************************)
(* The umbrella's objects change one at a time, with a write of the pass   *)
(* or a report.                                                            *)
(***************************************************************************)
LEMMA ReportFields ==
    ASSUME UmbrellaPass, NEW n \in P!Names, NEW r \in P!ReadyValues, P!SetReady(n, r)
    PROVE  /\ pobj' \in [P!Names -> P!Owned]
           /\ pobj'[n] = [rv |-> pobj[n].rv + 1, content |-> pobj[n].content, ready |-> r]
           /\ \A m \in P!Names : m # n => pobj'[m] = pobj[m]
<1> DEFINE o == pobj[n]
           q == Seen(o, o.rv + 1, r)
<1>1. o \in P!Owned /\ o.rv \in Nat /\ pobj \in [P!Names -> P!Owned]
  BY OwnedFields DEF UmbrellaPass
<1>2. q = [rv |-> o.rv + 1, content |-> o.content, ready |-> r] /\ q \in P!Owned
  BY <1>1, OwnedByFields
<1>3. pobj' = [[pobj EXCEPT ![n].rv = @ + 1] EXCEPT ![n].ready = r]
  BY DEF P!SetReady
<1> HIDE DEF q
<1>4. pobj' = [pobj EXCEPT ![n] = q]
  BY <1>1, <1>3 DEF q, Seen
<1>5. QED
  BY <1>1, <1>2, <1>4

LEMMA UmbrellaReports ==
    ASSUME P!Reports
    PROVE  /\ \E n \in P!Names, r \in P!ReadyValues : P!SetReady(n, r)
           /\ UNCHANGED <<pspecs, pcr, pcrCache, pobjCache, pwake, prunning, ptodo, psnap>>
<1>1. ComponentKinds \subseteq P!Names /\ "NATS" \in P!Names /\ "Collector" \in P!Names
  BY NameFacts DEF P!Names, P!Telemetry
<1>2. "True" \in P!ReadyValues /\ "False" \in P!ReadyValues
  BY DEF P!ReadyValues
<1>3. CASE \E k \in ComponentKinds, r \in {"True", "False"} : P!ChildReports(k, r)
  BY <1>1, <1>2, <1>3 DEF P!ChildReports, P!controllerVars
<1>4. CASE \E r \in {"True", "False"} : P!NATSChanges(r)
  BY <1>1, <1>2, <1>4 DEF P!NATSChanges, P!controllerVars
<1>5. CASE P!CollectorComesUp \/ P!CollectorFails
  BY <1>1, <1>2, <1>5 DEF P!CollectorComesUp, P!CollectorFails, P!controllerVars
<1>6. QED
  BY <1>3, <1>4, <1>5, NameFacts DEF P!Reports

LEMMA UmbrellaObjects ==
    ASSUME UmbrellaPass, [P!Next]_(P!vars)
    PROVE  /\ pobj' \in [P!Names -> P!Owned]
           /\ pobjCache' \in [P!Names -> P!Owned]
<1>1. pobj \in [P!Names -> P!Owned] /\ pobjCache \in [P!Names -> P!Owned]
  BY DEF UmbrellaPass
<1>2. CASE P!Reconcile
  <2>1. pobj' \in [P!Names -> P!Owned]
    BY <1>1, <1>2, UmbrellaMoves, UmbrellaWrites
  <2>2. UNCHANGED pobjCache
    BY <1>2 DEF P!Reconcile, P!Begin, P!Apply, P!ApplyRefused, P!ApplyFails, P!Finish
  <2>3. QED
    BY <1>1, <2>1, <2>2
<1>3. CASE P!Manager
  <2>1. UNCHANGED pobj
    BY <1>3 DEF P!Manager, P!DeliverPlatform, P!DeliverObject, P!TimerFires, P!Restart
  <2>2. pobjCache' \in [P!Names -> P!Owned]
    BY <1>1, <1>3
       DEF P!Manager, P!DeliverPlatform, P!DeliverObject, P!TimerFires, P!Restart
  <2>3. QED
    BY <1>1, <2>1, <2>2
<1>4. CASE P!Reports
  <2>1. pobj' \in [P!Names -> P!Owned] /\ UNCHANGED pobjCache
    BY <1>4, UmbrellaReports, ReportFields
  <2>2. QED
    BY <1>1, <2>1
<1>5. CASE \/ \E s \in UmbrellaSpecs : P!EditSpec(s)
           \/ UNCHANGED P!vars
  BY <1>1, <1>5 DEF P!EditSpec, P!vars
<1>6. QED
  BY <1>2, <1>3, <1>4, <1>5 DEF P!Next, P!Cluster

LEMMA UmbrellaPassStep ==
    ASSUME UmbrellaPass, [P!Next]_(P!vars)
    PROVE  UmbrellaPass'
<1> DEFINE Typed(r) ==
        /\ {"gen", "rv", "obs", "ready"} \subseteq DOMAIN r
        /\ r.gen \in 1..Len(pspecs') /\ r.rv \in Nat /\ r.obs \in Nat
<1>1. /\ pspecs' \in Seq(UmbrellaSpecs)
      /\ \A g \in 1..Len(pspecs) : g \in 1..Len(pspecs') /\ pspecs'[g] = pspecs[g]
  BY PlatformSpecsKept
<1>2. Typed(pcr) /\ Typed(pcrCache) /\ Typed(psnap)
  BY <1>1 DEF UmbrellaPass
<1>3. Typed(pcr')
  <2>1. CASE UNCHANGED pcr
    BY <1>2, <2>1
  <2>2. CASE PlatformPublished
    BY <1>2, <2>2 DEF PlatformPublished
  <2>3. ASSUME NEW s \in UmbrellaSpecs, P!EditSpec(s)
        PROVE  Typed(pcr')
    <3>1. /\ PlatformEdited /\ pspecs' = Append(pspecs, s)
          /\ pspecs \in Seq(UmbrellaSpecs) /\ pcr.gen \in 1..Len(pspecs)
      BY <2>3, UmbrellaEdits DEF UmbrellaPass
    <3>2. pcr'.gen \in 1..Len(pspecs')
      BY <3>1 DEF PlatformEdited
    <3>3. QED
      BY <1>2, <3>1, <3>2 DEF PlatformEdited
  <2>4. QED
    BY <2>1, <2>2, <2>3, PlatformChanges
<1> HIDE DEF Typed
<1>4. Typed(pcrCache') /\ Typed(psnap')
  BY <1>2, UmbrellaCopies
<1>5. prunning' => ptodo' \subseteq P!Materialized(P!SnapSpec')
  <2>1. CASE P!Begin
    BY <2>1 DEF P!Begin, P!SnapSpec
  <2>2. CASE ~prunning' \/ (prunning /\ psnap' = psnap /\ ptodo' \subseteq ptodo)
    <3>1. P!SnapSpec' = P!SnapSpec \/ psnap' # psnap
      BY <1>1 DEF UmbrellaPass, P!SnapSpec
    <3>2. QED
      BY <2>2, <3>1 DEF UmbrellaPass
  <2>3. QED
    BY <2>1, <2>2 DEF P!Next, P!Reconcile, P!Manager, P!Cluster, P!Reports, P!Apply,
       P!ApplyRefused, P!ApplyFails, P!Fail, P!Finish, P!DeliverPlatform, P!DeliverObject,
       P!TimerFires, P!Restart, P!EditSpec, P!ChildReports, P!NATSChanges,
       P!CollectorComesUp, P!CollectorFails, P!controllerVars, P!vars, P!Applying
<1>6. QED
  BY <1>1, <1>3, <1>4, <1>5, UmbrellaObjects DEF UmbrellaPass, Typed

-----------------------------------------------------------------------------
(* The theorems *)

LEMMA InitInStep == InitSystem => InStep
<1> SUFFICES ASSUME InitSystem PROVE InStep
  OBVIOUS
<1>1. /\ pobj = [n \in P!Names |-> P!Missing] /\ pobjCache = pobj /\ prunning = FALSE
      /\ pcr.gen = 1 /\ pcr.rv = 1 /\ pcr.obs = 0 /\ pcrCache = pcr /\ psnap = pcr
      /\ {"gen", "rv", "obs", "ready"} \subseteq DOMAIN pcr
      /\ \E s \in UmbrellaSpecs : pspecs = <<s>>
  BY DEF InitSystem, P!Init
<1>2. P!Missing \in P!Owned
  BY DEF P!Missing, P!Owned, P!ReadyValues
<1>3. NoBackplane /\ ~Created
  BY DEF InitSystem, NoBackplane, Uncreated, Created
<1>4. ViewsAgree
  BY <1>1, <1>3, NameFacts, PartFacts
     DEF NoBackplane, ViewsAgree, Uncreated, NoObject, P!Missing, ReadyCondition, NATSReady,
         Exists
<1>5. UmbrellaPass
  BY <1>1, <1>2 DEF UmbrellaPass
<1>6. QED
  BY <1>3, <1>4, <1>5 DEF InStep, BackplaneInStep

LEMMA InStepStep ==
    ASSUME InStep, [NextSystem]_varsSystem
    PROVE  InStep'
<1>1. BackplaneInStep' /\ ViewsAgree'
  BY BackplaneStep
<1>2. UmbrellaPass'
  BY UmbrellaStep, UmbrellaPassStep DEF InStep
<1>3. QED
  BY <1>1, <1>2 DEF InStep

(***************************************************************************)
(* The two views of the custom resource and of NATS agree in every         *)
(* reachable state, and everything that is proved of ComponentController   *)
(* holds of the backplane from its creation on.                            *)
(***************************************************************************)
THEOREM StaysInStep == SpecSystem => []InStep
BY InitInStep, InStepStep, PTL DEF SpecSystem

(***************************************************************************)
(* The composition implements the umbrella in its abstract environment:    *)
(* the real backplane controller, NATS included, does nothing that         *)
(* PlatformController does not expect of a component, so that what is      *)
(* proved of the umbrella there holds of it here.                          *)
(***************************************************************************)
THEOREM UmbrellaIsRefined == SpecSystem => UmbrellaRefined
<1>1. InitSystem => P!Init
  BY DEF InitSystem
<1>2. InStep /\ [NextSystem]_varsSystem => [P!Next]_(P!vars)
  BY UmbrellaStep
<1>3. QED
  BY <1>1, <1>2, StaysInStep, PTL DEF SpecSystem, UmbrellaRefined, P!Spec

(***************************************************************************)
(* The composition implements the backplane controller as well: created,   *)
(* written, woken and restarted by what the umbrella and the manager do,   *)
(* the backplane takes no step that ComponentController does not, and a    *)
(* Create or Update of the umbrella is to it an edit of its spec.          *)
(***************************************************************************)
THEOREM BackplaneIsRefined == SpecSystem => BackplaneRefined
<1>1. InStep /\ [NextSystem]_varsSystem => [Created => [Next]_vars]_varsSystem
  BY BackplaneStep
<1>2. QED
  BY <1>1, StaysInStep, PTL DEF SpecSystem, BackplaneRefined

=============================================================================
