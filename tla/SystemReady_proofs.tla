--------------------------- MODULE SystemReady_proofs ---------------------------
(***************************************************************************)
(* Proof that Ready is true from end to end: once the umbrella and the     *)
(* backplane controller have come to rest, a platform that says Ready has  *)
(* its newest content in every object of the backplane, and its substrate  *)
(* is up.                                                                  *)
(***************************************************************************)
EXTENDS System_proofs

\* The backplane's custom resource on the server, and the umbrella's copy.
Child == pobj["ZelosBackplane"]
ChildCopy == pobjCache["ZelosBackplane"]

LEMMA ChildTypes ==
    ASSUME UmbrellaPass
    PROVE  /\ Child \in P!Owned /\ Child.rv \in Nat
           /\ ChildCopy \in P!Owned /\ ChildCopy.rv \in Nat
BY NameFacts, OwnedFields DEF UmbrellaPass, Child, ChildCopy

(***************************************************************************)
(* Generations and versions of the platform are numbers.                   *)
(***************************************************************************)
LEMMA PlatformCounters ==
    ASSUME UmbrellaPass
    PROVE  /\ pcr.gen \in Nat /\ pcrCache.gen \in Nat /\ psnap.gen \in Nat
           /\ pcr.rv \in Nat /\ pcrCache.rv \in Nat /\ psnap.rv \in Nat
           /\ pcr.obs \in Nat /\ Len(pspecs) \in Nat
           /\ pcr.gen \in 1..Len(pspecs) /\ psnap.gen \in 1..Len(pspecs)
           /\ pcrCache.gen \in 1..Len(pspecs)
BY DEF UmbrellaPass

-----------------------------------------------------------------------------
(* The copies of the platform *)

LEMMA CopiesLagStep ==
    ASSUME UmbrellaPass, P!CopiesLag, [P!Next]_(P!vars)
    PROVE  P!CopiesLag'
<1> USE PlatformCounters DEF P!CopiesLag
<1>1. psnap' \in {psnap, pcrCache} /\ pcrCache' \in {pcrCache, pcr}
  BY UmbrellaCopies
<1>2. CASE UNCHANGED <<pspecs, pcr>>
  <2>1. \/ psnap' = psnap /\ pcrCache' = pcrCache
        \/ psnap' = psnap /\ pcrCache' = pcr
        \/ psnap' = pcrCache /\ pcrCache' = pcrCache
        \/ psnap' = pcrCache /\ pcrCache' = pcr
    BY <1>1
  <2>2. psnap.rv = pcr.rv => psnap = pcr
    OBVIOUS
  <2>3. QED
    BY <1>2, <2>1, <2>2
<1>3. CASE UNCHANGED pspecs /\ P!Finish /\ PlatformPublished
  <2>1. psnap = pcr /\ pcrCache = pcr
    BY <1>3 DEF PlatformPublished
  <2>2. psnap' = psnap /\ pcrCache' = pcrCache
    BY <1>3 DEF P!Finish
  <2>3. pcr'.gen = pcr.gen /\ pcr'.rv = pcr.rv + 1 /\ pcr'.obs = pcr.gen
    BY <1>3, <2>1 DEF PlatformPublished
  <2>4. QED
    BY <1>3, <2>1, <2>2, <2>3
<1>4. ASSUME NEW s \in UmbrellaSpecs, P!EditSpec(s)
      PROVE  P!CopiesLag'
  <2>1. /\ PlatformEdited /\ pspecs' = Append(pspecs, s)
        /\ UNCHANGED <<pcrCache, psnap>>
    BY <1>4, UmbrellaEdits
  <2>2. Len(pspecs') = Len(pspecs) + 1
    BY <2>1 DEF UmbrellaPass
  <2>3. /\ pcr'.gen = pcr.gen + 1 /\ pcr'.rv = pcr.rv + 1 /\ pcr'.obs = pcr.obs
    BY <2>1 DEF PlatformEdited
  <2>4. QED
    BY <2>1, <2>2, <2>3
<1>5. QED
  BY <1>2, <1>3, <1>4, PlatformChanges

(***************************************************************************)
(* A version that arrives during a pass stays on the queue.                *)
(***************************************************************************)
LEMMA EventKeptStep ==
    ASSUME UmbrellaPass, P!EventKept, [P!Next]_(P!vars)
    PROVE  P!EventKept'
<1> SUFFICES ASSUME prunning', psnap'.rv < pcrCache'.rv
             PROVE  pwake' = "due"
  BY DEF P!EventKept
<1>1. CASE P!Begin
  BY <1>1, PlatformCounters DEF P!Begin
<1>2. CASE P!DeliverPlatform \/ P!TimerFires
  BY <1>2 DEF P!DeliverPlatform, P!TimerFires
<1>3. CASE UNCHANGED <<prunning, psnap, pcrCache>> /\ (pwake' = pwake \/ pwake' = "due")
  BY <1>3 DEF P!EventKept
<1>4. QED
  BY <1>1, <1>2, <1>3 DEF P!Next, P!Reconcile, P!Manager, P!Cluster, P!Reports, P!Apply,
       P!ApplyRefused, P!ApplyFails, P!Fail, P!Finish, P!DeliverObject,
       P!Restart, P!EditSpec, P!ChildReports, P!NATSChanges,
       P!CollectorComesUp, P!CollectorFails, P!controllerVars, P!vars

-----------------------------------------------------------------------------
(* The backplane's custom resource *)

(***************************************************************************)
(* A pass writes the custom resource: it exists and has the content of the *)
(* pass's spec.                                                            *)
(***************************************************************************)
ChildWritten ==
    /\ prunning
    /\ UNCHANGED <<pspecs, pcr, pcrCache, psnap>>
    /\ Child'.rv > 0 /\ Child'.content = P!ContentOf("ZelosBackplane", P!SnapSpec)
    /\ Child' = Child \/ Child'.rv = Child.rv + 1

LEMMA ChildWrites ==
    ASSUME UmbrellaPass, prunning, UNCHANGED <<pspecs, pcr, pcrCache, psnap>>,
           P!WriteObject("ZelosBackplane")
    PROVE  ChildWritten
<1> DEFINE c == P!ContentOf("ZelosBackplane", P!SnapSpec)
<1>1. c \in Nat /\ Child \in P!Owned /\ Child.rv \in Nat
  BY PassSpec, ContentType, NameFacts, ChildTypes
<1>2. Child' = P!Updated(Child, c)
  BY UmbrellaWrites, NameFacts DEF Child
<1> HIDE DEF c
<1>3. /\ Child'.content = c
      /\ Child'.rv = IF Child.rv > 0 /\ Child.content = c THEN Child.rv ELSE Child.rv + 1
  BY <1>1, <1>2, UpdatedFields
<1>4. Child.rv > 0 /\ Child.content = c => Child' = Child
  BY <1>2 DEF P!Updated
<1>5. QED
  BY <1>1, <1>3, <1>4 DEF ChildWritten, c

LEMMA ChildSteps ==
    ASSUME UmbrellaPass, [P!Next]_(P!vars)
    PROVE  /\ \/ Child' = Child
              \/ Child'.rv = Child.rv + 1 /\ Child'.content = Child.content
              \/ ChildWritten
           /\ \/ ChildCopy' = ChildCopy
              \/ ChildCopy' = Child /\ UNCHANGED pobj
<1>1. /\ pobj \in [P!Names -> P!Owned] /\ pobjCache \in [P!Names -> P!Owned]
      /\ "ZelosBackplane" \in P!Names
  BY NameFacts DEF UmbrellaPass
<1>2. ASSUME NEW n \in P!Names, P!WriteObject(n), prunning,
             UNCHANGED <<pspecs, pcr, pcrCache, psnap>>
      PROVE  Child' = Child \/ ChildWritten
  <2>1. CASE n = "ZelosBackplane"
    BY <1>2, <2>1, ChildWrites
  <2>2. CASE n # "ZelosBackplane"
    BY <1>1, <1>2, <2>2, UmbrellaWrites DEF Child
  <2>3. QED
    BY <2>1, <2>2
<1>3. CASE P!Reports
  <2>1. PICK n \in P!Names, r \in P!ReadyValues : P!SetReady(n, r)
    BY <1>3, UmbrellaReports
  <2>2. /\ ChildCopy' = ChildCopy
        /\ pobj'[n] = [rv |-> pobj[n].rv + 1, content |-> pobj[n].content, ready |-> r]
        /\ \A m \in P!Names : m # n => pobj'[m] = pobj[m]
    BY <1>3, <2>1, ReportFields, UmbrellaReports DEF ChildCopy
  <2>3. CASE n = "ZelosBackplane"
    BY <2>2, <2>3 DEF Child
  <2>4. CASE n # "ZelosBackplane"
    BY <1>1, <2>2, <2>4 DEF Child
  <2>5. QED
    BY <2>3, <2>4
<1>4. CASE P!Manager
  BY <1>1, <1>4 DEF P!Manager, P!DeliverPlatform, P!DeliverObject, P!TimerFires, P!Restart,
     Child, ChildCopy
<1>5. CASE P!Reconcile
  <2>1. UNCHANGED pobjCache
    BY <1>5 DEF P!Reconcile, P!Begin, P!Apply, P!ApplyRefused, P!ApplyFails, P!Finish
  <2>2. Child' = Child \/ ChildWritten
    BY <1>2, <1>5 DEF P!Reconcile, P!Begin, P!Apply, P!ApplyRefused, P!ApplyFails,
       P!Applying, P!Finish, Child
  <2>3. QED
    BY <2>1, <2>2 DEF ChildCopy
<1>6. CASE (\E s \in UmbrellaSpecs : P!EditSpec(s)) \/ UNCHANGED P!vars
  BY <1>6 DEF P!EditSpec, P!vars, Child, ChildCopy
<1>7. QED
  BY <1>3, <1>4, <1>5, <1>6 DEF P!Next, P!Cluster

LEMMA ChildCopyLagsStep ==
    ASSUME UmbrellaPass, ChildCopyLags, [P!Next]_(P!vars)
    PROVE  ChildCopyLags'
<1>1. ChildCopy.rv <= Child.rv /\ (ChildCopy.rv = Child.rv => ChildCopy = Child)
  BY DEF ChildCopyLags, Child, ChildCopy
<1>2. Child' = Child \/ Child'.rv = Child.rv + 1
  BY ChildSteps DEF ChildWritten
<1>3. ChildCopy' = ChildCopy \/ (ChildCopy' = Child /\ Child' = Child)
  BY ChildSteps DEF Child
<1>4. ChildCopy'.rv <= Child'.rv /\ (ChildCopy'.rv = Child'.rv => ChildCopy' = Child')
  BY <1>1, <1>2, <1>3, ChildTypes
<1>5. QED
  BY <1>4 DEF ChildCopyLags, Child, ChildCopy

(***************************************************************************)
(* Once given to the backplane, a content stays: reports leave it alone,   *)
(* and a pass writes the content of its own spec.                          *)
(***************************************************************************)
LEMMA GivenStep ==
    ASSUME UmbrellaPass, [P!Next]_(P!vars), NEW s,
           P!Given("ZelosBackplane", s), ~ChildWritten \/ P!SnapSpec = s
    PROVE  Child'.rv > 0 /\ Child'.content = P!ContentOf("ZelosBackplane", s)
<1>1. Child.rv > 0 /\ Child.content = P!ContentOf("ZelosBackplane", s)
  BY DEF P!Given, Child
<1>2. QED
  BY <1>1, ChildSteps, ChildTypes DEF ChildWritten

LEMMA ChildEnabled ==
    ASSUME NEW s \in UmbrellaSpecs, s.child["ZelosBackplane"] > 0
    PROVE  /\ "ZelosBackplane" \in P!Materialized(s)
           /\ P!ContentOf("ZelosBackplane", s) = s.child["ZelosBackplane"]
<1>1. "ZelosBackplane" \in P!Materialized(s)
  BY NameFacts DEF P!Materialized, P!Enabled
<1>2. s.child["ZelosBackplane"] \in Nat
  BY UmbrellaSpecsAssumption, BackplaneSpecsAssumption
<1>3. QED
  BY <1>1, <1>2, ChildContent

(***************************************************************************)
(* A pass that is running has just begun, or goes on with its own copy.    *)
(***************************************************************************)
LEMMA PassGoesOn ==
    ASSUME UmbrellaPass, [P!Next]_(P!vars), prunning'
    PROVE  \/ P!Begin
           \/ /\ prunning /\ psnap' = psnap /\ P!SnapSpec' = P!SnapSpec
              /\ \/ \E n \in P!Names : P!Apply(n)
                 \/ ptodo' = ptodo
<1>1. \/ P!Begin
      \/ /\ prunning /\ psnap' = psnap
         /\ \/ \E n \in P!Names : P!Apply(n)
            \/ ptodo' = ptodo
  BY DEF P!Next, P!Reconcile, P!Manager, P!Cluster, P!Reports,
       P!ApplyRefused, P!ApplyFails, P!Fail, P!Finish, P!DeliverPlatform, P!DeliverObject,
       P!TimerFires, P!Restart, P!EditSpec, P!ChildReports, P!NATSChanges,
       P!CollectorComesUp, P!CollectorFails, P!controllerVars, P!vars, P!Apply, P!Applying
<1>2. psnap' = psnap => P!SnapSpec' = P!SnapSpec
  BY PlatformSpecsKept, PlatformCounters DEF P!SnapSpec
<1>3. QED
  BY <1>1, <1>2

LEMMA PassEnds ==
    ASSUME ChildApplied, [P!Next]_(P!vars), ~prunning'
    PROVE  ptodo' = {}
BY DEF ChildApplied, P!Next, P!Reconcile, P!Manager, P!Cluster, P!Reports, P!Begin, P!Apply,
       P!Applying, P!ApplyRefused, P!ApplyFails, P!Fail, P!Finish, P!DeliverPlatform,
       P!DeliverObject, P!TimerFires, P!Restart, P!EditSpec, P!ChildReports,
       P!NATSChanges, P!CollectorComesUp, P!CollectorFails, P!controllerVars, P!vars

LEMMA ChildAppliedStep ==
    ASSUME UmbrellaPass, ChildApplied, [P!Next]_(P!vars)
    PROVE  ChildApplied'
<1>1. CASE ~prunning'
  BY <1>1, PassEnds DEF ChildApplied
<1>2. CASE prunning'
  <2> SUFFICES ASSUME "ZelosBackplane" \in P!Materialized(P!SnapSpec') \ ptodo'
               PROVE  /\ Child'.rv > 0
                      /\ Child'.content = P!ContentOf("ZelosBackplane", P!SnapSpec')
    BY <1>2 DEF ChildApplied, P!Given, Child
  <2>1. CASE P!Begin
    BY <2>1 DEF P!Begin, P!SnapSpec
  <2>2. ASSUME NEW n \in P!Names, P!Apply(n), prunning, P!SnapSpec' = P!SnapSpec
        PROVE  /\ Child'.rv > 0
               /\ Child'.content = P!ContentOf("ZelosBackplane", P!SnapSpec')
    <3>1. CASE n = "ZelosBackplane"
      <4>1. ChildWritten
        BY <2>2, <3>1, ChildWrites DEF P!Apply
      <4>2. QED
        BY <2>2, <4>1 DEF ChildWritten
    <3>2. CASE n # "ZelosBackplane"
      <4>1. "ZelosBackplane" \notin ptodo
        BY <2>2, <3>2 DEF P!Apply
      <4>2. P!Given("ZelosBackplane", P!SnapSpec)
        BY <2>2, <4>1 DEF ChildApplied
      <4>3. QED
        BY <2>2, <4>2, GivenStep
    <3>3. QED
      BY <3>1, <3>2
  <2>3. CASE prunning /\ P!SnapSpec' = P!SnapSpec /\ ptodo' = ptodo
    <3>1. P!Given("ZelosBackplane", P!SnapSpec)
      BY <2>3 DEF ChildApplied
    <3>2. QED
      BY <2>3, <3>1, GivenStep
  <2>4. QED
    BY <1>2, <2>1, <2>2, <2>3, PassGoesOn
<1>3. QED
  BY <1>1, <1>2

-----------------------------------------------------------------------------
(* What the platform's status rests on *)

LEMMA ChildGivenStep ==
    ASSUME UmbrellaPass, P!CopiesLag, ChildApplied, ChildGiven, [P!Next]_(P!vars)
    PROVE  ChildGiven'
<1> DEFINE s == pspecs[pcr.gen]
<1> SUFFICES ASSUME pcr'.obs = pcr'.gen
             PROVE  /\ pcrCache'.gen = pcr'.gen
                    /\ prunning' => psnap'.gen = pcr'.gen
                    /\ Wanted' > 0 =>
                          /\ Child'.rv > 0
                          /\ Child'.content = P!ContentOf("ZelosBackplane", pspecs'[pcr'.gen])
  BY DEF ChildGiven, P!Given, Child
<1>1. s \in UmbrellaSpecs
  BY PlatformCounters DEF UmbrellaPass
<1>2. CASE UNCHANGED <<pspecs, pcr>>
  <2>1. /\ pcrCache.gen = pcr.gen
        /\ prunning => psnap.gen = pcr.gen
        /\ Wanted > 0 => P!Given("ZelosBackplane", s)
    BY <1>2 DEF ChildGiven
  <2>2. pcrCache'.gen = pcr'.gen
    BY <1>2, <2>1, UmbrellaCopies
  <2>3. prunning' => psnap'.gen = pcr'.gen
    BY <1>2, <2>1, PassGoesOn DEF P!Begin
  <2>4. ASSUME Wanted' > 0
        PROVE  /\ Child'.rv > 0
               /\ Child'.content = P!ContentOf("ZelosBackplane", pspecs'[pcr'.gen])
    <3>1. P!Given("ZelosBackplane", s)
      BY <1>2, <2>1, <2>4 DEF Wanted
    <3>2. ChildWritten => P!SnapSpec = s
      BY <2>1 DEF ChildWritten, P!SnapSpec
    <3>3. QED
      BY <1>2, <3>1, <3>2, GivenStep
  <2>5. QED
    BY <2>2, <2>3, <2>4
<1>3. CASE UNCHANGED pspecs /\ P!Finish /\ PlatformPublished
  <2>1. psnap = pcr /\ pcrCache = pcr
    BY <1>3, PlatformCounters DEF PlatformPublished, P!CopiesLag
  <2>2. /\ prunning /\ ptodo = {} /\ ~prunning'
        /\ UNCHANGED <<pcrCache, pobj>>
    BY <1>3 DEF P!Finish
  <2>3. pcr'.gen = pcr.gen
    BY <1>3, <2>1 DEF PlatformPublished
  <2>4. ASSUME Wanted' > 0
        PROVE  P!Given("ZelosBackplane", s)
    <3>1. s.child["ZelosBackplane"] > 0
      BY <1>3, <2>3, <2>4 DEF Wanted
    <3>2. "ZelosBackplane" \in P!Materialized(P!SnapSpec) /\ P!SnapSpec = s
      BY <1>1, <2>1, <3>1, ChildEnabled DEF P!SnapSpec
    <3>3. QED
      BY <2>2, <3>2 DEF ChildApplied
  <2>5. QED
    BY <1>3, <2>1, <2>2, <2>3, <2>4 DEF P!Given, Child
<1>4. ASSUME NEW e \in UmbrellaSpecs, P!EditSpec(e)
      PROVE  FALSE
  <2>1. pcr'.gen = pcr.gen + 1 /\ pcr'.obs = pcr.obs
    BY <1>4, UmbrellaEdits DEF PlatformEdited
  <2>2. QED
    BY <2>1, PlatformCounters DEF P!CopiesLag
<1>5. QED
  BY <1>2, <1>3, <1>4, PlatformChanges

(***************************************************************************)
(* A roll-up that says Ready has found the backplane, the only component   *)
(* these specs may enable, in it.                                          *)
(***************************************************************************)
LEMMA RolledUpFacts ==
    ASSUME NEW s \in UmbrellaSpecs, P!AllReady(pobjCache, s)
    PROVE  s.child["ZelosBackplane"] > 0 /\ ChildCopy.ready = "True"
<1>1. P!Enabled(s) \subseteq {"ZelosBackplane"}
  BY UmbrellaSpecsAssumption, NameFacts DEF P!Enabled
<1>2. ~P!CollectorDeployed(s)
  BY UmbrellaSpecsAssumption DEF P!CollectorDeployed
<1>3. "ZelosBackplane" \in P!Enabled(s)
  BY <1>1, <1>2 DEF P!AllReady, P!Counted
<1>4. P!Up(pobjCache, "ZelosBackplane")
  BY <1>3 DEF P!AllReady, P!Counted
<1>5. s.child["ZelosBackplane"] > 0
  BY <1>3 DEF P!Enabled
<1>6. QED
  BY <1>4, <1>5 DEF P!Up, P!Backing, ChildCopy

(***************************************************************************)
(* The pass that finds nothing to be requeued for, and nothing new on the  *)
(* queue, has read the newest platform and a backplane that is Ready.      *)
(***************************************************************************)
LEMMA LastRollup ==
    ASSUME UmbrellaPass, P!CopiesLag, P!EventKept, P!Finish,
           pwake' = "none", pcrCache'.rv = pcr'.rv
    PROVE  /\ UNCHANGED <<pspecs, pcr, pobjCache>>
           /\ Wanted > 0 /\ ChildCopy.ready = "True"
<1>1. /\ prunning /\ P!PublishStatus
      /\ pwake' = IF ~P!RolledUp THEN P!Requeued ELSE pwake
      /\ UNCHANGED <<pspecs, pcrCache, pobjCache>>
  BY DEF P!Finish
<1>2. P!RolledUp /\ pwake = "none"
  BY <1>1 DEF P!Requeued
<1>3. psnap.rv = pcrCache.rv
  BY <1>1, <1>2, PlatformCounters DEF P!EventKept, P!CopiesLag
<1>4. UNCHANGED pcr
  <2>1. CASE PlatformPublished
    <3>1. pcr'.rv = psnap.rv + 1
      BY <2>1 DEF PlatformPublished
    <3>2. pcr'.rv = psnap.rv
      BY <1>1, <1>3
    <3>3. psnap.rv \in Nat
      BY PlatformCounters
    <3>4. QED
      BY <3>1, <3>2, <3>3
  <2>2. QED
    BY <1>1, <2>1, UmbrellaPublishes
<1>5. psnap = pcr
  BY <1>1, <1>3, <1>4 DEF P!CopiesLag
<1>6. P!SnapSpec = pspecs[pcr.gen] /\ P!SnapSpec \in UmbrellaSpecs
  BY <1>5, PassSpec DEF P!SnapSpec
<1>7. QED
  BY <1>1, <1>2, <1>4, <1>6, RolledUpFacts DEF P!RolledUp, Wanted

LEMMA ReadyAsCopiedStep ==
    ASSUME UmbrellaPass, P!CopiesLag, P!EventKept, ReadyAsCopied, [P!Next]_(P!vars)
    PROVE  ReadyAsCopied'
<1> SUFFICES ASSUME ~prunning', pwake' = "none", pcrCache'.rv = pcr'.rv,
                    pcr'.obs = pcr'.gen, pcr'.ready = "True"
             PROVE  Wanted' > 0 /\ ChildCopy'.ready = "True"
  BY DEF ReadyAsCopied, ChildCopy
<1>1. CASE P!Finish
  <2>1. /\ UNCHANGED <<pspecs, pcr, pobjCache>>
        /\ Wanted > 0 /\ ChildCopy.ready = "True"
    BY <1>1, LastRollup
  <2>2. QED
    BY <2>1 DEF Wanted, ChildCopy
<1>2. CASE UNCHANGED <<pspecs, pcr, pcrCache, prunning, pwake>> /\ ChildCopy' = ChildCopy
  BY <1>2 DEF ReadyAsCopied, Wanted, ChildCopy
<1>3. ASSUME NEW n \in P!Names, P!DeliverObject(n)
      PROVE  UNCHANGED <<pspecs, pcr, pcrCache, prunning, pwake>> /\ ChildCopy' = ChildCopy
  <2>1. n # "ZelosBackplane" /\ UNCHANGED pwake
    BY <1>3, NameFacts DEF P!DeliverObject
  <2>2. ChildCopy' = ChildCopy
    BY <1>3, <2>1, NameFacts DEF P!DeliverObject, UmbrellaPass, ChildCopy
  <2>3. QED
    BY <1>3, <2>1, <2>2 DEF P!DeliverObject
<1>4. ASSUME NEW s \in UmbrellaSpecs, P!EditSpec(s)
      PROVE  FALSE
  <2>1. pcr'.rv = pcr.rv + 1 /\ pcrCache' = pcrCache
    BY <1>4, UmbrellaEdits DEF PlatformEdited
  <2>2. QED
    BY <2>1, PlatformCounters DEF P!CopiesLag
<1>5. CASE P!Reports \/ UNCHANGED P!vars
  BY <1>2, <1>5, UmbrellaReports DEF P!vars, ChildCopy
<1>6. CASE \/ P!Begin
           \/ \E n \in P!Names : P!Apply(n) \/ P!ApplyRefused(n) \/ P!ApplyFails(n)
           \/ P!DeliverPlatform \/ P!TimerFires \/ P!Restart
  BY <1>6 DEF P!Begin, P!Apply, P!Applying, P!ApplyRefused, P!ApplyFails, P!Fail,
       P!Requeued, P!DeliverPlatform, P!TimerFires, P!Restart
<1>7. QED
  BY <1>1, <1>2, <1>3, <1>4, <1>5, <1>6
     DEF P!Next, P!Reconcile, P!Manager, P!Cluster

-----------------------------------------------------------------------------
(* The invariant of the composition *)

LEMMA InitUmbrella == InitSystem => UmbrellaInStep
<1> SUFFICES ASSUME InitSystem PROVE UmbrellaInStep
  OBVIOUS
<1>1. /\ pobj = [n \in P!Names |-> P!Missing] /\ pobjCache = pobj /\ prunning = FALSE
      /\ pcr.gen = 1 /\ pcr.rv = 1 /\ pcr.obs = 0 /\ pcrCache = pcr /\ psnap = pcr
      /\ ptodo = {} /\ pwake = "due"
      /\ \E s \in UmbrellaSpecs : pspecs = <<s>>
  BY DEF InitSystem, P!Init
<1>2. P!CopiesLag /\ P!EventKept
  BY <1>1 DEF P!CopiesLag, P!EventKept
<1>3. ChildCopyLags
  BY <1>1, NameFacts DEF ChildCopyLags, P!Missing
<1>4. ChildApplied /\ ChildGiven /\ ReadyAsCopied
  BY <1>1 DEF ChildApplied, ChildGiven, ReadyAsCopied
<1>5. QED
  BY <1>2, <1>3, <1>4 DEF UmbrellaInStep

LEMMA UmbrellaInStepStep ==
    ASSUME UmbrellaPass, UmbrellaInStep, [P!Next]_(P!vars)
    PROVE  UmbrellaInStep'
<1> USE DEF UmbrellaInStep
<1>1. P!CopiesLag' /\ P!EventKept'
  BY CopiesLagStep, EventKeptStep
<1>2. ChildCopyLags' /\ ChildApplied' /\ ChildGiven'
  BY ChildCopyLagsStep, ChildAppliedStep, ChildGivenStep
<1>3. ReadyAsCopied'
  BY ReadyAsCopiedStep
<1>4. QED
  BY <1>1, <1>2, <1>3

(***************************************************************************)
(* The invariant of the composition holds in every reachable state: the    *)
(* two controllers have one view of what they share, the backplane's is    *)
(* as ComponentController would have it, and the umbrella's copies, passes *)
(* and status are in step with the custom resource it has applied.         *)
(***************************************************************************)
THEOREM SystemInvariantHolds == SpecSystem => []InductiveSystem
<1>1. InitSystem => UmbrellaInStep
  BY InitUmbrella
<1>2. InStep /\ UmbrellaInStep /\ [NextSystem]_varsSystem => UmbrellaInStep'
  BY UmbrellaStep, UmbrellaInStepStep DEF InStep
<1>3. InStep /\ UmbrellaInStep => InductiveSystem
  BY DEF InStep, InductiveSystem
<1>4. QED
  BY <1>1, <1>2, <1>3, StaysInStep, PTL DEF SpecSystem

-----------------------------------------------------------------------------
(* Ready from end to end *)

(***************************************************************************)
(* What the umbrella knows at rest: the newest content has been given to   *)
(* the backplane, whose own condition says Ready.                          *)
(***************************************************************************)
LEMMA UmbrellaAtRest ==
    ASSUME InductiveSystem, P!Quiescent, pcr.obs = pcr.gen, pcr.ready = "True"
    PROVE  /\ Created /\ specs[cr.gen] = WantedSpec
           /\ cr.obs # 0 /\ cr.verdict.available
<1>1. /\ ViewsAgree /\ UmbrellaPass /\ BackplaneInStep
      /\ ChildCopyLags /\ ChildGiven /\ ReadyAsCopied
  BY DEF InductiveSystem, UmbrellaInStep
<1>2. Wanted > 0 /\ ChildCopy.ready = "True"
  BY <1>1 DEF P!Quiescent, ReadyAsCopied, ChildCopy
<1>3. ChildCopy = Child
  BY <1>1, NameFacts DEF P!Quiescent, ChildCopyLags, Child, ChildCopy
<1>4. Child.ready = "True" /\ Child.rv = cr.rv /\ ReadyCondition(cr) = "True"
  BY <1>1, <1>2, <1>3 DEF ViewsAgree, Child
<1>5. Child.rv > 0 /\ Child.content = P!ContentOf("ZelosBackplane", pspecs[pcr.gen])
  BY <1>1, <1>2 DEF ChildGiven, P!Given, Child
<1>6. Child.content = Wanted
  <2>1. pspecs[pcr.gen] \in UmbrellaSpecs
    BY <1>1 DEF UmbrellaPass
  <2>2. QED
    BY <1>2, <1>5, <2>1, ChildEnabled DEF Wanted
<1>7. Created
  BY <1>4, <1>5 DEF Created
<1>8. specs[cr.gen] = WantedSpec
  BY <1>1, <1>6, <1>7 DEF ViewsAgree, WantedSpec, Child
<1>9. cr.obs # 0 /\ cr.verdict.available
  BY <1>4 DEF ReadyCondition, P!Flag
<1>10. QED
  BY <1>7, <1>8, <1>9

(***************************************************************************)
(* What follows of a backplane at rest that says Ready, if no status write *)
(* of its was lost: it is about the newest generation, all its objects are *)
(* at that generation, and NATS is there if the spec asks for it.          *)
(***************************************************************************)
LEMMA BackplaneAtRest ==
    ASSUME BackplaneInStep, Created, Quiescent, "status" \notin faults,
           cr.obs # 0, cr.verdict.available
    PROVE  /\ \A p \in Rendered(specs[cr.gen]) : obj[p].gen = cr.gen
           /\ Managed(specs[cr.gen]) => NATSReady(obj["Workload"]) = "True"
           /\ ~Managed(specs[cr.gen]) => UnmanagedVerdict(specs[cr.gen]).available
<1>1. /\ Inductive /\ ReadyAtRest /\ NoLostWakeup /\ UnmanagedVerdictHolds
      /\ "pod" \notin faults
  BY DEF BackplaneInStep, ReadyInvariant
<1>2. cr.obs = cr.gen
  BY <1>1 DEF NoLostWakeup, Unsettled
<1>3. cr.obs > 0 /\ cr.gen \in Nat
  BY <1>1, Counters
<1>4. ASSUME NEW p \in Rendered(specs[cr.gen])
      PROVE  obj[p].gen = cr.gen
  <2>1. p \in Parts
    BY RenderedFacts
  <2>2. obj[p].gen >= cr.gen
    BY <1>1, <1>2, <1>3, <1>4 DEF Inductive, HonestStatus
  <2>3. obj[p].gen <= crCache.gen /\ crCache.gen <= cr.gen
    BY <1>1, <2>1 DEF Inductive, ObjectsLag, CopiesLag
  <2>4. obj[p].gen \in Nat /\ crCache.gen \in Nat
    BY <1>1, <2>1, Counters DEF Objects
  <2>5. QED
    BY <1>3, <2>2, <2>3, <2>4
<1>5. ASSUME Managed(specs[cr.gen])
      PROVE  NATSReady(obj["Workload"]) = "True"
  <2>1. Available(obj["Workload"])
    BY <1>1, <1>2, <1>5 DEF ReadyAtRest
  <2>2. WorkloadReadiness("StatefulSet", obj["Workload"]).available
    BY <2>1 DEF Available, WorkloadReadiness, ReplicaReadiness
  <2>3. QED
    BY <2>1, <2>2 DEF NATSReady, Available, P!Flag
<1>6. ASSUME ~Managed(specs[cr.gen])
      PROVE  UnmanagedVerdict(specs[cr.gen]).available
  BY <1>1, <1>2, <1>3, <1>6 DEF UnmanagedVerdictHolds
<1>7. QED
  BY <1>4, <1>5, <1>6

(***************************************************************************)
(* Ready is true from end to end: once neither controller will run again,  *)
(* a platform that says Ready for its newest generation has that           *)
(* generation in every object of the backplane, and its substrate is up.   *)
(* The roll-up reads the backplane's condition without the generation it   *)
(* speaks for, and polls NATS through a cache that wakes nobody; but a     *)
(* stale Ready is always replaced, since either side's last pass found     *)
(* nothing newer in its copies, and the backplane never rests unobserved.  *)
(***************************************************************************)
THEOREM ReadyIsTrueEndToEnd == SpecSystem => []ReadyEndToEnd
<1>1. InductiveSystem => ReadyEndToEnd
  <2> SUFFICES ASSUME InductiveSystem, AtRest, pcr.obs = pcr.gen, pcr.ready = "True",
                      "status" \notin faults
               PROVE  HandedToPods /\ SubstrateUp
    BY DEF ReadyEndToEnd
  <2>1. /\ Created /\ specs[cr.gen] = WantedSpec
        /\ cr.obs # 0 /\ cr.verdict.available
    BY UmbrellaAtRest DEF AtRest
  <2>2. BackplaneInStep /\ Quiescent
    BY <2>1 DEF InductiveSystem, AtRest
  <2>3. /\ \A p \in Rendered(specs[cr.gen]) : obj[p].gen = cr.gen
        /\ Managed(specs[cr.gen]) => NATSReady(obj["Workload"]) = "True"
        /\ ~Managed(specs[cr.gen]) => UnmanagedVerdict(specs[cr.gen]).available
    BY <2>1, <2>2, BackplaneAtRest
  <2>4. QED
    BY <2>1, <2>3 DEF HandedToPods, SubstrateUp
<1>2. QED
  BY <1>1, SystemInvariantHolds, PTL

=============================================================================
