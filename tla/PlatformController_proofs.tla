---------------------- MODULE PlatformController_proofs ----------------------
(***************************************************************************)
(* Proofs about the umbrella controller, for every set of specs, bound and *)
(* set of faults.                                                          *)
(***************************************************************************)
EXTENDS PlatformController, TLAPS

(***************************************************************************)
(* Only known objects are materialised, and each has a content.            *)
(***************************************************************************)
LEMMA MaterializedFacts ==
    /\ ComponentKinds \subseteq Names
    /\ \A s : Materialized(s) \subseteq Names
    /\ \A s : Enabled(s) \subseteq Materialized(s) /\ Enabled(s) \subseteq Counted(s)
BY DEF Materialized, Names, Telemetry, Enabled, Counted

LEMMA ContentType ==
    ASSUME NEW s \in PlatformSpecs, NEW n \in Names
    PROVE  ContentOf(n, s) \in Nat
<1>1. CASE n \in ComponentKinds
  <2>1. ContentOf(n, s) = s.child[n]
    BY <1>1 DEF ContentOf, ComponentKinds
  <2>2. QED
    BY <1>1, <2>1 DEF PlatformSpecs
<1>2. CASE n \notin ComponentKinds
  <2>1. CASE n = "TelemetryEnv"
    BY <1>2, <2>1, Zenon DEF ContentOf
  <2>2. CASE n = "Collector"
    <3>1. ContentOf(n, s) = s.collectorImage
      BY <1>2, <2>2, Zenon DEF ContentOf
    <3>2. QED
      BY <3>1 DEF PlatformSpecs
  <2>3. CASE n \notin {"TelemetryEnv", "Collector"}
    <3>1. ContentOf(n, s) = 1
      BY <1>2, <2>3, Zenon DEF ContentOf
    <3>2. QED
      BY <3>1
  <2>4. QED
    BY <2>1, <2>2, <2>3
<1>3. QED
  BY <1>1, <1>2

(***************************************************************************)
(* Generations and versions are numbers.                                   *)
(***************************************************************************)
LEMMA PlatformVersions ==
    ASSUME TypeOK
    PROVE  /\ cr.gen \in Nat /\ crCache.gen \in Nat /\ snap.gen \in Nat
           /\ cr.rv \in Nat /\ crCache.rv \in Nat /\ snap.rv \in Nat
           /\ cr.obs \in Nat /\ Len(specs) \in Nat
<1>1. cr \in Platforms /\ crCache \in Platforms /\ snap \in Platforms
  BY DEF TypeOK
<1>2. \A r \in Platforms : r.gen \in Nat /\ r.rv \in Nat /\ r.obs \in Nat
  BY DEF Platforms
<1>3. Len(specs) \in Nat
  BY DEF TypeOK
<1>4. QED
  BY <1>1, <1>2, <1>3

LEMMA ObjectVersions ==
    ASSUME TypeOK, NEW n \in Names
    PROVE  obj[n].rv \in Nat /\ objCache[n].rv \in Nat
BY DEF TypeOK, Owned

(***************************************************************************)
(* The pass works on a spec the platform once had.                         *)
(***************************************************************************)
LEMMA SnapSpecType ==
    ASSUME TypeOK, CopiesLag
    PROVE  snap.gen \in 1..Len(specs) /\ SnapSpec \in PlatformSpecs
<1>1. snap.gen \in 1..Len(specs)
  BY PlatformVersions DEF CopiesLag
<1>2. QED
  BY <1>1, SpecsAssumption DEF TypeOK, SnapSpec

(***************************************************************************)
(* The objects keep their types, and an object that changes gets a newer   *)
(* version.                                                                *)
(***************************************************************************)
ObjectsForward ==
    /\ obj' \in [Names -> Owned]
    /\ \A m \in Names :
          /\ obj'[m].rv >= obj[m].rv
          /\ obj'[m].rv = obj[m].rv => obj'[m] = obj[m]

(***************************************************************************)
(* A write by the running pass gives one object what the pass's spec calls *)
(* for, and leaves the others alone.                                       *)
(***************************************************************************)
LEMMA WriteFacts ==
    ASSUME TypeOK, CopiesLag, NEW n \in Names, WriteObject(n)
    PROVE  /\ ObjectsForward
           /\ obj'[n].rv > 0 /\ obj'[n].content = ContentOf(n, SnapSpec)
           /\ \A m \in Names \ {n} : obj'[m] = obj[m]
<1> DEFINE c == ContentOf(n, SnapSpec)
<1>1. obj[n] \in Owned /\ c \in Nat
  BY SnapSpecType, ContentType DEF TypeOK
<1> HIDE DEF c
<1>2. /\ Updated(obj[n], c) \in Owned
      /\ Updated(obj[n], c).rv > 0 /\ Updated(obj[n], c).content = c
      /\ Updated(obj[n], c).rv >= obj[n].rv
      /\ Updated(obj[n], c).rv = obj[n].rv => Updated(obj[n], c) = obj[n]
  <2>1. CASE obj[n].rv > 0 /\ obj[n].content = c
    BY <1>1, <2>1 DEF Updated, Owned
  <2>2. CASE ~(obj[n].rv > 0 /\ obj[n].content = c)
    <3>1. Updated(obj[n], c) =
              [rv |-> obj[n].rv + 1, content |-> c, ready |-> obj[n].ready]
      BY <1>1, <2>2 DEF Updated, Owned
    <3>2. QED
      BY <1>1, <3>1 DEF Owned
  <2>3. QED
    BY <2>1, <2>2
<1>3. /\ obj'[n] = Updated(obj[n], c)
      /\ \A m \in Names \ {n} : obj'[m] = obj[m]
      /\ obj' \in [Names -> Owned]
  BY <1>1, <1>2 DEF WriteObject, TypeOK, c
<1>4. \A m \in Names : obj[m].rv \in Nat
  BY DEF TypeOK, Owned
<1>5. QED
  BY <1>2, <1>3, <1>4 DEF ObjectsForward, c

(***************************************************************************)
(* A report changes the version and the readiness of one object, never its *)
(* content.                                                                *)
(***************************************************************************)
LEMMA ReportFacts ==
    ASSUME TypeOK, NEW n \in Names, NEW r \in ReadyValues, SetReady(n, r)
    PROVE  /\ ObjectsForward
           /\ \A m \in Names : obj'[m].content = obj[m].content
           /\ obj'[n].rv = obj[n].rv + 1
           /\ \A m \in Names \ {n} : obj'[m] = obj[m]
<1>1. obj[n] \in Owned /\ \A m \in Names : obj[m] \in Owned /\ obj[m].rv \in Nat
  BY DEF TypeOK, Owned
<1>2. obj'[n] = [rv |-> obj[n].rv + 1, content |-> obj[n].content, ready |-> r]
  BY <1>1 DEF SetReady, TypeOK, Owned
<1>3. obj'[n] \in Owned
  BY <1>1, <1>2 DEF Owned
<1>4. \A m \in Names \ {n} : obj'[m] = obj[m]
  BY DEF SetReady, TypeOK
<1>5. obj' \in [Names -> Owned]
  BY <1>1, <1>3, <1>4 DEF SetReady, TypeOK
<1>6. QED
  BY <1>1, <1>2, <1>4, <1>5 DEF ObjectsForward

(***************************************************************************)
(* The status that a pass computes is about the generation of its copy,    *)
(* and says Ready only with children that are.                             *)
(***************************************************************************)
LEMMA NewStatusFacts ==
    ASSUME TypeOK, CopiesLag
    PROVE  /\ NewStatus \in Platforms
           /\ NewStatus.gen = snap.gen /\ NewStatus.rv = snap.rv
           /\ NewStatus.obs = snap.gen /\ NewStatus.ready = Flag(RolledUp)
           /\ RolledUp => \A k \in Enabled(SnapSpec) : NewStatus.children[k] = "True"
<1>1. snap \in Platforms
  BY DEF TypeOK
<1>2. \A b \in BOOLEAN : Flag(b) \in Written
  BY DEF Flag, Written
<1>3. RolledUp \in BOOLEAN /\ \A l : Up(objCache, l) \in BOOLEAN
  BY DEF RolledUp, AllReady, Up
<1>4. Phase \in {"", "Pending", "Progressing", "Ready"}
  BY DEF Phase
<1>5. /\ NewStatus.children \in [ComponentKinds -> Written]
      /\ NewStatus.available \in [Labels -> Written]
  BY <1>1, <1>2, <1>3 DEF NewStatus, Platforms, Written
<1>6. NewStatus \in Platforms
  BY <1>1, <1>2, <1>3, <1>4, <1>5 DEF NewStatus, Platforms
<1>7. RolledUp => \A k \in Enabled(SnapSpec) : NewStatus.children[k] = "True"
  <2> SUFFICES ASSUME RolledUp, NEW k \in Enabled(SnapSpec)
               PROVE  NewStatus.children[k] = "True"
    OBVIOUS
  <2>1. k \in ComponentKinds /\ Up(objCache, k)
    BY MaterializedFacts DEF RolledUp, AllReady, Enabled
  <2>2. QED
    BY <2>1 DEF NewStatus, Flag
<1>8. QED
  BY <1>6, <1>7 DEF NewStatus

(***************************************************************************)
(* A platform is its seven fields.                                         *)
(***************************************************************************)
LEMMA PlatformFields ==
    ASSUME NEW r \in Platforms
    PROVE  /\ r = [gen |-> r.gen, rv |-> r.rv, obs |-> r.obs, ready |-> r.ready,
                   phase |-> r.phase, children |-> r.children,
                   available |-> r.available]
           /\ r.gen \in Nat /\ r.rv \in Nat /\ r.obs \in Nat
           /\ r.ready \in Written
           /\ r.phase \in {"", "Pending", "Progressing", "Ready"}
           /\ r.children \in [ComponentKinds -> Written]
           /\ r.available \in [Labels -> Written]
BY DEF Platforms

LEMMA PlatformOfFields ==
    ASSUME NEW r \in Platforms, NEW g \in Nat, NEW v \in Nat
    PROVE  [gen |-> g, rv |-> v, obs |-> r.obs, ready |-> r.ready, phase |-> r.phase,
            children |-> r.children, available |-> r.available] \in Platforms
BY PlatformFields DEF Platforms

(***************************************************************************)
(* A platform of the next version, or the next generation, is a platform.  *)
(***************************************************************************)
LEMMA NextVersion ==
    ASSUME NEW r \in Platforms
    PROVE  LET next == [r EXCEPT !.rv = @ + 1]
           IN  /\ next \in Platforms
               /\ next.rv = r.rv + 1 /\ next.gen = r.gen /\ next.obs = r.obs
               /\ next.ready = r.ready /\ next.children = r.children
<1> DEFINE next == [r EXCEPT !.rv = @ + 1]
<1>1. next = [gen |-> r.gen, rv |-> r.rv + 1, obs |-> r.obs, ready |-> r.ready,
              phase |-> r.phase, children |-> r.children, available |-> r.available]
  <2>1. r = [gen |-> r.gen, rv |-> r.rv, obs |-> r.obs, ready |-> r.ready,
             phase |-> r.phase, children |-> r.children, available |-> r.available]
    BY PlatformFields
  <2>2. QED
    BY <2>1
<1>2. r.gen \in Nat /\ r.rv + 1 \in Nat
  <2>1. r.gen \in Nat /\ r.rv \in Nat
    BY PlatformFields
  <2>2. QED
    BY <2>1
<1>3. next \in Platforms
  BY <1>1, <1>2, PlatformOfFields
<1>4. QED
  BY <1>1, <1>3

LEMMA NextGeneration ==
    ASSUME NEW r \in Platforms
    PROVE  LET next == [r EXCEPT !.gen = @ + 1, !.rv = @ + 1]
           IN  /\ next \in Platforms
               /\ next.rv = r.rv + 1 /\ next.gen = r.gen + 1 /\ next.obs = r.obs
<1> DEFINE next == [r EXCEPT !.gen = @ + 1, !.rv = @ + 1]
<1> DEFINE edited == [r EXCEPT !.gen = r.gen + 1]
<1>1. edited = [gen |-> r.gen + 1, rv |-> r.rv, obs |-> r.obs, ready |-> r.ready,
                phase |-> r.phase, children |-> r.children, available |-> r.available]
  <2>1. r = [gen |-> r.gen, rv |-> r.rv, obs |-> r.obs, ready |-> r.ready,
             phase |-> r.phase, children |-> r.children, available |-> r.available]
    BY PlatformFields
  <2>2. QED
    BY <2>1
<1>2. edited \in Platforms
  <2>1. r.gen + 1 \in Nat /\ r.rv \in Nat
    <3>1. r.gen \in Nat /\ r.rv \in Nat
      BY PlatformFields
    <3>2. QED
      BY <3>1
  <2>2. QED
    BY <1>1, <2>1, PlatformOfFields
<1>3. edited.gen = r.gen + 1 /\ edited.rv = r.rv /\ edited.obs = r.obs
  BY <1>1
<1>4. next = [edited EXCEPT !.rv = r.rv + 1]
  OBVIOUS
<1> HIDE DEF edited
<1>5. next = [edited EXCEPT !.rv = @ + 1]
  BY <1>3, <1>4
<1>6. QED
  BY <1>2, <1>3, <1>5, NextVersion

(***************************************************************************)
(* The published status: if the write is taken, the copy was the newest    *)
(* and the generation observed is the current one.                         *)
(***************************************************************************)
LEMMA PublishFacts ==
    ASSUME TypeOK, CopiesLag, PublishStatus
    PROVE  /\ cr' \in Platforms
           /\ faults' \subseteq Faults
           /\ cr'.gen = cr.gen
           /\ cr'.rv = cr.rv \/ cr'.rv = cr.rv + 1
           /\ cr'.rv = cr.rv => cr' = cr
           /\ \/ UNCHANGED cr
                    /\ \/ snap.rv # cr.rv
                       \/ "status" \in faults'
                       \/ NewStatus = cr
              \/ /\ snap = cr /\ cr'.rv = cr.rv + 1
                 /\ cr'.obs = cr.gen /\ cr'.ready = Flag(RolledUp)
                 /\ cr'.children = NewStatus.children
<1>1. /\ cr \in Platforms /\ snap \in Platforms
      /\ cr.rv \in Nat /\ snap.rv \in Nat /\ crCache.rv \in Nat
  BY DEF TypeOK, Platforms
<1>2. faults' \subseteq Faults
  BY DEF PublishStatus, Fault, TypeOK
<1>3. CASE /\ snap.rv = cr.rv
           /\ cr' = IF NewStatus = cr THEN cr ELSE [NewStatus EXCEPT !.rv = @ + 1]
  <2>1. snap = cr
    BY <1>1, <1>3 DEF CopiesLag
  <2>2. CASE NewStatus = cr
    BY <1>1, <1>2, <1>3, <2>2
  <2>3. CASE NewStatus # cr
    <3>1. cr' = [NewStatus EXCEPT !.rv = @ + 1]
      BY <1>3, <2>3
    <3>2. /\ NewStatus \in Platforms /\ NewStatus.gen = cr.gen /\ NewStatus.rv = cr.rv
          /\ NewStatus.obs = cr.gen /\ NewStatus.ready = Flag(RolledUp)
      BY <2>1, NewStatusFacts
    <3>3. /\ cr' \in Platforms /\ cr'.gen = cr.gen /\ cr'.rv = cr.rv + 1
          /\ cr'.obs = cr.gen /\ cr'.ready = Flag(RolledUp)
          /\ cr'.children = NewStatus.children
      BY <3>1, <3>2, NextVersion
    <3>4. QED
      BY <1>1, <1>2, <2>1, <3>3
  <2>4. QED
    BY <2>2, <2>3
<1>4. CASE UNCHANGED cr /\ (snap.rv # cr.rv \/ "status" \in faults')
  BY <1>1, <1>2, <1>4
<1>5. QED
  BY <1>3, <1>4 DEF PublishStatus, Fault

(***************************************************************************)
(* Objects that only move forward keep the copies behind them.             *)
(***************************************************************************)
LEMMA ForwardLag ==
    ASSUME TypeOK, ObjectCopiesLag, ObjectsForward, UNCHANGED objCache
    PROVE  ObjectCopiesLag'
<1> SUFFICES ASSUME NEW n \in Names
             PROVE  /\ objCache[n].rv <= obj'[n].rv
                    /\ objCache[n].rv = obj'[n].rv => objCache[n] = obj'[n]
  BY DEF ObjectCopiesLag
<1>1. /\ objCache[n].rv <= obj[n].rv
      /\ objCache[n].rv = obj[n].rv => objCache[n] = obj[n]
  BY DEF ObjectCopiesLag
<1>2. /\ obj'[n].rv >= obj[n].rv
      /\ obj'[n].rv = obj[n].rv => obj'[n] = obj[n]
      /\ obj'[n] \in Owned
  BY DEF ObjectsForward
<1>3. obj[n].rv \in Nat /\ objCache[n].rv \in Nat /\ obj'[n].rv \in Nat
  BY <1>2, ObjectVersions DEF Owned
<1>4. QED
  BY <1>1, <1>2, <1>3

(***************************************************************************)
(* A pass that ends in an error leaves what it has already applied.        *)
(***************************************************************************)
LEMMA FailStep ==
    ASSUME Inductive, Fail, faults' \subseteq Faults, ObjectsForward, HonestStatus',
           UNCHANGED <<specs, cr, crCache, objCache, snap>>
    PROVE  Inductive'
<1> USE DEF Inductive
<1>1. running' = FALSE /\ todo' = {} /\ wake' \in {"delayed", "due"}
  BY DEF Fail, Requeued
<1>2. TypeOK'
  BY <1>1 DEF TypeOK, ObjectsForward
<1>3. CopiesLag' /\ EventKept' /\ PassProgress' /\ ObservedIsNewest'
  BY <1>1 DEF CopiesLag, EventKept, PassProgress, ObservedIsNewest
<1>4. ObjectCopiesLag'
  BY ForwardLag
<1>5. QED
  BY <1>2, <1>3, <1>4

(***************************************************************************)
(* The write of an object keeps the status honest: once a generation is    *)
(* observed, no pass writes the content of an earlier one.                 *)
(***************************************************************************)
LEMMA WriteStep ==
    ASSUME Inductive, NEW n \in Names, running, WriteObject(n),
           UNCHANGED <<specs, cr, crCache, objCache, snap>>
    PROVE  /\ ObjectsForward
           /\ obj'[n].rv > 0 /\ obj'[n].content = ContentOf(n, SnapSpec)
           /\ \A m \in Names \ {n} : obj'[m] = obj[m]
           /\ HonestStatus'
<1>1. /\ ObjectsForward
      /\ obj'[n].rv > 0 /\ obj'[n].content = ContentOf(n, SnapSpec)
      /\ \A m \in Names \ {n} : obj'[m] = obj[m]
  BY WriteFacts DEF Inductive
<1>2. HonestStatus'
  <2> SUFFICES ASSUME cr.obs = cr.gen, NEW m \in Materialized(specs[cr.gen])
               PROVE  obj'[m].rv > 0 /\ obj'[m].content = ContentOf(m, specs[cr.gen])
    BY DEF HonestStatus, Given
  <2>1. m \in Names
    BY MaterializedFacts
  <2>2. obj[m].rv > 0 /\ obj[m].content = ContentOf(m, specs[cr.gen])
    BY DEF Inductive, HonestStatus, Given
  <2>3. SnapSpec = specs[cr.gen]
    BY DEF Inductive, ObservedIsNewest, SnapSpec
  <2>4. QED
    BY <1>1, <2>1, <2>2, <2>3
<1>3. QED
  BY <1>1, <1>2

LEMMA InitInductive == Init => Inductive
<1> SUFFICES ASSUME Init PROVE Inductive
  OBVIOUS
<1>1. PICK s \in Specs : specs = <<s>>
  BY DEF Init
<1>2. specs \in Seq(Specs) /\ Len(specs) = 1
  BY <1>1
<1>3. cr \in Platforms
  <2>1. /\ [k \in ComponentKinds |-> "None"] \in [ComponentKinds -> Written]
        /\ [l \in Labels |-> "None"] \in [Labels -> Written]
    BY DEF Written
  <2>2. QED
    BY <2>1 DEF Init, Platforms, Written
<1>4. Missing \in Owned
  BY DEF Missing, Owned, ReadyValues
<1>5. cr.gen = 1 /\ cr.rv = 1 /\ cr.obs = 0 /\ crCache = cr /\ snap = cr
  BY DEF Init
<1>6. TypeOK
  BY <1>2, <1>3, <1>4, <1>5 DEF Init, TypeOK
<1>7. CopiesLag /\ EventKept /\ HonestStatus /\ ObservedIsNewest
  <2>1. CopiesLag
    BY <1>2, <1>5 DEF CopiesLag
  <2>2. ~running
    BY Zenon DEF Init
  <2>3. cr.obs # cr.gen
    BY <1>5
  <2>4. QED
    BY <2>1, <2>2, <2>3 DEF EventKept, HonestStatus, ObservedIsNewest
<1>8. ObjectCopiesLag
  <2>1. objCache = obj /\ \A n \in Names : obj[n].rv = 0
    BY DEF Init, Missing
  <2>2. QED
    BY <2>1 DEF ObjectCopiesLag
<1>9. PassProgress
  BY DEF Init, PassProgress
<1>10. QED
  BY <1>6, <1>7, <1>8, <1>9 DEF Inductive

LEMMA BeginStep == Inductive /\ Begin => Inductive'
<1> SUFFICES ASSUME Inductive, Begin PROVE Inductive'
  OBVIOUS
<1> USE DEF Inductive
<1>1. /\ snap' = crCache /\ running' /\ todo' = Materialized(SnapSpec')
      /\ UNCHANGED <<specs, cr, crCache, obj, objCache, faults>>
  BY DEF Begin, SnapSpec
<1>2. TypeOK'
  BY <1>1, MaterializedFacts DEF TypeOK, Begin
<1>3. CopiesLag' /\ EventKept' /\ ObjectCopiesLag' /\ HonestStatus'
  BY <1>1, PlatformVersions
     DEF CopiesLag, EventKept, ObjectCopiesLag, HonestStatus, Given
<1>4. PassProgress'
  BY <1>1 DEF PassProgress
<1>5. ObservedIsNewest'
  BY <1>1 DEF ObservedIsNewest
<1>6. QED
  BY <1>2, <1>3, <1>4, <1>5

LEMMA ApplyStep ==
    ASSUME Inductive, NEW n \in Names, Apply(n)
    PROVE  Inductive'
<1> USE DEF Inductive
<1>1. /\ running /\ running' /\ WriteObject(n) /\ todo' = todo \ {n}
      /\ UNCHANGED <<specs, cr, crCache, objCache, wake, snap, faults>>
  BY DEF Apply, Applying, TypeOK
<1>2. /\ ObjectsForward
      /\ obj'[n].rv > 0 /\ obj'[n].content = ContentOf(n, SnapSpec)
      /\ \A m \in Names \ {n} : obj'[m] = obj[m]
      /\ HonestStatus'
  BY <1>1, WriteStep
<1>3. TypeOK'
  BY <1>1, <1>2 DEF TypeOK, ObjectsForward
<1>4. CopiesLag' /\ EventKept'
  BY <1>1 DEF CopiesLag, EventKept
<1>5. ObservedIsNewest'
  BY <1>1 DEF ObservedIsNewest
<1>6. ObjectCopiesLag'
  BY <1>1, <1>2, ForwardLag
<1>7. PassProgress'
  <2>1. todo' \subseteq Materialized(SnapSpec)
    BY <1>1 DEF PassProgress
  <2>2. \A m \in Materialized(SnapSpec) \ todo' :
            obj'[m].rv > 0 /\ obj'[m].content = ContentOf(m, SnapSpec)
    <3> SUFFICES ASSUME NEW m \in Materialized(SnapSpec) \ todo', m # n
                 PROVE  obj'[m].rv > 0 /\ obj'[m].content = ContentOf(m, SnapSpec)
      BY <1>2
    <3>1. m \in Names \ {n} /\ m \notin todo
      BY <1>1, MaterializedFacts
    <3>2. QED
      BY <1>1, <1>2, <3>1 DEF PassProgress, Given
  <2>3. SnapSpec' = SnapSpec
    BY <1>1 DEF SnapSpec
  <2>4. QED
    BY <1>1, <2>1, <2>2, <2>3 DEF PassProgress, Given
<1>8. QED
  BY <1>2, <1>3, <1>4, <1>5, <1>6, <1>7

LEMMA ApplyRefusedStep ==
    ASSUME Inductive, NEW n \in Names, ApplyRefused(n)
    PROVE  Inductive'
<1>1. Fail /\ UNCHANGED <<specs, cr, crCache, obj, objCache, snap, faults>>
  BY DEF ApplyRefused
<1>2. ObjectsForward
  BY <1>1, ObjectVersions DEF Inductive, TypeOK, ObjectsForward
<1>3. HonestStatus' /\ faults' \subseteq Faults
  BY <1>1 DEF Inductive, TypeOK, HonestStatus, Given
<1>4. QED
  BY <1>1, <1>2, <1>3, FailStep

LEMMA ApplyFailsStep ==
    ASSUME Inductive, NEW n \in Names, ApplyFails(n)
    PROVE  Inductive'
<1>1. /\ running /\ Fail /\ faults' \subseteq Faults
      /\ UNCHANGED <<specs, cr, crCache, objCache, snap>>
  BY DEF ApplyFails, Applying, Fault, Inductive, TypeOK
<1>2. CASE UNCHANGED obj
  <2>1. ObjectsForward /\ HonestStatus'
    BY <1>1, <1>2, ObjectVersions
       DEF Inductive, TypeOK, ObjectsForward, HonestStatus, Given
  <2>2. QED
    BY <1>1, <2>1, FailStep
<1>3. CASE WriteObject(n)
  BY <1>1, <1>3, WriteStep, FailStep
<1>4. QED
  BY <1>2, <1>3 DEF ApplyFails

(***************************************************************************)
(* A status that is published was rolled up from the newest spec, by a     *)
(* pass that has applied everything the spec calls for.                    *)
(***************************************************************************)
LEMMA FinishStep == Inductive /\ Finish => Inductive'
<1> SUFFICES ASSUME Inductive, Finish PROVE Inductive'
  OBVIOUS
<1> USE DEF Inductive
<1>1. /\ running /\ todo = {} /\ PublishStatus /\ running' = FALSE
      /\ wake' \in {"none", "delayed", "due"}
      /\ UNCHANGED <<specs, crCache, obj, objCache, todo, snap>>
  BY DEF Finish, Requeued, TypeOK
<1>2. /\ cr' \in Platforms
      /\ faults' \subseteq Faults
      /\ cr'.gen = cr.gen
      /\ cr'.rv = cr.rv \/ cr'.rv = cr.rv + 1
      /\ cr'.rv = cr.rv => cr' = cr
      /\ \/ UNCHANGED cr
         \/ /\ snap = cr /\ cr'.obs = cr.gen /\ cr'.ready = Flag(RolledUp)
            /\ cr'.children = NewStatus.children
  BY <1>1, PublishFacts
<1>3. TypeOK'
  BY <1>1, <1>2 DEF TypeOK
<1>4. CopiesLag'
  <2>1. cr'.obs <= cr'.gen
    BY <1>2, PlatformVersions DEF CopiesLag
  <2>2. QED
    BY <1>1, <1>2, <2>1, PlatformVersions DEF CopiesLag
<1>5. EventKept' /\ PassProgress' /\ ObjectCopiesLag'
  BY <1>1 DEF EventKept, PassProgress, ObjectCopiesLag
<1>6. CASE UNCHANGED cr
  <2>1. ObservedIsNewest' /\ HonestStatus'
    BY <1>1, <1>6 DEF ObservedIsNewest, HonestStatus, Given
  <2>2. QED
    BY <1>3, <1>4, <1>5, <2>1
<1>7. CASE /\ snap = cr /\ cr'.obs = cr.gen /\ cr'.ready = Flag(RolledUp)
           /\ cr'.children = NewStatus.children
  <2>1. SnapSpec = specs[cr.gen] /\ specs'[cr'.gen] = specs[cr.gen]
    BY <1>1, <1>2, <1>7 DEF SnapSpec
  <2>2. crCache'.gen = cr'.gen
    BY <1>1, <1>2, <1>7, PlatformVersions DEF CopiesLag
  <2>3. cr'.ready = "True" => \A k \in Enabled(SnapSpec) : cr'.children[k] = "True"
    BY <1>7, NewStatusFacts DEF Flag
  <2>4. ObservedIsNewest'
    BY <1>1, <2>1, <2>2, <2>3 DEF ObservedIsNewest
  <2>5. HonestStatus'
    BY <1>1, <2>1 DEF PassProgress, HonestStatus, Given
  <2>6. QED
    BY <1>3, <1>4, <1>5, <2>4, <2>5
<1>8. QED
  BY <1>2, <1>6, <1>7

LEMMA DeliverPlatformStep == Inductive /\ DeliverPlatform => Inductive'
<1> SUFFICES ASSUME Inductive, DeliverPlatform PROVE Inductive'
  OBVIOUS
<1> USE DEF Inductive
<1>1. /\ crCache.rv < cr.rv /\ crCache' = cr /\ wake' = "due"
      /\ UNCHANGED <<specs, cr, obj, objCache, running, todo, snap, faults>>
  BY DEF DeliverPlatform
<1>2. TypeOK'
  BY <1>1 DEF TypeOK
<1>3. CopiesLag'
  BY <1>1, PlatformVersions DEF CopiesLag
<1>4. EventKept' /\ ObservedIsNewest'
  BY <1>1 DEF EventKept, ObservedIsNewest
<1>5. PassProgress' /\ ObjectCopiesLag' /\ HonestStatus'
  BY <1>1 DEF PassProgress, SnapSpec, Given, ObjectCopiesLag, HonestStatus
<1>6. QED
  BY <1>2, <1>3, <1>4, <1>5

LEMMA DeliverObjectStep ==
    ASSUME Inductive, NEW n \in Names, DeliverObject(n)
    PROVE  Inductive'
<1> USE DEF Inductive
<1>1. /\ objCache' = [objCache EXCEPT ![n] = obj[n]]
      /\ wake' = wake \/ wake' = "due"
      /\ UNCHANGED <<specs, cr, crCache, obj, running, todo, snap, faults>>
  BY DEF DeliverObject
<1>2. TypeOK'
  BY <1>1 DEF TypeOK
<1>3. ObjectCopiesLag'
  BY <1>1, ObjectVersions DEF TypeOK, ObjectCopiesLag
<1>4. CopiesLag' /\ EventKept' /\ ObservedIsNewest'
  BY <1>1 DEF CopiesLag, EventKept, ObservedIsNewest
<1>5. PassProgress' /\ HonestStatus'
  BY <1>1 DEF PassProgress, SnapSpec, Given, HonestStatus
<1>6. QED
  BY <1>2, <1>3, <1>4, <1>5

LEMMA TimerStep == Inductive /\ TimerFires => Inductive'
<1> SUFFICES ASSUME Inductive, TimerFires PROVE Inductive'
  OBVIOUS
<1> USE DEF Inductive
<1>1. /\ wake' = "due"
      /\ UNCHANGED <<specs, cr, crCache, obj, objCache, running, todo, snap, faults>>
  BY DEF TimerFires
<1>2. TypeOK'
  BY <1>1 DEF TypeOK
<1>3. CopiesLag' /\ EventKept' /\ ObservedIsNewest'
  BY <1>1 DEF CopiesLag, EventKept, ObservedIsNewest
<1>4. PassProgress' /\ ObjectCopiesLag' /\ HonestStatus'
  BY <1>1 DEF PassProgress, SnapSpec, Given, ObjectCopiesLag, HonestStatus
<1>5. QED
  BY <1>2, <1>3, <1>4

LEMMA RestartStep == Inductive /\ Restart => Inductive'
<1> SUFFICES ASSUME Inductive, Restart PROVE Inductive'
  OBVIOUS
<1> USE DEF Inductive
<1>1. /\ crCache' = cr /\ objCache' = obj /\ wake' = "due" /\ running' = FALSE
      /\ todo' = {} /\ faults' \subseteq Faults
      /\ UNCHANGED <<specs, cr, obj, snap>>
  BY DEF Restart, Fault, TypeOK
<1>2. TypeOK'
  BY <1>1 DEF TypeOK
<1>3. CopiesLag'
  BY <1>1, PlatformVersions DEF CopiesLag
<1>4. ObjectCopiesLag'
  BY <1>1, ObjectVersions DEF ObjectCopiesLag
<1>5. EventKept' /\ PassProgress' /\ ObservedIsNewest' /\ HonestStatus'
  BY <1>1 DEF EventKept, PassProgress, ObservedIsNewest, HonestStatus, Given
<1>6. QED
  BY <1>2, <1>3, <1>4, <1>5

(***************************************************************************)
(* An edit leaves the status behind, and the spec of the pass as it was.   *)
(***************************************************************************)
LEMMA EditStep ==
    ASSUME Inductive, NEW s \in Specs, EditSpec(s)
    PROVE  Inductive'
<1> USE DEF Inductive
<1>1. /\ specs' = Append(specs, s)
      /\ cr' = [cr EXCEPT !.gen = @ + 1, !.rv = @ + 1]
      /\ UNCHANGED <<crCache, obj, objCache, wake, running, todo, snap, faults>>
  BY DEF EditSpec, controllerVars
<1>2. /\ cr' \in Platforms /\ cr'.gen = cr.gen + 1 /\ cr'.rv = cr.rv + 1
      /\ cr'.obs = cr.obs
  BY <1>1, NextGeneration DEF TypeOK
<1>3. /\ specs' \in Seq(Specs) /\ Len(specs') = Len(specs) + 1
      /\ \A g \in 1..Len(specs) : specs'[g] = specs[g]
  BY <1>1 DEF TypeOK
<1>4. TypeOK'
  BY <1>1, <1>2, <1>3 DEF TypeOK
<1>5. CopiesLag'
  BY <1>1, <1>2, <1>3, PlatformVersions DEF CopiesLag
<1>6. EventKept' /\ ObjectCopiesLag'
  BY <1>1 DEF EventKept, ObjectCopiesLag
<1>7. PassProgress'
  <2>1. SnapSpec' = SnapSpec
    BY <1>1, <1>3, SnapSpecType DEF SnapSpec
  <2>2. QED
    BY <1>1, <2>1 DEF PassProgress, Given
<1>8. cr'.obs # cr'.gen
  BY <1>2, PlatformVersions DEF CopiesLag
<1>9. ObservedIsNewest' /\ HonestStatus'
  BY <1>8 DEF ObservedIsNewest, HonestStatus
<1>10. QED
  BY <1>4, <1>5, <1>6, <1>7, <1>9

(***************************************************************************)
(* A report changes no content.                                            *)
(***************************************************************************)
LEMMA ReportStep ==
    ASSUME Inductive, NEW n \in Names, NEW r \in ReadyValues, SetReady(n, r),
           faults' \subseteq Faults,
           UNCHANGED <<specs, cr, crCache, objCache, wake, running, todo, snap>>
    PROVE  Inductive'
<1> USE DEF Inductive
<1>1. ObjectsForward /\ \A m \in Names : obj'[m].content = obj[m].content
  BY ReportFacts
<1>2. TypeOK'
  BY <1>1 DEF TypeOK, ObjectsForward
<1>3. CopiesLag' /\ EventKept' /\ ObservedIsNewest'
  BY DEF CopiesLag, EventKept, ObservedIsNewest
<1>4. ObjectCopiesLag'
  BY <1>1, ForwardLag
<1>5. \A m \in Names : obj[m].rv > 0 => obj'[m].rv > 0
  <2> SUFFICES ASSUME NEW m \in Names, obj[m].rv > 0 PROVE obj'[m].rv > 0
    OBVIOUS
  <2>1. obj[m].rv \in Nat /\ obj'[m].rv \in Nat
    BY <1>1, ObjectVersions DEF ObjectsForward, Owned
  <2>2. QED
    BY <1>1, <2>1 DEF ObjectsForward
<1>6. PassProgress'
  BY <1>1, <1>5, MaterializedFacts DEF PassProgress, SnapSpec, Given
<1>7. HonestStatus'
  BY <1>1, <1>5, MaterializedFacts DEF HonestStatus, Given
<1>8. QED
  BY <1>2, <1>3, <1>4, <1>6, <1>7

LEMMA ReportsStep == Inductive /\ Reports => Inductive'
<1> SUFFICES ASSUME Inductive, Reports PROVE Inductive'
  OBVIOUS
<1>1. PICK n \in Names, r \in ReadyValues : SetReady(n, r)
  BY MaterializedFacts
     DEF Reports, ChildReports, NATSChanges, CollectorComesUp, CollectorFails,
         ReadyValues, Names, Telemetry
<1>2. UNCHANGED <<specs, cr, crCache, objCache, wake, running, todo, snap>>
  BY DEF Reports, ChildReports, NATSChanges, CollectorComesUp, CollectorFails,
         controllerVars
<1>3. faults' \subseteq Faults
  BY DEF Reports, ChildReports, NATSChanges, CollectorComesUp, CollectorFails,
         Fault, Inductive, TypeOK
<1>4. QED
  BY <1>1, <1>2, <1>3, ReportStep

LEMMA InductiveStep == Inductive /\ [Next]_vars => Inductive'
<1> SUFFICES ASSUME Inductive, [Next]_vars PROVE Inductive'
  OBVIOUS
<1>1. CASE Reconcile
  BY <1>1, BeginStep, ApplyStep, ApplyRefusedStep, ApplyFailsStep, FinishStep
     DEF Reconcile
<1>2. CASE Manager
  BY <1>2, DeliverPlatformStep, DeliverObjectStep, TimerStep, RestartStep DEF Manager
<1>3. CASE Cluster
  BY <1>3, EditStep, ReportsStep DEF Cluster
<1>4. CASE UNCHANGED vars
  BY <1>4
     DEF vars, Inductive, TypeOK, CopiesLag, ObjectCopiesLag, PassProgress, SnapSpec,
         Given, EventKept, ObservedIsNewest, HonestStatus
<1>5. QED
  BY <1>1, <1>2, <1>3, <1>4 DEF Next

(***************************************************************************)
(* The inductive invariant holds in every reachable state.                 *)
(***************************************************************************)
THEOREM InvariantHolds == Spec => []Inductive
<1>1. Init => Inductive
  BY InitInductive
<1>2. Inductive /\ [Next]_vars => Inductive'
  BY InductiveStep
<1>3. QED
  BY <1>1, <1>2, PTL DEF Spec

(***************************************************************************)
(* Type correctness.                                                       *)
(***************************************************************************)
THEOREM TypeCorrect == Spec => []TypeOK
<1>1. Inductive => TypeOK
  BY DEF Inductive
<1>2. QED
  BY <1>1, InvariantHolds, PTL

(***************************************************************************)
(* A platform that has observed its newest generation has given every      *)
(* object that generation calls for its content, whichever of the calls of *)
(* Reconcile failed, conflicted or lost its answer.                        *)
(***************************************************************************)
THEOREM StatusIsHonest == Spec => []HonestStatus
<1>1. Inductive => HonestStatus
  BY DEF Inductive
<1>2. QED
  BY <1>1, InvariantHolds, PTL

-----------------------------------------------------------------------------
(***************************************************************************)
(* Faults are never taken back.                                            *)
(***************************************************************************)
LEMMA FaultsStay == [Next]_vars => faults \subseteq faults'
<1> SUFFICES ASSUME [Next]_vars PROVE faults \subseteq faults'
  OBVIOUS
<1>1. CASE Reconcile
  BY <1>1 DEF Reconcile, Begin, Apply, ApplyRefused, ApplyFails, Finish,
              PublishStatus, Fault
<1>2. CASE Manager
  BY <1>2 DEF Manager, DeliverPlatform, DeliverObject, TimerFires, Restart, Fault
<1>3. CASE Cluster
  BY <1>3 DEF Cluster, EditSpec, Reports, ChildReports, NATSChanges, CollectorComesUp,
              CollectorFails, Fault
<1>4. CASE UNCHANGED vars
  BY <1>4 DEF vars
<1>5. QED
  BY <1>1, <1>2, <1>3, <1>4 DEF Next

(***************************************************************************)
(* A report about a component is an event the caches have yet to see; one  *)
(* about the collector or NATS leaves the components as they are.          *)
(***************************************************************************)
LEMMA ReportsAreEvents ==
    ASSUME Inductive, Reports
    PROVE  /\ UNCHANGED <<specs, cr, crCache, objCache, wake, running>>
           /\ \/ \E k \in ComponentKinds : objCache[k].rv # obj'[k].rv
              \/ \A k \in ComponentKinds : obj'[k] = obj[k]
<1>1. UNCHANGED <<specs, cr, crCache, objCache, wake, running>>
  BY DEF Reports, ChildReports, NATSChanges, CollectorComesUp, CollectorFails,
         controllerVars
<1>2. PICK n \in Names, r \in ReadyValues : SetReady(n, r)
  BY MaterializedFacts
     DEF Reports, ChildReports, NATSChanges, CollectorComesUp, CollectorFails,
         ReadyValues, Names, Telemetry
<1>3. /\ obj'[n].rv = obj[n].rv + 1
      /\ \A m \in Names \ {n} : obj'[m] = obj[m]
  BY <1>2, ReportFacts DEF Inductive
<1>4. CASE n \in ComponentKinds
  <2>1. objCache[n].rv <= obj[n].rv /\ obj[n].rv \in Nat /\ objCache[n].rv \in Nat
    BY ObjectVersions DEF Inductive, ObjectCopiesLag
  <2>2. QED
    BY <1>1, <1>3, <1>4, <2>1
<1>5. CASE n \notin ComponentKinds
  BY <1>1, <1>3, <1>5, MaterializedFacts
<1>6. QED
  BY <1>4, <1>5

(***************************************************************************)
(* A pass that ends without asking to be requeued has rolled up Ready, and *)
(* unless its status is lost it is published, or a newer version of the    *)
(* platform has yet to arrive.                                             *)
(***************************************************************************)
LEMMA FinishIsLast ==
    ASSUME Inductive, Finish, wake' = "none"
    PROVE  /\ RolledUp /\ running
           /\ UNCHANGED <<specs, crCache, obj, objCache>>
           /\ \/ UNCHANGED cr /\ cr.obs = cr.gen /\ cr.ready = "True"
              \/ UNCHANGED cr /\ crCache.rv # cr.rv
              \/ UNCHANGED cr /\ "status" \in faults'
              \/ cr'.gen = cr.gen /\ crCache.rv # cr'.rv
<1> USE DEF Inductive
<1>1. /\ RolledUp /\ running /\ wake = "none" /\ PublishStatus
      /\ UNCHANGED <<specs, crCache, obj, objCache>>
  BY DEF Finish, Requeued
<1>2. snap.rv = crCache.rv
  BY <1>1, PlatformVersions DEF EventKept, CopiesLag
<1>3. \/ UNCHANGED cr
            /\ \/ snap.rv # cr.rv
               \/ "status" \in faults'
               \/ NewStatus = cr
      \/ cr'.gen = cr.gen /\ cr'.rv = cr.rv + 1
  BY <1>1, PublishFacts
<1>4. ASSUME UNCHANGED cr, NewStatus = cr
      PROVE  cr.obs = cr.gen /\ cr.ready = "True"
  BY <1>1, <1>4, NewStatusFacts DEF Flag
<1>5. ASSUME cr'.rv = cr.rv + 1 PROVE crCache.rv # cr'.rv
  BY <1>5, PlatformVersions DEF CopiesLag
<1>6. QED
  BY <1>1, <1>2, <1>3, <1>4, <1>5

LEMMA NoLostWakeupStep ==
    Inductive /\ NoLostWakeup /\ [Next]_vars => NoLostWakeup'
<1> SUFFICES ASSUME Inductive, NoLostWakeup, [Next]_vars,
                    "status" \notin faults', Unsettled', Quiescent'
             PROVE  FALSE
  BY DEF NoLostWakeup, UnsettledIsRequeued
<1>1. "status" \notin faults
  BY FaultsStay
<1>2. Unsettled => ~Quiescent
  BY <1>1 DEF NoLostWakeup, UnsettledIsRequeued
<1>3. ~running' /\ wake' = "none" /\ crCache'.rv = cr'.rv
  BY DEF Quiescent
<1>4. CASE Begin \/ \E n \in Names : Apply(n)
  BY <1>3, <1>4 DEF Begin, Apply, Applying
<1>5. CASE \E n \in Names : ApplyRefused(n) \/ ApplyFails(n)
  BY <1>3, <1>5 DEF ApplyRefused, ApplyFails, Fail, Requeued
<1>6. CASE Finish
  BY <1>3, <1>6, FinishIsLast DEF Unsettled
<1>7. CASE DeliverPlatform \/ TimerFires \/ Restart
  BY <1>3, <1>7 DEF DeliverPlatform, TimerFires, Restart
<1>8. CASE \E n \in Names : DeliverObject(n)
  <2>1. PICK n \in Names : DeliverObject(n)
    BY <1>8
  <2>2. n \notin ComponentKinds
    BY <1>3, <2>1 DEF DeliverObject
  <2>3. /\ UNCHANGED <<specs, cr, crCache, obj, wake, running>>
        /\ \A k \in ComponentKinds : objCache'[k] = objCache[k]
    BY <2>1, <2>2, MaterializedFacts DEF DeliverObject, Inductive, TypeOK
  <2>4. QED
    BY <1>2, <2>3 DEF Unsettled, Quiescent
<1>9. CASE \E s \in Specs : EditSpec(s)
  <2>1. crCache' = crCache /\ cr'.rv = cr.rv + 1
    BY <1>9, NextGeneration DEF EditSpec, Inductive, TypeOK
  <2>2. QED
    BY <1>3, <2>1, PlatformVersions DEF Inductive, CopiesLag
<1>10. CASE Reports
  <2>1. /\ UNCHANGED <<cr, crCache, objCache, wake, running>>
        /\ \A k \in ComponentKinds : obj'[k] = obj[k]
    BY <1>10, ReportsAreEvents DEF Quiescent
  <2>2. QED
    BY <1>2, <2>1 DEF Unsettled, Quiescent
<1>11. CASE UNCHANGED vars
  BY <1>2, <1>11 DEF vars, Unsettled, Quiescent
<1>12. QED
  BY <1>4, <1>5, <1>6, <1>7, <1>8, <1>9, <1>10, <1>11
     DEF Next, Reconcile, Manager, Cluster

(***************************************************************************)
(* Unless a status write was lost, a platform whose status is behind or    *)
(* does not say Ready is going to be reconciled again ("Requeue until      *)
(* everything is Ready").                                                  *)
(***************************************************************************)
THEOREM NoWakeupLost == Spec => []NoLostWakeup
<1>1. Init => NoLostWakeup
  BY DEF Init, NoLostWakeup, UnsettledIsRequeued, Quiescent
<1>2. QED
  BY <1>1, InvariantHolds, NoLostWakeupStep, PTL DEF Spec

-----------------------------------------------------------------------------
(***************************************************************************)
(* A Ready that nothing will look at again agrees with the copies the      *)
(* roll-up reads: the event of a change puts the platform on the queue.    *)
(***************************************************************************)
ReadyAsCopied ==
    ~running /\ wake = "none" /\ crCache.rv = cr.rv /\ cr.obs = cr.gen
        /\ cr.ready = "True"
    => \A k \in Enabled(specs[cr.gen]) : Up(objCache, k)

LEMMA ReadyAsCopiedStep ==
    Inductive /\ ReadyAsCopied /\ [Next]_vars => ReadyAsCopied'
<1> SUFFICES ASSUME Inductive, ReadyAsCopied, [Next]_vars,
                    ~running', wake' = "none", crCache'.rv = cr'.rv,
                    cr'.obs = cr'.gen, cr'.ready = "True",
                    NEW k \in Enabled(specs[cr.gen])', k \in ComponentKinds
             PROVE  Up(objCache, k)'
  BY DEF ReadyAsCopied, Enabled
<1>1. ASSUME UNCHANGED <<specs, cr, crCache, wake, running>>, objCache'[k] = objCache[k]
      PROVE  Up(objCache, k)'
  BY <1>1 DEF ReadyAsCopied, Up, Backing, ComponentKinds
<1>2. CASE Begin \/ \E n \in Names : Apply(n)
  BY <1>2 DEF Begin, Apply, Applying
<1>3. CASE \E n \in Names : ApplyRefused(n) \/ ApplyFails(n)
  BY <1>3 DEF ApplyRefused, ApplyFails, Fail, Requeued
<1>4. CASE Finish
  <2>1. /\ RolledUp /\ running /\ UNCHANGED <<specs, crCache, obj, objCache>>
        /\ UNCHANGED cr
    BY <1>4, FinishIsLast
  <2>2. SnapSpec = specs[cr.gen]
    BY <2>1 DEF Inductive, ObservedIsNewest, SnapSpec
  <2>3. Up(objCache, k)
    BY <2>1, <2>2, MaterializedFacts DEF RolledUp, AllReady
  <2>4. QED
    BY <2>1, <2>3 DEF Up
<1>5. CASE DeliverPlatform \/ TimerFires \/ Restart
  BY <1>5 DEF DeliverPlatform, TimerFires, Restart
<1>6. CASE \E n \in Names : DeliverObject(n)
  <2>1. PICK n \in Names : DeliverObject(n)
    BY <1>6
  <2>2. n \notin ComponentKinds
    BY <2>1 DEF DeliverObject
  <2>3. UNCHANGED <<specs, cr, crCache, wake, running>> /\ objCache'[k] = objCache[k]
    BY <2>1, <2>2, MaterializedFacts DEF DeliverObject, Inductive, TypeOK
  <2>4. QED
    BY <1>1, <2>3
<1>7. CASE \E s \in Specs : EditSpec(s)
  <2>1. cr'.gen = cr.gen + 1 /\ cr'.obs = cr.obs
    BY <1>7, NextGeneration DEF EditSpec, Inductive, TypeOK
  <2>2. QED
    BY <2>1, PlatformVersions DEF Inductive, CopiesLag
<1>8. CASE Reports
  BY <1>1, <1>8, ReportsAreEvents
<1>9. CASE UNCHANGED vars
  BY <1>1, <1>9 DEF vars
<1>10. QED
  BY <1>2, <1>3, <1>4, <1>5, <1>6, <1>7, <1>8, <1>9 DEF Next, Reconcile, Manager, Cluster

(***************************************************************************)
(* Once nothing will run any more, a platform that is Ready at its newest  *)
(* generation has only Ready components, and its children say so, even if  *)
(* status writes were lost.                                                *)
(***************************************************************************)
THEOREM RollupTrue == Spec => []RollupIsTrue
<1>1. Init => ReadyAsCopied
  BY DEF Init, ReadyAsCopied
<1>2. Spec => []ReadyAsCopied
  BY <1>1, InvariantHolds, ReadyAsCopiedStep, PTL DEF Spec
<1>3. Inductive /\ ReadyAsCopied => RollupIsTrue
  <2> SUFFICES ASSUME Inductive, ReadyAsCopied, Quiescent, cr.obs = cr.gen,
                      cr.ready = "True", NEW k \in Enabled(specs[cr.gen])
               PROVE  obj[k].ready = "True" /\ cr.children[k] = "True"
    BY DEF RollupIsTrue
  <2>1. k \in ComponentKinds /\ k \in Names
    BY MaterializedFacts DEF Enabled
  <2>2. obj[k] = objCache[k]
    BY <2>1 DEF Quiescent, Inductive, ObjectCopiesLag
  <2>3. Up(objCache, k)
    BY DEF ReadyAsCopied, Quiescent
  <2>4. obj[k].ready = "True"
    BY <2>1, <2>2, <2>3 DEF Up, Backing, ComponentKinds
  <2>5. QED
    BY <2>4 DEF Inductive, ObservedIsNewest
<1>4. QED
  BY <1>2, <1>3, InvariantHolds, PTL

-----------------------------------------------------------------------------
(***************************************************************************)
(* Only a failure of the infrastructure takes the collector down: no pass, *)
(* event or report does.                                                   *)
(***************************************************************************)
LEMMA CollectorStaysUp ==
    ASSUME Inductive, [Next]_vars, "infra" \notin faults', obj["Collector"].ready = "True"
    PROVE  obj'["Collector"].ready = "True"
<1> DEFINE n == "Collector"
<1>1. n \in Names /\ n \notin ComponentKinds /\ n # "NATS"
  BY DEF Names, Telemetry, ComponentKinds
<1>2. obj \in [Names -> Owned]
  BY DEF Inductive, TypeOK
<1>3. ASSUME NEW m \in Names, WriteObject(m) PROVE obj'[n].ready = obj[n].ready
  <2>1. Updated(obj[n], ContentOf(n, SnapSpec)).ready = obj[n].ready
    BY <1>1, <1>2 DEF Updated, Owned
  <2>2. QED
    BY <1>1, <1>2, <1>3, <2>1 DEF WriteObject
<1>4. ASSUME NEW m \in Names \ {n}, NEW r, SetReady(m, r) PROVE obj'[n] = obj[n]
  BY <1>1, <1>2, <1>4 DEF SetReady
<1>5. CASE Reconcile
  BY <1>3, <1>5 DEF Reconcile, Begin, Apply, ApplyRefused, ApplyFails, Finish
<1>6. CASE Manager
  BY <1>6 DEF Manager, DeliverPlatform, DeliverObject, TimerFires, Restart
<1>7. CASE Cluster
  <2>1. CASE \E s \in Specs : EditSpec(s)
    BY <2>1 DEF EditSpec
  <2>2. CASE \E k \in ComponentKinds, r \in {"True", "False"} : ChildReports(k, r)
    BY <1>1, <1>4, <2>2, MaterializedFacts DEF ChildReports
  <2>3. CASE \E r \in {"True", "False"} : NATSChanges(r)
    BY <1>1, <1>4, <2>3 DEF NATSChanges, Names
  <2>4. CASE CollectorComesUp \/ CollectorFails
    BY <2>4 DEF CollectorComesUp, CollectorFails, Fault
  <2>5. QED
    BY <1>7, <2>1, <2>2, <2>3, <2>4 DEF Cluster, Reports
<1>8. CASE UNCHANGED vars
  BY <1>8 DEF vars
<1>9. QED
  BY <1>5, <1>6, <1>7, <1>8 DEF Next

(***************************************************************************)
(* The informer's copy of a collector that was up is of one that still is. *)
(***************************************************************************)
CollectorSeen ==
    "infra" \notin faults =>
        (objCache["Collector"].ready = "True" => obj["Collector"].ready = "True")

LEMMA CollectorSeenStep ==
    Inductive /\ CollectorSeen /\ [Next]_vars => CollectorSeen'
<1> SUFFICES ASSUME Inductive, CollectorSeen, [Next]_vars, "infra" \notin faults',
                    objCache'["Collector"].ready = "True"
             PROVE  obj'["Collector"].ready = "True"
  BY DEF CollectorSeen
<1>1. "infra" \notin faults
  BY FaultsStay
<1>2. \/ objCache'["Collector"] = objCache["Collector"]
      \/ objCache'["Collector"] = obj["Collector"]
  <2>1. "Collector" \in Names /\ objCache \in [Names -> Owned]
    BY DEF Inductive, TypeOK, Names, Telemetry
  <2>2. CASE Reconcile
    BY <2>2 DEF Reconcile, Begin, Apply, ApplyRefused, ApplyFails, Finish
  <2>3. CASE Manager
    BY <2>1, <2>3 DEF Manager, DeliverPlatform, DeliverObject, TimerFires, Restart
  <2>4. CASE Cluster
    BY <2>4 DEF Cluster, EditSpec, Reports, ChildReports, NATSChanges,
                CollectorComesUp, CollectorFails
  <2>5. CASE UNCHANGED vars
    BY <2>5 DEF vars
  <2>6. QED
    BY <2>2, <2>3, <2>4, <2>5 DEF Next
<1>3. obj["Collector"].ready = "True"
  BY <1>1, <1>2 DEF CollectorSeen
<1>4. QED
  BY <1>3, CollectorStaysUp

(***************************************************************************)
(* A Ready that nothing will look at again is about a collector that is up *)
(***************************************************************************)
CollectorUp ==
    "infra" \notin faults /\ ~running /\ wake = "none" /\ crCache.rv = cr.rv
        /\ cr.obs = cr.gen /\ cr.ready = "True" /\ CollectorDeployed(specs[cr.gen])
    => obj["Collector"].ready = "True"

LEMMA CollectorUpStep ==
    Inductive /\ CollectorSeen /\ CollectorUp /\ [Next]_vars => CollectorUp'
<1> SUFFICES ASSUME Inductive, CollectorSeen, CollectorUp, [Next]_vars,
                    "infra" \notin faults', ~running', wake' = "none",
                    crCache'.rv = cr'.rv, cr'.obs = cr'.gen, cr'.ready = "True",
                    CollectorDeployed(specs[cr.gen])'
             PROVE  obj'["Collector"].ready = "True"
  BY DEF CollectorUp
<1>1. "infra" \notin faults
  BY FaultsStay
<1>2. ASSUME UNCHANGED <<specs, cr, crCache, wake, running>>
      PROVE  obj'["Collector"].ready = "True"
  BY <1>1, <1>2, CollectorStaysUp DEF CollectorUp, CollectorDeployed
<1>3. CASE Begin \/ \E n \in Names : Apply(n)
  BY <1>3 DEF Begin, Apply, Applying
<1>4. CASE \E n \in Names : ApplyRefused(n) \/ ApplyFails(n)
  BY <1>4 DEF ApplyRefused, ApplyFails, Fail, Requeued
<1>5. CASE Finish
  <2>1. /\ RolledUp /\ running /\ UNCHANGED <<specs, crCache, obj, objCache>>
        /\ UNCHANGED cr
    BY <1>5, FinishIsLast
  <2>2. SnapSpec = specs[cr.gen]
    BY <2>1 DEF Inductive, ObservedIsNewest, SnapSpec
  <2>3. "Operator" \in Counted(SnapSpec)
    BY <2>1, <2>2 DEF Counted, CollectorDeployed
  <2>4. objCache["Collector"].ready = "True"
    BY <2>1, <2>3 DEF RolledUp, AllReady, Up, Backing
  <2>5. QED
    BY <1>1, <2>1, <2>4 DEF CollectorSeen
<1>6. CASE DeliverPlatform \/ TimerFires \/ Restart
  BY <1>6 DEF DeliverPlatform, TimerFires, Restart
<1>7. CASE \E n \in Names : DeliverObject(n)
  <2>1. UNCHANGED <<specs, cr, crCache, wake, running>>
    BY <1>7 DEF DeliverObject
  <2>2. QED
    BY <1>2, <2>1
<1>8. CASE \E s \in Specs : EditSpec(s)
  <2>1. cr'.gen = cr.gen + 1 /\ cr'.obs = cr.obs
    BY <1>8, NextGeneration DEF EditSpec, Inductive, TypeOK
  <2>2. QED
    BY <2>1, PlatformVersions DEF Inductive, CopiesLag
<1>9. CASE Reports
  BY <1>2, <1>9, ReportsAreEvents
<1>10. CASE UNCHANGED vars
  BY <1>2, <1>10 DEF vars
<1>11. QED
  BY <1>3, <1>4, <1>5, <1>6, <1>7, <1>8, <1>9, <1>10
     DEF Next, Reconcile, Manager, Cluster

(***************************************************************************)
(* The Ready of a platform at rest also covers the collector, which no     *)
(* watch covers, unless the collector has failed.                          *)
(***************************************************************************)
THEOREM RollupCovers == Spec => []RollupCoversCollector
<1>1. Init => CollectorSeen /\ CollectorUp
  <2>1. Init => objCache = obj /\ wake = "due"
    BY DEF Init
  <2>2. QED
    BY <2>1 DEF CollectorSeen, CollectorUp
<1>2. Spec => [](CollectorSeen /\ CollectorUp)
  BY <1>1, InvariantHolds, CollectorSeenStep, CollectorUpStep, PTL DEF Spec
<1>3. CollectorUp => RollupCoversCollector
  BY DEF CollectorUp, RollupCoversCollector, Quiescent, Up, Backing
<1>4. QED
  BY <1>2, <1>3, PTL

=============================================================================
