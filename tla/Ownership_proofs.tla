--------------------------- MODULE Ownership_proofs ---------------------------
(***************************************************************************)
(* Proofs about platforms that come and go, for every set of names and     *)
(* objects, number of platforms and set of faults.                         *)
(***************************************************************************)
EXTENDS Ownership, TLAPS

-----------------------------------------------------------------------------
(* Uids *)

(***************************************************************************)
(* Creations and deletions alternate: after an odd number of them the      *)
(* platform created last is there, after an even number there is none.     *)
(***************************************************************************)
LEMMA Halves ==
    ASSUME NEW n \in Nat
    PROVE  /\ (n + 1) \div 2 \in Nat /\ (n + 2) \div 2 \in Nat
           /\ UidAfter(n) \in Nat
           /\ UidAfter(n) > 0 => /\ UidAfter(n) = (n + 1) \div 2
                                 /\ UidAfter(n) = (n + 2) \div 2
                                 /\ n = 2 * UidAfter(n) - 1
                                 /\ UidAfter(n + 1) = 0
           /\ UidAfter(n) = 0 => /\ UidAfter(n + 1) = (n + 2) \div 2
                                 /\ UidAfter(n + 1) = (n + 1) \div 2 + 1
                                 /\ n = 2 * ((n + 1) \div 2)
BY DEF UidAfter

LEMMA HalvesGrow ==
    ASSUME NEW m \in Nat, NEW n \in Nat, m <= n
    PROVE  /\ (m + 1) \div 2 <= (n + 1) \div 2
           /\ UidAfter(n) > 0 /\ UidAfter(n) <= (m + 1) \div 2 => m = n
BY DEF UidAfter

(***************************************************************************)
(* The number of platforms, and which of them exists and was heard of.     *)
(***************************************************************************)
LEMMA Platforms ==
    ASSUME TypeOK
    PROVE  /\ changes \in Nat /\ heard \in Nat /\ heard <= changes
           /\ MaxPlatforms \in Nat
           /\ Len(nameOf) \in 0..MaxPlatforms
           /\ Alive \in 0..Len(nameOf) /\ LastHeard \in 0..Len(nameOf)
           /\ Alive > 0 => Alive = Len(nameOf)
           /\ \A u \in 1..Len(nameOf) : nameOf[u] \in PlatformNames
<1>1. /\ MaxPlatforms \in Nat /\ changes \in Nat /\ changes <= 2 * MaxPlatforms
      /\ heard \in Nat /\ heard <= changes /\ Len(nameOf) = (changes + 1) \div 2
  BY BoundsAssumption DEF TypeOK
<1>2. Len(nameOf) \in 0..MaxPlatforms
  BY <1>1
<1>3. Alive \in 0..Len(nameOf) /\ (Alive > 0 => Alive = Len(nameOf))
  BY <1>1, <1>2, Halves DEF Alive
<1>4. LastHeard \in 0..Len(nameOf)
  BY <1>1, Halves, HalvesGrow DEF LastHeard
<1>5. \A u \in 1..Len(nameOf) : nameOf[u] \in PlatformNames
  BY DEF TypeOK
<1>6. QED
  BY <1>1, <1>2, <1>3, <1>4, <1>5

(***************************************************************************)
(* Who has heard of the live platform has heard of everything.             *)
(***************************************************************************)
LEMMA HeardOfLive ==
    ASSUME TypeOK, Alive > 0, Alive <= LastHeard
    PROVE  heard = changes
BY Platforms, HalvesGrow DEF Alive, LastHeard

(***************************************************************************)
(* What the cache has for a name.                                          *)
(***************************************************************************)
LEMMA CachedFacts ==
    ASSUME TypeOK, NEW name \in PlatformNames
    PROVE  /\ Cached(name) \in 0..LastHeard
           /\ heard = changes => Cached(name) \in {0, Alive}
           /\ LiveIsHeard /\ name = nameOf[Alive] => Cached(name) = Alive
<1>1. heard \in Nat
  BY Platforms
<1>2. UidAfter(heard) \in 0..LastHeard
  BY <1>1, Halves DEF LastHeard
<1>3. LastHeard \in Nat
  BY Platforms
<1>4. QED
  BY <1>2, <1>3 DEF Cached, Alive, LiveIsHeard

-----------------------------------------------------------------------------
(* The objects *)

LEMMA Targets ==
    ASSUME TypeOK, OwnersAreHeard, pass > 0
    PROVE  /\ pass \in 1..Len(nameOf) /\ PassName \in PlatformNames
           /\ \A k \in Kinds : Target(k) \in Dependents
           /\ \A j, k \in Kinds : Target(j) = Target(k) => j = k
           /\ ObjectsOf(PassName) = {Target(k) : k \in Kinds}
<1>1. pass \in 1..Len(nameOf) /\ PassName \in PlatformNames
  BY Platforms DEF OwnersAreHeard, TypeOK, PassName
<1>2. ObjectsOf(PassName) = {Target(k) : k \in Kinds}
  BY DEF ObjectsOf, Target
<1>3. ObjectsOf(PassName) \subseteq Dependents
  BY <1>1 DEF Dependents
<1>4. \A j, k \in Kinds : Target(j) = Target(k) => j = k
  BY DEF Target
<1>5. QED
  BY <1>1, <1>2, <1>3, <1>4

(***************************************************************************)
(* A write of the pass makes one object the pass's platform's.             *)
(***************************************************************************)
LEMMA WriteFacts ==
    ASSUME TypeOK, OwnersAreHeard, pass > 0, NEW k \in Kinds, WriteObject(k)
    PROVE  /\ owner' \in [Dependents -> 0..MaxPlatforms] /\ lagging' \subseteq Dependents
           /\ owner'[Target(k)] = pass
           /\ \A o \in Dependents : o # Target(k) => owner'[o] = owner[o]
<1>1. /\ owner \in [Dependents -> 0..MaxPlatforms] /\ lagging \subseteq Dependents
      /\ pass \in 0..MaxPlatforms /\ Target(k) \in Dependents
  BY Targets DEF TypeOK
<1>2. CASE owner[Target(k)] = pass
  BY <1>1, <1>2 DEF WriteObject
<1>3. CASE owner[Target(k)] # pass
  BY <1>1, <1>3 DEF WriteObject, Stored
<1>4. QED
  BY <1>2, <1>3

(***************************************************************************)
(* Nothing of the cluster's platforms changes.                             *)
(***************************************************************************)
SamePlatforms == UNCHANGED <<nameOf, changes, heard>>

LEMMA SameFacts ==
    ASSUME SamePlatforms
    PROVE  Alive' = Alive /\ LastHeard' = LastHeard /\ LiveIsHeard' = LiveIsHeard
BY DEF SamePlatforms, Alive, UidAfter, LastHeard, LiveIsHeard

(***************************************************************************)
(* After a write, the owners are still platforms that were heard of, and   *)
(* the live platform's are given by its own passes.                        *)
(***************************************************************************)
LEMMA WriteStep ==
    ASSUME Inductive, pass > 0, NEW k \in Kinds, WriteObject(k), SamePlatforms
    PROVE  /\ \A o \in Dependents : owner'[o] <= LastHeard
           /\ \A o \in Dependents :
                 owner'[o] > 0 /\ owner'[o] = Alive => heard = changes /\ pass = Alive
<1> USE DEF Inductive
<1>1. /\ owner'[Target(k)] = pass
      /\ \A o \in Dependents : o # Target(k) => owner'[o] = owner[o]
  BY WriteFacts
<1>2. pass <= LastHeard /\ \A o \in Dependents : owner[o] <= LastHeard
  BY DEF OwnersAreHeard
<1>3. \A o \in Dependents : owner'[o] <= LastHeard
  BY <1>1, <1>2
<1>4. pass = Alive => heard = changes
  BY <1>2, HeardOfLive
<1>5. \A o \in Dependents :
         owner[o] > 0 /\ owner[o] = Alive => heard = changes /\ pass = Alive
  BY DEF OwnPassesOnly
<1>6. QED
  BY <1>1, <1>3, <1>4, <1>5

-----------------------------------------------------------------------------
(* The steps of the controller *)

LEMMA InitInductive == Init => Inductive
<1> SUFFICES ASSUME Init PROVE Inductive
  OBVIOUS
<1>1. /\ nameOf = <<>> /\ changes = 0 /\ heard = 0 /\ pass = 0 /\ todo = {}
      /\ \A o \in Dependents : owner[o] = 0
  BY DEF Init
<1>2. Alive = 0 /\ LastHeard = 0 /\ (0 + 1) \div 2 = 0
  BY <1>1 DEF Alive, UidAfter, LastHeard
<1>3. TypeOK
  BY <1>1, <1>2, BoundsAssumption DEF Init, TypeOK
<1>4. OwnersAreHeard
  BY <1>1, <1>2 DEF OwnersAreHeard
<1>5. QED
  BY <1>1, <1>2, <1>3, <1>4
     DEF Inductive, StalePassIsFollowed, PassProgress, IdleIsSettled, OwnPassesOnly,
         LiveIsHeard

LEMMA BeginStep ==
    ASSUME NEW name \in PlatformNames PROVE Inductive /\ Begin(name) => Inductive'
<1> SUFFICES ASSUME Inductive, Begin(name) PROVE Inductive'
  OBVIOUS
<1> USE DEF Inductive
<1>1. /\ pass = 0 /\ wake[name] = "due" /\ wake' = [wake EXCEPT ![name] = "none"]
      /\ pass' = Cached(name) /\ todo' = IF Cached(name) > 0 THEN Kinds ELSE {}
      /\ UNCHANGED <<owner, ownerCache, lagging, faults>> /\ SamePlatforms
  BY DEF Begin, SamePlatforms
<1>2. /\ Cached(name) \in 0..LastHeard
      /\ heard = changes => Cached(name) \in {0, Alive}
      /\ LiveIsHeard /\ name = nameOf[Alive] => Cached(name) = Alive
  BY CachedFacts
<1>3. Alive' = Alive /\ LastHeard' = LastHeard /\ LiveIsHeard' = LiveIsHeard
  BY <1>1, SameFacts
<1>4. TypeOK'
  BY <1>1, <1>2, Platforms DEF TypeOK, SamePlatforms
<1>5. OwnersAreHeard'
  BY <1>1, <1>2, <1>3, Platforms DEF OwnersAreHeard
<1>6. StalePassIsFollowed' /\ OwnPassesOnly'
  BY <1>1, <1>2, <1>3 DEF StalePassIsFollowed, OwnPassesOnly, LiveIsHeard, SamePlatforms
<1>7. PassProgress'
  <2>1. LiveIsHeard /\ pass' = Alive => todo' = Kinds
    BY <1>1 DEF LiveIsHeard
  <2>2. QED
    BY <1>3, <2>1 DEF PassProgress
<1>8. IdleIsSettled'
  <2>1. LiveIsHeard /\ pass' = 0 => name # nameOf[Alive]
    BY <1>1, <1>2 DEF LiveIsHeard
  <2>2. LiveIsHeard /\ pass' = 0 => wake'[nameOf[Alive]] = wake[nameOf[Alive]]
    <3>1. LiveIsHeard => nameOf[Alive] \in PlatformNames
      BY Platforms DEF LiveIsHeard
    <3>2. QED
      BY <1>1, <2>1, <3>1 DEF TypeOK
  <2>3. QED
    BY <1>1, <1>3, <2>2 DEF IdleIsSettled, SamePlatforms
<1>9. QED
  BY <1>4, <1>5, <1>6, <1>7, <1>8

LEMMA ApplyStep == ASSUME NEW k \in Kinds PROVE Inductive /\ Apply(k) => Inductive'
<1> SUFFICES ASSUME Inductive, Apply(k) PROVE Inductive'
  OBVIOUS
<1> USE DEF Inductive
<1>1. /\ pass > 0 /\ WriteObject(k) /\ todo' = todo \ {k}
      /\ UNCHANGED <<ownerCache, wake, pass, faults>> /\ SamePlatforms
  BY DEF Apply, Applying, SamePlatforms
<1>2. Alive' = Alive /\ LastHeard' = LastHeard /\ LiveIsHeard' = LiveIsHeard
  BY <1>1, SameFacts
<1>3. /\ owner' \in [Dependents -> 0..MaxPlatforms] /\ lagging' \subseteq Dependents
      /\ owner'[Target(k)] = pass
      /\ \A o \in Dependents : o # Target(k) => owner'[o] = owner[o]
  BY <1>1, WriteFacts
<1>4. /\ \A o \in Dependents : owner'[o] <= LastHeard
      /\ \A o \in Dependents :
            owner'[o] > 0 /\ owner'[o] = Alive => heard = changes /\ pass = Alive
  BY <1>1, WriteStep
<1>5. TypeOK'
  BY <1>1, <1>3 DEF TypeOK, SamePlatforms
<1>6. OwnersAreHeard' /\ OwnPassesOnly'
  BY <1>1, <1>2, <1>4 DEF OwnersAreHeard, OwnPassesOnly, SamePlatforms
<1>7. StalePassIsFollowed' /\ IdleIsSettled'
  BY <1>1, <1>2 DEF StalePassIsFollowed, IdleIsSettled, SamePlatforms
<1>8. PassProgress'
  <2> SUFFICES ASSUME LiveIsHeard, pass = Alive, NEW j \in Kinds \ (todo \ {k})
               PROVE  owner'[Target(j)] = Alive
    BY <1>1, <1>2 DEF PassProgress, Target, PassName, SamePlatforms
  <2>1. CASE j = k
    BY <1>3, <2>1
  <2>2. CASE j # k
    <3>1. owner'[Target(j)] = owner[Target(j)]
      BY <1>1, <1>3, <2>2, Targets
    <3>2. QED
      BY <2>2, <3>1 DEF PassProgress
  <2>3. QED
    BY <2>1, <2>2
<1>9. QED
  BY <1>5, <1>6, <1>7, <1>8

(***************************************************************************)
(* A pass that ends in an error is retried, whatever it has written.       *)
(***************************************************************************)
LEMMA RequeuedFacts ==
    ASSUME TypeOK, NEW name \in PlatformNames
    PROVE  /\ Requeued(name) \in [PlatformNames -> {"none", "delayed", "due"}]
           /\ Requeued(name)[name] # "none"
           /\ \A other \in PlatformNames \ {name} : Requeued(name)[other] = wake[other]
           /\ \A other \in PlatformNames :
                 wake[other] = "due" => Requeued(name)[other] = "due"
BY DEF TypeOK, Requeued

LEMMA FailStep ==
    ASSUME Inductive, pass > 0, Fail, faults' \subseteq Faults, SamePlatforms,
           UNCHANGED ownerCache,
           owner' \in [Dependents -> 0..MaxPlatforms], lagging' \subseteq Dependents,
           \A o \in Dependents : owner'[o] <= LastHeard,
           \A o \in Dependents :
               owner'[o] > 0 /\ owner'[o] = Alive => heard = changes /\ pass = Alive
    PROVE  Inductive'
<1> USE DEF Inductive
<1>1. pass' = 0 /\ todo' = {} /\ wake' = Requeued(PassName)
  BY DEF Fail
<1>2. Alive' = Alive /\ LastHeard' = LastHeard /\ LiveIsHeard' = LiveIsHeard
  BY SameFacts
<1>3. /\ PassName \in PlatformNames
      /\ LiveIsHeard => nameOf[Alive] \in PlatformNames
  BY Targets, Platforms DEF LiveIsHeard
<1>4. TypeOK'
  BY <1>1, <1>3, RequeuedFacts, BoundsAssumption DEF TypeOK, SamePlatforms
<1>5. OwnersAreHeard'
  BY <1>1, <1>2, Platforms DEF OwnersAreHeard
<1>6. StalePassIsFollowed' /\ PassProgress' /\ OwnPassesOnly'
  BY <1>1, <1>2 DEF StalePassIsFollowed, PassProgress, OwnPassesOnly, LiveIsHeard,
                    SamePlatforms
<1>7. LiveIsHeard => wake'[nameOf[Alive]] # "none"
  <2>1. CASE pass = Alive
    BY <1>1, <1>3, <2>1, RequeuedFacts DEF PassName
  <2>2. CASE pass # Alive
    BY <1>1, <1>3, <2>2, RequeuedFacts DEF StalePassIsFollowed
  <2>3. QED
    BY <2>1, <2>2
<1>8. IdleIsSettled'
  BY <1>2, <1>7 DEF IdleIsSettled, SamePlatforms
<1>9. QED
  BY <1>4, <1>5, <1>6, <1>8

LEMMA ApplyRefusedStep ==
    ASSUME NEW k \in Kinds PROVE Inductive /\ ApplyRefused(k) => Inductive'
<1> SUFFICES ASSUME Inductive, ApplyRefused(k) PROVE Inductive'
  OBVIOUS
<1> USE DEF Inductive
<1>1. /\ pass > 0 /\ Fail /\ SamePlatforms
      /\ UNCHANGED <<owner, ownerCache, lagging, faults>>
  BY DEF ApplyRefused, Applying, SamePlatforms
<1>2. /\ owner' \in [Dependents -> 0..MaxPlatforms] /\ lagging' \subseteq Dependents
      /\ faults' \subseteq Faults
  BY <1>1 DEF TypeOK
<1>3. /\ \A o \in Dependents : owner'[o] <= LastHeard
      /\ \A o \in Dependents :
            owner'[o] > 0 /\ owner'[o] = Alive => heard = changes /\ pass = Alive
  BY <1>1 DEF OwnersAreHeard, OwnPassesOnly
<1>4. QED
  BY <1>1, <1>2, <1>3, FailStep

LEMMA ApplyFailsStep ==
    ASSUME NEW k \in Kinds PROVE Inductive /\ ApplyFails(k) => Inductive'
<1> SUFFICES ASSUME Inductive, ApplyFails(k) PROVE Inductive'
  OBVIOUS
<1> USE DEF Inductive
<1>1. /\ pass > 0 /\ Fail /\ SamePlatforms /\ UNCHANGED ownerCache
      /\ faults' \subseteq Faults
  BY DEF ApplyFails, Applying, SamePlatforms, Fault, TypeOK
<1>2. CASE UNCHANGED <<owner, lagging>>
  <2>1. owner' \in [Dependents -> 0..MaxPlatforms] /\ lagging' \subseteq Dependents
    BY <1>2 DEF TypeOK
  <2>2. /\ \A o \in Dependents : owner'[o] <= LastHeard
        /\ \A o \in Dependents :
              owner'[o] > 0 /\ owner'[o] = Alive => heard = changes /\ pass = Alive
    BY <1>1, <1>2 DEF OwnersAreHeard, OwnPassesOnly
  <2>3. QED
    BY <1>1, <2>1, <2>2, FailStep
<1>3. CASE WriteObject(k)
  BY <1>1, <1>3, WriteFacts, WriteStep, FailStep
<1>4. QED
  BY <1>2, <1>3 DEF ApplyFails

LEMMA FinishStep == Inductive /\ Finish => Inductive'
<1> SUFFICES ASSUME Inductive, Finish PROVE Inductive'
  OBVIOUS
<1> USE DEF Inductive
<1>1. /\ pass > 0 /\ todo = {} /\ pass' = 0 /\ wake' \in {wake, Requeued(PassName)}
      /\ SamePlatforms /\ UNCHANGED <<owner, ownerCache, lagging, todo, faults>>
  BY DEF Finish, SamePlatforms
<1>2. Alive' = Alive /\ LastHeard' = LastHeard /\ LiveIsHeard' = LiveIsHeard
  BY <1>1, SameFacts
<1>3. /\ PassName \in PlatformNames
      /\ LiveIsHeard => nameOf[Alive] \in PlatformNames
  BY <1>1, Targets, Platforms DEF LiveIsHeard
<1>4. TypeOK'
  <2>1. wake' \in [PlatformNames -> {"none", "delayed", "due"}]
    BY <1>1, <1>3, RequeuedFacts DEF TypeOK
  <2>2. QED
    BY <1>1, <2>1, BoundsAssumption DEF TypeOK, SamePlatforms
<1>5. OwnersAreHeard'
  BY <1>1, <1>2, Platforms DEF OwnersAreHeard
<1>6. StalePassIsFollowed' /\ PassProgress' /\ OwnPassesOnly'
  BY <1>1, <1>2 DEF StalePassIsFollowed, PassProgress, OwnPassesOnly, LiveIsHeard,
                    SamePlatforms
<1>7. IdleIsSettled'
  <2> SUFFICES ASSUME LiveIsHeard, wake'[nameOf[Alive]] = "none",
                      NEW o \in ObjectsOf(nameOf[Alive])
               PROVE  owner[o] = Alive
    BY <1>1, <1>2 DEF IdleIsSettled, SamePlatforms
  <2>1. pass = Alive
    <3>1. pass # Alive => wake[nameOf[Alive]] = "due"
      BY <1>1 DEF StalePassIsFollowed
    <3>2. QED
      BY <1>1, <1>3, <3>1, RequeuedFacts
  <2>2. PICK k \in Kinds : o = Target(k)
    BY <1>1, <2>1, Targets DEF PassName
  <2>3. QED
    BY <1>1, <2>1, <2>2 DEF PassProgress
<1>8. QED
  BY <1>4, <1>5, <1>6, <1>7

-----------------------------------------------------------------------------
(* The steps of the manager and of the cluster *)

(***************************************************************************)
(* The event that completes what was heard makes the live platform's name  *)
(* due.                                                                    *)
(***************************************************************************)
LEMMA DeliverPlatformStep == Inductive /\ DeliverPlatform => Inductive'
<1> SUFFICES ASSUME Inductive, DeliverPlatform PROVE Inductive'
  OBVIOUS
<1> USE DEF Inductive
<1> DEFINE u == (heard + 2) \div 2
<1>1. /\ heard < changes /\ heard' = heard + 1
      /\ wake' = [wake EXCEPT ![nameOf[u]] = "due"]
      /\ UNCHANGED <<nameOf, changes, owner, ownerCache, lagging, pass, todo, faults>>
  BY DEF DeliverPlatform
<1>2. changes \in Nat /\ heard \in Nat
  BY Platforms
<1>3. Alive' = Alive
  BY <1>1 DEF Alive, UidAfter
<1>4. LastHeard' = u /\ LastHeard <= u /\ u <= Len(nameOf) /\ u > 0
  BY <1>1, <1>2, HalvesGrow DEF LastHeard, TypeOK
<1>5. LiveIsHeard' => u = Alive
  <2>1. LiveIsHeard' => UidAfter(changes) > 0 /\ changes = heard + 1
    BY <1>1, <1>3 DEF LiveIsHeard, Alive
  <2>2. UidAfter(changes) > 0 => UidAfter(changes) = (changes + 1) \div 2
    BY <1>2, Halves
  <2>3. (heard + 1) + 1 = heard + 2
    BY <1>2
  <2>4. QED
    BY <2>1, <2>2, <2>3 DEF Alive
<1> HIDE DEF u
<1>6. u \in 1..Len(nameOf) /\ nameOf[u] \in PlatformNames
  <2>1. u \in Nat
    BY <1>2, Halves DEF u
  <2>2. QED
    BY <1>4, <2>1, Platforms
<1>7. wake'[nameOf[u]] = "due"
  BY <1>1, <1>6 DEF TypeOK
<1>8. TypeOK'
  <2>1. heard' \in 0..changes
    BY <1>1, <1>2
  <2>2. wake' \in [PlatformNames -> {"none", "delayed", "due"}]
    BY <1>1 DEF TypeOK
  <2>3. QED
    BY <1>1, <2>1, <2>2 DEF TypeOK
<1>9. OwnersAreHeard'
  <2>1. LastHeard \in Nat /\ u \in Nat /\ pass \in Nat
    BY <1>6, Platforms DEF TypeOK
  <2>2. ASSUME NEW o \in Dependents PROVE owner[o] \in Nat
    BY DEF TypeOK
  <2>3. QED
    BY <1>1, <1>4, <2>1, <2>2 DEF OwnersAreHeard
<1>10. StalePassIsFollowed' /\ IdleIsSettled'
  BY <1>1, <1>3, <1>5, <1>7 DEF StalePassIsFollowed, IdleIsSettled
<1>11. Alive > 0 => pass # Alive /\ \A o \in Dependents : owner[o] # Alive
  <2>1. Alive > 0 => ~(Alive <= LastHeard)
    BY <1>1, <1>2, HeardOfLive
  <2>2. QED
    BY <2>1 DEF OwnersAreHeard
<1>12. PassProgress' /\ OwnPassesOnly'
  BY <1>1, <1>3, <1>11 DEF PassProgress, OwnPassesOnly, LiveIsHeard
<1>13. QED
  BY <1>8, <1>9, <1>10, <1>12

(***************************************************************************)
(* An event of an object, and a timer, only make names due.                *)
(***************************************************************************)
LEMMA WakeStep ==
    ASSUME Inductive, SamePlatforms, UNCHANGED <<owner, pass, todo, faults>>,
           ownerCache' \in [Dependents -> 0..MaxPlatforms], lagging' \subseteq Dependents,
           wake' \in [PlatformNames -> {"none", "delayed", "due"}],
           \A name \in PlatformNames : wake'[name] \in {wake[name], "due"}
    PROVE  Inductive'
<1> USE DEF Inductive
<1>1. Alive' = Alive /\ LastHeard' = LastHeard /\ LiveIsHeard' = LiveIsHeard
  BY SameFacts
<1>2. LiveIsHeard => nameOf[Alive] \in PlatformNames
  BY Platforms DEF LiveIsHeard
<1>3. TypeOK'
  BY DEF TypeOK, SamePlatforms
<1>4. OwnersAreHeard' /\ OwnPassesOnly'
  BY <1>1 DEF OwnersAreHeard, OwnPassesOnly, SamePlatforms
<1>5. StalePassIsFollowed' /\ IdleIsSettled'
  BY <1>1, <1>2 DEF StalePassIsFollowed, IdleIsSettled, SamePlatforms
<1>6. PassProgress'
  BY <1>1 DEF PassProgress, Target, PassName, SamePlatforms
<1>7. QED
  BY <1>3, <1>4, <1>5, <1>6

LEMMA EventSteps ==
    /\ \A o \in Dependents : Inductive /\ DeliverObject(o) => Inductive'
    /\ \A name \in PlatformNames : Inductive /\ TimerFires(name) => Inductive'
<1>1. ASSUME NEW o \in Dependents, Inductive, DeliverObject(o) PROVE Inductive'
  <2>1. /\ ownerCache' \in [Dependents -> 0..MaxPlatforms] /\ lagging' \subseteq Dependents
        /\ wake' \in [PlatformNames -> {"none", "delayed", "due"}]
        /\ \A name \in PlatformNames : wake'[name] \in {wake[name], "due"}
    BY <1>1 DEF DeliverObject, Inductive, TypeOK
  <2>2. SamePlatforms /\ UNCHANGED <<owner, pass, todo, faults>>
    BY <1>1 DEF DeliverObject, SamePlatforms
  <2>3. QED
    BY <1>1, <2>1, <2>2, WakeStep
<1>2. ASSUME NEW name \in PlatformNames, Inductive, TimerFires(name) PROVE Inductive'
  <2>1. /\ ownerCache' \in [Dependents -> 0..MaxPlatforms] /\ lagging' \subseteq Dependents
        /\ wake' \in [PlatformNames -> {"none", "delayed", "due"}]
        /\ \A other \in PlatformNames : wake'[other] \in {wake[other], "due"}
    BY <1>2 DEF TimerFires, Inductive, TypeOK
  <2>2. SamePlatforms /\ UNCHANGED <<owner, pass, todo, faults>>
    BY <1>2 DEF TimerFires, SamePlatforms
  <2>3. QED
    BY <1>2, <2>1, <2>2, WakeStep
<1>3. QED
  BY <1>1, <1>2

LEMMA RestartStep == Inductive /\ Restart => Inductive'
<1> SUFFICES ASSUME Inductive, Restart PROVE Inductive'
  OBVIOUS
<1> USE DEF Inductive
<1>1. /\ heard' = changes /\ ownerCache' = owner /\ lagging' = {}
      /\ wake' = [name \in PlatformNames |->
                     IF Alive > 0 /\ nameOf[Alive] = name THEN "due" ELSE "none"]
      /\ pass' = 0 /\ todo' = {} /\ faults' \subseteq Faults
      /\ UNCHANGED <<nameOf, changes, owner>>
  BY DEF Restart, Fault, TypeOK
<1>2. Alive' = Alive
  BY <1>1 DEF Alive, UidAfter
<1>3. changes \in Nat /\ heard \in Nat /\ heard <= changes
  BY Platforms
<1>4. LastHeard' \in Nat /\ LastHeard <= LastHeard' /\ LastHeard \in Nat
  BY <1>1, <1>3, Halves, HalvesGrow DEF LastHeard
<1>5. TypeOK'
  BY <1>1, <1>3, BoundsAssumption DEF TypeOK
<1>6. OwnersAreHeard'
  <2>1. ASSUME NEW o \in Dependents PROVE owner[o] \in Nat
    BY DEF TypeOK
  <2>2. QED
    BY <1>1, <1>4, <2>1 DEF OwnersAreHeard
<1>7. Alive > 0 => wake'[nameOf[Alive]] = "due"
  BY <1>1, Platforms
<1>8. /\ StalePassIsFollowed' /\ PassProgress' /\ IdleIsSettled' /\ OwnPassesOnly'
  BY <1>1, <1>2, <1>7
     DEF StalePassIsFollowed, PassProgress, IdleIsSettled, OwnPassesOnly, LiveIsHeard
<1>9. QED
  BY <1>5, <1>6, <1>8

(***************************************************************************)
(* A platform that was just created has not been heard of, and owns        *)
(* nothing yet.                                                            *)
(***************************************************************************)
LEMMA CreatePlatformStep ==
    ASSUME NEW name \in PlatformNames
    PROVE  Inductive /\ CreatePlatform(name) => Inductive'
<1> SUFFICES ASSUME Inductive, CreatePlatform(name) PROVE Inductive'
  OBVIOUS
<1> USE DEF Inductive
<1>1. /\ Alive = 0 /\ Len(nameOf) < MaxPlatforms
      /\ nameOf' = Append(nameOf, name) /\ changes' = changes + 1
      /\ UNCHANGED <<heard, owner, ownerCache, lagging, wake, pass, todo, faults>>
  BY DEF CreatePlatform, controllerVars
<1>2. changes \in Nat /\ heard \in Nat /\ heard <= changes /\ MaxPlatforms \in Nat
  BY Platforms
<1>3. Alive' = UidAfter(changes + 1)
  BY <1>1 DEF Alive, UidAfter
<1>4. /\ changes = 2 * Len(nameOf) /\ Alive' = Len(nameOf) + 1
      /\ (changes + 2) \div 2 = Len(nameOf) + 1
  <2>1. UidAfter(changes) = 0
    BY <1>1 DEF Alive
  <2>2. (changes + 1) \div 2 = Len(nameOf)
    BY DEF TypeOK
  <2>3. /\ UidAfter(changes + 1) = (changes + 2) \div 2
        /\ UidAfter(changes + 1) = (changes + 1) \div 2 + 1
        /\ changes = 2 * ((changes + 1) \div 2)
    BY <1>2, <2>1, Halves
  <2>4. QED
    BY <1>3, <2>2, <2>3
<1>5. nameOf' \in Seq(PlatformNames) /\ Len(nameOf') = Len(nameOf) + 1
  BY <1>1 DEF TypeOK
<1>6. TypeOK'
  <2>1. (changes' + 1) \div 2 = Len(nameOf')
    BY <1>1, <1>2, <1>4, <1>5
  <2>2. changes' \in 0..(2 * MaxPlatforms) /\ heard' \in 0..changes'
    BY <1>1, <1>2, <1>4, Platforms
  <2>3. QED
    BY <1>1, <1>5, <2>1, <2>2 DEF TypeOK
<1>7. OwnersAreHeard'
  BY <1>1 DEF OwnersAreHeard, LastHeard
<1>8. heard' # changes' /\ ~LiveIsHeard'
  BY <1>1, <1>2 DEF LiveIsHeard
<1>9. \A o \in Dependents : owner[o] # Alive'
  <2>1. LastHeard <= Len(nameOf) /\ LastHeard \in Nat /\ Len(nameOf) \in Nat
    BY Platforms
  <2>2. QED
    BY <1>4, <2>1 DEF OwnersAreHeard, TypeOK
<1>10. /\ StalePassIsFollowed' /\ PassProgress' /\ IdleIsSettled' /\ OwnPassesOnly'
  BY <1>1, <1>8, <1>9
     DEF StalePassIsFollowed, PassProgress, IdleIsSettled, OwnPassesOnly
<1>11. QED
  BY <1>6, <1>7, <1>10

LEMMA DeletePlatformStep == Inductive /\ DeletePlatform => Inductive'
<1> SUFFICES ASSUME Inductive, DeletePlatform PROVE Inductive'
  OBVIOUS
<1> USE DEF Inductive
<1>1. /\ Alive > 0 /\ changes' = changes + 1
      /\ UNCHANGED <<nameOf, heard, owner, ownerCache, lagging, wake, pass, todo, faults>>
  BY DEF DeletePlatform, controllerVars
<1>2. changes \in Nat /\ heard \in Nat /\ heard <= changes /\ MaxPlatforms \in Nat
  BY Platforms
<1>3. Alive' = UidAfter(changes + 1)
  BY <1>1 DEF Alive, UidAfter
<1>4. Alive' = 0 /\ changes = 2 * Alive - 1 /\ (changes + 2) \div 2 = Alive
  BY <1>1, <1>2, <1>3, Halves DEF Alive
<1>5. Alive = Len(nameOf) /\ Len(nameOf) <= MaxPlatforms
  BY <1>1, Platforms
<1>6. TypeOK'
  <2>1. (changes' + 1) \div 2 = Len(nameOf)
    BY <1>1, <1>2, <1>4, <1>5
  <2>2. changes' \in 0..(2 * MaxPlatforms) /\ heard' \in 0..changes'
    BY <1>1, <1>2, <1>4, <1>5, Platforms
  <2>3. QED
    BY <1>1, <2>1, <2>2 DEF TypeOK
<1>7. OwnersAreHeard'
  BY <1>1 DEF OwnersAreHeard, LastHeard
<1>8. /\ StalePassIsFollowed' /\ PassProgress' /\ IdleIsSettled' /\ OwnPassesOnly'
  BY <1>1, <1>4
     DEF StalePassIsFollowed, PassProgress, IdleIsSettled, OwnPassesOnly, LiveIsHeard
<1>9. QED
  BY <1>6, <1>7, <1>8

LEMMA CollectFacts ==
    ASSUME TypeOK, NEW o \in Dependents, Collect(o)
    PROVE  /\ owner' \in [Dependents -> 0..MaxPlatforms] /\ lagging' \subseteq Dependents
           /\ owner[o] # Alive
           /\ \A q \in Dependents :
                 owner'[q] = owner[q] \/ (owner[q] # Alive /\ owner'[q] = 0)
           /\ SamePlatforms /\ UNCHANGED <<ownerCache, wake, pass, todo, faults>>
<1>1. owner \in [Dependents -> 0..MaxPlatforms] /\ 0 \in 0..MaxPlatforms
  BY BoundsAssumption DEF TypeOK
<1>2. owner' = [owner EXCEPT ![o] = 0] /\ lagging' = lagging \cup {o} /\ owner[o] # Alive
  BY DEF Collect, Stored
<1>3. owner' \in [Dependents -> 0..MaxPlatforms] /\ lagging' \subseteq Dependents
  BY <1>1, <1>2 DEF TypeOK
<1>4. \A q \in Dependents :
          owner'[q] = owner[q] \/ (owner[q] # Alive /\ owner'[q] = 0)
  BY <1>1, <1>2
<1>5. QED
  BY <1>2, <1>3, <1>4 DEF Collect, SamePlatforms, controllerVars

(***************************************************************************)
(* The garbage collector takes nothing that the live platform owns.        *)
(***************************************************************************)
LEMMA CollectStep ==
    ASSUME NEW o \in Dependents PROVE Inductive /\ Collect(o) => Inductive'
<1> SUFFICES ASSUME Inductive, Collect(o) PROVE Inductive'
  OBVIOUS
<1> USE DEF Inductive
<1>1. /\ owner' \in [Dependents -> 0..MaxPlatforms] /\ lagging' \subseteq Dependents
      /\ \A q \in Dependents :
            owner'[q] = owner[q] \/ (owner[q] # Alive /\ owner'[q] = 0)
      /\ SamePlatforms /\ UNCHANGED <<ownerCache, wake, pass, todo, faults>>
  BY CollectFacts
<1>2. Alive' = Alive /\ LastHeard' = LastHeard /\ LiveIsHeard' = LiveIsHeard
  BY <1>1, SameFacts
<1>3. TypeOK'
  BY <1>1 DEF TypeOK, SamePlatforms
<1>4. OwnersAreHeard'
  BY <1>1, <1>2, Platforms DEF OwnersAreHeard
<1>5. OwnPassesOnly'
  BY <1>1, <1>2 DEF OwnPassesOnly, SamePlatforms
<1>6. StalePassIsFollowed'
  BY <1>1, <1>2 DEF StalePassIsFollowed, SamePlatforms
<1>7. PassProgress'
  <2> SUFFICES ASSUME LiveIsHeard, pass = Alive, NEW k \in Kinds \ todo
               PROVE  owner'[Target(k)] = Alive
    BY <1>1, <1>2 DEF PassProgress, Target, PassName, SamePlatforms
  <2>1. owner[Target(k)] = Alive /\ Target(k) \in Dependents
    BY Targets DEF PassProgress, LiveIsHeard
  <2>2. QED
    BY <1>1, <2>1
<1>8. IdleIsSettled'
  <2> SUFFICES ASSUME LiveIsHeard, pass = 0, wake[nameOf[Alive]] = "none",
                      NEW q \in ObjectsOf(nameOf[Alive])
               PROVE  owner'[q] = Alive
    BY <1>1, <1>2 DEF IdleIsSettled, SamePlatforms
  <2>1. owner[q] = Alive
    BY DEF IdleIsSettled
  <2>2. q \in Dependents
    BY Platforms DEF Dependents, LiveIsHeard
  <2>3. QED
    BY <1>1, <2>1, <2>2
<1>9. QED
  BY <1>3, <1>4, <1>5, <1>6, <1>7, <1>8

LEMMA InductiveStep == Inductive /\ [Next]_vars => Inductive'
<1> SUFFICES ASSUME Inductive, [Next]_vars PROVE Inductive'
  OBVIOUS
<1>1. CASE Reconcile
  BY <1>1, BeginStep, ApplyStep, ApplyRefusedStep, ApplyFailsStep, FinishStep
     DEF Reconcile
<1>2. CASE Manager
  BY <1>2, DeliverPlatformStep, EventSteps, RestartStep DEF Manager
<1>3. CASE Cluster
  BY <1>3, CreatePlatformStep, DeletePlatformStep, CollectStep DEF Cluster
<1>4. CASE UNCHANGED vars
  <2>1. /\ SamePlatforms /\ UNCHANGED <<owner, ownerCache, lagging, wake, pass, todo, faults>>
    BY <1>4 DEF vars, SamePlatforms
  <2>2. TypeOK
    BY DEF Inductive
  <2>3. QED
    BY <2>1, <2>2, WakeStep DEF TypeOK
<1>5. QED
  BY <1>1, <1>2, <1>3, <1>4 DEF Next

-----------------------------------------------------------------------------
(* The theorems *)

(***************************************************************************)
(* The inductive invariant holds in every reachable state.                 *)
(***************************************************************************)
THEOREM InvariantHolds == Spec => []Inductive
BY InitInductive, InductiveStep, PTL DEF Spec

(***************************************************************************)
(* Once the controller is at rest, the platform that exists owns every     *)
(* object it calls for, whatever passes for earlier platforms, conflicts,  *)
(* lost answers, restarts and collections came between.                    *)
(***************************************************************************)
THEOREM NothingIsLeftBehind == Spec => []NothingLeftToCollect
<1>1. Inductive => NothingLeftToCollect
  <2> SUFFICES ASSUME Inductive, Quiescent, Alive > 0,
                      NEW o \in ObjectsOf(nameOf[Alive])
               PROVE  owner[o] = Alive
    BY DEF NothingLeftToCollect
  <2>1. nameOf[Alive] \in PlatformNames
    BY Platforms DEF Inductive
  <2>2. QED
    BY <2>1 DEF Quiescent, Inductive, IdleIsSettled, LiveIsHeard
<1>2. QED
  BY <1>1, InvariantHolds, PTL

(***************************************************************************)
(* Neither a pass that outlives its platform nor the garbage collector     *)
(* takes from the live platform what one of its own passes has given it.   *)
(***************************************************************************)
THEOREM NobodyTakesObjects == Spec => LivePlatformKeepsObjects
<1>1. ASSUME Inductive, [Next]_vars, NEW o \in Dependents,
             owner[o] > 0, owner[o] = Alive, Alive' = Alive
      PROVE  owner'[o] = Alive
  <2>1. TypeOK /\ OwnersAreHeard /\ pass \in {0, Alive}
    BY <1>1 DEF Inductive, OwnPassesOnly
  <2>2. ASSUME NEW k \in Kinds, WriteObject(k), pass > 0 PROVE owner'[o] = Alive
    BY <1>1, <2>1, <2>2, WriteFacts
  <2>3. ASSUME NEW q \in Dependents, Collect(q) PROVE owner'[o] = Alive
    BY <1>1, <2>1, <2>3, CollectFacts
  <2>4. CASE Reconcile
    BY <1>1, <2>2, <2>4
       DEF Reconcile, Begin, Apply, ApplyRefused, ApplyFails, Applying, Finish
  <2>5. CASE Manager
    BY <1>1, <2>5 DEF Manager, DeliverPlatform, DeliverObject, TimerFires, Restart
  <2>6. CASE Cluster
    BY <1>1, <2>3, <2>6 DEF Cluster, CreatePlatform, DeletePlatform
  <2>7. CASE UNCHANGED vars
    BY <1>1, <2>7 DEF vars
  <2>8. QED
    BY <1>1, <2>4, <2>5, <2>6, <2>7 DEF Next
<1>2. Inductive /\ [Next]_vars =>
          [\A o \in Dependents :
              owner[o] > 0 /\ owner[o] = Alive /\ Alive' = Alive => owner'[o] = Alive]_vars
  BY <1>1
<1>3. QED
  BY <1>2, InvariantHolds, PTL DEF Spec, LivePlatformKeepsObjects

=============================================================================
