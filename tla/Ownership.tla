----------------------------- MODULE Ownership -----------------------------
(***************************************************************************)
(* Platforms that are deleted and created again, under the same name or    *)
(* another, one at a time in a namespace; the objects that carry an owner  *)
(* reference to them; and the garbage collector, which deletes what a      *)
(* platform that is gone owned, while the umbrella controller is already   *)
(* applying the same objects for the next platform.                        *)
(*                                                                         *)
(* Every platform has a uid, counting from 1.  applyObject gives the       *)
(* object it sends an owner reference to the platform its pass has read,   *)
(* and an Update replaces the reference the object had.  The objects of    *)
(* the collector have fixed names, so the next platform meets those of the *)
(* last one whatever it is called.  Reconcile neither looks at the         *)
(* deletion of a platform nor deletes an object.                           *)
(***************************************************************************)
EXTENDS Components, FiniteSets

CONSTANTS
    PlatformNames,  \* the names platforms may have
    Kinds,          \* the objects of a pass that are followed
    Faults,         \* the kinds of fault that may happen
    MaxPlatforms,   \* bound: platforms ever created
    MaxFaults       \* bound: kinds of fault in a behaviour

FaultKinds == {"apply", "reply", "crash"}
AllKinds == {"TelemetryEnv", "CollectorConfig", "Collector", "CollectorService", "Child"}

ASSUME KindsAssumption == Kinds \subseteq AllKinds
ASSUME FaultsAssumption == Faults \subseteq FaultKinds
ASSUME BoundsAssumption == MaxPlatforms \in Nat /\ MaxFaults \in Nat

\* What a pass applies, in the order of the source, for a platform with a
\* collector and one component.  The watch of a component custom resource is
\* the only one, and the selector of a Deployment cannot be changed.
Order == <<"TelemetryEnv", "CollectorConfig", "Collector", "CollectorService", "Child">>
FixedNames == {"CollectorConfig", "Collector", "CollectorService"}
WithSelector == {"Collector"}
Watched == {"Child"}

\* The name an object has for a platform of this name: all collectors have
\* the same.
NameFor(k, name) == IF k \in FixedNames THEN "zelos-otel-collector" ELSE name
ObjectsOf(name) == {<<k, NameFor(k, name)>> : k \in Kinds}
Dependents == UNION {ObjectsOf(name) : name \in PlatformNames}

VARIABLES
    nameOf,     \* the names of the platforms so far, by uid
    changes,    \* creations and deletions of platforms, which alternate
    heard,      \* those the informer has delivered
    owner,      \* the owner of each object, 0 if it does not exist
    ownerCache, \* the same in the informers' caches
    lagging,    \* the objects whose cached resource version is not current
    wake,       \* the work queue: none, delayed or due, by platform name
    pass,       \* the uid of the platform that is being reconciled, or 0
    todo,       \* what the pass has yet to apply
    faults      \* the kinds of fault that have happened

vars == <<nameOf, changes, heard, owner, ownerCache, lagging, wake, pass, todo, faults>>
controllerVars == <<wake, pass, todo>>

\* The uid of the platform after so many creations and deletions, or 0.
UidAfter(n) == IF n % 2 = 1 THEN (n + 1) \div 2 ELSE 0
Alive == UidAfter(changes)

\* Mutant of Cached: the last platform of the name that was heard of, deleted
\* or not.
CachedOnceCreated(name) ==
    LET Known == {u \in DOMAIN nameOf : u <= (heard + 1) \div 2 /\ nameOf[u] = name}
    IN  IF Known = {} THEN 0 ELSE CHOOSE u \in Known : \A v \in Known : v <= u

\* What the cache has for a name: the uid of the platform, or 0.
Cached(name) ==
    LET u == UidAfter(heard) IN IF u > 0 /\ nameOf[u] = name THEN u ELSE 0

TypeOK ==
    /\ nameOf \in Seq(PlatformNames)
    /\ changes \in 0..(2 * MaxPlatforms) /\ heard \in 0..changes
    /\ Len(nameOf) = (changes + 1) \div 2
    /\ owner \in [Dependents -> 0..MaxPlatforms]
    /\ ownerCache \in [Dependents -> 0..MaxPlatforms]
    /\ lagging \subseteq Dependents
    /\ wake \in [PlatformNames -> {"none", "delayed", "due"}]
    /\ pass \in 0..MaxPlatforms
    /\ todo \subseteq Kinds /\ (pass = 0 => todo = {})
    /\ faults \subseteq Faults

Init ==
    /\ nameOf = <<>>
    /\ changes = 0
    /\ heard = 0
    /\ owner = [o \in Dependents |-> 0]
    /\ ownerCache = owner
    /\ lagging = {}
    /\ wake = [name \in PlatformNames |-> "none"]
    /\ pass = 0
    /\ todo = {}
    /\ faults = {}

-----------------------------------------------------------------------------
(* The controller *)

Fault(f) ==
    /\ f \in Faults \ faults
    /\ Cardinality(faults) < MaxFaults
    /\ faults' = faults \cup {f}

PassName == nameOf[pass]
Target(k) == <<k, NameFor(k, PassName)>>

\* The entry of a name keeps the earliest time it was given.
Requeued(name) == [wake EXCEPT ![name] = IF @ = "due" THEN "due" ELSE "delayed"]

Fail ==
    /\ pass' = 0
    /\ todo' = {}
    /\ wake' = Requeued(PassName)

Applying(k) ==
    /\ pass > 0
    /\ k \in todo
    /\ \A j \in todo \ {k} : Precedes(Order, k, j)

\* A Create is taken if there is no object, an Update if the cached version
\* is current; the Deployment of a platform with another name has another
\* selector, and refuses it.
Taken(k) ==
    IF ownerCache[Target(k)] = 0 THEN owner[Target(k)] = 0
    ELSE /\ Target(k) \notin lagging
         /\ k \in WithSelector => nameOf[owner[Target(k)]] = PassName

\* The server's copy of o changes, and gets a version no cache has.
Stored(o, uid) ==
    /\ owner' = [owner EXCEPT ![o] = uid]
    /\ lagging' = lagging \cup {o}

\* Mutant of WriteObject: an object whose spec is right is left as it is,
\* whoever owns it.
WriteObjectUnlessThere(k) ==
    IF owner[Target(k)] # 0 THEN UNCHANGED <<owner, lagging>>
    ELSE Stored(Target(k), pass)

\* The object is the pass's platform's from now on.
WriteObject(k) ==
    IF owner[Target(k)] = pass THEN UNCHANGED <<owner, lagging>>
    ELSE Stored(Target(k), pass)

\* The one worker takes a name; a platform that is not found is done with.
Begin(name) ==
    /\ pass = 0
    /\ wake[name] = "due"
    /\ wake' = [wake EXCEPT ![name] = "none"]
    /\ pass' = Cached(name)
    /\ todo' = IF Cached(name) > 0 THEN Kinds ELSE {}
    /\ UNCHANGED <<nameOf, changes, heard, owner, ownerCache, lagging, faults>>

Apply(k) ==
    /\ Applying(k)
    /\ Taken(k)
    /\ WriteObject(k)
    /\ todo' = todo \ {k}
    /\ UNCHANGED <<nameOf, changes, heard, ownerCache, wake, pass, faults>>

\* Mutant of ApplyRefused: an error is not returned.
ApplyRefusedIgnored(k) ==
    /\ Applying(k)
    /\ ~Taken(k)
    /\ todo' = todo \ {k}
    /\ UNCHANGED <<nameOf, changes, heard, owner, ownerCache, lagging, wake, pass, faults>>

\* AlreadyExists, NotFound, Conflict, or Invalid for a changed selector.
ApplyRefused(k) ==
    /\ Applying(k)
    /\ ~Taken(k)
    /\ Fail
    /\ UNCHANGED <<nameOf, changes, heard, owner, ownerCache, lagging, faults>>

ApplyFails(k) ==
    /\ Applying(k)
    /\ \/ Fault("apply") /\ UNCHANGED <<owner, lagging>>
       \/ Fault("reply") /\ Taken(k) /\ WriteObject(k)
    /\ Fail
    /\ UNCHANGED <<nameOf, changes, heard, ownerCache>>

\* The end of a pass: requeued if anything is not Ready, forgotten if all is.
Finish ==
    /\ pass > 0
    /\ todo = {}
    /\ pass' = 0
    /\ wake' \in {wake, Requeued(PassName)}
    /\ UNCHANGED <<nameOf, changes, heard, owner, ownerCache, lagging, todo, faults>>

Reconcile ==
    \/ \E name \in PlatformNames : Begin(name)
    \/ \E k \in Kinds : Apply(k) \/ ApplyRefused(k) \/ ApplyFails(k)
    \/ Finish

-----------------------------------------------------------------------------
(* The manager: caches, queue, restarts *)

\* The informer delivers creations and deletions one by one; both put the
\* platform's name on the queue.
DeliverPlatform ==
    /\ heard < changes
    /\ heard' = heard + 1
    /\ wake' = [wake EXCEPT ![nameOf[(heard + 2) \div 2]] = "due"]
    /\ UNCHANGED <<nameOf, changes, owner, ownerCache, lagging, pass, todo, faults>>

\* An event of a component custom resource wakes its owner's name; events of
\* the other objects reach the cache only.
DeliverObject(o) ==
    /\ o \in lagging
    /\ ownerCache' = [ownerCache EXCEPT ![o] = owner[o]]
    /\ lagging' = lagging \ {o}
    /\ wake' = IF o[1] \in Watched THEN [wake EXCEPT ![o[2]] = "due"] ELSE wake
    /\ UNCHANGED <<nameOf, changes, heard, owner, pass, todo, faults>>

TimerFires(name) ==
    /\ wake[name] = "delayed"
    /\ wake' = [wake EXCEPT ![name] = "due"]
    /\ UNCHANGED <<nameOf, changes, heard, owner, ownerCache, lagging, pass, todo, faults>>

\* The new manager lists the platform that is alive, and the objects.
Restart ==
    /\ Fault("crash")
    /\ heard' = changes
    /\ ownerCache' = owner
    /\ lagging' = {}
    /\ wake' = [name \in PlatformNames |->
                    IF Alive > 0 /\ nameOf[Alive] = name THEN "due" ELSE "none"]
    /\ pass' = 0
    /\ todo' = {}
    /\ UNCHANGED <<nameOf, changes, owner>>

-----------------------------------------------------------------------------
(* The rest of the cluster *)

\* One platform at a time ("Apply one ZelosPlatform per environment").
CreatePlatform(name) ==
    /\ Alive = 0
    /\ Len(nameOf) < MaxPlatforms
    /\ nameOf' = Append(nameOf, name)
    /\ changes' = changes + 1
    /\ UNCHANGED <<heard, owner, ownerCache, lagging, controllerVars, faults>>

DeletePlatform ==
    /\ Alive > 0
    /\ changes' = changes + 1
    /\ UNCHANGED <<nameOf, heard, owner, ownerCache, lagging, controllerVars, faults>>

\* The garbage collector deletes an object whose owner is gone, if it still is
\* the object it has judged.
Collect(o) ==
    /\ owner[o] \notin {0, Alive}
    /\ Stored(o, 0)
    /\ UNCHANGED <<nameOf, changes, heard, ownerCache, controllerVars, faults>>

Manager ==
    \/ DeliverPlatform
    \/ \E o \in Dependents : DeliverObject(o)
    \/ \E name \in PlatformNames : TimerFires(name)
    \/ Restart

Cluster ==
    \/ \E name \in PlatformNames : CreatePlatform(name)
    \/ DeletePlatform
    \/ \E o \in Dependents : Collect(o)

Next == Reconcile \/ Manager \/ Cluster

Spec == Init /\ [][Next]_vars

\* The worker, the watches, the timers and the garbage collector keep going.
Fairness ==
    /\ WF_vars(Reconcile)
    /\ WF_vars(DeliverPlatform)
    /\ \A o \in Dependents : WF_vars(DeliverObject(o))
    /\ \A name \in PlatformNames : WF_vars(TimerFires(name))
    /\ \A o \in Dependents : WF_vars(Collect(o))

FairSpec == Spec /\ Fairness

-----------------------------------------------------------------------------
(* Correctness *)

\* Nothing will run Reconcile again.
Quiescent ==
    /\ pass = 0
    /\ \A name \in PlatformNames : wake[name] = "none"
    /\ heard = changes
    /\ \A o \in Dependents : o \in lagging => o[1] \notin Watched

\* Once the controller is at rest, a platform that exists owns every object it
\* calls for: none of those nobody watches is left to an earlier platform,
\* whose garbage it would become unnoticed.
NothingLeftToCollect ==
    Quiescent /\ Alive > 0 => \A o \in ObjectsOf(nameOf[Alive]) : owner[o] = Alive

\* What the live platform has been given is not taken from it: a pass for an
\* earlier platform, which Reconcile goes on with after the deletion, is over
\* before the live one's first pass begins, also across retries and restarts.
LivePlatformKeepsObjects ==
    [][\A o \in Dependents :
          owner[o] > 0 /\ owner[o] = Alive /\ Alive' = Alive => owner'[o] = Alive]_vars

\* If platforms stop coming and going, the one that exists gets all its
\* objects and nothing else stays: a pass that still runs for a platform that
\* is gone, and the objects it creates, do not outlive it.
Converges ==
    <>[](\A o \in Dependents :
            owner[o] = IF Alive > 0 /\ o \in ObjectsOf(nameOf[Alive])
                           THEN Alive ELSE 0)

-----------------------------------------------------------------------------
(* The invariant of the proofs *)

\* The last platform whose creation was delivered.
LastHeard == (heard + 1) \div 2

\* The informer has delivered every event, and there is a platform.
LiveIsHeard == Alive > 0 /\ heard = changes

\* A pass, and the owner of an object, is a platform that was heard of.
OwnersAreHeard == pass <= LastHeard /\ \A o \in Dependents : owner[o] <= LastHeard

\* While a pass for an earlier platform goes on, the live one's key is due.
StalePassIsFollowed ==
    LiveIsHeard /\ pass \notin {0, Alive} => wake[nameOf[Alive]] = "due"

\* A pass for the live platform has given it the objects it has passed.
PassProgress ==
    LiveIsHeard /\ pass = Alive => \A k \in Kinds \ todo : owner[Target(k)] = Alive

\* A live platform that nothing will reconcile has got its objects.
IdleIsSettled ==
    LiveIsHeard /\ pass = 0 /\ wake[nameOf[Alive]] = "none" =>
        \A o \in ObjectsOf(nameOf[Alive]) : owner[o] = Alive

\* The live platform's objects were given by its own passes, and by the time
\* of the first of these no other is running.
OwnPassesOnly ==
    \A o \in Dependents :
        owner[o] > 0 /\ owner[o] = Alive => heard = changes /\ pass \in {0, Alive}

\* The inductive invariant of ownership: the cluster's platforms, what the
\* informer has heard of them, the queue, the one running pass and the owner
\* references are in step in every reachable state.
Inductive ==
    /\ TypeOK /\ OwnersAreHeard /\ StalePassIsFollowed /\ PassProgress
    /\ IdleIsSettled /\ OwnPassesOnly

=============================================================================
