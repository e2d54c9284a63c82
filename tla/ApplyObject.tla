---------------------------- MODULE ApplyObject ----------------------------
(***************************************************************************)
(* Objects of the API server and the one write path of the operator,       *)
(* applyObject of internal/controller/util.go.                             *)
(*                                                                         *)
(* An object is what the operator can tell apart of it: its resource       *)
(* version, the generation of the owning custom resource it was rendered   *)
(* from (which stands for its whole spec), the replicas it asks for, the   *)
(* available ones, how many of those are of an earlier pod template, and   *)
(* whether the API server has sealed its spec (a bound                     *)
(* PersistentVolumeClaim).  Resource version 0 is an object that does not  *)
(* exist.                                                                  *)
(***************************************************************************)
EXTENDS Naturals

Objects == [rv: Nat, gen: Nat, desired: Nat, avail: Nat, old: Nat, bound: BOOLEAN]

NoObject ==
    [rv |-> 0, gen |-> 0, desired |-> 0, avail |-> 0, old |-> 0, bound |-> FALSE]

Exists(o) == o.rv > 0

(***************************************************************************)
(* applyObject reads the cached copy c and then creates the object (the    *)
(* cache has none) or updates it under c's resource version.  The server,  *)
(* which holds o, takes the call when the cache was right: a Create of an  *)
(* object that exists is AlreadyExists, an Update under an old version is  *)
(* a Conflict.  It refuses any Update of a sealed spec, since the rendered *)
(* object never carries what the server has filled in.                     *)
(***************************************************************************)
\* Mutant of Accepted: the object is written without the version read.
AcceptedBlindly(c, o) == ~o.bound

Accepted(c, o) == c.rv = o.rv /\ ~o.bound

(***************************************************************************)
(* The object once the call is taken.  An Update that changes nothing      *)
(* leaves the version alone and raises no watch event.  One that takes     *)
(* away what the cluster has added does raise the version; the cluster's   *)
(* own writes, which may come at any moment, stand for that.               *)
(***************************************************************************)
Applied(o, gen, desired, old) ==
    IF Exists(o) /\ o.gen = gen /\ o.desired = desired
    THEN o
    ELSE [rv |-> o.rv + 1, gen |-> gen, desired |-> desired,
          avail |-> o.avail, old |-> old, bound |-> o.bound]

\* The cluster reports on a workload, or seals the spec of an object.
WithStatus(o, desired, avail, old) ==
    [rv |-> o.rv + 1, gen |-> o.gen, desired |-> desired, avail |-> avail,
     old |-> old, bound |-> o.bound]

Sealed(o) ==
    [rv |-> o.rv + 1, gen |-> o.gen, desired |-> o.desired, avail |-> o.avail,
     old |-> o.old, bound |-> TRUE]

=============================================================================
