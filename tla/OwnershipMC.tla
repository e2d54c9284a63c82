---------------------------- MODULE OwnershipMC ----------------------------
(***************************************************************************)
(* An instance for TLC: platforms of two names, at most so many in turn.   *)
(***************************************************************************)
EXTENDS Ownership

Dev == "dev"
Prod == "prod"
TwoNames == {Dev, Prod}

=============================================================================
