---------------------------- MODULE MCAuthCodes ----------------------------
(***************************************************************************)
(* Instances of AuthCodes for TLC: one user with one address.              *)
(***************************************************************************)
EXTENDS AuthCodes, TLC

CONSTANT u1

OneAccount == [e \in Emails |-> u1]
Symmetry == Permutations(Calls) \cup Permutations(Codes)

(* Bound: nothing is explored beyond the loss of both rate limits or of    *)
(* the user's revocation, after which a property would be vacuous.         *)
SomethingPromised == unlimited # Keys /\ leftover # Users
=============================================================================
