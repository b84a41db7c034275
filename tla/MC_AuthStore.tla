---------------------------- MODULE MC_AuthStore ----------------------------
(***************************************************************************)
(* Model-checking instance of AuthStore: root and two other keys, the     *)
(* three role strings create_user recognises, a bound on the _auth log.   *)
(***************************************************************************)
EXTENDS AuthStore, TLC

MCRoleStrs == {"admin", "read_write", "read_only"}

\* Bound of the state space: frames of _auth.aev.
MaxAuthLog == 3
AuthBound == Len(authLog) <= MaxAuthLog

\* Generated document ids are interchangeable.
DocIdSymmetry == Permutations(DocIds)

=============================================================================
