------------------------------ MODULE MCLease ------------------------------
(***************************************************************************)
(* Instances of Lease for TLC: which Store each Acquire goes through.  It  *)
(* extends LeaseProofs so that TLC can check the inductive invariant.      *)
(***************************************************************************)
EXTENDS LeaseProofs, TLC

CONSTANTS s1, s2, g1, g2

\* One process with one Acquire.
StoreOfOne == g1 :> s1
\* Two processes with one Acquire each.
StoreOfTwo == g1 :> s1 @@ g2 :> s2
\* One process with two Acquires.
StoreOfBoth == g1 :> s1 @@ g2 :> s1

\* The two processes and their grants are interchangeable.
SwapProcesses == {g1 :> g2 @@ g2 :> g1 @@ s1 :> s2 @@ s2 :> s1}
=============================================================================
