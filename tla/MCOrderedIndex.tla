--------------------------- MODULE MCOrderedIndex ---------------------------
(***************************************************************************)
(* Instances of OrderedIndex for TLC: identities in one ordering scope,    *)
(* since scopes share no row that a transaction locks.                     *)
(***************************************************************************)
EXTENDS OrderedIndex, TLC

CONSTANT Keys

KeyIds == [scope : {1}, key : Keys]
OneContent == {[value |-> "v", rank |-> 1, due |-> None]}
Interchangeable == Permutations(Keys) \cup Permutations(Creates) \cup Permutations(Mutations)
=============================================================================
