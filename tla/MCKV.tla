------------------------------- MODULE MCKV -------------------------------
(***************************************************************************)
(* Instances of KV for TLC: the configurations give every constant.        *)
(***************************************************************************)
EXTENDS KVProofs
=============================================================================
