----------------------------- MODULE MCLedger -----------------------------
(***************************************************************************)
(* Instances of Ledger for TLC.  Calls that are not distinguished by the   *)
(* instance are interchangeable, and so are payloads.                      *)
(***************************************************************************)
EXTENDS LedgerProofs, TLC

Interchangeable ==
    Permutations(Appends) \cup Permutations(Deletes) \cup Permutations(Payloads)
=============================================================================
