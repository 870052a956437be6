---------------------------- MODULE MCMigrations ----------------------------
(***************************************************************************)
(* An instance of Migrations for TLC: a roll-out in which stores of two    *)
(* builds are opened in every mode.                                        *)
(***************************************************************************)
EXTENDS Migrations

CONSTANTS oldApply, newApply, otherApply, oldValidate, newValidate, disabled

Modes ==
    [p \in Opens |-> IF p \in {oldValidate, newValidate} THEN "validate"
                     ELSE IF p = disabled THEN "disabled" ELSE "apply"]
Builds == [p \in Opens |-> IF p \in {oldApply, oldValidate} THEN 2 ELSE 3]
=============================================================================
