----------------------------- MODULE Migrations -----------------------------
(***************************************************************************)
(* Open of pgstore.go and migrate of migrations.go: any number of          *)
(* processes, of different builds, open stores with the same schema and    *)
(* table prefix at once.                                                   *)
(*                                                                         *)
(* Everything between the advisory lock and the COMMIT happens in one      *)
(* transaction that nobody sees and any error undoes; it is one step.      *)
(***************************************************************************)
EXTENDS Integers

CONSTANTS
    Opens,        \* calls of Open
    Mode,         \* MigrationMode of each: apply, validate or disabled
    Build,        \* currentSchemaVersion of the build each call is made from
    MaxVersion,   \* the newest build's
    None          \* no version table; no COMMIT sent

ASSUME VersionAssumption == MaxVersion \in Nat \ {0}
ASSUME OpenAssumption ==
    /\ Mode \in [Opens -> {"apply", "validate", "disabled"}]
    /\ Build \in [Opens -> 1 .. MaxVersion]
    /\ \A S \in SUBSET (1 .. MaxVersion) : None # S

VARIABLES
    versions,   \* the rows of the version table, or None
    holders,    \* the calls whose transaction has the advisory lock
    staged,     \* the versions each transaction has applied, once its COMMIT is sent
    pc          \* where each call stands, or what it returned

vars == <<versions, holders, staged, pc>>

Returned == {"open", "refused", "collided", "failed"}
PC == {"idle", "begun", "locked", "commit", "acked"} \cup Returned

\* What the version table may be: not there, or at some version with all before it.
Schemas == {None} \cup {1 .. n : n \in 1 .. MaxVersion}

\* The database is new, or an earlier process has left it at some version.
Init ==
    /\ versions \in Schemas
    /\ holders = {}
    /\ staged = [p \in Opens |-> None]
    /\ pc = [p \in Opens |-> "idle"]

Goto(p, l) == pc' = [pc EXCEPT ![p] = l]

\* CREATE TABLE IF NOT EXISTS and SELECT COALESCE(MAX(version), 0).
Rows == IF versions = None THEN {} ELSE versions
IsVersion(v) == v \in Rows \cup {0} /\ \A n \in Rows : n <= v

-----------------------------------------------------------------------------
\* Open with MigrationDisabled asks nothing of the database.
Begin(p) ==
    /\ pc[p] = "idle"
    /\ Goto(p, IF Mode[p] = "disabled" THEN "open" ELSE "begun")
    /\ UNCHANGED <<versions, holders, staged>>

NoLock == TRUE \* mutant: pg_advisory_xact_lock is not called
LockFree == holders = {}

Lock(p) ==
    /\ pc[p] = "begun" /\ LockFree
    /\ holders' = holders \cup {p}
    /\ Goto(p, "locked")
    /\ UNCHANGED <<versions, staged>>

NewerOnly(p, v) == v > Build[p] \* mutant: MigrationValidate accepts an older schema
Refused(p, v) == v > Build[p] \/ (Mode[p] = "validate" /\ v # Build[p])

FirstOnly(p, v) == {n \in 1 .. MaxVersion : n = v + 1 /\ n <= Build[p]} \* mutant: COMMIT in the loop
\* The loop over the embedded migrations, which are numbered 1 .. Build[p].
Pending(p, v) == {n \in 1 .. Build[p] : Mode[p] = "apply" /\ n > v}

Refuse(p) ==
    /\ pc[p] = "locked"
    /\ \E v \in 0 .. MaxVersion : IsVersion(v) /\ Refused(p, v)
    /\ Goto(p, "refused")
    /\ UNCHANGED <<versions, holders, staged>>

\* The missing migrations, each with its row, then the COMMIT is sent.
Migrate(p) ==
    /\ pc[p] = "locked"
    /\ \E v \in 0 .. MaxVersion :
          /\ IsVersion(v) /\ ~Refused(p, v)
          /\ staged' = [staged EXCEPT ![p] = Pending(p, v)]
    /\ Goto(p, "commit")
    /\ UNCHANGED <<versions, holders>>

\* The COMMIT was answered: Open returns the Store.
Opened(p) ==
    /\ pc[p] = "acked"
    /\ Goto(p, "open")
    /\ UNCHANGED <<versions, holders, staged>>

\* Any error, a timeout or a crash: Open closes the pool and returns the error, also
\* when it comes from the COMMIT, whose outcome is then unknown.
Fail(p) ==
    /\ pc[p] \in {"begun", "locked", "commit", "acked"}
    /\ Goto(p, "failed")
    /\ UNCHANGED <<versions, holders, staged>>

-----------------------------------------------------------------------------
(***************************************************************************)
(* The server ends a transaction, which releases the lock.                 *)
(***************************************************************************)
End(p) == holders' = holders \ {p} /\ staged' = [staged EXCEPT ![p] = None]

\* A CREATE TABLE or a row that another transaction has committed meanwhile.
Collides(p) == staged[p] \cap Rows # {}

ServerCommit(p) ==
    /\ p \in holders /\ staged[p] # None
    /\ IF Collides(p)
       THEN /\ Goto(p, IF pc[p] = "commit" THEN "collided" ELSE pc[p])
            /\ UNCHANGED versions
       ELSE /\ Goto(p, IF pc[p] = "commit" THEN "acked" ELSE pc[p])
            /\ versions' = Rows \cup staged[p]
    /\ End(p)

NoRollback(p) == p \in holders /\ pc[p] = "commit" \* mutant: the deferred Rollback is missing
\* The client rolled back, is gone, or is told of it.
MayAbort(p) == p \in holders

ServerAbort(p) ==
    /\ MayAbort(p)
    /\ Goto(p, IF pc[p] \in {"locked", "commit"} THEN "failed" ELSE pc[p])
    /\ End(p)
    /\ UNCHANGED versions

-----------------------------------------------------------------------------
OpenStep(p) == Begin(p) \/ Lock(p) \/ Refuse(p) \/ Migrate(p) \/ Opened(p)
ServerStep(p) == ServerCommit(p) \/ ServerAbort(p)
Next == \E p \in Opens : OpenStep(p) \/ Fail(p) \/ ServerStep(p)
Spec == Init /\ [][Next]_vars

\* Callers go on and the server ends every transaction.  No error need ever happen, so
\* that nothing rests on the deadline Open has.
Fairness == \A p \in Opens : WF_vars(OpenStep(p)) /\ WF_vars(ServerStep(p))
FairSpec == Spec /\ Fairness

-----------------------------------------------------------------------------
(***************************************************************************)
(* Properties.                                                             *)
(***************************************************************************)
\* Every variable has its type: the version table that CREATE TABLE IF NOT EXISTS makes is
\* never committed empty (MigrationValidate rolls it back), and it never has a gap.
TypeOK ==
    /\ versions \in Schemas
    /\ holders \subseteq Opens
    /\ staged \in [Opens -> {None} \cup SUBSET (1 .. MaxVersion)]
    /\ pc \in [Opens -> PC]

\* A Store that was opened with apply or validate finds all tables of its build, now
\* and later, whichever builds opened theirs before, meanwhile or afterwards.
OpenedHasSchema ==
    \A p \in Opens : pc[p] = "open" /\ Mode[p] # "disabled" => 1 .. Build[p] \subseteq Rows

\* Processes that open the database at once never run the same migration twice: none
\* fails because of what another has created.
NeverCollides == \A p \in Opens : pc[p] # "collided"

\* The schema moves in whole releases and forwards only: each change is the work of an
\* apply and ends with exactly the versions of its build.
MigratesWhole ==
    [][\E p \in Opens : /\ Mode[p] = "apply"
                        /\ Rows \subseteq versions'
                        /\ versions' = 1 .. Build[p]]_versions

\* Nobody waits for the advisory lock for ever, even when its holder failed.
EveryOpenReturns == \A p \in Opens : pc[p] = "begun" ~> pc[p] \in Returned
=============================================================================
