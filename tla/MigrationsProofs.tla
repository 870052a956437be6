-------------------------- MODULE MigrationsProofs --------------------------
(***************************************************************************)
(* Proofs about Migrations, for any number of processes and builds.        *)
(***************************************************************************)
EXTENDS Migrations, TLAPS

\* At most one transaction has the lock, and who has it can be told from pc and staged.
LockInv ==
    /\ \A p, q \in holders : p = q
    /\ \A p \in Opens :
          /\ staged[p] # None => p \in holders
          /\ pc[p] \in {"idle", "begun"} => p \notin holders
          /\ pc[p] = "locked" => p \in holders /\ staged[p] = None
          /\ pc[p] # "idle" /\ pc[p] # "open" => Mode[p] # "disabled"

\* What a COMMIT under way will do: complete the versions of its build.
StagedInv ==
    \A p \in Opens : staged[p] # None =>
        /\ Rows \cup staged[p] = 1 .. Build[p]
        /\ staged[p] \cap Rows = {}
        /\ Mode[p] # "apply" => staged[p] = {}

AckInv ==
    \A p \in Opens :
        /\ pc[p] = "acked" \/ (pc[p] = "open" /\ Mode[p] # "disabled") => 1 .. Build[p] \subseteq Rows
        /\ pc[p] # "collided"

IInv == TypeOK /\ LockInv /\ StagedInv /\ AckInv

-----------------------------------------------------------------------------
\* The version that migrate reads and the versions present are 1 .. v.
LEMMA VersionRead ==
    ASSUME TypeOK, NEW v \in 0 .. MaxVersion, IsVersion(v)
    PROVE  Rows = 1 .. v
<1>1. CASE versions = None
  BY <1>1, VersionAssumption DEF IsVersion, Rows
<1>2. CASE versions # None
  <2>1. PICK n \in 1 .. MaxVersion : versions = 1 .. n
    BY <1>2 DEF TypeOK, Schemas
  <2>2. Rows = 1 .. n
    BY <1>2, <2>1 DEF Rows
  <2>3. n \in Rows /\ n \in Nat /\ n >= 1 /\ v \in Nat
    BY <2>2, VersionAssumption
  <2>4. n <= v
    BY <2>3 DEF IsVersion
  <2>5. v \in 1 .. n
    BY <2>2, <2>3, <2>4 DEF IsVersion
  <2> QED
    BY <2>2, <2>3, <2>4, <2>5
<1> QED
  BY <1>1, <1>2

\* A new or an older database with nobody connected satisfies the invariant.
LEMMA InitIInv == Init => IInv
<1> SUFFICES ASSUME Init PROVE IInv
  OBVIOUS
<1> USE DEF Init
<1>1. TypeOK
  BY VersionAssumption DEF TypeOK, PC
<1>2. LockInv
  BY DEF LockInv
<1>3. StagedInv /\ AckInv
  BY DEF StagedInv, AckInv
<1> QED
  BY <1>1, <1>2, <1>3 DEF IInv

\* Steps that touch neither the table nor the lock nor a staged transaction.
LEMMA ClientStep ==
    ASSUME IInv, NEW p \in Opens, NEW l \in PC, Goto(p, l), UNCHANGED <<versions, holders, staged>>,
           l \in {"begun", "refused", "failed"} \/ (l = "open" /\ (Mode[p] = "disabled" \/ pc[p] = "acked")),
           l = "begun" => pc[p] = "idle",
           l # "open" => Mode[p] # "disabled"
    PROVE  IInv'
<1> USE DEF IInv, Goto
<1>0. Rows' = Rows
  BY DEF Rows
<1>1. TypeOK'
  BY DEF TypeOK
<1>2. LockInv'
  BY DEF LockInv, TypeOK
<1>3. StagedInv'
  BY <1>0 DEF StagedInv
<1>4. AckInv'
  BY <1>0 DEF AckInv, TypeOK
<1> QED
  BY <1>1, <1>2, <1>3, <1>4

\* pg_advisory_xact_lock, which returns when no transaction has the lock.
LEMMA LockStep ==
    ASSUME IInv, NEW p \in Opens, Lock(p)
    PROVE  IInv'
<1> USE DEF IInv, Lock, LockFree, Goto
<1>0. Rows' = Rows
  BY DEF Rows
<1>1. TypeOK'
  BY DEF TypeOK, PC
<1>2. LockInv'
  BY DEF LockInv, TypeOK
<1>3. StagedInv'
  BY <1>0 DEF StagedInv
<1>4. AckInv'
  BY <1>0 DEF AckInv, TypeOK
<1> QED
  BY <1>1, <1>2, <1>3, <1>4

\* The transaction of migrate: what it stages completes the versions it has read.
LEMMA MigrateStep ==
    ASSUME IInv, NEW p \in Opens, Migrate(p)
    PROVE  IInv'
<1> USE DEF IInv
<1>1. PICK v \in 0 .. MaxVersion :
        /\ IsVersion(v) /\ ~Refused(p, v)
        /\ staged' = [staged EXCEPT ![p] = Pending(p, v)]
  BY DEF Migrate
<1>2. Rows = 1 .. v /\ Rows' = Rows
  BY <1>1, VersionRead DEF Migrate, Rows
<1>3. Build[p] \in 1 .. MaxVersion
  BY OpenAssumption
<1>4. /\ pc[p] = "locked" /\ pc' = [pc EXCEPT ![p] = "commit"]
      /\ versions' = versions /\ holders' = holders
  BY DEF Migrate, Goto
<1>5. Pending(p, v) \in SUBSET (1 .. MaxVersion)
  BY <1>3, VersionAssumption DEF Pending
<1>6. TypeOK'
  BY <1>1, <1>4, <1>5 DEF TypeOK, PC
<1>7. LockInv'
  BY <1>1, <1>4 DEF LockInv, TypeOK
<1>8. /\ Rows \cup Pending(p, v) = 1 .. Build[p]
      /\ Pending(p, v) \cap Rows = {}
      /\ Mode[p] # "apply" => Pending(p, v) = {}
  <2>1. Mode[p] \in {"apply", "validate"}
    BY <1>4, OpenAssumption DEF LockInv
  <2>2. v <= Build[p] /\ (Mode[p] = "validate" => v = Build[p])
    BY <1>1, <1>3 DEF Refused
  <2> QED
    BY <1>2, <1>3, <2>1, <2>2 DEF Pending
<1>9. StagedInv'
  BY <1>1, <1>2, <1>8 DEF StagedInv, TypeOK
<1>10. AckInv'
  BY <1>2, <1>4 DEF AckInv, TypeOK
<1> QED
  BY <1>6, <1>7, <1>9, <1>10

\* What a COMMIT does to the version table: nothing, or the rest of its build.
LEMMA CommitEffect ==
    ASSUME IInv, NEW p \in Opens, ServerCommit(p)
    PROVE  /\ ~Collides(p)
           /\ versions' = 1 .. Build[p] /\ Rows' = 1 .. Build[p]
           /\ Rows \subseteq 1 .. Build[p]
           /\ Mode[p] # "apply" => versions' = versions
<1> USE DEF IInv
<1>1. p \in holders /\ staged[p] # None
  BY DEF ServerCommit
<1>2. Rows \cup staged[p] = 1 .. Build[p] /\ staged[p] \cap Rows = {}
  BY <1>1 DEF StagedInv
<1>3. ~Collides(p)
  BY <1>2 DEF Collides
<1>4. versions' = 1 .. Build[p]
  BY <1>2, <1>3 DEF ServerCommit
<1>5. Build[p] \in 1 .. MaxVersion /\ 1 .. Build[p] \in SUBSET (1 .. MaxVersion)
  BY OpenAssumption, VersionAssumption
<1>6. Rows' = 1 .. Build[p]
  BY <1>4, <1>5, OpenAssumption DEF Rows
<1>7. Mode[p] # "apply" => Rows = 1 .. Build[p]
  BY <1>1, <1>2 DEF StagedInv
<1>8. 1 \in 1 .. Build[p]
  BY <1>5
<1>9. Mode[p] # "apply" => versions' = versions
  BY <1>4, <1>7, <1>8 DEF Rows
<1> QED
  BY <1>2, <1>3, <1>4, <1>6, <1>9

\* The COMMIT takes effect.
LEMMA ServerCommitStep ==
    ASSUME IInv, NEW p \in Opens, ServerCommit(p)
    PROVE  IInv'
<1> USE DEF IInv
<1>1. /\ ~Collides(p)
      /\ versions' = 1 .. Build[p] /\ Rows' = 1 .. Build[p]
      /\ Rows \subseteq 1 .. Build[p]
  BY CommitEffect
<1>2. /\ p \in holders /\ staged[p] # None
      /\ holders' = holders \ {p} /\ staged' = [staged EXCEPT ![p] = None]
      /\ pc' = [pc EXCEPT ![p] = IF pc[p] = "commit" THEN "acked" ELSE pc[p]]
  BY <1>1 DEF ServerCommit, End, Goto
<1>3. versions' \in Schemas
  BY <1>1, OpenAssumption DEF Schemas
<1>4. TypeOK'
  BY <1>2, <1>3 DEF TypeOK, PC
<1>5. LockInv'
  BY <1>2 DEF LockInv, TypeOK
<1>6. StagedInv'
  <2>1. \A q \in Opens : staged'[q] = None
    BY <1>2 DEF LockInv, TypeOK
  <2> QED
    BY <2>1 DEF StagedInv
<1>7. AckInv'
  BY <1>1, <1>2 DEF AckInv, TypeOK
<1> QED
  BY <1>4, <1>5, <1>6, <1>7

\* The transaction is rolled back.
LEMMA ServerAbortStep ==
    ASSUME IInv, NEW p \in Opens, ServerAbort(p)
    PROVE  IInv'
<1> USE DEF IInv
<1>1. /\ p \in holders /\ versions' = versions
      /\ holders' = holders \ {p} /\ staged' = [staged EXCEPT ![p] = None]
      /\ pc' = [pc EXCEPT ![p] = IF pc[p] \in {"locked", "commit"} THEN "failed" ELSE pc[p]]
      /\ Rows' = Rows
  BY DEF ServerAbort, MayAbort, End, Goto, Rows
<1>2. TypeOK'
  BY <1>1 DEF TypeOK, PC, Returned
<1>3. LockInv'
  BY <1>1 DEF LockInv, TypeOK
<1>4. StagedInv'
  BY <1>1 DEF StagedInv, TypeOK
<1>5. AckInv'
  BY <1>1 DEF AckInv, TypeOK
<1> QED
  BY <1>2, <1>3, <1>4, <1>5

\* The invariant is inductive: one case for each action.
LEMMA StepIInv == IInv /\ [Next]_vars => IInv'
<1> SUFFICES ASSUME IInv, [Next]_vars PROVE IInv'
  OBVIOUS
<1>1. CASE UNCHANGED vars
  BY <1>1 DEF vars, IInv, TypeOK, LockInv, StagedInv, AckInv, Rows
<1>2. ASSUME NEW p \in Opens, OpenStep(p) \/ Fail(p) \/ ServerStep(p) PROVE IInv'
  <2>1. CASE Begin(p)
    BY <2>1, ClientStep DEF Begin, PC, Returned, Goto
  <2>2. CASE Lock(p)
    BY <2>2, LockStep
  <2>3. CASE Refuse(p)
    <3>1. pc[p] = "locked" /\ Mode[p] # "disabled" /\ "refused" \in PC
      BY <2>3 DEF Refuse, IInv, LockInv, PC, Returned
    <3> QED
      BY <2>3, <3>1, ClientStep DEF Refuse
  <2>4. CASE Migrate(p)
    BY <2>4, MigrateStep
  <2>5. CASE Opened(p)
    BY <2>5, ClientStep DEF Opened, PC, Returned
  <2>6. CASE Fail(p)
    <3>1. Mode[p] # "disabled" /\ "failed" \in PC
      BY <2>6 DEF Fail, IInv, LockInv, PC, Returned
    <3> QED
      BY <2>6, <3>1, ClientStep DEF Fail
  <2>7. CASE ServerCommit(p)
    BY <2>7, ServerCommitStep
  <2>8. CASE ServerAbort(p)
    BY <2>8, ServerAbortStep
  <2> QED
    BY <1>2, <2>1, <2>2, <2>3, <2>4, <2>5, <2>6, <2>7, <2>8 DEF OpenStep, ServerStep
<1> QED
  BY <1>1, <1>2 DEF Next

\* The invariant holds in every reachable state.
LEMMA Invariance == Spec => []IInv
<1> QED
  BY InitIInv, StepIInv, PTL DEF Spec

-----------------------------------------------------------------------------
\* The version table of migrate is absent or holds the versions of a whole release, never
\* none of them and never with a gap; every other variable keeps its type.
THEOREM TypeCorrect == Spec => []TypeOK
<1>1. IInv => TypeOK
  BY DEF IInv
<1> QED
  BY <1>1, Invariance, PTL

\* The advisory lock makes concurrent Opens safe: an opened Store has the tables of its
\* build and no two Opens run the same migration.
THEOREM Safety == Spec => [](OpenedHasSchema /\ NeverCollides)
<1>1. IInv => OpenedHasSchema /\ NeverCollides
  BY DEF IInv, AckInv, OpenedHasSchema, NeverCollides
<1> QED
  BY <1>1, Invariance, PTL

\* The version table changes only by an apply, upwards, and to exactly the versions of its
\* build.
THEOREM WholeMigrations == Spec => MigratesWhole
<1> DEFINE Whole == \E p \in Opens : /\ Mode[p] = "apply"
                                     /\ Rows \subseteq versions'
                                     /\ versions' = 1 .. Build[p]
<1>1. IInv /\ [Next]_vars => [Whole]_versions
  <2> SUFFICES ASSUME IInv, Next, versions' # versions PROVE Whole
    BY DEF vars
  <2>1. PICK p \in Opens : OpenStep(p) \/ Fail(p) \/ ServerStep(p)
    BY DEF Next
  <2>2. ServerCommit(p)
    BY <2>1 DEF OpenStep, ServerStep, Begin, Lock, Refuse, Migrate, Opened, Fail, ServerAbort
  <2> QED
    BY <2>2, CommitEffect
<1> QED
  BY <1>1, Invariance, PTL DEF Spec, MigratesWhole
=============================================================================
