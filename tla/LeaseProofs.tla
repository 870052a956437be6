---------------------------- MODULE LeaseProofs ----------------------------
(***************************************************************************)
(* Proofs about Lease: type correctness, and the inductive invariant IInv  *)
(* with the safety properties that follow from it.                         *)
(***************************************************************************)
EXTENDS Lease, TLAPS

USE StoreAssumption, TimeAssumption, EpochAssumption

-----------------------------------------------------------------------------
\* The initial state, nothing acquired and every Store open, has the types.
LEMMA TypeInit == Init => TypeOK
  BY DEF Init, TypeOK, FreeRow, RowOf, Row, NoTx, TxOf, Tx, NoProof, Proof, PC, AcquirePC, LoopPC, Rel, Epochs

\* The absent transaction has the type of a transaction.
LEMMA NoTxType == NoTx \in Tx
  BY DEF NoTx, TxOf, FreeRow, RowOf, Tx, Row, Epochs

\* Every step of the database, of a call or of the clock keeps the types.
LEMMA TypeStep == TypeOK /\ [Next]_vars => TypeOK'
<1> SUFFICES ASSUME TypeOK, [Next]_vars PROVE TypeOK'
  OBVIOUS
<1> USE DEF TypeOK, PC, AcquirePC, LoopPC, Rel, dbVars, leaseVars
<1>1. CASE CommitAcquire
  <2>1. row' \in Row /\ tx' \in Tx
    BY <1>1, NoTxType DEF CommitAcquire, Apply, Tx
  <2>2. pc' \in [Grants -> PC]
    BY <1>1 DEF CommitAcquire
  <2> QED
    BY <1>1, <2>1, <2>2 DEF CommitAcquire
<1>2. CASE CommitRenew
  <2>1. row' \in Row /\ tx' \in Tx
    BY <1>2, NoTxType DEF CommitRenew, Apply, Tx
  <2>2. pc' \in [Grants -> PC]
    BY <1>2 DEF CommitRenew
  <2> QED
    BY <1>2, <2>1, <2>2 DEF CommitRenew
<1>3. CASE CommitRelease
  <2>1. row' \in Row /\ tx' \in Tx
    BY <1>3, NoTxType DEF CommitRelease, Apply, Tx
  <2>2. rel' \in [Grants -> Rel]
    BY <1>3 DEF CommitRelease
  <2> QED
    BY <1>3, <2>1, <2>2 DEF CommitRelease
<1>4. CASE ServerAbort
  BY <1>4 DEF ServerAbort, Tx, NoTx, TxOf, FreeRow, RowOf, Row, Epochs
<1>5. CASE Tick
  BY <1>5 DEF Tick
<1>6. ASSUME NEW g \in Grants, AcquireRefuse(g) PROVE TypeOK'
  BY <1>6 DEF AcquireRefuse, Exhausted, Goto
<1>7. ASSUME NEW g \in Grants, AcquireSelect(g) PROVE TypeOK'
  <2>1. row.epoch + 1 \in Epochs
    BY <1>7 DEF AcquireSelect, Exhausted, Row, Epochs
  <2>2. tx' \in Tx
    BY <1>7 DEF AcquireSelect, Exhausted, Tx, TxOf
  <2>3. epoch' \in [Grants -> Epochs]
    BY <1>7, <2>1 DEF AcquireSelect, Exhausted
  <2>4. proof' \in [Grants -> Proof]
    BY <1>7 DEF AcquireSelect, Exhausted, SetProof, StartProof, Proof
  <2> QED
    BY <1>7, <2>2, <2>3, <2>4 DEF AcquireSelect, Exhausted, Goto
<1>8. ASSUME NEW g \in Grants, AcquireFail(g) PROVE TypeOK'
  BY <1>8 DEF AcquireFail, Goto, SetProof, NoProof, Proof, Tx, NoTx, TxOf, FreeRow, RowOf, Row, Epochs
<1>9. ASSUME NEW g \in Grants, AcquireUpdate(g) PROVE TypeOK'
  BY <1>9 DEF AcquireUpdate, Goto, SetProof, Answer, Proof, Tx, TxOf, RowOf, Row, Epochs
<1>10. ASSUME NEW g \in Grants, AcquireUnknown(g) PROVE TypeOK'
  BY <1>10 DEF AcquireUnknown, Goto, SetProof, StartProof, Proof
<1>11. ASSUME NEW g \in Grants, ResolveAcquire(g) PROVE TypeOK'
  BY <1>11 DEF ResolveAcquire, Goto, SetProof, Answer, Proof, Row
<1>12. ASSUME NEW g \in Grants, ResolveAcquireFail(g) PROVE TypeOK'
  BY <1>12 DEF ResolveAcquireFail, Goto, SetProof, NoProof, Proof
<1>13. ASSUME NEW g \in Grants, AcquireAck(g) PROVE TypeOK'
  BY <1>13 DEF AcquireAck, Goto, SetProof, Evaluated, ConservativeRemaining, Proof
<1>14. ASSUME NEW g \in Grants, NewLease(g) PROVE TypeOK'
  BY <1>14 DEF NewLease, Goto, InstallDeadline, SetProof, NoProof, Proof
<1>15. ASSUME NEW g \in Grants, LoopReturn(g) PROVE TypeOK'
  BY <1>15 DEF LoopReturn, MarkLost, Goto, SetProof, NoProof, Proof
<1>16. ASSUME NEW g \in Grants, RenewStart(g) PROVE TypeOK'
  BY <1>16 DEF RenewStart, Goto, SetProof, StartProof, Proof
<1>17. ASSUME NEW g \in Grants, RenewUpdate(g) PROVE TypeOK'
  BY <1>17 DEF RenewUpdate, Goto, SetProof, Answer, Proof, Tx, TxOf, RowOf, Row, Epochs
<1>18. ASSUME NEW g \in Grants, RenewError(g) PROVE TypeOK'
  BY <1>18 DEF RenewError, Goto, SetProof, StartProof, Proof
<1>19. ASSUME NEW g \in Grants, Observe(g) PROVE TypeOK'
  BY <1>19 DEF Observe, Goto, SetProof, Answer, Proof, Row
<1>20. ASSUME NEW g \in Grants, RenewAck(g) PROVE TypeOK'
  BY <1>20 DEF RenewAck, Goto, SetProof, Evaluated, ConservativeRemaining, Proof
<1>21. ASSUME NEW g \in Grants, InstallRenewal(g) PROVE TypeOK'
  BY <1>21 DEF InstallRenewal, Goto, InstallDeadline, SetProof, NoProof, Proof
<1>22. ASSUME NEW g \in Grants, ReleaseBegin(g) PROVE TypeOK'
  BY <1>22 DEF ReleaseBegin, MarkLost
<1>23. ASSUME NEW g \in Grants, ReleaseUpdate(g) PROVE TypeOK'
  BY <1>23 DEF ReleaseUpdate, Cleared, Tx, TxOf, RowOf, Row, Epochs
<1>24. ASSUME NEW g \in Grants, ReleaseComplete(g) PROVE TypeOK'
  BY <1>24 DEF ReleaseComplete
<1>25. ASSUME NEW g \in Grants, ReleaseError(g) PROVE TypeOK'
  BY <1>25 DEF ReleaseError
<1>26. ASSUME NEW s \in Stores, CloseCancel(s) PROVE TypeOK'
  BY <1>26 DEF CloseCancel
<1>27. ASSUME NEW s \in Stores, CloseLeases(s) PROVE TypeOK'
  BY <1>27 DEF CloseLeases
<1>28. ASSUME NEW s \in Stores, ClosePool(s) PROVE TypeOK'
  BY <1>28 DEF ClosePool
<1>29. ASSUME NEW s \in Stores, Crash(s) PROVE TypeOK'
  BY <1>29 DEF Crash, NoProof, Proof
<1>30. CASE UNCHANGED vars
  BY <1>30 DEF vars
<1> QED
  BY <1>1, <1>2, <1>3, <1>4, <1>5, <1>6, <1>7, <1>8, <1>9, <1>10, <1>11, <1>12, <1>13,
     <1>14, <1>15, <1>16, <1>17, <1>18, <1>19, <1>20, <1>21, <1>22, <1>23, <1>24, <1>25,
     <1>26, <1>27, <1>28, <1>29, <1>30
     DEF Next, AcquireStep, LoopStep, ReleaseStep

\* Lease keeps its types: the epoch never leaves the range of its column.
THEOREM TypeCorrect == Spec => []TypeOK
  BY TypeInit, TypeStep, PTL DEF Spec

-----------------------------------------------------------------------------
(***************************************************************************)
(* The inductive invariant behind MutualExclusion, FencingToken,           *)
(* UniqueEpochs and HandOverOnly.                                          *)
(***************************************************************************)
AcquiredPC == {"acqReply", "acqProved", "acqInstall"}
InstallPC  == {"acqInstall", "renInstall"}
ProvenPC   == AcquiredPC \cup {"renReply", "renProved", "renInstall"}

\* g's acquisition has taken effect in the database and g knows, or still could.
Committed(g) == pc[g] \in AcquiredPC \cup LoopPC \cup {"stopped"} \/ row.holder = g

\* The transaction with the row lock can only do what the row still allows.
LockedAcquire ==
    tx.op = "acquire" =>
        /\ pc[tx.owner] \in {"acqUpdate", "acqCommit", "acqResolve", "refused", "failed", "crashed"}
        /\ row.holder # tx.owner
        /\ row.holder = NoHolder \/ row.expires <= now
        /\ epoch[tx.owner] = row.epoch + 1
        /\ tx.sent => tx.row.holder = tx.owner /\ tx.row.epoch = epoch[tx.owner]
        /\ tx.sent /\ pc[tx.owner] = "acqCommit" => tx.row.expires = proof[tx.owner].expires
LockedRenew ==
    tx.op = "renew" =>
        /\ tx.sent /\ row.holder = tx.owner
        /\ tx.row.holder = tx.owner /\ tx.row.epoch = row.epoch
        /\ row.expires <= tx.row.expires
        /\ pc[tx.owner] = "renCommit" => tx.row.expires = proof[tx.owner].expires
LockedRelease ==
    tx.op = "release" =>
        /\ tx.sent /\ row.holder = tx.owner
        /\ tx.row.holder = NoHolder /\ tx.row.epoch = row.epoch
        /\ lost[tx.owner]
LockInv ==
    /\ tx.op # "none" => tx.owner \in Grants
    /\ tx.op = "none" => tx = NoTx
    /\ LockedAcquire /\ LockedRenew /\ LockedRelease

\* What a call knows about the order of its own clock readings.
ClockInv(g) ==
    /\ proof[g].started <= now /\ proof[g].acked <= now /\ proof[g].databaseNow <= now
    /\ pc[g] \in {"acqCommit", "acqReply", "acqProved", "renCommit", "renReply", "renProved"} =>
          proof[g].started <= proof[g].databaseNow
    /\ pc[g] \in InstallPC =>
          proof[g].remaining + proof[g].acked <= proof[g].expires /\ now <= proof[g].acked + MaxPause

\* An answer in hand is backed by the row, or already worthless.
ProofInv(g) ==
    pc[g] \in ProvenPC /\ ~lost[g] =>
        (row.holder = g /\ proof[g].expires <= row.expires) \/ proof[g].expires <= now

\* So is the deadline that was computed from it.
DeadlineInv(g) ==
    Granted(g) /\ ~lost[g] =>
        (row.holder = g /\ safeUntil[g] <= row.expires + MaxPause) \/ safeUntil[g] <= now + MaxPause

\* Where a grant that has not acquired yet, or is about to renew, stands.
PositionInv(g) ==
    /\ pc[g] \in {"idle", "acqUpdate"} => row.holder # g
    /\ pc[g] = "idle" => tx.owner # g
    /\ pc[g] = "acqUpdate" => tx.op = "acquire" /\ tx.owner = g /\ ~tx.sent
    /\ pc[g] = "renUpdate" /\ row.holder = g => row.expires <= proof[g].started + TTL
    /\ pc[g] = "renUpdate" /\ tx.op = "renew" /\ tx.owner = g =>
          tx.row.expires <= proof[g].started + TTL
    /\ rel[g] # "idle" => lost[g]
    /\ pc[g] \notin {"idle", "refused", "failed", "crashed"} => epoch[g] > 0

ExpiryInv == row.expires <= now + TTL /\ tx.row.expires <= now + TTL

EpochInv ==
    /\ row.holder # NoHolder => row.epoch = epoch[row.holder]
    /\ \A g \in Grants : Committed(g) => epoch[g] <= row.epoch
    /\ \A g, h \in Grants : Committed(g) /\ Committed(h) /\ epoch[g] = epoch[h] => g = h

\* Everything above: implied by Init, preserved by Next, and strong enough.
IInv ==
    /\ TypeOK /\ LockInv /\ ExpiryInv /\ EpochInv
    /\ \A g \in Grants : ClockInv(g) /\ ProofInv(g) /\ DeadlineInv(g) /\ PositionInv(g)

-----------------------------------------------------------------------------
\* What TypeOK says of the fields that the invariant compares.
LEMMA FieldTypes ==
  TypeOK =>
    /\ now \in Nat /\ row.epoch \in Nat /\ row.expires \in Nat
    /\ row.holder \in Grants \cup {NoHolder} /\ tx.owner \in Grants \cup {NoHolder}
    /\ tx.row.epoch \in Nat /\ tx.row.expires \in Nat
    /\ tx.row.holder \in Grants \cup {NoHolder}
    /\ pc \in [Grants -> PC] /\ rel \in [Grants -> Rel] /\ lost \in [Grants -> BOOLEAN]
    /\ epoch \in [Grants -> Nat] /\ safeUntil \in [Grants -> Int]
    /\ proof \in [Grants -> Proof]
    /\ \A g \in Grants :
         /\ proof[g].started \in Nat /\ proof[g].expires \in Nat
         /\ proof[g].databaseNow \in Nat /\ proof[g].remaining \in Int
         /\ proof[g].acked \in Nat
  BY DEF TypeOK, Row, Tx, Proof, Epochs

\* IInv holds initially: the row is free and no call has begun.
LEMMA InvInit == Init => IInv
<1> SUFFICES ASSUME Init PROVE IInv
  OBVIOUS
<1>1. TypeOK
  BY TypeInit
<1>2. LockInv /\ ExpiryInv /\ EpochInv
  BY DEF Init, LockInv, LockedAcquire, LockedRenew, LockedRelease, ExpiryInv, EpochInv,
         Committed, AcquiredPC, LoopPC, FreeRow, RowOf, NoTx, TxOf
<1>3. ASSUME NEW g \in Grants
      PROVE ClockInv(g) /\ ProofInv(g) /\ DeadlineInv(g) /\ PositionInv(g)
  BY DEF Init, ClockInv, InstallPC, ProofInv, ProvenPC, AcquiredPC, DeadlineInv, Granted,
         LoopPC, PositionInv, FreeRow, RowOf, NoTx, TxOf, NoProof
<1> QED
  BY <1>1, <1>2, <1>3 DEF IInv

\* Every step of the database, of a call or of the clock keeps IInv.
LEMMA InvStep == IInv /\ [Next]_vars => IInv'
<1> SUFFICES ASSUME IInv, [Next]_vars PROVE IInv'
  OBVIOUS
<1> TypeOK /\ TypeOK'
  BY TypeStep DEF IInv
<1>0. /\ LockInv /\ ExpiryInv /\ EpochInv
      /\ \A h \in Grants : ClockInv(h) /\ ProofInv(h) /\ DeadlineInv(h) /\ PositionInv(h)
  BY DEF IInv
<1> USE FieldTypes DEF dbVars, leaseVars
<1>1. CASE CommitAcquire
  <2>1. LockInv'
    BY <1>1, <1>0 DEF LockInv, LockedAcquire, LockedRenew, LockedRelease, CommitAcquire,
           Apply, NoTx, TxOf, FreeRow, RowOf
  <2>2. ExpiryInv'
    BY <1>1, <1>0 DEF ExpiryInv, CommitAcquire, Apply, NoTx, TxOf, FreeRow, RowOf
  <2>3. EpochInv'
    BY <1>1, <1>0 DEF EpochInv, Committed, AcquiredPC, LoopPC, LockInv, LockedAcquire,
           CommitAcquire, Apply, NoTx, TxOf, FreeRow, RowOf
  <2>4. ASSUME NEW h \in Grants PROVE ClockInv(h)'
    BY <1>1, <1>0 DEF ClockInv, InstallPC, CommitAcquire, Apply, NoTx, TxOf, FreeRow, RowOf
  <2>5. ASSUME NEW h \in Grants PROVE ProofInv(h)'
    BY <1>1, <1>0 DEF ProofInv, ProvenPC, AcquiredPC, LockInv, LockedAcquire,
           CommitAcquire, Apply, NoTx, TxOf, FreeRow, RowOf
  <2>6. ASSUME NEW h \in Grants PROVE DeadlineInv(h)'
    BY <1>1, <1>0 DEF DeadlineInv, Granted, LoopPC, LockInv, LockedAcquire, CommitAcquire,
           Apply, NoTx, TxOf, FreeRow, RowOf
  <2>7. ASSUME NEW h \in Grants PROVE PositionInv(h)'
    BY <1>1, <1>0 DEF PositionInv, LockInv, LockedAcquire, CommitAcquire, Apply, NoTx,
           TxOf, FreeRow, RowOf
  <2> QED
    BY <2>1, <2>2, <2>3, <2>4, <2>5, <2>6, <2>7 DEF IInv
<1>2. CASE CommitRenew
  <2>1. LockInv'
    BY <1>2, <1>0 DEF LockInv, LockedAcquire, LockedRenew, LockedRelease, CommitRenew,
           Apply, NoTx, TxOf, FreeRow, RowOf
  <2>2. ExpiryInv'
    BY <1>2, <1>0 DEF ExpiryInv, CommitRenew, Apply, NoTx, TxOf, FreeRow, RowOf
  <2>3. EpochInv'
    BY <1>2, <1>0 DEF EpochInv, Committed, AcquiredPC, LoopPC, LockInv, LockedRenew,
           CommitRenew, Apply, NoTx, TxOf, FreeRow, RowOf
  <2>4. ASSUME NEW h \in Grants PROVE ClockInv(h)'
    BY <1>2, <1>0 DEF ClockInv, InstallPC, CommitRenew, Apply, NoTx, TxOf, FreeRow, RowOf
  <2>5. ASSUME NEW h \in Grants PROVE ProofInv(h)'
    BY <1>2, <1>0 DEF ProofInv, ProvenPC, AcquiredPC, LockInv, LockedRenew, CommitRenew,
           Apply, NoTx, TxOf, FreeRow, RowOf
  <2>6. ASSUME NEW h \in Grants PROVE DeadlineInv(h)'
    BY <1>2, <1>0 DEF DeadlineInv, Granted, LoopPC, LockInv, LockedRenew, CommitRenew,
           Apply, NoTx, TxOf, FreeRow, RowOf
  <2>7. ASSUME NEW h \in Grants PROVE PositionInv(h)'
    BY <1>2, <1>0 DEF PositionInv, LockInv, LockedRenew, CommitRenew, Apply, NoTx, TxOf,
           FreeRow, RowOf
  <2> QED
    BY <2>1, <2>2, <2>3, <2>4, <2>5, <2>6, <2>7 DEF IInv
<1>3. CASE CommitRelease
  <2>1. LockInv'
    BY <1>3, <1>0 DEF LockInv, LockedAcquire, LockedRenew, LockedRelease, CommitRelease,
           Apply, NoTx, TxOf, FreeRow, RowOf
  <2>2. ExpiryInv'
    BY <1>3, <1>0 DEF ExpiryInv, CommitRelease, Apply, NoTx, TxOf, FreeRow, RowOf
  <2>3. EpochInv'
    BY <1>3, <1>0 DEF EpochInv, Committed, AcquiredPC, LoopPC, LockInv, LockedRelease,
           CommitRelease, Apply, NoTx, TxOf, FreeRow, RowOf
  <2>4. ASSUME NEW h \in Grants PROVE ClockInv(h)'
    BY <1>3, <1>0 DEF ClockInv, InstallPC, CommitRelease, Apply, NoTx, TxOf, FreeRow, RowOf
  <2>5. ASSUME NEW h \in Grants PROVE ProofInv(h)'
    BY <1>3, <1>0 DEF ProofInv, ProvenPC, AcquiredPC, LockInv, LockedRelease,
           CommitRelease, Apply, NoTx, TxOf, FreeRow, RowOf
  <2>6. ASSUME NEW h \in Grants PROVE DeadlineInv(h)'
    BY <1>3, <1>0 DEF DeadlineInv, Granted, LoopPC, LockInv, LockedRelease, CommitRelease,
           Apply, NoTx, TxOf, FreeRow, RowOf
  <2>7. ASSUME NEW h \in Grants PROVE PositionInv(h)'
    BY <1>3, <1>0 DEF PositionInv, LockInv, LockedRelease, CommitRelease, Apply, NoTx,
           TxOf, FreeRow, RowOf
  <2> QED
    BY <2>1, <2>2, <2>3, <2>4, <2>5, <2>6, <2>7 DEF IInv
<1>4. CASE ServerAbort
  <2>1. LockInv' /\ ExpiryInv' /\ EpochInv'
    BY <1>4, <1>0 DEF LockInv, LockedAcquire, LockedRenew, LockedRelease, ExpiryInv,
           EpochInv, Committed, AcquiredPC, LoopPC, ServerAbort, NoTx, TxOf, FreeRow, RowOf
  <2>2. ASSUME NEW h \in Grants
        PROVE ClockInv(h)' /\ ProofInv(h)' /\ DeadlineInv(h)' /\ PositionInv(h)'
    BY <1>4, <1>0 DEF ClockInv, InstallPC, ProofInv, ProvenPC, AcquiredPC, DeadlineInv,
           Granted, LoopPC, PositionInv, ServerAbort, NoTx, TxOf, FreeRow, RowOf
  <2> QED
    BY <2>1, <2>2 DEF IInv
<1>5. CASE Tick
  <2>1. LockInv'
    BY <1>5, <1>0 DEF LockInv, LockedAcquire, LockedRenew, LockedRelease, Tick
  <2>2. ExpiryInv'
    BY <1>5, <1>0 DEF ExpiryInv, Tick
  <2>3. EpochInv'
    BY <1>5, <1>0 DEF EpochInv, Committed, AcquiredPC, LoopPC, Tick
  <2>4. ASSUME NEW h \in Grants PROVE ClockInv(h)'
    BY <1>5, <1>0 DEF ClockInv, InstallPC, Tick
  <2>5. ASSUME NEW h \in Grants PROVE ProofInv(h)'
    BY <1>5, <1>0 DEF ProofInv, ProvenPC, AcquiredPC, Tick
  <2>6. ASSUME NEW h \in Grants PROVE DeadlineInv(h)'
    BY <1>5, <1>0 DEF DeadlineInv, Granted, LoopPC, Tick
  <2>7. ASSUME NEW h \in Grants PROVE PositionInv(h)'
    BY <1>5, <1>0 DEF PositionInv, Tick
  <2> QED
    BY <2>1, <2>2, <2>3, <2>4, <2>5, <2>6, <2>7 DEF IInv
<1>6. ASSUME NEW g \in Grants, AcquireRefuse(g) PROVE IInv'
  <2>1. LockInv' /\ ExpiryInv' /\ EpochInv'
    BY <1>6, <1>0 DEF LockInv, LockedAcquire, LockedRenew, LockedRelease, ExpiryInv,
           EpochInv, Committed, AcquiredPC, LoopPC, AcquireRefuse, Goto
  <2>2. ASSUME NEW h \in Grants
        PROVE ClockInv(h)' /\ ProofInv(h)' /\ DeadlineInv(h)' /\ PositionInv(h)'
    BY <1>6, <1>0 DEF ClockInv, InstallPC, ProofInv, ProvenPC, AcquiredPC, DeadlineInv,
           Granted, LoopPC, PositionInv, AcquireRefuse, Goto
  <2> QED
    BY <2>1, <2>2 DEF IInv
<1>7. ASSUME NEW g \in Grants, AcquireSelect(g) PROVE IInv'
  <2>1. LockInv'
    BY <1>7, <1>0 DEF LockInv, LockedAcquire, LockedRenew, LockedRelease, PositionInv,
           NoTx, FreeRow, RowOf, AcquireSelect, Goto, SetProof, StartProof, TxOf, Held
  <2>2. ExpiryInv'
    BY <1>7, <1>0 DEF ExpiryInv, AcquireSelect, Exhausted, Goto, SetProof, StartProof, TxOf, Held
  <2>3. EpochInv'
    BY <1>7, <1>0 DEF EpochInv, Committed, AcquiredPC, LoopPC, PositionInv, AcquireSelect, Exhausted,
           Goto, SetProof, StartProof, TxOf, Held
  <2>4. ASSUME NEW h \in Grants PROVE ClockInv(h)'
    BY <1>7, <1>0 DEF ClockInv, InstallPC, AcquireSelect, Exhausted, Goto, SetProof, StartProof, TxOf,
           Held
  <2>5. ASSUME NEW h \in Grants PROVE ProofInv(h)'
    BY <1>7, <1>0 DEF ProofInv, ProvenPC, AcquiredPC, AcquireSelect, Exhausted, Goto, SetProof,
           StartProof, TxOf, Held
  <2>6. ASSUME NEW h \in Grants PROVE DeadlineInv(h)'
    BY <1>7, <1>0 DEF DeadlineInv, Granted, LoopPC, AcquireSelect, Exhausted, Goto, SetProof,
           StartProof, TxOf, Held
  <2>7. ASSUME NEW h \in Grants PROVE PositionInv(h)'
    BY <1>7, <1>0 DEF PositionInv, NoTx, FreeRow, RowOf, AcquireSelect, Exhausted, Goto, SetProof,
           StartProof, TxOf, Held
  <2> QED
    BY <2>1, <2>2, <2>3, <2>4, <2>5, <2>6, <2>7 DEF IInv
<1>8. ASSUME NEW g \in Grants, AcquireFail(g) PROVE IInv'
  <2>1. LockInv'
    BY <1>8, <1>0 DEF LockInv, LockedAcquire, LockedRenew, LockedRelease, AcquireFail,
           Goto, SetProof, NoProof, NoTx, TxOf, FreeRow, RowOf
  <2>2. ExpiryInv'
    BY <1>8, <1>0 DEF ExpiryInv, AcquireFail, Goto, SetProof, NoProof, NoTx, TxOf, FreeRow,
           RowOf
  <2>3. EpochInv'
    BY <1>8, <1>0 DEF EpochInv, Committed, AcquiredPC, LoopPC, AcquireFail, Goto, SetProof,
           NoProof, NoTx, TxOf, FreeRow, RowOf
  <2>4. ASSUME NEW h \in Grants PROVE ClockInv(h)'
    BY <1>8, <1>0 DEF ClockInv, InstallPC, AcquireFail, Goto, SetProof, NoProof, NoTx,
           TxOf, FreeRow, RowOf
  <2>5. ASSUME NEW h \in Grants PROVE ProofInv(h)'
    BY <1>8, <1>0 DEF ProofInv, ProvenPC, AcquiredPC, AcquireFail, Goto, SetProof, NoProof,
           NoTx, TxOf, FreeRow, RowOf
  <2>6. ASSUME NEW h \in Grants PROVE DeadlineInv(h)'
    BY <1>8, <1>0 DEF DeadlineInv, Granted, LoopPC, AcquireFail, Goto, SetProof, NoProof,
           NoTx, TxOf, FreeRow, RowOf
  <2>7. ASSUME NEW h \in Grants PROVE PositionInv(h)'
    BY <1>8, <1>0 DEF PositionInv, AcquireFail, Goto, SetProof, NoProof, NoTx, TxOf,
           FreeRow, RowOf
  <2> QED
    BY <2>1, <2>2, <2>3, <2>4, <2>5, <2>6, <2>7 DEF IInv
<1>9. ASSUME NEW g \in Grants, AcquireUpdate(g) PROVE IInv'
  <2>1. LockInv'
    BY <1>9, <1>0 DEF LockInv, LockedAcquire, LockedRenew, LockedRelease, PositionInv,
           AcquireUpdate, Goto, SetProof, Answer, TxOf, RowOf
  <2>2. ExpiryInv'
    BY <1>9, <1>0 DEF ExpiryInv, AcquireUpdate, Goto, SetProof, Answer, TxOf, RowOf
  <2>3. EpochInv'
    BY <1>9, <1>0 DEF EpochInv, Committed, AcquiredPC, LoopPC, AcquireUpdate, Goto,
           SetProof, Answer, TxOf, RowOf
  <2>4. ASSUME NEW h \in Grants PROVE ClockInv(h)'
    BY <1>9, <1>0 DEF ClockInv, InstallPC, AcquireUpdate, Goto, SetProof, Answer, TxOf,
           RowOf
  <2>5. ASSUME NEW h \in Grants PROVE ProofInv(h)'
    BY <1>9, <1>0 DEF ProofInv, ProvenPC, AcquiredPC, AcquireUpdate, Goto, SetProof,
           Answer, TxOf, RowOf
  <2>6. ASSUME NEW h \in Grants PROVE DeadlineInv(h)'
    BY <1>9, <1>0 DEF DeadlineInv, Granted, LoopPC, AcquireUpdate, Goto, SetProof, Answer,
           TxOf, RowOf
  <2>7. ASSUME NEW h \in Grants PROVE PositionInv(h)'
    BY <1>9, <1>0 DEF PositionInv, AcquireUpdate, Goto, SetProof, Answer, TxOf, RowOf
  <2> QED
    BY <2>1, <2>2, <2>3, <2>4, <2>5, <2>6, <2>7 DEF IInv
<1>10. ASSUME NEW g \in Grants, AcquireUnknown(g) PROVE IInv'
  <2>1. LockInv' /\ ExpiryInv' /\ EpochInv'
    BY <1>10, <1>0 DEF LockInv, LockedAcquire, LockedRenew, LockedRelease, ExpiryInv,
           EpochInv, Committed, AcquiredPC, LoopPC, AcquireUnknown, Goto, SetProof,
           StartProof
  <2>2. ASSUME NEW h \in Grants
        PROVE ClockInv(h)' /\ ProofInv(h)' /\ DeadlineInv(h)' /\ PositionInv(h)'
    BY <1>10, <1>0 DEF ClockInv, InstallPC, ProofInv, ProvenPC, AcquiredPC, DeadlineInv,
           Granted, LoopPC, PositionInv, AcquireUnknown, Goto, SetProof, StartProof
  <2> QED
    BY <2>1, <2>2 DEF IInv
<1>11. ASSUME NEW g \in Grants, ResolveAcquire(g) PROVE IInv'
  <2>1. LockInv' /\ ExpiryInv' /\ EpochInv'
    BY <1>11, <1>0 DEF LockInv, LockedAcquire, LockedRenew, LockedRelease, ExpiryInv,
           EpochInv, Committed, AcquiredPC, LoopPC, ResolveAcquire, Goto, SetProof, Answer,
           Fenced, Held
  <2>2. ASSUME NEW h \in Grants
        PROVE ClockInv(h)' /\ ProofInv(h)' /\ DeadlineInv(h)' /\ PositionInv(h)'
    BY <1>11, <1>0 DEF ClockInv, InstallPC, ProofInv, ProvenPC, AcquiredPC, DeadlineInv,
           Granted, LoopPC, PositionInv, ResolveAcquire, Goto, SetProof, Answer, Fenced,
           Held
  <2> QED
    BY <2>1, <2>2 DEF IInv
<1>12. ASSUME NEW g \in Grants, ResolveAcquireFail(g) PROVE IInv'
  <2>1. LockInv' /\ ExpiryInv' /\ EpochInv'
    BY <1>12, <1>0 DEF LockInv, LockedAcquire, LockedRenew, LockedRelease, ExpiryInv,
           EpochInv, Committed, AcquiredPC, LoopPC, ResolveAcquireFail, Goto, SetProof,
           NoProof
  <2>2. ASSUME NEW h \in Grants
        PROVE ClockInv(h)' /\ ProofInv(h)' /\ DeadlineInv(h)' /\ PositionInv(h)'
    BY <1>12, <1>0 DEF ClockInv, InstallPC, ProofInv, ProvenPC, AcquiredPC, DeadlineInv,
           Granted, LoopPC, PositionInv, ResolveAcquireFail, Goto, SetProof, NoProof
  <2> QED
    BY <2>1, <2>2 DEF IInv
<1>13. ASSUME NEW g \in Grants, AcquireAck(g) PROVE IInv'
  <2>1. LockInv' /\ ExpiryInv' /\ EpochInv'
    BY <1>13, <1>0 DEF LockInv, LockedAcquire, LockedRenew, LockedRelease, ExpiryInv,
           EpochInv, Committed, AcquiredPC, LoopPC, AcquireAck, Goto, SetProof, Evaluated,
           ConservativeRemaining
  <2>2. ASSUME NEW h \in Grants
        PROVE ClockInv(h)' /\ ProofInv(h)' /\ DeadlineInv(h)' /\ PositionInv(h)'
    BY <1>13, <1>0 DEF ClockInv, InstallPC, ProofInv, ProvenPC, AcquiredPC, DeadlineInv,
           Granted, LoopPC, PositionInv, AcquireAck, Goto, SetProof, Evaluated,
           ConservativeRemaining
  <2> QED
    BY <2>1, <2>2 DEF IInv
<1>14. ASSUME NEW g \in Grants, NewLease(g) PROVE IInv'
  <2>1. LockInv' /\ ExpiryInv' /\ EpochInv'
    BY <1>14, <1>0 DEF LockInv, LockedAcquire, LockedRenew, LockedRelease, ExpiryInv,
           EpochInv, Committed, AcquiredPC, LoopPC, NewLease, Goto, InstallDeadline,
           SetProof, NoProof
  <2>2. ASSUME NEW h \in Grants
        PROVE ClockInv(h)' /\ ProofInv(h)' /\ DeadlineInv(h)' /\ PositionInv(h)'
    BY <1>14, <1>0 DEF ClockInv, InstallPC, ProofInv, ProvenPC, AcquiredPC, DeadlineInv,
           Granted, LoopPC, PositionInv, NewLease, Goto, InstallDeadline, SetProof, NoProof
  <2> QED
    BY <2>1, <2>2 DEF IInv
<1>15. ASSUME NEW g \in Grants, LoopReturn(g) PROVE IInv'
  <2>1. LockInv' /\ ExpiryInv' /\ EpochInv'
    BY <1>15, <1>0 DEF LockInv, LockedAcquire, LockedRenew, LockedRelease, ExpiryInv,
           EpochInv, Committed, AcquiredPC, LoopPC, LoopReturn, MarkLost, Goto, SetProof, NoProof,
           LoopEnds
  <2>2. ASSUME NEW h \in Grants
        PROVE ClockInv(h)' /\ ProofInv(h)' /\ DeadlineInv(h)' /\ PositionInv(h)'
    BY <1>15, <1>0 DEF ClockInv, InstallPC, ProofInv, ProvenPC, AcquiredPC, DeadlineInv,
           Granted, LoopPC, PositionInv, LoopReturn, MarkLost, Goto, SetProof, NoProof, LoopEnds
  <2> QED
    BY <2>1, <2>2 DEF IInv
<1>16. ASSUME NEW g \in Grants, RenewStart(g) PROVE IInv'
  <2>1. LockInv' /\ ExpiryInv' /\ EpochInv'
    BY <1>16, <1>0 DEF LockInv, LockedAcquire, LockedRenew, LockedRelease, ExpiryInv,
           EpochInv, Committed, AcquiredPC, LoopPC, RenewStart, Goto, SetProof, StartProof
  <2>2. ASSUME NEW h \in Grants
        PROVE ClockInv(h)' /\ ProofInv(h)' /\ DeadlineInv(h)' /\ PositionInv(h)'
    BY <1>16, <1>0 DEF ClockInv, InstallPC, ProofInv, ProvenPC, AcquiredPC, DeadlineInv,
           Granted, LoopPC, PositionInv, ExpiryInv, FreeRow, RenewStart, Goto, SetProof,
           StartProof
  <2> QED
    BY <2>1, <2>2 DEF IInv
<1>17. ASSUME NEW g \in Grants, RenewUpdate(g) PROVE IInv'
  <2>1. LockInv'
    BY <1>17, <1>0 DEF LockInv, LockedAcquire, LockedRenew, LockedRelease, PositionInv,
           ClockInv, NoTx, RenewUpdate, Goto, SetProof, Answer, TxOf, RowOf, Fenced
  <2>2. ExpiryInv'
    BY <1>17, <1>0 DEF ExpiryInv, RenewUpdate, Goto, SetProof, Answer, TxOf, RowOf, Fenced
  <2>3. EpochInv'
    BY <1>17, <1>0 DEF EpochInv, Committed, AcquiredPC, LoopPC, RenewUpdate, Goto,
           SetProof, Answer, TxOf, RowOf, Fenced
  <2>4. ASSUME NEW h \in Grants PROVE ClockInv(h)'
    BY <1>17, <1>0 DEF ClockInv, InstallPC, RenewUpdate, Goto, SetProof, Answer, TxOf,
           RowOf, Fenced
  <2>5. ASSUME NEW h \in Grants PROVE ProofInv(h)'
    BY <1>17, <1>0 DEF ProofInv, ProvenPC, AcquiredPC, RenewUpdate, Goto, SetProof, Answer,
           TxOf, RowOf, Fenced
  <2>6. ASSUME NEW h \in Grants PROVE DeadlineInv(h)'
    BY <1>17, <1>0 DEF DeadlineInv, Granted, LoopPC, RenewUpdate, Goto, SetProof, Answer,
           TxOf, RowOf, Fenced
  <2>7. ASSUME NEW h \in Grants PROVE PositionInv(h)'
    BY <1>17, <1>0 DEF PositionInv, NoTx, RenewUpdate, Goto, SetProof, Answer, TxOf, RowOf,
           Fenced
  <2> QED
    BY <2>1, <2>2, <2>3, <2>4, <2>5, <2>6, <2>7 DEF IInv
<1>18. ASSUME NEW g \in Grants, RenewError(g) PROVE IInv'
  <2>1. LockInv' /\ ExpiryInv' /\ EpochInv'
    BY <1>18, <1>0 DEF LockInv, LockedAcquire, LockedRenew, LockedRelease, ExpiryInv,
           EpochInv, Committed, AcquiredPC, LoopPC, RenewError, Goto, SetProof, StartProof
  <2>2. ASSUME NEW h \in Grants
        PROVE ClockInv(h)' /\ ProofInv(h)' /\ DeadlineInv(h)' /\ PositionInv(h)'
    BY <1>18, <1>0 DEF ClockInv, InstallPC, ProofInv, ProvenPC, AcquiredPC, DeadlineInv,
           Granted, LoopPC, PositionInv, RenewError, Goto, SetProof, StartProof
  <2> QED
    BY <2>1, <2>2 DEF IInv
<1>19. ASSUME NEW g \in Grants, Observe(g) PROVE IInv'
  <2>1. LockInv' /\ ExpiryInv' /\ EpochInv'
    BY <1>19, <1>0 DEF LockInv, LockedAcquire, LockedRenew, LockedRelease, ExpiryInv,
           EpochInv, Committed, AcquiredPC, LoopPC, Observe, Goto, SetProof, Answer,
           Fenced, Held
  <2>2. ASSUME NEW h \in Grants
        PROVE ClockInv(h)' /\ ProofInv(h)' /\ DeadlineInv(h)' /\ PositionInv(h)'
    BY <1>19, <1>0 DEF ClockInv, InstallPC, ProofInv, ProvenPC, AcquiredPC, DeadlineInv,
           Granted, LoopPC, PositionInv, Observe, Goto, SetProof, Answer, Fenced, Held
  <2> QED
    BY <2>1, <2>2 DEF IInv
<1>20. ASSUME NEW g \in Grants, RenewAck(g) PROVE IInv'
  <2>1. LockInv' /\ ExpiryInv' /\ EpochInv'
    BY <1>20, <1>0 DEF LockInv, LockedAcquire, LockedRenew, LockedRelease, ExpiryInv,
           EpochInv, Committed, AcquiredPC, LoopPC, RenewAck, Goto, SetProof, Evaluated,
           ConservativeRemaining
  <2>2. ASSUME NEW h \in Grants
        PROVE ClockInv(h)' /\ ProofInv(h)' /\ DeadlineInv(h)' /\ PositionInv(h)'
    BY <1>20, <1>0 DEF ClockInv, InstallPC, ProofInv, ProvenPC, AcquiredPC, DeadlineInv,
           Granted, LoopPC, PositionInv, RenewAck, Goto, SetProof, Evaluated,
           ConservativeRemaining
  <2> QED
    BY <2>1, <2>2 DEF IInv
<1>21. ASSUME NEW g \in Grants, InstallRenewal(g) PROVE IInv'
  <2>1. LockInv' /\ ExpiryInv' /\ EpochInv'
    BY <1>21, <1>0 DEF LockInv, LockedAcquire, LockedRenew, LockedRelease, ExpiryInv,
           EpochInv, Committed, AcquiredPC, LoopPC, InstallRenewal, Goto, InstallDeadline,
           SetProof, NoProof
  <2>2. ASSUME NEW h \in Grants
        PROVE ClockInv(h)' /\ ProofInv(h)' /\ DeadlineInv(h)' /\ PositionInv(h)'
    BY <1>21, <1>0 DEF ClockInv, InstallPC, ProofInv, ProvenPC, AcquiredPC, DeadlineInv,
           Granted, LoopPC, PositionInv, InstallRenewal, Goto, InstallDeadline, SetProof,
           NoProof
  <2> QED
    BY <2>1, <2>2 DEF IInv
<1>22. ASSUME NEW g \in Grants, ReleaseBegin(g) PROVE IInv'
  <2>1. LockInv' /\ ExpiryInv' /\ EpochInv'
    BY <1>22, <1>0 DEF LockInv, LockedAcquire, LockedRenew, LockedRelease, ExpiryInv,
           EpochInv, Committed, AcquiredPC, LoopPC, ReleaseBegin, MarkLost
  <2>2. ASSUME NEW h \in Grants
        PROVE ClockInv(h)' /\ ProofInv(h)' /\ DeadlineInv(h)' /\ PositionInv(h)'
    BY <1>22, <1>0 DEF ClockInv, InstallPC, ProofInv, ProvenPC, AcquiredPC, DeadlineInv,
           Granted, LoopPC, PositionInv, ReleaseBegin, MarkLost
  <2> QED
    BY <2>1, <2>2 DEF IInv
<1>23. ASSUME NEW g \in Grants, ReleaseUpdate(g) PROVE IInv'
  <2>1. LockInv'
    BY <1>23, <1>0 DEF LockInv, LockedAcquire, LockedRenew, LockedRelease, PositionInv,
           NoTx, ReleaseUpdate, Cleared, TxOf, RowOf, Fenced
  <2>2. ExpiryInv'
    BY <1>23, <1>0 DEF ExpiryInv, ReleaseUpdate, Cleared, TxOf, RowOf, Fenced
  <2>3. EpochInv'
    BY <1>23, <1>0 DEF EpochInv, Committed, AcquiredPC, LoopPC, ReleaseUpdate, Cleared, TxOf, RowOf,
           Fenced
  <2>4. ASSUME NEW h \in Grants PROVE ClockInv(h)'
    BY <1>23, <1>0 DEF ClockInv, InstallPC, ReleaseUpdate, Cleared, TxOf, RowOf, Fenced
  <2>5. ASSUME NEW h \in Grants PROVE ProofInv(h)'
    BY <1>23, <1>0 DEF ProofInv, ProvenPC, AcquiredPC, ReleaseUpdate, Cleared, TxOf, RowOf, Fenced
  <2>6. ASSUME NEW h \in Grants PROVE DeadlineInv(h)'
    BY <1>23, <1>0 DEF DeadlineInv, Granted, LoopPC, ReleaseUpdate, Cleared, TxOf, RowOf, Fenced
  <2>7. ASSUME NEW h \in Grants PROVE PositionInv(h)'
    BY <1>23, <1>0 DEF PositionInv, NoTx, ReleaseUpdate, Cleared, TxOf, RowOf, Fenced
  <2> QED
    BY <2>1, <2>2, <2>3, <2>4, <2>5, <2>6, <2>7 DEF IInv
<1>24. ASSUME NEW g \in Grants, ReleaseComplete(g) PROVE IInv'
  <2>1. LockInv' /\ ExpiryInv' /\ EpochInv'
    BY <1>24, <1>0 DEF LockInv, LockedAcquire, LockedRenew, LockedRelease, ExpiryInv,
           EpochInv, Committed, AcquiredPC, LoopPC, ReleaseComplete
  <2>2. ASSUME NEW h \in Grants
        PROVE ClockInv(h)' /\ ProofInv(h)' /\ DeadlineInv(h)' /\ PositionInv(h)'
    BY <1>24, <1>0 DEF ClockInv, InstallPC, ProofInv, ProvenPC, AcquiredPC, DeadlineInv,
           Granted, LoopPC, PositionInv, ReleaseComplete
  <2> QED
    BY <2>1, <2>2 DEF IInv
<1>25. ASSUME NEW g \in Grants, ReleaseError(g) PROVE IInv'
  <2>1. LockInv' /\ ExpiryInv' /\ EpochInv'
    BY <1>25, <1>0 DEF LockInv, LockedAcquire, LockedRenew, LockedRelease, ExpiryInv,
           EpochInv, Committed, AcquiredPC, LoopPC, ReleaseError
  <2>2. ASSUME NEW h \in Grants
        PROVE ClockInv(h)' /\ ProofInv(h)' /\ DeadlineInv(h)' /\ PositionInv(h)'
    BY <1>25, <1>0 DEF ClockInv, InstallPC, ProofInv, ProvenPC, AcquiredPC, DeadlineInv,
           Granted, LoopPC, PositionInv, ReleaseError
  <2> QED
    BY <2>1, <2>2 DEF IInv
<1>26. ASSUME NEW s \in Stores, CloseCancel(s) PROVE IInv'
  <2>1. LockInv' /\ ExpiryInv' /\ EpochInv'
    BY <1>26, <1>0 DEF LockInv, LockedAcquire, LockedRenew, LockedRelease, ExpiryInv,
           EpochInv, Committed, AcquiredPC, LoopPC, CloseCancel
  <2>2. ASSUME NEW h \in Grants
        PROVE ClockInv(h)' /\ ProofInv(h)' /\ DeadlineInv(h)' /\ PositionInv(h)'
    BY <1>26, <1>0 DEF ClockInv, InstallPC, ProofInv, ProvenPC, AcquiredPC, DeadlineInv,
           Granted, LoopPC, PositionInv, CloseCancel
  <2> QED
    BY <2>1, <2>2 DEF IInv
<1>27. ASSUME NEW s \in Stores, CloseLeases(s) PROVE IInv'
  <2>1. LockInv' /\ ExpiryInv' /\ EpochInv'
    BY <1>27, <1>0 DEF LockInv, LockedAcquire, LockedRenew, LockedRelease, ExpiryInv,
           EpochInv, Committed, AcquiredPC, LoopPC, CloseLeases
  <2>2. ASSUME NEW h \in Grants
        PROVE ClockInv(h)' /\ ProofInv(h)' /\ DeadlineInv(h)' /\ PositionInv(h)'
    BY <1>27, <1>0 DEF ClockInv, InstallPC, ProofInv, ProvenPC, AcquiredPC, DeadlineInv,
           Granted, LoopPC, PositionInv, CloseLeases
  <2> QED
    BY <2>1, <2>2 DEF IInv
<1>28. ASSUME NEW s \in Stores, ClosePool(s) PROVE IInv'
  <2>1. LockInv' /\ ExpiryInv' /\ EpochInv'
    BY <1>28, <1>0 DEF LockInv, LockedAcquire, LockedRenew, LockedRelease, ExpiryInv,
           EpochInv, Committed, AcquiredPC, LoopPC, ClosePool
  <2>2. ASSUME NEW h \in Grants
        PROVE ClockInv(h)' /\ ProofInv(h)' /\ DeadlineInv(h)' /\ PositionInv(h)'
    BY <1>28, <1>0 DEF ClockInv, InstallPC, ProofInv, ProvenPC, AcquiredPC, DeadlineInv,
           Granted, LoopPC, PositionInv, ClosePool
  <2> QED
    BY <2>1, <2>2 DEF IInv
<1>29. ASSUME NEW s \in Stores, Crash(s) PROVE IInv'
  <2>1. LockInv'
    BY <1>29, <1>0 DEF LockInv, LockedAcquire, LockedRenew, LockedRelease, Crash, NoProof
  <2>2. ExpiryInv'
    BY <1>29, <1>0 DEF ExpiryInv, Crash, NoProof
  <2>3. EpochInv'
    BY <1>29, <1>0 DEF EpochInv, Committed, AcquiredPC, LoopPC, Crash, NoProof
  <2>4. ASSUME NEW h \in Grants PROVE ClockInv(h)'
    BY <1>29, <1>0 DEF ClockInv, InstallPC, Crash, NoProof
  <2>5. ASSUME NEW h \in Grants PROVE ProofInv(h)'
    BY <1>29, <1>0 DEF ProofInv, ProvenPC, AcquiredPC, Crash, NoProof
  <2>6. ASSUME NEW h \in Grants PROVE DeadlineInv(h)'
    BY <1>29, <1>0 DEF DeadlineInv, Granted, LoopPC, Crash, NoProof
  <2>7. ASSUME NEW h \in Grants PROVE PositionInv(h)'
    BY <1>29, <1>0 DEF PositionInv, Crash, NoProof
  <2> QED
    BY <2>1, <2>2, <2>3, <2>4, <2>5, <2>6, <2>7 DEF IInv
<1>30. CASE UNCHANGED vars
  BY <1>30, <1>0 DEF vars, IInv, LockInv, LockedAcquire, LockedRenew, LockedRelease,
         ExpiryInv, EpochInv, Committed, AcquiredPC, LoopPC, ClockInv, InstallPC, ProofInv,
         ProvenPC, DeadlineInv, Granted, PositionInv
<1> QED
  BY <1>1, <1>2, <1>3, <1>4, <1>5, <1>6, <1>7, <1>8, <1>9, <1>10, <1>11, <1>12, <1>13,
     <1>14, <1>15, <1>16, <1>17, <1>18, <1>19, <1>20, <1>21, <1>22, <1>23, <1>24, <1>25,
     <1>26, <1>27, <1>28, <1>29, <1>30
     DEF Next, AcquireStep, LoopStep, ReleaseStep

\* IInv says what a caller relies on.
LEMMA InvMeaning == IInv => MutualExclusion /\ FencingToken /\ UniqueEpochs
<1> SUFFICES ASSUME IInv PROVE MutualExclusion /\ FencingToken /\ UniqueEpochs
  OBVIOUS
<1> USE FieldTypes DEF IInv
<1>1. \A g \in Grants : AssertsOwnership(g) => row.holder = g
  BY DEF AssertsOwnership, DeadlineInv
<1>2. \A g \in Grants : Granted(g) => Committed(g)
  BY DEF Granted, Committed
<1>3. FencingToken
  <2> SUFFICES ASSUME NEW g \in Grants, AssertsOwnership(g)
               PROVE Fenced(g) /\ \A h \in Grants \ {g} : Granted(h) => epoch[h] < epoch[g]
    BY DEF FencingToken
  <2>1. row.holder = g /\ row.epoch = epoch[g] /\ Committed(g)
    BY <1>1 DEF EpochInv, Committed
  <2>2. ASSUME NEW h \in Grants \ {g}, Granted(h) PROVE epoch[h] < epoch[g]
    <3>1. Committed(h)
      BY <1>2, <2>2
    <3>2. epoch[h] <= epoch[g] /\ epoch[h] # epoch[g]
      BY <2>1, <3>1 DEF EpochInv
    <3>3. epoch[h] \in Int /\ epoch[g] \in Int
      BY DEF TypeOK, Epochs
    <3> HIDE FieldTypes DEF IInv
    <3> QED
      BY <3>2, <3>3
  <2> QED
    BY <2>1, <2>2 DEF Fenced
<1> QED
  BY <1>1, <1>2, <1>3 DEF MutualExclusion, UniqueEpochs, EpochInv

\* A step from a state of IInv changes the holder only as HandOver says.
LEMMA HandOverStep == IInv /\ [Next]_vars => [HandOver]_vars
<1> SUFFICES ASSUME IInv, Next PROVE HandOver
  BY DEF vars
<1>1. LockInv
  BY DEF IInv
<1>2. CASE Apply("acquire")
  BY <1>1, <1>2, FieldTypes DEF IInv, Apply, HandOver, LockInv, LockedAcquire, Held
<1>3. CASE Apply("renew")
  BY <1>1, <1>3 DEF Apply, HandOver, LockInv, LockedRenew
<1>4. CASE Apply("release")
  BY <1>1, <1>4 DEF Apply, HandOver, LockInv, LockedRelease
<1>5. Apply("acquire") \/ Apply("renew") \/ Apply("release") \/ UNCHANGED row
  BY DEF Next, AcquireStep, LoopStep, ReleaseStep, dbVars,
  CommitAcquire, CommitRenew, CommitRelease, ServerAbort, Tick, AcquireRefuse,
         AcquireSelect, AcquireFail, AcquireUpdate, AcquireUnknown, ResolveAcquire,
         ResolveAcquireFail, AcquireAck, NewLease, LoopReturn, RenewStart, RenewUpdate,
         RenewError, Observe, RenewAck, InstallRenewal, ReleaseBegin, ReleaseUpdate,
         ReleaseComplete, ReleaseError, CloseCancel, CloseLeases, ClosePool, Crash
<1> QED
  BY <1>2, <1>3, <1>4, <1>5 DEF HandOver

\* In every reachable state the row lock, the clock readings and the deadlines of all
\* handles fit the row, which is what the other theorems rest on.
THEOREM Inductive == Spec => []IInv
  BY InvInit, InvStep, PTL DEF Spec

\* Whatever the numbers of processes and calls, TTL, renewal interval and pause:
\* two handles never assert ownership at once, the one that does holds the row
\* and the greatest epoch of all handles, and no epoch is handed out twice.
THEOREM Safety == Spec => [](MutualExclusion /\ FencingToken /\ UniqueEpochs)
  BY Inductive, InvMeaning, PTL

\* The holder of the row changes only by its own release or by a takeover after
\* its expiry, and a takeover always takes the next epoch.
THEOREM HandOverTheorem == Spec => HandOverOnly
  BY InvInit, InvStep, HandOverStep, PTL DEF Spec, HandOverOnly

-----------------------------------------------------------------------------
(***************************************************************************)
(* Lease implements FencedLock.                                            *)
(***************************************************************************)
\* Whoever asserts ownership is the holder in the row, with its epoch, which is above 0;
\* so there is at most one.
OwnerHasToken ==
    \A g \in Owners : row.holder = g /\ Handles[g] = row.epoch /\ row.epoch > 0 /\ Owners = {g}

\* The inductive invariant says so.
LEMMA OwnerHolds == IInv => OwnerHasToken
<1> SUFFICES ASSUME IInv, NEW g \in Owners
             PROVE  row.holder = g /\ Handles[g] = row.epoch /\ row.epoch > 0 /\ Owners = {g}
  BY DEF OwnerHasToken
<1> USE FieldTypes DEF IInv, Owners
<1>1. g \in Grants /\ AssertsOwnership(g) /\ Granted(g)
  BY DEF AssertsOwnership
<1>2. \A h \in Owners : row.holder = h
  BY DEF AssertsOwnership, DeadlineInv
<1>3. row.holder = g /\ row.epoch = epoch[g]
  BY <1>1, <1>2 DEF EpochInv
<1>4. epoch[g] > 0
  BY <1>1 DEF PositionInv, Granted, LoopPC
<1> QED
  BY <1>1, <1>2, <1>3, <1>4 DEF Handles

\* No owner is left when an acquisition holds the row lock: the row has no holder, or
\* its expiry, and with it the deadline of the holder's handle, has passed.
LEMMA NoOwnerAtTakeover == IInv /\ tx.op = "acquire" => Owners = {}
<1> SUFFICES ASSUME IInv, tx.op = "acquire", NEW g \in Owners PROVE FALSE
  OBVIOUS
<1>1. row.holder = g /\ g \in Grants
  BY OwnerHolds DEF OwnerHasToken, Owners
<1>2. row.expires <= now
  BY <1>1 DEF IInv, LockInv, LockedAcquire
<1> QED
  BY <1>1, <1>2, FieldTypes DEF IInv, Owners, AssertsOwnership, DeadlineInv

\* A step that moves neither epoch nor holder of the row and returns no handle is at most
\* a change of the owners, of which only the holder can become one.
LEMMA QuietStep ==
  ASSUME OwnerHasToken', row'.epoch = row.epoch, row'.holder = row.holder, Handles' = Handles
  PROVE  Lock!LockNext
<1>1. CASE Owners' = {}
  BY <1>1 DEF Lock!LockNext, Lock!Leave
<1>2. CASE Owners' # {}
  <2>1. PICK g : g \in Owners'
    BY <1>2
  <2>2. g \in Grants /\ row.holder = g /\ Handles[g] = row.epoch /\ row.epoch > 0 /\ Owners' = {g}
    BY <2>1 DEF OwnerHasToken, Owners
  <2>3. Lock!Enter(g)
    BY <2>2 DEF Lock!Enter
  <2> QED
    BY <2>2, <2>3 DEF Lock!LockNext
<1> QED
  BY <1>1, <1>2

\* The steps of the database: a committed acquisition issues the next token, a committed
\* release gives one back, a committed renewal moves neither.
LEMMA CommitSteps ==
  ASSUME IInv, OwnerHasToken', CommitAcquire \/ CommitRenew \/ CommitRelease
  PROVE  Lock!LockNext
<1> USE FieldTypes DEF IInv
<1>1. CASE CommitAcquire
  <2>1. tx.op = "acquire" /\ tx.owner \in Grants /\ LockedAcquire
    BY <1>1 DEF CommitAcquire, Apply, LockInv
  <2>2. \A g \in Grants : Granted(g)' <=> Granted(g)
    BY <1>1, <2>1 DEF CommitAcquire, Granted, LoopPC
  <2>3. Owners = {} /\ Owners' = {}
    BY <1>1, <2>1, <2>2, NoOwnerAtTakeover
       DEF CommitAcquire, Owners, AssertsOwnership, leaseVars
  <2>4. Handles' = Handles
    BY <1>1, <2>2 DEF CommitAcquire, Handles, leaseVars
  <2>5. Handles[tx.owner] = 0
    BY <2>1 DEF LockedAcquire, Handles, Granted, LoopPC
  <2>6. row'.epoch = row.epoch + 1 /\ row'.holder = tx.owner
    BY <1>1, <2>1 DEF CommitAcquire, Apply, LockedAcquire
  <2>7. Lock!Issue(tx.owner)
    BY <2>3, <2>4, <2>5, <2>6 DEF Lock!Issue
  <2> QED
    BY <2>1, <2>7 DEF Lock!LockNext
<1>2. CASE CommitRenew
  <2>1. \A g \in Grants : Granted(g)' <=> Granted(g)
    BY <1>2 DEF CommitRenew, Granted, LoopPC
  <2>2. Handles' = Handles
    BY <1>2, <2>1 DEF CommitRenew, Handles, leaseVars
  <2>3. row'.epoch = row.epoch /\ row'.holder = row.holder
    BY <1>2 DEF CommitRenew, Apply, LockInv, LockedRenew
  <2> QED
    BY <2>2, <2>3, QuietStep
<1>3. CASE CommitRelease
  <2>1. /\ row.holder \in Grants /\ lost[row.holder]
        /\ row'.epoch = row.epoch /\ row'.holder = NoHolder
    BY <1>3 DEF CommitRelease, Apply, LockInv, LockedRelease
  <2>2. row.holder \notin Owners
    BY <2>1 DEF Owners, AssertsOwnership
  <2>3. Handles' = Handles /\ Owners' = Owners
    BY <1>3 DEF CommitRelease, Handles, Owners, AssertsOwnership, Granted, leaseVars
  <2>4. Lock!Vacate
    BY <2>1, <2>2, <2>3 DEF Lock!Vacate
  <2> QED
    BY <2>4 DEF Lock!LockNext
<1> QED
  BY <1>1, <1>2, <1>3

\* newLease delivers a token that no other handle carries, and the last one if the grant
\* still holds the row.
LEMMA NewLeaseStep ==
  ASSUME IInv, OwnerHasToken', NEW g \in Grants, NewLease(g)
  PROVE  Lock!LockNext
<1> USE FieldTypes DEF IInv
<1>1. /\ pc[g] = "acqInstall" /\ pc' = [pc EXCEPT ![g] = "wait"]
      /\ UNCHANGED <<now, row, epoch, lost>>
      /\ \A h \in Grants \ {g} : safeUntil'[h] = safeUntil[h]
  BY DEF NewLease, Goto, InstallDeadline, dbVars, TypeOK
<1>2. Handles[g] = 0 /\ ~Granted(g)
  BY <1>1 DEF Handles, Granted, LoopPC
<1>3. epoch[g] \in 1 .. row.epoch /\ Committed(g)
  BY <1>1 DEF EpochInv, Committed, AcquiredPC, PositionInv
<1>4. \A h \in Grants : Handles[h] # epoch[g]
  <2> SUFFICES ASSUME NEW h \in Grants, Granted(h), epoch[h] = epoch[g] PROVE FALSE
    BY <1>3 DEF Handles
  <2>1. Committed(h)
    BY DEF Granted, Committed
  <2> QED
    BY <1>2, <1>3, <2>1 DEF EpochInv
<1>5. row.holder = g => epoch[g] = row.epoch
  BY DEF EpochInv
<1>6. Handles' = [Handles EXCEPT ![g] = epoch[g]]
  BY <1>1 DEF Handles, Granted, LoopPC
<1>7. Owners' = Owners \/ (row.holder = g /\ Owners' = {g})
  <2>1. CASE g \in Owners'
    BY <1>1, <2>1 DEF OwnerHasToken
  <2>2. CASE g \notin Owners'
    <3>1. \A h \in Grants \ {g} : AssertsOwnership(h)' <=> AssertsOwnership(h)
      BY <1>1 DEF AssertsOwnership, Granted
    <3>2. ~AssertsOwnership(g)
      BY <1>2 DEF AssertsOwnership
    <3> QED
      BY <2>2, <3>1, <3>2 DEF Owners
  <2> QED
    BY <2>1, <2>2
<1>8. Lock!Deliver(g)
  BY <1>1, <1>2, <1>3, <1>4, <1>5, <1>6, <1>7 DEF Lock!Deliver
<1> QED
  BY <1>8 DEF Lock!LockNext

\* A crash takes the handles of its Store away, and nobody else's.
LEMMA CrashStep ==
  ASSUME TypeOK, NEW s \in Stores, Crash(s)
  PROVE  Lock!LockNext
<1> DEFINE S == {g \in Grants : StoreOf[g] = s}
<1>1. \A g \in S : ~Granted(g)'
  BY DEF Crash, Granted, LoopPC
<1>2. \A g \in Grants \ S : (Granted(g)' <=> Granted(g)) /\ safeUntil'[g] = safeUntil[g]
  BY DEF Crash, Granted
<1>3. UNCHANGED <<now, row, epoch, lost>>
  BY DEF Crash, dbVars
<1>4. Handles' = [g \in Grants |-> IF g \in S THEN 0 ELSE Handles[g]]
  BY <1>1, <1>2, <1>3 DEF Handles
<1>5. Owners' = Owners \ S
  BY <1>1, <1>2, <1>3 DEF Owners, AssertsOwnership
<1>6. Lock!Drop(S)
  BY <1>3, <1>4, <1>5 DEF Lock!Drop
<1> QED
  BY <1>6 DEF Lock!LockNext

\* Every other step leaves the epoch and the holder of the row and every handle alone.
LEMMA OtherSteps ==
  ASSUME TypeOK, Next,
         ~(CommitAcquire \/ CommitRenew \/ CommitRelease),
         \A g \in Grants : ~NewLease(g), \A s \in Stores : ~Crash(s)
  PROVE  UNCHANGED row /\ Handles' = Handles
<1>1. UNCHANGED row
  BY DEF Next, AcquireStep, LoopStep, ReleaseStep, dbVars, ServerAbort, Tick, AcquireRefuse,
         AcquireSelect, AcquireFail, AcquireUpdate, AcquireUnknown, ResolveAcquire,
         ResolveAcquireFail, AcquireAck, LoopReturn, RenewStart, RenewUpdate,
         RenewError, Observe, RenewAck, InstallRenewal, ReleaseBegin, ReleaseUpdate,
         ReleaseComplete, ReleaseError, CloseCancel, CloseLeases, ClosePool
<1>2. \/ \E g \in Grants : AcquireSelect(g)
      \/ UNCHANGED epoch
  BY DEF Next, AcquireStep, LoopStep, ReleaseStep, leaseVars, ServerAbort, Tick, AcquireRefuse,
         AcquireFail, AcquireUpdate, AcquireUnknown, ResolveAcquire,
         ResolveAcquireFail, AcquireAck, LoopReturn, RenewStart, RenewUpdate,
         RenewError, Observe, RenewAck, InstallRenewal, ReleaseBegin, ReleaseUpdate,
         ReleaseComplete, ReleaseError, CloseCancel, CloseLeases, ClosePool
<1>3. \/ UNCHANGED pc
      \/ \E g \in Grants :
            /\ pc[g] \notin LoopPC \cup {"stopped"} /\ Goto(g, pc'[g])
            /\ pc'[g] \notin LoopPC \cup {"stopped"}
      \/ \E g \in Grants :
            /\ pc[g] \in LoopPC \cup {"stopped"} /\ Goto(g, pc'[g])
            /\ pc'[g] \in LoopPC \cup {"stopped"}
  <2>1. CASE \E g \in Grants : \/ AcquireRefuse(g) \/ AcquireSelect(g) \/ AcquireFail(g)
                               \/ AcquireStep(g)
    <3>1. PICK g \in Grants : \/ AcquireRefuse(g) \/ AcquireSelect(g) \/ AcquireFail(g)
                             \/ AcquireStep(g)
      BY <2>1
    <3>2. ~NewLease(g)
      OBVIOUS
    <3>3. /\ pc[g] \notin LoopPC \cup {"stopped"} /\ Goto(g, pc'[g])
          /\ pc'[g] \notin LoopPC \cup {"stopped"}
      BY <3>1, <3>2
         DEF TypeOK, AcquireStep, AcquireRefuse, AcquireSelect, AcquireFail, AcquireUpdate,
             AcquireUnknown, ResolveAcquire, ResolveAcquireFail, AcquireAck, Goto, LoopPC
    <3> QED
      BY <3>3
  <2>2. CASE \E g \in Grants : LoopStep(g)
    BY <2>2 DEF TypeOK, LoopStep, LoopReturn, LoopEnds, RenewStart, RenewUpdate, RenewError,
           Observe, RenewAck, InstallRenewal, Goto, LoopPC
  <2>3. CASE UNCHANGED pc
    BY <2>3
  <2> QED
    BY <2>1, <2>2, <2>3
       DEF Next, ReleaseStep, ServerAbort, Tick, ReleaseBegin, ReleaseUpdate, ReleaseComplete,
           ReleaseError, CloseCancel, CloseLeases, ClosePool
<1>4. ASSUME NEW h \in Grants PROVE Granted(h)' <=> Granted(h)
  BY <1>3 DEF Granted, Goto, TypeOK
<1>5. ASSUME NEW h \in Grants, Granted(h) PROVE epoch'[h] = epoch[h]
  BY <1>2, <1>5 DEF Granted, LoopPC, AcquireSelect, TypeOK
<1> QED
  BY <1>1, <1>4, <1>5 DEF Handles

\* The Leaser implements a lock with fencing tokens, for every number of processes and
\* calls, TTL, renewal interval and pause, whatever is lost, late, in doubt or crashed.
THEOREM LockRefinement == Spec => ImplementsLock
<1>1. Init => Lock!LockInit
  BY DEF Init, Lock!LockInit, Handles, Owners, AssertsOwnership, Granted, LoopPC, RowOf
<1>2. IInv /\ OwnerHasToken' /\ [Next]_vars => [Lock!LockNext]_(Lock!lockVars)
  <2> SUFFICES ASSUME IInv, OwnerHasToken', [Next]_vars
               PROVE  Lock!LockNext \/ UNCHANGED Lock!lockVars
    OBVIOUS
  <2>0. TypeOK
    BY DEF IInv
  <2>1. CASE CommitAcquire \/ CommitRenew \/ CommitRelease
    BY <2>1, CommitSteps
  <2>2. CASE \E g \in Grants : NewLease(g)
    BY <2>2, NewLeaseStep
  <2>3. CASE \E s \in Stores : Crash(s)
    BY <2>0, <2>3, CrashStep
  <2>4. CASE /\ Next /\ ~(CommitAcquire \/ CommitRenew \/ CommitRelease)
             /\ \A g \in Grants : ~NewLease(g)
             /\ \A s \in Stores : ~Crash(s)
    <3>1. UNCHANGED row /\ Handles' = Handles
      BY <2>0, <2>4, OtherSteps
    <3> QED
      BY <3>1, QuietStep
  <2>5. CASE UNCHANGED vars
    BY <2>5 DEF vars, Lock!lockVars, Handles, Owners, AssertsOwnership, Granted
  <2> QED
    BY <2>1, <2>2, <2>3, <2>4, <2>5
<1>3. IInv => OwnerHasToken
  BY OwnerHolds
<1> QED
  BY <1>1, <1>2, <1>3, Inductive, PTL DEF Spec, ImplementsLock, Lock!LockSpec
-----------------------------------------------------------------------------
(***************************************************************************)
(* How far the two claims of the design that the runs lease_deadline and   *)
(* lease_release refute are nevertheless true.                             *)
(***************************************************************************)
\* While the row is the grant's, its answer in hand and its deadline are within it: the
\* expiry of a row never decreases as long as its holder stays.
HolderInv(g) ==
    row.holder = g =>
        /\ pc[g] \in ProvenPC => proof[g].expires <= row.expires
        /\ Granted(g) => safeUntil[g] <= row.expires + MaxPause

\* Only a handle is released, and one whose release is confirmed has no row.
ReleaseInv(g) ==
    /\ rel[g] # "idle" => Granted(g)
    /\ rel[g] = "reply" => row.holder # g

GrantInv == \A g \in Grants : HolderInv(g) /\ ReleaseInv(g)

\* The invariant holds before the first Acquire.
LEMMA GrantInit == Init => GrantInv
  BY DEF Init, GrantInv, HolderInv, ReleaseInv, RowOf

\* Every step of the database, of a call or of the clock keeps it.
LEMMA GrantStep == IInv /\ GrantInv /\ [Next]_vars => GrantInv'
<1> SUFFICES ASSUME IInv, GrantInv, [Next]_vars, NEW h \in Grants
             PROVE  HolderInv(h)' /\ ReleaseInv(h)'
  BY DEF GrantInv
<1>0. /\ TypeOK /\ LockInv /\ HolderInv(h) /\ ReleaseInv(h)
      /\ \A g \in Grants : ClockInv(g)
  BY DEF IInv, GrantInv
<1> USE <1>0, FieldTypes DEF HolderInv, ReleaseInv, Granted, ProvenPC, AcquiredPC, LoopPC,
                             dbVars, leaseVars
<1>1. CASE CommitAcquire
  BY <1>1 DEF CommitAcquire, Apply, LockInv, LockedAcquire, LockedRenew, LockedRelease
<1>2. CASE CommitRenew
  BY <1>2 DEF CommitRenew, Apply, LockInv, LockedAcquire, LockedRenew, LockedRelease
<1>3. CASE CommitRelease
  BY <1>3 DEF CommitRelease, Apply, LockInv, LockedAcquire, LockedRenew, LockedRelease
<1>4. CASE ServerAbort
  BY <1>4 DEF ServerAbort
<1>5. CASE Tick
  BY <1>5 DEF Tick, Held
<1>6. ASSUME NEW g \in Grants, AcquireRefuse(g) PROVE HolderInv(h)' /\ ReleaseInv(h)'
  BY <1>6 DEF AcquireRefuse, Goto
<1>7. ASSUME NEW g \in Grants, AcquireSelect(g) PROVE HolderInv(h)' /\ ReleaseInv(h)'
  BY <1>7 DEF AcquireSelect, Goto, SetProof
<1>8. ASSUME NEW g \in Grants, AcquireFail(g) PROVE HolderInv(h)' /\ ReleaseInv(h)'
  BY <1>8 DEF AcquireFail, Goto, SetProof
<1>9. ASSUME NEW g \in Grants, AcquireUpdate(g) PROVE HolderInv(h)' /\ ReleaseInv(h)'
  BY <1>9 DEF AcquireUpdate, Goto, SetProof
<1>10. ASSUME NEW g \in Grants, AcquireUnknown(g) PROVE HolderInv(h)' /\ ReleaseInv(h)'
  BY <1>10 DEF AcquireUnknown, Goto, SetProof
<1>11. ASSUME NEW g \in Grants, ResolveAcquire(g) PROVE HolderInv(h)' /\ ReleaseInv(h)'
  BY <1>11 DEF ResolveAcquire, Goto, SetProof, Answer
<1>12. ASSUME NEW g \in Grants, ResolveAcquireFail(g) PROVE HolderInv(h)' /\ ReleaseInv(h)'
  BY <1>12 DEF ResolveAcquireFail, Goto, SetProof
<1>13. ASSUME NEW g \in Grants, AcquireAck(g) PROVE HolderInv(h)' /\ ReleaseInv(h)'
  BY <1>13 DEF AcquireAck, Goto, SetProof, Evaluated
<1>14. ASSUME NEW g \in Grants, NewLease(g) PROVE HolderInv(h)' /\ ReleaseInv(h)'
  BY <1>14 DEF NewLease, Goto, InstallDeadline, SetProof, ClockInv, InstallPC
<1>15. ASSUME NEW g \in Grants, LoopReturn(g) PROVE HolderInv(h)' /\ ReleaseInv(h)'
  BY <1>15 DEF LoopReturn, LoopEnds, Goto, MarkLost, SetProof
<1>16. ASSUME NEW g \in Grants, RenewStart(g) PROVE HolderInv(h)' /\ ReleaseInv(h)'
  BY <1>16 DEF RenewStart, Goto, SetProof
<1>17. ASSUME NEW g \in Grants, RenewUpdate(g) PROVE HolderInv(h)' /\ ReleaseInv(h)'
  BY <1>17 DEF RenewUpdate, Goto, SetProof, Answer
<1>18. ASSUME NEW g \in Grants, RenewError(g) PROVE HolderInv(h)' /\ ReleaseInv(h)'
  BY <1>18 DEF RenewError, Goto, SetProof
<1>19. ASSUME NEW g \in Grants, Observe(g) PROVE HolderInv(h)' /\ ReleaseInv(h)'
  BY <1>19 DEF Observe, Goto, SetProof, Answer
<1>20. ASSUME NEW g \in Grants, RenewAck(g) PROVE HolderInv(h)' /\ ReleaseInv(h)'
  BY <1>20 DEF RenewAck, Goto, SetProof, Evaluated
<1>21. ASSUME NEW g \in Grants, InstallRenewal(g) PROVE HolderInv(h)' /\ ReleaseInv(h)'
  BY <1>21 DEF InstallRenewal, Goto, InstallDeadline, SetProof, ClockInv, InstallPC
<1>22. ASSUME NEW g \in Grants, ReleaseBegin(g) PROVE HolderInv(h)' /\ ReleaseInv(h)'
  BY <1>22 DEF ReleaseBegin, MarkLost
<1>23. ASSUME NEW g \in Grants, ReleaseUpdate(g) PROVE HolderInv(h)' /\ ReleaseInv(h)'
  BY <1>23 DEF ReleaseUpdate
<1>24. ASSUME NEW g \in Grants, ReleaseComplete(g) PROVE HolderInv(h)' /\ ReleaseInv(h)'
  BY <1>24 DEF ReleaseComplete
<1>25. ASSUME NEW g \in Grants, ReleaseError(g) PROVE HolderInv(h)' /\ ReleaseInv(h)'
  BY <1>25 DEF ReleaseError
<1>26. ASSUME NEW s \in Stores, CloseCancel(s) PROVE HolderInv(h)' /\ ReleaseInv(h)'
  BY <1>26 DEF CloseCancel
<1>27. ASSUME NEW s \in Stores, CloseLeases(s) PROVE HolderInv(h)' /\ ReleaseInv(h)'
  BY <1>27 DEF CloseLeases
<1>28. ASSUME NEW s \in Stores, ClosePool(s) PROVE HolderInv(h)' /\ ReleaseInv(h)'
  BY <1>28 DEF ClosePool
<1>29. ASSUME NEW s \in Stores, Crash(s) PROVE HolderInv(h)' /\ ReleaseInv(h)'
  BY <1>29 DEF Crash
<1>30. CASE UNCHANGED vars
  BY <1>30 DEF vars
<1> QED
  BY <1>1, <1>2, <1>3, <1>4, <1>5, <1>6, <1>7, <1>8, <1>9, <1>10, <1>11, <1>12,
     <1>13, <1>14, <1>15, <1>16, <1>17, <1>18, <1>19, <1>20, <1>21, <1>22, <1>23,
     <1>24, <1>25, <1>26, <1>27, <1>28, <1>29, <1>30
     DEF Next, AcquireStep, LoopStep, ReleaseStep

\* A deadline exceeds the expiry of the row by the pause at most ...
THEOREM DeadlineTheorem == Spec => []DeadlineWithinPause
<1>1. GrantInv => DeadlineWithinPause
  BY DEF GrantInv, HolderInv, DeadlineWithinPause
<1> QED
  BY <1>1, InvInit, InvStep, GrantInit, GrantStep, PTL DEF Spec

\* ... so that without a pause the claim of the design holds.
THEOREM NoPause ==
    ASSUME MaxPause = 0
    PROVE  Spec => []DeadlineWithinObservedExpiry
<1>1. TypeOK /\ DeadlineWithinPause => DeadlineWithinObservedExpiry
  BY FieldTypes DEF DeadlineWithinPause, DeadlineWithinObservedExpiry
<1> QED
  BY <1>1, TypeCorrect, DeadlineTheorem, PTL

\* A step of a released grant, or of its last renewal.
LEMMA ReleaseStepTrue ==
    ASSUME IInv, GrantInv, [Next]_vars, NEW g \in Grants,
           rel'[g] = "complete", OwnsRow(g)'
    PROVE  /\ rel[g] = "complete"
           /\ OwnsRow(g) \/ (tx.op = "renew" /\ tx.owner = g /\ row' = tx.row)
<1>0. TypeOK /\ LockInv /\ EpochInv /\ ReleaseInv(g)
  BY DEF IInv, GrantInv
<1> USE <1>0, FieldTypes DEF ReleaseInv, Granted, LoopPC, OwnsRow, Held, dbVars, leaseVars
<1>1. CASE CommitAcquire
  BY <1>1 DEF CommitAcquire, Apply, LockInv, LockedAcquire
<1>2. CASE CommitRenew
  BY <1>2 DEF CommitRenew, Apply, LockInv, LockedRenew
<1>3. CASE CommitRelease
  BY <1>3 DEF CommitRelease, Apply, LockInv, LockedRelease
<1>4. CASE Tick
  BY <1>4 DEF Tick
<1>5. ASSUME NEW h \in Grants, ReleaseBegin(h) \/ ReleaseStep(h)
      PROVE  rel[g] = "complete" /\ OwnsRow(g)
  <2>1. OwnsRow(g)
    BY <1>5 DEF ReleaseBegin, ReleaseStep, ReleaseUpdate, ReleaseComplete, ReleaseError
  <2>2. Fenced(g)
    BY <2>1 DEF Fenced, EpochInv
  <2> QED
    BY <1>5, <2>1, <2>2 DEF ReleaseBegin, ReleaseStep, ReleaseUpdate, ReleaseComplete, ReleaseError
<1>6. ASSUME NEW s \in Stores, Crash(s) PROVE rel[g] = "complete" /\ OwnsRow(g)
  BY <1>6 DEF Crash
<1>7. CASE UNCHANGED <<now, row, rel>>
  BY <1>7
<1> QED
  BY <1>1, <1>2, <1>3, <1>4, <1>5, <1>6, <1>7
     DEF Next, vars, ServerAbort, AcquireRefuse, AcquireSelect, AcquireFail, AcquireStep,
         AcquireUpdate, AcquireUnknown, ResolveAcquire, ResolveAcquireFail, AcquireAck, NewLease,
         LoopStep, LoopReturn, RenewStart, RenewUpdate, RenewError, Observe, RenewAck,
         InstallRenewal, CloseCancel, CloseLeases, ClosePool

\* Release returns nil only when the grant does not own the row, and it stays so but for a
\* renewal that was in doubt.
THEOREM ReleaseTheorem == Spec => ReleaseIsTrue
<1>1. IInv /\ GrantInv /\ [Next]_vars
      => [\A g \in Grants :
            rel'[g] = "complete" /\ OwnsRow(g)' =>
                /\ rel[g] = "complete"
                /\ OwnsRow(g) \/ (tx.op = "renew" /\ tx.owner = g /\ row' = tx.row)]_vars
  BY ReleaseStepTrue
<1> QED
  BY <1>1, InvInit, InvStep, GrantInit, GrantStep, PTL DEF Spec, ReleaseIsTrue
=============================================================================
