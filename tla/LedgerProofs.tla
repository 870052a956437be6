---------------------------- MODULE LedgerProofs ----------------------------
(***************************************************************************)
(* Proofs about Ledger: type correctness, and an inductive invariant from  *)
(* which the agreement of the two tables, the at-most-once effect of an    *)
(* Append and the meaning of its results follow.                           *)
(***************************************************************************)
EXTENDS Ledger, SequenceTheorems, TLAPS

USE CallAssumption, BoundAssumption

-----------------------------------------------------------------------------
\* The records and the calls that wrote them correspond.
RecordInv ==
    \A i \in Seqs : records[i] # NoCall =>
        commits[records[i]] = 1 /\ expected[records[i]] + 1 = i

\* What the position of a call says about its transaction.
CallInv(a) ==
    /\ commits[a] <= 1
    /\ pc[a] \in {"idle", "begun", "refused", "failed"} => commits[a] = 0 /\ lock # a
    /\ pc[a] = "commit" => commits[a] = 0
    /\ pc[a] = "acked" => commits[a] = 1
    /\ pc[a] = "begun" /\ ~stale[a] => seen[a] = Tip
    /\ lock = a => /\ commits[a] = 0 /\ Tip = expected[a]
                   /\ pc[a] \in {"commit", "resolve", "ambiguous"}
    /\ pc[a] = "ok" => \E b \in Appends : /\ commits[b] > 0 /\ expected[b] = expected[a]
                                          /\ payload[b] = payload[a]
    /\ Undeleted /\ commits[a] > 0 => records[expected[a] + 1] = a
    /\ Undeleted /\ pc[a] = "conflict" => commits[a] = 0 /\ lock # a

\* A statement on its way belongs to a Delete that was called.
PendingInv == \A d \in Deletes : pending[d] => dpc[d] # "idle"

\* Implied by Init, preserved by Next, and strong enough for the properties.
IInv ==
    /\ TypeOK /\ Contiguous /\ RecordInv /\ PendingInv
    /\ \A a \in Appends : CallInv(a)

-----------------------------------------------------------------------------
\* The initial ledger, absent and empty, has the types.
LEMMA TypeInit == Init => TypeOK
  BY DEF Init, TypeOK, NoScope, Empty, Seqs, PC, DPC, NoCursor, CursorOf

\* Every step of a call and of the server keeps the types.
LEMMA TypeStep == TypeOK /\ [Next]_vars => TypeOK'
<1> SUFFICES ASSUME TypeOK, [Next]_vars PROVE TypeOK'
  OBVIOUS
<1> USE DEF TypeOK, PC, Results, DPC, NoScope, Seqs, Tip, dbVars, appendVars, deleteVars, readVars
<1>1. ASSUME NEW a \in Appends, AppendBegin(a) PROVE TypeOK'
  BY <1>1 DEF AppendBegin, Begin, Goto
<1>2. ASSUME NEW a \in Appends, AppendConflict(a) PROVE TypeOK'
  BY <1>2 DEF AppendConflict, Goto
<1>3. ASSUME NEW a \in Appends, AppendStage(a) PROVE TypeOK'
  BY <1>3 DEF AppendStage, Goto
<1>4. ASSUME NEW a \in Appends, AppendRetry(a) PROVE TypeOK'
  BY <1>4 DEF AppendRetry, Begin, Goto, DefinitePC, MayRetry
<1>5. ASSUME NEW a \in Appends, AppendFail(a) PROVE TypeOK'
  BY <1>5 DEF AppendFail, Goto
<1>6. ASSUME NEW a \in Appends, CommitAppend(a) PROVE TypeOK'
  BY <1>6 DEF CommitAppend, Invalidate
<1>7. ASSUME NEW a \in Appends, AbortAppend(a) PROVE TypeOK'
  BY <1>7 DEF AbortAppend, Goto
<1>8. ASSUME NEW a \in Appends, AppendAck(a) PROVE TypeOK'
  BY <1>8 DEF AppendAck, Goto
<1>9. ASSUME NEW a \in Appends, AppendUnknown(a) PROVE TypeOK'
  BY <1>9 DEF AppendUnknown, Goto
<1>10. ASSUME NEW a \in Appends, ResolveAppend(a) PROVE TypeOK'
  BY <1>10 DEF ResolveAppend, Outcome, Goto
<1>11. ASSUME NEW d \in Deletes, DeleteBegin(d) PROVE TypeOK'
  BY <1>11 DEF DeleteBegin
<1>12. ASSUME NEW d \in Deletes, DeleteApply(d) PROVE TypeOK'
  BY <1>12 DEF DeleteApply, Invalidate, Cascade, Empty
<1>13. ASSUME NEW d \in Deletes, DeleteDrop(d) PROVE TypeOK'
  BY <1>13 DEF DeleteDrop
<1>14. ASSUME NEW d \in Deletes, DeleteReturn(d) PROVE TypeOK'
  BY <1>14 DEF DeleteReturn
<1>15. ASSUME NEW r \in Readers, Read(r) PROVE TypeOK'
  BY <1>15 DEF Read, CursorOf
<1>16. ASSUME NEW r \in Readers, CursorNext(r) PROVE TypeOK'
  BY <1>16 DEF CursorNext, CursorOf
<1>17. ASSUME NEW r \in Readers, CursorClose(r) PROVE TypeOK'
  BY <1>17 DEF CursorClose, CursorOf
<1>18. CASE UNCHANGED vars
  BY <1>18 DEF vars
<1> QED
  BY <1>1, <1>2, <1>3, <1>4, <1>5, <1>6, <1>7, <1>8, <1>9, <1>10, <1>11, <1>12, <1>13, <1>14, <1>15, <1>16, <1>17, <1>18
     DEF Next, AppendStep, DeleteStep, ReadStep

\* Append stops after MaxAttempts attempts, and every variable keeps its type.
THEOREM TypeCorrect == Spec => []TypeOK
  BY TypeInit, TypeStep, PTL DEF Spec

-----------------------------------------------------------------------------
\* The invariant holds of the absent ledger.
LEMMA InvInit == Init => IInv
  BY TypeInit DEF Init, IInv, TypeOK, Contiguous, RecordInv, PendingInv, CallInv, Undeleted, NoScope, Empty, Seqs, Tip

\* The record an Append would write has a sequence number in range.
LEMMA NextSeq ==
  ASSUME TypeOK, NEW a \in Appends
  PROVE  expected[a] \in Nat /\ expected[a] + 1 \in Seqs
  BY DEF TypeOK, Seqs

\* Every step of a call and of the server keeps the invariant.
LEMMA InvStep == IInv /\ [Next]_vars => IInv'
<1> SUFFICES ASSUME IInv, [Next]_vars PROVE IInv'
  OBVIOUS
<1> TypeOK /\ TypeOK'
  BY TypeStep DEF IInv
<1>0. Contiguous /\ RecordInv /\ PendingInv /\ \A a \in Appends : CallInv(a)
  BY DEF IInv
<1> USE DEF Undeleted, TypeOK, NoScope, Seqs, dbVars, appendVars, deleteVars, readVars
<1>1. ASSUME NEW a \in Appends, AppendBegin(a) PROVE IInv'
  <2>1. Contiguous'
    BY <1>1, <1>0 DEF Contiguous, CallInv, Tip, AppendBegin, Begin, Goto
  <2>2. RecordInv'
    BY <1>1, <1>0 DEF RecordInv, CallInv, AppendBegin, Begin, Goto
  <2>3. ASSUME NEW b \in Appends PROVE CallInv(b)'
    BY <1>1, <1>0 DEF CallInv, Contiguous, RecordInv, Tip, AppendBegin, Begin, Goto
  <2>9. PendingInv'
    BY <1>1, <1>0 DEF PendingInv, AppendBegin
  <2> QED
    BY <2>1, <2>2, <2>3, <2>9 DEF IInv
<1>2. ASSUME NEW a \in Appends, AppendConflict(a) PROVE IInv'
  <2>1. Contiguous'
    BY <1>2, <1>0 DEF Contiguous, CallInv, Tip, AppendConflict, Goto
  <2>2. RecordInv'
    BY <1>2, <1>0 DEF RecordInv, CallInv, AppendConflict, Goto
  <2>3. ASSUME NEW b \in Appends PROVE CallInv(b)'
    <3>1. /\ UNCHANGED <<tip, records, lock, commits, expected, payload, seen, stale, dpc>>
          /\ lock = NoCall /\ pc[a] = "begun" /\ pc' = [pc EXCEPT ![a] = "conflict"]
      BY <1>2 DEF AppendConflict, Goto
    <3>2. Tip' = Tip /\ (Undeleted' <=> Undeleted)
      BY <3>1 DEF Tip
    <3>3. CASE b = a
      BY <1>0, <3>1, <3>2, <3>3 DEF CallInv
    <3>4. CASE b # a
      BY <1>0, <3>1, <3>2, <3>4 DEF CallInv
    <3> QED
      BY <3>3, <3>4
  <2>9. PendingInv'
    BY <1>2, <1>0 DEF PendingInv, AppendConflict
  <2> QED
    BY <2>1, <2>2, <2>3, <2>9 DEF IInv
<1>3. ASSUME NEW a \in Appends, AppendStage(a) PROVE IInv'
  <2>1. Contiguous'
    BY <1>3, <1>0 DEF Contiguous, CallInv, Tip, AppendStage, Goto
  <2>2. RecordInv'
    BY <1>3, <1>0 DEF RecordInv, CallInv, AppendStage, Goto
  <2>3. ASSUME NEW b \in Appends PROVE CallInv(b)'
    BY <1>3, <1>0 DEF CallInv, Tip, AppendStage, CurrentSnapshot, Goto
  <2>9. PendingInv'
    BY <1>3, <1>0 DEF PendingInv, AppendStage
  <2> QED
    BY <2>1, <2>2, <2>3, <2>9 DEF IInv
<1>4. ASSUME NEW a \in Appends, AppendRetry(a) PROVE IInv'
  <2>1. Contiguous'
    BY <1>4, <1>0 DEF Contiguous, CallInv, Tip, AppendRetry, Begin, Goto, DefinitePC, MayRetry
  <2>2. RecordInv'
    BY <1>4, <1>0 DEF RecordInv, CallInv, AppendRetry, Begin, Goto, DefinitePC, MayRetry
  <2>3. ASSUME NEW b \in Appends PROVE CallInv(b)'
    BY <1>4, <1>0 DEF CallInv, Contiguous, RecordInv, Tip, AppendRetry, Begin, Goto, DefinitePC, MayRetry
  <2>9. PendingInv'
    BY <1>4, <1>0 DEF PendingInv, AppendRetry
  <2> QED
    BY <2>1, <2>2, <2>3, <2>9 DEF IInv
<1>5. ASSUME NEW a \in Appends, AppendFail(a) PROVE IInv'
  <2>1. Contiguous'
    BY <1>5, <1>0 DEF Contiguous, CallInv, Tip, AppendFail, Goto
  <2>2. RecordInv'
    BY <1>5, <1>0 DEF RecordInv, CallInv, AppendFail, Goto
  <2>3. ASSUME NEW b \in Appends PROVE CallInv(b)'
    BY <1>5, <1>0 DEF CallInv, Tip, AppendFail, DefinitePC, Goto
  <2>9. PendingInv'
    BY <1>5, <1>0 DEF PendingInv, AppendFail
  <2> QED
    BY <2>1, <2>2, <2>3, <2>9 DEF IInv
<1>6. ASSUME NEW a \in Appends, CommitAppend(a) PROVE IInv'
  <2>1. /\ lock = a /\ commits[a] = 0 /\ Tip = expected[a]
        /\ pc[a] \in {"commit", "resolve", "ambiguous"}
        /\ expected[a] + 1 \in Seqs
    BY <1>6, <1>0 DEF CallInv, CommitAppend
  <2>2. Contiguous'
    <3> SUFFICES ASSUME NEW i \in Seqs PROVE records'[i] # NoCall <=> i <= tip'
      BY DEF Contiguous
    <3>1. CASE i = expected[a] + 1
      BY <1>6, <2>1, <3>1 DEF CommitAppend
    <3>2. CASE i # expected[a] + 1
      <4>1. records'[i] = records[i]
        BY <1>6, <3>2 DEF CommitAppend
      <4>2. i <= tip <=> i <= tip'
        BY <1>6, <2>1, <3>2 DEF CommitAppend, Tip
      <4> QED
        BY <1>0, <4>1, <4>2 DEF Contiguous
    <3> QED
      BY <3>1, <3>2
  <2>3. RecordInv'
    BY <1>6, <1>0 DEF RecordInv, CallInv, CommitAppend, Invalidate
  <2>4. \A b \in Appends : commits[b] > 0 => commits'[b] > 0
    BY <1>6 DEF CommitAppend
  <2>5. CallInv(a)'
    BY <1>6, <2>1 DEF CallInv, CommitAppend, Invalidate
  <2>6. ASSUME NEW b \in Appends, b # a PROVE CallInv(b)'
    <3>1. CallInv(b)
      BY <1>0
    <3>2. /\ commits'[b] = commits[b] /\ pc'[b] = pc[b] /\ lock' # b /\ lock # b
          /\ stale'[b]
      BY <1>6, <2>6 DEF CommitAppend, Invalidate
    <3>3. pc[b] = "ok" => \E c \in Appends : /\ commits'[c] > 0 /\ expected[c] = expected[b]
                                            /\ payload[c] = payload[b]
      BY <2>4, <3>1 DEF CallInv
    <3>4. expected' = expected /\ payload' = payload /\ dpc' = dpc
      BY <1>6 DEF CommitAppend, deleteVars
    <3>5. Undeleted /\ commits[b] > 0 => records'[expected[b] + 1] = b
      <4>1. records[expected[a] + 1] = NoCall
        <5>1. ~(expected[a] + 1 <= tip)
          <6>1. expected[a] \in Nat
            BY NextSeq
          <6>2. tip \in Int /\ (tip = NoScope \/ tip = expected[a])
            BY <2>1 DEF Tip
          <6> HIDE DEF TypeOK
          <6> QED
            BY <6>1, <6>2
        <5> QED
          BY <1>0, <2>1, <5>1 DEF Contiguous
      <4>2. Undeleted /\ commits[b] > 0 => records[expected[b] + 1] = b
        BY <3>1 DEF CallInv
      <4> QED
        BY <1>6, <4>1, <4>2 DEF CommitAppend
    <3> QED
      BY <3>1, <3>2, <3>3, <3>4, <3>5 DEF CallInv
  <2>9. PendingInv'
    BY <1>6, <1>0 DEF PendingInv, CommitAppend
  <2> QED
    BY <2>2, <2>3, <2>5, <2>6, <2>9 DEF IInv
<1>7. ASSUME NEW a \in Appends, AbortAppend(a) PROVE IInv'
  <2>1. Contiguous'
    BY <1>7, <1>0 DEF Contiguous, CallInv, Tip, AbortAppend, Goto
  <2>2. RecordInv'
    BY <1>7, <1>0 DEF RecordInv, CallInv, AbortAppend, Goto
  <2>3. ASSUME NEW b \in Appends PROVE CallInv(b)'
    BY <1>7, <1>0 DEF CallInv, Contiguous, RecordInv, Tip, AbortAppend, Goto
  <2>9. PendingInv'
    BY <1>7, <1>0 DEF PendingInv, AbortAppend
  <2> QED
    BY <2>1, <2>2, <2>3, <2>9 DEF IInv
<1>8. ASSUME NEW a \in Appends, AppendAck(a) PROVE IInv'
  <2>1. Contiguous'
    BY <1>8, <1>0 DEF Contiguous, CallInv, Tip, AppendAck, Goto
  <2>2. RecordInv'
    BY <1>8, <1>0 DEF RecordInv, CallInv, AppendAck, Goto
  <2>3. ASSUME NEW b \in Appends PROVE CallInv(b)'
    BY <1>8, <1>0 DEF CallInv, Contiguous, RecordInv, Tip, AppendAck, Goto
  <2>9. PendingInv'
    BY <1>8, <1>0 DEF PendingInv, AppendAck
  <2> QED
    BY <2>1, <2>2, <2>3, <2>9 DEF IInv
<1>9. ASSUME NEW a \in Appends, AppendUnknown(a) PROVE IInv'
  <2>1. Contiguous'
    BY <1>9, <1>0 DEF Contiguous, CallInv, Tip, AppendUnknown, Goto
  <2>2. RecordInv'
    BY <1>9, <1>0 DEF RecordInv, CallInv, AppendUnknown, Goto
  <2>3. ASSUME NEW b \in Appends PROVE CallInv(b)'
    BY <1>9, <1>0 DEF CallInv, Contiguous, RecordInv, Tip, AppendUnknown, Goto
  <2>9. PendingInv'
    BY <1>9, <1>0 DEF PendingInv, AppendUnknown
  <2> QED
    BY <2>1, <2>2, <2>3, <2>9 DEF IInv
<1>10. ASSUME NEW a \in Appends, ResolveAppend(a) PROVE IInv'
  <2>1. Contiguous' /\ RecordInv'
    BY <1>10, <1>0 DEF Contiguous, RecordInv, ResolveAppend
  <2>2. ASSUME NEW b \in Appends, b # a PROVE CallInv(b)'
    BY <1>10, <1>0, <2>2 DEF CallInv, Tip, ResolveAppend, Goto
  <2>3. CallInv(a)'
    <3>1. PICK result \in {Outcome(a), "ambiguous"} : pc' = [pc EXCEPT ![a] = result]
      BY <1>10 DEF ResolveAppend, Goto
    <3>2. expected[a] \in Nat /\ expected[a] + 1 \in Seqs
      BY NextSeq
    <3>3. result \in {"ok", "conflict", "ambiguous"}
      BY <3>1 DEF Outcome
    <3>4. result # "ambiguous" => records[expected[a] + 1] # NoCall
      BY <3>1 DEF Outcome
    <3>5. result # "ambiguous" => lock # a
      <4>1. result # "ambiguous" => expected[a] + 1 <= tip
        BY <1>0, <3>2, <3>4 DEF Contiguous
      <4>2. lock = a => Tip = expected[a]
        BY <1>0 DEF CallInv
      <4> QED
        BY <3>2, <4>1, <4>2 DEF Tip
    <3>6. result = "ok" => \E b \in Appends : /\ commits[b] > 0 /\ expected[b] = expected[a]
                                             /\ payload[b] = payload[a]
      <4> SUFFICES ASSUME result = "ok"
                   PROVE  \E b \in Appends : /\ commits[b] > 0 /\ expected[b] = expected[a]
                                             /\ payload[b] = payload[a]
        OBVIOUS
      <4>1. records[expected[a] + 1] \in Appends
        BY <3>2, <3>4
      <4>2. payload[records[expected[a] + 1]] = payload[a]
        BY <3>1 DEF Outcome
      <4>3. commits[records[expected[a] + 1]] = 1
            /\ expected[records[expected[a] + 1]] = expected[a]
        <5> DEFINE c == records[expected[a] + 1]
        <5>1. c # NoCall /\ c \in Appends
          BY <4>1
        <5>2. commits[c] = 1 /\ expected[c] + 1 = expected[a] + 1
          BY <1>0, <3>2, <5>1 DEF RecordInv
        <5>3. expected[c] \in Nat
          BY <5>1, NextSeq
        <5>4. expected[c] = expected[a]
          <6> HIDE DEF c, TypeOK
          <6> QED
            BY <3>2, <5>2, <5>3
        <5> QED
          BY <5>2, <5>4
      <4> QED
        BY <4>1, <4>2, <4>3
    <3>7. pc'[a] = result /\ UNCHANGED <<tip, lock, commits, expected, payload, seen, stale>>
      BY <1>10, <3>1 DEF ResolveAppend
    <3>8. pc[a] = "resolve" /\ CallInv(a) /\ UNCHANGED <<records, dpc>>
      BY <1>10, <1>0 DEF ResolveAppend
    <3>9. result = "conflict" => payload[records[expected[a] + 1]] # payload[a]
      BY <3>1 DEF Outcome
    <3>10. Undeleted /\ result = "conflict" => commits[a] = 0
      BY <3>8, <3>9 DEF CallInv
    <3> QED
      BY <3>3, <3>5, <3>6, <3>7, <3>8, <3>10 DEF CallInv, Tip
  <2>9. PendingInv'
    BY <1>10, <1>0 DEF PendingInv, ResolveAppend
  <2> QED
    BY <2>1, <2>2, <2>3, <2>9 DEF IInv
<1>11. ASSUME NEW d \in Deletes, DeleteBegin(d) PROVE IInv'
  BY <1>11, <1>0 DEF DeleteBegin, IInv, Contiguous, RecordInv, PendingInv, CallInv, Tip
<1>12. ASSUME NEW d \in Deletes, DeleteApply(d) PROVE IInv'
  <2>1. Contiguous'
    BY <1>12, <1>0 DEF Contiguous, CallInv, Tip, DeleteApply, Invalidate, Cascade, Empty
  <2>2. RecordInv'
    BY <1>12, <1>0 DEF RecordInv, CallInv, DeleteApply, Invalidate, Cascade, Empty
  <2>3. ASSUME NEW b \in Appends PROVE CallInv(b)'
    BY <1>12, <1>0 DEF CallInv, Contiguous, RecordInv, PendingInv, Tip, DeleteApply, Invalidate, Cascade, Empty
  <2>4. PendingInv'
    BY <1>12, <1>0 DEF PendingInv, DeleteApply
  <2> QED
    BY <2>1, <2>2, <2>3, <2>4 DEF IInv
<1>13. ASSUME NEW d \in Deletes, DeleteDrop(d) PROVE IInv'
  BY <1>13, <1>0 DEF DeleteDrop, IInv, Contiguous, RecordInv, PendingInv, CallInv, Tip
<1>14. ASSUME NEW d \in Deletes, DeleteReturn(d) PROVE IInv'
  BY <1>14, <1>0 DEF DeleteReturn, IInv, Contiguous, RecordInv, PendingInv, CallInv, Tip
<1>15. ASSUME NEW r \in Readers, Read(r) PROVE IInv'
  <2>1. UNCHANGED <<dbVars, appendVars, deleteVars>>
    BY <1>15 DEF Read
  <2> QED
    BY <2>1, <1>0 DEF IInv, Contiguous, RecordInv, PendingInv, CallInv, Tip
<1>16. ASSUME NEW r \in Readers, CursorNext(r) PROVE IInv'
  <2>1. UNCHANGED <<dbVars, appendVars, deleteVars>>
    BY <1>16 DEF CursorNext
  <2> QED
    BY <2>1, <1>0 DEF IInv, Contiguous, RecordInv, PendingInv, CallInv, Tip
<1>17. ASSUME NEW r \in Readers, CursorClose(r) PROVE IInv'
  <2>1. UNCHANGED <<dbVars, appendVars, deleteVars>>
    BY <1>17 DEF CursorClose
  <2> QED
    BY <2>1, <1>0 DEF IInv, Contiguous, RecordInv, PendingInv, CallInv, Tip
<1>18. CASE UNCHANGED vars
  BY <1>18, <1>0 DEF vars, IInv, Contiguous, RecordInv, PendingInv, CallInv, Tip
<1> QED
  BY <1>1, <1>2, <1>3, <1>4, <1>5, <1>6, <1>7, <1>8, <1>9, <1>10, <1>11, <1>12, <1>13, <1>14, <1>15, <1>16, <1>17, <1>18
     DEF Next, AppendStep, DeleteStep, ReadStep

\* The properties read off the invariant.
LEMMA InvMeaning ==
  IInv => /\ Contiguous /\ AppendedAtMostOnce /\ FailureIsDefinite /\ SuccessIsDurable
          /\ ConflictIsDefinite
  BY DEF IInv, AppendedAtMostOnce, FailureIsDefinite, SuccessIsDurable, ConflictIsDefinite,
         ConflictNeverAppended, CallInv

\* Whatever the number of concurrent calls: the records are exactly those from 1
\* to the tip; no Append takes effect twice; a definite error, and in a ledger
\* nobody deletes a conflict, means it never did; and success means that a durable
\* record carries its payload.
THEOREM Safety ==
  Spec => []( /\ Contiguous /\ AppendedAtMostOnce /\ FailureIsDefinite /\ SuccessIsDurable
              /\ ConflictIsDefinite )
  BY InvInit, InvStep, InvMeaning, PTL DEF Spec

\* No two callers append the same bytes.
DistinctPayloads == \A a, b \in Appends : payload[a] = payload[b] => a = b

\* Then an Append that returned nil has appended its own record: resolveAppend can only
\* mistake an equal payload for the caller's.
THEOREM OwnSuccess == Spec => [](DistinctPayloads => SuccessIsOwn)
<1>1. SuccessIsDurable /\ DistinctPayloads => SuccessIsOwn
  BY DEF SuccessIsDurable, DistinctPayloads, SuccessIsOwn
<1> QED
  BY <1>1, Safety, PTL

\* A step from a state of IInv changes the records only as ExtendOrErase says.
LEMMA ExtendOrEraseStep == IInv /\ [Next]_vars => [ExtendOrErase]_vars
<1> SUFFICES ASSUME IInv, Next PROVE ExtendOrErase
  BY DEF vars, ExtendOrErase
<1>1. ASSUME NEW a \in Appends, CommitAppend(a) PROVE ExtendOrErase
  <2>1. Tip = expected[a]
    BY <1>1 DEF IInv, CallInv, CommitAppend
  <2> QED
    BY <1>1, <2>1 DEF CommitAppend, ExtendOrErase
<1>2. ASSUME NEW d \in Deletes, DeleteApply(d) PROVE ExtendOrErase
  BY <1>2 DEF DeleteApply, Cascade, ExtendOrErase
<1>3. ASSUME NEW a \in Appends, AppendStep(a), ~CommitAppend(a) PROVE UNCHANGED records
  BY <1>3 DEF AppendStep, AppendBegin, AppendConflict, AppendStage, AppendRetry, AppendFail,
         AbortAppend, AppendAck, AppendUnknown, ResolveAppend, dbVars
<1>4. ASSUME NEW d \in Deletes, DeleteStep(d), ~DeleteApply(d) PROVE UNCHANGED records
  BY <1>4 DEF DeleteStep, DeleteBegin, DeleteDrop, DeleteReturn, dbVars
<1>5. ASSUME NEW r \in Readers, ReadStep(r) PROVE UNCHANGED records
  BY <1>5 DEF ReadStep, Read, CursorNext, CursorClose, dbVars
<1> QED
  BY <1>1, <1>2, <1>3, <1>4, <1>5 DEF Next, ExtendOrErase

\* The ledger grows by one record at its tip or is deleted whole; no step of any
\* number of concurrent calls overwrites, moves or removes a single record.
THEOREM AppendOnly == Spec => AppendOnlyLog
  BY InvInit, InvStep, ExtendOrEraseStep, PTL DEF Spec, AppendOnlyLog

-----------------------------------------------------------------------------
\* The rows a cursor still holds begin where the delivered ones end, without a gap.
CursorInv(r) ==
    /\ cursor[r].from = 0 => delivered[r] = <<>>
    /\ cursor[r].open => cursor[r].from > 0
    /\ \A k \in 1 .. Len(delivered[r]) : delivered[r][k] = cursor[r].from + k - 1
    /\ \A i \in cursor[r].rows :
          /\ cursor[r].from + Len(delivered[r]) <= i
          /\ \A j \in Seqs : cursor[r].from + Len(delivered[r]) <= j /\ j <= i => j \in cursor[r].rows

\* No cursor holds anything initially.
LEMMA CursorInit == Init => \A r \in Readers : CursorInv(r)
  BY DEF Init, CursorInv, NoCursor, CursorOf

\* A Read takes consecutive rows because the records have no gap, and Next delivers
\* the first of them; nothing else touches a cursor.
LEMMA CursorStep ==
  IInv /\ (\A r \in Readers : CursorInv(r)) /\ [Next]_vars => (\A r \in Readers : CursorInv(r))'
<1> SUFFICES ASSUME IInv, \A r \in Readers : CursorInv(r), [Next]_vars, NEW q \in Readers
             PROVE  CursorInv(q)'
  OBVIOUS
<1>0. /\ cursor[q] \in [from : Nat, rows : SUBSET Seqs, open : BOOLEAN]
      /\ delivered[q] \in Seq(Seqs) /\ tip \in Int
      /\ cursor \in [Readers -> [from : Nat, rows : SUBSET Seqs, open : BOOLEAN]]
      /\ delivered \in [Readers -> Seq(Seqs)]
  BY DEF IInv, TypeOK, NoScope, Seqs
<1>1. CASE UNCHANGED readVars
  BY <1>1 DEF readVars, CursorInv
<1>2. ASSUME NEW r \in Readers, Read(r) PROVE CursorInv(q)'
  <2>1. CASE q = r
    <3>1. PICK from \in Nat \ {0} :
             cursor'[q] = CursorOf(from, {i \in Seqs : i >= from /\ records[i] # NoCall}, TRUE)
      <4>1. PICK asked \in 0 .. MaxSeq : LET from == IF asked < 1 THEN 1 ELSE asked IN
               cursor' = [cursor EXCEPT ![q] =
                   CursorOf(from, {i \in Seqs : i >= from /\ records[i] # NoCall}, TRUE)]
        BY <1>2, <2>1 DEF Read
      <4>2. CASE asked < 1
        <5>1. cursor' = [cursor EXCEPT ![q] =
                  CursorOf(1, {i \in Seqs : i >= 1 /\ records[i] # NoCall}, TRUE)]
          BY <4>1, <4>2
        <5>2. 1 \in Nat \ {0}
          OBVIOUS
        <5> QED
          BY <1>0, <5>1, <5>2
      <4>3. CASE ~(asked < 1)
        <5>1. asked \in Nat \ {0}
          BY <4>3
        <5> QED
          BY <1>0, <4>1, <4>3, <5>1
      <4> QED
        BY <4>2, <4>3
    <3>2. delivered'[q] = <<>>
      BY <1>2, <1>0, <2>1 DEF Read, NoCursor, CursorOf, CursorInv
    <3>3. \A i, j \in Seqs : records[i] # NoCall /\ j <= i => records[j] # NoCall
      BY <1>0 DEF IInv, Contiguous, Seqs
    <3> QED
      BY <3>1, <3>2, <3>3 DEF CursorInv, CursorOf, Seqs
  <2>2. CASE q # r
    BY <1>2, <1>0, <2>2 DEF Read, CursorInv
  <2> QED
    BY <2>1, <2>2
<1>3. ASSUME NEW r \in Readers, CursorNext(r) PROVE CursorInv(q)'
  <2>1. CASE q = r
    <3>1. PICK i \in cursor[q].rows :
             /\ First(i, cursor[q].rows)
             /\ cursor' = [cursor EXCEPT ![q] = CursorOf(@.from, @.rows \ {i}, TRUE)]
             /\ delivered' = [delivered EXCEPT ![q] = Append(@, i)]
      BY <1>3, <2>1 DEF CursorNext
    <3> DEFINE n == cursor[q].from + Len(delivered[q])
    <3>2. cursor[q].from > 0 /\ cursor[q].from \in Nat /\ Len(delivered[q]) \in Nat
      BY <1>3, <1>0, <2>1 DEF CursorInv, CursorNext
    <3>3. i \in Seqs /\ n \in Seqs /\ n <= i
      BY <1>0, <3>2 DEF CursorInv, Seqs
    <3>4. i = n
      <4>1. n \in cursor[q].rows
        <5>1. n <= n
          BY <3>2
        <5> QED
          BY <3>3, <5>1 DEF CursorInv
      <4>2. i <= n
        BY <3>1, <4>1 DEF First
      <4> QED
        BY <3>3, <4>2 DEF Seqs
    <3>5. /\ cursor'[q].from = cursor[q].from /\ cursor'[q].open
          /\ cursor'[q].rows = cursor[q].rows \ {i}
      BY <1>0, <3>1 DEF CursorOf
    <3>6. delivered'[q] = Append(delivered[q], i)
      BY <1>0, <3>1
    <3>7. /\ Len(delivered'[q]) = Len(delivered[q]) + 1
          /\ \A k \in 1 .. Len(delivered[q]) : delivered'[q][k] = delivered[q][k]
          /\ delivered'[q][Len(delivered[q]) + 1] = i
      BY <1>0, <3>3, <3>6
    <3>8. \A k \in 1 .. Len(delivered'[q]) : delivered'[q][k] = cursor'[q].from + k - 1
      <4> SUFFICES ASSUME NEW k \in 1 .. Len(delivered'[q])
                   PROVE  delivered'[q][k] = cursor'[q].from + k - 1
        OBVIOUS
      <4>1. CASE k = Len(delivered[q]) + 1
        BY <3>2, <3>4, <3>5, <3>7, <4>1
      <4>2. CASE k \in 1 .. Len(delivered[q])
        BY <3>5, <3>7, <4>2 DEF CursorInv
      <4> QED
        BY <3>2, <3>7, <4>1, <4>2
    <3>9. ASSUME NEW m \in cursor'[q].rows
          PROVE  /\ n + 1 <= m
                 /\ \A j \in Seqs : n + 1 <= j /\ j <= m => j \in cursor'[q].rows
      <4>1. m \in Seqs /\ m \in cursor[q].rows /\ m # n
        BY <1>0, <3>4, <3>5
      <4> QED
        BY <3>2, <3>4, <3>5, <4>1 DEF CursorInv, Seqs
    <3> QED
      BY <3>2, <3>5, <3>7, <3>8, <3>9 DEF CursorInv
  <2>2. CASE q # r
    BY <1>3, <1>0, <2>2 DEF CursorNext, CursorInv
  <2> QED
    BY <2>1, <2>2
<1>4. ASSUME NEW r \in Readers, CursorClose(r) PROVE CursorInv(q)'
  BY <1>4, <1>0 DEF CursorClose, CursorInv, CursorOf
<1>5. ASSUME NEW a \in Appends, AppendStep(a) PROVE UNCHANGED readVars
  BY <1>5 DEF AppendStep, AppendBegin, AppendConflict, AppendStage, AppendRetry, AppendFail,
         CommitAppend, AbortAppend, AppendAck, AppendUnknown, ResolveAppend
<1>6. ASSUME NEW d \in Deletes, DeleteStep(d) PROVE UNCHANGED readVars
  BY <1>6 DEF DeleteStep, DeleteBegin, DeleteApply, DeleteDrop, DeleteReturn
<1>7. UNCHANGED vars => UNCHANGED readVars
  BY DEF vars, readVars
<1> QED
  BY <1>1, <1>2, <1>3, <1>4, <1>5, <1>6, <1>7 DEF Next, ReadStep

\* Whatever is appended and deleted while a cursor is drained, it delivers consecutive
\* sequence numbers from where its Read began.
THEOREM CursorTheorem == Spec => []CursorGapFree
<1>1. (\A r \in Readers : CursorInv(r)) => CursorGapFree
  BY DEF CursorInv, CursorGapFree
<1> QED
  BY InvInit, InvStep, CursorInit, CursorStep, <1>1, PTL DEF Spec

-----------------------------------------------------------------------------
(***************************************************************************)
(* Ledger implements AppendLog.                                            *)
(***************************************************************************)
\* Seen from outside, the ledger is a sequence as long as its tip.
LEMMA LogIsSeq ==
  ASSUME TypeOK, Contiguous
  PROVE  Log \in Seq(Appends) /\ Len(Log) = Tip /\ Tip \in Nat
<1>1. Tip \in 0 .. MaxSeq
  BY DEF TypeOK, Tip, NoScope, Seqs
<1>2. \A i \in 1 .. Tip : records[i] \in Appends
  <2> SUFFICES ASSUME NEW i \in 1 .. Tip PROVE records[i] \in Appends
    OBVIOUS
  <2>1. i \in Seqs /\ i <= tip
    BY <1>1 DEF Tip, Seqs
  <2> QED
    BY <2>1 DEF TypeOK, Contiguous
<1> QED
  BY <1>1, <1>2 DEF Log

\* A step that touches neither table, nor a call's arguments, nor the history, and moves
\* no call, is none of the log; a call of Delete at most announces that it may be emptied.
LEMMA Unmoved ==
  ASSUME UNCHANGED <<dbVars, appendVars>>, Undeleted' => Undeleted
  PROVE  [Abstract!LogNext]_(Abstract!logVars)
  BY DEF dbVars, appendVars, Abstract!LogNext, Abstract!logVars, Abstract!AskErase, Log, Tip,
         Done, Answers

\* A call that goes from one of its inner steps to another has moved nothing.
LEMMA Inner ==
  ASSUME TypeOK, NEW a \in Appends, NEW p \in PC \ (Results \cup {"idle"}), Goto(a, p),
         pc[a] \notin Results \cup {"idle"},
         UNCHANGED <<tip, records, commits, expected, payload, dpc>>
  PROVE  UNCHANGED Abstract!logVars
<1>1. Answers' = Answers
  BY DEF TypeOK, Answers, Goto
<1> QED
  BY <1>1 DEF Abstract!logVars, Log, Tip, Done, Undeleted

\* A call that returns has an answer that is true of the log.
LEMMA Returns ==
  ASSUME TypeOK, NEW a \in Appends, NEW r \in Results, Goto(a, r),
         pc[a] \notin Results \cup {"idle"},
         r = "ok" => Abstract!Succeeds(a),
         r = "conflict" => Abstract!Conflicts(a),
         r = "failed" => Abstract!Fails(a),
         UNCHANGED <<tip, records, commits, expected, payload, dpc>>
  PROVE  Abstract!LogNext
<1>1. Answers[a] = "open" /\ Answers' = [Answers EXCEPT ![a] = r]
  BY DEF TypeOK, Answers, Goto
<1>2. UNCHANGED <<Log, Done, expected, payload, Undeleted>>
  BY DEF Log, Tip, Done, Undeleted
<1>3. Abstract!Return(a)
  BY <1>1, <1>2 DEF Abstract!Return, Results
<1> QED
  BY <1>3 DEF Abstract!LogNext

\* The COMMIT that the server executes is where an Append takes effect.
LEMMA CommitExtends ==
  ASSUME IInv, NEW a \in Appends, CommitAppend(a), TypeOK', Contiguous'
  PROVE  Abstract!LogNext
<1>1. /\ commits[a] = 0 /\ Tip = expected[a] /\ pc[a] \in {"commit", "resolve", "ambiguous"}
      /\ TypeOK /\ Contiguous
  BY DEF IInv, CallInv, CommitAppend
<1>2. Log \in Seq(Appends) /\ Len(Log) = Tip /\ Tip \in Nat
  BY <1>1, LogIsSeq
<1>3. Tip' = Tip + 1 /\ expected[a] + 1 \in Seqs /\ expected[a] \in Nat
  BY <1>1, NextSeq DEF CommitAppend, Tip, NoScope
<1>4. Log' \in Seq(Appends) /\ Len(Log') = Tip + 1
  <2>1. \A i \in 1 .. Tip + 1 : records'[i] \in Appends
    <3>1. \A i \in 1 .. Tip + 1 : i \in Seqs /\ i <= tip'
      BY <1>1, <1>2, <1>3 DEF CommitAppend, Seqs
    <3> QED
      BY <3>1 DEF TypeOK, Contiguous
  <2> QED
    BY <1>2, <1>3, <2>1 DEF Log
<1>5. Log' = Append(Log, a)
  <2> DEFINE L == Append(Log, a)
  <2>1. /\ L \in Seq(Appends) /\ Len(L) = Len(Log) + 1 /\ L[Len(Log) + 1] = a
        /\ \A i \in 1 .. Len(Log) : L[i] = Log[i]
    BY <1>2, AppendProperties
  <2>2. ASSUME NEW i \in 1 .. Len(Log') PROVE Log'[i] = L[i]
    <3>1. Log'[i] = records'[i] /\ i \in Seqs
      BY <1>1, <1>2, <1>3, <1>4 DEF Log, Seqs
    <3>2. CASE i = Tip + 1
      BY <1>1, <1>2, <2>1, <3>1, <3>2 DEF CommitAppend, TypeOK
    <3>3. CASE i # Tip + 1
      <4>1. i \in 1 .. Tip /\ records'[i] = records[i]
        BY <1>1, <1>2, <1>4, <3>1, <3>3 DEF CommitAppend, TypeOK
      <4> QED
        BY <1>2, <2>1, <3>1, <4>1 DEF Log
    <3> QED
      BY <3>2, <3>3
  <2>3. Len(Log') = Len(L)
    BY <1>2, <1>4, <2>1
  <2> HIDE DEF L
  <2>4. Log' = L
    BY <1>4, <2>1, <2>2, <2>3, SeqEqual
  <2> QED
    BY <2>4 DEF L
<1>6. a \notin Done /\ Done' = Done \cup {a}
  BY <1>1 DEF Done, CommitAppend, TypeOK
<1>7. Answers[a] \in {"open", "ambiguous"} /\ Answers' = Answers
  BY <1>1 DEF Answers, CommitAppend, Results, TypeOK
<1>8. UNCHANGED <<expected, payload, dpc>>
  BY DEF CommitAppend, deleteVars
<1>9. Abstract!Extend(a)
  BY <1>1, <1>2, <1>5, <1>6, <1>7, <1>8 DEF Abstract!Extend, Undeleted
<1> QED
  BY <1>9 DEF Abstract!LogNext

\* The DELETE that the server executes empties the log, which somebody has asked for.
LEMMA DeleteErases ==
  ASSUME IInv, NEW d \in Deletes, DeleteApply(d)
  PROVE  [Abstract!LogNext]_(Abstract!logVars)
<1>1. dpc[d] # "idle" /\ dpc'[d] # "idle" /\ TypeOK
  BY DEF IInv, TypeOK, PendingInv, DeleteApply
<1>2. ~Undeleted /\ ~Undeleted'
  BY <1>1 DEF Undeleted
<1>3. UNCHANGED <<Done, expected, payload, Answers>>
  BY DEF DeleteApply, Done, Answers
<1>4. CASE UNCHANGED <<tip, records>>
  BY <1>2, <1>3, <1>4 DEF Abstract!logVars, Log, Tip
<1>5. CASE tip' = NoScope
  <2>1. Tip' = 0
    BY <1>5 DEF Tip, NoScope
  <2>2. Log' = <<>>
    BY <2>1 DEF Log
  <2>3. Abstract!Erase
    BY <1>2, <1>3, <2>2 DEF Abstract!Erase
  <2> QED
    BY <2>3 DEF Abstract!LogNext
<1> QED
  BY <1>4, <1>5 DEF DeleteApply

\* The other steps of an Append: it begins, moves on, or returns a true answer.
LEMMA AppendSteps ==
  ASSUME IInv, NEW a \in Appends, AppendStep(a), ~CommitAppend(a)
  PROVE  [Abstract!LogNext]_(Abstract!logVars)
<1>0. /\ TypeOK /\ Contiguous /\ RecordInv /\ CallInv(a)
      /\ Log \in Seq(Appends) /\ Len(Log) = Tip /\ Tip \in Nat
  BY LogIsSeq DEF IInv
<1>00. expected[a] \in Nat /\ expected[a] + 1 \in Seqs
  BY <1>0, NextSeq
<1>1. CASE AppendBegin(a)
  <2>1. Answers[a] = "idle" /\ Answers' = [Answers EXCEPT ![a] = "open"]
    BY <1>0, <1>1 DEF AppendBegin, Begin, Goto, Answers, Results, TypeOK
  <2>2. expected'[a] \in Nat /\ expected' = [expected EXCEPT ![a] = expected'[a]]
    BY <1>0, <1>1 DEF AppendBegin, TypeOK
  <2>3. UNCHANGED <<Log, Done, payload, Undeleted>>
    BY <1>1 DEF AppendBegin, dbVars, deleteVars, Log, Tip, Done, Undeleted
  <2>4. Abstract!Call(a)
    BY <2>1, <2>2, <2>3 DEF Abstract!Call
  <2> QED
    BY <2>4 DEF Abstract!LogNext
<1>2. CASE AppendConflict(a)
  <2>1. commits[a] = 0 /\ expected[a] # Tip
    BY <1>0, <1>2 DEF AppendConflict, CurrentSnapshot, CallInv
  <2>2. Abstract!Conflicts(a)
    BY <1>0, <2>1 DEF Abstract!Conflicts, Done
  <2> QED
    BY <1>0, <1>2, <2>2, Returns DEF AppendConflict, dbVars, deleteVars, Results
<1>3. CASE AppendStage(a)
  BY <1>0, <1>3, Inner DEF AppendStage, PC, Results, deleteVars
<1>4. CASE AppendRetry(a)
  BY <1>0, <1>4, Inner DEF AppendRetry, Begin, DefinitePC, PC, Results, dbVars, deleteVars
<1>5. CASE AppendFail(a)
  <2>1. Abstract!Fails(a)
    BY <1>0, <1>5 DEF AppendFail, DefinitePC, CallInv, Abstract!Fails, Done
  <2> QED
    BY <1>0, <1>5, <2>1, Returns DEF AppendFail, DefinitePC, dbVars, deleteVars, Results
<1>6. CASE AbortAppend(a)
  <2>1. CASE pc[a] = "commit" /\ Goto(a, "refused")
    BY <1>0, <1>6, <2>1, Inner DEF AbortAppend, PC, Results, deleteVars
  <2>2. CASE UNCHANGED pc
    BY <1>6, <2>2 DEF AbortAppend, deleteVars, Abstract!logVars, Log, Tip, Done, Answers, Undeleted
  <2> QED
    BY <1>6, <2>1, <2>2 DEF AbortAppend
<1>7. CASE AppendAck(a)
  <2>1. Abstract!Succeeds(a)
    BY <1>0, <1>7 DEF AppendAck, CallInv, Abstract!Succeeds, Done
  <2> QED
    BY <1>0, <1>7, <2>1, Returns DEF AppendAck, dbVars, deleteVars, Results
<1>8. CASE AppendUnknown(a)
  BY <1>0, <1>8, Inner DEF AppendUnknown, PC, Results, dbVars, deleteVars
<1>9. CASE ResolveAppend(a)
  <2>1. PICK r \in {Outcome(a), "ambiguous"} : Goto(a, r)
    BY <1>9 DEF ResolveAppend
  <2>2. r \in {"ok", "conflict", "ambiguous"}
    BY <2>1 DEF Outcome
  <2>3. r # "ambiguous" => records[expected[a] + 1] # NoCall
    BY <2>1 DEF Outcome
  <2>4. r # "ambiguous" => expected[a] < Tip /\ Log[expected[a] + 1] = records[expected[a] + 1]
    <3>1. r # "ambiguous" => expected[a] + 1 <= tip /\ tip \in Int
      BY <1>0, <1>00, <2>3 DEF Contiguous, TypeOK, Seqs, NoScope
    <3>2. r # "ambiguous" => expected[a] + 1 <= Tip
      BY <1>00, <3>1 DEF Tip, NoScope
    <3> QED
      BY <1>0, <1>00, <3>2 DEF Log
  <2>5. r = "ok" => Abstract!Succeeds(a)
    <3>1. r = "ok" => payload[records[expected[a] + 1]] = payload[a]
      BY <2>1 DEF Outcome
    <3> QED
      BY <1>0, <2>4, <3>1 DEF Abstract!Succeeds
  <2>6. r = "conflict" => Abstract!Conflicts(a)
    <3>1. r = "conflict" => payload[records[expected[a] + 1]] # payload[a]
      BY <2>1 DEF Outcome
    <3>2. r = "conflict" /\ commits[a] > 0 => ~Undeleted
      BY <1>0, <3>1 DEF CallInv
    <3>3. r = "conflict" => expected[a] # Tip
      BY <1>0, <1>00, <2>4
    <3> QED
      BY <1>0, <3>2, <3>3 DEF Abstract!Conflicts, Done
  <2>7. /\ pc[a] \notin Results \cup {"idle"}
        /\ UNCHANGED <<tip, records, commits, expected, payload, dpc>>
    BY <1>9 DEF ResolveAppend, Results, dbVars, deleteVars
  <2>8. r \in Results /\ r # "failed"
    BY <2>2 DEF Results
  <2> QED
    BY <1>0, <2>1, <2>5, <2>6, <2>7, <2>8, Returns
<1> QED
  BY <1>1, <1>2, <1>3, <1>4, <1>5, <1>6, <1>7, <1>8, <1>9 DEF AppendStep

\* The ledger implements a log whose calls take effect in one step and at most once, and
\* get answers that are true when given, for every number of concurrent calls.
THEOREM LogRefinement == Spec => ImplementsLog
<1>1. Init => Abstract!LogInit
  BY DEF Init, Abstract!LogInit, Log, Tip, NoScope, Done, Answers, Results, Undeleted
<1>2. IInv /\ IInv' /\ [Next]_vars => [Abstract!LogNext]_(Abstract!logVars)
  <2> SUFFICES ASSUME IInv, IInv', [Next]_vars
               PROVE  [Abstract!LogNext]_(Abstract!logVars)
    OBVIOUS
  <2>0. TypeOK /\ TypeOK' /\ Contiguous'
    BY DEF IInv
  <2>1. ASSUME NEW a \in Appends, CommitAppend(a) PROVE Abstract!LogNext
    BY <2>0, <2>1, CommitExtends
  <2>2. ASSUME NEW a \in Appends, AppendStep(a), ~CommitAppend(a)
        PROVE  [Abstract!LogNext]_(Abstract!logVars)
    BY <2>2, AppendSteps
  <2>3. ASSUME NEW d \in Deletes, DeleteApply(d)
        PROVE  [Abstract!LogNext]_(Abstract!logVars)
    BY <2>3, DeleteErases
  <2>4. ASSUME NEW d \in Deletes, DeleteBegin(d) \/ DeleteDrop(d) \/ DeleteReturn(d)
        PROVE  [Abstract!LogNext]_(Abstract!logVars)
    <3>1. UNCHANGED <<dbVars, appendVars>>
      BY <2>4 DEF DeleteBegin, DeleteDrop, DeleteReturn
    <3>2. Undeleted' => Undeleted
      BY <2>0, <2>4 DEF DeleteBegin, DeleteDrop, DeleteReturn, Undeleted, TypeOK
    <3> QED
      BY <3>1, <3>2, Unmoved
  <2>5. ASSUME NEW r \in Readers, ReadStep(r)
        PROVE  [Abstract!LogNext]_(Abstract!logVars)
    <3>1. UNCHANGED <<dbVars, appendVars, deleteVars>>
      BY <2>5 DEF ReadStep, Read, CursorNext, CursorClose
    <3> QED
      BY <3>1, Unmoved DEF Undeleted, deleteVars
  <2>6. CASE UNCHANGED vars
    BY <2>6, Unmoved DEF vars, dbVars, appendVars, Undeleted
  <2> QED
    BY <2>1, <2>2, <2>3, <2>4, <2>5, <2>6 DEF Next, DeleteStep
<1> QED
  BY <1>1, <1>2, InvInit, InvStep, PTL DEF Spec, ImplementsLog, Abstract!LogSpec
=============================================================================
