------------------------------ MODULE KVProofs ------------------------------
(***************************************************************************)
(* Proofs about KV: type correctness, what success of Put and of Delete    *)
(* means, and that without Delete the writes form one chain, in which a    *)
(* revision has one winner and an answer of Put is final.                  *)
(***************************************************************************)
EXTENDS KV, TLAPS

USE ValueAssumption, ErrorAssumption

-----------------------------------------------------------------------------
\* The row was written by a statement on the revision before it.
RowInv == row.revision > 0 => Write(row.revision - 1, row.value) \in durable

\* Without Delete revisions only grow, by one, so each was written exactly once.
HistoryInv ==
    Undeleted =>
        /\ \A m \in durable : m.expected < row.revision
        /\ \A m, n \in durable : m.expected = n.expected => m.value = n.value
        /\ \A r \in Nat : r < row.revision => \E m \in durable : m.expected = r

\* An awaited statement carries the arguments of the call that awaits it.
StatementInv ==
    \A s \in inflight :
        /\ s.attempt <= attempt[s.writer]
        /\ Awaited(s) => s.expected = expected[s.writer] /\ s.value = value[s.writer]

\* A Put that was answered, or that reports success, has taken effect or found
\* that an equal one has.
AnswerInv ==
    \A w \in Writers : pc[w] \in {"acked", "ok"} => Write(expected[w], value[w]) \in durable

\* An answered Delete, and one that finds the key absent, has seen it absent.
DeleteInv ==
    \A d \in Deletes :
        dpc[d] \in {"acked", "ok"} \/ (dpc[d] # "idle" /\ row.revision = 0) => sawAbsent[d]

\* A statement on its way belongs to a Delete that was called.
PendingInv == \A d \in Deletes : pending[d] => dpc[d] # "idle"

\* Implied by Init, preserved by Next, and strong enough for the properties.
IInv == TypeOK /\ RowInv /\ HistoryInv /\ StatementInv /\ AnswerInv /\ DeleteInv /\ PendingInv

-----------------------------------------------------------------------------
\* The initial state, the key absent and nobody calling, has the types.
LEMMA TypeInit == Init => TypeOK
  BY DEF Init, TypeOK, Absent, RowOf, PC, Failed, DPC

\* The absent row is the one with revision 0.
LEMMA AbsentRow == ASSUME TypeOK PROVE row = Absent <=> row.revision = 0
  BY DEF TypeOK, Absent, RowOf

\* Every step of a caller and of the server keeps the types.
LEMMA TypeStep == TypeOK /\ [Next]_vars => TypeOK'
<1> SUFFICES ASSUME TypeOK, [Next]_vars PROVE TypeOK'
  OBVIOUS
<1> USE DEF TypeOK, PC, Failed, DPC, putVars, deleteVars
<1>1. ASSUME NEW w \in Writers, Get(w) PROVE TypeOK'
  BY <1>1 DEF Get, Goto
<1>2. ASSUME NEW w \in Writers, PutBegin(w) PROVE TypeOK'
  BY <1>2 DEF PutBegin, Goto, Call
<1>3. ASSUME NEW w \in Writers, PutReturn(w) PROVE TypeOK'
  BY <1>3 DEF PutReturn, Goto
<1>4. ASSUME NEW w \in Writers, PutError(w) PROVE TypeOK'
  BY <1>4 DEF PutError, Goto, Error
<1>5. ASSUME NEW w \in Writers, ResolvePut(w) PROVE TypeOK'
  BY <1>5 DEF ResolvePut, Goto, Outcome
<1>6. ASSUME NEW s \in inflight, PutApply(s) PROVE TypeOK'
  <2>1. /\ s \in [writer : Writers, attempt : Nat, expected : Nat, value : Values]
        /\ inflight' \subseteq inflight
    BY <1>6 DEF PutApply
  <2>2. /\ row' \in [revision : Nat, value : Values \cup {NoValue}]
        /\ row'.revision = 0 <=> row'.value = NoValue
    BY <1>6, <2>1 DEF PutApply, RowOf
  <2>3. durable' \subseteq [expected : Nat, value : Values]
    BY <1>6, <2>1 DEF PutApply, Write
  <2>4. pc' \in [Writers -> PC] /\ landed' \in [Writers -> BOOLEAN]
    BY <1>6, <2>1 DEF PutApply
  <2> QED
    BY <1>6, <2>1, <2>2, <2>3, <2>4 DEF PutApply
<1>7. ASSUME NEW s \in inflight, PutDrop(s) PROVE TypeOK'
  BY <1>7 DEF PutDrop
<1>8. ASSUME NEW d \in Deletes, DeleteBegin(d) PROVE TypeOK'
  BY <1>8 DEF DeleteBegin
<1>9. ASSUME NEW d \in Deletes, DeleteApply(d) PROVE TypeOK'
  BY <1>9 DEF DeleteApply, Deleted, Absent, RowOf
<1>10. ASSUME NEW d \in Deletes, DeleteDrop(d) PROVE TypeOK'
  BY <1>10 DEF DeleteDrop
<1>11. ASSUME NEW d \in Deletes, DeleteReturn(d) PROVE TypeOK'
  BY <1>11 DEF DeleteReturn
<1>12. ASSUME NEW d \in Deletes, DeleteError(d) PROVE TypeOK'
  BY <1>12 DEF DeleteError, Error
<1>13. ASSUME NEW d \in Deletes, ResolveDelete(d) PROVE TypeOK'
  BY <1>13 DEF ResolveDelete, DeleteOutcome
<1>14. CASE UNCHANGED vars
  BY <1>14 DEF vars
<1> QED
  BY <1>1, <1>2, <1>3, <1>4, <1>5, <1>6, <1>7, <1>8, <1>9, <1>10, <1>11, <1>12, <1>13, <1>14
     DEF Next, WriterStep, DeleteStep

\* A row exists exactly when its revision is positive, and errors stay within
\* their bound; every variable keeps its type.
THEOREM TypeCorrect == Spec => []TypeOK
  BY TypeInit, TypeStep, PTL DEF Spec

-----------------------------------------------------------------------------
\* The invariant holds of the absent key.
LEMMA InvInit == Init => IInv
  BY TypeInit DEF Init, IInv, RowInv, HistoryInv, StatementInv, AnswerInv, DeleteInv,
                  PendingInv, Undeleted, Absent, RowOf

\* Every step of a caller and of the server keeps the invariant.
LEMMA InvStep == IInv /\ [Next]_vars => IInv'
<1> SUFFICES ASSUME IInv, [Next]_vars PROVE IInv'
  OBVIOUS
<1> TypeOK /\ TypeOK'
  BY TypeStep DEF IInv
<1>0. RowInv /\ HistoryInv /\ StatementInv /\ AnswerInv /\ DeleteInv /\ PendingInv
  BY DEF IInv
<1> USE DEF Undeleted, TypeOK, putVars, deleteVars
<1>1. ASSUME NEW w \in Writers, Get(w) PROVE IInv'
  <2>1. RowInv'
    BY <1>1, <1>0 DEF RowInv, Get, Goto
  <2>2. HistoryInv'
    BY <1>1, <1>0 DEF HistoryInv, Get, Goto
  <2>3. StatementInv'
    BY <1>1, <1>0 DEF StatementInv, Awaited, Get, Goto
  <2>4. AnswerInv'
    BY <1>1, <1>0 DEF AnswerInv, RowInv, StatementInv, Awaited, Get, Goto
  <2>5. DeleteInv'
    BY <1>1, <1>0 DEF DeleteInv, Get, Goto
  <2>6. PendingInv'
    BY <1>1, <1>0 DEF PendingInv, Get
  <2> QED
    BY <2>1, <2>2, <2>3, <2>4, <2>5, <2>6 DEF IInv
<1>2. ASSUME NEW w \in Writers, PutBegin(w) PROVE IInv'
  <2>1. RowInv'
    BY <1>2, <1>0 DEF RowInv, PutBegin, Goto, Call
  <2>2. HistoryInv'
    BY <1>2, <1>0 DEF HistoryInv, PutBegin, Goto, Call
  <2>3. StatementInv'
    BY <1>2, <1>0 DEF StatementInv, Awaited, PutBegin, Goto, Call
  <2>4. AnswerInv'
    BY <1>2, <1>0 DEF AnswerInv, RowInv, StatementInv, Awaited, PutBegin, Goto, Call
  <2>5. DeleteInv'
    BY <1>2, <1>0 DEF DeleteInv, PutBegin, Goto, Call
  <2>6. PendingInv'
    BY <1>2, <1>0 DEF PendingInv, PutBegin
  <2> QED
    BY <2>1, <2>2, <2>3, <2>4, <2>5, <2>6 DEF IInv
<1>3. ASSUME NEW w \in Writers, PutReturn(w) PROVE IInv'
  <2>1. RowInv'
    BY <1>3, <1>0 DEF RowInv, PutReturn, Goto
  <2>2. HistoryInv'
    BY <1>3, <1>0 DEF HistoryInv, PutReturn, Goto
  <2>3. StatementInv'
    BY <1>3, <1>0 DEF StatementInv, Awaited, PutReturn, Goto
  <2>4. AnswerInv'
    BY <1>3, <1>0 DEF AnswerInv, RowInv, StatementInv, Awaited, PutReturn, Goto
  <2>5. DeleteInv'
    BY <1>3, <1>0 DEF DeleteInv, PutReturn, Goto
  <2>6. PendingInv'
    BY <1>3, <1>0 DEF PendingInv, PutReturn
  <2> QED
    BY <2>1, <2>2, <2>3, <2>4, <2>5, <2>6 DEF IInv
<1>4. ASSUME NEW w \in Writers, PutError(w) PROVE IInv'
  <2>1. RowInv'
    BY <1>4, <1>0 DEF RowInv, PutError, Goto, Error
  <2>2. HistoryInv'
    BY <1>4, <1>0 DEF HistoryInv, PutError, Goto, Error
  <2>3. StatementInv'
    BY <1>4, <1>0 DEF StatementInv, Awaited, PutError, Goto, Error
  <2>4. AnswerInv'
    BY <1>4, <1>0 DEF AnswerInv, RowInv, StatementInv, Awaited, PutError, Goto, Error
  <2>5. DeleteInv'
    BY <1>4, <1>0 DEF DeleteInv, PutError, Goto, Error
  <2>6. PendingInv'
    BY <1>4, <1>0 DEF PendingInv, PutError
  <2> QED
    BY <2>1, <2>2, <2>3, <2>4, <2>5, <2>6 DEF IInv
<1>5. ASSUME NEW w \in Writers, ResolvePut(w) PROVE IInv'
  <2>1. RowInv'
    BY <1>5, <1>0 DEF RowInv, ResolvePut, Goto, Outcome
  <2>2. HistoryInv'
    BY <1>5, <1>0 DEF HistoryInv, ResolvePut, Goto, Outcome
  <2>3. StatementInv'
    BY <1>5, <1>0 DEF StatementInv, Awaited, ResolvePut, Goto, Outcome
  <2>4. AnswerInv'
    BY <1>5, <1>0 DEF AnswerInv, RowInv, StatementInv, Awaited, ResolvePut, Goto, Outcome
  <2>5. DeleteInv'
    BY <1>5, <1>0 DEF DeleteInv, ResolvePut, Goto, Outcome
  <2>6. PendingInv'
    BY <1>5, <1>0 DEF PendingInv, ResolvePut
  <2> QED
    BY <2>1, <2>2, <2>3, <2>4, <2>5, <2>6 DEF IInv
<1>6. ASSUME NEW s \in inflight, PutApply(s) PROVE IInv'
  <2>1. RowInv'
    BY <1>6, <1>0 DEF RowInv, PutApply, Matches, RowOf, Write
  <2>2. HistoryInv'
    <3>1. CASE Matches(s)
      <4>0. Undeleted' => Undeleted
        BY <1>6 DEF PutApply
      <4>1. /\ row.revision = s.expected /\ row'.revision = row.revision + 1
            /\ durable' = durable \cup {Write(s.expected, s.value)}
        BY <1>6, <3>1 DEF PutApply, Matches, RowOf
      <4>2. Write(s.expected, s.value).expected = s.expected
        BY DEF Write
      <4>3. row.revision \in Nat /\ \A m \in durable : m.expected \in Nat
        OBVIOUS
      <4>4. ASSUME Undeleted, NEW r \in Nat, r < row.revision + 1
            PROVE  \E m \in durable' : m.expected = r
        <5>1. CASE r = row.revision
          BY <4>1, <4>2, <5>1
        <5>2. CASE r < row.revision
          BY <1>0, <4>1, <4>4, <5>2 DEF HistoryInv
        <5> QED
          BY <4>3, <4>4, <5>1, <5>2
      <4>5. ASSUME Undeleted
            PROVE  /\ \A m \in durable' : m.expected < row.revision + 1
                   /\ \A m, n \in durable' : m.expected = n.expected => m.value = n.value
        BY <1>0, <4>1, <4>2, <4>3, <4>5 DEF HistoryInv
      <4> QED
        BY <4>0, <4>1, <4>4, <4>5 DEF HistoryInv
    <3>2. CASE ~Matches(s)
      BY <1>0, <1>6, <3>2 DEF HistoryInv, PutApply
    <3> QED
      BY <3>1, <3>2
  <2>3. StatementInv'
    BY <1>6, <1>0 DEF StatementInv, Awaited, PutApply, Matches, RowOf, Write
  <2>4. AnswerInv'
    BY <1>6, <1>0 DEF AnswerInv, RowInv, StatementInv, Awaited, PutApply, Matches, RowOf, Write
  <2>5. DeleteInv'
    BY <1>6, <1>0 DEF DeleteInv, PutApply, Matches, RowOf, Write
  <2>6. PendingInv'
    BY <1>6, <1>0 DEF PendingInv, PutApply
  <2> QED
    BY <2>1, <2>2, <2>3, <2>4, <2>5, <2>6 DEF IInv
<1>7. ASSUME NEW s \in inflight, PutDrop(s) PROVE IInv'
  <2>1. RowInv'
    BY <1>7, <1>0 DEF RowInv, PutDrop
  <2>2. HistoryInv'
    BY <1>7, <1>0 DEF HistoryInv, PutDrop
  <2>3. StatementInv'
    BY <1>7, <1>0 DEF StatementInv, Awaited, PutDrop
  <2>4. AnswerInv'
    BY <1>7, <1>0 DEF AnswerInv, RowInv, StatementInv, Awaited, PutDrop
  <2>5. DeleteInv'
    BY <1>7, <1>0 DEF DeleteInv, PutDrop
  <2>6. PendingInv'
    BY <1>7, <1>0 DEF PendingInv, PutDrop
  <2> QED
    BY <2>1, <2>2, <2>3, <2>4, <2>5, <2>6 DEF IInv
<1>8. ASSUME NEW d \in Deletes, DeleteBegin(d) PROVE IInv'
  <2>1. RowInv'
    BY <1>8, <1>0 DEF RowInv, DeleteBegin
  <2>2. HistoryInv'
    BY <1>8, <1>0 DEF HistoryInv, DeleteBegin
  <2>3. StatementInv'
    BY <1>8, <1>0 DEF StatementInv, Awaited, DeleteBegin
  <2>4. AnswerInv'
    BY <1>8, <1>0 DEF AnswerInv, RowInv, StatementInv, Awaited, DeleteBegin
  <2>5. DeleteInv'
    BY <1>8, <1>0, AbsentRow DEF DeleteInv, DeleteBegin
  <2>6. PendingInv'
    BY <1>8, <1>0 DEF PendingInv, DeleteBegin
  <2> QED
    BY <2>1, <2>2, <2>3, <2>4, <2>5, <2>6 DEF IInv
<1>9. ASSUME NEW d \in Deletes, DeleteApply(d) PROVE IInv'
  <2>1. RowInv'
    BY <1>9, <1>0 DEF RowInv, DeleteApply, Deleted, Absent, RowOf
  <2>2. HistoryInv'
    BY <1>9, <1>0 DEF HistoryInv, PendingInv, DeleteApply, Deleted, Absent, RowOf
  <2>3. StatementInv'
    BY <1>9, <1>0 DEF StatementInv, Awaited, DeleteApply, Deleted, Absent, RowOf
  <2>4. AnswerInv'
    BY <1>9, <1>0 DEF AnswerInv, RowInv, StatementInv, Awaited, DeleteApply, Deleted, Absent, RowOf
  <2>5. DeleteInv'
    BY <1>9, <1>0 DEF DeleteInv, DeleteApply, Deleted, Absent, RowOf
  <2>6. PendingInv'
    BY <1>9, <1>0 DEF PendingInv, DeleteApply
  <2> QED
    BY <2>1, <2>2, <2>3, <2>4, <2>5, <2>6 DEF IInv
<1>10. ASSUME NEW d \in Deletes, DeleteDrop(d) PROVE IInv'
  <2>1. RowInv'
    BY <1>10, <1>0 DEF RowInv, DeleteDrop
  <2>2. HistoryInv'
    BY <1>10, <1>0 DEF HistoryInv, DeleteDrop
  <2>3. StatementInv'
    BY <1>10, <1>0 DEF StatementInv, Awaited, DeleteDrop
  <2>4. AnswerInv'
    BY <1>10, <1>0 DEF AnswerInv, RowInv, StatementInv, Awaited, DeleteDrop
  <2>5. DeleteInv'
    BY <1>10, <1>0 DEF DeleteInv, DeleteDrop
  <2>6. PendingInv'
    BY <1>10, <1>0 DEF PendingInv, DeleteDrop
  <2> QED
    BY <2>1, <2>2, <2>3, <2>4, <2>5, <2>6 DEF IInv
<1>11. ASSUME NEW d \in Deletes, DeleteReturn(d) PROVE IInv'
  <2>1. RowInv'
    BY <1>11, <1>0 DEF RowInv, DeleteReturn
  <2>2. HistoryInv'
    BY <1>11, <1>0 DEF HistoryInv, DeleteReturn
  <2>3. StatementInv'
    BY <1>11, <1>0 DEF StatementInv, Awaited, DeleteReturn
  <2>4. AnswerInv'
    BY <1>11, <1>0 DEF AnswerInv, RowInv, StatementInv, Awaited, DeleteReturn
  <2>5. DeleteInv'
    BY <1>11, <1>0 DEF DeleteInv, DeleteReturn
  <2>6. PendingInv'
    BY <1>11, <1>0 DEF PendingInv, DeleteReturn
  <2> QED
    BY <2>1, <2>2, <2>3, <2>4, <2>5, <2>6 DEF IInv
<1>12. ASSUME NEW d \in Deletes, DeleteError(d) PROVE IInv'
  <2>1. RowInv'
    BY <1>12, <1>0 DEF RowInv, DeleteError, Error
  <2>2. HistoryInv'
    BY <1>12, <1>0 DEF HistoryInv, DeleteError, Error
  <2>3. StatementInv'
    BY <1>12, <1>0 DEF StatementInv, Awaited, DeleteError, Error
  <2>4. AnswerInv'
    BY <1>12, <1>0 DEF AnswerInv, RowInv, StatementInv, Awaited, DeleteError, Error
  <2>5. DeleteInv'
    BY <1>12, <1>0 DEF DeleteInv, DeleteError, Error
  <2>6. PendingInv'
    BY <1>12, <1>0 DEF PendingInv, DeleteError
  <2> QED
    BY <2>1, <2>2, <2>3, <2>4, <2>5, <2>6 DEF IInv
<1>13. ASSUME NEW d \in Deletes, ResolveDelete(d) PROVE IInv'
  <2>1. RowInv'
    BY <1>13, <1>0 DEF RowInv, ResolveDelete, DeleteOutcome
  <2>2. HistoryInv'
    BY <1>13, <1>0 DEF HistoryInv, ResolveDelete, DeleteOutcome
  <2>3. StatementInv'
    BY <1>13, <1>0 DEF StatementInv, Awaited, ResolveDelete, DeleteOutcome
  <2>4. AnswerInv'
    BY <1>13, <1>0 DEF AnswerInv, RowInv, StatementInv, Awaited, ResolveDelete, DeleteOutcome
  <2>5. DeleteInv'
    BY <1>13, <1>0, AbsentRow DEF DeleteInv, ResolveDelete, DeleteOutcome
  <2>6. PendingInv'
    BY <1>13, <1>0 DEF PendingInv, ResolveDelete, DeleteOutcome
  <2> QED
    BY <2>1, <2>2, <2>3, <2>4, <2>5, <2>6 DEF IInv
<1>14. CASE UNCHANGED vars
  BY <1>14, <1>0 DEF vars, IInv, RowInv, HistoryInv, StatementInv, Awaited, AnswerInv,
         DeleteInv, PendingInv
<1> QED
  BY <1>1, <1>2, <1>3, <1>4, <1>5, <1>6, <1>7, <1>8, <1>9, <1>10, <1>11, <1>12, <1>13, <1>14
     DEF Next, WriterStep, DeleteStep

\* The properties read off the invariant.
LEMMA InvMeaning ==
  IInv => SuccessIsDurable /\ DeleteIsObserved /\ OneWinnerPerRevision /\ NoLostUpdate
<1> SUFFICES ASSUME IInv
             PROVE  SuccessIsDurable /\ DeleteIsObserved /\ OneWinnerPerRevision /\ NoLostUpdate
  OBVIOUS
<1>1. SuccessIsDurable
  BY DEF IInv, AnswerInv, SuccessIsDurable
<1>2. DeleteIsObserved
  BY DEF IInv, DeleteInv, DeleteIsObserved
<1>3. ASSUME Undeleted, NEW v \in Writers, NEW w \in Writers,
             pc[v] = "ok", pc[w] = "ok", expected[v] = expected[w]
      PROVE  value[v] = value[w]
  <2>1. Write(expected[v], value[v]) \in durable /\ Write(expected[w], value[w]) \in durable
    BY <1>1, <1>3 DEF SuccessIsDurable
  <2> QED
    BY <1>3, <2>1 DEF IInv, HistoryInv, Write
<1>4. ASSUME Undeleted
      PROVE  /\ \A m, n \in durable : m.expected = n.expected => m = n
             /\ {m.expected : m \in durable} = 0 .. row.revision - 1
             /\ row.revision > 0 => Write(row.revision - 1, row.value) \in durable
  <2>1. /\ \A m \in durable : m.expected \in Nat /\ m.expected < row.revision
        /\ \A m, n \in durable : m.expected = n.expected => m.value = n.value
        /\ \A r \in Nat : r < row.revision => \E m \in durable : m.expected = r
        /\ row.revision \in Nat
    BY <1>4 DEF IInv, HistoryInv, TypeOK
  <2>2. \A m, n \in durable : m.expected = n.expected => m = n
    BY <2>1 DEF IInv, TypeOK
  <2>3. {m.expected : m \in durable} = 0 .. row.revision - 1
    <3>1. \A m \in durable : m.expected \in 0 .. row.revision - 1
      BY <2>1
    <3>2. \A r \in 0 .. row.revision - 1 : \E m \in durable : m.expected = r
      BY <2>1
    <3> QED
      BY <3>1, <3>2
  <2> QED
    BY <2>2, <2>3 DEF IInv, RowInv
<1> QED
  BY <1>1, <1>2, <1>3, <1>4 DEF OneWinnerPerRevision, NoLostUpdate

\* Whatever the callers, their values, and the statements lost, late or in doubt:
\* a Put that succeeds has its value written on the revision it expected, a key
\* that nobody deletes has one winning value per revision and loses no write, and
\* a Delete that succeeds has seen the key absent.
THEOREM Safety ==
    Spec => [](SuccessIsDurable /\ OneWinnerPerRevision /\ NoLostUpdate /\ DeleteIsObserved)
  BY InvInit, InvStep, InvMeaning, PTL DEF Spec

-----------------------------------------------------------------------------
\* Without Delete nobody expects a revision that is still to come.
FreshInv == Undeleted => \A w \in Writers : expected[w] <= row.revision

\* The statement of the last call of a writer, while the server still has it: it has
\* the arguments of the call, nobody has answered it, and once the call has returned
\* success or a conflict the row is past the revision it waits for.
LateInv ==
    \A s \in inflight : s.attempt = attempt[s.writer] =>
        /\ pc[s.writer] # "got" => s.expected = expected[s.writer] /\ s.value = value[s.writer]
        /\ pc[s.writer] \notin {"acked", "refused"}
        /\ Undeleted /\ pc[s.writer] \in {"ok", "conflict"} => s.expected < row.revision

\* Without Delete a call that has taken effect has moved the row past the revision it
\* expected.
LandedInv ==
    Undeleted => \A w \in Writers : landed[w] /\ pc[w] # "got" => expected[w] < row.revision

FinalInv == FreshInv /\ LateInv /\ LandedInv

\* The invariant holds before the first call.
LEMMA FinalInit == Init => FinalInv
  BY DEF Init, FinalInv, FreshInv, LateInv, LandedInv, Absent, RowOf

\* Every step of a caller and of the server keeps it.
LEMMA FinalStep == IInv /\ FinalInv /\ [Next]_vars => FinalInv'
<1> SUFFICES ASSUME IInv, FinalInv, [Next]_vars PROVE FinalInv'
  OBVIOUS
<1>0. TypeOK /\ StatementInv /\ PendingInv /\ FreshInv /\ LateInv /\ LandedInv
  BY DEF IInv, FinalInv
<1> USE <1>0 DEF Undeleted, TypeOK, putVars, deleteVars, FinalInv, FreshInv, LateInv, LandedInv
<1>1. ASSUME NEW w \in Writers, Get(w) PROVE FinalInv'
  BY <1>1 DEF Get, Goto
<1>2. ASSUME NEW w \in Writers, PutBegin(w) PROVE FinalInv'
  BY <1>2 DEF PutBegin, Goto, Call, StatementInv
<1>3. ASSUME NEW w \in Writers, PutReturn(w) PROVE FinalInv'
  BY <1>3 DEF PutReturn, Goto
<1>4. ASSUME NEW w \in Writers, PutError(w) PROVE FinalInv'
  BY <1>4 DEF PutError, Goto, Error
<1>5. ASSUME NEW w \in Writers, ResolvePut(w) PROVE FinalInv'
  BY <1>5 DEF ResolvePut, Goto, Outcome
<1>6. ASSUME NEW s \in inflight, PutApply(s) PROVE FinalInv'
  BY <1>6 DEF PutApply, Matches, Awaited, RowOf
<1>7. ASSUME NEW s \in inflight, PutDrop(s) PROVE FinalInv'
  BY <1>7 DEF PutDrop
<1>8. ASSUME NEW d \in Deletes, DeleteBegin(d) PROVE FinalInv'
  BY <1>8 DEF DeleteBegin
<1>9. ASSUME NEW d \in Deletes, DeleteApply(d) PROVE FinalInv'
  BY <1>9 DEF DeleteApply, PendingInv
<1>10. ASSUME NEW d \in Deletes, DeleteDrop(d) PROVE FinalInv'
  BY <1>10 DEF DeleteDrop
<1>11. ASSUME NEW d \in Deletes, DeleteReturn(d) PROVE FinalInv'
  BY <1>11 DEF DeleteReturn
<1>12. ASSUME NEW d \in Deletes, DeleteError(d) PROVE FinalInv'
  BY <1>12 DEF DeleteError, Error
<1>13. ASSUME NEW d \in Deletes, ResolveDelete(d) PROVE FinalInv'
  BY <1>13 DEF ResolveDelete, DeleteOutcome
<1>14. CASE UNCHANGED vars
  BY <1>14 DEF vars
<1> QED
  BY <1>1, <1>2, <1>3, <1>4, <1>5, <1>6, <1>7, <1>8, <1>9, <1>10, <1>11, <1>12, <1>13, <1>14
     DEF Next, WriterStep, DeleteStep

\* A call that has returned success or a conflict is not changed by a late statement.
LEMMA FinalMeaning ==
    ASSUME IInv, FinalInv, [Next]_vars, NEW w \in Writers,
           pc[w] \in {"ok", "conflict"}, pc'[w] = pc[w], Undeleted'
    PROVE  landed'[w] = landed[w]
<1>1. Undeleted /\ TypeOK
  <2>1. CASE dpc' = dpc
    BY <2>1 DEF Undeleted, IInv
  <2>2. ASSUME NEW d \in Deletes, DeleteStep(d), dpc' # dpc PROVE dpc'[d] # "idle"
    <3>1. dpc[d] # "idle" \/ DeleteBegin(d)
      BY <2>2 DEF IInv, PendingInv, DeleteStep, DeleteApply, DeleteDrop, DeleteReturn,
                  DeleteError, ResolveDelete
    <3> QED
      BY <2>2, <3>1 DEF IInv, TypeOK, DeleteStep, DeleteBegin, DeleteApply, DeleteDrop,
                        DeleteReturn, DeleteError, ResolveDelete, DeleteOutcome
  <2>3. dpc' = dpc \/ \E d \in Deletes : DeleteStep(d)
    BY DEF Next, WriterStep, vars, deleteVars, Get, PutBegin, PutReturn, PutError,
           ResolvePut, PutApply, PutDrop
  <2> QED
    BY <2>1, <2>2, <2>3 DEF Undeleted
<1>2. ASSUME landed' # landed
      PROVE  (\E s \in inflight : PutApply(s)) \/ (\E v \in Writers : PutBegin(v))
  BY <1>2 DEF Next, WriterStep, DeleteStep, vars, putVars, Get, PutReturn, PutError,
     ResolvePut, PutDrop, DeleteBegin, DeleteApply, DeleteDrop, DeleteReturn, DeleteError,
     ResolveDelete
<1>3. ASSUME NEW s \in inflight, PutApply(s) PROVE landed'[w] = landed[w]
  BY <1>1, <1>3 DEF FinalInv, LateInv, TypeOK, PutApply, Matches
<1>4. ASSUME NEW v \in Writers, PutBegin(v) PROVE landed'[w] = landed[w]
  BY <1>1, <1>4 DEF TypeOK, PutBegin, Goto
<1> QED
  BY <1>2, <1>3, <1>4

\* Whatever statement the server still has, success and ConflictError are final.
THEOREM Finality == Spec => AnswerIsFinal
<1>1. IInv /\ FinalInv /\ [Next]_vars
      => [\A w \in Writers :
            pc[w] \in {"ok", "conflict"} /\ pc'[w] = pc[w] /\ Undeleted'
                => landed'[w] = landed[w]]_vars
  BY FinalMeaning
<1> QED
  BY <1>1, InvInit, InvStep, FinalInit, FinalStep, PTL DEF Spec, AnswerIsFinal

\* The original error comes out of resolvePut only while the call has not taken effect.
THEOREM ErrorTheorem == Spec => ErrorIsTrueThen
<1>1. IInv /\ FinalInv /\ [Next]_vars
      => [\A w \in Writers :
            pc[w] = "resolve" /\ pc'[w] = "cause" /\ Undeleted => ~landed[w]]_vars
  <2> SUFFICES ASSUME IInv, FinalInv, Next, NEW w \in Writers, Undeleted, landed[w],
                      pc[w] = "resolve", pc'[w] = "cause"
               PROVE  FALSE
    BY DEF vars
  <2> USE DEF IInv, TypeOK
  <2>1. ResolvePut(w)
    <3>1. ASSUME NEW v \in Writers, WriterStep(v) PROVE ResolvePut(w)
      BY <3>1 DEF WriterStep, Get, PutBegin, PutReturn, PutError, ResolvePut, Goto
    <3>2. ASSUME NEW s \in inflight, PutApply(s) \/ PutDrop(s) PROVE FALSE
      BY <3>2 DEF PutApply, PutDrop, Awaited, putVars
    <3>3. ASSUME NEW d \in Deletes, DeleteStep(d) PROVE FALSE
      BY <3>3 DEF DeleteStep, DeleteBegin, DeleteApply, DeleteDrop, DeleteReturn, DeleteError,
                  ResolveDelete, putVars
    <3> QED
      BY <3>1, <3>2, <3>3 DEF Next
  <2>2. Outcome(w) = "cause"
    BY <2>1 DEF ResolvePut, Goto
  <2>3. expected[w] < row.revision
    BY DEF FinalInv, LandedInv
  <2> QED
    BY <2>2, <2>3 DEF Outcome
<1> QED
  BY <1>1, InvInit, InvStep, FinalInit, FinalStep, PTL DEF Spec, ErrorIsTrueThen
=============================================================================
