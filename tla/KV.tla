--------------------------------- MODULE KV ---------------------------------
(***************************************************************************)
(* The revision compare-and-swap store of internal/kv/kv.go, for one key:  *)
(* callers that Get the revision, Put with it and, told anything but       *)
(* success, start again, next to callers of Delete.  Keys share no rows,   *)
(* so one key is enough; Keys only reads and is left out.                  *)
(*                                                                         *)
(* Put and Delete are one autocommit statement each.  A caller whose       *)
(* statement gives an error rereads the row, while the server may still    *)
(* execute the statement, then or later.                                   *)
(***************************************************************************)
EXTENDS Integers

CONSTANTS
    Writers,    \* callers of Get and Put
    Deletes,    \* calls of Delete
    Values,     \* the values a caller may put
    NoValue,    \* no row
    MaxErrors   \* bound: how many statements end in an error

ASSUME ValueAssumption == NoValue \notin Values
ASSUME ErrorAssumption == MaxErrors \in Nat

VARIABLES
    row,        \* the committed row: [revision, value], revision 0 when it is absent
    inflight,   \* Put statements the server may still execute
    durable,    \* history: the [expected, value] of the statements that took effect
    pc,         \* where each writer's Get or Put stands, or what Put returned
    attempt,    \* the number of its Put calls
    expected,   \* the arguments of the call
    value,
    landed,     \* history: the statement of the call has taken effect
    dpc,        \* where each Delete stands, or what it returned
    pending,    \* the server may still execute its statement
    sawAbsent,  \* history: the key was absent at some moment since the call
    errors      \* how many statements have ended in an error

putVars    == <<pc, attempt, expected, value, landed>>
deleteVars == <<dpc, pending, sawAbsent>>
vars == <<row, inflight, durable, pc, attempt, expected, value, landed, dpc, pending,
          sawAbsent, errors>>

-----------------------------------------------------------------------------
RowOf(r, v) == [revision |-> r, value |-> v]
Absent      == RowOf(0, NoValue)

\* Mutant: the row stays, without a value.
Tombstone == RowOf(row.revision, NoValue)
\* What DELETE leaves of the row: nothing, not even its revision.
Deleted == Absent

Write(e, v) == [expected |-> e, value |-> v]

\* The statement of the n-th Put of w.
Call(w, n) == [writer |-> w, attempt |-> n, expected |-> expected[w], value |-> value[w]]

Failed == {"conflict", "cause", "unresolved"}
PC  == {"idle", "got", "sent", "acked", "refused", "resolve", "ok"} \cup Failed
DPC == {"idle", "sent", "acked", "resolve", "ok", "cause", "unresolved"}

Init ==
    /\ row = Absent
    /\ inflight = {} /\ durable = {}
    /\ pc = [w \in Writers |-> "idle"]
    /\ attempt = [w \in Writers |-> 0]
    /\ expected = [w \in Writers |-> 0]
    /\ value \in [Writers -> Values]
    /\ landed = [w \in Writers |-> FALSE]
    /\ dpc = [d \in Deletes |-> "idle"]
    /\ pending = [d \in Deletes |-> FALSE]
    /\ sawAbsent = [d \in Deletes |-> FALSE]
    /\ errors = 0

Goto(w, p) == pc' = [pc EXCEPT ![w] = p]

\* A statement of a caller ends in an error: timeout, cancellation, broken connection.
Error == errors < MaxErrors /\ errors' = errors + 1

-----------------------------------------------------------------------------
\* Get, for the first time or because the last Put did not succeed.  An absent key
\* is KeyNotFoundError, and its caller expects revision 0.
Get(w) ==
    /\ pc[w] \in {"idle"} \cup Failed
    /\ Goto(w, "got")
    /\ expected' = [expected EXCEPT ![w] = row.revision]
    /\ UNCHANGED <<row, inflight, durable, attempt, value, landed, deleteVars, errors>>

PutBegin(w) ==
    /\ pc[w] = "got"
    /\ Goto(w, "sent")
    /\ attempt' = [attempt EXCEPT ![w] = @ + 1]
    /\ landed' = [landed EXCEPT ![w] = FALSE]
    /\ inflight' = inflight \cup {Call(w, attempt[w] + 1)}
    /\ UNCHANGED <<row, durable, expected, value, deleteVars, errors>>

\* Mutant: the UPDATE changes whatever row is there.
MatchesAny(s) == s.expected > 0 \/ row.revision = 0
\* INSERT ... ON CONFLICT DO NOTHING for revision 0, UPDATE ... WHERE revision = $2.
Matches(s) == row.revision = s.expected

\* The caller of the statement still waits for it.
Awaited(s) == pc[s.writer] = "sent" /\ attempt[s.writer] = s.attempt

\* The server executes a Put statement, and answers a caller that still waits.
PutApply(s) ==
    /\ s \in inflight
    /\ inflight' = inflight \ {s}
    /\ \/ /\ Matches(s)
          /\ row' = RowOf(row.revision + 1, s.value)
          /\ durable' = durable \cup {Write(s.expected, s.value)}
          /\ landed' = [landed EXCEPT ![s.writer] = @ \/ attempt[s.writer] = s.attempt]
          /\ pc' = [pc EXCEPT ![s.writer] = IF Awaited(s) THEN "acked" ELSE @]
       \/ /\ ~Matches(s)
          /\ pc' = [pc EXCEPT ![s.writer] = IF Awaited(s) THEN "refused" ELSE @]
          /\ UNCHANGED <<row, durable, landed>>
    /\ UNCHANGED <<attempt, expected, value, deleteVars, errors>>

\* A statement nobody waits for never gets there, or is cancelled in time.
PutDrop(s) ==
    /\ s \in inflight
    /\ ~Awaited(s)
    /\ inflight' = inflight \ {s}
    /\ UNCHANGED <<row, durable, putVars, deleteVars, errors>>

\* The answer arrives: the new revision, or no row, which is ConflictError.
PutReturn(w) ==
    /\ \/ pc[w] = "acked" /\ Goto(w, "ok")
       \/ pc[w] = "refused" /\ Goto(w, "conflict")
    /\ UNCHANGED <<row, inflight, durable, attempt, expected, value, landed, deleteVars, errors>>

PutError(w) ==
    /\ pc[w] \in {"sent", "acked", "refused"}
    /\ Error
    /\ Goto(w, "resolve")
    /\ UNCHANGED <<row, inflight, durable, attempt, expected, value, landed, deleteVars>>

\* Mutant: the next revision is taken for the caller's own, whatever its value.
OutcomeByRevision(w) ==
    IF row.revision = expected[w] + 1 THEN "ok"
    ELSE IF row.revision \in {0, expected[w]} THEN "cause" ELSE "conflict"
\* Mutant: the value alone decides.
OutcomeByValue(w) ==
    IF row.value = value[w] THEN "ok"
    ELSE IF row.revision \in {0, expected[w]} THEN "cause" ELSE "conflict"
\* Mutant: whatever is not the caller's write is a conflict.
OutcomeWithoutCause(w) ==
    IF row.revision = expected[w] + 1 /\ row.value = value[w] THEN "ok" ELSE "conflict"
\* Mutant: whatever is not the caller's write is the original error.
OutcomeWithoutConflict(w) ==
    IF row.revision = expected[w] + 1 /\ row.value = value[w] THEN "ok" ELSE "cause"
\* What resolvePut makes of the row: the next revision with the caller's value is
\* success, no row or the old revision the original error, all else a conflict.
Outcome(w) ==
    IF row.revision = expected[w] + 1 /\ row.value = value[w] THEN "ok"
    ELSE IF row.revision \in {0, expected[w]} THEN "cause" ELSE "conflict"

\* Mutant: the reread is repeated for as long as it finds the write not there.
ResolvePutWaits(w) ==
    /\ pc[w] = "resolve" /\ Outcome(w) # "cause"
    /\ Goto(w, Outcome(w))
    /\ UNCHANGED <<row, inflight, durable, attempt, expected, value, landed, deleteVars, errors>>

\* resolvePut rereads the row, or fails to.
ResolvePut(w) ==
    /\ pc[w] = "resolve"
    /\ \E result \in {Outcome(w), "unresolved"} : Goto(w, result)
    /\ UNCHANGED <<row, inflight, durable, attempt, expected, value, landed, deleteVars, errors>>

-----------------------------------------------------------------------------
DeleteBegin(d) ==
    /\ dpc[d] = "idle"
    /\ dpc' = [dpc EXCEPT ![d] = "sent"]
    /\ pending' = [pending EXCEPT ![d] = TRUE]
    /\ sawAbsent' = [sawAbsent EXCEPT ![d] = row = Absent]
    /\ UNCHANGED <<row, inflight, durable, putVars, errors>>

\* The server executes the DELETE.
DeleteApply(d) ==
    /\ pending[d]
    /\ pending' = [pending EXCEPT ![d] = FALSE]
    /\ dpc' = [dpc EXCEPT ![d] = IF @ = "sent" THEN "acked" ELSE @]
    /\ row' = Deleted
    /\ sawAbsent' = [e \in Deletes |-> sawAbsent[e] \/ dpc[e] # "idle"]
    /\ UNCHANGED <<inflight, durable, putVars, errors>>

DeleteDrop(d) ==
    /\ pending[d] /\ dpc[d] # "sent"
    /\ pending' = [pending EXCEPT ![d] = FALSE]
    /\ UNCHANGED <<row, inflight, durable, putVars, dpc, sawAbsent, errors>>

DeleteReturn(d) ==
    /\ dpc[d] = "acked"
    /\ dpc' = [dpc EXCEPT ![d] = "ok"]
    /\ UNCHANGED <<row, inflight, durable, putVars, pending, sawAbsent, errors>>

DeleteError(d) ==
    /\ dpc[d] \in {"sent", "acked"}
    /\ Error
    /\ dpc' = [dpc EXCEPT ![d] = "resolve"]
    /\ UNCHANGED <<row, inflight, durable, putVars, pending, sawAbsent>>

\* resolveDelete: a row that is there means the original error.
DeletedAnyway == "ok" \* mutant: whatever the reread finds
DeleteOutcome == IF row = Absent THEN "ok" ELSE "cause"

ResolveDelete(d) ==
    /\ dpc[d] = "resolve"
    /\ \E result \in {DeleteOutcome, "unresolved"} : dpc' = [dpc EXCEPT ![d] = result]
    /\ UNCHANGED <<row, inflight, durable, putVars, pending, sawAbsent, errors>>

-----------------------------------------------------------------------------
WriterStep(w) == Get(w) \/ PutBegin(w) \/ PutReturn(w) \/ PutError(w) \/ ResolvePut(w)
DeleteStep(d) ==
    \/ DeleteBegin(d) \/ DeleteApply(d) \/ DeleteDrop(d) \/ DeleteReturn(d)
    \/ DeleteError(d) \/ ResolveDelete(d)

Next ==
    \/ \E w \in Writers : WriterStep(w)
    \/ \E s \in inflight : PutApply(s) \/ PutDrop(s)
    \/ \E d \in Deletes : DeleteStep(d)

Spec == Init /\ [][Next]_vars

\* A statement its caller waits for is executed or ends in an error (the caller's
\* context has a deadline), and the callers go on.
Fairness ==
    \A w \in Writers :
        /\ WF_vars(WriterStep(w))
        /\ WF_vars(pc[w] = "sent" /\ PutApply(Call(w, attempt[w])))

FairSpec == Spec /\ Fairness

-----------------------------------------------------------------------------
\* Every variable has its type, and a row is there exactly when its revision is
\* positive, as the CHECK and NOT NULL constraints of the table say.
TypeOK ==
    /\ row \in [revision : Nat, value : Values \cup {NoValue}]
    /\ row.revision = 0 <=> row.value = NoValue
    /\ inflight \subseteq [writer : Writers, attempt : Nat, expected : Nat, value : Values]
    /\ durable \subseteq [expected : Nat, value : Values]
    /\ pc \in [Writers -> PC]
    /\ attempt \in [Writers -> Nat]
    /\ expected \in [Writers -> Nat]
    /\ value \in [Writers -> Values]
    /\ landed \in [Writers -> BOOLEAN]
    /\ dpc \in [Deletes -> DPC]
    /\ pending \in [Deletes -> BOOLEAN]
    /\ sawAbsent \in [Deletes -> BOOLEAN]
    /\ errors \in 0 .. MaxErrors

\* A Put that returned a revision stands for a write that took effect on the
\* revision the caller expected, with the caller's value, also when the answer
\* was lost and the key has been overwritten, deleted and created again since.
SuccessIsDurable ==
    \A w \in Writers : pc[w] = "ok" => Write(expected[w], value[w]) \in durable

\* Nobody has called Delete.
Undeleted == \A d \in Deletes : dpc[d] = "idle"

\* As long as nobody deletes the key, two callers that put different values on
\* the same revision never both succeed: not through a statement that the server
\* executes after its caller gave up, and not through the reread.
OneWinnerPerRevision ==
    Undeleted => \A v, w \in Writers :
        pc[v] = "ok" /\ pc[w] = "ok" /\ expected[v] = expected[w] => value[v] = value[w]

\* As long as nobody deletes the key, no write is lost: the writes that took effect
\* form one chain without gaps or branches, each on the revision the one before it
\* made, and the row holds the value of the last.
NoLostUpdate ==
    Undeleted =>
        /\ \A m, n \in durable : m.expected = n.expected => m = n
        /\ {m.expected : m \in durable} = 0 .. row.revision - 1
        /\ row.revision > 0 => Write(row.revision - 1, row.value) \in durable

\* What Put told its caller stays true: as long as nobody deletes the key, a call that
\* returned success or ConflictError does not take effect afterwards, although the
\* server may still have its statement.
AnswerIsFinal ==
    [][\A w \in Writers :
          pc[w] \in {"ok", "conflict"} /\ pc'[w] = pc[w] /\ Undeleted'
              => landed'[w] = landed[w]]_vars

\* A Delete that returned nil: the key was absent at some moment since the call.
DeleteIsObserved == \A d \in Deletes : dpc[d] = "ok" => sawAbsent[d]

\* A create that returned the original error, such as context.Canceled, because
\* the reread found nothing contrary has not taken effect.
CanceledCreateDidNotCommit ==
    \A w \in Writers : pc[w] = "cause" /\ expected[w] = 0 => ~landed[w]

\* As long as nobody deletes the key, resolvePut returns the original error only for a
\* Put that has not taken effect so far.
ErrorIsTrueThen ==
    [][\A w \in Writers :
          pc[w] = "resolve" /\ pc'[w] = "cause" /\ Undeleted => ~landed[w]]_vars

\* A caller that reads the revision again and retries, whatever Put told it and
\* whatever really happened, gets its value in once errors stop.
RetryConverges == \A w \in Writers : <>(pc[w] = "ok")
=============================================================================
