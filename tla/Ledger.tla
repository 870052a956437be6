------------------------------- MODULE Ledger -------------------------------
(***************************************************************************)
(* The append-only ledger of internal/ledger/ledger.go, for one ledger     *)
(* name: the row of ledger_scopes with its tip, the rows of ledger_records *)
(* that reference it, and concurrent calls of Append, Delete and Read.     *)
(* Names share no rows, so one name is enough.                             *)
(*                                                                         *)
(* A record remembers the call that wrote it; its payload is that call's.  *)
(* A client that dies is a call that takes no further step.                *)
(***************************************************************************)
EXTENDS Integers, Sequences

CONSTANTS
    Appends,      \* calls of Append
    Deletes,      \* calls of Delete
    Readers,      \* calls of Read, each with the cursor it returns
    Payloads,     \* the payloads a caller may append
    NoCall,       \* no record, and no transaction
    MaxAttempts,  \* maxTransactionAttempts
    MaxSeq        \* bound: the highest sequence number

ASSUME CallAssumption == NoCall \notin Appends
ASSUME BoundAssumption == MaxAttempts \in Nat \ {0} /\ MaxSeq \in Nat \ {0}

VARIABLES
    tip,        \* the tip column of the scope row, NoScope when there is no row
    records,    \* the ledger_records rows: which call's record has which seq
    lock,       \* the Append whose transaction holds the scope row, with its COMMIT sent
    commits,    \* history: how often each Append has become durable
    pc,         \* where each Append stands, or what it returned
    expected,   \* its arguments
    payload,
    attempt,    \* the number of its transaction attempts
    seen,       \* the tip in the snapshot of its SERIALIZABLE transaction
    stale,      \* the scope row has changed since that snapshot
    dpc,        \* where each Delete stands, or what it returned
    pending,    \* its statement may still be executed by the server
    cursor,     \* the cursor of each Read: the rows it still holds
    delivered   \* history: the sequence numbers its Next has returned

dbVars     == <<tip, records, lock, commits>>
appendVars == <<pc, expected, payload, attempt, seen, stale>>
deleteVars == <<dpc, pending>>
readVars   == <<cursor, delivered>>
vars == <<tip, records, lock, commits, pc, expected, payload, attempt, seen, stale,
          dpc, pending, cursor, delivered>>

NoScope == -1
Seqs    == 1 .. MaxSeq
Empty   == [i \in Seqs |-> NoCall]
\* INSERT ... VALUES ($1, 0) ON CONFLICT DO NOTHING makes an absent scope one with tip 0.
Tip     == IF tip = NoScope THEN 0 ELSE tip

Results == {"ok", "conflict", "ambiguous", "failed"}
PC  == {"idle", "begun", "commit", "refused", "acked", "resolve"} \cup Results
DPC == {"idle", "sent", "acked", "resolve", "ok", "failed"}
CursorOf(from, rows, open) == [from |-> from, rows |-> rows, open |-> open]
NoCursor == CursorOf(0, {}, FALSE)

Init ==
    /\ tip = NoScope /\ records = Empty
    /\ lock = NoCall
    /\ commits = [a \in Appends |-> 0]
    /\ pc = [a \in Appends |-> "idle"]
    /\ expected = [a \in Appends |-> 0]
    /\ payload \in [Appends -> Payloads]
    /\ attempt = [a \in Appends |-> 0]
    /\ seen = [a \in Appends |-> 0]
    /\ stale = [a \in Appends |-> FALSE]
    /\ dpc = [d \in Deletes |-> "idle"]
    /\ pending = [d \in Deletes |-> FALSE]
    /\ cursor = [r \in Readers |-> NoCursor]
    /\ delivered = [r \in Readers |-> <<>>]

Goto(a, p) == pc' = [pc EXCEPT ![a] = p]

\* Every transaction that took its snapshot earlier will fail with SQLSTATE 40001.
Invalidate == stale' = [a \in Appends |-> TRUE]

-----------------------------------------------------------------------------
(***************************************************************************)
(* Append.                                                                 *)
(***************************************************************************)
\* The snapshot of attempt n.
Begin(a, n) ==
    /\ Goto(a, "begun")
    /\ attempt' = [attempt EXCEPT ![a] = n]
    /\ seen' = [seen EXCEPT ![a] = Tip]
    /\ stale' = [stale EXCEPT ![a] = FALSE]

AppendBegin(a) ==
    /\ pc[a] = "idle"
    /\ \E e \in 0 .. MaxSeq - 1 : expected' = [expected EXCEPT ![a] = e]
    /\ Begin(a, 1)
    /\ UNCHANGED <<dbVars, payload, deleteVars, readVars>>

\* Mutant: FOR UPDATE under a weaker isolation level, which lets a stale snapshot pass.
AnySnapshot(a) == TRUE
\* SELECT tip ... FOR UPDATE waits for the row lock and fails on a changed row.
CurrentSnapshot(a) == ~stale[a]

AppendConflict(a) ==
    /\ pc[a] = "begun"
    /\ lock = NoCall /\ CurrentSnapshot(a)
    /\ seen[a] # expected[a]
    /\ Goto(a, "conflict")
    /\ UNCHANGED <<dbVars, expected, payload, attempt, seen, stale, deleteVars, readVars>>

\* The record is inserted, which its primary key must allow, the tip updated, and
\* the COMMIT sent.
AppendStage(a) ==
    /\ pc[a] = "begun"
    /\ lock = NoCall /\ CurrentSnapshot(a)
    /\ seen[a] = expected[a]
    /\ records[expected[a] + 1] = NoCall
    /\ lock' = a
    /\ Goto(a, "commit")
    /\ UNCHANGED <<tip, records, commits, expected, payload, attempt, seen, stale, deleteVars,
                   readVars>>

\* The states in which a failed attempt has certainly left nothing behind.
AnyErrorIsDefinite == {"begun", "refused", "commit", "acked"} \* mutant: a COMMIT error too
DefinitePC == {"begun", "refused"}

OneAttemptMore(a) == attempt[a] <= MaxAttempts \* mutant: off by one
MayRetry(a) == attempt[a] < MaxAttempts

\* Retryable: a serialization failure or a deadlock, while the context is alive.
AppendRetry(a) ==
    /\ pc[a] \in DefinitePC
    /\ MayRetry(a)
    /\ Begin(a, attempt[a] + 1)
    /\ UNCHANGED <<dbVars, expected, payload, deleteVars, readVars>>

\* The context has ended, the attempts are used up, or the error is another one.
AppendFail(a) ==
    /\ pc[a] \in DefinitePC
    /\ Goto(a, "failed")
    /\ UNCHANGED <<dbVars, expected, payload, attempt, seen, stale, deleteVars, readVars>>

\* The server executes the COMMIT; a client that gave up never hears of it.
CommitAppend(a) ==
    /\ lock = a
    /\ tip' = expected[a] + 1
    /\ records' = [records EXCEPT ![expected[a] + 1] = a]
    /\ lock' = NoCall
    /\ commits' = [commits EXCEPT ![a] = @ + 1]
    /\ pc' = [pc EXCEPT ![a] = IF @ = "commit" THEN "acked" ELSE @]
    /\ Invalidate
    /\ UNCHANGED <<expected, payload, attempt, seen, deleteVars, readVars>>

\* It rolls back instead.  The client is told of a serialization failure, or its
\* connection breaks and it is told nothing.
AbortAppend(a) ==
    /\ lock = a
    /\ lock' = NoCall
    /\ \/ pc[a] = "commit" /\ Goto(a, "refused")
       \/ UNCHANGED pc
    /\ UNCHANGED <<tip, records, commits, expected, payload, attempt, seen, stale, deleteVars,
                   readVars>>

AppendAck(a) ==
    /\ pc[a] = "acked"
    /\ Goto(a, "ok")
    /\ UNCHANGED <<dbVars, expected, payload, attempt, seen, stale, deleteVars, readVars>>

\* commitOutcomeError: the COMMIT gave an error that is not retryable.
AppendUnknown(a) ==
    /\ pc[a] \in {"commit", "acked"}
    /\ Goto(a, "resolve")
    /\ UNCHANGED <<dbVars, expected, payload, attempt, seen, stale, deleteVars, readVars>>

\* Mutant: any record at the sequence number is taken for the caller's own.
OutcomeByPresence(a) ==
    IF records[expected[a] + 1] = NoCall THEN "ambiguous" ELSE "ok"
\* Mutant: the last record is compared, not the one at expected + 1.
OutcomeByTip(a) ==
    IF Tip <= expected[a] THEN "ambiguous"
    ELSE IF payload[records[Tip]] = payload[a] THEN "ok" ELSE "conflict"
\* What resolveAppend makes of the record at expected + 1.
Outcome(a) ==
    IF records[expected[a] + 1] = NoCall THEN "ambiguous"
    ELSE IF payload[records[expected[a] + 1]] = payload[a] THEN "ok" ELSE "conflict"

\* resolveAppend reads the committed record, or fails to.
ResolveAppend(a) ==
    /\ pc[a] = "resolve"
    /\ \E result \in {Outcome(a), "ambiguous"} : Goto(a, result)
    /\ UNCHANGED <<dbVars, expected, payload, attempt, seen, stale, deleteVars, readVars>>

-----------------------------------------------------------------------------
(***************************************************************************)
(* Delete: one autocommit statement, which the server may execute after    *)
(* the client has stopped waiting for it.                                  *)
(***************************************************************************)
DeleteBegin(d) ==
    /\ dpc[d] = "idle"
    /\ dpc' = [dpc EXCEPT ![d] = "sent"]
    /\ pending' = [pending EXCEPT ![d] = TRUE]
    /\ UNCHANGED <<dbVars, appendVars, readVars>>

\* ON DELETE CASCADE of the reference from ledger_records.
KeepRecords == records \* mutant: the reference does not cascade
Cascade == Empty

\* A committed row is deleted once its lock is free; otherwise nothing matches.
DeleteApply(d) ==
    /\ pending[d]
    /\ pending' = [pending EXCEPT ![d] = FALSE]
    /\ dpc' = [dpc EXCEPT ![d] = IF @ = "sent" THEN "acked" ELSE @]
    /\ \/ tip = NoScope /\ UNCHANGED <<tip, records, stale>>
       \/ /\ tip # NoScope /\ lock = NoCall
          /\ tip' = NoScope /\ records' = Cascade /\ Invalidate
    /\ UNCHANGED <<lock, commits, pc, expected, payload, attempt, seen, readVars>>

\* It never gets there, or is cancelled in time.
DeleteDrop(d) ==
    /\ pending[d]
    /\ pending' = [pending EXCEPT ![d] = FALSE]
    /\ UNCHANGED <<dbVars, appendVars, dpc, readVars>>

\* The client gets the answer, or an error and rereads the scope: an absent one
\* means success, anything else the error.
DeleteReturn(d) ==
    /\ \/ dpc[d] = "acked" /\ dpc' = [dpc EXCEPT ![d] = "ok"]
       \/ dpc[d] \in {"sent", "acked"} /\ dpc' = [dpc EXCEPT ![d] = "resolve"]
       \/ dpc[d] = "resolve" /\ tip = NoScope /\ dpc' = [dpc EXCEPT ![d] = "ok"]
       \/ dpc[d] = "resolve" /\ dpc' = [dpc EXCEPT ![d] = "failed"]
    /\ UNCHANGED <<dbVars, appendVars, pending, readVars>>

-----------------------------------------------------------------------------
(***************************************************************************)
(* Read and its cursor.  The rows are fetched by one statement.            *)
(***************************************************************************)
Read(r) ==
    /\ cursor[r] = NoCursor
    /\ \E asked \in 0 .. MaxSeq : LET from == IF asked < 1 THEN 1 ELSE asked IN
          cursor' = [cursor EXCEPT ![r] =
              CursorOf(from, {i \in Seqs : i >= from /\ records[i] # NoCall}, TRUE)]
    /\ UNCHANGED <<dbVars, appendVars, deleteVars, delivered>>

\* ORDER BY seq
Unordered(i, rows) == TRUE \* mutant: the rows come in any order
First(i, rows) == \A j \in rows : i <= j

CursorNext(r) ==
    /\ cursor[r].open
    /\ \E i \in cursor[r].rows :
          /\ First(i, cursor[r].rows)
          /\ cursor' = [cursor EXCEPT ![r] = CursorOf(@.from, @.rows \ {i}, TRUE)]
          /\ delivered' = [delivered EXCEPT ![r] = Append(@, i)]
    /\ UNCHANGED <<dbVars, appendVars, deleteVars>>

CursorClose(r) ==
    /\ cursor[r].open
    /\ cursor' = [cursor EXCEPT ![r] = CursorOf(@.from, @.rows, FALSE)]
    /\ UNCHANGED <<dbVars, appendVars, deleteVars, delivered>>

-----------------------------------------------------------------------------
AppendStep(a) ==
    \/ AppendBegin(a) \/ AppendConflict(a) \/ AppendStage(a) \/ AppendRetry(a)
    \/ AppendFail(a) \/ CommitAppend(a) \/ AbortAppend(a) \/ AppendAck(a)
    \/ AppendUnknown(a) \/ ResolveAppend(a)
DeleteStep(d) == DeleteBegin(d) \/ DeleteApply(d) \/ DeleteDrop(d) \/ DeleteReturn(d)
ReadStep(r) == Read(r) \/ CursorNext(r) \/ CursorClose(r)

Next ==
    \/ \E a \in Appends : AppendStep(a)
    \/ \E d \in Deletes : DeleteStep(d)
    \/ \E r \in Readers : ReadStep(r)

Spec == Init /\ [][Next]_vars

-----------------------------------------------------------------------------
(***************************************************************************)
(* Properties.                                                             *)
(***************************************************************************)
\* Every variable has its type; in particular Append stops after MaxAttempts.
TypeOK ==
    /\ tip \in Seqs \cup {NoScope}
    /\ records \in [Seqs -> Appends \cup {NoCall}]
    /\ lock \in Appends \cup {NoCall}
    /\ commits \in [Appends -> Nat]
    /\ pc \in [Appends -> PC]
    /\ expected \in [Appends -> 0 .. MaxSeq - 1]
    /\ payload \in [Appends -> Payloads]
    /\ attempt \in [Appends -> 0 .. MaxAttempts]
    /\ seen \in [Appends -> Nat]
    /\ stale \in [Appends -> BOOLEAN]
    /\ dpc \in [Deletes -> DPC]
    /\ pending \in [Deletes -> BOOLEAN]
    /\ cursor \in [Readers -> [from : Nat, rows : SUBSET Seqs, open : BOOLEAN]]
    /\ delivered \in [Readers -> Seq(Seqs)]

\* The two tables agree: the records are exactly those from 1 to the tip, with
\* no gap, and none is left behind without its scope.
Contiguous == \A i \in Seqs : records[i] # NoCall <=> i <= tip

\* A step on the records adds the next one, or deletes the whole ledger at once:
\* no record is ever overwritten, moved or removed alone.
ExtendOrErase ==
    records' # records =>
        \/ tip' = Tip + 1 /\ \E a \in Appends : records' = [records EXCEPT ![Tip + 1] = a]
        \/ tip' = NoScope /\ records' = Empty
AppendOnlyLog == [][ExtendOrErase]_vars

\* The retries of one call, with their snapshots gone stale and their COMMITs in
\* doubt, never make its record durable twice.
AppendedAtMostOnce == \A a \in Appends : commits[a] <= 1

\* An Append that returned a definite error has not appended and never will.
FailureIsDefinite == \A a \in Appends : pc[a] = "failed" => commits[a] = 0 /\ lock # a

\* An Append that returned nil has a durable record behind it with the expected
\* sequence number and the caller's payload.
SuccessIsDurable ==
    \A a \in Appends : pc[a] = "ok" =>
        \E b \in Appends : /\ commits[b] > 0
                           /\ expected[b] = expected[a] /\ payload[b] = payload[a]

\* An Append that returned nil has appended its own record.
SuccessIsOwn == \A a \in Appends : pc[a] = "ok" => commits[a] > 0

\* An Append that returned ConflictError has not appended and never will.
ConflictNeverAppended == \A a \in Appends : pc[a] = "conflict" => commits[a] = 0 /\ lock # a

\* Nobody has called Delete.
Undeleted == \A d \in Deletes : dpc[d] = "idle"

\* As long as nobody deletes the ledger, an Append that returned ConflictError,
\* also from the reread after its COMMIT was in doubt, has not appended and never
\* will.
ConflictIsDefinite == Undeleted => ConflictNeverAppended

\* Whatever is appended or deleted meanwhile, a cursor delivers consecutive
\* sequence numbers that begin where the Read asked.
CursorGapFree ==
    \A r \in Readers : \A k \in 1 .. Len(delivered[r]) :
        delivered[r][k] = cursor[r].from + k - 1

\* The ledger as its callers see it: the records in order, the calls whose record was
\* ever durable, and what each call was told.
Log     == [i \in 1 .. Tip |-> records[i]]
Done    == {a \in Appends : commits[a] > 0}
Answers == [a \in Appends |-> IF pc[a] \in Results \cup {"idle"} THEN pc[a] ELSE "open"]
Abstract == INSTANCE AppendLog WITH
    log <- Log, done <- Done, answer <- Answers, erased <- ~Undeleted

\* Every step of Append, Delete and Read and of the server is a step of that log or
\* changes nothing of it: an Append takes effect in one step, at the length it expects,
\* and each answer, also the one of resolveAppend, is true when it is given.
ImplementsLog == Abstract!LogSpec
=============================================================================
