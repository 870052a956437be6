------------------------------ MODULE AppendLog ------------------------------
(***************************************************************************)
(* What the ledger promises the callers of Append, without tables,         *)
(* snapshots or retries: a log to which a call adds its record in one step *)
(* if the log has exactly the length it expects, and at most once.  An     *)
(* answer speaks of the log at the moment it is given, and after any but   *)
(* the ambiguous one the call changes nothing any more.  Ledger implements *)
(* it.                                                                     *)
(***************************************************************************)
EXTENDS Naturals, Sequences

CONSTANT Appends  \* calls of Append

VARIABLES
    log,       \* the records, each the call that wrote it
    done,      \* the calls that ever added their record
    expected,  \* the arguments of the calls
    payload,
    answer,    \* how far each call is, or its answer
    erased     \* somebody has asked to delete the log
logVars == <<log, done, expected, payload, answer, erased>>

LogInit ==
    /\ log = <<>>
    /\ done = {}
    /\ expected = [a \in Appends |-> 0]
    /\ DOMAIN payload = Appends
    /\ answer = [a \in Appends |-> "idle"]
    /\ erased = FALSE

Call(a) ==
    /\ answer[a] = "idle"
    /\ answer' = [answer EXCEPT ![a] = "open"]
    /\ expected'[a] \in Nat /\ expected' = [expected EXCEPT ![a] = expected'[a]]
    /\ UNCHANGED <<log, done, payload, erased>>

\* The call takes effect, also after its caller was told that nobody knows.
Extend(a) ==
    /\ answer[a] \in {"open", "ambiguous"}
    /\ a \notin done /\ expected[a] = Len(log)
    /\ log' = Append(log, a)
    /\ done' = done \cup {a}
    /\ UNCHANGED <<expected, payload, answer, erased>>

\* nil: the record is the caller's, or one that nobody can tell from it.
Succeeds(a) ==
    \/ a \in done
    \/ expected[a] < Len(log) /\ payload[log[expected[a] + 1]] = payload[a]
\* ConflictError: the log has another length than expected, and not because of this
\* call, as long as nobody deletes it.
Conflicts(a) ==
    /\ expected[a] # Len(log)
    /\ a \in done => erased
\* Any other error but the ambiguous one.
Fails(a) == a \notin done

Return(a) ==
    /\ answer[a] = "open"
    /\ \E r \in {"ok", "conflict", "failed", "ambiguous"} :
          /\ r = "ok" => Succeeds(a)
          /\ r = "conflict" => Conflicts(a)
          /\ r = "failed" => Fails(a)
          /\ answer' = [answer EXCEPT ![a] = r]
    /\ UNCHANGED <<log, done, expected, payload, erased>>

\* Delete is called; from then on the log may be emptied.
AskErase ==
    /\ erased' = TRUE
    /\ UNCHANGED <<log, done, expected, payload, answer>>
Erase ==
    /\ erased
    /\ log' = <<>>
    /\ UNCHANGED <<done, expected, payload, answer, erased>>

LogNext ==
    \/ \E a \in Appends : Call(a) \/ Extend(a) \/ Return(a)
    \/ AskErase \/ Erase

LogSpec == LogInit /\ [][LogNext]_logVars
=============================================================================
