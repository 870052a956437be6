---------------------------- MODULE OrderedIndex ----------------------------
(***************************************************************************)
(* Create, Update and Delete of internal/orderedindex/orderedindex.go, in  *)
(* one namespace: READ COMMITTED transactions that lock one row, the       *)
(* counter of an ordering scope or a record, then read, decide and write.  *)
(*                                                                         *)
(* From the moment a transaction has its lock until its COMMIT is sent     *)
(* nobody sees what it does, and any error in between undoes it; the model *)
(* makes that one step.  A client that dies takes no further step.         *)
(***************************************************************************)
EXTENDS Integers

CONSTANTS
    Creates,                     \* calls of Create
    Mutations,                   \* calls of Update or Delete
    Ids, RankScopes, Values, Contents, None, MaxOrder, MaxRevision,   \* as in OrderedTable
    MaxAttempts                  \* maxTransactionAttempts

Calls == Creates \cup Mutations

ASSUME ContentAssumption ==
    Contents \subseteq [value : Values, rank : Int \cup {None}, due : Int \cup {None}]
ASSUME LimitAssumption == MaxOrder \in Nat \ {0} /\ MaxRevision \in Nat \ {0}
ASSUME AttemptAssumption == MaxAttempts \in Nat \ {0}
ASSUME DisjointAssumption == Creates \cap Mutations = {}

VARIABLES
    taken,      \* the orders 1 .. taken[s] of a scope belong to identities other than Ids
    nextOrder,  \* the counter of each ordering scope, 0 when it has no row
    record,     \* the committed record of each identity, or None
    open,       \* transactions that hold their lock and have sent their COMMIT
    written,    \* history: every [id, record] that was ever committed
    commits,    \* history: the calls that have become durable
    pc,         \* where each call stands, or what it returned
    arg,        \* its arguments; a Delete has no content
    attempt,    \* the number of its transaction attempts
    want        \* the record it writes or returns

vars == <<taken, nextOrder, record, open, written, commits, pc, arg, attempt, want>>

\* The promise this module keeps; the counter is not part of it.
Table == INSTANCE OrderedTable WITH record <- record

ArgSet ==
    [id : Ids, expected : 0 .. MaxRevision, content : Contents \cup {None},
     rankScope : RankScopes \cup {None}]

ASSUME NoneAssumption ==
    None \notin Int /\ None \notin Contents /\ None \notin Table!RecordSet /\ None \notin ArgSet

Refusals == {"notfound", "deleted", "conflict", "exhausted"}
Results  == {"ok", "existing", "failed", "ambiguous"} \cup Refusals
PC == {"idle", "begun", "commit", "rolledback", "acked", "resolve"} \cup Results

ArgOf(i, e, c, s) == [id |-> i, expected |-> e, content |-> c, rankScope |-> s]
Version(i, r) == [id |-> i, record |-> r]

Init ==
    /\ taken \in [Table!Scopes -> 0 .. MaxOrder] /\ nextOrder = taken
    /\ Table!TableInit
    /\ open = {} /\ written = {} /\ commits = {}
    /\ pc = [c \in Calls |-> "idle"]
    /\ arg = [c \in Calls |-> None]
    /\ attempt = [c \in Calls |-> 0]
    /\ want = [c \in Calls |-> None]

Goto(c, p) == pc' = [pc EXCEPT ![c] = p]
Id(c)      == arg[c].id
Current(c) == record[Id(c)]
Deletes(c) == arg[c].content = None

\* The loop over the attempts ends.
Leave(c, p) == Goto(c, p) /\ attempt' = [attempt EXCEPT ![c] = 0]
Return(c, result, r) == Leave(c, result) /\ want' = [want EXCEPT ![c] = r]

-----------------------------------------------------------------------------
Begin(c) ==
    /\ pc[c] = "idle"
    /\ Goto(c, "begun")
    /\ \/ /\ c \in Creates
          /\ \E i \in Ids, p \in Contents, s \in RankScopes :
                arg' = [arg EXCEPT ![c] = ArgOf(i, 0, p, s)]
       \/ /\ c \in Mutations
          /\ \E i \in Ids, e \in 1 .. MaxRevision, p \in Contents \cup {None} :
                arg' = [arg EXCEPT ![c] = ArgOf(i, e, p, None)]
    /\ attempt' = [attempt EXCEPT ![c] = 1]
    /\ UNCHANGED <<taken, nextOrder, record, open, written, commits, want>>

\* Creates of a scope lock its counter, mutations of an identity its record.
SameRow(c, d) ==
    \/ c \in Creates /\ d \in Creates /\ Id(c).scope = Id(d).scope
    \/ c \in Mutations /\ d \in Mutations /\ Id(c) = Id(d)

NoForUpdate(c) == TRUE \* mutant: SELECT without FOR UPDATE
\* SELECT ... FOR UPDATE returns once no other transaction holds the row.
Locked(c) == \A d \in open : ~SameRow(c, d)

\* The record is staged and the COMMIT sent.
Stage(c, r) ==
    /\ want' = [want EXCEPT ![c] = r]
    /\ open' = open \cup {c}
    /\ Goto(c, "commit")
    /\ UNCHANGED <<taken, nextOrder, record, written, commits, arg, attempt>>

\* One of the three reads of Create, before and under the lock, finds the identity.
CreateExisting(c) ==
    /\ c \in Creates /\ pc[c] = "begun"
    /\ Current(c) # None
    /\ Return(c, "existing", Current(c))
    /\ UNCHANGED <<taken, nextOrder, record, open, written, commits, arg>>

CreateExhausted(c) ==
    /\ c \in Creates /\ pc[c] = "begun"
    /\ Locked(c) /\ Current(c) = None
    /\ nextOrder[Id(c).scope] = MaxOrder
    /\ Leave(c, "exhausted")
    /\ UNCHANGED <<taken, nextOrder, record, open, written, commits, arg, want>>

\* The record with the next order, which UPDATE ... RETURNING takes from the counter.
Created(c) ==
    [order |-> nextOrder[Id(c).scope] + 1, revision |-> 1, rankScope |-> arg[c].rankScope,
     value |-> arg[c].content.value, rank |-> arg[c].content.rank,
     due |-> arg[c].content.due, deleted |-> FALSE]

CreateStage(c) ==
    /\ c \in Creates /\ pc[c] = "begun"
    /\ Locked(c) /\ Current(c) = None
    /\ nextOrder[Id(c).scope] < MaxOrder
    /\ Stage(c, Created(c))

\* Mutant: the tombstone is not looked at, so that an Update revives it.
RefusalIgnoringTombstone(c) ==
    IF Current(c) = None THEN "notfound"
    ELSE IF Current(c).revision # arg[c].expected THEN "conflict"
    ELSE IF Current(c).revision = MaxRevision THEN "exhausted" ELSE "none"
\* The checks of updateOnce and deleteOnce on the locked record, in their order.
Refusal(c) ==
    IF Current(c) = None THEN "notfound"
    ELSE IF Current(c).deleted THEN "deleted"
    ELSE IF Current(c).revision # arg[c].expected THEN "conflict"
    ELSE IF Current(c).revision = MaxRevision THEN "exhausted" ELSE "none"

\* A Delete of a deleted record succeeds with it.
MutateRefused(c) ==
    /\ c \in Mutations /\ pc[c] = "begun" /\ Locked(c)
    /\ Refusal(c) # "none"
    /\ IF Deletes(c) /\ Refusal(c) = "deleted"
       THEN Return(c, "ok", Current(c))
       ELSE Leave(c, Refusal(c)) /\ UNCHANGED want
    /\ UNCHANGED <<taken, nextOrder, record, open, written, commits, arg>>

Updated(c) ==
    [Current(c) EXCEPT !.revision = @ + 1, !.value = arg[c].content.value,
                       !.rank = arg[c].content.rank, !.due = arg[c].content.due]
Tombstone(c) ==
    [Current(c) EXCEPT !.revision = @ + 1, !.rank = None, !.due = None, !.deleted = TRUE]

Mutated(c) == IF Deletes(c) THEN Tombstone(c) ELSE Updated(c)

MutateStage(c) ==
    /\ c \in Mutations /\ pc[c] = "begun" /\ Locked(c)
    /\ Refusal(c) = "none"
    /\ Stage(c, Mutated(c))

-----------------------------------------------------------------------------
(***************************************************************************)
(* The end of a transaction.                                               *)
(***************************************************************************)
\* The states in which a failed attempt has certainly left nothing behind.
AnyErrorIsDefinite == {"begun", "rolledback", "commit", "acked"} \* mutant: a COMMIT error too
DefinitePC == {"begun", "rolledback"}

OneAttemptMore(c) == attempt[c] <= MaxAttempts \* mutant: off by one
MayRetry(c) == attempt[c] < MaxAttempts

\* A serialization failure or a deadlock, while the context is alive.
Retry(c) ==
    /\ pc[c] \in DefinitePC /\ MayRetry(c)
    /\ Goto(c, "begun")
    /\ attempt' = [attempt EXCEPT ![c] = @ + 1]
    /\ UNCHANGED <<taken, nextOrder, record, open, written, commits, arg, want>>

Fail(c) ==
    /\ pc[c] \in DefinitePC
    /\ Leave(c, "failed")
    /\ UNCHANGED <<taken, nextOrder, record, open, written, commits, arg, want>>

\* The counter is updated in the transaction that inserts the record.
CounterAhead(c) == want[c].order + 1 \* mutant: the counter is advanced twice
CounterAfter(c) == want[c].order

\* The server executes the COMMIT, whether or not its client still waits.
Commit(c) ==
    /\ c \in open
    /\ record' = [record EXCEPT ![Id(c)] = want[c]]
    /\ nextOrder' = [nextOrder EXCEPT ![Id(c).scope] = IF c \in Creates THEN CounterAfter(c) ELSE @]
    /\ open' = open \ {c}
    /\ written' = written \cup {Version(Id(c), want[c])}
    /\ commits' = commits \cup {c}
    /\ pc' = [pc EXCEPT ![c] = IF @ = "commit" THEN "acked" ELSE @]
    /\ UNCHANGED <<taken, arg, attempt, want>>

\* It rolls back instead, and the client is told so or told nothing.
Abort(c) ==
    /\ c \in open
    /\ open' = open \ {c}
    /\ \/ /\ pc[c] = "commit" /\ Goto(c, "rolledback")
          /\ want' = [want EXCEPT ![c] = None]
       \/ UNCHANGED <<pc, want>>
    /\ UNCHANGED <<taken, nextOrder, record, written, commits, arg, attempt>>

Ack(c) ==
    /\ pc[c] = "acked"
    /\ Leave(c, "ok")
    /\ UNCHANGED <<taken, nextOrder, record, open, written, commits, arg, want>>

\* commitOutcomeError: the COMMIT gave an error that is not retryable.
Unknown(c) ==
    /\ pc[c] \in {"commit", "acked"}
    /\ Leave(c, "resolve")
    /\ UNCHANGED <<taken, nextOrder, record, open, written, commits, arg, want>>

SameRevision(c) == \* mutant: the revision alone is compared
    Current(c) # None /\ Current(c).revision = want[c].revision
RecordsEqual(c) == Current(c) = want[c]

\* resolveCreate and resolveMutation reread the record, or fail to.
Resolve(c) ==
    /\ pc[c] = "resolve"
    /\ \/ RecordsEqual(c) /\ Goto(c, "ok")
       \/ Goto(c, "ambiguous")
    /\ UNCHANGED <<taken, nextOrder, record, open, written, commits, arg, attempt, want>>

-----------------------------------------------------------------------------
Step(c) ==
    \/ Begin(c) \/ CreateExisting(c) \/ CreateExhausted(c) \/ CreateStage(c)
    \/ MutateRefused(c) \/ MutateStage(c) \/ Retry(c) \/ Fail(c)
    \/ Commit(c) \/ Abort(c) \/ Ack(c) \/ Unknown(c) \/ Resolve(c)
Next == \E c \in Calls : Step(c)
Spec == Init /\ [][Next]_vars

-----------------------------------------------------------------------------
(***************************************************************************)
(* Properties.                                                             *)
(***************************************************************************)
\* Every variable has its type; a call stops after MaxAttempts, and orders and
\* revisions stay in the range of their columns.
TypeOK ==
    /\ taken \in [Table!Scopes -> 0 .. MaxOrder] /\ nextOrder \in [Table!Scopes -> 0 .. MaxOrder]
    /\ record \in [Ids -> Table!RecordSet \cup {None}]
    /\ open \subseteq Calls /\ commits \subseteq Calls
    /\ written \subseteq [id : Ids, record : Table!RecordSet]
    /\ pc \in [Calls -> PC]
    /\ arg \in [Calls -> ArgSet \cup {None}]
    /\ attempt \in [Calls -> 0 .. MaxAttempts]
    /\ want \in [Calls -> Table!RecordSet \cup {None}]

\* Counter and records agree whatever was retried, rolled back or in doubt: the
\* orders given out in a scope are exactly those up to its counter, each once.
OrdersDense ==
    /\ \A s \in Table!Scopes, o \in 1 .. MaxOrder :
          taken[s] < o /\ o <= nextOrder[s]
              <=> \E i \in Ids : i.scope = s /\ record[i] # None /\ record[i].order = o
    /\ \A i, j \in Ids :
          i.scope = j.scope /\ record[i] # None /\ record[j] # None
              /\ record[i].order = record[j].order => i = j

\* A call that returned a definite error, or an existing record, has written
\* nothing and never will.
ErrorIsDefinite ==
    \A c \in Calls : pc[c] \in {"failed", "existing"} \cup Refusals =>
        c \notin commits /\ c \notin open

\* A record that a call returned was committed exactly so, also when the answer to
\* its COMMIT was lost.
SuccessIsDurable ==
    \A c \in Calls : pc[c] \in {"ok", "existing"} => Version(Id(c), want[c]) \in written

\* An identity has one history: what is returned for a revision, to whomever and
\* by whichever call, is the same record, and the greatest revision is stored.
OneVersionPerRevision ==
    /\ \A v, w \in written :
          v.id = w.id /\ v.record.revision = w.record.revision => v = w
    /\ \A v \in written :
          /\ Version(v.id, record[v.id]) \in written
          /\ v.record.revision <= record[v.id].revision
          /\ v.record.order = record[v.id].order

\* The transactions implement the promise of OrderedTable.
ImplementsTable == Table!TableSpec
=============================================================================
