# pgstore in TLA+

`pgstore` implements the four storage primitives of `looprig/storage` (Leaser,
Ledger, KV and OrderedIndex) on PostgreSQL. Its hard part is not the SQL but
what happens around it: several processes work on the same rows, a COMMIT may
give an error and take effect later, a caller may give up while the server still
executes its statement, and a lease holder must know from its own clock when it
has stopped being the owner. This project models those primitives from the
source, checks them with TLC on small instances and proves their main properties
with TLAPS for every value of the parameters.

## Inventory

| Component | Source | State | Operations | What makes it hard |
|---|---|---|---|---|
| Leaser | `internal/lease/lease.go`, `migrations/0002_leases.sql` | one row per name (epoch, holder token, expiry); per `*Lease` the local deadline `safeUntil`, `lost`, `released`; per Store the map of live leases | `Acquire`, renewal loop, `Release`, `Close` | time, expiry and takeover, commits in doubt, crashes, Close against calls in flight |
| Ledger | `internal/ledger/ledger.go`, `migrations/0001_ledger_kv.sql` | a scope row with the tip, record rows that reference it | `Append`, `Read` and its cursor, `Tip`, `Delete` | serializable snapshots, retries, commits in doubt, deletion and reuse of sequence numbers |
| KV | `internal/kv/kv.go`, `migrations/0001_ledger_kv.sql` | one row per key (revision, value) | `Get`, `Put`, `Keys`, `Delete` | statements executed after their caller gave up, resolution by rereading, revisions reused after a delete |
| OrderedIndex | `internal/orderedindex/orderedindex.go`, `internal/orderedquery/` | a counter row per ordering scope, records with order, revision, rank, due time and tombstone | `Get`, `Create`, `Update`, `Delete`, three listings with cursors | order allocation against visibility, resolution, pagination over changing records |
| Migrations | `migrations.go`, `migrations/*.sql` | the version table and the tables it stands for | `migrate` in three modes | several processes opening at once |
| Store | `pgstore.go` | the pool | `Open`, `Close` | leases must end before the pool does |
| Ordered queries | `internal/orderedquery/orderedquery.go` | none | the statements of the three listings | row comparison, ties, look-ahead row |
| Options, guard, PostgreSQL helpers | `options.go`, `internal/guard/`, `internal/postgres/` | none | validation, default deadlines, retry classification | none of their own |

The components share nothing but the pool. They meet in `pgstore.Open`, which
migrates the schema and builds them (`Migrations`), and in `pgstore.Close`, which
closes the lease Store first and the pool second; both halves are actions of
`Lease`. All four adapters follow one pattern: a bounded call, a statement or
transaction, and, when its outcome is unknown, an authoritative reread in a fresh
context.

Correctness, per component:

- **Leaser**: at most one handle asserts ownership; the epoch is a fencing token
  that no two handles share; the row changes hands only by release or after
  expiry; a handle that lost its row, or whose Store closed, learns of it.
- **Ledger**: records are exactly 1..tip; nothing is overwritten; one Append
  takes effect at most once; its result (nil, conflict, definite error,
  ambiguous) tells the truth; a cursor has no gaps.
- **KV**: one winner per revision; success stands for a write; retrying
  converges.
- **OrderedIndex**: orders are unique and become visible in order; a mutation
  takes effect once; pagination neither skips nor repeats a stable record.
- **Migrations**: each version is applied once and in order; a newer schema is
  left alone; a Store that was opened has the tables of its build.

`PROJECT.json` lists the hazards behind these, each at its line.

## Modules

| Module | Content |
|---|---|
| `FencedLock` | what the Leaser promises: a lock whose handles carry fencing tokens |
| `Lease` | the lease row and everything that contends for it; implements `FencedLock` |
| `LeaseProofs` | inductive invariant and theorems about `Lease` |
| `MCLease` | instances for TLC |
| `AppendLog` | what the ledger promises the callers of Append: a log that grows by whole calls, and true answers |
| `Ledger`, `LedgerProofs`, `MCLedger` | the tables, calls and cursors of the ledger, which implement `AppendLog` |
| `PromiseProofs` | what a caller may conclude from `FencedLock` and `AppendLog` alone |
| `KV`, `KVProofs`, `MCKV` | the same for the key-value store |
| `OrderedTable` | what the ordered index promises: records that are created, updated and deleted atomically |
| `OrderedIndex`, `OrderedIndexProofs`, `MCOrderedIndex` | the transactions of the ordered index, which implement `OrderedTable` |
| `OrderedPages`, `OrderedPagesProofs`, `MCOrderedPages` | listings and cursors over a changing `OrderedTable` |
| `OrderedStoreProofs` | the composition: listings over the transactions of `OrderedIndex` |
| `Migrations`, `MigrationsProofs`, `MCMigrations` | `Open` and `migrate`, in several processes and builds at once |

Each component module ends with its properties. A definition marked *mutant* is
no part of the model: it is a plausible mistake in the definition that follows
it, kept to show that some property notices the mistake.

### Lease

One lease name; rows of different names never meet. A *grant* is one call of
`Acquire` with its random token, the `*Lease` it may return and that lease's
`renewLoop`. State and code:

- `row` is the committed row. A missing row is epoch 0 without a holder, which is
  what Acquire's `INSERT ... ON CONFLICT DO NOTHING` makes of it. The `revision`
  column is only written and is left out.
- `tx` is the transaction that holds the row lock. A COMMIT that was sent keeps
  the lock until the server decides (`CommitAcquire`, `CommitRenew`,
  `CommitRelease`, `ServerAbort`), whether or not its client still waits. This is
  where commits in doubt and commits after a crash come from.
- `pc` is the position in Acquire and then in renewLoop; `rel` the position in
  Release, which runs beside the loop. `done`, `released` and `lost` always
  change together in Release and Close and are one variable, `lost`.
- `proof` holds the clock reading taken before a statement, what the statement
  returned and, once evaluated, the result of `conservativeRemaining`.
- `store` is `open`, `cancelled` (context cancelled), `closed` (the leases in the
  map are lost), `poolClosed` or `crashed`. A restart is another Store.

Points where the model follows what Go or PostgreSQL does rather than what the
code seems to say:

- `select` takes any ready case, so `RenewStart` may fire on a lease that was just
  stopped or whose Store was cancelled.
- PostgreSQL evaluates WHERE and SET of the renewal before it waits for the row
  lock, and again only if the row changed; `clock_timestamp()` is therefore any
  time since the statement began. `RETURNING` is evaluated afterwards.
- In Acquire the clock of the SELECT is read when the lock is obtained. PostgreSQL
  may have read it earlier, which only makes Acquire refuse more often.
- The deadline comes from two clock readings, one in `conservativeRemaining` and
  one in `time.Now().Add`. `Ack` and `Install` steps are separate so that time may
  pass in between, by at most `MaxPause`.

There is one clock. The code compares database timestamps only with database
timestamps and local durations only with local durations, so the offset of the
clocks is irrelevant; that they run at the same rate is an assumption.

`FencedLock` is the abstract specification, without rows, transactions or clocks:
tokens are issued one at a time, each to one grant and only while nobody acts as
the owner (`Issue`); a grant gets a handle with a token that no other handle has,
perhaps so late that it is no longer the last (`Deliver`); only the holder's handle
with the last token becomes an owner (`Enter`); the token is given back by a holder
that no longer acts (`Vacate`); and a process may die with its handles (`Drop`). The
refinement mapping (`Lock`) takes the row's epoch for the last token, the row's
holder for its holder, the epochs of the `*Lease` values that were returned for the
handles (`Handles`), and for the owners those whose `Lost()` is open and whose
deadline, less the pause, has not passed (`Owners`). The commit of an Acquire is an
`Issue`, `NewLease` a `Deliver`, a renewal that moves the deadline an `Enter`, and
the clock, `markLost` and Close are `Leave`.

### Ledger

One ledger name. `tip` is the scope row, `records` maps a sequence number to the
Append call that wrote it. The SERIALIZABLE transaction of `appendOnce` is a
snapshot (`seen`, `stale`): once another transaction has changed the scope row,
`SELECT ... FOR UPDATE` fails with a serialization error. `lock` is the
transaction whose COMMIT was sent; the server commits or aborts it at any time
(`CommitAppend`, `AbortAppend`). Errors before the COMMIT, and a COMMIT refused
with a retryable SQLSTATE, are definite and retried up to `MaxAttempts`; any
other COMMIT error leads to `resolveAppend`. `Delete` is one autocommit statement
that the server may execute late; the foreign key cascades. `Read` fetches all
rows with one statement, and the cursor serves them.

`AppendLog` is the abstract specification: a sequence of calls, to which a call adds
itself in one step and at most once if the sequence has the length it expects
(`Extend`), and answers that are true of the log at the moment they are given
(`Succeeds`, `Conflicts`, `Fails`); after any answer but the ambiguous one the call
does nothing more. Success may rest on another's record with the same payload,
since that is what resolveAppend tells, and a conflict may follow the caller's own
record once somebody has called Delete: the abstract log says exactly as much as
the code keeps. The mapping (`Abstract`) takes the records up to the tip for the log
and forgets scope rows, snapshots, locks and attempts.

### KV

One key. A writer calls `Get`, then `Put` with the revision it got and, told
anything but success, starts again: the caller described in the comment on
`resolvePut`. `inflight` holds the Put statements the server may still execute,
also those whose caller has gone on. An absent key has revision 0, so INSERT
and UPDATE are one compare-and-swap. `landed`, `durable` and `sawAbsent` are
history variables. Delete is as in the ledger.

### OrderedTable, OrderedIndex and OrderedPages

The ordered index is modelled in two layers. `OrderedTable` is its abstract
specification: one variable, `record`, and three atomic operations. Its orders may
have gaps, but a new one comes after every order of its scope. `OrderedIndex` is
the code, and `ImplementsTable` says that it implements the abstract specification
(`Table == INSTANCE OrderedTable`, with the committed rows as the mapping; the
counter, the transactions and the calls are hidden). `OrderedPages` extends
`OrderedTable` rather than the code: a listing is a single SELECT, which sees
committed rows only, and what the committed rows do is what the refinement is
about. So what holds of the listings holds above the transactions too, and
`OrderedStoreProofs` proves it: `Readers` is the reader and the follower alone, with
what somebody else's write does to them (`Overtaken`), and `StoreSpec` is the
transactions of `OrderedIndex` conjoined with it.

`OrderedIndex` has one namespace. `nextOrder` is the counter row of each ordering
scope, 0 when there is none, since `INSERT ... VALUES (..., 0) ON CONFLICT DO
NOTHING` makes it so. Other identities than the modelled ones may have used orders
already (`taken`), which brings the counter near its limit. Update and Delete are
the same program up to what they write and are told, hence one kind of call; a
Delete has no content. They expect a revision that a record can have; any other
number, 0 included, is answered as a wrong one is. `open` holds the transactions whose COMMIT was sent: they
keep their row lock until the server commits or aborts them (`Commit`, `Abort`),
whether or not the client still waits. From the lock to the COMMIT a transaction
reads and writes rows nobody else can change or see, and an error undoes it all:
`CreateStage` and `MutateStage` are therefore single steps, and an error in between
is `Retry` or `Fail`. `CreateExisting` stands for all three reads of Create, of
which two come before the lock. A COMMIT error that is not retryable leads to
`Resolve`, which compares whole records.

`SuccessIsDurable` says that a returned record was committed exactly so, not that
it was committed by that call: a Create or Update in doubt that was rolled back
reports success when an equal record, by a call with the same arguments, took its
place. For the caller the two are the same, except that both believe to have
created it.

In `OrderedPages`, `ListPage` is a call of ListRanked or ListDue with its decoding,
its `limit + 1` rows and the cursor cut from the last row it returns; `Follow` is
ListOrdered called with the last order received. A cursor is the record in its
envelope; base64, JSON and the rejection of cursors that no call has produced are
left out, since a reader only passes on what it got. What matters is that it
carries its query: the reader may use it with any other query, and `Decode` refuses.

### Migrations

A call is an `Open`, with its mode and the schema version of its build: processes of
several builds open the same schema and prefix at once. `versions` is the version
table; the tables a migration creates stand and fall with its row, as both are
written in one transaction. It is absent or holds the versions up to some release
(`Schemas`): migrate creates it in every mode before it reads the version, so that a
MigrationValidate which did not refuse an older schema would commit an empty one,
which `TypeOK` excludes. From the advisory lock to the COMMIT nothing is
visible, so that is one step, `Migrate` or `Refuse`; the COMMIT's outcome is the
server's (`ServerCommit`, `ServerAbort`), and an Open that got an error leaves it
in doubt. `Collides` is what would happen to a transaction that creates a table
another has created meanwhile. `migrate` does not set an isolation level; the model
assumes PostgreSQL's default, READ COMMITTED, under which the version is read after
the lock was granted.

## Runs

| Run | Instance | Shows |
|---|---|---|
| `lease_safety` | 2 processes, 1 Acquire each, crashes, pauses of 1 tick, TTL 2, 4 ticks | `MutualExclusion`, `FencingToken`, `UniqueEpochs`, `HandOverOnly`; `ImplementsLock`; `DeadlineWithinPause` and `ReleaseIsTrue`, what remains true of the claims that the next violations refute |
| `lease_lost` | a Store with 2 Acquires, closed at any time; the row is new or has one epoch left | `LossIsLearned`: a handle that was taken over or whose Store was closed learns of it; `TypeOK` (the epoch's range) |
| `lease_deadline` | violation | the deadline lies beyond the observed expiry by the pause |
| `lease_release` | violation | a Release that returned nil owns the row again |
| `ledger_append` | 2 Appends with 2 attempts, 2 Deletes, a reader | tables agree, at most once, truthful results, append-only, cursors without gaps, `ImplementsLog` |
| `ledger_equal_payloads` | violation | another writer's equal record is taken for one's own |
| `ledger_deleted` | violation | a conflict is reported for a record that was appended, deleted and replaced |
| `kv_calls` | 2 writers, 1 Delete, 2 errors | success is durable, one winner per revision, no write lost (`NoLostUpdate`), answers final (`AnswerIsFinal`) or true when given (`ErrorIsTrueThen`), Delete saw the key absent, retrying converges |
| `kv_canceled` | violation | a create reported as cancelled is executed afterwards |
| `ordered_index` | 2 Creates and 2 Updates or Deletes with 2 attempts, 2 identities in a scope | orders without gap or duplicate, truthful results, one history per identity, `ImplementsTable` |
| `ordered_pages` | 3 identities that tie, 3 queries, pages of 1 and 2 rows | listings are complete and advance, a follower misses nothing |
| `migrations` | 6 Opens of builds 2 and 3 in all modes, database new or at version 1 to 3 | migrations run once and whole, an opened Store has its schema, every Open returns |

**Bounds.** `TTL` 2 and `RenewInterval` 1 are the smallest values with a renewal
before the expiry; four ticks are enough to acquire, renew, let the lease expire
and take it over. `MaxEpoch` stands for `math.MaxInt64` and is reached, since earlier grants may have
left any epoch in `FirstEpochs` in the row.
`MaxPause`, `MaxTime`, `Closable` and `Crashable` bound the scheduler, the clock
and the faults; in the code `MaxAttempts` is 4, in the runs 2, which has a first,
a repeated and a last attempt. `MaxSeq` bounds the ledger, `MaxErrors` the lost
answers of KV; KV's counters need no other bound, because every attempt is paid
for by an error or by another writer's success. `MaxOrder` and `MaxRevision` stand
for `math.MaxUint64` and are reached: `taken` starts the counter anywhere up to its
end, and 3 revisions are a creation, a mutation and one on top of it. Calls of one
kind, and keys, are interchangeable in `ordered_index`, which checks safety only.
One ordering scope is enough there, because transactions of different scopes share
no row; the three identities of `ordered_pages` have equal keys in two scopes and
equal ranks and due times, so that pages end inside ties at every column. Two
revisions allow each record to move or go once between pages. In `migrations`,
three apply, two validate and one disabled Open meet; the oldest build of the two
sees databases older than, equal to and newer than itself. The clock and the
number of calls are finite, so behaviours end, and the runs do not check for
deadlock.

**Fairness.** `Lease!Fairness`: the clock ticks; an Acquire that has the row and
every renewLoop go on, because each database call they make runs under a context
with a deadline (`guard.Bound`, `WithDeadline(safeUntil)`,
`AuthoritativeReadTimeout`) and returns; Close, once begun, goes through the map.
Nothing is assumed of the server or of callers of Release. `KV!Fairness`: callers
go on, and an awaited statement is executed unless it ends in an error, of which
there are finitely many. `Migrations!Fairness`: an Open that can go on does, and the
server ends every transaction, by its COMMIT or because its client rolled back or is
gone. No error is assumed to happen, so `EveryOpenReturns` does not lean on the
deadline that `guard.Bound` gives Open; weak fairness of `Lock` is enough because
calls are finite.

**Findings.** The five violation runs show places where a document, comment or
test says more than the code does; `PROJECT.json` quotes each. None of them breaks
`MutualExclusion`, whose margin accounts for the pause. For each the proofs say how
far the claim holds: the deadline is beyond the expiry by the pause at most, and
within it without one (`DeadlineTheorem`, `NoPause`); Release is true when it returns,
and only the grant's own renewal in doubt can undo it (`ReleaseTheorem`); an Append's
success is its own record when payloads differ (`OwnSuccess`); a conflict is definite
before any Delete (`ConflictIsDefinite`); and the original error of a Put was true at
the reread, before any Delete (`ErrorTheorem`).

## Proofs

All theorems are proved for every value of the constants, from the assumptions
named in the component modules: grants belong to stores; renewal interval
positive and shorter than the TTL (`options.go` enforces it); bounds are natural
numbers; `NoHolder`, `NoCall`, `NoValue` are not real values. `OrderedStoreProofs` has
the assumptions of `OrderedPages` as the hypothesis `ReaderConstants` of its theorems;
they are the ones that `ordered_pages` evaluates on its instance.

- `LeaseProofs`. `TypeCorrect`; `Inductive`: `IInv`; `Safety`: `MutualExclusion`, `FencingToken`,
  `UniqueEpochs`; `HandOverTheorem`: `HandOverOnly`. None of these is inductive.
  `IInv` adds what the lock holder's transaction would write and in which
  positions its owner can be (`LockInv`), that clock readings lie in the past
  (`ClockInv`), that a proof under way bounds the expiry the row has or will have
  (`ProofInv`), that a handle's deadline is covered by the row or already over
  (`DeadlineInv`), what a position says about the row (`PositionInv`), that no
  expiry lies further ahead than the TTL (`ExpiryInv`), and that committed epochs are
  unique and at most the row's (`EpochInv`). Mutual exclusion follows because the
  deadlines of two owners would both have to be covered by the one row.
  `LockRefinement`: `ImplementsLock`. Of the initial states it needs nothing else; for
  a step, that an owner is the row's holder with its epoch (`OwnerHasToken`, from
  `IInv`), and that nobody owns while an Acquire has the row lock. The steps that
  move the row are mapped one by one, those that change neither row nor handles are
  `Leave` or `Enter` by `OwnerHasToken` alone. `DeadlineTheorem`, `NoPause` and
  `ReleaseTheorem` need `GrantInv` on top of `IInv`: while a grant holds the row its
  expiry never goes back, so that the deadline stays within it and the pause; only
  handles are released; and a release that was confirmed has cleared the row.
- `LedgerProofs`. `TypeCorrect`; `Safety`: `Contiguous`, `AppendedAtMostOnce`,
  `FailureIsDefinite`, `SuccessIsDurable`, `ConflictIsDefinite`; `AppendOnly`:
  `AppendOnlyLog`; `CursorTheorem`: `CursorGapFree`, by an invariant on the rows a
  cursor still holds (`CursorInv`), which rests on `Contiguous`. `IInv`
  adds that records and their writers correspond and, per call, what its position
  implies: above all that a transaction with its COMMIT sent still finds the tip
  it expected, because the row lock and the snapshot keep others out.
  `LogRefinement`: `ImplementsLog`; `IInv` is what makes a COMMIT an `Extend` at the
  length expected, and makes each answer true when it is given; the commits of
  Delete are `Erase`, everything else leaves the abstract log alone.
  `OwnSuccess`: `SuccessIsOwn` for callers with distinct payloads.
- `KVProofs`. `TypeCorrect`; `Safety`: `SuccessIsDurable`, `OneWinnerPerRevision`,
  `NoLostUpdate`, `DeleteIsObserved`. `IInv` adds that the
  row was written by a statement on the revision before it, that an awaited
  statement carries the arguments of the call awaiting it, and that before any
  Delete each revision below the row's was written exactly once. `Finality`:
  `AnswerIsFinal`; `ErrorTheorem`: `ErrorIsTrueThen`. Both rest on `FinalInv`: before
  any Delete nobody expects a revision still to come, a statement left behind by a
  call that returned success or a conflict waits for a revision that is past, and a
  call that took effect has moved the row past the revision it expected.
- `OrderedIndexProofs`. `TypeCorrect`; `Safety`: `OrdersDense`, `ErrorIsDefinite`,
  `SuccessIsDurable`, `OneVersionPerRevision`; `Refinement`: `ImplementsTable`. The
  invariant says what each position of a call implies (`CallInv`), that what a
  transaction with its COMMIT sent would write is still the successor of what is
  stored (`StageInv`), that no two such transactions hold one row (`LockInv`), and
  that the stored record is the greatest committed version (`StoreInv`). The
  refinement follows: a commit finds the record and the counter it was computed
  from, so it is a `TableCreate`, `TableUpdate` or `TableDelete`, and every other
  step leaves `record` alone.
- `OrderedPagesProofs`. `Listing`: `ListingComplete`, `PagesAdvance`; `Following`:
  `FollowerMissesNothing`. `Before` is a strict total order on positions, hence the
  look-ahead row tells whether anything follows; `ReaderInv` says that what is stable
  and not yet delivered lies after the cursor, `FollowerInv` that the follower has
  exactly the orders up to its own, `UniqueOrders` that orders do not repeat.
  `Composition`: any behaviour of an `OrderedTable`, whoever makes it, next to
  `Readers` is a behaviour of `OrderedPages`.
- `OrderedStoreProofs`. `StoreListing` and `StoreFollowing`: the same promises for
  `StoreSpec`, the listings next to the transactions of `OrderedIndex`, by `Refinement`,
  `Composition`, `Listing` and `Following`. TLC checks the two layers each on its own.
- `MigrationsProofs`. `TypeCorrect`; `Safety`: `OpenedHasSchema`, `NeverCollides`;
  `WholeMigrations`: `MigratesWhole`. The lock has at most one holder (`LockInv`), the
  recorded versions are an initial segment (part of `TypeOK`), what the holder has staged
  is what is missing between it and its build (`StagedInv`), and an acknowledged call
  has its versions in the table (`AckInv`).
- `PromiseProofs`. `LockPromise`: every behaviour of `FencedLock` has at most one owner,
  with a token greater than any other handle's. `LogPromise`: every behaviour of
  `AppendLog` has each call's record at most once and where it was asked for, and the
  answers stay true. They show that the two abstract specifications, which `Lease` and
  `Ledger` implement, say enough to a caller.

Only model-checked: the liveness properties (`LossIsLearned`, `RetryConverges`,
`EveryOpenReturns`), which need fairness; and the violations.

## Not modelled

`KV.Keys`, `Ledger.Tip` and `OrderedIndex.Get` only read. Options and the
validation of names, values and due times, quoting of identifiers, redaction of
messages, the bytes of cursors, statement and lock timeouts as durations (a timeout
is an error that may come at any time) and the PostgreSQL plan checks have no state
to model. The scaffolding `NotImplemented` of the guard is called by nothing. The
database is assumed durable: restoring a backup, which `docs/OPERATIONS.md`
describes, is outside the model; so is a server whose default isolation level is
not READ COMMITTED.

## Plan

1. Done: `Lease`, `Ledger`, `KV`, their runs and proofs.
2. Done: `OrderedTable`, `OrderedIndex` and `OrderedPages`, the refinement between
   the first two, and `Migrations`, with their runs and proofs.
3. Done: the abstract specifications `FencedLock` and `AppendLog` with their refinement
   proofs, the composition of the ordered store, the chain of writes of KV and the
   finality of its answers, and how far the refuted claims hold.
4. Worth adding: that the answers of `OrderedIndex` refine an abstract object too, as
   those of `Ledger` do; and that the cursor of a Read is a part of a log that existed.
