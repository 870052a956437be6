------------------------------- MODULE Lease -------------------------------
(***************************************************************************)
(* The renewable epoch lease of internal/lease/lease.go: one lease name,   *)
(* its row in the leases table, and every process that contends for it.    *)
(*                                                                         *)
(* A grant is one call of Store.Acquire: its random holder token, the      *)
(* *Lease it may return and the renewLoop goroutine of that *Lease.  Rows  *)
(* of different names never meet, so one name is enough.  A missing row is *)
(* the row [epoch 0, no holder], which is what the INSERT ... ON CONFLICT  *)
(* DO NOTHING of Acquire creates.  The revision column is only ever        *)
(* written, so it is left out.                                             *)
(*                                                                         *)
(* Time is one integer clock.  The code compares database timestamps with  *)
(* database timestamps and local durations with local durations, so only   *)
(* the rates of the two clocks must agree, never their values.             *)
(***************************************************************************)
EXTENDS Integers

CONSTANTS
    Stores,         \* the lease.Store values, one per process (a restart is a new one)
    Grants,         \* the calls of Acquire
    StoreOf,        \* the Store each grant is acquired through
    NoHolder,       \* SQL NULL in the holder column
    TTL,            \* Options.LeaseTTL, in ticks
    RenewInterval,  \* Options.LeaseRenewInterval, in ticks
    MaxEpoch,       \* stands for math.MaxInt64
    FirstEpochs,    \* the epochs that earlier, released grants may have left in the row
    MaxPause,       \* bound: ticks between the two clock readings behind safeUntil
    MaxTime,        \* bound: last tick of the clock
    Closable,       \* bound: the Stores that may be closed
    Crashable       \* bound: the Stores whose process may die

ASSUME StoreAssumption == StoreOf \in [Grants -> Stores] /\ NoHolder \notin Grants
\* options.go, resolve: LeaseRenewInterval must be shorter than LeaseTTL.
ASSUME TimeAssumption ==
    /\ TTL \in Nat /\ RenewInterval \in Nat \ {0} /\ RenewInterval < TTL
    /\ MaxPause \in Nat /\ MaxTime \in Nat
ASSUME EpochAssumption == MaxEpoch \in Nat \ {0} /\ FirstEpochs \subseteq 0 .. MaxEpoch

VARIABLES
    now,        \* the clock
    row,        \* the committed row: [epoch, holder, expires]
    tx,         \* the transaction that holds the row lock, NoTx when there is none
    pc,         \* where the grant's Acquire call and then its renewLoop stand
    rel,        \* where the grant's Release call stands
    epoch,      \* Lease.epoch
    safeUntil,  \* Lease.safeUntil
    lost,       \* Lease.lost is closed
    wakeAt,     \* when the renewTimer of renewLoop fires, 0 when it is stopped
    proof,      \* what the grant's last statement told it, until it is installed
    registered, \* the Store's leases map
    store       \* what became of each Store

dbVars    == <<row, tx>>
leaseVars == <<epoch, safeUntil, lost, wakeAt, proof>>
vars == <<now, row, tx, pc, rel, epoch, safeUntil, lost, wakeAt, proof,
          registered, store>>

-----------------------------------------------------------------------------
Epochs == 0 .. MaxEpoch
Row    == [epoch : Epochs, holder : Grants \cup {NoHolder}, expires : Nat]
RowOf(e, h, t) == [epoch |-> e, holder |-> h, expires |-> t]
FreeRow == RowOf(0, NoHolder, 0)

\* A transaction that may still take effect: the one holding the row lock.
Tx   == [op : {"none", "acquire", "renew", "release"},
         owner : Grants \cup {NoHolder}, sent : BOOLEAN, row : Row]
TxOf(op, g, sent, r) == [op |-> op, owner |-> g, sent |-> sent, row |-> r]
NoTx == TxOf("none", NoHolder, FALSE, FreeRow)

Proof   == [started : Nat, expires : Nat, databaseNow : Nat,
            remaining : Int, acked : Nat]
NoProof == [started |-> 0, expires |-> 0, databaseNow |-> 0,
            remaining |-> 0, acked |-> 0]

\* The control states, in the order the code passes through them.
AcquirePC == {"acqUpdate", "acqCommit", "acqReply", "acqResolve", "acqProved", "acqInstall"}
LoopPC    == {"wait", "renUpdate", "renCommit", "renReply", "observe", "renProved",
              "renInstall"}
PC  == {"idle", "refused", "failed", "stopped", "crashed"} \cup AcquirePC \cup LoopPC
Rel == {"idle", "update", "commit", "reply", "resolve", "complete"}

\* Acquire has returned the *Lease of g, and its process is still there.
Granted(g) == pc[g] \in LoopPC \cup {"stopped"}

Init ==
    /\ now = 0
    /\ row \in {RowOf(e, NoHolder, 0) : e \in FirstEpochs}
    /\ tx = NoTx
    /\ pc = [g \in Grants |-> "idle"]
    /\ rel = [g \in Grants |-> "idle"]
    /\ epoch = [g \in Grants |-> 0]
    /\ safeUntil = [g \in Grants |-> 0]
    /\ lost = [g \in Grants |-> FALSE]
    /\ wakeAt = [g \in Grants |-> 0]
    /\ proof = [g \in Grants |-> NoProof]
    /\ registered = {}
    /\ store = [s \in Stores |-> "open"]

-----------------------------------------------------------------------------
\* currentHolder != nil && expiresAt != nil && expiresAt.After(databaseNow)
Held(r, t) == r.holder # NoHolder /\ r.expires > t

\* Mutant: the WHERE clause names the row but not the grant.
FencedByNameOnly(g) == row.holder # NoHolder

\* The fence of every UPDATE and of every authoritative reread: the exact
\* epoch and holder token of the grant.
Fenced(g) == row.epoch = epoch[g] /\ row.holder = g

\* Statements of the Store still reach the database.
PoolOpen(g) == store[StoreOf[g]] \in {"open", "cancelled", "closed"}
\* context.WithDeadline(l.store.ctx, safeUntil) has not ended.
LoopContext(g) == store[StoreOf[g]] = "open" /\ now < safeUntil[g]

\* Mutant: the time the statement took is not subtracted.
RemainingAsAnswered(p) == p.expires - p.databaseNow

ConservativeRemaining(p) == (p.expires - p.databaseNow) - (now - p.started)

\* proofStarted, the two timestamps a statement returned, and their evaluation.
StartProof == [started |-> now, expires |-> 0, databaseNow |-> 0, remaining |-> 0, acked |-> 0]
Answer(start, expires) ==
    [started |-> start, expires |-> expires, databaseNow |-> now, remaining |-> 0, acked |-> 0]
Evaluated(p) ==
    [started |-> p.started, expires |-> p.expires, databaseNow |-> p.databaseNow,
     remaining |-> ConservativeRemaining(p), acked |-> now]

\* The epoch column has no further value.
Inexhaustible == FALSE \* mutant: the check for math.MaxInt64 is missing
Exhausted == row.epoch = MaxEpoch

\* What releaseRow leaves of the row: no holder, and the epoch.
Deleted(r) == FreeRow \* mutant: the row is deleted, and the epoch with it
Cleared(r) == RowOf(r.epoch, NoHolder, 0)

Goto(g, p) == pc' = [pc EXCEPT ![g] = p]
SetProof(g, p) == proof' = [proof EXCEPT ![g] = p]

\* close(l.lost), once.
MarkNothing(g) == UNCHANGED lost \* mutant: Lost() is never closed
MarkLost(g) == lost' = [lost EXCEPT ![g] = TRUE]


-----------------------------------------------------------------------------
(***************************************************************************)
(* The database: what happens to a COMMIT that has been sent is decided    *)
(* here, whether or not the client still waits for the answer.             *)
(***************************************************************************)
\* The transaction takes effect.  A client still waiting finds the answer on
\* the wire; one that gave up, or crashed, learns nothing.
Apply(op) == tx.op = op /\ tx.sent /\ row' = tx.row /\ tx' = NoTx

CommitAcquire ==
    /\ Apply("acquire")
    /\ pc' = [pc EXCEPT ![tx.owner] = IF @ = "acqCommit" THEN "acqReply" ELSE @]
    /\ UNCHANGED <<now, rel, leaseVars, registered, store>>

CommitRenew ==
    /\ Apply("renew")
    /\ pc' = [pc EXCEPT ![tx.owner] = IF @ = "renCommit" THEN "renReply" ELSE @]
    /\ UNCHANGED <<now, rel, leaseVars, registered, store>>

CommitRelease ==
    /\ Apply("release")
    /\ rel' = [rel EXCEPT ![tx.owner] = IF @ = "commit" THEN "reply" ELSE @]
    /\ UNCHANGED <<now, pc, leaseVars, registered, store>>

\* The transaction is rolled back instead: the connection broke before the
\* COMMIT arrived, or its process died without sending one.
ServerAbort ==
    /\ tx.sent \/ (tx.op # "none" /\ pc[tx.owner] = "crashed")
    /\ tx' = NoTx
    /\ UNCHANGED <<now, row, pc, rel, leaseVars, registered, store>>

-----------------------------------------------------------------------------
(***************************************************************************)
(* Store.Acquire.                                                          *)
(***************************************************************************)
\* SELECT ... FOR UPDATE waits for the row lock.  A held row is LeaseHeldError, a
\* free one at the last epoch cannot be granted again; the transaction ends.
AcquireRefuse(g) ==
    /\ pc[g] = "idle" /\ PoolOpen(g)
    /\ tx = NoTx
    /\ \/ Held(row, now) /\ Goto(g, "refused")
       \/ ~Held(row, now) /\ Exhausted /\ Goto(g, "failed")
    /\ UNCHANGED <<now, dbVars, rel, leaseVars, registered, store>>

\* Otherwise the transaction keeps the lock and takes the next epoch.
AcquireSelect(g) ==
    /\ pc[g] = "idle" /\ PoolOpen(g)
    /\ tx = NoTx
    /\ ~Held(row, now)
    /\ ~Exhausted
    /\ Goto(g, "acqUpdate")
    /\ tx' = TxOf("acquire", g, FALSE, row)
    /\ epoch' = [epoch EXCEPT ![g] = row.epoch + 1]
    /\ SetProof(g, StartProof)
    /\ UNCHANGED <<now, row, rel, safeUntil, lost, wakeAt, registered, store>>

\* Any error before the COMMIT: the deferred Rollback gives the lock back.
AcquireFail(g) ==
    /\ pc[g] \in {"idle", "acqUpdate"}
    /\ Goto(g, "failed")
    /\ tx' = IF pc[g] = "acqUpdate" THEN NoTx ELSE tx
    /\ SetProof(g, NoProof)
    /\ UNCHANGED <<now, row, rel, epoch, safeUntil, lost, wakeAt, registered, store>>

\* The UPDATE under the lock, and the COMMIT on its way.  proofStarted was read
\* at some point between the SELECT's answer and the UPDATE.
AcquireUpdate(g) ==
    /\ pc[g] = "acqUpdate"
    /\ tx' = TxOf("acquire", g, TRUE, RowOf(epoch[g], g, now + TTL))
    /\ \E t \in proof[g].started .. now : SetProof(g, Answer(t, now + TTL))
    /\ Goto(g, "acqCommit")
    /\ UNCHANGED <<now, row, rel, epoch, safeUntil, lost, wakeAt, registered, store>>

\* COMMIT returned an error, definite or not: resolveAcquire begins.
AcquireUnknown(g) ==
    /\ pc[g] \in {"acqCommit", "acqReply"}
    /\ Goto(g, "acqResolve")
    /\ SetProof(g, StartProof)
    /\ UNCHANGED <<now, dbVars, rel, epoch, safeUntil, lost, wakeAt, registered, store>>

\* resolveAcquire rereads the committed row, without a lock: the exact grant,
\* unexpired, is this caller's.
ResolveAcquire(g) ==
    /\ pc[g] = "acqResolve" /\ PoolOpen(g)
    /\ Fenced(g) /\ Held(row, now)
    /\ Goto(g, "acqProved")
    /\ SetProof(g, Answer(proof[g].started, row.expires))
    /\ UNCHANGED <<now, dbVars, rel, epoch, safeUntil, lost, wakeAt, registered, store>>

\* Another unexpired holder is LeaseHeldError; an expired row, or no answer, leaves
\* the outcome unknown.
ResolveAcquireFail(g) ==
    /\ pc[g] = "acqResolve"
    /\ \/ PoolOpen(g) /\ ~Fenced(g) /\ Held(row, now) /\ Goto(g, "refused")
       \/ Goto(g, "failed")
    /\ SetProof(g, NoProof)
    /\ UNCHANGED <<now, dbVars, rel, epoch, safeUntil, lost, wakeAt, registered, store>>

\* The answer arrives and conservativeRemaining reads the clock once.
AcquireAck(g) ==
    /\ pc[g] \in {"acqReply", "acqProved"}
    /\ Goto(g, "acqInstall")
    /\ SetProof(g, Evaluated(proof[g]))
    /\ UNCHANGED <<now, dbVars, rel, epoch, safeUntil, lost, wakeAt, registered, store>>

\* Mutant: the deadline is a full TTL from now, whatever the proof said.
InstallFullTTL(g) ==
    /\ safeUntil' = [safeUntil EXCEPT ![g] = now + TTL]
    /\ wakeAt' = [wakeAt EXCEPT ![g] = now + RenewInterval]
    /\ SetProof(g, NoProof)

\* time.Now().Add(remaining) reads the clock again; the loop sets its timer by it.
InstallDeadline(g) ==
    /\ safeUntil' = [safeUntil EXCEPT ![g] = now + proof[g].remaining]
    /\ wakeAt' = [wakeAt EXCEPT ![g] = now + RenewInterval]
    /\ SetProof(g, NoProof)

\* newLease reads it again for safeUntil, registers the lease, starts the loop.
NewLease(g) ==
    /\ pc[g] = "acqInstall"
    /\ Goto(g, "wait")
    /\ InstallDeadline(g)
    /\ registered' = registered \cup {g}
    /\ UNCHANGED <<now, dbVars, rel, epoch, lost, store>>

-----------------------------------------------------------------------------
(***************************************************************************)
(* Lease.renewLoop.  Its select takes any case that is ready, so a renewal *)
(* may start although the lease was stopped or its Store cancelled.        *)
(***************************************************************************)
\* Why renewLoop stops: released or done, the Store's context over, the deadline
\* passed; nothing proved by observe; a proof that came too late.
LoopEnds(g) ==
    \/ pc[g] = "wait" /\ (lost[g] \/ store[StoreOf[g]] # "open" \/ now >= safeUntil[g])
    \/ pc[g] = "observe"
    \/ pc[g] \in {"renReply", "renProved"} /\ ConservativeRemaining(proof[g]) <= 0

\* It marks the lease lost and returns; the deferred unregister runs.
LoopReturn(g) ==
    /\ LoopEnds(g)
    /\ Goto(g, "stopped")
    /\ MarkLost(g)
    /\ wakeAt' = [wakeAt EXCEPT ![g] = 0]
    /\ SetProof(g, NoProof)
    /\ registered' = registered \ {g}
    /\ UNCHANGED <<now, dbVars, rel, epoch, safeUntil, store>>

\* <-renewTimer.C: renewRow opens its transaction and reads proofStarted.
RenewStart(g) ==
    /\ pc[g] = "wait" /\ now >= wakeAt[g]
    /\ Goto(g, "renUpdate")
    /\ wakeAt' = [wakeAt EXCEPT ![g] = 0]
    /\ SetProof(g, StartProof)
    /\ UNCHANGED <<now, dbVars, rel, epoch, safeUntil, lost, registered, store>>

\* The fenced UPDATE and the COMMIT on its way.  PostgreSQL evaluates WHERE and
\* SET before it waits for the row lock and again only if the row has changed, so
\* the clock they saw is any since the statement began; RETURNING comes after.
RenewUpdate(g) ==
    /\ pc[g] = "renUpdate" /\ LoopContext(g)
    /\ tx = NoTx
    /\ Fenced(g)
    /\ \E t \in proof[g].started .. now :
          /\ row.expires > t
          /\ tx' = TxOf("renew", g, TRUE, RowOf(row.epoch, g, t + TTL))
          /\ SetProof(g, Answer(proof[g].started, t + TTL))
    /\ Goto(g, "renCommit")
    /\ UNCHANGED <<now, row, rel, epoch, safeUntil, lost, wakeAt, registered, store>>

\* renewRow fails: no row matched, the context ended, or COMMIT gave an error.
\* observe begins.
RenewError(g) ==
    /\ pc[g] \in {"renUpdate", "renCommit", "renReply"}
    /\ Goto(g, "observe")
    /\ SetProof(g, StartProof)
    /\ UNCHANGED <<now, dbVars, rel, epoch, safeUntil, lost, wakeAt, registered, store>>

\* observe rereads the committed row and proves the grant current.
Observe(g) ==
    /\ pc[g] = "observe" /\ LoopContext(g)
    /\ Fenced(g) /\ Held(row, now)
    /\ Goto(g, "renProved")
    /\ SetProof(g, Answer(proof[g].started, row.expires))
    /\ UNCHANGED <<now, dbVars, rel, epoch, safeUntil, lost, wakeAt, registered, store>>

\* The answer of renewRow or observe arrives; the clock is read once.
RenewAck(g) ==
    /\ pc[g] \in {"renReply", "renProved"}
    /\ ConservativeRemaining(proof[g]) > 0
    /\ Goto(g, "renInstall")
    /\ SetProof(g, Evaluated(proof[g]))
    /\ UNCHANGED <<now, dbVars, rel, epoch, safeUntil, lost, wakeAt, registered, store>>

\* l.safeUntil = time.Now().Add(result.remaining), and round the loop again.
InstallRenewal(g) ==
    /\ pc[g] = "renInstall"
    /\ Goto(g, "wait")
    /\ InstallDeadline(g)
    /\ UNCHANGED <<now, dbVars, rel, epoch, lost, registered, store>>

-----------------------------------------------------------------------------
(***************************************************************************)
(* Lease.Release; releaseMu admits one call at a time.                     *)
(***************************************************************************)
\* The first call ends the local grant before it touches the database.
ReleaseBegin(g) ==
    /\ Granted(g) /\ rel[g] = "idle"
    /\ rel' = [rel EXCEPT ![g] = "update"]
    /\ MarkLost(g)
    /\ registered' = registered \ {g}
    /\ UNCHANGED <<now, dbVars, pc, epoch, safeUntil, wakeAt, proof, store>>

\* releaseRow's fenced UPDATE and the COMMIT on its way.
ReleaseUpdate(g) ==
    /\ rel[g] = "update" /\ PoolOpen(g)
    /\ tx = NoTx
    /\ Fenced(g)
    /\ tx' = TxOf("release", g, TRUE, Cleared(row))
    /\ rel' = [rel EXCEPT ![g] = "commit"]
    /\ UNCHANGED <<now, row, pc, leaseVars, registered, store>>

\* Mutant: resolveRelease takes any answer of the reread for success.
ReleaseCompleteAnyway(g) ==
    /\ \/ rel[g] = "reply"
       \/ rel[g] = "update" /\ PoolOpen(g) /\ ~Fenced(g)
       \/ rel[g] = "resolve" /\ PoolOpen(g)
    /\ rel' = [rel EXCEPT ![g] = "complete"]
    /\ UNCHANGED <<now, dbVars, pc, leaseVars, registered, store>>
\* Release returns nil: the answer came; or the row was no longer the grant's and
\* the UPDATE matched nothing, without waiting for anybody's lock; or
\* resolveRelease read anything but the grant's own unexpired row.
ReleaseComplete(g) ==
    /\ \/ rel[g] = "reply"
       \/ rel[g] = "update" /\ PoolOpen(g) /\ ~Fenced(g)
       \/ rel[g] = "resolve" /\ PoolOpen(g) /\ ~(Fenced(g) /\ Held(row, now))
    /\ rel' = [rel EXCEPT ![g] = "complete"]
    /\ UNCHANGED <<now, dbVars, pc, leaseVars, registered, store>>

\* releaseRow failed: with the caller's context still alive resolveRelease rereads
\* the row; otherwise, and when that fails, Release gives up and may be called again.
ReleaseError(g) ==
    /\ \/ rel[g] \in {"update", "commit", "reply"} /\ rel' = [rel EXCEPT ![g] = "resolve"]
       \/ rel[g] \notin {"idle", "complete"} /\ rel' = [rel EXCEPT ![g] = "idle"]
    /\ UNCHANGED <<now, dbVars, pc, leaseVars, registered, store>>

-----------------------------------------------------------------------------
(***************************************************************************)
(* The Store's end, orderly or not, and the clock.                         *)
(***************************************************************************)
\* Store.Close, first half: s.cancel() ends the context of every renewLoop.
CloseCancel(s) ==
    /\ store[s] = "open" /\ s \in Closable
    /\ store' = [store EXCEPT ![s] = "cancelled"]
    /\ UNCHANGED <<now, dbVars, pc, rel, leaseVars, registered>>

\* Second half: the leases in the map at that moment are stopped and lost.
CloseLeases(s) ==
    /\ store[s] = "cancelled"
    /\ store' = [store EXCEPT ![s] = "closed"]
    /\ lost' = [g \in Grants |-> lost[g] \/ (g \in registered /\ StoreOf[g] = s)]
    /\ UNCHANGED <<now, dbVars, pc, rel, epoch, safeUntil, wakeAt, proof, registered>>

\* pool.Close() waits for the connections in use; afterwards statements fail.
ClosePool(s) ==
    /\ store[s] = "closed"
    /\ \A g \in Grants : StoreOf[g] = s =>
          /\ pc[g] \notin {"acqUpdate", "acqCommit", "acqReply", "renCommit", "renReply"}
          /\ rel[g] \notin {"commit", "reply"}
    /\ store' = [store EXCEPT ![s] = "poolClosed"]
    /\ UNCHANGED <<now, dbVars, pc, rel, leaseVars, registered>>

\* The process dies.  What it already sent to the database may still happen.
Crash(s) ==
    /\ store[s] # "crashed" /\ s \in Crashable
    /\ store' = [store EXCEPT ![s] = "crashed"]
    /\ pc' = [g \in Grants |-> IF StoreOf[g] = s THEN "crashed" ELSE pc[g]]
    /\ rel' = [g \in Grants |-> IF StoreOf[g] = s THEN "idle" ELSE rel[g]]
    /\ proof' = [g \in Grants |-> IF StoreOf[g] = s THEN NoProof ELSE proof[g]]
    /\ safeUntil' = [g \in Grants |-> IF StoreOf[g] = s THEN 0 ELSE safeUntil[g]]
    /\ wakeAt' = [g \in Grants |-> IF StoreOf[g] = s THEN 0 ELSE wakeAt[g]]
    /\ registered' = {g \in registered : StoreOf[g] # s}
    /\ UNCHANGED <<now, dbVars, epoch, lost>>

\* No goroutine is suspended longer than MaxPause between the clock reading in
\* conservativeRemaining and the one that is added to its result.
Tick ==
    /\ now < MaxTime
    /\ \A g \in Grants :
          pc[g] \in {"acqInstall", "renInstall"} => now < proof[g].acked + MaxPause
    /\ now' = now + 1
    /\ UNCHANGED <<dbVars, pc, rel, leaseVars, registered, store>>

-----------------------------------------------------------------------------
\* Acquire once it has the row lock; its context and resolveAcquire's bound it.
AcquireStep(g) ==
    \/ AcquireUpdate(g) \/ AcquireUnknown(g) \/ ResolveAcquire(g)
    \/ ResolveAcquireFail(g) \/ AcquireAck(g) \/ NewLease(g)

\* One step of the renewLoop goroutine.
LoopStep(g) ==
    \/ LoopReturn(g) \/ RenewStart(g) \/ RenewUpdate(g) \/ RenewError(g)
    \/ Observe(g) \/ RenewAck(g) \/ InstallRenewal(g)

ReleaseStep(g) == ReleaseUpdate(g) \/ ReleaseComplete(g) \/ ReleaseError(g)

Next ==
    \/ CommitAcquire \/ CommitRenew \/ CommitRelease \/ ServerAbort \/ Tick
    \/ \E g \in Grants : \/ AcquireRefuse(g) \/ AcquireSelect(g) \/ AcquireFail(g)
                         \/ AcquireStep(g)
                         \/ LoopStep(g) \/ ReleaseBegin(g) \/ ReleaseStep(g)
    \/ \E s \in Stores : CloseCancel(s) \/ CloseLeases(s) \/ ClosePool(s) \/ Crash(s)

Spec == Init /\ [][Next]_vars

\* Every database call runs under a context with a deadline, so goroutines come
\* back from it; the clock runs on; Close, once begun, goes through the map.
Fairness ==
    /\ WF_vars(Tick)
    /\ \A g \in Grants : WF_vars(AcquireStep(g)) /\ WF_vars(LoopStep(g))
    /\ \A s \in Stores : WF_vars(CloseLeases(s))

FairSpec == Spec /\ Fairness

-----------------------------------------------------------------------------
(***************************************************************************)
(* Properties.                                                             *)
(***************************************************************************)
\* Every variable has its type; in particular the epoch stays within the
\* column's range, which the exhaustion check of Acquire is there for.
TypeOK ==
    /\ now \in Nat
    /\ row \in Row
    /\ tx \in Tx
    /\ pc \in [Grants -> PC]
    /\ rel \in [Grants -> Rel]
    /\ epoch \in [Grants -> Epochs]
    /\ safeUntil \in [Grants -> Int]
    /\ lost \in [Grants -> BOOLEAN]
    /\ wakeAt \in [Grants -> Nat]
    /\ proof \in [Grants -> Proof]
    /\ registered \in SUBSET Grants
    /\ store \in [Stores -> {"open", "cancelled", "closed", "poolClosed", "crashed"}]

\* The holder may act as the owner: Lost() is open and the local deadline has not
\* passed, allowing for the pause between the two clock readings behind it.
AssertsOwnership(g) == Granted(g) /\ ~lost[g] /\ now + MaxPause < safeUntil[g]

\* Two handles never assert ownership at the same time, whatever is lost, late,
\* in doubt, crashed or closed between the processes and the database.
MutualExclusion ==
    \A g, h \in Grants : AssertsOwnership(g) /\ AssertsOwnership(h) => g = h

\* The epoch is a fencing token: a handle that asserts ownership is the committed
\* holder, and every other handle ever returned carries a smaller epoch.
FencingToken ==
    \A g \in Grants : AssertsOwnership(g) =>
        /\ Fenced(g)
        /\ \A h \in Grants \ {g} : Granted(h) => epoch[h] < epoch[g]

\* No two handles ever carry the same epoch, also when one was released or its
\* acquisition resolved from a lost commit acknowledgement.
UniqueEpochs ==
    \A g, h \in Grants : Granted(g) /\ Granted(h) /\ epoch[g] = epoch[h] => g = h

\* A step that changes the holder either ends the grant of a holder whose Lost()
\* is closed, keeping its epoch, or replaces a holder the row no longer names or
\* whose expiry has passed, with the next epoch.
HandOver ==
    row'.holder # row.holder =>
        \/ row'.holder = NoHolder /\ row'.epoch = row.epoch /\ lost[row.holder]
        \/ row'.holder # NoHolder /\ row'.epoch = row.epoch + 1 /\ ~Held(row, now)
HandOverOnly == [][HandOver]_vars

\* The Leaser is a lock with fencing tokens: the row's epoch is the last token issued,
\* a handle's epoch its token, and the owners are the handles that may still act.
Handles == [g \in Grants |-> IF Granted(g) THEN epoch[g] ELSE 0]
Owners  == {g \in Grants : AssertsOwnership(g)}
Lock == INSTANCE FencedLock WITH
    last <- row.epoch, holder <- row.holder, handle <- Handles, owners <- Owners

\* Every step of Acquire, renewLoop, Release, Close, a crash, the database or the clock
\* is a step of that lock or changes nothing of it: in particular no token is issued
\* while a handle still acts as the owner, and a late answer yields no owner.
ImplementsLock == Lock!LockSpec

\* The local deadline never lies beyond the expiry in the database row.
DeadlineWithinObservedExpiry ==
    \A g \in Grants : Granted(g) /\ ~lost[g] /\ row.holder = g => safeUntil[g] <= row.expires

\* It never does by more than the pause between the two clock readings behind it.
DeadlineWithinPause ==
    \A g \in Grants :
        Granted(g) /\ ~lost[g] /\ row.holder = g => safeUntil[g] <= row.expires + MaxPause

OwnsRow(g) == row.holder = g /\ Held(row, now)

\* A grant whose Release returned nil no longer owns the row.
ReleasedNoLongerOwns == \A g \in Grants : rel[g] = "complete" => ~OwnsRow(g)

\* When Release returns nil the grant does not own the row, and nothing gives it the
\* row back but a renewal of its own whose COMMIT had been sent.
ReleaseIsTrue ==
    [][\A g \in Grants :
          rel'[g] = "complete" /\ OwnsRow(g)' =>
              /\ rel[g] = "complete"
              /\ OwnsRow(g) \/ (tx.op = "renew" /\ tx.owner = g /\ row' = tx.row)]_vars

\* A handle learns of its loss, Lost() closes, when its row went to another holder and
\* when its Store is closed, also a handle that an Acquire in flight registered after
\* Close had gone through the map.
LossIsLearned ==
    \A g \in Grants :
        Granted(g) /\ (row.holder # g \/ store[StoreOf[g]] = "closed")
            ~> lost[g] \/ pc[g] = "crashed"
=============================================================================
