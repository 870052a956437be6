--------------------------- MODULE PromiseProofs ---------------------------
(***************************************************************************)
(* What a caller may conclude from the two abstract specifications alone.  *)
(* LeaseProofs shows that Lease implements FencedLock and LedgerProofs     *)
(* that Ledger implements AppendLog, so it holds of the code they model.   *)
(***************************************************************************)
EXTENDS FencedLock, AppendLog, TLAPS

-----------------------------------------------------------------------------
(***************************************************************************)
(* The lock.                                                               *)
(***************************************************************************)
\* At most one handle acts as the owner; its token is the greatest, and no other handle
\* carries it.
Fenced ==
    /\ \A g, h \in owners : g = h
    /\ \A g \in owners : \A h \in Grants \ {g} : handle[h] < handle[g]

\* Tokens in hand were issued and differ, and the owner has the last one.
TokenInv ==
    /\ last \in Nat /\ handle \in [Grants -> 0 .. last]
    /\ \A g, h \in Grants : handle[g] > 0 /\ handle[g] = handle[h] => g = h
    /\ \A g \in owners : g \in Grants /\ holder = g /\ handle[g] = last /\ last > 0

\* Nothing is in hand at first.
LEMMA TokenInit == LockInit => TokenInv
  BY DEF LockInit, TokenInv

\* Issuing, delivering, acting, stopping, giving back and dying keep the tokens apart.
LEMMA TokenStep == TokenInv /\ [LockNext]_lockVars => TokenInv'
<1> SUFFICES ASSUME TokenInv, [LockNext]_lockVars PROVE TokenInv'
  OBVIOUS
<1> USE DEF TokenInv
<1>1. ASSUME NEW g \in Grants, Issue(g) PROVE TokenInv'
  BY <1>1 DEF Issue
<1>2. ASSUME NEW g \in Grants, Deliver(g) PROVE TokenInv'
  BY <1>2 DEF Deliver
<1>3. ASSUME NEW g \in Grants, Enter(g) PROVE TokenInv'
  BY <1>3 DEF Enter
<1>4. CASE Leave
  BY <1>4 DEF Leave
<1>5. CASE Vacate
  BY <1>5 DEF Vacate
<1>6. ASSUME NEW S \in SUBSET Grants, Drop(S) PROVE TokenInv'
  BY <1>6 DEF Drop
<1>7. CASE UNCHANGED lockVars
  BY <1>7 DEF lockVars
<1> QED
  BY <1>1, <1>2, <1>3, <1>4, <1>5, <1>6, <1>7 DEF LockNext

\* A lock of this kind excludes, and its token fences: whoever refuses tokens below the
\* greatest it has seen refuses every handle but the owner's.
THEOREM LockPromise == LockSpec => []Fenced
<1>1. TokenInv => Fenced
  BY DEF TokenInv, Fenced
<1> QED
  BY <1>1, TokenInit, TokenStep, PTL DEF LockSpec

-----------------------------------------------------------------------------
(***************************************************************************)
(* The log.                                                                *)
(***************************************************************************)
\* A call has at most one record in the log, at the position it asked for; and a call
\* that was told of a failure, or of a conflict in a log nobody deletes, has none.
Truthful ==
    /\ \A i \in 1 .. Len(log) : log[i] \in Appends /\ expected[log[i]] = i - 1
    /\ \A i, j \in 1 .. Len(log) : log[i] = log[j] => i = j
    /\ \A a \in Appends :
          answer[a] = "failed" \/ (answer[a] = "conflict" /\ ~erased)
              => \A i \in 1 .. Len(log) : log[i] # a

\* In a log nobody deletes, what was appended stays, and success is a record with the
\* caller's payload at the position it asked for.
Lasting ==
    ~erased => \A a \in Appends :
        answer[a] = "ok" =>
            expected[a] < Len(log) /\ payload[log[expected[a] + 1]] = payload[a]

\* The records belong to calls that took effect, and before any Delete all of those are
\* still there.
LogInv ==
    /\ log \in Seq(Appends) /\ done \subseteq Appends /\ erased \in BOOLEAN
    /\ expected \in [Appends -> Nat]
    /\ answer \in [Appends -> {"idle", "open", "ok", "conflict", "failed", "ambiguous"}]
    /\ \A i \in 1 .. Len(log) : log[i] \in done /\ expected[log[i]] = i - 1
    /\ \A a \in done : answer[a] \notin {"idle", "failed"}
    /\ ~erased => \A a \in done : /\ expected[a] < Len(log) /\ log[expected[a] + 1] = a
                                  /\ answer[a] # "conflict"
    /\ Lasting

\* The empty log satisfies the invariant.
LEMMA LogInvInit == LogInit => LogInv
<1> SUFFICES ASSUME LogInit PROVE LogInv
  OBVIOUS
<1>1. log \in Seq(Appends) /\ Len(log) = 0
  BY DEF LogInit
<1>2. done = {} /\ \A a \in Appends : answer[a] = "idle"
  BY DEF LogInit
<1>3. /\ expected \in [Appends -> Nat] /\ erased \in BOOLEAN
      /\ answer \in [Appends -> {"idle", "open", "ok", "conflict", "failed", "ambiguous"}]
  BY DEF LogInit
<1> QED
  BY <1>1, <1>2, <1>3 DEF LogInv, Lasting

\* Calling, taking effect, returning and deleting keep it.
LEMMA LogInvStep == LogInv /\ [LogNext]_logVars => LogInv'
<1> SUFFICES ASSUME LogInv, [LogNext]_logVars PROVE LogInv'
  OBVIOUS
<1> USE DEF LogInv, Lasting
<1>1. ASSUME NEW a \in Appends, Call(a) PROVE LogInv'
  BY <1>1 DEF Call
<1>2. ASSUME NEW a \in Appends, Extend(a) PROVE LogInv'
  <2>1. /\ log' \in Seq(Appends) /\ Len(log') = Len(log) + 1 /\ log'[Len(log) + 1] = a
        /\ \A i \in 1 .. Len(log) : log'[i] = log[i]
        /\ Len(log) \in Nat
    BY <1>2 DEF Extend
  <2>2. \A i \in 1 .. Len(log') : log'[i] \in done' /\ expected'[log'[i]] = i - 1
    BY <1>2, <2>1 DEF Extend
  <2>3. ASSUME ~erased', NEW b \in done'
        PROVE  expected'[b] < Len(log') /\ log'[expected'[b] + 1] = b /\ answer'[b] # "conflict"
    BY <1>2, <2>1, <2>3 DEF Extend
  <2>4. Lasting'
    BY <1>2, <2>1 DEF Extend
  <2> QED
    BY <1>2, <2>1, <2>2, <2>3, <2>4 DEF Extend
<1>3. ASSUME NEW a \in Appends, Return(a) PROVE LogInv'
  <2>1. PICK r \in {"ok", "conflict", "failed", "ambiguous"} :
          /\ r = "ok" => Succeeds(a)
          /\ r = "conflict" => Conflicts(a)
          /\ r = "failed" => Fails(a)
          /\ answer' = [answer EXCEPT ![a] = r]
    BY <1>3 DEF Return
  <2> QED
    BY <1>3, <2>1 DEF Return, Succeeds, Conflicts, Fails
<1>4. CASE AskErase
  BY <1>4 DEF AskErase
<1>5. CASE Erase
  BY <1>5 DEF Erase
<1>6. CASE UNCHANGED logVars
  BY <1>6 DEF logVars
<1> QED
  BY <1>1, <1>2, <1>3, <1>4, <1>5, <1>6 DEF LogNext

\* A log of this kind never has a call's record twice or out of place, and what its
\* callers were told stays true.
THEOREM LogPromise == LogSpec => [](Truthful /\ Lasting)
<1>1. LogInv => Truthful /\ Lasting
  BY DEF LogInv, Truthful
<1> QED
  BY <1>1, LogInvInit, LogInvStep, PTL DEF LogSpec
=============================================================================
