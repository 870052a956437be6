------------------------- MODULE OrderedIndexProofs -------------------------
(***************************************************************************)
(* Proofs about OrderedIndex, for any number of calls, identities and      *)
(* contents: its safety, and that it implements OrderedTable.              *)
(***************************************************************************)
EXTENDS OrderedIndex, TLAPS

Untouched == {"idle", "begun", "rolledback", "failed", "existing"} \cup Refusals

\* What the position of a call says.
CallOK(c) ==
    /\ pc[c] # "idle" => /\ arg[c] # None
                         /\ c \in Creates => /\ arg[c].content \in Contents
                                            /\ arg[c].rankScope \in RankScopes
    /\ pc[c] \in Untouched => c \notin open /\ c \notin commits
    /\ pc[c] \in {"commit", "acked", "resolve", "ambiguous"} => want[c] # None
    /\ pc[c] \in {"acked", "ok", "existing"} =>
          c \notin open /\ Version(Id(c), want[c]) \in written
CallInv == \A c \in Calls : CallOK(c)

\* A transaction whose COMMIT was sent still finds what it has read under its lock.
StageOK(c) ==
    /\ pc[c] \in {"commit", "resolve", "ambiguous"} /\ c \notin commits
    /\ c \in Creates => Current(c) = None /\ nextOrder[Id(c).scope] < MaxOrder
                        /\ want[c] = Created(c)
    /\ c \in Mutations => /\ Current(c) # None /\ ~Current(c).deleted
                          /\ Current(c).revision < MaxRevision /\ want[c] = Mutated(c)
StageInv == \A c \in open : StageOK(c)

\* Row locks exclude each other.
LockInv == \A c, d \in open : SameRow(c, d) => c = d

\* The counter never goes back, and what is stored was written.
StoreInv ==
    /\ \A s \in Table!Scopes : taken[s] <= nextOrder[s]
    /\ \A i \in Ids : record[i] # None => Version(i, record[i]) \in written
    /\ \A v \in written : record[v.id] # None

IInv ==
    TypeOK /\ CallInv /\ StageInv /\ LockInv /\ StoreInv /\ OrdersDense /\ OneVersionPerRevision

shared == <<taken, nextOrder, record, open, written, commits, arg>>

-----------------------------------------------------------------------------
\* A record of the table has the fields of RecordSet, and is not None.
LEMMA RecordFields ==
    ASSUME NEW r \in Table!RecordSet
    PROVE  /\ r.order \in 1 .. MaxOrder /\ r.revision \in 1 .. MaxRevision
           /\ r.rankScope \in RankScopes /\ r.value \in Values
           /\ r.rank \in Int \cup {None} /\ r.due \in Int \cup {None} /\ r.deleted \in BOOLEAN
           /\ r # None
  BY NoneAssumption DEF Table!RecordSet, Table!Place

\* The arguments of a call that has begun.
LEMMA Arguments ==
    ASSUME TypeOK, CallInv, NEW c \in Calls, pc[c] # "idle"
    PROVE  /\ Id(c) \in Ids /\ Id(c).scope \in Table!Scopes
           /\ arg[c].content \in Contents \cup {None}
           /\ c \in Creates => arg[c].content \in Contents /\ arg[c].rankScope \in RankScopes
  BY DEF TypeOK, CallInv, CallOK, Id, ArgSet, Table!Scopes

\* The record that Create stages is one of the table.
LEMMA CreatedType ==
    ASSUME TypeOK, CallInv, NEW c \in Creates, pc[c] # "idle", nextOrder[Id(c).scope] < MaxOrder
    PROVE  /\ Created(c) \in Table!RecordSet
           /\ Created(c).order = nextOrder[Id(c).scope] + 1
           /\ Created(c).revision = 1
<1>0. c \in Calls
  BY DEF Calls
<1>1. nextOrder[Id(c).scope] + 1 \in 1 .. MaxOrder
  BY <1>0, Arguments, LimitAssumption DEF TypeOK
<1>2. 1 \in 1 .. MaxRevision
  BY LimitAssumption
<1>3. /\ arg[c].content.value \in Values /\ arg[c].content.rank \in Int \cup {None}
      /\ arg[c].content.due \in Int \cup {None} /\ arg[c].rankScope \in RankScopes
  BY <1>0, Arguments, ContentAssumption
<1> QED
  BY <1>1, <1>2, <1>3 DEF Created, Table!RecordSet, Table!Place

\* The record that Update or Delete stages has the next revision and the same order.
LEMMA MutatedType ==
    ASSUME TypeOK, CallInv, NEW c \in Mutations, pc[c] # "idle",
           Current(c) # None, Current(c).revision < MaxRevision
    PROVE  /\ Mutated(c) \in Table!RecordSet
           /\ Mutated(c).order = Current(c).order
           /\ Mutated(c).revision = Current(c).revision + 1
<1>0. c \in Calls
  BY DEF Calls
<1>1. Current(c) \in Table!RecordSet
  BY <1>0, Arguments DEF Current, TypeOK
<1>2. Current(c).revision + 1 \in 1 .. MaxRevision
  BY <1>1, RecordFields, LimitAssumption
<1>3. CASE Deletes(c)
  <2>1. Mutated(c) = [Current(c) EXCEPT !.revision = Current(c).revision + 1, !.rank = None,
                                        !.due = None, !.deleted = TRUE]
    BY <1>3 DEF Mutated, Tombstone
  <2> QED
    BY <1>1, <1>2, <2>1 DEF Table!RecordSet, Table!Place
<1>4. CASE ~Deletes(c)
  <2>1. /\ arg[c].content.value \in Values /\ arg[c].content.rank \in Int \cup {None}
        /\ arg[c].content.due \in Int \cup {None}
    BY <1>0, <1>4, Arguments, ContentAssumption DEF Deletes
  <2>2. Mutated(c) = [Current(c) EXCEPT !.revision = Current(c).revision + 1,
            !.value = arg[c].content.value, !.rank = arg[c].content.rank, !.due = arg[c].content.due]
    BY <1>4 DEF Mutated, Updated
  <2> QED
    BY <1>1, <1>2, <2>1, <2>2 DEF Table!RecordSet, Table!Place
<1> QED
  BY <1>3, <1>4

-----------------------------------------------------------------------------
\* The empty tables satisfy the invariant.
LEMMA InitIInv == Init => IInv
<1> SUFFICES ASSUME Init PROVE IInv
  OBVIOUS
<1> USE DEF Init, Table!TableInit
<1>1. TypeOK
  BY AttemptAssumption, LimitAssumption DEF TypeOK, PC
<1>2. CallInv
  BY DEF CallInv, CallOK, Calls
<1>3. StageInv /\ LockInv
  BY DEF StageInv, LockInv
<1>4. StoreInv /\ OneVersionPerRevision
  BY <1>1, LimitAssumption DEF StoreInv, OneVersionPerRevision, TypeOK
<1>5. OrdersDense
  <2>1. \A i \in Ids : record[i] = None
    OBVIOUS
  <2>2. \A s \in Table!Scopes : taken[s] \in 0 .. MaxOrder /\ nextOrder[s] = taken[s]
    OBVIOUS
  <2> QED
    BY <2>1, <2>2, LimitAssumption DEF OrdersDense
<1> QED
  BY <1>1, <1>2, <1>3, <1>4, <1>5 DEF IInv

\* A step that only moves a call on: what it must leave true of the call itself.
LEMMA QuietStep ==
    ASSUME IInv, NEW c \in Calls, NEW p \in PC, Goto(c, p), UNCHANGED shared,
           NEW w \in Table!RecordSet \cup {None}, want' = [want EXCEPT ![c] = w],
           NEW n \in 0 .. MaxAttempts, attempt' = [attempt EXCEPT ![c] = n],
           CallOK(c)',
           c \in open => p \in {"commit", "resolve", "ambiguous"} /\ w = want[c]
    PROVE  IInv'
<1> USE DEF IInv, shared, Goto
<1>1. TypeOK'
  BY DEF TypeOK
<1>2. CallInv'
  <2> SUFFICES ASSUME NEW d \in Calls, d # c PROVE CallOK(d)'
    BY DEF CallInv
  <2>1. pc'[d] = pc[d] /\ want'[d] = want[d] /\ CallOK(d)
    BY DEF TypeOK, CallInv
  <2> QED
    BY <2>1 DEF CallOK, Id, Version
<1>3. StageInv'
  <2> SUFFICES ASSUME NEW d \in open PROVE StageOK(d)'
    BY DEF StageInv
  <2>1. want'[d] = want[d] /\ pc'[d] \in {"commit", "resolve", "ambiguous"} /\ StageOK(d)
    BY DEF TypeOK, StageInv, StageOK
  <2> QED
    BY <2>1 DEF StageOK, Current, Id, Created, Mutated, Updated, Tombstone, Deletes
<1>4. LockInv' /\ StoreInv'
  BY DEF LockInv, SameRow, Id, StoreInv
<1>5. OrdersDense' /\ OneVersionPerRevision'
  BY DEF OrdersDense, OneVersionPerRevision
<1> QED
  BY <1>1, <1>2, <1>3, <1>4, <1>5

\* A call is made.
LEMMA BeginStep ==
    ASSUME IInv, NEW c \in Calls, Begin(c)
    PROVE  IInv'
<1> USE DEF IInv
<1>1. /\ pc[c] = "idle" /\ pc' = [pc EXCEPT ![c] = "begun"]
      /\ attempt' = [attempt EXCEPT ![c] = 1] /\ want' = want
      /\ UNCHANGED <<taken, nextOrder, record, open, written, commits>>
  BY DEF Begin, Goto
<1>2. PICK a \in ArgSet :
        /\ arg' = [arg EXCEPT ![c] = a]
        /\ c \in Creates => a.content \in Contents /\ a.rankScope \in RankScopes
  <2>1. CASE c \in Creates
    <3>1. PICK i \in Ids, p \in Contents, s \in RankScopes : arg' = [arg EXCEPT ![c] = ArgOf(i, 0, p, s)]
      BY <2>1, DisjointAssumption DEF Begin
    <3>2. 0 \in 0 .. MaxRevision
      BY LimitAssumption
    <3>3. /\ ArgOf(i, 0, p, s) \in ArgSet
          /\ ArgOf(i, 0, p, s).content = p /\ ArgOf(i, 0, p, s).rankScope = s
      BY <3>2 DEF ArgOf, ArgSet
    <3> QED
      BY <3>1, <3>3
  <2>2. CASE c \in Mutations
    <3>1. PICK i \in Ids, e \in 1 .. MaxRevision, p \in Contents \cup {None} :
            arg' = [arg EXCEPT ![c] = ArgOf(i, e, p, None)]
      BY <2>2, DisjointAssumption DEF Begin
    <3>2. e \in 0 .. MaxRevision
      BY LimitAssumption
    <3> QED
      BY <2>2, <3>1, <3>2, DisjointAssumption DEF ArgOf, ArgSet
  <2> QED
    BY <2>1, <2>2 DEF Calls
<1>3. c \notin open /\ c \notin commits
  BY <1>1 DEF CallInv, CallOK, Untouched
<1>4. TypeOK'
  BY <1>1, <1>2, AttemptAssumption DEF TypeOK, PC
<1>5. \A d \in Calls : d # c => pc'[d] = pc[d] /\ arg'[d] = arg[d]
  BY <1>1, <1>2 DEF TypeOK
<1>6. CallInv'
  <2>1. CallOK(c)'
    <3>1. pc'[c] = "begun" /\ arg'[c] = a
      BY <1>1, <1>2 DEF TypeOK
    <3>2. a # None
      BY NoneAssumption
    <3> QED
      BY <1>1, <1>2, <1>3, <3>1, <3>2 DEF CallOK, Untouched
  <2>2. ASSUME NEW d \in Calls, d # c PROVE CallOK(d)'
    BY <1>1, <1>5, <2>2 DEF CallInv, CallOK, Id, Version
  <2> QED
    BY <2>1, <2>2 DEF CallInv
<1>7. StageInv'
  <2> SUFFICES ASSUME NEW d \in open PROVE StageOK(d)'
    BY <1>1 DEF StageInv
  <2>1. d \in Calls /\ d # c /\ StageOK(d)
    BY <1>3 DEF TypeOK, StageInv
  <2> QED
    BY <1>1, <1>5, <2>1 DEF StageOK, Current, Id, Created, Mutated, Updated, Tombstone, Deletes
<1>8. LockInv'
  BY <1>1, <1>3, <1>5 DEF LockInv, SameRow, Id, TypeOK
<1>9. StoreInv' /\ OrdersDense' /\ OneVersionPerRevision'
  BY <1>1 DEF StoreInv, OrdersDense, OneVersionPerRevision
<1> QED
  BY <1>4, <1>6, <1>7, <1>8, <1>9

\* The COMMIT is sent: the record is what StageOK says, and the lock was free.
LEMMA StageStep ==
    ASSUME IInv, NEW c \in Calls, pc[c] = "begun", Locked(c),
           NEW w \in Table!RecordSet, Stage(c, w),
           c \in Creates => Current(c) = None /\ nextOrder[Id(c).scope] < MaxOrder /\ w = Created(c),
           c \in Mutations => /\ Current(c) # None /\ ~Current(c).deleted
                              /\ Current(c).revision < MaxRevision /\ w = Mutated(c)
    PROVE  IInv'
<1> USE DEF IInv
<1>1. /\ pc' = [pc EXCEPT ![c] = "commit"] /\ want' = [want EXCEPT ![c] = w]
      /\ open' = open \cup {c}
      /\ UNCHANGED <<taken, nextOrder, record, written, commits, arg, attempt>>
  BY DEF Stage, Goto
<1>2. TypeOK'
  BY <1>1 DEF TypeOK, PC
<1>3. \A d \in Calls : d # c => pc'[d] = pc[d] /\ want'[d] = want[d]
  BY <1>1 DEF TypeOK
<1>4. pc'[c] = "commit" /\ want'[c] = w /\ w # None /\ c \notin commits
  BY <1>1, NoneAssumption DEF TypeOK, CallInv, CallOK, Untouched
<1>5. CallInv'
  <2>1. CallOK(c)'
    BY <1>1, <1>4 DEF CallInv, CallOK, Untouched, Refusals
  <2>2. ASSUME NEW d \in Calls, d # c PROVE CallOK(d)'
    BY <1>1, <1>3, <2>2 DEF CallInv, CallOK, Id, Version
  <2> QED
    BY <2>1, <2>2 DEF CallInv
<1>6. StageInv'
  <2>1. StageOK(c)'
    BY <1>1, <1>4 DEF StageOK, Current, Id, Created, Mutated, Updated, Tombstone, Deletes
  <2>2. ASSUME NEW d \in open, d # c PROVE StageOK(d)'
    <3>1. d \in Calls /\ StageOK(d)
      BY DEF TypeOK, StageInv
    <3> QED
      BY <1>1, <1>3, <2>2, <3>1 DEF StageOK, Current, Id, Created, Mutated, Updated, Tombstone, Deletes
  <2> QED
    BY <1>1, <2>1, <2>2 DEF StageInv
<1>7. LockInv'
  <2>1. \A d \in open : ~SameRow(c, d) /\ ~SameRow(d, c)
    BY DEF Locked, SameRow
  <2> QED
    BY <1>1, <2>1 DEF LockInv, SameRow, Id
<1>8. StoreInv' /\ OrdersDense' /\ OneVersionPerRevision'
  BY <1>1 DEF StoreInv, OrdersDense, OneVersionPerRevision
<1> QED
  BY <1>2, <1>5, <1>6, <1>7, <1>8

\* The server rolls a transaction back.
LEMMA AbortStep ==
    ASSUME IInv, NEW c \in Calls, Abort(c)
    PROVE  IInv'
<1> USE DEF IInv
<1>1. /\ c \in open /\ open' = open \ {c}
      /\ UNCHANGED <<taken, nextOrder, record, written, commits, arg, attempt>>
  BY DEF Abort
<1>2. \/ /\ pc[c] = "commit" /\ pc' = [pc EXCEPT ![c] = "rolledback"]
         /\ want' = [want EXCEPT ![c] = None]
      \/ UNCHANGED <<pc, want>>
  BY DEF Abort, Goto
<1>3. TypeOK'
  BY <1>1, <1>2 DEF TypeOK, PC
<1>4. \A d \in Calls : d # c => pc'[d] = pc[d] /\ want'[d] = want[d]
  BY <1>2 DEF TypeOK
<1>5. StageOK(c)
  BY <1>1 DEF StageInv
<1>6. CallInv'
  <2>1. CallOK(c)'
    <3>1. CASE pc' = [pc EXCEPT ![c] = "rolledback"] /\ pc[c] = "commit"
      <4>1. pc'[c] = "rolledback"
        BY <3>1 DEF TypeOK
      <4> QED
        BY <1>1, <1>5, <3>1, <4>1 DEF CallInv, CallOK, StageOK
    <3>2. CASE UNCHANGED <<pc, want>>
      BY <1>1, <1>5, <3>2 DEF CallInv, CallOK, StageOK, Untouched, Refusals, Id, Version
    <3> QED
      BY <1>2, <3>1, <3>2
  <2>2. ASSUME NEW d \in Calls, d # c PROVE CallOK(d)'
    BY <1>1, <1>4, <2>2 DEF CallInv, CallOK, Id, Version
  <2> QED
    BY <2>1, <2>2 DEF CallInv
<1>7. StageInv'
  <2> SUFFICES ASSUME NEW d \in open, d # c PROVE StageOK(d)'
    BY <1>1 DEF StageInv
  <2>1. d \in Calls /\ StageOK(d)
    BY DEF TypeOK, StageInv
  <2> QED
    BY <1>1, <1>4, <2>1 DEF StageOK, Current, Id, Created, Mutated, Updated, Tombstone, Deletes
<1>8. LockInv' /\ StoreInv' /\ OrdersDense' /\ OneVersionPerRevision'
  BY <1>1 DEF LockInv, SameRow, Id, StoreInv, OrdersDense, OneVersionPerRevision
<1> QED
  BY <1>3, <1>6, <1>7, <1>8

\* What a COMMIT does to the table: it stores a new record, or the next revision of one.
LEMMA CommitEffect ==
    ASSUME IInv, NEW c \in Calls, Commit(c)
    PROVE  /\ StageOK(c) /\ pc[c] # "idle"
           /\ want[c] \in Table!RecordSet /\ Id(c) \in Ids /\ Id(c).scope \in Table!Scopes
           /\ record' = [record EXCEPT ![Id(c)] = want[c]]
           /\ written' = written \cup {Version(Id(c), want[c])}
           /\ c \in Creates => /\ nextOrder' = [nextOrder EXCEPT ![Id(c).scope] = want[c].order]
                               /\ want[c].order = nextOrder[Id(c).scope] + 1
                               /\ want[c].revision = 1
           /\ c \in Mutations => /\ nextOrder' = nextOrder
                                 /\ want[c].order = Current(c).order
                                 /\ want[c].revision = Current(c).revision + 1
<1> USE DEF IInv
<1>1. c \in open /\ StageOK(c) /\ pc[c] # "idle"
  BY DEF Commit, StageInv, StageOK
<1>2. Id(c) \in Ids /\ Id(c).scope \in Table!Scopes
  BY <1>1, Arguments
<1>3. /\ record' = [record EXCEPT ![Id(c)] = want[c]]
      /\ written' = written \cup {Version(Id(c), want[c])}
  BY DEF Commit
<1>4. CASE c \in Creates
  <2>1. c \notin Mutations
    BY <1>4, DisjointAssumption
  <2>2. nextOrder' = [nextOrder EXCEPT ![Id(c).scope] = want[c].order]
    BY <1>4 DEF Commit, CounterAfter
  <2> QED
    BY <1>1, <1>2, <1>3, <1>4, <2>1, <2>2, CreatedType DEF StageOK
<1>5. CASE c \in Mutations
  <2>1. c \notin Creates
    BY <1>5, DisjointAssumption
  <2>2. nextOrder' = nextOrder
    BY <1>2, <2>1 DEF Commit, TypeOK
  <2> QED
    BY <1>1, <1>2, <1>3, <1>5, <2>1, <2>2, MutatedType DEF StageOK
<1> QED
  BY <1>4, <1>5 DEF Calls

\* The next order is given to a new record: the orders stay dense.
LEMMA DenseCreate ==
    ASSUME IInv, NEW c \in Creates, Commit(c)
    PROVE  OrdersDense'
<1> DEFINE i == Id(c)
           s == Id(c).scope
<1> USE DEF IInv
<1>0. c \in Calls
  BY DEF Calls
<1>1. /\ i \in Ids /\ s \in Table!Scopes /\ record[i] = None
      /\ want[c] \in Table!RecordSet /\ record' = [record EXCEPT ![i] = want[c]]
      /\ nextOrder' = [nextOrder EXCEPT ![s] = nextOrder[s] + 1]
      /\ want[c].order = nextOrder[s] + 1
  BY <1>0, CommitEffect DEF StageOK, Current
<1>2. /\ record'[i] = want[c] /\ want[c] # None
      /\ \A j \in Ids : j # i => record'[j] = record[j]
  BY <1>1, NoneAssumption DEF TypeOK
<1>3. \A j \in Ids : record[j] # None =>
         record[j].order \in 1 .. MaxOrder /\ (j.scope = s => record[j].order <= nextOrder[s])
  <2> SUFFICES ASSUME NEW j \in Ids, record[j] # None
               PROVE  record[j].order \in 1 .. MaxOrder /\ (j.scope = s => record[j].order <= nextOrder[s])
    OBVIOUS
  <2>1. record[j].order \in 1 .. MaxOrder
    BY RecordFields DEF TypeOK
  <2> QED
    BY <1>1, <2>1 DEF OrdersDense
<1>4. taken' = taken /\ taken[s] <= nextOrder[s] /\ nextOrder[s] \in Nat /\ taken[s] \in Nat
  BY <1>1 DEF Commit, StoreInv, TypeOK
<1>5. ASSUME NEW t \in Table!Scopes, NEW o \in 1 .. MaxOrder
      PROVE  taken'[t] < o /\ o <= nextOrder'[t]
                 <=> \E j \in Ids : j.scope = t /\ record'[j] # None /\ record'[j].order = o
  <2>1. taken[t] < o /\ o <= nextOrder[t]
            <=> \E j \in Ids : j.scope = t /\ record[j] # None /\ record[j].order = o
    BY DEF OrdersDense
  <2>2. CASE t # s
    <3>1. nextOrder'[t] = nextOrder[t]
      BY <1>1, <2>2 DEF TypeOK
    <3>2. \A j \in Ids : j.scope = t => record'[j] = record[j]
      BY <1>2, <2>2
    <3> QED
      BY <1>4, <2>1, <3>1, <3>2
  <2>3. CASE t = s
    <3>1. nextOrder'[s] = nextOrder[s] + 1
      BY <1>1 DEF TypeOK
    <3>2. (\E j \in Ids : j.scope = s /\ record'[j] # None /\ record'[j].order = o)
             <=> \/ o = nextOrder[s] + 1
                 \/ \E j \in Ids : j.scope = s /\ record[j] # None /\ record[j].order = o
      BY <1>1, <1>2
    <3>3. taken[s] < o /\ o <= nextOrder[s] + 1
             <=> o = nextOrder[s] + 1 \/ (taken[s] < o /\ o <= nextOrder[s])
      BY <1>4
    <3> QED
      BY <1>4, <2>1, <2>3, <3>1, <3>2, <3>3
  <2> QED
    BY <2>2, <2>3
<1>6. ASSUME NEW j \in Ids, NEW k \in Ids, j.scope = k.scope, record'[j] # None, record'[k] # None,
             record'[j].order = record'[k].order
      PROVE  j = k
  <2>1. CASE j = i \/ k = i
    BY <1>1, <1>2, <1>3, <1>4, <1>6, <2>1
  <2>2. CASE j # i /\ k # i
    BY <1>2, <1>6, <2>2 DEF OrdersDense
  <2> QED
    BY <2>1, <2>2
<1> QED
  BY <1>5, <1>6 DEF OrdersDense

\* The COMMIT takes effect.
LEMMA CommitStep ==
    ASSUME IInv, NEW c \in Calls, Commit(c)
    PROVE  IInv'
<1> DEFINE i == Id(c)
           r == want[c]
<1> USE DEF IInv
<1>1. /\ StageOK(c) /\ r \in Table!RecordSet /\ i \in Ids
      /\ record' = [record EXCEPT ![i] = r] /\ written' = written \cup {Version(i, r)}
  BY CommitEffect
<1>2. /\ c \in open /\ open' = open \ {c} /\ commits' = commits \cup {c}
      /\ pc' = [pc EXCEPT ![c] = IF pc[c] = "commit" THEN "acked" ELSE pc[c]]
      /\ UNCHANGED <<taken, arg, attempt, want>>
  BY DEF Commit
<1>3. /\ record'[i] = r /\ r # None
      /\ \A j \in Ids : j # i => record'[j] = record[j]
  BY <1>1, NoneAssumption DEF TypeOK
<1>4. r.order \in 1 .. MaxOrder /\ r.revision \in 1 .. MaxRevision
  BY <1>1, RecordFields
<1>5. nextOrder' \in [Table!Scopes -> 0 .. MaxOrder]
      /\ \A s \in Table!Scopes : nextOrder[s] <= nextOrder'[s]
  <2>1. \A s \in Table!Scopes : nextOrder[s] \in 0 .. MaxOrder
    BY DEF TypeOK
  <2>2. r.order \in 0 .. MaxOrder
    BY <1>4
  <2>3. CASE c \in Creates
    BY <2>1, <2>2, <2>3, CommitEffect DEF TypeOK
  <2>4. CASE c \in Mutations
    BY <2>1, <2>4, CommitEffect DEF TypeOK
  <2> QED
    BY <2>3, <2>4 DEF Calls
<1>6. TypeOK'
  <2>1. record' \in [Ids -> Table!RecordSet \cup {None}] /\ Version(i, r) \in [id : Ids, record : Table!RecordSet]
    BY <1>1 DEF TypeOK, Version
  <2> QED
    BY <1>1, <1>2, <1>5, <2>1 DEF TypeOK, PC
<1>7. \A d \in Calls : d # c => pc'[d] = pc[d]
  BY <1>2 DEF TypeOK
<1>8. CallInv'
  <2>1. CallOK(c)'
    <3>1. pc'[c] \in {"acked", "resolve", "ambiguous"}
      BY <1>1, <1>2 DEF StageOK, TypeOK
    <3>2. arg[c] # None /\ (c \in Creates => arg[c].content \in Contents /\ arg[c].rankScope \in RankScopes)
      BY <1>1 DEF CallInv, CallOK, StageOK
    <3> QED
      BY <1>1, <1>2, <1>3, <3>1, <3>2 DEF CallOK, Untouched, Refusals, Id, Version
  <2>2. ASSUME NEW d \in Calls, d # c PROVE CallOK(d)'
    BY <1>1, <1>2, <1>7, <2>2 DEF CallInv, CallOK, Id, Version
  <2> QED
    BY <2>1, <2>2 DEF CallInv
<1>9. StageInv'
  <2> SUFFICES ASSUME NEW d \in open, d # c PROVE StageOK(d)'
    BY <1>2 DEF StageInv
  <2>1. d \in Calls /\ StageOK(d) /\ ~SameRow(c, d)
    BY <1>2 DEF TypeOK, StageInv, LockInv
  <2>2. Id(d) \in Ids /\ Id(d).scope \in Table!Scopes
    BY <2>1, Arguments DEF StageOK
  <2>3. Id(d) # i
    <3>1. CASE c \in Creates /\ d \in Creates
      BY <2>1, <3>1 DEF SameRow
    <3>2. CASE c \in Mutations /\ d \in Mutations
      BY <2>1, <3>2 DEF SameRow
    <3>3. CASE (c \in Creates /\ d \in Mutations) \/ (c \in Mutations /\ d \in Creates)
      BY <1>1, <2>1, <3>3 DEF StageOK, Current
    <3> QED
      BY <2>1, <3>1, <3>2, <3>3 DEF Calls
  <2>4. record'[Id(d)] = record[Id(d)]
    BY <1>3, <2>2, <2>3
  <2>5. d \in Creates => nextOrder'[Id(d).scope] = nextOrder[Id(d).scope]
    <3>1. CASE c \in Creates
      <4>1. d \in Creates => Id(d).scope # i.scope
        BY <2>1, <3>1 DEF SameRow
      <4> QED
        BY <2>2, <3>1, <4>1, CommitEffect DEF TypeOK
    <3>2. CASE c \in Mutations
      BY <3>2, CommitEffect
    <3> QED
      BY <3>1, <3>2 DEF Calls
  <2>6. arg'[d] = arg[d] /\ want'[d] = want[d] /\ pc'[d] = pc[d] /\ d \notin commits'
    BY <1>2, <1>7, <2>1 DEF StageOK
  <2> QED
    BY <2>1, <2>4, <2>5, <2>6
       DEF StageOK, Current, Id, Created, Mutated, Updated, Tombstone, Deletes
<1>10. LockInv'
  BY <1>2 DEF LockInv, SameRow, Id
<1>11. StoreInv'
  <2>1. \A s \in Table!Scopes : taken'[s] <= nextOrder'[s]
    BY <1>2, <1>5 DEF StoreInv, TypeOK
  <2>2. \A j \in Ids : record'[j] # None => Version(j, record'[j]) \in written'
    BY <1>1, <1>3 DEF StoreInv
  <2>3. \A v \in written' : v.id \in Ids /\ record'[v.id] # None
    BY <1>1, <1>3 DEF StoreInv, TypeOK, Version
  <2> QED
    BY <2>1, <2>2, <2>3 DEF StoreInv, Version
<1>12. OrdersDense'
  <2>1. CASE c \in Mutations
    <3>1. record[i] # None /\ r.order = record[i].order /\ nextOrder' = nextOrder /\ taken' = taken
      BY <1>1, <1>2, <2>1, CommitEffect DEF StageOK, Current
    <3>2. \A j \in Ids : /\ record'[j] # None <=> record[j] # None
                         /\ record[j] # None => record'[j].order = record[j].order
      BY <1>3, <3>1
    <3> QED
      BY <3>1, <3>2 DEF OrdersDense
  <2> QED
    BY <2>1, DenseCreate DEF Calls
<1>13. OneVersionPerRevision'
  <2>1. \A v \in written : v.id \in Ids /\ v.record \in Table!RecordSet /\ v.record.revision \in Nat
    BY RecordFields, LimitAssumption DEF TypeOK
  <2>2. \A v \in written : v.id = i => v.record.revision < r.revision /\ v.record.order = r.order
    <3>1. CASE c \in Creates
      BY <1>1, <3>1 DEF StageOK, Current, StoreInv
    <3>2. CASE c \in Mutations
      <4>1. /\ record[i] # None /\ r.order = record[i].order /\ r.revision = record[i].revision + 1
        BY <1>1, <3>2, CommitEffect DEF StageOK, Current
      <4>2. record[i].revision \in Nat
        BY <1>1, <4>1, RecordFields, LimitAssumption DEF TypeOK
      <4> QED
        BY <2>1, <4>1, <4>2 DEF OneVersionPerRevision
    <3> QED
      BY <3>1, <3>2 DEF Calls
  <2>3. Version(i, r).id = i /\ Version(i, r).record = r /\ r.revision \in Nat
    BY <1>4, LimitAssumption DEF Version
  <2>4. \A v, w \in written' : v.id = w.id /\ v.record.revision = w.record.revision => v = w
    BY <1>1, <2>1, <2>2, <2>3 DEF OneVersionPerRevision
  <2>5. \A v \in written' :
            /\ Version(v.id, record'[v.id]) \in written'
            /\ v.record.revision <= record'[v.id].revision
            /\ v.record.order = record'[v.id].order
    BY <1>1, <1>3, <2>1, <2>2, <2>3 DEF OneVersionPerRevision
  <2> QED
    BY <2>4, <2>5 DEF OneVersionPerRevision, Version
<1> QED
  BY <1>6, <1>8, <1>9, <1>10, <1>11, <1>12, <1>13

\* The steps of a call between its statements.
LEMMA CallStep ==
    ASSUME IInv, NEW c \in Calls,
           \/ CreateExisting(c) \/ CreateExhausted(c) \/ MutateRefused(c) \/ Retry(c)
           \/ Fail(c) \/ Ack(c) \/ Unknown(c) \/ Resolve(c)
    PROVE  IInv'
<1> USE DEF IInv
<1>0. /\ want[c] \in Table!RecordSet \cup {None} /\ want = [want EXCEPT ![c] = want[c]]
      /\ attempt[c] \in 0 .. MaxAttempts /\ attempt = [attempt EXCEPT ![c] = attempt[c]]
      /\ 0 \in 0 .. MaxAttempts /\ CallOK(c)
  BY AttemptAssumption DEF TypeOK, CallInv
<1>a. \A p \in PC, w \in Table!RecordSet \cup {None} :
        Goto(c, p) /\ want' = [want EXCEPT ![c] = w] => pc'[c] = p /\ want'[c] = w
  BY DEF Goto, TypeOK
<1>b. {"existing", "exhausted", "ok", "begun", "failed", "resolve", "ambiguous"} \cup Refusals \subseteq PC
  BY DEF PC, Results, Refusals
<1>1. CASE CreateExisting(c)
  <2>1. /\ pc[c] = "begun" /\ Goto(c, "existing") /\ want' = [want EXCEPT ![c] = Current(c)]
        /\ attempt' = [attempt EXCEPT ![c] = 0] /\ UNCHANGED shared /\ Current(c) # None
    BY <1>1 DEF CreateExisting, Return, Leave, shared
  <2>2. Id(c) \in Ids /\ Current(c) \in Table!RecordSet
    BY <2>1, Arguments DEF Current, TypeOK
  <2>3. Version(Id(c), Current(c)) \in written
    BY <2>1, <2>2 DEF StoreInv, Current
  <2>4. CallOK(c)'
    <3>1. pc'[c] = "existing" /\ want'[c] = Current(c)
      BY <1>a, <1>b, <2>1, <2>2
    <3>2. open' = open /\ written' = written /\ commits' = commits /\ arg' = arg
      BY <2>1 DEF shared
    <3>3. /\ c \notin open /\ c \notin commits /\ arg[c] # None
          /\ c \in Creates => arg[c].content \in Contents /\ arg[c].rankScope \in RankScopes
      BY <1>0, <2>1 DEF CallOK, Untouched
    <3>4. Version(Id(c)', want'[c]) \in written'
      BY <2>3, <3>1, <3>2 DEF Id
    <3> HIDE DEF IInv
    <3> QED
      BY <3>1, <3>2, <3>3, <3>4 DEF CallOK
  <2>5. c \notin open
    BY <1>0, <2>1 DEF CallOK, Untouched
  <2> QED
    BY <1>0, <1>b, <2>1, <2>2, <2>4, <2>5, QuietStep
<1>2. CASE CreateExhausted(c)
  <2>1. /\ pc[c] = "begun" /\ Goto(c, "exhausted") /\ want' = want
        /\ attempt' = [attempt EXCEPT ![c] = 0] /\ UNCHANGED shared
    BY <1>2 DEF CreateExhausted, Leave, shared
  <2>2. CallOK(c)' /\ c \notin open
    BY <1>0, <1>a, <1>b, <2>1 DEF CallOK, Untouched, Refusals, shared
  <2> QED
    BY <1>0, <1>b, <2>1, <2>2, QuietStep
<1>3. CASE MutateRefused(c)
  <2>1. pc[c] = "begun" /\ attempt' = [attempt EXCEPT ![c] = 0] /\ UNCHANGED shared
    BY <1>3 DEF MutateRefused, Return, Leave, shared
  <2>2. CASE Deletes(c) /\ Refusal(c) = "deleted"
    <3>1. Goto(c, "ok") /\ want' = [want EXCEPT ![c] = Current(c)] /\ Current(c) # None
      BY <1>3, <2>2 DEF MutateRefused, Return, Leave, Refusal
    <3>2. Id(c) \in Ids /\ Current(c) \in Table!RecordSet
      BY <2>1, <3>1, Arguments DEF Current, TypeOK
    <3>3. Version(Id(c), Current(c)) \in written
      BY <3>1, <3>2 DEF StoreInv, Current
    <3>4. c \notin open
      BY <1>0, <2>1 DEF CallOK, Untouched
    <3>5. pc'[c] = "ok" /\ want'[c] = Current(c)
      BY <1>a, <1>b, <3>1, <3>2
    <3>6. CallOK(c)'
      BY <1>0, <2>1, <3>3, <3>4, <3>5 DEF CallOK, Untouched, Refusals, shared, Id, Version
    <3> QED
      BY <1>0, <1>b, <2>1, <3>1, <3>2, <3>4, <3>6, QuietStep
  <2>3. CASE ~(Deletes(c) /\ Refusal(c) = "deleted")
    <3>1. Goto(c, Refusal(c)) /\ want' = want /\ Refusal(c) \in Refusals
      BY <1>3, <2>3 DEF MutateRefused, Leave, Refusal, Refusals
    <3>2. CallOK(c)' /\ c \notin open
      BY <1>0, <1>a, <1>b, <2>1, <3>1 DEF CallOK, Untouched, Refusals, shared
    <3> QED
      BY <1>0, <1>b, <2>1, <3>1, <3>2, QuietStep
  <2> QED
    BY <2>2, <2>3
<1>4. CASE Retry(c)
  <2>1. /\ pc[c] \in {"begun", "rolledback"} /\ Goto(c, "begun") /\ want' = want
        /\ attempt' = [attempt EXCEPT ![c] = attempt[c] + 1] /\ UNCHANGED shared
        /\ attempt[c] < MaxAttempts
    BY <1>4 DEF Retry, DefinitePC, MayRetry, shared
  <2>2. CallOK(c)' /\ c \notin open
    BY <1>0, <1>a, <1>b, <2>1 DEF CallOK, Untouched, shared
  <2>3. attempt[c] + 1 \in 0 .. MaxAttempts
    BY <1>0, <2>1, AttemptAssumption
  <2> QED
    BY <1>0, <1>b, <2>1, <2>2, <2>3, QuietStep
<1>5. CASE Fail(c)
  <2>1. /\ pc[c] \in {"begun", "rolledback"} /\ Goto(c, "failed") /\ want' = want
        /\ attempt' = [attempt EXCEPT ![c] = 0] /\ UNCHANGED shared
    BY <1>5 DEF Fail, DefinitePC, Leave, shared
  <2>2. CallOK(c)' /\ c \notin open
    BY <1>0, <1>a, <1>b, <2>1 DEF CallOK, Untouched, shared
  <2> QED
    BY <1>0, <1>b, <2>1, <2>2, QuietStep
<1>6. CASE Ack(c)
  <2>1. /\ pc[c] = "acked" /\ Goto(c, "ok") /\ want' = want
        /\ attempt' = [attempt EXCEPT ![c] = 0] /\ UNCHANGED shared
    BY <1>6 DEF Ack, Leave, shared
  <2>2. CallOK(c)' /\ c \notin open
    BY <1>0, <1>a, <1>b, <2>1 DEF CallOK, Untouched, Refusals, shared, Id, Version
  <2> QED
    BY <1>0, <1>b, <2>1, <2>2, QuietStep
<1>7. CASE Unknown(c)
  <2>1. /\ pc[c] \in {"commit", "acked"} /\ Goto(c, "resolve") /\ want' = want
        /\ attempt' = [attempt EXCEPT ![c] = 0] /\ UNCHANGED shared
    BY <1>7 DEF Unknown, Leave, shared
  <2>2. CallOK(c)'
    BY <1>0, <1>a, <1>b, <2>1 DEF CallOK, Untouched, Refusals, shared, Id, Version
  <2> QED
    BY <1>0, <1>b, <2>1, <2>2, QuietStep
<1>8. CASE Resolve(c)
  <2>1. pc[c] = "resolve" /\ want' = want /\ attempt' = attempt /\ UNCHANGED shared
    BY <1>8 DEF Resolve, shared
  <2>2. CASE Goto(c, "ambiguous")
    <3>1. CallOK(c)'
      BY <1>0, <1>a, <1>b, <2>1, <2>2 DEF CallOK, Untouched, Refusals, shared, Id, Version
    <3> QED
      BY <1>0, <1>b, <2>1, <2>2, <3>1, QuietStep
  <2>3. CASE RecordsEqual(c) /\ Goto(c, "ok")
    <3>1. Id(c) \in Ids /\ want[c] # None /\ Current(c) = want[c]
      BY <1>0, <2>1, <2>3, Arguments DEF CallOK, RecordsEqual
    <3>2. Version(Id(c), want[c]) \in written
      BY <3>1 DEF StoreInv, Current
    <3>3. c \notin open
      <4> SUFFICES ASSUME c \in open PROVE FALSE
        OBVIOUS
      <4>1. StageOK(c)
        BY DEF StageInv
      <4>2. CASE c \in Mutations
        <5>1. Current(c) \in Table!RecordSet
          BY <3>1 DEF Current, TypeOK
        <5>2. Current(c).revision \in Nat
          BY <5>1, RecordFields, LimitAssumption
        <5>3. want[c].revision = Current(c).revision + 1
          BY <2>1, <4>1, <4>2, MutatedType DEF StageOK
        <5> QED
          BY <3>1, <5>2, <5>3
      <4> QED
        BY <3>1, <4>1, <4>2 DEF StageOK, Calls
    <3>4. CallOK(c)'
      BY <1>0, <1>a, <1>b, <2>1, <2>3, <3>2, <3>3 DEF CallOK, Untouched, Refusals, shared, Id, Version
    <3> QED
      BY <1>0, <1>b, <2>1, <2>3, <3>3, <3>4, QuietStep
  <2> QED
    BY <1>8, <2>2, <2>3 DEF Resolve
<1> QED
  BY <1>1, <1>2, <1>3, <1>4, <1>5, <1>6, <1>7, <1>8

\* The invariant is inductive.
LEMMA StepIInv == IInv /\ [Next]_vars => IInv'
<1> SUFFICES ASSUME IInv, [Next]_vars PROVE IInv'
  OBVIOUS
<1>1. CASE UNCHANGED vars
  <2> USE <1>1 DEF vars, IInv
  <2>1. TypeOK'
    BY DEF TypeOK
  <2>2. CallInv'
    BY DEF CallInv, CallOK, Id, Version
  <2>3. StageInv'
    BY DEF StageInv, StageOK, Id, Current, Created, Mutated, Updated, Tombstone, Deletes
  <2>4. LockInv' /\ StoreInv' /\ OrdersDense' /\ OneVersionPerRevision'
    BY DEF LockInv, StoreInv, OrdersDense, OneVersionPerRevision, SameRow, Id, Version
  <2> QED
    BY <2>1, <2>2, <2>3, <2>4
<1>2. ASSUME NEW c \in Calls, Step(c) PROVE IInv'
  <2>1. CASE CreateStage(c)
    <3>1. /\ c \in Creates /\ pc[c] = "begun" /\ Locked(c) /\ Current(c) = None
          /\ nextOrder[Id(c).scope] < MaxOrder /\ Stage(c, Created(c))
      BY <2>1 DEF CreateStage
    <3>2. Created(c) \in Table!RecordSet /\ c \notin Mutations
      BY <3>1, CreatedType, DisjointAssumption DEF IInv
    <3> QED
      BY <3>1, <3>2, StageStep
  <2>2. CASE MutateStage(c)
    <3>1. /\ c \in Mutations /\ pc[c] = "begun" /\ Locked(c) /\ Stage(c, Mutated(c))
          /\ Current(c) # None /\ ~Current(c).deleted /\ Current(c).revision # MaxRevision
      BY <2>2 DEF MutateStage, Refusal
    <3>2. Current(c) \in Table!RecordSet
      BY <3>1, Arguments DEF IInv, TypeOK, Current
    <3>3. Current(c).revision < MaxRevision
      BY <3>1, <3>2, RecordFields, LimitAssumption
    <3>4. Mutated(c) \in Table!RecordSet /\ c \notin Creates
      BY <3>1, <3>3, MutatedType, DisjointAssumption DEF IInv
    <3> QED
      BY <3>1, <3>3, <3>4, StageStep
  <2> QED
    BY <1>2, <2>1, <2>2, BeginStep, CallStep, CommitStep, AbortStep DEF Step
<1> QED
  BY <1>1, <1>2 DEF Next

\* The invariant holds in every reachable state.
LEMMA Invariance == Spec => []IInv
<1> QED
  BY InitIInv, StepIInv, PTL DEF Spec

-----------------------------------------------------------------------------
\* Every variable keeps its type: orders and revisions stay within their columns.
THEOREM TypeCorrect == Spec => []TypeOK
<1>1. IInv => TypeOK
  BY DEF IInv
<1> QED
  BY <1>1, Invariance, PTL

\* Whatever is retried, rolled back or in doubt: the orders of a scope are dense and unique,
\* a definite error has written nothing, a record that was returned was committed, and
\* each revision of an identity is one record.
THEOREM Safety ==
    Spec => [](OrdersDense /\ ErrorIsDefinite /\ SuccessIsDurable /\ OneVersionPerRevision)
<1>1. IInv => ErrorIsDefinite
  BY DEF IInv, ErrorIsDefinite, CallInv, CallOK, Untouched
<1>2. IInv => SuccessIsDurable
  BY DEF IInv, SuccessIsDurable, CallInv, CallOK
<1>3. IInv => OrdersDense /\ OneVersionPerRevision
  BY DEF IInv
<1> QED
  BY <1>1, <1>2, <1>3, Invariance, PTL

\* The transactions of Create, Update and Delete implement the atomic table: each COMMIT is
\* one of its steps, and nothing else changes the records.
THEOREM Refinement == Spec => ImplementsTable
<1>1. Init => Table!TableInit
  BY DEF Init
<1>2. IInv /\ [Next]_vars => [Table!TableNext]_record
  <2> SUFFICES ASSUME IInv, Next, record' # record PROVE Table!TableNext
    BY DEF vars
  <2>1. PICK c \in Calls : Step(c)
    BY DEF Next
  <2>2. Commit(c)
    BY <2>1 DEF Step, Begin, CreateExisting, CreateExhausted, CreateStage, MutateRefused, MutateStage,
                Stage, Retry, Fail, Abort, Ack, Unknown, Resolve
  <2> DEFINE i == Id(c)
  <2>3. /\ StageOK(c) /\ pc[c] # "idle" /\ want[c] \in Table!RecordSet /\ i \in Ids
        /\ i.scope \in Table!Scopes /\ record' = [record EXCEPT ![i] = want[c]]
    BY <2>2, CommitEffect
  <2>4. CASE c \in Creates
    <3>1. record[i] = None /\ want[c] = Created(c) /\ nextOrder[i.scope] < MaxOrder
      BY <2>3, <2>4 DEF StageOK, Current
    <3>2. want[c].order = nextOrder[i.scope] + 1 /\ want[c].order \in 1 .. MaxOrder
      BY <2>2, <2>3, <2>4, CommitEffect, RecordFields
    <3>3. ASSUME NEW j \in Ids, j.scope = i.scope, record[j] # None
          PROVE  record[j].order < want[c].order
      <4>1. record[j].order \in 1 .. MaxOrder
        BY <3>3, RecordFields DEF IInv, TypeOK
      <4>2. record[j].order <= nextOrder[i.scope] /\ nextOrder[i.scope] \in Nat
        BY <2>3, <3>3, <4>1 DEF IInv, OrdersDense, TypeOK
      <4> QED
        BY <3>2, <4>1, <4>2
    <3>4. Table!NewOrder(i, want[c].order)
      BY <3>3 DEF Table!NewOrder
    <3>5. arg[c].rankScope \in RankScopes /\ arg[c].content \in Contents
      BY <2>3, <2>4, Arguments DEF IInv
    <3>6. want[c] = [order |-> want[c].order, revision |-> 1, rankScope |-> arg[c].rankScope,
                     value |-> arg[c].content.value, rank |-> arg[c].content.rank,
                     due |-> arg[c].content.due, deleted |-> FALSE]
      BY <3>1, <3>2 DEF Created
    <3>7. Table!TableCreate(i)
      BY <2>3, <3>1, <3>2, <3>4, <3>5, <3>6 DEF Table!TableCreate, Table!Store
    <3> QED
      BY <2>3, <3>7 DEF Table!TableNext, Table!TableStep
  <2>5. CASE c \in Mutations
    <3>1. /\ record[i] # None /\ ~record[i].deleted /\ record[i].revision < MaxRevision
          /\ want[c] = Mutated(c)
      BY <2>3, <2>5 DEF StageOK, Current
    <3>2. Table!Live(i)
      BY <3>1 DEF Table!Live
    <3>3. CASE Deletes(c)
      <4>1. Table!TableDelete(i)
        BY <2>3, <3>1, <3>2, <3>3 DEF Mutated, Tombstone, Current, Table!TableDelete, Table!Store
      <4> QED
        BY <2>3, <4>1 DEF Table!TableNext, Table!TableStep
    <3>4. CASE ~Deletes(c)
      <4>1. arg[c].content \in Contents
        BY <2>3, <3>4, Arguments DEF IInv, Deletes
      <4>2. want[c] = [record[i] EXCEPT !.revision = record[i].revision + 1,
                !.value = arg[c].content.value, !.rank = arg[c].content.rank,
                !.due = arg[c].content.due]
        BY <3>1, <3>4 DEF Mutated, Updated, Current
      <4>3. Table!TableUpdate(i)
        BY <2>3, <3>2, <4>1, <4>2 DEF Table!TableUpdate, Table!Store
      <4> QED
        BY <2>3, <4>3 DEF Table!TableNext, Table!TableStep
    <3> QED
      BY <3>3, <3>4
  <2> QED
    BY <2>4, <2>5 DEF Calls
<1> QED
  BY <1>1, <1>2, Invariance, PTL DEF Spec, ImplementsTable, Table!TableSpec
=============================================================================
