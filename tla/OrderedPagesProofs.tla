------------------------- MODULE OrderedPagesProofs -------------------------
(***************************************************************************)
(* Proofs about OrderedPages, for any records, queries and page sizes.     *)
(***************************************************************************)
EXTENDS OrderedPages, FiniteSetTheorems, TLAPS

TypeInv ==
    /\ record \in [Ids -> RecordSet \cup {None}]
    /\ status \in {"new", "more", "done"}
    /\ cursor \in CursorSet \cup {None}
    /\ earlier \subseteq Position /\ page \subseteq Position
    /\ stable \subseteq Ids
    /\ after \in Nat /\ followed \subseteq Position

\* No two records of a scope have the same order.
UniqueOrders ==
    \A i, j \in Ids : i.scope = j.scope /\ record[i] # None /\ record[j] # None
                          /\ record[i].order = record[j].order => i = j

\* The cursor is at the last row read, and every stable record is read or lies ahead.
ReaderInv ==
    /\ status = "new" => earlier = {} /\ page = {} /\ stable = {} /\ cursor = None
    /\ status # "new" => query \in Queries /\ \A i \in stable : Matches(query, i)
    /\ status = "more" =>
          /\ cursor \in CursorSet /\ cursor.query = query /\ cursor.position \in page
          /\ \A p \in earlier \cup page : p = cursor.position \/ Before(query, p, cursor.position)
          /\ \A i \in stable : \/ PositionOf(query, i) \in earlier \cup page
                               \/ Before(query, cursor.position, PositionOf(query, i))
    /\ ListingComplete
    /\ PagesAdvance

\* The follower stands at a record it was given, or at the beginning.
FollowerInv ==
    /\ FollowerMissesNothing
    /\ after = 0 \/ \E p \in followed : p.at = after

IInv == TypeInv /\ UniqueOrders /\ ReaderInv /\ FollowerInv

-----------------------------------------------------------------------------
\* The rows of a listing are strictly and totally ordered.
LEMMA BeforeOrder ==
    ASSUME NEW q, NEW p \in Position, NEW r \in Position
    PROVE  /\ p = r \/ Before(q, p, r) \/ Before(q, r, p)
           /\ ~(Before(q, p, r) /\ Before(q, r, p))
           /\ ~Before(q, p, p)
  BY DEF Before, Less, Position

\* ... and transitively.
LEMMA BeforeTransitive ==
    ASSUME NEW q, NEW p \in Position, NEW r \in Position, NEW t \in Position,
           Before(q, p, r), Before(q, r, t)
    PROVE  Before(q, p, t)
  BY DEF Before, Less, Position

\* A record has the fields of its type.
LEMMA RecordFields ==
    ASSUME NEW r \in RecordSet
    PROVE  /\ r.order \in 1 .. MaxOrder /\ r.revision \in 1 .. MaxRevision
           /\ r.rankScope \in RankScopes /\ r.value \in Values
           /\ r.rank \in Int \cup {None} /\ r.due \in Int \cup {None} /\ r.deleted \in BOOLEAN
           /\ r # None
  BY NoneAssumption DEF RecordSet, Place

\* A record in a listing has a position in it.
LEMMA PositionType ==
    ASSUME TypeInv, NEW q, NEW i \in Ids, Matches(q, i)
    PROVE  /\ PositionOf(q, i) \in Position
           /\ PositionOf(q, i).at = Column(q, record[i])
           /\ PositionOf(q, i).key = i.key /\ PositionOf(q, i).scope = i.scope
<1>1. record[i] \in RecordSet
  BY DEF TypeInv, Matches
<1>2. Column(q, record[i]) \in Int
  BY <1>1, RecordFields, LimitAssumption DEF Column, Matches
<1>3. i.key \in Nat /\ i.scope \in Nat
  BY IdAssumption
<1> QED
  BY <1>2, <1>3 DEF PositionOf, Position

\* The rows of a listing are finitely many positions.
LEMMA ListedType ==
    ASSUME TypeInv, NEW q
    PROVE  Listed(q) \subseteq Position /\ IsFiniteSet(Listed(q))
<1> DEFINE S == {i \in Ids : Matches(q, i)}
           f == [i \in S |-> PositionOf(q, i)]
<1>1. Listed(q) \subseteq Position
  BY PositionType DEF Listed
<1>2. IsFiniteSet(S)
  BY IdAssumption, FS_Subset
<1>3. f \in Surjection(S, Listed(q))
  BY DEF Surjection, Listed
<1> HIDE DEF f, S
<1> QED
  BY <1>1, <1>2, <1>3, FS_Surjection

\* A page cut from limit + 1 rows is the first rows, and all rows if no more were found.
LEMMA PageOfRows ==
    ASSUME NEW q, NEW limit \in Limits, NEW R, IsFiniteSet(R), R \subseteq Position,
           NEW F \in SUBSET R, First(q, F, R, limit + 1),
           NEW P \in SUBSET F, First(q, P, F, limit)
    PROVE  /\ \A p \in P, r \in R \ P : Before(q, p, r)
           /\ Cardinality(F) <= limit => P = R
<1>1. \A p \in P, r \in R \ P : ~Before(q, r, p) /\ p # r
  BY DEF First
<1>2. \A p \in P, r \in R \ P : Before(q, p, r)
  BY <1>1, BeforeOrder
<1>3. ASSUME Cardinality(F) <= limit PROVE P = R
  <2>1. IsFiniteSet(F) /\ Cardinality(F) \in Nat /\ limit \in Nat
    BY FS_Subset, FS_CardinalityType, PageAssumption
  <2>2. F = R
    BY <1>3, <2>1 DEF First
  <2>3. Cardinality(P) \in Nat /\ Cardinality(P) <= Cardinality(F)
        /\ (Cardinality(F) = Cardinality(P) => F = P)
    BY <2>1, FS_Subset, FS_CardinalityType
  <2>4. P = F
    BY <1>3, <2>1, <2>3 DEF First
  <2> QED
    BY <2>2, <2>4
<1> QED
  BY <1>2, <1>3

-----------------------------------------------------------------------------
\* Nothing is stored and nobody has read anything.
LEMMA InitIInv == Init => IInv
<1> SUFFICES ASSUME Init PROVE IInv
  OBVIOUS
<1> USE DEF Init, TableInit, ReadersInit
<1>1. TypeInv
  BY DEF TypeInv
<1>2. UniqueOrders
  BY DEF UniqueOrders
<1>3. ReaderInv
  BY DEF ReaderInv, ListingComplete, PagesAdvance
<1>4. Listed(Tail) = {}
  BY DEF Listed, Matches
<1>5. FollowerInv
  BY <1>4 DEF FollowerInv, FollowerMissesNothing
<1> QED
  BY <1>1, <1>2, <1>3, <1>5 DEF IInv

\* A page of ListRanked or ListDue.
LEMMA ListPageStep ==
    ASSUME IInv, ListPage
    PROVE  IInv'
<1> USE DEF IInv
<1>1. PICK q \in Queries, limit \in Limits :
        /\ Decode(q, cursor)
        /\ \E F \in SUBSET Rows(q, cursor) :
              /\ First(q, F, Rows(q, cursor), limit + 1)
              /\ \E P \in SUBSET F :
                    /\ First(q, P, F, limit)
                    /\ page' = P
                    /\ IF Cardinality(F) > limit
                       THEN \E last \in F :
                               /\ LastOf(q, P, last)
                               /\ cursor' = CursorOf(q, last) /\ status' = "more"
                       ELSE cursor' = None /\ status' = "done"
        /\ IF status = "new"
           THEN query' = q /\ stable' = {i \in Ids : Matches(q, i)}
           ELSE UNCHANGED <<query, stable>>
  BY DEF ListPage
<1> DEFINE R == Rows(q, cursor)
           S == earlier \cup page
<1>2. PICK F \in SUBSET R : /\ First(q, F, R, limit + 1)
                            /\ \E P \in SUBSET F :
                                  /\ First(q, P, F, limit)
                                  /\ page' = P
                                  /\ IF Cardinality(F) > limit
                                     THEN \E last \in F :
                                             /\ LastOf(q, P, last)
                                             /\ cursor' = CursorOf(q, last) /\ status' = "more"
                                     ELSE cursor' = None /\ status' = "done"
  BY <1>1
<1>3. PICK P \in SUBSET F :
        /\ First(q, P, F, limit)
        /\ page' = P
        /\ IF Cardinality(F) > limit
           THEN \E last \in F :
                   /\ LastOf(q, P, last)
                   /\ cursor' = CursorOf(q, last) /\ status' = "more"
           ELSE cursor' = None /\ status' = "done"
  BY <1>2
<1>4. R \subseteq Position /\ IsFiniteSet(R)
  <2>1. R \subseteq Listed(q)
    BY DEF Rows
  <2> QED
    BY <2>1, ListedType, FS_Subset
<1> HIDE DEF R
<1>5. /\ \A p \in P, r \in R \ P : Before(q, p, r)
      /\ Cardinality(F) <= limit => P = R
  BY <1>2, <1>3, <1>4, PageOfRows
<1>6. /\ record' = record /\ after' = after /\ followed' = followed
      /\ earlier' = S /\ page' = P /\ P \subseteq R /\ status # "done"
  BY <1>2, <1>3 DEF ListPage, followerVars
\* The listing is of one query from the first page to the last.
<1>7. query' = q /\ stable' \subseteq Ids /\ \A i \in stable' : Matches(q, i)
  <2>1. CASE status = "new"
    BY <1>1, <2>1
  <2>2. CASE status = "more"
    <3>1. cursor \in CursorSet /\ cursor.query = query
      BY <2>2 DEF ReaderInv
    <3>2. q = query
      BY <1>1, <3>1, CursorAssumption DEF Decode
    <3> QED
      BY <1>1, <2>2, <3>2 DEF ReaderInv, TypeInv
  <2> QED
    BY <1>6, <2>1, <2>2 DEF TypeInv
\* What was read lies before the new rows, what is stable was read or is among them.
<1>8. /\ \A p \in S, r \in R : Before(q, p, r)
      /\ \A i \in stable' : PositionOf(q, i) \in S \cup R
  <2>1. \A i \in stable' : PositionOf(q, i) \in Listed(q)
    BY <1>7 DEF Listed
  <2>2. CASE status = "new"
    <3>1. S = {} /\ R = Listed(q)
      BY <2>2 DEF ReaderInv, R, Rows, AfterCursor
    <3> QED
      BY <2>1, <3>1
  <2>3. CASE status = "more"
    <3>1. /\ cursor \in CursorSet /\ cursor.query = query /\ cursor.position \in page
          /\ q = query /\ stable' = stable /\ cursor # None
      BY <1>1, <1>7, <2>3, CursorAssumption DEF ReaderInv
    <3>2. \A r \in Listed(q) : r \in R <=> Before(q, cursor.position, r)
      BY <3>1 DEF R, Rows, AfterCursor
    <3>3. R \subseteq Listed(q) /\ S \subseteq Position /\ cursor.position \in Position
      BY <3>1 DEF R, Rows, TypeInv
    <3>4. \A p \in S : p = cursor.position \/ Before(q, p, cursor.position)
      BY <2>3, <3>1 DEF ReaderInv
    <3>5. ASSUME NEW p \in S, NEW r \in R PROVE Before(q, p, r)
      <4>1. Before(q, cursor.position, r) /\ r \in Position /\ p \in Position
        BY <1>4, <3>2, <3>3
      <4> QED
        BY <3>3, <3>4, <4>1, BeforeTransitive
    <3>6. ASSUME NEW i \in stable PROVE PositionOf(q, i) \in S \cup R
      BY <2>1, <2>3, <3>1, <3>2 DEF ReaderInv
    <3> QED
      BY <3>1, <3>5, <3>6
  <2> QED
    BY <1>6, <2>2, <2>3 DEF TypeInv
<1>9. /\ \A i \in Ids : PositionOf(q, i)' = PositionOf(q, i)
      /\ \A i \in Ids : Matches(q, i)' <=> Matches(q, i)
      /\ Listed(Tail)' = Listed(Tail)
  BY <1>6 DEF PositionOf, Column, Matches, Listed, Tail
<1>10. UniqueOrders' /\ FollowerInv'
  BY <1>6, <1>9 DEF UniqueOrders, FollowerInv, FollowerMissesNothing
<1>11. PagesAdvance'
  BY <1>6, <1>7, <1>8 DEF PagesAdvance
<1>12. S \subseteq Position /\ P \subseteq Position
  BY <1>4, <1>6 DEF TypeInv
<1>13. CASE Cardinality(F) > limit
  <2>1. PICK last \in F : LastOf(q, P, last) /\ cursor' = CursorOf(q, last) /\ status' = "more"
    BY <1>3, <1>13
  <2>2. last \in P /\ last \in Position
    BY <1>12, <2>1 DEF LastOf
  <2>3. cursor' \in CursorSet /\ cursor'.query = q /\ cursor'.position = last
    BY <2>1, <2>2 DEF CursorOf, CursorSet
  <2>4. TypeInv'
    BY <1>6, <1>7, <1>12, <2>1, <2>3 DEF TypeInv
  <2>5. \A p \in S \cup P : p = last \/ Before(q, p, last)
    BY <1>6, <1>8, <1>12, <2>1, <2>2, BeforeOrder DEF LastOf
  <2>6. \A i \in stable' : PositionOf(q, i) \in S \cup P \/ Before(q, last, PositionOf(q, i))
    BY <1>5, <1>8, <2>2
  <2>7. ReaderInv'
    <3>1. /\ earlier' \cup page' = S \cup P /\ query' \in Queries /\ cursor'.query = query'
          /\ cursor'.position \in page'
      BY <1>6, <1>7, <2>2, <2>3
    <3>2. \A i \in stable' : Matches(query, i)' /\ PositionOf(query, i)' = PositionOf(q, i)
      BY <1>6, <1>7 DEF Matches, PositionOf, Column
    <3>3. ListingComplete'
      BY <2>1 DEF ListingComplete
    <3> QED
      BY <1>7, <1>11, <2>1, <2>3, <2>5, <2>6, <3>1, <3>2, <3>3 DEF ReaderInv
  <2> QED
    BY <1>10, <2>4, <2>7
<1>14. CASE ~(Cardinality(F) > limit)
  <2>1. cursor' = None /\ status' = "done"
    BY <1>3, <1>14
  <2>2. P = R
    <3>1. Cardinality(F) \in Nat /\ limit \in Nat
      BY <1>4, FS_Subset, FS_CardinalityType, PageAssumption
    <3> QED
      BY <1>5, <1>14, <3>1
  <2>3. TypeInv'
    BY <1>6, <1>7, <1>12, <2>1 DEF TypeInv
  <2>4. \A i \in stable' : Matches(query, i)' /\ PositionOf(query, i)' = PositionOf(q, i)
    BY <1>6, <1>7 DEF Matches, PositionOf, Column
  <2>5. ListingComplete'
    BY <1>6, <1>8, <2>2, <2>4 DEF ListingComplete
  <2>6. ReaderInv'
    BY <1>7, <1>11, <2>1, <2>4, <2>5 DEF ReaderInv
  <2> QED
    BY <1>10, <2>3, <2>6
<1> QED
  BY <1>13, <1>14

\* A step of the table changes one record, to one of its type, and keeps the orders unique
\* and each record's own; a new record has an order above all others of its scope.
LEMMA TableEffect ==
    ASSUME TypeInv, UniqueOrders, NEW id \in Ids, TableStep(id)
    PROVE  /\ record' \in [Ids -> RecordSet \cup {None}]
           /\ \A i \in Ids : i # id => record'[i] = record[i]
           /\ record'[id] # None
           /\ record[id] # None => record'[id].order = record[id].order
           /\ record[id] = None => \A i \in Ids : i.scope = id.scope /\ record[i] # None
                                                  => record[i].order < record'[id].order
           /\ UniqueOrders'
<1> USE LimitAssumption
<1>1. ASSUME NEW r \in RecordSet, record' = [record EXCEPT ![id] = r],
             record[id] # None => r.order = record[id].order,
             record[id] = None => NewOrder(id, r.order)
      PROVE  /\ record' \in [Ids -> RecordSet \cup {None}]
             /\ \A i \in Ids : i # id => record'[i] = record[i]
             /\ record'[id] # None
             /\ record[id] # None => record'[id].order = record[id].order
             /\ record[id] = None => \A i \in Ids : i.scope = id.scope /\ record[i] # None
                                                    => record[i].order < record'[id].order
             /\ UniqueOrders'
  <2>1. record' \in [Ids -> RecordSet \cup {None}]
    BY <1>1 DEF TypeInv
  <2>2. record'[id] = r /\ r # None /\ \A i \in Ids : i # id => record'[i] = record[i]
    BY <1>1, RecordFields DEF TypeInv
  <2>3. \A i \in Ids : record[i] # None => record[i].order \in Int
    BY RecordFields DEF TypeInv
  <2>4. record[id] = None => \A i \in Ids : i.scope = id.scope /\ record[i] # None
                                            => record[i].order < r.order
    BY <1>1 DEF NewOrder
  <2>5. UniqueOrders'
    BY <1>1, <2>2, <2>3, <2>4, RecordFields DEF UniqueOrders
  <2> QED
    BY <1>1, <2>1, <2>2, <2>4, <2>5
<1>2. CASE TableCreate(id)
  <2>1. PICK order \in 1 .. MaxOrder, s \in RankScopes, c \in Contents :
          /\ record[id] = None /\ NewOrder(id, order)
          /\ record' = [record EXCEPT ![id] =
                [order |-> order, revision |-> 1, rankScope |-> s, value |-> c.value,
                 rank |-> c.rank, due |-> c.due, deleted |-> FALSE]]
    BY <1>2 DEF TableCreate, Store
  <2> DEFINE r == [order |-> order, revision |-> 1, rankScope |-> s, value |-> c.value,
                   rank |-> c.rank, due |-> c.due, deleted |-> FALSE]
  <2>2. r \in RecordSet /\ r.order = order
    BY ContentAssumption DEF RecordSet, Place
  <2> HIDE DEF r
  <2> QED
    BY <1>1, <2>1, <2>2 DEF r
<1>3. CASE TableUpdate(id) \/ TableDelete(id)
  <2>1. record[id] \in RecordSet /\ record[id] # None /\ record[id].revision < MaxRevision
    BY <1>3 DEF TableUpdate, TableDelete, Live, TypeInv
  <2>2. record[id].revision + 1 \in 1 .. MaxRevision
    BY <2>1, RecordFields
  <2>3. PICK r \in RecordSet : r.order = record[id].order /\ record' = [record EXCEPT ![id] = r]
    <3>1. CASE TableUpdate(id)
      <4>1. PICK c \in Contents :
              record' = [record EXCEPT ![id] =
                 [record[id] EXCEPT !.revision = record[id].revision + 1, !.value = c.value,
                                    !.rank = c.rank, !.due = c.due]]
        BY <3>1 DEF TableUpdate, Store
      <4> DEFINE u == [record[id] EXCEPT !.revision = record[id].revision + 1, !.value = c.value,
                                         !.rank = c.rank, !.due = c.due]
      <4>2. u \in RecordSet /\ u.order = record[id].order
        BY <2>1, <2>2, ContentAssumption DEF RecordSet, Place
      <4> HIDE DEF u
      <4> QED
        BY <4>1, <4>2 DEF u
    <3>2. CASE TableDelete(id)
      <4> DEFINE u == [record[id] EXCEPT !.revision = record[id].revision + 1, !.rank = None,
                                         !.due = None, !.deleted = TRUE]
      <4>1. record' = [record EXCEPT ![id] = u]
        BY <3>2 DEF TableDelete, Store
      <4>2. u \in RecordSet /\ u.order = record[id].order
        BY <2>1, <2>2 DEF RecordSet, Place
      <4> HIDE DEF u
      <4> QED
        BY <4>1, <4>2
    <3> QED
      BY <1>3, <3>1, <3>2
  <2> QED
    BY <1>1, <2>1, <2>3
<1> QED
  BY <1>2, <1>3 DEF TableStep

\* A record is written while others read.
LEMMA WriteStep ==
    ASSUME IInv, NEW id \in Ids, Write(id)
    PROVE  IInv'
<1> USE DEF IInv
<1>1. /\ TableStep(id)
      /\ UNCHANGED <<status, query, cursor, earlier, page, after, followed>>
      /\ stable' = {i \in stable : Matches(query, i)' /\ PositionOf(query, i)' = PositionOf(query, i)}
  BY DEF Write, Overtaken, followerVars
<1>2. /\ record' \in [Ids -> RecordSet \cup {None}]
      /\ \A i \in Ids : i # id => record'[i] = record[i]
      /\ record'[id] # None
      /\ record[id] # None => record'[id].order = record[id].order
      /\ record[id] = None => \A i \in Ids : i.scope = id.scope /\ record[i] # None
                                             => record[i].order < record'[id].order
      /\ UniqueOrders'
  BY <1>1, TableEffect
<1>3. TypeInv'
  BY <1>1, <1>2 DEF TypeInv
<1>4. ReaderInv'
  <2>1. \A i \in stable' : i \in stable /\ Matches(query, i)' /\ PositionOf(query, i)' = PositionOf(query, i)
    BY <1>1
  <2>2. ListingComplete' /\ PagesAdvance'
    BY <1>1, <2>1 DEF ReaderInv, ListingComplete, PagesAdvance
  <2> QED
    BY <1>1, <2>1, <2>2 DEF ReaderInv
<1>5. \A i \in Ids : Matches(Tail, i) <=> record[i] # None /\ i.scope = Followed
  BY DEF Matches, Tail
<1>6. \A i \in Ids : Matches(Tail, i)' <=> record'[i] # None /\ i.scope = Followed
  BY DEF Matches, Tail
<1>7. \A i \in Ids : /\ PositionOf(Tail, i) = [at |-> record[i].order, key |-> i.key, scope |-> i.scope]
                     /\ PositionOf(Tail, i)' = [at |-> record'[i].order, key |-> i.key, scope |-> i.scope]
  BY DEF PositionOf, Column, Tail
\* The new record, if it is one, lies after the follower.
<1>8. record[id] = None /\ id.scope = Followed => record'[id].order > after
  <2> SUFFICES ASSUME record[id] = None, id.scope = Followed PROVE record'[id].order > after
    OBVIOUS
  <2>1. record'[id].order \in 1 .. MaxOrder
    BY <1>2, RecordFields
  <2>2. CASE after = 0
    BY <2>1, <2>2, LimitAssumption
  <2>3. CASE \E p \in followed : p.at = after
    <3>1. PICK p \in Listed(Tail) : p.at = after
      BY <2>3 DEF FollowerInv, FollowerMissesNothing
    <3>2. PICK i \in Ids : Matches(Tail, i) /\ p = PositionOf(Tail, i)
      BY <3>1 DEF Listed
    <3>3. i.scope = id.scope /\ record[i] # None /\ record[i].order = after
      BY <1>5, <1>7, <3>1, <3>2
    <3> QED
      BY <1>2, <3>3
  <2> QED
    BY <2>2, <2>3 DEF FollowerInv
<1>9. {p \in Listed(Tail) : p.at <= after}' = {p \in Listed(Tail) : p.at <= after}
  <2>0. after' = after /\ after \in Nat
    BY <1>1 DEF TypeInv
  <2>1. ASSUME NEW p \in Listed(Tail), p.at <= after PROVE p \in Listed(Tail)'
    <3>1. PICK i \in Ids : Matches(Tail, i) /\ p = PositionOf(Tail, i)
      BY <2>1 DEF Listed
    <3>2. Matches(Tail, i)' /\ PositionOf(Tail, i)' = p
      BY <1>2, <1>5, <1>6, <1>7, <3>1
    <3> QED
      BY <3>2 DEF Listed, Tail
  <2>2. ASSUME NEW p \in Listed(Tail)', p.at <= after PROVE p \in Listed(Tail)
    <3>1. PICK i \in Ids : Matches(Tail, i)' /\ p = PositionOf(Tail, i)'
      BY <2>2 DEF Listed, Tail
    <3>2. record'[i].order <= after /\ record'[i].order \in Int
      BY <1>2, <1>6, <1>7, <2>2, <3>1, RecordFields
    <3>3. record[i] # None
      BY <1>2, <1>6, <1>8, <2>0, <3>1, <3>2
    <3>4. Matches(Tail, i) /\ PositionOf(Tail, i) = p
      BY <1>2, <1>5, <1>6, <1>7, <3>1, <3>3
    <3> QED
      BY <3>4 DEF Listed
  <2> QED
    BY <2>0, <2>1, <2>2
<1>10. FollowerInv'
  BY <1>1, <1>9 DEF FollowerInv, FollowerMissesNothing
<1> QED
  BY <1>2, <1>3, <1>4, <1>10

\* A page of ListOrdered.
LEMMA FollowStep ==
    ASSUME IInv, Follow
    PROVE  IInv'
<1> USE DEF IInv
<1> DEFINE L == Listed(Tail)
<1>1. PICK limit \in Limits, P \in SUBSET L :
        /\ First(Tail, P, {p \in L : p.at > after}, limit)
        /\ \E last \in P : LastOf(Tail, P, last) /\ after' = last.at
        /\ followed' = followed \cup P
  BY DEF Follow
<1>2. PICK last \in P : LastOf(Tail, P, last) /\ after' = last.at
  BY <1>1
<1>3. record' = record /\ UNCHANGED readerVars
  BY DEF Follow
<1>4. L \subseteq Position /\ L' = L
  BY <1>3, ListedType DEF Listed, Matches, PositionOf, Column, Tail
<1>5. \A p \in Position : p.at \in Int
  BY DEF Position
<1>6. \A p \in L, r \in L : p.at = r.at => p = r
  <2> SUFFICES ASSUME NEW i \in Ids, NEW j \in Ids, Matches(Tail, i), Matches(Tail, j),
                      PositionOf(Tail, i).at = PositionOf(Tail, j).at
               PROVE  i = j
    BY DEF Listed
  <2>1. record[i].order = record[j].order /\ i.scope = j.scope /\ record[i] # None /\ record[j] # None
    BY DEF PositionOf, Column, Matches, Tail
  <2> QED
    BY <2>1 DEF UniqueOrders
<1>7. \A p \in P : p.at <= last.at /\ p.at > after
  BY <1>1, <1>2, <1>4, <1>5 DEF First, LastOf, Before, Less, Tail
<1>8. ASSUME NEW p \in L, p.at > after, p.at <= last.at PROVE p \in P
  <2>1. p \notin P => ~Before(Tail, p, last)
    BY <1>1, <1>8 DEF First
  <2>2. p \notin P => p.at = last.at
    BY <1>4, <1>5, <1>8, <2>1 DEF Before, Less, Tail
  <2> QED
    BY <1>6, <2>2
<1>9. last \in L /\ last.at \in Int /\ last.at > after /\ after \in Nat
  BY <1>4, <1>5, <1>7 DEF TypeInv
<1>10. {p \in L : p.at <= last.at} = followed \cup P
  <2>1. followed = {p \in L : p.at <= after}
    BY DEF FollowerInv, FollowerMissesNothing
  <2>2. \A p \in L : p.at \in Int
    BY <1>4, <1>5
  <2> QED
    BY <1>7, <1>8, <1>9, <2>1, <2>2
<1>11. FollowerInv'
  BY <1>1, <1>2, <1>4, <1>10 DEF FollowerInv, FollowerMissesNothing
<1>12. TypeInv'
  BY <1>1, <1>2, <1>3, <1>4, <1>9 DEF TypeInv, readerVars
<1>13. UniqueOrders'
  BY <1>3 DEF UniqueOrders
<1>14. ReaderInv'
  BY <1>3 DEF ReaderInv, readerVars, ListingComplete, PagesAdvance, Matches, PositionOf, Column
<1> QED
  BY <1>11, <1>12, <1>13, <1>14

\* The invariant is inductive.
LEMMA StepIInv == IInv /\ [Next]_vars => IInv'
<1> SUFFICES ASSUME IInv, [Next]_vars PROVE IInv'
  OBVIOUS
<1>1. CASE UNCHANGED vars
  <2> USE <1>1 DEF vars, readerVars, followerVars, IInv
  <2>1. TypeInv' /\ UniqueOrders'
    BY DEF TypeInv, UniqueOrders
  <2>2. ReaderInv'
    BY DEF ReaderInv, ListingComplete, PagesAdvance, Matches, PositionOf, Column
  <2>3. FollowerInv'
    BY DEF FollowerInv, FollowerMissesNothing, Listed, Matches, PositionOf, Column, Tail
  <2> QED
    BY <2>1, <2>2, <2>3
<1> QED
  BY <1>1, WriteStep, ListPageStep, FollowStep DEF Next

\* The invariant holds in every reachable state.
LEMMA Invariance == Spec => []IInv
<1> QED
  BY InitIInv, StepIInv, PTL DEF Spec

-----------------------------------------------------------------------------
\* For any queries, page sizes and changes between the pages: a listing misses no stable
\* record and never goes back.
THEOREM Listing == Spec => [](ListingComplete /\ PagesAdvance)
<1>1. IInv => ListingComplete /\ PagesAdvance
  BY DEF IInv, ReaderInv
<1> QED
  BY <1>1, Invariance, PTL

\* A follower of ListOrdered misses no record, because orders become visible in order.
THEOREM Following == Spec => []FollowerMissesNothing
<1>1. IInv => FollowerMissesNothing
  BY DEF IInv, FollowerInv
<1> QED
  BY <1>1, Invariance, PTL

-----------------------------------------------------------------------------
\* Readers that list a table which somebody else writes, each record in one step, make
\* the behaviours of Spec: nothing else about the writers matters to them.
THEOREM Composition == TableSpec /\ Readers => Spec
<1>1. TableInit /\ ReadersInit => Init
  BY DEF Init
<1>2. /\ [TableNext]_record
      /\ [ListPage \/ Follow \/ (record' # record /\ Overtaken)]_vars
      => [Next]_vars
  BY DEF TableNext, Next, Write
<1> QED
  BY <1>1, <1>2, PTL DEF TableSpec, Readers, Spec
=============================================================================
