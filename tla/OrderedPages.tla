---------------------------- MODULE OrderedPages ----------------------------
(***************************************************************************)
(* The listings of internal/orderedindex/orderedindex.go and the           *)
(* statements of internal/orderedquery/orderedquery.go, over the records   *)
(* of OrderedTable while they change.  A page is one SELECT, which sees    *)
(* the records committed when it starts.                                   *)
(*                                                                         *)
(* Readers never change anything, so that one of each kind is enough: a    *)
(* reader that pages through ListRanked or ListDue to the end, and a       *)
(* follower that keeps asking ListOrdered for what is new in a scope.      *)
(***************************************************************************)
EXTENDS OrderedTable, FiniteSets

CONSTANTS
    Queries,   \* listings: [kind, arg], a ranking scope or a greatest due time
    Limits,    \* page sizes
    Followed   \* the ordering scope of the follower

Tail == [kind |-> "ordered", arg |-> Followed]   \* what ListOrdered lists

Position  == [at : Int, key : Nat, scope : Nat]
CursorSet == [query : Queries, position : Position]

ASSUME IdAssumption == Ids \subseteq [scope : Nat, key : Nat] /\ IsFiniteSet(Ids)
ASSUME QueryAssumption == Queries \subseteq [kind : {"ranked", "due"}, arg : Int]
ASSUME PageAssumption == Limits \subseteq Nat \ {0}
ASSUME CursorAssumption == None \notin CursorSet

VARIABLES
    status,    \* of the reader: new, more (it has a cursor) or done
    query,     \* its query, once it has a page
    cursor,    \* NextCursor of its last page, or None
    earlier,   \* history: the positions in its pages before the last
    page,      \* the positions in its last page
    stable,    \* history: the identities in the listing since its first page, not moved
    after,     \* the follower's afterOrder
    followed   \* history: the positions the follower was given

readerVars   == <<status, query, cursor, earlier, page, stable>>
followerVars == <<after, followed>>
vars == <<record, readerVars, followerVars>>

-----------------------------------------------------------------------------
\* The WHERE clauses of Ranked, Due and Ordered, up to the cursor.  Only Ordered
\* lists deleted records.
Matches(q, id) ==
    /\ record[id] # None
    /\ \/ /\ q.kind = "ranked" /\ ~record[id].deleted
          /\ record[id].rankScope = q.arg /\ record[id].rank # None
       \/ /\ q.kind = "due" /\ ~record[id].deleted
          /\ record[id].due # None /\ record[id].due <= q.arg
       \/ q.kind = "ordered" /\ id.scope = q.arg

Column(q, r) ==
    IF q.kind = "ranked" THEN r.rank ELSE IF q.kind = "due" THEN r.due ELSE r.order
\* The columns of ORDER BY; key and scope make them unique.
PositionOf(q, id) == [at |-> Column(q, record[id]), key |-> id.key, scope |-> id.scope]

LessByKey(p, r) == p.at < r.at \/ (p.at = r.at /\ p.key < r.key) \* mutant: the scope is forgotten
\* SQL's comparison of rows.
Less(p, r) ==
    \/ p.at < r.at
    \/ p.at = r.at /\ p.key < r.key
    \/ p.at = r.at /\ p.key = r.key /\ p.scope < r.scope

\* A ranked listing descends, the others ascend.
Before(q, p, r) == IF q.kind = "ranked" THEN Less(r, p) ELSE Less(p, r)

CursorOf(q, p) == [query |-> q, position |-> p]

FromCursor(q, c, p) == c # None => ~Before(q, p, c.position) \* mutant: <= for <
\* The cursor's part of the WHERE clause.
AfterCursor(q, c, p) == c # None => Before(q, c.position, p)

Listed(q) == {PositionOf(q, id) : id \in {i \in Ids : Matches(q, i)}}
Rows(q, c) == {p \in Listed(q) : AfterCursor(q, c, p)}

\* P is ORDER BY ... LIMIT n of the rows R.
First(q, P, R, n) ==
    /\ P \subseteq R
    /\ \A p \in P, r \in R \ P : ~Before(q, r, p)
    /\ Cardinality(P) <= n
    /\ Cardinality(P) < n => P = R

LastOf(q, P, p) == p \in P /\ \A r \in P : ~Before(q, p, r)

DecodeAny(q, c) == TRUE \* mutant: a cursor is taken for any query
\* decodeRankedCursor and decodeDueCursor: no cursor, or one made for this query.
Decode(q, c) == c # None => c.query = q

-----------------------------------------------------------------------------
ReadersInit ==
    /\ status = "new" /\ query = None /\ cursor = None
    /\ earlier = {} /\ page = {} /\ stable = {}
    /\ after = 0 /\ followed = {}
Init == TableInit /\ ReadersInit

\* What a write does to the readers: nothing, but an identity that leaves its place in
\* the reader's listing is no longer stable.
Overtaken ==
    /\ UNCHANGED <<status, query, cursor, earlier, page, followerVars>>
    /\ stable' = {i \in stable : Matches(query, i)' /\ PositionOf(query, i)' = PositionOf(query, i)}

Write(id) == TableStep(id) /\ Overtaken

\* One call of ListRanked or ListDue with the reader's cursor, if it is not refused.
ListPage ==
    /\ status # "done"
    /\ \E q \in Queries, limit \in Limits :
          /\ Decode(q, cursor)
          /\ \E F \in SUBSET Rows(q, cursor) :
                /\ First(q, F, Rows(q, cursor), limit + 1)
                /\ \E P \in SUBSET F :
                      /\ First(q, P, F, limit)
                      /\ page' = P
                      /\ IF Cardinality(F) > limit
                         THEN \E last \in F :
                                 /\ LastOf(q, P, last)
                                 /\ cursor' = CursorOf(q, last) /\ status' = "more"
                         ELSE cursor' = None /\ status' = "done"
          /\ IF status = "new"
             THEN query' = q /\ stable' = {i \in Ids : Matches(q, i)}
             ELSE UNCHANGED <<query, stable>>
    /\ earlier' = earlier \cup page
    /\ UNCHANGED <<record, followerVars>>

\* One call of ListOrdered; an empty page leaves the follower where it is.
Follow ==
    /\ \E limit \in Limits, P \in SUBSET Listed(Tail) :
          /\ First(Tail, P, {p \in Listed(Tail) : p.at > after}, limit)
          /\ \E last \in P : LastOf(Tail, P, last) /\ after' = last.at
          /\ followed' = followed \cup P
    /\ UNCHANGED <<record, readerVars>>

Next == (\E id \in Ids : Write(id)) \/ ListPage \/ Follow
Spec == Init /\ [][Next]_vars

\* The reader and the follower alone, over records that somebody else changes.
Readers == ReadersInit /\ [][ListPage \/ Follow \/ (record' # record /\ Overtaken)]_vars

-----------------------------------------------------------------------------
(***************************************************************************)
(* Properties.                                                             *)
(***************************************************************************)
\* A listing read to its end has every record that was in it all along and was not
\* moved, whatever was created, deleted, moved or rewritten between its pages.
ListingComplete ==
    status = "done" => \A id \in stable : PositionOf(query, id) \in earlier \cup page

\* A page only has rows that come after all rows of the pages before it.
PagesAdvance ==
    \A p \in earlier, r \in page : Before(query, p, r)

\* A follower of ListOrdered that goes on after the last order it was given has every
\* record up to there: none becomes visible behind it.
FollowerMissesNothing ==
    {p \in Listed(Tail) : p.at <= after} = followed
=============================================================================
