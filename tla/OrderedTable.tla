---------------------------- MODULE OrderedTable ----------------------------
(***************************************************************************)
(* What the OrderedIndex promises of its records, in one namespace: they   *)
(* are created, updated and deleted one at a time and each in one step.    *)
(* OrderedIndex shows that the transactions of the code implement this;    *)
(* OrderedPages lists such records page by page.                           *)
(***************************************************************************)
EXTENDS Integers

CONSTANTS
    Ids,          \* the identities: [scope, key]
    RankScopes,   \* ranking scopes
    Values,
    Contents,     \* what a caller writes: [value, rank, due]
    None,         \* no record, no rank, not due
    MaxOrder,     \* the greatest order, math.MaxUint64 in the code
    MaxRevision   \* the greatest revision, likewise

Place == Int \cup {None}

ASSUME ContentAssumption == Contents \subseteq [value : Values, rank : Place, due : Place]
ASSUME LimitAssumption == MaxOrder \in Nat \ {0} /\ MaxRevision \in Nat \ {0}

VARIABLE record   \* the committed record of each identity, or None

Scopes == {id.scope : id \in Ids}

RecordSet ==
    [order : 1 .. MaxOrder, revision : 1 .. MaxRevision, rankScope : RankScopes,
     value : Values, rank : Place, due : Place, deleted : BOOLEAN]

ASSUME NoneAssumption == None \notin Int /\ None \notin RecordSet

\* Make r the record of id.
Store(id, r) == record' = [record EXCEPT ![id] = r]

-----------------------------------------------------------------------------
TableInit == record = [id \in Ids |-> None]

AnyUnused(id, order) == \* mutant: an order nobody has, perhaps below one already visible
    \A other \in Ids : other.scope = id.scope /\ record[other] # None
        => record[other].order # order
\* Orders may be sparse, but a new one comes after all others of its scope.
NewOrder(id, order) ==
    \A other \in Ids : other.scope = id.scope /\ record[other] # None
        => record[other].order < order

TableCreate(id) ==
    /\ record[id] = None
    /\ \E order \in 1 .. MaxOrder, s \in RankScopes, c \in Contents :
          /\ NewOrder(id, order)
          /\ Store(id, [order |-> order, revision |-> 1, rankScope |-> s, value |-> c.value,
                        rank |-> c.rank, due |-> c.due, deleted |-> FALSE])

Live(id) == record[id] # None /\ ~record[id].deleted /\ record[id].revision < MaxRevision

TableUpdate(id) ==
    /\ Live(id)
    /\ \E c \in Contents :
          Store(id, [record[id] EXCEPT !.revision = @ + 1, !.value = c.value,
                                       !.rank = c.rank, !.due = c.due])

\* A deleted record stays, with its order and without rank and due time.
TableDelete(id) ==
    /\ Live(id)
    /\ Store(id, [record[id] EXCEPT !.revision = @ + 1, !.rank = None, !.due = None,
                                    !.deleted = TRUE])

TableStep(id) == TableCreate(id) \/ TableUpdate(id) \/ TableDelete(id)
TableNext == \E id \in Ids : TableStep(id)
TableSpec == TableInit /\ [][TableNext]_record
=============================================================================
