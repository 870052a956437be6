------------------------- MODULE OrderedStoreProofs -------------------------
(***************************************************************************)
(* The whole ordered store: the listings of OrderedPages over the records  *)
(* that the transactions of OrderedIndex write, interleaved in any way.    *)
(* OrderedIndex implements OrderedTable, and OrderedPages lists any such   *)
(* table, so that what the listings promise they promise of the real       *)
(* transactions, retries, aborts and lost answers of COMMIT included.      *)
(***************************************************************************)
EXTENDS OrderedIndexProofs

CONSTANTS Queries, Limits, Followed   \* as in OrderedPages
VARIABLES status, query, cursor, earlier, page, stable, after, followed

Pages == INSTANCE OrderedPagesProofs

\* The assumptions of OrderedPages on its constants that OrderedIndex does not make.
ReaderConstants ==
    /\ Ids \subseteq [scope : Nat, key : Nat] /\ Pages!IsFiniteSet(Ids)
    /\ Queries \subseteq [kind : {"ranked", "due"}, arg : Int]
    /\ Limits \subseteq Nat \ {0}
    /\ None \notin Pages!CursorSet

\* Clients that call Create, Update and Delete, next to readers of the listings.
StoreSpec == Spec /\ Pages!Readers

-----------------------------------------------------------------------------
\* Both modules speak of the same table.
LEMMA SameTable ==
    /\ Table!TableInit <=> Pages!TableInit
    /\ Table!TableNext <=> Pages!TableNext
<1>1. Table!TableInit <=> Pages!TableInit
  BY DEF Table!TableInit, Pages!TableInit
<1>2. Table!TableNext <=> Pages!TableNext
  BY DEF Table!TableNext, Table!TableStep, Table!TableCreate, Table!TableUpdate,
         Table!TableDelete, Table!NewOrder, Table!Store, Table!Live,
         Pages!TableNext, Pages!TableStep, Pages!TableCreate, Pages!TableUpdate,
         Pages!TableDelete, Pages!NewOrder, Pages!Store, Pages!Live
<1> QED
  BY <1>1, <1>2

\* What the transactions do to the records is what the listings expect of a table.
LEMMA WritersMakeTable == Spec => Pages!TableSpec
  BY SameTable, Refinement, PTL DEF ImplementsTable, Table!TableSpec, Pages!TableSpec

\* The assumptions of OrderedPages hold.
LEMMA PageConstants ==
    /\ Contents \subseteq [value : Values, rank : Pages!Place, due : Pages!Place]
    /\ None \notin Int /\ None \notin Pages!RecordSet
  BY ContentAssumption, NoneAssumption
     DEF Pages!Place, Table!Place, Table!RecordSet, Pages!RecordSet

\* The transactions and the readers together behave as OrderedPages says.
LEMMA StoreIsPages ==
    ASSUME ReaderConstants
    PROVE  StoreSpec => Pages!Spec
<1>1. Pages!TableSpec /\ Pages!Readers => Pages!Spec
  BY PageConstants, LimitAssumption, Pages!Composition DEF ReaderConstants
<1> QED
  BY <1>1, WritersMakeTable, PTL DEF StoreSpec

-----------------------------------------------------------------------------
\* A caller that pages through ListRanked or ListDue while Create, Update and Delete run,
\* are rolled back, retried and left in doubt, is given every record that stayed where it
\* was, and each page lies after the one before.
THEOREM StoreListing ==
    ASSUME ReaderConstants
    PROVE  StoreSpec => [](Pages!ListingComplete /\ Pages!PagesAdvance)
<1>1. Pages!Spec => [](Pages!ListingComplete /\ Pages!PagesAdvance)
  BY PageConstants, LimitAssumption, Pages!Listing DEF ReaderConstants
<1> QED
  BY <1>1, StoreIsPages, PTL

\* A caller that follows ListOrdered misses no record: the counter of a scope stays locked
\* until COMMIT, so that no order becomes visible below one it has read.
THEOREM StoreFollowing ==
    ASSUME ReaderConstants
    PROVE  StoreSpec => []Pages!FollowerMissesNothing
<1>1. Pages!Spec => []Pages!FollowerMissesNothing
  BY PageConstants, LimitAssumption, Pages!Following DEF ReaderConstants
<1> QED
  BY <1>1, StoreIsPages, PTL
=============================================================================
