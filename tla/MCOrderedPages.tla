--------------------------- MODULE MCOrderedPages ---------------------------
(***************************************************************************)
(* An instance of OrderedPages for TLC.                                    *)
(***************************************************************************)
EXTENDS OrderedPages

\* Equal keys in different scopes, so that ties are broken by each column.
TiedIds == {[scope |-> 1, key |-> 1], [scope |-> 2, key |-> 1], [scope |-> 1, key |-> 2]}
MixedContents ==
    {[value |-> "v", rank |-> 1, due |-> 1], [value |-> "v", rank |-> 2, due |-> None],
     [value |-> "v", rank |-> None, due |-> 2]}
ThreeQueries ==
    {[kind |-> "ranked", arg |-> 1], [kind |-> "due", arg |-> 1], [kind |-> "due", arg |-> 2]}
=============================================================================
