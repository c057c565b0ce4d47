------------------------ MODULE MCZeroHeightExport ------------------------
(***************************************************************************)
(* Instances of ZeroHeightExport for TLC.                                  *)
(***************************************************************************)
EXTENDS ZeroHeightExport

TwoTokens == [v \in Vals |-> 2]

\* No list, and one that some exports panic for.
TwoLists == {{}, {1}}

WellFormedLists == SUBSET Vals

AllLists == SUBSET (Vals \union {Malformed})
=============================================================================
