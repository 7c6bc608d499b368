---------------------------- MODULE MCController ----------------------------
(***************************************************************************)
(* Small instances of the controller.                                       *)
(***************************************************************************)
EXTENDS Controller, TLC

\* Every torrent is one unit, so that hashes are interchangeable.
UnitSize == [h \in Hashes |-> 1]
Interchangeable == Permutations(Permits) \cup Permutations(Hashes) \cup
                   Permutations(Movies) \cup Permutations(Episodes)
=============================================================================
