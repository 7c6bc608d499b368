---------------------------- MODULE MCMediaImports ----------------------------
(***************************************************************************)
(* A movie with a second source, beside two seasons of one episode each.    *)
(***************************************************************************)
EXTENDS MediaImports

OneEach == [e \in Episodes |-> 100 + e]
TwoForTheMovie == [p \in Sources |-> IF p < 13 THEN {91} ELSE {p - 12}]
FirstOfEach == [i \in Items |-> IF i = 91 THEN 11 ELSE 12 + i]
=============================================================================
