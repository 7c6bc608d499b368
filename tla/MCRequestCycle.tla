---------------------------- MODULE MCRequestCycle ----------------------------
(***************************************************************************)
(* A request for each medium, the newest made later; another of the first    *)
(* medium, of which nothing is approved, may come between the two others.   *)
(***************************************************************************)
EXTENDS RequestCycle

EachItsOwn == [r \in Requests |-> IF r = 3 THEN 101 ELSE 100 + r]
NewestLater == [r \in Requests |-> IF r \in {1, 3} THEN "absent" ELSE "approved"]
=============================================================================
