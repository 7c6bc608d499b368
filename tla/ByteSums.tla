------------------------------ MODULE ByteSums ------------------------------
(***************************************************************************)
(* The sums of bytes that the controller asks of its database and of the    *)
(* torrent queue.  A sum is the number of the bytes summed: what the folds   *)
(* of the community modules compute, by a definition that no step of a proof *)
(* has to unfold recursively.                                                *)
(***************************************************************************)
EXTENDS Integers, FiniteSets

\* The bytes of every x in the domain of f, each named by its owner and its number.
BytesOf(f) == UNION {{x} \X (1 .. f[x]) : x \in DOMAIN f}

\* SUM(f[x]): the total of a function to natural numbers with a finite domain.
Sum(f) == Cardinality(BytesOf(f))
=============================================================================
