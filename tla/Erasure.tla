------------------------------- MODULE Erasure -------------------------------
(***************************************************************************)
(* What deleting media promises, whatever the order of the work: a thing   *)
(* (a file, a torrent, a record, a request ...) is removed only when        *)
(* everything it serves is wanted gone, nothing removed comes back, and a   *)
(* deletion is finished only when no thing serves finished media alone.     *)
(***************************************************************************)
CONSTANTS
    Media,      \* what can be deleted
    Things,     \* what is kept for them
    Serves      \* a function: the media each thing is kept for

VARIABLES
    wanted,     \* media somebody decided to delete; never acquired again
    present,    \* things that still exist
    finished    \* media whose deletion is reported as complete

vars == <<wanted, present, finished>>

Init == wanted = {} /\ present \in SUBSET Things /\ finished = {}

Want == \E M \in SUBSET Media :
    /\ wanted' = wanted \cup M
    /\ UNCHANGED <<present, finished>>

Remove == \E T \in SUBSET present :
    /\ \A t \in T : Serves[t] \subseteq wanted
    /\ present' = present \ T
    /\ UNCHANGED <<wanted, finished>>

Finish == \E M \in SUBSET wanted :
    /\ \A t \in present : ~ Serves[t] \subseteq finished \cup M
    /\ finished' = finished \cup M
    /\ UNCHANGED <<wanted, present>>

Next == Want \/ Remove \/ Finish
Spec == Init /\ [][Next]_vars
=============================================================================
