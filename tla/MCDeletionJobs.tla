--------------------------- MODULE MCDeletionJobs ---------------------------
(***************************************************************************)
(* Small instances of the deletion jobs.                                    *)
(***************************************************************************)
EXTENDS DeletionJobs

\* All episodes are of one season.
OneSeason == [e \in Episodes |-> CHOOSE s \in Seasons : TRUE]

\* The season's episodes share one pack; every movie is unmanaged.
FromPack == [i \in Items |-> IF i \in Episodes THEN CHOOSE k \in Sources : TRUE ELSE NoSource]

\* One movie was imported by the controller and the others were not.
FromMovie == [i \in Items |-> IF i = CHOOSE m \in Movies : TRUE
                              THEN CHOOSE k \in Sources : TRUE ELSE NoSource]
=============================================================================
