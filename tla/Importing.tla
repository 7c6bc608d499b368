------------------------------ MODULE Importing ------------------------------
(***************************************************************************)
(* The finalizing half of the worker's cycle: a finished source is handed   *)
(* to Radarr or Sonarr by an import row that is claimed before the command  *)
(* is posted and completed when the library shows the file.  A movie has    *)
(* one row; an episode has one per permit, or per pack and bound episode.   *)
(***************************************************************************)
EXTENDS PermitRegistry

ImportKeys == Movies \cup (Permits \X Episodes)
ImportOf(k) == IF k \in Movies THEN movieImport[k] ELSE episodeImport[k]
SetImport(k, v) ==
    IF k \in Movies THEN /\ movieImport' = [movieImport EXCEPT ![k] = v]
                         /\ UNCHANGED episodeImport
                    ELSE /\ episodeImport' = [episodeImport EXCEPT ![k] = v]
                         /\ UNCHANGED movieImport

\* The import row of what source p serves under scope s.
KeyOf(p, s) == IF s = NoScope THEN row[p].res ELSE <<p, s>>
Serves(p, s) == /\ IsPack(p) => s \in binding[p]
                /\ ~ IsPack(p) => s = row[p].scope

\* `_import_pending`: a hardlink import waits for rows that are dispatching or copying,
\* a copy for every row that is not complete.
Submitted == {"dispatching", "dispatching_copy", "accepted", "accepted_copy"}
CopyPending(copy) == copy /\ \E k \in ImportKeys : ImportOf(k) \in Submitted   \* mutant
ImportPending(copy) ==
    \E k \in ImportKeys : /\ ImportOf(k) \in Submitted
                          /\ copy \/ ImportOf(k) # "accepted"

\* `finalize` reads the slot's confirmed source and then awaits the file checks, the
\* subtitle and Arr's settings.
ReadSource(p, s) ==
    /\ WorkerFree
    /\ state[p] = "confirmed" /\ probeOf[p] = NoPermit
    /\ Admitted(row[p].res)
    /\ Serves(p, s)
    /\ s \in Episodes => <<row[p].res, s>> \notin tombstone
    /\ ImportOf(KeyOf(p, s)) = "none"
    /\ worker' = Task("import", p, s)
    /\ UNCHANGED <<resVars, permitVars, importVars, tombstone, call, torrents>>

\* `claim_movie_import` and `claim_episode_import` for the source that was read.
ClaimImport(copy) ==
    LET k == KeyOf(worker.permit, worker.scope) IN
    /\ worker.task = "import"
    /\ k \in Movies => Live(k)
    /\ ~ ImportPending(copy)
    /\ ImportOf(k) = "none"
    /\ SetImport(k, IF copy THEN "dispatching_copy" ELSE "dispatching")
    /\ worker' = Task("submit", worker.permit, worker.scope)
    /\ UNCHANGED <<resVars, permitVars, tombstone, call, torrents>>

\* `record_movie_import` and `record_episode_import`: the command was accepted. When
\* the worker dies before, the row stays dispatching and asks for a person.
RecordImport ==
    LET k == KeyOf(worker.permit, worker.scope) IN
    /\ worker.task = "submit"
    /\ SetImport(k, IF ImportOf(k) = "dispatching_copy" THEN "accepted_copy" ELSE "accepted")
    /\ worker' = NoTask
    /\ UNCHANGED <<resVars, permitVars, tombstone, call, torrents>>

\* `complete_movie_import` and `complete_episode_import`: the library has the file.
\* A movie's reservation ends here; a season's stays for its other episodes.
CompleteImport(p, s) ==
    LET k == KeyOf(p, s) IN
    /\ WorkerFree
    /\ state[p] = "confirmed" /\ probeOf[p] = NoPermit
    /\ Admitted(row[p].res)
    /\ Serves(p, s)
    /\ s \in Episodes => <<row[p].res, s>> \notin tombstone
    /\ ImportOf(k) \in {"accepted", "accepted_copy"}
    /\ SetImport(k, "complete")
    /\ IF k \in Movies THEN /\ resv' = [resv EXCEPT ![k] = "imported"]
                            /\ request' = [request EXCEPT ![k] = "available"]
                       ELSE UNCHANGED <<resv, request>>
    /\ UNCHANGED <<budget, permitVars, tombstone, call, worker, torrents>>
=============================================================================
