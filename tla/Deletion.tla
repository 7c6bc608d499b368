------------------------------- MODULE Deletion -------------------------------
(***************************************************************************)
(* What a deletion asked for in Jellyfin does to the admission database:    *)
(* tombstones, removal of a source from qBittorrent, and the purge of a     *)
(* whole season.  The coordinator runs inside the worker, before it         *)
(* acquires, and resumes each job at its last recorded stage after a crash. *)
(***************************************************************************)
EXTENDS PermitRegistry

\* `_association`: the active sources of a movie or an episode, pack bindings included.
Sources(r, s) == {p \in RowsOf(r) : Primary(p) /\ Covers(p, s)}

RemovableEarly(p) ==   \* mutant
    LET r == row[p].res IN
    /\ \/ state[p] = "confirmed" /\ ~ IsPack(p)
       \/ /\ state[p] = "confirmed" /\ IsPack(p)
          /\ \E e \in binding[p] : <<r, e>> \in tombstone
    /\ \A q \in Permits \ {p} : Active(q) => row[q].hash # row[p].hash

\* `deletion_source`, `_pack_deletion_parent` and `season_pack_fully_deleted`: what the
\* gateway removes from qBittorrent when asked to.
Removable(p) ==
    LET r == row[p].res IN
    /\ \/ state[p] = "confirmed" /\ ~ IsPack(p)
       \/ /\ state[p] \in {"superseded", "probe_rejected"}
          /\ row[p].scope \in Episodes /\ <<r, NoScope>> \in tombstone
       \/ /\ state[p] = "confirmed" /\ IsPack(p)
          /\ binding[p] # {} /\ \A e \in binding[p] : <<r, e>> \in tombstone
    /\ \A q \in Permits \ {p} : Active(q) => row[q].hash # row[p].hash

\* A movie's or an episode's job persists its tombstone before it touches anything.
TombstoneItem(r, s) ==
    /\ WorkerFree
    /\ <<r, s>> \in Slots /\ s # Pack /\ <<r, s>> \notin tombstone
    /\ tombstone' = tombstone \cup {<<r, s>>}
    /\ UNCHANGED <<resVars, permitVars, importVars, call, worker, torrents>>

\* `_delete_source` of that job: the only source of the item, with its probe rejected
\* before, leaves qBittorrent, unless it is a pack that still serves other episodes.
DeleteSource(r, s, p) ==
    /\ WorkerFree /\ GatewayFree
    /\ <<r, s>> \in Slots /\ s # Pack /\ <<r, s>> \in tombstone
    /\ Sources(r, s) = {p} /\ state[p] = "confirmed"
    /\ ProbesOf(p) = {}
    /\ Removable(p)
    /\ row[p].hash \in torrents
    /\ torrents' = torrents \ {row[p].hash}
    /\ UNCHANGED <<resVars, permitVars, importVars, tombstone, call, worker>>

\* `_cancel_season`, first transaction: the season's tombstone.
TombstoneSeason(r) ==
    /\ WorkerFree
    /\ r \in Seasons /\ <<r, NoScope>> \notin tombstone
    /\ tombstone' = tombstone \cup {<<r, NoScope>>}
    /\ UNCHANGED <<resVars, permitVars, importVars, call, worker, torrents>>

\* `_cancel_season`, second transaction: its request is cancelled, its bytes stay.
CancelSeasonRequest(r) ==
    /\ WorkerFree
    /\ r \in Seasons /\ <<r, NoScope>> \in tombstone
    /\ resv[r] # "none" /\ request[r] # "cancelled"
    /\ request' = [request EXCEPT ![r] = "cancelled"]
    /\ UNCHANGED <<resv, budget, permitVars, importVars, tombstone, call, worker, torrents>>

InventoryOfUsed(r) == {p \in RowsOf(r) : state[p] \notin {"authorized", "revoked"}}   \* mutant
InventoryOfActive(r) == {p \in RowsOf(r) : Active(p)}   \* mutant
\* `_season_source_inventory`: every row of the season that was not revoked.
Inventory(r) == {p \in RowsOf(r) : state[p] # "revoked"}

\* `_delete_pending_season_sources`: the inventory is read and every episode gets a
\* tombstone. An uncertain permit or an unbound or replaced pack blocks the job.
StartPurge(r) ==
    /\ WorkerFree
    /\ r \in Seasons /\ <<r, NoScope>> \in tombstone
    /\ resv[r] # "none" /\ request[r] \in {"cancelled", "cancel_requested"}
    /\ \A p \in Inventory(r) : /\ state[p] \notin {"dispatching", "unknown"}
                               /\ IsPack(p) => Active(p) /\ binding[p] # {}
    /\ tombstone' = tombstone \cup ({r} \X Episodes)
    /\ worker' = [task |-> "purge", res |-> r, permit |-> NoPermit, scope |-> NoScope,
                   left |-> Inventory(r),
                   unused |-> {p \in Inventory(r) : state[p] = "authorized"}]
    /\ UNCHANGED <<resVars, permitVars, importVars, call, torrents>>

\* A row inventoried as authorized is cancelled; one dispatched since fails the job.
PurgeUnused(p) ==
    /\ worker.task = "purge" /\ p \in worker.left \cap worker.unused
    /\ CancelAuthorized(p)
    /\ worker' = [worker EXCEPT !.left = @ \ {p}, !.unused = @ \ {p}]
    /\ UNCHANGED <<resv, request, handover, importVars, tombstone, call, torrents>>

\* Any other row's torrent is removed; "deleted" and "missing" are both success.
PurgeSource(p) ==
    /\ worker.task = "purge" /\ p \in worker.left \ worker.unused
    /\ GatewayFree
    /\ Removable(p)
    /\ torrents' = torrents \ {row[p].hash}
    /\ worker' = [worker EXCEPT !.left = @ \ {p}]
    /\ UNCHANGED <<resVars, permitVars, importVars, tombstone, call>>

\* Every source is gone: only now are the season's bytes released.
CloseSeason ==
    /\ worker.task = "purge" /\ worker.left = {}
    /\ resv' = [resv EXCEPT ![worker.res] = "cancelled"]
    /\ budget' = [budget EXCEPT ![worker.res] = 0]
    /\ worker' = NoTask
    /\ UNCHANGED <<request, permitVars, importVars, tombstone, call, torrents>>
=============================================================================
