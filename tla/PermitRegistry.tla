--------------------------- MODULE PermitRegistry ---------------------------
(***************************************************************************)
(* The controller's admission database and the questions its code asks of  *)
(* it: reservations, the permits that admit one torrent each, live probes  *)
(* of a better source, durable handovers, season pack bindings, import     *)
(* claims and deletion tombstones.  Two processes share it: the worker,    *)
(* one sequential loop (modules Acquisition, Importing and Deletion), and  *)
(* the download gateway (module Gateway).  Every step is one SQLite write  *)
(* transaction (BEGIN IMMEDIATE) of one of them, or the gateway's call to  *)
(* qBittorrent.  A request the code refuses changes nothing, so a refusal  *)
(* (no space in any pool, a quality downgrade) is a step not taken.        *)
(***************************************************************************)
EXTENDS Integers, FiniteSets, ByteSums

CONSTANTS
    Movies,       \* reservations of one movie
    Seasons,      \* reservations of one season of a series
    Episodes,     \* episode scopes of a season, S01E01 ...
    Hashes,       \* torrent infohashes
    Permits,      \* permit identities (uuid4), each used for one row only
    NoPermit,     \* SQL NULL in a permit column
    NoScope,      \* SQL NULL in scope_key: a movie permit
    Pack,         \* the SxxPACK scope of a season
    Size,         \* exact bytes of each torrent
    LiveProbes    \* HOMESERVER_SOURCE_PROBE_ENABLED of the worker

Reservations == Movies \cup Seasons
Scopes == Episodes \cup {NoScope, Pack}

ASSUME MediaAssumption ==
    /\ Movies \cap Seasons = {} /\ Movies \cap (Permits \X Episodes) = {}
    /\ NoScope \notin Episodes /\ Pack \notin Episodes /\ NoScope # Pack
ASSUME PermitAssumption == NoPermit \notin Permits
ASSUME SizeAssumption == Size \in [Hashes -> Nat \ {0}]
ASSUME ProbesAssumption == LiveProbes \in BOOLEAN

VARIABLES
    resv,           \* reservations.state; "none" when there is no row
    request,        \* requests.state of the reservation's request
    budget,         \* reservations.budget_bytes
    state,          \* gateway_permits.state; "free" before, "deleted" after the row
    row,            \* the immutable columns of a permit row
    probeOf,        \* gateway_permits.probe_parent_id
    expired,        \* permits whose expires_at has passed
    binding,        \* season_pack_episodes: the episodes bound to a pack permit
    handover,       \* source_handovers, by candidate_id
    movieImport,    \* movie_imports.state
    episodeImport,  \* episode_imports.state, by permit (or pack view) and episode
    tombstone,      \* tombstones: <<r, NoScope>> for r's media key, <<r, e>> for an episode
    call,           \* the gateway's authorize call between its transactions
    worker,         \* what the worker is in the middle of, across awaits
    torrents        \* hashes qBittorrent has accepted

resVars == <<resv, request, budget>>
permitVars == <<state, row, probeOf, expired, binding, handover>>
importVars == <<movieImport, episodeImport>>
vars == <<resv, request, budget, state, row, probeOf, expired, binding, handover,
          movieImport, episodeImport, tombstone, call, worker, torrents>>

ActiveStates == {"authorized", "dispatching", "unknown", "confirmed"}
PermitStates == ActiveStates \cup
    {"free", "deleted", "superseded", "probe_rejected", "revoked"}
ImportStates == {"none", "dispatching", "dispatching_copy", "accepted",
                 "accepted_copy", "complete"}
RequestStates == {"none", "reserved", "available", "cancel_requested", "cancelled"}
Source == [res : Reservations, scope : Scopes, hash : Hashes]
NoSource == [res |-> NoPermit, scope |-> NoScope, hash |-> NoPermit]
NoHandover == [state |-> "none", parent |-> NoPermit]
NoCall == [permit |-> NoPermit, phase |-> "idle"]
Task(t, p, s) == [task |-> t, res |-> NoPermit, permit |-> p, scope |-> s,
                  left |-> {}, unused |-> {}]
NoTask == Task("idle", NoPermit, NoScope)
WorkerTasks == {"idle", "bind", "reject", "import", "submit", "purge"}
Slots == (Movies \X {NoScope}) \cup (Seasons \X (Episodes \cup {Pack}))

\* The type of every variable; budget is only a function, its values are sums of Size.
TypeOK ==
    /\ resv \in [Reservations -> {"none", "reserved", "imported", "cancelled"}]
    /\ request \in [Reservations -> RequestStates]
    /\ DOMAIN budget = Reservations
    /\ state \in [Permits -> PermitStates]
    /\ row \in [Permits -> Source \cup {NoSource}]
    /\ probeOf \in [Permits -> Permits \cup {NoPermit}]
    /\ expired \subseteq Permits
    /\ binding \in [Permits -> SUBSET Episodes]
    /\ handover \in [Permits -> [state : {"none", "pending", "complete"},
                                 parent : Permits \cup {NoPermit}]]
    /\ movieImport \in [Movies -> ImportStates]
    /\ episodeImport \in [Permits \X Episodes -> ImportStates]
    /\ tombstone \subseteq Slots \cup (Seasons \X {NoScope})
    /\ call \in [permit : Permits \cup {NoPermit},
                 phase : {"idle", "claimed", "added", "failed"}]
    /\ worker \in [task : WorkerTasks, res : Reservations \cup {NoPermit},
                   permit : Permits \cup {NoPermit}, scope : Scopes,
                   left : SUBSET Permits, unused : SUBSET Permits]
    /\ torrents \subseteq Hashes

-----------------------------------------------------------------------------
(* Queries *)

WorkerFree == worker = NoTask
GatewayFree == call = NoCall
Live(r) == resv[r] = "reserved"
Active(p) == state[p] \in ActiveStates
Exists(p) == state[p] \notin {"free", "deleted"}
Primary(p) == Active(p) /\ probeOf[p] = NoPermit
Pending(c) == handover[c].state = "pending"
PendingParents(h) == {h[c].parent : c \in {c \in Permits : h[c].state = "pending"}}
RowsOf(r) == {p \in Permits : Exists(p) /\ row[p].res = r}
SameSlot(p, q) == row[p].res = row[q].res /\ row[p].scope = row[q].scope
SlotRows(r, s) == {p \in RowsOf(r) : row[p].scope = s}
HadSuperseded(r, s) == \E p \in SlotRows(r, s) : state[p] = "superseded"
Covers(p, e) == row[p].scope = e \/ e \in binding[p]
ProbesOf(p) == {q \in Permits : Active(q) /\ probeOf[q] = p}

\* `active_source`: the permit is its slot's primary source or a probe of it.
ActiveSource(p) ==
    \E q \in Permits : Primary(q) /\ SameSlot(p, q) /\ (p = q \/ probeOf[p] = q)

\* Bytes of the ACTIVE rows of r, and with the parents of pending handovers.
Bytes(S) == Sum([p \in S |-> Size[row'[p].hash]])
ActiveRows(r, st) == {p \in Permits : st[p] \in ActiveStates /\ row'[p].res = r}
SumConfirmed(r) ==   \* mutant
    Bytes({p \in Permits : state'[p] = "confirmed" /\ row'[p].res = r})
SumActive(r) == Bytes(ActiveRows(r, state'))
SumProbe(r) == Bytes({p \in Permits : /\ row'[p].res = r
                                      /\ state'[p] \notin {"free", "deleted"}
                                      /\ \/ state'[p] \in ActiveStates
                                         \/ p \in PendingParents(handover')})

GuardOKIfDeleted(r, s) ==   \* mutant
    Live(r) /\ request[r] \notin {"cancel_requested", "cancelled"}

\* `_require_probe_reservation` (and the same test for a pack's own scope).
GuardOK(r, s) ==
    /\ Live(r)
    /\ request[r] \notin {"cancel_requested", "cancelled"}
    /\ <<r, NoScope>> \notin tombstone
    /\ s \in Episodes => <<r, s>> \notin tombstone

\* `_require_pack_reservation`: bindings exist and no episode of the season is deleted.
PackOK(p) ==
    /\ GuardOK(row[p].res, Pack)
    /\ binding[p] # {}
    /\ \A e \in Episodes : <<row[p].res, e>> \notin tombstone

\* The request was admitted again this cycle (a tombstone refuses it) and its
\* reservation is active; the worker deletes before it acquires, never during.
Admitted(r) == Live(r) /\ <<r, NoScope>> \notin tombstone

IsPack(p) == row[p].scope = Pack
Guarded(p) == probeOf[p] # NoPermit \/ IsPack(p)
GuardNow(p) == IF IsPack(p) THEN PackOK(p) ELSE GuardOK(row[p].res, row[p].scope)

\* An import row blocks the replacement of the movie's or of the episode permit's source.
ImportStarted(p) ==
    \/ row[p].res \in Movies /\ movieImport[row[p].res] # "none"
    \/ row[p].scope \in Episodes /\ episodeImport[<<p, row[p].scope>>] # "none"

-----------------------------------------------------------------------------
(* Changes shared by several transactions; each needs row' before budget'. *)

\* INSERT INTO gateway_permits ... 'authorized', under a fresh uuid4.
Insert(p, source, parent) ==
    /\ state[p] = "free"
    /\ row' = [row EXCEPT ![p] = source]
    /\ probeOf' = [probeOf EXCEPT ![p] = parent]

\* DELETE FROM gateway_permits WHERE permit_id IN S.
DeleteRows(S) ==
    /\ state' = [p \in Permits |-> IF p \in S THEN "deleted" ELSE state[p]]
    /\ row' = [p \in Permits |-> IF p \in S THEN NoSource ELSE row[p]]
    /\ probeOf' = [p \in Permits |-> IF p \in S THEN NoPermit ELSE probeOf[p]]
    /\ expired' = expired \ S

\* The UPDATE reservations SET budget_bytes = ... that closes most transactions.
Rebudget(r) == budget' = [budget EXCEPT ![r] = SumActive(r)]
RebudgetProbe(r) == budget' = [budget EXCEPT ![r] = SumProbe(r)]

\* `cancel_authorized`: an unused row and its bindings are gone, its bytes released.
CancelAuthorized(p) ==
    /\ state[p] = "authorized"
    /\ DeleteRows({p})
    /\ binding' = [binding EXCEPT ![p] = {}]
    /\ Rebudget(row[p].res)

RejectAnyRow(p) ==   \* mutant
    /\ Exists(p)
    /\ state' = [state EXCEPT ![p] = "probe_rejected"]
    /\ row' = row /\ handover' = handover
    /\ RebudgetProbe(row[p].res)

\* `reject_probe`: whatever its state, the row must still be a probe.
RejectRow(p) ==
    /\ Exists(p) /\ probeOf[p] # NoPermit
    /\ state' = [state EXCEPT ![p] = "probe_rejected"]
    /\ row' = row /\ handover' = handover
    /\ RebudgetProbe(row[p].res)
=============================================================================
