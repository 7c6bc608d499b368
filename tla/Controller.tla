------------------------------ MODULE Controller ------------------------------
(***************************************************************************)
(* The controller: the worker's acquisition, import and deletion, and the   *)
(* download gateway, over one admission database.                           *)
(***************************************************************************)
EXTENDS Acquisition, Importing, Deletion, Gateway

Init ==
    /\ resv = [r \in Reservations |-> "none"]
    /\ request = [r \in Reservations |-> "none"]
    /\ budget = [r \in Reservations |-> 0]
    /\ state = [p \in Permits |-> "free"]
    /\ row = [p \in Permits |-> NoSource]
    /\ probeOf = [p \in Permits |-> NoPermit]
    /\ expired = {}
    /\ binding = [p \in Permits |-> {}]
    /\ handover = [p \in Permits |-> NoHandover]
    /\ movieImport = [m \in Movies |-> "none"]
    /\ episodeImport = [k \in Permits \X Episodes |-> "none"]
    /\ tombstone = {}
    /\ call = NoCall
    /\ worker = NoTask
    /\ torrents = {}

Acquire ==
    \/ \E r \in Reservations : Reserve(r) \/ CancelUnstarted(r)
    \/ \E p \in Permits, r \in Reservations, s \in Scopes, h \in Hashes : Issue(p, r, s, h)
    \/ \E p \in Permits, E \in SUBSET Episodes, olds \in SUBSET Permits : BindPack(p, E, olds)
    \/ \E r \in Reservations, s \in Scopes : RetireExpired(r, s)
    \/ \E old, new \in Permits, h \in Hashes : Replace(old, new, h) \/ IssueProbe(old, new, h)
    \/ \E p \in Permits : CancelUnbound(p) \/ Renew(p) \/ ReadProbe(p) \/ WorkerReject(p)

Import ==
    \/ \E p \in Permits, s \in Scopes : ReadSource(p, s) \/ CompleteImport(p, s)
    \/ \E copy \in BOOLEAN : ClaimImport(copy)
    \/ RecordImport

Delete ==
    \/ \E r \in Reservations, s \in Scopes : TombstoneItem(r, s)
    \/ \E r \in Reservations, s \in Scopes, p \in Permits : DeleteSource(r, s, p)
    \/ \E r \in Reservations : TombstoneSeason(r) \/ CancelSeasonRequest(r) \/ StartPurge(r)
    \/ \E p \in Permits : PurgeUnused(p) \/ PurgeSource(p)
    \/ CloseSeason

Serve ==
    \/ \E p \in Permits : Claim(p) \/ ConfirmReconciled(p) \/ Promote(p)
                          \/ CompleteHandover(p) \/ GatewayReject(p)
    \/ AddTorrent \/ AddFails \/ RecordAdd

Environment ==
    \/ \E p \in Permits : Expire(p)
    \/ WorkerAbort \/ WorkerRestart \/ GatewayCrash

Next == Acquire \/ Import \/ Delete \/ Serve \/ Environment
Spec == Init /\ [][Next]_vars

-----------------------------------------------------------------------------
(* Safety *)

\* A movie, an episode or a season's pack slot never has two active sources, whether
\* a source owns the episode by its own row or through a pack's bindings.  The unique
\* indexes see only equal scope columns; `issue` and `bind_season_pack` must do the rest.
SlotExclusive ==
    /\ \A p, q \in Permits : Primary(p) /\ Primary(q) /\ SameSlot(p, q) => p = q
    /\ \A p, q \in Permits, e \in Episodes :
           /\ Primary(p) /\ Covers(p, e)
           /\ Primary(q) /\ Covers(q, e)
           /\ row[p].res = row[q].res
           => p = q

\* A live probe always hangs from the confirmed source of its own slot, one per source,
\* so that rejecting it leaves the slot downloading and promoting it finds a parent.
ProbeAnchored ==
    \A q \in Permits : Active(q) /\ probeOf[q] # NoPermit =>
        LET p == probeOf[q] IN
        /\ state[p] = "confirmed" /\ probeOf[p] = NoPermit /\ SameSlot(p, q)
        /\ ProbesOf(p) = {q}

\* While a handover is pending its candidate owns the slot and its parent is only an
\* old source still to be stopped; `is_admitted` answers for both of them.
HandoverSound ==
    \A c \in Permits : Pending(c) =>
        LET p == handover[c].parent IN
        /\ state[c] = "confirmed" /\ probeOf[c] = NoPermit
        /\ state[p] = "superseded" /\ SameSlot(p, c)
        /\ \A d \in Permits : Pending(d) /\ SameSlot(c, d) => c = d

\* The bytes of every active permit of a live reservation are within its budget, or
\* `find_for_metadata` would refuse to dispatch a source the controller admitted.
ActiveBytes(r) ==
    Sum([p \in {p \in RowsOf(r) : Active(p)} |-> Size[row[p].hash]])
BudgetCovers == \A r \in Reservations : Live(r) => ActiveBytes(r) <= budget[r]

\* A cancelled reservation, withdrawn or purged, has no permit left that is usable or
\* whose dispatch is still uncertain.
CancelledHasNoUse ==
    \A p \in Permits : Active(p) /\ resv[row[p].res] = "cancelled" => state[p] = "confirmed"

\* Nothing is in qBittorrent without a permit row that was spent on it: neither a
\* crash inside `authorize` nor the retirement of unused permits loses that record.
Spent(p) == Exists(p) /\ state[p] \notin {"authorized", "revoked"}
EveryTorrentIsOnRecord ==
    \A h \in torrents : \E p \in Permits : row[p].hash = h /\ Spent(p)

\* At most one import occupies the library's disk: of the rows dispatching or copying
\* there is one, and a copy is the only row that is not complete.
CopyImportAlone ==
    \A k, l \in ImportKeys : k # l /\ ImportOf(k) \in Submitted /\ ImportOf(l) \in Submitted =>
        /\ {ImportOf(k), ImportOf(l)} \cap {"dispatching_copy", "accepted_copy"} = {}
        /\ "accepted" \in {ImportOf(k), ImportOf(l)}

-----------------------------------------------------------------------------
(* The inductive invariant: what the transactions rely on without reading it *)

\* A row names media that was admitted and a slot it has; only packs have bindings,
\* packs and replaced sources are never probes, and without live probes nothing is.
RowOK == \A p \in Permits :
    /\ Exists(p) => /\ row[p] \in Source
                    /\ <<row[p].res, row[p].scope>> \in Slots
                    /\ resv[row[p].res] # "none"
                    /\ binding[p] # {} => IsPack(p)
    /\ ~ Exists(p) => probeOf[p] = NoPermit
    /\ state[p] = "free" => binding[p] = {}
    /\ probeOf[p] # NoPermit => LiveProbes /\ ~ IsPack(p) /\ state[p] # "superseded"

\* While the gateway's call is in flight its row is not taken away from it, and the
\* reservation of a plain permit, which is not guarded twice, stays open.
CallOK ==
    /\ call.phase = "idle" <=> call.permit = NoPermit
    /\ call.phase # "idle" =>
           LET p == call.permit IN
           /\ state[p] \in {"dispatching", "probe_rejected"}
           /\ ~ Guarded(p) => state[p] = "dispatching" /\ Live(row[p].res)

\* A task's permit is still a row, and the purge knows of every row of its season that
\* could still be dispatched.
WorkerOK ==
    /\ worker.task = "bind" => /\ worker.permit \in Permits
                               /\ Exists(worker.permit) /\ IsPack(worker.permit)
    /\ worker.task \in {"reject", "import", "submit"} =>
           /\ worker.permit \in Permits
           /\ state[worker.permit] \notin {"free", "deleted", "revoked"}
    /\ worker.task = "purge" =>
           /\ worker.res \in Seasons
           /\ \A p \in RowsOf(worker.res) \ worker.left :
                  state[p] \notin {"authorized", "dispatching", "unknown"}

IInv == /\ TypeOK /\ RowOK /\ CallOK /\ WorkerOK
        /\ SlotExclusive /\ ProbeAnchored /\ CancelledHasNoUse

\* What HandoverSound relies on: a promoted candidate has no probe of its own before its
\* handover ends, and handovers come only from live probes.
HInv == /\ HandoverSound
        /\ \A c \in Permits : Pending(c) =>
               LiveProbes /\ handover[c].parent \in Permits /\ ProbesOf(c) = {}

\* What CopyImportAlone relies on: the key an import goes on with is one of a movie or of
\* an episode, and the row it is about to record is the one it claimed.
TaskKey == KeyOf(worker.permit, worker.scope)
ImportInv ==
    /\ CopyImportAlone
    /\ worker.task \in {"import", "submit"} => TaskKey \in ImportKeys
    /\ worker.task = "submit" => ImportOf(TaskKey) \in {"dispatching", "dispatching_copy"}


-----------------------------------------------------------------------------
(* What a step may never do *)

\* Over its whole life a permit is used once: it is born authorized, it is never
\* authorized again, and no final state is left.
Dead == {"deleted", "superseded", "probe_rejected", "revoked"}
SingleUse == [][\A p \in Permits :
    /\ state'[p] = "authorized" => state[p] \in {"free", "authorized"}
    /\ state'[p] = "dispatching" => state[p] \in {"authorized", "dispatching"}
    /\ state[p] \in Dead => state'[p] = state[p] ]_vars

\* A source whose import has begun keeps its slot: no replacement, promotion, pack
\* recovery, deletion or withdrawal changes the permit the import row stands for.
ImportPinsSource == [][\A p \in Permits :
    Primary(p) /\ state[p] = "confirmed" /\ ImportStarted(p) => state'[p] = "confirmed"]_vars

\* A torrent is added only for a row still being dispatched (or a probe the worker has
\* just rejected on an old reading) and a reservation that has not ended, although the
\* worker imports, withdraws, deletes and purges between the claim of the row and the
\* add; a probe's or a pack's, which `authorize` guards twice, only while it is wanted.
AddIsAdmitted == [][
    LET p == call.permit
        r == row[p].res IN
    torrents' \ torrents # {} =>
        /\ state[p] \in {"dispatching", "probe_rejected"} /\ Live(r)
        /\ Guarded(p) => /\ request[r] \notin {"cancel_requested", "cancelled"}
                         /\ <<r, NoScope>> \notin tombstone
                         /\ \A e \in Episodes : Covers(p, e) => <<r, e>> \notin tombstone
    ]_vars

\* A torrent leaves qBittorrent only when every media its active sources serve was
\* deleted: neither another title nor another episode of a pack loses its payload.
RemovalIsExplicit == [][\A h \in torrents \ torrents', p \in Permits :
    Active(p) /\ row[p].hash = h =>
        LET r == row[p].res IN
        \/ <<r, NoScope>> \in tombstone
        \/ /\ \E e \in Episodes : Covers(p, e)
           /\ \A e \in Episodes : Covers(p, e) => <<r, e>> \in tombstone]_vars

\* When the purge of a season releases its bytes, qBittorrent holds none of its sources any
\* more, unless another title came to use the same torrent, although they were removed one
\* by one with other steps between.
HeldElsewhere(h, r, S) == \E q \in Permits : /\ row[q].hash = h /\ Spent(q)
                                             /\ row[q].res # r \/ q \in S
SeasonPurged == [][\A r \in Seasons :
    resv[r] # "cancelled" /\ resv'[r] = "cancelled" /\ worker.task = "purge" =>
        \A p \in RowsOf(r) :
            /\ state[p] # "authorized"
            /\ row[p].hash \in torrents => HeldElsewhere(row[p].hash, r, {})]_vars

\* What SeasonPurged relies on, between two steps of a purge: a torrent of a source the purge
\* has dealt with is held by another title or by a source it has still to deal with.
PurgeInv == worker.task = "purge" =>
    /\ <<worker.res, NoScope>> \in tombstone
    /\ worker.left \subseteq RowsOf(worker.res)
    /\ \A p \in RowsOf(worker.res) \ worker.left :
           row[p].hash \in torrents => HeldElsewhere(row[p].hash, worker.res, worker.left)

\* What BudgetCovers relies on: the rows ever inserted are finitely many, and a budget is a
\* number of bytes.
BudgetInv ==
    /\ IsFiniteSet({p \in Permits : state[p] # "free"})
    /\ \A r \in Reservations : budget[r] \in Nat
    /\ BudgetCovers
=============================================================================
