----------------------------- MODULE Acquisition -----------------------------
(***************************************************************************)
(* The acquiring half of the worker's cycle: admission of requests, permits *)
(* for movies, episodes and season packs, replacement of a stalled source   *)
(* (by a live probe, or in place when probes are off), and withdrawal.      *)
(* The worker is one loop: an action that leaves a task in `worker` is      *)
(* followed by an await or a second transaction, and no other worker action *)
(* can happen before it ends, fails or the process restarts.                *)
(***************************************************************************)
EXTENDS PermitRegistry

\* `reserve` as the scheduler calls it: zero bytes, a deleted title is refused, and
\* a reservation of the same media is returned as it is, so a cancelled one stays.
Reserve(r) ==
    /\ WorkerFree
    /\ resv[r] = "none" /\ <<r, NoScope>> \notin tombstone
    /\ resv' = [resv EXCEPT ![r] = "reserved"]
    /\ request' = [request EXCEPT ![r] = "reserved"]
    /\ budget' = [budget EXCEPT ![r] = 0]
    /\ UNCHANGED <<permitVars, importVars, tombstone, call, worker, torrents>>

SlotFreeByRow(r, s) == \A q \in SlotRows(r, s) : ~ Primary(q)   \* mutant
\* No active source owns the slot, by its own row or through a pack's bindings.
SlotFree(r, s) ==
    /\ \A q \in SlotRows(r, s) : ~ Primary(q)
    /\ \A q \in RowsOf(r) : Active(q) => s \notin binding[q]

\* `issue`: a permit for an empty slot that never had a replacement. The worker looks
\* the slot up first, skips deleted episodes, and wants no deletion in a pack's season.
Issue(p, r, s, h) ==
    /\ WorkerFree /\ Admitted(r)
    /\ <<r, s>> \in Slots
    /\ s \in Episodes => <<r, s>> \notin tombstone
    /\ s = Pack => \A e \in Episodes : <<r, e>> \notin tombstone
    /\ ~ HadSuperseded(r, s)
    /\ SlotFree(r, s)
    /\ Insert(p, [res |-> r, scope |-> s, hash |-> h], NoPermit)
    /\ state' = [state EXCEPT ![p] = "authorized"]
    /\ Rebudget(r)
    /\ worker' = IF s = Pack THEN Task("bind", p, Pack) ELSE NoTask
    /\ UNCHANGED <<resv, request, expired, binding, handover, importVars,
                   tombstone, call, torrents>>

LooseButPending(old) == ~ ImportStarted(old) /\ ProbesOf(old) = {}   \* mutant

\* A source that nothing else depends on: no import, probe or handover.
Loose(old) ==
    /\ ~ ImportStarted(old)
    /\ ProbesOf(old) = {}
    /\ ~ Pending(old) /\ old \notin PendingParents(handover)

\* `_validate_pack_replacements`: old is a stalled source that pack p may take over.
Recoverable(p, old, E) ==
    /\ state[old] = "confirmed" /\ probeOf[old] = NoPermit
    /\ row[old].res = row[p].res /\ row[old].scope \in E
    /\ row[old].hash # row[p].hash
    /\ binding[old] = {}
    /\ GuardOK(row[old].res, row[old].scope)
    /\ Loose(old)

\* `bind_season_pack`: pack p, just issued, owns the episodes E; the stalled sources
\* olds are superseded in the same transaction.
BindPack(p, E, olds) ==
    LET r == row[p].res IN
    /\ worker.task = "bind" /\ worker.permit = p
    /\ Active(p) /\ Live(r) /\ binding[p] = {}
    /\ E # {}
    /\ \A q \in RowsOf(r) \ {p}, e \in E : Active(q) /\ Covers(q, e) => q \in olds
    /\ \A q \in Permits \ {p} : Active(q) => row[q].hash # row[p].hash
    /\ olds # {} => /\ state[p] = "authorized" /\ p \notin expired
                    /\ GuardOK(r, Pack) /\ \A e \in E : GuardOK(r, e)
    /\ \A old \in olds : Recoverable(p, old, E)
    /\ binding' = [binding EXCEPT ![p] = E]
    /\ state' = [q \in Permits |-> IF q \in olds THEN "superseded" ELSE state[q]]
    /\ UNCHANGED <<row, handover>>
    /\ IF olds = {} THEN UNCHANGED budget ELSE RebudgetProbe(r)
    /\ worker' = NoTask
    /\ UNCHANGED <<resv, request, probeOf, expired, importVars, tombstone, call, torrents>>

\* A pack that could not be bound is cancelled, and so is one a crash left unbound.
CancelUnbound(p) ==
    /\ \/ worker.task = "bind" /\ worker.permit = p
       \/ WorkerFree /\ Exists(p) /\ IsPack(p) /\ binding[p] = {} /\ Admitted(row[p].res)
    /\ CancelAuthorized(p)
    /\ worker' = NoTask
    /\ UNCHANGED <<resv, request, handover, importVars, tombstone, call, torrents>>

StaleOrDispatched(r, s) ==   \* mutant
    {p \in SlotRows(r, s) : state[p] \in {"authorized", "dispatching"} /\ p \in expired}

\* The slot's rows whose authorization has run out unused.
Stale(r, s) == {p \in SlotRows(r, s) : state[p] = "authorized" /\ p \in expired}

\* `retire_expired_authorized`: the slot's expired unused rows go, probes included,
\* unless the slot's own source is an undispatched replacement.
RetireExpired(r, s) ==
    /\ WorkerFree /\ Admitted(r) /\ <<r, s>> \in Slots
    /\ s \in Episodes => /\ <<r, s>> \notin tombstone
                         /\ \A q \in RowsOf(r) : Primary(q) => s \notin binding[q]
    /\ s # Pack => ~ \E q \in SlotRows(r, s) : /\ Primary(q) /\ state[q] = "authorized"
                                               /\ HadSuperseded(r, s)
    /\ Stale(r, s) # {}
    /\ DeleteRows(Stale(r, s))
    /\ Rebudget(r)
    /\ UNCHANGED <<resv, request, binding, handover, importVars, tombstone, call,
                   worker, torrents>>

-----------------------------------------------------------------------------
(* A better source for a slot that is already downloading *)

\* `renew_replacement_authorized`: an expired replacement gets a new deadline.
Renew(p) ==
    /\ WorkerFree
    /\ state[p] = "authorized" /\ probeOf[p] = NoPermit /\ p \in expired
    /\ Admitted(row[p].res)
    /\ HadSuperseded(row[p].res, row[p].scope)
    /\ expired' = expired \ {p}
    /\ UNCHANGED <<resVars, state, row, probeOf, binding, handover, importVars,
                   tombstone, call, worker, torrents>>

\* The stopped source's media was neither deleted nor claimed by an import.
Replaceable(old) ==
    /\ row[old].scope \in Episodes => <<row[old].res, row[old].scope>> \notin tombstone
    /\ ~ ImportStarted(old)

\* `replace_confirmed`, used when live probes are off: the stopped source gives its
\* slot to a torrent never tried there and not admitted anywhere.
Replace(old, new, h) ==
    LET r == row[old].res IN
    /\ ~ LiveProbes
    /\ WorkerFree
    /\ state[old] = "confirmed" /\ probeOf[old] = NoPermit /\ ~ IsPack(old)
    /\ Admitted(r)
    /\ Replaceable(old)
    /\ \A q \in SlotRows(r, row[old].scope) : row[q].hash # h
    /\ \A q \in Permits : Active(q) => row[q].hash # h
    /\ Insert(new, [res |-> r, scope |-> row[old].scope, hash |-> h], NoPermit)
    /\ state' = [state EXCEPT ![old] = "superseded", ![new] = "authorized"]
    /\ Rebudget(r)
    /\ UNCHANGED <<resv, request, expired, binding, handover, importVars, tombstone,
                   call, worker, torrents>>

\* One candidate at a time, after the last handover and before the import.
Probeable(old) ==
    /\ ~ Pending(old)
    /\ ProbesOf(old) = {}
    /\ ~ ImportStarted(old)

\* `issue_probe`, used when live probes are on: one candidate per confirmed source,
\* which keeps downloading. The worker never probes a pack.
IssueProbe(old, new, h) ==
    LET r == row[old].res IN
    /\ LiveProbes
    /\ WorkerFree
    /\ state[old] = "confirmed" /\ probeOf[old] = NoPermit /\ ~ IsPack(old)
    /\ Admitted(r)
    /\ GuardOK(r, row[old].scope)
    /\ Probeable(old)
    /\ \A q \in RowsOf(r) : row[q].hash # h
    /\ \A q \in Permits : Active(q) => row[q].hash # h
    /\ Insert(new, [res |-> r, scope |-> row[old].scope, hash |-> h], old)
    /\ state' = [state EXCEPT ![new] = "authorized"]
    /\ UNCHANGED handover
    /\ RebudgetProbe(r)
    /\ UNCHANGED <<resv, request, expired, binding, importVars, tombstone, call,
                   worker, torrents>>

\* `_monitor_probe` reads the probe of a confirmed source as authorized and then
\* awaits the capacity evidence before it acts on what it read.
ReadProbe(p) ==
    /\ WorkerFree /\ LiveProbes
    /\ state[p] = "authorized" /\ probeOf[p] # NoPermit /\ p \notin expired
    /\ Admitted(row[p].res)
    /\ GuardOK(row[p].res, row[p].scope)
    /\ worker' = Task("reject", p, NoScope)
    /\ UNCHANGED <<resVars, permitVars, importVars, tombstone, call, torrents>>

\* The worker rejects it itself when it has expired by now, or when its torrent
\* metadata was never stored (so that nothing can have dispatched it).
WorkerReject(p) ==
    /\ worker.task = "reject" /\ worker.permit = p
    /\ p \in expired \/ state[p] = "authorized"
    /\ RejectRow(p)
    /\ worker' = NoTask
    /\ UNCHANGED <<resv, request, probeOf, expired, binding, importVars, tombstone,
                   call, torrents>>

-----------------------------------------------------------------------------
(* Withdrawal, time, failure and restart *)

\* `cancel_unstarted`: an unused admission is revoked whole; once any permit was
\* used the reservation stays and only the request records the withdrawal.
CancelUnstarted(r) ==
    LET rows == RowsOf(r)
        started == \E p \in rows : state[p] \notin {"authorized", "revoked"} IN
    /\ WorkerFree /\ Live(r)
    /\ IF started
       THEN /\ request' = [request EXCEPT ![r] = "cancel_requested"]
            /\ UNCHANGED <<resv, state>>
       ELSE /\ request' = [request EXCEPT ![r] = "cancelled"]
            /\ resv' = [resv EXCEPT ![r] = "cancelled"]
            /\ state' = [p \in Permits |-> IF p \in rows THEN "revoked" ELSE state[p]]
    /\ UNCHANGED <<budget, row, probeOf, expired, binding, handover, importVars,
                   tombstone, call, worker, torrents>>

\* The thirty minutes of an authorization pass.
Expire(p) ==
    /\ state[p] \in {"authorized", "dispatching"} /\ p \notin expired
    /\ expired' = expired \cup {p}
    /\ UNCHANGED <<resVars, state, row, probeOf, binding, handover, importVars,
                   tombstone, call, worker, torrents>>

\* An exception (an HTTP error, a refused transaction) ends the worker's task.
WorkerAbort ==
    /\ ~ WorkerFree
    /\ worker' = NoTask
    /\ UNCHANGED <<resVars, permitVars, importVars, tombstone, call, torrents>>

\* A new worker process first runs `normalize_verified_budgets`.
WorkerRestart ==
    /\ row' = row /\ state' = state
    /\ budget' = [r \in Reservations |-> IF Live(r) THEN SumActive(r) ELSE budget[r]]
    /\ worker' = NoTask
    /\ UNCHANGED <<resv, request, probeOf, expired, binding, handover, importVars,
                   tombstone, call, torrents>>
=============================================================================
