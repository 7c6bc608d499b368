------------------------------- MODULE Gateway -------------------------------
(***************************************************************************)
(* The download gateway: the only process that talks to qBittorrent.  Its   *)
(* add handler runs `authorize` to the end without yielding, so one call is *)
(* in flight; between the transactions of that call the worker's run, and   *)
(* the process may die.  The other handlers are requests of the worker that *)
(* may still be executed after the worker has given up waiting.             *)
(***************************************************************************)
EXTENDS PermitRegistry

SameKind(p, q) == (row[p].res \in Movies) = (row[q].res \in Movies)

ResolvableAgain(p) ==   \* mutant
    /\ state[p] \in {"authorized", "unknown"} /\ p \notin expired
    /\ Live(row[p].res)
    /\ Size[row[p].hash] <= budget[row[p].res]

\* What `find_for_metadata` and `find_for_magnet` would resolve an add request to.
Resolvable(p) ==
    /\ state[p] = "authorized" /\ p \notin expired
    /\ Live(row[p].res)
    /\ Size[row[p].hash] <= budget[row[p].res]

\* `authorize`, first transaction. A confirmed permit of the same torrent makes the
\* request ambiguous only until its deadline, which may always have passed.
Claim(p) ==
    /\ GatewayFree
    /\ Resolvable(p)
    /\ \A q \in Permits \ {p} :
           Resolvable(q) /\ row[q].hash = row[p].hash => ~ SameKind(p, q)
    /\ Guarded(p) => GuardNow(p)
    /\ state' = [state EXCEPT ![p] = "dispatching"]
    /\ call' = [permit |-> p, phase |-> "claimed"]
    /\ UNCHANGED <<resVars, row, probeOf, expired, binding, handover, importVars,
                   tombstone, worker, torrents>>

\* The effect: qBittorrent adds the torrent, and its answer may be lost on the way.
\* For a probe or a pack the guard is checked again in a transaction held meanwhile.
AddTorrent ==
    LET p == call.permit IN
    /\ call.phase = "claimed"
    /\ Guarded(p) => GuardNow(p)
    /\ torrents' = torrents \cup {row[p].hash}
    /\ \E answer \in {"added", "failed"} : call' = [call EXCEPT !.phase = answer]
    /\ UNCHANGED <<resVars, permitVars, importVars, tombstone, worker>>

\* The effect raises before anything was added (a guard, the capacity, qBittorrent).
AddFails ==
    /\ call.phase = "claimed"
    /\ call' = [call EXCEPT !.phase = "failed"]
    /\ UNCHANGED <<resVars, permitVars, importVars, tombstone, worker, torrents>>

OutcomeAsIs == call.phase   \* mutant

\* What the row records of the call.
Outcome == IF call.phase = "added" THEN "confirmed" ELSE "unknown"

\* `authorize`, last transaction: only a row still dispatching takes the outcome.
RecordAdd ==
    LET p == call.permit IN
    /\ call.phase \in {"added", "failed"}
    /\ state' = IF state[p] # "dispatching" THEN state
                ELSE [state EXCEPT ![p] = Outcome]
    /\ call' = NoCall
    /\ UNCHANGED <<resVars, row, probeOf, expired, binding, handover, importVars,
                   tombstone, worker, torrents>>

\* The gateway dies inside the call; the row stays dispatching.
GatewayCrash ==
    /\ ~ GatewayFree
    /\ call' = NoCall
    /\ UNCHANGED <<resVars, permitVars, importVars, tombstone, worker, torrents>>

\* `reconcile_source` and `confirm_reconciled_source`: qBittorrent has the torrent of
\* an uncertain source, or of a probe or replacement whose dispatch was forgotten.
ConfirmReconciled(p) ==
    /\ GatewayFree
    /\ state[p] \in {"authorized", "dispatching", "unknown"}
    /\ state[p] = "authorized" =>
           probeOf[p] # NoPermit \/ HadSuperseded(row[p].res, row[p].scope)
    /\ ActiveSource(p)
    /\ Live(row[p].res)
    /\ row[p].hash \in torrents
    /\ state' = [state EXCEPT ![p] = "confirmed"]
    /\ UNCHANGED <<resVars, row, probeOf, expired, binding, handover, importVars,
                   tombstone, call, worker, torrents>>

GivesWayLate(parent) == state[parent] = "confirmed" /\ probeOf[parent] = NoPermit   \* mutant

\* No import of the old source, which is still the confirmed one of the slot.
GivesWay(parent) ==
    /\ ~ ImportStarted(parent)
    /\ state[parent] = "confirmed" /\ probeOf[parent] = NoPermit

\* `probe_decision` promote and `promote_probe`: the measured candidate takes the slot
\* and a durable handover remembers that the old source must still be stopped.
Promote(p) ==
    LET parent == probeOf[p] IN
    /\ GatewayFree
    /\ state[p] = "confirmed" /\ parent # NoPermit /\ ActiveSource(p)
    /\ GuardOK(row[p].res, row[p].scope)
    /\ GivesWay(parent)
    /\ state' = [state EXCEPT ![parent] = "superseded"]
    /\ handover' = [handover EXCEPT ![p] = [state |-> "pending", parent |-> parent]]
    /\ probeOf' = [probeOf EXCEPT ![p] = NoPermit]
    /\ row' = row
    /\ RebudgetProbe(row[p].res)
    /\ UNCHANGED <<resv, request, expired, binding, importVars, tombstone, call,
                   worker, torrents>>

\* `complete_handover`, once qBittorrent shows the old source stopped.
CompleteHandover(p) ==
    /\ GatewayFree
    /\ Pending(p)
    /\ handover' = [handover EXCEPT ![p].state = "complete"]
    /\ row' = row /\ state' = state
    /\ IF Exists(p) THEN RebudgetProbe(row[p].res) ELSE UNCHANGED budget
    /\ UNCHANGED <<resv, request, probeOf, expired, binding, importVars, tombstone,
                   call, worker, torrents>>

\* `probe_decision` reject and `reject_probe`, once the candidate is stopped or absent.
GatewayReject(p) ==
    /\ GatewayFree
    /\ Active(p) /\ ActiveSource(p)
    /\ RejectRow(p)
    /\ UNCHANGED <<resv, request, probeOf, expired, binding, importVars, tombstone,
                   call, worker, torrents>>
=============================================================================
