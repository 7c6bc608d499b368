--------------------------- MODULE ControllerProofs ---------------------------
(***************************************************************************)
(* Proofs about the controller for every number of movies, seasons,         *)
(* episodes, torrents and permits.                                          *)
(***************************************************************************)
EXTENDS Controller, FiniteSetTheorems, TLAPS

LEMMA TypeInit == Init => TypeOK
  BY DEF Init, TypeOK, NoSource, NoHandover, NoCall, NoTask, Task, RequestStates, PermitStates,
         ActiveStates, ImportStates, WorkerTasks, Scopes, Reservations

LEMMA TypeAcquire == TypeOK /\ RowOK /\ Acquire => TypeOK'
  <1> SUFFICES ASSUME TypeOK, RowOK, Acquire PROVE TypeOK'
    OBVIOUS
  <1> USE DEF TypeOK, PermitStates, ActiveStates, Scopes, Reservations
  <1>1. ASSUME NEW r \in Reservations, Reserve(r) PROVE TypeOK'
    BY <1>1 DEF Reserve, permitVars, importVars, RequestStates
  <1>2. ASSUME NEW r \in Reservations, CancelUnstarted(r) PROVE TypeOK'
    BY <1>2 DEF CancelUnstarted, importVars, RequestStates
  <1>3. ASSUME NEW p \in Permits, NEW r \in Reservations, NEW s \in Scopes,
               NEW h \in Hashes, Issue(p, r, s, h)
        PROVE TypeOK'
    BY <1>3 DEF Issue, Insert, Rebudget, importVars, Source, NoTask, Task, WorkerTasks
  <1>4. ASSUME NEW p \in Permits, NEW E \in SUBSET Episodes, NEW olds \in SUBSET Permits,
               BindPack(p, E, olds)
        PROVE TypeOK'
    BY <1>4 DEF BindPack, RebudgetProbe, importVars, NoTask, Task, WorkerTasks
  <1>5. ASSUME NEW r \in Reservations, NEW s \in Scopes, RetireExpired(r, s) PROVE TypeOK'
    BY <1>5 DEF RetireExpired, DeleteRows, Rebudget, importVars, NoSource
  <1>6. ASSUME NEW old \in Permits, NEW new \in Permits, NEW h \in Hashes,
               Replace(old, new, h)
        PROVE TypeOK'
    BY <1>6 DEF Replace, Insert, Rebudget, importVars, Source, RowOK, Exists
  <1>7. ASSUME NEW old \in Permits, NEW new \in Permits, NEW h \in Hashes,
               IssueProbe(old, new, h)
        PROVE TypeOK'
    BY <1>7 DEF IssueProbe, Insert, RebudgetProbe, importVars, Source, RowOK, Exists
  <1>8. ASSUME NEW p \in Permits, CancelUnbound(p) PROVE TypeOK'
    BY <1>8 DEF CancelUnbound, CancelAuthorized, DeleteRows, Rebudget, importVars,
                NoSource, NoTask, Task, WorkerTasks
  <1>9. ASSUME NEW p \in Permits, Renew(p) PROVE TypeOK'
    BY <1>9 DEF Renew, resVars, importVars
  <1>10. ASSUME NEW p \in Permits, ReadProbe(p) PROVE TypeOK'
    BY <1>10 DEF ReadProbe, resVars, permitVars, importVars, NoTask, Task, WorkerTasks
  <1>11. ASSUME NEW p \in Permits, WorkerReject(p) PROVE TypeOK'
    BY <1>11 DEF WorkerReject, RejectRow, RebudgetProbe, importVars, NoTask, Task, WorkerTasks
  <1> QED
    BY <1>1, <1>2, <1>3, <1>4, <1>5, <1>6, <1>7, <1>8, <1>9, <1>10, <1>11 DEF Acquire

LEMMA TypeImport == TypeOK /\ RowOK /\ Import => TypeOK'
  <1> SUFFICES ASSUME TypeOK, RowOK, Import PROVE TypeOK'
    OBVIOUS
  <1> USE DEF TypeOK, ImportStates, Scopes, Reservations
  <1>1. ASSUME NEW p \in Permits, NEW s \in Scopes, ReadSource(p, s) PROVE TypeOK'
    BY <1>1 DEF ReadSource, resVars, permitVars, importVars, Task, WorkerTasks
  <1>2. ASSUME NEW p \in Permits, NEW s \in Scopes, CompleteImport(p, s) PROVE TypeOK'
    BY <1>2 DEF CompleteImport, SetImport, permitVars, RequestStates
  <1>3. ASSUME NEW copy \in BOOLEAN, ClaimImport(copy) PROVE TypeOK'
    BY <1>3 DEF ClaimImport, SetImport, resVars, permitVars, Task, WorkerTasks
  <1>4. ASSUME RecordImport PROVE TypeOK'
    BY <1>4 DEF RecordImport, SetImport, resVars, permitVars, NoTask, Task, WorkerTasks
  <1> QED
    BY <1>1, <1>2, <1>3, <1>4 DEF Import

LEMMA TypeDelete == TypeOK /\ RowOK /\ Delete => TypeOK'
  <1> SUFFICES ASSUME TypeOK, RowOK, Delete PROVE TypeOK'
    OBVIOUS
  <1> USE DEF TypeOK, Scopes, Reservations, NoTask, Task, WorkerTasks
  <1>1. ASSUME NEW r \in Reservations, NEW s \in Scopes, TombstoneItem(r, s) PROVE TypeOK'
    BY <1>1 DEF TombstoneItem, resVars, permitVars, importVars
  <1>2. ASSUME NEW r \in Reservations, NEW s \in Scopes, NEW p \in Permits,
               DeleteSource(r, s, p)
        PROVE TypeOK'
    BY <1>2 DEF DeleteSource, resVars, permitVars, importVars
  <1>3. ASSUME NEW r \in Reservations, TombstoneSeason(r) PROVE TypeOK'
    BY <1>3 DEF TombstoneSeason, resVars, permitVars, importVars
  <1>4. ASSUME NEW r \in Reservations, CancelSeasonRequest(r) PROVE TypeOK'
    BY <1>4 DEF CancelSeasonRequest, permitVars, importVars, RequestStates
  <1>5. ASSUME NEW r \in Reservations, StartPurge(r) PROVE TypeOK'
    BY <1>5 DEF StartPurge, resVars, permitVars, importVars, RowsOf, Slots, Inventory
  <1>6. ASSUME NEW p \in Permits, PurgeUnused(p) PROVE TypeOK'
    BY <1>6 DEF PurgeUnused, CancelAuthorized, DeleteRows, Rebudget, importVars,
                NoSource, PermitStates
  <1>7. ASSUME NEW p \in Permits, PurgeSource(p) PROVE TypeOK'
    BY <1>7 DEF PurgeSource, resVars, permitVars, importVars
  <1>8. ASSUME CloseSeason PROVE TypeOK'
    BY <1>8 DEF CloseSeason, permitVars, importVars
  <1> QED
    BY <1>1, <1>2, <1>3, <1>4, <1>5, <1>6, <1>7, <1>8 DEF Delete

LEMMA TypeServe == TypeOK /\ RowOK /\ CallOK /\ Serve => TypeOK'
  <1> SUFFICES ASSUME TypeOK, RowOK, CallOK, Serve PROVE TypeOK'
    OBVIOUS
  <1> USE DEF TypeOK, PermitStates, ActiveStates, resVars, importVars
  <1>1. ASSUME NEW p \in Permits, Claim(p) PROVE TypeOK'
    BY <1>1 DEF Claim
  <1>2. ASSUME NEW p \in Permits, ConfirmReconciled(p) PROVE TypeOK'
    BY <1>2 DEF ConfirmReconciled
  <1>3. ASSUME NEW p \in Permits, Promote(p) PROVE TypeOK'
    BY <1>3 DEF Promote, RebudgetProbe
  <1>4. ASSUME NEW p \in Permits, CompleteHandover(p) PROVE TypeOK'
    BY <1>4 DEF CompleteHandover, RebudgetProbe
  <1>5. ASSUME NEW p \in Permits, GatewayReject(p) PROVE TypeOK'
    BY <1>5 DEF GatewayReject, RejectRow, RebudgetProbe
  <1>6. ASSUME AddTorrent PROVE TypeOK'
    <2>1. call.permit \in Permits
      BY <1>6 DEF AddTorrent, CallOK
    <2>2. row[call.permit].hash \in Hashes
      BY <1>6, <2>1 DEF AddTorrent, CallOK, RowOK, Exists, Source
    <2> QED
      BY <1>6, <2>1, <2>2 DEF AddTorrent, permitVars
  <1>7. ASSUME AddFails PROVE TypeOK'
    BY <1>7 DEF AddFails, permitVars
  <1>8. ASSUME RecordAdd PROVE TypeOK'
    BY <1>8 DEF RecordAdd, NoCall, Outcome
  <1> QED
    BY <1>1, <1>2, <1>3, <1>4, <1>5, <1>6, <1>7, <1>8 DEF Serve

LEMMA TypeEnvironment == TypeOK /\ Environment => TypeOK'
  <1> SUFFICES ASSUME TypeOK, Environment PROVE TypeOK'
    OBVIOUS
  <1> USE DEF TypeOK, resVars, permitVars, importVars, NoTask, Task, WorkerTasks, Scopes
  <1>1. ASSUME NEW p \in Permits, Expire(p) PROVE TypeOK'
    BY <1>1 DEF Expire
  <1>2. ASSUME WorkerAbort PROVE TypeOK'
    BY <1>2 DEF WorkerAbort
  <1>3. ASSUME WorkerRestart PROVE TypeOK'
    BY <1>3 DEF WorkerRestart
  <1>4. ASSUME GatewayCrash PROVE TypeOK'
    BY <1>4 DEF GatewayCrash, NoCall
  <1> QED
    BY <1>1, <1>2, <1>3, <1>4 DEF Environment

-----------------------------------------------------------------------------
(* The rows, the slots and the reservations *)

SlotsOK == RowOK /\ SlotExclusive /\ ProbeAnchored /\ CancelledHasNoUse

\* What a step does elsewhere cannot disturb them.
LEMMA Frame == SlotsOK /\ UNCHANGED <<resv, state, row, probeOf, binding>> => SlotsOK'
  BY DEF SlotsOK, RowOK, SlotExclusive, ProbeAnchored, CancelledHasNoUse, Exists, IsPack,
         Active, Primary, SameSlot, Covers, ProbesOf

\* Active rows may change their state among the active ones, but the confirmed source a
\* probe hangs from stays confirmed; a cancelled reservation's rows only get confirmed.
LEMMA ActiveFrame ==
  ASSUME TypeOK, SlotsOK, TypeOK', NEW p \in Permits, NEW v \in ActiveStates,
         Active(p), v = "confirmed" \/ (state[p] # "confirmed" /\ resv[row[p].res] # "cancelled"),
         state' = [state EXCEPT ![p] = v],
         UNCHANGED <<resv, row, probeOf, binding>>
  PROVE  SlotsOK'
  <1> USE DEF SlotsOK, TypeOK
  <1>1. \A q \in Permits : /\ Active(q)' <=> Active(q)
                           /\ Exists(q)' <=> Exists(q)
                           /\ state'[q] = "superseded" <=> state[q] = "superseded"
                           /\ state'[q] = "free" <=> state[q] = "free"
    BY DEF Active, Exists, ActiveStates
  <1>2. RowOK'
    BY <1>1 DEF RowOK, Exists, IsPack
  <1>3. SlotExclusive'
    BY <1>1 DEF SlotExclusive, Primary, SameSlot, Covers
  <1>4. ProbeAnchored'
    BY <1>1 DEF ProbeAnchored, SameSlot, ProbesOf
  <1>5. CancelledHasNoUse'
    BY <1>1 DEF CancelledHasNoUse
  <1> QED
    BY <1>2, <1>3, <1>4, <1>5

\* Rows that are no probe's parent may leave the active states, or the table.
LEMMA DeactivateFrame ==
  ASSUME TypeOK, SlotsOK, NEW S \in SUBSET Permits,
         \A p \in S : ~ Active(p)' /\ state[p] # "free" /\ state'[p] # "free",
         \A p \in S : (Exists(p)' /\ row'[p] = row[p] /\ probeOf'[p] = probeOf[p]
                         /\ Exists(p) /\ (state'[p] = "superseded" => probeOf[p] = NoPermit))
                      \/ (~ Exists(p)' /\ probeOf'[p] = NoPermit),
         \A p \in S, q \in Permits \ S : Active(q) => probeOf[q] # p,
         \A p \in Permits \ S : state'[p] = state[p] /\ row'[p] = row[p]
                                /\ probeOf'[p] = probeOf[p] /\ binding'[p] = binding[p],
         \A p \in S : binding'[p] = {} \/ binding'[p] = binding[p],
         \A r \in Reservations : resv'[r] # resv[r] =>
             /\ resv'[r] # "none"
             /\ resv'[r] = "cancelled" =>
                    \A p \in RowsOf(r) \ S : Active(p) => state[p] = "confirmed"
  PROVE  SlotsOK'
  <1>1. \A p \in Permits : Active(p)' => p \notin S /\ Active(p)
    BY DEF Active
  <1>2. RowOK'
    <2>0. \A p \in Permits : /\ ~ Exists(p) => probeOf[p] = NoPermit
                             /\ state[p] = "free" => binding[p] = {}
                             /\ probeOf[p] # NoPermit =>
                                   LiveProbes /\ ~ IsPack(p) /\ state[p] # "superseded"
      BY DEF SlotsOK, RowOK
    <2>1. \A r \in Reservations : resv[r] # "none" => resv'[r] # "none"
      OBVIOUS
    <2>2. \A p \in Permits : Exists(p)' => /\ Exists(p) /\ row'[p] = row[p]
                                           /\ row[p].res \in Reservations
      BY DEF SlotsOK, Exists, RowOK, Source
    <2>3. \A p \in Permits : Exists(p)' => /\ row'[p] \in Source
                                           /\ <<row'[p].res, row'[p].scope>> \in Slots
                                           /\ resv'[row'[p].res] # "none"
                                           /\ binding'[p] # {} => IsPack(p)'
      BY <2>1, <2>2 DEF SlotsOK, RowOK, IsPack
    <2>4. \A p \in Permits : /\ ~ Exists(p)' => probeOf'[p] = NoPermit
                             /\ state'[p] = "free" => binding'[p] = {}
      BY <2>0 DEF Exists
    <2>5. \A p \in Permits : probeOf'[p] # NoPermit =>
             LiveProbes /\ ~ IsPack(p)' /\ state'[p] # "superseded"
      BY <2>0 DEF Exists, IsPack
    <2> QED
      BY <2>3, <2>4, <2>5 DEF RowOK
  <1>3. SlotExclusive'
    <2>1. \A p \in Permits : Primary(p)' => /\ Primary(p) /\ row'[p] = row[p]
                                            /\ binding'[p] = binding[p]
      BY <1>1 DEF Primary
    <2> QED
      BY <2>1 DEF SlotsOK, SlotExclusive, SameSlot, Covers
  <1>4. ProbeAnchored'
    <2> SUFFICES ASSUME NEW q \in Permits, Active(q)', probeOf'[q] # NoPermit,
                        NEW p, p = probeOf[q]
                 PROVE  /\ probeOf'[q] = p
                        /\ state'[p] = "confirmed" /\ probeOf'[p] = NoPermit
                        /\ row'[p].res = row'[q].res /\ row'[p].scope = row'[q].scope
                        /\ ProbesOf(p)' = {q}
      BY DEF ProbeAnchored, SameSlot
    <2>1. Active(q) /\ q \notin S /\ p \in Permits \ S /\ probeOf'[q] = p
      BY <1>1 DEF TypeOK
    <2>2. state[p] = "confirmed" /\ probeOf[p] = NoPermit /\ SameSlot(p, q) /\ ProbesOf(p) = {q}
      BY <2>1 DEF SlotsOK, ProbeAnchored
    <2>3. ProbesOf(p)' = {q}
      BY <1>1, <2>1, <2>2 DEF ProbesOf
    <2> QED
      BY <2>1, <2>2, <2>3 DEF SameSlot
  <1>5. CancelledHasNoUse'
    <2> SUFFICES ASSUME NEW p \in Permits, Active(p)', resv'[row'[p].res] = "cancelled"
                 PROVE  state'[p] = "confirmed"
      BY DEF CancelledHasNoUse, Active
    <2>1. p \notin S /\ Active(p) /\ row'[p] = row[p] /\ state'[p] = state[p]
      BY <1>1
    <2>2. row[p].res \in Reservations /\ p \in RowsOf(row[p].res)
      BY <2>1 DEF SlotsOK, RowOK, Source, RowsOf, Exists, Active, ActiveStates
    <2> QED
      BY <2>1, <2>2 DEF SlotsOK, CancelledHasNoUse
  <1> QED
    BY <1>2, <1>3, <1>4, <1>5 DEF SlotsOK

LEMMA SlotsReserve ==
  ASSUME TypeOK, SlotsOK, NEW r \in Reservations, Reserve(r) PROVE SlotsOK'
  <1>1. /\ UNCHANGED <<state, row, probeOf, binding>>
        /\ \A x \in Reservations : resv'[x] # resv[x] => resv'[x] = "reserved"
    BY DEF Reserve, permitVars, TypeOK
  <1> QED
    BY <1>1, DeactivateFrame, {} \in SUBSET Permits

LEMMA SlotsCancelUnstarted ==
  ASSUME TypeOK, SlotsOK, NEW r \in Reservations, CancelUnstarted(r) PROVE SlotsOK'
  <1> DEFINE S == RowsOf(r)
             started == \E p \in S : state[p] \notin {"authorized", "revoked"}
  <1>1. CASE started
    BY <1>1, Frame DEF CancelUnstarted
  <1>2. CASE ~ started
    <2>1. /\ UNCHANGED <<row, probeOf, binding>>
          /\ \A p \in S : state'[p] = "revoked" /\ state[p] \in {"authorized", "revoked"}
          /\ \A p \in Permits \ S : state'[p] = state[p]
          /\ \A x \in Reservations : resv'[x] # resv[x] => x = r /\ resv'[x] = "cancelled"
      BY <1>2 DEF CancelUnstarted, TypeOK, RowsOf
    <2>2. \A p \in S, q \in Permits \ S : Active(q) => probeOf[q] # p
      BY <2>1, PermitAssumption DEF SlotsOK, ProbeAnchored, RowsOf
    <2>3. S \in SUBSET Permits /\ \A p \in S : Exists(p)
      BY DEF RowsOf
    <2>4. \A p \in S : ~ Active(p)' /\ Exists(p)'
      BY <2>1 DEF Active, Exists, ActiveStates
    <2> QED
      BY <2>1, <2>2, <2>3, <2>4, DeactivateFrame DEF Exists
  <1> QED
    BY <1>1, <1>2

\* The rows a worker or gateway call takes away were authorized or are a probe.
LEMMA SlotsDelete ==
  ASSUME TypeOK, SlotsOK, NEW S \in SUBSET Permits, \A p \in S : state[p] = "authorized",
         DeleteRows(S), resv' = resv,
         \A p \in Permits : binding'[p] = binding[p] \/ (p \in S /\ binding'[p] = {})
  PROVE  SlotsOK'
  <1>1. /\ \A p \in S : state'[p] = "deleted" /\ probeOf'[p] = NoPermit
        /\ \A p \in Permits \ S : /\ state'[p] = state[p] /\ row'[p] = row[p]
                                  /\ probeOf'[p] = probeOf[p]
    BY DEF DeleteRows
  <1>2. \A p \in S : ~ Active(p)' /\ ~ Exists(p)'
    BY <1>1 DEF Active, Exists, ActiveStates
  <1>3. \A p \in S, q \in Permits : Active(q) => probeOf[q] # p
    BY PermitAssumption DEF SlotsOK, ProbeAnchored
  <1> QED
    BY <1>1, <1>2, <1>3, DeactivateFrame

LEMMA SlotsReject ==
  ASSUME TypeOK, SlotsOK, NEW p \in Permits, RejectRow(p),
         UNCHANGED <<resv, probeOf, binding>>
  PROVE  SlotsOK'
  <1>1. /\ state'[p] = "probe_rejected" /\ UNCHANGED row
        /\ \A q \in Permits \ {p} : state'[q] = state[q]
        /\ Exists(p) /\ probeOf[p] # NoPermit
    BY DEF RejectRow, TypeOK
  <1>2. ~ Active(p)' /\ Exists(p)'
    BY <1>1 DEF Active, Exists, ActiveStates
  <1>3. \A q \in Permits : Active(q) => probeOf[q] # p
    BY <1>1, PermitAssumption DEF SlotsOK, ProbeAnchored
  <1> QED
    BY <1>1, <1>2, <1>3, DeactivateFrame, {p} \in SUBSET Permits DEF Exists

LEMMA SlotsComplete ==
  ASSUME TypeOK, SlotsOK, NEW p \in Permits, NEW s \in Scopes, CompleteImport(p, s)
  PROVE  SlotsOK'
  <1>1. /\ UNCHANGED <<state, row, probeOf, binding>>
        /\ \A x \in Reservations : resv'[x] # resv[x] => resv'[x] = "imported"
    BY DEF CompleteImport, permitVars, TypeOK
  <1> QED
    BY <1>1, DeactivateFrame, {} \in SUBSET Permits

\* The purge ends with no row left, and every other row is known to be spent.
LEMMA SlotsClose ==
  ASSUME TypeOK, SlotsOK, WorkerOK, CloseSeason PROVE SlotsOK'
  <1>1. /\ UNCHANGED <<state, row, probeOf, binding>>
        /\ \A x \in Reservations : resv'[x] # resv[x] =>
               x = worker.res /\ resv'[x] = "cancelled"
    BY DEF CloseSeason, permitVars, TypeOK
  <1>2. \A p \in RowsOf(worker.res) : Active(p) => state[p] = "confirmed"
    BY DEF CloseSeason, WorkerOK, Active, ActiveStates
  <1> QED
    BY <1>1, <1>2, DeactivateFrame, {} \in SUBSET Permits

LEMMA SlotsClaim ==
  ASSUME TypeOK, TypeOK', SlotsOK, NEW p \in Permits, Claim(p) PROVE SlotsOK'
  <1>1. /\ state[p] = "authorized" /\ Live(row[p].res)
        /\ state' = [state EXCEPT ![p] = "dispatching"]
        /\ UNCHANGED <<resv, row, probeOf, binding>>
    BY DEF Claim, Resolvable, resVars
  <1> QED
    BY <1>1, ActiveFrame DEF Active, ActiveStates, Live

LEMMA SlotsConfirm ==
  ASSUME TypeOK, TypeOK', SlotsOK, NEW p \in Permits, ConfirmReconciled(p) PROVE SlotsOK'
  <1>1. /\ state[p] \in {"authorized", "dispatching", "unknown"}
        /\ state' = [state EXCEPT ![p] = "confirmed"]
        /\ UNCHANGED <<resv, row, probeOf, binding>>
    BY DEF ConfirmReconciled, resVars
  <1> QED
    BY <1>1, ActiveFrame DEF Active, ActiveStates

LEMMA SlotsRecord ==
  ASSUME TypeOK, TypeOK', SlotsOK, CallOK, RecordAdd PROVE SlotsOK'
  <1> DEFINE p == call.permit
  <1>1. p \in Permits /\ UNCHANGED <<resv, row, probeOf, binding>>
    BY DEF RecordAdd, CallOK, TypeOK, resVars
  <1>2. CASE state[p] # "dispatching"
    BY <1>1, <1>2, Frame DEF RecordAdd
  <1>3. CASE state[p] = "dispatching"
    <2>1. resv[row[p].res] # "cancelled" /\ Active(p)
      BY <1>1, <1>3 DEF SlotsOK, CancelledHasNoUse, Active, ActiveStates
    <2>2. \/ state' = [state EXCEPT ![p] = "confirmed"]
          \/ state' = [state EXCEPT ![p] = "unknown"]
      BY <1>3 DEF RecordAdd, Outcome
    <2> QED
      BY <1>1, <1>3, <2>1, <2>2, ActiveFrame DEF ActiveStates
  <1> QED
    BY <1>2, <1>3

\* A new row for a reservation that is open; sources may be superseded with it.
LEMMA RowsInsert ==
  ASSUME TypeOK, SlotsOK, NEW p \in Permits, state[p] = "free",
         NEW source \in Source, NEW parent \in Permits \cup {NoPermit},
         row' = [row EXCEPT ![p] = source], probeOf' = [probeOf EXCEPT ![p] = parent],
         UNCHANGED <<resv, binding>>,
         <<source.res, source.scope>> \in Slots, Live(source.res),
         parent # NoPermit => LiveProbes /\ source.scope # Pack,
         state'[p] = "authorized",
         \A q \in Permits \ {p} : \/ state'[q] = state[q]
                                  \/ /\ state[q] = "confirmed" /\ probeOf[q] = NoPermit
                                     /\ state'[q] = "superseded"
  PROVE  RowOK' /\ CancelledHasNoUse'
  <1> USE DEF SlotsOK
  <1>1. /\ row'[p] = source /\ probeOf'[p] = parent /\ binding'[p] = {}
        /\ \A q \in Permits \ {p} : row'[q] = row[q] /\ probeOf'[q] = probeOf[q]
    BY DEF TypeOK, RowOK
  <1>2. RowOK'
    <2>1. ASSUME NEW q \in Permits \ {p} PROVE Exists(q)' = Exists(q)
      BY DEF Exists
    <2>2. Exists(p)'
      BY DEF Exists
    <2> QED
      BY <1>1, <2>1, <2>2 DEF RowOK, IsPack, Live
  <1>3. CancelledHasNoUse'
    BY <1>1 DEF CancelledHasNoUse, Active, ActiveStates, Live
  <1> QED
    BY <1>2, <1>3

LEMMA SlotsIssue ==
  ASSUME TypeOK, TypeOK', SlotsOK, NEW p \in Permits, NEW r \in Reservations,
         NEW s \in Scopes, NEW h \in Hashes, Issue(p, r, s, h)
  PROVE  SlotsOK'
  <1> DEFINE source == [res |-> r, scope |-> s, hash |-> h]
  <1>1. /\ state[p] = "free" /\ state' = [state EXCEPT ![p] = "authorized"]
        /\ row' = [row EXCEPT ![p] = source] /\ probeOf' = [probeOf EXCEPT ![p] = NoPermit]
        /\ UNCHANGED <<resv, binding>>
        /\ <<r, s>> \in Slots /\ Live(r)
        /\ \A q \in SlotRows(r, s) : ~ Primary(q)
        /\ \A q \in RowsOf(r) : Active(q) => s \notin binding[q]
    BY DEF Issue, Insert, Admitted, SlotFree
  <1>2. /\ state'[p] = "authorized" /\ row'[p] = source /\ probeOf'[p] = NoPermit
        /\ binding'[p] = {} /\ ~ Active(p)
        /\ \A q \in Permits \ {p} : /\ state'[q] = state[q] /\ row'[q] = row[q]
                                    /\ probeOf'[q] = probeOf[q] /\ binding'[q] = binding[q]
    <2>1. binding[p] = {}
      BY <1>1 DEF SlotsOK, RowOK
    <2> QED
      BY <1>1, <2>1 DEF TypeOK, Active, ActiveStates
  <1>3. source \in Source
    BY DEF Source
  <1>4. RowOK' /\ CancelledHasNoUse'
    BY <1>1, <1>2, <1>3, RowsInsert
  <1>5. \A q \in Permits \ {p} : /\ Primary(q)' <=> Primary(q)
                                 /\ Active(q)' <=> Active(q)
    BY <1>2 DEF Primary, Active
  <1>6. \A q \in Permits \ {p} : Primary(q) /\ row[q].res = r =>
            row[q].scope # s /\ s \notin binding[q]
    BY <1>1 DEF SlotRows, RowsOf, Primary, Active, Exists, ActiveStates
  <1>7. SlotExclusive'
    BY <1>2, <1>5, <1>6 DEF SlotsOK, SlotExclusive, SameSlot, Covers
  <1>8. ProbeAnchored'
    <2> SUFFICES ASSUME NEW q \in Permits \ {p}, Active(q), probeOf[q] # NoPermit,
                        NEW o, o = probeOf[q]
                 PROVE  /\ state'[o] = "confirmed" /\ probeOf'[o] = NoPermit
                        /\ row'[o].res = row[q].res /\ row'[o].scope = row[q].scope
                        /\ ProbesOf(o)' = {q}
      BY <1>2, <1>5 DEF ProbeAnchored, SameSlot
    <2>1. /\ state[o] = "confirmed" /\ probeOf[o] = NoPermit /\ SameSlot(o, q)
          /\ ProbesOf(o) = {q}
      BY DEF SlotsOK, ProbeAnchored
    <2>2. o \in Permits \ {p}
      BY <1>1, <2>1 DEF TypeOK
    <2>3. ProbesOf(o)' = {q}
      BY <1>2, <1>5, <2>1, <2>2, PermitAssumption DEF ProbesOf
    <2> QED
      BY <1>2, <2>1, <2>2, <2>3 DEF SameSlot
  <1> QED
    BY <1>4, <1>7, <1>8 DEF SlotsOK

\* The candidate is an active row, but never its slot's primary source.
LEMMA SlotsIssueProbe ==
  ASSUME TypeOK, TypeOK', SlotsOK, NEW old \in Permits, NEW new \in Permits,
         NEW h \in Hashes, IssueProbe(old, new, h)
  PROVE  SlotsOK'
  <1> DEFINE source == [res |-> row[old].res, scope |-> row[old].scope, hash |-> h]
  <1>1. /\ state[new] = "free" /\ state' = [state EXCEPT ![new] = "authorized"]
        /\ row' = [row EXCEPT ![new] = source] /\ probeOf' = [probeOf EXCEPT ![new] = old]
        /\ UNCHANGED <<resv, binding>>
        /\ LiveProbes /\ ~ IsPack(old) /\ Live(row[old].res)
        /\ state[old] = "confirmed" /\ probeOf[old] = NoPermit /\ ProbesOf(old) = {}
    BY DEF IssueProbe, Insert, Admitted, Probeable
  <1>2. /\ state'[new] = "authorized" /\ row'[new] = source /\ probeOf'[new] = old
        /\ binding'[new] = {} /\ ~ Active(new)
        /\ \A q \in Permits \ {new} : /\ state'[q] = state[q] /\ row'[q] = row[q]
                                      /\ probeOf'[q] = probeOf[q] /\ binding'[q] = binding[q]
    <2>1. binding[new] = {}
      BY <1>1 DEF SlotsOK, RowOK
    <2> QED
      BY <1>1, <2>1 DEF TypeOK, Active, ActiveStates
  <1>3. /\ source \in Source /\ <<source.res, source.scope>> \in Slots
        /\ source.scope # Pack /\ old # new
    BY <1>1 DEF SlotsOK, RowOK, Exists, Source, IsPack
  <1>4. RowOK' /\ CancelledHasNoUse'
    BY <1>1, <1>2, <1>3, RowsInsert
  <1>5. \A q \in Permits \ {new} : /\ Primary(q)' <=> Primary(q)
                                   /\ Active(q)' <=> Active(q)
    BY <1>2 DEF Primary, Active
  <1>6. ~ Primary(new)'
    BY <1>2, PermitAssumption DEF Primary
  <1>7. SlotExclusive'
    BY <1>2, <1>5, <1>6 DEF SlotsOK, SlotExclusive, SameSlot, Covers
  <1>8. ProbeAnchored'
    <2>1. ProbesOf(old)' = {new}
      BY <1>1, <1>2, <1>5 DEF ProbesOf, Active, ActiveStates
    <2>2. ASSUME NEW q \in Permits \ {new}, Active(q), probeOf[q] # NoPermit,
                 NEW o, o = probeOf[q]
          PROVE  /\ state'[o] = "confirmed" /\ probeOf'[o] = NoPermit
                 /\ row'[o].res = row[q].res /\ row'[o].scope = row[q].scope
                 /\ ProbesOf(o)' = {q}
      <3>1. /\ state[o] = "confirmed" /\ probeOf[o] = NoPermit /\ SameSlot(o, q)
            /\ ProbesOf(o) = {q}
        BY <2>2 DEF SlotsOK, ProbeAnchored
      <3>2. o \in Permits \ {new, old}
        BY <1>1, <2>2, <3>1 DEF TypeOK
      <3>3. ProbesOf(o)' = {q}
        BY <1>2, <1>5, <3>1, <3>2 DEF ProbesOf
      <3> QED
        BY <1>2, <3>1, <3>2, <3>3 DEF SameSlot
    <2>3. /\ state'[old] = "confirmed" /\ probeOf'[old] = NoPermit
          /\ row'[old] = row[old]
      BY <1>1, <1>2, <1>3
    <2>4. SUFFICES ASSUME NEW q \in Permits, Active(q)', probeOf'[q] # NoPermit,
                          NEW o, o = probeOf'[q]
                   PROVE  /\ state'[o] = "confirmed" /\ probeOf'[o] = NoPermit
                          /\ row'[o].res = row'[q].res /\ row'[o].scope = row'[q].scope
                          /\ ProbesOf(o)' = {q}
      BY DEF ProbeAnchored, SameSlot
    <2>5. CASE q = new
      BY <1>2, <2>1, <2>3, <2>4, <2>5
    <2>6. CASE q # new
      BY <1>2, <1>5, <2>2, <2>4, <2>6
    <2> QED
      BY <2>5, <2>6
  <1> QED
    BY <1>4, <1>7, <1>8 DEF SlotsOK

\* Without live probes every active row is a primary source, and the new one takes the
\* place of the one it replaces.
LEMMA SlotsReplace ==
  ASSUME TypeOK, TypeOK', SlotsOK, NEW old \in Permits, NEW new \in Permits,
         NEW h \in Hashes, Replace(old, new, h)
  PROVE  SlotsOK'
  <1> DEFINE source == [res |-> row[old].res, scope |-> row[old].scope, hash |-> h]
  <1>1. /\ state[new] = "free"
        /\ state' = [state EXCEPT ![old] = "superseded", ![new] = "authorized"]
        /\ row' = [row EXCEPT ![new] = source] /\ probeOf' = [probeOf EXCEPT ![new] = NoPermit]
        /\ UNCHANGED <<resv, binding>>
        /\ ~ LiveProbes /\ ~ IsPack(old) /\ Live(row[old].res)
        /\ state[old] = "confirmed" /\ probeOf[old] = NoPermit
    BY DEF Replace, Insert, Admitted
  <1>2. /\ state'[new] = "authorized" /\ row'[new] = source /\ probeOf'[new] = NoPermit
        /\ binding'[new] = {} /\ old # new /\ state'[old] = "superseded"
        /\ row'[old] = row[old]
        /\ \A q \in Permits \ {old, new} : /\ state'[q] = state[q] /\ row'[q] = row[q]
                                           /\ probeOf'[q] = probeOf[q]
                                           /\ binding'[q] = binding[q]
    <2>1. binding[new] = {}
      BY <1>1 DEF SlotsOK, RowOK
    <2> QED
      BY <1>1, <2>1 DEF TypeOK
  <1>3. /\ source \in Source /\ <<source.res, source.scope>> \in Slots
    BY <1>1 DEF SlotsOK, RowOK, Exists, Source, IsPack
  <1>4. RowOK' /\ CancelledHasNoUse'
    BY <1>1, <1>2, <1>3, RowsInsert
  <1>5. \A q \in Permits : q # new /\ Primary(q)' => q # old /\ Primary(q)
    BY <1>2 DEF Primary, Active, ActiveStates
  <1>6. /\ Primary(old) /\ binding[old] = {}
        /\ \A q \in Permits \ {old} : Primary(q) =>
               /\ ~ SameSlot(q, old)
               /\ row[q].res = row[old].res /\ row[old].scope \in Episodes =>
                      row[old].scope \notin binding[q]
    <2>1. Primary(old)
      BY <1>1 DEF Primary, Active, ActiveStates
    <2>2. binding[old] = {}
      BY <1>1 DEF SlotsOK, RowOK, Exists, IsPack
    <2> QED
      BY <2>1, <2>2 DEF SlotsOK, SlotExclusive, SameSlot, Covers
  <1>7. SlotExclusive'
    <2>1. ASSUME NEW q \in Permits \ {old, new}, Primary(q)' PROVE ~ SameSlot(q, new)'
      BY <1>2, <1>5, <1>6, <2>1 DEF SameSlot
    <2>2. ASSUME NEW q \in Permits \ {old, new}, Primary(q)', NEW e \in Episodes,
                 Covers(q, e)', Covers(new, e)', row'[q].res = row'[new].res
          PROVE  FALSE
      BY <1>2, <1>5, <1>6, <2>2 DEF SameSlot, Covers
    <2>3. ~ Primary(old)'
      BY <1>2 DEF Primary, Active, ActiveStates
    <2>4. ASSUME NEW q \in Permits \ {old, new}, NEW t \in Permits \ {old, new},
                 Primary(q)', Primary(t)', q # t
          PROVE  /\ ~ SameSlot(q, t)'
                 /\ \A e \in Episodes : Covers(q, e)' /\ Covers(t, e)' =>
                        row'[q].res # row'[t].res
      BY <1>2, <1>5, <2>4 DEF SlotsOK, SlotExclusive, SameSlot, Covers
    <2> QED
      BY <2>1, <2>2, <2>3, <2>4 DEF SlotExclusive, SameSlot
  <1>8. ProbeAnchored'
    <2>1. \A q \in Permits : probeOf[q] = NoPermit
      BY <1>1 DEF SlotsOK, RowOK
    <2>2. \A q \in Permits : probeOf'[q] = NoPermit
      BY <1>1, <2>1 DEF TypeOK
    <2> QED
      BY <2>2 DEF ProbeAnchored
  <1> QED
    BY <1>4, <1>7, <1>8 DEF SlotsOK

\* Every other source of the bound episodes is stalled, probe-free and superseded here.
LEMMA SlotsBindPack ==
  ASSUME TypeOK, TypeOK', SlotsOK, WorkerOK, NEW p \in Permits,
         NEW E \in SUBSET Episodes, NEW olds \in SUBSET Permits, BindPack(p, E, olds)
  PROVE  SlotsOK'
  <1> DEFINE r == row[p].res
  <1>1. /\ worker.task = "bind" /\ worker.permit = p
        /\ binding' = [binding EXCEPT ![p] = E]
        /\ \A q \in Permits : state'[q] = IF q \in olds THEN "superseded" ELSE state[q]
        /\ UNCHANGED <<resv, row, probeOf>>
        /\ \A q \in RowsOf(r) \ {p}, e \in E : Active(q) /\ Covers(q, e) => q \in olds
        /\ \A old \in olds : /\ state[old] = "confirmed" /\ probeOf[old] = NoPermit
                            /\ ProbesOf(old) = {} /\ old # p
    BY DEF BindPack, Recoverable, Loose
  <1>2. IsPack(p) /\ Exists(p)
    BY <1>1 DEF WorkerOK
  <1>3. \A q \in Permits : Active(q)' => Active(q) /\ q \notin olds /\ state'[q] = state[q]
    BY <1>1 DEF Active, ActiveStates
  <1>4. RowOK'
    <2>1. \A q \in Permits : /\ Exists(q)' <=> Exists(q)
                             /\ state'[q] = "free" => state[q] = "free" /\ q # p
                             /\ q # p => binding'[q] = binding[q]
                             /\ state'[q] = "superseded" =>
                                    probeOf[q] = NoPermit \/ state[q] = "superseded"
      BY <1>1, <1>2 DEF Exists, TypeOK
    <2> QED
      BY <1>1, <1>2, <2>1 DEF SlotsOK, RowOK, IsPack
  <1>5. CancelledHasNoUse'
    BY <1>1, <1>3 DEF SlotsOK, CancelledHasNoUse
  <1>6. ProbeAnchored'
    <2> SUFFICES ASSUME NEW q \in Permits, Active(q)', probeOf[q] # NoPermit,
                        NEW o, o = probeOf[q]
                 PROVE  /\ state'[o] = "confirmed" /\ probeOf[o] = NoPermit
                        /\ SameSlot(o, q) /\ ProbesOf(o)' = {q}
      BY <1>1 DEF ProbeAnchored, SameSlot
    <2>1. /\ state[o] = "confirmed" /\ probeOf[o] = NoPermit /\ SameSlot(o, q)
          /\ ProbesOf(o) = {q} /\ o \in Permits
      BY <1>3 DEF SlotsOK, ProbeAnchored, TypeOK
    <2>2. o \notin olds
      BY <1>1, <2>1
    <2>3. ProbesOf(o)' = {q}
      BY <1>1, <1>3, <2>1 DEF ProbesOf
    <2> QED
      BY <1>1, <2>1, <2>2, <2>3
  <1>7. \A q \in Permits : Primary(q)' => Primary(q) /\ q \notin olds
    BY <1>1, <1>3 DEF Primary
  <1>8. SlotExclusive'
    <2>1. ASSUME NEW q \in Permits, NEW t \in Permits, Primary(q)', Primary(t)', SameSlot(q, t)'
          PROVE  q = t
      BY <1>1, <1>7, <2>1 DEF SlotsOK, SlotExclusive, SameSlot
    <2>2. ASSUME NEW q \in Permits \ {p}, NEW e \in Episodes, Primary(q)', Covers(q, e)',
                 Covers(p, e)', row'[q].res = row'[p].res
          PROVE  FALSE
      <3>1. e \in E
        BY <1>1, <1>2, <2>2, MediaAssumption DEF Covers, IsPack, TypeOK
      <3>2. Covers(q, e)
        BY <1>1, <2>2 DEF Covers, TypeOK
      <3>3. q \in RowsOf(r) \ {p} /\ Active(q)
        BY <1>1, <1>7, <2>2 DEF RowsOf, Primary, Active, Exists, ActiveStates
      <3> QED
        BY <1>1, <1>7, <2>2, <3>1, <3>2, <3>3
    <2>3. ASSUME NEW q \in Permits \ {p}, NEW t \in Permits \ {p}, NEW e \in Episodes,
                 Primary(q)', Covers(q, e)', Primary(t)', Covers(t, e)', row'[q].res = row'[t].res
          PROVE  q = t
      BY <1>1, <1>7, <2>3 DEF SlotsOK, SlotExclusive, Covers, TypeOK
    <2> QED
      BY <2>1, <2>2, <2>3 DEF SlotExclusive
  <1> QED
    BY <1>4, <1>5, <1>6, <1>8 DEF SlotsOK

\* The candidate takes the slot, and the bytes, of the source it was measured against.
LEMMA SlotsPromote ==
  ASSUME TypeOK, TypeOK', SlotsOK, NEW p \in Permits, Promote(p) PROVE SlotsOK'
  <1> DEFINE o == probeOf[p]
  <1>1. /\ state[p] = "confirmed" /\ o # NoPermit /\ state[o] = "confirmed"
        /\ probeOf[o] = NoPermit
        /\ state' = [state EXCEPT ![o] = "superseded"]
        /\ probeOf' = [probeOf EXCEPT ![p] = NoPermit]
        /\ UNCHANGED <<resv, row, binding>>
    BY DEF Promote, GivesWay
  <1>2. /\ SameSlot(o, p) /\ ProbesOf(o) = {p} /\ o \in Permits /\ o # p
        /\ ~ IsPack(p) /\ binding[p] = {} /\ binding[o] = {} /\ Primary(o)
    <2>1. Active(p) /\ Active(o)
      BY <1>1 DEF Active, ActiveStates
    <2>2. /\ SameSlot(o, p) /\ ProbesOf(o) = {p} /\ o \in Permits /\ o # p /\ Primary(o)
      BY <1>1, <2>1 DEF SlotsOK, ProbeAnchored, TypeOK, Primary
    <2>3. /\ ~ IsPack(p) /\ binding[p] = {}
      BY <1>1 DEF SlotsOK, RowOK, Exists
    <2>4. binding[o] = {}
      BY <1>1, <2>2, <2>3 DEF SlotsOK, RowOK, Exists, IsPack, SameSlot
    <2> QED
      BY <2>2, <2>3, <2>4
  <1>3. /\ state'[o] = "superseded" /\ probeOf'[p] = NoPermit /\ state'[p] = "confirmed"
        /\ \A q \in Permits \ {o} : state'[q] = state[q]
        /\ \A q \in Permits \ {p} : probeOf'[q] = probeOf[q]
    BY <1>1, <1>2 DEF TypeOK
  <1>4. RowOK'
    <2>1. \A q \in Permits : Exists(q)' <=> Exists(q)
      BY <1>1, <1>2, <1>3 DEF Exists
    <2> QED
      BY <1>1, <1>2, <1>3, <2>1 DEF SlotsOK, RowOK, IsPack
  <1>5. CancelledHasNoUse'
    BY <1>1, <1>3 DEF SlotsOK, CancelledHasNoUse, Active, ActiveStates
  <1>6. \A q \in Permits : Active(q)' => Active(q) /\ q # o
    BY <1>3 DEF Active, ActiveStates
  <1>7. ProbeAnchored'
    <2> SUFFICES ASSUME NEW q \in Permits \ {p}, Active(q)', probeOf[q] # NoPermit,
                        NEW x, x = probeOf[q]
                 PROVE  /\ state'[x] = "confirmed" /\ probeOf'[x] = NoPermit
                        /\ SameSlot(x, q) /\ ProbesOf(x)' = {q}
      BY <1>1, <1>3 DEF ProbeAnchored, SameSlot
    <2>1. /\ state[x] = "confirmed" /\ probeOf[x] = NoPermit /\ SameSlot(x, q)
          /\ ProbesOf(x) = {q} /\ x \in Permits
      BY <1>6 DEF SlotsOK, ProbeAnchored, TypeOK
    <2>2. x # o /\ x # p
      BY <1>1, <1>2, <2>1
    <2>3. ProbesOf(x)' = {q}
      BY <1>3, <1>6, <2>1, <2>2, PermitAssumption DEF ProbesOf, Active
    <2> QED
      BY <1>3, <2>1, <2>2, <2>3
  <1>8. \A q \in Permits : Primary(q)' => q # o /\ (q = p \/ Primary(q))
    BY <1>3, <1>6 DEF Primary
  <1>9. SlotExclusive'
    <2>1. ASSUME NEW q \in Permits, Primary(q)', SameSlot(q, p)' PROVE q = p
      BY <1>1, <1>2, <1>8, <2>1 DEF SlotsOK, SlotExclusive, SameSlot
    <2>2. ASSUME NEW q \in Permits, NEW e \in Episodes, Primary(q)', Covers(q, e)',
                 Covers(p, e)', row'[q].res = row'[p].res
          PROVE  q = p
      BY <1>1, <1>2, <1>8, <2>2 DEF SlotsOK, SlotExclusive, SameSlot, Covers
    <2>3. ASSUME NEW q \in Permits \ {p}, NEW t \in Permits \ {p}, Primary(q)', Primary(t)'
          PROVE  /\ SameSlot(q, t)' => q = t
                 /\ \A e \in Episodes : Covers(q, e)' /\ Covers(t, e)'
                                         /\ row'[q].res = row'[t].res => q = t
      BY <1>1, <1>8, <2>3 DEF SlotsOK, SlotExclusive, SameSlot, Covers
    <2> QED
      BY <2>1, <2>2, <2>3 DEF SlotExclusive, SameSlot
  <1> QED
    BY <1>4, <1>5, <1>7, <1>9 DEF SlotsOK

-----------------------------------------------------------------------------
(* The call in flight and the worker's task *)

\* The worker's steps leave the row of the call in flight where it was, or reject it
\* as a probe, and do not end the reservation a plain permit is dispatched for.
LEMMA CallKept ==
  ASSUME TypeOK, CallOK, call' = call,
         call.permit \in Permits /\ call.phase # "idle" =>
             LET p == call.permit IN
             /\ \/ state'[p] = state[p]
                \/ state'[p] = "probe_rejected" /\ probeOf[p] # NoPermit
             /\ row'[p] = row[p] /\ probeOf'[p] = probeOf[p]
             /\ ~ Guarded(p) => resv'[row[p].res] = resv[row[p].res]
  PROVE  CallOK'
  <1> DEFINE p == call.permit
  <1>1. CASE call.phase = "idle"
    BY <1>1 DEF CallOK
  <1>2. CASE call.phase # "idle"
    <2>1. p \in Permits
      BY <1>2 DEF CallOK, TypeOK
    <2>2. Guarded(p)' <=> Guarded(p)
      BY <1>2, <2>1 DEF Guarded, IsPack
    <2> QED
      BY <1>2, <2>1, <2>2 DEF CallOK, Live, Guarded
  <1> QED
    BY <1>1, <1>2

LEMMA CallAcquire == IInv /\ Acquire => CallOK'
  <1> SUFFICES ASSUME IInv, Acquire PROVE CallOK'
    OBVIOUS
  <1> USE DEF IInv
  <1> DEFINE c == call.permit
  <1>0. c \in Permits /\ call.phase # "idle" =>
            /\ state[c] \in {"dispatching", "probe_rejected"} /\ Exists(c)
            /\ row[c].res \in Reservations /\ resv[row[c].res] # "none"
    BY DEF CallOK, RowOK, Exists, Source
  <1>1. ASSUME NEW r \in Reservations, Reserve(r) PROVE CallOK'
    BY <1>0, <1>1, CallKept DEF Reserve, permitVars, TypeOK
  <1>2. ASSUME NEW r \in Reservations, CancelUnstarted(r) PROVE CallOK'
    <2>1. c \in Permits /\ call.phase # "idle" => state'[c] = state[c]
      BY <1>0, <1>2 DEF CancelUnstarted, TypeOK, RowsOf
    <2>2. c \in Permits /\ call.phase # "idle" => resv'[row[c].res] = resv[row[c].res]
      BY <1>0, <1>2 DEF CancelUnstarted, TypeOK, RowsOf
    <2> QED
      BY <1>2, <2>1, <2>2, CallKept DEF CancelUnstarted
  <1>3. ASSUME NEW p \in Permits, NEW r \in Reservations, NEW s \in Scopes,
               NEW h \in Hashes, Issue(p, r, s, h)
        PROVE CallOK'
    BY <1>0, <1>3, CallKept DEF Issue, Insert, TypeOK
  <1>4. ASSUME NEW p \in Permits, NEW E \in SUBSET Episodes, NEW olds \in SUBSET Permits,
               BindPack(p, E, olds)
        PROVE CallOK'
    BY <1>0, <1>4, CallKept DEF BindPack, Recoverable, Loose
  <1>5. ASSUME NEW r \in Reservations, NEW s \in Scopes, RetireExpired(r, s) PROVE CallOK'
    BY <1>0, <1>5, CallKept DEF RetireExpired, DeleteRows, Stale
  <1>6. ASSUME NEW old \in Permits, NEW new \in Permits, NEW h \in Hashes,
               Replace(old, new, h)
        PROVE CallOK'
    BY <1>0, <1>6, CallKept DEF Replace, Insert, TypeOK
  <1>7. ASSUME NEW old \in Permits, NEW new \in Permits, NEW h \in Hashes,
               IssueProbe(old, new, h)
        PROVE CallOK'
    BY <1>0, <1>7, CallKept DEF IssueProbe, Insert, TypeOK
  <1>8. ASSUME NEW p \in Permits, CancelUnbound(p) PROVE CallOK'
    BY <1>0, <1>8, CallKept DEF CancelUnbound, CancelAuthorized, DeleteRows
  <1>9. ASSUME NEW p \in Permits, Renew(p) PROVE CallOK'
    BY <1>9, CallKept DEF Renew, resVars
  <1>10. ASSUME NEW p \in Permits, ReadProbe(p) PROVE CallOK'
    BY <1>10, CallKept DEF ReadProbe, resVars, permitVars
  <1>11. ASSUME NEW p \in Permits, WorkerReject(p) PROVE CallOK'
    BY <1>11, CallKept DEF WorkerReject, RejectRow, TypeOK
  <1> QED
    BY <1>1, <1>2, <1>3, <1>4, <1>5, <1>6, <1>7, <1>8, <1>9, <1>10, <1>11 DEF Acquire

LEMMA CallImport == IInv /\ Import => CallOK'
  <1> SUFFICES ASSUME IInv, Import PROVE CallOK'
    OBVIOUS
  <1> USE DEF IInv
  <1> DEFINE c == call.permit
  <1>1. ASSUME NEW p \in Permits, NEW s \in Scopes, ReadSource(p, s) PROVE CallOK'
    BY <1>1, CallKept DEF ReadSource, resVars, permitVars
  <1>2. ASSUME NEW p \in Permits, NEW s \in Scopes, CompleteImport(p, s) PROVE CallOK'
    <2>1. SUFFICES ASSUME c \in Permits, call.phase # "idle", ~ Guarded(c),
                          resv'[row[c].res] # resv[row[c].res]
                   PROVE  FALSE
      BY <1>2, CallKept DEF CompleteImport, permitVars
    <2>2. /\ row[c].res \in Movies /\ row[c].res = KeyOf(p, s)
          /\ state[p] = "confirmed" /\ probeOf[p] = NoPermit
      <3>1. row[c].res \in Reservations
        BY <2>1 DEF CallOK, Guarded, RowOK, Exists, Source
      <3> QED
        BY <1>2, <2>1, <3>1 DEF CompleteImport, TypeOK
    <2>3. state[c] = "dispatching" /\ probeOf[c] = NoPermit
      BY <2>1 DEF CallOK, Guarded
    <2>4. Primary(p) /\ Primary(c) /\ Exists(p) /\ Exists(c)
      BY <2>2, <2>3 DEF Primary, Active, ActiveStates, Exists
    <2>5. row[c].scope = NoScope
      BY <2>1, <2>2, <2>4, MediaAssumption DEF RowOK, Slots
    <2>6. row[p].res = row[c].res /\ row[p].scope = NoScope
      <3>1. row[p].res \in Reservations /\ <<row[p].res, row[p].scope>> \in Slots
        BY <2>4 DEF RowOK, Source
      <3>2. CASE s = NoScope
        <4>1. row[p].scope = NoScope
          BY <1>2, <3>2, MediaAssumption DEF CompleteImport, Serves, TypeOK
        <4> QED
          BY <2>2, <3>2, <4>1 DEF KeyOf
      <3>3. CASE s # NoScope
        <4>1. s \in Episodes
          <5>1. CASE IsPack(p)
            BY <1>2, <5>1 DEF CompleteImport, Serves, TypeOK
          <5>2. CASE ~ IsPack(p)
            BY <1>2, <3>1, <3>3, <5>2 DEF CompleteImport, Serves, Slots, IsPack
          <5> QED
            BY <5>1, <5>2
        <4> QED
          BY <2>2, <3>3, <4>1, MediaAssumption DEF KeyOf
      <3> QED
        BY <3>2, <3>3
    <2> QED
      BY <2>1, <2>2, <2>3, <2>4, <2>5, <2>6 DEF SlotExclusive, SameSlot
  <1>3. ASSUME NEW copy \in BOOLEAN, ClaimImport(copy) PROVE CallOK'
    BY <1>3, CallKept DEF ClaimImport, resVars, permitVars
  <1>4. ASSUME RecordImport PROVE CallOK'
    BY <1>4, CallKept DEF RecordImport, resVars, permitVars
  <1> QED
    BY <1>1, <1>2, <1>3, <1>4 DEF Import

LEMMA CallDelete == IInv /\ Delete => CallOK'
  <1> SUFFICES ASSUME IInv, Delete PROVE CallOK'
    OBVIOUS
  <1> USE DEF IInv
  <1> DEFINE c == call.permit
  <1>0. c \in Permits /\ call.phase # "idle" =>
            state[c] \in {"dispatching", "probe_rejected"}
    BY DEF CallOK
  <1>1. ASSUME NEW r \in Reservations, NEW s \in Scopes, TombstoneItem(r, s) PROVE CallOK'
    BY <1>1, CallKept DEF TombstoneItem, resVars, permitVars
  <1>2. ASSUME NEW r \in Reservations, NEW s \in Scopes, NEW p \in Permits,
               DeleteSource(r, s, p)
        PROVE CallOK'
    BY <1>2, CallKept DEF DeleteSource, resVars, permitVars
  <1>3. ASSUME NEW r \in Reservations, TombstoneSeason(r) PROVE CallOK'
    BY <1>3, CallKept DEF TombstoneSeason, resVars, permitVars
  <1>4. ASSUME NEW r \in Reservations, CancelSeasonRequest(r) PROVE CallOK'
    BY <1>4, CallKept DEF CancelSeasonRequest, permitVars
  <1>5. ASSUME NEW r \in Reservations, StartPurge(r) PROVE CallOK'
    BY <1>5, CallKept DEF StartPurge, resVars, permitVars
  <1>6. ASSUME NEW p \in Permits, PurgeUnused(p) PROVE CallOK'
    BY <1>0, <1>6, CallKept DEF PurgeUnused, CancelAuthorized, DeleteRows
  <1>7. ASSUME NEW p \in Permits, PurgeSource(p) PROVE CallOK'
    BY <1>7, CallKept DEF PurgeSource, resVars, permitVars
  <1>8. ASSUME CloseSeason PROVE CallOK'
    <2>1. SUFFICES ASSUME c \in Permits, call.phase # "idle", ~ Guarded(c),
                          resv'[row[c].res] # resv[row[c].res]
                   PROVE  FALSE
      BY <1>8, CallKept DEF CloseSeason, permitVars
    <2>2. state[c] = "dispatching" /\ Exists(c)
      BY <2>1 DEF CallOK, Exists
    <2>3. row[c].res = worker.res
      BY <1>8, <2>1, <2>2 DEF CloseSeason, TypeOK, RowOK, Source
    <2> QED
      BY <1>8, <2>1, <2>2, <2>3 DEF CloseSeason, WorkerOK, RowsOf
  <1> QED
    BY <1>1, <1>2, <1>3, <1>4, <1>5, <1>6, <1>7, <1>8 DEF Delete

LEMMA CallServe == IInv /\ Serve => CallOK'
  <1> SUFFICES ASSUME IInv, Serve PROVE CallOK'
    OBVIOUS
  <1> USE DEF IInv
  <1>1. ASSUME NEW p \in Permits, Claim(p) PROVE CallOK'
    <2>1. /\ call'.permit = p /\ call'.phase = "claimed" /\ p # NoPermit
          /\ state'[p] = "dispatching" /\ Live(row[p].res)'
      BY <1>1, PermitAssumption DEF Claim, Resolvable, TypeOK, resVars, Live
    <2> QED
      BY <2>1 DEF CallOK
  <1>2. ASSUME NEW p \in Permits,
               ConfirmReconciled(p) \/ Promote(p) \/ CompleteHandover(p) \/ GatewayReject(p)
        PROVE CallOK'
    <2>1. call = NoCall /\ call' = call
      BY <1>2 DEF ConfirmReconciled, Promote, CompleteHandover, GatewayReject, GatewayFree
    <2> QED
      BY <2>1 DEF CallOK, NoCall
  <1>3. ASSUME AddTorrent \/ AddFails PROVE CallOK'
    <2>1. /\ call.phase = "claimed" /\ call'.permit = call.permit
          /\ call'.phase \in {"added", "failed"}
          /\ UNCHANGED <<state, row, probeOf, resv>>
      BY <1>3 DEF AddTorrent, AddFails, TypeOK, resVars, permitVars
    <2> QED
      BY <2>1 DEF CallOK, Guarded, IsPack, Live
  <1>4. ASSUME RecordAdd PROVE CallOK'
    BY <1>4 DEF RecordAdd, CallOK, NoCall
  <1> QED
    BY <1>1, <1>2, <1>3, <1>4 DEF Serve

LEMMA CallEnvironment == IInv /\ Environment => CallOK'
  <1> SUFFICES ASSUME IInv, Environment PROVE CallOK'
    OBVIOUS
  <1> USE DEF IInv
  <1>1. ASSUME NEW p \in Permits, Expire(p) PROVE CallOK'
    BY <1>1, CallKept DEF Expire, resVars
  <1>2. ASSUME WorkerAbort \/ WorkerRestart PROVE CallOK'
    BY <1>2, CallKept DEF WorkerAbort, WorkerRestart, resVars, permitVars
  <1>3. ASSUME GatewayCrash PROVE CallOK'
    BY <1>3 DEF GatewayCrash, CallOK, NoCall
  <1> QED
    BY <1>1, <1>2, <1>3 DEF Environment

\* What the gateway and time do between two steps of the worker's task.
LEMMA WorkerKept ==
  ASSUME TypeOK, WorkerOK, UNCHANGED <<worker, row>>,
         \A p \in Permits : /\ Exists(p)' <=> Exists(p)
                            /\ state'[p] = "revoked" => state[p] = "revoked"
                            /\ state'[p] \in {"authorized", "dispatching", "unknown"} =>
                                  state[p] \in {"authorized", "dispatching", "unknown"}
  PROVE  WorkerOK'
  <1>1. RowsOf(worker.res)' = RowsOf(worker.res)
    BY DEF RowsOf
  <1>2. worker.permit \in Permits /\ state[worker.permit] \notin {"free", "deleted", "revoked"} =>
            state'[worker.permit] \notin {"free", "deleted", "revoked"}
    BY DEF Exists
  <1>3. ASSUME NEW p \in RowsOf(worker.res) \ worker.left,
               state[p] \notin {"authorized", "dispatching", "unknown"}
        PROVE  state'[p] \notin {"authorized", "dispatching", "unknown"}
    BY <1>3 DEF RowsOf
  <1> QED
    BY <1>1, <1>2, <1>3 DEF WorkerOK, IsPack

\* A worker that has nothing left to do owes nothing.
LEMMA WorkerIdle == worker' = NoTask => WorkerOK'
  BY DEF WorkerOK, NoTask, Task

LEMMA WorkerAcquire == IInv /\ Acquire => WorkerOK'
  <1> SUFFICES ASSUME IInv, Acquire PROVE WorkerOK'
    OBVIOUS
  <1>1. ASSUME NEW p \in Permits, NEW r \in Reservations, NEW s \in Scopes,
               NEW h \in Hashes, Issue(p, r, s, h)
        PROVE WorkerOK'
    <2>1. CASE s # Pack
      BY <1>1, <2>1, WorkerIdle DEF Issue
    <2>2. CASE s = Pack
      <3>1. worker' = Task("bind", p, Pack)
        BY <1>1, <2>2 DEF Issue
      <3>2. state'[p] = "authorized" /\ row'[p].scope = Pack
        BY <1>1, <2>2 DEF Issue, Insert, IInv, TypeOK
      <3> QED
        BY <3>1, <3>2 DEF WorkerOK, Task, Exists, IsPack
    <2> QED
      BY <2>1, <2>2
  <1>2. ASSUME NEW p \in Permits, ReadProbe(p) PROVE WorkerOK'
    BY <1>2 DEF ReadProbe, WorkerOK, Task, permitVars
  <1>3. CASE worker' = NoTask
    BY <1>3, WorkerIdle
  <1> QED
    BY <1>1, <1>2, <1>3 DEF Acquire, Reserve, CancelUnstarted, BindPack, RetireExpired,
       Replace, IssueProbe, CancelUnbound, Renew, WorkerReject, WorkerFree

LEMMA WorkerImport == IInv /\ Import => WorkerOK'
  <1> SUFFICES ASSUME IInv, Import PROVE WorkerOK'
    OBVIOUS
  <1>1. ASSUME NEW p \in Permits, NEW s \in Scopes, ReadSource(p, s) PROVE WorkerOK'
    BY <1>1 DEF ReadSource, WorkerOK, Task, permitVars
  <1>2. ASSUME NEW copy \in BOOLEAN, ClaimImport(copy) PROVE WorkerOK'
    BY <1>2 DEF ClaimImport, IInv, WorkerOK, Task, permitVars
  <1>3. CASE worker' = NoTask
    BY <1>3, WorkerIdle
  <1> QED
    BY <1>1, <1>2, <1>3 DEF Import, CompleteImport, RecordImport, WorkerFree

LEMMA WorkerDelete == IInv /\ Delete => WorkerOK'
  <1> SUFFICES ASSUME IInv, Delete PROVE WorkerOK'
    OBVIOUS
  <1> USE DEF IInv
  <1>1. ASSUME NEW r \in Reservations, StartPurge(r) PROVE WorkerOK'
    <2>1. /\ worker'.task = "purge" /\ worker'.res = r
          /\ worker'.left = {p \in RowsOf(r) : state[p] # "revoked"}
          /\ UNCHANGED <<state, row>> /\ r \in Seasons
      BY <1>1 DEF StartPurge, permitVars, Inventory
    <2>2. RowsOf(r)' = RowsOf(r)
      BY <2>1 DEF RowsOf, Exists
    <2> QED
      BY <2>1, <2>2 DEF WorkerOK
  <1>2. ASSUME NEW p \in Permits, PurgeUnused(p) PROVE WorkerOK'
    <2>1. /\ worker.task = "purge" /\ worker'.task = "purge"
          /\ worker'.res = worker.res /\ worker'.left = worker.left \ {p}
          /\ state'[p] = "deleted"
          /\ \A q \in Permits \ {p} : state'[q] = state[q] /\ row'[q] = row[q]
      BY <1>2 DEF PurgeUnused, CancelAuthorized, DeleteRows, TypeOK
    <2>2. \A q \in RowsOf(worker.res)' : q # p /\ q \in RowsOf(worker.res)
      BY <2>1 DEF RowsOf, Exists
    <2> QED
      BY <2>1, <2>2 DEF WorkerOK, RowsOf
  <1>3. ASSUME NEW p \in Permits, PurgeSource(p) PROVE WorkerOK'
    <2>1. /\ worker.task = "purge" /\ worker'.task = "purge"
          /\ worker'.res = worker.res /\ worker'.left = worker.left \ {p}
          /\ UNCHANGED <<state, row>>
          /\ state[p] \in {"confirmed", "superseded", "probe_rejected"}
      BY <1>3 DEF PurgeSource, Removable, TypeOK, permitVars
    <2>2. RowsOf(worker.res)' = RowsOf(worker.res)
      BY <2>1 DEF RowsOf, Exists
    <2> QED
      BY <2>1, <2>2 DEF WorkerOK
  <1>4. CASE worker' = NoTask
    BY <1>4, WorkerIdle
  <1>5. ASSUME CloseSeason PROVE WorkerOK'
    BY <1>5, WorkerIdle DEF CloseSeason
  <1> QED
    BY <1>1, <1>2, <1>3, <1>4, <1>5 DEF Delete, TombstoneItem, DeleteSource,
       TombstoneSeason, CancelSeasonRequest, WorkerFree

LEMMA WorkerServe == IInv /\ Serve => WorkerOK'
  <1> SUFFICES ASSUME IInv, Serve PROVE WorkerOK'
    OBVIOUS
  <1> USE DEF IInv
  <1>1. ASSUME NEW p \in Permits, Claim(p) PROVE WorkerOK'
    BY <1>1, WorkerKept DEF Claim, Resolvable, Exists, TypeOK
  <1>2. ASSUME NEW p \in Permits, ConfirmReconciled(p) PROVE WorkerOK'
    BY <1>2, WorkerKept DEF ConfirmReconciled, Exists, TypeOK
  <1>3. ASSUME NEW p \in Permits, Promote(p) PROVE WorkerOK'
    BY <1>3, WorkerKept DEF Promote, Exists, TypeOK, GivesWay
  <1>4. ASSUME NEW p \in Permits, CompleteHandover(p) PROVE WorkerOK'
    BY <1>4, WorkerKept DEF CompleteHandover, Exists
  <1>5. ASSUME NEW p \in Permits, GatewayReject(p) PROVE WorkerOK'
    BY <1>5, WorkerKept DEF GatewayReject, RejectRow, Exists, TypeOK
  <1>6. ASSUME AddTorrent \/ AddFails PROVE WorkerOK'
    BY <1>6, WorkerKept DEF AddTorrent, AddFails, Exists, permitVars
  <1>7. ASSUME RecordAdd PROVE WorkerOK'
    <2>1. /\ UNCHANGED <<worker, row>>
          /\ \A p \in Permits : \/ state'[p] = state[p]
                               \/ /\ state[p] = "dispatching"
                                  /\ state'[p] \in {"confirmed", "unknown"}
      BY <1>7 DEF RecordAdd, TypeOK, Outcome
    <2> QED
      BY <2>1, WorkerKept DEF Exists
  <1> QED
    BY <1>1, <1>2, <1>3, <1>4, <1>5, <1>6, <1>7 DEF Serve

LEMMA WorkerEnvironment == IInv /\ Environment => WorkerOK'
  <1> SUFFICES ASSUME IInv, Environment PROVE WorkerOK'
    OBVIOUS
  <1>1. ASSUME NEW p \in Permits, Expire(p) PROVE WorkerOK'
    BY <1>1, WorkerKept DEF IInv, Expire, Exists
  <1>2. ASSUME WorkerAbort \/ WorkerRestart PROVE WorkerOK'
    BY <1>2, WorkerIdle DEF WorkerAbort, WorkerRestart
  <1>3. ASSUME GatewayCrash PROVE WorkerOK'
    BY <1>3, WorkerKept DEF IInv, GatewayCrash, Exists, permitVars
  <1> QED
    BY <1>1, <1>2, <1>3 DEF Environment

-----------------------------------------------------------------------------
(* The inductive invariant *)

LEMMA SlotsStep == IInv /\ TypeOK' /\ Next => SlotsOK'
  <1> SUFFICES ASSUME IInv, TypeOK', Next PROVE SlotsOK'
    OBVIOUS
  <1> USE DEF IInv
  <1>0. SlotsOK
    BY DEF SlotsOK
  <1>1. CASE Acquire
    <2>1. ASSUME NEW r \in Reservations, Reserve(r) \/ CancelUnstarted(r) PROVE SlotsOK'
      BY <1>0, <2>1, SlotsReserve, SlotsCancelUnstarted
    <2>2. ASSUME NEW p \in Permits, NEW r \in Reservations, NEW s \in Scopes,
                 NEW h \in Hashes, Issue(p, r, s, h)
          PROVE SlotsOK'
      BY <1>0, <2>2, SlotsIssue
    <2>3. ASSUME NEW p \in Permits, NEW E \in SUBSET Episodes, NEW olds \in SUBSET Permits,
                 BindPack(p, E, olds)
          PROVE SlotsOK'
      BY <1>0, <2>3, SlotsBindPack
    <2>4. ASSUME NEW r \in Reservations, NEW s \in Scopes, RetireExpired(r, s) PROVE SlotsOK'
      <3> DEFINE S == {p \in SlotRows(r, s) : state[p] = "authorized" /\ p \in expired}
      <3>1. S \in SUBSET Permits
        BY DEF SlotRows, RowsOf
      <3>2. DeleteRows(S) /\ UNCHANGED <<resv, binding>>
        BY <2>4 DEF RetireExpired, Stale
      <3> QED
        BY <1>0, <3>1, <3>2, SlotsDelete
    <2>5. ASSUME NEW old \in Permits, NEW new \in Permits, NEW h \in Hashes,
                 Replace(old, new, h) \/ IssueProbe(old, new, h)
          PROVE SlotsOK'
      BY <1>0, <2>5, SlotsReplace, SlotsIssueProbe
    <2>6. ASSUME NEW p \in Permits, CancelUnbound(p) PROVE SlotsOK'
      BY <1>0, <2>6, SlotsDelete, {p} \in SUBSET Permits
         DEF CancelUnbound, CancelAuthorized, TypeOK
    <2>7. ASSUME NEW p \in Permits, Renew(p) \/ ReadProbe(p) PROVE SlotsOK'
      BY <1>0, <2>7, Frame DEF Renew, ReadProbe, resVars, permitVars
    <2>8. ASSUME NEW p \in Permits, WorkerReject(p) PROVE SlotsOK'
      BY <1>0, <2>8, SlotsReject DEF WorkerReject
    <2> QED
      BY <1>1, <2>1, <2>2, <2>3, <2>4, <2>5, <2>6, <2>7, <2>8 DEF Acquire
  <1>2. CASE Import
    <2>1. ASSUME NEW p \in Permits, NEW s \in Scopes, ReadSource(p, s) PROVE SlotsOK'
      BY <1>0, <2>1, Frame DEF ReadSource, resVars, permitVars
    <2>2. ASSUME NEW p \in Permits, NEW s \in Scopes, CompleteImport(p, s) PROVE SlotsOK'
      BY <1>0, <2>2, SlotsComplete
    <2>3. ASSUME NEW copy \in BOOLEAN, ClaimImport(copy) PROVE SlotsOK'
      BY <1>0, <2>3, Frame DEF ClaimImport, resVars, permitVars
    <2>4. ASSUME RecordImport PROVE SlotsOK'
      BY <1>0, <2>4, Frame DEF RecordImport, resVars, permitVars
    <2> QED
      BY <1>2, <2>1, <2>2, <2>3, <2>4 DEF Import
  <1>3. CASE Delete
    <2>1. ASSUME NEW p \in Permits, PurgeUnused(p) PROVE SlotsOK'
      BY <1>0, <2>1, SlotsDelete, {p} \in SUBSET Permits
         DEF PurgeUnused, CancelAuthorized, TypeOK
    <2>2. ASSUME CloseSeason PROVE SlotsOK'
      BY <1>0, <2>2, SlotsClose
    <2>3. CASE UNCHANGED <<resv, state, row, probeOf, binding>>
      BY <1>0, <2>3, Frame
    <2> QED
      BY <1>3, <2>1, <2>2, <2>3 DEF Delete, TombstoneItem, DeleteSource, TombstoneSeason,
         CancelSeasonRequest, StartPurge, PurgeSource, resVars, permitVars
  <1>4. CASE Serve
    <2>1. ASSUME NEW p \in Permits, Claim(p) \/ ConfirmReconciled(p) \/ Promote(p)
          PROVE SlotsOK'
      BY <1>0, <2>1, SlotsClaim, SlotsConfirm, SlotsPromote
    <2>2. ASSUME NEW p \in Permits, CompleteHandover(p) PROVE SlotsOK'
      BY <1>0, <2>2, Frame DEF CompleteHandover
    <2>3. ASSUME NEW p \in Permits, GatewayReject(p) PROVE SlotsOK'
      BY <1>0, <2>3, SlotsReject DEF GatewayReject
    <2>4. ASSUME AddTorrent \/ AddFails PROVE SlotsOK'
      BY <1>0, <2>4, Frame DEF AddTorrent, AddFails, resVars, permitVars
    <2>5. ASSUME RecordAdd PROVE SlotsOK'
      BY <1>0, <2>5, SlotsRecord
    <2> QED
      BY <1>4, <2>1, <2>2, <2>3, <2>4, <2>5 DEF Serve
  <1>5. CASE Environment
    BY <1>0, <1>5, Frame DEF Environment, Expire, WorkerAbort, WorkerRestart, GatewayCrash,
       resVars, permitVars
  <1> QED
    BY <1>1, <1>2, <1>3, <1>4, <1>5 DEF Next

LEMMA InitIInv == Init => IInv
  BY TypeInit, PermitAssumption DEF Init, IInv, RowOK, CallOK, WorkerOK, SlotExclusive,
     ProbeAnchored, CancelledHasNoUse, Exists, Primary, Active, ActiveStates, NoCall, NoTask,
     Task

LEMMA NextIInv == IInv /\ [Next]_vars => IInv'
  <1>1. IInv /\ Next => TypeOK'
    BY TypeAcquire, TypeImport, TypeDelete, TypeServe, TypeEnvironment DEF IInv, Next
  <1>2. IInv /\ Next => CallOK'
    BY CallAcquire, CallImport, CallDelete, CallServe, CallEnvironment DEF Next
  <1>3. IInv /\ Next => WorkerOK'
    BY WorkerAcquire, WorkerImport, WorkerDelete, WorkerServe, WorkerEnvironment DEF Next
  <1>4. IInv /\ Next => IInv'
    BY <1>1, <1>2, <1>3, SlotsStep DEF IInv, SlotsOK
  <1>5. IInv /\ UNCHANGED vars => IInv'
    BY DEF IInv, TypeOK, RowOK, CallOK, WorkerOK, SlotExclusive, ProbeAnchored,
       CancelledHasNoUse, Exists, Primary, Active, Covers, SameSlot, ProbesOf, IsPack,
       Guarded, Live, RowsOf, vars
  <1> QED
    BY <1>4, <1>5

\* Every reachable state of the controller satisfies the inductive invariant.
THEOREM Invariance == Spec => []IInv
  BY InitIInv, NextIInv, PTL DEF Spec

\* Type correctness, for every number of titles, episodes, torrents and permits.
THEOREM TypeCorrect == Spec => []TypeOK
  <1>1. IInv => TypeOK
    BY DEF IInv
  <1> QED
    BY <1>1, Invariance, PTL

\* No slot ever has two active sources, by row or by a pack's binding.
THEOREM SlotsAreExclusive == Spec => []SlotExclusive
  <1>1. IInv => SlotExclusive
    BY DEF IInv
  <1> QED
    BY <1>1, Invariance, PTL

\* Every probe hangs from the confirmed source of its slot.
THEOREM ProbesAreAnchored == Spec => []ProbeAnchored
  <1>1. IInv => ProbeAnchored
    BY DEF IInv
  <1> QED
    BY <1>1, Invariance, PTL

\* A cancelled reservation keeps no permit that could still be dispatched.
THEOREM CancelledIsUnused == Spec => []CancelledHasNoUse
  <1>1. IInv => CancelledHasNoUse
    BY DEF IInv
  <1> QED
    BY <1>1, Invariance, PTL

-----------------------------------------------------------------------------
(* What a step never does *)

\* Only the gateway's effect adds a torrent.
LEMMA OnlyAddAdds == Next /\ torrents' \ torrents # {} => AddTorrent
  BY DEF Next, Acquire, Import, Delete, Serve, Environment, Reserve, CancelUnstarted, Issue,
     BindPack, RetireExpired, Replace, IssueProbe, CancelUnbound, Renew, ReadProbe,
     WorkerReject, ReadSource, ClaimImport, RecordImport, CompleteImport, TombstoneItem,
     DeleteSource, TombstoneSeason, CancelSeasonRequest, StartPurge, PurgeUnused,
     PurgeSource, CloseSeason, Claim, ConfirmReconciled, Promote, CompleteHandover,
     GatewayReject, AddFails, RecordAdd, Expire, WorkerAbort, WorkerRestart, GatewayCrash

\* A torrent is added for a row in dispatch and an open reservation, and a probe or a
\* pack only while its media is wanted, whatever the worker did since the claim.
THEOREM AddsAreAdmitted == Spec => AddIsAdmitted
  <1> DEFINE p == call.permit
             r == row[p].res
  <1>1. ASSUME IInv, Next, torrents' \ torrents # {}
        PROVE  /\ state[p] \in {"dispatching", "probe_rejected"} /\ Live(r)
               /\ Guarded(p) => /\ request[r] \notin {"cancel_requested", "cancelled"}
                                /\ <<r, NoScope>> \notin tombstone
                                /\ \A e \in Episodes : Covers(p, e) => <<r, e>> \notin tombstone
    <2>1. call.phase = "claimed" /\ (Guarded(p) => GuardNow(p))
      BY <1>1, OnlyAddAdds DEF AddTorrent
    <2>2. /\ p \in Permits /\ state[p] \in {"dispatching", "probe_rejected"} /\ Exists(p)
          /\ ~ Guarded(p) => Live(r)
      BY <1>1, <2>1 DEF IInv, CallOK, TypeOK, Exists
    <2>3. CASE ~ Guarded(p)
      BY <2>2, <2>3
    <2>4. CASE IsPack(p)
      BY <2>1, <2>2, <2>4 DEF Guarded, GuardNow, PackOK, GuardOK
    <2>5. CASE Guarded(p) /\ ~ IsPack(p)
      <3>1. GuardOK(r, row[p].scope) /\ binding[p] = {}
        BY <1>1, <2>1, <2>2, <2>5 DEF GuardNow, IInv, RowOK
      <3> QED
        BY <2>2, <3>1 DEF GuardOK, Covers
    <2> QED
      BY <2>3, <2>4, <2>5
  <1>2. IInv /\ [Next]_vars =>
          [ torrents' \ torrents # {} =>
              /\ state[p] \in {"dispatching", "probe_rejected"} /\ Live(r)
              /\ Guarded(p) => /\ request[r] \notin {"cancel_requested", "cancelled"}
                               /\ <<r, NoScope>> \notin tombstone
                               /\ \A e \in Episodes :
                                     Covers(p, e) => <<r, e>> \notin tombstone ]_vars
    BY <1>1
  <1> QED
    BY <1>2, Invariance, PTL DEF Spec, AddIsAdmitted

\* A permit is born authorized, is never authorized or dispatched twice, and stays in
\* the final state it reaches.
THEOREM PermitsAreSingleUse == Spec => SingleUse
  <1> DEFINE Used(p) == /\ state'[p] = "authorized" => state[p] \in {"free", "authorized"}
                        /\ state'[p] = "dispatching" => state[p] \in {"authorized", "dispatching"}
                        /\ state[p] \in Dead => state'[p] = state[p]
  <1>1. ASSUME IInv, Next, NEW p \in Permits PROVE Used(p)
    <2>0. state \in [Permits -> PermitStates] /\ WorkerOK /\ RowOK
      BY <1>1 DEF IInv, TypeOK
    <2> USE <2>0 DEF Dead
    <2>1. ASSUME NEW q \in Permits, RejectRow(q), state[q] \notin {"revoked", "superseded"}
          PROVE  Used(p)
      BY <2>1 DEF RejectRow, Exists
    <2>2. ASSUME NEW S \in SUBSET Permits, DeleteRows(S), \A q \in S : state[q] = "authorized"
          PROVE  Used(p)
      BY <2>2 DEF DeleteRows
    <2>3. ASSUME NEW q \in Permits, CancelAuthorized(q) PROVE Used(p)
      BY <2>2, <2>3, {q} \in SUBSET Permits DEF CancelAuthorized
    <2>4. CASE Acquire
      <3>1. ASSUME NEW r \in Reservations, CancelUnstarted(r) PROVE Used(p)
        BY <3>1 DEF CancelUnstarted
      <3>2. ASSUME NEW q \in Permits, NEW r \in Reservations, NEW s \in Scopes,
                   NEW h \in Hashes, Issue(q, r, s, h)
            PROVE  Used(p)
        BY <3>2 DEF Issue, Insert
      <3>3. ASSUME NEW q \in Permits, NEW E \in SUBSET Episodes, NEW olds \in SUBSET Permits,
                   BindPack(q, E, olds)
            PROVE  Used(p)
        BY <3>3 DEF BindPack, Recoverable, Loose
      <3>4. ASSUME NEW r \in Reservations, NEW s \in Scopes, RetireExpired(r, s) PROVE Used(p)
        <4> DEFINE S == {q \in SlotRows(r, s) : state[q] = "authorized" /\ q \in expired}
        <4>1. S \in SUBSET Permits /\ DeleteRows(S) /\ \A q \in S : state[q] = "authorized"
          BY <3>4 DEF RetireExpired, SlotRows, RowsOf, Stale
        <4> HIDE DEF S
        <4> QED
          BY <2>2, <4>1
      <3>5. ASSUME NEW old \in Permits, NEW new \in Permits, NEW h \in Hashes,
                   Replace(old, new, h) \/ IssueProbe(old, new, h)
            PROVE  Used(p)
        <4>1. /\ state[new] = "free" /\ state[old] = "confirmed"
              /\ \/ state' = [state EXCEPT ![old] = "superseded", ![new] = "authorized"]
                 \/ state' = [state EXCEPT ![new] = "authorized"]
          BY <3>5 DEF Replace, IssueProbe, Insert
        <4> QED
          BY <4>1
      <3>6. ASSUME NEW q \in Permits, WorkerReject(q) PROVE Used(p)
        <4>1. state[q] \notin {"revoked", "superseded"}
          <5>1. worker.task = "reject" /\ worker.permit = q /\ probeOf[q] # NoPermit
            BY <3>6 DEF WorkerReject, RejectRow
          <5> QED
            BY <5>1 DEF WorkerOK, RowOK
        <4> QED
          BY <2>1, <3>6, <4>1 DEF WorkerReject
      <3>7. ASSUME NEW q \in Permits, CancelUnbound(q) PROVE Used(p)
        BY <2>3, <3>7 DEF CancelUnbound
      <3>8. CASE state' = state
        BY <3>8
      <3> QED
        BY <2>4, <3>1, <3>2, <3>3, <3>4, <3>5, <3>6, <3>7, <3>8
           DEF Acquire, Reserve, Renew, ReadProbe, permitVars
    <2>5. CASE Serve
      <3>1. ASSUME NEW q \in Permits, Claim(q) PROVE Used(p)
        BY <3>1 DEF Claim, Resolvable
      <3>2. ASSUME NEW q \in Permits, ConfirmReconciled(q) PROVE Used(p)
        BY <3>2 DEF ConfirmReconciled
      <3>3. ASSUME NEW q \in Permits, Promote(q) PROVE Used(p)
        BY <3>3 DEF Promote, GivesWay
      <3>4. ASSUME NEW q \in Permits, GatewayReject(q) PROVE Used(p)
        BY <2>1, <3>4 DEF GatewayReject, Active, ActiveStates
      <3>5. ASSUME RecordAdd PROVE Used(p)
        BY <3>5 DEF RecordAdd, Outcome
      <3>6. CASE state' = state
        BY <3>6
      <3> QED
        BY <2>5, <3>1, <3>2, <3>3, <3>4, <3>5, <3>6
           DEF Serve, CompleteHandover, AddTorrent, AddFails, permitVars
    <2>6. CASE state' = state
      BY <2>6
    <2>7. ASSUME NEW q \in Permits, PurgeUnused(q) PROVE Used(p)
      BY <2>3, <2>7 DEF PurgeUnused
    <2> QED
      BY <1>1, <2>4, <2>5, <2>6, <2>7 DEF Next, Import, Delete, Environment, ReadSource,
         CompleteImport, ClaimImport, RecordImport, TombstoneItem, DeleteSource,
         TombstoneSeason, CancelSeasonRequest, StartPurge, PurgeSource, CloseSeason,
         Expire, WorkerAbort, WorkerRestart, GatewayCrash, permitVars
  <1>2. IInv /\ [Next]_vars => [\A p \in Permits : Used(p)]_vars
    BY <1>1
  <1> QED
    BY <1>2, Invariance, PTL DEF Spec, SingleUse

\* A confirmed source leaves its slot only by a replacement, a promotion or a pack's
\* recovery, and each of them looks for the import row in its own transaction.
LEMMA ImportedStays ==
  ASSUME IInv, Next, NEW p \in Permits, Primary(p), state[p] = "confirmed", ImportStarted(p)
  PROVE  state'[p] = "confirmed"
  <1>0. state \in [Permits -> PermitStates] /\ probeOf[p] = NoPermit
    BY DEF IInv, TypeOK, Primary
  <1>1. ASSUME NEW S \in SUBSET Permits, DeleteRows(S), \A q \in S : state[q] = "authorized"
        PROVE  state'[p] = "confirmed"
    BY <1>1 DEF DeleteRows
  <1>2. ASSUME NEW q \in Permits, CancelAuthorized(q) PROVE state'[p] = "confirmed"
    BY <1>1, <1>2, {q} \in SUBSET Permits DEF CancelAuthorized
  <1>3. ASSUME NEW q \in Permits, RejectRow(q) PROVE state'[p] = "confirmed"
    BY <1>0, <1>3 DEF RejectRow
  <1>4. CASE Acquire
    <2>1. ASSUME NEW r \in Reservations, CancelUnstarted(r) PROVE state'[p] = "confirmed"
      BY <1>0, <2>1 DEF CancelUnstarted
    <2>2. ASSUME NEW q \in Permits, NEW r \in Reservations, NEW s \in Scopes,
                 NEW h \in Hashes, Issue(q, r, s, h)
          PROVE  state'[p] = "confirmed"
      BY <1>0, <2>2 DEF Issue, Insert
    <2>3. ASSUME NEW q \in Permits, NEW E \in SUBSET Episodes, NEW olds \in SUBSET Permits,
                 BindPack(q, E, olds)
          PROVE  state'[p] = "confirmed"
      BY <1>0, <2>3 DEF BindPack, Recoverable, Loose
    <2>4. ASSUME NEW r \in Reservations, NEW s \in Scopes, RetireExpired(r, s)
          PROVE  state'[p] = "confirmed"
      <3>1. /\ Stale(r, s) \in SUBSET Permits /\ DeleteRows(Stale(r, s))
            /\ \A q \in Stale(r, s) : state[q] = "authorized"
        BY <2>4 DEF RetireExpired, SlotRows, RowsOf, Stale
      <3> QED
        BY <1>1, <3>1
    <2>5. ASSUME NEW old \in Permits, NEW new \in Permits, NEW h \in Hashes, Replace(old, new, h)
          PROVE  state'[p] = "confirmed"
      BY <1>0, <2>5 DEF Replace, Insert, Replaceable
    <2>6. ASSUME NEW old \in Permits, NEW new \in Permits, NEW h \in Hashes,
                 IssueProbe(old, new, h)
          PROVE  state'[p] = "confirmed"
      BY <1>0, <2>6 DEF IssueProbe, Insert
    <2>7. ASSUME NEW q \in Permits, WorkerReject(q) \/ CancelUnbound(q)
          PROVE  state'[p] = "confirmed"
      BY <1>2, <1>3, <2>7 DEF WorkerReject, CancelUnbound
    <2> QED
      BY <1>4, <2>1, <2>2, <2>3, <2>4, <2>5, <2>6, <2>7
         DEF Acquire, Reserve, Renew, ReadProbe, permitVars
  <1>5. CASE Serve
    <2>1. ASSUME NEW q \in Permits, Claim(q) PROVE state'[p] = "confirmed"
      BY <1>0, <2>1 DEF Claim, Resolvable
    <2>2. ASSUME NEW q \in Permits, ConfirmReconciled(q) PROVE state'[p] = "confirmed"
      BY <1>0, <2>2 DEF ConfirmReconciled
    <2>3. ASSUME NEW q \in Permits, Promote(q) PROVE state'[p] = "confirmed"
      BY <1>0, <2>3 DEF Promote, GivesWay
    <2>4. ASSUME NEW q \in Permits, GatewayReject(q) PROVE state'[p] = "confirmed"
      BY <1>3, <2>4 DEF GatewayReject
    <2>5. ASSUME RecordAdd PROVE state'[p] = "confirmed"
      BY <1>0, <2>5 DEF RecordAdd
    <2> QED
      BY <1>5, <2>1, <2>2, <2>3, <2>4, <2>5
         DEF Serve, CompleteHandover, AddTorrent, AddFails, permitVars
  <1>6. ASSUME NEW q \in Permits, PurgeUnused(q) PROVE state'[p] = "confirmed"
    BY <1>2, <1>6 DEF PurgeUnused
  <1> QED
    BY <1>4, <1>5, <1>6 DEF Next, Import, Delete, Environment, ReadSource,
       CompleteImport, ClaimImport, RecordImport, TombstoneItem, DeleteSource,
       TombstoneSeason, CancelSeasonRequest, StartPurge, PurgeSource, CloseSeason,
       Expire, WorkerAbort, WorkerRestart, GatewayCrash, permitVars

\* A source whose import has begun keeps its slot, whatever the gateway and the worker
\* decided from an older reading of it.
THEOREM ImportsPinTheirSource == Spec => ImportPinsSource
  <1>1. IInv /\ [Next]_vars =>
          [\A p \in Permits :
             Primary(p) /\ state[p] = "confirmed" /\ ImportStarted(p)
               => state'[p] = "confirmed"]_vars
    BY ImportedStays
  <1> QED
    BY <1>1, Invariance, PTL DEF Spec, ImportPinsSource

-----------------------------------------------------------------------------
(* What qBittorrent holds is on record *)

\* Once a permit was used its row stays, whatever is retired, withdrawn or purged.
LEMMA SpentStays ==
  ASSUME IInv, Next, NEW p \in Permits, Spent(p)
  PROVE  Spent(p)' /\ row'[p] = row[p]
  <1> DEFINE Kept == state'[p] \notin {"free", "deleted", "authorized", "revoked"}
                     /\ row'[p] = row[p]
  <1>0. /\ state \in [Permits -> PermitStates]
        /\ row \in [Permits -> Source \cup {NoSource}]
        /\ state[p] \notin {"free", "deleted", "authorized", "revoked"}
    BY DEF IInv, TypeOK, Spent, Exists
  <1> SUFFICES Kept
    BY DEF Spent, Exists
  <1>1. ASSUME NEW S \in SUBSET Permits, DeleteRows(S), \A q \in S : state[q] = "authorized"
        PROVE  Kept
    BY <1>0, <1>1 DEF DeleteRows
  <1>2. ASSUME NEW q \in Permits, CancelAuthorized(q) PROVE Kept
    BY <1>1, <1>2, {q} \in SUBSET Permits DEF CancelAuthorized
  <1>3. ASSUME NEW q \in Permits, RejectRow(q) PROVE Kept
    BY <1>0, <1>3 DEF RejectRow
  <1>4. CASE Acquire
    <2>1. ASSUME NEW r \in Reservations, CancelUnstarted(r) PROVE Kept
      BY <1>0, <2>1 DEF CancelUnstarted, RowsOf
    <2>2. ASSUME NEW q \in Permits, NEW r \in Reservations, NEW s \in Scopes,
                 NEW h \in Hashes, Issue(q, r, s, h)
          PROVE  Kept
      BY <1>0, <2>2 DEF Issue, Insert
    <2>3. ASSUME NEW q \in Permits, NEW E \in SUBSET Episodes, NEW olds \in SUBSET Permits,
                 BindPack(q, E, olds)
          PROVE  Kept
      BY <1>0, <2>3 DEF BindPack
    <2>4. ASSUME NEW r \in Reservations, NEW s \in Scopes, RetireExpired(r, s) PROVE Kept
      <3>1. /\ Stale(r, s) \in SUBSET Permits /\ DeleteRows(Stale(r, s))
            /\ \A q \in Stale(r, s) : state[q] = "authorized"
        BY <2>4 DEF RetireExpired, SlotRows, RowsOf, Stale
      <3> QED
        BY <1>1, <3>1
    <2>5. ASSUME NEW old \in Permits, NEW new \in Permits, NEW h \in Hashes, Replace(old, new, h)
          PROVE  Kept
      BY <1>0, <2>5 DEF Replace, Insert
    <2>6. ASSUME NEW old \in Permits, NEW new \in Permits, NEW h \in Hashes,
                 IssueProbe(old, new, h)
          PROVE  Kept
      BY <1>0, <2>6 DEF IssueProbe, Insert
    <2>7. ASSUME NEW q \in Permits, WorkerReject(q) \/ CancelUnbound(q) PROVE Kept
      BY <1>2, <1>3, <2>7 DEF WorkerReject, CancelUnbound
    <2>8. CASE UNCHANGED <<state, row>>
      BY <1>0, <2>8
    <2> QED
      BY <1>4, <2>1, <2>2, <2>3, <2>4, <2>5, <2>6, <2>7, <2>8
         DEF Acquire, Reserve, Renew, ReadProbe, permitVars
  <1>5. CASE Serve
    <2>1. ASSUME NEW q \in Permits, Claim(q) PROVE Kept
      BY <1>0, <2>1 DEF Claim
    <2>2. ASSUME NEW q \in Permits, ConfirmReconciled(q) PROVE Kept
      BY <1>0, <2>2 DEF ConfirmReconciled
    <2>3. ASSUME NEW q \in Permits, Promote(q) PROVE Kept
      BY <1>0, <2>3 DEF Promote
    <2>4. ASSUME NEW q \in Permits, GatewayReject(q) PROVE Kept
      BY <1>3, <2>4 DEF GatewayReject
    <2>5. ASSUME RecordAdd PROVE Kept
      BY <1>0, <2>5 DEF RecordAdd, Outcome
    <2>6. CASE UNCHANGED <<state, row>>
      BY <1>0, <2>6
    <2> QED
      BY <1>5, <2>1, <2>2, <2>3, <2>4, <2>5, <2>6
         DEF Serve, CompleteHandover, AddTorrent, AddFails, permitVars
  <1>6. ASSUME NEW q \in Permits, PurgeUnused(q) PROVE Kept
    BY <1>2, <1>6 DEF PurgeUnused
  <1>7. CASE UNCHANGED <<state, row>>
    BY <1>0, <1>7
  <1> QED
    BY <1>4, <1>5, <1>6, <1>7 DEF Next, Import, Delete, Environment, ReadSource,
       CompleteImport, ClaimImport, RecordImport, TombstoneItem, DeleteSource,
       TombstoneSeason, CancelSeasonRequest, StartPurge, PurgeSource, CloseSeason,
       Expire, WorkerAbort, WorkerRestart, GatewayCrash, permitVars

\* No torrent is in qBittorrent without the row of the permit that was spent on it, whatever
\* answer of qBittorrent is lost, whenever the gateway dies and whatever is retired.
THEOREM TorrentsAreOnRecord == Spec => []EveryTorrentIsOnRecord
  <1>1. Init => EveryTorrentIsOnRecord
    BY DEF Init, EveryTorrentIsOnRecord
  <1>2. ASSUME IInv, EveryTorrentIsOnRecord, Next PROVE EveryTorrentIsOnRecord'
    <2>1. ASSUME NEW h \in torrents PROVE \E p \in Permits : row'[p].hash = h /\ Spent(p)'
      <3>1. PICK p \in Permits : row[p].hash = h /\ Spent(p)
        BY <1>2 DEF EveryTorrentIsOnRecord
      <3> QED
        BY <1>2, <3>1, SpentStays
    <2>2. ASSUME NEW h \in torrents' \ torrents
          PROVE  \E p \in Permits : row'[p].hash = h /\ Spent(p)'
      <3>1. AddTorrent
        BY <1>2, OnlyAddAdds
      <3>2. /\ call.permit \in Permits /\ row[call.permit].hash = h
            /\ state[call.permit] \in {"dispatching", "probe_rejected"}
        BY <1>2, <3>1 DEF AddTorrent, IInv, CallOK, TypeOK
      <3>3. Spent(call.permit)
        BY <3>2 DEF Spent, Exists
      <3> QED
        BY <1>2, <3>2, <3>3, SpentStays
    <2> QED
      BY <2>1, <2>2 DEF EveryTorrentIsOnRecord
  <1>3. EveryTorrentIsOnRecord /\ UNCHANGED vars => EveryTorrentIsOnRecord'
    BY DEF EveryTorrentIsOnRecord, Spent, Exists, vars
  <1>4. IInv /\ EveryTorrentIsOnRecord /\ [Next]_vars => EveryTorrentIsOnRecord'
    BY <1>2, <1>3
  <1> QED
    BY <1>1, <1>4, Invariance, PTL DEF Spec

-----------------------------------------------------------------------------
(* Pending handovers *)

\* Only a promotion begins a handover, and it is not redirected afterwards.
LEMMA HandoverBegins ==
  ASSUME TypeOK, Next, NEW c \in Permits, Pending(c)'
  PROVE  Promote(c) \/ handover'[c] = handover[c]
  <1>1. CASE handover' = handover
    BY <1>1
  <1>2. ASSUME NEW q \in Permits, Promote(q) \/ CompleteHandover(q)
        PROVE  Promote(c) \/ handover'[c] = handover[c]
    BY <1>2 DEF Promote, CompleteHandover, Pending, TypeOK
  <1> QED
    BY <1>1, <1>2 DEF Next, Acquire, Import, Delete, Serve, Environment, Reserve, CancelUnstarted,
       Issue, BindPack, RetireExpired, Replace, IssueProbe, CancelUnbound, Renew, ReadProbe,
       WorkerReject, RejectRow, ReadSource, ClaimImport, RecordImport, CompleteImport,
       TombstoneItem, DeleteSource, TombstoneSeason, CancelSeasonRequest, StartPurge,
       PurgeUnused, PurgeSource, CloseSeason, Claim, ConfirmReconciled, GatewayReject,
       AddTorrent, AddFails, RecordAdd, Expire, WorkerAbort, WorkerRestart, GatewayCrash,
       permitVars

\* The candidate of a pending handover keeps its slot, and is not probed, replaced or
\* taken over by a pack before the old source has stopped.
LEMMA CandidateStays ==
  ASSUME IInv, HInv, Next, NEW c \in Permits, Pending(c)
  PROVE  state'[c] = "confirmed" /\ probeOf'[c] = NoPermit /\ ProbesOf(c)' = {}
  <1> DEFINE Quiet == \A q \in Permits : state'[q] \in ActiveStates /\ probeOf'[q] = c => FALSE
             Kept == state'[c] = "confirmed" /\ probeOf'[c] = NoPermit /\ Quiet
  <1>0. /\ state \in [Permits -> PermitStates] /\ probeOf \in [Permits -> Permits \cup {NoPermit}]
        /\ state[c] = "confirmed" /\ probeOf[c] = NoPermit /\ LiveProbes /\ c # NoPermit
        /\ \A q \in Permits : state[q] \in ActiveStates => probeOf[q] # c
    BY PermitAssumption DEF IInv, HInv, HandoverSound, TypeOK, ProbesOf, Active
  <1> SUFFICES Kept
    BY DEF ProbesOf, Active
  <1>1. ASSUME NEW S \in SUBSET Permits, DeleteRows(S), \A q \in S : state[q] = "authorized"
        PROVE  Kept
    BY <1>0, <1>1 DEF DeleteRows, ActiveStates
  <1>2. ASSUME NEW q \in Permits, CancelAuthorized(q) PROVE Kept
    BY <1>1, <1>2, {q} \in SUBSET Permits DEF CancelAuthorized
  <1>3. ASSUME NEW q \in Permits, RejectRow(q), probeOf' = probeOf PROVE Kept
    BY <1>0, <1>3 DEF RejectRow, ActiveStates
  <1>4. CASE Acquire
    <2>1. ASSUME NEW r \in Reservations, CancelUnstarted(r) PROVE Kept
      <3>1. state' = state \/ c \notin RowsOf(r)
        BY <1>0, <2>1 DEF CancelUnstarted
      <3> QED
        BY <1>0, <2>1, <3>1 DEF CancelUnstarted, ActiveStates
    <2>2. ASSUME NEW q \in Permits, NEW r \in Reservations, NEW s \in Scopes,
                 NEW h \in Hashes, Issue(q, r, s, h)
          PROVE  Kept
      BY <1>0, <2>2 DEF Issue, Insert, ActiveStates
    <2>3. ASSUME NEW q \in Permits, NEW E \in SUBSET Episodes, NEW olds \in SUBSET Permits,
                 BindPack(q, E, olds)
          PROVE  Kept
      <3>1. c \notin olds
        BY <2>3 DEF BindPack, Recoverable, Loose
      <3> QED
        BY <1>0, <2>3, <3>1 DEF BindPack, ActiveStates
    <2>4. ASSUME NEW r \in Reservations, NEW s \in Scopes, RetireExpired(r, s) PROVE Kept
      <3>1. /\ Stale(r, s) \in SUBSET Permits /\ DeleteRows(Stale(r, s))
            /\ \A q \in Stale(r, s) : state[q] = "authorized"
        BY <2>4 DEF RetireExpired, SlotRows, RowsOf, Stale
      <3> QED
        BY <1>1, <3>1
    <2>5. ASSUME NEW old \in Permits, NEW new \in Permits, NEW h \in Hashes, Replace(old, new, h)
          PROVE  Kept
      BY <1>0, <2>5 DEF Replace
    <2>6. ASSUME NEW old \in Permits, NEW new \in Permits, NEW h \in Hashes,
                 IssueProbe(old, new, h)
          PROVE  Kept
      <3>1. old # c
        BY <2>6 DEF IssueProbe, Probeable
      <3> QED
        BY <1>0, <2>6, <3>1 DEF IssueProbe, Insert, ActiveStates
    <2>7. ASSUME NEW q \in Permits, WorkerReject(q) \/ CancelUnbound(q) PROVE Kept
      BY <1>2, <1>3, <2>7 DEF WorkerReject, CancelUnbound
    <2>8. CASE UNCHANGED <<state, probeOf>>
      BY <1>0, <2>8
    <2> QED
      BY <1>4, <2>1, <2>2, <2>3, <2>4, <2>5, <2>6, <2>7, <2>8
         DEF Acquire, Reserve, Renew, ReadProbe, permitVars
  <1>5. CASE Serve
    <2>1. ASSUME NEW q \in Permits, Claim(q) PROVE Kept
      BY <1>0, <2>1 DEF Claim, Resolvable, ActiveStates
    <2>2. ASSUME NEW q \in Permits, ConfirmReconciled(q) PROVE Kept
      BY <1>0, <2>2 DEF ConfirmReconciled, ActiveStates
    <2>3. ASSUME NEW q \in Permits, Promote(q) PROVE Kept
      <3>1. state[q] = "confirmed" /\ probeOf[q] # c
        BY <1>0, <2>3 DEF Promote, ActiveStates
      <3> QED
        BY <1>0, <2>3, <3>1 DEF Promote, ActiveStates
    <2>4. ASSUME NEW q \in Permits, GatewayReject(q) PROVE Kept
      BY <1>3, <2>4 DEF GatewayReject
    <2>5. ASSUME RecordAdd PROVE Kept
      BY <1>0, <2>5 DEF RecordAdd, Outcome, ActiveStates
    <2>6. CASE UNCHANGED <<state, probeOf>>
      BY <1>0, <2>6
    <2> QED
      BY <1>5, <2>1, <2>2, <2>3, <2>4, <2>5, <2>6
         DEF Serve, CompleteHandover, AddTorrent, AddFails, permitVars
  <1>6. ASSUME NEW q \in Permits, PurgeUnused(q) PROVE Kept
    BY <1>2, <1>6 DEF PurgeUnused
  <1>7. CASE UNCHANGED <<state, probeOf>>
    BY <1>0, <1>7
  <1> QED
    BY <1>4, <1>5, <1>6, <1>7 DEF Next, Import, Delete, Environment, ReadSource,
       CompleteImport, ClaimImport, RecordImport, TombstoneItem, DeleteSource,
       TombstoneSeason, CancelSeasonRequest, StartPurge, PurgeSource, CloseSeason,
       Expire, WorkerAbort, WorkerRestart, GatewayCrash, permitVars

\* A promotion leaves a sound handover behind.
LEMMA PromotionIsSound ==
  ASSUME IInv, NEW c \in Permits, Promote(c)
  PROVE  LET p == handover'[c].parent IN
         /\ state'[c] = "confirmed" /\ probeOf'[c] = NoPermit /\ ProbesOf(c)' = {}
         /\ p \in Permits /\ state'[p] = "superseded" /\ LiveProbes
         /\ row'[p].res = row'[c].res /\ row'[p].scope = row'[c].scope
  <1> DEFINE p == probeOf[c]
  <1>0. /\ state \in [Permits -> PermitStates] /\ probeOf \in [Permits -> Permits \cup {NoPermit}]
        /\ state[c] = "confirmed" /\ p \in Permits /\ LiveProbes
        /\ DOMAIN handover = Permits
    BY DEF IInv, TypeOK, RowOK, Promote
  <1>1. probeOf[p] = NoPermit /\ SameSlot(p, c) /\ p # c
    BY <1>0, PermitAssumption DEF IInv, ProbeAnchored, Active, ActiveStates
  <1>2. /\ state' = [state EXCEPT ![p] = "superseded"]
        /\ probeOf' = [probeOf EXCEPT ![c] = NoPermit] /\ row' = row
        /\ handover'[c].parent = p
    BY <1>0 DEF Promote
  <1>3. \A q \in Permits : state[q] \in ActiveStates => probeOf[q] # c
    <2>1. p # NoPermit /\ c # NoPermit
      BY <1>0, PermitAssumption
    <2> QED
      BY <2>1 DEF IInv, ProbeAnchored, Active
  <1>4. ProbesOf(c)' = {}
    BY <1>0, <1>2, <1>3, PermitAssumption DEF ProbesOf, Active, ActiveStates
  <1> QED
    BY <1>0, <1>1, <1>2, <1>4 DEF SameSlot

\* Until the old source of a promotion has stopped, its candidate owns the slot alone and
\* the old one is only superseded, so that a restart can finish the handover.
THEOREM HandoversAreSound == Spec => []HandoverSound
  <1> DEFINE Once == \A p \in Permits :
               /\ state'[p] = "authorized" => state[p] \in {"free", "authorized"}
               /\ state'[p] = "dispatching" => state[p] \in {"authorized", "dispatching"}
               /\ state[p] \in Dead => state'[p] = state[p]
  <1>1. Init => HInv
    BY DEF Init, HInv, HandoverSound, Pending, NoHandover
  <1>2. ASSUME IInv, IInv', HInv, Next, Once PROVE HInv'
    <2>1. ASSUME NEW c \in Permits, Pending(c)'
          PROVE  LET p == handover'[c].parent IN
                 /\ state'[c] = "confirmed" /\ probeOf'[c] = NoPermit /\ ProbesOf(c)' = {}
                 /\ p \in Permits /\ state'[p] = "superseded" /\ LiveProbes
                 /\ row'[p].res = row'[c].res /\ row'[p].scope = row'[c].scope
      <3>1. CASE Promote(c)
        BY <1>2, <3>1, PromotionIsSound
      <3>2. CASE handover'[c] = handover[c]
        <4> DEFINE p == handover[c].parent
        <4>1. Pending(c)
          BY <2>1, <3>2 DEF Pending
        <4>2. /\ p \in Permits /\ state[p] = "superseded" /\ SameSlot(p, c) /\ LiveProbes
              /\ state[c] = "confirmed"
          BY <1>2, <4>1 DEF HInv, HandoverSound
        <4>3. state'[p] = "superseded"
          BY <1>2, <4>2 DEF Dead
        <4>4. row'[p] = row[p] /\ row'[c] = row[c]
          BY <1>2, <4>2, SpentStays DEF Spent, Exists
        <4> QED
          BY <1>2, <3>2, <4>1, <4>2, <4>3, <4>4, CandidateStays DEF SameSlot
      <3> QED
        BY <1>2, <2>1, <3>1, <3>2, HandoverBegins DEF IInv
    <2>2. ASSUME NEW c \in Permits, NEW d \in Permits, Pending(c)', Pending(d)', SameSlot(c, d)'
          PROVE  c = d
      <3>1. Primary(c)' /\ Primary(d)'
        BY <2>1, <2>2 DEF Primary, Active, ActiveStates
      <3> QED
        BY <1>2, <2>2, <3>1 DEF IInv, SlotExclusive
    <2> QED
      BY <2>1, <2>2 DEF HInv, HandoverSound, SameSlot
  <1>3. HInv /\ UNCHANGED vars => HInv'
    BY DEF HInv, HandoverSound, Pending, ProbesOf, Active, SameSlot, vars
  <1>4. IInv /\ IInv' /\ HInv /\ [Next]_vars /\ [Once]_vars => HInv'
    BY <1>2, <1>3
  <1>5. HInv => HandoverSound
    BY DEF HInv
  <1> QED
    BY <1>1, <1>4, <1>5, Invariance, PermitsAreSingleUse, PTL DEF Spec, SingleUse

-----------------------------------------------------------------------------
(* Imports share the library's disk *)

\* A write to one import row leaves the others alone, a movie's and an episode's alike.
LEMMA SetOne ==
  ASSUME TypeOK, NEW k \in ImportKeys, NEW v \in ImportStates, SetImport(k, v)
  PROVE  \A l \in ImportKeys : ImportOf(l)' = IF l = k THEN v ELSE ImportOf(l)
  BY MediaAssumption DEF TypeOK, ImportKeys, ImportOf, SetImport

\* Import rows change only as an import is claimed, recorded or completed.
LEMMA ImportsChange ==
  ASSUME Next
  PROVE  \/ UNCHANGED importVars \/ RecordImport
         \/ \E copy \in BOOLEAN : ClaimImport(copy)
         \/ \E p \in Permits, s \in Scopes : CompleteImport(p, s)
  <1>1. CASE Acquire
    BY <1>1 DEF Acquire, Reserve, CancelUnstarted, Issue, BindPack, RetireExpired, Replace,
       IssueProbe, CancelUnbound, Renew, ReadProbe, WorkerReject
  <1>2. CASE Import
    BY <1>2 DEF Import, ReadSource
  <1>3. CASE Delete
    BY <1>3 DEF Delete, TombstoneItem, DeleteSource, TombstoneSeason, CancelSeasonRequest,
       StartPurge, PurgeUnused, PurgeSource, CloseSeason
  <1>4. CASE Serve
    BY <1>4 DEF Serve, Claim, ConfirmReconciled, Promote, CompleteHandover, GatewayReject,
       AddTorrent, AddFails, RecordAdd
  <1>5. CASE Environment
    BY <1>5 DEF Environment, Expire, WorkerAbort, WorkerRestart, GatewayCrash
  <1> QED
    BY <1>1, <1>2, <1>3, <1>4, <1>5 DEF Next

\* Nobody changes the rows of permits while the worker is in the middle of an import.
LEMMA ImportTaskStays ==
  ASSUME TypeOK, Next, worker'.task \in {"import", "submit"}
  PROVE  \/ worker' = worker /\ row' = row /\ UNCHANGED importVars
         \/ \E p \in Permits, s \in Scopes : ReadSource(p, s)
         \/ \E copy \in BOOLEAN : ClaimImport(copy)
  <1> DEFINE Quiet == worker' = worker /\ row' = row /\ UNCHANGED importVars
  <1>0. /\ \A t, q, s : Task(t, q, s).task = t
        /\ worker' # NoTask
        /\ worker' = worker => ~ WorkerFree
    BY DEF WorkerFree, NoTask, Task
  <1>1. CASE Acquire
    <2>1. \/ worker' = worker \/ worker' = NoTask
          \/ \E q, s : worker' = Task("bind", q, s)
          \/ \E q, s : worker' = Task("reject", q, s)
      BY <1>1 DEF Acquire, Reserve, CancelUnstarted, Issue, BindPack, RetireExpired,
         Replace, IssueProbe, CancelUnbound, Renew, ReadProbe, WorkerReject
    <2>2. worker' = worker
      BY <1>0, <2>1
    <2>3. WorkerFree \/ worker' = NoTask
      BY <1>1, <1>0, <2>2 DEF Acquire, Reserve, CancelUnstarted, Issue, BindPack, RetireExpired,
         Replace, IssueProbe, CancelUnbound, Renew, ReadProbe, WorkerReject
    <2> QED
      BY <1>0, <2>2, <2>3
  <1>2. CASE Import
    <2>1. ASSUME NEW p \in Permits, NEW s \in Scopes, CompleteImport(p, s) PROVE FALSE
      BY <1>0, <2>1 DEF CompleteImport
    <2>2. CASE RecordImport
      BY <1>0, <2>2 DEF RecordImport
    <2> QED
      BY <1>2, <2>1, <2>2 DEF Import
  <1>3. CASE Delete
    <2>1. ~ WorkerFree \/ worker'.task = "purge"
      <3>1. WorkerFree => worker.task = "idle"
        BY <1>0 DEF WorkerFree, NoTask
      <3>2. ASSUME NEW r \in Reservations, StartPurge(r) PROVE worker'.task = "purge"
        BY <3>2 DEF StartPurge
      <3>3. ASSUME NEW q \in Permits, PurgeUnused(q) \/ PurgeSource(q) PROVE ~ WorkerFree
        BY <3>1, <3>3 DEF PurgeUnused, PurgeSource
      <3>4. CloseSeason => ~ WorkerFree
        BY <3>1 DEF CloseSeason
      <3> QED
        BY <1>0, <1>3, <3>2, <3>3, <3>4 DEF Delete, TombstoneItem, DeleteSource,
           TombstoneSeason, CancelSeasonRequest
    <2>2. worker'.task = "purge" \/ worker' = NoTask
      <3>1. worker \in [task : WorkerTasks, res : Reservations \cup {NoPermit},
                        permit : Permits \cup {NoPermit}, scope : Scopes,
                        left : SUBSET Permits, unused : SUBSET Permits]
        BY DEF TypeOK
      <3>2. ASSUME NEW q \in Permits, PurgeUnused(q) \/ PurgeSource(q)
            PROVE  worker'.task = "purge"
        BY <3>1, <3>2 DEF PurgeUnused, PurgeSource
      <3>3. CASE CloseSeason
        BY <3>3 DEF CloseSeason
      <3> QED
        BY <1>3, <2>1, <3>2, <3>3 DEF Delete, TombstoneItem, DeleteSource, TombstoneSeason,
           CancelSeasonRequest, StartPurge
    <2> QED
      BY <1>0, <2>2
  <1>4. CASE Serve
    BY <1>4 DEF Serve, Claim, ConfirmReconciled, Promote, CompleteHandover, GatewayReject,
       RejectRow, AddTorrent, AddFails, RecordAdd, permitVars, importVars
  <1>5. CASE Environment
    BY <1>0, <1>5 DEF Environment, Expire, WorkerAbort, WorkerRestart, GatewayCrash, permitVars,
       importVars
  <1> QED
    BY <1>1, <1>2, <1>3, <1>4, <1>5 DEF Next

\* What a source serves has an import row of its own.
LEMMA ServedHasKey ==
  ASSUME IInv, NEW p \in Permits, NEW s \in Scopes, Exists(p), Serves(p, s)
  PROVE  KeyOf(p, s) \in ImportKeys
  <1>1. /\ row[p] \in Source /\ <<row[p].res, row[p].scope>> \in Slots
        /\ binding[p] \subseteq Episodes
    BY DEF IInv, RowOK, TypeOK
  <1>2. CASE IsPack(p)
    BY <1>1, <1>2, MediaAssumption DEF Serves, KeyOf, ImportKeys
  <1>3. CASE ~ IsPack(p)
    BY <1>1, <1>3, MediaAssumption DEF Serves, KeyOf, ImportKeys, IsPack, Slots
  <1> QED
    BY <1>2, <1>3

\* A copy import has the library's disk for itself, and of the others at most one is still on
\* its way, although a worker may die between the claim, the command and its record.
THEOREM CopiesAreAlone == Spec => []CopyImportAlone
  <1>1. Init => ImportInv
    BY DEF Init, ImportInv, CopyImportAlone, ImportKeys, ImportOf, Submitted, NoTask, Task
  <1>2. ASSUME IInv, ImportInv, Next PROVE ImportInv'
    <2>0. TypeOK
      BY <1>2 DEF IInv
    <2>1. ASSUME NEW copy \in BOOLEAN, ClaimImport(copy) PROVE ImportInv'
      <3> DEFINE k == TaskKey
                 v == IF copy THEN "dispatching_copy" ELSE "dispatching"
      <3>1. /\ k \in ImportKeys /\ v \in ImportStates /\ SetImport(k, v)
            /\ ~ ImportPending(copy) /\ row' = row
            /\ worker' = Task("submit", worker.permit, worker.scope)
        BY <1>2, <2>1 DEF ClaimImport, ImportInv, TaskKey, ImportStates, permitVars
      <3>2. \A l \in ImportKeys : ImportOf(l)' = IF l = k THEN v ELSE ImportOf(l)
        BY <2>0, <3>1, SetOne
      <3>3. CopyImportAlone'
        BY <3>1, <3>2 DEF CopyImportAlone, ImportPending, Submitted
      <3>4. TaskKey' = k
        BY <3>1 DEF TaskKey, KeyOf, Task
      <3>5. worker'.task = "submit"
        BY <3>1 DEF Task
      <3>6. ImportOf(TaskKey)' \in {"dispatching", "dispatching_copy"}
        BY <3>1, <3>2, <3>4 DEF ImportOf
      <3> QED
        BY <3>1, <3>3, <3>4, <3>5, <3>6 DEF ImportInv, ImportKeys
    <2>2. CASE RecordImport
      <3> DEFINE k == TaskKey
                 v == IF ImportOf(k) = "dispatching_copy" THEN "accepted_copy" ELSE "accepted"
      <3>1. /\ k \in ImportKeys /\ v \in ImportStates /\ SetImport(k, v)
            /\ ImportOf(k) \in {"dispatching", "dispatching_copy"}
            /\ worker'.task = "idle"
        BY <1>2, <2>2 DEF RecordImport, ImportInv, TaskKey, ImportStates, NoTask, Task
      <3>2. \A l \in ImportKeys : ImportOf(l)' = IF l = k THEN v ELSE ImportOf(l)
        BY <2>0, <3>1, SetOne
      <3>3. CopyImportAlone
        BY <1>2 DEF ImportInv
      <3>4. CopyImportAlone'
        BY <3>1, <3>2, <3>3 DEF CopyImportAlone, Submitted
      <3> QED
        BY <3>1, <3>4 DEF ImportInv
    <2>3. ASSUME NEW p \in Permits, NEW s \in Scopes, CompleteImport(p, s) PROVE ImportInv'
      <3> DEFINE k == KeyOf(p, s)
      <3>1. k \in ImportKeys
        BY <1>2, <2>3, ServedHasKey DEF CompleteImport, Exists
      <3>2. SetImport(k, "complete") /\ worker'.task = "idle"
        BY <2>3 DEF CompleteImport, WorkerFree, NoTask, Task
      <3>3. \A l \in ImportKeys : ImportOf(l)' = IF l = k THEN "complete" ELSE ImportOf(l)
        BY <2>0, <3>1, <3>2, SetOne DEF ImportStates
      <3>4. CopyImportAlone
        BY <1>2 DEF ImportInv
      <3>5. CopyImportAlone'
        BY <3>3, <3>4 DEF CopyImportAlone, Submitted
      <3> QED
        BY <3>2, <3>5 DEF ImportInv
    <2>4. CASE UNCHANGED importVars
      <3>1. CopyImportAlone'
        BY <1>2, <2>4 DEF ImportInv, CopyImportAlone, ImportOf, importVars
      <3>2. CASE worker'.task \notin {"import", "submit"}
        BY <3>1, <3>2 DEF ImportInv
      <3>3. CASE worker' = worker /\ row' = row
        BY <1>2, <2>4, <3>1, <3>3 DEF ImportInv, TaskKey, KeyOf, ImportOf, importVars
      <3>4. ASSUME NEW p \in Permits, NEW s \in Scopes, ReadSource(p, s) PROVE ImportInv'
        <4>1. KeyOf(p, s) \in ImportKeys
          BY <1>2, <3>4, ServedHasKey DEF ReadSource, Exists
        <4>2. row' = row /\ worker' = Task("import", p, s)
          BY <3>4 DEF ReadSource, permitVars
        <4>3. TaskKey' = KeyOf(p, s) /\ worker'.task = "import"
          BY <4>2 DEF TaskKey, KeyOf, Task
        <4> QED
          BY <3>1, <4>1, <4>3 DEF ImportInv, ImportKeys
      <3> QED
        BY <1>2, <2>0, <2>1, <3>2, <3>3, <3>4, ImportTaskStays
    <2> QED
      BY <1>2, <2>1, <2>2, <2>3, <2>4, ImportsChange
  <1>3. ImportInv /\ UNCHANGED vars => ImportInv'
    BY DEF ImportInv, CopyImportAlone, ImportOf, TaskKey, KeyOf, vars
  <1>4. IInv /\ ImportInv /\ [Next]_vars => ImportInv'
    BY <1>2, <1>3
  <1>5. ImportInv => CopyImportAlone
    BY DEF ImportInv
  <1> QED
    BY <1>1, <1>4, <1>5, Invariance, PTL DEF Spec

-----------------------------------------------------------------------------
(* What leaves qBittorrent *)

\* While a season is purged, only the gateway's steps and the purge's own happen.
LEMMA PurgeStays ==
  ASSUME TypeOK, Next, worker'.task = "purge"
  PROVE  \/ /\ worker' = worker /\ row' = row /\ tombstone' = tombstone
            /\ \A p \in Permits : Exists(p)' <=> Exists(p)
         \/ \E r \in Reservations : StartPurge(r)
         \/ \E p \in Permits : PurgeUnused(p) \/ PurgeSource(p)
  <1>0. /\ \A t, q, s : Task(t, q, s).task = t
        /\ worker' # NoTask /\ state \in [Permits -> PermitStates]
        /\ worker' = worker => ~ WorkerFree
    BY DEF WorkerFree, NoTask, Task, TypeOK
  <1>1. CASE Acquire
    <2>1. \/ worker' = worker \/ worker' = NoTask
          \/ \E q, s : worker' = Task("bind", q, s)
          \/ \E q, s : worker' = Task("reject", q, s)
      BY <1>1 DEF Acquire, Reserve, CancelUnstarted, Issue, BindPack, RetireExpired,
         Replace, IssueProbe, CancelUnbound, Renew, ReadProbe, WorkerReject
    <2>2. worker' = worker
      BY <1>0, <2>1
    <2>3. WorkerFree \/ worker' = NoTask
      BY <1>1, <1>0, <2>2 DEF Acquire, Reserve, CancelUnstarted, Issue, BindPack, RetireExpired,
         Replace, IssueProbe, CancelUnbound, Renew, ReadProbe, WorkerReject
    <2> QED
      BY <1>0, <2>2, <2>3
  <1>2. CASE Import
    <2>1. ASSUME NEW p \in Permits, NEW s \in Scopes, ReadSource(p, s) PROVE FALSE
      BY <1>0, <2>1 DEF ReadSource
    <2>2. ASSUME NEW p \in Permits, NEW s \in Scopes, CompleteImport(p, s) PROVE FALSE
      BY <1>0, <2>2 DEF CompleteImport
    <2>3. ASSUME NEW copy \in BOOLEAN, ClaimImport(copy) PROVE FALSE
      BY <1>0, <2>3 DEF ClaimImport
    <2>4. CASE RecordImport
      BY <1>0, <2>4 DEF RecordImport
    <2> QED
      BY <1>2, <2>1, <2>2, <2>3, <2>4 DEF Import
  <1>3. CASE Delete
    <2>1. CASE CloseSeason
      BY <1>0, <2>1 DEF CloseSeason
    <2> QED
      BY <1>0, <1>3, <2>1 DEF Delete, TombstoneItem, DeleteSource, TombstoneSeason,
         CancelSeasonRequest
  <1>4. CASE Serve
    <2>1. worker' = worker /\ row' = row /\ tombstone' = tombstone
      BY <1>4 DEF Serve, Claim, ConfirmReconciled, Promote, CompleteHandover, GatewayReject,
         RejectRow, AddTorrent, AddFails, RecordAdd, permitVars
    <2>2. \A p \in Permits : Exists(p)' <=> Exists(p)
      <3>0. ASSUME NEW q \in Permits, GatewayReject(q)
            PROVE  \A p \in Permits : Exists(p)' <=> Exists(p)
        BY <1>0, <3>0 DEF GatewayReject, RejectRow, Exists
      <3>1. ASSUME NEW q \in Permits, Claim(q) \/ ConfirmReconciled(q)
            PROVE  \A p \in Permits : Exists(p)' <=> Exists(p)
        BY <1>0, <3>1 DEF Claim, Resolvable, ConfirmReconciled, Exists
      <3>2. ASSUME NEW q \in Permits, Promote(q)
            PROVE  \A p \in Permits : Exists(p)' <=> Exists(p)
        BY <1>0, <3>2 DEF Promote, GivesWay, Exists
      <3>3. CASE RecordAdd
        BY <1>0, <3>3 DEF RecordAdd, Outcome, Exists
      <3>4. CASE state' = state
        BY <3>4 DEF Exists
      <3> QED
        BY <1>4, <3>0, <3>1, <3>2, <3>3, <3>4 DEF Serve, CompleteHandover, AddTorrent, AddFails,
           permitVars
    <2> QED
      BY <2>1, <2>2
  <1>5. CASE Environment
    BY <1>0, <1>5 DEF Environment, Expire, WorkerAbort, WorkerRestart, GatewayCrash, permitVars,
       Exists
  <1> QED
    BY <1>1, <1>2, <1>3, <1>4, <1>5 DEF Next

\* A torrent the gateway adds during a purge is another title's, or on the purge's list.
LEMMA AddedIsHeld ==
  ASSUME IInv, PurgeInv, AddTorrent, worker.task = "purge"
  PROVE  HeldElsewhere(row[call.permit].hash, worker.res, worker.left)
  <1> DEFINE z == call.permit
  <1>1. /\ z \in Permits /\ state[z] \in {"dispatching", "probe_rejected"}
        /\ ~ Guarded(z) => state[z] = "dispatching"
        /\ Guarded(z) => GuardNow(z)
    BY DEF IInv, TypeOK, CallOK, AddTorrent
  <1>2. Spent(z)
    BY <1>1 DEF Spent, Exists
  <1>3. CASE row[z].res # worker.res
    BY <1>1, <1>2, <1>3 DEF HeldElsewhere
  <1>4. CASE row[z].res = worker.res
    <2>1. ~ Guarded(z)
      BY <1>1, <1>4 DEF GuardNow, PackOK, GuardOK, PurgeInv
    <2>2. z \in RowsOf(worker.res)
      BY <1>1, <1>2, <1>4 DEF RowsOf, Spent
    <2>3. z \in worker.left
      BY <1>1, <2>1, <2>2 DEF IInv, WorkerOK
    <2> QED
      BY <1>1, <1>2, <2>3 DEF HeldElsewhere
  <1> QED
    BY <1>3, <1>4

\* From one step of a purge to the next, nothing it has dealt with comes back.
LEMMA PurgeStep ==
  ASSUME IInv, EveryTorrentIsOnRecord, PurgeInv, Next
  PROVE  PurgeInv'
  <1> DEFINE Of(p) == Exists(p)' /\ row'[p].res = worker'.res
             Held(h) == \E q \in Permits : /\ row'[q].hash = h /\ Spent(q)'
                                           /\ row'[q].res # worker'.res \/ q \in worker'.left
             Sound == /\ <<worker'.res, NoScope>> \in tombstone'
                      /\ \A p \in worker'.left : p \in Permits /\ Of(p)
                      /\ \A p \in Permits : Of(p) /\ p \notin worker'.left
                             /\ row'[p].hash \in torrents' => Held(row'[p].hash)
  <1>0. TypeOK /\ \A z \in Permits : Spent(z) => Spent(z)' /\ row'[z] = row[z]
    BY SpentStays DEF IInv
  <1> SUFFICES ASSUME worker'.task = "purge" PROVE Sound
    BY DEF PurgeInv, RowsOf, HeldElsewhere
  <1>1. ASSUME NEW r \in Reservations, StartPurge(r) PROVE Sound
    <2>1. /\ row' = row /\ state' = state /\ torrents' = torrents
          /\ worker'.res = r /\ worker'.left = Inventory(r)
          /\ <<worker'.res, NoScope>> \in tombstone'
      BY <1>1 DEF StartPurge, permitVars
    <2>2. \A p \in Inventory(r) : p \in Permits /\ Of(p)
      BY <2>1 DEF Inventory, RowsOf, Exists
    <2>3. ASSUME NEW p \in Permits, row[p].hash \in torrents PROVE Held(row[p].hash)
      <3>1. PICK q \in Permits : row[q].hash = row[p].hash /\ Spent(q)
        BY <2>3 DEF EveryTorrentIsOnRecord
      <3>2. row[q].res # r \/ q \in Inventory(r)
        BY <3>1 DEF Inventory, RowsOf, Spent
      <3> QED
        BY <1>0, <2>1, <3>1, <3>2
    <2> QED
      BY <2>1, <2>2, <2>3
  <1>2. ASSUME NEW q \in Permits, PurgeUnused(q) \/ PurgeSource(q) PROVE Sound
    <2>1. /\ worker.task = "purge" /\ q \in worker.left
          /\ worker'.res = worker.res /\ worker'.left = worker.left \ {q}
          /\ tombstone' = tombstone
      BY <1>0, <1>2 DEF PurgeUnused, PurgeSource, TypeOK
    <2>2. CASE PurgeUnused(q)
      <3>1. /\ state[q] = "authorized" /\ torrents' = torrents
            /\ state' = [p \in Permits |-> IF p \in {q} THEN "deleted" ELSE state[p]]
            /\ row' = [p \in Permits |-> IF p \in {q} THEN NoSource ELSE row[p]]
        BY <2>2 DEF PurgeUnused, CancelAuthorized, DeleteRows
      <3>2. \A p \in Permits : Of(p) <=> p # q /\ Exists(p) /\ row[p].res = worker.res
        BY <2>1, <3>1 DEF Exists
      <3>3. ~ Spent(q)
        BY <3>1 DEF Spent
      <3>4. ASSUME NEW p \in Permits, Of(p), p \notin worker'.left, row'[p].hash \in torrents'
            PROVE  Held(row'[p].hash)
        <4>1. p \in RowsOf(worker.res) \ worker.left /\ row'[p] = row[p] /\ row[p].hash \in torrents
          BY <2>1, <3>1, <3>2, <3>4 DEF RowsOf
        <4>2. PICK z \in Permits : /\ row[z].hash = row[p].hash /\ Spent(z)
                                   /\ row[z].res # worker.res \/ z \in worker.left
          BY <2>1, <4>1 DEF PurgeInv, HeldElsewhere
        <4> QED
          BY <1>0, <2>1, <3>3, <4>1, <4>2
      <3> QED
        BY <2>1, <3>2, <3>4 DEF PurgeInv, RowsOf
    <2>3. CASE PurgeSource(q)
      <3>1. row' = row /\ state' = state /\ torrents' = torrents \ {row[q].hash}
        BY <2>3 DEF PurgeSource, permitVars
      <3>2. \A p \in Permits : Of(p) <=> Exists(p) /\ row[p].res = worker.res
        BY <2>1, <3>1 DEF Exists
      <3>3. ASSUME NEW p \in Permits, Of(p), p \notin worker'.left, row'[p].hash \in torrents'
            PROVE  Held(row'[p].hash)
        <4>1. /\ p \in RowsOf(worker.res) \ worker.left /\ row[p].hash # row[q].hash
              /\ row[p].hash \in torrents
          BY <2>1, <3>1, <3>2, <3>3 DEF RowsOf
        <4>2. PICK z \in Permits : /\ row[z].hash = row[p].hash /\ Spent(z)
                                   /\ row[z].res # worker.res \/ z \in worker.left
          BY <2>1, <4>1 DEF PurgeInv, HeldElsewhere
        <4> QED
          BY <1>0, <2>1, <3>1, <4>1, <4>2
      <3> QED
        BY <2>1, <3>2, <3>3 DEF PurgeInv, RowsOf
    <2> QED
      BY <1>2, <2>2, <2>3
  <1>3. ASSUME worker' = worker, row' = row, tombstone' = tombstone,
               \A p \in Permits : Exists(p)' <=> Exists(p)
        PROVE  Sound
    <2>1. \A p \in Permits : Of(p) <=> Exists(p) /\ row[p].res = worker.res
      BY <1>3
    <2>2. ASSUME NEW h, HeldElsewhere(h, worker.res, worker.left) PROVE Held(h)
      BY <1>0, <1>3, <2>2 DEF HeldElsewhere
    <2>3. ASSUME NEW p \in Permits, Of(p), p \notin worker.left, row[p].hash \in torrents'
          PROVE  HeldElsewhere(row[p].hash, worker.res, worker.left)
      <3>1. CASE row[p].hash \in torrents
        BY <1>3, <2>1, <2>3, <3>1 DEF PurgeInv, RowsOf
      <3>2. CASE row[p].hash \notin torrents
        <4>1. AddTorrent
          BY <2>3, <3>2, OnlyAddAdds
        <4>2. row[p].hash = row[call.permit].hash
          BY <2>3, <3>2, <4>1 DEF AddTorrent
        <4> QED
          BY <1>3, <4>1, <4>2, AddedIsHeld
      <3> QED
        BY <3>1, <3>2
    <2> QED
      BY <1>3, <2>1, <2>2, <2>3 DEF PurgeInv, RowsOf
  <1> QED
    BY <1>0, <1>1, <1>2, <1>3, PurgeStays

\* Between any two steps, a purge still knows of every torrent of its season.
LEMMA PurgesKnow == Spec => []PurgeInv
  <1>1. Init => PurgeInv
    BY DEF Init, PurgeInv, NoTask, Task
  <1>2. PurgeInv /\ UNCHANGED vars => PurgeInv'
    BY DEF PurgeInv, RowsOf, HeldElsewhere, Spent, Exists, vars
  <1>3. IInv /\ EveryTorrentIsOnRecord /\ PurgeInv /\ [Next]_vars => PurgeInv'
    BY <1>2, PurgeStep
  <1> QED
    BY <1>1, <1>3, Invariance, TorrentsAreOnRecord, PTL DEF Spec

\* A torrent leaves qBittorrent only as a source of a deleted movie or episode, or of a season
\* that is purged, and both ask who else uses it in the transaction of the gateway.
THEOREM RemovalsAreExplicit == Spec => RemovalIsExplicit
  <1> DEFINE Due(h, p) ==
        Active(p) /\ row[p].hash = h =>
            LET r == row[p].res IN
            \/ <<r, NoScope>> \in tombstone
            \/ /\ \E e \in Episodes : Covers(p, e)
               /\ \A e \in Episodes : Covers(p, e) => <<r, e>> \in tombstone
  <1>1. ASSUME IInv, PurgeInv, Next, NEW h \in torrents \ torrents', NEW p \in Permits,
               Active(p), row[p].hash = h
        PROVE  Due(h, p)
    <2>1. \/ \E r \in Reservations, s \in Scopes, q \in Permits : DeleteSource(r, s, q)
          \/ \E q \in Permits : PurgeSource(q)
      BY <1>1 DEF Next, Acquire, Import, Delete, Serve, Environment, Reserve, CancelUnstarted,
         Issue, BindPack, RetireExpired, Replace, IssueProbe, CancelUnbound, Renew, ReadProbe,
         WorkerReject, ReadSource, ClaimImport, RecordImport, CompleteImport, TombstoneItem,
         TombstoneSeason, CancelSeasonRequest, StartPurge, PurgeUnused, CloseSeason, Claim,
         ConfirmReconciled, Promote, CompleteHandover, GatewayReject, AddTorrent, AddFails,
         RecordAdd, Expire, WorkerAbort, WorkerRestart, GatewayCrash
    <2>2. ASSUME NEW q \in Permits, PurgeSource(q) PROVE Due(h, p)
      <3>1. p = q
        BY <1>1, <2>2 DEF PurgeSource, Removable
      <3>2. row[q].res = worker.res /\ <<worker.res, NoScope>> \in tombstone
        BY <1>1, <2>2 DEF PurgeSource, PurgeInv, RowsOf
      <3> QED
        BY <3>1, <3>2
    <2>3. ASSUME NEW r \in Reservations, NEW s \in Scopes, NEW q \in Permits,
                 DeleteSource(r, s, q)
          PROVE  Due(h, p)
      <3>1. p = q
        BY <1>1, <2>3 DEF DeleteSource, Removable
      <3>2. /\ row[p].res = r /\ Covers(p, s) /\ Exists(p) /\ <<r, s>> \in tombstone
            /\ <<r, s>> \in Slots /\ s # Pack /\ Removable(p) /\ state[p] = "confirmed"
        BY <2>3, <3>1 DEF DeleteSource, Sources, RowsOf
      <3>3. CASE s = NoScope
        BY <3>2, <3>3
      <3>4. CASE s # NoScope
        <4>1. s \in Episodes
          BY <3>2, <3>4 DEF Slots
        <4>2. CASE IsPack(p)
          <5>1. row[p].scope \notin Episodes /\ \A e \in binding[p] : <<r, e>> \in tombstone
            BY <3>2, <4>2, MediaAssumption DEF Removable, IsPack
          <5> QED
            BY <3>2, <4>1, <5>1 DEF Covers
        <4>3. CASE ~ IsPack(p)
          <5>1. binding[p] = {}
            BY <1>1, <3>2, <4>3 DEF IInv, RowOK
          <5> QED
            BY <3>2, <4>1, <5>1 DEF Covers
        <4> QED
          BY <4>2, <4>3
      <3> QED
        BY <3>3, <3>4
    <2> QED
      BY <2>1, <2>2, <2>3
  <1>2. IInv /\ PurgeInv /\ [Next]_vars =>
          [\A h \in torrents \ torrents', p \in Permits : Due(h, p)]_vars
    BY <1>1
  <1> QED
    BY <1>2, Invariance, PurgesKnow, PTL DEF Spec, RemovalIsExplicit

\* A season's bytes are released only when all its sources have left qBittorrent, whatever the
\* gateway added, confirmed or promoted while they were removed one by one.
THEOREM PurgesAreComplete == Spec => SeasonPurged
  <1> DEFINE Released(r) == resv[r] # "cancelled" /\ resv'[r] = "cancelled" /\ worker.task = "purge"
             Gone(r) == \A p \in RowsOf(r) :
                 /\ state[p] # "authorized"
                 /\ row[p].hash \in torrents => HeldElsewhere(row[p].hash, r, {})
  <1>1. ASSUME IInv, PurgeInv, Next, NEW r \in Seasons, Released(r) PROVE Gone(r)
    <2>1. CloseSeason
      <3>1. ~ WorkerFree
        BY <1>1 DEF WorkerFree, NoTask, Task
      <3>2. CASE resv' = resv
        BY <1>1, <3>2
      <3> QED
        BY <1>1, <3>1, <3>2 DEF Next, Acquire, Import, Delete, Serve, Environment, Reserve,
           CancelUnstarted, Issue, BindPack, RetireExpired, Replace, IssueProbe, CancelUnbound,
           Renew, ReadProbe, WorkerReject, ReadSource, ClaimImport, RecordImport,
           CompleteImport, TombstoneItem, DeleteSource, TombstoneSeason, CancelSeasonRequest,
           StartPurge, PurgeUnused, PurgeSource, Claim, ConfirmReconciled, Promote,
           CompleteHandover, GatewayReject, AddTorrent, AddFails, RecordAdd, Expire,
           WorkerAbort, WorkerRestart, GatewayCrash, resVars
    <2>2. r = worker.res /\ worker.left = {}
      BY <1>1, <2>1 DEF CloseSeason, IInv, TypeOK
    <2>3. ASSUME NEW p \in RowsOf(r)
          PROVE  /\ state[p] # "authorized"
                 /\ row[p].hash \in torrents => HeldElsewhere(row[p].hash, r, {})
      BY <1>1, <2>2, <2>3 DEF IInv, WorkerOK, PurgeInv
    <2> QED
      BY <2>3
  <1>2. IInv /\ PurgeInv /\ [Next]_vars => [\A r \in Seasons : Released(r) => Gone(r)]_vars
    BY <1>1
  <1> QED
    BY <1>2, Invariance, PurgesKnow, PTL DEF Spec, SeasonPurged

-----------------------------------------------------------------------------
(* Budgets *)

\* A function to natural numbers with a finite domain has finitely many bytes.
LEMMA SumType ==
    ASSUME NEW S, IsFiniteSet(S), NEW f \in [S -> Nat]
    PROVE  IsFiniteSet(BytesOf(f)) /\ Sum(f) \in Nat
  <1> DEFINE B(x) == {x} \X (1 .. f[x])
             of == [x \in S |-> B(x)]
  <1>1. \A x \in S : IsFiniteSet(B(x))
    <2>1. TAKE x \in S
    <2>2. f[x] \in Int /\ 1 \in Int
      OBVIOUS
    <2>3. IsFiniteSet({x}) /\ IsFiniteSet(1 .. f[x])
      BY <2>2, FS_Singleton, FS_Interval
    <2> QED
      BY <2>3, FS_Product
  <1>2. of \in Surjection(S, {B(x) : x \in S})
    BY DEF Surjection
  <1>3. IsFiniteSet({B(x) : x \in S}) /\ \A T \in {B(x) : x \in S} : IsFiniteSet(T)
    BY <1>1, <1>2, FS_Surjection
  <1>4. IsFiniteSet(BytesOf(f))
    BY <1>3, FS_UNION DEF BytesOf
  <1> QED
    BY <1>4, FS_CardinalityType DEF Sum

\* The sum over fewer, with the same bytes each, is no larger.
LEMMA SumFewer ==
    ASSUME NEW T, IsFiniteSet(T), NEW S \in SUBSET T, NEW f \in [S -> Nat],
           NEW g \in [T -> Nat], \A x \in S : f[x] = g[x]
    PROVE  Sum(f) <= Sum(g)
  <1>1. BytesOf(f) \subseteq BytesOf(g)
    BY DEF BytesOf
  <1> QED
    BY <1>1, SumType, FS_Subset DEF Sum

\* A transaction's sum over rows of a reservation, at least the active ones, is a number no
\* smaller than what is active after the transaction.
LEMMA RowSums ==
    ASSUME RowOK', IsFiniteSet({p \in Permits : state'[p] # "free"}), NEW r \in Reservations,
           NEW S \in SUBSET {p \in Permits : Exists(p)' /\ row'[p].res = r}
    PROVE  /\ Bytes(S) \in Nat
           /\ {p \in Permits : Active(p)' /\ row'[p].res = r} \subseteq S => ActiveBytes(r)' <= Bytes(S)
  <1> DEFINE A == {p \in RowsOf(r)' : Active(p)'}
             f == [p \in A |-> Size[row'[p].hash]]
             g == [p \in S |-> Size[row'[p].hash]]
  <1>1. IsFiniteSet(S)
    BY FS_Subset DEF Exists
  <1>2. \A p \in Permits : Exists(p)' => Size[row'[p].hash] \in Nat
    BY SizeAssumption DEF RowOK, Source
  <1>3. f \in [A -> Nat] /\ g \in [S -> Nat]
    BY <1>2 DEF RowsOf
  <1>4. Bytes(S) \in Nat
    BY <1>1, <1>3, SumType DEF Bytes
  <1>5. ASSUME {p \in Permits : Active(p)' /\ row'[p].res = r} \subseteq S
        PROVE  ActiveBytes(r)' <= Bytes(S)
    <2>1. A \subseteq S
      BY <1>5 DEF RowsOf
    <2>2. \A x \in A : f[x] = g[x]
      BY <2>1
    <2>3. Sum(f) <= Sum(g)
      <3> HIDE DEF f, g, A
      <3> QED
        BY <1>1, <1>3, <2>1, <2>2, SumFewer
    <2> QED
      BY <2>3 DEF ActiveBytes, Bytes
  <1> QED
    BY <1>4, <1>5

\* The sums that close a transaction cover the active rows of their reservation.
LEMMA SumsCover ==
    ASSUME RowOK', IsFiniteSet({p \in Permits : state'[p] # "free"}), NEW r \in Reservations
    PROVE  /\ SumActive(r) \in Nat /\ ActiveBytes(r)' <= SumActive(r)
           /\ SumProbe(r) \in Nat /\ ActiveBytes(r)' <= SumProbe(r)
  <1> USE DEF ActiveRows, Active, ActiveStates, Exists
  <1>1. SumActive(r) \in Nat /\ ActiveBytes(r)' <= SumActive(r)
    <2>1. ActiveRows(r, state') \in SUBSET {p \in Permits : Exists(p)' /\ row'[p].res = r}
      OBVIOUS
    <2>2. {p \in Permits : Active(p)' /\ row'[p].res = r} \subseteq ActiveRows(r, state')
      OBVIOUS
    <2> QED
      BY <2>1, <2>2, RowSums DEF SumActive
  <1>2. SumProbe(r) \in Nat /\ ActiveBytes(r)' <= SumProbe(r)
    <2> DEFINE S == {p \in Permits : /\ row'[p].res = r
                                     /\ state'[p] \notin {"free", "deleted"}
                                     /\ \/ state'[p] \in ActiveStates
                                        \/ p \in PendingParents(handover')}
    <2>1. S \in SUBSET {p \in Permits : Exists(p)' /\ row'[p].res = r}
      OBVIOUS
    <2>2. {p \in Permits : Active(p)' /\ row'[p].res = r} \subseteq S
      OBVIOUS
    <2>3. Bytes(S) \in Nat /\ ActiveBytes(r)' <= Bytes(S)
      BY <2>1, <2>2, RowSums
    <2> QED
      BY <2>3 DEF SumProbe
  <1> QED
    BY <1>1, <1>2

\* What a step does to the budget of a reservation: a sum closes it; or it stays, with no row
\* more; or nothing of it is active any more.
Kept(r) == \A p \in Permits :
    Active(p)' /\ row'[p].res = r => Active(p) /\ row'[p] = row[p]
Covered(r) ==
    \/ budget'[r] \in {SumActive(r), SumProbe(r)}
    \/ budget'[r] = budget[r] /\ (Live(r)' => Live(r)) /\ Kept(r)
    \/ budget'[r] = 0 /\ (Live(r)' => \A p \in Permits : Active(p)' => row'[p].res # r)

LEMMA BudgetCovered ==
    ASSUME RowOK, RowOK', BudgetInv, IsFiniteSet({p \in Permits : state'[p] # "free"}),
           DOMAIN budget' = Reservations, NEW r \in Reservations, Covered(r)
    PROVE  budget'[r] \in Nat /\ (Live(r)' => ActiveBytes(r)' <= budget'[r])
  <1>1. CASE budget'[r] \in {SumActive(r), SumProbe(r)}
    BY <1>1, SumsCover
  <1>2. CASE budget'[r] = budget[r] /\ (Live(r)' => Live(r)) /\ Kept(r)
    <2> DEFINE A == {p \in RowsOf(r)' : Active(p)'}
               B == {p \in RowsOf(r) : Active(p)}
               f == [p \in A |-> Size[row'[p].hash]]
               g == [p \in B |-> Size[row[p].hash]]
    <2>1. IsFiniteSet(B)
      BY FS_Subset DEF BudgetInv, RowsOf, Exists
    <2>2. f \in [A -> Nat] /\ g \in [B -> Nat]
      BY SizeAssumption DEF RowOK, Source, RowsOf
    <2>3. A \subseteq B
      BY <1>2 DEF Kept, RowsOf, Exists, Active, ActiveStates
    <2>4. \A x \in A : f[x] = g[x]
      BY <1>2, <2>3 DEF Kept, RowsOf
    <2>5. Sum(f) <= Sum(g) /\ Sum(f) \in Nat /\ Sum(g) \in Nat
      <3> HIDE DEF f, g, A, B
      <3>1. IsFiniteSet(A)
        BY <2>1, <2>3, FS_Subset
      <3> QED
        BY <3>1, <2>1, <2>2, <2>3, <2>4, SumFewer, SumType
    <2>6. ActiveBytes(r)' <= ActiveBytes(r) /\ ActiveBytes(r)' \in Nat /\ ActiveBytes(r) \in Nat
      BY <2>5 DEF ActiveBytes
    <2>7. budget[r] \in Nat /\ (Live(r) => ActiveBytes(r) <= budget[r])
      BY DEF BudgetInv, BudgetCovers
    <2> QED
      BY <1>2, <2>6, <2>7
  <1>3. CASE budget'[r] = 0 /\ (Live(r)' => \A p \in Permits : Active(p)' => row'[p].res # r)
    <2>1. ASSUME Live(r)' PROVE ActiveBytes(r)' <= 0
      <3>1. {p \in Permits : Active(p)' /\ row'[p].res = r} \subseteq {}
        BY <1>3, <2>1
      <3>2. ActiveBytes(r)' <= Bytes({})
        BY <3>1, RowSums
      <3>3. BytesOf([p \in {} |-> Size[row'[p].hash]]) = {}
        BY DEF BytesOf
      <3>4. Bytes({}) = 0
        BY <3>3, FS_EmptySet DEF Bytes, Sum
      <3> QED
        BY <3>2, <3>4
    <2> QED
      BY <1>3, <2>1
  <1> QED
    BY <1>1, <1>2, <1>3 DEF Covered

\* The rows ever inserted stay finitely many: a step inserts one or none.
LEMMA UsedIsFinite ==
    ASSUME TypeOK, RowOK, IsFiniteSet({p \in Permits : state[p] # "free"}), Next
    PROVE  IsFiniteSet({p \in Permits : state'[p] # "free"})
  <1> DEFINE Only(n) == \A p \in Permits : p # n /\ state'[p] # "free" => state[p] # "free"
             None == \A p \in Permits : state'[p] # "free" => state[p] # "free"
  <1>0. state \in [Permits -> PermitStates] /\ DOMAIN state = Permits
    BY DEF TypeOK
  <1> USE DEF resVars, permitVars, importVars
  <1>1. ASSUME NEW p \in Permits, NEW r \in Reservations, NEW s \in Scopes, NEW h \in Hashes,
               Issue(p, r, s, h)
        PROVE  Only(p)
    BY <1>0, <1>1 DEF Issue
  <1>2. ASSUME NEW old \in Permits, NEW new \in Permits, NEW h \in Hashes,
               Replace(old, new, h) \/ IssueProbe(old, new, h)
        PROVE  Only(new)
    BY <1>0, <1>2 DEF Replace, IssueProbe
  <1>3. ASSUME NEW r \in Reservations, Reserve(r) \/ CancelUnstarted(r) PROVE None
    BY <1>0, <1>3 DEF Reserve, CancelUnstarted, RowsOf, Exists
  <1>4. ASSUME NEW r \in Reservations, NEW s \in Scopes, RetireExpired(r, s) PROVE None
    BY <1>0, <1>4 DEF RetireExpired, DeleteRows, Stale, SlotRows, RowsOf, Exists
  <1>5. ASSUME NEW p \in Permits, NEW E \in SUBSET Episodes, NEW olds \in SUBSET Permits,
               BindPack(p, E, olds)
        PROVE  None
    BY <1>0, <1>5 DEF BindPack, Recoverable
  <1>6. ASSUME NEW p \in Permits, \/ CancelUnbound(p) \/ Renew(p) \/ ReadProbe(p)
                                  \/ WorkerReject(p) \/ Expire(p) \/ PurgeUnused(p)
        PROVE  None
    BY <1>0, <1>6 DEF CancelUnbound, PurgeUnused, CancelAuthorized, DeleteRows, Renew, ReadProbe,
       WorkerReject, RejectRow, Exists, Expire
  <1>7. ASSUME Import PROVE None
    <2>1. state' = state
      BY <1>0, <1>7 DEF Import, ReadSource, CompleteImport, ClaimImport, RecordImport
    <2> QED
      BY <2>1
  <1>8. ASSUME Delete PROVE None
    <2>1. state' = state \/ \E p \in Permits : PurgeUnused(p)
      BY <1>0, <1>8 DEF Delete, TombstoneItem, DeleteSource, TombstoneSeason, CancelSeasonRequest,
         StartPurge, PurgeSource, CloseSeason
    <2> QED
      BY <1>6, <2>1
  <1>9. ASSUME NEW p \in Permits, \/ Claim(p) \/ ConfirmReconciled(p) \/ Promote(p)
                                  \/ CompleteHandover(p) \/ GatewayReject(p)
        PROVE  None
    BY <1>0, <1>9 DEF Claim, Resolvable, ConfirmReconciled, Promote, GivesWay, CompleteHandover,
       GatewayReject, RejectRow, Exists
  <1>10. ASSUME RecordAdd PROVE None
    BY <1>0, <1>10 DEF RecordAdd
  <1>11. ASSUME AddTorrent \/ AddFails \/ WorkerAbort \/ WorkerRestart \/ GatewayCrash
         PROVE  None
    <2>1. state' = state
      BY <1>0, <1>11 DEF AddTorrent, AddFails, WorkerAbort, WorkerRestart, GatewayCrash
    <2> QED
      BY <2>1
  <1>12. (\E n \in Permits : Only(n)) \/ None
    <2> HIDE DEF Only, None
    <2> QED
      BY <1>1, <1>2, <1>3, <1>4, <1>5, <1>6, <1>7, <1>8, <1>9, <1>10, <1>11
         DEF Next, Acquire, Serve, Environment
  <1>13. ASSUME NEW n, Only(n) PROVE IsFiniteSet({p \in Permits : state'[p] # "free"})
    <2> DEFINE S == {p \in Permits : state[p] # "free"}
               T == {p \in Permits : state'[p] # "free"}
    <2>1. T \in SUBSET (S \cup {n}) /\ IsFiniteSet(S)
      BY <1>13
    <2> HIDE DEF S, T
    <2>2. IsFiniteSet(S \cup {n})
      BY <2>1, FS_AddElement
    <2>3. IsFiniteSet(T)
      BY <2>1, <2>2, FS_Subset
    <2> QED
      BY <2>3 DEF T
  <1>14. None => Only(NoPermit)
    OBVIOUS
  <1> QED
    BY <1>12, <1>13, <1>14

\* Every transaction that adds to what a reservation has active closes with its sum.
LEMMA StepCovers ==
    ASSUME IInv, IInv', Next, NEW r \in Reservations
    PROVE  Covered(r)
  <1> USE DEF IInv, TypeOK, resVars, permitVars, importVars, Covered
  <1> DEFINE Same == budget'[r] = budget[r] /\ (Live(r)' => Live(r)) /\ Kept(r)
  <1>1. ASSUME NEW q \in Reservations, Reserve(q) PROVE Covered(r)
    <2>1. CASE q = r
      <3>1. \A p \in Permits : Active(p) => row[p].res # r
        <4>1. resv[r] = "none"
          BY <1>1, <2>1 DEF Reserve
        <4>2. \A p \in Permits : Active(p) => resv[row[p].res] # "none"
          BY DEF RowOK, Active, ActiveStates, Exists
        <4> QED
          BY <4>1, <4>2
      <3>2. budget'[r] = 0 /\ state' = state /\ row' = row
        BY <1>1, <2>1 DEF Reserve
      <3> QED
        BY <3>1, <3>2 DEF Active
    <2>2. CASE q # r
      BY <1>1, <2>2 DEF Reserve, Kept, Active, Live
    <2> QED
      BY <2>1, <2>2
  <1>2. ASSUME NEW q \in Reservations, CancelUnstarted(q) PROVE Covered(r)
    BY <1>2 DEF CancelUnstarted, Kept, Active, ActiveStates, Live
  <1>3. ASSUME NEW p \in Permits, NEW q \in Reservations, NEW s \in Scopes, NEW h \in Hashes,
               Issue(p, q, s, h)
        PROVE  Covered(r)
    <2>1. CASE q = r
      BY <1>3, <2>1 DEF Issue, Rebudget
    <2>2. CASE q # r
      BY <1>3, <2>2 DEF Issue, Insert, Rebudget, Kept, Active, Live
    <2> QED
      BY <2>1, <2>2
  <1>4. ASSUME NEW p \in Permits, NEW E \in SUBSET Episodes, NEW olds \in SUBSET Permits,
               BindPack(p, E, olds)
        PROVE  Covered(r)
    <2>1. Live(r)' = Live(r) /\ Kept(r)
      BY <1>4 DEF BindPack, Kept, Active, ActiveStates, Live
    <2>2. budget'[r] = budget[r] \/ budget'[r] = SumProbe(r)
      BY <1>4 DEF BindPack, RebudgetProbe
    <2> QED
      BY <2>1, <2>2
  <1>5. ASSUME NEW q \in Reservations, NEW s \in Scopes, RetireExpired(q, s) PROVE Covered(r)
    <2>1. Live(r)' = Live(r) /\ Kept(r)
      BY <1>5 DEF RetireExpired, DeleteRows, Kept, Active, ActiveStates, Live
    <2>2. budget'[r] = budget[r] \/ budget'[r] = SumActive(r)
      BY <1>5 DEF RetireExpired, Rebudget
    <2> QED
      BY <2>1, <2>2
  <1>6. ASSUME NEW old \in Permits, NEW new \in Permits, NEW h \in Hashes,
               Replace(old, new, h) \/ IssueProbe(old, new, h)
        PROVE  Covered(r)
    <2>1. CASE row[old].res = r
      BY <1>6, <2>1 DEF Replace, IssueProbe, Rebudget, RebudgetProbe
    <2>2. CASE row[old].res # r
      BY <1>6, <2>2 DEF Replace, IssueProbe, Insert, Rebudget, RebudgetProbe, Kept, Active,
         ActiveStates, Live
    <2> QED
      BY <2>1, <2>2
  <1>7. ASSUME NEW p \in Permits, CancelUnbound(p) \/ PurgeUnused(p) PROVE Covered(r)
    <2>1. Live(r)' = Live(r) /\ Kept(r)
      BY <1>7 DEF CancelUnbound, PurgeUnused, CancelAuthorized, DeleteRows, Kept, Active,
         ActiveStates, Live
    <2>2. budget'[r] = budget[r] \/ budget'[r] = SumActive(r)
      BY <1>7 DEF CancelUnbound, PurgeUnused, CancelAuthorized, Rebudget
    <2> QED
      BY <2>1, <2>2
  <1>8. ASSUME NEW p \in Permits, WorkerReject(p) \/ GatewayReject(p) PROVE Covered(r)
    <2>1. Live(r)' = Live(r) /\ Kept(r)
      BY <1>8 DEF WorkerReject, GatewayReject, RejectRow, Kept, Active, ActiveStates, Live
    <2>2. budget'[r] = budget[r] \/ budget'[r] = SumProbe(r)
      BY <1>8 DEF WorkerReject, GatewayReject, RejectRow, RebudgetProbe
    <2> QED
      BY <2>1, <2>2
  <1>9. ASSUME NEW p \in Permits, Promote(p) \/ CompleteHandover(p) PROVE Covered(r)
    <2>1. Live(r)' = Live(r) /\ Kept(r)
      BY <1>9 DEF Promote, CompleteHandover, Kept, Active, ActiveStates, Live
    <2>2. budget'[r] = budget[r] \/ budget'[r] = SumProbe(r)
      BY <1>9 DEF Promote, CompleteHandover, RebudgetProbe
    <2> QED
      BY <2>1, <2>2
  <1>10. ASSUME NEW p \in Permits, \/ Renew(p) \/ ReadProbe(p) \/ Expire(p) \/ Claim(p)
                                   \/ ConfirmReconciled(p)
         PROVE  Covered(r)
    BY <1>10 DEF Renew, ReadProbe, Expire, Claim, Resolvable, ConfirmReconciled, Kept, Active,
       ActiveStates, Live
  <1>11. CASE Import
    <2>1. \A k : resv' = [resv EXCEPT ![k] = "imported"] => (Live(r)' => Live(r))
      BY DEF Live
    <2>2. (Live(r)' => Live(r)) /\ UNCHANGED <<budget, state, row>>
      BY <1>11, <2>1 DEF Import, ReadSource, CompleteImport, ClaimImport, RecordImport, Live
    <2> QED
      BY <2>2 DEF Kept, Active
  <1>12. CASE CloseSeason
    <2>1. CASE worker.res = r
      BY <1>12, <2>1 DEF CloseSeason, Live
    <2>2. CASE worker.res # r
      BY <1>12, <2>2 DEF CloseSeason, Live, Kept, Active
    <2> QED
      BY <2>1, <2>2
  <1>13. CASE Delete
    <2>1. CASE UNCHANGED <<resv, budget, state, row>>
      BY <2>1 DEF Kept, Active, Live
    <2> QED
      BY <1>7, <1>12, <1>13, <2>1 DEF Delete, TombstoneItem, DeleteSource, TombstoneSeason,
         CancelSeasonRequest, StartPurge, PurgeSource
  <1>14. CASE AddTorrent \/ AddFails \/ RecordAdd \/ WorkerAbort \/ GatewayCrash
    BY <1>14 DEF AddTorrent, AddFails, RecordAdd, WorkerAbort, GatewayCrash, Kept, Active,
       ActiveStates, Live
  <1>15. CASE WorkerRestart
    BY <1>15 DEF WorkerRestart, Kept, Active, Live
  <1> QED
    BY <1>1, <1>2, <1>3, <1>4, <1>5, <1>6, <1>7, <1>8, <1>9, <1>10, <1>11, <1>13, <1>14, <1>15
       DEF Next, Acquire, Serve, Environment

\* The active permits of a live reservation are within its budget, so that the gateway never
\* refuses for its size a source the worker admitted (`find_for_metadata`).
THEOREM BudgetsCover == Spec => []BudgetCovers
  <1>1. Init => BudgetInv
    <2> SUFFICES ASSUME Init PROVE BudgetInv
      OBVIOUS
    <2>1. {p \in Permits : state[p] # "free"} = {}
      BY DEF Init
    <2>2. IsFiniteSet({p \in Permits : state[p] # "free"})
      BY <2>1, FS_EmptySet
    <2>3. \A r \in Reservations : budget[r] = 0 /\ ~ Live(r)
      BY DEF Init, Live
    <2> QED
      BY <2>2, <2>3 DEF BudgetInv, BudgetCovers
  <1>2. IInv /\ IInv' /\ BudgetInv /\ Next => BudgetInv'
    <2> SUFFICES ASSUME IInv, IInv', BudgetInv, Next PROVE BudgetInv'
      OBVIOUS
    <2>1. IsFiniteSet({p \in Permits : state'[p] # "free"})
      BY UsedIsFinite DEF IInv, BudgetInv
    <2>2. \A r \in Reservations :
              budget'[r] \in Nat /\ (Live(r)' => ActiveBytes(r)' <= budget'[r])
      BY <2>1, StepCovers, BudgetCovered DEF IInv, TypeOK
    <2> QED
      BY <2>1, <2>2 DEF BudgetInv, BudgetCovers
  <1>3. BudgetInv /\ UNCHANGED vars => BudgetInv'
    BY DEF BudgetInv, BudgetCovers, ActiveBytes, RowsOf, Exists, Active, Live, vars
  <1>4. IInv /\ IInv' /\ BudgetInv /\ [Next]_vars => BudgetInv'
    BY <1>2, <1>3
  <1>5. BudgetInv => BudgetCovers
    BY DEF BudgetInv
  <1> QED
    BY <1>1, <1>4, <1>5, Invariance, PTL DEF Spec
=============================================================================
