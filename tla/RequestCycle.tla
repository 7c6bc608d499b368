----------------------------- MODULE RequestCycle -----------------------------
(***************************************************************************)
(* The worker's cycle over the requests of Seerr: the deletion jobs, the    *)
(* pages of approved requests, a reservation for each medium, a visit of    *)
(* each, and the withdrawal of what is no longer approved. People decide in *)
(* Seerr meanwhile, so a page may shift between two reads, and a status may *)
(* change after it was read.                                                *)
(***************************************************************************)
EXTENDS Integers, FiniteSets

CONSTANTS
    Requests,     \* numbered in the order Seerr lists them, the newest first
    Media,        \* movies and seasons
    Wants,        \* the medium of each request
    First,        \* the status each request has at first
    Barren,       \* requests of which, once approved, Seerr lists no approved season
    PageSize,
    Stuck,        \* a deletion that was asked for fails in every cycle, unexpectedly
    MaxDecisions, \* decisions in Seerr
    MaxFaults,    \* cycles that fail and snapshots that are too old
    MaxDeletes    \* deletions of a medium

Statuses == {"absent", "pending", "approved", "declined", "removed", "completed"}

ASSUME CycleAssumption ==
    /\ Requests \subseteq Nat \ {0} /\ IsFiniteSet(Requests) /\ 0 \notin Media
    /\ Wants \in [Requests -> Media] /\ First \in [Requests -> Statuses]
    /\ Barren \subseteq Requests /\ PageSize \in Nat \ {0} /\ Stuck \in BOOLEAN
    /\ {MaxDecisions, MaxFaults, MaxDeletes} \subseteq Nat

VARIABLES
    status,   \* of the requests, in Seerr
    row,      \* the reservation of each medium and the request it was made for
    permit,   \* the permits of a reservation: none, an unused one, or a download
    deleted,  \* tombstones
    w,        \* the worker
    wavered,  \* history: requests that were not approved once, since they have a reservation
    decisions, faults, deletes

counts == <<decisions, faults, deletes>>
vars == <<status, row, permit, deleted, w, wavered, counts>>

NoRow == [state |-> "none", request |-> 0]
Idle == [step |-> "idle", page |-> 1, approved |-> {}, admitted |-> {}, check |-> {},
         medium |-> 0]

TypeOK ==
    /\ status \in [Requests -> Statuses]
    /\ row \in [Media -> [state : {"none", "reserved", "cancelled", "imported"},
                          request : Requests \cup {0}]]
    /\ \A m \in Media : row[m].state # "none" => row[m].request # 0 /\ Wants[row[m].request] = m
    /\ permit \in [Media -> {"none", "authorized", "used"}]
    /\ deleted \subseteq Media
    /\ w \in [step : {"idle", "list", "work", "look", "cancel"}, page : Nat,
              approved : SUBSET Requests, admitted : SUBSET Media, check : SUBSET Media,
              medium : Media \cup {0}]
    /\ w.step = "cancel" => w.medium # 0
    /\ wavered \subseteq Requests
    /\ decisions \in 0 .. MaxDecisions /\ faults \in 0 .. MaxFaults /\ deletes \in 0 .. MaxDeletes

Init ==
    /\ status = First
    /\ row = [m \in Media |-> NoRow] /\ permit = [m \in Media |-> "none"]
    /\ deleted = {} /\ w = Idle /\ wavered = {r \in Requests : First[r] # "approved"}
    /\ decisions = 0 /\ faults = 0 /\ deletes = 0

-----------------------------------------------------------------------------
(* Admission *)

\* `run_once`: the deletion jobs come first, and their failure ends the cycle.
Begin ==
    /\ w.step = "idle"
    /\ w' = IF Stuck /\ deleted # {} THEN Idle ELSE [Idle EXCEPT !.step = "list"]
    /\ UNCHANGED <<status, row, permit, deleted, wavered, counts>>

\* `list_approved`: the approved requests are listed anew for every page, and what is of no
\* use is left out of the page.
Approved == {r \in Requests : status[r] = "approved"}
Newer(r) == {q \in Approved : q < r}
Page(r) == 1 + Cardinality(Newer(r)) \div PageSize
BatchOnce(page) == {r \in Approved \ Barren : page = 1 /\ Page(r) = 1}   \* mutant
Batch(page) == {r \in Approved \ Barren : Page(r) = page}

\* `admit`, `reserve`: one reservation for a medium, for ever, made for the first request
\* of the page that wants it. It takes no bytes, so only an old snapshot refuses it.
Foremost(batch) == {r \in batch : \A q \in batch : Wants[q] = Wants[r] => r <= q}
Reserved(batch, usable) ==
    LET for(m) == {r \in Foremost(batch) : Wants[r] = m} IN
    [m \in Media |->
        IF usable /\ for(m) # {} /\ m \notin deleted /\ row[m].state = "none"
        THEN [state |-> "reserved", request |-> CHOOSE r \in for(m) : TRUE] ELSE row[m]]

\* A page without anything of use is taken for the end.
List ==
    LET batch == Batch(w.page) IN
    /\ w.step = "list"
    /\ \E usable \in BOOLEAN :
           /\ usable \/ faults < MaxFaults
           /\ faults' = IF usable THEN faults ELSE faults + 1
           /\ IF batch = {}
              THEN usable /\ w' = [w EXCEPT !.step = "work"] /\ UNCHANGED <<row, wavered>>
              ELSE /\ row' = Reserved(batch, usable)
                   /\ wavered' = wavered \ {row'[m].request : m \in {n \in Media : row[n] = NoRow}}
                   /\ w' = [w EXCEPT !.page = @ + 1, !.approved = @ \cup batch,
                                     !.admitted = @ \cup {m \in Media :
                                         /\ usable /\ m \notin deleted
                                         /\ \E r \in batch : Wants[r] = m}]
    /\ UNCHANGED <<status, permit, deleted, decisions, deletes>>

\* `acquire` and `finalize` of a medium: no release is found, one is authorized, a download
\* is begun, or it is imported. A reservation that is not active is left alone.
Work(m) ==
    /\ w.step = "work" /\ m \in w.admitted
    /\ w' = [w EXCEPT !.admitted = @ \ {m}]
    /\ \/ UNCHANGED <<row, permit>>
       \/ /\ row[m].state = "reserved"
          /\ \E p \in {"authorized", "used"} : permit' = [permit EXCEPT ![m] = p]
          /\ permit[m] = "used" => permit'[m] = "used"
          /\ \/ UNCHANGED row
             \/ permit'[m] = "used" /\ row' = [row EXCEPT ![m].state = "imported"]
    /\ UNCHANGED <<status, deleted, wavered, counts>>

-----------------------------------------------------------------------------
(* Withdrawal *)

\* `reconcile`: the active reservations whose request was not listed in this cycle.
Check ==
    /\ w.step = "work" /\ w.admitted = {}
    /\ w' = [w EXCEPT !.step = "look",
                      !.check = {m \in Media : row[m].state = "reserved"
                                               /\ row[m].request \notin w.approved}]
    /\ UNCHANGED <<status, row, permit, deleted, wavered, counts>>

WithdrawnUnlisted(s) == TRUE   \* mutant
WithdrawnFound(s) == s \in {"pending", "declined"}   \* mutant
\* `get_request_status`: an unknown request is withdrawn, a completed one is not.
Withdrawn(s) == s \in {"absent", "removed", "pending", "declined"}

\* The status of one of them is read again ...
Look ==
    /\ w.step = "look"
    /\ IF w.check = {} THEN w' = Idle
       ELSE \E m \in w.check :
                w' = [w EXCEPT !.check = @ \ {m}, !.medium = m,
                               !.step = IF Withdrawn(status[row[m].request])
                                        THEN "cancel" ELSE "look"]
    /\ UNCHANGED <<status, row, permit, deleted, wavered, counts>>

\* ... and `cancel_unstarted` revokes an unused permit; a download is kept.
CancelUnstarted ==
    LET m == w.medium IN
    /\ w.step = "cancel" /\ w' = [w EXCEPT !.step = "look"]
    /\ IF row[m].state = "reserved" /\ permit[m] # "used"
       THEN /\ row' = [row EXCEPT ![m].state = "cancelled"]
            /\ permit' = [permit EXCEPT ![m] = "none"]
       ELSE UNCHANGED <<row, permit>>
    /\ UNCHANGED <<status, deleted, wavered, counts>>

\* A call fails, the cycle takes too long, or the worker dies.
Fault ==
    /\ w.step # "idle" /\ faults < MaxFaults /\ faults' = faults + 1
    /\ w' = Idle
    /\ UNCHANGED <<status, row, permit, deleted, wavered, decisions, deletes>>

-----------------------------------------------------------------------------
(* Seerr and the API *)

\* A request is made, approved, declined, taken back or removed.
Decide(r) ==
    /\ decisions < MaxDecisions /\ decisions' = decisions + 1
    /\ \E s \in {"pending", "approved", "declined", "removed"} \ {status[r]} :
           /\ status[r] \notin {"removed", "completed"}
           /\ status[r] = "absent" => s \in {"pending", "approved"}
           /\ status' = [status EXCEPT ![r] = s]
           /\ wavered' = IF s = "approved" THEN wavered ELSE wavered \cup {r}
    /\ UNCHANGED <<row, permit, deleted, w, faults, deletes>>

\* Seerr finds the medium in Jellyfin.
Available(m) ==
    /\ row[m].state = "imported" /\ \E r \in Approved : Wants[r] = m
    /\ status' = [r \in Requests |-> IF r \in Approved /\ Wants[r] = m THEN "completed"
                                     ELSE status[r]]
    /\ wavered' = wavered \cup {r \in Approved : Wants[r] = m}
    /\ UNCHANGED <<row, permit, deleted, w, counts>>

\* The API deletes a medium; its request is removed in Seerr by the worker later.
Delete(m) ==
    /\ m \notin deleted /\ deleted' = deleted \cup {m}
    /\ deletes < MaxDeletes /\ deletes' = deletes + 1
    /\ UNCHANGED <<status, row, permit, w, wavered, decisions, faults>>

Cycle == Begin \/ List \/ (\E m \in Media : Work(m)) \/ Check \/ Look \/ CancelUnstarted

Next ==
    \/ Cycle \/ Fault
    \/ \E r \in Requests : Decide(r)
    \/ \E m \in Media : Available(m) \/ Delete(m)

Spec == Init /\ [][Next]_vars

\* `_run_forever` runs one cycle after the other.
FairSpec == Spec /\ WF_vars(Cycle)

-----------------------------------------------------------------------------
(* Properties *)

\* tests/integration/test_request_cancellation.py, "checks missing approval before
\* cancelling": a request that has always been approved loses no reservation, whatever
\* happens to the other requests and their places in the pages.
ApprovedIsKept ==
    \A m \in Media : row[m].state = "cancelled" => row[m].request \in wavered

\* No page before that of r is taken for the end.
InReach(r) ==
    /\ r \in Approved \ Barren
    /\ \A k \in 1 .. Page(r) : \E q \in Approved \ Barren : Page(q) = k

\* docs/superpowers/specs/2026-09-21-homeserver-design.md:369: a request that stays approved,
\* and that no page of nothing usable hides, is read in the end, on whichever page it is: its
\* medium has had a reservation, though that may be another request's or cancelled since.
Admitted ==
    \A r \in Requests : <>[]InReach(r)
        => <>(row[Wants[r]].state # "none" \/ Wants[r] \in deleted)

\* docs/evidence/2026-09-23-download-gateway.md:29: a request that stays withdrawn, or is
\* gone, gives its reservation back in the end.
Released ==
    \A m \in Media : []<>(\/ row[m].state # "reserved" \/ permit[m] = "used"
                          \/ status[row[m].request] \in {"approved", "completed"})
=============================================================================
