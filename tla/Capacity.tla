------------------------------ MODULE Capacity ------------------------------
(***************************************************************************)
(* Admission by space on two disks, with the storage registry installed.    *)
(* The worker reads the torrent queue through the gateway, then measures    *)
(* the disks, then issues a permit on the first disk where the torrent fits *)
(* beside everything already promised there; the gateway adds the torrent   *)
(* later, when it is asked to. Between any two of these steps torrents      *)
(* download, permits expire, requests are lost, media are imported and      *)
(* deleted, other programs use the disks and a disk goes away.              *)
(***************************************************************************)
EXTENDS Integers, FiniteSets, FiniteSetsExt, ByteSums

CONSTANTS
    Torrents,    \* one physical source of each reservation, with its probe if it has one
    Size,        \* budget_bytes: the exact bytes of each torrent
    Total,       \* bytes of each disk
    Probes,      \* torrents admitted as a trial of a faster source
    Packs,       \* torrents that are packs of a season
    MaxForeign,  \* bytes other programs may come to take of each disk
    MaxOffline,  \* times a disk may go away
    MaxFaults,   \* answers and requests that may be lost, and permits that may expire
    MaxDeletes   \* media the user may delete

Disks == {"ssd", "hdd"}

ASSUME CapacityAssumption ==
    /\ IsFiniteSet(Torrents) /\ "none" \notin Torrents
    /\ Probes \subseteq Torrents /\ Packs \subseteq Torrents
    /\ Size \in [Torrents -> Nat \ {0}] /\ Total \in [Disks -> Nat] /\ MaxForeign \in [Disks -> Nat]
    /\ {MaxOffline, MaxFaults, MaxDeletes} \subseteq Nat

VARIABLES
    permit,   \* the state of each torrent's row; "expired": authorized, past its expiry
    place,    \* the disk of the row (pool_id)
    live,     \* rows whose reservation is active and whose import is not complete
    queue,    \* torrents in qBittorrent
    left,     \* amount_left of each
    asked,    \* requests to add that the gateway has not handled
    trial,    \* probes not yet judged
    foreign,  \* bytes other programs have taken of each disk
    online,   \* disks whose mount, identity and snapshot are in order
    turn,     \* torrents the worker's cycle has still to visit
    w,        \* the worker
    gone,     \* times a disk has gone away
    faults,
    deletes

rows == <<permit, place, live>>
torrents == <<queue, left>>
disks == <<foreign, online, gone>>
counters == <<faults, deletes>>
vars == <<rows, torrents, asked, trial, disks, turn, w, counters>>

States == {"none", "authorized", "expired", "dispatching", "unknown", "confirmed", "revoked",
           "rejected"}
NoEvidence == [queue |-> {}, left |-> Size, verified |-> {}, pools |-> {}, free |-> Total]
Idle == [step |-> "idle", torrent |-> "none", ev |-> NoEvidence]

-----------------------------------------------------------------------------
(* What is on the disks, and what has been promised *)

On(d) == {t \in Torrents : place[t] = d}

\* What the downloads have written and other programs have taken.
Written(d) == Sum([t \in On(d) \cap queue |-> Size[t] - left[t]])
Free(d) == Total[d] - Written(d) - foreign[d]

Types ==
    /\ permit \in [Torrents -> States] /\ place \in [Torrents -> Disks \cup {"none"}]
    /\ \A t \in Torrents : permit[t] \notin {"none", "revoked"} => place[t] \in Disks
    /\ live \subseteq Torrents /\ queue \subseteq Torrents /\ asked \subseteq Torrents
    /\ left \in [Torrents -> Nat] /\ \A t \in Torrents : left[t] <= Size[t]
    /\ trial \subseteq Probes /\ foreign \in [Disks -> Nat]
    /\ online \subseteq Disks /\ turn \subseteq Torrents
    /\ w \in [step : {"idle", "queue", "disks"}, torrent : Torrents \cup {"none"},
              ev : [queue : SUBSET Torrents, left : [Torrents -> Nat], verified : SUBSET Disks,
                    pools : SUBSET Disks, free : [Disks -> Nat]]]
    /\ w.step # "idle" => w.torrent \in Torrents
    /\ gone \in 0 .. MaxOffline /\ faults \in 0 .. MaxFaults /\ deletes \in 0 .. MaxDeletes

\* The types, and that no disk holds more than it can.
TypeOK == Types /\ \A d \in Disks : Free(d) >= 0

Init ==
    /\ permit = [t \in Torrents |-> "none"] /\ place = [t \in Torrents |-> "none"]
    /\ live = Torrents /\ queue = {} /\ left = Size /\ asked = {} /\ trial = Probes
    /\ foreign = [d \in Disks |-> 0] /\ online = Disks
    /\ turn = Torrents /\ w = Idle /\ gone = 0 /\ faults = 0 /\ deletes = 0

\* `StorageRegistry.inspect` and `resolve`: the mount, the device and the UUID are those
\* of the registered disk.
Present(d) == d \in online

\* `prepare_destination` and `validate_destination`: the directory is named after the
\* permit and claimed for one disk when it is made; only the disk can be missing.
Destination(d) == Present(d)

CountedKnown(t) == t \in live /\ permit[t] \in {"authorized", "dispatching", "confirmed"}   \* mutant

\* The rows `_pending_bytes` counts: an active reservation, a state that may still
\* put bytes on the disk, no complete import, and an authorization not yet expired.
Counted(t) == t \in live /\ permit[t] \in {"authorized", "dispatching", "unknown", "confirmed"}

\* `_pending_bytes`: what the queue had left when it was read, and the whole budget of
\* a counted row that was not in it.
Pending(d, ev) ==
    Sum([t \in {t \in On(d) : t \in ev.queue \/ Counted(t)} |->
            IF t \in ev.queue THEN ev.left[t] ELSE Size[t]])

\* `_select_pool`: the disks of the evidence that are still there and where the torrent
\* fits whole, by the smaller of the two measures.
Placements(t, ev) ==
    {d \in ev.pools : Destination(d) /\ Size[t] <= Min({ev.free[d], Free(d)}) - Pending(d, ev)}
First(D) == IF "ssd" \in D THEN "ssd" ELSE "hdd"

\* `placement_valid`: the disk of the row is the one that is mounted.
PlacementValid(t) == Destination(place[t])

\* The gateway's `_configured_capacity`, measured within one request.
Now == [queue |-> queue, left |-> left, verified |-> online, pools |-> online,
        free |-> [d \in Disks |-> Free(d)]]
Over(d, ev) == Pending(d, ev) > ev.free[d]

-----------------------------------------------------------------------------
(* The worker *)

StartCycle ==
    /\ w.step = "idle" /\ turn = {} /\ turn' = Torrents
    /\ UNCHANGED <<rows, torrents, asked, trial, disks, w, counters>>

Outlived(t) == permit[t] = "expired" /\ t \in Probes
Wanting(t) == t \in live /\ permit[t] \in {"none", "expired"} /\ ~ Outlived(t)
Judged(t) == t \in (live \cap trial) \ asked /\ permit[t] \in {"authorized", "confirmed"}
Uncertain(t) == t \in live /\ permit[t] \in {"dispatching", "unknown"}

\* A visit that finds nothing to decide by space.
Skip(t) ==
    /\ w.step = "idle" /\ t \in turn /\ turn' = turn \ {t}
    /\ ~ Wanting(t) /\ ~ Judged(t) /\ ~ Uncertain(t) /\ ~ Outlived(t)
    /\ UNCHANGED <<rows, torrents, asked, trial, disks, w, counters>>

\* `_monitor_probe` gives up a probe that was not added in time (SourceTrial has the other
\* ends of a trial).
GiveUp(t) ==
    /\ w.step = "idle" /\ t \in turn /\ turn' = turn \ {t} /\ Outlived(t)
    /\ permit' = [permit EXCEPT ![t] = "rejected"] /\ trial' = trial \ {t}
    /\ UNCHANGED <<place, live, torrents, asked, disks, w, counters>>

\* `_reconcile_uncertain_source`: an absent torrent leaves its row as it is.
Reconcile(t) ==
    /\ w.step = "idle" /\ t \in turn /\ turn' = turn \ {t} /\ Uncertain(t)
    /\ permit' = IF t \in queue /\ PlacementValid(t) THEN [permit EXCEPT ![t] = "confirmed"]
                 ELSE permit
    /\ UNCHANGED <<place, live, torrents, asked, trial, disks, w, counters>>

\* `queue_entry` of every torrent: its disk, what it has left, and whether the disk is
\* verified at this moment.
QueueEntries == [NoEvidence EXCEPT !.queue = queue, !.left = left,
                                   !.verified = {d \in Disks : Destination(d)}]

\* `retire_expired`, then `read_capacity_evidence` asks the gateway for the queue.
ReadQueue(t) ==
    /\ w.step = "idle" /\ t \in turn /\ turn' = turn \ {t}
    /\ Wanting(t) \/ Judged(t)
    /\ permit' = IF permit[t] = "expired" THEN [permit EXCEPT ![t] = "none"] ELSE permit
    /\ place' = IF permit[t] = "expired" THEN [place EXCEPT ![t] = "none"] ELSE place
    /\ w' = [step |-> "queue", torrent |-> t, ev |-> QueueEntries]
    /\ UNCHANGED <<live, torrents, asked, trial, disks, counters>>

VerifiedRows(ev) == {place[t] : t \in Torrents}   \* mutant

VerifiedAll(ev) ==   \* mutant
    IF \A t \in ev.queue : place[t] \in ev.verified THEN online ELSE {}

\* `_registered_capacity`: a disk is left out when it is absent, or when the queue holds
\* a torrent of it that was not verified; the other one stays.
Verified(ev) == {d \in Disks : Present(d) /\ ((\E t \in ev.queue : place[t] = d) => d \in ev.verified)}

ReadDisks ==
    /\ w.step = "queue"
    /\ LET pools == Verified(w.ev)
       IN  w' = IF pools = {} THEN Idle
                ELSE [w EXCEPT !.step = "disks", !.ev.pools = pools,
                               !.ev.free = [d \in Disks |-> IF d \in pools THEN Free(d) ELSE 0]]
    /\ UNCHANGED <<rows, torrents, asked, trial, disks, turn, counters>>

\* `_monitor_probe` compares the default disk, before it asks again for a probe that was
\* not added and when one was measured faster.
WorkerOver(t, ev) == Over("ssd", ev)

Issues == Wanting(w.torrent) /\ Placements(w.torrent, w.ev) # {}
Compares == Judged(w.torrent) /\ "ssd" \in w.ev.pools   \* it raises without the default disk
Rejects == Compares /\ WorkerOver(w.torrent, w.ev)

\* The gateway compares the probe's own disk before it promotes it.
Promotes ==
    /\ Compares /\ ~ Rejects /\ permit[w.torrent] = "confirmed"
    /\ PlacementValid(w.torrent) /\ ~ Over(place[w.torrent], Now)
AsksAgain == Compares /\ ~ Rejects /\ permit[w.torrent] = "authorized"

\* `issue` and `issue_probe`, one transaction; the request to add follows.
Issue ==
    /\ w.step = "disks" /\ Issues /\ w' = Idle
    /\ permit' = [permit EXCEPT ![w.torrent] = "authorized"]
    /\ place' = [place EXCEPT ![w.torrent] = First(Placements(w.torrent, w.ev))]
    /\ asked' = asked \cup {w.torrent}
    /\ UNCHANGED <<live, torrents, trial, disks, turn, counters>>

RejectProbe ==
    /\ w.step = "disks" /\ Rejects /\ w' = Idle
    /\ permit' = [permit EXCEPT ![w.torrent] = "rejected"] /\ trial' = trial \ {w.torrent}
    /\ UNCHANGED <<place, live, torrents, asked, disks, turn, counters>>

PromoteProbe ==
    /\ w.step = "disks" /\ Promotes /\ w' = Idle /\ trial' = trial \ {w.torrent}
    /\ UNCHANGED <<rows, torrents, asked, disks, turn, counters>>

AskAgain ==
    /\ w.step = "disks" /\ AsksAgain /\ w' = Idle /\ asked' = asked \cup {w.torrent}
    /\ UNCHANGED <<rows, torrents, trial, disks, turn, counters>>

\* "waiting_space", an inactive reservation, or a probe to be judged another time.
Wait ==
    /\ w.step = "disks" /\ ~ Issues /\ ~ Rejects /\ ~ Promotes /\ ~ AsksAgain /\ w' = Idle
    /\ UNCHANGED <<rows, torrents, asked, trial, disks, turn, counters>>

Worker ==
    \/ StartCycle \/ ReadDisks \/ Issue \/ Wait \/ RejectProbe \/ PromoteProbe \/ AskAgain
    \/ \E t \in Torrents : Skip(t) \/ GiveUp(t) \/ Reconcile(t) \/ ReadQueue(t)

-----------------------------------------------------------------------------
(* The gateway *)

\* `torrents/add` up to the claim of the permit; a refusal leaves the row as it was.
Claim(t) ==
    /\ t \in asked /\ asked' = asked \ {t}
    /\ permit' = IF permit[t] = "authorized" /\ PlacementValid(t)
                 THEN [permit EXCEPT ![t] = "dispatching"] ELSE permit
    /\ UNCHANGED <<place, live, torrents, trial, disks, turn, w, counters>>

\* `dispatch`: the disk is looked at again, and a probe's space measured again.
Refused(t) == ~ PlacementValid(t) \/ (t \in Probes /\ Over(place[t], Now))

Add(t) ==
    /\ permit[t] = "dispatching" /\ t \notin queue
    /\ IF Refused(t) THEN permit' = [permit EXCEPT ![t] = "unknown"] /\ queue' = queue
       ELSE permit' = [permit EXCEPT ![t] = "confirmed"] /\ queue' = queue \cup {t}
    /\ UNCHANGED <<place, live, left, asked, trial, disks, turn, w, counters>>

\* The answer of qBittorrent is lost, whatever it did.
AddLost(t) ==
    /\ permit[t] = "dispatching" /\ ~ Refused(t)
    /\ faults < MaxFaults /\ faults' = faults + 1
    /\ permit' = [permit EXCEPT ![t] = "unknown"] /\ queue' \in {queue, queue \cup {t}}
    /\ UNCHANGED <<place, live, left, asked, trial, disks, turn, w, deletes>>

Gateway == \E t \in Torrents : Claim(t) \/ Add(t)

-----------------------------------------------------------------------------
(* The rest of the host *)

\* A request never reaches the gateway, or the thirty minutes of a permit pass.
Lose(t) ==
    /\ t \in asked /\ asked' = asked \ {t} /\ faults < MaxFaults /\ faults' = faults + 1
    /\ UNCHANGED <<rows, torrents, trial, disks, turn, w, deletes>>
Expire(t) ==
    /\ permit[t] = "authorized" /\ permit' = [permit EXCEPT ![t] = "expired"]
    /\ faults < MaxFaults /\ faults' = faults + 1
    /\ UNCHANGED <<place, live, torrents, asked, trial, disks, turn, w, deletes>>

\* `cancel_unstarted`, by the worker between two visits.
Cancel(t) ==
    /\ w.step = "idle" /\ t \in live /\ permit[t] \in {"none", "authorized", "expired"}
    /\ faults < MaxFaults /\ faults' = faults + 1
    /\ live' = live \ {t}
    /\ permit' = IF permit[t] = "none" THEN permit ELSE [permit EXCEPT ![t] = "revoked"]
    /\ UNCHANGED <<place, torrents, asked, trial, disks, turn, w, deletes>>

\* A rejected probe is stopped and keeps what it has.
Download(t) ==
    /\ t \in queue /\ left[t] > 0 /\ permit[t] # "rejected" /\ PlacementValid(t) /\ Free(place[t]) > 0
    /\ left' = [left EXCEPT ![t] = @ - 1]
    /\ UNCHANGED <<rows, queue, asked, trial, disks, turn, w, counters>>

\* The import of a movie or of an episode's own torrent is complete. The imports of a
\* pack's episodes are recorded under keys of their own: its row is never one of those
\* `_pending_bytes` leaves out.
Import(t) ==
    /\ t \in live \ Packs /\ t \notin trial
    /\ permit[t] = "confirmed" /\ t \in queue /\ left[t] = 0 /\ PlacementValid(t)
    /\ live' = live \ {t}
    /\ UNCHANGED <<permit, place, torrents, asked, trial, disks, turn, w, counters>>

\* The user deletes everything a torrent serves: `delete-source` removes torrent and
\* payload, and no statement touches the row.
Delete(t) ==
    /\ deletes < MaxDeletes /\ deletes' = deletes + 1
    /\ t \in queue /\ permit[t] = "confirmed" /\ left[t] = 0 /\ PlacementValid(t)
    /\ t \in live => t \in Packs
    /\ queue' = queue \ {t}
    /\ UNCHANGED <<rows, left, asked, trial, disks, turn, w, faults>>

Foreign(d) ==
    /\ \/ foreign[d] < MaxForeign[d] /\ Free(d) > 0 /\ foreign' = [foreign EXCEPT ![d] = @ + 1]
       \/ foreign[d] > 0 /\ foreign' = [foreign EXCEPT ![d] = @ - 1]
    /\ UNCHANGED <<rows, torrents, asked, trial, online, gone, turn, w, counters>>

Leave(d) ==
    /\ d \in online /\ gone < MaxOffline /\ gone' = gone + 1 /\ online' = online \ {d}
    /\ UNCHANGED <<rows, torrents, asked, trial, foreign, turn, w, counters>>
Return(d) ==
    /\ d \notin online /\ online' = online \cup {d}
    /\ UNCHANGED <<rows, torrents, asked, trial, foreign, gone, turn, w, counters>>

Host ==
    \/ \E t \in Torrents : AddLost(t) \/ Lose(t) \/ Expire(t) \/ Cancel(t) \/ Download(t)
                           \/ Import(t) \/ Delete(t)
    \/ \E d \in Disks : Foreign(d) \/ Leave(d) \/ Return(d)

Next == Worker \/ Gateway \/ Host

Spec == Init /\ [][Next]_vars

\* The worker's loop and the gateway go on; nothing else has to happen.
FairSpec == Spec /\ WF_vars(Worker) /\ \A t \in Torrents : WF_vars(Claim(t)) /\ WF_vars(Add(t))

-----------------------------------------------------------------------------
(* Properties *)

\* What may still be written of what has been admitted on a disk.
Promised(t) == permit[t] \in {"authorized", "dispatching", "unknown"}
Due(t) == IF t \in queue THEN left[t] ELSE Size[t]
Owed(d) ==
    Sum([t \in {t \in On(d) : t \in queue \/ Promised(t)} |-> Due(t)])

\* Whatever was stale when each torrent was admitted, everything admitted on a disk can
\* be written whole beside what has been written there, if other programs give back
\* what they took. "descontar somente compromissos do pool avaliado. Incluir os bytes
\* restantes de torrents pausados da fila, sem descontar novamente bytes já alocados.
\* Um torrent confirmado conta uma vez", and "Nunca somar os livres para aceitar um
\* torrent que não cabe inteiro em nenhum disco"
\* (docs/superpowers/specs/2026-10-02-storage-ssd-hdd-design.md:102).
Committed == \A d \in Disks : Owed(d) + Written(d) <= Total[d]

\* What Committed relies on.  A row that may still put bytes on a disk belongs to an active
\* reservation, and until its torrent is added nothing of it is written.
RowsOK == \A t \in Torrents :
    /\ Promised(t) => t \in live
    /\ permit[t] \in {"none", "authorized", "expired", "dispatching", "revoked"} => t \notin queue
    /\ t \notin queue /\ permit[t] \notin {"confirmed", "rejected"} => left[t] = Size[t]

\* Old evidence errs on the safe side only.  A torrent has no more left than when the queue
\* was read; one added since is still counted, or has nothing left; one that has left the
\* queue since is not admitted again before the worker's visit ends.
EvidenceOK == w.step # "idle" => \A t \in Torrents :
    /\ t \in queue \cap w.ev.queue => left[t] <= w.ev.left[t]
    /\ t \in queue \ w.ev.queue => Counted(t) \/ left[t] = 0
    /\ t \in w.ev.queue \ queue => ~ Promised(t)

IInv == TypeOK /\ RowsOK /\ EvidenceOK /\ Committed

\* A torrent without a permit that a present disk has room for.
Waits(t) ==
    /\ Wanting(t)
    /\ \E d \in online : Size[t] + Owed(d) <= Free(d)

\* A request that fits is not left waiting, not by a disk that is away either: "Pedidos
\* sem espaço permanecem pendentes e retomam automaticamente após liberação de
\* capacidade" (docs/superpowers/specs/2026-09-21-homeserver-design.md:108, D15), "HD
\* ausente deixa seus pedidos aguardando armazenamento; o SSD continua útil"
\* (2026-10-02-storage-ssd-hdd-design.md:156).
RoomIsGiven == \A t \in Torrents : []<> ~ Waits(t)
=============================================================================
