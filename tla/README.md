# The admission controller of homelab-mediaserver

The repository is a home media server: Seerr takes requests, Radarr and Sonarr
know the libraries, qBittorrent downloads, Jellyfin plays. Its own program is the
controller that stands between them: it admits a request only against disk
space, gives every torrent a single-use permit, watches a slow download and
replaces it, hands a finished download to Radarr or Sonarr, and carries out
deletions asked for in Jellyfin. This directory models that controller.

Paths below are relative to `services/control/src/homeserver_control/` unless they
start with `services/` or `docs/`.

## Inventory

| Component | State | Operations |
|---|---|---|
| Reservation repository (`persistence/db.py`) | `requests`, `reservations`, `movie_imports`, `episode_imports` | reserve, claim/record/complete an import, withdraw, normalise budgets at start |
| Permit registry (`gateway/permits.py`, `gateway/probe_permits.py`) | `gateway_permits`, `source_handovers`, `season_pack_episodes` | issue, bind a pack, probe, promote, reject, replace, renew, retire, cancel, authorize, reconcile |
| Download gateway (`gateway/app.py`) | none of its own; the only client of qBittorrent | add, delete a source, decide a probe, read or stop a source, reconcile, reorder the queue, repair metadata |
| Acquisition (`worker/acquisition.py`, `series_acquisition.py`, `source_probe.py`) | which releases it posted (memory) | per cycle and title: retire, look up, choose a release, issue, bind, probe, monitor, replace |
| Finalization (`worker/finalization.py`, `series_finalization.py`) | none | validate files and subtitles, claim, command Radarr or Sonarr, record, complete |
| Worker cycle (`worker/runtime.py`, `__main__.py`, `scheduler.py`, `cancellation.py`) | heartbeat row, recovery flag | capacity, one deletion, reconciliation, admission, acquisition, finalization, withdrawal, queue priority |
| Deletion coordinator and jobs (`worker/deletion_coordinator.py`, `persistence/deletion_jobs.py`, `api/deletion_capture.py`) | `deletion_jobs`, `tombstones` | capture, staged execution, season purge, retry or block |
| Source health (`worker/source_health.py`, `tracker_availability.py`) | observation windows per permit | observe, decide to replace, promote or reject |
| Capacity evidence and pools (`worker/capacity_evidence.py`, `services/common/.../storage.py`) | a snapshot per pool | measure, sum pending bytes, choose a pool |
| Download window and queue priority (`worker/series_acquisition.py`, `movie_priority.py`, gateway `prioritize-movies`) | none | which episodes may download, which torrents run |
| Release choice, subtitles, torrent parsing, media validation | artifact stores | pure functions over names, bytes and ffprobe output |
| Native configuration (`configuration/`) | credentials file | reconcile the services' settings once |
| Control API (`api/`), service adapters (`adapters/`) | none | views, webhook, HTTP |
| Common tools and telemetry (`services/common`, `services/telemetry`) | alert states | command line, rendering, status page, notifications |

Interaction. Two processes write the admission database: the **worker**, one
sequential asyncio loop, and the **gateway**, a web service. Each write is one
SQLite transaction (`BEGIN IMMEDIATE`). They call each other over HTTP: the worker
asks the gateway to add, delete, promote, reject or reconcile and waits 15 seconds;
Radarr and Sonarr call the gateway's add with no token. So a gateway handler may
finish long after the worker stopped waiting for it, and the database is all
they share.

What is hard: the worker awaits between reading a permit and acting on it; the
gateway's add is three steps (claim, qBittorrent, outcome) with a lost answer or a
crash between them; permits expire while they are being used; a season pack and
single episodes own the same media by different rows; a probe and its parent hold
one slot until a promotion or a rejection; withdrawal and deletion arrive at any
point; a deletion is a sequence of external effects resumed by stage.

What makes each component correct: a slot has one active source and a permit is
spent once (registry); what qBittorrent holds is on record and was wanted when it
was added (gateway); a probe never costs the slot its source (acquisition); an
import keeps its source, and a copy import has the disk for itself (finalization); a
budget covers what was admitted (reservations); a deletion removes what it names,
all of it, and nothing else (deletion).

## Modules

| Module | Models |
|---|---|
| `PermitRegistry` | constants, the shared variables, and the queries and updates that several transactions share |
| `Acquisition` | the worker's admission, permits, packs, probes, replacement, withdrawal; expiry, abort and restart |
| `Importing` | the worker's imports |
| `Deletion` | tombstones, removal of sources, season purge |
| `Gateway` | the gateway's handlers, its three-step add and its crash |
| `Controller` | composes them: `Init`, `Next`, `Spec`, the properties and the inductive invariant `IInv` |
| `MCController` | the instances for TLC |
| `ControllerProofs` | the theorems |
| `Erasure` | abstract: what deleting media promises, whatever the order of the work |
| `DeletionJobs` | the staged deletion jobs, their queue, and the services they act on; implements `Erasure` |
| `MCDeletionJobs` | the instances for TLC |
| `DeletionJobsProofs` | their theorems |
| `SourceTrial` | the trial of a candidate: the worker's measurements and the gateway's handler that promotes or rejects |
| `SourceTrialProofs` | its theorems |
| `SourceReplacement` | one medium without live trials: grab, measure, stop, supersede, add another source, over calls that fail or arrive late |
| `SourceReplacementProofs` | its theorems |
| `SeriesWindow` | which episodes of a series may download together, and the pack that replaces the dead sources of a season |
| `MCSeriesWindow`, `SeriesWindowProofs` | its instance for TLC, its theorems |
| `MediaImports` | the finalizers beside Radarr and Sonarr: validation, claim, command, confirmation, and the order of the episodes |
| `MCMediaImports`, `MediaImportsProofs` | its instance for TLC, its theorems |
| `RequestCycle` | one cycle of the worker over Seerr's pages: deletion jobs, admission, visits, withdrawal |
| `MCRequestCycle`, `RequestCycleProofs` | its instance for TLC, its theorems |
| `Capacity` | the evidence of a cycle, the choice of a disk, and what is promised on it until it is written |
| `MCCapacity`, `CapacityProofs` | its instance for TLC, its theorems |
| `ByteSums` | sums of bytes, for `PermitRegistry`, `Capacity` and `SeriesWindow` |

`Deletion` and `DeletionJobs` see the same code from two sides: `Deletion` has what a
deletion does to the admission database, where the gateway and the imports can meet it;
`DeletionJobs` has the order of its stages over all the services, and reduces the
database to the tombstones.

State. `resv`, `request` and `budget` are the columns of `reservations` and `requests`;
`state`, `row`, `probeOf`, `expired` the columns of `gateway_permits` (`row` holds those
that never change; `"free"` is an id not generated yet, `"deleted"` a row that is gone);
`binding` is `season_pack_episodes`, `handover` is `source_handovers`; `movieImport`
and `episodeImport` are the import tables, the second keyed by permit and episode,
which for a pack is the `<permit>:<scope>` identity of its view. `tombstone` holds
media keys, `<<r, NoScope>>` for a movie or a season and `<<r, e>>` for an episode.
`torrents` is what qBittorrent has accepted and not been told to delete. `call` is the
program counter of `authorize`, `worker` that of a worker task which spans an await
or a second transaction. The states `reserved`, `downloading` and
`waiting_episodes` of a reservation are one (`Live`), as in every query.

Actions. Each action is one transaction with every guard and write of its code, or
the gateway's call to qBittorrent. A refusal changes nothing and is the action not
being enabled. While `worker` is not idle, only the continuation of its task, its
failure, a restart, and the gateway's actions are possible, as in the sequential loop;
a failure may happen at any await (an HTTP error, the cycle's 900 s limit).
Gateway handlers need no pending request of the worker, because they may run late.
The gateway runs `authorize` to the end without yielding, so its other handlers wait
for it. The guard of a probe's or pack's add is held in a transaction over the add;
that transaction is the step `AddTorrent`.

The deletion jobs. `stage`, `children` and `queue` are the table `deletion_jobs` (`queue` is the
order of `updated_at` among unfinished jobs, which `set_stage` and `touch` renew); `active` is
the job `_process` works on. The other variables are the services: `source` is a torrent
(`"unlinking"` when qBittorrent has forgotten it and not yet unlinked the payload), `file` a
library file (`"replaced"` when it is no longer the captured one), `record` Radarr's movie or
Sonarr's episode file, `deleting` the library files these were told to delete and have not yet,
`requests` and `caches` Seerr's, `catalogue` Jellyfin's. The check of a file's identity comes with the
request to delete it (`AskFile`); `RemoveFile` carries it out at any later time, by the id of the record,
whatever file that is by then and whatever became of the worker. Each action is
one call of `_process` that changes something, then `Advance` is the `set_stage` that records
it, and between any two of them the attempt may end: `Retry` (a transient failure: the job
goes to the end of the queue), `Block` (a doubt about identity), or `Crash` (the worker
dies, or the cycle ends in an exception `run_once` does not name: the queue is unchanged). The
stages' checks are the guards of the effect and of `Advance`; `Doomed` names the states
in which a job is certain to be blocked.

The trial. `Controller` lets a probe be promoted or rejected at any time, for any reason;
`SourceTrial` is how that is decided, for one candidate. `trial` is its row of `source_probes`
(`seen` is `last_observed_at`), `candidate` the state of the permits, `asked` the requests
on their way to the gateway, `call` the handlers that wait for a torrent to be stopped.
`Monitor` is a look of the worker (`_monitor_probe` with `probe_decision`); its readings of
seeds and speed are any, the bytes are those of the model. `run` tells three reasons apart
why a torrent moves or not: it is on, waits (the queue, or the operator), or was stopped
by the gateway; the operator may resume it always. A stop is asked for and in force at two
different times: `told` holds the torrents that qBittorrent was told to stop, `Obey` stops
them, and the handler that asked waits in `call` and reads again (`ConfirmReject`,
`CompleteHandover`), while the gateway serves other requests. A promotion is four steps: it reads both
torrents (`Read`), after the measurement of the disk checks the row (`Verify`, which keeps it in
`proof`), changes the permits (`Promote`), and tells the source to stop (`StopSource`). A request may be
lost, or arrive after the worker has gone on. Not modelled there: the recovery of a candidate that is not yet
confirmed (`Controller` has it), removed torrents, protected sources, and torrents that
lose bytes in a recheck. Both readings of a look of the worker are taken at one instant, and no unit
of time passes between `Verify` and `Promote`.

The other five modules each take one question that `Controller` leaves open and answer it in detail, with
the rest of the system reduced to what the question needs.

`SourceReplacement`: what happens to one movie or episode when live trials are off. `row` is the row of
`source_health` (`still` the time since the last progress, `age` and `from` the window of the average,
`replacing` the note `mark_replacing` leaves), `permit` and `torrent` what the gateway and qBittorrent have,
`w` the worker's place in `acquire` and `_dispatch_replacement`, `late` the requests it gave up on. A visit is several steps: each
await is a place where the worker may die, the call fail, or the request be handled after the next visit
began. A late request is handled before the next visit's own, as the gateway serves them in turn. A stop or a
start is told to qBittorrent (`told`), which carries it out when it likes (`Obey`); the handler reads again
(`Confirm`) and answers with the effect, or with "source completed during stop". `Begin` assumes that nothing told
in an earlier visit is still on its way: looks are at least 60 s apart and a search for releases lies between them, while
the gateway gives qBittorrent five seconds. `quiet` and
`lull` are history: how long no byte came, and how long while the torrent was downloading. The torrent store
fails only with the worker; live trials are off in every step, `Handover` says whether they left a pending
handover.

`SeriesWindow`: `slot` says what serves each episode, `permit`, `left` and `run` describe the torrents,
`turn` the seasons the cycle has still to visit, `w` the worker with the plan it made (which torrents to stop
and start), `late` the requests still on their way, `told` what qBittorrent was told and has not done. The
gateway looks at the torrent and tells qBittorrent in one step (`Handle`, `HandleLate`: there is no await between the two),
and `source-state` alone reads again and answers "source completed during stop" (`Confirm`); `series-queue-state`
answers at once, whatever becomes of the torrent. A visit reads the queue, plans
(`_select_download_window`), sends stops before starts, then asks for one release or tries to bind a pack.
After a stop or start that is refused, `_reconcile_existing_queue` returns and so does the visit; a season with a
confirmed pack asks for no episode. The priority of movies in qBittorrent's queue is not modelled.

`MediaImports`: `waiting` are the requests that a later cycle admits (`Admit`), `before` the requests of earlier
episodes that were active when the finalizer read that an episode's turn has come, `claim` the rows of `movie_imports` and `episode_imports` (a pack's by episode), `command`
what the Arrs were told and have not done, `library` the file of each medium and whether it is a link to the
source's payload, `promotion` a promotion between its stop and its write, `w` the finalizer's place. Radarr and
Sonarr act in their own time: a command may be carried out after the source changed.

`RequestCycle`: `status` are Seerr's requests, which people change between any two steps; `row` and `permit` the
reservation of a medium and whether it was used; `w` the worker's place, the page it reads next, the approved
requests it has read and the reservations it has still to check. `Barren` are requests that are approved but of which
Seerr lists no approved season: pages are cut with them and then filtered, and a page of which nothing is left is taken
for the last one. A failed step ends the cycle, and the next one
begins with the deletion jobs.

`Capacity`: `permit` and `place` are a torrent's row and its `pool_id`, `queue` and `left` qBittorrent's torrents,
`foreign` what other programs have taken, `online` the disks that `verify` accepts, `w` the worker with the
evidence it measured (`ev`) and has not yet used. The worker reads the queue, then the disks, then visits the
torrents one by one with that evidence; the gateway measures again when it adds. Each torrent has a reservation
of its own, and how a trial ends is left open (`SourceTrial` has it).

Merged steps, and why no interleaving is lost:

* `Claim` contains `find_for_metadata`/`find_for_magnet`: `authorize` repeats the tests
  on state and expiry, and the reservation of an authorized plain permit cannot close in
  between (`CancelledHasNoUse`, proved).
* `StartPurge` reads the inventory and writes the episodes' tombstones: these writes
  are idempotent and the gateway reads tombstones only for probes and packs, which
  the season's own tombstone refuses already.
* In `Controller` the polls of a promotion or rejection (stop, wait until stopped) are one step each;
  what they change in the database is changed at their end, and its properties say nothing of what runs.
  `SourceTrial`, `SourceReplacement` and `SeriesWindow` have them apart.

* A capture and its enqueue: the row of the first capture is kept, and a season is
  refused when one of its episodes has a job, so a capture that is late changes nothing.
* `delete-source` in `DeletionJobs` is one step with its last check, and the wait for the
  targeted update or the full scan of Jellyfin's library is `AskJellyfin` and `Forget`. The 20 s
  that a payload has to be unlinked end in `Retry` or in `Block`, at any time.

A sum of bytes is the number of the bytes summed (`Sum` of `ByteSums`), because the folds of the
community modules are recursive and no proof can unfold them. `SumAddsUp` of `MCCapacity` has TLC compare it
with the fold for every assignment of the run's torrents.

Data abstracted: a torrent is its infohash and its exact size; release choice is any
torrent that the transaction accepts; pool selection, quality ranks, path overlap and
measured health only refuse, so any outcome of them is allowed; finalization may claim
any episode, not only the first missing one (`MediaImports` has the order). `Admitted(r)` stands for the worker having
admitted the title in this cycle: `reserve` refuses a tombstone and the deletion stage
runs before, never during, acquisition.

## Runs

The runs of the controller use model values with symmetry over permits, torrents, movies
and episodes, and torrents of one unit. The worker may restart in every state, so
there is no deadlock to report and the check for it stays on. The runs of the deletion
jobs use no symmetry (they check liveness, and the queue orders the jobs) and allow
deadlock: when every job is finished there is nothing left to do.

| Run | Instance | Shows |
|---|---|---|
| `movie` | 1 movie, 3 torrents, 4 permits, probes on | three sources in a row, each probed, promoted or rejected: `SingleUse`, `ProbeAnchored`, `EveryTorrentIsOnRecord`, `BudgetCovers`, `ImportPinsSource` |
| `season` | 1 season of 1 episode, 3 torrents, 3 permits, probes on | episode, pack, probe and the purge of the season: `SeasonPurged`, `CancelledHasNoUse`, `AddIsAdmitted`, `HandoverSound` |
| `pack` | 1 season of 2 episodes, 2 torrents, 3 permits, probes off | pack and episodes side by side, recovery by pack, deletion of one episode, two imports: `SlotExclusive`, `RemovalIsExplicit`, `CopyImportAlone` |
| `trial` | 2 units to download, at most 2 per step of time, windows of 1, expiry at 4; stops take effect late | `LoserGivesWay`, `HandoverIsProven`, `VerdictStands`, `TrialEnds` |
| `trial_gap` | the same | the divergence below |
| `jobs_season` | 1 season of 2 episodes from one pack, either possibly never imported | any mix of single deletions and the season's: `JInv` (with it that the queue is the table's unfinished rows), `SeasonAllOrNothing`, `CompleteIsGone`, the refinement `Erases`, and `Settles` |
| `jobs_movies` | 2 movies, one of them not imported by the controller | the movie's stages, and files deleted late: `SourceBeforeFile` |
| `replacement` | 1 episode, 3 sources of one unit, one dead, a handover pending at first; 1 failure, 1 pause | `NewcomerAlone`, `CompleteIsKept`, `StallIsReal`, `Arrives` |
| `window` | 2 seasons of one episode, 1 place, the first's own source dead and a pack of it on offer; 3 bytes of disk, other programs may take 1; 1 failure | `SlotsHaveSources`, `EpisodeArrives`, `StoppedIsSettled` |
| `imports` | 1 movie with two sources, 2 seasons of one episode, the earlier one a pack and admitted at any time; 1 failure or deletion, 1 promotion | `CompleteIsTheSource`, `InOrder`, `Served` |
| `cycle` | 4 requests of 3 media on pages of one, the newest made later, and one of which nothing is approved; 2 decisions, 1 failure, 1 deletion | `ApprovedIsKept`, `Admitted`, `Released` |
| `space` | a torrent of 2 bytes and a probe of 1 on two disks of 2; 1 departure of a disk, 2 losses, 1 deletion | `TypeOK`, `Committed`, `RoomIsGiven`, and that `Sum` adds up |

The other runs with a liveness property use no symmetry either. `imports` may stop, when all is imported.

Bounds. A permit identity is used for one row, so `Permits` bounds the history, not the
number of live rows: four allow a source, its probe, the next source's probe and one
retry; three allow a pack, an episode's source and its probe, the smallest case in which
pack recovery meets a probe or handover. Two torrents make sharing and replacement
possible, three make it possible to try again after both. Two episodes are needed for
a pack that keeps one of them. The run `pack` leaves probes off, as the interplay of
packs with probes is in `season`.

In `trial` the windows are the shortest that have an inside and an outside: a candidate can start,
be measured, be forgotten after a gap, start again, and be promoted or expire, within four units;
two units of bytes tell nothing, part and all of a torrent apart. A source may stop counting
as slow at one unit of bytes per unit of time, and any reading of its speed may be taken. A stop has no
bound: it may take effect long after the handler that asked for it gave up.

In `jobs_season` two episodes are the smallest pack that must be retained for one and
removed after the other, and a season job with two children is the smallest in which one
child can block, fail or be replaced while the other goes on.

In `replacement` a unit of bytes is a whole torrent and the thresholds are two units of time: a look can find
the source fresh, silent for less than the threshold, and silent for all of it. Three sources are a former one, a
dead one and the one that serves. One failure at any step, with a late request, is what each property says
something about; ages beyond `Horizon` compare alike. In `window` one place makes every stop matter, two seasons of
one episode are the smallest series in which a season waits for an earlier one, and three bytes hold both
episodes and the pack, or leave one torrent without room when other programs take one. In `imports` the movie has
two sources so that a promotion may meet its import; the earlier season is served by a pack and is admitted before, while
or after the later one is imported. In `cycle` pages hold one request instead of 20, so that every decision shifts a page
boundary, and the barren request, when it is made, is a page of its own between the others. In `space` two
disks of two bytes hold the torrent of two on either, or the probe beside a half written one, never all.

Fairness. `Controller` states none: its properties are safety properties, and many outcomes
end with a person. `DeletionJobs` needs it for `Settles`, and assumes no more than this:

* `WF(Pick)`: the worker's cycle calls the coordinator every time (`worker/runtime.py:132`).
* `SF(Retry)`: every call has a timeout, so an attempt ends; and not every attempt ends in a
  crash. A failure that always escapes `run_once` would break this (listed as a hazard).
* `SF(Act(j))`, `SF(Doomed(j) /\ Block(j))`: a service that is asked again and again
  finally answers. It is strong fairness because each retry gives up the turn; that a turn
  comes again is not assumed but shown, from the rotation of the queue.
* `WF(Unlink(k))`, `WF(RemoveFile(i))`, `WF(Forget(j))`: qBittorrent, Radarr, Sonarr and Jellyfin finish what they began.

`SourceTrial` needs it for `TrialEnds`, which promises nothing for media that are no longer wanted:

* `SF(Tick)`, `WF(Monitor)`: time passes, and the worker's cycle comes back to every admitted title. It is strong for
  time because the model stops the clock between a promotion's check and its transaction.
* `WF(Abort)`: a handler polls 26 times and then gives up.
* `SF(Reject)`, `SF(ObeyPolled)`, `SF(ConfirmReject)`: a rejection that is asked for in every cycle finally reaches
  the gateway, not every stop takes longer than the handler polls, and the handler finally sees it.

The other modules count failures (`MaxFaults`), so that what they promise is promised after the last one; a
failure that never ends is a service that is down, and promises nothing.

* `WF` of the worker's next step (`Work`, `Worker`, `Cycle`), and of the handler of the request it waits for:
  `_run_forever` and the gateway's loop. `RequestCycle` needs nothing else; `Capacity` adds the gateway's `Claim` and `Add`.
* `SourceReplacement` and `SeriesWindow`: `WF` of time and expiry, of the Arr doing what it was asked, of qBittorrent
  obeying (`Obey`) and of its queue moving on, and `WF` or `SF` of a live torrent's progress. It is strong in `SourceReplacement` because a pause or a
  full queue interrupts a download again and again; dead torrents get none.
* `SF(Import(e))`, `SF(Erase(s))` in `SeriesWindow` and `SF(Visit(r))` in `MediaImports`: these happen between two visits of
  the worker, which is idle between any two steps of its loop, and each cycle has a turn for each of them.
* `WF(Import(p, i))`, `WF(Promote(i, p))`, `WF(Download(p))` in `MediaImports`: the Arrs, the gateway's handler and
  qBittorrent finish what they began.

## What the checks show

* One source per slot (`SlotExclusive`), although the database's unique index sees only
  equal scopes and packs own episodes through bindings.
* Permits are spent once (`SingleUse`), across lost answers and crashes.
* `AddIsAdmitted`: an add happens only for a row being dispatched and an open
  reservation; for probes and packs also only while the request stands and nothing
  is tombstoned. One exception is real and stated: the worker may reject a probe on a
  reading taken before an await (`worker/source_probe.py:110-117`), so that the gateway
  adds the torrent of a row that has just become `probe_rejected`. The torrent is still
  on record (`EveryTorrentIsOnRecord`), and a season's purge removes it.
* A probe never costs the slot its source (`ProbeAnchored`), and a half finished
  handover stays recoverable (`HandoverSound`).
* A source whose import began is not replaced, promoted over, or taken by a pack
  (`ImportPinsSource`). The converse is not promised: the claim does not re-read the
  permit (listed as a hazard).
* Deletion removes only torrents all of whose media were deleted (`RemovalIsExplicit`),
  and a season's bytes are released only when all of its torrents are gone
  (`SeasonPurged`).

* A season is deleted as a whole or not at all (`SeasonAllOrNothing`), although its episodes
  have jobs of their own in the same queue from the start.
* The deletion of a library file is asked for only while it is the captured one, and carried out, however late,
  only for tombstoned media and after its torrent has left the disk or while the torrent still serves others
  (`SourceBeforeFile`; a file that replaced the captured one meanwhile is an observation below); a completed job
  has left nothing (`CompleteIsGone`), whatever crashed, was retried, or was done twice.
* The jobs implement `Erasure` (`Erases`): shared things are removed exactly when all they serve
  is wanted gone. There a season's tombstone and completion stand for all its episodes.
* Every captured deletion is finally completed or handed to a person (`Settles`).

* Until a handover is committed nobody stops the source of a wanted medium or tells it to stop, and from then on nobody
  tells the candidate to (`LoserGivesWay`), although a rejection may arrive after the promotion that made it wrong and a
  stop takes effect late. A candidate that was told to stop before is the exception, below. A source gives
  way only to what was measured (`HandoverIsProven`), although the gateway uses the
  measurement of another program at another time.
* Verdicts are final (`VerdictStands`) and every trial ends (`TrialEnds`), at the latest by the
  expiry of the candidate's permit: waiting candidates are never judged, and a promotion that
  the gateway refuses for two minutes is never measured again.

* A torrent is added only when every other torrent of its medium has stopped (`NewcomerAlone`), with or without a
  handover left from live trials; a source that completes while it is being replaced, after it was told to stop and before
  it has, is kept (`CompleteIsKept`);
  what is replaced as stalled received nothing for the whole threshold (`StallIsReal`); and an episode with a live
  source on offer arrives in its confirmed source, the one the finalizers import (`Arrives`), or is left with an
  uncertain add, which goes to a person, or with a former source that somebody lets run.
* Wherever the recovery of a season by a pack breaks off, an episode has a source of its own exactly while that has an
  active permit, and is bound only to a pack that has one (`SlotsHaveSources`). A dead source blocks nothing behind it while a
  place is left (`EpisodeArrives`), and what a pack's recovery stopped before it was complete runs again or gives its slot to
  the pack (`StoppedIsSettled`), although stops take effect late.
* A complete import is the file of the medium's present source with its subtitle (`CompleteIsTheSource`); an episode
  enters the library after those of all the requests that were active when the finalizer read its turn (`InOrder`), however
  long Sonarr takes; whatever is downloaded is finally imported, unless a claim is never answered, orphaned, or overtaken
  by an earlier season (`Served`, whose exceptions are observations below).
* No request that stayed approved loses its reservation because a page shifted (`ApprovedIsKept`), every request that stays approved
  and that no page of nothing usable hides is finally read (`Admitted`), and one that is withdrawn gives back what it did not use (`Released`).
* What was admitted on a disk fits there, if other programs give back what they took (`Committed`), and a
  request that fits a present disk does not wait for ever, not for an absent disk either (`RoomIsGiven`).

### Divergence


`tests/integration/test_source_probe.py:183` is named
`test_probe_old_pause_recovery_and_worker_gap_are_not_speed_proof`. A gap ends the window only
after the candidate has started; while it is connecting no gap is examined
(`worker/source_health.py:182-187`), and the run `trial_gap` promotes after one.

### Observations

Met while modelling, and either admitted by the models (their properties are stated so that they hold with it)
or named as the condition under which a property holds:

* A plain permit authorized before a season's deletion is claimed and added after its tombstone, because `authorize`
  checks tombstones only for probes and packs (`gateway/permits.py:1838`), although `worker/deletion_coordinator.py:1045`
  says that the acquisition gates close immediately. The purge removes it again (`SeasonPurged`).
* A rejection is forgotten when the worker looks again between the stop and the change of the permit
  (`worker/source_health.py:173`); if the gateway then fails, nothing asks for it before the permit expires.
* A rejection tells the candidate to stop and polls; a promotion that the gateway serves meanwhile still reads it as
  downloading (`gateway/app.py:453`, `gateway/app.py:479`), commits the handover and stops the source
  (`gateway/app.py:508`). Then both are stopped, and the handover cannot be taken up again, because the candidate does not
  run (`gateway/app.py:478`). `LoserGivesWay` says what the code does hold to.
* A source that completes after it was told to stop, and before it has, stays complete and stopped: `source-state`
  answers "source completed during stop" and leaves it so (`gateway/app.py:573`), `series-queue-state` does not look
  again (`gateway/app.py:709`), no later start touches a complete torrent (`gateway/app.py:556`,
  `worker/series_acquisition.py:317`). It is imported, and does not seed.
* With live trials switched off, a handover whose former source still runs blocks every replacement of the new source,
  even of a dead one, because nothing but the trials stops the former one (`gateway/permits.py:1610`): the condition
  `AllStopped(Former)` of `Arrives`.
* The deletion of a library file checks its identity (`worker/deletion_coordinator.py:526`, `:553`) and then deletes by the
  id of its record (`:527`, `:554`): a file that was replaced in place between the two goes, though it is not the captured
  one.
* An earlier season that is admitted after a later episode's command was posted does not take it back: the later episode
  may enter first (`worker/series_finalization.py:473`). If that import is a copy, the two then wait for each other: the
  later one is not looked at before the earlier season is complete, and no claim succeeds beside a copy
  (`persistence/db.py:214`), of any other medium either: `Overtaken` in `Served`.
* A page of requests that are approved but of which nothing is usable ends the reading of all later pages
  (`adapters/seerr.py:87`, `worker/runtime.py:151`): `InReach` in `Admitted`.
* Waiting for a slot counts as failure of the swarm when no look falls into the wait (`worker/source_health.py:215`), and a
  pause between two looks counts in the average that finds a source slow (`worker/source_health.py:309`).
* The bytes of a stopped large torrent stay in the pending sum (`gateway/permits.py:200`), and those of a deleted pack
  stay for ever while its row is confirmed (`gateway/permits.py:187`): with it, `RoomIsGiven` fails, and the run
  has no packs.
* Only probes are measured again when they are added (`gateway/app.py:1263`); a plain permit is added on the evidence of
  its issue. `Committed` holds because other programs' bytes are excluded from it. The monitor compares a probe with
  the default disk, whichever disk the probe is on (`worker/source_probe.py:112`).
* A movie's replacement is not asked for again by the process that posted the first grab (`worker/acquisition.py:706`), so
  `Arrives` is checked for episodes.
* The claim of an import whose answer was lost, whose source was promoted over, or whose medium was deleted, stays
  for ever (`worker/finalization.py:592`, `persistence/db.py:232`, `persistence/db.py:223`): the exceptions of `Served`.
* A reservation is made for the first request of a medium and cancelled with it; another approved request of the same
  medium, or the same one approved again, then finds the cancelled row and is not served (`persistence/db.py:107`,
  `persistence/db.py:111`). `Admitted` asks for a row of the medium, which may be another request's or a cancelled one, not for a download.
* An exception that `run_once` does not name ends the cycle at a stuck deletion job, cycle after cycle
  (`worker/runtime.py:134`): with `Stuck`, `Admitted` of `RequestCycle` fails, and the run has none.

## What is proved

`ControllerProofs`, with TLAPS, for any finite or infinite sets of movies, seasons, episodes,
torrents and permits, from the named assumptions of `PermitRegistry` (the sets are
disjoint and the null values are outside them):

| Theorem | Statement |
|---|---|
| `Invariance` | `Spec => []IInv` |
| `TypeCorrect`, `SlotsAreExclusive`, `ProbesAreAnchored`, `CancelledIsUnused` | the invariants `TypeOK`, `SlotExclusive`, `ProbeAnchored`, `CancelledHasNoUse` |
| `TorrentsAreOnRecord`, `HandoversAreSound`, `CopiesAreAlone` | the invariants `EveryTorrentIsOnRecord`, `HandoverSound`, `CopyImportAlone` |
| `PermitsAreSingleUse`, `AddsAreAdmitted`, `ImportsPinTheirSource` | the action properties `SingleUse`, `AddIsAdmitted`, `ImportPinsSource` |
| `RemovalsAreExplicit`, `PurgesAreComplete` | the action properties `RemovalIsExplicit`, `SeasonPurged` |
| `BudgetsCover` | the invariant `BudgetCovers` |

Argument. None of the invariants is inductive alone. `IInv` adds three parts.
`RowOK` says what the code never reads but relies on: rows name admitted media, only
packs have bindings, packs and superseded sources are not probes. `CallOK` says
that the row of the gateway's call in flight is not taken away, which is why withdrawal
(`cancel_unstarted`) finds it dispatching and why a plain add needs no second check.
`WorkerOK` says that the purge's list covers every row of the season that could still
be dispatched; from it, closing the season leaves nothing usable. The proof has one
lemma per action or group of actions for each part, and frame lemmas for the actions
that keep the permit rows.

Five more parts are invariant given `IInv`. A spent row stays (`SpentStays`), which is all that
`EveryTorrentIsOnRecord` needs. `HInv` adds that the candidate of a pending handover has no probe yet, so that no
later promotion can supersede it, and that live trials are on, so that nothing replaces it in place. `ImportInv` adds that
the row the worker is about to record is the one it claimed. `PurgeInv` says, between two steps of a purge, who holds a
torrent that the purge has dealt with and that is still there: another title, or a source it has still to deal
with. That is why `SeasonPurged` excepts torrents of other titles: the proof needs it, and an instance with two titles
sharing a torrent would refute the plain statement. `BudgetInv` adds to `BudgetCovers` that budgets are numbers and
that, of any set of permits, only finitely many have been issued at any time, so that a sum over them is one; a step then
changes one row, and its sum by the size of that row.

`DeletionJobsProofs`, for any sets of movies, seasons, episodes and torrents, from three
assumptions of `DeletionJobs`: the sets are disjoint and a season has finitely many episodes, every torrent holds
some media, and only episodes of one season share a torrent (`SharingAssumption`, which is how the registry binds a
pack):

| Theorem | Statement |
|---|---|
| `Resumable` | `Spec => []JInv` |
| `SeasonIsWhole`, `CompletionIsTrue` | the invariants `SeasonAllOrNothing`, `CompleteIsGone` |
| `SourceGoesFirst` | the action property `SourceBeforeFile` |
| `JobsErase` | `Spec => Erases`: the jobs implement `Erasure` |
| `JobsTypeCorrect` | the invariant `TypeOK`, of which `QueueOK` says that the queue is the table's unfinished rows, once each |

Argument. A stage is only a word in a table; what it stands for has to survive everything that
happens between the `set_stage` that wrote it and the cycle that resumes it. `JInv` says, per
stage, what that is: `TombstoneOK` (who wrote the tombstone), `TraceOK` and `SeasonTraceOK` (what is
gone), `DeletingOK` (a file that Radarr or Sonarr was told to delete is of tombstoned media past the stage of
the torrent, however long they take), and `SourceOK`, the one that is not local to a job. A job goes past a torrent that
still serves an episode which is not deleted; later that episode is deleted by a job of its own,
and somebody must still remove the torrent. `SourceOK` says who: media sharing it that is not
tombstoned, or whose job has not dealt with the torrent yet, still has its file, and has not asked for its deletion (`Keeps`). The lemmas `OnlyGoes`
(nothing removed comes back) and `StageStep` (the four ways a stage changes) carry the frame
conditions; each part of `JInv` then has one lemma over the few actions that touch it. The refinement
maps a step to `Finish` when it leaves the services alone, to `Want` when it leaves stages and
services alone, and otherwise to `Remove`; `FinishedIsGone` is what `Finish` needs. That no
unfinished job is lost to the worker is `QueueOK`, a part of `JInv`: each step appends jobs that are not in the queue,
takes one out of it, or moves one to its end, and the section on the queue says what that does to a list of
distinct elements. `Without` takes a job out by its position, because the library's `Remove` is recursive. TLC
checks `JInv` in the run `jobs_season`.

`SourceTrialProofs`, for any speeds, windows, thresholds and expiry (`TrialAssumption`: positive times
and sizes, a gain below one):

| Theorem | Statement |
|---|---|
| `TrialIsSound` | `Spec => []TInv` |
| `OnlyTheLoserStops` | the action property `LoserGivesWay` |
| `SourceGivesWayToProof`, `VerdictIsFinal` | the action properties `HandoverIsProven`, `VerdictStands` |

Argument. `LoserGivesWay` needs to know who may stop what: until a handover is committed the source is neither stopped
nor told to, and no handler is about to (`Untouched`); and the only steps that tell the candidate to stop are `Reject`,
which needs a candidate that was not promoted (this is where the handler's refusal to reject after a promotion matters),
and `Refuse`, which needs a withdrawal.
`HandoverIsProven` needs `RowSound`: the window of a row lies
in the past, torrents only shrink, and a row says promote only after `Better`, of which the
proof uses that the candidate moved more than a source that did not grow; and `ProofSound`, which carries the row from
the gateway's check to its transaction, while the worker may write another. `JudgeIsSound` and
`BeginIsSound` are the two ways a row is written.

`SourceReplacementProofs`, for any sources, sizes, thresholds, failures and pauses, with or without a handover left
over, and for movies as for episodes:

| Theorem | Statement |
|---|---|
| `ReplacementInvariance` | `Spec => []SInv` |
| `NewcomersAreAlone`, `CompleteSourcesAreKept` | the action properties `NewcomerAlone`, `CompleteIsKept` |
| `StallsAreReal` | the action property `StallIsReal` |
| `ReplacementTypesHold` | the invariant `TypeOK` |

Argument. `TorrentHasPermit` and `OnePermit` say that at most one source is authorized and that a torrent is there only
for a spent permit. `OthersAreStopped` says that while a source is authorized every other one is stopped and has not been
told to start: the guard of the add is that part of the invariant. `ReplaceIsReady` is what the worker relies on between
its choice and the change of permit: the source it replaces is confirmed, the one it chose has no permit yet, from
`"stopping"` on nothing but its own stop is on its way to qBittorrent, and at the step `"replace"` the old torrent is
stopped and incomplete and no late request exists that could start it again. That it is incomplete there is what the
readback is for: a source which completed before its stop was in force ends the visit (`Confirm`), and one that has
stopped receives nothing. A stop that is answered late is harmless because late requests are handled before the next
visit's own. `StepIsMeant` ties the request of a visit to its step.

`StallIsReal` compares what a row counts with the time that has passed. `RowIsTrue` says that a row shows no fewer
bytes left than the confirmed source has, and that while it shows exactly those, it has counted no more time
than the source has been silent. Looks that are missed, pauses and restarts only make it count less.

`SeriesWindowProofs`, for any finite series, window, disk and failures, from `WindowAssumption` (episodes and seasons
are positive numbers, in the order of the series):

| Theorem | Statement |
|---|---|
| `WindowInvariance` | `Spec => []VInv` |
| `WindowTypesHold` | the invariant `TypeOK` |
| `SlotsAreServed` | the invariant `SlotsHaveSources`: an episode has a source of its own exactly while that has an active permit, and is bound only to a pack that has one |

Argument. The slots need what a visit carries over its awaits.
`PlanServes` says that its plan names torrents that serve episodes, without which the first of them, in the order of
the series, need not exist: that one does is the least-number principle, which `LeastNumber` takes from the
library's theorem on well-founded relations. `RecoveryIsUnbound` says that the pack a recovery has issued is still
authorized and bound to nothing at each of its steps, so that binding it, or giving it up after a failure, leaves
no episode with a source that has no permit.

`MediaImportsProofs`, for any media and sources, with or without a registry, from `ImportsAssumption`: episodes are
numbered in the order of their seasons, and a source that is no pack holds one medium (the finalizers and the
acquisition refuse one with several videos, `worker/series_finalization.py:262`):

| Theorem | Statement |
|---|---|
| `ImportsInvariance` | `Spec => []MInv` |
| `ImportsTypeCorrect` | the invariant `TypeOK` |
| `CompletionsAreOfTheSource` | the invariant `CompleteIsTheSource` |
| `OrderInvariance` | `Spec => []OInv` |
| `EpisodesInOrder` | the action property `InOrder` |

Argument. `RowIsHeld` says what the finalizer's row is at each of its steps: one being posted is dispatching, one
being confirmed is accepted and of the medium's present source, because a promotion requires a row nobody has
claimed. `FileIsTheSource` says that before the completion the library's file was compared with the source and its
subtitle installed. `PromotionHasSource` gives the promotion in flight the source it stops, and `WaitingIsNew` says that
a request which is not admitted yet has no source and no row, so that its admission disturbs nothing.

The order is decided long before the file arrives: the finalizer looks, validates, links, claims and posts, and Sonarr
scans whenever it does, while requests end and others are admitted. `OInv` carries the decision over that distance.
`SourceHolds` says that a source holds the medium it is taken for, `SeenIsThere` that a file the finalizer saw stays, and
`TurnHasCome` that every episode on its way, and every one Sonarr was told of, has in the library the earlier ones of the
requests that were active when its turn was read (`before`). It is inductive because a tombstone and a file only stay, and
a turn is read again only of an episode whose turn it is (`TurnIsOrdered`): an episode whose turn has come keeps it
(`OrderStays`).

`RequestCycleProofs`, for any requests, pages and media:

| Theorem | Statement |
|---|---|
| `CycleInvariance` | `Spec => []CInv` |
| `ApprovedIsNeverCancelled` | the invariant `ApprovedIsKept` |
| `CycleTypesHold` | the invariant `TypeOK` |

Argument. The worker cancels without looking at Seerr again, so the invariant has to carry what it saw. `CancelIsSeen`
says that every reservation it has to check has a row, and that the one it is about to cancel was made for a request
that it read as withdrawn; `NeverWavered` says that the history variable names every request which is not approved
now. Being absent from the pages proves nothing: the look at the single request decides.

`CapacityProofs`, for any finite set of torrents, of any sizes, on any disks:

| Theorem | Statement |
|---|---|
| `CapacityInvariant` | `Spec => []IInv` |
| `CapacityTypeCorrect` | the invariant `TypeOK`: the types, and that no disk holds more than it can |
| `AdmittedFits` | the invariant `Committed` |

Argument. An admission compares a torrent with evidence that may be old: the queue was read, then the disks, then
other torrents were visited, and meanwhile the gateway adds, qBittorrent downloads and jobs delete. `EvidenceOK`
says that old evidence errs on the safe side only: what was in the queue has no more left than was read, what was
added since is counted by its row or has nothing left, and what has left the queue is not admitted again before the visit
ends. `RowsOK` says which rows may still put bytes on a disk, and that of those nothing is written before the
add. So what the admission adds up is at least what is owed (`Owed`), torrent by torrent, and `SumMono` and
`SumStep` carry that over to the sums: they are about sets of bytes and their cardinalities, one included in another.

Every safety and action property that a run checks is proved, and so are the types of every module that has
theorems. Only model-checked are the liveness properties
(`Settles`, `TrialEnds`, `Arrives`, `EpisodeArrives`, `StoppedIsSettled`, `Served`, `Released`, `Admitted`, `RoomIsGiven`): the
fairness they need, and the `ENABLED` in it, are out of TLAPS's reach. That `Sum` agrees with the library's fold is
checked for small torrents, since a fold is an induction over data.

## Not modelled

Of the deletion jobs: sidecar and season metadata files (removed by stem or by captured
identity, and otherwise only a reason to block), a Seerr request that covers other seasons as
well (the code keeps it), and a file that is imported again after its deletion (what the
tombstone prevents, in `Controller`).

Of the replacement: a torrent store that fails by itself, and the trials themselves (`SourceTrial`). The run has an
episode; for a movie `Arrives` does not hold (see the observations), the theorems do.

Of the window: the priority of movies over series in qBittorrent's queue (`worker/movie_priority.py`), and runs
without a storage registry (`Pools = FALSE`), in which the gateway does not measure before it resumes.

Of the imports: the run has no registry (with one, a link that is never ready is never imported, and the copies that
remain possible are those of the Arrs) and one failure or lost answer.

Of the cycle: `reserve` never refuses for space, because the scheduler reserves zero bytes.

Of the capacity: torrents that qBittorrent has and the registry does not, the single file system of an installation
without a registry, and the snapshot for the dashboard (`_publish_storage_queue`).

Heartbeat and recovery mode are one row and one flag. Pure parsing, ranking and validation (release names, torrents,
subtitles, ffprobe) decide only which step is taken. Adapters other than Seerr's pages, views, rendering, native
configuration, scripts and compose files are I/O. The hazards that no property covers are listed with the reason in
`PROJECT.json`.

## Plan

1. Done: the admission core; the deletion jobs, their abstract specification and liveness; the trial of a
   candidate; replacement without trials; the window of a series; the finalizers; the cycle over Seerr's
   requests; the disks. Theorems about all of them: every safety and action property of every run, and every type
   invariant.
2. Proofs: that `Controller` implements an abstract slot (one source at a time, spent once), and that `SourceTrial`,
   seen at its permits, makes only steps that `Controller` allows.
3. Composition: `Capacity` with `SeriesWindow`, so that stopped torrents and packs count on the disk they are on;
   `MediaImports` with `SourceTrial`, so that a promotion is measured.
4. `QueuePriority`: movies before series in qBittorrent's queue. `WorkerLoop`: heartbeat, deadline, recovery mode.
   `Alerts`: the telemetry's states.
