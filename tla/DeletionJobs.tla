---------------------------- MODULE DeletionJobs ----------------------------
(***************************************************************************)
(* The staged deletion of what an administrator deletes in Jellyfin: a job *)
(* per movie, per episode, or per season with a child job for each of its   *)
(* files.  The worker takes the least recently attempted job and carries it *)
(* through its stages; each stage has an effect on another program and is   *)
(* recorded after it.  A transient failure leaves the job at its stage for a *)
(* later cycle, a doubt about identity blocks it for a person, and a crash  *)
(* may fall between an effect and its record.                               *)
(***************************************************************************)
EXTENDS Sequences, FiniteSets, SequencesExt

CONSTANTS
    Movies, Episodes, Seasons,
    SeasonOf,      \* the season of each episode
    Sources,       \* torrents in qBittorrent
    SourceOf,      \* the torrent a movie or an episode was imported from
    NoSource,      \* not imported by the controller: no reservation, no permit
    NoJob          \* the worker is not inside a deletion

Items == Movies \cup Episodes
Jobs == Items \cup Seasons
EpisodesOf(s) == {e \in Episodes : SeasonOf[e] = s}
Sharing(i) == {k \in Items : SourceOf[k] = SourceOf[i]}
Managed(i) == SourceOf[i] # NoSource

ASSUME MediaAssumption ==
    /\ Movies \cap Episodes = {} /\ Items \cap Seasons = {} /\ NoJob \notin Jobs
    /\ SeasonOf \in [Episodes -> Seasons] /\ \A s \in Seasons : IsFiniteSet(EpisodesOf(s))
    /\ NoSource \notin Sources /\ SourceOf \in [Items -> Sources \cup {NoSource}]
ASSUME SourceAssumption == \A k \in Sources : \E i \in Items : SourceOf[i] = k
ASSUME SharingAssumption == \A i, k \in Items : k \in Sharing(i) /\ Managed(i) /\ k # i =>
    i \in Episodes /\ k \in Episodes /\ SeasonOf[i] = SeasonOf[k]

VARIABLES
    stage,       \* deletion_jobs.stage; "none" when there is no job
    children,    \* the episodes captured in a season's job
    queue,       \* unfinished jobs, the one with the oldest updated_at first
    active,      \* the job `_process` is working on
    tombstone,   \* tombstones of the jobs' media
    monitored,   \* what Sonarr would fetch again
    source,      \* a torrent: present, unlinking (forgotten, files still there) or gone
    file,        \* library files: as captured, replaced by another, or absent
    record,      \* Radarr's or Sonarr's record: with that file, without, or gone
    requests,    \* Seerr requests
    caches,      \* Seerr's media entries of movies
    catalogue,   \* Jellyfin items
    asked,       \* items Jellyfin was asked to forget
    deleting     \* library files Radarr or Sonarr was told to delete, and has not yet

jobVars == <<stage, children, queue, active>>
world == <<tombstone, monitored, source, file, record, requests, caches, catalogue, asked,
           deleting>>
vars == <<stage, children, queue, active, tombstone, monitored, source, file, record,
          requests, caches, catalogue, asked, deleting>>

Stages == {"none", "queued", "validated", "tombstoned", "torrents_removed", "arr_removed",
           "seerr_removed", "jellyfin_removed", "complete", "blocked"}
Terminal == {"complete", "blocked"}

\* The values of the job table's columns and of the services; ...
WorldOK ==
    /\ stage \in [Jobs -> Stages]
    /\ children \in [Seasons -> SUBSET Episodes]
    /\ active \in Jobs \cup {NoJob}
    /\ tombstone \subseteq Jobs
    /\ monitored \subseteq Episodes
    /\ source \in [Sources -> {"present", "unlinking", "gone"}]
    /\ file \in [Items -> {"captured", "replaced", "absent"}]
    /\ record \in [Items -> {"file", "nofile", "gone"}]
    /\ requests \subseteq Movies \cup Seasons
    /\ caches \subseteq Movies
    /\ catalogue \subseteq Jobs
    /\ asked \subseteq Jobs
    /\ deleting \subseteq Items

\* ... and the worker's queue is the table's unfinished rows, once each.
QueueOK ==
    /\ queue \in Seq(Jobs) /\ IsInjective(queue)
    /\ Range(queue) = {j \in Jobs : stage[j] \notin Terminal \cup {"none"}}
    /\ active \in Range(queue) \cup {NoJob}

TypeOK == WorldOK /\ QueueOK

\* Some episodes were never imported; everything else is in the library.
Init ==
    /\ stage = [j \in Jobs |-> "none"]
    /\ children = [s \in Seasons |-> {}]
    /\ queue = <<>> /\ active = NoJob
    /\ tombstone = {} /\ asked = {} /\ deleting = {}
    /\ monitored = Episodes
    /\ source = [k \in Sources |-> "present"]
    /\ \E missing \in SUBSET Episodes :
           /\ file = [i \in Items |-> IF i \in missing THEN "absent" ELSE "captured"]
           /\ record = [i \in Items |-> IF i \in missing THEN "nofile" ELSE "file"]
           /\ catalogue = Jobs \ missing
    /\ requests = {m \in Movies : Managed(m)} \cup Seasons
    /\ caches = Movies

-----------------------------------------------------------------------------
(* The job table *)

\* INSERT OR IGNORE by Jellyfin's item id.
NoRow(i) == stage[i] = "none"

\* `enqueue`: the first capture of an item is kept; a movie or a single episode.
Enqueue(i) ==
    /\ i \in Items /\ NoRow(i) /\ file[i] = "captured"
    /\ stage' = [stage EXCEPT ![i] = "queued"]
    /\ queue' = Append(queue, i)
    /\ UNCHANGED <<children, active, world>>

\* `_capture_season` and `enqueue_season`: the season and every episode file of it
\* together, or none; Jellyfin lists exactly those episodes, and none has a job.
EnqueueSeason(s) ==
    LET E == {e \in EpisodesOf(s) : file[e] # "absent"} IN
    /\ s \in Seasons /\ stage[s] = "none"
    /\ E # {} /\ \A e \in E : NoRow(e)
    /\ catalogue \cap EpisodesOf(s) = E
    /\ children' = [children EXCEPT ![s] = E]
    /\ stage' = [j \in Jobs |-> IF j = s \/ j \in E THEN "queued" ELSE stage[j]]
    /\ queue' = queue \o <<s>> \o SetToSeq(E)
    /\ UNCHANGED <<active, world>>

\* `next_queued` and the start of `_process`.
Pick ==
    /\ active = NoJob /\ queue # <<>>
    /\ \E j \in Jobs : /\ j = Head(queue) /\ stage[j] \notin Terminal \cup {"none"}
                      /\ active' = j
    /\ UNCHANGED <<stage, children, queue, world>>

\* The queue holds each job once.
Without(j) == RemoveAt(queue, CHOOSE n \in DOMAIN queue : queue[n] = j)
InPlace(j) == queue   \* mutant

\* `set_stage` with an error and `touch`: the job goes behind the others.
Rotated(j) == Append(Without(j), j)

\* A transient failure anywhere in `_process`.
Retry ==
    /\ active # NoJob
    /\ queue' = Rotated(active)
    /\ active' = NoJob
    /\ UNCHANGED <<stage, children, world>>

\* The worker dies, or an exception that `run_once` does not catch ends the cycle.
Crash ==
    /\ active # NoJob
    /\ active' = NoJob
    /\ UNCHANGED <<stage, children, queue, world>>

SeasonRunning(e) == ~ \E s \in Seasons : e \in children[s] /\ stage[s] = "queued"   \* mutant

\* A child waits until the whole season has passed its preflight and is tombstoned.
MayStart(j) == ~ \E s \in Seasons : j \in children[s] /\ stage[s] \in {"queued", "validated"}

\* What blocks a job whenever it is processed: its season was blocked, its file is not
\* the captured one any more, or (for a season) the same of one of its children.
ParentBlocked(j) == \E s \in Seasons : j \in children[s] /\ stage[s] = "blocked"
FileChanged(j) == j \in Items /\ file[j] = "replaced"
ChildBlocked(s) ==
    /\ s \in Seasons /\ stage[s] \in {"queued", "tombstoned"}
    /\ \E e \in children[s] : stage[e] = "blocked"
SeasonChanged(s) ==
    /\ s \in Seasons /\ stage[s] \in {"queued", "validated"}
    /\ \E e \in children[s] : FileChanged(e)
Doomed(j) == ParentBlocked(j) \/ FileChanged(j) \/ ChildBlocked(j) \/ SeasonChanged(j)

\* The job that acts now.
Acting(j) == active = j /\ MayStart(j) /\ ~ Doomed(j)

\* DeletionBlocked: an identity no longer matches, or a service rejects the call.
Block(j) ==
    /\ active = j /\ MayStart(j)
    /\ stage' = [stage EXCEPT ![j] = "blocked"]
    /\ queue' = Without(j)
    /\ active' = NoJob
    /\ UNCHANGED <<children, world>>

-----------------------------------------------------------------------------
(* Effects.  A crash, or a lost answer (Retry), may follow each of them.     *)

SourceOwned(i) == i \in tombstone   \* mutant

\* Every media served by the item's torrent was deleted: the gateway's last check.
SourceFree(i) == Sharing(i) \subseteq tombstone

Tombstone(i) ==
    /\ Acting(i) /\ i \in Items /\ stage[i] = "validated" /\ file[i] = "captured"
    /\ tombstone' = tombstone \cup {i}
    /\ UNCHANGED <<jobVars, monitored, source, file, record, requests, caches,
                   catalogue, asked, deleting>>

\* `_delete_source`: the torrent goes with its files, or is retained for other episodes.
RemoveSource(i) ==
    /\ Acting(i) /\ i \in Items /\ stage[i] = "tombstoned" /\ file[i] = "captured"
    /\ Managed(i) /\ source[SourceOf[i]] = "present" /\ SourceFree(i)
    /\ source' = [source EXCEPT ![SourceOf[i]] = "unlinking"]
    /\ UNCHANGED <<jobVars, tombstone, monitored, file, record, requests, caches,
                   catalogue, asked, deleting>>

\* `_delete_arr`: Sonarr must not fetch the episode again.
Unmonitor(e) ==
    /\ Acting(e) /\ e \in Episodes /\ stage[e] = "torrents_removed"
    /\ monitored' = monitored \ {e}
    /\ UNCHANGED <<jobVars, tombstone, source, file, record, requests, caches,
                   catalogue, asked, deleting>>

\* `_arr_preflight`: Radarr's or Sonarr's record still has the captured file.
HasFile(i) == file[i] = "captured" /\ record[i] = "file"

\* `_delete_arr`: the identity of the file is checked, and then Radarr or Sonarr is told
\* to delete the file of the captured record.
AskFile(i) ==
    /\ Acting(i) /\ i \in Items /\ stage[i] = "torrents_removed"
    /\ i \in Episodes => i \notin monitored
    /\ HasFile(i)
    /\ deleting' = deleting \cup {i}
    /\ UNCHANGED <<jobVars, tombstone, monitored, source, file, record, requests, caches,
                   catalogue, asked>>

\* `_delete_arr`: then Radarr forgets the movie.
RemoveRecord(m) ==
    /\ Acting(m) /\ m \in Movies /\ stage[m] = "torrents_removed" /\ file[m] = "absent"
    /\ record' = [record EXCEPT ![m] = "gone"]
    /\ UNCHANGED <<jobVars, tombstone, monitored, source, file, requests, caches,
                   catalogue, asked, deleting>>

\* `_delete_seerr` and `_delete_season_seerr`.
RemoveRequest(j) ==
    /\ Acting(j)
    /\ \/ j \in Movies /\ stage[j] = "arr_removed"
       \/ j \in Seasons /\ stage[j] = "torrents_removed"
    /\ requests' = requests \ {j}
    /\ UNCHANGED <<jobVars, tombstone, monitored, source, file, record, caches,
                   catalogue, asked, deleting>>

\* The files a job's Jellyfin item stands for are gone (a season: its folder is removed).
Absent(j) == \A i \in IF j \in Seasons THEN EpisodesOf(j) ELSE {j} : file[i] = "absent"

\* `_forget_jellyfin_item`: Jellyfin is asked to look at the path again.
AskJellyfin(j) ==
    /\ Acting(j) /\ stage[j] = "seerr_removed" /\ Absent(j)
    /\ asked' = asked \cup {j}
    /\ UNCHANGED <<jobVars, tombstone, monitored, source, file, record, requests, caches,
                   catalogue, deleting>>

\* `_delete_seerr_media_cache`: only for a managed movie that nobody requests.
RemoveCache(m) ==
    /\ Acting(m) /\ m \in Movies /\ stage[m] = "jellyfin_removed"
    /\ Managed(m) /\ m \notin requests /\ Absent(m) /\ m \notin catalogue
    /\ caches' = caches \ {m}
    /\ UNCHANGED <<jobVars, tombstone, monitored, source, file, record, requests,
                   catalogue, asked, deleting>>

\* `_cancel_season`: the season's tombstone, before the preflight is repeated ...
TombstoneSeason(s) ==
    /\ active = s /\ s \in Seasons /\ stage[s] = "validated"
    /\ tombstone' = tombstone \cup {s}
    /\ UNCHANGED <<jobVars, monitored, source, file, record, requests, caches,
                   catalogue, asked, deleting>>

\* ... and then Sonarr stops monitoring every episode of it.
UnmonitorSeason(s) ==
    /\ Acting(s) /\ s \in Seasons /\ stage[s] = "validated" /\ s \in tombstone
    /\ monitored' = monitored \ EpisodesOf(s)
    /\ UNCHANGED <<jobVars, tombstone, source, file, record, requests, caches,
                   catalogue, asked, deleting>>

ChildrenDone(s) == \A e \in children[s] : stage[e] = "complete"

\* `_delete_pending_season_sources`: no file is left, so every episode gets its
\* tombstone and every torrent of the season goes.
PurgeSeason(s) ==
    /\ Acting(s) /\ s \in Seasons /\ stage[s] = "tombstoned"
    /\ ChildrenDone(s) /\ Absent(s)
    /\ tombstone' = tombstone \cup EpisodesOf(s)
    /\ \/ UNCHANGED source
       \/ \E e \in EpisodesOf(s) :
              /\ Managed(e) /\ source[SourceOf[e]] = "present"
              /\ EpisodesOf(s) \subseteq tombstone
              /\ source' = [source EXCEPT ![SourceOf[e]] = "unlinking"]
    /\ UNCHANGED <<jobVars, monitored, file, record, requests, caches, catalogue, asked, deleting>>

-----------------------------------------------------------------------------
(* Stages *)

SourceForgotten(i) ==   \* mutant
    Managed(i) => source[SourceOf[i]] # "present" \/ ~ SourceFree(i)
\* The torrent no longer holds the item's data, or still serves an episode that stays.
SourceSettled(i) ==
    Managed(i) => \/ source[SourceOf[i]] = "gone"
                  \/ source[SourceOf[i]] = "present" /\ ~ SourceFree(i)

\* The library file is gone, and Radarr has forgotten the movie.
RecordSettled(i) == file[i] = "absent" /\ record[i] = IF i \in Movies THEN "gone" ELSE "nofile"

\* What must hold when `_process` reaches the set_stage of the stage the job is in.
ItemReady(i) ==
    \/ stage[i] = "queued" /\ file[i] = "captured"
    \/ stage[i] = "validated" /\ file[i] = "captured" /\ i \in tombstone
    \/ stage[i] = "tombstoned" /\ file[i] = "captured" /\ SourceSettled(i)
    \/ stage[i] = "torrents_removed" /\ RecordSettled(i)
    \/ stage[i] = "arr_removed" /\ i \notin requests
    \/ stage[i] = "seerr_removed" /\ Absent(i) /\ i \notin catalogue
    \/ stage[i] = "jellyfin_removed" /\ (Managed(i) => i \notin caches)

SeasonReady(s) ==
    \/ stage[s] = "queued" /\ \A e \in children[s] : file[e] = "captured"
    \/ stage[s] = "validated" /\ s \in tombstone /\ monitored \cap EpisodesOf(s) = {}
    \/ /\ stage[s] = "tombstoned"
       /\ ChildrenDone(s) /\ Absent(s) /\ EpisodesOf(s) \subseteq tombstone
       /\ \A e \in EpisodesOf(s) : Managed(e) => source[SourceOf[e]] # "present"
    \/ stage[s] = "torrents_removed" /\ s \notin requests
    \/ stage[s] = "seerr_removed" /\ Absent(s) /\ s \notin catalogue
    \/ stage[s] = "jellyfin_removed"

\* `_process`: the torrent goes before the record, the record before the request, and
\* Jellyfin forgets the item last. A season has no record of its own.
After == [queued |-> "validated", validated |-> "tombstoned",
          tombstoned |-> "torrents_removed", torrents_removed |-> "arr_removed",
          arr_removed |-> "seerr_removed", seerr_removed |-> "jellyfin_removed",
          jellyfin_removed |-> "complete"]
NextStage(j) == IF j \in Seasons /\ stage[j] = "torrents_removed"
                THEN "seerr_removed" ELSE After[stage[j]]

\* `set_stage`: also the job's new updated_at. A completed job ends `_process`.
Advance(j) ==
    /\ Acting(j)
    /\ IF j \in Seasons THEN SeasonReady(j) ELSE ItemReady(j)
    /\ stage' = [stage EXCEPT ![j] = NextStage(j)]
    /\ IF NextStage(j) = "complete"
       THEN queue' = Without(j) /\ active' = NoJob
       ELSE queue' = Rotated(j) /\ UNCHANGED active
    /\ UNCHANGED <<children, world>>

Act(j) ==
    \/ Tombstone(j) \/ RemoveSource(j) \/ Unmonitor(j) \/ AskFile(j) \/ RemoveRecord(j)
    \/ RemoveRequest(j) \/ AskJellyfin(j) \/ RemoveCache(j)
    \/ TombstoneSeason(j) \/ UnmonitorSeason(j) \/ PurgeSeason(j)
    \/ Advance(j)

-----------------------------------------------------------------------------
(* The other programs *)

\* qBittorrent unlinks the payload after it has forgotten the torrent.
Unlink(k) ==
    /\ source[k] = "unlinking"
    /\ source' = [source EXCEPT ![k] = "gone"]
    /\ UNCHANGED <<jobVars, tombstone, monitored, file, record, requests, caches,
                   catalogue, asked, deleting>>

\* Jellyfin's scanner finds the file gone.
Forget(j) ==
    /\ j \in asked \cap catalogue /\ Absent(j)
    /\ catalogue' = catalogue \ {j}
    /\ UNCHANGED <<jobVars, tombstone, monitored, source, file, record, requests, caches,
                   asked, deleting>>

\* Radarr or Sonarr deletes the file it was told to delete, by the id of its record:
\* whatever file that is now, and whatever became of the worker. A file that replaced
\* the captured one has another record, or the same (an import in place, a restore).
RemoveFile(i) ==
    /\ i \in deleting
    /\ deleting' = deleting \ {i}
    /\ \/ /\ file' = [file EXCEPT ![i] = "absent"]
          /\ record' = [record EXCEPT ![i] = "nofile"]
       \/ file[i] = "replaced" /\ UNCHANGED <<file, record>>
    /\ UNCHANGED <<jobVars, tombstone, monitored, source, requests, caches, catalogue, asked>>

\* Somebody replaces the captured file by another one.
ReplaceFile(i) ==
    /\ stage[i] # "none" /\ file[i] = "captured"
    /\ file' = [file EXCEPT ![i] = "replaced"]
    /\ UNCHANGED <<jobVars, tombstone, monitored, source, record, requests, caches,
                   catalogue, asked, deleting>>

Next ==
    \/ \E i \in Items : Enqueue(i) \/ ReplaceFile(i) \/ RemoveFile(i)
    \/ \E s \in Seasons : EnqueueSeason(s)
    \/ Pick \/ Retry \/ Crash
    \/ \E j \in Jobs : Block(j) \/ Act(j) \/ Forget(j)
    \/ \E k \in Sources : Unlink(k)
Spec == Init /\ [][Next]_vars

\* The worker's cycle never stops for good; every attempt it begins ends in an answer
\* or in a timeout, and not every attempt ends in a crash; a service that is asked
\* again and again finally does what it is asked; qBittorrent finishes unlinking, Radarr
\* and Sonarr finish what they were told, and Jellyfin's scanner finishes its scan.
Fairness ==
    /\ WF_vars(Pick) /\ SF_vars(Retry)
    /\ \A j \in Jobs : SF_vars(Act(j)) /\ SF_vars(Doomed(j) /\ Block(j))
    /\ \A k \in Sources : WF_vars(Unlink(k))
    /\ \A i \in Items : WF_vars(RemoveFile(i))
    /\ \A j \in Jobs : WF_vars(Forget(j))
FairSpec == Spec /\ Fairness

-----------------------------------------------------------------------------
(* Properties *)

\* A library file goes only by the deletion of the media it was captured for, after
\* the tombstone, and after the torrent it is linked to has left the disk - unless
\* that torrent still holds another file. Otherwise Radarr or Sonarr could import it
\* again from the torrent, or the deletion would free no space. The deletion is asked
\* for while the file is the captured one; it may come late, after a crash or a block.
SourceBeforeFile == [][\A i \in Items :
    /\ i \in deleting' \ deleting => file[i] = "captured"
    /\ file[i] # "absent" /\ file'[i] = "absent" =>
           /\ i \in deleting \cap tombstone
           /\ Managed(i) => \/ source[SourceOf[i]] = "gone"
                            \/ \E k \in Sharing(i) \ {i} : file[k] # "absent" \/ k \notin tombstone
    ]_vars

\* A season is deleted as a whole or not touched: until its own preflight has seen
\* every file and its tombstone is written, no job of an episode captured with it has
\* begun, and when the preflight fails none ever does.
SeasonAllOrNothing ==
    \A s \in Seasons : s \notin tombstone =>
        \A e \in children[s] : /\ stage[e] \in {"queued", "blocked"}
                               /\ e \notin tombstone
                               /\ file[e] # "absent" /\ e \in catalogue

\* A completed deletion has left no trace of the media: its torrent is off the disk
\* unless it serves an episode whose deletion has not been completed, and a season's
\* episodes are complete with it.
CompleteIsGone ==
    /\ \A i \in Items : stage[i] = "complete" =>
           /\ i \in tombstone /\ file[i] = "absent"
           /\ i \notin monitored \cup catalogue
           /\ Managed(i) => \/ source[SourceOf[i]] = "gone"
                            \/ \E k \in Sharing(i) : stage[k] # "complete"
    /\ \A s \in Seasons : stage[s] = "complete" =>
           /\ \A e \in children[s] : stage[e] = "complete"
           /\ \A e \in EpisodesOf(s) : e \in tombstone /\ e \notin monitored \cup catalogue

\* Every captured deletion ends, completed or handed to a person: a job that keeps
\* failing does not starve the others, a season and its episodes do not wait for
\* each other, and a blocked episode does not leave its season waiting for ever.
Settles == \A j \in Jobs : stage[j] # "none" ~> stage[j] \in Terminal

-----------------------------------------------------------------------------
(* The inductive invariant: what a stage may rely on when it is resumed *)

\* Stages of a job whose media is tombstoned; whose torrent is dealt with; whose library
\* file and record, Seerr request, and Jellyfin item are gone.
Forgotten == {"jellyfin_removed", "complete"}
Unrequested == {"seerr_removed"} \cup Forgotten
Unrecorded == {"arr_removed"} \cup Unrequested
Past == {"torrents_removed"} \cup Unrecorded
Begun == {"tombstoned"} \cup Past

\* The worker is in an unfinished job; a season's job knows every file Jellyfin shows.
JobsOK ==
    /\ active # NoJob => stage[active] \notin Terminal \cup {"none"}
    /\ \A s \in Seasons : /\ children[s] \subseteq EpisodesOf(s)
                          /\ stage[s] = "none" => children[s] = {}
                          /\ stage[s] # "none" => catalogue \cap EpisodesOf(s) \subseteq children[s]

\* A begun job's media is tombstoned, and nothing else is, except by the season's job.
TombstoneOK ==
    /\ \A j \in Jobs : stage[j] \in Begun => j \in tombstone
    /\ \A i \in Items : i \in tombstone /\ stage[i] = "none" =>
           i \in Episodes /\ SeasonOf[i] \in tombstone
    /\ \A s \in Seasons : s \in tombstone => stage[s] \notin {"none", "queued"}
    /\ asked \subseteq tombstone

\* A torrent that outlives the stage of one of its episodes is some other's to remove:
\* one that is not deleted, or whose job has not dealt with the torrent and keeps its file.
Keeps(k) == \/ k \notin tombstone
            \/ /\ file[k] # "absent" /\ k \notin deleting
               /\ stage[k] \in {"validated", "tombstoned", "blocked"}
SourceOK == \A i \in Items : Managed(i) /\ source[SourceOf[i]] # "gone" =>
    /\ stage[i] \in Past => \E k \in Sharing(i) : stage[k] \notin Past
    /\ i \in deleting \/ (stage[i] = "torrents_removed" /\ file[i] # "absent") =>
           \E k \in Sharing(i) \ {i} : Keeps(k)

\* A file is told to be deleted by a job that has dealt with the torrent, which may have
\* been blocked since, for an episode that Sonarr does not fetch again.
DeletingOK == \A i \in deleting :
    /\ stage[i] \in Past \cup {"blocked"} /\ i \in tombstone
    /\ i \notin monitored /\ file[i] # "absent" /\ record[i] = "file"

\* What the later stages of an item have removed stays removed.
TraceOK == \A i \in Items :
    /\ stage[i] \in Unrecorded => file[i] = "absent" /\ (i \in Movies => record[i] = "gone")
    /\ stage[i] # "none" /\ file[i] = "absent" => i \notin monitored
    /\ stage[i] \in Unrequested => i \notin requests
    /\ stage[i] \in Forgotten => i \notin catalogue
    /\ stage[i] = "complete" /\ Managed(i) => i \notin caches

\* The same for a season and the torrents of its episodes.
SeasonTraceOK == \A s \in Seasons :
    /\ stage[s] \in Begun => monitored \cap EpisodesOf(s) = {}
    /\ stage[s] \in Past =>
           /\ ChildrenDone(s) /\ Absent(s) /\ EpisodesOf(s) \subseteq tombstone
           /\ \A e \in EpisodesOf(s) : Managed(e) => source[SourceOf[e]] # "present"
    /\ stage[s] \in Unrequested => s \notin requests
    /\ stage[s] \in Forgotten => s \notin catalogue

\* Every stage finds what it relies on when the worker resumes it after a failure or a
\* crash: `_process` repeats none of the earlier stages.
JInv == /\ WorldOK /\ QueueOK /\ JobsOK /\ TombstoneOK /\ SourceOK /\ TraceOK /\ DeletingOK
        /\ SeasonTraceOK /\ SeasonAllOrNothing

-----------------------------------------------------------------------------
(* The abstract deletion *)

\* The job table and the services implement the abstract deletion. A season's
\* tombstone and its completion stand for all its episodes; an unmanaged movie's
\* Seerr entry is not the controller's.
Things == ({"file", "catalogue", "monitored", "record", "request", "cache"} \X Jobs)
          \cup ({"torrent"} \X Sources)
Serving == [t \in Things |->
    IF t[1] = "torrent" THEN {i \in Items : SourceOf[i] = t[2]} ELSE {t[2]}]
WithEpisodes(J) == J \cup {e \in Episodes : SeasonOf[e] \in J}
Kept ==
    ({"file"} \X {i \in Items : file[i] # "absent"}) \cup ({"catalogue"} \X catalogue)
    \cup ({"monitored"} \X monitored) \cup ({"request"} \X requests)
    \cup ({"record"} \X {m \in Movies : record[m] # "gone"})
    \cup ({"cache"} \X {m \in caches : Managed(m)})
    \cup ({"torrent"} \X {k \in Sources : source[k] = "present"})

Abstract == INSTANCE Erasure WITH
    Media <- Jobs, Things <- Things, Serves <- Serving,
    wanted <- WithEpisodes(tombstone), present <- Kept,
    finished <- WithEpisodes({j \in Jobs : stage[j] = "complete"})
Erases == Abstract!Spec
=============================================================================
