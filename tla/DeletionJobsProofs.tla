------------------------- MODULE DeletionJobsProofs -------------------------
(***************************************************************************)
(* Proofs about the deletion jobs, for every number of movies, seasons,     *)
(* episodes and torrents.                                                   *)
(***************************************************************************)
EXTENDS DeletionJobs, TLAPS, SequenceTheorems, FiniteSetTheorems

\* The job table and the services start, and stay, with values of their kinds.
LEMMA WorldInit == Init => WorldOK
  BY MediaAssumption DEF Init, WorldOK, Jobs, Items, Stages

\* No operation of the worker or of a service leaves them.
LEMMA WorldStep == WorldOK /\ [Next]_vars => WorldOK'
  <1> SUFFICES ASSUME WorldOK, [Next]_vars PROVE WorldOK'
    OBVIOUS
  <1> USE MediaAssumption DEF WorldOK, Jobs, Items, Stages, world, jobVars
  <1>1. ASSUME NEW i \in Items, Enqueue(i) PROVE WorldOK'
    BY <1>1 DEF Enqueue
  <1>2. ASSUME NEW i \in Items, ReplaceFile(i) \/ RemoveFile(i) PROVE WorldOK'
    BY <1>2 DEF ReplaceFile, RemoveFile
  <1>3. ASSUME NEW s \in Seasons, EnqueueSeason(s) PROVE WorldOK'
    BY <1>3 DEF EnqueueSeason, EpisodesOf
  <1>4. CASE Pick
    BY <1>4 DEF Pick
  <1>5. CASE Retry
    BY <1>5 DEF Retry
  <1>6. CASE Crash
    BY <1>6 DEF Crash
  <1>7. ASSUME NEW j \in Jobs, Block(j) PROVE WorldOK'
    BY <1>7 DEF Block
  <1>8. ASSUME NEW j \in Jobs, Act(j) PROVE WorldOK'
    <2>1. CASE Tombstone(j)
      BY <2>1 DEF Tombstone
    <2>2. CASE RemoveSource(j)
      BY <2>2 DEF RemoveSource
    <2>3. CASE Unmonitor(j)
      BY <2>3 DEF Unmonitor
    <2>4. CASE AskFile(j)
      BY <2>4 DEF AskFile
    <2>5. CASE RemoveRecord(j)
      BY <2>5 DEF RemoveRecord
    <2>6. CASE RemoveRequest(j)
      BY <2>6 DEF RemoveRequest
    <2>7. CASE AskJellyfin(j)
      BY <2>7 DEF AskJellyfin
    <2>8. CASE RemoveCache(j)
      BY <2>8 DEF RemoveCache
    <2>9. CASE TombstoneSeason(j)
      BY <2>9 DEF TombstoneSeason
    <2>10. CASE UnmonitorSeason(j)
      BY <2>10 DEF UnmonitorSeason
    <2>11. CASE PurgeSeason(j)
      BY <2>11 DEF PurgeSeason, EpisodesOf
    <2>12. CASE Advance(j)
      <3>1. NextStage(j) \in Stages
        BY <2>12, MediaAssumption DEF Advance, NextStage, After, ItemReady, SeasonReady, Acting
      <3> QED
        BY <2>12, <3>1 DEF Advance
    <2> QED
      BY <1>8, <2>1, <2>2, <2>3, <2>4, <2>5, <2>6, <2>7, <2>8, <2>9, <2>10, <2>11, <2>12 DEF Act
  <1>9. ASSUME NEW j \in Jobs, Forget(j) PROVE WorldOK'
    BY <1>9 DEF Forget
  <1>10. ASSUME NEW k \in Sources, Unlink(k) PROVE WorldOK'
    BY <1>10 DEF Unlink
  <1>11. CASE UNCHANGED vars
    BY <1>11 DEF vars
  <1> QED
    BY <1>1, <1>2, <1>3, <1>4, <1>5, <1>6, <1>7, <1>8, <1>9, <1>10, <1>11 DEF Next

\* What each `set_stage` of `_process` was preceded by.
LEMMA AdvanceItem ==
  ASSUME WorldOK, NEW i \in Items, Advance(i)
  PROVE  /\ stage' = [stage EXCEPT ![i] = stage'[i]]
         /\ \/ stage[i] = "queued" /\ stage'[i] = "validated"
            \/ stage[i] = "validated" /\ stage'[i] = "tombstoned" /\ i \in tombstone
            \/ /\ stage[i] = "tombstoned" /\ stage'[i] = "torrents_removed"
               /\ file[i] = "captured" /\ SourceSettled(i)
            \/ /\ stage[i] = "torrents_removed" /\ stage'[i] = "arr_removed"
               /\ RecordSettled(i)
            \/ stage[i] = "arr_removed" /\ stage'[i] = "seerr_removed" /\ i \notin requests
            \/ stage[i] = "seerr_removed" /\ stage'[i] = "jellyfin_removed" /\ i \notin catalogue
            \/ /\ stage[i] = "jellyfin_removed" /\ stage'[i] = "complete"
               /\ Managed(i) => i \notin caches
  <1>1. i \in Jobs /\ i \notin Seasons
    BY MediaAssumption DEF Jobs, Items
  <1>2. stage' = [stage EXCEPT ![i] = NextStage(i)] /\ ItemReady(i)
    BY <1>1 DEF Advance
  <1>3. stage'[i] = NextStage(i) /\ NextStage(i) = After[stage[i]]
    BY <1>1, <1>2 DEF NextStage, WorldOK
  <1>4. /\ stage[i] = "queued" => stage'[i] = "validated"
        /\ stage[i] = "validated" => stage'[i] = "tombstoned"
        /\ stage[i] = "tombstoned" => stage'[i] = "torrents_removed"
        /\ stage[i] = "torrents_removed" => stage'[i] = "arr_removed"
        /\ stage[i] = "arr_removed" => stage'[i] = "seerr_removed"
        /\ stage[i] = "seerr_removed" => stage'[i] = "jellyfin_removed"
        /\ stage[i] = "jellyfin_removed" => stage'[i] = "complete"
    BY <1>3 DEF After
  <1>5. stage' = [stage EXCEPT ![i] = stage'[i]]
    BY <1>2, <1>3
  <1> QED
    BY <1>2, <1>4, <1>5 DEF ItemReady

\* The same for a season's job.
LEMMA AdvanceSeason ==
  ASSUME WorldOK, NEW s \in Seasons, Advance(s)
  PROVE  /\ stage' = [stage EXCEPT ![s] = stage'[s]]
         /\ \/ stage[s] = "queued" /\ stage'[s] = "validated"
            \/ /\ stage[s] = "validated" /\ stage'[s] = "tombstoned"
               /\ s \in tombstone /\ monitored \cap EpisodesOf(s) = {}
            \/ /\ stage[s] = "tombstoned" /\ stage'[s] = "torrents_removed"
               /\ ChildrenDone(s) /\ Absent(s) /\ EpisodesOf(s) \subseteq tombstone
               /\ \A e \in EpisodesOf(s) : Managed(e) => source[SourceOf[e]] # "present"
            \/ stage[s] = "torrents_removed" /\ stage'[s] = "seerr_removed" /\ s \notin requests
            \/ stage[s] = "seerr_removed" /\ stage'[s] = "jellyfin_removed" /\ s \notin catalogue
            \/ stage[s] = "jellyfin_removed" /\ stage'[s] = "complete"
  <1>1. s \in Jobs
    BY DEF Jobs
  <1>2. stage' = [stage EXCEPT ![s] = NextStage(s)] /\ SeasonReady(s)
    BY <1>1 DEF Advance
  <1>3. /\ stage'[s] = NextStage(s)
        /\ stage[s] = "torrents_removed" => NextStage(s) = "seerr_removed"
        /\ stage[s] # "torrents_removed" => NextStage(s) = After[stage[s]]
    BY <1>1, <1>2 DEF NextStage, WorldOK
  <1>4. /\ stage[s] = "queued" => stage'[s] = "validated"
        /\ stage[s] = "validated" => stage'[s] = "tombstoned"
        /\ stage[s] = "tombstoned" => stage'[s] = "torrents_removed"
        /\ stage[s] = "torrents_removed" => stage'[s] = "seerr_removed"
        /\ stage[s] = "arr_removed" => stage'[s] = "seerr_removed"
        /\ stage[s] = "seerr_removed" => stage'[s] = "jellyfin_removed"
        /\ stage[s] = "jellyfin_removed" => stage'[s] = "complete"
    BY <1>3 DEF After
  <1>5. stage' = [stage EXCEPT ![s] = stage'[s]]
    BY <1>2, <1>3
  <1> QED
    BY <1>2, <1>4, <1>5 DEF SeasonReady

\* An effect of `_process` leaves the job table to `set_stage`.
LEMMA EffectKeepsJobs ==
  ASSUME NEW j \in Jobs, Act(j)
  PROVE  \/ Advance(j)
         \/ UNCHANGED <<stage, children, queue, active>> /\ catalogue' = catalogue
  BY DEF Act, Tombstone, RemoveSource, Unmonitor, AskFile, RemoveRecord, RemoveRequest,
         AskJellyfin, RemoveCache, TombstoneSeason, UnmonitorSeason, PurgeSeason, jobVars

\* `set_stage` has no effect but on the job table.
LEMMA AdvanceKeepsWorld ==
  ASSUME NEW j \in Jobs, Advance(j)
  PROVE  /\ active = j /\ MayStart(j) /\ ~ Doomed(j) /\ active' \in {j, NoJob}
         /\ stage'[j] = "complete" /\ stage \in [Jobs -> Stages] => active' = NoJob
         /\ UNCHANGED <<children, tombstone, monitored, source, file, record, requests, caches,
                        catalogue, asked>>
  BY DEF Advance, Acting, world

-----------------------------------------------------------------------------
(* The parts of the inductive invariant *)

\* The worker stays with a job that is unfinished, and a season with all its files.
LEMMA JobsStep == WorldOK /\ JobsOK /\ [Next]_vars => JobsOK'
  <1> SUFFICES ASSUME WorldOK, JobsOK, [Next]_vars PROVE JobsOK'
    OBVIOUS
  <1> USE MediaAssumption DEF WorldOK, JobsOK, Jobs, Items, Terminal, Stages
  <1>1. ASSUME NEW i \in Items, Enqueue(i) PROVE JobsOK'
    BY <1>1 DEF Enqueue, NoRow, world, EpisodesOf
  <1>2. ASSUME NEW s \in Seasons, EnqueueSeason(s) PROVE JobsOK'
    BY <1>2 DEF EnqueueSeason, NoRow, world, EpisodesOf
  <1>3. ASSUME NEW j \in Jobs, Block(j) PROVE JobsOK'
    BY <1>3 DEF Block, world, EpisodesOf
  <1>4. ASSUME NEW j \in Jobs, Advance(j) PROVE JobsOK'
    <2>1. /\ active = j /\ active' \in {j, NoJob} /\ (stage'[j] = "complete" => active' = NoJob)
          /\ children' = children /\ catalogue' = catalogue
      BY <1>4, AdvanceKeepsWorld
    <2>2. stage' = [stage EXCEPT ![j] = stage'[j]] /\ stage'[j] \notin {"none", "blocked"}
      <3>1. CASE j \in Items
        BY <1>4, <3>1, AdvanceItem
      <3>2. CASE j \in Seasons
        BY <1>4, <3>2, AdvanceSeason
      <3> QED
        BY <3>1, <3>2
    <2>3. stage[j] # "none"
      BY <2>1
    <2>4. \A k \in Jobs : k # j => stage'[k] = stage[k]
      BY <2>2
    <2>5. active' # NoJob => stage'[active'] \notin Terminal \cup {"none"}
      BY <2>1, <2>2
    <2>6. \A s \in Seasons : stage'[s] = "none" <=> stage[s] = "none"
      BY <2>2, <2>3, <2>4
    <2> QED
      BY <2>1, <2>5, <2>6 DEF EpisodesOf
  <1>5. ASSUME NEW j \in Jobs, Act(j), ~ Advance(j) PROVE JobsOK'
    BY <1>5, EffectKeepsJobs DEF EpisodesOf
  <1>6. ASSUME NEW j \in Jobs, Forget(j) PROVE JobsOK'
    BY <1>6 DEF Forget, jobVars, EpisodesOf
  <1>7. CASE Pick \/ Retry \/ Crash
    BY <1>7 DEF Pick, Retry, Crash, world, EpisodesOf
  <1>8. ASSUME NEW i \in Items, ReplaceFile(i) \/ RemoveFile(i) PROVE JobsOK'
    BY <1>8 DEF ReplaceFile, RemoveFile, jobVars, EpisodesOf
  <1>9. ASSUME NEW k \in Sources, Unlink(k) PROVE JobsOK'
    BY <1>9 DEF Unlink, jobVars, EpisodesOf
  <1>10. CASE UNCHANGED vars
    BY <1>10 DEF vars, EpisodesOf
  <1> QED
    BY <1>1, <1>2, <1>3, <1>4, <1>5, <1>6, <1>7, <1>8, <1>9, <1>10 DEF Next

\* A stage is entered after the tombstone it relies on, and tombstones stay.
LEMMA TombstoneStep == WorldOK /\ JobsOK /\ TombstoneOK /\ [Next]_vars => TombstoneOK'
  <1> SUFFICES ASSUME WorldOK, JobsOK, TombstoneOK, [Next]_vars PROVE TombstoneOK'
    OBVIOUS
  <1> USE MediaAssumption
      DEF WorldOK, TombstoneOK, Jobs, Items, Begun, Past, Unrecorded, Unrequested, Forgotten
  <1>1. ASSUME NEW i \in Items, Enqueue(i) PROVE TombstoneOK'
    BY <1>1 DEF Enqueue, NoRow, world
  <1>2. ASSUME NEW s \in Seasons, EnqueueSeason(s) PROVE TombstoneOK'
    BY <1>2 DEF EnqueueSeason, NoRow, world, EpisodesOf
  <1>3. ASSUME NEW j \in Jobs, Block(j) PROVE TombstoneOK'
    BY <1>3 DEF Block, world
  <1>4. ASSUME NEW j \in Jobs, Advance(j) PROVE TombstoneOK'
    <2>1. tombstone' = tombstone /\ asked' = asked
      BY <1>4, AdvanceKeepsWorld
    <2>2. CASE j \in Items
      BY <1>4, <2>1, <2>2, AdvanceItem
    <2>3. CASE j \in Seasons
      BY <1>4, <2>1, <2>3, AdvanceSeason
    <2> QED
      BY <2>2, <2>3
  <1>5. ASSUME NEW j \in Jobs, Tombstone(j) \/ TombstoneSeason(j) \/ AskJellyfin(j)
        PROVE TombstoneOK'
    BY <1>5 DEF Tombstone, TombstoneSeason, AskJellyfin, jobVars
  <1>6. ASSUME NEW j \in Jobs, PurgeSeason(j) PROVE TombstoneOK'
    BY <1>6 DEF PurgeSeason, jobVars, EpisodesOf
  <1>7. ASSUME NEW j \in Jobs, Act(j), ~ Advance(j), ~ Tombstone(j), ~ TombstoneSeason(j),
               ~ AskJellyfin(j), ~ PurgeSeason(j)
        PROVE TombstoneOK'
    <2>1. stage' = stage /\ tombstone' = tombstone /\ asked' = asked
      BY <1>7 DEF Act, RemoveSource, Unmonitor, AskFile, RemoveRecord, RemoveRequest,
                  RemoveCache, UnmonitorSeason, jobVars
    <2> QED
      BY <2>1
  <1>8. ASSUME NEW j \in Jobs, Forget(j) PROVE TombstoneOK'
    BY <1>8 DEF Forget, jobVars
  <1>9. CASE Pick \/ Retry \/ Crash
    BY <1>9 DEF Pick, Retry, Crash, world
  <1>10. ASSUME NEW i \in Items, ReplaceFile(i) \/ RemoveFile(i) PROVE TombstoneOK'
    BY <1>10 DEF ReplaceFile, RemoveFile, jobVars
  <1>11. ASSUME NEW k \in Sources, Unlink(k) PROVE TombstoneOK'
    BY <1>11 DEF Unlink, jobVars
  <1>12. CASE UNCHANGED vars
    BY <1>12 DEF vars
  <1> QED
    BY <1>1, <1>2, <1>3, <1>4, <1>5, <1>6, <1>7, <1>8, <1>9, <1>10, <1>11, <1>12 DEF Next

-----------------------------------------------------------------------------
(* What a step may change *)

\* Files, records, requests, items and torrents only go, and tombstones only come.
LEMMA OnlyGoes ==
  ASSUME WorldOK, [Next]_vars
  PROVE  /\ tombstone \subseteq tombstone' /\ monitored' \subseteq monitored
         /\ requests' \subseteq requests /\ caches' \subseteq caches
         /\ catalogue' \subseteq catalogue
         /\ \A k \in Sources : /\ source'[k] = "present" => source[k] = "present"
                               /\ source[k] = "gone" => source'[k] = "gone"
         /\ \A i \in Items : \/ file'[i] = file[i]
                             \/ file[i] = "captured" /\ file'[i] = "replaced"
                             \/ RemoveFile(i) /\ file'[i] = "absent"
         /\ \A i \in Items : \/ record'[i] = record[i] \/ RemoveFile(i)
                             \/ file[i] = "absent" /\ record'[i] = "gone"
         /\ \A i \in Items : i \in deleting' => i \in deleting \/ AskFile(i)
  <1> DEFINE Goes ==
         /\ tombstone \subseteq tombstone' /\ monitored' \subseteq monitored
         /\ requests' \subseteq requests /\ caches' \subseteq caches
         /\ catalogue' \subseteq catalogue
         /\ \A k \in Sources : /\ source'[k] = "present" => source[k] = "present"
                               /\ source[k] = "gone" => source'[k] = "gone"
         /\ \A i \in Items : \/ file'[i] = file[i]
                             \/ file[i] = "captured" /\ file'[i] = "replaced"
                             \/ RemoveFile(i) /\ file'[i] = "absent"
         /\ \A i \in Items : \/ record'[i] = record[i] \/ RemoveFile(i)
                             \/ file[i] = "absent" /\ record'[i] = "gone"
         /\ \A i \in Items : i \in deleting' => i \in deleting \/ AskFile(i)
  <1>1. CASE UNCHANGED world
    BY <1>1 DEF world
  <1>2. ASSUME NEW j \in Jobs, Act(j) PROVE Goes
    <2>1. CASE Tombstone(j) \/ TombstoneSeason(j) \/ AskJellyfin(j)
      BY <2>1 DEF Tombstone, TombstoneSeason, AskJellyfin
    <2>2. CASE Unmonitor(j) \/ UnmonitorSeason(j) \/ RemoveRequest(j) \/ RemoveCache(j)
      BY <2>2 DEF Unmonitor, UnmonitorSeason, RemoveRequest, RemoveCache
    <2>3. CASE RemoveSource(j)
      BY <2>3 DEF RemoveSource, WorldOK
    <2>4. CASE PurgeSeason(j)
      BY <2>4 DEF PurgeSeason, WorldOK
    <2>5. CASE AskFile(j)
      <3>1. /\ \A i \in Items : i \in deleting' => i \in deleting \/ i = j
            /\ UNCHANGED <<tombstone, monitored, source, file, record, requests, caches, catalogue>>
        BY <2>5 DEF AskFile
      <3> QED
        BY <2>5, <3>1
    <2>6. CASE RemoveRecord(j)
      BY <2>6 DEF RemoveRecord, WorldOK
    <2>7. CASE Advance(j)
      BY <1>1, <2>7 DEF Advance
    <2> QED
      BY <1>2, <2>1, <2>2, <2>3, <2>4, <2>5, <2>6, <2>7 DEF Act
  <1>3. ASSUME NEW j \in Jobs, Forget(j) PROVE Goes
    BY <1>3 DEF Forget
  <1>4. ASSUME NEW i \in Items, ReplaceFile(i) PROVE Goes
    BY <1>4 DEF ReplaceFile, WorldOK
  <1>11. ASSUME NEW i \in Items, RemoveFile(i) PROVE Goes
    <2>1. /\ \A k \in Items : k # i => file'[k] = file[k] /\ record'[k] = record[k]
          /\ file'[i] \in {"absent", file[i]} /\ deleting' = deleting \ {i}
          /\ UNCHANGED <<tombstone, monitored, source, requests, caches, catalogue>>
      BY <1>11 DEF RemoveFile, WorldOK
    <2> QED
      BY <1>11, <2>1
  <1>5. ASSUME NEW k \in Sources, Unlink(k) PROVE Goes
    BY <1>5 DEF Unlink, WorldOK
  <1>6. CASE UNCHANGED vars
    BY <1>1, <1>6 DEF vars, world
  <1>7. ASSUME NEW i \in Items, Enqueue(i) PROVE Goes
    BY <1>1, <1>7 DEF Enqueue
  <1>8. ASSUME NEW s \in Seasons, EnqueueSeason(s) PROVE Goes
    BY <1>1, <1>8 DEF EnqueueSeason
  <1>9. ASSUME NEW j \in Jobs, Block(j) PROVE Goes
    BY <1>1, <1>9 DEF Block
  <1>10. CASE Pick \/ Retry \/ Crash
    BY <1>1, <1>10 DEF Pick, Retry, Crash
  <1> QED
    BY <1>2, <1>3, <1>4, <1>5, <1>6, <1>7, <1>8, <1>9, <1>10, <1>11 DEF Next

\* A job's stage changes when it is captured, when it is blocked and by `set_stage`.
LEMMA StageStep ==
  ASSUME WorldOK, JobsOK, [Next]_vars, NEW j \in Jobs
  PROVE  \/ stage'[j] = stage[j]
         \/ stage[j] = "none" /\ stage'[j] = "queued" /\ UNCHANGED world
         \/ stage[j] \notin Terminal \cup {"none"} /\ stage'[j] = "blocked"
         \/ Advance(j)
  <1>1. ASSUME NEW k \in Jobs, Act(k) PROVE stage'[j] = stage[j] \/ Advance(j)
    <2>1. CASE Advance(k)
      BY <2>1 DEF Advance, WorldOK
    <2> QED
      BY <1>1, <2>1, EffectKeepsJobs
  <1>2. ASSUME NEW i \in Items, Enqueue(i)
        PROVE  \/ stage'[j] = stage[j]
               \/ stage[j] = "none" /\ stage'[j] = "queued" /\ UNCHANGED world
    BY <1>2 DEF Enqueue, NoRow, WorldOK
  <1>3. ASSUME NEW s \in Seasons, EnqueueSeason(s)
        PROVE  \/ stage'[j] = stage[j]
               \/ stage[j] = "none" /\ stage'[j] = "queued" /\ UNCHANGED world
    BY <1>3 DEF EnqueueSeason, NoRow
  <1>4. ASSUME NEW k \in Jobs, Block(k)
        PROVE  \/ stage'[j] = stage[j]
               \/ stage[j] \notin Terminal \cup {"none"} /\ stage'[j] = "blocked"
    <2>1. stage[k] \notin Terminal \cup {"none"}
      BY <1>4, MediaAssumption DEF Block, JobsOK
    <2> QED
      BY <1>4, <2>1 DEF Block, WorldOK
  <1>5. ASSUME \/ Pick \/ Retry \/ Crash \/ UNCHANGED vars
               \/ \E k \in Jobs : Forget(k)
               \/ \E i \in Items : ReplaceFile(i) \/ RemoveFile(i)
               \/ \E k \in Sources : Unlink(k)
        PROVE stage' = stage
    BY <1>5 DEF Pick, Retry, Crash, vars, Forget, ReplaceFile, RemoveFile, Unlink, jobVars
  <1> QED
    BY <1>1, <1>2, <1>3, <1>4, <1>5 DEF Next

\* The episodes captured with a season stay those it was enqueued with.
LEMMA ChildrenStep ==
  ASSUME WorldOK, [Next]_vars, NEW s \in Seasons
  PROVE  children'[s] = children[s] \/ EnqueueSeason(s)
  <1>1. ASSUME NEW k \in Jobs, Act(k) PROVE children' = children
    BY <1>1, EffectKeepsJobs, AdvanceKeepsWorld
  <1>2. ASSUME NEW r \in Seasons, EnqueueSeason(r) PROVE children'[s] = children[s] \/ r = s
    BY <1>2 DEF EnqueueSeason, WorldOK
  <1>3. ASSUME \/ Pick \/ Retry \/ Crash \/ UNCHANGED vars
               \/ \E k \in Jobs : Forget(k) \/ Block(k)
               \/ \E i \in Items : ReplaceFile(i) \/ RemoveFile(i) \/ Enqueue(i)
               \/ \E k \in Sources : Unlink(k)
        PROVE children' = children
    BY <1>3 DEF Pick, Retry, Crash, vars, Forget, Block, ReplaceFile, RemoveFile, Enqueue,
                Unlink, jobVars
  <1> QED
    BY <1>1, <1>2, <1>3 DEF Next

\* The delete of a file is asked for after the torrent was dealt with, and once.
LEMMA DeletingStep ==
  WorldOK /\ JobsOK /\ TombstoneOK /\ DeletingOK /\ [Next]_vars => DeletingOK'
  <1> SUFFICES ASSUME WorldOK, JobsOK, TombstoneOK, DeletingOK, [Next]_vars, NEW i \in deleting'
               PROVE  /\ stage'[i] \in Past \cup {"blocked"} /\ i \in tombstone'
                      /\ i \notin monitored' /\ file'[i] # "absent" /\ record'[i] = "file"
    BY DEF DeletingOK
  <1> USE DEF Past, Unrecorded, Unrequested, Forgotten
  <1>1. i \in Items /\ i \in Jobs /\ i \notin Seasons
    BY WorldStep, MediaAssumption DEF WorldOK, Jobs, Items
  <1>2. tombstone \subseteq tombstone' /\ monitored' \subseteq monitored
    BY OnlyGoes
  <1>3. CASE AskFile(i)
    <2>1. /\ stage[i] = "torrents_removed" /\ file[i] = "captured" /\ UNCHANGED <<stage, file>>
          /\ (i \in Episodes => i \notin monitored) /\ record'[i] = "file"
      BY <1>3 DEF AskFile, HasFile, jobVars
    <2>2. i \in tombstone
      BY <1>1, <2>1 DEF TombstoneOK, Begun
    <2>3. i \notin monitored
      BY <2>1 DEF WorldOK
    <2> QED
      BY <1>2, <2>1, <2>2, <2>3
  <1>4. CASE i \in deleting
    <2>1. /\ stage[i] \in Past \cup {"blocked"} /\ i \in tombstone
          /\ i \notin monitored /\ file[i] # "absent" /\ record[i] = "file"
      BY <1>4 DEF DeletingOK
    <2>2. ~ RemoveFile(i)
      BY DEF RemoveFile
    <2>3. file'[i] # "absent" /\ record'[i] = "file"
      BY <1>1, <2>1, <2>2, OnlyGoes
    <2>4. stage'[i] \in Past \cup {"blocked"}
      BY <1>1, <2>1, AdvanceItem, StageStep
    <2> QED
      BY <1>2, <2>1, <2>3, <2>4
  <1> QED
    BY <1>1, <1>3, <1>4, OnlyGoes

\* What an item's stage says is gone was removed before `set_stage`, and stays away.
LEMMA TraceStep == WorldOK /\ JobsOK /\ DeletingOK /\ TraceOK /\ [Next]_vars => TraceOK'
  <1> SUFFICES ASSUME WorldOK, JobsOK, DeletingOK, TraceOK, [Next]_vars, NEW i \in Items
               PROVE  /\ stage'[i] \in Unrecorded =>
                             file'[i] = "absent" /\ (i \in Movies => record'[i] = "gone")
                      /\ stage'[i] # "none" /\ file'[i] = "absent" => i \notin monitored'
                      /\ stage'[i] \in Unrequested => i \notin requests'
                      /\ stage'[i] \in Forgotten => i \notin catalogue'
                      /\ stage'[i] = "complete" /\ Managed(i) => i \notin caches'
    BY DEF TraceOK, Managed
  <1> USE DEF Unrecorded, Unrequested, Forgotten
  <1>1. /\ stage[i] \in Unrecorded =>
               file[i] = "absent" /\ (i \in Movies => record[i] = "gone")
        /\ stage[i] # "none" /\ file[i] = "absent" => i \notin monitored
        /\ stage[i] \in Unrequested => i \notin requests
        /\ stage[i] \in Forgotten => i \notin catalogue
        /\ stage[i] = "complete" /\ Managed(i) => i \notin caches
    BY DEF TraceOK
  <1>2. i \in Jobs
    BY DEF Jobs
  <1>3. /\ monitored' \subseteq monitored /\ requests' \subseteq requests
        /\ catalogue' \subseteq catalogue /\ caches' \subseteq caches
    BY OnlyGoes
  \* A file or a record that is gone does not come back.
  <1>4. file[i] = "absent" => file'[i] = "absent" /\ (record[i] = "gone" => record'[i] = "gone")
    <2>1. RemoveFile(i) => file[i] # "absent"
      BY DEF RemoveFile, DeletingOK
    <2> QED
      BY <2>1, OnlyGoes
  \* An episode's file is deleted once Sonarr does not monitor it.
  <1>5. stage[i] # "none" /\ file'[i] = "absent" => i \notin monitored'
    <2>1. CASE file[i] = "absent"
      BY <1>1, <1>3, <2>1
    <2>2. CASE RemoveFile(i)
      BY <1>3, <2>2 DEF RemoveFile, DeletingOK
    <2> QED
      BY <2>1, <2>2, OnlyGoes
  <1>6. CASE Advance(i)
    <2>1. file'[i] = file[i] /\ record'[i] = record[i]
      BY <1>2, <1>6, AdvanceKeepsWorld
    <2>2. stage[i] # "none"
      BY <1>6, AdvanceItem
    <2> QED
      BY <1>1, <1>3, <1>5, <1>6, <2>1, <2>2, AdvanceItem DEF RecordSettled
  <1>7. CASE stage[i] = "none" /\ stage'[i] = "queued"
    \* Only a file that is there is captured.
    <2>1. file'[i] # "absent"
      <3>1. ASSUME NEW j \in Jobs, Act(j) PROVE FALSE
        <4>1. Advance(j)
          BY <1>7, <3>1, EffectKeepsJobs
        <4>2. stage[j] # "none" /\ stage'[i] = (IF i = j THEN stage'[j] ELSE stage[i])
          BY <1>2, <3>1, <4>1, MediaAssumption, AdvanceKeepsWorld
             DEF WorldOK, JobsOK, Advance, Terminal
        <4> QED
          BY <1>7, <4>2
      <3>2. ASSUME NEW k \in Items, Enqueue(k) PROVE file'[i] # "absent"
        <4>1. i = k
          BY <1>2, <1>7, <3>2 DEF Enqueue, WorldOK
        <4> QED
          BY <3>2, <4>1 DEF Enqueue, world
      <3>3. ASSUME NEW s \in Seasons, EnqueueSeason(s) PROVE file'[i] # "absent"
        BY <1>2, <1>7, <3>3, MediaAssumption DEF EnqueueSeason, world, EpisodesOf
      <3>4. ASSUME NEW j \in Jobs, Block(j) PROVE FALSE
        BY <1>2, <1>7, <3>4 DEF Block, WorldOK
      <3>5. ASSUME \/ Pick \/ Retry \/ Crash \/ UNCHANGED vars
                   \/ \E k \in Jobs : Forget(k)
                   \/ \E k \in Items : ReplaceFile(k) \/ RemoveFile(k)
                   \/ \E k \in Sources : Unlink(k)
            PROVE FALSE
        BY <1>7, <3>5 DEF Pick, Retry, Crash, vars, Forget, ReplaceFile, RemoveFile, Unlink, jobVars
      <3> QED
        BY <3>1, <3>2, <3>3, <3>4, <3>5 DEF Next
    <2> QED
      BY <1>7, <2>1
  <1>8. CASE stage'[i] = stage[i]
    BY <1>1, <1>3, <1>4, <1>5, <1>8
  <1>9. CASE stage[i] # "none" /\ stage'[i] = "blocked"
    BY <1>5, <1>9
  <1> QED
    BY <1>2, <1>6, <1>7, <1>8, <1>9, StageStep

\* The same for a season: its children are complete for good.
LEMMA SeasonTraceStep ==
  WorldOK /\ JobsOK /\ SeasonTraceOK /\ [Next]_vars => SeasonTraceOK'
  <1> SUFFICES ASSUME WorldOK, JobsOK, SeasonTraceOK, [Next]_vars, NEW s \in Seasons
               PROVE  /\ stage'[s] \in Begun => monitored' \cap EpisodesOf(s) = {}
                      /\ stage'[s] \in Past =>
                             /\ \A e \in children'[s] : stage'[e] = "complete"
                             /\ Absent(s)' /\ EpisodesOf(s) \subseteq tombstone'
                             /\ \A e \in EpisodesOf(s) :
                                    Managed(e) => source'[SourceOf[e]] # "present"
                      /\ stage'[s] \in Unrequested => s \notin requests'
                      /\ stage'[s] \in Forgotten => s \notin catalogue'
    BY DEF SeasonTraceOK, Managed, ChildrenDone, EpisodesOf
  <1> USE DEF Begun, Past, Unrecorded, Unrequested, Forgotten
  <1>1. /\ stage[s] \in Begun => monitored \cap EpisodesOf(s) = {}
        /\ stage[s] \in Past =>
               /\ ChildrenDone(s) /\ Absent(s) /\ EpisodesOf(s) \subseteq tombstone
               /\ \A e \in EpisodesOf(s) : Managed(e) => source[SourceOf[e]] # "present"
        /\ stage[s] \in Unrequested => s \notin requests
        /\ stage[s] \in Forgotten => s \notin catalogue
    BY DEF SeasonTraceOK
  <1>2. /\ monitored' \subseteq monitored /\ requests' \subseteq requests
        /\ catalogue' \subseteq catalogue /\ tombstone \subseteq tombstone'
    BY OnlyGoes
  <1>3. s \in Jobs /\ s \notin Items /\ EpisodesOf(s) \subseteq Items /\ Items \subseteq Jobs
    BY MediaAssumption DEF Jobs, Items, EpisodesOf
  \* What the preflight of `torrents_removed` found stays so.
  <1>4. ASSUME stage[s] # "none", ChildrenDone(s), Absent(s), EpisodesOf(s) \subseteq tombstone,
               \A e \in EpisodesOf(s) : Managed(e) => source[SourceOf[e]] # "present"
        PROVE  /\ \A e \in children'[s] : stage'[e] = "complete"
               /\ Absent(s)' /\ EpisodesOf(s) \subseteq tombstone'
               /\ \A e \in EpisodesOf(s) : Managed(e) => source'[SourceOf[e]] # "present"
    <2>1. children'[s] = children[s] /\ children[s] \subseteq EpisodesOf(s)
      BY <1>4, ChildrenStep DEF EnqueueSeason, JobsOK
    <2>2. ASSUME NEW e \in children[s] PROVE stage'[e] = "complete"
      <3>1. stage[e] = "complete" /\ e \in Items /\ e \in Jobs
        BY <1>3, <1>4, <2>1, <2>2 DEF ChildrenDone
      <3>2. ~ Advance(e)
        BY <3>1, AdvanceItem
      <3> QED
        BY <3>1, <3>2, StageStep DEF Terminal
    <2>3. \A e \in EpisodesOf(s) : file'[e] = "absent"
      <3>1. \A e \in EpisodesOf(s) : file[e] = "absent"
        BY <1>4 DEF Absent
      <3> QED
        BY <1>3, <3>1, OnlyGoes
    <2>4. \A e \in EpisodesOf(s) : Managed(e) => source'[SourceOf[e]] # "present"
      <3>1. \A e \in EpisodesOf(s) : Managed(e) => SourceOf[e] \in Sources
        BY <1>3, MediaAssumption DEF Managed
      <3> QED
        BY <1>4, <3>1, OnlyGoes
    <2>5. Absent(s)'
      BY <2>3 DEF Absent
    <2> QED
      BY <1>2, <1>4, <2>1, <2>2, <2>4, <2>5
  <1>5. CASE Advance(s)
    <2>1. stage[s] # "none"
      BY <1>5, AdvanceSeason
    <2> QED
      BY <1>1, <1>2, <1>4, <1>5, <2>1, AdvanceSeason
  <1>6. CASE stage'[s] = stage[s]
    BY <1>1, <1>2, <1>4, <1>6
  <1>7. CASE stage'[s] \in {"queued", "blocked"}
    BY <1>7
  <1> QED
    BY <1>3, <1>5, <1>6, <1>7, StageStep

\* Media that keeps a torrent on disk goes on keeping it, until its own job has dealt with
\* the torrent: a season's purge finds no file left that would need to be kept.
LEMMA KeepsStep ==
  ASSUME WorldOK, JobsOK, DeletingOK, [Next]_vars, NEW i \in Items, NEW k \in Sharing(i) \ {i},
         Managed(i), Keeps(k), file[i] # "absent"
  PROVE  Keeps(k)' \/ (Advance(k) /\ stage[k] = "tombstoned")
  <1>1. k \in Items /\ k \in Jobs /\ k \notin Seasons
    BY MediaAssumption DEF Sharing, Jobs, Items
  <1>2. i \in Episodes /\ k \in Episodes /\ SeasonOf[i] = SeasonOf[k]
    BY <1>1, SharingAssumption
  <1>3. ASSUME k \notin tombstone, k \in tombstone'
        PROVE stage'[k] = "validated" /\ file'[k] # "absent" /\ k \notin deleting'
    <2>1. ASSUME NEW j \in Jobs, Act(j), ~ Tombstone(j), ~ PurgeSeason(j), ~ TombstoneSeason(j)
          PROVE tombstone' = tombstone
      <3>1. CASE Advance(j)
        BY <3>1, AdvanceKeepsWorld
      <3> QED
        BY <2>1, <3>1 DEF Act, RemoveSource, Unmonitor, AskFile, RemoveRecord, RemoveRequest,
                          AskJellyfin, RemoveCache, UnmonitorSeason
    <2>2. ASSUME NEW j \in Jobs, Tombstone(j)
          PROVE  stage'[k] = "validated" /\ file'[k] # "absent" /\ k \notin deleting'
      BY <1>3, <2>2 DEF Tombstone, jobVars, DeletingOK
    <2>3. ASSUME NEW s \in Jobs, PurgeSeason(s) PROVE FALSE
      <3>1. s \in Seasons /\ Absent(s) /\ tombstone' = tombstone \cup EpisodesOf(s)
        BY <2>3 DEF PurgeSeason
      <3>2. i \in EpisodesOf(s)
        BY <1>2, <1>3, <3>1 DEF EpisodesOf
      <3> QED
        BY <3>1, <3>2 DEF Absent
    <2>4. ASSUME NEW s \in Jobs, TombstoneSeason(s) PROVE FALSE
      BY <1>1, <1>3, <2>4 DEF TombstoneSeason
    <2>5. ASSUME UNCHANGED world PROVE FALSE
      BY <1>3, <2>5 DEF world
    <2>6. ASSUME \/ \E j \in Jobs : Forget(j)
                 \/ \E j \in Items : ReplaceFile(j) \/ RemoveFile(j)
                 \/ \E j \in Sources : Unlink(j)
          PROVE FALSE
      BY <1>3, <2>6 DEF Forget, ReplaceFile, RemoveFile, Unlink
    <2>7. ASSUME \/ Pick \/ Retry \/ Crash \/ UNCHANGED vars
                 \/ \E j \in Jobs : Block(j)
                 \/ \E j \in Items : Enqueue(j)
                 \/ \E j \in Seasons : EnqueueSeason(j)
          PROVE UNCHANGED world
      BY <2>7 DEF Pick, Retry, Crash, vars, Block, Enqueue, EnqueueSeason, world
    <2> QED
      BY <1>3, <2>1, <2>2, <2>3, <2>4, <2>5, <2>6, <2>7 DEF Next
  <1>4. CASE k \notin tombstone
    BY <1>3, <1>4 DEF Keeps
  <1>5. CASE /\ file[k] # "absent" /\ k \notin deleting
             /\ stage[k] \in {"validated", "tombstoned", "blocked"}
    <2>1. file'[k] # "absent" /\ k \notin deleting'
      <3>1. ~ RemoveFile(k) /\ ~ AskFile(k)
        BY <1>5 DEF RemoveFile, AskFile
      <3> QED
        BY <1>1, <1>5, <3>1, OnlyGoes
    <2>2. \/ stage'[k] \in {"validated", "tombstoned", "blocked"}
          \/ Advance(k) /\ stage[k] = "tombstoned"
      BY <1>1, <1>5, AdvanceItem, StageStep
    <2> QED
      BY <2>1, <2>2 DEF Keeps
  <1> QED
    BY <1>4, <1>5 DEF Keeps

\* A job goes past its torrent when that has left the disk or is kept for other media.
LEMMA SourceStep ==
  WorldOK /\ JobsOK /\ TombstoneOK /\ DeletingOK /\ SourceOK /\ [Next]_vars => SourceOK'
  <1> SUFFICES ASSUME WorldOK, JobsOK, TombstoneOK, DeletingOK, SourceOK, [Next]_vars,
                      NEW i \in Items, Managed(i), source'[SourceOf[i]] # "gone"
               PROVE  /\ stage'[i] \in Past => \E k \in Sharing(i) : stage'[k] \notin Past
                      /\ i \in deleting' \/ (stage'[i] = "torrents_removed" /\ file'[i] # "absent")
                             => \E k \in Sharing(i) \ {i} : Keeps(k)'
    BY DEF SourceOK, Managed, Sharing
  <1>1. source[SourceOf[i]] # "gone"
    BY MediaAssumption, OnlyGoes DEF Managed
  <1>2. i \in Jobs /\ Sharing(i) \subseteq Items /\ Items \subseteq Jobs
    BY DEF Jobs, Sharing
  <1>3. tombstone \subseteq tombstone' /\ (file'[i] # "absent" => file[i] # "absent")
    BY OnlyGoes
  \* The job of one of the torrent's media goes past the torrent only when it is gone, or
  \* kept for media that nobody has deleted.
  <1>4. CASE \E j \in Sharing(i) : Advance(j) /\ stage[j] = "tombstoned"
    <2>1. PICK j \in Sharing(i) : Advance(j) /\ stage[j] = "tombstoned"
      BY <1>4
    <2>2. SourceSettled(j) /\ stage' = [stage EXCEPT ![j] = "torrents_removed"]
      BY <1>2, <2>1, AdvanceItem
    <2>3. Managed(j) /\ SourceOf[j] = SourceOf[i] /\ Sharing(j) = Sharing(i)
      BY <2>1 DEF Sharing, Managed
    <2>4. PICK k \in Sharing(i) : k \notin tombstone
      BY <1>1, <2>2, <2>3 DEF SourceSettled, SourceFree
    <2>5. tombstone' = tombstone /\ j \in tombstone
      BY <1>2, <2>1, AdvanceKeepsWorld DEF TombstoneOK, Begun
    <2>6. stage[k] \notin Begun /\ k # j
      BY <1>2, <2>4, <2>5 DEF TombstoneOK
    <2>7. stage'[k] \notin Past
      BY <1>2, <2>2, <2>6 DEF WorldOK, Begun
    <2>8. Keeps(k)'
      BY <2>4, <2>5 DEF Keeps
    <2>9. stage'[i] = "torrents_removed" => k # i
      <3>1. i = j \/ stage'[i] = stage[i]
        BY <1>2, <2>2 DEF WorldOK
      <3>2. stage[i] = "torrents_removed" => i \in tombstone
        BY <1>2 DEF TombstoneOK, Begun, Past
      <3> QED
        BY <2>4, <2>6, <3>1, <3>2
    <2>10. i \in deleting' => k # i
      BY <2>4, <2>5, DeletingStep DEF DeletingOK
    <2> QED
      BY <2>4, <2>7, <2>8, <2>9, <2>10
  <1>5. CASE ~ \E j \in Sharing(i) : Advance(j) /\ stage[j] = "tombstoned"
    <2>1. ASSUME NEW j \in Sharing(i) PROVE (stage'[j] \in Past) => (stage[j] \in Past)
      <3>1. j \in Items /\ j \in Jobs
        BY <1>2
      <3>2. CASE Advance(j)
        BY <1>5, <3>1, <3>2, AdvanceItem DEF Past, Unrecorded, Unrequested, Forgotten
      <3> QED
        BY <3>1, <3>2, StageStep DEF Past, Unrecorded, Unrequested, Forgotten
    <2>2. i \in Sharing(i)
      BY DEF Sharing
    <2>3. ASSUME stage'[i] \in Past PROVE \E k \in Sharing(i) : stage'[k] \notin Past
      <3>1. PICK k \in Sharing(i) : stage[k] \notin Past
        BY <1>1, <2>1, <2>2, <2>3 DEF SourceOK
      <3> QED
        BY <2>1, <3>1
    <2>4. ASSUME i \in deleting' \/ (stage'[i] = "torrents_removed" /\ file'[i] # "absent")
          PROVE \E k \in Sharing(i) \ {i} : Keeps(k)'
      <3>1. file[i] # "absent" /\ (i \in deleting \/ stage[i] = "torrents_removed")
        <4>1. CASE i \in deleting
          BY <4>1 DEF DeletingOK
        <4>2. CASE AskFile(i)
          BY <4>2 DEF AskFile, HasFile
        <4>3. CASE stage'[i] = "torrents_removed" /\ file'[i] # "absent"
          <5>1. ~ Advance(i) \/ stage'[i] # "torrents_removed"
            BY <1>2, <1>5, <2>2, AdvanceItem
          <5> QED
            BY <1>2, <1>3, <4>3, <5>1, StageStep
        <4> QED
          BY <2>4, <4>1, <4>2, <4>3, OnlyGoes
      <3>2. PICK k \in Sharing(i) \ {i} : Keeps(k)
        BY <1>1, <3>1 DEF SourceOK
      <3>3. Keeps(k)'
        BY <1>5, <3>1, <3>2, KeepsStep
      <3> QED
        BY <3>2, <3>3
    <2> QED
      BY <2>3, <2>4
  <1> QED
    BY <1>4, <1>5

\* No operation begins the deletion of an episode before that of its season.
LEMMA SeasonAllStep ==
  WorldOK /\ JobsOK /\ TombstoneOK /\ DeletingOK /\ SeasonAllOrNothing /\ [Next]_vars
      => SeasonAllOrNothing'
  <1> SUFFICES ASSUME WorldOK, JobsOK, TombstoneOK, DeletingOK, SeasonAllOrNothing, [Next]_vars,
                      NEW s \in Seasons, s \notin tombstone', NEW e \in children'[s]
               PROVE  /\ stage'[e] \in {"queued", "blocked"} /\ e \notin tombstone'
                      /\ file'[e] # "absent" /\ e \in catalogue'
    BY DEF SeasonAllOrNothing
  <1>1. s \notin tombstone
    BY OnlyGoes
  <1>2. s \in Jobs /\ EpisodesOf(s) \subseteq Items /\ Items \subseteq Jobs
    BY DEF Jobs, Items, EpisodesOf
  \* Captured with its season: there, and not tombstoned by an earlier deletion.
  <1>3. CASE EnqueueSeason(s)
    <2>1. /\ e \in EpisodesOf(s) /\ stage[e] = "none" /\ stage'[e] = "queued"
          /\ file[e] # "absent" /\ e \in catalogue /\ UNCHANGED world
      BY <1>2, <1>3 DEF EnqueueSeason, NoRow, WorldOK
    <2>2. e \notin tombstone
      BY <1>1, <1>2, <2>1 DEF TombstoneOK, EpisodesOf
    <2> QED
      BY <2>1, <2>2 DEF world
  <1>4. CASE children'[s] = children[s]
    <2>1. /\ e \in EpisodesOf(s) /\ e \in Items /\ e \in Jobs /\ stage[s] # "none"
          /\ stage[e] \in {"queued", "blocked"} /\ e \notin tombstone
          /\ file[e] # "absent" /\ e \in catalogue
      BY <1>1, <1>2, <1>4 DEF SeasonAllOrNothing, JobsOK
    \* The season's job has not begun or is blocked, so its episode's job does not act.
    <2>2. ~ Acting(e)
      <3>1. stage[s] \in {"queued", "validated", "blocked"}
        BY <1>1, <1>2, <2>1
           DEF TombstoneOK, WorldOK, Stages, Begun, Past, Unrecorded, Unrequested, Forgotten
      <3> QED
        BY <1>4, <3>1 DEF Acting, MayStart, Doomed, ParentBlocked
    <2>3. stage'[e] \in {"queued", "blocked"}
      <3>1. ~ Advance(e)
        BY <2>2 DEF Advance
      <3> QED
        BY <2>1, <3>1, StageStep
    <2>4. file'[e] # "absent"
      <3>1. ~ RemoveFile(e)
        BY <2>1 DEF RemoveFile, DeletingOK
      <3> QED
        BY <2>1, <3>1, OnlyGoes
    <2>5. e \in catalogue'
      <3>1. ASSUME NEW j \in Jobs, Forget(j) PROVE e \in catalogue'
        <4>1. Absent(e) => file[e] = "absent"
          BY <2>1, MediaAssumption DEF Absent
        <4> QED
          BY <2>1, <3>1, <4>1 DEF Forget
      <3>2. ASSUME NEW j \in Jobs, Act(j) PROVE e \in catalogue'
        BY <2>1, <3>2, EffectKeepsJobs, AdvanceKeepsWorld
      <3>3. ASSUME \/ \E j \in Items : ReplaceFile(j) \/ RemoveFile(j) \/ Enqueue(j)
                   \/ \E j \in Sources : Unlink(j)
                   \/ \E j \in Seasons : EnqueueSeason(j)
                   \/ \E j \in Jobs : Block(j)
                   \/ Pick \/ Retry \/ Crash \/ UNCHANGED vars
            PROVE e \in catalogue'
        BY <2>1, <3>3 DEF ReplaceFile, RemoveFile, Enqueue, Unlink, EnqueueSeason, Block, Pick,
                          Retry, Crash, vars, world
      <3> QED
        BY <3>1, <3>2, <3>3 DEF Next
    <2>6. e \notin tombstone'
      <3>1. ASSUME NEW j \in Jobs, Act(j) PROVE e \notin tombstone'
        <4>1. CASE Tombstone(j)
          BY <2>1, <2>2, <4>1 DEF Tombstone
        <4>2. CASE TombstoneSeason(j)
          BY <2>1, <4>2, MediaAssumption DEF TombstoneSeason
        <4>3. CASE PurgeSeason(j)
          BY <2>1, <4>3 DEF PurgeSeason, Absent
        <4>4. CASE Advance(j)
          BY <2>1, <4>4, AdvanceKeepsWorld
        <4> QED
          BY <2>1, <3>1, <4>1, <4>2, <4>3, <4>4
             DEF Act, RemoveSource, Unmonitor, AskFile, RemoveRecord, RemoveRequest,
                 AskJellyfin, RemoveCache, UnmonitorSeason
      <3>2. ASSUME \/ \E j \in Items : ReplaceFile(j) \/ RemoveFile(j) \/ Enqueue(j)
                   \/ \E j \in Sources : Unlink(j)
                   \/ \E j \in Seasons : EnqueueSeason(j)
                   \/ \E j \in Jobs : Block(j) \/ Forget(j)
                   \/ Pick \/ Retry \/ Crash \/ UNCHANGED vars
            PROVE e \notin tombstone'
        BY <2>1, <3>2 DEF ReplaceFile, RemoveFile, Enqueue, Unlink, EnqueueSeason, Block, Forget,
                          Pick, Retry, Crash, vars, world
      <3> QED
        BY <3>1, <3>2 DEF Next
    <2> QED
      BY <2>3, <2>4, <2>5, <2>6
  <1> QED
    BY <1>3, <1>4, ChildrenStep

-----------------------------------------------------------------------------
(* The queue *)

\* Each element of S once, and nothing else.
Lists(q, S) == q \in Seq(S) /\ IsInjective(q) /\ Range(q) = S

\* A finite set can be listed: the children of a season's job.
LEMMA SetToSeqLists ==
  ASSUME NEW S, IsFiniteSet(S)
  PROVE  Lists(SetToSeq(S), S)
  <1> DEFINE n == Cardinality(S)
  <1>1. n \in Nat /\ ExistsBijection(1 .. n, S)
    BY FS_CardinalityType
  <1>2. \E f \in [1 .. n -> S] : IsInjective(f)
    BY <1>1 DEF ExistsBijection, Bijection, Injection
  <1>3. SetToSeq(S) \in [1 .. n -> S] /\ IsInjective(SetToSeq(S))
    BY <1>2, Zenon DEF SetToSeq
  <1>4. IsFiniteSet(1 .. n) /\ Cardinality(1 .. n) = n
    BY <1>1, FS_Interval
  <1>5. SetToSeq(S) \in Injection(1 .. n, S)
    BY <1>3 DEF Injection
  <1>6. SetToSeq(S) \in Surjection(1 .. n, S)
    BY <1>4, <1>5, FS_Injection
  <1>7. SetToSeq(S) \in Seq(S)
    BY <1>1, <1>3
  <1>8. Range(SetToSeq(S)) = S
    BY <1>3, <1>6 DEF Range, Surjection
  <1> QED
    BY <1>3, <1>7, <1>8 DEF Lists

\* One list after another of other elements.
LEMMA ConcatLists ==
  ASSUME NEW S, NEW T, NEW p, NEW q, Lists(p, S), Lists(q, T), S \cap T = {}
  PROVE  Lists(p \o q, S \cup T)
  <1>1. p \in Seq(S \cup T) /\ q \in Seq(S \cup T)
    BY SeqMonotonic DEF Lists
  <1>2. /\ p \o q \in Seq(S \cup T) /\ Len(p \o q) = Len(p) + Len(q)
        /\ \A i \in 1 .. Len(p) + Len(q) :
               (p \o q)[i] = IF i <= Len(p) THEN p[i] ELSE q[i - Len(p)]
    BY <1>1, ConcatProperties
  <1>3. Range(p \o q) = S \cup T
    BY <1>1, RangeConcatenation DEF Lists
  <1>4. /\ Len(p) \in Nat /\ DOMAIN p = 1 .. Len(p) /\ Len(q) \in Nat /\ DOMAIN q = 1 .. Len(q)
        /\ DOMAIN (p \o q) = 1 .. Len(p) + Len(q)
    BY <1>1, <1>2, LenProperties
  <1>5. (\A i \in 1 .. Len(p) : p[i] \in S) /\ (\A i \in 1 .. Len(q) : q[i] \in T)
    BY <1>4 DEF Lists, Range
  <1>6. ASSUME NEW i \in 1 .. Len(p) + Len(q), NEW k \in 1 .. Len(p) + Len(q),
               (p \o q)[i] = (p \o q)[k]
        PROVE  i = k
    <2>1. CASE i <= Len(p) /\ k <= Len(p)
      BY <1>2, <1>4, <1>6, <2>1 DEF Lists, IsInjective
    <2>2. CASE i > Len(p) /\ k > Len(p)
      <3>1. i - Len(p) \in DOMAIN q /\ k - Len(p) \in DOMAIN q
        BY <1>4, <2>2
      <3>2. q[i - Len(p)] = q[k - Len(p)]
        BY <1>2, <1>4, <1>6, <2>2
      <3>3. i - Len(p) = k - Len(p)
        BY <3>1, <3>2 DEF Lists, IsInjective
      <3> QED
        BY <1>4, <3>3
    <2>3. CASE i <= Len(p) /\ k > Len(p)
      <3>1. (p \o q)[i] \in S /\ (p \o q)[k] \in T
        BY <1>2, <1>4, <1>5, <2>3
      <3> QED
        BY <1>6, <3>1
    <2>4. CASE i > Len(p) /\ k <= Len(p)
      <3>1. (p \o q)[i] \in T /\ (p \o q)[k] \in S
        BY <1>2, <1>4, <1>5, <2>4
      <3> QED
        BY <1>6, <3>1
    <2> QED
      BY <1>4, <2>1, <2>2, <2>3, <2>4
  <1> QED
    BY <1>2, <1>3, <1>4, <1>6 DEF Lists, IsInjective

\* One element.
LEMMA OneIsListed ==
  ASSUME NEW j
  PROVE  Lists(<<j>>, {j})
  BY DEF Lists, IsInjective, Range

\* The list without the element at one place.
LEMMA RemoveAtLists ==
  ASSUME NEW S, NEW q, Lists(q, S), NEW n \in DOMAIN q
  PROVE  Lists(RemoveAt(q, n), S \ {q[n]})
  <1> DEFINE T == S \ {q[n]}
             p == SubSeq(q, 1, n - 1)
             r == SubSeq(q, n + 1, Len(q))
  <1>1. Len(q) \in Nat /\ DOMAIN q = 1 .. Len(q) /\ n \in 1 .. Len(q)
    BY LenProperties DEF Lists
  <1>2. \A i \in DOMAIN q : q[i] \in S /\ (i # n => q[i] \in T)
    BY DEF Lists, IsInjective, Range
  <1>3. /\ p \in Seq(T) /\ Len(p) = n - 1 /\ \A i \in 1 .. n - 1 : p[i] = q[i]
    <2>1. \A i \in 1 .. n - 1 : q[i] \in T
      BY <1>1, <1>2
    <2>2. /\ p \in Seq(T) /\ Len(p) = IF 1 <= n - 1 THEN n - 1 - 1 + 1 ELSE 0
          /\ \A i \in 1 .. n - 1 - 1 + 1 : p[i] = q[1 + i - 1]
      BY <1>1, <2>1, SubSeqProperties
    <2> HIDE DEF p, T
    <2> QED
      BY <1>1, <2>2
  <1>4. /\ r \in Seq(T) /\ Len(r) = Len(q) - n /\ \A i \in 1 .. Len(q) - n : r[i] = q[n + i]
    <2>1. \A i \in n + 1 .. Len(q) : q[i] \in T
      BY <1>1, <1>2
    <2>2. /\ r \in Seq(T)
          /\ Len(r) = IF n + 1 <= Len(q) THEN Len(q) - (n + 1) + 1 ELSE 0
          /\ \A i \in 1 .. Len(q) - (n + 1) + 1 : r[i] = q[n + 1 + i - 1]
      BY <1>1, <2>1, SubSeqProperties
    <2> HIDE DEF r, T
    <2>3. \A i \in 1 .. Len(q) - n : n + 1 + i - 1 = n + i
      BY <1>1
    <2> QED
      BY <1>1, <2>2, <2>3
  <1> HIDE DEF p, r, T
  <1>5. Lists(p, Range(p)) /\ Lists(r, Range(r))
    <2>1. p \in Seq(Range(p)) /\ r \in Seq(Range(r))
      BY <1>3, <1>4, SeqOfRange
    <2>2. DOMAIN p = 1 .. n - 1 /\ DOMAIN r = 1 .. Len(q) - n
      BY <1>3, <1>4, LenProperties
    <2>3. IsInjective(p)
      BY <1>1, <1>3, <2>2 DEF Lists, IsInjective
    <2>4. IsInjective(r)
      BY <1>1, <1>4, <2>2 DEF Lists, IsInjective
    <2> QED
      BY <2>1, <2>3, <2>4 DEF Lists
  <1>6. Range(p) = {q[i] : i \in 1 .. n - 1} /\ Range(r) = {q[i] : i \in n + 1 .. Len(q)}
    <2>1. Range(p) = {p[i] : i \in 1 .. n - 1} /\ Range(r) = {r[i] : i \in 1 .. Len(q) - n}
      BY <1>3, <1>4, RangeEquality
    <2>2. \A i \in n + 1 .. Len(q) : i - n \in 1 .. Len(q) - n /\ r[i - n] = q[i]
      BY <1>1, <1>4
    <2>3. \A i \in 1 .. Len(q) - n : n + i \in n + 1 .. Len(q) /\ r[i] = q[n + i]
      BY <1>1, <1>4
    <2>4. Range(r) \subseteq {q[i] : i \in n + 1 .. Len(q)}
      BY <2>1, <2>3
    <2>5. {q[i] : i \in n + 1 .. Len(q)} \subseteq Range(r)
      BY <2>1, <2>2
    <2> QED
      BY <1>3, <2>1, <2>4, <2>5
  <1>7. Range(p) \cap Range(r) = {}
    <2>1. \A i \in 1 .. n - 1, k \in n + 1 .. Len(q) : q[i] # q[k]
      BY <1>1 DEF Lists, IsInjective
    <2> QED
      BY <1>6, <2>1
  <1>8. Range(p) \cup Range(r) = T
    <2>1. T = {q[i] : i \in (1 .. Len(q)) \ {n}}
      BY <1>1, <1>2 DEF T, Lists, Range
    <2>2. (1 .. Len(q)) \ {n} = (1 .. n - 1) \cup (n + 1 .. Len(q))
      BY <1>1
    <2> QED
      BY <1>6, <2>1, <2>2
  <1>9. RemoveAt(q, n) = p \o r
    BY DEF RemoveAt, p, r
  <1> QED
    BY <1>5, <1>7, <1>8, <1>9, ConcatLists DEF T

\* The jobs that `next_queued` may return.
Unfinished == {j \in Jobs : stage[j] \notin Terminal \cup {"none"}}

\* The queue lists them, and the worker works on one of them or on none.
LEMMA QueueIsList == QueueOK <=> Lists(queue, Unfinished) /\ active \in Unfinished \cup {NoJob}
  <1>1. Range(queue) = Unfinished /\ queue \in Seq(Jobs) => queue \in Seq(Unfinished)
    BY SeqOfRange
  <1>2. queue \in Seq(Unfinished) => queue \in Seq(Jobs)
    BY SeqMonotonic DEF Unfinished
  <1> QED
    BY <1>1, <1>2 DEF QueueOK, Lists, Unfinished

\* Taking a job out of the queue, and putting it behind the others.
LEMMA QueueWithout ==
  ASSUME NEW S, Lists(queue, S), NEW j \in S
  PROVE  Lists(Without(j), S \ {j}) /\ Lists(Rotated(j), S)
  <1> DEFINE n == CHOOSE n \in DOMAIN queue : queue[n] = j
  <1>1. \E k \in DOMAIN queue : queue[k] = j
    BY DEF Lists, Range
  <1>2. n \in DOMAIN queue /\ queue[n] = j
    BY <1>1
  <1>3. Without(j) = RemoveAt(queue, n)
    BY DEF Without
  <1> HIDE DEF n
  <1>4. Lists(Without(j), S \ {j})
    BY <1>2, <1>3, RemoveAtLists
  <1>5. Lists(Without(j) \o <<j>>, (S \ {j}) \cup {j})
    BY <1>4, OneIsListed, ConcatLists
  <1>6. Append(Without(j), j) = Without(j) \o <<j>>
    <2>1. Without(j) \in Seq(S)
      BY <1>4, SeqMonotonic DEF Lists
    <2> QED
      BY <2>1, AppendIsConcat
  <1>7. (S \ {j}) \cup {j} = S
    OBVIOUS
  <1> QED
    BY <1>4, <1>5, <1>6, <1>7 DEF Rotated

\* A capture enters its jobs, each attempt renews the job's turn, and a job leaves the
\* queue when it is completed or blocked.
LEMMA QueueStep == WorldOK /\ QueueOK /\ JobsOK /\ [Next]_vars => QueueOK'
  <1> SUFFICES ASSUME WorldOK, QueueOK, JobsOK, [Next]_vars PROVE QueueOK'
    OBVIOUS
  <1>0. /\ Lists(queue, Unfinished) /\ active \in Unfinished \cup {NoJob}
        /\ stage \in [Jobs -> Stages] /\ NoJob \notin Jobs /\ Unfinished \subseteq Jobs
    BY QueueIsList, MediaAssumption DEF WorldOK, Unfinished
  <1>1. Lists(queue', Unfinished') /\ active' \in Unfinished' \cup {NoJob} => QueueOK'
    <2>1. Range(queue') = Unfinished' /\ queue' \in Seq(Unfinished') => queue' \in Seq(Jobs)
      BY SeqMonotonic DEF Unfinished
    <2> QED
      BY <2>1 DEF QueueOK, Lists, Unfinished
  <1>2. ASSUME NEW i \in Items, Enqueue(i) PROVE QueueOK'
    <2>1. /\ i \in Jobs /\ stage[i] = "none" /\ stage' = [stage EXCEPT ![i] = "queued"]
          /\ queue' = Append(queue, i) /\ UNCHANGED active
      BY <1>2 DEF Enqueue, NoRow, Jobs
    <2>2. Unfinished' = Unfinished \cup {i} /\ i \notin Unfinished
      BY <1>0, <2>1 DEF Unfinished, Terminal
    <2>3. Lists(queue \o <<i>>, Unfinished \cup {i})
      BY <1>0, <2>2, OneIsListed, ConcatLists
    <2>4. Append(queue, i) = queue \o <<i>>
      BY <2>1, AppendIsConcat DEF QueueOK
    <2> QED
      BY <1>0, <1>1, <2>1, <2>2, <2>3, <2>4
  <1>3. ASSUME NEW s \in Seasons, EnqueueSeason(s) PROVE QueueOK'
    <2> DEFINE E == {e \in EpisodesOf(s) : file[e] # "absent"}
    <2>1. /\ stage[s] = "none" /\ \A e \in E : stage[e] = "none"
          /\ stage' = [j \in Jobs |-> IF j = s \/ j \in E THEN "queued" ELSE stage[j]]
          /\ queue' = queue \o <<s>> \o SetToSeq(E) /\ UNCHANGED active
      BY <1>3 DEF EnqueueSeason, NoRow
    <2>2. s \in Jobs /\ s \notin E /\ E \subseteq Jobs /\ IsFiniteSet(E)
      <3>1. EpisodesOf(s) \subseteq Episodes /\ IsFiniteSet(EpisodesOf(s))
        BY MediaAssumption DEF EpisodesOf
      <3>2. E \subseteq EpisodesOf(s)
        OBVIOUS
      <3>3. IsFiniteSet(E)
        BY <3>1, <3>2, FS_Subset
      <3>4. s \notin E /\ s \in Jobs /\ E \subseteq Jobs
        BY <3>1, <3>2, MediaAssumption DEF Jobs, Items
      <3> QED
        BY <3>3, <3>4
    <2> HIDE DEF E
    <2>3. Unfinished' = (Unfinished \cup {s}) \cup E /\ s \notin Unfinished /\ Unfinished \cap E = {}
      BY <1>0, <2>1, <2>2 DEF Unfinished, Terminal
    <2>4. Lists(SetToSeq(E), E)
      BY <2>2, SetToSeqLists
    <2>5. Lists(queue \o <<s>>, Unfinished \cup {s})
      BY <1>0, <2>3, OneIsListed, ConcatLists
    <2>6. (Unfinished \cup {s}) \cap E = {}
      BY <2>2, <2>3
    <2>7. Lists((queue \o <<s>>) \o SetToSeq(E), (Unfinished \cup {s}) \cup E)
      BY <2>4, <2>5, <2>6, ConcatLists
    <2> QED
      BY <1>0, <1>1, <2>1, <2>3, <2>7
  <1>4. CASE Pick
    <2>1. active' \in Unfinished /\ UNCHANGED <<stage, queue>>
      BY <1>4 DEF Pick, Unfinished
    <2> QED
      BY <1>0, <1>1, <2>1 DEF Unfinished
  <1>5. CASE Retry
    <2>1. active \in Unfinished /\ queue' = Rotated(active) /\ active' = NoJob /\ UNCHANGED stage
      BY <1>0, <1>5 DEF Retry
    <2>2. Lists(queue', Unfinished)
      BY <1>0, <2>1, QueueWithout
    <2> QED
      BY <1>1, <2>1, <2>2 DEF Unfinished
  <1>6. CASE Crash
    BY <1>0, <1>1, <1>6 DEF Crash, Unfinished
  <1>7. ASSUME NEW j \in Jobs, Block(j) PROVE QueueOK'
    <2>1. /\ j \in Unfinished /\ stage' = [stage EXCEPT ![j] = "blocked"]
          /\ queue' = Without(j) /\ active' = NoJob
      BY <1>0, <1>7 DEF Block
    <2>2. Unfinished' = Unfinished \ {j}
      BY <1>0, <2>1 DEF Unfinished, Terminal
    <2> QED
      BY <1>0, <1>1, <2>1, <2>2, QueueWithout
  <1>8. ASSUME NEW j \in Jobs, Advance(j) PROVE QueueOK'
    <2>1. active = j /\ j \in Unfinished
      BY <1>0, <1>8, AdvanceKeepsWorld
    <2>2. stage' = [stage EXCEPT ![j] = stage'[j]] /\ stage'[j] \notin {"none", "blocked"}
      <3>1. CASE j \in Items
        BY <1>8, <3>1, AdvanceItem
      <3>2. CASE j \in Seasons
        BY <1>8, <3>2, AdvanceSeason
      <3> QED
        BY <3>1, <3>2 DEF Jobs
    <2>3. NextStage(j) = stage'[j]
      BY <1>0, <1>8 DEF Advance
    <2>4. CASE stage'[j] = "complete"
      <3>1. queue' = Without(j) /\ active' = NoJob
        BY <1>8, <2>3, <2>4 DEF Advance
      <3>2. Unfinished' = Unfinished \ {j}
        BY <1>0, <2>2, <2>4 DEF Unfinished, Terminal
      <3> QED
        BY <1>0, <1>1, <2>1, <3>1, <3>2, QueueWithout
    <2>5. CASE stage'[j] # "complete"
      <3>1. queue' = Rotated(j) /\ UNCHANGED active
        BY <1>8, <2>3, <2>5 DEF Advance
      <3>2. Unfinished' = Unfinished
        BY <1>0, <2>1, <2>2, <2>5 DEF Unfinished, Terminal
      <3> QED
        BY <1>0, <1>1, <2>1, <3>1, <3>2, QueueWithout
    <2> QED
      BY <2>4, <2>5
  <1>9. CASE UNCHANGED <<stage, queue, active>>
    BY <1>9 DEF QueueOK
  <1>10. ASSUME NEW j \in Jobs, Act(j) PROVE QueueOK'
    BY <1>8, <1>9, <1>10, EffectKeepsJobs
  <1> QED
    BY <1>2, <1>3, <1>4, <1>5, <1>6, <1>7, <1>9, <1>10
       DEF Next, ReplaceFile, RemoveFile, Forget, Unlink, jobVars, vars

-----------------------------------------------------------------------------
(* The properties of the job table and of the media it deletes *)

\* What each stage of `_process` relies on when it is resumed holds in every state.
THEOREM Resumable == Spec => []JInv
  <1>1. Init => JInv
    <2> SUFFICES ASSUME Init PROVE JInv
      OBVIOUS
    <2>1. WorldOK
      BY WorldInit
    <2>2. \A j \in Jobs : stage[j] = "none"
      BY DEF Init
    <2>3. \A s \in Seasons : stage[s] = "none" /\ s \in Jobs
      BY <2>2 DEF Jobs
    <2>4. \A i \in Items : stage[i] = "none" /\ i \in Jobs
      BY <2>2 DEF Jobs
    <2>5. JobsOK /\ TombstoneOK /\ SeasonAllOrNothing
      BY <2>2, <2>3, <2>4
         DEF Init, JobsOK, TombstoneOK, SeasonAllOrNothing, Begun, Past, Unrecorded,
             Unrequested, Forgotten
    <2>6. SourceOK /\ TraceOK /\ SeasonTraceOK /\ DeletingOK
      BY <2>3, <2>4 DEF Init, SourceOK, TraceOK, SeasonTraceOK, DeletingOK, Begun, Past, Unrecorded,
                        Unrequested, Forgotten
    <2>7. QueueOK
      BY <2>2, EmptySeq DEF Init, QueueOK, IsInjective, Range
    <2> QED
      BY <2>1, <2>5, <2>6, <2>7 DEF JInv
  <1>2. JInv /\ [Next]_vars => JInv'
    BY WorldStep, QueueStep, JobsStep, TombstoneStep, DeletingStep, SourceStep, TraceStep,
       SeasonTraceStep, SeasonAllStep
       DEF JInv
  <1> QED
    BY <1>1, <1>2, PTL DEF Spec

\* `next_queued`, `touch` and `set_stage`: the worker's queue is the table's unfinished rows, once
\* each, so no job is lost or taken twice, however its attempts end.
THEOREM JobsTypeCorrect == Spec => []TypeOK
  <1>1. JInv => TypeOK
    BY DEF JInv, TypeOK
  <1> QED
    BY Resumable, <1>1, PTL

\* `_process` and MayStart: no episode of a season is touched before the season's own
\* preflight and tombstone.
THEOREM SeasonIsWhole == Spec => []SeasonAllOrNothing
  <1>1. JInv => SeasonAllOrNothing
    BY DEF JInv
  <1> QED
    BY <1>1, Resumable, PTL

\* `set_stage("complete")`: the media's torrent, library file and Jellyfin item are gone.
THEOREM CompletionIsTrue == Spec => []CompleteIsGone
  <1>1. JInv => CompleteIsGone
    <2> SUFFICES ASSUME JInv PROVE CompleteIsGone
      OBVIOUS
    <2> USE DEF Begun, Past, Unrecorded, Unrequested, Forgotten
    <2>1. ASSUME NEW i \in Items, stage[i] = "complete"
          PROVE  /\ i \in tombstone /\ file[i] = "absent"
                 /\ i \notin monitored \cup catalogue
                 /\ Managed(i) => \/ source[SourceOf[i]] = "gone"
                                  \/ \E k \in Sharing(i) : stage[k] # "complete"
      <3>1. i \in tombstone
        BY <2>1 DEF JInv, TombstoneOK, Jobs
      <3>2. file[i] = "absent" /\ i \notin monitored \cup catalogue
        BY <2>1 DEF JInv, TraceOK
      <3>3. Managed(i) /\ source[SourceOf[i]] # "gone" =>
                \E k \in Sharing(i) : stage[k] # "complete"
        BY <2>1 DEF JInv, SourceOK
      <3> QED
        BY <3>1, <3>2, <3>3
    <2>2. ASSUME NEW s \in Seasons, stage[s] = "complete"
          PROVE  /\ \A e \in children[s] : stage[e] = "complete"
                 /\ \A e \in EpisodesOf(s) : e \in tombstone /\ e \notin monitored \cup catalogue
      <3>1. /\ ChildrenDone(s) /\ EpisodesOf(s) \subseteq tombstone
            /\ monitored \cap EpisodesOf(s) = {}
        BY <2>2 DEF JInv, SeasonTraceOK
      <3>2. \A e \in children[s] : e \notin catalogue
        BY <3>1 DEF JInv, TraceOK, ChildrenDone, JobsOK, EpisodesOf, Items
      <3>3. catalogue \cap EpisodesOf(s) \subseteq children[s]
        BY <2>2 DEF JInv, JobsOK
      <3> QED
        BY <3>1, <3>2, <3>3 DEF ChildrenDone
    <2> QED
      BY <2>1, <2>2 DEF CompleteIsGone
  <1> QED
    BY <1>1, Resumable, PTL

\* `_delete_arr` runs after `_delete_source` and the tombstone, whatever is retried, and
\* the delete it asks for finds the torrent gone however late it is carried out.
THEOREM SourceGoesFirst == Spec => SourceBeforeFile
  <1> DEFINE Before == \A i \in Items :
         /\ i \in deleting' \ deleting => file[i] = "captured"
         /\ file[i] # "absent" /\ file'[i] = "absent" =>
                /\ i \in deleting \cap tombstone
                /\ Managed(i) => \/ source[SourceOf[i]] = "gone"
                                 \/ \E k \in Sharing(i) \ {i} :
                                        file[k] # "absent" \/ k \notin tombstone
  <1>1. JInv /\ [Next]_vars => Before
    <2>1. ASSUME JInv, [Next]_vars, NEW i \in Items, i \in deleting' \ deleting
          PROVE  file[i] = "captured"
      <3>1. AskFile(i)
        BY <2>1, OnlyGoes DEF JInv
      <3> QED
        BY <3>1 DEF AskFile, HasFile
    <2>2. ASSUME JInv, [Next]_vars, NEW i \in Items, file[i] # "absent", file'[i] = "absent"
          PROVE  /\ i \in deleting \cap tombstone
                 /\ Managed(i) => \/ source[SourceOf[i]] = "gone"
                                  \/ \E k \in Sharing(i) \ {i} :
                                         file[k] # "absent" \/ k \notin tombstone
      <3>1. i \in deleting
        BY <2>2, OnlyGoes DEF JInv, RemoveFile
      <3>2. i \in tombstone
        BY <2>2, <3>1 DEF JInv, DeletingOK
      <3>3. Managed(i) /\ source[SourceOf[i]] # "gone" => \E k \in Sharing(i) \ {i} : Keeps(k)
        BY <2>2, <3>1 DEF JInv, SourceOK
      <3> QED
        BY <3>1, <3>2, <3>3 DEF Keeps
    <2> QED
      BY <2>1, <2>2
  <1>2. JInv /\ [Next]_vars => [Before]_vars
    BY <1>1
  <1> QED
    BY <1>2, Resumable, PTL DEF Spec, SourceBeforeFile

-----------------------------------------------------------------------------
(* The job table and the services implement the abstract deletion *)

Wanted == WithEpisodes(tombstone)
Finished == WithEpisodes({j \in Jobs : stage[j] = "complete"})

\* A file, item, record, request ... serves its own media, a torrent what came from it.
LEMMA ServingIs ==
  /\ \A a \in {"file", "catalogue", "monitored", "record", "request", "cache"}, j \in Jobs :
         <<a, j>> \in Things /\ Serving[<<a, j>>] = {j}
  /\ \A k \in Sources : /\ <<"torrent", k>> \in Things
                        /\ Serving[<<"torrent", k>>] = {i \in Items : SourceOf[i] = k}
  BY DEF Things, Serving

\* A thing that is kept is of one of seven kinds.
LEMMA KeptIs ==
  ASSUME WorldOK, NEW t, t \in Kept
  PROVE  \/ \E i \in Items : t = <<"file", i>> /\ file[i] # "absent"
         \/ \E j \in catalogue : t = <<"catalogue", j>>
         \/ \E e \in monitored : t = <<"monitored", e>>
         \/ \E j \in requests : t = <<"request", j>>
         \/ \E m \in Movies : t = <<"record", m>> /\ record[m] # "gone"
         \/ \E m \in caches : t = <<"cache", m>> /\ Managed(m)
         \/ \E k \in Sources : t = <<"torrent", k>> /\ source[k] = "present"
  BY DEF Kept

\* And all of them are things of the abstract deletion.
LEMMA KeptIsThings == WorldOK => Kept \subseteq Things
  BY MediaAssumption DEF WorldOK, Kept, Things, Jobs, Items

\* Nothing is left that serves media whose deletion is complete, and only that.
LEMMA FinishedIsGone ==
  ASSUME JInv, NEW t \in Kept
  PROVE  ~ Serving[t] \subseteq Finished
  <1> USE DEF Begun, Past, Unrecorded, Unrequested, Forgotten
  <1> DEFINE Done(j) == stage[j] = "complete"
  <1>1. \A j : j \in Finished <=> \/ j \in Jobs /\ Done(j)
                                  \/ j \in Episodes /\ SeasonOf[j] \in Jobs /\ Done(SeasonOf[j])
    BY DEF Finished, WithEpisodes
  <1>2. Movies \subseteq Items /\ Episodes \subseteq Items /\ Items \subseteq Jobs
        /\ Seasons \subseteq Jobs /\ Movies \cap Episodes = {} /\ Seasons \cap Items = {}
        /\ (\A e \in Episodes : SeasonOf[e] \in Seasons /\ e \in EpisodesOf(SeasonOf[e]))
    BY MediaAssumption DEF Jobs, Items, EpisodesOf
  <1>3. ASSUME NEW i \in Items, Done(i)
        PROVE  /\ file[i] = "absent" /\ i \notin monitored \cup catalogue \cup requests
               /\ (i \in Movies => record[i] = "gone") /\ (Managed(i) => i \notin caches)
    BY <1>3 DEF JInv, TraceOK
  <1>4. ASSUME NEW s \in Seasons, Done(s)
        PROVE  /\ s \notin requests \cup catalogue
               /\ \A e \in EpisodesOf(s) :
                      /\ file[e] = "absent" /\ e \notin monitored \cup catalogue
                      /\ Managed(e) => source[SourceOf[e]] # "present"
    <2>1. /\ ChildrenDone(s) /\ Absent(s) /\ monitored \cap EpisodesOf(s) = {}
          /\ \A e \in EpisodesOf(s) : Managed(e) => source[SourceOf[e]] # "present"
          /\ s \notin requests \cup catalogue
      BY <1>4 DEF JInv, SeasonTraceOK
    <2>2. children[s] \subseteq EpisodesOf(s) /\ catalogue \cap EpisodesOf(s) \subseteq children[s]
      BY <1>4 DEF JInv, JobsOK
    <2>3. \A e \in children[s] : e \notin catalogue
      BY <1>3, <2>1, <2>2, <1>2 DEF ChildrenDone, EpisodesOf
    <2> QED
      BY <2>1, <2>2, <2>3 DEF Absent
  <1>5. WorldOK
    BY DEF JInv
  <1>6. ASSUME NEW i \in Items, t = <<"file", i>>, file[i] # "absent"
        PROVE ~ Serving[t] \subseteq Finished
    <2>1. i \notin Finished
      BY <1>1, <1>2, <1>3, <1>4, <1>6
    <2> QED
      BY <1>2, <1>6, <2>1, ServingIs
  <1>7. ASSUME NEW j \in catalogue, t = <<"catalogue", j>> PROVE ~ Serving[t] \subseteq Finished
    <2>1. j \in Jobs /\ (j \in Items \/ j \in Seasons)
      BY <1>5 DEF WorldOK, Jobs
    <2>2. j \notin Finished
      BY <1>1, <1>2, <1>3, <1>4, <2>1
    <2> QED
      BY <1>7, <2>1, <2>2, ServingIs
  <1>8. ASSUME NEW e \in monitored, t = <<"monitored", e>> PROVE ~ Serving[t] \subseteq Finished
    <2>1. e \in Episodes
      BY <1>5 DEF WorldOK
    <2>2. e \notin Finished
      BY <1>1, <1>2, <1>3, <1>4, <2>1
    <2> QED
      BY <1>2, <1>8, <2>1, <2>2, ServingIs
  <1>9. ASSUME NEW j \in requests, t = <<"request", j>> PROVE ~ Serving[t] \subseteq Finished
    <2>1. j \in Jobs /\ j \notin Episodes /\ (j \in Items \/ j \in Seasons)
      BY <1>2, <1>5 DEF WorldOK
    <2>2. j \notin Finished
      BY <1>1, <1>2, <1>3, <1>4, <2>1
    <2> QED
      BY <1>9, <2>1, <2>2, ServingIs
  <1>10. ASSUME NEW m \in Movies, t = <<"record", m>>, record[m] # "gone"
         PROVE ~ Serving[t] \subseteq Finished
    <2>1. m \notin Finished
      BY <1>1, <1>2, <1>3, <1>10
    <2> QED
      BY <1>2, <1>10, <2>1, ServingIs
  <1>11. ASSUME NEW m \in caches, t = <<"cache", m>>, Managed(m)
         PROVE ~ Serving[t] \subseteq Finished
    <2>1. m \in Movies
      BY <1>5 DEF WorldOK
    <2>2. m \notin Finished
      BY <1>1, <1>2, <1>3, <1>11, <2>1
    <2> QED
      BY <1>2, <1>11, <2>1, <2>2, ServingIs
  \* A torrent on disk serves media of an unfinished deletion, and so does its season.
  <1>12. ASSUME NEW k \in Sources, t = <<"torrent", k>>, source[k] = "present",
                Serving[t] \subseteq Finished
         PROVE FALSE
    <2>1. PICK i \in Items : SourceOf[i] = k
      BY SourceAssumption
    <2>2. /\ Managed(i) /\ Sharing(i) = {l \in Items : SourceOf[l] = k}
          /\ \A l \in Sharing(i) : l \in Items /\ Managed(l) /\ SourceOf[l] = k
      BY <2>1, MediaAssumption DEF Managed, Sharing
    <2>3. Sharing(i) \subseteq Finished /\ i \in Finished
      BY <1>12, <2>1, <2>2, ServingIs
    <2>4. \A l \in Sharing(i) : Done(l)
      <3> SUFFICES ASSUME NEW l \in Sharing(i), ~ Done(l) PROVE FALSE
        OBVIOUS
      <3>1. l \in Episodes /\ Done(SeasonOf[l])
        BY <1>1, <2>3
      <3>2. source[SourceOf[l]] # "present"
        BY <1>2, <1>4, <2>2, <3>1
      <3> QED
        BY <1>12, <2>2, <3>2
    <2>5. Done(i)
      BY <2>1, <2>2, <2>4
    <2>6. \E l \in Sharing(i) : stage[l] \notin Past
      BY <1>12, <2>1, <2>2, <2>5 DEF JInv, SourceOK
    <2> QED
      BY <2>4, <2>6
  <1> QED
    BY <1>5, <1>6, <1>7, <1>8, <1>9, <1>10, <1>11, <1>12, KeptIs

\* What goes, goes for media that is tombstoned by then, itself or with its season; and a
\* step that writes a tombstone removes nothing else, but for a season's purge.
LEMMA OnlyTombstonedGoes ==
  ASSUME JInv, [Next]_vars
  PROVE  \/ UNCHANGED world
         \/ UNCHANGED <<stage, Kept>>
         \/ /\ UNCHANGED <<stage, Wanted>> /\ Kept' \subseteq Kept
            /\ \A t \in Kept \ Kept' : Serving[t] \subseteq Wanted
  <1> DEFINE Quiet == UNCHANGED <<stage, Kept>>
             Gone == /\ UNCHANGED <<stage, Wanted>> /\ Kept' \subseteq Kept
                     /\ \A t \in Kept \ Kept' : Serving[t] \subseteq Wanted
  <1>1. WorldOK /\ TombstoneOK
    BY DEF JInv
  <1>2. Movies \subseteq Items /\ Episodes \subseteq Items /\ Items \subseteq Jobs
        /\ Seasons \subseteq Jobs /\ Seasons \cap Items = {}
    BY MediaAssumption DEF Jobs, Items
  <1>3. tombstone \subseteq Wanted
    BY <1>1 DEF Wanted, WithEpisodes
  <1>4. ASSUME NEW j \in Jobs, Act(j), ~ Advance(j) PROVE Quiet \/ Gone
    <2>1. stage' = stage
      BY <1>4, EffectKeepsJobs
    <2>2. CASE Tombstone(j) \/ TombstoneSeason(j) \/ AskJellyfin(j)
      BY <2>1, <2>2 DEF Tombstone, TombstoneSeason, AskJellyfin, Kept
    <2>3. CASE RemoveSource(j)
      <3>1. /\ SourceOf[j] \in Sources /\ Sharing(j) \subseteq tombstone
            /\ source' = [source EXCEPT ![SourceOf[j]] = "unlinking"]
            /\ UNCHANGED <<tombstone, monitored, file, record, requests, caches, catalogue>>
        BY <2>3, MediaAssumption DEF RemoveSource, Managed, SourceFree
      <3>2. Kept' \subseteq Kept /\ Kept \ Kept' \subseteq {<<"torrent", SourceOf[j]>>}
        BY <1>1, <3>1 DEF Kept, WorldOK
      <3>3. Serving[<<"torrent", SourceOf[j]>>] \subseteq Wanted
        BY <1>3, <3>1, ServingIs DEF Sharing
      <3> QED
        BY <2>1, <3>1, <3>2, <3>3 DEF Wanted
    <2>4. CASE PurgeSeason(j)
      <3>1. /\ j \in Seasons /\ j \in tombstone /\ tombstone' = tombstone \cup EpisodesOf(j)
            /\ UNCHANGED <<monitored, file, record, requests, caches, catalogue>>
        BY <1>1, <2>4 DEF PurgeSeason, TombstoneOK, Begun
      <3>2. Wanted' = Wanted
        BY <1>2, <3>1, MediaAssumption DEF Wanted, WithEpisodes, EpisodesOf
      <3>3. CASE source' = source
        BY <2>1, <3>1, <3>3 DEF Kept
      <3>4. CASE source' # source
        <4>1. PICK e \in EpisodesOf(j) :
                 /\ SourceOf[e] \in Sources /\ Managed(e) /\ EpisodesOf(j) \subseteq tombstone
                 /\ source' = [source EXCEPT ![SourceOf[e]] = "unlinking"]
          BY <1>2, <2>4, <3>4, MediaAssumption DEF PurgeSeason, Managed, EpisodesOf
        <4>2. Kept' \subseteq Kept /\ Kept \ Kept' \subseteq {<<"torrent", SourceOf[e]>>}
          BY <1>1, <3>1, <4>1 DEF Kept, WorldOK
        <4>3. Sharing(e) \subseteq EpisodesOf(j)
          BY <1>2, <4>1, SharingAssumption DEF Sharing, EpisodesOf
        <4>4. Serving[<<"torrent", SourceOf[e]>>] \subseteq Wanted
          BY <1>3, <4>1, <4>3, ServingIs DEF Sharing
        <4> QED
          BY <2>1, <3>2, <4>2, <4>4
      <3> QED
        BY <3>3, <3>4
    <2>5. CASE AskFile(j)
      BY <2>1, <2>5 DEF AskFile, Kept
    <2>6. CASE RemoveRecord(j)
      <3>1. j \in Movies /\ stage[j] = "torrents_removed"
            /\ record' = [record EXCEPT ![j] = "gone"]
            /\ UNCHANGED <<tombstone, monitored, source, file, requests, caches, catalogue>>
        BY <2>6 DEF RemoveRecord
      <3>2. j \in Wanted
        BY <1>1, <1>2, <1>3, <3>1 DEF TombstoneOK, Begun, Past
      <3>3. Kept' \subseteq Kept /\ Kept \ Kept' \subseteq {<<"record", j>>}
        BY <1>1, <1>2, <3>1 DEF Kept, WorldOK
      <3>4. Serving[<<"record", j>>] \subseteq Wanted
        BY <1>2, <3>1, <3>2, ServingIs
      <3> QED
        BY <2>1, <3>1, <3>3, <3>4 DEF Wanted
    <2>7. CASE RemoveRequest(j)
      <3>1. stage[j] \in Begun
            /\ requests' = requests \ {j}
            /\ UNCHANGED <<tombstone, monitored, source, file, record, caches, catalogue>>
        BY <2>7 DEF RemoveRequest, Begun, Past, Unrecorded
      <3>2. j \in Wanted
        BY <1>1, <1>3, <3>1 DEF TombstoneOK
      <3>3. Kept' \subseteq Kept /\ Kept \ Kept' \subseteq {<<"request", j>>}
        BY <3>1 DEF Kept
      <3>4. Serving[<<"request", j>>] \subseteq Wanted
        BY <3>2, ServingIs
      <3> QED
        BY <2>1, <3>1, <3>3, <3>4 DEF Wanted
    <2>8. CASE RemoveCache(j)
      <3>1. stage[j] \in Begun /\ caches' = caches \ {j}
            /\ UNCHANGED <<tombstone, monitored, source, file, record, requests, catalogue>>
        BY <2>8 DEF RemoveCache, Begun, Past, Unrecorded, Unrequested, Forgotten
      <3>2. j \in Wanted
        BY <1>1, <1>3, <3>1 DEF TombstoneOK
      <3>3. Kept' \subseteq Kept /\ Kept \ Kept' \subseteq {<<"cache", j>>}
        BY <3>1 DEF Kept
      <3>4. Serving[<<"cache", j>>] \subseteq Wanted
        BY <3>2, ServingIs
      <3> QED
        BY <2>1, <3>1, <3>3, <3>4 DEF Wanted
    <2>9. CASE Unmonitor(j)
      <3>1. stage[j] = "torrents_removed" /\ monitored' = monitored \ {j}
            /\ UNCHANGED <<tombstone, source, file, record, requests, caches, catalogue>>
        BY <2>9 DEF Unmonitor
      <3>2. j \in Wanted
        BY <1>1, <1>3, <3>1 DEF TombstoneOK, Begun, Past
      <3>3. Kept' \subseteq Kept /\ Kept \ Kept' \subseteq {<<"monitored", j>>}
        BY <3>1 DEF Kept
      <3>4. Serving[<<"monitored", j>>] \subseteq Wanted
        BY <3>2, ServingIs
      <3> QED
        BY <2>1, <3>1, <3>3, <3>4 DEF Wanted
    <2>10. CASE UnmonitorSeason(j)
      <3>1. j \in tombstone /\ monitored' = monitored \ EpisodesOf(j)
            /\ UNCHANGED <<tombstone, source, file, record, requests, caches, catalogue>>
        BY <2>10 DEF UnmonitorSeason
      <3>2. EpisodesOf(j) \subseteq Wanted
        BY <3>1 DEF Wanted, WithEpisodes, EpisodesOf
      <3>3. Kept' \subseteq Kept /\ Kept \ Kept' \subseteq {"monitored"} \X EpisodesOf(j)
        BY <3>1 DEF Kept
      <3>4. ASSUME NEW e \in EpisodesOf(j) PROVE Serving[<<"monitored", e>>] \subseteq Wanted
        <4>1. e \in Jobs
          BY <1>2 DEF EpisodesOf
        <4>2. Serving[<<"monitored", e>>] = {e}
          BY <4>1, ServingIs
        <4> QED
          BY <3>2, <4>2
      <3> QED
        BY <2>1, <3>1, <3>3, <3>4 DEF Wanted
    <2> QED
      BY <1>4, <2>2, <2>3, <2>4, <2>5, <2>6, <2>7, <2>8, <2>9, <2>10 DEF Act
  <1>5. ASSUME NEW j \in Jobs, Forget(j) PROVE Gone
    <2>1. j \in tombstone /\ catalogue' = catalogue \ {j}
          /\ UNCHANGED <<stage, tombstone, monitored, source, file, record, requests, caches>>
      BY <1>1, <1>5 DEF Forget, TombstoneOK, jobVars
    <2>2. Kept' \subseteq Kept /\ Kept \ Kept' \subseteq {<<"catalogue", j>>}
      BY <2>1 DEF Kept
    <2>3. Serving[<<"catalogue", j>>] \subseteq Wanted
      BY <1>3, <2>1, ServingIs
    <2> QED
      BY <2>1, <2>2, <2>3 DEF Wanted
  <1>9. ASSUME NEW j \in Items, RemoveFile(j) PROVE Gone
    <2>1. /\ file'[j] \in {"absent", file[j]} /\ record[j] # "gone"
          /\ \A i \in Items : i # j => file'[i] = file[i] /\ record'[i] = record[i]
          /\ (record'[j] \in {"nofile", record[j]})
          /\ UNCHANGED <<stage, tombstone, monitored, source, requests, caches, catalogue>>
      <3>1. record[j] # "gone"
        BY <1>9 DEF JInv, DeletingOK, RemoveFile
      <3> QED
        BY <1>1, <1>9, <3>1 DEF RemoveFile, WorldOK, jobVars
    <2>2. j \in Wanted
      BY <1>3, <1>9 DEF JInv, DeletingOK, RemoveFile
    <2>3. {m \in Movies : record'[m] # "gone"} = {m \in Movies : record[m] # "gone"}
      BY <1>2, <2>1
    <2>4. /\ {i \in Items : file[i] # "absent"} \ {j}
                 \subseteq {i \in Items : file'[i] # "absent"}
          /\ {i \in Items : file'[i] # "absent"} \subseteq {i \in Items : file[i] # "absent"}
      BY <2>1
    <2>5. Kept' \subseteq Kept /\ Kept \ Kept' \subseteq {<<"file", j>>}
      BY <2>1, <2>3, <2>4 DEF Kept
    <2>6. Serving[<<"file", j>>] \subseteq Wanted
      BY <1>2, <1>9, <2>2, ServingIs
    <2> QED
      BY <2>1, <2>5, <2>6 DEF Wanted
  <1>6. ASSUME NEW i \in Items, ReplaceFile(i) PROVE Quiet
    <2>1. file[i] = "captured" /\ file' = [file EXCEPT ![i] = "replaced"]
          /\ UNCHANGED <<stage, monitored, source, record, requests, caches, catalogue>>
      BY <1>6 DEF ReplaceFile, jobVars
    <2>2. {k \in Items : file'[k] # "absent"} = {k \in Items : file[k] # "absent"}
      BY <1>1, <2>1 DEF WorldOK
    <2> QED
      BY <2>1, <2>2 DEF Kept
  <1>7. ASSUME NEW k \in Sources, Unlink(k) PROVE Quiet
    <2>1. source[k] = "unlinking" /\ source' = [source EXCEPT ![k] = "gone"]
          /\ UNCHANGED <<stage, monitored, file, record, requests, caches, catalogue>>
      BY <1>7 DEF Unlink, jobVars
    <2>2. {l \in Sources : source'[l] = "present"} = {l \in Sources : source[l] = "present"}
      BY <1>1, <2>1 DEF WorldOK
    <2> QED
      BY <2>1, <2>2 DEF Kept
  <1>8. ASSUME \/ Pick \/ Retry \/ Crash \/ UNCHANGED vars
               \/ \E j \in Jobs : Block(j) \/ Advance(j)
               \/ \E i \in Items : Enqueue(i)
               \/ \E s \in Seasons : EnqueueSeason(s)
        PROVE UNCHANGED world
    BY <1>8 DEF Pick, Retry, Crash, vars, Block, Advance, Enqueue, EnqueueSeason, world
  <1> QED
    BY <1>4, <1>5, <1>6, <1>7, <1>8, <1>9 DEF Next

\* The controller's deletion is the abstract one: it removes only what serves media that
\* is wanted gone, brings nothing back, and reports as complete only what is gone.
THEOREM JobsErase == Spec => Erases
  <1>1. Init => Abstract!Init
    <2> SUFFICES ASSUME Init PROVE Abstract!Init
      OBVIOUS
    <2>1. Kept \subseteq Things
      BY WorldInit, KeptIsThings
    <2>2. WithEpisodes(tombstone) = {} /\ WithEpisodes({j \in Jobs : stage[j] = "complete"}) = {}
      BY DEF Init, WithEpisodes
    <2> QED
      BY <2>1, <2>2 DEF Abstract!Init
  <1>2. JInv => \A t \in Kept : ~ Serving[t] \subseteq Finished
    BY FinishedIsGone
  <1>3. (JInv => \A t \in Kept : ~ Serving[t] \subseteq Finished)'
    BY <1>2, PTL
  <1>4. JInv /\ JInv' /\ [Next]_vars => [Abstract!Next]_(Abstract!vars)
    <2> SUFFICES ASSUME JInv, JInv', [Next]_vars PROVE Abstract!Next
      OBVIOUS
    <2>1. CASE UNCHANGED world
      <3>1. Kept' = Kept /\ Wanted' = Wanted
        BY <2>1 DEF world, Kept, Wanted
      <3>2. Finished' \subseteq Wanted
        <4>1. {j \in Jobs : stage'[j] = "complete"} \subseteq tombstone
          BY <2>1 DEF JInv, TombstoneOK, world, Begun, Past, Unrecorded, Unrequested, Forgotten
        <4> QED
          BY <4>1 DEF Finished, Wanted, WithEpisodes
      <3>3. Finished' = Finished \cup Finished'
        <4>1. \A j \in Jobs : stage[j] = "complete" => stage'[j] = "complete"
          <5> SUFFICES ASSUME NEW j \in Jobs, stage[j] = "complete" PROVE stage'[j] = "complete"
            OBVIOUS
          <5>1. ~ Advance(j)
            BY AdvanceItem, AdvanceSeason DEF JInv, Jobs
          <5> QED
            BY <5>1, StageStep DEF JInv, Terminal
        <4> QED
          BY <4>1 DEF Finished, WithEpisodes
      <3>4. \A t \in Kept : ~ Serving[t] \subseteq Finished \cup Finished'
        <4>1. \A t \in Kept' : ~ Serving[t] \subseteq Finished'
          BY <1>3
        <4> QED
          BY <3>1, <3>3, <4>1
      <3>5. Abstract!Finish
        BY <3>1, <3>2, <3>3, <3>4 DEF Abstract!Finish, Finished, Wanted
      <3> QED
        BY <3>5 DEF Abstract!Next
    <2>2. CASE UNCHANGED <<stage, Kept>>
      <3>1. Finished' = Finished /\ Wanted \subseteq Wanted' /\ Wanted' \subseteq Jobs
        BY <2>2, OnlyGoes, MediaAssumption
           DEF Finished, Wanted, WithEpisodes, JInv, WorldOK, Jobs, Items
      <3>2. Wanted' = Wanted \cup Wanted' /\ Wanted' \in SUBSET Jobs
        BY <3>1
      <3>3. Abstract!Want
        BY <2>2, <3>1, <3>2 DEF Abstract!Want, Finished, Wanted
      <3> QED
        BY <3>3 DEF Abstract!Next
    <2>3. CASE /\ UNCHANGED <<stage, Wanted>> /\ Kept' \subseteq Kept
               /\ \A t \in Kept \ Kept' : Serving[t] \subseteq Wanted
      <3>1. Finished' = Finished
        BY <2>3 DEF Finished
      <3>2. Kept' = Kept \ (Kept \ Kept') /\ Kept \ Kept' \in SUBSET Kept
        BY <2>3
      <3>3. Abstract!Remove
        BY <2>3, <3>1, <3>2 DEF Abstract!Remove, Finished, Wanted
      <3> QED
        BY <3>3 DEF Abstract!Next
    <2> QED
      BY <2>1, <2>2, <2>3, OnlyTombstonedGoes
  <1> QED
    BY <1>1, <1>4, Resumable, PTL DEF Spec, Erases, Abstract!Spec

=============================================================================
