----------------------------- MODULE MediaImports -----------------------------
(***************************************************************************)
(* The finalizers: a downloaded file is validated, its import is claimed,   *)
(* Radarr or Sonarr is told to scan it, and the import is complete once the *)
(* library shows the same physical file. Episodes enter the library in      *)
(* order over all the requested seasons of their series. The worker awaits  *)
(* between its reads, Sonarr works in its own time, the gateway may promote *)
(* another source, the API may delete the medium and an earlier season may  *)
(* be admitted meanwhile.                                                   *)
(***************************************************************************)
EXTENDS Integers, FiniteSets

CONSTANTS
    Movies,     \* movies, each with a request of its own
    Episodes,   \* episodes of a series, numbered in order over its seasons
    Season,     \* the season of each episode
    Sources,    \* torrents
    Packs,      \* those that hold a season
    Holds,      \* what each torrent holds: one medium, unless it is a pack
    First,      \* the source each medium is acquired with
    Late,       \* requests that are admitted while the others are under way
    Registry,   \* a storage registry is configured
    CopyAnyway, \* the Arr may fail to link what the worker could, and copies it
    MaxFaults,  \* failures of the worker and its calls, deletions of a medium or a season
    MaxSwaps    \* promotions

Items == Movies \cup Episodes
Requests == Movies \cup {Season[e] : e \in Episodes}
RequestOf(i) == IF i \in Movies THEN i ELSE Season[i]

ASSUME ImportsAssumption ==
    /\ Episodes \subseteq Nat /\ Movies \cap Episodes = {} /\ Packs \subseteq Sources
    /\ 0 \notin Sources /\ Movies \cap {Season[e] : e \in Episodes} = {}
    /\ \A e \in Episodes : Season[e] \in Nat
    /\ \A d, e \in Episodes : d < e => Season[d] <= Season[e]
    /\ Holds \in [Sources -> SUBSET Items]
    /\ \A p \in Sources \ Packs : \A i, j \in Holds[p] : i = j
    /\ Late \subseteq Requests /\ First \in [Items -> Sources \cup {0}]
    /\ \A i \in Items : First[i] # 0 => i \in Holds[First[i]]
    /\ {Registry, CopyAnyway} \subseteq BOOLEAN /\ {MaxFaults, MaxSwaps} \subseteq Nat

VARIABLES
    waiting,   \* requests not yet admitted
    active,    \* requests with an active reservation
    before,    \* those of earlier episodes that were active when an episode's turn was read
    deleted,   \* tombstones of media
    source,    \* the confirmed permit of each medium
    done,      \* files that are downloaded
    claim,     \* import rows: of a movie, or of an episode's permit
    command,   \* what the Arrs were told to scan
    library,   \* the file of each medium in the library
    stored,    \* subtitles in the artifact store, of a medium and its source
    installed, \* media whose subtitle is in the library
    promotion, \* a promotion that the gateway has begun
    w,         \* the worker
    faults, swaps

env == <<waiting, active, before, deleted>>
subs == <<stored, installed>>
counts == <<faults, swaps>>
vars == <<env, source, done, claim, command, library, subs, promotion, w, counts>>

NoFile == [of |-> 0, linked |-> FALSE]
Idle == [step |-> "idle", request |-> 0, item |-> 0, source |-> 0, seen |-> {}, copy |-> FALSE]
Claimed == {"dispatching", "dispatching_copy", "accepted", "accepted_copy"}

\* The import row of medium i from source p: a movie's is that of its reservation.
Key(i, p) == <<IF i \in Movies THEN 0 ELSE p, i>>
Keys == ({0} \X Movies) \cup (Sources \X Episodes)

TypeOK ==
    /\ waiting \subseteq Requests /\ active \subseteq Requests /\ deleted \subseteq Items
    /\ before \in [Episodes -> SUBSET Requests]
    /\ source \in [Items -> Sources \cup {0}]
    /\ done \subseteq Sources \X Items
    /\ claim \in [Keys -> {"none", "complete"} \cup Claimed]
    /\ command \subseteq Sources \X Items
    /\ library \in [Items -> [of : Sources \cup {0}, linked : BOOLEAN]]
    /\ stored \subseteq Items \X Sources /\ installed \subseteq Items
    /\ promotion \subseteq Items \X Sources
    /\ w \in [step : {"idle", "look", "confirm", "complete", "validate", "subtitle", "link", "claim",
                      "post"},
              request : Requests \cup {0}, item : Items \cup {0}, source : Sources \cup {0},
              seen : SUBSET Episodes, copy : BOOLEAN]
    /\ w.step \notin {"idle", "look"} => w.source # 0 /\ w.item \in Holds[w.source]
    /\ faults \in 0 .. MaxFaults /\ swaps \in 0 .. MaxSwaps

Init ==
    /\ waiting = Late /\ active = Requests \ Late /\ before = [e \in Episodes |-> {}]
    /\ source = [i \in Items |-> IF RequestOf(i) \in Late THEN 0 ELSE First[i]]
    /\ deleted = {} /\ done = {}
    /\ claim = [k \in Keys |-> "none"]
    /\ command = {} /\ library = [i \in Items |-> NoFile] /\ stored = {} /\ installed = {}
    /\ promotion = {}
    /\ w = Idle /\ faults = 0 /\ swaps = 0

-----------------------------------------------------------------------------
(* Reading *)

Row(i) == IF source[i] = 0 THEN "none" ELSE claim[Key(i, source[i])]

\* `_season_active`, `active_reservation`.
Wanted == w.request \in active

\* `finalize` asks the Arr for the movie, or the series and its episodes.
Visit(r) ==
    /\ w.step = "idle" /\ r \in active
    /\ w' = [Idle EXCEPT !.step = "look", !.request = r,
                         !.seen = {e \in Episodes : library[e] # NoFile}]
    /\ UNCHANGED <<env, source, done, claim, command, library, subs, promotion, counts>>

\* `_episode_imported`.
Imported(e) ==
    \/ e \in deleted
    \/ e \in w.seen /\ (source[e] = 0 \/ Row(e) = "complete")

MissingHere == {e \in Episodes : Season[e] = w.request /\ ~ Imported(e)}   \* mutant
Missing == {e \in Episodes : Season[e] \in active /\ ~ Imported(e)}

\* The episode of the season whose turn it is; a movie is always.
Pending ==
    IF w.request \in Movies THEN {w.request}
    ELSE {e \in Episodes : /\ Season[e] = w.request /\ e \notin deleted
                           /\ source[e] # 0 /\ Row(e) # "complete"}
Turn(i) ==
    /\ i \in Pending /\ source[i] # 0
    /\ i \in Episodes => \A d \in Missing \cup Pending : i <= d

StepLinked(i) ==   \* mutant
    IF Row(i) = "accepted" /\ i \in Movies \cup w.seen THEN "confirm"
    ELSE IF Row(i) = "none" /\ i \notin w.seen THEN "validate" ELSE "idle"
StepOf(i) ==
    IF Row(i) \in {"accepted", "accepted_copy"} /\ i \in Movies \cup w.seen THEN "confirm"
    ELSE IF Row(i) = "none" /\ i \notin w.seen THEN "validate" ELSE "idle"

\* The requests whose episodes come before e, as they are when its turn is read.
Before(e) == {Season[d] : d \in {c \in Episodes : c < e}} \cap active

\* What to do for the request, from the catalogue, the reservations and the permits as
\* they are now.
ToDo == {i \in Items : Wanted /\ Turn(i) /\ StepOf(i) # "idle"}
Choose ==
    /\ w.step = "look"
    /\ \/ \E i \in ToDo :
              /\ w' = [w EXCEPT !.step = StepOf(i), !.item = i, !.source = source[i]]
              /\ before' = [e \in Episodes |-> IF e = i /\ StepOf(i) = "validate"
                                              THEN Before(e) ELSE before[e]]
       \/ ToDo = {} /\ w' = Idle /\ UNCHANGED before
    /\ UNCHANGED <<waiting, active, deleted, source, done, claim, command, library, subs, promotion,
                   counts>>

-----------------------------------------------------------------------------
(* Importing *)

\* `_validate_download`; a pack's files are looked at one by one.
Downloaded(i, p) == IF p \in Packs THEN <<p, i>> \in done
                    ELSE \A j \in Holds[p] : <<p, j>> \in done
Validate ==
    /\ w.step = "validate"
    /\ w' = IF Downloaded(w.item, w.source) /\ Wanted THEN [w EXCEPT !.step = "subtitle"] ELSE Idle
    /\ UNCHANGED <<env, source, done, claim, command, library, subs, promotion, counts>>

\* `recover_subtitle`: what it finds is kept for this source of the medium.
FindSubtitle ==
    /\ w.step = "subtitle"
    /\ IF Wanted THEN /\ stored' = stored \cup {<<w.item, w.source>>}
                     /\ w' = [w EXCEPT !.step = "link"]
                ELSE w' = Idle /\ UNCHANGED stored
    /\ UNCHANGED <<env, source, done, claim, command, library, installed, promotion, counts>>

\* `_can_hardlink_video`; without a link the file is copied, over one disk only.
Link ==
    /\ w.step = "link"
    /\ \E ready \in BOOLEAN :
           w' = IF (ready \/ ~ Registry) /\ Wanted
                THEN [w EXCEPT !.step = "claim", !.copy = ~ ready] ELSE Idle
    /\ UNCHANGED <<env, source, done, claim, command, library, subs, promotion, counts>>

\* `_import_pending`.
ImportPending(copy) ==
    \E k \in Keys : claim[k] \in Claimed /\ (copy \/ claim[k] # "accepted")

\* `claim_movie_import`, `claim_episode_import`.
Claim ==
    LET k == Key(w.item, w.source) IN
    /\ w.step = "claim"
    /\ IF Wanted /\ ~ ImportPending(w.copy) /\ claim[k] = "none"
       THEN /\ claim' = [claim EXCEPT ![k] = IF w.copy THEN "dispatching_copy" ELSE "dispatching"]
            /\ w' = [w EXCEPT !.step = "post"]
       ELSE w' = Idle /\ UNCHANGED claim
    /\ UNCHANGED <<env, source, done, command, library, subs, promotion, counts>>

\* The Arr takes the command and the row says so.
Post ==
    LET k == Key(w.item, w.source) IN
    /\ w.step = "post"
    /\ command' = command \cup {<<w.source, w.item>>}
    /\ claim' = [claim EXCEPT ![k] = IF @ = "dispatching_copy" THEN "accepted_copy" ELSE "accepted"]
    /\ w' = Idle
    /\ UNCHANGED <<env, source, done, library, subs, promotion, counts>>

\* The answer is lost or the worker dies: the row stays as it is.
LosePost ==
    /\ w.step = "post" /\ faults < MaxFaults /\ faults' = faults + 1
    /\ command' \in {command, command \cup {<<w.source, w.item>>}}
    /\ w' = Idle
    /\ UNCHANGED <<env, source, done, claim, library, subs, promotion, swaps>>

\* `_import_matches_source`.
Matches(i, p, copied) == library[i].of = p /\ (library[i].linked \/ copied)

\* The file is the source's: its subtitle is put beside it, as often as it takes ...
Confirm ==
    /\ w.step = "confirm"
    /\ IF Wanted /\ Matches(w.item, w.source, claim[Key(w.item, w.source)] = "accepted_copy")
            /\ <<w.item, w.source>> \in stored
       THEN installed' = installed \cup {w.item} /\ w' = [w EXCEPT !.step = "complete"]
       ELSE w' = Idle /\ UNCHANGED installed
    /\ UNCHANGED <<env, source, done, claim, command, library, stored, promotion, counts>>

\* ... before `complete_movie_import`, `complete_episode_import`.
Complete ==
    /\ w.step = "complete"
    /\ claim' = [claim EXCEPT ![Key(w.item, w.source)] = "complete"]
    /\ active' = active \ {w.item}
    /\ w' = Idle
    /\ UNCHANGED <<waiting, before, deleted, source, done, command, library, subs, promotion, counts>>

\* A call or a check fails, or the worker dies; the copy does not fit.
Fault ==
    /\ w.step \notin {"idle", "post"} /\ faults < MaxFaults /\ faults' = faults + 1
    /\ w' = Idle
    /\ UNCHANGED <<env, source, done, claim, command, library, subs, promotion, swaps>>

-----------------------------------------------------------------------------
(* The Arrs, qBittorrent, the gateway and the API *)

\* The path the Arr is told to scan: an episode's file in a pack, or the torrent's content.
Scanned(i, p) == IF p \in Packs THEN {i} ELSE Holds[p]

\* A media file is linked, or copied when the link was not to be had; the Arr upgrades
\* nothing.
Import(p, i) ==
    /\ <<p, i>> \in command /\ command' = command \ {<<p, i>>}
    /\ \E linked \in BOOLEAN :
           /\ library' = [j \in Items |-> IF j \in Scanned(i, p) /\ library[j] = NoFile
                                          THEN [of |-> p, linked |-> linked] ELSE library[j]]
           /\ linked \/ CopyAnyway \/ claim[Key(i, p)] \in {"dispatching_copy", "accepted_copy"}
    /\ UNCHANGED <<env, source, done, claim, subs, promotion, w, counts>>

Download(p) ==
    /\ \E i \in Holds[p] : /\ <<p, i>> \notin done /\ source[i] = p
                           /\ done' = done \cup {<<p, i>>}
    /\ UNCHANGED <<env, source, claim, command, library, subs, promotion, w, counts>>

\* `probe_decision` reads that the source still downloads ...
BeginPromotion(i, q) ==
    /\ source[i] \notin Packs \cup {0, q} /\ q \notin Packs /\ i \in Holds[q]
    /\ \A j \in Items : source[j] # q
    /\ ~ Downloaded(i, source[i]) /\ RequestOf(i) \in active
    /\ swaps < MaxSwaps /\ swaps' = swaps + 1
    /\ promotion' = promotion \cup {<<i, q>>}
    /\ UNCHANGED <<env, source, done, claim, command, library, subs, w, faults>>

\* ... and `promote_probe` makes the candidate the source, unless its import has begun.
UnfinishedOnly(i) == Row(i) # "complete"   \* mutant
Unclaimed(i) == Row(i) = "none"
Promote(i, q) ==
    /\ <<i, q>> \in promotion /\ promotion' = promotion \ {<<i, q>>}
    /\ source' = IF Unclaimed(i) /\ RequestOf(i) \in active /\ i \notin deleted
                 THEN [source EXCEPT ![i] = q] ELSE source
    /\ UNCHANGED <<env, done, claim, command, library, subs, w, counts>>

\* The API's tombstone of a movie or an episode; the worker withdraws a movie's request
\* itself, and a season's tombstone ends its request.
Delete(i) ==
    /\ i \notin deleted /\ deleted' = deleted \cup {i}
    /\ faults < MaxFaults /\ faults' = faults + 1
    /\ UNCHANGED <<waiting, active, before, source, done, claim, command, library, subs, promotion,
                   w, swaps>>

Withdraw(r) ==
    /\ r \in active /\ active' = active \ {r}
    /\ IF r \in Movies THEN r \in deleted /\ w.step = "idle" /\ UNCHANGED faults
       ELSE faults < MaxFaults /\ faults' = faults + 1
    /\ UNCHANGED <<waiting, before, deleted, source, done, claim, command, library, subs, promotion,
                   w, swaps>>

\* `reserve` in any cycle, and the acquisition after it: an earlier season may be requested
\* after a later one, and is admitted when it fits.
Admit(r) ==
    /\ r \in waiting \ deleted /\ waiting' = waiting \ {r}
    /\ active' = active \cup {r}
    /\ source' = [i \in Items |-> IF RequestOf(i) = r THEN First[i] ELSE source[i]]
    /\ UNCHANGED <<before, deleted, done, claim, command, library, subs, promotion, w, counts>>

Work == Choose \/ Validate \/ FindSubtitle \/ Link \/ Claim \/ Post \/ Confirm \/ Complete

Next ==
    \/ Work \/ LosePost \/ Fault
    \/ \E r \in Requests : Visit(r) \/ Withdraw(r) \/ Admit(r)
    \/ \E p \in Sources, i \in Items : Import(p, i) \/ BeginPromotion(i, p) \/ Promote(i, p)
    \/ \E p \in Sources : Download(p)
    \/ \E i \in Items : Delete(i)

Spec == Init /\ [][Next]_vars

\* A cycle visits every active request; the Arrs and the downloads go on.
FairSpec ==
    /\ Spec /\ WF_vars(Work)
    /\ \A r \in Requests : SF_vars(Visit(r))
    /\ \A p \in Sources : WF_vars(Download(p)) /\ \A i \in Items : WF_vars(Import(p, i))
    /\ \A p \in Sources, i \in Items : WF_vars(Promote(i, p))

-----------------------------------------------------------------------------
(* Properties *)

\* docs/configuration.md:112: an episode that is ready waits for the earlier ones, a later
\* season for the earlier: a file enters the library when every earlier episode is there of
\* the requests that were active when its turn was read, whatever changed while the worker
\* and Sonarr were at work.
InOrder ==
    [][\A e \in Episodes : library[e] = NoFile /\ library'[e] # NoFile
            => \A d \in Episodes : d < e /\ Season[d] \in before[e]
                   => d \in deleted \/ library[d] # NoFile]_vars

\* `_import_matches_source`: what is complete is the file of the medium's present source,
\* with its subtitle; a promotion that comes late does not change that.
CompleteIsTheSource ==
    \A i \in Items, p \in Sources :
        claim[Key(i, p)] = "complete" /\ (i \in Movies => source[i] = p)
            => source[i] = p /\ library[i].of = p /\ i \in installed

\* Claims that no visit will confirm: the worker never learned what became of the command,
\* the medium is gone or has another source than its file, or the file is not the link it
\* was to be.
Unanswered == \E k \in Keys : claim[k] \in {"dispatching", "dispatching_copy"} /\ w.step # "post"
Orphaned == \E i \in Items :
    \/ \E p \in Sources : /\ claim[Key(i, p)] \in Claimed
                          /\ \/ i \in deleted \/ RequestOf(i) \notin active
                             \/ i \in Episodes /\ p # source[i]
    \/ /\ library[i] # NoFile /\ source[i] # 0 /\ Row(i) # "complete"
       /\ ~ Matches(i, source[i], Row(i) = "accepted_copy")

\* An import of a later episode that was told to Sonarr before an earlier season was
\* admitted: it is not looked at before that season is complete, and if one of the two is
\* a copy the other holds it back.
Overtaken == \E d, e \in Episodes :
    /\ d < e /\ Season[d] \in active /\ d \notin deleted /\ Row(d) # "complete"
    /\ Row(e) \in {"accepted", "accepted_copy"}

\* docs/superpowers/specs/2026-09-21-homeserver-design.md:564: a request whose source is
\* downloaded becomes available without intervention, whatever the others do, unless such
\* a claim is left for ever.
Served ==
    \/ <>[](Unanswered \/ Orphaned \/ Overtaken)
    \/ \A i \in Items : source[i] # 0 ~> \/ Row(i) = "complete" \/ i \in deleted
                                         \/ RequestOf(i) \notin active
=============================================================================
