---------------------------- MODULE SeriesWindow ----------------------------
(***************************************************************************)
(* The download window of one series. The worker visits the requested       *)
(* seasons one after another; in each it plans which physical torrents of   *)
(* the series may download, asks the gateway to stop and to start the       *)
(* season's torrents accordingly, and then asks for one missing release or  *)
(* for a pack of the season. Every answer it plans with is read before the  *)
(* requests it decides are handled: torrents progress, seasons are asked    *)
(* for and withdrawn, other programs fill the disk, evidence fails, the     *)
(* worker dies, and a request it gave up on may still arrive. qBittorrent   *)
(* applies a start or a stop some time after it accepted it, and the        *)
(* torrent goes on as before in the meantime.                               *)
(***************************************************************************)
EXTENDS Integers, FiniteSets, FiniteSetsExt, ByteSums

CONSTANTS
    Seasons,     \* season numbers
    Episodes,    \* the episodes of the series, numbered in chronological order
    Season,      \* the season of each episode
    Window,      \* download_window
    Packs,       \* seasons of which an eligible complete pack will be offered
    Sourceless,  \* episodes without an eligible release of their own
    Dead,        \* torrents that need not progress: `stalled`, without seeds or speed; what
                 \* is on its way may still reach them, their last bytes too
    Size,        \* bytes of each torrent
    Disk,        \* bytes of the pool
    MaxOutside,  \* bytes other programs may come to take
    MaxFaults,   \* failures of the worker, its calls and its evidence: a finite number
    Pools        \* whether a storage registry is configured

\* An episode's own torrent has its number, the pack of a season the negative of the season's.
PackOf(s) == - s
Torrents == Episodes \cup {PackOf(s) : s \in Seasons}
SeasonOf(t) == IF t \in Episodes THEN Season[t] ELSE - t

ASSUME WindowAssumption ==
    /\ Seasons \subseteq Nat \ {0} /\ Episodes \subseteq Nat \ {0}
    /\ IsFiniteSet(Seasons) /\ IsFiniteSet(Episodes) /\ Episodes # {}
    /\ Season \in [Episodes -> Seasons]
    /\ \A e, f \in Episodes : e < f => Season[e] <= Season[f]
    /\ Window \in Nat \ {0} /\ Packs \subseteq Seasons
    /\ Sourceless \subseteq Episodes /\ Dead \subseteq Torrents
    /\ Size \in [Torrents -> Nat \ {0}]
    /\ {Disk, MaxOutside, MaxFaults} \subseteq Nat /\ Pools \in BOOLEAN

VARIABLES
    season,    \* of each season: not asked for, wanted, or tombstoned
    listed,    \* the seasons in Sonarr's answer
    offered,   \* the seasons whose pack the indexers offer
    slot,      \* what serves each episode: nothing, a torrent of its own, the season's pack
    permit,    \* the state of each torrent's permit
    left,      \* amount_left of each torrent
    run,       \* whether qBittorrent downloads or seeds it (FALSE: stoppedDL or stoppedUP)
    told,      \* the torrents it was told to start or to stop and has not yet
    imported,  \* episodes in the library, with a complete import of their permit
    outside,   \* bytes other programs have taken
    turn,      \* seasons the worker's cycle has still to visit
    w,         \* the worker
    late,      \* requests the worker no longer waits for
    faults

world == <<season, listed, offered, outside>>
torrents == <<left, run, told>>
vars == <<world, slot, permit, torrents, imported, turn, w, late, faults>>

\* A request to the gateway; `sent`: its handler has told qBittorrent and waits for the effect.
Calls == [torrent : Torrents, action : {"stop", "start"}, strict : BOOLEAN, sent : BOOLEAN]
NoCall == [torrent |-> 0]
Idle == [step |-> "idle", season |-> 0, pending |-> {}, catalog |-> FALSE, window |-> {},
         stops |-> {}, starts |-> {}, blocked |-> FALSE, call |-> NoCall]

TypeOK ==
    /\ season \in [Seasons -> {"none", "wanted", "gone"}] /\ listed \subseteq Seasons
    /\ offered \subseteq Packs
    /\ slot \in [Episodes -> {"none", "own", "pack"}]
    /\ permit \in [Torrents -> {"none", "authorized", "confirmed", "superseded"}]
    /\ left \in [Torrents -> Nat] /\ \A t \in Torrents : left[t] <= Size[t]
    /\ run \in [Torrents -> BOOLEAN] /\ told \subseteq Torrents /\ imported \subseteq Episodes
    /\ outside \in 0 .. MaxOutside /\ turn \subseteq Seasons /\ faults \in 0 .. MaxFaults
    /\ w \in [step : {"idle", "plan", "known", "queue", "grab", "recover", "bind", "failed",
                      "resume"},
              season : Seasons \cup {0}, pending : SUBSET Episodes, catalog : BOOLEAN,
              window : SUBSET Episodes, stops : SUBSET Torrents, starts : SUBSET Torrents, blocked : BOOLEAN,
              call : Calls \cup {NoCall}]
    /\ late \subseteq Calls

Init ==
    /\ season \in [Seasons -> {"none", "wanted"}] /\ listed = {} /\ offered = {}
    /\ slot = [e \in Episodes |-> "none"] /\ permit = [t \in Torrents |-> "none"]
    /\ left = Size /\ run = [t \in Torrents |-> FALSE] /\ told = {}
    /\ imported = {} /\ outside = 0 /\ turn = Seasons /\ w = Idle /\ late = {} /\ faults = 0

-----------------------------------------------------------------------------
(* What the permits and the queue say *)

Wanted(s) == season[s] = "wanted"   \* `_season_active`, `probe_reservation_active`
Source(e) == IF slot[e] = "pack" THEN PackOf(Season[e]) ELSE e
Confirmed(e) == slot[e] # "none" /\ permit[Source(e)] = "confirmed"
Downloaded(e) == Confirmed(e) /\ left[Source(e)] = 0
Downloading == {t \in Torrents : run[t] /\ left[t] > 0}

Bytes(S) == Sum([t \in S |-> left[t]])
Free == Disk - outside - Sum([t \in Torrents |-> Size[t] - left[t]])

\* `_pending_bytes`: with a registry every torrent of the queue counts, stopped or
\* replaced ones too; without, a stopped confirmed one counts only when it is the one
\* to be started. An authorization counts in full.
Pending(t) ==
    Bytes({u \in Torrents : \/ permit[u] = "authorized"
                            \/ permit[u] # "none" /\ (Pools \/ run[u] \/ u = t)})
Fits(t) == Pending(t) <= Free

\* `_select_pool`, called by `issue`: a new torrent beside everything that is pending.
FitsNew(t) == permit[t] = "none" /\ Size[t] <= Free - Pending(0)

-----------------------------------------------------------------------------
(* The plan *)

\* The transfer an episode stands for: the pack it is bound to, or the episode itself.
Identity(e) == IF slot[e] = "pack" THEN PackOf(Season[e]) ELSE e

\* `_select_download_window`: the episodes of the first `Window` transfers.
InWindow(due) ==
    LET First(e) == Min({f \in due : Identity(f) = Identity(e)})
    IN  {e \in due : Cardinality({Identity(g) : g \in {f \in due : f < First(e)}}) < Window}

\* `_download_pending`: a confirmed torrent with nothing left frees its place, but
\* only on evidence.
DownloadPending(pending, evidence) ==
    IF evidence THEN {e \in pending : ~ Downloaded(e)} ELSE pending

\* `earlier_catalog_complete`: Sonarr lists every requested season before this one.
CatalogComplete(s) == \A r \in Seasons : Wanted(r) /\ r < s => r \in listed

\* Evidence comes through the gateway, whose handlers take requests one after another: what
\* was sent before has reached qBittorrent before. Each failure to read it is one of the faults.
Evidence(ok) ==
    IF ok THEN late = {} /\ UNCHANGED faults ELSE faults < MaxFaults /\ faults' = faults + 1

\* `acquire`: what Sonarr lists and the ledger has not seen imported.
Look(s) ==
    /\ w.step = "idle" /\ s \in turn
    /\ turn' = IF turn = {s} THEN Seasons ELSE turn \ {s}
    /\ w' = IF Wanted(s) /\ s \in listed
            THEN [Idle EXCEPT !.step = "plan", !.season = s, !.catalog = CatalogComplete(s),
                    !.pending = {e \in Episodes : /\ Wanted(Season[e]) /\ Season[e] \in listed
                                                  /\ e \notin imported}]
            ELSE w
    /\ UNCHANGED <<world, slot, permit, torrents, imported, late, faults>>

ReconciledRunning(s) ==   \* mutant
    {e \in w.pending : Season[e] = s /\ Confirmed(e) /\ run[Source(e)]}

\* The episodes whose torrents a visit settles.
Reconciled(s) == {e \in w.pending : Season[e] = s /\ Confirmed(e)}

\* `_reconcile_existing_queue`: which of the season's torrents to start, the shared one
\* of a pack when any of its episodes is in the window, and which to stop.
Plan(evidence) ==
    LET window == IF w.catalog THEN InWindow(DownloadPending(w.pending, evidence)) ELSE {}
        starts == {Source(e) : e \in Reconciled(w.season) \cap window}
    IN  /\ w.step = "plan" /\ Evidence(evidence)
        /\ w' = IF Wanted(w.season)
                THEN [w EXCEPT !.step = "known", !.window = window, !.starts = starts,
                               !.stops = {Source(e) : e \in Reconciled(w.season)} \ starts]
                ELSE Idle
        /\ UNCHANGED <<world, slot, permit, torrents, imported, turn, late>>

\* The torrents known to be complete are left alone: they seed.
Known(evidence) ==
    LET complete == IF evidence THEN {t \in Torrents : left[t] = 0} ELSE {}
    IN  /\ w.step = "known" /\ Evidence(evidence)
        /\ w' = [w EXCEPT !.step = "queue", !.stops = @ \ complete, !.starts = @ \ complete]
        /\ UNCHANGED <<world, slot, permit, torrents, imported, turn, late>>

-----------------------------------------------------------------------------
(* The requests *)

\* In chronological order of the first episode a torrent serves.
Before(t, u) == Min({e \in Episodes : Source(e) = t}) <= Min({e \in Episodes : Source(e) = u})
FirstOf(S) == CHOOSE t \in S : \A u \in S : Before(t, u)

\* The children of a pack are asked for through `source-state`, the others through
\* `series-queue-state`.
Ask(t, action) == [torrent |-> t, action |-> action, strict |-> t \notin Episodes, sent |-> FALSE]

Todo == w.step = "queue" /\ w.call = NoCall

\* The stops go first.
AskStop ==
    LET t == FirstOf(w.stops)
    IN  /\ Todo /\ w.stops # {}
        /\ w' = IF Wanted(w.season) THEN [w EXCEPT !.stops = @ \ {t}, !.call = Ask(t, "stop")]
                ELSE Idle
        /\ UNCHANGED <<world, slot, permit, torrents, imported, turn, late, faults>>

\* A start asks for fresh evidence; without it, or without room, it becomes the last
\* stop of this visit.
AskStart(evidence) ==
    LET t == FirstOf(w.starts)
        asked(action) == [w EXCEPT !.starts = @ \ {t}, !.call = Ask(t, action),
                                   !.blocked = (action = "stop")]
    IN  /\ Todo /\ w.stops = {} /\ w.starts # {} /\ Evidence(evidence)
        /\ w' = IF ~ Wanted(w.season) THEN Idle
                ELSE IF ~ evidence THEN asked("stop")
                ELSE IF left[t] = 0 THEN [w EXCEPT !.starts = @ \ {t}]
                ELSE IF Fits(t) THEN asked("start") ELSE asked("stop")
        /\ UNCHANGED <<world, slot, permit, torrents, imported, turn, late>>

AllAsked ==
    /\ Todo /\ w.stops = {} /\ w.starts = {}
    /\ w' = IF w.catalog THEN [w EXCEPT !.step = "grab"] ELSE Idle
    /\ UNCHANGED <<world, slot, permit, torrents, imported, turn, late, faults>>

\* `source_state` (strict) and `series_queue_state` of the gateway: only a registry makes
\* it measure the pool again, only the strict handler looks at the reservation and refuses
\* a complete torrent.
Accepts(c) ==
    /\ permit[c.torrent] = "confirmed"
    /\ c.action = "start" => /\ Pools => Fits(c.torrent)
                             /\ c.strict => Wanted(SeasonOf(c.torrent))
    /\ c.strict => left[c.torrent] > 0

\* A torrent found complete, or already as it should be, is not touched.
Changes(c) == Accepts(c) /\ left[c.torrent] > 0 /\ run[c.torrent] # (c.action = "start")
Apply(c) == told' = told \cup (IF Changes(c) THEN {c.torrent} ELSE {})

\* What an answer makes of the visit: an HTTP error ends it, or the recovery of a pack.
Answered(ok) ==
    w' = CASE w.step = "queue" /\ ok /\ ~ w.blocked -> [w EXCEPT !.call = NoCall]
           [] w.step = "recover" /\ ok ->
                  [w EXCEPT !.call = NoCall, !.starts = @ \cup {w.call.torrent}]
           [] w.step = "recover" /\ ~ ok -> [w EXCEPT !.step = "failed", !.call = NoCall]
           [] w.step = "resume" -> [w EXCEPT !.call = NoCall]
           [] OTHER -> Idle

\* The handler looks at the torrent and tells qBittorrent; the strict one then waits.
Handle ==
    /\ w.call # NoCall /\ ~ w.call.sent /\ late = {}
    /\ Apply(w.call)
    /\ IF w.call.strict /\ Changes(w.call) THEN w' = [w EXCEPT !.call.sent = TRUE]
       ELSE Answered(Accepts(w.call))
    /\ UNCHANGED <<world, slot, permit, left, run, imported, turn, late, faults>>

\* The readback of `source_state`: the effect, or "source completed during stop". An effect
\* that does not come in time is a fault.
Confirm ==
    LET t == w.call.torrent
        completed == w.call.action = "stop" /\ left[t] = 0
    IN  /\ w.call # NoCall /\ w.call.sent
        /\ completed \/ run[t] = (w.call.action = "start")
        /\ Answered(~ completed)
        /\ UNCHANGED <<world, slot, permit, torrents, imported, turn, late, faults>>

HandleLate(c) ==
    /\ c \in late
    /\ late' = late \ {c}
    /\ Apply(c)
    /\ UNCHANGED <<world, slot, permit, left, run, imported, turn, w, faults>>

-----------------------------------------------------------------------------
(* New releases *)

\* What a pack would serve: episodes without a source and individual sources that died.
Missing(s) == {e \in Episodes : Season[e] = s /\ slot[e] = "none" /\ e \notin imported}
Stalled(s) == {e \in Episodes : /\ Season[e] = s /\ slot[e] = "own" /\ Confirmed(e)
                                /\ e \in Dead /\ run[e] /\ left[e] > 0 /\ e \notin imported}

Bound(s) == \E e \in Episodes : Season[e] = s /\ slot[e] = "pack"
UnboundKept(s) == FALSE   \* mutant
UnboundAny(s) == permit[PackOf(s)] = "authorized"   \* mutant
Unbound(s) == permit[PackOf(s)] = "authorized" /\ ~ Bound(s)
PackWanted(s) == s \in offered /\ Missing(s) \cup Stalled(s) # {} /\ FitsNew(PackOf(s))

\* `_acquire_season_pack`: a pack is bound to the missing episodes at once; when it is
\* to replace dead sources they are stopped first. An authorization that a crash left
\* unbound was never a download and is cancelled.
GrabPack(s) ==
    LET p == PackOf(s)
    IN  \/ Unbound(s) /\ permit' = [permit EXCEPT ![p] = "none"] /\ UNCHANGED <<slot, w>>
        \/ ~ Unbound(s) /\ permit[p] = "authorized" /\ w' = Idle /\ UNCHANGED <<slot, permit>>
        \/ /\ permit[p] = "none" /\ permit' = [permit EXCEPT ![p] = "authorized"]
           /\ IF Stalled(s) = {}
              THEN slot' = [e \in Episodes |-> IF e \in Missing(s) THEN "pack" ELSE slot[e]]
              ELSE UNCHANGED slot
           /\ w' = IF Stalled(s) = {} THEN Idle
                   ELSE [Idle EXCEPT !.step = "recover", !.season = s, !.stops = Stalled(s)]

\* The selected episodes without a source whose release fits; the first is asked for.
Grabbable == {e \in w.window : /\ Season[e] = w.season /\ e \notin Sourceless
                               /\ slot[e] = "none" /\ FitsNew(e)}

Grab ==
    LET s == w.season
        selected == {e \in w.window : Season[e] = s}
        usePack == selected # {} /\ (permit[PackOf(s)] = "authorized" \/ PackWanted(s))
    IN  /\ w.step = "grab"
        /\ \/ /\ Wanted(s) /\ usePack
              /\ GrabPack(s)
           \/ /\ Wanted(s) /\ ~ usePack /\ Grabbable # {}
              /\ permit' = [permit EXCEPT ![Min(Grabbable)] = "authorized"]
              /\ slot' = [slot EXCEPT ![Min(Grabbable)] = "own"]
              /\ w' = Idle
           \/ /\ ~ Wanted(s) \/ (~ usePack /\ Grabbable = {})
              /\ w' = Idle /\ UNCHANGED <<slot, permit>>
        /\ UNCHANGED <<world, torrents, imported, turn, late, faults>>

Strictly(t, action) == [torrent |-> t, action |-> action, strict |-> TRUE, sent |-> FALSE]

\* `_bind_recovery_pack`: the dead sources stop one by one, unless one of them has completed
\* before the first.
StopDead ==
    /\ w.step = "recover" /\ w.call = NoCall /\ w.stops # {}
    /\ IF w.starts = {} /\ \E t \in w.stops : left[t] = 0
       THEN w' = [w EXCEPT !.step = "failed"]
       ELSE \E t \in w.stops : w' = [w EXCEPT !.stops = @ \ {t}, !.call = Strictly(t, "stop")]
    /\ UNCHANGED <<world, slot, permit, torrents, imported, turn, late, faults>>

\* All stopped: the evidence must show every one stopped and incomplete, and that the
\* pack fits beside what the sources would still need.
Measure(evidence) ==
    /\ w.step = "recover" /\ w.call = NoCall /\ w.stops = {} /\ Evidence(evidence)
    /\ w' = IF /\ evidence
               /\ \A t \in w.starts : ~ run[t] /\ left[t] > 0
               /\ Pending(0) + (IF Pools THEN 0 ELSE Bytes(w.starts)) <= Free
            THEN [w EXCEPT !.step = "bind"] ELSE [w EXCEPT !.step = "failed"]
    /\ UNCHANGED <<world, slot, permit, torrents, imported, turn, late>>

\* The scopes of the binding: the missing ones and those of the stopped sources.
Served(s) == Missing(s) \cup w.starts

\* `bind_season_pack`: the slots pass to the pack in one transaction.
Bind ==
    LET s == w.season
    IN  /\ w.step = "bind"
        /\ IF /\ Wanted(s) /\ permit[PackOf(s)] = "authorized"
              /\ \A t \in w.starts : permit[t] = "confirmed"
           THEN /\ slot' = [e \in Episodes |-> IF e \in Served(s) THEN "pack" ELSE slot[e]]
                /\ permit' = [t \in Torrents |->
                                 IF t \in Served(s) /\ slot[t] = "own" THEN "superseded" ELSE permit[t]]
                /\ w' = Idle
           ELSE w' = [w EXCEPT !.step = "failed"] /\ UNCHANGED <<slot, permit>>
        /\ UNCHANGED <<world, torrents, imported, turn, late, faults>>

\* An exception on the way: the pack is given up and the stopped sources resume.
CancelRecovery ==
    /\ w.step = "failed"
    /\ permit' = [permit EXCEPT ![PackOf(w.season)] = IF @ = "authorized" THEN "none" ELSE @]
    /\ w' = IF Wanted(w.season) THEN [w EXCEPT !.step = "resume", !.stops = {}] ELSE Idle
    /\ UNCHANGED <<world, slot, torrents, imported, turn, late, faults>>

\* `_resume_if_safe`: each is started again if it fits; a refusal is only logged.
Resume(evidence) ==
    /\ w.step = "resume" /\ w.call = NoCall /\ Evidence(evidence)
    /\ IF w.starts = {} THEN w' = Idle
       ELSE \E t \in w.starts :
            w' = IF evidence /\ permit[t] = "confirmed" /\ Fits(t)
                 THEN [w EXCEPT !.starts = @ \ {t}, !.call = Strictly(t, "start")]
                 ELSE [w EXCEPT !.starts = @ \ {t}]
    /\ UNCHANGED <<world, slot, permit, torrents, imported, turn, late>>

\* The worker dies, an exception ends the visit, or a call takes too long; what it had asked
\* for may be handled later, and what qBittorrent was told it does. A failed recovery is
\* undone unless the process died.
Fault ==
    /\ w.step # "idle" /\ faults < MaxFaults /\ faults' = faults + 1
    /\ w' \in {Idle} \cup (IF w.step \in {"recover", "bind"}
                           THEN {[w EXCEPT !.step = "failed", !.call = NoCall]} ELSE {})
    /\ late' \in {late, late \cup {c \in {w.call} \ {NoCall} : ~ c.sent}}
    /\ UNCHANGED <<world, slot, permit, torrents, imported, turn>>

-----------------------------------------------------------------------------
(* The other actors *)

\* Seerr's request, Sonarr's catalogue, and a deletion: the tombstone, then the torrents.
Request(s) ==
    /\ season[s] = "none" /\ season' = [season EXCEPT ![s] = "wanted"]
    /\ UNCHANGED <<listed, offered, outside, slot, permit, torrents, imported, turn, w, late, faults>>
List(s) ==
    /\ Wanted(s) /\ s \notin listed /\ listed' = listed \cup {s}
    /\ UNCHANGED <<season, offered, outside, slot, permit, torrents, imported, turn, w, late, faults>>
Offer(s) ==
    /\ s \in Packs \ offered /\ offered' = offered \cup {s}
    /\ UNCHANGED <<season, listed, outside, slot, permit, torrents, imported, turn, w, late, faults>>
Withdraw(s) ==
    /\ season[s] = "wanted" /\ season' = [season EXCEPT ![s] = "gone"]
    /\ UNCHANGED <<listed, offered, outside, slot, permit, torrents, imported, turn, w, late, faults>>
Erase(s) ==
    LET its == {t \in Torrents : SeasonOf(t) = s}
    IN  /\ season[s] = "gone" /\ w.step = "idle" /\ \E t \in its : permit[t] # "none"
        /\ permit' = [t \in Torrents |-> IF t \in its THEN "none" ELSE permit[t]]
        /\ slot' = [e \in Episodes |-> IF Season[e] = s THEN "none" ELSE slot[e]]
        /\ left' = [t \in Torrents |-> IF t \in its THEN Size[t] ELSE left[t]]
        /\ run' = [t \in Torrents |-> run[t] /\ t \notin its] /\ told' = told \ its
        /\ UNCHANGED <<world, imported, turn, w, late, faults>>

\* Sonarr posts what it was asked for and qBittorrent confirms it.
Dispatch(t) ==
    /\ permit[t] = "authorized" /\ Wanted(SeasonOf(t))
    /\ t \notin Episodes => Bound(SeasonOf(t))
    /\ permit' = [permit EXCEPT ![t] = "confirmed"] /\ run' = [run EXCEPT ![t] = TRUE]
    /\ UNCHANGED <<world, slot, left, told, imported, turn, w, late, faults>>

\* qBittorrent starts or stops what it was told to.
Obey(t) ==
    /\ t \in told /\ told' = told \ {t} /\ run' = [run EXCEPT ![t] = ~ @]
    /\ UNCHANGED <<world, slot, permit, left, imported, turn, w, late, faults>>

Progress(t) ==
    /\ run[t] /\ left[t] > 0 /\ Free > 0
    /\ left' = [left EXCEPT ![t] = @ - 1]
    /\ UNCHANGED <<world, slot, permit, run, told, imported, turn, w, late, faults>>

\* The finalizer, between two visits: in order over the requested seasons.
Import(e) ==
    /\ w.step = "idle" /\ Wanted(Season[e]) /\ e \notin imported /\ Downloaded(e)
    /\ \A f \in Episodes : f < e /\ Wanted(Season[f]) => f \in imported
    /\ imported' = imported \cup {e}
    /\ UNCHANGED <<world, slot, permit, torrents, turn, w, late, faults>>

Outside(n) ==
    /\ outside < MaxOutside /\ n \in 1 .. MaxOutside - outside /\ n <= Free
    /\ outside' = outside + n
    /\ UNCHANGED <<season, listed, offered, slot, permit, torrents, imported, turn, w, late, faults>>

Work ==
    \/ \E s \in Seasons : Look(s)
    \/ \E ok \in BOOLEAN : Plan(ok) \/ Known(ok) \/ AskStart(ok) \/ Measure(ok) \/ Resume(ok)
    \/ AskStop \/ AllAsked \/ Grab \/ StopDead \/ Bind \/ CancelRecovery

Next ==
    \/ Work \/ Handle \/ Confirm \/ Fault
    \/ \E c \in late : HandleLate(c)
    \/ \E s \in Seasons : Request(s) \/ List(s) \/ Offer(s) \/ Withdraw(s) \/ Erase(s)
    \/ \E t \in Torrents : Dispatch(t) \/ Obey(t) \/ Progress(t)
    \/ \E e \in Episodes : Import(e)
    \/ \E n \in 1 .. MaxOutside : Outside(n)

Spec == Init /\ [][Next]_vars

\* The worker's cycles go on and each call is answered, Sonarr lists and posts what it
\* is asked for, the indexers come to offer the packs there are, qBittorrent does what it
\* was told, live torrents progress, and the finalizer and the deletion jobs get their turn
\* between visits.
FairSpec ==
    /\ Spec /\ WF_vars(Work) /\ WF_vars(Handle \/ Confirm \/ \E c \in late : HandleLate(c))
    /\ \A s \in Seasons : WF_vars(List(s)) /\ WF_vars(Offer(s)) /\ SF_vars(Erase(s))
    /\ \A t \in Torrents : WF_vars(Dispatch(t)) /\ WF_vars(Obey(t)) /\ (t \notin Dead => WF_vars(Progress(t)))
    /\ \A e \in Episodes : SF_vars(Import(e))

-----------------------------------------------------------------------------
(* Properties *)

Active(t) == permit[t] \in {"authorized", "confirmed"}

\* `issue`, `bind_season_pack`, `cancel_authorized` and a deletion: an episode is served by
\* its own torrent exactly while that has an active permit, and by the pack of its season
\* only while that has one, wherever a recovery was given up.
SlotsHaveSources ==
    \A e \in Episodes : /\ slot[e] = "own" <=> Active(e)
                        /\ slot[e] = "pack" => Active(PackOf(Season[e]))

\* docs/configuration.md:105: an episode without a source, or slow, keeps none of the
\* following ones from being fetched, as long as it leaves a place in the window.
Rescued == {e \in Episodes : Season[e] \in Packs /\ PackOf(Season[e]) \notin Dead}
Stuck == (Dead \cup Sourceless) \ Rescued   \* transfers never to end
Hopeless == {e \in Episodes \ Rescued : e \in Stuck \/ Season[e] \in Packs}
EpisodeArrives ==
    Cardinality(Stuck) < Window =>
        \A e \in Episodes \ Hopeless :
            <>[](Wanted(Season[e]) /\ outside = 0) => <>Downloaded(e)

\* A source that `_bind_recovery_pack` stopped does not stay stopped before it is complete:
\* it is resumed, by the failed recovery or by a later visit, or its slot passes to the pack.
StoppedIsSettled ==
    \A e \in Episodes :
        (permit[e] = "confirmed" /\ ~ run[e] /\ left[e] > 0)
            ~> (run[e] \/ permit[e] # "confirmed" \/ ~ Wanted(Season[e]) \/ outside > 0)
=============================================================================
