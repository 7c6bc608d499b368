-------------------------- MODULE SourceReplacement --------------------------
(***************************************************************************)
(* The sources of one movie or episode when live trials are switched off.   *)
(* The worker grabs a release through the Arr, measures the torrent over    *)
(* many visits, and when it finds it stalled or slow it notes that it is    *)
(* replacing it, stops it, supersedes its permit and adds another release   *)
(* itself. Each of these is a call that may fail, be answered late, or be   *)
(* the last thing the worker does; the notes in the database are all it     *)
(* resumes from. qBittorrent applies a stop or a start some time after it   *)
(* accepted it, and the source goes on, or completes, in the meantime.      *)
(***************************************************************************)
EXTENDS Integers, FiniteSets

CONSTANTS
    Sources,    \* releases of the medium, each a torrent of its own
    Dead,       \* sources without peers: they never receive a byte
    Movie,      \* a movie; otherwise an episode of a series
    Size,       \* bytes of a torrent
    Stalled, SlowAfter, Rate,  \* stalled_seconds, slow_seconds, slow_bytes_per_second
    Slow,       \* slow_replacement_enabled
    Horizon,    \* an age beyond which no comparison changes
    Handover,   \* trials were switched off while a handover was pending
    MaxFaults,  \* failures of the worker, its calls, the gateway and the Arr
    MaxPauses   \* waits in qBittorrent's queue, stops by the download window or for lack of space

ASSUME ReplacementAssumption ==
    /\ Sources # {} /\ 0 \notin Sources /\ Dead \subseteq Sources
    /\ {Movie, Slow, Handover} \subseteq BOOLEAN
    /\ {Size, Stalled, SlowAfter, Rate} \subseteq Nat \ {0} /\ {MaxFaults, MaxPauses} \subseteq Nat
    /\ Horizon \in Nat /\ Horizon >= Stalled /\ Horizon >= SlowAfter /\ Rate * Horizon > Size
    /\ Handover => \E a, b \in Sources : a # b

VARIABLES
    wanted,    \* the reservation is active
    room,      \* whether what is pending fits the disk
    offered,   \* the releases the indexers offer
    permit,    \* the state of each source's permit
    expired,   \* the authorized permit is past its expiry
    stored,    \* sources whose metadata is in the torrent store
    torrent,   \* each torrent in qBittorrent
    told,      \* the torrents it was told to stop or to start and has not yet
    left,      \* its amount_left
    row,       \* the measurements of the current source: its row in source_health
    asked,     \* what the Arr was asked to grab
    posted,    \* `_posted`: the worker's process has asked for a grab
    w,         \* the worker
    late,      \* requests the worker no longer waits for
    quiet, lull,  \* time without a byte; that time while downloading without a break
    faults, pauses

env == <<wanted, room, offered>>
queue == <<torrent, told>>
gate == <<permit, expired, queue>>
ghosts == <<quiet, lull>>
vars == <<env, gate, stored, left, row, asked, posted, w, late, ghosts, faults, pauses>>

NoRow == [on |-> FALSE, left |-> 0, still |-> 0, age |-> 0, from |-> 0, replacing |-> FALSE]
Idle == [step |-> "idle", old |-> 0, new |-> 0, reason |-> "none", call |-> "none"]
Calls == {"stop", "start", "add"}

TypeOK ==
    /\ wanted \in BOOLEAN /\ room \in BOOLEAN /\ offered \subseteq Sources
    /\ permit \in [Sources -> {"none", "authorized", "unknown", "confirmed", "superseded"}]
    /\ expired \in BOOLEAN /\ stored \subseteq Sources /\ asked \subseteq Sources
    /\ torrent \in [Sources -> {"absent", "queued", "downloading", "stopped"}]
    /\ told \subseteq Sources
    /\ left \in [Sources -> 0 .. Size]
    /\ row \in [on : BOOLEAN, left : 0 .. Size, still : 0 .. Horizon, age : 0 .. Horizon,
                from : 0 .. Size, replacing : BOOLEAN]
    /\ posted \in BOOLEAN
    /\ w \in [step : {"idle", "search", "stop", "stopping", "replace", "put", "post", "renew",
                      "add", "resume", "starting", "clear"},
              old : Sources \cup {0}, new : Sources \cup {0},
              reason : {"none", "stalled", "slow", "replacing"}, call : Calls \cup {"none"}]
    /\ late \subseteq Calls \X Sources
    /\ quiet \in 0 .. Horizon /\ lull \in 0 .. Horizon
    /\ faults \in 0 .. MaxFaults /\ pauses \in 0 .. MaxPauses

\* A medium without a source, or one whose source was promoted just before trials were
\* switched off and whose former source still runs.
Init ==
    /\ wanted = TRUE /\ room \in BOOLEAN /\ offered \in SUBSET Sources
    /\ \/ /\ Handover
          /\ \E a, b \in Sources :
                /\ a # b /\ stored = {a, b}
                /\ permit = [c \in Sources |-> IF c = a THEN "superseded"
                                               ELSE IF c = b THEN "confirmed" ELSE "none"]
                /\ torrent = [c \in Sources |-> IF c \in {a, b} THEN "downloading" ELSE "absent"]
       \/ /\ stored = {} /\ permit = [c \in Sources |-> "none"]
          /\ torrent = [c \in Sources |-> "absent"]
    /\ expired = FALSE /\ left = [c \in Sources |-> Size] /\ row = NoRow /\ asked = {}
    /\ posted = FALSE /\ told = {} /\ w = Idle /\ late = {} /\ quiet = 0 /\ lull = 0
    /\ faults = 0 /\ pauses = 0

-----------------------------------------------------------------------------
(* The permits of the medium *)

Active(c) == permit[c] \in {"authorized", "unknown", "confirmed"}   \* `get_for_reservation`
HadSuperseded == \E c \in Sources : permit[c] = "superseded"
Former == {c \in Sources : permit[c] = "superseded"}
History == {c \in Sources : permit[c] # "none"}                     \* `list_source_history`
AllStopped(S) == \A c \in S : torrent[c] = "stopped"                \* `paused_hashes`

\* A visit of the worker; the gateway answers its requests one after another.
Visit == w.step = "idle" /\ late = {} /\ wanted

-----------------------------------------------------------------------------
(* Measuring the source *)

\* `observe`: a replacement under way is remembered while the source is stopped or has
\* received nothing since.
Replacing(c) == row.on /\ row.replacing /\ (torrent[c] = "stopped" \/ left[c] = row.left)

Still(c) == IF left[c] < row.left THEN 0 ELSE row.still
IsSlow(c) == Slow /\ row.age >= SlowAfter /\ row.from - left[c] < Rate * row.age
Restarts(c) == row.age >= SlowAfter /\ ~ IsSlow(c)

\* The verdict of a look at a source with or without connected seeds.
Reason(c, connected) ==
    IF left[c] = 0 THEN "none"
    ELSE IF Replacing(c) THEN "replacing"
    ELSE IF torrent[c] # "downloading" \/ ~ row.on THEN "none"
    ELSE IF ~ connected /\ Still(c) >= Stalled THEN "stalled"
    ELSE IF IsSlow(c) THEN "slow" ELSE "none"

\* What the look leaves in the database.
Measured(c) ==
    IF left[c] > 0 /\ Replacing(c) THEN row
    ELSE IF left[c] = 0 \/ torrent[c] # "downloading" THEN NoRow
    ELSE IF ~ row.on \/ left[c] > row.left
         THEN [on |-> TRUE, left |-> left[c], still |-> 0, age |-> 0, from |-> left[c],
               replacing |-> FALSE]
    ELSE [row EXCEPT !.left = left[c], !.still = Still(c), !.replacing = FALSE,
                     !.age = IF Restarts(c) THEN 0 ELSE @,
                     !.from = IF Restarts(c) THEN left[c] ELSE @]

\* `_source_status`.
Look(c) ==
    /\ Visit /\ permit[c] = "confirmed"
    /\ row' = Measured(c)
    /\ \E connected \in BOOLEAN :
           /\ c \in Dead => ~ connected
           /\ w' = IF Reason(c, connected) = "none" THEN w
                   ELSE [Idle EXCEPT !.step = "search", !.old = c, !.reason = Reason(c, connected)]
    /\ UNCHANGED <<env, gate, stored, left, asked, posted, late, ghosts, faults, pauses>>

-----------------------------------------------------------------------------
(* Replacing it *)

Candidates == offered \ History

\* `_dispatch_replacement`: the intent is noted before the stop is asked for. The search
\* before it takes longer than qBittorrent takes to do what it was told before it.
Begin(c) ==
    /\ w.step = "search" /\ c \in Candidates /\ told = {}
    /\ row' = [row EXCEPT !.replacing = TRUE]
    /\ w' = [Idle EXCEPT !.step = "stop", !.old = w.old, !.new = c, !.call = "stop"]
    /\ UNCHANGED <<env, gate, stored, left, asked, posted, late, ghosts, faults, pauses>>

ToResume == [Idle EXCEPT !.step = "resume", !.old = w.old]
ResumeWorthIt == w.reason = "replacing"

\* No other source: one that an earlier attempt left stopped is resumed.
GiveUp ==
    /\ w.step = "search" /\ Candidates = {}
    /\ w' = IF ResumeWorthIt THEN ToResume ELSE Idle
    /\ UNCHANGED <<env, gate, stored, left, row, asked, posted, late, ghosts, faults, pauses>>

StoppedOnlyOld == {w.old}   \* mutant

\* The torrents that must have stopped before another is admitted.
MustHaveStopped == {w.old} \cup Former

\* Measurements belong to a permit: the new one has none.
RowOfMedium == [row EXCEPT !.replacing = FALSE]   \* mutant
NewRow == NoRow

\* `replace_confirmed`; refused, the source is resumed while its permit stands.
Replace ==
    /\ w.step = "replace"
    /\ IF permit[w.old] = "confirmed" /\ AllStopped(MustHaveStopped) /\ wanted /\ room
       THEN /\ permit' = [permit EXCEPT ![w.old] = "superseded", ![w.new] = "authorized"]
            /\ expired' = FALSE /\ row' = NewRow
            /\ w' = [w EXCEPT !.step = "put"]
       ELSE /\ w' = IF permit[w.old] = "confirmed" THEN ToResume ELSE Idle
            /\ UNCHANGED <<permit, expired, row>>
    /\ UNCHANGED <<env, queue, stored, left, asked, posted, late, ghosts, faults, pauses>>

\* `_resume_if_safe`.
Resume ==
    /\ w.step = "resume" /\ w.call = "none" /\ late = {}
    /\ w' = IF room THEN [w EXCEPT !.call = "start"] ELSE Idle
    /\ UNCHANGED <<env, gate, stored, left, row, asked, posted, late, ghosts, faults, pauses>>

Clear ==
    /\ w.step = "clear"
    /\ row' = [row EXCEPT !.replacing = FALSE] /\ w' = Idle
    /\ UNCHANGED <<env, gate, stored, left, asked, posted, late, ghosts, faults, pauses>>

-----------------------------------------------------------------------------
(* Authorizing and dispatching *)

\* An expired authorization is retired, except one that replaces a source.
Retire(c) ==
    /\ Visit /\ permit[c] = "authorized" /\ expired /\ ~ HadSuperseded
    /\ permit' = [permit EXCEPT ![c] = "none"]
    /\ UNCHANGED <<env, expired, queue, stored, left, row, asked, posted, w, late, ghosts,
                   faults, pauses>>

\* The first source.
Issue(c) ==
    /\ Visit /\ History = {} /\ c \in offered /\ room
    /\ permit' = [permit EXCEPT ![c] = "authorized"] /\ expired' = FALSE
    /\ w' = [Idle EXCEPT !.step = "put", !.new = c]
    /\ UNCHANGED <<env, queue, stored, left, row, asked, posted, late, ghosts, faults, pauses>>

\* A restarted worker finds the authorization it did not post, if the release is still
\* offered.
Again(c) ==
    /\ Visit /\ permit[c] = "authorized" /\ c \in offered /\ ~ posted
    /\ IF HadSuperseded THEN c \notin stored ELSE ~ expired
    /\ w' = [Idle EXCEPT !.step = "put", !.new = c]
    /\ UNCHANGED <<env, gate, stored, left, row, asked, posted, late, ghosts, faults, pauses>>

\* The metadata is kept; a replacement just issued is added by the worker at once.
Put ==
    /\ w.step = "put"
    /\ stored' = stored \cup {w.new}
    /\ w' = IF w.old # 0 THEN [w EXCEPT !.step = "add", !.call = "add"]
            ELSE [w EXCEPT !.step = IF HadSuperseded THEN "renew" ELSE "post"]
    /\ UNCHANGED <<env, gate, left, row, asked, posted, late, ghosts, faults, pauses>>

Post ==
    /\ w.step = "post"
    /\ asked' = asked \cup {w.new} /\ posted' = TRUE /\ w' = Idle
    /\ UNCHANGED <<env, gate, stored, left, row, late, ghosts, faults, pauses>>

RetriableIfFresh(c) == ~ expired   \* mutant

\* `_retry_replacement`: a movie's is not tried again in the process that once posted.
Retriable(c) == Movie => ~ posted
Retry(c) ==
    /\ Visit /\ permit[c] = "authorized" /\ HadSuperseded /\ c \in stored /\ Retriable(c)
    /\ w' = [Idle EXCEPT !.step = "renew", !.new = c]
    /\ UNCHANGED <<env, gate, stored, left, row, asked, posted, late, ghosts, faults, pauses>>

\* `renew_replacement_authorized`.
Renew ==
    /\ w.step = "renew" /\ late = {}
    /\ IF permit[w.new] = "authorized" /\ AllStopped(Former) /\ room /\ wanted
       THEN expired' = FALSE /\ w' = [w EXCEPT !.step = "add", !.call = "add"]
       ELSE w' = Idle /\ UNCHANGED expired
    /\ UNCHANGED <<env, permit, queue, stored, left, row, asked, posted, late, ghosts, faults,
                   pauses>>

\* `_reconcile_uncertain_source`, `confirm_reconciled_source`.
Reconcile(c) ==
    /\ Visit /\ permit[c] = "unknown" /\ torrent[c] # "absent" /\ c \in stored
    /\ permit' = [permit EXCEPT ![c] = "confirmed"]
    /\ UNCHANGED <<env, expired, queue, stored, left, row, asked, posted, w, late, ghosts,
                   faults, pauses>>

-----------------------------------------------------------------------------
(* The gateway *)

\* `source_state`, `add_torrent`.
Accepts(call, c) ==
    IF call = "add" THEN permit[c] = "authorized" /\ ~ expired /\ wanted
    ELSE permit[c] = "confirmed" /\ left[c] > 0 /\ (call = "start" => wanted /\ room)

\* A new torrent starts its own measurements.
Appears(c) ==
    /\ torrent' = [torrent EXCEPT ![c] = "downloading"] /\ quiet' = 0 /\ lull' = 0

\* A stop or a start is told to qBittorrent unless the torrent is as it should be.
Tells(call, c) == (call = "stop") # (torrent[c] = "stopped")
Effect(call, c) ==
    IF ~ Accepts(call, c) THEN UNCHANGED <<permit, queue, ghosts>>
    ELSE IF call = "add" THEN permit' = [permit EXCEPT ![c] = "confirmed"] /\ Appears(c) /\ UNCHANGED told
    ELSE /\ told' = IF Tells(call, c) THEN told \cup {c} ELSE told
         /\ UNCHANGED <<permit, torrent, ghosts>>

Target == IF w.call = "add" THEN w.new ELSE w.old

\* The worker's request.
Handle ==
    LET stop == w.call = "stop"
    IN  /\ w.call # "none" /\ late = {}
        /\ Effect(w.call, Target)
        /\ w' = IF ~ Accepts(w.call, Target) \/ w.call = "add" THEN Idle
                ELSE [w EXCEPT !.call = "none",
                               !.step = IF Tells(w.call, Target)
                                        THEN IF stop THEN "stopping" ELSE "starting"
                                        ELSE IF stop THEN "replace" ELSE "clear"]
        /\ UNCHANGED <<env, expired, stored, left, row, asked, posted, late, faults, pauses>>

ConfirmStopped ==   \* mutant
    /\ w.step \in {"stopping", "starting"}
    /\ (w.step = "stopping") = (torrent[w.old] = "stopped")
    /\ w' = [w EXCEPT !.step = IF w.step = "stopping" THEN "replace" ELSE "clear"]
    /\ UNCHANGED <<env, gate, stored, left, row, asked, posted, late, ghosts, faults, pauses>>

\* Its readback: the effect, or "source completed during stop". Five seconds without
\* either are a fault.
Confirm ==
    LET completed == w.step = "stopping" /\ left[w.old] = 0
    IN  /\ w.step \in {"stopping", "starting"}
        /\ completed \/ (w.step = "stopping") = (torrent[w.old] = "stopped")
        /\ w' = IF completed THEN Idle
                ELSE [w EXCEPT !.step = IF w.step = "stopping" THEN "replace" ELSE "clear"]
        /\ UNCHANGED <<env, gate, stored, left, row, asked, posted, late, ghosts, faults, pauses>>

HandleLate(call, c) ==
    /\ <<call, c>> \in late /\ late' = late \ {<<call, c>>}
    /\ Effect(call, c)
    /\ UNCHANGED <<env, expired, stored, left, row, asked, posted, w, faults, pauses>>

\* The Arr posts what it was asked to grab.
Grab(c) ==
    /\ c \in asked /\ asked' = asked \ {c}
    /\ Effect("add", c)
    /\ UNCHANGED <<env, expired, stored, left, row, posted, w, late, faults, pauses>>

\* The Arr forgets it.
Drop(c) ==
    /\ c \in asked /\ asked' = asked \ {c} /\ faults < MaxFaults /\ faults' = faults + 1
    /\ UNCHANGED <<env, gate, stored, left, row, posted, w, late, ghosts, pauses>>

\* The gateway loses the answer of an add: `unknown`, whatever qBittorrent did.
LoseAdd(c) ==
    /\ \/ w.call = "add" /\ c = w.new /\ w' = Idle /\ UNCHANGED asked
       \/ c \in asked /\ asked' = asked \ {c} /\ UNCHANGED w
    /\ Accepts("add", c) /\ late = {} /\ faults < MaxFaults /\ faults' = faults + 1
    /\ permit' = [permit EXCEPT ![c] = "unknown"]
    /\ Appears(c) \/ UNCHANGED <<torrent, ghosts>>
    /\ UNCHANGED <<env, expired, told, stored, left, row, posted, late, pauses>>

\* A call or a read fails, the worker dies or is restarted: what it sent may arrive
\* later, what it remembered is lost with the process. The torrent store does not fail
\* by itself.
Fault ==
    /\ w.step # "idle" /\ faults < MaxFaults /\ faults' = faults + 1
    /\ \/ w' = Idle /\ posted' \in {FALSE} \cup (IF w.step = "put" THEN {} ELSE {posted})
       \/ w.step = "replace" /\ w' = ToResume /\ UNCHANGED posted
    /\ late' \in {late} \cup (IF w.call = "none" THEN {} ELSE {late \cup {<<w.call, Target>>}})
    /\ UNCHANGED <<env, gate, stored, left, row, asked, ghosts, pauses>>

-----------------------------------------------------------------------------
(* Time, qBittorrent, the indexers, the operator *)

Older(n) == IF n < Horizon THEN n + 1 ELSE n
Current(c) == permit[c] \in {"unknown", "confirmed"}
Downloading(c) == torrent[c] = "downloading" /\ left[c] > 0

\* A source that has peers does not stay without a byte for as long as a stalled one.
Tick ==
    /\ \A c \in Sources \ Dead : Current(c) /\ Downloading(c) => lull + 1 < Stalled
    /\ row' = IF row.on THEN [row EXCEPT !.still = Older(@), !.age = Older(@)] ELSE row
    /\ quiet' = Older(quiet)
    /\ lull' = IF \E c \in Sources : Current(c) /\ Downloading(c) THEN Older(lull) ELSE 0
    /\ UNCHANGED <<env, gate, stored, left, asked, posted, w, late, faults, pauses>>

Progress(c) ==
    /\ Downloading(c) /\ c \notin Dead
    /\ left' = [left EXCEPT ![c] = @ - 1]
    /\ IF Current(c) THEN quiet' = 0 /\ lull' = 0 ELSE UNCHANGED ghosts
    /\ UNCHANGED <<env, gate, stored, row, asked, posted, w, late, faults, pauses>>

\* qBittorrent stops or starts what it was told to.
Obey(c) ==
    /\ c \in told /\ told' = told \ {c} /\ lull' = 0
    /\ torrent' = [torrent EXCEPT ![c] = IF @ = "stopped" THEN "downloading" ELSE "stopped"]
    /\ UNCHANGED <<env, permit, expired, stored, left, row, asked, posted, w, late, quiet, faults,
                   pauses>>

\* qBittorrent's own queue; it does not hold a torrent back again and again for ever.
Wait(c) ==
    /\ Downloading(c) /\ pauses < MaxPauses /\ pauses' = pauses + 1
    /\ torrent' = [torrent EXCEPT ![c] = "queued"]
    /\ lull' = IF Current(c) THEN 0 ELSE lull
    /\ UNCHANGED <<env, permit, expired, told, stored, left, row, asked, posted, w, late, quiet, faults>>
Advance(c) ==
    /\ torrent[c] = "queued" /\ torrent' = [torrent EXCEPT ![c] = "downloading"]
    /\ UNCHANGED <<env, permit, expired, told, stored, left, row, asked, posted, w, late, ghosts,
                   faults, pauses>>

\* `_reconcile_existing_queue`: an episode outside the window, or one without space, is told
\* to stop and to start again.
Pause(c) ==
    /\ ~ Movie /\ Visit /\ permit[c] = "confirmed" /\ left[c] > 0 /\ torrent[c] # "stopped"
    /\ c \notin told /\ told' = told \cup {c} /\ pauses < MaxPauses /\ pauses' = pauses + 1
    /\ UNCHANGED <<env, permit, expired, torrent, stored, left, row, asked, posted, w, late, ghosts,
                   faults>>
Unpause(c) ==
    /\ ~ Movie /\ Visit /\ permit[c] = "confirmed" /\ left[c] > 0 /\ torrent[c] = "stopped" /\ room
    /\ c \notin told /\ told' = told \cup {c}
    /\ UNCHANGED <<env, permit, expired, torrent, stored, left, row, asked, posted, w, late, ghosts,
                   faults, pauses>>

\* Half an hour is enough for a dispatch under way; the Arr rarely takes longer.
Expire ==
    /\ ~ expired /\ expired' = TRUE /\ w.step = "idle"
    /\ \E c \in Sources : permit[c] = "authorized"
    /\ \/ asked = {} /\ UNCHANGED faults
       \/ faults < MaxFaults /\ faults' = faults + 1
    /\ UNCHANGED <<env, permit, queue, stored, left, row, asked, posted, w, late, ghosts, pauses>>

Environment ==
    /\ \/ room' = ~ room /\ UNCHANGED <<wanted, offered>>
       \/ wanted /\ wanted' = FALSE /\ UNCHANGED <<room, offered>>
       \/ \E c \in Sources : /\ offered' = IF c \in offered THEN offered \ {c} ELSE offered \cup {c}
                             /\ UNCHANGED <<wanted, room>>
    /\ UNCHANGED <<gate, stored, left, row, asked, posted, w, late, ghosts, faults, pauses>>

Work ==
    \/ \E c \in Sources : \/ Look(c) \/ Begin(c) \/ Retire(c) \/ Issue(c) \/ Again(c)
                          \/ Retry(c) \/ Reconcile(c)
    \/ GiveUp \/ Replace \/ Resume \/ Clear \/ Put \/ Post \/ Renew

Next ==
    \/ Work \/ Handle \/ Confirm \/ Fault \/ Tick \/ Expire \/ Environment
    \/ \E call \in Calls, c \in Sources : HandleLate(call, c)
    \/ \E c \in Sources : \/ Grab(c) \/ Drop(c) \/ LoseAdd(c) \/ Progress(c) \/ Wait(c) \/ Advance(c)
                          \/ Pause(c) \/ Unpause(c) \/ Obey(c)

Spec == Init /\ [][Next]_vars

\* The worker's visits go on, requests are answered, time passes, qBittorrent does what it
\* was told, live torrents progress, the queue moves and the Arr posts what it was asked for.
FairSpec ==
    /\ Spec /\ WF_vars(Work) /\ WF_vars(Tick) /\ WF_vars(Expire)
    /\ WF_vars(Handle \/ Confirm \/ \E call \in Calls, c \in Sources : HandleLate(call, c))
    /\ \A c \in Sources : /\ WF_vars(Grab(c)) /\ WF_vars(Advance(c)) /\ WF_vars(Unpause(c)) /\ WF_vars(Obey(c))
                          /\ SF_vars(Progress(c))

-----------------------------------------------------------------------------
(* Properties *)

\* `replace_confirmed` and `renew_replacement_authorized` look at every former source: a
\* torrent is only ever added beside stopped ones, whatever was switched off or restarted.
NewcomerAlone ==
    [][\A c, d \in Sources : torrent[c] = "absent" /\ torrent'[c] # "absent" /\ c # d
            => torrent[d] \in {"absent", "stopped"}]_vars

\* A source that completes while its replacement is under way, before the stop it was told is
\* in force, is kept: its permit is never superseded (`source completed during stop`, app.py).
CompleteIsKept ==
    [][\A c \in Sources : left[c] = 0 /\ permit[c] = "confirmed" => permit'[c] = "confirmed"]_vars

\* docs/superpowers/specs/2026-09-21-homeserver-design.md:328: five minutes without progress
\* start the search, whatever the worker missed of them.
StallIsReal == [][w.step = "idle" /\ w'.reason = "stalled" => quiet >= Stalled]_vars

\* docs/superpowers/specs/2026-09-21-homeserver-design.md:564: with an eligible source and
\* room the request is served without intervention, by the source the finalizers import, the
\* confirmed one; an add whose torrent is missing is reported for manual reconciliation. A
\* handover left from live trials must have stopped its former source.
Served == \E c \in Sources : permit[c] = "confirmed" /\ left[c] = 0
Uncertain == \E c \in Sources : permit[c] = "unknown" /\ torrent[c] = "absent"
Fresh == \E c \in Sources \ Dead : permit[c] # "superseded"
Arrives ==
    <>[](wanted /\ room /\ offered = Sources /\ Fresh /\ AllStopped(Former)) => <>(Served \/ Uncertain)
=============================================================================
