----------------------------- MODULE SourceTrial -----------------------------
(***************************************************************************)
(* The live trial of a candidate beside the confirmed source of a slot. The *)
(* worker measures both transfers in a durable row of `source_probes` and    *)
(* asks the gateway to promote or to reject; the gateway repeats its own     *)
(* checks, changes the permits and stops the loser.  Either program may die  *)
(* between two steps and a request of a worker that died or gave up may      *)
(* still arrive.  qBittorrent queues and finishes torrents as it likes, the  *)
(* operator pauses and resumes them, and the worker may not look for as long *)
(* as it likes.  qBittorrent applies a stop some time after it accepted it:  *)
(* the gateway asks, waits and reads again, and serves other requests while  *)
(* it waits.  A torrent never loses what it downloaded.                      *)
(***************************************************************************)
EXTENDS Naturals

CONSTANTS
    Size,               \* bytes left of either torrent when the trial begins
    MaxRate,            \* bytes a torrent can move in one unit of time
    StallTime,          \* stalled_seconds
    ProbeTime,          \* probe_seconds
    ProofAge,           \* max_age_seconds of `probe_verified_faster`
    SlowRate,           \* slow_bytes_per_second
    GainNum, GainDen,   \* min_eta_gain = GainNum / GainDen
    SlowReplacement,    \* slow_replacement_enabled
    Expiry              \* the candidate's expires_at; time is not counted further

ASSUME TrialAssumption ==
    /\ {Size, MaxRate, StallTime, ProbeTime, ProofAge, Expiry} \subseteq Nat \ {0}
    /\ SlowRate \in Nat /\ GainNum \in Nat /\ GainDen \in Nat /\ GainNum < GainDen
    /\ SlowReplacement \in BOOLEAN

VARIABLES
    now,
    left,        \* amount_left of the source ("old") and of the candidate ("new")
    run,         \* in qBittorrent: on, waiting (for a slot or the operator), stopped by the gateway
    metadata,    \* the candidate's metadata has arrived: it is not metaDL
    wanted,      \* `probe_reservation_active`
    candidate,   \* the permits: on trial, handover pending or complete, or rejected
    trial,       \* the candidate's row in source_probes
    asked,       \* the decisions on their way to the gateway
    told,        \* the torrents qBittorrent was told to stop and has not stopped yet
    call,        \* where the gateway's handlers are: see Calls
    proof        \* the row a promotion rests on, from its check to its transaction

world == <<left, run, metadata>>
vars == <<now, left, run, metadata, wanted, candidate, trial, asked, told, call, proof>>

Torrents == {"old", "new"}
NoRow == [decision |-> "none"]
Final == {"promote", "reject"}

\* Waiting for the candidate ("new") or the source ("old") to be stopped, having read both
\* torrents for a promotion ("read"), about to stop the source ("stop") or both ("both").
Calls == {"new", "old", "read", "stop", "both"}
Rows == [decision : {"starting", "observing"} \cup Final, start : 0 .. Expiry,
         seen : 0 .. Expiry, oldLeft : 0 .. Size, newLeft : 0 .. Size]

\* Everything has its type: the permits' states, the row, the requests, the handlers.
TypeOK ==
    /\ now \in 0 .. Expiry /\ wanted \in BOOLEAN /\ metadata \in BOOLEAN
    /\ left \in [Torrents -> 0 .. Size]
    /\ run \in [Torrents -> {"on", "waiting", "stopped"}]
    /\ candidate \in {"trial", "handover", "promoted", "rejected", "cancelled"}
    /\ trial \in Rows \cup {NoRow}
    /\ asked \subseteq Final /\ told \subseteq Torrents
    /\ call \subseteq Calls /\ proof \in Rows \cup {NoRow}

\* `_start_probe`: the candidate was just added, the source is downloading.
Init ==
    /\ now = 0 /\ wanted = TRUE /\ metadata \in BOOLEAN
    /\ left = [t \in Torrents |-> Size]
    /\ \E r \in {"on", "waiting"} : run = [t \in Torrents |-> IF t = "old" THEN "on" ELSE r]
    /\ candidate = "trial" /\ trial = NoRow /\ asked = {}
    /\ told = {} /\ call = {} /\ proof = NoRow

Done(t) == left[t] = 0
Active(t) == run[t] = "on" /\ ~ Done(t) /\ (t = "new" => metadata)
Fetching == run["new"] = "on" /\ ~ metadata
Started == left["new"] < Size

-----------------------------------------------------------------------------
(* qBittorrent, the operator and the user *)

\* No unit of time passes between the check of the measurement and the transaction.
Tick ==
    /\ now < Expiry /\ proof = NoRow
    /\ now' = now + 1
    /\ \E o, n \in 0 .. MaxRate :
           /\ o > 0 => Active("old") /\ o <= left["old"]
           /\ n > 0 => Active("new") /\ n <= left["new"]
           /\ left' = [t \in Torrents |-> IF t = "old" THEN left[t] - o ELSE left[t] - n]
    /\ UNCHANGED <<run, metadata, wanted, candidate, trial, asked, told, call, proof>>

\* A place in the queue, or a hand on the torrent: it resumes what the gateway stopped, too.
Switch(t) ==
    /\ run' = [run EXCEPT ![t] = IF @ = "on" THEN "waiting" ELSE "on"]
    /\ UNCHANGED <<now, left, metadata, wanted, candidate, trial, asked, told, call, proof>>

\* qBittorrent stops what it was told to stop.
Obey(t) ==
    /\ t \in told
    /\ run' = [run EXCEPT ![t] = "stopped"] /\ told' = told \ {t}
    /\ UNCHANGED <<now, left, metadata, wanted, candidate, trial, asked, call, proof>>

Metadata ==
    /\ Fetching
    /\ metadata' = TRUE
    /\ UNCHANGED <<now, left, run, wanted, candidate, trial, asked, told, call, proof>>

\* The request is withdrawn or the media tombstoned.
Withdraw ==
    /\ wanted /\ wanted' = FALSE
    /\ UNCHANGED <<now, world, candidate, trial, asked, told, call, proof>>

-----------------------------------------------------------------------------
(* The worker: `_monitor_probe` and `probe_decision` *)

\* Reasons not to replace the source now; they leave no mark in the row. A source
\* `idle` has no seeds and no speed; one that is `fast` has recovered.
SourceStays(idle, fast) == ~ Active("old") \/ fast \/ (~ SlowReplacement /\ ~ idle)

\* The candidate waits for a slot or for the operator: that is not the swarm's failure.
CandidateWaits == ~ Done("new") /\ run["new"] # "on"
Decided == trial.decision \in Final
Forgotten == trial.decision = "observing" /\ now - trial.seen > 2 * ProbeTime

\* No payload yet; the candidate may be connecting already.
Starting(moving) == Fetching \/ (~ Done("new") /\ ~ Started /\ ~ moving)

Elapsed == now - trial.start
OldMoved == trial.oldLeft - left["old"]
NewMoved == trial.newLeft - left["new"]

\* Faster, and sooner finished by the configured gain; a stalled source never finishes.
Better ==
    /\ OldMoved < SlowRate * Elapsed \/ SlowRate = 0
    /\ NewMoved > OldMoved
    /\ OldMoved = 0 \/ left["new"] * OldMoved * GainDen
                         <= left["old"] * NewMoved * (GainDen - GainNum)

Measured ==
    IF Elapsed < ProbeTime THEN "observing" ELSE IF Better THEN "promote" ELSE "reject"

\* The window of a candidate that starts to move includes what starting took.
Judged(moving) ==
    IF trial.decision = "starting" /\ Starting(moving)
    THEN IF Elapsed >= StallTime THEN "reject" ELSE "starting"
    ELSE Measured

\* Only a final decision is sent.
Send(decision) == asked' = asked \cup ({decision} \cap Final)

Wait == trial' = NoRow /\ UNCHANGED asked
Repeat == Send(trial.decision) /\ UNCHANGED trial
Begin(moving) ==
    /\ trial' = [decision |-> IF Starting(moving) THEN "starting" ELSE "observing",
                 start |-> now, seen |-> now, oldLeft |-> left["old"], newLeft |-> left["new"]]
    /\ UNCHANGED asked
Judge(moving) ==
    /\ trial' = [trial EXCEPT !.seen = now, !.decision = Judged(moving)]
    /\ Send(Judged(moving))

\* `probe_decision`, on the two readings just taken.
Decide(idle, fast, moving) ==
    \/ SourceStays(idle, fast) /\ Send("reject") /\ UNCHANGED trial
    \/ /\ ~ SourceStays(idle, fast)
       /\ \/ CandidateWaits /\ Wait
          \/ ~ CandidateWaits /\ Decided /\ Repeat
          \/ ~ CandidateWaits /\ (trial = NoRow \/ Forgotten) /\ Begin(moving)
          \/ ~ CandidateWaits /\ trial # NoRow /\ ~ Decided /\ ~ Forgotten /\ Judge(moving)

TooLateIfUnwanted == ~ wanted   \* mutant
\* The candidate may no longer be promoted, whatever the transfers do.
TooLate == ~ wanted \/ now = Expiry

\* One look at the trial. A pending handover is repeated, whatever the transfers do.
Monitor ==
    /\ \/ candidate = "handover" /\ Send("promote") /\ UNCHANGED trial
       \/ candidate = "trial" /\ TooLate /\ Send("reject") /\ UNCHANGED trial
       \/ /\ candidate = "trial" /\ ~ TooLate
          /\ \E idle, fast, moving \in BOOLEAN : Decide(idle, fast, moving)
    /\ UNCHANGED <<now, world, wanted, candidate, told, call, proof>>

\* The disk has no room for both torrents any more.
NoRoom ==
    /\ "promote" \in asked /\ candidate = "trial"
    /\ asked' = (asked \ {"promote"}) \cup {"reject"}
    /\ UNCHANGED <<now, world, wanted, candidate, trial, told, call, proof>>

\* The request does not arrive, or the gateway refuses it.
Lose ==
    /\ \E d \in asked : asked' = asked \ {d}
    /\ UNCHANGED <<now, world, wanted, candidate, trial, told, call, proof>>

-----------------------------------------------------------------------------
(* The gateway: `probe_decision` in app.py *)

\* One program with one loop: while a handler does not wait no other one runs.
Idle == proof = NoRow /\ call \cap {"read", "stop", "both"} = {}

\* The torrents are told to stop; one that is stopped already needs nothing more.
Tell(torrents) == told' = told \cup {t \in torrents : run[t] # "stopped"}

\* The candidate's permit still names the source it is compared with.
OnTrial == candidate \in {"trial", "rejected"}

RejectAny ==   \* mutant
    /\ "reject" \in asked /\ Idle
    /\ Tell({"new"})
    /\ asked' = asked \ {"reject"} /\ call' = call \cup {"new"}
    /\ UNCHANGED <<now, world, wanted, candidate, trial, proof>>

\* "reject": the candidate is told to stop ...
Reject ==
    /\ "reject" \in asked /\ Idle /\ OnTrial
    /\ Tell({"new"})
    /\ asked' = asked \ {"reject"} /\ call' = call \cup {"new"}
    /\ UNCHANGED <<now, world, wanted, candidate, trial, proof>>

ConfirmAnyReject ==   \* mutant
    /\ "new" \in call /\ Idle /\ run["new"] = "stopped"
    /\ candidate' = "rejected" /\ call' = call \ {"new"}
    /\ UNCHANGED <<now, world, wanted, trial, asked, told, proof>>

\* ... and its permit, if it is still the one on trial, is rejected when it has.
ConfirmReject ==
    /\ "new" \in call /\ Idle /\ run["new"] = "stopped" /\ OnTrial
    /\ candidate' = "rejected" /\ call' = call \ {"new"}
    /\ UNCHANGED <<now, world, wanted, trial, asked, told, proof>>

FreshForEver == trial.decision = "promote"   \* mutant
Fresh == trial.decision = "promote" /\ now - trial.seen <= ProofAge
Running == run["new"] = "on" /\ metadata

\* "promote": both torrents are read, and must still be worth it ...
Read ==
    /\ "promote" \in asked /\ Idle /\ candidate = "trial" /\ wanted
    /\ Running /\ Active("old") /\ Started
    /\ asked' = asked \ {"promote"} /\ call' = call \cup {"read"}
    /\ UNCHANGED <<now, world, wanted, candidate, trial, told, proof>>

\* ... after the disk was measured the row must prove it ...
Verify ==
    /\ "read" \in call /\ Fresh
    /\ proof' = trial /\ call' = call \ {"read"}
    /\ UNCHANGED <<now, world, wanted, candidate, trial, asked, told>>

\* ... and the permits change hands in one transaction.
Promote ==
    /\ proof # NoRow /\ candidate = "trial" /\ wanted
    /\ candidate' = "handover" /\ proof' = NoRow /\ call' = call \cup {"stop"}
    /\ UNCHANGED <<now, world, wanted, trial, asked, told>>

\* They did so before the handler or the worker failed.
Resume ==
    /\ "promote" \in asked /\ Idle /\ candidate = "handover" /\ wanted
    /\ Running
    /\ asked' = asked \ {"promote"} /\ call' = call \cup {"stop"}
    /\ UNCHANGED <<now, world, wanted, candidate, trial, told, proof>>

\* "promote" of what is not wanted any more: the candidate stops, and the source too if
\* the handover was already committed.
Refuse ==
    /\ "promote" \in asked /\ Idle /\ ~ wanted /\ (OnTrial \/ candidate = "handover")
    /\ Tell({"new"})
    /\ asked' = asked \ {"promote"}
    /\ call' = IF candidate = "handover" THEN call \cup {"both"} ELSE call
    /\ UNCHANGED <<now, world, wanted, candidate, trial, proof>>

\* The source is told to stop; the handover is complete when it has. A handler that
\* stops both does not wait for it.
StopSource ==
    /\ call \cap {"stop", "both"} # {}
    /\ Tell({"old"})
    /\ call' = IF "stop" \in call THEN (call \ {"stop"}) \cup {"old"} ELSE call
    /\ UNCHANGED <<now, world, wanted, candidate, trial, asked, proof>>
CompleteHandover ==
    /\ "old" \in call /\ Idle /\ candidate = "handover" /\ run["old"] = "stopped"
    /\ candidate' = "promoted" /\ call' = call \ {"old"}
    /\ UNCHANGED <<now, world, wanted, trial, asked, told, proof>>
CancelHandover ==
    /\ "both" \in call /\ candidate = "handover"
    /\ \A t \in Torrents : run[t] = "stopped"
    /\ candidate' = "cancelled" /\ call' = call \ {"both"}
    /\ UNCHANGED <<now, world, wanted, trial, asked, told, proof>>

\* A handler ends: the gateway dies, qBittorrent fails, a check does not hold any more, or
\* the stop is not confirmed in time. What qBittorrent was told it still does.
Abort ==
    /\ \/ UNCHANGED proof /\ \E h \in call : call' = call \ {h}
       \/ proof # NoRow /\ proof' = NoRow /\ UNCHANGED call
    /\ UNCHANGED <<now, world, wanted, candidate, trial, asked, told>>

Gateway == \/ Reject \/ ConfirmReject \/ Read \/ Verify \/ Promote \/ Resume \/ Refuse
           \/ StopSource \/ CompleteHandover \/ CancelHandover \/ Abort

Next == \/ Tick \/ (\E t \in Torrents : Switch(t) \/ Obey(t)) \/ Metadata \/ Withdraw
        \/ Monitor \/ NoRoom \/ Lose \/ Gateway
Spec == Init /\ [][Next]_vars

\* Time, the worker's loop and the handler's deadline always come; a rejection that is asked for
\* again and again is not lost for ever, nor does qBittorrent stop the candidate, or the
\* handler look at it, only after the deadline of every single rejection.
ObeyPolled == "new" \in call /\ Obey("new")
Fairness == /\ SF_vars(Tick) /\ WF_vars(Monitor) /\ WF_vars(Abort)
            /\ SF_vars(Reject) /\ SF_vars(ObeyPolled) /\ SF_vars(ConfirmReject)
FairSpec == Spec /\ Fairness

-----------------------------------------------------------------------------
(* What the trial promises *)

\* Whatever request arrives late: until a handover is committed nobody has stopped the
\* source or told it to stop ("the primary transfer stays active until promotion",
\* source_probe.py:1), and from then on nobody tells the chosen candidate to, unless the
\* media is not wanted any more. One that was told before may still stop: see the README.
LoserGivesWay ==
    [][/\ OnTrial' => "old" \notin told' /\ run'["old"] # "stopped"
       /\ wanted /\ ~ OnTrial /\ "new" \notin told => "new" \notin told']_vars

\* A source gives way only to a candidate whose row, as the gateway checked it, shows a
\* whole window, no longer than ProofAge ago, and which downloaded in it: what the worker
\* measured and what the gateway checks, at different times, together.
HandoverIsProven ==
    [][(candidate = "trial" /\ candidate' = "handover") =>
          /\ proof.decision = "promote"
          /\ proof.seen - proof.start >= ProbeTime /\ now - proof.seen <= ProofAge
          /\ left["new"] < proof.newLeft]_vars

\* A permit that was rejected, or whose handover ended, never changes again: a late or
\* repeated request finds nothing to do (`promote_probe` and `reject_probe`).
VerdictStands ==
    [][(candidate \in {"promoted", "rejected", "cancelled"}) => candidate' = candidate]_vars

\* Every trial ends: by a handover, by a rejection at the latest after the candidate's
\* permit has expired, or because the media is not wanted any more.
TrialEnds == (candidate = "trial" /\ wanted) ~> (candidate # "trial" \/ ~ wanted)

\* The name of a test says that a worker's gap is no proof of speed
\* (`test_probe_old_pause_recovery_and_worker_gap_are_not_speed_proof`): what is
\* decided after more than two windows without a look is not a promotion.
GapIsNoProof ==
    [][(trial.decision # "promote" /\ trial'.decision = "promote")
          => now - trial.seen <= 2 * ProbeTime]_vars
=============================================================================
