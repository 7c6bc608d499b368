-------------------------- MODULE SourceTrialProofs --------------------------
(***************************************************************************)
(* For every speed, window, threshold and expiry: nobody stops the source   *)
(* before a handover or the chosen candidate after it, a source gives way   *)
(* only to a proven candidate, and a verdict stands.                        *)
(***************************************************************************)
EXTENDS SourceTrial, TLAPS

\* Until a handover is committed nobody stops the source or is about to.
Untouched == OnTrial => /\ run["old"] # "stopped" /\ "old" \notin told
                        /\ call \cap {"old", "stop", "both"} = {}

\* What a row says of its window is still true, and a promotion was earned in it.
RowSound ==
    trial \in Rows =>
        /\ left["old"] <= trial.oldLeft /\ left["new"] <= trial.newLeft
        /\ trial.start <= trial.seen /\ trial.seen <= now
        /\ trial.decision = "promote" =>
               trial.seen - trial.start >= ProbeTime /\ left["new"] < trial.newLeft

\* The row a promotion was checked against still proves it when the permits change hands,
\* whatever the worker has made of it since.
ProofSound ==
    proof # NoRow =>
        /\ proof.decision = "promote"
        /\ proof.seen - proof.start >= ProbeTime /\ now - proof.seen <= ProofAge
        /\ proof.newLeft \in Nat /\ left["new"] < proof.newLeft

TInv == TypeOK /\ Untouched /\ RowSound /\ ProofSound

\* A row is told from the absence of one by its decision.
LEMMA RowIsNotNone == NoRow \notin Rows
<1>1. SUFFICES ASSUME NoRow \in Rows PROVE FALSE
  OBVIOUS
<1>2. NoRow.decision \in {"starting", "observing"} \cup Final
  BY <1>1 DEF Rows
<1>3. NoRow.decision = "none"
  BY DEF NoRow
<1> QED
  BY <1>2, <1>3 DEF Final

\* The first look leaves a row that measures from now on.
LEMMA BeginIsSound ==
    ASSUME TypeOK, NEW moving \in BOOLEAN, Begin(moving)
    PROVE  /\ trial' \in Rows /\ trial'.start = now /\ trial'.seen = now
           /\ trial'.oldLeft = left["old"] /\ trial'.newLeft = left["new"]
           /\ trial'.decision \in {"starting", "observing"}
           /\ asked' = asked
  BY DEF Begin, TypeOK, Rows, Torrents, Starting

\* A judgement keeps the window and says promote only of one that earned it.
LEMMA JudgeIsSound ==
    ASSUME TrialAssumption, TypeOK, RowSound, trial \in Rows,
           NEW moving \in BOOLEAN, Judge(moving)
    PROVE  /\ trial' \in Rows /\ trial'.start = trial.start /\ trial'.seen = now
           /\ trial'.oldLeft = trial.oldLeft /\ trial'.newLeft = trial.newLeft
           /\ trial'.decision = "promote" =>
                  now - trial.start >= ProbeTime /\ left["new"] < trial.newLeft
           /\ asked' \subseteq Final
<1> DEFINE d == Judged(moving)
<1>1. d \in {"starting", "observing", "promote", "reject"}
  BY DEF Judged, Measured
<1>2. d = "promote" => ~ (Elapsed < ProbeTime) /\ Better
  BY DEF Judged, Measured
<1>3. trial' = [trial EXCEPT !.seen = now, !.decision = d] /\ asked' = asked \cup ({d} \cap Final)
  BY DEF Judge, Send
<1>4. /\ trial' \in Rows /\ trial'.start = trial.start /\ trial'.seen = now
      /\ trial'.oldLeft = trial.oldLeft /\ trial'.newLeft = trial.newLeft
      /\ trial'.decision = d
  <2> HIDE DEF d
  <2> QED
    BY <1>1, <1>3 DEF TypeOK, Rows, Final
<1>5. Better => left["new"] < trial.newLeft
  <2>1. /\ left["old"] \in Nat /\ left["new"] \in Nat /\ trial.oldLeft \in Nat /\ trial.newLeft \in Nat
        /\ left["old"] <= trial.oldLeft
    BY DEF TrialAssumption, TypeOK, Torrents, Rows, RowSound
  <2>2. Better => trial.newLeft - left["new"] > trial.oldLeft - left["old"]
    BY DEF Better, NewMoved, OldMoved
  <2> QED
    BY <2>1, <2>2
<1>6. ~ (Elapsed < ProbeTime) => now - trial.start >= ProbeTime
  BY DEF Elapsed, TypeOK, Rows, TrialAssumption
<1>7. asked' \subseteq Final
  BY <1>3 DEF TypeOK
<1> HIDE DEF d
<1> QED
  BY <1>2, <1>4, <1>5, <1>6, <1>7

\* Whatever it reads, a look leaves no row, the same row, a new one or a judged one.
LEMMA MonitorCases ==
    ASSUME Monitor
    PROVE  \/ UNCHANGED trial /\ \E d \in Final : asked' = asked \cup {d}
           \/ trial' = NoRow /\ UNCHANGED asked
           \/ \E moving \in BOOLEAN : Begin(moving)
           \/ trial # NoRow /\ \E moving \in BOOLEAN : Judge(moving)
<1>1. CASE candidate = "handover" /\ Send("promote") /\ UNCHANGED trial
  BY <1>1 DEF Send, Final
<1>2. CASE candidate = "trial" /\ TooLate /\ Send("reject") /\ UNCHANGED trial
  BY <1>2 DEF Send, Final
<1>3. CASE candidate = "trial" /\ ~ TooLate
           /\ \E idle, fast, moving \in BOOLEAN : Decide(idle, fast, moving)
  <2>1. PICK idle, fast, moving \in BOOLEAN : Decide(idle, fast, moving)
    BY <1>3
  <2>2. CASE SourceStays(idle, fast) /\ Send("reject") /\ UNCHANGED trial
    BY <2>2 DEF Send, Final
  <2>3. CASE CandidateWaits /\ Wait
    BY <2>3 DEF Wait
  <2>4. CASE Decided /\ Repeat
    BY <2>4 DEF Decided, Repeat, Send, Final
  <2>5. CASE Begin(moving)
    BY <2>5
  <2>6. CASE trial # NoRow /\ Judge(moving)
    BY <2>6
  <2> QED
    BY <2>1, <2>2, <2>3, <2>4, <2>5, <2>6 DEF Decide
<1> QED
  BY <1>1, <1>2, <1>3 DEF Monitor

\* The first state: nothing was stopped, asked or measured.
LEMMA TInvInit == Init => TInv
<1> SUFFICES ASSUME Init PROVE TInv
  OBVIOUS
<1>2. TypeOK
  <2>1. left \in [Torrents -> 0 .. Size]
    BY TrialAssumption DEF Init, TrialAssumption, Torrents
  <2>2. run \in [Torrents -> {"on", "waiting", "stopped"}]
    BY DEF Init, Torrents
  <2>3. now \in 0 .. Expiry
    BY TrialAssumption DEF Init, TrialAssumption
  <2> QED
    BY <2>1, <2>2, <2>3 DEF Init, TypeOK
<1>3. Untouched
  <2>1. run["old"] = "on"
    BY DEF Init, Torrents
  <2> QED
    BY <2>1 DEF Init, Untouched
<1>4. RowSound /\ ProofSound
  BY RowIsNotNone DEF Init, RowSound, ProofSound
<1> QED
  BY <1>2, <1>3, <1>4 DEF TInv

\* A look disturbs the row and the requests only.
LEMMA MonitorKeeps == TrialAssumption /\ TInv /\ Monitor => TInv'
<1>1. SUFFICES ASSUME TrialAssumption, TInv, Monitor PROVE TInv'
  OBVIOUS
<1>2. /\ UNCHANGED <<now, left, run, metadata, wanted, candidate, told, call, proof>>
      /\ TypeOK /\ RowSound
  BY <1>1 DEF Monitor, TInv, world
<1>3. trial' \in Rows \cup {NoRow} /\ asked' \subseteq Final /\ RowSound'
  <2>1. CASE UNCHANGED trial /\ \E d \in Final : asked' = asked \cup {d}
    BY <1>2, <2>1 DEF TypeOK, RowSound
  <2>2. CASE trial' = NoRow /\ UNCHANGED asked
    BY <1>2, <2>2, RowIsNotNone DEF TypeOK, RowSound
  <2>3. CASE \E moving \in BOOLEAN : Begin(moving)
    <3>1. /\ trial' \in Rows /\ trial'.start = now /\ trial'.seen = now
          /\ trial'.oldLeft = left["old"] /\ trial'.newLeft = left["new"]
          /\ trial'.decision \in {"starting", "observing"} /\ asked' = asked
      BY <1>2, <2>3, BeginIsSound
    <3>2. now \in Nat /\ left["old"] \in Nat /\ left["new"] \in Nat
      BY <1>1, <1>2 DEF TrialAssumption, TypeOK, Torrents
    <3>3. RowSound'
      BY <1>2, <3>1, <3>2 DEF RowSound
    <3> QED
      BY <1>2, <3>1, <3>3 DEF TypeOK
  <2>4. CASE trial # NoRow /\ \E moving \in BOOLEAN : Judge(moving)
    <3>0. trial \in Rows
      BY <1>2, <2>4 DEF TypeOK
    <3>1. /\ trial' \in Rows /\ trial'.start = trial.start /\ trial'.seen = now
          /\ trial'.oldLeft = trial.oldLeft /\ trial'.newLeft = trial.newLeft
          /\ trial'.decision = "promote" =>
                 now - trial.start >= ProbeTime /\ left["new"] < trial.newLeft
          /\ asked' \subseteq Final
      BY <1>1, <1>2, <2>4, <3>0, JudgeIsSound
    <3>2. now \in Nat /\ trial.start \in Nat /\ trial.seen \in Nat
      BY <1>1, <1>2, <3>0 DEF TrialAssumption, TypeOK, Rows
    <3>3. RowSound'
      BY <1>2, <3>0, <3>1, <3>2 DEF RowSound
    <3> QED
      BY <3>1, <3>3
  <2> QED
    BY <1>1, <2>1, <2>2, <2>3, <2>4, MonitorCases
<1>4. TypeOK'
  BY <1>2, <1>3 DEF TypeOK
<1>5. Untouched' /\ ProofSound'
  BY <1>1, <1>2 DEF TInv, Untouched, OnTrial, ProofSound
<1> QED
  BY <1>3, <1>4, <1>5 DEF TInv

\* Time passes, and what is downloaded never comes back.
LEMMA TickKeeps == TrialAssumption /\ TInv /\ Tick => TInv'
<1>1. SUFFICES ASSUME TrialAssumption, TInv, Tick PROVE TInv'
  OBVIOUS
<1>2. /\ UNCHANGED <<run, metadata, wanted, candidate, trial, asked, told, call, proof>>
      /\ now < Expiry /\ proof = NoRow /\ now' = now + 1 /\ TypeOK /\ RowSound
  BY <1>1 DEF Tick, TInv
<1>3. PICK o, n \in 0 .. MaxRate :
           /\ o > 0 => Active("old") /\ o <= left["old"]
           /\ n > 0 => Active("new") /\ n <= left["new"]
           /\ left' = [t \in Torrents |-> IF t = "old" THEN left[t] - o ELSE left[t] - n]
  BY <1>1 DEF Tick
<1>4. /\ left["old"] \in 0 .. Size /\ left["new"] \in 0 .. Size
      /\ o \in Nat /\ n \in Nat /\ Size \in Nat /\ now \in Nat /\ Expiry \in Nat
  BY <1>1, <1>2 DEF TypeOK, Torrents, TrialAssumption
<1>5. left'["old"] = left["old"] - o /\ left'["new"] = left["new"] - n
  BY <1>3 DEF Torrents
<1>6. left'["old"] \in 0 .. left["old"] /\ left'["new"] \in 0 .. left["new"]
  BY <1>3, <1>4, <1>5
<1>7. left' \in [Torrents -> 0 .. Size]
  BY <1>3, <1>4, <1>5, <1>6 DEF Torrents
<1>8. now' \in 0 .. Expiry
  BY <1>2, <1>4 DEF TypeOK
<1>9. TypeOK'
  BY <1>2, <1>7, <1>8 DEF TypeOK
<1>10. RowSound'
  <2>1. SUFFICES ASSUME trial \in Rows
                 PROVE  /\ left'["old"] <= trial.oldLeft /\ left'["new"] <= trial.newLeft
                        /\ trial.start <= trial.seen /\ trial.seen <= now'
                        /\ trial.decision = "promote" =>
                               trial.seen - trial.start >= ProbeTime /\ left'["new"] < trial.newLeft
    BY <1>2 DEF RowSound
  <2>2. /\ trial.oldLeft \in Nat /\ trial.newLeft \in Nat
        /\ trial.start \in Nat /\ trial.seen \in Nat
    BY <1>4, <2>1 DEF Rows
  <2> QED
    BY <1>2, <1>4, <1>6, <2>1, <2>2 DEF RowSound
<1>11. Untouched' /\ ProofSound'
  BY <1>1, <1>2 DEF TInv, Untouched, OnTrial, ProofSound
<1> QED
  BY <1>9, <1>10, <1>11 DEF TInv

\* Whoever switches or stops a torrent, nothing else changes.
LEMMA RunKeeps ==
    ASSUME TInv, UNCHANGED <<now, left, metadata, wanted, candidate, trial, asked, call, proof>>,
           run' \in [Torrents -> {"on", "waiting", "stopped"}], told' \subseteq told,
           OnTrial => run'["old"] # "stopped"
    PROVE  TInv'
<1>1. TypeOK'
  BY DEF TInv, TypeOK
<1>2. Untouched' /\ RowSound' /\ ProofSound'
  BY DEF TInv, Untouched, OnTrial, RowSound, ProofSound
<1> QED
  BY <1>1, <1>2 DEF TInv

\* The operator and the queue switch torrents on and off but never stop one for the gateway.
LEMMA SwitchKeeps ==
    ASSUME TInv, NEW t \in Torrents, Switch(t)
    PROVE  TInv'
<1>1. /\ UNCHANGED <<now, left, metadata, wanted, candidate, trial, asked, told, call, proof>>
      /\ run' = [run EXCEPT ![t] = IF @ = "on" THEN "waiting" ELSE "on"] /\ TypeOK
  BY DEF Switch, TInv
<1>2. run' \in [Torrents -> {"on", "waiting", "stopped"}]
  BY <1>1 DEF TypeOK
<1>3. OnTrial => run'["old"] # "stopped"
  BY <1>1 DEF TInv, TypeOK, Untouched, Torrents
<1> QED
  BY <1>1, <1>2, <1>3, RunKeeps

\* qBittorrent stops only what it was told to: never the source of a trial.
LEMMA ObeyKeeps ==
    ASSUME TInv, NEW t \in Torrents, Obey(t)
    PROVE  TInv'
<1>1. /\ UNCHANGED <<now, left, metadata, wanted, candidate, trial, asked, call, proof>>
      /\ t \in told /\ told' \subseteq told
      /\ run' = [run EXCEPT ![t] = "stopped"] /\ TypeOK
  BY DEF Obey, TInv
<1>2. run' \in [Torrents -> {"on", "waiting", "stopped"}]
  BY <1>1 DEF TypeOK
<1>3. OnTrial => run'["old"] # "stopped"
  BY <1>1 DEF TInv, TypeOK, Untouched, Torrents
<1> QED
  BY <1>1, <1>2, <1>3, RunKeeps

\* What the gateway tells qBittorrent is of the two torrents, and nothing runs or stops yet.
LEMMA TellKeeps ==
    ASSUME TInv, NEW T \in SUBSET Torrents, Tell(T), "old" \in T => ~ OnTrial,
           UNCHANGED <<now, left, run, metadata, wanted, candidate, trial, proof>>,
           asked' \subseteq Final, call' \subseteq Calls,
           OnTrial => call' \cap {"old", "stop", "both"} = {}
    PROVE  TInv'
<1>1. told' \subseteq Torrents /\ (OnTrial => "old" \notin told')
  BY DEF Tell, TInv, TypeOK, Untouched
<1>2. TypeOK'
  BY <1>1 DEF TInv, TypeOK
<1>3. Untouched' /\ RowSound' /\ ProofSound'
  BY <1>1 DEF TInv, Untouched, OnTrial, RowSound, ProofSound
<1> QED
  BY <1>2, <1>3 DEF TInv

\* A rejection tells the candidate only, a refusal the source only after a handover.
LEMMA StopsKeep == TInv /\ (Reject \/ Refuse \/ StopSource) => TInv'
<1> SUFFICES ASSUME TInv, Reject \/ Refuse \/ StopSource PROVE TInv'
  OBVIOUS
<1>1. asked \subseteq Final /\ call \subseteq Calls /\ (OnTrial => call \cap {"old", "stop", "both"} = {})
  BY DEF TInv, TypeOK, Untouched
<1>2. CASE Reject
  <2>1. Tell({"new"}) /\ {"new"} \in SUBSET Torrents /\ "old" \notin {"new"}
    BY <1>2 DEF Reject, Torrents
  <2>2. /\ UNCHANGED <<now, left, run, metadata, wanted, candidate, trial, proof>>
        /\ asked' \subseteq Final /\ call' = call \cup {"new"}
    BY <1>1, <1>2 DEF Reject, world
  <2>3. call' \subseteq Calls /\ (OnTrial => call' \cap {"old", "stop", "both"} = {})
    BY <1>1, <2>2 DEF Calls
  <2> QED
    BY <2>1, <2>2, <2>3, TellKeeps
<1>3. CASE Refuse
  <2>1. Tell({"new"}) /\ {"new"} \in SUBSET Torrents /\ "old" \notin {"new"}
    BY <1>3 DEF Refuse, Torrents
  <2>2. /\ UNCHANGED <<now, left, run, metadata, wanted, candidate, trial, proof>>
        /\ asked' \subseteq Final
        /\ call' = IF candidate = "handover" THEN call \cup {"both"} ELSE call
    BY <1>1, <1>3 DEF Refuse, world
  <2>3. call' \subseteq Calls /\ (OnTrial => call' \cap {"old", "stop", "both"} = {})
    BY <1>1, <2>2 DEF Calls, OnTrial
  <2> QED
    BY <2>1, <2>2, <2>3, TellKeeps
<1>4. CASE StopSource
  <2>1. Tell({"old"}) /\ {"old"} \in SUBSET Torrents /\ ~ OnTrial
    BY <1>1, <1>4 DEF StopSource, Torrents
  <2>2. /\ UNCHANGED <<now, left, run, metadata, wanted, candidate, trial, proof>>
        /\ asked' \subseteq Final
        /\ call' = IF "stop" \in call THEN (call \ {"stop"}) \cup {"old"} ELSE call
    BY <1>1, <1>4 DEF StopSource, world
  <2>3. call' \subseteq Calls
    BY <1>1, <2>2 DEF Calls
  <2> QED
    BY <2>1, <2>2, <2>3, TellKeeps
<1> QED
  BY <1>2, <1>3, <1>4

\* The check of the measurement: the row that passes it proves the promotion.
LEMMA VerifyKeeps == TInv /\ Verify => TInv'
<1> SUFFICES ASSUME TInv, Verify PROVE TInv'
  OBVIOUS
<1>1. /\ UNCHANGED <<now, left, run, metadata, wanted, candidate, trial, asked, told>>
      /\ proof' = trial /\ call' \subseteq call /\ Fresh
  BY DEF Verify, world
<1>2. trial # NoRow
  BY <1>1 DEF Fresh, NoRow
<1>3. trial \in Rows /\ trial.newLeft \in Nat
  <2>1. trial \in Rows
    BY <1>2 DEF TInv, TypeOK
  <2> QED
    BY <2>1, TrialAssumption DEF Rows, TrialAssumption
<1>4. ProofSound'
  BY <1>1, <1>3 DEF TInv, RowSound, ProofSound, Fresh
<1>5. TypeOK'
  BY <1>1 DEF TInv, TypeOK
<1>6. Untouched' /\ RowSound'
  BY <1>1 DEF TInv, Untouched, OnTrial, RowSound
<1> QED
  BY <1>4, <1>5, <1>6 DEF TInv

\* The remaining steps leave the torrents, what they were told and the row alone.
LEMMA PermitStepKeeps ==
    ASSUME TInv,
           Withdraw \/ Metadata \/ NoRoom \/ Lose \/ ConfirmReject \/ Read \/ Promote \/ Resume
             \/ CompleteHandover \/ CancelHandover \/ Abort
    PROVE  TInv'
<1>1. UNCHANGED <<now, left, run, trial, told>> /\ TypeOK
  BY DEF TInv, world, Withdraw, Metadata, NoRoom, Lose, ConfirmReject, Read, Promote, Resume,
         CompleteHandover, CancelHandover, Abort
<1>2. proof' \in {proof, NoRow}
  BY DEF Withdraw, Metadata, NoRoom, Lose, ConfirmReject, Read, Promote, Resume,
         CompleteHandover, CancelHandover, Abort
<1>3. RowSound' /\ ProofSound'
  BY <1>1, <1>2 DEF TInv, RowSound, ProofSound
<1>4. metadata' \in BOOLEAN /\ wanted' \in BOOLEAN /\ asked' \subseteq Final
  BY <1>1 DEF TypeOK, Final, world, Withdraw, Metadata, NoRoom, Lose, ConfirmReject, Read, Promote,
         Resume, CompleteHandover, CancelHandover, Abort
<1>5. /\ candidate' \in {"trial", "handover", "promoted", "rejected", "cancelled"}
      /\ call' \subseteq Calls
      /\ OnTrial' => OnTrial /\ call' \subseteq call \cup {"read"}
  <2>1. candidate \in {"trial", "handover", "promoted", "rejected", "cancelled"} /\ call \subseteq Calls
    BY <1>1 DEF TypeOK
  <2>2. CASE Withdraw \/ Metadata \/ NoRoom \/ Lose
    BY <2>1, <2>2 DEF Withdraw, Metadata, NoRoom, Lose, OnTrial
  <2>3. CASE ConfirmReject \/ CompleteHandover \/ CancelHandover
    BY <2>1, <2>3 DEF ConfirmReject, CompleteHandover, CancelHandover, OnTrial
  <2>4. CASE Read
    BY <2>1, <2>4 DEF Read, OnTrial, Calls
  <2>5. CASE Promote \/ Resume
    BY <2>1, <2>5 DEF Promote, Resume, OnTrial, Calls
  <2>6. CASE Abort
    BY <2>1, <2>6 DEF Abort, OnTrial
  <2> QED
    BY <2>2, <2>3, <2>4, <2>5, <2>6
<1>6. TypeOK'
  <2>1. /\ proof' \in Rows \cup {NoRow}
        /\ now' \in 0 .. Expiry /\ left' \in [Torrents -> 0 .. Size] /\ trial' \in Rows \cup {NoRow}
        /\ run' \in [Torrents -> {"on", "waiting", "stopped"}] /\ told' \subseteq Torrents
    BY <1>1, <1>2 DEF TypeOK
  <2> QED
    BY <1>4, <1>5, <2>1 DEF TypeOK
<1>7. Untouched'
  BY <1>1, <1>5 DEF TInv, Untouched
<1> QED
  BY <1>3, <1>6, <1>7 DEF TInv

\* Every step keeps the invariant.
LEMMA StepKeeps == TInv /\ [Next]_vars => TInv'
<1> SUFFICES ASSUME TInv, [Next]_vars PROVE TInv'
  OBVIOUS
<1>1. CASE UNCHANGED vars
  BY <1>1 DEF vars, TInv, TypeOK, Untouched, OnTrial, RowSound, ProofSound
<1>2. CASE Tick
  BY <1>2, TickKeeps, TrialAssumption
<1>3. CASE Monitor
  BY <1>3, MonitorKeeps, TrialAssumption
<1>4. CASE \E t \in Torrents : Switch(t) \/ Obey(t)
  BY <1>4, SwitchKeeps, ObeyKeeps
<1>5. CASE Reject \/ Refuse \/ StopSource
  BY <1>5, StopsKeep
<1>6. CASE Verify
  BY <1>6, VerifyKeeps
<1>7. CASE Withdraw \/ Metadata \/ NoRoom \/ Lose \/ ConfirmReject \/ Read \/ Promote \/ Resume
             \/ CompleteHandover \/ CancelHandover \/ Abort
  BY <1>7, PermitStepKeeps
<1> QED
  BY <1>1, <1>2, <1>3, <1>4, <1>5, <1>6, <1>7 DEF Next, Gateway

\* In every reachable state the source of a trial was not told to stop, the row is true of
\* the torrents and the row behind a promotion still proves it: it carries what follows.
THEOREM TrialIsSound == Spec => []TInv
<1>1. Init => TInv
  BY TInvInit
<1> QED
  BY <1>1, StepKeeps, PTL DEF Spec

\* However late a request arrives and a stop takes effect: nobody tells the source to stop
\* before a handover is committed, nor a chosen candidate afterwards while it is wanted.
THEOREM OnlyTheLoserStops == Spec => LoserGivesWay
<1>1. TInv' => (OnTrial' => "old" \notin told' /\ run'["old"] # "stopped")
  BY DEF TInv, Untouched
<1>2. Next => (wanted /\ ~ OnTrial /\ "new" \notin told => "new" \notin told')
  <2> SUFFICES ASSUME Next, wanted, ~ OnTrial, "new" \notin told PROVE "new" \notin told'
    OBVIOUS
  <2>1. CASE StopSource
    BY <2>1 DEF StopSource, Tell
  <2>2. CASE \E t \in Torrents : Obey(t)
    BY <2>2 DEF Obey
  <2>3. CASE ~ StopSource /\ ~ \E t \in Torrents : Obey(t)
    <3>1. told' = told
      BY <2>3 DEF Next, Gateway, Tick, Switch, Metadata, Withdraw, Monitor, NoRoom, Lose, Reject,
             ConfirmReject, Read, Verify, Promote, Resume, Refuse, CompleteHandover,
             CancelHandover, Abort
    <3> QED
      BY <3>1
  <2> QED
    BY <2>1, <2>2, <2>3
<1>3. TInv /\ [Next]_vars =>
          [/\ OnTrial' => "old" \notin told' /\ run'["old"] # "stopped"
           /\ wanted /\ ~ OnTrial /\ "new" \notin told => "new" \notin told']_vars
  BY <1>1, <1>2, StepKeeps
<1> QED
  BY <1>3, TrialIsSound, PTL DEF Spec, LoserGivesWay

\* A source gives way only to a candidate whose measured window, as the gateway checked it,
\* is long enough, recent enough, and in which it did download.
THEOREM SourceGivesWayToProof == Spec => HandoverIsProven
<1>1. Next /\ candidate = "trial" /\ candidate' = "handover" => proof # NoRow
  BY DEF Next, Gateway, Tick, Switch, Obey, Metadata, Withdraw, Monitor, NoRoom, Lose, Reject,
         ConfirmReject, Read, Verify, Promote, Resume, Refuse, StopSource, CompleteHandover,
         CancelHandover, Abort
<1>2. TInv /\ [Next]_vars =>
          [candidate = "trial" /\ candidate' = "handover" =>
              /\ proof.decision = "promote"
              /\ proof.seen - proof.start >= ProbeTime /\ now - proof.seen <= ProofAge
              /\ left["new"] < proof.newLeft]_vars
  BY <1>1 DEF TInv, ProofSound
<1> QED
  BY <1>2, TrialIsSound, PTL DEF Spec, HandoverIsProven

\* A verdict on a permit never changes again.
THEOREM VerdictIsFinal == Spec => VerdictStands
<1>1. [Next]_vars =>
          [(candidate \in {"promoted", "rejected", "cancelled"}) => candidate' = candidate]_vars
  BY DEF Next, Gateway, Tick, Switch, Obey, Metadata, Withdraw, Monitor, NoRoom, Lose, Reject,
         ConfirmReject, Read, Verify, Promote, Resume, Refuse, StopSource, CompleteHandover,
         CancelHandover, Abort, OnTrial
<1> QED
  BY <1>1, PTL DEF Spec, VerdictStands
=============================================================================
