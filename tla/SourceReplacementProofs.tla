----------------------- MODULE SourceReplacementProofs -----------------------
(***************************************************************************)
(* A newcomer is alone, a complete source is kept and a stall is real, for  *)
(* any number of sources, any sizes and windows, and any failures. None is  *)
(* guarded where it could break: what is added was authorized some time     *)
(* ago, the permit is superseded after the stop has been answered, and the  *)
(* worker sees the bytes of a source only when it looks. The invariants     *)
(* carry what those transactions saw to the moment it counts.               *)
(***************************************************************************)
EXTENDS SourceReplacement, TLAPS

Row == [on : BOOLEAN, left : 0 .. Size, still : 0 .. Horizon, age : 0 .. Horizon,
        from : 0 .. Size, replacing : BOOLEAN]
Steps == {"idle", "search", "stop", "stopping", "replace", "put", "post", "renew", "add", "resume",
          "starting", "clear"}
Task == [step : Steps, old : Sources \cup {0}, new : Sources \cup {0},
         reason : {"none", "stalled", "slow", "replacing"}, call : Calls \cup {"none"}]

\* One permit is active, a torrent is there only for a permit that was spent on it, a
\* confirmed one has its torrent, and qBittorrent is told of torrents that are there.
OnePermit == \A c, d \in Sources : Active(c) /\ Active(d) => c = d
TorrentHasPermit ==
    \A c \in Sources : /\ torrent[c] # "absent" => permit[c] \in {"unknown", "confirmed", "superseded"}
                       /\ permit[c] = "confirmed" \/ c \in told => torrent[c] # "absent"

\* While a source is authorized no other runs, or will for what qBittorrent was told.
OthersAreStopped ==
    \A c, d \in Sources :
        permit[c] = "authorized" /\ c # d => torrent[d] \in {"absent", "stopped"} /\ d \notin told

\* The source chosen to replace another has no permit yet, and nothing but the stop of the
\* other is on its way; once the other is seen stopped and incomplete, it stays as it is.
ReplaceIsReady ==
    /\ w.step \in {"search", "stop", "stopping", "replace"} => permit[w.old] = "confirmed" /\ late = {}
    /\ w.step \in {"stop", "stopping", "replace"} => permit[w.new] = "none"
    /\ w.step \in {"stop", "replace"} => told = {}
    /\ w.step = "stopping" => told \subseteq {w.old} /\ (torrent[w.old] = "stopped" => told = {})
    /\ w.step = "replace" => torrent[w.old] = "stopped" /\ left[w.old] > 0

\* Each step knows the sources it is about, and each request belongs to a step.
StepIsMeant ==
    /\ w.step \in {"search", "stop", "stopping", "replace", "resume", "starting"} => w.old \in Sources
    /\ w.step \in {"stop", "stopping", "replace", "put", "post", "renew", "add"} => w.new \in Sources
    /\ w.call = "stop" => w.step = "stop"
    /\ w.call = "start" => w.step = "resume"
    /\ w.call = "add" => w.step = "add"

SInv == TypeOK /\ OnePermit /\ TorrentHasPermit /\ OthersAreStopped /\ ReplaceIsReady /\ StepIsMeant

-----------------------------------------------------------------------------
(* Types *)

LEMMA OlderIsATime ==
    ASSUME ReplacementAssumption, NEW n \in 0 .. Horizon
    PROVE  Older(n) \in 0 .. Horizon
  BY DEF Older, ReplacementAssumption

\* A worker that goes on to resume the source keeps nothing else of its visit.
LEMMA ResumingKeepsTheSource ==
    ASSUME TypeOK
    PROVE  /\ ToResume \in Task /\ ToResume.step = "resume" /\ ToResume.old = w.old
           /\ ToResume.call = "none" /\ ToResume.reason = "none"
  BY DEF TypeOK, ToResume, Idle, Task, Steps

\* What a look writes to the database.
LEMMA MeasuredIsARow ==
    ASSUME ReplacementAssumption, TypeOK, NEW c \in Sources
    PROVE  Measured(c) \in Row
<1>1. row \in Row /\ left[c] \in 0 .. Size
  BY DEF TypeOK, Row
<1>2. 0 \in 0 .. Horizon /\ 0 \in 0 .. Size
  BY DEF ReplacementAssumption
<1>3. NoRow \in Row
  BY <1>2 DEF NoRow, Row
<1>4. Still(c) \in 0 .. Horizon
  BY <1>1, <1>2 DEF Still, Row
<1>5. [on |-> TRUE, left |-> left[c], still |-> 0, age |-> 0, from |-> left[c],
       replacing |-> FALSE] \in Row
  BY <1>1, <1>2 DEF Row
<1> DEFINE age == IF Restarts(c) THEN 0 ELSE row.age
           from == IF Restarts(c) THEN left[c] ELSE row.from
           still == Still(c)
           now == left[c]
<1>6. age \in 0 .. Horizon /\ from \in 0 .. Size
  BY <1>1, <1>2 DEF Row
<1>7. [row EXCEPT !.left = now, !.still = still, !.replacing = FALSE, !.age = age, !.from = from]
        \in Row
  <2> HIDE DEF age, from, still, now
  <2>1. now \in 0 .. Size /\ still \in 0 .. Horizon
    BY <1>1, <1>4 DEF now, still
  <2> QED
    BY <1>1, <1>6, <2>1 DEF Row
<1> QED
  BY <1>1, <1>3, <1>5, <1>7 DEF Measured

\* What a request does to the transfers.
LEMMA EffectIsTyped ==
    ASSUME ReplacementAssumption, TypeOK, NEW call, NEW c \in Sources, Effect(call, c)
    PROVE  /\ permit' \in [Sources -> {"none", "authorized", "unknown", "confirmed", "superseded"}]
           /\ torrent' \in [Sources -> {"absent", "queued", "downloading", "stopped"}]
           /\ told' \subseteq Sources
           /\ quiet' \in 0 .. Horizon /\ lull' \in 0 .. Horizon
<1>1. 0 \in 0 .. Horizon
  BY DEF ReplacementAssumption
<1>2. CASE ~ Accepts(call, c)
  BY <1>2 DEF Effect, TypeOK, ghosts, queue
<1>3. CASE Accepts(call, c) /\ call = "add"
  BY <1>1, <1>3 DEF Effect, Appears, TypeOK
<1>4. CASE Accepts(call, c) /\ call # "add"
  BY <1>1, <1>4 DEF Effect, TypeOK, ghosts
<1> QED
  BY <1>2, <1>3, <1>4

LEMMA WorkTypes ==
    ASSUME ReplacementAssumption, TypeOK, StepIsMeant, Work
    PROVE  TypeOK'
<1> USE DEF TypeOK, env, gate, queue, ghosts, Calls
<1>1. ASSUME NEW c \in Sources, Look(c) PROVE TypeOK'
  <2>1. row' \in Row
    BY <1>1, MeasuredIsARow DEF Look
  <2>2. w' \in Task
    <3>1. PICK connected \in BOOLEAN :
              w' = IF Reason(c, connected) = "none" THEN w
                   ELSE [Idle EXCEPT !.step = "search", !.old = c, !.reason = Reason(c, connected)]
      BY <1>1 DEF Look
    <3> DEFINE reason == Reason(c, connected)
    <3>2. reason \in {"none", "stalled", "slow", "replacing"}
      BY DEF Reason
    <3>3. w' = IF reason = "none" THEN w
               ELSE [Idle EXCEPT !.step = "search", !.old = c, !.reason = reason]
      BY <3>1
    <3> HIDE DEF reason
    <3> QED
      BY <1>1, <3>2, <3>3 DEF Task, Steps, Idle
  <2> QED
    BY <1>1, <2>1, <2>2 DEF Look, Row, Task, Steps
<1>2. ASSUME NEW c \in Sources, Begin(c) PROVE TypeOK'
  <2>1. w' = [Idle EXCEPT !.step = "stop", !.old = w.old, !.new = c, !.call = "stop"]
    BY <1>2 DEF Begin
  <2>2. w' \in Task
    BY <2>1 DEF Task, Steps, Idle
  <2>3. row' \in Row
    BY <1>2 DEF Begin, Row
  <2> QED
    BY <1>2, <2>2, <2>3 DEF Begin, Row, Task, Steps
<1>3. ASSUME NEW c \in Sources, Retire(c) PROVE TypeOK'
  BY <1>3 DEF Retire
<1>4. ASSUME NEW c \in Sources, Issue(c) PROVE TypeOK'
  BY <1>4 DEF Issue, Idle
<1>5. ASSUME NEW c \in Sources, Again(c) PROVE TypeOK'
  BY <1>5 DEF Again, Idle
<1>6. ASSUME NEW c \in Sources, Retry(c) PROVE TypeOK'
  BY <1>6 DEF Retry, Idle
<1>7. ASSUME NEW c \in Sources, Reconcile(c) PROVE TypeOK'
  BY <1>7 DEF Reconcile
<1>8. CASE GiveUp
  <2>1. w' = Idle \/ w' = ToResume
    BY <1>8 DEF GiveUp
  <2>2. w' \in Task
    BY <2>1, ResumingKeepsTheSource DEF Task, Steps, Idle
  <2> QED
    BY <1>8, <2>2 DEF GiveUp, Task, Steps
<1>9. CASE Replace
  <2>1. row' \in Row
    <3>1. NewRow \in Row
      BY DEF NewRow, NoRow, Row, ReplacementAssumption
    <3>2. row \in Row
      BY DEF Row
    <3> QED
      BY <1>9, <3>1, <3>2 DEF Replace
  <2>2. w' = Idle \/ w' = [w EXCEPT !.step = "put"] \/ w' = ToResume
    BY <1>9 DEF Replace
  <2>3. w' \in Task
    <3>1. CASE w' = Idle
      BY <3>1 DEF Task, Steps, Idle
    <3>2. CASE w' = [w EXCEPT !.step = "put"]
      BY <3>2 DEF Task, Steps, Idle
    <3>3. CASE w' = ToResume
      BY <3>3, ResumingKeepsTheSource
    <3> QED
      BY <2>2, <3>1, <3>2, <3>3
  <2>4. permit' \in [Sources -> {"none", "authorized", "unknown", "confirmed", "superseded"}]
    BY <1>9 DEF Replace
  <2>5. expired' \in BOOLEAN
    BY <1>9 DEF Replace
  <2> QED
    BY <1>9, <2>1, <2>3, <2>4, <2>5 DEF Replace, Row, Task, Steps
<1>10. CASE Resume
  BY <1>10 DEF Resume, Idle
<1>11. CASE Clear
  BY <1>11 DEF Clear, Idle
<1>12. CASE Put
  BY <1>12 DEF Put, StepIsMeant
<1>13. CASE Post
  BY <1>13 DEF Post, Idle, StepIsMeant
<1>14. CASE Renew
  <2>1. w' = Idle \/ w' = [w EXCEPT !.step = "add", !.call = "add"]
    BY <1>14 DEF Renew
  <2>2. w' \in Task
    <3>1. CASE w' = Idle
      BY <3>1 DEF Task, Steps, Idle
    <3>2. CASE w' = [w EXCEPT !.step = "add", !.call = "add"]
      BY <3>2 DEF Task, Steps, Idle
    <3> QED
      BY <2>1, <3>1, <3>2
  <2>3. expired' \in BOOLEAN
    BY <1>14 DEF Renew
  <2> QED
    BY <1>14, <2>2, <2>3 DEF Renew, Task, Steps
<1> QED
  BY <1>1, <1>2, <1>3, <1>4, <1>5, <1>6, <1>7, <1>8, <1>9, <1>10, <1>11, <1>12, <1>13, <1>14 DEF Work

LEMMA GatewayTypes ==
    ASSUME ReplacementAssumption, TypeOK, StepIsMeant,
           \/ Handle \/ Confirm \/ Fault
           \/ \E call \in Calls, c \in Sources : HandleLate(call, c)
           \/ \E c \in Sources : Grab(c) \/ Drop(c) \/ LoseAdd(c)
    PROVE  TypeOK'
<1> USE DEF TypeOK, env, queue, Calls
<1>1. CASE Handle
  <2>1. \/ w' = Idle
        \/ \E step \in {"stopping", "starting", "replace", "clear"} :
              w' = [w EXCEPT !.call = "none", !.step = step]
    BY <1>1 DEF Handle
  <2>2. w' \in Task
    <3>1. CASE w' = Idle
      BY <3>1 DEF Task, Steps, Idle
    <3>2. ASSUME NEW step \in {"stopping", "starting", "replace", "clear"},
                 w' = [w EXCEPT !.call = "none", !.step = step]
          PROVE  w' \in Task
      BY <3>2 DEF Task, Steps
    <3> QED
      BY <2>1, <3>1, <3>2
  <2>3. Effect(w.call, Target) /\ Target \in Sources
    BY <1>1 DEF Handle, StepIsMeant, Target
  <2> QED
    BY <1>1, <2>2, <2>3, EffectIsTyped DEF Handle, Task, Steps
<1>7. CASE Confirm
  <2>1. w' = Idle \/ \E step \in {"replace", "clear"} : w' = [w EXCEPT !.step = step]
    BY <1>7 DEF Confirm
  <2>2. w' \in Task
    BY <2>1 DEF Task, Steps, Idle
  <2> QED
    BY <1>7, <2>2 DEF Confirm, Task, Steps, gate, ghosts
<1>2. CASE Fault
  <2>1. w.call # "none" => <<w.call, Target>> \in Calls \X Sources
    BY DEF StepIsMeant, Target
  <2>2. late' \subseteq Calls \X Sources
    BY <1>2, <2>1 DEF Fault
  <2>3. w' = Idle \/ (w.step = "replace" /\ w' = ToResume)
    BY <1>2 DEF Fault
  <2>4. w' \in Task
    BY <2>3, ResumingKeepsTheSource DEF Task, Steps, Idle
  <2>5. posted' \in BOOLEAN
    BY <1>2 DEF Fault
  <2>6. faults' \in 0 .. MaxFaults
    BY <1>2 DEF Fault, ReplacementAssumption
  <2> QED
    BY <1>2, <2>2, <2>4, <2>5, <2>6 DEF Fault, Task, Steps, gate, ghosts
<1>3. ASSUME NEW call \in Calls, NEW c \in Sources, HandleLate(call, c) PROVE TypeOK'
  BY <1>3, EffectIsTyped DEF HandleLate
<1>4. ASSUME NEW c \in Sources, Grab(c) PROVE TypeOK'
  BY <1>4, EffectIsTyped DEF Grab
<1>5. ASSUME NEW c \in Sources, Drop(c) PROVE TypeOK'
  BY <1>5 DEF Drop, gate, ghosts, ReplacementAssumption
<1>6. ASSUME NEW c \in Sources, LoseAdd(c) PROVE TypeOK'
  <2>1. quiet' \in 0 .. Horizon /\ lull' \in 0 .. Horizon
    BY <1>6 DEF LoseAdd, Appears, ghosts, ReplacementAssumption
  <2>2. torrent' \in [Sources -> {"absent", "queued", "downloading", "stopped"}]
    BY <1>6 DEF LoseAdd, Appears
  <2>3. w' \in Task /\ asked' \subseteq Sources
    BY <1>6 DEF LoseAdd, Idle, Task, Steps
  <2>4. faults' \in 0 .. MaxFaults
    BY <1>6 DEF LoseAdd, ReplacementAssumption
  <2> QED
    BY <1>6, <2>1, <2>2, <2>3, <2>4 DEF LoseAdd, Task, Steps
<1> QED
  BY <1>1, <1>2, <1>3, <1>4, <1>5, <1>6, <1>7

LEMMA WorldTypes ==
    ASSUME ReplacementAssumption, TypeOK,
           \/ Tick \/ Expire \/ Environment \/ UNCHANGED vars
           \/ \E c \in Sources : Progress(c) \/ Wait(c) \/ Advance(c) \/ Pause(c) \/ Unpause(c)
                                \/ Obey(c)
    PROVE  TypeOK'
<1> USE DEF TypeOK, env, queue
<1>1. CASE Tick
  <2>1. row' \in Row
    <3> DEFINE still == Older(row.still)
               age == Older(row.age)
    <3>1. still \in 0 .. Horizon /\ age \in 0 .. Horizon
      BY OlderIsATime
    <3>2. row' = IF row.on THEN [row EXCEPT !.still = still, !.age = age] ELSE row
      BY <1>1 DEF Tick
    <3> HIDE DEF still, age
    <3> QED
      BY <3>1, <3>2 DEF Row
  <2>2. quiet' \in 0 .. Horizon /\ lull' \in 0 .. Horizon
    BY <1>1, OlderIsATime DEF Tick, ReplacementAssumption
  <2> QED
    BY <1>1, <2>1, <2>2 DEF Tick, Row, gate
<1>2. CASE Expire
  BY <1>2 DEF Expire, ghosts, ReplacementAssumption
<1>3. CASE Environment
  <2>1. wanted' \in BOOLEAN /\ room' \in BOOLEAN /\ offered' \subseteq Sources
    BY <1>3 DEF Environment
  <2> QED
    BY <1>3, <2>1 DEF Environment, gate, ghosts
<1>4. CASE UNCHANGED vars
  BY <1>4 DEF vars, gate, ghosts
<1>5. ASSUME NEW c \in Sources, Progress(c) PROVE TypeOK'
  BY <1>5 DEF Progress, Downloading, gate, ghosts, ReplacementAssumption
<1>6. ASSUME NEW c \in Sources, Wait(c) PROVE TypeOK'
  BY <1>6 DEF Wait, ReplacementAssumption
<1>7. ASSUME NEW c \in Sources, Advance(c) PROVE TypeOK'
  BY <1>7 DEF Advance, ghosts
<1>8. ASSUME NEW c \in Sources, Pause(c) PROVE TypeOK'
  BY <1>8 DEF Pause, ghosts, ReplacementAssumption
<1>9. ASSUME NEW c \in Sources, Unpause(c) PROVE TypeOK'
  BY <1>9 DEF Unpause, ghosts
<1>10. ASSUME NEW c \in Sources, Obey(c) PROVE TypeOK'
  BY <1>10 DEF Obey, ReplacementAssumption
<1> QED
  BY <1>1, <1>2, <1>3, <1>4, <1>5, <1>6, <1>7, <1>8, <1>9, <1>10

LEMMA ReplacementTypes == ReplacementAssumption /\ TypeOK /\ StepIsMeant /\ [Next]_vars => TypeOK'
  BY WorkTypes, GatewayTypes, WorldTypes DEF Next

-----------------------------------------------------------------------------
(* The invariant *)

LEMMA ReplacementStarts == ReplacementAssumption /\ Init => SInv
<1> SUFFICES ASSUME ReplacementAssumption, Init PROVE SInv
  OBVIOUS
<1>1. TypeOK
  <2>1. permit \in [Sources -> {"none", "authorized", "unknown", "confirmed", "superseded"}]
    BY DEF Init
  <2>2. torrent \in [Sources -> {"absent", "queued", "downloading", "stopped"}]
    BY DEF Init
  <2>3. row \in Row /\ w \in Task
    BY DEF Init, NoRow, Idle, Row, Task, Steps, ReplacementAssumption
  <2>4. left \in [Sources -> 0 .. Size]
    BY DEF Init, ReplacementAssumption
  <2>5. stored \subseteq Sources
    BY DEF Init
  <2>6. quiet \in 0 .. Horizon /\ lull \in 0 .. Horizon /\ faults \in 0 .. MaxFaults
        /\ pauses \in 0 .. MaxPauses
    BY DEF Init, ReplacementAssumption
  <2>7. /\ wanted \in BOOLEAN /\ room \in BOOLEAN /\ offered \subseteq Sources /\ expired \in BOOLEAN
        /\ asked \subseteq Sources /\ posted \in BOOLEAN /\ late \subseteq Calls \X Sources /\ told \subseteq Sources
    BY DEF Init
  <2> QED
    BY <2>1, <2>2, <2>3, <2>4, <2>5, <2>6, <2>7 DEF TypeOK, Row, Task, Steps
<1>2. OnePermit /\ TorrentHasPermit /\ OthersAreStopped
  BY DEF Init, OnePermit, TorrentHasPermit, OthersAreStopped, Active
<1>3. ReplaceIsReady /\ StepIsMeant
  BY DEF Init, ReplaceIsReady, StepIsMeant, Idle
<1> QED
  BY <1>1, <1>2, <1>3 DEF SInv

\* What is pending, not what is done: the worker's steps and requests.
LEMMA StepsAreMeant == ReplacementAssumption /\ SInv /\ [Next]_vars => StepIsMeant'
<1> SUFFICES ASSUME ReplacementAssumption, SInv, [Next]_vars PROVE StepIsMeant'
  OBVIOUS
<1> USE DEF SInv, TypeOK, StepIsMeant, Idle
<1>1. CASE Work
  <2>1. ASSUME NEW c \in Sources, Look(c) PROVE StepIsMeant'
    BY <2>1 DEF Look
  <2>2. ASSUME NEW c \in Sources, Begin(c) PROVE StepIsMeant'
    BY <2>2 DEF Begin
  <2>3. ASSUME NEW c \in Sources, Issue(c) \/ Again(c) \/ Retry(c) PROVE StepIsMeant'
    <3>1. CASE Issue(c)
      BY <3>1 DEF Issue
    <3>2. CASE Again(c)
      BY <3>2 DEF Again
    <3>3. CASE Retry(c)
      BY <3>3 DEF Retry
    <3> QED
      BY <2>3, <3>1, <3>2, <3>3
  <2>4. CASE GiveUp
    <3>1. w' = Idle \/ (w.step = "search" /\ w' = ToResume)
      BY <2>4 DEF GiveUp
    <3> QED
      BY <3>1, ResumingKeepsTheSource
  <2>5. CASE Replace
    <3>1. /\ w.step = "replace"
          /\ w' = Idle \/ w' = [w EXCEPT !.step = "put"] \/ w' = ToResume
      BY <2>5 DEF Replace
    <3>2. CASE w' = [w EXCEPT !.step = "put"]
      BY <3>1, <3>2
    <3> QED
      BY <3>1, <3>2, ResumingKeepsTheSource
  <2>6. CASE Resume
    BY <2>6 DEF Resume
  <2>7. CASE Clear \/ Post
    BY <2>7 DEF Clear, Post
  <2>8. CASE Put
    BY <2>8 DEF Put
  <2>9. CASE Renew
    <3>1. w' = Idle \/ (w.step = "renew" /\ w' = [w EXCEPT !.step = "add", !.call = "add"])
      BY <2>9 DEF Renew
    <3>2. CASE w' = Idle
      BY <3>2
    <3>3. CASE w.step = "renew" /\ w' = [w EXCEPT !.step = "add", !.call = "add"]
      BY <3>3
    <3> QED
      BY <3>1, <3>2, <3>3
  <2>10. CASE UNCHANGED w
    BY <2>10
  <2> QED
    BY <1>1, <2>1, <2>2, <2>3, <2>4, <2>5, <2>6, <2>7, <2>8, <2>9, <2>10 DEF Work, Retire, Reconcile
<1>2. CASE Handle
  <2>1. w.call \in Calls
    BY <1>2 DEF Handle
  <2>2. \/ w' = Idle
        \/ w.call = "stop" /\ \E step \in {"stopping", "replace"} :
                                  w' = [w EXCEPT !.call = "none", !.step = step]
        \/ w.call = "start" /\ \E step \in {"starting", "clear"} :
                                  w' = [w EXCEPT !.call = "none", !.step = step]
    BY <1>2, <2>1 DEF Handle, Calls
  <2>3. ASSUME w.call = "stop", NEW step \in {"stopping", "replace"},
               w' = [w EXCEPT !.call = "none", !.step = step]
        PROVE  StepIsMeant'
    BY <2>3
  <2>4. ASSUME w.call = "start", NEW step \in {"starting", "clear"},
               w' = [w EXCEPT !.call = "none", !.step = step]
        PROVE  StepIsMeant'
    BY <2>4
  <2>5. CASE w' = Idle
    BY <2>5
  <2> QED
    BY <2>2, <2>3, <2>4, <2>5
<1>6. CASE Confirm
  <2>1. \/ w' = Idle
        \/ w.step = "stopping" /\ w' = [w EXCEPT !.step = "replace"]
        \/ w.step = "starting" /\ w' = [w EXCEPT !.step = "clear"]
    BY <1>6 DEF Confirm
  <2> QED
    BY <2>1
<1>3. CASE Fault
  <2>1. w' = Idle \/ (w.step = "replace" /\ w' = ToResume)
    BY <1>3 DEF Fault
  <2>2. CASE w' = Idle
    BY <2>2
  <2>3. CASE w.step = "replace" /\ w' = ToResume
    BY <2>3, ResumingKeepsTheSource
  <2> QED
    BY <2>1, <2>2, <2>3
<1>4. CASE \E c \in Sources : LoseAdd(c)
  BY <1>4 DEF LoseAdd
<1>5. CASE UNCHANGED w
  BY <1>5
<1> QED
  BY <1>1, <1>2, <1>3, <1>4, <1>5, <1>6 DEF Next, Tick, Expire, Environment, HandleLate, Grab, Drop,
     Progress, Wait, Advance, Pause, Unpause, Obey, vars

-----------------------------------------------------------------------------
(* What a step may do to the permits and the transfers *)

\* An authorization is spent on an add, whose answer may be lost.
Spent(c) ==
    /\ permit[c] = "authorized" /\ UNCHANGED <<told, left>>
    /\ \/ /\ permit' = [permit EXCEPT ![c] = "confirmed"]
          /\ torrent' = [torrent EXCEPT ![c] = "downloading"]
       \/ /\ permit' = [permit EXCEPT ![c] = "unknown"]
          /\ torrent' = torrent \/ torrent' = [torrent EXCEPT ![c] = "downloading"]

\* A confirmed source is told to stop or to start; a source does what it was told, waits or
\* goes on, or receives.
Toggled(c) ==
    /\ permit[c] = "confirmed" /\ UNCHANGED <<permit, torrent, left>>
    /\ told' \in {told, told \cup {c}}
Asked == Handle \/ late # {} \/ w.step = "idle"
Obeyed(c) ==
    /\ c \in told /\ told' = told \ {c} /\ UNCHANGED <<permit, left>>
    /\ torrent' = [torrent EXCEPT ![c] = IF @ = "stopped" THEN "downloading" ELSE "stopped"]
Moved(c) ==
    /\ torrent[c] \in {"queued", "downloading"} /\ UNCHANGED <<permit, told, left>>
    /\ \E x \in {"queued", "downloading"} : torrent' = [torrent EXCEPT ![c] = x]
Received(c) ==
    /\ torrent[c] = "downloading" /\ UNCHANGED <<permit, torrent, told>>
    /\ left' = [left EXCEPT ![c] = @ - 1]

Stays == UNCHANGED <<permit, torrent, told, left>>

LEMMA EffectMoves ==
    ASSUME SInv, NEW call \in Calls, NEW c \in Sources, Effect(call, c), UNCHANGED left
    PROVE  Spent(c) \/ (Toggled(c) /\ call # "add") \/ Stays
<1>1. CASE ~ Accepts(call, c)
  BY <1>1 DEF Effect, Stays, queue
<1>2. CASE Accepts(call, c) /\ call = "add"
  BY <1>2 DEF Effect, Accepts, Appears, Spent
<1>3. CASE Accepts(call, c) /\ call # "add"
  BY <1>3 DEF Effect, Accepts, Toggled
<1> QED
  BY <1>1, <1>2, <1>3

LEMMA GateMoves ==
    ASSUME ReplacementAssumption, SInv, [Next]_vars
    PROVE  \/ Stays \/ Replace
           \/ \E c \in Sources : \/ Spent(c) \/ (Toggled(c) /\ Asked) \/ Obeyed(c) \/ Moved(c)
                                \/ Received(c) \/ Retire(c) \/ Issue(c) \/ Reconcile(c)
<1> DEFINE Goal == \/ Stays \/ Replace
                   \/ \E c \in Sources : \/ Spent(c) \/ (Toggled(c) /\ Asked) \/ Obeyed(c) \/ Moved(c)
                                        \/ Received(c) \/ Retire(c) \/ Issue(c) \/ Reconcile(c)
<1>1. CASE Handle
  <2>1. Target \in Sources /\ w.call \in Calls
    <3>1. w.call # "none"
      BY <1>1 DEF Handle
    <3>2. w.call \in Calls
      BY <3>1 DEF SInv, TypeOK
    <3> QED
      BY <3>2 DEF SInv, StepIsMeant, Target, Calls
  <2>2. Effect(w.call, Target) /\ UNCHANGED left
    BY <1>1 DEF Handle
  <2> QED
    BY <1>1, <2>1, <2>2, EffectMoves DEF Asked
<1>2. ASSUME NEW call \in Calls, NEW c \in Sources, HandleLate(call, c) PROVE Goal
  BY <1>2, EffectMoves DEF HandleLate, Asked
<1>3. ASSUME NEW c \in Sources, Grab(c) PROVE Goal
  BY <1>3, EffectMoves DEF Grab, Calls
<1>4. ASSUME NEW c \in Sources, LoseAdd(c) PROVE Spent(c)
  BY <1>4 DEF LoseAdd, Accepts, Appears, Spent
<1>5. ASSUME NEW c \in Sources, Wait(c) PROVE Moved(c)
  BY <1>5 DEF Wait, Downloading, Moved
<1>6. ASSUME NEW c \in Sources, Advance(c) PROVE Moved(c)
  BY <1>6 DEF Advance, Moved
<1>7. ASSUME NEW c \in Sources, Pause(c) \/ Unpause(c) PROVE Toggled(c) /\ Asked
  BY <1>7 DEF Pause, Unpause, Toggled, Asked, Visit
<1>8. ASSUME NEW c \in Sources, Progress(c) PROVE Received(c)
  BY <1>8 DEF Progress, Downloading, Received, gate, queue
<1>9. ASSUME NEW c \in Sources, Obey(c) PROVE Obeyed(c)
  BY <1>9 DEF Obey, Obeyed
<1>10. CASE Work
  BY <1>10 DEF Work, Look, Begin, Again, Retry, GiveUp, Resume, Clear, Put, Post, Renew, Stays, gate, queue
<1>11. CASE \/ Confirm \/ Fault \/ Tick \/ Expire \/ Environment \/ (\E c \in Sources : Drop(c))
            \/ UNCHANGED vars
  BY <1>11 DEF Confirm, Fault, Tick, Expire, Environment, Drop, vars, gate, queue, Stays
<1> QED
  BY <1>1, <1>2, <1>3, <1>4, <1>5, <1>6, <1>7, <1>8, <1>9, <1>10, <1>11 DEF Next

LEMMA PermitsAreOne ==
    ASSUME ReplacementAssumption, SInv, [Next]_vars
    PROVE  OnePermit' /\ TorrentHasPermit' /\ OthersAreStopped'
<1> USE DEF SInv, TypeOK, OnePermit, TorrentHasPermit, OthersAreStopped, Active
<1> DEFINE Goal == OnePermit' /\ TorrentHasPermit' /\ OthersAreStopped'
<1>1. CASE Stays
  BY <1>1 DEF Stays
<1>2. ASSUME NEW c \in Sources, Spent(c) PROVE Goal
  BY <1>2 DEF Spent
<1>3. ASSUME NEW c \in Sources, Toggled(c) PROVE Goal
  BY <1>3 DEF Toggled
<1>10. ASSUME NEW c \in Sources, Obeyed(c) PROVE Goal
  BY <1>10 DEF Obeyed
<1>4. ASSUME NEW c \in Sources, Moved(c) PROVE Goal
  BY <1>4 DEF Moved
<1>5. ASSUME NEW c \in Sources, Received(c) PROVE Goal
  BY <1>5 DEF Received
<1>6. ASSUME NEW c \in Sources, Retire(c) PROVE Goal
  BY <1>6 DEF Retire, queue
<1>7. ASSUME NEW c \in Sources, Issue(c) PROVE Goal
  BY <1>7 DEF Issue, History, queue
<1>8. ASSUME NEW c \in Sources, Reconcile(c) PROVE Goal
  BY <1>8 DEF Reconcile, queue
<1>9. CASE Replace
  <2>1. CASE UNCHANGED permit
    <3>1. UNCHANGED queue
      BY <1>9 DEF Replace
    <3> QED
      BY <2>1, <3>1 DEF queue
  <2>2. CASE ~ UNCHANGED permit
    <3>1. /\ permit[w.old] = "confirmed" /\ AllStopped(MustHaveStopped)
          /\ permit' = [permit EXCEPT ![w.old] = "superseded", ![w.new] = "authorized"]
          /\ UNCHANGED <<torrent, told>>
      BY <1>9, <2>2 DEF Replace, queue
    <3>2. permit[w.new] = "none" /\ w.new \in Sources /\ w.old \in Sources /\ told = {}
      BY <1>9 DEF Replace, ReplaceIsReady, StepIsMeant
    <3>3. \A d \in Sources : permit[d] = "superseded" \/ d = w.old => torrent[d] = "stopped"
      BY <3>1 DEF AllStopped, MustHaveStopped, Former
    <3>4. \A d \in Sources : permit'[d] = IF d = w.new THEN "authorized"
                                         ELSE IF d = w.old THEN "superseded" ELSE permit[d]
      BY <3>1, <3>2
    <3> QED
      BY <3>1, <3>2, <3>3, <3>4
  <2> QED
    BY <2>1, <2>2
<1> QED
  BY GateMoves, <1>1, <1>2, <1>3, <1>4, <1>5, <1>6, <1>7, <1>8, <1>9, <1>10

\* Nothing touches the source that has answered its stop until it is replaced.
LEMMA ReplaceStaysReady ==
    ASSUME ReplacementAssumption, SInv, [Next]_vars
    PROVE  ReplaceIsReady'
<1> USE DEF SInv, TypeOK, ReplaceIsReady, StepIsMeant
<1> DEFINE Ways == {"search", "stop", "stopping", "replace"}
<1>1. ASSUME NEW c \in Sources, Begin(c) PROVE ReplaceIsReady'
  <2>1. /\ w.step = "search" /\ permit[c] = "none" /\ told = {} /\ UNCHANGED <<permit, torrent, told, late>>
        /\ w' = [Idle EXCEPT !.step = "stop", !.old = w.old, !.new = c, !.call = "stop"]
    BY <1>1 DEF Begin, Candidates, History, gate, queue
  <2> QED
    BY <2>1 DEF Idle
<1>2. CASE Handle /\ w.call = "stop"
  <2>1. /\ w.step = "stop" /\ w.old \in Sources /\ permit[w.new] = "none" /\ Target = w.old
        /\ late = {} /\ told = {} /\ UNCHANGED <<left, late>>
    BY <1>2 DEF Target, Handle
  <2>2. CASE Accepts(w.call, Target)
    <3>1. UNCHANGED <<permit, torrent>> /\ left[w.old] > 0 /\ permit[w.old] = "confirmed"
      BY <1>2, <2>1, <2>2 DEF Handle, Effect, Accepts
    <3>2. CASE torrent[w.old] = "stopped"
      <4>1. w' = [w EXCEPT !.call = "none", !.step = "replace"] /\ UNCHANGED told
        BY <1>2, <2>1, <2>2, <3>2 DEF Handle, Effect, Tells
      <4> QED
        BY <2>1, <3>1, <3>2, <4>1
    <3>3. CASE torrent[w.old] # "stopped"
      <4>1. w' = [w EXCEPT !.call = "none", !.step = "stopping"] /\ told' = {w.old}
        BY <1>2, <2>1, <2>2, <3>3 DEF Handle, Effect, Tells
      <4> QED
        BY <2>1, <3>1, <3>3, <4>1
    <3> QED
      BY <3>2, <3>3
  <2>3. CASE ~ Accepts(w.call, Target)
    <3>1. w' = Idle
      BY <1>2, <2>3 DEF Handle
    <3> QED
      BY <3>1 DEF Idle
  <2> QED
    BY <2>2, <2>3
<1>3. CASE Handle /\ w.call # "stop"
  <2>1. \/ w' = Idle
        \/ \E step \in {"starting", "clear"} : w' = [w EXCEPT !.call = "none", !.step = step]
    BY <1>3 DEF Handle
  <2>2. CASE w' = Idle
    BY <2>2 DEF Idle
  <2>3. ASSUME NEW step \in {"starting", "clear"}, w' = [w EXCEPT !.call = "none", !.step = step]
        PROVE  ReplaceIsReady'
    BY <2>3
  <2> QED
    BY <2>1, <2>2, <2>3
<1>4. ASSUME NEW c \in Sources, Look(c) PROVE ReplaceIsReady'
  <2>1. /\ permit[c] = "confirmed" /\ UNCHANGED <<permit, late>> /\ w.step = "idle" /\ late = {}
    BY <1>4 DEF Look, Visit, gate
  <2>2. w' = w \/ (w'.step = "search" /\ w'.old = c)
    BY <1>4 DEF Look, Idle
  <2> QED
    BY <2>1, <2>2
<1>5. CASE Confirm
  <2>1. UNCHANGED <<permit, torrent, told, left, late>>
    BY <1>5 DEF Confirm, gate, queue
  <2>2. \/ w' = Idle
        \/ w.step = "starting" /\ w' = [w EXCEPT !.step = "clear"]
        \/ /\ w.step = "stopping" /\ left[w.old] # 0 /\ torrent[w.old] = "stopped"
           /\ w' = [w EXCEPT !.step = "replace"]
    BY <1>5 DEF Confirm
  <2>3. CASE w' = Idle
    BY <2>3 DEF Idle
  <2>4. CASE w.step = "starting" /\ w' = [w EXCEPT !.step = "clear"]
    BY <2>4
  <2>5. CASE /\ w.step = "stopping" /\ left[w.old] # 0 /\ torrent[w.old] = "stopped"
             /\ w' = [w EXCEPT !.step = "replace"]
    <3>1. left[w.old] > 0
      BY <2>5, ReplacementAssumption DEF ReplacementAssumption
    <3> QED
      BY <2>1, <2>5, <3>1
  <2> QED
    BY <2>2, <2>3, <2>4, <2>5
<1>6. CASE ~ Handle /\ ~ Confirm /\ ~ (\E c \in Sources : Begin(c) \/ Look(c))
  <2>1. w'.step \in Ways => w' = w /\ late' \subseteq late
    <3>1. CASE Work
      <4>1. CASE \E c \in Sources : Retire(c) \/ Reconcile(c)
        BY <4>1 DEF Retire, Reconcile
      <4>2. CASE \E c \in Sources : Issue(c) \/ Again(c) \/ Retry(c)
        <5>1. w'.step \in {"put", "renew"}
          BY <4>2 DEF Issue, Again, Retry, Idle
        <5> QED
          BY <5>1
      <4>3. CASE GiveUp
        BY <4>3, ResumingKeepsTheSource DEF GiveUp, Idle
      <4>4. CASE Replace
        <5>1. w' = Idle \/ w' = [w EXCEPT !.step = "put"] \/ w' = ToResume
          BY <4>4 DEF Replace
        <5>2. CASE w' = [w EXCEPT !.step = "put"]
          BY <5>2
        <5> QED
          BY <5>1, <5>2, ResumingKeepsTheSource DEF Idle
      <4>5. CASE Resume
        <5>1. w.step = "resume" /\ (w' = Idle \/ w' = [w EXCEPT !.call = "start"])
          BY <4>5 DEF Resume
        <5> QED
          BY <5>1 DEF Idle
      <4>6. CASE Clear \/ Post
        BY <4>6 DEF Clear, Post, Idle
      <4>7. CASE Put
        BY <4>7 DEF Put
      <4>8. CASE Renew
        <5>1. w' = Idle \/ w' = [w EXCEPT !.step = "add", !.call = "add"]
          BY <4>8 DEF Renew
        <5>2. CASE w' = Idle
          BY <5>2 DEF Idle
        <5>3. CASE w' = [w EXCEPT !.step = "add", !.call = "add"]
          BY <5>3
        <5> QED
          BY <5>1, <5>2, <5>3
      <4> QED
        BY <1>6, <3>1, <4>1, <4>2, <4>3, <4>4, <4>5, <4>6, <4>7, <4>8 DEF Work
    <3>2. CASE Fault
      <4>1. w' = Idle \/ w' = ToResume
        BY <3>2 DEF Fault
      <4> QED
        BY <4>1, ResumingKeepsTheSource DEF Idle
    <3>3. CASE \E c \in Sources : LoseAdd(c)
      BY <3>3 DEF LoseAdd, Idle
    <3>4. CASE /\ UNCHANGED w /\ late' \subseteq late
      BY <3>4
    <3> QED
      BY <1>6, <3>1, <3>2, <3>3, <3>4 DEF Next, Tick, Expire, Environment, HandleLate, Grab, Drop,
         Progress, Wait, Advance, Pause, Unpause, Obey, vars
  <2>2. ASSUME w.step \in Ways, w' = w
        PROVE  /\ ~ Asked /\ ~ Replace
               /\ \A c \in Sources : ~ Retire(c) /\ ~ Issue(c) /\ ~ Reconcile(c)
    <3>1. Replace => w' = Idle \/ w' = [w EXCEPT !.step = "put"] \/ w' = ToResume
      BY DEF Replace
    <3>2. ~ Replace
      BY <2>2, <3>1, ResumingKeepsTheSource DEF Idle, Replace
    <3>3. \A c \in Sources : ~ Retire(c) /\ ~ Issue(c) /\ ~ Reconcile(c)
      BY <2>2 DEF Retire, Issue, Reconcile, Visit
    <3> QED
      BY <1>6, <2>2, <3>2, <3>3 DEF Asked
  <2>3. ASSUME w.step \in Ways, w' = w
        PROVE  Stays \/ \E c \in Sources : Spent(c) \/ Obeyed(c) \/ Moved(c) \/ Received(c)
    BY <2>2, <2>3, GateMoves
  <2>4. ASSUME w.step \in Ways, w' = w PROVE permit'[w.old] = "confirmed"
    <3>1. permit[w.old] = "confirmed" /\ w.old \in Sources
      BY <2>4
    <3> QED
      BY <2>3, <2>4, <3>1 DEF Stays, Spent, Obeyed, Moved, Received
  <2>5. ASSUME w.step \in {"stop", "stopping", "replace"}, w' = w PROVE permit'[w.new] = "none"
    <3>1. permit[w.new] = "none" /\ w.new \in Sources
      BY <2>5
    <3> QED
      BY <2>3, <2>5, <3>1 DEF Stays, Spent, Obeyed, Moved, Received
  <2>6. ASSUME w.step \in {"stop", "replace"}, w' = w PROVE told' = {}
    <3>1. told = {}
      BY <2>6
    <3> QED
      BY <2>3, <2>6, <3>1 DEF Stays, Spent, Obeyed, Moved, Received
  <2>7. ASSUME w.step = "stopping", w' = w
        PROVE  told' \subseteq {w.old} /\ (torrent'[w.old] = "stopped" => told' = {})
    <3>1. /\ w.old \in Sources /\ permit[w.old] = "confirmed" /\ told \subseteq {w.old}
          /\ torrent[w.old] = "stopped" => told = {}
      BY <2>7
    <3>2. CASE Stays
      BY <3>1, <3>2 DEF Stays
    <3>3. ASSUME NEW c \in Sources, Spent(c) \/ Moved(c) \/ Received(c)
          PROVE  told' \subseteq {w.old} /\ (torrent'[w.old] = "stopped" => told' = {})
      <4>1. UNCHANGED told
        BY <3>3 DEF Spent, Moved, Received
      <4>2. torrent'[w.old] = "stopped" => torrent[w.old] = "stopped"
        BY <3>1, <3>3 DEF Spent, Moved, Received
      <4> QED
        BY <3>1, <4>1, <4>2
    <3>4. ASSUME NEW c \in Sources, Obeyed(c) PROVE told' = {}
      BY <3>1, <3>4 DEF Obeyed
    <3> QED
      BY <2>3, <2>7, <3>2, <3>3, <3>4
  <2>8. ASSUME w.step = "replace", w' = w
        PROVE  torrent'[w.old] = "stopped" /\ left'[w.old] > 0
    <3>1. /\ permit[w.old] = "confirmed" /\ torrent[w.old] = "stopped" /\ left[w.old] > 0
          /\ w.old \in Sources /\ told = {}
      BY <2>8
    <3>2. ASSUME NEW c \in Sources, Spent(c)
          PROVE  torrent'[w.old] = "stopped" /\ left'[w.old] > 0
      BY <3>1, <3>2 DEF Spent
    <3>3. ASSUME NEW c \in Sources, Moved(c) \/ Received(c)
          PROVE  torrent'[w.old] = "stopped" /\ left'[w.old] > 0
      BY <3>1, <3>3 DEF Moved, Received
    <3>4. CASE Stays
      BY <3>1, <3>4 DEF Stays
    <3> QED
      BY <2>3, <2>8, <3>1, <3>2, <3>3, <3>4 DEF Obeyed
  <2> QED
    BY <2>1, <2>4, <2>5, <2>6, <2>7, <2>8
<1> QED
  BY <1>1, <1>2, <1>3, <1>4, <1>5, <1>6

LEMMA ReplacementSteps == ReplacementAssumption /\ SInv /\ [Next]_vars => SInv'
  BY ReplacementTypes, PermitsAreOne, ReplaceStaysReady, StepsAreMeant DEF SInv

-----------------------------------------------------------------------------
(* The measurements *)

\* What the measurements say of the time that has passed: they are those of the confirmed
\* source, and while they show the bytes that are left now they count no longer than it
\* has been without one. A worker between two visits has found nothing.
RowIsTrue ==
    /\ w.step = "idle" => w.reason = "none"
    /\ row.on => \E c \in Sources : permit[c] = "confirmed"
    /\ \A c \in Sources : row.on /\ permit[c] = "confirmed" =>
           left[c] <= row.left /\ (left[c] = row.left => row.still <= quiet)

\* Apart from the clock itself, only a byte received or a new torrent restarts it.
LEMMA QuietRestarts ==
    ASSUME SInv, [Next]_vars, ~ Tick
    PROVE  \/ UNCHANGED quiet
           \/ \E c \in Sources : Progress(c)
           \/ \E c \in Sources : permit[c] = "authorized"
<1> DEFINE Goal == \/ UNCHANGED quiet
                   \/ \E c \in Sources : Progress(c)
                   \/ \E c \in Sources : permit[c] = "authorized"
<1>1. CASE Work
  BY <1>1 DEF Work, Look, Begin, Retire, Issue, Again, Retry, Reconcile, GiveUp, Replace, Resume,
     Clear, Put, Post, Renew, ghosts
<1>2. ASSUME NEW call, NEW c \in Sources, Effect(call, c) PROVE Goal
  BY <1>2 DEF Effect, Accepts, ghosts
<1>3. CASE Handle
  <2>1. Target \in Sources
    BY <1>3 DEF Handle, Target, SInv, TypeOK, StepIsMeant, Calls
  <2> QED
    BY <1>2, <1>3, <2>1 DEF Handle
<1>4. CASE \E c \in Sources : HandleLate("add", c) \/ LoseAdd(c)
  BY <1>2, <1>4 DEF HandleLate, LoseAdd, Accepts
<1>5. CASE \E call \in Calls, c \in Sources : HandleLate(call, c)
  BY <1>2, <1>5 DEF HandleLate
<1>6. CASE \E c \in Sources : Grab(c)
  BY <1>2, <1>6 DEF Grab
<1> QED
  BY <1>1, <1>3, <1>4, <1>5, <1>6 DEF Next, Confirm, Fault, Expire, Environment, Drop, Wait, Advance,
     Pause, Unpause, Obey, vars, ghosts

\* The measurements are written by a look, a clock, a replacement, and a note of one.
LEMMA RowWrites ==
    ASSUME [Next]_vars
    PROVE  \/ UNCHANGED row \/ Tick \/ Replace \/ Clear
           \/ \E c \in Sources : Look(c) \/ Begin(c)
  BY DEF Next, Work, Retire, Issue, Again, Retry, Reconcile, GiveUp, Resume, Put, Post, Renew, Handle,
     Confirm, Fault, Expire, Environment, HandleLate, Grab, Drop, LoseAdd, Progress, Wait, Advance, Pause,
     Unpause, Obey, vars

\* A worker that becomes idle forgets what it found.
LEMMA IdleFoundNothing ==
    ASSUME SInv, RowIsTrue, [Next]_vars, w'.step = "idle"
    PROVE  w'.reason = "none"
<1> USE DEF SInv, TypeOK, RowIsTrue, Idle
<1>1. CASE UNCHANGED w
  BY <1>1
<1>2. CASE w' = Idle
  BY <1>2
<1>3. CASE ~ UNCHANGED w /\ w' # Idle
  <2>1. CASE Work
    <3>1. ASSUME NEW c \in Sources, Look(c) PROVE w'.step = "search"
      BY <1>3, <3>1 DEF Look
    <3>2. ASSUME NEW c \in Sources, Begin(c) PROVE w'.step = "stop"
      BY <3>2 DEF Begin
    <3>3. ASSUME NEW c \in Sources, Issue(c) \/ Again(c) \/ Retry(c) PROVE w'.step # "idle"
      BY <3>3 DEF Issue, Again, Retry
    <3>4. CASE GiveUp
      <4>1. w' = ToResume
        BY <1>3, <3>4 DEF GiveUp
      <4> QED
        BY <4>1, ResumingKeepsTheSource
    <3>5. CASE Replace
      <4>1. w' = [w EXCEPT !.step = "put"] \/ w' = ToResume
        BY <1>3, <3>5 DEF Replace
      <4> QED
        BY <4>1, ResumingKeepsTheSource
    <3>6. CASE Resume
      BY <1>3, <3>6 DEF Resume
    <3>7. CASE Put
      BY <3>7 DEF Put
    <3>8. CASE Renew
      <4>1. w' = [w EXCEPT !.step = "add", !.call = "add"]
        BY <1>3, <3>8 DEF Renew
      <4> QED
        BY <4>1
    <3> QED
      BY <1>3, <2>1, <3>1, <3>2, <3>3, <3>4, <3>5, <3>6, <3>7, <3>8 DEF Work, Retire, Reconcile, Clear,
         Post
  <2>2. CASE Handle
    <3>1. \E step \in {"stopping", "starting", "replace", "clear"} :
              w' = [w EXCEPT !.call = "none", !.step = step]
      BY <1>3, <2>2 DEF Handle
    <3> QED
      BY <3>1
  <2>4. CASE Confirm
    <3>1. \E step \in {"replace", "clear"} : w' = [w EXCEPT !.step = step]
      BY <1>3, <2>4 DEF Confirm
    <3> QED
      BY <3>1
  <2>3. CASE Fault
    <3>1. w' = ToResume
      BY <1>3, <2>3 DEF Fault
    <3> QED
      BY <3>1, ResumingKeepsTheSource
  <2> QED
    BY <1>3, <2>1, <2>2, <2>3, <2>4 DEF Next, Tick, Expire, Environment, HandleLate, Grab, Drop,
       LoseAdd, Progress, Wait, Advance, Pause, Unpause, Obey, vars
<1> QED
  BY <1>1, <1>2, <1>3

\* `observe` counts no longer than the source has been quiet.
LEMMA LookIsTrue ==
    ASSUME ReplacementAssumption, SInv, RowIsTrue, NEW c \in Sources, permit[c] = "confirmed"
    PROVE  Measured(c).on => /\ left[c] <= Measured(c).left
                             /\ left[c] = Measured(c).left => Measured(c).still <= quiet
<1>1. /\ row \in Row /\ left[c] \in 0 .. Size /\ quiet \in 0 .. Horizon
      /\ Size \in Nat /\ Horizon \in Nat
  BY DEF SInv, TypeOK, Row, ReplacementAssumption
<1>2. row.on => left[c] <= row.left /\ (left[c] = row.left => row.still <= quiet)
  BY DEF RowIsTrue
<1>3. row.on => Still(c) <= quiet
  BY <1>1, <1>2 DEF Still, Row
<1>4. \/ Measured(c) = row \/ Measured(c) = NoRow
      \/ Measured(c) = [on |-> TRUE, left |-> left[c], still |-> 0, age |-> 0, from |-> left[c],
                        replacing |-> FALSE]
      \/ row.on /\ Measured(c).left = left[c] /\ Measured(c).still = Still(c)
  <2> DEFINE age == IF Restarts(c) THEN 0 ELSE row.age
             from == IF Restarts(c) THEN left[c] ELSE row.from
             still == Still(c)
             now == left[c]
             new == [row EXCEPT !.left = now, !.still = still, !.replacing = FALSE, !.age = age,
                                !.from = from]
  <2>1. new.left = now /\ new.still = still
    <3> HIDE DEF age, from, still, now
    <3> QED
      BY <1>1 DEF Row
  <2> HIDE DEF new
  <2>2. \/ Measured(c) = row \/ Measured(c) = NoRow
        \/ Measured(c) = [on |-> TRUE, left |-> left[c], still |-> 0, age |-> 0, from |-> left[c],
                          replacing |-> FALSE]
        \/ row.on /\ Measured(c) = new
    BY DEF Measured, new
  <2>3. Measured(c) = new => Measured(c).left = left[c] /\ Measured(c).still = Still(c)
    BY <2>1
  <2> QED
    BY <2>2, <2>3
<1> QED
  BY <1>1, <1>2, <1>3, <1>4 DEF NoRow

\* What is left only falls, by what a source receives.
LEMMA LeftFalls ==
    ASSUME [Next]_vars, \A c \in Sources : ~ Progress(c)
    PROVE  UNCHANGED left
  BY DEF Next, Work, Look, Begin, Retire, Issue, Again, Retry, Reconcile, GiveUp, Replace, Resume,
     Clear, Put, Post, Renew, Handle, Confirm, Fault, Tick, Expire, Environment, HandleLate, Grab, Drop,
     LoseAdd, Wait, Advance, Pause, Unpause, Obey, vars

\* No step makes the measurements say more.
LEMMA RowStaysTrue ==
    ASSUME ReplacementAssumption, SInv, RowIsTrue, [Next]_vars
    PROVE  RowIsTrue'
<1> DEFINE Says(c) == left[c] <= row.left /\ (left[c] = row.left => row.still <= quiet)
           SaysNext(c) == left'[c] <= row'.left /\ (left'[c] = row'.left => row'.still <= quiet')
           Goal == row'.on => /\ \E c \in Sources : permit'[c] = "confirmed"
                              /\ \A c \in Sources : permit'[c] = "confirmed" => SaysNext(c)
<1>1. /\ row \in Row /\ quiet \in 0 .. Horizon /\ Size \in Nat /\ Horizon \in Nat
      /\ \A c \in Sources : left[c] \in 0 .. Size
  BY DEF SInv, TypeOK, Row, ReplacementAssumption
<1>2. \A c \in Sources : row.on /\ permit[c] = "confirmed" => Says(c)
  BY DEF RowIsTrue
<1>3. row.on => \E c \in Sources : permit[c] = "confirmed"
  BY DEF RowIsTrue
<1>4. ASSUME NEW c \in Sources, Look(c) PROVE Goal
  <2>1. permit[c] = "confirmed" /\ row' = Measured(c) /\ UNCHANGED <<permit, left, quiet>>
    BY <1>4 DEF Look, gate, ghosts
  <2>2. \A d \in Sources : permit[d] = "confirmed" => d = c
    BY <2>1 DEF SInv, OnePermit, Active
  <2> QED
    BY <2>1, <2>2, LookIsTrue
<1>5. ASSUME NEW c \in Sources, Begin(c) \/ Clear PROVE Goal
  <2>1. \E b \in BOOLEAN : row' = [row EXCEPT !.replacing = b]
    BY <1>5 DEF Begin, Clear
  <2>2. row'.on = row.on /\ row'.left = row.left /\ row'.still = row.still
    BY <1>1, <2>1 DEF Row
  <2>3. UNCHANGED <<permit, left, quiet>>
    BY <1>5 DEF Begin, Clear, gate, ghosts
  <2> QED
    BY <1>2, <1>3, <2>2, <2>3
<1>6. ASSUME Replace PROVE Goal
  <2>1. row' = NewRow \/ UNCHANGED <<row, permit>>
    BY <1>6 DEF Replace
  <2>2. UNCHANGED <<left, quiet>>
    BY <1>6 DEF Replace, ghosts
  <2> QED
    BY <1>2, <1>3, <2>1, <2>2 DEF NewRow, NoRow
<1>7. ASSUME Tick PROVE Goal
  <2>1. UNCHANGED <<permit, left>> /\ quiet' = Older(quiet)
    BY <1>7 DEF Tick, gate
  <2>2. row'.on = row.on /\ row'.left = row.left /\ (row.on => row'.still = Older(row.still))
    BY <1>1, <1>7 DEF Tick, Row
  <2>3. row.still <= quiet => Older(row.still) <= Older(quiet)
    BY <1>1 DEF Older, Row
  <2> QED
    BY <1>2, <1>3, <2>1, <2>2, <2>3
<1>8. ASSUME UNCHANGED row, row.on, ~ Tick, ~ Replace PROVE Goal
  <2>1. PICK c \in Sources : permit[c] = "confirmed"
    BY <1>3, <1>8
  <2>2. \A d \in Sources : Active(d) => d = c
    BY <2>1 DEF SInv, OnePermit, Active
  <2>3. \A d \in Sources : permit[d] # "authorized" /\ permit[d] # "unknown"
    BY <2>1, <2>2 DEF Active
  <2>4. Says(c)
    BY <1>2, <1>8, <2>1
  <2>5. ASSUME \E d \in Sources : Progress(d) PROVE Goal
    <3>1. PICK d \in Sources : Progress(d)
      BY <2>5
    <3>2. UNCHANGED permit /\ left' = [left EXCEPT ![d] = @ - 1] /\ (UNCHANGED quiet \/ quiet' = 0)
      BY <3>1 DEF Progress, gate, ghosts
    <3>3. left \in [Sources -> 0 .. Size]
      BY DEF SInv, TypeOK
    <3>4. \A e \in Sources : permit[e] = "confirmed" => e = c
      BY <2>2 DEF Active
    <3>5. SaysNext(c)
      <4>1. CASE d = c
        <5>1. left'[c] = left[c] - 1
          BY <3>2, <3>3, <4>1
        <5> QED
          BY <1>1, <1>8, <2>4, <5>1 DEF Row
      <4>2. CASE d # c
        <5>1. left'[c] = left[c]
          BY <3>2, <3>3, <4>2
        <5>2. ~ Current(d)
          BY <2>2, <4>2 DEF Current, Active
        <5>3. UNCHANGED quiet
          BY <3>1, <5>2 DEF Progress, ghosts
        <5> QED
          BY <1>8, <2>4, <5>1, <5>3
      <4> QED
        BY <4>1, <4>2
    <3> QED
      BY <2>1, <3>2, <3>4, <3>5
  <2>6. ASSUME \A d \in Sources : ~ Progress(d) PROVE Goal
    <3>1. UNCHANGED quiet
      BY <1>8, <2>3, <2>6, QuietRestarts
    <3>2. UNCHANGED left
      BY <2>6, LeftFalls
    <3>3. UNCHANGED permit
      BY <1>8, <2>1, <2>3, GateMoves DEF Stays, Spent, Toggled, Obeyed, Moved, Received, Retire, Issue,
         Reconcile, History
    <3> QED
      BY <1>8, <2>1, <2>2, <2>4, <3>1, <3>2, <3>3 DEF Active
  <2> QED
    BY <2>5, <2>6
<1>9. Goal
  BY <1>4, <1>5, <1>6, <1>7, <1>8, RowWrites
<1>10. w'.step = "idle" => w'.reason = "none"
  BY IdleFoundNothing
<1> QED
  BY <1>9, <1>10 DEF RowIsTrue

-----------------------------------------------------------------------------
(* The theorems *)

\* The invariant holds in every reachable state.
THEOREM ReplacementInvariance == Spec => []SInv
<1>1. Init => SInv
  BY ReplacementStarts, ReplacementAssumption
<1>2. SInv /\ [Next]_vars => SInv'
  BY ReplacementSteps, ReplacementAssumption
<1> QED
  BY <1>1, <1>2, PTL DEF Spec

\* `replace_confirmed`, `renew_replacement_authorized` and `add_torrent`: a torrent is only
\* ever added beside stopped ones, however old its authorization is and whatever was
\* switched off, restarted or delayed since.
THEOREM NewcomersAreAlone == Spec => NewcomerAlone
<1> DEFINE Alone == \A c, d \in Sources :
                        torrent[c] = "absent" /\ torrent'[c] # "absent" /\ c # d
                            => torrent[d] \in {"absent", "stopped"}
<1>1. SInv /\ [Next]_vars => Alone
  <2> SUFFICES ASSUME SInv, [Next]_vars, NEW c \in Sources, NEW d \in Sources,
                      torrent[c] = "absent", torrent'[c] # "absent", c # d
               PROVE  torrent[d] \in {"absent", "stopped"}
    OBVIOUS
  <2>1. permit[c] # "confirmed"
    BY DEF SInv, TorrentHasPermit
  <2>2. permit[c] = "authorized"
    <3>1. ASSUME NEW b \in Sources, Spent(b) PROVE permit[c] = "authorized"
      BY <3>1 DEF Spent, SInv, TypeOK
    <3>2. ASSUME NEW b \in Sources, Obeyed(b) \/ Moved(b) PROVE FALSE
      BY <3>2 DEF Obeyed, Moved, SInv, TypeOK, TorrentHasPermit
    <3>3. CASE UNCHANGED torrent
      BY <3>3
    <3> QED
      BY <3>1, <3>2, <3>3, GateMoves, ReplacementAssumption
         DEF Stays, Toggled, Received, Replace, Retire, Issue, Reconcile, queue
  <2> QED
    BY <2>2 DEF SInv, OthersAreStopped
<1>2. SInv /\ [Next]_vars => [Alone]_vars
  BY <1>1
<1> QED
  BY <1>2, ReplacementInvariance, PTL DEF Spec, NewcomerAlone

\* `source_state`, `replace_confirmed`: a source that completes while its replacement is
\* under way keeps its permit, for it is superseded only stopped and incomplete.
THEOREM CompleteSourcesAreKept == Spec => CompleteIsKept
<1> DEFINE Kept == \A c \in Sources :
                       left[c] = 0 /\ permit[c] = "confirmed" => permit'[c] = "confirmed"
<1>1. SInv /\ [Next]_vars => Kept
  <2> SUFFICES ASSUME SInv, [Next]_vars, NEW c \in Sources, left[c] = 0, permit[c] = "confirmed"
               PROVE  permit'[c] = "confirmed"
    OBVIOUS
  <2>1. CASE Replace
    <3>1. c # w.old /\ c # w.new
      BY <2>1 DEF Replace, SInv, ReplaceIsReady
    <3> QED
      BY <2>1, <3>1 DEF Replace, SInv, TypeOK
  <2>2. ASSUME NEW b \in Sources, Spent(b) \/ Retire(b) \/ Reconcile(b)
        PROVE  permit'[c] = "confirmed"
    BY <2>2 DEF Spent, Retire, Reconcile, SInv, TypeOK
  <2>3. ASSUME NEW b \in Sources, Issue(b)
        PROVE  permit'[c] = "confirmed"
    BY <2>3 DEF Issue, History
  <2>4. CASE UNCHANGED permit
    BY <2>4
  <2> QED
    BY <2>1, <2>2, <2>3, <2>4, GateMoves, ReplacementAssumption DEF Stays, Toggled, Obeyed, Moved, Received
<1>2. SInv /\ [Next]_vars => [Kept]_vars
  BY <1>1
<1> QED
  BY <1>2, ReplacementInvariance, PTL DEF Spec, CompleteIsKept

\* `_source_status`: five minutes without progress have passed when the worker starts to
\* search for another source, whatever restarts, replacements and queues came between.
THEOREM StallsAreReal == Spec => StallIsReal
<1>1. Init => RowIsTrue
  BY DEF Init, Idle, NoRow, RowIsTrue
<1>2. SInv /\ RowIsTrue /\ [Next]_vars => RowIsTrue'
  BY RowStaysTrue, ReplacementAssumption
<1>3. SInv /\ RowIsTrue /\ [Next]_vars
        => [w.step = "idle" /\ w'.reason = "stalled" => quiet >= Stalled]_vars
  <2> SUFFICES ASSUME SInv, RowIsTrue, [Next]_vars, w.step = "idle", w'.reason = "stalled"
               PROVE  quiet >= Stalled
    OBVIOUS
  <2>1. w.reason = "none" /\ w.call = "none"
    BY DEF RowIsTrue, SInv, TypeOK, StepIsMeant, Calls
  <2>2. PICK c \in Sources : Look(c)
    <3>1. CASE \E c \in Sources : Issue(c) \/ Again(c) \/ Retry(c)
      BY <3>1 DEF Issue, Again, Retry, Idle
    <3>2. CASE UNCHANGED w \/ w' = Idle
      BY <2>1, <3>2 DEF Idle
    <3> QED
      BY <2>1, <3>1, <3>2 DEF Next, Work, Begin, Retire, Reconcile, GiveUp, Replace, Resume, Clear,
         Put, Post, Renew, Handle, Confirm, Fault, Tick, Expire, Environment, HandleLate, Grab, Drop,
         LoseAdd, Progress, Wait, Advance, Pause, Unpause, Obey, vars
  <2>3. PICK connected \in BOOLEAN : Reason(c, connected) = "stalled"
    <3>1. PICK connected \in BOOLEAN :
              w' = IF Reason(c, connected) = "none" THEN w
                   ELSE [Idle EXCEPT !.step = "search", !.old = c, !.reason = Reason(c, connected)]
      BY <2>2 DEF Look
    <3> DEFINE reason == Reason(c, connected)
    <3>2. w' = IF reason = "none" THEN w
               ELSE [Idle EXCEPT !.step = "search", !.old = c, !.reason = reason]
      BY <3>1
    <3>3. reason = "stalled"
      <4> HIDE DEF reason
      <4> QED
        BY <2>1, <3>2 DEF Idle
    <3> QED
      BY <3>3
  <2>4. /\ left[c] \in Nat /\ row.left \in Nat /\ row.still \in Nat /\ quiet \in Nat
        /\ Stalled \in Nat \ {0}
    BY ReplacementAssumption DEF SInv, TypeOK, ReplacementAssumption
  <2>5. row.on /\ left[c] > 0 /\ Still(c) >= Stalled
    BY <2>3, <2>4 DEF Reason
  <2>6. left[c] <= row.left /\ (left[c] = row.left => row.still <= quiet)
    BY <2>2, <2>5 DEF Look, RowIsTrue
  <2> QED
    BY <2>4, <2>5, <2>6 DEF Still
<1> QED
  BY <1>1, <1>2, <1>3, ReplacementInvariance, PTL DEF Spec, StallIsReal

\* Every variable keeps its type.
THEOREM ReplacementTypesHold == Spec => []TypeOK
<1>1. SInv => TypeOK
  BY DEF SInv
<1> QED
  BY <1>1, ReplacementInvariance, PTL
=============================================================================
