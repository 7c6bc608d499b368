------------------------- MODULE SeriesWindowProofs -------------------------
(***************************************************************************)
(* For any seasons, packs, sizes and window: every slot has a source whose  *)
(* permit is active, and the visits, the transfers and the requests have    *)
(* their types, whatever was lost, late or given up. Both need what a visit *)
(* carries: its plan names torrents that serve episodes, and the pack of a  *)
(* recovery is authorized and not yet bound.                                *)
(***************************************************************************)
EXTENDS SeriesWindow, TLAPS, WellFoundedInduction

-----------------------------------------------------------------------------
(* What serves an episode *)

\* The torrents that a visit stops and starts serve episodes.
PlanServes ==
    w.step \in {"known", "queue"} =>
        \A t \in w.stops \cup w.starts : \E e \in Episodes : Source(e) = t

\* A recovery holds the authorization of a pack that it has not bound yet, and the sources
\* it stops are episodes of that season.
RecoveryIsUnbound ==
    /\ w.step \notin {"idle"} => w.season \in Seasons
    /\ w.step \in {"recover", "bind", "failed"} =>
           /\ Unbound(w.season)
           /\ \A t \in w.starts : t \in Episodes /\ Season[t] = w.season
    /\ w.step = "recover" =>
           /\ \A t \in w.stops : t \in Episodes /\ Season[t] = w.season
           /\ w.call # NoCall => w.call.torrent \in Episodes /\ Season[w.call.torrent] = w.season

VInv == TypeOK /\ SlotsHaveSources /\ PlanServes /\ RecoveryIsUnbound

-----------------------------------------------------------------------------
(* The first of several *)

\* Every set of numbers that is not empty has a least one.
LEMMA LeastNumber ==
    ASSUME NEW S \in SUBSET Nat, S # {}
    PROVE  \E m \in S : \A n \in S : m <= n
<1> DEFINE R == {ss \in Nat \X Nat : ss[1] < ss[2]}
<1>1. IsWellFoundedOn(R, Nat)
  <2>1. R = OpToRel(<, Nat)
    BY Zenon DEF OpToRel
  <2> QED
    BY <2>1, NatLessThanWellFounded, Zenon
<1>2. \A RR, SS : IsWellFoundedOn(RR, SS) =>
          \A T : T \subseteq SS /\ T # {} => \E x \in T : \A y \in T : ~ (<<y, x>> \in RR)
  BY WFMin, Zenon
<1>3. \A T : T \subseteq Nat /\ T # {} => \E x \in T : \A y \in T : ~ (<<y, x>> \in R)
  BY <1>1, <1>2, Zenon
<1>4. PICK m \in S : \A n \in S : ~ (<<n, m>> \in R)
  BY <1>3
<1>5. \A n \in S : ~ (n < m)
  BY <1>4
<1> QED
  BY <1>5

\* So `Min` names the least of them.
LEMMA MinIsLeast ==
    ASSUME NEW S \in SUBSET Nat, S # {}
    PROVE  Min(S) \in S /\ \A n \in S : Min(S) <= n
  BY LeastNumber DEF Min

\* Of torrents that serve episodes one is the first.
LEMMA FirstIsOne ==
    ASSUME WindowAssumption, NEW S, S # {}, \A t \in S : \E e \in Episodes : Source(e) = t
    PROVE  FirstOf(S) \in S
<1> DEFINE Its(t) == {e \in Episodes : Source(e) = t}
           first(t) == Min(Its(t))
           M == {first(t) : t \in S}
<1>1. ASSUME NEW t \in S PROVE first(t) \in Nat
  <2>1. Its(t) \in SUBSET Nat /\ Its(t) # {}
    BY DEF WindowAssumption
  <2> HIDE DEF Its
  <2> QED
    BY <2>1, MinIsLeast
<1>2. \A t, u : Before(t, u) <=> first(t) <= first(u)
  BY DEF Before
<1> HIDE DEF first
<1>3. M \in SUBSET Nat /\ M # {}
  BY <1>1
<1>4. PICK m \in M : \A n \in M : m <= n
  <2> HIDE DEF M
  <2> QED
    BY <1>3, LeastNumber
<1>5. PICK t \in S : m = first(t)
  BY <1>4
<1>6. \A u \in S : Before(t, u)
  BY <1>2, <1>4, <1>5
<1> QED
  BY <1>6 DEF FirstOf

-----------------------------------------------------------------------------
(* Types *)

Steps == {"idle", "plan", "known", "queue", "grab", "recover", "bind", "failed", "resume"}
Visits == [step : Steps, season : Seasons \cup {0}, pending : SUBSET Episodes, catalog : BOOLEAN,
           window : SUBSET Episodes, stops : SUBSET Torrents, starts : SUBSET Torrents,
           blocked : BOOLEAN, call : Calls \cup {NoCall}]

\* A worker between two visits carries nothing.
LEMMA IdleIsAVisit == Idle \in Visits /\ Idle.step = "idle"
  BY DEF Idle, Visits, Steps

\* What serves an episode is a torrent of the series.
LEMMA SourceIsATorrent ==
    ASSUME WindowAssumption, NEW e \in Episodes
    PROVE  Source(e) \in Torrents
  BY DEF Source, Torrents, WindowAssumption

\* `_select_download_window` selects among what it is given.
LEMMA WindowIsOfEpisodes ==
    ASSUME NEW due, due \subseteq Episodes
    PROVE  InWindow(due) \subseteq Episodes
  BY DEF InWindow

\* What a visit may become, one part of it at a time.
LEMMA VisitEdits ==
    ASSUME w \in Visits
    PROVE  /\ \A step \in Steps : [w EXCEPT !.step = step] \in Visits
           /\ \A call \in Calls \cup {NoCall} : [w EXCEPT !.call = call] \in Visits
           /\ \A step \in Steps : [w EXCEPT !.step = step, !.call = NoCall] \in Visits
           /\ \A stops, starts \in SUBSET Torrents, step \in Steps :
                  [w EXCEPT !.step = step, !.stops = stops, !.starts = starts] \in Visits
  BY DEF Visits

\* Every step of a visit leaves a visit: what it asks for are torrents of the series.
LEMMA VisitStaysTyped ==
    ASSUME WindowAssumption, VInv, [Next]_vars
    PROVE  w' \in Visits
<1>0. w \in Visits /\ w.stops \subseteq Torrents /\ w.starts \subseteq Torrents
  BY DEF VInv, TypeOK, Visits, Steps
<1>1. UNCHANGED w => w' \in Visits
  BY <1>0
<1>2. w' = Idle => w' \in Visits
  BY IdleIsAVisit
<1>3. ASSUME NEW step \in Steps, w' = [w EXCEPT !.step = step] PROVE w' \in Visits
  BY <1>0, <1>3, VisitEdits
<1>4. ASSUME NEW S \in SUBSET Torrents, NEW call \in Calls \cup {NoCall},
             w' = [w EXCEPT !.stops = S, !.call = call]
      PROVE  w' \in Visits
  BY <1>0, <1>4 DEF Visits
<1>5. ASSUME NEW s \in Seasons, Look(s) PROVE w' \in Visits
  <2> DEFINE pending == {e \in Episodes : /\ Wanted(Season[e]) /\ Season[e] \in listed
                                          /\ e \notin imported}
             catalog == CatalogComplete(s)
  <2>1. pending \in SUBSET Episodes /\ catalog \in BOOLEAN
    BY DEF CatalogComplete
  <2>2. \/ UNCHANGED w
        \/ w' = [Idle EXCEPT !.step = "plan", !.season = s, !.catalog = catalog, !.pending = pending]
    BY <1>5 DEF Look
  <2> HIDE DEF pending, catalog
  <2> QED
    BY <1>1, <2>1, <2>2, IdleIsAVisit DEF Visits, Steps
<1>6. ASSUME NEW ok \in BOOLEAN, Plan(ok) PROVE w' \in Visits
  <2> DEFINE window == IF w.catalog THEN InWindow(DownloadPending(w.pending, ok)) ELSE {}
             starts == {Source(e) : e \in Reconciled(w.season) \cap window}
             stops == {Source(e) : e \in Reconciled(w.season)} \ starts
  <2>1. w.pending \subseteq Episodes
    BY <1>0 DEF Visits
  <2>2. window \in SUBSET Episodes
    <3>1. DownloadPending(w.pending, ok) \subseteq Episodes
      BY <2>1 DEF DownloadPending
    <3> QED
      BY <3>1, WindowIsOfEpisodes
  <2>3. starts \in SUBSET Torrents /\ stops \in SUBSET Torrents
    BY <2>1, SourceIsATorrent DEF Reconciled
  <2>4. \/ w' = Idle
        \/ w' = [w EXCEPT !.step = "known", !.window = window, !.starts = starts, !.stops = stops]
    BY <1>6 DEF Plan
  <2> HIDE DEF window, starts, stops
  <2> QED
    BY <1>0, <1>2, <2>2, <2>3, <2>4 DEF Visits, Steps
<1>7. ASSUME NEW ok \in BOOLEAN, Known(ok) PROVE w' \in Visits
  <2> DEFINE complete == IF ok THEN {t \in Torrents : left[t] = 0} ELSE {}
  <2>1. w' = [w EXCEPT !.step = "queue", !.stops = @ \ complete, !.starts = @ \ complete]
    BY <1>7 DEF Known
  <2> HIDE DEF complete
  <2> QED
    BY <1>0, <2>1 DEF Visits, Steps
<1>8. ASSUME NEW S, S # {}, S \subseteq w.stops \cup w.starts, w.step = "queue",
             NEW action \in {"stop", "start"}
      PROVE  FirstOf(S) \in S /\ FirstOf(S) \in Torrents /\ Ask(FirstOf(S), action) \in Calls
  <2>1. \A t \in S : \E e \in Episodes : Source(e) = t
    BY <1>8 DEF VInv, PlanServes
  <2>2. FirstOf(S) \in S
    BY <1>8, <2>1, FirstIsOne
  <2>3. FirstOf(S) \in Torrents
    BY <1>0, <1>8, <2>2
  <2> QED
    BY <1>8, <2>2, <2>3 DEF Ask, Calls
<1>9. CASE AskStop
  <2> DEFINE t == FirstOf(w.stops)
             call == Ask(t, "stop")
             stops == w.stops \ {t}
  <2>1. w.step = "queue" /\ w.stops # {}
    BY <1>9 DEF AskStop, Todo
  <2>2. call \in Calls
    BY <1>8, <2>1
  <2>3. w' = Idle \/ w' = [w EXCEPT !.stops = stops, !.call = call]
    BY <1>9 DEF AskStop
  <2>4. stops \in SUBSET Torrents
    BY <1>0
  <2> HIDE DEF call, stops
  <2> QED
    BY <1>2, <1>4, <2>2, <2>3, <2>4
<1>10. ASSUME NEW ok \in BOOLEAN, AskStart(ok) PROVE w' \in Visits
  <2> DEFINE t == FirstOf(w.starts)
             starts == w.starts \ {t}
             stop == Ask(t, "stop")
             start == Ask(t, "start")
  <2>1. w.step = "queue" /\ w.starts # {}
    BY <1>10 DEF AskStart, Todo
  <2>2. stop \in Calls /\ start \in Calls
    BY <1>8, <2>1
  <2>3. \/ w' = Idle \/ w' = [w EXCEPT !.starts = starts]
        \/ w' = [w EXCEPT !.starts = starts, !.call = stop, !.blocked = TRUE]
        \/ w' = [w EXCEPT !.starts = starts, !.call = start, !.blocked = FALSE]
    BY <1>10 DEF AskStart
  <2>4. starts \in SUBSET Torrents
    BY <1>0
  <2> HIDE DEF starts, stop, start
  <2> QED
    BY <1>0, <1>2, <2>2, <2>3, <2>4 DEF Visits
<1>11. CASE Handle \/ Confirm
  <2> DEFINE starts == w.starts \cup {w.call.torrent}
             sent == [w.call EXCEPT !.sent = TRUE]
  <2>1. w.call \in Calls
    BY <1>0, <1>11 DEF Handle, Confirm, Visits
  <2>2. starts \in SUBSET Torrents /\ sent \in Calls
    BY <1>0, <2>1 DEF Calls
  <2>3. \/ w' = Idle \/ w' = [w EXCEPT !.call = NoCall] \/ w' = [w EXCEPT !.call = sent]
        \/ w' = [w EXCEPT !.call = NoCall, !.starts = starts]
        \/ w' = [w EXCEPT !.step = "failed", !.call = NoCall]
    BY <1>11 DEF Handle, Confirm, Answered
  <2> HIDE DEF starts, sent
  <2> QED
    BY <1>0, <1>2, <2>2, <2>3 DEF Visits, Steps
<1>12. CASE Grab
  <2>1. w.step = "grab" /\ w.season \in Seasons
    BY <1>12 DEF Grab, VInv, RecoveryIsUnbound
  <2> DEFINE stops == Stalled(w.season)
             s == w.season
  <2>2. stops \in SUBSET Torrents
    BY DEF Stalled, Torrents
  <2>3. \/ w' = Idle \/ UNCHANGED w
        \/ w' = [Idle EXCEPT !.step = "recover", !.season = s, !.stops = stops]
    BY <1>12 DEF Grab, GrabPack
  <2> HIDE DEF stops
  <2> QED
    BY <1>1, <1>2, <2>1, <2>2, <2>3, IdleIsAVisit DEF Visits, Steps
<1>13. CASE StopDead
  <2>1. CASE w' = [w EXCEPT !.step = "failed"]
    BY <1>3, <2>1 DEF Steps
  <2>2. ASSUME NEW t \in w.stops, w' = [w EXCEPT !.stops = @ \ {t}, !.call = Strictly(t, "stop")]
        PROVE  w' \in Visits
    <3> DEFINE stops == w.stops \ {t}
               call == Strictly(t, "stop")
    <3>1. stops \in SUBSET Torrents /\ call \in Calls
      BY <1>0 DEF Calls, Strictly
    <3>2. w' = [w EXCEPT !.stops = stops, !.call = call]
      BY <2>2
    <3> HIDE DEF stops, call
    <3> QED
      BY <1>4, <3>1, <3>2
  <2> QED
    BY <1>13, <2>1, <2>2 DEF StopDead
<1>14. ASSUME NEW ok \in BOOLEAN, Measure(ok) PROVE w' \in Visits
  BY <1>3, <1>14 DEF Measure, Steps
<1>15. CASE Bind
  BY <1>2, <1>3, <1>15 DEF Bind, Steps
<1>16. CASE CancelRecovery
  BY <1>0, <1>2, <1>16 DEF CancelRecovery, Visits, Steps
<1>17. ASSUME NEW ok \in BOOLEAN, Resume(ok) PROVE w' \in Visits
  <2>1. CASE w' = Idle
    BY <1>2, <2>1
  <2>2. ASSUME NEW t \in w.starts,
               w' = IF ok /\ permit[t] = "confirmed" /\ Fits(t)
                    THEN [w EXCEPT !.starts = @ \ {t}, !.call = Strictly(t, "start")]
                    ELSE [w EXCEPT !.starts = @ \ {t}]
        PROVE  w' \in Visits
    <3> DEFINE starts == w.starts \ {t}
               call == Strictly(t, "start")
    <3>1. starts \in SUBSET Torrents /\ call \in Calls
      BY <1>0 DEF Calls, Strictly
    <3>2. w' = [w EXCEPT !.starts = starts, !.call = call] \/ w' = [w EXCEPT !.starts = starts]
      BY <2>2
    <3> HIDE DEF starts, call
    <3> QED
      BY <1>0, <3>1, <3>2 DEF Visits
  <2> QED
    BY <1>17, <2>1, <2>2 DEF Resume
<1>18. CASE Fault
  <2>1. w' = Idle \/ w' = [w EXCEPT !.step = "failed", !.call = NoCall]
    BY <1>18 DEF Fault
  <2> QED
    BY <1>0, <1>2, <2>1 DEF Visits, Steps
<1>19. CASE AllAsked
  BY <1>2, <1>3, <1>19 DEF AllAsked, Steps
<1> QED
  BY <1>1, <1>5, <1>6, <1>7, <1>9, <1>10, <1>11, <1>12, <1>13, <1>14, <1>15, <1>16, <1>17, <1>18,
     <1>19 DEF Next, Work, HandleLate, Obey, Request, List, Offer, Withdraw, Erase, Dispatch,
     Progress, Import, Outside, vars

\* Only the handlers, qBittorrent's confirmation and a deletion touch the transfers, only
\* the worker, the confirmation and a deletion the permits and the slots.
LEMMA WorldStaysTyped ==
    ASSUME WindowAssumption, VInv, [Next]_vars
    PROVE  TypeOK'
<1> DEFINE Rest == /\ season \in [Seasons -> {"none", "wanted", "gone"}] /\ listed \subseteq Seasons
                   /\ offered \subseteq Packs /\ outside \in 0 .. MaxOutside
                   /\ turn \subseteq Seasons /\ faults \in 0 .. MaxFaults /\ late \subseteq Calls
                   /\ imported \subseteq Episodes
           Slots == /\ slot \in [Episodes -> {"none", "own", "pack"}]
                    /\ permit \in [Torrents -> {"none", "authorized", "confirmed", "superseded"}]
           Bytes0 == /\ left \in [Torrents -> Nat] /\ \A t \in Torrents : left[t] <= Size[t]
                     /\ run \in [Torrents -> BOOLEAN] /\ told \subseteq Torrents
<1>0. /\ Rest /\ Slots /\ Bytes0 /\ MaxOutside \in Nat /\ MaxFaults \in Nat
      /\ Size \in [Torrents -> Nat \ {0}]
  BY DEF VInv, TypeOK, WindowAssumption
<1>1. Rest'
  <2>1. \A ok \in BOOLEAN : Evidence(ok) =>
            UNCHANGED faults \/ (faults < MaxFaults /\ faults' = faults + 1)
    BY DEF Evidence
  <2>2. faults' \in 0 .. MaxFaults
    <3>1. UNCHANGED faults \/ (faults < MaxFaults /\ faults' = faults + 1)
      <4>1. CASE \E ok \in BOOLEAN : Evidence(ok)
        BY <2>1, <4>1
      <4>2. CASE Fault
        BY <4>2 DEF Fault
      <4> QED
        BY <4>1, <4>2 DEF Next, Work, Look, Plan, Known, AskStart, Measure, Resume, AskStop, AllAsked,
           Grab, StopDead, Bind, CancelRecovery, Handle, Confirm, HandleLate, Obey, Request, List, Offer, Withdraw,
           Erase, Dispatch, Progress, Import, Outside, vars
    <3> QED
      BY <1>0, <3>1
  <2>3. late' \subseteq Calls
    <3>1. CASE Fault
      <4>1. w.call \in Calls \cup {NoCall}
        BY DEF VInv, TypeOK
      <4> QED
        BY <1>0, <3>1, <4>1 DEF Fault
    <3>2. CASE late' \subseteq late
      BY <1>0, <3>2
    <3> QED
      BY <3>1, <3>2 DEF Next, Work, Look, Plan, Known, AskStart, Measure, Resume, AskStop, AllAsked,
         Grab, StopDead, Bind, CancelRecovery, Handle, Confirm, HandleLate, Obey, Request, List, Offer, Withdraw,
         Erase, Dispatch, Progress, Import, Outside, vars
  <2>4. turn' \subseteq Seasons /\ imported' \subseteq Episodes
    BY <1>0 DEF Next, Work, Look, Plan, Known, AskStart, Measure, Resume, AskStop, AllAsked, Grab,
       StopDead, Bind, CancelRecovery, Handle, Confirm, Fault, HandleLate, Obey, Request, List, Offer, Withdraw,
       Erase, Dispatch, Progress, Import, Outside, vars
  <2>5. /\ season' \in [Seasons -> {"none", "wanted", "gone"}] /\ listed' \subseteq Seasons
        /\ offered' \subseteq Packs /\ outside' \in 0 .. MaxOutside
    <3>1. ASSUME NEW s \in Seasons, Request(s) \/ Withdraw(s) \/ List(s) \/ Offer(s)
          PROVE  /\ season' \in [Seasons -> {"none", "wanted", "gone"}] /\ listed' \subseteq Seasons
                 /\ offered' \subseteq Packs /\ outside' \in 0 .. MaxOutside
      BY <1>0, <3>1 DEF Request, Withdraw, List, Offer
    <3>2. ASSUME NEW n \in 1 .. MaxOutside, Outside(n)
          PROVE  UNCHANGED <<season, listed, offered>> /\ outside' \in 0 .. MaxOutside
      BY <1>0, <3>2 DEF Outside
    <3>3. CASE UNCHANGED world
      BY <1>0, <3>3 DEF world
    <3> QED
      BY <1>0, <3>1, <3>2, <3>3 DEF Next, Work, Look, Plan, Known, AskStart, Measure, Resume, AskStop,
         AllAsked, Grab, StopDead, Bind, CancelRecovery, Handle, Confirm, Fault, HandleLate, Obey, Erase, Dispatch,
         Progress, Import, vars
  <2> QED
    BY <2>2, <2>3, <2>4, <2>5
<1>2. Slots'
  <2>1. CASE Grab
    <3>1. CASE UNCHANGED slot /\ \E t, x \in {"none", "authorized"} : permit' = [permit EXCEPT ![t] = x]
      BY <1>0, <3>1
    <3> QED
      BY <1>0, <2>1, <3>1 DEF Grab, GrabPack
  <2>2. CASE Bind \/ CancelRecovery
    BY <1>0, <2>2 DEF Bind, CancelRecovery
  <2>3. ASSUME NEW s \in Seasons, Erase(s) PROVE Slots'
    BY <1>0, <2>3 DEF Erase
  <2>4. ASSUME NEW t \in Torrents, Dispatch(t) PROVE Slots'
    BY <1>0, <2>4 DEF Dispatch
  <2>5. CASE UNCHANGED <<slot, permit>>
    BY <1>0, <2>5
  <2> QED
    BY <2>1, <2>2, <2>3, <2>4, <2>5 DEF Next, Work, Look, Plan, Known, AskStart, Measure, Resume,
       AskStop, AllAsked, StopDead, Handle, Confirm, Fault, HandleLate, Obey, Request, List, Offer, Withdraw,
       Progress, Import, Outside, vars
<1>3. Bytes0'
  <2>1. ASSUME NEW c \in Calls, Apply(c) PROVE told' \subseteq Torrents
    BY <1>0, <2>1 DEF Apply, Calls
  <2>2. CASE Handle \/ \E c \in late : HandleLate(c)
    <3>1. UNCHANGED <<left, run>> /\ \E c \in Calls : Apply(c)
      <4>1. w.call \in Calls \cup {NoCall} /\ late \subseteq Calls
        BY <1>0 DEF VInv, TypeOK
      <4> QED
        BY <2>2, <4>1 DEF Handle, HandleLate
    <3> QED
      BY <1>0, <2>1, <3>1
  <2>3. ASSUME NEW s \in Seasons, Erase(s) PROVE Bytes0'
    <3> DEFINE its == {t \in Torrents : SeasonOf(t) = s}
    <3>1. /\ left' = [t \in Torrents |-> IF t \in its THEN Size[t] ELSE left[t]]
          /\ run' = [t \in Torrents |-> run[t] /\ t \notin its] /\ told' = told \ its
      BY <2>3 DEF Erase
    <3> HIDE DEF its
    <3>2. left' \in [Torrents -> Nat] /\ \A t \in Torrents : left'[t] <= Size[t]
      BY <1>0, <3>1
    <3>3. run' \in [Torrents -> BOOLEAN] /\ told' \subseteq Torrents
      BY <1>0, <3>1
    <3> QED
      BY <3>2, <3>3
  <2>4. ASSUME NEW t \in Torrents, Dispatch(t) PROVE Bytes0'
    BY <1>0, <2>4 DEF Dispatch
  <2>5. ASSUME NEW t \in Torrents, Progress(t) PROVE Bytes0'
    <3>1. /\ left' = [left EXCEPT ![t] = @ - 1] /\ left[t] > 0 /\ UNCHANGED <<run, told>>
      BY <2>5 DEF Progress
    <3>2. left' \in [Torrents -> Nat] /\ \A u \in Torrents : left'[u] <= Size[u]
      BY <1>0, <3>1
    <3> QED
      BY <1>0, <3>1, <3>2
  <2>6. ASSUME NEW t \in Torrents, Obey(t) PROVE Bytes0'
    <3>1. UNCHANGED left /\ told' \subseteq told /\ run' = [run EXCEPT ![t] = ~ @]
      BY <2>6 DEF Obey
    <3>2. run' \in [Torrents -> BOOLEAN]
      BY <1>0, <3>1
    <3> QED
      BY <1>0, <3>1, <3>2
  <2>7. CASE UNCHANGED torrents
    BY <1>0, <2>7 DEF torrents
  <2> QED
    BY <2>2, <2>3, <2>4, <2>5, <2>6, <2>7 DEF Next, Work, Look, Plan, Known, AskStart, Measure, Resume,
       AskStop, AllAsked, Grab, StopDead, Bind, CancelRecovery, Confirm, Fault, Request, List, Offer,
       Withdraw, Import, Outside, vars
<1>4. w' \in Visits
  BY VisitStaysTyped
<1> QED
  BY <1>1, <1>2, <1>3, <1>4 DEF TypeOK, Visits, Steps

-----------------------------------------------------------------------------
(* Slots and permits *)

\* The pack of a season is no episode, and no pack of another season.
LEMMA PacksApart ==
    ASSUME WindowAssumption, NEW s \in Seasons
    PROVE  /\ PackOf(s) \in Torrents /\ PackOf(s) \notin Episodes /\ SeasonOf(PackOf(s)) = s
           /\ \A r \in Seasons : PackOf(r) = PackOf(s) => r = s
<1>1. s \in Nat \ {0} /\ Episodes \subseteq Nat /\ Seasons \subseteq Nat
  BY DEF WindowAssumption
<1>2. - s \notin Nat /\ - (- s) = s
  BY <1>1
<1> QED
  BY <1>1, <1>2 DEF PackOf, Torrents, SeasonOf

\* Taking a new release gives a slot without a source one.
LEMMA GrabServes ==
    ASSUME WindowAssumption, VInv, Grab
    PROVE  SlotsHaveSources'
<1> DEFINE s == w.season
           p == PackOf(s)
<1>0. /\ slot \in [Episodes -> {"none", "own", "pack"}] /\ s \in Seasons /\ p \in Torrents
      /\ permit \in [Torrents -> {"none", "authorized", "confirmed", "superseded"}]
      /\ Episodes \subseteq Torrents /\ p \notin Episodes
      /\ \A e \in Episodes : Season[e] \in Seasons /\ PackOf(Season[e]) \in Torrents
                             /\ PackOf(Season[e]) \notin Episodes
                             /\ (PackOf(Season[e]) = p => Season[e] = s)
  BY PacksApart DEF VInv, TypeOK, RecoveryIsUnbound, Grab, Torrents, WindowAssumption
<1>1. CASE UNCHANGED <<slot, permit>>
  BY <1>1 DEF VInv, SlotsHaveSources, Active
<1>2. CASE UNCHANGED slot /\ permit' = [permit EXCEPT ![p] = "none"] /\ Unbound(s)
  <2>1. \A e \in Episodes : slot[e] = "pack" => PackOf(Season[e]) # p
    BY <1>0, <1>2 DEF Unbound, Bound
  <2> QED
    BY <1>0, <1>2, <2>1 DEF VInv, SlotsHaveSources, Active
<1>3. CASE UNCHANGED slot /\ permit' = [permit EXCEPT ![p] = "authorized"]
  BY <1>0, <1>3 DEF VInv, SlotsHaveSources, Active
<1>4. CASE /\ slot' = [e \in Episodes |-> IF e \in Missing(s) THEN "pack" ELSE slot[e]]
           /\ permit' = [permit EXCEPT ![p] = "authorized"]
  <2>1. \A e \in Missing(s) : slot[e] = "none" /\ Season[e] = s
    BY DEF Missing
  <2> QED
    BY <1>0, <1>4, <2>1 DEF VInv, SlotsHaveSources, Active
<1>5. ASSUME NEW e \in Episodes, slot' = [slot EXCEPT ![e] = "own"],
             permit' = [permit EXCEPT ![e] = "authorized"]
      PROVE  SlotsHaveSources'
  BY <1>0, <1>5 DEF VInv, SlotsHaveSources, Active
<1>6. ASSUME Grabbable # {} PROVE Min(Grabbable) \in Episodes
  <2>1. Grabbable \in SUBSET Nat /\ Grabbable \subseteq Episodes
    BY DEF Grabbable, VInv, TypeOK, WindowAssumption
  <2> QED
    BY <1>6, <2>1, MinIsLeast
<1> QED
  BY <1>1, <1>2, <1>3, <1>4, <1>5, <1>6 DEF Grab, GrabPack

\* Binding a pack gives it the slots of the sources it supersedes.
LEMMA BindServes ==
    ASSUME WindowAssumption, VInv, Bind
    PROVE  SlotsHaveSources'
<1> DEFINE s == w.season
           p == PackOf(s)
<1>1. CASE UNCHANGED <<slot, permit>>
  BY <1>1 DEF VInv, SlotsHaveSources, Active
<1>2. CASE /\ permit[p] = "authorized"
           /\ slot' = [e \in Episodes |-> IF e \in Served(s) THEN "pack" ELSE slot[e]]
           /\ permit' = [t \in Torrents |->
                            IF t \in Served(s) /\ slot[t] = "own" THEN "superseded" ELSE permit[t]]
  <2>1. \A e \in Served(s) : e \in Episodes /\ Season[e] = s
    BY DEF Served, Missing, VInv, RecoveryIsUnbound, Bind
  <2>2. /\ s \in Seasons /\ p \in Torrents /\ p \notin Episodes /\ Episodes \subseteq Torrents
        /\ \A e \in Episodes : /\ PackOf(Season[e]) \in Torrents /\ PackOf(Season[e]) \notin Episodes
    BY PacksApart DEF VInv, RecoveryIsUnbound, Bind, Torrents, WindowAssumption
  <2>3. \A e \in Episodes : slot'[e] = IF e \in Served(s) THEN "pack" ELSE slot[e]
    BY <1>2
  <2>4. \A e \in Episodes : permit'[e] = IF e \in Served(s) /\ slot[e] = "own" THEN "superseded"
                                        ELSE permit[e]
    BY <1>2, <2>2
  <2>5. \A e \in Episodes : permit'[PackOf(Season[e])] = permit[PackOf(Season[e])]
    BY <1>2, <2>1, <2>2
  <2>6. \A e \in Episodes : e \in Served(s) => permit[PackOf(Season[e])] = "authorized"
    BY <1>2, <2>1
  <2> HIDE DEF s, p
  <2> QED
    BY <2>3, <2>4, <2>5, <2>6 DEF VInv, SlotsHaveSources, Active
<1> QED
  BY <1>1, <1>2 DEF Bind

\* Only a new release, a binding, the end of a recovery, a confirmation and a deletion change
\* what serves an episode.
LEMMA SlotsStaySourced ==
    ASSUME WindowAssumption, VInv, [Next]_vars
    PROVE  SlotsHaveSources'
<1>0. /\ slot \in [Episodes -> {"none", "own", "pack"}] /\ Episodes \subseteq Torrents
      /\ permit \in [Torrents -> {"none", "authorized", "confirmed", "superseded"}]
      /\ \A e \in Episodes : Season[e] \in Seasons /\ PackOf(Season[e]) \in Torrents
                             /\ PackOf(Season[e]) \notin Episodes
                             /\ SeasonOf(PackOf(Season[e])) = Season[e] /\ SeasonOf(e) = Season[e]
  BY PacksApart DEF VInv, TypeOK, Torrents, SeasonOf, WindowAssumption
<1>1. CASE CancelRecovery
  <2>1. /\ Unbound(w.season) /\ w.season \in Seasons /\ UNCHANGED slot
        /\ permit' = [permit EXCEPT ![PackOf(w.season)] = "none"]
    BY <1>1 DEF CancelRecovery, VInv, RecoveryIsUnbound, Unbound
  <2>2. \A e \in Episodes : slot[e] = "pack" => PackOf(Season[e]) # PackOf(w.season)
    BY <1>0, <2>1, PacksApart DEF Unbound, Bound
  <2>3. PackOf(w.season) \notin Episodes
    BY <2>1, PacksApart
  <2> QED
    BY <1>0, <2>1, <2>2, <2>3 DEF VInv, SlotsHaveSources, Active
<1>2. ASSUME NEW s \in Seasons, Erase(s) PROVE SlotsHaveSources'
  BY <1>0, <1>2 DEF Erase, VInv, SlotsHaveSources, Active
<1>3. ASSUME NEW t \in Torrents, Dispatch(t) PROVE SlotsHaveSources'
  BY <1>0, <1>3 DEF Dispatch, VInv, SlotsHaveSources, Active
<1>4. CASE UNCHANGED <<slot, permit>>
  BY <1>4 DEF VInv, SlotsHaveSources, Active
<1> QED
  BY <1>1, <1>2, <1>3, <1>4, GrabServes, BindServes DEF Next, Work, Look, Plan, Known, AskStart, Measure,
     Resume, AskStop, AllAsked, StopDead, Handle, Confirm, Fault, HandleLate, Obey, Request, List, Offer, Withdraw,
     Progress, Import, Outside, vars

\* What a visit stops and starts was planned from the slots, and no slot passes to another
\* source while that plan is carried out.
LEMMA PlanStaysServing ==
    ASSUME WindowAssumption, VInv, [Next]_vars
    PROVE  PlanServes'
<1> DEFINE Serves(t) == \E e \in Episodes : Source(e) = t
<1>1. ASSUME UNCHANGED slot, NEW t PROVE Serves(t)' <=> Serves(t)
  BY <1>1 DEF Source
<1>2. CASE w'.step \notin {"known", "queue"}
  BY <1>2 DEF PlanServes
<1>3. ASSUME UNCHANGED slot, w.step \in {"known", "queue"},
             w'.stops \cup w'.starts \subseteq w.stops \cup w.starts
      PROVE  PlanServes'
  <2>1. \A t \in w.stops \cup w.starts : Serves(t)
    BY <1>3 DEF VInv, PlanServes
  <2>2. \A t \in w'.stops \cup w'.starts : Serves(t)'
    BY <1>1, <1>3, <2>1
  <2> QED
    BY <2>2 DEF PlanServes
<1>4. w \in Visits
  BY DEF VInv, TypeOK, Visits, Steps
<1>5. ASSUME NEW ok \in BOOLEAN, Plan(ok) PROVE PlanServes'
  <2> DEFINE window == IF w.catalog THEN InWindow(DownloadPending(w.pending, ok)) ELSE {}
             starts == {Source(e) : e \in Reconciled(w.season) \cap window}
             stops == {Source(e) : e \in Reconciled(w.season)} \ starts
  <2>1. UNCHANGED slot
    BY <1>5 DEF Plan
  <2>2. Reconciled(w.season) \subseteq Episodes
    BY <1>4 DEF Reconciled, Visits
  <2>3. \A t \in stops \cup starts : Serves(t)
    BY <2>2
  <2>4. \/ w' = Idle
        \/ w' = [w EXCEPT !.step = "known", !.window = window, !.starts = starts, !.stops = stops]
    BY <1>5 DEF Plan
  <2> HIDE DEF window, starts, stops
  <2>5. w' = Idle \/ (w'.stops = stops /\ w'.starts = starts)
    BY <1>4, <2>4 DEF Visits
  <2>6. CASE w' = Idle
    BY <1>2, <2>6, IdleIsAVisit
  <2>7. CASE w'.stops = stops /\ w'.starts = starts
    <3>1. \A t \in w'.stops \cup w'.starts : Serves(t)'
      BY <1>1, <2>1, <2>3, <2>7
    <3> QED
      BY <3>1 DEF PlanServes
  <2> QED
    BY <2>5, <2>6, <2>7
<1>6. ASSUME NEW ok \in BOOLEAN, Known(ok) PROVE PlanServes'
  <2> DEFINE complete == IF ok THEN {t \in Torrents : left[t] = 0} ELSE {}
  <2>1. /\ w' = [w EXCEPT !.step = "queue", !.stops = @ \ complete, !.starts = @ \ complete]
        /\ UNCHANGED slot /\ w.step = "known"
    BY <1>6 DEF Known
  <2> HIDE DEF complete
  <2>2. w'.stops = w.stops \ complete /\ w'.starts = w.starts \ complete
    BY <1>4, <2>1 DEF Visits
  <2> QED
    BY <1>3, <2>1, <2>2
<1>7. CASE AskStop
  <2> DEFINE stops == w.stops \ {FirstOf(w.stops)}
             call == Ask(FirstOf(w.stops), "stop")
  <2>1. /\ w' = Idle \/ w' = [w EXCEPT !.stops = stops, !.call = call]
        /\ UNCHANGED slot /\ w.step = "queue"
    BY <1>7 DEF AskStop, Todo
  <2> HIDE DEF call
  <2>2. w' = Idle \/ (w'.stops \subseteq w.stops /\ w'.starts = w.starts)
    BY <1>4, <2>1 DEF Visits
  <2> QED
    BY <1>2, <1>3, <2>1, <2>2, IdleIsAVisit
<1>8. ASSUME NEW ok \in BOOLEAN, AskStart(ok) PROVE PlanServes'
  <2> DEFINE t == FirstOf(w.starts)
             starts == w.starts \ {t}
             stop == Ask(t, "stop")
             start == Ask(t, "start")
  <2>1. /\ \/ w' = Idle \/ w' = [w EXCEPT !.starts = starts]
           \/ w' = [w EXCEPT !.starts = starts, !.call = stop, !.blocked = TRUE]
           \/ w' = [w EXCEPT !.starts = starts, !.call = start, !.blocked = FALSE]
        /\ UNCHANGED slot /\ w.step = "queue"
    BY <1>8 DEF AskStart, Todo
  <2>2. starts \subseteq w.starts
    OBVIOUS
  <2> HIDE DEF starts, stop, start
  <2>3. w' = Idle \/ (w'.starts = starts /\ w'.stops = w.stops)
    BY <1>4, <2>1 DEF Visits
  <2> QED
    BY <1>2, <1>3, <2>1, <2>2, <2>3, IdleIsAVisit
<1>9. CASE Handle \/ Confirm
  <2> DEFINE starts == w.starts \cup {w.call.torrent}
             sent == [w.call EXCEPT !.sent = TRUE]
  <2>1. /\ \/ w' = Idle \/ w' = [w EXCEPT !.call = NoCall] \/ w' = [w EXCEPT !.call = sent]
           \/ w.step = "recover" /\ w' = [w EXCEPT !.call = NoCall, !.starts = starts]
           \/ w' = [w EXCEPT !.step = "failed", !.call = NoCall]
        /\ UNCHANGED slot
    BY <1>9 DEF Handle, Confirm, Answered
  <2> HIDE DEF starts, sent
  <2>2. \/ w' = Idle \/ w'.step \in {"failed", "recover"}
        \/ w'.step = w.step /\ w'.starts = w.starts /\ w'.stops = w.stops
    BY <1>4, <2>1 DEF Visits
  <2> QED
    BY <1>2, <1>3, <2>1, <2>2, IdleIsAVisit
<1>10. ASSUME Grab \/ StopDead \/ Bind \/ CancelRecovery \/ Fault \/ AllAsked
       PROVE  PlanServes'
  <2>1. CASE Grab
    <3>1. w' = Idle \/ w'.step \in {"grab", "recover"}
      BY <2>1 DEF Grab, GrabPack, Idle
    <3> QED
      BY <1>2, <3>1, IdleIsAVisit
  <2>2. CASE StopDead
    <3>1. w'.step \in {"recover", "failed"}
      BY <1>4, <2>2 DEF StopDead, Visits
    <3> QED
      BY <1>2, <3>1
  <2>3. CASE Bind \/ CancelRecovery \/ AllAsked \/ Fault
    <3>1. w' = Idle \/ w'.step \in {"failed", "resume", "grab"}
      BY <1>4, <2>3 DEF Bind, CancelRecovery, AllAsked, Fault, Visits
    <3> QED
      BY <1>2, <3>1, IdleIsAVisit
  <2> QED
    BY <1>10, <2>1, <2>2, <2>3
<1>11. ASSUME NEW ok \in BOOLEAN, Measure(ok) \/ Resume(ok) PROVE PlanServes'
  <2>1. w' = Idle \/ w'.step \in {"bind", "failed", "resume"}
    BY <1>4, <1>11 DEF Measure, Resume, Visits
  <2> QED
    BY <1>2, <2>1, IdleIsAVisit
<1>12. ASSUME NEW s \in Seasons, Look(s) PROVE PlanServes'
  <2>1. w'.step \in {"idle", "plan"}
    BY <1>12 DEF Look, Idle
  <2> QED
    BY <1>2, <2>1
<1>13. CASE UNCHANGED <<w, slot>>
  <2>1. CASE w.step \in {"known", "queue"}
    BY <1>3, <1>13, <2>1
  <2> QED
    BY <1>2, <1>13, <2>1
<1>14. ASSUME NEW s \in Seasons, Erase(s) PROVE PlanServes'
  BY <1>2, <1>14 DEF Erase
<1> QED
  BY <1>5, <1>6, <1>7, <1>8, <1>9, <1>10, <1>11, <1>12, <1>13, <1>14 DEF Next, Work, HandleLate,
     Obey, Request, List, Offer, Withdraw, Dispatch, Progress, Import, Outside, vars

\* While a recovery is under way nothing but the recovery touches the authorization of its
\* pack: it is dispatched only when bound, and a deletion waits for the end of the visit.
LEMMA RecoveryStaysUnbound ==
    ASSUME WindowAssumption, VInv, [Next]_vars
    PROVE  RecoveryIsUnbound'
<1> DEFINE Its(S) == \A t \in S : t \in Episodes /\ Season[t] = w.season
<1>0. /\ w \in Visits /\ (w.step # "idle" => w.season \in Seasons)
      /\ permit \in [Torrents -> {"none", "authorized", "confirmed", "superseded"}]
      /\ w.step \in {"recover", "bind", "failed"} => Unbound(w.season) /\ Its(w.starts)
      /\ w.step = "recover" =>
             /\ Its(w.stops)
             /\ w.call # NoCall => w.call.torrent \in Episodes /\ Season[w.call.torrent] = w.season
  BY DEF VInv, TypeOK, Visits, Steps, RecoveryIsUnbound
<1>1. CASE w' = Idle
  BY <1>1, IdleIsAVisit DEF RecoveryIsUnbound
<1>2. CASE w'.step \in {"plan", "known", "queue", "grab", "resume"} /\ w'.season \in Seasons
  BY <1>2 DEF RecoveryIsUnbound
<1>3. ASSUME UNCHANGED <<slot, permit>>, w'.season = w.season, Unbound(w.season)
      PROVE  Unbound(w.season)'
  BY <1>3 DEF Unbound, Bound
<1>4. ASSUME UNCHANGED <<slot, permit>>, w.step \in {"recover", "bind", "failed"},
             w'.step \in {"bind", "failed"}, w'.season = w.season, w'.starts = w.starts
      PROVE  RecoveryIsUnbound'
  <2>1. Unbound(w.season)'
    BY <1>0, <1>4 DEF Unbound, Bound
  <2> QED
    BY <1>0, <1>4, <2>1 DEF RecoveryIsUnbound
<1>5. CASE UNCHANGED <<w, slot, permit>>
  BY <1>0, <1>5 DEF RecoveryIsUnbound, Unbound, Bound
<1>6. ASSUME NEW s \in Seasons, Look(s) PROVE RecoveryIsUnbound'
  <2>1. UNCHANGED <<w, slot, permit>> \/ (w'.step = "plan" /\ w'.season = s)
    BY <1>6 DEF Look, Idle
  <2> QED
    BY <1>2, <1>5, <2>1
<1>7. ASSUME NEW ok \in BOOLEAN, Plan(ok) \/ Known(ok) PROVE RecoveryIsUnbound'
  <2>1. w' = Idle \/ (w'.step \in {"known", "queue"} /\ w'.season = w.season)
    BY <1>0, <1>7 DEF Plan, Known, Visits
  <2> QED
    BY <1>0, <1>1, <1>2, <1>7, <2>1 DEF Plan, Known
<1>8. ASSUME NEW ok \in BOOLEAN, AskStart(ok) PROVE RecoveryIsUnbound'
  <2>1. w' = Idle \/ (w'.step = "queue" /\ w'.season = w.season)
    BY <1>0, <1>8 DEF AskStart, Todo, Visits
  <2> QED
    BY <1>0, <1>1, <1>2, <1>8, <2>1 DEF AskStart, Todo
<1>9. CASE AskStop \/ AllAsked
  <2>1. w' = Idle \/ (w'.step \in {"queue", "grab"} /\ w'.season = w.season)
    BY <1>0, <1>9 DEF AskStop, AllAsked, Todo, Visits
  <2> QED
    BY <1>0, <1>1, <1>2, <1>9, <2>1 DEF AskStop, AllAsked, Todo
<1>10. CASE Handle \/ Confirm
  <2>1. w.call # NoCall /\ UNCHANGED <<slot, permit>>
    BY <1>10 DEF Handle, Confirm
  <2> DEFINE sent == [w.call EXCEPT !.sent = TRUE]
             starts == w.starts \cup {w.call.torrent}
  <2>2. sent \in Calls /\ sent.torrent = w.call.torrent
    BY <1>0, <2>1 DEF Visits, Calls
  <2>3. \/ w' = Idle
        \/ w' = [w EXCEPT !.call = sent]
        \/ w.step \in {"queue", "resume"} /\ w' = [w EXCEPT !.call = NoCall]
        \/ w.step = "recover" /\ w' = [w EXCEPT !.call = NoCall, !.starts = starts]
        \/ w.step = "recover" /\ w' = [w EXCEPT !.step = "failed", !.call = NoCall]
    BY <1>10 DEF Handle, Confirm, Answered
  <2>4. CASE w' = [w EXCEPT !.call = sent]
    <3> HIDE DEF sent
    <3>1. /\ w'.step = w.step /\ w'.season = w.season /\ w'.starts = w.starts
          /\ w'.stops = w.stops /\ w'.call = sent
      BY <1>0, <2>4 DEF Visits
    <3>2. w.step \in {"recover", "bind", "failed"} => Unbound(w.season)'
      BY <1>0, <1>3, <2>1, <3>1 DEF Unbound, Bound
    <3> QED
      BY <1>0, <2>1, <2>2, <3>1, <3>2 DEF RecoveryIsUnbound
  <2>5. CASE w.step \in {"queue", "resume"} /\ w' = [w EXCEPT !.call = NoCall]
    <3>1. w'.step = w.step /\ w'.season = w.season
      BY <1>0, <2>5 DEF Visits
    <3> QED
      BY <1>0, <1>2, <2>5, <3>1
  <2>6. CASE w.step = "recover" /\ w' = [w EXCEPT !.call = NoCall, !.starts = starts]
    <3>1. Its(starts)
      BY <1>0, <2>1, <2>6
    <3> HIDE DEF starts
    <3>2. /\ w'.step = "recover" /\ w'.season = w.season /\ w'.starts = starts
          /\ w'.stops = w.stops /\ w'.call = NoCall
      BY <1>0, <2>6 DEF Visits
    <3>3. Unbound(w.season)'
      BY <1>0, <1>3, <2>1, <2>6, <3>2 DEF Unbound, Bound
    <3> QED
      BY <1>0, <2>6, <3>1, <3>2, <3>3 DEF RecoveryIsUnbound
  <2>7. CASE w.step = "recover" /\ w' = [w EXCEPT !.step = "failed", !.call = NoCall]
    <3>1. w'.step = "failed" /\ w'.season = w.season /\ w'.starts = w.starts
      BY <1>0, <2>7 DEF Visits
    <3> QED
      BY <1>4, <2>1, <2>7, <3>1
  <2> QED
    BY <1>1, <2>3, <2>4, <2>5, <2>6, <2>7
<1>11. CASE Grab
  <2> DEFINE s == w.season
             stops == Stalled(s)
  <2>1. w.step = "grab" /\ s \in Seasons
    BY <1>0, <1>11 DEF Grab
  <2>2. \/ w' = Idle \/ (w' = w /\ w.step = "grab")
        \/ /\ w' = [Idle EXCEPT !.step = "recover", !.season = s, !.stops = stops]
           /\ permit[PackOf(s)] = "none" /\ permit' = [permit EXCEPT ![PackOf(s)] = "authorized"]
           /\ UNCHANGED slot
    BY <1>11 DEF Grab, GrabPack
  <2>3. ASSUME w' = [Idle EXCEPT !.step = "recover", !.season = s, !.stops = stops],
               permit[PackOf(s)] = "none", permit' = [permit EXCEPT ![PackOf(s)] = "authorized"],
               UNCHANGED slot
        PROVE  RecoveryIsUnbound'
    <3>1. Its(stops)
      BY DEF Stalled
    <3>2. ~ Bound(s)
      <4>1. \A e \in Episodes : slot[e] = "pack" => permit[PackOf(Season[e])] # "none"
        BY DEF VInv, SlotsHaveSources, Active
      <4> QED
        BY <2>3, <4>1 DEF Bound
    <3>3. permit'[PackOf(s)] = "authorized"
      BY <1>0, <2>1, <2>3, PacksApart
    <3> HIDE DEF stops
    <3>4. /\ w'.step = "recover" /\ w'.season = s /\ w'.starts = {}
          /\ w'.stops = stops /\ w'.call = NoCall
      BY <2>3 DEF Idle
    <3>5. Unbound(w.season)'
      BY <2>3, <3>2, <3>3, <3>4 DEF Unbound, Bound
    <3> QED
      BY <2>1, <3>1, <3>4, <3>5 DEF RecoveryIsUnbound
  <2> QED
    BY <1>1, <1>2, <2>1, <2>2, <2>3
<1>12. CASE StopDead
  <2>1. w.step = "recover" /\ UNCHANGED <<slot, permit>>
    BY <1>12 DEF StopDead
  <2>2. CASE w' = [w EXCEPT !.step = "failed"]
    <3>1. w'.step = "failed" /\ w'.season = w.season /\ w'.starts = w.starts
      BY <1>0, <2>2 DEF Visits
    <3> QED
      BY <1>4, <2>1, <3>1
  <2>3. ASSUME NEW t \in w.stops, w' = [w EXCEPT !.stops = @ \ {t}, !.call = Strictly(t, "stop")]
        PROVE  RecoveryIsUnbound'
    <3> DEFINE call == Strictly(t, "stop")
    <3>1. call.torrent = t
      BY DEF Strictly
    <3>2. w' = [w EXCEPT !.stops = @ \ {t}, !.call = call]
      BY <2>3
    <3> HIDE DEF call
    <3>3. /\ w'.step = "recover" /\ w'.season = w.season /\ w'.starts = w.starts
          /\ w'.stops = w.stops \ {t} /\ w'.call = call
      BY <1>0, <2>1, <3>2 DEF Visits
    <3>4. Unbound(w.season)'
      BY <1>0, <2>1, <3>3 DEF Unbound, Bound
    <3> QED
      BY <1>0, <2>1, <2>3, <3>1, <3>3, <3>4 DEF RecoveryIsUnbound
  <2> QED
    BY <1>12, <2>2, <2>3 DEF StopDead
<1>13. ASSUME NEW ok \in BOOLEAN, Measure(ok) PROVE RecoveryIsUnbound'
  <2>1. /\ w.step = "recover" /\ UNCHANGED <<slot, permit>>
        /\ w'.step \in {"bind", "failed"} /\ w'.season = w.season /\ w'.starts = w.starts
    BY <1>0, <1>13 DEF Measure, Visits
  <2> QED
    BY <1>4, <2>1
<1>14. CASE Bind
  <2>1. \/ w' = Idle
        \/ /\ w.step = "bind" /\ UNCHANGED <<slot, permit>>
           /\ w'.step = "failed" /\ w'.season = w.season /\ w'.starts = w.starts
    BY <1>0, <1>14 DEF Bind, Visits
  <2> QED
    BY <1>1, <1>4, <2>1
<1>15. CASE CancelRecovery
  <2>1. w' = Idle \/ (w'.step = "resume" /\ w'.season = w.season)
    BY <1>0, <1>15 DEF CancelRecovery, Visits
  <2> QED
    BY <1>0, <1>1, <1>2, <1>15, <2>1 DEF CancelRecovery
<1>16. ASSUME NEW ok \in BOOLEAN, Resume(ok) PROVE RecoveryIsUnbound'
  <2>1. w' = Idle \/ (w'.step = "resume" /\ w'.season = w.season)
    BY <1>0, <1>16 DEF Resume, Visits
  <2> QED
    BY <1>0, <1>1, <1>2, <1>16, <2>1 DEF Resume
<1>17. CASE Fault
  <2>1. /\ UNCHANGED <<slot, permit>>
        /\ \/ w' = Idle
           \/ w.step \in {"recover", "bind"} /\ w' = [w EXCEPT !.step = "failed", !.call = NoCall]
    BY <1>17 DEF Fault
  <2>2. w' = [w EXCEPT !.step = "failed", !.call = NoCall] =>
            w'.step = "failed" /\ w'.season = w.season /\ w'.starts = w.starts
    BY <1>0 DEF Visits
  <2> QED
    BY <1>1, <1>4, <2>1, <2>2
<1>18. ASSUME NEW s \in Seasons, Erase(s) PROVE RecoveryIsUnbound'
  BY <1>18 DEF Erase, RecoveryIsUnbound
<1>19. ASSUME NEW t \in Torrents, Dispatch(t) PROVE RecoveryIsUnbound'
  <2>1. /\ permit' = [permit EXCEPT ![t] = "confirmed"] /\ UNCHANGED <<w, slot>>
        /\ t \notin Episodes => Bound(SeasonOf(t))
    BY <1>19 DEF Dispatch
  <2>2. ASSUME w.step \in {"recover", "bind", "failed"} PROVE Unbound(w.season)'
    <3>1. w.season \in Seasons /\ Unbound(w.season)
      BY <1>0, <2>2
    <3>2. PackOf(w.season) # t
      BY <2>1, <3>1, PacksApart DEF Unbound
    <3> QED
      BY <1>0, <2>1, <3>1, <3>2 DEF Unbound, Bound
  <2> QED
    BY <1>0, <2>1, <2>2 DEF RecoveryIsUnbound
<1> QED
  BY <1>5, <1>6, <1>7, <1>8, <1>9, <1>10, <1>11, <1>12, <1>13, <1>14, <1>15, <1>16, <1>17, <1>18,
     <1>19 DEF Next, Work, HandleLate, Obey, Request, List, Offer, Withdraw, Progress, Import, Outside,
     vars

\* At the beginning nothing is served and no visit is under way.
LEMMA WindowStarts == Init => VInv
<1> SUFFICES ASSUME Init PROVE VInv
  OBVIOUS
<1>1. /\ season \in [Seasons -> {"none", "wanted", "gone"}] /\ w = Idle /\ late = {}
      /\ slot = [e \in Episodes |-> "none"] /\ permit = [t \in Torrents |-> "none"]
  BY DEF Init
<1>2. TypeOK
  <2>1. left \in [Torrents -> Nat] /\ \A t \in Torrents : left[t] <= Size[t]
    BY WindowAssumption DEF Init, WindowAssumption
  <2>2. 0 \in 0 .. MaxOutside /\ 0 \in 0 .. MaxFaults
    BY WindowAssumption DEF WindowAssumption
  <2> QED
    BY <1>1, <2>1, <2>2, IdleIsAVisit DEF Init, TypeOK, Visits, Steps
<1>3. SlotsHaveSources
  BY <1>1 DEF SlotsHaveSources, Active, Torrents, PacksApart
<1>4. PlanServes /\ RecoveryIsUnbound
  BY <1>1, IdleIsAVisit DEF PlanServes, RecoveryIsUnbound
<1> QED
  BY <1>2, <1>3, <1>4 DEF VInv

\* The plan of a visit names torrents that serve its season, a pack that a recovery holds
\* is authorized and not bound, and each slot names a source that has a permit.
THEOREM WindowInvariance == Spec => []VInv
<1>1. VInv /\ [Next]_vars => VInv'
  BY WindowAssumption, WorldStaysTyped, SlotsStaySourced, PlanStaysServing, RecoveryStaysUnbound
     DEF VInv
<1> QED
  BY WindowStarts, <1>1, PTL DEF Spec

\* The types of `SeriesWindow`: no visit sends a request for a torrent that is none of the
\* series, and no torrent has less than nothing or more than its size left.
THEOREM WindowTypesHold == Spec => []TypeOK
<1>1. VInv => TypeOK
  BY DEF VInv
<1> QED
  BY WindowInvariance, <1>1, PTL

\* `issue`, `bind_season_pack`, `cancel_unbound_pack` and the deletion jobs together: an
\* episode has its own torrent exactly while that has an active permit, and is never bound to
\* a pack whose permit is gone, whatever failed in between.
THEOREM SlotsAreServed == Spec => []SlotsHaveSources
<1>1. VInv => SlotsHaveSources
  BY DEF VInv
<1> QED
  BY WindowInvariance, <1>1, PTL

=============================================================================
