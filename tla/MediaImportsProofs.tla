-------------------------- MODULE MediaImportsProofs --------------------------
(***************************************************************************)
(* What is complete is the file of the present source, for any movies,      *)
(* series, packs and torrents, any promotions, deletions and failures. The  *)
(* worker looked at the source long before it completes the import; the     *)
(* invariant says that a row that is claimed for the present source pins it *)
(* until the visit ends, because a promotion asks for a row that is not.    *)
(* Episodes enter the library in order, because the worker passes on only   *)
(* an episode whose turn has come, and a turn that has come does not pass.  *)
(***************************************************************************)
EXTENDS MediaImports, TLAPS

States == {"none", "complete"} \cup Claimed
Steps == {"idle", "look", "confirm", "complete", "validate", "subtitle", "link", "claim", "post"}
Task == [step : Steps, request : Requests \cup {0}, item : Items \cup {0},
         source : Sources \cup {0}, seen : SUBSET Episodes, copy : BOOLEAN]

ImportsTyped ==
    /\ active \subseteq Requests /\ w \in Task
    /\ source \in [Items -> Sources \cup {0}] /\ claim \in [Keys -> States]
    /\ library \in [Items -> [of : Sources \cup {0}, linked : BOOLEAN]]
    /\ installed \subseteq Items

\* Each step of the worker knows the medium and the torrent it is about, and what it knows
\* of is acquired.
StepHasItem ==
    w.step \notin {"idle", "look"} =>
        w.item \in Items /\ w.source \in Sources /\ source[w.item] # 0

\* The row of an import that is being posted waits for its command; that of one being
\* confirmed was accepted, and belongs to the source of the medium.
RowIsHeld ==
    /\ w.step = "post" =>
           claim[Key(w.item, w.source)] \in {"dispatching", "dispatching_copy"}
    /\ w.step \in {"confirm", "complete"} =>
           /\ source[w.item] = w.source
           /\ claim[Key(w.item, w.source)] \in {"accepted", "accepted_copy"}

\* The file was compared with the source, and its subtitle installed, before.
FileIsTheSource ==
    w.step = "complete" => library[w.item].of = w.source /\ w.item \in installed

\* What gives way to another source is a source.
PromotionHasSource == \A i \in Items, q \in Sources : <<i, q>> \in promotion => source[i] # 0

\* A request that is not yet admitted has no source and no row.
WaitingIsNew ==
    \A i \in Items : RequestOf(i) \in waiting =>
        source[i] = 0 /\ \A p \in Sources : claim[Key(i, p)] = "none"

MInv ==
    /\ PromotionHasSource /\ ImportsTyped /\ StepHasItem /\ RowIsHeld /\ FileIsTheSource
    /\ CompleteIsTheSource /\ WaitingIsNew

-----------------------------------------------------------------------------
(* Rows and files *)

LEMMA KeyIsKey ==
    ASSUME NEW i \in Items, NEW p \in Sources
    PROVE  Key(i, p) \in Keys
  BY DEF Key, Keys, Items

\* A row is one medium's; an episode's is one torrent's too.
LEMMA KeyIsOwn ==
    ASSUME NEW i, NEW j, NEW p, NEW q, Key(i, p) = Key(j, q)
    PROVE  i = j /\ (i \notin Movies => p = q)
  BY DEF Key

\* The worker goes on to a step that holds no row, or has ended its visit.
Free(step) == step \in {"idle", "look", "validate", "subtitle", "link", "claim"}
Released ==
    \/ UNCHANGED w
    \/ /\ Free(w'.step) /\ w' \in Task
       /\ w'.step \notin {"idle", "look"} =>
              w'.item \in Items /\ w'.source \in Sources /\ source[w'.item] # 0

\* Nothing of the rows, the sources and the files changes.
LEMMA RestStays ==
    ASSUME MInv, active' \subseteq Requests, waiting' \subseteq waiting,
           UNCHANGED <<source, claim, library, installed, promotion>>, Released
    PROVE  MInv'
<1> USE DEF MInv, ImportsTyped, StepHasItem, RowIsHeld, FileIsTheSource, CompleteIsTheSource,
            PromotionHasSource, WaitingIsNew
<1>1. CASE UNCHANGED w
  BY <1>1 DEF Key
<1>2. CASE ~ UNCHANGED w
  <2>1. w' \in Task /\ w'.step \notin {"post", "confirm", "complete"}
    BY <1>2 DEF Released, Free
  <2>2. w'.step \notin {"idle", "look"} =>
            w'.item \in Items /\ w'.source \in Sources /\ source[w'.item] # 0
    BY <1>2 DEF Released
  <2> QED
    BY <2>1, <2>2 DEF Key
<1> QED
  BY <1>1, <1>2

\* The worker writes rows of what is acquired.
LEMMA NewStaysNew ==
    ASSUME MInv, waiting' \subseteq waiting, source' = source,
           \/ UNCHANGED claim
           \/ /\ w.step \notin {"idle", "look"}
              /\ \E x \in States : claim' = [claim EXCEPT ![Key(w.item, w.source)] = x]
    PROVE  WaitingIsNew'
<1> SUFFICES ASSUME NEW i \in Items, RequestOf(i) \in waiting
             PROVE  source[i] = 0 /\ \A p \in Sources : claim'[Key(i, p)] = "none"
  BY DEF WaitingIsNew, RequestOf, Key
<1>1. source[i] = 0 /\ \A p \in Sources : claim[Key(i, p)] = "none"
  BY DEF MInv, WaitingIsNew
<1>2. ASSUME NEW x \in States, w.step \notin {"idle", "look"},
             claim' = [claim EXCEPT ![Key(w.item, w.source)] = x], NEW p \in Sources
      PROVE  claim'[Key(i, p)] = claim[Key(i, p)]
  <2>1. i # w.item
    BY <1>1, <1>2 DEF MInv, StepHasItem
  <2>2. Key(i, p) # Key(w.item, w.source)
    BY <2>1, KeyIsOwn
  <2> QED
    BY <1>2, <2>2, KeyIsKey DEF MInv, ImportsTyped
<1> QED
  BY <1>1, <1>2

LEMMA IdleIsATask == Idle \in Task /\ Idle.step = "idle"
  BY DEF Idle, Task, Steps

-----------------------------------------------------------------------------
(* The worker *)

LEMMA ChooseKeeps ==
    ASSUME ImportsAssumption, MInv, Choose
    PROVE  MInv'
<1>0. /\ active' \subseteq Requests /\ waiting' \subseteq waiting
      /\ UNCHANGED <<source, claim, library, installed, promotion>>
  BY DEF Choose, env, subs, MInv, ImportsTyped
<1>1. CASE w' = Idle
  BY <1>0, <1>1, IdleIsATask, RestStays DEF Released, Free
<1>2. ASSUME NEW i \in Items, Turn(i), StepOf(i) # "idle",
             w' = [w EXCEPT !.step = StepOf(i), !.item = i, !.source = source[i]]
      PROVE  MInv'
  <2> DEFINE x == StepOf(i)
             p == source[i]
  <2>1. x = "validate" \/ (x = "confirm" /\ Row(i) \in {"accepted", "accepted_copy"})
    BY <1>2 DEF StepOf
  <2>2. p \in Sources
    <3>1. p # 0
      BY <1>2 DEF Turn
    <3> QED
      BY <3>1 DEF MInv, ImportsTyped
  <2>3. Row(i) = claim[Key(i, p)]
    BY <2>2, ImportsAssumption DEF Row, ImportsAssumption
  <2>4. w' \in Task /\ w'.step = x /\ w'.item = i /\ w'.source = p
    <3>1. x \in Steps
      BY <2>1 DEF Steps
    <3>2. w' = [w EXCEPT !.step = x, !.item = i, !.source = p]
      BY <1>2
    <3> HIDE DEF x, p
    <3> QED
      BY <2>2, <3>1, <3>2 DEF MInv, ImportsTyped, Task
  <2>7. source[i] = p /\ p # 0
    BY <1>2 DEF Turn
  <2> HIDE DEF x, p
  <2>5. CASE x = "validate"
    BY <1>0, <2>2, <2>4, <2>5, <2>7, RestStays DEF Released, Free
  <2>6. CASE x = "confirm"
    <3>1. claim[Key(i, p)] \in {"accepted", "accepted_copy"}
      BY <2>1, <2>3, <2>6
    <3>2. RowIsHeld' /\ StepHasItem' /\ FileIsTheSource'
      BY <1>0, <2>2, <2>4, <2>6, <2>7, <3>1 DEF RowIsHeld, StepHasItem, FileIsTheSource, Key
    <3> QED
      BY <1>0, <2>4, <3>2
      DEF MInv, ImportsTyped, CompleteIsTheSource, PromotionHasSource, WaitingIsNew, Key
  <2> QED
    BY <2>1, <2>5, <2>6
<1> QED
  BY <1>1, <1>2 DEF Choose, ToDo

\* The steps up to the claim, a claim that is refused, a visit that ends.
LEMMA EarlySteps ==
    ASSUME MInv,
           \/ Validate \/ FindSubtitle \/ Link \/ Fault
           \/ (Claim /\ w' = Idle /\ UNCHANGED claim) \/ (\E r \in Requests : Visit(r))
    PROVE  MInv'
<1> USE DEF env, subs
<1>1. /\ active' \subseteq Requests /\ waiting' \subseteq waiting
      /\ UNCHANGED <<source, claim, library, installed, promotion>>
  BY DEF Validate, FindSubtitle, Link, Fault, Claim, Visit, MInv, ImportsTyped
<1>2. CASE w' = Idle
  BY <1>1, <1>2, IdleIsATask, RestStays DEF Released, Free
<1>3. ASSUME NEW step \in {"subtitle", "link", "claim"}, NEW copy \in BOOLEAN,
             w.step \notin {"idle", "look"},
             w' = [w EXCEPT !.step = step, !.copy = copy]
      PROVE  MInv'
  <2>1. w' \in Task /\ w'.step = step /\ w'.item = w.item /\ w'.source = w.source
    BY <1>3 DEF MInv, ImportsTyped, Task, Steps
  <2>2. w.item \in Items /\ w.source \in Sources /\ source[w.item] # 0
    BY <1>3 DEF MInv, StepHasItem
  <2> QED
    BY <1>1, <2>1, <2>2, RestStays DEF Released, Free
<1>4. ASSUME NEW r \in Requests, Visit(r) PROVE MInv'
  <2> DEFINE seen == {e \in Episodes : library[e] # NoFile}
  <2>1. w' = [Idle EXCEPT !.step = "look", !.request = r, !.seen = seen]
    BY <1>4 DEF Visit
  <2>2. seen \in SUBSET Episodes
    OBVIOUS
  <2> HIDE DEF seen
  <2>3. w' \in Task /\ w'.step = "look"
    BY <2>1, <2>2 DEF Idle, Task, Steps
  <2> QED
    BY <1>1, <2>3, RestStays DEF Released, Free
<1>5. CASE Validate \/ FindSubtitle
  <2>1. \/ w' = Idle
        \/ \E step \in {"subtitle", "link", "claim"} : w' = [w EXCEPT !.step = step]
    BY <1>5 DEF Validate, FindSubtitle
  <2>2. w.step \notin {"idle", "look"}
    BY <1>5 DEF Validate, FindSubtitle
  <2>3. ASSUME NEW step \in {"subtitle", "link", "claim"}, w' = [w EXCEPT !.step = step]
        PROVE  MInv'
    <3>1. w' = [w EXCEPT !.step = step, !.copy = w.copy] /\ w.copy \in BOOLEAN
      BY <2>3 DEF MInv, ImportsTyped, Task
    <3> QED
      BY <1>3, <2>2, <3>1
  <2> QED
    BY <1>2, <2>1, <2>3
<1>6. CASE Link
  <2>1. w.step \notin {"idle", "look"}
    BY <1>6 DEF Link
  <2>2. PICK ready \in BOOLEAN :
            w' = IF (ready \/ ~ Registry) /\ Wanted
                 THEN [w EXCEPT !.step = "claim", !.copy = ~ ready] ELSE Idle
    BY <1>6 DEF Link
  <2> DEFINE copy == ~ ready
  <2>3. copy \in BOOLEAN
    OBVIOUS
  <2>4. w' = Idle \/ w' = [w EXCEPT !.step = "claim", !.copy = copy]
    BY <2>2
  <2> HIDE DEF copy
  <2> QED
    BY <1>2, <1>3, <2>1, <2>3, <2>4
<1> QED
  BY <1>2, <1>4, <1>5, <1>6 DEF Fault

\* The claim, and the command that is accepted.
LEMMA ClaimKeeps ==
    ASSUME MInv, Claim, w' # Idle \/ ~ UNCHANGED claim
    PROVE  MInv'
<1> DEFINE k == Key(w.item, w.source)
           x == IF w.copy THEN "dispatching_copy" ELSE "dispatching"
<1>1. /\ w.step = "claim" /\ w.item \in Items /\ w.source \in Sources
      /\ claim' = [claim EXCEPT ![k] = x] /\ w' = [w EXCEPT !.step = "post"]
      /\ UNCHANGED <<waiting, active, source, library, installed, promotion>>
  BY DEF Claim, env, subs, MInv, StepHasItem
<1>2. k \in Keys
  BY <1>1, KeyIsKey
<1>3. w' \in Task /\ w'.step = "post" /\ w'.item = w.item /\ w'.source = w.source
  BY <1>1 DEF MInv, ImportsTyped, Task, Steps
<1>4. claim'[k] = x /\ claim' \in [Keys -> States] /\ x \in {"dispatching", "dispatching_copy"}
  BY <1>1, <1>2 DEF MInv, ImportsTyped, States, Claimed
<1>5. CompleteIsTheSource'
  <2> SUFFICES ASSUME NEW i \in Items, NEW p \in Sources, claim'[Key(i, p)] = "complete",
                      i \in Movies => source'[i] = p
               PROVE  source'[i] = p /\ library'[i].of = p /\ i \in installed'
    BY DEF CompleteIsTheSource, Key
  <2>1. claim[Key(i, p)] = "complete"
    BY <1>1, <1>2, <1>4, KeyIsKey DEF MInv, ImportsTyped
  <2> QED
    BY <1>1, <2>1 DEF MInv, CompleteIsTheSource
<1>6. ImportsTyped' /\ StepHasItem' /\ RowIsHeld' /\ FileIsTheSource' /\ PromotionHasSource'
  <2> HIDE DEF x
  <2> QED
    BY <1>1, <1>3, <1>4 DEF MInv, ImportsTyped, StepHasItem, RowIsHeld, FileIsTheSource,
       PromotionHasSource, Key
<1>7. WaitingIsNew'
  BY <1>1, <1>4, NewStaysNew DEF States, Claimed
<1> QED
  BY <1>5, <1>6, <1>7 DEF MInv

LEMMA PostKeeps ==
    ASSUME MInv, Post
    PROVE  MInv'
<1> DEFINE k == Key(w.item, w.source)
           x == IF claim[k] = "dispatching_copy" THEN "accepted_copy" ELSE "accepted"
<1>1. /\ w.step = "post" /\ w.item \in Items /\ w.source \in Sources
      /\ claim' = [claim EXCEPT ![k] = x] /\ w' = Idle
      /\ UNCHANGED <<waiting, active, source, library, installed, promotion>>
  BY DEF Post, env, subs, MInv, StepHasItem
<1>2. k \in Keys
  BY <1>1, KeyIsKey
<1>3. claim'[k] # "complete" /\ claim' \in [Keys -> States]
  BY <1>1, <1>2 DEF MInv, ImportsTyped, States, Claimed
<1>4. CompleteIsTheSource'
  <2> SUFFICES ASSUME NEW i \in Items, NEW p \in Sources, claim'[Key(i, p)] = "complete",
                      i \in Movies => source'[i] = p
               PROVE  source'[i] = p /\ library'[i].of = p /\ i \in installed'
    BY DEF CompleteIsTheSource, Key
  <2>1. claim[Key(i, p)] = "complete"
    BY <1>1, <1>2, <1>3, KeyIsKey DEF MInv, ImportsTyped
  <2> QED
    BY <1>1, <2>1 DEF MInv, CompleteIsTheSource
<1>5. WaitingIsNew'
  BY <1>1, NewStaysNew DEF States, Claimed
<1> QED
  BY <1>1, <1>3, <1>4, <1>5, IdleIsATask
  DEF MInv, ImportsTyped, StepHasItem, RowIsHeld, FileIsTheSource, PromotionHasSource, Key

\* The file is compared with the source whose row it is.
LEMMA ConfirmKeeps ==
    ASSUME MInv, Confirm
    PROVE  MInv'
<1>1. /\ w.step = "confirm" /\ w.item \in Items /\ w.source \in Sources
      /\ UNCHANGED <<waiting, active, source, claim, library, promotion>>
  BY DEF Confirm, env, MInv, StepHasItem
<1>2. CASE w' = Idle /\ UNCHANGED installed
  BY <1>1, <1>2, IdleIsATask, RestStays DEF Released, Free, MInv, ImportsTyped
<1>3. CASE /\ Matches(w.item, w.source, claim[Key(w.item, w.source)] = "accepted_copy")
           /\ installed' = installed \cup {w.item} /\ w' = [w EXCEPT !.step = "complete"]
  <2>1. w' \in Task /\ w'.step = "complete" /\ w'.item = w.item /\ w'.source = w.source
    BY <1>3 DEF MInv, ImportsTyped, Task, Steps
  <2>2. library[w.item].of = w.source
    BY <1>3 DEF Matches
  <2>3. CompleteIsTheSource'
    BY <1>1, <1>3 DEF MInv, CompleteIsTheSource, Key
  <2>4. WaitingIsNew'
    BY <1>1, NewStaysNew
  <2> QED
    BY <1>1, <1>3, <2>1, <2>2, <2>3, <2>4
    DEF MInv, ImportsTyped, StepHasItem, RowIsHeld, FileIsTheSource, PromotionHasSource, Key
<1> QED
  BY <1>2, <1>3 DEF Confirm

\* What it completes is the row of the present source, whose file it has compared.
LEMMA CompleteKeeps ==
    ASSUME MInv, Complete
    PROVE  MInv'
<1> DEFINE k == Key(w.item, w.source)
<1>1. /\ w.step = "complete" /\ w.item \in Items /\ w.source \in Sources
      /\ claim' = [claim EXCEPT ![k] = "complete"] /\ w' = Idle
      /\ active' \subseteq active /\ UNCHANGED <<waiting, source, library, installed, promotion>>
  BY DEF Complete, subs, MInv, StepHasItem
<1>2. k \in Keys /\ claim' \in [Keys -> States]
  BY <1>1, KeyIsKey DEF MInv, ImportsTyped, States
<1>3. source[w.item] = w.source /\ library[w.item].of = w.source /\ w.item \in installed
  BY <1>1 DEF MInv, RowIsHeld, FileIsTheSource
<1>4. CompleteIsTheSource'
  <2> SUFFICES ASSUME NEW i \in Items, NEW p \in Sources, claim'[Key(i, p)] = "complete",
                      i \in Movies => source'[i] = p
               PROVE  source'[i] = p /\ library'[i].of = p /\ i \in installed'
    BY DEF CompleteIsTheSource, Key
  <2>1. CASE Key(i, p) = k
    <3>1. i = w.item /\ (i \notin Movies => p = w.source)
      BY <2>1, KeyIsOwn
    <3> QED
      BY <1>1, <1>3, <3>1
  <2>2. CASE Key(i, p) # k
    <3>1. claim[Key(i, p)] = "complete"
      BY <1>1, <1>2, <2>2, KeyIsKey DEF MInv, ImportsTyped
    <3> QED
      BY <1>1, <3>1 DEF MInv, CompleteIsTheSource
  <2> QED
    BY <2>1, <2>2
<1>5. WaitingIsNew'
  BY <1>1, NewStaysNew DEF States
<1> QED
  BY <1>1, <1>2, <1>4, <1>5, IdleIsATask
  DEF MInv, ImportsTyped, StepHasItem, RowIsHeld, FileIsTheSource, PromotionHasSource, Key

-----------------------------------------------------------------------------
(* The others *)

\* The Arr replaces no file.
LEMMA ImportKeeps ==
    ASSUME ImportsAssumption, MInv, NEW p \in Sources, NEW i \in Items, Import(p, i)
    PROVE  MInv'
<1>1. PICK linked \in BOOLEAN :
          library' = [j \in Items |-> IF j \in Scanned(i, p) /\ library[j] = NoFile
                                     THEN [of |-> p, linked |-> linked] ELSE library[j]]
  BY DEF Import
<1>2. UNCHANGED <<waiting, active, source, claim, installed, promotion, w>>
  BY DEF Import, env, subs
<1>3. library' \in [Items -> [of : Sources \cup {0}, linked : BOOLEAN]]
  BY <1>1 DEF MInv, ImportsTyped
<1>4. ASSUME NEW j \in Items, library[j].of # 0 PROVE library'[j] = library[j]
  BY <1>1, <1>4 DEF NoFile
<1>5. CompleteIsTheSource' /\ FileIsTheSource'
  BY <1>2, <1>4, ImportsAssumption
  DEF MInv, CompleteIsTheSource, FileIsTheSource, StepHasItem, ImportsAssumption, Key
<1>6. WaitingIsNew'
  BY <1>2, NewStaysNew
<1> QED
  BY <1>2, <1>3, <1>5, <1>6 DEF MInv, ImportsTyped, StepHasItem, RowIsHeld, PromotionHasSource, Key

\* A source whose row is claimed or complete gives way to none.
LEMMA PromoteKeeps ==
    ASSUME ImportsAssumption, MInv, NEW i \in Items, NEW q \in Sources, Promote(i, q)
    PROVE  MInv'
<1>1. /\ <<i, q>> \in promotion /\ promotion' \subseteq promotion
      /\ UNCHANGED <<waiting, active, claim, library, installed, w>>
  BY DEF Promote, env, subs
<1>2. CASE UNCHANGED source
  BY <1>1, <1>2, NewStaysNew DEF MInv, ImportsTyped, StepHasItem, RowIsHeld, FileIsTheSource, CompleteIsTheSource,
     PromotionHasSource, Key
<1>3. CASE Unclaimed(i) /\ source' = [source EXCEPT ![i] = q]
  <2>1. source[i] \in Sources
    BY <1>1 DEF MInv, ImportsTyped, PromotionHasSource
  <2>2. claim[Key(i, source[i])] = "none"
    BY <1>3, <2>1, ImportsAssumption DEF Unclaimed, Row, ImportsAssumption
  <2>3. source' \in [Items -> Sources \cup {0}] /\ PromotionHasSource'
    BY <1>1, <1>3, ImportsAssumption DEF MInv, ImportsTyped, PromotionHasSource, ImportsAssumption
  <2>4. \A p \in Sources : claim[Key(i, p)] = "complete" => i \notin Movies /\ p # source[i]
    BY <2>2 DEF Key
  <2>5. \A p \in Sources : claim[Key(i, p)] # "complete"
    BY <2>4 DEF MInv, CompleteIsTheSource
  <2>6. CompleteIsTheSource'
    <3> SUFFICES ASSUME NEW j \in Items, NEW p \in Sources, claim'[Key(j, p)] = "complete",
                        j \in Movies => source'[j] = p
                 PROVE  source'[j] = p /\ library'[j].of = p /\ j \in installed'
      BY DEF CompleteIsTheSource, Key
    <3>1. j # i /\ claim[Key(j, p)] = "complete"
      BY <1>1, <2>5
    <3> QED
      BY <1>1, <1>3, <3>1 DEF MInv, ImportsTyped, CompleteIsTheSource
  <2>7. w.step \in {"confirm", "complete"} => w.item # i
    BY <2>2 DEF MInv, RowIsHeld
  <2>8. RowIsHeld'
    BY <1>1, <1>3, <2>7 DEF MInv, ImportsTyped, RowIsHeld, StepHasItem, Key
  <2>9. WaitingIsNew'
    <3>1. RequestOf(i) \notin waiting
      BY <2>1, ImportsAssumption DEF MInv, WaitingIsNew, ImportsAssumption
    <3> QED
      BY <1>1, <1>3, <3>1 DEF MInv, ImportsTyped, WaitingIsNew, RequestOf, Key
  <2>10. StepHasItem'
    BY <1>1, <1>3, ImportsAssumption DEF MInv, ImportsTyped, StepHasItem, ImportsAssumption
  <2> QED
    BY <1>1, <2>3, <2>6, <2>8, <2>9, <2>10 DEF MInv, ImportsTyped, FileIsTheSource
<1> QED
  BY <1>2, <1>3 DEF Promote

LEMMA BeginKeeps ==
    ASSUME ImportsAssumption, MInv, NEW i \in Items, NEW q \in Sources, BeginPromotion(i, q)
    PROVE  MInv'
<1>1. /\ source[i] # 0 /\ promotion' = promotion \cup {<<i, q>>}
      /\ UNCHANGED <<waiting, active, source, claim, library, installed, w>>
  BY DEF BeginPromotion, env, subs
<1>2. WaitingIsNew'
  BY <1>1, NewStaysNew
<1> QED
  BY <1>1, <1>2 DEF MInv, ImportsTyped, StepHasItem, RowIsHeld, FileIsTheSource,
     CompleteIsTheSource, PromotionHasSource, Key

\* `reserve`: what is admitted is new to the finalizers.
LEMMA AdmitKeeps ==
    ASSUME ImportsAssumption, MInv, NEW r \in Requests, Admit(r)
    PROVE  MInv'
<1>1. /\ r \in waiting /\ waiting' = waiting \ {r} /\ active' = active \cup {r}
      /\ source' = [i \in Items |-> IF RequestOf(i) = r THEN First[i] ELSE source[i]]
      /\ UNCHANGED <<claim, library, installed, promotion, w>>
  BY DEF Admit, subs
<1>2. ASSUME NEW i \in Items, source[i] # 0 PROVE source'[i] = source[i]
  BY <1>1, <1>2 DEF MInv, WaitingIsNew
<1>3. ImportsTyped'
  BY <1>1, ImportsAssumption DEF MInv, ImportsTyped, ImportsAssumption
<1>4. CompleteIsTheSource'
  <2> SUFFICES ASSUME NEW i \in Items, NEW p \in Sources, claim[Key(i, p)] = "complete",
                      i \in Movies => source'[i] = p
               PROVE  source'[i] = p /\ library[i].of = p /\ i \in installed
    BY <1>1 DEF CompleteIsTheSource, Key
  <2>1. RequestOf(i) # r
    BY <1>1 DEF MInv, WaitingIsNew
  <2>2. source'[i] = source[i]
    BY <1>1, <2>1
  <2> QED
    BY <2>2 DEF MInv, CompleteIsTheSource
<1>5. WaitingIsNew'
  BY <1>1 DEF MInv, WaitingIsNew, RequestOf, Key
<1>6. StepHasItem' /\ FileIsTheSource' /\ PromotionHasSource'
  BY <1>1, <1>2 DEF MInv, StepHasItem, FileIsTheSource, PromotionHasSource
<1>7. RowIsHeld'
  BY <1>1, <1>2 DEF MInv, StepHasItem, RowIsHeld, Key
<1> QED
  BY <1>3, <1>4, <1>5, <1>6, <1>7 DEF MInv

LEMMA ImportsSteps == ImportsAssumption /\ MInv /\ [Next]_vars => MInv'
<1> SUFFICES ASSUME ImportsAssumption, MInv, [Next]_vars PROVE MInv'
  OBVIOUS
<1>1. CASE Claim
  BY <1>1, ClaimKeeps, EarlySteps
<1>2. CASE LosePost
  <2>1. w' = Idle /\ UNCHANGED <<waiting, active, source, claim, library, installed, promotion>>
    BY <1>2 DEF LosePost, env, subs
  <2> QED
    BY <2>1, IdleIsATask, RestStays DEF Released, Free, MInv, ImportsTyped
<1>3. CASE UNCHANGED vars \/ \E p \in Sources : Download(p)
  <2>1. UNCHANGED <<waiting, active, source, claim, library, installed, promotion, w>>
    BY <1>3 DEF Download, vars, env, subs
  <2> QED
    BY <2>1, RestStays DEF Released, MInv, ImportsTyped
<1>4. CASE (\E i \in Items : Delete(i)) \/ \E r \in Requests : Withdraw(r)
  <2>1. /\ active' \subseteq active
        /\ UNCHANGED <<waiting, source, claim, library, installed, promotion, w>>
    BY <1>4 DEF Delete, Withdraw, subs
  <2> QED
    BY <2>1, RestStays DEF Released, MInv, ImportsTyped
<1> QED
  BY <1>1, <1>2, <1>3, <1>4, ChooseKeeps, EarlySteps, PostKeeps, ConfirmKeeps, CompleteKeeps,
     ImportKeeps, PromoteKeeps, BeginKeeps, AdmitKeeps DEF Next, Work

LEMMA ImportsStart == ImportsAssumption /\ Init => MInv
<1> SUFFICES ASSUME ImportsAssumption, Init PROVE MInv
  OBVIOUS
<1>1. /\ source \in [Items -> Sources \cup {0}] /\ NoFile \in [of : Sources \cup {0}, linked : BOOLEAN]
  BY DEF Init, ImportsAssumption, NoFile
<1>2. ImportsTyped
  BY <1>1, IdleIsATask DEF Init, ImportsTyped, States
<1> QED
  BY <1>2, IdleIsATask, KeyIsKey DEF Init, MInv, StepHasItem, RowIsHeld, FileIsTheSource,
     CompleteIsTheSource, PromotionHasSource, WaitingIsNew

\* The invariant behind it: from the claim of a row to its completion the source stays.
THEOREM ImportsInvariance == Spec => []MInv
<1>1. Init => MInv
  BY ImportsStart, ImportsAssumption
<1>2. MInv /\ [Next]_vars => MInv'
  BY ImportsSteps, ImportsAssumption
<1> QED
  BY <1>1, <1>2, PTL DEF Spec

\* `_import_matches_source` and `promote_probe` together: no import is ever complete for a
\* file of another source, or without the subtitle of the present one.
THEOREM CompletionsAreOfTheSource == Spec => []CompleteIsTheSource
<1>1. MInv => CompleteIsTheSource
  BY DEF MInv
<1> QED
  BY ImportsInvariance, <1>1, PTL

-----------------------------------------------------------------------------
(* The order of the episodes *)

\* The episodes that come before e are in the library, those of the requests that were
\* active when its turn was read.
Ordered(e) ==
    \A d \in Episodes : d < e /\ Season[d] \in before[e] => d \in deleted \/ library[d] # NoFile

\* A source, and one that a promotion brings, holds the medium; so does that of a step.
SourceHolds ==
    /\ \A i \in Items : source[i] # 0 => i \in Holds[source[i]]
    /\ \A i \in Items, q \in Sources : <<i, q>> \in promotion => i \in Holds[q]
    /\ w.step \notin {"idle", "look"} => w.item \in Holds[w.source]

\* What the worker saw in the library is still there.
SeenIsThere == \A e \in w.seen : library[e] # NoFile

\* The turn of the episode that the worker imports has come, and that of each one that
\* Sonarr was told to scan.
TurnHasCome ==
    /\ w.step \in {"validate", "subtitle", "link", "claim", "post"} /\ w.item \in Episodes
           => Ordered(w.item)
    /\ \A p \in Sources, i \in Items :
           <<p, i>> \in command => i \in Holds[p] /\ (i \in Episodes => Ordered(i))

OInv == SourceHolds /\ SeenIsThere /\ TurnHasCome

\* `finalize`: the episode it chooses is the first that is missing.
LEMMA TurnIsOrdered ==
    ASSUME ImportsAssumption, MInv, SeenIsThere, NEW e \in Episodes, Turn(e)
    PROVE  \A d \in Episodes : d < e /\ Season[d] \in Before(e)
               => d \in deleted \/ library[d] # NoFile
<1> SUFFICES ASSUME NEW d \in Episodes, d < e, Season[d] \in active
             PROVE  d \in deleted \/ library[d] # NoFile
  BY DEF Before
<1>1. d \notin Missing
  <2>1. d \in Missing => e <= d
    BY DEF Turn
  <2>2. d \in Nat /\ e \in Nat
    BY ImportsAssumption DEF ImportsAssumption
  <2> QED
    BY <2>1, <2>2
<1>2. Imported(d)
  BY <1>1 DEF Missing
<1> QED
  BY <1>2 DEF Imported, SeenIsThere

\* Tombstones and files stay, and a turn is read again only of an episode whose turn it is:
\* what has come before an episode stays there.
LEMMA OrderStays ==
    ASSUME ImportsAssumption, MInv, SeenIsThere, [Next]_vars
    PROVE  /\ \A j \in Items : library[j] # NoFile => library'[j] # NoFile
           /\ \A e \in Episodes : Ordered(e) => Ordered(e)'
<1>1. deleted \subseteq deleted'
  BY DEF Next, Work, Choose, Validate, FindSubtitle, Link, Claim, Post, Confirm, Complete, LosePost,
     Fault, Visit, Withdraw, Admit, Import, BeginPromotion, Promote, Download, Delete, env, vars
<1>2. \A j \in Items : library[j] # NoFile => library'[j] # NoFile
  <2>1. ASSUME NEW p \in Sources, NEW i \in Items, Import(p, i)
        PROVE  \A j \in Items : library[j] # NoFile => library'[j] = library[j]
    BY <2>1 DEF Import
  <2>2. CASE UNCHANGED library
    BY <2>2
  <2> QED
    BY <2>1, <2>2 DEF Next, Work, Choose, Validate, FindSubtitle, Link, Claim, Post, Confirm, Complete,
       LosePost, Fault, Visit, Withdraw, Admit, BeginPromotion, Promote, Download, Delete, vars
<1>3. ASSUME NEW e \in Episodes
      PROVE  before'[e] = before[e] \/ (Turn(e) /\ before'[e] = Before(e))
  <2>1. CASE Choose
    BY <2>1 DEF Choose, ToDo
  <2>2. CASE UNCHANGED before
    BY <2>2
  <2> QED
    BY <2>1, <2>2 DEF Next, Work, Validate, FindSubtitle, Link, Claim, Post, Confirm, Complete,
       LosePost, Fault, Visit, Withdraw, Admit, Import, BeginPromotion, Promote, Download, Delete,
       env, vars
<1>4. ASSUME NEW e \in Episodes, Ordered(e) PROVE Ordered(e)'
  <2> SUFFICES ASSUME NEW d \in Episodes, d < e, Season[d] \in before'[e]
               PROVE  d \in deleted' \/ library'[d] # NoFile
    BY DEF Ordered
  <2>1. d \in deleted \/ library[d] # NoFile
    <3>1. CASE before'[e] = before[e]
      BY <1>4, <3>1 DEF Ordered
    <3>2. CASE Turn(e) /\ before'[e] = Before(e)
      <4>1. \A c \in Episodes : c < e /\ Season[c] \in Before(e) => c \in deleted \/ library[c] # NoFile
        BY <3>2, TurnIsOrdered
      <4> QED
        BY <3>2, <4>1
    <3> QED
      BY <1>3, <3>1, <3>2
  <2> QED
    BY <1>1, <1>2, <2>1 DEF Items
<1> QED
  BY <1>2, <1>4

\* The worker goes on with the medium, the torrent and the catalogue it has.
GoesOn == w'.item = w.item /\ w'.source = w.source /\ w'.seen = w.seen

\* What a step does to the worker: it ends its visit or begins one, it chooses, or it goes
\* on, from the download to the command or from a file to its completion.
LEMMA WorkerSteps ==
    ASSUME MInv, [Next]_vars
    PROVE  \/ UNCHANGED w \/ w' = Idle
           \/ \E r \in Requests : Visit(r)
           \/ Choose /\ \E i \in ToDo :
                  /\ w'.step = StepOf(i) /\ w'.item = i
                  /\ w'.source = source[i] /\ w'.seen = w.seen
                  /\ StepOf(i) = "validate" /\ i \in Episodes => before'[i] = Before(i)
           \/ /\ w.step \in {"validate", "subtitle", "link", "claim"}
              /\ w'.step \in {"subtitle", "link", "claim", "post"} /\ GoesOn
           \/ w.step = "confirm" /\ w'.step = "complete" /\ GoesOn
<1>1. w \in Task
  BY DEF MInv, ImportsTyped
<1>2. ASSUME NEW step \in Steps, w' = [w EXCEPT !.step = step]
      PROVE  w'.step = step /\ GoesOn
  BY <1>1, <1>2 DEF Task, GoesOn
<1>3. CASE Validate
  BY <1>2, <1>3 DEF Validate, Steps
<1>4. CASE FindSubtitle
  BY <1>2, <1>4 DEF FindSubtitle, Steps
<1>5. CASE Link
  <2>1. PICK ready \in BOOLEAN :
            w' = IF (ready \/ ~ Registry) /\ Wanted
                 THEN [w EXCEPT !.step = "claim", !.copy = ~ ready] ELSE Idle
    BY <1>5 DEF Link
  <2> DEFINE copy == ~ ready
  <2>2. w' = Idle \/ w' = [w EXCEPT !.step = "claim", !.copy = copy]
    BY <2>1
  <2> HIDE DEF copy
  <2>3. w' = Idle \/ (w'.step = "claim" /\ GoesOn)
    BY <1>1, <2>2 DEF Task, GoesOn
  <2> QED
    BY <1>5, <2>3 DEF Link
<1>6. CASE Claim
  BY <1>2, <1>6 DEF Claim, Steps
<1>7. CASE Confirm
  BY <1>2, <1>7 DEF Confirm, Steps
<1>8. CASE Choose /\ w' # Idle
  <2>1. PICK i \in ToDo :
            /\ w' = [w EXCEPT !.step = StepOf(i), !.item = i, !.source = source[i]]
            /\ StepOf(i) = "validate" /\ i \in Episodes => before'[i] = Before(i)
    BY <1>8 DEF Choose
  <2> DEFINE x == StepOf(i)
             p == source[i]
  <2>2. w' = [w EXCEPT !.step = x, !.item = i, !.source = p]
    BY <2>1
  <2> HIDE DEF x, p
  <2>3. w'.step = x /\ w'.item = i /\ w'.source = p /\ w'.seen = w.seen
    BY <1>1, <2>2 DEF Task
  <2> QED
    BY <1>8, <2>1, <2>3 DEF x, p
<1> QED
  BY <1>3, <1>4, <1>5, <1>6, <1>7, <1>8
  DEF Next, Work, Post, Complete, LosePost, Fault, Withdraw, Admit, Import, BeginPromotion, Promote, Download, Delete, vars

\* A source changes only for one that a promotion brings, and that holds the medium.
LEMMA SourceStaysHeld ==
    ASSUME ImportsAssumption, MInv, OInv, [Next]_vars
    PROVE  SourceHolds'
<1> USE DEF OInv, SourceHolds
<1>1. \A i \in Items : source'[i] # 0 => i \in Holds[source'[i]]
  <2>1. ASSUME NEW i \in Items, NEW q \in Sources, Promote(i, q)
        PROVE  \A j \in Items : source'[j] # 0 => j \in Holds[source'[j]]
    BY <2>1 DEF Promote, MInv, ImportsTyped
  <2>2. ASSUME NEW r \in Requests, Admit(r)
        PROVE  \A j \in Items : source'[j] # 0 => j \in Holds[source'[j]]
    BY <2>2, ImportsAssumption DEF Admit, ImportsAssumption
  <2>3. CASE UNCHANGED source
    BY <2>3
  <2> QED
    BY <2>1, <2>2, <2>3 DEF Next, Work, Choose, Validate, FindSubtitle, Link, Claim, Post, Confirm, Complete,
       LosePost, Fault, Visit, Withdraw, Import, BeginPromotion, Download, Delete, vars
<1>2. \A i \in Items, q \in Sources : <<i, q>> \in promotion' => i \in Holds[q]
  <2>1. ASSUME NEW i \in Items, NEW q \in Sources, BeginPromotion(i, q) \/ Promote(i, q)
        PROVE  \A j \in Items, p \in Sources : <<j, p>> \in promotion' => j \in Holds[p]
    BY <2>1 DEF BeginPromotion, Promote
  <2>2. CASE UNCHANGED promotion
    BY <2>2
  <2> QED
    BY <2>1, <2>2 DEF Next, Work, Choose, Validate, FindSubtitle, Link, Claim, Post, Confirm, Complete,
       LosePost, Fault, Visit, Withdraw, Admit, Import, Download, Delete, vars
<1>3. w'.step \notin {"idle", "look"} => w'.item \in Holds[w'.source]
  <2>1. ASSUME NEW r \in Requests, Visit(r) PROVE w'.step = "look"
    BY <2>1 DEF Visit, Idle
  <2>2. ASSUME NEW i \in ToDo PROVE i \in Items /\ source[i] # 0
    BY DEF ToDo, Turn
  <2> QED
    BY <2>1, <2>2, WorkerSteps DEF GoesOn, Idle
<1> QED
  BY <1>1, <1>2, <1>3

LEMMA SeenStaysThere ==
    ASSUME ImportsAssumption, MInv, OInv, [Next]_vars
    PROVE  SeenIsThere'
<1>1. \A e \in w'.seen : e \in Items /\ library[e] # NoFile
  <2>1. w.seen \subseteq Episodes
    BY DEF MInv, ImportsTyped, Task
  <2>2. ASSUME NEW r \in Requests, Visit(r)
        PROVE  w'.seen = {e \in Episodes : library[e] # NoFile}
    <3> DEFINE seen == {e \in Episodes : library[e] # NoFile}
    <3>1. w' = [Idle EXCEPT !.step = "look", !.request = r, !.seen = seen]
      BY <2>2 DEF Visit
    <3> HIDE DEF seen
    <3>2. w'.seen = seen
      BY <3>1 DEF Idle
    <3> QED
      BY <3>2 DEF seen
  <2>3. w' = Idle => w'.seen = {}
    BY DEF Idle
  <2>4. w'.seen = w.seen \/ w' = Idle \/ \E r \in Requests : Visit(r)
    BY WorkerSteps DEF GoesOn
  <2> QED
    BY <2>1, <2>2, <2>3, <2>4 DEF OInv, SeenIsThere, Items
<1> QED
  BY <1>1, OrderStays DEF OInv, SeenIsThere

\* From the choice of an episode to its command nothing that came before it can go.
LEMMA TurnStaysCome ==
    ASSUME ImportsAssumption, MInv, OInv, [Next]_vars
    PROVE  TurnHasCome'
<1>1. \A e \in Episodes : Ordered(e) => Ordered(e)'
  BY OrderStays DEF OInv
<1>2. ASSUME w'.step \in {"validate", "subtitle", "link", "claim", "post"}, w'.item \in Episodes
      PROVE  Ordered(w.item)'
  <2>1. ASSUME NEW r \in Requests, Visit(r) PROVE w'.step = "look"
    BY <2>1 DEF Visit, Idle
  <2>2. CASE Choose /\ \E i \in ToDo :
                 /\ w'.step = StepOf(i) /\ w'.item = i
                 /\ StepOf(i) = "validate" /\ i \in Episodes => before'[i] = Before(i)
    <3>1. Turn(w'.item) /\ before'[w'.item] = Before(w'.item)
      BY <1>2, <2>2 DEF ToDo, StepOf
    <3>2. \A d \in Episodes : d < w'.item /\ Season[d] \in before'[w'.item]
              => d \in deleted \/ library[d] # NoFile
      <4>1. ASSUME NEW e \in Episodes, Turn(e), before'[e] = Before(e)
            PROVE  \A d \in Episodes : d < e /\ Season[d] \in before'[e]
                       => d \in deleted \/ library[d] # NoFile
        <5>1. SeenIsThere
          BY DEF OInv
        <5>2. \A d \in Episodes : d < e /\ Season[d] \in Before(e)
                  => d \in deleted \/ library[d] # NoFile
          BY <4>1, <5>1, TurnIsOrdered
        <5> SUFFICES ASSUME NEW d \in Episodes, d < e, Season[d] \in before'[e]
                     PROVE  d \in deleted \/ library[d] # NoFile
          OBVIOUS
        <5>3. Season[d] \in Before(e)
          BY <4>1
        <5> QED
          BY <5>2, <5>3
      <4> QED
        BY <1>2, <3>1, <4>1
    <3>3. UNCHANGED <<deleted, library>>
      BY <2>2 DEF Choose
    <3> QED
      BY <3>2, <3>3 DEF Ordered
  <2>3. CASE UNCHANGED w \/ (w.step \in {"validate", "subtitle", "link", "claim"} /\ GoesOn)
    <3>1. w'.item = w.item /\ Ordered(w.item)
      BY <1>2, <2>3 DEF OInv, TurnHasCome, GoesOn
    <3> QED
      BY <1>1, <1>2, <3>1 DEF Ordered
  <2> QED
    BY <1>2, <2>1, <2>2, <2>3, WorkerSteps DEF Idle
<1>3. ASSUME NEW p \in Sources, NEW i \in Items, <<p, i>> \in command'
      PROVE  i \in Holds[p] /\ (i \in Episodes => Ordered(i)')
  <2>1. \/ <<p, i>> \in command
        \/ w.step = "post" /\ p = w.source /\ i = w.item
    <3>1. CASE Post \/ LosePost
      BY <1>3, <3>1 DEF Post, LosePost
    <3>2. CASE command' \subseteq command
      BY <1>3, <3>2
    <3> QED
      BY <3>1, <3>2 DEF Next, Work, Choose, Validate, FindSubtitle, Link, Claim, Confirm, Complete,
         Fault, Visit, Withdraw, Admit, Import, BeginPromotion, Promote, Download, Delete, vars
  <2>2. i \in Holds[p] /\ (i \in Episodes => Ordered(i))
    BY <2>1 DEF OInv, SourceHolds, TurnHasCome
  <2> QED
    BY <1>1, <2>2
<1> QED
  BY <1>2, <1>3 DEF TurnHasCome

\* A turn that has come does not pass.
THEOREM OrderInvariance == Spec => []OInv
<1>1. Init => OInv
  BY ImportsAssumption DEF Init, ImportsAssumption, OInv, SourceHolds, SeenIsThere, TurnHasCome, Idle
<1>2. MInv /\ OInv /\ [Next]_vars => OInv'
  BY SourceStaysHeld, SeenStaysThere, TurnStaysCome, ImportsAssumption DEF OInv
<1> QED
  BY <1>1, <1>2, ImportsInvariance, PTL DEF Spec

\* `finalize` and the Arr's scan together: an episode enters the library when all the
\* earlier ones are there of the requests that were active when its turn was read, though
\* Sonarr scans in its own time and requests, sources and tombstones change between the
\* choice and the file.
THEOREM EpisodesInOrder == Spec => InOrder
<1> DEFINE Enters == \A e \in Episodes : library[e] = NoFile /\ library'[e] # NoFile
               => \A d \in Episodes : d < e /\ Season[d] \in before[e]
                      => d \in deleted \/ library[d] # NoFile
<1>1. MInv /\ OInv /\ [Next]_vars => Enters
  <2> SUFFICES ASSUME MInv, OInv, [Next]_vars, NEW e \in Episodes, library[e] = NoFile,
                      library'[e] # NoFile
               PROVE  Ordered(e)
    BY DEF Ordered
  <2>1. PICK p \in Sources, i \in Items : Import(p, i)
    BY DEF Next, Work, Choose, Validate, FindSubtitle, Link, Claim, Post, Confirm, Complete, LosePost,
       Fault, Visit, Withdraw, Admit, BeginPromotion, Promote, Download, Delete, vars
  <2>2. e \in Scanned(i, p) /\ <<p, i>> \in command
    BY <2>1 DEF Import, Items
  <2>3. i \in Holds[p] /\ (i \in Episodes => Ordered(i))
    BY <2>2 DEF OInv, TurnHasCome
  <2>4. e = i
    BY <2>2, <2>3, ImportsAssumption DEF Scanned, ImportsAssumption
  <2> QED
    BY <2>3, <2>4
<1>2. MInv /\ OInv /\ [Next]_vars => [Enters]_vars
  BY <1>1
<1> QED
  BY <1>2, ImportsInvariance, OrderInvariance, PTL DEF Spec, InOrder

-----------------------------------------------------------------------------
(* Types *)

\* What the invariants leave out of the types: requests, sets of pairs, and the counters.
PairsTyped ==
    /\ waiting \subseteq Requests /\ before \in [Episodes -> SUBSET Requests]
    /\ deleted \subseteq Items /\ done \subseteq Sources \X Items /\ command \subseteq Sources \X Items
    /\ stored \subseteq Items \X Sources /\ promotion \subseteq Items \X Sources
    /\ faults \in 0 .. MaxFaults /\ swaps \in 0 .. MaxSwaps

LEMMA PairsStep ==
    ASSUME ImportsAssumption, MInv, PairsTyped, [Next]_vars
    PROVE  PairsTyped'
<1> USE DEF PairsTyped
<1>0. MaxFaults \in Nat /\ MaxSwaps \in Nat
  BY ImportsAssumption DEF ImportsAssumption
<1>1. CASE Post \/ LosePost \/ FindSubtitle
  <2>1. w.item \in Items /\ w.source \in Sources
    BY <1>1 DEF Post, LosePost, FindSubtitle, MInv, StepHasItem
  <2> QED
    BY <1>0, <1>1, <2>1 DEF Post, LosePost, FindSubtitle, env, subs, counts
<1>2. ASSUME NEW p \in Sources, NEW i \in Items, Import(p, i) \/ BeginPromotion(i, p) \/ Promote(i, p)
      PROVE  PairsTyped'
  BY <1>0, <1>2 DEF Import, BeginPromotion, Promote, env, subs, counts
<1>3. ASSUME NEW p \in Sources, Download(p) PROVE PairsTyped'
  <2>1. PICK i \in Holds[p] : done' = done \cup {<<p, i>>}
    BY <1>3 DEF Download
  <2>2. i \in Items
    BY ImportsAssumption DEF ImportsAssumption
  <2> QED
    BY <1>3, <2>1, <2>2 DEF Download, env, subs, counts
<1>4. ASSUME NEW i \in Items, Delete(i) PROVE PairsTyped'
  BY <1>0, <1>4 DEF Delete, subs, counts
<1>5. ASSUME NEW r \in Requests, Withdraw(r) \/ Admit(r) PROVE PairsTyped'
  BY <1>0, <1>5 DEF Withdraw, Admit, subs, counts
<1>6. CASE Fault
  BY <1>0, <1>6 DEF Fault, env, subs
<1>7. CASE UNCHANGED <<waiting, before, deleted, done, command, stored, promotion, counts>>
  BY <1>7 DEF counts
<1>8. CASE Choose
  <2>1. \A e \in Episodes : Before(e) \in SUBSET Requests
    BY DEF Before, MInv, ImportsTyped
  <2>2. before' \in [Episodes -> SUBSET Requests]
    <3>1. CASE UNCHANGED before
      BY <3>1
    <3>2. ASSUME NEW i \in ToDo,
                 before' = [e \in Episodes |-> IF e = i /\ StepOf(i) = "validate"
                                               THEN Before(e) ELSE before[e]]
          PROVE  before' \in [Episodes -> SUBSET Requests]
      <4> DEFINE x(e) == IF e = i /\ StepOf(i) = "validate" THEN Before(e) ELSE before[e]
      <4>1. \A e \in Episodes : x(e) \in SUBSET Requests
        BY <2>1
      <4>2. before' = [e \in Episodes |-> x(e)]
        BY <3>2
      <4> HIDE DEF x
      <4> QED
        BY <4>1, <4>2
    <3> QED
      BY <1>8, <3>1, <3>2 DEF Choose
  <2> QED
    BY <1>8, <2>2 DEF Choose, subs, counts
<1> QED
  BY <1>1, <1>2, <1>3, <1>4, <1>5, <1>6, <1>7, <1>8 DEF Next, Work, Choose, Validate, Link, Claim, Confirm,
     Complete, Visit, env, subs, vars

\* Every variable keeps its type.
THEOREM ImportsTypeCorrect == Spec => []TypeOK
<1>1. Init => PairsTyped
  BY ImportsAssumption DEF Init, ImportsAssumption, PairsTyped
<1>2. MInv /\ PairsTyped /\ [Next]_vars => PairsTyped'
  BY PairsStep, ImportsAssumption
<1>3. MInv /\ OInv /\ PairsTyped => TypeOK
  <2> SUFFICES ASSUME MInv, OInv, PairsTyped PROVE TypeOK
    OBVIOUS
  <2>1. w.step \notin {"idle", "look"} => w.source # 0 /\ w.item \in Holds[w.source]
    BY ImportsAssumption DEF MInv, StepHasItem, OInv, SourceHolds, ImportsAssumption
  <2> QED
    BY <2>1 DEF TypeOK, MInv, ImportsTyped, PairsTyped, Task, Steps, States
<1> QED
  BY <1>1, <1>2, <1>3, ImportsInvariance, OrderInvariance, PTL DEF Spec
=============================================================================
