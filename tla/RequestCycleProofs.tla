-------------------------- MODULE RequestCycleProofs --------------------------
(***************************************************************************)
(* No request that has always been approved loses its reservation, for any  *)
(* number of requests and media, pages of any size, and any decisions.      *)
(* A reservation is cancelled in two steps, the second of which no longer   *)
(* looks at Seerr: the invariant says what the first one has established.   *)
(***************************************************************************)
EXTENDS RequestCycle, TLAPS

\* The history names every request that is not approved now.
NeverWavered == \A r \in Requests : r \notin wavered => status[r] = "approved"

\* What the worker is about to cancel was made for a request that was seen withdrawn.
CancelIsSeen ==
    /\ \A m \in w.check : row[m].state # "none"
    /\ w.step = "cancel" => /\ row[w.medium].state # "none"
                            /\ row[w.medium].request \in wavered

CInv == TypeOK /\ NeverWavered /\ CancelIsSeen /\ ApprovedIsKept

Rows == [state : {"none", "reserved", "cancelled", "imported"}, request : Requests \cup {0}]
Tasks == [step : {"idle", "list", "work", "look", "cancel"}, page : Nat,
          approved : SUBSET Requests, admitted : SUBSET Media, check : SUBSET Media,
          medium : Media \cup {0}]

-----------------------------------------------------------------------------
(* Admission *)

\* `reserve` leaves every row that exists as it is, and makes the others for an
\* approved request of their own medium.
LEMMA ReserveAddsRows ==
    ASSUME CycleAssumption, TypeOK, NEW page \in Nat, NEW usable \in BOOLEAN, NEW m \in Media,
           NEW next, next = Reserved(Batch(page), usable)[m]
    PROVE  \/ next = row[m]
           \/ /\ row[m].state = "none" /\ next.state = "reserved"
              /\ next \in Rows /\ next.request \in Approved /\ Wants[next.request] = m
<1> DEFINE for == {r \in Foremost(Batch(page)) : Wants[r] = m}
<1>1. for \subseteq Approved
  BY DEF Foremost, Batch
<1>2. CASE usable /\ for # {} /\ m \notin deleted /\ row[m].state = "none"
  <2>1. next = [state |-> "reserved", request |-> CHOOSE r \in for : TRUE]
    BY <1>2 DEF Reserved
  <2>2. PICK r \in for : next = [state |-> "reserved", request |-> r]
    BY <1>2, <2>1
  <2>3. r \in Approved /\ r \in Requests /\ Wants[r] = m
    BY <1>1, <2>2 DEF Approved
  <2>4. next.state = "reserved" /\ next.request = r /\ next \in Rows
    BY <2>2, <2>3 DEF Rows
  <2> QED
    BY <1>2, <2>3, <2>4
<1>3. CASE ~ (usable /\ for # {} /\ m \notin deleted /\ row[m].state = "none")
  BY <1>3 DEF Reserved
<1> QED
  BY <1>2, <1>3

\* Reading a page leaves the worker's withdrawals alone.
LEMMA ListKeepsCheck ==
    ASSUME CycleAssumption, TypeOK, List
    PROVE  w.step = "list" /\ w' \in Tasks /\ w'.step # "cancel" /\ w'.check = w.check
<1> DEFINE batch == Batch(w.page)
<1>1. w \in Tasks /\ w.step = "list" /\ batch \subseteq Requests
  BY DEF List, TypeOK, Tasks, Batch, Approved
<1>2. CASE batch = {}
  <2>1. w' = [w EXCEPT !.step = "work"]
    BY <1>2 DEF List
  <2> QED
    BY <1>1, <2>1 DEF Tasks
<1>3. CASE batch # {}
  <2>1. PICK usable \in BOOLEAN :
            w' = [w EXCEPT !.page = @ + 1, !.approved = @ \cup batch,
                           !.admitted = @ \cup {m \in Media : /\ usable /\ m \notin deleted
                                                           /\ \E r \in batch : Wants[r] = m}]
    BY <1>3 DEF List
  <2> DEFINE read == w.approved \cup batch
             kept == w.admitted \cup {m \in Media : /\ usable /\ m \notin deleted
                                                    /\ \E r \in batch : Wants[r] = m}
             next == w.page + 1
  <2>2. w' = [w EXCEPT !.page = next, !.approved = read, !.admitted = kept]
    BY <2>1
  <2>3. read \in SUBSET Requests /\ kept \in SUBSET Media /\ next \in Nat
    BY <1>1 DEF Tasks
  <2> HIDE DEF read, kept, next
  <2>4. w \in Tasks /\ read \in SUBSET Requests /\ kept \in SUBSET Media /\ next \in Nat
    BY <1>1, <2>3
  <2>5. w' \in Tasks /\ w'.step = w.step /\ w'.check = w.check
    BY <2>2, <2>4 DEF Tasks
  <2> QED
    BY <1>1, <2>5
<1> QED
  BY <1>2, <1>3

-----------------------------------------------------------------------------
(* The inductive invariant *)

\* The rows, the pages of Seerr's answer and the worker's task stay typed: `reserve` makes rows
\* for requests only, and a cycle checks and cancels only media.
THEOREM CycleTypes == CycleAssumption /\ TypeOK /\ [Next]_vars => TypeOK'
<1> SUFFICES ASSUME CycleAssumption, TypeOK, [Next]_vars PROVE TypeOK'
  OBVIOUS
<1> USE DEF TypeOK, Statuses, Idle
<1>1. CASE Begin
  BY <1>1 DEF Begin, counts
<1>2. CASE List
  <2> DEFINE batch == Batch(w.page)
  <2>1. w.page \in Nat /\ batch \subseteq Requests
    BY <1>2 DEF List, Batch, Approved
  <2>2. w' \in Tasks /\ w'.step # "cancel" /\ UNCHANGED <<status, permit, deleted, decisions, deletes>>
    BY <1>2, ListKeepsCheck DEF List
  <2>3. faults' \in 0 .. MaxFaults
    BY <1>2 DEF List, CycleAssumption
  <2>4. CASE UNCHANGED <<row, wavered>>
    BY <2>2, <2>3, <2>4 DEF Tasks
  <2>5. CASE ~ UNCHANGED <<row, wavered>>
    <3>0. PICK usable \in BOOLEAN :
              /\ row' = Reserved(batch, usable)
              /\ wavered' = wavered \ {row'[m].request : m \in {n \in Media : row[n] = NoRow}}
      BY <1>2, <2>5 DEF List
    <3>1. row' = Reserved(batch, usable)
      BY <3>0
    <3>2. \A m \in Media : /\ row'[m] \in Rows
                           /\ row'[m].state # "none" =>
                                row'[m].request # 0 /\ Wants[row'[m].request] = m
      <4> SUFFICES ASSUME NEW m \in Media
                   PROVE  /\ row'[m] \in Rows
                          /\ row'[m].state # "none" =>
                                row'[m].request # 0 /\ Wants[row'[m].request] = m
        OBVIOUS
      <4>1. \/ row'[m] = row[m]
            \/ /\ row'[m] \in Rows /\ row'[m].request \in Requests
               /\ Wants[row'[m].request] = m
        BY <2>1, <3>1, ReserveAddsRows DEF Approved
      <4>2. 0 \notin Requests
        BY DEF CycleAssumption
      <4> QED
        BY <4>1, <4>2 DEF Rows
    <3>3. row' \in [Media -> Rows]
      BY <3>1, <3>2 DEF Reserved
    <3>4. wavered' \subseteq Requests
      BY <3>0
    <3> QED
      BY <2>2, <2>3, <3>2, <3>3, <3>4 DEF Rows, Tasks
  <2> QED
    BY <2>4, <2>5
<1>3. CASE \E m \in Media : Work(m)
  <2>1. PICK m \in Media : Work(m)
    BY <1>3
  <2>2. w' \in Tasks /\ w'.step = "work"
    BY <2>1 DEF Work, Tasks
  <2>3. permit' \in [Media -> {"none", "authorized", "used"}]
    BY <2>1 DEF Work
  <2>4. \/ row' = row
        \/ row[m].state = "reserved" /\ row' = [row EXCEPT ![m] = [@ EXCEPT !.state = "imported"]]
    <3>1. CASE UNCHANGED <<row, permit>>
      BY <3>1
    <3>2. CASE ~ UNCHANGED <<row, permit>>
      BY <2>1, <3>2 DEF Work
    <3> QED
      BY <3>1, <3>2
  <2>5. row' \in [Media -> Rows] /\ \A n \in Media : row'[n].state # "none" =>
                                      row'[n].request # 0 /\ Wants[row'[n].request] = n
    <3>1. m \in Media /\ row \in [Media -> Rows]
      BY DEF Rows
    <3>2. CASE row' = row
      BY <3>2 DEF Rows
    <3>3. CASE row[m].state = "reserved" /\ row' = [row EXCEPT ![m] = [@ EXCEPT !.state = "imported"]]
      <4>1. row[m] \in Rows
        BY <3>1
      <4>2. [row[m] EXCEPT !.state = "imported"] \in Rows
        BY <4>1 DEF Rows
      <4> QED
        BY <3>1, <3>3, <4>2
    <3> QED
      BY <2>4, <3>2, <3>3
  <2> QED
    BY <2>1, <2>2, <2>3, <2>5 DEF Work, counts, Rows, Tasks
<1>4. CASE Check
  BY <1>4 DEF Check, counts
<1>5. CASE Look
  <2>1. CASE w.check = {}
    BY <1>5, <2>1 DEF Look, counts
  <2>2. CASE w.check # {}
    <3>1. PICK m \in w.check :
              w' = [w EXCEPT !.check = @ \ {m}, !.medium = m,
                             !.step = IF Withdrawn(status[row[m].request]) THEN "cancel" ELSE "look"]
      BY <1>5, <2>2 DEF Look
    <3>2. m \in Media /\ m # 0
      BY DEF CycleAssumption
    <3>3. w' \in Tasks /\ w'.medium # 0
      BY <3>1, <3>2 DEF Tasks
    <3> QED
      BY <1>5, <3>3 DEF Look, counts, Tasks
  <2> QED
    BY <2>1, <2>2
<1>6. CASE CancelUnstarted
  <2>1. w' = [w EXCEPT !.step = "look"] /\ w.medium \in Media
    BY <1>6 DEF CancelUnstarted
  <2>2. w' \in Tasks /\ w'.step = "look"
    BY <2>1 DEF Tasks
  <2>3. \/ UNCHANGED <<row, permit>>
        \/ /\ row[w.medium].state = "reserved"
           /\ row' = [row EXCEPT ![w.medium] = [@ EXCEPT !.state = "cancelled"]]
           /\ permit' = [permit EXCEPT ![w.medium] = "none"]
    BY <1>6 DEF CancelUnstarted
  <2>4. row' \in [Media -> Rows] /\ \A n \in Media : row'[n].state # "none" =>
                                      row'[n].request # 0 /\ Wants[row'[n].request] = n
    <3>1. CASE UNCHANGED row
      BY <3>1 DEF Rows
    <3> DEFINE m == w.medium
    <3>2. CASE /\ row[m].state = "reserved"
               /\ row' = [row EXCEPT ![m] = [@ EXCEPT !.state = "cancelled"]]
      <4>1. m \in Media
        BY <2>1
      <4> HIDE DEF m
      <4> QED
        BY <3>2, <4>1 DEF Rows
    <3> QED
      BY <2>3, <3>1, <3>2
  <2>5. permit' \in [Media -> {"none", "authorized", "used"}]
    BY <2>3
  <2> QED
    BY <1>6, <2>2, <2>4, <2>5 DEF CancelUnstarted, counts, Rows, Tasks
<1>7. CASE Fault
  BY <1>7 DEF Fault, CycleAssumption
<1>8. CASE \E r \in Requests : Decide(r)
  BY <1>8 DEF Decide, CycleAssumption
<1>9. CASE \E m \in Media : Available(m)
  <2>1. PICK m \in Media : Available(m)
    BY <1>9
  <2>2. status' \in [Requests -> {"absent", "pending", "approved", "declined", "removed", "completed"}]
    BY <2>1 DEF Available
  <2>3. wavered' \subseteq Requests
    BY <2>1 DEF Available, Approved
  <2> QED
    BY <2>1, <2>2, <2>3 DEF Available, counts
<1>10. CASE \E m \in Media : Delete(m)
  BY <1>10 DEF Delete, CycleAssumption
<1>11. CASE UNCHANGED vars
  BY <1>11 DEF vars, counts
<1> QED
  BY <1>1, <1>2, <1>3, <1>4, <1>5, <1>6, <1>7, <1>8, <1>9, <1>10, <1>11 DEF Next, Cycle

\* The first cycle begins with an empty ledger.
LEMMA CycleStarts == CycleAssumption /\ Init => CInv
<1> SUFFICES ASSUME CycleAssumption, Init PROVE CInv
  OBVIOUS
<1>1. TypeOK
  BY DEF Init, TypeOK, CycleAssumption, NoRow, Idle, Statuses
<1>2. NeverWavered /\ CancelIsSeen /\ ApprovedIsKept
  BY DEF Init, NeverWavered, CancelIsSeen, ApprovedIsKept, CycleAssumption, NoRow, Idle
<1> QED
  BY <1>1, <1>2 DEF CInv

\* What is read as withdrawn, or is not approved, is in the history.
LEMMA WithdrawnWavered ==
    ASSUME NeverWavered, NEW r \in Requests, Withdrawn(status[r])
    PROVE  r \in wavered
  BY DEF NeverWavered, Withdrawn

\* Outside of admission no row is made, and a row is cancelled by one step only.
LEMMA RowsStay ==
    ASSUME CycleAssumption, TypeOK, [Next]_vars, ~ List, NEW m \in Media
    PROVE  /\ row'[m].request = row[m].request
           /\ row[m].state # "none" => row'[m].state # "none"
           /\ row'[m].state = "cancelled" =>
                row[m].state = "cancelled" \/ (w.step = "cancel" /\ m = w.medium)
<1>0. row \in [Media -> Rows] /\ row[m] \in Rows
  BY DEF TypeOK, Rows
<1>1. CASE \E n \in Media : Work(n)
  <2>1. PICK n \in Media : Work(n)
    BY <1>1
  <2>2. UNCHANGED row \/ row' = [row EXCEPT ![n].state = "imported"]
    BY <2>1 DEF Work
  <2>3. CASE UNCHANGED row
    BY <2>3
  <2>4. CASE row' = [row EXCEPT ![n] = [@ EXCEPT !.state = "imported"]]
    BY <1>0, <2>4 DEF Rows
  <2> QED
    BY <2>2, <2>3, <2>4
<1>2. CASE CancelUnstarted
  <2> DEFINE n == w.medium
  <2>1. UNCHANGED row \/ row' = [row EXCEPT ![n] = [@ EXCEPT !.state = "cancelled"]]
    BY <1>2 DEF CancelUnstarted
  <2>2. w.step = "cancel" /\ n = w.medium
    BY <1>2 DEF CancelUnstarted
  <2> HIDE DEF n
  <2>3. CASE UNCHANGED row
    BY <2>3
  <2>4. CASE row' = [row EXCEPT ![n] = [@ EXCEPT !.state = "cancelled"]]
    BY <1>0, <2>2, <2>4 DEF Rows
  <2> QED
    BY <2>1, <2>3, <2>4
<1>3. CASE UNCHANGED row
  BY <1>3
<1> QED
  BY <1>1, <1>2, <1>3 DEF Next, Cycle, Begin, Check, Look, Fault, Decide, Available, Delete, vars

\* No step of the cycle, no decision of a person and no deletion breaks it.
LEMMA CycleSteps == CycleAssumption /\ CInv /\ [Next]_vars => CInv'
<1> SUFFICES ASSUME CycleAssumption, CInv, [Next]_vars PROVE CInv'
  OBVIOUS
<1> USE DEF CInv
<1>0. TypeOK'
  BY CycleTypes
<1>1. CASE List
  <2> DEFINE batch == Batch(w.page)
             fresh == {row'[m].request : m \in {n \in Media : row[n] = NoRow}}
  <2>1. UNCHANGED status /\ w.page \in Nat /\ w'.step # "cancel" /\ w'.check = w.check
    BY <1>1, ListKeepsCheck DEF List, TypeOK
  <2>2. CASE UNCHANGED <<row, wavered>>
    <3>1. NeverWavered' /\ ApprovedIsKept'
      BY <2>1, <2>2 DEF NeverWavered, ApprovedIsKept
    <3>2. CancelIsSeen'
      BY <2>1, <2>2 DEF CancelIsSeen
    <3> QED
      BY <1>0, <3>1, <3>2
  <2>3. CASE ~ UNCHANGED <<row, wavered>>
    <3>1. PICK usable \in BOOLEAN : row' = Reserved(batch, usable) /\ wavered' = wavered \ fresh
      BY <1>1, <2>3 DEF List
    <3>2. \A m \in Media : \/ row'[m] = row[m]
                          \/ /\ row[m].state = "none" /\ row'[m].state = "reserved"
                             /\ row'[m].request \in Approved /\ Wants[row'[m].request] = m
      BY <2>1, <3>1, ReserveAddsRows
    <3>3. \A r \in fresh \cap Requests : \E m \in Media :
              row[m].state = "none" /\ r \in Approved /\ Wants[r] = m
      BY <3>2 DEF NoRow, CycleAssumption
    <3>4. NeverWavered'
      BY <2>1, <3>1, <3>3 DEF NeverWavered, Approved
    <3>5. ApprovedIsKept'
      <4> SUFFICES ASSUME NEW m \in Media, row'[m].state = "cancelled"
                   PROVE  row'[m].request \in wavered'
        BY DEF ApprovedIsKept
      <4>1. row'[m] = row[m]
        BY <3>2
      <4>2. row[m].request \in wavered /\ row[m].request \in Requests
        BY <4>1 DEF ApprovedIsKept, TypeOK
      <4>3. Wants[row[m].request] = m
        BY <4>1 DEF TypeOK
      <4>4. row[m].request \notin fresh
        BY <3>3, <4>1, <4>2, <4>3
      <4> QED
        BY <3>1, <4>1, <4>2, <4>4
    <3>6. CancelIsSeen'
      <4>1. w.check \subseteq Media
        BY DEF TypeOK
      <4> QED
        BY <2>1, <3>2, <4>1 DEF CancelIsSeen
    <3> QED
      BY <1>0, <3>4, <3>5, <3>6
  <2> QED
    BY <1>0, <2>2, <2>3
<1>2. CASE ~ List
  <2>1. NeverWavered'
    <3>1. CASE \E r \in Requests : Decide(r)
      <4>1. PICK r \in Requests : Decide(r)
        BY <3>1
      <4>2. PICK s \in Statuses : /\ status' = [status EXCEPT ![r] = s]
                                 /\ wavered' = IF s = "approved" THEN wavered ELSE wavered \cup {r}
        BY <4>1 DEF Decide, Statuses
      <4> QED
        BY <4>2 DEF NeverWavered, TypeOK
    <3>2. CASE \E m \in Media : Available(m)
      <4>1. PICK m \in Media : Available(m)
        BY <3>2
      <4>2. \A r \in Requests : IF status[r] = "approved" /\ Wants[r] = m
                                THEN r \in wavered' ELSE status'[r] = status[r]
        BY <4>1 DEF Available, Approved
      <4>3. wavered \subseteq wavered'
        BY <4>1 DEF Available
      <4> QED
        BY <4>2, <4>3 DEF NeverWavered
    <3>3. CASE UNCHANGED <<status, wavered>>
      BY <3>3 DEF NeverWavered
    <3> QED
      BY <1>2, <3>1, <3>2, <3>3 DEF Next, Cycle, Begin, Work, Check, Look, CancelUnstarted, Fault,
                                    Delete, vars
  <2>2. ApprovedIsKept'
    <3>1. wavered \subseteq wavered'
      BY <1>2 DEF Next, Cycle, Begin, Work, Check, Look, CancelUnstarted, Fault, Decide, Available,
                  Delete, vars
    <3>2. \A m \in Media : /\ row'[m].request = row[m].request
                           /\ row'[m].state = "cancelled" =>
                                row[m].state = "cancelled" \/ (w.step = "cancel" /\ m = w.medium)
      BY <1>2, RowsStay
    <3> QED
      BY <3>1, <3>2 DEF ApprovedIsKept, CancelIsSeen
  <2>3. CancelIsSeen'
    <3>1. \A m \in Media : /\ row[m].state # "none" => row'[m].state # "none"
                           /\ row'[m].request = row[m].request
      BY <1>2, RowsStay
    <3>2. wavered \subseteq wavered'
      BY <1>2 DEF Next, Cycle, Begin, Work, Check, Look, CancelUnstarted, Fault, Decide, Available,
                  Delete, vars
    <3>3. w.check \subseteq Media /\ w'.check \subseteq Media
      BY <1>0 DEF TypeOK
    <3>4. CASE Look /\ w.check # {}
      <4>1. PICK m \in w.check :
                w' = [w EXCEPT !.check = @ \ {m}, !.medium = m,
                               !.step = IF Withdrawn(status[row[m].request]) THEN "cancel" ELSE "look"]
        BY <3>4 DEF Look
      <4> DEFINE step == IF Withdrawn(status[row[m].request]) THEN "cancel" ELSE "look"
      <4>2. step = "cancel" => Withdrawn(status[row[m].request])
        OBVIOUS
      <4>3. w' = [w EXCEPT !.check = @ \ {m}, !.medium = m, !.step = step]
        BY <4>1
      <4> HIDE DEF step
      <4>4. w'.medium = m /\ w'.step = step /\ w'.check \subseteq w.check
        BY <4>3 DEF TypeOK
      <4>5. m \in Media /\ row[m].state # "none" /\ row[m].request \in Requests
        BY <3>3 DEF CancelIsSeen, TypeOK
      <4>6. step = "cancel" => row[m].request \in wavered
        BY <4>2, <4>5, WithdrawnWavered
      <4> QED
        BY <3>1, <3>2, <3>3, <4>4, <4>5, <4>6 DEF CancelIsSeen
    <3>5. CASE ~ (Look /\ w.check # {})
      <4>1. w'.step # "cancel" \/ (w'.step = w.step /\ w'.medium = w.medium /\ w.medium \in Media)
        <5>1. CASE Begin \/ Fault
          BY <5>1 DEF Begin, Fault, Idle
        <5>2. CASE \E m \in Media : Work(m)
          BY <5>2 DEF Work, TypeOK
        <5>3. CASE Check
          BY <5>3 DEF Check, TypeOK
        <5>4. CASE Look
          <6>1. w' = Idle
            BY <3>5, <5>4 DEF Look
          <6> QED
            BY <6>1 DEF Idle
        <5>5. CASE CancelUnstarted
          BY <5>5 DEF CancelUnstarted, TypeOK
        <5>6. CASE UNCHANGED w
          BY <5>6 DEF TypeOK
        <5> QED
          BY <1>2, <5>1, <5>2, <5>3, <5>4, <5>5, <5>6 DEF Next, Cycle, Decide, Available, Delete, vars
      <4>2. \A m \in w'.check : m \in w.check \/ row[m].state # "none"
        <5>1. CASE Begin \/ Fault
          BY <5>1 DEF Begin, Fault, Idle
        <5>2. CASE \E m \in Media : Work(m)
          BY <5>2 DEF Work, TypeOK
        <5>3. CASE Check
          BY <5>3 DEF Check, TypeOK
        <5>4. CASE Look
          <6>1. w' = Idle
            BY <3>5, <5>4 DEF Look
          <6> QED
            BY <6>1 DEF Idle
        <5>5. CASE CancelUnstarted
          BY <5>5 DEF CancelUnstarted, TypeOK
        <5>6. CASE UNCHANGED w
          BY <5>6
        <5> QED
          BY <1>2, <5>1, <5>2, <5>3, <5>4, <5>5, <5>6 DEF Next, Cycle, Decide, Available, Delete, vars
      <4> QED
        BY <3>1, <3>2, <3>3, <4>1, <4>2 DEF CancelIsSeen
    <3> QED
      BY <3>4, <3>5
  <2> QED
    BY <1>0, <2>1, <2>2, <2>3
<1> QED
  BY <1>1, <1>2

\* The invariant holds in every reachable state.
THEOREM CycleInvariance == Spec => []CInv
<1>1. Init => CInv
  BY CycleStarts, CycleAssumption
<1>2. CInv /\ [Next]_vars => CInv'
  BY CycleSteps, CycleAssumption
<1> QED
  BY <1>1, <1>2, PTL DEF Spec

\* A request that has always been approved loses no reservation: what cancels one does
\* not rely on the pages alone, which shift while they are read, but on its own status
\* (`reconcile`, cancellation.py), and a status once seen stays in the history.
THEOREM ApprovedIsNeverCancelled == Spec => []ApprovedIsKept
<1>1. CInv => ApprovedIsKept
  BY DEF CInv
<1> QED
  BY <1>1, CycleInvariance, PTL

\* Every variable keeps its type.
THEOREM CycleTypesHold == Spec => []TypeOK
<1>1. CInv => TypeOK
  BY DEF CInv
<1> QED
  BY <1>1, CycleInvariance, PTL
=============================================================================
