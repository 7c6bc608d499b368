--------------------------- MODULE CapacityProofs ---------------------------
(***************************************************************************)
(* Proofs about Capacity: the types, and that everything admitted on a disk *)
(* fits there.                                                              *)
(***************************************************************************)
EXTENDS Capacity, FiniteSetTheorems, TLAPS

-----------------------------------------------------------------------------
(* Sums of bytes *)

\* A function to natural numbers with a finite domain has finitely many bytes.
LEMMA SumType ==
    ASSUME NEW S, IsFiniteSet(S), NEW f \in [S -> Nat]
    PROVE  IsFiniteSet(BytesOf(f)) /\ Sum(f) \in Nat
<1> DEFINE B(x) == {x} \X (1 .. f[x])
           of == [x \in S |-> B(x)]
<1>1. \A x \in S : IsFiniteSet(B(x))
  <2>1. TAKE x \in S
  <2>2. f[x] \in Int /\ 1 \in Int
    OBVIOUS
  <2>3. IsFiniteSet({x}) /\ IsFiniteSet(1 .. f[x])
    BY <2>2, FS_Singleton, FS_Interval
  <2>4. QED  BY <2>3, FS_Product
<1>2. IsFiniteSet({B(x) : x \in S})
  <2>1. of \in Surjection(S, {B(x) : x \in S})
    BY DEF Surjection
  <2>2. QED  BY <2>1, FS_Surjection
<1>3. BytesOf(f) = UNION {B(x) : x \in S}
  BY DEF BytesOf
<1>4. IsFiniteSet(BytesOf(f))
  <2>1. \A T \in {B(x) : x \in S} : IsFiniteSet(T)
    BY <1>1
  <2>2. QED  BY <1>2, <1>3, <2>1, FS_UNION
<1>5. QED  BY <1>4, FS_CardinalityType DEF Sum

\* Whoever has a byte in a function that is nowhere larger has it in the larger one.
LEMMA SumMono ==
    ASSUME NEW S, NEW T, IsFiniteSet(T), NEW f \in [S -> Nat], NEW g \in [T -> Nat],
           \A x \in S : f[x] = 0 \/ (x \in T /\ f[x] <= g[x])
    PROVE  Sum(f) <= Sum(g)
<1>1. BytesOf(f) \subseteq BytesOf(g)
  <2>1. SUFFICES ASSUME NEW x \in S, NEW i \in 1 .. f[x]
                 PROVE  <<x, i>> \in BytesOf(g)
    BY DEF BytesOf
  <2>2. x \in T /\ i \in 1 .. g[x]
    OBVIOUS
  <2>3. QED  BY <2>2 DEF BytesOf
<1>2. QED  BY <1>1, SumType, FS_Subset DEF Sum

\* A function larger only at one point, and there by no more than k, has a sum larger by
\* no more than k.
LEMMA SumStep ==
    ASSUME NEW S, NEW T, IsFiniteSet(T), NEW f \in [S -> Nat], NEW g \in [T -> Nat],
           NEW t, NEW k \in Nat, NEW b \in Nat,
           b = 0 \/ (t \in T /\ b = g[t]),
           t \in S => f[t] <= b + k,
           \A x \in S \ {t} : f[x] = 0 \/ (x \in T /\ f[x] <= g[x])
    PROVE  Sum(f) <= Sum(g) + k
<1> DEFINE more == {t} \X (b + 1 .. b + k)
<1>1. IsFiniteSet(more) /\ Cardinality(more) = k
  <2>1. IsFiniteSet({t}) /\ Cardinality({t}) = 1
    BY FS_Singleton
  <2>2. IsFiniteSet(b + 1 .. b + k) /\ Cardinality(b + 1 .. b + k) = k
    <3>1. \A lo, hi \in Int : hi = lo + k - 1 =>
             IsFiniteSet(lo .. hi) /\ Cardinality(lo .. hi) = k
      BY FS_Interval
    <3>2. b + 1 \in Int /\ b + k \in Int /\ b + k = (b + 1) + k - 1
      OBVIOUS
    <3>3. QED  BY <3>1, <3>2
  <2>3. \A U : IsFiniteSet(U) /\ Cardinality(U) = k =>
               IsFiniteSet({t} \X U) /\ Cardinality({t} \X U) = 1 * k
    BY <2>1, FS_Product
  <2>4. 1 * k = k
    OBVIOUS
  <2>5. QED  BY <2>2, <2>3, <2>4
<1>2. BytesOf(f) \subseteq BytesOf(g) \cup more
  <2>1. SUFFICES ASSUME NEW x \in S, NEW i \in 1 .. f[x]
                 PROVE  <<x, i>> \in BytesOf(g) \cup more
    BY DEF BytesOf
  <2>2. CASE x \in T /\ i \in 1 .. g[x]
    BY <2>2 DEF BytesOf
  <2>3. CASE x = t /\ i \in b + 1 .. b + k
    BY <2>3
  <2>4. QED  BY <2>2, <2>3
<1>3. IsFiniteSet(BytesOf(g)) /\ Cardinality(BytesOf(g)) \in Nat
  BY SumType DEF Sum
<1>4. /\ IsFiniteSet(BytesOf(g) \cup more)
      /\ Cardinality(BytesOf(g) \cup more)
            = Cardinality(BytesOf(g)) + k - Cardinality(BytesOf(g) \cap more)
  BY <1>1, <1>3, FS_Union
<1>5. Cardinality(BytesOf(g) \cap more) \in Nat
  BY <1>1, FS_Intersection, FS_CardinalityType
<1>6. /\ Cardinality(BytesOf(f)) <= Cardinality(BytesOf(g) \cup more)
      /\ IsFiniteSet(BytesOf(f))
  BY <1>2, <1>4, FS_Subset
<1>7. Cardinality(BytesOf(f)) \in Nat
  BY <1>6, FS_CardinalityType
<1>8. QED  BY <1>3, <1>4, <1>5, <1>6, <1>7 DEF Sum

\* A function smaller everywhere, and at one point by at least one, has a smaller sum.
LEMMA SumDrop ==
    ASSUME NEW S, NEW T, IsFiniteSet(T), NEW f \in [S -> Nat], NEW g \in [T -> Nat],
           NEW t \in S \cap T, f[t] < g[t],
           \A x \in S : f[x] = 0 \/ (x \in T /\ f[x] <= g[x])
    PROVE  Sum(f) < Sum(g)
<1>1. BytesOf(f) \subseteq BytesOf(g)
  <2>1. SUFFICES ASSUME NEW x \in S, NEW i \in 1 .. f[x]
                 PROVE  <<x, i>> \in BytesOf(g)
    BY DEF BytesOf
  <2>2. x \in T /\ i \in 1 .. g[x]
    OBVIOUS
  <2>3. QED  BY <2>2 DEF BytesOf
<1>2. <<t, g[t]>> \in BytesOf(g) /\ <<t, g[t]>> \notin BytesOf(f)
  BY DEF BytesOf
<1>3. IsFiniteSet(BytesOf(g)) /\ Sum(g) \in Nat
  BY SumType
<1>4. /\ Cardinality(BytesOf(f)) <= Cardinality(BytesOf(g))
      /\ Cardinality(BytesOf(g)) # Cardinality(BytesOf(f))
      /\ IsFiniteSet(BytesOf(f))
  BY <1>1, <1>2, <1>3, FS_Subset
<1>5. QED  BY <1>3, <1>4, FS_CardinalityType DEF Sum

-----------------------------------------------------------------------------
(* The types *)

\* What is on a disk and what is owed there are sums of sizes.
Measured == \A d \in Disks : Written(d) \in Nat /\ Owed(d) \in Nat /\ Free(d) \in Int

\* Typed sizes make these sums numbers.
LEMMA SumsType == Types => Measured
<1> SUFFICES ASSUME Types, NEW d \in Disks
             PROVE  Written(d) \in Nat /\ Owed(d) \in Nat /\ Free(d) \in Int
  BY DEF Measured
<1>1. IsFiniteSet(On(d) \cap queue) /\ IsFiniteSet({t \in On(d) : t \in queue \/ Promised(t)})
  BY CapacityAssumption, FS_Subset DEF On
<1>2. [t \in On(d) \cap queue |-> Size[t] - left[t]] \in [On(d) \cap queue -> Nat]
  BY CapacityAssumption DEF Types, On
<1>3. [t \in {t \in On(d) : t \in queue \/ Promised(t)} |-> Due(t)]
        \in [{t \in On(d) : t \in queue \/ Promised(t)} -> Nat]
  BY CapacityAssumption DEF Types, On, Due
<1>4. Written(d) \in Nat
  BY <1>1, <1>2, SumType DEF Written
<1>5. Owed(d) \in Nat
  BY <1>1, <1>3, SumType DEF Owed
<1>6. Total[d] \in Nat /\ foreign[d] \in Nat
  BY CapacityAssumption DEF Types
<1>7. QED  BY <1>4, <1>5, <1>6 DEF Free

\* The first cycle begins with an empty pool and no evidence.
LEMMA TypesInit == Init => Types
BY CapacityAssumption DEF Init, Types, Idle, NoEvidence, States, Disks

\* Every step keeps the types; a measure of a disk is a number because no disk is
\* over-full.
LEMMA TypesStep == TypeOK /\ [Next]_vars => Types'
<1> SUFFICES ASSUME TypeOK, [Next]_vars PROVE Types'
  OBVIOUS
<1> USE DEF TypeOK, rows, torrents, disks, counters
<1>a. \A d \in Disks : Free(d) \in Nat
  BY SumsType DEF Measured
<1>b. Idle \in [step : {"idle"}, torrent : Torrents \cup {"none"},
              ev : [queue : SUBSET Torrents, left : [Torrents -> Nat], verified : SUBSET Disks,
                    pools : SUBSET Disks, free : [Disks -> Nat]]]
  BY CapacityAssumption DEF Idle, NoEvidence
<1>1. CASE StartCycle
  BY <1>1 DEF StartCycle, Types
<1>2. CASE ReadDisks
  BY <1>2, <1>a, <1>b DEF ReadDisks, Types, Verified
<1>3. CASE Issue
  BY <1>3, <1>b DEF Issue, Types, First, Disks, States
<1>4. CASE Wait \/ PromoteProbe \/ AskAgain
  BY <1>4, <1>b DEF Wait, PromoteProbe, AskAgain, Types
<1>5. CASE RejectProbe
  BY <1>5, <1>b DEF RejectProbe, Rejects, Compares, Judged, Types, States
<1>6. ASSUME NEW t \in Torrents, Skip(t) \/ GiveUp(t) \/ Reconcile(t)
      PROVE  Types'
  BY <1>6 DEF Skip, GiveUp, Reconcile, Outlived, Uncertain, Types, States
<1>7. ASSUME NEW t \in Torrents, ReadQueue(t)
      PROVE  Types'
  BY <1>7, CapacityAssumption DEF ReadQueue, QueueEntries, NoEvidence, Types, States
<1>8. ASSUME NEW t \in Torrents, Claim(t) \/ Add(t) \/ AddLost(t)
      PROVE  Types'
  BY <1>8, CapacityAssumption DEF Claim, Add, AddLost, Types, States
<1>9. ASSUME NEW t \in Torrents, Lose(t) \/ Expire(t) \/ Cancel(t)
      PROVE  Types'
  BY <1>9, CapacityAssumption DEF Lose, Expire, Cancel, Types, States
<1>10. ASSUME NEW t \in Torrents, Download(t) \/ Import(t) \/ Delete(t)
      PROVE  Types'
  BY <1>10, CapacityAssumption DEF Download, Import, Delete, Types
<1>11. ASSUME NEW d \in Disks, Foreign(d) \/ Leave(d) \/ Return(d)
      PROVE  Types'
  BY <1>11, CapacityAssumption DEF Foreign, Leave, Return, Types
<1>12. CASE UNCHANGED vars
  BY <1>12 DEF vars, Types
<1>13. QED
  BY <1>1, <1>2, <1>3, <1>4, <1>5, <1>6, <1>7, <1>8, <1>9, <1>10, <1>11, <1>12
     DEF Next, Worker, Gateway, Host

-----------------------------------------------------------------------------
(* The rows and the worker's evidence *)

\* Nothing is placed and nothing has been read.
LEMMA RowsInit == Init => RowsOK /\ EvidenceOK
BY CapacityAssumption DEF Init, RowsOK, EvidenceOK, Promised, Idle

\* A row is promised again only by Issue, for a torrent that is not in the queue and whose
\* reservation is active; the worker ends a reservation only between two visits.
LEMMA RowsStep == Types /\ RowsOK /\ [Next]_vars => RowsOK'
<1> SUFFICES ASSUME Types, RowsOK, [Next]_vars PROVE RowsOK'
  OBVIOUS
<1> USE DEF Types, States, RowsOK, Promised, rows, torrents, disks, counters
<1>1. CASE StartCycle \/ ReadDisks \/ Wait \/ PromoteProbe \/ AskAgain
  BY <1>1 DEF StartCycle, ReadDisks, Wait, PromoteProbe, AskAgain
<1>2. CASE Issue
  BY <1>2 DEF Issue, Issues, Wanting
<1>3. CASE RejectProbe
  BY <1>3 DEF RejectProbe
<1>4. ASSUME NEW t \in Torrents, Skip(t) \/ GiveUp(t) \/ Reconcile(t) \/ ReadQueue(t)
      PROVE  RowsOK'
  BY <1>4 DEF Skip, GiveUp, Reconcile, ReadQueue, Outlived, Uncertain
<1>5. ASSUME NEW t \in Torrents, Claim(t) \/ Add(t) \/ AddLost(t)
      PROVE  RowsOK'
  BY <1>5 DEF Claim, Add, AddLost
<1>6. ASSUME NEW t \in Torrents, Lose(t) \/ Expire(t) \/ Cancel(t)
      PROVE  RowsOK'
  BY <1>6 DEF Lose, Expire, Cancel
<1>7. ASSUME NEW t \in Torrents, Download(t) \/ Import(t) \/ Delete(t)
      PROVE  RowsOK'
  BY <1>7 DEF Download, Import, Delete
<1>8. ASSUME NEW d \in Disks, Foreign(d) \/ Leave(d) \/ Return(d)
      PROVE  RowsOK'
  BY <1>8 DEF Foreign, Leave, Return
<1>9. CASE UNCHANGED vars
  BY <1>9 DEF vars
<1>10. QED
  BY <1>1, <1>2, <1>3, <1>4, <1>5, <1>6, <1>7, <1>8, <1>9 DEF Next, Worker, Gateway, Host

\* ReadQueue takes fresh evidence.  What the gateway and the host do after it can only
\* make it err on the safe side, and the worker's own steps end the visit.
LEMMA EvidenceStep == Types /\ RowsOK /\ EvidenceOK /\ [Next]_vars => EvidenceOK'
<1> SUFFICES ASSUME Types, RowsOK, EvidenceOK, [Next]_vars PROVE EvidenceOK'
  OBVIOUS
<1> USE DEF Types, States, EvidenceOK, Counted, Promised, rows, torrents, disks, counters
<1>1. CASE StartCycle \/ Issue \/ Wait \/ PromoteProbe \/ AskAgain \/ RejectProbe
  BY <1>1 DEF StartCycle, Issue, Wait, PromoteProbe, AskAgain, RejectProbe, Idle
<1>2. CASE ReadDisks
  <2>1. w'.step = "idle" \/ (w'.ev.queue = w.ev.queue /\ w'.ev.left = w.ev.left)
    BY <1>2 DEF ReadDisks, Idle
  <2>2. QED  BY <1>2, <2>1 DEF ReadDisks
<1>3. ASSUME NEW t \in Torrents, Skip(t) \/ GiveUp(t) \/ Reconcile(t)
      PROVE  EvidenceOK'
  BY <1>3 DEF Skip, GiveUp, Reconcile
<1>4. ASSUME NEW t \in Torrents, ReadQueue(t)
      PROVE  EvidenceOK'
  <2>1. w'.ev.queue = queue /\ w'.ev.left = left
    BY <1>4 DEF ReadQueue, QueueEntries, NoEvidence
  <2>2. QED  BY <1>4, <2>1 DEF ReadQueue
<1>5. ASSUME NEW t \in Torrents, Claim(t) \/ Add(t) \/ AddLost(t)
      PROVE  EvidenceOK'
  BY <1>5 DEF Claim, Add, AddLost, RowsOK
<1>6. ASSUME NEW t \in Torrents, Lose(t) \/ Expire(t) \/ Cancel(t)
      PROVE  EvidenceOK'
  BY <1>6 DEF Lose, Expire, Cancel, RowsOK
<1>7. ASSUME NEW t \in Torrents, Download(t)
      PROVE  EvidenceOK'
  BY <1>7 DEF Download
<1>8. ASSUME NEW t \in Torrents, Import(t) \/ Delete(t)
      PROVE  EvidenceOK'
  BY <1>8 DEF Import, Delete
<1>9. ASSUME NEW d \in Disks, Foreign(d) \/ Leave(d) \/ Return(d)
      PROVE  EvidenceOK'
  BY <1>9 DEF Foreign, Leave, Return
<1>10. CASE UNCHANGED vars
  BY <1>10 DEF vars
<1>11. QED
  BY <1>1, <1>2, <1>3, <1>4, <1>5, <1>6, <1>7, <1>8, <1>9, <1>10
     DEF Next, Worker, Gateway, Host

-----------------------------------------------------------------------------
(* What is on a disk and what is owed there *)

\* The same after a step.
LEMMA SumsTypeNext ==
    Types' => \A d \in Disks : Written(d)' \in Nat /\ Owed(d)' \in Nat /\ Free(d)' \in Int
<1>1. Types' => Measured'
  BY SumsType, PTL
<1>2. QED  BY <1>1 DEF Measured

\* No torrent has more written on the disk than before.
LEMMA WrittenFalls ==
    ASSUME Types, Types', NEW d \in Disks,
           \A t \in Torrents : t \in queue' /\ place'[t] = d =>
               left'[t] = Size[t] \/ (t \in queue /\ place[t] = d /\ left[t] <= left'[t])
    PROVE  Written(d)' <= Written(d)
<1> DEFINE S == On(d)' \cap queue'
           T == On(d) \cap queue
           f == [t \in S |-> Size[t] - left'[t]]
           g == [t \in T |-> Size[t] - left[t]]
<1>1. IsFiniteSet(T)
  BY CapacityAssumption, FS_Subset DEF On
<1>2. f \in [S -> Nat] /\ g \in [T -> Nat]
  BY CapacityAssumption DEF Types, On
<1>3. \A x \in S : f[x] = 0 \/ (x \in T /\ f[x] <= g[x])
  BY CapacityAssumption DEF Types, On
<1>4. Sum(f) <= Sum(g)
  <2> HIDE DEF f, g, S, T
  <2> QED  BY <1>1, <1>2, <1>3, SumMono
<1>5. QED  BY <1>4 DEF Written

\* No torrent has more to write on the disk than before.
LEMMA OwedFalls ==
    ASSUME Types, Types', NEW d \in Disks,
           \A t \in Torrents : (t \in queue' \/ Promised(t)') /\ place'[t] = d =>
               \/ Due(t)' = 0
               \/ (t \in queue \/ Promised(t)) /\ place[t] = d /\ Due(t)' <= Due(t)
    PROVE  Owed(d)' <= Owed(d)
<1> DEFINE S == {t \in On(d)' : t \in queue' \/ Promised(t)'}
           T == {t \in On(d) : t \in queue \/ Promised(t)}
           f == [t \in S |-> Due(t)']
           g == [t \in T |-> Due(t)]
<1>1. IsFiniteSet(T)
  BY CapacityAssumption, FS_Subset DEF On
<1>2. f \in [S -> Nat] /\ g \in [T -> Nat]
  BY CapacityAssumption DEF Types, On, Due
<1>3. \A x \in S : f[x] = 0 \/ (x \in T /\ f[x] <= g[x])
  BY DEF On
<1>4. Sum(f) <= Sum(g)
  <2> HIDE DEF f, g, S, T
  <2> QED  BY <1>1, <1>2, <1>3, SumMono
<1>5. QED  BY <1>4 DEF Owed

\* What the worker subtracts, by its old evidence, is at least what is owed now.
LEMMA PendingCovers ==
    ASSUME Types, RowsOK, EvidenceOK, w.step # "idle", NEW d \in Disks
    PROVE  Pending(d, w.ev) \in Nat /\ Owed(d) <= Pending(d, w.ev)
<1> DEFINE S == {t \in On(d) : t \in queue \/ Promised(t)}
           T == {t \in On(d) : t \in w.ev.queue \/ Counted(t)}
           f == [t \in S |-> Due(t)]
           g == [t \in T |-> IF t \in w.ev.queue THEN w.ev.left[t] ELSE Size[t]]
<1>1. IsFiniteSet(T)
  BY CapacityAssumption, FS_Subset DEF On
<1>2. f \in [S -> Nat] /\ g \in [T -> Nat]
  BY CapacityAssumption DEF Types, On, Due
<1>3. \A x \in S : f[x] = 0 \/ (x \in T /\ f[x] <= g[x])
  BY CapacityAssumption DEF Types, On, Due, EvidenceOK, RowsOK, Promised, Counted
<1>4. Sum(f) <= Sum(g) /\ Sum(g) \in Nat
  <2> HIDE DEF f, g, S, T
  <2> QED  BY <1>1, <1>2, <1>3, SumMono, SumType
<1>5. QED  BY <1>4 DEF Owed, Pending

\* The disk that is chosen has room by the evidence and by what it measures now.
LEMMA PlacementFits ==
    ASSUME Types, w.step # "idle", NEW t \in Torrents, Placements(t, w.ev) # {},
           \A d \in Disks : Pending(d, w.ev) \in Nat
    PROVE  LET d == First(Placements(t, w.ev))
           IN  d \in Disks /\ Size[t] <= Free(d) - Pending(d, w.ev)
<1> DEFINE d == First(Placements(t, w.ev))
<1>1. d \in Placements(t, w.ev) /\ d \in Disks
  BY DEF Placements, First, Disks, Types
<1>2. w.ev.free[d] \in Int /\ Free(d) \in Int
  BY <1>1, SumsType DEF Types, Measured
<1>3. Min({w.ev.free[d], Free(d)}) \in Int /\ Min({w.ev.free[d], Free(d)}) <= Free(d)
  <2> \A a, b \in Int : Min({a, b}) \in Int /\ Min({a, b}) <= b
    <3>1. TAKE a, b \in Int
    <3>2. \E x \in {a, b} : \A y \in {a, b} : x <= y
      OBVIOUS
    <3>3. Min({a, b}) \in {a, b} /\ \A y \in {a, b} : Min({a, b}) <= y
      BY <3>2 DEF Min
    <3>4. QED  BY <3>3
  <2> QED  BY <1>2
<1>4. Size[t] <= Min({w.ev.free[d], Free(d)}) - Pending(d, w.ev)
  BY <1>1 DEF Placements
<1>5. Size[t] \in Nat /\ Pending(d, w.ev) \in Nat
  BY <1>1, CapacityAssumption
<1>6. QED  BY <1>1, <1>2, <1>3, <1>4, <1>5

-----------------------------------------------------------------------------
(* Everything admitted on a disk fits there *)

\* What is promised fits, and no disk is overfull.
Fits == Committed /\ \A d \in Disks : Free(d) >= 0

\* An empty disk fits.
LEMMA FitsInit == Init => Fits
<1> SUFFICES ASSUME Init, NEW d \in Disks PROVE Owed(d) + Written(d) <= Total[d] /\ Free(d) >= 0
  BY DEF Fits, Committed
<1>1. On(d) = {}
  BY CapacityAssumption DEF Init, On, Disks
<1> DEFINE none == [t \in {} |-> 0]
<1>2. [t \in On(d) \cap queue |-> Size[t] - left[t]] = none
      /\ [t \in {t \in On(d) : t \in queue \/ Promised(t)} |-> Due(t)] = none
  BY <1>1
<1>3. BytesOf(none) = {}
  BY DEF BytesOf
<1>4. Written(d) = 0 /\ Owed(d) = 0
  BY <1>2, <1>3, FS_EmptySet DEF Written, Owed, Sum
<1>5. Total[d] \in Nat /\ foreign[d] = 0
  BY CapacityAssumption DEF Init
<1>6. QED  BY <1>4, <1>5 DEF Free

\* A step that neither writes nor promises anything new, nor lets other programs write.
LEMMA FitsKept ==
    ASSUME Types, Types', Fits, foreign' = foreign,
           \A d \in Disks : Written(d)' <= Written(d) /\ Owed(d)' <= Owed(d)
    PROVE  Fits'
<1> SUFFICES ASSUME NEW d \in Disks
             PROVE  Owed(d)' + Written(d)' <= Total[d] /\ Free(d)' >= 0
  BY DEF Fits, Committed
<1>1. Written(d) \in Nat /\ Owed(d) \in Nat /\ Written(d)' \in Nat /\ Owed(d)' \in Nat
  BY SumsType, SumsTypeNext DEF Measured
<1>2. Total[d] \in Nat /\ foreign[d] \in Nat /\ foreign'[d] = foreign[d]
  BY CapacityAssumption DEF Types
<1>3. Owed(d) + Written(d) <= Total[d] /\ Total[d] - Written(d) - foreign[d] >= 0
  BY DEF Fits, Committed, Free
<1>4. QED  BY <1>1, <1>2, <1>3 DEF Free

\* The rows and torrents of such a step.
LEMMA FitsQuiet ==
    ASSUME Types, Types', RowsOK, Fits, foreign' = foreign, left' = left,
           \A t \in queue' : place'[t] = place[t] /\ (t \in queue \/ permit[t] = "dispatching"),
           \A t \in Torrents : Promised(t)' =>
               Promised(t) /\ place'[t] = place[t] /\ (t \in queue => t \in queue')
    PROVE  Fits'
<1>1. ASSUME NEW d \in Disks PROVE Written(d)' <= Written(d)
  <2>1. \A t \in Torrents : t \in queue' /\ place'[t] = d =>
            left'[t] = Size[t] \/ (t \in queue /\ place[t] = d /\ left[t] <= left'[t])
    BY DEF RowsOK, Types
  <2>2. QED  BY <2>1, WrittenFalls
<1>2. ASSUME NEW d \in Disks PROVE Owed(d)' <= Owed(d)
  <2>1. \A t \in Torrents : (t \in queue' \/ Promised(t)') /\ place'[t] = d =>
            (t \in queue \/ Promised(t)) /\ place[t] = d /\ Due(t)' <= Due(t)
    BY CapacityAssumption DEF RowsOK, Types, Promised, Due
  <2>2. QED  BY <2>1, OwedFalls
<1>3. QED  BY <1>1, <1>2, FitsKept

\* A byte that is downloaded is written, and no longer owed.
LEMMA FitsDownload ==
    ASSUME Types, Types', Fits, NEW t \in Torrents, Download(t)
    PROVE  Fits'
<1>1. /\ t \in queue /\ queue' = queue /\ place' = place /\ permit' = permit
      /\ foreign' = foreign /\ left[t] > 0 /\ left' = [left EXCEPT ![t] = @ - 1]
      /\ Free(place[t]) > 0
  BY DEF Download, rows, disks
<1>2. \A u \in Torrents : left[u] \in Nat /\ left[u] <= Size[u] /\ Size[u] \in Nat
                         /\ left'[u] = IF u = t THEN left[t] - 1 ELSE left[u]
  BY <1>1, CapacityAssumption DEF Types
<1>3. ASSUME NEW d \in Disks, d # place[t]
      PROVE  Written(d)' <= Written(d) /\ Owed(d)' <= Owed(d)
  <2>1. \A u \in Torrents : u \in queue' /\ place'[u] = d =>
            left'[u] = Size[u] \/ (u \in queue /\ place[u] = d /\ left[u] <= left'[u])
    BY <1>1, <1>2, <1>3
  <2>2. \A u \in Torrents : (u \in queue' \/ Promised(u)') /\ place'[u] = d =>
            (u \in queue \/ Promised(u)) /\ place[u] = d /\ Due(u)' <= Due(u)
    BY <1>1, <1>2, <1>3 DEF Promised, Due
  <2>3. QED  BY <2>1, <2>2, WrittenFalls, OwedFalls
<1>4. ASSUME NEW d \in Disks, d = place[t]
      PROVE  Written(d)' <= Written(d) + 1 /\ Owed(d)' < Owed(d)
  <2>1. Written(d)' <= Written(d) + 1
    <3> DEFINE S == On(d)' \cap queue'
               T == On(d) \cap queue
               f == [u \in S |-> Size[u] - left'[u]]
               g == [u \in T |-> Size[u] - left[u]]
    <3>1. IsFiniteSet(T) /\ S = T /\ t \in T
      BY <1>1, <1>4, CapacityAssumption, FS_Subset DEF On
    <3>2. f \in [S -> Nat] /\ g \in [T -> Nat]
      BY <1>1, <1>2 DEF On
    <3>3. f[t] <= g[t] + 1 /\ g[t] \in Nat
      BY <1>1, <1>2, <3>1
    <3>4. \A x \in S \ {t} : f[x] = 0 \/ (x \in T /\ f[x] <= g[x])
      BY <1>2, <3>1 DEF On
    <3>5. Sum(f) <= Sum(g) + 1
      <4> HIDE DEF f, g, S, T
      <4>1. 1 \in Nat
        OBVIOUS
      <4>2. QED  BY <4>1, <3>1, <3>2, <3>3, <3>4, SumStep
    <3>6. QED  BY <3>5 DEF Written
  <2>2. Owed(d)' < Owed(d)
    <3> DEFINE S == {u \in On(d)' : u \in queue' \/ Promised(u)'}
               T == {u \in On(d) : u \in queue \/ Promised(u)}
               f == [u \in S |-> Due(u)']
               g == [u \in T |-> Due(u)]
    <3>1. IsFiniteSet(T) /\ S = T /\ t \in T
      BY <1>1, <1>4, CapacityAssumption, FS_Subset DEF On, Promised
    <3>2. f \in [S -> Nat] /\ g \in [T -> Nat]
      BY <1>1, <1>2 DEF On, Due
    <3>3. f[t] < g[t]
      BY <1>1, <1>2, <3>1 DEF Due
    <3>4. \A x \in S : f[x] = 0 \/ (x \in T /\ f[x] <= g[x])
      BY <1>1, <1>2, <3>1 DEF On, Due
    <3>5. Sum(f) < Sum(g)
      <4> HIDE DEF f, g, S, T
      <4> QED  BY <3>1, <3>2, <3>3, <3>4, SumDrop
    <3>6. QED  BY <3>5 DEF Owed
  <2>3. QED  BY <2>1, <2>2
<1>5. ASSUME NEW d \in Disks
      PROVE  Owed(d)' + Written(d)' <= Total[d] /\ Free(d)' >= 0
  <2>1. Written(d) \in Nat /\ Owed(d) \in Nat /\ Written(d)' \in Nat /\ Owed(d)' \in Nat
    BY SumsType, SumsTypeNext DEF Measured
  <2>2. Total[d] \in Nat /\ foreign[d] \in Nat /\ foreign'[d] = foreign[d]
    BY <1>1, CapacityAssumption DEF Types
  <2>3. Owed(d) + Written(d) <= Total[d] /\ Total[d] - Written(d) - foreign[d] >= 0
    BY DEF Fits, Committed, Free
  <2>4. d = place[t] => Total[d] - Written(d) - foreign[d] > 0
    BY <1>1 DEF Free
  <2>5. QED  BY <1>3, <1>4, <2>1, <2>2, <2>3, <2>4 DEF Free
<1>6. QED  BY <1>5 DEF Fits, Committed

\* Other programs write what is free, and promises do not change.
LEMMA FitsForeign ==
    ASSUME Types, Types', Fits, NEW e \in Disks, Foreign(e)
    PROVE  Fits'
<1>1. /\ queue' = queue /\ place' = place /\ permit' = permit /\ left' = left
      /\ \/ Free(e) > 0 /\ foreign' = [foreign EXCEPT ![e] = @ + 1]
         \/ foreign' = [foreign EXCEPT ![e] = @ - 1]
  BY DEF Foreign, rows, torrents
<1>2. ASSUME NEW d \in Disks PROVE Written(d)' = Written(d) /\ Owed(d)' = Owed(d)
  BY <1>1 DEF Written, Owed, On, Promised, Due
<1>3. ASSUME NEW d \in Disks
      PROVE  Owed(d)' + Written(d)' <= Total[d] /\ Free(d)' >= 0
  <2>1. Written(d) \in Nat /\ Total[d] \in Nat /\ foreign[d] \in Nat /\ foreign'[d] \in Nat
    BY SumsType, CapacityAssumption DEF Types, Measured
  <2>2. Owed(d) + Written(d) <= Total[d] /\ Total[d] - Written(d) - foreign[d] >= 0
    BY DEF Fits, Committed, Free
  <2>3. \/ foreign'[d] <= foreign[d]
        \/ foreign'[d] = foreign[d] + 1 /\ Total[d] - Written(d) - foreign[d] > 0
    BY <1>1, <2>1 DEF Free, Types
  <2>4. Total[d] - Written(d) - foreign'[d] >= 0
    BY <2>1, <2>2, <2>3
  <2>5. QED  BY <1>2, <2>2, <2>4 DEF Free
<1>4. QED  BY <1>3 DEF Fits, Committed

\* Issue promises the torrent to one disk, which has room for it beside what is owed there.
LEMMA FitsIssue ==
    ASSUME Types, Types', RowsOK, EvidenceOK, Fits, Issue
    PROVE  Fits'
<1>1. PICK t \in Torrents, e \in Disks :
          /\ permit[t] \in {"none", "expired"}
          /\ permit' = [permit EXCEPT ![t] = "authorized"] /\ place' = [place EXCEPT ![t] = e]
          /\ queue' = queue /\ left' = left /\ foreign' = foreign
          /\ Pending(e, w.ev) \in Nat /\ Owed(e) <= Pending(e, w.ev)
          /\ Size[t] <= Free(e) - Pending(e, w.ev)
  <2>1. /\ w.step = "disks" /\ w.torrent \in Torrents
        /\ permit[w.torrent] \in {"none", "expired"}
        /\ Placements(w.torrent, w.ev) # {}
        /\ permit' = [permit EXCEPT ![w.torrent] = "authorized"]
        /\ place' = [place EXCEPT ![w.torrent] = First(Placements(w.torrent, w.ev))]
        /\ queue' = queue /\ left' = left /\ foreign' = foreign
    BY DEF Issue, Issues, Wanting, torrents, disks, Types
  <2>2. \A d \in Disks : Pending(d, w.ev) \in Nat /\ Owed(d) <= Pending(d, w.ev)
    BY <2>1, PendingCovers
  <2>3. LET d == First(Placements(w.torrent, w.ev))
        IN  d \in Disks /\ Size[w.torrent] <= Free(d) - Pending(d, w.ev)
    BY <2>1, <2>2, PlacementFits
  <2>4. QED  BY <2>1, <2>2, <2>3
<1>2. t \notin queue
  BY <1>1 DEF RowsOK
<1>3. \A u \in Torrents :
          /\ u # t => permit'[u] = permit[u] /\ place'[u] = place[u]
          /\ u # t => Promised(u)' = Promised(u)
          /\ Due(u)' = Due(u) /\ Due(u) \in Nat
  BY <1>1, CapacityAssumption DEF Types, Promised, Due
<1>4. permit'[t] = "authorized" /\ place'[t] = e
  BY <1>1 DEF Types
<1>5. ASSUME NEW d \in Disks PROVE Written(d)' <= Written(d)
  <2>1. \A u \in Torrents : u \in queue' /\ place'[u] = d =>
            left'[u] = Size[u] \/ (u \in queue /\ place[u] = d /\ left[u] <= left'[u])
    BY <1>1, <1>2, <1>3 DEF Types
  <2>2. QED  BY <2>1, WrittenFalls
<1>6. ASSUME NEW d \in Disks, d # e PROVE Owed(d)' <= Owed(d)
  <2>1. \A u \in Torrents : (u \in queue' \/ Promised(u)') /\ place'[u] = d =>
            (u \in queue \/ Promised(u)) /\ place[u] = d /\ Due(u)' <= Due(u)
    BY <1>1, <1>3, <1>4, <1>6
  <2>2. QED  BY <2>1, OwedFalls
<1>7. Owed(e)' <= Owed(e) + Size[t]
  <2> DEFINE S == {u \in On(e)' : u \in queue' \/ Promised(u)'}
             T == {u \in On(e) : u \in queue \/ Promised(u)}
             f == [u \in S |-> Due(u)']
             g == [u \in T |-> Due(u)]
  <2>1. IsFiniteSet(T)
    BY CapacityAssumption, FS_Subset DEF On
  <2>2. f \in [S -> Nat] /\ g \in [T -> Nat]
    BY CapacityAssumption DEF Types, On, Due
  <2>3. t \in S => f[t] <= 0 + Size[t]
    BY <1>1, <1>2, CapacityAssumption DEF Due
  <2>4. \A x \in S \ {t} : f[x] = 0 \/ (x \in T /\ f[x] <= g[x])
    BY <1>1, <1>3 DEF On
  <2>5. Size[t] \in Nat /\ 0 \in Nat
    BY <1>1, CapacityAssumption
  <2>6. Sum(f) <= Sum(g) + Size[t]
    <3> HIDE DEF f, g, S, T
    <3> QED  BY <2>1, <2>2, <2>3, <2>4, <2>5, SumStep
  <2>7. QED  BY <2>6 DEF Owed
<1>8. ASSUME NEW d \in Disks
       PROVE  Owed(d)' + Written(d)' <= Total[d] /\ Free(d)' >= 0
  <2>1. Written(d) \in Nat /\ Owed(d) \in Nat /\ Written(d)' \in Nat /\ Owed(d)' \in Nat
    BY SumsType, SumsTypeNext DEF Measured
  <2>2. Total[d] \in Nat /\ foreign[d] \in Nat /\ foreign'[d] = foreign[d] /\ Size[t] \in Nat
    BY <1>1, CapacityAssumption DEF Types
  <2>3. Owed(d) + Written(d) <= Total[d] /\ Total[d] - Written(d) - foreign[d] >= 0
    BY DEF Fits, Committed, Free
  <2>4. Written(d)' <= Written(d)
    BY <1>5
  <2>5. Total[d] - Written(d)' - foreign'[d] >= 0
    BY <2>1, <2>2, <2>3, <2>4
  <2>6. Owed(d)' + Written(d)' <= Total[d]
    <3>1. CASE d # e
      BY <1>6, <3>1, <2>1, <2>2, <2>3, <2>4
    <3>2. CASE d = e
      <4>1. Pending(d, w.ev) \in Nat /\ Owed(d) <= Pending(d, w.ev)
        BY <1>1, <3>2
      <4>2. Size[t] <= Total[d] - Written(d) - foreign[d] - Pending(d, w.ev)
        BY <1>1, <3>2 DEF Free
      <4>3. QED  BY <1>7, <3>2, <4>1, <4>2, <2>1, <2>2, <2>4
    <3>3. QED  BY <3>1, <3>2
  <2>7. QED  BY <2>5, <2>6 DEF Free
<1>9. QED  BY <1>8 DEF Fits, Committed

\* Every step keeps it: only `issue` admits, and it measures the disk by the worker's evidence.
LEMMA FitsStep == Types /\ Types' /\ RowsOK /\ EvidenceOK /\ Fits /\ [Next]_vars => Fits'
<1> SUFFICES ASSUME Types, Types', RowsOK, EvidenceOK, Fits, [Next]_vars PROVE Fits'
  OBVIOUS
<1> DEFINE Quiet ==
      /\ foreign' = foreign /\ left' = left
      /\ \A t \in queue' : place'[t] = place[t] /\ (t \in queue \/ permit[t] = "dispatching")
      /\ \A t \in Torrents : Promised(t)' =>
             Promised(t) /\ place'[t] = place[t] /\ (t \in queue => t \in queue')
<1>a. Quiet => Fits'
  BY FitsQuiet
<1> USE DEF Types, States, Promised, rows, torrents, disks, counters
<1>1. CASE StartCycle \/ ReadDisks \/ Wait \/ PromoteProbe \/ AskAgain \/ UNCHANGED vars
  BY <1>1, <1>a DEF StartCycle, ReadDisks, Wait, PromoteProbe, AskAgain, vars
<1>2. CASE Issue
  BY <1>2, FitsIssue
<1>3. CASE RejectProbe
  BY <1>3, <1>a DEF RejectProbe
<1>4. ASSUME NEW t \in Torrents, Skip(t) \/ GiveUp(t) \/ Reconcile(t) \/ ReadQueue(t)
      PROVE  Fits'
  BY <1>4, <1>a DEF Skip, GiveUp, Reconcile, ReadQueue, Outlived, Uncertain, RowsOK
<1>5. ASSUME NEW t \in Torrents, Claim(t) \/ Add(t) \/ AddLost(t)
      PROVE  Fits'
  BY <1>5, <1>a DEF Claim, Add, AddLost
<1>6. ASSUME NEW t \in Torrents, Lose(t) \/ Expire(t) \/ Cancel(t)
      PROVE  Fits'
  BY <1>6, <1>a DEF Lose, Expire, Cancel
<1>7. ASSUME NEW t \in Torrents, Download(t)
      PROVE  Fits'
  BY <1>7, FitsDownload
<1>8. ASSUME NEW t \in Torrents, Import(t) \/ Delete(t)
      PROVE  Fits'
  BY <1>8, <1>a DEF Import, Delete
<1>9. ASSUME NEW d \in Disks, Foreign(d)
      PROVE  Fits'
  BY <1>9, FitsForeign
<1>10. ASSUME NEW d \in Disks, Leave(d) \/ Return(d)
       PROVE  Fits'
  BY <1>10, <1>a DEF Leave, Return
<1>11. QED
  BY <1>1, <1>2, <1>3, <1>4, <1>5, <1>6, <1>7, <1>8, <1>9, <1>10
     DEF Next, Worker, Gateway, Host

-----------------------------------------------------------------------------
(* The theorems *)

\* The strengthened invariant of two disks that are measured, promised and filled by a
\* worker, a gateway and a host that do not wait for each other.
THEOREM CapacityInvariant == Spec => []IInv
<1>1. Init => IInv
  BY TypesInit, RowsInit, FitsInit DEF IInv, TypeOK, Fits
<1>2. IInv /\ [Next]_vars => IInv'
  <2> SUFFICES ASSUME IInv, [Next]_vars PROVE IInv'
    OBVIOUS
  <2>1. Types' /\ RowsOK' /\ EvidenceOK'
    BY TypesStep, RowsStep, EvidenceStep DEF IInv, TypeOK
  <2>2. Fits'
    BY <2>1, FitsStep DEF IInv, TypeOK, Fits
  <2>3. QED  BY <2>1, <2>2 DEF IInv, TypeOK, Fits
<1>3. QED  BY <1>1, <1>2, PTL DEF Spec

\* The types, and that no disk is ever over-full (`_configured_capacity` measures a free
\* space that is there).
THEOREM CapacityTypeCorrect == Spec => []TypeOK
<1>1. IInv => TypeOK
  BY DEF IInv
<1>2. QED  BY <1>1, CapacityInvariant, PTL

\* Everything `_select_pool` admitted to a disk can be written whole there, however old
\* the queue and the disks it was admitted by.
THEOREM AdmittedFits == Spec => []Committed
<1>1. IInv => Committed
  BY DEF IInv
<1>2. QED  BY <1>1, CapacityInvariant, PTL
=============================================================================
