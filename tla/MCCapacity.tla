----------------------------- MODULE MCCapacity -----------------------------
(* A large torrent and a small one on two small disks for TLC.               *)
EXTENDS Capacity, FiniteSetsExt

\* The number of the bytes is their sum: SUM adds the sizes of the rows it selects.
ASSUME SumAddsUp ==
    \A f \in [Torrents -> 0 .. 4] :
        Sum(f) = MapThenSumSet(LAMBDA t : f[t], Torrents)

Mixed == [t \in Torrents |-> IF t = "a" THEN 2 ELSE 1]
TwoAndTwo == [d \in Disks |-> 2]
SsdForeign == [d \in Disks |-> IF d = "ssd" THEN 1 ELSE 0]
=============================================================================
