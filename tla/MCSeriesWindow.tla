--------------------------- MODULE MCSeriesWindow ---------------------------
(* A series of two short seasons for TLC.                                    *)
EXTENDS SeriesWindow

OneEach == <<1, 2>>
Small == [t \in Torrents |-> 1]
=============================================================================
