--------------------------- MODULE MCStreamCenter ---------------------------
(* Streams of one path, so that every two of them compete for it.           *)
EXTENDS StreamCenter

CONSTANT thePath
MCPath == {thePath}
MCPathOf == [s \in Stream |-> thePath]
=============================================================================
