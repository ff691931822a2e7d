--------------------------- MODULE MCMediaStream ---------------------------
(* One consumption of each kind, or one or two of the RTP kind.             *)
EXTENDS MediaStream
=============================================================================
