--------------------------- MODULE MCHlsPlaylist ---------------------------
EXTENDS HlsPlaylist, TLC

CONSTANTS g1, g2, p

\* Two streams on one path: the second replaces the first.
MCPathOf == g1 :> p @@ g2 :> p

\* The first goes through a full window, the second reuses its buffers.
MCLastOf == g1 :> 5 @@ g2 :> 2
=============================================================================
