--------------------------- MODULE MCChangeTable ----------------------------
(* Two names, four entries; the process stops and starts at any time.     *)
EXTENDS ChangeTable
=============================================================================
