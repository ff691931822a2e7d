-------------------------- MODULE MCSegmentTiming ---------------------------
(* Groups of pictures that are longer than a segment, timestamps that wrap *)
(* and reports that come before, during and after the first segment.       *)
EXTENDS SegmentTiming
=============================================================================
