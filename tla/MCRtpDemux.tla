----------------------------- MODULE MCRtpDemux -----------------------------
(* Both codecs, a faulty way, sequence numbers that wrap.                  *)
EXTENDS RtpDemux
=============================================================================
