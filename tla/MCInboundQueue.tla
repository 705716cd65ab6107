--------------------------- MODULE MCInboundQueue ---------------------------
(* Instances of InboundQueue for TLC; the constants are in the .cfg files.  *)
EXTENDS InboundQueue
=============================================================================
