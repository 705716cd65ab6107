---------------------------- MODULE MCSendPacket ----------------------------
(* Instances of SendPacket for TLC; the constants are in the .cfg files.    *)
EXTENDS SendPacket
=============================================================================
