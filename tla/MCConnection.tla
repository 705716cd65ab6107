---------------------------- MODULE MCConnection ----------------------------
(* Instances of Connection for TLC; the constants are in the .cfg files.    *)
EXTENDS Connection
=============================================================================
