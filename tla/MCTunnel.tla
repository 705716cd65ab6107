------------------------------ MODULE MCTunnel ------------------------------
(* Instances of Tunnel for TLC; the constants are in the .cfg files.        *)
EXTENDS Tunnel
=============================================================================
