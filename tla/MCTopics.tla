------------------------------ MODULE MCTopics ------------------------------
(* Instances of Topics for TLC; the constants are in the .cfg files.        *)
EXTENDS Topics
=============================================================================
