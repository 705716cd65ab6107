------------------------------- MODULE MCWire -------------------------------
(* The instance of Wire for TLC.  Binaries have lengths on both sides of    *)
(* Base, and every byte of them is the opcode of a close.                  *)
EXTENDS Wire

MCMagic == [i \in 1 .. Base - 1 |-> 2]
MCBlobs == {<<>>, MCMagic, Append(MCMagic, 2)}
=============================================================================
