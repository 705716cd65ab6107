--------------------------- MODULE MessageStream ---------------------------
(***************************************************************************)
(* What one direction of a tunnel promises (tunnel.go, type Tunnel: "The    *)
(* ordered delivery of messages is guaranteed"): the messages whose Send    *)
(* succeeded are received as they were sent, once, in order, and none stays *)
(* behind while the stream is open.  Closing may cut the delivery short but *)
(* never reorders, repeats or mixes messages.                              *)
(***************************************************************************)
EXTENDS Naturals, Sequences

CONSTANT Messages

VARIABLES
  accepted,   \* messages sent with success, in order
  received,   \* messages handed to the receiving application, in order
  open        \* nobody has begun to tear the stream down

vars == <<accepted, received, open>>

Init == accepted = <<>> /\ received = <<>> /\ open = TRUE

Put ==
  /\ \E m \in Messages : accepted' = Append(accepted, m)
  /\ UNCHANGED <<received, open>>

Get ==
  /\ Len(received) < Len(accepted)
  /\ received' = Append(received, accepted[Len(received) + 1])
  /\ UNCHANGED <<accepted, open>>

Shut == open /\ open' = FALSE /\ UNCHANGED <<accepted, received>>

Next == Put \/ Get \/ Shut

Spec == Init /\ [][Next]_vars

FairSpec == Spec /\ WF_vars(open /\ Get)
=============================================================================
