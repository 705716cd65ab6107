---------------------------- MODULE TunnelProofs ----------------------------
(***************************************************************************)
(* Proofs about Tunnel, for every value of its constants.                  *)
(***************************************************************************)
EXTENDS Tunnel, TotalsProofs, FiniteSetTheorems

\* Where a Send is in its message: drained chunks are never negative.
PosOK ==
  \A s \in Senders :
    /\ sndPos[s] <= Len(sndMsg[s])
    /\ sndPc[s] = "idle" => sndPos[s] = 0

TypeInv == TypeOK /\ PosOK

\* A message is a string of bytes of its own length.
LEMMA MessageType ==
  ASSUME NEW m \in 1 .. MaxSends, NEW n \in Nat
  PROVE  Message(m, n) \in Seq(Byte) /\ Len(Message(m, n)) = n
BY TunnelAssumption DEF Message, Byte

\* The chunk of a running Send: its end lies in the message, its length is
\* what drainAllowance is asked for.
LEMMA ChunkType ==
  ASSUME TypeInv, NEW s \in Senders
  PROVE  /\ ChunkEnd(s) \in Nat
         /\ sndPos[s] <= ChunkEnd(s) /\ ChunkEnd(s) <= Len(sndMsg[s])
         /\ Need(s) \in Nat
         /\ Chunk(s) \in Seq(Byte) /\ Len(Chunk(s)) = Need(s)
         /\ SizeOrCont(s) \in Nat
<1> USE TunnelAssumption
<1>1. sndMsg[s] \in Seq(Byte) /\ sndPos[s] \in Nat /\ Len(sndMsg[s]) \in Nat
      /\ sndPos[s] <= Len(sndMsg[s])
  BY DEF TypeInv, TypeOK, PosOK
<1>2. /\ ChunkEnd(s) \in Nat
      /\ sndPos[s] <= ChunkEnd(s) /\ ChunkEnd(s) <= Len(sndMsg[s])
  BY <1>1 DEF ChunkEnd
<1>3. Chunk(s) \in Seq(Byte) /\ Len(Chunk(s)) = ChunkEnd(s) - sndPos[s]
  BY <1>1, <1>2 DEF Chunk
<1> QED BY <1>1, <1>2, <1>3 DEF Need, SizeOrCont

\* The first chunk, and what is left of a message, keep PosOK.
LEMMA NextChunkType ==
  ASSUME TypeInv, NEW s \in Senders, NextChunk(s) \/ SendReturns(s)
  PROVE  /\ sndPc' \in [Senders -> {"idle", "chunk", "transfer", "wait"}]
         /\ sndMsg' \in [Senders -> Seq(Byte)]
         /\ sndPos' \in [Senders -> Nat]
         /\ PosOK'
<1>1. CASE SendReturns(s)
  BY <1>1 DEF SendReturns, TypeInv, TypeOK, PosOK
<1>2. CASE NextChunk(s) /\ ~SendReturns(s)
  BY <1>2, ChunkType DEF NextChunk, TypeInv, TypeOK, PosOK
<1> QED BY <1>1, <1>2

LEMMA FetchType ==
  ASSUME TypeInv, NEW r \in Receivers,
         NEW pc \in {"idle", "wait", "signalled", "panic"},
         FetchMessage(r) \/ FetchNothing(r, pc)
  PROVE  /\ itoaBuf' \in Seq(Seq(Byte)) /\ itoaSign' \in BOOLEAN
         /\ allowance' \in Nat /\ freed' \in Nat
         /\ delivered' \in Seq(Seq(Byte))
         /\ rcvPc' \in [Receivers -> {"idle", "wait", "signalled", "panic"}]
<1>1. CASE FetchMessage(r)
  <2>1. Head(itoaBuf) \in Seq(Byte) /\ Tail(itoaBuf) \in Seq(Seq(Byte))
    BY <1>1 DEF FetchMessage, TypeInv, TypeOK
  <2> QED BY <1>1, <2>1 DEF FetchMessage, Grant, TypeInv, TypeOK
<1>2. CASE FetchNothing(r, pc)
  BY <1>2 DEF FetchNothing, TypeInv, TypeOK
<1> QED BY <1>1, <1>2

\* What handleTransfer does to its fields, and how much it frees.
LEMMA TransferFacts ==
  ASSUME TypeInv, HandleTransfer
  PROVE  /\ Head(procR) \in Packet
         /\ Assembled(Head(procR)) \in Seq(Byte)
         /\ Discarded(Head(procR)) \in Nat
         /\ freed' = freed + Discarded(Head(procR))
         /\ allowance' = Grant(Discarded(Head(procR)))
         /\ \/ /\ itoaBuf' = Append(itoaBuf, Assembled(Head(procR)))
               /\ itoaSign' = TRUE /\ chunkBuf' = <<>> /\ chunkCap' = 0
            \/ /\ chunkBuf' = Assembled(Head(procR)) /\ chunkCap' \in Nat
               /\ UNCHANGED <<itoaBuf, itoaSign>>
<1> DEFINE p == Head(procR)
<1>1. p \in Packet
  BY DEF HandleTransfer, TypeInv, TypeOK
<1>2. p.size \in Nat /\ p.chunk \in Seq(Byte)
  BY <1>1 DEF Packet
<1>3. chunkBuf \in Seq(Byte) /\ chunkCap \in Nat /\ freed \in Nat
  BY DEF TypeInv, TypeOK
<1>4. Assembled(p) \in Seq(Byte) /\ Discarded(p) \in Nat
      /\ Len(chunkBuf) + Len(p.chunk) - Len(Assembled(p)) = Discarded(p)
  BY <1>2, <1>3 DEF Assembled, Discarded
<1>5. \A n, c \in Nat : Capacities(n, c) \subseteq Nat
  BY TunnelAssumption DEF Capacities
<1>6. Len(Assembled(p)) \in Nat /\ (IF p.size # 0 THEN p.size ELSE chunkCap) \in Nat
  BY <1>2, <1>3, <1>4
<1>7. \E cap \in Capacities(Len(Assembled(p)), IF p.size # 0 THEN p.size ELSE chunkCap) :
          IF Len(Assembled(p)) = cap
          THEN /\ itoaBuf' = Append(itoaBuf, Assembled(p)) /\ itoaSign' = TRUE
               /\ chunkBuf' = <<>> /\ chunkCap' = 0
          ELSE /\ chunkBuf' = Assembled(p) /\ chunkCap' = cap
               /\ UNCHANGED <<itoaBuf, itoaSign>>
  BY DEF HandleTransfer, Enqueue
<1>8. /\ freed' = freed + (Len(chunkBuf) + Len(p.chunk) - Len(Assembled(p)))
      /\ allowance' = Grant(Discarded(p))
  BY DEF HandleTransfer
<1>9. freed' = freed + Discarded(p)
  BY <1>4, <1>8
<1> QED BY <1>1, <1>4, <1>5, <1>6, <1>7, <1>8, <1>9

-----------------------------------------------------------------------------
(* Type correctness.                                                       *)

LEMMA InitTypeInv == Init => TypeInv
<1> SUFFICES ASSUME Init PROVE TypeInv
  OBVIOUS
<1> USE TunnelAssumption DEF Init
<1>1. /\ sndPc \in [Senders -> {"idle", "chunk", "transfer", "wait"}]
      /\ sndMsg \in [Senders -> Seq(Byte)]
      /\ sndPos \in [Senders -> Nat]
      /\ rcvPc \in [Receivers -> {"idle", "wait", "signalled", "panic"}]
  OBVIOUS
<1>2. term \in [Ends -> BOOLEAN] /\ link \in [Ends -> BOOLEAN]
  OBVIOUS
<1>3. closePc \in [Ends -> {"idle", "wait"}]
  OBVIOUS
<1>4. PosOK
  BY DEF PosOK
<1>5. atoiSign \in BOOLEAN /\ itoaSign \in BOOLEAN /\ closing \in BOOLEAN
  OBVIOUS
<1>6. /\ atoiSpace \in Nat /\ procS \in Nat /\ allowance \in Nat
      /\ chunkCap \in Nat /\ sends \in 0 .. MaxSends /\ drained \in Nat
      /\ wired \in Nat /\ arrived \in Nat /\ freed \in Nat
  OBVIOUS
<1>7. /\ wire \in Seq(Packet) /\ procR \in Seq(Packet) /\ Len(procR) <= 1
      /\ chunkBuf \in Seq(Byte) /\ itoaBuf \in Seq(Seq(Byte))
      /\ completed \in Seq(Seq(Byte)) /\ delivered \in Seq(Seq(Byte))
  OBVIOUS
<1> QED BY <1>1, <1>2, <1>3, <1>4, <1>5, <1>6, <1>7 DEF TypeInv, TypeOK

LEMMA NextTypeInv == TypeInv /\ [Next]_vars => TypeInv'
<1> USE TunnelAssumption
<1> SUFFICES ASSUME TypeInv, [Next]_vars PROVE TypeInv'
  OBVIOUS
<1>1. ASSUME NEW s \in Senders, NEW n \in Lengths, Send(s, n) PROVE TypeInv'
  <2>1. Message(sends + 1, n) \in Seq(Byte)
    BY <1>1, MessageType DEF Send, TypeInv, TypeOK
  <2> QED BY <1>1, <2>1 DEF Send, receiver, channels, closers, TypeInv,
                            TypeOK, PosOK
<1>2. ASSUME NEW s \in Senders, DrainAllowance(s) PROVE TypeInv'
  <2>1. Need(s) \in Nat
    BY ChunkType
  <2>2. /\ atoiSpace' \in Nat /\ drained' \in Nat
        /\ sndPc' \in [Senders -> {"idle", "chunk", "transfer", "wait"}]
    <3>1. /\ atoiSpace \in Nat /\ drained \in Nat
          /\ sndPc \in [Senders -> {"idle", "chunk", "transfer", "wait"}]
      BY DEF TypeInv, TypeOK
    <3>2. \/ /\ atoiSpace >= Need(s) /\ atoiSpace' = atoiSpace - Need(s)
             /\ drained' = drained + Need(s)
             /\ sndPc' = [sndPc EXCEPT ![s] = "transfer"]
          \/ /\ atoiSpace' = atoiSpace /\ drained' = drained
             /\ sndPc' = [sndPc EXCEPT ![s] = "wait"]
      BY <1>2 DEF DrainAllowance, EnoughSpace
    <3> QED BY <2>1, <3>1, <3>2
  <2>4. atoiSign' \in BOOLEAN
    BY <1>2 DEF DrainAllowance, TypeInv, TypeOK
  <2>3. PosOK'
    BY <1>2 DEF DrainAllowance, TypeInv, TypeOK, PosOK
  <2> QED BY <1>2, <2>2, <2>3, <2>4 DEF DrainAllowance, receiver, channels, closers,
            TypeInv, TypeOK
<1>3. ASSUME NEW s \in Senders, SendTunnelTransfer(s) PROVE TypeInv'
  <2>1. [size |-> SizeOrCont(s), chunk |-> Chunk(s), msg |-> sndMsg[s],
         pos |-> sndPos[s], ord |-> Len(completed)] \in Packet
    BY ChunkType DEF Packet, TypeInv, TypeOK
  <2>2. wire' \in Seq(Packet) /\ wired' \in Nat
        /\ completed' \in Seq(Seq(Byte))
    <3>1. wire' \in Seq(Packet)
      BY <1>3, <2>1 DEF SendTunnelTransfer, TypeInv, TypeOK
    <3>2. wired' \in Nat
      BY <1>3, ChunkType DEF SendTunnelTransfer, TypeInv, TypeOK
    <3>3. completed' \in Seq(Seq(Byte))
      BY <1>3 DEF SendTunnelTransfer, TypeInv, TypeOK
    <3> QED BY <3>1, <3>2, <3>3
  <2>3. /\ sndPc' \in [Senders -> {"idle", "chunk", "transfer", "wait"}]
        /\ sndMsg' \in [Senders -> Seq(Byte)]
        /\ sndPos' \in [Senders -> Nat]
        /\ PosOK'
    BY <1>3, NextChunkType DEF SendTunnelTransfer
  <2> QED BY <1>3, <2>2, <2>3 DEF SendTunnelTransfer, receiver, closers,
                                  TypeInv, TypeOK
<1>4. ASSUME NEW s \in Senders,
             SendTransferLost(s) \/ SendClosed(s) \/ SendTimeout(s)
      PROVE  TypeInv'
  BY <1>4, NextChunkType DEF SendTransferLost, SendClosed, SendTimeout,
       receiver, channels, closers, history, TypeInv, TypeOK
<1>5. ASSUME NEW s \in Senders, SendSignalled(s) PROVE TypeInv'
  BY <1>5 DEF SendSignalled, receiver, channels, closers, history, TypeInv,
       TypeOK, PosOK
<1>6. ASSUME NEW r \in Receivers, Recv(r) \/ RecvSignalledFetch(r)
      PROVE  TypeInv'
  BY <1>6, FetchType DEF Recv, RecvSignalledFetch, sender, closers, TypeInv,
       TypeOK, PosOK
<1>7. ASSUME NEW r \in Receivers,
             RecvClosed(r) \/ RecvTimeout(r) \/ RecvSignalled(r)
      PROVE  TypeInv'
  BY <1>7 DEF RecvClosed, RecvTimeout, RecvReturns, RecvSignalled, sender,
       channels, closers, history, TypeInv, TypeOK, PosOK
<1>8. ASSUME NEW space \in 1 .. allowance, HandleTunnelAllowance(space)
      PROVE  TypeInv'
  BY <1>8 DEF HandleTunnelAllowance, sender, receiver, closers, history,
       TypeInv, TypeOK, PosOK
<1>9. CASE HandleAllowance
  BY <1>9 DEF HandleAllowance, receiver, channels, closers, history, TypeInv,
       TypeOK, PosOK
<1>10. CASE HandleTunnelTransfer
  <2>1. Head(wire) \in Packet /\ Tail(wire) \in Seq(Packet)
    BY <1>10 DEF HandleTunnelTransfer, TypeInv, TypeOK
  <2>2. Len(Head(wire).chunk) \in Nat
    BY <2>1 DEF Packet
  <2>3. procR' \in Seq(Packet) /\ Len(procR') <= 1
    <3>1. procR' = <<>> \/ procR' = <<Head(wire)>>
      BY <1>10 DEF HandleTunnelTransfer
    <3>2. CASE procR' = <<Head(wire)>>
      BY <2>1, <3>2
    <3>3. CASE procR' = <<>>
      BY <3>3
    <3> QED BY <3>1, <3>2, <3>3
  <2>4. wire' \in Seq(Packet) /\ arrived' \in Nat /\ freed' \in Nat
    BY <1>10, <2>1, <2>2 DEF HandleTunnelTransfer, TypeInv, TypeOK
  <2> QED BY <1>10, <2>3, <2>4 DEF HandleTunnelTransfer, sender, receiver, closers,
            TypeInv, TypeOK, PosOK
<1>11. CASE HandleTransfer
  <2>1. procR' = <<>> /\ procR' \in Seq(Packet) /\ Len(procR') <= 1
    BY <1>11 DEF HandleTransfer
  <2>2. allowance' \in Nat /\ freed' \in Nat
    <3>1. /\ Discarded(Head(procR)) \in Nat
          /\ freed' = freed + Discarded(Head(procR))
          /\ allowance' = Grant(Discarded(Head(procR)))
      BY <1>11, TransferFacts
    <3> QED BY <3>1 DEF Grant, TypeInv, TypeOK
  <2>3. /\ chunkBuf' \in Seq(Byte) /\ chunkCap' \in Nat
        /\ itoaBuf' \in Seq(Seq(Byte)) /\ itoaSign' \in BOOLEAN
    <3>1. Assembled(Head(procR)) \in Seq(Byte)
      BY <1>11, TransferFacts
    <3>2. \/ /\ itoaBuf' = Append(itoaBuf, Assembled(Head(procR)))
             /\ itoaSign' = TRUE /\ chunkBuf' = <<>> /\ chunkCap' = 0
          \/ /\ chunkBuf' = Assembled(Head(procR)) /\ chunkCap' \in Nat
             /\ UNCHANGED <<itoaBuf, itoaSign>>
      BY <1>11, TransferFacts
    <3>3. itoaSign' \in BOOLEAN
      BY <3>2 DEF TypeInv, TypeOK
    <3>4. /\ chunkBuf' \in Seq(Byte) /\ chunkCap' \in Nat
          /\ itoaBuf' \in Seq(Seq(Byte))
      <4>1. chunkBuf' \in Seq(Byte)
        <5>1. CASE chunkBuf' = <<>>
          BY <5>1
        <5>2. CASE chunkBuf' = Assembled(Head(procR))
          BY <3>1, <5>2
        <5> QED BY <3>2, <5>1, <5>2
      <4>2. chunkCap' \in Nat
        BY <3>2
      <4>3. itoaBuf \in Seq(Seq(Byte))
        BY DEF TypeInv, TypeOK
      <4>4. itoaBuf' \in Seq(Seq(Byte))
        BY <3>1, <3>2, <4>3
      <4> QED BY <4>1, <4>2, <4>4
    <3> QED BY <3>3, <3>4
  <2> QED BY <1>11, <2>1, <2>2, <2>3 DEF HandleTransfer, sender, closers,
            TypeInv, TypeOK, PosOK
<1>12. ASSUME NEW e \in Ends, ClosingStep(e) PROVE TypeInv'
  BY <1>12 DEF ClosingStep, Close, CloseReturns, HandleTunnelClose,
       ConnectionDrop, HandleClose, sender, receiver, channels, history,
       TypeInv, TypeOK, PosOK
<1>13. CASE UNCHANGED vars
  BY <1>13 DEF vars, sender, receiver, channels, closers, history, TypeInv,
       TypeOK, PosOK
<1> QED
  BY <1>1, <1>2, <1>3, <1>4, <1>5, <1>6, <1>7, <1>8, <1>9, <1>10, <1>11,
     <1>12, <1>13 DEF Next, SenderStep, ReceiverStep, ProcessStep

\* Every field of the tunnel keeps its type: in particular the allowance, in
\* drainAllowance and handleAllowance, never becomes negative.
THEOREM TypeCorrect == Spec => []TypeOK
<1>1. TypeInv => TypeOK
  BY DEF TypeInv
<1> QED BY <1>1, InitTypeInv, NextTypeInv, PTL DEF Spec

-----------------------------------------------------------------------------
(* The signals, with one receiver and with one sender.                     *)

\* The arrival flag and the buffer agree whenever a receiver depends on it.
SignalInv ==
  \A r \in Receivers :
    /\ rcvPc[r] = "wait" => (itoaSign <=> itoaBuf # <<>>)
    /\ rcvPc[r] = "signalled" => itoaBuf # <<>>
    /\ rcvPc[r] # "panic"

LEMMA NextSignalInv ==
  ASSUME NEW r0, Receivers = {r0}
  PROVE  TypeInv /\ SignalInv /\ [Next]_vars => SignalInv'
<1> SUFFICES ASSUME TypeInv, SignalInv, [Next]_vars PROVE SignalInv'
  OBVIOUS
<1> DEFINE Waits == rcvPc[r0] = "wait" => (itoaSign <=> itoaBuf # <<>>)
           Wakes == rcvPc[r0] = "signalled" => itoaBuf # <<>>
           Sane  == rcvPc[r0] # "panic"
<1>0. /\ Waits /\ Wakes /\ Sane
      /\ Waits' /\ Wakes' /\ Sane' => SignalInv'
      /\ rcvPc \in [Receivers -> {"idle", "wait", "signalled", "panic"}]
      /\ itoaBuf \in Seq(Seq(Byte)) /\ itoaSign \in BOOLEAN
  BY DEF SignalInv, TypeInv, TypeOK
<1>1. CASE UNCHANGED <<rcvPc, itoaBuf, itoaSign>>
  BY <1>0, <1>1
<1>2. ASSUME NEW r \in Receivers, Recv(r) PROVE Waits' /\ Wakes' /\ Sane'
  BY <1>0, <1>2 DEF Recv, FetchMessage, FetchNothing
<1>3. ASSUME NEW r \in Receivers, RecvSignalledFetch(r)
      PROVE  Waits' /\ Wakes' /\ Sane'
  BY <1>0, <1>3 DEF RecvSignalledFetch, FetchMessage, FetchNothing
<1>4. ASSUME NEW r \in Receivers, RecvClosed(r) \/ RecvTimeout(r)
      PROVE  Waits' /\ Wakes' /\ Sane'
  BY <1>0, <1>4 DEF RecvClosed, RecvTimeout, RecvReturns
<1>5. ASSUME NEW r \in Receivers, RecvSignalled(r)
      PROVE  Waits' /\ Wakes' /\ Sane'
  BY <1>0, <1>5 DEF RecvSignalled
<1>6. CASE HandleTransfer
  <2>1. \/ /\ itoaBuf' = Append(itoaBuf, Assembled(Head(procR)))
           /\ itoaSign' = TRUE
        \/ UNCHANGED <<itoaBuf, itoaSign>>
    BY <1>6, TransferFacts
  <2>2. Append(itoaBuf, Assembled(Head(procR))) # <<>>
    <3>1. Assembled(Head(procR)) \in Seq(Byte)
      BY <1>6, TransferFacts
    <3> QED BY <1>0, <3>1
  <2>3. rcvPc' = rcvPc
    BY <1>6 DEF HandleTransfer
  <2> QED BY <1>0, <2>1, <2>2, <2>3
<1> QED
  BY <1>0, <1>1, <1>2, <1>3, <1>4, <1>5, <1>6
     DEF Next, SenderStep, ReceiverStep, ProcessStep, ClosingStep, Send,
         DrainAllowance, SendTunnelTransfer, SendTransferLost, SendClosed,
         SendTimeout, SendSignalled, HandleTunnelAllowance, HandleAllowance,
         HandleTunnelTransfer, Close, CloseReturns, HandleTunnelClose,
         ConnectionDrop, HandleClose, receiver, vars

\* The panic in Recv is unreachable as long as one goroutine at a time receives
\* from the tunnel.
THEOREM OneReceiverNeverPanics ==
  ASSUME NEW r0, Receivers = {r0}
  PROVE  Spec => []NoPanic
<1>1. Init => SignalInv
  BY DEF Init, SignalInv
<1>2. SignalInv => NoPanic
  BY DEF SignalInv, NoPanic
<1>3. TypeInv /\ SignalInv /\ [Next]_vars => SignalInv'
  BY NextSignalInv
<1> QED BY <1>1, <1>2, <1>3, InitTypeInv, NextTypeInv, PTL DEF Spec

\* No message waits beside a sleeping Recv without a signal, as long as one
\* goroutine at a time receives: fetchMessage resets itoaSign only when it saw
\* the buffer empty.
THEOREM OneReceiverNotForgotten ==
  ASSUME NEW r0, Receivers = {r0}
  PROVE  Spec => []RecvNotForgotten
<1>1. Init => SignalInv
  BY DEF Init, SignalInv
<1>2. SignalInv => RecvNotForgotten
  BY DEF SignalInv, RecvNotForgotten
<1>3. TypeInv /\ SignalInv /\ [Next]_vars => SignalInv'
  BY NextSignalInv
<1> QED BY <1>1, <1>2, <1>3, InitTypeInv, NextTypeInv, PTL DEF Spec

LEMMA NextSendNotForgotten ==
  ASSUME NEW s0, Senders = {s0}
  PROVE  TypeInv /\ SendNotForgotten /\ [Next]_vars => SendNotForgotten'
<1> SUFFICES ASSUME TypeInv, SendNotForgotten, [Next]_vars
             PROVE  SendNotForgotten'
  OBVIOUS
<1> DEFINE Served == sndPc[s0] = "wait" /\ atoiSpace >= Need(s0) => atoiSign
<1>0. /\ Served /\ (Served' => SendNotForgotten')
      /\ sndPc \in [Senders -> {"idle", "chunk", "transfer", "wait"}]
      /\ atoiSpace \in Nat /\ Need(s0) \in Nat
  BY ChunkType DEF SendNotForgotten, TypeInv, TypeOK
<1>1. CASE UNCHANGED <<sndPc, sndMsg, sndPos, atoiSpace, atoiSign>>
  BY <1>0, <1>1 DEF Need, ChunkEnd
<1>2. ASSUME NEW s \in Senders, NEW n \in Lengths, Send(s, n) PROVE Served'
  BY <1>0, <1>2 DEF Send
<1>3. ASSUME NEW s \in Senders, DrainAllowance(s) PROVE Served'
  <2>1. Need(s0)' = Need(s0)
    BY <1>3 DEF DrainAllowance, Need, ChunkEnd
  <2> QED BY <1>0, <1>3, <2>1 DEF DrainAllowance, EnoughSpace
<1>4. ASSUME NEW s \in Senders,
             SendTunnelTransfer(s) \/ SendTransferLost(s) \/ SendClosed(s)
             \/ SendTimeout(s) \/ SendSignalled(s)
      PROVE  Served'
  BY <1>0, <1>4 DEF SendTunnelTransfer, SendTransferLost, SendClosed,
       SendTimeout, SendSignalled, SendReturns, NextChunk
<1>5. CASE HandleAllowance
  <2>1. atoiSign' = TRUE
    BY <1>5 DEF HandleAllowance
  <2> QED BY <2>1 DEF SendNotForgotten
<1> QED
  BY <1>0, <1>1, <1>2, <1>3, <1>4, <1>5
     DEF Next, SenderStep, ReceiverStep, ProcessStep, ClosingStep, Recv,
         RecvClosed, RecvTimeout, RecvReturns, RecvSignalled,
         RecvSignalledFetch, HandleTunnelAllowance, HandleTunnelTransfer,
         HandleTransfer, Close, CloseReturns, HandleTunnelClose,
         ConnectionDrop, HandleClose, sender, vars

\* No Send sleeps beside an allowance that covers its chunk, as long as one
\* goroutine at a time sends.
THEOREM OneSenderNotForgotten ==
  ASSUME NEW s0, Senders = {s0}
  PROVE  Spec => []SendNotForgotten
<1>1. Init => SendNotForgotten
  <2>1. Init => \A s \in Senders : sndPc[s] # "wait"
    BY DEF Init
  <2> QED BY <2>1 DEF SendNotForgotten
<1>2. TypeInv /\ SendNotForgotten /\ [Next]_vars => SendNotForgotten'
  BY NextSendNotForgotten
<1> QED BY <1>1, <1>2, InitTypeInv, NextTypeInv, PTL DEF Spec

-----------------------------------------------------------------------------
(* Flow control.                                                           *)

\* The allowance is conserved until the tear-down, never minted after it.
BalanceInv ==
  /\ drained + atoiSpace + procS + allowance <= Buffer + freed
  /\ ~closing => drained + atoiSpace + procS + allowance = Buffer + freed
  /\ \A e \in Ends : term[e] \/ ~link[e] => closing

LEMMA NextBalanceInv ==
  TypeInv /\ BalanceInv /\ [Next]_vars => BalanceInv'
<1> SUFFICES ASSUME TypeInv, BalanceInv, [Next]_vars PROVE BalanceInv'
  OBVIOUS
<1>0. /\ drained \in Nat /\ atoiSpace \in Nat /\ procS \in Nat
      /\ allowance \in Nat /\ freed \in Nat /\ Buffer \in Nat
  BY TunnelAssumption DEF TypeInv, TypeOK
<1> DEFINE Ledger == <<drained, atoiSpace, procS, allowance, freed>>
           Doors  == <<closing, term, link>>
<1>1. CASE UNCHANGED Ledger /\ UNCHANGED Doors
  BY <1>1 DEF BalanceInv
<1>2. ASSUME NEW s \in Senders, DrainAllowance(s) PROVE BalanceInv'
  <2>1. Need(s) \in Nat
    BY ChunkType
  <2>2. UNCHANGED <<procS, allowance, freed, closing, term, link>>
    BY <1>2 DEF DrainAllowance, channels, closers
  <2>3. drained' + atoiSpace' = drained + atoiSpace
    BY <1>0, <1>2, <2>1 DEF DrainAllowance, EnoughSpace
  <2> QED BY <1>0, <2>2, <2>3 DEF BalanceInv
<1>3. ASSUME NEW space \in 1 .. allowance, HandleTunnelAllowance(space)
      PROVE  BalanceInv'
  <2>1. /\ procS = 0 /\ allowance' = allowance - space
        /\ procS' = IF term["S"] THEN 0 ELSE space
        /\ UNCHANGED <<drained, atoiSpace, freed, closing, term, link>>
    BY <1>3 DEF HandleTunnelAllowance, sender, closers, history
  <2>2. term["S"] => closing
    BY DEF BalanceInv, Ends
  <2> QED BY <1>0, <2>1, <2>2 DEF BalanceInv
<1>4. CASE HandleAllowance
  BY <1>0, <1>4 DEF HandleAllowance, BalanceInv, channels, closers, history
<1>5. ASSUME NEW n \in Nat, allowance' = Grant(n), freed' = freed + n,
             UNCHANGED <<drained, atoiSpace, procS>>, UNCHANGED Doors
      PROVE  BalanceInv'
  <2>1. link["R"] \/ closing
    BY DEF BalanceInv, Ends
  <2> QED BY <1>0, <1>5, <2>1 DEF Grant, BalanceInv
<1>6. CASE HandleTransfer
  <2>1. /\ Discarded(Head(procR)) \in Nat
        /\ freed' = freed + Discarded(Head(procR))
        /\ allowance' = Grant(Discarded(Head(procR)))
    BY <1>6, TransferFacts
  <2>2. UNCHANGED <<drained, atoiSpace, procS>> /\ UNCHANGED Doors
    BY <1>6 DEF HandleTransfer, sender, closers
  <2> QED BY <1>5, <2>1, <2>2
<1>7. ASSUME NEW r \in Receivers, Recv(r) \/ RecvSignalledFetch(r)
      PROVE  BalanceInv'
  <2>1. UNCHANGED <<drained, atoiSpace, procS>> /\ UNCHANGED Doors
    BY <1>7 DEF Recv, RecvSignalledFetch, sender, closers
  <2>2. CASE UNCHANGED <<allowance, freed>>
    BY <1>1, <2>1, <2>2
  <2>3. CASE FetchMessage(r)
    <3>1. Len(Head(itoaBuf)) \in Nat
      BY <2>3 DEF FetchMessage, TypeInv, TypeOK
    <3> QED BY <1>5, <2>1, <2>3, <3>1 DEF FetchMessage
  <2> QED BY <1>7, <2>2, <2>3 DEF Recv, RecvSignalledFetch, FetchNothing
<1>8. CASE HandleTunnelTransfer
  <2>1. UNCHANGED <<drained, atoiSpace, procS, allowance>> /\ UNCHANGED Doors
    BY <1>8 DEF HandleTunnelTransfer, sender, closers
  <2>2. Len(Head(wire).chunk) \in Nat
    BY <1>8 DEF HandleTunnelTransfer, TypeInv, TypeOK, Packet
  <2>3. CASE term["R"]
    <3>1. closing
      BY <2>3 DEF BalanceInv, Ends
    <3>2. freed' = freed + Len(Head(wire).chunk)
      BY <1>8, <2>3 DEF HandleTunnelTransfer
    <3> QED BY <1>0, <2>1, <2>2, <3>1, <3>2 DEF BalanceInv
  <2>4. CASE ~term["R"]
    BY <1>1, <1>8, <2>1, <2>4 DEF HandleTunnelTransfer
  <2> QED BY <2>3, <2>4
<1>9. ASSUME NEW e \in Ends, ClosingStep(e) PROVE BalanceInv'
  <2>1. UNCHANGED Ledger
    BY <1>9 DEF ClosingStep, Close, CloseReturns, HandleTunnelClose,
         ConnectionDrop, HandleClose, sender, channels, history
  <2>2. \A d \in Ends : (term[d] \/ ~link[d] => closing)'
    BY <1>9 DEF ClosingStep, Close, CloseReturns, HandleTunnelClose,
         ConnectionDrop, HandleClose, BalanceInv, TypeInv, TypeOK
  <2>3. closing => closing'
    BY <1>9 DEF ClosingStep, Close, CloseReturns, HandleTunnelClose,
         ConnectionDrop, HandleClose
  <2> QED BY <2>1, <2>2, <2>3 DEF BalanceInv
<1>10. ASSUME NEW s \in Senders, SenderStep(s), ~DrainAllowance(s)
       PROVE  BalanceInv'
  <2>1. UNCHANGED Ledger /\ UNCHANGED Doors
    BY <1>10 DEF SenderStep, Send, SendTunnelTransfer, SendTransferLost,
         SendClosed, SendTimeout, SendSignalled, channels, closers, history
  <2> QED BY <1>1, <2>1
<1>11. ASSUME NEW r \in Receivers,
              RecvClosed(r) \/ RecvTimeout(r) \/ RecvSignalled(r)
       PROVE  BalanceInv'
  <2>1. UNCHANGED Ledger /\ UNCHANGED Doors
    BY <1>11 DEF RecvClosed, RecvTimeout, RecvReturns, RecvSignalled, sender,
         channels, closers, history
  <2> QED BY <1>1, <2>1
<1>12. CASE UNCHANGED vars
  BY <1>1, <1>12 DEF vars, sender, channels, closers, history
<1> QED
  BY <1>2, <1>3, <1>4, <1>6, <1>7, <1>8, <1>9, <1>10, <1>11, <1>12
     DEF Next, ReceiverStep, ProcessStep

\* For any number of senders and receivers, timeouts, discarded messages and
\* interleavings of grants included, no allowance leaks while the tunnel is up.
THEOREM AllowanceNeverLeaks == Spec => []AllowanceConserved
<1>1. Init => BalanceInv
  BY TunnelAssumption DEF Init, BalanceInv
<1>2. BalanceInv => AllowanceConserved
  BY DEF BalanceInv, AllowanceConserved
<1> QED BY <1>1, <1>2, InitTypeInv, NextTypeInv, NextBalanceInv, PTL DEF Spec

-----------------------------------------------------------------------------
(* The bytes in a sequence of byte strings, and on the wire.               *)

Lens(q)   == [i \in 1 .. Len(q) |-> Len(q[i])]
Chunks(q) == [i \in 1 .. Len(q) |-> q[i].chunk]

LEMMA LensType ==
  ASSUME NEW q \in Seq(Seq(Byte))
  PROVE  Lens(q) \in Seq(Nat) /\ Len(Lens(q)) = Len(q)
<1>1. Len(q) \in Nat /\ \A i \in 1 .. Len(q) : Len(q[i]) \in Nat
  OBVIOUS
<1> QED BY <1>1, IsASeq DEF Lens

LEMMA BytesType ==
  /\ \A q \in Seq(Seq(Byte)) : Bytes(q) \in Nat
  /\ Bytes(<<>>) = 0
<1>1. \A q \in Seq(Seq(Byte)) : Bytes(q) \in Nat
  BY LensType, TotalType DEF Bytes, Lens
<1>2. Lens(<<>>) = <<>>
  BY DEF Lens
<1> QED BY <1>1, <1>2, TotalEmpty DEF Bytes, Lens

LEMMA BytesAppend ==
  ASSUME NEW s \in Seq(Seq(Byte)), NEW t \in Seq(Seq(Byte)),
         Len(t) = Len(s) + 1, \A i \in 1 .. Len(s) : t[i] = s[i]
  PROVE  Bytes(t) = Bytes(s) + Len(t[Len(t)])
<1>1. /\ Lens(s) \in Seq(Nat) /\ Lens(t) \in Seq(Nat)
      /\ Len(Lens(s)) = Len(s) /\ Len(Lens(t)) = Len(t)
  BY LensType
<1>2. /\ \A i \in 1 .. Len(s) : Lens(t)[i] = Lens(s)[i]
      /\ Lens(t)[Len(t)] = Len(t[Len(t)])
  BY DEF Lens
<1>3. Total(Lens(t)) = Total(Lens(s)) + Len(t[Len(t)])
  BY <1>1, <1>2, TotalAppend
<1> QED BY <1>3 DEF Bytes, Lens

LEMMA BytesTail ==
  ASSUME NEW s \in Seq(Seq(Byte)), NEW t \in Seq(Seq(Byte)),
         Len(s) = Len(t) + 1, \A i \in 1 .. Len(t) : t[i] = s[i + 1]
  PROVE  Bytes(s) = Len(s[1]) + Bytes(t)
<1>1. /\ Lens(s) \in Seq(Nat) /\ Lens(t) \in Seq(Nat)
      /\ Len(Lens(s)) = Len(t) + 1 /\ Len(Lens(t)) = Len(t)
  BY LensType
<1>2. /\ \A i \in 1 .. Len(t) : Lens(t)[i] = Lens(s)[i + 1]
      /\ Lens(s)[1] = Len(s[1])
  BY DEF Lens
<1>3. Total(Lens(s)) = Len(s[1]) + Total(Lens(t))
  BY <1>1, <1>2, TotalTail
<1> QED BY <1>3 DEF Bytes, Lens

LEMMA ChunksType ==
  ASSUME NEW q \in Seq(Packet)
  PROVE  Chunks(q) \in Seq(Seq(Byte)) /\ Len(Chunks(q)) = Len(q)
<1>1. Len(q) \in Nat /\ \A i \in 1 .. Len(q) : q[i].chunk \in Seq(Byte)
  <2>1. \A p \in Packet : p.chunk \in Seq(Byte)
    BY DEF Packet
  <2> QED BY <2>1
<1> QED BY <1>1, IsASeq DEF Chunks

\* What was put on the wire has arrived or is still on it.
WireInv == wired = arrived + Bytes(Chunks(wire))

\* The bytes that senders have drained and not yet transferred, each with its
\* sender.
Part(s)  == sndPos[s] + 1 .. ChunkEnd(s)
InFlight == {x \in Senders \X Nat : sndPc[x[1]] = "transfer" /\ x[2] \in Part(x[1])}

\* Nothing is transferred that was not drained from the allowance before.
DrainInv ==
  /\ IsFiniteSet(InFlight)
  /\ wired + Cardinality(InFlight) <= drained

LEMMA NextWireInv == TypeInv /\ WireInv /\ [Next]_vars => WireInv'
<1> SUFFICES ASSUME TypeInv, WireInv, [Next]_vars PROVE WireInv'
  OBVIOUS
<1>0. wire \in Seq(Packet) /\ arrived \in Nat /\ wired \in Nat
  BY DEF TypeInv, TypeOK
<1>1. CASE UNCHANGED <<wire, arrived, wired>>
  BY <1>1 DEF WireInv
<1>2. ASSUME NEW s \in Senders, SendTunnelTransfer(s) PROVE WireInv'
  <2>1. PICK p \in Packet : wire' = Append(wire, p) /\ p.chunk = Chunk(s)
    <3> DEFINE q == [size |-> SizeOrCont(s), chunk |-> Chunk(s), msg |-> sndMsg[s],
                     pos |-> sndPos[s], ord |-> Len(completed)]
    <3>1. q \in Packet
      BY ChunkType DEF Packet, TypeInv, TypeOK
    <3> QED BY <1>2, <3>1 DEF SendTunnelTransfer
  <2>2. /\ wire' \in Seq(Packet) /\ Len(wire') = Len(wire) + 1
        /\ wire'[Len(wire')] = p /\ \A i \in 1 .. Len(wire) : wire'[i] = wire[i]
    BY <1>0, <2>1
  <2>3. /\ Chunks(wire) \in Seq(Seq(Byte)) /\ Chunks(wire') \in Seq(Seq(Byte))
        /\ Len(Chunks(wire)) = Len(wire) /\ Len(Chunks(wire')) = Len(wire')
    BY <1>0, <2>2, ChunksType
  <2>4. /\ \A i \in 1 .. Len(wire) : Chunks(wire')[i] = Chunks(wire)[i]
        /\ Chunks(wire')[Len(wire')] = Chunk(s)
    BY <1>0, <2>1, <2>2 DEF Chunks
  <2>5. Bytes(Chunks(wire')) = Bytes(Chunks(wire)) + Len(Chunk(s))
    BY <2>2, <2>3, <2>4, BytesAppend
  <2>6. Len(Chunk(s)) = Need(s) /\ Need(s) \in Nat /\ Bytes(Chunks(wire)) \in Nat
    BY <2>3, ChunkType, BytesType
  <2>7. wired' = wired + Need(s) /\ arrived' = arrived
    BY <1>2 DEF SendTunnelTransfer
  <2> QED BY <1>0, <2>5, <2>6, <2>7 DEF WireInv
<1>3. CASE HandleTunnelTransfer
  <2>1. /\ wire # <<>> /\ wire' = Tail(wire) /\ wired' = wired
        /\ arrived' = arrived + Len(Head(wire).chunk)
    BY <1>3 DEF HandleTunnelTransfer
  <2>2. /\ Head(wire) = wire[1] /\ wire' \in Seq(Packet)
        /\ Len(wire) = Len(wire') + 1
        /\ \A i \in 1 .. Len(wire') : wire'[i] = wire[i + 1]
    BY <1>0, <2>1
  <2>3. /\ Chunks(wire) \in Seq(Seq(Byte)) /\ Chunks(wire') \in Seq(Seq(Byte))
        /\ Len(Chunks(wire)) = Len(wire) /\ Len(Chunks(wire')) = Len(wire')
    BY <1>0, <2>2, ChunksType
  <2>4. /\ \A i \in 1 .. Len(wire') : Chunks(wire')[i] = Chunks(wire)[i + 1]
        /\ Chunks(wire)[1] = wire[1].chunk
    BY <1>0, <2>2 DEF Chunks
  <2>5. Bytes(Chunks(wire)) = Len(wire[1].chunk) + Bytes(Chunks(wire'))
    BY <2>2, <2>3, <2>4, BytesTail
  <2>6. Len(wire[1].chunk) \in Nat /\ Bytes(Chunks(wire')) \in Nat
    <3>1. wire[1] \in Packet
      BY <1>0, <2>1
    <3>2. wire[1].chunk \in Seq(Byte)
      BY <3>1 DEF Packet
    <3> QED BY <2>3, <3>2, BytesType
  <2> QED BY <1>0, <2>1, <2>2, <2>5, <2>6 DEF WireInv
<1> QED
  BY <1>1, <1>2, <1>3
     DEF Next, SenderStep, ReceiverStep, ProcessStep, ClosingStep, Send,
         DrainAllowance, SendTransferLost, SendClosed, SendTimeout,
         SendSignalled, HandleTunnelAllowance, HandleAllowance, Recv,
         RecvClosed, RecvTimeout, RecvReturns, RecvSignalled,
         RecvSignalledFetch, HandleTransfer, Close, CloseReturns,
         HandleTunnelClose, ConnectionDrop, HandleClose, channels, history,
         vars

LEMMA WireBound == TypeInv /\ WireInv => arrived <= wired
<1> SUFFICES ASSUME TypeInv, WireInv PROVE arrived <= wired
  OBVIOUS
<1>1. wire \in Seq(Packet) /\ arrived \in Nat
  BY DEF TypeInv, TypeOK
<1>2. Bytes(Chunks(wire)) \in Nat
  BY <1>1, ChunksType, BytesType
<1> QED BY <1>1, <1>2 DEF WireInv

LEMMA PartType ==
  ASSUME TypeInv, NEW s \in Senders
  PROVE  /\ IsFiniteSet({s} \X Part(s))
         /\ Cardinality({s} \X Part(s)) = Need(s)
<1>1. /\ sndPos[s] \in Nat /\ ChunkEnd(s) \in Nat /\ sndPos[s] <= ChunkEnd(s)
      /\ Need(s) \in Nat
  BY ChunkType DEF TypeInv, TypeOK
<1>2. IsFiniteSet(Part(s)) /\ Cardinality(Part(s)) = Need(s)
  <2>1. \A a, b \in Int : /\ IsFiniteSet(a .. b)
                          /\ a <= b + 1 => Cardinality(a .. b) = b + 1 - a
    BY FS_Interval
  <2>2. /\ sndPos[s] + 1 \in Int /\ ChunkEnd(s) \in Int
        /\ sndPos[s] + 1 <= ChunkEnd(s) + 1
        /\ Need(s) = ChunkEnd(s) + 1 - (sndPos[s] + 1)
    BY <1>1 DEF Need
  <2> QED BY <2>1, <2>2, Zenon DEF Part
<1>3. IsFiniteSet({s}) /\ Cardinality({s}) = 1
  BY FS_Singleton
<1>4. /\ IsFiniteSet({s} \X Part(s))
      /\ Cardinality({s} \X Part(s)) = Cardinality({s}) * Cardinality(Part(s))
  BY <1>2, <1>3, FS_Product
<1> QED BY <1>1, <1>2, <1>3, <1>4

LEMMA NextDrainInv == TypeInv /\ DrainInv /\ [Next]_vars => DrainInv'
<1> SUFFICES ASSUME TypeInv, DrainInv, [Next]_vars PROVE DrainInv'
  OBVIOUS
<1>0. /\ wired \in Nat /\ drained \in Nat /\ Cardinality(InFlight) \in Nat
      /\ IsFiniteSet(InFlight) /\ wired + Cardinality(InFlight) <= drained
      /\ sndPc \in [Senders -> {"idle", "chunk", "transfer", "wait"}]
      /\ sndPos \in [Senders -> Nat] /\ sndMsg \in [Senders -> Seq(Byte)]
  BY FS_CardinalityType DEF DrainInv, TypeInv, TypeOK
<1>1. CASE UNCHANGED <<wired, drained, sndPc, sndMsg, sndPos>>
  BY <1>1 DEF DrainInv, InFlight, Part, ChunkEnd
<1>2. ASSUME NEW s \in Senders, sndPc[s] # "transfer", sndPc'[s] # "transfer",
             \A t \in Senders \ {s} : /\ sndPc'[t] = sndPc[t]
                                      /\ sndMsg'[t] = sndMsg[t]
                                      /\ sndPos'[t] = sndPos[t],
             UNCHANGED <<wired, drained>>
      PROVE  DrainInv'
  <2>1. InFlight' = InFlight
    BY <1>2 DEF InFlight, Part, ChunkEnd
  <2> QED BY <1>2, <2>1 DEF DrainInv
<1>3. ASSUME NEW s \in Senders, DrainAllowance(s) PROVE DrainInv'
  <2>1. CASE sndPc' = [sndPc EXCEPT ![s] = "wait"] /\ drained' = drained
    BY <1>0, <1>2, <1>3, <2>1 DEF DrainAllowance
  <2>2. CASE /\ sndPc' = [sndPc EXCEPT ![s] = "transfer"]
             /\ drained' = drained + Need(s)
    <3>1. sndPc[s] = "chunk" /\ UNCHANGED <<sndPos, sndMsg, wired>>
      BY <1>3 DEF DrainAllowance
    <3>2. InFlight' = InFlight \cup ({s} \X Part(s))
      <4>1. \A t \in Senders : Part(t)' = Part(t)
        BY <3>1 DEF Part, ChunkEnd
      <4>2. Part(s) \subseteq Nat
        BY ChunkType DEF Part, TypeInv, TypeOK
      <4>3. \A t \in Senders : sndPc'[t] = "transfer" <=> sndPc[t] = "transfer" \/ t = s
        BY <1>0, <2>2
      <4> QED BY <4>1, <4>2, <4>3 DEF InFlight
    <3>3. InFlight \cap ({s} \X Part(s)) = {}
      BY <3>1 DEF InFlight
    <3>4. /\ IsFiniteSet(InFlight')
          /\ Cardinality(InFlight') = Cardinality(InFlight) + Need(s)
                - Cardinality(InFlight \cap ({s} \X Part(s)))
      BY <1>0, <3>2, PartType, FS_Union
    <3>5. Cardinality(InFlight') = Cardinality(InFlight) + Need(s) /\ Need(s) \in Nat
      <4>1. Cardinality(InFlight \cap ({s} \X Part(s))) = 0 /\ Need(s) \in Nat
        BY <3>3, FS_EmptySet, ChunkType
      <4> QED BY <1>0, <3>4, <4>1
    <3> QED BY <1>0, <2>2, <3>1, <3>4, <3>5 DEF DrainInv
  <2> QED BY <1>3, <2>1, <2>2 DEF DrainAllowance
<1>4. ASSUME NEW s \in Senders, sndPc[s] = "transfer", sndPc'[s] # "transfer",
             NextChunk(s) \/ SendReturns(s)
      PROVE  /\ IsFiniteSet(InFlight')
             /\ Cardinality(InFlight') = Cardinality(InFlight) - Need(s)
  <2>1. \A t \in Senders \ {s} : /\ sndPc'[t] = sndPc[t]
                                 /\ sndMsg'[t] = sndMsg[t]
                                 /\ sndPos'[t] = sndPos[t]
    BY <1>0, <1>4 DEF NextChunk, SendReturns
  <2>2. InFlight' = InFlight \ ({s} \X Part(s))
    BY <1>4, <2>1 DEF InFlight, Part, ChunkEnd
  <2>3. InFlight \cap ({s} \X Part(s)) = {s} \X Part(s)
    <3>1. Part(s) \subseteq Nat
      BY ChunkType DEF Part, TypeInv, TypeOK
    <3> QED BY <1>4, <3>1 DEF InFlight
  <2>4. /\ IsFiniteSet(InFlight \ ({s} \X Part(s)))
        /\ Cardinality(InFlight \ ({s} \X Part(s)))
             = Cardinality(InFlight) - Cardinality(InFlight \cap ({s} \X Part(s)))
    BY <1>0, FS_Difference
  <2>5. Cardinality(InFlight \cap ({s} \X Part(s))) = Need(s)
    BY <2>3, PartType
  <2> QED BY <2>2, <2>4, <2>5
<1>5. ASSUME NEW s \in Senders, SendTunnelTransfer(s) PROVE DrainInv'
  <2>1. /\ sndPc[s] = "transfer" /\ sndPc'[s] # "transfer" /\ NextChunk(s)
        /\ wired' = wired + Need(s) /\ drained' = drained
    BY <1>0, <1>5 DEF SendTunnelTransfer, NextChunk, SendReturns
  <2>2. /\ IsFiniteSet(InFlight')
        /\ Cardinality(InFlight') = Cardinality(InFlight) - Need(s)
    BY <1>4, <2>1
  <2>3. Need(s) \in Nat
    BY ChunkType
  <2> QED BY <1>0, <2>1, <2>2, <2>3 DEF DrainInv
<1>6. ASSUME NEW s \in Senders, SendTransferLost(s) PROVE DrainInv'
  <2>1. /\ sndPc[s] = "transfer" /\ sndPc'[s] # "transfer"
        /\ NextChunk(s) \/ SendReturns(s)
        /\ wired' = wired /\ drained' = drained
    BY <1>0, <1>6 DEF SendTransferLost, NextChunk, SendReturns, history
  <2>2. /\ IsFiniteSet(InFlight')
        /\ Cardinality(InFlight') = Cardinality(InFlight) - Need(s)
    BY <1>4, <2>1
  <2>3. Need(s) \in Nat
    BY ChunkType
  <2> QED BY <1>0, <2>1, <2>2, <2>3 DEF DrainInv
<1>7. ASSUME NEW s \in Senders, SenderStep(s), sndPc[s] \notin {"chunk", "transfer"}
      PROVE  DrainInv'
  <2>1. /\ sndPc'[s] # "transfer" /\ UNCHANGED <<wired, drained>>
        /\ \A t \in Senders \ {s} : /\ sndPc'[t] = sndPc[t]
                                    /\ sndMsg'[t] = sndMsg[t]
                                    /\ sndPos'[t] = sndPos[t]
    BY <1>0, <1>7 DEF SenderStep, Send, DrainAllowance, SendTunnelTransfer,
         SendTransferLost, SendClosed, SendTimeout, SendSignalled, SendReturns, history
  <2> QED BY <1>2, <1>7, <2>1
<1>8. ASSUME NEW s \in Senders, SenderStep(s) PROVE DrainInv'
  BY <1>3, <1>5, <1>6, <1>7, <1>8
     DEF SenderStep, Send, SendClosed, SendTimeout, SendSignalled
<1> QED
  BY <1>1, <1>8
     DEF Next, ReceiverStep, ProcessStep, ClosingStep, HandleTunnelAllowance,
         HandleAllowance, Recv, RecvClosed, RecvTimeout, RecvReturns,
         RecvSignalled, RecvSignalledFetch, HandleTunnelTransfer,
         HandleTransfer, Close, CloseReturns, HandleTunnelClose,
         ConnectionDrop, HandleClose, sender, history, vars

\* The receiving end of a tunnel never holds more than defaultTunnelBuffer
\* bytes: whatever arrived was drained from an allowance of that size, and the
\* allowance only grows by what the receiver frees.  This holds for any number
\* of senders and receivers.
THEOREM BufferNeverExceeded == Spec => []BufferBounded
<1>1. Init => BalanceInv /\ WireInv /\ DrainInv
  <2>1. Init => BalanceInv
    BY TunnelAssumption DEF Init, BalanceInv
  <2>2. Init => WireInv
    <3>1. Chunks(<<>>) = <<>>
      BY DEF Chunks
    <3> QED BY <3>1, BytesType DEF Init, WireInv
  <2>3. Init => DrainInv
    <3>1. Init => InFlight = {}
      BY DEF Init, InFlight
    <3>2. Init => IsFiniteSet(InFlight) /\ Cardinality(InFlight) = 0
      BY <3>1, FS_EmptySet
    <3>3. Init => wired = 0 /\ drained = 0
      BY DEF Init
    <3> QED BY <3>2, <3>3 DEF DrainInv
  <2> QED BY <2>1, <2>2, <2>3
<1>2. TypeInv /\ BalanceInv /\ WireInv /\ DrainInv => BufferBounded
  <2> SUFFICES ASSUME TypeInv, BalanceInv, WireInv, DrainInv
               PROVE  BufferBounded
    OBVIOUS
  <2>1. /\ arrived <= wired /\ wired + Cardinality(InFlight) <= drained
        /\ drained + atoiSpace + procS + allowance <= Buffer + freed
        /\ Cardinality(InFlight) \in Nat
    BY WireBound, FS_CardinalityType DEF BalanceInv, DrainInv
  <2>2. /\ arrived \in Nat /\ wired \in Nat /\ drained \in Nat
        /\ atoiSpace \in Nat /\ procS \in Nat /\ allowance \in Nat
        /\ freed \in Nat /\ Buffer \in Nat
    BY TunnelAssumption DEF TypeInv, TypeOK
  <2> QED BY <2>1, <2>2 DEF BufferBounded
<1> QED
  BY <1>1, <1>2, InitTypeInv, NextTypeInv, NextBalanceInv, NextWireInv,
     NextDrainInv, PTL DEF Spec

-----------------------------------------------------------------------------
(* What R holds.                                                           *)

LEMMA NextHeldExactly == TypeInv /\ HeldExactly /\ [Next]_vars => HeldExactly'
<1> SUFFICES ASSUME TypeInv, HeldExactly, [Next]_vars PROVE HeldExactly'
  OBVIOUS
<1> DEFINE InHand == IF procR = <<>> THEN 0 ELSE Len(Head(procR).chunk)
<1>0. /\ chunkBuf \in Seq(Byte) /\ itoaBuf \in Seq(Seq(Byte))
      /\ arrived \in Nat /\ freed \in Nat /\ wire \in Seq(Packet)
      /\ Bytes(itoaBuf) \in Nat /\ Len(chunkBuf) \in Nat
  BY BytesType DEF TypeInv, TypeOK
<1>1. PICK c, b, h \in Nat :
        c = Len(chunkBuf) /\ b = Bytes(itoaBuf) /\ h = InHand
  <2>1. procR # <<>> => Head(procR) \in Packet
    BY DEF TypeInv, TypeOK
  <2>2. InHand \in Nat
    BY <2>1 DEF Packet
  <2> QED BY <1>0, <2>2
<1>2. c + b + h = arrived - freed
  BY <1>1, Zenon DEF HeldExactly, Held
<1>3. CASE UNCHANGED <<chunkBuf, itoaBuf, procR, arrived, freed>>
  BY <1>3 DEF HeldExactly, Held, Bytes
<1>4. CASE HandleTunnelTransfer
  <2>1. /\ procR = <<>> /\ UNCHANGED <<chunkBuf, itoaBuf>>
        /\ arrived' = arrived + Len(Head(wire).chunk)
        /\ \/ procR' = <<>> /\ freed' = freed + Len(Head(wire).chunk)
           \/ procR' = <<Head(wire)>> /\ freed' = freed
    BY <1>4 DEF HandleTunnelTransfer, receiver
  <2>2. PICK n \in Nat : n = Len(Head(wire).chunk)
    <3>1. Head(wire) \in Packet
      BY <1>4 DEF HandleTunnelTransfer, TypeInv, TypeOK
    <3> QED BY <3>1 DEF Packet
  <2>3. h = 0 /\ arrived' = arrived + n
        /\ Len(chunkBuf') = c /\ Bytes(itoaBuf') = b
    BY <1>1, <2>1, <2>2
  <2>4. \/ InHand' = 0 /\ freed' = freed + n
        \/ InHand' = n /\ freed' = freed
    <3>1. CASE procR' = <<>> /\ freed' = freed + Len(Head(wire).chunk)
      BY <2>2, <3>1
    <3>2. CASE procR' = <<Head(wire)>> /\ freed' = freed
      <4>1. procR' # <<>> /\ Head(procR') = Head(wire)
        BY <3>2
      <4> QED BY <2>2, <3>2, <4>1
    <3> QED BY <2>1, <3>1, <3>2
  <2>5. c + b + 0 = arrived' - (freed + n) /\ c + b + n = arrived' - freed
    BY <1>0, <1>2, <2>3
  <2>6. Len(chunkBuf') + Bytes(itoaBuf') + InHand' = arrived' - freed'
    BY <2>3, <2>4, <2>5, Zenon
  <2> QED BY <2>6, Zenon DEF HeldExactly, Held
<1>5. CASE HandleTransfer
  <2> DEFINE p == Head(procR)
             a == Assembled(p)
  <2>1. /\ p \in Packet /\ a \in Seq(Byte) /\ arrived' = arrived
        /\ procR # <<>> /\ procR' = <<>>
        /\ freed' = freed + (Len(chunkBuf) + Len(p.chunk) - Len(a))
    BY <1>5, TransferFacts DEF HandleTransfer
  <2>2. \/ itoaBuf' = Append(itoaBuf, a) /\ chunkBuf' = <<>>
        \/ itoaBuf' = itoaBuf /\ chunkBuf' = a
    BY <1>5, TransferFacts
  <2>3. PICK k, l \in Nat : k = Len(p.chunk) /\ l = Len(a)
    BY <2>1 DEF Packet
  <2>4. h = k /\ InHand' = 0 /\ freed' = freed + (c + k - l)
    BY <1>1, <2>1, <2>3
  <2> HIDE DEF p, a
  <2>5. \/ Len(chunkBuf') = 0 /\ Bytes(itoaBuf') = b + l
        \/ Len(chunkBuf') = l /\ Bytes(itoaBuf') = b
    <3>1. CASE itoaBuf' = Append(itoaBuf, a) /\ chunkBuf' = <<>>
      <4>1. /\ itoaBuf' \in Seq(Seq(Byte)) /\ Len(itoaBuf') = Len(itoaBuf) + 1
            /\ itoaBuf'[Len(itoaBuf')] = a
            /\ \A i \in 1 .. Len(itoaBuf) : itoaBuf'[i] = itoaBuf[i]
        BY <1>0, <2>1, <3>1
      <4>2. Bytes(itoaBuf') = Bytes(itoaBuf) + Len(a)
        BY <1>0, <4>1, BytesAppend
      <4> QED BY <1>1, <2>3, <3>1, <4>2
    <3>2. CASE itoaBuf' = itoaBuf /\ chunkBuf' = a
      BY <1>1, <2>3, <3>2
    <3> QED BY <2>2, <3>1, <3>2
  <2>6. /\ 0 + (b + l) + 0 = arrived - (freed + (c + k - l))
        /\ l + b + 0 = arrived - (freed + (c + k - l))
    BY <1>0, <1>2, <2>4
  <2>7. Len(chunkBuf') + Bytes(itoaBuf') + InHand' = arrived' - freed'
    BY <2>1, <2>4, <2>5, <2>6, Zenon
  <2> QED BY <2>7, Zenon DEF HeldExactly, Held
<1>6. ASSUME NEW r \in Receivers, FetchMessage(r),
             UNCHANGED <<chunkBuf, procR, arrived>>
      PROVE  HeldExactly'
  <2>1. /\ itoaBuf # <<>> /\ itoaBuf' = Tail(itoaBuf)
        /\ freed' = freed + Len(Head(itoaBuf))
    BY <1>6 DEF FetchMessage
  <2>2. /\ itoaBuf' \in Seq(Seq(Byte)) /\ Len(itoaBuf) = Len(itoaBuf') + 1
        /\ Head(itoaBuf) = itoaBuf[1] /\ Len(itoaBuf[1]) \in Nat
        /\ \A i \in 1 .. Len(itoaBuf') : itoaBuf'[i] = itoaBuf[i + 1]
    BY <1>0, <2>1
  <2>3. Bytes(itoaBuf) = Len(itoaBuf[1]) + Bytes(itoaBuf')
        /\ Bytes(itoaBuf') \in Nat
    BY <1>0, <2>2, BytesTail, BytesType
  <2>4. PICK n, k \in Nat :
          n = Len(itoaBuf[1]) /\ k = Bytes(itoaBuf') /\ b = n + k
    BY <1>1, <2>2, <2>3
  <2>5. /\ Len(chunkBuf') = c /\ InHand' = h /\ arrived' = arrived
        /\ freed' = freed + n
    BY <1>1, <1>6, <2>1, <2>2, <2>4
  <2>6. c + k + h = arrived - (freed + n)
    <3>1. b = n + k
      BY <2>4
    <3> QED BY <1>0, <1>2, <3>1
  <2>7. Len(chunkBuf') + Bytes(itoaBuf') + InHand' = arrived' - freed'
    BY <2>4, <2>5, <2>6, Zenon
  <2> QED BY <2>7, Zenon DEF HeldExactly, Held
<1>7. ASSUME NEW r \in Receivers, Recv(r) \/ RecvSignalledFetch(r)
      PROVE  HeldExactly'
  <2>1. UNCHANGED <<chunkBuf, procR, arrived>>
    BY <1>7 DEF Recv, RecvSignalledFetch
  <2>2. FetchMessage(r) \/ UNCHANGED <<itoaBuf, freed>>
    BY <1>7 DEF Recv, RecvSignalledFetch, FetchNothing
  <2> QED BY <1>3, <1>6, <2>1, <2>2
<1> QED
  BY <1>3, <1>4, <1>5, <1>7
     DEF Next, SenderStep, ReceiverStep, ProcessStep, ClosingStep, Send,
         DrainAllowance, SendTunnelTransfer, SendTransferLost, SendClosed,
         SendTimeout, SendSignalled, HandleTunnelAllowance, HandleAllowance,
         RecvClosed, RecvTimeout, RecvReturns, RecvSignalled, Close,
         CloseReturns, HandleTunnelClose, ConnectionDrop, HandleClose,
         receiver, history, vars

\* For any number of senders and receivers, what arrived at R and was not freed
\* is exactly what its buffers hold: handleTransfer grants back every byte of a
\* message it discards and no other.
THEOREM NoByteUnaccounted == Spec => []HeldExactly
<1>1. Init => HeldExactly
  BY BytesType DEF Init, HeldExactly, Held
<1> QED BY <1>1, InitTypeInv, NextTypeInv, NextHeldExactly, PTL DEF Spec
=============================================================================
