------------------------- MODULE TunnelOrderProofs -------------------------
(***************************************************************************)
(* One sender's messages arrive whole, once and in order, whatever timeouts *)
(* and closes cut short: Tunnel implements the safety part of MessageStream. *)
(* The argument follows the transfers from the cursor of the sender through *)
(* the wire and process() to the message in assembly: each one continues    *)
(* what is before it.                                                      *)
(***************************************************************************)
EXTENDS TunnelProofs

\* A running Send has a message of the application, and is not at its end.
SendInv ==
  \A s \in Senders : sndPc[s] # "idle" =>
    /\ \E m \in 1 .. MaxSends, n \in Lengths : sndMsg[s] = Message(m, n)
    /\ sndPos[s] < Len(sndMsg[s])

\* Where the transfer p leaves its message, and how many messages are complete
\* with it.
End(p)   == p.pos + Len(p.chunk)
Whole(p) == p.ord + IF End(p) = Len(p.msg) THEN 1 ELSE 0

\* The transfer p carries its part of its message, and the last one of a
\* message has completed it.
PacketOK(p, done) ==
  /\ Len(p.chunk) > 0 /\ End(p) <= Len(p.msg)
  /\ p.chunk = SubSeq(p.msg, p.pos + 1, End(p))
  /\ p.size = IF p.pos = 0 THEN Len(p.msg) ELSE 0
  /\ End(p) = Len(p.msg) => p.ord < Len(done) /\ done[p.ord + 1] = p.msg

\* What the sender s transfers next.
Cursor(s) == [msg |-> sndMsg[s], pos |-> sndPos[s], ord |-> Len(completed)]

\* What q transfers goes on where p ends, or begins another message.
Follows(p, q) ==
  /\ q.ord = Whole(p)
  /\ q.pos > 0 => q.msg = p.msg /\ q.pos = End(p)

\* R has the messages complete before q and the part of q's message before it.
Ready(q, got, buf, cap) ==
  /\ q.ord = got
  /\ q.pos > 0 => buf = SubSeq(q.msg, 1, q.pos) /\ cap = Len(q.msg)

Got == Len(delivered) + Len(itoaBuf)

Continues(q) == IF procR = <<>> THEN Ready(q, Got, chunkBuf, chunkCap)
                                ELSE Follows(procR[1], q)

\* From the message in assembly to the sender s, each part of the pipe
\* continues the one before it, as long as R and S still serve it.
HandOK ==
  procR # <<>> => /\ PacketOK(procR[1], completed)
                  /\ Ready(procR[1], Got, chunkBuf, chunkCap)
WireOK ==
  \A i \in 1 .. Len(wire) :
    /\ PacketOK(wire[i], completed)
    /\ i < Len(wire) => Follows(wire[i], wire[i + 1])
FirstOK   == ~term["R"] /\ wire # <<>> => Continues(wire[1])
LastOK(s) == link["S"] /\ wire # <<>> => Follows(wire[Len(wire)], Cursor(s))
NoneOK(s) == link["S"] /\ ~term["R"] /\ wire = <<>> => Continues(Cursor(s))

PipeInv(s) == HandOK /\ WireOK /\ FirstOK /\ LastOK(s) /\ NoneOK(s)

\* R has handed out and buffered the messages completed first.
OrderInv ==
  /\ Got <= Len(completed)
  /\ \A i \in 1 .. Len(delivered) : delivered[i] = completed[i]
  /\ \A i \in 1 .. Len(itoaBuf) : itoaBuf[i] = completed[Len(delivered) + i]

-----------------------------------------------------------------------------
LEMMA NextSendInv == TypeInv /\ SendInv /\ [Next]_vars => SendInv'
<1> SUFFICES ASSUME TypeInv, SendInv, [Next]_vars PROVE SendInv'
  OBVIOUS
<1>0. /\ sndPc \in [Senders -> {"idle", "chunk", "transfer", "wait"}]
      /\ sndMsg \in [Senders -> Seq(Byte)] /\ sndPos \in [Senders -> Nat]
  BY DEF TypeInv, TypeOK
<1>1. CASE UNCHANGED <<sndPc, sndMsg, sndPos>>
  BY <1>1 DEF SendInv
<1>2. ASSUME NEW s \in Senders, NEW n \in Lengths, Send(s, n) PROVE SendInv'
  <2>1. /\ sends + 1 \in 1 .. MaxSends /\ sndPos[s] = 0 /\ n > 0
        /\ Len(Message(sends + 1, n)) = n
    BY <1>2, TunnelAssumption, MessageType DEF Send, TypeInv, TypeOK, PosOK
  <2>2. /\ sndMsg' = [sndMsg EXCEPT ![s] = Message(sends + 1, n)]
        /\ sndPc' = [sndPc EXCEPT ![s] = "chunk"] /\ sndPos' = sndPos
    BY <1>2 DEF Send
  <2>3. ASSUME NEW t \in Senders, sndPc'[t] # "idle", t # s
        PROVE  sndPc[t] # "idle" /\ sndMsg'[t] = sndMsg[t]
    BY <1>0, <2>2, <2>3
  <2>4. sndMsg'[s] = Message(sends + 1, n) /\ sndPos'[s] < Len(sndMsg'[s])
    BY <1>0, <2>1, <2>2
  <2> QED BY <2>1, <2>2, <2>3, <2>4 DEF SendInv
<1>3. ASSUME NEW s \in Senders, SendReturns(s) PROVE SendInv'
  BY <1>0, <1>3 DEF SendReturns, SendInv
<1>4. ASSUME NEW s \in Senders, NextChunk(s), sndPc[s] # "idle" PROVE SendInv'
  <2>1. CASE ChunkEnd(s) = Len(sndMsg[s])
    BY <1>3, <1>4, <2>1 DEF NextChunk
  <2>2. CASE ChunkEnd(s) # Len(sndMsg[s])
    <3>1. /\ sndPos' = [sndPos EXCEPT ![s] = ChunkEnd(s)] /\ sndMsg' = sndMsg
          /\ sndPc' = [sndPc EXCEPT ![s] = "chunk"]
      BY <1>4, <2>2 DEF NextChunk
    <3>2. ChunkEnd(s) < Len(sndMsg[s])
      BY <1>0, <2>2, ChunkType
    <3> QED BY <1>0, <1>4, <3>1, <3>2 DEF SendInv
  <2> QED BY <2>1, <2>2
<1>5. ASSUME NEW s \in Senders, DrainAllowance(s) \/ SendSignalled(s)
      PROVE  SendInv'
  <2>1. sndPc[s] # "idle" /\ UNCHANGED <<sndMsg, sndPos>>
        /\ \A t \in Senders : t # s => sndPc'[t] = sndPc[t]
    BY <1>0, <1>5 DEF DrainAllowance, SendSignalled
  <2> QED BY <2>1 DEF SendInv
<1>6. ASSUME NEW s \in Senders,
             SendTunnelTransfer(s) \/ SendTransferLost(s) \/ SendClosed(s)
             \/ SendTimeout(s)
      PROVE  SendInv'
  <2>1. sndPc[s] # "idle" /\ (NextChunk(s) \/ SendReturns(s))
    BY <1>6 DEF SendTunnelTransfer, SendTransferLost, SendClosed, SendTimeout
  <2> QED BY <1>3, <1>4, <2>1
<1> QED
  BY <1>1, <1>2, <1>5, <1>6
     DEF Next, SenderStep, ReceiverStep, ProcessStep, ClosingStep, Recv,
         RecvClosed, RecvTimeout, RecvReturns, RecvSignalled,
         RecvSignalledFetch, HandleTunnelAllowance, HandleAllowance,
         HandleTunnelTransfer, HandleTransfer, Close, CloseReturns,
         HandleTunnelClose, ConnectionDrop, HandleClose, sender, vars
-----------------------------------------------------------------------------
(* One transfer.                                                           *)

LEMMA PacketType ==
  ASSUME NEW p \in Packet
  PROVE  /\ p.size \in Nat /\ p.chunk \in Seq(Byte) /\ p.msg \in Seq(Byte)
         /\ p.pos \in Nat /\ p.ord \in Nat
         /\ Len(p.chunk) \in Nat /\ Len(p.msg) \in Nat
         /\ End(p) \in Nat /\ Whole(p) \in Nat
<1>1. /\ p.size \in Nat /\ p.chunk \in Seq(Byte) /\ p.msg \in Seq(Byte)
      /\ p.pos \in Nat /\ p.ord \in Nat
  BY DEF Packet
<1>2. End(p) \in Nat
  BY <1>1 DEF End
<1>3. Whole(p) \in Nat
  BY <1>1 DEF Whole
<1> QED BY <1>1, <1>2, <1>3

\* Messages completed later change nothing for a transfer.
LEMMA PacketOKStays ==
  ASSUME NEW done \in Seq(Seq(Byte)), NEW m \in Seq(Byte), NEW p \in Packet,
         PacketOK(p, done)
  PROVE  PacketOK(p, Append(done, m))
<1>1. p.ord \in Nat
  BY PacketType
<1>2. ASSUME End(p) = Len(p.msg)
      PROVE  /\ p.ord < Len(Append(done, m))
             /\ Append(done, m)[p.ord + 1] = p.msg
  <2>1. p.ord < Len(done) /\ done[p.ord + 1] = p.msg
    BY <1>2 DEF PacketOK
  <2>2. Len(Append(done, m)) = Len(done) + 1 /\ Len(done) \in Nat
        /\ \A i \in 1 .. Len(done) : Append(done, m)[i] = done[i]
    OBVIOUS
  <2> QED BY <1>1, <2>1, <2>2
<1> QED BY <1>2 DEF PacketOK

\* What sendTunnelTransfer puts on the wire is the sender's cursor, and the
\* cursor moves on from it.
LEMMA SentPacket ==
  ASSUME TypeInv, SendInv, NEW s \in Senders, SendTunnelTransfer(s)
  PROVE  \E p \in Packet :
           /\ wire' = Append(wire, p)
           /\ p.msg = sndMsg[s] /\ p.pos = sndPos[s] /\ p.ord = Len(completed)
           /\ PacketOK(p, completed')
           /\ Follows(p, Cursor(s)')
<1> DEFINE p == [size |-> SizeOrCont(s), chunk |-> Chunk(s), msg |-> sndMsg[s],
                 pos |-> sndPos[s], ord |-> Len(completed)]
<1>1. /\ sndMsg \in [Senders -> Seq(Byte)] /\ sndPos \in [Senders -> Nat]
      /\ completed \in Seq(Seq(Byte)) /\ sndPc[s] = "transfer"
  BY DEF SendTunnelTransfer, TypeInv, TypeOK
<1>2. sndPos[s] \in Nat /\ sndMsg[s] \in Seq(Byte) /\ sndPos[s] < Len(sndMsg[s])
  BY <1>1 DEF SendInv
<1>3. /\ ChunkEnd(s) \in Nat /\ ChunkEnd(s) <= Len(sndMsg[s])
      /\ Chunk(s) \in Seq(Byte) /\ Len(Chunk(s)) = Need(s) /\ SizeOrCont(s) \in Nat
  BY ChunkType
<1>4. p \in Packet
  BY <1>1, <1>2, <1>3 DEF Packet
<1>5. End(p) = ChunkEnd(s)
  BY <1>2, <1>3 DEF End, Need
<1>6. Len(p.chunk) > 0
  <2>1. ChunkEnd(s) > sndPos[s]
    BY <1>2, TunnelAssumption DEF ChunkEnd
  <2> QED BY <1>2, <1>3, <2>1 DEF Need
<1>7. CASE ChunkEnd(s) = Len(sndMsg[s])
  <2>1. completed' = Append(completed, sndMsg[s]) /\ SendReturns(s)
    BY <1>7 DEF SendTunnelTransfer, NextChunk
  <2>2. Len(completed') = Len(completed) + 1
        /\ completed'[Len(completed) + 1] = sndMsg[s]
    BY <1>1, <1>2, <2>1
  <2>3. PacketOK(p, completed')
    <3>1. End(p) <= Len(p.msg) /\ p.chunk = SubSeq(p.msg, p.pos + 1, End(p))
      BY <1>3, <1>5 DEF Chunk
    <3>2. p.size = IF p.pos = 0 THEN Len(p.msg) ELSE 0
      BY DEF SizeOrCont
    <3>3. p.ord < Len(completed') /\ completed'[p.ord + 1] = p.msg
      BY <1>1, <2>2
    <3> QED BY <1>6, <3>1, <3>2, <3>3 DEF PacketOK
  <2>4. Follows(p, Cursor(s)')
    <3>1. sndPos'[s] = 0
      BY <1>1, <2>1 DEF SendReturns
    <3>2. Whole(p) = Len(completed) + 1
      BY <1>1, <1>5, <1>7 DEF Whole
    <3> QED BY <2>2, <3>1, <3>2 DEF Follows, Cursor
  <2> QED BY <1>4, <2>3, <2>4 DEF SendTunnelTransfer
<1>8. CASE ChunkEnd(s) # Len(sndMsg[s])
  <2>1. /\ completed' = completed /\ sndMsg' = sndMsg
        /\ sndPos' = [sndPos EXCEPT ![s] = ChunkEnd(s)]
    BY <1>8 DEF SendTunnelTransfer, NextChunk
  <2>2. PacketOK(p, completed')
    <3>1. End(p) <= Len(p.msg) /\ p.chunk = SubSeq(p.msg, p.pos + 1, End(p))
      BY <1>3, <1>5 DEF Chunk
    <3>2. p.size = IF p.pos = 0 THEN Len(p.msg) ELSE 0
      BY DEF SizeOrCont
    <3>3. End(p) # Len(p.msg)
      BY <1>5, <1>8
    <3> QED BY <1>6, <3>1, <3>2, <3>3 DEF PacketOK
  <2>3. Follows(p, Cursor(s)')
    <3>1. sndPos'[s] = ChunkEnd(s) /\ sndMsg'[s] = sndMsg[s]
      BY <1>1, <2>1
    <3>2. Whole(p) = Len(completed)
      BY <1>1, <1>5, <1>8 DEF Whole
    <3> QED BY <1>5, <2>1, <3>1, <3>2 DEF Follows, Cursor
  <2> QED BY <1>4, <2>2, <2>3 DEF SendTunnelTransfer
<1> QED BY <1>7, <1>8

\* handleTransfer appends a transfer that R is ready for to what it has of the
\* message: the capacity of chunkBuf is the message's length throughout, so
\* the message is complete exactly when its last chunk is there.
LEMMA TransferStep ==
  ASSUME TypeInv, HandleTransfer, PacketOK(procR[1], completed),
         Ready(procR[1], Got, chunkBuf, chunkCap)
  PROVE  LET p == procR[1] IN
         \/ /\ End(p) = Len(p.msg)
            /\ itoaBuf' = Append(itoaBuf, p.msg)
         \/ /\ End(p) < Len(p.msg) /\ itoaBuf' = itoaBuf
            /\ chunkBuf' = SubSeq(p.msg, 1, End(p)) /\ chunkCap' = Len(p.msg)
<1> DEFINE p == procR[1]
<1>1. p \in Packet /\ Head(procR) = p
  BY DEF HandleTransfer, TypeInv, TypeOK
<1> HIDE DEF p
<1>2. /\ Len(p.chunk) > 0 /\ End(p) <= Len(p.msg)
      /\ p.chunk = SubSeq(p.msg, p.pos + 1, End(p))
      /\ p.size = IF p.pos = 0 THEN Len(p.msg) ELSE 0
      /\ p.pos > 0 => chunkBuf = SubSeq(p.msg, 1, p.pos) /\ chunkCap = Len(p.msg)
  BY DEF PacketOK, Ready, p
<1>3. /\ p.pos \in Nat /\ p.msg \in Seq(Byte) /\ Len(p.msg) \in Nat
      /\ End(p) \in Nat /\ p.pos < End(p)
  <2>1. /\ p.pos \in Nat /\ p.msg \in Seq(Byte) /\ Len(p.msg) \in Nat
        /\ End(p) \in Nat /\ Len(p.chunk) \in Nat
    BY <1>1, PacketType
  <2> QED BY <1>2, <2>1 DEF End
<1>4. /\ Assembled(p) = SubSeq(p.msg, 1, End(p))
      /\ (IF p.size # 0 THEN p.size ELSE chunkCap) = Len(p.msg)
  <2>1. CASE p.pos = 0
    BY <1>2, <1>3, <2>1 DEF Assembled
  <2>2. CASE p.pos > 0
    <3>1. p.size = 0 /\ chunkBuf = SubSeq(p.msg, 1, p.pos) /\ chunkCap = Len(p.msg)
      BY <1>2, <2>2
    <3>2. SubSeq(p.msg, 1, p.pos) \o SubSeq(p.msg, p.pos + 1, End(p))
            = SubSeq(p.msg, 1, End(p))
      <4>1. /\ 1 \in 1 .. Len(p.msg) + 1 /\ p.pos \in 1 - 1 .. Len(p.msg)
            /\ End(p) \in p.pos .. Len(p.msg)
        BY <1>2, <1>3
      <4> QED BY <1>3, <4>1, ConcatAdjacentSubSeq
    <3> QED BY <1>2, <3>1, <3>2 DEF Assembled
  <2> QED BY <1>3, <2>1, <2>2
<1>5. Len(Assembled(p)) = End(p)
  BY <1>2, <1>3, <1>4
<1>6. Capacities(Len(Assembled(p)), Len(p.msg)) = {Len(p.msg)}
  BY <1>2, <1>5 DEF Capacities
<1>7. IF End(p) = Len(p.msg)
      THEN itoaBuf' = Append(itoaBuf, Assembled(p))
      ELSE /\ chunkBuf' = Assembled(p) /\ chunkCap' = Len(p.msg)
           /\ itoaBuf' = itoaBuf
  BY <1>1, <1>4, <1>5, <1>6 DEF HandleTransfer, Enqueue
<1>8. End(p) = Len(p.msg) => Assembled(p) = p.msg
  BY <1>3, <1>4, SubSeqFull
<1>9. CASE End(p) = Len(p.msg)
  BY <1>7, <1>8, <1>9 DEF p
<1>10. CASE End(p) < Len(p.msg)
  <2>1. /\ itoaBuf' = itoaBuf /\ chunkCap' = Len(p.msg)
        /\ chunkBuf' = SubSeq(p.msg, 1, End(p))
    BY <1>3, <1>4, <1>7, <1>10
  <2> QED BY <1>10, <2>1 DEF p
<1> QED BY <1>2, <1>3, <1>9, <1>10

\* What follows a transfer finds R ready for it once the transfer is handled.
LEMMA TransferReady ==
  ASSUME TypeInv, HandleTransfer, PacketOK(procR[1], completed),
         Ready(procR[1], Got, chunkBuf, chunkCap),
         NEW q, q.pos \in Nat, q.pos > 0 => q.pos < Len(q.msg),
         Follows(procR[1], q)
  PROVE  Ready(q, Got', chunkBuf', chunkCap')
<1> DEFINE p == procR[1]
<1>1. p \in Packet
  BY DEF HandleTransfer, TypeInv, TypeOK
<1>2. \/ End(p) = Len(p.msg) /\ itoaBuf' = Append(itoaBuf, p.msg)
      \/ /\ End(p) < Len(p.msg) /\ itoaBuf' = itoaBuf
         /\ chunkBuf' = SubSeq(p.msg, 1, End(p)) /\ chunkCap' = Len(p.msg)
  BY TransferStep
<1>3. /\ p.msg \in Seq(Byte) /\ p.ord \in Nat /\ Len(p.msg) \in Nat
      /\ End(p) \in Nat /\ p.ord = Got
      /\ itoaBuf \in Seq(Seq(Byte)) /\ Len(delivered) \in Nat
      /\ delivered' = delivered
  BY <1>1, PacketType DEF Ready, TypeInv, TypeOK, HandleTransfer
<1>4. /\ q.ord = p.ord + IF End(p) = Len(p.msg) THEN 1 ELSE 0
      /\ q.pos > 0 => q.msg = p.msg /\ q.pos = End(p)
  BY DEF Follows, Whole
<1> HIDE DEF p
<1>5. CASE End(p) = Len(p.msg) /\ itoaBuf' = Append(itoaBuf, p.msg)
  <2>1. Len(itoaBuf') = Len(itoaBuf) + 1 /\ Len(itoaBuf) \in Nat
    BY <1>3, <1>5
  <2>2. Got' = Got + 1
    BY <1>3, <2>1 DEF Got
  <2>3. q.pos = 0
    BY <1>3, <1>4, <1>5
  <2> QED BY <1>3, <1>4, <1>5, <2>2, <2>3 DEF Ready
<1>6. CASE /\ End(p) < Len(p.msg) /\ itoaBuf' = itoaBuf
           /\ chunkBuf' = SubSeq(p.msg, 1, End(p)) /\ chunkCap' = Len(p.msg)
  <2>1. Got' = Got
    BY <1>3, <1>6 DEF Got
  <2>2. q.ord = p.ord
    BY <1>3, <1>4, <1>6
  <2> QED BY <1>3, <1>4, <1>6, <2>1, <2>2 DEF Ready
<1> QED BY <1>2, <1>5, <1>6

-----------------------------------------------------------------------------
(* The pipe.                                                               *)

\* Steps that move no transfer keep the pipe, also when an end closes or the
\* sender turns to another message.
LEMMA PipeStays ==
  ASSUME TypeInv, NEW s \in Senders, PipeInv(s),
         UNCHANGED <<wire, procR, chunkBuf, chunkCap, completed>>,
         Got' = Got, link'["S"] => link["S"], term["R"] => term'["R"],
         \/ sndPos'[s] = sndPos[s] /\ sndMsg'[s] = sndMsg[s]
         \/ sndPos'[s] = 0
  PROVE  PipeInv(s)'
<1>1. sndPos[s] \in Nat
  BY DEF TypeInv, TypeOK
<1>2. HandOK' /\ WireOK' /\ FirstOK'
  BY DEF PipeInv, HandOK, WireOK, FirstOK, Continues
<1>3. /\ Cursor(s).ord = Len(completed) /\ Cursor(s)'.ord = Len(completed)
      /\ Cursor(s).pos = sndPos[s] /\ Cursor(s)'.pos = sndPos'[s]
      /\ Cursor(s).msg = sndMsg[s] /\ Cursor(s)'.msg = sndMsg'[s]
  BY DEF Cursor
<1>4. ASSUME NEW p, Follows(p, Cursor(s)) PROVE Follows(p, Cursor(s)')
  BY <1>1, <1>3, <1>4 DEF Follows
<1>5. ASSUME Ready(Cursor(s), Got, chunkBuf, chunkCap)
      PROVE  Ready(Cursor(s)', Got, chunkBuf, chunkCap)
  BY <1>1, <1>3, <1>5 DEF Ready
<1>6. LastOK(s)'
  BY <1>4 DEF PipeInv, LastOK
<1>7. NoneOK(s)'
  BY <1>4, <1>5 DEF PipeInv, NoneOK, Continues
<1> QED BY <1>2, <1>6, <1>7 DEF PipeInv

LEMMA SendPipe ==
  ASSUME TypeInv, SendInv, NEW s \in Senders, PipeInv(s), SendTunnelTransfer(s)
  PROVE  PipeInv(s)'
<1>1. PICK p \in Packet :
        /\ wire' = Append(wire, p)
        /\ p.msg = sndMsg[s] /\ p.pos = sndPos[s] /\ p.ord = Len(completed)
        /\ PacketOK(p, completed')
        /\ Follows(p, Cursor(s)')
  BY SentPacket
<1>2. /\ wire \in Seq(Packet) /\ completed \in Seq(Seq(Byte))
      /\ sndMsg[s] \in Seq(Byte)
      /\ procR # <<>> => procR[1] \in Packet
  BY DEF TypeInv, TypeOK
<1>3. /\ link["S"] /\ UNCHANGED <<procR, chunkBuf, chunkCap, term, link>>
      /\ Got' = Got
  BY DEF SendTunnelTransfer, receiver, closers, Got
<1>4. /\ Len(wire) \in Nat /\ Len(wire') = Len(wire) + 1
      /\ wire'[Len(wire) + 1] = p /\ wire' # <<>>
      /\ \A i \in 1 .. Len(wire) : wire'[i] = wire[i] /\ wire[i] \in Packet
  <2>1. wire' = Append(wire, p)
    BY <1>1
  <2>2. Len(wire') = Len(wire) + 1 /\ wire'[Len(wire) + 1] = p /\ wire' # <<>>
    BY <1>2, <2>1
  <2>3. \A i \in 1 .. Len(wire) : wire'[i] = wire[i] /\ wire[i] \in Packet
    BY <1>2, <2>1
  <2> QED BY <1>2, <2>2, <2>3
<1>5. \A q \in Packet : PacketOK(q, completed) => PacketOK(q, completed')
  BY <1>2, PacketOKStays DEF SendTunnelTransfer
<1>6. /\ Cursor(s).ord = p.ord /\ Cursor(s).pos = p.pos /\ Cursor(s).msg = p.msg
  BY <1>1 DEF Cursor
<1>7. ASSUME NEW q, Follows(q, Cursor(s)) PROVE Follows(q, p)
  BY <1>6, <1>7 DEF Follows
<1>8. HandOK'
  BY <1>2, <1>3, <1>5 DEF PipeInv, HandOK
<1>9. WireOK'
  <2> SUFFICES ASSUME NEW i \in 1 .. Len(wire')
               PROVE  /\ PacketOK(wire'[i], completed')
                      /\ i < Len(wire') => Follows(wire'[i], wire'[i + 1])
    BY DEF WireOK
  <2>1. CASE i = Len(wire) + 1
    BY <1>1, <1>4, <2>1
  <2>2. CASE i = Len(wire)
    <3>1. wire # <<>> /\ i \in 1 .. Len(wire)
      BY <1>4, <2>2
    <3>2. Follows(wire[i], p)
      BY <1>3, <1>7, <2>2, <3>1 DEF PipeInv, LastOK
    <3>3. PacketOK(wire[i], completed)
      BY <3>1 DEF PipeInv, WireOK
    <3> QED BY <1>4, <1>5, <2>2, <3>1, <3>2, <3>3
  <2>3. CASE i < Len(wire)
    <3>1. i \in 1 .. Len(wire) /\ i + 1 \in 1 .. Len(wire)
      BY <1>4, <2>3
    <3>2. PacketOK(wire[i], completed) /\ Follows(wire[i], wire[i + 1])
      BY <2>3, <3>1 DEF PipeInv, WireOK
    <3> QED BY <1>4, <1>5, <3>1, <3>2
  <2> QED BY <1>4, <2>1, <2>2, <2>3
<1>10. FirstOK'
  <2>1. CASE wire = <<>>
    <3>1. wire'[1] = p
      BY <1>4, <2>1
    <3>2. ~term["R"] => Continues(Cursor(s))
      BY <1>3, <2>1 DEF PipeInv, NoneOK
    <3>3. ~term["R"] => Continues(p)
      BY <1>6, <1>7, <3>2 DEF Continues, Ready
    <3> QED BY <1>3, <3>1, <3>3 DEF FirstOK, Continues
  <2>2. CASE wire # <<>>
    <3>1. wire'[1] = wire[1]
      BY <1>2, <1>4, <2>2
    <3> QED BY <1>3, <2>2, <3>1 DEF PipeInv, FirstOK, Continues
  <2> QED BY <2>1, <2>2
<1>11. LastOK(s)' /\ NoneOK(s)'
  BY <1>1, <1>4 DEF LastOK, NoneOK
<1> QED BY <1>8, <1>9, <1>10, <1>11 DEF PipeInv

LEMMA ReadPipe ==
  ASSUME TypeInv, NEW s \in Senders, PipeInv(s), HandleTunnelTransfer
  PROVE  PipeInv(s)'
<1>1. /\ wire \in Seq(Packet) /\ wire # <<>> /\ procR = <<>>
      /\ wire' = Tail(wire)
      /\ procR' = IF term["R"] THEN <<>> ELSE <<wire[1]>>
      /\ UNCHANGED <<chunkBuf, chunkCap, term, link, completed>>
  BY DEF HandleTunnelTransfer, receiver, closers, TypeInv, TypeOK
<1>2. Got' = Got /\ Cursor(s)' = Cursor(s)
  BY DEF HandleTunnelTransfer, receiver, sender, Got, Cursor
<1>3. /\ Len(wire) \in Nat /\ Len(wire) >= 1 /\ Len(wire') = Len(wire) - 1
      /\ wire' \in Seq(Packet)
      /\ \A i \in 1 .. Len(wire') : wire'[i] = wire[i + 1]
  BY <1>1
<1>4. wire' = <<>> <=> Len(wire) = 1
  BY <1>3, EmptySeq
<1>5. WireOK'
  <2> SUFFICES ASSUME NEW i \in 1 .. Len(wire')
               PROVE  /\ PacketOK(wire'[i], completed')
                      /\ i < Len(wire') => Follows(wire'[i], wire'[i + 1])
    BY DEF WireOK
  <2>1. i + 1 \in 1 .. Len(wire) /\ wire'[i] = wire[i + 1]
    BY <1>3
  <2>2. PacketOK(wire[i + 1], completed)
    BY <2>1 DEF PipeInv, WireOK
  <2>3. ASSUME i < Len(wire') PROVE Follows(wire'[i], wire'[i + 1])
    <3>1. i + 1 \in 1 .. Len(wire') /\ i + 1 < Len(wire)
      BY <1>3, <2>3
    <3>2. wire'[i + 1] = wire[i + 1 + 1]
      BY <1>3, <3>1
    <3> QED BY <2>1, <3>1, <3>2 DEF PipeInv, WireOK
  <2> QED BY <1>1, <2>1, <2>2, <2>3
<1>6. LastOK(s)'
  <2> SUFFICES ASSUME link["S"], wire' # <<>>
               PROVE  Follows(wire'[Len(wire')], Cursor(s))
    BY <1>1, <1>2 DEF LastOK
  <2>1. wire'[Len(wire')] = wire[Len(wire)]
    BY <1>3, <1>4
  <2> QED BY <1>1, <2>1 DEF PipeInv, LastOK
<1>7. CASE term["R"]
  BY <1>1, <1>5, <1>6, <1>7 DEF PipeInv, HandOK, FirstOK, NoneOK
<1>8. CASE ~term["R"]
  <2>1. procR' # <<>> /\ procR'[1] = wire[1]
    BY <1>1, <1>8
  <2>2. PacketOK(wire[1], completed) /\ Ready(wire[1], Got, chunkBuf, chunkCap)
    <3>1. 1 \in 1 .. Len(wire)
      BY <1>3
    <3> QED BY <1>1, <1>8, <3>1 DEF PipeInv, WireOK, FirstOK, Continues
  <2>3. HandOK'
    BY <1>1, <1>2, <2>1, <2>2 DEF HandOK
  <2>4. FirstOK'
    <3> SUFFICES ASSUME wire' # <<>> PROVE Follows(wire[1], wire'[1])
      BY <2>1 DEF FirstOK, Continues
    <3>1. 1 \in 1 .. Len(wire) /\ 1 < Len(wire) /\ wire'[1] = wire[1 + 1]
      BY <1>3, <1>4
    <3> QED BY <3>1 DEF PipeInv, WireOK
  <2>5. NoneOK(s)'
    <3> SUFFICES ASSUME link["S"], wire' = <<>> PROVE Follows(wire[1], Cursor(s))
      BY <1>1, <1>2, <2>1 DEF NoneOK, Continues
    <3>1. Len(wire) = 1
      BY <1>4
    <3> QED BY <1>1, <3>1 DEF PipeInv, LastOK
  <2> QED BY <1>5, <1>6, <2>3, <2>4, <2>5 DEF PipeInv
<1> QED BY <1>7, <1>8

LEMMA HandlePipe ==
  ASSUME TypeInv, SendInv, NEW s \in Senders, PipeInv(s), HandleTransfer
  PROVE  PipeInv(s)'
<1>1. /\ procR # <<>> /\ procR' = <<>>
      /\ UNCHANGED <<wire, term, link, completed>> /\ Cursor(s)' = Cursor(s)
  BY DEF HandleTransfer, sender, closers, Cursor
<1>2. PacketOK(procR[1], completed) /\ Ready(procR[1], Got, chunkBuf, chunkCap)
  BY <1>1 DEF PipeInv, HandOK
<1>3. ASSUME NEW q, q.pos \in Nat, q.pos > 0 => q.pos < Len(q.msg),
             Follows(procR[1], q)
      PROVE  Ready(q, Got', chunkBuf', chunkCap')
  BY <1>2, <1>3, TransferReady
<1>4. FirstOK'
  <2> SUFFICES ASSUME ~term["R"], wire # <<>>
               PROVE  Ready(wire[1], Got', chunkBuf', chunkCap')
    BY <1>1 DEF FirstOK, Continues
  <2>1. wire[1] \in Packet /\ 1 \in 1 .. Len(wire)
    BY DEF TypeInv, TypeOK
  <2>2. PacketOK(wire[1], completed) /\ Follows(procR[1], wire[1])
    BY <1>1, <2>1 DEF PipeInv, WireOK, FirstOK, Continues
  <2>3. wire[1].pos \in Nat /\ wire[1].pos < Len(wire[1].msg)
    <3>1. /\ wire[1].pos \in Nat /\ Len(wire[1].chunk) \in Nat
          /\ Len(wire[1].msg) \in Nat
      BY <2>1, PacketType
    <3> QED BY <2>2, <3>1 DEF PacketOK, End
  <2> QED BY <1>3, <2>2, <2>3
<1>5. NoneOK(s)'
  <2> SUFFICES ASSUME link["S"], ~term["R"], wire = <<>>
               PROVE  Ready(Cursor(s), Got', chunkBuf', chunkCap')
    BY <1>1 DEF NoneOK, Continues
  <2>1. Follows(procR[1], Cursor(s))
    BY <1>1 DEF PipeInv, NoneOK, Continues
  <2>2. sndPos[s] \in Nat /\ (sndPos[s] > 0 => sndPos[s] < Len(sndMsg[s]))
    BY DEF SendInv, TypeInv, TypeOK, PosOK
  <2>3. Cursor(s).pos = sndPos[s] /\ Cursor(s).msg = sndMsg[s]
    BY DEF Cursor
  <2> QED BY <1>3, <2>1, <2>2, <2>3
<1>6. HandOK' /\ WireOK' /\ LastOK(s)'
  BY <1>1 DEF PipeInv, HandOK, WireOK, LastOK
<1> QED BY <1>4, <1>5, <1>6 DEF PipeInv

\* A Recv hands out a message, or nothing, of what R has got.
LEMMA FetchSteps ==
  ASSUME TypeInv, NEW r \in Receivers, Recv(r) \/ RecvSignalledFetch(r)
  PROVE  /\ UNCHANGED <<wire, procR, chunkBuf, chunkCap, completed, link, term,
                        closing, sndPos, sndMsg>>
         /\ \/ UNCHANGED <<itoaBuf, delivered>>
            \/ /\ itoaBuf # <<>> /\ itoaBuf' = Tail(itoaBuf)
               /\ delivered' = Append(delivered, itoaBuf[1])
         /\ Got' = Got
<1>1. UNCHANGED <<wire, procR, chunkBuf, chunkCap, completed, link, term, closing,
                  sndPos, sndMsg>>
  BY DEF Recv, RecvSignalledFetch, sender, closers
<1>2. itoaBuf \in Seq(Seq(Byte)) /\ delivered \in Seq(Seq(Byte))
  BY DEF TypeInv, TypeOK
<1>3. \/ UNCHANGED <<itoaBuf, delivered>>
      \/ /\ itoaBuf # <<>> /\ itoaBuf' = Tail(itoaBuf)
         /\ delivered' = Append(delivered, itoaBuf[1])
  BY <1>2 DEF Recv, RecvSignalledFetch, FetchMessage, FetchNothing
<1>4. ASSUME itoaBuf # <<>>, itoaBuf' = Tail(itoaBuf),
             delivered' = Append(delivered, itoaBuf[1])
      PROVE  Got' = Got
  <2>1. /\ Len(itoaBuf) \in Nat /\ Len(delivered) \in Nat
        /\ Len(itoaBuf') = Len(itoaBuf) - 1
    BY <1>2, <1>4
  <2>2. Len(delivered') = Len(delivered) + 1
    BY <1>2, <1>4
  <2> QED BY <2>1, <2>2 DEF Got
<1>5. UNCHANGED <<itoaBuf, delivered>> => Got' = Got
  BY DEF Got
<1>6. Got' = Got
  BY <1>3, <1>4, <1>5
<1> QED BY <1>1, <1>3, <1>6

LEMMA NextPipeInv ==
  ASSUME NEW s0, Senders = {s0}
  PROVE  TypeInv /\ SendInv /\ PipeInv(s0) /\ [Next]_vars => PipeInv(s0)'
<1> SUFFICES ASSUME TypeInv, SendInv, PipeInv(s0), [Next]_vars
             PROVE  PipeInv(s0)'
  OBVIOUS
<1> DEFINE Pipe == <<wire, procR, chunkBuf, chunkCap, completed>>
<1>0. s0 \in Senders /\ sndPos \in [Senders -> Nat]
      /\ sndMsg \in [Senders -> Seq(Byte)]
  BY DEF TypeInv, TypeOK
<1>1. CASE UNCHANGED Pipe /\ UNCHANGED <<itoaBuf, delivered, link, term, sndPos, sndMsg>>
  BY <1>0, <1>1, PipeStays DEF Got
<1>2. ASSUME NEW s \in Senders, NEW n \in Lengths, Send(s, n)
      PROVE  PipeInv(s0)'
  <2>1. /\ UNCHANGED Pipe /\ UNCHANGED <<itoaBuf, delivered, link, term>>
        /\ sndPos'[s0] = 0
    BY <1>0, <1>2 DEF Send, receiver, channels, closers, TypeInv, PosOK
  <2> QED BY <1>0, <2>1, PipeStays DEF Got
<1>3. ASSUME NEW s \in Senders, SendClosed(s) \/ SendTimeout(s)
      PROVE  PipeInv(s0)'
  <2>1. /\ UNCHANGED Pipe /\ UNCHANGED <<itoaBuf, delivered, link, term>>
        /\ sndPos'[s0] = 0
    BY <1>0, <1>3 DEF SendClosed, SendTimeout, SendReturns, receiver, channels,
         closers, history
  <2> QED BY <1>0, <2>1, PipeStays DEF Got
<1>4. ASSUME NEW s \in Senders, SendTransferLost(s) PROVE PipeInv(s0)'
  <2>1. /\ UNCHANGED Pipe /\ UNCHANGED <<itoaBuf, delivered, link, term>>
        /\ ~link["S"]
    BY <1>4 DEF SendTransferLost, receiver, channels, closers, history
  <2> QED BY <2>1 DEF PipeInv, HandOK, WireOK, FirstOK, LastOK, NoneOK,
                      Continues, Got
<1>5. ASSUME NEW s \in Senders, SendTunnelTransfer(s) PROVE PipeInv(s0)'
  BY <1>5, SendPipe
<1>6. ASSUME NEW r \in Receivers, Recv(r) \/ RecvSignalledFetch(r)
      PROVE  PipeInv(s0)'
  <2>1. UNCHANGED Pipe /\ UNCHANGED <<link, term, sndPos, sndMsg>> /\ Got' = Got
    BY <1>6, FetchSteps
  <2> QED BY <1>0, <2>1, PipeStays
<1>7. CASE HandleTunnelTransfer
  BY <1>0, <1>7, ReadPipe
<1>8. CASE HandleTransfer
  BY <1>0, <1>8, HandlePipe
<1>9. ASSUME NEW e \in Ends, ClosingStep(e) PROVE PipeInv(s0)'
  <2>1. UNCHANGED Pipe /\ UNCHANGED <<itoaBuf, delivered, sndPos, sndMsg>>
    BY <1>9 DEF ClosingStep, Close, CloseReturns, HandleTunnelClose,
         ConnectionDrop, HandleClose, sender, receiver, channels, history
  <2>2. (link'["S"] => link["S"]) /\ (term["R"] => term'["R"])
    BY <1>9 DEF ClosingStep, Close, CloseReturns, HandleTunnelClose,
         ConnectionDrop, HandleClose, Ends, TypeInv, TypeOK
  <2> QED BY <1>0, <2>1, <2>2, PipeStays DEF Got
<1> QED
  BY <1>1, <1>2, <1>3, <1>4, <1>5, <1>6, <1>7, <1>8, <1>9
     DEF Next, SenderStep, ReceiverStep, ProcessStep, DrainAllowance,
         SendSignalled, RecvClosed, RecvTimeout, RecvReturns, RecvSignalled,
         HandleTunnelAllowance, HandleAllowance, sender, receiver, channels,
         closers, history, vars

-----------------------------------------------------------------------------
(* The order of delivery.                                                  *)

LEMMA NextOrderInv ==
  ASSUME TypeInv, HandOK, OrderInv, [Next]_vars
  PROVE  OrderInv'
<1>0. /\ completed \in Seq(Seq(Byte)) /\ delivered \in Seq(Seq(Byte))
      /\ itoaBuf \in Seq(Seq(Byte))
      /\ Len(completed) \in Nat /\ Len(delivered) \in Nat /\ Len(itoaBuf) \in Nat
  BY DEF TypeInv, TypeOK
<1>1. /\ Len(delivered) + Len(itoaBuf) <= Len(completed)
      /\ \A i \in 1 .. Len(delivered) : delivered[i] = completed[i]
      /\ \A i \in 1 .. Len(itoaBuf) : itoaBuf[i] = completed[Len(delivered) + i]
  BY DEF OrderInv, Got
<1>2. CASE UNCHANGED <<completed, delivered, itoaBuf>>
  BY <1>2 DEF OrderInv, Got
<1>3. ASSUME NEW s \in Senders, SendTunnelTransfer(s) PROVE OrderInv'
  <2>1. UNCHANGED <<delivered, itoaBuf>>
    BY <1>3 DEF SendTunnelTransfer, receiver
  <2>2. CASE completed' = Append(completed, sndMsg[s])
    <3>1. sndMsg[s] \in Seq(Byte)
      BY DEF TypeInv, TypeOK
    <3>2. /\ Len(completed') = Len(completed) + 1
          /\ \A i \in 1 .. Len(completed) : completed'[i] = completed[i]
      BY <1>0, <2>2, <3>1
    <3>3. \A i \in 1 .. Len(delivered) : delivered[i] = completed'[i]
      BY <1>0, <1>1, <3>2
    <3>4. ASSUME NEW i \in 1 .. Len(itoaBuf)
          PROVE  itoaBuf[i] = completed'[Len(delivered) + i]
      <4>1. Len(delivered) + i \in 1 .. Len(completed)
        BY <1>0, <1>1
      <4> QED BY <1>1, <3>2, <4>1
    <3>5. Len(delivered) + Len(itoaBuf) <= Len(completed')
      BY <1>0, <1>1, <3>2
    <3> QED BY <2>1, <3>3, <3>4, <3>5 DEF OrderInv, Got
  <2> QED BY <1>2, <1>3, <2>1, <2>2 DEF SendTunnelTransfer
<1>4. CASE HandleTransfer
  <2>1. UNCHANGED <<delivered, completed>>
    BY <1>4 DEF HandleTransfer
  <2> DEFINE p == procR[1]
  <2>2. /\ p \in Packet /\ PacketOK(p, completed)
        /\ Ready(p, Got, chunkBuf, chunkCap)
    BY <1>4 DEF HandOK, HandleTransfer, TypeInv, TypeOK
  <2>3. \/ End(p) = Len(p.msg) /\ itoaBuf' = Append(itoaBuf, p.msg)
        \/ itoaBuf' = itoaBuf
    BY <1>4, <2>2, TransferStep
  <2> HIDE DEF p
  <2>4. CASE End(p) = Len(p.msg) /\ itoaBuf' = Append(itoaBuf, p.msg)
    <3>1. /\ p.ord < Len(completed) /\ completed[p.ord + 1] = p.msg
          /\ p.ord = Len(delivered) + Len(itoaBuf) /\ p.msg \in Seq(Byte)
      BY <2>2, <2>4, PacketType DEF PacketOK, Ready, Got
    <3>2. /\ Len(itoaBuf') = Len(itoaBuf) + 1 /\ itoaBuf'[Len(itoaBuf) + 1] = p.msg
          /\ \A i \in 1 .. Len(itoaBuf) : itoaBuf'[i] = itoaBuf[i]
      BY <1>0, <2>4, <3>1
    <3>3. Len(delivered) + Len(itoaBuf') <= Len(completed)
      BY <1>0, <3>1, <3>2
    <3>4. ASSUME NEW i \in 1 .. Len(itoaBuf')
          PROVE  itoaBuf'[i] = completed[Len(delivered) + i]
      <4>1. CASE i \in 1 .. Len(itoaBuf)
        BY <1>1, <3>2, <4>1
      <4>2. CASE i = Len(itoaBuf) + 1
        <5>1. p.ord + 1 = Len(delivered) + i
          BY <1>0, <3>1, <4>2
        <5> QED BY <3>1, <3>2, <4>2, <5>1
      <4> QED BY <1>0, <3>2, <4>1, <4>2
    <3> QED BY <1>1, <2>1, <3>3, <3>4 DEF OrderInv, Got
  <2> QED BY <1>2, <2>1, <2>3, <2>4
<1>5. ASSUME NEW r \in Receivers, Recv(r) \/ RecvSignalledFetch(r)
      PROVE  OrderInv'
  <2>1. /\ completed' = completed /\ Got' = Got
        /\ \/ UNCHANGED <<itoaBuf, delivered>>
           \/ /\ itoaBuf # <<>> /\ itoaBuf' = Tail(itoaBuf)
              /\ delivered' = Append(delivered, itoaBuf[1])
    BY <1>5, FetchSteps
  <2>2. CASE /\ itoaBuf # <<>> /\ itoaBuf' = Tail(itoaBuf)
             /\ delivered' = Append(delivered, itoaBuf[1])
    <3>1. /\ Len(itoaBuf) >= 1 /\ Len(itoaBuf') = Len(itoaBuf) - 1
          /\ \A i \in 1 .. Len(itoaBuf') : itoaBuf'[i] = itoaBuf[i + 1]
      BY <1>0, <2>2
    <3>2. itoaBuf[1] = completed[Len(delivered) + 1] /\ itoaBuf[1] \in Seq(Byte)
      BY <1>0, <1>1, <3>1
    <3>3. /\ Len(delivered') = Len(delivered) + 1
          /\ delivered'[Len(delivered) + 1] = itoaBuf[1]
          /\ \A i \in 1 .. Len(delivered) : delivered'[i] = delivered[i]
      BY <1>0, <2>2, <3>2
    <3>4. ASSUME NEW i \in 1 .. Len(delivered')
          PROVE  delivered'[i] = completed[i]
      <4>1. i \in 1 .. Len(delivered) \/ i = Len(delivered) + 1
        BY <1>0, <3>3
      <4> QED BY <1>1, <3>2, <3>3, <4>1
    <3>5. ASSUME NEW i \in 1 .. Len(itoaBuf')
          PROVE  itoaBuf'[i] = completed[Len(delivered') + i]
      <4>1. i + 1 \in 1 .. Len(itoaBuf)
            /\ Len(delivered') + i = Len(delivered) + (i + 1)
        BY <1>0, <3>1, <3>3
      <4>2. itoaBuf'[i] = itoaBuf[i + 1]
        BY <3>1
      <4>3. itoaBuf[i + 1] = completed[Len(delivered) + (i + 1)]
        BY <1>1, <4>1
      <4> QED BY <4>1, <4>2, <4>3
    <3>6. Got' <= Len(completed)
      BY <2>1 DEF OrderInv
    <3> QED BY <2>1, <3>4, <3>5, <3>6 DEF OrderInv
  <2> QED BY <1>2, <2>1, <2>2
<1> QED
  BY <1>2, <1>3, <1>4, <1>5
     DEF Next, SenderStep, ReceiverStep, ProcessStep, ClosingStep, Send,
         DrainAllowance, SendTransferLost, SendClosed, SendTimeout,
         SendSignalled, RecvClosed, RecvTimeout, RecvReturns, RecvSignalled,
         HandleTunnelAllowance, HandleAllowance, HandleTunnelTransfer, Close,
         CloseReturns, HandleTunnelClose, ConnectionDrop, HandleClose,
         receiver, history, vars

StreamInv(s) == TypeInv /\ SendInv /\ PipeInv(s) /\ OrderInv

LEMMA InitStreamInv ==
  ASSUME NEW s0, Senders = {s0}
  PROVE  Init => StreamInv(s0)
<1> SUFFICES ASSUME Init PROVE StreamInv(s0)
  OBVIOUS
<1>1. SendInv
  BY DEF Init, SendInv
<1>2. Got = 0 /\ Len(completed) = 0
  BY DEF Init, Got
<1>3. PipeInv(s0)
  <2>1. Cursor(s0).pos = 0 /\ Cursor(s0).ord = 0
    BY <1>2 DEF Init, Cursor
  <2>2. HandOK /\ WireOK /\ FirstOK /\ LastOK(s0)
    BY DEF Init, HandOK, WireOK, FirstOK, LastOK
  <2>3. NoneOK(s0)
    BY <1>2, <2>1 DEF Init, NoneOK, Continues, Ready
  <2> QED BY <2>2, <2>3 DEF PipeInv
<1>4. OrderInv
  BY <1>2 DEF Init, OrderInv
<1> QED BY <1>1, <1>3, <1>4, InitTypeInv DEF StreamInv

LEMMA NextStreamInv ==
  ASSUME NEW s0, Senders = {s0}
  PROVE  StreamInv(s0) /\ [Next]_vars => StreamInv(s0)'
<1> SUFFICES ASSUME StreamInv(s0), [Next]_vars PROVE StreamInv(s0)'
  OBVIOUS
<1>1. TypeInv /\ SendInv /\ PipeInv(s0) /\ OrderInv /\ HandOK
  BY DEF StreamInv, PipeInv
<1>2. TypeInv' /\ SendInv'
  BY <1>1, NextTypeInv, NextSendInv
<1>3. PipeInv(s0)'
  BY <1>1, NextPipeInv
<1>4. OrderInv'
  BY <1>1, NextOrderInv
<1> QED BY <1>2, <1>3, <1>4 DEF StreamInv

\* The ordering promise of the type Tunnel, with one goroutine at a time in Send
\* and any number in Recv: what Recv has returned is what was transferred in
\* full, in the order of the sends, whatever timeouts cut short messages, and
\* also while the tunnel is torn down and after it.
THEOREM DeliveryIsOrdered ==
  ASSUME NEW s0, Senders = {s0}
  PROVE  Spec => []OrderedDelivery
<1>1. Init => StreamInv(s0)
  BY InitStreamInv
<1>2. StreamInv(s0) /\ [Next]_vars => StreamInv(s0)'
  BY NextStreamInv
<1>3. StreamInv(s0) => OrderedDelivery
  <2> SUFFICES ASSUME StreamInv(s0) PROVE OrderedDelivery
    OBVIOUS
  <2>1. /\ completed \in Seq(Seq(Byte)) /\ delivered \in Seq(Seq(Byte))
        /\ Len(itoaBuf) \in Nat
    BY DEF StreamInv, TypeInv, TypeOK
  <2>2. /\ Len(delivered) <= Len(completed)
        /\ \A i \in 1 .. Len(delivered) : delivered[i] = completed[i]
    BY <2>1 DEF StreamInv, OrderInv, Got
  <2>3. SubSeq(delivered, 1, Len(delivered)) = SubSeq(completed, 1, Len(delivered))
    BY <2>1, <2>2
  <2> QED BY <2>2, <2>3 DEF OrderedDelivery, IsPrefix
<1> QED BY <1>1, <1>2, <1>3, PTL DEF Spec

\* A tunnel with one sender implements the safety part of what MessageStream
\* promises: the last transfer of a message is a Put, fetchMessage is a Get of
\* the next message that was put, the first tear-down is Shut, and every other
\* step of the code leaves the stream as it is.
THEOREM TunnelIsAStream ==
  ASSUME NEW s0, Senders = {s0}
  PROVE  Spec => Stream!Spec
<1>1. Init => StreamInv(s0)
  BY InitStreamInv
<1>2. StreamInv(s0) /\ [Next]_vars => StreamInv(s0)'
  BY NextStreamInv
<1>3. Init => Stream!Init
  BY DEF Init, Stream!Init
<1>4. StreamInv(s0) /\ [Next]_vars => [Stream!Next]_(Stream!vars)
  <2> SUFFICES ASSUME StreamInv(s0), [Next]_vars
               PROVE  Stream!Next \/ UNCHANGED Stream!vars
    OBVIOUS
  <2>0. TypeInv /\ SendInv /\ OrderInv
    BY DEF StreamInv
  <2>1. CASE UNCHANGED <<completed, delivered, closing>>
    BY <2>1 DEF Stream!vars
  <2>2. ASSUME NEW s \in Senders, SendTunnelTransfer(s)
        PROVE  Stream!Next \/ UNCHANGED Stream!vars
    <3>1. UNCHANGED <<delivered, closing>>
      BY <2>2 DEF SendTunnelTransfer, closers
    <3>2. \E m \in 1 .. MaxSends, n \in Lengths : sndMsg[s] = Message(m, n)
      BY <2>0, <2>2 DEF SendInv, SendTunnelTransfer
    <3>3. CASE completed' = Append(completed, sndMsg[s])
      BY <3>1, <3>2, <3>3 DEF Stream!Next, Stream!Put
    <3> QED BY <2>1, <2>2, <3>1, <3>3 DEF SendTunnelTransfer
  <2>3. ASSUME NEW r \in Receivers, Recv(r) \/ RecvSignalledFetch(r)
        PROVE  Stream!Next \/ UNCHANGED Stream!vars
    <3>1. /\ UNCHANGED <<completed, closing>>
          /\ \/ delivered' = delivered
             \/ itoaBuf # <<>> /\ delivered' = Append(delivered, itoaBuf[1])
      BY <2>0, <2>3, FetchSteps
    <3>2. CASE itoaBuf # <<>> /\ delivered' = Append(delivered, itoaBuf[1])
      <4>1. Len(itoaBuf) \in Nat /\ Len(itoaBuf) >= 1 /\ Len(delivered) \in Nat
            /\ Len(completed) \in Nat
        BY <2>0, <3>2 DEF TypeInv, TypeOK
      <4>2. itoaBuf[1] = completed[Len(delivered) + 1]
        BY <2>0, <4>1 DEF OrderInv
      <4>3. Len(delivered) < Len(completed)
        BY <2>0, <4>1 DEF OrderInv, Got
      <4> QED BY <3>1, <3>2, <4>2, <4>3 DEF Stream!Next, Stream!Get
    <3> QED BY <2>1, <3>1, <3>2
  <2>4. ASSUME NEW e \in Ends, ClosingStep(e)
        PROVE  Stream!Next \/ UNCHANGED Stream!vars
    <3>1. /\ UNCHANGED <<completed, delivered>>
          /\ closing' = closing \/ closing' = TRUE
      BY <2>4 DEF ClosingStep, Close, CloseReturns, HandleTunnelClose,
           ConnectionDrop, HandleClose, history
    <3>2. closing \in BOOLEAN
      BY <2>0 DEF TypeInv, TypeOK
    <3>3. CASE ~closing /\ closing' = TRUE
      BY <3>1, <3>3 DEF Stream!Next, Stream!Shut
    <3> QED BY <2>1, <3>1, <3>2, <3>3
  <2> QED
    BY <2>1, <2>2, <2>3, <2>4
       DEF Next, SenderStep, ReceiverStep, ProcessStep, Send, DrainAllowance,
           SendTransferLost, SendClosed, SendTimeout, SendSignalled,
           RecvClosed, RecvTimeout, RecvReturns, RecvSignalled,
           HandleTunnelAllowance, HandleAllowance, HandleTunnelTransfer,
           HandleTransfer, closers, history, vars
<1> QED BY <1>1, <1>2, <1>3, <1>4, PTL DEF Spec, Stream!Spec
=============================================================================
