------------------------------- MODULE Tunnel -------------------------------
(***************************************************************************)
(* Data transfer over one established tunnel (tunnel.go), in one direction: *)
(* the end "S" runs Send, the end "R" runs Recv.  The two directions of a   *)
(* tunnel share nothing but their termination, so one is enough.            *)
(*                                                                         *)
(* Goroutines: the application's senders and receivers, one connection     *)
(* process() goroutine per end, the closers.  A step is what a goroutine    *)
(* does between two points where another one can be noticed: the sections   *)
(* under atoiLock, itoaLock and tunLock are single steps, everything the    *)
(* code leaves unlocked is split.                                          *)
(*                                                                         *)
(* The relay between the two ends is external.  It keeps the order of the  *)
(* transfers, adds up the allowances (no code depends on how they are cut   *)
(* into packets) and answers a tear-down with a notification to both ends.  *)
(***************************************************************************)
EXTENDS Integers, Sequences, SequencesExt, Totals

CONSTANTS
  Senders,     \* goroutines that call Send at the end "S"
  Receivers,   \* goroutines that call Recv at the end "R"
  Lengths,     \* lengths of the messages the application sends
  ChunkLimit,  \* Tunnel.chunkLimit, chosen by the relay
  Buffer,      \* defaultTunnelBuffer
  MaxSends,    \* bound: calls of Send
  GrowSlack    \* bound: spare capacity append may add when it reallocates

ASSUME TunnelAssumption ==
  /\ Lengths \subseteq Nat \ {0}
  /\ ChunkLimit \in Nat \ {0}
  /\ Buffer \in Nat \ {0}
  /\ MaxSends \in Nat
  /\ GrowSlack \in Nat

VARIABLES
  atoiSpace,   \* S: allowance left
  atoiSign,    \* S: the one-slot channel that signals a grant
  sndPc,       \* S: where each sender is
  sndMsg,      \* S: message of each running Send
  sndPos,      \* S: bytes of it already cut into chunks
  procS,       \* S: allowance process() has read for the live tunnel, 0 if none
  wire,        \* transfers on their way from S to R
  allowance,   \* bytes granted by R and not yet read at S
  procR,       \* R: transfer process() has read for the live tunnel
  chunkBuf,    \* R: bytes of the message being assembled
  chunkCap,    \* R: capacity of chunkBuf, 0 while it is nil
  itoaBuf,     \* R: assembled messages
  itoaSign,    \* R: the one-slot channel that signals an arrival
  rcvPc,       \* R: where each receiver is
  term,        \* per end: the term channel is closed
  link,        \* per end: the connection to the relay is up
  closing,     \* the relay is tearing the tunnel down
  closePc,     \* per end: where the caller of Close is
  sends,       \* history: calls of Send, the identity of messages
  drained,     \* history: bytes of allowance used up
  wired,       \* history: bytes put on the wire
  arrived,     \* history: bytes taken off the wire
  freed,       \* history: bytes R no longer holds
  completed,   \* history: messages whose last chunk was transferred
  delivered    \* history: messages Recv has returned

sender   == <<atoiSpace, atoiSign, sndPc, sndMsg, sndPos>>
receiver == <<chunkBuf, chunkCap, itoaBuf, itoaSign, rcvPc>>
channels == <<wire, allowance>>
closers  == <<term, link, closing, closePc>>
history  == <<sends, drained, wired, arrived, freed, completed, delivered>>
vars == <<sender, receiver, channels, procS, procR, closers, history>>

Ends == {"S", "R"}
Byte == (1 .. MaxSends) \X Nat     \* message and position in it

\* A transfer; its message, the place of the chunk in it and the number of
\* messages completed before it are history.
Packet == [size : Nat, chunk : Seq(Byte), msg : Seq(Byte), pos : Nat, ord : Nat]

\* The content of the n bytes of message m.
Message(m, n) == [i \in 1 .. n |-> <<m, i>>]

-----------------------------------------------------------------------------
(* State after initTunnel and acceptTunnel: each end has sent its buffer    *)
(* size to the other one as the first allowance.                           *)

Init ==
  /\ atoiSpace = 0 /\ atoiSign = FALSE
  /\ sndPc = [s \in Senders |-> "idle"]
  /\ sndMsg = [s \in Senders |-> <<>>]
  /\ sndPos = [s \in Senders |-> 0]
  /\ procS = 0 /\ procR = <<>>
  /\ wire = <<>> /\ allowance = Buffer
  /\ chunkBuf = <<>> /\ chunkCap = 0
  /\ itoaBuf = <<>> /\ itoaSign = FALSE
  /\ rcvPc = [r \in Receivers |-> "idle"]
  /\ term = [e \in Ends |-> FALSE]
  /\ link = [e \in Ends |-> TRUE]
  /\ closing = FALSE
  /\ closePc = [e \in Ends |-> "idle"]
  /\ sends = 0 /\ drained = 0 /\ wired = 0 /\ arrived = 0 /\ freed = 0
  /\ completed = <<>> /\ delivered = <<>>

-----------------------------------------------------------------------------
(* Send.  A sender in "chunk" is at the head of the loop of sendChunk, in   *)
(* "transfer" it holds a drained allowance, in "wait" it is in the select.  *)

ChunkEnd(s) ==
  IF sndPos[s] + ChunkLimit > Len(sndMsg[s]) THEN Len(sndMsg[s])
                                             ELSE sndPos[s] + ChunkLimit
Chunk(s) == SubSeq(sndMsg[s], sndPos[s] + 1, ChunkEnd(s))
Need(s)  == ChunkEnd(s) - sndPos[s]
SizeOrCont(s) == IF sndPos[s] = 0 THEN Len(sndMsg[s]) ELSE 0

\* mutant: a chunk one byte larger than the allowance passes.
EnoughSpaceOffByOne(s) == atoiSpace + 1 >= Need(s)

EnoughSpace(s) == atoiSpace >= Need(s)

SendReturns(s) ==
  /\ sndPc' = [sndPc EXCEPT ![s] = "idle"]
  /\ sndMsg' = [sndMsg EXCEPT ![s] = <<>>]
  /\ sndPos' = [sndPos EXCEPT ![s] = 0]

Send(s, n) ==
  /\ sndPc[s] = "idle"
  /\ sends < MaxSends
  /\ sends' = sends + 1
  /\ sndMsg' = [sndMsg EXCEPT ![s] = Message(sends + 1, n)]
  /\ sndPc' = [sndPc EXCEPT ![s] = "chunk"]
  /\ UNCHANGED <<atoiSpace, atoiSign, sndPos, receiver, channels, procS,
                 procR, closers, drained, wired, arrived, freed, completed,
                 delivered>>

\* drainAllowance, and where sendChunk goes from there.
DrainAllowance(s) ==
  /\ sndPc[s] = "chunk"
  /\ \/ /\ EnoughSpace(s)
        /\ atoiSpace' = atoiSpace - Need(s)
        /\ drained' = drained + Need(s)
        /\ sndPc' = [sndPc EXCEPT ![s] = "transfer"]
        /\ UNCHANGED atoiSign
     \/ /\ ~EnoughSpace(s)
        /\ atoiSign' = FALSE
        /\ sndPc' = [sndPc EXCEPT ![s] = "wait"]
        /\ UNCHANGED <<atoiSpace, drained>>
  /\ UNCHANGED <<sndMsg, sndPos, receiver, channels, procS, procR, closers,
                 sends, wired, arrived, freed, completed, delivered>>

\* The loop of Send moves on to the next chunk, or returns after the last.
NextChunk(s) ==
  IF ChunkEnd(s) = Len(sndMsg[s])
  THEN SendReturns(s)
  ELSE /\ sndPos' = [sndPos EXCEPT ![s] = ChunkEnd(s)]
       /\ sndPc' = [sndPc EXCEPT ![s] = "chunk"]
       /\ UNCHANGED sndMsg

\* sendTunnelTransfer over a connection that is up.
SendTunnelTransfer(s) ==
  /\ sndPc[s] = "transfer"
  /\ link["S"]
  /\ wire' = Append(wire, [size |-> SizeOrCont(s), chunk |-> Chunk(s),
                           msg |-> sndMsg[s], pos |-> sndPos[s],
                           ord |-> Len(completed)])
  /\ wired' = wired + Need(s)
  /\ completed' = IF ChunkEnd(s) = Len(sndMsg[s])
                  THEN Append(completed, sndMsg[s]) ELSE completed
  /\ NextChunk(s)
  /\ UNCHANGED <<atoiSpace, atoiSign, receiver, allowance, procS, procR,
                 closers, sends, drained, arrived, freed, delivered>>

\* sendTunnelTransfer after the connection went down: the flush fails, or the
\* packet stays in the write buffer for good because another write is pending.
SendTransferLost(s) ==
  /\ sndPc[s] = "transfer"
  /\ ~link["S"]
  /\ SendReturns(s) \/ NextChunk(s)
  /\ UNCHANGED <<atoiSpace, atoiSign, receiver, channels, procS, procR,
                 closers, history>>

\* The select of sendChunk.
SendClosed(s) ==
  /\ sndPc[s] = "wait"
  /\ term["S"]
  /\ SendReturns(s)
  /\ UNCHANGED <<atoiSpace, atoiSign, receiver, channels, procS, procR,
                 closers, history>>

SendTimeout(s) ==
  /\ sndPc[s] = "wait"
  /\ SendReturns(s)
  /\ UNCHANGED <<atoiSpace, atoiSign, receiver, channels, procS, procR,
                 closers, history>>

SendSignalled(s) ==
  /\ sndPc[s] = "wait"
  /\ atoiSign
  /\ atoiSign' = FALSE
  /\ sndPc' = [sndPc EXCEPT ![s] = "chunk"]
  /\ UNCHANGED <<atoiSpace, sndMsg, sndPos, receiver, channels, procS, procR,
                 closers, history>>

\* process() at S reads an allowance and looks the tunnel up ...
HandleTunnelAllowance(space) ==
  /\ link["S"] /\ procS = 0
  /\ allowance' = allowance - space
  /\ procS' = IF term["S"] THEN 0 ELSE space
  /\ UNCHANGED <<sender, receiver, wire, procR, closers, history>>

\* mutant: the grant does not wake the sender.
HandleAllowanceSilent ==
  /\ procS > 0
  /\ atoiSpace' = atoiSpace + procS
  /\ procS' = 0
  /\ UNCHANGED <<atoiSign, sndPc, sndMsg, sndPos, receiver, channels, procR,
                 closers, history>>

\* ... and hands it to the tunnel it found.
HandleAllowance ==
  /\ procS > 0
  /\ atoiSpace' = atoiSpace + procS
  /\ atoiSign' = TRUE
  /\ procS' = 0
  /\ UNCHANGED <<sndPc, sndMsg, sndPos, receiver, channels, procR, closers,
                 history>>

-----------------------------------------------------------------------------
(* Receiving.                                                              *)

\* sendTunnelAllowance from the goroutine that gives n bytes back.
Grant(n) == IF link["R"] THEN allowance + n ELSE allowance

\* process() at R reads a transfer and looks the tunnel up ...
HandleTunnelTransfer ==
  /\ link["R"] /\ procR = <<>> /\ wire # <<>>
  /\ wire' = Tail(wire)
  /\ arrived' = arrived + Len(Head(wire).chunk)
  /\ IF term["R"]
     THEN procR' = <<>> /\ freed' = freed + Len(Head(wire).chunk)
     ELSE procR' = <<Head(wire)>> /\ UNCHANGED freed
  /\ UNCHANGED <<sender, receiver, allowance, procS, closers, sends, drained,
                 wired, completed, delivered>>

\* Capacity of a slice of capacity cap after appending up to n bytes: append
\* reallocates only when it must, to a size the Go runtime chooses.
Capacities(n, cap) == IF n <= cap THEN {cap} ELSE n .. n + GrowSlack

\* mutant: the unfinished message is kept.
AssembledKeep(p) == chunkBuf \o p.chunk

\* What a transfer is appended to: a new message replaces an unfinished one.
Assembled(p) == IF p.size # 0 THEN p.chunk ELSE chunkBuf \o p.chunk

\* mutants: the whole message's size is granted back, or nothing is.
DiscardedCap(p)  == IF p.size # 0 THEN chunkCap ELSE 0
DiscardedLeak(p) == 0

\* Bytes of an unfinished message that the transfer p discards.
Discarded(p) == IF p.size # 0 THEN Len(chunkBuf) ELSE 0

\* mutants: the message does not wake the receiver, or the buffer has one slot.
EnqueueOverwrite(msg) == itoaBuf' = <<msg>> /\ itoaSign' = TRUE

EnqueueSilent(msg) ==
  itoaBuf' = Append(itoaBuf, msg) /\ UNCHANGED itoaSign

Enqueue(msg) ==
  itoaBuf' = Append(itoaBuf, msg) /\ itoaSign' = TRUE

\* ... and hands it to the tunnel it found.
HandleTransfer ==
  /\ procR # <<>>
  /\ LET p == Head(procR) IN
     /\ \E cap \in Capacities(Len(Assembled(p)),
                              IF p.size # 0 THEN p.size ELSE chunkCap) :
          IF Len(Assembled(p)) = cap
          THEN /\ Enqueue(Assembled(p))
               /\ chunkBuf' = <<>> /\ chunkCap' = 0
          ELSE /\ chunkBuf' = Assembled(p) /\ chunkCap' = cap
               /\ UNCHANGED <<itoaBuf, itoaSign>>
     /\ allowance' = Grant(Discarded(p))
     /\ freed' = freed + (Len(chunkBuf) + Len(p.chunk) - Len(Assembled(p)))
  /\ procR' = <<>>
  /\ UNCHANGED <<sender, rcvPc, wire, procS, closers, sends, drained, wired,
                 arrived, completed, delivered>>

\* fetchMessage with a message in the buffer, which the caller returns.
FetchMessage(r) ==
  /\ itoaBuf # <<>>
  /\ itoaBuf' = Tail(itoaBuf)
  /\ allowance' = Grant(Len(Head(itoaBuf)))
  /\ freed' = freed + Len(Head(itoaBuf))
  /\ delivered' = Append(delivered, Head(itoaBuf))
  /\ rcvPc' = [rcvPc EXCEPT ![r] = "idle"]
  /\ UNCHANGED itoaSign

\* mutant: the flag is not reset.
FetchNothingStale(r, pc) ==
  /\ itoaBuf = <<>>
  /\ rcvPc' = [rcvPc EXCEPT ![r] = pc]
  /\ UNCHANGED <<itoaBuf, itoaSign, allowance, freed, delivered>>

\* fetchMessage with an empty buffer: reset the flag, go on at pc.
FetchNothing(r, pc) ==
  /\ itoaBuf = <<>>
  /\ itoaSign' = FALSE
  /\ rcvPc' = [rcvPc EXCEPT ![r] = pc]
  /\ UNCHANGED <<itoaBuf, allowance, freed, delivered>>

Recv(r) ==
  /\ rcvPc[r] = "idle"
  /\ FetchMessage(r) \/ FetchNothing(r, "wait")
  /\ UNCHANGED <<sender, chunkBuf, chunkCap, wire, procS, procR, closers,
                 sends, drained, wired, arrived, completed>>

\* The select of Recv.
RecvReturns(r) ==
  /\ rcvPc[r] = "wait"
  /\ rcvPc' = [rcvPc EXCEPT ![r] = "idle"]
  /\ UNCHANGED <<sender, chunkBuf, chunkCap, itoaBuf, itoaSign, channels,
                 procS, procR, closers, history>>

\* mutant: a blocked Recv does not watch the term channel.
RecvClosedUnwatched(r) == FALSE /\ RecvReturns(r)

RecvClosed(r)  == term["R"] /\ RecvReturns(r)
RecvTimeout(r) == RecvReturns(r)

RecvSignalled(r) ==
  /\ rcvPc[r] = "wait"
  /\ itoaSign
  /\ itoaSign' = FALSE
  /\ rcvPc' = [rcvPc EXCEPT ![r] = "signalled"]
  /\ UNCHANGED <<sender, chunkBuf, chunkCap, itoaBuf, channels, procS, procR,
                 closers, history>>

\* After the signal: the message, or panic("signal raised but ...").
RecvSignalledFetch(r) ==
  /\ rcvPc[r] = "signalled"
  /\ FetchMessage(r) \/ FetchNothing(r, "panic")
  /\ UNCHANGED <<sender, chunkBuf, chunkCap, wire, procS, procR, closers,
                 sends, drained, wired, arrived, completed>>

-----------------------------------------------------------------------------
(* Termination.                                                            *)

\* Close: tell the relay and wait.  A Close of a tunnel that is closed already,
\* or whose request cannot be sent, returns at once and is no step.
Close(e) ==
  /\ closePc[e] = "idle"
  /\ ~term[e]
  /\ closing' = TRUE
  /\ closePc' = [closePc EXCEPT ![e] = "wait"]
  /\ UNCHANGED <<sender, receiver, channels, procS, procR, term, link,
                 history>>

CloseReturns(e) ==
  /\ closePc[e] = "wait"
  /\ term[e]
  /\ closePc' = [closePc EXCEPT ![e] = "idle"]
  /\ UNCHANGED <<sender, receiver, channels, procS, procR, term, link,
                 closing, history>>

\* The goroutine that serves the relay's tear-down notification.
HandleTunnelClose(e) ==
  /\ closing /\ link[e] /\ ~term[e]
  /\ term' = [term EXCEPT ![e] = TRUE]
  /\ UNCHANGED <<sender, receiver, channels, procS, procR, link, closing,
                 closePc, history>>

\* process() leaves its loop and closes the socket; the relay notices.
ConnectionDrop(e) ==
  /\ link[e]
  /\ e = "S" => procS = 0
  /\ e = "R" => procR = <<>>
  /\ link' = [link EXCEPT ![e] = FALSE]
  /\ closing' = TRUE
  /\ UNCHANGED <<sender, receiver, channels, procS, procR, term, closePc,
                 history>>

\* mutant: the tunnels of a lost connection are dropped, not closed.
HandleCloseDrops(e) ==
  /\ ~link[e] /\ ~term[e]
  /\ UNCHANGED vars

\* Connection.handleClose closes the tunnels that are still live.
HandleClose(e) ==
  /\ ~link[e] /\ ~term[e]
  /\ term' = [term EXCEPT ![e] = TRUE]
  /\ UNCHANGED <<sender, receiver, channels, procS, procR, link, closing,
                 closePc, history>>

-----------------------------------------------------------------------------
SenderStep(s) ==
  \/ \E n \in Lengths : Send(s, n)
  \/ DrainAllowance(s)
  \/ SendTunnelTransfer(s)
  \/ SendTransferLost(s)
  \/ SendClosed(s)
  \/ SendTimeout(s)
  \/ SendSignalled(s)

ReceiverStep(r) ==
  \/ Recv(r)
  \/ RecvClosed(r)
  \/ RecvTimeout(r)
  \/ RecvSignalled(r)
  \/ RecvSignalledFetch(r)

ProcessStep ==
  \/ \E space \in 1 .. allowance : HandleTunnelAllowance(space)
  \/ HandleAllowance
  \/ HandleTunnelTransfer
  \/ HandleTransfer

ClosingStep(e) ==
  \/ Close(e)
  \/ CloseReturns(e)
  \/ HandleTunnelClose(e)
  \/ ConnectionDrop(e)
  \/ HandleClose(e)

Next ==
  \/ \E s \in Senders : SenderStep(s)
  \/ \E r \in Receivers : ReceiverStep(r)
  \/ ProcessStep
  \/ \E e \in Ends : ClosingStep(e)

Spec == Init /\ [][Next]_vars

\* Goroutines that can run do run, the relay forwards what it holds, and the
\* receiving application keeps calling Recv.  Nobody has to send, to close or
\* to lose a connection, and no operation has to have a timeout.
Fairness ==
  /\ \A s \in Senders :
       /\ WF_vars(DrainAllowance(s))
       /\ WF_vars(SendTunnelTransfer(s) \/ SendTransferLost(s))
       /\ WF_vars(SendClosed(s) \/ SendSignalled(s))
  /\ \A r \in Receivers :
       /\ WF_vars(Recv(r))
       /\ WF_vars(RecvClosed(r) \/ RecvSignalled(r))
       /\ WF_vars(RecvSignalledFetch(r))
  /\ WF_vars(\E space \in 1 .. allowance : HandleTunnelAllowance(space))
  /\ WF_vars(HandleAllowance)
  /\ WF_vars(HandleTunnelTransfer)
  /\ WF_vars(HandleTransfer)
  /\ \A e \in Ends :
       /\ WF_vars(CloseReturns(e))
       /\ WF_vars(HandleTunnelClose(e))
       /\ WF_vars(HandleClose(e))

FairSpec == Spec /\ Fairness

-----------------------------------------------------------------------------
(* Properties.                                                             *)

\* The type invariant of the tunnel's fields, channels and histories.
TypeOK ==
  /\ atoiSpace \in Nat /\ atoiSign \in BOOLEAN
  /\ sndPc \in [Senders -> {"idle", "chunk", "transfer", "wait"}]
  /\ sndMsg \in [Senders -> Seq(Byte)]
  /\ sndPos \in [Senders -> Nat]
  /\ procS \in Nat /\ procR \in Seq(Packet) /\ Len(procR) <= 1
  /\ wire \in Seq(Packet) /\ allowance \in Nat
  /\ chunkBuf \in Seq(Byte) /\ chunkCap \in Nat
  /\ itoaBuf \in Seq(Seq(Byte)) /\ itoaSign \in BOOLEAN
  /\ rcvPc \in [Receivers -> {"idle", "wait", "signalled", "panic"}]
  /\ term \in [Ends -> BOOLEAN] /\ link \in [Ends -> BOOLEAN]
  /\ closing \in BOOLEAN /\ closePc \in [Ends -> {"idle", "wait"}]
  /\ sends \in 0 .. MaxSends
  /\ drained \in Nat /\ wired \in Nat /\ arrived \in Nat /\ freed \in Nat
  /\ completed \in Seq(Seq(Byte)) /\ delivered \in Seq(Seq(Byte))

\* The assertion in Recv: a receiver that took the arrival signal finds a
\* message, so panic("signal raised but message unavailable") is unreachable.
NoPanic == \A r \in Receivers : rcvPc[r] # "panic"

\* A Send that blocks in the select although the allowance covers its chunk
\* has a grant signal waiting: drainAllowance's reset of atoiSign never eats
\* the signal of a grant it has not seen.
SendNotForgotten ==
  \A s \in Senders : sndPc[s] = "wait" /\ atoiSpace >= Need(s) => atoiSign

\* A Recv that blocks in the select although a message is buffered has an
\* arrival signal waiting: fetchMessage's reset of itoaSign never eats the
\* signal of a message it has not seen.
RecvNotForgotten ==
  \A r \in Receivers : rcvPc[r] = "wait" /\ itoaBuf # <<>> => itoaSign

\* Bytes in a sequence of byte strings.
Bytes(strings) == Total([i \in 1 .. Len(strings) |-> Len(strings[i])])

\* Bytes R holds: the message in assembly, the transfer process() has in hand
\* and the messages waiting for Recv.
Held ==
  Len(chunkBuf) + Bytes(itoaBuf)
  + (IF procR = <<>> THEN 0 ELSE Len(Head(procR).chunk))

\* The counters of the next two properties mean what they say: what arrived
\* and was not freed is exactly what R holds, so no byte is lost or kept twice.
HeldExactly == Held = arrived - freed

\* The throttling promise: whatever the sender does, and however messages are
\* cut short by timeouts, R never holds more than defaultTunnelBuffer bytes.
BufferBounded == arrived - freed <= Buffer

\* No allowance leaks and none is minted: while the tunnel is up, what was
\* used up, what S may still use and what is on its way to S add up to the
\* buffer plus what R has freed, also after timed out and discarded messages.
AllowanceConserved ==
  ~closing => drained + atoiSpace + procS + allowance = Buffer + freed

\* The ordering promise of the type Tunnel: Recv returns exactly the messages
\* that were transferred in full, unmixed, once, in the order of the sends.
OrderedDelivery == IsPrefix(delivered, completed)

\* A Send that never returns has no room for good: the unfinished message of an
\* earlier Send, which only the first chunk of a new message makes R discard,
\* or its own, leaves too little of the buffer for its chunk.  Nothing else
\* holds a Send up for ever: no grant, signal or close passes it by.
SendReturnsUnlessStarved ==
  \A s \in Senders :
    <>[](sndPc[s] # "idle") => <>[](Len(chunkBuf) + Need(s) > Buffer)

\* "A tunnel remains operational even after overloads (partially transferred
\* huge messages timeouting)": a Send whose message fits the buffer returns,
\* whatever was sent before it.
OperationalAfterOverload ==
  \A s \in Senders :
    sndPc[s] # "idle" /\ Len(sndMsg[s]) <= Buffer ~> sndPc[s] = "idle"

\* Close promises that blocked reads terminate; they do once term is closed.
ClosedRecvTerminates ==
  \A r \in Receivers : term["R"] /\ rcvPc[r] = "wait" ~> rcvPc[r] = "idle"

\* Close returns: the acknowledgement of the relay, the other end's Close and
\* a lost connection all close the term channel it waits for.
CloseTerminates ==
  \A e \in Ends : closePc[e] = "wait" ~> closePc[e] = "idle"

\* What a tunnel promises to the applications at its ends (see the module
\* MessageStream): reliable ordered delivery of whole messages while open.
Stream == INSTANCE MessageStream WITH
            Messages <- {Message(m, n) : m \in 1 .. MaxSends, n \in Lengths},
            accepted <- completed, received <- delivered, open <- ~closing

StreamSpec == Stream!FairSpec
=============================================================================
