----------------------------- MODULE SendPacket -----------------------------
(***************************************************************************)
(* Outbound packets of one connection (proto.go, sendPacket and the send*   *)
(* functions that call it).  Every operation of the binding, and every      *)
(* goroutine it spawns, writes its packet under sockLock into one buffered  *)
(* writer; a counter of pending writers decides who flushes the buffer.     *)
(*                                                                         *)
(* The unit of writing is a field of a packet.  The buffered writer is      *)
(* external (package bufio): it flushes by itself when it is full, and its  *)
(* first failed write makes every later one fail.                          *)
(***************************************************************************)
EXTENDS Integers, Sequences, FiniteSets

CONSTANTS
  Writers,      \* goroutines that send packets
  Kinds,        \* kinds of packets they send
  Capacity,     \* fields the buffered writer can hold
  MaxPackets    \* bound: packets sent

\* The fields each send* function writes, the opcode first.  A reply carries
\* a success flag and then either the reply or the fault.
Fields ==
  [init        |-> <<"op", "magic", "version", "cluster">>,
   close       |-> <<"op">>,
   broadcast   |-> <<"op", "cluster", "message">>,
   request     |-> <<"op", "id", "cluster", "request", "timeout">>,
   reply       |-> <<"op", "id", "success", "reply">>,
   fault       |-> <<"op", "id", "success", "fault">>,
   subscribe   |-> <<"op", "topic">>,
   unsubscribe |-> <<"op", "topic">>,
   publish     |-> <<"op", "topic", "event">>,
   tunInit     |-> <<"op", "id", "cluster", "timeout">>,
   tunConfirm  |-> <<"op", "buildId", "tunId">>,
   tunAllow    |-> <<"op", "id", "space">>,
   tunTransfer |-> <<"op", "id", "sizeOrCont", "payload">>,
   tunClose    |-> <<"op", "id">>]

ASSUME SendPacketAssumption ==
  /\ IsFiniteSet(Writers)
  /\ Kinds \subseteq DOMAIN Fields
  /\ Capacity \in Nat \ {0}
  /\ MaxPackets \in Nat

VARIABLES
  sockWait,   \* pending writes
  holder,     \* who holds sockLock: a set of at most one writer
  sockBuf,    \* fields in the buffered writer
  sockErr,    \* the buffered writer has failed
  net,        \* fields that reached the relay
  broken,     \* the socket is closed, by process() or by the relay
  pc,         \* where each writer is
  pkt,        \* packet of each writer
  field,      \* field of it to be written next
  kind,       \* history: kind of every packet sent so far
  accepted    \* history: packets whose send returned nil

vars == <<sockWait, holder, sockBuf, sockErr, net, broken, pc, pkt, field,
          kind, accepted>>

Init ==
  /\ sockWait = 0 /\ holder = {}
  /\ sockBuf = <<>> /\ sockErr = FALSE
  /\ net = <<>> /\ broken = FALSE
  /\ pc = [w \in Writers |-> "idle"]
  /\ pkt = [w \in Writers |-> 0]
  /\ field = [w \in Writers |-> 0]
  /\ kind = <<>> /\ accepted = {}

Arity(p) == Len(Fields[kind[p]])

-----------------------------------------------------------------------------
(* The buffered writer.  What a field makes it do depends on their sizes,   *)
(* which are left open: any field may fit or not, as long as there is room. *)

\* The field u is stored.
Stored(u) ==
  /\ Len(sockBuf) < Capacity
  /\ sockBuf' = Append(sockBuf, u)
  /\ UNCHANGED net

\* The buffer is sent to make room for u, which is then stored or sent, too.
Spilled(u) ==
  /\ ~broken
  /\ \/ net' = net \o sockBuf /\ sockBuf' = <<u>>
     \/ net' = net \o Append(sockBuf, u) /\ sockBuf' = <<>>

\* A write to the closed socket fails after sending at most n fields.
SocketFails(n) ==
  /\ broken
  /\ \E m \in 0 .. n :
       /\ net' = net \o SubSeq(sockBuf, 1, m)
       /\ sockBuf' = SubSeq(sockBuf, m + 1, Len(sockBuf))
  /\ sockErr' = TRUE

-----------------------------------------------------------------------------
(* sendPacket.                                                             *)

\* A call of some send* function: count the pending write.
Begin(w, k) ==
  /\ pc[w] = "idle"
  /\ Len(kind) < MaxPackets
  /\ kind' = Append(kind, k)
  /\ pkt' = [pkt EXCEPT ![w] = Len(kind) + 1]
  /\ sockWait' = sockWait + 1
  /\ pc' = [pc EXCEPT ![w] = "lock"]
  /\ UNCHANGED <<holder, sockBuf, sockErr, net, broken, field, accepted>>

\* mutant: the packets are not atomized.
LockShared(w) ==
  /\ pc[w] = "lock"
  /\ holder' = holder \cup {w}
  /\ field' = [field EXCEPT ![w] = 1]
  /\ pc' = [pc EXCEPT ![w] = "write"]
  /\ UNCHANGED <<sockWait, sockBuf, sockErr, net, broken, pkt, kind, accepted>>

Lock(w) ==
  /\ pc[w] = "lock"
  /\ holder = {}
  /\ holder' = {w}
  /\ field' = [field EXCEPT ![w] = 1]
  /\ pc' = [pc EXCEPT ![w] = "write"]
  /\ UNCHANGED <<sockWait, sockBuf, sockErr, net, broken, pkt, kind, accepted>>

\* The closure goes on to the next field, or is done with the packet.
Written(w) ==
  /\ field' = [field EXCEPT ![w] = @ + 1]
  /\ pc' = [pc EXCEPT ![w] =
              IF field[w] = Arity(pkt[w]) THEN "done" ELSE "write"]

WriteField(w) ==
  /\ pc[w] = "write" /\ ~sockErr
  /\ Stored(<<pkt[w], field[w]>>) \/ Spilled(<<pkt[w], field[w]>>)
  /\ Written(w)
  /\ UNCHANGED <<sockWait, holder, sockErr, broken, pkt, kind, accepted>>

\* The closure returns an error.
WriteFails(w) ==
  /\ pc[w] = "write"
  /\ \/ sockErr /\ UNCHANGED <<net, sockBuf, sockErr>>
     \/ ~sockErr /\ SocketFails(Len(sockBuf))
  /\ pc' = [pc EXCEPT ![w] = "fail"]
  /\ UNCHANGED <<sockWait, holder, broken, pkt, field, kind, accepted>>

\* Return from sendPacket and release the lock.
Return(w) ==
  /\ holder' = holder \ {w}
  /\ pc' = [pc EXCEPT ![w] = "idle"]
  /\ pkt' = [pkt EXCEPT ![w] = 0]
  /\ field' = [field EXCEPT ![w] = 0]

\* mutants: the error path takes its pending write back twice, as if the
\* closure had done so too, or not at all.
FailTwice(w) ==
  /\ pc[w] = "fail"
  /\ sockWait' = sockWait - 2
  /\ Return(w)
  /\ UNCHANGED <<sockBuf, sockErr, net, broken, kind, accepted>>

FailForgets(w) ==
  /\ pc[w] = "fail"
  /\ Return(w)
  /\ UNCHANGED <<sockWait, sockBuf, sockErr, net, broken, kind, accepted>>

Fail(w) ==
  /\ pc[w] = "fail"
  /\ sockWait' = sockWait - 1
  /\ Return(w)
  /\ UNCHANGED <<sockBuf, sockErr, net, broken, kind, accepted>>

\* mutant: the value before the decrement is compared.
DoneOffByOne(w) ==
  /\ pc[w] = "done"
  /\ sockWait' = sockWait - 1
  /\ IF sockWait = 0
     THEN pc' = [pc EXCEPT ![w] = "flush"]
          /\ UNCHANGED <<holder, pkt, field, accepted>>
     ELSE Return(w) /\ accepted' = accepted \cup {pkt[w]}
  /\ UNCHANGED <<sockBuf, sockErr, net, broken, kind>>

\* The last pending writer goes on to flush, the others leave it to it.
Done(w) ==
  /\ pc[w] = "done"
  /\ sockWait' = sockWait - 1
  /\ IF sockWait' = 0
     THEN pc' = [pc EXCEPT ![w] = "flush"]
          /\ UNCHANGED <<holder, pkt, field, accepted>>
     ELSE Return(w) /\ accepted' = accepted \cup {pkt[w]}
  /\ UNCHANGED <<sockBuf, sockErr, net, broken, kind>>

Flush(w) ==
  /\ pc[w] = "flush"
  /\ \/ /\ ~broken \/ sockBuf = <<>>
        /\ net' = net \o sockBuf
        /\ sockBuf' = <<>>
        /\ accepted' = accepted \cup {pkt[w]}
        /\ UNCHANGED sockErr
     \/ SocketFails(Len(sockBuf) - 1) /\ UNCHANGED accepted
  /\ Return(w)
  /\ UNCHANGED <<sockWait, broken, kind>>

\* process() closes the socket, or the relay does.
Break ==
  /\ ~broken
  /\ broken' = TRUE
  /\ UNCHANGED <<sockWait, holder, sockBuf, sockErr, net, pc, pkt, field,
                 kind, accepted>>

-----------------------------------------------------------------------------
WriterStep(w) ==
  \/ Lock(w)
  \/ WriteField(w)
  \/ WriteFails(w)
  \/ Fail(w)
  \/ Done(w)
  \/ Flush(w)

Next ==
  \/ \E w \in Writers : WriterStep(w) \/ \E k \in Kinds : Begin(w, k)
  \/ Break

Spec == Init /\ [][Next]_vars

\* A goroutine inside sendPacket keeps running, and the lock is granted to
\* every waiter in the end (sync.Mutex; writers come back any number of times).
Fairness == \A w \in Writers : WF_vars(WriterStep(w)) /\ SF_vars(Lock(w))

FairSpec == Spec /\ Fairness

-----------------------------------------------------------------------------
(* Properties.                                                             *)

Units == (1 .. MaxPackets) \X (1 .. 5)

\* The type invariant: the count of pending writes never goes negative.
TypeOK ==
  /\ sockWait \in Nat
  /\ holder \subseteq Writers
  /\ sockBuf \in Seq(Units) /\ Len(sockBuf) <= Capacity
  /\ sockErr \in BOOLEAN /\ broken \in BOOLEAN
  /\ net \in Seq(Units)
  /\ pc \in [Writers -> {"idle", "lock", "write", "fail", "done", "flush"}]
  /\ pkt \in [Writers -> 0 .. MaxPackets]
  /\ field \in [Writers -> 0 .. 6]
  /\ kind \in Seq(Kinds) /\ Len(kind) <= MaxPackets
  /\ accepted \subseteq 1 .. MaxPackets

\* sockWait counts exactly the writers between its increment and decrement,
\* error paths included.
Counted ==
  sockWait = Cardinality({w \in Writers : pc[w] \in {"lock", "write", "fail", "done"}})

Stream == net \o sockBuf

\* Packets reach the relay whole: on the stream a packet's first field follows
\* the last field of a packet and any other field follows the one before it,
\* also across automatic flushes and failures.
Unmixed ==
  \A i \in 1 .. Len(Stream) :
    LET p == Stream[i][1]
        f == Stream[i][2]
    IN  IF f = 1
        THEN i > 1 => Stream[i - 1][2] = Arity(Stream[i - 1][1])
        ELSE i > 1 /\ Stream[i - 1] = <<p, f - 1>>

\* Nothing is left behind: when no write is pending and nobody is inside, the
\* buffer is empty, unless the socket failed.
NoStranded == sockWait = 0 /\ holder = {} /\ ~sockErr => sockBuf = <<>>

OnNet(p) == \E i \in 1 .. Len(net) : net[i][1] = p /\ net[i][2] = Arity(p)

\* A packet whose send returned nil gets to the relay, or the socket breaks:
\* whoever was counted on to flush it does so.
Forwarded ==
  \A p \in 1 .. MaxPackets : p \in accepted ~> OnNet(p) \/ broken
=============================================================================
