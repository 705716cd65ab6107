-------------------------------- MODULE Wire --------------------------------
(***************************************************************************)
(* The inbound half of the wire protocol (proto.go): the handshake of       *)
(* newConnection and the loop of process() that cuts a byte stream into     *)
(* packets, with the encoding of the send functions as its counterpart.     *)
(*                                                                         *)
(* A byte is a number below 2 * Base and an integer is below Word: 128 and  *)
(* 2^64 in the code, both powers of two.  The relay is external and writes  *)
(* with the same encoding.  Reads block, so how the network cuts up the     *)
(* stream does not matter; a broken link is a read that fails.             *)
(*                                                                         *)
(* A field of a packet is a pair of its kind and its value.                *)
(***************************************************************************)
EXTENDS Integers, Sequences, SequencesExt

CONSTANTS
  Base,       \* a byte holds one digit of this base and a continuation flag
  Word,       \* integers are below this
  Milli,      \* time.Millisecond
  Numbers,    \* ids, sizes, limits and timeouts on the wire
  Blobs,      \* messages, topics, reasons, faults on the wire
  Magic,      \* relayMagic
  MaxPackets, \* bound: packets after the handshake
  None

\* The opcodes of the packets a relay sends.
Op == [init |-> 0, deny |-> 1, close |-> 2, broadcast |-> 3, request |-> 4,
       reply |-> 5, publish |-> 8, tunInit |-> 9, tunConfirm |-> 10,
       tunAllow |-> 11, tunTransfer |-> 12, tunClose |-> 13]

\* Opcodes are bytes, and the largest byte is not one of them.
ASSUME WireAssumption ==
  /\ Base \in Nat /\ Base > 7 /\ Word \in Nat /\ Word > Base
  /\ Numbers \subseteq 0 .. Word - 1 /\ Milli \in Nat
  /\ Magic \in Blobs /\ <<>> \in Blobs \ {Magic}
  /\ Blobs \subseteq Seq(0 .. 2 * Base - 1) /\ \A d \in Blobs : Len(d) < Word
  /\ MaxPackets \in Nat
  /\ None \notin Nat \cup Blobs \cup DOMAIN Op

-----------------------------------------------------------------------------
(* The send functions.                                                     *)

ContinuesOffByOne(n) == n > Base   \* mutant: Base itself is the last digit
Continues(n) == n >= Base

SendBool(b) == IF b THEN <<1>> ELSE <<0>>

SendVarint[n \in 0 .. Word - 1] ==
  IF Continues(n) THEN <<Base + (n % Base)>> \o SendVarint[n \div Base] ELSE <<n>>

SendBinary(d) == SendVarint[Len(d)] \o d

\* A "raw" field is a byte the protocol has no meaning for.
SendField(f) ==
  CASE f[1] = "varint" -> SendVarint[f[2]]
    [] f[1] = "bool"   -> SendBool(f[2])
    [] f[1] = "binary" -> SendBinary(f[2])
    [] f[1] = "raw"    -> <<f[2]>>

SendPacket(p) ==
  (IF p.op = None THEN <<>> ELSE <<Op[p.op]>>)
    \o FlattenSeq([i \in DOMAIN p.args |-> SendField(p.args[i])])

Yes == <<"bool", TRUE>>
No  == <<"bool", FALSE>>

\* A reply succeeds if it has no fault; a nil reply is sent as an empty one.
SendReply(reply, fault) ==
  IF fault = <<>> THEN <<Yes, <<"binary", reply>>>>
                  ELSE <<No, <<"binary", fault>>>>

-----------------------------------------------------------------------------
(* What the relay may write.                                               *)

Packet(op, args) == [op |-> op, args |-> args]
Varints  == {<<"varint", n>> : n \in Numbers}
Binaries == {<<"binary", d>> : d \in Blobs}
Accept   == Packet("init", <<<<"binary", Magic>>, <<"binary", <<>>>>>>)

\* Answers to the handshake: version or reason of denial after the magic.
Answers(magics) ==
  {Packet(op, <<m, <<"binary", <<>>>>>>) : op \in {"init", "deny"}, m \in magics}
BadHandshakes == Answers(Binaries \ {<<"binary", Magic>>}) \cup {Packet("close", <<>>)}

All(op, tuples) == {Packet(op, a) : a \in tuples}

\* The relay prefixes the result of a request with a timeout flag.  The result
\* comes from a binding of any language.
Replies == All("reply", Varints \X {Yes}) \cup
  All("reply", Varints \X {No} \X {Yes, No} \X Binaries)

Events ==
  All("close", {<<d>> : d \in Binaries}) \cup All("broadcast", {<<d>> : d \in Binaries}) \cup
  All("publish", Binaries \X Binaries) \cup All("request", Varints \X Binaries \X Varints)

TunnelEvents ==
  All("tunInit", Varints \X Varints) \cup
  All("tunConfirm", Varints \X {Yes}) \cup All("tunConfirm", Varints \X {No} \X Varints) \cup
  All("tunAllow", Varints \X Varints) \cup
  All("tunTransfer", Varints \X Varints \X Binaries) \cup All("tunClose", Varints \X Binaries)

Violations == {Packet("init", <<>>), Packet(None, <<<<"raw", 2 * Base - 1>>>>)} \cup
  All("reply", Varints \X {<<"raw", 2>>})

Packets == Replies \cup Events \cup TunnelEvents \cup Violations

VARIABLES
  sent,     \* what the relay writes
  stream,   \* bytes of it that are not read yet
  phase,    \* of the connection: the handshake, process(), or an end
  op, args, \* the packet being read
  num, scale, \* the integer being read, and the weight of its next digit
  size,     \* length of the binary being read
  handled,  \* packets dispatched to their handlers
  results   \* what handleReply made of each packet: an outcome, or None

vars == <<sent, stream, phase, op, args, num, scale, size, handled, results>>

Init ==
  /\ sent \in {<<h>> : h \in BadHandshakes \cup Answers({<<"binary", Magic>>})} \cup
              {<<Accept>> \o s : s \in [1 .. MaxPackets -> Packets]}
  /\ stream = FlattenSeq([i \in DOMAIN sent |-> SendPacket(sent[i])])
  /\ phase = "init" /\ op = None /\ args = <<>>
  /\ num = 0 /\ scale = 1 /\ size = None
  /\ handled = <<>> /\ results = <<>>

Reading == phase \in {"init", "open"}

-----------------------------------------------------------------------------
(* The fields each proc function reads.                                    *)

TimedOut == Len(args) >= 2 /\ args[2] = Yes

Layout ==
  CASE op \in {"init", "deny"}       -> <<"binary", "binary">>
    [] op \in {"close", "broadcast"} -> <<"binary">>
    [] op = "publish"                -> <<"binary", "binary">>
    [] op = "request"                -> <<"varint", "binary", "varint">>
    [] op \in {"tunInit", "tunAllow"} -> <<"varint", "varint">>
    [] op = "tunTransfer"            -> <<"varint", "varint", "binary">>
    [] op = "tunClose"               -> <<"varint", "binary">>
    [] op = "reply"      -> IF TimedOut THEN <<"varint", "bool">>
                                        ELSE <<"varint", "bool", "bool", "binary">>
    [] op = "tunConfirm" -> IF TimedOut THEN <<"varint", "bool">>
                                        ELSE <<"varint", "bool", "varint">>

\* procInit compares the magic before it reads on.
WrongMagic ==
  op \in {"init", "deny"} /\ Len(args) = 1 /\ args[1] # <<"binary", Magic>>

Complete == op # None /\ ~WrongMagic /\ Len(args) = Len(Layout)
Expects(kind) ==
  Reading /\ op # None /\ ~WrongMagic /\ ~Complete /\ Layout[Len(args) + 1] = kind

-----------------------------------------------------------------------------
(* The recv functions.                                                     *)

Fail(end) ==
  /\ phase' = end
  /\ UNCHANGED <<sent, stream, op, args, num, scale, size, handled, results>>

\* mutant: the last opcode is missing from the switch.
KnownButLast(b) == {n \in DOMAIN Op : Op[n] = b /\ b < 13}

Known(b) ==
  IF phase = "init" THEN {n \in {"init", "deny"} : Op[n] = b}
                    ELSE {n \in DOMAIN Op \ {"init", "deny"} : Op[n] = b}

RecvOp ==
  /\ Reading /\ op = None /\ stream # <<>>
  /\ IF Known(Head(stream)) = {}
     THEN Fail("violation")
     ELSE /\ op' \in Known(Head(stream))
          /\ stream' = Tail(stream)
          /\ UNCHANGED <<sent, phase, args, num, scale, size, handled, results>>

RecvBool ==
  /\ Expects("bool") /\ stream # <<>>
  /\ IF Head(stream) \notin {0, 1}
     THEN Fail("violation")
     ELSE /\ args' = Append(args, <<"bool", Head(stream) = 1>>)
          /\ stream' = Tail(stream)
          /\ UNCHANGED <<sent, phase, op, num, scale, size, handled, results>>

\* One more digit of an integer, or of the length of a binary.  Bits beyond
\* the width of the integer are shifted out.
Digit == (num + (Head(stream) % Base) * scale) % Word

RecvVarintMore ==
  /\ Expects("varint") \/ (Expects("binary") /\ size = None)
  /\ stream # <<>> /\ Head(stream) >= Base
  /\ num' = Digit
  /\ scale' = (scale * Base) % Word
  /\ stream' = Tail(stream)
  /\ UNCHANGED <<sent, phase, op, args, size, handled, results>>

\* mutant: the next integer goes on where this one ended.
FreshKeeps == UNCHANGED scale /\ num' = 0
Fresh == num' = 0 /\ scale' = 1

RecvVarint ==
  /\ Expects("varint")
  /\ stream # <<>> /\ Head(stream) < Base
  /\ args' = Append(args, <<"varint", Digit>>)
  /\ Fresh
  /\ stream' = Tail(stream)
  /\ UNCHANGED <<sent, phase, op, size, handled, results>>

RecvSize ==
  /\ Expects("binary") /\ size = None
  /\ stream # <<>> /\ Head(stream) < Base
  /\ size' = Digit
  /\ Fresh
  /\ stream' = Tail(stream)
  /\ UNCHANGED <<sent, phase, op, args, handled, results>>

\* mutant: one byte more is asked for.
ReadFullOffByOne(n) == Len(stream) > n
ReadFull(n) == Len(stream) >= n

RecvBinary ==
  /\ Expects("binary") /\ size # None
  /\ ReadFull(size)
  /\ args' = Append(args, <<"binary", SubSeq(stream, 1, size)>>)
  /\ stream' = SubSeq(stream, size + 1, Len(stream))
  /\ size' = None
  /\ UNCHANGED <<sent, phase, op, num, scale, handled, results>>

Reject == Reading /\ op # None /\ WrongMagic /\ Fail("violation")

\* The link is down: the pending read fails, in the middle of a field or not.
ReadFails == Reading /\ ~Complete /\ ~WrongMagic /\ Fail("broken")

-----------------------------------------------------------------------------
(* The packet is complete: dispatch it.                                    *)

\* mutant: an empty reply is no reply.
HandleReplyByLength(reply, fault) ==
  IF reply \in {None, <<>>} /\ fault = <<>> THEN "timeout"
  ELSE IF reply = None THEN "fault" ELSE "reply"

\* handleReply, which is given no reply (None) and no fault on a timeout.
HandleReply(reply, fault) ==
  IF reply = None /\ fault = <<>> THEN "timeout"
  ELSE IF reply = None THEN "fault" ELSE "reply"

Result ==
  IF op # "reply" THEN None
  ELSE IF TimedOut THEN HandleReply(None, <<>>)
  ELSE IF args[3][2] THEN HandleReply(args[4][2], <<>>)
  ELSE HandleReply(None, args[4][2])

NextPhase ==
  CASE op = "init"  -> "open"
    [] op = "deny"  -> "denied"
    [] op = "close" -> IF args[1][2] = <<>> THEN "closed" ELSE "dropped"
    [] OTHER -> phase

\* int(n), and time.Duration(n): the same bits as a signed number.
Signed(n) == IF 2 * n < Word THEN n ELSE n - Word

\* time.Duration(n) * time.Millisecond.
Milliseconds(n) == Signed((n * Milli) % Word)

\* Field i of a packet o is a timeout, or a size, a space or a chunk limit.
IsTimeout(o, i) == o = "request" /\ i = 3
IsInt(o, i) ==
  \/ o \in {"tunInit", "tunAllow", "tunTransfer"} /\ i = 2
  \/ o = "tunConfirm" /\ i = 3

\* What the proc functions make of the fields a they have read of a packet o.
Converted(o, a) ==
  [i \in DOMAIN a |->
     IF IsTimeout(o, i) THEN <<"varint", Milliseconds(a[i][2])>>
     ELSE IF IsInt(o, i) THEN <<"varint", Signed(a[i][2])>> ELSE a[i]]

Handle ==
  /\ Reading /\ Complete
  /\ handled' = Append(handled, Packet(op, Converted(op, args)))
  /\ results' = Append(results, Result)
  /\ phase' = NextPhase
  /\ op' = None /\ args' = <<>>
  /\ UNCHANGED <<sent, stream, num, scale, size>>

Step ==
  \/ RecvOp \/ RecvBool \/ RecvVarintMore \/ RecvVarint \/ RecvSize \/ RecvBinary
  \/ Reject \/ Handle

Next == Step \/ ReadFails

Spec == Init /\ [][Next]_vars

\* process() reads what is there.  Nothing makes the link break.
FairSpec == Spec /\ WF_vars(Step)

-----------------------------------------------------------------------------
(* Properties.                                                             *)

Kinds == {"varint", "bool", "binary"}

\* The type invariant; outside of an integer nothing of an earlier one is left.
TypeOK ==
  /\ phase \in {"init", "open", "violation", "broken", "denied", "closed", "dropped"}
  /\ op \in DOMAIN Op \cup {None}
  /\ \A i \in DOMAIN args : args[i][1] \in Kinds
  /\ num \in 0 .. Word - 1 /\ scale \in 0 .. Word - 1
  /\ size \in (0 .. Word - 1) \cup {None}
  /\ Len(results) = Len(handled)
  /\ op = None \/ size # None => num = 0 /\ scale = 1 /\ (op = None => args = <<>>)

Final(p) == p.op = "deny" \/ p.op = "close"

\* Field i of a packet o, written as f, has reached the handler as g: a timeout
\* in nanoseconds if there is a duration that long, a size, a space or a chunk
\* limit if it is an int and as a negative one if it is not.
Conveyed(o, i, f, g) ==
  IF IsTimeout(o, i) THEN 2 * (f[2] * Milli) < Word => g = <<"varint", f[2] * Milli>>
  ELSE g = f \/ (IsInt(o, i) /\ 2 * f[2] >= Word /\ g[2] < 0)

\* The handlers see exactly the packets the relay wrote, whole, in order and
\* with the values that were encoded, at every boundary of the encoding and of
\* the types they are converted to; what follows a close or a malformed packet
\* or handshake, or was cut off, they never see.
Framing ==
  \A i \in DOMAIN handled :
    /\ handled[i].op = sent[i].op
    /\ Len(handled[i].args) = Len(sent[i].args)
    /\ \A j \in DOMAIN sent[i].args :
         Conveyed(sent[i].op, j, sent[i].args[j], handled[i].args[j])
    /\ sent[i] \notin Violations \cup BadHandshakes
    /\ i > 1 => ~Final(sent[i - 1])

\* process() blames the relay for a protocol violation only when there is one.
NoFalseAlarm ==
  phase = "violation" =>
    sent[Len(handled) + 1] \in Violations \cup BadHandshakes

\* A reply that reports a failure and does not say which.
EmptyFault(p) == Len(p.args) = 4 /\ p.args[3] = No /\ p.args[4] = <<"binary", <<>>>>

\* A reply as sendReply of this binding makes it of a handler's results.
OwnReply(p) == \E r, f \in Blobs : p.args = <<p.args[1], No>> \o SendReply(r, f)

\* handleReply tells timeouts from replies and faults by what is nil or empty:
\* it takes a reply for a timeout if the relay says so, or if it is a failure
\* with an empty text, and for nothing else.  Nothing that a handler can return
\* to this binding's sendReply is ever taken for one.
TimeoutsGenuine ==
  \A i \in DOMAIN handled : sent[i].op = "reply" =>
    /\ results[i] = "timeout" <=> sent[i].args[2] = Yes \/ EmptyFault(sent[i])
    /\ OwnReply(sent[i]) => results[i] # "timeout"

\* process() consumes the whole stream or ends: it never waits for bytes that
\* belong to no packet.
StreamConsumed == <>[](~Reading \/ (stream = <<>> /\ op = None))
=============================================================================
