-------------------------- MODULE SendPacketProofs --------------------------
(***************************************************************************)
(* Proofs about SendPacket, for any finite set of writers, any kinds of     *)
(* packets and any capacity of the buffered writer.                        *)
(***************************************************************************)
EXTENDS SendPacket, FiniteSetTheorems, SequenceTheorems, TLAPS

Pcs == {"idle", "lock", "write", "fail", "done", "flush"}

Inside(w)  == pc[w] \in {"write", "fail", "done", "flush"}
Pending    == {w \in Writers : pc[w] \in {"lock", "write", "fail", "done"}}

\* Who is inside sendPacket's critical section holds the lock, alone.
LockInv ==
  /\ pc \in [Writers -> Pcs]
  /\ holder \subseteq Writers
  /\ \A w \in Writers : Inside(w) <=> w \in holder
  /\ \A v, w \in holder : v = w

\* A buffer that was left unflushed has a pending writer to flush it.
StrandInv ==
  /\ \A w \in Writers : pc[w] = "fail" => sockErr
  /\ sockBuf # <<>> /\ ~sockErr /\ holder = {} => sockWait > 0

LEMMA InitLockInv == Init => LockInv
BY DEF Init, LockInv, Inside, Pcs

LEMMA NextLockInv == LockInv /\ [Next]_vars => LockInv'
<1> SUFFICES ASSUME LockInv, [Next]_vars PROVE LockInv'
  OBVIOUS
<1> USE DEF LockInv, Inside, Pcs
<1>1. ASSUME NEW w \in Writers, NEW k \in Kinds, Begin(w, k) PROVE LockInv'
  BY <1>1 DEF Begin
<1>2. ASSUME NEW w \in Writers, Lock(w) PROVE LockInv'
  BY <1>2 DEF Lock
<1>3. ASSUME NEW w \in Writers, WriteField(w) PROVE LockInv'
  BY <1>3 DEF WriteField, Written
<1>4. ASSUME NEW w \in Writers, WriteFails(w) PROVE LockInv'
  BY <1>4 DEF WriteFails
<1>5. ASSUME NEW w \in Writers, Fail(w) \/ Flush(w) PROVE LockInv'
  BY <1>5 DEF Fail, Flush, Return
<1>6. ASSUME NEW w \in Writers, Done(w) PROVE LockInv'
  BY <1>6 DEF Done, Return
<1>7. CASE Break \/ UNCHANGED vars
  BY <1>7 DEF Break, vars
<1> QED BY <1>1, <1>2, <1>3, <1>4, <1>5, <1>6, <1>7 DEF Next, WriterStep

LEMMA PendingFinite ==
  IsFiniteSet(Pending) /\ Cardinality(Pending) \in Nat
BY SendPacketAssumption, FS_Subset, FS_CardinalityType DEF Pending

\* One writer joins or leaves the pending ones.
LEMMA PendingJoins ==
  ASSUME NEW w \in Writers, w \notin Pending, Pending' = Pending \cup {w}
  PROVE  Cardinality(Pending') = Cardinality(Pending) + 1
BY PendingFinite, FS_AddElement

LEMMA PendingLeaves ==
  ASSUME NEW w \in Pending, Pending' = Pending \ {w}
  PROVE  Cardinality(Pending') = Cardinality(Pending) - 1
BY PendingFinite, FS_RemoveElement

LEMMA NextCounted == LockInv /\ Counted /\ [Next]_vars => Counted'
<1> SUFFICES ASSUME LockInv, Counted, [Next]_vars PROVE Counted'
  OBVIOUS
<1>0. /\ pc \in [Writers -> Pcs] /\ sockWait = Cardinality(Pending)
      /\ (sockWait' = Cardinality(Pending')) => Counted'
  BY DEF LockInv, Counted, Pending
<1>1. ASSUME NEW w \in Writers, NEW k \in Kinds, Begin(w, k) PROVE Counted'
  <2>1. w \notin Pending /\ Pending' = Pending \cup {w}
    BY <1>0, <1>1 DEF Begin, Pending
  <2> QED BY <1>0, <1>1, <2>1, PendingJoins DEF Begin
<1>2. ASSUME NEW w \in Writers,
             Lock(w) \/ WriteField(w) \/ WriteFails(w) \/ Flush(w)
      PROVE  Counted'
  <2>1. Pending' = Pending
    BY <1>0, <1>2 DEF Lock, WriteField, Written, WriteFails, Flush, Return,
                      Pending
  <2> QED BY <1>0, <1>2, <2>1 DEF Lock, WriteField, WriteFails, Flush
<1>3. ASSUME NEW w \in Writers, Fail(w) \/ Done(w) PROVE Counted'
  <2>1. w \in Pending /\ Pending' = Pending \ {w}
    BY <1>0, <1>3 DEF Fail, Done, Return, Pending
  <2> QED BY <1>0, <1>3, <2>1, PendingLeaves DEF Fail, Done
<1>4. CASE Break \/ UNCHANGED vars
  BY <1>0, <1>4 DEF Break, vars, Counted
<1> QED BY <1>1, <1>2, <1>3, <1>4 DEF Next, WriterStep

LEMMA InitCounted == Init => Counted
<1> SUFFICES ASSUME Init PROVE Counted
  OBVIOUS
<1>1. {w \in Writers : pc[w] \in {"lock", "write", "fail", "done"}} = {}
  BY DEF Init
<1> QED BY <1>1, FS_EmptySet DEF Init, Counted

\* The counter that decides on flushing is exact at every moment, whatever
\* the interleaving and whichever packets fail.
THEOREM CountExact == Spec => []Counted
<1> QED BY InitLockInv, NextLockInv, InitCounted, NextCounted, PTL DEF Spec

LEMMA NextStrandInv ==
  LockInv /\ Counted /\ StrandInv /\ [Next]_vars => StrandInv'
<1> SUFFICES ASSUME LockInv, Counted, StrandInv, [Next]_vars PROVE StrandInv'
  OBVIOUS
<1>0. /\ pc \in [Writers -> Pcs] /\ sockWait = Cardinality(Pending)
      /\ sockWait \in Nat
  BY PendingFinite DEF LockInv, Counted, Pending
<1>1. ASSUME NEW w \in Writers, NEW k \in Kinds, Begin(w, k)
      PROVE  StrandInv'
  BY <1>0, <1>1 DEF Begin, StrandInv
<1>2. ASSUME NEW w \in Writers, Lock(w) PROVE StrandInv'
  BY <1>0, <1>2 DEF Lock, StrandInv
<1>3. ASSUME NEW w \in Writers, WriteField(w) PROVE StrandInv'
  <2>1. w \in holder /\ holder' = holder
    BY <1>3 DEF WriteField, LockInv, Inside
  <2> QED BY <1>0, <1>3, <2>1 DEF WriteField, Written, StrandInv
<1>4. ASSUME NEW w \in Writers, WriteFails(w) PROVE StrandInv'
  BY <1>0, <1>4 DEF WriteFails, SocketFails, StrandInv
<1>5. ASSUME NEW w \in Writers, Fail(w) PROVE StrandInv'
  BY <1>0, <1>5 DEF Fail, Return, StrandInv
<1>6. ASSUME NEW w \in Writers, Done(w) PROVE StrandInv'
  <2>1. w \in holder /\ w \in Pending
    BY <1>6 DEF Done, LockInv, Inside, Pending
  <2>2. sockWait > 0
    BY <1>0, <2>1, PendingFinite, FS_EmptySet
  <2>3. CASE sockWait' = 0
    BY <1>0, <1>6, <2>1, <2>3 DEF Done, StrandInv
  <2>4. CASE sockWait' # 0
    BY <1>0, <1>6, <2>2, <2>4 DEF Done, Return, StrandInv
  <2> QED BY <2>3, <2>4
<1>7. ASSUME NEW w \in Writers, Flush(w) PROVE StrandInv'
  BY <1>0, <1>7 DEF Flush, Return, SocketFails, StrandInv
<1>8. CASE Break \/ UNCHANGED vars
  BY <1>8 DEF Break, vars, StrandInv
<1> QED
  BY <1>1, <1>2, <1>3, <1>4, <1>5, <1>6, <1>7, <1>8 DEF Next, WriterStep

\* A packet never stays in the buffer of an idle connection: when nobody is
\* pending or inside, everything was flushed or the socket failed.
THEOREM NothingStranded == Spec => []NoStranded
<1>1. Init => StrandInv
  BY DEF Init, StrandInv
<1>2. StrandInv => NoStranded
  BY DEF StrandInv, NoStranded
<1> QED
  BY <1>1, <1>2, InitLockInv, NextLockInv, InitCounted, NextCounted,
     NextStrandInv, PTL DEF Spec
-----------------------------------------------------------------------------
(* The stream of fields.                                                   *)

\* A field of a packet that was begun.
Unit == (1 .. Len(kind)) \X (1 .. 5)

\* The stream ends with a whole packet.
AtBoundary ==
  Stream # <<>> => Stream[Len(Stream)][2] = Arity(Stream[Len(Stream)][1])

\* Writers know their packet, and who writes knows the field it writes next.
PacketInv ==
  /\ kind \in Seq(Kinds) /\ Len(kind) <= MaxPackets
  /\ net \in Seq(Unit) /\ sockBuf \in Seq(Unit) /\ Len(sockBuf) <= Capacity
  /\ sockErr \in BOOLEAN /\ broken \in BOOLEAN
  /\ pkt \in [Writers -> 0 .. Len(kind)]
  /\ field \in [Writers -> 0 .. 6]
  /\ accepted \subseteq 1 .. Len(kind)
  /\ \A w \in Writers :
       /\ pc[w] # "idle" => pkt[w] > 0
       /\ pc[w] = "write" => field[w] \in 1 .. Arity(pkt[w])

\* Until the socket fails, the stream ends where the writer inside goes on,
\* and with a whole packet when no one writes.
StreamInv ==
  /\ Unmixed
  /\ ~sockErr =>
       /\ (\A w \in Writers : pc[w] # "write") => AtBoundary
       /\ \A w \in Writers : pc[w] = "write" =>
            IF field[w] = 1 THEN AtBoundary
            ELSE Stream # <<>> /\ Stream[Len(Stream)] = <<pkt[w], field[w] - 1>>

\* A packet has one to five fields.
LEMMA ArityBound == \A k \in DOMAIN Fields : Len(Fields[k]) \in 1 .. 5
BY DEF Fields

LEMMA ArityType ==
  ASSUME PacketInv, NEW p \in 1 .. Len(kind)
  PROVE  Arity(p) \in 1 .. 5
<1>1. kind[p] \in DOMAIN Fields
  BY SendPacketAssumption DEF PacketInv
<1> QED BY <1>1, ArityBound DEF Arity
LEMMA ArityKept ==
  ASSUME PacketInv, NEW p \in 1 .. Len(kind),
         kind' = kind \/ \E k \in Kinds : kind' = Append(kind, k)
  PROVE  kind'[p] = kind[p]
BY AppendProperties DEF PacketInv

LEMMA StreamType ==
  ASSUME PacketInv
  PROVE  /\ Stream \in Seq(Unit)
         /\ \A i \in 1 .. Len(Stream) : Stream[i][1] \in 1 .. Len(kind)
<1>1. Stream \in Seq(Unit)
  BY ConcatProperties DEF PacketInv, Stream
<1> QED BY <1>1 DEF Unit

\* However the buffered writer takes a field in, it joins the stream's end.
LEMMA FieldJoins ==
  ASSUME PacketInv, NEW u \in Unit, Stored(u) \/ Spilled(u)
  PROVE  /\ net' \in Seq(Unit) /\ sockBuf' \in Seq(Unit) /\ Len(sockBuf') <= Capacity
         /\ net' \o sockBuf' = Append(Stream, u)
<1> DEFINE S == Unit
<1>0. net \in Seq(S) /\ sockBuf \in Seq(S) /\ u \in S /\ Len(sockBuf) <= Capacity
      /\ <<u>> \in Seq(S) /\ Stream = net \o sockBuf
      /\ Capacity \in Nat \ {0} /\ Len(sockBuf) \in Nat
  BY SendPacketAssumption DEF PacketInv, Stream
<1> HIDE DEF S
<1>1. Append(sockBuf, u) \in Seq(S) /\ Append(sockBuf, u) = sockBuf \o <<u>>
      /\ Len(Append(sockBuf, u)) = Len(sockBuf) + 1
  BY <1>0, AppendProperties, AppendIsConcat
<1>2. net \o sockBuf \in Seq(S)
  BY <1>0, ConcatProperties
<1>3. Append(Stream, u) = (net \o sockBuf) \o <<u>>
  BY <1>0, <1>2, AppendIsConcat
<1>4. Append(Stream, u) = net \o Append(sockBuf, u)
  BY <1>0, <1>1, <1>3, ConcatAssociative
<1>5. CASE Stored(u)
  BY <1>0, <1>1, <1>4, <1>5 DEF Stored, S
<1>6. CASE net' = net \o sockBuf /\ sockBuf' = <<u>>
  BY <1>0, <1>2, <1>3, <1>6 DEF S
<1>7. CASE net' = net \o Append(sockBuf, u) /\ sockBuf' = <<>>
  <2>1. net' \in Seq(S)
    BY <1>0, <1>1, <1>7, ConcatProperties
  <2>2. net' \o sockBuf' = net'
    BY <1>7, <2>1, ConcatEmptySeq
  <2> QED BY <1>0, <1>4, <1>7, <2>1, <2>2 DEF S
<1> QED BY <1>5, <1>6, <1>7 DEF Spilled

\* A failed write may send some of the buffer; the stream stays as it is.
LEMMA StreamSurvives ==
  ASSUME PacketInv, NEW n \in Int, n <= Len(sockBuf), SocketFails(n)
  PROVE  /\ net' \in Seq(Unit) /\ sockBuf' \in Seq(Unit) /\ Len(sockBuf') <= Capacity
         /\ net' \o sockBuf' = Stream
<1> DEFINE S == Unit
<1>0. net \in Seq(S) /\ sockBuf \in Seq(S) /\ Len(sockBuf) <= Capacity
      /\ Stream = net \o sockBuf /\ Capacity \in Nat /\ Len(sockBuf) \in Nat
  BY SendPacketAssumption DEF PacketInv, Stream
<1> HIDE DEF S
<1>1. PICK m \in 0 .. n :
        /\ net' = net \o SubSeq(sockBuf, 1, m)
        /\ sockBuf' = SubSeq(sockBuf, m + 1, Len(sockBuf))
  BY DEF SocketFails
<1>2. /\ m \in 0 .. Len(sockBuf) /\ m + 1 \in Int /\ 1 \in 1 .. Len(sockBuf) + 1
      /\ m \in 1 - 1 .. Len(sockBuf) /\ Len(sockBuf) \in m .. Len(sockBuf)
      /\ \A i \in 1 .. m : sockBuf[i] \in S
      /\ \A i \in m + 1 .. Len(sockBuf) : sockBuf[i] \in S
  BY <1>0
<1>3. SubSeq(sockBuf, 1, m) \in Seq(S)
  BY <1>0, <1>2, SubSeqProperties
<1>4. /\ SubSeq(sockBuf, m + 1, Len(sockBuf)) \in Seq(S)
      /\ Len(SubSeq(sockBuf, m + 1, Len(sockBuf))) <= Len(sockBuf)
  BY <1>0, <1>2, SubSeqProperties
<1>5. SubSeq(sockBuf, 1, m) \o SubSeq(sockBuf, m + 1, Len(sockBuf)) = sockBuf
  <2>1. SubSeq(sockBuf, 1, m) \o SubSeq(sockBuf, m + 1, Len(sockBuf))
          = SubSeq(sockBuf, 1, Len(sockBuf))
    BY <1>0, <1>2, ConcatAdjacentSubSeq
  <2> QED BY <1>0, <2>1, SubSeqFull
<1>6. net' \in Seq(S)
  BY <1>0, <1>1, <1>3, ConcatProperties
<1>7. net' \o sockBuf' = Stream
  <2> DEFINE a == SubSeq(sockBuf, 1, m)
             b == SubSeq(sockBuf, m + 1, Len(sockBuf))
  <2>1. /\ a \in Seq(S) /\ b \in Seq(S) /\ a \o b = sockBuf
        /\ net' = net \o a /\ sockBuf' = b
    BY <1>1, <1>3, <1>4, <1>5
  <2> HIDE DEF a, b
  <2>2. net \in Seq(S)
    BY <1>0
  <2>3. \A x, y \in Seq(S) : (net \o x) \o y = net \o (x \o y)
    BY <2>2, ConcatAssociative
  <2> QED BY <1>0, <2>1, <2>3
<1>8. sockBuf' \in Seq(S) /\ Len(sockBuf') <= Capacity
  <2>1. Len(SubSeq(sockBuf, m + 1, Len(sockBuf))) \in Nat
    BY <1>4, LenProperties
  <2> QED BY <1>0, <1>1, <1>4, <2>1
<1> QED BY <1>6, <1>7, <1>8 DEF S

\* A flush that succeeds sends the whole buffer.
LEMMA StreamFlushed ==
  ASSUME PacketInv, net' = net \o sockBuf, sockBuf' = <<>>
  PROVE  net' \in Seq(Unit) /\ sockBuf' \in Seq(Unit) /\ Len(sockBuf') <= Capacity
         /\ net' \o sockBuf' = Stream
<1>1. net' \in Seq(Unit) /\ net' = Stream
  BY StreamType DEF Stream
<1> QED BY <1>1, ConcatEmptySeq, SendPacketAssumption
\* A writer that leaves its packet: sendPacket returns.
LEMMA PacketLeft ==
  ASSUME PacketInv, pc \in [Writers -> Pcs], NEW w \in Writers, Return(w),
         kind' = kind, broken' = broken, sockErr' \in BOOLEAN,
         accepted' \subseteq accepted \cup {pkt[w]}, pc[w] # "idle",
         net' \in Seq(Unit), sockBuf' \in Seq(Unit), Len(sockBuf') <= Capacity
  PROVE  PacketInv'
<1>1. pkt[w] \in 1 .. Len(kind)
  BY DEF PacketInv
<1>2. Unit' = Unit /\ \A p : Arity(p)' = Arity(p)
  BY DEF Unit, Arity
<1>3. \A v \in Writers :
        /\ pc'[v] # "idle" => pkt'[v] > 0
        /\ pc'[v] = "write" => field'[v] \in 1 .. Arity(pkt'[v])
  BY DEF PacketInv, Return
<1>4. pkt' \in [Writers -> 0 .. Len(kind)] /\ field' \in [Writers -> 0 .. 6]
  BY DEF PacketInv, Return
<1> QED BY <1>1, <1>2, <1>3, <1>4 DEF PacketInv

LEMMA NextPacketInv == LockInv /\ PacketInv /\ [Next]_vars => PacketInv'
<1> SUFFICES ASSUME LockInv, PacketInv, [Next]_vars PROVE PacketInv'
  OBVIOUS
<1>0. pc \in [Writers -> Pcs]
  BY DEF LockInv
<1> USE <1>0 DEF Pcs
<1>1. ASSUME NEW w \in Writers, NEW k \in Kinds, Begin(w, k) PROVE PacketInv'
  <2>1. /\ kind' = Append(kind, k) /\ kind' \in Seq(Kinds)
        /\ Len(kind') = Len(kind) + 1 /\ Len(kind) \in Nat /\ Len(kind') <= MaxPackets
    BY <1>1, AppendProperties, SendPacketAssumption DEF Begin, PacketInv
  <2>2. Unit \subseteq Unit'
    BY <2>1 DEF Unit
  <2>3. net' \in Seq(Unit') /\ sockBuf' \in Seq(Unit') /\ Len(sockBuf') <= Capacity
    BY <1>1, <2>2, SeqMonotonic DEF Begin, PacketInv
  <2>4. pkt' \in [Writers -> 0 .. Len(kind')] /\ field' \in [Writers -> 0 .. 6]
        /\ accepted' \subseteq 1 .. Len(kind')
    BY <1>1, <2>1 DEF Begin, PacketInv
  <2>5. ASSUME NEW v \in Writers
        PROVE  /\ pc'[v] # "idle" => pkt'[v] > 0
               /\ pc'[v] = "write" => field'[v] \in 1 .. Len(Fields[kind'[pkt'[v]]])
    <3>1. CASE v = w
      BY <1>1, <2>1, <3>1 DEF Begin, PacketInv
    <3>2. CASE v # w
      <4>1. pc'[v] = pc[v] /\ pkt'[v] = pkt[v] /\ field'[v] = field[v]
        BY <1>1, <3>2 DEF Begin, PacketInv
      <4>2. pkt[v] \in 1 .. Len(kind) => kind'[pkt[v]] = kind[pkt[v]]
        BY <2>1, ArityKept
      <4>3. pc[v] # "idle" => pkt[v] \in 1 .. Len(kind)
        BY DEF PacketInv
      <4> QED BY <4>1, <4>2, <4>3 DEF PacketInv, Arity
    <3> QED BY <3>1, <3>2
  <2>6. broken' \in BOOLEAN /\ sockErr' \in BOOLEAN
    BY <1>1 DEF Begin, PacketInv
  <2> QED BY <2>1, <2>3, <2>4, <2>5, <2>6 DEF PacketInv, Arity
<1>2. ASSUME NEW w \in Writers, Lock(w) PROVE PacketInv'
  <2>1. pkt[w] \in 1 .. Len(kind)
    BY <1>2 DEF Lock, PacketInv
  <2>2. Arity(pkt[w]) \in 1 .. 5
    BY <2>1, ArityType
  <2>3. Unit' = Unit /\ \A p : Arity(p)' = Arity(p)
    BY <1>2 DEF Unit, Arity, Lock
  <2>4. \A v \in Writers :
          /\ pc'[v] # "idle" => pkt'[v] > 0
          /\ pc'[v] = "write" => field'[v] \in 1 .. Arity(pkt[v])
    BY <1>2, <2>1, <2>2 DEF Lock, PacketInv
  <2> QED BY <1>2, <2>3, <2>4 DEF Lock, PacketInv
<1>3. ASSUME NEW w \in Writers, WriteField(w) PROVE PacketInv'
  <2>0. pc[w] = "write"
    BY <1>3 DEF WriteField
  <2>1. pkt[w] \in 1 .. Len(kind) /\ field[w] \in 1 .. Arity(pkt[w])
    BY <2>0 DEF PacketInv
  <2>2. Arity(pkt[w]) \in 1 .. 5
    BY <2>1, ArityType
  <2>3. <<pkt[w], field[w]>> \in Unit
    BY <2>1, <2>2 DEF Unit
  <2>4. net' \in Seq(Unit) /\ sockBuf' \in Seq(Unit) /\ Len(sockBuf') <= Capacity
    BY <1>3, <2>3, FieldJoins DEF WriteField
  <2>5. Unit' = Unit /\ \A p : Arity(p)' = Arity(p)
    BY <1>3 DEF Unit, Arity, WriteField
  <2>6. field' \in [Writers -> 0 .. 6]
    <3>1. field[w] + 1 \in 0 .. 6
      BY <2>1, <2>2
    <3> QED BY <1>3, <3>1 DEF WriteField, Written, PacketInv
  <2>7. \A v \in Writers :
          /\ pc'[v] # "idle" => pkt'[v] > 0
          /\ pc'[v] = "write" => field'[v] \in 1 .. Arity(pkt[v])
    BY <1>3, <2>1, <2>2 DEF WriteField, Written, PacketInv
  <2> QED BY <1>3, <2>4, <2>5, <2>6, <2>7 DEF WriteField, PacketInv
<1>4. ASSUME NEW w \in Writers, WriteFails(w) PROVE PacketInv'
  <2>1. net' \in Seq(Unit) /\ sockBuf' \in Seq(Unit) /\ Len(sockBuf') <= Capacity
        /\ sockErr' \in BOOLEAN
    <3>1. CASE sockErr
      BY <1>4, <3>1 DEF WriteFails, PacketInv
    <3>2. CASE ~sockErr
      <4>1. Len(sockBuf) \in Int /\ Len(sockBuf) <= Len(sockBuf)
        BY DEF PacketInv
      <4>2. SocketFails(Len(sockBuf))
        BY <1>4, <3>2 DEF WriteFails
      <4> QED BY <4>1, <4>2, StreamSurvives DEF SocketFails
    <3> QED BY <3>1, <3>2
  <2>2. Unit' = Unit /\ \A p : Arity(p)' = Arity(p)
    BY <1>4 DEF Unit, Arity, WriteFails
  <2>3. \A v \in Writers :
          /\ pc'[v] # "idle" => pkt'[v] > 0
          /\ pc'[v] = "write" => field'[v] \in 1 .. Arity(pkt[v])
    BY <1>4 DEF WriteFails, PacketInv
  <2> QED BY <1>4, <2>1, <2>2, <2>3 DEF WriteFails, PacketInv
<1>5. ASSUME NEW w \in Writers, Fail(w) PROVE PacketInv'
  BY <1>5, PacketLeft DEF Fail, PacketInv
<1>6. ASSUME NEW w \in Writers, Done(w) PROVE PacketInv'
  <2>1. CASE sockWait' = 0
    <3>1. Unit' = Unit /\ \A p : Arity(p)' = Arity(p)
      BY <1>6 DEF Unit, Arity, Done
    <3>2. \A v \in Writers :
            /\ pc'[v] # "idle" => pkt'[v] > 0
            /\ pc'[v] = "write" => field'[v] \in 1 .. Arity(pkt[v])
      BY <1>6, <2>1 DEF Done, PacketInv
    <3> QED BY <1>6, <2>1, <3>1, <3>2 DEF Done, PacketInv
  <2>2. CASE sockWait' # 0
    BY <1>6, <2>2, PacketLeft DEF Done, PacketInv
  <2> QED BY <2>1, <2>2
<1>7. ASSUME NEW w \in Writers, Flush(w) PROVE PacketInv'
  <2>1. CASE net' = net \o sockBuf /\ sockBuf' = <<>> /\ accepted' = accepted \cup {pkt[w]}
             /\ UNCHANGED sockErr
    BY <1>7, <2>1, StreamFlushed, PacketLeft DEF Flush, PacketInv
  <2>2. CASE SocketFails(Len(sockBuf) - 1) /\ UNCHANGED accepted
    <3>1. Len(sockBuf) - 1 \in Int /\ Len(sockBuf) - 1 <= Len(sockBuf)
      BY DEF PacketInv
    <3>2. net' \in Seq(Unit) /\ sockBuf' \in Seq(Unit) /\ Len(sockBuf') <= Capacity
          /\ sockErr' \in BOOLEAN
      BY <2>2, <3>1, StreamSurvives DEF SocketFails
    <3> QED BY <1>7, <2>2, <3>2, PacketLeft DEF Flush
  <2> QED BY <1>7, <2>1, <2>2 DEF Flush
<1>8. CASE Break \/ UNCHANGED vars
  BY <1>8 DEF Break, vars, PacketInv, Unit, Arity
<1> QED
  BY <1>1, <1>2, <1>3, <1>4, <1>5, <1>6, <1>7, <1>8 DEF Next, WriterStep
\* A step that leaves the stream alone keeps its packets whole; a packet that
\* begins does not change the arity of the others.
LEMMA StreamKept ==
  ASSUME PacketInv, StreamInv, net' \o sockBuf' = Stream,
         kind' = kind \/ \E k \in Kinds : kind' = Append(kind, k)
  PROVE  /\ Unmixed' /\ Stream' = Stream
         /\ AtBoundary => AtBoundary'
<1>1. Stream' = Stream
  BY DEF Stream
<1>2. \A i \in 1 .. Len(Stream) : kind'[Stream[i][1]] = kind[Stream[i][1]]
  BY StreamType, ArityKept
<1>3. Len(Stream) \in Nat /\ (Stream # <<>> => Len(Stream) \in 1 .. Len(Stream))
  BY StreamType
<1>4. Unmixed'
  BY <1>1, <1>2, <1>3 DEF StreamInv, Unmixed, Arity
<1>5. AtBoundary => AtBoundary'
  BY <1>1, <1>2, <1>3 DEF AtBoundary, Arity
<1> QED BY <1>1, <1>4, <1>5

\* The field that joins the stream is the next one of the packet at its end.
LEMMA StreamGrows ==
  ASSUME LockInv, PacketInv, StreamInv, NEW w \in Writers, WriteField(w)
  PROVE  StreamInv'
<1> DEFINE u == <<pkt[w], field[w]>>
           n == Len(Stream)
<1>1. pc[w] = "write" /\ ~sockErr /\ sockErr' = sockErr /\ kind' = kind
      /\ Written(w) /\ pkt' = pkt
  BY DEF WriteField
<1>2. pkt[w] \in 1 .. Len(kind) /\ field[w] \in 1 .. Arity(pkt[w])
  BY <1>1 DEF PacketInv
<1>3. u \in Unit
  BY <1>2, ArityType DEF Unit
<1>4. Stream' = Append(Stream, u)
  BY <1>3, FieldJoins DEF WriteField, Stream
<1>5. n \in Nat /\ Len(Stream') = n + 1 /\ Stream'[n + 1] = u
      /\ (\A i \in 1 .. n : Stream'[i] = Stream[i]) /\ (Stream # <<>> <=> n > 0)
  BY <1>3, <1>4, StreamType, AppendProperties
<1>6. IF field[w] = 1 THEN n > 0 => Stream[n][2] = Arity(Stream[n][1])
      ELSE n > 0 /\ Stream[n] = <<pkt[w], field[w] - 1>>
  BY <1>1, <1>5 DEF StreamInv, AtBoundary
<1>7. \A p : Arity(p)' = Arity(p)
  BY <1>1 DEF Arity
<1>8. Unmixed'
  <2> SUFFICES ASSUME NEW i \in 1 .. n + 1
               PROVE  IF Stream'[i][2] = 1
                      THEN i > 1 => Stream'[i - 1][2] = Len(Fields[kind[Stream'[i - 1][1]]])
                      ELSE i > 1 /\ Stream'[i - 1] = <<Stream'[i][1], Stream'[i][2] - 1>>
    BY <1>1, <1>5 DEF Unmixed, Arity
  <2>1. CASE i \in 1 .. n
    <3>1. Stream'[i] = Stream[i] /\ (i > 1 => Stream'[i - 1] = Stream[i - 1])
      BY <1>5, <2>1
    <3> QED BY <2>1, <3>1 DEF StreamInv, Unmixed, Arity
  <2>2. CASE i = n + 1
    <3>1. Stream'[i] = u /\ (n > 0 => Stream'[i - 1] = Stream[n])
      BY <1>5, <2>2
    <3> QED BY <1>2, <1>5, <1>6, <2>2, <3>1 DEF Arity
  <2> QED BY <1>5, <2>1, <2>2
<1>9. ASSUME NEW v \in Writers, pc'[v] = "write" PROVE v = w
  BY <1>1, <1>9 DEF LockInv, Inside, Pcs, Written
<1>10. CASE field[w] = Arity(pkt[w])
  <2>1. pc'[w] = "done"
    BY <1>1, <1>10 DEF LockInv, Written
  <2>2. Stream'[Len(Stream')][2] = Len(Fields[kind'[Stream'[Len(Stream')][1]]])
    BY <1>1, <1>5, <1>10 DEF Arity
  <2> QED BY <1>8, <1>9, <2>1, <2>2 DEF StreamInv, AtBoundary, Arity
<1>11. CASE field[w] # Arity(pkt[w])
  <2>1. pc'[w] = "write" /\ field'[w] = field[w] + 1 /\ field[w] + 1 # 1
    BY <1>1, <1>2, <1>11, ArityType DEF LockInv, PacketInv, Written
  <2>2. Stream' # <<>> /\ Stream'[Len(Stream')] = <<pkt'[w], field'[w] - 1>>
    BY <1>1, <1>2, <1>4, <1>5, <2>1, ArityType, AppendProperties, StreamType, <1>3
  <2> QED BY <1>8, <1>9, <2>1, <2>2 DEF StreamInv
<1> QED BY <1>10, <1>11

LEMMA NextStreamInv ==
  LockInv /\ StrandInv /\ PacketInv /\ StreamInv /\ [Next]_vars => StreamInv'
<1> SUFFICES ASSUME LockInv, StrandInv, PacketInv, StreamInv, [Next]_vars
             PROVE  StreamInv'
  OBVIOUS
<1>0. pc \in [Writers -> Pcs]
  BY DEF LockInv
<1> USE <1>0 DEF Pcs
<1>1. ASSUME NEW w \in Writers, NEW k \in Kinds, Begin(w, k) PROVE StreamInv'
  <2>1. Unmixed' /\ Stream' = Stream /\ (AtBoundary => AtBoundary')
    BY <1>1, StreamKept DEF Begin, Stream
  <2>2. /\ \A v \in Writers : pc'[v] = "write" <=> pc[v] = "write"
        /\ \A v \in Writers : pc[v] = "write" => pkt'[v] = pkt[v]
        /\ field' = field /\ sockErr' = sockErr
    BY <1>1 DEF Begin, PacketInv
  <2> QED BY <2>1, <2>2 DEF StreamInv
<1>2. ASSUME NEW w \in Writers, Lock(w) PROVE StreamInv'
  <2>1. Unmixed' /\ Stream' = Stream /\ (AtBoundary => AtBoundary')
    BY <1>2, StreamKept DEF Lock, Stream
  <2>2. \A v \in Writers : pc[v] # "write"
    BY <1>2 DEF Lock, LockInv, Inside
  <2>3. /\ \A v \in Writers : pc'[v] = "write" => field'[v] = 1
        /\ sockErr' = sockErr
    BY <1>2, <2>2 DEF Lock, PacketInv
  <2> QED BY <2>1, <2>2, <2>3 DEF StreamInv
<1>3. ASSUME NEW w \in Writers, WriteFails(w) PROVE StreamInv'
  <2>1. sockErr' = TRUE /\ kind' = kind
    BY <1>3 DEF WriteFails, SocketFails, PacketInv
  <2>2. net' \o sockBuf' = Stream
    <3>1. CASE sockErr
      BY <1>3, <3>1 DEF WriteFails, Stream
    <3>2. CASE ~sockErr
      <4>1. Len(sockBuf) \in Int /\ Len(sockBuf) <= Len(sockBuf)
        BY DEF PacketInv
      <4>2. SocketFails(Len(sockBuf))
        BY <1>3, <3>2 DEF WriteFails
      <4> QED BY <4>1, <4>2, StreamSurvives
    <3> QED BY <3>1, <3>2
  <2>3. Unmixed'
    BY <2>1, <2>2, StreamKept
  <2> QED BY <2>1, <2>3 DEF StreamInv
<1>4. ASSUME NEW w \in Writers, Fail(w) \/ Done(w) \/ Flush(w) PROVE StreamInv'
  <2>1. /\ kind' = kind /\ pc[w] # "write" /\ pc'[w] # "write"
        /\ \A v \in Writers \ {w} : pc'[v] = pc[v] /\ pkt'[v] = pkt[v] /\ field'[v] = field[v]
    BY <1>4 DEF Fail, Done, Flush, Return, PacketInv
  <2>2. net' \o sockBuf' = Stream /\ (~sockErr' => ~sockErr)
    <3>1. CASE Fail(w) \/ Done(w)
      BY <3>1 DEF Fail, Done, Stream
    <3>2. CASE net' = net \o sockBuf /\ sockBuf' = <<>> /\ UNCHANGED sockErr
      BY <3>2, StreamFlushed
    <3>3. CASE SocketFails(Len(sockBuf) - 1)
      <4>1. Len(sockBuf) - 1 \in Int /\ Len(sockBuf) - 1 <= Len(sockBuf)
        BY DEF PacketInv
      <4>2. net' \o sockBuf' = Stream
        BY <3>3, <4>1, StreamSurvives
      <4> QED BY <3>3, <4>2 DEF SocketFails
    <3> QED BY <1>4, <3>1, <3>2, <3>3 DEF Flush
  <2>3. Unmixed' /\ Stream' = Stream /\ (AtBoundary => AtBoundary')
    BY <2>1, <2>2, StreamKept
  <2> QED BY <2>1, <2>2, <2>3 DEF StreamInv
<1>5. CASE Break \/ UNCHANGED vars
  <2>1. UNCHANGED <<net, sockBuf, sockErr, pc, pkt, field, kind>>
    BY <1>5 DEF Break, vars
  <2>2. Unmixed' /\ Stream' = Stream /\ (AtBoundary => AtBoundary')
    BY <2>1, StreamKept DEF Stream
  <2> QED BY <2>1, <2>2 DEF StreamInv
<1> QED
  BY <1>1, <1>2, <1>3, <1>4, <1>5, StreamGrows DEF Next, WriterStep

-----------------------------------------------------------------------------
LEMMA InitStream == Init => PacketInv /\ StreamInv /\ StrandInv
<1> SUFFICES ASSUME Init PROVE PacketInv /\ StreamInv /\ StrandInv
  OBVIOUS
<1>1. PacketInv
  <2>1. kind \in Seq(Kinds) /\ net \in Seq(Unit) /\ sockBuf \in Seq(Unit)
        /\ Len(kind) = 0 /\ Len(sockBuf) = 0
    BY EmptySeq DEF Init
  <2>2. pkt \in [Writers -> 0 .. 0] /\ field \in [Writers -> 0 .. 6] /\ accepted = {}
        /\ \A w \in Writers : pc[w] = "idle"
    BY DEF Init
  <2>3. MaxPackets >= 0 /\ Capacity >= 0
    BY SendPacketAssumption
  <2>4. sockErr \in BOOLEAN /\ broken \in BOOLEAN
    BY DEF Init
  <2> QED BY <2>1, <2>2, <2>3, <2>4 DEF PacketInv
<1>2. Stream = <<>> /\ Len(Stream) = 0
  BY ConcatEmptySeq DEF Init, Stream
<1> QED BY <1>1, <1>2 DEF Init, StreamInv, Unmixed, AtBoundary, StrandInv

\* Packets of any number of goroutines reach the relay whole and one after the
\* other, across spills, failed writes and packets given up halfway.
THEOREM PacketsUnmixed == Spec => []Unmixed
<1>1. StreamInv => Unmixed
  BY DEF StreamInv
<1> QED
  BY <1>1, InitLockInv, NextLockInv, InitCounted, NextCounted, NextStrandInv,
     InitStream, NextPacketInv, NextStreamInv, PTL DEF Spec

\* Every variable keeps its type, and the count of pending writes is never
\* negative.
THEOREM SendPacketTypeCorrect == Spec => []TypeOK
<1>1. LockInv /\ Counted /\ PacketInv => TypeOK
  <2> SUFFICES ASSUME LockInv, Counted, PacketInv PROVE TypeOK
    OBVIOUS
  <2>1. sockWait \in Nat
    BY PendingFinite DEF Counted, Pending
  <2>2. Unit \subseteq Units
    BY SendPacketAssumption DEF PacketInv, Unit, Units
  <2>3. net \in Seq(Units) /\ sockBuf \in Seq(Units)
    BY <2>2, SeqMonotonic DEF PacketInv
  <2>4. pkt \in [Writers -> 0 .. MaxPackets] /\ accepted \subseteq 1 .. MaxPackets
    BY SendPacketAssumption DEF PacketInv
  <2> QED BY <2>1, <2>3, <2>4 DEF TypeOK, LockInv, Pcs, PacketInv
<1> QED
  BY <1>1, InitLockInv, NextLockInv, InitCounted, NextCounted, InitStream,
     NextPacketInv, PTL DEF Spec
=============================================================================
