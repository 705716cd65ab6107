------------------------- MODULE InboundQueueProofs -------------------------
(***************************************************************************)
(* Proofs about InboundQueue.  What the counter means modulo its range is   *)
(* proved for any producers and any limit; the cap and the exact usage for  *)
(* one producer, as for broadcasts and requests, which process() alone      *)
(* schedules, and for a limit that the counter can hold.                   *)
(***************************************************************************)
EXTENDS InboundQueue, TotalsProofs

\* Everything but the counters keeps its type.
TaskInv ==
  /\ tasks \in Seq(Task) /\ outcome \in Seq(Outcomes)
  /\ hand \in [Producers -> {<<>>} \cup {<<n>> : n \in Sizes}]
  /\ running \subseteq Nat /\ expired \subseteq Nat
  /\ started \in BOOLEAN /\ quit \in BOOLEAN

\* As far as 32 bits can tell, d bytes are u.
SameBits(d, u) == \E k \in Int : d = u + Range32 * k

\* The counter is what was admitted and not released, modulo its range.
CounterInv ==
  /\ admitted \in Nat /\ released \in Nat
  /\ used \in Int32s /\ seen \in [Producers -> Int32s]
  /\ SameBits(admitted - released, used)

\* The counter is what was admitted and not released, which is what is queued
\* unless the pool was terminated; behind a producer's back it only drops.
UsageInv ==
  /\ admitted \in Nat /\ released \in Nat /\ released <= admitted
  /\ used = admitted - released /\ used <= Limit
  /\ Queued \in Nat /\ Queued <= used /\ (~quit => used = Queued)
  /\ seen \in [Producers -> 0 .. Limit]
  /\ \A p \in Producers : hand[p] # <<>> => used <= seen[p]

-----------------------------------------------------------------------------
(* The 32 bits.                                                            *)

\* A conversion gives up a multiple of the range.
LEMMA Truncated ==
  ASSUME NEW x \in Int
  PROVE  /\ Int32(x) \in Int32s /\ Int32(x) \in Int
         /\ \E k \in Int : Int32(x) = x + Range32 * k
<1>1. Range32 \in Nat /\ Range32 > 0 /\ Range32 = 2 * (MaxInt + 1) /\ MaxInt \in Nat
  BY InboundQueueAssumption DEF Range32
<1>2. PICK W \in Nat : W = Range32 /\ W > 0
  BY <1>1
<1>3. PICK y \in Int : y = x + MaxInt + 1
  BY <1>1
<1>4. y % W \in 0 .. W - 1 /\ y \div W \in Int /\ y = W * (y \div W) + (y % W)
  BY <1>2, IntDivMod
<1>5. PICK r \in Int, q \in Int : r \in 0 .. W - 1 /\ r = y % W /\ q = y \div W /\ y = W * q + r
  BY <1>4
<1>6. Int32(x) = r - (MaxInt + 1)
  BY <1>2, <1>3, <1>5 DEF Int32
<1>7. Int32(x) \in Int32s /\ Int32(x) \in Int
  BY <1>1, <1>2, <1>5, <1>6 DEF Int32s
<1>8. W * (-q) = -(W * q)
  OBVIOUS
<1>9. Int32(x) = x + W * (-q) /\ -q \in Int
  BY <1>1, <1>3, <1>5, <1>6, <1>8
<1> QED BY <1>2, <1>7, <1>9

\* No conversion wraps around within a limit that fits.
LEMMA NoWrap ==
  ASSUME Limit <= MaxInt, NEW x \in 0 .. Limit
  PROVE  Int32(x) = x
<1>1. MaxInt \in Nat /\ Limit \in Nat /\ x \in Nat
  BY InboundQueueAssumption
<1>2. PICK W \in Nat : W = Range32 /\ W = 2 * (MaxInt + 1)
  BY <1>1 DEF Range32
<1>3. PICK y \in Nat : y = x + MaxInt + 1 /\ y < W
  BY <1>1, <1>2
<1>4. y % W = y
  BY <1>3, SmallMod
<1> QED BY <1>1, <1>2, <1>3, <1>4 DEF Int32

\* Adding a length to the counter, or taking it back.
LEMMA CounterMoves ==
  ASSUME NEW u \in Int, NEW n \in Int, NEW d \in Int, SameBits(d, u)
  PROVE  /\ SameBits(d + n, Int32(u + Int32(n)))
         /\ SameBits(d - n, Int32(u - Int32(n)))
<1>0. PICK k \in Int : d = u + Range32 * k
  BY DEF SameBits
<1>1. PICK W \in Int : W = Range32
  BY InboundQueueAssumption DEF Range32
<1>2. PICK a \in Int : a = Int32(n)
  BY Truncated
<1>3. PICK b \in Int, c \in Int : b = Int32(u + a) /\ c = Int32(u - a)
  BY Truncated
<1>4. PICK i \in Int : a = n + W * i
  BY <1>1, <1>2, Truncated
<1>5. PICK j \in Int : b = (u + a) + W * j
  <2>1. u + a \in Int
    OBVIOUS
  <2> QED BY <1>1, <1>3, <2>1, Truncated
<1>6. PICK l \in Int : c = (u - a) + W * l
  <2>1. u - a \in Int
    OBVIOUS
  <2> QED BY <1>1, <1>3, <2>1, Truncated
<1>7. d + n = b + W * (k - i - j) /\ k - i - j \in Int
  BY <1>0, <1>1, <1>4, <1>5
<1>8. d - n = c + W * (k + i - l) /\ k + i - l \in Int
  BY <1>0, <1>1, <1>4, <1>6
<1>9. \E m \in Int : d + n = b + W * m
  BY <1>7
<1>10. \E m \in Int : d - n = c + W * m
  BY <1>8
<1> QED BY <1>1, <1>2, <1>3, <1>9, <1>10 DEF SameBits

-----------------------------------------------------------------------------
(* The bytes queued.                                                       *)

Lens(q) == [i \in 1 .. Len(q) |-> q[i].len]

LEMMA LensType ==
  ASSUME NEW q \in Seq(Task)
  PROVE  Lens(q) \in Seq(Nat) /\ Len(Lens(q)) = Len(q)
<1>1. Len(q) \in Nat /\ \A i \in 1 .. Len(q) : q[i].len \in Nat
  <2>1. \A t \in Task : t.len \in Nat
    BY InboundQueueAssumption DEF Task
  <2> QED BY <2>1
<1> QED BY <1>1, IsASeq DEF Lens

LEMMA LensTotal ==
  /\ \A q \in Seq(Task) : Total(Lens(q)) \in Nat
  /\ Total(Lens(<<>>)) = 0
  /\ Queued = Total(Lens(tasks)) /\ Queued' = Total(Lens(tasks'))
<1>1. \A q \in Seq(Task) : Total(Lens(q)) \in Nat
  BY LensType, TotalType
<1>2. Lens(<<>>) = <<>>
  BY DEF Lens
<1> QED BY <1>1, <1>2, TotalEmpty DEF Queued, Lens

LEMMA QueuedAppend ==
  ASSUME tasks \in Seq(Task), NEW t \in Task, tasks' = Append(tasks, t)
  PROVE  Queued' = Queued + t.len
<1>1. /\ tasks' \in Seq(Task) /\ Len(tasks') = Len(tasks) + 1
      /\ tasks'[Len(tasks')] = t /\ \A i \in 1 .. Len(tasks) : tasks'[i] = tasks[i]
  OBVIOUS
<1>2. /\ Lens(tasks) \in Seq(Nat) /\ Lens(tasks') \in Seq(Nat)
      /\ Len(Lens(tasks)) = Len(tasks) /\ Len(Lens(tasks')) = Len(tasks) + 1
  BY <1>1, LensType
<1>3. /\ \A i \in 1 .. Len(tasks) : Lens(tasks')[i] = Lens(tasks)[i]
      /\ Lens(tasks')[Len(tasks) + 1] = t.len
  BY <1>1 DEF Lens
<1> QED BY <1>2, <1>3, TotalAppend, LensTotal

LEMMA QueuedTail ==
  ASSUME tasks \in Seq(Task), tasks # <<>>, tasks' = Tail(tasks)
  PROVE  Queued = Head(tasks).len + Queued'
<1>1. /\ tasks' \in Seq(Task) /\ Len(tasks) = Len(tasks') + 1
      /\ Head(tasks) = tasks[1] /\ \A i \in 1 .. Len(tasks') : tasks'[i] = tasks[i + 1]
  OBVIOUS
<1>2. /\ Lens(tasks) \in Seq(Nat) /\ Lens(tasks') \in Seq(Nat)
      /\ Len(Lens(tasks)) = Len(tasks) /\ Len(Lens(tasks')) = Len(tasks')
  BY <1>1, LensType
<1>3. /\ \A i \in 1 .. Len(tasks') : Lens(tasks')[i] = Lens(tasks)[i + 1]
      /\ Lens(tasks)[1] = Head(tasks).len
  BY <1>1 DEF Lens
<1> QED BY <1>1, <1>2, <1>3, TotalTail, LensTotal

-----------------------------------------------------------------------------
LEMMA InitQueue == Init => TaskInv /\ CounterInv /\ UsageInv
<1> USE InboundQueueAssumption
<1> SUFFICES ASSUME Init PROVE TaskInv /\ CounterInv /\ UsageInv
  OBVIOUS
<1>1. TaskInv
  <2>1. tasks \in Seq(Task) /\ outcome \in Seq(Outcomes)
    BY EmptySeq DEF Init
  <2> QED BY <2>1 DEF Init, TaskInv
<1>2. Queued = 0
  BY LensTotal DEF Init
<1>3. UsageInv
  BY <1>2 DEF Init, UsageInv
<1>4. CounterInv
  <2>1. 0 \in Int32s /\ Range32 * 0 = 0
    BY DEF Int32s, Range32
  <2>2. SameBits(admitted - released, used)
    BY <2>1 DEF Init, SameBits
  <2> QED BY <2>1, <2>2 DEF Init, CounterInv
<1> QED BY <1>1, <1>3, <1>4

-----------------------------------------------------------------------------
(* Types, for any producers and any limit.                                 *)

\* A message in hand has one of the sizes.
LEMMA InHand ==
  ASSUME TaskInv, NEW p \in Producers, hand[p] # <<>>
  PROVE  hand[p][1] \in Sizes /\ hand[p] = <<hand[p][1]>>
BY DEF TaskInv

\* The first task that is queued, if there is one.
LEMMA FirstTask ==
  ASSUME TaskInv, tasks # <<>>
  PROVE  /\ tasks \in Seq(Task) /\ Tail(tasks) \in Seq(Task)
         /\ Head(tasks).msg \in Nat /\ Head(tasks).len \in Sizes
<1>1. tasks \in Seq(Task) /\ Head(tasks) \in Task /\ Tail(tasks) \in Seq(Task)
  BY HeadTailProperties DEF TaskInv
<1> QED BY <1>1 DEF Task

\* The outcome of one message changes.
LEMMA OutcomeChanged ==
  ASSUME outcome \in Seq(Outcomes), NEW m, NEW o \in Outcomes,
         outcome' = [outcome EXCEPT ![m] = o]
  PROVE  outcome' \in Seq(Outcomes)
<1>1. PICK k \in Nat : outcome \in [1 .. k -> Outcomes]
  BY SeqDef
<1>2. outcome' \in [1 .. k -> Outcomes]
  BY <1>1
<1> QED BY <1>2, SeqDef

LEMMA NextTaskInv == TaskInv /\ [Next]_vars => TaskInv'
<1> USE InboundQueueAssumption
<1> SUFFICES ASSUME TaskInv, [Next]_vars PROVE TaskInv'
  OBVIOUS
<1>1. ASSUME NEW p \in Producers, NEW n \in Sizes, Arrive(p, n) PROVE TaskInv'
  BY <1>1 DEF Arrive, TaskInv
<1>2. ASSUME NEW p \in Producers, Admit(p) PROVE TaskInv'
  <2>1. PICK n \in Sizes : hand[p][1] = n
    BY <1>2, InHand DEF Admit
  <2>2. tasks \in Seq(Task) /\ outcome \in Seq(Outcomes) /\ Len(outcome) \in Nat
    BY DEF TaskInv
  <2>3. tasks' \in Seq(Task)
    <3>1. [msg |-> Len(outcome) + 1, len |-> n] \in Task
      BY <2>2 DEF Task
    <3>2. tasks' = tasks \/ tasks' = Append(tasks, [msg |-> Len(outcome) + 1, len |-> n])
      BY <1>2, <2>1 DEF Admit
    <3> QED BY <2>2, <3>1, <3>2, AppendProperties
  <2>4. \E o \in Outcomes : outcome' = Append(outcome, o)
    BY <1>2 DEF Admit, Outcomes
  <2>5. outcome' \in Seq(Outcomes)
    BY <2>2, <2>4
  <2> QED BY <1>2, <2>3, <2>5 DEF TaskInv, Admit
<1>3. ASSUME NEW p \in Producers, Refuse(p) PROVE TaskInv'
  BY <1>3 DEF Refuse, TaskInv
<1>4. CASE StartTask
  <2>1. tasks' \in Seq(Task) /\ Head(tasks).msg \in Nat
    BY <1>4, FirstTask DEF StartTask
  <2>2. \E o \in Outcomes : outcome' = [outcome EXCEPT ![Head(tasks).msg] = o]
    BY <1>4 DEF StartTask, Run, Outcomes
  <2>3. outcome' \in Seq(Outcomes)
    BY <2>2, OutcomeChanged DEF TaskInv
  <2>4. running' \subseteq Nat
    BY <1>4, <2>1 DEF StartTask, Run, TaskInv
  <2> QED BY <1>4, <2>1, <2>3, <2>4 DEF TaskInv, StartTask
<1>5. CASE StartPool \/ UNCHANGED vars
  BY <1>5 DEF StartPool, vars, TaskInv
<1>6. ASSUME NEW m \in running, Finish(m) PROVE TaskInv'
  <2>1. "handled" \in Outcomes /\ outcome' = [outcome EXCEPT ![m] = "handled"]
    BY <1>6 DEF Finish, Outcomes
  <2>2. outcome' \in Seq(Outcomes)
    BY <2>1, OutcomeChanged DEF TaskInv
  <2> QED BY <1>6, <2>2 DEF Finish, TaskInv
<1>7. ASSUME NEW m \in DOMAIN outcome, Expire(m) PROVE TaskInv'
  <2>1. m \in Nat
    BY <1>7 DEF TaskInv
  <2> QED BY <1>7, <2>1 DEF Expire, TaskInv
<1>8. ASSUME NEW clear \in BOOLEAN, Terminate(clear) PROVE TaskInv'
  <2>1. PICK k \in Nat : outcome \in [1 .. k -> Outcomes]
    BY SeqDef DEF TaskInv
  <2>2. outcome' \in [1 .. k -> Outcomes]
    BY <1>8, <2>1 DEF Terminate, Outcomes
  <2>3. outcome' \in Seq(Outcomes)
    BY <2>2, SeqDef
  <2>4. tasks' \in Seq(Task)
    <3>1. CASE tasks' = tasks
      BY <3>1 DEF TaskInv
    <3>2. CASE tasks' = <<>>
      BY <3>2, EmptySeq
    <3> QED BY <1>8, <3>1, <3>2 DEF Terminate
  <2> QED BY <1>8, <2>3, <2>4 DEF Terminate, TaskInv
<1> QED
  BY <1>1, <1>2, <1>3, <1>4, <1>5, <1>6, <1>7, <1>8
     DEF Next, ProducerStep, PoolStep

LEMMA NextCounterInv == TaskInv /\ CounterInv /\ [Next]_vars => CounterInv'
<1> USE InboundQueueAssumption
<1> SUFFICES ASSUME TaskInv, CounterInv, [Next]_vars PROVE CounterInv'
  OBVIOUS
<1>0. /\ used \in Int32s /\ used \in Int /\ seen \in [Producers -> Int32s]
      /\ admitted \in Nat /\ released \in Nat
  BY DEF CounterInv, Int32s
<1>d. PICK d \in Int : d = admitted - released
  BY <1>0
<1>e. SameBits(d, used)
  BY <1>d DEF CounterInv
<1>1. ASSUME NEW p \in Producers, NEW n \in Sizes, Arrive(p, n) PROVE CounterInv'
  <2>1. seen' \in [Producers -> Int32s]
    BY <1>0, <1>1 DEF Arrive
  <2> QED BY <1>1, <2>1 DEF Arrive, CounterInv, SameBits, Range32
<1>2. ASSUME NEW p \in Producers, Admit(p) PROVE CounterInv'
  <2>1. PICK n \in Nat : n = hand[p][1]
    BY <1>2, InHand DEF Admit
  <2>2. /\ used' = Int32(used + Int32(n)) /\ admitted' = admitted + n
        /\ released' = released /\ seen' = seen
    BY <1>2, <2>1 DEF Admit
  <2>3. SameBits(d + n, used')
    BY <1>0, <1>e, <2>2, CounterMoves
  <2>4. used + Int32(n) \in Int
    BY <1>0, Truncated
  <2>5. used' \in Int32s
    BY <2>2, <2>4, Truncated
  <2>6. admitted' - released' = d + n /\ admitted' \in Nat
    BY <1>0, <1>d, <2>2
  <2> QED BY <1>0, <2>2, <2>3, <2>5, <2>6 DEF CounterInv, SameBits, Range32
<1>3. CASE StartTask
  <2>1. PICK n \in Nat : n = Head(tasks).len
    BY <1>3, FirstTask DEF StartTask
  <2>2. /\ used' = Int32(used - Int32(n)) /\ released' = released + n
        /\ admitted' = admitted /\ seen' = seen
    BY <1>3, <2>1 DEF StartTask
  <2>3. SameBits(d - n, used')
    BY <1>0, <1>e, <2>2, CounterMoves
  <2>4. used - Int32(n) \in Int
    BY <1>0, Truncated
  <2>5. used' \in Int32s
    BY <2>2, <2>4, Truncated
  <2>6. admitted' - released' = d - n /\ released' \in Nat
    BY <1>0, <1>d, <2>2
  <2> QED BY <1>0, <2>2, <2>3, <2>5, <2>6 DEF CounterInv, SameBits, Range32
<1>4. CASE UNCHANGED <<used, seen, admitted, released>>
  BY <1>4 DEF CounterInv, SameBits, Range32
<1>5. CASE \/ \E p \in Producers : Refuse(p)
           \/ StartPool
           \/ \E m \in running : Finish(m)
           \/ \E m \in DOMAIN outcome : Expire(m)
           \/ \E clear \in BOOLEAN : Terminate(clear)
           \/ UNCHANGED vars
  BY <1>4, <1>5 DEF Refuse, StartPool, Finish, Expire, Terminate, vars
<1> QED BY <1>1, <1>2, <1>3, <1>5 DEF Next, ProducerStep, PoolStep

\* Every variable keeps its type, for any producers, sizes and limit: on every
\* path the counter is what was admitted and not released, modulo the range of
\* its 32 bits, whether or not it has wrapped around.
THEOREM QueueTypeCorrect == Spec => []TypeOK
<1>1. TaskInv /\ CounterInv => TypeOK
  <2> SUFFICES ASSUME TaskInv, CounterInv PROVE TypeOK
    OBVIOUS
  <2>1. PICK W \in Nat : W = Range32 /\ W > 0
    BY InboundQueueAssumption DEF Range32
  <2>2. PICK k \in Int : admitted - released = used + W * k
    BY <2>1 DEF CounterInv, SameBits
  <2>3. admitted \in Int /\ released \in Int /\ used \in Int
    BY InboundQueueAssumption DEF CounterInv, Int32s
  <2>4. admitted - released - used = W * k
    BY <2>2, <2>3
  <2>5. (W * k) % W = 0
    BY <2>1, MultipleMod
  <2>6. (admitted - released - used) % Range32 = 0
    BY <2>1, <2>4, <2>5
  <2> QED BY <2>6 DEF TypeOK, TaskInv, CounterInv
<1> QED BY <1>1, InitQueue, NextTaskInv, NextCounterInv, PTL DEF Spec

-----------------------------------------------------------------------------
(* The cap, for one producer and a limit that fits.                        *)

LEMMA AdmitStep ==
  ASSUME NEW p0, Producers = {p0}, Limit <= MaxInt, TaskInv, UsageInv,
         NEW p \in Producers, Admit(p)
  PROVE  UsageInv'
<1> USE InboundQueueAssumption
<1>1. PICK n \in Sizes : hand[p] = <<n>>
  BY DEF Admit, TaskInv
<1>2. /\ n \in Nat /\ used \in Nat /\ seen[p] \in Nat /\ used <= seen[p]
      /\ admitted \in Nat /\ released \in Nat
  <2>1. admitted \in Nat /\ released \in Nat /\ used = admitted - released
        /\ released <= admitted
    BY DEF UsageInv
  <2>2. seen[p] \in 0 .. Limit /\ used <= seen[p]
    BY DEF UsageInv, Admit
  <2> QED BY <2>1, <2>2
<1>3. seen[p] + n <= Limit
  BY <1>1 DEF Admit, Fits
<1>4. Int32(n) = n /\ Int32(used + n) = used + n
  BY <1>2, <1>3, NoWrap
<1>5. /\ used' = used + n /\ admitted' = admitted + n /\ released' = released
      /\ hand' = [hand EXCEPT ![p] = <<>>] /\ seen' = seen /\ quit' = quit
  BY <1>1, <1>4 DEF Admit
<1>6. tasks \in Seq(Task) /\ outcome \in Seq(Outcomes)
  BY DEF TaskInv
<1>7. Queued' = Queued + IF quit THEN 0 ELSE n
  <2>1. CASE quit
    BY <1>6, <2>1, LensTotal DEF Admit
  <2>2. CASE ~quit
    <3> DEFINE t == [msg |-> Len(outcome) + 1, len |-> n]
    <3>1. tasks' = Append(tasks, t)
      BY <1>1, <2>2 DEF Admit
    <3>2. t \in Task /\ t.len = n
      BY <1>2, <1>6 DEF Task
    <3> HIDE DEF t
    <3>3. Queued' = Queued + t.len
      BY <1>6, <3>1, <3>2, QueuedAppend
    <3> QED BY <2>2, <3>2, <3>3
  <2> QED BY <2>1, <2>2
<1>8. /\ Queued' \in Nat /\ Queued' <= used' /\ (~quit' => used' = Queued')
  BY <1>2, <1>5, <1>7 DEF UsageInv
<1>9. \A q \in Producers : hand'[q] = <<>>
  BY <1>5 DEF TaskInv
<1> QED BY <1>2, <1>3, <1>5, <1>8, <1>9 DEF UsageInv

LEMMA StartStep ==
  ASSUME Limit <= MaxInt, TaskInv, UsageInv, StartTask
  PROVE  UsageInv'
<1> USE InboundQueueAssumption
<1> DEFINE n == Head(tasks).len
<1>0. tasks \in Seq(Task) /\ tasks # <<>> /\ tasks' = Tail(tasks)
  BY DEF TaskInv, StartTask
<1>1. Tail(tasks) \in Seq(Task) /\ n \in Nat
  BY <1>0, FirstTask
<1>3. Queued = n + Queued' /\ Queued' \in Nat
  BY <1>0, <1>1, LensTotal, QueuedTail
<1>4. /\ used \in 0 .. Limit /\ admitted \in Nat /\ released \in Nat
      /\ used = admitted - released /\ Queued <= used
  BY DEF UsageInv
<1>5. n \in 0 .. Limit /\ used - n \in 0 .. Limit
  BY <1>1, <1>3, <1>4
<1>6. Int32(n) = n /\ Int32(used - n) = used - n
  BY <1>5, NoWrap
<1>7. /\ used' = used - n /\ released' = released + n
      /\ UNCHANGED <<hand, seen, admitted, quit>>
  BY <1>6 DEF StartTask
<1>8. /\ admitted' \in Nat /\ released' \in Nat /\ released' <= admitted'
      /\ used' = admitted' - released' /\ used' <= Limit /\ used' <= used
      /\ Queued' \in Nat /\ Queued' <= used'
  <2>1. used' = used - n /\ released' = released + n /\ admitted' = admitted
    BY <1>7
  <2>2. n \in Int /\ used \in Int /\ released \in Int /\ admitted \in Int
        /\ Queued' \in Int /\ Queued = n + Queued'
    BY <1>1, <1>3, <1>4
  <2>3. n >= 0 /\ used - n >= 0 /\ used <= Limit /\ Queued' >= 0
        /\ released >= 0 /\ admitted >= 0
        /\ used = admitted - released /\ Queued <= used
    BY <1>1, <1>3, <1>4, <1>5
  <2> HIDE DEF n
  <2>4. used' = admitted' - released' /\ used' \in Int /\ used' >= 0
        /\ admitted' \in Int /\ released' \in Int
    BY <2>1, <2>2, <2>3
  <2>5. admitted' \in Nat /\ released' \in Nat /\ released' <= admitted'
    BY <2>1, <2>2, <2>3, <2>4
  <2>6. used' <= used /\ used' <= Limit
    BY <2>1, <2>2, <2>3
  <2>7. Queued' \in Nat /\ Queued' <= used'
    <3>1. PICK q \in Int : q = Queued'
      BY <2>2
    <3>2. n + q <= used /\ q >= 0
      BY <2>2, <2>3, <3>1
    <3>3. q <= used'
      BY <2>1, <2>2, <3>2
    <3> QED BY <3>1, <3>2, <3>3
  <2> QED BY <2>4, <2>5, <2>6, <2>7
<1>9. \A p \in Producers : hand[p] # <<>> => used' <= seen[p]
  <2>1. \A p \in Producers : seen[p] \in 0 .. Limit
    BY DEF UsageInv
  <2> QED BY <1>4, <1>5, <1>7, <1>8, <2>1 DEF UsageInv
<1>10. ~quit' => used' = Queued'
  <2>1. ASSUME ~quit' PROVE used = Queued
    BY <1>7, <2>1 DEF UsageInv
  <2>2. used = Queued => used' = Queued'
    <3>1. used' = used - n
      BY <1>7
    <3> QED BY <1>1, <1>3, <1>4, <3>1
  <2> QED BY <2>1, <2>2
<1> QED BY <1>7, <1>8, <1>9, <1>10 DEF UsageInv

\* Steps that change neither the tasks nor the counters.
LEMMA UsageFrame ==
  ASSUME UsageInv, tasks' = tasks, quit' = quit,
         UNCHANGED <<used, hand, seen, admitted, released>>
  PROVE  UsageInv'
<1>1. Queued' = Queued
  BY DEF Queued
<1> QED BY <1>1 DEF UsageInv

LEMMA NextUsageInv ==
  ASSUME NEW p0, Producers = {p0}, Limit <= MaxInt
  PROVE  TaskInv /\ UsageInv /\ [Next]_vars => UsageInv'
<1> USE InboundQueueAssumption
<1> SUFFICES ASSUME TaskInv, UsageInv, [Next]_vars PROVE UsageInv'
  OBVIOUS
<1>1. ASSUME NEW p \in Producers, NEW n \in Sizes, Arrive(p, n)
      PROVE  UsageInv'
  <2>1. used \in 0 .. Limit
    BY DEF UsageInv
  <2>2. seen' \in [Producers -> 0 .. Limit]
    BY <1>1, <2>1 DEF Arrive, UsageInv
  <2>3. \A q \in Producers : used <= seen'[q]
    BY <1>1, <2>1 DEF Arrive, UsageInv
  <2>4. Queued' = Queued
    BY <1>1 DEF Arrive, Queued
  <2> QED BY <1>1, <2>2, <2>3, <2>4 DEF Arrive, UsageInv
<1>2. ASSUME NEW p \in Producers, Admit(p) PROVE UsageInv'
  BY <1>2, AdmitStep
<1>3. ASSUME NEW p \in Producers, Refuse(p) PROVE UsageInv'
  <2>1. Queued' = Queued
    BY <1>3 DEF Refuse, Queued
  <2> QED BY <1>3, <2>1 DEF Refuse, UsageInv, TaskInv
<1>4. CASE StartTask
  BY <1>4, StartStep
<1>5. CASE \/ StartPool
           \/ \E m \in running : Finish(m)
           \/ \E m \in DOMAIN outcome : Expire(m)
           \/ UNCHANGED vars
  BY <1>5, UsageFrame DEF StartPool, Finish, Expire, vars
<1>6. ASSUME NEW clear \in BOOLEAN, Terminate(clear) PROVE UsageInv'
  <2>1. UNCHANGED <<used, hand, seen, admitted, released>> /\ quit' = TRUE
    BY <1>6 DEF Terminate
  <2>2. Queued' \in Nat /\ Queued' <= Queued
    <3>1. CASE tasks' = tasks
      BY <3>1 DEF UsageInv, Queued
    <3>2. CASE tasks' = <<>>
      BY <3>2, LensTotal DEF UsageInv
    <3> QED BY <1>6, <3>1, <3>2 DEF Terminate
  <2>3. Queued' <= used' /\ used' = used
    BY <2>1, <2>2 DEF UsageInv
  <2> QED BY <2>1, <2>2, <2>3 DEF UsageInv
<1> QED
  BY <1>1, <1>2, <1>3, <1>4, <1>5, <1>6 DEF Next, ProducerStep, PoolStep

\* The memory cap on pending broadcasts and requests holds for every limit
\* that fits the 32 bit counter, since one goroutine schedules them: the usage
\* it has loaded can only have dropped when it adds to it.
THEOREM MemoryCapHolds ==
  ASSUME NEW p0, Producers = {p0}, Limit <= MaxInt
  PROVE  Spec => []MemoryBounded
<1>1. UsageInv => MemoryBounded
  BY DEF UsageInv, MemoryBounded
<1>2. TaskInv /\ UsageInv /\ [Next]_vars => UsageInv'
  BY NextUsageInv
<1> QED BY <1>1, <1>2, InitQueue, NextTaskInv, PTL DEF Spec

\* Under the same conditions the counter is the number of bytes queued until
\* the pool is terminated: no message keeps memory it does not occupy.
THEOREM UsageIsExact ==
  ASSUME NEW p0, Producers = {p0}, Limit <= MaxInt
  PROVE  Spec => []UsageExact
<1>1. UsageInv => UsageExact
  BY DEF UsageInv, UsageExact
<1>2. TaskInv /\ UsageInv /\ [Next]_vars => UsageInv'
  BY NextUsageInv
<1> QED BY <1>1, <1>2, InitQueue, NextTaskInv, PTL DEF Spec
=============================================================================
