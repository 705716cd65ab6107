---------------------------- MODULE InboundQueue ----------------------------
(***************************************************************************)
(* The memory-capped queue in front of a handler pool.  The binding has     *)
(* three: broadcasts and requests of a service (events.go, handleBroadcast  *)
(* and handleRequest) and events of a topic (topic.go, handlePublish).      *)
(*                                                                         *)
(* Broadcasts and requests are scheduled by the one process() goroutine;    *)
(* every event is scheduled by a goroutine of its own (proto.go,            *)
(* procPublish).  The load of the usage counter and the addition to it are  *)
(* two steps.                                                              *)
(*                                                                         *)
(* The thread pool is external (package pool of Iris): a FIFO of tasks,     *)
(* run by at most Threads goroutines once it is started.  A thread's first  *)
(* statement is to release the task's memory, so both are one step.         *)
(***************************************************************************)
EXTENDS Integers, Sequences, FiniteSets, Totals

CONSTANTS
  Producers,   \* goroutines that schedule arrived messages
  Sizes,       \* lengths of the messages
  Limit,       \* BroadcastMemory, RequestMemory or EventMemory
  Threads,     \* BroadcastThreads, RequestThreads or EventThreads
  Expiring,    \* messages expire while they wait (requests)
  MaxInt,      \* largest value of the 32 bit usage counter
  MaxMessages  \* bound: messages that arrive

ASSUME InboundQueueAssumption ==
  /\ Sizes \subseteq Nat
  /\ Limit \in Nat /\ Threads \in Nat /\ MaxInt \in Nat /\ MaxMessages \in Nat
  /\ Expiring \in BOOLEAN

VARIABLES
  used,      \* bcastUsed, reqUsed or eventUsed
  hand,      \* per producer: length of the message it schedules, or <<>>
  seen,      \* per producer: usage it has loaded
  tasks,     \* tasks scheduled and not started: message, length
  running,   \* messages whose handler runs
  started,   \* the pool was started
  quit,      \* the pool was terminated
  expired,   \* messages whose timer has fired
  outcome,   \* what became of every admitted message
  admitted,  \* history: bytes ever admitted
  released   \* history: bytes ever released by the threads

vars == <<used, hand, seen, tasks, running, started, quit, expired, outcome,
          admitted, released>>

\* What the 32 bits can hold, and how many values that are.
Int32s == -(MaxInt + 1) .. MaxInt
Range32 == 2 * (MaxInt + 1)

\* Conversion of an int to int32, and the sum of two int32.
Int32(x) == ((x + MaxInt + 1) % Range32) - (MaxInt + 1)

Init ==
  /\ used = 0
  /\ hand = [p \in Producers |-> <<>>]
  /\ seen = [p \in Producers |-> 0]
  /\ tasks = <<>> /\ running = {}
  /\ started = FALSE /\ quit = FALSE
  /\ expired = {} /\ outcome = <<>>
  /\ admitted = 0 /\ released = 0

-----------------------------------------------------------------------------
\* A message of length n arrives: its goroutine loads the usage.
Arrive(p, n) ==
  /\ hand[p] = <<>>
  /\ Len(outcome) < MaxMessages
  /\ hand' = [hand EXCEPT ![p] = <<n>>]
  /\ seen' = [seen EXCEPT ![p] = used]
  /\ UNCHANGED <<used, tasks, running, started, quit, expired, outcome,
                 admitted, released>>

\* mutant: one byte too many is let in.
FitsOffByOne(p) == seen[p] + hand[p][1] <= Limit + 1

Fits(p) == seen[p] + hand[p][1] <= Limit

\* Enough memory: add to the usage and schedule the handler.  Nobody but the
\* producers reads the usage, and a thread lowers it only for a task that is
\* scheduled, so both are one step.  A terminated pool refuses the task;
\* nobody looks at that error.
Admit(p) ==
  /\ hand[p] # <<>>
  /\ Fits(p)
  /\ LET n == hand[p][1] IN
     /\ used' = Int32(used + Int32(n))
     /\ admitted' = admitted + n
     /\ IF quit
        THEN outcome' = Append(outcome, "lost") /\ UNCHANGED tasks
        ELSE /\ outcome' = Append(outcome, "queued")
             /\ tasks' = Append(tasks, [msg |-> Len(outcome) + 1, len |-> n])
  /\ hand' = [hand EXCEPT ![p] = <<>>]
  /\ UNCHANGED <<seen, running, started, quit, expired, released>>

\* Not enough memory: log and drop.
Refuse(p) ==
  /\ hand[p] # <<>>
  /\ ~Fits(p)
  /\ hand' = [hand EXCEPT ![p] = <<>>]
  /\ UNCHANGED <<used, seen, tasks, running, started, quit, expired, outcome,
                 admitted, released>>

-----------------------------------------------------------------------------
(* The pool and its threads.                                               *)

StartPool ==
  /\ ~started /\ ~quit
  /\ started' = TRUE
  /\ UNCHANGED <<used, hand, seen, tasks, running, quit, expired, outcome,
                 admitted, released>>

\* mutants: an expired request keeps its memory, or keeps its thread.
StartTaskKeepsMemory ==
  /\ started /\ tasks # <<>> /\ Cardinality(running) < Threads
  /\ LET t == Head(tasks) IN
     IF t.msg \in expired
     THEN /\ outcome' = [outcome EXCEPT ![t.msg] = "expired"]
          /\ UNCHANGED <<used, released, running>>
     ELSE /\ used' = Int32(used - Int32(t.len))
          /\ released' = released + t.len
          /\ outcome' = [outcome EXCEPT ![t.msg] = "running"]
          /\ running' = running \cup {t.msg}
  /\ tasks' = Tail(tasks)
  /\ UNCHANGED <<hand, seen, started, quit, expired, admitted>>

RunKeepsThread(m) ==
  /\ running' = running \cup {m}
  /\ outcome' = [outcome EXCEPT ![m] =
                   IF m \in expired THEN "expired" ELSE "running"]

\* The scheduled function after the release: a request that expired while it
\* was queued is dropped, everything else goes to the handler.
Run(m) ==
  IF m \in expired
  THEN /\ outcome' = [outcome EXCEPT ![m] = "expired"]
       /\ UNCHANGED running
  ELSE /\ outcome' = [outcome EXCEPT ![m] = "running"]
       /\ running' = running \cup {m}

\* mutant: the memory is released twice.
StartTaskTwice ==
  /\ started /\ tasks # <<>> /\ Cardinality(running) < Threads
  /\ used' = Int32(used - 2 * Int32(Head(tasks).len))
  /\ released' = released + Head(tasks).len
  /\ tasks' = Tail(tasks)
  /\ Run(Head(tasks).msg)
  /\ UNCHANGED <<hand, seen, started, quit, expired, admitted>>

\* A free thread takes the oldest task and releases its memory.
StartTask ==
  /\ started /\ tasks # <<>> /\ Cardinality(running) < Threads
  /\ used' = Int32(used - Int32(Head(tasks).len))
  /\ released' = released + Head(tasks).len
  /\ tasks' = Tail(tasks)
  /\ Run(Head(tasks).msg)
  /\ UNCHANGED <<hand, seen, started, quit, expired, admitted>>

\* The application's handler returns (and the reply to a request is sent).
Finish(m) ==
  /\ m \in running /\ outcome[m] = "running"
  /\ running' = running \ {m}
  /\ outcome' = [outcome EXCEPT ![m] = "handled"]
  /\ UNCHANGED <<used, hand, seen, tasks, started, quit, expired, admitted,
                 released>>

\* The timer of a request fires.
Expire(m) ==
  /\ Expiring
  /\ m \notin expired
  /\ expired' = expired \cup {m}
  /\ UNCHANGED <<used, hand, seen, tasks, running, started, quit, outcome,
                 admitted, released>>

\* Terminate(clear): a service drops what is queued, a topic lets it run.
Terminate(clear) ==
  /\ ~quit
  /\ quit' = TRUE
  /\ IF clear
     THEN /\ tasks' = <<>>
          /\ outcome' = [m \in DOMAIN outcome |->
                IF outcome[m] = "queued" THEN "lost" ELSE outcome[m]]
     ELSE UNCHANGED <<tasks, outcome>>
  /\ UNCHANGED <<used, hand, seen, running, started, expired, admitted,
                 released>>

-----------------------------------------------------------------------------
ProducerStep(p) ==
  \/ \E n \in Sizes : Arrive(p, n)
  \/ Admit(p)
  \/ Refuse(p)

PoolStep ==
  \/ StartPool
  \/ StartTask
  \/ \E m \in running : Finish(m)
  \/ \E m \in DOMAIN outcome : Expire(m)
  \/ \E clear \in BOOLEAN : Terminate(clear)

Next == (\E p \in Producers : ProducerStep(p)) \/ PoolStep

Spec == Init /\ [][Next]_vars

\* Threads of a started pool run, and the application's handlers return.
Fairness ==
  /\ WF_vars(StartTask)
  /\ \A m \in 1 .. MaxMessages : WF_vars(m \in running /\ Finish(m))

FairSpec == Spec /\ Fairness

-----------------------------------------------------------------------------
(* Properties.                                                             *)

Outcomes == {"queued", "running", "handled", "expired", "lost"}
Task == [msg : Nat, len : Sizes]

\* The type invariant: the counter is what was admitted and not released, as
\* far as 32 bits can tell.  This holds on every path and for any producers,
\* also when a limit above MaxInt lets the counter wrap around.
TypeOK ==
  /\ used \in Int32s
  /\ (admitted - released - used) % Range32 = 0
  /\ hand \in [Producers -> {<<>>} \cup {<<n>> : n \in Sizes}]
  /\ seen \in [Producers -> Int32s]
  /\ tasks \in Seq(Task)
  /\ running \subseteq Nat /\ expired \subseteq Nat
  /\ started \in BOOLEAN /\ quit \in BOOLEAN
  /\ outcome \in Seq(Outcomes)
  /\ admitted \in Nat /\ released \in Nat

\* "The memory limit [defines] the maximal length of the pending queue": what
\* was admitted and not yet started never exceeds the limit.  This is what
\* the comment "Safe, since only 1 thread increments!" relies on.
MemoryBounded == admitted - released <= Limit

\* Bytes of the scheduled tasks.
Queued == Total([i \in 1 .. Len(tasks) |-> tasks[i].len])

\* The counter is exact: until the pool is terminated it is the number of
\* bytes queued, so no message, expired or not, keeps memory for good.
UsageExact == ~quit => used = Queued

Has(m, outcomes) == m \in DOMAIN outcome /\ outcome[m] \in outcomes

\* What was admitted is handled, expires or is lost to the termination of the
\* pool; expired requests do not take a thread or the queue with them.
QueueDrains ==
  \A m \in 1 .. MaxMessages :
    started /\ Has(m, {"queued"}) ~> Has(m, {"handled", "expired", "lost"})
=============================================================================
