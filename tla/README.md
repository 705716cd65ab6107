# Verification of the Go binding for Iris

The Go binding (package `iris`) attaches a process to a local Iris relay over
one TCP connection.  Through it a client broadcasts, requests, publishes,
subscribes and opens tunnels; a service does the same and also handles what is
sent to its cluster.  This directory holds TLA+ models of the binding's
concurrent core, the TLC runs that check them on small instances and TLAPS
proofs of the main invariants for every value of the constants.

## Inventory

| Component | State | Operations | Interacts through |
|---|---|---|---|
| Packet writer (`proto.go`, `sendPacket`) | buffered writer, `sockLock`, `sockWait` | every `send*` function | called by every goroutine of the binding |
| Receiver loop (`proto.go`, `process`) | the only reader; `term`, `quit` | one `proc*` per opcode, tear-down | calls `handle*`; closes `term`; meets `Close` on `quit` |
| Requests (`connection.go`) | `reqIdx`, `reqReps`, `reqErrs` | `Request`, `handleReply` | one-slot channels filled by `process()` |
| Tunnel construction (`tunnel.go`) | `tunIdx`, `tunLive` | `initTunnel`, `acceptTunnel`, `handleInitResult`, `handleTunnelClose`, `handleClose` | unbuffered channel `init`; spawned goroutines |
| Tunnel data path (`tunnel.go`) | allowance, chunk being assembled, message queue, two one-slot signals, `term` | `Send`, `Recv`, `Close`, `handleAllowance`, `handleTransfer`, `handleClose` | the peer's binding through two relays |
| Inbound queues (`events.go`, `topic.go`) | usage counter, thread pool | `handleBroadcast`, `handleRequest`, `handlePublish`, `terminate` | fed by `process()` or a goroutine per event |
| Services (`service.go`) | pools, handler | `Register`, `Unregister` | `Init` runs while `process()` runs |
| Topics (`connection.go`, `topic.go`) | `subLive`, `subLock`, a pool per topic | `Subscribe`, `Unsubscribe`, `Publish`, `handlePublish`, `terminate` | a goroutine per event; `terminate` waits for handlers |
| Wire codec (`proto.go`) | the packet being read | `send*` and `recv*` of integers, booleans and binaries; `procInit`, one `proc*` per packet | the byte stream from the relay |
| Limits, errors, logging, docs | none | merging of defaults, formatting | |

What is hard in this code: one-slot signals that are set by one goroutine and
reset by another; a flush that is delegated to whoever writes last; counters
checked and updated in separate steps; lookups used after the lock is released;
blocking sends inside the only reader; a tear-down that meets constructions in
progress; timeouts that leave half a message behind.  `PROJECT.json` lists these
hazards at their lines, with the properties that would catch them going wrong.

## Modules

`Tunnel` models one direction of a tunnel: end `S` sends, end `R` receives, each
with its own `process()`.  Variables have the names of the fields of `Tunnel`
(`atoiSpace`, `atoiSign`, `chunkBuf`, `itoaBuf`, `itoaSign`, `term`).  A step is
a critical section or a branch of a `select`; the lookup of a tunnel and its use
after the unlock are two steps.  Bytes are pairs of a message and a position, so
mixing and loss are visible.  `cap` of the Go slice is a variable, and `append`
may leave up to `GrowSlack` bytes of spare capacity when it reallocates.  The
relay keeps transfers in order.  Grants may be split or merged, because every
grant is sent by a goroutine of its own and only their sum matters to the other
end.  Arguments of `Send` are the non-empty messages that pass its check.  A
transfer on the wire also says which part of which message it is, and how many
messages were completed before it; no action depends on that, only the proofs.

`MessageStream` is what a tunnel promises: whole messages, once, in order, none
left behind while it is open.  `Tunnel` implements it under the mapping
`accepted <- completed`, `received <- delivered`, `open <- ~closing`.

`SendPacket` models `sendPacket` and its callers, at the grain of a field of a
packet.  The buffered writer is external: it stores a field, or flushes by
itself first, and its first failure is sticky.

`InboundQueue` models the three memory-capped queues.  The load of the usage
and the addition to it are two steps, and the counter wraps like an `int32` (with
a small `MaxInt`): an addition of two of them and the conversion of a length keep
the low bits.  Nothing is assumed about the limit and the sizes, since the code checks
neither.  The thread pool is external: a FIFO and at most `Threads`
running tasks.  Both ways of terminating a pool are explored.

`Connection` models everything that shares one connection apart from the data
packets: requests, tunnel construction and removal, the end of `process()`,
`Close`, and `Register` from the call of `Init` on.  On a link that is down a
send fails, or is lost with a nil result if `OtherWriters` says that somebody
else's flush may have been counted on.  Position `"blocked"` of `process()`
stands for a send to a missing or full reply channel (with `reqLock` held) and
for the use of a missing tunnel.  The relay is external: it answers what it
received at most once, in any order; it announces the close of a tunnel once.

`Topics` models the subscription map and everything that meets on `subLock`.
The callers of `Subscribe`, `Unsubscribe` and `Close` and the event handlers
(if `Callbacks` says that they call back) are the same kind of process.  `lock`
names the goroutine that terminates a subscription; all other critical sections
are one step.  A call and its first critical section are two steps, so a handler that
waits for `subLock` at the beginning of a call is inside the call.  Outbound `Publish`
only writes a packet and is in `SendPacket`; `ProcPublish` is the arrival of an event.
An event is `arrived` when its goroutine runs, `found` between the
lookup and the scheduling, then `queued` and `running` in the subscription's pool.
Subscriptions are numbered, so that an event of an old one is told from the next
one of the same topic.  Which queued event a thread takes is left open, and any
event may be refused, because the queue is the subject of `InboundQueue`.  The
end of `process()` and the synchronisation of `Close` with it are one flag,
because they are the subject of `Connection`; in return, `Connection` takes from
`Topics` that terminating the topics ends.

`Wire` models the reader of the byte stream: `procInit`, then the loop of
`process()`, one byte of an integer at a time, against the encoding of the `send*`
functions.  `Layout` is what the `proc*` functions read, including the fields that
depend on flags.  `sent` is what the relay will write, chosen initially; a broken
link is a read that fails, at any point.  Malformed packets are an unknown opcode,
an opcode that is only sent, an invalid boolean and a wrong magic.  Base and width
of integers are constants: 8 and 7 bits in the run stand for 128 and 64 bits; in
both the largest integer's last digit has one bit.  On dispatch the integers are
converted as the code does it: to the signed `int` of the same bits (`Signed`), and
timeouts to a `time.Duration` in nanoseconds (`Milliseconds`, with `Milli` for 10^6).
The conversion of a request's result is included: the timeout flag of the relay,
the success flag, `handleReply`.  Results come from a binding of any language, so a
failure with an empty text is among them, although `sendReply` of this one never
writes it.

`Totals` defines the sum of a sequence of numbers, in which `HeldExactly` and
`UsageExact` state the bytes in a queue.  The theorems of a module are in the module
of the same name that ends in `Proofs`; `TunnelOrderProofs` extends `TunnelProofs`,
and `TotalsProofs` has the lemmas about sums and remainders and the form of induction
that others use.

`MCTunnel`, `MCSendPacket`, `MCInboundQueue`, `MCConnection`, `MCTopics` and
`MCWire` are the root modules of the runs.  Operators whose comment begins with "mutant" are faulty
variants of the definition below them; no specification uses them.  They show
that each property can fail.

## Runs

| Run | Result | What it shows |
|---|---|---|
| `tunnel_safety` | pass | Throttling (`BufferBounded`), allowance accounting (`AllowanceConserved`, `HeldExactly`), wake-ups (`SendNotForgotten`, `RecvNotForgotten`, `NoPanic`) and reassembly (`OrderedDelivery`) with one sender and one receiver, through timeouts, partial messages, closes and drops |
| `tunnel_liveness` | pass | A `Send` returns unless the remains of an unfinished message leave no room for its chunk (`SendReturnsUnlessStarved`); every blocked `Recv` and `Close` ends; `Tunnel` implements `MessageStream` |
| `tunnel_overload` | violation | On the same instance: what arrived of a timed out message may keep a later `Send` waiting for ever, although every message fits the buffer |
| `packets` | pass | Packets stay whole, the counter exact and never negative, nothing accepted is left behind |
| `queue_service` | pass | The memory cap and exact usage with one producer; the queue drains |
| `queue_topic` | violation | Two events pass the check on the same usage |
| `connection_requests` | pass | Replies reach their callers, `process()` never blocks, every `Request` returns |
| `connection_tunnels` | pass | No leaked or orphaned tunnel, `Close` is final, constructions and `Close` end |
| `connection_init` | violation | `HandleTunnel` is called during `Init` |
| `topics` | pass | No pool leaks, no handler outlives its subscription, no subscription is deaf at the relay, every call returns |
| `topics_callback` | violation | A handler that calls back and the goroutine that terminates its topic wait for each other |
| `wire` | pass | The handlers see the packets written, with the values their types can hold, up to the first close, violation or failed read; `process()` never waits for bytes that belong to no packet; a reply is taken for a timeout only if it is one or is a failure with an empty text |

Each violation is described in `PROJECT.json` under `findings`, with the line of
the repository it disagrees with.  More findings come from instances of the same
modules that are not kept as runs, because they differ from a passing run in their
constants only: two receivers on a tunnel (`NoPanic` fails), two calls of `Close`
(`CloseEnds` fails), and a memory limit beyond the 32 bits of the usage counter
(`Limit = 8`, `MaxInt = 4`, `MaxMessages = 6`: `MemoryBounded` fails).  Three are in
what the passing runs say: a send may return nil before its packet is flushed
(`Forwarded`), a remote failure with an empty text is reported as a timeout
(`TimeoutsGenuine`), and `handleRequest` does not panic where `service.go` says so.

`SendReturnsUnlessStarved` says how far the defect of `tunnel_overload` goes.  `R` drops
an unfinished message when the first chunk of the next one arrives, and only then
grants its bytes back.  A `Send` waits for ever only if the unfinished message in
assembly, an earlier one or its own, and its chunk together exceed the buffer; so it never
does if every message, its length rounded up to whole chunks, fits the buffer.

### Bounds

* `tunnel_safety`: messages of 1 and 3 bytes, chunks of 2, a buffer of 4, three
  sends: one message needs two chunks, two long ones overrun the buffer, a
  partial message is followed by a whole one and a chunk can reallocate.
* `tunnel_liveness` and `tunnel_overload`: messages of 1 and 3 bytes, chunks of 2, a
  buffer of 3, two sends: a second send has to wait for the allowance of the first,
  also after the first timed out midway.  With the two bytes it left behind, one byte
  is free: enough for the message of one chunk of 1, never for the one that begins with
  a chunk of 2.
* `packets`: three writers and four packets of one and three fields in a buffer
  of two: delegation, automatic flushes within a packet, and failures of each.
* `queue_service`: four messages of 1 or 2 bytes against a limit of 3, two
  threads, a counter whose largest value is 3: the limit is the largest one for which
  the cap holds.
* `connection_requests`: two requesters, three requests, one closer.
  `connection_tunnels`: an opener, an acceptor, a requester, and the goroutine
  in `Register`, which later unregisters.
* `topics`: two topics, two callers, three subscriptions and one event: a topic is
  subscribed to again while an event still holds its first subscription, a failed
  `Subscribe` meets an `Unsubscribe` and another `Subscribe`, and `Close` has two
  topics to terminate.  `MaxSubs` counts a `Subscribe` from its call on, so that no
  call is held up by the bound.  The requested number of threads is 0, so the default counts.
* `wire`: all sequences of two packets after the handshake, with integers 7, 8 and
  127 (one digit, two digits, the largest) and binaries of 0, 7 and 8 bytes.  The
  second packet shows that the first one left the reader in step.  127 is -1 as an
  `int`.  A millisecond of 9 makes 7 the longest timeout that fits a duration (63 of
  63), and 8 the first that does not.  The timeouts this binding sends are durations in
  nanoseconds divided by 10^6 and always fit; those of others may not.

Runs with `CHECK_DEADLOCK FALSE` have behaviours that end because every bounded
call was made.  That nobody waits for ever is what their liveness properties say.

### Fairness

Weak fairness is given to goroutines that are able to take a step: the Go
scheduler runs them.  `Lock` in `SendPacket` has strong fairness, because
`sync.Mutex` hands the lock to every waiter in the end.  The relay forwards what
it holds and answers what it received (a request that nobody replies to, with a
timeout), and a broken link fails the pending read.
The receiving application keeps calling `Recv`, and handlers return (in `Topics`:
unless they called back and wait).  No
fairness makes a call start, a timeout fire, a tunnel close or a link break.

## Proofs

All theorems hold for every value of the constants that satisfies the named
assumption of the module, with the restrictions below.  They cover every invariant
that a passing run checks.

* `TunnelProofs`.  `TypeCorrect`, from `TypeInv` (`TypeOK` and the position of a
  `Send` inside its message, without which the length of a chunk is not a natural
  number).  `OneReceiverNeverPanics` and `OneReceiverNotForgotten`, for one
  receiver: `SignalInv` says that while the receiver waits, the signal is set
  exactly when the buffer holds a message, and that a woken receiver has one.
  `OneSenderNotForgotten`, for one sender: nobody else can consume the signal.
  `AllowanceNeverLeaks`, for any senders and receivers: `BalanceInv` adds that the
  balance is an upper bound even while closing, and that every lost link or closed
  end implies closing.  `BufferNeverExceeded`, also for any senders and
  receivers: `WireInv` says that what was sent has arrived or is on the wire,
  `DrainInv` that nothing is sent that was not drained first, where what the senders
  have drained and not sent yet is counted as a set, `InFlight`; with `BalanceInv`
  both bound what has arrived and was not freed.  `NoByteUnaccounted`, for any
  senders and receivers: `HeldExactly` is inductive, given the types.
* `TunnelOrderProofs`, for one sender and any receivers.  `DeliveryIsOrdered` and
  `TunnelIsAStream`, the safety part of the refinement of `MessageStream`.
  `SendInv` says that a running `Send` is inside a message of the application.
  `PipeInv` follows the transfers from the sender's cursor over the wire and the one
  `process()` has in hand to the message in assembly: each one goes on where the one
  before it ends, or begins another message, and for the first one `chunkBuf` is
  exactly the part before it and its capacity the whole length.  So the test
  `len = cap` of `handleTransfer` holds at the last chunk and at no other, although
  `append` may grow a slice as it likes.  A clause applies as long as the end it
  is about still serves it: a sender whose link is down, or a receiver whose tunnel
  is closed, cannot break the pipe any more.  `OrderInv` says that what was returned
  and what is buffered are the messages completed first.
* `SendPacketProofs`.  `LockInv`: who is inside the critical section holds the
  lock, alone.  `CountExact` follows by counting the writers between increment and
  decrement.  `NothingStranded` rests on `StrandInv`: an unflushed buffer outside
  the critical section implies that a write is pending.  `PacketsUnmixed` rests on
  `StreamInv`: until the socket fails, the bytes written end with a whole packet, or
  just before the field that the writer inside writes next.  `SendPacketTypeCorrect`
  uses `PacketInv`, which bounds the buffer and the fields.
* `InboundQueueProofs`.  `QueueTypeCorrect`, for any producers, sizes and limit, also
  one the counter cannot hold: the counter stays within its 32 bits and is congruent,
  modulo their range, to what was admitted and not released, so a counter that
  wraps around still comes back to zero.  `MemoryCapHolds` and `UsageIsExact`, for one producer and a limit the
  counter can hold, from `QueueInv`: the counter is what was admitted and not released,
  which is what is queued until the pool is terminated and never less than that; it can
  only have dropped since the producer loaded it.  Both hypotheses are needed: two
  producers, or a larger limit, exceed the cap.
* `ConnectionProofs`, for any requesters, builders and closers, for clients and
  services, with lost writes or without.  One invariant, `ConnInv`, gives
  `ConnectionTypeCorrect`, `ProcessNeverBlocked`, `RepliesReachTheirRequest`,
  `MapsNeverLeak`, `TunnelsNeverOrphaned` and `CloseLeavesNothing`.  `ReqIdInv` and
  `ReqMailInv` say that requests in progress have ids of their own and that one the
  relay still has to answer waits with empty channels; `TunIdInv`, `TunLiveInv` and
  `TunInitInv` say that a tunnel id is used once, that a tunnel stays registered
  until it is closed or its construction failed, and that a builder waits for every
  construction the relay has yet to answer; `ProcInv` says what is done at each
  point of the tear-down.
* `TopicsProofs`.  `TopicsTypeCorrect`, `PoolsNeverLeak` and `HandlersNeverOutlive`,
  for any topics, callers and events, callbacks or not, from one invariant:
  `PosInv` ties a call that waits for a pool to the subscription its topic still
  has; `MapInv` says that live subscriptions are distinct and that one neither live
  nor terminated does not exist, so an event that is scheduled late either finds its
  subscription live or is refused; `DrainInv` says that the only terminated pool
  with tasks left is the one somebody is waiting for under `subLock`.  `NeverDeaf`
  adds `RelayInv`: a live topic that the relay does not know has a call that is
  about to send its subscription or to remove it.
* `WireProofs`, for any base of more than 7, any width and any packets.  One
  invariant, `WireInv`, gives `WireTypeCorrect`, `HandlersSeeWhatWasSent`,
  `AlarmsAreTrue` and `TimeoutsAreGenuine`.  `CutInv` says what is left of the stream:
  the rest of the field being read, the other fields of its packet and the packets
  after it, with the fields read so far a prefix of the packet's (`ReadSoFar`).  Inside
  an integer the digits read, and the weight of the next digit times the number still
  encoded, add up to the integer that was sent; so neither wraps around, although the
  code shifts without a test.  `LayoutFits` is the heart of it: the fields that a
  `proc*` function asks for next are those that were written, although the flags of
  a reply or of a confirmation decide about the rest.  `HandledInv` says that what was
  dispatched is what was sent, converted (`Conveyed`): an integer the type can hold
  arrives as it was sent, an `int` that cannot hold it is negative.  That concatenation can be taken apart from the front
  (`FlattenRests`) and that the recursion of `sendVarint` ends (`VarintDef`) are lemmas.
  With a base of 7 the theorems are false: the largest byte, 13, would be an opcode and
  the packet that stands for an unknown opcode would be known.
* `TotalsProofs` has lemmas only: the recursive definition of a sum is well founded,
  and a sum grows by what is appended and shrinks by what is taken off the front; and
  the facts about division and remainders that `InboundQueueProofs` and `WireProofs` use.
  Induction over the naturals is taken in the form of a set without a smallest
  missing number (`SetInduction`), because the library's induction theorems have an
  operator as a parameter.

Model-checked only: every liveness property, and the fairness part of the refinement
of `MessageStream` (fairness is outside the prover).  With
several senders, several receivers or several producers the properties whose theorems
ask for one are not proved because they do not hold, or not for every interleaving:
two receivers make `Recv` panic, two producers exceed the memory cap, two senders mix
their chunks.

## Not modelled

Errors, logging and documentation have no state that interacts.  Of the limits,
only the default for a topic's threads appears; the other fields are merged in the
same way.  Argument checks and dialling return before anything changes.  The thread
pool, the queue container, `bufio` and the relay are external and are modelled by
how the binding uses them.  Two senders on one tunnel are not checked for ordering:
their chunks mix, and the documentation does not say whether that is allowed.
Integers on the wire beyond the width of the code's, and lengths no relay would
send, are not explored.

## Plan

1. Done: `Tunnel` with `MessageStream`, `SendPacket`, `InboundQueue`, `Connection`,
   `Topics`, `Wire`, their runs, and the proofs above.
2. Left: nothing of the list above.  The bounds of the runs could grow with the time
   they are given; what the theorems say does not depend on them.
