------------------------------- MODULE Topics -------------------------------
(***************************************************************************)
(* The topic subscriptions of one connection (connection.go, topic.go):     *)
(* goroutines that subscribe, unsubscribe and close, the goroutines         *)
(* process() starts for arriving events, and the pools that run the event   *)
(* handlers.  subLock is held for longer than a step only while a           *)
(* subscription is terminated.                                             *)
(*                                                                         *)
(* A topic's queue is module InboundQueue's subject: here an event that     *)
(* finds its subscription may be refused.  The pool (external) refuses      *)
(* tasks once it is terminated; Terminate(false) returns when everything    *)
(* queued has run.  The relay (external) serves packets in the order they   *)
(* are written and forwards the events of subscribed topics.               *)
(***************************************************************************)
EXTENDS Naturals, FiniteSets

CONSTANTS
  TopicNames,     \* topics
  Callers,        \* application goroutines
  Events,         \* events published; each has a handler goroutine of its own
  UserThreads, DefaultThreads,  \* requested and default EventThreads
  Callbacks,      \* event handlers call into the connection, too
  OtherWriters,   \* other goroutines write too
  MaxSubs,        \* bound: subscriptions and Subscribe calls about to create one
  None

Procs == Callers \cup Events
Subs  == Nat \ {0}

ASSUME TopicsAssumption ==
  /\ Callers \cap Events = {} /\ None \notin Procs \cup Nat \cup TopicNames
  /\ UserThreads \in Nat /\ DefaultThreads \in Nat \ {0} /\ MaxSubs \in Nat
  /\ Callbacks \in BOOLEAN /\ OtherWriters \in BOOLEAN

VARIABLES
  up,        \* writes reach the relay
  reading,   \* process() is in its loop
  subIdx,    \* subscriptions created
  subLive,   \* per topic: its subscription
  quit,      \* subscriptions whose pool is terminated
  lock,      \* who terminates a subscription under subLock
  pc, arg,   \* per goroutine: position in its call, topic of the call
  closed,    \* Close was called
  relaySubs, \* topics subscribed at the relay
  ev         \* per event: where it is, its topic, the subscription it found

connVars == <<up, reading, closed>>
vars == <<connVars, subIdx, subLive, quit, lock, pc, arg, relaySubs, ev>>

Init ==
  /\ up = TRUE /\ reading = TRUE /\ closed = FALSE
  /\ subIdx = 0 /\ subLive = [t \in TopicNames |-> None]
  /\ quit = {} /\ lock = None /\ relaySubs = {}
  /\ pc = [p \in Procs |-> "idle"] /\ arg = [p \in Procs |-> None]
  /\ ev = [e \in Events |-> [at |-> "idle", topic |-> None, sub |-> None]]

EventThreadsUser == UserThreads   \* mutant: no default for 0

\* finalizeTopicLimits.
EventThreads == IF UserThreads = 0 THEN DefaultThreads ELSE UserThreads

SendOutcomes ==
  IF up THEN {"sent"}
  ELSE {"error"} \cup IF OtherWriters THEN {"lost"} ELSE {}

UnlockedAlways == TRUE   \* mutant: no lock around the map
Unlocked == lock = None

\* The call of p is at l; when it returns, it has no topic any more.
Goto(p, l) ==
  /\ pc' = [pc EXCEPT ![p] = l]
  /\ arg' = IF l = "idle" THEN [arg EXCEPT ![p] = None] ELSE arg

Call(p, l, t) ==
  /\ pc' = [pc EXCEPT ![p] = l]
  /\ arg' = [arg EXCEPT ![p] = t]

\* A goroutine that is free to call: an application's, or a handler.
CanCall(p) ==
  /\ pc[p] = "idle"
  /\ p \in Events => Callbacks /\ ev[p].at = "running"

InPool(e) == ev[e].at \in {"queued", "running"}

DrainedAtOnce(s) == TRUE   \* mutant: terminate does not wait
Drained(s) == \A e \in Events : ev[e].sub = s => ~InPool(e)

-----------------------------------------------------------------------------
(* Subscribe.                                                              *)

IsNewAlways(t) == TRUE   \* mutant: a live subscription is overwritten
IsNew(t) == subLive[t] = None

\* The call, up to its first lock; the bound holds up no call that has begun.
CallSubscribe(p, t) ==
  /\ CanCall(p)
  /\ subIdx + Cardinality({q \in Procs : pc[q] = "enter"}) < MaxSubs
  /\ Call(p, "enter", t)
  /\ UNCHANGED <<connVars, subIdx, subLive, quit, lock, relaySubs, ev>>

SubscribeRefused(p) ==
  /\ pc[p] = "enter" /\ Unlocked
  /\ ~IsNew(arg[p])
  /\ Goto(p, "idle")
  /\ UNCHANGED <<connVars, subIdx, subLive, quit, lock, relaySubs, ev>>

Subscribe(p) ==
  /\ pc[p] = "enter" /\ Unlocked
  /\ IsNew(arg[p])
  /\ subIdx' = subIdx + 1
  /\ subLive' = [subLive EXCEPT ![arg[p]] = subIdx']
  /\ Goto(p, "subscribe")
  /\ UNCHANGED <<connVars, quit, lock, relaySubs, ev>>

SendSubscribe(p) ==
  /\ pc[p] = "subscribe"
  /\ \E o \in SendOutcomes :
       /\ Goto(p, IF o = "error" THEN "undo" ELSE "idle")
       /\ relaySubs' = IF o = "sent" THEN relaySubs \cup {arg[p]} ELSE relaySubs
  /\ UNCHANGED <<connVars, subIdx, subLive, quit, lock, ev>>

-----------------------------------------------------------------------------
(* Unsubscribe.  Its first critical section only logs, but waits for        *)
(* subLock.                                                                *)

CallUnsubscribe(p, t) ==
  /\ CanCall(p)
  /\ Call(p, "look", t)
  /\ UNCHANGED <<connVars, subIdx, subLive, quit, lock, relaySubs, ev>>

Unsubscribe(p) ==
  /\ pc[p] = "look" /\ Unlocked
  /\ Goto(p, "unsubscribe")
  /\ UNCHANGED <<connVars, subIdx, subLive, quit, lock, relaySubs, ev>>

AfterUnsubscribeInverted(o) == IF o = "error" THEN "remove" ELSE "idle"   \* mutant
AfterUnsubscribe(o) == IF o = "error" THEN "idle" ELSE "remove"

SendUnsubscribe(p) ==
  /\ pc[p] = "unsubscribe"
  /\ \E o \in SendOutcomes :
       /\ Goto(p, AfterUnsubscribe(o))
       /\ relaySubs' = IF o = "sent" THEN relaySubs \ {arg[p]} ELSE relaySubs
  /\ UNCHANGED <<connVars, subIdx, subLive, quit, lock, ev>>

\* The end of both calls: a failed Subscribe and a forwarded Unsubscribe lock
\* the map and terminate whatever subscription of the topic they find there.
RemoveNothing(p) ==
  /\ pc[p] \in {"undo", "remove"} /\ Unlocked
  /\ subLive[arg[p]] = None
  /\ Goto(p, "idle")
  /\ UNCHANGED <<connVars, subIdx, subLive, quit, lock, relaySubs, ev>>

Remove(p) ==
  /\ pc[p] \in {"undo", "remove"} /\ Unlocked
  /\ subLive[arg[p]] # None
  /\ quit' = quit \cup {subLive[arg[p]]}
  /\ lock' = p
  /\ Goto(p, "terminate")
  /\ UNCHANGED <<connVars, subIdx, subLive, relaySubs, ev>>

Removed(p) ==
  /\ pc[p] = "terminate" /\ Drained(subLive[arg[p]])
  /\ subLive' = [subLive EXCEPT ![arg[p]] = None]
  /\ lock' = None
  /\ Goto(p, "idle")
  /\ UNCHANGED <<connVars, subIdx, quit, relaySubs, ev>>

-----------------------------------------------------------------------------
(* Close.  One call: what a second one does is Connection's subject.        *)

Close(p) ==
  /\ CanCall(p) /\ ~closed
  /\ closed' = TRUE
  /\ \E o \in SendOutcomes : Goto(p, IF o = "error" THEN "idle" ELSE "sync")
  /\ UNCHANGED <<up, reading, subIdx, subLive, quit, lock, relaySubs, ev>>

\* process() has left its loop and received from quit.
CloseLock(p) ==
  /\ pc[p] = "sync" /\ ~reading /\ Unlocked
  /\ lock' = p
  /\ Goto(p, "closing")
  /\ UNCHANGED <<connVars, subIdx, subLive, quit, relaySubs, ev>>

Unterminated == {t \in TopicNames : subLive[t] \notin quit \cup {None}}

\* The loop over the subscriptions, in any order, one at a time.
CloseTopic(p) ==
  /\ pc[p] = "closing" /\ \A s \in quit : Drained(s)
  /\ \E t \in Unterminated : quit' = quit \cup {subLive[t]}
  /\ UNCHANGED <<connVars, subIdx, subLive, lock, pc, arg, relaySubs, ev>>

CloseReturns(p) ==
  /\ pc[p] = "closing" /\ \A s \in quit : Drained(s)
  /\ Unterminated = {}
  /\ lock' = None
  /\ Goto(p, "idle")
  /\ UNCHANGED <<connVars, subIdx, subLive, quit, relaySubs, ev>>

-----------------------------------------------------------------------------
(* Events.                                                                 *)

Track(e, at) == ev' = [ev EXCEPT ![e].at = at]

\* The event's goroutine or handler is over.
End(e, at) == ev' = [ev EXCEPT ![e] = [at |-> at, topic |-> None, sub |-> None]]

\* An event published by this connection or another one, which the relay has
\* forwarded: procPublish starts a goroutine for it.  That one may run late, so
\* the time the event spends on the wire needs no state of its own.
ProcPublish(e, t) ==
  /\ ev[e].at = "idle" /\ reading /\ t \in relaySubs
  /\ ev' = [ev EXCEPT ![e] = [at |-> "arrived", topic |-> t, sub |-> None]]
  /\ UNCHANGED <<connVars, subIdx, subLive, quit, lock, pc, arg, relaySubs>>

\* Connection.handlePublish: the subscription is used after the unlock.
HandlePublish(e) ==
  /\ ev[e].at = "arrived" /\ Unlocked
  /\ IF subLive[ev[e].topic] = None
       THEN End(e, "dropped")
       ELSE ev' = [ev EXCEPT ![e].at = "found",
                           ![e].sub = subLive[ev[e].topic]]
  /\ UNCHANGED <<connVars, subIdx, subLive, quit, lock, pc, arg, relaySubs>>

\* topic.handlePublish: scheduled, or refused by the memory check or the pool.
Schedule(e) ==
  /\ ev[e].at = "found"
  /\ \/ End(e, "dropped")
     \/ ev[e].sub \notin quit /\ Track(e, "queued")
  /\ UNCHANGED <<connVars, subIdx, subLive, quit, lock, pc, arg, relaySubs>>

HandleEvent(e) ==
  /\ ev[e].at = "queued"
  /\ Cardinality({f \in Events : ev[f].sub = ev[e].sub /\ ev[f].at = "running"})
       < EventThreads
  /\ Track(e, "running")
  /\ UNCHANGED <<connVars, subIdx, subLive, quit, lock, pc, arg, relaySubs>>

HandlerReturns(e) ==
  /\ ev[e].at = "running" /\ pc[e] = "idle"
  /\ End(e, "handled")
  /\ UNCHANGED <<connVars, subIdx, subLive, quit, lock, pc, arg, relaySubs>>

-----------------------------------------------------------------------------
Break ==
  /\ up
  /\ up' = FALSE
  /\ UNCHANGED <<reading, closed, subIdx, subLive, quit, lock, pc, arg,
                 relaySubs, ev>>

\* A failed read, a drop announced by the relay, or a confirmed close.
ProcessEnds ==
  /\ reading
  /\ reading' = FALSE /\ up' = FALSE
  /\ UNCHANGED <<closed, subIdx, subLive, quit, lock, pc, arg, relaySubs, ev>>

CallStep(p) ==
  \/ SubscribeRefused(p) \/ Subscribe(p) \/ Unsubscribe(p)
  \/ SendSubscribe(p) \/ SendUnsubscribe(p)
  \/ RemoveNothing(p) \/ Remove(p) \/ Removed(p)
  \/ CloseLock(p) \/ CloseTopic(p) \/ CloseReturns(p)

EventStep(e) == HandlePublish(e) \/ Schedule(e) \/ HandleEvent(e) \/ HandlerReturns(e)

Next ==
  \/ \E p \in Procs, t \in TopicNames :
       CallSubscribe(p, t) \/ CallUnsubscribe(p, t)
  \/ \E p \in Procs : Close(p) \/ CallStep(p)
  \/ \E e \in Events, t \in TopicNames : ProcPublish(e, t)
  \/ \E e \in Events : EventStep(e)
  \/ Break \/ ProcessEnds

Spec == Init /\ [][Next]_vars

(* Goroutines that can run, run, and handlers return unless they call into  *)
(* the connection and wait.  The relay confirms a close, and a broken link  *)
(* ends process().                                                         *)
FairSpec ==
  /\ Spec
  /\ \A p \in Procs : WF_vars(CallStep(p))
  /\ \A e \in Events : WF_vars(EventStep(e))
  /\ WF_vars((~up \/ \E p \in Procs : pc[p] = "sync") /\ ProcessEnds)

-----------------------------------------------------------------------------
\* The type invariant: every call is at one of its steps, and a goroutine that
\* terminates a subscription holds subLock.
TypeOK ==
  /\ up \in BOOLEAN /\ reading \in BOOLEAN /\ closed \in BOOLEAN
  /\ subIdx \in Nat
  /\ subLive \in [TopicNames -> Subs \cup {None}]
  /\ quit \subseteq Subs /\ relaySubs \subseteq TopicNames
  /\ lock \in Procs \cup {None}
  /\ pc \in [Procs -> {"idle", "enter", "subscribe", "undo", "look",
                       "unsubscribe", "remove", "terminate", "sync", "closing"}]
  /\ arg \in [Procs -> TopicNames \cup {None}]
  /\ ev \in [Events -> [at : {"idle", "arrived", "found", "dropped", "queued",
                              "running", "handled"},
                        topic : TopicNames \cup {None}, sub : Subs \cup {None}]]
  /\ \A p \in Procs : pc[p] \in {"terminate", "closing"} => lock = p

Live(s) == \E t \in TopicNames : subLive[t] = s

\* Every subscription that left the map was terminated, whichever of several
\* racing Subscribe and Unsubscribe calls removed it: no pool is leaked.
NoLeakedPool == \A s \in 1 .. subIdx : Live(s) \/ s \in quit

\* "receiving no more event notifications for it" (connection.go): once
\* Unsubscribe, a failed Subscribe or Close has let go of a subscription, none
\* of its events is queued or handled, not even one whose goroutine looked
\* the subscription up before.
NoHandlerOutlives ==
  \A e \in Events : InPool(e) =>
    Live(ev[e].sub) /\ (ev[e].sub \in quit => lock # None)

\* Calls that hold or are about to change a topic's subscription: those that
\* only wait for subLock at their beginning are none.
Pending(t) ==
  {p \in Procs : arg[p] = t /\ pc[p] \notin {"idle", "enter", "look"}}

\* A subscription that no call is about to change is subscribed at the relay,
\* in whatever order racing calls wrote their packets: nobody is left with a
\* handler that cannot get events on a working link.
NoDeafSubscription ==
  \A t \in TopicNames :
    up /\ subLive[t] # None /\ Pending(t) = {} => t \in relaySubs

\* Every Subscribe, Unsubscribe and Close returns.  An event handler that
\* unsubscribes never does: terminate waits for it under subLock.
CallsReturn == \A p \in Procs : (pc[p] # "idle") ~> (pc[p] = "idle")
=============================================================================
