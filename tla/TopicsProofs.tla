---------------------------- MODULE TopicsProofs ----------------------------
(***************************************************************************)
(* Proofs about Topics, for any topics, callers and events, with handlers   *)
(* that call back or not.                                                  *)
(***************************************************************************)
EXTENDS Topics, TLAPS

\* Calls and events know their topic or subscription, and a call that waits
\* for a pool waits for the subscription its topic still has.
PosInv ==
  /\ \A p \in Procs :
       /\ pc[p] \in {"enter", "subscribe", "undo", "look", "unsubscribe", "remove",
                     "terminate"} => arg[p] \in TopicNames
       /\ pc[p] = "terminate" => subLive[arg[p]] \in quit
  /\ \A e \in Events :
       /\ ev[e].at = "arrived" => ev[e].topic \in TopicNames
       /\ ev[e].at \in {"found", "queued", "running"} => ev[e].sub \in 1 .. subIdx

\* Live subscriptions are distinct and numbered; one that is neither live nor
\* terminated does not exist.
MapInv ==
  /\ \A t \in TopicNames : subLive[t] \in (1 .. subIdx) \cup {None}
  /\ \A t, u \in TopicNames : subLive[t] = subLive[u] /\ subLive[t] # None => t = u
  /\ quit \subseteq 1 .. subIdx
  /\ NoLeakedPool

\* Only the subscription that somebody is waiting for has tasks left in a
\* terminated pool.
DrainInv ==
  \A e \in Events : InPool(e) =>
    /\ Live(ev[e].sub)
    /\ ev[e].sub \in quit =>
         /\ lock # None
         /\ \A p \in Procs : pc[p] = "terminate" => ev[e].sub = subLive[arg[p]]

TopicsInv == TypeOK /\ PosInv /\ MapInv /\ DrainInv

-----------------------------------------------------------------------------
\* The new connection has no subscription, no call and no event.
LEMMA InitTopicsInv == Init => TopicsInv
<1> SUFFICES ASSUME Init PROVE TopicsInv
  OBVIOUS
<1> USE TopicsAssumption
<1>1. TypeOK
  <2>1. ev \in [Events -> [at : {"idle", "arrived", "found", "dropped", "queued",
                                "running", "handled"},
                          topic : TopicNames \cup {None}, sub : Subs \cup {None}]]
    BY DEF Init
  <2>2. subIdx \in Nat
    BY DEF Init
  <2>3. \A p \in Procs : pc[p] \notin {"terminate", "closing"}
    BY DEF Init
  <2> QED BY <2>1, <2>2, <2>3 DEF Init, TypeOK
<1>2. PosInv /\ MapInv /\ DrainInv
  BY DEF Init, PosInv, MapInv, DrainInv, NoLeakedPool, InPool
<1> QED BY <1>1, <1>2 DEF TopicsInv

\* A call that moves on without touching the map, a pool or subLock.
LEMMA MoveStep ==
  ASSUME TopicsInv, NEW p \in Procs,
         pc[p] \notin {"terminate", "closing"},
         NEW l \in {"idle", "enter", "undo", "look", "unsubscribe", "remove", "sync"},
         NEW t \in TopicNames \cup {None},
         pc' = [pc EXCEPT ![p] = l], arg' = [arg EXCEPT ![p] = t],
         l \in {"idle", "sync"} \/ t \in TopicNames,
         relaySubs' \subseteq TopicNames, closed' \in BOOLEAN,
         UNCHANGED <<up, reading, subIdx, subLive, quit, lock, ev>>
  PROVE  TopicsInv'
<1> USE TopicsAssumption
<1>1. TypeOK'
  BY DEF TopicsInv, TypeOK
<1>2. PosInv'
  BY DEF TopicsInv, TypeOK, PosInv
<1>3. MapInv'
  BY DEF TopicsInv, MapInv, NoLeakedPool, Live
<1>4. DrainInv'
  <2> SUFFICES ASSUME NEW e \in Events, InPool(e)'
               PROVE  /\ Live(ev[e].sub)'
                      /\ (ev[e].sub \in quit)' =>
                           /\ lock' # None
                           /\ \A q \in Procs : pc'[q] = "terminate" =>
                                ev[e].sub = subLive[arg'[q]]
    BY DEF DrainInv
  <2>1. InPool(e) /\ (Live(ev[e].sub) => Live(ev[e].sub)')
    BY DEF InPool, Live
  <2> QED BY <2>1 DEF TopicsInv, DrainInv, TypeOK
<1> QED BY <1>1, <1>2, <1>3, <1>4 DEF TopicsInv

\* Subscribe puts a subscription with a fresh number into an empty slot.
LEMMA SubscribeStep ==
  ASSUME TopicsInv, NEW p \in Procs, Subscribe(p)
  PROVE  TopicsInv'
<1> USE TopicsAssumption
<1> DEFINE t == arg[p]
<1>0. t \in TopicNames
  BY DEF Subscribe, TopicsInv, PosInv
<1>1. /\ subIdx \in Nat /\ subIdx' = subIdx + 1 /\ subIdx' \in Subs
      /\ lock = None /\ subLive[t] = None
      /\ subLive' = [subLive EXCEPT ![t] = subIdx + 1]
      /\ pc' = [pc EXCEPT ![p] = "subscribe"] /\ arg' = arg
      /\ UNCHANGED <<quit, lock, ev>>
  BY DEF Subscribe, TopicsInv, TypeOK, Unlocked, IsNew, Goto, Subs
<1> HIDE DEF t
<1> USE <1>0
<1>2. TypeOK'
  BY <1>1 DEF TopicsInv, TypeOK, Subscribe, Subs, connVars
<1>3. \A q \in Procs : pc[q] # "terminate" /\ pc'[q] # "terminate"
  BY <1>1 DEF TopicsInv, TypeOK
<1>4. PosInv'
  BY <1>1, <1>3 DEF TopicsInv, TypeOK, PosInv, Subscribe
<1>5. \A s \in 1 .. subIdx : Live(s) => Live(s)'
  BY <1>1 DEF TopicsInv, TypeOK, Live
<1>6. MapInv'
  <2>1. NoLeakedPool'
    <3> SUFFICES ASSUME NEW s \in 1 .. subIdx + 1 PROVE Live(s)' \/ s \in quit
      BY <1>1 DEF NoLeakedPool
    <3>1. CASE s = subIdx + 1
      BY <3>1, <1>1 DEF Live, TopicsInv, TypeOK
    <3>2. CASE s \in 1 .. subIdx
      BY <3>2, <1>5 DEF TopicsInv, MapInv, NoLeakedPool
    <3> QED BY <3>1, <3>2, <1>1
  <2>2. \A u \in TopicNames : subLive[u] \in (1 .. subIdx) \cup {None}
    BY DEF TopicsInv, MapInv
  <2>3. \A u \in TopicNames : subLive'[u] \in (1 .. subIdx') \cup {None}
    BY <1>1, <2>2 DEF TopicsInv, TypeOK
  <2>4. \A u, v \in TopicNames : subLive'[u] = subLive'[v] /\ subLive'[u] # None => u = v
    BY <1>1, <2>2 DEF TopicsInv, MapInv, TypeOK
  <2> QED BY <1>1, <2>1, <2>3, <2>4 DEF TopicsInv, MapInv
<1>7. DrainInv'
  <2> SUFFICES ASSUME NEW e \in Events, InPool(e)'
               PROVE  Live(ev[e].sub)' /\ ev[e].sub \notin quit
    BY <1>1 DEF DrainInv
  <2>1. InPool(e) /\ ev[e].sub \in 1 .. subIdx
    BY <1>1 DEF InPool, TopicsInv, PosInv
  <2> QED BY <1>1, <1>5, <2>1 DEF TopicsInv, DrainInv
<1> QED BY <1>2, <1>4, <1>6, <1>7 DEF TopicsInv

\* Nobody else is terminating when a call starts to.
LEMMA RemoveStep ==
  ASSUME TopicsInv, NEW p \in Procs, Remove(p)
  PROVE  TopicsInv'
<1> USE TopicsAssumption
<1>1. /\ arg[p] \in TopicNames /\ subLive[arg[p]] \in 1 .. subIdx
      /\ lock = None /\ lock' = p /\ p # None
      /\ pc' = [pc EXCEPT ![p] = "terminate"] /\ arg' = arg
      /\ quit' = quit \cup {subLive[arg[p]]}
      /\ UNCHANGED <<subIdx, subLive, ev>>
  BY DEF Remove, TopicsInv, PosInv, MapInv, Unlocked, Goto
<1>2. \A q \in Procs : pc[q] \notin {"terminate", "closing"}
  BY <1>1 DEF TopicsInv, TypeOK
<1>3. TypeOK'
  BY <1>1, <1>2 DEF TopicsInv, TypeOK, Remove, connVars
<1>4. PosInv'
  BY <1>1, <1>2 DEF TopicsInv, TypeOK, PosInv
<1>5. \A s : Live(s) <=> Live(s)'
  BY <1>1 DEF Live
<1>6. MapInv'
  BY <1>1, <1>5 DEF TopicsInv, MapInv, NoLeakedPool
<1>7. DrainInv'
  <2> SUFFICES ASSUME NEW e \in Events, InPool(e)'
               PROVE  /\ Live(ev[e].sub)'
                      /\ ev[e].sub \in quit' =>
                           \A q \in Procs : pc'[q] = "terminate" =>
                             ev[e].sub = subLive[arg[q]]
    BY <1>1 DEF DrainInv
  <2>1. InPool(e)
    BY <1>1 DEF InPool
  <2> QED BY <1>1, <1>2, <1>5, <2>1 DEF TopicsInv, DrainInv, TypeOK
<1> QED BY <1>3, <1>4, <1>6, <1>7 DEF TopicsInv

\* What leaves the map is terminated and drained.
LEMMA RemovedStep ==
  ASSUME TopicsInv, NEW p \in Procs, Removed(p)
  PROVE  TopicsInv'
<1> USE TopicsAssumption
<1> DEFINE s0 == subLive[arg[p]]
<1>0. /\ arg[p] \in TopicNames /\ s0 \in quit /\ s0 # None
  <2>1. arg[p] \in TopicNames /\ s0 \in quit
    BY DEF Removed, TopicsInv, PosInv
  <2>2. quit \subseteq 1 .. subIdx /\ subIdx \in Nat
    BY DEF TopicsInv, TypeOK, MapInv
  <2>3. \A i \in 1 .. subIdx : i # None
    BY <2>2
  <2> QED BY <2>1, <2>2, <2>3, Zenon
<1>1. /\ arg[p] \in TopicNames /\ s0 \in quit /\ s0 # None
      /\ pc[p] = "terminate" /\ lock = p /\ lock' = None
      /\ pc' = [pc EXCEPT ![p] = "idle"] /\ arg' = [arg EXCEPT ![p] = None]
      /\ subLive' = [subLive EXCEPT ![arg[p]] = None]
      /\ UNCHANGED <<subIdx, quit, ev>>
  BY <1>0 DEF Removed, TopicsInv, TypeOK, Goto
<1>2. \A q \in Procs : pc'[q] \notin {"terminate", "closing"}
  BY <1>1 DEF TopicsInv, TypeOK
<1>3. TypeOK'
  BY <1>1, <1>2 DEF TopicsInv, TypeOK, Removed, connVars
<1>4. PosInv'
  BY <1>1, <1>2 DEF TopicsInv, TypeOK, PosInv
<1>5. \A s : Live(s) /\ s # s0 => Live(s)'
  BY <1>1 DEF Live, TopicsInv, TypeOK
<1>6. MapInv'
  <2>1. NoLeakedPool'
    BY <1>1, <1>5 DEF TopicsInv, MapInv, NoLeakedPool
  <2> QED BY <1>1, <2>1 DEF TopicsInv, TypeOK, MapInv
<1>7. DrainInv'
  <2> SUFFICES ASSUME NEW e \in Events, InPool(e)'
               PROVE  Live(ev[e].sub)' /\ ev[e].sub \notin quit
    BY <1>1 DEF DrainInv
  <2>1. InPool(e)
    BY <1>1 DEF InPool
  <2>2. ev[e].sub # s0
    BY <2>1 DEF Removed, Drained
  <2> QED BY <1>1, <1>5, <2>1, <2>2 DEF TopicsInv, DrainInv
<1> QED BY <1>3, <1>4, <1>6, <1>7 DEF TopicsInv

\* Close takes the lock, terminates the topics one by one, and lets go.
LEMMA CloseSteps ==
  ASSUME TopicsInv, NEW p \in Procs, CloseLock(p) \/ CloseTopic(p) \/ CloseReturns(p)
  PROVE  TopicsInv'
<1> USE TopicsAssumption
<1>1. /\ \A q \in Procs : pc[q] # "terminate" /\ pc'[q] # "terminate"
      /\ \A q \in Procs : pc'[q] = "closing" => q = p /\ lock' = p
      /\ \A q \in Procs : pc'[q] # "idle" => arg'[q] = arg[q] /\ (pc'[q] = pc[q] \/ pc'[q] = "closing")
      /\ UNCHANGED <<up, reading, closed, subIdx, subLive, relaySubs, ev>>
      /\ lock' \in {p, None}
      /\ pc' \in [Procs -> {"idle", "enter", "subscribe", "undo", "look",
                       "unsubscribe", "remove", "terminate", "sync", "closing"}]
      /\ arg' \in [Procs -> TopicNames \cup {None}]
  BY DEF CloseLock, CloseTopic, CloseReturns, TopicsInv, TypeOK, Unlocked, Goto, connVars
<1>2. /\ quit \subseteq quit' /\ quit' \subseteq 1 .. subIdx
      /\ \A s \in quit' \ quit : lock' = p
  BY DEF CloseLock, CloseTopic, CloseReturns, TopicsInv, TypeOK, MapInv, Unterminated
<1>3. TypeOK'
  <2>1. quit' \subseteq Subs
    BY <1>2 DEF TopicsInv, TypeOK, Subs
  <2> QED BY <1>1, <2>1 DEF TopicsInv, TypeOK
<1>4. PosInv'
  BY <1>1 DEF TopicsInv, PosInv
<1>5. \A s : Live(s) <=> Live(s)'
  BY <1>1 DEF Live
<1>6. MapInv'
  BY <1>1, <1>2, <1>5 DEF TopicsInv, MapInv, NoLeakedPool
<1>7. DrainInv'
  <2> SUFFICES ASSUME NEW e \in Events, InPool(e)'
               PROVE  Live(ev[e].sub)' /\ (ev[e].sub \in quit' => lock' # None)
    BY <1>1 DEF DrainInv
  <2>1. InPool(e) /\ Live(ev[e].sub) /\ (ev[e].sub \in quit => lock # None)
    BY <1>1 DEF InPool, TopicsInv, DrainInv
  <2>2. ev[e].sub \in quit /\ lock # None => lock' # None
    BY <2>1 DEF CloseLock, CloseTopic, CloseReturns, Drained, Unlocked
  <2>3. ev[e].sub \in quit' \ quit => lock' # None
    BY <1>2
  <2>4. Live(ev[e].sub)'
    BY <1>1, <2>1 DEF Live
  <2> QED BY <2>1, <2>2, <2>3, <2>4
<1> QED BY <1>3, <1>4, <1>6, <1>7 DEF TopicsInv

\* An event moves on.  It gets into a pool only if that was not terminated.
LEMMA EventSteps ==
  ASSUME TopicsInv, NEW e \in Events,
         EventStep(e) \/ \E t \in TopicNames : ProcPublish(e, t)
  PROVE  TopicsInv'
<1> USE TopicsAssumption
<1>1. UNCHANGED <<up, reading, closed, subIdx, subLive, quit, lock, pc, arg, relaySubs>>
  BY DEF EventStep, ProcPublish, HandlePublish, Schedule, HandleEvent, HandlerReturns, connVars
<1>2. /\ ev' \in [Events -> [at : {"idle", "arrived", "found", "dropped", "queued",
                              "running", "handled"},
                        topic : TopicNames \cup {None}, sub : Subs \cup {None}]]
      /\ \A f \in Events : f # e => ev'[f] = ev[f]
      /\ ev'[e].at = "arrived" => ev'[e].topic \in TopicNames
      /\ ev'[e].at \in {"found", "queued", "running"} => ev'[e].sub \in 1 .. subIdx
      /\ ev'[e].at \in {"queued", "running"} =>
           ev'[e].sub = ev[e].sub /\ (InPool(e) \/ ev[e].sub \in (1 .. subIdx) \ quit)
  <2> USE DEF TopicsInv, TypeOK, PosInv, MapInv, InPool
  <2>1. CASE HandlePublish(e)
    BY <2>1 DEF HandlePublish, End
  <2>2. CASE Schedule(e)
    BY <2>2 DEF Schedule, End, Track
  <2>3. CASE HandleEvent(e)
    BY <2>3 DEF HandleEvent, Track
  <2>4. CASE HandlerReturns(e)
    BY <2>4 DEF HandlerReturns, End
  <2>5. CASE \E t \in TopicNames : ProcPublish(e, t)
    BY <2>5 DEF ProcPublish
  <2> QED BY <2>1, <2>2, <2>3, <2>4, <2>5 DEF EventStep
<1>3. TypeOK' /\ PosInv'
  BY <1>1, <1>2 DEF TopicsInv, TypeOK, PosInv
<1>4. \A s : Live(s) <=> Live(s)'
  BY <1>1 DEF Live
<1>5. MapInv'
  BY <1>1, <1>4 DEF TopicsInv, MapInv, NoLeakedPool
<1>6. DrainInv'
  <2> SUFFICES ASSUME NEW f \in Events, InPool(f)'
               PROVE  /\ Live(ev'[f].sub)
                      /\ ev'[f].sub \in quit =>
                         /\ lock # None
                         /\ \A p \in Procs : pc[p] = "terminate" =>
                              ev'[f].sub = subLive[arg[p]]
    BY <1>1, <1>4 DEF DrainInv, Live
  <2>1. CASE InPool(f) /\ ev'[f].sub = ev[f].sub
    BY <2>1 DEF TopicsInv, DrainInv
  <2>2. CASE f = e /\ ev'[f].sub \in (1 .. subIdx) \ quit
    BY <2>2 DEF TopicsInv, MapInv, NoLeakedPool
  <2> QED BY <1>2, <2>1, <2>2 DEF InPool
<1> QED BY <1>3, <1>5, <1>6 DEF TopicsInv

\* Every step keeps the invariant.
LEMMA NextTopicsInv == TopicsInv /\ [Next]_vars => TopicsInv'
<1> SUFFICES ASSUME TopicsInv, [Next]_vars PROVE TopicsInv'
  OBVIOUS
<1> USE TopicsAssumption
<1>1. ASSUME NEW p \in Procs, NEW t \in TopicNames,
             CallSubscribe(p, t) \/ CallUnsubscribe(p, t)
      PROVE  TopicsInv'
  BY <1>1, MoveStep DEF CallSubscribe, CallUnsubscribe, CanCall, Call, connVars,
                        TopicsInv, TypeOK
<1>2. ASSUME NEW p \in Procs,
             \/ SubscribeRefused(p) \/ Unsubscribe(p)
             \/ SendSubscribe(p) \/ SendUnsubscribe(p) \/ RemoveNothing(p) \/ Close(p)
      PROVE  TopicsInv'
  <2>1. PICK l \in {"idle", "undo", "unsubscribe", "remove", "sync"} :
          /\ Goto(p, l)
          /\ l \in {"undo", "unsubscribe", "remove"} => arg[p] \in TopicNames
    BY <1>2 DEF SubscribeRefused, Unsubscribe, SendSubscribe, SendUnsubscribe, RemoveNothing, Close,
                AfterUnsubscribe, TopicsInv, PosInv
  <2>2. /\ relaySubs' \subseteq TopicNames /\ closed' \in BOOLEAN
        /\ UNCHANGED <<up, reading, subIdx, subLive, quit, lock, ev>>
        /\ pc[p] \notin {"terminate", "closing"}
    BY <1>2 DEF SubscribeRefused, Unsubscribe, SendSubscribe, SendUnsubscribe,
                RemoveNothing, Close, CanCall,
                connVars, TopicsInv, TypeOK, PosInv
  <2>3. CASE l = "idle"
    BY <2>1, <2>2, <2>3, MoveStep DEF Goto
  <2>4. CASE l # "idle"
    <3>1. arg' = [arg EXCEPT ![p] = arg[p]] /\ arg[p] \in TopicNames \cup {None}
      BY <2>1, <2>4 DEF Goto, TopicsInv, TypeOK
    <3> QED BY <2>1, <2>2, <2>4, <3>1, MoveStep DEF Goto
  <2> QED BY <2>3, <2>4
<1>3. ASSUME NEW p \in Procs, CallStep(p) PROVE TopicsInv'
  BY <1>2, <1>3, SubscribeStep, RemoveStep, RemovedStep, CloseSteps DEF CallStep
<1>4. CASE Break \/ ProcessEnds \/ UNCHANGED vars
  <2>1. /\ UNCHANGED <<closed, subIdx, subLive, quit, lock, pc, arg, relaySubs, ev>>
        /\ up' \in BOOLEAN /\ reading' \in BOOLEAN
    BY <1>4 DEF Break, ProcessEnds, vars, connVars, TopicsInv, TypeOK
  <2>2. TypeOK' /\ PosInv'
    BY <2>1 DEF TopicsInv, TypeOK, PosInv
  <2>3. MapInv' /\ DrainInv'
    BY <2>1 DEF TopicsInv, MapInv, NoLeakedPool, DrainInv, Live, InPool
  <2> QED BY <2>2, <2>3 DEF TopicsInv
<1> QED
  BY <1>1, <1>2, <1>3, <1>4, EventSteps DEF Next

-----------------------------------------------------------------------------
\* The inductive invariant holds in every reachable state.
THEOREM TopicsInvariant == Spec => []TopicsInv
<1> QED BY InitTopicsInv, NextTopicsInv, PTL DEF Spec

\* No pool is leaked, for any number of goroutines that subscribe to and
\* unsubscribe from the same topics.
THEOREM PoolsNeverLeak == Spec => []NoLeakedPool
<1>1. TopicsInv => NoLeakedPool
  BY DEF TopicsInv, MapInv
<1> QED BY <1>1, TopicsInvariant, PTL

\* After Unsubscribe, a failed Subscribe or Close nothing of the subscription
\* runs, even if handlers call back into the connection.
THEOREM HandlersNeverOutlive == Spec => []NoHandlerOutlives
<1>1. TopicsInv => NoHandlerOutlives
  BY DEF TopicsInv, DrainInv, NoHandlerOutlives
<1> QED BY <1>1, TopicsInvariant, PTL

\* Every variable keeps its type, and subLock has one owner.
THEOREM TopicsTypeCorrect == Spec => []TypeOK
<1>1. TopicsInv => TypeOK
  BY DEF TopicsInv
<1> QED BY <1>1, TopicsInvariant, PTL
-----------------------------------------------------------------------------
(* Subscriptions of a working link.                                        *)

\* The call that leaves a live subscription without its relay: a Subscribe
\* that has yet to send, or an Unsubscribe that is about to remove it.
Settling(p, t) == arg[p] = t /\ pc[p] \in {"subscribe", "remove", "terminate"}

\* A live topic the relay does not know is being settled.
RelayInv ==
  \A t \in TopicNames :
    up /\ subLive[t] # None /\ t \notin relaySubs => \E p \in Procs : Settling(p, t)

\* Who settles a topic goes on doing so, or has subscribed or removed it.
LEMMA SettlingGoesOn ==
  ASSUME TopicsInv, Next, up', NEW t \in TopicNames, NEW p \in Procs,
         Settling(p, t), subLive'[t] # None, t \notin relaySubs'
  PROVE  Settling(p, t)'
<1> USE TopicsAssumption DEF TopicsInv, TypeOK, Settling
<1>1. pc[p] # "idle" /\ arg[p] = t
  OBVIOUS
<1>2. ASSUME NEW q \in Procs, CallStep(q) PROVE Settling(p, t)'
  <2>1. CASE q # p
    BY <1>2, <2>1 DEF CallStep, SubscribeRefused, Subscribe, Unsubscribe, SendSubscribe, SendUnsubscribe, RemoveNothing, Remove,
                Removed, CloseLock, CloseTopic, CloseReturns, Goto
  <2>2. CASE q = p /\ SendSubscribe(p)
    BY <2>2 DEF SendSubscribe, SendOutcomes, connVars
  <2>3. CASE q = p /\ (SendUnsubscribe(p) \/ CloseLock(p) \/ CloseTopic(p) \/ CloseReturns(p))
    BY <2>3 DEF SendUnsubscribe, CloseLock, CloseTopic, CloseReturns
  <2>4. CASE q = p /\ (RemoveNothing(p) \/ Remove(p) \/ Removed(p))
    BY <2>4 DEF RemoveNothing, Remove, Removed, Goto
  <2>5. CASE q = p /\ (SubscribeRefused(p) \/ Subscribe(p) \/ Unsubscribe(p))
    BY <2>5 DEF SubscribeRefused, Subscribe, Unsubscribe
  <2> QED BY <1>2, <2>1, <2>2, <2>3, <2>4, <2>5 DEF CallStep
<1>3. ASSUME NEW q \in Procs, NEW u \in TopicNames,
             CallSubscribe(q, u) \/ CallUnsubscribe(q, u)
      PROVE  Settling(p, t)'
  BY <1>1, <1>3 DEF CallSubscribe, CallUnsubscribe, Call, CanCall
<1>4. ASSUME NEW q \in Procs, Close(q) PROVE Settling(p, t)'
  BY <1>1, <1>4 DEF Close, CanCall, Goto
<1>5. ASSUME NEW e \in Events, EventStep(e) \/ \E u \in TopicNames : ProcPublish(e, u)
      PROVE  Settling(p, t)'
  BY <1>5 DEF EventStep, ProcPublish, HandlePublish, Schedule, HandleEvent, HandlerReturns
<1>6. CASE Break \/ ProcessEnds
  BY <1>6 DEF Break, ProcessEnds
<1> QED BY <1>2, <1>3, <1>4, <1>5, <1>6 DEF Next

\* Only Subscribe makes a topic live, and only an Unsubscribe on its way to
\* the removal takes one from the relay: each of them then settles it.
LEMMA NextRelayInv == TopicsInv /\ RelayInv /\ [Next]_vars => RelayInv'
<1> SUFFICES ASSUME TopicsInv, RelayInv, [Next]_vars,
                    NEW t \in TopicNames, up', subLive'[t] # None, t \notin relaySubs'
             PROVE  \E p \in Procs : Settling(p, t)'
  BY DEF RelayInv, Settling
<1> USE TopicsAssumption DEF TopicsInv, TypeOK
<1>1. CASE UNCHANGED vars
  BY <1>1 DEF RelayInv, Settling, vars, connVars
<1>2. CASE Next /\ up /\ subLive[t] # None /\ t \notin relaySubs
  BY <1>2, SettlingGoesOn DEF RelayInv
<1>3. ASSUME NEW p \in Procs, Subscribe(p), t = arg[p]
      PROVE  Settling(p, t)'
  BY <1>3 DEF Subscribe, Goto, Settling
<1>4. ASSUME NEW p \in Procs, SendUnsubscribe(p), t \in relaySubs
      PROVE  Settling(p, t)'
  BY <1>4 DEF SendUnsubscribe, SendOutcomes, AfterUnsubscribe, Goto, Settling, connVars
<1>5. ASSUME NEW p \in Procs, NEW u \in TopicNames,
             CallSubscribe(p, u) \/ CallUnsubscribe(p, u)
      PROVE  up /\ subLive[t] # None /\ t \notin relaySubs
  BY <1>5 DEF CallSubscribe, CallUnsubscribe, connVars
<1>6. ASSUME NEW p \in Procs, Close(p) \/ CallStep(p),
             ~(SendUnsubscribe(p) /\ t \in relaySubs), ~(Subscribe(p) /\ t = arg[p])
      PROVE  up /\ subLive[t] # None /\ t \notin relaySubs
  <2>1. CASE Close(p) \/ CloseLock(p) \/ CloseTopic(p) \/ CloseReturns(p)
    BY <2>1 DEF Close, CloseLock, CloseTopic, CloseReturns, connVars
  <2>2. CASE SendSubscribe(p) \/ SendUnsubscribe(p)
    BY <1>6, <2>2 DEF SendSubscribe, SendUnsubscribe, connVars
  <2>3. CASE RemoveNothing(p) \/ Remove(p) \/ Removed(p)
    BY <2>3 DEF RemoveNothing, Remove, Removed, connVars
  <2>4. CASE SubscribeRefused(p) \/ Subscribe(p) \/ Unsubscribe(p)
    BY <1>6, <2>4 DEF SubscribeRefused, Subscribe, Unsubscribe, connVars
  <2> QED BY <1>6, <2>1, <2>2, <2>3, <2>4 DEF CallStep
<1>7. ASSUME NEW e \in Events, EventStep(e) \/ \E u \in TopicNames : ProcPublish(e, u)
      PROVE  up /\ subLive[t] # None /\ t \notin relaySubs
  BY <1>7 DEF EventStep, ProcPublish, HandlePublish, Schedule, HandleEvent,
              HandlerReturns, connVars
<1>8. CASE Break \/ ProcessEnds
  BY <1>8 DEF Break, ProcessEnds
<1> QED BY <1>1, <1>2, <1>3, <1>4, <1>5, <1>6, <1>7, <1>8 DEF Next

\* While the link works, a subscription nobody is about to change is known to
\* the relay, whatever order racing calls for the same topic write in.
THEOREM NeverDeaf == Spec => []NoDeafSubscription
<1>1. Init => RelayInv
  BY TopicsAssumption DEF Init, RelayInv
<1>2. TopicsInv /\ RelayInv => NoDeafSubscription
  BY DEF TopicsInv, TypeOK, RelayInv, Settling, Pending, NoDeafSubscription
<1> QED BY <1>1, <1>2, InitTopicsInv, NextTopicsInv, NextRelayInv, PTL DEF Spec
=============================================================================
