-------------------------- MODULE ConnectionProofs --------------------------
(***************************************************************************)
(* Proofs about Connection, for any requesters, builders and closers and    *)
(* any number of requests: clients and services, links that break at any    *)
(* moment, writes that fail or are lost.                                   *)
(***************************************************************************)
EXTENDS Connection, FiniteSetTheorems, TLAPS

\* The end of process(): what is done by the time it is where it is.
ProcInv ==
  /\ procPc # "blocked"
  /\ term <=> procPc \in {"drop", "tunnels", "sync", "done"}
  /\ term => ~up
  /\ procPc \in {"sync", "done"} => tunNil
  /\ tunNil => tunLive = {}
  /\ \A c \in Closers : closePc[c] \in {"topics", "closed"} => procPc = "done"

\* Requests in progress have ids of their own, and the maps hold just these.
ReqIdInv ==
  /\ \A p \in Requesters :
       /\ reqId[p] = None <=> reqPc[p] = "idle"
       /\ reqId[p] # None => reqId[p] < reqIdx
  /\ \A p, q \in Requesters : reqId[p] = reqId[q] /\ reqId[p] # None => p = q
  /\ reqLive = {reqId[p] : p \in {q \in Requesters : reqPc[q] # "idle"}}

\* A request the relay still has to answer waits with empty channels, unless
\* the connection has ended; what a channel holds is the owner's answer.
ReqMailInv ==
  /\ \A p \in Requesters :
       /\ reqPc[p] = "send" => mail[reqId[p]] = {}
       /\ reqId[p] # None => \A x \in mail[reqId[p]] : x.from = p
       /\ got[p] \in {p, None}
  /\ ~term => \A m \in relayReqs :
       /\ reqPc[m.from] = "wait" /\ reqId[m.from] = m.id
       /\ mail[m.id] = {}

\* Tunnel ids are handed out once each, and a builder past newTunnel has one.
TunIdInv ==
  /\ tunIdx = Cardinality({b \in Builders : bldTun[b] # None})
  /\ \A b \in Builders :
       /\ bldTun[b] # None => bldTun[b] < tunIdx
       /\ bldPc[b] \in {"idle", "accept"} => bldTun[b] = None
       /\ bldPc[b] \in {"send", "wait", "confirm", "allow", "abort", "handed"}
            => bldTun[b] # None
  /\ \A a, b \in Builders : bldTun[a] = bldTun[b] /\ bldTun[a] # None => a = b
  /\ \A t \in relayInits \cup relayTuns \cup tunClosers \cup tunLive : t < tunIdx
  /\ \A t \in Tunnels : t >= tunIdx => tunTerm[t] = 0

\* A tunnel is registered until it is closed or its construction has failed.
TunLiveInv ==
  /\ \A t \in tunLive :
       \E b \in Builders : bldTun[b] = t /\ bldPc[b] # "failed"
  /\ \A b \in Builders : bldTun[b] # None /\ bldPc[b] # "failed" =>
       (bldTun[b] \in tunLive <=> tunTerm[bldTun[b]] = 0)

\* An outbound tunnel the relay still has to answer is registered, and its
\* builder waits for the result, unless the connection has ended.
TunInitInv ==
  /\ ~term => \A t \in relayInits :
       /\ t \in tunLive /\ t \notin relayTuns \cup tunClosers
       /\ \E b \in Builders : bldTun[b] = t /\ bldPc[b] = "wait"
  /\ \A b \in Builders : bldPc[b] = "send" =>
       /\ bldTun[b] \notin relayInits \cup relayTuns \cup tunClosers
       /\ ~term => bldTun[b] \in tunLive
  /\ procPc = "result" =>
       /\ procTun[1] \in Tunnels /\ procTun[1] < tunIdx
       /\ procTun[1] \notin relayInits
       /\ \A b \in Builders : bldPc[b] = "send" => bldTun[b] # procTun[1]

\* The inductive invariant: process() and its end, the requests, the tunnels.
ReqInv == ReqTypeOK /\ ReqIdInv /\ ReqMailInv
TunInv == TunTypeOK /\ TunIdInv /\ TunLiveInv /\ TunInitInv

ConnInv == ProcTypeOK /\ CloseTypeOK /\ ProcInv /\ ReqInv /\ TunInv

-----------------------------------------------------------------------------
(* The constants.                                                          *)

LEMMA IdFacts ==
  /\ Ids \subseteq Nat /\ None \notin Ids /\ 0 \in Ids
  /\ None \notin Requesters
BY ConnectionAssumption DEF Ids

LEMMA TunnelFacts ==
  /\ Cardinality(Builders) \in Nat /\ Tunnels \subseteq Nat
  /\ None \notin Tunnels /\ 0 \in Tunnels
<1>1. Cardinality(Builders) \in Nat
  BY ConnectionAssumption, FS_CardinalityType
<1> QED BY <1>1, ConnectionAssumption DEF Tunnels

\* A builder without a tunnel leaves an id to hand out.
LEMMA IdLeft ==
  ASSUME TunInv, NEW b \in Builders, bldTun[b] = None
  PROVE  tunIdx + 1 \in Tunnels
<1> DEFINE Served == {a \in Builders : bldTun[a] # None}
<1>1. IsFiniteSet(Builders)
  BY ConnectionAssumption
<1>2. Served \subseteq Builders /\ Served # Builders
  OBVIOUS
<1>3. Cardinality(Served) < Cardinality(Builders)
  BY <1>1, <1>2, FS_Subset, FS_CardinalityType
<1>4. tunIdx = Cardinality(Served) /\ tunIdx \in Nat
  BY TunnelFacts DEF TunInv, TunIdInv, TunTypeOK
<1> QED BY <1>3, <1>4, TunnelFacts DEF Tunnels

\* One more builder has a tunnel.
LEMMA IdTaken ==
  ASSUME TunInv, NEW b \in Builders, bldTun[b] = None,
         bldTun' = [bldTun EXCEPT ![b] = tunIdx]
  PROVE  tunIdx + 1 = Cardinality({a \in Builders : bldTun'[a] # None})
<1> DEFINE Served == {a \in Builders : bldTun[a] # None}
<1>1. IsFiniteSet(Served)
  BY ConnectionAssumption, FS_Subset
<1>2. {a \in Builders : bldTun'[a] # None} = Served \cup {b}
  BY TunnelFacts DEF TunInv, TunTypeOK
<1>3. b \notin Served
  OBVIOUS
<1>4. Cardinality(Served \cup {b}) = Cardinality(Served) + 1
  BY <1>1, <1>3, FS_AddElement
<1> QED BY <1>2, <1>4 DEF TunInv, TunIdInv

-----------------------------------------------------------------------------
(* What a step that leaves a part alone does to its invariant.             *)

LEMMA ReqFrame ==
  ASSUME ReqInv, UNCHANGED reqVars, term => term'
  PROVE  ReqInv'
BY DEF reqVars, ReqInv, ReqTypeOK, ReqIdInv, ReqMailInv

LEMMA TunFrame ==
  ASSUME TunInv, UNCHANGED tunVars, term => term',
         procPc' = "result" => procPc = "result" /\ procTun' = procTun
  PROVE  TunInv'
<1>1. TunTypeOK' /\ TunIdInv' /\ TunLiveInv'
  BY DEF tunVars, TunInv, TunTypeOK, TunIdInv, TunLiveInv
<1>2. TunInitInv'
  BY DEF tunVars, TunInv, TunInitInv
<1> QED BY <1>1, <1>2 DEF TunInv

LEMMA InitConnInv == Init => ConnInv
<1> SUFFICES ASSUME Init PROVE ConnInv
  OBVIOUS
<1> USE IdFacts, TunnelFacts DEF Init
<1>1. ProcTypeOK /\ ProcInv
  BY DEF ProcTypeOK, ProcInv
<1>2. CloseTypeOK
  BY DEF CloseTypeOK
<1>3. ReqInv
  BY DEF ReqInv, ReqTypeOK, ReqIdInv, ReqMailInv
<1>4. TunTypeOK /\ TunLiveInv /\ TunInitInv
  <2>1. tunTerm \in [Tunnels -> 0 .. 1] /\ tunIdx \in Tunnels
    OBVIOUS
  <2>2. \A b \in Builders : bldTun[b] = None /\ bldPc[b] = "idle"
    OBVIOUS
  <2> QED BY <2>1, <2>2 DEF TunTypeOK, TunLiveInv, TunInitInv
<1>5. TunIdInv
  <2>1. {b \in Builders : bldTun[b] # None} = {}
    OBVIOUS
  <2> QED BY <2>1, FS_EmptySet DEF TunIdInv
<1> QED BY <1>1, <1>2, <1>3, <1>4, <1>5 DEF ConnInv, TunInv

-----------------------------------------------------------------------------
(* Requests.                                                               *)

LEMMA RequestStep ==
  ASSUME ReqInv, NEW p \in Requesters, Request(p)
  PROVE  ReqInv'
<1> USE IdFacts, ConnectionAssumption DEF ReqInv, ReqTypeOK
<1>0. /\ reqIdx \in Nat /\ reqIdx + 1 \in Ids /\ reqPc[p] = "idle"
      /\ reqIdx' = reqIdx + 1 /\ reqLive' = reqLive \cup {reqIdx}
      /\ mail' = [mail EXCEPT ![reqIdx] = {}]
      /\ reqId' = [reqId EXCEPT ![p] = reqIdx]
      /\ reqPc' = [reqPc EXCEPT ![p] = "send"]
      /\ got' = [got EXCEPT ![p] = None]
      /\ relayReqs' = relayReqs /\ term' = term
  BY DEF Request, NextId, Ids, procVars
<1>1. ReqTypeOK'
  BY <1>0
<1>2. ReqIdInv'
  <2>1. \A q \in Requesters : reqId[q] # reqIdx
    BY <1>0 DEF ReqIdInv
  <2>2. reqLive' = {reqId'[q] : q \in {r \in Requesters : reqPc'[r] # "idle"}}
    BY <1>0 DEF ReqIdInv
  <2>3. \A q \in Requesters :
          /\ reqId'[q] = None <=> reqPc'[q] = "idle"
          /\ reqId'[q] # None => reqId'[q] < reqIdx'
    <3> SUFFICES ASSUME NEW q \in Requesters
                 PROVE  /\ reqId'[q] = None <=> reqPc'[q] = "idle"
                        /\ reqId'[q] # None => reqId'[q] < reqIdx + 1
      BY <1>0
    <3>1. CASE q = p
      <4>1. reqId'[q] = reqIdx /\ reqPc'[q] = "send" /\ reqIdx # None
        BY <1>0, <3>1
      <4> QED BY <1>0, <4>1
    <3>2. CASE q # p
      <4>1. reqId'[q] = reqId[q] /\ reqPc'[q] = reqPc[q]
        BY <1>0, <3>2
      <4>2. reqId[q] # None => reqId[q] \in Nat /\ reqId[q] < reqIdx
        BY DEF ReqIdInv
      <4>3. reqId[q] = None <=> reqPc[q] = "idle"
        BY DEF ReqIdInv
      <4> QED BY <1>0, <4>1, <4>2, <4>3
    <3> QED BY <3>1, <3>2
  <2>4. \A q, r \in Requesters :
          reqId'[q] = reqId'[r] /\ reqId'[q] # None => q = r
    BY <1>0, <2>1 DEF ReqIdInv
  <2> QED BY <2>2, <2>3, <2>4 DEF ReqIdInv
<1>3. ReqMailInv'
  <2>1. \A q \in Requesters : reqId[q] # reqIdx
    BY <1>0 DEF ReqIdInv
  <2>2. ~term => \A m \in relayReqs : m.id # reqIdx /\ m.from # p
    BY <1>0, <2>1 DEF ReqMailInv
  <2> QED BY <1>0, <2>1, <2>2 DEF ReqMailInv
<1> QED BY <1>1, <1>2, <1>3

LEMMA SendRequestStep ==
  ASSUME ProcInv, ReqInv, NEW p \in Requesters, SendRequest(p)
  PROVE  ReqInv'
<1> USE IdFacts DEF ReqInv, ReqTypeOK
<1> DEFINE m0 == [id |-> reqId[p], from |-> p]
<1>0. /\ reqPc[p] = "send" /\ reqId[p] \in Ids
      /\ \/ /\ reqPc' = [reqPc EXCEPT ![p] = "wait"]
            /\ relayReqs' = relayReqs \cup {m0} /\ ~term
         \/ /\ reqPc' = [reqPc EXCEPT ![p] = "wait"] \/ reqPc' = [reqPc EXCEPT ![p] = "clean"]
            /\ relayReqs' = relayReqs
      /\ UNCHANGED <<reqIdx, reqLive, mail, reqId, got, term>>
  BY DEF SendRequest, SendOutcomes, procVars, ProcInv, ReqIdInv
<1>1. ReqTypeOK'
  BY <1>0
<1>2. ReqIdInv'
  BY <1>0 DEF ReqIdInv
<1>3. ReqMailInv'
  BY <1>0 DEF ReqMailInv, ReqIdInv
<1> QED BY <1>1, <1>2, <1>3

LEMMA RequestAnsweredStep ==
  ASSUME ReqInv, NEW p \in Requesters, RequestAnswered(p)
  PROVE  ReqInv'
<1> USE IdFacts DEF ReqInv, ReqTypeOK
<1>0. PICK x \in mail[reqId[p]] :
        /\ mail' = [mail EXCEPT ![reqId[p]] = @ \ {x}]
        /\ got' = [got EXCEPT ![p] = x.from]
  BY DEF RequestAnswered
<1>1. /\ reqPc[p] = "wait" /\ reqId[p] \in Ids /\ x.from = p
      /\ reqPc' = [reqPc EXCEPT ![p] = "clean"]
      /\ UNCHANGED <<reqIdx, reqLive, reqId, relayReqs, term>>
  BY <1>0 DEF RequestAnswered, procVars, ReqIdInv, ReqMailInv
<1>2. ReqTypeOK'
  BY <1>0, <1>1
<1>3. ReqIdInv'
  BY <1>1 DEF ReqIdInv
<1>4. ReqMailInv'
  <2>1. ~term => \A m \in relayReqs : m.from # p /\ m.id # reqId[p]
    BY <1>0, <1>1 DEF ReqMailInv, ReqIdInv
  <2> QED BY <1>0, <1>1, <2>1 DEF ReqMailInv, ReqIdInv
<1> QED BY <1>2, <1>3, <1>4

\* A Request gives up only when term is closed, and then cleans up.
LEMMA RequestEndStep ==
  ASSUME ReqInv, NEW p \in Requesters, RequestClosed(p) \/ RequestReturns(p)
  PROVE  ReqInv'
<1> USE IdFacts DEF ReqInv, ReqTypeOK
<1>1. CASE RequestClosed(p)
  <2>0. /\ reqPc[p] = "wait" /\ term /\ term' = term
        /\ reqPc' = [reqPc EXCEPT ![p] = "clean"]
        /\ UNCHANGED <<reqIdx, reqLive, mail, reqId, got, relayReqs>>
    BY <1>1 DEF RequestClosed, WatchesTerm, procVars
  <2>1. ReqTypeOK' /\ ReqIdInv'
    BY <2>0 DEF ReqIdInv
  <2>2. ReqMailInv'
    BY <2>0 DEF ReqMailInv
  <2> QED BY <2>1, <2>2
<1>2. CASE RequestReturns(p)
  <2>0. /\ reqPc[p] = "clean" /\ term' = term
        /\ reqLive' = reqLive \ {reqId[p]}
        /\ reqPc' = [reqPc EXCEPT ![p] = "idle"]
        /\ reqId' = [reqId EXCEPT ![p] = None]
        /\ UNCHANGED <<reqIdx, mail, got, relayReqs>>
    BY <1>2 DEF RequestReturns, procVars
  <2>1. ReqTypeOK'
    BY <2>0
  <2>2. ReqIdInv'
    <3>1. reqLive' = {reqId'[q] : q \in {r \in Requesters : reqPc'[r] # "idle"}}
      BY <2>0 DEF ReqIdInv
    <3> QED BY <2>0, <3>1 DEF ReqIdInv
  <2>3. ReqMailInv'
    BY <2>0 DEF ReqMailInv, ReqIdInv
  <2> QED BY <2>1, <2>2, <2>3
<1> QED BY <1>1, <1>2

\* The request of a reply waits with empty channels: process() cannot block.
LEMMA ReadReplyStep ==
  ASSUME ProcInv, ReqInv, NEW m \in relayReqs, ReadReply(m)
  PROVE  ReqInv' /\ procPc' = procPc
<1> USE IdFacts DEF ReqInv, ReqTypeOK
<1>0. ~term /\ m.id \in Ids /\ m.from \in Requesters
      /\ m = [id |-> m.id, from |-> m.from]
  BY DEF ReadReply, ProcInv
<1>1. /\ reqPc[m.from] = "wait" /\ reqId[m.from] = m.id
      /\ mail[m.id] = {} /\ m.id \in reqLive
  BY <1>0 DEF ReqMailInv, ReqIdInv
<1>2. PICK kind \in {"reply", "error"} :
        /\ mail' = [mail EXCEPT ![m.id] = @ \cup {[kind |-> kind, from |-> m.from]}]
        /\ procPc' = procPc
  BY <1>1 DEF ReadReply
<1>3. /\ relayReqs' = relayReqs \ {m}
      /\ UNCHANGED <<term, reqIdx, reqLive, reqPc, reqId, got>>
  BY DEF ReadReply
<1>4. ReqTypeOK'
  <2>1. [kind |-> kind, from |-> m.from]
          \in [kind : {"reply", "error"}, from : Requesters]
    BY <1>0
  <2>2. mail[m.id] \subseteq [kind : {"reply", "error"}, from : Requesters]
    BY <1>0
  <2>3. mail' \in [Ids -> SUBSET [kind : {"reply", "error"}, from : Requesters]]
    BY <1>0, <1>2, <2>1, <2>2
  <2> QED BY <1>3, <2>3
<1>5. ReqIdInv'
  BY <1>3 DEF ReqIdInv
<1>6. ReqMailInv'
  <2>1. \A k \in relayReqs \ {m} : k.id # m.id
    <3> SUFFICES ASSUME NEW k \in relayReqs, k.id = m.id PROVE k = m
      OBVIOUS
    <3>1. reqId[k.from] = m.id /\ k.from \in Requesters
      BY <1>0 DEF ReqMailInv
    <3>2. k.from = m.from
      BY <1>0, <1>1, <3>1 DEF ReqIdInv
    <3>3. k = [id |-> k.id, from |-> k.from]
      OBVIOUS
    <3> QED BY <1>0, <3>2, <3>3
  <2>2. mail'[m.id] = {[kind |-> kind, from |-> m.from]}
    BY <1>0, <1>1, <1>2
  <2>3. \A i \in Ids : i # m.id => mail'[i] = mail[i]
    BY <1>2
  <2>4. ASSUME NEW p \in Requesters
        PROVE  /\ reqPc'[p] = "send" => mail'[reqId'[p]] = {}
               /\ reqId'[p] # None => \A x \in mail'[reqId'[p]] : x.from = p
               /\ got'[p] \in {p, None}
    <3>1. CASE p = m.from
      BY <1>0, <1>1, <1>3, <2>2, <3>1 DEF ReqMailInv
    <3>2. CASE p # m.from
      <4>1. reqId[p] # None => reqId[p] # m.id /\ reqId[p] \in Ids
        BY <1>0, <1>1, <3>2 DEF ReqIdInv
      <4>2. reqPc[p] = "send" => reqId[p] # None
        BY DEF ReqIdInv
      <4> QED BY <1>3, <2>3, <4>1, <4>2 DEF ReqMailInv
    <3> QED BY <3>1, <3>2
  <2>5. ASSUME ~term', NEW k \in relayReqs'
        PROVE  reqPc'[k.from] = "wait" /\ reqId'[k.from] = k.id /\ mail'[k.id] = {}
    BY <1>0, <1>3, <2>1, <2>3 DEF ReqMailInv
  <2> QED BY <2>4, <2>5 DEF ReqMailInv
<1> QED BY <1>2, <1>4, <1>5, <1>6

-----------------------------------------------------------------------------
(* Tunnels.                                                                *)

\* A builder moves on with the tunnel it has, or fails without one.
LEMMA MoveStep ==
  ASSUME ProcTypeOK, ProcInv, TunInv, NEW b \in Builders,
         NEW l \in {"wait", "allow", "abort", "handed", "accept", "failed"},
         \/ /\ bldPc[b] \in {"send", "wait", "confirm", "allow"}
            /\ l \in {"wait", "allow", "abort", "handed"}
         \/ bldPc[b] = "idle" /\ l = "accept"
         \/ bldPc[b] \in {"idle", "accept"} /\ l = "failed",
         bldPc' = [bldPc EXCEPT ![b] = l],
         term \/ bldPc[b] # "wait" \/ bldTun[b] \notin relayInits,
         UNCHANGED <<tunIdx, tunLive, tunNil, tunTerm, bldTun, tunClosers, relayInits,
                     relayTuns, term>>,
         procPc' = "result" => procPc = "result" /\ procTun' = procTun
  PROVE  TunInv'
<1> USE TunnelFacts DEF TunInv, TunTypeOK
<1>1. TunTypeOK'
  OBVIOUS
<1>2. TunIdInv'
  BY DEF TunIdInv
<1>3. TunLiveInv'
  BY DEF TunLiveInv, TunIdInv
<1>4. TunInitInv'
  <2>1. ASSUME ~term, NEW t \in relayInits
        PROVE  \E a \in Builders : bldTun'[a] = t /\ bldPc'[a] = "wait"
    BY <2>1 DEF TunInitInv
  <2>2. \A a \in Builders : bldPc'[a] = "send" => bldPc[a] = "send"
    OBVIOUS
  <2> QED BY <2>1, <2>2 DEF TunInitInv
<1> QED BY <1>1, <1>2, <1>3, <1>4

\* newTunnel hands out a fresh id, or fails once the map is gone.
LEMMA NewTunnelStep ==
  ASSUME ProcTypeOK, ProcInv, TunInv, NEW b \in Builders,
         NEW l \in {"send", "confirm"}, bldPc[b] \in {"idle", "accept"},
         NewTunnel(b, l),
         UNCHANGED <<tunNil, tunTerm, relayInits, relayTuns, tunClosers, procVars>>
  PROVE  TunInv' /\ (tunNil => tunLive' = {})
<1> USE TunnelFacts DEF TunInv, TunTypeOK
<1>1. CASE tunNil
  <2>1. /\ bldPc' = [bldPc EXCEPT ![b] = "failed"]
        /\ UNCHANGED <<tunIdx, tunLive, bldTun, term, procPc, procTun>>
    BY <1>1 DEF NewTunnel, MoveTo, procVars
  <2>2. TunInv'
    BY <2>1, MoveStep
  <2> QED BY <1>1, <2>1, <2>2 DEF ProcInv
<1>2. CASE ~tunNil
  <2>0. /\ bldPc' = [bldPc EXCEPT ![b] = l] /\ bldTun[b] = None
        /\ tunIdx' = tunIdx + 1 /\ tunLive' = tunLive \cup {tunIdx}
        /\ bldTun' = [bldTun EXCEPT ![b] = tunIdx]
        /\ tunIdx \in Nat /\ tunIdx # None
        /\ UNCHANGED <<tunNil, tunTerm, relayInits, relayTuns, tunClosers,
                       term, procPc, procTun>>
    BY <1>2 DEF NewTunnel, MoveTo, TunIdInv, procVars
  <2>1. tunIdx + 1 \in Tunnels
    BY <2>0, IdLeft
  <2>2. \A a \in Builders : bldTun[a] # None => bldTun[a] \in Nat /\ bldTun[a] < tunIdx
    BY DEF TunIdInv
  <2>3. TunTypeOK'
    BY <2>0, <2>1
  <2>4. TunIdInv'
    <3>1. tunIdx' = Cardinality({a \in Builders : bldTun'[a] # None})
      BY <2>0, IdTaken
    <3>2. \A a \in Builders :
            /\ bldTun'[a] # None => bldTun'[a] < tunIdx'
            /\ bldPc'[a] \in {"idle", "accept"} => bldTun'[a] = None
            /\ bldPc'[a] \in {"send", "wait", "confirm", "allow", "abort", "handed"}
                 => bldTun'[a] # None
      <4> SUFFICES ASSUME NEW a \in Builders
                   PROVE  /\ bldTun'[a] # None => bldTun'[a] < tunIdx + 1
                          /\ bldPc'[a] \in {"idle", "accept"} => bldTun'[a] = None
                          /\ bldPc'[a] \in {"send", "wait", "confirm", "allow",
                                            "abort", "handed"} => bldTun'[a] # None
        BY <2>0
      <4>1. CASE a = b
        <5>1. bldTun'[a] = tunIdx /\ bldPc'[a] = l
          BY <2>0, <4>1
        <5> QED BY <2>0, <5>1
      <4>2. CASE a # b
        <5>1. bldTun'[a] = bldTun[a] /\ bldPc'[a] = bldPc[a]
          BY <2>0, <4>2
        <5>2. bldTun[a] # None => bldTun[a] < tunIdx + 1
          BY <2>0, <2>2
        <5> QED BY <5>1, <5>2 DEF TunIdInv
      <4> QED BY <4>1, <4>2
    <3>3. \A a, c \in Builders : bldTun'[a] = bldTun'[c] /\ bldTun'[a] # None => a = c
      BY <2>0, <2>2 DEF TunIdInv
    <3>4. \A t \in relayInits \cup relayTuns \cup tunClosers \cup tunLive : t < tunIdx + 1
      <4>1. \A t \in relayInits \cup relayTuns \cup tunClosers \cup tunLive :
              t \in Nat /\ t < tunIdx
        BY DEF TunIdInv
      <4> QED BY <2>0, <4>1
    <3>5. \A t \in Tunnels : t >= tunIdx' => tunTerm'[t] = 0
      <4>1. \A t \in Tunnels : t >= tunIdx + 1 => t >= tunIdx
        BY <2>0
      <4> QED BY <2>0, <4>1 DEF TunIdInv
    <3> QED BY <2>0, <3>1, <3>2, <3>3, <3>4, <3>5 DEF TunIdInv
  <2>5. tunTerm[tunIdx] = 0 /\ tunIdx \notin tunLive
    BY <2>0 DEF TunIdInv
  <2>6. TunLiveInv'
    <3>1. \A t \in tunLive' :
            \E a \in Builders : bldTun'[a] = t /\ bldPc'[a] # "failed"
      BY <2>0 DEF TunLiveInv
    <3>2. \A a \in Builders : bldTun'[a] # None /\ bldPc'[a] # "failed" =>
            (bldTun'[a] \in tunLive' <=> tunTerm[bldTun'[a]] = 0)
      <4> SUFFICES ASSUME NEW a \in Builders, bldTun'[a] # None, bldPc'[a] # "failed"
                   PROVE  bldTun'[a] \in tunLive' <=> tunTerm[bldTun'[a]] = 0
        OBVIOUS
      <4>1. CASE a = b
        BY <2>0, <2>5, <4>1
      <4>2. CASE a # b
        <5>1. bldTun'[a] = bldTun[a] /\ bldPc'[a] = bldPc[a] /\ bldTun[a] # tunIdx
          BY <2>0, <2>2, <4>2
        <5> QED BY <2>0, <5>1 DEF TunLiveInv
      <4> QED BY <4>1, <4>2
    <3> QED BY <2>0, <3>1, <3>2 DEF TunLiveInv
  <2>7. TunInitInv'
    <3>1. tunIdx \notin relayInits \cup relayTuns \cup tunClosers
      BY <2>0 DEF TunIdInv
    <3>2. ~term => \A t \in relayInits :
            /\ t \in tunLive' /\ t \notin relayTuns \cup tunClosers
            /\ \E a \in Builders : bldTun'[a] = t /\ bldPc'[a] = "wait"
      BY <2>0 DEF TunInitInv
    <3>3. \A a \in Builders : bldPc'[a] = "send" =>
            /\ bldTun'[a] \notin relayInits \cup relayTuns \cup tunClosers
            /\ ~term => bldTun'[a] \in tunLive'
      BY <2>0, <3>1 DEF TunInitInv
    <3>4. ASSUME procPc = "result"
          PROVE  /\ procTun[1] \in Tunnels /\ procTun[1] < tunIdx + 1
                 /\ procTun[1] \notin relayInits
                 /\ \A a \in Builders : bldPc'[a] = "send" => bldTun'[a] # procTun[1]
      <4>1. /\ procTun[1] \in Nat /\ procTun[1] < tunIdx
            /\ procTun[1] \in Tunnels /\ procTun[1] \notin relayInits
        BY <3>4 DEF TunInitInv
      <4> QED BY <2>0, <3>4, <4>1 DEF TunInitInv
    <3> QED BY <2>0, <3>2, <3>3, <3>4 DEF TunInitInv
  <2> QED BY <1>2, <2>3, <2>4, <2>6, <2>7
<1> QED BY <1>1, <1>2

\* The relay gets to know the tunnel of a builder that goes on to wait.
LEMMA SendTunnelInitStep ==
  ASSUME ProcTypeOK, ProcInv, TunInv, NEW b \in Builders, SendTunnelInit(b)
  PROVE  TunInv'
<1> USE TunnelFacts DEF TunInv, TunTypeOK
<1>0. /\ bldPc[b] = "send" /\ bldTun[b] \in Tunnels /\ bldTun[b] # None
      /\ UNCHANGED <<tunIdx, tunLive, tunNil, tunTerm, bldTun, relayTuns,
                     tunClosers, term, procPc, procTun>>
      /\ \/ /\ up /\ bldPc' = [bldPc EXCEPT ![b] = "wait"]
            /\ relayInits' = relayInits \cup {bldTun[b]}
         \/ /\ relayInits' = relayInits
            /\ \E l \in {"abort", "wait"} : bldPc' = [bldPc EXCEPT ![b] = l]
  BY DEF SendTunnelInit, SendOutcomes, MoveTo, procVars, TunIdInv
<1>1. CASE relayInits' = relayInits
  <2>1. PICK l \in {"abort", "wait"} : bldPc' = [bldPc EXCEPT ![b] = l]
    BY <1>0
  <2>2. /\ bldPc[b] \in {"send", "wait", "confirm", "allow"}
        /\ l \in {"wait", "allow", "abort", "handed"} /\ bldPc[b] # "wait"
    BY <1>0
  <2>3. /\ procPc' = "result" => procPc = "result" /\ procTun' = procTun
        /\ UNCHANGED <<tunIdx, tunLive, tunNil, tunTerm, bldTun, tunClosers,
                       relayInits, relayTuns, term>>
    BY <1>0, <1>1
  <2> QED BY <2>1, <2>2, <2>3, MoveStep
<1>2. CASE /\ up /\ bldPc' = [bldPc EXCEPT ![b] = "wait"]
           /\ relayInits' = relayInits \cup {bldTun[b]}
  <2>1. TunTypeOK' /\ TunIdInv'
    BY <1>0, <1>2 DEF TunIdInv
  <2>2. TunLiveInv'
    BY <1>0, <1>2 DEF TunLiveInv
  <2>3. bldTun[b] \in tunLive /\ bldTun[b] \notin relayTuns \cup tunClosers
    BY <1>0, <1>2 DEF TunInitInv, ProcInv
  <2>4. TunInitInv'
    BY <1>0, <1>2, <2>3 DEF TunInitInv, TunIdInv
  <2> QED BY <2>1, <2>2, <2>4
<1> QED BY <1>0, <1>1, <1>2

\* The tunnel of a result is registered and its builder waits: process()
\* always finds it.
LEMMA ReadTunnelResultStep ==
  ASSUME ProcTypeOK, ProcInv, TunInv, NEW t \in relayInits, NEW ok \in BOOLEAN,
         ReadTunnelResult(t, ok)
  PROVE  TunInv' /\ procPc' = "result" /\ procTun' = <<t, ok>>
<1> USE TunnelFacts DEF TunInv, TunTypeOK
<1>0. ~term /\ t \in tunLive
  BY DEF ReadTunnelResult, ProcInv, TunInitInv
<1>1. /\ relayInits' = relayInits \ {t} /\ relayTuns' \subseteq relayTuns \cup {t}
      /\ procPc' = "result" /\ procTun' = <<t, ok>>
      /\ UNCHANGED <<tunIdx, tunLive, tunNil, tunTerm, bldPc, bldTun, tunClosers, term>>
  BY <1>0 DEF ReadTunnelResult
<1>2. PICK b \in Builders : bldTun[b] = t /\ bldPc[b] = "wait"
  BY <1>0 DEF TunInitInv
<1>3. t \in Tunnels /\ t < tunIdx /\ t # None
  BY DEF TunIdInv
<1>4. TunTypeOK' /\ TunIdInv'
  BY <1>1, <1>3 DEF TunIdInv
<1>5. TunLiveInv'
  BY <1>1 DEF TunLiveInv
<1>6. TunInitInv'
  <2>1. \A a \in Builders : bldPc[a] = "send" => bldTun[a] # t
    BY <1>2, <1>3 DEF TunIdInv
  <2>2. procTun'[1] = t
    BY <1>1
  <2> QED BY <1>1, <1>3, <2>1, <2>2 DEF TunInitInv
<1> QED BY <1>1, <1>4, <1>5, <1>6

LEMMA SendTunnelConfirmStep ==
  ASSUME ProcTypeOK, ProcInv, TunInv, NEW b \in Builders, SendTunnelConfirm(b)
  PROVE  TunInv'
<1> USE TunnelFacts DEF TunInv, TunTypeOK
<1>0. /\ bldPc[b] = "confirm" /\ bldTun[b] \in Tunnels /\ bldTun[b] # None
      /\ bldTun[b] < tunIdx
      /\ relayTuns' \subseteq relayTuns \cup {bldTun[b]}
      /\ UNCHANGED <<tunIdx, tunLive, tunNil, tunTerm, bldTun, relayInits,
                     tunClosers, term, procPc, procTun>>
  BY DEF SendTunnelConfirm, procVars, TunIdInv
<1>1. PICK l \in {"abort", "allow"} : bldPc' = [bldPc EXCEPT ![b] = l]
  BY DEF SendTunnelConfirm, MoveTo
<1>2. TunTypeOK' /\ TunIdInv'
  BY <1>0, <1>1 DEF TunIdInv
<1>3. TunLiveInv'
  BY <1>0, <1>1 DEF TunLiveInv
<1>4. TunInitInv'
  <2>1. \A a \in Builders : bldPc[a] \in {"send", "wait"} => bldTun[a] # bldTun[b]
    BY <1>0 DEF TunIdInv
  <2>2. ~term => bldTun[b] \notin relayInits
    BY <2>1 DEF TunInitInv
  <2>3. ~term => \A t \in relayInits :
          /\ t \notin relayTuns'
          /\ \E a \in Builders : bldTun[a] = t /\ bldPc'[a] = "wait"
    BY <1>0, <1>1, <2>2 DEF TunInitInv
  <2>4. \A a \in Builders : bldPc'[a] = "send" =>
          bldPc[a] = "send" /\ bldTun[a] \notin relayTuns'
    BY <1>0, <1>1, <2>1 DEF TunInitInv
  <2> QED BY <1>0, <2>3, <2>4 DEF TunInitInv
<1> QED BY <1>2, <1>3, <1>4

\* A construction that failed takes its tunnel out of the map.
LEMMA AbortTunnelStep ==
  ASSUME ProcTypeOK, ProcInv, TunInv, NEW b \in Builders, AbortTunnel(b)
  PROVE  TunInv' /\ (tunNil => tunLive' = {})
<1> USE TunnelFacts DEF TunInv, TunTypeOK
<1>0. /\ bldPc[b] = "abort" /\ bldTun[b] # None
      /\ bldPc' = [bldPc EXCEPT ![b] = "failed"]
      /\ tunLive' = tunLive \ {bldTun[b]}
      /\ UNCHANGED <<tunIdx, tunNil, tunTerm, bldTun, relayInits, relayTuns,
                     tunClosers, term, procPc, procTun>>
  BY DEF AbortTunnel, MoveTo, Forgotten, procVars, TunIdInv
<1>1. TunTypeOK' /\ TunIdInv'
  BY <1>0 DEF TunIdInv
<1>2. TunLiveInv'
  BY <1>0 DEF TunLiveInv, TunIdInv
<1>3. TunInitInv'
  <2>1. \A a \in Builders : bldPc[a] \in {"send", "wait"} => bldTun[a] # bldTun[b]
    BY <1>0 DEF TunIdInv
  <2>2. ~term => bldTun[b] \notin relayInits
    BY <2>1 DEF TunInitInv
  <2> QED BY <1>0, <2>1, <2>2 DEF TunInitInv
<1> QED BY <1>0, <1>1, <1>2, <1>3 DEF ProcInv

\* The relay closes an established tunnel; a goroutine takes it from there.
LEMMA TunnelCloseStep ==
  ASSUME ProcTypeOK, ProcInv, TunInv, NEW t,
         \/ t \in relayTuns /\ ReadTunnelClose(t)
         \/ HandleTunnelClose(t)
  PROVE  TunInv' /\ (tunNil => tunLive' = {})
<1> USE TunnelFacts DEF TunInv, TunTypeOK
<1>0. /\ relayTuns' \cup tunClosers' \subseteq relayTuns \cup tunClosers
      /\ UNCHANGED <<tunIdx, tunNil, bldPc, bldTun, relayInits, term, procPc, procTun>>
      /\ t \in relayTuns \cup tunClosers /\ t \in Tunnels /\ t < tunIdx
  BY DEF ReadTunnelClose, HandleTunnelClose, procVars, TunIdInv
<1>1. \/ UNCHANGED <<tunLive, tunTerm>>
      \/ /\ t \in tunLive /\ tunLive' = tunLive \ {t}
         /\ tunTerm' = [tunTerm EXCEPT ![t] = 1]
  <2>1. CASE HandleTunnelClose(t) /\ t \in tunLive
    <3>1. PICK b \in Builders : bldTun[b] = t /\ bldPc[b] # "failed"
      BY <2>1 DEF TunLiveInv
    <3>2. tunTerm[t] = 0
      BY <1>0, <2>1, <3>1 DEF TunLiveInv
    <3> QED BY <2>1, <3>2 DEF HandleTunnelClose
  <2>2. CASE ~(HandleTunnelClose(t) /\ t \in tunLive)
    BY <2>2 DEF ReadTunnelClose, HandleTunnelClose
  <2> QED BY <2>1, <2>2
<1>2. TunTypeOK'
  <2>1. tunTerm' \in [Tunnels -> 0 .. 1]
    BY <1>1
  <2>2. tunLive' \subseteq Tunnels
    BY <1>1
  <2> QED BY <1>0, <2>1, <2>2
<1>3. TunIdInv'
  <2>1. \A u \in Tunnels : u >= tunIdx => tunTerm'[u] = 0
    BY <1>0, <1>1 DEF TunIdInv
  <2>2. tunLive' \subseteq tunLive
    BY <1>1
  <2> QED BY <1>0, <2>1, <2>2 DEF TunIdInv
<1>4. TunLiveInv'
  <2>1. tunLive' \subseteq tunLive
    BY <1>1
  <2>2. \A b \in Builders : bldTun[b] # None /\ bldPc[b] # "failed" =>
          (bldTun[b] \in tunLive' <=> tunTerm'[bldTun[b]] = 0)
    <3> SUFFICES ASSUME NEW b \in Builders, bldTun[b] # None, bldPc[b] # "failed"
                 PROVE  bldTun[b] \in tunLive' <=> tunTerm'[bldTun[b]] = 0
      OBVIOUS
    <3>1. /\ bldTun[b] \in Tunnels
          /\ bldTun[b] \in tunLive <=> tunTerm[bldTun[b]] = 0
      BY DEF TunLiveInv
    <3>2. CASE bldTun[b] = t
      BY <1>0, <1>1, <3>1, <3>2
    <3>3. CASE bldTun[b] # t
      BY <1>0, <1>1, <3>1, <3>3
    <3> QED BY <3>2, <3>3
  <2> QED BY <1>0, <2>1, <2>2 DEF TunLiveInv
<1>5. TunInitInv'
  <2>1. \A b \in Builders : bldPc[b] = "send" => bldTun[b] # t
    BY <1>0 DEF TunInitInv
  <2>2. ~term => t \notin relayInits
    BY <1>0 DEF TunInitInv
  <2>3. \A u \in tunLive : u # t => u \in tunLive'
    BY <1>1
  <2> QED BY <1>0, <2>1, <2>2, <2>3 DEF TunInitInv
<1> QED BY <1>0, <1>1, <1>2, <1>3, <1>4, <1>5 DEF ProcInv

\* handleClose closes every registered tunnel, once.
LEMMA CloseTunnelsStep ==
  ASSUME ProcTypeOK, ProcInv, TunInv, CloseTunnels
  PROVE  TunInv' /\ ProcInv'
<1> USE TunnelFacts DEF TunInv, TunTypeOK
<1>0. /\ term /\ procPc = "tunnels" /\ procPc' = "sync"
      /\ tunLive' = {} /\ tunNil' = TRUE
      /\ tunTerm' = [t \in Tunnels |-> IF t \in tunLive THEN tunTerm[t] + 1
                                                        ELSE tunTerm[t]]
      /\ UNCHANGED <<up, tunIdx, bldPc, bldTun, relayInits, relayTuns, tunClosers,
                     term, procTun, closePc>>
  BY DEF CloseTunnels, ProcInv, closeVars
<1>1. \A t \in tunLive : tunTerm[t] = 0
  <2> SUFFICES ASSUME NEW t \in tunLive PROVE tunTerm[t] = 0
    OBVIOUS
  <2>1. PICK b \in Builders : bldTun[b] = t /\ bldPc[b] # "failed"
    BY DEF TunLiveInv
  <2> QED BY <2>1 DEF TunLiveInv
<1>2. \A t \in Tunnels : tunTerm'[t] = IF t \in tunLive THEN 1 ELSE tunTerm[t]
  BY <1>0, <1>1
<1>3. TunTypeOK'
  <2>1. tunTerm' \in [Tunnels -> 0 .. 1]
    BY <1>0, <1>1
  <2> QED BY <1>0, <2>1
<1>4. TunIdInv'
  BY <1>0, <1>2 DEF TunIdInv
<1>5. TunLiveInv'
  <2>1. \A b \in Builders : bldTun[b] # None /\ bldPc[b] # "failed" =>
          tunTerm'[bldTun[b]] # 0
    <3> SUFFICES ASSUME NEW b \in Builders, bldTun[b] # None, bldPc[b] # "failed"
                 PROVE  tunTerm'[bldTun[b]] # 0
      OBVIOUS
    <3>1. /\ bldTun[b] \in Tunnels
          /\ bldTun[b] \in tunLive <=> tunTerm[bldTun[b]] = 0
      BY DEF TunLiveInv
    <3>2. CASE bldTun[b] \in tunLive
      <4>1. tunTerm'[bldTun[b]] = 1
        BY <1>2, <3>1, <3>2, Zenon
      <4> QED BY <4>1
    <3>3. CASE bldTun[b] \notin tunLive
      BY <1>2, <3>1, <3>3
    <3> QED BY <3>2, <3>3
  <2> QED BY <1>0, <2>1 DEF TunLiveInv
<1>6. TunInitInv'
  BY <1>0 DEF TunInitInv
<1>7. ProcInv'
  BY <1>0 DEF ProcInv
<1> QED BY <1>3, <1>4, <1>5, <1>6, <1>7

-----------------------------------------------------------------------------
(* All steps.                                                              *)

\* process() and the closers go on as they were; the link may break.
LEMMA ProcFrame ==
  ASSUME ProcTypeOK, CloseTypeOK, ProcInv,
         UNCHANGED <<term, procPc, procTun, procErr, tunNil, closePc, relayClose>>,
         up' \in BOOLEAN, up' => up, tunNil => tunLive' = {}
  PROVE  ProcTypeOK' /\ CloseTypeOK' /\ ProcInv'
BY DEF ProcTypeOK, CloseTypeOK, ProcInv

\* Steps of requesters.
LEMMA RequesterSteps ==
  ASSUME ConnInv, NEW p \in Requesters, Request(p) \/ RequesterStep(p)
  PROVE  ConnInv'
<1>1. ReqInv'
  BY RequestStep, SendRequestStep, RequestAnsweredStep, RequestEndStep
     DEF ConnInv, RequesterStep
<1>2. UNCHANGED <<up, procVars, tunVars, closeVars>>
  BY DEF Request, RequesterStep, SendRequest, RequestAnswered, RequestClosed,
         RequestReturns
<1>3. TunInv'
  BY <1>2, TunFrame DEF ConnInv, procVars
<1>4. ProcTypeOK' /\ CloseTypeOK' /\ ProcInv'
  BY <1>2, ProcFrame DEF ConnInv, procVars, tunVars, closeVars, ProcTypeOK, ProcInv
<1> QED BY <1>1, <1>3, <1>4 DEF ConnInv

\* Steps of builders, process() not involved.
LEMMA BuilderSteps ==
  ASSUME ConnInv, NEW b \in Builders,
         \/ InitTunnel(b) \/ ReadTunnelInit(b)
         \/ BuilderStep(b) /\ ~InitResult(b)
  PROVE  ConnInv'
<1>0. UNCHANGED <<up, procVars, reqVars, closeVars, tunNil>>
  BY DEF InitTunnel, ReadTunnelInit, BuilderStep, SendTunnelInit, InitClosed,
         AcceptTunnel, SendTunnelConfirm, SendTunnelAllowance, AbortTunnel
<1>1. TunInv' /\ (tunNil => tunLive' = {})
  <2> USE DEF ConnInv
  <2>1. CASE InitTunnel(b) \/ AcceptTunnel(b)
    BY <2>1, NewTunnelStep DEF InitTunnel, AcceptTunnel
  <2>2. CASE SendTunnelInit(b)
    BY <2>2, SendTunnelInitStep DEF SendTunnelInit, ProcInv
  <2>3. CASE InitClosed(b) \/ ReadTunnelInit(b) \/ SendTunnelAllowance(b)
    <3>1. UNCHANGED <<tunIdx, tunLive, tunNil, tunTerm, bldTun, tunClosers,
                      relayInits, relayTuns, term, procPc, procTun>>
      BY <2>3 DEF InitClosed, ReadTunnelInit, SendTunnelAllowance, procVars
    <3>2. \E l \in {"wait", "allow", "abort", "handed", "accept", "failed"} :
            /\ \/ /\ bldPc[b] \in {"send", "wait", "confirm", "allow"}
                  /\ l \in {"wait", "allow", "abort", "handed"}
               \/ bldPc[b] = "idle" /\ l = "accept"
            /\ bldPc' = [bldPc EXCEPT ![b] = l]
            /\ term \/ bldPc[b] # "wait"
      BY <2>3 DEF InitClosed, ReadTunnelInit, SendTunnelAllowance, MoveTo
    <3> QED BY <3>1, <3>2, MoveStep DEF ProcInv
  <2>4. CASE SendTunnelConfirm(b)
    BY <2>4, SendTunnelConfirmStep DEF SendTunnelConfirm, ProcInv
  <2>5. CASE AbortTunnel(b)
    BY <2>5, AbortTunnelStep
  <2> QED BY <2>1, <2>2, <2>3, <2>4, <2>5 DEF BuilderStep
<1>2. ReqInv'
  BY <1>0, ReqFrame DEF ConnInv, procVars
<1>3. ProcTypeOK' /\ CloseTypeOK' /\ ProcInv'
  BY <1>0, <1>1, ProcFrame DEF ConnInv, procVars, closeVars, ProcTypeOK
<1> QED BY <1>1, <1>2, <1>3 DEF ConnInv

\* process() reads a packet of the relay, or passes a result on.
LEMMA ReadSteps ==
  ASSUME ConnInv,
         \/ \E m \in relayReqs : ReadReply(m)
         \/ \E t \in relayInits : \E ok \in BOOLEAN : ReadTunnelResult(t, ok)
         \/ \E b \in Builders : InitResult(b)
         \/ \E t \in relayTuns : ReadTunnelClose(t)
         \/ \E t \in tunClosers : HandleTunnelClose(t)
  PROVE  ConnInv'
<1> USE DEF ConnInv
<1>1. ASSUME NEW m \in relayReqs, ReadReply(m) PROVE ConnInv'
  <2>1. ReqInv' /\ procPc' = procPc
    BY <1>1, ReadReplyStep
  <2>2. UNCHANGED <<up, term, procTun, procErr, tunVars, closeVars>>
    BY <1>1 DEF ReadReply
  <2>3. TunInv'
    BY <2>1, <2>2, TunFrame
  <2>4. ProcTypeOK' /\ CloseTypeOK' /\ ProcInv'
    BY <2>1, <2>2, ProcFrame DEF tunVars, closeVars, ProcTypeOK, ProcInv
  <2> QED BY <2>1, <2>3, <2>4
<1>2. ASSUME NEW t \in relayInits, NEW ok \in BOOLEAN, ReadTunnelResult(t, ok)
      PROVE  ConnInv'
  <2>1. TunInv' /\ procPc' = "result" /\ procTun' = <<t, ok>>
    BY <1>2, ReadTunnelResultStep
  <2>2. /\ procPc = "read" /\ t \in Tunnels
        /\ UNCHANGED <<up, term, procErr, reqVars, tunLive, tunNil, closeVars>>
    BY <1>2 DEF ReadTunnelResult, TunInv, TunTypeOK
  <2>3. ReqInv'
    BY <2>2, ReqFrame
  <2>4. ProcTypeOK' /\ CloseTypeOK' /\ ProcInv'
    BY <2>1, <2>2 DEF ProcTypeOK, CloseTypeOK, ProcInv, closeVars
  <2> QED BY <2>1, <2>3, <2>4
<1>3. ASSUME NEW b \in Builders, InitResult(b) PROVE ConnInv'
  <2>0. /\ procPc = "result" /\ procPc' = "read" /\ procTun' = <<None, FALSE>>
        /\ bldPc[b] = "wait" /\ bldTun[b] = procTun[1]
        /\ UNCHANGED <<up, term, procErr, reqVars, tunIdx, tunLive, tunNil, tunTerm,
                       bldTun, relayInits, relayTuns, tunClosers, closeVars>>
    BY <1>3 DEF InitResult
  <2>1. TunInv'
    <3>1. PICK l \in {"allow", "abort"} : bldPc' = [bldPc EXCEPT ![b] = l]
      BY <1>3 DEF InitResult, MoveTo
    <3>2. bldTun[b] \notin relayInits
      BY <2>0 DEF TunInv, TunInitInv
    <3> QED BY <2>0, <3>1, <3>2, MoveStep
  <2>2. ReqInv'
    BY <2>0, ReqFrame
  <2>3. ProcTypeOK' /\ CloseTypeOK' /\ ProcInv'
    BY <2>0 DEF ProcTypeOK, CloseTypeOK, ProcInv, closeVars
  <2> QED BY <2>1, <2>2, <2>3
<1>4. ASSUME NEW t, (t \in relayTuns /\ ReadTunnelClose(t)) \/ HandleTunnelClose(t)
      PROVE  ConnInv'
  <2>1. TunInv' /\ (tunNil => tunLive' = {})
    BY <1>4, TunnelCloseStep
  <2>2. UNCHANGED <<up, procVars, reqVars, tunNil, closeVars>>
    BY <1>4 DEF ReadTunnelClose, HandleTunnelClose
  <2>3. ReqInv'
    BY <2>2, ReqFrame DEF procVars
  <2>4. ProcTypeOK' /\ CloseTypeOK' /\ ProcInv'
    BY <2>1, <2>2, ProcFrame DEF procVars, closeVars, ProcTypeOK
  <2> QED BY <2>1, <2>3, <2>4
<1> QED BY <1>1, <1>2, <1>3, <1>4

\* The end of process(), and Close.
LEMMA EndSteps ==
  ASSUME ConnInv,
         \/ Break \/ ReadFails \/ ReadClose \/ ProcessStep
         \/ \E c \in Closers : InitReturns(c) \/ InitFails(c) \/ Close(c) \/ CloserStep(c)
  PROVE  ConnInv'
<1> USE DEF ConnInv
<1>1. CASE CloseTunnels
  <2>1. TunInv' /\ ProcInv'
    BY <1>1, CloseTunnelsStep
  <2>2. ReqInv'
    BY <1>1, ReqFrame DEF CloseTunnels
  <2>3. ProcTypeOK' /\ CloseTypeOK'
    BY <1>1 DEF CloseTunnels, ProcTypeOK, CloseTypeOK, closeVars
  <2> QED BY <2>1, <2>2, <2>3
<1>2. CASE Break \/ ReadFails \/ ReadClose \/ Exit \/ HandleDrop
  <2>0. /\ UNCHANGED <<reqVars, tunVars>>
        /\ term => term'
        /\ procPc' = "result" => procPc = "result" /\ procTun' = procTun
    BY <1>2 DEF Break, ReadFails, ReadClose, Exit, HandleDrop, procVars, ProcTypeOK
  <2>1. TunInv' /\ ReqInv'
    BY <2>0, TunFrame, ReqFrame
  <2>2. CloseTypeOK' /\ ProcTypeOK'
    BY <1>2 DEF Break, ReadFails, ReadClose, Exit, HandleDrop, procVars,
                closeVars, ProcTypeOK, CloseTypeOK
  <2>3. ProcInv'
    BY <1>2 DEF Break, ReadFails, ReadClose, Exit, HandleDrop, procVars, closeVars,
                tunVars, ProcInv, ProcTypeOK
  <2> QED BY <2>1, <2>2, <2>3
<1>3. ASSUME NEW c \in Closers,
             InitReturns(c) \/ InitFails(c) \/ Close(c) \/ SendClose(c) \/ CloseReturns(c)
      PROVE  ConnInv'
  <2>0. /\ UNCHANGED <<up, procVars, reqVars, tunVars>> /\ relayClose' \in BOOLEAN
    BY <1>3 DEF InitReturns, InitFails, Close, SendClose, CloseReturns, CloseTypeOK
  <2>1. TunInv' /\ ReqInv'
    BY <2>0, TunFrame, ReqFrame DEF procVars
  <2>2. PICK l \in {"idle", "send", "quit", "failed", "closed"} :
          /\ closePc' = [closePc EXCEPT ![c] = l]
          /\ l = "closed" => closePc[c] = "topics"
    BY <1>3 DEF InitReturns, InitFails, Close, SendClose, CloseReturns
  <2>3. ProcTypeOK' /\ CloseTypeOK'
    BY <2>0, <2>2 DEF ProcTypeOK, CloseTypeOK, procVars
  <2>4. ProcInv'
    BY <2>0, <2>2 DEF ProcInv, procVars, tunVars, CloseTypeOK
  <2> QED BY <2>1, <2>3, <2>4
<1>4. ASSUME NEW c \in Closers, CloseSync(c) PROVE ConnInv'
  <2>0. /\ procPc = "sync" /\ procPc' = "done"
        /\ closePc' = [closePc EXCEPT ![c] = "topics"]
        /\ UNCHANGED <<up, term, procTun, procErr, reqVars, tunVars, relayClose>>
    BY <1>4 DEF CloseSync, SyncPoint
  <2>1. TunInv' /\ ReqInv'
    BY <2>0, TunFrame, ReqFrame
  <2>2. ProcTypeOK' /\ CloseTypeOK' /\ ProcInv'
    BY <2>0 DEF ProcTypeOK, CloseTypeOK, ProcInv, tunVars
  <2> QED BY <2>1, <2>2
<1> QED BY <1>1, <1>2, <1>3, <1>4 DEF ProcessStep, CloserStep

LEMMA NextConnInv == ConnInv /\ [Next]_vars => ConnInv'
<1> SUFFICES ASSUME ConnInv, [Next]_vars PROVE ConnInv'
  OBVIOUS
<1>1. CASE UNCHANGED vars
  <2>1. UNCHANGED <<up, procVars, reqVars, tunVars, closeVars>>
    BY <1>1 DEF vars
  <2>2. TunInv' /\ ReqInv'
    BY <2>1, TunFrame, ReqFrame DEF ConnInv, procVars
  <2>3. ProcTypeOK' /\ CloseTypeOK' /\ ProcInv'
    BY <2>1, ProcFrame DEF ConnInv, procVars, tunVars, closeVars, ProcTypeOK, ProcInv
  <2> QED BY <2>2, <2>3 DEF ConnInv
<1>2. CASE Next
  BY <1>2, RequesterSteps, BuilderSteps, ReadSteps, EndSteps DEF Next, BuilderStep
<1> QED BY <1>1, <1>2

-----------------------------------------------------------------------------
\* The inductive invariant holds in every reachable state.
THEOREM ConnectionInvariant == Spec => []ConnInv
<1> QED BY InitConnInv, NextConnInv, PTL DEF Spec

\* Ids and tunnel ids stay within what was asked for, and no term channel of a
\* tunnel is closed twice (a second close would panic), whoever closes it.
THEOREM ConnectionTypeCorrect == Spec => []TypeOK
<1>1. ConnInv => TypeOK
  BY DEF ConnInv, ReqInv, TunInv, TypeOK
<1> QED BY <1>1, ConnectionInvariant, PTL

\* process() never blocks for good: neither in handleReply, which sends with
\* reqLock held, nor on the result of a construction nobody waits for.
THEOREM ProcessNeverBlocked == Spec => []NeverBlocked
<1>1. ConnInv => NeverBlocked
  BY DEF ConnInv, ProcInv, NeverBlocked
<1> QED BY <1>1, ConnectionInvariant, PTL

\* Concurrent Requests get their own answers, in whatever order these arrive.
THEOREM RepliesReachTheirRequest == Spec => []RepliesRouted
<1>1. ConnInv => RepliesRouted
  BY DEF ConnInv, ReqInv, ReqMailInv, RepliesRouted
<1> QED BY <1>1, ConnectionInvariant, PTL

\* No path out of Request, initTunnel or acceptTunnel leaves an entry behind.
THEOREM MapsNeverLeak == Spec => []NothingLeaks
<1>1. ConnInv => NothingLeaks
  BY DEF ConnInv, ReqInv, ReqIdInv, TunInv, TunLiveInv, NothingLeaks
<1> QED BY <1>1, ConnectionInvariant, PTL

\* A tunnel in the application's hands is registered or closed, however its
\* construction, its close and the end of the connection interleave.
THEOREM TunnelsNeverOrphaned == Spec => []NoOrphan
<1>1. ConnInv => NoOrphan
  BY DEF ConnInv, TunInv, TunLiveInv, TunIdInv, NoOrphan
<1> QED BY <1>1, ConnectionInvariant, PTL

\* After Close nothing of the connection is left open, and nothing can be.
THEOREM CloseLeavesNothing == Spec => []CloseIsFinal
<1>1. ConnInv => CloseIsFinal
  <2> SUFFICES ASSUME ConnInv, NEW c \in Closers, closePc[c] \in {"topics", "closed"}
               PROVE  /\ term /\ tunNil /\ tunLive = {}
                      /\ \A b \in Builders : bldPc[b] = "handed" =>
                           tunTerm[bldTun[b]] = 1
    BY DEF CloseIsFinal
  <2>1. term /\ tunNil /\ tunLive = {}
    BY DEF ConnInv, ProcInv
  <2>2. ASSUME NEW b \in Builders, bldPc[b] = "handed"
        PROVE  tunTerm[bldTun[b]] = 1
    <3>1. bldTun[b] \in Tunnels
      BY <2>2 DEF ConnInv, TunInv, TunTypeOK, TunIdInv
    <3>2. tunTerm[bldTun[b]] # 0
      BY <2>1, <2>2, <3>1, TunnelFacts DEF ConnInv, TunInv, TunLiveInv
    <3>3. tunTerm[bldTun[b]] \in 0 .. 1
      BY <3>1 DEF ConnInv, TunInv, TunTypeOK
    <3> QED BY <3>2, <3>3
  <2> QED BY <2>1, <2>2
<1> QED BY <1>1, ConnectionInvariant, PTL
=============================================================================
