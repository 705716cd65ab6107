----------------------------- MODULE Connection -----------------------------
(***************************************************************************)
(* One connection to the relay and the goroutines that share it: callers    *)
(* of Request, callers of Tunnel, acceptors of inbound tunnels, callers of  *)
(* Close, the goroutines that close single tunnels, and process(), the      *)
(* only reader of the socket.                                              *)
(*                                                                         *)
(* What a written packet goes through is module SendPacket's subject; here  *)
(* a send reaches the relay while the link is up.  On a link that is down   *)
(* it either fails or, when another writer's flush was to carry it, returns *)
(* nil and is lost.  The relay is external: it answers each request and     *)
(* each tunnel construction it received at most once, in any order.        *)
(***************************************************************************)
EXTENDS Naturals, FiniteSets

CONSTANTS
  Requesters,   \* goroutines calling Request
  Openers,      \* goroutines calling Tunnel
  Acceptors,    \* goroutines started by handleTunnelInit
  Closers,      \* goroutines calling Close or Unregister
  Registrars,   \* the closer that is inside Register; empty for a client
  OtherWriters, \* other goroutines write too: Broadcast, Publish, replies
  MaxRequests,  \* bound: requests issued
  None          \* absence of an id or of an answer

Builders == Openers \cup Acceptors
Ids      == 0 .. MaxRequests
Tunnels  == 0 .. Cardinality(Builders)

ASSUME ConnectionAssumption ==
  /\ IsFiniteSet(Builders)
  /\ MaxRequests \in Nat /\ OtherWriters \in BOOLEAN
  /\ None \notin Nat \cup Requesters
  /\ Registrars \subseteq Closers
  /\ Openers \cap Acceptors = {}
  /\ Registrars = {} => Acceptors = {}

VARIABLES
  up,         \* writes reach the relay
  term,       \* the channel term is closed
  procPc,     \* where process() is
  procTun,    \* tunnel whose result process() delivers, and the result
  procErr,    \* the error process() ends with is not nil
  reqIdx, reqLive,  \* next request id; keys of reqReps and reqErrs
  mail,       \* per request id: content of its two one-slot channels
  reqPc, reqId, got,  \* per requester: position, its id, last result
  relayReqs,  \* requests the relay has to answer
  tunIdx, tunLive, tunNil,  \* next tunnel id; keys of tunLive; it is nil
  tunTerm,    \* per tunnel: how often its term channel was closed
  bldPc, bldTun,  \* per builder: position and its tunnel id
  relayInits, \* outbound tunnels the relay has to answer
  relayTuns,  \* tunnels established at the relay
  tunClosers, \* tunnels with a spawned handleTunnelClose
  closePc,    \* per closer: position
  relayClose  \* the relay has to confirm a close

reqVars  == <<reqIdx, reqLive, mail, reqPc, reqId, got, relayReqs>>
tunVars  == <<tunIdx, tunLive, tunNil, tunTerm, bldPc, bldTun, relayInits,
              relayTuns, tunClosers>>
procVars == <<term, procPc, procTun, procErr>>
closeVars == <<closePc, relayClose>>
vars == <<up, procVars, reqVars, tunVars, closeVars>>

(* newConnection has returned: process() runs, and a service is in Init.   *)
Init ==
  /\ up = TRUE /\ term = FALSE
  /\ procPc = "read" /\ procTun = <<None, FALSE>> /\ procErr = FALSE
  /\ reqIdx = 0 /\ reqLive = {} /\ relayReqs = {}
  /\ mail = [i \in Ids |-> {}]
  /\ reqPc = [p \in Requesters |-> "idle"]
  /\ reqId = [p \in Requesters |-> None]
  /\ got = [p \in Requesters |-> None]
  /\ tunIdx = 0 /\ tunLive = {} /\ tunNil = FALSE
  /\ tunTerm = [t \in Tunnels |-> 0]
  /\ bldPc = [b \in Builders |-> "idle"]
  /\ bldTun = [b \in Builders |-> None]
  /\ relayInits = {} /\ relayTuns = {} /\ tunClosers = {}
  /\ closePc = [c \in Closers |-> IF c \in Registrars THEN "init" ELSE "idle"]
  /\ relayClose = FALSE

\* What a send returns: nil and delivered, nil and lost, or an error.
SendOutcomes ==
  IF up THEN {"sent"}
  ELSE {"error"} \cup IF OtherWriters THEN {"lost"} ELSE {}

-----------------------------------------------------------------------------
(* Request: connection.go.  reqLock is free unless process() blocks inside  *)
(* handleReply, which sends while it holds the lock.                       *)

ReqLockFree == procPc # "blocked"

NextIdStuck(i) == i   \* mutant: the index is not advanced
NextId(i) == i + 1

Request(p) ==
  /\ reqPc[p] = "idle" /\ ReqLockFree /\ reqIdx < MaxRequests
  /\ reqIdx' = NextId(reqIdx)
  /\ reqLive' = reqLive \cup {reqIdx}
  /\ mail' = [mail EXCEPT ![reqIdx] = {}]
  /\ reqId' = [reqId EXCEPT ![p] = reqIdx]
  /\ reqPc' = [reqPc EXCEPT ![p] = "send"]
  /\ got' = [got EXCEPT ![p] = None]
  /\ UNCHANGED <<up, procVars, relayReqs, tunVars, closeVars>>

SendRequest(p) ==
  /\ reqPc[p] = "send"
  /\ \E o \in SendOutcomes :
       /\ reqPc' = [reqPc EXCEPT ![p] = IF o = "error" THEN "clean" ELSE "wait"]
       /\ relayReqs' = IF o = "sent"
                         THEN relayReqs \cup {[id |-> reqId[p], from |-> p]}
                         ELSE relayReqs
  /\ UNCHANGED <<up, procVars, reqIdx, reqLive, mail, reqId, got, tunVars,
                 closeVars>>

\* The select of Request: the reply or error channel, or term.
RequestAnswered(p) ==
  /\ reqPc[p] = "wait"
  /\ \E m \in mail[reqId[p]] :
       /\ mail' = [mail EXCEPT ![reqId[p]] = @ \ {m}]
       /\ got' = [got EXCEPT ![p] = m.from]
  /\ reqPc' = [reqPc EXCEPT ![p] = "clean"]
  /\ UNCHANGED <<up, procVars, reqIdx, reqLive, reqId, relayReqs, tunVars,
                 closeVars>>

WatchesTermNever == FALSE   \* mutant: the select leaves term out
WatchesTermOrTimer == TRUE  \* mutant: the caller gives up before the relay
WatchesTerm == term

RequestClosed(p) ==
  /\ reqPc[p] = "wait" /\ WatchesTerm
  /\ reqPc' = [reqPc EXCEPT ![p] = "clean"]
  /\ UNCHANGED <<up, procVars, reqIdx, reqLive, mail, reqId, got, relayReqs,
                 tunVars, closeVars>>

\* The deferred clean-up.
RequestReturns(p) ==
  /\ reqPc[p] = "clean" /\ ReqLockFree
  /\ reqLive' = reqLive \ {reqId[p]}
  /\ reqPc' = [reqPc EXCEPT ![p] = "idle"]
  /\ reqId' = [reqId EXCEPT ![p] = None]
  /\ UNCHANGED <<up, procVars, reqIdx, mail, got, relayReqs, tunVars, closeVars>>

\* procReply and handleReply.  A reply goes to reqReps, a fault or a timeout
\* to reqErrs; the send blocks for good if the channel is full or the id has
\* no channel any more.
ReadReply(m) ==
  /\ procPc = "read" /\ m \in relayReqs
  /\ relayReqs' = relayReqs \ {m}
  /\ \E kind \in {"reply", "error"} :
       IF m.id \in reqLive /\ \A x \in mail[m.id] : x.kind # kind
         THEN /\ mail' = [mail EXCEPT ![m.id] =
                            @ \cup {[kind |-> kind, from |-> m.from]}]
              /\ UNCHANGED procPc
         ELSE procPc' = "blocked" /\ UNCHANGED mail
  /\ UNCHANGED <<up, term, procTun, procErr, reqIdx, reqLive, reqPc, reqId, got,
                 tunVars, closeVars>>

-----------------------------------------------------------------------------
(* Construction of tunnels: tunnel.go, newTunnel, initTunnel, acceptTunnel. *)

MoveTo(b, pc) == bldPc' = [bldPc EXCEPT ![b] = pc]

\* newTunnel: refused once the connection has dropped its tunnel map.
NewTunnel(b, pc) ==
  IF tunNil
    THEN /\ MoveTo(b, "failed")
         /\ UNCHANGED <<tunIdx, tunLive, bldTun>>
    ELSE /\ MoveTo(b, pc)
         /\ tunIdx' = tunIdx + 1
         /\ tunLive' = tunLive \cup {tunIdx}
         /\ bldTun' = [bldTun EXCEPT ![b] = tunIdx]

InitTunnel(b) ==
  /\ b \in Openers /\ bldPc[b] = "idle"
  /\ NewTunnel(b, "send")
  /\ UNCHANGED <<up, procVars, reqVars, tunNil, tunTerm, relayInits, relayTuns,
                 tunClosers, closeVars>>

SendTunnelInit(b) ==
  /\ bldPc[b] = "send"
  /\ \E o \in SendOutcomes :
       /\ MoveTo(b, IF o = "error" THEN "abort" ELSE "wait")
       /\ relayInits' = IF o = "sent" THEN relayInits \cup {bldTun[b]}
                                      ELSE relayInits
  /\ UNCHANGED <<up, procVars, reqVars, tunIdx, tunLive, tunNil, tunTerm, bldTun,
                 relayTuns, tunClosers, closeVars>>

\* procTunnelResult: the relay built the tunnel, or timed out.  Without a live
\* tunnel of that id, handleInitResult dereferences nil.
ReadTunnelResult(t, ok) ==
  /\ procPc = "read" /\ t \in relayInits
  /\ relayInits' = relayInits \ {t}
  /\ relayTuns' = IF ok THEN relayTuns \cup {t} ELSE relayTuns
  /\ procPc' = IF t \in tunLive THEN "result" ELSE "blocked"
  /\ procTun' = <<t, ok>>
  /\ UNCHANGED <<up, term, procErr, reqVars, tunIdx, tunLive, tunNil, tunTerm,
                 bldPc, bldTun, tunClosers, closeVars>>

\* The unbuffered channel init: process() waits until initTunnel receives.
InitResult(b) ==
  /\ procPc = "result" /\ bldPc[b] = "wait" /\ bldTun[b] = procTun[1]
  /\ procPc' = "read" /\ procTun' = <<None, FALSE>>
  /\ MoveTo(b, IF procTun[2] THEN "allow" ELSE "abort")
  /\ UNCHANGED <<up, term, procErr, reqVars, tunIdx, tunLive, tunNil, tunTerm,
                 bldTun, relayInits, relayTuns, tunClosers, closeVars>>

InitClosed(b) ==
  /\ bldPc[b] = "wait" /\ term
  /\ MoveTo(b, "abort")
  /\ UNCHANGED <<up, procVars, reqVars, tunIdx, tunLive, tunNil, tunTerm, bldTun,
                 relayInits, relayTuns, tunClosers, closeVars>>

\* handleTunnelInit: the goroutine that will accept the tunnel.
ReadTunnelInit(b) ==
  /\ b \in Acceptors /\ procPc = "read" /\ bldPc[b] = "idle"
  /\ MoveTo(b, "accept")
  /\ UNCHANGED <<up, procVars, reqVars, tunIdx, tunLive, tunNil, tunTerm, bldTun,
                 relayInits, relayTuns, tunClosers, closeVars>>

AcceptTunnel(b) ==
  /\ bldPc[b] = "accept"
  /\ NewTunnel(b, "confirm")
  /\ UNCHANGED <<up, procVars, reqVars, tunNil, tunTerm, relayInits, relayTuns,
                 tunClosers, closeVars>>

SendTunnelConfirm(b) ==
  /\ bldPc[b] = "confirm"
  /\ \E o \in SendOutcomes :
       /\ MoveTo(b, IF o = "error" THEN "abort" ELSE "allow")
       /\ relayTuns' = IF o = "sent" THEN relayTuns \cup {bldTun[b]} ELSE relayTuns
  /\ UNCHANGED <<up, procVars, reqVars, tunIdx, tunLive, tunNil, tunTerm, bldTun,
                 relayInits, tunClosers, closeVars>>

\* sendTunnelAllowance; then Tunnel returns the tunnel to its caller, or the
\* acceptor calls HandleTunnel with it.
SendTunnelAllowance(b) ==
  /\ bldPc[b] = "allow"
  /\ \E o \in SendOutcomes : MoveTo(b, IF o = "error" THEN "abort" ELSE "handed")
  /\ UNCHANGED <<up, procVars, reqVars, tunIdx, tunLive, tunNil, tunTerm, bldTun,
                 relayInits, relayTuns, tunClosers, closeVars>>

ForgottenNever(t) == tunLive   \* mutant: the failed tunnel stays registered
Forgotten(t) == tunLive \ {t}

AbortTunnel(b) ==
  /\ bldPc[b] = "abort"
  /\ tunLive' = Forgotten(bldTun[b])
  /\ MoveTo(b, "failed")
  /\ UNCHANGED <<up, procVars, reqVars, tunIdx, tunNil, tunTerm, bldTun,
                 relayInits, relayTuns, tunClosers, closeVars>>

-----------------------------------------------------------------------------
(* Closing of one tunnel: proto.go, procTunnelClose; events.go.            *)

ReadTunnelClose(t) ==
  /\ procPc = "read" /\ t \in relayTuns
  /\ relayTuns' = relayTuns \ {t}
  /\ tunClosers' = tunClosers \cup {t}
  /\ UNCHANGED <<up, procVars, reqVars, tunIdx, tunLive, tunNil, tunTerm, bldPc,
                 bldTun, relayInits, closeVars>>

\* mutant: the closed tunnel stays registered.
HandleTunnelCloseKeeps(t) ==
  /\ t \in tunClosers
  /\ tunClosers' = tunClosers \ {t}
  /\ tunTerm' = IF t \in tunLive THEN [tunTerm EXCEPT ![t] = @ + 1] ELSE tunTerm
  /\ UNCHANGED <<up, procVars, reqVars, tunIdx, tunLive, tunNil, bldPc, bldTun,
                 relayInits, relayTuns, closeVars>>

HandleTunnelClose(t) ==
  /\ t \in tunClosers
  /\ tunClosers' = tunClosers \ {t}
  /\ IF t \in tunLive
       THEN /\ tunTerm' = [tunTerm EXCEPT ![t] = @ + 1]
            /\ tunLive' = tunLive \ {t}
       ELSE UNCHANGED <<tunTerm, tunLive>>
  /\ UNCHANGED <<up, procVars, reqVars, tunIdx, tunNil, bldPc, bldTun,
                 relayInits, relayTuns, closeVars>>

-----------------------------------------------------------------------------
(* The end of process(): proto.go.  The link breaks, the relay announces a  *)
(* drop, or it confirms a close.                                           *)

\* The socket breaks before process() notices.
Break ==
  /\ up
  /\ up' = FALSE
  /\ UNCHANGED <<procVars, reqVars, tunVars, closeVars>>

\* A failed read, a close with a reason, or an unknown opcode.
ReadFails ==
  /\ procPc = "read"
  /\ procPc' = "exit" /\ procErr' = TRUE
  /\ UNCHANGED <<up, term, procTun, reqVars, tunVars, closeVars>>

ReadClose ==
  /\ procPc = "read" /\ relayClose
  /\ procPc' = "exit"
  /\ relayClose' = FALSE
  /\ UNCHANGED <<up, term, procTun, procErr, reqVars, tunVars, closePc>>

\* mutant: term stays open.
ExitSilent ==
  /\ procPc = "exit"
  /\ up' = FALSE
  /\ procPc' = IF procErr /\ Registrars # {} THEN "drop" ELSE "tunnels"
  /\ UNCHANGED <<term, procTun, procErr, reqVars, tunVars, closeVars>>

\* sock.Close and close(term).
Exit ==
  /\ procPc = "exit"
  /\ up' = FALSE /\ term' = TRUE
  /\ procPc' = IF procErr /\ Registrars # {} THEN "drop" ELSE "tunnels"
  /\ UNCHANGED <<procTun, procErr, reqVars, tunVars, closeVars>>

HandleDrop ==
  /\ procPc = "drop"
  /\ procPc' = "tunnels"
  /\ UNCHANGED <<up, term, procTun, procErr, reqVars, tunVars, closeVars>>

\* mutant: the map is dropped and its tunnels are not closed.
CloseTunnelsSilent ==
  /\ procPc = "tunnels"
  /\ tunLive' = {} /\ tunNil' = TRUE
  /\ procPc' = "sync"
  /\ UNCHANGED <<up, term, procTun, procErr, reqVars, tunIdx, tunTerm, bldPc,
                 bldTun, relayInits, relayTuns, tunClosers, closeVars>>

\* mutant: after a drop process() ends without waiting for Close.
CloseTunnelsEnds ==
  /\ procPc = "tunnels"
  /\ tunTerm' = [t \in Tunnels |-> IF t \in tunLive THEN tunTerm[t] + 1
                                                    ELSE tunTerm[t]]
  /\ tunLive' = {} /\ tunNil' = TRUE
  /\ procPc' = IF procErr THEN "done" ELSE "sync"
  /\ UNCHANGED <<up, term, procTun, procErr, reqVars, tunIdx, bldPc, bldTun,
                 relayInits, relayTuns, tunClosers, closeVars>>

\* The second half of handleClose; then process() waits for a Close.
CloseTunnels ==
  /\ procPc = "tunnels"
  /\ tunTerm' = [t \in Tunnels |-> IF t \in tunLive THEN tunTerm[t] + 1
                                                    ELSE tunTerm[t]]
  /\ tunLive' = {} /\ tunNil' = TRUE
  /\ procPc' = "sync"
  /\ UNCHANGED <<up, term, procTun, procErr, reqVars, tunIdx, bldPc, bldTun,
                 relayInits, relayTuns, tunClosers, closeVars>>

-----------------------------------------------------------------------------
(* Close: connection.go.  Register: service.go.                            *)

InitReturns(c) ==
  /\ closePc[c] = "init"
  /\ closePc' = [closePc EXCEPT ![c] = "idle"]
  /\ UNCHANGED <<up, procVars, reqVars, tunVars, relayClose>>

\* Register closes the connection when Init fails.
InitFails(c) ==
  /\ closePc[c] = "init"
  /\ closePc' = [closePc EXCEPT ![c] = "send"]
  /\ UNCHANGED <<up, procVars, reqVars, tunVars, relayClose>>

Close(c) ==
  /\ closePc[c] = "idle"
  /\ closePc' = [closePc EXCEPT ![c] = "send"]
  /\ UNCHANGED <<up, procVars, reqVars, tunVars, relayClose>>

SendClose(c) ==
  /\ closePc[c] = "send"
  /\ \E o \in SendOutcomes :
       /\ closePc' = [closePc EXCEPT ![c] = IF o = "error" THEN "failed" ELSE "quit"]
       /\ relayClose' = (relayClose \/ o = "sent")
  /\ UNCHANGED <<up, procVars, reqVars, tunVars>>

\* The unbuffered channel quit: process() receives from it once, and ends.
\* Its error waits in errc while Close terminates the topics.
SyncPointEarly == "tunnels"   \* mutant: synchronised before the clean-up
SyncPoint == "sync"

CloseSync(c) ==
  /\ procPc = SyncPoint /\ closePc[c] = "quit"
  /\ procPc' = "done"
  /\ closePc' = [closePc EXCEPT ![c] = "topics"]
  /\ UNCHANGED <<up, term, procTun, procErr, reqVars, tunVars, relayClose>>

CloseReturns(c) ==
  /\ closePc[c] = "topics"
  /\ closePc' = [closePc EXCEPT ![c] = "closed"]
  /\ UNCHANGED <<up, procVars, reqVars, tunVars, relayClose>>

-----------------------------------------------------------------------------
RequesterStep(p) ==
  \/ SendRequest(p) \/ RequestAnswered(p) \/ RequestClosed(p) \/ RequestReturns(p)

BuilderStep(b) ==
  \/ SendTunnelInit(b) \/ InitResult(b) \/ InitClosed(b)
  \/ AcceptTunnel(b) \/ SendTunnelConfirm(b)
  \/ SendTunnelAllowance(b) \/ AbortTunnel(b)

ProcessStep == Exit \/ HandleDrop \/ CloseTunnels

CloserStep(c) == SendClose(c) \/ CloseSync(c) \/ CloseReturns(c)

Next ==
  \/ \E p \in Requesters : Request(p) \/ RequesterStep(p)
  \/ \E b \in Builders : InitTunnel(b) \/ ReadTunnelInit(b) \/ BuilderStep(b)
  \/ \E m \in relayReqs : ReadReply(m)
  \/ \E t \in relayInits : \E ok \in BOOLEAN : ReadTunnelResult(t, ok)
  \/ \E t \in relayTuns : ReadTunnelClose(t)
  \/ \E t \in tunClosers : HandleTunnelClose(t)
  \/ \E c \in Closers : InitReturns(c) \/ InitFails(c) \/ Close(c) \/ CloserStep(c)
  \/ Break \/ ReadFails \/ ReadClose \/ ProcessStep

Spec == Init /\ [][Next]_vars

(* Goroutines that can run, run; the relay answers what it received; a      *)
(* broken link fails the pending read.  No fairness makes a call start, the *)
(* link break, or an established tunnel close.                             *)
FairSpec ==
  /\ Spec
  /\ \A p \in Requesters : WF_vars(RequesterStep(p))
  /\ \A b \in Builders : WF_vars(BuilderStep(b))
  /\ \A c \in Closers : WF_vars(CloserStep(c))
  /\ \A i \in Ids, p \in Requesters : WF_vars(ReadReply([id |-> i, from |-> p]))
  /\ \A t \in Tunnels : WF_vars(\E ok \in BOOLEAN : ReadTunnelResult(t, ok))
  /\ WF_vars(ReadClose)
  /\ WF_vars(~up /\ ReadFails)
  /\ WF_vars(ProcessStep)

-----------------------------------------------------------------------------
ProcTypeOK ==
  /\ up \in BOOLEAN /\ term \in BOOLEAN /\ procErr \in BOOLEAN
  /\ procPc \in {"read", "blocked", "result", "exit", "drop", "tunnels", "sync",
                 "done"}
  /\ procTun \in (Tunnels \cup {None}) \X BOOLEAN

ReqTypeOK ==
  /\ reqIdx \in Ids /\ reqLive \subseteq Ids
  /\ mail \in [Ids -> SUBSET [kind : {"reply", "error"}, from : Requesters]]
  /\ reqPc \in [Requesters -> {"idle", "send", "wait", "clean"}]
  /\ reqId \in [Requesters -> Ids \cup {None}]
  /\ got \in [Requesters -> Requesters \cup {None}]
  /\ relayReqs \subseteq [id : Ids, from : Requesters]

TunTypeOK ==
  /\ tunIdx \in Tunnels /\ tunLive \subseteq Tunnels /\ tunNil \in BOOLEAN
  /\ tunTerm \in [Tunnels -> 0 .. 1]
  /\ bldPc \in [Builders -> {"idle", "send", "wait", "accept", "confirm", "allow",
                             "abort", "handed", "failed"}]
  /\ bldTun \in [Builders -> Tunnels \cup {None}]
  /\ relayInits \subseteq Tunnels /\ relayTuns \subseteq Tunnels
  /\ tunClosers \subseteq Tunnels

CloseTypeOK ==
  /\ closePc \in [Closers -> {"init", "idle", "send", "quit", "topics", "closed",
                              "failed"}]
  /\ relayClose \in BOOLEAN

(* Every variable stays in its type: ids and tunnel ids in particular are   *)
(* never handed out beyond what was asked for, and no tunnel's term channel *)
(* is closed twice.                                                        *)
TypeOK == ProcTypeOK /\ ReqTypeOK /\ TunTypeOK /\ CloseTypeOK

(* process() never blocks for good in handleReply (events.go: a send to the *)
(* channel of an unknown or already answered request, with reqLock held)    *)
(* and never finds the tunnel of a construction result gone                 *)
(* (handleTunnelResult does not check the lookup).                         *)
NeverBlocked == procPc # "blocked"

(* A Request returns the answer to its own request, whatever order the      *)
(* replies of concurrent requests take: ids in progress are distinct.      *)
RepliesRouted == \A p \in Requesters : got[p] \in {p, None}

(* The maps reqReps, reqErrs and tunLive hold exactly what is in use: every *)
(* path out of Request, initTunnel and acceptTunnel, the failing ones too,  *)
(* removes its entry, and no removed entry comes back.                     *)
NothingLeaks ==
  /\ reqLive = {reqId[p] : p \in {q \in Requesters : reqPc[q] # "idle"}}
  /\ \A t \in tunLive :
       \E b \in Builders : bldTun[b] = t /\ bldPc[b] # "failed"

(* A tunnel the application holds is either registered, so that a close of  *)
(* the tunnel or of the connection reaches it, or closed already.  Else its *)
(* Send, Recv and Close could block for ever.                              *)
NoOrphan ==
  \A b \in Builders : bldPc[b] = "handed" =>
    (bldTun[b] \in tunLive <=> tunTerm[bldTun[b]] = 0)

(* When Close has synchronised with process(), nothing of the connection is *)
(* left running: blocked calls were signalled, every tunnel the application *)
(* holds or will still be handed is closed, and none can be registered.    *)
CloseIsFinal ==
  (\E c \in Closers : closePc[c] \in {"topics", "closed"}) =>
    /\ term /\ tunNil /\ tunLive = {}
    /\ \A b \in Builders : bldPc[b] = "handed" => tunTerm[bldTun[b]] = 1

(* Every Request returns: answered by the relay, or failed by the end of    *)
(* the connection.  The binding has no timer of its own.                   *)
RequestsReturn ==
  \A p \in Requesters : (reqPc[p] # "idle") ~> (reqPc[p] = "idle")

(* Every tunnel construction, outbound or inbound, ends in a tunnel or a    *)
(* failure.                                                                *)
ConstructionsEnd ==
  \A b \in Builders : (bldPc[b] # "idle") ~> (bldPc[b] \in {"handed", "failed"})

(* Every Close returns (connection.go: it blocks until the relay confirms   *)
(* the tear-down).  With two callers it does not: process() serves quit     *)
(* once.                                                                   *)
CloseEnds ==
  \A c \in Closers : (closePc[c] = "send") ~> (closePc[c] \in {"closed", "failed"})

(* Init of a service returns before any other handler method is invoked     *)
(* (doc.go).  Register starts process() before it calls Init, so            *)
(* HandleTunnel and HandleDrop may run first.                              *)
InitBeforeHandlers ==
  [][(\E b \in Acceptors : bldPc[b] # "handed" /\ bldPc'[b] = "handed")
       \/ (procPc = "drop" /\ procPc' # "drop")
     => \A c \in Closers : closePc[c] # "init"]_vars
=============================================================================
