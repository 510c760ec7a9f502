--------------------- MODULE CoordinatorFencing_proofs ---------------------
(***************************************************************************)
(* Theorems about whom the coordinator serves, for any number of workers,  *)
(* boots and connections: no publish passes for current under the boot of  *)
(* a process that was replaced, and a worker that is up to date is not     *)
(* taken for stale.                                                        *)
(*                                                                         *)
(* Both follow the Hello of a process, and the claim it makes from the     *)
(* answer, from the frame to the handler and the store's call.             *)
(***************************************************************************)
EXTENDS Coordinator_proofs

(* The places of a handler that has not read a frame it has yet to serve. *)
Unread == {"backlog", "test", "recv", "closed"}

(* The claim a worker makes of the summary it has read. *)
ClaimOf(c) == OnWire(WorkerClaim(c, peer[c].known))

(* From the frame to the comparisons, a worker's claim is made of the summary *)
(* it has read last, which is the only one.                                   *)
ClaimInv ==
    \A c \in WorkerConns :
        /\ request[c].op = "Publish" => request[c].claim = ClaimOf(c) /\ peer[c].at # "hello"
        /\ handler[c].at = "Publish" => handler[c].frame.claim = ClaimOf(c) /\ peer[c].at # "hello"
        /\ handler[c].at = "fencing" => calls[c].claim = ClaimOf(c) /\ peer[c].at # "hello"

(* A process says hello once, before it is told anything, and after its       *)
(* predecessors are dead.                                                     *)
HelloInv ==
    \A c \in WorkerConns :
        /\ request[c].op = "Hello" => handler[c].at \in Unread
        /\ request[c].op = "Hello" \/ handler[c].at = "Hello" =>
              peer[c].known = None /\ reply[c] = NoReply
        /\ peer[c] # Absent => \A p \in Predecessors(c) : peer[p].at = "dead"

(* The Hello of this process was served. *)
Greeted(c) ==
    peer[c].known # None \/ reply[c].kind = "summary" \/ handler[c].at = "summary"

BootOK(o) ==
    /\ Session[o].worker \in DOMAIN authority.boot
    /\ authority.boot[Session[o].worker] >= Session[o].boot

(* In a process that lasts, the boot registered for a worker is at least that *)
(* of each of its processes that were served in their order.                  *)
BootInv ==
    /\ ~ stopping /\ main # "exited"
    /\ \A c \in Conns : /\ request[c].op # "Shutdown"
                        /\ handler[c].at \notin {"Shutdown", "stop"}
    /\ \A o \in WorkerConns : Greeted(o) /\ GreetedBefore(o) => BootOK(o)

ServedInv == FenceInv /\ ClaimInv /\ HelloInv /\ (Lasts => BootInv)

----------------------------------------------------------------------------
(* The fence behind the handlers *)

(* What evaluate_claim has compared so far survives what a handler does. *)
LEMMA HandlerKeepsFence ==
    ASSUME CoordInv, FenceInv, NEW c \in Conns, HandlerStep(c)
    PROVE  FenceInv'
<1>1. CASE \/ Hello(c) \/ PublishBegin(c) \/ PublishCompare(c) \/ PublishRefuse(c)
           \/ PublishCommit(c) \/ Roll(c) \/ SetOne(c)
  BY <1>1, HandlersCallStore, FenceNext DEF CoordInv
<1>2. CASE calls' = calls /\ authority' = authority
  BY <1>2, CallUntouched DEF FenceInv
<1>3. CASE \/ TestStopping(c) \/ Receive(c) \/ ReceiveEnd(c) \/ SendSummary(c)
           \/ Malformed(c) \/ CountMalformed(c) \/ Count(c)
           \/ SendResult(c) \/ SetDone(c) \/ SendDone(c)
  BY <1>2, <1>3 DEF vars, TestStopping, Receive, ReceiveEnd, SendSummary, Malformed,
                    CountMalformed, Count, SendResult, SetDone, SendDone
<1>4. CASE \/ TakeSnapshot(c) \/ WriteSnapshot(c) \/ WriteFails(c) \/ SendSaved(c)
           \/ QueryFind(c) \/ QueryValidity(c) \/ SendQuery(c)
           \/ StatsBegin(c) \/ StatsRead(c) \/ SendStats(c)
           \/ SendBye(c) \/ Stop(c)
  BY <1>2, <1>4 DEF vars, TakeSnapshot, WriteSnapshot, WriteFails, SendSaved, QueryFind, QueryValidity,
                    SendQuery, StatsBegin, StatsRead, SendStats, SendBye, Stop
<1> QED
  BY <1>1, <1>3, <1>4 DEF HandlerStep

----------------------------------------------------------------------------
(* What a handler does to its connection *)

(* A handler goes to where a Hello, a publish or a shutdown is served by      *)
(* receiving one, and on from there by serving it; to where it writes a       *)
(* snapshot by taking one.                                                    *)
GoesTo(c, at) ==
    \/ at \notin {"Hello", "summary", "Publish", "fencing", "Shutdown", "stop", "write"}
    \/ /\ handler[c].at = "recv" /\ request[c].op = at
       /\ handler'[c].frame = request[c] /\ request'[c] = NoFrame
    \/ at = "summary" /\ Hello(c)
    \/ at = "fencing" /\ (PublishBegin(c) \/ PublishCompare(c))
    \/ at = "stop" /\ handler[c].at = "Shutdown"
    \/ at = "write" /\ TakeSnapshot(c)

(* What it leaves of the frames in transit. *)
Takes(c) ==
    \/ request'[c] = request[c] /\ (handler[c].at \in Unread => handler'[c].at \in Unread)
    \/ handler[c].at = "recv" /\ request'[c] = NoFrame

Sends(c) ==
    \/ reply'[c] \in {reply[c], NoReply}
    \/ /\ handler[c].at \notin Unread /\ handler[c].at # "Hello"
       /\ reply'[c].kind = "summary" => handler[c].at = "summary"

HandlerEffect(c) ==
    /\ UNCHANGED <<peer, main, scenario>>
    /\ \A d \in Conns \ {c} : UNCHANGED <<handler[d], request[d], reply[d], calls[d].claim, calls[d].todo>>
    /\ GoesTo(c, handler'[c].at)
    /\ Takes(c)
    /\ Sends(c)
    /\ authority'.boot = authority.boot \/ Hello(c)
    /\ authority'.epoch = authority.epoch \/ Roll(c)
    /\ saved' \in {saved, EmptySnapshot} \/ WriteSnapshot(c)
    /\ stopping' = stopping \/ handler[c].at = "stop"

(* An answer says what the handler sends, or there is nobody to read it. *)
LEMMA AnswerSent ==
    ASSUME CoordTypeOK, NEW c \in Conns, NEW r, Answer(c, r)
    PROVE  /\ reply'[c] \in {r, NoReply}
           /\ \A d \in Conns \ {c} : reply'[d] = reply[d]
  BY DEF Answer, CoordTypeOK

(* A handler that goes elsewhere leaves the other handlers where they are. *)
LEMMA OnlyPlaceMoves ==
    ASSUME CoordTypeOK, NEW c \in Conns, NEW place, Goto(c, place)
    PROVE  /\ handler'[c].at = place /\ handler'[c].frame = handler[c].frame
           /\ \A d \in Conns \ {c} : handler'[d] = handler[d]
<1>1. handler' = [handler EXCEPT ![c] = [at |-> place, frame |-> handler[c].frame]]
  BY GotoPlace
<1> QED
  BY <1>1 DEF CoordTypeOK

(* Steps that send nothing and leave the store alone. *)
LEMMA SilentEffect ==
    ASSUME CoordInv, NEW c \in Conns, HandlerStep(c),
           \/ TestStopping(c) \/ ReceiveEnd(c) \/ SetDone(c)
           \/ CountMalformed(c) \/ Count(c) \/ Stop(c)
    PROVE  HandlerEffect(c)
<1>1. PICK at \in {"closed", "recv", "refused", "done", "test", "ok", "err", "returned"} :
         /\ Goto(c, at)
         /\ handler[c].at \in Unread => at \in Unread
  BY DEF TestStopping, ReceiveEnd, SetDone, CountMalformed, Count, Stop, Unread
<1>2. UNCHANGED <<calls, authority, saved, peer, request, reply, main, scenario>>
  BY DEF HandlerStep, TestStopping, ReceiveEnd, SetDone, CountMalformed,
         Count, Stop, KeepServing, KeepCounts, clientVars, vars
<1>3. stopping' = stopping \/ handler[c].at = "stop"
  BY DEF TestStopping, ReceiveEnd, SetDone, CountMalformed, Count, Stop,
         KeepServing, KeepCounts
<1>4. handler'[c].at = at /\ \A d \in Conns \ {c} : handler'[d] = handler[d]
  BY <1>1, OnlyPlaceMoves DEF CoordInv
<1> QED
  BY <1>1, <1>2, <1>3, <1>4 DEF HandlerEffect, GoesTo, Takes, Sends

(* recv takes the request out of the transport. *)
LEMMA ReceiveEffect ==
    ASSUME CoordInv, NEW c \in Conns, HandlerStep(c), Receive(c)
    PROVE  HandlerEffect(c)
<1>1. /\ handler[c].at = "recv"
      /\ handler' = [handler EXCEPT ![c] = [at |-> request[c].op, frame |-> request[c]]]
      /\ request' = [request EXCEPT ![c] = NoFrame]
      /\ UNCHANGED <<calls, authority, saved, peer, reply, main, stopping, scenario>>
  BY DEF HandlerStep, Receive, KeepCounts, vars
<1>2. /\ handler'[c].at = request[c].op /\ handler'[c].frame = request[c]
      /\ request'[c] = NoFrame
      /\ \A d \in Conns \ {c} : handler'[d] = handler[d] /\ request'[d] = request[d]
  BY <1>1 DEF CoordInv, CoordTypeOK
<1> QED
  BY <1>1, <1>2 DEF HandlerEffect, GoesTo, Takes, Sends

(* Answers: only the one to a Hello carries a summary. *)
LEMMA AnswerEffect ==
    ASSUME CoordInv, NEW c \in Conns, HandlerStep(c),
           SendSummary(c) \/ Malformed(c) \/ SendDone(c) \/ SendBye(c) \/ SendResult(c)
    PROVE  HandlerEffect(c)
<1>1. PICK at \in {"test", "malformed", "stop"} :
         /\ Goto(c, at)
         /\ at = "stop" => handler[c].at = "Shutdown"
  BY DEF SendSummary, Malformed, SendDone, SendBye, SendResult
<1>2. UNCHANGED <<calls, authority, saved, peer, request, main, stopping, scenario>>
  BY DEF HandlerStep, SendSummary, Malformed, SendDone, SendBye, SendResult, KeepCounts, vars
<1>3. handler[c].at \notin Unread /\ handler[c].at # "Hello"
  BY DEF SendSummary, Malformed, Undecodable, SendDone, SendBye, SendResult, Unread
<1>4. PICK r : Answer(c, r) /\ (r.kind = "summary" => handler[c].at = "summary")
  <2>1. CASE SendSummary(c)
    BY <2>1 DEF SendSummary
  <2>2. CASE Malformed(c)
    BY <2>2 DEF Malformed
  <2>3. CASE SendDone(c)
    BY <2>3 DEF SendDone
  <2>4. CASE SendBye(c)
    BY <2>4 DEF SendBye
  <2>5. CASE SendResult(c)
    BY <2>5 DEF SendResult
  <2> QED
    BY <2>1, <2>2, <2>3, <2>4, <2>5
<1>5. /\ handler'[c].at = at /\ \A d \in Conns \ {c} : handler'[d] = handler[d]
      /\ reply'[c] \in {r, NoReply} /\ \A d \in Conns \ {c} : reply'[d] = reply[d]
  BY <1>1, <1>4, OnlyPlaceMoves, AnswerSent DEF CoordInv
<1> QED
  BY <1>1, <1>2, <1>3, <1>4, <1>5 DEF HandlerEffect, GoesTo, Takes, Sends

(* The setters: a worker's Hello alone writes the boots. *)
LEMMA AuthorityEffect ==
    ASSUME CoordInv, NEW c \in Conns, HandlerStep(c), Hello(c) \/ Roll(c) \/ SetOne(c)
    PROVE  HandlerEffect(c)
<1>1. UNCHANGED <<peer, request, reply, main, stopping, scenario>>
  BY DEF HandlerStep, Hello, Roll, SetOne, KeepServing, KeepCounts, clientVars
<1>2. PICK new : ChangeAuthority(new) /\ saved' = saved
  BY DEF Hello, Roll, SetOne, RegisterBoot, RollEpoch, BeginAttempt, SetGeneration,
         ChangeAuthority
<1>3. \A d \in Conns : calls'[d].claim = calls[d].claim /\ calls'[d].todo = calls[d].todo
  BY <1>2, CallsKeepData DEF CoordInv, StoreInv
<1>4. /\ authority'.boot = authority.boot \/ Hello(c)
      /\ authority'.epoch = authority.epoch \/ Roll(c)
  <2>1. PICK known \in SUBSET Workers :
           authority \in [epoch : Nat, boot : [known -> Boots], gen : [GenDims -> Nat]]
    BY DEF CoordInv, StoreInv, ControlTypeOK, AuthorityOK
  <2>2. CASE Roll(c)
    BY <2>1, <2>2 DEF Roll, RollEpoch, ChangeAuthority, NextEpoch
  <2>3. CASE SetOne(c)
    <3>1. \E dim, id, generation :
             \/ authority' = WithAttempt(authority, id, generation)
             \/ authority' = WithGeneration(authority, dim, generation)
      BY <2>3 DEF SetOne, BeginAttempt, SetGeneration, ChangeAuthority
    <3> QED
      BY <2>1, <3>1 DEF WithAttempt, WithGeneration
  <2>4. CASE Hello(c)
    BY <2>1, <2>4 DEF Hello, RegisterBoot, ChangeAuthority, WithBoot
  <2> QED
    BY <2>2, <2>3, <2>4
<1>5. /\ \A d \in Conns \ {c} : handler'[d] = handler[d]
      /\ \/ handler'[c].at = "done" \/ handler'[c].at = "SetAuthority"
         \/ handler'[c].at = "summary" /\ Hello(c)
  <2>1. CASE Hello(c) \/ Roll(c)
    BY <2>1, OnlyPlaceMoves DEF CoordInv, Hello, Roll
  <2>2. CASE SetOne(c)
    <3>1. PICK rest : handler' = [handler EXCEPT ![c].frame.set = rest]
      BY <2>2 DEF SetOne
    <3>2. /\ handler[c] = [at |-> "SetAuthority", frame |-> handler[c].frame]
          /\ DOMAIN handler = Conns
      BY <2>2 DEF SetOne, CoordInv, CoordTypeOK
    <3>3. handler'[c].at = handler[c].at
      BY <3>1, <3>2
    <3> QED
      BY <3>1, <3>2, <3>3
  <2> QED
    BY <2>1, <2>2
<1>6. handler[c].at \notin Unread
  BY DEF Hello, Roll, SetOne, Unread
<1> QED
  BY <1>1, <1>2, <1>3, <1>4, <1>5, <1>6 DEF HandlerEffect, GoesTo, Takes, Sends

(* A publish: the claim of the call is that of the frame, from the first      *)
(* comparison to the last.                                                    *)
LEMMA PublishEffect ==
    ASSUME CoordInv, NEW c \in Conns, HandlerStep(c),
           PublishBegin(c) \/ PublishCompare(c) \/ PublishRefuse(c) \/ PublishCommit(c)
    PROVE  HandlerEffect(c)
<1>1. UNCHANGED <<authority, saved, peer, request, reply, main, stopping, scenario>>
  BY DEF HandlerStep, PublishBegin, PublishCompare, PublishRefuse, PublishCommit, FenceEnter,
         FencePass, FenceReject, FenceCommit, KeepServing, KeepCounts, clientVars
<1>2. \A d \in Conns \ {c} : calls'[d] = calls[d]
  <2>1. calls \in [Conns -> CallType]
    BY DEF CoordInv, StoreInv, ControlTypeOK, Conns
  <2>2. \E call : calls' = [calls EXCEPT ![c] = call]
    BY DEF PublishBegin, PublishCompare, PublishRefuse, PublishCommit, FenceEnter,
           FencePass, FenceReject, FenceCommit
  <2> QED
    BY <2>1, <2>2
<1>3. \A d \in Conns \ {c} : handler'[d] = handler[d]
  BY OnlyPlaceMoves DEF CoordInv, PublishBegin, PublishCompare, PublishRefuse, PublishCommit
<1>4. GoesTo(c, handler'[c].at)
  <2>1. CASE PublishBegin(c) \/ PublishCompare(c)
    <3>1. handler'[c].at = "fencing"
      BY <2>1, OnlyPlaceMoves DEF CoordInv, PublishBegin, PublishCompare
    <3> QED
      BY <2>1, <3>1 DEF GoesTo
  <2>2. CASE PublishRefuse(c) \/ PublishCommit(c)
    <3>1. handler'[c].at \in {"published", "refused"}
      BY <2>2, OnlyPlaceMoves DEF CoordInv, PublishRefuse, PublishCommit
    <3> QED
      BY <3>1 DEF GoesTo
  <2> QED
    BY <2>1, <2>2
<1>5. handler[c].at \notin Unread
  BY DEF PublishBegin, PublishCompare, PublishRefuse, PublishCommit, Unread
<1> QED
  BY <1>1, <1>2, <1>3, <1>4, <1>5 DEF HandlerEffect, Takes, Sends

(* Save, Query and Stats carry what they have read in their frame. *)
LEMMA FrameEffect ==
    ASSUME CoordInv, NEW c \in Conns, HandlerStep(c),
           \/ TakeSnapshot(c) \/ WriteSnapshot(c) \/ WriteFails(c) \/ SendSaved(c)
           \/ QueryFind(c) \/ QueryValidity(c) \/ SendQuery(c)
           \/ StatsBegin(c) \/ StatsRead(c) \/ SendStats(c)
    PROVE  HandlerEffect(c)
<1>1. UNCHANGED <<calls, authority, peer, request, main, stopping, scenario>>
  BY DEF HandlerStep, TakeSnapshot, WriteSnapshot, WriteFails, SendSaved, QueryFind, QueryValidity,
         SendQuery, StatsBegin, StatsRead, SendStats, KeepServing, KeepCounts, clientVars, vars
<1>2. saved' \in {saved, EmptySnapshot} \/ WriteSnapshot(c)
  BY DEF TakeSnapshot, WriteFails, SendSaved, QueryFind, QueryValidity, SendQuery, StatsBegin, StatsRead,
         SendStats, vars
<1>3. /\ \A d \in Conns \ {c} : handler'[d] = handler[d]
      /\ \/ handler'[c].at \in {"saved", "err", "test", "found", "weighed", "reading"}
         \/ handler'[c].at = "write" /\ TakeSnapshot(c)
  <2>1. CASE WriteSnapshot(c)
    BY <2>1, OnlyPlaceMoves DEF CoordInv, WriteSnapshot
  <2>2. CASE StatsRead(c)
    <3>1. PICK more : handler' = [handler EXCEPT ![c].frame = more]
      BY <2>2 DEF StatsRead
    <3>2. /\ handler[c] = [at |-> "reading", frame |-> handler[c].frame]
          /\ DOMAIN handler = Conns
      BY <2>2 DEF StatsRead, CoordInv, CoordTypeOK
    <3> QED
      BY <3>1, <3>2
  <2>3. CASE QueryFind(c)
    <3>1. CASE Goto(c, "test")
      BY <3>1, OnlyPlaceMoves DEF CoordInv
    <3>2. CASE \E f : handler' = [handler EXCEPT ![c] = [at |-> "found", frame |-> f]]
      BY <3>2 DEF CoordInv, CoordTypeOK
    <3> QED
      BY <2>3, <3>1, <3>2 DEF QueryFind
  <2>4. CASE TakeSnapshot(c)
    BY <2>4 DEF TakeSnapshot, CoordInv, CoordTypeOK
  <2>5. CASE \/ WriteFails(c) \/ SendSaved(c) \/ QueryValidity(c) \/ SendQuery(c)
             \/ StatsBegin(c) \/ SendStats(c)
    <3>1. \E at \in {"err", "test", "weighed", "reading"} : \E f :
             handler' = [handler EXCEPT ![c] = [at |-> at, frame |-> f]]
      BY <2>5 DEF WriteFails, SendSaved, QueryValidity, SendQuery, StatsBegin, SendStats
    <3> QED
      BY <3>1 DEF CoordInv, CoordTypeOK
  <2> QED
    BY <2>1, <2>2, <2>3, <2>4, <2>5
<1>4. handler[c].at \notin Unread /\ handler[c].at # "Hello"
  BY DEF TakeSnapshot, WriteSnapshot, WriteFails, SendSaved, QueryFind, QueryValidity, SendQuery,
         StatsBegin, StatsRead, SendStats, Unread
<1>5. reply' = reply \/ \E r : Answer(c, r) /\ r.kind # "summary"
  <2>1. CASE SendSaved(c)
    BY <2>1 DEF SendSaved
  <2>2. CASE QueryFind(c)
    BY <2>2 DEF QueryFind
  <2>3. CASE SendQuery(c)
    <3> DEFINE r == And([kind |-> "present", size |-> Cardinality(DOMAIN records)],
                        handler[c].frame)
    <3>1. r.kind = "present"
      BY DEF And
    <3> QED
      BY <2>3, <3>1 DEF SendQuery
  <2>4. CASE SendStats(c)
    <3> DEFINE r == And([kind |-> "stats"], handler[c].frame)
    <3>1. r.kind = "stats"
      BY DEF And
    <3> QED
      BY <2>4, <3>1 DEF SendStats
  <2>5. CASE \/ TakeSnapshot(c) \/ WriteSnapshot(c) \/ WriteFails(c) \/ QueryValidity(c)
             \/ StatsBegin(c) \/ StatsRead(c)
    BY <2>5 DEF TakeSnapshot, WriteSnapshot, WriteFails, QueryValidity, StatsBegin, StatsRead, KeepServing,
                clientVars
  <2> QED
    BY <2>1, <2>2, <2>3, <2>4, <2>5
<1>6. /\ Sends(c)
      /\ \A d \in Conns \ {c} : reply'[d] = reply[d]
  <2>1. CASE reply' = reply
    BY <2>1 DEF Sends
  <2>2. ASSUME NEW r, Answer(c, r), r.kind # "summary"
        PROVE  Sends(c) /\ \A d \in Conns \ {c} : reply'[d] = reply[d]
    BY <1>4, <2>2, AnswerSent DEF CoordInv, Sends
  <2> QED
    BY <1>5, <2>1, <2>2
<1> QED
  BY <1>1, <1>3, <1>4, <1>6, <1>2 DEF HandlerEffect, GoesTo, Takes

(* Every step of handle_connection has such an effect. *)
LEMMA HandlerEffects ==
    ASSUME CoordInv, NEW c \in Conns, HandlerStep(c)
    PROVE  HandlerEffect(c)
  BY SilentEffect, ReceiveEffect, AnswerEffect, AuthorityEffect, PublishEffect, FrameEffect
     DEF HandlerStep

----------------------------------------------------------------------------
(* Handlers *)

(* Who the workers are does not change, nor what a scenario allows. *)
LEMMA SameScenario ==
    ASSUME UNCHANGED scenario
    PROVE  /\ WorkerConns' = WorkerConns /\ Session' = Session
           /\ (Lasts' <=> Lasts)
           /\ \A c : Predecessors(c)' = Predecessors(c)
  BY DEF WorkerConns, Session, Lasts, MayCrash, ControlOps, Predecessors

(* A claim depends on the summary alone that the worker has read. *)
LEMMA SameClaim ==
    ASSUME UNCHANGED scenario, NEW c, peer'[c].known = peer[c].known
    PROVE  ClaimOf(c)' = ClaimOf(c)
  BY DEF ClaimOf, WorkerClaim, OnWire, Session

(* A request that is served names an operation, never a place in between. *)
LEMMA OpsAreServed ==
    ASSUME CoordInv, NEW c \in Conns
    PROVE  request[c].op \notin {"summary", "fencing", "stop", "write"}
  BY DEF CoordInv, RequestInv, Ops, NoFrame

(* A handler passes a claim on as it received it. *)
LEMMA HandlerKeepsClaims ==
    ASSUME CoordInv, ClaimInv, NEW c \in Conns, HandlerStep(c)
    PROVE  ClaimInv'
<1>1. HandlerEffect(c)
  BY HandlerEffects
<1>2. WorkerConns' = WorkerConns /\ WorkerConns \subseteq Conns
  BY <1>1, SameScenario, ConnsOfScenario DEF HandlerEffect, CoordInv
<1> SUFFICES ASSUME NEW d \in WorkerConns
             PROVE  /\ request'[d].op = "Publish" =>
                          request'[d].claim = ClaimOf(d)' /\ peer'[d].at # "hello"
                    /\ handler'[d].at = "Publish" =>
                          handler'[d].frame.claim = ClaimOf(d)' /\ peer'[d].at # "hello"
                    /\ handler'[d].at = "fencing" =>
                          calls'[d].claim = ClaimOf(d)' /\ peer'[d].at # "hello"
  BY <1>2 DEF ClaimInv
<1>3. ClaimOf(d)' = ClaimOf(d) /\ peer' = peer
  BY <1>1, SameClaim DEF HandlerEffect
<1>4. CASE d # c
  BY <1>1, <1>2, <1>3, <1>4 DEF HandlerEffect, ClaimInv
<1>5. CASE d = c
  <2>1. request'[d].op = "Publish" => request'[d] = request[d]
    BY <1>1, <1>5 DEF HandlerEffect, Takes, NoFrame
  <2>2. handler'[d].at = "Publish" =>
           request[d].op = "Publish" /\ handler'[d].frame = request[d]
    BY <1>1, <1>5 DEF HandlerEffect, GoesTo
  <2>3. ASSUME handler'[d].at = "fencing"
        PROVE  \/ handler[d].at = "Publish" /\ calls'[d].claim = handler[d].frame.claim
               \/ handler[d].at = "fencing" /\ calls'[d].claim = calls[d].claim
    <3>1. PublishBegin(d) \/ PublishCompare(d)
      BY <1>1, <1>5, <2>3, OpsAreServed DEF HandlerEffect, GoesTo
    <3>2. CASE PublishBegin(d)
      BY <3>2 DEF PublishBegin
    <3>3. CASE PublishCompare(d)
      <4>1. calls \in [Conns -> CallType] /\ calls[d].phase = "fencing"
        BY <3>3 DEF PublishCompare, FencePass, CoordInv, StoreInv, ControlTypeOK, Conns
      <4>2. PICK dim : calls' = [calls EXCEPT ![d].todo = @ \ {dim}]
        BY <3>3 DEF PublishCompare, FencePass
      <4>3. calls[d] \in CallType /\ calls'[d] = [calls[d] EXCEPT !.todo = @ \ {dim}]
        BY <1>5, <4>1, <4>2
      <4>4. calls'[d].claim = calls[d].claim
        BY <4>1, <4>3 DEF CallType, Idle
      <4> QED
        BY <3>3, <4>4 DEF PublishCompare
    <3> QED
      BY <3>1, <3>2, <3>3
  <2> QED
    BY <1>3, <2>1, <2>2, <2>3 DEF ClaimInv
<1> QED
  BY <1>4, <1>5

(* A Hello is served once, before anything is told to the process. *)
LEMMA HandlerKeepsHellos ==
    ASSUME CoordInv, HelloInv, NEW c \in Conns, HandlerStep(c)
    PROVE  HelloInv'
<1>1. HandlerEffect(c)
  BY HandlerEffects
<1>2. /\ WorkerConns' = WorkerConns /\ WorkerConns \subseteq Conns
      /\ \A d : Predecessors(d)' = Predecessors(d)
      /\ peer' = peer
  BY <1>1, SameScenario, ConnsOfScenario DEF HandlerEffect, CoordInv
<1>3. ASSUME NEW d \in WorkerConns
      PROVE  /\ request'[d].op = "Hello" => handler'[d].at \in Unread
             /\ request'[d].op = "Hello" \/ handler'[d].at = "Hello" =>
                   peer[d].known = None /\ reply'[d] = NoReply
  <2>1. CASE d # c
    BY <1>1, <1>2, <2>1 DEF HandlerEffect, HelloInv
  <2>2. CASE d = c
    <3>1. request'[d].op = "Hello" => request[d].op = "Hello" /\ handler'[d].at \in Unread
      BY <1>1, <2>2 DEF HandlerEffect, Takes, NoFrame, HelloInv
    <3>2. handler'[d].at = "Hello" => request[d].op = "Hello"
      BY <1>1, <2>2 DEF HandlerEffect, GoesTo
    <3>3. request[d].op = "Hello" => reply'[d] = NoReply
      BY <1>1, <2>2 DEF HandlerEffect, Sends, HelloInv
    <3> QED
      BY <3>1, <3>2, <3>3 DEF HelloInv
  <2> QED
    BY <2>1, <2>2
<1> QED
  BY <1>2, <1>3 DEF HelloInv

(* Who was greeted is there, and its predecessors are not. *)
LEMMA GreetedIsAlone ==
    ASSUME CoordInv, HelloInv, NEW o \in WorkerConns, Greeted(o)
    PROVE  \A p \in Predecessors(o) : p \in Conns /\ peer[p].at = "dead"
<1>1. o \in Conns /\ \A p \in Predecessors(o) : p \in Conns
  BY ConnsOfScenario DEF CoordInv, Predecessors
<1>2. peer[o] # Absent
  BY <1>1 DEF Greeted, CoordInv, ConnectionInv, Alive, Absent, NoReply
<1> QED
  BY <1>1, <1>2 DEF HelloInv

(* The boot of a Hello replaces that of a former process alone: a later one   *)
(* that was served in its order has its own behind it.                        *)
LEMMA HandlerKeepsBoots ==
    ASSUME CoordInv, HelloInv, BootInv, NEW c \in Conns, HandlerStep(c)
    PROVE  BootInv'
<1>1. HandlerEffect(c)
  BY HandlerEffects
<1>2. /\ WorkerConns' = WorkerConns /\ WorkerConns \subseteq Conns /\ Session' = Session
      /\ \A d : Predecessors(d)' = Predecessors(d)
      /\ peer' = peer /\ main' = main
  BY <1>1, SameScenario, ConnsOfScenario DEF HandlerEffect, CoordInv
<1>3. ~ stopping' /\ main' # "exited"
  BY <1>1, <1>2 DEF HandlerEffect, BootInv
<1>4. ASSUME NEW d \in Conns
      PROVE  request'[d].op # "Shutdown" /\ handler'[d].at \notin {"Shutdown", "stop"}
  BY <1>1, <1>4, OpsAreServed DEF HandlerEffect, Takes, GoesTo, BootInv, NoFrame
<1>5. ASSUME NEW o \in WorkerConns, Greeted(o)', GreetedBefore(o)
      PROVE  BootOK(o)'
  <2>1. Greeted(o) \/ (o = c /\ Hello(c))
    BY <1>1, <1>2, <1>5, OpsAreServed
       DEF Greeted, HandlerEffect, Sends, GoesTo, NoReply
  <2>2. CASE authority'.boot = authority.boot /\ Greeted(o)
    BY <1>2, <1>5, <2>2 DEF BootInv, BootOK
  <2>3. CASE Hello(c)
    <3>1. /\ c \in WorkerConns /\ peer[c].known = None
          /\ authority' = WithBoot(authority, Session[c].worker, Session[c].boot)
      BY <2>3 DEF Hello, RegisterBoot, ChangeAuthority, CoordInv, HandlerInv, Fits, HelloInv
    <3>2. PICK known \in SUBSET Workers :
             authority \in [epoch : Nat, boot : [known -> Boots], gen : [GenDims -> Nat]]
      BY DEF CoordInv, StoreInv, ControlTypeOK, AuthorityOK
    <3>3. /\ DOMAIN authority'.boot = DOMAIN authority.boot \cup {Session[c].worker}
          /\ authority'.boot[Session[c].worker] = Session[c].boot
          /\ \A w \in DOMAIN authority.boot \ {Session[c].worker} :
                authority'.boot[w] = authority.boot[w]
      BY <3>1, <3>2 DEF WithBoot
    <3>4. Session[c].boot \in Nat /\ Session[o].boot \in Nat
      BY <3>1, StoreAssumption, CoordinatorAssumption
         DEF CoordInv, CoordTypeOK, WorkerConns, Session
    <3>5. CASE Session[o].worker # Session[c].worker
      <4>1. Greeted(o)
        BY <2>1, <3>5
      <4>2. BootOK(o)
        BY <1>5, <4>1 DEF BootInv
      <4> QED
        BY <1>2, <3>3, <3>5, <4>2 DEF BootOK
    <3>6. CASE Session[o].worker = Session[c].worker
      <4>1. c \notin Predecessors(o)
        BY <1>5, <3>1 DEF GreetedBefore
      <4>2. Session[c].boot >= Session[o].boot
        BY <3>1, <3>4, <3>6, <4>1 DEF Predecessors
      <4> QED
        BY <1>2, <3>3, <3>6, <4>2 DEF BootOK
    <3> QED
      BY <3>5, <3>6
  <2> QED
    BY <1>1, <2>1, <2>2, <2>3 DEF HandlerEffect
<1>6. \A o \in WorkerConns : GreetedBefore(o)' <=> GreetedBefore(o)
  BY <1>2 DEF GreetedBefore
<1> QED
  BY <1>2, <1>3, <1>4, <1>5, <1>6 DEF BootInv

----------------------------------------------------------------------------
(* Clients *)

(* What a client does to its connection. *)
ClientEffect(c) ==
    /\ UNCHANGED <<vars, handler, main, stopping, scenario>>
    /\ \A d \in Conns \ {c} : UNCHANGED <<peer[d], request[d], reply[d]>>
    /\ peer[c].at \notin {"absent", "dead"}
    /\ reply'[c] \in {reply[c], NoReply}
    /\ \/ /\ request'[c] \in {request[c], NoFrame}
          /\ peer'[c].known = peer[c].known
          /\ peer'[c].at = "hello" => peer[c].at = "hello"
       \/ /\ c \in Controls
          /\ request'[c].op \in ControlOps
          /\ peer'[c].known = peer[c].known
       \/ /\ peer[c].at = "hello" /\ reply[c].kind = "summary" /\ peer'[c].at # "hello"
          /\ \/ request'[c] = request[c]
             \/ request'[c].op = "Publish" /\ request'[c].claim = ClaimOf(c)'

(* Every step of a client has such an effect. *)
LEMMA ClientEffects ==
    ASSUME CoordInv, NEW c \in Conns, ClientStep(c), UNCHANGED scenario
    PROVE  ClientEffect(c)
<1>1. /\ DOMAIN peer = Conns /\ DOMAIN request = Conns /\ DOMAIN reply = Conns
      /\ peer[c] = [at |-> peer[c].at, known |-> peer[c].known]
  BY DEF CoordInv, CoordTypeOK
<1>2. /\ UNCHANGED <<vars, handler, main, stopping, scenario>>
      /\ peer[c].at \notin {"absent", "dead"}
  BY DEF ClientStep, Ask, ReadSummary, ReadAnswer, Kill, HangUp, serverVars, Alive
<1>3. /\ \A d \in Conns \ {c} : UNCHANGED <<peer[d], request[d], reply[d]>>
      /\ reply'[c] \in {reply[c], NoReply}
  BY <1>1 DEF ClientStep, Ask, ReadSummary, ReadAnswer, Kill, HangUp
<1>4. CASE Ask(c)
  <2>1. /\ c \in Controls /\ request'[c].op \in ControlOps
        /\ peer' = [peer EXCEPT ![c].at = "asking"]
    BY <1>1, <1>4 DEF Ask
  <2>2. peer'[c].known = peer[c].known
    BY <1>1, <2>1
  <2> QED
    BY <1>2, <1>3, <2>1, <2>2 DEF ClientEffect
<1>5. CASE ReadSummary(c)
  <2>1. peer[c].at = "hello" /\ reply[c].kind = "summary" /\ peer'[c].at # "hello"
    BY <1>1, <1>5 DEF ReadSummary
  <2>2. CASE Session[c].data = None
    <3>1. request' = request
      BY <1>5, <2>2 DEF ReadSummary
    <3> QED
      BY <1>2, <1>3, <2>1, <3>1 DEF ClientEffect
  <2>3. CASE Session[c].data # None
    <3> DEFINE known == reply[c].auth
    <3>1. /\ peer'[c].known = known
          /\ request'[c] = PublishFrame(Session[c].data, WorkerClaim(c, known))
      BY <1>1, <1>5, <2>3 DEF ReadSummary
    <3> HIDE DEF known
    <3>2. request'[c].op = "Publish" /\ request'[c].claim = OnWire(WorkerClaim(c, known))
      BY <3>1 DEF PublishFrame
    <3>3. ClaimOf(c)' = OnWire(WorkerClaim(c, known))
      BY <1>2, <3>1 DEF ClaimOf, OnWire, WorkerClaim, Session
    <3> QED
      BY <1>2, <1>3, <2>1, <3>2, <3>3 DEF ClientEffect
  <2> QED
    BY <2>2, <2>3
<1>6. CASE ReadAnswer(c) \/ Kill(c) \/ HangUp(c)
  <2>1. request'[c] \in {request[c], NoFrame}
    BY <1>1, <1>6 DEF ReadAnswer, Kill, HangUp
  <2>2. PICK at : at # "hello" /\ peer' = [peer EXCEPT ![c].at = at]
    BY <1>6 DEF ReadAnswer, Kill, HangUp
  <2>3. peer'[c].known = peer[c].known /\ peer'[c].at # "hello"
    BY <1>1, <2>2
  <2> QED
    BY <1>2, <1>3, <2>1, <2>3 DEF ClientEffect
<1> QED
  BY <1>4, <1>5, <1>6 DEF ClientStep

(* Workers and control clients have connections of their own. *)
LEMMA WorkersAreNoControls ==
    ASSUME CoordTypeOK
    PROVE  WorkerConns \cap Controls = {}
  BY CoordinatorAssumption DEF CoordTypeOK, WorkerConns, Session, Controls

(* A worker that reads the summary claims what it says; no other client makes *)
(* a claim for it.                                                            *)
LEMMA ClientKeepsServed ==
    ASSUME CoordInv, ServedInv, NEW c \in Conns, ClientStep(c), UNCHANGED scenario
    PROVE  ServedInv'
<1>1. ClientEffect(c)
  BY ClientEffects
<1>2. /\ WorkerConns' = WorkerConns /\ WorkerConns \subseteq Conns /\ Session' = Session
      /\ WorkerConns \cap Controls = {}
      /\ (Lasts' <=> Lasts)
      /\ \A d : Predecessors(d)' = Predecessors(d)
  BY SameScenario, ConnsOfScenario, WorkersAreNoControls DEF CoordInv
<1>3. /\ FenceInv /\ ClaimInv /\ HelloInv /\ (Lasts => BootInv)
      /\ UNCHANGED <<authority, calls, handler, main, stopping>>
  BY <1>1 DEF ServedInv, ClientEffect, vars
<1>4. FenceInv'
  BY <1>3, CallUntouched DEF FenceInv
<1>5. ClaimInv'
  <2> SUFFICES ASSUME NEW d \in WorkerConns
               PROVE  /\ request'[d].op = "Publish" =>
                            request'[d].claim = ClaimOf(d)' /\ peer'[d].at # "hello"
                      /\ handler[d].at = "Publish" =>
                            handler[d].frame.claim = ClaimOf(d)' /\ peer'[d].at # "hello"
                      /\ handler[d].at = "fencing" =>
                            calls[d].claim = ClaimOf(d)' /\ peer'[d].at # "hello"
    BY <1>2, <1>3 DEF ClaimInv
  <2>1. CASE peer[d].at = "hello" /\ peer'[d].at # "hello" /\ d = c
    <3>1. handler[d].at \notin {"Publish", "fencing"} /\ request[d].op # "Publish"
      BY <1>3, <2>1 DEF ClaimInv
    <3>2. request'[d].op = "Publish" => request'[d].claim = ClaimOf(d)'
      BY <1>1, <1>2, <2>1, <3>1 DEF ClientEffect, NoFrame
    <3> QED
      BY <2>1, <3>1, <3>2
  <2>2. CASE d = c /\ ~ (peer[d].at = "hello" /\ peer'[d].at # "hello")
    <3>1. /\ request'[d] \in {request[d], NoFrame}
          /\ peer'[d].known = peer[d].known
          /\ peer'[d].at = "hello" => peer[d].at = "hello"
      BY <1>1, <1>2, <2>2 DEF ClientEffect
    <3>2. ClaimOf(d)' = ClaimOf(d)
      BY <3>1, SameClaim
    <3> QED
      BY <1>3, <3>1, <3>2 DEF ClaimInv, NoFrame
  <2>3. CASE d # c
    <3>1. request'[d] = request[d] /\ peer'[d] = peer[d]
      BY <1>1, <1>2, <2>3 DEF ClientEffect
    <3>2. ClaimOf(d)' = ClaimOf(d)
      BY <3>1, SameClaim
    <3> QED
      BY <1>3, <3>1, <3>2 DEF ClaimInv
  <2> QED
    BY <2>1, <2>2, <2>3
<1>6. HelloInv'
  <2>1. ASSUME NEW d \in WorkerConns
        PROVE  /\ request'[d].op = "Hello" => handler[d].at \in Unread
               /\ request'[d].op = "Hello" \/ handler[d].at = "Hello" =>
                     peer'[d].known = None /\ reply'[d] = NoReply
    <3>1. CASE d # c
      BY <1>1, <1>2, <1>3, <3>1 DEF ClientEffect, HelloInv
    <3>2. CASE d = c
      <4>1. request'[d].op = "Hello" => request[d].op = "Hello"
        BY <1>1, <1>2, <3>2 DEF ClientEffect, NoFrame
      <4>2. ASSUME request[d].op = "Hello" \/ handler[d].at = "Hello"
            PROVE  peer'[d].known = None /\ reply'[d] = NoReply
        <5>1. peer[d].known = None /\ reply[d] = NoReply
          BY <1>3, <4>2 DEF HelloInv
        <5> QED
          BY <1>1, <1>2, <3>2, <5>1 DEF ClientEffect, NoReply
      <4> QED
        BY <1>3, <4>1, <4>2 DEF HelloInv
    <3> QED
      BY <3>1, <3>2
  <2>2. ASSUME NEW d \in WorkerConns, peer'[d] # Absent, NEW p \in Predecessors(d)
        PROVE  peer'[p].at = "dead"
    <3>1. p \in Conns /\ d \in Conns
      BY <1>2 DEF Predecessors
    <3>2. peer[d] # Absent
      BY <1>1, <2>2, <3>1 DEF ClientEffect, Absent
    <3>3. peer[p].at = "dead"
      BY <1>3, <3>2 DEF HelloInv
    <3> QED
      BY <1>1, <3>1, <3>3 DEF ClientEffect
  <2> QED
    BY <1>2, <1>3, <2>1, <2>2 DEF HelloInv
<1>7. ASSUME Lasts PROVE BootInv'
  <2>1. BootInv
    BY <1>3, <1>7
  <2>2. ASSUME NEW d \in Conns PROVE request'[d].op # "Shutdown"
    BY <1>1, <1>7, <2>1 DEF ClientEffect, BootInv, Lasts, NoFrame
  <2>3. ASSUME NEW o \in WorkerConns, Greeted(o)', GreetedBefore(o)'
        PROVE  BootOK(o)
    <3>1. o \in Conns
      BY <1>2
    <3>2. Greeted(o)
      BY <1>1, <1>2, <1>3, <2>3, <3>1 DEF Greeted, ClientEffect, NoReply
    <3>3. \A p \in Predecessors(o) : p \in Conns /\ peer[p].at = "dead"
      BY <1>3, <3>2, GreetedIsAlone
    <3>4. \A p \in Predecessors(o) : peer'[p] = peer[p]
      BY <1>1, <3>3 DEF ClientEffect
    <3>5. GreetedBefore(o)
      BY <1>2, <2>3, <3>4 DEF GreetedBefore
    <3> QED
      BY <2>1, <3>2, <3>5 DEF BootInv
  <2> QED
    BY <1>2, <1>3, <2>1, <2>2, <2>3 DEF BootInv, BootOK
<1> QED
  BY <1>2, <1>4, <1>5, <1>6, <1>7 DEF ServedInv

(* A process connects: it has been told nothing yet. *)
LEMMA StartKeepsServed ==
    ASSUME CoordInv, ServedInv, UNCHANGED scenario,
           \/ \E c \in WorkerConns : StartWorker(c)
           \/ \E c \in Controls : StartControl(c)
    PROVE  ServedInv'
<1>1. /\ WorkerConns' = WorkerConns /\ WorkerConns \subseteq Conns /\ Session' = Session
      /\ Controls \subseteq Conns /\ WorkerConns \cap Controls = {}
      /\ (Lasts' <=> Lasts)
      /\ \A d : Predecessors(d)' = Predecessors(d)
  BY SameScenario, ConnsOfScenario, WorkersAreNoControls DEF CoordInv
<1>2. PICK c \in Conns : \/ c \in WorkerConns /\ StartWorker(c)
                         \/ c \in Controls /\ StartControl(c)
  BY <1>1
<1>3. /\ peer[c] = Absent /\ handler[c].at = "absent" /\ reply[c] = NoReply
      /\ UNCHANGED <<vars, reply, main, stopping>>
  BY <1>2 DEF StartWorker, StartControl, Connect, CoordInv, ConnectionInv, Alive, Absent
<1>4. /\ \A d \in Conns \ {c} : UNCHANGED <<peer[d], request[d], handler[d]>>
      /\ handler'[c].at = "backlog"
      /\ peer'[c].known = None
      /\ \/ c \in Controls /\ request'[c] = request[c]
         \/ /\ c \in WorkerConns /\ request'[c] = [op |-> "Hello"]
            /\ \A p \in Predecessors(c) : peer[p].at = "dead"
  BY <1>2 DEF StartWorker, StartControl, Connect, CoordInv, CoordTypeOK
<1>5. /\ FenceInv /\ ClaimInv /\ HelloInv /\ (Lasts => BootInv)
      /\ UNCHANGED <<authority, calls>>
  BY <1>3 DEF ServedInv, vars
<1>6. FenceInv'
  BY <1>5, CallUntouched DEF FenceInv
<1>7. \A d \in Conns : peer'[d].known = peer[d].known
  BY <1>3, <1>4 DEF Absent
<1>8. ClaimInv'
  <2> SUFFICES ASSUME NEW d \in WorkerConns
               PROVE  /\ request'[d].op = "Publish" =>
                            request'[d].claim = ClaimOf(d)' /\ peer'[d].at # "hello"
                      /\ handler'[d].at = "Publish" =>
                            handler'[d].frame.claim = ClaimOf(d)' /\ peer'[d].at # "hello"
                      /\ handler'[d].at = "fencing" =>
                            calls[d].claim = ClaimOf(d)' /\ peer'[d].at # "hello"
    BY <1>1, <1>5 DEF ClaimInv
  <2>1. CASE d = c
    BY <1>1, <1>4, <2>1
  <2>2. CASE d # c
    <3>1. ClaimOf(d)' = ClaimOf(d)
      BY <1>1, <1>7, SameClaim
    <3> QED
      BY <1>1, <1>4, <1>5, <2>2, <3>1 DEF ClaimInv
  <2> QED
    BY <2>1, <2>2
<1>9. HelloInv'
  <2>1. ASSUME NEW d \in WorkerConns
        PROVE  /\ request'[d].op = "Hello" => handler'[d].at \in Unread
               /\ request'[d].op = "Hello" \/ handler'[d].at = "Hello" =>
                     peer'[d].known = None /\ reply[d] = NoReply
    <3>1. CASE d = c
      BY <1>3, <1>4, <3>1 DEF Unread
    <3>2. CASE d # c
      BY <1>1, <1>4, <1>5, <3>2 DEF HelloInv
    <3> QED
      BY <3>1, <3>2
  <2>2. ASSUME NEW d \in WorkerConns, peer'[d] # Absent, NEW p \in Predecessors(d)
        PROVE  peer'[p].at = "dead"
    <3>1. p \in Conns /\ d \in Conns
      BY <1>1 DEF Predecessors
    <3>2. peer[p].at = "dead"
      <4>1. CASE d = c
        BY <1>1, <1>4, <4>1
      <4>2. CASE d # c
        BY <1>4, <1>5, <2>2, <3>1, <4>2 DEF HelloInv
      <4> QED
        BY <4>1, <4>2
    <3>3. p # c
      BY <1>3, <3>2 DEF Absent
    <3> QED
      BY <1>4, <3>1, <3>2, <3>3
  <2> QED
    BY <1>1, <1>3, <2>1, <2>2 DEF HelloInv
<1>10. ASSUME Lasts PROVE BootInv'
  <2>1. BootInv
    BY <1>5, <1>10
  <2>2. ASSUME NEW d \in Conns
        PROVE  request'[d].op # "Shutdown" /\ handler'[d].at \notin {"Shutdown", "stop"}
    BY <1>4, <2>1 DEF BootInv
  <2>3. ASSUME NEW o \in WorkerConns, Greeted(o)', GreetedBefore(o)'
        PROVE  BootOK(o)
    <3>1. Greeted(o)
      <4>1. o \in Conns /\ handler'[c].at # "summary" /\ reply' = reply
        BY <1>1, <1>3, <1>4
      <4> QED
        BY <1>4, <1>7, <2>3, <4>1 DEF Greeted
    <3>2. \A p \in Predecessors(o) : p \in Conns
      BY <1>1 DEF Predecessors
    <3>3. GreetedBefore(o)
      BY <1>1, <1>7, <2>3, <3>2 DEF GreetedBefore
    <3> QED
      BY <2>1, <3>1, <3>3 DEF BootInv
  <2> QED
    BY <1>1, <1>3, <1>5, <2>1, <2>2, <2>3 DEF BootInv, BootOK
<1> QED
  BY <1>1, <1>6, <1>8, <1>9, <1>10 DEF ServedInv

----------------------------------------------------------------------------
(* main *)

(* main accepts a connection, or looks at the stop flag and goes on. *)
LEMMA MainKeepsServed ==
    ASSUME CoordInv, ServedInv, UNCHANGED scenario, main # "exited", main' # "exited",
           UNCHANGED <<authority, calls, peer, request, reply, stopping>>,
           \A c \in Conns : \/ handler'[c] = handler[c]
                            \/ handler[c].at = "backlog" /\ handler'[c].at = "test"
    PROVE  ServedInv'
<1>1. /\ WorkerConns' = WorkerConns /\ WorkerConns \subseteq Conns /\ Session' = Session
      /\ (Lasts' <=> Lasts)
      /\ \A d : Predecessors(d)' = Predecessors(d) /\ ClaimOf(d)' = ClaimOf(d)
  BY SameScenario, SameClaim, ConnsOfScenario DEF CoordInv
<1>2. FenceInv /\ ClaimInv /\ HelloInv /\ (Lasts => BootInv)
  BY DEF ServedInv
<1>3. FenceInv'
  BY <1>2, CallUntouched DEF FenceInv
<1>4. ClaimInv'
  BY <1>1, <1>2 DEF ClaimInv
<1>5. HelloInv'
  BY <1>1, <1>2 DEF HelloInv, Unread
<1>6. ASSUME Lasts PROVE BootInv'
  <2>1. \A o \in WorkerConns : /\ Greeted(o)' => Greeted(o)
                               /\ GreetedBefore(o)' <=> GreetedBefore(o)
                               /\ BootOK(o)' <=> BootOK(o)
    BY <1>1 DEF Greeted, GreetedBefore, BootOK
  <2> QED
    BY <1>1, <1>2, <1>6, <2>1 DEF BootInv
<1> QED
  BY <1>1, <1>3, <1>4, <1>5, <1>6 DEF ServedInv

(* A process that ends, and one that starts from the file: no handler and no  *)
(* call is left.                                                              *)
LEMMA EndKeepsServed ==
    ASSUME CoordInv, ServedInv, UNCHANGED scenario, ~ Lasts,
           UNCHANGED <<peer, reply>>,
           calls' = [t \in Threads |-> Idle],
           \A c \in Conns : /\ request'[c] \in {request[c], NoFrame}
                            /\ handler'[c].at \in {"absent", "closed"}
                            /\ handler[c].at \in Unread => handler'[c].at \in Unread
    PROVE  ServedInv'
<1>1. /\ WorkerConns' = WorkerConns /\ WorkerConns \subseteq Conns
      /\ (Lasts' <=> Lasts)
      /\ \A d : Predecessors(d)' = Predecessors(d) /\ ClaimOf(d)' = ClaimOf(d)
  BY SameScenario, SameClaim, ConnsOfScenario DEF CoordInv
<1>2. FenceInv'
  BY IdleCallFenced DEF FenceInv
<1>3. ClaimInv'
  BY <1>1 DEF ServedInv, ClaimInv, NoFrame
<1>4. HelloInv'
  BY <1>1 DEF ServedInv, HelloInv, NoFrame
<1> QED
  BY <1>1, <1>2, <1>3, <1>4 DEF ServedInv

----------------------------------------------------------------------------
(* The theorems *)

(* Nothing is in transit, and nobody was served, when the first coordinator   *)
(* starts.                                                                    *)
THEOREM ServedInitEstablishes == CoordInit => ServedInv
<1> SUFFICES ASSUME CoordInit PROVE ServedInv
  OBVIOUS
<1>1. FenceInv
  BY FenceInit DEF CoordInit
<1>2. \A c \in Conns : /\ peer[c] = Absent /\ request[c] = NoFrame /\ reply[c] = NoReply
                       /\ handler[c].at = "absent"
  BY DEF CoordInit
<1>3. WorkerConns \subseteq Conns
  BY CoordinatorAssumption DEF CoordInit, WorkerConns, Session, Conns
<1>4. ClaimInv /\ HelloInv
  BY <1>2, <1>3 DEF ClaimInv, HelloInv, NoFrame, Absent
<1>5. BootInv
  BY <1>2, <1>3 DEF BootInv, CoordInit, Greeted, NoFrame, NoReply, Absent
<1> QED
  BY <1>1, <1>4, <1>5 DEF ServedInv

(* Every step of a handler, a client or main keeps it, and so do a crash and  *)
(* a restart, where they may happen.                                          *)
THEOREM ServedNextPreserves == CoordInv /\ ServedInv /\ [CoordNext]_allVars => ServedInv'
<1> SUFFICES ASSUME CoordInv, ServedInv, [CoordNext]_allVars PROVE ServedInv'
  OBVIOUS
<1>1. CASE CoordNext
  <2>1. UNCHANGED scenario
    BY <1>1 DEF CoordNext
  <2>2. CASE (\E c \in WorkerConns : StartWorker(c)) \/ (\E c \in Controls : StartControl(c))
    BY <2>1, <2>2, StartKeepsServed
  <2>3. ASSUME NEW c \in Conns, ClientStep(c) PROVE ServedInv'
    BY <2>1, <2>3, ClientKeepsServed
  <2>4. ASSUME NEW c \in Conns, HandlerStep(c) PROVE ServedInv'
    <3>1. Lasts' <=> Lasts
      BY <2>1, SameScenario
    <3> QED
      BY <2>4, <3>1, HandlerKeepsFence, HandlerKeepsClaims, HandlerKeepsHellos,
         HandlerKeepsBoots DEF ServedInv
  <2>5. ASSUME Gone PROVE ServedInv' \/ Lasts
    <3>1. \A c \in Conns : /\ request'[c] = NoFrame
                           /\ handler'[c].at \in {"absent", "closed"}
                           /\ handler[c].at \in Unread => handler'[c].at \in Unread
      BY <2>5 DEF Gone, Unread
    <3> QED
      BY <2>1, <2>5, <3>1, EndKeepsServed DEF Gone
  <2>6. CASE MainStep
    <3>1. ASSUME TestMain, stopping PROVE ServedInv'
      <4>1. ~ Lasts
        BY <3>1 DEF ServedInv, BootInv
      <4> QED
        BY <2>5, <3>1, <4>1 DEF TestMain
    <3>2. ASSUME TestMain, ~ stopping PROVE ServedInv'
      BY <2>1, <3>2, MainKeepsServed DEF TestMain, clientVars, vars
    <3>3. ASSUME NEW c \in Conns, Accept(c) PROVE ServedInv'
      <4>1. \A d \in Conns : \/ handler'[d] = handler[d]
                             \/ handler[d].at = "backlog" /\ handler'[d].at = "test"
        BY <3>3, OnlyPlaceMoves DEF Accept, CoordInv
      <4> QED
        BY <2>1, <3>3, <4>1, MainKeepsServed DEF Accept, clientVars, vars
    <3> QED
      BY <2>6, <3>1, <3>2, <3>3 DEF MainStep
  <2>7. CASE Crash
    BY <2>5, <2>7 DEF Crash, Lasts
  <2>8. CASE Restart
    <3>1. ~ Lasts
      BY <2>8 DEF Restart, ServedInv, BootInv
    <3>2. \A c \in Conns : handler[c].at \in {"absent", "closed"}
      BY <2>8 DEF Restart, CoordInv, ConnectionInv
    <3> QED
      BY <2>1, <2>8, <3>1, <3>2, EndKeepsServed DEF Restart, Recover, clientVars
  <2> QED
    BY <1>1, <2>2, <2>3, <2>4, <2>6, <2>7, <2>8 DEF CoordNext
<1>2. CASE UNCHANGED allVars
  <2>1. UNCHANGED <<authority, calls, peer, request, reply, handler, main, stopping, scenario>>
    BY <1>2 DEF allVars, vars, clientVars, serverVars
  <2>2. /\ WorkerConns' = WorkerConns /\ Session' = Session /\ (Lasts' <=> Lasts)
        /\ \A d : Predecessors(d)' = Predecessors(d) /\ ClaimOf(d)' = ClaimOf(d)
    BY <2>1, SameScenario, SameClaim
  <2>3. FenceInv'
    BY <2>1, CallUntouched DEF ServedInv, FenceInv
  <2>4. ClaimInv' /\ HelloInv'
    BY <2>1, <2>2 DEF ServedInv, ClaimInv, HelloInv
  <2>5. BootInv => BootInv'
    BY <2>1, <2>2 DEF BootInv, Greeted, GreetedBefore, BootOK
  <2> QED
    BY <2>2, <2>3, <2>4, <2>5 DEF ServedInv
<1> QED
  BY <1>1, <1>2

(* The invariant, in every state a coordinator and its clients reach. *)
THEOREM ServedInvariant == CoordSpec => []ServedInv
  BY CoordInvariant, ServedInitEstablishes, ServedNextPreserves, PTL DEF CoordSpec

----------------------------------------------------------------------------
(* Whom the coordinator serves *)

(* A handler that is inside publish stays there, refuses or commits. *)
LEMMA FencingSteps ==
    ASSUME NEW c \in Conns, HandlerStep(c), handler[c].at = "fencing"
    PROVE  PublishCompare(c) \/ PublishRefuse(c) \/ PublishCommit(c)
  BY DEF HandlerStep, TestStopping, Receive, ReceiveEnd, Hello, SendSummary, Malformed,
     Undecodable, CountMalformed, PublishBegin, Count, SendResult, Roll, SetOne, SetDone,
     SendDone, TakeSnapshot, WriteSnapshot, WriteFails, SendSaved, QueryFind, QueryValidity,
     SendQuery, StatsBegin, StatsRead, SendStats, SendBye, Stop

(* A publish leaves the comparisons refused by one of them, or past them all. *)
LEMMA FencingEnds ==
    ASSUME CoordInv, [CoordNext]_allVars, NEW c \in Conns,
           handler[c].at = "fencing", handler'[c].at \in {"published", "refused"}
    PROVE  \/ PublishCommit(c)
           \/ PublishRefuse(c) /\ handler'[c].at = "refused"
<1>1. handler'[c] # handler[c]
  OBVIOUS
<1>2. CASE \E d \in Conns : HandlerStep(d)
  <2>1. PICK d \in Conns : HandlerStep(d)
    BY <1>2
  <2>2. d = c
    BY <1>1, <2>1, HandlerEffects DEF HandlerEffect
  <2>3. PublishCompare(c) \/ PublishRefuse(c) \/ PublishCommit(c)
    BY <1>1, <2>1, <2>2, FencingSteps
  <2>4. ~ PublishCompare(c)
    BY <1>1 DEF PublishCompare
  <2>5. PublishRefuse(c) => handler'[c].at = "refused"
    BY OnlyPlaceMoves DEF PublishRefuse, CoordInv
  <2> QED
    BY <2>3, <2>4, <2>5
<1>3. CASE \E d \in WorkerConns : StartWorker(d)
  BY <1>1, <1>3, ConnsOfScenario DEF StartWorker, Connect, CoordInv, CoordTypeOK, ConnectionInv
<1>4. CASE \E d \in Controls : StartControl(d)
  BY <1>1, <1>4, ConnsOfScenario DEF StartControl, Connect, CoordInv, CoordTypeOK, ConnectionInv
<1>5. CASE \E d \in Conns : ClientStep(d)
  BY <1>1, <1>5 DEF ClientStep, Ask, ReadSummary, ReadAnswer, Kill, HangUp, serverVars
<1>6. CASE Gone
  BY <1>1, <1>6 DEF Gone
<1>7. CASE MainStep
  <2>1. ASSUME NEW d \in Conns, Accept(d) PROVE FALSE
    BY <1>1, <2>1, OnlyPlaceMoves DEF Accept, CoordInv
  <2>2. CASE TestMain
    BY <1>1, <1>6, <2>2 DEF TestMain
  <2> QED
    BY <1>6, <1>7, <2>1, <2>2 DEF MainStep, TestMain
<1>8. CASE Crash \/ Restart
  BY <1>1, <1>6, <1>8 DEF Crash, Restart
<1>9. CASE UNCHANGED allVars
  BY <1>1, <1>9 DEF allVars, serverVars
<1> QED
  BY <1>2, <1>3, <1>4, <1>5, <1>7, <1>8, <1>9 DEF CoordNext

(* Only the call of the store a handler is in compares, and it compares what  *)
(* it says it has compared.                                                   *)
LEMMA BootIsCompared ==
    ASSUME CoordInv, [CoordNext]_allVars, NEW c \in Conns, PassesBoot(c)
    PROVE  ~ Stale(authority, calls[c].claim, "WorkerBootId")
<1>1. handler[c].at = "fencing" /\ handler'[c].at = "fencing" /\ calls'[c].todo # calls[c].todo
  BY DEF PassesBoot
<1>2. CASE \E d \in Conns : HandlerStep(d)
  <2>1. PICK d \in Conns : HandlerStep(d)
    BY <1>2
  <2>2. d = c
    BY <1>1, <2>1, HandlerEffects DEF HandlerEffect
  <2>3. PublishCompare(c) \/ PublishRefuse(c) \/ PublishCommit(c)
    BY <1>1, <2>1, <2>2, FencingSteps
  <2>4. PublishCompare(c)
    BY <1>1, <2>3, OnlyPlaceMoves DEF PublishRefuse, PublishCommit, CoordInv
  <2>5. PICK dim \in FenceDims :
           /\ ~ Stale(authority, calls[c].claim, dim)
           /\ calls' = [calls EXCEPT ![c].todo = calls[c].todo \ {dim}]
    BY <2>4 DEF PublishCompare, FencePass
  <2>6. calls[c] \in CallType /\ calls[c] # Idle /\ DOMAIN calls = Conns
    BY <2>4, StoreAssumption DEF PublishCompare, FencePass, CoordInv, StoreInv, ControlTypeOK,
                                 Conns, Idle
  <2>7. calls'[c].todo = calls[c].todo \ {dim}
    BY <2>5, <2>6 DEF CallType
  <2> QED
    BY <2>5, <2>7 DEF PassesBoot
<1>3. UNCHANGED calls => FALSE
  BY <1>1
<1>4. CASE \/ \E d \in WorkerConns : StartWorker(d)
           \/ \E d \in Controls : StartControl(d)
           \/ \E d \in Conns : ClientStep(d)
  BY <1>3, <1>4 DEF StartWorker, StartControl, ClientStep, Ask, ReadSummary, ReadAnswer, Kill,
                    HangUp, vars
<1>5. CASE Gone
  BY <1>1, <1>5 DEF Gone
<1>6. CASE MainStep
  BY <1>3, <1>5, <1>6 DEF MainStep, TestMain, Accept, vars
<1>7. CASE Crash \/ Restart
  <2>1. CASE Restart
    BY <1>1, <2>1 DEF Restart, CoordInv, ConnectionInv
  <2> QED
    BY <1>5, <1>7, <2>1 DEF Crash
<1>8. CASE UNCHANGED allVars
  BY <1>3, <1>8 DEF allVars, vars
<1> QED
  BY <1>2, <1>4, <1>6, <1>7, <1>8 DEF CoordNext

(* authority.hpp: old work can never become current after a worker restart.   *)
(* In a coordinator that lasts, once a process was told the summary, after     *)
(* every process of the same worker before it, no publish passes the          *)
(* comparison of boots under an earlier boot, and none that no setter disturbs *)
(* commits under one.                                                         *)
THEOREM OldBootsAreFenced == CoordSpec => OldBootIsFenced
<1>1. CoordInv /\ ServedInv /\ [CoordNext]_allVars
        => [Lasts =>
              \A c \in Conns : PassesBoot(c) \/ (Committing(c) /\ calls[c].steady) =>
                 \A o \in WorkerConns :
                    /\ Session[o].worker = calls[c].claim.worker
                    /\ peer[o].known # None
                    /\ GreetedBefore(o)
                    => calls[c].claim.boot >= Session[o].boot]_allVars
  <2> SUFFICES ASSUME CoordInv, ServedInv, [CoordNext]_allVars, Lasts,
                      NEW c \in Conns, PassesBoot(c) \/ (Committing(c) /\ calls[c].steady),
                      NEW o \in WorkerConns,
                      Session[o].worker = calls[c].claim.worker,
                      peer[o].known # None, GreetedBefore(o)
               PROVE  calls[c].claim.boot >= Session[o].boot
    OBVIOUS
  <2>1. ~ Stale(authority, calls[c].claim, "WorkerBootId")
    <3>1. CASE PassesBoot(c)
      BY <3>1, BootIsCompared
    <3>2. CASE Committing(c) /\ calls[c].steady
      <4>1. PublishCommit(c)
        BY <3>2, FencingEnds DEF Committing
      <4> QED
        BY <3>2, <4>1 DEF PublishCommit, FenceCommit, Admitted, ServedInv, FenceInv,
                          DimensionsFenced, Fencing, FenceDims, Conns
    <3> QED
      BY <3>1, <3>2
  <2>2. Session[o].worker # 0
    BY StoreAssumption, CoordinatorAssumption DEF CoordInv, CoordTypeOK, WorkerConns, Session
  <2>3. authority.boot[Session[o].worker] = calls[c].claim.boot
    BY <2>1, <2>2 DEF Stale, StaleBoot
  <2>4. BootOK(o)
    BY DEF ServedInv, BootInv, Greeted
  <2> QED
    BY <2>3, <2>4 DEF BootOK
<1> QED
  BY <1>1, CoordInvariant, ServedInvariant, PTL DEF CoordSpec, OldBootIsFenced

----------------------------------------------------------------------------
(* Epochs of one digit *)

(* Every epoch the coordinator may come to print has one digit. *)
EpochInv ==
    /\ authority.epoch < 10
    /\ saved.authority.epoch < 10
    /\ \A c \in Conns : handler[c].at = "write" =>
          handler[c].frame.snapshot.authority.epoch < 10

(* Rollovers are bounded, and a snapshot holds an epoch that was current once: *)
(* no restart brings a larger one.                                            *)
THEOREM EpochsStaySmall ==
    ASSUME MaxEpoch < 10
    PROVE  CoordSpec => []EpochInv
<1>1. CoordInit => EpochInv
  BY DEF CoordInit, Init, EmptySnapshot, InitialAuthority, EpochInv
<1>2. CoordInv /\ EpochInv /\ [CoordNext]_allVars => EpochInv'
  <2> SUFFICES ASSUME CoordInv, EpochInv, [CoordNext]_allVars PROVE EpochInv'
    OBVIOUS
  <2>1. PICK known \in SUBSET Workers :
           authority \in [epoch : Nat, boot : [known -> Boots], gen : [GenDims -> Nat]]
    BY DEF CoordInv, StoreInv, ControlTypeOK, AuthorityOK
  <2>2. ASSUME NEW c \in Conns, HandlerStep(c) PROVE EpochInv'
    <3>1. HandlerEffect(c)
      BY <2>2, HandlerEffects
    <3>2. authority'.epoch < 10
      <4>1. CASE Roll(c)
        <5>1. authority'.epoch = authority.epoch + 1 /\ authority.epoch < MaxEpoch
          BY <2>1, <4>1 DEF Roll, RollEpoch, ChangeAuthority, NextEpoch
        <5> QED
          BY <2>1, <5>1, StoreAssumption
      <4> QED
        BY <3>1, <4>1 DEF HandlerEffect, EpochInv
    <3>3. saved'.authority.epoch < 10
      <4>1. CASE WriteSnapshot(c)
        BY <4>1 DEF WriteSnapshot, EpochInv
      <4>2. EmptySnapshot.authority.epoch < 10
        BY DEF EmptySnapshot, InitialAuthority
      <4> QED
        BY <3>1, <4>1, <4>2 DEF HandlerEffect, EpochInv
    <3>4. ASSUME NEW d \in Conns, handler'[d].at = "write"
          PROVE  handler'[d].frame.snapshot.authority.epoch < 10
      <4>1. CASE d # c
        BY <3>1, <3>4, <4>1 DEF HandlerEffect, EpochInv
      <4>2. CASE d = c
        <5>1. TakeSnapshot(c)
          BY <3>1, <3>4, <4>2, OpsAreServed DEF HandlerEffect, GoesTo
        <5>2. handler'[c].frame.snapshot = CurrentSnapshot
          BY <5>1 DEF TakeSnapshot, CoordInv, CoordTypeOK
        <5>3. CurrentSnapshot.authority.epoch = authority.epoch
          BY <2>1 DEF CurrentSnapshot
        <5> QED
          BY <4>2, <5>2, <5>3 DEF EpochInv
      <4> QED
        BY <4>1, <4>2
    <3> QED
      BY <3>2, <3>3, <3>4 DEF EpochInv
  <2>3. ASSUME UNCHANGED <<authority, saved>>,
               \A c \in Conns : handler'[c].at = "write" => handler'[c] = handler[c]
        PROVE  EpochInv'
    BY <2>3 DEF EpochInv
  <2>4. CASE \E c \in WorkerConns : StartWorker(c)
    BY <2>3, <2>4, ConnsOfScenario DEF StartWorker, Connect, CoordInv, CoordTypeOK, vars
  <2>5. CASE \E c \in Controls : StartControl(c)
    BY <2>3, <2>5, ConnsOfScenario DEF StartControl, Connect, CoordInv, CoordTypeOK, vars
  <2>6. CASE \E c \in Conns : ClientStep(c)
    BY <2>3, <2>6 DEF ClientStep, Ask, ReadSummary, ReadAnswer, Kill, HangUp, serverVars, vars
  <2>7. CASE Gone
    BY <2>3, <2>7 DEF Gone
  <2>8. CASE MainStep
    <3>1. ASSUME NEW c \in Conns, Accept(c) PROVE EpochInv'
      <4>1. \A d \in Conns : handler'[d].at = "write" => handler'[d] = handler[d]
        BY <3>1, OnlyPlaceMoves DEF Accept, CoordInv
      <4> QED
        BY <2>3, <3>1, <4>1 DEF Accept, vars
    <3>2. CASE TestMain
      BY <2>3, <2>7, <3>2 DEF TestMain, vars
    <3> QED
      BY <2>8, <3>1, <3>2 DEF MainStep
  <2>9. CASE Crash \/ Restart
    <3>1. CASE Restart
      BY <3>1 DEF Restart, Recover, EpochInv
    <3> QED
      BY <2>7, <2>9, <3>1 DEF Crash
  <2>10. CASE UNCHANGED allVars
    BY <2>3, <2>10 DEF allVars, vars, serverVars
  <2> QED
    BY <2>2, <2>4, <2>5, <2>6, <2>8, <2>9, <2>10 DEF CoordNext
<1> QED
  BY <1>1, <1>2, CoordInvariant, PTL DEF CoordSpec

(* A claim made of the current summary, under the registered boot, is current *)
(* in every dimension, while the epoch has one digit.                         *)
LEMMA FreshClaimIsCurrent ==
    ASSUME ControlTypeOK, EpochInv, NEW c \in WorkerConns, NEW known, known = Summary,
           Session[c].worker \in DOMAIN authority.boot,
           authority.boot[Session[c].worker] = Session[c].boot,
           NEW dim \in FenceDims
    PROVE  ~ Stale(authority, OnWire(WorkerClaim(c, known)), dim)
<1> DEFINE claim == OnWire(WorkerClaim(c, known))
<1>1. authority.epoch \in Nat /\ authority.gen \in [GenDims -> Nat]
  BY DEF ControlTypeOK, AuthorityOK
<1>2. known.epoch = authority.epoch /\ known.gen = authority.gen
  BY DEF Summary
<1>3. /\ claim.epoch = ReadAsHex(known.epoch)
      /\ claim.worker = Session[c].worker /\ claim.boot = Session[c].boot
      /\ \A d \in PlainDims : claim.gen[d] = OrOne(known.gen[d])
      /\ claim.gen["DependencyGeneration"] \in {known.gen["DependencyGeneration"], None}
      /\ \A d \in OptionalDims \ {"DependencyGeneration"} : claim.gen[d] = None
  BY DEF OnWire, WorkerClaim, GenDims, PlainDims, OptionalDims
<1> HIDE DEF claim
<1>4. claim.epoch = authority.epoch
  <2>1. authority.epoch \div 10 = 0 /\ authority.epoch % 10 = authority.epoch
    BY <1>1 DEF EpochInv
  <2> QED
    BY <1>1, <1>2, <1>3, <2>1 DEF ReadAsHex
<1>5. ~ StaleBoot(authority, claim)
  BY <1>3 DEF StaleBoot
<1>6. \A d \in PlainDims : ~ StaleGeneration(authority, claim, d)
  BY <1>1, <1>2, <1>3 DEF StaleGeneration, OrOne
<1>7. \A d \in OptionalDims : ~ StaleGeneration(authority, claim, d)
  BY <1>1, <1>2, <1>3 DEF StaleGeneration, OptionalDims, PlainDims
<1>8. ~ Stale(authority, claim, dim)
  BY <1>4, <1>5, <1>6, <1>7 DEF Stale, GenDims
<1> QED
  BY <1>8 DEF claim

(* README.md, "Distributed Authority": fresh work is accepted.  A worker whose *)
(* summary is still current, under the boot registered for it, is not refused  *)
(* as stale, as long as the epoch has one digit: the summary prints it in base *)
(* ten, and the worker reads it in base sixteen.                              *)
THEOREM CurrentWorkersAreServed ==
    ASSUME MaxEpoch < 10
    PROVE  CoordSpec => CurrentWorkerIsNotRefused
<1>1. CoordInv /\ ServedInv /\ EpochInv /\ [CoordNext]_allVars
        => [\A c \in WorkerConns :
              /\ handler[c].at = "fencing"
              /\ handler'[c].at = "refused"
              /\ calls[c].todo # {}
              /\ Session[c].worker \in DOMAIN authority.boot
              => \/ peer[c].known # Summary
                 \/ authority.boot[Session[c].worker] # Session[c].boot]_allVars
  <2> SUFFICES ASSUME CoordInv, ServedInv, EpochInv, [CoordNext]_allVars,
                      NEW c \in WorkerConns,
                      handler[c].at = "fencing", handler'[c].at = "refused",
                      calls[c].todo # {},
                      Session[c].worker \in DOMAIN authority.boot,
                      peer[c].known = Summary,
                      authority.boot[Session[c].worker] = Session[c].boot
               PROVE  FALSE
    OBVIOUS
  <2>1. c \in Conns
    BY ConnsOfScenario DEF CoordInv
  <2>2. ~ PublishCommit(c)
    BY DEF PublishCommit, FenceCommit, Admitted
  <2>3. PublishRefuse(c)
    BY <2>1, <2>2, FencingEnds
  <2>4. PICK dim \in FenceDims : Stale(authority, calls[c].claim, dim)
    BY <2>3 DEF PublishRefuse, FenceReject
  <2>5. calls[c].claim = OnWire(WorkerClaim(c, peer[c].known))
    BY DEF ServedInv, ClaimInv, ClaimOf
  <2> QED
    BY <2>4, <2>5, FreshClaimIsCurrent DEF CoordInv, StoreInv
<1> QED
  BY <1>1, CoordInvariant, ServedInvariant, EpochsStaySmall, PTL
     DEF CoordSpec, CurrentWorkerIsNotRefused

=============================================================================
