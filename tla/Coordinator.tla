---------------------------- MODULE Coordinator ----------------------------
(***************************************************************************)
(* The coordinator process (tools/coordinator.cpp), the worker processes   *)
(* (tools/worker.cpp) and the control clients (class Control of            *)
(* tools/mp_proof.cpp), joined by the framed TCP transport of              *)
(* include/stateprovenance/protocol.hpp, around one ProvenanceStore.       *)
(*                                                                         *)
(* Each connection is served by a thread of its own, which is also the     *)
(* store's thread of that name.  A client waits for the answer to a frame  *)
(* before it sends the next, so a connection holds at most one request or  *)
(* one answer.  Bytes sent by a process stay in transit when it is killed. *)
(*                                                                         *)
(* A scenario says which clients there are and what may go wrong.  It is   *)
(* chosen in the initial state and never changes.                          *)
(***************************************************************************)
EXTENDS ProvenanceStore, FiniteSets

CONSTANTS
    Scenarios,      \* records of the fields below
    MaxRejected     \* bound: control clients replay no more once this is reached

VARIABLE scenario

Session    == scenario.session      \* worker connections -> [worker, boot, data]; data is
                                    \*   the record to produce, or None in mode "register"
Controls   == scenario.controls     \* connections of control clients
ControlOps == scenario.ops          \* the operations they ask for
Settings   == scenario.settings     \* payloads of SetAuthority: functions on dimensions
Replays    == scenario.replays      \* publish payloads they replay, [data, claim]
MayCrash   == scenario.mayCrash     \* whether the coordinator may crash
Killable   == scenario.killable     \* the connections whose client may be killed

Conns       == Threads
WorkerConns == DOMAIN Session

ASSUME CoordinatorAssumption ==
    \A s \in Scenarios :
        /\ DOMAIN s.session \cup s.controls \cup s.killable \subseteq Threads
        /\ DOMAIN s.session \cap s.controls = {}
        /\ \A c \in DOMAIN s.session : /\ s.session[c].worker \in Workers
                                      /\ s.session[c].boot \in Boots
                                      /\ s.session[c].data \in Candidates \cup {None}
        /\ s.ops \subseteq {"RollEpoch", "SetAuthority", "Save", "Query", "Stats",
                            "Shutdown", "Publish", "Malformed"}
        /\ \A set \in s.settings :
              /\ \A dim \in DOMAIN set : set[dim] \in Generations
              /\ "AttemptId" \in DOMAIN set => "AttemptGeneration" \in DOMAIN set
        /\ s.mayCrash \in BOOLEAN

VARIABLES
    peer,       \* the process at the other end of each connection
    request,    \* the frame in transit to the coordinator
    reply,      \* the frame in transit to the peer
    handler,    \* where handle_connection is, and the frame it serves
    main,       \* where main is: in "accept", about to "test" g_stopping, "exited"
    stopping,   \* g_stopping
    accepted,   \* g_accepted
    rejected,   \* g_rejected
    base,       \* history: the number of records loaded at startup
    acked,      \* history: the subjects a publish of which was answered "ok"
    durable     \* history: those of them an answered save covers, unless a failed one
                \*   has removed the file since

clientVars == <<peer, request, reply>>
serverVars == <<handler, main, stopping, accepted, rejected>>
histVars   == <<base, acked, durable>>
allVars    == <<vars, clientVars, serverVars, histVars, scenario>>

NoFrame == [op |-> "none"]
NoReply == [kind |-> "none"]

Absent == [at |-> "absent", known |-> None]

Alive(c)   == peer[c].at \notin {"absent", "dead"}
Waiting(c) == peer[c].at \in {"hello", "publish", "asking"}

----------------------------------------------------------------------------
(* What the frames say *)

(* authority_summary, as far as a worker reads it. *)
Summary == [epoch |-> authority.epoch, gen |-> authority.gen]

(* The summary prints the epoch in base ten; hx reads it in base sixteen. *)
ReadAsHex(n) == 16 * (n \div 10) + (n % 10)

OrOne(n) == IF n = 0 THEN 1 ELSE n

(* Fault: two generations are exchanged. *)
WorkerClaimExchanged(c, known) ==
    [epoch  |-> ReadAsHex(known.epoch),
     worker |-> Session[c].worker,
     boot   |-> Session[c].boot,
     gen    |-> [dim \in GenDims |->
                    CASE dim = "StateGeneration"      -> OrOne(known.gen["ProvenanceGeneration"])
                      [] dim = "ProvenanceGeneration" -> OrOne(known.gen["StateGeneration"])
                      [] dim \in PlainDims \ {"StateGeneration", "ProvenanceGeneration"}
                                                      -> OrOne(known.gen[dim])
                      [] dim \in OptionalDims         -> None]]

(* The claim a worker makes from the summary; it constrains no generation of  *)
(* the model, adapter, policy, artifact or composition.                       *)
WorkerClaim(c, known) ==
    [epoch  |-> ReadAsHex(known.epoch),
     worker |-> Session[c].worker,
     boot   |-> Session[c].boot,
     gen    |-> [dim \in GenDims |->
                    CASE dim \in PlainDims             -> OrOne(known.gen[dim])
                      [] dim = "DependencyGeneration"  -> known.gen[dim]
                      [] OTHER                         -> None]]

(* encode_claim, then decode_claim: an optional that holds the null value      *)
(* arrives empty.                                                             *)
OnWire(claim) ==
    [claim EXCEPT !.gen = [dim \in GenDims |->
        IF dim \in OptionalDims /\ claim.gen[dim] = 0 THEN None ELSE claim.gen[dim]]]

(* The frame f with what more holds besides. *)
And(f, more) == [x \in DOMAIN f \cup DOMAIN more |->
                    IF x \in DOMAIN f THEN f[x] ELSE more[x]]

PublishFrame(data, claim) == [op |-> "Publish", data |-> data, claim |-> OnWire(claim)]

----------------------------------------------------------------------------
(* Clients *)

(* The former processes of the same worker. *)
Predecessors(c) == {o \in WorkerConns : /\ Session[o].worker = Session[c].worker
                                        /\ Session[o].boot < Session[c].boot}

Connect(c, p) ==
    /\ peer[c] = Absent
    /\ main # "exited"
    /\ peer' = [peer EXCEPT ![c] = p]
    /\ handler' = [handler EXCEPT ![c] = [at |-> "backlog", frame |-> NoFrame]]

(* A worker process is started once the former one is dead; it connects and   *)
(* says hello.                                                                *)
StartWorker(c) ==
    /\ \A o \in Predecessors(c) : peer[o].at = "dead"
    /\ Connect(c, [at |-> "hello", known |-> None])
    /\ request' = [request EXCEPT ![c] = [op |-> "Hello"]]
    /\ UNCHANGED <<vars, reply, main, stopping, accepted, rejected, histVars>>

StartControl(c) ==
    /\ Connect(c, [at |-> "idle", known |-> None])
    /\ UNCHANGED <<vars, request, reply, main, stopping, accepted, rejected, histVars>>

ControlFrames ==
    (IF authority.epoch < MaxEpoch THEN {[op |-> "RollEpoch"]} ELSE {})
      \cup {[op |-> "SetAuthority", set |-> s] : s \in Settings}
      \cup {[op |-> "Query", subject |-> id] : id \in StateIds}
      \cup {[op |-> "Save"], [op |-> "Stats"], [op |-> "Shutdown"]}
      \cup (IF rejected < MaxRejected
            THEN {[op |-> "Malformed"]}
                   \cup {PublishFrame(r.data, r.claim) : r \in Replays}
            ELSE {})

(* Control::op *)
Ask(c) ==
    /\ c \in Controls
    /\ peer[c].at = "idle"
    /\ \E f \in ControlFrames :
          /\ f.op \in ControlOps
          /\ request' = [request EXCEPT ![c] = f]
    /\ peer' = [peer EXCEPT ![c].at = "asking"]
    /\ UNCHANGED <<vars, reply, serverVars, histVars>>

(* The worker reads the summary and, unless it only registers, publishes. *)
ReadSummary(c) ==
    /\ peer[c].at = "hello"
    /\ reply[c].kind = "summary"
    /\ LET known == reply[c].auth
           data  == Session[c].data
       IN  IF data = None
           THEN /\ peer' = [peer EXCEPT ![c] = [at |-> "idle", known |-> known]]
                /\ UNCHANGED request
           ELSE /\ peer' = [peer EXCEPT ![c] = [at |-> "publish", known |-> known]]
                /\ request' = [request EXCEPT ![c] =
                                  PublishFrame(data, WorkerClaim(c, known))]
    /\ reply' = [reply EXCEPT ![c] = NoReply]
    /\ UNCHANGED <<vars, serverVars, histVars>>

(* A worker drains its connection after its publish; a control client goes on, *)
(* or closes after its shutdown.                                              *)
ReadAnswer(c) ==
    /\ peer[c].at \in {"publish", "asking"}
    /\ reply[c] # NoReply
    /\ peer' = [peer EXCEPT ![c] = [@ EXCEPT !.at = IF reply[c].kind = "bye"
                                                     THEN "dead" ELSE "idle"]]
    /\ reply' = [reply EXCEPT ![c] = NoReply]
    /\ UNCHANGED <<vars, request, serverVars, histVars>>

(* The process is killed; what it sent may still arrive. *)
Kill(c) ==
    /\ c \in Killable
    /\ Alive(c)
    /\ peer' = [peer EXCEPT ![c].at = "dead"]
    /\ request' \in {request, [request EXCEPT ![c] = NoFrame]}
    /\ reply' = [reply EXCEPT ![c] = NoReply]
    /\ UNCHANGED <<vars, serverVars, histVars>>

(* The coordinator has closed the connection. *)
HangUp(c) ==
    /\ Alive(c)
    /\ reply[c] = NoReply
    /\ handler[c].at = "closed"
    /\ peer' = [peer EXCEPT ![c].at = "dead"]
    /\ request' = [request EXCEPT ![c] = NoFrame]
    /\ UNCHANGED <<vars, reply, serverVars, histVars>>

----------------------------------------------------------------------------
(* handle_connection *)

Goto(c, place) == handler' = [handler EXCEPT ![c].at = place]

KeepCounts  == UNCHANGED <<main, stopping, accepted, rejected, histVars>>
KeepServing == KeepCounts /\ UNCHANGED clientVars

Answer(c, r) ==
    reply' = [reply EXCEPT ![c] = IF Alive(c) THEN r ELSE NoReply]

(* The condition of the loop is tested before the thread blocks in recv. *)
TestStopping(c) ==
    /\ handler[c].at = "test"
    /\ Goto(c, IF stopping THEN "closed" ELSE "recv")
    /\ UNCHANGED vars
    /\ KeepServing

Receive(c) ==
    /\ handler[c].at = "recv"
    /\ request[c] # NoFrame
    /\ handler' = [handler EXCEPT ![c] = [at |-> request[c].op, frame |-> request[c]]]
    /\ request' = [request EXCEPT ![c] = NoFrame]
    /\ UNCHANGED <<vars, peer, reply>>
    /\ KeepCounts

ReceiveEnd(c) ==
    /\ handler[c].at = "recv"
    /\ request[c] = NoFrame
    /\ ~ Alive(c)
    /\ Goto(c, "closed")
    /\ UNCHANGED vars
    /\ KeepServing

(* Fault: a worker keeps the first boot it registered. *)
HelloOnce(c) ==
    /\ handler[c].at = "Hello"
    /\ IF Session[c].worker \in DOMAIN authority.boot
       THEN UNCHANGED vars
       ELSE RegisterBoot(Session[c].worker, Session[c].boot)
    /\ Goto(c, "summary")
    /\ KeepServing

(* Hello: the boot is registered whatever boot the worker had. *)
Hello(c) ==
    /\ handler[c].at = "Hello"
    /\ RegisterBoot(Session[c].worker, Session[c].boot)
    /\ Goto(c, "summary")
    /\ KeepServing

SendSummary(c) ==
    /\ handler[c].at = "summary"
    /\ Answer(c, [kind |-> "summary", auth |-> Summary])
    /\ Goto(c, "test")
    /\ UNCHANGED <<vars, peer, request>>
    /\ KeepCounts

(* decode_publish_payload validates the record it has read. *)
Undecodable(c) ==
    \/ handler[c].at = "Malformed"
    \/ handler[c].at = "Publish" /\ ~ ValidRecord(handler[c].frame.data)

(* Fault: a payload that does not decode is dropped without an answer. *)
MalformedDropped(c) ==
    /\ Undecodable(c)
    /\ Goto(c, "malformed")
    /\ UNCHANGED <<vars, peer, request, reply>>
    /\ KeepCounts

(* A payload that does not decode is answered first and counted afterwards. *)
Malformed(c) ==
    /\ Undecodable(c)
    /\ Answer(c, [kind |-> "err"])
    /\ Goto(c, "malformed")
    /\ UNCHANGED <<vars, peer, request>>
    /\ KeepCounts

CountMalformed(c) ==
    /\ handler[c].at = "malformed"
    /\ rejected' = rejected + 1
    /\ Goto(c, "test")
    /\ UNCHANGED <<vars, clientVars, main, stopping, accepted, histVars>>

(* publish(d, c): the record is validated again, the claim evaluated, the     *)
(* record inserted, as in ProvenanceStore.                                    *)
PublishBegin(c) ==
    /\ handler[c].at = "Publish"
    /\ FenceEnter(c)
    /\ calls'[c].data = handler[c].frame.data
    /\ calls'[c].claim = handler[c].frame.claim
    /\ Goto(c, "fencing")
    /\ KeepServing

PublishCompare(c) ==
    /\ handler[c].at = "fencing"
    /\ FencePass(c)
    /\ UNCHANGED handler
    /\ KeepServing

PublishRefuse(c) ==
    /\ handler[c].at = "fencing"
    /\ FenceReject(c)
    /\ Goto(c, "refused")
    /\ KeepServing

PublishCommit(c) ==
    /\ handler[c].at = "fencing"
    /\ FenceCommit(c)
    /\ Goto(c, IF records' # records THEN "published" ELSE "refused")
    /\ KeepServing

(* Fault: every publish that reached the store is counted as accepted. *)
CountAlwaysAccepted(c) ==
    /\ handler[c].at \in {"published", "refused"}
    /\ accepted' = accepted + 1
    /\ Goto(c, IF handler[c].at = "published" THEN "ok" ELSE "err")
    /\ UNCHANGED <<vars, clientVars, main, stopping, rejected, histVars>>

Count(c) ==
    /\ handler[c].at \in {"published", "refused"}
    /\ IF handler[c].at = "published"
       THEN /\ accepted' = accepted + 1
            /\ Goto(c, "ok")
            /\ UNCHANGED rejected
       ELSE /\ rejected' = rejected + 1
            /\ Goto(c, "err")
            /\ UNCHANGED accepted
    /\ UNCHANGED <<vars, clientVars, main, stopping, histVars>>

SendResult(c) ==
    /\ handler[c].at \in {"ok", "err"}
    /\ Answer(c, [kind |-> handler[c].at])
    /\ acked' = IF handler[c].at = "ok"
                THEN acked \cup {handler[c].frame.data.subject} ELSE acked
    /\ Goto(c, "test")
    /\ UNCHANGED <<vars, peer, request, main, stopping, accepted, rejected, base, durable>>

Roll(c) ==
    /\ handler[c].at = "RollEpoch"
    /\ RollEpoch
    /\ Goto(c, "done")
    /\ KeepServing

(* SetAuthority: one call of the store per dimension the payload gives, in a   *)
(* fixed order; what is done is taken out of the frame.                       *)
SetOrder == <<"StateGeneration", "ProvenanceGeneration", "DependencyGeneration",
              "ModelGeneration", "AttemptId", "PolicyGeneration">>

NextSetting(set, dim) ==
    \E i \in DOMAIN SetOrder :
        /\ SetOrder[i] = dim
        /\ dim \in DOMAIN set
        /\ \A j \in 1..(i - 1) : SetOrder[j] \notin DOMAIN set

SetOne(c) ==
    /\ handler[c].at = "SetAuthority"
    /\ LET set == handler[c].frame.set
       IN  \E dim \in DOMAIN set :
              /\ NextSetting(set, dim)
              /\ IF dim = "AttemptId"
                 THEN BeginAttempt(set[dim], set["AttemptGeneration"])
                 ELSE SetGeneration(dim, set[dim])
              /\ handler' = [handler EXCEPT ![c].frame.set =
                                [x \in DOMAIN set \ {dim} |-> set[x]]]
    /\ KeepServing

SetDone(c) ==
    /\ handler[c].at = "SetAuthority"
    /\ \A dim \in DOMAIN handler[c].frame.set : ~ NextSetting(handler[c].frame.set, dim)
    /\ Goto(c, "done")
    /\ UNCHANGED vars
    /\ KeepServing

(* Save: the snapshot is taken under the store's lock, digested and written    *)
(* without it.  covers is what had been acknowledged when it was taken.       *)
TakeSnapshot(c) ==
    /\ handler[c].at = "Save"
    /\ handler' = [handler EXCEPT ![c] =
                      [at |-> "write", frame |-> [op |-> "Save", snapshot |-> CurrentSnapshot,
                                                  covers |-> acked]]]
    /\ UNCHANGED vars
    /\ KeepServing

(* Fault: a save that finds a snapshot already on disk keeps it. *)
WriteOnce(c) ==
    /\ handler[c].at = "write"
    /\ saved' = IF saved = EmptySnapshot THEN handler[c].frame.snapshot ELSE saved
    /\ Goto(c, "saved")
    /\ UNCHANGED <<lineageVars, authority, runtimeGeneration, calls>>
    /\ KeepServing

WriteSnapshot(c) ==
    /\ handler[c].at = "write"
    /\ saved' = handler[c].frame.snapshot
    /\ Goto(c, "saved")
    /\ UNCHANGED <<lineageVars, authority, runtimeGeneration, calls>>
    /\ KeepServing

(* save_file fails, and is answered with an error.  What had been saved is     *)
(* still there, unless its rename was refused: that removes the file first.   *)
WriteFails(c) ==
    /\ handler[c].at = "write"
    /\ handler' = [handler EXCEPT ![c] = [at |-> "err", frame |-> NoFrame]]
    /\ saved' \in {saved, EmptySnapshot}
    /\ durable' = IF saved' = saved THEN durable ELSE {}
    /\ UNCHANGED <<lineageVars, authority, runtimeGeneration, calls, clientVars,
                   main, stopping, accepted, rejected, base, acked>>

SendSaved(c) ==
    /\ handler[c].at = "saved"
    /\ Answer(c, [kind |-> "saved"])
    /\ durable' = durable \cup handler[c].frame.covers
    /\ handler' = [handler EXCEPT ![c] = [at |-> "test", frame |-> NoFrame]]
    /\ UNCHANGED <<vars, peer, request, main, stopping, accepted, rejected, base, acked>>

SendDone(c) ==
    /\ handler[c].at = "done"
    /\ Answer(c, [kind |-> "done"])
    /\ Goto(c, "test")
    /\ UNCHANGED <<vars, peer, request>>
    /\ KeepCounts

(* Query: the record is found in one call of the store, its validity and the   *)
(* size read in two more.  since is what had been acknowledged before.        *)
QueryFind(c) ==
    /\ handler[c].at = "Query"
    /\ LET id == handler[c].frame.subject
       IN  IF id \in DOMAIN records
           THEN /\ handler' = [handler EXCEPT ![c] =
                      [at |-> "found", frame |-> [op |-> "Query", subject |-> id,
                                                  since |-> acked]]]
                /\ UNCHANGED reply
           ELSE /\ Answer(c, [kind |-> "absent", subject |-> id, since |-> acked])
                /\ Goto(c, "test")
    /\ UNCHANGED <<vars, peer, request>>
    /\ KeepCounts

QueryValidity(c) ==
    /\ handler[c].at = "found"
    /\ handler' = [handler EXCEPT ![c] =
                      [at |-> "weighed",
                       frame |-> And([validity |-> status[handler[c].frame.subject].validity],
                                     handler[c].frame)]]
    /\ UNCHANGED vars
    /\ KeepServing

SendQuery(c) ==
    /\ handler[c].at = "weighed"
    /\ Answer(c, And([kind |-> "present", size |-> Cardinality(DOMAIN records)],
                     handler[c].frame))
    /\ handler' = [handler EXCEPT ![c] = [at |-> "test", frame |-> NoFrame]]
    /\ UNCHANGED <<vars, peer, request>>
    /\ KeepCounts

(* Fault: the counters are taken in the wrong order. *)
StatsExchanged == [accepted |-> rejected, rejected |-> accepted, epoch |-> authority.epoch,
                   provGen |-> authority.gen["ProvenanceGeneration"],
                   size |-> Cardinality(DOMAIN records)]

(* Stats: the counters are atomic and the store is locked for each call alone; *)
(* C++ leaves the order in which arguments are evaluated open.                *)
Stats == [accepted |-> accepted, rejected |-> rejected, epoch |-> authority.epoch,
          provGen |-> authority.gen["ProvenanceGeneration"],
          size |-> Cardinality(DOMAIN records)]

StatsBegin(c) ==
    /\ handler[c].at = "Stats"
    /\ handler' = [handler EXCEPT ![c] =
                      [at |-> "reading", frame |-> [since |-> acked]]]
    /\ UNCHANGED vars
    /\ KeepServing

StatsRead(c) ==
    /\ handler[c].at = "reading"
    /\ \E item \in DOMAIN Stats \ DOMAIN handler[c].frame :
          handler' = [handler EXCEPT ![c].frame = And(@, [x \in {item} |-> Stats[x]])]
    /\ UNCHANGED vars
    /\ KeepServing

SendStats(c) ==
    /\ handler[c].at = "reading"
    /\ DOMAIN Stats \subseteq DOMAIN handler[c].frame
    /\ Answer(c, And([kind |-> "stats"], handler[c].frame))
    /\ handler' = [handler EXCEPT ![c] = [at |-> "test", frame |-> NoFrame]]
    /\ UNCHANGED <<vars, peer, request>>
    /\ KeepCounts

(* Shutdown: answered first; the thread then returns without closing the      *)
(* connection.                                                                *)
SendBye(c) ==
    /\ handler[c].at = "Shutdown"
    /\ Answer(c, [kind |-> "bye"])
    /\ Goto(c, "stop")
    /\ UNCHANGED <<vars, peer, request>>
    /\ KeepCounts

Stop(c) ==
    /\ handler[c].at = "stop"
    /\ stopping' = TRUE
    /\ Goto(c, "returned")
    /\ UNCHANGED <<vars, clientVars, main, accepted, rejected, histVars>>

HandlerStep(c) ==
    /\ main # "exited"
    /\ UNCHANGED scenario
    /\ \/ TestStopping(c) \/ Receive(c) \/ ReceiveEnd(c)
       \/ Hello(c) \/ SendSummary(c)
       \/ Malformed(c) \/ CountMalformed(c)
       \/ PublishBegin(c) \/ PublishCompare(c)
       \/ PublishRefuse(c) \/ PublishCommit(c) \/ Count(c) \/ SendResult(c)
       \/ Roll(c) \/ SetOne(c) \/ SetDone(c) \/ SendDone(c)
       \/ TakeSnapshot(c) \/ WriteSnapshot(c) \/ WriteFails(c) \/ SendSaved(c)
       \/ QueryFind(c) \/ QueryValidity(c) \/ SendQuery(c)
       \/ StatsBegin(c) \/ StatsRead(c) \/ SendStats(c)
       \/ SendBye(c) \/ Stop(c)

----------------------------------------------------------------------------
(* main *)

(* The process ends, and every connection and every thread with it. *)
Gone ==
    /\ main' = "exited"
    /\ handler' = [c \in Conns |-> IF handler[c].at = "absent" THEN handler[c]
                                   ELSE [at |-> "closed", frame |-> NoFrame]]
    /\ request' = [c \in Conns |-> NoFrame]
    /\ calls' = [t \in Threads |-> Idle]
    /\ UNCHANGED <<lineageVars, authority, runtimeGeneration, saved,
                   peer, reply, stopping, accepted, rejected, histVars>>

(* The condition of the accept loop; past the loop main returns. *)
TestMain ==
    /\ main = "test"
    /\ IF stopping
       THEN Gone
       ELSE /\ main' = "accept"
            /\ UNCHANGED <<vars, clientVars, handler, stopping, accepted, rejected, histVars>>

(* main is blocked in accept until a client connects. *)
Accept(c) ==
    /\ main = "accept"
    /\ handler[c].at = "backlog"
    /\ Goto(c, "test")
    /\ main' = "test"
    /\ UNCHANGED <<vars, clientVars, stopping, accepted, rejected, histVars>>

Crash == MayCrash /\ main # "exited" /\ Gone

(* A new coordinator process restores the snapshot file; clients that are left *)
(* have noticed that their connection is gone.                                *)
Restart ==
    /\ main = "exited"
    /\ \A c \in Conns : ~ Alive(c)
    /\ Recover
    /\ main' = "test"
    /\ stopping' = FALSE
    /\ accepted' = 0
    /\ rejected' = 0
    /\ base' = Cardinality(DOMAIN saved.records)
    /\ acked' = durable
    /\ UNCHANGED <<clientVars, handler, durable>>

CoordInit ==
    /\ Init
    /\ scenario \in Scenarios
    /\ peer = [c \in Conns |-> Absent]
    /\ request = [c \in Conns |-> NoFrame]
    /\ reply = [c \in Conns |-> NoReply]
    /\ handler = [c \in Conns |-> [at |-> "absent", frame |-> NoFrame]]
    /\ main = "test"
    /\ stopping = FALSE
    /\ accepted = 0
    /\ rejected = 0
    /\ base = 0
    /\ acked = {}
    /\ durable = {}

ClientStep(c) ==
    \/ Ask(c) \/ ReadSummary(c) \/ ReadAnswer(c) \/ Kill(c) \/ HangUp(c)

MainStep == (TestMain \/ \E c \in Conns : Accept(c)) /\ UNCHANGED scenario

CoordNext ==
    /\ \/ \E c \in WorkerConns : StartWorker(c)
       \/ \E c \in Controls : StartControl(c)
       \/ \E c \in Conns : ClientStep(c) \/ HandlerStep(c)
       \/ MainStep
       \/ Crash
       \/ Restart
    /\ UNCHANGED scenario

CoordSpec == CoordInit /\ [][CoordNext]_allVars

(* The threads of a living coordinator are scheduled; clients need not act. *)
FairCoordSpec ==
    /\ CoordSpec
    /\ WF_allVars(MainStep)
    /\ \A c \in Conns : WF_allVars(HandlerStep(c))

----------------------------------------------------------------------------
(* Properties *)

Committing(c) == handler[c].at = "fencing" /\ handler'[c].at = "published"

(* Every publish answered "ok" is in the store; after a restart, every one     *)
(* that had been answered before the snapshot of an answered save was taken,   *)
(* unless a save that failed has removed the file since.                      *)
AckedWorkIsStored == main # "exited" => acked \subseteq DOMAIN records

(* The accounting is exact: whatever threads are half way, the counter of      *)
(* accepted publishes and those a thread has yet to count are the records     *)
(* added since startup.                                                       *)
AccountingIsExact ==
    main # "exited" =>
        accepted + Cardinality({c \in Conns : handler[c].at = "published"})
            = Cardinality(DOMAIN records) - base

(* README.md, "Distributed Authority": fresh work is accepted.                *)
(* A worker whose summary still shows the current authority, and whose boot is *)
(* the registered one, is never refused as stale: what the coordinator prints, *)
(* the worker parses, claims and encodes is what evaluate_claim expects.       *)
CurrentWorkerIsNotRefused ==
    [][\A c \in WorkerConns :
          /\ handler[c].at = "fencing"
          /\ handler'[c].at = "refused"
          /\ calls[c].todo # {}
          /\ Session[c].worker \in DOMAIN authority.boot
          => \/ peer[c].known # Summary
             \/ authority.boot[Session[c].worker] # Session[c].boot]_allVars

(* authority.hpp, header: old work can never become current after a worker    *)
(* restart.  Once the process of a later boot has been greeted, no publish     *)
(* passes the comparison of boots under an earlier boot of that worker; one    *)
(* that had passed it before may still commit, for the comparisons are not     *)
(* made under the lock of the insertion (store.hpp:83-87), but not if the      *)
(* authority has stayed as it was since its call.  The process of an earlier  *)
(* boot that was killed before it had its own answer is left out: its Hello   *)
(* may still be in transit, and is served like any other.  A coordinator that  *)
(* restarts knows the boots of its file alone: nothing is said of one that     *)
(* may end.                                                                   *)
Lasts == ~ MayCrash /\ "Shutdown" \notin ControlOps

GreetedBefore(o) == \A p \in Predecessors(o) : peer[p].known # None

PassesBoot(c) ==
    /\ handler[c].at = "fencing" /\ handler'[c].at = "fencing"
    /\ "WorkerBootId" \in calls[c].todo \ calls'[c].todo

OldBootIsFenced ==
    [][Lasts =>
          \A c \in Conns : PassesBoot(c) \/ (Committing(c) /\ calls[c].steady) =>
             \A o \in WorkerConns :
                /\ Session[o].worker = calls[c].claim.worker
                /\ peer[o].known # None
                /\ GreetedBefore(o)
                => calls[c].claim.boot >= Session[o].boot]_allVars

(* What Query and Stats answer is made of several reads: it covers every       *)
(* publish acknowledged before them, on whichever connection, and never more   *)
(* than the store holds.                                                      *)
Covers(n, since) == n \in Cardinality(since)..Cardinality(DOMAIN records)

AnswersAreTrue ==
    \A c \in Conns :
        LET r == reply[c]
        IN  /\ r.kind = "absent" => r.subject \notin r.since
            /\ r.kind = "present" =>
                  /\ Covers(r.size, r.since \cup {r.subject})
                  /\ r.validity = status[r.subject].validity
            /\ r.kind = "stats" =>
                  Covers(r.size, r.since) /\ Covers(base + r.accepted, r.since)

(* A request is answered, or its connection closed, whatever the other        *)
(* threads do, a shutdown included.                                           *)
RequestsAreAnswered ==
    \A c \in Conns :
        (request[c] # NoFrame /\ Alive(c))
            ~> (reply[c] # NoReply \/ handler[c].at = "closed" \/ ~ Alive(c))

----------------------------------------------------------------------------
(* Promises the code does not keep; each is the one property of a run in which *)
(* TLC finds it violated.  CurrentWorkerIsNotRefused is one too, once the      *)
(* epoch has two decimal digits.                                              *)

(* protocol.hpp: Shutdown stops serving.  Main stays blocked in accept until  *)
(* one more client connects.                                                  *)
ShutdownEndsTheProcess == stopping ~> main = "exited"
=============================================================================
