------------------------- MODULE Coordinator_proofs -------------------------
(***************************************************************************)
(* Theorems about the coordinator, for any number of connections, any      *)
(* scenario and any interleaving of handlers, clients, crashes and         *)
(* restarts.                                                               *)
(*                                                                         *)
(* The store behind the handlers keeps StoreInv.  The rest of the          *)
(* invariant says what a handler that is half way may still rely on: the   *)
(* record it published is stored and nobody else's, the records it found   *)
(* and the numbers it read are still within what the store holds.          *)
(***************************************************************************)
EXTENDS Coordinator, ProvenanceStore_proofs, FiniteSetTheorems

(* One connection at most asks for saves.  Two saves in flight may write their *)
(* snapshots in either order, and then the older one lasts.                   *)
OneSaver == \A s \in Scenarios : "Save" \in s.ops => \A c, d \in s.controls : c = d

MaySave(c) == c \in Controls /\ "Save" \in ControlOps

SnapshotOK(snap) ==
    /\ DOMAIN snap.records \subseteq StateIds
    /\ \A s \in DOMAIN snap.records : snap.records[s] \in Candidates
    /\ DOMAIN snap.status = DOMAIN snap.records
    /\ \A s \in DOMAIN snap.status : snap.status[s] \in StatusType
    /\ AuthorityOK(snap.authority)
    /\ LineageOK(snap.records)

SettingOK(set) ==
    /\ \A dim \in DOMAIN set : set[dim] \in Generations
    /\ "AttemptId" \in DOMAIN set => "AttemptGeneration" \in DOMAIN set

Ops == {"Hello", "RollEpoch", "SetAuthority", "Save", "Query", "Stats", "Shutdown",
        "Publish", "Malformed"}

RequestInv ==
    \A c \in Conns :
        \/ request[c] = NoFrame
        \/ /\ request[c].op \in Ops
           /\ request[c].op = "Hello" => c \in WorkerConns
           /\ request[c].op = "SetAuthority" =>
                 "set" \in DOMAIN request[c] /\ SettingOK(request[c].set)
           /\ request[c].op = "Save" => MaySave(c)

(* What handler c may rely on at a place, with the frame it serves. *)
Fits(c, at, f) ==
    /\ at = "Hello" => c \in WorkerConns
    /\ at = "SetAuthority" => "set" \in DOMAIN f /\ SettingOK(f.set)
    /\ at \in {"Save", "write", "saved"} => MaySave(c)
    /\ at = "write" => SnapshotOK(f.snapshot) /\ IsFiniteSet(DOMAIN f.snapshot.records)
    /\ at \in {"published", "ok"} => f.data.subject \in DOMAIN records

(* Where one connection saves, also: what was acknowledged when a handler     *)
(* began is covered by what it has seen.                                      *)
Knows(at, f) ==
    /\ at = "published" => f.data.subject \notin acked
    /\ at = "write" => /\ f.covers \subseteq acked
                       /\ f.covers \cup durable \subseteq DOMAIN f.snapshot.records
    /\ at = "saved" => f.covers \subseteq acked \cap DOMAIN saved.records
    /\ at \in {"found", "weighed"} =>
          /\ {"since", "subject"} \subseteq DOMAIN f
          /\ f.since \cup {f.subject} \subseteq DOMAIN records
    /\ at = "weighed" => "validity" \in DOMAIN f /\ f.validity = status[f.subject].validity
    /\ at = "reading" =>
          /\ "since" \in DOMAIN f
          /\ f.since \subseteq acked
          /\ "size" \in DOMAIN f => Covers(f.size, f.since)
          /\ "accepted" \in DOMAIN f => Covers(base + f.accepted, f.since)

(* What an answer says stays true until it is read. *)
ReplyTrue(r) ==
    /\ r.kind = "absent" => r.subject \notin r.since
    /\ r.kind = "present" =>
          /\ r.since \cup {r.subject} \subseteq DOMAIN records
          /\ Covers(r.size, r.since \cup {r.subject})
          /\ r.validity = status[r.subject].validity
    /\ r.kind = "stats" =>
          Covers(r.size, r.since) /\ Covers(base + r.accepted, r.since)

CoordTypeOK ==
    /\ scenario \in Scenarios
    /\ DOMAIN peer = Conns /\ DOMAIN request = Conns
    /\ DOMAIN reply = Conns /\ DOMAIN handler = Conns
    /\ \A c \in Conns : peer[c] = [at |-> peer[c].at, known |-> peer[c].known]
    /\ \A c \in Conns : handler[c] = [at |-> handler[c].at, frame |-> handler[c].frame]
    /\ accepted \in Nat /\ base \in Nat
    /\ IsFiniteSet(DOMAIN records) /\ IsFiniteSet(DOMAIN saved.records)

(* No connection is served before it is made, none in a process that is gone, *)
(* and no answer waits for a client that is.                                  *)
ConnectionInv ==
    /\ \A c \in Conns : peer[c] = Absent => handler[c].at = "absent"
    /\ \A c \in Conns : ~ Alive(c) => reply[c] = NoReply
    /\ main = "exited" => \A c \in Conns : handler[c].at \in {"absent", "closed"}

HandlerInv ==
    \A c \in Conns :
        /\ Fits(c, handler[c].at, handler[c].frame)
        /\ handler[c].at = "fencing" => calls[c].data = handler[c].frame.data

Subject(c) == handler[c].frame.data.subject
Uncounted  == {c \in Conns : handler[c].at = "published"}

(* A subject is published once: a publish that has not been counted is for a  *)
(* subject of its own.                                                        *)
CountInv ==
    /\ IsFiniteSet(Uncounted)
    /\ main # "exited" =>
          base + accepted + Cardinality(Uncounted) = Cardinality(DOMAIN records)
    /\ \A c, d \in Conns :
          /\ handler[c].at = "published" /\ handler[d].at \in {"published", "ok"}
          /\ c # d
          => Subject(c) # Subject(d)

AckedInv ==
    /\ acked \subseteq DOMAIN records
    /\ durable \subseteq acked \cap DOMAIN saved.records
    /\ \A c \in Conns : Knows(handler[c].at, handler[c].frame) /\ ReplyTrue(reply[c])

CoordInv ==
    /\ StoreInv
    /\ CoordTypeOK
    /\ ConnectionInv
    /\ RequestInv
    /\ HandlerInv
    /\ CountInv
    /\ OneSaver => AckedInv

----------------------------------------------------------------------------
(* Counting *)

(* The store only grows while a coordinator lives, and so does what bounds    *)
(* its answers.                                                               *)
LEMMA SubsetCounts ==
    ASSUME NEW S, IsFiniteSet(S), NEW T \in SUBSET S
    PROVE  IsFiniteSet(T) /\ Cardinality(T) \in Nat /\ Cardinality(T) <= Cardinality(S)
  BY FS_Subset, FS_CardinalityType

(* A count within bounds stays so as the store grows. *)
LEMMA CoversGrows ==
    ASSUME IsFiniteSet(DOMAIN records), IsFiniteSet(DOMAIN records'),
           DOMAIN records \subseteq DOMAIN records'
    PROVE  \A n, since : Covers(n, since) => n \in Cardinality(since)..Cardinality(DOMAIN records')
<1>1. /\ Cardinality(DOMAIN records) \in Nat /\ Cardinality(DOMAIN records') \in Nat
      /\ Cardinality(DOMAIN records) <= Cardinality(DOMAIN records')
  BY FS_Subset, FS_CardinalityType
<1> QED
  BY <1>1 DEF Covers

(* Sets of connections with subjects of their own have as many subjects.      *)
LEMMA DistinctSubjects ==
    ASSUME NEW S, IsFiniteSet(S), NEW f,
           \A c, d \in S : c # d => f[c] # f[d]
    PROVE  /\ IsFiniteSet({f[c] : c \in S})
           /\ Cardinality({f[c] : c \in S}) = Cardinality(S)
<1> DEFINE g == [c \in S |-> f[c]]
           T == {f[c] : c \in S}
<1>1. g \in [S -> T] /\ \A c, d \in S : g[c] = g[d] => c = d
  OBVIOUS
<1>2. \A t \in T : \E c \in S : g[c] = t
  OBVIOUS
<1> HIDE DEF g, T
<1>3. g \in Bijection(S, T)
  BY <1>1, <1>2 DEF Bijection, Injection, Surjection, IsInjective
<1>4. IsFiniteSet(T) /\ Cardinality(T) = Cardinality(S)
  BY <1>3, FS_Bijection DEF ExistsBijection
<1> QED
  BY <1>4 DEF T

----------------------------------------------------------------------------
(* The store behind the handlers *)

(* snapshot() yields what restore accepts. *)
LEMMA SnapshotTaken ==
    ASSUME StoreInv
    PROVE  SnapshotOK(CurrentSnapshot)
<1>1. PICK known \in SUBSET Workers :
         authority \in [epoch : Nat, boot : [known -> Boots], gen : [GenDims -> Nat]]
  BY DEF StoreInv, ControlTypeOK, AuthorityOK
<1>2. CurrentSnapshot.authority
        \in [epoch : Nat, boot : [workers \cap known -> Boots], gen : [GenDims -> Nat]]
  BY <1>1 DEF CurrentSnapshot
<1>3. AuthorityOK(CurrentSnapshot.authority)
  BY <1>1, <1>2 DEF AuthorityOK
<1>4. CurrentSnapshot.records = records /\ CurrentSnapshot.status = status
  BY DEF CurrentSnapshot
<1> QED
  BY <1>3, <1>4 DEF SnapshotOK, StoreInv, LineageInv, LineageTypeOK, ValidityIndexAgrees

(* A handler writes the snapshot it took, whatever happened since. *)
LEMMA SnapshotWritten ==
    ASSUME StoreInv, NEW snap, SnapshotOK(snap), saved' = snap,
           UNCHANGED <<lineageVars, authority, runtimeGeneration, calls>>
    PROVE  StoreInv'
<1>1. LineageInv'
  BY LineageUnchanged DEF StoreInv
<1>2. SnapshotInv'
  BY DEF SnapshotInv, SnapshotTypeOK, SnapshotOK
<1>3. ControlTypeOK'
  BY DEF StoreInv, ControlTypeOK
<1> QED
  BY <1>1, <1>2, <1>3 DEF StoreInv

(* The process ends: the calls in flight are forgotten, the store stays as it *)
(* is, out of reach, until the next process restores the file.                *)
LEMMA ProcessGone ==
    ASSUME StoreInv, calls' = [t \in Threads |-> Idle],
           UNCHANGED <<lineageVars, authority, runtimeGeneration, saved>>
    PROVE  StoreInv'
<1>1. LineageInv' /\ SnapshotInv'
  BY LineageUnchanged, SnapshotUnchanged DEF StoreInv
<1>2. ControlTypeOK'
  BY DEF StoreInv, ControlTypeOK, CallType
<1> QED
  BY <1>1, <1>2 DEF StoreInv

(* The snapshot of a path where there is no file. *)
LEMMA NothingSaved == SnapshotOK(EmptySnapshot) /\ IsFiniteSet(DOMAIN EmptySnapshot.records)
<1>1. LineageOK(EmptyFunction)
  BY DEF LineageOK, EmptyFunction, WellFounded
<1>2. AuthorityOK(InitialAuthority)
  BY DEF AuthorityOK, InitialAuthority
<1>3. DOMAIN EmptyFunction = {}
  BY DEF EmptyFunction
<1> QED
  BY <1>1, <1>2, <1>3, FS_EmptySet DEF SnapshotOK, EmptySnapshot

(* The call of the store a handler makes is a step of the store. *)
LEMMA HandlersCallStore ==
    ASSUME StoreInv, CoordTypeOK, HandlerInv, NEW c \in Conns,
           \/ Hello(c) \/ PublishBegin(c) \/ PublishCompare(c) \/ PublishRefuse(c)
           \/ PublishCommit(c) \/ Roll(c) \/ SetOne(c)
    PROVE  Next
<1>1. CASE Hello(c)
  <2>1. Session[c].worker \in Workers /\ Session[c].boot \in Boots
    BY <1>1, CoordinatorAssumption DEF Hello, CoordTypeOK, HandlerInv, Fits, WorkerConns, Session
  <2> QED
    BY <1>1, <2>1 DEF Hello, Next
<1>2. CASE PublishBegin(c) \/ PublishCompare(c) \/ PublishRefuse(c) \/ PublishCommit(c)
  BY <1>2 DEF PublishBegin, PublishCompare, PublishRefuse, PublishCommit, Next, Conns
<1>3. CASE Roll(c)
  BY <1>3 DEF Roll, Next
<1>4. CASE SetOne(c)
  <2> DEFINE set == handler[c].frame.set
  <2>1. SettingOK(set)
    BY <1>4 DEF SetOne, HandlerInv, Fits
  <2>2. PICK dim \in DOMAIN set :
           IF dim = "AttemptId" THEN BeginAttempt(set[dim], set["AttemptGeneration"])
                                ELSE SetGeneration(dim, set[dim])
    BY <1>4 DEF SetOne
  <2> HIDE DEF set
  <2>3. set[dim] \in Generations
    BY <2>1 DEF SettingOK
  <2>4. CASE dim = "AttemptId"
    <3>1. set["AttemptGeneration"] \in Generations
      BY <2>1, <2>4 DEF SettingOK
    <3> QED
      BY <2>2, <2>3, <2>4, <3>1 DEF Next
  <2>5. CASE dim # "AttemptId"
    <3>1. dim \in GenDims
      BY <2>2, <2>5, StoreAssumption DEF SetGeneration
    <3> QED
      BY <2>2, <2>3, <2>5, <3>1 DEF Next
  <2> QED
    BY <2>4, <2>5
<1> QED
  BY <1>1, <1>2, <1>3, <1>4

(* The call of the store a handler makes keeps the store safe. *)
LEMMA StoreSteps ==
    ASSUME StoreInv, CoordTypeOK, HandlerInv, NEW c \in Conns,
           \/ Hello(c) \/ PublishBegin(c) \/ PublishCompare(c) \/ PublishRefuse(c)
           \/ PublishCommit(c) \/ Roll(c) \/ SetOne(c)
    PROVE  StoreInv'
  BY HandlersCallStore, NextPreserves

----------------------------------------------------------------------------
(* Steps of a handler that leave the records and the counters alone *)

(* A handler moves on with the frame it serves. *)
LEMMA GotoPlace ==
    ASSUME CoordTypeOK, NEW c \in Conns, NEW place, Goto(c, place)
    PROVE  handler' = [handler EXCEPT ![c] = [at |-> place, frame |-> handler[c].frame]]
<1>1. handler' = [handler EXCEPT ![c] = [handler[c] EXCEPT !.at = place]]
  BY DEF Goto
<1>2. handler[c] = [at |-> handler[c].at, frame |-> handler[c].frame]
  BY DEF CoordTypeOK
<1> DEFINE h == handler[c]
<1>3. [h EXCEPT !.at = place] = [at |-> place, frame |-> h.frame]
  <2> HIDE DEF h
  <2>1. h = [at |-> h.at, frame |-> h.frame]
    BY <1>2 DEF h
  <2> QED
    BY <2>1
<1> QED
  BY <1>1, <1>3

(* Such a step keeps the invariant if the handler may rely at its new place   *)
(* on what that place assumes, and what it answers is true.                   *)
LEMMA HandlerArrives ==
    ASSUME CoordInv, NEW c \in Conns, NEW at, NEW f,
           DOMAIN handler' = Conns, handler'[c] = [at |-> at, frame |-> f],
           \A d \in Conns : d # c => handler'[d] = handler[d],
           handler[c].at \notin {"absent", "published"}, at \notin {"published", "ok"},
           main # "exited",
           StoreInv',
           UNCHANGED <<records, status, saved, peer, main, accepted, histVars, scenario>>,
           \A d \in Conns : d # c => calls'[d].data = calls[d].data,
           at = "fencing" => calls'[c].data = f.data,
           Fits(c, at, f), OneSaver => Knows(at, f),
           DOMAIN request' = Conns,
           \A d \in Conns : request'[d] \in {request[d], NoFrame},
           DOMAIN reply' = Conns,
           \A d \in Conns : \/ reply'[d] \in {reply[d], NoReply}
                            \/ Alive(d) /\ (OneSaver => ReplyTrue(reply'[d]))
    PROVE  CoordInv'
<1>1. /\ DOMAIN handler' = Conns
      /\ handler'[c] = [at |-> at, frame |-> f]
      /\ \A d \in Conns : d # c => handler'[d] = handler[d]
  OBVIOUS
<1>2. handler'[c].at = at /\ handler'[c].frame = f
  BY <1>1
<1>3. CoordTypeOK'
  BY <1>1, <1>2 DEF CoordInv, CoordTypeOK, histVars
<1>4. ConnectionInv'
  <2>1. peer[c] # Absent
    BY DEF CoordInv, ConnectionInv
  <2> QED
    BY <1>1, <2>1 DEF CoordInv, ConnectionInv, Alive
<1>5. RequestInv'
  BY DEF CoordInv, RequestInv, MaySave, Controls, ControlOps, WorkerConns, Session
<1>6. HandlerInv'
  <2> SUFFICES ASSUME NEW d \in Conns
               PROVE  /\ Fits(d, handler[d].at, handler[d].frame)'
                      /\ handler'[d].at = "fencing" => calls'[d].data = handler'[d].frame.data
    BY DEF HandlerInv
  <2>1. CASE d = c
    <3>1. Fits(d, handler'[d].at, handler'[d].frame)
      BY <1>2, <2>1
    <3> QED
      BY <1>2, <2>1, <3>1 DEF Fits, MaySave, Controls, ControlOps, WorkerConns, Session
  <2>2. CASE d # c
    <3>1. Fits(d, handler'[d].at, handler'[d].frame)
      BY <1>1, <2>2 DEF CoordInv, HandlerInv
    <3> QED
      BY <1>1, <2>2, <3>1 DEF CoordInv, HandlerInv, Fits, MaySave, Controls, ControlOps,
                              WorkerConns, Session
  <2> QED
    BY <2>1, <2>2
<1>7. CountInv'
  <2>1. Uncounted' = Uncounted
    BY <1>1, <1>2 DEF Uncounted
  <2>2. \A d \in Conns : handler'[d].at \in {"published", "ok"} =>
           d # c /\ handler'[d] = handler[d]
    BY <1>1, <1>2
  <2>3. \A d, e \in Conns :
           handler'[d].at = "published" /\ handler'[e].at \in {"published", "ok"} /\ d # e
             => handler'[d].frame.data.subject # handler'[e].frame.data.subject
    BY <2>2 DEF CoordInv, CountInv, Subject
  <2> QED
    BY <2>1, <2>3 DEF CoordInv, CountInv, Subject, histVars
<1>8. ASSUME OneSaver PROVE AckedInv'
  <2>1. AckedInv
    BY <1>8 DEF CoordInv
  <2> SUFFICES ASSUME NEW d \in Conns
               PROVE  Knows(handler[d].at, handler[d].frame)' /\ ReplyTrue(reply[d])'
    BY <2>1 DEF AckedInv, histVars
  <2>2. Knows(handler[d].at, handler[d].frame)'
    <3>1. Knows(handler'[d].at, handler'[d].frame)
      BY <1>1, <1>2, <1>8, <2>1 DEF AckedInv
    <3> QED
      BY <3>1 DEF Knows, Covers, histVars
  <2>3. ReplyTrue(reply[d])'
    <3>1. ReplyTrue(reply'[d])
      <4>1. ReplyTrue(NoReply)
        BY DEF ReplyTrue, NoReply
      <4> QED
        BY <1>8, <2>1, <4>1 DEF AckedInv
    <3> QED
      BY <3>1 DEF ReplyTrue, Covers, histVars
  <2> QED
    BY <2>2, <2>3
<1> QED
  BY <1>3, <1>4, <1>5, <1>6, <1>7, <1>8 DEF CoordInv

(* The same for a step that writes the handler's place and frame. *)
LEMMA HandlerMoves ==
    ASSUME CoordInv, NEW c \in Conns, NEW at, NEW f,
           handler' = [handler EXCEPT ![c] = [at |-> at, frame |-> f]],
           handler[c].at \notin {"absent", "published"}, at \notin {"published", "ok"},
           main # "exited",
           StoreInv',
           UNCHANGED <<records, status, saved, peer, main, accepted, histVars, scenario>>,
           \A d \in Conns : d # c => calls'[d].data = calls[d].data,
           at = "fencing" => calls'[c].data = f.data,
           Fits(c, at, f), OneSaver => Knows(at, f),
           DOMAIN request' = Conns,
           \A d \in Conns : request'[d] \in {request[d], NoFrame},
           DOMAIN reply' = Conns,
           \A d \in Conns : \/ reply'[d] \in {reply[d], NoReply}
                            \/ Alive(d) /\ (OneSaver => ReplyTrue(reply'[d]))
    PROVE  CoordInv'
<1>1. /\ DOMAIN handler' = Conns
      /\ handler'[c] = [at |-> at, frame |-> f]
      /\ \A d \in Conns : d # c => handler'[d] = handler[d]
  BY DEF CoordInv, CoordTypeOK
<1> QED
  BY <1>1, HandlerArrives

(* The places a handler may go to whatever it has seen. *)
Neutral == {"test", "recv", "closed", "summary", "malformed", "refused", "err", "done", "stop",
            "returned", "RollEpoch", "Query", "Stats", "Shutdown", "Publish", "Malformed"}

(* Nothing is relied on at such a place. *)
LEMMA NeutralFits ==
    ASSUME NEW c, NEW at \in Neutral, NEW f
    PROVE  Fits(c, at, f) /\ Knows(at, f) /\ at \notin {"published", "ok", "fencing"}
  BY DEF Neutral, Fits, Knows

(* A step that makes no call of the store and sends nothing. *)
LEMMA HandlerAdvances ==
    ASSUME CoordInv, NEW c \in Conns, NEW at, NEW f,
           handler' = [handler EXCEPT ![c] = [at |-> at, frame |-> f]],
           handler[c].at \notin {"absent", "published"},
           at \notin {"published", "ok", "fencing"},
           Fits(c, at, f), OneSaver => Knows(at, f),
           main # "exited",
           UNCHANGED <<vars, peer, request, reply, main, accepted, histVars, scenario>>
    PROVE  CoordInv'
<1>1. StoreInv'
  BY NextPreserves DEF CoordInv
<1>2. \A d \in Conns : calls'[d].data = calls[d].data
  BY DEF vars
<1>3. UNCHANGED <<records, status, saved, peer, main, accepted, histVars, scenario>>
  BY DEF vars, lineageVars
<1>4. /\ DOMAIN request' = Conns /\ DOMAIN reply' = Conns
      /\ \A d \in Conns : request'[d] = request[d] /\ reply'[d] = reply[d]
  BY DEF CoordInv, CoordTypeOK
<1> QED
  BY <1>1, <1>2, <1>3, <1>4, HandlerMoves

(* A step that only sends an answer. *)
LEMMA HandlerAnswers ==
    ASSUME CoordInv, NEW c \in Conns, NEW at \in Neutral, NEW f,
           handler' = [handler EXCEPT ![c] = [at |-> at, frame |-> f]],
           handler[c].at \notin {"absent", "published"},
           NEW r, Answer(c, r), OneSaver => ReplyTrue(r),
           main # "exited",
           UNCHANGED <<vars, peer, request, main, accepted, histVars, scenario>>
    PROVE  CoordInv'
<1>1. StoreInv'
  BY NextPreserves DEF CoordInv
<1>2. \A d \in Conns : calls'[d].data = calls[d].data
  BY DEF vars
<1>3. UNCHANGED <<records, status, saved, peer, main, accepted, histVars, scenario>>
  BY DEF vars, lineageVars
<1>4. DOMAIN request' = Conns /\ \A d \in Conns : request'[d] = request[d]
  BY DEF CoordInv, CoordTypeOK
<1>5. /\ DOMAIN reply' = Conns
      /\ \A d \in Conns : \/ reply'[d] \in {reply[d], NoReply}
                          \/ Alive(d) /\ (OneSaver => ReplyTrue(reply'[d]))
  BY DEF Answer, CoordInv, CoordTypeOK
<1>6. Fits(c, at, f) /\ Knows(at, f) /\ at \notin {"published", "ok", "fencing"}
  BY NeutralFits
<1> QED
  BY <1>1, <1>2, <1>3, <1>4, <1>5, <1>6, HandlerMoves

(* Answers that make no claim about the store. *)
LEMMA PlainReplyTrue ==
    ASSUME NEW r, r.kind \notin {"absent", "present", "stats"}
    PROVE  ReplyTrue(r)
  BY DEF ReplyTrue

(* Steps that change neither the store nor what is on the wire. *)
LEMMA SilentSteps ==
    ASSUME CoordInv, NEW c \in Conns, main # "exited", UNCHANGED scenario,
           \/ TestStopping(c) \/ ReceiveEnd(c) \/ SetDone(c)
           \/ CountMalformed(c) \/ Stop(c)
    PROVE  CoordInv'
<1>1. PICK at \in Neutral : Goto(c, at)
  BY DEF TestStopping, ReceiveEnd, SetDone, CountMalformed, Stop, Neutral
<1>2. handler[c].at \notin {"absent", "published"}
  BY DEF TestStopping, ReceiveEnd, SetDone, CountMalformed, Stop
<1>3. UNCHANGED <<vars, peer, request, reply, main, accepted, histVars, scenario>>
  BY DEF TestStopping, ReceiveEnd, SetDone, CountMalformed, Stop,
         KeepServing, KeepCounts, clientVars
<1>4. handler' = [handler EXCEPT ![c] = [at |-> at, frame |-> handler[c].frame]]
  BY <1>1, GotoPlace DEF CoordInv
<1>5. /\ Fits(c, at, handler[c].frame) /\ Knows(at, handler[c].frame)
      /\ at \notin {"published", "ok", "fencing"}
  BY NeutralFits
<1> QED
  BY <1>2, <1>3, <1>4, <1>5, HandlerAdvances

(* recv hands the handler a frame, and what holds of the frame. *)
LEMMA ReceiveStep ==
    ASSUME CoordInv, NEW c \in Conns, main # "exited", UNCHANGED scenario, Receive(c)
    PROVE  CoordInv'
<1> DEFINE at == request[c].op
           f == request[c]
<1>1. /\ handler' = [handler EXCEPT ![c] = [at |-> at, frame |-> f]]
      /\ handler[c].at \notin {"absent", "published"}
      /\ UNCHANGED <<vars, peer, reply, main, accepted, histVars>>
      /\ request' = [request EXCEPT ![c] = NoFrame]
  BY DEF Receive, KeepCounts
<1>2. /\ at \in Ops
      /\ at = "Hello" => c \in WorkerConns
      /\ at = "SetAuthority" => "set" \in DOMAIN f /\ SettingOK(f.set)
      /\ at = "Save" => MaySave(c)
  BY DEF Receive, CoordInv, RequestInv
<1> HIDE DEF at, f
<1>3. Fits(c, at, f) /\ Knows(at, f) /\ at \notin {"published", "ok", "fencing"}
  BY <1>2 DEF Fits, Knows, Ops
<1>4. StoreInv'
  BY <1>1, NextPreserves DEF CoordInv
<1>5. \A d \in Conns : calls'[d].data = calls[d].data
  BY <1>1 DEF vars
<1>6. UNCHANGED <<records, status, saved, peer, main, accepted, histVars, scenario>>
  BY <1>1 DEF vars, lineageVars
<1>7. /\ DOMAIN request' = Conns /\ DOMAIN reply' = Conns
      /\ \A d \in Conns : request'[d] \in {request[d], NoFrame} /\ reply'[d] = reply[d]
  BY <1>1 DEF CoordInv, CoordTypeOK
<1> QED
  BY <1>1, <1>3, <1>4, <1>5, <1>6, <1>7, HandlerMoves

(* Answers that say nothing of the records. *)
LEMMA PlainAnswers ==
    ASSUME CoordInv, NEW c \in Conns, main # "exited", UNCHANGED scenario,
           SendSummary(c) \/ Malformed(c) \/ SendDone(c) \/ SendBye(c)
    PROVE  CoordInv'
<1>1. PICK at \in Neutral : Goto(c, at)
  BY DEF SendSummary, Malformed, SendDone, SendBye, Neutral
<1>2. handler[c].at \notin {"absent", "published"}
  BY DEF SendSummary, Malformed, Undecodable, SendDone, SendBye
<1>3. UNCHANGED <<vars, peer, request, main, accepted, histVars, scenario>>
  BY DEF SendSummary, Malformed, SendDone, SendBye, KeepCounts
<1>4. handler' = [handler EXCEPT ![c] = [at |-> at, frame |-> handler[c].frame]]
  BY <1>1, GotoPlace DEF CoordInv
<1>5. \E r : Answer(c, r) /\ r.kind \notin {"absent", "present", "stats"}
  <2>1. CASE SendSummary(c)
    BY <2>1 DEF SendSummary
  <2>2. CASE Malformed(c)
    BY <2>2 DEF Malformed
  <2>3. CASE SendDone(c)
    BY <2>3 DEF SendDone
  <2>4. CASE SendBye(c)
    BY <2>4 DEF SendBye
  <2> QED
    BY <2>1, <2>2, <2>3, <2>4
<1>6. PICK r : Answer(c, r) /\ r.kind \notin {"absent", "present", "stats"}
  BY <1>5
<1>7. ReplyTrue(r)
  BY <1>6, PlainReplyTrue
<1> QED
  BY <1>2, <1>3, <1>4, <1>6, <1>7, HandlerAnswers

(* A change of the authority disturbs the calls in flight, and no record and  *)
(* no claim they carry.                                                       *)
LEMMA CallsKeepData ==
    ASSUME ControlTypeOK, NEW new, ChangeAuthority(new)
    PROVE  \A d \in Conns : /\ calls'[d].data = calls[d].data /\ calls'[d].claim = calls[d].claim
                            /\ calls'[d].todo = calls[d].todo
<1> SUFFICES ASSUME NEW d \in Conns
             PROVE  /\ calls'[d].data = calls[d].data /\ calls'[d].claim = calls[d].claim
                    /\ calls'[d].todo = calls[d].todo
  OBVIOUS
<1>1. calls[d] \in CallType /\ calls'[d] = Disturbed(calls[d])
  BY DEF ControlTypeOK, ChangeAuthority, Conns
<1>2. CASE calls[d] = Idle
  BY <1>1, <1>2 DEF Disturbed, Idle
<1>3. CASE calls[d] # Idle
  BY <1>1, <1>3 DEF Disturbed, CallType
<1> QED
  BY <1>2, <1>3

(* Hello, RollEpoch and SetAuthority change the authority alone. *)
LEMMA AuthoritySteps ==
    ASSUME CoordInv, NEW c \in Conns, main # "exited", UNCHANGED scenario,
           Hello(c) \/ Roll(c) \/ SetOne(c)
    PROVE  CoordInv'
<1>1. StoreInv'
  BY StoreSteps DEF CoordInv
<1>2. PICK new : ChangeAuthority(new)
  BY DEF Hello, Roll, SetOne, RegisterBoot, RollEpoch, BeginAttempt, SetGeneration
<1>3. \A d \in Conns : calls'[d].data = calls[d].data
  BY <1>2, CallsKeepData DEF CoordInv, StoreInv
<1>4. UNCHANGED <<records, status, saved, peer, request, reply, main, accepted, histVars, scenario>>
  BY <1>2 DEF ChangeAuthority, lineageVars, Hello, Roll, SetOne, KeepServing, KeepCounts,
              clientVars
<1>5. \E at, f : /\ handler' = [handler EXCEPT ![c] = [at |-> at, frame |-> f]]
                 /\ Fits(c, at, f) /\ Knows(at, f)
                 /\ at \notin {"published", "ok", "fencing"}
  <2>1. CASE Hello(c) \/ Roll(c)
    <3>1. PICK at \in Neutral : Goto(c, at)
      BY <2>1 DEF Hello, Roll, Neutral
    <3>2. handler' = [handler EXCEPT ![c] = [at |-> at, frame |-> handler[c].frame]]
      BY <3>1, GotoPlace DEF CoordInv
    <3> QED
      BY <3>2, NeutralFits
  <2>2. CASE SetOne(c)
    <3> DEFINE f == handler[c].frame
               set == f.set
    <3>1. PICK dim \in DOMAIN set :
             /\ NextSetting(set, dim)
             /\ handler' = [handler EXCEPT ![c].frame.set = [x \in DOMAIN set \ {dim} |-> set[x]]]
      BY <2>2 DEF SetOne
    <3> DEFINE rest == [x \in DOMAIN set \ {dim} |-> set[x]]
               frame == [f EXCEPT !.set = rest]
    <3>2. handler' = [handler EXCEPT ![c] = [handler[c] EXCEPT !.frame = frame]]
      BY <3>1
    <3>3. [handler[c] EXCEPT !.frame = frame] = [at |-> "SetAuthority", frame |-> frame]
      <4>1. handler[c] = [at |-> "SetAuthority", frame |-> handler[c].frame]
        BY <2>2 DEF SetOne, CoordInv, CoordTypeOK
      <4> HIDE DEF frame
      <4> QED
        BY <4>1
    <3>4. SettingOK(rest)
      <4>1. SettingOK(set)
        BY <2>2 DEF SetOne, CoordInv, HandlerInv, Fits
      <4>2. dim # "AttemptGeneration"
        BY <3>1 DEF NextSetting, SetOrder
      <4> HIDE DEF set
      <4> QED
        BY <4>1, <4>2 DEF SettingOK
    <3>5. frame.set = rest
      <4>1. "set" \in DOMAIN f
        BY <2>2 DEF SetOne, CoordInv, HandlerInv, Fits
      <4> QED
        BY <4>1
    <3>6. "set" \in DOMAIN frame
      BY <2>2 DEF SetOne, CoordInv, HandlerInv, Fits
    <3> HIDE DEF frame, rest
    <3>7. Fits(c, "SetAuthority", frame) /\ Knows("SetAuthority", frame)
      BY <3>4, <3>5, <3>6 DEF Fits, Knows
    <3> QED
      BY <3>2, <3>3, <3>7
  <2> QED
    BY <2>1, <2>2
<1>6. PICK at, f : /\ handler' = [handler EXCEPT ![c] = [at |-> at, frame |-> f]]
                   /\ Fits(c, at, f) /\ Knows(at, f)
                   /\ at \notin {"published", "ok", "fencing"}
  BY <1>5
<1>7. handler[c].at \notin {"absent", "published"}
  BY DEF Hello, Roll, SetOne
<1>8. /\ DOMAIN request' = Conns /\ DOMAIN reply' = Conns
      /\ \A d \in Conns : request'[d] = request[d] /\ reply'[d] = reply[d]
  BY <1>4 DEF CoordInv, CoordTypeOK
<1> QED
  BY <1>1, <1>3, <1>4, <1>6, <1>7, <1>8, HandlerMoves

(* The fence of a publish, up to where the lock is taken. *)
LEMMA FenceSteps ==
    ASSUME CoordInv, NEW c \in Conns, main # "exited", UNCHANGED scenario,
           PublishBegin(c) \/ PublishCompare(c) \/ PublishRefuse(c)
    PROVE  CoordInv'
<1>1. StoreInv'
  BY StoreSteps DEF CoordInv
<1>2. UNCHANGED <<records, status, saved, peer, request, reply, main, accepted, histVars, scenario>>
  BY DEF lineageVars, PublishBegin, PublishCompare, PublishRefuse, FenceEnter, FencePass,
         FenceReject, KeepServing, KeepCounts, clientVars
<1>3. \A d \in Conns : d # c => calls'[d].data = calls[d].data
  BY DEF PublishBegin, PublishCompare, PublishRefuse, FenceEnter, FencePass, FenceReject,
         CoordInv, StoreInv, ControlTypeOK, Conns
<1>4. handler[c].at \in {"Publish", "fencing"}
  BY DEF PublishBegin, PublishCompare, PublishRefuse
<1>5. /\ DOMAIN request' = Conns /\ DOMAIN reply' = Conns
      /\ \A d \in Conns : request'[d] = request[d] /\ reply'[d] = reply[d]
  BY <1>2 DEF CoordInv, CoordTypeOK
<1>6. \A f : Fits(c, "fencing", f) /\ Knows("fencing", f)
  BY DEF Fits, Knows
<1>7. CASE PublishBegin(c)
  <2>1. handler' = [handler EXCEPT ![c] = [at |-> "fencing", frame |-> handler[c].frame]]
    BY <1>7, GotoPlace DEF PublishBegin, CoordInv
  <2>2. calls'[c].data = handler[c].frame.data
    BY <1>7 DEF PublishBegin
  <2> QED
    BY <1>1, <1>2, <1>3, <1>4, <1>5, <1>6, <2>1, <2>2, HandlerMoves
<1>8. CASE PublishCompare(c)
  <2>1. /\ DOMAIN handler' = Conns
        /\ handler'[c] = [at |-> "fencing", frame |-> handler[c].frame]
        /\ \A d \in Conns : handler'[d] = handler[d]
    BY <1>8 DEF PublishCompare, CoordInv, CoordTypeOK
  <2>2. calls'[c].data = calls[c].data
    <3>1. PICK dim : calls' = [calls EXCEPT ![c].todo = @ \ {dim}]
      BY <1>8 DEF PublishCompare, FencePass
    <3>2. calls[c] \in CallType /\ calls[c] # Idle
      BY <1>8 DEF PublishCompare, FencePass, Idle, CoordInv, StoreInv, ControlTypeOK, Conns
    <3>3. calls'[c] = [calls[c] EXCEPT !.todo = calls[c].todo \ {dim}]
      BY <3>1 DEF CoordInv, StoreInv, ControlTypeOK, Conns
    <3> QED
      BY <3>2, <3>3 DEF CallType
  <2>3. calls'[c].data = handler[c].frame.data
    BY <1>8, <2>2 DEF PublishCompare, CoordInv, HandlerInv
  <2> QED
    BY <1>1, <1>2, <1>3, <1>4, <1>5, <1>6, <2>1, <2>3, HandlerArrives
<1>9. CASE PublishRefuse(c)
  <2>1. PICK at \in Neutral : Goto(c, at)
    BY <1>9 DEF PublishRefuse, Neutral
  <2>2. handler' = [handler EXCEPT ![c] = [at |-> at, frame |-> handler[c].frame]]
    BY <2>1, GotoPlace DEF CoordInv
  <2>3. /\ Fits(c, at, handler[c].frame) /\ Knows(at, handler[c].frame)
        /\ at \notin {"published", "ok", "fencing"}
    BY NeutralFits
  <2> QED
    BY <1>1, <1>2, <1>3, <1>4, <1>5, <2>2, <2>3, HandlerMoves
<1> QED
  BY <1>7, <1>8, <1>9

----------------------------------------------------------------------------
(* Saves, queries and statistics *)

(* A save begins: its snapshot covers what was acknowledged. *)
LEMMA SnapshotSteps ==
    ASSUME CoordInv, NEW c \in Conns, main # "exited", UNCHANGED scenario, TakeSnapshot(c)
    PROVE  CoordInv'
<1> DEFINE f == [op |-> "Save", snapshot |-> CurrentSnapshot, covers |-> acked]
<1>1. /\ handler[c].at = "Save"
      /\ handler' = [handler EXCEPT ![c] = [at |-> "write", frame |-> f]]
      /\ UNCHANGED <<vars, peer, request, reply, main, accepted, histVars>>
  BY DEF TakeSnapshot, KeepServing, KeepCounts, clientVars
<1>2. Fits(c, "write", f)
  <2>1. MaySave(c)
    BY <1>1 DEF CoordInv, HandlerInv, Fits
  <2>2. SnapshotOK(f.snapshot)
    BY SnapshotTaken DEF CoordInv
  <2>3. IsFiniteSet(DOMAIN f.snapshot.records)
    BY DEF CurrentSnapshot, CoordInv, CoordTypeOK
  <2> HIDE DEF f
  <2> QED
    BY <2>1, <2>2, <2>3 DEF Fits
<1>3. ASSUME OneSaver PROVE Knows("write", f)
  <2>1. f.covers = acked /\ DOMAIN f.snapshot.records = DOMAIN records
    BY DEF CurrentSnapshot
  <2> HIDE DEF f
  <2> QED
    BY <1>3, <2>1 DEF CoordInv, AckedInv, Knows
<1> HIDE DEF f
<1> QED
  BY <1>1, <1>2, <1>3, HandlerAdvances

(* Each publish acknowledged by the process that is running, or covered by    *)
(* the file it started from, has been counted.                                *)
LEMMA AckedCounted ==
    ASSUME CoordInv, OneSaver, main # "exited"
    PROVE  /\ Covers(Cardinality(DOMAIN records), acked)
           /\ Covers(base + accepted, acked)
<1> DEFINE subject == [c \in Conns |-> Subject(c)]
           T == {subject[c] : c \in Uncounted}
<1>1. IsFiniteSet(DOMAIN records) /\ acked \subseteq DOMAIN records
  BY DEF CoordInv, CoordTypeOK, AckedInv
<1>2. IsFiniteSet(T) /\ Cardinality(T) = Cardinality(Uncounted)
  <2>1. \A c, d \in Uncounted : c # d => subject[c] # subject[d]
    BY DEF CoordInv, CountInv, Uncounted
  <2>2. IsFiniteSet(Uncounted)
    BY DEF CoordInv, CountInv
  <2> HIDE DEF subject
  <2> QED
    BY <2>1, <2>2, DistinctSubjects
<1>3. T \subseteq DOMAIN records /\ acked \cap T = {}
  BY DEF CoordInv, HandlerInv, Fits, AckedInv, Knows, Uncounted, Subject
<1> HIDE DEF T
<1>4. /\ IsFiniteSet(DOMAIN records \ T)
      /\ Cardinality(DOMAIN records \ T) = Cardinality(DOMAIN records) - Cardinality(T)
  <2>1. DOMAIN records \cap T = T
    BY <1>3
  <2> QED
    BY <1>1, <2>1, FS_Difference
<1>5. acked \subseteq DOMAIN records \ T
  BY <1>1, <1>3
<1>6. /\ Cardinality(acked) \in Nat /\ Cardinality(DOMAIN records) \in Nat
      /\ Cardinality(acked) <= Cardinality(DOMAIN records)
      /\ Cardinality(acked) <= Cardinality(DOMAIN records \ T)
      /\ Cardinality(T) \in Nat
  BY <1>1, <1>2, <1>4, <1>5, SubsetCounts, FS_CardinalityType
<1>7. base + accepted = Cardinality(DOMAIN records) - Cardinality(T)
  BY <1>2, <1>6 DEF CoordInv, CoordTypeOK, CountInv
<1> QED
  BY <1>4, <1>6, <1>7 DEF Covers, CoordInv, CoordTypeOK

(* A set that was acknowledged before is covered by whatever covers now. *)
LEMMA CoversLess ==
    ASSUME CoordInv, OneSaver, NEW since \in SUBSET acked, NEW n, Covers(n, acked)
    PROVE  Covers(n, since)
<1>1. IsFiniteSet(acked)
  BY FS_Subset DEF CoordInv, CoordTypeOK, AckedInv
<1>2. /\ Cardinality(since) \in Nat /\ Cardinality(acked) \in Nat
      /\ Cardinality(since) <= Cardinality(acked)
  BY <1>1, SubsetCounts, FS_CardinalityType
<1>3. Cardinality(DOMAIN records) \in Nat
  BY FS_CardinalityType DEF CoordInv, CoordTypeOK
<1> QED
  BY <1>2, <1>3 DEF Covers

(* Query: the record is looked for, then its validity read, then the size. *)
LEMMA QueryFindStep ==
    ASSUME CoordInv, NEW c \in Conns, main # "exited", UNCHANGED scenario, QueryFind(c)
    PROVE  CoordInv'
<1> DEFINE id == handler[c].frame.subject
<1>1. /\ handler[c].at = "Query"
      /\ UNCHANGED <<vars, peer, request, main, accepted, histVars>>
  BY DEF QueryFind, KeepCounts
<1>2. CASE id \in DOMAIN records
  <2> DEFINE f == [op |-> "Query", subject |-> id, since |-> acked]
  <2>1. /\ handler' = [handler EXCEPT ![c] = [at |-> "found", frame |-> f]]
        /\ UNCHANGED reply
    BY <1>2 DEF QueryFind
  <2>2. Fits(c, "found", f)
    BY DEF Fits
  <2>3. ASSUME OneSaver PROVE Knows("found", f)
    <3>1. f.since = acked /\ f.subject = id /\ {"since", "subject"} \subseteq DOMAIN f
      OBVIOUS
    <3> HIDE DEF f, id
    <3> QED
      BY <1>2, <2>3, <3>1 DEF CoordInv, AckedInv, Knows
  <2> HIDE DEF f
  <2> QED
    BY <1>1, <2>1, <2>2, <2>3, HandlerAdvances
<1>3. CASE id \notin DOMAIN records
  <2> DEFINE r == [kind |-> "absent", subject |-> id, since |-> acked]
  <2>1. Answer(c, r) /\ Goto(c, "test")
    BY <1>3 DEF QueryFind
  <2>2. handler' = [handler EXCEPT ![c] = [at |-> "test", frame |-> handler[c].frame]]
    BY <2>1, GotoPlace DEF CoordInv
  <2>3. OneSaver => ReplyTrue(r)
    BY <1>3 DEF CoordInv, AckedInv, ReplyTrue
  <2>4. "test" \in Neutral
    BY DEF Neutral
  <2> HIDE DEF r
  <2> QED
    BY <1>1, <2>1, <2>2, <2>3, <2>4, HandlerAnswers
<1> QED
  BY <1>2, <1>3

(* The validity read is that of the record found. *)
LEMMA QueryValidityStep ==
    ASSUME CoordInv, NEW c \in Conns, main # "exited", UNCHANGED scenario, QueryValidity(c)
    PROVE  CoordInv'
<1> DEFINE old == handler[c].frame
           f == And([validity |-> status[old.subject].validity], old)
<1>1. /\ handler[c].at = "found"
      /\ handler' = [handler EXCEPT ![c] = [at |-> "weighed", frame |-> f]]
      /\ UNCHANGED <<vars, peer, request, reply, main, accepted, histVars>>
  BY DEF QueryValidity, KeepServing, KeepCounts, clientVars
<1>2. Fits(c, "weighed", f)
  BY DEF Fits
<1>3. ASSUME OneSaver PROVE Knows("weighed", f)
  <2>1. {"since", "subject"} \subseteq DOMAIN old /\ old.since \cup {old.subject} \subseteq DOMAIN records
    BY <1>1, <1>3 DEF CoordInv, AckedInv, Knows
  <2>2. /\ {"since", "subject", "validity"} \subseteq DOMAIN f
        /\ f.since = old.since /\ f.subject = old.subject
        /\ f.validity = status[old.subject].validity
    BY <2>1 DEF And
  <2> HIDE DEF f, old
  <2> QED
    BY <2>1, <2>2 DEF Knows
<1> HIDE DEF f
<1> QED
  BY <1>1, <1>2, <1>3, HandlerAdvances

(* A query is answered with what it has read. *)
LEMMA SendQueryStep ==
    ASSUME CoordInv, NEW c \in Conns, main # "exited", UNCHANGED scenario, SendQuery(c)
    PROVE  CoordInv'
<1> DEFINE f == handler[c].frame
           r == And([kind |-> "present", size |-> Cardinality(DOMAIN records)], f)
<1>1. /\ handler[c].at = "weighed" /\ Answer(c, r)
      /\ handler' = [handler EXCEPT ![c] = [at |-> "test", frame |-> NoFrame]]
      /\ UNCHANGED <<vars, peer, request, main, accepted, histVars>>
  BY DEF SendQuery, KeepCounts
<1>2. ASSUME OneSaver PROVE ReplyTrue(r)
  <2>1. /\ {"since", "subject", "validity"} \subseteq DOMAIN f
        /\ f.since \cup {f.subject} \subseteq DOMAIN records
        /\ f.validity = status[f.subject].validity
    BY <1>1, <1>2 DEF CoordInv, AckedInv, Knows
  <2>2. /\ r.kind = "present" /\ r.size = Cardinality(DOMAIN records)
        /\ r.since = f.since /\ r.subject = f.subject /\ r.validity = f.validity
    BY <2>1 DEF And
  <2>3. Covers(Cardinality(DOMAIN records), f.since \cup {f.subject})
    BY <2>1, SubsetCounts, FS_CardinalityType DEF Covers, CoordInv, CoordTypeOK
  <2> HIDE DEF r, f
  <2> QED
    BY <2>1, <2>2, <2>3 DEF ReplyTrue
<1>3. "test" \in Neutral
  BY DEF Neutral
<1> HIDE DEF r
<1> QED
  BY <1>1, <1>2, <1>3, HandlerAnswers

(* Stats: what it answers will cover what was acknowledged before it. *)
LEMMA StatsBeginStep ==
    ASSUME CoordInv, NEW c \in Conns, main # "exited", UNCHANGED scenario, StatsBegin(c)
    PROVE  CoordInv'
<1> DEFINE f == [since |-> acked]
<1>1. /\ handler[c].at = "Stats"
      /\ handler' = [handler EXCEPT ![c] = [at |-> "reading", frame |-> f]]
      /\ UNCHANGED <<vars, peer, request, reply, main, accepted, histVars>>
  BY DEF StatsBegin, KeepServing, KeepCounts, clientVars
<1>2. Fits(c, "reading", f) /\ Knows("reading", f)
  BY DEF Fits, Knows
<1> HIDE DEF f
<1> QED
  BY <1>1, <1>2, HandlerAdvances

(* Whichever number is read next, it covers what had been acknowledged. *)
LEMMA StatsReadStep ==
    ASSUME CoordInv, NEW c \in Conns, main # "exited", UNCHANGED scenario, StatsRead(c)
    PROVE  CoordInv'
<1> DEFINE old == handler[c].frame
<1>1. PICK item \in DOMAIN Stats \ DOMAIN old :
         handler' = [handler EXCEPT ![c].frame = And(old, [x \in {item} |-> Stats[x]])]
  BY DEF StatsRead
<1> DEFINE f == And(old, [x \in {item} |-> Stats[x]])
<1>2. /\ handler[c].at = "reading"
      /\ UNCHANGED <<vars, peer, request, reply, main, accepted, histVars>>
  BY DEF StatsRead, KeepServing, KeepCounts, clientVars
<1>3. handler' = [handler EXCEPT ![c] = [at |-> "reading", frame |-> f]]
  <2>1. handler' = [handler EXCEPT ![c] = [handler[c] EXCEPT !.frame = f]]
    BY <1>1
  <2>2. [handler[c] EXCEPT !.frame = f] = [at |-> "reading", frame |-> f]
    <3>1. handler[c] = [at |-> "reading", frame |-> handler[c].frame]
      BY <1>2 DEF CoordInv, CoordTypeOK
    <3> HIDE DEF f
    <3> QED
      BY <3>1
  <2> QED
    BY <2>1, <2>2
<1>4. Fits(c, "reading", f)
  BY DEF Fits
<1>5. ASSUME OneSaver PROVE Knows("reading", f)
  <2>1. /\ "since" \in DOMAIN old /\ old.since \subseteq acked
        /\ "size" \in DOMAIN old => Covers(old.size, old.since)
        /\ "accepted" \in DOMAIN old => Covers(base + old.accepted, old.since)
    BY <1>2, <1>5 DEF CoordInv, AckedInv, Knows
  <2>2. /\ DOMAIN f = DOMAIN old \cup {item}
        /\ \A x \in DOMAIN old : f[x] = old[x]
        /\ f[item] = Stats[item]
    BY <1>1 DEF And
  <2>3. Covers(Stats.size, old.since) /\ Covers(base + Stats.accepted, old.since)
    BY <1>5, <2>1, AckedCounted, CoversLess DEF Stats
  <2> HIDE DEF f, old
  <2>4. "since" \in DOMAIN f /\ f.since = old.since
    BY <2>1, <2>2
  <2>5. "size" \in DOMAIN f => Covers(f.size, f.since)
    BY <2>1, <2>2, <2>3, <2>4
  <2>6. "accepted" \in DOMAIN f => Covers(base + f.accepted, f.since)
    BY <2>1, <2>2, <2>3, <2>4
  <2> QED
    BY <2>1, <2>4, <2>5, <2>6 DEF Knows
<1> HIDE DEF f
<1> QED
  BY <1>2, <1>3, <1>4, <1>5, HandlerAdvances

(* Stats is answered once every number is read. *)
LEMMA SendStatsStep ==
    ASSUME CoordInv, NEW c \in Conns, main # "exited", UNCHANGED scenario, SendStats(c)
    PROVE  CoordInv'
<1> DEFINE f == handler[c].frame
           r == And([kind |-> "stats"], f)
<1>1. /\ handler[c].at = "reading" /\ Answer(c, r) /\ DOMAIN Stats \subseteq DOMAIN f
      /\ handler' = [handler EXCEPT ![c] = [at |-> "test", frame |-> NoFrame]]
      /\ UNCHANGED <<vars, peer, request, main, accepted, histVars>>
  BY DEF SendStats, KeepCounts
<1>2. ASSUME OneSaver PROVE ReplyTrue(r)
  <2>1. {"size", "accepted"} \subseteq DOMAIN f
    BY <1>1 DEF Stats
  <2>2. /\ "since" \in DOMAIN f
        /\ Covers(f.size, f.since) /\ Covers(base + f.accepted, f.since)
    BY <1>1, <1>2, <2>1 DEF CoordInv, AckedInv, Knows
  <2>3. /\ r.kind = "stats" /\ r.size = f.size /\ r.accepted = f.accepted /\ r.since = f.since
    BY <2>1, <2>2 DEF And
  <2> HIDE DEF r, f
  <2> QED
    BY <2>2, <2>3 DEF ReplyTrue
<1>3. "test" \in Neutral
  BY DEF Neutral
<1> HIDE DEF r
<1> QED
  BY <1>1, <1>2, <1>3, HandlerAnswers

----------------------------------------------------------------------------
(* The commit of a publish, and what is counted and acknowledged after it *)

(* What is known of a store stays true of one that has grown. *)
LEMMA KnowledgeGrows ==
    ASSUME IsFiniteSet(DOMAIN records), IsFiniteSet(DOMAIN records'),
           DOMAIN records \subseteq DOMAIN records',
           \A s \in DOMAIN records : status'[s] = status[s],
           UNCHANGED <<saved, histVars>>
    PROVE  /\ \A at, f : Knows(at, f) => Knows(at, f)'
           /\ \A r : ReplyTrue(r) => ReplyTrue(r)'
<1>1. \A n, since : Covers(n, since) => Covers(n, since)'
  BY CoversGrows DEF Covers
<1>2. ASSUME NEW at, NEW f, Knows(at, f) PROVE Knows(at, f)'
  BY <1>1, <1>2 DEF Knows, histVars
<1>3. ASSUME NEW r, ReplyTrue(r) PROVE ReplyTrue(r)'
  BY <1>1, <1>3 DEF ReplyTrue, histVars
<1> QED
  BY <1>2, <1>3

(* The insertion: one record more, and one publish more to be counted. *)
LEMMA PublishCommitStep ==
    ASSUME CoordInv, NEW c \in Conns, main # "exited", UNCHANGED scenario, PublishCommit(c)
    PROVE  CoordInv'
<1> DEFINE f == handler[c].frame
           d == f.data
<1>1. StoreInv'
  BY StoreSteps DEF CoordInv
<1>2. /\ handler[c].at = "fencing" /\ calls[c].data = d /\ FenceCommit(c)
      /\ UNCHANGED <<saved, peer, request, reply, main, accepted, histVars, scenario>>
  BY DEF PublishCommit, FenceCommit, KeepServing, KeepCounts, clientVars, CoordInv, HandlerInv
<1>3. d \in Candidates /\ ValidRecord(d)
  <2>1. calls[c] \in CallType /\ calls[c] # Idle
    BY <1>2 DEF FenceCommit, Admitted, Idle, CoordInv, StoreInv, ControlTypeOK, Conns
  <2> HIDE DEF d
  <2> QED
    BY <1>2, <2>1 DEF CallType
<1>4. \A e \in Conns : e # c => calls'[e].data = calls[e].data
  BY <1>2 DEF FenceCommit, CoordInv, StoreInv, ControlTypeOK, Conns
<1>5. CASE ~ Admissible(d)
  <2>1. UNCHANGED <<records, status>>
    BY <1>2, <1>5 DEF FenceCommit, lineageVars
  <2>2. handler' = [handler EXCEPT ![c] = [at |-> "refused", frame |-> f]]
    <3>1. Goto(c, "refused")
      BY <2>1 DEF PublishCommit
    <3> QED
      BY <3>1, GotoPlace DEF CoordInv
  <2>3. Fits(c, "refused", f) /\ Knows("refused", f)
    BY DEF Fits, Knows
  <2>4. /\ DOMAIN request' = Conns /\ DOMAIN reply' = Conns
        /\ \A e \in Conns : request'[e] = request[e] /\ reply'[e] = reply[e]
    BY <1>2 DEF CoordInv, CoordTypeOK
  <2> HIDE DEF f
  <2> QED
    BY <1>1, <1>2, <1>4, <2>1, <2>2, <2>3, <2>4, HandlerMoves
<1>6. CASE Admissible(d)
  <2>1. /\ records' = With(records, d.subject, d)
        /\ status' = With(status, d.subject, InitialStatus(d))
    BY <1>2, <1>3, <1>6, InsertCompletes DEF FenceCommit, CoordInv, StoreInv
  <2>2. d.subject \notin DOMAIN records /\ DOMAIN status = DOMAIN records
    BY <1>6 DEF Admissible, CoordInv, StoreInv, LineageInv, ValidityIndexAgrees
  <2>3. /\ DOMAIN records' = DOMAIN records \cup {d.subject}
        /\ \A s \in DOMAIN records : status'[s] = status[s]
    BY <2>1, <2>2 DEF With
  <2>4. /\ IsFiniteSet(DOMAIN records) /\ IsFiniteSet(DOMAIN records')
        /\ Cardinality(DOMAIN records') = Cardinality(DOMAIN records) + 1
        /\ Cardinality(DOMAIN records) \in Nat
    <3>1. IsFiniteSet(DOMAIN records)
      BY DEF CoordInv, CoordTypeOK
    <3> QED
      BY <2>2, <2>3, <3>1, FS_AddElement, FS_CardinalityType
  <2>5. handler' = [handler EXCEPT ![c] = [at |-> "published", frame |-> f]]
    <3>1. Goto(c, "published")
      BY <2>2, <2>3 DEF PublishCommit
    <3> QED
      BY <3>1, GotoPlace DEF CoordInv
  <2>6. /\ DOMAIN handler' = Conns
        /\ handler'[c].at = "published" /\ handler'[c].frame = f
        /\ handler'[c] = [at |-> "published", frame |-> f]
        /\ \A e \in Conns : e # c => handler'[e] = handler[e]
    BY <2>5 DEF CoordInv, CoordTypeOK
  <2>7. CoordTypeOK'
    BY <1>2, <2>4, <2>6 DEF CoordInv, CoordTypeOK, histVars
  <2>8. ConnectionInv'
    BY <1>2, <2>6 DEF CoordInv, ConnectionInv, Alive
  <2>9. RequestInv'
    BY <1>2 DEF CoordInv, RequestInv, MaySave, Controls, ControlOps, WorkerConns, Session
  <2>10. HandlerInv'
    <3> SUFFICES ASSUME NEW e \in Conns
                 PROVE  /\ Fits(e, handler[e].at, handler[e].frame)'
                        /\ handler'[e].at = "fencing" => calls'[e].data = handler'[e].frame.data
      BY DEF HandlerInv
    <3>1. CASE e = c
      BY <2>3, <2>6, <3>1 DEF Fits
    <3>2. CASE e # c
      BY <1>2, <1>4, <2>3, <2>6, <3>2 DEF CoordInv, HandlerInv, Fits, MaySave, Controls,
                                          ControlOps, WorkerConns, Session
    <3> QED
      BY <3>1, <3>2
  <2>11. CountInv'
    <3>1. Uncounted' = Uncounted \cup {c} /\ c \notin Uncounted
      BY <1>2, <2>6 DEF Uncounted
    <3>2. /\ IsFiniteSet(Uncounted') /\ Cardinality(Uncounted) \in Nat
          /\ Cardinality(Uncounted') = Cardinality(Uncounted) + 1
      BY <3>1, FS_AddElement, FS_CardinalityType DEF CoordInv, CountInv
    <3>3. base' + accepted' + Cardinality(Uncounted') = Cardinality(DOMAIN records')
      <4>1. base \in Nat /\ accepted \in Nat
        BY DEF CoordInv, CoordTypeOK
      <4>2. base + accepted + Cardinality(Uncounted) = Cardinality(DOMAIN records)
        BY DEF CoordInv, CountInv
      <4>3. base' = base /\ accepted' = accepted
        BY <1>2 DEF histVars
      <4> QED
        BY <2>4, <3>2, <4>1, <4>2, <4>3
    <3>4. \A e \in Conns : e # c /\ handler[e].at \in {"published", "ok"} =>
             handler[e].frame.data.subject # d.subject
      BY <2>2 DEF CoordInv, HandlerInv, Fits
    <3>5. \A e, o \in Conns :
             handler'[e].at = "published" /\ handler'[o].at \in {"published", "ok"} /\ e # o
               => handler'[e].frame.data.subject # handler'[o].frame.data.subject
      <4> SUFFICES ASSUME NEW e \in Conns, NEW o \in Conns, handler'[e].at = "published",
                          handler'[o].at \in {"published", "ok"}, e # o
                   PROVE  handler'[e].frame.data.subject # handler'[o].frame.data.subject
        OBVIOUS
      <4>1. CASE e = c
        BY <2>6, <3>4, <4>1
      <4>2. CASE o = c
        BY <2>6, <3>4, <4>2
      <4>3. CASE e # c /\ o # c
        BY <2>6, <4>3 DEF CoordInv, CountInv, Subject
      <4> QED
        BY <4>1, <4>2, <4>3
    <3> QED
      BY <3>2, <3>3, <3>5 DEF CountInv, Subject
  <2>12. ASSUME OneSaver PROVE AckedInv'
    <3>1. AckedInv
      BY <2>12 DEF CoordInv
    <3>2. /\ \A at, g : Knows(at, g) => Knows(at, g)'
          /\ \A r : ReplyTrue(r) => ReplyTrue(r)'
      BY <1>2, <2>3, <2>4, KnowledgeGrows
    <3>3. ASSUME NEW e \in Conns PROVE Knows(handler[e].at, handler[e].frame)'
      <4>1. CASE e = c
        BY <1>2, <2>2, <2>6, <3>1, <4>1 DEF Knows, AckedInv, histVars
      <4>2. CASE e # c
        BY <2>6, <3>1, <3>2, <4>2 DEF AckedInv
      <4> QED
        BY <4>1, <4>2
    <3>4. \A e \in Conns : ReplyTrue(reply[e])'
      BY <1>2, <3>1, <3>2 DEF AckedInv
    <3> QED
      BY <1>2, <2>3, <3>1, <3>3, <3>4 DEF AckedInv, histVars
  <2> QED
    BY <1>1, <2>7, <2>8, <2>9, <2>10, <2>11, <2>12 DEF CoordInv
<1> QED
  BY <1>5, <1>6

(* The connections after a step of a handler that leaves the records alone. *)
LEMMA HandlerPlaced ==
    ASSUME CoordInv, NEW c \in Conns, NEW at, NEW f,
           handler' = [handler EXCEPT ![c] = [at |-> at, frame |-> f]],
           handler[c].at # "absent", at # "fencing", main # "exited", Fits(c, at, f),
           UNCHANGED <<records, calls, peer, request, main, scenario>>,
           DOMAIN reply' = Conns, \A d \in Conns : ~ Alive(d) => reply'[d] = NoReply
    PROVE  /\ ConnectionInv' /\ RequestInv' /\ HandlerInv'
           /\ DOMAIN handler' = Conns
           /\ handler'[c] = [at |-> at, frame |-> f]
           /\ handler'[c].at = at /\ handler'[c].frame = f
           /\ \A d \in Conns : d # c => handler'[d] = handler[d]
<1>1. /\ DOMAIN handler' = Conns
      /\ handler'[c] = [at |-> at, frame |-> f]
      /\ handler'[c].at = at /\ handler'[c].frame = f
      /\ \A d \in Conns : d # c => handler'[d] = handler[d]
  BY DEF CoordInv, CoordTypeOK
<1>2. ConnectionInv'
  BY <1>1 DEF CoordInv, ConnectionInv, Alive
<1>3. RequestInv'
  BY DEF CoordInv, RequestInv, MaySave, Controls, ControlOps, WorkerConns, Session
<1>4. \A d \in Conns : /\ Fits(d, handler'[d].at, handler'[d].frame)
                       /\ handler'[d].at = "fencing" => calls[d].data = handler'[d].frame.data
  BY <1>1 DEF CoordInv, HandlerInv
<1>5. HandlerInv'
  BY <1>4 DEF HandlerInv, Fits, MaySave, Controls, ControlOps, WorkerConns, Session
<1> QED
  BY <1>1, <1>2, <1>3, <1>5

(* A publish is counted, or the refusal of one. *)
LEMMA CountStep ==
    ASSUME CoordInv, NEW c \in Conns, main # "exited", UNCHANGED scenario, Count(c)
    PROVE  CoordInv'
<1> DEFINE f == handler[c].frame
<1>1. UNCHANGED <<vars, peer, request, reply, main, histVars>>
  BY DEF Count, clientVars
<1>2. CASE handler[c].at = "refused"
  <2>1. Goto(c, "err") /\ UNCHANGED accepted
    BY <1>2 DEF Count
  <2>2. handler' = [handler EXCEPT ![c] = [at |-> "err", frame |-> f]]
    BY <2>1, GotoPlace DEF CoordInv
  <2>3. Fits(c, "err", f) /\ Knows("err", f)
    BY DEF Fits, Knows
  <2> HIDE DEF f
  <2> QED
    BY <1>1, <1>2, <2>1, <2>2, <2>3, HandlerAdvances
<1>3. CASE handler[c].at = "published"
  <2>1. Goto(c, "ok") /\ accepted' = accepted + 1
    BY <1>3 DEF Count
  <2>2. handler' = [handler EXCEPT ![c] = [at |-> "ok", frame |-> f]]
    BY <2>1, GotoPlace DEF CoordInv
  <2>3. Fits(c, "ok", f)
    BY <1>3 DEF CoordInv, HandlerInv, Fits
  <2>4. UNCHANGED <<records, status, saved, calls, peer, request, reply, main, scenario>>
    BY <1>1 DEF vars, lineageVars
  <2>5. DOMAIN reply' = Conns /\ \A d \in Conns : ~ Alive(d) => reply'[d] = NoReply
    BY <2>4 DEF CoordInv, CoordTypeOK, ConnectionInv
  <2> HIDE DEF f
  <2>6. /\ ConnectionInv' /\ RequestInv' /\ HandlerInv'
        /\ DOMAIN handler' = Conns
        /\ handler'[c] = [at |-> "ok", frame |-> f]
        /\ handler'[c].at = "ok" /\ handler'[c].frame = f
        /\ \A d \in Conns : d # c => handler'[d] = handler[d]
    BY <1>3, <2>2, <2>3, <2>4, <2>5, HandlerPlaced
  <2>7. StoreInv'
    BY <1>1, NextPreserves DEF CoordInv
  <2>8. CoordTypeOK'
    BY <1>1, <2>1, <2>4, <2>6 DEF CoordInv, CoordTypeOK, histVars
  <2>9. CountInv'
    <3>1. Uncounted' = Uncounted \ {c} /\ c \in Uncounted
      BY <1>3, <2>6 DEF Uncounted
    <3>2. /\ IsFiniteSet(Uncounted') /\ Cardinality(Uncounted) \in Nat
          /\ Cardinality(Uncounted') = Cardinality(Uncounted) - 1
      BY <3>1, FS_RemoveElement, FS_CardinalityType DEF CoordInv, CountInv
    <3>3. base' + accepted' + Cardinality(Uncounted') = Cardinality(DOMAIN records')
      <4>1. base \in Nat /\ accepted \in Nat
        BY DEF CoordInv, CoordTypeOK
      <4>2. base + accepted + Cardinality(Uncounted) = Cardinality(DOMAIN records)
        BY DEF CoordInv, CountInv
      <4>3. base' = base /\ DOMAIN records' = DOMAIN records
        BY <1>1, <2>4 DEF histVars
      <4> QED
        BY <2>1, <3>2, <4>1, <4>2, <4>3
    <3>4. \A d, e \in Conns :
             handler'[d].at = "published" /\ handler'[e].at \in {"published", "ok"} /\ d # e
               => handler'[d].frame.data.subject # handler'[e].frame.data.subject
      <4>1. \A d \in Conns : handler'[d].at = "published" => d # c /\ handler'[d] = handler[d]
        BY <2>6
      <4> QED
        BY <1>3, <2>6, <4>1 DEF f, CoordInv, CountInv, Subject
    <3> QED
      BY <3>2, <3>3, <3>4 DEF CountInv, Subject
  <2>10. ASSUME OneSaver PROVE AckedInv'
    <3>1. AckedInv
      BY <2>10 DEF CoordInv
    <3>2. \A d \in Conns : Knows(handler'[d].at, handler'[d].frame)
      BY <2>6, <3>1 DEF AckedInv, Knows
    <3> QED
      BY <1>1, <2>4, <3>1, <3>2 DEF AckedInv, Knows, ReplyTrue, Covers, histVars
  <2> QED
    BY <2>6, <2>7, <2>8, <2>9, <2>10 DEF CoordInv
<1> QED
  BY <1>2, <1>3 DEF Count

(* An "ok" is sent for a subject no other thread has yet to count. *)
LEMMA SendResultStep ==
    ASSUME CoordInv, NEW c \in Conns, main # "exited", UNCHANGED scenario, SendResult(c)
    PROVE  CoordInv'
<1> DEFINE f == handler[c].frame
           r == [kind |-> handler[c].at]
<1>1. /\ Answer(c, r) /\ r.kind \in {"ok", "err"}
      /\ UNCHANGED <<vars, peer, request, main, accepted, base, durable>>
  BY DEF SendResult
<1>2. handler' = [handler EXCEPT ![c] = [at |-> "test", frame |-> f]]
  <2>1. Goto(c, "test")
    BY DEF SendResult
  <2> QED
    BY <2>1, GotoPlace DEF CoordInv
<1>3. Fits(c, "test", f) /\ Knows("test", f) /\ "test" \in Neutral
  BY DEF Fits, Knows, Neutral
<1>4. ReplyTrue(r)
  BY <1>1, PlainReplyTrue
<1>5. CASE handler[c].at = "err"
  <2>1. UNCHANGED histVars
    BY <1>5 DEF SendResult, histVars
  <2> HIDE DEF f, r
  <2> QED
    BY <1>1, <1>2, <1>3, <1>4, <1>5, <2>1, HandlerAnswers
<1>6. CASE handler[c].at = "ok"
  <2>1. acked' = acked \cup {Subject(c)}
    BY <1>6 DEF SendResult, Subject
  <2>2. UNCHANGED <<records, status, saved, calls, peer, request, main, scenario>>
    BY <1>1 DEF vars, lineageVars
  <2>3. /\ DOMAIN reply' = Conns /\ \A d \in Conns : ~ Alive(d) => reply'[d] = NoReply
        /\ \A d \in Conns : reply'[d] \in {reply[d], NoReply, r}
    BY <1>1 DEF Answer, CoordInv, CoordTypeOK, ConnectionInv
  <2> HIDE DEF f, r
  <2>4. /\ ConnectionInv' /\ RequestInv' /\ HandlerInv'
        /\ DOMAIN handler' = Conns
        /\ handler'[c] = [at |-> "test", frame |-> f]
        /\ handler'[c].at = "test" /\ handler'[c].frame = f
        /\ \A d \in Conns : d # c => handler'[d] = handler[d]
    BY <1>2, <1>3, <1>6, <2>2, <2>3, HandlerPlaced
  <2>5. StoreInv'
    BY <1>1, NextPreserves DEF CoordInv
  <2>6. CoordTypeOK'
    BY <1>1, <2>2, <2>3, <2>4 DEF CoordInv, CoordTypeOK
  <2>7. CountInv'
    <3>1. Uncounted' = Uncounted
      BY <1>6, <2>4 DEF Uncounted
    <3>2. \A d \in Conns : handler'[d].at \in {"published", "ok"} =>
             d # c /\ handler'[d] = handler[d]
      BY <2>4
    <3>3. \A d, e \in Conns :
             handler'[d].at = "published" /\ handler'[e].at \in {"published", "ok"} /\ d # e
               => handler'[d].frame.data.subject # handler'[e].frame.data.subject
      BY <3>2 DEF CoordInv, CountInv, Subject
    <3> QED
      BY <1>1, <2>2, <3>1, <3>3 DEF CoordInv, CountInv, Subject
  <2>8. ASSUME OneSaver PROVE AckedInv'
    <3>1. AckedInv
      BY <2>8 DEF CoordInv
    <3>2. Subject(c) \in DOMAIN records
      BY <1>6 DEF CoordInv, HandlerInv, Fits, Subject
    <3>3. ASSUME NEW d \in Conns PROVE Knows(handler[d].at, handler[d].frame)'
      <4>1. CASE d = c
        BY <2>4, <4>1 DEF Knows
      <4>2. CASE d # c
        <5>1. handler[d].at = "published" => handler[d].frame.data.subject # Subject(c)
          BY <1>6, <4>2 DEF CoordInv, CountInv, Subject
        <5>2. Knows(handler'[d].at, handler'[d].frame) /\ handler'[d] = handler[d]
          BY <2>4, <3>1, <4>2 DEF AckedInv
        <5> QED
          BY <1>1, <2>1, <2>2, <5>1, <5>2 DEF Knows, Covers
      <4> QED
        BY <4>1, <4>2
    <3>4. \A d \in Conns : ReplyTrue(reply[d])'
      <4>1. ReplyTrue(NoReply)
        BY DEF ReplyTrue, NoReply
      <4>2. \A d \in Conns : ReplyTrue(reply'[d])
        BY <1>4, <2>3, <3>1, <4>1 DEF AckedInv
      <4> QED
        BY <1>1, <2>2, <4>2 DEF ReplyTrue, Covers
    <3> QED
      BY <1>1, <2>1, <2>2, <3>1, <3>2, <3>3, <3>4 DEF AckedInv
  <2> QED
    BY <2>4, <2>5, <2>6, <2>7, <2>8 DEF CoordInv
<1> QED
  BY <1>5, <1>6 DEF SendResult

(* The one save in flight, if one connection saves. *)
LEMMA OneSave ==
    ASSUME CoordTypeOK, HandlerInv, OneSaver, NEW c \in Conns, NEW d \in Conns,
           handler[c].at \in {"write", "saved"}, handler[d].at \in {"write", "saved"}
    PROVE  d = c
<1>1. MaySave(c) /\ MaySave(d)
  BY DEF HandlerInv, Fits
<1> QED
  BY <1>1 DEF OneSaver, MaySave, Controls, ControlOps, CoordTypeOK

(* The file is replaced by a snapshot that covers all the earlier one had to. *)
LEMMA WriteSnapshotStep ==
    ASSUME CoordInv, NEW c \in Conns, main # "exited", UNCHANGED scenario, WriteSnapshot(c)
    PROVE  CoordInv'
<1> DEFINE f == handler[c].frame
<1>1. /\ handler[c].at = "write" /\ saved' = f.snapshot
      /\ UNCHANGED <<lineageVars, authority, runtimeGeneration, calls,
                     peer, request, reply, main, accepted, histVars>>
  BY DEF WriteSnapshot, KeepServing, KeepCounts, clientVars
<1>2. handler' = [handler EXCEPT ![c] = [at |-> "saved", frame |-> f]]
  <2>1. Goto(c, "saved")
    BY DEF WriteSnapshot
  <2> QED
    BY <2>1, GotoPlace DEF CoordInv
<1>3. Fits(c, "write", f) /\ Fits(c, "saved", f)
  BY <1>1 DEF CoordInv, HandlerInv, Fits
<1>4. StoreInv'
  <2> HIDE DEF f
  <2>1. SnapshotOK(f.snapshot)
    BY <1>3 DEF Fits
  <2> QED
    BY <1>1, <2>1, SnapshotWritten DEF CoordInv
<1>5. UNCHANGED <<records, status, calls, peer, request, reply, main, accepted, histVars, scenario>>
  BY <1>1 DEF lineageVars
<1>6. DOMAIN reply' = Conns /\ \A d \in Conns : ~ Alive(d) => reply'[d] = NoReply
  BY <1>5 DEF CoordInv, CoordTypeOK, ConnectionInv
<1> HIDE DEF f
<1>7. /\ ConnectionInv' /\ RequestInv' /\ HandlerInv'
      /\ DOMAIN handler' = Conns
      /\ handler'[c] = [at |-> "saved", frame |-> f]
      /\ handler'[c].at = "saved" /\ handler'[c].frame = f
      /\ \A d \in Conns : d # c => handler'[d] = handler[d]
  BY <1>1, <1>2, <1>3, <1>5, <1>6, HandlerPlaced
<1>8. CoordTypeOK'
  BY <1>1, <1>3, <1>5, <1>7 DEF CoordInv, CoordTypeOK, Fits, histVars
<1>9. CountInv'
  <2>1. Uncounted' = Uncounted
    BY <1>1, <1>7 DEF Uncounted
  <2>2. \A d, e \in Conns :
           handler'[d].at = "published" /\ handler'[e].at \in {"published", "ok"} /\ d # e
             => handler'[d].frame.data.subject # handler'[e].frame.data.subject
    BY <1>7 DEF CoordInv, CountInv, Subject
  <2> QED
    BY <1>5, <2>1, <2>2 DEF CoordInv, CountInv, Subject, histVars
<1>10. ASSUME OneSaver PROVE AckedInv'
  <2>1. AckedInv
    BY <1>10 DEF CoordInv
  <2>2. f.covers \subseteq acked /\ f.covers \cup durable \subseteq DOMAIN saved'.records
    BY <1>1, <2>1 DEF f, AckedInv, Knows
  <2>3. ASSUME NEW d \in Conns PROVE Knows(handler[d].at, handler[d].frame)'
    <3>1. CASE d = c
      BY <1>5, <1>7, <2>2, <3>1 DEF Knows, histVars
    <3>2. CASE d # c
      <4>1. handler'[d].at # "saved"
        BY <1>1, <1>7, <1>10, <3>2, OneSave DEF CoordInv
      <4>2. Knows(handler'[d].at, handler'[d].frame)
        BY <1>7, <2>1, <3>2 DEF AckedInv
      <4> QED
        BY <1>5, <4>1, <4>2 DEF Knows, Covers, histVars
    <3> QED
      BY <3>1, <3>2
  <2>4. \A d \in Conns : ReplyTrue(reply[d])'
    BY <1>5, <2>1 DEF AckedInv, ReplyTrue, Covers, histVars
  <2> QED
    BY <1>5, <2>1, <2>2, <2>3, <2>4 DEF AckedInv, histVars
<1> QED
  BY <1>4, <1>7, <1>8, <1>9, <1>10 DEF CoordInv

(* A save that fails leaves the file as it is, or takes away with it the duty  *)
(* to survive a crash.                                                        *)
LEMMA WriteFailsStep ==
    ASSUME CoordInv, NEW c \in Conns, main # "exited", UNCHANGED scenario, WriteFails(c)
    PROVE  CoordInv'
<1>1. /\ handler[c].at = "write" /\ saved' \in {saved, EmptySnapshot}
      /\ handler' = [handler EXCEPT ![c] = [at |-> "err", frame |-> NoFrame]]
      /\ (durable' = durable /\ saved' = saved) \/ durable' = {}
      /\ UNCHANGED <<lineageVars, authority, runtimeGeneration, calls,
                     peer, request, reply, main, accepted, base, acked>>
  BY DEF WriteFails, clientVars
<1>2. Fits(c, "err", NoFrame) /\ Knows("err", NoFrame)
  BY NeutralFits DEF Neutral
<1>3. StoreInv'
  <2>1. CASE saved' = saved
    BY <1>1, <2>1, LineageUnchanged, SnapshotUnchanged DEF CoordInv, StoreInv, ControlTypeOK
  <2>2. CASE saved' = EmptySnapshot
    BY <1>1, <2>2, NothingSaved, SnapshotWritten DEF CoordInv
  <2> QED
    BY <1>1, <2>1, <2>2
<1>4. UNCHANGED <<records, status, calls, peer, request, reply, main, accepted, scenario>>
  BY <1>1 DEF lineageVars
<1>5. DOMAIN reply' = Conns /\ \A d \in Conns : ~ Alive(d) => reply'[d] = NoReply
  BY <1>4 DEF CoordInv, CoordTypeOK, ConnectionInv
<1>6. /\ ConnectionInv' /\ RequestInv' /\ HandlerInv'
      /\ DOMAIN handler' = Conns
      /\ handler'[c] = [at |-> "err", frame |-> NoFrame]
      /\ handler'[c].at = "err" /\ handler'[c].frame = NoFrame
      /\ \A d \in Conns : d # c => handler'[d] = handler[d]
  BY <1>1, <1>2, <1>4, <1>5, HandlerPlaced
<1>7. CoordTypeOK'
  <2>1. IsFiniteSet(DOMAIN saved'.records)
    BY <1>1, NothingSaved DEF CoordInv, CoordTypeOK
  <2> QED
    BY <1>1, <1>4, <1>6, <2>1 DEF CoordInv, CoordTypeOK
<1>8. CountInv'
  <2>1. Uncounted' = Uncounted
    BY <1>1, <1>6 DEF Uncounted
  <2>2. \A d, e \in Conns :
           handler'[d].at = "published" /\ handler'[e].at \in {"published", "ok"} /\ d # e
             => handler'[d].frame.data.subject # handler'[e].frame.data.subject
    BY <1>6 DEF CoordInv, CountInv, Subject
  <2> QED
    BY <1>1, <1>4, <2>1, <2>2 DEF CoordInv, CountInv, Subject
<1>9. ASSUME OneSaver PROVE AckedInv'
  <2>1. AckedInv
    BY <1>9 DEF CoordInv
  <2>2. acked' \subseteq DOMAIN records' /\ durable' \subseteq acked' \cap DOMAIN saved'.records
    <3>1. CASE durable' = durable /\ saved' = saved
      BY <1>1, <1>4, <2>1, <3>1 DEF AckedInv
    <3>2. CASE durable' = {}
      BY <1>1, <1>4, <2>1, <3>2 DEF AckedInv
    <3> QED
      BY <1>1, <3>1, <3>2
  <2>3. ASSUME NEW d \in Conns PROVE Knows(handler[d].at, handler[d].frame)'
    <3>1. CASE d = c
      BY <1>6, <3>1 DEF Knows
    <3>2. CASE d # c
      <4>1. handler'[d].at # "saved"
        BY <1>1, <1>6, <1>9, <3>2, OneSave DEF CoordInv
      <4>2. Knows(handler'[d].at, handler'[d].frame)
        BY <1>6, <2>1, <3>2 DEF AckedInv
      <4>3. durable' \subseteq durable
        BY <1>1
      <4> QED
        BY <1>1, <1>4, <4>1, <4>2, <4>3 DEF Knows, Covers
    <3> QED
      BY <3>1, <3>2
  <2>4. \A d \in Conns : ReplyTrue(reply[d])'
    BY <1>1, <1>4, <2>1 DEF AckedInv, ReplyTrue, Covers
  <2> QED
    BY <2>2, <2>3, <2>4 DEF AckedInv
<1> QED
  BY <1>3, <1>6, <1>7, <1>8, <1>9 DEF CoordInv

(* A save is answered: what its snapshot covers will survive a crash. *)
LEMMA SendSavedStep ==
    ASSUME CoordInv, NEW c \in Conns, main # "exited", UNCHANGED scenario, SendSaved(c)
    PROVE  CoordInv'
<1> DEFINE r == [kind |-> "saved"]
<1>1. /\ handler[c].at = "saved" /\ Answer(c, r)
      /\ durable' = durable \cup handler[c].frame.covers
      /\ handler' = [handler EXCEPT ![c] = [at |-> "test", frame |-> NoFrame]]
      /\ UNCHANGED <<vars, peer, request, main, accepted, base, acked>>
  BY DEF SendSaved
<1>2. ReplyTrue(r)
  BY PlainReplyTrue
<1>3. UNCHANGED <<records, status, saved, calls, peer, request, main, scenario>>
  BY <1>1 DEF vars, lineageVars
<1>4. /\ DOMAIN reply' = Conns /\ \A d \in Conns : ~ Alive(d) => reply'[d] = NoReply
      /\ \A d \in Conns : reply'[d] \in {reply[d], NoReply, r}
  BY <1>1 DEF Answer, CoordInv, CoordTypeOK, ConnectionInv
<1>5. Fits(c, "test", NoFrame)
  BY DEF Fits
<1> HIDE DEF r
<1>6. /\ ConnectionInv' /\ RequestInv' /\ HandlerInv'
      /\ DOMAIN handler' = Conns
      /\ handler'[c] = [at |-> "test", frame |-> NoFrame]
      /\ handler'[c].at = "test" /\ handler'[c].frame = NoFrame
      /\ \A d \in Conns : d # c => handler'[d] = handler[d]
  BY <1>1, <1>3, <1>4, <1>5, HandlerPlaced
<1>7. StoreInv'
  BY <1>1, NextPreserves DEF CoordInv
<1>8. CoordTypeOK'
  BY <1>1, <1>3, <1>4, <1>6 DEF CoordInv, CoordTypeOK
<1>9. CountInv'
  <2>1. Uncounted' = Uncounted
    BY <1>1, <1>6 DEF Uncounted
  <2>2. \A d \in Conns : handler'[d].at \in {"published", "ok"} =>
           d # c /\ handler'[d] = handler[d]
    BY <1>6
  <2>3. \A d, e \in Conns :
           handler'[d].at = "published" /\ handler'[e].at \in {"published", "ok"} /\ d # e
             => handler'[d].frame.data.subject # handler'[e].frame.data.subject
    BY <2>2 DEF CoordInv, CountInv, Subject
  <2> QED
    BY <1>1, <1>3, <2>1, <2>3 DEF CoordInv, CountInv, Subject
<1>10. ASSUME OneSaver PROVE AckedInv'
  <2>1. AckedInv
    BY <1>10 DEF CoordInv
  <2>2. handler[c].frame.covers \subseteq acked \cap DOMAIN saved.records
    BY <1>1, <2>1 DEF AckedInv, Knows
  <2>3. ASSUME NEW d \in Conns PROVE Knows(handler[d].at, handler[d].frame)'
    <3>1. CASE d = c
      BY <1>6, <3>1 DEF Knows
    <3>2. CASE d # c
      <4>1. handler'[d].at # "write"
        BY <1>1, <1>6, <1>10, <3>2, OneSave DEF CoordInv
      <4>2. Knows(handler'[d].at, handler'[d].frame)
        BY <1>6, <2>1, <3>2 DEF AckedInv
      <4> QED
        BY <1>1, <1>3, <4>1, <4>2 DEF Knows, Covers
    <3> QED
      BY <3>1, <3>2
  <2>4. \A d \in Conns : ReplyTrue(reply[d])'
    <3>1. ReplyTrue(NoReply)
      BY DEF ReplyTrue, NoReply
    <3>2. \A d \in Conns : ReplyTrue(reply'[d])
      BY <1>2, <1>4, <2>1, <3>1 DEF AckedInv
    <3> QED
      BY <1>1, <1>3, <3>2 DEF ReplyTrue, Covers
  <2> QED
    BY <1>1, <1>3, <2>1, <2>2, <2>3, <2>4 DEF AckedInv
<1> QED
  BY <1>6, <1>7, <1>8, <1>9, <1>10 DEF CoordInv

----------------------------------------------------------------------------
(* Steps of the clients and of main *)

(* A step that serves no frame: connections may be made and accepted, and     *)
(* their clients may go.                                                      *)
LEMMA ClientsAct ==
    ASSUME CoordInv,
           UNCHANGED <<vars, accepted, histVars, scenario>>,
           (main' = "exited") <=> (main = "exited"),
           DOMAIN peer' = Conns, DOMAIN request' = Conns, DOMAIN reply' = Conns,
           DOMAIN handler' = Conns,
           \A c \in Conns : /\ peer'[c] = [at |-> peer'[c].at, known |-> peer'[c].known]
                            /\ handler'[c] = [at |-> handler'[c].at, frame |-> handler'[c].frame],
           \A c \in Conns :
              \/ handler'[c] = handler[c]
              \/ /\ main # "exited"
                 /\ handler[c].at \in {"absent", "backlog"} /\ handler'[c].at \in {"backlog", "test"},
           \A c \in Conns : peer'[c] = Absent => handler'[c].at = "absent",
           \A c \in Conns : ~ Alive(c)' => reply'[c] = NoReply,
           \A c \in Conns : reply'[c] \in {reply[c], NoReply},
           RequestInv'
    PROVE  CoordInv'
<1>1. StoreInv'
  BY NextPreserves DEF CoordInv
<1>2. UNCHANGED <<records, status, saved, calls, accepted, base, acked, durable, scenario>>
  BY DEF vars, lineageVars, histVars
<1>3. CoordTypeOK'
  BY <1>2 DEF CoordInv, CoordTypeOK
<1>4. ConnectionInv'
  BY DEF CoordInv, ConnectionInv
<1>5. HandlerInv'
  <2>1. \A c \in Conns : /\ Fits(c, handler'[c].at, handler'[c].frame)
                         /\ handler'[c].at = "fencing" => calls[c].data = handler'[c].frame.data
    BY DEF CoordInv, HandlerInv, Fits
  <2> QED
    BY <1>2, <2>1 DEF HandlerInv, Fits, MaySave, Controls, ControlOps, WorkerConns, Session
<1>6. CountInv'
  <2>1. Uncounted' = Uncounted
    BY DEF Uncounted
  <2>2. \A c \in Conns : handler'[c].at \in {"published", "ok"} => handler'[c] = handler[c]
    OBVIOUS
  <2>3. \A c, d \in Conns :
           handler'[c].at = "published" /\ handler'[d].at \in {"published", "ok"} /\ c # d
             => handler'[c].frame.data.subject # handler'[d].frame.data.subject
    BY <2>2 DEF CoordInv, CountInv, Subject
  <2> QED
    BY <1>2, <2>1, <2>3 DEF CoordInv, CountInv, Subject
<1>7. ASSUME OneSaver PROVE AckedInv'
  <2>1. AckedInv
    BY <1>7 DEF CoordInv
  <2>2. \A c \in Conns : Knows(handler'[c].at, handler'[c].frame)
    BY <2>1 DEF AckedInv, Knows
  <2>3. \A c \in Conns : ReplyTrue(reply'[c])
    <3>1. ReplyTrue(NoReply)
      BY DEF ReplyTrue, NoReply
    <3> QED
      BY <2>1, <3>1 DEF AckedInv
  <2> QED
    BY <1>2, <2>1, <2>2, <2>3 DEF AckedInv, Knows, ReplyTrue, Covers
<1> QED
  BY <1>1, <1>3, <1>4, <1>5, <1>6, <1>7 DEF CoordInv

(* A step after which the requests in transit are fewer, or a client's own. *)
LEMMA RequestsFit ==
    ASSUME CoordInv, UNCHANGED scenario, NEW c \in Conns,
           \A d \in Conns : d # c => request'[d] = request[d],
           \/ request'[c] \in {request[c], NoFrame}
           \/ /\ request'[c].op \in Ops
              /\ request'[c].op = "Hello" => c \in WorkerConns
              /\ request'[c].op = "SetAuthority" =>
                    "set" \in DOMAIN request'[c] /\ SettingOK(request'[c].set)
              /\ request'[c].op = "Save" => MaySave(c)
    PROVE  RequestInv'
  BY DEF CoordInv, RequestInv, MaySave, Controls, ControlOps, WorkerConns, Session

(* Every client has a connection. *)
LEMMA ConnsOfScenario ==
    ASSUME CoordTypeOK
    PROVE  WorkerConns \subseteq Conns /\ Controls \subseteq Conns
  BY CoordinatorAssumption DEF CoordTypeOK, WorkerConns, Session, Controls, Conns

(* A process connects; main has not accepted it yet. *)
LEMMA ClientStarts ==
    ASSUME CoordInv, UNCHANGED scenario,
           \/ \E c \in WorkerConns : StartWorker(c)
           \/ \E c \in Controls : StartControl(c)
    PROVE  CoordInv'
<1>1. PICK c \in Conns : \/ c \in WorkerConns /\ StartWorker(c)
                         \/ StartControl(c)
  BY ConnsOfScenario DEF CoordInv
<1>2. PICK p : /\ Connect(c, p) /\ p = [at |-> p.at, known |-> p.known]
               /\ p.at \in {"hello", "idle"}
  <2>1. CASE StartWorker(c)
    BY <2>1 DEF StartWorker
  <2>2. CASE StartControl(c)
    BY <2>2 DEF StartControl
  <2> QED
    BY <1>1, <2>1, <2>2
<1>3. /\ peer[c] = Absent /\ main # "exited" /\ handler[c].at = "absent"
      /\ peer' = [peer EXCEPT ![c] = p]
      /\ handler' = [handler EXCEPT ![c] = [at |-> "backlog", frame |-> NoFrame]]
  BY <1>2 DEF Connect, CoordInv, ConnectionInv
<1>4. UNCHANGED <<vars, reply, main, accepted, histVars>>
  BY <1>1 DEF StartWorker, StartControl
<1>5. /\ DOMAIN request' = Conns
      /\ \A d \in Conns : d # c => request'[d] = request[d]
      /\ request'[c] = request[c] \/ (c \in WorkerConns /\ request'[c] = [op |-> "Hello"])
  BY <1>1 DEF StartWorker, StartControl, CoordInv, CoordTypeOK
<1>6. RequestInv'
  BY <1>5, RequestsFit DEF Ops
<1>7. /\ DOMAIN peer' = Conns /\ DOMAIN handler' = Conns
      /\ peer'[c] = p /\ handler'[c] = [at |-> "backlog", frame |-> NoFrame]
      /\ \A d \in Conns : d # c => peer'[d] = peer[d] /\ handler'[d] = handler[d]
  BY <1>3 DEF CoordInv, CoordTypeOK
<1>8. p # Absent
  BY <1>2 DEF Absent
<1>9. /\ \A d \in Conns : peer'[d] = Absent => handler'[d].at = "absent"
      /\ \A d \in Conns : ~ Alive(d)' => reply'[d] = NoReply
  BY <1>2, <1>3, <1>4, <1>7, <1>8 DEF CoordInv, ConnectionInv, Alive, Absent
<1>10. DOMAIN reply' = Conns /\ \A d \in Conns : reply'[d] = reply[d]
  BY <1>4 DEF CoordInv, CoordTypeOK
<1>11. \A d \in Conns : /\ peer'[d] = [at |-> peer'[d].at, known |-> peer'[d].known]
                        /\ handler'[d] = [at |-> handler'[d].at, frame |-> handler'[d].frame]
  BY <1>2, <1>7 DEF CoordInv, CoordTypeOK
<1>12. \A d \in Conns : \/ handler'[d] = handler[d]
                        \/ /\ main # "exited"
                           /\ handler[d].at \in {"absent", "backlog"}
                           /\ handler'[d].at \in {"backlog", "test"}
  BY <1>3, <1>7
<1> QED
  BY <1>4, <1>5, <1>6, <1>7, <1>9, <1>10, <1>11, <1>12, ClientsAct

(* What a control client asks for is something its scenario lets it ask. *)
LEMMA FramesFit ==
    ASSUME CoordTypeOK, NEW c \in Controls, NEW f \in ControlFrames, f.op \in ControlOps
    PROVE  /\ f.op \in Ops /\ f.op # "Hello"
           /\ f.op = "SetAuthority" => "set" \in DOMAIN f /\ SettingOK(f.set)
           /\ f.op = "Save" => MaySave(c)
<1>1. \/ f.op \in {"RollEpoch", "Query", "Save", "Stats", "Shutdown", "Malformed", "Publish"}
      \/ \E s \in Settings : f = [op |-> "SetAuthority", set |-> s]
  BY DEF ControlFrames, PublishFrame
<1>2. \A s \in Settings : SettingOK(s)
  BY CoordinatorAssumption DEF SettingOK, Settings, CoordTypeOK
<1> QED
  BY <1>1, <1>2 DEF Ops, MaySave

(* A client asks, reads an answer, is killed or closes. *)
LEMMA ClientSteps ==
    ASSUME CoordInv, UNCHANGED scenario, NEW c \in Conns, ClientStep(c)
    PROVE  CoordInv'
<1>1. UNCHANGED <<vars, handler, main, accepted, histVars>>
  BY DEF ClientStep, Ask, ReadSummary, ReadAnswer, Kill, HangUp, serverVars
<1>2. peer[c] = [at |-> peer[c].at, known |-> peer[c].known]
  BY DEF CoordInv, CoordTypeOK
<1>3. peer[c] # Absent
  BY DEF ClientStep, Ask, ReadSummary, ReadAnswer, Kill, HangUp, Alive, Absent
<1>4. /\ DOMAIN peer' = Conns /\ \A d \in Conns : d # c => peer'[d] = peer[d]
      /\ peer'[c] = [at |-> peer'[c].at, known |-> peer'[c].known]
      /\ peer'[c].at # "absent"
  <2>1. CASE ReadSummary(c)
    BY <2>1 DEF ReadSummary, CoordInv, CoordTypeOK
  <2>2. CASE ~ ReadSummary(c)
    <3>1. PICK at : at # "absent" /\ peer' = [peer EXCEPT ![c].at = at]
      BY <2>2 DEF ClientStep, Ask, ReadAnswer, Kill, HangUp
    <3>2. /\ DOMAIN peer' = Conns /\ \A d \in Conns : d # c => peer'[d] = peer[d]
          /\ peer'[c] = [peer[c] EXCEPT !.at = at]
      BY <3>1 DEF CoordInv, CoordTypeOK
    <3> QED
      BY <1>2, <3>1, <3>2
  <2> QED
    BY <2>1, <2>2
<1>5. /\ DOMAIN reply' = Conns /\ \A d \in Conns : d # c => reply'[d] = reply[d]
      /\ reply'[c] \in {reply[c], NoReply}
      /\ peer'[c].at = "dead" => reply'[c] = NoReply
  BY DEF ClientStep, Ask, ReadSummary, ReadAnswer, Kill, HangUp, CoordInv, CoordTypeOK
<1>6. /\ DOMAIN request' = Conns
      /\ \A d \in Conns : d # c => request'[d] = request[d]
      /\ \/ request'[c] \in {request[c], NoFrame}
         \/ request'[c].op = "Publish"
         \/ \E f \in ControlFrames : c \in Controls /\ f.op \in ControlOps /\ request'[c] = f
  <2>1. CASE Ask(c)
    BY <2>1 DEF Ask, CoordInv, CoordTypeOK
  <2>2. CASE ReadSummary(c)
    BY <2>2 DEF ReadSummary, PublishFrame, CoordInv, CoordTypeOK
  <2>3. CASE ReadAnswer(c) \/ Kill(c) \/ HangUp(c)
    BY <2>3 DEF ReadAnswer, Kill, HangUp, CoordInv, CoordTypeOK
  <2> QED
    BY <2>1, <2>2, <2>3 DEF ClientStep
<1>7. RequestInv'
  <2>1. CASE request'[c].op = "Publish"
    BY <1>6, <2>1, RequestsFit DEF Ops
  <2>2. CASE \E f \in ControlFrames : c \in Controls /\ f.op \in ControlOps /\ request'[c] = f
    BY <1>6, <2>2, FramesFit, RequestsFit DEF CoordInv
  <2>3. CASE request'[c] \in {request[c], NoFrame}
    BY <1>6, <2>3, RequestsFit
  <2> QED
    BY <1>6, <2>1, <2>2, <2>3
<1>8. \A d \in Conns : peer'[d] = Absent => handler'[d].at = "absent"
  BY <1>1, <1>4 DEF CoordInv, ConnectionInv, Absent
<1>9. \A d \in Conns : ~ Alive(d)' => reply'[d] = NoReply
  BY <1>4, <1>5 DEF CoordInv, ConnectionInv, Alive
<1>10. /\ DOMAIN handler' = Conns /\ \A d \in Conns : handler'[d] = handler[d]
       /\ \A d \in Conns : /\ peer'[d] = [at |-> peer'[d].at, known |-> peer'[d].known]
                           /\ handler'[d] = [at |-> handler'[d].at, frame |-> handler'[d].frame]
  BY <1>1, <1>4 DEF CoordInv, CoordTypeOK
<1> QED
  BY <1>1, <1>4, <1>5, <1>6, <1>7, <1>8, <1>9, <1>10, ClientsAct

(* The process ends: no handler is left, and nothing it wrote is lost. *)
LEMMA GoneStep ==
    ASSUME CoordInv, UNCHANGED scenario, Gone
    PROVE  CoordInv'
<1>1. UNCHANGED <<records, status, saved, peer, reply, accepted, base, acked, durable, scenario>>
  BY DEF Gone, lineageVars, histVars
<1>2. /\ main' = "exited" /\ DOMAIN handler' = Conns /\ DOMAIN request' = Conns
      /\ \A c \in Conns : /\ handler'[c].at \in {"absent", "closed"}
                          /\ handler'[c] = [at |-> handler'[c].at, frame |-> handler'[c].frame]
                          /\ handler[c].at = "absent" => handler'[c].at = "absent"
                          /\ request'[c] = NoFrame
  BY DEF Gone, CoordInv, CoordTypeOK
<1>3. StoreInv'
  BY ProcessGone DEF Gone, CoordInv
<1>4. CoordTypeOK'
  BY <1>1, <1>2 DEF CoordInv, CoordTypeOK
<1>5. ConnectionInv' /\ RequestInv'
  BY <1>1, <1>2 DEF CoordInv, ConnectionInv, RequestInv, Alive
<1>6. HandlerInv'
  BY <1>2 DEF HandlerInv, Fits
<1>7. CountInv'
  <2>1. Uncounted' = {}
    BY <1>2 DEF Uncounted
  <2> QED
    BY <1>2, <2>1, FS_EmptySet DEF CountInv
<1>8. ASSUME OneSaver PROVE AckedInv'
  BY <1>1, <1>2, <1>8 DEF CoordInv, AckedInv, Knows, ReplyTrue, Covers
<1> QED
  BY <1>3, <1>4, <1>5, <1>6, <1>7, <1>8 DEF CoordInv

(* The next process starts from the file: what it holds is what counts now. *)
LEMMA RestartStep ==
    ASSUME CoordInv, UNCHANGED scenario, Restart
    PROVE  CoordInv'
<1>1. StoreInv'
  BY NextPreserves DEF CoordInv, Restart, Next
<1>2. /\ records' = saved.records /\ saved' = saved /\ accepted' = 0
      /\ base' = Cardinality(DOMAIN saved.records) /\ acked' = durable /\ durable' = durable
      /\ UNCHANGED <<peer, request, reply, handler, scenario>> /\ main' = "test"
  BY DEF Restart, Recover, clientVars
<1>3. \A c \in Conns : handler[c].at \in {"absent", "closed"} /\ reply[c] = NoReply
  BY DEF Restart, CoordInv, ConnectionInv
<1>4. IsFiniteSet(DOMAIN saved.records) /\ Cardinality(DOMAIN saved.records) \in Nat
  BY FS_CardinalityType DEF CoordInv, CoordTypeOK
<1>5. CoordTypeOK'
  BY <1>2, <1>4 DEF CoordInv, CoordTypeOK
<1>6. ConnectionInv' /\ RequestInv'
  BY <1>2 DEF CoordInv, ConnectionInv, RequestInv, Alive, MaySave, Controls, ControlOps,
              WorkerConns, Session
<1>7. HandlerInv'
  BY <1>2, <1>3 DEF HandlerInv, Fits
<1>8. CountInv'
  <2>1. Uncounted' = {}
    BY <1>2, <1>3 DEF Uncounted
  <2> QED
    BY <1>2, <1>3, <1>4, <2>1, FS_EmptySet DEF CountInv
<1>9. ASSUME OneSaver PROVE AckedInv'
  <2>1. durable \subseteq DOMAIN saved.records
    BY <1>9 DEF CoordInv, AckedInv
  <2> QED
    BY <1>2, <1>3, <2>1 DEF AckedInv, Knows, ReplyTrue, NoReply
<1> QED
  BY <1>1, <1>5, <1>6, <1>7, <1>8, <1>9 DEF CoordInv

(* main accepts a connection, or leaves its loop. *)
LEMMA MainSteps ==
    ASSUME CoordInv, MainStep
    PROVE  CoordInv'
<1>1. CASE TestMain /\ stopping
  BY <1>1, GoneStep DEF MainStep, TestMain
<1>2. ASSUME NEW c \in Conns, Accept(c) PROVE CoordInv'
  <2>1. /\ handler' = [handler EXCEPT ![c] = [at |-> "test", frame |-> handler[c].frame]]
        /\ handler[c].at = "backlog" /\ main = "accept" /\ main' = "test"
        /\ UNCHANGED <<vars, peer, request, reply, accepted, histVars, scenario>>
    BY <1>2, GotoPlace DEF Accept, CoordInv, MainStep, clientVars
  <2>2. /\ DOMAIN handler' = Conns /\ \A d \in Conns : d # c => handler'[d] = handler[d]
        /\ handler'[c] = [at |-> "test", frame |-> handler[c].frame]
        /\ DOMAIN peer' = Conns /\ DOMAIN request' = Conns /\ DOMAIN reply' = Conns
        /\ \A d \in Conns : reply'[d] = reply[d]
    BY <2>1 DEF CoordInv, CoordTypeOK
  <2>3. \A d \in Conns : peer'[d] = Absent => handler'[d].at = "absent"
    BY <2>1, <2>2 DEF CoordInv, ConnectionInv
  <2>4. \A d \in Conns : ~ Alive(d)' => reply'[d] = NoReply
    BY <2>1 DEF CoordInv, ConnectionInv, Alive
  <2>5. RequestInv'
    BY <2>1 DEF CoordInv, RequestInv, MaySave, Controls, ControlOps, WorkerConns, Session
  <2>6. \A d \in Conns : /\ peer'[d] = [at |-> peer'[d].at, known |-> peer'[d].known]
                         /\ handler'[d] = [at |-> handler'[d].at, frame |-> handler'[d].frame]
    BY <2>1, <2>2 DEF CoordInv, CoordTypeOK
  <2>7. \A d \in Conns : \/ handler'[d] = handler[d]
                         \/ /\ main # "exited"
                            /\ handler[d].at \in {"absent", "backlog"}
                            /\ handler'[d].at \in {"backlog", "test"}
    BY <2>1, <2>2
  <2>8. (main' = "exited") <=> (main = "exited")
    BY <2>1
  <2> QED
    BY <2>1, <2>2, <2>3, <2>4, <2>5, <2>6, <2>7, <2>8, ClientsAct
<1>3. CASE TestMain /\ ~ stopping
  <2>1. /\ (main' = "exited") <=> (main = "exited")
        /\ UNCHANGED <<vars, peer, request, reply, handler, accepted, histVars, scenario>>
    BY <1>3 DEF TestMain, MainStep, clientVars
  <2>2. /\ DOMAIN handler' = Conns /\ DOMAIN peer' = Conns /\ DOMAIN request' = Conns
        /\ DOMAIN reply' = Conns
        /\ \A d \in Conns : handler'[d] = handler[d] /\ reply'[d] = reply[d]
        /\ \A d \in Conns : /\ peer'[d] = [at |-> peer'[d].at, known |-> peer'[d].known]
                            /\ handler'[d] = [at |-> handler'[d].at, frame |-> handler'[d].frame]
    BY <2>1 DEF CoordInv, CoordTypeOK
  <2>3. /\ \A d \in Conns : peer'[d] = Absent => handler'[d].at = "absent"
        /\ \A d \in Conns : ~ Alive(d)' => reply'[d] = NoReply
    BY <2>1 DEF CoordInv, ConnectionInv, Alive
  <2>4. RequestInv'
    BY <2>1 DEF CoordInv, RequestInv, MaySave, Controls, ControlOps, WorkerConns, Session
  <2> QED
    BY <2>1, <2>2, <2>3, <2>4, ClientsAct
<1> QED
  BY <1>1, <1>2, <1>3 DEF MainStep

(* Every step of handle_connection keeps the invariant. *)
LEMMA HandlerSteps ==
    ASSUME CoordInv, NEW c \in Conns, HandlerStep(c)
    PROVE  CoordInv'
<1>1. main # "exited" /\ UNCHANGED scenario
  BY DEF HandlerStep
<1>2. CASE \/ TestStopping(c) \/ ReceiveEnd(c) \/ SetDone(c)
           \/ CountMalformed(c) \/ Stop(c)
  BY <1>1, <1>2, SilentSteps
<1>3. CASE Receive(c)
  BY <1>1, <1>3, ReceiveStep
<1>4. CASE SendSummary(c) \/ Malformed(c) \/ SendDone(c) \/ SendBye(c)
  BY <1>1, <1>4, PlainAnswers
<1>5. CASE Hello(c) \/ Roll(c) \/ SetOne(c)
  BY <1>1, <1>5, AuthoritySteps
<1>6. CASE PublishBegin(c) \/ PublishCompare(c) \/ PublishRefuse(c)
  BY <1>1, <1>6, FenceSteps
<1>7. CASE PublishCommit(c) \/ Count(c) \/ SendResult(c)
  BY <1>1, <1>7, PublishCommitStep, CountStep, SendResultStep
<1>8. CASE TakeSnapshot(c) \/ WriteSnapshot(c) \/ WriteFails(c) \/ SendSaved(c)
  BY <1>1, <1>8, SnapshotSteps, WriteSnapshotStep, WriteFailsStep, SendSavedStep
<1>9. CASE QueryFind(c) \/ QueryValidity(c) \/ SendQuery(c)
  BY <1>1, <1>9, QueryFindStep, QueryValidityStep, SendQueryStep
<1>10. CASE StatsBegin(c) \/ StatsRead(c) \/ SendStats(c)
  BY <1>1, <1>10, StatsBeginStep, StatsReadStep, SendStatsStep
<1> QED
  BY <1>2, <1>3, <1>4, <1>5, <1>6, <1>7, <1>8, <1>9, <1>10 DEF HandlerStep

----------------------------------------------------------------------------
(* The theorems *)

(* The invariant holds when the first coordinator starts, with no client yet. *)
THEOREM CoordInitEstablishes == CoordInit => CoordInv
<1> SUFFICES ASSUME CoordInit PROVE CoordInv
  OBVIOUS
<1>1. StoreInv
  BY InitEstablishes DEF CoordInit
<1>2. DOMAIN records = {} /\ DOMAIN saved.records = {}
  BY DEF CoordInit, Init, EmptyFunction, EmptySnapshot
<1>3. /\ IsFiniteSet(DOMAIN records) /\ IsFiniteSet(DOMAIN saved.records)
      /\ Cardinality(DOMAIN records) = 0
  BY <1>2, FS_EmptySet
<1>4. /\ DOMAIN handler = Conns
      /\ \A c \in Conns : handler[c] = [at |-> "absent", frame |-> NoFrame]
      /\ \A c \in Conns : peer[c] = Absent /\ request[c] = NoFrame /\ reply[c] = NoReply
  BY DEF CoordInit
<1>5. CoordTypeOK
  BY <1>3, <1>4 DEF CoordTypeOK, CoordInit, Absent
<1>6. ConnectionInv /\ RequestInv
  BY <1>4 DEF ConnectionInv, RequestInv, CoordInit
<1>7. HandlerInv
  BY <1>4 DEF HandlerInv, Fits
<1>8. CountInv
  <2>1. Uncounted = {}
    BY <1>4 DEF Uncounted
  <2> QED
    BY <1>3, <1>4, <2>1, FS_EmptySet DEF CountInv, CoordInit
<1>9. AckedInv
  BY <1>4 DEF AckedInv, Knows, ReplyTrue, NoReply, CoordInit
<1> QED
  BY <1>1, <1>5, <1>6, <1>7, <1>8, <1>9 DEF CoordInv

(* Every step of a handler, of a client, of main, and a crash or a restart in *)
(* between, keeps it.                                                         *)
THEOREM CoordNextPreserves == CoordInv /\ [CoordNext]_allVars => CoordInv'
<1> SUFFICES ASSUME CoordInv, [CoordNext]_allVars PROVE CoordInv'
  OBVIOUS
<1>1. CASE CoordNext
  <2>1. UNCHANGED scenario
    BY <1>1 DEF CoordNext
  <2>2. CASE (\E c \in WorkerConns : StartWorker(c)) \/ (\E c \in Controls : StartControl(c))
    BY <2>1, <2>2, ClientStarts
  <2>3. ASSUME NEW c \in Conns, ClientStep(c) \/ HandlerStep(c) PROVE CoordInv'
    BY <2>1, <2>3, ClientSteps, HandlerSteps
  <2>4. CASE MainStep
    BY <2>4, MainSteps
  <2>5. CASE Crash \/ Restart
    BY <2>1, <2>5, GoneStep, RestartStep DEF Crash
  <2> QED
    BY <1>1, <2>2, <2>3, <2>4, <2>5 DEF CoordNext
<1>2. CASE UNCHANGED allVars
  <2>1. StoreInv'
    BY <1>2, NextPreserves DEF CoordInv, allVars
  <2>2. /\ UNCHANGED <<records, status, saved, calls, peer, request, reply, handler, main>>
        /\ UNCHANGED <<accepted, base, acked, durable, scenario>>
    BY <1>2 DEF allVars, vars, lineageVars, clientVars, serverVars, histVars
  <2>3. CoordTypeOK' /\ ConnectionInv' /\ RequestInv'
    BY <2>2 DEF CoordInv, CoordTypeOK, ConnectionInv, RequestInv, Alive, MaySave, Controls,
                ControlOps, WorkerConns, Session
  <2>4. HandlerInv'
    BY <2>2 DEF CoordInv, HandlerInv, Fits, MaySave, Controls, ControlOps, WorkerConns, Session
  <2>5. CountInv' /\ (OneSaver => AckedInv')
    BY <2>2 DEF CoordInv, CountInv, Uncounted, Subject, AckedInv, Knows, ReplyTrue, Covers
  <2> QED
    BY <2>1, <2>3, <2>4, <2>5 DEF CoordInv
<1> QED
  BY <1>1, <1>2

(* The invariant, in every state a coordinator and its clients reach. *)
THEOREM CoordInvariant == CoordSpec => []CoordInv
  BY CoordInitEstablishes, CoordNextPreserves, PTL DEF CoordSpec

(* Stats (tools/coordinator.cpp) can be trusted whatever the handlers are     *)
(* half way through: the accepted publishes, counted or about to be, are      *)
(* exactly the records added since startup.                                   *)
THEOREM AccountsAreExact == CoordSpec => []AccountingIsExact
<1>1. CoordInv => AccountingIsExact
  <2> SUFFICES ASSUME CoordInv, main # "exited"
               PROVE  accepted + Cardinality({c \in Conns : handler[c].at = "published"})
                         = Cardinality(DOMAIN records) - base
    BY DEF AccountingIsExact
  <2>1. base + accepted + Cardinality(Uncounted) = Cardinality(DOMAIN records)
    BY DEF CoordInv, CountInv
  <2>2. /\ base \in Nat /\ accepted \in Nat
        /\ Cardinality(Uncounted) \in Nat /\ Cardinality(DOMAIN records) \in Nat
    BY FS_CardinalityType DEF CoordInv, CoordTypeOK, CountInv
  <2> QED
    BY <2>1, <2>2 DEF Uncounted
<1> QED
  BY <1>1, CoordInvariant, PTL

(* No publish answered "ok" is lost while the coordinator lives, nor, once a  *)
(* save that covers it was answered, over crashes and restarts - provided one *)
(* connection does the saving.                                                *)
THEOREM AckedWorkStays ==
    ASSUME OneSaver
    PROVE  CoordSpec => []AckedWorkIsStored
<1>1. CoordInv => AckedWorkIsStored
  BY DEF CoordInv, AckedInv, AckedWorkIsStored
<1> QED
  BY <1>1, CoordInvariant, PTL

(* An answer to Query or Stats, put together from reads another thread may    *)
(* come between, covers what was acknowledged before it and claims nothing    *)
(* the store does not hold - under the same proviso.                          *)
THEOREM AnswersStayTrue ==
    ASSUME OneSaver
    PROVE  CoordSpec => []AnswersAreTrue
<1>1. CoordInv => AnswersAreTrue
  BY DEF CoordInv, AckedInv, AnswersAreTrue, ReplyTrue
<1> QED
  BY <1>1, CoordInvariant, PTL

=============================================================================
