# State Provenance: TLA+ models, model checking and proofs

This directory is the verification project of the State Provenance library: TLA+
modules translated from the C++ sources, TLC configurations that check them on
small instances, and theorems that TLAPS checks for every value of the constants.
Paths below are relative to the repository; `store.hpp` and the other headers are
in `include/stateprovenance/`. `PROJECT.json` maps every definition to the lines
it models and lists the runs, mutants, findings, hazards and theorems.

To check a configuration: `tlc -config MCProvenanceStore_lineage.cfg
MCProvenanceStore.tla` (the module of a configuration is the part of its name
before the first underscore). To check the proofs: `tlapm` with
each module whose name ends in `_proofs`.

## 1. The system

State Provenance records how pieces of machine-learning state (KV caches,
compiled kernels, adapters) were derived, and answers whether a piece may be
reused. It is a header-only library with a CLI and a coordinator/worker pair.

| Part | Source | State | Operations |
|---|---|---|---|
| Record | `record.hpp` | none (immutable value) | `validate_record`, `derivation_digest`, `RecordBuilder` |
| Derivation graph | `graph.hpp` | nodes, parents, children | `add_node`, `add_arc`, closures, `topological_order` |
| Invalidation | `invalidate.hpp` | none (pure) | `propagate_invalidation`, `path_to`, `chain_for` |
| Authority | `authority.hpp` | epoch, boot per worker, ten ids and generations | setters, `evaluate_claim` |
| Reuse | `compat.hpp` | none (pure) | `evaluate_reuse` |
| Store | `store.hpp` | records, graph, status overlay, indexes, authority | both `publish`, `invalidate`, setters, `check_reuse`, `snapshot`, `restore` |
| Persistence | `persist.hpp` | the snapshot file and its `.tmp` | `save_file`, `load_file`, codec |
| Protocol | `protocol.hpp` | a socket | frames, claim and publish payloads |
| Coordinator | `tools/coordinator.cpp` | one store, two counters, a stop flag, a thread per connection | the operations of `handle_connection`, startup, accept loop |
| Worker | `tools/worker.cpp` | its boot, the authority it was told | Hello, Publish |
| Control client | `tools/mp_proof.cpp` | a connection | any operation, one at a time |
| CLI | `cli/main.cpp` | one snapshot file shared by all invocations | load, change, save |

How they interact. The store owns a graph and an authority and calls
`validate_record`, `propagate_invalidation` and `evaluate_reuse` on them. A
reader/writer lock makes each operation of the store atomic, except that the fenced
`publish(data, claim)` evaluates the claim before it takes the lock. Workers and
control clients talk to the coordinator over TCP, one request at a time; each
connection has a thread that calls the store. `snapshot` copies the store under
the lock; digesting and writing the file happen without it. A restarted
coordinator, and every CLI command, loads the file and calls `restore`.

What makes each part correct, and what is hard about it:

- **Record and graph.** Identities are used once, references resolve, nothing
  cycles; arcs are drawn one by one in both directions, so a refusal half way
  leaves a partial structure. Order of publishing is arbitrary.
- **Store.** Seven derived structures are updated by different statements of
  three operations and must agree with the records. An invalidation reaches
  everything below, including what is published below later.
- **Authority.** A stale claim is refused in every dimension. The evaluation is
  unlocked and is interleaved with setters, and a restart goes back in time.
- **Persistence.** The path names one complete, recent snapshot, whoever saves or
  dies half way, and whatever the system refuses short of a rename, which the code
  answers by removing the path; a load never accepts a mixture.
- **Coordinator and workers.** What is answered "ok" is stored and counted; a
  worker that is up to date is served; a replaced process is not; requests are
  answered; a shutdown ends the process. Kills, late frames, crashes and restarts
  happen in between.
- **Codec and restore.** What is read back is what was written, in every field,
  although two functions list the fields in code of their own; a file that is cut,
  too long, cyclic or full of dangling references leaves nothing unsound behind.
- **Reuse.** A field that is set in a request constrains; a verdict never becomes
  milder while the process lives; an unsound ancestor is never hidden.
- **Command line.** A command that reports success has changed the file for good,
  and no command, killed or refused at any step, takes back what another stored. Two
  refusals defeat this: of a rename, and of the reading of a file that is sound.

## 2. Modules

| Module | Models | Role |
|---|---|---|
| `ProvenanceGraph` | `graph.hpp`, arc drawing of `insert_validated` | operators |
| `Authority` | `authority.hpp` | operators |
| `Reuse` | `compat.hpp` | operators |
| `ProvenanceStore` | `store.hpp`, `record.hpp`, `invalidate.hpp` | state machine; extends `ProvenanceGraph`, `Authority`, `Reuse` |
| `ProvenanceLedger` | what the store promises | abstract specification |
| `StoreRefinesLedger` | | refinement mapping from the store to the ledger |
| `GraphSearch` | the loops of `graph.hpp`, `invalidate.hpp` and `records_in_topo_order` | state machine of its own, compared with `ProvenanceGraph` |
| `FileLimits` | the bounds of the reader in `persist.hpp` | constants |
| `WireFormat` | `encode_snapshot`, `decode_snapshot` and what they call | operators |
| `StoreRestore` | `restore` over any file, record by record | state machine; composes `ProvenanceStore` and `GraphSearch` |
| `StoreCalls` | one call: a search, a restore, or the decoding of what was encoded | state machine; composes `StoreRestore` and `WireFormat` |
| `SnapshotFile` | `save_file`, `load_file` | state machine of its own |
| `CommandLine` | `cli/main.cpp` | state machine composed with `SnapshotFile` |
| `Coordinator` | `coordinator.cpp`, `worker.cpp`, `protocol.hpp`, `Control` | state machine composed with `ProvenanceStore` |
| `MCProvenanceStore`, `MCStoreCalls`, `MCSnapshotFile`, `MCCommandLine`, `MCCoordinator` | | small instances for TLC |
| `ProvenanceStore_proofs` | | theorems about the store |
| `Verdicts_proofs` | | theorems about verdicts, causes and the ledger |
| `StoreCalls_proofs` | | theorems about restore and the codec |
| `GraphSearch_proofs`, `SnapshotFile_proofs`, `CommandLine_proofs`, `Coordinator_proofs` | | theorems about the module of that name |
| `CoordinatorFencing_proofs` | | theorems about whom the coordinator serves |

### ProvenanceStore

Each variable is the class member of the same name; `records` maps a `StateId` to
the frozen record, `status` to its overlay. One action per public operation:
`Publish`, `Invalidate`, `RollEpoch`, `RegisterBoot`, `BeginAttempt`,
`SetGeneration` (the ten `roll_*` and `set_*_generation` functions, the dimension
a parameter), `SetRuntimeGeneration`, `SaveSnapshot`. The fenced publish is split
where the code is not atomic: `FenceEnter` validates the record, `FencePass` and
`FenceReject` are one comparison of `evaluate_claim`, in the order of the code,
and `FenceCommit` is the insertion under the lock. `Insert` draws the arcs before
it writes the indexes, and stops at a refused arc as the code does. `Recover` is
the death of the process and the restore of the last snapshot.

`CheckReuse` is `check_reuse`: the overlay, then the ancestors, then what `Evaluate`
of `Reuse` says of the record. An environment and a request are functions on the
fields they set, so "not constraining" and "missing" are absence from a domain.

A record is reduced to the fields control depends on: its identities, references,
worker, environment and validity, the keys it is indexed under, and two
Booleans for the checks of `validate_record` that look at no other field.
`calls[t].entered` and `calls[t].steady` are history for the properties.

### GraphSearch

The store's model uses closures and orders as sets; this module is the loops that
compute them, one step for each turn, so that the set-valued operators are not taken
on trust. A behaviour is one call: `ancestors` or `descendants` (`WalkPush`,
`WalkPop`), `would_create_cycle` (`CyclePop`, `CycleVisit`),
`propagate_invalidation` (`Seed`, `TakeHead`, `VisitChild`, then `path_to` as
`Back`), or Kahn's algorithm, which `topological_order` and `records_in_topo_order`
share (`TakeReady`, `Decrement`). `list` is the stack, the queue or the order, `todo`
what the inner loop has left. `Graphs` are the graphs the class can hold;
`Snapshots` are parent maps as a file may contain them, cyclic or dangling.

### WireFormat, StoreRestore and StoreCalls

`WireFormat` has two lists of fields, each translated from its own function
(`Written` from `write_record`, `write_authority` and `encode_snapshot`, `Read` from
their counterparts). Writers and readers work through whatever a list says: a reader
is a function from what is left of the payload to a value and the rest, or to
failure, and readers are put together in turn, once for each item of a counted vector,
and once for each field. A payload is a sequence of scalars; an integer that is cut is
read like one that is missing. The reader checks magic, version, enumerations, lengths
and counts, and that nothing follows. A count is written as a `u32`, so vectors of 2^32
items or more are not meant.

`StoreRestore` is a call of `restore` over a decoded file: `DecodeRefuses` (the checks
`decode_snapshot` makes on records), `Clear` (the store emptied and the file's
authority set, before anything is known of its records), `Order` (the loop of
`GraphSearch` on the parents the file names), `Throw` or `Ordered`, `InsertNext` for
each record, its answer ignored, and `Overlay`.

`StoreCalls` makes a behaviour one call of any kind: a search, a restore, or `Decode` of
one of the `Transmissions` of something `EncodeSnapshot` wrote: whole, cut at any
scalar, or followed by one more.

### SnapshotFile

Names and files are apart: a saver that has opened `path.tmp` goes on writing to
the same file after another has renamed it. A file is two blocks; save number *v*
writes *v* in both, and the length and CRC-32 checks accept a file whose blocks
agree. Actions: open, each block, refused write, rename, failed rename (which on
POSIX removes the path and tries again), failed retry, open, read and check of a load,
refused read, kill, write-back and loss of power. A direct write is one that `f.write`
hands to the system; a small snapshot stays in the stream's buffer until it is closed,
after the last test of the stream (`Modes`).

A behaviour fixes one of the `Settings`: Windows or not, how many savers the callers
let run at a time, what the system may refuse (`faulty`: a write of either mode, the
creation of the temporary file, a rename or the removal that follows it, the opening or
reading of a file that is there), and whether power may fail. A rename also fails
without any fault where it must: on Windows over an open file, anywhere when the
temporary file is gone. `Orderly` is what the properties are about: savers in turn, no
loss of power, and no write refused after the last test of the stream. All the other
refusals are orderly, so a rename may fail for any reason, and be tried again in vain,
with one saver.

### CommandLine

A process is a saver and a loader of `SnapshotFile` with a private store, which is
the set of changes made to it: `LoadStep`, then `Restore`, or `LoadFails` (the file is
absent, cannot be opened or read, or fails its checks), after which every command but
`recover` goes on with a fresh store; `ApplyFails` (`publish` refuses a subject it has,
`invalidate` one it has not), `Apply`, which opens the temporary file, or `ApplyUnsaved`,
when that cannot be created; `SaveStep` until `save_file` returns, and the exit status.
A command may be killed
at any step. The commands that write run in turn, each once and in any order, as the
code assumes: nothing locks the file. Those that only read are the other loaders.

### Coordinator

The store's threads are the connections. Clients: `StartWorker` (connect and
Hello), `ReadSummary` (parse, claim, publish), `ReadAnswer`, `Ask`, `Kill`,
`HangUp`. Handler threads: the test of `g_stopping`, `recv`, then each operation
as the sequence of store calls and sends that the code makes; publishes run the
store's own fenced publish, `SetAuthority` is one call per dimension, `Save` takes
the snapshot, writes the file (`WriteSnapshot`, or `WriteFails`, which is answered with
an error and may leave no file) and answers in three steps, a payload that does not
decode, a record that does not validate included, is answered and then counted, and
`Query` and `Stats` are a step for each value they read, the arguments of `Stats` in any order. Main:
test, accept, exit; `Crash` and `Restart`. The claim a worker sends is computed as the code
does: decimal epoch read as hexadecimal, null generations replaced by 1, what the
wire does to an optional. The write of the file is one step here, which succeeds or
fails; its parts are the subject of `SnapshotFile`. `scenario`, chosen in the initial state, says which
clients there are, what they ask for and what may go wrong.

### Fault operators

An operator whose comment begins with "Fault:" is a plausible bug in the
definition that follows it. Nothing in the models uses it; `PROJECT.json` pairs it
with the property that fails when the definition is replaced by it, which shows
that the property depends on that code.

## 3. Runs

Passing:

| Run | Question | Properties | Bounds |
|---|---|---|---|
| `store_lineage` | do lineage and derived structures survive every order of publishes, invalidations, saves and restarts, do verdicts only worsen, and is the store the ledger it promises to be? | `Lineage`, `DerivedStructuresAgree`, `ValidityIndexAgrees`, `CausalChainUnbroken`, `UnsoundLineageIsNamed`, `VerdictsOnlyWorsen`, `ImplementsLedger` | 4 subjects: chains, forks, a diamond, malformed offers; requests that fit, mismatch and ask for what is missing |
| `store_fencing` | what does the unlocked evaluation still guarantee across rolls, setters and restarts? | `TypeOK`, `RolledEpochNeverAdmitted`, `SteadyCallIsFenced` | 1 fenced call at a time, 2 epochs, 2 boots, an attempt and an optional generation that are unset, null or 2 |
| `calls` | do the loops compute what the other models take for granted, does `restore` of any file keep the store sound, and does the codec invert? | `WalkCollectsClosure`, `CycleSearchIsRight`, `AffectedExactlyOnce`, `ChainsAreShortest`, `OrderIsLeast`, `RestoredIsLargestSound`, `DecodeInvertsEncode`, `SearchReturns`, `RestoreIsRecover`, `RestoreReturns` | every acyclic graph of 4 nodes with every argument; every parent map of 3 records and a missing one; every file of up to 3 records with an input and a parent each, and one of 4, beyond the bound; 7 snapshots cut at every point |
| `command_line` | what is left of atomic replacement when savers take turns and the system refuses renames and reads, is corruption detected when everything fails, and do commands keep each other's work? | `AckedSnapshotSurvives`, `LoadIsFresh`, `SucceededIsStored`, `OnlyRefusalsLoseChanges` (in orderly settings), `LoadedWasSaved` (in all) | 4 commands and a reader, or 2 savers and a loader; 4 saves; orderly settings with nothing, renames, reads or both refused besides writes and creations; dark and chaotic settings; both ways to replace a file |
| `coordinator` | is acknowledged work stored, counted and durable, is a worker that is up to date served and one that is replaced fenced, is every request answered, and truly? | `AckedWorkIsStored`, `AccountingIsExact`, `AnswersAreTrue`, `CurrentWorkerIsNotRefused`, `OldBootIsFenced`, `RequestsAreAnswered` | 5 scenarios of at most two workers and a control client: killed and retried, with crashes and restarts; a derived result; rolls, settings, malformed payloads and a shutdown; saves that fail; a replaced worker and a replay; queries |

Why these bounds. Three subjects are the fewest in which a record has an ancestor
that is not its parent, two roots, a fork or a join, a malformed back reference and
a provenance identity used twice; four give the diamond. One fenced call at a time
is enough for fencing: other calls touch it only through the records, which the
unfenced publish changes as well, and setters are separate actions, so every
authority change happens between every two comparisons (the theorems of section 4
hold for any number of threads). A generation is unset, null or 2, which
distinguishes unconstrained, explicitly null, current and stale. Four nodes hold a
diamond, a chain with a shortcut and two roots at different distances; three records
and a missing parent hold every kind of cycle and of dangling reference, and a used
store what a restore has to clear. The bounds of the reader (`MaxRecords`, `MaxVec`,
`MaxString`) are 3, 2 and 2, so that snapshots lie below, at and beyond them; in the
sampled snapshots no two integers of an item are equal, so that an exchange of any two
fields shows, and every kind of vector is empty, has one item or several. Two blocks
are the fewest a torn file has; two savers and one temporary name the fewest that
collide; four saves let one be killed, one refused and two succeed. Constants that
only bound (`MaxEpoch`, `MaxSaves`, `MaxRejected`, `Generations`) are named so in
the modules. Deadlock is checked in the runs of the store. It is not for a search,
or a restore, which returns (`SearchReturns` and `RestoreReturns` say that it does),
for the files, where savers run
out of saves, and for the coordinator, which rests when its finitely many clients
are gone.

Runs that are expected to fail. Each checks one sentence of the documentation that
the code does not keep, and TLC shows the behaviour:

| Run | What happens |
|---|---|
| `fence_at_commit` | the epoch rolls between the evaluation of a claim and the insertion: stale work becomes current (`store.hpp:83`) |
| `restart_unfences` | a restart from an older snapshot makes rolled-over claims acceptable again (`store.hpp:341`) |
| `reuse_fields` | a request that sets the dependency generation is eligible whatever the record holds (`compat.hpp:48`; the identity of the composition is not compared either) |
| `restore_refs` | a record whose parent provenance the file does not hold is silently dropped (`store.hpp:364`) |
| `snapshot_savers` | a saver renames the file another one has just emptied (`persist.hpp:386`) |
| `coordinator_epoch` | epoch 10 is printed in decimal and read as 16: every worker is refused (`coordinator.cpp:35`) |
| `coordinator_exit` | main never leaves accept after Shutdown (`coordinator.cpp:196`) |

Other losses are kept inside the properties as their exceptions, each named where it is
allowed and nothing more than it. Two belong to orderly settings:

- A refused rename, whatever the reason, removes the path before the retry
  (`persist.hpp:401`). If that is refused too, or the process dies, the acknowledged
  snapshot is gone, with one saver. `AckedSnapshotSurvives` allows it where renames may
  be refused outside Windows and once another save has begun, and says that the file is
  then absent, never torn and never older.
- A sound file that cannot be read is replaced by a fresh store (`main.cpp:87-93`,
  `persist.hpp:420-427`). `OnlyRefusalsLoseChanges` has a case for each of these losses
  (`Vanishes`, `StartsOver`), tied to the step of the save that brings it about and to
  the setting that provides for it, and one for the retry that puts a removed file back
  (`PutBack`); any other change of the file adds the command's own change to what was
  there. `SucceededIsStored` is about the settings without the two.
  It also excepts `invalidate` where a save may fail, as it reports success whatever its
  save returned (`main.cpp:149`).

Two more do not: with "buffered" in `faulty`, a write that fails when the stream closes
is acknowledged (`persist.hpp:391`); with `power`, nothing was synchronised before the
rename (`persist.hpp:398`). `Orderly` excludes both. `AckedWorkIsStored` promises
survival of a crash for what an answered save covered, until a failed save has removed
the file.

`OldBootIsFenced` says that once the process of a later boot was greeted, no publish
passes the comparison of boots under an earlier one. It leaves out three things. A
publish that had passed the comparison before the later Hello may still insert, as the
comparisons are not made under the lock of the insertion (`store.hpp:83-87`); only if
nothing has changed the authority since the call is the commit itself covered. The
Hello of a process killed before it was answered may be served after its successor's and
takes the registration back (`coordinator.cpp:59`). And a coordinator that may end is
followed by one that knows the boots of its file alone (`Lasts`).

`RestoreIsRecover` and `DecodeInvertsEncode` say that a
snapshot with more records or items than the reader accepts is written and then
refused (`persist.hpp:43`). Three omissions can be read off the models and have no
run: a snapshot leaves out the boot of a worker that has published nothing
(`CurrentSnapshot`, `store.hpp:528`); nothing is compared with the runtime
generation (`SetRuntimeGeneration`, `store.hpp:121`); and a worker's claim leaves
out the model generation it stamps on its record (`WorkerClaim`, `worker.cpp:93`).

Fairness. `FairSearchSpec` and `FairCallSpec` assume that the thread running a
search or a restore is scheduled until the call returns. `FairCoordSpec` assumes weak fairness of main and of every
handler thread, because the operating system schedules the threads of a living
process and none of them waits for anything but its socket and the store's lock,
which is held for finite work. A thread blocked in `recv` or `accept` is a
disabled action, so nothing is assumed of what it waits for. Clients are under no
obligation to read, to send or to end.

## 4. Proofs

The proof modules prove, for every set of identities, candidates, claims, threads,
graphs, files, snapshots, commands and connections, every bound, and any number of
steps:

| Theorem | Statement |
|---|---|
| `StoreInvariant` | `Spec => []StoreInv` |
| `TypeCorrectness` | `Spec => []TypeOK` |
| `LineageIsSafe` | `Spec => []Lineage` |
| `StructuresAgree` | `Spec => []DerivedStructuresAgree` |
| `ValidityIndexIsExact` | `Spec => []ValidityIndexAgrees` |
| `RolledEpochIsFenced` | `Spec => []RolledEpochNeverAdmitted` |
| `SteadyCallsAreFenced` | `Spec => []SteadyCallIsFenced` |
| `CausesAreUnbroken` | `Spec => []CausalChainUnbroken` |
| `UnsoundnessIsNamed` | `Spec => []UnsoundLineageIsNamed` |
| `VerdictsWorsen` | `Spec => VerdictsOnlyWorsen` |
| `StoreImplementsLedger` | `Spec => ImplementsLedger` |
| `WalksAreCorrect` | `SearchSpec => []WalkCollectsClosure` |
| `CycleSearchesAreRight` | `SearchSpec => []CycleSearchIsRight` |
| `PropagationIsExact` | `SearchSpec => []AffectedExactlyOnce` |
| `ChainsAreShortestOfAll` | `SearchSpec => []ChainsAreShortest` |
| `OrderIsLeastOfAll` | `SearchSpec => []OrderIsLeast` |
| `RestoreKeepsLargestSoundPart` | `RestoreSpec => []RestoredIsLargestSound` |
| `RestoreImplementsRecover` | `RestoreSpec => RestoreIsRecover` |
| `DecodeInvertsEncodeAlways` | `CallSpec => []DecodeInvertsEncode` |
| `CallsAreRight`, `CallsRecover` | the seven above, from the searches to restore, of `CallSpec` |
| `LoadsAreSnapshots`, `AckedSnapshotsSurvive`, `LoadsAreFresh` | `Spec` of `SnapshotFile` implies `[]LoadedWasSaved`, `[]AckedSnapshotSurvives`, `[]LoadIsFresh` |
| `CommandsLoadSnapshots`, `CommandsKeepSnapshots`, `CommandsLoadFresh` | the same of `CommandSpec` |
| `SuccessesAreStored` | `CommandSpec => []SucceededIsStored` |
| `LossesAreKnown` | `CommandSpec => OnlyRefusalsLoseChanges` |
| `CoordInvariant` | `CoordSpec => []CoordInv` |
| `AccountsAreExact` | `CoordSpec => []AccountingIsExact` |
| `AckedWorkStays`, `AnswersStayTrue` | `OneSaver` implies `CoordSpec => []AckedWorkIsStored` and `CoordSpec => []AnswersAreTrue` |
| `ServedInvariant` | `CoordSpec => []ServedInv` |
| `OldBootsAreFenced` | `CoordSpec => OldBootIsFenced` |
| `CurrentWorkersAreServed` | `MaxEpoch < 10` implies `CoordSpec => CurrentWorkerIsNotRefused` |

The assumptions are those of the modules. `StoreAssumption`: identities are non-zero
naturals, and candidates and claims have their types. `SearchAssumption`: nodes are
non-zero naturals, a graph and the parents a file names are finite (`std::map` and
`std::set`), and the arcs of a graph stay inside it (acyclicity is not needed).
`RestoreAssumption`: what a file holds is a sequence of records. `LimitsAssumption`:
the bounds of the reader are naturals. `PayloadsAssumption`: what is encoded is a
`StoreSnapshot`, each enumeration one of its values, each string one that may be
written, magic and version the constants. `FileAssumption`: `None` is not the number of a save, and the settings are
of their types. `CoordinatorAssumption`: a scenario's workers, boots and payloads have
their types, and a payload of `SetAuthority` that has an attempt has its generation,
as `coordinator.cpp` sets the two together.

Two theorems have a hypothesis on the scenarios: `OneSaver`, one connection at most
asks for saves, as in `mp_proof.cpp`. Without it they are false, and that is the
code: nothing orders the writes of two saves in flight, so the older snapshot may be
renamed into place last, and after a crash acknowledged work that both saves covered
for their clients is gone (section 3, the hazard at `coordinator.cpp:118`).
`AccountsAreExact` needs no such hypothesis. `CurrentWorkersAreServed` has one on the
bound of the epoch, for the same reason: from epoch 10 on the summary's decimal digits
are read as hexadecimal, and the run `coordinator_epoch` shows every worker refused.

**The store.** None of the invariants is inductive alone. That an insertion keeps
the lineage well founded needs the parents it draws to be those of stored records;
that no arc is refused, and so no insertion stops half way, needs the graph to be
the graph of the records and the new subject not to be in it; a restart establishes
all of it only if the snapshot has it. `StoreInv` conjoins the lineage, the
agreement of the derived structures and the types, for the store and for the
snapshot. The lemmas about `Insert` (`InsertKeepsLineage`, `NoArcRefused`,
`InsertDrawsGraph`, `InsertExtends...`) are stated for any set of records and any
fresh one, and `InsertPreserves` serves the unfenced and the fenced publish.
Well-foundedness is stated as "every non-empty set of nodes has one without
parents in the set", which is what lets acyclicity be proved without induction.

**Fencing.** `FenceInv` says what the comparisons made so far have established:
once the epoch was compared the claim is not older than the epoch at the call; and
in an undisturbed call every dimension no longer in `todo` is current. It holds
because comparisons only remove a dimension that is not stale, because the
dimensions never put into `todo` cannot be stale, and because every write to the
authority clears `steady` and none lowers the epoch while the process lives.

**Verdicts.** A closure is the least closed set, so what is to be shown of ancestors
and descendants is shown by naming a closed set; the first section of
`Verdicts_proofs` does so for every graph (least, closed, transitive, the same from
both ends, unchanged where a graph is extended below). Hence the fact the rest
needs: the ancestors of a stored record never change while the process lives.
`CausalInv` adds to `StoreInv` that the causes named by the overlay, and by the
snapshot's overlay in the snapshot's graph, are unbroken; a restart needs the second.
An invalidation keeps the chains of older causes because what it affects is closed
downwards. `VerdictsOnlyWorsen` follows because ancestors are fixed and an overlay
entry that is unsound stays so.

**The ledger.** Each action of the store is matched with what the ledger sees:

| Store | Ledger |
|---|---|
| `Publish`, `FenceCommit` that inserts | append |
| `Invalidate` of a stored subject | condemn |
| `SaveSnapshot` | checkpoint |
| `Recover` | restart |
| everything else | stutter |

That the ledger condemns exactly what derives from an entry needs `byValidity` to
agree with the overlay, the graph to be that of the records, and the descendants in
the two to be the same set.

**Searches.** Each loop has an invariant with two halves: nothing was collected that
should not be, and what should still be collected is below something that is pending.
When nothing is pending, what was collected is closed, so it is the least closed set.
For the chains, `ChainInv` adds that the queue is ordered by distance and then by the
nearest root, that the predecessor recorded for a node is one nearer and has the same
nearest root, and that nothing on the queue is more than one arc farther than the node
whose children are visited; a node not reached is then farther than that node
(`UnreachedIsFarther`). Distances are defined by recursion on a number of steps. That
such functions exist and agree wherever both are defined is shown by least
counterexample (`Iterates`, `IteratesAgree`), because the library's induction theorems
take an operator.
For the order, `Kahn` says that `inDegree` counts the parents not placed yet and those
the inner loop has still to tell about, and that each node placed was the least that
could be. Where another topological order first differs, its node could have been
placed as well and so is the greater. If the loop stops early, each node left has a
parent that is left or missing, and a topological order would have a first of them.

**Restore.** `RestoreInv` runs `Kahn` on the parents the file names and, from there on,
keeps `Holds(offered)`: what was offered so far and was not refused is stored, well
founded and indexed, and every self-contained part of the file is stored as far as it
was offered. Since records come after those they refer to, what a record of such a
part refers to has been offered and taken, and `insert_validated` has no ground to
refuse the record (`RefusedRecords`). The union of the self-contained parts is
itself one, and so is what is stored. A snapshot that the program may have saved is
self-contained as a whole, hence nothing is refused and the loop ends where `Recover`
does.

**The codec.** `Reads(reader, code, v)`: the reader gives `v` for `code` and leaves what
follows it, whatever that is. `Refuses(reader, code)`: it fails, whatever follows.
`Steady(reader)`: what it reads of a prefix it reads in the same way of the whole. Each
is shown of a scalar and of a string, then of readers in turn (by least counterexample
on the number of readers), of counted vectors, of fields, and so upwards to the
snapshot: it is read back if it `Fits`, and refused if not. That the two lists of
fields agree is where the translation from two functions enters (`SameLists`). A proper
prefix cannot be accepted: `Steady` says the whole would be read in the same way and
leave a rest, and it leaves none. Something longer leaves a rest.

**Files.** `FileInv` has a half for every setting: whatever a block holds, anywhere,
some save wrote, so a load whose checksum matches returns one save's content. The
other half is for orderly settings: the file being written, the file at the path and
the files being read are different ones; the path names a complete file no older than
the save acknowledged last, or nothing, and this only after a rename was refused in a
save begun since; and a file somebody reads is never written again, so a load returns
what was at the path when it opened it.

**Commands.** `CommandInv` is `FileInv` and, in orderly settings, follows the store a
command works on from the file it loads to the file it saves (`StoreFollowsFile`):
empty, then what the file holds, then that and its own change under the number of the
save in flight. Where a read may be refused a command may also work on its own change
alone, which is the case `StartsOver`; where a rename may be refused the path may be
empty during a retry, which then puts the command's store there (`PutBack`). It needs
that one command runs at a time, which the code assumes and `Start` states.

**Coordinator.** `CoordInv` has `StoreInv` for the store the handlers share, and a
predicate of a handler's place and frame (`Fits`, `Knows`) that says what it may rely
on there, whatever the other threads do: the record it published is stored and
nobody else's, the record it found is still there with the same validity, what it
read of the counters covers what had been acknowledged before, the snapshot it took
covers what the file must. `CountInv` is the accounting with the threads that have
published and not yet counted; that their subjects are distinct is what makes
`base + accepted` an upper bound of the acknowledged subjects (`AckedCounted`), which
is what a `Stats` that reads its counters one by one needs. Each operation of
`handle_connection` has a lemma; most reduce to `HandlerMoves`, for a step that leaves
the records and the counters alone. Steps of the store are taken over by
`NextPreserves`. The whole was checked by TLC as an invariant before it was proved.

**Whom the coordinator serves.** `OldBootIsFenced` is not a matter of the
authority, which takes any boot, but of the order in which Hellos can arrive.
`HelloInv` follows a Hello: it is sent once, before the process is told anything, and
a process starts when its predecessors are dead. `BootInv` says that the boot
registered for a worker is at least that of each of its processes that was served
after all its predecessors were: a Hello that would lower it comes from a predecessor
that was never told the summary. A comparison of boots that passes found the registered
one (`BootIsCompared`), so `BootInv` is what it needs; the commit of a call that nothing
disturbed needs `FenceInv` as well, which carries the comparison to the insertion.
`BootInv` holds where a coordinator lasts (`Lasts`); with a crash or
a shutdown it is false, as the file has the boots of workers with stored records only.
`ClaimInv` follows what a worker claims from the summary it read to the comparisons,
and `FreshClaimIsCurrent` shows dimension by dimension that a claim made of the current
summary passes each of them, null values and encoding included. What a step of a
handler or a client does to a connection is stated once (`HandlerEffect`,
`ClientEffect`), and the three invariants are preserved by these. They too were first
checked by TLC.

Every invariant and every action property of a passing run is a theorem. Only
model-checked is liveness (`SearchReturns`, `RestoreReturns`, `RequestsAreAnswered`),
which is out of the prover's reach together with ENABLED, and the seven runs that are
expected to fail, whose behaviours are what TLC finds.

## 5. Plan

Order chosen so that what the rest relies on came first: graph and authority, the
store, its refinement and proofs, the files, the coordinator, then reuse, restore, the
codec and the command line.
Nothing of it is left. What could extend it is listed in section 6.

Runs that ask related questions of one module are one run: `calls` covers the
searches, restore and the codec, `command_line` the files in every setting.

## 6. Not modelled

Digests and CRC-32 (bit arithmetic without state; the models assume a checksum
tells apart what they tell apart), text and JSON rendering, the bytes of an integer,
the file header and the limit on the length of a payload, the bounds of frames, commands
that write one file at the same time (nothing is promised of them; `snapshot_savers`
shows what their saves do to each other), the parsing of arguments, the order in
which queries list what they find, sockets below the frame (a frame cut in two
by a kill is lost as a whole), the CUDA proof, benchmarks, examples and packaging.
A data race inside `std::map` during the unlocked evaluation of a claim is given
the outcomes old value and new value only. Record fields other than those named
above do not influence control and are left out.
