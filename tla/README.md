# A TLA+ verification of Bee

Bee is a node for the IOTA network (Chrysalis): it receives *messages*, each of which
approves earlier ones, keeps the resulting graph (the *Tangle*), confirms parts of it
when a *milestone* arrives, and maintains the ledger of unspent outputs that the confirmed
transactions describe. This directory models the parts of the node in which order,
concurrency and failure matter, checks them with TLC on small instances, and proves most
of their invariants with TLAPS for all instances.

`PROJECT.json` lists the components, the runs, the source lines each definition stands for,
the findings, the hazards and the theorems.

    tlc -workers 2 -config MCTangle.cfg MCTangle      # one run
    tlapm StorageProofs.tla                           # one module of proofs

## The system

| part | state | operations | hard because |
|---|---|---|---|
| Tangle (`bee-tangle`) | cached vertices with metadata, children and eviction blocks; milestones; solid entry points; indexes; tip pool | insert, get, update_metadata, children, add_milestone, evict | every task of the node calls it; locks are held for single critical sections and the storage is accessed outside of them |
| Protocol workers (`bee-protocol`) | queues between the workers, requested messages and milestones, peers | process, propagate, request, retry, solidify, answer, broadcast | some twenty tasks communicate through queues and the Tangle; messages arrive in any order, twice, or not at all |
| Consensus worker (`bee-ledger/consensus`) | ledger index, metadata of the milestone being confirmed, last receipt | confirm, migrate | a depth-first traversal with conflict rules that must give the same result on each node; commit and flags are separate |
| Ledger state (`bee-ledger/workers/storage.rs`) | outputs, spent and unspent, balances per address, treasury | apply and roll back a milestone | several tables that have to agree; limits for dust |
| Snapshots (`bee-ledger/snapshot`) | files, import in progress, health of the storage | download, import full and delta, validate | written step by step; a crash may come after any write |
| Pruning (`bee-ledger/pruning`) | pruning index, entry points | prune a milestone | deletes while others read; truncation and commit are separate |
| Index updater, tip selection | xMRSI values, tips with scores | update cones, select tips | works on the cone of a milestone while others change it |
| Gossip network, autopeering (`bee-network`) | peers, bans, connections; requests, neighbours, salts | connect, accept, ban; ping, peer, drop | remote parties, timeouts, late and duplicate answers, limits |
| Node and runtime (`bee-node`, `bee-runtime`) | workers, resources, shutdown signals | start in the order of dependencies, stop, drain queues | work must not be lost at shutdown |
| Storage backends (`bee-storage`) | column families, health, version | fetch, insert, batch, truncate | atomic batches next to writes that are not part of one |
| Message format, ternary numbers, big integers (`bee-message`, `bee-ternary`, `bee-crypto`) | buffers of trits, digits | pack, unpack, validate; push, slice, convert; add, compare, reduce | packed representations with offsets, carries and lengths; bytes come from others |
| Proof of work (`bee-pow`) | a flag shared by threads and callers | search, cancel | the flag has two meanings and outlives a call |
| API, dashboard, MQTT | none that the node's correctness depends on | | |

A message travels like this. A processor task inserts it into the Tangle, wakes the
propagator, asks for its parents if the message itself was asked for, and passes its payload
on. The propagator marks it solid when its parents are, and goes on with its children. The
milestone payload worker adds valid milestones to the Tangle. The solidifier confirms the
milestone after the last confirmed one as soon as it is solid; the consensus worker then
applies the past cone of that milestone to the ledger and flags its messages. Pruning removes
what is old enough.

What makes the parts correct: the cache must not lose or overwrite metadata nor evict what
a task relies on; solidity must spread to every message it can reach and nowhere else;
milestones must be confirmed in order with complete past cones; the White Flag order must be
the one of its definition and outputs, balances, treasury and flags must agree; a node
must never run on half a snapshot; pruning must leave every later cone walkable; the three
storages must be indistinguishable from a map; lists of peers and neighbours must keep to
their limits and to what was announced about them; what one node packs another must unpack
to the same; and a shutdown must end without losing what was queued.

## The models

Lower-case names are those of the code. A step is one critical section, one queue operation or
one storage access, whichever the code can be interrupted at.

**Tangle** (`tangle.rs`, `vertex.rs`, `vertices.rs`). Tasks call `insert`, `get`,
`update_metadata`, `contains` and `children`. A call is a sequence of steps (`pc`): look up
the vertex and block its eviction, fetch it from the storage, insert it, link it to its
parents, evict others, write the storage. Metadata is the set of updates that were applied to
it, which is all that losing one is about. `applied` is a history variable.

**Ledger** (`storage.rs`, `balance.rs`, `balance_diff.rs`). Outputs, treasury and balances,
`ApplyMilestone` and `RollbackMilestone` as operators on them; the optional migration is a set with at most one element. The order in which a batch
inserts created and removes consumed outputs is kept. Used by the next two modules.

**WhiteFlag** (`consensus/`). `Confirm` starts a milestone; each iteration of
`traverse_past_cone` is a step (leave a referenced message, descend to a parent, apply a
message, meet a solid entry point or a missing message); `Commit` makes the checks that follow
the traversal and writes the ledger; `MarkReferenced` is one call of `update_metadata`. Errors of
`confirm` stop the worker, as in the code. The verification of signatures, sums and dust has its
outcomes computed from abstract transactions; where the code iterates over a `HashMap` the model
allows every order. `Restart`, between two milestones, loses what is not stored. The Merkle root over the included
messages is not modelled: milestones are taken to carry the right one.

**Snapshot** (`snapshot/`, `consensus/state.rs`, `Storage::start`). A start opens the storage if its
health allows it, finds or downloads files, imports each section write by write and validates
the result. `Crash` may come between any two writes. Files are records of their header, diffs
and defects; the diffs themselves are those of a fixed `History`, in which a milestone may spend an output it
creates. Nothing is assumed about a full and a delta snapshot belonging together: `Fits` says whether they do, and
only `SourceInformation::is_consistent` compares them.

**Solidification** (`processor.rs`, `propagator.rs`, `requester/`, `payload/`,
`solidifier.rs`). Any number of processors, two requesters, the propagator, the task that
announces solid messages, the milestone payload worker and the solidifier. `inserted` and
`linked` are separate because `Tangle::insert` makes a message visible before it lists it
among the children of its parents. The xMRSI values are abstracted to whether they are set
(`rooted`); peers to whether a request is sent; `Milestones` are the messages whose milestone
payload passes `validate`. `solid_milestone_index` and `latest_milestone_index` are read where
the code reads them. The PayloadWorker between processor and milestone payload worker only
forwards, so its queue and the one behind it are one. Tangle operations are atomic here, except
for the insertion; how they behave in the presence of evictions is what Tangle is about.

**StorageTables, SledStorage, RocksdbStorage, MemoryStorage, Storage, StorageSpec**
(`bee-storage-*`). StorageTables gives the tables their keys and the bytes they are packed to:
relations are found by the prefix that is their left component, so lengths and order of
the bytes matter and are kept. Each backend module has the operations of its access files on its own
representation (trees of bytes; column families with ordered keys and a batch that is a list; hash maps and
lists, one of them searched by bisection). Storage runs any of the three: direct writes, batches,
truncations, reads, start with version and health, shutdown, and a crash that keeps a prefix of the
writes. StorageSpec is the abstract specification, a map per table, and
`ImplementsStorageSpec` the refinement: `rows`, the open batch and what a start may find are functions of the
representation.

**Pruning** (`pruning/`). `prune` for one milestone in the steps at which it can be interrupted: the traversal of
its cone, unconfirmed messages, the truncation of the entry points, the commit and the snapshot info.
Messages arrive in the steps of `Tangle::insert`, first their edges one by one, then the message with its metadata, then, from a
worker of its own, the row of an unreferenced message under the latest milestone index; milestones are confirmed in between.
A message arrives once (unless a crash cut it off), and its message and metadata rows are stored in one step. What the code relies on of the
coordinator, that it does not confirm what attaches far below, is the guard of the confirmation.
A call that finds a row missing fails, and pruning waits for the next milestone; `Restart` is a crash after any step.

**TipSelection** (`propagator.rs`, `index_updater.rs`, `urts.rs`). The xMRSI values as pairs of an index
and the message it comes from. The propagator reads the parents one by one, the index updater makes its past
and its future walk one message at a time, and the two meet only in the metadata. For each child the future walk reads the
metadata and then writes the two values, three steps between which the other workers may act; `raced` records that the
milestone payload worker made a milestone of the message the walk was at. The tip
pool scores by the same values, removes by age, children and score, and is reduced when it is full.

**MessageIntake** (`submitter.rs`, `hasher.rs`, `hash_cache.rs`, `processor.rs`, `broadcaster.rs`). Events with the
peer or the notifier they came with, the cache of bounded size, and processors that take from one queue. `Tangle::insert` is taken in its
steps: look the vertex up, fetch it from the storage, insert it, release it, store it; it may be evicted whenever no task
holds it. `displaced` records the messages that were evicted between their insertion and their storing.

**Gossip** and **PeerManager** (`bee-gossip`, `workers/peer/`). The list of peers is changed under a lock by the
processors of commands and of internal events, which send their events afterwards (`todo` lists). Connections are
negotiated, run and break; the tasks that read and write one announce its end once. `dial_peer` checks and then looks the peer up under two
locks (`Dial`, `DialChecked`). `wanted` is a history variable: the peers of the configuration and of `AddPeer` commands, until a
`RemovePeer` command.
PeerManager follows the events with its own table.

**AutopeeringRequests, PeerDiscovery, Peering** (`bee-autopeering`). The request manager and the tasks that wait for an
answer on a oneshot channel; the lists of active, replacement and entry peers with verification, discovery
and the store; the neighbourhoods with requests, drops, salts and the events about them. An answer to any request
that was ever sent may arrive at any time, late, twice or never. The handler of received packets takes the lock of a list for one
lookup or one insertion at a time, and so do its steps (`handler.at`), also between the peers of one response; spawned tasks remove and replace
peers in between. An expectation of the code that fails is a panic, after which the handler takes no packets (`panic`).

**Packets** (`packets/`, `packet_handler.rs`, `responder/`). A script of packets is encoded, the bytes reach the
packet handler in pieces of any size, are cut into packets again and answered.

**MessageSyntax** (`bee-message`, `milestone_key_manager.rs`). Builders, packing and unpacking of messages with every kind of payload, the
syntactic checks, and the validation of a milestone by its keys. A wire is a sequence of fields, of
which some are changed, removed or inserted on the way.

**TritBuf** (`bee-ternary`). A buffer under push, pop, set, fill, copy, slices of slices and
conversion between the encodings, next to the trits that are meant; trits to integers and back; B1T6.

**BigInt** (`bee-crypto/ternary/bigint`). Numbers of a few narrow digits for the twelve of 32 bits: addition,
subtraction, comparison, conversion from and to trits, and the trit that Kerl sets to zero, next to the number
that is meant, in little- and big-endian order of the digits and in digits or bytes. Where the big-endian variants do something else than
the little-endian ones (`add_digit_inplace`, `sub_integer_inplace`, `divide_by_two`) they are translated as they are written; the number
that is meant is then taken anew from the digits, so `NumbersSound` says nothing of the result of those three, which the repository does not call.
Their panics in a debug build and their wrapped values in a release build are both allowed.

**NodeLifecycle** (`bee-node`, `bee-runtime`). The topological sort of the dependencies in any order of its hash set, with
the stack of the calls of `visit` (a call for a dependency and the end of a call are steps), the start of the workers, their tasks with queues, tasks they detach, listeners, and the shutdown worker by worker to
the tangle and the storage.

**Miner** (`bee-pow`). Threads that search batches of nonces, the flag that ends them, calls one after the other and
cancellations at any moment. The hash is a constant function of the nonce.

## The runs

| run | result | shows |
|---|---|---|
| `tangle_cache` | pass | eviction blocks are accounted for (the assertion in `allow_eviction` holds), no vertex is evicted under a task that relies on it, cached metadata only grows |
| `tangle_lost_update` | violation | a finished `update_metadata` can be forgotten: `insert` stores its initial metadata over it after it has released the vertex (`tangle.rs:110`), and the vertex is evicted |
| `white_flag` | pass | the past cone is applied, parents first, in the reference order; no double spend; outputs, balances, dust limits and flags agree |
| `white_flag_receipts` | pass | funds are conserved by receipts; receipts do not go back; confirmations end |
| `solidification` | pass | solidity, rootedness, no message left behind, contiguous confirmation of complete cones |
| `solidification_live` | pass | once all messages are there their milestones are confirmed and requests disappear |
| `node` | pass | a node runs only on a complete import, with the ledger and balances of its last milestone if its files fit; each backend implements the abstract storage, through crashes; workers outlive those who need them, nothing queued is lost and the shutdown ends; a nonce scores and a cancelled search returns |
| `protocol_workers` | pass | a message is sent on once unless it is evicted while it is inserted, none is lost, submitters are answered once; xMRSI values name confirmed roots in their cones, in order; tips are retained by the rules; what pruning leaves can be walked, later pruning misses nothing it deleted, recent messages are kept |
| `tip_inheritance` | violation | a child of a newly confirmed message that had its root from further below keeps the outdated root |
| `autopeering` | pass | lists and neighbourhoods keep to their bounds, entry peers stay, a request verifies once, distances follow the salt, events and neighbours agree |
| `gossip` | pass | unknown peers keep to their limit, configured and added peers stay until they are removed, no connected peer that is gone |
| `encodings` | pass | packets come out as sent; messages unpack to what was packed, from one encoding only; spends are unlocked, milestones carry enough keys; buffers and numbers hold what is meant |

Both violations contradict a comment of the repository; the findings in
`PROJECT.json` quote it. Several properties are conjunctions of named
parts (`LedgerConsistent`, `PrunedSafely`, ...), which are stated and commented one by one. Every property of a passing run has a mutant: a plausible mistake in
one definition that makes TLC report the property.

**Parts in one run.** `node`, `protocol_workers`, `encodings` and `autopeering` check several modules that share no
variables. A behaviour of theirs is one of a single part, chosen by `focus` in the initial state; the variables of the
others keep an initial value. This is no loss, because the modules do not interact through anything the models know of,
and every property names the variables of one part. Where parts interact, the modules are composed: Ledger with
WhiteFlag and Snapshot, PeerManager with Gossip, the requests with discovery and peering.

**Bounds.** Tangle: two tasks, a parent and its child, three calls in all, a cache that holds
one vertex, so that every insertion evicts; three calls are enough for the violation (an insertion of the parent, an update
of it and the insertion of the child) and for two calls racing with the reload caused by a third. WhiteFlag: five graphs of three
messages below two milestones (fork, chain, shared parent, a message confirmed late, related
parents), all assignments of eight transactions that make, move, forbid, allow or burn dust,
conflict with each other or are forged, one message that may be lost; two milestones are
enough for a conflict with an earlier one. The receipts run uses one graph and four receipts, good,
older, and with a wrong amount, one restart, and a second milestone whose message may be gone. Snapshot: three milestones, one with a
migration and one that spends an output it creates, full and delta files for them that go back behind it and past it again, files that do not
fit each other, each defect the import looks for, four download sources (three consistent, one of them without a delta
snapshot), three starts. Solidification: two processors, a message and two milestones (for
liveness one milestone, above that of the snapshot, which is ignored), `MaxRequests` = 1 queued request per message: a
second request for a message is dropped by `process_request`.

Storage: three writes, which is enough for an insertion, a batch that overwrites and a truncation, on each table with
two or three keys: relations that exceed the limit of a fetch, indexes above one byte, receipts of different
length, and a storage of another version. NodeLifecycle: the chain processor, propagator, solidifier, tangle; a cyclic graph and
one with a dependency that was not added; two events, two polls. Miner: two threads, eight nonces in batches of two, five
calls (reached by all, by few, by none, by few again, impossible), two cancellations. MessageIntake: three events of a good, a
weak and a foreign message from two neighbours or a submitter, a cache of one hash, so that each new message evicts, and evictions of
vertices at any time.
TipSelection: a chain and a fork above an entry point, two milestones of which the second refers to both branches, and a
message above it; depth 2, at most two tips and one child. The snapshot has index 2, so that `lmi - below_max_depth` does
not wrap and the future walk takes place.
Pruning: four messages in two graphs, one with a branch that is merged late and one whose last message attaches to one that is
pruned while its edges are written; four milestones, the latest at most one ahead of the ledger, delay 2, calls of up to two milestones, one
message arriving at a time, one crash; two of the messages are requested, so they have no unreferenced row, and two are not.
Autopeering: three peers, two active and one replacement, neighbourhoods of one, two salts, two waiting tasks,
answers that name up to one peer, a request that expires. Gossip: a static peer, which a command may remove, an unknown one that a command
may add, dial, disconnect or ban, and one without commands, with two connections, one unknown and one discovered peer allowed, each kind of command. Packets: all scripts of three of seven packets, one of an unknown type and an
empty one among them, in pieces of up to five bytes. MessageSyntax: six messages with every kind of payload and up to two edits of
their wires; four key ranges. TritBuf: five encodings, up to six trits, so that T5B1 uses a second byte. BigInt: three digits of three bits (bytes of one bit), six
trits, every trit pattern, operands at the edges of digits, halves and maxima. With these widths 128 of the 135 numbers below the negative
bound of five trits have another top digit than it, so the correction that `zero_most_significant_trit` makes there is checked.

Symmetry is used for tasks and processors of Tangle and Solidification, the connections of Gossip and the waiting tasks of the autopeering, not in runs with
liveness.

**Fairness.** WhiteFlag: weak fairness of the worker, a task of the runtime that waits for
nothing but storage and Tangle. Solidification: weak fairness of each worker, all of them tasks that the
runtime polls while their queue is not empty; the requesters' retry timers fire again and again, and
the node is assumed to have peers when they do. Nothing is assumed about the arrival of messages:
`AllSolidified` begins when they have arrived. NodeLifecycle: weak fairness of the node's own thread and of a task that
was told to stop, which drains a queue that nobody fills any more; none of detached tasks, which nothing waits
for, nor of the signal to shut down. Miner: weak fairness of the threads, which the operating system schedules, and of the
call that joins them; none of cancellations.

**Deadlock** is checked for Tangle and WhiteFlag. In the other runs the system may stop: workers
wait for messages, a node has shut down, a panicked start is over, the bounds are used up.

## Observations

Behaviour that the models reach and that a reader of the code may not expect. The two that a run reports are above.

* `children_inner` can flag a list of children as exhaustive that misses an approver stored between its read of the
  storage and its critical section (`tangle.rs:545`, the comment at 555 says otherwise).
* `traverse_past_cone` starts with all parents of the milestone on its stack and does not look again whether the top was
  visited meanwhile: a parent in the cone of another is applied and counted twice (`white_flag.rs:231`), the second time as a
  conflict with itself if it has a transaction. What is committed is the same.
* The dust check applies a transaction's own diff before the diffs of its milestone, so one that spends an
  output of the same milestone and sends dust back meets a negative balance, and the worker stops (`white_flag.rs:137`,
  `balance.rs:67`).
* `rollback_milestone` deletes created outputs and then restores consumed ones: an output that one milestone both
  created and consumed comes back, and the node refuses the ledger it imported (`storage.rs:320`), unless a delta snapshot
  goes past that milestone again and spends it. `ImportValid` exempts exactly these imports (`Resurrected`).
* A request for a snapshot file that fails is reported as a success (`download.rs:171`). If the delta snapshot of a first source fails
  in its body, and the request for the full one of a second source fails, the node imports the full snapshot of the first
  with the delta of the second, which `import_delta_snapshot` does not compare (`import.rs:238`): in the run it ends at milestone 3 without
  having applied milestone 2. What is missing, an output that was migrated and the treasury it came from, adds up to the same
  supply, so `validate_ledger_state` accepts it.
* `Tangle::insert` releases the vertex before it is stored (`tangle.rs:95-110`). If it is evicted in between, a second copy of the
  message is new to the Tangle as well, and the message is sent on and its submitter answered a second time.
* The edges of a message are in the storage before it is, so pruning may visit an approver that has no metadata yet and fail with
  `MissingMetadata` (`batch.rs:170`); the next milestone tries again. If the node crashes between the two writes the edge dangles, and
  every call of `prune` fails there until the message comes again.
* The latest and the solid index are read by two loads and subtracted (`propagator.rs:163`): a milestone that arrives and is
  confirmed in between makes the difference underflow, though each index is right.
* The walk of the index updater into the future of the messages it confirmed compares the root of a child with the message it visits,
  which a child has as its root only if it inherited after the confirmation: it writes the value that is there already
  (`index_updater.rs:184`; proved as `FutureWalkChangesNothing`). The exception is a race: when the milestone payload worker
  makes a milestone of a child between the read and the writes of the walk (lines 174 to 199), or of the visited message, the
  walk overwrites or passes on values of before, and a root may be one that is not confirmed at its index.
* `handle_discovery_response` asks a peer that went to the replacement list for verification and ends on "Requests are sent
  to listed peers only" (`discovery/manager.rs:723`, 802); the same happens when a spawned task removes the peer, or the sender
  of the response, before the handler looks it up again (731).
* `is_known` reads the list of active peers and that of the replacements under two locks (`peer/mod.rs:295`): a replacement that becomes
  active in between is added to the replacements again and is in both lists.
* The answer to a discovery request counts the active peers and then reads them at random indexes; a removal in between makes
  the lookup panic (`discovery/manager.rs:954-995`).
* `dial_peer` checks a peer and unwraps its info under a second lock (`network/host.rs:203`, 212): a `RemovePeer` command in between ends
  the task of the network host.
* `PeerAdded` for a connected peer makes the peer manager replace its entry, which ends the worker of
  the connection (`peer/manager.rs:119`), while `service/host.rs:499` only means to update the info.
* `remove_peer` takes the lock of the peer list twice; a connection established in between is dropped from the list without
  being shut down (`service/host.rs:550`; see the proofs).
* `TangleWorker::stop` polls for the tangle after the handle has left the resources, so that polling cannot succeed
  (`tangle_worker.rs:48`, `resource.rs:44`); and the last events of the detached task of the propagator may find
  the solidifier stopped.
* The comparison of two negative `I384` with equal top digits is reversed (`i384/mod.rs:799`), which matters for numbers
  close to the negative bound of 242 trits only.
* Of the big-endian numbers, `divide_by_two` halves the first digit only (`u384/mod.rs:127`), `sub_integer_inplace` subtracts from the
  most significant digit (`i384/mod.rs:364`), and `add_digit_inplace` counts its index below zero when a carry leaves the most significant digit
  (`i384/mod.rs:267`, `u384/mod.rs:105`). Nothing in the repository calls them.
* A cancelled `Miner::nonce` returns `Ok(0)`, and a cancellation before the reset at its start has no effect.
* Any non-zero byte is a true `last` of a receipt (`packable.rs:91`), so a milestone with a receipt has more than one encoding.
* Stale metadata that stays in the storage after two racing updates (`tangle.rs:505`), and the receipt index forgotten by a
  restart (`worker.rs:318`).

## The proofs

Eight modules hold theorems; a module covers one component or several that belong together. Each proof follows the same pattern: an
inductive invariant whose parts are named, a lemma per action (or per group of actions) that says it is preserved, lemmas on
the operators the actions are made of, and a theorem that draws the checked property from the invariant.
A lemma that frames a part (`PeersFrame`, ...) says which variables it is about, so that actions that leave those alone need
no more than its name.

`TangleProofs` proves, for every number of tasks and messages, every graph and every cache size,
that `TypeOK`, `BlocksAccounted` and `HeldIsCached` are invariants. They are not inductive by
themselves: `CacheInv` adds which calls can be at which step with which results (`CallShape`), and
that only a vertex in the cache has content. `BlocksAccounted` equates a counter with the
cardinality of the set of tasks that hold the vertex, so the steps that enter or leave that set
rest on lemmas about the cardinality of finite sets; assumed are finite sets of tasks and messages. From the same invariant
follows the action property `CachedMetadataGrows` (`MetadataGrowsInCache`): while a message stays in the cache no step takes
anything from its metadata, neither a reload nor a second insertion.

`NodeProofs` is about the workers of a node. It proves of Solidification, for every graph, every set of milestones with distinct indexes and
every number of processors:

* `TypeCorrect`. The invariant `TypeInv` adds that what is announced to the solidifier is a milestone.
* `SolidMessages`: `SolidityRests`, that is `SolidClosed` and `SolidIsRooted`. The latter needs that every message flagged as a
  milestone is rooted: the propagator leaves those alone.
* `NoMessageLeftBehind`: `NoneLeftBehind`. Needed is `LinkPending`: a message that is inserted and not yet
  linked is in the hands of a processor. When the propagator lists the children of a message it
  misses only those, and their processors will wake it again.
* `ConfirmationSafe`: `ConfirmedInOrder`, that is `ConfirmContiguous`, `ConfirmedConeKnown` and `SolidNotAhead`. `ConfirmInv` adds that the
  target follows the solid index, that the limit of the solidifier is at most the latest index, and
  that confirmed milestones are solid. The past cone is defined as the least closed set, so that it is known follows
  from `SolidClosed` without induction: the solid messages with the entry points are closed.

It also proves `ShutdownIsOrderly` of NodeLifecycle, `OrderlyShutdown` for every graph of dependencies. `LifeInv` starts with the
search: the frames on the stack are different workers without a place in the order, and each dependency of a frame is in the order, still in
front of it, visited by the next frame, or was not added to the node (`VisitsInv`), which gives `DependenciesFirst` when it ends. From then on one
number, `position`, separates the workers that have been started or not yet stopped from the others: below it tasks run, above it they have
ended with empty queues. That a listener or a task lets go of the tangle in time rests on the assumption (`LifecycleAssumption`) that
every worker that takes the tangle names the tangle worker among its dependencies, which all workers of the code do.

`FoldProofs` holds what the proofs about sequences need: a fold from the left (`FoldLeft`) is by its definition a function on the
subsets of the indexes, which removes the largest one at a time. That such a function exists, is unique and stays in a set its steps
do not leave is shown with the smallest subset for which it fails. In the same way it has, for the functions that are defined along the
natural numbers, that they exist and what holds of all their values, which replaces the induction theorems of the library.

`LedgerProofs` is about the operators of Ledger. Sums over finite sets (`MapThenSumSet`) come from a recursive function on
sets; what they do when an element is added is shown by a smallest counterexample: among the subsets for which the claim fails
one has the least cardinality, and it cannot fail either. On top of that, the balance of a union or difference of outputs is the sum or difference
of the balances, and a batch whose diffs are those of its outputs keeps table and outputs in agreement (`MilestoneKeepsBalances`).

`WhiteFlagProofs` proves, for every graph of messages, all transactions and receipts and any number of restarts:

* `WhiteFlagTypes`: the types.
* `LedgerStaysConsistent`: `LedgerConsistent`. The diffs that are committed are accumulated message by message, so `BookInv` has
  during a traversal that they are the diffs of the outputs created and consumed so far (`MetaInv`), and that an output about to
  be created does not exist (`FreshInv`): its transaction would have consumed its inputs before.
  That no two transactions create the same output is assumed because an output's identifier contains the one of its transaction.
* `SpendsAreJustified`: `SpendsJustified`. `SpendInv` adds that what is consumed is the union over the included messages.
* `ConeAppliedInOrder`: the traversal applies the past cone of the milestone that is still open, exactly, a message
  after its parents. `ConeInv` has both directions: what is applied is closed under open parents, and every closed set that holds the parents
  of the milestone contains all that the traversal has met. The run `white_flag` checks the exact order, which is recursive.
* `FlagsTellTheLedger`: `FlagsFollowLedger`. A message may be applied twice and then be flagged twice, so `FlagInv` is about the
  last of the updates of a message that are still to be made.
* `ReceiptsStayInOrder`: `ReceiptsInOrder`, by what the worker remembers of the last receipt.

Assumed of the transactions and receipts is what the syntactic validation of messages ensures (inputs exist, migrated funds are not dust), and of the
genesis that it is a ledger `validate_ledger_state` accepts.

`ProtocolProofs` proves `SentOnOnce` and `IntakeComplete` of MessageIntake for any number of processors, events and neighbours and every
size of the hash cache. `IntakeInv` says that an event is in one place only, is answered when it has left, that at most one
task has a message it inserted in hand, and that a message is with that task, waits for the broadcaster or was sent. The cache evicts, so a
message may be processed again; that it is sent once rests on the Tangle (`WinnerInv`), not on the cache: a vertex that is in the cache or
stored makes every later insertion return nothing. The one time it is neither, after an eviction between insertion and storing, the message is
`displaced` and exempt.

It also proves `IndexesSound` and `TipsRetained` of TipSelection, for every graph of messages and milestones.

* `IndexesStaySound`: `IndexesSound`. `ConesIndexed` alone says nothing of a walk that is under way: `WalkInv` adds that what
  the past walk has updated is closed up to its stack, so that at its end the cone of the milestone has no message without an index, and
  `ConfirmedInv` that a confirmed message has the index of the first milestone above it. For the values the invariant says,
  as long as there was no race, that a confirmed message is its own root (`OwnRoots`), that what the propagator has read is still true
  when it writes it (`ReadInv`: roots only become confirmed, and an index once given stays), and that a value the future walk is
  about to write is there already (`DueInv`); this last part is also the theorem `FutureWalkChangesNothing`.
* `TipsStayRetained`: `TipsRetained`, by `PoolInv`: non-lazy tips are in the pool with few children, which every step of the fold over the
  parents of a new tip keeps, and what waits for the pool is solid.

`TipAssumption` is assumed of the milestones: they follow the snapshot, have different indexes and refer to earlier ones only. That is how the
coordinator issues them, and the keys of a milestone are checked before it gets there; the code itself does not check it.

Of Pruning it proves `ConesComplete` (`ConesStayComplete`) and `PrunedSafely` (`PruningDeletesSafely`), for every graph, batch and delay.
`PruningInv` says what is confirmed by which milestone and in which order (`ConfInv`: after its arrival,
not before its parents), which edges and milestones are stored, and for which messages that are still arriving (`EdgesInv`, `MilestonesInv`), how far pruning may be behind and ahead
(`LimitsInv`), that only old messages were deleted (`DeletedInv`), and during a call what the batch holds (`BatchInv`). The core is `SepsInv`: a parent that is gone is a
solid entry point as long as a milestone that is not pruned needs it. When milestone i is pruned an entry point is kept up to the largest
index that confirms an approver; an approver without one yet counts as confirmed `MitigationThreshold` milestones later, which is right only because the
coordinator does not confirm anything that is deeper. This is a guard of `Confirm`, as the comment in `batch.rs` has it. The past cone of a milestone is the
least closed set, so that the traversal finds all of it needs no induction.
Assumed (`PruningAssumption`) is that `MitigationThreshold` is at most the pruning delay, which the consensus worker sees to, and not more than the
entry points of the snapshot are kept for (20 and 50 in the code), and that the graphs have no cycle, since a message contains the hashes of its parents.

`NetworkProofs` proves of the autopeering, for any peers and sizes of the lists:

* `DiscoveryStaysSound`: `DiscoverySound`, with the receive handler interrupted between any two locks. Lists are rings, sequences of bounded length without a repeated identifier, which insertion, removal and
  rotation keep (`RingInsertGood`, `RingRemoveAt`, `RingRotated`). That a peer is not verified more often than it was asked is not inductive:
  an open request is a verification still to come, so `CreditInv` counts the open request of a peer as one verification more. An answer takes the
  request out before it counts, a new request replaces an open one and is one more that was asked; the peers of the
  store have the verifications of an earlier run, for which `StoreInv` keeps the same bound (a start finds no open request). Entry nodes stay
  active because there are at most as many of them as the list holds, which the assumption on the configuration says, and because a removal leaves room to
  put the peer back; a handler that found room in the list still finds it when it inserts, because the tasks in between only remove and replace (`HandlerInv`).
* `NeighborhoodsStaySound`: `NeighborhoodsSound`, for any salts. `DistancesInv` keeps, while
  `update_salts` is between its steps, which neighbourhood already follows the new salt; this is what makes an acceptance in between harmless.

It proves `PeerListSound` and `NoGhostPeers` of the gossip network for any number of peers and connections and any commands.
The limit of unknown peers and the wanted peers (configured, or added by a command) are nearly inductive; that the manager holds no connection which is gone is not.
`GhostInv` follows a connection from its negotiation over the queues to the manager: it is in one place at a time (`PlacesInv`); the one
that the manager will hold after all events in flight is served until its loss is announced (`ServedInv`), and it is the one the list of
peers has, or something is under way that ends it (`DoomedInv`). Assumed of the commands is that peers are added as known or
discovered, which is what the configuration, the REST API and the autopeering events do.

The attempt to prove `NoGhostPeers` without exceptions failed for a good reason, which TLC confirmed with two commands: `remove_peer`
(`service/host.rs:550`) disconnects the peer and takes the lock again to remove it. A connection established in between is removed with the
peer and never shut down; if the peer is added again before `PeerConnected` is handled, the manager holds it while the list
has the peer disconnected. The property leaves out the peers that a command removes.

Of Snapshot and Miner `NodeProofs` has:

* `NodeRunsOnImport` and `ImportsAreValid`: `RunsOnImport` and `ImportValid`, for every history of milestones, all files and download sources and a crash after any write.
  `SnapshotInv` says where an import stands: nothing is imported yet (`Fresh`), the outputs or diffs up to a point have been read (`OutputsRead`,
  `DiffsRead`), or the ledger is the one after milestone i, with some of the outputs unspent that a rollback behind it resurrects (`Held(i)`); files in the
  folder may be any, those under way come from consistent sources (`FilesInv`, `DownloadInv`). What `validate_ledger_state` accepts of such a ledger is the one
  without resurrected outputs, since all the others add up to more than the supply (`HeldIsValid`, both directions). A storage that is open is marked as idle and one whose import failed as corrupted; neither is opened again, so only fresh and
  whole ones are (`Whole`). That a diff takes `Held(i)` to the neighbour of i, forwards and backwards, rests on
  `LedgerProofs`. Assumed are a history in which outputs are created and consumed once, possibly by one milestone (`HistoryAssumption`), and files
  that list no diff twice and none on the wrong side of their ledger index (`FilesAssumption`); how a full and a delta snapshot go together is not assumed.
* `NoncesScore`: `NonceScores` for any number of threads and any size of the batches. `MinerInv` relates the shared flag to the threads: when it is set and the caller did
  not cancel, some thread holds a nonce with enough zeros, and no thread is joined before the flag is set.

`StorageProofs` is about the three backends, for all tables, keys and values:

* `BackendsImplementSpec`: the refinement of StorageSpec by the in-memory storage, sled and RocksDB, for all keys and values. Each table is seen as a
  map from keys to at most one value (a *cell*); `StorageInv` says that trees, lists and column families are good representations of cells. Keys
  are bytes for two of the backends, so the proof needs that unpacking inverts packing and that the order of the bytes is
  total (`RocksdbTruncate` deletes the range from the first key to beyond the last). The three kinds of batches, a list of operations, a tree of changes and a log, agree because in each
  the last operation on a key decides; this is a lemma on folds whose later steps overwrite earlier ones.
* `ReadsAnswerRows`: `ReadsSound`, from the same invariant: fetches, existence checks and multi-fetches answer the cells, and a scan by
  prefix finds exactly the keys with it, each once, because all keys of a table have a prefix of the same length.

Only model-checked:

* liveness (`ConfirmationEnds`, `AllSolidified`, `RequestsCleared`, `ShutdownEnds`, `CancelledCallReturns`), which the prover does not handle under fairness;
* `AppliedInReferenceOrder`, whose reference is a recursive traversal (the order of parents and the exact set are proved, see above);
* `PacketsAsSent` and `NumbersSound`, which say what a decoding or a carry computes for all inputs: induction over data;
* `MessagesSound` and `TritsSound`: MessageSyntax and TritBuf have RECURSIVE definitions, which keep the SMT backend of the prover away.

## Not modelled, and the plan

The reasons for leaving parts out are with the components in `PROJECT.json`: the REST API, dashboard and MQTT (they
present what the node knows), configuration and command line tools, Curl-p, Kerl's sponge and Winternitz signatures (functions on
large inputs), libp2p, RocksDB and sled (external), the UDP server and the packet signatures of autopeering.

Left for later, in this order:

1. Locks of the Tangle across await points (`tangle.rs:346`), deadlock freedom.
2. An abstract specification of confirmation (a sequence of milestones, each with the set of messages it
   references) that Solidification and WhiteFlag implement.
3. A crash between the commit of a milestone and the flags of its messages, composed with Pruning.
