------------------------------- MODULE Pruning ------------------------------
(***************************************************************************)
(* Pruning: the consensus worker deletes the data of old milestones while  *)
(* messages keep arriving, and keeps as solid entry points what the cones  *)
(* of later milestones still refer to.                                     *)
(*                                                                         *)
(* A milestone is pruned in steps between which messages arrive and the    *)
(* node may crash: the traversal of its cone, the search for unconfirmed   *)
(* messages, the truncation of the old solid entry points, the commit of   *)
(* the batch and the update of the snapshot info.  A message arrives in    *)
(* steps too: the edge to each parent, then the message and its metadata,  *)
(* then its row among the unreferenced messages, which another worker      *)
(* writes in batches.  Every message arrives once.                         *)
(***************************************************************************)
EXTENDS Integers, FiniteSets, Functions, FiniteSetsExt

CONSTANTS
    MessageIds,                 \* messages that arrive
    Genesis,                    \* the solid entry point of the snapshot
    Dags,                       \* choices of the parents of every message
    Requested,                  \* messages that the node requests
    Absent,
    MaxIndex,                   \* bound: milestones
    MaxAhead,                   \* bound: milestones known and not confirmed
    MaxArriving,                \* bound: messages on their way into the storage
    PruningDelay,               \* pruning_delay
    MitigationThreshold,        \* below_max_depth + EXTRA_PRUNING_DEPTH
    PRUNING_BATCH_SIZE_MAX,
    KEEP_INITIAL_SNAPSHOT_SEPS,
    MaxCrashes                  \* bound: crashes

Nodes == MessageIds \cup {Genesis}

(* The consensus worker raises the delay above the depth at which it       *)
(* relies on the coordinator, and the entry points of the snapshot are     *)
(* kept for longer than that.  Every message has a parent and none is in   *)
(* its own past, since it contains the hashes of its parents.              *)
ASSUME PruningAssumption ==
    /\ IsFiniteSet(MessageIds) /\ Genesis \notin MessageIds /\ Absent \notin Nat
    /\ PruningDelay \in Nat /\ MitigationThreshold \in Nat /\ PRUNING_BATCH_SIZE_MAX \in Nat
    /\ KEEP_INITIAL_SNAPSHOT_SEPS \in Nat
    /\ MitigationThreshold <= PruningDelay
    /\ MitigationThreshold <= KEEP_INITIAL_SNAPSHOT_SEPS + 1
    /\ \A dag \in Dags :
        /\ dag \in [MessageIds -> SUBSET Nodes]
        /\ \A m \in MessageIds : dag[m] # {}
        /\ \A X \in SUBSET MessageIds : X # {} => \E m \in X : dag[m] \cap X = {}

VARIABLES
    parents,        \* the parents of every message
    messages,       \* storage: messages with their metadata
    conf,           \* metadata: the index that confirmed a message, or 0
    edges,          \* storage: parent and child
    unreferenced,   \* storage: index of arrival and message
    arrival,        \* how far a message is on its way into the storage
    inserter,       \* rows of unreferenced messages that are not committed
    latest,         \* the tangle's latest milestone index
    milestones,     \* storage: index -> message of a milestone
    sepsStored,     \* storage: solid entry point -> index
    infoIndex,      \* storage: the pruning index of the snapshot info
    ledger,         \* the ledger index
    seps,           \* the tangle's solid entry points
    pruningIndex,   \* the tangle's pruning index
    NUM_PRUNINGS,
    pruning,        \* the step of prune that is next, or "idle"
    target,         \* the last index of the running call of prune
    batch,          \* what the batch deletes, and the new solid entry points
    arrivedAt,      \* history: the ledger index when a message was stored
    broken,         \* history: what a crash interrupted: "seps", "info" or "no"
    failed,         \* history: what prune did not find when it returned an error
    crashes

storageVars == << messages, edges, unreferenced, milestones, sepsStored, infoIndex >>
arrivalVars == << arrival, inserter, latest >>
pruneVars == << seps, pruningIndex, NUM_PRUNINGS, pruning, target, batch >>
pruningVars == << parents, storageVars, arrivalVars, conf, ledger, pruneVars, arrivedAt, broken, failed, crashes >>

NoBatch == [messages |-> {}, edges |-> {}, unreferenced |-> {}, seps |-> Absent]
-----------------------------------------------------------------------------
Arriving == {m \in MessageIds : arrival[m] \in {"edges", "stored"}}

(* Tangle::insert writes the edge to a parent, before the message itself.   *)
(* What a crash cut off may come again.                                    *)
WriteEdge(m, p) ==
    /\ arrival[m] \in {"none", "cut", "edges"} /\ p \in parents[m]
    /\ Cardinality(Arriving \cup {m}) <= MaxArriving
    /\ arrival' = [arrival EXCEPT ![m] = "edges"]
    /\ edges' = edges \cup {<< p, m >>}
    /\ UNCHANGED << parents, messages, unreferenced, milestones, sepsStored, infoIndex, inserter, latest,
                    conf, ledger,
                    pruneVars, arrivedAt, broken, failed, crashes >>

(* storage_insert, after the last edge. *)
StoreArrived(m) ==
    /\ arrival[m] = "edges" /\ parents[m] \X {m} \subseteq edges
    /\ arrival' = [arrival EXCEPT ![m] = "stored"]
    /\ messages' = messages \cup {m}
    /\ arrivedAt' = [arrivedAt EXCEPT ![m] = ledger]
    /\ UNCHANGED << parents, edges, unreferenced, milestones, sepsStored, infoIndex, inserter, latest, conf, ledger,
                    pruneVars, broken, failed, crashes >>

(* The processor sends a message that was not requested to the inserter of *)
(* unreferenced messages, with the latest milestone index.                 *)
SettleArrived(m) ==
    /\ arrival[m] = "stored"
    /\ arrival' = [arrival EXCEPT ![m] = "settled"]
    /\ inserter' = IF m \in Requested THEN inserter ELSE inserter \cup {<< latest, m >>}
    /\ UNCHANGED << parents, storageVars, latest, conf, ledger, pruneVars, arrivedAt, broken, failed, crashes >>

(* The inserter commits its batch. *)
InsertUnreferenced ==
    /\ inserter # {}
    /\ unreferenced' = unreferenced \cup inserter
    /\ inserter' = {}
    /\ UNCHANGED << parents, messages, edges, milestones, sepsStored, infoIndex, arrival, latest, conf, ledger,
                    pruneVars, arrivedAt, broken, failed, crashes >>

(* A milestone becomes known. *)
NewMilestone ==
    /\ latest < MaxIndex /\ latest < ledger + MaxAhead
    /\ latest' = latest + 1
    /\ UNCHANGED << parents, storageVars, arrival, inserter, conf, ledger, pruneVars, arrivedAt, broken,
                    failed, crashes >>

(* What a traversal from start reaches that does not go on at the members  *)
(* of stop.                                                                *)
ConeOf(start, stop) ==
    LET cone[m \in MessageIds] ==
            {m} \cup UNION {IF p \in MessageIds THEN cone[p] ELSE {p} : p \in parents[m] \ stop}
    IN  IF start \in stop THEN {} ELSE cone[start]

UnconfirmedCone(m) == ConeOf(m, {Genesis} \cup {x \in MessageIds : conf[x] # 0})

(* should_prune: the first and the last index to prune. *)
should_prune(l) ==
    LET pruning_index == pruningIndex + 1
    IN  IF l < pruning_index + PruningDelay THEN << >>
        ELSE << pruning_index, Min({l - PruningDelay, pruning_index + PRUNING_BATCH_SIZE_MAX}) >>

(* A milestone is confirmed, and prune is called unless the tangle is not  *)
(* synced.  What the code relies on of the coordinator: it confirms        *)
(* nothing that attaches to a message that was confirmed more than         *)
(* MitigationThreshold milestones before.                                  *)
Confirm(m, synced) ==
    LET n == ledger + 1
        new == UnconfirmedCone(m)
        range == should_prune(n)
    IN  /\ pruning = "idle" /\ n <= latest
        /\ m \in messages /\ conf[m] = 0
        /\ new \subseteq messages
        /\ \A p \in UNION {parents[y] : y \in new} :
                p \in new \/ (IF p = Genesis THEN 0 ELSE conf[p]) >= n - MitigationThreshold
        /\ conf' = [x \in MessageIds |-> IF x \in new THEN n ELSE conf[x]]
        /\ ledger' = n
        /\ milestones' = [i \in DOMAIN milestones \cup {n} |-> IF i = n THEN m ELSE milestones[i]]
        /\ IF ~ synced \/ range = << >> THEN UNCHANGED << pruning, target >>
           ELSE pruning' = "confirmed" /\ target' = range[2]
        /\ UNCHANGED << parents, messages, edges, unreferenced, sepsStored, infoIndex, arrivalVars,
                        seps, pruningIndex, NUM_PRUNINGS, batch, arrivedAt, broken, failed, crashes >>
-----------------------------------------------------------------------------
(* prune, for the index after the pruning index. *)
IndexToPrune == pruningIndex + 1

(* prune returns MissingMilestone, MissingMessage or MissingMetadata; the  *)
(* consensus worker calls it again after the next milestone.               *)
PruneFails(missing) ==
    /\ pruning' = "idle" /\ batch' = NoBatch /\ failed' = failed \cup {missing}
    /\ UNCHANGED << parents, storageVars, arrivalVars, conf, ledger, seps, pruningIndex, NUM_PRUNINGS,
                    target, arrivedAt, broken, crashes >>

(* The traversal ends at solid entry points. *)
TraversedAll(start) == ConeOf(start, {})
Traversed(start) == ConeOf(start, DOMAIN seps)

Approvers(m) == {e[2] : e \in {x \in edges : x[1] = m}}

(* An approver that is not confirmed counts as confirmed later. *)
approver_conf_index(id) == IF conf[id] # 0 THEN conf[id] ELSE IndexToPrune + MitigationThreshold

max_conf_index(m, visited) ==
    Max({IndexToPrune} \cup {approver_conf_index(id) : id \in Approvers(m) \ visited})

KeptFromIndex(current) == {s \in DOMAIN current : current[s] > IndexToPrune + 1}

KeptSeps(current) ==
    {s \in DOMAIN current : NUM_PRUNINGS < KEEP_INITIAL_SNAPSHOT_SEPS \/ current[s] > IndexToPrune}

(* The edges to the parents of deleted messages. *)
prune_edge(ms) == {e \in edges : e[2] \in ms}

(* prune_confirmed_data, and the solid entry points replaced in the tangle. *)
PruneConfirmedData ==
    LET visited == Traversed(milestones[IndexToPrune])
        new == {m \in visited : max_conf_index(m, visited) > IndexToPrune}
        kept == KeptSeps(seps)
        next == [s \in new \cup kept |-> IF s \in kept THEN seps[s] ELSE max_conf_index(s, visited)]
    IN  /\ pruning = "confirmed"
        /\ \/ /\ IndexToPrune \notin DOMAIN milestones
              /\ PruneFails("milestone")
           \/ /\ IndexToPrune \in DOMAIN milestones
              /\ ~ visited \subseteq messages
              /\ PruneFails("message")
           \/ /\ IndexToPrune \in DOMAIN milestones
              /\ \E m \in visited \cap messages : ~ Approvers(m) \subseteq messages
              /\ PruneFails("metadata")
           \/ /\ IndexToPrune \in DOMAIN milestones
              /\ visited \subseteq messages /\ \A m \in visited : Approvers(m) \subseteq messages
              /\ batch' = [messages |-> visited,
                           edges |-> prune_edge(visited),
                           unreferenced |-> {},
                           seps |-> next]
              /\ seps' = next
              /\ NUM_PRUNINGS' = Min({NUM_PRUNINGS + 1, KEEP_INITIAL_SNAPSHOT_SEPS})
              /\ pruning' = "unconfirmed"
              /\ UNCHANGED << parents, storageVars, arrivalVars, conf, ledger, pruningIndex, target,
                              arrivedAt, broken, failed, crashes >>

(* prune_milestone_data and prune_unconfirmed_data: an unreferenced message *)
(* of this index, unless it was confirmed or one of its approvers was.     *)
PruneUnconfirmedData ==
    LET unconf == {m \in messages :
                       /\ << IndexToPrune, m >> \in unreferenced /\ conf[m] = 0
                       /\ \A a \in Approvers(m) \cap messages : conf[a] = 0}
    IN  /\ pruning = "unconfirmed"
        /\ batch' = [batch EXCEPT !.messages = @ \cup unconf,
                                  !.edges = @ \cup prune_edge(unconf),
                                  !.unreferenced = {<< IndexToPrune, m >> : m \in unconf}]
        /\ pruning' = "truncate"
        /\ UNCHANGED << parents, storageVars, arrivalVars, conf, ledger, seps, pruningIndex, NUM_PRUNINGS, target,
                        arrivedAt, broken, failed, crashes >>

TruncateSeps ==
    /\ pruning = "truncate"
    /\ sepsStored' = [s \in {} |-> 0]
    /\ pruning' = "commit"
    /\ UNCHANGED << parents, messages, edges, unreferenced, milestones, infoIndex, arrivalVars, conf, ledger,
                    seps, pruningIndex,
                    NUM_PRUNINGS, target, batch, arrivedAt, broken, failed, crashes >>

BatchCommit ==
    /\ pruning = "commit"
    /\ messages' = messages \ batch.messages
    /\ edges' = edges \ batch.edges
    /\ unreferenced' = unreferenced \ batch.unreferenced
    /\ milestones' = Restrict(milestones, DOMAIN milestones \ {IndexToPrune})
    /\ sepsStored' = [s \in DOMAIN sepsStored \cup DOMAIN batch.seps |->
                          IF s \in DOMAIN batch.seps THEN batch.seps[s] ELSE sepsStored[s]]
    /\ pruningIndex' = IndexToPrune
    /\ batch' = NoBatch
    /\ pruning' = "info"
    /\ UNCHANGED << parents, infoIndex, arrivalVars, conf, ledger, seps, NUM_PRUNINGS, target, arrivedAt,
                    broken, failed, crashes >>

UpdateSnapshotInfo ==
    /\ pruning = "info"
    /\ infoIndex' = pruningIndex
    /\ pruning' = IF pruningIndex < target THEN "confirmed" ELSE "idle"
    /\ UNCHANGED << parents, messages, edges, unreferenced, milestones, sepsStored, arrivalVars, conf,
                    ledger, seps, pruningIndex,
                    NUM_PRUNINGS, target, batch, arrivedAt, broken, failed, crashes >>

(* A crash, and the start of the snapshot worker, which fills the tangle   *)
(* from the storage.  What was on its way is cut off where it is.          *)
Restart ==
    /\ crashes < MaxCrashes
    /\ crashes' = crashes + 1
    /\ seps' = sepsStored
    /\ pruningIndex' = infoIndex
    /\ NUM_PRUNINGS' = 0
    /\ pruning' = "idle" /\ batch' = NoBatch
    /\ broken' = IF pruning = "commit" THEN "seps" ELSE IF pruning = "info" THEN "info" ELSE broken
    /\ arrival' = [m \in MessageIds |-> IF arrival[m] = "edges" THEN "cut"
                                        ELSE IF arrival[m] = "stored" THEN "settled" ELSE arrival[m]]
    /\ inserter' = {} /\ latest' = ledger
    /\ UNCHANGED << parents, storageVars, conf, ledger, target, arrivedAt, failed >>

PruningInit ==
    /\ parents \in Dags
    /\ messages = {} /\ edges = {} /\ unreferenced = {} /\ milestones = [i \in {} |-> Absent]
    /\ arrival = [m \in MessageIds |-> "none"] /\ inserter = {} /\ latest = 0
    /\ sepsStored = [s \in {Genesis} |-> 0] /\ seps = sepsStored
    /\ infoIndex = 0 /\ pruningIndex = 0 /\ ledger = 0 /\ NUM_PRUNINGS = 0
    /\ conf = [m \in MessageIds |-> 0] /\ arrivedAt = [m \in MessageIds |-> Absent]
    /\ pruning = "idle" /\ target = 0 /\ batch = NoBatch
    /\ broken = "no" /\ failed = {} /\ crashes = 0

PruningNext ==
    \/ \E m \in MessageIds, p \in Nodes : WriteEdge(m, p)
    \/ \E m \in MessageIds : StoreArrived(m) \/ SettleArrived(m)
    \/ InsertUnreferenced
    \/ NewMilestone
    \/ \E m \in MessageIds, synced \in BOOLEAN : Confirm(m, synced)
    \/ PruneConfirmedData
    \/ PruneUnconfirmedData
    \/ TruncateSeps
    \/ BatchCommit
    \/ UpdateSnapshotInfo
    \/ Restart

PruningSpec == PruningInit /\ [][PruningNext]_pruningVars
-----------------------------------------------------------------------------
BeingPruned == broken = "info" \/ pruning \in {"unconfirmed", "truncate", "commit"}

(* The past cone of every milestone that is not pruned can be walked: each *)
(* of its messages is stored, and each of their parents is stored or a     *)
(* solid entry point, in the tangle and, between two calls of prune, in    *)
(* the storage.  A crash costs this only when it comes between the         *)
(* truncation and the commit.                                              *)
ConesComplete ==
    broken # "seps" =>
        \A m \in MessageIds : conf[m] > pruningIndex + (IF BeingPruned THEN 1 ELSE 0) =>
            /\ m \in messages
            /\ \A p \in parents[m] : p \in messages \cup DOMAIN seps
            /\ pruning = "idle" => \A p \in parents[m] : p \in messages \cup DOMAIN sepsStored

(* The traversal never misses a message: one that it reaches is missing    *)
(* only after a crash between the truncation of the solid entry points and *)
(* the commit, and a milestone only after a crash between the commit and   *)
(* the update of the snapshot info.                                        *)
PruningSucceeds ==
    /\ "milestone" \in failed => broken = "info"
    /\ "message" \in failed => broken = "seps"

(* An edge leads to a stored message, or to one whose edges are being      *)
(* written or were when the node crashed, and to none that was deleted:    *)
(* only such an approver makes prune fail with MissingMetadata.            *)
EdgesLeadToMessages == \A e \in edges : e[2] \in messages \/ arrival[e[2]] \in {"edges", "cut"}

(* The messages of the last PruningDelay milestones are kept, confirmed or *)
(* not.                                                                    *)
RecentKept ==
    \A m \in MessageIds :
        /\ arrivedAt[m] # Absent
        /\ conf[m] > ledger - PruningDelay \/ arrivedAt[m] > ledger - PruningDelay
        => m \in messages

(* Pruning deletes nothing that it will look for later, no end of an edge   *)
(* that stays, and nothing within the delay (prune, should_prune).          *)
PrunedSafely ==
    /\ PruningSucceeds
    /\ EdgesLeadToMessages
    /\ RecentKept
=============================================================================
