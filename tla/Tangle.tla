------------------------------- MODULE Tangle -------------------------------
(***************************************************************************)
(* The vertex cache of the Tangle and the storage behind it                *)
(* (bee-tangle: tangle.rs, vertices.rs, vertex.rs).                        *)
(*                                                                         *)
(* Many tasks of the node call the Tangle at the same time.  Every access  *)
(* to a vertex takes the lock of its table for one critical section and    *)
(* gives it back before the next one, and the storage is read and written  *)
(* outside of every lock.  A step of this module is one critical section   *)
(* or one storage access; a call is a sequence of steps of one task, and   *)
(* the steps of all tasks interleave.                                      *)
(*                                                                         *)
(* The content of a message never changes, so a message is its identifier. *)
(* MessageMetadata does change: it is modelled by the set of the updates   *)
(* that were applied to it (marked solid, referenced by a milestone...).   *)
(***************************************************************************)
EXTENDS Integers, FiniteSets

CONSTANTS
  Messages,   \* message identifiers
  Parents,    \* Parents[m]: the parents of m
  Updates,    \* the updates a task may apply to a message's metadata
  Tasks,      \* the tasks that call the Tangle
  MaxLen,     \* max_len: the cache size above which insertions evict
  LowLen,     \* (1 - CACHE_THRESHOLD_FACTOR) * max_len: where eviction stops
  MaxCalls,   \* bound: the number of calls in a behaviour
  Ops,        \* the operations that the tasks call
  None

ASSUME TangleAssumption ==
  /\ IsFiniteSet(Tasks) /\ IsFiniteSet(Messages)
  /\ Parents \in [Messages -> SUBSET Messages]
  /\ \A s \in SUBSET Updates : s # None
  /\ Messages # {} /\ Updates # {}
  /\ MaxLen \in Nat /\ LowLen \in 0 .. MaxLen /\ MaxCalls \in Nat
  /\ Ops \subseteq {"insert", "get", "update", "contains", "children"}

VARIABLES
  \* Vertices: the cache.
  present,          \* the keys of the tables
  metadata,         \* Vertex.message: None in an empty or absent vertex
  children,         \* Vertex.children.0
  exhaustive,       \* the vertices whose exhaustive flag (children.1) is set
  eviction_blocks,  \* Vertex.eviction_blocks
  \* The storage.
  stored,           \* column families Message and MessageMetadata
  approvers,        \* column family (parent, child)
  \* The tasks: where they are in a call, its arguments and local variables.
  pc, op, id, upd,
  stage,            \* which of its callers insert_inner returns to
  exists,           \* the result of pull_message
  fresh,            \* the result of insert_inner: the message was not there
  md,               \* the metadata read from, or to be written to, the storage
  todo,             \* the parents still to be processed, or fetched approvers
  calls,            \* number of calls begun
  applied           \* history: the updates whose call has returned

cacheVars == <<present, metadata, children, exhaustive, eviction_blocks>>
storeVars == <<stored, approvers>>
callVars  == <<op, id, upd, calls>>
vars == <<cacheVars, storeVars, callVars, pc, stage, exists, fresh, md, todo, applied>>

Metadata == SUBSET Updates

Pcs == {"idle", "pull", "fetch", "restore", "insert", "link", "evict",
        "evicting", "access", "unblock", "edges", "store", "lookup",
        "approvers", "merge"}

Goto(t, label) == pc' = [pc EXCEPT ![t] = label]

(***************************************************************************)
(* A call begins.  Inserting is what the message processor does with any   *)
(* message; a task that updates or reads may ask for any identifier.       *)
(***************************************************************************)
Call(t) ==
  /\ pc[t] = "idle"
  /\ calls < MaxCalls
  /\ \E o \in Ops, m \in Messages, u \in Updates :
       /\ op' = [op EXCEPT ![t] = o]
       /\ id' = [id EXCEPT ![t] = m]
       /\ upd' = [upd EXCEPT ![t] = u]
       /\ Goto(t, IF o = "children" THEN "lookup" ELSE "pull")
  /\ calls' = calls + 1
  /\ stage' = [stage EXCEPT ![t] = "pull"]
  /\ UNCHANGED <<cacheVars, storeVars, exists, fresh, md, todo, applied>>

(***************************************************************************)
(* Vertex.  prevent_eviction and allow_eviction count the tasks that rely  *)
(* on a vertex staying in the cache.                                       *)
(***************************************************************************)
PreventEviction(m) ==
  eviction_blocks' = [eviction_blocks EXCEPT ![m] = @ + 1]

AllowEviction(m) ==
  eviction_blocks' = [eviction_blocks EXCEPT ![m] = @ - 1]

\* Mutation: pop_random ignores the blocks.
CanEvictAny(m) == TRUE

CanEvict(m) == eviction_blocks[m] = 0

\* contains() calls pull_message with prevent_eviction = false.
Prevents(t) == op[t] # "contains"

\* Where a call goes on once pull_message has returned.
AfterPull(t) ==
  CASE op[t] = "insert"   -> "insert"
    [] op[t] = "contains" -> "idle"
    [] OTHER              -> "access"

(***************************************************************************)
(* pull_message: nothing to do when the cache holds the message, otherwise *)
(* read the storage (outside of any lock) and insert what was found.       *)
(***************************************************************************)
PullCached(t) ==
  /\ pc[t] = "pull"
  /\ metadata[id[t]] # None
  /\ IF Prevents(t) THEN PreventEviction(id[t]) ELSE UNCHANGED eviction_blocks
  /\ exists' = [exists EXCEPT ![t] = TRUE]
  /\ Goto(t, AfterPull(t))
  /\ UNCHANGED <<present, metadata, children, exhaustive, storeVars, callVars,
                 stage, fresh, md, todo, applied>>

PullMissing(t) ==
  /\ pc[t] = "pull"
  /\ metadata[id[t]] = None
  /\ Goto(t, "fetch")
  /\ UNCHANGED <<cacheVars, storeVars, callVars, stage, exists, fresh, md, todo,
                 applied>>

\* storage_get reads the message and then its metadata; storage_insert writes
\* them in the same order and a message is never rewritten differently, so
\* the pair of reads sees what one read of the metadata sees.
StorageGet(t) ==
  /\ pc[t] = "fetch"
  /\ exists' = [exists EXCEPT ![t] = stored[id[t]] # None]
  /\ md' = [md EXCEPT ![t] = stored[id[t]]]
  /\ Goto(t, IF stored[id[t]] # None THEN "restore" ELSE AfterPull(t))
  /\ UNCHANGED <<cacheVars, storeVars, callVars, stage, fresh, todo, applied>>

(***************************************************************************)
(* insert_inner(m, meta, prevent), its first critical section: fetch or    *)
(* create the vertex, block its eviction if asked to, and fill it unless   *)
(* it holds the message already.                                           *)
(***************************************************************************)
\* Mutation: the vertex is filled even if it holds the message already.
InsertInnerOverwriting(t, m, meta, prevent) ==
  /\ present' = present \cup {m}
  /\ IF prevent THEN PreventEviction(m) ELSE UNCHANGED eviction_blocks
  /\ fresh' = [fresh EXCEPT ![t] = metadata[m] = None]
  /\ metadata' = [metadata EXCEPT ![m] = meta]
  /\ todo' = [todo EXCEPT ![t] = IF metadata[m] = None THEN Parents[m] ELSE {}]
  /\ Goto(t, "link")
  /\ UNCHANGED <<children, exhaustive>>

InsertInner(t, m, meta, prevent) ==
  /\ present' = present \cup {m}
  /\ IF prevent THEN PreventEviction(m) ELSE UNCHANGED eviction_blocks
  /\ fresh' = [fresh EXCEPT ![t] = metadata[m] = None]
  /\ metadata' = [metadata EXCEPT ![m] = IF @ = None THEN meta ELSE @]
  /\ todo' = [todo EXCEPT ![t] = IF metadata[m] = None THEN Parents[m] ELSE {}]
  /\ Goto(t, "link")
  /\ UNCHANGED <<children, exhaustive>>

\* insert_inner called by pull_message with what the storage returned.
Restore(t) ==
  /\ pc[t] = "restore"
  /\ InsertInner(t, id[t], md[t], Prevents(t))
  /\ UNCHANGED <<storeVars, callVars, stage, exists, md, applied>>

\* insert_inner called by insert with the metadata of a message that arrived.
Insert(t) ==
  /\ pc[t] = "insert"
  /\ InsertInner(t, id[t], {}, ~exists[t])
  /\ stage' = [stage EXCEPT ![t] = "insert"]
  /\ md' = [md EXCEPT ![t] = {}]
  /\ UNCHANGED <<storeVars, callVars, exists, applied>>

\* The rest of insert_inner: each parent gets the new child.
AddChild(t) ==
  /\ pc[t] = "link"
  /\ \E p \in todo[t] :
       /\ present' = present \cup {p}
       /\ children' = [children EXCEPT ![p] = @ \cup {id[t]}]
       /\ todo' = [todo EXCEPT ![t] = @ \ {p}]
  /\ UNCHANGED <<metadata, exhaustive, eviction_blocks, storeVars, callVars, pc,
                 stage, exists, fresh, md, applied>>

Linked(t) ==
  /\ pc[t] = "link"
  /\ todo[t] = {}
  /\ Goto(t, "evict")
  /\ UNCHANGED <<cacheVars, storeVars, callVars, stage, exists, fresh, md, todo,
                 applied>>

(***************************************************************************)
(* perform_eviction, the end of insert_inner.  pop_random takes a vertex   *)
(* that nobody blocks from a table whose lock is free; it may give up.     *)
(***************************************************************************)
Evicted(t) == IF stage[t] = "pull" THEN AfterPull(t) ELSE "unblock"

PerformEviction(t) ==
  /\ pc[t] = "evict"
  /\ Goto(t, IF Cardinality(present) > MaxLen THEN "evicting" ELSE Evicted(t))
  /\ UNCHANGED <<cacheVars, storeVars, callVars, stage, exists, fresh, md, todo,
                 applied>>

PopRandom(t) ==
  /\ pc[t] = "evicting"
  /\ Cardinality(present) > LowLen
  /\ \E m \in present :
       /\ CanEvict(m)
       /\ present' = present \ {m}
       /\ metadata' = [metadata EXCEPT ![m] = None]
       /\ children' = [children EXCEPT ![m] = {}]
       /\ exhaustive' = exhaustive \ {m}
  /\ UNCHANGED <<eviction_blocks, storeVars, callVars, pc, stage, exists, fresh,
                 md, todo, applied>>

StopEviction(t) ==
  /\ pc[t] = "evicting"
  /\ Goto(t, Evicted(t))
  /\ UNCHANGED <<cacheVars, storeVars, callVars, stage, exists, fresh, md, todo,
                 applied>>

(***************************************************************************)
(* insert: the vertex is released before the storage is written.           *)
(***************************************************************************)
Unblock(t) ==
  /\ pc[t] = "unblock"
  /\ AllowEviction(id[t])
  /\ todo' = [todo EXCEPT ![t] = IF fresh[t] THEN Parents[id[t]] ELSE {}]
  /\ Goto(t, IF fresh[t] THEN "edges" ELSE "idle")
  /\ UNCHANGED <<present, metadata, children, exhaustive, storeVars, callVars,
                 stage, exists, fresh, md, applied>>

StoreEdge(t) ==
  /\ pc[t] = "edges"
  /\ \E p \in todo[t] :
       /\ approvers' = approvers \cup {<<p, id[t]>>}
       /\ todo' = [todo EXCEPT ![t] = @ \ {p}]
  /\ UNCHANGED <<cacheVars, stored, callVars, pc, stage, exists, fresh, md, applied>>

EdgesStored(t) ==
  /\ pc[t] = "edges"
  /\ todo[t] = {}
  /\ Goto(t, "store")
  /\ UNCHANGED <<cacheVars, storeVars, callVars, stage, exists, fresh, md, todo,
                 applied>>

\* storage_insert, called by insert and by update_metadata after they have
\* given the vertex back.
StorageInsert(t) ==
  /\ pc[t] = "store"
  /\ stored' = [stored EXCEPT ![id[t]] = md[t]]
  /\ applied' = IF op[t] = "update" THEN applied \cup {<<id[t], upd[t]>>} ELSE applied
  /\ Goto(t, "idle")
  /\ UNCHANGED <<cacheVars, approvers, callVars, stage, exists, fresh, md, todo>>

(***************************************************************************)
(* get, get_metadata and get_vertex (get_with), and update_metadata: the   *)
(* critical section after pull_message.                                    *)
(***************************************************************************)
\* Mutation: allow_eviction is called whether or not pull_message found the
\* message.
ReleaseAlways(t) ==
  IF id[t] \in present THEN AllowEviction(id[t]) ELSE UNCHANGED eviction_blocks

\* allow_eviction, called only on a vertex that pull_message has blocked.
Release(t) ==
  IF id[t] \in present /\ exists[t] THEN AllowEviction(id[t]) ELSE UNCHANGED eviction_blocks

GetWith(t) ==
  /\ pc[t] = "access"
  /\ op[t] = "get"
  /\ Release(t)
  /\ Goto(t, "idle")
  /\ UNCHANGED <<present, metadata, children, exhaustive, storeVars, callVars,
                 stage, exists, fresh, md, todo, applied>>

\* The lock is dropped before the storage is written with the metadata that
\* the update has produced.
UpdateMetadata(t) ==
  /\ pc[t] = "access"
  /\ op[t] = "update"
  /\ Release(t)
  /\ LET m == id[t] IN
     \/ /\ m \in present /\ metadata[m] # None
        /\ metadata' = [metadata EXCEPT ![m] = @ \cup {upd[t]}]
        /\ md' = [md EXCEPT ![t] = metadata[m] \cup {upd[t]}]
        /\ Goto(t, "store")
     \/ /\ m \notin present \/ metadata[m] = None
        /\ Goto(t, "idle")
        /\ UNCHANGED <<metadata, md>>
  /\ UNCHANGED <<present, children, exhaustive, storeVars, callVars, stage,
                 exists, fresh, todo, applied>>

(***************************************************************************)
(* get_children (children_inner): the children in the vertex if they are   *)
(* exhaustive, otherwise the approvers in the storage are merged into it.  *)
(***************************************************************************)
ChildrenCached(t) ==
  /\ pc[t] = "lookup"
  /\ Goto(t, IF id[t] \in present \cap exhaustive THEN "idle" ELSE "approvers")
  /\ UNCHANGED <<cacheVars, storeVars, callVars, stage, exists, fresh, md, todo,
                 applied>>

FetchApprovers(t) ==
  /\ pc[t] = "approvers"
  /\ todo' = [todo EXCEPT ![t] = {c \in Messages : <<id[t], c>> \in approvers}]
  /\ Goto(t, "merge")
  /\ UNCHANGED <<cacheVars, storeVars, callVars, stage, exists, fresh, md, applied>>

SetExhaustive(t) ==
  /\ pc[t] = "merge"
  /\ present' = present \cup {id[t]}
  /\ exhaustive' = exhaustive \cup {id[t]}
  /\ children' = [children EXCEPT ![id[t]] = @ \cup todo[t]]
  /\ Goto(t, "idle")
  /\ UNCHANGED <<metadata, eviction_blocks, storeVars, callVars, stage, exists,
                 fresh, md, todo, applied>>

-----------------------------------------------------------------------------
Init ==
  /\ present = {} /\ exhaustive = {}
  /\ metadata = [m \in Messages |-> None]
  /\ children = [m \in Messages |-> {}]
  /\ eviction_blocks = [m \in Messages |-> 0]
  /\ stored = [m \in Messages |-> None]
  /\ approvers = {}
  /\ pc = [t \in Tasks |-> "idle"]
  /\ op = [t \in Tasks |-> "get"]
  /\ id = [t \in Tasks |-> CHOOSE m \in Messages : TRUE]
  /\ upd = [t \in Tasks |-> CHOOSE u \in Updates : TRUE]
  /\ stage = [t \in Tasks |-> "pull"]
  /\ exists = [t \in Tasks |-> FALSE]
  /\ fresh = [t \in Tasks |-> FALSE]
  /\ md = [t \in Tasks |-> None]
  /\ todo = [t \in Tasks |-> {}]
  /\ calls = 0
  /\ applied = {}

Step(t) ==
  \/ Call(t)
  \/ PullCached(t) \/ PullMissing(t) \/ StorageGet(t)
  \/ Restore(t) \/ Insert(t) \/ AddChild(t) \/ Linked(t)
  \/ PerformEviction(t) \/ PopRandom(t) \/ StopEviction(t)
  \/ Unblock(t) \/ StoreEdge(t) \/ EdgesStored(t) \/ StorageInsert(t)
  \/ GetWith(t) \/ UpdateMetadata(t)
  \/ ChildrenCached(t) \/ FetchApprovers(t) \/ SetExhaustive(t)

\* Every call allowed by the bound has returned.
Terminating ==
  /\ calls = MaxCalls
  /\ \A t \in Tasks : pc[t] = "idle"
  /\ UNCHANGED vars

Next ==
  \/ \E t \in Tasks : Step(t)
  \/ Terminating

Spec == Init /\ [][Next]_vars

-----------------------------------------------------------------------------
\* The types of the state.
TypeOK ==
  /\ present \subseteq Messages /\ exhaustive \subseteq Messages
  /\ metadata \in [Messages -> {None} \cup Metadata]
  /\ children \in [Messages -> SUBSET Messages]
  /\ eviction_blocks \in [Messages -> Nat]
  /\ stored \in [Messages -> {None} \cup Metadata]
  /\ approvers \subseteq Messages \X Messages
  /\ pc \in [Tasks -> Pcs]
  /\ op \in [Tasks -> {"insert", "get", "update", "contains", "children"}]
  /\ id \in [Tasks -> Messages]
  /\ upd \in [Tasks -> Updates]
  /\ stage \in [Tasks -> {"pull", "insert"}]
  /\ exists \in [Tasks -> BOOLEAN]
  /\ fresh \in [Tasks -> BOOLEAN]
  /\ md \in [Tasks -> {None} \cup Metadata]
  /\ todo \in [Tasks -> SUBSET Messages]
  /\ calls \in Nat
  /\ applied \subseteq Messages \X Updates

\* A task holds a block on the vertex of its message from the step that calls
\* prevent_eviction to the step that calls allow_eviction.
Holds(t) ==
  /\ op[t] \in {"insert", "get", "update"}
  /\ \/ pc[t] \in {"link", "evict", "evicting", "unblock"}
     \/ pc[t] \in {"access", "insert"} /\ exists[t]

Holders(m) == {t \in Tasks : id[t] = m /\ Holds(t)}

\* eviction_blocks counts the tasks that rely on the vertex, so the assertion
\* in Vertex::allow_eviction (eviction_blocks >= 0) never fails and a vertex
\* becomes evictable again once its last user is done.
BlocksAccounted ==
  \A m \in Messages : eviction_blocks[m] = Cardinality(Holders(m))

\* A vertex that a task holds is in the cache and filled: insert never meets
\* its "Just-inserted message is missing" panic, and update_metadata never
\* misses a message that pull_message has found.
HeldIsCached ==
  \A t \in Tasks : Holds(t) => /\ id[t] \in present
                               /\ metadata[id[t]] # None

\* The metadata of a message that stays in the cache only grows: a reload by
\* pull_message never overwrites what update_metadata has written meanwhile.
CachedMetadataGrows ==
  [][\A m \in Messages :
       metadata[m] # None /\ m \in present' => metadata[m] \subseteq metadata'[m]]_vars

\* What a caller reads: the cached metadata, or what a pull would load.
Visible(m) == IF metadata[m] # None THEN metadata[m] ELSE stored[m]

\* An update whose call to update_metadata has returned is not forgotten.
\* Holds as long as nothing is evicted; with evictions a task that has read
\* the storage before the update was written reinstates the old metadata.
NoLostUpdate ==
  \A m \in Messages, u \in Updates :
    <<m, u>> \in applied => Visible(m) # None /\ u \in Visible(m)

-----------------------------------------------------------------------------
\* Where a call is restricts what it is and what it has found out.
CallShape ==
  \A t \in Tasks :
    /\ pc[t] \in {"insert", "unblock", "edges"} => op[t] = "insert"
    /\ pc[t] = "access" => op[t] \in {"get", "update"}
    /\ pc[t] \in {"lookup", "approvers", "merge"} => op[t] = "children"
    /\ pc[t] \in {"pull", "fetch", "restore", "link", "evict", "evicting", "unblock"} =>
         op[t] # "children"
    /\ pc[t] \in {"pull", "fetch", "restore", "insert"} => stage[t] = "pull"
    /\ pc[t] \in {"link", "evict", "evicting"} =>
         IF stage[t] = "pull" THEN exists[t] ELSE op[t] = "insert"
    /\ pc[t] = "restore" => exists[t] /\ md[t] # None

\* The inductive invariant behind BlocksAccounted and HeldIsCached: only a
\* vertex that is in the cache has content.
CacheInv ==
  /\ TypeOK
  /\ CallShape
  /\ BlocksAccounted
  /\ HeldIsCached
  /\ \A m \in Messages : metadata[m] # None => m \in present
=============================================================================
