---------------------------- MODULE TangleProofs ----------------------------
(***************************************************************************)
(* The eviction blocks of the vertex cache are accounted for, for any      *)
(* number of tasks and messages and any cache size: CacheInv is inductive. *)
(***************************************************************************)
EXTENDS Tangle, FiniteSetTheorems, TLAPS

USE TangleAssumption

\* The holders of a vertex are finitely many tasks.
LEMMA HoldersFinite ==
  ASSUME NEW m
  PROVE  /\ IsFiniteSet(Holders(m)) /\ Cardinality(Holders(m)) \in Nat
         /\ IsFiniteSet(Holders(m)') /\ Cardinality(Holders(m)') \in Nat
BY FS_Subset, FS_CardinalityType, TangleAssumption DEF Holders

\* What a step of task t leaves alone in the other tasks.
OthersKeep(t) ==
  \A s \in Tasks \ {t} : /\ id'[s] = id[s]
                         /\ pc'[s] = pc[s] /\ op'[s] = op[s] /\ exists'[s] = exists[s]

\* A step in which t neither acquires nor releases a block.
LEMMA AccountKept ==
  ASSUME NEW t \in Tasks, BlocksAccounted, OthersKeep(t),
         UNCHANGED eviction_blocks,
         Holds(t)' <=> Holds(t),
         Holds(t) => id'[t] = id[t]
  PROVE  BlocksAccounted'
<1> SUFFICES ASSUME NEW m \in Messages
             PROVE  eviction_blocks'[m] = Cardinality(Holders(m))'
  BY DEF BlocksAccounted
<1>1. Holders(m)' = Holders(m)
  BY DEF Holders, OthersKeep, Holds
<1> QED BY <1>1 DEF BlocksAccounted

\* A step in which t calls prevent_eviction.
LEMMA AccountPrevented ==
  ASSUME NEW t \in Tasks, TypeOK, BlocksAccounted, OthersKeep(t),
         PreventEviction(id[t]), id'[t] = id[t], ~Holds(t), Holds(t)'
  PROVE  BlocksAccounted'
<1> SUFFICES ASSUME NEW m \in Messages
             PROVE  eviction_blocks'[m] = Cardinality(Holders(m))'
  BY DEF BlocksAccounted
<1>1. CASE m = id[t]
  <2>1. Holders(m)' = Holders(m) \cup {t} /\ t \notin Holders(m)
    BY <1>1 DEF Holders, OthersKeep, Holds
  <2>2. Cardinality(Holders(m)') = Cardinality(Holders(m)) + 1
    BY <2>1, HoldersFinite, FS_AddElement
  <2> QED BY <1>1, <2>2 DEF BlocksAccounted, PreventEviction, TypeOK
<1>2. CASE m # id[t]
  <2>1. Holders(m)' = Holders(m)
    BY <1>2 DEF Holders, OthersKeep, Holds
  <2> QED BY <1>2, <2>1 DEF BlocksAccounted, PreventEviction, TypeOK
<1> QED BY <1>1, <1>2

\* A step in which t calls allow_eviction.
LEMMA AccountAllowed ==
  ASSUME NEW t \in Tasks, TypeOK, BlocksAccounted, OthersKeep(t),
         AllowEviction(id[t]), id'[t] = id[t], Holds(t), ~Holds(t)'
  PROVE  BlocksAccounted'
<1> SUFFICES ASSUME NEW m \in Messages
             PROVE  eviction_blocks'[m] = Cardinality(Holders(m))'
  BY DEF BlocksAccounted
<1>1. CASE m = id[t]
  <2>1. Holders(m)' = Holders(m) \ {t} /\ t \in Holders(m)
    BY <1>1 DEF Holders, OthersKeep, Holds
  <2>2. Cardinality(Holders(m)') = Cardinality(Holders(m)) - 1
    BY <2>1, HoldersFinite, FS_RemoveElement
  <2> QED BY <1>1, <2>2 DEF BlocksAccounted, AllowEviction, TypeOK
<1>2. CASE m # id[t]
  <2>1. Holders(m)' = Holders(m)
    BY <1>2 DEF Holders, OthersKeep, Holds
  <2> QED BY <1>2, <2>1 DEF BlocksAccounted, AllowEviction, TypeOK
<1> QED BY <1>1, <1>2

\* Only a vertex that is in the cache has content.
ContentIsCached == \A m \in Messages : metadata[m] # None => m \in present

\* A vertex that somebody holds is not evictable.
LEMMA HeldNotEvictable ==
  ASSUME NEW t \in Tasks, TypeOK, BlocksAccounted, Holds(t)
  PROVE  ~CanEvict(id[t])
<1>1. t \in Holders(id[t])
  BY DEF Holders
<1>2. Cardinality(Holders(id[t])) # 0
  BY <1>1, HoldersFinite, FS_EmptySet
<1> QED BY <1>2 DEF BlocksAccounted, CanEvict, TypeOK

\* Every step of a task preserves the invariant, one action at a time.
LEMMA StepKeepsCacheInv ==
  ASSUME NEW t \in Tasks, CacheInv, Step(t)
  PROVE  CacheInv'
<1> USE DEF Goto, callVars, cacheVars, storeVars
<1>0. TypeOK /\ CallShape /\ BlocksAccounted /\ HeldIsCached /\ ContentIsCached
  BY DEF CacheInv, ContentIsCached
<1>1. CASE Call(t)
  <2> USE <1>0, <1>1 DEF Call
  <2>1. CallShape' /\ OthersKeep(t)
    BY DEF CallShape, TypeOK, Pcs, OthersKeep
  <2>2. BlocksAccounted'
    BY <2>1, AccountKept DEF Holds, CallShape, TypeOK
  <2>3. TypeOK'
    <3>1. eviction_blocks' \in [Messages -> Nat]
      BY <2>2, HoldersFinite DEF BlocksAccounted, TypeOK, PreventEviction, AllowEviction
    <3> QED BY <3>1 DEF TypeOK, Pcs, Metadata
  <2>4. HeldIsCached' /\ ContentIsCached'
    BY DEF HeldIsCached, ContentIsCached, Holds, CallShape, TypeOK, Metadata
  <2> QED BY <2>1, <2>2, <2>3, <2>4 DEF CacheInv, ContentIsCached
<1>2. CASE PullCached(t)
  <2> USE <1>0, <1>2 DEF PullCached, AfterPull, Prevents, PreventEviction
  <2>1. CallShape' /\ OthersKeep(t)
    BY DEF CallShape, TypeOK, Pcs, OthersKeep
  <2>2. BlocksAccounted'
    <3>1. CASE op[t] = "contains"
      BY <2>1, <3>1, AccountKept DEF Holds, CallShape, TypeOK
    <3>2. CASE op[t] # "contains"
      BY <2>1, <3>2, AccountPrevented DEF Holds, CallShape, TypeOK
    <3> QED BY <3>1, <3>2
  <2>3. TypeOK'
    <3>1. eviction_blocks' \in [Messages -> Nat]
      BY <2>2, HoldersFinite DEF BlocksAccounted, TypeOK, PreventEviction, AllowEviction
    <3> QED BY <3>1 DEF TypeOK, Pcs, Metadata
  <2>4. HeldIsCached' /\ ContentIsCached'
    BY DEF HeldIsCached, ContentIsCached, Holds, CallShape, TypeOK, Metadata
  <2> QED BY <2>1, <2>2, <2>3, <2>4 DEF CacheInv, ContentIsCached
<1>3. CASE PullMissing(t)
  <2> USE <1>0, <1>3 DEF PullMissing
  <2>1. CallShape' /\ OthersKeep(t)
    BY DEF CallShape, TypeOK, Pcs, OthersKeep
  <2>2. BlocksAccounted'
    BY <2>1, AccountKept DEF Holds, CallShape, TypeOK
  <2>3. TypeOK'
    <3>1. eviction_blocks' \in [Messages -> Nat]
      BY <2>2, HoldersFinite DEF BlocksAccounted, TypeOK, PreventEviction, AllowEviction
    <3> QED BY <3>1 DEF TypeOK, Pcs, Metadata
  <2>4. HeldIsCached' /\ ContentIsCached'
    BY DEF HeldIsCached, ContentIsCached, Holds, CallShape, TypeOK, Metadata
  <2> QED BY <2>1, <2>2, <2>3, <2>4 DEF CacheInv, ContentIsCached
<1>4. CASE StorageGet(t)
  <2> USE <1>0, <1>4 DEF StorageGet, AfterPull
  <2>1. CallShape' /\ OthersKeep(t)
    <3>1. CASE stored[id[t]] = None
      BY <3>1 DEF CallShape, TypeOK, Pcs, OthersKeep
    <3>2. CASE stored[id[t]] # None
      <4>1. pc' = [pc EXCEPT ![t] = "restore"] /\ exists' = [exists EXCEPT ![t] = TRUE]
        BY <3>2
      <4>2. md' = [md EXCEPT ![t] = stored[id[t]]] /\ UNCHANGED <<op, stage, id>>  OBVIOUS
      <4>3. CallShape'
        BY <3>2, <4>1, <4>2 DEF CallShape, TypeOK
      <4> QED  BY <4>1, <4>2, <4>3 DEF TypeOK, OthersKeep
    <3> QED BY <3>1, <3>2
  <2>2. BlocksAccounted'
    BY <2>1, AccountKept DEF Holds, CallShape, TypeOK
  <2>3. TypeOK'
    <3>1. eviction_blocks' \in [Messages -> Nat]
      BY <2>2, HoldersFinite DEF BlocksAccounted, TypeOK, PreventEviction, AllowEviction
    <3> QED BY <3>1 DEF TypeOK, Pcs, Metadata
  <2>4. HeldIsCached' /\ ContentIsCached'
    <3>1. \A x \in Tasks : Holds(x)' => Holds(x)
      BY DEF Holds, CallShape, TypeOK
    <3> QED BY <3>1 DEF HeldIsCached, ContentIsCached, TypeOK
  <2> QED BY <2>1, <2>2, <2>3, <2>4 DEF CacheInv, ContentIsCached
<1>5. CASE Restore(t)
  <2> USE <1>0, <1>5 DEF Restore, InsertInner, Prevents, PreventEviction
  <2>1. CallShape' /\ OthersKeep(t)
    BY DEF CallShape, TypeOK, Pcs, OthersKeep
  <2>2. BlocksAccounted'
    <3>1. CASE op[t] = "contains"
      BY <2>1, <3>1, AccountKept DEF Holds, CallShape, TypeOK
    <3>2. CASE op[t] # "contains"
      BY <2>1, <3>2, AccountPrevented DEF Holds, CallShape, TypeOK
    <3> QED BY <3>1, <3>2
  <2>3. TypeOK'
    <3>1. eviction_blocks' \in [Messages -> Nat]
      BY <2>2, HoldersFinite DEF BlocksAccounted, TypeOK, PreventEviction, AllowEviction
    <3> QED BY <3>1 DEF TypeOK, Pcs, Metadata
  <2>4. HeldIsCached' /\ ContentIsCached'
    BY DEF HeldIsCached, ContentIsCached, Holds, CallShape, TypeOK, Metadata
  <2> QED BY <2>1, <2>2, <2>3, <2>4 DEF CacheInv, ContentIsCached
<1>6. CASE Insert(t)
  <2> USE <1>0, <1>6 DEF Insert, InsertInner, PreventEviction
  <2>1. CallShape' /\ OthersKeep(t)
    BY DEF CallShape, TypeOK, Pcs, OthersKeep
  <2>2. BlocksAccounted'
    <3>1. CASE exists[t]
      BY <2>1, <3>1, AccountKept DEF Holds, CallShape, TypeOK
    <3>2. CASE ~exists[t]
      BY <2>1, <3>2, AccountPrevented DEF Holds, CallShape, TypeOK
    <3> QED BY <3>1, <3>2
  <2>3. TypeOK'
    <3>0. eviction_blocks' = [m \in Messages |-> eviction_blocks'[m]]
      BY DEF TypeOK, PreventEviction, AllowEviction
    <3>1. eviction_blocks' \in [Messages -> Nat]
      BY <2>2, <3>0, HoldersFinite DEF BlocksAccounted
    <3>2. metadata' \in [Messages -> {None} \cup Metadata] /\ md' \in [Tasks -> {None} \cup Metadata]
      BY DEF TypeOK, Metadata
    <3>3. todo' \in [Tasks -> SUBSET Messages] /\ fresh' \in [Tasks -> BOOLEAN]
      BY TangleAssumption DEF TypeOK
    <3>4. pc' \in [Tasks -> Pcs]
      BY DEF TypeOK, Pcs
    <3> QED BY <3>1, <3>2, <3>3, <3>4 DEF TypeOK
  <2>4. HeldIsCached' /\ ContentIsCached'
    BY DEF HeldIsCached, ContentIsCached, Holds, CallShape, TypeOK, Metadata
  <2> QED BY <2>1, <2>2, <2>3, <2>4 DEF CacheInv, ContentIsCached
<1>7. CASE AddChild(t)
  <2> USE <1>0, <1>7 DEF AddChild
  <2>1. CallShape' /\ OthersKeep(t)
    BY DEF CallShape, TypeOK, Pcs, OthersKeep
  <2>2. BlocksAccounted'
    BY <2>1, AccountKept DEF Holds, CallShape, TypeOK
  <2>3. TypeOK'
    <3>1. eviction_blocks' \in [Messages -> Nat]
      BY <2>2, HoldersFinite DEF BlocksAccounted, TypeOK, PreventEviction, AllowEviction
    <3> QED BY <3>1 DEF TypeOK, Pcs, Metadata
  <2>4. HeldIsCached' /\ ContentIsCached'
    BY DEF HeldIsCached, ContentIsCached, Holds, CallShape, TypeOK, Metadata
  <2> QED BY <2>1, <2>2, <2>3, <2>4 DEF CacheInv, ContentIsCached
<1>8. CASE Linked(t)
  <2> USE <1>0, <1>8 DEF Linked
  <2>1. CallShape' /\ OthersKeep(t)
    BY DEF CallShape, TypeOK, Pcs, OthersKeep
  <2>2. BlocksAccounted'
    BY <2>1, AccountKept DEF Holds, CallShape, TypeOK
  <2>3. TypeOK'
    <3>1. eviction_blocks' \in [Messages -> Nat]
      BY <2>2, HoldersFinite DEF BlocksAccounted, TypeOK, PreventEviction, AllowEviction
    <3> QED BY <3>1 DEF TypeOK, Pcs, Metadata
  <2>4. HeldIsCached' /\ ContentIsCached'
    BY DEF HeldIsCached, ContentIsCached, Holds, CallShape, TypeOK, Metadata
  <2> QED BY <2>1, <2>2, <2>3, <2>4 DEF CacheInv, ContentIsCached
<1>9. CASE PerformEviction(t)
  <2> USE <1>0, <1>9 DEF PerformEviction, Evicted, AfterPull
  <2>1. CallShape' /\ OthersKeep(t)
    BY DEF CallShape, TypeOK, Pcs, OthersKeep
  <2>2. BlocksAccounted'
    BY <2>1, AccountKept DEF Holds, CallShape, TypeOK
  <2>3. TypeOK'
    <3>1. eviction_blocks' \in [Messages -> Nat]
      BY <2>2, HoldersFinite DEF BlocksAccounted, TypeOK, PreventEviction, AllowEviction
    <3> QED BY <3>1 DEF TypeOK, Pcs, Metadata
  <2>4. HeldIsCached' /\ ContentIsCached'
    BY DEF HeldIsCached, ContentIsCached, Holds, CallShape, TypeOK, Metadata
  <2> QED BY <2>1, <2>2, <2>3, <2>4 DEF CacheInv, ContentIsCached
<1>10. CASE PopRandom(t)
  <2> USE <1>0, <1>10 DEF PopRandom
  <2>1. CallShape' /\ OthersKeep(t)
    BY DEF CallShape, TypeOK, Pcs, OthersKeep
  <2>2. BlocksAccounted'
    BY <2>1, AccountKept DEF Holds
  <2>3. TypeOK'
    <3>1. eviction_blocks' \in [Messages -> Nat]
      BY <2>2, HoldersFinite DEF BlocksAccounted, TypeOK, PreventEviction, AllowEviction
    <3> QED BY <3>1 DEF TypeOK, Pcs, Metadata
  <2>4. HeldIsCached' /\ ContentIsCached'
    <3>1. \A s \in Tasks : Holds(s)' <=> Holds(s)
      BY DEF Holds
    <3> QED BY <3>1, HeldNotEvictable DEF HeldIsCached, ContentIsCached, TypeOK
  <2> QED BY <2>1, <2>2, <2>3, <2>4 DEF CacheInv, ContentIsCached
<1>11. CASE StopEviction(t)
  <2> USE <1>0, <1>11 DEF StopEviction, Evicted, AfterPull
  <2>1. CallShape' /\ OthersKeep(t)
    BY DEF CallShape, TypeOK, Pcs, OthersKeep
  <2>2. BlocksAccounted'
    BY <2>1, AccountKept DEF Holds, CallShape, TypeOK
  <2>3. TypeOK'
    <3>1. eviction_blocks' \in [Messages -> Nat]
      BY <2>2, HoldersFinite DEF BlocksAccounted, TypeOK, PreventEviction, AllowEviction
    <3> QED BY <3>1 DEF TypeOK, Pcs, Metadata
  <2>4. HeldIsCached' /\ ContentIsCached'
    BY DEF HeldIsCached, ContentIsCached, Holds, CallShape, TypeOK, Metadata
  <2> QED BY <2>1, <2>2, <2>3, <2>4 DEF CacheInv, ContentIsCached
<1>12. CASE Unblock(t)
  <2> USE <1>0, <1>12 DEF Unblock
  <2>1. CallShape' /\ OthersKeep(t)
    BY DEF CallShape, TypeOK, Pcs, OthersKeep
  <2>2. BlocksAccounted'
    BY <2>1, AccountAllowed DEF Holds, CallShape, TypeOK
  <2>3. TypeOK'
    <3>0. eviction_blocks' = [m \in Messages |-> eviction_blocks'[m]]
      BY DEF TypeOK, PreventEviction, AllowEviction
    <3>1. eviction_blocks' \in [Messages -> Nat]
      BY <2>2, <3>0, HoldersFinite DEF BlocksAccounted
    <3>2. metadata' \in [Messages -> {None} \cup Metadata] /\ md' \in [Tasks -> {None} \cup Metadata]
      BY DEF TypeOK, Metadata
    <3>3. todo' \in [Tasks -> SUBSET Messages] /\ fresh' \in [Tasks -> BOOLEAN]
      BY TangleAssumption DEF TypeOK
    <3>4. pc' \in [Tasks -> Pcs]
      BY DEF TypeOK, Pcs
    <3> QED BY <3>1, <3>2, <3>3, <3>4 DEF TypeOK
  <2>4. HeldIsCached' /\ ContentIsCached'
    BY DEF HeldIsCached, ContentIsCached, Holds, CallShape, TypeOK, Metadata
  <2> QED BY <2>1, <2>2, <2>3, <2>4 DEF CacheInv, ContentIsCached
<1>13. CASE StoreEdge(t)
  <2> USE <1>0, <1>13 DEF StoreEdge
  <2>1. CallShape' /\ OthersKeep(t)
    BY DEF CallShape, TypeOK, Pcs, OthersKeep
  <2>2. BlocksAccounted'
    BY <2>1, AccountKept DEF Holds, CallShape, TypeOK
  <2>3. TypeOK'
    <3>1. eviction_blocks' \in [Messages -> Nat]
      BY <2>2, HoldersFinite DEF BlocksAccounted, TypeOK, PreventEviction, AllowEviction
    <3> QED BY <3>1 DEF TypeOK, Pcs, Metadata
  <2>4. HeldIsCached' /\ ContentIsCached'
    BY DEF HeldIsCached, ContentIsCached, Holds, CallShape, TypeOK, Metadata
  <2> QED BY <2>1, <2>2, <2>3, <2>4 DEF CacheInv, ContentIsCached
<1>14. CASE EdgesStored(t)
  <2> USE <1>0, <1>14 DEF EdgesStored
  <2>1. CallShape' /\ OthersKeep(t)
    BY DEF CallShape, TypeOK, Pcs, OthersKeep
  <2>2. BlocksAccounted'
    BY <2>1, AccountKept DEF Holds, CallShape, TypeOK
  <2>3. TypeOK'
    <3>1. eviction_blocks' \in [Messages -> Nat]
      BY <2>2, HoldersFinite DEF BlocksAccounted, TypeOK, PreventEviction, AllowEviction
    <3> QED BY <3>1 DEF TypeOK, Pcs, Metadata
  <2>4. HeldIsCached' /\ ContentIsCached'
    BY DEF HeldIsCached, ContentIsCached, Holds, CallShape, TypeOK, Metadata
  <2> QED BY <2>1, <2>2, <2>3, <2>4 DEF CacheInv, ContentIsCached
<1>15. CASE StorageInsert(t)
  <2> USE <1>0, <1>15 DEF StorageInsert
  <2>1. CallShape' /\ OthersKeep(t)
    BY DEF CallShape, TypeOK, Pcs, OthersKeep
  <2>2. BlocksAccounted'
    BY <2>1, AccountKept DEF Holds, CallShape, TypeOK
  <2>3. TypeOK'
    <3>1. eviction_blocks' \in [Messages -> Nat]
      BY <2>2, HoldersFinite DEF BlocksAccounted, TypeOK, PreventEviction, AllowEviction
    <3> QED BY <3>1 DEF TypeOK, Pcs, Metadata
  <2>4. HeldIsCached' /\ ContentIsCached'
    BY DEF HeldIsCached, ContentIsCached, Holds, CallShape, TypeOK, Metadata
  <2> QED BY <2>1, <2>2, <2>3, <2>4 DEF CacheInv, ContentIsCached
<1>16. CASE GetWith(t)
  <2> USE <1>0, <1>16 DEF GetWith, Release
  <2>1. CallShape' /\ OthersKeep(t)
    BY DEF CallShape, TypeOK, Pcs, OthersKeep
  <2>2. BlocksAccounted'
    <3>1. CASE exists[t]
      BY <2>1, <3>1, AccountAllowed DEF Holds, CallShape, TypeOK, HeldIsCached
    <3>2. CASE ~exists[t]
      BY <2>1, <3>2, AccountKept DEF Holds, CallShape, TypeOK
    <3> QED BY <3>1, <3>2
  <2>3. TypeOK'
    <3>0. eviction_blocks' = [m \in Messages |-> eviction_blocks'[m]]
      BY DEF TypeOK, PreventEviction, AllowEviction
    <3>1. eviction_blocks' \in [Messages -> Nat]
      BY <2>2, <3>0, HoldersFinite DEF BlocksAccounted
    <3>2. metadata' \in [Messages -> {None} \cup Metadata] /\ md' \in [Tasks -> {None} \cup Metadata]
      BY DEF TypeOK, Metadata
    <3>3. todo' \in [Tasks -> SUBSET Messages] /\ fresh' \in [Tasks -> BOOLEAN]
      BY TangleAssumption DEF TypeOK
    <3>4. pc' \in [Tasks -> Pcs]
      BY DEF TypeOK, Pcs
    <3> QED BY <3>1, <3>2, <3>3, <3>4 DEF TypeOK
  <2>4. HeldIsCached' /\ ContentIsCached'
    BY DEF HeldIsCached, ContentIsCached, Holds, CallShape, TypeOK, Metadata
  <2> QED BY <2>1, <2>2, <2>3, <2>4 DEF CacheInv, ContentIsCached
<1>17. CASE UpdateMetadata(t)
  <2> USE <1>0, <1>17 DEF UpdateMetadata, Release
  <2>1. CallShape' /\ OthersKeep(t)
    BY DEF CallShape, TypeOK, Pcs, OthersKeep
  <2>2. BlocksAccounted'
    <3>1. CASE exists[t]
      BY <2>1, <3>1, AccountAllowed DEF Holds, CallShape, TypeOK, HeldIsCached
    <3>2. CASE ~exists[t]
      BY <2>1, <3>2, AccountKept DEF Holds, CallShape, TypeOK
    <3> QED BY <3>1, <3>2
  <2>3. TypeOK'
    <3>0. eviction_blocks' = [m \in Messages |-> eviction_blocks'[m]]
      BY DEF TypeOK, PreventEviction, AllowEviction
    <3>1. eviction_blocks' \in [Messages -> Nat]
      BY <2>2, <3>0, HoldersFinite DEF BlocksAccounted
    <3>2. metadata' \in [Messages -> {None} \cup Metadata] /\ md' \in [Tasks -> {None} \cup Metadata]
      <4>1. id[t] \in Messages /\ upd[t] \in Updates
        BY DEF TypeOK
      <4>2. CASE id[t] \in present /\ metadata[id[t]] # None
        <5>1. metadata[id[t]] \cup {upd[t]} \in Metadata
          BY <4>1, <4>2 DEF TypeOK, Metadata
        <5>2. /\ metadata' = [metadata EXCEPT ![id[t]] = metadata[id[t]] \cup {upd[t]}]
              /\ md' = [md EXCEPT ![t] = metadata[id[t]] \cup {upd[t]}]
          BY <4>2
        <5> HIDE <1>17
        <5> QED BY <5>1, <5>2 DEF TypeOK
      <4>3. CASE id[t] \notin present \/ metadata[id[t]] = None
        BY <4>3 DEF TypeOK
      <4> QED BY <4>2, <4>3
    <3>3. todo' \in [Tasks -> SUBSET Messages] /\ fresh' \in [Tasks -> BOOLEAN]
      BY TangleAssumption DEF TypeOK
    <3>4. pc' \in [Tasks -> Pcs]
      BY DEF TypeOK, Pcs
    <3> QED BY <3>1, <3>2, <3>3, <3>4 DEF TypeOK
  <2>4. HeldIsCached' /\ ContentIsCached'
    BY DEF HeldIsCached, ContentIsCached, Holds, CallShape, TypeOK, Metadata
  <2> QED BY <2>1, <2>2, <2>3, <2>4 DEF CacheInv, ContentIsCached
<1>18. CASE ChildrenCached(t)
  <2> USE <1>0, <1>18 DEF ChildrenCached
  <2>1. CallShape' /\ OthersKeep(t)
    BY DEF CallShape, TypeOK, Pcs, OthersKeep
  <2>2. BlocksAccounted'
    BY <2>1, AccountKept DEF Holds, CallShape, TypeOK
  <2>3. TypeOK'
    <3>1. eviction_blocks' \in [Messages -> Nat]
      BY <2>2, HoldersFinite DEF BlocksAccounted, TypeOK, PreventEviction, AllowEviction
    <3> QED BY <3>1 DEF TypeOK, Pcs, Metadata
  <2>4. HeldIsCached' /\ ContentIsCached'
    BY DEF HeldIsCached, ContentIsCached, Holds, CallShape, TypeOK, Metadata
  <2> QED BY <2>1, <2>2, <2>3, <2>4 DEF CacheInv, ContentIsCached
<1>19. CASE FetchApprovers(t)
  <2> USE <1>0, <1>19 DEF FetchApprovers
  <2>1. CallShape' /\ OthersKeep(t)
    BY DEF CallShape, TypeOK, Pcs, OthersKeep
  <2>2. BlocksAccounted'
    BY <2>1, AccountKept DEF Holds, CallShape, TypeOK
  <2>3. TypeOK'
    <3>1. eviction_blocks' \in [Messages -> Nat]
      BY <2>2, HoldersFinite DEF BlocksAccounted, TypeOK, PreventEviction, AllowEviction
    <3> QED BY <3>1 DEF TypeOK, Pcs, Metadata
  <2>4. HeldIsCached' /\ ContentIsCached'
    BY DEF HeldIsCached, ContentIsCached, Holds, CallShape, TypeOK, Metadata
  <2> QED BY <2>1, <2>2, <2>3, <2>4 DEF CacheInv, ContentIsCached
<1>20. CASE SetExhaustive(t)
  <2> USE <1>0, <1>20 DEF SetExhaustive
  <2>1. CallShape' /\ OthersKeep(t)
    BY DEF CallShape, TypeOK, Pcs, OthersKeep
  <2>2. BlocksAccounted'
    BY <2>1, AccountKept DEF Holds, CallShape, TypeOK
  <2>3. TypeOK'
    <3>1. eviction_blocks' \in [Messages -> Nat]
      BY <2>2, HoldersFinite DEF BlocksAccounted, TypeOK, PreventEviction, AllowEviction
    <3> QED BY <3>1 DEF TypeOK, Pcs, Metadata
  <2>4. HeldIsCached' /\ ContentIsCached'
    BY DEF HeldIsCached, ContentIsCached, Holds, CallShape, TypeOK, Metadata
  <2> QED BY <2>1, <2>2, <2>3, <2>4 DEF CacheInv, ContentIsCached
<1> QED
  BY <1>1, <1>2, <1>3, <1>4, <1>5, <1>6, <1>7, <1>8, <1>9, <1>10,
     <1>11, <1>12, <1>13, <1>14, <1>15, <1>16, <1>17, <1>18, <1>19, <1>20 DEF Step

\* The cache starts empty with nobody in a call.
LEMMA InitCacheInv == Init => CacheInv
<1> SUFFICES ASSUME Init PROVE CacheInv
  OBVIOUS
<1>1. \A m \in Messages : Holders(m) = {}
  BY DEF Init, Holders, Holds
<1>2. BlocksAccounted
  BY <1>1, FS_EmptySet DEF BlocksAccounted, Init
<1>3. TypeOK
  BY DEF Init, TypeOK, Pcs, Metadata
<1>4. CallShape /\ HeldIsCached
  BY DEF Init, CallShape, HeldIsCached, Holds
<1> QED BY <1>2, <1>3, <1>4 DEF CacheInv, Init

\* For every number of tasks and messages and every cache size: the blocks of
\* a vertex are exactly the tasks that rely on it, such a vertex is cached,
\* and neither the assertion in Vertex::allow_eviction nor the "Just-inserted
\* message is missing" panic of Tangle::insert can fire.
THEOREM CacheInvariance == Spec => []CacheInv
<1>1. CacheInv /\ [Next]_vars => CacheInv'
  <2> SUFFICES ASSUME CacheInv, [Next]_vars PROVE CacheInv'
    OBVIOUS
  <2>1. CASE \E t \in Tasks : Step(t)
    BY <2>1, StepKeepsCacheInv
  <2>2. CASE UNCHANGED vars
    <3>1. \A m : Holders(m)' = Holders(m)
      BY <2>2 DEF Holders, Holds, vars, callVars
    <3> QED BY <2>2, <3>1 DEF vars, cacheVars, storeVars, callVars, CacheInv, TypeOK,
                   CallShape, BlocksAccounted, HeldIsCached, Holds
  <2> QED BY <2>1, <2>2 DEF Next, Terminating
<1> QED BY InitCacheInv, <1>1, PTL DEF Spec

\* The state has its types: in particular eviction_blocks is never negative.
THEOREM TypeCorrect == Spec => []TypeOK
<1>1. CacheInv => TypeOK
  BY DEF CacheInv
<1> QED BY <1>1, CacheInvariance, PTL

\* The blocks of a vertex are the tasks between pull_message or insert_inner
\* and allow_eviction.
THEOREM BlocksAreAccounted == Spec => []BlocksAccounted
<1>1. CacheInv => BlocksAccounted
  BY DEF CacheInv
<1> QED BY <1>1, CacheInvariance, PTL

\* A vertex that a task holds is never evicted under it.
THEOREM HeldVerticesAreCached == Spec => []HeldIsCached
<1>1. CacheInv => HeldIsCached
  BY DEF CacheInv
<1> QED BY <1>1, CacheInvariance, PTL

\* What a step of a task does to the metadata in the cache: an insertion
\* leaves the metadata it finds, an update adds to it, and only an eviction,
\* which takes the vertex out of the cache, clears it.
LEMMA StepGrowsMetadata ==
  ASSUME NEW t \in Tasks, TypeOK, Step(t), NEW m \in Messages,
         metadata[m] # None, m \in present'
  PROVE  metadata[m] \subseteq metadata'[m]
<1>1. CASE Restore(t) \/ Insert(t)
  BY <1>1 DEF Restore, Insert, InsertInner, TypeOK
<1>2. CASE PopRandom(t)
  BY <1>2 DEF PopRandom, TypeOK
<1>3. CASE UpdateMetadata(t)
  <2>1. \/ metadata' = metadata
        \/ metadata' = [metadata EXCEPT ![id[t]] = metadata[id[t]] \cup {upd[t]}]
    BY <1>3 DEF UpdateMetadata
  <2>2. metadata = [x \in Messages |-> metadata[x]]
    BY DEF TypeOK
  <2> QED BY <2>1, <2>2
<1>4. CASE ~(Restore(t) \/ Insert(t) \/ PopRandom(t) \/ UpdateMetadata(t))
  <2>1. metadata' = metadata
    BY <1>4 DEF Step, Call, PullCached, PullMissing, StorageGet, AddChild, Linked, PerformEviction,
                StopEviction, Unblock, StoreEdge, EdgesStored, StorageInsert, GetWith,
                ChildrenCached, FetchApprovers, SetExhaustive, cacheVars
  <2> QED BY <2>1
<1> QED BY <1>1, <1>2, <1>3, <1>4

\* While a message stays in the cache nothing is taken from its metadata:
\* neither a reload by pull_message nor a second insertion overwrites what
\* update_metadata has written meanwhile.
THEOREM MetadataGrowsInCache == Spec => CachedMetadataGrows
<1> DEFINE Grows == \A m \in Messages :
                      metadata[m] # None /\ m \in present' => metadata[m] \subseteq metadata'[m]
<1>1. TypeOK /\ [Next]_vars => [Grows]_vars
  <2> SUFFICES ASSUME TypeOK, Next PROVE Grows \/ UNCHANGED vars
    OBVIOUS
  <2>1. CASE \E t \in Tasks : Step(t)
    BY <2>1, StepGrowsMetadata
  <2>2. CASE Terminating
    BY <2>2 DEF Terminating
  <2> QED BY <2>1, <2>2 DEF Next
<1> QED BY <1>1, TypeCorrect, PTL DEF Spec, CachedMetadataGrows
=============================================================================
