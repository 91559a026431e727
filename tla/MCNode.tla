------------------------------- MODULE MCNode -------------------------------
(***************************************************************************)
(* Model checking of what a node stands on: its storage, the import of a   *)
(* snapshot, the life cycle of its workers and its proof of work.  They    *)
(* share no state: a behaviour is one of a single part.                    *)
(***************************************************************************)
EXTENDS MCSnapshot, MCStorage, NodeLifecycle, Miner

VARIABLE focus \* the part that runs

(* The tangle worker, the milestone solidifier, the propagator, the         *)
(* processor; a graph with a cycle; one whose dependency was never added.   *)
MCGraphs ==
    LET tangleOnly == <<"tangle">>
    IN { ("tangle" :> <<>>) @@ ("solidifier" :> tangleOnly)
           @@ ("propagator" :> <<"tangle", "solidifier">>) @@ ("processor" :> <<"propagator", "tangle">>),
         ("tangle" :> <<>>) @@ ("solidifier" :> <<"tangle", "processor">>)
           @@ ("propagator" :> <<"tangle", "solidifier">>) @@ ("processor" :> <<"propagator", "tangle">>),
         ("solidifier" :> tangleOnly) }

(* Nonce 5 has two zeros, nonces 2 and 7 one.                               *)
MCZeros == [n \in 0 .. 7 |-> IF n = 5 THEN 2 ELSE IF n \in {2, 7} THEN 1 ELSE 0]

(* A score that every nonce reaches, one that few reach, one that none      *)
(* reaches and one beyond the hash.                                         *)
MCCalls == <<[len |-> 1, target_score |-> 2], [len |-> 3, target_score |-> 3],
             [len |-> 3, target_score |-> 9], [len |-> 3, target_score |-> 3],
             [len |-> 3, target_score |-> 20]>>

MCInit ==
    /\ focus \in {"snapshot", "storage", "lifecycle", "pow"}
    /\ SnapshotInit /\ StorageInit /\ LifeInit /\ MinerInit
    /\ focus # "snapshot" => full = None /\ delta = None
    /\ focus # "storage" => Tables = {"message_id_to_message"} /\ backend = "memory"
                            /\ disk.version = NoVersion
    /\ focus # "lifecycle" => DOMAIN graph = {"solidifier"}

OfSnapshot(Step) == focus = "snapshot" /\ Step /\ UNCHANGED <<focus, storageVars, lifeVars, minerVars>>
OfStorage(Step) == focus = "storage" /\ Step /\ UNCHANGED <<focus, snapshotVars, lifeVars, minerVars>>
OfLifecycle(Step) == focus = "lifecycle" /\ Step /\ UNCHANGED <<focus, snapshotVars, storageVars, minerVars>>
OfPow(Step) == focus = "pow" /\ Step /\ UNCHANGED <<focus, snapshotVars, storageVars, lifeVars>>

MCNext == OfSnapshot(SnapshotNext) \/ OfStorage(StorageNext) \/ OfLifecycle(LifeNext) \/ OfPow(MinerNext)

mcVars == <<focus, snapshotVars, storageVars, lifeVars, minerVars>>

(* The node's own thread and the tasks that are told to stop go on, and so  *)
(* do the threads of the proof of work.                                     *)
MCSpec ==
    /\ MCInit /\ [][MCNext]_mcVars
    /\ WF_lifeVars(OfLifecycle(NodeStep))
    /\ \A w \in WorkerIds : WF_lifeVars(OfLifecycle(EndTask(w)))
    /\ WF_minerVars(OfPow(Join))
    /\ \A t \in Threads : WF_minerVars(OfPow(ThreadStep(t)))
=============================================================================
