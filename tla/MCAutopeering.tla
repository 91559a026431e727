--------------------------- MODULE MCAutopeering ---------------------------
(***************************************************************************)
(* Model checking of autopeering.  Discovery and peering share no state    *)
(* but the list of active peers, which Peering lets change at any time: a  *)
(* behaviour is one of discovery or one of peering.                        *)
(***************************************************************************)
EXTENDS PeerDiscovery, Peering, TLC

CONSTANTS p1, p2, p3, t1, t2

VARIABLE focus \* the part that runs

MCPeers == {p1, p2, p3}
MCTasks == {t1, t2}

(* Tasks differ in nothing but their names. *)
TaskSymmetry == Permutations(MCTasks)

MCEntryNodes == << p1 >>
MCInvalidPeers == {p3}

(* The first salt prefers p1 and the second p2. *)
MCSaltDistance ==
    0 :> (p1 :> 1 @@ p2 :> 2 @@ p3 :> 3) @@
    1 :> (p1 :> 3 @@ p2 :> 2 @@ p3 :> 2)

Init ==
    /\ focus \in {"discovery", "peering"}
    /\ DiscoveryInit
    /\ PeeringInit
    /\ focus = "discovery" => drop_neighbors_on_salt_update = FALSE

Next ==
    \/ focus = "discovery" /\ DiscoveryNext /\ UNCHANGED << focus, peeringVars >>
    \/ focus = "peering" /\ PeeringNext /\ UNCHANGED << focus, discoveryVars >>

Spec == Init /\ [][Next]_<< focus, discoveryVars, peeringVars >>
=============================================================================
