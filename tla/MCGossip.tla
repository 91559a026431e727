------------------------------ MODULE MCGossip ------------------------------
(***************************************************************************)
(* A static peer that may be removed and two that are not known, one of    *)
(* which may be added; each command once.                                  *)
(***************************************************************************)
EXTENDS PeerManager, TLC

CONSTANTS p1, p2

Of(kind, p) == [kind |-> kind, peer |-> p]

(* Every kind of command. *)
MCCommands ==
    {Of(kind, p1) : kind \in {"DisconnectPeer", "BanPeer", "UnbanPeer", "BanAddress", "UnbanAddress"}}
        \cup {Of(kind, p1) : kind \in {"DialPeer", "DialAddress"}} \cup {Of("RemovePeer", p2)}
        \cup {[kind |-> "AddPeer", peer |-> p1, relation |-> "discovered"],
              [kind |-> "ChangeRelation", peer |-> p1, relation |-> "known"]}

(* Connections differ in nothing but their names. *)
ConnSymmetry == Permutations(Conns)

Spec == ManagerSpec
=============================================================================
