---------------------------- MODULE PeerManager ----------------------------
(***************************************************************************)
(* The peer manager of the protocol: it follows the events of the gossip   *)
(* network, keeps the sender of every connected peer and runs a worker for *)
(* it, which holds the receiver of the connection.                         *)
(***************************************************************************)
EXTENDS Gossip

VARIABLE manager \* the peers and the connection of each

managerVars == << gossipVars, manager >>

Handling(kind) ==
    /\ events # << >>
    /\ Head(events).kind = kind
    /\ events' = Tail(events)
    /\ UNCHANGED << peers, banned_peers, banned_addrs, commands, internal_commands, internal_events,
                    command_steps, event_steps, negotiating, host, given, wanted >>

EventPeer == Head(events).peer

(* A worker ends when it is shut down, or its handle is dropped; with it   *)
(* the receiver of the connection.                                         *)
WorkerEnds(c) == IF c = NoConn THEN conns ELSE [conns EXCEPT ![c].received = FALSE]
Held(p) == IF p \in DOMAIN manager THEN manager[p] ELSE NoConn

(* PeerManager::add replaces what is there. *)
PeerAdded ==
    /\ Handling("PeerAdded")
    /\ manager' = WithKey(manager, EventPeer, NoConn)
    /\ conns' = WorkerEnds(Held(EventPeer))

PeerRemoved ==
    /\ Handling("PeerRemoved")
    /\ manager' = [p \in DOMAIN manager \ {EventPeer} |-> manager[p]]
    /\ conns' = WorkerEnds(Held(EventPeer))

PeerConnected ==
    LET c == Head(events).conn
    IN  /\ Handling("PeerConnected")
        /\ IF EventPeer \in DOMAIN manager
           THEN /\ manager' = [manager EXCEPT ![EventPeer] = c]
                /\ conns' = WorkerEnds(Held(EventPeer))
           ELSE /\ conns' = WorkerEnds(c)
                /\ UNCHANGED manager

PeerDisconnected ==
    /\ Handling("PeerDisconnected")
    /\ manager' = IF EventPeer \in DOMAIN manager THEN [manager EXCEPT ![EventPeer] = NoConn] ELSE manager
    /\ conns' = WorkerEnds(Held(EventPeer))

Holders == {manager[p] : p \in DOMAIN manager}

ManagerInit == GossipInit /\ manager = << >>

ManagerNext ==
    \/ GossipNext(Holders) /\ UNCHANGED manager
    \/ PeerAdded
    \/ PeerRemoved
    \/ PeerConnected
    \/ PeerDisconnected

ManagerSpec == ManagerInit /\ [][ManagerNext]_managerVars
-----------------------------------------------------------------------------
(* Nobody has anything to do but to wait for the network or a command. *)
Quiet ==
    /\ commands = << >> /\ internal_events = << >> /\ events = << >>
    /\ command_steps = << >> /\ event_steps = << >>
    /\ \A c \in Conns :
        /\ ~ (conns[c].writer /\ conns[c].shutdown)
        /\ ~ (conns[c].reader /\ conns[c].state = "closed")

(* Types of the list of peers (PeerList) and of the peers of the manager   *)
(* (PeerManagerInner).                                                     *)
ManagerTypeOK ==
    /\ GossipTypeOK
    /\ \A p \in DOMAIN manager : p \in PeerIds /\ manager[p] \in Conns \cup {NoConn}

(* Whatever order the two processors of the gossip service send their      *)
(* events in, the peer manager does not end up with a connected peer that  *)
(* the gossip service lists as disconnected: nothing is sent to a peer     *)
(* that is gone.  A peer that a command removes is left out: remove_peer   *)
(* takes the lock a second time, and a connection that is established in   *)
(* between is removed with the peer, but not shut down; the peer manager   *)
(* keeps it if the peer is added again before the event PeerConnected.     *)
NoGhostPeers ==
    Quiet => \A p \in (DOMAIN manager \cap DOMAIN peers) \ RemovedPeers :
                manager[p] # NoConn => IsConnected(p)

(* Peers that negotiate at the same time do not exceed the limit of unknown *)
(* peers, and late announcements of a connection do not remove a peer that  *)
(* is configured or was added by a command, until a command removes it      *)
(* (PeerList, GossipManager).                                               *)
PeerListSound ==
    /\ ManagerTypeOK
    /\ UnknownPeersBounded
    /\ WantedPeersKept
=============================================================================
