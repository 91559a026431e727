------------------------------- MODULE Gossip -------------------------------
(***************************************************************************)
(* The gossip network: the list of peers, the processor of commands and    *)
(* the processor of internal events of the service, the host that dials,   *)
(* the negotiation of the gossip protocol on a connection, and the tasks   *)
(* that read and write a connection.                                       *)
(*                                                                         *)
(* The two processors share the list of peers under a lock, and send their *)
(* events after they released it: each keeps the steps it still has to     *)
(* take.  Negotiation, connections and their loss are libp2p's and the     *)
(* network's: any peer may connect and any connection may break.           *)
(***************************************************************************)
EXTENDS Integers, Sequences, FiniteSets

CONSTANTS
    PeerIds,              \* the other peers
    Conns,                \* bound: connections, each used once
    StaticPeers,          \* the peers of the configuration
    max_unknown_peers,
    max_discovered_peers,
    CommandSet,           \* the commands that are given
    MaxCommands,          \* bound: commands given
    NoConn

VARIABLES
    peers,             \* the listed peers: relation, addr and connection
    banned_peers,
    banned_addrs,
    commands,          \* commands of the user
    internal_commands, \* peers and addresses to dial
    internal_events,   \* from the host and from the tasks of connections
    events,            \* to the user
    command_steps,     \* what the command processor has still to do
    event_steps,       \* what the event processor has still to do
    negotiating,       \* connection last established with each peer, until it is upgraded
    conns,             \* the connections and their tasks
    host,              \* the task of the network host: alive, and the peer it is about to dial
    given,             \* history: number of commands given
    wanted             \* history: peers configured or added, and not removed since

gossipVars == << peers, banned_peers, banned_addrs, commands, internal_commands, internal_events,
                 events, command_steps, event_steps, negotiating, conns, host, given, wanted >>

(* Commands are about other peers; the node, its API and autopeering add   *)
(* peers as known or discovered ones.                                      *)
ASSUME GossipAssumption ==
    /\ StaticPeers \subseteq PeerIds /\ IsFiniteSet(StaticPeers)
    /\ NoConn \notin Conns \cup PeerIds
    /\ max_unknown_peers \in Nat /\ max_discovered_peers \in Nat
    /\ \A command \in CommandSet :
        /\ command.peer \in PeerIds
        /\ command.kind \in {"AddPeer", "ChangeRelation"} => command.relation \in {"known", "discovered"}

RemovedPeers == {command.peer : command \in {x \in CommandSet : x.kind = "RemovePeer"}}

Relations == {"known", "unknown", "discovered"}

(* A peer listens at one address, and is dialed there.  A connection it    *)
(* opens itself comes from another one.                                    *)
Addrs == PeerIds \X {"listen", "other"}
Listen(p) == << p, "listen" >>

Info(addr, relation) == [addr |-> addr, relation |-> relation, conn |-> NoConn]

(* Unused, negotiating, running or closed; the state of the task that      *)
(* reads and of the task that writes; is the user's receiver dropped; has  *)
(* the empty message been sent.                                            *)
Unused == [ peer |-> NoConn, addr |-> NoConn, state |-> "unused", reader |-> FALSE, writer |-> FALSE,
            received |-> FALSE, shutdown |-> FALSE ]

(* The substream is dropped with its last task. *)
Ended(conn) ==
    CASE ~ conn.reader /\ ~ conn.writer -> [Unused EXCEPT !.state = "closed"]
      [] conn.reader /\ ~ conn.writer -> [conn EXCEPT !.shutdown = FALSE]
      [] OTHER -> conn
-----------------------------------------------------------------------------
(* PeerList *)
Keeping(f, s) == [x \in DOMAIN f \cap s |-> f[x]]
WithKey(f, k, v) == [x \in DOMAIN f \cup {k} |-> IF x = k THEN v ELSE f[x]]
IsConnected(p) == p \in DOMAIN peers /\ peers[p].conn # NoConn
OfRelation(r) == {p \in DOMAIN peers : peers[p].relation = r}

filter_count(r) == Cardinality(OfRelation(r))
connected_count(r) == Cardinality({p \in OfRelation(r) : IsConnected(p)})

accepts_above_limit(p, addr) ==
    /\ p \notin banned_peers
    /\ addr \notin banned_addrs
    /\ ~ IsConnected(p)
    /\ p \notin DOMAIN peers => filter_count("unknown") <= max_unknown_peers

accepts_incoming_peer(p, addr) ==
    /\ p \notin banned_peers
    /\ addr \notin banned_addrs
    /\ ~ IsConnected(p)
    /\ p \notin DOMAIN peers => /\ filter_count("unknown") < max_unknown_peers
                                /\ filter_count("discovered") < max_discovered_peers

allows_dialing_peer(p) ==
    /\ p \in DOMAIN peers
    /\ p \notin banned_peers
    /\ ~ IsConnected(p)
    /\ peers[p].addr \notin banned_addrs
    /\ peers[p].relation = "unknown" => connected_count("unknown") < max_unknown_peers
    /\ peers[p].relation = "discovered" => connected_count("discovered") < max_discovered_peers

allows_dialing_addr(addr) ==
    /\ addr \notin banned_addrs
    /\ \A p \in DOMAIN peers : ~ (IsConnected(p) /\ peers[p].addr = addr)
-----------------------------------------------------------------------------
(* The command processor. *)
Event(kind, p, c) == [kind |-> kind, peer |-> p, conn |-> c]
Publish(kind, p) == [do |-> "publish", event |-> Event(kind, p, NoConn)]
Then(do, x) == [do |-> do, arg |-> x]

GiveCommand(command) ==
    /\ given < MaxCommands
    /\ given' = given + 1
    /\ commands' = Append(commands, command)
    /\ UNCHANGED << peers, banned_peers, banned_addrs, internal_commands, internal_events, events,
                    command_steps, event_steps, negotiating, conns, host, wanted >>

Processing ==
    /\ commands # << >>
    /\ command_steps = << >>
    /\ commands' = Tail(commands)
    /\ UNCHANGED << internal_events, events, event_steps, negotiating, conns, host, given >>

(* A peer that is listed already is given the new information. *)
AddPeer ==
    LET p == Head(commands).peer
    IN  /\ Processing
        /\ Head(commands).kind = "AddPeer"
        /\ peers' = IF p \in DOMAIN peers
                    THEN [peers EXCEPT ![p].addr = Listen(p), ![p].relation = Head(commands).relation]
                    ELSE WithKey(peers, p, Info(Listen(p), Head(commands).relation))
        /\ command_steps' = << Publish("PeerAdded", p), Then("dial", p) >>
        /\ wanted' = wanted \cup {p}
        /\ UNCHANGED << banned_peers, banned_addrs, internal_commands >>

Disconnected(p) == [peers EXCEPT ![p].conn = NoConn]
DisconnectSteps(p) ==
    IF IsConnected(p) THEN << Publish("PeerDisconnected", p), Then("shutdown", peers[p].conn) >> ELSE << >>

(* disconnect_peer, remove_peer: removing is a second step under the lock. *)
DisconnectPeer ==
    LET p == Head(commands).peer
    IN  /\ Processing
        /\ Head(commands).kind \in {"DisconnectPeer", "RemovePeer"}
        /\ IF p \in DOMAIN peers
           THEN /\ peers' = Disconnected(p)
                /\ command_steps' = DisconnectSteps(p) \o
                        (IF Head(commands).kind = "RemovePeer" THEN << Then("remove", p) >> ELSE << >>)
           ELSE UNCHANGED << peers, command_steps >>
        /\ wanted' = IF Head(commands).kind = "RemovePeer" THEN wanted \ {p} ELSE wanted
        /\ UNCHANGED << banned_peers, banned_addrs, internal_commands >>

Ban ==
    LET x == Head(commands).peer
    IN  /\ Processing
        /\ Head(commands).kind \in {"BanPeer", "UnbanPeer", "BanAddress", "UnbanAddress"}
        /\ banned_peers' = CASE Head(commands).kind = "BanPeer" -> banned_peers \cup {x}
                             [] Head(commands).kind = "UnbanPeer" -> banned_peers \ {x}
                             [] OTHER -> banned_peers
        /\ banned_addrs' = CASE Head(commands).kind = "BanAddress" -> banned_addrs \cup {Listen(x)}
                             [] Head(commands).kind = "UnbanAddress" -> banned_addrs \ {Listen(x)}
                             [] OTHER -> banned_addrs
        /\ UNCHANGED << peers, internal_commands, command_steps, wanted >>

ChangeRelation ==
    /\ Processing
    /\ Head(commands).kind = "ChangeRelation"
    /\ peers' = IF Head(commands).peer \in DOMAIN peers
                THEN [peers EXCEPT ![Head(commands).peer].relation = Head(commands).relation] ELSE peers
    /\ UNCHANGED << banned_peers, banned_addrs, internal_commands, command_steps, wanted >>

DialCommand ==
    /\ Processing
    /\ Head(commands).kind \in {"DialPeer", "DialAddress"}
    /\ internal_commands' = Append(internal_commands, Head(commands))
    /\ UNCHANGED << peers, banned_peers, banned_addrs, command_steps, wanted >>

(* What follows once the lock is released. *)
CommandStep ==
    LET step == Head(command_steps)
    IN  /\ command_steps # << >>
        /\ command_steps' = Tail(command_steps) \o
                (IF step.do = "remove" /\ step.arg \in DOMAIN peers
                 THEN << Publish("PeerRemoved", step.arg) >> ELSE << >>)
        /\ events' = IF step.do = "publish" THEN Append(events, step.event) ELSE events
        /\ internal_commands' = IF step.do = "dial"
                                THEN Append(internal_commands, [kind |-> "DialPeer", peer |-> step.arg])
                                ELSE internal_commands
        /\ conns' = IF step.do = "shutdown" THEN [conns EXCEPT ![step.arg].shutdown = conns[step.arg].writer] ELSE conns
        /\ peers' = IF step.do = "remove" THEN Keeping(peers, PeerIds \ {step.arg}) ELSE peers
        /\ UNCHANGED << banned_peers, banned_addrs, commands, internal_events, event_steps, negotiating,
                        host, given, wanted >>
-----------------------------------------------------------------------------
(* The event processor. *)
Receiving ==
    /\ internal_events # << >>
    /\ event_steps = << >>
    /\ internal_events' = Tail(internal_events)
    /\ UNCHANGED << banned_peers, banned_addrs, commands, internal_commands, events, command_steps,
                    negotiating, host, given, wanted >>

(* filter_remove: "Only remove unknown peers." *)
RemovedIfUnknown(p) == IF peers[p].relation = "unknown" THEN {p} ELSE {}

ProtocolDropped ==
    LET p == Head(internal_events).peer
    IN  /\ Receiving
        /\ Head(internal_events).kind = "ProtocolDropped"
        /\ peers' = IF p \in DOMAIN peers
                    THEN Keeping(Disconnected(p), PeerIds \ RemovedIfUnknown(p)) ELSE peers
        /\ event_steps' = << Event("PeerDisconnected", p, NoConn) >>
        /\ UNCHANGED conns

(* A connection that is not accepted is dropped with its substream. *)
ProtocolEstablished ==
    LET p == Head(internal_events).peer
        c == Head(internal_events).conn
        addr == Head(internal_events).addr
        listed == IF p \in DOMAIN peers THEN peers ELSE WithKey(peers, p, Info(addr, "unknown"))
    IN  /\ Receiving
        /\ Head(internal_events).kind = "ProtocolEstablished"
        /\ IF accepts_incoming_peer(p, addr)
           THEN /\ peers' = [listed EXCEPT ![p].conn = c]
                /\ event_steps' = (IF p \in DOMAIN peers THEN << >> ELSE << Event("PeerAdded", p, NoConn) >>)
                                   \o << Event("PeerConnected", p, c) >>
                /\ conns' = [conns EXCEPT ![c].reader = TRUE, ![c].writer = TRUE, ![c].received = TRUE]
           ELSE /\ conns' = [conns EXCEPT ![c] = Ended(@)]
                /\ UNCHANGED << peers, event_steps >>

EventStep ==
    /\ event_steps # << >>
    /\ event_steps' = Tail(event_steps)
    /\ events' = Append(events, Head(event_steps))
    /\ UNCHANGED << peers, banned_peers, banned_addrs, commands, internal_commands, internal_events,
                    command_steps, negotiating, conns, host, given, wanted >>

(* peerstate_checker; at most one attempt for a peer waits to be made. *)
CheckPeers ==
    LET lost == {p \in OfRelation("known") \cup OfRelation("discovered") : ~ IsConnected(p)}
    IN  /\ internal_commands = << >>
        /\ \E p \in lost : internal_commands' = << [kind |-> "DialPeer", peer |-> p] >>
        /\ UNCHANGED << peers, banned_peers, banned_addrs, commands, internal_events, events,
                        command_steps, event_steps, negotiating, conns, host, given, wanted >>
-----------------------------------------------------------------------------
(* The network host and the negotiation of the protocol. *)
Network == UNCHANGED << peers, banned_peers, banned_addrs, commands, events, command_steps,
                        event_steps, given, wanted >>

HostIdle == host.alive /\ host.dialing = NoConn

(* inject_connection_established: the last connection of a peer counts. *)
Established(c, p, addr) ==
    /\ conns[c] = Unused
    /\ conns' = [conns EXCEPT ![c] = [Unused EXCEPT !.peer = p, !.addr = addr, !.state = "open"]]
    /\ negotiating' = WithKey(negotiating, p, c)

(* dial_addr, and the first half of dial_peer: the check.  A peer that is  *)
(* dialed may not answer.                                                  *)
Dial ==
    LET command == Head(internal_commands)
        p == command.peer
        answers == command.kind = "DialAddress" /\ allows_dialing_addr(Listen(p))
        checked == command.kind = "DialPeer" /\ allows_dialing_peer(p)
    IN  /\ Network
        /\ HostIdle
        /\ internal_commands # << >>
        /\ internal_commands' = Tail(internal_commands)
        /\ host' = [host EXCEPT !.dialing = IF checked THEN p ELSE NoConn]
        /\ \/ UNCHANGED << conns, negotiating >>
           \/ answers /\ \E c \in Conns : Established(c, p, Listen(p))
        /\ UNCHANGED internal_events

(* The second half of dial_peer takes the lock again for the address of    *)
(* the peer, and panics when the peer has been removed since the check.    *)
DialChecked ==
    LET p == host.dialing
    IN  /\ Network
        /\ p # NoConn
        /\ host' = [alive |-> p \in DOMAIN peers, dialing |-> NoConn]
        /\ \/ UNCHANGED << conns, negotiating >>
           \/ p \in DOMAIN peers /\ \E c \in Conns : Established(c, p, peers[p].addr)
        /\ UNCHANGED << internal_commands, internal_events >>

IncomingConnection(p) ==
    /\ Network
    /\ HostIdle
    /\ \E c \in Conns : Established(c, p, << p, "other" >>)
    /\ UNCHANGED << internal_commands, internal_events, host >>

(* inject_event: the address is that of the last connection; without one   *)
(* the substream is dropped.                                               *)
UpgradeCompleted(c) ==
    LET p == conns[c].peer
    IN  /\ Network
        /\ HostIdle
        /\ conns[c].state = "open"
        /\ IF p \in DOMAIN negotiating
           THEN /\ internal_events' = Append(internal_events,
                        [kind |-> "ProtocolEstablished", peer |-> p, conn |-> c,
                         addr |-> conns[negotiating[p]].addr])
                /\ negotiating' = Keeping(negotiating, PeerIds \ {p})
                /\ conns' = [conns EXCEPT ![c].state = "upgraded"]
           ELSE /\ conns' = [conns EXCEPT ![c] = Ended(@)]
                /\ UNCHANGED << internal_events, negotiating >>
        /\ UNCHANGED << internal_commands, host >>

ConnectionLost(c) ==
    /\ Network
    /\ conns[c].state \in {"open", "upgraded"}
    /\ conns' = [conns EXCEPT ![c].state = "closed"]
    /\ UNCHANGED << internal_commands, internal_events, negotiating, host >>
-----------------------------------------------------------------------------
(* The tasks of a connection. *)
StreamDropped(c) == [kind |-> "ProtocolDropped", peer |-> conns[c].peer, conn |-> c]
Io == Network /\ UNCHANGED << internal_commands, negotiating, host >>

(* start_incoming_processor: a closed stream is announced, a receiver that *)
(* was dropped by the user is not.                                         *)
ReaderEnds(c) ==
    /\ Io
    /\ conns[c].reader
    /\ \/ conns[c].state = "closed" /\ internal_events' = Append(internal_events, StreamDropped(c))
       \/ conns[c].state # "closed" /\ ~ conns[c].received /\ UNCHANGED internal_events
    /\ conns' = [conns EXCEPT ![c] = Ended([@ EXCEPT !.reader = FALSE])]

announce_nothing(c) == internal_events

announce_shutdown(c) == Append(internal_events, StreamDropped(c))

(* start_outgoing_processor: the empty message is announced. *)
WriterShutdown(c) ==
    /\ Io
    /\ conns[c].writer
    /\ conns[c].shutdown
    /\ internal_events' = announce_shutdown(c)
    /\ conns' = [conns EXCEPT ![c] = Ended([@ EXCEPT !.writer = FALSE])]

(* A failed write, or nobody left who could send, is not. *)
SendersOf(c, holders) ==
    \/ \E p \in DOMAIN peers : peers[p].conn = c
    \/ \E i \in DOMAIN events : events[i].conn = c
    \/ \E i \in DOMAIN event_steps : event_steps[i].conn = c
    \/ \E i \in DOMAIN command_steps : command_steps[i] = Then("shutdown", c)
    \/ c \in holders

WriterEnds(c, holders) ==
    /\ Io
    /\ conns[c].writer
    /\ conns[c].state = "closed" \/ ~ (SendersOf(c, holders) \/ conns[c].shutdown)
    /\ conns' = [conns EXCEPT ![c] = Ended([@ EXCEPT !.writer = FALSE])]
    /\ UNCHANGED internal_events
-----------------------------------------------------------------------------
(* The static peers are listed and announced. *)
GossipInit ==
    /\ peers = [p \in StaticPeers |-> Info(Listen(p), "known")]
    /\ \E order \in [1 .. Cardinality(StaticPeers) -> StaticPeers] :
        /\ \A i, j \in DOMAIN order : i # j => order[i] # order[j]
        /\ events = [i \in DOMAIN order |-> Event("PeerAdded", order[i], NoConn)]
    /\ banned_peers = {} /\ banned_addrs = {}
    /\ commands = << >> /\ internal_commands = << >> /\ internal_events = << >>
    /\ command_steps = << >> /\ event_steps = << >>
    /\ negotiating = << >>
    /\ conns = [c \in Conns |-> Unused]
    /\ host = [alive |-> TRUE, dialing |-> NoConn]
    /\ given = 0
    /\ wanted = StaticPeers

GossipNext(holders) ==
    \/ \E command \in CommandSet : GiveCommand(command)
    \/ AddPeer
    \/ DisconnectPeer
    \/ Ban
    \/ ChangeRelation
    \/ DialCommand
    \/ CommandStep
    \/ ProtocolDropped
    \/ ProtocolEstablished
    \/ EventStep
    \/ CheckPeers
    \/ Dial
    \/ DialChecked
    \/ \E p \in PeerIds : IncomingConnection(p)
    \/ \E c \in Conns :
        \/ UpgradeCompleted(c)
        \/ ConnectionLost(c)
        \/ ReaderEnds(c)
        \/ WriterShutdown(c)
        \/ WriterEnds(c, holders)
-----------------------------------------------------------------------------
(* The list of peers, what is banned and what is negotiated are about      *)
(* peers, addresses and connections; used by the invariant of PeerManager. *)
GossipTypeOK ==
    /\ DOMAIN peers \subseteq PeerIds
    /\ \A p \in DOMAIN peers : peers[p].relation \in Relations /\ peers[p].conn \in Conns \cup {NoConn}
    /\ banned_peers \subseteq PeerIds /\ banned_addrs \subseteq Addrs
    /\ DOMAIN negotiating \subseteq PeerIds
    /\ host.alive \in BOOLEAN /\ host.dialing \in PeerIds \cup {NoConn}

(* However many peers connect at once, no more than max_unknown_peers of   *)
(* them are listed without having been added by a command                  *)
(* (accepts_incoming_peer runs under the lock, the dialing check does not  *)
(* count peers that are still negotiating).                                *)
UnknownPeersBounded == filter_count("unknown") <= max_unknown_peers

(* No loss of a connection, whenever it is noticed and however often it is *)
(* announced, makes the node forget a peer of the configuration or one     *)
(* that AddPeer added, also when it had connected as an unknown one        *)
(* before; only RemovePeer does (event_processor, filter_remove).          *)
WantedPeersKept ==
    \A p \in wanted : p \in DOMAIN peers /\ peers[p].relation # "unknown"
=============================================================================
