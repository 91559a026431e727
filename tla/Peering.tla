------------------------------ MODULE Peering ------------------------------
(***************************************************************************)
(* Peering by autopeering: the neighbourhoods of inbound and outbound      *)
(* neighbours, the handler of peering packets, the timer that looks for    *)
(* outbound neighbours and the timer that renews the salts.                *)
(*                                                                         *)
(* What discovery knows of a peer changes at any time: "unlisted", "stale" *)
(* (its last verification is too old) or "verified".  The distance to a    *)
(* peer is an arbitrary function of the salt.                              *)
(***************************************************************************)
EXTENDS AutopeeringRequests, FiniteSets, FiniteSetsExt

CONSTANTS
    SIZE_INBOUND,
    SIZE_OUTBOUND,
    SaltDistance,    \* SaltDistance[n][p]: distance to p under the n-th salt
    InvalidPeers,    \* peers that the validator of neighbours refuses
    MaxStatusChanges \* bound: changes of what discovery knows

VARIABLES
    drop_neighbors_on_salt_update, \* the configuration
    status,        \* what discovery knows of each peer
    inbound,       \* inbound neighbours and their distances
    outbound,      \* outbound neighbours and their distances
    rejected,      \* the neighbour filter
    private_salt,  \* number of the private salt, which orders the inbound neighbours
    public_salt,   \* number of the public salt, which orders the outbound ones
    salt_step,     \* where update_salts stands
    prequests,     \* open peering requests
    ptasks,        \* tasks of update_outbound
    peering_alive, \* is the handler of peering packets alive?
    clock,         \* in seconds
    changes,       \* history: number of changes of status
    requested,     \* history: peering requests sent, as << peer, hash >>
    neighbors      \* history: neighbours as a reader of the events knows them

peeringVars == << drop_neighbors_on_salt_update, status, inbound, outbound, rejected, private_salt,
                  public_salt, salt_step, prequests, ptasks, peering_alive, clock, changes,
                  requested, neighbors >>

Salts == DOMAIN SaltDistance

ASSUME PeeringAssumption ==
    /\ SIZE_INBOUND \in Nat \ {0} /\ SIZE_OUTBOUND \in Nat \ {0}
    /\ 0 \in Salts
    /\ \A n \in Salts, p \in Peers : SaltDistance[n][p] \in Nat
    /\ InvalidPeers \subseteq Peers
-----------------------------------------------------------------------------
(* Neighborhood.  The furthest neighbour is sorted last; among equals any. *)
Without(nbh, ids) == [p \in DOMAIN nbh \ ids |-> nbh[p]]
Furthest(nbh) == {p \in DOMAIN nbh : \A q \in DOMAIN nbh : nbh[q] <= nbh[p]}
Full(nbh, size) == Cardinality(DOMAIN nbh) >= size

is_preferred(nbh, size, distance) ==
    Full(nbh, size) => \A p \in Furthest(nbh) : distance < nbh[p]

insert_neighbor(nbh, size, p, distance) ==
    LET rest == Without(nbh, {p})
    IN  IF Full(rest, size) THEN rest ELSE With(rest, p, distance)

update_distances(nbh, salt) == [p \in DOMAIN nbh |-> SaltDistance[salt][p]]

(* The filter refuses the local peer too, which is none of Peers. *)
is_valid_neighbor(p) == p \notin InvalidPeers
apply_list == {p \in Peers : status[p] # "unlisted" /\ p \notin rejected /\ is_valid_neighbor(p)}

is_inbound_neighbor(p) == p \in DOMAIN inbound

is_neighbor(p) == p \in DOMAIN inbound \cup DOMAIN outbound

(* send_drop_peering_request_to_peer: the peers are told, and the event    *)
(* PeeringDropped is published.                                            *)
drop_peering(peers) == neighbors \ peers
-----------------------------------------------------------------------------
Handler == peering_alive /\ UNCHANGED << drop_neighbors_on_salt_update, status, private_salt,
                                        public_salt, salt_step, clock, changes, requested >>

(* A preferred peer replaces the furthest inbound neighbour, which is      *)
(* dropped.  The answer tells the peer whether it is a neighbour.          *)
HandlePeeringRequest(p) ==
    LET distance == SaltDistance[private_salt][p]
        accepted == /\ is_valid_neighbor(p)
                    /\ ~ is_neighbor(p)
                    /\ is_preferred(inbound, SIZE_INBOUND, distance)
    IN  /\ Handler
        /\ status[p] = "verified"
        /\ IF accepted
           THEN \E dropped \in IF Full(inbound, SIZE_INBOUND)
                               THEN {{q} : q \in Furthest(inbound)} ELSE {{}} :
                    /\ inbound' = insert_neighbor(Without(inbound, dropped), SIZE_INBOUND, p, distance)
                    /\ rejected' = rejected \cup {p}
                    /\ neighbors' = drop_peering(dropped) \cup {p}
           ELSE UNCHANGED << inbound, rejected, neighbors >>
        /\ UNCHANGED << outbound, prequests, ptasks, peering_alive >>

(* The request is taken out even if its hash does not match.  An accepted  *)
(* peer that is an inbound neighbour already is dropped.                   *)
HandlePeeringResponse(p, hash, accepted) ==
    LET key == << p, "peering" >>
        valid == prequests[key].hash = hash
        tx == prequests[key].tx
        panic == accepted /\ status[p] = "unlisted"
    IN  /\ Handler
        /\ key \in DOMAIN prequests
        /\ prequests' = Removed(prequests, "peering", p)
        /\ IF valid /\ ~ panic
           THEN /\ peering_alive' = (ptasks[tx].state = "waiting")
                /\ ptasks' = IF ptasks[tx].state = "waiting"
                             THEN [ptasks EXCEPT ![tx].state = IF accepted THEN "answered" ELSE "failed"]
                             ELSE ptasks
           ELSE /\ peering_alive' = ~ valid
                /\ ptasks' = Dropped(ptasks, prequests, {key})
        /\ IF ~ valid \/ panic \/ ~ accepted
           THEN UNCHANGED << inbound, outbound, rejected, neighbors >>
           ELSE IF p \in DOMAIN inbound
           THEN /\ inbound' = Without(inbound, {p})
                /\ neighbors' = drop_peering({p})
                /\ UNCHANGED << outbound, rejected >>
           ELSE /\ outbound' = insert_neighbor(outbound, SIZE_OUTBOUND, p, SaltDistance[public_salt][p])
                /\ rejected' = IF p \in DOMAIN outbound' THEN rejected \cup {p} ELSE rejected
                /\ neighbors' = IF p \in DOMAIN outbound' THEN neighbors \cup {p} ELSE neighbors
                /\ UNCHANGED inbound

HandleDropRequest(p) ==
    /\ Handler
    /\ is_neighbor(p)
    /\ inbound' = Without(inbound, {p})
    /\ outbound' = Without(outbound, {p})
    /\ rejected' = IF p \in DOMAIN outbound THEN rejected \cup {p} ELSE rejected
    /\ neighbors' = drop_peering({p})
    /\ UNCHANGED << prequests, ptasks, peering_alive >>
-----------------------------------------------------------------------------
Updating == UNCHANGED << drop_neighbors_on_salt_update, status, inbound, outbound, private_salt,
                         public_salt, salt_step, peering_alive, clock, changes, neighbors >>

(* select_from_candidate_list: the closest candidate, if the neighbourhood *)
(* has place or a neighbour that is further away.                          *)
Candidates ==
    LET distance(p) == SaltDistance[public_salt][p]
    IN  {p \in apply_list : /\ \A q \in apply_list : distance(p) <= distance(q)
                            /\ is_preferred(outbound, SIZE_OUTBOUND, distance(p))}

UpdateOutbound(t) ==
    /\ Updating
    /\ ptasks[t] = Idle
    /\ \E p \in Candidates : ptasks' = [ptasks EXCEPT ![t] = Spawned("peering", p)]
    /\ UNCHANGED << rejected, prequests, requested >>

(* begin_peering panics in its task if the peer is no longer listed. *)
BeginPeering(t) ==
    LET p == ptasks[t].peer
    IN  /\ Updating
        /\ ptasks[t].state = "spawned"
        /\ IF status[p] = "unlisted"
           THEN ptasks' = [ptasks EXCEPT ![t] = Idle] /\ UNCHANGED << prequests, requested >>
           ELSE /\ prequests' = Created(prequests, "peering", p, clock, clock, t)
                /\ ptasks' = Dropped([ptasks EXCEPT ![t].state = "waiting"], prequests, {<< p, "peering" >>})
                /\ requested' = requested \cup {<< p, clock >>}
        /\ UNCHANGED rejected

(* The time is out: the receiving half of the channel is dropped, ... *)
PeeringTimeout(t) ==
    /\ Updating
    /\ ptasks[t].state = "waiting"
    /\ ptasks' = [ptasks EXCEPT ![t].state = "late"]
    /\ UNCHANGED << rejected, prequests, requested >>

(* ... then whatever request to the peer is open is removed. *)
RemoveLatePeering(t) ==
    LET key == << ptasks[t].peer, "peering" >>
    IN  /\ Updating
        /\ ptasks[t].state = "late"
        /\ prequests' = Removed(prequests, "peering", ptasks[t].peer)
        /\ ptasks' = Dropped([ptasks EXCEPT ![t].state = "failed"], prequests, {key})
        /\ UNCHANGED << rejected, requested >>

(* A peer that refused or did not answer is not asked again. *)
EndPeering(t) ==
    /\ Updating
    /\ ptasks[t].state \in {"answered", "closed", "failed"}
    /\ rejected' = IF ptasks[t].state = "answered" THEN rejected ELSE rejected \cup {ptasks[t].peer}
    /\ ptasks' = [ptasks EXCEPT ![t] = Idle]
    /\ UNCHANGED << prequests, requested >>
-----------------------------------------------------------------------------
(* update_salts, which runs beside the handler of packets, in the steps    *)
(* that take a lock.                                                       *)
Salting == UNCHANGED << drop_neighbors_on_salt_update, status, prequests, ptasks,
                        peering_alive, clock, changes, requested >>

NewSalts ==
    /\ Salting
    /\ salt_step = "idle"
    /\ private_salt + 1 \in Salts
    /\ private_salt' = private_salt + 1
    /\ public_salt' = public_salt + 1
    /\ salt_step' = IF drop_neighbors_on_salt_update THEN "drop" ELSE "inbound"
    /\ UNCHANGED << inbound, outbound, rejected, neighbors >>

DropNeighbors ==
    /\ Salting
    /\ salt_step = "drop"
    /\ salt_step' = "inbound"
    /\ neighbors' = drop_peering(DOMAIN inbound \cup DOMAIN outbound)
    /\ UNCHANGED << inbound, outbound, rejected, private_salt, public_salt >>

SaltInbound ==
    /\ Salting
    /\ salt_step = "inbound"
    /\ salt_step' = "outbound"
    /\ inbound' = IF drop_neighbors_on_salt_update THEN << >> ELSE update_distances(inbound, private_salt)
    /\ UNCHANGED << outbound, rejected, private_salt, public_salt, neighbors >>

SaltOutbound ==
    /\ Salting
    /\ salt_step = "outbound"
    /\ salt_step' = IF drop_neighbors_on_salt_update THEN "filter" ELSE "idle"
    /\ outbound' = IF drop_neighbors_on_salt_update THEN << >> ELSE update_distances(outbound, public_salt)
    /\ UNCHANGED << inbound, rejected, private_salt, public_salt, neighbors >>

ResetFilter ==
    /\ Salting
    /\ salt_step = "filter"
    /\ salt_step' = "idle"
    /\ rejected' = {}
    /\ UNCHANGED << inbound, outbound, private_salt, public_salt, neighbors >>
-----------------------------------------------------------------------------
(* Discovery adds, removes or verifies a peer, or its verification ages. *)
DiscoveryChanges(p) ==
    /\ changes < MaxStatusChanges
    /\ \E s \in {"unlisted", "stale", "verified"} : s # status[p] /\ status' = [status EXCEPT ![p] = s]
    /\ changes' = changes + 1
    /\ UNCHANGED << drop_neighbors_on_salt_update, inbound, outbound, rejected, private_salt, public_salt,
                    salt_step, prequests, ptasks, peering_alive, clock, requested, neighbors >>

PeeringTick ==
    /\ clock < MaxTime
    /\ \A t \in Tasks : ptasks[t] = Idle
    /\ clock' = clock + 1
    /\ prequests' = Unexpired(prequests, clock + 1)
    /\ UNCHANGED << drop_neighbors_on_salt_update, status, inbound, outbound, rejected, private_salt,
                    public_salt, salt_step, ptasks, peering_alive, changes, requested, neighbors >>

PeeringInit ==
    /\ drop_neighbors_on_salt_update \in BOOLEAN
    /\ status = [p \in Peers |-> "verified"]
    /\ inbound = << >> /\ outbound = << >> /\ rejected = {}
    /\ private_salt = 0 /\ public_salt = 0 /\ salt_step = "idle"
    /\ prequests = << >> /\ ptasks = [t \in Tasks |-> Idle] /\ peering_alive = TRUE
    /\ clock = 0 /\ changes = 0 /\ requested = {} /\ neighbors = {}

PeeringRecv ==
    \E p \in Peers :
        \/ HandlePeeringRequest(p)
        \/ HandleDropRequest(p)
        \/ \E hash \in 0 .. clock, accepted \in BOOLEAN :
            << p, hash >> \in requested /\ HandlePeeringResponse(p, hash, accepted)

PeeringNext ==
    \/ PeeringRecv
    \/ \E t \in Tasks :
        \/ UpdateOutbound(t)
        \/ BeginPeering(t)
        \/ PeeringTimeout(t)
        \/ RemoveLatePeering(t)
        \/ EndPeering(t)
    \/ NewSalts
    \/ DropNeighbors
    \/ SaltInbound
    \/ SaltOutbound
    \/ ResetFilter
    \/ \E p \in Peers : DiscoveryChanges(p)
    \/ PeeringTick

PeeringSpec == PeeringInit /\ [][PeeringNext]_peeringVars
-----------------------------------------------------------------------------
(* The neighbourhoods keep to their sizes, whatever replaces what. *)
PeeringTypeOK ==
    /\ DOMAIN inbound \subseteq Peers /\ Cardinality(DOMAIN inbound) <= SIZE_INBOUND
    /\ DOMAIN outbound \subseteq Peers /\ Cardinality(DOMAIN outbound) <= SIZE_OUTBOUND
    /\ rejected \subseteq Peers /\ neighbors \subseteq Peers
    /\ DOMAIN prequests \subseteq Peers \X {"peering"}
    /\ \A t \in Tasks : ptasks[t] = Idle \/ ptasks[t].state \in TaskStates

(* Two peers that ask each other at the same time do not become inbound    *)
(* and outbound neighbours at once, in whatever order the request and the  *)
(* answer are handled.                                                     *)
InOutDisjoint == DOMAIN inbound \cap DOMAIN outbound = {}

(* Once the salts have been renewed every neighbour is compared by its     *)
(* distance under the current salt, also one that was accepted while       *)
(* update_salts was running.                                               *)
DistancesCurrent ==
    salt_step = "idle" =>
        /\ \A p \in DOMAIN inbound : inbound[p] = SaltDistance[private_salt][p]
        /\ \A p \in DOMAIN outbound : outbound[p] = SaltDistance[public_salt][p]

(* Who follows the events IncomingPeering, OutgoingPeering and             *)
(* PeeringDropped knows the neighbours, if neighbours survive an update of *)
(* the salts.                                                              *)
NeighborsPublished ==
    ~ drop_neighbors_on_salt_update => neighbors = DOMAIN inbound \cup DOMAIN outbound

(* The neighbourhoods keep to their sizes and are disjoint, their distances *)
(* are those of the current salts, and the events published add up to the   *)
(* neighbours there are (PeeringManager).                                   *)
NeighborhoodsSound ==
    /\ PeeringTypeOK
    /\ InOutDisjoint
    /\ DistancesCurrent
    /\ NeighborsPublished
=============================================================================
