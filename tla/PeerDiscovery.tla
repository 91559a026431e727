--------------------------- MODULE PeerDiscovery ---------------------------
(***************************************************************************)
(* Discovery of peers by autopeering: the handler of incoming packets, the *)
(* timers that reverify and query peers, the lists of active, replacement  *)
(* and entry peers, and the store that keeps them between two runs.        *)
(*                                                                         *)
(* Packets travel over UDP: an answer to any request ever sent may arrive, *)
(* late, never or several times.  A handler whose expectation fails panics *)
(* and takes no further packets.  It takes the lock of a list for one      *)
(* read or one insertion at a time, and the spawned tasks remove peers in  *)
(* between: a step of the handler is what it does under one lock.          *)
(***************************************************************************)
EXTENDS AutopeeringRequests, Sequences, SequencesExt, FiniteSets

CONSTANTS
    EntryNodes,               \* the entry nodes of the configuration
    DEFAULT_MAX_MANAGED,
    DEFAULT_MAX_REPLACEMENTS,
    MAX_PEERS_IN_RESPONSE,
    MaxAsked                  \* bound: verification requests sent

VARIABLES
    active,       \* active peers, newest first: id, verified_count, last_new_peers
    replacements, \* replacement peers, newest first
    entry,        \* entry peers
    open,         \* the open requests
    tasks,        \* the spawned tasks
    now,          \* the clock
    handler,      \* the packet that the receive handler works on
    panic,        \* why the receive handler panicked, or "none"
    running,      \* between init and shutdown
    store,        \* the peer store
    asked,        \* history: number of verification requests to each peer
    sent          \* history: the requests sent, as << peer, kind, hash >>

discoveryVars == << active, replacements, entry, open, tasks, now, handler, panic,
                    running, store, asked, sent >>

ASSUME PeerDiscoveryAssumption ==
    /\ EntryNodes \in Seq(Peers)
    /\ DEFAULT_MAX_MANAGED \in Nat \ {0} /\ Len(EntryNodes) <= DEFAULT_MAX_MANAGED
    /\ DEFAULT_MAX_REPLACEMENTS \in Nat \ {0} /\ MAX_PEERS_IN_RESPONSE \in Nat
-----------------------------------------------------------------------------
(* PeerRing *)
Ids(ring) == {ring[i].id : i \in DOMAIN ring}

RingInsert(ring, p, size) ==
    IF p.id \in Ids(ring) THEN ring
    ELSE << p >> \o (IF Len(ring) >= size THEN Front(ring) ELSE ring)

find_index(ring, id) == CHOOSE i \in DOMAIN ring : ring[i].id = id

RingRemove(ring, id) ==
    IF id \in Ids(ring) THEN RemoveAt(ring, find_index(ring, id)) ELSE ring

(* set_newest_and_get_mut rotates the ring. *)
RingSetNewest(ring, id) ==
    LET mid == find_index(ring, id)
    IN  SubSeq(ring, mid, Len(ring)) \o SubSeq(ring, 1, mid - 1)

ReplacementPeer(id) == [id |-> id]

ActivePeer(id) == [id |-> id, verified_count |-> 0, last_new_peers |-> 0]
-----------------------------------------------------------------------------
(* Helpers of the manager. *)
is_known(id, lists) == id \in Ids(lists.active) \cup Ids(lists.replacements)

add_peer(lists, id) ==
    CASE is_known(id, lists) -> lists
      [] ~ is_known(id, lists) /\ Len(lists.active) < DEFAULT_MAX_MANAGED ->
            [lists EXCEPT !.active = RingInsert(@, ActivePeer(id), DEFAULT_MAX_MANAGED)]
      [] OTHER -> [lists EXCEPT !.replacements = RingInsert(@, ReplacementPeer(id), DEFAULT_MAX_REPLACEMENTS)]

(* Where the verified peers are in the list. *)
get_verified_peers == {i \in DOMAIN active : active[i].verified_count > 0}

(* The answers to a discovery request, where num active peers were counted: *)
(* verified peers, all or a sample.                                         *)
choose_n_random_peers(num) ==
    LET verified == {active[i].id : i \in get_verified_peers}
    IN  IF num <= MAX_PEERS_IN_RESPONSE THEN {verified}
        ELSE {s \in SUBSET verified : Cardinality(s) <= MAX_PEERS_IN_RESPONSE /\
                (Cardinality(s) = MAX_PEERS_IN_RESPONSE \/ s = verified)}

remove_at(i) == RemoveAt(replacements, i)

(* remove_peer_from_active_list: an entry peer stays, unverified; another  *)
(* peer makes place for a random replacement.                              *)
remove_peer(id) ==
    LET rest == RingRemove(active, id)
    IN  IF id \notin Ids(active) THEN UNCHANGED << active, replacements >>
        ELSE IF id \in entry
        THEN /\ active' = RingInsert(rest, [active[find_index(active, id)] EXCEPT !.verified_count = 0],
                                     DEFAULT_MAX_MANAGED)
             /\ UNCHANGED replacements
        ELSE IF replacements = << >>
        THEN active' = rest /\ UNCHANGED replacements
        ELSE \E i \in DOMAIN replacements :
                /\ active' = RingInsert(rest, ActivePeer(replacements[i].id), DEFAULT_MAX_MANAGED)
                /\ replacements' = remove_at(i)
-----------------------------------------------------------------------------
NoPacket == [at |-> "idle", response |-> FALSE, peers |-> << >>, from |-> NoTask, added |-> 0, tx |-> NoTask]

EmptyStore == [active |-> {}, replacements |-> {}]

(* add_peers_from_store, in the order in which the store lists them. *)
RingOf(peers, size) == FoldLeft(LAMBDA ring, p : RingInsert(ring, p, size), << >>, peers)

add_peers_from_store(actives, others) ==
    [ active |-> RingOf(actives, DEFAULT_MAX_MANAGED),
      replacements |-> RingOf(others, DEFAULT_MAX_REPLACEMENTS) ]

add_entry_peers == FoldLeft(add_peer, [active |-> << >>, replacements |-> << >>], EntryNodes)

(* The entry nodes are used only if the store knows no peer. *)
StartDiscovery ==
    /\ ~ running
    /\ running' = TRUE
    /\ panic' = "none"
    /\ UNCHANGED << open, tasks, handler >>
    /\ IF store = EmptyStore
       THEN /\ active' = add_entry_peers.active
            /\ replacements' = add_entry_peers.replacements
            /\ entry' = ToSet(EntryNodes)
       ELSE \E actives \in SetToSeqs(store.active), others \in SetToSeqs(store.replacements) :
                /\ active' = add_peers_from_store(actives, others).active
                /\ replacements' = add_peers_from_store(actives, others).replacements
                /\ entry' = {}
    /\ UNCHANGED << now, store, asked, sent >>

(* TaskManager::shutdown deletes the store, then writes the active peers,  *)
(* then the replacements; the process may be killed in between.  It waits  *)
(* for the receive handler, and panics before it comes to that if the      *)
(* handler is gone.                                                        *)
StopDiscovery ==
    /\ running
    /\ running' = FALSE
    /\ panic' = "none"
    /\ active' = << >> /\ replacements' = << >> /\ entry' = {}
    /\ open' = << >>
    /\ tasks' = [t \in Tasks |-> Idle]
    /\ handler' = NoPacket
    /\ panic # "none" \/ handler # NoPacket => store' = store
    /\ store' \in { store, EmptyStore,
                    [active |-> ToSet(active), replacements |-> {}],
                    [active |-> ToSet(active), replacements |-> ToSet(replacements)] }
    /\ UNCHANGED << now, asked, sent >>
-----------------------------------------------------------------------------
(* send_verification_request_to_addr, send_discovery_request_to_addr:      *)
(* replacing a request drops the sending half of the replaced one.         *)
SendRequest(requests, waiting, kind, id, tx) ==
    [ open |-> Created(requests, kind, id, now, now, tx),
      tasks |-> Dropped(waiting, requests, {<< id, kind >>}) ]

MayAsk(n) == SumFunction(asked) + n <= MaxAsked
Asked(id) == [asked EXCEPT ![id] = @ + 1]

(* The answer is passed to the task that waits for it.  Sending to a task  *)
(* that has dropped its receiving half is an error, and a panic.           *)
Notified(waiting, tx) ==
    IF tx \in Tasks /\ waiting[tx].state = "waiting"
    THEN [waiting EXCEPT ![tx].state = "answered"] ELSE waiting
NotifyFails(waiting, tx) == tx \in Tasks /\ waiting[tx].state # "waiting"

(* The receive handler is at a step of its work. *)
HandlerAt(step) == running /\ panic = "none" /\ handler.at = step

ThisPeer == Head(handler.peers)

(* Where a handler goes on that has no more to do for this peer: one that  *)
(* asked whether the peer is known is done, one that added the sender of a *)
(* request asks it to verify itself in any case, and one that adds the     *)
(* peers of a response comes to the next one.                              *)
Leave(h) ==
    CASE h.at = "known" -> NoPacket
      [] h.at # "known" /\ ~ h.response -> [h EXCEPT !.at = "send"]
      [] OTHER -> [h EXCEPT !.peers = Tail(@), !.at = IF Len(h.peers) = 1 THEN "finish" ELSE "add"]

(* handle_verification_request: the answer is sent in any case.  A peer    *)
(* that is not active is looked up among the replacements next.            *)
HandleVerificationRequest(id) ==
    /\ HandlerAt("idle")
    /\ handler' = IF id \in Ids(active) THEN NoPacket
                  ELSE [NoPacket EXCEPT !.at = "known", !.peers = << id >>]
    /\ UNCHANGED << active, replacements, entry, open, tasks, now, panic, running, store, asked, sent >>

(* is_known in add_peer: the lists are read one after the other. *)
IsActive ==
    /\ HandlerAt("add")
    /\ handler' = IF ThisPeer \in Ids(active) THEN Leave(handler)
                  ELSE [handler EXCEPT !.at = "add_known"]
    /\ UNCHANGED << active, replacements, entry, open, tasks, now, panic, running, store, asked, sent >>

IsReplacement ==
    /\ HandlerAt(handler.at) /\ handler.at \in {"known", "add_known"}
    /\ handler' = IF ThisPeer \in Ids(replacements) THEN Leave(handler)
                  ELSE [handler EXCEPT !.at = IF @ = "known" THEN "add" ELSE "is_full"]
    /\ UNCHANGED << active, replacements, entry, open, tasks, now, panic, running, store, asked, sent >>

IsFull ==
    /\ HandlerAt("is_full")
    /\ handler' = [handler EXCEPT !.at = IF Len(active) < DEFAULT_MAX_MANAGED THEN "insert_active"
                                         ELSE "insert_replacement"]
    /\ UNCHANGED << active, replacements, entry, open, tasks, now, panic, running, store, asked, sent >>

(* add_peer returns the peer only if the list did not have it by now. *)
Inserted(isNew) ==
    IF isNew /\ handler.response THEN [handler EXCEPT !.at = "send", !.added = @ + 1] ELSE Leave(handler)

InsertActive ==
    /\ HandlerAt("insert_active")
    /\ active' = RingInsert(active, ActivePeer(ThisPeer), DEFAULT_MAX_MANAGED)
    /\ handler' = Inserted(ThisPeer \notin Ids(active))
    /\ UNCHANGED << replacements, entry, open, tasks, now, panic, running, store, asked, sent >>

InsertReplacement ==
    /\ HandlerAt("insert_replacement")
    /\ replacements' = RingInsert(replacements, ReplacementPeer(ThisPeer), DEFAULT_MAX_REPLACEMENTS)
    /\ handler' = Inserted(ThisPeer \notin Ids(replacements))
    /\ UNCHANGED << active, entry, open, tasks, now, panic, running, store, asked, sent >>

(* A handler that panics drops the sending half it holds. *)
HandlerPanics(reason) ==
    /\ panic' = reason
    /\ handler' = NoPacket
    /\ tasks' = IF handler.tx \in Tasks /\ tasks[handler.tx].state = "waiting"
                THEN [tasks EXCEPT ![handler.tx].state = "closed"] ELSE tasks

(* The sender of a verification request is asked at the address it sent    *)
(* from; a peer of a discovery response at that of the active list.  If it *)
(* became a replacement, or was removed meanwhile, the handler panics.     *)
SendVerification ==
    LET request == SendRequest(open, tasks, "verification", ThisPeer, NoTask)
    IN  /\ HandlerAt("send")
        /\ IF handler.response /\ ThisPeer \notin Ids(active)
           THEN HandlerPanics("unlisted") /\ UNCHANGED << open, asked, sent >>
           ELSE /\ MayAsk(1)
                /\ open' = request.open
                /\ tasks' = request.tasks
                /\ asked' = Asked(ThisPeer)
                /\ sent' = sent \cup {<< ThisPeer, "verification", now >>}
                /\ handler' = IF handler.response THEN Leave(handler) ELSE NoPacket
                /\ UNCHANGED panic
        /\ UNCHANGED << active, replacements, entry, now, running, store >>

(* validate_verification_response takes the request out of the manager,    *)
(* whether the answer is accepted or not.                                  *)
Matches(id, kind, hash) ==
    << id, kind >> \in DOMAIN open /\ open[<< id, kind >>].hash = hash

KeepRequest(requests, kind, peer) == requests

AnsweredRequest(requests, kind, peer) == Removed(requests, kind, peer)

HandleVerificationResponse(id, hash, serves) ==
    LET key == << id, "verification" >>
        accepted == Matches(id, "verification", hash) /\ serves
        tx == open[key].tx
        front == RingSetNewest(active, id)
    IN  /\ HandlerAt("idle")
        /\ key \in DOMAIN open
        /\ open' = AnsweredRequest(open, "verification", id)
        /\ IF accepted /\ id \in Ids(active)
           THEN active' = [front EXCEPT ![1].verified_count = @ + 1]
           ELSE UNCHANGED active
        /\ tasks' = IF accepted THEN Notified(tasks, tx) ELSE Dropped(tasks, open, {key})
        /\ panic' = IF accepted /\ NotifyFails(tasks, tx) THEN "late" ELSE "none"
        /\ UNCHANGED << replacements, entry, now, handler, running, store, asked, sent >>

(* The number of active peers is read first.  If it is more than fits into *)
(* the answer, a random order of that many indexes is looked up: one that  *)
(* a removal has left behind makes the handler panic.                      *)
HandleDiscoveryRequest ==
    /\ HandlerAt("idle")
    /\ handler' = [NoPacket EXCEPT !.at = "choose", !.added = Len(active)]
    /\ UNCHANGED << active, replacements, entry, open, tasks, now, panic, running, store, asked, sent >>

AnswerDiscovery ==
    /\ HandlerAt("choose")
    /\ \/ /\ \E told \in choose_n_random_peers(handler.added) : Cardinality(told) <= MAX_PEERS_IN_RESPONSE
          /\ UNCHANGED panic
       \/ handler.added > MAX_PEERS_IN_RESPONSE /\ handler.added > Len(active) /\ panic' = "shrunk"
    /\ handler' = NoPacket
    /\ UNCHANGED << active, replacements, entry, open, tasks, now, running, store, asked, sent >>

(* validate_discovery_response takes the request out of the manager.  The  *)
(* peers of an accepted answer are added one after the other.              *)
HandleDiscoveryResponse(id, hash, peers) ==
    LET key == << id, "discovery" >>
    IN  /\ HandlerAt("idle")
        /\ key \in DOMAIN open
        /\ open' = Removed(open, "discovery", id)
        /\ IF Matches(id, "discovery", hash)
           THEN /\ handler' = [ at |-> IF peers = << >> THEN "finish" ELSE "add", response |-> TRUE,
                                peers |-> peers, from |-> id, added |-> 0, tx |-> open[key].tx ]
                /\ UNCHANGED tasks
           ELSE tasks' = Dropped(tasks, open, {key}) /\ UNCHANGED handler
        /\ UNCHANGED << active, replacements, entry, now, panic, running, store, asked, sent >>

(* The sender must be active still, and the task must wait still. *)
FinishDiscovery ==
    LET listed == handler.from \in Ids(active)
        at == find_index(active, handler.from)
    IN  /\ HandlerAt("finish")
        /\ active' = IF listed THEN [active EXCEPT ![at].last_new_peers = handler.added] ELSE active
        /\ IF ~ listed THEN HandlerPanics("unlisted")
           ELSE IF NotifyFails(tasks, handler.tx) THEN HandlerPanics("late")
           ELSE /\ tasks' = Notified(tasks, handler.tx)
                /\ handler' = NoPacket
                /\ UNCHANGED panic
        /\ UNCHANGED << replacements, entry, open, now, running, store, asked, sent >>
-----------------------------------------------------------------------------
Timer == running /\ UNCHANGED << active, replacements, entry, open, now, handler, panic,
                                  running, store, asked, sent >>

(* A name for a new task: the handler holds no channel of a task that had it. *)
Free(t) == tasks[t] = Idle /\ t # handler.tx

(* reverify_fn: the peer at the end of the list. *)
Reverify(t) ==
    /\ Timer
    /\ Free(t)
    /\ active # << >>
    /\ tasks' = [tasks EXCEPT ![t] = Spawned("verification", active[Len(active)].id)]

(* select_peers_to_query: up to two verified peers, else the newest and    *)
(* one of the three that brought most new peers.                           *)
select_peers_to_query ==
    LET verified == get_verified_peers
        others == verified \ {Min(verified)}
        Heavier(i) == Cardinality({j \in others : active[j].last_new_peers > active[i].last_new_peers})
    IN  IF Cardinality(verified) < 3 THEN {{active[i].id : i \in verified}}
        ELSE {{active[Min(verified)].id, active[i].id} : i \in {j \in others : Heavier(j) < 3}}

(* query_fn: a task for each of the selected peers. *)
Query ==
    /\ Timer
    /\ \E selected \in select_peers_to_query :
        \E spawned \in [selected -> Tasks] :
            /\ selected # {}
            /\ IsInjective(spawned)
            /\ \A p \in selected : Free(spawned[p])
            /\ tasks' = [t \in Tasks |->
                            IF \E p \in selected : spawned[p] = t
                            THEN Spawned("discovery", CHOOSE p \in selected : spawned[p] = t) ELSE tasks[t]]

(* begin_verification, begin_discovery: the task panics if its peer is no  *)
(* longer active; nobody waits for it.                                     *)
BeginRequest(t) ==
    LET id == tasks[t].peer
        kind == tasks[t].kind
        request == SendRequest(open, [tasks EXCEPT ![t].state = "waiting"], kind, id, t)
    IN  /\ running
        /\ tasks[t].state = "spawned"
        /\ IF id \notin Ids(active)
           THEN tasks' = [tasks EXCEPT ![t] = Idle] /\ UNCHANGED << open, asked, sent >>
           ELSE /\ kind = "verification" => MayAsk(1)
                /\ open' = request.open
                /\ tasks' = request.tasks
                /\ asked' = IF kind = "verification" THEN Asked(id) ELSE asked
                /\ sent' = sent \cup {<< id, kind, now >>}
        /\ UNCHANGED << active, replacements, entry, now, handler, panic, running, store >>

(* After RESPONSE_TIMEOUT the receiving half is dropped. *)
ResponseTimeout(t) ==
    /\ Timer
    /\ tasks[t].state = "waiting"
    /\ tasks' = [tasks EXCEPT ![t].state = "late"]

(* What is then removed is the request that is open, whoever opened it. *)
RemoveLateRequest(t) ==
    LET key == << tasks[t].peer, tasks[t].kind >>
    IN  /\ running
        /\ tasks[t].state = "late"
        /\ open' = Removed(open, tasks[t].kind, tasks[t].peer)
        /\ tasks' = Dropped([tasks EXCEPT ![t].state = "failed"], open, {key})
        /\ UNCHANGED << active, replacements, entry, now, handler, panic, running, store, asked, sent >>

(* A closed channel is a failed verification, but an empty discovery. *)
EndRequest(t) ==
    /\ Timer
    /\ tasks[t].state \in {"answered", "closed"}
    /\ tasks' = [tasks EXCEPT ![t] = IF @.kind = "verification" /\ @.state = "closed"
                                     THEN [@ EXCEPT !.state = "failed"] ELSE Idle]

RemovePeer(t) ==
    /\ running
    /\ tasks[t].state = "failed"
    /\ remove_peer(tasks[t].peer)
    /\ tasks' = [tasks EXCEPT ![t] = Idle]
    /\ UNCHANGED << entry, open, now, handler, panic, running, store, asked, sent >>

(* A timeout is shorter than a second. *)
DiscoveryTick ==
    /\ now < MaxTime
    /\ \A t \in Tasks : tasks[t].state = "idle"
    /\ now' = now + 1
    /\ open' = Unexpired(open, now + 1)
    /\ UNCHANGED << active, replacements, entry, tasks, handler, panic, running, store, asked, sent >>
-----------------------------------------------------------------------------
DiscoveryInit ==
    /\ active = << >> /\ replacements = << >> /\ entry = {}
    /\ open = << >>
    /\ tasks = [t \in Tasks |-> Idle]
    /\ now = 0
    /\ handler = NoPacket
    /\ panic = "none" /\ running = FALSE
    /\ store = EmptyStore
    /\ asked = [p \in Peers |-> 0]
    /\ sent = {}

DiscoveryRecv ==
    \/ HandleDiscoveryRequest
    \/ \E id \in Peers :
        \/ HandleVerificationRequest(id)
        \/ \E hash \in 0 .. now :
            \/ << id, "verification", hash >> \in sent /\
                \E serves \in BOOLEAN : HandleVerificationResponse(id, hash, serves)
            \/ << id, "discovery", hash >> \in sent /\
                \E peers \in SeqOf(Peers, MAX_PEERS_IN_RESPONSE) : HandleDiscoveryResponse(id, hash, peers)

DiscoveryHandler ==
    \/ IsActive
    \/ IsReplacement
    \/ IsFull
    \/ InsertActive
    \/ InsertReplacement
    \/ SendVerification
    \/ AnswerDiscovery
    \/ FinishDiscovery

DiscoveryNext ==
    \/ StartDiscovery
    \/ StopDiscovery
    \/ DiscoveryRecv
    \/ DiscoveryHandler
    \/ Query
    \/ DiscoveryTick
    \/ \E t \in Tasks :
        \/ Reverify(t)
        \/ BeginRequest(t)
        \/ ResponseTimeout(t)
        \/ RemoveLateRequest(t)
        \/ EndRequest(t)
        \/ RemovePeer(t)
-----------------------------------------------------------------------------
DiscoverySpec == DiscoveryInit /\ [][DiscoveryNext]_discoveryVars
-----------------------------------------------------------------------------
DiscoveryTypeOK ==
    /\ Len(active) <= DEFAULT_MAX_MANAGED
    /\ Len(replacements) <= DEFAULT_MAX_REPLACEMENTS
    /\ Cardinality(Ids(active)) = Len(active)
    /\ Cardinality(Ids(replacements)) = Len(replacements)
    /\ DOMAIN open \subseteq Peers \X {"verification", "discovery"}
    /\ \A t \in Tasks : tasks[t] = Idle \/ tasks[t].state \in TaskStates
    /\ panic \in {"none", "unlisted", "late", "shrunk"} /\ running \in BOOLEAN

(* "The entry peer list doesn't need to be queried, because those are      *)
(* always a subset of the active peers" (is_known): no removal after a     *)
(* failed verification, and no new peer in a full list, takes an entry     *)
(* peer out of the active list.                                            *)
EntryPeersActive == running => entry \subseteq Ids(active)

(* However often an answer is repeated or delayed, a peer is credited with *)
(* at most one verification for each request that was sent to it.          *)
VerifiedOncePerRequest ==
    \A i \in DOMAIN active : active[i].verified_count <= asked[active[i].id]

(* Whatever answers arrive late, twice or never, and whatever peers are     *)
(* removed between two locks of the receive handler: the lists stay within  *)
(* their bounds and without repetition, entry peers stay active, and a      *)
(* request counts for one verification at most (DiscoveryManager,           *)
(* RequestManager).  That no peer is in both lists is not part of it: a     *)
(* replacement that becomes active between the two reads of is_known is     *)
(* added to the replacements again.                                         *)
DiscoverySound ==
    /\ DiscoveryTypeOK
    /\ EntryPeersActive
    /\ VerifiedOncePerRequest
=============================================================================
