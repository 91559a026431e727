---------------------------- MODULE MessageIntake ---------------------------
(***************************************************************************)
(* The way of a message from a peer or the API into the Tangle             *)
(* (bee-protocol: message/submitter.rs, hasher.rs, hash_cache.rs,          *)
(* processor.rs, broadcaster.rs).  The hasher drops the messages that its  *)
(* cache of limited size remembers, the processors, several tasks that     *)
(* share a queue, check and insert the others, and the broadcaster sends   *)
(* on what was not requested.                                              *)
(***************************************************************************)
EXTENDS Integers, SequencesExt, FiniteSets

CONSTANTS
    Incoming,        \* messages, by their bytes
    Kind,            \* what is right or wrong with each of them
    Neighbours,      \* the peers
    Workers,         \* the tasks of the processor
    message_worker_cache,
    MaxEvents,       \* bound: messages received or submitted
    Nobody

(* The hasher gives up with an empty cache.                                *)
ASSUME IntakeAssumption ==
    /\ message_worker_cache \in Nat \ {0} /\ MaxEvents \in Nat
    /\ IsFiniteSet(Neighbours)
    /\ Nobody \notin [step : {"pull", "fetch", "insert", "store", "requested", "notify"},
                      event : [from : {Nobody} \cup Neighbours, message : Incoming,
                               number : 1 .. MaxEvents]]

VARIABLES
    cache, elem_order,    \* HashCache
    hasher_queue,
    processor_queue,
    working,              \* what each task of the processor is doing
    cached,               \* messages among the vertices of the Tangle
    stored,               \* messages in the storage
    requested,            \* requested_messages
    broadcaster,          \* messages to be sent on, with their source
    arrived,              \* history: the events, in their order
    displaced,                \* history: messages evicted while one was inserting them
    sent,                 \* history: messages sent on, with their receiver
    notified              \* history: event -> the answers to its notifier

intakeVars == << cache, elem_order, hasher_queue, processor_queue, working, cached, stored,
                 requested, broadcaster, arrived, displaced, sent, notified >>

tangleVars == << cached, stored, displaced >>

(* The event of a message; the notifier, if it came from the API, is known *)
(* by the number of the event.                                             *)
Event(from, m) == [from |-> from, message |-> m, number |-> Len(arrived) + 1]

Notify(event, answer) ==
    notified' = IF event.from = Nobody
                THEN [notified EXCEPT ![event.number] = Append(@, answer)] ELSE notified
-----------------------------------------------------------------------------
(* process_packet hands a message packet to the hasher, the submitter a    *)
(* message from the API.                                                   *)
ReceiveMessage(from, m) ==
    /\ Len(arrived) < MaxEvents
    /\ hasher_queue' = Append(hasher_queue, Event(from, m))
    /\ arrived' = Append(arrived, Event(from, m))
    /\ UNCHANGED << cache, elem_order, processor_queue, working, tangleVars, requested,
                    broadcaster, sent, notified >>

(* The requesters ask for a message that is not there.                     *)
RequestMessage(m) ==
    /\ m \notin cached \cup stored \cup requested
    /\ requested' = requested \cup {m}
    /\ UNCHANGED << cache, elem_order, hasher_queue, processor_queue, working, tangleVars,
                    broadcaster, arrived, sent, notified >>

(* Mutation: the oldest hash leaves the order, but not the set.            *)
EvictedOrderOnly ==
    IF Cardinality(cache) >= message_worker_cache
    THEN << {}, Tail(elem_order) >> ELSE << {}, elem_order >>

(* What insert removes from a cache that is full, and the order after it.  *)
Evicted ==
    IF Cardinality(cache) >= message_worker_cache
    THEN << {Head(elem_order)}, Tail(elem_order) >> ELSE << {}, elem_order >>

(* The hasher: the cache, then the score of the proof of work.             *)
HashMessage ==
    /\ hasher_queue # << >>
    /\ hasher_queue' = Tail(hasher_queue)
    /\ LET event == Head(hasher_queue) IN
       IF event.message \in cache
       THEN /\ Notify(event, "known")
            /\ UNCHANGED << cache, elem_order, processor_queue >>
       ELSE /\ cache' = (cache \ Evicted[1]) \cup {event.message}
            /\ elem_order' = Append(Evicted[2], event.message)
            /\ IF Kind[event.message] = "low_score"
               THEN Notify(event, "invalid") /\ UNCHANGED processor_queue
               ELSE /\ processor_queue' = Append(processor_queue, event)
                    /\ UNCHANGED notified
    /\ UNCHANGED << working, tangleVars, requested, broadcaster, arrived, sent >>

(* A task of the processor takes an event.                                 *)
TakeEvent(w) ==
    /\ working[w] = Nobody /\ processor_queue # << >>
    /\ working' = [working EXCEPT ![w] = [step |-> "pull", event |-> Head(processor_queue)]]
    /\ processor_queue' = Tail(processor_queue)
    /\ UNCHANGED << cache, elem_order, hasher_queue, tangleVars, requested, broadcaster, arrived,
                    sent, notified >>

(* A message that cannot be unpacked, or is of another network.            *)
RejectMessage(w) ==
    /\ working[w] # Nobody /\ working[w].step = "pull"
    /\ Kind[working[w].event.message] \in {"malformed", "foreign"}
    /\ Notify(working[w].event, "invalid")
    /\ working' = [working EXCEPT ![w] = Nobody]
    /\ UNCHANGED << cache, elem_order, hasher_queue, processor_queue, tangleVars, requested,
                    broadcaster, arrived, sent >>

(* Mutation: a message that is known is processed once more.               *)
ContinuesAlways(m) == TRUE

(* insert_inner: a vertex that has no message gets this one.               *)
Continues(m) == m \notin cached

(* Tangle::insert has returned nothing: the processor drops the message,   *)
(* and its notifier with it.                                               *)
Drop(w) ==
    /\ working' = [working EXCEPT ![w] = Nobody]
    /\ Notify(working[w].event, "dropped")

Advance(w, step) ==
    /\ working' = [working EXCEPT ![w].step = step]
    /\ UNCHANGED notified

(* pull_message: is there a vertex with the message?  The block that it    *)
(* gets against eviction ends with the call, without any effect on others. *)
PullMessage(w) ==
    LET m == working[w].event.message IN
    /\ working[w] # Nobody /\ working[w].step = "pull"
    /\ Kind[m] = "good"
    /\ IF m \in cached THEN Drop(w) ELSE Advance(w, "fetch")
    /\ UNCHANGED << cache, elem_order, hasher_queue, processor_queue, tangleVars, requested,
                    broadcaster, arrived, sent >>

(* pull_message: storage_get, and the vertex for what it found.            *)
FetchMessage(w) ==
    LET m == working[w].event.message IN
    /\ working[w] # Nobody /\ working[w].step = "fetch"
    /\ IF m \in stored
       THEN cached' = cached \cup {m} /\ Drop(w)
       ELSE UNCHANGED cached /\ Advance(w, "insert")
    /\ UNCHANGED << cache, elem_order, hasher_queue, processor_queue, stored, displaced, requested,
                    broadcaster, arrived, sent >>

(* insert_inner, and allow_eviction after it: of the tasks that found      *)
(* nothing one gets the message, the others drop it.                       *)
InsertMessage(w) ==
    LET m == working[w].event.message IN
    /\ working[w] # Nobody /\ working[w].step = "insert"
    /\ cached' = cached \cup {m}
    /\ IF Continues(m) THEN Advance(w, "store") ELSE Drop(w)
    /\ UNCHANGED << cache, elem_order, hasher_queue, processor_queue, stored, displaced, requested,
                    broadcaster, arrived, sent >>

(* The end of Tangle::insert: the message is stored.                       *)
StoreMessage(w) ==
    /\ working[w] # Nobody /\ working[w].step = "store"
    /\ stored' = stored \cup {working[w].event.message}
    /\ Advance(w, "requested")
    /\ UNCHANGED << cache, elem_order, hasher_queue, processor_queue, cached, displaced, requested,
                    broadcaster, arrived, sent >>

(* A task is between its look at the storage and insert_inner, or has not  *)
(* stored yet what insert_inner gave it.                                   *)
MidInsert(m) ==
    \E w \in Workers : /\ working[w] # Nobody /\ working[w].event.message = m
                       /\ working[w].step \in {"insert", "store"}

(* perform_eviction, by any insertion into the vertices.                   *)
EvictMessage(m) ==
    /\ m \in cached
    /\ cached' = cached \ {m}
    /\ displaced' = IF MidInsert(m) THEN displaced \cup {m} ELSE displaced
    /\ UNCHANGED << cache, elem_order, hasher_queue, processor_queue, working, stored, requested,
                    broadcaster, arrived, sent, notified >>

(* A requested message stays here, another one is sent on.                 *)
SettleRequest(w) ==
    LET event == working[w].event IN
    /\ working[w] # Nobody /\ working[w].step = "requested"
    /\ requested' = requested \ {event.message}
    /\ broadcaster' = IF event.message \in requested THEN broadcaster
                      ELSE Append(broadcaster, event)
    /\ working' = [working EXCEPT ![w].step = "notify"]
    /\ UNCHANGED << cache, elem_order, hasher_queue, processor_queue, tangleVars, arrived,
                    sent, notified >>

NotifyMessage(w) ==
    /\ working[w] # Nobody /\ working[w].step = "notify"
    /\ Notify(working[w].event, "ok")
    /\ working' = [working EXCEPT ![w] = Nobody]
    /\ UNCHANGED << cache, elem_order, hasher_queue, processor_queue, tangleVars, requested,
                    broadcaster, arrived, sent >>

(* Everyone but the source.                                                *)
Receivers(source) == Neighbours \ {source}

Broadcast ==
    /\ broadcaster # << >>
    /\ broadcaster' = Tail(broadcaster)
    /\ LET event == Head(broadcaster)
           copies == SetToSeq({ [message |-> event.message, to |-> p] : p \in Receivers(event.from) })
       IN  sent' = sent \o copies
    /\ UNCHANGED << cache, elem_order, hasher_queue, processor_queue, working, tangleVars, requested,
                    arrived, notified >>

IntakeInit ==
    /\ cache = {} /\ elem_order = << >>
    /\ hasher_queue = << >> /\ processor_queue = << >>
    /\ working = [w \in Workers |-> Nobody]
    /\ cached = {} /\ stored = {} /\ displaced = {} /\ requested = {} /\ broadcaster = << >>
    /\ arrived = << >> /\ sent = << >>
    /\ notified = [n \in 1 .. MaxEvents |-> << >>]

IntakeNext ==
    \/ \E from \in {Nobody} \cup Neighbours, m \in Incoming : ReceiveMessage(from, m)
    \/ \E m \in Incoming : RequestMessage(m)
    \/ HashMessage
    \/ \E w \in Workers :
         \/ TakeEvent(w) \/ RejectMessage(w)
         \/ PullMessage(w) \/ FetchMessage(w) \/ InsertMessage(w) \/ StoreMessage(w)
         \/ SettleRequest(w) \/ NotifyMessage(w)
    \/ \E m \in Incoming : EvictMessage(m)
    \/ Broadcast

IntakeSpec == IntakeInit /\ [][IntakeNext]_intakeVars
-----------------------------------------------------------------------------
(* A message is sent on at most once to each peer, and not to one that is  *)
(* the only one to have it sent to us, although the cache of the hasher    *)
(* forgets messages, several tasks may work on copies of one, and its      *)
(* vertex comes and goes.  Tangle::insert allows the eviction of a vertex  *)
(* before it is stored: a message that was evicted then may be inserted,   *)
(* and sent on, once more.                                                 *)
SentOnOnce ==
    /\ \A i, j \in DOMAIN sent : sent[i] = sent[j] /\ sent[i].message \notin displaced => i = j
    /\ \A i \in DOMAIN sent : \E k \in DOMAIN arrived :
          arrived[k].message = sent[i].message /\ arrived[k].from # sent[i].to

(* No message is on its way.                                               *)
IntakeQuiet ==
    hasher_queue = << >> /\ processor_queue = << >> /\ \A w \in Workers : working[w] = Nobody

(* Once all queues are empty every valid message that arrived is in the    *)
(* storage, although copies of it were dropped on the way, and the cache   *)
(* and the order of its eviction describe the same messages.               *)
NoValidMessageLost ==
    /\ IntakeQuiet => stored = { arrived[k].message : k \in { n \in DOMAIN arrived :
                                                          Kind[arrived[n].message] = "good" } }
    /\ cache = Range(elem_order) /\ Cardinality(cache) = Len(elem_order)
    /\ Len(elem_order) <= message_worker_cache

(* A submission gets one answer, and "ok" only goes to the one that put    *)
(* its message into the Tangle: of several submissions of a message at     *)
(* most one hears that it succeeded, if it was not evicted on its way.     *)
AnsweredOnce ==
    /\ \A n \in DOMAIN notified : Len(notified[n]) <= 1
    /\ IntakeQuiet => \A n \in DOMAIN arrived : arrived[n].from = Nobody => Len(notified[n]) = 1
    /\ \A n, k \in DOMAIN arrived :
          /\ notified[n] = << "ok" >> /\ notified[k] = << "ok" >>
          /\ arrived[n].message = arrived[k].message /\ arrived[n].message \notin displaced
          => n = k

(* Copies are dropped on the way, messages are not: every valid message     *)
(* that arrived ends in the storage, and every submission is answered once  *)
(* (HashCache::insert, ProcessorWorker).                                    *)
IntakeComplete ==
    /\ NoValidMessageLost
    /\ AnsweredOnce
=============================================================================
