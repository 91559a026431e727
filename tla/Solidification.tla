--------------------------- MODULE Solidification ---------------------------
(***************************************************************************)
(* How messages become solid and milestones are handed to the consensus    *)
(* worker (bee-protocol: message/processor.rs, propagator.rs, requester,   *)
(* message/payload/milestone.rs, solidifier.rs; bee-tangle: tangle.rs).    *)
(* Processors insert the messages that arrive, the propagator spreads      *)
(* solidity from parents to children, the milestone payload worker adds    *)
(* milestones, and the solidifier confirms the next milestone once it is   *)
(* solid.  The workers only meet in the Tangle and in the queues between   *)
(* them; each read or write of either is a step.                           *)
(*                                                                         *)
(* Sets stand for the queues whose order does not matter: a message enters *)
(* each of them once, because Tangle::insert returns it to one processor.  *)
(* The xMRSI values are abstracted to whether they are set.  Propagation   *)
(* looks at all parents of a message in one step: no other task marks      *)
(* messages as solid, and they stay so.                                    *)
(***************************************************************************)
EXTENDS Naturals, Sequences, FiniteSets

CONSTANTS
  Messages,
  SolidEntryPoints,
  Parents,       \* Parents[m]: the messages and solid entry points that m approves
  Milestones,    \* the messages with a valid milestone payload
  Index,         \* Index[m]: the index of milestone m
  StartIndex,    \* the milestone index of the snapshot
  SyncCount,     \* milestone_sync_count
  Processors,    \* the tasks of the ProcessorWorker
  MaxRequests,   \* bound: queued requests for the same message
  Nothing

ASSUME SolidificationAssumption ==
  /\ SolidEntryPoints \cap Messages = {}
  /\ Parents \in [Messages -> SUBSET (Messages \cup SolidEntryPoints)]
  /\ Milestones \subseteq Messages
  /\ Index \in [Milestones -> Nat]
  /\ \A x, y \in Milestones : Index[x] = Index[y] => x = y
  /\ StartIndex \in Nat /\ SyncCount \in Nat /\ MaxRequests \in Nat
  /\ Nothing \notin Messages /\ Nothing \notin Nat

VARIABLES
  \* The Tangle.
  inserted,        \* the messages that it contains
  linked,          \* those that are listed among the children of their parents
  solid,           \* flags().is_solid()
  is_milestone,    \* flags().is_milestone()
  rooted,          \* omrsi and ymrsi are set
  milestones,      \* the messages in the map of milestones
  smi, lmi,        \* solid_milestone_index, latest_milestone_index
  \* The processors: program counter, message, and parents still to request.
  pc, processing, todo,
  \* The requesters.
  req_queue, requested_messages, ms_queue, requested_milestones,
  \* The propagator: events, the stack of propagate, the message marked last.
  prop_queue, children, marked, announces,
  \* The messages on their way to the tip pool and the solidifier.
  solidified, announcing,
  \* The milestone payload worker.
  payload_queue, adding,
  \* The solidifier.
  solidifier_queue, next, target, limit,
  \* The commands for the consensus worker.
  confirm_queue

tangleVars    == <<inserted, linked, solid, is_milestone, rooted, milestones, smi, lmi>>
processorVars == <<pc, processing, todo>>
requestVars   == <<req_queue, requested_messages>>
msRequestVars == <<ms_queue, requested_milestones>>
propVars      == <<prop_queue, children, marked, announces>>
announceVars  == <<solidified, announcing>>
payloadVars   == <<payload_queue, adding>>
solidVars     == <<solidifier_queue, next, target, limit, confirm_queue>>
vars == <<tangleVars, processorVars, requestVars, msRequestVars, propVars, announceVars,
          payloadVars, solidVars>>

IsSolidMessage(x) == x \in SolidEntryPoints \cup solid

-----------------------------------------------------------------------------
(***************************************************************************)
(* Requests for messages (requester/message.rs).                           *)
(***************************************************************************)
\* request_message for each message of a set.
RequestMessages(S) ==
  req_queue' = [x \in Messages |->
    IF x \in S \ (inserted \cup requested_messages) /\ req_queue[x] < MaxRequests
    THEN req_queue[x] + 1 ELSE req_queue[x]]

\* process_request: the request is dropped if there are no peers.
ProcessRequest(x) ==
  /\ req_queue[x] > 0
  /\ req_queue' = [req_queue EXCEPT ![x] = @ - 1]
  /\ requested_messages' \in {requested_messages, requested_messages \cup {x}}
  /\ UNCHANGED <<tangleVars, processorVars, msRequestVars, propVars, announceVars, payloadVars,
                 solidVars>>

\* Mutation: requests are only sent again.
RetryRequestAgain(x) ==
  /\ x \in requested_messages \cap inserted
  /\ UNCHANGED vars

\* retry_requests: a request for a message that has arrived is dropped, the
\* other ones are sent again.
RetryRequest(x) ==
  /\ x \in requested_messages \cap inserted
  /\ requested_messages' = requested_messages \ {x}
  /\ UNCHANGED <<tangleVars, processorVars, req_queue, msRequestVars, propVars, announceVars,
                 payloadVars, solidVars>>

\* The same for milestones (requester/milestone.rs).  The requester looks
\* once more whether the milestone is there, but inserts the request after
\* that, so it may have arrived in between.
HasMilestone(i) == \E m \in milestones : Index[m] = i

ProcessMilestoneRequest(i) ==
  /\ i \in ms_queue
  /\ ms_queue' = ms_queue \ {i}
  /\ requested_milestones' \in {requested_milestones, requested_milestones \cup {i}}
  /\ UNCHANGED <<tangleVars, processorVars, requestVars, propVars, announceVars, payloadVars,
                 solidVars>>

RetryMilestoneRequest(i) ==
  /\ i \in requested_milestones /\ HasMilestone(i)
  /\ requested_milestones' = requested_milestones \ {i}
  /\ UNCHANGED <<tangleVars, processorVars, requestVars, ms_queue, propVars, announceVars,
                 payloadVars, solidVars>>

-----------------------------------------------------------------------------
(***************************************************************************)
(* The ProcessorWorker.  Any message may arrive at any time, requested or  *)
(* not.  One that the Tangle contains is dropped.                          *)
(***************************************************************************)
Receive(p, m) ==
  /\ pc[p] = "idle" /\ m \notin inserted
  /\ inserted' = inserted \cup {m}
  /\ pc' = [pc EXCEPT ![p] = "link"]
  /\ processing' = [processing EXCEPT ![p] = m]
  /\ UNCHANGED <<linked, solid, is_milestone, rooted, milestones, smi, lmi, todo, requestVars,
                 msRequestVars, propVars, announceVars, payloadVars, solidVars>>

\* The rest of Tangle::insert: the message becomes a child of its parents.
Link(p) ==
  /\ pc[p] = "link"
  /\ linked' = linked \cup {processing[p]}
  /\ pc' = [pc EXCEPT ![p] = "propagate"]
  /\ UNCHANGED <<inserted, solid, is_milestone, rooted, milestones, smi, lmi, processing, todo,
                 requestVars, msRequestVars, propVars, announceVars, payloadVars, solidVars>>

SendPropagate(p) ==
  /\ pc[p] = "propagate"
  /\ prop_queue' = prop_queue \cup {processing[p]}
  /\ pc' = [pc EXCEPT ![p] = "take"]
  /\ UNCHANGED <<tangleVars, processing, todo, requestVars, msRequestVars, children, marked,
                 announces, announceVars, payloadVars, solidVars>>

\* The parents are requested if the message was; else it is broadcast.
TakeRequest(p) ==
  /\ pc[p] = "take"
  /\ requested_messages' = requested_messages \ {processing[p]}
  /\ todo' = [todo EXCEPT ![p] = IF processing[p] \in requested_messages
                                 THEN Parents[processing[p]] ELSE {}]
  /\ pc' = [pc EXCEPT ![p] = "payload"]
  /\ UNCHANGED <<tangleVars, processing, req_queue, msRequestVars, propVars, announceVars,
                 payloadVars, solidVars>>

RequestParent(p) ==
  /\ pc[p] = "payload"
  /\ \E q \in todo[p] :
       /\ RequestMessages({q})
       /\ todo' = [todo EXCEPT ![p] = @ \ {q}]
  /\ UNCHANGED <<tangleVars, pc, processing, requested_messages, msRequestVars, propVars,
                 announceVars, payloadVars, solidVars>>

\* Mutation: every payload is handed to the milestone payload worker.
MilestonePayloadsAll(m) == {m}

\* The PayloadWorker hands milestone payloads to the milestone payload worker.
MilestonePayloads(m) == {m} \cap Milestones

SendPayload(p) ==
  /\ pc[p] = "payload" /\ todo[p] = {}
  /\ payload_queue' = payload_queue \cup MilestonePayloads(processing[p])
  /\ pc' = [pc EXCEPT ![p] = "idle"]
  /\ processing' = [processing EXCEPT ![p] = Nothing]
  /\ UNCHANGED <<tangleVars, todo, requestVars, msRequestVars, propVars,
                 announceVars, adding, solidVars>>

-----------------------------------------------------------------------------
(***************************************************************************)
(* The PropagatorWorker.                                                   *)
(***************************************************************************)
Propagate(x) ==
  /\ children = {} /\ marked = Nothing
  /\ x \in prop_queue
  /\ prop_queue' = prop_queue \ {x}
  /\ children' = {x}
  /\ UNCHANGED <<tangleVars, processorVars, requestVars, msRequestVars, marked, announces,
                 announceVars, payloadVars, solidVars>>

Solidifiable(x) == x \in inserted \ solid /\ \A q \in Parents[x] : IsSolidMessage(q)

\* One iteration of the loop: a message that is solid, or one of whose
\* parents is not, is skipped.
Skip(x) ==
  /\ marked = Nothing
  /\ x \in children
  /\ ~Solidifiable(x)
  /\ children' = children \ {x}
  /\ UNCHANGED <<tangleVars, processorVars, requestVars, msRequestVars, prop_queue, marked,
                 announces, announceVars, payloadVars, solidVars>>

\* Mutation: a milestone does not inherit anything, whether it was added or not.
RootedByPropagationNever(x) == {x} \ Milestones

\* A message that was not added as a milestone inherits xMRSI values.
RootedByPropagation(x) == {x} \ is_milestone

MarkSolid(x) ==
  /\ marked = Nothing
  /\ x \in children
  /\ Solidifiable(x)
  /\ children' = children \ {x}
  /\ solid' = solid \cup {x}
  /\ rooted' = rooted \cup RootedByPropagation(x)
  /\ marked' = x
  /\ announces' = (x \in is_milestone)
  /\ UNCHANGED <<inserted, linked, is_milestone, milestones, smi, lmi, processorVars, requestVars,
                 msRequestVars, prop_queue, announceVars, payloadVars, solidVars>>

\* Mutation: the children are not visited.
ChildrenNone(x) == {}

ChildrenOf(x) == {c \in linked : x \in Parents[c]}

PushChildren ==
  /\ marked # Nothing
  /\ children' = children \cup ChildrenOf(marked)
  /\ solidified' = solidified \cup {<<marked, announces>>}
  /\ marked' = Nothing /\ announces' = FALSE
  /\ UNCHANGED <<tangleVars, processorVars, requestVars, msRequestVars, prop_queue,
                 announcing, payloadVars, solidVars>>

\* The task behind the channel of solidified messages: it compares the latest
\* with the solid milestone index, each of which it reads on its own, puts the
\* message into the tip pool and tells the solidifier about a milestone.
ReadLatestIndex ==
  /\ announcing = Nothing
  /\ \E s \in solidified :
       /\ solidified' = solidified \ {s}
       /\ announcing' = [message |-> s[1], announces |-> s[2], lmi |-> lmi]
  /\ UNCHANGED <<tangleVars, processorVars, requestVars, msRequestVars, propVars, payloadVars,
                 solidVars>>

Announce ==
  /\ announcing # Nothing
  /\ announcing' = Nothing
  /\ solidifier_queue' = IF announcing.announces
                         THEN Append(solidifier_queue, Index[announcing.message])
                         ELSE solidifier_queue
  /\ UNCHANGED <<tangleVars, processorVars, requestVars, msRequestVars, propVars, solidified,
                 payloadVars, next, target, limit, confirm_queue>>

-----------------------------------------------------------------------------
(***************************************************************************)
(* The MilestonePayloadWorker.                                             *)
(***************************************************************************)
IgnoreMilestone(x) ==
  /\ adding = Nothing /\ x \in payload_queue
  /\ Index[x] <= smi
  /\ payload_queue' = payload_queue \ {x}
  /\ UNCHANGED <<tangleVars, processorVars, requestVars, msRequestVars, propVars, announceVars,
                 adding, solidVars>>

\* Tangle::add_milestone: first the metadata, then the map of milestones.
FlagMilestone(x) ==
  /\ adding = Nothing /\ x \in payload_queue
  /\ Index[x] > smi
  /\ payload_queue' = payload_queue \ {x}
  /\ is_milestone' = is_milestone \cup {x}
  /\ rooted' = rooted \cup {x}
  /\ adding' = x
  /\ UNCHANGED <<inserted, linked, solid, milestones, smi, lmi, processorVars, requestVars,
                 msRequestVars, propVars, announceVars, solidVars>>

\* Mutation: the solidifier only hears of milestones that are not the latest.
EventForOld(x) == IF Index[x] > lmi THEN <<>> ELSE <<Index[x]>>

EventFor(x) == <<Index[x]>>

LatestAfter(x) == IF Index[x] > lmi THEN Index[x] ELSE lmi

StoreMilestone ==
  /\ adding # Nothing
  /\ milestones' = milestones \cup {adding}
  /\ lmi' = LatestAfter(adding)
  /\ requested_milestones' = requested_milestones \ {Index[adding]}
  /\ solidifier_queue' = solidifier_queue \o EventFor(adding)
  /\ adding' = Nothing
  /\ UNCHANGED <<inserted, linked, solid, is_milestone, rooted, smi, processorVars, requestVars,
                 ms_queue, propVars, announceVars, payload_queue, next, target, limit,
                 confirm_queue>>

-----------------------------------------------------------------------------
(***************************************************************************)
(* The MilestoneSolidifierWorker.                                          *)
(***************************************************************************)
RequestEnd == IF smi + SyncCount < lmi THEN smi + SyncCount ELSE lmi

FirstTarget(i) == smi + 1

SolidifierEvent ==
  /\ target = Nothing /\ solidifier_queue # <<>>
  /\ solidifier_queue' = Tail(solidifier_queue)
  /\ next' = IF next <= RequestEnd THEN RequestEnd + 1 ELSE next
  /\ ms_queue' = ms_queue \cup {i \in next .. RequestEnd :
                                  i \notin requested_milestones /\ ~HasMilestone(i)}
  /\ RequestMessages(UNION {Parents[m] : m \in {x \in milestones : Index[x] = Head(solidifier_queue)
                                                         /\ Index[x] < next'}})
  /\ target' = FirstTarget(Head(solidifier_queue))
  /\ limit' = lmi
  /\ UNCHANGED <<tangleVars, processorVars, requested_messages, requested_milestones, propVars,
                 announceVars, payloadVars, confirm_queue>>

\* Mutation: the next milestone is confirmed before it is solid.
ReadyToConfirmEarly(m) == m \in inserted

ReadyToConfirm(m) == IsSolidMessage(m)

Solidify(m) ==
  /\ target # Nothing /\ target <= limit
  /\ m \in milestones /\ Index[m] = target
  /\ ReadyToConfirm(m)
  /\ smi' = target
  /\ confirm_queue' = Append(confirm_queue, m)
  /\ target' = target + 1
  /\ UNCHANGED <<inserted, linked, solid, is_milestone, rooted, milestones, lmi, processorVars,
                 requestVars, msRequestVars, propVars, announceVars, payloadVars,
                 solidifier_queue, next, limit>>

\* heavy_solidification: the messages that are missing where a walk through
\* the messages that are neither solid nor requested ends.
Walked(m) ==
  LET open == (inserted \ solid) \ requested_messages
      step[n \in Nat] == IF n = 0 THEN {m}
                         ELSE step[n - 1] \cup UNION {Parents[x] : x \in step[n - 1] \cap open}
  IN  step[Cardinality(Messages)]

HeavySolidification(m) ==
  /\ target # Nothing /\ target <= limit
  /\ m \in milestones /\ Index[m] = target
  /\ ~ReadyToConfirm(m)
  /\ RequestMessages(Walked(m) \ inserted)
  /\ target' = Nothing
  /\ UNCHANGED <<tangleVars, processorVars, requested_messages, msRequestVars, propVars,
                 announceVars, payloadVars, solidifier_queue, next, limit, confirm_queue>>

NoTarget ==
  /\ target # Nothing
  /\ target > limit \/ ~HasMilestone(target)
  /\ target' = Nothing
  /\ UNCHANGED <<tangleVars, processorVars, requestVars, msRequestVars, propVars, announceVars,
                 payloadVars, solidifier_queue, next, limit, confirm_queue>>

-----------------------------------------------------------------------------
Init ==
  /\ inserted = {} /\ linked = {} /\ solid = {} /\ is_milestone = {} /\ rooted = {}
  /\ milestones = {} /\ smi = StartIndex /\ lmi = StartIndex
  /\ pc = [p \in Processors |-> "idle"]
  /\ processing = [p \in Processors |-> Nothing]
  /\ todo = [p \in Processors |-> {}]
  /\ req_queue = [m \in Messages |-> 0] /\ requested_messages = {}
  /\ ms_queue = {} /\ requested_milestones = {}
  /\ prop_queue = {} /\ children = {} /\ marked = Nothing /\ announces = FALSE
  /\ solidified = {} /\ announcing = Nothing
  /\ payload_queue = {} /\ adding = Nothing
  /\ solidifier_queue = <<0>> /\ next = StartIndex + 1 /\ target = Nothing /\ limit = StartIndex
  /\ confirm_queue = <<>>

Processor(p) ==
  \/ Link(p) \/ SendPropagate(p) \/ TakeRequest(p) \/ RequestParent(p) \/ SendPayload(p)

Requester ==
  \/ \E x \in Messages : ProcessRequest(x) \/ RetryRequest(x)
  \/ \E i \in ms_queue \cup requested_milestones :
       ProcessMilestoneRequest(i) \/ RetryMilestoneRequest(i)

Propagator ==
  \/ \E x \in Messages : Propagate(x) \/ Skip(x) \/ MarkSolid(x)
  \/ PushChildren

Announcer == ReadLatestIndex \/ Announce

MilestonePayload ==
  \/ \E x \in Milestones : IgnoreMilestone(x) \/ FlagMilestone(x)
  \/ StoreMilestone

Solidifier ==
  \/ SolidifierEvent
  \/ \E m \in Milestones : Solidify(m) \/ HeavySolidification(m)
  \/ NoTarget

Next ==
  \/ \E p \in Processors, m \in Messages : Receive(p, m)
  \/ \E p \in Processors : Processor(p)
  \/ Requester \/ Propagator \/ Announcer \/ MilestonePayload \/ Solidifier

Spec == Init /\ [][Next]_vars

\* Every worker is a task of the runtime, which polls it as long as there is
\* something in its queue.  The requesters repeat a request every RETRY_INTERVAL
\* as long as there are peers, which the node is assumed to find.  Nothing
\* forces a message to arrive.
Fairness ==
  /\ \A p \in Processors : WF_vars(Processor(p))
  /\ WF_vars(Requester) /\ WF_vars(Propagator) /\ WF_vars(Announcer)
  /\ WF_vars(MilestonePayload) /\ WF_vars(Solidifier)

FairSpec == Spec /\ Fairness

-----------------------------------------------------------------------------
\* The types of the state.
TypeOK ==
  /\ inserted \subseteq Messages /\ linked \subseteq inserted /\ solid \subseteq inserted
  /\ is_milestone \subseteq Milestones /\ milestones \subseteq Milestones
  /\ rooted \subseteq Messages
  /\ smi \in Nat /\ lmi \in Nat
  /\ pc \in [Processors -> {"idle", "link", "propagate", "take", "payload"}]
  /\ processing \in [Processors -> {Nothing} \cup Messages]
  /\ \A p \in Processors : pc[p] # "idle" => processing[p] \in inserted
  /\ todo \in [Processors -> SUBSET (Messages \cup SolidEntryPoints)]
  /\ req_queue \in [Messages -> 0 .. MaxRequests] /\ requested_messages \subseteq Messages
  /\ ms_queue \subseteq Nat /\ requested_milestones \subseteq Nat
  /\ prop_queue \subseteq inserted /\ children \subseteq inserted
  /\ marked \in {Nothing} \cup solid /\ announces \in BOOLEAN
  /\ solidified \subseteq Messages \X BOOLEAN
  /\ payload_queue \subseteq Milestones \cap inserted /\ adding \in {Nothing} \cup Milestones
  /\ solidifier_queue \in Seq(Nat)
  /\ next \in Nat /\ target \in {Nothing} \cup Nat /\ limit \in Nat
  /\ confirm_queue \in Seq(Milestones)

\* A solid message rests on solid messages, down to the solid entry points.
SolidClosed == \A m \in solid : \A q \in Parents[m] : IsSolidMessage(q)

\* Every solid message has xMRSI values: a child that becomes solid finds
\* them, and the expectation "solid msg with unset omrsi" is met, whether the
\* propagator or the milestone payload worker gets to a milestone first.
SolidIsRooted == solid \subseteq rooted

\* No message is left behind: one whose parents are all solid is solid, or
\* the propagator will still look at it.
Pending(m) ==
  \/ m \in prop_queue \cup children
  \/ \E p \in Processors : processing[p] = m /\ pc[p] \in {"link", "propagate"}
  \/ marked # Nothing /\ marked \in Parents[m]
NoneLeftBehind == \A m \in inserted : Solidifiable(m) => Pending(m)

\* The milestones sent to the consensus worker are those that follow the
\* index of the snapshot, one by one, as its ledger demands.
ConfirmContiguous ==
  /\ \A i \in DOMAIN confirm_queue : Index[confirm_queue[i]] = StartIndex + i
  /\ smi = StartIndex + Len(confirm_queue)

\* The past cone of a message, down to the solid entry points.
IsCone(m, S) == m \in S /\ \A x \in S \cap Messages : Parents[x] \subseteq S
Nodes == Messages \cup SolidEntryPoints
Cone == [m \in Messages |-> {x \in Nodes : \A S \in SUBSET Nodes : IsCone(m, S) => x \in S}]

\* When a milestone is sent to the consensus worker all of its past cone is in
\* the Tangle, so neither the traversal of the White Flag method nor that of
\* the IndexUpdaterWorker, which unwraps the metadata, misses a message.
ConfirmedConeKnown ==
  \A i \in DOMAIN confirm_queue : Cone[confirm_queue[i]] \subseteq inserted \cup SolidEntryPoints

\* The solid milestone index is not ahead of the latest one, although messages
\* and milestones arrive in any order.
SolidNotAhead == smi <= lmi

\* Once all messages have arrived all milestones become solid: no wake-up
\* between processors, propagator, payload worker and solidifier is missed.
AllSolidified ==
  inserted = Messages ~> \A m \in Milestones : Index[m] > StartIndex => Index[m] <= smi

\* A request for a message that is there does not stay around.
RequestsCleared ==
  \A m \in Messages : m \in inserted ~> (m \notin requested_messages /\ req_queue[m] = 0)

(* A solid message has solid parents and xMRSI values, whichever of         *)
(* propagator and milestone payload worker reaches it first.                *)
SolidityRests ==
    /\ SolidClosed
    /\ SolidIsRooted

(* Milestones reach the consensus worker one after the other without a      *)
(* gap, with their past cones in the Tangle, and the solid index does not   *)
(* pass the latest one (MilestoneSolidifierWorker).                         *)
ConfirmedInOrder ==
    /\ ConfirmContiguous
    /\ ConfirmedConeKnown
    /\ SolidNotAhead
=============================================================================
