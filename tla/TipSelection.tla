---------------------------- MODULE TipSelection ----------------------------
(***************************************************************************)
(* The xMRSI values and the tip pool (bee-protocol: propagator.rs,         *)
(* index_updater.rs; bee-tangle: tangle.rs, metadata.rs, urts.rs,          *)
(* tip_pool_cleaner_worker.rs).                                            *)
(*                                                                         *)
(* The propagator derives the values of a message from those of its        *)
(* parents, which it reads one after the other, while the index updater    *)
(* walks through the past cone of each solid milestone and then through    *)
(* the future cone of what it found there.  Both only meet in the          *)
(* metadata, and the tip pool scores messages by it.                       *)
(*                                                                         *)
(* The order in which events reach the propagator and the solidifier is in *)
(* Solidification; here any message with solid parents may be next.  The   *)
(* stacks of both walks are sets: a message that is on a stack twice is    *)
(* skipped or visited with the same outcome the second time.               *)
(***************************************************************************)
EXTENDS Integers, SequencesExt

CONSTANTS
    Messages,
    SolidEntryPoints,
    Approves,            \* the sequence of parents of every message
    MilestoneIndexOf,    \* the index of each message with a milestone payload
    StartIndex,          \* the milestone index of the snapshot
    YMRSI_DELTA,
    OMRSI_DELTA,
    below_max_depth,
    SAFETY_THRESHOLD,
    MAX_LIMIT_NON_LAZY,
    MAX_NUM_CHILDREN,
    U32,                 \* 2^w, the number of values of an index
    None

ParentsOf(m) == Range(Approves[m])

(* The past cone of a message: the smallest set that contains it and the   *)
(* parents of its messages.                                                *)
AllIds == Messages \cup SolidEntryPoints
ConeClosed(S) == \A x \in S \cap Messages : ParentsOf(x) \subseteq S
PastCone ==
    [m \in Messages |->
        {x \in AllIds : \A S \in SUBSET AllIds : m \in S /\ ConeClosed(S) => x \in S}]

(* Milestones follow the snapshot, have different indexes, and refer to    *)
(* earlier ones only, as the coordinator issues them.                      *)
ASSUME TipAssumption ==
    /\ SolidEntryPoints \cap Messages = {}
    /\ Approves \in [Messages -> Seq(AllIds)]
    /\ DOMAIN MilestoneIndexOf \subseteq Messages /\ StartIndex \in Nat
    /\ \A k \in DOMAIN MilestoneIndexOf : MilestoneIndexOf[k] \in Nat /\ MilestoneIndexOf[k] > StartIndex
    /\ \A k, l \in DOMAIN MilestoneIndexOf :
        /\ MilestoneIndexOf[k] = MilestoneIndexOf[l] => k = l
        /\ l \in PastCone[k] => MilestoneIndexOf[l] <= MilestoneIndexOf[k]
    /\ None \notin Nat /\ None \notin [index : Nat, id : AllIds]
    /\ MAX_NUM_CHILDREN \in Nat

VARIABLES
    contained,           \* the messages that the Tangle contains
    solid,
    is_milestone,
    milestone_index, omrsi, ymrsi,    \* the metadata of the messages
    smi, lmi,
    propagating,         \* the message being propagated and what was read for it
    solidified,          \* messages on their way to the tip pool
    events,              \* solid milestones on their way to the index updater
    updater,             \* the phase of the index updater
    event,               \* the milestone being processed
    stack,               \* the messages its walk has still to visit
    updated,             \* the messages of the past cone that it updated
    visited,             \* the messages that it visited in the future cone
    visiting,            \* the message of the future cone being visited
    tips, non_lazy_tips, \* the tip pool
    inserted,            \* history: the messages that were non-lazy tips
    raced                \* history: a message became a milestone during its visit

metadataVars == << contained, solid, is_milestone, milestone_index, omrsi, ymrsi, smi, lmi >>
updaterVars == << updater, event, stack, updated, visited, visiting, raced >>
poolVars == << tips, non_lazy_tips, inserted >>
tipVars == << metadataVars, propagating, solidified, events, updaterVars, poolVars >>

IndexId(i, id) == [index |-> i, id |-> id]

ChildrenOf(m) == { c \in contained : m \in ParentsOf(c) }

IsSolid(m) == m \in SolidEntryPoints \cup solid
-----------------------------------------------------------------------------
(* Tangle::insert.                                                         *)
ArriveMessage(m) ==
    /\ m \notin contained
    /\ contained' = contained \cup {m}
    /\ UNCHANGED << solid, is_milestone, milestone_index, omrsi, ymrsi, smi, lmi, propagating,
                    solidified, events, updaterVars, poolVars >>

(* The future walk is at the message, as a parent or as a child that it    *)
(* has read and not yet written.                                           *)
InVisit(m) ==
    visiting # None /\ (m = visiting.message \/ (m = visiting.child /\ visiting.due # {}))

(* The milestone payload worker: Tangle::add_milestone and the index of    *)
(* the latest milestone.                                                   *)
AddMilestone(m) ==
    LET i == MilestoneIndexOf[m] IN
    /\ m \in contained \ is_milestone /\ i > smi
    /\ is_milestone' = is_milestone \cup {m}
    /\ milestone_index' = [milestone_index EXCEPT ![m] = i]
    /\ omrsi' = [omrsi EXCEPT ![m] = IndexId(i, m)]
    /\ ymrsi' = [ymrsi EXCEPT ![m] = IndexId(i, m)]
    /\ lmi' = IF i > lmi THEN i ELSE lmi
    /\ raced' = (raced \/ InVisit(m))
    /\ UNCHANGED << contained, solid, smi, propagating, solidified, events, updater, event, stack,
                    updated, visited, visiting, poolVars >>

(* solidify: the next milestone, once it is solid.                         *)
SolidifyMilestone(m) ==
    /\ m \in is_milestone \cap solid
    /\ MilestoneIndexOf[m] = smi + 1
    /\ smi' = smi + 1
    /\ events' = Append(events, m)
    /\ UNCHANGED << contained, solid, is_milestone, milestone_index, omrsi, ymrsi, lmi,
                    propagating, solidified, updaterVars, poolVars >>
-----------------------------------------------------------------------------
(* propagate: a message that is not solid, but all of whose parents are.   *)
StartPropagation(m) ==
    /\ propagating = None
    /\ m \in contained \ solid
    /\ \A p \in ParentsOf(m) : IsSolid(p)
    /\ propagating' = [message |-> m, left |-> Approves[m], omrsis |-> {}, ymrsis |-> {}]
    /\ UNCHANGED << metadataVars, solidified, events, updaterVars, poolVars >>

(* Mutation: the child remembers the parent and not its root.              *)
InheritedOfParent(p, value) == IndexId(value.index, p)

(* The child inherits the value of the parent, with the root it came from. *)
Inherited(p, value) == value

(* The xMRSI values of a parent, or the index of a solid entry point.      *)
OmrsiOf(p) ==
    IF p \in SolidEntryPoints THEN IndexId(StartIndex, p) ELSE Inherited(p, omrsi[p])

YmrsiOf(p) ==
    IF p \in SolidEntryPoints THEN IndexId(StartIndex, p) ELSE Inherited(p, ymrsi[p])

ReadParent ==
    /\ propagating # None /\ propagating.left # << >>
    /\ LET p == Head(propagating.left) IN
       propagating' = [propagating EXCEPT !.left = Tail(@),
                                          !.omrsis = @ \cup {OmrsiOf(p)},
                                          !.ymrsis = @ \cup {YmrsiOf(p)}]
    /\ UNCHANGED << metadataVars, solidified, events, updaterVars, poolVars >>

(* The oldest and the youngest value; among equal ones any.                *)
Oldest(values) == { v \in values : \A w \in values : v.index <= w.index }

Youngest(values) == { v \in values : \A w \in values : v.index >= w.index }

(* The message becomes solid; a milestone keeps its own values.            *)
FinishPropagation ==
    /\ propagating # None /\ propagating.left = << >>
    /\ LET m == propagating.message IN
       /\ solid' = solid \cup {m}
       /\ IF m \in is_milestone
          THEN UNCHANGED << omrsi, ymrsi >>
          ELSE \E o \in Oldest(propagating.omrsis), y \in Youngest(propagating.ymrsis) :
                  /\ omrsi' = [omrsi EXCEPT ![m] = o]
                  /\ ymrsi' = [ymrsi EXCEPT ![m] = y]
       /\ solidified' = Append(solidified, m)
    /\ propagating' = None
    /\ UNCHANGED << contained, is_milestone, milestone_index, smi, lmi, events, updaterVars,
                    poolVars >>
-----------------------------------------------------------------------------
(* The index updater: process takes the parents of the milestone.          *)
StartUpdate ==
    /\ updater = "idle" /\ events # << >>
    /\ event' = Head(events)
    /\ events' = Tail(events)
    /\ stack' = ParentsOf(Head(events))
    /\ updated' = {} /\ visited' = {}
    /\ updater' = "past"
    /\ UNCHANGED << metadataVars, propagating, solidified, visiting, raced, poolVars >>

SkippedInPast(m) ==
    \/ m \in updated \cup SolidEntryPoints
    \/ milestone_index[m] # None

UpdatePastCone(m) ==
    LET i == MilestoneIndexOf[event] IN
    /\ updater = "past" /\ m \in stack
    /\ IF SkippedInPast(m)
       THEN /\ stack' = stack \ {m}
            /\ UNCHANGED << milestone_index, omrsi, ymrsi, updated >>
       ELSE /\ milestone_index' = [milestone_index EXCEPT ![m] = i]
            /\ omrsi' = [omrsi EXCEPT ![m] = IndexId(i, m)]
            /\ ymrsi' = [ymrsi EXCEPT ![m] = IndexId(i, m)]
            /\ stack' = (stack \ {m}) \cup ParentsOf(m)
            /\ updated' = updated \cup {m}
    /\ UNCHANGED << contained, solid, is_milestone, smi, lmi, propagating, solidified, events,
                    updater, event, visited, visiting, raced, poolVars >>

(* The future cone matters only for recent milestones.                     *)
RecentMilestone(i) == i > (lmi - below_max_depth) % U32

EndPastCone ==
    /\ updater = "past" /\ stack = {}
    /\ IF RecentMilestone(MilestoneIndexOf[event])
       THEN updater' = "future" /\ stack' = updated
       ELSE updater' = "idle" /\ UNCHANGED stack
    /\ UNCHANGED << metadataVars, propagating, solidified, events, event, updated, visited,
                    visiting, raced, poolVars >>

(* update_future_cone: a message without values is skipped.                *)
VisitFuture(m) ==
    /\ updater = "future" /\ visiting = None /\ m \in stack
    /\ stack' = stack \ {m}
    /\ visiting' = IF omrsi[m] = None \/ ymrsi[m] = None THEN None
                   ELSE [message |-> m, omrsi |-> omrsi[m], ymrsi |-> ymrsi[m],
                         left |-> ChildrenOf(m), child |-> m, due |-> {}]
    /\ UNCHANGED << metadataVars, propagating, solidified, events, updater, event, updated,
                    visited, raced, poolVars >>

(* The child inherited its value from this parent.                         *)
Follows(value, parent) == value # None /\ value.id = parent

(* What the metadata of a child says is due to be updated.                 *)
Due(c, parent) ==
    {v \in {"omrsi", "ymrsi"} : Follows(IF v = "omrsi" THEN omrsi[c] ELSE ymrsi[c], parent)}

(* The metadata of a child is read; one that is confirmed is skipped.      *)
ReadChild(c) ==
    /\ visiting # None /\ visiting.due = {} /\ c \in visiting.left
    /\ IF milestone_index[c] # None
       THEN /\ visiting' = [visiting EXCEPT !.left = @ \ {c}]
            /\ UNCHANGED stack
       ELSE /\ visiting' = [visiting EXCEPT !.left = @ \ {c}, !.child = c,
                                            !.due = Due(c, visiting.message)]
            /\ stack' = stack \cup ({c} \ visited)
    /\ UNCHANGED << metadataVars, propagating, solidified, events, updater, event, updated,
                    visited, raced, poolVars >>

(* The two updates of the child that follow.                               *)
UpdateChildOmrsi ==
    /\ visiting # None /\ "omrsi" \in visiting.due
    /\ omrsi' = [omrsi EXCEPT ![visiting.child] = IndexId(visiting.omrsi.index, visiting.message)]
    /\ visiting' = [visiting EXCEPT !.due = @ \ {"omrsi"}]
    /\ UNCHANGED << contained, solid, is_milestone, milestone_index, ymrsi, smi, lmi, propagating,
                    solidified, events, updater, event, stack, updated, visited, raced, poolVars >>

UpdateChildYmrsi ==
    /\ visiting # None /\ visiting.due = {"ymrsi"}
    /\ ymrsi' = [ymrsi EXCEPT ![visiting.child] = IndexId(visiting.ymrsi.index, visiting.message)]
    /\ visiting' = [visiting EXCEPT !.due = {}]
    /\ UNCHANGED << contained, solid, is_milestone, milestone_index, omrsi, smi, lmi, propagating,
                    solidified, events, updater, event, stack, updated, visited, raced, poolVars >>

EndVisit ==
    /\ visiting # None /\ visiting.left = {} /\ visiting.due = {}
    /\ visited' = visited \cup {visiting.message}
    /\ visiting' = None
    /\ UNCHANGED << metadataVars, propagating, solidified, events, updater, event, stack, updated,
                    raced, poolVars >>
-----------------------------------------------------------------------------
(* tip_score.                                                              *)
NonLazy(m) ==
    /\ m \in contained
    /\ smi <= ymrsi[m].index + YMRSI_DELTA
    /\ smi <= omrsi[m].index + below_max_depth
    /\ smi <= omrsi[m].index + OMRSI_DELTA

(* update_scores, at the end of process.                                   *)
UpdateTipScores ==
    /\ updater = "future" /\ visiting = None /\ stack = {}
    /\ LET kept == { t \in DOMAIN tips : NonLazy(t) } IN
       /\ tips' = Restrict(tips, kept)
       /\ non_lazy_tips' = non_lazy_tips \ (DOMAIN tips \ kept)
    /\ updater' = "idle"
    /\ UNCHANGED << metadataVars, propagating, solidified, events, event, stack, updated,
                    visited, visiting, raced, inserted >>

WithTip(pool, t, tip) ==
    [x \in DOMAIN pool.tips \cup {t} |-> IF x = t THEN tip ELSE pool.tips[x]]

(* add_child: the age of a tip counts from its first child.                *)
add_child(pool, p, m) ==
    LET old == p \in DOMAIN pool.tips IN
    [pool EXCEPT !.tips = WithTip(pool, p,
        [children |-> IF old THEN pool.tips[p].children \cup {m} ELSE {m},
         age |-> IF old /\ pool.tips[p].age # "none" THEN pool.tips[p].age ELSE "young"])]

(* Mutation: a tip stays in the set of the non-lazy ones.                  *)
RemoveTipOnly(pool, p) == [pool EXCEPT !.tips = Restrict(@, DOMAIN @ \ {p})]

RemoveTip(pool, p) ==
    [tips |-> Restrict(pool.tips, DOMAIN pool.tips \ {p}), non_lazy |-> pool.non_lazy \ {p}]

check_retention_rules_for_parent(pool, p) ==
    IF \/ Cardinality(pool.non_lazy) > MAX_LIMIT_NON_LAZY
       \/ Cardinality(pool.tips[p].children) > MAX_NUM_CHILDREN
       \/ pool.tips[p].age = "old"
    THEN RemoveTip(pool, p) ELSE pool

AddParent(pool, p, m) == check_retention_rules_for_parent(add_child(pool, p, m), p)

(* The new tip becomes a child of its parents.                             *)
AddParents(pool, m) == FoldLeft(LAMBDA acc, p : AddParent(acc, p, m), pool, Approves[m])

(* insert, when the node is not too far behind.                            *)
InsertTip ==
    /\ solidified # << >>
    /\ solidified' = Tail(solidified)
    /\ LET m == Head(solidified)
           start == [tips |-> WithTip([tips |-> tips], m, [children |-> {}, age |-> "none"]),
                     non_lazy |-> non_lazy_tips \cup {m}]
           pool == AddParents(start, m)
       IN  IF (lmi - smi) % U32 <= below_max_depth + SAFETY_THRESHOLD /\ NonLazy(m)
           THEN /\ tips' = pool.tips /\ non_lazy_tips' = pool.non_lazy
                /\ inserted' = inserted \cup {m}
           ELSE UNCHANGED poolVars
    /\ UNCHANGED << metadataVars, propagating, events, updaterVars >>

(* MAX_AGE_SECONDS_AFTER_FIRST_CHILD pass.                                 *)
Age(t) ==
    /\ t \in DOMAIN tips /\ tips[t].age = "young"
    /\ tips' = [tips EXCEPT ![t].age = "old"]
    /\ UNCHANGED << metadataVars, propagating, solidified, events, updaterVars, non_lazy_tips,
                    inserted >>

(* reduce_tips, called by the tip pool cleaner.                            *)
ReduceTips ==
    LET old == { t \in DOMAIN tips : tips[t].age = "old" } IN
    /\ old # {}
    /\ tips' = Restrict(tips, DOMAIN tips \ old)
    /\ non_lazy_tips' = non_lazy_tips \ old
    /\ UNCHANGED << metadataVars, propagating, solidified, events, updaterVars, inserted >>
-----------------------------------------------------------------------------
TipInit ==
    /\ contained = {} /\ solid = {} /\ is_milestone = {}
    /\ milestone_index = [m \in Messages |-> None]
    /\ omrsi = [m \in Messages |-> None] /\ ymrsi = [m \in Messages |-> None]
    /\ smi = StartIndex /\ lmi = StartIndex
    /\ propagating = None /\ solidified = << >> /\ events = << >>
    /\ updater = "idle" /\ event = None /\ stack = {} /\ updated = {} /\ visited = {}
    /\ visiting = None /\ raced = FALSE
    /\ tips = [t \in {} |-> None] /\ non_lazy_tips = {} /\ inserted = {}

TipNext ==
    \/ \E m \in Messages : ArriveMessage(m) \/ StartPropagation(m)
    \/ \E m \in DOMAIN MilestoneIndexOf : AddMilestone(m) \/ SolidifyMilestone(m)
    \/ \E p \in AllIds : UpdatePastCone(p) \/ Age(p)
    \/ ReadParent
    \/ FinishPropagation
    \/ StartUpdate
    \/ EndPastCone
    \/ \E m \in Messages : VisitFuture(m) \/ ReadChild(m)
    \/ UpdateChildOmrsi
    \/ UpdateChildYmrsi
    \/ EndVisit
    \/ UpdateTipScores
    \/ InsertTip
    \/ ReduceTips

TipSpec == TipInit /\ [][TipNext]_tipVars
-----------------------------------------------------------------------------
(* The milestone index of a message is that of the first milestone that    *)
(* refers to it, directly or not, and once the updater is done with a      *)
(* milestone its whole past cone has one: the walk stops at nothing that   *)
(* still hides messages without an index.                                  *)
ConesIndexed ==
    \A m \in Messages :
        LET referring == { k \in DOMAIN MilestoneIndexOf : m \in PastCone[k] } IN
        /\ milestone_index[m] # None =>
              milestone_index[m] = Min({ MilestoneIndexOf[k] : k \in referring })
        /\ (\E k \in referring : MilestoneIndexOf[k] <= smi /\ k \notin Range(events)
                                /\ (updater # "past" \/ k # event))
              => milestone_index[m] # None

(* An xMRSI value names a message in the past cone of its message that is  *)
(* confirmed at the index of the value, or a solid entry point, whatever   *)
(* the updater confirms while the propagator reads the parents; unless a   *)
(* message becomes a milestone while the future walk is at it, and the     *)
(* walk goes on with what it read before.                                  *)
RootsConfirmed ==
    ~ raced => \A m \in solid : \A v \in {omrsi[m], ymrsi[m]} :
        /\ v # None
        /\ v.id \in PastCone[m]
        /\ v.index = IF v.id \in SolidEntryPoints THEN StartIndex ELSE milestone_index[v.id]

(* The oldest root of a solid message is not younger than its youngest,    *)
(* although the propagator reads the parents in the middle of an update    *)
(* and the future walk writes the two values one after the other; with the *)
(* same exception.                                                         *)
OldestNotYounger == ~ raced => \A m \in solid : omrsi[m].index <= ymrsi[m].index

(* A non-lazy tip is a solid message with an entry in the pool, and has no  *)
(* more children than the retention rule allows: the set of tips and the   *)
(* pool are separate, and every removal has to reach both                  *)
(* (UrtsTipPool::insert, update_scores, reduce_tips).                      *)
TipsRetained ==
    /\ non_lazy_tips \subseteq DOMAIN tips \cap inserted \cap solid
    /\ \A t \in non_lazy_tips : Cardinality(tips[t].children) <= MAX_NUM_CHILDREN

(* A solid message that is not confirmed has the oldest and the youngest   *)
(* index of its parents once every milestone is confirmed and the updater  *)
(* is idle ("The child inherits oldest (lowest) omrsi and the newest       *)
(* (highest) ymrsi from its parents", propagator.rs, and the future walk   *)
(* of index_updater.rs).                                                   *)
InheritsFromParents ==
    updater = "idle" /\ events = << >> /\ propagating = None /\ lmi = smi =>
        \A m \in solid : milestone_index[m] = None =>
            /\ omrsi[m].index = Min({ OmrsiOf(p).index : p \in ParentsOf(m) })
            /\ ymrsi[m].index = Max({ YmrsiOf(p).index : p \in ParentsOf(m) })

(* Milestone indexes and xMRSI values are right for whoever reads them      *)
(* between two steps of the propagator and the index updater.               *)
IndexesSound ==
    /\ ConesIndexed
    /\ RootsConfirmed
    /\ OldestNotYounger
=============================================================================
