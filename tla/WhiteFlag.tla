------------------------------ MODULE WhiteFlag -----------------------------
(***************************************************************************)
(* The consensus worker (bee-ledger: consensus/worker.rs, white_flag.rs,   *)
(* metadata.rs).  To confirm a milestone the worker traverses the part of  *)
(* its past cone that no earlier milestone has referenced, applies the     *)
(* messages in the order of the traversal, commits the resulting changes   *)
(* of the ledger and then flags the messages as referenced.                *)
(*                                                                         *)
(* A step is one iteration of the traversal, the commit, or one call of    *)
(* update_metadata.  An error of confirm panics: the worker stops.         *)
(***************************************************************************)
EXTENDS Ledger, Sequences

CONSTANTS
  Messages,
  Milestones,      \* the messages with a milestone payload
  Index,           \* Index[m]: the index of milestone m
  Parents,         \* Parents[d][m]: the sequence of the parents of m in DAG d
  Dags,            \* the DAGs considered
  Transactions,
  Inputs,          \* Inputs[t]: the sequence of the outputs t consumes
  Unlocked,        \* Unlocked[t]: the positions of the inputs with a valid signature
  Creates,         \* Creates[t]: the outputs that t creates
  Receipts,        \* the receipts a milestone may carry
  SolidEntryPoints,\* messages the node does not have and knows to be solid
  Lost,            \* messages that the node may have lost
  Genesis,         \* the unspent outputs at the start
  GenesisTreasury, \* the treasury output at the start
  MaxRestarts      \* bound: the number of restarts of the node

ASSUME WhiteFlagAssumption ==
  /\ Milestones \subseteq Messages /\ None \notin Milestones
  /\ Index \in [Milestones -> Nat]
  /\ Parents \in [Dags -> [Messages -> Seq(Messages)]]
  /\ SolidEntryPoints \subseteq Messages
  /\ Inputs \in [Transactions -> Seq(OutputIds)]
  /\ Creates \in [Transactions -> SUBSET OutputIds]
  /\ None \notin Transactions /\ None \notin Receipts
  /\ MaxRestarts \in Nat

\* A transaction has inputs (INPUT_OUTPUT_COUNT_RANGE), and the identifiers of
\* its outputs contain its own: no two transactions create the same output.
ASSUME TransactionAssumption ==
  /\ \A t \in Transactions : Inputs[t] # <<>> /\ Creates[t] \cap Genesis = {}
  /\ \A t, u \in Transactions : t # u => Creates[t] \cap Creates[u] = {}

\* A receipt mints outputs that are neither dust nor dust allowances
\* (VALID_MIGRATED_FUNDS_ENTRY_AMOUNTS) and that nothing else creates.
ASSUME ReceiptAssumption ==
  /\ \A r \in Receipts :
       /\ r.funds \in SUBSET OutputIds /\ r.migrated_at \in Nat
       /\ \A o \in r.funds : ~Output[o].allowance /\ ~IsDust(o)
       /\ r.funds \cap Genesis = {}
       /\ \A t \in Transactions : r.funds \cap Creates[t] = {}
  /\ \A r, s \in Receipts : r.input # s.input => r.funds \cap s.funds = {}

\* The ledger begins in a state that validate_ledger_state accepts.
ASSUME GenesisAssumption ==
  /\ Genesis \subseteq OutputIds
  /\ GenesisTreasury.amount \in Nat /\ GenesisTreasury.milestone \notin Milestones
  /\ Total(Genesis) + GenesisTreasury.amount = Supply
  /\ \A a \in Addresses : ~ExceedsDust(BalanceOf(Genesis, a))

VARIABLES
  \* The Tangle: fixed in a behaviour but for the flags.
  dag, payload, receipt,
  known,               \* the messages that the node has
  referenced,          \* MessageMetadata: is_referenced
  conflict,            \* MessageMetadata: conflict
  \* The worker.
  phase,               \* "idle", "traverse", "mark" or "panicked"
  milestone,           \* the milestone being confirmed
  message_ids,         \* the stack of traverse_past_cone
  visited,
  \* WhiteFlagMetadata.
  included_messages,
  excluded_conflicting_messages,
  excluded_no_transaction_messages,
  created_outputs, consumed_outputs, balance_diffs,
  receipt_migrated_at,
  marking,             \* the updates of metadata still to be made
  order,               \* history: the messages in the order of their application
  restarts

tangleVars == <<dag, payload, receipt, known>>
flagVars   == <<referenced, conflict>>
metaVars   == <<included_messages, excluded_conflicting_messages,
                excluded_no_transaction_messages, created_outputs,
                consumed_outputs, balance_diffs, order>>
vars == <<ledgerVars, tangleVars, flagVars, metaVars, phase, milestone, message_ids,
          visited, receipt_migrated_at, marking, restarts>>

\* The elements of a sequence, its last element and the rest.
Elements(s) == {s[i] : i \in DOMAIN s}
Top(s)      == s[Len(s)]
Pop(s)      == SubSeq(s, 1, Len(s) - 1)
Forwards(s) == s  \* Mutation: the parents of the milestone are not reversed.
Backwards(s) == [i \in 1 .. Len(s) |-> s[Len(s) + 1 - i]]

ParentsOf(m) == Parents[dag][m]

\* The transaction in the payload of a message, if it has one.
Transaction(m) == IF m \in DOMAIN payload THEN payload[m] ELSE None

-----------------------------------------------------------------------------
(***************************************************************************)
(* apply_regular_essence, which decides what becomes of a transaction.     *)
(***************************************************************************)
\* Mutation: the outputs consumed earlier in the milestone are not excluded.
AvailableStale == created_outputs \cup unspent

\* The outputs that a transaction can consume now.
Available == (created_outputs \cup unspent) \ consumed_outputs

\* The checks on one input.
InputConflict(t, i) ==
  LET o == Inputs[t][i] IN
  CASE o \in Available /\ i \in Unlocked[t]     -> "None"
    [] o \in Available /\ i \notin Unlocked[t]  -> "InvalidSignature"
    [] o \in consumed_outputs \ Available       -> "InputUtxoAlreadySpentInThisMilestone"
    [] o \in outputs \ (consumed_outputs \cup Available) -> "InputUtxoAlreadySpent"
    [] OTHER -> "InputUtxoNotFound"

ConsumedBy(t) == Elements(Inputs[t])

DiffsBy(t) == DiffsOf(Creates[t], ConsumedBy(t))

\* Mutation: what the milestone has changed so far is not considered.
DustCheckStored(t, a) ==
  LET diff == DiffOf(Creates[t], ConsumedBy(t), a)
      own  == Plus(balances[a], diff)
  IN  CASE ~IsDustMutating(diff)                   -> "None"
        [] IsDustMutating(diff) /\ Negative(own)   -> "Error"
        [] OTHER -> IF ExceedsDust(own) THEN "InvalidDustAllowance" ELSE "None"

\* The dust check of an address applies the differences of the transaction to
\* the stored balance first, and then those of the milestone so far.
DustCheck(t, a) ==
  LET diff  == DiffOf(Creates[t], ConsumedBy(t), a)
      own   == Plus(balances[a], diff)
      total == Plus(own, balance_diffs[a])
  IN  CASE ~IsDustMutating(diff) -> "None"
        [] IsDustMutating(diff) /\ (Negative(own) \/ Negative(total)) -> "Error"
        [] OTHER -> IF ExceedsDust(total) THEN "InvalidDustAllowance" ELSE "None"

\* The possible results: a ConflictReason or an error.  The addresses are
\* checked in the arbitrary order of a HashMap, up to the first that fails.
Outcomes(t) ==
  LET bad   == {i \in DOMAIN Inputs[t] : InputConflict(t, i) # "None"}
      fails == {DustCheck(t, a) : a \in Addresses} \ {"None"}
  IN  IF bad # {} THEN {InputConflict(t, CHOOSE i \in bad : \A j \in bad : i <= j)}
      ELSE IF Total(Creates[t]) # Total(ConsumedBy(t)) THEN {"InputOutputSumMismatch"}
      ELSE IF fails # {} THEN fails
      ELSE {"None"}

-----------------------------------------------------------------------------
(***************************************************************************)
(* confirm: a command arrives for a milestone message.                     *)
(***************************************************************************)
Panic ==
  /\ phase' = "panicked"
  /\ UNCHANGED <<ledgerVars, tangleVars, flagVars, metaVars, milestone, message_ids,
                 visited, receipt_migrated_at, marking, restarts>>

Confirm(m) ==
  /\ phase = "idle"
  /\ m \in known
  /\ Index[m] = ledger_index + 1
  /\ phase' = "traverse"
  /\ milestone' = m
  /\ message_ids' = Backwards(ParentsOf(m))
  /\ visited' = {}
  /\ included_messages' = <<>>
  /\ excluded_conflicting_messages' = <<>>
  /\ excluded_no_transaction_messages' = <<>>
  /\ created_outputs' = {} /\ consumed_outputs' = {}
  /\ balance_diffs' = NoDiffs
  /\ order' = <<>>
  /\ UNCHANGED <<ledgerVars, tangleVars, flagVars, receipt_migrated_at, marking, restarts>>

\* What the solidifier sends is the message of a milestone in the Tangle, so
\* the error for another payload cannot occur; its message may be gone.
MilestoneMessageNotFound(m) ==
  /\ phase = "idle"
  /\ m \notin known
  /\ Panic

NonContiguousMilestones(m) ==
  /\ phase = "idle"
  /\ m \in known
  /\ Index[m] # ledger_index + 1
  /\ Panic

-----------------------------------------------------------------------------
(***************************************************************************)
(* traverse_past_cone: one iteration of the loop.                          *)
(***************************************************************************)
Traversing == phase = "traverse" /\ message_ids # <<>>

Leave ==
  /\ visited' = visited \cup {Top(message_ids)}
  /\ message_ids' = Pop(message_ids)

\* Mutation: a referenced message stays on the stack.
VisitReferencedKeeping ==
  /\ Traversing
  /\ Top(message_ids) \in known \cap referenced
  /\ visited' = visited \cup {Top(message_ids)}
  /\ UNCHANGED <<ledgerVars, tangleVars, flagVars, metaVars, phase, milestone, message_ids,
                 receipt_migrated_at, marking, restarts>>

VisitReferenced ==
  /\ Traversing
  /\ Top(message_ids) \in known \cap referenced
  /\ Leave
  /\ UNCHANGED <<ledgerVars, tangleVars, flagVars, metaVars, phase, milestone,
                 receipt_migrated_at, marking, restarts>>

\* Positions of the parents of m that were not visited yet.
Unvisited(m) == {i \in DOMAIN ParentsOf(m) : ParentsOf(m)[i] \notin visited}

Descend ==
  /\ Traversing
  /\ Top(message_ids) \in known \ referenced
  /\ \E i \in Unvisited(Top(message_ids)) :
       /\ \A j \in Unvisited(Top(message_ids)) : i <= j
       /\ message_ids' = Append(message_ids, ParentsOf(Top(message_ids))[i])
  /\ UNCHANGED <<ledgerVars, tangleVars, flagVars, metaVars, phase, milestone, visited,
                 receipt_migrated_at, marking, restarts>>

\* apply_message: a message without a transaction, a transaction that applies
\* and one that does not.
ExcludeNoTransaction(m) ==
  /\ Transaction(m) = None
  /\ excluded_no_transaction_messages' = Append(excluded_no_transaction_messages, m)
  /\ UNCHANGED <<included_messages, excluded_conflicting_messages, created_outputs,
                 consumed_outputs, balance_diffs>>

Include(m) ==
  /\ Transaction(m) # None
  /\ "None" \in Outcomes(Transaction(m))
  /\ included_messages' = Append(included_messages, m)
  /\ consumed_outputs' = consumed_outputs \cup ConsumedBy(Transaction(m))
  /\ created_outputs' = created_outputs \cup Creates[Transaction(m)]
  /\ balance_diffs' = Merge(balance_diffs, DiffsBy(Transaction(m)))
  /\ UNCHANGED <<excluded_conflicting_messages, excluded_no_transaction_messages>>

\* Mutation: an error is recorded as a conflict.
ExcludeFailing(m) ==
  /\ Transaction(m) # None
  /\ \E c \in Outcomes(Transaction(m)) \ {"None"} :
       excluded_conflicting_messages' = Append(excluded_conflicting_messages, <<m, c>>)
  /\ UNCHANGED <<included_messages, excluded_no_transaction_messages, created_outputs,
                 consumed_outputs, balance_diffs>>

ExcludeConflicting(m) ==
  /\ Transaction(m) # None
  /\ \E c \in Outcomes(Transaction(m)) \ {"None", "Error"} :
       excluded_conflicting_messages' = Append(excluded_conflicting_messages, <<m, c>>)
  /\ UNCHANGED <<included_messages, excluded_no_transaction_messages, created_outputs,
                 consumed_outputs, balance_diffs>>

Ready(m) == m \in known \ referenced /\ Unvisited(m) = {}

Apply ==
  /\ Traversing
  /\ Ready(Top(message_ids))
  /\ \/ ExcludeNoTransaction(Top(message_ids))
     \/ Include(Top(message_ids))
     \/ ExcludeConflicting(Top(message_ids))
  /\ order' = Append(order, Top(message_ids))
  /\ Leave
  /\ UNCHANGED <<ledgerVars, tangleVars, flagVars, phase, milestone,
                 receipt_migrated_at, marking, restarts>>

ApplyError ==
  /\ Traversing
  /\ Ready(Top(message_ids))
  /\ Transaction(Top(message_ids)) # None
  /\ "Error" \in Outcomes(Transaction(Top(message_ids)))
  /\ Panic

VisitEntryPoint ==
  /\ Traversing
  /\ Top(message_ids) \in SolidEntryPoints \ known
  /\ Leave
  /\ UNCHANGED <<ledgerVars, tangleVars, flagVars, metaVars, phase, milestone,
                 receipt_migrated_at, marking, restarts>>

MissingMessage ==
  /\ Traversing
  /\ Top(message_ids) \notin known \cup SolidEntryPoints
  /\ Panic

-----------------------------------------------------------------------------
(***************************************************************************)
(* The rest of confirm, once the past cone has been traversed.             *)
(***************************************************************************)
\* Mutation: the amount of the new treasury output is not checked.
ValidMigrationAnyOutput(r, t) == r.input = t.milestone /\ Total(r.funds) <= t.amount

\* Receipt::validate and migration_from_milestone for the unspent treasury.
ValidMigration(r, t) ==
  /\ r.input = t.milestone
  /\ Total(r.funds) <= t.amount
  /\ r.output = t.amount - Total(r.funds)

Migration(m, t) ==
  IF receipt[m] = None THEN {}
  ELSE {[receipt  |-> [receipt |-> receipt[m], included_in |-> Index[m]],
         consumed |-> t,
         created  |-> [amount |-> receipt[m].output, milestone |-> m]]}

Funds(m) == IF receipt[m] = None THEN {} ELSE receipt[m].funds

\* The funds of a receipt only add to amounts: they are never dust.
FundsDiffs(m) ==
  [a \in Addresses |-> [ZeroBalance EXCEPT !.amount = BalanceOf(Funds(m), a).amount]]

AllDiffs == Merge(balance_diffs, FundsDiffs(milestone))

WithoutConflict(s) == [i \in DOMAIN s |-> <<s[i], "None">>]

\* Mutation: the conflicting messages are flagged last.
MarksConflictingLast ==
  WithoutConflict(Append(excluded_no_transaction_messages, milestone))
    \o WithoutConflict(included_messages) \o excluded_conflicting_messages

\* The updates of metadata that follow a commit, in the order of the code.
Marks ==
  WithoutConflict(Append(excluded_no_transaction_messages, milestone))
    \o excluded_conflicting_messages \o WithoutConflict(included_messages)

DiffSum == SumOver([a \in Addresses |-> balance_diffs[a].amount], Addresses)

\* Mutation: the order of receipts is not checked.
ConfirmChecksAnyOrder(matches) ==
  /\ DiffSum = 0
  /\ matches
  /\ receipt[milestone] # None =>
       \A t \in treasury : ValidMigration(receipt[milestone], t)
  /\ Applicable(AllDiffs)

\* The checks before the commit: the differences of the transactions cancel
\* out; the milestone carries the Merkle proof of included_messages (matches
\* tells whether it does); its receipt is valid and not older than the last.
ConfirmChecks(matches) ==
  /\ DiffSum = 0
  /\ matches
  /\ receipt[milestone] # None =>
       /\ receipt[milestone].migrated_at >= receipt_migrated_at
       /\ \A t \in treasury : ValidMigration(receipt[milestone], t)
  /\ Applicable(AllDiffs)

Commit ==
  /\ phase = "traverse" /\ message_ids = <<>>
  /\ ConfirmChecks(TRUE)
  /\ \E t \in treasury :
       ApplyMilestone(Index[milestone], created_outputs \cup Funds(milestone),
                      consumed_outputs, AllDiffs, Migration(milestone, t))
  /\ receipt_migrated_at' =
       IF receipt[milestone] = None THEN receipt_migrated_at
       ELSE receipt[milestone].migrated_at + IF receipt[milestone].last THEN 1 ELSE 0
  /\ excluded_no_transaction_messages' = Append(excluded_no_transaction_messages, milestone)
  /\ marking' = Marks
  /\ phase' = "mark"
  /\ UNCHANGED <<tangleVars, flagVars, included_messages, excluded_conflicting_messages,
                 created_outputs, consumed_outputs, balance_diffs, order, milestone,
                 message_ids, visited, restarts>>

ConfirmError ==
  /\ phase = "traverse" /\ message_ids = <<>>
  /\ \E matches \in BOOLEAN : ~ConfirmChecks(matches)
  /\ Panic

MarkReferenced ==
  /\ phase = "mark" /\ marking # <<>>
  /\ referenced' = referenced \cup {Head(marking)[1]}
  /\ conflict' = [conflict EXCEPT ![Head(marking)[1]] = Head(marking)[2]]
  /\ marking' = Tail(marking)
  /\ UNCHANGED <<ledgerVars, tangleVars, metaVars, phase, milestone, message_ids, visited,
                 receipt_migrated_at, restarts>>

Confirmed ==
  /\ phase = "mark" /\ marking = <<>>
  /\ phase' = "idle"
  /\ UNCHANGED <<ledgerVars, tangleVars, flagVars, metaVars, milestone, message_ids,
                 visited, receipt_migrated_at, marking, restarts>>

\* The node stops between two milestones and starts again: the worker reads
\* the ledger index from the storage, but not the index of the last receipt.
Restart ==
  /\ phase = "idle"
  /\ restarts < MaxRestarts
  /\ restarts' = restarts + 1
  /\ receipt_migrated_at' = 0
  /\ UNCHANGED <<ledgerVars, tangleVars, flagVars, metaVars, phase, milestone, message_ids,
                 visited, marking>>

-----------------------------------------------------------------------------
Init ==
  /\ dag \in Dags
  /\ payload \in [Messages \ (Milestones \cup SolidEntryPoints) -> {None} \cup Transactions]
  /\ receipt \in [Milestones -> {None} \cup Receipts]
  /\ \E lost \in {{}, Lost} : known = Messages \ (SolidEntryPoints \cup lost)
  /\ referenced = {}
  /\ conflict = [m \in Messages |-> "None"]
  /\ phase = "idle"
  /\ milestone = None
  /\ message_ids = <<>> /\ visited = {}
  /\ included_messages = <<>>
  /\ excluded_conflicting_messages = <<>>
  /\ excluded_no_transaction_messages = <<>>
  /\ created_outputs = {} /\ consumed_outputs = {} /\ balance_diffs = NoDiffs
  /\ order = <<>> /\ marking = <<>>
  /\ receipt_migrated_at = 0 /\ restarts = 0
  /\ ledger_index = 0
  /\ outputs = Genesis /\ unspent = Genesis /\ spent = {}
  /\ balances = [a \in Addresses |-> BalanceOf(Genesis, a)]
  /\ treasury = {GenesisTreasury} /\ treasury_spent = {}
  /\ receipts = {} /\ output_diffs = {}

Next ==
  \/ \E m \in Milestones : Confirm(m) \/ MilestoneMessageNotFound(m) \/ NonContiguousMilestones(m)
  \/ VisitReferenced \/ Descend \/ Apply \/ ApplyError \/ VisitEntryPoint \/ MissingMessage
  \/ Commit \/ ConfirmError \/ MarkReferenced \/ Confirmed
  \/ Restart
  \/ phase = "panicked" /\ UNCHANGED vars

Spec == Init /\ [][Next]_vars

\* The worker goes on as long as it has a command; the runtime polls it.
FairSpec == Spec /\ WF_vars(Next)

-----------------------------------------------------------------------------
Conflicts == {"None", "InputUtxoAlreadySpent", "InputUtxoAlreadySpentInThisMilestone",
              "InputUtxoNotFound", "InputOutputSumMismatch", "InvalidSignature",
              "InvalidDustAllowance"}

\* The types of the state.
TypeOK ==
  /\ phase \in {"idle", "traverse", "mark", "panicked"}
  /\ milestone \in {None} \cup Milestones
  /\ message_ids \in Seq(Messages) /\ order \in Seq(Messages)
  /\ visited \subseteq Messages /\ referenced \subseteq Messages /\ known \subseteq Messages
  /\ dag \in Dags
  /\ conflict \in [Messages -> Conflicts]
  /\ included_messages \in Seq(Messages)
  /\ excluded_conflicting_messages \in Seq(Messages \X Conflicts)
  /\ excluded_no_transaction_messages \in Seq(Messages)
  /\ marking \in Seq(Messages \X Conflicts)
  /\ created_outputs \subseteq OutputIds /\ consumed_outputs \subseteq OutputIds
  /\ outputs \subseteq OutputIds /\ unspent \subseteq OutputIds /\ spent \subseteq OutputIds
  /\ ledger_index \in Nat /\ receipt_migrated_at \in Nat

\* The messages that a confirmation of m has to apply: the least set that
\* contains its parents and the parents of its members, as far as the node
\* has them and no earlier milestone has referenced them.
Open == known \ referenced
OpenParents(m) == Elements(ParentsOf(m)) \cap Open
ClosedCone(m, S) == OpenParents(m) \subseteq S /\ \A x \in S : OpenParents(x) \subseteq S
PastCone(m) ==
  LET closed == {S \in SUBSET Open : ClosedCone(m, S)}
  IN  {x \in Open : \A S \in closed : x \in S}

\* When the traversal ends the messages applied are the past cone of the
\* milestone: traverse_past_cone skips nothing and applies nothing else.
PastConeApplied ==
  phase = "traverse" /\ message_ids = <<>> => Elements(order) = PastCone(milestone)

\* A message is applied after those of its parents that the milestone also
\* references, whatever path the traversal took to it.
ParentsFirst ==
  phase = "traverse" =>
    \A i \in DOMAIN order : \A p \in OpenParents(order[i]) :
      \E j \in 1 .. i - 1 : order[j] = p

\* Between two milestones the flags and the ledger tell the same story: the
\* spent outputs are those consumed by the messages flagged as referenced and
\* free of conflict.
LedgerFollowsFlags ==
  phase = "idle" =>
    spent = UNION {ConsumedBy(payload[m]) : m \in {x \in referenced \cap DOMAIN payload :
                                             payload[x] # None /\ conflict[x] = "None"}}

\* Between two milestones the past cone of a referenced message is referenced.
ReferencedClosed ==
  phase = "idle" =>
    \A m \in referenced : Elements(ParentsOf(m)) \cap known \subseteq referenced

\* No output is consumed twice: the included messages of a milestone consume
\* different outputs, and none that an earlier milestone has consumed.
NoDoubleSpend ==
  phase = "traverse" =>
    /\ \A i, j \in DOMAIN included_messages :
         LET x == payload[included_messages[i]]
             y == payload[included_messages[j]]
         IN  i # j => ConsumedBy(x) \cap ConsumedBy(y) = {}
    /\ consumed_outputs \cap spent = {}

\* A double spend in one milestone loses against a message that is included.
ConflictJustified ==
  phase = "traverse" =>
    \A i \in DOMAIN excluded_conflicting_messages :
      LET m == excluded_conflicting_messages[i][1] IN
      excluded_conflicting_messages[i][2] = "InputUtxoAlreadySpentInThisMilestone" =>
        \E x \in Elements(included_messages) :
          ConsumedBy(payload[x]) \cap ConsumedBy(payload[m]) # {}

\* The receipts in the ledger are not older than those of earlier milestones,
\* as long as the worker is not restarted and forgets the last one.
ReceiptsInOrder ==
  restarts = 0 =>
    \A r, s \in receipts :
      r.included_in < s.included_in => r.receipt.migrated_at <= s.receipt.migrated_at

\* Every milestone that the worker begins to confirm is confirmed, or stops
\* the worker with an error: the traversal ends.
ConfirmationEnds == phase \in {"traverse", "mark"} ~> phase \in {"idle", "panicked"}

(* What the milestones leave in the tables agrees: outputs, spent and       *)
(* unspent, the balances of the addresses with their dust, the treasury     *)
(* and the supply (apply_milestone, validate_ledger_state).                 *)
LedgerConsistent ==
    /\ UtxoPartition
    /\ BalancesMatch
    /\ ValidUnspentState
    /\ ValidBalanceState

(* The flags of the messages tell what was applied to the ledger, and       *)
(* everything below a referenced message is referenced (the three loops of  *)
(* confirm after the commit).                                               *)
FlagsFollowLedger ==
    /\ LedgerFollowsFlags
    /\ ReferencedClosed

(* No output is spent twice, in one milestone or in two, and a transaction  *)
(* that is refused for an output spent in its own milestone shares an input *)
(* with one that this milestone includes (apply_regular_essence).           *)
SpendsJustified ==
    /\ NoDoubleSpend
    /\ ConflictJustified
=============================================================================
