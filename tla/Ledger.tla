------------------------------- MODULE Ledger -------------------------------
(***************************************************************************)
(* The ledger in the storage (bee-ledger: workers/storage.rs, types) and   *)
(* the two batches that change it: apply_milestone and rollback_milestone. *)
(* Each of them is committed as one write, so each is one step here.       *)
(*                                                                         *)
(* An output identifier contains the hash of the transaction that creates  *)
(* the output, so it determines the output: sets of identifiers stand for  *)
(* the maps of the code.  Amounts are bounded by the supply, far below the *)
(* width of the code's integers, so the checked additions cannot overflow. *)
(***************************************************************************)
EXTENDS Integers, FiniteSets, FiniteSetsExt

CONSTANTS
  Addresses,
  OutputIds,
  Output,         \* Output[o]: its address, amount, and whether it is a dust allowance
  DustThreshold,  \* DUST_THRESHOLD
  DustDivisor,    \* DUST_ALLOWANCE_DIVISOR
  DustMax,        \* DUST_OUTPUTS_MAX
  Supply,         \* IOTA_SUPPLY
  None            \* the absent value

ASSUME LedgerAssumption ==
  /\ IsFiniteSet(Addresses) /\ IsFiniteSet(OutputIds)
  /\ Output \in [OutputIds -> [address : Addresses, amount : Nat \ {0}, allowance : BOOLEAN]]
  /\ DustThreshold \in Nat /\ DustDivisor \in Nat \ {0} /\ DustMax \in Nat /\ Supply \in Nat

VARIABLES
  ledger_index,
  outputs,         \* OutputId -> CreatedOutput: every output ever created
  unspent,         \* Unspent
  spent,           \* OutputId -> ConsumedOutput
  balances,        \* Address -> Balance
  treasury,        \* (false, TreasuryOutput): the unspent treasury outputs
  treasury_spent,  \* (true, TreasuryOutput)
  receipts,        \* (MilestoneIndex, Receipt)
  output_diffs     \* the milestones that have an OutputDiff

ledgerVars == <<ledger_index, outputs, unspent, spent, balances, treasury,
                treasury_spent, receipts, output_diffs>>

-----------------------------------------------------------------------------
(***************************************************************************)
(* Balances and balance differences.                                       *)
(***************************************************************************)
ZeroBalance == [amount |-> 0, dust_allowance |-> 0, dust_outputs |-> 0]

\* The sum of f over a set, and of the amounts of a set of outputs.
SumOver(f, S) == MapThenSumSet(LAMBDA x : f[x], S)

AmountOf == [o \in OutputIds |-> Output[o].amount]

Total(S) == SumOver(AmountOf, S)

IsDust(o) == ~Output[o].allowance /\ Output[o].amount < DustThreshold

\* What a set of outputs is worth to an address (BalanceDiffs::output_add).
BalanceOf(S, a) ==
  LET mine == {o \in S : Output[o].address = a} IN
  [amount         |-> Total(mine),
   dust_allowance |-> Total({o \in mine : Output[o].allowance}),
   dust_outputs   |-> Cardinality({o \in mine : IsDust(o)})]

Plus(x, y) ==
  [amount         |-> x.amount + y.amount,
   dust_allowance |-> x.dust_allowance + y.dust_allowance,
   dust_outputs   |-> x.dust_outputs + y.dust_outputs]

Minus(x) ==
  [amount         |-> -x.amount,
   dust_allowance |-> -x.dust_allowance,
   dust_outputs   |-> -x.dust_outputs]

\* The BalanceDiff of creating and consuming outputs (output_add, output_sub).
DiffOf(created, consumed, a) == Plus(BalanceOf(created, a), Minus(BalanceOf(consumed, a)))

DiffsOf(created, consumed) == [a \in Addresses |-> DiffOf(created, consumed, a)]

NoDiffs == [a \in Addresses |-> ZeroBalance]

Merge(diffs, others) == [a \in Addresses |-> Plus(diffs[a], others[a])]

Negated(diffs) == [a \in Addresses |-> Minus(diffs[a])]

IsDustMutating(diff) == diff.dust_allowance < 0 \/ diff.dust_outputs > 0

\* Balance::apply_diff fails on a negative result.
Negative(b) == b.amount < 0 \/ b.dust_allowance < 0 \/ b.dust_outputs < 0

DustOutputsMax(allowance) ==
  IF allowance \div DustDivisor < DustMax THEN allowance \div DustDivisor ELSE DustMax

ExceedsDust(b) == b.dust_outputs > DustOutputsMax(b.dust_allowance)

\* apply_balance_diffs_batch: a balance that reaches zero is deleted.
ApplyDiffs(diffs) ==
  [a \in Addresses |-> LET after == Plus(balances[a], diffs[a])
                       IN  IF after.amount = 0 THEN ZeroBalance ELSE after]

Applicable(diffs) == \A a \in Addresses : ~Negative(Plus(balances[a], diffs[a]))

-----------------------------------------------------------------------------
(***************************************************************************)
(* The batches.  A migration is optional: it is the empty set, or the set  *)
(* of one record with the receipt and the treasury outputs that it         *)
(* consumes and creates.                                                   *)
(***************************************************************************)

\* insert_created_output_batch for each created output, then
\* insert_consumed_output_batch for each consumed one.
UnspentAfter(created, consumed) == (unspent \cup created) \ consumed

ApplyMilestone(index, created, consumed, diffs, migration) ==
  /\ ledger_index' = index
  /\ outputs' = outputs \cup created
  /\ unspent' = UnspentAfter(created, consumed)
  /\ spent' = spent \cup consumed
  /\ balances' = ApplyDiffs(diffs)
  /\ receipts' = receipts \cup {g.receipt : g \in migration}
  /\ treasury' = (treasury \cup {g.created : g \in migration}) \ {g.consumed : g \in migration}
  /\ treasury_spent' = treasury_spent \cup {g.consumed : g \in migration}
  /\ output_diffs' = output_diffs \cup {index}

\* Mutation: the consumed treasury output is not restored.
RollbackMilestoneSpent(index, created, consumed, diffs, migration) ==
  /\ ledger_index' = index - 1
  /\ outputs' = (outputs \ created) \cup consumed
  /\ unspent' = (unspent \ created) \cup consumed
  /\ spent' = spent \ consumed
  /\ balances' = ApplyDiffs(Negated(diffs))
  /\ receipts' = receipts \ {g.receipt : g \in migration}
  /\ treasury' = treasury \ {g.created : g \in migration}
  /\ output_diffs' = output_diffs \ {index}
  /\ UNCHANGED treasury_spent

\* The consumed outputs are restored after the created ones were deleted.
RollbackMilestone(index, created, consumed, diffs, migration) ==
  /\ ledger_index' = index - 1
  /\ outputs' = (outputs \ created) \cup consumed
  /\ unspent' = (unspent \ created) \cup consumed
  /\ spent' = spent \ consumed
  /\ balances' = ApplyDiffs(Negated(diffs))
  /\ receipts' = receipts \ {g.receipt : g \in migration}
  /\ treasury' = (treasury \ {g.created : g \in migration}) \cup {g.consumed : g \in migration}
  /\ treasury_spent' = treasury_spent \ {g.consumed : g \in migration}
  /\ output_diffs' = output_diffs \ {index}

-----------------------------------------------------------------------------
(***************************************************************************)
(* validate_ledger_state, which a node runs when it starts.                *)
(***************************************************************************)
\* There is one unspent treasury output; the unspent outputs exist and, with
\* the treasury, add up to the supply.
ValidUnspentState ==
  /\ Cardinality(treasury) = 1
  /\ unspent \subseteq outputs
  /\ \A t \in treasury : Total(unspent) + t.amount = Supply

\* The balances and the treasury add up to the supply and no address has more
\* dust outputs than its dust allowance permits.
ValidBalanceState ==
  /\ \A a \in Addresses : ~ExceedsDust(balances[a])
  /\ \A t \in treasury :
       SumOver([a \in Addresses |-> balances[a].amount], Addresses) + t.amount = Supply

\* The balance of every address is what its unspent outputs are worth: the
\* incrementally maintained balances never drift from the outputs.
BalancesMatch == \A a \in Addresses : balances[a] = BalanceOf(unspent, a)

\* No output is both spent and unspent, and none is forgotten: an output is
\* consumed at most once over all milestones.
UtxoPartition == outputs = unspent \cup spent /\ unspent \cap spent = {}
=============================================================================
