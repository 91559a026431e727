--------------------------- MODULE WhiteFlagProofs --------------------------
(***************************************************************************)
(* What WhiteFlag promises, for all messages, transactions and receipts.   *)
(***************************************************************************)
EXTENDS WhiteFlag, LedgerProofs

-----------------------------------------------------------------------------
(***************************************************************************)
(* Sequences: the stack, the lists of the metadata and the updates.        *)
(***************************************************************************)
LEMMA ElementsOfSeq ==
  ASSUME NEW X, NEW s \in Seq(X)
  PROVE  Elements(s) \subseteq X
BY DEF Elements

\* The elements of no sequence.
LEMMA ElementsEmpty == Elements(<<>>) = {}
BY DEF Elements

\* The elements after one is appended.
LEMMA ElementsAppend ==
  ASSUME NEW X, NEW s \in Seq(X), NEW e \in X
  PROVE  /\ Append(s, e) \in Seq(X)
         /\ Elements(Append(s, e)) = Elements(s) \cup {e}
         /\ DOMAIN Append(s, e) = DOMAIN s \cup {Len(s) + 1}
         /\ \A i \in DOMAIN s : Append(s, e)[i] = s[i]
         /\ Append(s, e)[Len(s) + 1] = e
         /\ Len(s) + 1 \notin DOMAIN s
<1>1. /\ Append(s, e) \in Seq(X) /\ Len(Append(s, e)) = Len(s) + 1 /\ Len(s) \in Nat
      /\ DOMAIN s = 1 .. Len(s) /\ DOMAIN Append(s, e) = 1 .. Len(s) + 1
  OBVIOUS
<1>2. \A i \in 1 .. Len(s) : Append(s, e)[i] = s[i]  OBVIOUS
<1>3. Append(s, e)[Len(s) + 1] = e  OBVIOUS
<1>4. 1 .. Len(s) + 1 = (1 .. Len(s)) \cup {Len(s) + 1} /\ Len(s) + 1 \notin 1 .. Len(s)
  BY <1>1
<1>5. Elements(Append(s, e)) = Elements(s) \cup {e}
  BY <1>1, <1>2, <1>3, <1>4 DEF Elements
<1> QED  BY <1>1, <1>2, <1>3, <1>4, <1>5

\* The elements after the last one is taken.
LEMMA ElementsPop ==
  ASSUME NEW X, NEW s \in Seq(X), s # <<>>
  PROVE  /\ Top(s) \in X /\ Pop(s) \in Seq(X)
         /\ Elements(s) = Elements(Pop(s)) \cup {Top(s)}
<1>1. Len(s) \in Nat \ {0} /\ DOMAIN s = 1 .. Len(s)  OBVIOUS
<1>2. Top(s) \in X  BY <1>1 DEF Top
<1>3. /\ Pop(s) \in Seq(X) /\ Len(Pop(s)) = Len(s) - 1
      /\ \A i \in 1 .. Len(s) - 1 : Pop(s)[i] = s[i]
  BY <1>1 DEF Pop
<1>4. DOMAIN Pop(s) = 1 .. Len(s) - 1  BY <1>3
<1>5. 1 .. Len(s) = (1 .. Len(s) - 1) \cup {Len(s)}  BY <1>1
<1>6. Elements(s) = Elements(Pop(s)) \cup {Top(s)}
  BY <1>1, <1>3, <1>4, <1>5 DEF Elements, Top
<1> QED  BY <1>2, <1>3, <1>6

\* A reversed sequence has the same elements.
LEMMA ElementsBackwards ==
  ASSUME NEW X, NEW s \in Seq(X)
  PROVE  Backwards(s) \in Seq(X) /\ Elements(Backwards(s)) = Elements(s)
<1>1. Len(s) \in Nat /\ DOMAIN s = 1 .. Len(s) /\ \A i \in 1 .. Len(s) : s[i] \in X  OBVIOUS
<1>2. \A i \in 1 .. Len(s) : Len(s) + 1 - i \in 1 .. Len(s)  BY <1>1
<1>3. Backwards(s) \in Seq(X) /\ DOMAIN Backwards(s) = 1 .. Len(s)
  BY <1>1, <1>2 DEF Backwards
<1>4. ASSUME NEW i \in 1 .. Len(s)  PROVE Backwards(s)[Len(s) + 1 - i] = s[i]
  <2>1. Len(s) + 1 - (Len(s) + 1 - i) = i  BY <1>1
  <2> QED  BY <1>1, <1>2, <2>1 DEF Backwards
<1>5. \A i \in 1 .. Len(s) : Backwards(s)[i] = s[Len(s) + 1 - i]  BY DEF Backwards
<1>6. Elements(Backwards(s)) \subseteq Elements(s)
  BY <1>1, <1>2, <1>3, <1>5 DEF Elements
<1>7. Elements(s) \subseteq Elements(Backwards(s))
  BY <1>1, <1>2, <1>3, <1>4 DEF Elements
<1> QED  BY <1>3, <1>6, <1>7

\* The elements after the first one is taken.
LEMMA ElementsTail ==
  ASSUME NEW X, NEW s \in Seq(X), s # <<>>
  PROVE  /\ Head(s) \in X /\ Tail(s) \in Seq(X)
         /\ Elements(s) = {Head(s)} \cup Elements(Tail(s))
         /\ DOMAIN s = 1 .. Len(s) /\ DOMAIN Tail(s) = 1 .. Len(s) - 1 /\ Len(s) \in Nat \ {0}
         /\ s[1] = Head(s) /\ \A i \in 1 .. Len(s) - 1 : Tail(s)[i] = s[i + 1]
<1>1. Len(s) \in Nat \ {0} /\ DOMAIN s = 1 .. Len(s)  OBVIOUS
<1>2. Tail(s) \in Seq(X) /\ Len(Tail(s)) = Len(s) - 1 /\ Head(s) = s[1] /\ Head(s) \in X
  BY <1>1
<1>3. DOMAIN Tail(s) = 1 .. Len(s) - 1  BY <1>2
<1>4. \A i \in 1 .. Len(s) - 1 : Tail(s)[i] = s[i + 1]  BY <1>1
<1>5. \A i \in 1 .. Len(s) : i = 1 \/ i - 1 \in 1 .. Len(s) - 1  BY <1>1
<1>6. \A i \in 1 .. Len(s) - 1 : i + 1 \in 1 .. Len(s)  BY <1>1
<1>7. \A i \in 1 .. Len(s) : i # 1 => Tail(s)[i - 1] = s[i]  BY <1>1, <1>4, <1>5
<1>8. Elements(s) = {Head(s)} \cup Elements(Tail(s))
  <2>1. Elements(s) \subseteq {Head(s)} \cup Elements(Tail(s))
    <3> SUFFICES ASSUME NEW i \in 1 .. Len(s)  PROVE s[i] \in {Head(s)} \cup Elements(Tail(s))
      BY <1>1 DEF Elements
    <3>1. CASE i = 1  BY <3>1, <1>2
    <3>2. CASE i # 1
      <4>1. i - 1 \in DOMAIN Tail(s) /\ Tail(s)[i - 1] = s[i]  BY <3>2, <1>3, <1>5, <1>7
      <4> QED  BY <4>1 DEF Elements
    <3> QED  BY <3>1, <3>2
  <2>2. {Head(s)} \cup Elements(Tail(s)) \subseteq Elements(s)
    BY <1>1, <1>2, <1>3, <1>4, <1>6 DEF Elements
  <2> QED  BY <2>1, <2>2
<1> QED  BY <1>1, <1>2, <1>3, <1>4, <1>8

\* The messages that were marked as free of conflicts, one by one.
LEMMA WithoutConflictType ==
  ASSUME NEW s \in Seq(Messages)
  PROVE  /\ WithoutConflict(s) \in Seq(Messages \X Conflicts) /\ Len(WithoutConflict(s)) = Len(s)
         /\ \A i \in 1 .. Len(s) : WithoutConflict(s)[i] = <<s[i], "None">>
<1>1. Len(s) \in Nat /\ DOMAIN s = 1 .. Len(s) /\ \A i \in 1 .. Len(s) : s[i] \in Messages
  OBVIOUS
<1>2. \A i \in 1 .. Len(s) : <<s[i], "None">> \in Messages \X Conflicts
  BY <1>1 DEF Conflicts
<1> QED  BY <1>1, <1>2 DEF WithoutConflict

-----------------------------------------------------------------------------
(***************************************************************************)
(* What apply_regular_essence decides.                                     *)
(***************************************************************************)
\* A non-empty set of positions has a least one.
LEMMA LeastPosition ==
  ASSUME NEW n \in Nat, NEW B \in SUBSET (1 .. n), B # {}
  PROVE  \E i \in B : \A j \in B : i <= j
<1>1. B \subseteq Nat  OBVIOUS
<1>2. \E i \in B : \A j \in B : ~(<<j, i>> \in OpToRel(<, Nat))
  BY <1>1, WFMin, NatLessThanWellFounded
<1>3. ASSUME NEW i \in Nat, NEW j \in Nat, j < i  PROVE <<j, i>> \in OpToRel(<, Nat)
  BY <1>3 DEF OpToRel
<1>4. PICK i \in B : \A j \in B : ~(<<j, i>> \in OpToRel(<, Nat))  BY <1>2
<1>5. \A j \in B : ~(j < i)  BY <1>1, <1>3, <1>4
<1> QED  BY <1>1, <1>5

\* And a greatest one: the least distance from the end.
LEMMA GreatestPosition ==
  ASSUME NEW n \in Nat, NEW B \in SUBSET (1 .. n), B # {}
  PROVE  \E i \in B : \A j \in B : j <= i
<1> DEFINE D == {k \in 1 .. n : n + 1 - k \in B}
<1>1. D \in SUBSET (1 .. n)  OBVIOUS
<1>2. \A i \in B : n + 1 - i \in 1 .. n /\ n + 1 - (n + 1 - i) = i  OBVIOUS
<1>3. \A i \in B : n + 1 - i \in D  BY <1>2
<1>4. D # {}  BY <1>3
<1>5. \A k \in D : n + 1 - k \in B /\ k \in 1 .. n  OBVIOUS
<1> HIDE DEF D
<1>6. PICK k \in D : \A j \in D : k <= j  BY <1>1, <1>4, LeastPosition
<1>7. ASSUME NEW j \in B  PROVE j <= n + 1 - k
  <2>1. k <= n + 1 - j  BY <1>3, <1>6
  <2>2. k \in 1 .. n /\ j \in 1 .. n  BY <1>5, <1>6
  <2> QED  BY <2>1, <2>2
<1> QED  BY <1>5, <1>6, <1>7

\* The parts of a transaction.
LEMMA TransactionTypes ==
  ASSUME NEW t \in Transactions
  PROVE  /\ Inputs[t] \in Seq(OutputIds) /\ Creates[t] \in SUBSET OutputIds
         /\ ConsumedBy(t) \in SUBSET OutputIds /\ ConsumedBy(t) # {}
         /\ DOMAIN Inputs[t] = 1 .. Len(Inputs[t]) /\ Len(Inputs[t]) \in Nat
<1>1. Inputs[t] \in Seq(OutputIds) /\ Creates[t] \in SUBSET OutputIds /\ Inputs[t] # <<>>
  BY WhiteFlagAssumption, TransactionAssumption
<1>2. ConsumedBy(t) \in SUBSET OutputIds  BY <1>1, ElementsOfSeq DEF ConsumedBy
<1>3. /\ Len(Inputs[t]) \in Nat /\ Len(Inputs[t]) # 0
      /\ DOMAIN Inputs[t] = 1 .. Len(Inputs[t])
  BY <1>1
<1>4. 1 \in DOMAIN Inputs[t]  BY <1>3
<1>5. ConsumedBy(t) # {}  BY <1>4 DEF ConsumedBy, Elements
<1> QED  BY <1>1, <1>2, <1>3, <1>5

\* The outcomes of the check of the inputs.
LEMMA InputConflictCases ==
  ASSUME NEW t, NEW i
  PROVE  /\ InputConflict(t, i) \in Conflicts
         /\ InputConflict(t, i) = "None" => Inputs[t][i] \in Available
         /\ InputConflict(t, i) = "InputUtxoAlreadySpentInThisMilestone" =>
              Inputs[t][i] \in consumed_outputs
BY DEF InputConflict, Conflicts

\* The outcomes of the check for dust.
LEMMA DustCheckCases ==
  ASSUME NEW t, NEW a
  PROVE  /\ DustCheck(t, a) \in {"None", "Error", "InvalidDustAllowance"}
         /\ DustCheck(t, a) = "None" =>
              \/ ~IsDustMutating(DiffOf(Creates[t], ConsumedBy(t), a))
              \/ ~ExceedsDust(Plus(Plus(balances[a], DiffOf(Creates[t], ConsumedBy(t), a)),
                                   balance_diffs[a]))
BY DEF DustCheck

\* A transaction is included only if its inputs are available, its amounts
\* are equal and no address exceeds its dust limit; it is refused for a
\* double spend only if one of its inputs was consumed by the milestone.
LEMMA OutcomesCases ==
  ASSUME NEW t \in Transactions
  PROVE  /\ Outcomes(t) \subseteq Conflicts \cup {"Error"}
         /\ "None" \in Outcomes(t) =>
              /\ ConsumedBy(t) \subseteq Available
              /\ Total(Creates[t]) = Total(ConsumedBy(t))
              /\ \A a \in Addresses : DustCheck(t, a) = "None"
         /\ "InputUtxoAlreadySpentInThisMilestone" \in Outcomes(t) =>
              ConsumedBy(t) \cap consumed_outputs # {}
<1> DEFINE bad   == {i \in DOMAIN Inputs[t] : InputConflict(t, i) # "None"}
           fails == {DustCheck(t, a) : a \in Addresses} \ {"None"}
           first == CHOOSE i \in bad : \A j \in bad : i <= j
<1>1. Outcomes(t) = IF bad # {} THEN {InputConflict(t, first)}
                    ELSE IF Total(Creates[t]) # Total(ConsumedBy(t))
                         THEN {"InputOutputSumMismatch"}
                    ELSE IF fails # {} THEN fails
                    ELSE {"None"}
  BY DEF Outcomes
<1>2. CASE bad # {}
  <2>1. \E i \in bad : \A j \in bad : i <= j
    <3>1. bad \in SUBSET (1 .. Len(Inputs[t])) /\ Len(Inputs[t]) \in Nat  BY TransactionTypes
    <3> HIDE DEF bad
    <3> QED  BY <1>2, <3>1, LeastPosition
  <2>2. first \in bad  BY <2>1
  <2>3. first \in DOMAIN Inputs[t] /\ InputConflict(t, first) # "None"  BY <2>2
  <2>4. Inputs[t][first] \in ConsumedBy(t)  BY <2>3 DEF ConsumedBy, Elements
  <2> HIDE DEF bad, first, fails
  <2>5. Outcomes(t) = {InputConflict(t, first)}  BY <1>1, <1>2
  <2> QED  BY <2>3, <2>4, <2>5, InputConflictCases
<1>3. CASE bad = {}
  <2>1. ConsumedBy(t) \subseteq Available
    BY <1>3, InputConflictCases DEF ConsumedBy, Elements
  <2>2. fails \subseteq {"Error", "InvalidDustAllowance"}  BY DustCheckCases
  <2>3. fails = {} => \A a \in Addresses : DustCheck(t, a) = "None"  OBVIOUS
  <2>4. /\ "InputOutputSumMismatch" \in Conflicts /\ "InvalidDustAllowance" \in Conflicts
        /\ "None" \in Conflicts
    BY DEF Conflicts
  <2> HIDE DEF bad, fails
  <2> QED  BY <1>1, <1>3, <2>1, <2>2, <2>3, <2>4
<1> QED  BY <1>2, <1>3

-----------------------------------------------------------------------------
(***************************************************************************)
(* Types.                                                                  *)
(***************************************************************************)
HasTransaction(m) == m \in DOMAIN payload /\ payload[m] # None

TypeInv ==
  /\ TypeOK
  /\ payload \in [Messages \ (Milestones \cup SolidEntryPoints) -> {None} \cup Transactions]
  /\ receipt \in [Milestones -> {None} \cup Receipts]
  /\ phase \in {"traverse", "mark"} => milestone \in Milestones
  /\ restarts \in Nat

\* The transaction of a message.
LEMMA TransactionOf ==
  ASSUME TypeInv, NEW m
  PROVE  /\ Transaction(m) # None <=> HasTransaction(m)
         /\ HasTransaction(m) =>
              /\ Transaction(m) = payload[m] /\ payload[m] \in Transactions
              /\ m \in Messages \ Milestones
BY DEF TypeInv, Transaction, HasTransaction

\* The parents of a message.
LEMMA ParentsType ==
  ASSUME TypeInv, NEW m \in Messages
  PROVE  ParentsOf(m) \in Seq(Messages)
BY WhiteFlagAssumption DEF TypeInv, TypeOK, ParentsOf

\* The initial state has its types.
LEMMA TypeInit == ASSUME Init  PROVE TypeInv
<1>1. <<>> \in Seq(Messages) /\ <<>> \in Seq(Messages \X Conflicts)  OBVIOUS
<1>2. known \subseteq Messages  BY DEF Init
<1>3. conflict \in [Messages -> Conflicts]  BY DEF Init, Conflicts
<1>4. Genesis \subseteq OutputIds  BY GenesisAssumption
<1> QED  BY <1>1, <1>2, <1>3, <1>4 DEF Init, TypeInv, TypeOK

\* A step of the traversal pops a message or pushes a parent.
LEMMA StackTypes ==
  ASSUME TypeInv, message_ids # <<>>
  PROVE  /\ Top(message_ids) \in Messages /\ Pop(message_ids) \in Seq(Messages)
         /\ Elements(message_ids) = Elements(Pop(message_ids)) \cup {Top(message_ids)}
BY ElementsPop DEF TypeInv, TypeOK

\* The updates of metadata have their types.
LEMMA MarksType ==
  ASSUME TypeInv, milestone \in Milestones
  PROVE  Marks \in Seq(Messages \X Conflicts)
<1>1. milestone \in Messages  BY WhiteFlagAssumption
<1>2. Append(excluded_no_transaction_messages, milestone) \in Seq(Messages)
  BY <1>1 DEF TypeInv, TypeOK
<1>3. /\ WithoutConflict(Append(excluded_no_transaction_messages, milestone))
           \in Seq(Messages \X Conflicts)
      /\ WithoutConflict(included_messages) \in Seq(Messages \X Conflicts)
      /\ excluded_conflicting_messages \in Seq(Messages \X Conflicts)
  BY <1>2, WithoutConflictType DEF TypeInv, TypeOK
<1> QED  BY <1>3 DEF Marks

\* The funds of a receipt.
LEMMA FundsType ==
  ASSUME TypeInv, milestone \in Milestones
  PROVE  /\ Funds(milestone) \in SUBSET OutputIds
         /\ receipt[milestone] # None => receipt[milestone] \in Receipts
BY ReceiptAssumption DEF TypeInv, Funds

\* Every step keeps the types.
LEMMA TypeNext == ASSUME TypeInv, [Next]_vars  PROVE TypeInv'
<1> USE DEF TypeInv, TypeOK
<1>1. ASSUME Panic  PROVE TypeInv'
  BY <1>1 DEF Panic, ledgerVars, tangleVars, flagVars, metaVars
<1>2. ASSUME NEW m \in Milestones, Confirm(m)  PROVE TypeInv'
  <2>1. m \in Messages  BY WhiteFlagAssumption
  <2>2. Backwards(ParentsOf(m)) \in Seq(Messages)  BY <2>1, ParentsType, ElementsBackwards
  <2>3. <<>> \in Seq(Messages) /\ <<>> \in Seq(Messages \X Conflicts)  OBVIOUS
  <2> QED  BY <1>2, <2>2, <2>3 DEF Confirm, ledgerVars, tangleVars, flagVars
<1>3. CASE VisitReferenced \/ VisitEntryPoint
  <2>1. /\ message_ids # <<>>
        /\ visited' = visited \cup {Top(message_ids)} /\ message_ids' = Pop(message_ids)
        /\ UNCHANGED <<ledgerVars, tangleVars, flagVars, metaVars, phase, milestone,
                       receipt_migrated_at, marking, restarts>>
    BY <1>3 DEF VisitReferenced, VisitEntryPoint, Traversing, Leave
  <2>2. visited' \subseteq Messages /\ message_ids' \in Seq(Messages)  BY <2>1, StackTypes
  <2> QED  BY <2>1, <2>2 DEF ledgerVars, tangleVars, flagVars, metaVars
<1>4. CASE Descend
  <2>1. Top(message_ids) \in Messages  BY <1>4, StackTypes DEF Descend, Traversing
  <2>2. ParentsOf(Top(message_ids)) \in Seq(Messages)  BY <2>1, ParentsType
  <2>3. message_ids' \in Seq(Messages)  BY <1>4, <2>2 DEF Descend, Unvisited
  <2> QED  BY <1>4, <2>3 DEF Descend, ledgerVars, tangleVars, flagVars, metaVars
<1>5. CASE Apply
  <2> DEFINE m == Top(message_ids)
  <2>1. message_ids # <<>> /\ m \in Messages /\ Pop(message_ids) \in Seq(Messages)
    BY <1>5, StackTypes DEF Apply, Traversing
  <2>2. visited' \subseteq Messages /\ message_ids' \in Seq(Messages) /\ order' \in Seq(Messages)
    BY <1>5, <2>1 DEF Apply, Leave
  <2>3. UNCHANGED <<ledgerVars, tangleVars, flagVars, phase, milestone,
                    receipt_migrated_at, marking, restarts>>
    BY <1>5 DEF Apply
  <2> HIDE DEF m
  <2>4. /\ included_messages' \in Seq(Messages)
        /\ excluded_conflicting_messages' \in Seq(Messages \X Conflicts)
        /\ excluded_no_transaction_messages' \in Seq(Messages)
        /\ created_outputs' \subseteq OutputIds /\ consumed_outputs' \subseteq OutputIds
    <3>1. CASE ExcludeNoTransaction(m)  BY <3>1, <2>1 DEF ExcludeNoTransaction
    <3>2. CASE Include(m)
      <4>1. Transaction(m) \in Transactions  BY <3>2, TransactionOf DEF Include
      <4> QED  BY <3>2, <4>1, <2>1, TransactionTypes DEF Include
    <3>3. CASE ExcludeConflicting(m)
      <4>1. Transaction(m) \in Transactions  BY <3>3, TransactionOf DEF ExcludeConflicting
      <4>2. PICK c \in Outcomes(Transaction(m)) \ {"None", "Error"} :
              excluded_conflicting_messages' = Append(excluded_conflicting_messages, <<m, c>>)
        BY <3>3 DEF ExcludeConflicting
      <4>3. c \in Conflicts  BY <4>1, <4>2, OutcomesCases
      <4> QED  BY <3>3, <4>2, <4>3, <2>1 DEF ExcludeConflicting
    <3> QED  BY <1>5, <3>1, <3>2, <3>3 DEF Apply, m
  <2> QED  BY <2>2, <2>3, <2>4 DEF ledgerVars, tangleVars, flagVars
<1>6. CASE Commit
  <2>1. milestone \in Milestones /\ milestone \in Messages  BY <1>6, WhiteFlagAssumption DEF Commit
  <2>2. marking' \in Seq(Messages \X Conflicts)  BY <1>6, <2>1, MarksType DEF Commit
  <2>3. receipt_migrated_at' \in Nat
    BY <1>6, <2>1, FundsType, ReceiptAssumption DEF Commit
  <2>4. /\ ledger_index' = Index[milestone]
        /\ outputs' = outputs \cup (created_outputs \cup Funds(milestone))
        /\ unspent' = (unspent \cup (created_outputs \cup Funds(milestone))) \ consumed_outputs
        /\ spent' = spent \cup consumed_outputs
    BY <1>6 DEF Commit, ApplyMilestone, UnspentAfter
  <2>5. ledger_index' \in Nat /\ outputs' \subseteq OutputIds /\ unspent' \subseteq OutputIds
        /\ spent' \subseteq OutputIds
    BY <2>1, <2>4, FundsType, WhiteFlagAssumption
  <2>6. excluded_no_transaction_messages' \in Seq(Messages)  BY <1>6, <2>1 DEF Commit
  <2>7. /\ phase' = "mark"
        /\ UNCHANGED <<tangleVars, flagVars, included_messages, excluded_conflicting_messages,
                       created_outputs, consumed_outputs, order, milestone, message_ids,
                       visited, restarts>>
    BY <1>6 DEF Commit
  <2> QED  BY <2>1, <2>2, <2>3, <2>5, <2>6, <2>7 DEF tangleVars, flagVars
<1>7. CASE MarkReferenced
  <2>1. Head(marking) \in Messages \X Conflicts /\ Tail(marking) \in Seq(Messages \X Conflicts)
    BY <1>7, ElementsTail DEF MarkReferenced
  <2> QED  BY <1>7, <2>1 DEF MarkReferenced, ledgerVars, tangleVars, metaVars
<1>8. CASE Confirmed  BY <1>8 DEF Confirmed, ledgerVars, tangleVars, flagVars, metaVars
<1>9. CASE Restart  BY <1>9 DEF Restart, ledgerVars, tangleVars, flagVars, metaVars
<1>10. CASE UNCHANGED vars
  BY <1>10 DEF vars, ledgerVars, tangleVars, flagVars, metaVars
<1> HIDE DEF TypeInv, TypeOK
<1> QED
  BY <1>1, <1>2, <1>3, <1>4, <1>5, <1>6, <1>7, <1>8, <1>9, <1>10
  DEF Next, MilestoneMessageNotFound, NonContiguousMilestones, ApplyError, MissingMessage, ConfirmError

\* The state of the worker keeps its types.
THEOREM WhiteFlagTypes == Spec => []TypeOK
<1>1. Init => TypeInv  BY TypeInit
<1>2. TypeInv /\ [Next]_vars => TypeInv'  BY TypeNext
<1>3. TypeInv => TypeOK  BY DEF TypeInv
<1> QED  BY <1>1, <1>2, <1>3, PTL DEF Spec

-----------------------------------------------------------------------------
(***************************************************************************)
(* The ledger.  Between two milestones it is balanced; an output that is   *)
(* about to be created does not exist yet, for its transaction would have  *)
(* to consume its inputs a second time; during a traversal the differences *)
(* are those of the outputs created and consumed so far.                   *)
(***************************************************************************)
LedgerInv ==
  /\ UtxoPartition
  /\ BalancesExact
  /\ \A a \in Addresses : ~ExceedsDust(balances[a])
  /\ IsFiniteSet(treasury) /\ Cardinality(treasury) = 1
  /\ \A t \in treasury : t.amount \in Nat /\ Total(unspent) + t.amount = Supply

FreshInv ==
  /\ \A t \in Transactions : Creates[t] \cap outputs # {} => ConsumedBy(t) \subseteq spent
  /\ \A r \in Receipts :
       r.funds \cap outputs # {} => \E s \in treasury_spent : s.milestone = r.input
  /\ \A t \in treasury, s \in treasury_spent : t.milestone # s.milestone
  /\ \A t \in treasury \cup treasury_spent :
       t.milestone \in Milestones => Index[t.milestone] <= ledger_index

MetaInv ==
  phase = "traverse" =>
    /\ created_outputs \cap outputs = {}
    /\ created_outputs \subseteq UNION {Creates[t] : t \in Transactions}
    /\ consumed_outputs \subseteq unspent \cup created_outputs
    /\ \A t \in Transactions :
         Creates[t] \cap created_outputs # {} => ConsumedBy(t) \subseteq consumed_outputs
    /\ balance_diffs = DiffsOf(created_outputs, consumed_outputs)
    /\ Total(created_outputs) = Total(consumed_outputs)
    /\ \A a \in Addresses : ~ExceedsDust(Plus(balances[a], balance_diffs[a]))
    /\ Index[milestone] = ledger_index + 1

BookInv == TypeInv /\ LedgerInv /\ FreshInv /\ MetaInv

\* The start of a ledger is balanced and nothing has been spent.
LEMMA BookInit == ASSUME Init  PROVE BookInv
<1>1. LedgerInv
  <2>1. /\ outputs = Genesis /\ unspent = Genesis /\ spent = {} /\ treasury = {GenesisTreasury}
        /\ balances = [a \in Addresses |-> BalanceOf(Genesis, a)]
    BY DEF Init
  <2>2. IsFiniteSet(treasury) /\ Cardinality(treasury) = 1  BY <2>1, FS_Singleton
  <2> QED  BY <2>1, <2>2, GenesisAssumption DEF LedgerInv, UtxoPartition, BalancesExact
<1>2. FreshInv
  <2>1. outputs = Genesis /\ treasury = {GenesisTreasury} /\ treasury_spent = {}  BY DEF Init
  <2> QED
    BY <2>1, GenesisAssumption, TransactionAssumption, ReceiptAssumption DEF FreshInv
<1>3. MetaInv  BY DEF Init, MetaInv
<1> QED  BY <1>1, <1>2, <1>3, TypeInit DEF BookInv

\* A milestone begins with no differences.
LEMMA BookConfirm ==
  ASSUME BookInv, NEW m \in Milestones, Confirm(m)
  PROVE  LedgerInv' /\ FreshInv' /\ MetaInv'
<1>1. UNCHANGED ledgerVars /\ milestone' = m /\ created_outputs' = {} /\ consumed_outputs' = {}
      /\ balance_diffs' = NoDiffs /\ Index[m] = ledger_index + 1
  BY DEF Confirm
<1>2. LedgerInv' /\ FreshInv'
  BY <1>1 DEF BookInv, LedgerInv, FreshInv, UtxoPartition, BalancesExact, ledgerVars
<1>3. NoDiffs = DiffsOf({}, {})  BY NoDifference DEF NoDiffs, DiffsOf
<1>4. ASSUME NEW a \in Addresses  PROVE ~ExceedsDust(Plus(balances[a], NoDiffs[a]))
  <2>1. /\ balances[a] \in BalanceType /\ ~ExceedsDust(balances[a])
        /\ NoDiffs[a] \in BalanceType /\ ~IsDustMutating(NoDiffs[a])
    BY BalanceOfType
    DEF BookInv, LedgerInv, BalancesExact, TypeInv, TypeOK, NoDiffs, ZeroBalance, BalanceType, IsDustMutating
  <2> QED  BY <2>1, DustKept
<1>5. MetaInv'
  BY <1>1, <1>3, <1>4 DEF MetaInv, ledgerVars
<1> QED  BY <1>2, <1>5

\* A transaction that is included creates outputs that do not exist.
LEMMA OutputsAreNew ==
  ASSUME BookInv, phase = "traverse", NEW t \in Transactions, ConsumedBy(t) \subseteq Available
  PROVE  Creates[t] \cap outputs = {} /\ Creates[t] \cap created_outputs = {}
<1>1. PICK o \in ConsumedBy(t) : TRUE  BY TransactionTypes
<1>2. o \in created_outputs \cup unspent /\ o \notin consumed_outputs  BY <1>1 DEF Available
<1>3. o \notin spent
  BY <1>2 DEF BookInv, LedgerInv, UtxoPartition, MetaInv
<1> QED  BY <1>1, <1>2, <1>3 DEF BookInv, FreshInv, MetaInv

\* A message that is included keeps the differences exact and the dust legal.
LEMMA BookInclude ==
  ASSUME BookInv, phase = "traverse", NEW m, Include(m),
         UNCHANGED <<ledgerVars, phase, milestone>>
  PROVE  MetaInv'
<1> DEFINE t == Transaction(m)
           C == Creates[t]
           K == ConsumedBy(t)
<1>1. t \in Transactions  BY TransactionOf DEF Include, BookInv
<1> HIDE DEF t
<1>2. /\ "None" \in Outcomes(t)
      /\ consumed_outputs' = consumed_outputs \cup K /\ created_outputs' = created_outputs \cup C
      /\ balance_diffs' = Merge(balance_diffs, DiffsOf(C, K))
  BY DEF Include, DiffsBy, t
<1>3. K \subseteq Available /\ Total(C) = Total(K) /\ \A a \in Addresses : DustCheck(t, a) = "None"
  BY <1>1, <1>2, OutcomesCases
<1>4. C \in SUBSET OutputIds /\ K \in SUBSET OutputIds
      /\ created_outputs \in SUBSET OutputIds /\ consumed_outputs \in SUBSET OutputIds
      /\ unspent \in SUBSET OutputIds
  BY <1>1, TransactionTypes DEF BookInv, TypeInv, TypeOK
<1>5. C \cap outputs = {} /\ created_outputs \cap C = {}  BY <1>1, <1>3, OutputsAreNew
<1>6. consumed_outputs \cap K = {} /\ K \subseteq unspent \cup created_outputs
  BY <1>3 DEF Available
<1>7. balance_diffs' = DiffsOf(created_outputs', consumed_outputs')
  <2>1. ASSUME NEW a \in Addresses
        PROVE  Plus(balance_diffs[a], DiffsOf(C, K)[a])
                 = DiffOf(created_outputs \cup C, consumed_outputs \cup K, a)
    <3>1. balance_diffs[a] = DiffOf(created_outputs, consumed_outputs, a)
      BY DEF BookInv, MetaInv, DiffsOf
    <3>2. DiffsOf(C, K)[a] = DiffOf(C, K, a)  BY DEF DiffsOf
    <3> QED  BY <3>1, <3>2, <1>4, <1>5, <1>6, DiffMerged
  <2> QED  BY <2>1, <1>2 DEF Merge, DiffsOf
<1>8. Total(created_outputs') = Total(consumed_outputs')
  <2>1. Total(created_outputs) = Total(consumed_outputs)  BY DEF BookInv, MetaInv
  <2>2. Total(created_outputs') = Total(created_outputs) + Total(C)
    BY <1>2, <1>4, <1>5, TotalUnion
  <2>3. Total(consumed_outputs') = Total(consumed_outputs) + Total(K)
    BY <1>2, <1>4, <1>6, TotalUnion
  <2> QED  BY <2>1, <2>2, <2>3, <1>3
<1>9. ASSUME NEW a \in Addresses
      PROVE  ~ExceedsDust(Plus(balances[a], balance_diffs'[a]))
  <2> DEFINE b == balances[a]
             d == balance_diffs[a]
             e == DiffOf(C, K, a)
  <2>1. b \in BalanceType
    BY <1>4, BalanceOfType DEF BookInv, LedgerInv, BalancesExact
  <2>2. d \in BalanceType  BY <1>4, DiffType DEF BookInv, MetaInv, DiffsOf
  <2>3. e \in BalanceType  BY <1>4, DiffType
  <2>4. balance_diffs'[a] = Plus(d, e)  BY <1>2 DEF Merge, DiffsOf
  <2>5. ~ExceedsDust(Plus(b, d))  BY DEF BookInv, MetaInv
  <2>6. ~IsDustMutating(e) \/ ~ExceedsDust(Plus(Plus(b, e), d))
    BY <1>3, DustCheckCases
  <2> HIDE DEF b, d, e
  <2>7. Plus(b, Plus(d, e)) = Plus(Plus(b, d), e) /\ Plus(b, Plus(d, e)) = Plus(Plus(b, e), d)
    BY <2>1, <2>2, <2>3 DEF BalanceType, Plus
  <2>8. ~IsDustMutating(e) => ~ExceedsDust(Plus(Plus(b, d), e))
    BY <2>1, <2>2, <2>3, <2>5, PlusType, DustKept
  <2>9. ~ExceedsDust(Plus(b, Plus(d, e)))  BY <2>6, <2>7, <2>8
  <2> QED  BY <2>4, <2>9 DEF b
<1>10. ASSUME NEW u \in Transactions, Creates[u] \cap created_outputs' # {}
       PROVE  ConsumedBy(u) \subseteq consumed_outputs'
  BY <1>1, <1>2, <1>10, TransactionAssumption DEF BookInv, MetaInv
<1>11. created_outputs' \subseteq UNION {Creates[u] : u \in Transactions}
  BY <1>1, <1>2 DEF BookInv, MetaInv
<1>12. /\ created_outputs' \cap outputs' = {}
       /\ consumed_outputs' \subseteq unspent' \cup created_outputs'
       /\ Index[milestone'] = ledger_index' + 1 /\ balances' = balances
  BY <1>2, <1>5, <1>6 DEF BookInv, MetaInv, ledgerVars
<1> QED  BY <1>7, <1>8, <1>9, <1>10, <1>11, <1>12 DEF MetaInv

\* The funds of a receipt only change amounts: their differences, added to
\* those of the transactions, are the differences of all that is created.
LEMMA AllDiffsExact ==
  ASSUME BookInv, phase = "traverse", milestone \in Milestones,
         created_outputs \cap Funds(milestone) = {}
  PROVE  /\ AllDiffs = DiffsOf(created_outputs \cup Funds(milestone), consumed_outputs)
         /\ \A a \in Addresses : ~ExceedsDust(Plus(balances[a], AllDiffs[a]))
<1> DEFINE F == Funds(milestone)
<1>1. /\ F \in SUBSET OutputIds /\ created_outputs \in SUBSET OutputIds
      /\ consumed_outputs \in SUBSET OutputIds /\ unspent \in SUBSET OutputIds
  BY FundsType DEF BookInv, TypeInv, TypeOK
<1>2. \A o \in F : ~Output[o].allowance /\ ~IsDust(o)
  BY FundsType, ReceiptAssumption DEF BookInv, Funds
<1>3. ASSUME NEW a \in Addresses
      PROVE  /\ FundsDiffs(milestone)[a] = DiffOf(F, {}, a)
             /\ FundsDiffs(milestone)[a] \in BalanceType
             /\ ~IsDustMutating(FundsDiffs(milestone)[a])
  <2>1. FundsDiffs(milestone)[a] = [amount |-> BalanceOf(F, a).amount,
                                    dust_allowance |-> 0, dust_outputs |-> 0]
    BY DEF FundsDiffs, ZeroBalance
  <2> HIDE DEF F
  <2>2. Allowances(F, a) = {} /\ Dust(F, a) = {}  BY <1>2 DEF Allowances, Dust, Mine
  <2>3. Total({}) = 0 /\ Cardinality({}) = 0  BY SumEmpty, FS_EmptySet DEF Total
  <2>4. BalanceOf(F, a).dust_allowance = 0 /\ BalanceOf(F, a).dust_outputs = 0
    BY <2>2, <2>3, BalanceParts
  <2>5. BalanceOf({}, a) = ZeroBalance
    <3>1. Mine({}, a) = {} /\ Allowances({}, a) = {} /\ Dust({}, a) = {}
      BY DEF Mine, Allowances, Dust
    <3> QED  BY <3>1, <2>3, BalanceParts DEF ZeroBalance
  <2>6. BalanceOf(F, a) \in BalanceType  BY <1>1, BalanceOfType
  <2>7. BalanceOf(F, a) = [amount |-> BalanceOf(F, a).amount,
                           dust_allowance |-> 0, dust_outputs |-> 0]
    BY <2>4, <2>6 DEF BalanceType
  <2>8. Plus(BalanceOf(F, a), Minus(ZeroBalance)) = BalanceOf(F, a)
    BY <2>6 DEF Plus, Minus, ZeroBalance, BalanceType
  <2>9. FundsDiffs(milestone)[a] = DiffOf(F, {}, a)  BY <2>1, <2>5, <2>7, <2>8 DEF DiffOf
  <2>10. ~IsDustMutating(FundsDiffs(milestone)[a])  BY <2>1 DEF IsDustMutating
  <2> QED  BY <2>1, <2>6, <2>7, <2>9, <2>10
<1> HIDE DEF F
<1>4. ASSUME NEW a \in Addresses
      PROVE  /\ AllDiffs[a] = DiffOf(created_outputs \cup F, consumed_outputs, a)
             /\ ~ExceedsDust(Plus(balances[a], AllDiffs[a]))
  <2> DEFINE b == balances[a]
             d == balance_diffs[a]
             e == FundsDiffs(milestone)[a]
  <2>1. AllDiffs[a] = Plus(d, e)  BY DEF AllDiffs, Merge
  <2>2. d = DiffOf(created_outputs, consumed_outputs, a)  BY DEF BookInv, MetaInv, DiffsOf
  <2>3. e = DiffOf(F, {}, a)  BY <1>3
  <2>4. consumed_outputs \cap {} = {} /\ consumed_outputs \cup {} = consumed_outputs
        /\ {} \in SUBSET OutputIds
    OBVIOUS
  <2>5. Plus(DiffOf(created_outputs, consumed_outputs, a), DiffOf(F, {}, a))
          = DiffOf(created_outputs \cup F, consumed_outputs \cup {}, a)
    BY <1>1, <2>4, DiffMerged DEF F
  <2>6. b \in BalanceType /\ d \in BalanceType /\ e \in BalanceType /\ ~IsDustMutating(e)
    BY <1>1, <1>3, <2>2, BalanceOfType, DiffType DEF BookInv, LedgerInv, BalancesExact
  <2>7. ~ExceedsDust(Plus(b, d))  BY DEF BookInv, MetaInv
  <2>8. AllDiffs[a] = DiffOf(created_outputs \cup F, consumed_outputs, a)
    BY <2>1, <2>2, <2>3, <2>4, <2>5
  <2> HIDE DEF b, d, e
  <2>9. Plus(b, Plus(d, e)) = Plus(Plus(b, d), e)  BY <2>6, PlusAssociative
  <2>10. ~ExceedsDust(Plus(Plus(b, d), e))  BY <2>6, <2>7, PlusType, DustKept
  <2> QED  BY <2>1, <2>8, <2>9, <2>10 DEF b
<1>5. AllDiffs = DiffsOf(created_outputs \cup F, consumed_outputs)
  BY <1>4 DEF AllDiffs, Merge, DiffsOf
<1> QED  BY <1>4, <1>5 DEF F

\* A commit leaves the ledger balanced; a receipt moves funds out of the
\* treasury, and its funds did not exist, for the treasury output that it
\* consumes was not consumed before.
LEMMA BookCommit ==
  ASSUME BookInv, Commit
  PROVE  LedgerInv' /\ FreshInv' /\ MetaInv'
<1> DEFINE F == Funds(milestone)
           r == receipt[milestone]
<1>1. phase = "traverse" /\ milestone \in Milestones /\ phase' = "mark"
  BY DEF Commit, BookInv, TypeInv
<1>2. PICK t \in treasury :
        ApplyMilestone(Index[milestone], created_outputs \cup F, consumed_outputs, AllDiffs,
                       Migration(milestone, t))
  BY DEF Commit
<1>3. treasury = {t}  BY FS_Singleton DEF BookInv, LedgerInv
<1>4. r # None => r \in Receipts /\ r.input = t.milestone /\ Total(r.funds) <= t.amount
                    /\ r.output = t.amount - Total(r.funds)
  BY <1>1, FundsType DEF Commit, ConfirmChecks, ValidMigration, BookInv
<1>5. /\ F \in SUBSET OutputIds /\ created_outputs \in SUBSET OutputIds
      /\ consumed_outputs \in SUBSET OutputIds /\ unspent \in SUBSET OutputIds
  BY <1>1, FundsType DEF BookInv, TypeInv, TypeOK
<1>6. F \cap outputs = {}  BY <1>4 DEF BookInv, FreshInv, Funds
<1>7. created_outputs \cap F = {}
  BY <1>1, <1>4, ReceiptAssumption DEF BookInv, MetaInv, Funds
<1>8. /\ AllDiffs = DiffsOf(created_outputs \cup F, consumed_outputs)
      /\ \A a \in Addresses : ~ExceedsDust(Plus(balances[a], AllDiffs[a]))
  BY <1>1, <1>7, AllDiffsExact
<1>9. Index[milestone] = ledger_index + 1 /\ ledger_index \in Nat
  BY <1>1 DEF BookInv, MetaInv, TypeInv, TypeOK
<1> HIDE DEF F, r
<1>10. /\ UtxoPartition' /\ BalancesExact'
       /\ \A a \in Addresses : balances'[a] = Plus(balances[a], AllDiffs[a])
       /\ Total(unspent') = Total(unspent) + Total(created_outputs \cup F)
                              - Total(consumed_outputs)
  <2> DEFINE C == created_outputs \cup F
  <2>1. /\ C \in SUBSET OutputIds /\ consumed_outputs \in SUBSET (unspent \cup C)
        /\ C \cap outputs = {} /\ UtxoPartition /\ BalancesExact
    BY <1>1, <1>5, <1>6 DEF BookInv, MetaInv, LedgerInv
  <2>2. AllDiffs = DiffsOf(C, consumed_outputs)  BY <1>8
  <2>3. ApplyMilestone(Index[milestone], C, consumed_outputs, DiffsOf(C, consumed_outputs),
                       Migration(milestone, t))
    BY <1>2, <2>2
  <2> HIDE DEF C
  <2>4. /\ UtxoPartition' /\ BalancesExact'
        /\ \A a \in Addresses : balances'[a] = Plus(balances[a], DiffsOf(C, consumed_outputs)[a])
        /\ Total(unspent') = Total(unspent) + Total(C) - Total(consumed_outputs)
    BY ONLY <1>5, <2>1, <2>3, MilestoneKeepsBalances, SMTT(40)
  <2> QED  BY <2>2, <2>4 DEF C
<1>11. Total(unspent') = Total(unspent) + Total(F)
  <2>1. Total(created_outputs \cup F) = Total(created_outputs) + Total(F)
    BY <1>5, <1>7, TotalUnion
  <2>2. Total(created_outputs) = Total(consumed_outputs)  BY <1>1 DEF BookInv, MetaInv
  <2>3. Total(consumed_outputs) \in Nat /\ Total(F) \in Nat /\ Total(unspent) \in Nat
    BY <1>5, TotalType
  <2> QED  BY <1>10, <2>1, <2>2, <2>3
<1>12. /\ ledger_index' = Index[milestone]
       /\ outputs' = outputs \cup (created_outputs \cup F) /\ spent' = spent \cup consumed_outputs
  BY <1>2 DEF ApplyMilestone
<1>13. \A a \in Addresses : ~ExceedsDust(balances'[a])  BY <1>8, <1>10
<1>14. CASE r = None
  <2>1. UNCHANGED <<treasury, treasury_spent>> /\ F = {}
    BY <1>2, <1>14 DEF ApplyMilestone, Migration, F, r, Funds
  <2>2. Total(unspent') = Total(unspent)
    BY <1>5, <1>11, <2>1, SumEmpty, TotalType DEF Total
  <2>3. LedgerInv'
    BY <1>10, <1>13, <2>1, <2>2 DEF LedgerInv, BookInv
  <2>4. FreshInv'
    <3>1. \A u \in Transactions : Creates[u] \cap outputs' # {} => ConsumedBy(u) \subseteq spent'
      BY <1>1, <1>12, <2>1 DEF BookInv, FreshInv, MetaInv
    <3>2. \A q \in Receipts :
            q.funds \cap outputs' # {} => \E s \in treasury_spent' : s.milestone = q.input
      <4>1. \A q \in Receipts : q.funds \cap created_outputs = {}
        BY <1>1, ReceiptAssumption DEF BookInv, MetaInv
      <4> QED  BY <1>12, <2>1, <4>1 DEF BookInv, FreshInv
    <3>3. \A u \in treasury' \cup treasury_spent' :
            u.milestone \in Milestones => Index[u.milestone] <= ledger_index'
      BY <1>9, <1>12, <2>1, WhiteFlagAssumption DEF BookInv, FreshInv
    <3> QED  BY <3>1, <3>2, <3>3, <2>1 DEF BookInv, FreshInv
  <2>5. MetaInv'  BY <1>1 DEF MetaInv
  <2> QED  BY <2>3, <2>4, <2>5
<1>15. CASE r # None
  <2> DEFINE new == [amount |-> r.output, milestone |-> milestone]
  <2>1. F = r.funds /\ r \in Receipts  BY <1>4, <1>15 DEF F, Funds, r
  <2>2. /\ t.milestone # milestone
        /\ \A s \in treasury_spent : s.milestone # milestone
    BY <1>1, <1>9 DEF BookInv, FreshInv
  <2>3. new # t /\ new.milestone = milestone /\ new.amount = t.amount - Total(F)
    BY <1>4, <1>15, <2>1, <2>2
  <2>4. treasury' = (treasury \cup {new}) \ {t} /\ treasury_spent' = treasury_spent \cup {t}
    <3> DEFINE g == [receipt  |-> [receipt |-> r, included_in |-> Index[milestone]],
                     consumed |-> t, created |-> new]
    <3>1. Migration(milestone, t) = {g}  BY <1>15 DEF Migration, r
    <3>2. g.created = new /\ g.consumed = t  OBVIOUS
    <3> HIDE DEF g, new
    <3> QED  BY <1>2, <3>1, <3>2 DEF ApplyMilestone
  <2> HIDE DEF new
  <2>5. treasury' = {new}  BY <1>3, <2>3, <2>4
  <2>6. /\ t.amount \in Nat /\ Total(unspent) + t.amount = Supply
        /\ Total(F) \in Nat /\ Total(F) <= t.amount /\ Total(unspent) \in Nat
    BY <1>4, <1>5, <1>15, <2>1, TotalType DEF BookInv, LedgerInv
  <2>7. new.amount \in Nat /\ Total(unspent') + new.amount = Supply
    BY <1>11, <2>3, <2>6
  <2>8. LedgerInv'
    <3>1. IsFiniteSet(treasury') /\ Cardinality(treasury') = 1  BY <2>5, FS_Singleton
    <3> QED  BY <1>10, <1>13, <2>5, <2>7, <3>1 DEF LedgerInv
  <2>9. FreshInv'
    <3>1. ASSUME NEW u \in Transactions, Creates[u] \cap outputs' # {}
          PROVE  ConsumedBy(u) \subseteq spent'
      <4>1. Creates[u] \cap F = {}  BY <2>1, ReceiptAssumption
      <4> QED  BY <1>1, <1>12, <3>1, <4>1 DEF BookInv, FreshInv, MetaInv
    <3>2. ASSUME NEW q \in Receipts, q.funds \cap outputs' # {}
          PROVE  \E s \in treasury_spent' : s.milestone = q.input
      <4>1. q.funds \cap created_outputs = {}
        BY <1>1, ReceiptAssumption DEF BookInv, MetaInv
      <4>2. CASE q.funds \cap outputs # {}  BY <2>4, <4>2 DEF BookInv, FreshInv
      <4>3. CASE q.funds \cap F # {}
        <5>1. q.input = r.input  BY <2>1, <4>3, ReceiptAssumption
        <5> QED  BY <1>4, <1>15, <2>4, <5>1
      <4> QED  BY <1>12, <3>2, <4>1, <4>2, <4>3
    <3>3. \A u \in treasury', s \in treasury_spent' : u.milestone # s.milestone
      BY <2>2, <2>3, <2>4, <2>5
    <3>4. \A u \in treasury' \cup treasury_spent' :
            u.milestone \in Milestones => Index[u.milestone] <= ledger_index'
      <4>1. \A u \in treasury_spent' : u \in treasury \cup treasury_spent  BY <2>4
      <4>2. ledger_index' = ledger_index + 1 /\ ledger_index' = Index[milestone]
        BY <1>9, <1>12
      <4> QED
        BY <1>9, <2>3, <2>5, <4>1, <4>2, WhiteFlagAssumption DEF BookInv, FreshInv
    <3> QED  BY <3>1, <3>2, <3>3, <3>4 DEF FreshInv
  <2>10. MetaInv'  BY <1>1 DEF MetaInv
  <2> QED  BY <2>8, <2>9, <2>10
<1> QED  BY <1>14, <1>15

\* Every step keeps the books.
LEMMA BookNext == ASSUME BookInv, [Next]_vars  PROVE BookInv'
<1>1. TypeInv'  BY TypeNext DEF BookInv
<1> SUFFICES LedgerInv' /\ FreshInv' /\ MetaInv'  BY <1>1 DEF BookInv
<1>2. ASSUME UNCHANGED ledgerVars  PROVE LedgerInv' /\ FreshInv'
  BY <1>2 DEF BookInv, LedgerInv, FreshInv, UtxoPartition, BalancesExact, ledgerVars
<1>3. ASSUME UNCHANGED <<ledgerVars, created_outputs, consumed_outputs, balance_diffs, milestone>>,
             phase' # "traverse" \/ phase' = phase
      PROVE  LedgerInv' /\ FreshInv' /\ MetaInv'
  <2>1. LedgerInv' /\ FreshInv'  BY <1>2, <1>3
  <2>2. MetaInv'  BY <1>3 DEF BookInv, MetaInv, ledgerVars
  <2> QED  BY <2>1, <2>2
<1>4. ASSUME NEW m \in Milestones, Confirm(m)  PROVE LedgerInv' /\ FreshInv' /\ MetaInv'
  BY <1>4, BookConfirm
<1>5. CASE Apply
  <2>1. UNCHANGED <<ledgerVars, phase, milestone>> /\ phase = "traverse"
    BY <1>5 DEF Apply, Traversing
  <2>2. CASE Include(Top(message_ids))
    BY <1>2, <2>1, <2>2, BookInclude
  <2>3. CASE ExcludeNoTransaction(Top(message_ids)) \/ ExcludeConflicting(Top(message_ids))
    BY <1>3, <2>1, <2>3 DEF ExcludeNoTransaction, ExcludeConflicting
  <2> QED  BY <1>5, <2>2, <2>3 DEF Apply
<1>6. CASE Commit  BY <1>6, BookCommit
<1>7. ASSUME Panic  PROVE LedgerInv' /\ FreshInv' /\ MetaInv'
  BY <1>3, <1>7 DEF Panic, metaVars
<1>8. CASE VisitReferenced \/ VisitEntryPoint
  BY <1>3, <1>8 DEF VisitReferenced, VisitEntryPoint, metaVars
<1>9. CASE Descend  BY <1>3, <1>9 DEF Descend, metaVars
<1>10. CASE MarkReferenced \/ Confirmed \/ Restart
  BY <1>3, <1>10 DEF MarkReferenced, Confirmed, Restart, metaVars
<1>11. CASE UNCHANGED vars  BY <1>3, <1>11 DEF vars, metaVars
<1> QED
  BY <1>4, <1>5, <1>6, <1>7, <1>8, <1>9, <1>10, <1>11
  DEF Next, MilestoneMessageNotFound, NonContiguousMilestones, ApplyError, MissingMessage, ConfirmError

\* The books say what LedgerConsistent asks.
LEMMA BookImplies == ASSUME BookInv  PROVE LedgerConsistent
<1>1. unspent \in SUBSET OutputIds  BY DEF BookInv, TypeInv, TypeOK
<1>2. balances = [a \in Addresses |-> BalanceOf(unspent, a)]
  BY DEF BookInv, LedgerInv, BalancesExact
<1>3. [a \in Addresses |-> balances[a].amount] = [a \in Addresses |-> BalanceOf(unspent, a).amount]
  BY <1>2
<1>4. SumOver([a \in Addresses |-> balances[a].amount], Addresses) = Total(unspent)
  BY <1>1, <1>3, BalancesAddUp
<1>5. ValidBalanceState  BY <1>4 DEF ValidBalanceState, BookInv, LedgerInv
<1>6. ValidUnspentState  BY DEF ValidUnspentState, BookInv, LedgerInv, UtxoPartition
<1>7. BalancesMatch  BY <1>2 DEF BalancesMatch
<1> QED  BY <1>5, <1>6, <1>7 DEF LedgerConsistent, BookInv, LedgerInv

\* Whatever the messages, conflicts and receipts, the tables of the ledger
\* agree after every batch that confirm commits: each output is spent or
\* unspent, the balances are what the unspent outputs are worth, no address
\* exceeds its dust limit and, with the treasury, all adds up to the supply.
THEOREM LedgerStaysConsistent == Spec => []LedgerConsistent
<1>1. Init => BookInv  BY BookInit
<1>2. BookInv /\ [Next]_vars => BookInv'  BY BookNext
<1>3. BookInv => LedgerConsistent  BY BookImplies
<1> QED  BY <1>1, <1>2, <1>3, PTL DEF Spec

-----------------------------------------------------------------------------
(***************************************************************************)
(* The spends.  What a milestone consumes is what its included messages    *)
(* consume, each of them outputs that no other one has consumed.           *)
(***************************************************************************)
SpendInv ==
  phase = "traverse" =>
    /\ \A m \in Elements(included_messages) : HasTransaction(m)
    /\ \A m \in Elements(excluded_no_transaction_messages) : ~HasTransaction(m)
    /\ \A c \in Elements(excluded_conflicting_messages) : HasTransaction(c[1]) /\ c[2] # "None"
    /\ consumed_outputs = UNION {ConsumedBy(payload[m]) : m \in Elements(included_messages)}
    /\ NoDoubleSpend /\ ConflictJustified

\* The included messages consume different outputs after one more of them,
\* whose inputs are available.
LEMMA SpendInclude ==
  ASSUME BookInv, SpendInv, phase = "traverse", NEW m \in Messages, Include(m),
         UNCHANGED <<payload, phase, spent>>, BookInv'
  PROVE  SpendInv'
<1> DEFINE s == included_messages
<1>1. HasTransaction(m) /\ Transaction(m) = payload[m] /\ payload[m] \in Transactions
  BY TransactionOf DEF BookInv, Include
<1>2. /\ "None" \in Outcomes(payload[m]) /\ s' = Append(s, m)
      /\ consumed_outputs' = consumed_outputs \cup ConsumedBy(payload[m])
      /\ UNCHANGED <<excluded_conflicting_messages, excluded_no_transaction_messages>>
  BY <1>1 DEF Include
<1>3. ConsumedBy(payload[m]) \cap consumed_outputs = {}
  BY <1>1, <1>2, OutcomesCases DEF Available
<1>4. s \in Seq(Messages)  BY DEF BookInv, TypeInv, TypeOK
<1>5. /\ Elements(s') = Elements(s) \cup {m} /\ DOMAIN s' = DOMAIN s \cup {Len(s) + 1}
      /\ \A i \in DOMAIN s : s'[i] = s[i]
      /\ s'[Len(s) + 1] = m /\ Len(s) + 1 \notin DOMAIN s
  BY <1>2, <1>4, ElementsAppend
<1>6. consumed_outputs = UNION {ConsumedBy(payload[x]) : x \in Elements(s)}  BY DEF SpendInv
<1>7. consumed_outputs' = UNION {ConsumedBy(payload'[x]) : x \in Elements(s')}
  BY <1>2, <1>5, <1>6
<1>8. \A i \in DOMAIN s : ConsumedBy(payload[s[i]]) \subseteq consumed_outputs
  BY <1>6 DEF Elements
<1>9. consumed_outputs' \cap spent' = {}
  BY DEF BookInv, LedgerInv, UtxoPartition, MetaInv
<1>10. ASSUME NEW i \in DOMAIN s', NEW j \in DOMAIN s', i # j
       PROVE  ConsumedBy(payload'[s'[i]]) \cap ConsumedBy(payload'[s'[j]]) = {}
  <2>1. CASE i \in DOMAIN s /\ j \in DOMAIN s
    BY <1>5, <1>10, <2>1 DEF SpendInv, NoDoubleSpend
  <2>2. CASE i \notin DOMAIN s \/ j \notin DOMAIN s
    BY <1>3, <1>5, <1>8, <1>10, <2>2
  <2> QED  BY <2>1, <2>2
<1>11. NoDoubleSpend'  BY <1>9, <1>10 DEF NoDoubleSpend
<1>12. ConflictJustified'  BY <1>2, <1>5 DEF SpendInv, ConflictJustified
<1>13. /\ \A x \in Elements(s') : HasTransaction(x)'
       /\ \A x \in Elements(excluded_no_transaction_messages') : ~HasTransaction(x)'
       /\ \A c \in Elements(excluded_conflicting_messages') : HasTransaction(c[1])' /\ c[2] # "None"
  BY <1>1, <1>2, <1>5 DEF SpendInv, HasTransaction
<1> QED  BY <1>7, <1>11, <1>12, <1>13 DEF SpendInv

\* A message that is refused for a double spend loses to an included one.
LEMMA SpendExclude ==
  ASSUME BookInv, SpendInv, phase = "traverse", NEW m \in Messages,
         ExcludeNoTransaction(m) \/ ExcludeConflicting(m),
         UNCHANGED <<payload, phase, spent>>
  PROVE  SpendInv'
<1>1. UNCHANGED <<included_messages, consumed_outputs>>
  BY DEF ExcludeNoTransaction, ExcludeConflicting
<1>2. NoDoubleSpend'  BY <1>1 DEF SpendInv, NoDoubleSpend
<1>3. CASE ExcludeNoTransaction(m)
  <2>1. ~HasTransaction(m)  BY <1>3, TransactionOf DEF ExcludeNoTransaction, BookInv
  <2>2. /\ excluded_no_transaction_messages' = Append(excluded_no_transaction_messages, m)
        /\ UNCHANGED excluded_conflicting_messages
    BY <1>3 DEF ExcludeNoTransaction
  <2>3. Elements(excluded_no_transaction_messages')
          = Elements(excluded_no_transaction_messages) \cup {m}
    BY <2>2, ElementsAppend DEF BookInv, TypeInv, TypeOK
  <2>4. ConflictJustified'  BY <1>1, <2>2 DEF SpendInv, ConflictJustified
  <2> QED  BY <1>1, <1>2, <2>1, <2>2, <2>3, <2>4 DEF SpendInv, HasTransaction
<1>4. CASE ExcludeConflicting(m)
  <2> DEFINE s == excluded_conflicting_messages
  <2>1. HasTransaction(m) /\ Transaction(m) = payload[m] /\ payload[m] \in Transactions
    BY <1>4, TransactionOf DEF ExcludeConflicting, BookInv
  <2>2. PICK c \in Outcomes(payload[m]) \ {"None", "Error"} : s' = Append(s, <<m, c>>)
    BY <1>4, <2>1 DEF ExcludeConflicting
  <2>3. UNCHANGED excluded_no_transaction_messages  BY <1>4 DEF ExcludeConflicting
  <2>4. s \in Seq(Messages \X Conflicts) /\ <<m, c>> \in Messages \X Conflicts
    BY <2>1, <2>2, OutcomesCases DEF BookInv, TypeInv, TypeOK
  <2>5. /\ Elements(s') = Elements(s) \cup {<<m, c>>} /\ DOMAIN s' = DOMAIN s \cup {Len(s) + 1}
        /\ \A i \in DOMAIN s : s'[i] = s[i]
        /\ s'[Len(s) + 1] = <<m, c>>
    BY <2>2, <2>4, ElementsAppend
  <2>6. ASSUME c = "InputUtxoAlreadySpentInThisMilestone"
        PROVE  \E x \in Elements(included_messages) :
                 ConsumedBy(payload[x]) \cap ConsumedBy(payload[m]) # {}
    <3>1. ConsumedBy(payload[m]) \cap consumed_outputs # {}
      BY <2>1, <2>2, <2>6, OutcomesCases
    <3> QED  BY <3>1 DEF SpendInv
  <2>7. ConflictJustified'
    <3>1. ASSUME NEW i \in DOMAIN s', s'[i][2] = "InputUtxoAlreadySpentInThisMilestone"
          PROVE  \E x \in Elements(included_messages) :
                   ConsumedBy(payload[x]) \cap ConsumedBy(payload[s'[i][1]]) # {}
      <4>1. CASE i \in DOMAIN s  BY <2>5, <3>1, <4>1 DEF SpendInv, ConflictJustified
      <4>2. CASE i = Len(s) + 1
        <5>1. s'[i][1] = m /\ s'[i][2] = c  BY <2>5, <4>2
        <5> QED  BY <2>6, <3>1, <5>1
      <4> QED  BY <2>5, <4>1, <4>2
    <3> QED  BY <1>1, <3>1 DEF ConflictJustified
  <2>8. \A d \in Elements(s') : HasTransaction(d[1])' /\ d[2] # "None"
    BY <2>1, <2>2, <2>5 DEF SpendInv, HasTransaction
  <2> QED  BY <1>1, <1>2, <2>3, <2>7, <2>8 DEF SpendInv, HasTransaction
<1> QED  BY <1>3, <1>4

\* Every step justifies the spends.
LEMMA SpendNext == ASSUME BookInv, SpendInv, [Next]_vars  PROVE SpendInv'
<1>1. BookInv'  BY BookNext
<1>2. ASSUME phase' # "traverse"  PROVE SpendInv'  BY <1>2 DEF SpendInv
<1>3. ASSUME UNCHANGED <<metaVars, payload, spent>>, phase' = phase  PROVE SpendInv'
  BY <1>3 DEF SpendInv, NoDoubleSpend, ConflictJustified, HasTransaction, metaVars
<1>4. ASSUME NEW m \in Milestones, Confirm(m)  PROVE SpendInv'
  <2>1. /\ included_messages' = <<>> /\ excluded_conflicting_messages' = <<>>
        /\ excluded_no_transaction_messages' = <<>> /\ consumed_outputs' = {}
    BY <1>4 DEF Confirm
  <2>2. Elements(<<>>) = {} /\ DOMAIN <<>> = {}  BY ElementsEmpty
  <2> QED  BY <2>1, <2>2 DEF SpendInv, NoDoubleSpend, ConflictJustified
<1>5. CASE Apply
  <2>1. /\ UNCHANGED <<payload, phase, spent>> /\ phase = "traverse"
        /\ Top(message_ids) \in Messages
    BY <1>5, StackTypes DEF Apply, Traversing, tangleVars, ledgerVars, BookInv
  <2> QED  BY <1>1, <1>5, <2>1, SpendInclude, SpendExclude DEF Apply
<1>6. CASE Commit  BY <1>2, <1>6 DEF Commit
<1>7. ASSUME Panic  PROVE SpendInv'  BY <1>2, <1>7 DEF Panic
<1>8. CASE VisitReferenced \/ VisitEntryPoint \/ Descend \/ Restart
  BY <1>3, <1>8 DEF VisitReferenced, VisitEntryPoint, Descend, Restart, tangleVars, ledgerVars
<1>9. CASE MarkReferenced \/ Confirmed  BY <1>2, <1>9 DEF MarkReferenced, Confirmed
<1>10. CASE UNCHANGED vars  BY <1>3, <1>10 DEF vars, tangleVars, ledgerVars
<1> QED
  BY <1>4, <1>5, <1>6, <1>7, <1>8, <1>9, <1>10
  DEF Next, MilestoneMessageNotFound, NonContiguousMilestones, ApplyError, MissingMessage, ConfirmError

\* No output is ever spent twice, in one milestone or in two of them, and a
\* message is refused for a double spend in its milestone only if an included
\* one consumes the same output (apply_regular_essence).
THEOREM SpendsAreJustified == Spec => []SpendsJustified
<1>1. Init => BookInv /\ SpendInv  BY BookInit DEF Init, SpendInv
<1>2. BookInv /\ SpendInv /\ [Next]_vars => BookInv' /\ SpendInv'  BY BookNext, SpendNext
<1>3. SpendInv => SpendsJustified
  BY DEF SpendInv, SpendsJustified, NoDoubleSpend, ConflictJustified
<1> QED  BY <1>1, <1>2, <1>3, PTL DEF Spec

-----------------------------------------------------------------------------
(***************************************************************************)
(* The traversal.  What is applied is closed under the parents that are    *)
(* still open, and every set that is so closed and holds those of the      *)
(* milestone contains all that the traversal has met.                      *)
(***************************************************************************)
ConeInv ==
  phase = "traverse" =>
    /\ visited \cap Open = Elements(order)
    /\ Elements(order) =
         Elements(included_messages) \cup Elements(excluded_no_transaction_messages)
           \cup {c[1] : c \in Elements(excluded_conflicting_messages)}
    /\ Elements(ParentsOf(milestone)) \subseteq visited \cup Elements(message_ids)
    /\ \A x \in Elements(order) : OpenParents(x) \subseteq Elements(order)
    /\ \A S \in SUBSET Open :
         ClosedCone(milestone, S) => (Elements(message_ids) \cup visited) \cap Open \subseteq S
    /\ ParentsFirst

\* A message that is not applied is popped: it is not open.
LEMMA ConeSkip ==
  ASSUME TypeInv, ConeInv, VisitReferenced \/ VisitEntryPoint
  PROVE  ConeInv'
<1> DEFINE m == Top(message_ids)
<1>1. /\ phase = "traverse" /\ message_ids # <<>> /\ m \notin Open
      /\ visited' = visited \cup {m} /\ message_ids' = Pop(message_ids)
      /\ UNCHANGED <<tangleVars, flagVars, metaVars, phase, milestone>>
  BY DEF VisitReferenced, VisitEntryPoint, Traversing, Leave, Open
<1>2. Elements(message_ids) = Elements(message_ids') \cup {m}  BY <1>1, StackTypes
<1>3. /\ Open' = Open /\ ParentsFirst' /\ \A x : OpenParents(x)' = OpenParents(x)
      /\ \A x, S : ClosedCone(x, S)' = ClosedCone(x, S)
      /\ ParentsOf(milestone)' = ParentsOf(milestone)
  BY <1>1 DEF ConeInv, ParentsFirst, ClosedCone, OpenParents, Open, ParentsOf, tangleVars,
              flagVars, metaVars
<1> HIDE DEF m
<1> QED  BY <1>1, <1>2, <1>3 DEF ConeInv, metaVars

\* A parent that was not visited is pushed: it is in every closed set.
LEMMA ConeDescend ==
  ASSUME TypeInv, ConeInv, Descend
  PROVE  ConeInv'
<1> DEFINE m == Top(message_ids)
<1>1. /\ phase = "traverse" /\ message_ids # <<>> /\ m \in Open
      /\ UNCHANGED <<tangleVars, flagVars, metaVars, phase, milestone, visited>>
  BY DEF Descend, Traversing, Open
<1>2. m \in Messages /\ m \in Elements(message_ids) /\ ParentsOf(m) \in Seq(Messages)
  BY <1>1, StackTypes, ParentsType
<1>3. PICK i \in DOMAIN ParentsOf(m) : message_ids' = Append(message_ids, ParentsOf(m)[i])
  BY DEF Descend, Unvisited
<1> DEFINE p == ParentsOf(m)[i]
<1>4. p \in Messages /\ p \in Elements(ParentsOf(m))  BY <1>2, <1>3 DEF Elements
<1> HIDE DEF p, m
<1>5. Elements(message_ids') = Elements(message_ids) \cup {p}
  BY <1>3, <1>4, ElementsAppend DEF TypeInv, TypeOK, p
<1>6. /\ Open' = Open /\ ParentsFirst' /\ \A x : OpenParents(x)' = OpenParents(x)
      /\ \A x, S : ClosedCone(x, S)' = ClosedCone(x, S)
      /\ ParentsOf(milestone)' = ParentsOf(milestone)
  BY <1>1 DEF ConeInv, ParentsFirst, ClosedCone, OpenParents, Open, ParentsOf, tangleVars,
              flagVars, metaVars
<1>7. ASSUME NEW S \in SUBSET Open, ClosedCone(milestone, S), p \in Open  PROVE p \in S
  <2>1. m \in S  BY <1>1, <1>2, <1>7 DEF ConeInv
  <2> QED  BY <1>4, <1>7, <2>1 DEF ClosedCone, OpenParents
<1> QED  BY <1>1, <1>5, <1>6, <1>7 DEF ConeInv, metaVars

\* A message is applied when none of its parents is left: they come first.
LEMMA ConeApply ==
  ASSUME TypeInv, ConeInv, Apply
  PROVE  ConeInv'
<1> DEFINE m == Top(message_ids)
<1>1. /\ phase = "traverse" /\ message_ids # <<>> /\ m \in Open /\ Unvisited(m) = {}
      /\ visited' = visited \cup {m} /\ message_ids' = Pop(message_ids)
      /\ order' = Append(order, m)
      /\ UNCHANGED <<tangleVars, flagVars, phase, milestone>>
  BY DEF Apply, Traversing, Leave, Open, Ready
<1>2. /\ Elements(message_ids) = Elements(message_ids') \cup {m} /\ m \in Messages
      /\ ParentsOf(m) \in Seq(Messages)
  BY <1>1, StackTypes, ParentsType
<1>3. /\ Open' = Open /\ \A x : OpenParents(x)' = OpenParents(x)
      /\ \A x, S : ClosedCone(x, S)' = ClosedCone(x, S)
      /\ ParentsOf(milestone)' = ParentsOf(milestone)
  BY <1>1 DEF ClosedCone, OpenParents, Open, ParentsOf, tangleVars, flagVars
<1>4. OpenParents(m) \subseteq Elements(order)
  BY <1>1 DEF Unvisited, OpenParents, Elements, ConeInv
<1>5. /\ order \in Seq(Messages) /\ DOMAIN order = 1 .. Len(order) /\ Len(order) \in Nat
      /\ Elements(order') = Elements(order) \cup {m}
      /\ DOMAIN order' = DOMAIN order \cup {Len(order) + 1}
      /\ \A i \in DOMAIN order : order'[i] = order[i]
      /\ order'[Len(order) + 1] = m
  BY <1>1, <1>2, ElementsAppend DEF TypeInv, TypeOK
<1>6. Elements(included_messages') \cup Elements(excluded_no_transaction_messages')
        \cup {c[1] : c \in Elements(excluded_conflicting_messages')}
      = (Elements(included_messages) \cup Elements(excluded_no_transaction_messages)
          \cup {c[1] : c \in Elements(excluded_conflicting_messages)}) \cup {m}
  <2> HIDE DEF m
  <2>1. CASE ExcludeNoTransaction(m)
    BY <1>2, <2>1, ElementsAppend DEF ExcludeNoTransaction, TypeInv, TypeOK
  <2>2. CASE Include(m)
    <3>1. Elements(included_messages') = Elements(included_messages) \cup {m}
      BY <1>2, <2>2, ElementsAppend DEF Include, TypeInv, TypeOK
    <3> QED  BY <2>2, <3>1 DEF Include
  <2>3. CASE ExcludeConflicting(m)
    <3> DEFINE s == excluded_conflicting_messages
    <3>1. Transaction(m) \in Transactions  BY <2>3, TransactionOf DEF ExcludeConflicting
    <3>2. PICK c \in Outcomes(Transaction(m)) \ {"None", "Error"} : s' = Append(s, <<m, c>>)
      BY <2>3 DEF ExcludeConflicting
    <3>3. <<m, c>> \in Messages \X Conflicts /\ s \in Seq(Messages \X Conflicts)
      BY <1>2, <3>1, <3>2, OutcomesCases DEF TypeInv, TypeOK
    <3>4. Elements(s') = Elements(s) \cup {<<m, c>>}  BY <3>2, <3>3, ElementsAppend
    <3>5. UNCHANGED <<included_messages, excluded_no_transaction_messages>>
      BY <2>3 DEF ExcludeConflicting
    <3>6. {x[1] : x \in Elements(s')} = {x[1] : x \in Elements(s)} \cup {m}
      <4> DEFINE e == <<m, c>>
      <4>1. e[1] = m /\ Elements(s') = Elements(s) \cup {e}  BY <3>4
      <4> HIDE DEF e
      <4> QED  BY <4>1
    <3> QED  BY <3>5, <3>6
  <2> QED  BY <2>1, <2>2, <2>3 DEF Apply, m
<1> HIDE DEF m
<1>7. ParentsFirst'
  <2> SUFFICES ASSUME NEW i \in DOMAIN order', NEW p \in OpenParents(order'[i])
               PROVE  \E j \in 1 .. i - 1 : order'[j] = p
    BY <1>3 DEF ParentsFirst
  <2>1. CASE i \in DOMAIN order
    <3>1. PICK j \in 1 .. i - 1 : order[j] = p
      BY <1>1, <1>5, <2>1 DEF ConeInv, ParentsFirst
    <3>2. j \in DOMAIN order  BY <1>5, <2>1, <3>1
    <3> QED  BY <1>5, <3>1, <3>2
  <2>2. CASE i = Len(order) + 1
    <3>1. PICK j \in DOMAIN order : order[j] = p  BY <1>4, <1>5, <2>2 DEF Elements
    <3>2. j \in 1 .. i - 1  BY <1>5, <2>2, <3>1
    <3> QED  BY <1>5, <3>1, <3>2
  <2> QED  BY <1>5, <2>1, <2>2
<1>8. \A x \in Elements(order') : OpenParents(x) \subseteq Elements(order')
  BY <1>1, <1>4, <1>5 DEF ConeInv
<1>9. visited' \cap Open' = Elements(order')
  BY <1>1, <1>3, <1>5 DEF ConeInv
<1> QED  BY <1>1, <1>2, <1>3, <1>5, <1>6, <1>7, <1>8, <1>9 DEF ConeInv

\* Every step keeps the order of the past cone.
LEMMA ConeNext == ASSUME TypeInv, ConeInv, [Next]_vars  PROVE ConeInv'
<1>1. ASSUME phase' # "traverse"  PROVE ConeInv'  BY <1>1 DEF ConeInv
<1>2. ASSUME NEW m \in Milestones, Confirm(m)  PROVE ConeInv'
  <2>1. /\ included_messages' = <<>> /\ excluded_conflicting_messages' = <<>>
        /\ excluded_no_transaction_messages' = <<>> /\ order' = <<>> /\ visited' = {}
        /\ milestone' = m /\ message_ids' = Backwards(ParentsOf(m))
        /\ UNCHANGED <<tangleVars, flagVars>>
    BY <1>2 DEF Confirm
  <2>2. Elements(<<>>) = {} /\ DOMAIN <<>> = {}  BY ElementsEmpty
  <2>3. Elements(message_ids') = Elements(ParentsOf(m))
    BY <2>1, ParentsType, ElementsBackwards, WhiteFlagAssumption
  <2>4. ParentsOf(m)' = ParentsOf(m) /\ Open' = Open
    BY <2>1 DEF ParentsOf, Open, tangleVars, flagVars
  <2>5. ParentsFirst'  BY <2>1, <2>2 DEF ParentsFirst
  <2>6. \A S : ClosedCone(m, S)' => Elements(ParentsOf(m)) \cap Open \subseteq S
    BY <2>4 DEF ClosedCone, OpenParents
  <2>7. ParentsOf(milestone)' = ParentsOf(m)
    BY <2>1 DEF ParentsOf, tangleVars
  <2>8. \A S : ClosedCone(milestone, S)' = ClosedCone(m, S)'
    BY <2>1 DEF ClosedCone, OpenParents, ParentsOf, Open
  <2> QED  BY <2>1, <2>2, <2>3, <2>4, <2>5, <2>6, <2>7, <2>8 DEF ConeInv
<1>3. CASE Commit  BY <1>1, <1>3 DEF Commit
<1>4. ASSUME Panic  PROVE ConeInv'  BY <1>1, <1>4 DEF Panic
<1>5. CASE MarkReferenced \/ Confirmed \/ Restart
  BY <1>1, <1>5 DEF MarkReferenced, Confirmed, Restart
<1>6. CASE UNCHANGED vars
  BY <1>6 DEF vars, ConeInv, ParentsFirst, ClosedCone, OpenParents, Open, ParentsOf, tangleVars,
              flagVars, metaVars
<1> QED
  BY <1>2, <1>3, <1>4, <1>5, <1>6, ConeSkip, ConeDescend, ConeApply
  DEF Next, MilestoneMessageNotFound, NonContiguousMilestones, ApplyError, MissingMessage, ConfirmError

\* When the stack is empty the messages applied are the past cone.
LEMMA ConeComplete == ASSUME TypeInv, ConeInv  PROVE PastConeApplied
<1> SUFFICES ASSUME phase = "traverse", message_ids = <<>>
             PROVE  Elements(order) = PastCone(milestone)
  BY DEF PastConeApplied
<1>1. Elements(message_ids) = {}  BY ElementsEmpty
<1>2. Elements(order) \subseteq Open  BY DEF ConeInv
<1>3. ClosedCone(milestone, Elements(order))
  BY <1>1 DEF ClosedCone, OpenParents, ConeInv
<1>4. \A S \in SUBSET Open : ClosedCone(milestone, S) => Elements(order) \subseteq S
  BY DEF ConeInv
<1>5. PastCone(milestone)
        = {x \in Open : \A S \in {T \in SUBSET Open : ClosedCone(milestone, T)} : x \in S}
  BY DEF PastCone
<1> QED  BY <1>2, <1>3, <1>4, <1>5

\* The traversal applies exactly the past cone of the milestone, however the
\* messages approve each other, and a message after its parents.
THEOREM ConeAppliedInOrder == Spec => [](PastConeApplied /\ ParentsFirst)
<1>1. Init => TypeInv /\ ConeInv  BY TypeInit DEF Init, ConeInv
<1>2. TypeInv /\ ConeInv /\ [Next]_vars => TypeInv' /\ ConeInv'  BY TypeNext, ConeNext
<1>3. TypeInv /\ ConeInv => PastConeApplied /\ ParentsFirst
  BY ConeComplete DEF ConeInv, ParentsFirst
<1> QED  BY <1>1, <1>2, <1>3, PTL DEF Spec

-----------------------------------------------------------------------------
(***************************************************************************)
(* The flags.  A message may be applied twice, if two messages approve it: *)
(* its transaction is included and later conflicts with itself.  So what   *)
(* counts is the last of the updates of a message that are still to come.  *)
(***************************************************************************)
Named == {c[1] : c \in Elements(marking)}

Last(s, i) == \A j \in DOMAIN s : j > i => s[j][1] # s[i][1]

EndsInNone(s, m) == \E i \in DOMAIN s : s[i][1] = m /\ s[i][2] = "None" /\ Last(s, i)

\* The message is, or will be when the updates are made, flagged as
\* referenced and free of conflict.
FinallyNone(m) ==
  IF m \in Named THEN EndsInNone(marking, m) ELSE m \in referenced /\ conflict[m] = "None"

Spenders == {m \in DOMAIN payload : payload[m] # None /\ FinallyNone(m)}

FlagInv ==
  /\ phase # "mark" => marking = <<>>
  /\ spent = UNION {ConsumedBy(payload[m]) : m \in Spenders}
  /\ \A m \in referenced \cup Named :
       Elements(ParentsOf(m)) \cap known \subseteq referenced \cup Named

\* The updates name the messages of the milestone and end with the included.
LEMMA MarksEnd ==
  ASSUME TypeInv, SpendInv, phase = "traverse"
  PROVE  /\ {c[1] : c \in Elements(Marks)} =
              Elements(included_messages) \cup Elements(excluded_no_transaction_messages)
                \cup {c[1] : c \in Elements(excluded_conflicting_messages)} \cup {milestone}
         /\ \A m \in Messages : HasTransaction(m) =>
              (EndsInNone(Marks, m) <=> m \in Elements(included_messages))
<1> DEFINE A == WithoutConflict(Append(excluded_no_transaction_messages, milestone))
           B == excluded_conflicting_messages
           C == WithoutConflict(included_messages)
           P == Messages \X Conflicts
<1>1. milestone \in Milestones /\ milestone \in Messages
  BY WhiteFlagAssumption DEF TypeInv
<1>2. /\ Append(excluded_no_transaction_messages, milestone) \in Seq(Messages)
      /\ Elements(Append(excluded_no_transaction_messages, milestone))
           = Elements(excluded_no_transaction_messages) \cup {milestone}
  BY <1>1, ElementsAppend DEF TypeInv, TypeOK
<1> DEFINE Names(W, X) == /\ W \in Seq(P) /\ Len(W) \in Nat
                          /\ \A i \in 1 .. Len(W) : W[i][2] = "None"
                          /\ \A x : (\E i \in 1 .. Len(W) : W[i][1] = x) <=> x \in X
<1>3. ASSUME NEW s \in Seq(Messages), NEW W, W = WithoutConflict(s)
      PROVE  Names(W, Elements(s))
  <2>1. DOMAIN s = 1 .. Len(s) /\ Len(s) \in Nat  OBVIOUS
  <2>2. W \in Seq(P) /\ Len(W) = Len(s) /\ \A i \in 1 .. Len(s) : W[i] = <<s[i], "None">>
    BY <1>3, WithoutConflictType
  <2>3. \A i \in 1 .. Len(s) : W[i][1] = s[i] /\ W[i][2] = "None"  BY <2>2
  <2>4. \A x : (\E i \in 1 .. Len(s) : W[i][1] = x) <=> x \in Elements(s)
    BY <2>1, <2>3 DEF Elements
  <2> HIDE DEF P
  <2> QED  BY <2>1, <2>2, <2>3, <2>4
<1> HIDE DEF Names, P
<1>4. Names(A, Elements(excluded_no_transaction_messages) \cup {milestone})
  <2>1. Names(A, Elements(Append(excluded_no_transaction_messages, milestone)))  BY <1>2, <1>3
  <2> QED  BY <1>2, <2>1
<1>5. Names(C, Elements(included_messages))
  BY <1>3 DEF TypeInv, TypeOK
<1> USE DEF Names
<1>6. /\ B \in Seq(P) /\ Len(B) \in Nat /\ DOMAIN B = 1 .. Len(B)
      /\ \A i \in 1 .. Len(B) : HasTransaction(B[i][1]) /\ B[i][2] # "None"
  BY DEF TypeInv, TypeOK, SpendInv, Elements, P
<1>7. \A x : HasTransaction(x) => x \notin Elements(excluded_no_transaction_messages) \cup {milestone}
  BY <1>1, TransactionOf DEF SpendInv
<1>8. Marks = A \o B \o C  BY DEF Marks
<1> HIDE DEF A, B, C, P
<1> DEFINE M == A \o B \o C
           a == Len(A)
           b == Len(B)
           c == Len(C)
<1>9. /\ M \in Seq(P) /\ DOMAIN M = 1 .. a + b + c
      /\ \A i \in 1 .. a : M[i] = A[i]
      /\ \A i \in 1 .. b : M[a + i] = B[i]
      /\ \A i \in 1 .. c : M[a + b + i] = C[i]
  <2>1. A \o B \in Seq(P) /\ Len(A \o B) = a + b /\ M \in Seq(P) /\ Len(M) = a + b + c
    BY <1>4, <1>5, <1>6
  <2>2. \A i \in 1 .. a + b : (A \o B)[i] = IF i <= a THEN A[i] ELSE B[i - a]
    BY <1>4, <1>6
  <2>3. \A i \in 1 .. a + b + c : M[i] = IF i <= a + b THEN (A \o B)[i] ELSE C[i - (a + b)]
    BY <1>4, <1>5, <1>6, <2>1
  <2>4. a \in Nat /\ b \in Nat /\ c \in Nat /\ DOMAIN M = 1 .. a + b + c
    BY <1>4, <1>5, <1>6, <2>1
  <2> HIDE DEF M, a, b, c
  <2>5. ASSUME NEW i \in 1 .. a  PROVE M[i] = A[i]
    <3>1. i \in 1 .. a + b /\ i \in 1 .. a + b + c /\ i <= a + b /\ i <= a  BY <2>4
    <3> QED  BY <2>2, <2>3, <3>1
  <2>6. ASSUME NEW i \in 1 .. b  PROVE M[a + i] = B[i]
    <3> DEFINE k == a + i
    <3>1. /\ k \in 1 .. a + b /\ k \in 1 .. a + b + c /\ k <= a + b /\ ~(k <= a) /\ k - a = i
      BY <2>4
    <3> HIDE DEF k
    <3>2. M[k] = (A \o B)[k] /\ (A \o B)[k] = B[k - a]  BY <2>2, <2>3, <3>1
    <3> QED  BY <3>1, <3>2 DEF k
  <2>7. ASSUME NEW i \in 1 .. c  PROVE M[a + b + i] = C[i]
    <3> DEFINE k == a + b + i
    <3>1. k \in 1 .. a + b + c /\ ~(k <= a + b) /\ k - (a + b) = i  BY <2>4
    <3> HIDE DEF k
    <3>2. M[k] = C[k - (a + b)]  BY <2>3, <3>1
    <3> QED  BY <3>1, <3>2 DEF k
  <2> QED  BY <2>1, <2>4, <2>5, <2>6, <2>7
<1>10. a \in Nat /\ b \in Nat /\ c \in Nat  BY <1>4, <1>5, <1>6
<1> HIDE DEF M, a, b, c
<1>11. ASSUME NEW i \in 1 .. a + b + c
       PROVE  i \in 1 .. a \/ i - a \in 1 .. b \/ i - a - b \in 1 .. c
  BY <1>10
<1>12. ASSUME NEW i \in 1 .. a + b + c
       PROVE  \/ i \in 1 .. a /\ M[i] = A[i]
              \/ i - a \in 1 .. b /\ M[i] = B[i - a]
              \/ i - a - b \in 1 .. c /\ M[i] = C[i - a - b]
  <2>1. a + (i - a) = i /\ a + b + (i - a - b) = i  BY <1>10
  <2> QED  BY <1>9, <1>11, <2>1
<1>13. /\ \A i \in 1 .. a : i \in 1 .. a + b + c
       /\ \A i \in 1 .. b : a + i \in 1 .. a + b + c
       /\ \A i \in 1 .. c : a + b + i \in 1 .. a + b + c
  BY <1>10
<1>14. /\ \A i \in 1 .. a : M[i] \in Elements(M)
       /\ \A i \in 1 .. b : M[a + i] \in Elements(M)
       /\ \A i \in 1 .. c : M[a + b + i] \in Elements(M)
  BY <1>9, <1>13 DEF Elements
<1>15. Elements(M) = {A[i] : i \in 1 .. a} \cup {B[i] : i \in 1 .. b} \cup {C[i] : i \in 1 .. c}
  <2>1. Elements(M) \subseteq {A[i] : i \in 1 .. a} \cup {B[i] : i \in 1 .. b} \cup {C[i] : i \in 1 .. c}
    BY <1>9, <1>12 DEF Elements
  <2>2. {A[i] : i \in 1 .. a} \cup {B[i] : i \in 1 .. b} \cup {C[i] : i \in 1 .. c} \subseteq Elements(M)
    BY <1>9, <1>14
  <2> QED  BY <2>1, <2>2
<1>16. {x[1] : x \in Elements(M)} =
         Elements(included_messages) \cup Elements(excluded_no_transaction_messages)
           \cup {x[1] : x \in Elements(B)} \cup {milestone}
  <2>1. {x[1] : x \in {A[i] : i \in 1 .. a}}
          = Elements(excluded_no_transaction_messages) \cup {milestone}
    BY <1>4 DEF a
  <2>2. {x[1] : x \in {C[i] : i \in 1 .. c}} = Elements(included_messages)  BY <1>5 DEF c
  <2>3. {B[i] : i \in 1 .. b} = Elements(B)  BY <1>6 DEF b, Elements
  <2> QED  BY <1>15, <2>1, <2>2, <2>3
<1>17. ASSUME NEW m \in Messages, HasTransaction(m), m \in Elements(included_messages)
       PROVE  EndsInNone(M, m)
  <2> DEFINE at == {i \in 1 .. a + b + c : M[i][1] = m}
  <2>1. PICK k \in 1 .. c : C[k][1] = m  BY <1>5, <1>17 DEF c
  <2>2. a + b + k \in at  BY <1>9, <1>13, <2>1
  <2>3. PICK i \in at : \A j \in at : j <= i
    <3>1. at \in SUBSET (1 .. a + b + c) /\ a + b + c \in Nat /\ at # {}  BY <1>10, <2>2
    <3> HIDE DEF at
    <3> QED  BY <3>1, GreatestPosition
  <2>4. a + b + k <= i /\ i \in 1 .. a + b + c  BY <2>2, <2>3
  <2>5. ~(i \in 1 .. a) /\ ~(i - a \in 1 .. b)  BY <1>10, <2>1, <2>4
  <2>6. i - a - b \in 1 .. c /\ M[i] = C[i - a - b]  BY <1>12, <2>4, <2>5
  <2>7. M[i][2] = "None"  BY <1>5, <2>6 DEF c
  <2>8. Last(M, i)
    <3> SUFFICES ASSUME NEW j \in DOMAIN M, j > i, M[j][1] = M[i][1]  PROVE FALSE
      BY DEF Last
    <3>1. j \in at /\ j \in 1 .. a + b + c  BY <1>9, <2>3
    <3> HIDE DEF at
    <3>2. j <= i  BY <2>3, <3>1
    <3> QED  BY <1>10, <2>4, <3>1, <3>2
  <2> QED  BY <1>9, <2>3, <2>4, <2>7, <2>8 DEF EndsInNone
<1>18. ASSUME NEW m \in Messages, HasTransaction(m), EndsInNone(M, m)
       PROVE  m \in Elements(included_messages)
  <2>1. PICK i \in DOMAIN M : M[i][1] = m /\ M[i][2] = "None"  BY <1>18 DEF EndsInNone
  <2>2. ~(i \in 1 .. a /\ M[i] = A[i])
    <3> SUFFICES ASSUME i \in 1 .. a, A[i][1] = m  PROVE FALSE  BY <2>1
    <3>1. m \in Elements(excluded_no_transaction_messages) \cup {milestone}  BY <1>4 DEF a
    <3> QED  BY <1>7, <1>18, <3>1
  <2>3. ~(i - a \in 1 .. b /\ M[i] = B[i - a])  BY <1>6, <2>1 DEF b
  <2>4. i - a - b \in 1 .. c /\ M[i] = C[i - a - b]  BY <1>9, <1>12, <2>2, <2>3
  <2> QED  BY <1>5, <2>1, <2>4 DEF c
<1>19. Marks = M  BY <1>8 DEF M
<1> QED  BY <1>16, <1>17, <1>18, <1>19 DEF B

\* A commit adds what the included messages consume to the spent outputs and
\* the messages of the milestone to those that are, or will be, referenced.
LEMMA FlagCommit ==
  ASSUME TypeInv, SpendInv, ConeInv, FlagInv, Commit
  PROVE  FlagInv'
<1>1. /\ phase = "traverse" /\ phase' = "mark" /\ message_ids = <<>> /\ marking' = Marks
      /\ UNCHANGED <<tangleVars, flagVars>> /\ spent' = spent \cup consumed_outputs
  BY DEF Commit, ApplyMilestone
<1>2. marking = <<>> /\ Named = {}  BY <1>1, ElementsEmpty DEF FlagInv, Named
<1>3. milestone \in Milestones  BY <1>1 DEF TypeInv
<1>4. Named' = Elements(order) \cup {milestone}
  BY <1>1, MarksEnd DEF Named, ConeInv
<1>5. Elements(order) \subseteq Open  BY <1>1 DEF ConeInv
<1>6. ASSUME NEW m, HasTransaction(m)
      PROVE  /\ FinallyNone(m) <=> m \in referenced /\ conflict[m] = "None"
             /\ FinallyNone(m)' <=> FinallyNone(m) \/ m \in Elements(included_messages)
  <2>1. m \in Messages \ Milestones  BY <1>6, TransactionOf
  <2>2. FinallyNone(m) <=> m \in referenced /\ conflict[m] = "None"  BY <1>2 DEF FinallyNone
  <2>3. EndsInNone(Marks, m) <=> m \in Elements(included_messages)
    BY <1>1, <1>6, <2>1, MarksEnd
  <2>4. Elements(included_messages) \subseteq Elements(order)  BY <1>1 DEF ConeInv
  <2>5. CASE m \in Elements(order)
    <3>1. FinallyNone(m)' <=> EndsInNone(Marks, m)  BY <1>1, <1>4, <2>5 DEF FinallyNone
    <3>2. m \notin referenced  BY <1>5, <2>5 DEF Open
    <3> QED  BY <2>2, <2>3, <3>1, <3>2
  <2>6. CASE m \notin Elements(order)
    <3>1. m \notin Named'  BY <1>3, <1>4, <2>1, <2>6
    <3>2. FinallyNone(m)' <=> m \in referenced /\ conflict[m] = "None"
      BY <1>1, <3>1 DEF FinallyNone, flagVars
    <3> QED  BY <2>2, <2>4, <2>6, <3>2
  <2> QED  BY <2>2, <2>5, <2>6
<1>7. Spenders' = Spenders \cup Elements(included_messages)
  <2>1. payload' = payload  BY <1>1 DEF tangleVars
  <2>2. \A m \in Elements(included_messages) : HasTransaction(m)  BY <1>1 DEF SpendInv
  <2>3. \A m : m \in Spenders <=> HasTransaction(m) /\ FinallyNone(m)
    BY DEF Spenders, HasTransaction
  <2>4. \A m : m \in Spenders' <=> HasTransaction(m) /\ FinallyNone(m)'
    BY <2>1 DEF Spenders, HasTransaction
  <2> QED  BY <1>6, <2>2, <2>3, <2>4
<1>8. spent' = UNION {ConsumedBy(payload'[m]) : m \in Spenders'}
  <2>1. consumed_outputs = UNION {ConsumedBy(payload[m]) : m \in Elements(included_messages)}
    BY <1>1 DEF SpendInv
  <2>2. payload' = payload  BY <1>1 DEF tangleVars
  <2> QED  BY <1>1, <1>7, <2>1, <2>2 DEF FlagInv
<1>9. ASSUME NEW m \in referenced \cup Named'
      PROVE  Elements(ParentsOf(m)) \cap known \subseteq referenced \cup Named'
  <2>1. CASE m \in referenced  BY <1>2, <2>1 DEF FlagInv
  <2>2. CASE m \in Elements(order)
    <3>1. OpenParents(m) \subseteq Elements(order)  BY <1>1, <2>2 DEF ConeInv
    <3> QED  BY <1>4, <3>1 DEF OpenParents, Open
  <2>3. CASE m = milestone
    <3>1. Elements(message_ids) = {}  BY <1>1, ElementsEmpty
    <3>2. Elements(ParentsOf(m)) \subseteq visited  BY <1>1, <2>3, <3>1 DEF ConeInv
    <3> QED  BY <1>1, <1>4, <3>2 DEF ConeInv, Open
  <2> QED  BY <1>4, <1>9, <2>1, <2>2, <2>3
<1>10. \A m : ParentsOf(m)' = ParentsOf(m)  BY <1>1 DEF ParentsOf, tangleVars
<1> QED  BY <1>1, <1>8, <1>9, <1>10 DEF FlagInv, tangleVars, flagVars

\* The last update of a message is not changed by making the first one.
LEMMA EndsInNoneTail ==
  ASSUME NEW X, NEW s \in Seq(X), s # <<>>, NEW m
  PROVE  /\ EndsInNone(Tail(s), m) => EndsInNone(s, m)
         /\ EndsInNone(s, m) =>
              \/ EndsInNone(Tail(s), m)
              \/ /\ Head(s)[1] = m /\ Head(s)[2] = "None"
                 /\ \A c \in Elements(Tail(s)) : c[1] # m
<1> DEFINE n == Len(s)
           t == Tail(s)
<1>1. /\ DOMAIN s = 1 .. n /\ DOMAIN t = 1 .. n - 1 /\ n \in Nat \ {0}
      /\ s[1] = Head(s) /\ \A i \in 1 .. n - 1 : t[i] = s[i + 1]
  BY ElementsTail
<1> HIDE DEF n, t
<1>2. \A i \in 1 .. n - 1 : i + 1 \in 1 .. n  BY <1>1
<1>3. \A i \in 1 .. n : i # 1 => i - 1 \in 1 .. n - 1 /\ i - 1 + 1 = i  BY <1>1
<1>4. \A i \in 1 .. n : i # 1 => t[i - 1] = s[i]  BY <1>1, <1>3
<1>5. ASSUME EndsInNone(t, m)  PROVE EndsInNone(s, m)
  <2>1. PICK i \in 1 .. n - 1 : t[i][1] = m /\ t[i][2] = "None" /\ Last(t, i)
    BY <1>1, <1>5 DEF EndsInNone
  <2>2. i + 1 \in DOMAIN s /\ s[i + 1] = t[i]  BY <1>1, <1>2
  <2>3. ASSUME NEW j \in DOMAIN s, j > i + 1  PROVE s[j][1] # s[i + 1][1]
    <3>1. j # 1 /\ j - 1 > i /\ j - 1 \in DOMAIN t /\ j \in 1 .. n  BY <1>1, <1>3, <2>3
    <3>2. t[j - 1] = s[j]  BY <1>4, <3>1
    <3>3. t[j - 1][1] # t[i][1]  BY <2>1, <3>1 DEF Last
    <3> QED  BY <2>2, <3>2, <3>3
  <2>4. Last(s, i + 1)  BY <2>3 DEF Last
  <2> QED  BY <2>1, <2>2, <2>4 DEF EndsInNone
<1>6. ASSUME EndsInNone(s, m)
      PROVE  \/ EndsInNone(t, m)
             \/ Head(s)[1] = m /\ Head(s)[2] = "None" /\ \A c \in Elements(t) : c[1] # m
  <2>1. PICK i \in 1 .. n : s[i][1] = m /\ s[i][2] = "None" /\ Last(s, i)
    BY <1>1, <1>6 DEF EndsInNone
  <2>2. CASE i = 1
    <3>1. ASSUME NEW j \in 1 .. n - 1  PROVE t[j][1] # m
      <4>1. j + 1 > i /\ j + 1 \in DOMAIN s /\ t[j] = s[j + 1]  BY <1>1, <1>2, <2>2
      <4> QED  BY <2>1, <4>1 DEF Last
    <3> QED  BY <1>1, <2>1, <2>2, <3>1 DEF Elements
  <2>3. CASE i # 1
    <3>1. i - 1 \in DOMAIN t /\ t[i - 1] = s[i]  BY <1>1, <1>3, <1>4, <2>3
    <3>2. ASSUME NEW j \in DOMAIN t, j > i - 1  PROVE t[j][1] # t[i - 1][1]
      <4>1. j + 1 > i /\ j + 1 \in DOMAIN s /\ t[j] = s[j + 1]  BY <1>1, <1>2, <3>2
      <4> QED  BY <2>1, <3>1, <4>1 DEF Last
    <3>3. Last(t, i - 1)  BY <3>2 DEF Last
    <3> QED  BY <2>1, <3>1, <3>3 DEF EndsInNone
  <2> QED  BY <2>2, <2>3
<1> QED  BY <1>5, <1>6 DEF t

\* An update of metadata leaves what the updates lead to unchanged.
LEMMA FlagMark ==
  ASSUME TypeInv, FlagInv, MarkReferenced
  PROVE  FlagInv'
<1> DEFINE h == Head(marking)
<1>1. /\ phase = "mark" /\ phase' = phase /\ marking # <<>> /\ marking' = Tail(marking)
      /\ referenced' = referenced \cup {h[1]}
      /\ conflict' = [conflict EXCEPT ![h[1]] = h[2]]
      /\ UNCHANGED <<ledgerVars, tangleVars>>
  BY DEF MarkReferenced
<1>2. /\ h \in Messages \X Conflicts /\ Elements(marking) = {h} \cup Elements(marking')
      /\ marking \in Seq(Messages \X Conflicts) /\ h = marking[1]
  BY <1>1, ElementsTail DEF TypeInv, TypeOK
<1>3. h[1] \in Messages /\ conflict \in [Messages -> Conflicts]
  BY <1>2 DEF TypeInv, TypeOK
<1> HIDE DEF h
<1>4. Named = Named' \cup {h[1]}  BY <1>2 DEF Named
<1>5. conflict'[h[1]] = h[2] /\ \A m \in Messages : m # h[1] => conflict'[m] = conflict[m]
  BY <1>1, <1>3
<1>6. ASSUME NEW m \in Messages  PROVE FinallyNone(m)' <=> FinallyNone(m)
  <2>1. EndsInNone(marking', m) => EndsInNone(marking, m)
    BY <1>1, <1>2, EndsInNoneTail
  <2>2. EndsInNone(marking, m) =>
          EndsInNone(marking', m) \/ (h[1] = m /\ h[2] = "None" /\ m \notin Named')
    BY <1>1, <1>2, EndsInNoneTail DEF h, Named
  <2>3. CASE m \in Named'
    BY <1>4, <2>1, <2>2, <2>3 DEF FinallyNone
  <2>4. CASE m \notin Named' /\ m = h[1]
    <3>1. FinallyNone(m) <=> EndsInNone(marking, m)  BY <1>4, <2>4 DEF FinallyNone
    <3>2. FinallyNone(m)' <=> h[2] = "None"  BY <1>1, <1>5, <2>4 DEF FinallyNone
    <3>3. ~EndsInNone(marking', m)  BY <2>4 DEF EndsInNone, Named, Elements
    <3>4. ASSUME h[2] = "None"  PROVE EndsInNone(marking, m)
      <4>1. 1 \in DOMAIN marking /\ marking[1] = h /\ DOMAIN marking = 1 .. Len(marking)
        BY <1>1, <1>2, ElementsTail
      <4>2. ASSUME NEW j \in DOMAIN marking, j > 1  PROVE marking[j][1] # marking[1][1]
        <5>1. /\ DOMAIN Tail(marking) = 1 .. Len(marking) - 1 /\ Len(marking) \in Nat
              /\ \A i \in 1 .. Len(marking) - 1 : Tail(marking)[i] = marking[i + 1]
          BY <1>1, <1>2, ElementsTail
        <5>2. j - 1 \in 1 .. Len(marking) - 1 /\ j - 1 + 1 = j  BY <4>1, <4>2, <5>1
        <5>3. marking'[j - 1] = marking[j] /\ j - 1 \in DOMAIN marking'
          BY <1>1, <5>1, <5>2
        <5>4. marking[j][1] \in Named'  BY <5>3 DEF Named, Elements
        <5> QED  BY <2>4, <4>1, <5>4
      <4> QED  BY <2>4, <3>4, <4>1, <4>2 DEF EndsInNone, Last
    <3> QED  BY <2>2, <3>1, <3>2, <3>3, <3>4
  <2>5. CASE m \notin Named' /\ m # h[1]
    BY <1>1, <1>4, <1>5, <2>5 DEF FinallyNone
  <2> QED  BY <2>3, <2>4, <2>5
<1>7. Spenders' = Spenders
  <2>1. payload' = payload /\ DOMAIN payload \subseteq Messages
    BY <1>1 DEF tangleVars, TypeInv
  <2> QED  BY <1>6, <2>1 DEF Spenders
<1>8. spent' = UNION {ConsumedBy(payload'[m]) : m \in Spenders'}
  BY <1>1, <1>7 DEF FlagInv, tangleVars, ledgerVars
<1>9. referenced' \cup Named' = referenced \cup Named  BY <1>1, <1>4
<1>10. \A m : ParentsOf(m)' = ParentsOf(m)  BY <1>1 DEF ParentsOf, tangleVars
<1> QED  BY <1>1, <1>8, <1>9, <1>10 DEF FlagInv, tangleVars

\* Every step keeps the flags.
LEMMA FlagNext ==
  ASSUME TypeInv, SpendInv, ConeInv, FlagInv, [Next]_vars  PROVE FlagInv'
<1>1. ASSUME UNCHANGED <<spent, payload, dag, known, referenced, conflict, marking>>,
             phase # "mark" \/ phase' = phase \/ marking = <<>>
      PROVE  FlagInv'
  BY <1>1 DEF FlagInv, Spenders, FinallyNone, Named, ParentsOf
<1>2. ASSUME NEW m \in Milestones, Confirm(m)  PROVE FlagInv'
  BY <1>1, <1>2 DEF Confirm, ledgerVars, tangleVars, flagVars
<1>3. ASSUME Panic, phase # "mark"  PROVE FlagInv'
  BY <1>1, <1>3 DEF Panic, ledgerVars, tangleVars, flagVars
<1>4. CASE VisitReferenced \/ VisitEntryPoint
  BY <1>1, <1>4 DEF VisitReferenced, VisitEntryPoint, ledgerVars, tangleVars, flagVars
<1>5. CASE Descend \/ Apply
  BY <1>1, <1>5 DEF Descend, Apply, ledgerVars, tangleVars, flagVars
<1>6. CASE Confirmed \/ Restart
  BY <1>1, <1>6 DEF Confirmed, Restart, ledgerVars, tangleVars, flagVars
<1>7. CASE UNCHANGED vars  BY <1>1, <1>7 DEF vars, ledgerVars, tangleVars, flagVars
<1> QED
  BY <1>2, <1>3, <1>4, <1>5, <1>6, <1>7, FlagCommit, FlagMark
  DEF Next, MilestoneMessageNotFound, NonContiguousMilestones, ApplyError, MissingMessage, ConfirmError, Traversing

\* The flags say what FlagsFollowLedger asks.
LEMMA FlagImplies == ASSUME FlagInv  PROVE FlagsFollowLedger
<1> SUFFICES ASSUME phase = "idle"  PROVE FlagsFollowLedger
  BY DEF FlagsFollowLedger, LedgerFollowsFlags, ReferencedClosed
<1>1. Named = {}  BY ElementsEmpty DEF FlagInv, Named
<1>2. Spenders = {x \in referenced \cap DOMAIN payload : payload[x] # None /\ conflict[x] = "None"}
  BY <1>1 DEF Spenders, FinallyNone
<1> QED  BY <1>1, <1>2 DEF FlagInv, FlagsFollowLedger, LedgerFollowsFlags, ReferencedClosed

\* When the worker is idle the spent outputs are those of the messages that
\* are flagged as referenced and free of conflict, and the past cone of a
\* referenced message is referenced: the loops of confirm that update the
\* metadata tell what its batch did to the ledger.
THEOREM FlagsTellTheLedger == Spec => []FlagsFollowLedger
<1> DEFINE Inv == BookInv /\ SpendInv /\ ConeInv /\ FlagInv
<1>1. Init => Inv
  <2> SUFFICES ASSUME Init  PROVE Inv  OBVIOUS
  <2>1. marking = <<>> /\ referenced = {} /\ spent = {} /\ Named = {}
    BY ElementsEmpty DEF Init, Named
  <2>2. Spenders = {}  BY <2>1 DEF Spenders, FinallyNone
  <2>3. FlagInv  BY <2>1, <2>2 DEF FlagInv
  <2> QED  BY <2>3, BookInit DEF Init, SpendInv, ConeInv
<1>2. Inv /\ [Next]_vars => Inv'
  BY BookNext, SpendNext, ConeNext, FlagNext DEF BookInv
<1>3. Inv => FlagsFollowLedger  BY FlagImplies
<1> QED  BY <1>1, <1>2, <1>3, PTL DEF Spec

-----------------------------------------------------------------------------
(***************************************************************************)
(* The receipts.                                                           *)
(***************************************************************************)
ReceiptInv ==
  /\ \A r \in receipts : r.receipt \in Receipts /\ r.included_in \in Nat
  /\ \A r \in receipts : r.included_in <= ledger_index
  /\ restarts = 0 => \A r \in receipts : r.receipt.migrated_at <= receipt_migrated_at
  /\ ReceiptsInOrder

\* The receipt of a milestone is younger than all that the ledger has.
LEMMA ReceiptCommit ==
  ASSUME BookInv, ReceiptInv, Commit  PROVE ReceiptInv'
<1> DEFINE r == receipt[milestone]
<1>1. phase = "traverse" /\ milestone \in Milestones /\ restarts' = restarts
  BY DEF Commit, BookInv, TypeInv
<1>2. PICK t \in treasury : receipts' = receipts \cup {g.receipt : g \in Migration(milestone, t)}
  BY DEF Commit, ApplyMilestone
<1>3. /\ ledger_index' = Index[milestone] /\ Index[milestone] = ledger_index + 1
      /\ ledger_index \in Nat /\ ledger_index' \in Nat /\ receipt_migrated_at \in Nat
  BY <1>1 DEF Commit, ApplyMilestone, BookInv, MetaInv, TypeInv, TypeOK
<1>4. \A q \in Receipts : q.migrated_at \in Nat  BY ReceiptAssumption
<1>5. CASE r = None
  <2>1. receipts' = receipts /\ receipt_migrated_at' = receipt_migrated_at
    BY <1>2, <1>5 DEF Migration, Commit
  <2> QED  BY <1>1, <1>3, <2>1 DEF ReceiptInv, ReceiptsInOrder
<1>6. CASE r # None
  <2> DEFINE n == [receipt |-> r, included_in |-> Index[milestone]]
  <2>1. receipts' = receipts \cup {n}
    <3> DEFINE g == [receipt  |-> n, consumed |-> t,
                     created  |-> [amount |-> r.output, milestone |-> milestone]]
    <3>1. Migration(milestone, t) = {g} /\ g.receipt = n  BY <1>6 DEF Migration
    <3> HIDE DEF g, n
    <3> QED  BY <1>2, <3>1
  <2>2. /\ r \in Receipts /\ r.migrated_at \in Nat /\ r.migrated_at >= receipt_migrated_at
        /\ receipt_migrated_at' = r.migrated_at + IF r.last THEN 1 ELSE 0
    BY <1>1, <1>4, <1>6, FundsType DEF Commit, ConfirmChecks, BookInv
  <2>3. n.receipt = r /\ n.included_in = ledger_index + 1  BY <1>3
  <2> HIDE DEF n, r
  <2>4. receipt_migrated_at' \in Nat /\ receipt_migrated_at' >= r.migrated_at  BY <2>2
  <2>5. \A q \in receipts' : q.receipt \in Receipts /\ q.included_in \in Nat
                               /\ q.receipt.migrated_at \in Nat
    BY <1>3, <1>4, <2>1, <2>2, <2>3 DEF ReceiptInv
  <2>6. \A q \in receipts' : q.included_in <= ledger_index'
    BY <1>3, <2>1, <2>3, <2>5 DEF ReceiptInv
  <2>7. ASSUME restarts = 0, NEW q \in receipts
        PROVE  q.receipt.migrated_at <= r.migrated_at
    <3>1. q.receipt.migrated_at <= receipt_migrated_at /\ q.receipt.migrated_at \in Nat
      BY <2>1, <2>5, <2>7 DEF ReceiptInv
    <3> QED  BY <1>3, <2>2, <3>1
  <2>8. ASSUME restarts = 0, NEW q \in receipts'
        PROVE  q.receipt.migrated_at <= receipt_migrated_at'
    <3>1. q.receipt.migrated_at <= r.migrated_at /\ q.receipt.migrated_at \in Nat
      BY <2>1, <2>2, <2>3, <2>5, <2>7, <2>8
    <3> QED  BY <2>2, <2>4, <3>1
  <2>9. ASSUME restarts = 0, NEW p \in receipts', NEW q \in receipts',
               p.included_in < q.included_in
        PROVE  p.receipt.migrated_at <= q.receipt.migrated_at
    <3>1. CASE p \in receipts /\ q \in receipts
      BY <2>9, <3>1 DEF ReceiptInv, ReceiptsInOrder
    <3>2. CASE p \in receipts /\ q = n  BY <2>3, <2>7, <2>9, <3>2
    <3>3. CASE p = n
      <4>1. p.included_in = ledger_index + 1 /\ q.included_in <= ledger_index + 1
            /\ q.included_in \in Nat
        BY <1>3, <2>3, <2>5, <2>6, <3>3
      <4> QED  BY <1>3, <2>9, <4>1
    <3> QED  BY <2>1, <3>1, <3>2, <3>3
  <2> QED  BY <1>1, <2>5, <2>6, <2>8, <2>9 DEF ReceiptInv, ReceiptsInOrder
<1> QED  BY <1>5, <1>6

\* Every step keeps the order of the receipts.
LEMMA ReceiptNext == ASSUME BookInv, ReceiptInv, [Next]_vars  PROVE ReceiptInv'
<1>1. ASSUME UNCHANGED <<receipts, ledger_index, receipt_migrated_at, restarts>>
      PROVE  ReceiptInv'
  BY <1>1 DEF ReceiptInv, ReceiptsInOrder
<1>2. ASSUME NEW m \in Milestones, Confirm(m)  PROVE ReceiptInv'
  BY <1>1, <1>2 DEF Confirm, ledgerVars
<1>3. ASSUME Panic  PROVE ReceiptInv'  BY <1>1, <1>3 DEF Panic, ledgerVars
<1>4. CASE VisitReferenced \/ VisitEntryPoint \/ Descend \/ Apply
  BY <1>1, <1>4 DEF VisitReferenced, VisitEntryPoint, Descend, Apply, ledgerVars
<1>5. CASE MarkReferenced \/ Confirmed
  BY <1>1, <1>5 DEF MarkReferenced, Confirmed, ledgerVars
<1>6. CASE Restart
  <2>1. restarts' = restarts + 1 /\ restarts \in Nat /\ UNCHANGED ledgerVars
    BY <1>6 DEF Restart, BookInv, TypeInv
  <2>2. restarts' # 0  BY <2>1
  <2> QED  BY <2>1, <2>2 DEF ReceiptInv, ReceiptsInOrder, ledgerVars
<1>7. CASE UNCHANGED vars  BY <1>1, <1>7 DEF vars, ledgerVars
<1> QED
  BY <1>2, <1>3, <1>4, <1>5, <1>6, <1>7, ReceiptCommit
  DEF Next, MilestoneMessageNotFound, NonContiguousMilestones, ApplyError, MissingMessage, ConfirmError

\* The receipts that confirm stores are in the order of the milestones, as
\* long as no restart makes the worker forget the last of them.
THEOREM ReceiptsStayInOrder == Spec => []ReceiptsInOrder
<1>1. Init => BookInv /\ ReceiptInv
  BY BookInit DEF Init, ReceiptInv, ReceiptsInOrder
<1>2. BookInv /\ ReceiptInv /\ [Next]_vars => BookInv' /\ ReceiptInv'
  BY BookNext, ReceiptNext
<1>3. ReceiptInv => ReceiptsInOrder  BY DEF ReceiptInv
<1> QED  BY <1>1, <1>2, <1>3, PTL DEF Spec
=============================================================================
