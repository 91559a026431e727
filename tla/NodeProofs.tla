----------------------------- MODULE NodeProofs -----------------------------
(***************************************************************************)
(* Proofs about the workers of a node: the import of snapshots, the search *)
(* for a nonce, the start and the shutdown of the workers for every graph  *)
(* of dependencies, and the solidification of messages for every graph,    *)
(* every set of milestones and every number of processors.                 *)
(***************************************************************************)
EXTENDS Snapshot, Miner, NodeLifecycle, Solidification, LedgerProofs, SequenceTheorems

-----------------------------------------------------------------------------
(***************************************************************************)
(* The import of snapshots.  A storage is opened with nothing in it or     *)
(* with a whole ledger; what a crash leaves is never opened again.         *)
(***************************************************************************)
\* No snapshot was imported yet.
Fresh ==
  /\ unspent = {} /\ treasury = {}
  /\ balances = [a \in Addresses |-> ZeroBalance]

\* The ledger after milestone i, and the outputs that were resurrected on the
\* way back to it; the balances are not affected by those.
Held(i) ==
  /\ UnspentAt[i] \subseteq unspent /\ unspent \subseteq UnspentAt[i] \cup Resurrected(i)
  /\ unspent \subseteq outputs
  /\ treasury = {TreasuryAt[i]}
  /\ \A a \in Addresses : balances[a] = BalanceOf(UnspentAt[i], a)

\* Everything that the files hold is in the storage.
Whole ==
  /\ full # None
  /\ ledger_index = Target /\ info = Target
  /\ seps = EntryPoints[Target]
  /\ Fits => Held(Target)

\* And validate_ledger_state has accepted it.
Validated == Whole /\ (Fits => unspent = UnspentAt[Target])

Consistent == {s \in Sources : IsConsistent(s)}

\* The files in the folder: a delta snapshot that was downloaded is that of the
\* last source.
FilesInv ==
  /\ full # None => SnapshotFile(full, "full")
  /\ delta # None => SnapshotFile(delta, "delta")
  /\ source # None => source \in Consistent /\ delta \in {None, source.delta}

\* While files are looked for nothing is imported, and until its delta snapshot
\* is downloaded a full one may be followed by that of any consistent source.
DownloadInv ==
  /\ section \in {"files", "download", "download delta", "downloaded"} =>
       Fresh /\ reading = None /\ imported_diffs = NoDiffs
  /\ section \in {"download", "download delta"} => delta = None /\ sources \subseteq Consistent
  /\ section = "download delta" => source \in Consistent

FileSections == {"header", "index", "info", "truncate", "seps", "outputs", "diffs"}

\* A full snapshot starts from nothing, a delta one from the ledger that it
\* continues if it fits.
Before ==
  IF reading.kind = "full" THEN Fresh /\ imported_diffs = NoDiffs ELSE Fits => Held(reading.ledger_index)

Prepared ==
  IF reading.kind = "full"
  THEN /\ treasury = {TreasuryAt[reading.ledger_index]}
       /\ unspent = {} /\ balances = [a \in Addresses |-> ZeroBalance] /\ imported_diffs = NoDiffs
  ELSE Fits => Held(reading.ledger_index)

\* The outputs that are imported so far, and those that are left.
OutputsRead ==
  /\ reading.kind = "full"
  /\ treasury = {TreasuryAt[reading.ledger_index]}
  /\ unspent \cup rest = UnspentAt[reading.ledger_index] /\ unspent \cap rest = {}
  /\ unspent \subseteq outputs
  /\ balances = [a \in Addresses |-> ZeroBalance]
  /\ imported_diffs = [a \in Addresses |-> BalanceOf(unspent, a)]
  /\ diffs_left = reading.diffs

\* The ledger after n diffs of a file.
IndexAfter(f, n) == IF f.kind = "full" THEN f.ledger_index - n ELSE f.ledger_index + n

\* n diffs of the file were applied or rolled back, each in its turn.
DiffsRead(n) ==
  /\ n \in 0 .. Len(reading.diffs)
  /\ ledger_index = IndexAfter(reading, n)
  /\ diffs_left \in Seq(Nat) /\ Len(diffs_left) = Len(reading.diffs) - n
  /\ \A k \in 1 .. Len(diffs_left) : diffs_left[k] = reading.diffs[n + k]
  /\ \A k \in 1 .. n : reading.diffs[k] = IF reading.kind = "full" THEN reading.ledger_index + 1 - k
                                          ELSE reading.ledger_index + k

\* How far the import of a file is.
ReadingInv ==
  /\ section \in FileSections => /\ full # None /\ reading # None
                                 /\ reading = IF reading.kind = "full" THEN full ELSE delta
  /\ section = "header" => Before
  /\ section \in FileSections \ {"header"} => ValidHeader(reading)
  /\ section \in {"index", "info", "truncate", "seps"} => Prepared
  /\ section \in {"info", "truncate", "seps", "outputs"} => ledger_index = reading.ledger_index
  /\ section \in {"truncate", "seps", "outputs", "diffs"} => info = reading.sep_index
  /\ section = "seps" => seps \cup rest = EntryPoints[reading.sep_index]
  /\ section \in {"outputs", "diffs"} => seps = EntryPoints[reading.sep_index]
  /\ section = "outputs" => OutputsRead
  /\ section = "diffs" => /\ reading.kind = "full" \/ Fits => Held(ledger_index)
                          /\ \E n \in Nat : DiffsRead(n)

SnapshotInv ==
  /\ FilesInv
  /\ process \in {"down", "starting", "running"}
  /\ process # "down" => health = "idle"
  /\ health = "none" => Fresh /\ info = None
  /\ health = "healthy" => Validated
  /\ process = "running" => Validated
  /\ process = "starting" =>
       /\ section \in FileSections \cup {"files", "download", "download delta", "downloaded", "done"}
       /\ DownloadInv /\ ReadingInv
       /\ section = "done" => Whole

-----------------------------------------------------------------------------
(***************************************************************************)
(* The history of the ledger.                                              *)
(***************************************************************************)
\* The outputs after milestone n + 1.
UnspentStep(n, u) ==
  IF n \notin DOMAIN History THEN u ELSE (u \cup History[n].created) \ History[n].consumed

\* The unspent outputs follow from those of the milestone before.
LEMMA UnspentFollows ==
  /\ UnspentAt[0] = Genesis
  /\ \A n \in Nat : UnspentAt[n] \in SUBSET OutputIds /\ UnspentAt[n + 1] = UnspentStep(n + 1, UnspentAt[n])
<1> DEFINE S == SUBSET OutputIds
           step == [p \in Nat \X S |-> UnspentStep(p[1], p[2])]
           Def(f) == [i \in Nat |-> IF i = 0 THEN Genesis
                                    ELSE IF i \notin DOMAIN History THEN f[i - 1]
                                    ELSE (f[i - 1] \cup History[i].created) \ History[i].consumed]
<1>0. \A n \in Nat, u \in S : UnspentStep(n, u) \in S  BY SnapshotAssumption DEF UnspentStep
<1>1. step \in [Nat \X S -> S]  BY <1>0
<1>2. PICK f : RecursAlways(S, Genesis, step, f)
  <2>1. Genesis \in S  BY SnapshotAssumption
  <2> HIDE DEF S, step
  <2> QED  BY ONLY <1>1, <2>1, RecursionExists
<1>3. ASSUME NEW n \in Nat  PROVE f[n] \in S /\ f[n + 1] = UnspentStep(n + 1, f[n])
  <2>1. f[n] \in S /\ f[n + 1] = step[<<n + 1, f[n]>>]  BY <1>2 DEF RecursAlways
  <2>2. <<n + 1, f[n]>> \in Nat \X S  BY <2>1
  <2> QED  BY <2>1, <2>2
<1>4. f = Def(f)
  <2>1. ASSUME NEW n \in Nat
        PROVE  f[n] = IF n = 0 THEN Genesis ELSE IF n \notin DOMAIN History THEN f[n - 1]
                      ELSE (f[n - 1] \cup History[n].created) \ History[n].consumed
    <3>1. CASE n = 0  BY <1>2, <3>1 DEF RecursAlways
    <3>2. CASE n # 0
      <4>1. n - 1 \in Nat /\ (n - 1) + 1 = n  BY <3>2
      <4>2. f[n] = UnspentStep(n, f[n - 1])  BY <4>1, <1>3
      <4> QED  BY <4>2, <3>2 DEF UnspentStep
    <3> QED  BY <3>1, <3>2
  <2>2. f = [n \in Nat |-> f[n]]  BY <1>2 DEF RecursAlways
  <2> QED  BY <2>1, <2>2
<1>5. UnspentAt = Def(UnspentAt)
  <2>1. UnspentAt = CHOOSE g : g = Def(g)  BY DEF UnspentAt
  <2>2. \E g : g = Def(g)  BY <1>4
  <2> HIDE DEF Def
  <2> QED  BY <2>1, <2>2
<1>6. UnspentAt[0] = Genesis  BY <1>5
<1>7. ASSUME NEW n \in Nat  PROVE UnspentAt[n + 1] = UnspentStep(n + 1, UnspentAt[n])
  <2>1. n + 1 \in Nat /\ n + 1 # 0 /\ (n + 1) - 1 = n  OBVIOUS
  <2>2. \A i \in Nat : UnspentAt[i] = IF i = 0 THEN Genesis
                                      ELSE IF i \notin DOMAIN History THEN UnspentAt[i - 1]
                                      ELSE (UnspentAt[i - 1] \cup History[i].created) \ History[i].consumed
    BY <1>5
  <2> QED  BY <2>1, <2>2 DEF UnspentStep
<1>8. \A n \in Nat : UnspentAt[n] \in S
  <2> DEFINE G == {i \in Nat : UnspentAt[i] \in S}
  <2>1. 0 \in G  BY <1>6, SnapshotAssumption
  <2>2. ASSUME NEW i \in Nat, i \in G  PROVE i + 1 \in G
    <3>1. UnspentAt[i] \in S  BY <2>2
    <3>2. UnspentStep(i + 1, UnspentAt[i]) \in S  BY <1>0, <3>1
    <3> QED  BY <3>2, <1>7
  <2>3. Nat \subseteq G
    <3> HIDE DEF G
    <3> QED  BY <2>1, <2>2, NatSetInduction
  <2> QED  BY <2>3
<1> QED  BY <1>6, <1>7, <1>8

\* The treasury after milestone n + 1.
TreasuryStep(n, t) ==
  IF n \notin DOMAIN History \/ History[n].migration = {} THEN t
  ELSE (CHOOSE g \in History[n].migration : TRUE).created

\* The treasury follows from that of the milestone before.
LEMMA TreasuryFollows == \A n \in Nat : TreasuryAt[n + 1] = TreasuryStep(n + 1, TreasuryAt[n])
<1> DEFINE S == {GenesisTreasury} \cup {(CHOOSE g \in History[i].migration : TRUE).created : i \in DOMAIN History}
           step == [p \in Nat \X S |-> TreasuryStep(p[1], p[2])]
           Def(f) == [i \in Nat |-> IF i = 0 THEN GenesisTreasury
                                    ELSE IF i \notin DOMAIN History \/ History[i].migration = {} THEN f[i - 1]
                                    ELSE (CHOOSE g \in History[i].migration : TRUE).created]
<1>0. \A n \in Nat, u \in S : TreasuryStep(n, u) \in S  BY DEF TreasuryStep
<1>1. step \in [Nat \X S -> S]  BY <1>0
<1>2. PICK f : RecursAlways(S, GenesisTreasury, step, f)
  <2>1. GenesisTreasury \in S  OBVIOUS
  <2> HIDE DEF S, step
  <2> QED  BY ONLY <1>1, <2>1, RecursionExists
<1>3. ASSUME NEW n \in Nat  PROVE f[n] \in S /\ f[n + 1] = TreasuryStep(n + 1, f[n])
  <2> HIDE DEF S
  <2>1. f[n] \in S /\ f[n + 1] = step[<<n + 1, f[n]>>]  BY <1>2 DEF RecursAlways
  <2>2. <<n + 1, f[n]>> \in Nat \X S  BY <2>1
  <2> QED  BY <2>1, <2>2
<1>4. f = Def(f)
  <2>1. ASSUME NEW n \in Nat
        PROVE  f[n] = IF n = 0 THEN GenesisTreasury
                      ELSE IF n \notin DOMAIN History \/ History[n].migration = {} THEN f[n - 1]
                      ELSE (CHOOSE g \in History[n].migration : TRUE).created
    <3>1. CASE n = 0  BY <1>2, <3>1 DEF RecursAlways
    <3>2. CASE n # 0
      <4>1. n - 1 \in Nat /\ (n - 1) + 1 = n  BY <3>2
      <4>2. f[n] = TreasuryStep(n, f[n - 1])  BY <4>1, <1>3
      <4> QED  BY <4>2, <3>2 DEF TreasuryStep
    <3> QED  BY <3>1, <3>2
  <2>2. f = [n \in Nat |-> f[n]]  BY <1>2 DEF RecursAlways
  <2> QED  BY <2>1, <2>2
<1>5. TreasuryAt = Def(TreasuryAt)
  <2>1. TreasuryAt = CHOOSE g : g = Def(g)  BY DEF TreasuryAt
  <2>2. \E g : g = Def(g)  BY <1>4
  <2> HIDE DEF Def
  <2> QED  BY <2>1, <2>2
<1> SUFFICES ASSUME NEW n \in Nat  PROVE TreasuryAt[n + 1] = TreasuryStep(n + 1, TreasuryAt[n])  OBVIOUS
<1>6. n + 1 \in Nat /\ n + 1 # 0 /\ (n + 1) - 1 = n  OBVIOUS
<1>7. \A i \in Nat : TreasuryAt[i] = IF i = 0 THEN GenesisTreasury
                                     ELSE IF i \notin DOMAIN History \/ History[i].migration = {} THEN TreasuryAt[i - 1]
                                     ELSE (CHOOSE g \in History[i].migration : TRUE).created
  BY <1>5
<1> QED  BY <1>6, <1>7 DEF TreasuryStep

\* What milestone i does to the ledger of the one before it, and what takes it
\* back.
LEMMA MilestoneMoves ==
  ASSUME NEW i \in DOMAIN History
  PROVE  LET C == History[i].created
             K == History[i].consumed
             M == History[i].migration
             U == UnspentAt[i - 1]
         IN  /\ i \in Nat /\ i - 1 \in Nat
             /\ C \subseteq OutputIds /\ K \subseteq U \cup C /\ C \cap U = {} /\ U \subseteq OutputIds
             /\ UnspentAt[i] = (U \cup C) \ K /\ (UnspentAt[i] \cup K) \ C = U
             /\ {TreasuryAt[i]} = ({TreasuryAt[i - 1]} \cup {g.created : g \in M}) \ {g.consumed : g \in M}
             /\ {TreasuryAt[i - 1]} = ({TreasuryAt[i]} \ {g.created : g \in M}) \cup {g.consumed : g \in M}
<1> DEFINE C == History[i].created
           K == History[i].consumed
           M == History[i].migration
           U == UnspentAt[i - 1]
<1>1. i \in Nat /\ i - 1 \in Nat /\ (i - 1) + 1 = i  BY SnapshotAssumption
<1>2. C \subseteq OutputIds /\ K \subseteq U \cup C /\ C \cap U = {} /\ U \subseteq OutputIds
  BY <1>1, SnapshotAssumption, HistoryAssumption, UnspentFollows
<1>3. UnspentAt[i] = (U \cup C) \ K
  <2>1. UnspentAt[i] = UnspentStep(i, U)  BY <1>1, UnspentFollows
  <2> QED  BY <2>1 DEF UnspentStep
<1>4. TreasuryAt[i] = TreasuryStep(i, TreasuryAt[i - 1])  BY <1>1, TreasuryFollows
<1>5. \A g \in M : M = {g} /\ g.consumed = TreasuryAt[i - 1] /\ g.created # g.consumed  BY HistoryAssumption
<1> HIDE DEF C, K, U
<1>6. (UnspentAt[i] \cup K) \ C = U  BY <1>2, <1>3
<1>7. /\ {TreasuryAt[i]} = ({TreasuryAt[i - 1]} \cup {g.created : g \in M}) \ {g.consumed : g \in M}
      /\ {TreasuryAt[i - 1]} = ({TreasuryAt[i]} \ {g.created : g \in M}) \cup {g.consumed : g \in M}
  <2>1. CASE M = {}
    <3>1. TreasuryAt[i] = TreasuryAt[i - 1]  BY <1>4, <2>1 DEF TreasuryStep
    <3> HIDE DEF M
    <3> QED  BY <2>1, <3>1
  <2>2. CASE M # {}
    <3>1. PICK g \in M : g = CHOOSE x \in M : TRUE  BY <2>2
    <3>2. TreasuryAt[i] = g.created  BY <1>4, <2>2, <3>1 DEF TreasuryStep
    <3>3. M = {g} /\ g.consumed = TreasuryAt[i - 1] /\ g.created # g.consumed  BY <1>5
    <3> HIDE DEF M
    <3>4. {x.created : x \in M} = {g.created} /\ {x.consumed : x \in M} = {g.consumed}  BY <3>3
    <3> QED  BY <3>2, <3>3, <3>4
  <2> QED  BY <2>1, <2>2
<1> QED  BY <1>1, <1>2, <1>3, <1>6, <1>7 DEF C, K, U

-----------------------------------------------------------------------------
(***************************************************************************)
(* One diff, forwards and backwards.                                       *)
(***************************************************************************)
\* Differences that lead from what S is worth to what T is worth.
Leads(S, T, diffs) == \A a \in Addresses : Plus(BalanceOf(S, a), diffs[a]) = BalanceOf(T, a)

\* They lead from the balances of S to those of T.
LEMMA DiffsLead ==
  ASSUME NEW S, NEW T \in SUBSET OutputIds, NEW diffs, Leads(S, T, diffs),
         \A a \in Addresses : balances[a] = BalanceOf(S, a)
  PROVE  \A a \in Addresses : ApplyDiffs(diffs)[a] = BalanceOf(T, a)
<1> SUFFICES ASSUME NEW a \in Addresses  PROVE ApplyDiffs(diffs)[a] = BalanceOf(T, a)  OBVIOUS
<1>1. Plus(balances[a], diffs[a]) = BalanceOf(T, a)  BY DEF Leads
<1>2. ApplyDiffs(diffs)[a] = IF Plus(balances[a], diffs[a]).amount = 0 THEN ZeroBalance ELSE Plus(balances[a], diffs[a])
  BY DEF ApplyDiffs
<1>3. BalanceOf(T, a).amount = 0 => BalanceOf(T, a) = ZeroBalance  BY NothingWorthNothing
<1> QED  BY <1>1, <1>2, <1>3

\* A difference taken back.
LEMMA DiffNegated ==
  ASSUME NEW C \in SUBSET OutputIds, NEW K \in SUBSET OutputIds, NEW a
  PROVE  Minus(DiffOf(C, K, a)) = DiffOf(K, C, a)
<1>1. BalanceOf(C, a) \in BalanceType /\ BalanceOf(K, a) \in BalanceType  BY BalanceOfType
<1>2. \A x, y \in BalanceType : Minus(Plus(x, Minus(y))) = Plus(y, Minus(x))  BY DEF BalanceType, Plus, Minus
<1> QED  BY <1>1, <1>2 DEF DiffOf

\* The diff of a milestone, in both directions.
LEMMA MilestoneLeads ==
  ASSUME NEW i \in DOMAIN History
  PROVE  /\ Leads(UnspentAt[i - 1], UnspentAt[i], DiffOfMilestone(i))
         /\ Leads(UnspentAt[i], UnspentAt[i - 1], Negated(DiffOfMilestone(i)))
<1> DEFINE C == History[i].created
           K == History[i].consumed
           U == UnspentAt[i - 1]
           T == UnspentAt[i]
<1>1. /\ C \subseteq OutputIds /\ K \subseteq U \cup C /\ C \cap U = {} /\ U \subseteq OutputIds
      /\ T = (U \cup C) \ K /\ (T \cup K) \ C = U
  BY MilestoneMoves
<1> HIDE DEF U, T
<1>2. ASSUME NEW a \in Addresses
      PROVE  /\ DiffOfMilestone(i)[a] = DiffOf(C, K, a)
             /\ Negated(DiffOfMilestone(i))[a] = DiffOf(K, C, a)
  <2>1. DiffOfMilestone(i)[a] = DiffOf(C, K, a)  BY DEF DiffOfMilestone, DiffsOf
  <2>2. Negated(DiffOfMilestone(i))[a] = Minus(DiffOfMilestone(i)[a])  BY DEF Negated
  <2>3. C \in SUBSET OutputIds /\ K \in SUBSET OutputIds  BY <1>1
  <2> HIDE DEF C, K
  <2>4. Minus(DiffOf(C, K, a)) = DiffOf(K, C, a)  BY <2>3, DiffNegated
  <2> QED  BY <2>1, <2>2, <2>4
<1> HIDE DEF C, K
<1>3. ASSUME NEW a \in Addresses
      PROVE  Plus(BalanceOf(U, a), DiffOf(C, K, a)) = BalanceOf(T, a)
  <2>1. K \in SUBSET (U \cup C) /\ U \cap C = {} /\ U \in SUBSET OutputIds /\ C \in SUBSET OutputIds  BY <1>1
  <2>2. Plus(BalanceOf(U, a), DiffOf(C, K, a)) = BalanceOf((U \cup C) \ K, a)  BY <2>1, DiffApplied
  <2> QED  BY <1>1, <2>2
<1>4. ASSUME NEW a \in Addresses
      PROVE  Plus(BalanceOf(T, a), DiffOf(K, C, a)) = BalanceOf(U, a)
  <2>1. C \in SUBSET (T \cup K) /\ T \cap K = {} /\ T \in SUBSET OutputIds /\ K \in SUBSET OutputIds  BY <1>1
  <2>2. Plus(BalanceOf(T, a), DiffOf(K, C, a)) = BalanceOf((T \cup K) \ C, a)  BY <2>1, DiffApplied
  <2>3. (T \cup K) \ C = U  BY <1>1
  <2> QED  BY <2>2, <2>3
<1>5. Leads(U, T, DiffOfMilestone(i))  BY <1>2, <1>3 DEF Leads
<1>6. Leads(T, U, Negated(DiffOfMilestone(i)))  BY <1>2, <1>4 DEF Leads
<1> QED  BY <1>5, <1>6 DEF U, T

\* What a milestone resurrects, and what is resurrected before it.
LEMMA ResurrectedAt ==
  ASSUME NEW i \in DOMAIN History
  PROVE  /\ \A o \in Resurrected(i - 1) : o \in History[i].consumed \/ o \in Resurrected(i)
         /\ Resurrected(i) \subseteq Resurrected(i - 1)
         /\ i <= full.ledger_index => History[i].created \cap History[i].consumed \subseteq Resurrected(i - 1)
<1>1. i \in Nat /\ DOMAIN History \subseteq Nat /\ History[i].created \subseteq OutputIds  BY SnapshotAssumption
<1>2. ASSUME NEW o \in Resurrected(i - 1), o \notin History[i].consumed  PROVE o \in Resurrected(i)
  <2>1. PICK j \in DOMAIN History : i - 1 < j /\ j <= full.ledger_index /\ o \in History[j].created \cap History[j].consumed
    BY DEF Resurrected
  <2>2. j # i  BY <1>2, <2>1
  <2>3. i < j  BY <1>1, <2>1, <2>2
  <2> QED  BY <2>1, <2>3 DEF Resurrected
<1>3. ASSUME NEW o \in Resurrected(i)  PROVE o \in Resurrected(i - 1)
  <2>1. PICK j \in DOMAIN History : i < j /\ j <= full.ledger_index /\ o \in History[j].created \cap History[j].consumed
    BY DEF Resurrected
  <2>2. i - 1 < j  BY <1>1, <2>1
  <2> QED  BY <2>1, <2>2 DEF Resurrected
<1>4. i - 1 < i  BY <1>1
<1>5. ASSUME i <= full.ledger_index, NEW o \in History[i].created \cap History[i].consumed  PROVE o \in Resurrected(i - 1)
  BY <1>1, <1>4, <1>5 DEF Resurrected
<1> QED  BY <1>2, <1>3, <1>5

\* A milestone that is applied.
LEMMA MilestoneApplied ==
  ASSUME NEW i \in DOMAIN History, Held(i - 1),
         ApplyMilestone(i, History[i].created, History[i].consumed, DiffOfMilestone(i), History[i].migration), UNCHANGED full
  PROVE  Held(i)'
<1> DEFINE C == History[i].created
           K == History[i].consumed
           M == History[i].migration
<1>1. /\ C \subseteq OutputIds /\ i \in Nat
      /\ UnspentAt[i] = (UnspentAt[i - 1] \cup C) \ K
      /\ {TreasuryAt[i]} = ({TreasuryAt[i - 1]} \cup {g.created : g \in M}) \ {g.consumed : g \in M}
  BY MilestoneMoves
<1>2. /\ outputs' = outputs \cup C /\ unspent' = (unspent \cup C) \ K
      /\ balances' = ApplyDiffs(DiffOfMilestone(i))
      /\ treasury' = (treasury \cup {g.created : g \in M}) \ {g.consumed : g \in M}
  BY DEF ApplyMilestone, UnspentAfter
<1>3. /\ UnspentAt[i - 1] \subseteq unspent /\ unspent \subseteq UnspentAt[i - 1] \cup Resurrected(i - 1)
      /\ unspent \subseteq outputs /\ treasury = {TreasuryAt[i - 1]}
      /\ \A a \in Addresses : balances[a] = BalanceOf(UnspentAt[i - 1], a)
  BY DEF Held
<1>4. Leads(UnspentAt[i - 1], UnspentAt[i], DiffOfMilestone(i)) /\ UnspentAt[i] \in SUBSET OutputIds
  BY <1>1, MilestoneLeads, UnspentFollows
<1>5. \A a \in Addresses : balances'[a] = BalanceOf(UnspentAt[i], a)
  <2> DEFINE S == UnspentAt[i - 1]
             T == UnspentAt[i]
             D == DiffOfMilestone(i)
  <2>1. Leads(S, T, D) /\ T \in SUBSET OutputIds /\ \A a \in Addresses : balances[a] = BalanceOf(S, a)
    BY <1>3, <1>4
  <2> HIDE DEF S, T, D
  <2>2. \A a \in Addresses : ApplyDiffs(D)[a] = BalanceOf(T, a)  BY <2>1, DiffsLead
  <2> QED  BY <1>2, <2>2 DEF T, D
<1>6. treasury' = {TreasuryAt[i]}
  <2> HIDE DEF M
  <2> QED  BY <1>1, <1>2, <1>3
<1>7. UnspentAt[i] \subseteq unspent' /\ unspent' \subseteq outputs'  BY <1>1, <1>2, <1>3
<1>8. unspent' \subseteq UnspentAt[i] \cup Resurrected(i)
  <2>1. \A o \in Resurrected(i - 1) : o \in K \/ o \in Resurrected(i)  BY ResurrectedAt
  <2> HIDE DEF C, K
  <2> QED  BY <1>1, <1>2, <1>3, <2>1
<1>9. Resurrected(i)' = Resurrected(i)  BY DEF Resurrected
<1> QED  BY <1>5, <1>6, <1>7, <1>8, <1>9 DEF Held

\* A milestone that is rolled back.
LEMMA MilestoneRolledBack ==
  ASSUME NEW i \in DOMAIN History, Held(i),
         RollbackMilestone(i, History[i].created, History[i].consumed, DiffOfMilestone(i), History[i].migration),
         i <= full.ledger_index, UNCHANGED full
  PROVE  Held(i - 1)'
<1> DEFINE C == History[i].created
           K == History[i].consumed
           M == History[i].migration
<1>1. /\ C \subseteq OutputIds /\ i - 1 \in Nat /\ K \subseteq UnspentAt[i - 1] \cup C /\ C \cap UnspentAt[i - 1] = {}
      /\ UnspentAt[i] = (UnspentAt[i - 1] \cup C) \ K
      /\ {TreasuryAt[i - 1]} = ({TreasuryAt[i]} \ {g.created : g \in M}) \cup {g.consumed : g \in M}
  BY MilestoneMoves
<1>2. /\ outputs' = (outputs \ C) \cup K /\ unspent' = (unspent \ C) \cup K
      /\ balances' = ApplyDiffs(Negated(DiffOfMilestone(i)))
      /\ treasury' = (treasury \ {g.created : g \in M}) \cup {g.consumed : g \in M}
  BY DEF RollbackMilestone
<1>3. /\ UnspentAt[i] \subseteq unspent /\ unspent \subseteq UnspentAt[i] \cup Resurrected(i)
      /\ unspent \subseteq outputs /\ treasury = {TreasuryAt[i]}
      /\ \A a \in Addresses : balances[a] = BalanceOf(UnspentAt[i], a)
  BY DEF Held
<1>4. Leads(UnspentAt[i], UnspentAt[i - 1], Negated(DiffOfMilestone(i))) /\ UnspentAt[i - 1] \in SUBSET OutputIds
  BY <1>1, MilestoneLeads, UnspentFollows
<1>5. \A a \in Addresses : balances'[a] = BalanceOf(UnspentAt[i - 1], a)
  <2> DEFINE S == UnspentAt[i]
             T == UnspentAt[i - 1]
             D == Negated(DiffOfMilestone(i))
  <2>1. Leads(S, T, D) /\ T \in SUBSET OutputIds /\ \A a \in Addresses : balances[a] = BalanceOf(S, a)
    BY <1>3, <1>4
  <2> HIDE DEF S, T, D
  <2>2. \A a \in Addresses : ApplyDiffs(D)[a] = BalanceOf(T, a)  BY <2>1, DiffsLead
  <2> QED  BY <1>2, <2>2 DEF T, D
<1>6. treasury' = {TreasuryAt[i - 1]}
  <2> HIDE DEF M
  <2> QED  BY <1>1, <1>2, <1>3
<1>7. UnspentAt[i - 1] \subseteq unspent' /\ unspent' \subseteq outputs'  BY <1>1, <1>2, <1>3
<1>8. unspent' \subseteq UnspentAt[i - 1] \cup Resurrected(i - 1)
  <2>1. Resurrected(i) \subseteq Resurrected(i - 1) /\ C \cap K \subseteq Resurrected(i - 1)  BY ResurrectedAt
  <2> HIDE DEF C, K
  <2> QED  BY <1>1, <1>2, <1>3, <2>1
<1>9. Resurrected(i - 1)' = Resurrected(i - 1)  BY DEF Resurrected
<1> QED  BY <1>5, <1>6, <1>7, <1>8, <1>9 DEF Held

\* One output more.
LEMMA OutputImported ==
  ASSUME NEW S \in SUBSET OutputIds, NEW o \in OutputIds, o \notin S
  PROVE  Merge([a \in Addresses |-> BalanceOf(S, a)], DiffsOf({o}, {})) = [a \in Addresses |-> BalanceOf(S \cup {o}, a)]
<1>1. ASSUME NEW a \in Addresses
      PROVE  Plus(BalanceOf(S, a), DiffsOf({o}, {})[a]) = BalanceOf(S \cup {o}, a)
  <2>1. DiffsOf({o}, {})[a] = DiffOf({o}, {}, a)  BY DEF DiffsOf
  <2> DEFINE C == {o}
             K == {}
  <2>2. C \in SUBSET OutputIds /\ S \cap C = {} /\ K \in SUBSET (S \cup C) /\ (S \cup C) \ K = S \cup C  OBVIOUS
  <2> HIDE DEF C, K
  <2>3. Plus(BalanceOf(S, a), DiffOf(C, K, a)) = BalanceOf((S \cup C) \ K, a)  BY <2>2, DiffApplied
  <2> QED  BY <2>1, <2>2, <2>3 DEF C, K
<1> QED  BY <1>1 DEF Merge

\* The balances that are added to none.
LEMMA BalancesImported ==
  ASSUME NEW S \in SUBSET OutputIds, balances = [a \in Addresses |-> ZeroBalance]
  PROVE  \A a \in Addresses : ApplyDiffs([x \in Addresses |-> BalanceOf(S, x)])[a] = BalanceOf(S, a)
<1> DEFINE D == [x \in Addresses |-> BalanceOf(S, x)]
<1>1. ASSUME NEW a \in Addresses  PROVE balances[a] = BalanceOf({}, a) /\ Plus(BalanceOf({}, a), D[a]) = BalanceOf(S, a)
  <2>1. BalanceOf({}, a) = ZeroBalance
    <3>1. Mine({}, a) = {} /\ Total({}) = 0  BY SumEmpty DEF Mine, Total
    <3>2. BalanceOf({}, a).amount = 0  BY <3>1, BalanceParts
    <3> QED  BY <3>2, NothingWorthNothing
  <2>2. BalanceOf(S, a) \in BalanceType  BY BalanceOfType
  <2>3. \A x \in BalanceType : Plus(ZeroBalance, x) = x  BY DEF BalanceType, Plus, ZeroBalance
  <2> QED  BY <2>1, <2>2, <2>3
<1>2. Leads({}, S, D)  BY <1>1 DEF Leads
<1> HIDE DEF D
<1>3. \A a \in Addresses : ApplyDiffs(D)[a] = BalanceOf(S, a)  BY <1>1, <1>2, DiffsLead
<1> QED  BY <1>3 DEF D

\* The ledger of a milestone is accepted by validate_ledger_state if no output
\* was resurrected, and only then.
LEMMA HeldIsValid ==
  ASSUME NEW i \in 0 .. Len(History), Held(i)
  PROVE  /\ unspent = UnspentAt[i] => ValidUnspentState /\ ValidBalanceState
         /\ ValidUnspentState => unspent = UnspentAt[i]
<1>1. /\ UnspentAt[i] \subseteq unspent /\ unspent \subseteq UnspentAt[i] \cup Resurrected(i)
      /\ unspent \subseteq outputs /\ treasury = {TreasuryAt[i]}
      /\ \A a \in Addresses : balances[a] = BalanceOf(UnspentAt[i], a)
  BY DEF Held
<1>2. i \in Nat /\ UnspentAt[i] \in SUBSET OutputIds
  <2>1. i \in Nat  BY SnapshotAssumption
  <2> QED  BY <2>1, UnspentFollows
<1>3. /\ Total(UnspentAt[i]) + TreasuryAt[i].amount = Supply /\ TreasuryAt[i].amount \in Nat
      /\ \A a \in Addresses : ~ExceedsDust(BalanceOf(UnspentAt[i], a))
  BY HistoryAssumption
<1>4. ASSUME unspent = UnspentAt[i]  PROVE ValidUnspentState
  <2>1. Cardinality(treasury) = 1  BY <1>1, FS_Singleton
  <2> QED  BY <1>1, <1>3, <1>4, <2>1 DEF ValidUnspentState
<1>5. [a \in Addresses |-> balances[a].amount] = [a \in Addresses |-> BalanceOf(UnspentAt[i], a).amount]  BY <1>1
<1>6. SumOver([a \in Addresses |-> balances[a].amount], Addresses) = Total(UnspentAt[i])
  <2> DEFINE S == UnspentAt[i]
  <2>1. S \in SUBSET OutputIds  BY <1>2
  <2> HIDE DEF S
  <2>2. SumOver([a \in Addresses |-> BalanceOf(S, a).amount], Addresses) = Total(S)  BY <2>1, BalancesAddUp
  <2> QED  BY <1>5, <2>2 DEF S
<1>7. ValidBalanceState  BY <1>1, <1>3, <1>6 DEF ValidBalanceState
<1>8. ASSUME ValidUnspentState  PROVE unspent = UnspentAt[i]
  <2> DEFINE S == UnspentAt[i]
             R == unspent \ S
             t == TreasuryAt[i].amount
  <2>1. Resurrected(i) \subseteq OutputIds  BY DEF Resurrected
  <2>2. /\ S \in SUBSET OutputIds /\ R \in SUBSET OutputIds /\ S \cap R = {} /\ S \cup R = unspent
    BY <1>1, <1>2, <2>1
  <2>3. Total(S \cup R) + t = Supply /\ Total(S) + t = Supply /\ t \in Nat
    BY <1>1, <1>3, <1>8, <2>2 DEF ValidUnspentState
  <2> HIDE DEF S, R, t
  <2>4. Total(S \cup R) = Total(S) + Total(R)  BY <2>2, TotalUnion
  <2>5. Total(S) \in Nat /\ Total(R) \in Nat /\ (Total(R) = 0 => R = {})  BY <2>2, TotalType
  <2>6. R = {}  BY <2>3, <2>4, <2>5
  <2> QED  BY <2>2, <2>6 DEF S
<1> QED  BY <1>4, <1>7, <1>8

-----------------------------------------------------------------------------
\* The state at first.
LEMMA SnapshotInvInit == SnapshotInit => SnapshotInv
<1> SUFFICES ASSUME SnapshotInit  PROVE SnapshotInv  OBVIOUS
<1>1. PICK f \in Files : full = f.full /\ delta = f.delta  BY DEF SnapshotInit
<1>2. FilesInv
  <2>1. f \in Files \cup Sources  OBVIOUS
  <2>2. (f.full # None => SnapshotFile(f.full, "full")) /\ (f.delta # None => SnapshotFile(f.delta, "delta"))
    BY <2>1, FilesAssumption
  <2>3. source = None  BY DEF SnapshotInit
  <2> QED  BY <1>1, <2>2, <2>3 DEF FilesInv
<1>3. Fresh /\ info = None /\ process = "down" /\ health = "none"  BY DEF SnapshotInit, Fresh
<1> QED  BY <1>2, <1>3 DEF SnapshotInv

\* What an import that ends leaves is never opened.
LEMMA ErrorKeeps ==
  ASSUME SnapshotInv, ImportError
  PROVE  SnapshotInv'
<1>1. health' = "corrupted" /\ process' = "down" /\ UNCHANGED fileVars  BY DEF ImportError
<1>2. FilesInv'  BY <1>1 DEF SnapshotInv, FilesInv, fileVars, Consistent, IsConsistent
<1> QED  BY <1>1, <1>2 DEF SnapshotInv

\* The ledger as it was.
LEMMA LedgerSame ==
  ASSUME UNCHANGED ledgerVars
  PROVE  /\ Fresh' = Fresh
         /\ UNCHANGED full => \A i : Held(i)' = Held(i)
<1>1. UNCHANGED <<unspent, outputs, treasury, balances>>  BY DEF ledgerVars
<1>2. UNCHANGED full => \A i : Resurrected(i)' = Resurrected(i)  BY DEF Resurrected
<1> QED  BY <1>1, <1>2 DEF Fresh, Held

\* What was whole stays whole.
LEMMA WholeSame ==
  ASSUME UNCHANGED <<ledgerVars, info, seps, full, delta>>
  PROVE  /\ Whole' = Whole /\ Validated' = Validated
         /\ Target' = Target /\ Fits' = Fits
<1>1. Target' = Target /\ Fits' = Fits  BY DEF Target, Fits
<1>2. UNCHANGED <<unspent, outputs, treasury, balances, ledger_index>>  BY DEF ledgerVars
<1>3. Held(Target)' = Held(Target)
  <2>1. \A i : Resurrected(i)' = Resurrected(i)  BY DEF Resurrected
  <2>2. Resurrected(Target)' = Resurrected(Target)  BY <1>1, <2>1 DEF Resurrected
  <2> HIDE DEF Target
  <2> QED  BY <1>1, <1>2, <2>2 DEF Held
<1>4. Whole' = Whole  BY <1>1, <1>2, <1>3 DEF Whole
<1> QED  BY <1>1, <1>2, <1>4 DEF Validated

\* Only the ledger of the last milestone is accepted, and it is.
LEMMA ValidWhole ==
  ASSUME FilesInv, Whole
  PROVE  /\ Target \in 0 .. Len(History)
         /\ ValidUnspentState => Validated
         /\ Fits /\ Resurrected(Target) = {} => ValidUnspentState /\ ValidBalanceState
<1>1. Target \in 0 .. Len(History)  BY DEF Whole, FilesInv, SnapshotFile, Target
<1>2. CASE Fits
  <2>1. PICK i \in 0 .. Len(History) : i = Target  BY <1>1
  <2>2. Held(i)  BY <1>2, <2>1 DEF Whole
  <2>3. /\ unspent = UnspentAt[i] => ValidUnspentState /\ ValidBalanceState
        /\ ValidUnspentState => unspent = UnspentAt[i]
    BY <2>2, HeldIsValid
  <2>4. Resurrected(i) = {} => unspent = UnspentAt[i]  BY <2>2 DEF Held
  <2> QED  BY <1>1, <2>1, <2>3, <2>4 DEF Validated
<1>3. CASE ~Fits  BY <1>1, <1>3 DEF Validated
<1> QED  BY <1>2, <1>3

\* Starts and ends of the process.
LEMMA LifeKeeps ==
  ASSUME SnapshotInv, Start \/ StartRefused \/ Crash \/ Validate \/ Stop \/ UNCHANGED snapshotVars
  PROVE  SnapshotInv'
<1>0. UNCHANGED <<ledgerVars, info, seps, full, delta, fileVars>>
  BY DEF Start, StartRefused, Crash, Validate, Stop, snapshotVars, nodeVars, fileVars
<1>1. /\ Whole' = Whole /\ Validated' = Validated /\ Fresh' = Fresh /\ FilesInv' /\ info' = info
  <2>1. FilesInv'  BY <1>0 DEF SnapshotInv, FilesInv, fileVars, Consistent, IsConsistent
  <2> QED  BY <1>0, <2>1, WholeSame, LedgerSame
<1>2. CASE Start
  <2>1. /\ health \in {"none", "healthy"} /\ process = "down" /\ health' = "idle" /\ process' = "starting"
        /\ reading' = None /\ section' = (IF info = None THEN "files" ELSE "done") /\ imported_diffs' = NoDiffs
    BY <1>2 DEF Start, Opens
  <2>2. CASE health = "none"
    <3>1. Fresh' /\ section' = "files"  BY <1>1, <2>1, <2>2 DEF SnapshotInv
    <3>2. DownloadInv' /\ ReadingInv'  BY <2>1, <3>1 DEF DownloadInv, ReadingInv, FileSections
    <3> QED  BY <1>1, <2>1, <3>1, <3>2 DEF SnapshotInv
  <2>3. CASE health = "healthy"
    <3>1. Whole /\ info = Target /\ full # None  BY <2>3 DEF SnapshotInv, Validated, Whole
    <3>2. Target \in Nat
      <4>1. full.sep_index \in 0 .. Len(History) /\ (delta # None => delta.sep_index \in 0 .. Len(History))
        BY <3>1 DEF SnapshotInv, FilesInv, SnapshotFile
      <4>2. Len(History) \in Nat  BY SnapshotAssumption
      <4> QED  BY <4>1, <4>2 DEF Target
    <3>3. section' = "done"
      <4>1. info # None  BY <3>1, <3>2, SnapshotAssumption
      <4> QED  BY <2>1, <4>1
    <3>4. DownloadInv' /\ ReadingInv'  BY <3>3 DEF DownloadInv, ReadingInv, FileSections
    <3> QED  BY <1>1, <2>1, <3>1, <3>3, <3>4 DEF SnapshotInv
  <2> QED  BY <2>1, <2>2, <2>3
<1>3. CASE StartRefused
  <2>1. UNCHANGED <<health, process>> /\ process = "down"  BY <1>3 DEF StartRefused
  <2> QED  BY <1>1, <2>1 DEF SnapshotInv
<1>4. CASE Crash
  <2>1. UNCHANGED health /\ process' = "down" /\ process # "down"  BY <1>4 DEF Crash
  <2> QED  BY <1>1, <2>1 DEF SnapshotInv
<1>5. CASE Validate
  <2>1. /\ UNCHANGED health /\ process' \in {"running", "down"} /\ process = "starting" /\ section = "done"
        /\ process' = "running" => ValidUnspentState
    BY <1>5 DEF Validate, At
  <2>2. Whole /\ health = "idle"  BY <2>1 DEF SnapshotInv
  <2>3. process' = "running" => Validated  BY <2>1, <2>2, ValidWhole DEF SnapshotInv
  <2> QED  BY <1>1, <2>1, <2>2, <2>3 DEF SnapshotInv
<1>6. CASE Stop
  <2>1. process = "running" /\ process' = "down" /\ health' = "healthy"  BY <1>6 DEF Stop
  <2> QED  BY <1>1, <2>1 DEF SnapshotInv
<1>7. CASE UNCHANGED snapshotVars
  <2>1. UNCHANGED <<health, process, section, reading, rest, diffs_left, imported_diffs, sources, source, ledger_index,
                    unspent, outputs, treasury, balances>>
    BY <1>7 DEF snapshotVars, nodeVars, fileVars, restVars, ledgerVars
  <2>2. DownloadInv' = DownloadInv  BY <1>0, <1>1, <2>1 DEF DownloadInv
  <2>3. ReadingInv' = ReadingInv
    <3>1. /\ Fits' = Fits /\ Held(ledger_index)' = Held(ledger_index)
          /\ Held(reading.ledger_index)' = Held(reading.ledger_index)
      BY <1>0, <2>1 DEF Fits, Held, Resurrected
    <3>2. Before' = Before /\ Prepared' = Prepared /\ OutputsRead' = OutputsRead
      BY <1>1, <2>1, <3>1 DEF Before, Prepared, OutputsRead
    <3>3. \A i : DiffsRead(i)' = DiffsRead(i)  BY <2>1 DEF DiffsRead
    <3> QED  BY <1>0, <2>1, <3>1, <3>2, <3>3 DEF ReadingInv
  <2> QED  BY <1>1, <2>1, <2>2, <2>3 DEF SnapshotInv
<1> QED  BY <1>2, <1>3, <1>4, <1>5, <1>6, <1>7

-----------------------------------------------------------------------------
\* A step while the node starts.
LEMMA StartingKeeps ==
  ASSUME SnapshotInv, process = "starting", UNCHANGED <<health, process>>, FilesInv',
         section' \in FileSections \cup {"files", "download", "download delta", "downloaded", "done"},
         DownloadInv', ReadingInv', section' = "done" => Whole'
  PROVE  SnapshotInv'
<1>1. health = "idle" /\ health' = "idle" /\ process' = "starting"  BY DEF SnapshotInv
<1> QED  BY <1>1 DEF SnapshotInv

\* A step in a file.
LEMMA FileKeeps ==
  ASSUME SnapshotInv, process = "starting", UNCHANGED <<health, process, fileVars>>, section' \in FileSections, ReadingInv'
  PROVE  SnapshotInv'
<1>1. FilesInv'  BY DEF SnapshotInv, FilesInv, fileVars, Consistent, IsConsistent
<1>2. DownloadInv' /\ section' # "done"  BY DEF DownloadInv, FileSections
<1> QED  BY <1>1, <1>2, StartingKeeps

\* The files that a consistent source offers.
LEMMA ConsistentFiles ==
  ASSUME NEW s \in Consistent
  PROVE  /\ s # None /\ s.full # None /\ SnapshotFile(s.full, "full")
         /\ s.delta # None => SnapshotFile(s.delta, "delta") /\ s.delta.ledger_index = s.full.sep_index
<1>1. s \in Sources /\ IsConsistent(s)  BY DEF Consistent
<1>2. s \in Files \cup Sources  BY <1>1
<1>3. s # None /\ s.full # None  BY <1>1, FilesAssumption
<1>4. (s.full # None => SnapshotFile(s.full, "full")) /\ (s.delta # None => SnapshotFile(s.delta, "delta"))
  BY <1>2, FilesAssumption
<1> QED  BY <1>1, <1>3, <1>4 DEF IsConsistent

\* The first file is opened.
LEMMA OpenKeeps ==
  ASSUME SnapshotInv, FilesPresent \/ OpenFull
  PROVE  SnapshotInv'
<1>1. /\ process = "starting" /\ section \in {"files", "downloaded"} /\ full # None /\ reading' = full /\ section' = "header"
      /\ UNCHANGED <<health, process, fileVars, ledgerVars, full, delta, imported_diffs>>
  BY DEF FilesPresent, OpenFull, At, fileVars
<1>2. Fresh /\ imported_diffs = NoDiffs  BY <1>1 DEF SnapshotInv, DownloadInv
<1>3. Fresh' /\ imported_diffs' = NoDiffs  BY <1>1, <1>2, LedgerSame
<1>4. reading'.kind = "full"  BY <1>1 DEF SnapshotInv, FilesInv, SnapshotFile
<1>5. ReadingInv'  BY <1>1, <1>3, <1>4 DEF ReadingInv, Before, FileSections
<1> QED  BY <1>1, <1>5, FileKeeps DEF FileSections

\* Sources are looked for, and files are downloaded.
LEMMA DownloadKeeps ==
  ASSUME SnapshotInv, GatherSources \/ DownloadFull \/ DownloadDelta
  PROVE  SnapshotInv'
<1>1. /\ process = "starting" /\ section \in {"files", "download", "download delta"}
      /\ UNCHANGED <<health, process, ledgerVars, reading, imported_diffs>>
  BY DEF GatherSources, DownloadFull, DownloadDelta, At
<1>2. Fresh /\ reading = None /\ imported_diffs = NoDiffs  BY <1>1 DEF SnapshotInv, DownloadInv
<1>3. Fresh' /\ reading' = None /\ imported_diffs' = NoDiffs  BY <1>1, <1>2, LedgerSame
<1>4. ASSUME FilesInv', section' \in {"download", "download delta", "downloaded"},
             section' \in {"download", "download delta"} => delta' = None /\ sources' \subseteq Consistent,
             section' = "download delta" => source' \in Consistent
      PROVE  SnapshotInv'
  <2>1. DownloadInv'
    <3>1. Consistent' = Consistent  BY DEF Consistent, IsConsistent
    <3> QED  BY <1>3, <1>4, <3>1 DEF DownloadInv
  <2>2. ReadingInv' /\ section' # "done"  BY <1>4 DEF ReadingInv, FileSections
  <2> QED  BY <1>1, <1>4, <2>1, <2>2, StartingKeeps
<1>5. CASE GatherSources
  <2>1. /\ full' = None /\ delta' = None /\ source' = source /\ sources' = Consistent /\ section' = "download"
    BY <1>5 DEF GatherSources, Consistent
  <2>2. source # None => source \in Consistent  BY DEF SnapshotInv, FilesInv
  <2>3. FilesInv'  BY <2>1, <2>2 DEF FilesInv, Consistent, IsConsistent
  <2> QED  BY <1>4, <2>1, <2>3
<1>6. CASE DownloadFull
  <2>1. /\ section = "download" /\ delta' = delta /\ section' \in {"download", "download delta"}
        /\ \E s \in sources : /\ sources' = sources \ {s}
                              /\ \/ full' \in {full, s.full} /\ source' = s /\ section' = "download delta"
                                 \/ UNCHANGED <<full, source, section>>
    BY <1>6 DEF DownloadFull, At
  <2>2. delta = None /\ sources \subseteq Consistent  BY <1>1, <2>1 DEF SnapshotInv, DownloadInv
  <2>3. PICK s \in sources : /\ sources' = sources \ {s}
                             /\ \/ full' \in {full, s.full} /\ source' = s /\ section' = "download delta"
                                \/ UNCHANGED <<full, source, section>>
    BY <2>1
  <2>4. s \in Consistent /\ sources' \subseteq Consistent /\ full' \in {full, s.full} /\ source' \in {source, s}
        /\ (section' = "download delta" => source' \in Consistent)
    BY <2>1, <2>2, <2>3
  <2>5. s.full # None /\ SnapshotFile(s.full, "full")  BY <2>4, ConsistentFiles
  <2>6. FilesInv'
    <3>1. (full # None => SnapshotFile(full, "full")) /\ (source # None => source \in Consistent)
      BY DEF SnapshotInv, FilesInv
    <3>2. full' # None => SnapshotFile(full', "full")  BY <2>4, <2>5, <3>1
    <3>3. source' # None => source' \in Consistent  BY <2>4, <3>1
    <3> QED  BY <2>1, <2>2, <3>2, <3>3 DEF FilesInv, SnapshotFile, Consistent, IsConsistent
  <2> QED  BY <1>4, <2>1, <2>2, <2>4, <2>6
<1>7. CASE DownloadDelta
  <2>1. /\ section = "download delta" /\ section' \in {"download", "downloaded"}
        /\ UNCHANGED <<full, sources, source>>
        /\ delta' = delta \/ (source.delta # None /\ delta' = source.delta /\ section' = "downloaded")
    BY <1>7 DEF DownloadDelta, At
  <2>2. /\ delta = None /\ sources \subseteq Consistent /\ source \in Consistent
    BY <1>1, <2>1 DEF SnapshotInv, DownloadInv
  <2>3. source.delta # None => SnapshotFile(source.delta, "delta")  BY <2>2, ConsistentFiles
  <2>4. FilesInv'
    <3>1. full # None => SnapshotFile(full, "full")  BY DEF SnapshotInv, FilesInv
    <3>2. delta' # None => SnapshotFile(delta', "delta")  BY <2>1, <2>2, <2>3
    <3>3. delta' \in {None, source.delta}  BY <2>1, <2>2
    <3> QED  BY <2>1, <2>2, <3>1, <3>2, <3>3 DEF FilesInv, SnapshotFile, Consistent, IsConsistent
  <2> QED  BY <1>4, <2>1, <2>2, <2>4
<1> QED  BY <1>5, <1>6, <1>7

-----------------------------------------------------------------------------
\* The file that is read is one of those in the folder.
LEMMA FileRead ==
  ASSUME SnapshotInv, process = "starting", section \in FileSections
  PROVE  /\ ReadingInv /\ full # None /\ reading # None /\ reading.kind \in {"full", "delta"}
         /\ reading = IF reading.kind = "full" THEN full ELSE delta
         /\ SnapshotFile(reading, reading.kind)
         /\ reading.ledger_index \in Nat /\ reading.sep_index \in Nat
         /\ reading.ledger_index \in 0 .. Len(History) /\ reading.sep_index \in 0 .. Len(History)
<1>1. ReadingInv /\ FilesInv  BY DEF SnapshotInv
<1>2. full # None /\ reading # None /\ reading = (IF reading.kind = "full" THEN full ELSE delta)  BY <1>1 DEF ReadingInv
<1>3. SnapshotFile(reading, reading.kind) /\ reading.kind \in {"full", "delta"}
  <2>1. CASE reading.kind = "full"
    <3>1. reading = full /\ SnapshotFile(full, "full")  BY <1>1, <1>2, <2>1 DEF FilesInv
    <3> QED  BY <2>1, <3>1
  <2>2. CASE reading.kind # "full"
    <3>1. reading = delta /\ SnapshotFile(delta, "delta")  BY <1>1, <1>2, <2>2 DEF FilesInv
    <3>2. reading.kind = "delta"  BY <3>1 DEF SnapshotFile
    <3> QED  BY <3>1, <3>2
  <2> QED  BY <2>1, <2>2
<1>4. reading.ledger_index \in 0 .. Len(History) /\ reading.sep_index \in 0 .. Len(History)  BY <1>3 DEF SnapshotFile
<1>5. Len(History) \in Nat  BY SnapshotAssumption
<1> QED  BY <1>1, <1>2, <1>3, <1>4, <1>5

\* The treasury output of a full snapshot.
LEMMA ImportTreasuryKeeps ==
  ASSUME SnapshotInv, ImportTreasury
  PROVE  SnapshotInv'
<1>1. /\ process = "starting" /\ section = "header" /\ section' = "index" /\ ValidHeader(reading)
      /\ treasury' = (IF reading.kind = "full" THEN treasury \cup {TreasuryAt[reading.ledger_index]} ELSE treasury)
      /\ UNCHANGED <<health, process, fileVars, full, delta, reading, imported_diffs, unspent, outputs, balances>>
  BY DEF ImportTreasury, Reading, fileVars
<1>2. /\ ReadingInv /\ full # None /\ reading # None /\ reading = IF reading.kind = "full" THEN full ELSE delta
  BY <1>1, FileRead DEF FileSections
<1>3. Before  BY <1>1, <1>2 DEF ReadingInv
<1>4. Prepared'
  <2>1. CASE reading.kind = "full"
    <3>1. Fresh /\ imported_diffs = NoDiffs  BY <1>3, <2>1 DEF Before
    <3> QED  BY <1>1, <2>1, <3>1 DEF Prepared, Fresh
  <2>2. CASE reading.kind # "full"
    <3>1. Fits => Held(reading.ledger_index)  BY <1>3, <2>2 DEF Before
    <3>2. Fits' = Fits /\ \A i : Resurrected(i)' = Resurrected(i)  BY <1>1 DEF Fits, Resurrected
    <3>3. treasury' = treasury  BY <1>1, <2>2
    <3>4. Held(reading.ledger_index)' = Held(reading.ledger_index)  BY <1>1, <3>2, <3>3 DEF Held, Resurrected
    <3> QED  BY <1>1, <2>2, <3>1, <3>2, <3>4 DEF Prepared
  <2> QED  BY <2>1, <2>2
<1>5. ReadingInv'  BY <1>1, <1>2, <1>4 DEF ReadingInv, FileSections, ValidHeader, Distance
<1> QED  BY <1>1, <1>5, FileKeeps DEF FileSections

\* What is prepared stays so.
LEMMA PreparedSame ==
  ASSUME UNCHANGED <<unspent, outputs, treasury, balances, reading, imported_diffs, full, delta>>
  PROVE  Prepared' = Prepared
<1>1. Fits' = Fits /\ Held(reading.ledger_index)' = Held(reading.ledger_index)  BY DEF Fits, Held, Resurrected
<1> QED  BY <1>1 DEF Prepared

\* The ledger index and the snapshot info.
LEMMA ImportIndexKeeps ==
  ASSUME SnapshotInv, ImportIndex \/ ImportInfo
  PROVE  SnapshotInv'
<1>1. /\ process = "starting"
      /\ \/ section = "index" /\ section' = "info" /\ ledger_index' = reading.ledger_index
         \/ section = "info" /\ section' = "truncate" /\ info' = reading.sep_index /\ ledger_index' = ledger_index
      /\ UNCHANGED <<health, process, fileVars, full, delta, reading, imported_diffs, unspent, outputs, balances, treasury>>
  BY DEF ImportIndex, ImportInfo, Reading, fileVars, ledgerVars
<1>2. /\ ReadingInv /\ full # None /\ reading # None /\ reading = IF reading.kind = "full" THEN full ELSE delta
  BY <1>1, FileRead DEF FileSections
<1>3. Prepared /\ ValidHeader(reading) /\ (section = "info" => ledger_index = reading.ledger_index)
  BY <1>1, <1>2 DEF ReadingInv, FileSections
<1>4. Prepared'  BY <1>1, <1>3, PreparedSame
<1>5. ReadingInv'  BY <1>1, <1>2, <1>3, <1>4 DEF ReadingInv, FileSections, ValidHeader, Distance
<1> QED  BY <1>1, <1>5, FileKeeps DEF FileSections

\* The solid entry points.
LEMMA ImportEntryPointsKeeps ==
  ASSUME SnapshotInv, TruncateEntryPoints \/ ImportEntryPoint
  PROVE  SnapshotInv'
<1>1. /\ process = "starting" /\ section \in {"truncate", "seps"} /\ section' = "seps"
      /\ UNCHANGED <<health, process, fileVars, full, delta, reading, imported_diffs, unspent, outputs, balances, treasury,
                     ledger_index, info>>
  BY DEF TruncateEntryPoints, ImportEntryPoint, Reading, fileVars, ledgerVars
<1>2. /\ ReadingInv /\ full # None /\ reading # None /\ reading = IF reading.kind = "full" THEN full ELSE delta
  BY <1>1, FileRead DEF FileSections
<1>3. Prepared /\ ValidHeader(reading) /\ ledger_index = reading.ledger_index /\ info = reading.sep_index
  BY <1>1, <1>2 DEF ReadingInv, FileSections
<1>4. Prepared'  BY <1>1, <1>3, PreparedSame
<1>5. seps' \cup rest' = EntryPoints[reading.sep_index]
  <2>1. CASE TruncateEntryPoints  BY <2>1 DEF TruncateEntryPoints
  <2>2. CASE ImportEntryPoint
    <3>1. seps \cup rest = EntryPoints[reading.sep_index]  BY <1>2, <2>2 DEF ReadingInv, ImportEntryPoint, Reading
    <3> QED  BY <2>2, <3>1 DEF ImportEntryPoint
  <2> QED  BY <2>1, <2>2
<1>6. ReadingInv'  BY <1>1, <1>2, <1>3, <1>4, <1>5 DEF ReadingInv, FileSections, ValidHeader, Distance
<1> QED  BY <1>1, <1>6, FileKeeps DEF FileSections

\* Nothing is worth nothing.
LEMMA NothingHeld == NoDiffs = [a \in Addresses |-> BalanceOf({}, a)]
<1>1. ASSUME NEW a \in Addresses  PROVE BalanceOf({}, a) = ZeroBalance
  <2>1. Mine({}, a) = {} /\ Total({}) = 0  BY SumEmpty DEF Mine, Total
  <2>2. BalanceOf({}, a).amount = 0  BY <2>1, BalanceParts
  <2> QED  BY <2>2, NothingWorthNothing
<1> QED  BY <1>1 DEF NoDiffs

\* The outputs or the diffs follow.
LEMMA EntryPointsImportedKeeps ==
  ASSUME SnapshotInv, EntryPointsImported
  PROVE  SnapshotInv'
<1>1. /\ process = "starting" /\ section = "seps" /\ rest = {}
      /\ section' = (IF reading.kind = "full" THEN "outputs" ELSE "diffs")
      /\ rest' = (IF reading.kind = "full" THEN UnspentAt[reading.ledger_index] ELSE {})
      /\ diffs_left' = reading.diffs
      /\ UNCHANGED <<health, process, fileVars, full, delta, reading, imported_diffs, unspent, outputs, balances, treasury,
                     ledger_index, info, seps>>
  BY DEF EntryPointsImported, Reading, fileVars, ledgerVars
<1>2. /\ ReadingInv /\ full # None /\ reading # None /\ reading = (IF reading.kind = "full" THEN full ELSE delta)
      /\ SnapshotFile(reading, reading.kind) /\ reading.ledger_index \in Nat
  BY <1>1, FileRead DEF FileSections
<1>3. /\ Prepared /\ ValidHeader(reading) /\ ledger_index = reading.ledger_index /\ info = reading.sep_index
      /\ seps = EntryPoints[reading.sep_index]
  BY <1>1, <1>2 DEF ReadingInv, FileSections
<1>4. CASE reading.kind = "full"
  <2>1. OutputsRead'
    BY <1>1, <1>3, <1>4, NothingHeld DEF Prepared, OutputsRead
  <2>2. ReadingInv'  BY <1>1, <1>2, <1>3, <1>4, <2>1 DEF ReadingInv, FileSections, ValidHeader, Distance
  <2> QED  BY <1>1, <1>4, <2>2, FileKeeps DEF FileSections
<1>5. CASE reading.kind # "full"
  <2>1. Fits => Held(reading.ledger_index)  BY <1>3, <1>5 DEF Prepared
  <2>2. Fits' => Held(ledger_index)'
    <3>1. Fits' = Fits  BY <1>1 DEF Fits
    <3>2. Held(ledger_index)' = Held(ledger_index)  BY <1>1 DEF Held, Resurrected
    <3> QED  BY <1>3, <2>1, <3>1, <3>2
  <2>3. reading.diffs \in Seq(Nat)  BY <1>2 DEF SnapshotFile
  <2>4. DiffsRead(0)'
    <3>1. reading'.diffs \in Seq(Nat) /\ reading'.ledger_index \in Nat /\ ledger_index' = reading'.ledger_index
          /\ diffs_left' = reading'.diffs /\ Len(reading'.diffs) \in Nat
      BY <1>1, <1>2, <1>3, <2>3
    <3> QED  BY <3>1 DEF DiffsRead, IndexAfter
  <2>5. ReadingInv'  BY <1>1, <1>2, <1>3, <1>5, <2>2, <2>4 DEF ReadingInv, FileSections, ValidHeader, Distance
  <2> QED  BY <1>1, <1>5, <2>5, FileKeeps DEF FileSections
<1> QED  BY <1>4, <1>5

-----------------------------------------------------------------------------
\* One output of a full snapshot.
LEMMA ImportOutputKeeps ==
  ASSUME SnapshotInv, ImportOutput
  PROVE  SnapshotInv'
<1>1. /\ process = "starting" /\ section = "outputs" /\ section' = "outputs"
      /\ UNCHANGED <<health, process, fileVars, full, delta, reading, balances, treasury, ledger_index, info, seps, diffs_left>>
  BY DEF ImportOutput, Reading, fileVars
<1>2. PICK o \in rest : /\ outputs' = outputs \cup {o} /\ unspent' = unspent \cup {o} /\ rest' = rest \ {o}
                        /\ imported_diffs' = Merge(imported_diffs, DiffsOf({o}, {}))
  BY DEF ImportOutput
<1>3. /\ ReadingInv /\ full # None /\ reading # None /\ reading = (IF reading.kind = "full" THEN full ELSE delta)
      /\ reading.ledger_index \in Nat
  BY <1>1, FileRead DEF FileSections
<1>4. /\ OutputsRead /\ ValidHeader(reading) /\ ledger_index = reading.ledger_index /\ info = reading.sep_index
      /\ seps = EntryPoints[reading.sep_index]
  BY <1>1, <1>3 DEF ReadingInv, FileSections
<1>5. UnspentAt[reading.ledger_index] \in SUBSET OutputIds  BY <1>3, UnspentFollows
<1>6. unspent \in SUBSET OutputIds /\ o \in OutputIds /\ o \notin unspent  BY <1>2, <1>4, <1>5 DEF OutputsRead
<1>7. imported_diffs' = [a \in Addresses |-> BalanceOf(unspent \cup {o}, a)]
  <2>1. imported_diffs = [a \in Addresses |-> BalanceOf(unspent, a)]  BY <1>4 DEF OutputsRead
  <2> QED  BY <1>2, <1>6, <2>1, OutputImported
<1>8. OutputsRead'
  <2>1. /\ reading.kind = "full" /\ treasury = {TreasuryAt[reading.ledger_index]}
        /\ unspent \cup rest = UnspentAt[reading.ledger_index] /\ unspent \cap rest = {}
        /\ unspent \subseteq outputs /\ balances = [a \in Addresses |-> ZeroBalance] /\ diffs_left = reading.diffs
    BY <1>4 DEF OutputsRead
  <2>2. /\ unspent' \cup rest' = UnspentAt[reading.ledger_index] /\ unspent' \cap rest' = {} /\ unspent' \subseteq outputs'
    BY <1>2, <2>1
  <2>3. imported_diffs' = [a \in Addresses |-> BalanceOf(unspent', a)]  BY <1>2, <1>7
  <2>4. reading' = reading /\ treasury' = treasury /\ balances' = balances /\ diffs_left' = diffs_left  BY <1>1
  <2> QED  BY <2>1, <2>2, <2>3, <2>4 DEF OutputsRead
<1>9. ReadingInv'  BY <1>1, <1>3, <1>4, <1>8 DEF ReadingInv, FileSections, ValidHeader, Distance
<1> QED  BY <1>1, <1>9, FileKeeps DEF FileSections

\* The balances of all of them.
LEMMA ApplyBalanceDiffsKeeps ==
  ASSUME SnapshotInv, ApplyBalanceDiffs
  PROVE  SnapshotInv'
<1>1. /\ process = "starting" /\ section = "outputs" /\ section' = "diffs" /\ rest = {}
      /\ balances' = ApplyDiffs(imported_diffs)
      /\ UNCHANGED <<health, process, fileVars, full, delta, reading, treasury, ledger_index, info, seps, diffs_left,
                     unspent, outputs>>
  BY DEF ApplyBalanceDiffs, Reading, fileVars, restVars
<1>2. /\ ReadingInv /\ full # None /\ reading # None /\ reading = (IF reading.kind = "full" THEN full ELSE delta)
      /\ reading.ledger_index \in Nat /\ SnapshotFile(reading, reading.kind)
  BY <1>1, FileRead DEF FileSections
<1>3. /\ OutputsRead /\ ValidHeader(reading) /\ ledger_index = reading.ledger_index /\ info = reading.sep_index
      /\ seps = EntryPoints[reading.sep_index]
  BY <1>1, <1>2 DEF ReadingInv, FileSections
<1>4. unspent = UnspentAt[reading.ledger_index] /\ diffs_left = reading.diffs  BY <1>1, <1>3 DEF OutputsRead
<1>5. unspent \in SUBSET OutputIds  BY <1>2, <1>4, UnspentFollows
<1>6. \A a \in Addresses : balances'[a] = BalanceOf(unspent, a)
  <2>1. imported_diffs = [a \in Addresses |-> BalanceOf(unspent, a)] /\ balances = [a \in Addresses |-> ZeroBalance]
    BY <1>3 DEF OutputsRead
  <2>2. \A a \in Addresses : ApplyDiffs([x \in Addresses |-> BalanceOf(unspent, x)])[a] = BalanceOf(unspent, a)
    BY <1>5, <2>1, BalancesImported
  <2> QED  BY <1>1, <2>1, <2>2
<1>7. Held(ledger_index)'
  <2>1. unspent \subseteq outputs /\ treasury = {TreasuryAt[ledger_index]}  BY <1>3 DEF OutputsRead
  <2> QED  BY <1>1, <1>3, <1>4, <1>6, <2>1 DEF Held
<1>8. DiffsRead(0)'
  <2>1. reading'.diffs \in Seq(Nat) /\ reading'.ledger_index \in Nat /\ ledger_index' = reading'.ledger_index
        /\ diffs_left' = reading'.diffs /\ Len(reading'.diffs) \in Nat
    BY <1>1, <1>2, <1>3, <1>4 DEF SnapshotFile
  <2> QED  BY <2>1 DEF DiffsRead, IndexAfter
<1>9. ReadingInv'  BY <1>1, <1>2, <1>3, <1>7, <1>8 DEF ReadingInv, FileSections, ValidHeader, Distance
<1> QED  BY <1>1, <1>9, FileKeeps DEF FileSections

\* The next diff of a file: a full snapshot only goes back and a delta one
\* only forward, since no diff is there twice, and never past the sep index.
LEMMA NextDiff ==
  ASSUME SnapshotInv, process = "starting", section = "diffs", diffs_left # <<>>,
         NEW n \in Nat, DiffsRead(n)
  PROVE  /\ n + 1 \in Nat /\ n + 1 <= Len(reading.diffs) /\ Head(diffs_left) = reading.diffs[n + 1]
         /\ Head(diffs_left) = ledger_index + 1 =>
              /\ reading.kind = "delta" /\ ledger_index + 1 = reading.ledger_index + (n + 1)
              /\ ledger_index + 1 \in DOMAIN History
         /\ Head(diffs_left) = ledger_index =>
              /\ reading.kind = "full" /\ ledger_index - 1 = reading.ledger_index - (n + 1)
              /\ ledger_index = reading.ledger_index - n /\ ledger_index \in DOMAIN History
<1>1. /\ ReadingInv /\ reading.kind \in {"full", "delta"} /\ SnapshotFile(reading, reading.kind)
      /\ reading.ledger_index \in Nat /\ reading.sep_index \in Nat
      /\ reading.ledger_index \in 0 .. Len(History) /\ reading.sep_index \in 0 .. Len(History)
  BY FileRead DEF FileSections
<1> DEFINE L == reading.ledger_index
           S == reading.sep_index
           D == reading.diffs
           N == Len(History)
<1>2. D \in Seq(Nat) /\ Len(D) \in Nat /\ DOMAIN D = 1 .. Len(D)  BY <1>1 DEF SnapshotFile
<1>3. Distance(reading) = Len(D)  BY <1>1 DEF ReadingInv, FileSections, ValidHeader
<1>4. /\ n \in 0 .. Len(D) /\ ledger_index = (IF reading.kind = "full" THEN L - n ELSE L + n)
      /\ diffs_left \in Seq(Nat) /\ Len(diffs_left) = Len(D) - n
      /\ \A k \in 1 .. Len(diffs_left) : diffs_left[k] = D[n + k]
      /\ \A k \in 1 .. n : D[k] = IF reading.kind = "full" THEN L + 1 - k ELSE L + k
  BY DEF DiffsRead, IndexAfter
<1>5. Len(diffs_left) >= 1 /\ Head(diffs_left) = diffs_left[1]  BY <1>4
<1>6. n + 1 \in Nat /\ n + 1 <= Len(D) /\ Head(diffs_left) = D[n + 1]  BY <1>2, <1>4, <1>5
<1>7. n >= 1 => D[n + 1] # D[n]
  <2>1. \A i, j \in DOMAIN D : D[i] = D[j] => i = j  BY <1>1 DEF SnapshotFile
  <2>2. n >= 1 => n \in DOMAIN D /\ n + 1 \in DOMAIN D  BY <1>2, <1>6
  <2> HIDE DEF D
  <2> QED  BY <2>1, <2>2
<1>8. D[n + 1] \in Nat /\ (n >= 1 => D[n] \in Nat)
  <2>1. n + 1 \in 1 .. Len(D) /\ (n >= 1 => n \in 1 .. Len(D))  BY <1>2, <1>6
  <2>2. \A k \in 1 .. Len(D) : D[k] \in Nat
    <3>1. D \in Seq(Nat)  BY <1>2
    <3> HIDE DEF D
    <3> QED  BY <3>1
  <2> HIDE DEF D
  <2> QED  BY <2>1, <2>2
<1>9. n >= 1 => D[n] = IF reading.kind = "full" THEN L + 1 - n ELSE L + n  BY <1>4
<1>10. L \in Nat /\ S \in Nat /\ L <= N /\ S <= N /\ N \in Nat /\ DOMAIN History = 1 .. N  BY <1>1, SnapshotAssumption
<1>11. CASE reading.kind = "full"
  <2>1. L - S = Len(D)  BY <1>3, <1>11 DEF Distance
  <2>2. D[n + 1] <= L
    <3>1. \A i \in DOMAIN D : D[i] <= L  BY <1>1, <1>11 DEF SnapshotFile
    <3>2. n + 1 \in DOMAIN D  BY <1>2, <1>6
    <3> HIDE DEF D, L
    <3> QED  BY <3>1, <3>2
  <2>3. ledger_index = L - n /\ (n >= 1 => D[n] = L + 1 - n)  BY <1>4, <1>9, <1>11
  <2> HIDE DEF D, L, S, N
  <2>4. D[n + 1] # ledger_index + 1
    <3>1. CASE n = 0  BY <1>8, <1>10, <2>2, <2>3, <3>1
    <3>2. CASE n # 0  BY <1>7, <1>8, <1>10, <2>3, <3>2
    <3> QED  BY <3>1, <3>2
  <2>5. ledger_index - 1 = L - (n + 1) /\ ledger_index \in DOMAIN History
    BY <1>2, <1>6, <1>10, <2>1, <2>3
  <2> QED  BY <1>6, <1>11, <2>3, <2>4, <2>5 DEF D, L
<1>12. CASE reading.kind = "delta"
  <2>1. S - L = Len(D)  BY <1>3, <1>12 DEF Distance
  <2>2. L < D[n + 1]
    <3>1. \A i \in DOMAIN D : L < D[i]  BY <1>1, <1>12 DEF SnapshotFile
    <3>2. n + 1 \in DOMAIN D  BY <1>2, <1>6
    <3> HIDE DEF D, L
    <3> QED  BY <3>1, <3>2
  <2>3. ledger_index = L + n /\ (n >= 1 => D[n] = L + n)  BY <1>4, <1>9, <1>12
  <2> HIDE DEF D, L, S, N
  <2>4. D[n + 1] # ledger_index
    <3>1. CASE n = 0  BY <1>8, <1>10, <2>2, <2>3, <3>1
    <3>2. CASE n # 0  BY <1>7, <1>8, <1>10, <2>3, <3>2
    <3> QED  BY <3>1, <3>2
  <2>5. ledger_index + 1 = L + (n + 1) /\ ledger_index + 1 \in DOMAIN History
    BY <1>2, <1>6, <1>10, <2>1, <2>3
  <2> QED  BY <1>6, <1>12, <2>3, <2>4, <2>5 DEF D, L
<1> QED  BY <1>1, <1>11, <1>12

\* One diff further.
LEMMA DiffTaken ==
  ASSUME NEW n \in Nat, DiffsRead(n), reading.diffs \in Seq(Nat), n + 1 <= Len(reading.diffs), UNCHANGED reading,
         diffs_left # <<>>, diffs_left' = Tail(diffs_left), ledger_index' = IndexAfter(reading, n + 1),
         reading.diffs[n + 1] = IF reading.kind = "full" THEN reading.ledger_index + 1 - (n + 1)
                                ELSE reading.ledger_index + (n + 1)
  PROVE  DiffsRead(n + 1)'
<1> DEFINE L == reading.ledger_index
           D == reading.diffs
<1>1. Len(D) \in Nat /\ n + 1 \in 0 .. Len(D)  OBVIOUS
<1>2. /\ diffs_left \in Seq(Nat) /\ Len(diffs_left) = Len(D) - n
      /\ \A k \in 1 .. Len(diffs_left) : diffs_left[k] = D[n + k]
      /\ \A k \in 1 .. n : D[k] = IF reading.kind = "full" THEN L + 1 - k ELSE L + k
  BY DEF DiffsRead
<1>3. /\ diffs_left' \in Seq(Nat) /\ Len(diffs_left') = Len(D) - (n + 1)
      /\ \A k \in 1 .. Len(diffs_left') : diffs_left'[k] = diffs_left[k + 1]
  BY <1>1, <1>2
<1>4. ASSUME NEW k \in 1 .. Len(diffs_left')  PROVE diffs_left'[k] = D[n + 1 + k]
  <2>1. k + 1 \in 1 .. Len(diffs_left) /\ n + (k + 1) = n + 1 + k  BY <1>1, <1>2, <1>3
  <2>2. diffs_left[k + 1] = D[n + (k + 1)]  BY <1>2, <2>1
  <2> QED  BY <1>3, <2>1, <2>2
<1>5. ASSUME NEW k \in 1 .. (n + 1)  PROVE D[k] = IF reading.kind = "full" THEN L + 1 - k ELSE L + k
  <2>1. CASE k = n + 1  BY <2>1
  <2>2. CASE k # n + 1
    <3>1. k \in 1 .. n  BY <2>2
    <3> QED  BY <1>2, <3>1
  <2> QED  BY <2>1, <2>2
<1> QED  BY <1>1, <1>3, <1>4, <1>5 DEF DiffsRead, IndexAfter

-----------------------------------------------------------------------------
\* The diffs of a delta snapshot are applied, those of a full one rolled back.
LEMMA DiffKeeps ==
  ASSUME SnapshotInv, ApplyMilestoneDiff \/ RollbackMilestoneDiff
  PROVE  SnapshotInv'
<1>1. /\ process = "starting" /\ section = "diffs" /\ section' = "diffs" /\ diffs_left # <<>>
      /\ diffs_left' = Tail(diffs_left)
      /\ UNCHANGED <<health, process, fileVars, full, delta, reading, info, seps>>
  BY DEF ApplyMilestoneDiff, RollbackMilestoneDiff, Reading, fileVars
<1>2. /\ ReadingInv /\ full # None /\ reading # None /\ reading = (IF reading.kind = "full" THEN full ELSE delta)
      /\ reading.ledger_index \in Nat /\ SnapshotFile(reading, reading.kind)
  BY <1>1, FileRead DEF FileSections
<1>3. /\ ValidHeader(reading) /\ info = reading.sep_index /\ seps = EntryPoints[reading.sep_index]
      /\ (reading.kind = "full" \/ Fits => Held(ledger_index)) /\ \E n \in Nat : DiffsRead(n)
  BY <1>1, <1>2 DEF ReadingInv, FileSections
<1>4. PICK n \in Nat : DiffsRead(n)  BY <1>3
<1>5. /\ n + 1 \in Nat /\ n + 1 <= Len(reading.diffs) /\ Head(diffs_left) = reading.diffs[n + 1]
      /\ Head(diffs_left) = ledger_index + 1 =>
           /\ reading.kind = "delta" /\ ledger_index + 1 = reading.ledger_index + (n + 1)
           /\ ledger_index + 1 \in DOMAIN History
      /\ Head(diffs_left) = ledger_index =>
           /\ reading.kind = "full" /\ ledger_index - 1 = reading.ledger_index - (n + 1)
           /\ ledger_index = reading.ledger_index - n /\ ledger_index \in DOMAIN History
  BY <1>1, <1>4, NextDiff
<1>6. reading.diffs \in Seq(Nat)  BY <1>2 DEF SnapshotFile
<1>7. (reading'.kind = "full" \/ Fits' => Held(ledger_index)') /\ DiffsRead(n + 1)'
  <2>1. CASE ApplyMilestoneDiff
    <3>1. /\ Head(diffs_left) = ledger_index + 1
          /\ ApplyMilestone(Head(diffs_left), History[Head(diffs_left)].created, History[Head(diffs_left)].consumed,
                            DiffOfMilestone(Head(diffs_left)), History[Head(diffs_left)].migration)
      BY <2>1 DEF ApplyMilestoneDiff
    <3>2. PICK i \in DOMAIN History : i = Head(diffs_left)  BY <1>5, <3>1
    <3>3. ApplyMilestone(i, History[i].created, History[i].consumed, DiffOfMilestone(i), History[i].migration)
      BY <3>1, <3>2
    <3>4. ledger_index' = i  BY <3>3 DEF ApplyMilestone
    <3>5. reading.kind = "delta" /\ i = reading.ledger_index + (n + 1) /\ i = ledger_index + 1  BY <1>5, <3>1, <3>2
    <3>6. Fits => Held(i - 1)
      <4>1. ledger_index = reading.ledger_index + n  BY <1>4, <3>5 DEF DiffsRead, IndexAfter
      <4>2. i - 1 = ledger_index  BY <1>2, <3>5, <4>1
      <4> QED  BY <1>3, <4>2
    <3>7. reading.diffs[n + 1] = reading.ledger_index + (n + 1)  BY <1>5, <3>2, <3>5
    <3>8. ledger_index' = IndexAfter(reading, n + 1)  BY <3>4, <3>5 DEF IndexAfter
    <3>9. DiffsRead(n + 1)'  BY <1>1, <1>4, <1>5, <1>6, <3>5, <3>7, <3>8, DiffTaken
    <3>10. Fits => Held(i)'  BY <1>1, <3>3, <3>6, MilestoneApplied
    <3>11. Held(i)' => Held(ledger_index)'  BY <3>4 DEF Held, Resurrected
    <3>12. Fits' = Fits  BY <1>1 DEF Fits
    <3> QED  BY <1>1, <3>5, <3>9, <3>10, <3>11, <3>12
  <2>2. CASE RollbackMilestoneDiff
    <3>1. /\ Head(diffs_left) = ledger_index
          /\ RollbackMilestone(Head(diffs_left), History[Head(diffs_left)].created, History[Head(diffs_left)].consumed,
                               DiffOfMilestone(Head(diffs_left)), History[Head(diffs_left)].migration)
      BY <2>2 DEF RollbackMilestoneDiff
    <3>2. PICK i \in DOMAIN History : i = Head(diffs_left)  BY <1>5, <3>1
    <3>3. RollbackMilestone(i, History[i].created, History[i].consumed, DiffOfMilestone(i), History[i].migration)
      BY <3>1, <3>2
    <3>4. ledger_index' = i - 1  BY <3>3 DEF RollbackMilestone
    <3>5. /\ reading.kind = "full" /\ i - 1 = reading.ledger_index - (n + 1)
          /\ i = reading.ledger_index - n /\ i = ledger_index
      BY <1>5, <3>1, <3>2
    <3>6. Held(i)  BY <1>3, <3>5
    <3>7. reading.diffs[n + 1] = reading.ledger_index + 1 - (n + 1)
      <4>1. reading.ledger_index - n = reading.ledger_index + 1 - (n + 1)  BY <1>2
      <4> QED  BY <1>5, <3>2, <3>5, <4>1
    <3>8. ledger_index' = IndexAfter(reading, n + 1)  BY <3>4, <3>5 DEF IndexAfter
    <3>9. DiffsRead(n + 1)'  BY <1>1, <1>4, <1>5, <1>6, <3>5, <3>7, <3>8, DiffTaken
    <3>10. i <= full.ledger_index  BY <1>2, <3>5
    <3>11. Held(i - 1)'  BY <1>1, <3>3, <3>6, <3>10, MilestoneRolledBack
    <3>12. Held(ledger_index)'  BY <3>4, <3>11 DEF Held, Resurrected
    <3> QED  BY <3>9, <3>12
  <2> QED  BY <2>1, <2>2
<1>8. \E m \in Nat : DiffsRead(m)'  BY <1>5, <1>7
<1>9. ReadingInv'  BY <1>1, <1>2, <1>3, <1>7, <1>8 DEF ReadingInv, FileSections, ValidHeader, Distance
<1> QED  BY <1>1, <1>9, FileKeeps DEF FileSections

\* At its end a file has brought the ledger to its sep index.
LEMMA EndOfFileKeeps ==
  ASSUME SnapshotInv, EndOfFile
  PROVE  SnapshotInv'
<1>1. /\ process = "starting" /\ section = "diffs" /\ diffs_left = <<>>
      /\ reading' = (IF reading.kind = "full" THEN delta ELSE None)
      /\ section' = (IF reading.kind = "full" /\ delta # None THEN "header" ELSE "done")
      /\ UNCHANGED <<health, process, fileVars, full, delta, info, seps, ledgerVars>>
  BY DEF EndOfFile, Reading, fileVars
<1>2. /\ ReadingInv /\ full # None /\ reading # None /\ reading = (IF reading.kind = "full" THEN full ELSE delta)
      /\ reading.kind \in {"full", "delta"}
      /\ reading.ledger_index \in Nat /\ reading.sep_index \in Nat /\ SnapshotFile(reading, reading.kind)
  BY <1>1, FileRead DEF FileSections
<1>3. /\ ValidHeader(reading) /\ info = reading.sep_index /\ seps = EntryPoints[reading.sep_index]
      /\ (reading.kind = "full" \/ Fits => Held(ledger_index)) /\ \E n \in Nat : DiffsRead(n)
  BY <1>1, <1>2 DEF ReadingInv, FileSections
<1>4. ledger_index = reading.sep_index
  <2>1. PICK n \in Nat : DiffsRead(n)  BY <1>3
  <2>2. Len(diffs_left) = 0 /\ Len(diffs_left) = Len(reading.diffs) - n /\ ledger_index = IndexAfter(reading, n)
    BY <1>1, <2>1 DEF DiffsRead
  <2>3. Len(reading.diffs) \in Nat  BY <1>2 DEF SnapshotFile
  <2>4. n = Len(reading.diffs)  BY <2>2, <2>3
  <2>5. Distance(reading) = n  BY <1>3, <2>4 DEF ValidHeader
  <2> QED  BY <1>2, <2>2, <2>5 DEF Distance, IndexAfter
<1>5. reading.kind = "full" \/ Fits => Held(reading.sep_index)  BY <1>3, <1>4
<1>6. CASE reading.kind = "full" /\ delta # None
  <2>1. delta.kind = "delta" /\ reading = full  BY <1>2, <1>6 DEF SnapshotInv, FilesInv, SnapshotFile
  <2>2. Fits' => Held(delta.ledger_index)'
    <3>1. Fits => delta.ledger_index = reading.sep_index  BY <1>2, <1>6, <2>1 DEF Fits
    <3>2. Fits => Held(delta.ledger_index)  BY <1>5, <1>6, <3>1
    <3>3. UNCHANGED <<unspent, outputs, treasury, balances, full, delta>>  BY <1>1 DEF ledgerVars
    <3>4. Fits' = Fits /\ Held(delta.ledger_index)' = Held(delta.ledger_index)  BY <3>3 DEF Fits, Held, Resurrected
    <3> QED  BY <3>2, <3>4
  <2>3. ReadingInv'  BY <1>1, <1>2, <1>6, <2>1, <2>2 DEF ReadingInv, Before, FileSections
  <2> QED  BY <1>1, <1>6, <2>3, FileKeeps DEF FileSections
<1>7. CASE ~(reading.kind = "full" /\ delta # None)
  <2>1. Target = reading.sep_index  BY <1>2, <1>7 DEF Target
  <2>2. Whole  BY <1>2, <1>3, <1>4, <1>5, <1>7, <2>1 DEF Whole
  <2>3. Whole'  BY <1>1, <2>2, WholeSame
  <2>4. section' = "done"  BY <1>1, <1>7
  <2>5. FilesInv' /\ DownloadInv' /\ ReadingInv'
    BY <1>1, <2>4 DEF SnapshotInv, FilesInv, fileVars, Consistent, IsConsistent, DownloadInv, ReadingInv, FileSections
  <2> QED  BY <1>1, <2>3, <2>4, <2>5, StartingKeeps
<1> QED  BY <1>6, <1>7

-----------------------------------------------------------------------------
\* Every step.
LEMMA SnapshotInvNext == SnapshotInv /\ [SnapshotNext]_snapshotVars => SnapshotInv'
<1> SUFFICES ASSUME SnapshotInv, [SnapshotNext]_snapshotVars  PROVE SnapshotInv'  OBVIOUS
<1>1. CASE Start \/ StartRefused \/ Crash \/ Validate \/ Stop \/ Done \/ UNCHANGED snapshotVars  BY <1>1, LifeKeeps DEF Done
<1>2. CASE OnlyDeltaExists \/ NoDownloadSourceAvailable \/ FullMissing \/ HeaderError \/ DiffError \/ RemainingBytes
  BY <1>2, ErrorKeeps DEF OnlyDeltaExists, NoDownloadSourceAvailable, FullMissing, HeaderError, DiffError, RemainingBytes
<1>3. CASE FilesPresent \/ OpenFull  BY <1>3, OpenKeeps
<1>4. CASE GatherSources \/ DownloadFull \/ DownloadDelta  BY <1>4, DownloadKeeps
<1>5. CASE ImportTreasury  BY <1>5, ImportTreasuryKeeps
<1>6. CASE ImportIndex \/ ImportInfo  BY <1>6, ImportIndexKeeps
<1>7. CASE TruncateEntryPoints \/ ImportEntryPoint  BY <1>7, ImportEntryPointsKeeps
<1>8. CASE EntryPointsImported  BY <1>8, EntryPointsImportedKeeps
<1>9. CASE ImportOutput  BY <1>9, ImportOutputKeeps
<1>10. CASE ApplyBalanceDiffs  BY <1>10, ApplyBalanceDiffsKeeps
<1>11. CASE ApplyMilestoneDiff \/ RollbackMilestoneDiff  BY <1>11, DiffKeeps
<1>12. CASE EndOfFile  BY <1>12, EndOfFileKeeps
<1> QED  BY <1>1, <1>2, <1>3, <1>4, <1>5, <1>6, <1>7, <1>8, <1>9, <1>10, <1>11, <1>12 DEF SnapshotNext

\* SnapshotInv always holds.
LEMMA SnapshotInvAlways == SnapshotSpec => []SnapshotInv
BY SnapshotInvInit, SnapshotInvNext, PTL DEF SnapshotSpec

\* A node that runs has imported all of its files and, if they fit, holds the
\* ledger of their last milestone with the balances of its outputs, whatever
\* crashed before; downloaded files fit if the full snapshot is that of the
\* last source (import_snapshots, download_latest_snapshot_files,
\* validate_ledger_state).
THEOREM NodeRunsOnImport == SnapshotSpec => []RunsOnImport
<1>1. SnapshotInv => RunsOnImport
  <2> SUFFICES ASSUME SnapshotInv  PROVE RunsOnImport  OBVIOUS
  <2>1. process = "running" => Validated  BY DEF SnapshotInv
  <2>2. RunsOnWholeSnapshot /\ RunsOnMatchingBalances
    <3> HIDE DEF Target, Fits
    <3> QED  BY <2>1 DEF RunsOnWholeSnapshot, RunsOnMatchingBalances, Validated, Whole, Held, BalancesMatch
  <2>3. DownloadsFit
    <3> SUFFICES ASSUME source # None, full = source.full, delta # None  PROVE delta.ledger_index = full.sep_index
      BY DEF DownloadsFit, Fits
    <3>1. source \in Consistent /\ delta = source.delta  BY DEF SnapshotInv, FilesInv
    <3> QED  BY <3>1, ConsistentFiles
  <2> QED  BY <2>2, <2>3 DEF RunsOnImport
<1> QED  BY <1>1, SnapshotInvAlways, PTL

\* The import of files that fit yields a ledger that validate_ledger_state
\* accepts, however many diffs are rolled back and applied, unless the rollback
\* left an output unspent that its milestone had both created and consumed
\* (import_milestone_diffs, rollback_milestone).
THEOREM ImportsAreValid == SnapshotSpec => []ImportValid
<1>1. SnapshotInv => ImportValid
  <2> SUFFICES ASSUME SnapshotInv, process = "starting", section = "done", Fits, Resurrected(Target) = {}
               PROVE  ValidUnspentState /\ ValidBalanceState
    BY DEF ImportValid
  <2>1. Whole /\ FilesInv  BY DEF SnapshotInv
  <2> QED  BY <2>1, ValidWhole
<1> QED  BY <1>1, SnapshotInvAlways, PTL

\* The powers that a score is compared with.
LEMMA PowersOfThree ==
  /\ \A n \in Nat : PowerOfThree[n] \in Nat \ {0}
  /\ \A n \in Nat : PowerOfThree[n + 1] = 3 * PowerOfThree[n]
<1> DEFINE S == Nat \ {0}
           step == [p \in Nat \X S |-> 3 * p[2]]
           Def(f) == [n \in Nat |-> IF n = 0 THEN 1 ELSE 3 * f[n - 1]]
<1>1. step \in [Nat \X S -> S]  OBVIOUS
<1>2. PICK f : RecursAlways(S, 1, step, f)
  <2> DEFINE one == 1
  <2>1. one \in S  OBVIOUS
  <2> HIDE DEF S, step, one
  <2>2. \E f : RecursAlways(S, one, step, f)  BY ONLY <1>1, <2>1, RecursionExists
  <2> QED  BY <2>2 DEF one
<1>3. ASSUME NEW n \in Nat  PROVE f[n] \in Nat \ {0} /\ f[n + 1] = 3 * f[n]
  <2>1. f[n] \in S /\ f[n + 1] = step[<<n + 1, f[n]>>]  BY <1>2 DEF RecursAlways
  <2>2. <<n + 1, f[n]>> \in Nat \X S  BY <2>1
  <2> QED  BY <2>1, <2>2
<1>4. f = Def(f)
  <2>1. ASSUME NEW n \in Nat  PROVE f[n] = IF n = 0 THEN 1 ELSE 3 * f[n - 1]
    <3>1. CASE n = 0  BY <1>2, <3>1 DEF RecursAlways
    <3>2. CASE n # 0
      <4>1. n - 1 \in Nat /\ (n - 1) + 1 = n  BY <3>2
      <4> QED  BY <4>1, <1>3, <3>2
    <3> QED  BY <3>1, <3>2
  <2>2. f = [n \in Nat |-> f[n]]  BY <1>2 DEF RecursAlways
  <2> QED  BY <2>1, <2>2
<1>5. PowerOfThree = Def(PowerOfThree)
  <2>1. PowerOfThree = CHOOSE g : g = Def(g)  BY DEF PowerOfThree
  <2>2. \E g : g = Def(g)  BY <1>4
  <2> HIDE DEF Def
  <2> QED  BY <2>1, <2>2
<1>6. ASSUME NEW n \in Nat  PROVE PowerOfThree[n] = f[n]
  <2> DEFINE G == {i \in Nat : PowerOfThree[i] = f[i]}
  <2>1. 0 \in G  BY <1>2, <1>5 DEF RecursAlways
  <2>2. ASSUME NEW i \in Nat, i \in G  PROVE i + 1 \in G
    <3>1. PowerOfThree[i + 1] = 3 * PowerOfThree[i]
      <4>1. i + 1 \in Nat /\ i + 1 # 0 /\ (i + 1) - 1 = i  OBVIOUS
      <4> QED  BY <4>1, <1>5
    <3> QED  BY <3>1, <1>3, <2>2
  <2>3. Nat \subseteq G
    <3> HIDE DEF G
    <3> QED  BY <2>1, <2>2, NatSetInduction
  <2> QED  BY <2>3
<1> QED  BY <1>3, <1>6
(* More zeros give at least the score.                                     *)
LEMMA PowerGrows ==
  ASSUME NEW n \in Nat, NEW m \in Nat, n <= m
  PROVE  PowerOfThree[n] <= PowerOfThree[m]
<1> DEFINE G == {i \in Nat : n <= i => PowerOfThree[n] <= PowerOfThree[i]}
<1>0. PowerOfThree[n] \in Nat  BY PowersOfThree
<1>1. 0 \in G
  <2>1. n <= 0 => n = 0  OBVIOUS
  <2> QED  BY <1>0, <2>1
<1>2. ASSUME NEW i \in Nat, i \in G  PROVE i + 1 \in G
  <2>1. PowerOfThree[i] \in Nat /\ PowerOfThree[i + 1] = 3 * PowerOfThree[i]  BY PowersOfThree
  <2>2. CASE n <= i  BY <1>0, <1>2, <2>1, <2>2
  <2>3. CASE n = i + 1  BY <1>0, <2>3
  <2>4. CASE n > i + 1  BY <2>4
  <2> QED  BY <2>2, <2>3, <2>4
<1>3. Nat \subseteq G
  <2> HIDE DEF G
  <2> QED  BY <1>1, <1>2, NatSetInduction
<1> QED  BY <1>3

(* target_zeros of a score that some hash can reach are enough for it.     *)
LEMMA TargetZeros ==
  ASSUME NEW c \in [len : Nat, target_score : Nat]
  PROVE  /\ target_zeros(c) \in 0 .. HASH_LENGTH + 1
         /\ target_zeros(c) <= HASH_LENGTH => PowerOfThree[target_zeros(c)] >= c.len * c.target_score
<1> DEFINE Z == {z \in 0 .. HASH_LENGTH + 1 :
                   z = HASH_LENGTH + 1 \/ PowerOfThree[z] >= c.len * c.target_score}
<1>1. HASH_LENGTH \in Nat  BY MinerAssumption
<1>2. Z \subseteq 0 .. HASH_LENGTH + 1 /\ HASH_LENGTH + 1 \in Z  BY <1>1
<1>3. IsFiniteSet(0 .. HASH_LENGTH + 1)  BY <1>1, FS_Interval
<1>4. IsFiniteSet(Z) /\ Z \subseteq Int  BY <1>1, <1>2, <1>3, FS_Subset
<1>5. Min(Z) \in Z
  <2> HIDE DEF Z
  <2> QED  BY <1>2, <1>4, MinIsElement
<1>6. target_zeros(c) = Min(Z)  BY DEF target_zeros
<1>7. target_zeros(c) \in Z  BY <1>5, <1>6
<1> QED  BY <1>1, <1>7

-----------------------------------------------------------------------------
States == {"idle", "check", "hash", "done"}
Nonces == 0 .. U64 - 1

(* A nonce with enough zeros for the score of the call under way.          *)
Scores(n) == call > 0 /\ Zeros[n] >= target_zeros(Calls[call]) /\ target_zeros(Calls[call]) <= HASH_LENGTH

MinerTypeOK ==
  /\ cancel \in BOOLEAN /\ triggered \in BOOLEAN
  /\ call \in 0 .. Len(Calls)
  /\ at \in [Threads -> States]
  /\ nonce \in [Threads -> Nonces]
  /\ found \in [Threads -> Nonces \cup {-1}]
  /\ joined \in 0 .. num_workers
  /\ answer \in Nonces \cup {NoAnswer, Invalid}

(* A thread that runs belongs to a call whose score can be reached and is  *)
(* not joined; one that is through found a nonce or saw the flag; the flag *)
(* means a nonce or the caller.                                            *)
MinerInv ==
  /\ MinerTypeOK
  /\ \A t \in Threads : at[t] # "idle" =>
       t >= joined /\ call > 0 /\ target_zeros(Calls[call]) <= HASH_LENGTH
  /\ \A t \in Threads : found[t] # -1 => Scores(found[t])
  /\ \A t \in Threads : at[t] = "done" \/ (call > 0 /\ t < joined) => cancel
  /\ cancel /\ ~triggered => \E t \in Threads : found[t] # -1
  /\ answer >= 0 => joined = num_workers /\ (triggered \/ Scores(answer))

\* Before the first call.
LEMMA MinerInitInv == MinerInit => MinerInv
<1> SUFFICES ASSUME MinerInit  PROVE MinerInv  OBVIOUS
<1>1. num_workers \in Nat \ {0} /\ U64 \in Nat \ {0} /\ Len(Calls) \in Nat
  BY MinerAssumption
<1>2. MinerTypeOK
  <2>1. 0 \in Nonces  BY <1>1 DEF Nonces
  <2>2. at \in [Threads -> States] /\ nonce \in [Threads -> Nonces] /\ found \in [Threads -> Nonces \cup {-1}]
    BY <2>1 DEF MinerInit, States
  <2>3. cancel \in BOOLEAN /\ triggered \in BOOLEAN  BY DEF MinerInit
  <2>4. call \in 0 .. Len(Calls) /\ joined \in 0 .. num_workers /\ answer \in Nonces \cup {NoAnswer, Invalid}
    BY <1>1 DEF MinerInit
  <2> QED  BY <2>2, <2>3, <2>4 DEF MinerTypeOK
<1> QED  BY <1>1, <1>2 DEF MinerInit, MinerInv, NoAnswer

(* What is called is a call of the list.                                   *)
LEMMA CallOf ==
  ASSUME NEW i \in 1 .. Len(Calls)
  PROVE  Calls[i] \in [len : Nat, target_score : Nat] /\ target_zeros(Calls[i]) \in Int
<1>1. Calls[i] \in [len : Nat, target_score : Nat]
  <2> DEFINE R == [len : Nat, target_score : Nat]
  <2>1. Calls \in Seq(R)  BY MinerAssumption
  <2> HIDE DEF R
  <2>2. Calls[i] \in R  BY <2>1
  <2> QED  BY <2>2 DEF R
<1>2. target_zeros(Calls[i]) \in 0 .. HASH_LENGTH + 1 /\ HASH_LENGTH \in Nat
  BY <1>1, TargetZeros, MinerAssumption
<1> QED  BY <1>1, <1>2

\* Miner::nonce starts its threads.
LEMMA CallNonceInv == MinerInv /\ CallNonce => MinerInv'
<1> SUFFICES ASSUME MinerInv, CallNonce  PROVE MinerInv'  OBVIOUS
<1>1. num_workers \in Nat \ {0} /\ U64 \in Nat \ {0} /\ Len(Calls) \in Nat /\ HASH_LENGTH \in Nat
  BY MinerAssumption
<1>2. call' \in 1 .. Len(Calls) /\ call' = call + 1  BY <1>1 DEF CallNonce, MinerInv, MinerTypeOK
<1>3. cancel' = FALSE /\ triggered' = FALSE /\ joined' = 0 /\ found' = [t \in Threads |-> -1]
  BY DEF CallNonce, Reset
<1>4. target_zeros(Calls[call']) \in Int  BY <1>2, CallOf
<1>5. CASE target_zeros(Calls[call + 1]) > HASH_LENGTH
  <2>1. answer' = Invalid /\ at' = at /\ nonce' = nonce  BY <1>5 DEF CallNonce
  <2>2. \A t \in Threads : at[t] = "idle"  BY DEF CallNonce
  <2>3. MinerTypeOK'
    <3>1. cancel' \in BOOLEAN /\ triggered' \in BOOLEAN  BY <1>3
    <3>2. found' \in [Threads -> Nonces \cup {-1}]  BY <1>3
    <3>3. joined' \in 0 .. num_workers /\ call' \in 0 .. Len(Calls)  BY <1>1, <1>2, <1>3
    <3> QED  BY <2>1, <3>1, <3>2, <3>3 DEF MinerTypeOK, MinerInv
  <2> QED  BY <1>1, <1>3, <2>1, <2>2, <2>3 DEF MinerInv, Invalid, Threads
<1>6. CASE ~(target_zeros(Calls[call + 1]) > HASH_LENGTH)
  <2>1. /\ answer' = NoAnswer /\ at' = [t \in Threads |-> "check"]
        /\ nonce' = [t \in Threads |-> t * ((U64 - 1) \div num_workers)]
    BY <1>6 DEF CallNonce
  <2>2. ASSUME NEW t \in Threads  PROVE t * ((U64 - 1) \div num_workers) \in Nonces
    <3> DEFINE w == (U64 - 1) \div num_workers
    <3>1. t \in Nat /\ t < num_workers  BY <1>1 DEF Threads
    <3>2. w \in Nat /\ num_workers * w <= U64 - 1  BY <1>1
    <3> HIDE DEF w
    <3>3. t * w <= num_workers * w /\ t * w \in Nat  BY <1>1, <3>1, <3>2
    <3> QED  BY <1>1, <3>2, <3>3 DEF Nonces, w
  <2>3. MinerTypeOK'
    <3>1. nonce' \in [Threads -> Nonces]  BY <2>1, <2>2
    <3>2. at' \in [Threads -> States] /\ found' \in [Threads -> Nonces \cup {-1}]
      BY <1>3, <2>1 DEF States
    <3>3. cancel' \in BOOLEAN /\ triggered' \in BOOLEAN  BY <1>3
    <3>4. joined' \in 0 .. num_workers /\ call' \in 0 .. Len(Calls)  BY <1>1, <1>2, <1>3
    <3> QED  BY <2>1, <3>1, <3>2, <3>3, <3>4 DEF MinerTypeOK
  <2>4. \A t \in Threads : t >= 0 /\ ~(t < 0)  BY <1>1 DEF Threads
  <2> QED  BY <1>1, <1>2, <1>3, <1>4, <1>6, <2>1, <2>3, <2>4 DEF MinerInv, NoAnswer
<1> QED  BY <1>5, <1>6

\* A thread looks at the flag.
LEMMA CheckCancelInv == ASSUME MinerInv, NEW t \in Threads, CheckCancel(t)  PROVE MinerInv'
<1>1. num_workers \in Nat \ {0} /\ \A u \in Threads : u \in Int  BY MinerAssumption DEF Threads
<1>2. at' = [at EXCEPT ![t] = IF cancel THEN "done" ELSE "hash"] /\ at[t] = "check"  BY DEF CheckCancel
<1>3. UNCHANGED <<cancel, call, nonce, found, joined, answer, triggered, cancels>>  BY DEF CheckCancel
<1>4. MinerTypeOK'  BY <1>2, <1>3 DEF MinerInv, MinerTypeOK, States
<1> QED  BY <1>1, <1>2, <1>3, <1>4 DEF MinerInv, MinerTypeOK, Scores

\* A thread hashes a batch, and may find a nonce.
LEMMA HashBatchInv == ASSUME MinerInv, NEW t \in Threads, HashBatch(t)  PROVE MinerInv'
<1>1. num_workers \in Nat \ {0} /\ \A u \in Threads : u \in 0 .. num_workers - 1  BY MinerAssumption DEF Threads
<1>2. U64 \in Nat \ {0} /\ BATCH_SIZE \in Nat /\ HASH_LENGTH \in Nat  BY MinerAssumption
<1>3. /\ at[t] = "hash" /\ call' = call /\ joined' = joined /\ answer' = answer /\ triggered' = triggered
      /\ cancels' = cancels
  BY DEF HashBatch
<1>4. t >= joined /\ call > 0 /\ target_zeros(Calls[call]) <= HASH_LENGTH  BY <1>3 DEF MinerInv
<1>5. joined # num_workers /\ ~(answer >= 0)  BY <1>1, <1>4 DEF MinerInv, MinerTypeOK
<1>6. CASE Winners(t) # {}
  <2>1. /\ cancel' = TRUE /\ nonce' = nonce /\ at' = [at EXCEPT ![t] = "done"]
        /\ found' = [found EXCEPT ![t] = (nonce[t] + Min(Winners(t))) % U64]
    BY <1>6 DEF HashBatch
  <2> DEFINE n == (nonce[t] + Min(Winners(t))) % U64
  <2>2. Winners(t) \subseteq 0 .. BATCH_SIZE - 1 /\ Winners(t) \subseteq Int
    BY <1>2 DEF Winners
  <2>3. IsFiniteSet(Winners(t))
    <3>1. IsFiniteSet(0 .. BATCH_SIZE - 1)  BY <1>2, FS_Interval
    <3> QED  BY <2>2, <3>1, FS_Subset
  <2>4. Min(Winners(t)) \in Winners(t)  BY <1>6, <2>2, <2>3, MinIsElement
  <2>5. Zeros[n] >= target_zeros(Calls[call])  BY <2>4 DEF Winners
  <2>6. n \in Nonces
    <3>1. nonce[t] \in Nat /\ Min(Winners(t)) \in Nat
      BY <1>2, <2>2, <2>4 DEF MinerInv, MinerTypeOK, Nonces
    <3> QED  BY <1>2, <3>1 DEF Nonces
  <2> HIDE DEF n
  <2>7. found' = [found EXCEPT ![t] = n]  BY <2>1 DEF n
  <2>8. n # -1  BY <2>6, <1>2 DEF Nonces
  <2>9. MinerTypeOK'
    BY <1>3, <2>1, <2>6, <2>7 DEF MinerInv, MinerTypeOK, States
  <2>10. \A u \in Threads : found'[u] # -1 => Scores(found[u])' 
    BY <1>3, <1>4, <2>5, <2>7 DEF MinerInv, MinerTypeOK, Scores
  <2>11. \E u \in Threads : found'[u] # -1  BY <2>7, <2>8 DEF MinerInv, MinerTypeOK
  <2>12. \A u \in Threads : at'[u] # "idle" =>
           u >= joined' /\ call' > 0 /\ target_zeros(Calls[call'])  <= HASH_LENGTH
    BY <1>3, <1>4, <2>1 DEF MinerInv, MinerTypeOK
  <2> QED  BY <1>3, <1>5, <2>1, <2>9, <2>10, <2>11, <2>12 DEF MinerInv
<1>7. CASE Winners(t) = {}
  <2>1. /\ cancel' = cancel /\ found' = found /\ at' = [at EXCEPT ![t] = "check"]
        /\ nonce' = [nonce EXCEPT ![t] = (@ + BATCH_SIZE) % U64]
    BY <1>7 DEF HashBatch, AfterBatch
  <2>2. nonce' \in [Threads -> Nonces]
    <3>1. nonce \in [Threads -> Nonces] /\ nonce[t] \in Nat  BY <1>2 DEF MinerInv, MinerTypeOK, Nonces
    <3>2. (nonce[t] + BATCH_SIZE) % U64 \in Nonces  BY <1>2, <3>1 DEF Nonces
    <3> QED  BY <2>1, <3>1, <3>2
  <2>3. MinerTypeOK'  BY <1>3, <2>1, <2>2 DEF MinerInv, MinerTypeOK, States
  <2> QED  BY <1>1, <1>3, <1>4, <1>5, <2>1, <2>3 DEF MinerInv, MinerTypeOK, Scores
<1> QED  BY <1>6, <1>7

\* The caller joins the next thread; the last one found decides.
LEMMA JoinInv == MinerInv /\ Join => MinerInv'
<1> SUFFICES ASSUME MinerInv, Join  PROVE MinerInv'  OBVIOUS
<1>1. num_workers \in Nat \ {0} /\ Threads = 0 .. num_workers - 1 /\ U64 \in Nat \ {0}
  BY MinerAssumption DEF Threads
<1>2. /\ joined < num_workers /\ at[joined] = "done" /\ at' = [at EXCEPT ![joined] = "idle"]
      /\ joined' = joined + 1
      /\ UNCHANGED <<cancel, call, nonce, found, triggered, cancels>>
  BY DEF Join
<1>3. joined \in Threads  BY <1>1, <1>2 DEF MinerInv, MinerTypeOK
<1>4. cancel /\ call > 0  BY <1>2, <1>3 DEF MinerInv
<1> DEFINE results == {t \in Threads : found[t] # -1}
<1>5. answer' = IF joined' < num_workers THEN answer
                ELSE IF results = {} THEN 0 ELSE found[Max(results)]
  BY DEF Join
<1>6. results # {} => Max(results) \in results
  <2>1. IsFiniteSet(Threads) /\ Threads \subseteq Int  BY <1>1, FS_Interval
  <2>2. IsFiniteSet(results) /\ results \subseteq Int  BY <2>1, FS_Subset
  <2> HIDE DEF results
  <2> QED  BY <2>2, MaxIsElement
<1>7. results # {} => found[Max(results)] \in Nonces /\ Scores(found[Max(results)])
  <2> SUFFICES ASSUME results # {}  PROVE found[Max(results)] \in Nonces /\ Scores(found[Max(results)])
    OBVIOUS
  <2>1. Max(results) \in Threads /\ found[Max(results)] # -1  BY <1>6
  <2> QED  BY <2>1 DEF MinerInv, MinerTypeOK
<1>8. ~triggered => results # {}  BY <1>4 DEF MinerInv
<1> HIDE DEF results
<1>9. MinerTypeOK'
  <2>1. at' \in [Threads -> States]  BY <1>2 DEF MinerInv, MinerTypeOK, States
  <2>2. joined' \in 0 .. num_workers  BY <1>1, <1>2 DEF MinerInv, MinerTypeOK
  <2>3. answer' \in Nonces \cup {NoAnswer, Invalid}
    <3>1. 0 \in Nonces  BY <1>1 DEF Nonces
    <3> QED  BY <1>5, <1>7, <3>1 DEF MinerInv, MinerTypeOK
  <2> QED  BY <1>2, <2>1, <2>2, <2>3 DEF MinerInv, MinerTypeOK
<1>10. \A t \in Threads : at'[t] # "idle" =>
         t >= joined' /\ call' > 0 /\ target_zeros(Calls[call']) <= HASH_LENGTH
  BY <1>1, <1>2 DEF MinerInv, MinerTypeOK
<1>11. \A t \in Threads : found'[t] # -1 => Scores(found[t])'  BY <1>2 DEF MinerInv, Scores
<1>12. \A n : Scores(n)' <=> Scores(n)  BY <1>2 DEF Scores
<1>13. answer' >= 0 => joined' = num_workers /\ (triggered' \/ Scores(answer)')
  <2>1. CASE joined' < num_workers
    <3>1. answer' = answer  BY <1>5, <2>1
    <3>2. ~(answer >= 0)  BY <1>1, <1>2 DEF MinerInv, MinerTypeOK
    <3> QED  BY <3>1, <3>2
  <2>2. CASE ~(joined' < num_workers)
    <3>1. joined' = num_workers  BY <1>1, <1>2, <2>2 DEF MinerInv, MinerTypeOK
    <3>2. CASE triggered  BY <1>2, <3>1, <3>2
    <3>3. CASE ~triggered
      <4>1. Scores(answer')  BY <1>5, <1>7, <1>8, <2>2, <3>3
      <4> QED  BY <4>1, <1>2, <3>1 DEF Scores
    <3> QED  BY <3>2, <3>3
  <2> QED  BY <2>1, <2>2
<1> QED  BY <1>2, <1>4, <1>9, <1>10, <1>11, <1>13 DEF MinerInv

\* The caller cancels.
LEMMA TriggerInv == MinerInv /\ Trigger => MinerInv'
BY DEF MinerInv, MinerTypeOK, Trigger, Scores

(* A nonce that Miner::nonce returns has the score it was asked for, unless *)
(* the caller cancelled the call, for any number of threads and any way     *)
(* they interleave with each other, with cancellations and with earlier     *)
(* calls.                                                                   *)
THEOREM NoncesScore == MinerSpec => []NonceScores
<1>1. MinerInit => MinerInv  BY MinerInitInv
<1>2. MinerInv /\ [MinerNext]_minerVars => MinerInv'
  <2> SUFFICES ASSUME MinerInv, [MinerNext]_minerVars  PROVE MinerInv'  OBVIOUS
  <2>1. CASE CallNonce  BY <2>1, CallNonceInv
  <2>2. CASE Join  BY <2>2, JoinInv
  <2>3. CASE Trigger  BY <2>3, TriggerInv
  <2>4. ASSUME NEW t \in Threads, ThreadStep(t)  PROVE MinerInv'
    BY <2>4, CheckCancelInv, HashBatchInv DEF ThreadStep
  <2>5. CASE UNCHANGED minerVars
    BY <2>5 DEF minerVars, MinerInv, MinerTypeOK, Scores
  <2> QED  BY <2>1, <2>2, <2>3, <2>4, <2>5 DEF MinerNext
<1>3. MinerInv => NonceScores
  <2> SUFFICES ASSUME MinerInv, answer >= 0, ~triggered  PROVE ScoreReached(Calls[call], answer)
    BY DEF NonceScores
  <2>1. Scores(answer) /\ answer \in Nonces /\ call \in 0 .. Len(Calls)
    BY DEF MinerInv, MinerTypeOK, NoAnswer, Invalid
  <2>2. call \in 1 .. Len(Calls) /\ HASH_LENGTH \in Nat /\ Zeros[answer] \in Nat
    BY <2>1, MinerAssumption DEF Scores, Nonces
  <2> DEFINE c == Calls[call]
             z == target_zeros(c)
  <2>3. c \in [len : Nat, target_score : Nat]  BY <2>2, CallOf
  <2>4. z \in Nat /\ PowerOfThree[z] >= c.len * c.target_score /\ z <= Zeros[answer]
    BY <2>1, <2>2, <2>3, TargetZeros DEF Scores
  <2>5. PowerOfThree[z] <= PowerOfThree[Zeros[answer]]  BY <2>2, <2>4, PowerGrows
  <2>6. c.len * c.target_score \in Nat  BY <2>3
  <2>7. \A n \in Nat : PowerOfThree[n] \in Nat  BY PowersOfThree
  <2> HIDE DEF z
  <2> QED  BY <2>2, <2>4, <2>5, <2>6, <2>7 DEF ScoreReached
<1> QED  BY <1>1, <1>2, <1>3, PTL DEF MinerSpec

-----------------------------------------------------------------------------
(***************************************************************************)
(* The life cycle of the workers.                                          *)
(***************************************************************************)
\* The states of a task and of the node.
TaskStates == {"none", "running", "signalled", "ended"}
Phases == {"sort", "start", "running", "stop_task", "await", "stop_tangle", "stop_worker", "stop_storage", "stopped", "panicked"}

\* The types of the state of the life cycle.
LifeTypeOK ==
  /\ graph \in DependencyGraphs
  /\ unsorted \subseteq DOMAIN graph
  /\ worker_order \in Seq(DOMAIN graph)
  /\ visiting \in Seq([worker : DOMAIN graph, deps : Seq(WorkerIds)])
  /\ position \in 0 .. Len(worker_order) /\ phase \in Phases
  /\ task \in [WorkerIds -> TaskStates] /\ detached \in [WorkerIds -> TaskStates] /\ queue \in [WorkerIds -> Nat]
  /\ polls \in Nat /\ lost \subseteq WorkerIds

\* The first n workers of the order.
FirstWorkers(n) == {worker_order[j] : j \in 1 .. n}

\* The search for the order: what is sorted is in the order, once and after
\* what it depends on; a worker that is visited still has its dependencies in
\* front of it, but for the one that is visited for it.
OrderInv ==
  /\ \A w \in DOMAIN graph : w \notin unsorted <=> w \in FirstWorkers(Len(worker_order))
  /\ DependenciesFirst
VisitsInv ==
  /\ \A i \in DOMAIN visiting : visiting[i].worker \in unsorted
  /\ \A i, j \in DOMAIN visiting : visiting[i].worker = visiting[j].worker => i = j
  /\ \A i \in DOMAIN visiting : \A d \in Deps(visiting[i].worker) \cap DOMAIN graph :
       \/ d \notin unsorted \/ d \in ToSet(visiting[i].deps)
       \/ i + 1 \in DOMAIN visiting /\ d = visiting[i + 1].worker

\* How far the start or the shutdown is.
PositionInv ==
  /\ phase = "sort" => position = 0
  /\ phase \in {"running", "stop_task", "await", "stop_tangle", "stop_worker"} => position >= 1
  /\ phase \in {"stop_storage", "stopped"} => position = 0
  /\ core_workers = FirstWorkers(position)
  /\ \A i \in 1 .. position : Deps(worker_order[i]) \subseteq FirstWorkers(i - 1)

\* The state of the task of the worker at the position.
TaskAtPosition ==
  IF phase = "await" THEN {"none", "signalled", "ended"}
  ELSE IF phase \in {"stop_tangle", "stop_worker"} THEN {"none", "ended"} ELSE {"none", "running"}

\* Below the position tasks run, above it they have ended.
TasksInv ==
  /\ \A w \in WorkerIds : task[w] # "none" => w \in FirstWorkers(Len(worker_order))
  /\ phase \in {"sort", "start"} => \A w \in WorkerIds : task[w] # "ended"
  /\ \A i \in DOMAIN worker_order :
       /\ i < position => task[worker_order[i]] \in {"none", "running"}
       /\ i > position => task[worker_order[i]] \in {"none", "ended"}
       /\ i = position => task[worker_order[i]] \in TaskAtPosition

\* Queues, listeners and detached tasks.
QueuesInv ==
  /\ NothingLeftInQueues
  /\ bus \subseteq core_workers
  /\ \A w \in WorkerIds : detached[w] # "none" => w \in Detaching /\ task[w] # "none"

SomeDetached == \E w \in Detaching : detached[w] # "none"

\* The tangle is registered until its worker stops, and polled for only if a
\* detached task was started.
TangleInv ==
  /\ TangleWorker \in core_workers => tangle # "none"
  /\ tangle \in {"none", "registered", "removed"}
  /\ tangle = "removed" /\ TangleWorker \in core_workers =>
       SomeDetached \/ (phase = "stop_worker" /\ Current = TangleWorker)
  /\ phase = "stop_tangle" => Current = TangleWorker
  /\ polls > 0 \/ tangle_shut = "dropped" => SomeDetached

\* The inductive invariant of the life cycle.
LifeInv ==
  /\ LifeTypeOK /\ OrderInv /\ VisitsInv /\ PositionInv /\ TasksInv /\ QueuesInv /\ TangleInv

\* What is assumed of a graph.
LEMMA GraphIs ==
  ASSUME LifeTypeOK
  PROVE  /\ DOMAIN graph \subseteq WorkerIds
         /\ \A w \in DOMAIN graph : graph[w] \in Seq(WorkerIds) /\ Deps(w) \subseteq WorkerIds
         /\ \A w \in DOMAIN graph \cap (TangleUsers \cup Listening) : TangleWorker \in Deps(w)
         /\ TangleUsers \cup Detaching \cup Listening \subseteq WorkerIds \ {TangleWorker}
BY LifecycleAssumption DEF LifeTypeOK, Deps, ToSet

\* The order names a worker once.
LEMMA OrderDistinct ==
  ASSUME LifeTypeOK, OrderInv
  PROVE  /\ Len(worker_order) \in Nat /\ DOMAIN worker_order = 1 .. Len(worker_order)
         /\ \A i \in DOMAIN worker_order : worker_order[i] \in DOMAIN graph
         /\ \A i, j \in DOMAIN worker_order : worker_order[i] = worker_order[j] => i = j
<1>1. /\ Len(worker_order) \in Nat /\ DOMAIN worker_order = 1 .. Len(worker_order)
      /\ \A i \in DOMAIN worker_order : worker_order[i] \in DOMAIN graph
  BY DEF LifeTypeOK
<1>2. ASSUME NEW i \in DOMAIN worker_order, NEW j \in DOMAIN worker_order, i < j  PROVE worker_order[i] # worker_order[j]
  <2>1. worker_order[j] \notin {worker_order[k] : k \in 1 .. j - 1}  BY DEF OrderInv, DependenciesFirst
  <2>2. i \in 1 .. j - 1  BY <1>1, <1>2
  <2> QED  BY <2>1, <2>2
<1>3. ASSUME NEW i \in DOMAIN worker_order, NEW j \in DOMAIN worker_order, worker_order[i] = worker_order[j]  PROVE i = j
  <2>1. i \in Int /\ j \in Int  BY <1>1
  <2>2. ~ (i < j) /\ ~ (j < i)  BY <1>2, <1>3
  <2> QED  BY <2>1, <2>2
<1> QED  BY <1>1, <1>3

\* Before the search for the order.
LEMMA LifeInvInit == ASSUME LifeInit  PROVE LifeInv
<1>1. /\ graph \in DependencyGraphs /\ unsorted = DOMAIN graph /\ worker_order = <<>> /\ visiting = <<>>
      /\ phase = "sort" /\ position = 0 /\ core_workers = {} /\ task = [w \in WorkerIds |-> "none"]
      /\ detached = [w \in WorkerIds |-> "none"] /\ queue = [w \in WorkerIds |-> 0] /\ bus = {}
      /\ tangle = "none" /\ polls = 0 /\ tangle_shut = "no" /\ lost = {}
  BY DEF LifeInit
<1>2. /\ Len(worker_order) = 0 /\ DOMAIN worker_order = {} /\ DOMAIN visiting = {}
      /\ worker_order \in Seq(DOMAIN graph) /\ visiting \in Seq([worker : DOMAIN graph, deps : Seq(WorkerIds)])
  BY <1>1
<1>3. LifeTypeOK  BY <1>1, <1>2 DEF LifeTypeOK, TaskStates, Phases
<1>4. FirstWorkers(0) = {}  BY DEF FirstWorkers
<1>5. OrderInv  BY <1>1, <1>2, <1>4 DEF OrderInv, DependenciesFirst
<1>6. VisitsInv  BY <1>2 DEF VisitsInv
<1>7. PositionInv  BY <1>1, <1>4 DEF PositionInv
<1>8. TasksInv  BY <1>1, <1>2 DEF TasksInv
<1>9. QueuesInv  BY <1>1 DEF QueuesInv, NothingLeftInQueues
<1>10. TangleInv  BY <1>1 DEF TangleInv
<1> QED  BY <1>3, <1>5, <1>6, <1>7, <1>8, <1>9, <1>10 DEF LifeInv

\* The search leaves the rest of the node alone.
LEMMA SearchFrame ==
  ASSUME LifeInv, phase = "sort", phase' \in {"sort", "start", "panicked"},
         LifeTypeOK', OrderInv', VisitsInv',
         \A w \in FirstWorkers(Len(worker_order)) : w \in FirstWorkers(Len(worker_order))',
         UNCHANGED <<graph, position, core_workers, task, detached, queue, bus, tangle, polls, tangle_shut, lost>>
  PROVE  LifeInv'
<1>0. LifeTypeOK /\ OrderInv /\ PositionInv /\ TasksInv /\ QueuesInv /\ TangleInv  BY DEF LifeInv
<1>1. position = 0 /\ position' = 0  BY <1>0 DEF PositionInv
<1>2. core_workers = {} /\ FirstWorkers(position)' = {}  BY <1>0, <1>1 DEF PositionInv, FirstWorkers
<1>3. PositionInv'  BY <1>1, <1>2 DEF PositionInv
<1>4. \A w \in WorkerIds : task[w] = "none"
  <2> SUFFICES ASSUME NEW w \in WorkerIds, task[w] # "none"  PROVE FALSE  OBVIOUS
  <2>1. w \in FirstWorkers(Len(worker_order)) /\ task[w] # "ended"  BY <1>0 DEF TasksInv
  <2>2. PICK i \in 1 .. Len(worker_order) : worker_order[i] = w  BY <2>1 DEF FirstWorkers
  <2>3. i \in DOMAIN worker_order /\ i > position  BY <1>0, <1>1, OrderDistinct
  <2>4. task[worker_order[i]] \in {"none", "ended"}  BY <1>0, <2>3 DEF TasksInv
  <2> QED  BY <2>1, <2>2, <2>4
<1>5. TasksInv'
  <2>1. \A i \in DOMAIN worker_order' : worker_order'[i] \in WorkerIds
    <3>1. LifeTypeOK' /\ OrderInv'  OBVIOUS
    <3>2. \A i \in DOMAIN worker_order' : worker_order'[i] \in DOMAIN graph  BY <3>1 DEF LifeTypeOK
    <3> QED  BY <1>0, <3>2, GraphIs
  <2>2. \A i \in DOMAIN worker_order' : i # position'  BY <1>1 DEF LifeTypeOK
  <2> QED  BY <1>4, <2>1, <2>2 DEF TasksInv
<1>6. QueuesInv'  BY <1>0 DEF QueuesInv, NothingLeftInQueues
<1>7. TangleInv'  BY <1>0, <1>2 DEF TangleInv, SomeDetached
<1> QED  BY <1>3, <1>5, <1>6, <1>7 DEF LifeInv

\* A worker is visited.
LEMMA VisitOfIs ==
  ASSUME LifeTypeOK, NEW w \in DOMAIN graph
  PROVE  /\ VisitOf(w) \in [worker : DOMAIN graph, deps : Seq(WorkerIds)]
         /\ VisitOf(w).worker = w /\ ToSet(VisitOf(w).deps) = Deps(w)
BY GraphIs DEF VisitOf, Deps

\* The search starts with any worker that is left.
LEMMA SortKeeps == ASSUME LifeInv, NEW w \in WorkerIds, Sort(w)  PROVE LifeInv'
<1>0. LifeTypeOK /\ OrderInv /\ VisitsInv /\ PositionInv /\ TasksInv /\ QueuesInv /\ TangleInv  BY DEF LifeInv
<1>1. /\ phase = "sort" /\ visiting = <<>> /\ w \in unsorted /\ visiting' = <<VisitOf(w)>>
      /\ UNCHANGED <<graph, unsorted, worker_order, phase, position, core_workers, task, detached, queue, bus, tangle,
                     polls, tangle_shut, lost>>
  BY DEF Sort
<1>2. w \in DOMAIN graph  BY <1>0, <1>1 DEF LifeTypeOK
<1>3. PICK v : v = VisitOf(w)  OBVIOUS
<1>4. v \in [worker : DOMAIN graph, deps : Seq(WorkerIds)] /\ v.worker = w /\ ToSet(v.deps) = Deps(w)
  BY <1>0, <1>2, <1>3, VisitOfIs
<1>5. visiting' = <<v>> /\ DOMAIN visiting' = {1} /\ visiting'[1] = v  BY <1>1, <1>3
<1>6. LifeTypeOK'
  <2>1. <<v>> \in Seq([worker : DOMAIN graph, deps : Seq(WorkerIds)])  BY <1>4
  <2> QED  BY <1>0, <1>1, <1>5, <2>1 DEF LifeTypeOK
<1>7. OrderInv'  BY <1>0, <1>1 DEF OrderInv, DependenciesFirst, FirstWorkers, Deps
<1>8. VisitsInv'  BY <1>1, <1>4, <1>5 DEF VisitsInv, Deps
<1>9. \A x \in FirstWorkers(Len(worker_order)) : x \in FirstWorkers(Len(worker_order))'  BY <1>1 DEF FirstWorkers
<1> QED  BY <1>1, <1>6, <1>7, <1>8, <1>9, SearchFrame

\* The innermost call.
LEMMA LastVisit ==
  ASSUME LifeTypeOK, visiting # <<>>
  PROVE  /\ Len(visiting) \in Nat /\ Len(visiting) >= 1 /\ DOMAIN visiting = 1 .. Len(visiting)
         /\ Last(visiting) = visiting[Len(visiting)]
         /\ \A i \in DOMAIN visiting : /\ visiting[i] = [worker |-> visiting[i].worker, deps |-> visiting[i].deps]
                                       /\ visiting[i].worker \in DOMAIN graph /\ visiting[i].deps \in Seq(WorkerIds)
<1>1. visiting \in Seq([worker : DOMAIN graph, deps : Seq(WorkerIds)])  BY DEF LifeTypeOK
<1>2. Len(visiting) \in Nat /\ DOMAIN visiting = 1 .. Len(visiting) /\ Len(visiting) >= 1  BY <1>1
<1>3. \A i \in DOMAIN visiting : visiting[i] \in [worker : DOMAIN graph, deps : Seq(WorkerIds)]
  <2> DEFINE Frame == [worker : DOMAIN graph, deps : Seq(WorkerIds)]
  <2> HIDE DEF Frame
  <2>1. visiting \in Seq(Frame)  BY <1>1 DEF Frame
  <2>2. \A i \in DOMAIN visiting : visiting[i] \in Frame  BY <1>2, <2>1, ElementOfSeq
  <2> QED  BY <2>2 DEF Frame
<1> QED  BY <1>2, <1>3 DEF Last

\* A dependency is taken off the list of the innermost call.
LEMMA DependencyKeeps == ASSUME LifeInv, VisitDependency  PROVE LifeInv'
<1> DEFINE Frame == [worker : DOMAIN graph, deps : Seq(WorkerIds)]
<1>0. LifeTypeOK /\ OrderInv /\ VisitsInv /\ PositionInv /\ TasksInv /\ QueuesInv /\ TangleInv  BY DEF LifeInv
<1>1. PICK n \in Nat : n = Len(visiting)  BY <1>0 DEF LifeTypeOK
<1>2. PICK c : c = [visiting EXCEPT ![Len(visiting)].deps = Tail(@)]  OBVIOUS
<1>3. PICK d : d = Head(Last(visiting).deps)  OBVIOUS
<1>4. /\ phase = "sort" /\ visiting # <<>> /\ Last(visiting).deps # <<>>
      /\ visit(d, c)
      /\ UNCHANGED <<graph, unsorted, worker_order, position, core_workers, task, detached, queue, bus, tangle,
                     polls, tangle_shut, lost>>
  BY <1>2, <1>3 DEF VisitDependency
<1>5. /\ n >= 1 /\ DOMAIN visiting = 1 .. n /\ Last(visiting) = visiting[n]
      /\ \A i \in DOMAIN visiting : /\ visiting[i] = [worker |-> visiting[i].worker, deps |-> visiting[i].deps]
                                    /\ visiting[i].worker \in DOMAIN graph /\ visiting[i].deps \in Seq(WorkerIds)
  BY <1>0, <1>1, <1>4, LastVisit
<1>6. /\ visiting[n].deps \in Seq(WorkerIds) /\ visiting[n].deps # <<>> /\ d = Head(visiting[n].deps) /\ n \in DOMAIN visiting
  BY <1>3, <1>4, <1>5
<1>7. /\ Tail(visiting[n].deps) \in Seq(WorkerIds) /\ d \in WorkerIds
      /\ \A x \in ToSet(visiting[n].deps) : x = d \/ x \in ToSet(Tail(visiting[n].deps))
  <2>1. PICK q \in Seq(WorkerIds) : q = visiting[n].deps  BY <1>6
  <2>2. q # <<>>  BY <1>6, <2>1
  <2>3. /\ Tail(q) \in Seq(WorkerIds) /\ Head(q) \in WorkerIds /\ Head(q) = q[1] /\ Len(q) \in Nat
        /\ \A i \in 1 .. Len(q) - 1 : Tail(q)[i] = q[i + 1]
        /\ DOMAIN Tail(q) = 1 .. Len(q) - 1 /\ DOMAIN q = 1 .. Len(q)
    BY <2>2
  <2>4. ASSUME NEW i \in DOMAIN q, i # 1  PROVE q[i] \in ToSet(Tail(q))
    <3>1. i - 1 \in DOMAIN Tail(q) /\ Tail(q)[i - 1] = q[i]  BY <2>3, <2>4
    <3> QED  BY <3>1 DEF ToSet
  <2>5. \A x \in ToSet(q) : x = Head(q) \/ x \in ToSet(Tail(q))  BY <2>3, <2>4 DEF ToSet
  <2> QED  BY <1>6, <2>1, <2>3, <2>5
<1>8. /\ c \in Seq(Frame) /\ Len(c) = n /\ DOMAIN c = 1 .. n
      /\ \A i \in 1 .. n : c[i].worker = visiting[i].worker /\ (i # n => c[i].deps = visiting[i].deps)
      /\ c[n].deps = Tail(visiting[n].deps)
  <2>1. c = [visiting EXCEPT ![n] = [visiting[n] EXCEPT !.deps = Tail(visiting[n].deps)]]  BY <1>1, <1>2
  <2>2. [visiting[n] EXCEPT !.deps = Tail(visiting[n].deps)]
          = [worker |-> visiting[n].worker, deps |-> Tail(visiting[n].deps)]
    <3>1. PICK a, b : visiting[n] = [worker |-> a, deps |-> b]  BY <1>5, <1>6
    <3>2. PICK t : t = Tail(visiting[n].deps)  OBVIOUS
    <3>3. [visiting[n] EXCEPT !.deps = t] = [worker |-> a, deps |-> t]  BY <3>1
    <3>4. visiting[n].worker = a  BY <3>1
    <3> QED  BY <3>2, <3>3, <3>4
  <2>3. [worker |-> visiting[n].worker, deps |-> Tail(visiting[n].deps)] \in Frame  BY <1>5, <1>6, <1>7
  <2>4. visiting \in Seq(Frame) /\ Len(visiting) = n  BY <1>0, <1>1 DEF LifeTypeOK
  <2>5. PICK f \in Frame : f = [worker |-> visiting[n].worker, deps |-> Tail(visiting[n].deps)]  BY <2>3
  <2>6. c = [visiting EXCEPT ![n] = f] /\ f.worker = visiting[n].worker /\ f.deps = Tail(visiting[n].deps)
    BY <2>1, <2>2, <2>5
  <2>7. c \in Seq(Frame) /\ Len(c) = n
    <3> HIDE DEF Frame
    <3> QED  BY <1>6, <2>4, <2>5, <2>6
  <2>8. DOMAIN c = 1 .. n /\ \A i \in 1 .. n : c[i] = IF i = n THEN f ELSE visiting[i]  BY <1>5, <2>6
  <2> QED  BY <2>6, <2>7, <2>8
<1> HIDE DEF Frame
<1>9. OrderInv'  BY <1>0, <1>4 DEF OrderInv, DependenciesFirst, FirstWorkers, Deps
<1>10. \A x \in FirstWorkers(Len(worker_order)) : x \in FirstWorkers(Len(worker_order))'  BY <1>4 DEF FirstWorkers
<1>11. /\ \A i \in 1 .. n : visiting[i].worker \in unsorted
       /\ \A i, j \in 1 .. n : visiting[i].worker = visiting[j].worker => i = j
       /\ \A i \in 1 .. n : \A x \in Deps(visiting[i].worker) \cap DOMAIN graph :
            x \notin unsorted \/ x \in ToSet(visiting[i].deps) \/ (i + 1 \in 1 .. n /\ x = visiting[i + 1].worker)
  BY <1>0, <1>5 DEF VisitsInv
<1>12. \A i \in 1 .. n : \A x \in Deps(c[i].worker) \cap DOMAIN graph :
         x \notin unsorted \/ x \in ToSet(c[i].deps) \/ (i + 1 \in 1 .. n /\ x = c[i + 1].worker) \/ (i = n /\ x = d)
  <2> TAKE i \in 1 .. n
  <2> TAKE x \in Deps(c[i].worker) \cap DOMAIN graph
  <2>1. x \notin unsorted \/ x \in ToSet(visiting[i].deps) \/ (i + 1 \in 1 .. n /\ x = visiting[i + 1].worker)
    BY <1>8, <1>11
  <2>2. i # n => c[i].deps = visiting[i].deps  BY <1>8
  <2>3. i + 1 \in 1 .. n => c[i + 1].worker = visiting[i + 1].worker  BY <1>8
  <2>4. CASE i = n
    <3>1. x \in ToSet(visiting[n].deps) => x = d \/ x \in ToSet(c[n].deps)  BY <1>7, <1>8
    <3> QED  BY <2>1, <2>3, <2>4, <3>1
  <2> QED  BY <2>1, <2>2, <2>3, <2>4
<1>13. CASE d \notin unsorted /\ visiting' = c /\ phase' = phase
  <2>1. LifeTypeOK'  BY <1>0, <1>4, <1>8, <1>13 DEF LifeTypeOK, Frame
  <2>2. \A i \in 1 .. n : \A x \in Deps(c[i].worker) \cap DOMAIN graph :
          x \notin unsorted \/ x \in ToSet(c[i].deps) \/ (i + 1 \in 1 .. n /\ x = c[i + 1].worker)
    BY <1>12, <1>13
  <2>3. VisitsInv'  BY <1>4, <1>8, <1>11, <1>13, <2>2 DEF VisitsInv, Deps
  <2> QED  BY <1>4, <1>9, <1>10, <1>13, <2>1, <2>3, SearchFrame
<1>14. CASE phase' = "panicked" /\ visiting' = visiting
  <2>1. LifeTypeOK'  BY <1>0, <1>4, <1>14 DEF LifeTypeOK, Phases
  <2>2. VisitsInv'  BY <1>0, <1>4, <1>14 DEF VisitsInv, Deps
  <2> QED  BY <1>4, <1>9, <1>10, <1>14, <2>1, <2>2, SearchFrame
<1>15. CASE d \in unsorted \ being_visited /\ visiting' = Append(c, VisitOf(d)) /\ phase' = phase
  <2>1. d \in DOMAIN graph /\ \A i \in 1 .. n : visiting[i].worker # d
    BY <1>0, <1>5, <1>15 DEF LifeTypeOK, being_visited
  <2>2. PICK v : v = VisitOf(d)  OBVIOUS
  <2>3. v \in Frame /\ v.worker = d /\ ToSet(v.deps) = Deps(d)  BY <1>0, <2>1, <2>2, VisitOfIs DEF Frame
  <2>4. /\ visiting' \in Seq(Frame) /\ DOMAIN visiting' = 1 .. n + 1 /\ visiting'[n + 1] = v
        /\ \A i \in 1 .. n : visiting'[i] = c[i]
    BY <1>8, <1>15, <2>2, <2>3
  <2>5. LifeTypeOK'  BY <1>0, <1>4, <1>15, <2>4 DEF LifeTypeOK, Frame
  <2>6. \A i \in 1 .. n + 1 : visiting'[i].worker \in unsorted  BY <1>8, <1>11, <1>15, <2>3, <2>4
  <2>7. \A i, j \in 1 .. n + 1 : visiting'[i].worker = visiting'[j].worker => i = j
    BY <1>8, <1>11, <2>1, <2>3, <2>4
  <2>8. ASSUME NEW i \in 1 .. n + 1, NEW x \in Deps(visiting'[i].worker) \cap DOMAIN graph
        PROVE  x \notin unsorted \/ x \in ToSet(visiting'[i].deps) \/ (i + 1 \in 1 .. n + 1 /\ x = visiting'[i + 1].worker)
    <3>1. CASE i = n + 1  BY <2>3, <2>4, <2>8, <3>1
    <3>2. CASE i = n
      <4>1. visiting'[i] = c[i] /\ visiting'[i + 1].worker = d /\ i + 1 \in 1 .. n + 1 /\ i + 1 \notin 1 .. n  BY <2>3, <2>4, <3>2
      <4> QED  BY <1>12, <2>8, <3>2, <4>1
    <3>3. CASE i < n
      <4>1. visiting'[i] = c[i] /\ visiting'[i + 1] = c[i + 1] /\ i \in 1 .. n /\ i + 1 \in 1 .. n + 1  BY <2>4, <3>3
      <4> QED  BY <1>12, <2>8, <3>3, <4>1
    <3> QED  BY <3>1, <3>2, <3>3
  <2>9. VisitsInv'  BY <1>4, <2>4, <2>6, <2>7, <2>8 DEF VisitsInv, Deps
  <2> QED  BY <1>4, <1>9, <1>10, <1>15, <2>5, <2>9, SearchFrame
<1> QED  BY <1>4, <1>13, <1>14, <1>15 DEF visit

\* The innermost call returns: its worker goes to the end of the order.
LEMMA EndsKeeps == ASSUME LifeInv, VisitEnds  PROVE LifeInv'
<1> DEFINE Frame == [worker : DOMAIN graph, deps : Seq(WorkerIds)]
<1>0. LifeTypeOK /\ OrderInv /\ VisitsInv /\ PositionInv /\ TasksInv /\ QueuesInv /\ TangleInv  BY DEF LifeInv
<1>1. PICK n \in Nat : n = Len(visiting)  BY <1>0 DEF LifeTypeOK
<1>2. PICK w : w = Last(visiting).worker  OBVIOUS
<1>3. /\ phase = "sort" /\ visiting # <<>> /\ Last(visiting).deps = <<>>
      /\ visiting' = Front(visiting) /\ unsorted' = unsorted \ {w} /\ worker_order' = Append(worker_order, w)
      /\ phase' \in {"sort", "start"}
      /\ UNCHANGED <<graph, position, core_workers, task, detached, queue, bus, tangle, polls, tangle_shut, lost>>
  BY <1>2 DEF VisitEnds
<1>4. /\ n >= 1 /\ DOMAIN visiting = 1 .. n /\ Last(visiting) = visiting[n] /\ w \in DOMAIN graph /\ w = visiting[n].worker
      /\ visiting[n].deps = <<>>
  BY <1>0, <1>1, <1>2, <1>3, LastVisit
<1>5. /\ \A i \in 1 .. n : visiting[i].worker \in unsorted
      /\ \A i, j \in 1 .. n : visiting[i].worker = visiting[j].worker => i = j
      /\ \A i \in 1 .. n : \A x \in Deps(visiting[i].worker) \cap DOMAIN graph :
           x \notin unsorted \/ x \in ToSet(visiting[i].deps) \/ (i + 1 \in 1 .. n /\ x = visiting[i + 1].worker)
  BY <1>0, <1>4 DEF VisitsInv
<1>6. /\ visiting' \in Seq(Frame) /\ DOMAIN visiting' = 1 .. n - 1 /\ \A i \in 1 .. n - 1 : visiting'[i] = visiting[i]
  <2>1. visiting \in Seq(Frame) /\ visiting' = SubSeq(visiting, 1, n - 1)  BY <1>0, <1>1, <1>3 DEF LifeTypeOK, Front
  <2> HIDE DEF Frame
  <2> QED  BY <1>1, <1>4, <2>1
<1>7. PICK m \in Nat : m = Len(worker_order)  BY <1>0, OrderDistinct
<1>8. /\ DOMAIN worker_order = 1 .. m /\ worker_order' \in Seq(DOMAIN graph) /\ Len(worker_order') = m + 1
      /\ DOMAIN worker_order' = 1 .. m + 1 /\ worker_order'[m + 1] = w /\ \A i \in 1 .. m : worker_order'[i] = worker_order[i]
  BY <1>0, <1>3, <1>4, <1>7 DEF LifeTypeOK
<1>9. LifeTypeOK'
  <2>1. unsorted' \subseteq DOMAIN graph /\ position' \in 0 .. m + 1  BY <1>0, <1>3, <1>7 DEF LifeTypeOK
  <2> QED  BY <1>0, <1>3, <1>6, <1>8, <2>1 DEF LifeTypeOK, Phases
<1>10. FirstWorkers(m + 1)' = FirstWorkers(m) \cup {w}
  <2>1. \A x : x \in FirstWorkers(m + 1)' <=> \E i \in 1 .. m + 1 : worker_order'[i] = x  BY DEF FirstWorkers
  <2>2. \A x : x \in FirstWorkers(m) <=> \E i \in 1 .. m : worker_order[i] = x  BY DEF FirstWorkers
  <2>3. \A i \in 1 .. m + 1 : i = m + 1 \/ i \in 1 .. m  BY <1>7
  <2>4. m + 1 \in 1 .. m + 1 /\ 1 .. m \subseteq 1 .. m + 1  BY <1>7
  <2>5. ASSUME NEW x \in FirstWorkers(m + 1)'  PROVE x \in FirstWorkers(m) \cup {w}  BY <1>8, <2>1, <2>2, <2>3
  <2>6. ASSUME NEW x \in FirstWorkers(m) \cup {w}  PROVE x \in FirstWorkers(m + 1)'  BY <1>8, <2>1, <2>2, <2>4
  <2> QED  BY <2>5, <2>6
<1>11. \A x \in DOMAIN graph : x \notin unsorted <=> x \in FirstWorkers(m)  BY <1>0, <1>7 DEF OrderInv
<1>12. OrderInv'
  <2>1. \A x \in DOMAIN graph : x \notin unsorted' <=> x \in FirstWorkers(m + 1)'  BY <1>3, <1>10, <1>11
  <2>2. \A x \in DOMAIN graph : x \notin unsorted' <=> x \in FirstWorkers(Len(worker_order))'
    BY <1>8, <2>1 DEF FirstWorkers
  <2>3. ASSUME NEW i \in 1 .. m + 1
        PROVE  /\ worker_order'[i] \notin {worker_order'[j] : j \in 1 .. i - 1}
               /\ Deps(worker_order'[i]) \cap DOMAIN graph \subseteq {worker_order'[j] : j \in 1 .. i - 1}
    <3>1. {worker_order'[j] : j \in 1 .. i - 1} = {worker_order[j] : j \in 1 .. i - 1}
      <4>1. \A j \in 1 .. i - 1 : worker_order'[j] = worker_order[j]  BY <1>7, <1>8
      <4> QED  BY <4>1
    <3>2. CASE i \in 1 .. m  BY <1>0, <1>8, <3>1, <3>2 DEF OrderInv, DependenciesFirst
    <3>3. CASE i = m + 1
      <4>1. {worker_order[j] : j \in 1 .. i - 1} = FirstWorkers(m)  BY <1>7, <3>3 DEF FirstWorkers
      <4>2. w \in unsorted /\ w \notin FirstWorkers(m)  BY <1>4, <1>5, <1>11
      <4>3. \A x \in Deps(w) \cap DOMAIN graph : x \notin unsorted
        <5>1. n \in 1 .. n /\ n + 1 \notin 1 .. n /\ ToSet(visiting[n].deps) = {}  BY <1>4 DEF ToSet
        <5> QED  BY <1>4, <1>5, <5>1
      <4> QED  BY <1>8, <1>11, <3>1, <3>3, <4>1, <4>2, <4>3
    <3> QED  BY <1>7, <3>2, <3>3
  <2>4. DependenciesFirst'
    <3>1. \A i \in 1 .. m + 1 : Deps(worker_order'[i]) = ToSet(graph'[worker_order'[i]])  BY <1>3 DEF Deps
    <3> QED  BY <1>3, <1>8, <2>3, <3>1 DEF DependenciesFirst, Deps
  <2> QED  BY <1>3, <2>2, <2>4 DEF OrderInv
<1>13. VisitsInv'
  <2>1. \A i \in 1 .. n - 1 : i \in 1 .. n /\ i # n /\ i + 1 \in 1 .. n  BY <1>4
  <2>2. \A i \in 1 .. n - 1 : visiting'[i].worker \in unsorted'  BY <1>3, <1>4, <1>5, <1>6, <2>1
  <2>3. \A i, j \in 1 .. n - 1 : visiting'[i].worker = visiting'[j].worker => i = j  BY <1>5, <1>6, <2>1
  <2>4. ASSUME NEW i \in 1 .. n - 1, NEW x \in Deps(visiting'[i].worker) \cap DOMAIN graph
        PROVE  x \notin unsorted' \/ x \in ToSet(visiting'[i].deps) \/ (i + 1 \in 1 .. n - 1 /\ x = visiting'[i + 1].worker)
    <3>1. x \notin unsorted \/ x \in ToSet(visiting[i].deps) \/ (i + 1 \in 1 .. n /\ x = visiting[i + 1].worker)
      BY <1>5, <1>6, <2>1, <2>4
    <3>2. CASE i + 1 = n  BY <1>3, <1>4, <1>6, <3>1, <3>2
    <3>3. CASE i + 1 # n
      <4>1. i + 1 \in 1 .. n - 1 /\ visiting'[i + 1] = visiting[i + 1] /\ visiting'[i] = visiting[i]  BY <1>4, <1>6, <3>3
      <4> QED  BY <1>3, <3>1, <4>1
    <3> QED  BY <3>2, <3>3
  <2> QED  BY <1>3, <1>6, <2>2, <2>3, <2>4 DEF VisitsInv, Deps
<1>14. \A x \in FirstWorkers(Len(worker_order)) : x \in FirstWorkers(Len(worker_order))'
  <2>1. FirstWorkers(Len(worker_order)) = FirstWorkers(m) /\ FirstWorkers(Len(worker_order))' = FirstWorkers(m + 1)'
    BY <1>7, <1>8 DEF FirstWorkers
  <2> QED  BY <1>10, <2>1
<1> QED  BY <1>3, <1>9, <1>12, <1>13, <1>14, SearchFrame

\* Once the order is found it stays.
LEMMA SortedFrame ==
  ASSUME OrderInv, VisitsInv, UNCHANGED <<graph, unsorted, visiting, worker_order>>
  PROVE  OrderInv' /\ VisitsInv' /\ \A i : FirstWorkers(i)' = FirstWorkers(i)
BY DEF OrderInv, DependenciesFirst, FirstWorkers, VisitsInv, Deps

\* The next worker is started.
LEMMA StartKeeps == ASSUME LifeInv, StartWorker  PROVE LifeInv'
<1>0. LifeTypeOK /\ OrderInv /\ VisitsInv /\ PositionInv /\ TasksInv /\ QueuesInv /\ TangleInv  BY DEF LifeInv
<1>1. PICK p \in Nat : p = position  BY <1>0 DEF LifeTypeOK
<1>2. PICK w : w = worker_order[position + 1]  OBVIOUS
<1>3. phase = "start" /\ p < Len(worker_order) /\ UNCHANGED <<graph, unsorted, visiting, worker_order, queue, polls, tangle_shut, lost>>
  BY <1>1 DEF StartWorker, sortVars
<1>4. OrderInv' /\ VisitsInv' /\ \A i : FirstWorkers(i)' = FirstWorkers(i)  BY <1>0, <1>3, SortedFrame
<1>5. /\ Len(worker_order) \in Nat /\ DOMAIN worker_order = 1 .. Len(worker_order) /\ p + 1 \in DOMAIN worker_order
      /\ w = worker_order[p + 1] /\ w \in DOMAIN graph /\ w \in WorkerIds
      /\ \A i, j \in DOMAIN worker_order : worker_order[i] = worker_order[j] => i = j
      /\ \A i \in DOMAIN worker_order : worker_order[i] \in WorkerIds
  BY <1>0, <1>1, <1>2, <1>3, OrderDistinct, GraphIs
<1>6. CASE phase' = "panicked" /\ UNCHANGED <<position, core_workers, task, detached, bus, tangle>>
  <2>1. LifeTypeOK'  BY <1>0, <1>3, <1>6 DEF LifeTypeOK, Phases
  <2>2. PositionInv'  BY <1>0, <1>3, <1>4, <1>6 DEF PositionInv, Deps
  <2>3. TasksInv'  BY <1>0, <1>3, <1>4, <1>6 DEF TasksInv, TaskAtPosition
  <2>4. QueuesInv'  BY <1>0, <1>3, <1>6 DEF QueuesInv, NothingLeftInQueues
  <2>5. TangleInv'  BY <1>0, <1>3, <1>6 DEF TangleInv, SomeDetached
  <2> QED  BY <1>4, <2>1, <2>2, <2>3, <2>4, <2>5 DEF LifeInv
<1>7. CASE /\ Deps(w) \subseteq core_workers
           /\ core_workers' = core_workers \cup {w}
           /\ task' = [task EXCEPT ![w] = IF w = TangleWorker THEN "none" ELSE "running"]
           /\ detached' = [detached EXCEPT ![w] = IF w \in Detaching THEN "running" ELSE "none"]
           /\ bus' = (IF w \in Listening THEN bus \cup {w} ELSE bus)
           /\ tangle' = (IF w = TangleWorker THEN "registered" ELSE tangle)
           /\ position' = p + 1
           /\ phase' = (IF p + 1 = Len(worker_order) THEN "running" ELSE "start")
  <2>1. LifeTypeOK'
    <3>1. task' \in [WorkerIds -> TaskStates] /\ detached' \in [WorkerIds -> TaskStates]
      BY <1>0, <1>5, <1>7 DEF LifeTypeOK, TaskStates
    <3>2. position' \in 0 .. Len(worker_order)
      <4>1. position' = p + 1  BY <1>7
      <4>2. p + 1 \in 1 .. Len(worker_order) /\ Len(worker_order) \in Nat  BY <1>5
      <4>3. p + 1 \in 0 .. Len(worker_order)  BY <4>2
      <4> QED  BY <4>1, <4>3
    <3>3. phase' \in Phases
      <4>1. phase' \in {"running", "start"}  BY <1>7
      <4> QED  BY <4>1 DEF Phases
    <3> QED  BY <1>0, <1>3, <3>1, <3>2, <3>3 DEF LifeTypeOK
  <2>2. /\ task'[w] = (IF w = TangleWorker THEN "none" ELSE "running") /\ \A v \in WorkerIds : v # w => task'[v] = task[v]
        /\ detached'[w] = (IF w \in Detaching THEN "running" ELSE "none") /\ \A v \in WorkerIds : v # w => detached'[v] = detached[v]
    BY <1>0, <1>5, <1>7 DEF LifeTypeOK
  <2>3. core_workers = FirstWorkers(p) /\ core_workers' = FirstWorkers(p + 1)
    <3>1. core_workers = FirstWorkers(p)  BY <1>0, <1>1 DEF PositionInv
    <3>2. FirstWorkers(p + 1) = FirstWorkers(p) \cup {w}
      <4>1. \A i \in 1 .. p + 1 : i \in 1 .. p \/ i = p + 1  OBVIOUS
      <4>2. \A i \in 1 .. p : i \in 1 .. p + 1  OBVIOUS
      <4>3. p + 1 \in 1 .. p + 1  OBVIOUS
      <4> QED  BY <1>5, <4>1, <4>2, <4>3 DEF FirstWorkers
    <3> QED  BY <1>7, <3>1, <3>2
  <2>4. PositionInv'
    <3>1. \A i \in 1 .. p + 1 : Deps(worker_order[i]) \subseteq FirstWorkers(i - 1)
      <4> TAKE i \in 1 .. p + 1
      <4>1. CASE i = p + 1
        <5>1. i - 1 = p  BY <4>1
        <5> QED  BY <1>5, <1>7, <2>3, <4>1, <5>1
      <4>2. CASE i # p + 1
        <5>1. i \in 1 .. position  BY <1>1, <4>2
        <5> QED  BY <1>0, <5>1 DEF PositionInv
      <4> QED  BY <4>1, <4>2
    <3>2. \A i \in 1 .. position' : (Deps(worker_order[i]) \subseteq FirstWorkers(i - 1))'
      <4> TAKE i \in 1 .. position'
      <4>1. Deps(worker_order[i]) \subseteq FirstWorkers(i - 1)  BY <1>7, <3>1
      <4> QED  BY <1>3, <1>4, <4>1 DEF Deps
    <3>3. core_workers' = FirstWorkers(position)'  BY <1>3, <1>7, <2>3 DEF FirstWorkers
    <3> QED  BY <1>7, <3>2, <3>3 DEF PositionInv
  <2>5. TasksInv'
    <3>1. w \in FirstWorkers(Len(worker_order))  BY <1>5 DEF FirstWorkers
    <3>2. \A v \in WorkerIds : task'[v] # "none" => v \in FirstWorkers(Len(worker_order))
      BY <1>0, <2>2, <3>1 DEF TasksInv
    <3>3. \A v \in WorkerIds : task'[v] # "ended"  BY <1>0, <1>3, <2>2 DEF TasksInv
    <3>4. ASSUME NEW i \in DOMAIN worker_order
          PROVE  /\ i < p + 1 => task'[worker_order[i]] \in {"none", "running"}
                 /\ i > p + 1 => task'[worker_order[i]] \in {"none", "ended"}
                 /\ i = p + 1 => task'[worker_order[i]] \in {"none", "running"}
      <4>1. i # p + 1 => worker_order[i] # w /\ task'[worker_order[i]] = task[worker_order[i]]  BY <1>5, <2>2
      <4>2. /\ i < p => task[worker_order[i]] \in {"none", "running"}
            /\ i > p => task[worker_order[i]] \in {"none", "ended"}
            /\ i = p => task[worker_order[i]] \in {"none", "running"}
        BY <1>0, <1>1, <1>3 DEF TasksInv, TaskAtPosition
      <4>3. i \in Nat /\ (i < p + 1 => i < p \/ i = p) /\ (i > p + 1 => i > p)  BY <1>5
      <4> QED  BY <1>5, <2>2, <4>1, <4>2, <4>3
    <3>5. TaskAtPosition' = {"none", "running"} /\ FirstWorkers(Len(worker_order))' = FirstWorkers(Len(worker_order))
      BY <1>3, <1>7 DEF TaskAtPosition, FirstWorkers
    <3> QED  BY <1>3, <1>7, <3>2, <3>3, <3>4, <3>5 DEF TasksInv
  <2>6. task[w] = "none"
    <3>1. p + 1 > position  BY <1>1
    <3>2. task[w] \in {"none", "ended"}  BY <1>0, <1>5, <3>1 DEF TasksInv
    <3> QED  BY <1>0, <1>3, <1>5, <3>2 DEF TasksInv
  <2>7. QueuesInv'
    <3>1. \A v \in WorkerIds : task'[v] = "ended" => task[v] = "ended"  BY <2>2
    <3>2. \A v \in WorkerIds : task[v] = "ended" => v # w /\ task'[v] = "ended"  BY <2>2, <2>6
    <3>3. lost \subseteq {v \in Detaching : task'[v] = "ended"}
      BY <1>0, <3>2 DEF QueuesInv, NothingLeftInQueues, LifeTypeOK
    <3>4. NothingLeftInQueues'  BY <1>0, <1>3, <3>1, <3>3 DEF QueuesInv, NothingLeftInQueues
    <3>5. bus' \subseteq core_workers'  BY <1>0, <1>7 DEF QueuesInv
    <3>6. w \in Detaching => w # TangleWorker  BY <1>0, GraphIs
    <3>7. \A v \in WorkerIds : detached'[v] # "none" => v \in Detaching /\ task'[v] # "none"
      BY <1>0, <2>2, <3>6 DEF QueuesInv
    <3> QED  BY <3>4, <3>5, <3>7 DEF QueuesInv
  <2>8. SomeDetached => SomeDetached'
    <3>1. \A v \in Detaching : v \in WorkerIds  BY <1>0, GraphIs
    <3> QED  BY <2>2, <3>1 DEF SomeDetached
  <2>9. TangleInv'
    <3>1. TangleWorker \in core_workers' => w = TangleWorker \/ TangleWorker \in core_workers  BY <1>7
    <3>2. tangle' = "removed" => w # TangleWorker /\ tangle = "removed"  BY <1>7
    <3> QED  BY <1>0, <1>3, <1>7, <2>8, <3>1, <3>2 DEF TangleInv
  <2> QED  BY <1>4, <2>1, <2>4, <2>5, <2>7, <2>9 DEF LifeInv
<1> QED  BY <1>1, <1>2, <1>6, <1>7 DEF StartWorker

\* Where the tasks that run are, and what they depend on.
LEMMA RunningTasks ==
  ASSUME LifeInv, NEW w \in WorkerIds, task[w] \in {"running", "signalled"}
  PROVE  \E i \in 1 .. position :
           /\ w = worker_order[i] /\ w \in DOMAIN graph /\ Deps(w) \subseteq FirstWorkers(i - 1)
           /\ task[w] = "signalled" => i = position /\ phase = "await"
<1>0. LifeTypeOK /\ OrderInv /\ PositionInv /\ TasksInv  BY DEF LifeInv
<1>1. w \in FirstWorkers(Len(worker_order))  BY <1>0 DEF TasksInv
<1>2. PICK i \in 1 .. Len(worker_order) : worker_order[i] = w  BY <1>1 DEF FirstWorkers
<1>3. i \in DOMAIN worker_order /\ i \in Nat /\ position \in Nat /\ w \in DOMAIN graph
  BY <1>0, <1>2, OrderDistinct DEF LifeTypeOK
<1>4. ~ (i > position)  BY <1>0, <1>2, <1>3 DEF TasksInv
<1>5. i \in 1 .. position  BY <1>2, <1>3, <1>4
<1>6. Deps(w) \subseteq FirstWorkers(i - 1)  BY <1>0, <1>2, <1>5 DEF PositionInv
<1>7. ASSUME task[w] = "signalled"  PROVE i = position /\ phase = "await"
  <2>1. ~ (i < position)  BY <1>0, <1>2, <1>3, <1>7 DEF TasksInv
  <2>2. i = position  BY <1>3, <1>4, <2>1
  <2>3. task[w] \in TaskAtPosition  BY <1>0, <1>2, <1>3, <2>2 DEF TasksInv
  <2> QED  BY <1>7, <2>2, <2>3 DEF TaskAtPosition
<1> QED  BY <1>2, <1>3, <1>5, <1>6, <1>7

\* Tasks run only while the workers they depend on do.
LEMMA AliveAlways == ASSUME LifeInv  PROVE DependenciesAlive
<1>0. LifeTypeOK /\ OrderInv /\ PositionInv /\ TasksInv  BY DEF LifeInv
<1> SUFFICES ASSUME NEW w \in WorkerIds, task[w] \in {"running", "signalled"}, NEW d \in Deps(w)
             PROVE  d \in core_workers /\ task[d] \in {"none", "running"}
  BY DEF DependenciesAlive
<1>1. PICK i \in 1 .. position : Deps(w) \subseteq FirstWorkers(i - 1)  BY RunningTasks
<1>2. PICK j \in 1 .. i - 1 : worker_order[j] = d  BY <1>1 DEF FirstWorkers
<1>3. position \in 0 .. Len(worker_order) /\ Len(worker_order) \in Nat /\ DOMAIN worker_order = 1 .. Len(worker_order)
  BY <1>0, OrderDistinct DEF LifeTypeOK
<1>4. j \in DOMAIN worker_order /\ j < position /\ j \in 1 .. position  BY <1>1, <1>2, <1>3
<1>5. d \in core_workers  BY <1>0, <1>2, <1>4 DEF PositionInv, FirstWorkers
<1> QED  BY <1>0, <1>2, <1>4, <1>5 DEF TasksInv

\* An event is sent.
LEMMA SendKeeps == ASSUME LifeInv, NEW w \in WorkerIds, NEW d \in WorkerIds, SendEvent(w, d)  PROVE LifeInv'
<1>0. LifeTypeOK /\ OrderInv /\ VisitsInv /\ PositionInv /\ TasksInv /\ QueuesInv /\ TangleInv  BY DEF LifeInv
<1>1. /\ task[w] \in {"running", "signalled"} \/ detached[w] = "running"
      /\ d \in Deps(w)
      /\ \/ task[d] = "ended" /\ lost' = lost \cup {w} /\ queue' = queue
         \/ task[d] # "ended" /\ queue' = [queue EXCEPT ![d] = @ + 1] /\ lost' = lost
      /\ UNCHANGED <<graph, unsorted, visiting, worker_order, phase, position, core_workers, task, detached, bus, tangle,
                     polls, tangle_shut>>
  BY DEF SendEvent, sortVars
<1>2. OrderInv' /\ VisitsInv' /\ \A i : FirstWorkers(i)' = FirstWorkers(i)  BY <1>0, <1>1, SortedFrame
<1>3. LifeTypeOK'
  <2>1. queue \in [WorkerIds -> Nat] /\ queue[d] + 1 \in Nat  BY <1>0 DEF LifeTypeOK
  <2>2. [queue EXCEPT ![d] = queue[d] + 1] \in [WorkerIds -> Nat]  BY <2>1
  <2>3. queue' \in [WorkerIds -> Nat]  BY <1>1, <2>1, <2>2
  <2> QED  BY <1>0, <1>1, <2>3 DEF LifeTypeOK
<1>4. PositionInv'  BY <1>0, <1>1, <1>2 DEF PositionInv, Deps
<1>5. TasksInv'  BY <1>0, <1>1, <1>2 DEF TasksInv, TaskAtPosition
<1>6. task[d] = "ended" => w \in Detaching /\ task[w] = "ended"
  <2> HAVE task[d] = "ended"
  <2>1. task[w] \notin {"running", "signalled"}  BY <1>1, AliveAlways DEF DependenciesAlive
  <2>2. detached[w] = "running"  BY <1>1, <2>1
  <2> QED  BY <1>0, <2>1, <2>2 DEF QueuesInv, LifeTypeOK, TaskStates
<1>7. QueuesInv'
  <2>1. \A v \in WorkerIds : task[v] = "ended" => queue'[v] = 0
    BY <1>0, <1>1 DEF QueuesInv, NothingLeftInQueues, LifeTypeOK
  <2>2. lost' \subseteq {v \in Detaching : task[v] = "ended"}  BY <1>0, <1>1, <1>6 DEF QueuesInv, NothingLeftInQueues
  <2> QED  BY <1>0, <1>1, <2>1, <2>2 DEF QueuesInv, NothingLeftInQueues
<1>8. TangleInv'  BY <1>0, <1>1 DEF TangleInv, SomeDetached, Current
<1> QED  BY <1>2, <1>3, <1>4, <1>5, <1>7, <1>8 DEF LifeInv

\* An event is handled.
LEMMA HandleKeeps == ASSUME LifeInv, NEW w \in WorkerIds, HandleEvent(w)  PROVE LifeInv'
<1>0. LifeTypeOK /\ OrderInv /\ VisitsInv /\ PositionInv /\ TasksInv /\ QueuesInv /\ TangleInv  BY DEF LifeInv
<1>1. /\ task[w] \in {"running", "signalled"} /\ queue[w] > 0 /\ queue' = [queue EXCEPT ![w] = @ - 1]
      /\ UNCHANGED <<graph, unsorted, visiting, worker_order, phase, position, core_workers, task, detached, bus, tangle,
                     polls, tangle_shut, lost>>
  BY DEF HandleEvent, sortVars
<1>2. OrderInv' /\ VisitsInv' /\ \A i : FirstWorkers(i)' = FirstWorkers(i)  BY <1>0, <1>1, SortedFrame
<1>3. LifeTypeOK'
  <2>1. queue \in [WorkerIds -> Nat] /\ queue[w] - 1 \in Nat  BY <1>0, <1>1 DEF LifeTypeOK
  <2>2. queue' \in [WorkerIds -> Nat]  BY <1>1, <2>1
  <2> QED  BY <1>0, <1>1, <2>2 DEF LifeTypeOK
<1>4. PositionInv'  BY <1>0, <1>1, <1>2 DEF PositionInv, Deps
<1>5. TasksInv'  BY <1>0, <1>1, <1>2 DEF TasksInv, TaskAtPosition
<1>6. QueuesInv'
  <2>1. \A v \in WorkerIds : task[v] = "ended" => queue'[v] = 0
    BY <1>0, <1>1 DEF QueuesInv, NothingLeftInQueues, LifeTypeOK
  <2> QED  BY <1>0, <1>1, <2>1 DEF QueuesInv, NothingLeftInQueues
<1>7. TangleInv'  BY <1>0, <1>1 DEF TangleInv, SomeDetached, Current
<1> QED  BY <1>2, <1>3, <1>4, <1>5, <1>6, <1>7 DEF LifeInv

\* A task that was told to stop ends.
LEMMA EndTaskKeeps == ASSUME LifeInv, NEW w \in WorkerIds, EndTask(w)  PROVE LifeInv'
<1>0. LifeTypeOK /\ OrderInv /\ VisitsInv /\ PositionInv /\ TasksInv /\ QueuesInv /\ TangleInv  BY DEF LifeInv
<1>1. /\ task[w] = "signalled" /\ task' = [task EXCEPT ![w] = "ended"] /\ queue' = [queue EXCEPT ![w] = 0]
      /\ UNCHANGED <<graph, unsorted, visiting, worker_order, phase, position, core_workers, detached, bus, tangle,
                     polls, tangle_shut, lost>>
  BY DEF EndTask, Drained, sortVars
<1>2. OrderInv' /\ VisitsInv' /\ \A i : FirstWorkers(i)' = FirstWorkers(i)  BY <1>0, <1>1, SortedFrame
<1>3. LifeTypeOK'
  <2>1. queue' \in [WorkerIds -> Nat] /\ task' \in [WorkerIds -> TaskStates]  BY <1>0, <1>1 DEF LifeTypeOK, TaskStates
  <2> QED  BY <1>0, <1>1, <2>1 DEF LifeTypeOK
<1>4. /\ task'[w] = "ended" /\ queue'[w] = 0
      /\ \A v \in WorkerIds : v # w => task'[v] = task[v] /\ queue'[v] = queue[v]
  BY <1>0, <1>1 DEF LifeTypeOK
<1>5. PositionInv'  BY <1>0, <1>1, <1>2 DEF PositionInv, Deps
<1>6. PICK k \in 1 .. position : w = worker_order[k] /\ k = position /\ phase = "await"  BY <1>1, RunningTasks
<1>7. TasksInv'
  <2>1. \A i \in DOMAIN worker_order : worker_order[i] \in WorkerIds /\ (worker_order[i] = w <=> i = position)
    BY <1>0, <1>6, OrderDistinct, GraphIs DEF LifeTypeOK
  <2>2. \A v \in WorkerIds : task'[v] # "none" => v \in FirstWorkers(Len(worker_order))
    BY <1>0, <1>1, <1>4 DEF TasksInv
  <2>3. \A i \in DOMAIN worker_order :
          /\ i < position => task'[worker_order[i]] \in {"none", "running"}
          /\ i > position => task'[worker_order[i]] \in {"none", "ended"}
          /\ i = position => task'[worker_order[i]] \in {"none", "signalled", "ended"}
    <3> TAKE i \in DOMAIN worker_order
    <3>1. CASE i = position
      <4>1. task'[worker_order[i]] = "ended"  BY <1>4, <2>1, <3>1
      <4>2. ~ (i < position) /\ ~ (i > position)  BY <1>0, <3>1 DEF LifeTypeOK
      <4> QED  BY <4>1, <4>2
    <3>2. CASE i # position
      <4>1. task'[worker_order[i]] = task[worker_order[i]]  BY <1>4, <2>1, <3>2
      <4> QED  BY <1>0, <3>2, <4>1 DEF TasksInv
    <3> QED  BY <3>1, <3>2
  <2> QED  BY <1>1, <1>2, <1>6, <2>2, <2>3 DEF TasksInv, TaskAtPosition
<1>8. QueuesInv'
  <2>1. \A v \in WorkerIds : task'[v] = "ended" => queue'[v] = 0  BY <1>0, <1>4 DEF QueuesInv, NothingLeftInQueues
  <2>2. \A v \in WorkerIds : task[v] = "ended" => task'[v] = "ended"  BY <1>4
  <2>3. lost \subseteq {v \in Detaching : task'[v] = "ended"}
    BY <1>0, <2>2 DEF QueuesInv, NothingLeftInQueues, LifeTypeOK
  <2>4. \A v \in WorkerIds : detached[v] # "none" => v \in Detaching /\ task'[v] # "none"  BY <1>0, <1>1, <1>4 DEF QueuesInv
  <2> QED  BY <1>0, <1>1, <2>1, <2>3, <2>4 DEF QueuesInv, NothingLeftInQueues
<1>9. TangleInv'  BY <1>0, <1>1 DEF TangleInv, SomeDetached, Current
<1> QED  BY <1>2, <1>3, <1>5, <1>7, <1>8, <1>9 DEF LifeInv

\* A detached task ends.
LEMMA EndDetachedKeeps == ASSUME LifeInv, NEW w \in WorkerIds, EndDetached(w)  PROVE LifeInv'
<1>0. LifeTypeOK /\ OrderInv /\ VisitsInv /\ PositionInv /\ TasksInv /\ QueuesInv /\ TangleInv  BY DEF LifeInv
<1>1. /\ detached[w] = "running" /\ detached' = [detached EXCEPT ![w] = "ended"]
      /\ UNCHANGED <<graph, unsorted, visiting, worker_order, phase, position, core_workers, task, queue, bus, tangle,
                     polls, tangle_shut, lost>>
  BY DEF EndDetached, sortVars
<1>2. OrderInv' /\ VisitsInv' /\ \A i : FirstWorkers(i)' = FirstWorkers(i)  BY <1>0, <1>1, SortedFrame
<1>3. LifeTypeOK'
  <2>1. detached' \in [WorkerIds -> TaskStates]  BY <1>0, <1>1 DEF LifeTypeOK, TaskStates
  <2> QED  BY <1>0, <1>1, <2>1 DEF LifeTypeOK
<1>4. \A v \in WorkerIds : detached'[v] # "none" <=> detached[v] # "none"  BY <1>0, <1>1 DEF LifeTypeOK
<1>5. PositionInv'  BY <1>0, <1>1, <1>2 DEF PositionInv, Deps
<1>6. TasksInv'  BY <1>0, <1>1, <1>2 DEF TasksInv, TaskAtPosition
<1>7. QueuesInv'  BY <1>0, <1>1, <1>4 DEF QueuesInv, NothingLeftInQueues
<1>8. SomeDetached => SomeDetached'
  <2>1. \A v \in Detaching : v \in WorkerIds  BY <1>0, GraphIs
  <2> QED  BY <1>4, <2>1 DEF SomeDetached
<1>9. TangleInv'  BY <1>0, <1>1, <1>8 DEF TangleInv, Current
<1> QED  BY <1>2, <1>3, <1>5, <1>6, <1>7, <1>9 DEF LifeInv

\* The shutdown begins, or the task of the worker has ended.
LEMMA PhaseKeeps == ASSUME LifeInv, Shutdown \/ TaskJoined \/ StopStorage  PROVE LifeInv'
<1>0. LifeTypeOK /\ OrderInv /\ VisitsInv /\ PositionInv /\ TasksInv /\ QueuesInv /\ TangleInv  BY DEF LifeInv
<1>1. /\ \/ phase = "running" /\ phase' = "stop_task"
         \/ phase = "await" /\ task[Current] \in {"none", "ended"}
            /\ phase' = (IF Current = TangleWorker THEN "stop_tangle" ELSE "stop_worker")
         \/ phase = "stop_storage" /\ phase' \in {"stopped", "panicked"}
      /\ UNCHANGED <<graph, unsorted, visiting, worker_order, position, core_workers, task, detached, queue, bus, tangle,
                     polls, tangle_shut, lost>>
  BY DEF Shutdown, TaskJoined, StopStorage, sortVars
<1>2. OrderInv' /\ VisitsInv' /\ \A i : FirstWorkers(i)' = FirstWorkers(i)  BY <1>0, <1>1, SortedFrame
<1>3. LifeTypeOK'  BY <1>0, <1>1 DEF LifeTypeOK, Phases
<1>4. PositionInv'
  <2>1. /\ phase' = "sort" => position = 0
        /\ phase' \in {"running", "stop_task", "await", "stop_tangle", "stop_worker"} => position >= 1
        /\ phase' \in {"stop_storage", "stopped"} => position = 0
    BY <1>0, <1>1 DEF PositionInv
  <2> QED  BY <1>0, <1>1, <1>2, <2>1 DEF PositionInv, Deps
<1>5. TasksInv'
  <2>1. \A i \in DOMAIN worker_order : i = position => task[worker_order[i]] \in TaskAtPosition'
    BY <1>0, <1>1 DEF TasksInv, TaskAtPosition, Current, PositionInv, LifeTypeOK
  <2>2. phase' \notin {"sort", "start"}  BY <1>1
  <2> QED  BY <1>0, <1>1, <1>2, <2>1, <2>2 DEF TasksInv
<1>6. QueuesInv'  BY <1>0, <1>1 DEF QueuesInv, NothingLeftInQueues
<1>7. TangleInv'  BY <1>0, <1>1 DEF TangleInv, SomeDetached, Current
<1> QED  BY <1>2, <1>3, <1>4, <1>5, <1>6, <1>7 DEF LifeInv

\* The task of the worker is told to stop.
LEMMA StopTaskKeeps == ASSUME LifeInv, StopTask  PROVE LifeInv'
<1>0. LifeTypeOK /\ OrderInv /\ VisitsInv /\ PositionInv /\ TasksInv /\ QueuesInv /\ TangleInv  BY DEF LifeInv
<1>1. PICK w : w = Current  OBVIOUS
<1>2. /\ phase = "stop_task" /\ phase' = "await" /\ task' = [task EXCEPT ![w] = IF @ = "running" THEN "signalled" ELSE @]
      /\ UNCHANGED <<graph, unsorted, visiting, worker_order, position, core_workers, detached, queue, bus, tangle,
                     polls, tangle_shut, lost>>
  BY <1>1 DEF StopTask, Signalled, sortVars
<1>3. OrderInv' /\ VisitsInv' /\ \A i : FirstWorkers(i)' = FirstWorkers(i)  BY <1>0, <1>2, SortedFrame
<1>4. /\ w = worker_order[position] /\ position \in DOMAIN worker_order /\ position \in Nat /\ w \in WorkerIds
      /\ \A i \in DOMAIN worker_order : worker_order[i] \in WorkerIds /\ (worker_order[i] = w <=> i = position)
  <2>1. position >= 1 /\ position \in 0 .. Len(worker_order)  BY <1>0, <1>2 DEF PositionInv, LifeTypeOK
  <2>2. position \in DOMAIN worker_order /\ position \in Nat  BY <1>0, <2>1, OrderDistinct
  <2> QED  BY <1>0, <1>1, <2>2, OrderDistinct, GraphIs DEF Current
<1>5. task[w] \in {"none", "running"}  BY <1>0, <1>2, <1>4 DEF TasksInv, TaskAtPosition
<1>6. /\ task'[w] = (IF task[w] = "running" THEN "signalled" ELSE task[w])
      /\ \A v \in WorkerIds : v # w => task'[v] = task[v]
  BY <1>0, <1>2, <1>4 DEF LifeTypeOK
<1>7. LifeTypeOK'
  <2>1. task' \in [WorkerIds -> TaskStates]  BY <1>0, <1>2, <1>4, <1>5 DEF LifeTypeOK, TaskStates
  <2> QED  BY <1>0, <1>2, <2>1 DEF LifeTypeOK, Phases
<1>8. PositionInv'  BY <1>0, <1>2, <1>3 DEF PositionInv, Deps
<1>9. TasksInv'
  <2>1. \A v \in WorkerIds : task'[v] # "none" => v \in FirstWorkers(Len(worker_order))  BY <1>0, <1>6 DEF TasksInv
  <2>2. \A i \in DOMAIN worker_order :
          /\ i < position => task'[worker_order[i]] \in {"none", "running"}
          /\ i > position => task'[worker_order[i]] \in {"none", "ended"}
          /\ i = position => task'[worker_order[i]] \in {"none", "signalled", "ended"}
    <3> TAKE i \in DOMAIN worker_order
    <3>1. CASE i = position
      <4>1. task'[worker_order[i]] \in {"none", "signalled"}  BY <1>4, <1>5, <1>6, <3>1
      <4>2. ~ (i < position) /\ ~ (i > position)  BY <1>4, <3>1
      <4> QED  BY <4>1, <4>2
    <3>2. CASE i # position
      <4>1. task'[worker_order[i]] = task[worker_order[i]]  BY <1>4, <1>6, <3>2
      <4> QED  BY <1>0, <3>2, <4>1 DEF TasksInv
    <3> QED  BY <3>1, <3>2
  <2> QED  BY <1>2, <1>3, <2>1, <2>2 DEF TasksInv, TaskAtPosition
<1>10. QueuesInv'
  <2>1. \A v \in WorkerIds : (task'[v] = "ended" <=> task[v] = "ended") /\ (task'[v] = "none" <=> task[v] = "none")
    BY <1>5, <1>6
  <2>2. lost \subseteq {v \in Detaching : task'[v] = "ended"}
    BY <1>0, <2>1 DEF QueuesInv, NothingLeftInQueues, LifeTypeOK
  <2> QED  BY <1>0, <1>2, <2>1, <2>2 DEF QueuesInv, NothingLeftInQueues
<1>11. TangleInv'  BY <1>0, <1>2 DEF TangleInv, SomeDetached, Current
<1> QED  BY <1>3, <1>7, <1>8, <1>9, <1>10, <1>11 DEF LifeInv

\* Tasks and listeners have let go of the tangle when its worker stops.
LEMMA HoldersAtStop ==
  ASSUME LifeInv, phase = "stop_tangle"
  PROVE  TangleHolders \subseteq {w \in Detaching : detached[w] = "running"}
<1>0. LifeTypeOK /\ OrderInv /\ VisitsInv /\ PositionInv /\ TasksInv /\ QueuesInv /\ TangleInv  BY DEF LifeInv
<1>1. /\ Current = TangleWorker /\ position >= 1 /\ position \in 0 .. Len(worker_order)
      /\ DOMAIN worker_order = 1 .. Len(worker_order) /\ Len(worker_order) \in Nat
  BY <1>0, OrderDistinct DEF TangleInv, PositionInv, LifeTypeOK
<1>2. position \in DOMAIN worker_order /\ worker_order[position] = TangleWorker  BY <1>1 DEF Current
<1>3. ASSUME NEW i \in 1 .. position, worker_order[i] \in TangleUsers \cup Listening  PROVE FALSE
  <2>1. i \in DOMAIN worker_order  BY <1>1
  <2>2. TangleWorker \in Deps(worker_order[i])  BY <1>0, <1>3, <2>1, OrderDistinct, GraphIs
  <2>3. TangleWorker \in FirstWorkers(i - 1)  BY <1>0, <2>2 DEF PositionInv
  <2>4. PICK j \in 1 .. i - 1 : worker_order[j] = TangleWorker  BY <2>3 DEF FirstWorkers
  <2>5. j \in DOMAIN worker_order /\ j # position  BY <1>1, <2>4
  <2> QED  BY <1>0, <1>2, <2>4, <2>5, OrderDistinct
<1>4. \A w \in TangleUsers : task[w] \notin {"running", "signalled"}
  <2> SUFFICES ASSUME NEW w \in TangleUsers, task[w] \in {"running", "signalled"}  PROVE FALSE  OBVIOUS
  <2>1. w \in WorkerIds  BY <1>0, GraphIs
  <2>2. PICK i \in 1 .. position : w = worker_order[i]  BY <2>1, RunningTasks
  <2> QED  BY <1>3, <2>2
<1>5. bus \cap Listening = {}
  <2> SUFFICES ASSUME NEW w \in bus \cap Listening  PROVE FALSE  OBVIOUS
  <2>1. w \in FirstWorkers(position)  BY <1>0 DEF QueuesInv, PositionInv
  <2>2. PICK i \in 1 .. position : worker_order[i] = w  BY <2>1 DEF FirstWorkers
  <2> QED  BY <1>3, <2>2
<1> QED  BY <1>4, <1>5 DEF TangleHolders

\* The tangle worker stops, or polls once more.
LEMMA StopTangleKeeps == ASSUME LifeInv, StopTangle  PROVE LifeInv'
<1>0. LifeTypeOK /\ OrderInv /\ VisitsInv /\ PositionInv /\ TasksInv /\ QueuesInv /\ TangleInv  BY DEF LifeInv
<1>1. /\ phase = "stop_tangle" /\ tangle' = "removed"
      /\ \/ /\ tangle = "registered" /\ TangleHolders = {} /\ tangle_shut' = "shutdown" /\ phase' = "stop_worker" /\ polls' = polls
         \/ /\ ~ (tangle = "registered" /\ TangleHolders = {})
            /\ polls' \in {polls, polls + 1} /\ tangle_shut' \in {tangle_shut, "dropped"} /\ phase' \in {"stop_tangle", "stop_worker"}
      /\ UNCHANGED <<graph, unsorted, visiting, worker_order, position, core_workers, task, detached, queue, bus, lost>>
  BY DEF StopTangle, sortVars
<1>2. OrderInv' /\ VisitsInv' /\ \A i : FirstWorkers(i)' = FirstWorkers(i)  BY <1>0, <1>1, SortedFrame
<1>3. LifeTypeOK'
  <2>1. polls' \in Nat /\ phase' \in Phases  BY <1>0, <1>1 DEF LifeTypeOK, Phases
  <2> QED  BY <1>0, <1>1, <2>1 DEF LifeTypeOK
<1>4. PositionInv'
  <2>1. phase' \in {"stop_tangle", "stop_worker"} /\ position >= 1  BY <1>0, <1>1 DEF PositionInv
  <2> QED  BY <1>0, <1>1, <1>2, <2>1 DEF PositionInv, Deps
<1>5. TasksInv'
  <2>1. TaskAtPosition' = TaskAtPosition /\ phase' \notin {"sort", "start"}  BY <1>1 DEF TaskAtPosition
  <2> QED  BY <1>0, <1>1, <1>2, <2>1 DEF TasksInv
<1>6. QueuesInv'  BY <1>0, <1>1 DEF QueuesInv, NothingLeftInQueues
<1>7. /\ Current = TangleWorker /\ Current' = Current /\ SomeDetached' = SomeDetached /\ TangleWorker \in core_workers
  <2>1. position \in 1 .. position  BY <1>0, <1>1 DEF PositionInv, LifeTypeOK
  <2>2. Current = TangleWorker /\ TangleWorker \in core_workers
    BY <1>0, <1>1, <2>1 DEF PositionInv, FirstWorkers, TangleInv, Current
  <2> QED  BY <1>1, <2>2 DEF SomeDetached, Current
<1>8. ~ (tangle = "registered" /\ TangleHolders = {}) => SomeDetached
  <2>1. tangle = "registered" /\ TangleHolders # {} => SomeDetached  BY <1>1, HoldersAtStop DEF SomeDetached
  <2>2. tangle # "registered" => SomeDetached  BY <1>0, <1>1, <1>7 DEF TangleInv
  <2> QED  BY <2>1, <2>2
<1>9. TangleInv'  BY <1>0, <1>1, <1>7, <1>8 DEF TangleInv
<1> QED  BY <1>2, <1>3, <1>4, <1>5, <1>6, <1>9 DEF LifeInv

\* The worker is dropped.
LEMMA StopWorkerKeeps == ASSUME LifeInv, StopWorker  PROVE LifeInv'
<1>0. LifeTypeOK /\ OrderInv /\ VisitsInv /\ PositionInv /\ TasksInv /\ QueuesInv /\ TangleInv  BY DEF LifeInv
<1>1. PICK w : w = Current  OBVIOUS
<1>p. PICK p \in Nat : p = position  BY <1>0 DEF LifeTypeOK
<1>2. /\ phase = "stop_worker" /\ core_workers' = core_workers \ {w} /\ bus' = bus \ {w} /\ position' = p - 1
      /\ phase' = (IF p > 1 THEN "stop_task" ELSE "stop_storage")
      /\ UNCHANGED <<graph, unsorted, visiting, worker_order, task, detached, queue, tangle, polls, tangle_shut, lost>>
  BY <1>1, <1>p DEF StopWorker, RemoveListeners, sortVars
<1>3. OrderInv' /\ VisitsInv' /\ \A i : FirstWorkers(i)' = FirstWorkers(i)  BY <1>0, <1>2, SortedFrame
<1>4. /\ p >= 1 /\ p \in DOMAIN worker_order /\ w = worker_order[p] /\ p <= Len(worker_order) /\ Len(worker_order) \in Nat
      /\ DOMAIN worker_order = 1 .. Len(worker_order)
  <2>1. p >= 1 /\ p \in 0 .. Len(worker_order)  BY <1>0, <1>2, <1>p DEF PositionInv, LifeTypeOK
  <2> QED  BY <1>0, <1>1, <1>p, <2>1, OrderDistinct DEF Current
<1>5. LifeTypeOK'
  <2>1. position' \in 0 .. Len(worker_order) /\ phase' \in Phases  BY <1>2, <1>4 DEF Phases
  <2> QED  BY <1>0, <1>2, <2>1 DEF LifeTypeOK
<1>6. FirstWorkers(p) \ {w} = FirstWorkers(p - 1)
  <2>1. \A i \in 1 .. p : worker_order[i] = w <=> i = p  BY <1>0, <1>4, OrderDistinct
  <2>2. \A i \in 1 .. p : i = p \/ i \in 1 .. p - 1  OBVIOUS
  <2>3. \A i \in 1 .. p - 1 : i \in 1 .. p /\ i # p  OBVIOUS
  <2>4. ASSUME NEW x \in FirstWorkers(p) \ {w}  PROVE x \in FirstWorkers(p - 1)
    <3>1. PICK i \in 1 .. p : worker_order[i] = x  BY <2>4 DEF FirstWorkers
    <3>2. i \in 1 .. p - 1  BY <2>1, <2>2, <2>4, <3>1
    <3> QED  BY <3>1, <3>2 DEF FirstWorkers
  <2>5. ASSUME NEW x \in FirstWorkers(p - 1)  PROVE x \in FirstWorkers(p) \ {w}
    <3>1. PICK i \in 1 .. p - 1 : worker_order[i] = x  BY <2>5 DEF FirstWorkers
    <3> QED  BY <2>1, <2>3, <3>1 DEF FirstWorkers
  <2> QED  BY <2>4, <2>5
<1>7. core_workers = FirstWorkers(p) /\ core_workers' = FirstWorkers(p - 1)
  <2>1. core_workers = FirstWorkers(p)  BY <1>0, <1>p DEF PositionInv
  <2> QED  BY <1>2, <1>6, <2>1
<1>8. PositionInv'
  <2>1. core_workers' = FirstWorkers(position)'  BY <1>2, <1>7 DEF FirstWorkers
  <2>2. /\ phase' = "stop_task" => position' >= 1
        /\ phase' = "stop_storage" => position' = 0
        /\ phase' \in {"stop_task", "stop_storage"}
    BY <1>2, <1>4
  <2>3. \A i \in 1 .. position' : (Deps(worker_order[i]) \subseteq FirstWorkers(i - 1))'
    <3> TAKE i \in 1 .. position'
    <3>1. i \in 1 .. position  BY <1>2, <1>4, <1>p
    <3>2. Deps(worker_order[i]) \subseteq FirstWorkers(i - 1)  BY <1>0, <3>1 DEF PositionInv
    <3> QED  BY <1>2, <1>3, <3>2 DEF Deps
  <2> QED  BY <2>1, <2>2, <2>3 DEF PositionInv
<1>9. TasksInv'
  <2>1. \A i \in DOMAIN worker_order :
          /\ i < p - 1 => task[worker_order[i]] \in {"none", "running"}
          /\ i > p - 1 => task[worker_order[i]] \in {"none", "ended"}
          /\ i = p - 1 => task[worker_order[i]] \in {"none", "running"}
    <3> TAKE i \in DOMAIN worker_order
    <3>1. /\ i < p => task[worker_order[i]] \in {"none", "running"}
          /\ i > p => task[worker_order[i]] \in {"none", "ended"}
          /\ i = p => task[worker_order[i]] \in {"none", "ended"}
      BY <1>0, <1>2, <1>p DEF TasksInv, TaskAtPosition
    <3>2. i \in Nat /\ (i < p - 1 => i < p) /\ (i = p - 1 => i < p) /\ (i > p - 1 => i = p \/ i > p)  BY <1>4
    <3> QED  BY <3>1, <3>2
  <2>2. TaskAtPosition' = {"none", "running"} /\ phase' \notin {"sort", "start"}  BY <1>2 DEF TaskAtPosition
  <2> QED  BY <1>0, <1>2, <1>3, <2>1, <2>2 DEF TasksInv
<1>10. QueuesInv'  BY <1>0, <1>2 DEF QueuesInv, NothingLeftInQueues
<1>11. TangleInv'
  <2>1. TangleWorker \in core_workers' => TangleWorker \in core_workers /\ Current # TangleWorker  BY <1>1, <1>2
  <2>2. SomeDetached' = SomeDetached /\ phase' # "stop_tangle"  BY <1>2 DEF SomeDetached
  <2> QED  BY <1>0, <1>2, <2>1, <2>2 DEF TangleInv
<1> QED  BY <1>3, <1>5, <1>8, <1>9, <1>10, <1>11 DEF LifeInv

\* Every step keeps the invariant.
LEMMA LifeKept == ASSUME LifeInv, [LifeNext]_lifeVars  PROVE LifeInv'
<1>1. CASE LifeNext
  BY <1>1, SortKeeps, DependencyKeeps, EndsKeeps, StartKeeps, SendKeeps, HandleKeeps, EndTaskKeeps, EndDetachedKeeps,
     PhaseKeeps, StopTaskKeeps, StopTangleKeeps, StopWorkerKeeps DEF LifeNext, NodeStep
<1>2. CASE UNCHANGED lifeVars
  <2>0. LifeTypeOK /\ OrderInv /\ VisitsInv /\ PositionInv /\ TasksInv /\ QueuesInv /\ TangleInv  BY DEF LifeInv
  <2>1. UNCHANGED <<graph, unsorted, visiting, worker_order, phase, position, core_workers, task, detached, queue, bus,
                    tangle, polls, tangle_shut, lost>>
    BY <1>2 DEF lifeVars
  <2>2. OrderInv' /\ VisitsInv' /\ \A i : FirstWorkers(i)' = FirstWorkers(i)  BY <2>0, <2>1, SortedFrame
  <2>3. LifeTypeOK'  BY <2>0, <2>1 DEF LifeTypeOK
  <2>4. PositionInv' /\ TasksInv'  BY <2>0, <2>1, <2>2 DEF PositionInv, TasksInv, TaskAtPosition, Deps
  <2>5. QueuesInv' /\ TangleInv'  BY <2>0, <2>1 DEF QueuesInv, NothingLeftInQueues, TangleInv, SomeDetached, Current
  <2> QED  BY <2>2, <2>3, <2>4, <2>5 DEF LifeInv
<1> QED  BY <1>1, <1>2

\* The start and the shutdown of a node are orderly for every graph of workers:
\* a worker starts after those it depends on and stops before them, no event is
\* left in the queue of a task that has ended, and only detached tasks can keep
\* the tangle from being shut down (TopologicalOrder, FullNode::stop).
THEOREM ShutdownIsOrderly == LifeSpec => []OrderlyShutdown
<1>1. LifeInit => LifeInv  BY LifeInvInit
<1>2. LifeInv /\ [LifeNext]_lifeVars => LifeInv'  BY LifeKept
<1>3. LifeInv => OrderlyShutdown
  <2> SUFFICES ASSUME LifeInv  PROVE OrderlyShutdown  OBVIOUS
  <2>1. DependenciesFirst /\ NothingLeftInQueues  BY DEF LifeInv, OrderInv, QueuesInv
  <2>2. DependenciesAlive  BY AliveAlways
  <2>3. OnlyDetachedHoldTangle
    <3>1. tangle_shut = "dropped" => SomeDetached  BY DEF LifeInv, TangleInv
    <3> QED  BY <3>1, HoldersAtStop DEF OnlyDetachedHoldTangle, SomeDetached
  <2> QED  BY <2>1, <2>2, <2>3 DEF OrderlyShutdown
<1> QED  BY <1>1, <1>2, <1>3, PTL DEF LifeSpec
-----------------------------------------------------------------------------
(***************************************************************************)
(* The solidification of messages.                                         *)
(***************************************************************************)
\* What is announced to the solidifier is a milestone.
Announced ==
  /\ marked # Nothing /\ announces => marked \in Milestones
  /\ \A s \in solidified : s[2] => s[1] \in Milestones
  /\ announcing \in {Nothing} \cup [message : Messages, announces : BOOLEAN, lmi : Nat]
  /\ announcing # Nothing /\ announcing.announces => announcing.message \in Milestones

TypeInv == TypeOK /\ Announced

\* The initial state has the types of the state.
LEMMA TypeInit == Init => TypeInv
<1> SUFFICES ASSUME Init  PROVE TypeInv
  OBVIOUS
<1>1. solidifier_queue \in Seq(Nat) /\ confirm_queue \in Seq(Milestones)
  BY DEF Init
<1>2. req_queue \in [Messages -> 0 .. MaxRequests]
  BY SolidificationAssumption DEF Init
<1>3. /\ pc \in [Processors -> {"idle", "link", "propagate", "take", "payload"}]
      /\ processing \in [Processors -> {Nothing} \cup Messages]
      /\ \A p \in Processors : pc[p] = "idle"
      /\ todo \in [Processors -> SUBSET (Messages \cup SolidEntryPoints)]
  BY DEF Init
<1>4. /\ smi \in Nat /\ lmi \in Nat /\ next \in Nat /\ limit \in Nat
      /\ target \in {Nothing} \cup Nat
  BY SolidificationAssumption DEF Init
<1>5. Announced
  BY DEF Init, Announced
<1> QED  BY <1>1, <1>2, <1>3, <1>4, <1>5 DEF Init, TypeInv, TypeOK

\* A request keeps the type of the queue.
LEMMA RequestType ==
  ASSUME NEW S, RequestMessages(S), req_queue \in [Messages -> 0 .. MaxRequests]
  PROVE  req_queue' \in [Messages -> 0 .. MaxRequests]
  BY SolidificationAssumption DEF RequestMessages

USE SolidificationAssumption

\* The steps of the processors keep the types.
LEMMA TypeProcessor ==
  ASSUME TypeInv, NEW p \in Processors,
         Processor(p) \/ \E m \in Messages : Receive(p, m)
  PROVE  TypeInv'
<1> USE DEF TypeInv, TypeOK, Announced, tangleVars, processorVars, requestVars, msRequestVars,
        propVars, announceVars, payloadVars, solidVars
<1>1. CASE \E m \in Messages : Receive(p, m)  BY <1>1 DEF Receive
<1>2. CASE Link(p)  BY <1>2 DEF Link
<1>3. CASE SendPropagate(p)  BY <1>3 DEF SendPropagate
<1>4. CASE TakeRequest(p)  BY <1>4 DEF TakeRequest
<1>5. CASE RequestParent(p)  BY <1>5, RequestType DEF RequestParent
<1>6. CASE SendPayload(p)  BY <1>6 DEF SendPayload, MilestonePayloads
<1> QED  BY <1>1, <1>2, <1>3, <1>4, <1>5, <1>6 DEF Processor

\* The steps of the requesters keep the types.
LEMMA TypeRequester ==
  ASSUME TypeInv, Requester  PROVE  TypeInv'
<1> USE DEF TypeInv, TypeOK, Announced, tangleVars, processorVars, requestVars, msRequestVars,
        propVars, announceVars, payloadVars, solidVars
<1>1. ASSUME NEW x \in Messages, ProcessRequest(x)  PROVE TypeInv'
  <2>1. req_queue' \in [Messages -> 0 .. MaxRequests] /\ requested_messages' \subseteq Messages
    BY <1>1 DEF ProcessRequest
  <2> QED  BY <1>1, <2>1 DEF ProcessRequest
<1>2. ASSUME NEW x \in Messages, RetryRequest(x)  PROVE TypeInv'  BY <1>2 DEF RetryRequest
<1>3. ASSUME NEW i \in ms_queue \cup requested_milestones, ProcessMilestoneRequest(i)
      PROVE  TypeInv'
  BY <1>3 DEF ProcessMilestoneRequest
<1>4. ASSUME NEW i \in ms_queue \cup requested_milestones, RetryMilestoneRequest(i)
      PROVE  TypeInv'
  BY <1>4 DEF RetryMilestoneRequest
<1> QED  BY <1>1, <1>2, <1>3, <1>4 DEF Requester

\* The steps of the propagator and of the task behind it keep the types.
LEMMA TypePropagator ==
  ASSUME TypeInv, Propagator \/ Announcer  PROVE  TypeInv'
<1> USE DEF TypeInv, TypeOK, Announced, tangleVars, processorVars, requestVars, msRequestVars,
        propVars, announceVars, payloadVars, solidVars
<1>1. ASSUME NEW x \in Messages, Propagate(x)  PROVE TypeInv'  BY <1>1 DEF Propagate
<1>2. ASSUME NEW x \in Messages, Skip(x)  PROVE TypeInv'  BY <1>2 DEF Skip
<1>3. ASSUME NEW x \in Messages, MarkSolid(x)  PROVE TypeInv'
  <2>1. announces' \in BOOLEAN /\ marked' = x /\ (announces' => x \in Milestones)
    <3>1. is_milestone \subseteq Milestones  OBVIOUS
    <3> HIDE DEF TypeInv, TypeOK, Announced
    <3>2. marked' = x /\ announces' = (x \in is_milestone)  BY <1>3 DEF MarkSolid
    <3>3. (x \in is_milestone) \in BOOLEAN  BY SMT
    <3>4. announces' => x \in Milestones  BY <3>1, <3>2, Zenon
    <3> QED  BY <3>2, <3>3, <3>4, Zenon
  <2>2. x \in inserted /\ solid' = solid \cup {x} /\ inserted' = inserted
    BY <1>3 DEF MarkSolid, Solidifiable
  <2>3. rooted' \subseteq Messages
    BY <1>3 DEF MarkSolid, RootedByPropagation
  <2>4. marked' \in {Nothing} \cup solid' /\ solid' \subseteq inserted'
    BY <2>1, <2>2
  <2>5. /\ UNCHANGED <<inserted, linked, is_milestone, milestones, smi, lmi, processorVars,
                       requestVars, msRequestVars, prop_queue, announceVars, payloadVars,
                       solidVars>>
        /\ children' \subseteq inserted
    BY <1>3 DEF MarkSolid
  <2>6. Announced'
    BY <2>1, <2>5
  <2>7. TypeOK'
    <3>1. /\ linked' \subseteq inserted' /\ inserted' \subseteq Messages /\ children' \subseteq inserted'
          /\ prop_queue' \subseteq inserted' /\ payload_queue' \subseteq Milestones \cap inserted'
      BY <2>5
    <3>2. /\ announces' \in BOOLEAN /\ solidified' \subseteq Messages \X BOOLEAN
      BY <2>1, <2>5
    <3>3. \A p \in Processors : pc'[p] # "idle" => processing'[p] \in inserted'
      BY <2>5
    <3> QED  BY <2>3, <2>4, <2>5, <3>1, <3>2, <3>3
  <2> QED  BY <2>6, <2>7
<1>4. CASE PushChildren
  <2>1. announces' \in BOOLEAN /\ marked' = Nothing
    <3>1. announces' = FALSE /\ marked' = Nothing  BY <1>4 DEF PushChildren
    <3> QED  BY <3>1
  <2>2. solidified' = solidified \cup {<<marked, announces>>} /\ marked \in Messages
    BY <1>4 DEF PushChildren
  <2>3. /\ solidified' \subseteq Messages \X BOOLEAN
        /\ \A s \in solidified' : s[2] => s[1] \in Milestones
    BY <1>4, <2>2 DEF PushChildren
  <2>4. Announced'
    BY <1>4, <2>1, <2>3 DEF PushChildren
  <2>5. TypeOK'
    BY <1>4, <2>1, <2>3 DEF PushChildren, ChildrenOf
  <2> QED  BY <2>4, <2>5
<1>5. CASE ReadLatestIndex  BY <1>5 DEF ReadLatestIndex
<1>6. CASE Announce
  <2>1. announcing.announces => Index[announcing.message] \in Nat
    BY <1>6 DEF Announce
  <2>2. solidifier_queue' \in Seq(Nat)
    BY <1>6, <2>1 DEF Announce
  <2>3. TypeOK'
    BY <1>6, <2>2 DEF Announce
  <2>4. Announced'
    BY <1>6 DEF Announce
  <2> QED  BY <2>3, <2>4
<1> QED  BY <1>1, <1>2, <1>3, <1>4, <1>5, <1>6 DEF Propagator, Announcer

\* The steps of the milestone payload worker keep the types.
LEMMA TypePayload ==
  ASSUME TypeInv, MilestonePayload  PROVE  TypeInv'
<1> USE DEF TypeInv, TypeOK, Announced, tangleVars, processorVars, requestVars, msRequestVars,
        propVars, announceVars, payloadVars, solidVars
<1>1. ASSUME NEW x \in Milestones, IgnoreMilestone(x)  PROVE TypeInv'
  BY <1>1 DEF IgnoreMilestone
<1>2. ASSUME NEW x \in Milestones, FlagMilestone(x)  PROVE TypeInv'  BY <1>2 DEF FlagMilestone
<1>3. CASE StoreMilestone
  <2>1. adding \in Milestones /\ Index[adding] \in Nat
    BY <1>3 DEF StoreMilestone
  <2>2. <<Index[adding]>> \in Seq(Nat)
    BY <2>1
  <2>3. solidifier_queue' \in Seq(Nat)
    BY <1>3, <2>2 DEF StoreMilestone, EventFor
  <2>4. lmi' \in Nat
    BY <1>3, <2>1 DEF StoreMilestone, LatestAfter
  <2> QED  BY <1>3, <2>1, <2>3, <2>4 DEF StoreMilestone
<1> QED  BY <1>1, <1>2, <1>3 DEF MilestonePayload

\* The steps of the solidifier keep the types.
LEMMA TypeSolidifier ==
  ASSUME TypeInv, Solidifier  PROVE  TypeInv'
<1> USE DEF TypeInv, TypeOK, Announced, tangleVars, processorVars, requestVars, msRequestVars,
        propVars, announceVars, payloadVars, solidVars
<1>1. CASE SolidifierEvent
  <2>1. req_queue' \in [Messages -> 0 .. MaxRequests]
    BY <1>1, RequestType DEF SolidifierEvent
  <2>2. next' \in Nat /\ target' \in Nat /\ limit' \in Nat /\ ms_queue' \subseteq Nat
    <3>1. RequestEnd \in Nat  BY DEF RequestEnd
    <3>2. next' \in Nat  BY <1>1, <3>1 DEF SolidifierEvent
    <3>3. next .. RequestEnd \subseteq Nat  BY <3>1
    <3>4. ms_queue' \subseteq ms_queue \cup (next .. RequestEnd)  BY <1>1 DEF SolidifierEvent
    <3>5. target' \in Nat /\ limit' \in Nat  BY <1>1 DEF SolidifierEvent, FirstTarget
    <3> QED  BY <3>2, <3>3, <3>4, <3>5
  <2>3. solidifier_queue' \in Seq(Nat)
    BY <1>1 DEF SolidifierEvent
  <2> QED  BY <1>1, <2>1, <2>2, <2>3 DEF SolidifierEvent
<1>2. ASSUME NEW m \in Milestones, Solidify(m)  PROVE TypeInv'  BY <1>2 DEF Solidify
<1>3. ASSUME NEW m \in Milestones, HeavySolidification(m)  PROVE TypeInv'
  BY <1>3, RequestType DEF HeavySolidification
<1>4. CASE NoTarget  BY <1>4 DEF NoTarget
<1> QED  BY <1>1, <1>2, <1>3, <1>4 DEF Solidifier

\* Every step of a worker keeps the types.
LEMMA TypeStep == TypeInv /\ [Next]_vars => TypeInv'
<1>1. ASSUME TypeInv, UNCHANGED vars  PROVE TypeInv'
  BY <1>1 DEF TypeInv, TypeOK, Announced, vars, tangleVars, processorVars, requestVars,
              msRequestVars, propVars, announceVars, payloadVars, solidVars
<1> QED  BY <1>1, TypeProcessor, TypeRequester, TypePropagator, TypePayload, TypeSolidifier
         DEF Next

\* Type correctness of the workers of the protocol and of their queues.
THEOREM TypeCorrect == Spec => []TypeOK
<1>1. TypeInv => TypeOK  BY DEF TypeInv
<1> QED  BY <1>1, TypeInit, TypeStep, PTL DEF Spec

-----------------------------------------------------------------------------
(***************************************************************************)
(* What a step leaves alone.  The flags of the messages are changed by the *)
(* propagator and the milestone payload worker only, the links and the     *)
(* work that is pending by the processors and the propagator only, and the *)
(* confirmation by the solidifier only.                                    *)
(***************************************************************************)
flagVars    == <<solid, rooted, is_milestone>>
pendingVars == <<inserted, linked, solid, pc, processing, prop_queue, children, marked>>
confirmVars == <<smi, target, limit, confirm_queue>>

\* The steps that change the flags of messages.
LEMMA FlagSteps ==
  ASSUME [Next]_vars
  PROVE  \/ UNCHANGED flagVars
         \/ \E x \in Messages : MarkSolid(x)
         \/ \E x \in Milestones : FlagMilestone(x)
  BY DEF Next, Processor, Requester, Propagator, Announcer, MilestonePayload, Solidifier,
         Receive, Link, SendPropagate, TakeRequest, RequestParent, SendPayload,
         ProcessRequest, RetryRequest, ProcessMilestoneRequest, RetryMilestoneRequest,
         Propagate, Skip, PushChildren, ReadLatestIndex, Announce, IgnoreMilestone,
         StoreMilestone, SolidifierEvent, Solidify, HeavySolidification, NoTarget,
         vars, flagVars, tangleVars

\* The steps that change what is inserted, linked, solid or pending.
LEMMA PendingSteps ==
  ASSUME [Next]_vars
  PROVE  \/ UNCHANGED pendingVars
         \/ \E p \in Processors : \/ \E m \in Messages : Receive(p, m)
                                  \/ Link(p) \/ SendPropagate(p) \/ TakeRequest(p)
                                  \/ SendPayload(p)
         \/ \E x \in Messages : Propagate(x) \/ Skip(x) \/ MarkSolid(x)
         \/ PushChildren
  BY DEF Next, Processor, Requester, Propagator, Announcer, MilestonePayload, Solidifier,
         RequestParent, ProcessRequest, RetryRequest, ProcessMilestoneRequest,
         RetryMilestoneRequest, ReadLatestIndex, Announce, IgnoreMilestone, FlagMilestone,
         StoreMilestone, SolidifierEvent, Solidify, HeavySolidification, NoTarget,
         vars, pendingVars, tangleVars, processorVars, propVars

\* The steps that change the indexes or the confirmed milestones.
LEMMA ConfirmSteps ==
  ASSUME [Next]_vars
  PROVE  \/ UNCHANGED <<confirmVars, lmi>>
         \/ UNCHANGED confirmVars /\ StoreMilestone
         \/ SolidifierEvent
         \/ \E m \in Milestones : Solidify(m) \/ HeavySolidification(m)
         \/ NoTarget
  BY DEF Next, Processor, Requester, Propagator, Announcer, MilestonePayload, Solidifier,
         Receive, Link, SendPropagate, TakeRequest, RequestParent, SendPayload,
         ProcessRequest, RetryRequest, ProcessMilestoneRequest, RetryMilestoneRequest,
         Propagate, Skip, MarkSolid, PushChildren, ReadLatestIndex, Announce,
         IgnoreMilestone, FlagMilestone, StoreMilestone, vars, confirmVars, tangleVars, solidVars

-----------------------------------------------------------------------------
(***************************************************************************)
(* Solidity rests on solidity, and solid messages have xMRSI values: the   *)
(* milestones that do not inherit them were given their own.               *)
(***************************************************************************)
FlagInv == SolidClosed /\ SolidIsRooted /\ is_milestone \subseteq rooted

\* Every step keeps the flags consistent.
LEMMA FlagStep ==
  ASSUME TypeInv, FlagInv, [Next]_vars  PROVE FlagInv'
<1> USE DEF FlagInv, SolidClosed, SolidIsRooted, IsSolidMessage
<1>1. CASE UNCHANGED flagVars  BY <1>1 DEF flagVars
<1>2. ASSUME NEW x \in Messages, MarkSolid(x)  PROVE FlagInv'
  BY <1>2 DEF MarkSolid, Solidifiable, RootedByPropagation
<1>3. ASSUME NEW x \in Milestones, FlagMilestone(x)  PROVE FlagInv'
  BY <1>3 DEF FlagMilestone
<1> QED  BY <1>1, <1>2, <1>3, FlagSteps

\* A solid message has solid parents, and xMRSI values that its children can
\* inherit, in every interleaving of propagator and milestone payload worker.
THEOREM SolidMessages == Spec => []SolidityRests
<1>1. Init => FlagInv
  BY DEF Init, FlagInv, SolidClosed, SolidIsRooted
<1>2. TypeInv /\ FlagInv /\ [Next]_vars => FlagInv'
  BY FlagStep
<1>3. FlagInv => SolidityRests
  BY DEF FlagInv, SolidityRests
<1> QED  BY <1>1, <1>2, <1>3, TypeInit, TypeStep, PTL DEF Spec

-----------------------------------------------------------------------------
(***************************************************************************)
(* No message is left behind.  A message that its parents do not list yet  *)
(* is in the hands of a processor, which will send it to the propagator.   *)
(***************************************************************************)
LinkPending ==
  \A m \in inserted \ linked : \E p \in Processors : processing[p] = m /\ pc[p] = "link"
PendingInv == LinkPending /\ NoneLeftBehind

\* The steps of a processor keep what is pending.
LEMMA PendingProcessor ==
  ASSUME TypeInv, PendingInv, NEW p \in Processors,
         \/ \E m \in Messages : Receive(p, m)
         \/ Link(p) \/ SendPropagate(p) \/ TakeRequest(p) \/ SendPayload(p)
  PROVE  PendingInv'
<1> USE DEF PendingInv, LinkPending, NoneLeftBehind, Pending, Solidifiable, IsSolidMessage,
        TypeInv, TypeOK
<1>1. ASSUME NEW m \in Messages, Receive(p, m)  PROVE PendingInv'
  <2>1. ASSUME NEW q \in Processors, pc[q] # "idle"
        PROVE  pc'[q] = pc[q] /\ processing'[q] = processing[q]
    BY <1>1, <2>1 DEF Receive
  <2>2. pc'[p] = "link" /\ processing'[p] = m
    BY <1>1 DEF Receive
  <2>3. /\ inserted' = inserted \cup {m} /\ linked' = linked /\ solid' = solid
        /\ UNCHANGED propVars /\ m \notin inserted
    BY <1>1 DEF Receive
  <2>4. LinkPending'
    <3> SUFFICES ASSUME NEW x \in inserted' \ linked'
                 PROVE  \E q \in Processors : processing'[q] = x /\ pc'[q] = "link"
      OBVIOUS
    <3>1. CASE x = m  BY <2>2, <3>1
    <3>2. CASE x # m
      <4>1. PICK q \in Processors : processing[q] = x /\ pc[q] = "link"
        BY <2>3, <3>2
      <4>2. pc[q] # "idle"  BY <4>1
      <4> QED  BY <2>1, <4>1, <4>2
    <3> QED  BY <3>1, <3>2
  <2>5. ASSUME NEW x \in inserted, Pending(x)  PROVE Pending(x)'
    BY <2>1, <2>3, <2>5 DEF propVars
  <2>6. Pending(m)'
    BY <2>2
  <2>7. ASSUME NEW x \in inserted, Solidifiable(x)'  PROVE Solidifiable(x)
    BY <2>3, <2>7
  <2> HIDE DEF Pending, Solidifiable
  <2> QED  BY <2>3, <2>4, <2>5, <2>6, <2>7
<1>2. CASE Link(p)
  <2>1. LinkPending'
    BY <1>2 DEF Link
  <2>2. ASSUME NEW m \in inserted, Pending(m)  PROVE Pending(m)'
    BY <1>2, <2>2 DEF Link, propVars
  <2>3. inserted' = inserted /\ solid' = solid
    BY <1>2 DEF Link
  <2> QED  BY <2>1, <2>2, <2>3
<1>3. CASE SendPropagate(p)
  BY <1>3 DEF SendPropagate, tangleVars
<1>4. CASE TakeRequest(p)
  BY <1>4 DEF TakeRequest, tangleVars, propVars
<1>5. CASE SendPayload(p)
  BY <1>5 DEF SendPayload, tangleVars, propVars
<1> QED  BY <1>1, <1>2, <1>3, <1>4, <1>5

\* The steps of the propagator keep what is pending.
LEMMA PendingPropagator ==
  ASSUME TypeInv, PendingInv,
         PushChildren \/ \E x \in Messages : Propagate(x) \/ Skip(x) \/ MarkSolid(x)
  PROVE  PendingInv'
<1> USE DEF PendingInv, LinkPending, NoneLeftBehind, Pending, Solidifiable, IsSolidMessage,
        TypeInv, TypeOK, processorVars
<1>1. ASSUME NEW x \in Messages, Propagate(x)  PROVE PendingInv'
  <2>1. LinkPending'
    BY <1>1 DEF Propagate, tangleVars
  <2>2. ASSUME NEW m \in inserted, Pending(m)  PROVE Pending(m)'
    BY <1>1, <2>2 DEF Propagate
  <2>3. inserted' = inserted /\ solid' = solid
    BY <1>1 DEF Propagate, tangleVars
  <2> QED  BY <2>1, <2>2, <2>3
<1>2. ASSUME NEW x \in Messages, Skip(x)  PROVE PendingInv'
  <2>1. LinkPending'
    BY <1>2 DEF Skip, tangleVars
  <2>2. ASSUME NEW m \in inserted, Pending(m), m # x  PROVE Pending(m)'
    BY <1>2, <2>2 DEF Skip
  <2>3. inserted' = inserted /\ solid' = solid /\ ~Solidifiable(x)
    BY <1>2 DEF Skip, tangleVars
  <2>4. ASSUME NEW m \in inserted, Solidifiable(m)'  PROVE Solidifiable(m)
    BY <2>3, <2>4
  <2> HIDE DEF Pending, Solidifiable
  <2> QED  BY <2>1, <2>2, <2>3, <2>4
<1>3. ASSUME NEW x \in Messages, MarkSolid(x)  PROVE PendingInv'
  <2>1. LinkPending'
    BY <1>3 DEF MarkSolid
  <2>2. ASSUME NEW m \in inserted, m # x, Pending(m)  PROVE Pending(m)'
    BY <1>3, <2>2 DEF MarkSolid
  <2>3. ASSUME NEW m \in inserted, x \in Parents[m]  PROVE Pending(m)'
    BY <1>3, <2>3 DEF MarkSolid
  <2>4. inserted' = inserted /\ solid' = solid \cup {x}
    BY <1>3 DEF MarkSolid
  <2>5. ASSUME NEW m \in inserted, Solidifiable(m)'  PROVE Pending(m)'
    <3>1. m # x /\ m \notin solid  BY <2>4, <2>5
    <3>2. CASE x \in Parents[m]  BY <2>3, <3>2
    <3>3. CASE x \notin Parents[m]
      <4>1. Solidifiable(m)  BY <2>4, <2>5, <3>1, <3>3
      <4>2. Pending(m)  BY <4>1
      <4> QED  BY <2>2, <3>1, <4>2
    <3> QED  BY <3>2, <3>3
  <2> QED  BY <2>1, <2>4, <2>5
<1>4. CASE PushChildren
  <2>1. LinkPending' /\ LinkPending
    BY <1>4 DEF PushChildren, tangleVars
  <2>2. ASSUME NEW m \in inserted, Pending(m)  PROVE Pending(m)'
    <3>1. CASE marked \in Parents[m] /\ m \in linked
      BY <1>4, <3>1 DEF PushChildren, ChildrenOf
    <3>2. CASE m \notin linked
      BY <1>4, <2>1, <3>2 DEF PushChildren
    <3>3. CASE marked \notin Parents[m]
      BY <1>4, <2>2, <3>3 DEF PushChildren
    <3> QED  BY <3>1, <3>2, <3>3
  <2>3. inserted' = inserted /\ solid' = solid
    BY <1>4 DEF PushChildren, tangleVars
  <2> QED  BY <2>1, <2>2, <2>3
<1> QED  BY <1>1, <1>2, <1>3, <1>4

\* A message whose parents are all solid is solid or about to be: neither the
\* insertion of a message in two steps nor the propagation in steps loses it.
THEOREM NoMessageLeftBehind == Spec => []NoneLeftBehind
<1>1. Init => PendingInv
  BY DEF Init, PendingInv, LinkPending, NoneLeftBehind
<1>2. TypeInv /\ PendingInv /\ [Next]_vars => PendingInv'
  <2>1. ASSUME PendingInv, UNCHANGED pendingVars  PROVE PendingInv'
    BY <2>1 DEF PendingInv, LinkPending, NoneLeftBehind, Pending, Solidifiable,
                IsSolidMessage, pendingVars
  <2> QED  BY <2>1, PendingSteps, PendingProcessor, PendingPropagator
<1>3. PendingInv => NoneLeftBehind
  BY DEF PendingInv
<1> QED  BY <1>1, <1>2, <1>3, TypeInit, TypeStep, PTL DEF Spec

-----------------------------------------------------------------------------
(***************************************************************************)
(* Confirmation.  The target of the solidifier is the milestone after the  *)
(* solid one, no target is beyond the latest milestone, and only solid     *)
(* milestones are sent to the consensus worker.                            *)
(***************************************************************************)
ConfirmedSolid == \A i \in DOMAIN confirm_queue : confirm_queue[i] \in solid
ConfirmInv ==
  /\ ConfirmContiguous
  /\ SolidNotAhead
  /\ target # Nothing => target = smi + 1
  /\ limit <= lmi
  /\ ConfirmedSolid

\* The initial state confirms nothing.
LEMMA ConfirmInit == Init => ConfirmInv
  BY DEF Init, ConfirmInv, ConfirmContiguous, SolidNotAhead, ConfirmedSolid

\* A solid message stays solid.
LEMMA SolidGrows ==
  ASSUME [Next]_vars  PROVE solid \subseteq solid'
  BY FlagSteps DEF flagVars, MarkSolid, FlagMilestone

\* The confirmation of a milestone keeps the order of milestones.
LEMMA ConfirmSolidify ==
  ASSUME TypeInv, ConfirmInv, [Next]_vars, NEW m \in Milestones, Solidify(m)
  PROVE  ConfirmInv'
<1> USE DEF TypeInv, TypeOK, ConfirmInv
<1>1. /\ target = smi + 1 /\ Index[m] = smi + 1 /\ smi' = smi + 1 /\ target' = target + 1
      /\ smi + 1 <= limit /\ limit' = limit /\ lmi' = lmi
  BY DEF Solidify
<1>2. confirm_queue' = Append(confirm_queue, m) /\ confirm_queue \in Seq(Milestones)
  BY DEF Solidify
<1>3. m \in solid
  BY DEF Solidify, ReadyToConfirm, IsSolidMessage
<1>4. /\ Len(confirm_queue') = Len(confirm_queue) + 1
      /\ DOMAIN confirm_queue' = DOMAIN confirm_queue \cup {Len(confirm_queue) + 1}
      /\ confirm_queue'[Len(confirm_queue) + 1] = m
      /\ \A i \in DOMAIN confirm_queue : confirm_queue'[i] = confirm_queue[i]
  BY <1>2
<1>5. ConfirmContiguous'
  <2>1. Len(confirm_queue) \in Nat /\ smi = StartIndex + Len(confirm_queue)
    BY <1>2 DEF ConfirmContiguous
  <2>2. smi' = StartIndex + Len(confirm_queue')
    BY <1>1, <1>4, <2>1
  <2>3. Index[m] = StartIndex + (Len(confirm_queue) + 1)
    BY <1>1, <2>1
  <2>4. \A i \in DOMAIN confirm_queue' : Index[confirm_queue'[i]] = StartIndex + i
    BY <1>4, <2>3 DEF ConfirmContiguous
  <2> QED  BY <2>2, <2>4 DEF ConfirmContiguous
<1>6. ConfirmedSolid'
  BY <1>3, <1>4, SolidGrows DEF ConfirmedSolid
<1> QED  BY <1>1, <1>5, <1>6 DEF SolidNotAhead

\* Every step keeps the order of the confirmed milestones.
LEMMA ConfirmStep ==
  ASSUME TypeInv, ConfirmInv, [Next]_vars  PROVE ConfirmInv'
<1> USE DEF TypeInv, TypeOK, ConfirmInv, ConfirmContiguous, SolidNotAhead, ConfirmedSolid
<1>1. CASE UNCHANGED <<confirmVars, lmi>>
  BY <1>1, SolidGrows DEF confirmVars
<1>2. CASE UNCHANGED confirmVars /\ StoreMilestone
  <2>1. lmi <= lmi' /\ solid' = solid
    BY <1>2 DEF StoreMilestone, LatestAfter
  <2>2. lmi' \in Nat
    BY <1>2 DEF StoreMilestone, LatestAfter
  <2> QED  BY <1>2, <2>1, <2>2 DEF confirmVars
<1>3. CASE SolidifierEvent
  BY <1>3 DEF SolidifierEvent, FirstTarget, tangleVars
<1>4. ASSUME NEW m \in Milestones, Solidify(m)  PROVE ConfirmInv'
  BY <1>4, ConfirmSolidify
<1>5. ASSUME NEW m \in Milestones, HeavySolidification(m)  PROVE ConfirmInv'
  BY <1>5 DEF HeavySolidification, tangleVars
<1>6. CASE NoTarget
  BY <1>6 DEF NoTarget, tangleVars
<1> QED  BY <1>1, <1>2, <1>3, <1>4, <1>5, <1>6, ConfirmSteps

\* The solid messages and the solid entry points are a cone of each solid
\* message, so they contain its past cone.
LEMMA SolidCone ==
  ASSUME TypeInv, SolidClosed, NEW m \in solid
  PROVE  Cone[m] \subseteq inserted \cup SolidEntryPoints
<1> USE DEF TypeInv, TypeOK
<1> DEFINE S == solid \cup SolidEntryPoints
<1>1. S \in SUBSET Nodes
  BY DEF Nodes
<1>2. ASSUME NEW x \in S \cap Messages  PROVE Parents[x] \subseteq S
  <2>1. x \in solid  OBVIOUS
  <2> QED  BY <2>1 DEF SolidClosed, IsSolidMessage
<1>3. IsCone(m, S)
  BY <1>2 DEF IsCone
<1>4. Cone[m] \subseteq S
  BY <1>1, <1>3 DEF Cone
<1> QED  BY <1>4

\* The milestones reach the consensus worker in the order of their indexes,
\* one by one from the snapshot on, each with all of its past cone in the
\* Tangle, and the solid milestone index stays behind the latest one.
THEOREM ConfirmationSafe == Spec => []ConfirmedInOrder
<1>1. TypeInv /\ FlagInv /\ [Next]_vars => FlagInv'
  BY FlagStep
<1>2. TypeInv /\ ConfirmInv /\ [Next]_vars => ConfirmInv'
  BY ConfirmStep
<1>3. Init => FlagInv
  BY DEF Init, FlagInv, SolidClosed, SolidIsRooted
<1>4. TypeInv /\ FlagInv /\ ConfirmInv => ConfirmedInOrder
  BY SolidCone DEF FlagInv, ConfirmInv, ConfirmedSolid, ConfirmedConeKnown, ConfirmedInOrder
<1> QED  BY <1>1, <1>2, <1>3, <1>4, ConfirmInit, TypeInit, TypeStep, PTL DEF Spec
=============================================================================
