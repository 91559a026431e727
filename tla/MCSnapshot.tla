----------------------------- MODULE MCSnapshot -----------------------------
(***************************************************************************)
(* Instances of Snapshot for TLC: three milestones, of which the second    *)
(* migrates funds and the third spends an output that it creates.          *)
(***************************************************************************)
EXTENDS Snapshot

CONSTANTS A, B, s1, s2

Out(address, amount, allowance) ==
  [address |-> address, amount |-> amount, allowance |-> allowance]

MCOutput ==
  [g1 |-> Out(A, 4, FALSE), x1 |-> Out(B, 4, FALSE), z1 |-> Out(B, 4, FALSE), y1 |-> Out(A, 3, TRUE),
   y2 |-> Out(A, 1, FALSE), f1 |-> Out(B, 2, FALSE)]

MCGenesisTreasury == [amount |-> 4, milestone |-> 0]

Moves(created, consumed) == [created |-> created, consumed |-> consumed, migration |-> {}]

Migrates ==
  [created |-> {"f1"}, consumed |-> {},
   migration |-> {[receipt |-> 1, consumed |-> MCGenesisTreasury,
                   created |-> [amount |-> 2, milestone |-> 2]]}]

MCHistory == <<Moves({"x1"}, {"g1"}), Migrates, Moves({"z1", "y1", "y2"}, {"x1", "z1"})>>

MCEntryPoints == <<{s1}, {s1, s2}, {s2}>>

File(kind, ledger, sep, diffs, ok, trailing) ==
  [kind |-> kind, ledger_index |-> ledger, sep_index |-> sep, diffs |-> diffs,
   header_ok |-> ok, trailing |-> trailing]

\* A full snapshot holds the diffs backwards from its ledger index, a delta
\* snapshot forwards.
Full(ledger, sep) ==
  File("full", ledger, sep, [k \in 1 .. ledger - sep |-> ledger + 1 - k], TRUE, FALSE)
Delta(ledger, sep) ==
  File("delta", ledger, sep, [k \in 1 .. sep - ledger |-> ledger + k], TRUE, FALSE)

Pair(f, d) == [full |-> f, delta |-> d]

\* Files with every kind of defect that the import looks for.
Defective ==
  {Pair(File("full", 2, 1, <<>>, TRUE, FALSE), None),
   Pair(File("full", 2, 1, <<2>>, FALSE, FALSE), None),
   Pair(File("full", 1, 1, <<>>, TRUE, TRUE), None),
   Pair(Full(2, 1), File("delta", 1, 3, <<2>>, TRUE, FALSE)),
   Pair(Full(2, 1), File("delta", 1, 3, <<3, 2>>, TRUE, FALSE)),
   Pair(None, Delta(1, 2))}

\* Files of which the delta snapshot repeats a milestone, or leaves one out.
Unfitting == {Pair(Full(2, 2), Delta(1, 3)), Pair(Full(1, 1), Delta(2, 3))}

MCFiles ==
  {Pair(f, d) : f \in {Full(1, 1), Full(2, 1), Full(3, 1)},
                d \in {None, Delta(1, 2), Delta(1, 3)}}
    \cup {Pair(Full(3, 3), None), Pair(Full(3, 2), None), Pair(Full(3, 2), Delta(2, 3)),
          Pair(None, None)}
    \cup Unfitting \cup Defective

\* Three consistent sources, one without a delta snapshot, and one whose files
\* do not fit.
MCSources ==
  {Pair(Full(2, 1), Delta(1, 3)), Pair(Full(3, 2), Delta(2, 3)), Pair(Full(2, 2), None),
   Pair(Full(2, 2), Delta(1, 3))}
=============================================================================
