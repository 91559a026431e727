----------------------------- MODULE MCWhiteFlag ----------------------------
(***************************************************************************)
(* Instances of WhiteFlag for TLC: three messages a, b and c above a solid *)
(* entry point, and two milestones m1 and m2.                              *)
(***************************************************************************)
EXTENDS WhiteFlag, TLC

CONSTANTS a, b, c, sep, m1, m2, A, B

MCIndex == m1 :> 1 @@ m2 :> 2

Graph(pa, pb, pc, pm1, pm2) ==
  a :> pa @@ b :> pb @@ c :> pc @@ m1 :> pm1 @@ m2 :> pm2 @@ sep :> <<>>

\* In "related" a parent of m1 is in the past cone of its other parent; in
\* the other graphs the parents of a milestone do not approve each other.
Graphs ==
  [fork    |-> Graph(<<sep>>, <<sep>>, <<a, b>>, <<c>>, <<c, m1>>),
   late    |-> Graph(<<sep>>, <<sep>>, <<b, a>>, <<a, b>>, <<m1, c>>),
   chain   |-> Graph(<<sep>>, <<a>>, <<b>>, <<b>>, <<c, m1>>),
   shared  |-> Graph(<<sep>>, <<a>>, <<a>>, <<b, c>>, <<m1>>),
   related |-> Graph(<<sep>>, <<a>>, <<sep, a>>, <<b, a>>, <<c>>)]

MCParents == [d \in Dags |-> Graphs[d]]

Out(address, amount, allowance) ==
  [address |-> address, amount |-> amount, allowance |-> allowance]

MCOutput ==
  [g1 |-> Out(A, 4, FALSE), g2 |-> Out(A, 2, TRUE),
   x1 |-> Out(A, 1, FALSE), x2 |-> Out(B, 3, FALSE),
   y1 |-> Out(B, 4, FALSE), z1 |-> Out(B, 1, FALSE), w1 |-> Out(B, 2, FALSE),
   v1 |-> Out(A, 3, FALSE), u1 |-> Out(A, 1, FALSE),
   n1 |-> Out(B, 1, FALSE), n2 |-> Out(A, 2, FALSE), o1 |-> Out(A, 3, FALSE),
   f1 |-> Out(B, 2, FALSE), f2 |-> Out(A, 2, FALSE)]

\* split makes dust, whole spends the same output, dust sends dust to an
\* address that does not allow it, revoke consumes a dust allowance, forged
\* has no valid signature, burn does not balance, echo sends dust back to the
\* address whose output it consumes, and move spends an output of split.
Consumes ==
  [split |-> <<"g1">>, whole |-> <<"g1">>, dust |-> <<"x1">>, revoke |-> <<"g2">>,
   forged |-> <<"x2">>, burn |-> <<"g2">>, echo |-> <<"x2">>,
   move |-> <<"x2">>]

MCInputs == [t \in Transactions |-> Consumes[t]]
MCUnlocked == [t \in Transactions |-> IF t = "forged" THEN {} ELSE {1}]

Produces ==
  [split |-> {"x1", "x2"}, whole |-> {"y1"}, dust |-> {"z1"}, revoke |-> {"w1"},
   forged |-> {"v1"}, burn |-> {"u1"}, echo |-> {"n1", "n2"},
   move |-> {"o1"}]

MCCreates == [t \in Transactions |-> Produces[t]]

MCReceipts ==
  {[funds |-> {"f1"}, input |-> "genesis", output |-> 2, migrated_at |-> 2, last |-> TRUE],
   [funds |-> {"f2"}, input |-> m1, output |-> 0, migrated_at |-> 1, last |-> FALSE],
   [funds |-> {"f2"}, input |-> m1, output |-> 0, migrated_at |-> 3, last |-> FALSE],
   [funds |-> {"f1"}, input |-> "genesis", output |-> 4, migrated_at |-> 1, last |-> FALSE]}

MCGenesis == {"g1", "g2"}
MCGenesisTreasury == [amount |-> 4, milestone |-> "genesis"]

-----------------------------------------------------------------------------
(***************************************************************************)
(* The order of the White Flag method, defined by recursion: the ordered   *)
(* past cone of a message is that of its parents, one after the other,     *)
(* each message once, and then the message itself.                         *)
(***************************************************************************)
RECURSIVE Walk(_, _)
Walk(todo, done) ==
  IF todo = <<>> THEN done
  ELSE LET m == Head(todo)
           after == IF m \notin Open \/ m \in Elements(done) THEN done
                    ELSE Append(Walk(ParentsOf(m), done), m)
       IN  Walk(Tail(todo), after)

\* No parent of the milestone is in the past cone of another one.
Unrelated(m) ==
  \A p, q \in OpenParents(m) : p # q => p \notin PastCone(q)

\* The iterative traversal with its explicit stack yields the order of the
\* recursive definition (of TIP-0002), each message once, for a milestone with
\* unrelated parents.
OrderIsReference ==
  phase = "traverse" /\ message_ids = <<>> /\ Unrelated(milestone) =>
    order = Walk(ParentsOf(milestone), <<>>)

(* A milestone applies what it refers to and no milestone before it does,   *)
(* parents first.  If no parent of the milestone is in the past cone of     *)
(* another one, the order is that of the recursive definition of White      *)
(* Flag, each message once (traverse_past_cone); otherwise such a parent    *)
(* may be applied a second time, which the order leaves out.                *)
AppliedInReferenceOrder ==
    /\ PastConeApplied
    /\ ParentsFirst
    /\ OrderIsReference
=============================================================================
