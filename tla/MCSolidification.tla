-------------------------- MODULE MCSolidification --------------------------
(***************************************************************************)
(* An instance of Solidification for TLC: a message above a solid entry    *)
(* point and two milestones, the second of which approves the first.       *)
(***************************************************************************)
EXTENDS Solidification, TLC

CONSTANTS a, m1, m2, sep, p1, p2

Graph == a :> {sep} @@ m1 :> {a} @@ m2 :> {m1}

\* The part of the graph that consists of Messages.
MCParents == [m \in Messages |-> Graph[m] \cap (Messages \cup {sep})]

\* If a is a milestone, it is that of the snapshot.
MCIndex == [m \in Milestones |-> CASE m = a -> 3 [] m = m1 -> 4 [] m = m2 -> 5]

\* The processors are interchangeable.
ProcessorSymmetry == Permutations({p1, p2})
=============================================================================
