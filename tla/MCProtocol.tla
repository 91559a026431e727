----------------------------- MODULE MCProtocol -----------------------------
(***************************************************************************)
(* Model checking of three tasks of a running node that share nothing the  *)
(* models know of: messages on their way into the Tangle, the indexes and  *)
(* tips of messages that are solid, and the pruning of old ones.  A        *)
(* behaviour is one of a single part.                                      *)
(***************************************************************************)
EXTENDS MessageIntake, TipSelection, Pruning, TLC

VARIABLE focus \* the part that runs

(* A message that is in order, one with a low score, one of another network *)
MCKind == [good |-> "good", weak |-> "low_score", foreign |-> "foreign"]

(* Two branches above the entry point s; the first milestone is on one of   *)
(* them, the second above both, and a message above the second.  The        *)
(* snapshot is recent enough for the future walk to take place at once.     *)
MCApproves == [a |-> <<"s">>, b |-> <<"a">>, m1 |-> <<"a">>, c |-> <<"m2">>, m2 |-> <<"a", "b">>]
MCMilestoneIndexOf == [m1 |-> 3, m2 |-> 4]

(* The last message merges two branches, or attaches to a message that is   *)
(* pruned while its edges are written.                                      *)
MCDags ==
    LET trunk == [a |-> {Genesis}, b |-> {Genesis, "a"}, c |-> {"a"}]
    IN  { trunk @@ [d |-> {"b", "c"}], trunk @@ [d |-> {"a"}] }

Init ==
    /\ focus \in {"intake", "tips", "pruning"}
    /\ IntakeInit /\ TipInit /\ PruningInit
    /\ focus # "pruning" => parents = CHOOSE dag \in Dags : TRUE

Next ==
    \/ focus = "intake" /\ IntakeNext /\ UNCHANGED << focus, tipVars, pruningVars >>
    \/ focus = "tips" /\ TipNext /\ UNCHANGED << focus, intakeVars, pruningVars >>
    \/ focus = "pruning" /\ PruningNext /\ UNCHANGED << focus, intakeVars, tipVars >>

Spec == Init /\ [][Next]_<< focus, intakeVars, tipVars, pruningVars >>
=============================================================================
