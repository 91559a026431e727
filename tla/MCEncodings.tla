----------------------------- MODULE MCEncodings ----------------------------
(***************************************************************************)
(* Model checking of what goes over the wire and of ternary numbers: the   *)
(* packets of the protocol, the syntax of messages, buffers of trits and   *)
(* big integers.  They share no state: a behaviour is one of a single part.*)
(***************************************************************************)
EXTENDS Packets, MessageSyntax, TritBuf, BigInt, TLC

VARIABLE focus \* the part that runs

(* Packets of every type, one of an unknown type, an empty message.         *)
Sendable ==
    { [type |-> 4, solid |-> 9, pruned |-> 1, latest |-> 14, connected |-> 2, synced |-> 3],
      [type |-> 1, index |-> 0], [type |-> 1, index |-> 6],
      [type |-> 3, bytes |-> <<1, 0>>], [type |-> 2, bytes |-> <<3, 1, 2>>],
      [type |-> 0, bytes |-> <<1>>], [type |-> 2, bytes |-> <<>>] }
MCScripts == {<<>>} \cup (Sendable \X Sendable \X Sendable)
MCStoredMilestones == (6 :> <<1, 2, 3>>) @@ (9 :> <<3, 2>>)
MCStoredMessages == <<1, 0>> :> <<3, 3, 3, 3>>

(* Messages with each kind of payload and of essence.                       *)
OfParents(parents, payload) ==
    [network_id |-> 0, parents |-> parents, payload |-> payload, nonce |-> 0]
Indexation == [kind |-> 2, index |-> <<1>>, data |-> <<3, 0>>]
Transaction(inputs, outputs, payload, unlocks) ==
    [kind |-> 0, essence |-> [inputs |-> inputs, outputs |-> outputs, payload |-> payload],
     unlocks |-> unlocks]
Receipt(last, funds) ==
    [kind |-> 3, migrated_at |-> 1, last |-> last, funds |-> funds,
     transaction |-> [kind |-> 4, input |-> <<1, 2>>, output |-> <<2, 0>>]]
MilestoneOf(i, keys, receipt) ==
    [kind |-> 1, index |-> i, merkle_proof |-> 0, parents |-> <<1>>, next_pow_score |-> 0,
     next_pow_score_milestone_index |-> 0, public_keys |-> keys, receipt |-> receipt,
     signatures |-> keys]

MCBuilds ==
    { OfParents(<<1, 2>>, <<>>),
      OfParents(<<1>>, <<Indexation>>),
      OfParents(<<1>>, <<Transaction(<<<<0, 1, 0>>, <<0, 1, 1>>, <<0, 2, 0>>>>,
                                     <<<<0, 0, 1, 1>>, <<1, 0, 1, 2>>>>, <<>>,
                                     <<<<0, 0, 1>>, <<1, 0>>, <<1, 0>>>>)>>),
      OfParents(<<1>>, <<Transaction(<<<<0, 1, 0>>>>, <<<<0, 0, 1, 3>>>>, <<Indexation>>, <<<<0, 0, 1>>>>)>>),
      OfParents(<<1>>, <<MilestoneOf(1, <<1, 2>>, <<>>)>>),
      OfParents(<<1>>, <<MilestoneOf(3, <<1, 2>>, <<Receipt(TRUE, <<<<1, 0, 1, 2>>, <<2, 0, 1, 2>>>>)>>)>>) }

(* Keys that begin, end and return, in no order.                            *)
MCKeyRanges ==
    << [public_key |-> 3, start |-> 2, end |-> 3], [public_key |-> 1, start |-> 0, end |-> 0],
       [public_key |-> 2, start |-> 1, end |-> 2], [public_key |-> 2, start |-> 3, end |-> 3] >>

(* The parts that do not run start in one state.                            *)
Init ==
    /\ focus \in {"packets", "syntax", "trits", "numbers"}
    /\ IF focus = "packets" THEN TRUE ELSE script = <<>>
    /\ IF focus = "syntax" THEN TRUE ELSE built = OfParents(<<1, 2>>, <<>>)
    /\ IF focus = "trits" THEN TRUE ELSE encoding = 1 /\ bytes = <<>>
    /\ IF focus = "numbers" THEN TRUE ELSE parsed = [i \in 1 .. TRITS |-> 2]
    /\ PacketsInit /\ SyntaxInit /\ BufInit /\ BigInit

Next ==
    \/ focus = "packets" /\ PacketsNext /\ UNCHANGED << focus, syntaxVars, bufVars, bigVars >>
    \/ focus = "syntax" /\ SyntaxNext /\ UNCHANGED << focus, packetVars, bufVars, bigVars >>
    \/ focus = "trits" /\ BufNext /\ UNCHANGED << focus, packetVars, syntaxVars, bigVars >>
    \/ focus = "numbers" /\ BigNext /\ UNCHANGED << focus, packetVars, syntaxVars, bufVars >>

Spec == Init /\ [][Next]_<< focus, packetVars, syntaxVars, bufVars, bigVars >>
=============================================================================
