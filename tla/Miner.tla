------------------------------- MODULE Miner -------------------------------
(***************************************************************************)
(* The proof of work (bee-pow): the threads of the Miner search their      *)
(* parts of the nonces in batches until one of them finds a nonce or the   *)
(* caller cancels, all through one flag, which the next call resets; the   *)
(* receiver of the message computes its score again.                       *)
(*                                                                         *)
(* The hash is a constant: the number of trailing zeros of each nonce.     *)
(* Scores are whole numbers, so the rounding of the logarithms of          *)
(* floating-point numbers is left out, and so is the width of the power of *)
(* three in a score (u128, exceeded by 81 zeros).                          *)
(***************************************************************************)
EXTENDS Integers, FiniteSets, FiniteSetsExt, SequencesExt

CONSTANTS
    num_workers,     \* the threads of a call
    U64,             \* the number of nonces
    BATCH_SIZE,      \* nonces hashed at once
    HASH_LENGTH,     \* the trits of a hash
    Zeros,           \* Zeros[n]: the trailing zeros of the hash with nonce n
    Calls,           \* the calls one after the other: [len, target_score]
    MaxCancels       \* bound on cancellations by the caller

(* Without a thread the division of the nonces among them would panic.      *)
ASSUME MinerAssumption ==
    /\ num_workers \in Nat \ {0} /\ U64 \in Nat \ {0} /\ BATCH_SIZE \in Nat \ {0}
    /\ HASH_LENGTH \in Nat
    /\ DOMAIN Zeros = 0 .. U64 - 1 /\ \A n \in DOMAIN Zeros : Zeros[n] \in 0 .. HASH_LENGTH
    /\ Calls \in Seq([len : Nat, target_score : Nat])
    /\ MaxCancels \in Nat

VARIABLES
    cancel,      \* MinerCancel
    call,        \* the number of calls made
    at,          \* what each thread does
    nonce,       \* the first nonce of its batch
    found,       \* its result, or -1
    joined,      \* threads joined in this call
    answer,      \* what nonce() has returned: NoAnswer before
    triggered,   \* whether the caller cancelled during this call
    cancels      \* cancellations by the caller

minerVars == <<cancel, call, at, nonce, found, joined, answer, triggered, cancels>>

Threads == 0 .. num_workers - 1
NoAnswer == -1
Invalid == -2

(* 3u128.pow                                                                *)
PowerOfThree[n \in Nat] == IF n = 0 THEN 1 ELSE 3 * PowerOfThree[n - 1]

(* The least number of zeros with which 3^zeros reaches the length times    *)
(* the score: the logarithm to the base 3, rounded up.                      *)
target_zeros(c) ==
    Min({z \in 0 .. HASH_LENGTH + 1 : z = HASH_LENGTH + 1 \/ PowerOfThree[z] >= c.len * c.target_score})

(* pow_score_for_hash reaches the score.                                    *)
ScoreReached(c, n) == PowerOfThree[Zeros[n]] >= c.len * c.target_score

(* Miner::nonce: the flag is reset and the threads are started, unless no   *)
(* hash has that many zeros.  The bug: the flag is not reset.               *)
ResetNot == cancel
Reset == FALSE
CallNonce ==
    /\ call < Len(Calls) /\ \A t \in Threads : at[t] = "idle"
    /\ call' = call + 1
    /\ cancel' = Reset
    /\ triggered' = FALSE
    /\ joined' = 0
    /\ found' = [t \in Threads |-> -1]
    /\ IF target_zeros(Calls[call + 1]) > HASH_LENGTH
       THEN answer' = Invalid /\ UNCHANGED <<at, nonce>>
       ELSE /\ answer' = NoAnswer
            /\ at' = [t \in Threads |-> "check"]
            /\ nonce' = [t \in Threads |-> t * ((U64 - 1) \div num_workers)]
    /\ UNCHANGED cancels

(* Miner::worker: the flag is read before each batch,                       *)
CheckCancel(t) ==
    /\ at[t] = "check"
    /\ at' = [at EXCEPT ![t] = IF cancel THEN "done" ELSE "hash"]
    /\ UNCHANGED <<cancel, call, nonce, found, joined, answer, triggered, cancels>>

(* and the batch is searched for its first nonce with enough zeros.         *)
(* The bug: the flag is not read again.                                     *)
AfterBatchUnchecked == "hash"
AfterBatch == "check"
Winners(t) == {i \in 0 .. BATCH_SIZE - 1 : Zeros[(nonce[t] + i) % U64] >= target_zeros(Calls[call])}
HashBatch(t) ==
    /\ at[t] = "hash"
    /\ IF Winners(t) # {}
       THEN /\ cancel' = TRUE
            /\ found' = [found EXCEPT ![t] = (nonce[t] + Min(Winners(t))) % U64]
            /\ at' = [at EXCEPT ![t] = "done"]
            /\ UNCHANGED nonce
       ELSE /\ nonce' = [nonce EXCEPT ![t] = (@ + BATCH_SIZE) % U64]
            /\ at' = [at EXCEPT ![t] = AfterBatch]
            /\ UNCHANGED <<cancel, found>>
    /\ UNCHANGED <<call, joined, answer, triggered, cancels>>

(* The threads are joined in order; the last nonce found is the answer, 0   *)
(* if there is none.                                                        *)
Join ==
    /\ joined < num_workers /\ at[joined] = "done"
    /\ at' = [at EXCEPT ![joined] = "idle"]
    /\ joined' = joined + 1
    /\ answer' = IF joined' < num_workers THEN answer
                 ELSE LET results == {t \in Threads : found[t] # -1}
                      IN IF results = {} THEN 0 ELSE found[Max(results)]
    /\ UNCHANGED <<cancel, call, nonce, found, triggered, cancels>>

(* MinerCancel::trigger by the caller.                                      *)
Trigger ==
    /\ cancels < MaxCancels
    /\ cancels' = cancels + 1
    /\ cancel' = TRUE
    /\ triggered' = TRUE
    /\ UNCHANGED <<call, at, nonce, found, joined, answer>>

MinerInit ==
    /\ cancel = FALSE /\ call = 0
    /\ at = [t \in Threads |-> "idle"]
    /\ nonce = [t \in Threads |-> 0]
    /\ found = [t \in Threads |-> -1]
    /\ joined = num_workers
    /\ answer = NoAnswer
    /\ triggered = FALSE /\ cancels = 0

ThreadStep(t) == CheckCancel(t) \/ HashBatch(t)

MinerNext == CallNonce \/ Join \/ Trigger \/ \E t \in Threads : ThreadStep(t)

MinerSpec == MinerInit /\ [][MinerNext]_minerVars

(* A nonce that is returned gives the message its score, unless the caller  *)
(* cancelled this call: an earlier call, and threads that find a nonce at   *)
(* the same time, never spoil it (Miner::nonce, pow_score_for_hash).        *)
NonceScores ==
    answer >= 0 /\ ~triggered => ScoreReached(Calls[call], answer)

(* A call ends once a nonce is found or the caller cancels it, even if no   *)
(* other thread ever finds one, since every thread reads the flag again     *)
(* (Miner::worker).                                                         *)
CancelledCallReturns == cancel /\ answer = NoAnswer /\ call > 0 ~> answer # NoAnswer
=============================================================================
