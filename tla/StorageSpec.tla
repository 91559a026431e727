----------------------------- MODULE StorageSpec ---------------------------
(***************************************************************************)
(* What the storage promises to its users, whatever the backend: a table   *)
(* is a map, an insertion, a deletion, a truncation and a batch are single *)
(* steps, the last operation of a batch on a key decides, and a storage    *)
(* that opens has exactly the rows it had when it was last closed, even if *)
(* the process crashed since (it may also refuse to open).                 *)
(***************************************************************************)
CONSTANTS Keys, StoredValues(_)

VARIABLES
    Tables,     \* the tables in use
    rows,       \* [Tables -> partial maps from keys to values]
    pending,    \* the batch: a partial map from <<table, key>> to a change
    open,       \* is the storage open?
    saved,      \* the rows when the storage was last closed
    persistent  \* does the backend keep its rows when it is closed?

vars == << Tables, rows, pending, open, saved, persistent >>

Gone == << "gone" >>
NoRows == [t \in Tables |-> << >>]

Set(f, x, y) == [z \in DOMAIN f \cup {x} |-> IF z = x THEN y ELSE f[z]]
Unset(f, x) == [z \in DOMAIN f \ {x} |-> f[z]]

Init ==
    /\ Tables \subseteq DOMAIN Keys
    /\ rows = NoRows
    /\ pending = << >>
    /\ open = FALSE
    /\ saved = NoRows
    /\ persistent \in BOOLEAN

(* The rows after an insertion, a deletion or a truncation. *)
Written(old) ==
    LET inserts == UNION {UNION {{[old EXCEPT ![t] = Set(@, k, v)] : v \in StoredValues(t)}
                                    : k \in Keys[t]} : t \in Tables}
        deletes == UNION {{[old EXCEPT ![t] = Unset(@, k)] : k \in Keys[t]} : t \in Tables}
    IN  inserts \cup deletes \cup {[old EXCEPT ![t] = << >>] : t \in Tables}

(* The batch after one more operation. *)
Collected(old) ==
    UNION {UNION {{Set(old, << t, k >>, v) : v \in StoredValues(t) \cup {Gone}}
                    : k \in Keys[t]} : t \in Tables}

(* The rows after the changes of a batch. *)
Applied(old, changes) ==
    [t \in Tables |->
        LET changed == {k \in Keys[t] : << t, k >> \in DOMAIN changes}
            gone == {k \in changed : changes[<< t, k >>] = Gone}
        IN  [k \in (DOMAIN old[t] \cup changed) \ gone |->
                IF k \in changed THEN changes[<< t, k >>] ELSE old[t][k]]]

Write ==
    /\ open
    /\ UNCHANGED << open, saved, persistent, Tables >>
    /\ rows' \in Written(rows)
    /\ UNCHANGED pending

BatchCollect ==
    /\ open
    /\ UNCHANGED << open, saved, persistent, Tables >>
    /\ pending' \in Collected(pending)
    /\ UNCHANGED rows

BatchCommit ==
    /\ open
    /\ UNCHANGED << open, saved, persistent, Tables >>
    /\ pending' = << >>
    /\ rows' = Applied(rows, pending)

Open ==
    /\ ~ open
    /\ open' = TRUE
    /\ rows' = saved
    /\ UNCHANGED << pending, saved, persistent, Tables >>

Close ==
    /\ open
    /\ open' = FALSE
    /\ saved' = IF persistent THEN rows ELSE NoRows
    /\ rows' = saved'
    /\ pending' = << >>
    /\ UNCHANGED << persistent, Tables >>

Crash ==
    /\ open
    /\ open' = FALSE
    /\ rows' = saved
    /\ pending' = << >>
    /\ UNCHANGED << saved, persistent, Tables >>

Next == Write \/ BatchCollect \/ BatchCommit \/ Open \/ Close \/ Crash

Spec == Init /\ [][Next]_vars
=============================================================================
