------------------------ MODULE AutopeeringRequests ------------------------
(***************************************************************************)
(* The request manager of autopeering and the tasks that wait for answers. *)
(* A request to a peer is open under its kind; a new one of the same kind  *)
(* replaces it.  The hash of a request is a hash of its content, of which  *)
(* the timestamp in seconds tells two requests to one peer apart.          *)
(*                                                                         *)
(* A task spawned by a timer sends its request with the sending half of a  *)
(* oneshot channel.  If that half is dropped the task sees the channel     *)
(* closed; if the time runs out the task drops the receiving half ("late") *)
(* before it removes the request.                                          *)
(***************************************************************************)
EXTENDS Integers

CONSTANTS
    Peers,              \* the other peers of the network
    Tasks,              \* bound: the tasks that run at the same time
    NoTask,             \* a request that nobody waits for
    REQUEST_EXPIRATION,
    MaxTime             \* bound of the clock, in seconds

ASSUME AutopeeringRequestsAssumption ==
    /\ NoTask \notin Tasks
    /\ REQUEST_EXPIRATION \in Nat \ {0}
    /\ MaxTime \in Nat

TaskStates == {"spawned", "waiting", "answered", "closed", "late", "failed"}
Idle == [kind |-> "none", peer |-> NoTask, state |-> "idle"]
Spawned(kind, peer) == [kind |-> kind, peer |-> peer, state |-> "spawned"]

Only(open, keys) == [k \in DOMAIN open \cap keys |-> open[k]]

With(f, k, v) == [x \in DOMAIN f \cup {k} |-> IF x = k THEN v ELSE f[x]]

(* Tasks whose sending half is dropped with the requests under some keys. *)
Dropped(tasks, open, keys) ==
    [t \in Tasks |->
        IF /\ tasks[t].state = "waiting"
           /\ \E k \in DOMAIN open \cap keys : open[k].tx = t
        THEN [tasks[t] EXCEPT !.state = "closed"] ELSE tasks[t]]

(* create_verification_request, create_discovery_request,                  *)
(* create_peering_request                                                  *)
Created(open, kind, peer, hash, now, tx) ==
    With(open, << peer, kind >>, [hash |-> hash, issue_time |-> now, tx |-> tx])

(* remove_request *)
Removed(open, kind, peer) == Only(open, DOMAIN open \ {<< peer, kind >>})

is_expired(past, now) == past <= now /\ now - past >= REQUEST_EXPIRATION

(* The keys that remove_expired_requests removes. *)
Expired(open, now) == {k \in DOMAIN open : is_expired(open[k].issue_time, now)}

Unexpired(open, now) == Only(open, DOMAIN open \ Expired(open, now))
=============================================================================
