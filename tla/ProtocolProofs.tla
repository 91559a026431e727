---------------------------- MODULE ProtocolProofs --------------------------
(***************************************************************************)
(* What the workers of the protocol promise, whatever the number of        *)
(* messages, peers and tasks: the way of a message into the Tangle         *)
(* (MessageIntake); and the indexes, the xMRSI values and the tip pool,    *)
(* whatever the messages and their parents: the propagator, the index      *)
(* updater, the worker of milestone payloads and the tip pool              *)
(* (TipSelection); and what pruning keeps, whatever the messages and       *)
(* wherever a crash comes (Pruning).                                       *)
(***************************************************************************)
EXTENDS MessageIntake, TipSelection, Pruning, FoldProofs

-----------------------------------------------------------------------------
(***************************************************************************)
(* Queues: sequences without duplicates.                                   *)
(***************************************************************************)
Distinct(s) == \A i, j \in DOMAIN s : s[i] = s[j] => i = j

\* A queue without elements.
LEMMA QueueEmpty == Range(<<>>) = {} /\ Distinct(<<>>)
BY DEF Range, Distinct

\* A sequence over a set is one over a larger set.
LEMMA QueueOf == ASSUME NEW X, NEW Y, X \subseteq Y, NEW s \in Seq(X)  PROVE s \in Seq(Y)
<1>1. Len(s) \in Nat /\ s \in [1 .. Len(s) -> X]  OBVIOUS
<1>2. s \in [1 .. Len(s) -> Y]  BY <1>1
<1> QED  BY <1>1, <1>2

\* A queue with one element more.
LEMMA QueueAppend ==
  ASSUME NEW X, NEW s \in Seq(X), NEW e \in X
  PROVE  /\ Append(s, e) \in Seq(X) /\ Range(Append(s, e)) = Range(s) \cup {e}
         /\ Len(Append(s, e)) = Len(s) + 1 /\ DOMAIN s = 1 .. Len(s)
         /\ DOMAIN Append(s, e) = DOMAIN s \cup {Len(s) + 1} /\ Len(s) + 1 \notin DOMAIN s
         /\ \A i \in DOMAIN s : Append(s, e)[i] = s[i]
         /\ Append(s, e)[Len(s) + 1] = e
         /\ Distinct(s) /\ e \notin Range(s) => Distinct(Append(s, e))
<1>1. /\ Append(s, e) \in Seq(X) /\ Len(Append(s, e)) = Len(s) + 1 /\ Len(s) \in Nat
      /\ DOMAIN s = 1 .. Len(s) /\ DOMAIN Append(s, e) = 1 .. Len(s) + 1
  OBVIOUS
<1>2. \A i \in 1 .. Len(s) : Append(s, e)[i] = s[i]  OBVIOUS
<1>3. Append(s, e)[Len(s) + 1] = e  OBVIOUS
<1>4. 1 .. Len(s) + 1 = (1 .. Len(s)) \cup {Len(s) + 1} /\ Len(s) + 1 \notin 1 .. Len(s)
  BY <1>1
<1>5. Range(Append(s, e)) = Range(s) \cup {e}
  BY <1>1, <1>2, <1>3, <1>4 DEF Range
<1>6. ASSUME Distinct(s), e \notin Range(s)  PROVE Distinct(Append(s, e))
  <2>1. \A i \in 1 .. Len(s) : s[i] # e  BY <1>1, <1>6 DEF Range
  <2> QED  BY <1>1, <1>2, <1>3, <1>4, <1>6, <2>1 DEF Distinct
<1> QED  BY <1>1, <1>2, <1>3, <1>4, <1>5, <1>6

\* A queue without its first element.
LEMMA QueueTail ==
  ASSUME NEW X, NEW s \in Seq(X), s # <<>>
  PROVE  /\ Head(s) \in X /\ Tail(s) \in Seq(X) /\ Len(Tail(s)) = Len(s) - 1 /\ Len(s) \in Nat \ {0}
         /\ Range(s) = {Head(s)} \cup Range(Tail(s))
         /\ Distinct(s) => Distinct(Tail(s)) /\ Head(s) \notin Range(Tail(s))
<1>1. Len(s) \in Nat \ {0} /\ DOMAIN s = 1 .. Len(s)  OBVIOUS
<1>2. Tail(s) \in Seq(X) /\ Len(Tail(s)) = Len(s) - 1 /\ Head(s) = s[1] /\ Head(s) \in X
  BY <1>1
<1>3. DOMAIN Tail(s) = 1 .. Len(s) - 1  BY <1>2
<1>4. \A i \in 1 .. Len(s) - 1 : Tail(s)[i] = s[i + 1]  BY <1>1
<1>5. \A i \in 1 .. Len(s) : i = 1 \/ (i - 1 \in 1 .. Len(s) - 1 /\ i - 1 + 1 = i)  BY <1>1
<1>6. \A i \in 1 .. Len(s) - 1 : i + 1 \in 1 .. Len(s) /\ i + 1 # 1  BY <1>1
<1>7. \A i \in 1 .. Len(s) : i # 1 => Tail(s)[i - 1] = s[i]  BY <1>1, <1>4, <1>5
<1>8. Range(s) \subseteq {Head(s)} \cup Range(Tail(s))
  <2> SUFFICES ASSUME NEW i \in 1 .. Len(s)  PROVE s[i] \in {Head(s)} \cup Range(Tail(s))
    BY <1>1 DEF Range
  <2>1. CASE i = 1  BY <2>1, <1>2
  <2>2. CASE i # 1
    <3>1. i - 1 \in DOMAIN Tail(s) /\ Tail(s)[i - 1] = s[i]  BY <2>2, <1>3, <1>5, <1>7
    <3> QED  BY <3>1 DEF Range
  <2> QED  BY <2>1, <2>2
<1>9. {Head(s)} \cup Range(Tail(s)) \subseteq Range(s)
  <2>1. Head(s) \in Range(s)  BY <1>1, <1>2 DEF Range
  <2>2. \A i \in 1 .. Len(s) - 1 : Tail(s)[i] \in Range(s)  BY <1>1, <1>4, <1>6 DEF Range
  <2> QED  BY <1>3, <2>1, <2>2 DEF Range
<1>10. ASSUME Distinct(s)  PROVE Distinct(Tail(s)) /\ Head(s) \notin Range(Tail(s))
  <2>1. ASSUME NEW i \in 1 .. Len(s) - 1, NEW j \in 1 .. Len(s) - 1, Tail(s)[i] = Tail(s)[j]
        PROVE  i = j
    <3>1. s[i + 1] = s[j + 1] /\ i + 1 \in DOMAIN s /\ j + 1 \in DOMAIN s
      BY <1>1, <1>4, <1>6, <2>1
    <3>2. i + 1 = j + 1  BY <1>10, <3>1 DEF Distinct
    <3> QED  BY <3>2
  <2>2. ASSUME NEW i \in 1 .. Len(s) - 1  PROVE Tail(s)[i] # Head(s)
    <3>1. s[i + 1] = Tail(s)[i] /\ i + 1 \in DOMAIN s /\ i + 1 # 1 /\ 1 \in DOMAIN s
      BY <1>1, <1>4, <1>6
    <3> QED  BY <1>2, <1>10, <3>1 DEF Distinct
  <2> QED  BY <1>3, <2>1, <2>2 DEF Distinct, Range
<1> QED  BY <1>1, <1>2, <1>8, <1>9, <1>10

\* Two queues in one.
LEMMA QueueConcat ==
  ASSUME NEW X, NEW s \in Seq(X), NEW t \in Seq(X)
  PROVE  /\ s \o t \in Seq(X) /\ Range(s \o t) = Range(s) \cup Range(t)
         /\ Distinct(s) /\ Distinct(t) /\ Range(s) \cap Range(t) = {} => Distinct(s \o t)
<1> DEFINE n == Len(s)
           k == Len(t)
           u == s \o t
<1>1. /\ n \in Nat /\ k \in Nat /\ DOMAIN s = 1 .. n /\ DOMAIN t = 1 .. k
      /\ u \in Seq(X) /\ DOMAIN u = 1 .. n + k
  OBVIOUS
<1>2. \A i \in 1 .. n + k : u[i] = IF i <= n THEN s[i] ELSE t[i - n]  OBVIOUS
<1> HIDE DEF n, k, u
<1>3. ASSUME NEW i \in 1 .. n + k
      PROVE  \/ i \in 1 .. n /\ u[i] = s[i]
             \/ i > n /\ i - n \in 1 .. k /\ u[i] = t[i - n]
  <2>1. CASE i <= n  BY <1>1, <1>2, <2>1
  <2>2. CASE ~(i <= n)
    <3>1. i > n /\ i - n \in 1 .. k  BY <1>1, <2>2
    <3> QED  BY <1>2, <2>2, <3>1
  <2> QED  BY <2>1, <2>2
<1>4. ASSUME NEW i \in 1 .. n  PROVE u[i] = s[i] /\ i \in 1 .. n + k
  <2>1. i \in 1 .. n + k /\ i <= n  BY <1>1
  <2> QED  BY <1>2, <2>1
<1>5. ASSUME NEW i \in 1 .. k  PROVE u[n + i] = t[i] /\ n + i \in 1 .. n + k
  <2> DEFINE j == n + i
  <2>1. j \in 1 .. n + k /\ ~(j <= n) /\ j - n = i  BY <1>1
  <2> HIDE DEF j
  <2>2. u[j] = t[j - n]  BY <1>2, <2>1
  <2> QED  BY <2>1, <2>2 DEF j
<1>6. Range(u) \subseteq Range(s) \cup Range(t)  BY <1>1, <1>3 DEF Range
<1>7. Range(s) \cup Range(t) \subseteq Range(u)
  <2>1. \A i \in 1 .. n : s[i] \in Range(u)  BY <1>1, <1>4 DEF Range
  <2>2. ASSUME NEW i \in 1 .. k  PROVE t[i] \in Range(u)  BY <1>1, <1>5 DEF Range
  <2> QED  BY <1>1, <2>1, <2>2 DEF Range
<1>8. ASSUME Distinct(s), Distinct(t), Range(s) \cap Range(t) = {},
             NEW i \in DOMAIN u, NEW j \in DOMAIN u, u[i] = u[j]
      PROVE  i = j
  <2>1. CASE i \in 1 .. n /\ u[i] = s[i] /\ j \in 1 .. n /\ u[j] = s[j]
    BY <1>1, <1>8, <2>1 DEF Distinct
  <2>2. CASE i \in 1 .. n /\ u[i] = s[i] /\ j - n \in 1 .. k /\ u[j] = t[j - n]
    BY <1>1, <1>8, <2>2 DEF Range
  <2>3. CASE j \in 1 .. n /\ u[j] = s[j] /\ i - n \in 1 .. k /\ u[i] = t[i - n]
    BY <1>1, <1>8, <2>3 DEF Range
  <2>4. CASE i - n \in 1 .. k /\ u[i] = t[i - n] /\ j - n \in 1 .. k /\ u[j] = t[j - n]
    <3>1. i - n = j - n  BY <1>1, <1>8, <2>4 DEF Distinct
    <3> QED  BY <1>1, <3>1
  <2> QED  BY <1>1, <1>3, <1>8, <2>1, <2>2, <2>3, <2>4
<1>9. Distinct(s) /\ Distinct(t) /\ Range(s) \cap Range(t) = {} => Distinct(u)
  BY <1>8 DEF Distinct
<1> QED  BY <1>1, <1>6, <1>7, <1>9 DEF u

\* The copies of a message, in some order.
LEMMA SetToSeqDistinct ==
  ASSUME NEW S, IsFiniteSet(S)
  PROVE  SetToSeq(S) \in Seq(S) /\ Distinct(SetToSeq(S))
<1>1. Cardinality(S) \in Nat /\ ExistsBijection(1 .. Cardinality(S), S)
  BY FS_CardinalityType
<1>2. PICK f \in [1 .. Cardinality(S) -> S] : \A a, b \in 1 .. Cardinality(S) : f[a] = f[b] => a = b
  BY <1>1 DEF ExistsBijection, Bijection, Injection, Surjection, IsInjective
<1>3. IsInjective(f)  BY <1>2 DEF IsInjective
<1>4. /\ SetToSeq(S) \in [1 .. Cardinality(S) -> S] /\ IsInjective(SetToSeq(S))
  BY <1>2, <1>3 DEF SetToSeq
<1>5. SetToSeq(S) \in Seq(S)  BY <1>1, <1>4
<1> QED  BY <1>4, <1>5 DEF IsInjective, Distinct

\* The copies in a queue, but for those of some messages, are distinct.
DistinctBut(s, X) == \A i, j \in DOMAIN s : s[i] = s[j] /\ s[i].message \notin X => i = j

\* So are those of two queues that share copies of these messages only.
LEMMA ConcatDistinctBut ==
  ASSUME NEW E, NEW X, NEW s \in Seq(E), NEW t \in Seq(E), DistinctBut(s, X), Distinct(t),
         \A c \in Range(s) \cap Range(t) : c.message \in X
  PROVE  DistinctBut(s \o t, X)
<1> DEFINE u == s \o t
           n == Len(s)
           k == Len(t)
<1>1. /\ n \in Nat /\ k \in Nat /\ DOMAIN s = 1 .. n /\ DOMAIN t = 1 .. k /\ DOMAIN u = 1 .. n + k
  OBVIOUS
<1>2. \A i \in 1 .. n + k : u[i] = IF i <= n THEN s[i] ELSE t[i - n]  OBVIOUS
<1> HIDE DEF u, n, k
<1>3. \A i \in DOMAIN u : \/ i \in 1 .. n /\ u[i] = s[i] /\ s[i] \in Range(s)
                          \/ i - n \in 1 .. k /\ u[i] = t[i - n] /\ t[i - n] \in Range(t)
  <2> SUFFICES ASSUME NEW i \in DOMAIN u
               PROVE  \/ i \in 1 .. n /\ u[i] = s[i] /\ s[i] \in Range(s)
                      \/ i - n \in 1 .. k /\ u[i] = t[i - n] /\ t[i - n] \in Range(t)
    OBVIOUS
  <2>1. i \in 1 .. n \/ (i - n \in 1 .. k /\ ~(i <= n))  BY <1>1
  <2>2. u[i] = IF i <= n THEN s[i] ELSE t[i - n]  BY <1>1, <1>2
  <2> QED  BY <1>1, <2>1, <2>2 DEF Range
<1>4. ASSUME NEW i \in DOMAIN u, NEW j \in DOMAIN u, u[i] = u[j], u[i].message \notin X
      PROVE  i = j
  <2>1. CASE i \in 1 .. n /\ u[i] = s[i] /\ j \in 1 .. n /\ u[j] = s[j]
    BY <1>1, <1>4, <2>1 DEF DistinctBut
  <2>2. CASE i - n \in 1 .. k /\ u[i] = t[i - n] /\ j - n \in 1 .. k /\ u[j] = t[j - n]
    <3>1. i - n = j - n  BY <1>1, <1>4, <2>2 DEF Distinct
    <3> QED  BY <1>1, <3>1
  <2> QED  BY <1>3, <1>4, <2>1, <2>2
<1> QED  BY <1>4 DEF DistinctBut, u

-----------------------------------------------------------------------------
(***************************************************************************)
(* The state of the intake.                                                *)
(***************************************************************************)
\* What the parts of the state are.
Events == [from : {Nobody} \cup Neighbours, message : Incoming, number : 1 .. MaxEvents]
Steps == {"pull", "fetch", "insert", "store", "requested", "notify"}
Tasks == [step : Steps, event : Events]
Answers == {"known", "invalid", "dropped", "ok"}

IntakeTypeOK ==
  /\ hasher_queue \in Seq(Events) /\ processor_queue \in Seq(Events)
  /\ broadcaster \in Seq(Events) /\ arrived \in Seq(Events) /\ Len(arrived) <= MaxEvents
  /\ working \in [Workers -> {Nobody} \cup Tasks]
  /\ sent \in Seq([message : Incoming, to : Neighbours])
  /\ notified \in [1 .. MaxEvents -> Seq(Answers)]
  /\ cache \subseteq Incoming /\ elem_order \in Seq(Incoming)

CacheInv ==
  /\ cache = Range(elem_order) /\ Distinct(elem_order)
  /\ IsFiniteSet(cache) /\ Cardinality(cache) = Len(elem_order)
  /\ Len(elem_order) <= message_worker_cache

\* The tasks that have an event, and the events that are on their way.
Busy == {w \in Workers : working[w] # Nobody}
InHand == {working[w].event : w \in Busy}
Pending == Range(hasher_queue) \cup Range(processor_queue) \cup InHand

\* An event is in one place only.
PlaceInv ==
  /\ \A n \in DOMAIN arrived : arrived[n].number = n
  /\ Pending \subseteq Range(arrived)
  /\ Distinct(hasher_queue) /\ Distinct(processor_queue)
  /\ \A w, v \in Busy : working[w].event = working[v].event => w = v
  /\ Range(hasher_queue) \cap Range(processor_queue) = {}
  /\ (Range(hasher_queue) \cup Range(processor_queue)) \cap InHand = {}

\* An event is answered when it is no longer on its way, if it came from the API.
AnswerInv ==
  /\ \A n \in 1 .. MaxEvents : n \notin DOMAIN arrived => notified[n] = <<>>
  /\ \A n \in DOMAIN arrived :
       IF arrived[n] \in Pending \/ arrived[n].from # Nobody THEN notified[n] = <<>>
       ELSE Len(notified[n]) = 1

\* The tasks that insert_inner gave their message, those that have not stored it yet, and
\* the messages that were given to a task.
Settling == {w \in Busy : working[w].step \in {"store", "requested", "notify"}}
Storing == {w \in Busy : working[w].step = "store"}
Won == stored \cup {working[w].event.message : w \in Storing}

\* If nothing was evicted on its way, one task has a message.
WinnerInv ==
  /\ \A w \in Settling : working[w].event.message \in Won
  /\ \A w, v \in Settling :
       working[w].event.message = working[v].event.message /\ working[w].event.message \notin displaced
         => w = v
  /\ \A n \in DOMAIN arrived : notified[n] = <<"ok">> =>
       /\ arrived[n].message \in Won
       /\ arrived[n].message \notin displaced =>
            \A w \in Settling : working[w].event.message # arrived[n].message
  /\ \A n, k \in DOMAIN arrived :
       /\ notified[n] = <<"ok">> /\ notified[k] = <<"ok">>
       /\ arrived[n].message = arrived[k].message /\ arrived[n].message \notin displaced
       => n = k

\* A vertex has a message that some task was given; while a task is about to insert the
\* message again, or to store it, the vertex is there.
VertexInv ==
  /\ cached \subseteq Won
  /\ \A w \in Busy :
       working[w].step \in {"insert", "store"} /\ working[w].event.message \in Won \ displaced
         => working[w].event.message \in cached

MessagesOf(s) == {x.message : x \in Range(s)}

\* A message is with one task, or waits for the broadcaster, or was sent.
SendInv ==
  /\ \A w \in Busy :
       working[w].step \in {"store", "requested"} /\ working[w].event.message \notin displaced =>
         working[w].event.message \notin MessagesOf(broadcaster) \cup MessagesOf(sent)
  /\ Range(broadcaster) \subseteq Range(arrived)
  /\ \A i, j \in DOMAIN broadcaster :
       broadcaster[i].message = broadcaster[j].message /\ broadcaster[i].message \notin displaced => i = j
  /\ MessagesOf(broadcaster) \cap MessagesOf(sent) \subseteq displaced
  /\ MessagesOf(broadcaster) \cup MessagesOf(sent) \subseteq Won
  /\ DistinctBut(sent, displaced)
  /\ \A c \in Range(sent) : \E e \in Range(arrived) : e.message = c.message /\ e.from # c.to

\* The messages that the processor has still to insert.
Seeking == {w \in Busy : working[w].step \in {"pull", "fetch", "insert"}}
Queued == MessagesOf(processor_queue) \cup {working[w].event.message : w \in Seeking}

IsGood(m) == Kind[m] = "good"

GoodInv ==
  /\ Won \subseteq {m \in MessagesOf(arrived) : IsGood(m)}
  /\ \A w \in Busy : working[w].step # "pull" => IsGood(working[w].event.message)
  /\ \A m \in MessagesOf(arrived) : IsGood(m) => m \in Won \cup MessagesOf(hasher_queue) \cup Queued
  /\ \A m \in cache : IsGood(m) => m \in Won \cup Queued

IntakeInv ==
  /\ IntakeTypeOK /\ CacheInv /\ PlaceInv /\ AnswerInv
  /\ WinnerInv /\ VertexInv /\ SendInv /\ GoodInv

\* A task is not the absence of one.
LEMMA TaskIsSomebody == Nobody \notin Tasks
BY IntakeAssumption DEF Tasks, Steps, Events

\* A busy worker has an event in hand.
LEMMA BusyType ==
  ASSUME IntakeTypeOK, NEW w \in Busy
  PROVE  /\ w \in Workers /\ working[w] \in Tasks /\ working[w].event \in Events
         /\ working[w].event \in InHand
BY DEF IntakeTypeOK, Busy, InHand, Tasks

\* A task takes an event, goes on to another step, or is done.
LEMMA TaskTakes ==
  ASSUME IntakeTypeOK, NEW w \in Workers, working[w] = Nobody, NEW e \in Events,
         working' = [working EXCEPT ![w] = [step |-> "pull", event |-> e]]
  PROVE  /\ working' \in [Workers -> {Nobody} \cup Tasks]
         /\ Busy' = Busy \cup {w} /\ w \notin Busy /\ InHand' = InHand \cup {e}
         /\ \A v \in Busy : working'[v] = working[v]
         /\ working'[w].step = "pull" /\ working'[w].event = e
<1> DEFINE t == [step |-> "pull", event |-> e]
<1>1. t \in Tasks /\ t # Nobody  BY TaskIsSomebody DEF Tasks, Steps
<1>2. t.step = "pull" /\ t.event = e  OBVIOUS
<1> HIDE DEF t
<1>3. working \in [Workers -> {Nobody} \cup Tasks]  BY DEF IntakeTypeOK
<1>4. working' = [working EXCEPT ![w] = t]  BY DEF t
<1>5. working' \in [Workers -> {Nobody} \cup Tasks] /\ working'[w] = t
      /\ \A v \in Workers : v # w => working'[v] = working[v]
  BY <1>1, <1>3, <1>4
<1>6. Busy' = Busy \cup {w} /\ w \notin Busy  BY <1>1, <1>5 DEF Busy
<1>7. InHand' = InHand \cup {e}  BY <1>2, <1>5, <1>6 DEF InHand, Busy
<1> QED  BY <1>2, <1>5, <1>6, <1>7 DEF Busy

\* A task goes to its next step with the same message.
LEMMA TaskAdvances ==
  ASSUME IntakeTypeOK, NEW w \in Busy, NEW step \in Steps,
         working' = [working EXCEPT ![w].step = step]
  PROVE  /\ working' \in [Workers -> {Nobody} \cup Tasks]
         /\ Busy' = Busy /\ InHand' = InHand
         /\ \A v \in Busy : v # w => working'[v] = working[v]
         /\ \A v \in Busy : working'[v].event = working[v].event
         /\ working'[w].step = step
<1> DEFINE t == [working[w] EXCEPT !.step = step]
<1>1. w \in Workers /\ working[w] \in Tasks  BY BusyType
<1>2. t \in Tasks /\ t.step = step /\ t.event = working[w].event  BY <1>1 DEF Tasks
<1>3. working \in [Workers -> {Nobody} \cup Tasks]  BY DEF IntakeTypeOK
<1>4. working' = [working EXCEPT ![w] = t]  BY <1>1, <1>3
<1> HIDE DEF t
<1>5. t # Nobody  BY <1>2, TaskIsSomebody
<1>6. working' \in [Workers -> {Nobody} \cup Tasks] /\ working'[w] = t
      /\ \A v \in Workers : v # w => working'[v] = working[v]
  BY <1>1, <1>2, <1>3, <1>4
<1>7. Busy' = Busy  BY <1>5, <1>6 DEF Busy
<1>8. \A v \in Busy : working'[v].event = working[v].event  BY <1>2, <1>6 DEF Busy
<1>9. InHand' = InHand  BY <1>7, <1>8 DEF InHand
<1> QED  BY <1>2, <1>6, <1>7, <1>8, <1>9 DEF Busy

\* A task is done with its message.
LEMMA TaskEnds ==
  ASSUME IntakeTypeOK, PlaceInv, NEW w \in Busy, working' = [working EXCEPT ![w] = Nobody]
  PROVE  /\ working' \in [Workers -> {Nobody} \cup Tasks]
         /\ Busy' = Busy \ {w} /\ InHand' = InHand \ {working[w].event}
         /\ \A v \in Busy' : working'[v] = working[v]
<1>1. w \in Workers  BY BusyType
<1>2. working' \in [Workers -> {Nobody} \cup Tasks] /\ working'[w] = Nobody
      /\ \A v \in Workers : v # w => working'[v] = working[v]
  BY <1>1 DEF IntakeTypeOK
<1>3. Busy' = Busy \ {w}  BY <1>2 DEF Busy
<1>4. \A v \in Busy' : working'[v] = working[v]  BY <1>2, <1>3 DEF Busy
<1>5. \A v \in Busy : v # w => working[v].event # working[w].event  BY DEF PlaceInv
<1>6. InHand' = InHand \ {working[w].event}  BY <1>3, <1>4, <1>5 DEF InHand
<1> QED  BY <1>2, <1>3, <1>4, <1>6

\* An event has the number of its arrival.
LEMMA EventAt ==
  ASSUME IntakeInv, NEW e \in Range(arrived)
  PROVE  /\ e \in Events /\ e.number \in DOMAIN arrived /\ arrived[e.number] = e
         /\ e.number \in 1 .. MaxEvents /\ DOMAIN arrived \subseteq 1 .. MaxEvents
         /\ \A n \in DOMAIN arrived : arrived[n] = e => n = e.number
<1>1. arrived \in Seq(Events) /\ Len(arrived) <= MaxEvents  BY DEF IntakeInv, IntakeTypeOK
<1>2. DOMAIN arrived = 1 .. Len(arrived) /\ Len(arrived) \in Nat  BY <1>1
<1>3. PICK n \in DOMAIN arrived : arrived[n] = e  BY DEF Range
<1>4. \A k \in DOMAIN arrived : arrived[k].number = k  BY DEF IntakeInv, PlaceInv
<1>5. DOMAIN arrived \subseteq 1 .. MaxEvents  BY <1>1, <1>2, IntakeAssumption
<1> QED  BY <1>1, <1>2, <1>3, <1>4, <1>5

\* The answer to an event that was on its way is its first.
LEMMA Notified ==
  ASSUME IntakeInv, NEW e \in Pending, NEW answer \in Answers, Notify(e, answer)
  PROVE  /\ notified' \in [1 .. MaxEvents -> Seq(Answers)]
         /\ \A n \in 1 .. MaxEvents : n # e.number => notified'[n] = notified[n]
         /\ notified[e.number] = <<>>
         /\ notified'[e.number] = IF e.from = Nobody THEN <<answer>> ELSE <<>>
<1>1. e \in Range(arrived)  BY DEF IntakeInv, PlaceInv
<1>2. e.number \in DOMAIN arrived /\ arrived[e.number] = e /\ e.number \in 1 .. MaxEvents
  BY <1>1, EventAt
<1>3. notified[e.number] = <<>>  BY <1>2 DEF IntakeInv, AnswerInv
<1>4. notified \in [1 .. MaxEvents -> Seq(Answers)]  BY DEF IntakeInv, IntakeTypeOK
<1>5. CASE e.from # Nobody  BY <1>2, <1>3, <1>4, <1>5 DEF Notify
<1>6. CASE e.from = Nobody
  <2>1. Append(notified[e.number], answer) = <<answer>> /\ <<answer>> \in Seq(Answers)
    BY <1>3
  <2>2. notified' = [notified EXCEPT ![e.number] = <<answer>>]
    BY <1>4, <1>6, <2>1 DEF Notify
  <2> QED  BY <1>2, <1>3, <1>4, <1>6, <2>1, <2>2
<1> QED  BY <1>5, <1>6

\* So an event that is answered and leaves keeps the account of the answers.
LEMMA AnswerLeaves ==
  ASSUME IntakeInv, NEW e \in Pending, NEW answer \in Answers, Notify(e, answer),
         Pending' = Pending \ {e}, UNCHANGED arrived
  PROVE  /\ AnswerInv'
         /\ \A n \in DOMAIN arrived :
              notified'[n] = <<"ok">> <=>
                notified[n] = <<"ok">> \/ (answer = "ok" /\ arrived[n] = e /\ e.from = Nobody)
<1>1. e \in Range(arrived)  BY DEF IntakeInv, PlaceInv
<1>2. /\ e.number \in DOMAIN arrived /\ arrived[e.number] = e
      /\ DOMAIN arrived \subseteq 1 .. MaxEvents
      /\ \A n \in DOMAIN arrived : arrived[n] = e => n = e.number
  BY <1>1, EventAt
<1>3. /\ \A n \in 1 .. MaxEvents : n # e.number => notified'[n] = notified[n]
      /\ notified[e.number] = <<>>
      /\ notified'[e.number] = IF e.from = Nobody THEN <<answer>> ELSE <<>>
  BY Notified
<1>4. Len(<<answer>>) = 1 /\ <<answer>> # <<>> /\ (<<answer>> = <<"ok">> <=> answer = "ok")
      /\ <<>> # <<"ok">>
  OBVIOUS
<1>5. AnswerInv'
  <2>1. \A n \in 1 .. MaxEvents : n \notin DOMAIN arrived' => notified'[n] = <<>>
    BY <1>2, <1>3 DEF IntakeInv, AnswerInv
  <2>2. ASSUME NEW n \in DOMAIN arrived
        PROVE  IF arrived[n] \in Pending' \/ arrived[n].from # Nobody THEN notified'[n] = <<>>
               ELSE Len(notified'[n]) = 1
    <3>1. CASE n = e.number  BY <1>2, <1>3, <1>4, <3>1
    <3>2. CASE n # e.number
      <4>1. arrived[n] # e /\ notified'[n] = notified[n]  BY <1>2, <1>3, <3>2
      <4> QED  BY <4>1 DEF IntakeInv, AnswerInv
    <3> QED  BY <3>1, <3>2
  <2> QED  BY <2>1, <2>2 DEF AnswerInv
<1>6. ASSUME NEW n \in DOMAIN arrived
      PROVE  notified'[n] = <<"ok">> <=>
               notified[n] = <<"ok">> \/ (answer = "ok" /\ arrived[n] = e /\ e.from = Nobody)
  <2>1. CASE n = e.number  BY <1>2, <1>3, <1>4, <2>1
  <2>2. CASE n # e.number  BY <1>2, <1>3, <2>2
  <2> QED  BY <2>1, <2>2
<1> QED  BY <1>5, <1>6

\* The inductive invariant holds at first.
LEMMA IntakeInitially == ASSUME IntakeInit  PROVE IntakeInv
<1>1. /\ cache = {} /\ elem_order = <<>> /\ hasher_queue = <<>> /\ processor_queue = <<>>
      /\ working = [w \in Workers |-> Nobody] /\ cached = {} /\ stored = {} /\ broadcaster = <<>>
      /\ arrived = <<>> /\ sent = <<>> /\ notified = [n \in 1 .. MaxEvents |-> <<>>]
  BY DEF IntakeInit
<1>2. Range(<<>>) = {} /\ Distinct(<<>>) /\ DOMAIN <<>> = {} /\ Len(<<>>) = 0  BY QueueEmpty
<1>3. IsFiniteSet({}) /\ Cardinality({}) = 0  BY FS_EmptySet
<1>4. Busy = {} /\ InHand = {} /\ Pending = {}  BY <1>1, <1>2 DEF Busy, InHand, Pending
<1>5. Settling = {} /\ MessagesOf(<<>>) = {} /\ Queued = {} /\ Won = {}
  BY <1>1, <1>2, <1>4 DEF Settling, MessagesOf, Queued, Seeking, Won, Storing
<1>6. IntakeTypeOK
  <2>1. \A X : <<>> \in Seq(X)  OBVIOUS
  <2>2. notified \in [1 .. MaxEvents -> Seq(Answers)]  BY <1>1, <2>1
  <2> QED  BY <1>1, <1>2, <2>1, <2>2, IntakeAssumption DEF IntakeTypeOK
<1>7. CacheInv  BY <1>1, <1>2, <1>3, IntakeAssumption DEF CacheInv
<1>8. PlaceInv  BY <1>1, <1>2, <1>4 DEF PlaceInv, Pending
<1>9. AnswerInv  BY <1>1, <1>2 DEF AnswerInv
<1>10. WinnerInv  BY <1>1, <1>2, <1>5 DEF WinnerInv
<1>11. SendInv  BY <1>1, <1>2, <1>4, <1>5 DEF SendInv, DistinctBut
<1>12. GoodInv  BY <1>1, <1>4, <1>5 DEF GoodInv
<1>13. VertexInv  BY <1>1, <1>4 DEF VertexInv
<1> QED  BY <1>6, <1>7, <1>8, <1>9, <1>10, <1>11, <1>12, <1>13 DEF IntakeInv

\* A new event is queued for the hasher.
LEMMA IntakeReceive ==
  ASSUME IntakeInv, NEW from \in {Nobody} \cup Neighbours, NEW m \in Incoming,
         ReceiveMessage(from, m)
  PROVE  IntakeInv'
<1> DEFINE e == Event(from, m)
<1>1. /\ hasher_queue' = Append(hasher_queue, e) /\ arrived' = Append(arrived, e)
      /\ Len(arrived) < MaxEvents
      /\ UNCHANGED <<cache, elem_order, processor_queue, working, cached, stored, displaced, requested,
                     broadcaster, sent, notified>>
  BY DEF ReceiveMessage, tangleVars
<1>2. arrived \in Seq(Events) /\ hasher_queue \in Seq(Events) /\ DOMAIN arrived = 1 .. Len(arrived)
      /\ Len(arrived) \in Nat
  BY DEF IntakeInv, IntakeTypeOK
<1>3. /\ e \in Events /\ e.number = Len(arrived) + 1 /\ e.message = m /\ e.from = from
      /\ e.number \in 1 .. MaxEvents
  BY <1>1, <1>2, IntakeAssumption DEF Event, Events
<1> HIDE DEF e
<1>4. /\ arrived' \in Seq(Events) /\ Range(arrived') = Range(arrived) \cup {e}
      /\ Len(arrived') = Len(arrived) + 1
      /\ DOMAIN arrived' = DOMAIN arrived \cup {Len(arrived) + 1}
      /\ \A i \in DOMAIN arrived : arrived'[i] = arrived[i]
      /\ arrived'[Len(arrived) + 1] = e /\ Len(arrived) + 1 \notin DOMAIN arrived
  BY <1>1, <1>2, <1>3, QueueAppend
<1>5. e \notin Range(arrived)
  <2>1. \A n \in DOMAIN arrived : arrived[n].number = n  BY DEF IntakeInv, PlaceInv
  <2> QED  BY <1>3, <1>4, <2>1 DEF Range
<1>6. /\ hasher_queue' \in Seq(Events) /\ Range(hasher_queue') = Range(hasher_queue) \cup {e}
      /\ Distinct(hasher_queue')
  <2>1. e \notin Range(hasher_queue) /\ Distinct(hasher_queue)
    BY <1>5 DEF IntakeInv, PlaceInv, Pending
  <2> QED  BY <1>1, <1>2, <1>3, <2>1, QueueAppend
<1>7. Busy' = Busy /\ InHand' = InHand /\ Pending' = Pending \cup {e} /\ Settling' = Settling
      /\ Won' = Won
  BY <1>1, <1>6 DEF Busy, InHand, Pending, Settling, Won, Storing
<1>8. /\ MessagesOf(arrived)' = MessagesOf(arrived) \cup {m}
      /\ MessagesOf(hasher_queue)' = MessagesOf(hasher_queue) \cup {m}
      /\ Queued' = Queued /\ MessagesOf(broadcaster)' = MessagesOf(broadcaster)
      /\ MessagesOf(sent)' = MessagesOf(sent)
  BY <1>1, <1>3, <1>4, <1>6, <1>7 DEF MessagesOf, Queued, Seeking
<1>9. notified[e.number] = <<>>
  BY <1>2, <1>3, <1>4 DEF IntakeInv, AnswerInv
<1>10. IntakeTypeOK'
  BY <1>1, <1>2, <1>4, <1>6, IntakeAssumption DEF IntakeInv, IntakeTypeOK
<1>11. CacheInv'  BY <1>1 DEF IntakeInv, CacheInv
<1>12. PlaceInv'
  <2>1. \A n \in DOMAIN arrived' : arrived'[n].number = n
    BY <1>3, <1>4 DEF IntakeInv, PlaceInv
  <2>2. e \notin Range(processor_queue) \cup InHand  BY <1>5 DEF IntakeInv, PlaceInv, Pending
  <2> QED
    BY <1>1, <1>4, <1>6, <1>7, <2>1, <2>2 DEF IntakeInv, PlaceInv
<1>13. AnswerInv'
  <2>1. \A n \in 1 .. MaxEvents : n \notin DOMAIN arrived' => notified'[n] = <<>>
    BY <1>1, <1>4 DEF IntakeInv, AnswerInv
  <2>2. \A n \in DOMAIN arrived : arrived[n] # e  BY <1>5 DEF Range
  <2>3. ASSUME NEW n \in DOMAIN arrived'
        PROVE  IF arrived'[n] \in Pending' \/ arrived'[n].from # Nobody THEN notified'[n] = <<>>
               ELSE Len(notified'[n]) = 1
    <3>1. CASE n \in DOMAIN arrived  BY <1>1, <1>4, <1>7, <2>2, <3>1 DEF IntakeInv, AnswerInv
    <3>2. CASE n = Len(arrived) + 1  BY <1>1, <1>3, <1>4, <1>7, <1>9, <3>2
    <3> QED  BY <1>4, <3>1, <3>2
  <2> QED  BY <2>1, <2>3 DEF AnswerInv
<1>14. WinnerInv'
  <2>1. <<>> # <<"ok">>  OBVIOUS
  <2>2. \A n \in DOMAIN arrived' :
          notified'[n] = <<"ok">> => n \in DOMAIN arrived /\ notified[n] = <<"ok">>
    BY <1>1, <1>3, <1>4, <1>9, <2>1
  <2>3. \A w \in Settling : working[w].event.message \in Won
    BY DEF IntakeInv, WinnerInv
  <2>4. \A w, v \in Settling :
          working[w].event.message = working[v].event.message /\ working[w].event.message \notin displaced
            => w = v
    BY DEF IntakeInv, WinnerInv
  <2>5. \A n \in DOMAIN arrived' : notified'[n] = <<"ok">> =>
          /\ arrived'[n].message \in Won
          /\ arrived'[n].message \notin displaced =>
               \A w \in Settling : working[w].event.message # arrived'[n].message
    BY <1>4, <2>2 DEF IntakeInv, WinnerInv
  <2>6. \A n, k \in DOMAIN arrived' :
          /\ notified'[n] = <<"ok">> /\ notified'[k] = <<"ok">>
          /\ arrived'[n].message = arrived'[k].message /\ arrived'[n].message \notin displaced
          => n = k
    <3> SUFFICES ASSUME NEW n \in DOMAIN arrived', NEW k \in DOMAIN arrived',
                        notified'[n] = <<"ok">>, notified'[k] = <<"ok">>,
                        arrived'[n].message = arrived'[k].message, arrived'[n].message \notin displaced
                 PROVE  n = k
      BY Zenon
    <3>1. /\ n \in DOMAIN arrived /\ k \in DOMAIN arrived
          /\ notified[n] = <<"ok">> /\ notified[k] = <<"ok">>
          /\ arrived'[n] = arrived[n] /\ arrived'[k] = arrived[k]
      BY <1>4, <2>2
    <3> QED  BY <3>1 DEF IntakeInv, WinnerInv
  <2> QED  BY <1>1, <1>7, <2>3, <2>4, <2>5, <2>6 DEF WinnerInv
<1>15. SendInv'
  BY <1>1, <1>4, <1>7, <1>8 DEF IntakeInv, SendInv
<1>16. GoodInv'
  BY <1>1, <1>7, <1>8 DEF IntakeInv, GoodInv
<1>17. VertexInv'  BY <1>1, <1>7 DEF IntakeInv, VertexInv
<1> QED  BY <1>10, <1>11, <1>12, <1>13, <1>14, <1>15, <1>16, <1>17 DEF IntakeInv

\* The cache and the order of its eviction stay one.
LEMMA IntakeCache ==
  ASSUME IntakeInv, NEW m \in Incoming, m \notin cache,
         cache' = (cache \ Evicted[1]) \cup {m}, elem_order' = Append(Evicted[2], m)
  PROVE  CacheInv' /\ cache' \subseteq cache \cup {m} /\ elem_order' \in Seq(Incoming)
<1>1. /\ elem_order \in Seq(Incoming) /\ cache = Range(elem_order) /\ Distinct(elem_order)
      /\ IsFiniteSet(cache) /\ Cardinality(cache) = Len(elem_order)
      /\ Len(elem_order) <= message_worker_cache /\ message_worker_cache \in Nat \ {0}
      /\ Len(elem_order) \in Nat
  BY IntakeAssumption DEF IntakeInv, CacheInv, IntakeTypeOK
<1> DEFINE kept == cache \ Evicted[1]
           left == Evicted[2]
<1>2. /\ left \in Seq(Incoming) /\ kept = Range(left) /\ Distinct(left) /\ Len(left) \in Nat
      /\ IsFiniteSet(kept) /\ Cardinality(kept) = Len(left) /\ Len(left) < message_worker_cache
  <2>1. CASE Cardinality(cache) >= message_worker_cache
    <3>1. Evicted[1] = {Head(elem_order)} /\ Evicted[2] = Tail(elem_order)
      BY <2>1 DEF Evicted
    <3>2. elem_order # <<>>  BY <1>1, <2>1
    <3>3. /\ Head(elem_order) \in cache /\ Tail(elem_order) \in Seq(Incoming)
          /\ Len(Tail(elem_order)) = Len(elem_order) - 1
          /\ Range(elem_order) = {Head(elem_order)} \cup Range(Tail(elem_order))
          /\ Distinct(Tail(elem_order)) /\ Head(elem_order) \notin Range(Tail(elem_order))
      BY <1>1, <3>2, QueueTail
    <3>4. kept = Range(Tail(elem_order))  BY <1>1, <3>1, <3>3
    <3>5. IsFiniteSet(kept) /\ Cardinality(kept) = Cardinality(cache) - 1
      BY <1>1, <3>1, <3>3, FS_RemoveElement
    <3> QED  BY <1>1, <2>1, <3>1, <3>3, <3>4, <3>5
  <2>2. CASE ~(Cardinality(cache) >= message_worker_cache)
    <3>1. Evicted[1] = {} /\ Evicted[2] = elem_order  BY <2>2 DEF Evicted
    <3> QED  BY <1>1, <2>2, <3>1
  <2> QED  BY <2>1, <2>2
<1>3. m \notin kept /\ kept \subseteq cache  OBVIOUS
<1> HIDE DEF kept, left
<1>4. cache' = kept \cup {m} /\ elem_order' = Append(left, m)  BY DEF kept, left
<1>5. /\ elem_order' \in Seq(Incoming) /\ Range(elem_order') = cache' /\ Distinct(elem_order')
      /\ Len(elem_order') = Len(left) + 1
  BY <1>2, <1>3, <1>4, QueueAppend
<1>6. IsFiniteSet(cache') /\ Cardinality(cache') = Cardinality(kept) + 1
  <2>1. IsFiniteSet(kept \cup {m}) /\ Cardinality(kept \cup {m}) = Cardinality(kept) + 1
    BY <1>2, <1>3, FS_AddElement
  <2>2. (kept \cup {m}) = cache'  BY <1>4
  <2> QED  BY <2>1, <2>2
<1>7. Len(elem_order') <= message_worker_cache  BY <1>1, <1>2, <1>5
<1> QED  BY <1>2, <1>3, <1>4, <1>5, <1>6, <1>7 DEF CacheInv

\* The hasher answers an event, or hands it on to the processor.
LEMMA IntakeHash == ASSUME IntakeInv, HashMessage  PROVE IntakeInv'
<1> DEFINE e == Head(hasher_queue)
           m == e.message
<1>1. /\ hasher_queue # <<>> /\ hasher_queue' = Tail(hasher_queue)
      /\ UNCHANGED <<working, cached, stored, displaced, requested, broadcaster, arrived, sent>>
  BY DEF HashMessage, tangleVars
<1>2. /\ e \in Events /\ hasher_queue' \in Seq(Events)
      /\ Range(hasher_queue) = {e} \cup Range(hasher_queue')
      /\ Distinct(hasher_queue') /\ e \notin Range(hasher_queue')
  <2>1. hasher_queue \in Seq(Events) /\ Distinct(hasher_queue)
    BY DEF IntakeInv, IntakeTypeOK, PlaceInv
  <2> QED  BY <1>1, <2>1, QueueTail
<1>3. m \in Incoming /\ e \in Pending /\ e \notin Range(processor_queue) \cup InHand
      /\ processor_queue \in Seq(Events)
  BY <1>2 DEF Events, Pending, IntakeInv, IntakeTypeOK, PlaceInv
<1>4. Busy' = Busy /\ InHand' = InHand /\ Settling' = Settling /\ Won' = Won /\ Seeking' = Seeking
      /\ VertexInv'
  <2>1. Busy' = Busy /\ InHand' = InHand /\ Settling' = Settling /\ Won' = Won /\ Seeking' = Seeking
    BY <1>1 DEF Busy, InHand, Settling, Won, Storing, Seeking
  <2> QED  BY <1>1, <2>1 DEF IntakeInv, VertexInv
<1>5. /\ MessagesOf(hasher_queue) = MessagesOf(hasher_queue') \cup {m}
      /\ MessagesOf(arrived)' = MessagesOf(arrived)
      /\ MessagesOf(broadcaster)' = MessagesOf(broadcaster) /\ MessagesOf(sent)' = MessagesOf(sent)
  BY <1>1, <1>2 DEF MessagesOf
<1>6. SendInv'
  BY <1>1, <1>4, <1>5 DEF IntakeInv, SendInv
<1>7. \/ /\ \E answer \in {"known", "invalid"} : Notify(e, answer)
         /\ UNCHANGED processor_queue
         /\ IF m \in cache THEN UNCHANGED <<cache, elem_order>>
            ELSE Kind[m] # "good" /\ cache' = (cache \ Evicted[1]) \cup {m}
                                  /\ elem_order' = Append(Evicted[2], m)
      \/ /\ m \notin cache /\ processor_queue' = Append(processor_queue, e)
         /\ cache' = (cache \ Evicted[1]) \cup {m} /\ elem_order' = Append(Evicted[2], m)
         /\ UNCHANGED notified
  BY DEF HashMessage
<1> HIDE DEF e, m
<1>8. CacheInv' /\ cache' \subseteq cache \cup {m} /\ elem_order' \in Seq(Incoming)
      /\ cache' \subseteq Incoming
  <2>1. CASE UNCHANGED <<cache, elem_order>>
    BY <2>1 DEF IntakeInv, CacheInv, IntakeTypeOK
  <2>2. CASE m \notin cache /\ cache' = (cache \ Evicted[1]) \cup {m}
             /\ elem_order' = Append(Evicted[2], m)
    <3>1. CacheInv' /\ cache' \subseteq cache \cup {m} /\ elem_order' \in Seq(Incoming)
      BY <1>3, <2>2, IntakeCache
    <3> QED  BY <1>3, <3>1 DEF IntakeInv, IntakeTypeOK
  <2> QED  BY <1>7, <2>1, <2>2
<1>9. ASSUME NEW answer \in {"known", "invalid"}, Notify(e, answer), UNCHANGED processor_queue,
             m \in cache \/ Kind[m] # "good", m \in cache => cache' = cache
      PROVE  IntakeInv'
  <2>1. Pending' = Pending \ {e}
    BY <1>1, <1>2, <1>3, <1>4, <1>9 DEF Pending
  <2>2. answer \in Answers /\ answer # "ok"  BY <1>9 DEF Answers
  <2>3. AnswerInv' /\ \A n \in DOMAIN arrived : notified'[n] = <<"ok">> <=> notified[n] = <<"ok">>
    BY <1>1, <1>3, <1>9, <2>1, <2>2, AnswerLeaves
  <2>4. notified' \in [1 .. MaxEvents -> Seq(Answers)]  BY <1>3, <1>9, <2>2, Notified
  <2>5. IntakeTypeOK'
    BY <1>1, <1>2, <1>8, <1>9, <2>4 DEF IntakeInv, IntakeTypeOK
  <2>6. PlaceInv'
    BY <1>1, <1>2, <1>4, <1>9, <2>1 DEF IntakeInv, PlaceInv
  <2>7. WinnerInv'
    BY <1>1, <1>4, <2>3 DEF IntakeInv, WinnerInv
  <2>8. Queued' = Queued  BY <1>1, <1>4, <1>9 DEF Queued, MessagesOf
  <2>9. IsGood(m) => m \in Won \cup Queued  BY <1>9 DEF IntakeInv, GoodInv, IsGood
  <2>10. GoodInv'
    BY <1>1, <1>4, <1>5, <1>8, <1>9, <2>8, <2>9 DEF IntakeInv, GoodInv
  <2> QED  BY <1>4, <1>6, <1>8, <2>3, <2>5, <2>6, <2>7, <2>10 DEF IntakeInv
<1>10. ASSUME processor_queue' = Append(processor_queue, e), UNCHANGED notified
       PROVE  IntakeInv'
  <2>1. /\ processor_queue' \in Seq(Events) /\ Distinct(processor_queue')
        /\ Range(processor_queue') = Range(processor_queue) \cup {e}
    <3>1. Distinct(processor_queue)  BY DEF IntakeInv, PlaceInv
    <3> QED  BY <1>2, <1>3, <1>10, <3>1, QueueAppend
  <2>2. Pending' = Pending  BY <1>1, <1>2, <1>4, <2>1 DEF Pending
  <2>3. AnswerInv' /\ WinnerInv'
    BY <1>1, <1>4, <1>10, <2>2 DEF IntakeInv, AnswerInv, WinnerInv
  <2>4. IntakeTypeOK'
    BY <1>1, <1>2, <1>8, <1>10, <2>1 DEF IntakeInv, IntakeTypeOK
  <2>5. PlaceInv'
    BY <1>1, <1>2, <1>3, <1>4, <2>1, <2>2 DEF IntakeInv, PlaceInv
  <2>6. Queued' = Queued \cup {m}  BY <1>1, <1>4, <2>1 DEF Queued, MessagesOf, m
  <2>7. GoodInv'
    BY <1>1, <1>4, <1>5, <1>8, <2>6 DEF IntakeInv, GoodInv
  <2> QED  BY <1>4, <1>6, <1>8, <2>3, <2>4, <2>5, <2>7 DEF IntakeInv
<1> QED  BY <1>7, <1>9, <1>10

\* What a requester does concerns the requests only.
LEMMA IntakeRequest == ASSUME IntakeInv, NEW m \in Incoming, RequestMessage(m)  PROVE IntakeInv'
<1>1. UNCHANGED <<cache, elem_order, hasher_queue, processor_queue, working, cached,
                  stored, displaced, broadcaster, arrived, sent, notified>>
  BY DEF RequestMessage, tangleVars
<1>2. Busy' = Busy /\ InHand' = InHand /\ Pending' = Pending /\ Settling' = Settling
      /\ Queued' = Queued /\ Won' = Won
  BY <1>1 DEF Busy, InHand, Pending, Settling, Queued, Seeking, MessagesOf, Won, Storing
<1>3. IntakeTypeOK' /\ CacheInv'  BY <1>1 DEF IntakeInv, IntakeTypeOK, CacheInv
<1>4. PlaceInv' /\ AnswerInv'  BY <1>1, <1>2 DEF IntakeInv, PlaceInv, AnswerInv
<1>5. WinnerInv'  BY <1>1, <1>2 DEF IntakeInv, WinnerInv
<1>6. SendInv'  BY <1>1, <1>2 DEF IntakeInv, SendInv, MessagesOf
<1>7. GoodInv'  BY <1>1, <1>2 DEF IntakeInv, GoodInv, MessagesOf
<1>8. VertexInv'  BY <1>1, <1>2 DEF IntakeInv, VertexInv
<1> QED  BY <1>3, <1>4, <1>5, <1>6, <1>7, <1>8 DEF IntakeInv

\* An event goes from the queue to a task.
LEMMA IntakeTake == ASSUME IntakeInv, NEW w \in Workers, TakeEvent(w)  PROVE IntakeInv'
<1> DEFINE e == Head(processor_queue)
<1>1. /\ working[w] = Nobody /\ processor_queue # <<>> /\ processor_queue' = Tail(processor_queue)
      /\ working' = [working EXCEPT ![w] = [step |-> "pull", event |-> e]]
      /\ UNCHANGED <<cache, elem_order, hasher_queue, cached, stored, displaced, requested, broadcaster,
                     arrived, sent, notified>>
  BY DEF TakeEvent, tangleVars
<1>2. /\ e \in Events /\ processor_queue' \in Seq(Events)
      /\ Range(processor_queue) = {e} \cup Range(processor_queue')
      /\ Distinct(processor_queue') /\ e \notin Range(processor_queue')
  <2>1. processor_queue \in Seq(Events) /\ Distinct(processor_queue)
    BY DEF IntakeInv, IntakeTypeOK, PlaceInv
  <2> QED  BY <1>1, <2>1, QueueTail
<1> HIDE DEF e
<1>3. /\ working' \in [Workers -> {Nobody} \cup Tasks]
      /\ Busy' = Busy \cup {w} /\ w \notin Busy /\ InHand' = InHand \cup {e}
      /\ \A v \in Busy : working'[v] = working[v]
      /\ working'[w].step = "pull" /\ working'[w].event = e
  <2>1. IntakeTypeOK  BY DEF IntakeInv
  <2> QED  BY <1>1, <1>2, <2>1, TaskTakes
<1>4. Pending' = Pending  BY <1>1, <1>2, <1>3 DEF Pending
<1>5. Settling' = Settling /\ Won' = Won
  <2>1. Settling' = Settling /\ Storing' = Storing  BY <1>3 DEF Settling, Storing
  <2>2. \A v \in Storing : working'[v] = working[v]  BY <1>3 DEF Storing
  <2> QED  BY <1>1, <2>1, <2>2 DEF Won
<1>6. Queued' = Queued
  <2>1. Seeking' = Seeking \cup {w} /\ \A v \in Seeking : working'[v] = working[v]
    BY <1>3 DEF Seeking
  <2>2. MessagesOf(processor_queue) = MessagesOf(processor_queue') \cup {e.message}
    BY <1>2 DEF MessagesOf
  <2> QED  BY <1>3, <2>1, <2>2 DEF Queued
<1>7. e \notin Range(hasher_queue) /\ e \notin InHand  BY <1>2 DEF IntakeInv, PlaceInv
<1>8. IntakeTypeOK' /\ CacheInv' /\ AnswerInv'
  BY <1>1, <1>2, <1>3, <1>4 DEF IntakeInv, IntakeTypeOK, CacheInv, AnswerInv
<1>9. PlaceInv'
  <2>1. \A v \in Busy : working'[v].event \in InHand  BY <1>3 DEF InHand
  <2>2. \A v, u \in Busy' : working'[v].event = working'[u].event => v = u
    BY <1>3, <1>7, <2>1 DEF IntakeInv, PlaceInv
  <2> QED  BY <1>1, <1>2, <1>3, <1>4, <1>7, <2>2 DEF IntakeInv, PlaceInv
<1>10. WinnerInv'
  <2>1. \A v \in Settling : working'[v] = working[v]  BY <1>3 DEF Settling
  <2> QED  BY <1>1, <1>5, <2>1 DEF IntakeInv, WinnerInv
<1>11. SendInv'  BY <1>1, <1>3, <1>5 DEF IntakeInv, SendInv, MessagesOf
<1>12. GoodInv'  BY <1>1, <1>3, <1>5, <1>6 DEF IntakeInv, GoodInv, MessagesOf
<1>13. VertexInv'  BY <1>1, <1>3, <1>5 DEF IntakeInv, VertexInv
<1> QED  BY <1>8, <1>9, <1>10, <1>11, <1>12, <1>13 DEF IntakeInv

\* A task answers its event and is done with it.
LEMMA TaskAnswers ==
  ASSUME IntakeInv, NEW w \in Busy, NEW answer \in Answers, Notify(working[w].event, answer),
         working' = [working EXCEPT ![w] = Nobody],
         UNCHANGED <<cache, elem_order, hasher_queue, processor_queue, broadcaster, arrived, sent>>
  PROVE  /\ IntakeTypeOK' /\ CacheInv' /\ PlaceInv' /\ AnswerInv'
         /\ Busy' = Busy \ {w} /\ Settling' = Settling \ {w} /\ Storing' = Storing \ {w}
         /\ \A v \in Busy' : working'[v] = working[v]
         /\ \A n \in DOMAIN arrived : notified'[n] = <<"ok">> <=>
              notified[n] = <<"ok">> \/ (answer = "ok" /\ arrived[n] = working[w].event
                                                       /\ working[w].event.from = Nobody)
<1> DEFINE e == working[w].event
<1>1. IntakeTypeOK /\ PlaceInv  BY DEF IntakeInv
<1>2. e \in InHand /\ e \in Pending /\ e \notin Range(hasher_queue) \cup Range(processor_queue)
  BY <1>1, BusyType DEF Pending, PlaceInv
<1>3. /\ working' \in [Workers -> {Nobody} \cup Tasks]
      /\ Busy' = Busy \ {w} /\ InHand' = InHand \ {e}
      /\ \A v \in Busy' : working'[v] = working[v]
  BY <1>1, TaskEnds
<1> HIDE DEF e
<1>4. Pending' = Pending \ {e}  BY <1>2, <1>3 DEF Pending
<1>5. Notify(e, answer)  BY DEF e
<1>6. AnswerInv' /\ \A n \in DOMAIN arrived :
              notified'[n] = <<"ok">> <=>
                notified[n] = <<"ok">> \/ (answer = "ok" /\ arrived[n] = e /\ e.from = Nobody)
  BY <1>2, <1>4, <1>5, AnswerLeaves
<1>7. notified' \in [1 .. MaxEvents -> Seq(Answers)]  BY <1>2, <1>5, Notified
<1>8. IntakeTypeOK' /\ CacheInv'  BY <1>3, <1>7 DEF IntakeInv, IntakeTypeOK, CacheInv
<1>9. PlaceInv'  BY <1>1, <1>3, <1>4 DEF PlaceInv
<1>10. Settling' = Settling \ {w} /\ Storing' = Storing \ {w}  BY <1>3 DEF Settling, Storing
<1> QED  BY <1>3, <1>6, <1>8, <1>9, <1>10 DEF e

\* A task that was not given its message ends, and what it waited for is there or is no
\* message for the Tangle: the vertex that it may have fetched changes nothing else.
LEMMA IntakeLeaves ==
  ASSUME IntakeInv, NEW w \in Seeking, NEW answer \in Answers \ {"ok"},
         Notify(working[w].event, answer), working' = [working EXCEPT ![w] = Nobody],
         ~IsGood(working[w].event.message) \/ working[w].event.message \in Won,
         cached \subseteq cached', cached' \subseteq Won,
         UNCHANGED <<cache, elem_order, hasher_queue, processor_queue, stored, displaced, broadcaster,
                     arrived, sent>>
  PROVE  IntakeInv'
<1>1. w \in Busy /\ answer \in Answers /\ answer # "ok" /\ w \notin Settling /\ w \notin Storing
  BY DEF Seeking, Settling, Storing
<1>2. /\ IntakeTypeOK' /\ CacheInv' /\ PlaceInv' /\ AnswerInv'
      /\ Busy' = Busy \ {w} /\ Settling' = Settling /\ Storing' = Storing
      /\ \A v \in Busy' : working'[v] = working[v]
      /\ \A n \in DOMAIN arrived : notified'[n] = <<"ok">> <=> notified[n] = <<"ok">>
  <2>1. /\ IntakeTypeOK' /\ CacheInv' /\ PlaceInv' /\ AnswerInv'
        /\ Busy' = Busy \ {w} /\ Settling' = Settling \ {w} /\ Storing' = Storing \ {w}
        /\ \A v \in Busy' : working'[v] = working[v]
        /\ \A n \in DOMAIN arrived : notified'[n] = <<"ok">> <=>
             notified[n] = <<"ok">> \/ (answer = "ok" /\ arrived[n] = working[w].event
                                                      /\ working[w].event.from = Nobody)
    BY <1>1, TaskAnswers
  <2>2. Settling \ {w} = Settling /\ Storing \ {w} = Storing  BY <1>1
  <2> QED  BY <1>1, <2>1, <2>2
<1>3. \A v \in Settling : v \in Busy' /\ working'[v] = working[v]  BY <1>1, <1>2 DEF Settling
<1>4. Won' = Won
  <2>1. \A v \in Storing : working'[v] = working[v]  BY <1>1, <1>2 DEF Storing
  <2> QED  BY <1>2, <2>1 DEF Won
<1>5. WinnerInv'  BY <1>2, <1>3, <1>4 DEF IntakeInv, WinnerInv
<1>6. VertexInv'  BY <1>2, <1>4 DEF IntakeInv, VertexInv
<1>7. SendInv'  BY <1>2, <1>4 DEF IntakeInv, SendInv, MessagesOf
<1>8. \A m \in Queued : IsGood(m) => m \in Won \cup Queued'
  <2>1. \A v \in Seeking : v # w => v \in Seeking' /\ working'[v] = working[v]
    BY <1>2 DEF Seeking
  <2> QED  BY <2>1 DEF Queued, MessagesOf
<1>9. GoodInv'  BY <1>2, <1>4, <1>8 DEF IntakeInv, GoodInv, MessagesOf
<1> QED  BY <1>2, <1>5, <1>6, <1>7, <1>9 DEF IntakeInv

\* A message that is not for the Tangle is answered and forgotten.
LEMMA IntakeReject == ASSUME IntakeInv, NEW w \in Workers, RejectMessage(w)  PROVE IntakeInv'
<1>1. /\ working[w].step = "pull" /\ ~IsGood(working[w].event.message)
      /\ Notify(working[w].event, "invalid") /\ working' = [working EXCEPT ![w] = Nobody]
      /\ UNCHANGED <<cache, elem_order, hasher_queue, processor_queue, cached, stored, displaced,
                     broadcaster, arrived, sent>>
  BY DEF RejectMessage, IsGood, tangleVars
<1>2. w \in Seeking /\ "invalid" \in Answers \ {"ok"}
  BY <1>1 DEF RejectMessage, Busy, Seeking, Answers
<1>3. cached \subseteq cached' /\ cached' \subseteq Won  BY <1>1 DEF IntakeInv, VertexInv
<1> QED  BY <1>1, <1>2, <1>3, IntakeLeaves

\* A task goes on to look for its message; if another one was given it and stores it, the
\* vertex is still there.
LEMMA IntakeSeeks ==
  ASSUME IntakeInv, NEW w \in Seeking, NEW step \in {"fetch", "insert"}, Advance(w, step),
         IsGood(working[w].event.message),
         step = "insert" => working[w].event.message \notin stored,
         UNCHANGED <<cache, elem_order, hasher_queue, processor_queue, cached, stored, displaced,
                     broadcaster, arrived, sent>>
  PROVE  IntakeInv'
<1> DEFINE m == working[w].event.message
<1>1. working' = [working EXCEPT ![w].step = step] /\ UNCHANGED notified  BY DEF Advance
<1>2. w \in Busy /\ w \notin Settling /\ w \notin Storing /\ step \in Steps
  BY DEF Seeking, Settling, Storing, Steps
<1>3. /\ working' \in [Workers -> {Nobody} \cup Tasks]
      /\ Busy' = Busy /\ InHand' = InHand
      /\ \A v \in Busy : v # w => working'[v] = working[v]
      /\ \A v \in Busy : working'[v].event = working[v].event
      /\ working'[w].step = step
  <2>1. IntakeTypeOK  BY DEF IntakeInv
  <2> QED  BY <1>1, <1>2, <2>1, TaskAdvances
<1>4. Pending' = Pending /\ Settling' = Settling /\ Storing' = Storing /\ Seeking' = Seeking
  <2>1. working'[w].step \in {"fetch", "insert"}  BY <1>3
  <2> QED  BY <1>2, <1>3, <2>1 DEF Pending, Settling, Storing, Seeking
<1>5. Won' = Won
  <2>1. \A v \in Storing : working'[v] = working[v]  BY <1>2, <1>3 DEF Storing
  <2> QED  BY <1>4, <2>1 DEF Won
<1>6. Queued' = Queued
  <2>1. \A v \in Seeking : working'[v].event = working[v].event  BY <1>3 DEF Seeking
  <2> QED  BY <1>4, <2>1 DEF Queued, MessagesOf
<1>7. IntakeTypeOK' /\ CacheInv' /\ AnswerInv' /\ PlaceInv'
  BY <1>1, <1>3, <1>4 DEF IntakeInv, IntakeTypeOK, CacheInv, AnswerInv, PlaceInv
<1>8. WinnerInv'
  <2>1. \A v \in Settling : working'[v] = working[v]  BY <1>2, <1>3 DEF Settling
  <2> QED  BY <1>1, <1>4, <1>5, <2>1 DEF IntakeInv, WinnerInv
<1>9. VertexInv'
  <2>1. ASSUME step = "insert", m \in Won \ displaced  PROVE m \in cached
    <3>1. PICK v \in Storing : working[v].event.message = m  BY <2>1 DEF Won
    <3> QED  BY <2>1, <3>1 DEF IntakeInv, VertexInv, Storing
  <2>2. working'[w].event.message = m  BY <1>2, <1>3
  <2> HIDE DEF m
  <2> QED  BY <1>3, <1>5, <2>1, <2>2 DEF IntakeInv, VertexInv
<1>10. SendInv'
  <2>1. \A v \in Busy' : working'[v].step \in {"store", "requested"} => v \in Busy /\ working'[v] = working[v]
    BY <1>3
  <2> QED  BY <1>5, <2>1 DEF IntakeInv, SendInv, MessagesOf
<1>11. GoodInv'
  <2>1. \A v \in Busy' : working'[v].step # "pull" => IsGood(working'[v].event.message)
    BY <1>3 DEF IntakeInv, GoodInv
  <2> QED  BY <1>5, <1>6, <2>1 DEF IntakeInv, GoodInv, MessagesOf
<1> QED  BY <1>7, <1>8, <1>9, <1>10, <1>11 DEF IntakeInv

\* A task finds a vertex with the message, or goes on to the storage.
LEMMA IntakePull == ASSUME IntakeInv, NEW w \in Workers, PullMessage(w)  PROVE IntakeInv'
<1>1. /\ working[w].step = "pull" /\ IsGood(working[w].event.message) /\ w \in Seeking
      /\ UNCHANGED <<cache, elem_order, hasher_queue, processor_queue, cached, stored, displaced,
                     broadcaster, arrived, sent>>
  BY DEF PullMessage, IsGood, tangleVars, Seeking, Busy
<1>2. cached \subseteq cached' /\ cached' \subseteq Won  BY <1>1 DEF IntakeInv, VertexInv
<1>3. CASE working[w].event.message \in cached
  <2>1. /\ working' = [working EXCEPT ![w] = Nobody] /\ Notify(working[w].event, "dropped")
        /\ "dropped" \in Answers \ {"ok"} /\ working[w].event.message \in Won
    BY <1>1, <1>2, <1>3 DEF PullMessage, Drop, Answers
  <2> QED  BY <1>1, <1>2, <2>1, IntakeLeaves
<1>4. CASE working[w].event.message \notin cached
  <2>1. Advance(w, "fetch") /\ "fetch" # "insert" /\ "fetch" \in {"fetch", "insert"}
    BY <1>4 DEF PullMessage
  <2> QED  BY <1>1, <2>1, IntakeSeeks
<1> QED  BY <1>3, <1>4

\* A task finds the message in the storage, or is about to insert it.
LEMMA IntakeFetch == ASSUME IntakeInv, NEW w \in Workers, FetchMessage(w)  PROVE IntakeInv'
<1>1. /\ working[w].step = "fetch" /\ w \in Seeking /\ w \in Busy
      /\ UNCHANGED <<cache, elem_order, hasher_queue, processor_queue, stored, displaced,
                     broadcaster, arrived, sent>>
  BY DEF FetchMessage, Seeking, Busy
<1>2. IsGood(working[w].event.message)  BY <1>1 DEF IntakeInv, GoodInv
<1>3. CASE working[w].event.message \in stored
  <2>1. /\ working' = [working EXCEPT ![w] = Nobody] /\ Notify(working[w].event, "dropped")
        /\ "dropped" \in Answers \ {"ok"} /\ cached' = cached \cup {working[w].event.message}
    BY <1>3 DEF FetchMessage, Drop, Answers
  <2>2. working[w].event.message \in Won /\ cached \subseteq cached' /\ cached' \subseteq Won
    BY <1>3, <2>1 DEF Won, IntakeInv, VertexInv
  <2> QED  BY <1>1, <2>1, <2>2, IntakeLeaves
<1>4. CASE working[w].event.message \notin stored
  <2>1. Advance(w, "insert") /\ UNCHANGED cached /\ "insert" \in {"fetch", "insert"}
    BY <1>4 DEF FetchMessage
  <2> QED  BY <1>1, <1>2, <1>4, <2>1, IntakeSeeks
<1> QED  BY <1>3, <1>4

\* One task is given a message that was not evicted on its way; the others drop it.
LEMMA IntakeInsert == ASSUME IntakeInv, NEW w \in Workers, InsertMessage(w)  PROVE IntakeInv'
<1> DEFINE m == working[w].event.message
<1>1. /\ working[w].step = "insert" /\ cached' = cached \cup {m} /\ w \in Busy /\ w \in Seeking
      /\ UNCHANGED <<cache, elem_order, hasher_queue, processor_queue, stored, displaced, broadcaster,
                     arrived, sent>>
  BY DEF InsertMessage, Busy, Seeking
<1>2. IsGood(m) /\ m \in MessagesOf(arrived)
  <2>1. working[w].event \in Range(arrived)
    BY <1>1, BusyType DEF IntakeInv, PlaceInv, Pending
  <2> QED  BY <1>1, <2>1 DEF MessagesOf, IntakeInv, GoodInv
<1>3. CASE m \in cached
  <2>1. /\ working' = [working EXCEPT ![w] = Nobody] /\ Notify(working[w].event, "dropped")
        /\ "dropped" \in Answers \ {"ok"}
    BY <1>3 DEF InsertMessage, Drop, Answers, Continues
  <2>2. m \in Won /\ cached \subseteq cached' /\ cached' \subseteq Won
    BY <1>1, <1>3 DEF IntakeInv, VertexInv
  <2> QED  BY <1>1, <2>1, <2>2, IntakeLeaves
<1>4. CASE m \notin cached
  <2>1. working' = [working EXCEPT ![w].step = "store"] /\ UNCHANGED notified
    BY <1>4 DEF InsertMessage, Advance, Continues
  <2>2. /\ working' \in [Workers -> {Nobody} \cup Tasks]
        /\ Busy' = Busy /\ InHand' = InHand
        /\ \A v \in Busy : v # w => working'[v] = working[v]
        /\ \A v \in Busy : working'[v].event = working[v].event
        /\ working'[w].step = "store"
    <3>1. IntakeTypeOK /\ "store" \in Steps  BY DEF IntakeInv, Steps
    <3> QED  BY <1>1, <2>1, <3>1, TaskAdvances
  <2>3. working'[w].event.message = m  BY <1>1, <2>2
  <2>4. m \notin Won \ displaced  BY <1>1, <1>4 DEF IntakeInv, VertexInv
  <2>5. \A v \in Busy : v # w => v \in Busy' /\ working'[v] = working[v]  BY <2>2
  <2>6. working[w].event.message = m  BY DEF m
  <2> HIDE DEF m
  <2>7. /\ Pending' = Pending /\ Settling' = Settling \cup {w} /\ w \notin Settling
        /\ Storing' = Storing \cup {w} /\ w \notin Storing
    BY <1>1, <2>2 DEF Pending, Settling, Storing
  <2>8. Won' = Won \cup {m}
    <3>1. \A v \in Storing : working'[v] = working[v]  BY <2>2, <2>7 DEF Storing
    <3> QED  BY <1>1, <2>3, <2>7, <3>1 DEF Won
  <2>9. IntakeTypeOK' /\ CacheInv' /\ AnswerInv' /\ PlaceInv'
    BY <1>1, <2>1, <2>2, <2>7 DEF IntakeInv, IntakeTypeOK, CacheInv, AnswerInv, PlaceInv
  <2>10. WinnerInv'
    <3>1. \A v \in Settling : working'[v].event.message = working[v].event.message
                              /\ working[v].event.message \in Won
      BY <2>2 DEF Settling, IntakeInv, WinnerInv
    <3>2. m \notin displaced => \A v \in Settling : working'[v].event.message # m  BY <2>4, <3>1
    <3>3. m \notin displaced => \A n \in DOMAIN arrived : notified[n] = <<"ok">> => arrived[n].message # m
      BY <2>4 DEF IntakeInv, WinnerInv
    <3> QED  BY <1>1, <2>1, <2>3, <2>7, <2>8, <3>1, <3>2, <3>3 DEF IntakeInv, WinnerInv
  <2>11. VertexInv'
    <3>1. \A v \in Busy' : working'[v].event.message = m \/ (v \in Busy /\ working'[v] = working[v])
      BY <2>2, <2>3
    <3> QED  BY <1>1, <2>8, <3>1 DEF IntakeInv, VertexInv
  <2>12. SendInv'
    <3>1. m \notin displaced => m \notin MessagesOf(broadcaster) \cup MessagesOf(sent)
      BY <2>4 DEF IntakeInv, SendInv
    <3> QED  BY <1>1, <2>2, <2>3, <2>8, <3>1 DEF IntakeInv, SendInv, MessagesOf
  <2>13. Queued \subseteq Queued' \cup {m}
    <3>1. \A v \in Seeking : v # w => v \in Seeking' /\ working'[v] = working[v]
      BY <2>5 DEF Seeking
    <3> QED  BY <1>1, <2>6, <3>1 DEF Queued, MessagesOf
  <2>14. GoodInv'
    <3>1. \A v \in Busy' : working'[v].step # "pull" => IsGood(working'[v].event.message)
      BY <1>2, <2>2, <2>3 DEF IntakeInv, GoodInv
    <3> QED  BY <1>1, <1>2, <2>8, <2>13, <3>1 DEF IntakeInv, GoodInv, MessagesOf
  <2> QED  BY <2>9, <2>10, <2>11, <2>12, <2>14 DEF IntakeInv
<1> QED  BY <1>3, <1>4

\* A message that was given to a task is stored.
LEMMA IntakeStore == ASSUME IntakeInv, NEW w \in Workers, StoreMessage(w)  PROVE IntakeInv'
<1> DEFINE m == working[w].event.message
<1>1. /\ working[w].step = "store" /\ stored' = stored \cup {m} /\ w \in Busy
      /\ working' = [working EXCEPT ![w].step = "requested"]
      /\ UNCHANGED <<cache, elem_order, hasher_queue, processor_queue, cached, displaced, broadcaster,
                     arrived, sent, notified>>
  BY DEF StoreMessage, Busy, Advance
<1>2. /\ working' \in [Workers -> {Nobody} \cup Tasks]
      /\ Busy' = Busy /\ InHand' = InHand
      /\ \A v \in Busy : v # w => working'[v] = working[v]
      /\ \A v \in Busy : working'[v].event = working[v].event
      /\ working'[w].step = "requested"
  <2>1. IntakeTypeOK /\ "requested" \in Steps  BY DEF IntakeInv, Steps
  <2> QED  BY <1>1, <2>1, TaskAdvances
<1>3. working'[w].event.message = m /\ working[w].event.message = m  BY <1>1, <1>2
<1> HIDE DEF m
<1>4. /\ Pending' = Pending /\ Settling' = Settling /\ w \in Settling /\ w \in Storing
      /\ Storing' = Storing \ {w} /\ Seeking' = Seeking
  BY <1>1, <1>2 DEF Pending, Settling, Storing, Seeking
<1>5. Won' = Won
  <2>1. \A v \in Storing : v # w => working'[v] = working[v]  BY <1>2 DEF Storing
  <2> QED  BY <1>1, <1>3, <1>4, <2>1 DEF Won
<1>6. Queued' = Queued
  <2>1. \A v \in Seeking : working'[v].event = working[v].event  BY <1>2 DEF Seeking
  <2> QED  BY <1>1, <1>4, <2>1 DEF Queued, MessagesOf
<1>7. IntakeTypeOK' /\ CacheInv' /\ AnswerInv' /\ PlaceInv'
  BY <1>1, <1>2, <1>4 DEF IntakeInv, IntakeTypeOK, CacheInv, AnswerInv, PlaceInv
<1>8. WinnerInv'
  <2>1. \A v \in Settling : working'[v].event = working[v].event  BY <1>2 DEF Settling
  <2> QED  BY <1>1, <1>4, <1>5, <2>1 DEF IntakeInv, WinnerInv
<1>9. VertexInv'
  <2>1. \A v \in Busy' : working'[v].step \in {"insert", "store"} => v \in Busy /\ working'[v] = working[v]
    BY <1>2
  <2> QED  BY <1>1, <1>5, <2>1 DEF IntakeInv, VertexInv
<1>10. SendInv'
  <2>1. \A v \in Busy' : working'[v].step \in {"store", "requested"} =>
          v \in Busy /\ working[v].step \in {"store", "requested"} /\ working'[v].event = working[v].event
    BY <1>1, <1>2
  <2> QED  BY <1>1, <1>5, <2>1 DEF IntakeInv, SendInv, MessagesOf
<1>11. GoodInv'
  <2>1. \A v \in Busy' : working'[v].step # "pull" => IsGood(working'[v].event.message)
    <3>1. working[w].step # "pull"  BY <1>1
    <3> QED  BY <1>1, <1>2, <3>1 DEF IntakeInv, GoodInv
  <2> QED  BY <1>1, <1>5, <1>6, <2>1 DEF IntakeInv, GoodInv, MessagesOf
<1> QED  BY <1>7, <1>8, <1>9, <1>10, <1>11 DEF IntakeInv

\* An eviction takes a vertex that nobody waits for, or is remembered.
LEMMA IntakeEvict == ASSUME IntakeInv, NEW m \in Incoming, EvictMessage(m)  PROVE IntakeInv'
<1>1. /\ cached' = cached \ {m} /\ displaced \subseteq displaced'
      /\ UNCHANGED <<cache, elem_order, hasher_queue, processor_queue, working, stored,
                     broadcaster, arrived, sent, notified>>
  BY DEF EvictMessage
<1>2. Busy' = Busy /\ InHand' = InHand /\ Pending' = Pending /\ Settling' = Settling
      /\ Queued' = Queued /\ Won' = Won
  BY <1>1 DEF Busy, InHand, Pending, Settling, Queued, Seeking, MessagesOf, Won, Storing
<1>3. IntakeTypeOK' /\ CacheInv'  BY <1>1 DEF IntakeInv, IntakeTypeOK, CacheInv
<1>4. PlaceInv' /\ AnswerInv'  BY <1>1, <1>2 DEF IntakeInv, PlaceInv, AnswerInv
<1>5. WinnerInv'  BY <1>1, <1>2 DEF IntakeInv, WinnerInv
<1>6. SendInv'
  <2>1. DistinctBut(sent, displaced')  BY <1>1 DEF IntakeInv, SendInv, DistinctBut
  <2> QED  BY <1>1, <1>2, <2>1 DEF IntakeInv, SendInv, MessagesOf
<1>7. GoodInv'  BY <1>1, <1>2 DEF IntakeInv, GoodInv, MessagesOf
<1>8. VertexInv'
  <2>1. ASSUME NEW v \in Busy, working[v].step \in {"insert", "store"},
               working[v].event.message = m
        PROVE  m \in displaced'
    BY <2>1 DEF EvictMessage, MidInsert, Busy
  <2> QED  BY <1>1, <1>2, <2>1 DEF IntakeInv, VertexInv
<1> QED  BY <1>3, <1>4, <1>5, <1>6, <1>7, <1>8 DEF IntakeInv

\* What was not requested is handed to the broadcaster, once.
LEMMA IntakeSettle == ASSUME IntakeInv, NEW w \in Workers, SettleRequest(w)  PROVE IntakeInv'
<1> DEFINE e == working[w].event
           m == e.message
<1>1. /\ working[w].step = "requested" /\ working' = [working EXCEPT ![w].step = "notify"]
      /\ broadcaster' = broadcaster \/ broadcaster' = Append(broadcaster, e)
      /\ UNCHANGED <<cache, elem_order, hasher_queue, processor_queue, cached, stored, displaced,
                     arrived, sent, notified>>
  BY DEF SettleRequest, tangleVars
<1>2. w \in Busy  BY DEF SettleRequest, Busy
<1>3. /\ working' \in [Workers -> {Nobody} \cup Tasks]
      /\ Busy' = Busy /\ InHand' = InHand
      /\ \A v \in Busy : v # w => working'[v] = working[v]
      /\ \A v \in Busy : working'[v].event = working[v].event
      /\ working'[w].step = "notify"
  <2>1. IntakeTypeOK /\ "notify" \in Steps  BY DEF IntakeInv, Steps
  <2> QED  BY <1>1, <1>2, <2>1, TaskAdvances
<1>4. /\ e \in Events /\ e \in Range(arrived) /\ broadcaster \in Seq(Events)
  BY <1>2, BusyType DEF IntakeInv, IntakeTypeOK, PlaceInv, Pending
<1>5. w \in Settling /\ m \in Won  BY <1>1, <1>2 DEF Settling, IntakeInv, WinnerInv
<1>6. m \notin displaced => m \notin MessagesOf(broadcaster) \cup MessagesOf(sent)
  BY <1>1, <1>2 DEF IntakeInv, SendInv
<1>7. \A v \in Settling : working[v].event.message = m /\ m \notin displaced => v = w
  BY <1>5 DEF IntakeInv, WinnerInv
<1> HIDE DEF e
<1>8. Pending' = Pending /\ Settling' = Settling /\ Won' = Won
  <2>1. Storing' = Storing /\ \A v \in Storing : working'[v] = working[v]
    BY <1>1, <1>3 DEF Storing
  <2> QED  BY <1>1, <1>3, <1>5, <2>1 DEF Pending, Settling, Won
<1>9. Queued' = Queued
  <2>1. Seeking' = Seeking /\ \A v \in Seeking : working'[v] = working[v]
    BY <1>1, <1>2, <1>3 DEF Seeking
  <2> QED  BY <1>1, <2>1 DEF Queued, MessagesOf
<1>10. /\ broadcaster' \in Seq(Events)
       /\ Range(broadcaster) \subseteq Range(broadcaster')
       /\ Range(broadcaster') \subseteq Range(broadcaster) \cup {e}
       /\ \A i, j \in DOMAIN broadcaster' :
            broadcaster'[i].message = broadcaster'[j].message /\ broadcaster'[i].message \notin displaced
              => i = j
  <2>1. \A i, j \in DOMAIN broadcaster :
          broadcaster[i].message = broadcaster[j].message /\ broadcaster[i].message \notin displaced => i = j
    BY DEF IntakeInv, SendInv
  <2>2. CASE broadcaster' = broadcaster  BY <1>4, <2>1, <2>2
  <2>3. CASE broadcaster' = Append(broadcaster, e)
    <3>1. /\ broadcaster' \in Seq(Events) /\ Range(broadcaster') = Range(broadcaster) \cup {e}
          /\ DOMAIN broadcaster' = DOMAIN broadcaster \cup {Len(broadcaster) + 1}
          /\ \A i \in DOMAIN broadcaster : broadcaster'[i] = broadcaster[i]
          /\ broadcaster'[Len(broadcaster) + 1] = e
      BY <1>4, <2>3, QueueAppend
    <3>2. m \notin displaced => \A i \in DOMAIN broadcaster : broadcaster[i].message # m
      BY <1>6 DEF MessagesOf, Range
    <3> QED  BY <2>1, <3>1, <3>2
  <2> QED  BY <1>1, <2>2, <2>3
<1>11. IntakeTypeOK' /\ CacheInv' /\ AnswerInv' /\ PlaceInv'
  BY <1>1, <1>3, <1>8, <1>10 DEF IntakeInv, IntakeTypeOK, CacheInv, AnswerInv, PlaceInv
<1>12. WinnerInv'
  <2>1. \A v \in Settling : working'[v].event = working[v].event  BY <1>3 DEF Settling
  <2> QED  BY <1>1, <1>8, <2>1 DEF IntakeInv, WinnerInv
<1>13. SendInv'
  <2>1. MessagesOf(broadcaster') \subseteq MessagesOf(broadcaster) \cup {m}
    BY <1>10 DEF MessagesOf
  <2>2. \A v \in Busy' : working'[v].step \in {"store", "requested"} =>
          v \in Busy /\ v # w /\ v \in Settling /\ working'[v] = working[v]
    BY <1>3 DEF Settling
  <2>3. \A v \in Busy' :
          working'[v].step \in {"store", "requested"} /\ working'[v].event.message \notin displaced =>
            working'[v].event.message \notin MessagesOf(broadcaster') \cup MessagesOf(sent)
    BY <1>7, <2>1, <2>2 DEF IntakeInv, SendInv
  <2>4. /\ MessagesOf(sent') = MessagesOf(sent) /\ Range(sent') = Range(sent)
        /\ Range(arrived') = Range(arrived)
    BY <1>1
  <2> QED
    BY <1>1, <1>4, <1>5, <1>6, <1>8, <1>10, <2>1, <2>3, <2>4 DEF IntakeInv, SendInv
<1>14. GoodInv'
  <2>1. \A v \in Busy' : working'[v].step # "pull" => IsGood(working'[v].event.message)
    <3>1. working[w].step # "pull"  BY <1>1
    <3> QED  BY <1>2, <1>3, <3>1 DEF IntakeInv, GoodInv
  <2> QED  BY <1>1, <1>8, <1>9, <2>1 DEF IntakeInv, GoodInv, MessagesOf
<1>15. VertexInv'
  <2>1. \A v \in Busy' : working'[v].step \in {"insert", "store"} => v \in Busy /\ working'[v] = working[v]
    BY <1>3
  <2> QED  BY <1>1, <1>8, <2>1 DEF IntakeInv, VertexInv
<1> QED  BY <1>11, <1>12, <1>13, <1>14, <1>15 DEF IntakeInv

\* The one task that put a message into the Tangle answers with "ok".
LEMMA IntakeNotify == ASSUME IntakeInv, NEW w \in Workers, NotifyMessage(w)  PROVE IntakeInv'
<1> DEFINE e == working[w].event
           m == e.message
<1>1. /\ working[w].step = "notify" /\ Notify(e, "ok") /\ working' = [working EXCEPT ![w] = Nobody]
      /\ UNCHANGED <<cache, elem_order, hasher_queue, processor_queue, cached, stored, displaced,
                     requested, broadcaster, arrived, sent>>
  BY DEF NotifyMessage, tangleVars
<1>2. w \in Busy  BY DEF NotifyMessage, Busy
<1>3. "ok" \in Answers  BY DEF Answers
<1>4. /\ IntakeTypeOK' /\ CacheInv' /\ PlaceInv' /\ AnswerInv'
      /\ Busy' = Busy \ {w} /\ Settling' = Settling \ {w}
      /\ \A v \in Busy' : working'[v] = working[v]
      /\ \A n \in DOMAIN arrived : notified'[n] = <<"ok">> =>
           notified[n] = <<"ok">> \/ arrived[n] = e
  BY <1>1, <1>2, <1>3, TaskAnswers
<1>5. w \in Settling /\ m \in Won  BY <1>1, <1>2 DEF Settling, IntakeInv, WinnerInv
<1>6. \A v \in Settling : working[v].event.message = m /\ m \notin displaced => v = w
  BY <1>5 DEF IntakeInv, WinnerInv
<1>7. \A n \in DOMAIN arrived : notified[n] = <<"ok">> /\ m \notin displaced => arrived[n].message # m
  BY <1>5 DEF IntakeInv, WinnerInv
<1>13. Won' = Won /\ Seeking' = Seeking /\ \A v \in Seeking : working'[v] = working[v]
  <2>1. Storing' = Storing /\ \A v \in Storing : working'[v] = working[v]
    BY <1>1, <1>4 DEF Storing
  <2> QED  BY <1>1, <1>4, <2>1 DEF Won, Seeking
<1>8. \A n \in DOMAIN arrived : arrived[n] = e => n = e.number
  <2>1. e \in Range(arrived)  BY <1>2, BusyType DEF IntakeInv, PlaceInv, Pending
  <2> QED  BY <2>1, EventAt
<1>9. WinnerInv'
  <2>1. \A v \in Settling' : v \in Settling /\ v # w /\ working'[v] = working[v]
    BY <1>4 DEF Settling
  <2>2. m \notin displaced => \A v \in Settling' : working'[v].event.message # m  BY <1>6, <2>1
  <2> HIDE DEF e
  <2>3. \A n \in DOMAIN arrived : notified'[n] = <<"ok">> =>
          /\ arrived[n].message \in Won
          /\ arrived[n].message \notin displaced =>
               \A v \in Settling' : working'[v].event.message # arrived[n].message
    BY <1>4, <1>5, <2>1, <2>2 DEF IntakeInv, WinnerInv
  <2>4. \A n, k \in DOMAIN arrived :
          /\ notified'[n] = <<"ok">> /\ notified'[k] = <<"ok">>
          /\ arrived[n].message = arrived[k].message /\ arrived[n].message \notin displaced
          => n = k
    <3> SUFFICES ASSUME NEW n \in DOMAIN arrived, NEW k \in DOMAIN arrived,
                        notified'[n] = <<"ok">>, notified'[k] = <<"ok">>,
                        arrived[n].message = arrived[k].message, arrived[n].message \notin displaced
                 PROVE  n = k
      BY Zenon
    <3>1. CASE arrived[n].message = m
      <4>1. arrived[n] = e /\ arrived[k] = e  BY <1>4, <1>7, <3>1
      <4> QED  BY <1>8, <4>1
    <3>2. CASE arrived[n].message # m
      <4>1. notified[n] = <<"ok">> /\ notified[k] = <<"ok">>  BY <1>4, <3>2
      <4> QED  BY <4>1 DEF IntakeInv, WinnerInv
    <3> QED  BY <3>1, <3>2
  <2> QED  BY <1>1, <1>13, <2>1, <2>3, <2>4 DEF IntakeInv, WinnerInv
<1>10. SendInv'  BY <1>1, <1>4, <1>13 DEF IntakeInv, SendInv, MessagesOf
<1>11. Queued' = Queued  BY <1>1, <1>13 DEF Queued, MessagesOf
<1>12. GoodInv'  BY <1>1, <1>4, <1>11, <1>13 DEF IntakeInv, GoodInv, MessagesOf
<1>14. VertexInv'  BY <1>1, <1>4, <1>13 DEF IntakeInv, VertexInv
<1> QED  BY <1>4, <1>9, <1>10, <1>12, <1>14 DEF IntakeInv

\* The copies go to everyone but the source, and are the first of their message.
LEMMA IntakeBroadcast == ASSUME IntakeInv, Broadcast  PROVE IntakeInv'
<1> DEFINE e == Head(broadcaster)
           m == e.message
           Copy(p) == [message |-> m, to |-> p]
           C == {Copy(p) : p \in Receivers(e.from)}
           copies == SetToSeq(C)
           Copies == [message : Incoming, to : Neighbours]
<1>1. /\ broadcaster # <<>> /\ broadcaster' = Tail(broadcaster) /\ sent' = sent \o copies
      /\ UNCHANGED <<cache, elem_order, hasher_queue, processor_queue, working, cached, stored,
                     displaced, requested, arrived, notified>>
  BY DEF Broadcast, tangleVars
<1>2. broadcaster \in Seq(Events) /\ sent \in Seq(Copies) /\ DistinctBut(sent, displaced)
  BY DEF IntakeInv, IntakeTypeOK, SendInv
<1>3. /\ \A i, j \in DOMAIN broadcaster :
           broadcaster[i].message = broadcaster[j].message /\ broadcaster[i].message \notin displaced => i = j
      /\ MessagesOf(broadcaster) \cap MessagesOf(sent) \subseteq displaced
      /\ MessagesOf(broadcaster) \cup MessagesOf(sent) \subseteq Won
      /\ Range(broadcaster) \subseteq Range(arrived)
      /\ \A c \in Range(sent) : \E a \in Range(arrived) : a.message = c.message /\ a.from # c.to
  BY DEF IntakeInv, SendInv
<1>4. /\ e \in Events /\ broadcaster' \in Seq(Events)
      /\ Range(broadcaster) = {e} \cup Range(broadcaster')
      /\ Len(broadcaster') = Len(broadcaster) - 1 /\ Len(broadcaster) \in Nat \ {0}
  BY <1>1, <1>2, QueueTail
<1>5. \A i \in DOMAIN broadcaster' :
         i + 1 \in DOMAIN broadcaster /\ broadcaster'[i] = broadcaster[i + 1] /\ i \in Nat /\ i # 0
  BY <1>1, <1>2, <1>4
<1>6. 1 \in DOMAIN broadcaster /\ e = broadcaster[1]  BY <1>1, <1>2, <1>4
<1>7. m \in Incoming /\ m \in MessagesOf(broadcaster) /\ e \in Range(arrived)
      /\ (m \in MessagesOf(sent) => m \in displaced)
  BY <1>3, <1>4 DEF Events, MessagesOf
<1>8. IsFiniteSet(C)
  <2>1. IsFiniteSet(Receivers(e.from))
    BY IntakeAssumption, FS_Subset DEF Receivers
  <2> DEFINE f == [p \in Receivers(e.from) |-> Copy(p)]
  <2>2. f \in Surjection(Receivers(e.from), C)  BY DEF Surjection
  <2> HIDE DEF e, C, f
  <2> QED  BY <2>1, <2>2, FS_Surjection
<1>9. C \subseteq Copies /\ \A c \in C : c.message = m /\ c.to # e.from
  BY <1>7 DEF Receivers
<1> HIDE DEF e, C
<1>10. copies \in Seq(C) /\ Distinct(copies)  BY <1>8, SetToSeqDistinct
<1> HIDE DEF copies
<1>11. Range(copies) \subseteq C /\ copies \in Seq(Copies)
  <2>1. \A i \in DOMAIN copies : copies[i] \in C  BY <1>10
  <2>2. Range(copies) \subseteq C  BY <2>1 DEF Range
  <2>3. copies \in Seq(Copies)  BY <1>9, <1>10, QueueOf
  <2> QED  BY <2>2, <2>3
<1>12. \A c \in Range(sent) \cap Range(copies) : c.message \in displaced
  BY <1>7, <1>9, <1>11 DEF MessagesOf
<1> HIDE DEF Copies
<1>13. /\ sent' \in Seq(Copies) /\ Range(sent') = Range(sent) \cup Range(copies)
       /\ DistinctBut(sent', displaced')
  <2>1. sent' \in Seq(Copies) /\ Range(sent') = Range(sent) \cup Range(copies)
    BY <1>1, <1>2, <1>11, QueueConcat
  <2>2. DistinctBut(sent \o copies, displaced)
    BY <1>2, <1>10, <1>11, <1>12, ConcatDistinctBut
  <2> QED  BY <1>1, <2>1, <2>2
<1>14. /\ Busy' = Busy /\ InHand' = InHand /\ Pending' = Pending /\ Settling' = Settling
       /\ Queued' = Queued /\ Won' = Won
  BY <1>1 DEF Busy, InHand, Pending, Settling, Queued, Seeking, MessagesOf, Won, Storing
<1>15. IntakeTypeOK'
  BY <1>1, <1>4, <1>13 DEF IntakeInv, IntakeTypeOK, Copies
<1>16. CacheInv' /\ AnswerInv' /\ PlaceInv' /\ WinnerInv' /\ GoodInv' /\ VertexInv'
  <2>1. CacheInv' /\ AnswerInv' /\ PlaceInv'
    BY <1>1, <1>14 DEF IntakeInv, CacheInv, AnswerInv, PlaceInv
  <2>2. WinnerInv' /\ GoodInv' /\ VertexInv'
    BY <1>1, <1>14 DEF IntakeInv, WinnerInv, GoodInv, VertexInv, MessagesOf
  <2> QED  BY <2>1, <2>2
<1>17. SendInv'
  <2>1. /\ MessagesOf(sent') \subseteq MessagesOf(sent) \cup {m}
        /\ MessagesOf(broadcaster') \subseteq MessagesOf(broadcaster)
    BY <1>4, <1>9, <1>11, <1>13 DEF MessagesOf
  <2>2. m \notin displaced => m \notin MessagesOf(broadcaster')
    <3>1. ASSUME NEW i \in DOMAIN broadcaster', broadcaster'[i].message = m, m \notin displaced  PROVE FALSE
      <4> DEFINE k == i + 1
      <4>1. k \in DOMAIN broadcaster /\ broadcaster[k].message = m /\ k # 1  BY <1>5, <3>1
      <4> HIDE DEF k
      <4> QED  BY <1>3, <1>6, <3>1, <4>1
    <3> QED  BY <3>1 DEF MessagesOf, Range
  <2>3. \A i, j \in DOMAIN broadcaster' :
          broadcaster'[i].message = broadcaster'[j].message /\ broadcaster'[i].message \notin displaced => i = j
    <3> SUFFICES ASSUME NEW i \in DOMAIN broadcaster', NEW j \in DOMAIN broadcaster',
                        broadcaster'[i].message = broadcaster'[j].message,
                        broadcaster'[i].message \notin displaced
                 PROVE  i = j
      OBVIOUS
    <3> DEFINE k == i + 1
               l == j + 1
    <3>1. /\ k \in DOMAIN broadcaster /\ l \in DOMAIN broadcaster
          /\ broadcaster[k].message = broadcaster[l].message /\ broadcaster[k].message \notin displaced
      BY <1>5
    <3> HIDE DEF k, l
    <3>2. k = l  BY <1>3, <3>1
    <3> QED  BY <1>5, <3>2 DEF k, l
  <2>4. \A c \in Range(sent') : \E a \in Range(arrived) : a.message = c.message /\ a.from # c.to
    BY <1>3, <1>7, <1>9, <1>11, <1>13
  <2>5. \A w \in Busy :
          working[w].step \in {"store", "requested"} /\ working[w].event.message \notin displaced =>
            working[w].event.message \notin MessagesOf(broadcaster) \cup MessagesOf(sent)
    BY DEF IntakeInv, SendInv
  <2> QED
    BY <1>1, <1>3, <1>4, <1>7, <1>13, <1>14, <2>1, <2>2, <2>3, <2>4, <2>5 DEF SendInv
<1> QED  BY <1>15, <1>16, <1>17 DEF IntakeInv

\* Every step of the intake keeps its invariant.
LEMMA IntakeStep == ASSUME IntakeInv, [IntakeNext]_intakeVars  PROVE IntakeInv'
<1>1. CASE \E from \in {Nobody} \cup Neighbours, m \in Incoming : ReceiveMessage(from, m)
  BY <1>1, IntakeReceive
<1>2. CASE \E m \in Incoming : RequestMessage(m)  BY <1>2, IntakeRequest
<1>3. CASE HashMessage  BY <1>3, IntakeHash
<1>4. ASSUME NEW w \in Workers,
             \/ TakeEvent(w) \/ RejectMessage(w)
             \/ PullMessage(w) \/ FetchMessage(w) \/ InsertMessage(w) \/ StoreMessage(w)
             \/ SettleRequest(w) \/ NotifyMessage(w)
      PROVE  IntakeInv'
  BY <1>4, IntakeTake, IntakeReject, IntakePull, IntakeFetch, IntakeInsert, IntakeStore,
     IntakeSettle, IntakeNotify
<1>7. CASE \E m \in Incoming : EvictMessage(m)  BY <1>7, IntakeEvict
<1>5. CASE Broadcast  BY <1>5, IntakeBroadcast
<1>6. CASE UNCHANGED intakeVars
  <2>1. UNCHANGED <<cache, elem_order, hasher_queue, processor_queue, working, cached,
                    stored, displaced, broadcaster, arrived, sent, notified>>
    BY <1>6 DEF intakeVars
  <2>2. Busy' = Busy /\ InHand' = InHand /\ Pending' = Pending /\ Settling' = Settling
        /\ Queued' = Queued /\ Won' = Won
    BY <2>1 DEF Busy, InHand, Pending, Settling, Queued, Seeking, MessagesOf, Won, Storing
  <2>3. IntakeTypeOK' /\ CacheInv'  BY <2>1, <2>2 DEF IntakeInv, IntakeTypeOK, CacheInv
  <2>4. PlaceInv' /\ AnswerInv'
    BY <2>1, <2>2 DEF IntakeInv, PlaceInv, AnswerInv, MessagesOf
  <2>5. WinnerInv' /\ SendInv'
    BY <2>1, <2>2 DEF IntakeInv, WinnerInv, SendInv, MessagesOf
  <2>6. GoodInv'  BY <2>1, <2>2 DEF IntakeInv, GoodInv, MessagesOf
  <2>7. VertexInv'  BY <2>1, <2>2 DEF IntakeInv, VertexInv
  <2> QED  BY <2>3, <2>4, <2>5, <2>6, <2>7 DEF IntakeInv
<1> QED  BY <1>1, <1>2, <1>3, <1>4, <1>5, <1>6, <1>7 DEF IntakeNext

\* What the invariant says of the promises of the intake.
LEMMA IntakePromises == ASSUME IntakeInv  PROVE SentOnOnce /\ IntakeComplete
<1>1. SentOnOnce
  <2>1. \A i \in DOMAIN sent : sent[i] \in Range(sent)  BY DEF Range
  <2>2. ASSUME NEW i \in DOMAIN sent
        PROVE  \E k \in DOMAIN arrived :
                 arrived[k].message = sent[i].message /\ arrived[k].from # sent[i].to
    <3>1. PICK e \in Range(arrived) : e.message = sent[i].message /\ e.from # sent[i].to
      BY <2>1 DEF IntakeInv, SendInv
    <3>2. PICK k \in DOMAIN arrived : arrived[k] = e  BY DEF Range
    <3> QED  BY <3>1, <3>2
  <2> QED  BY <2>2 DEF SentOnOnce, IntakeInv, SendInv, DistinctBut
<1>2. IntakeQuiet => Pending = {} /\ Queued = {} /\ MessagesOf(hasher_queue) = {}
  <2> SUFFICES ASSUME IntakeQuiet  PROVE Pending = {} /\ Queued = {} /\ MessagesOf(hasher_queue) = {}
    OBVIOUS
  <2>1. hasher_queue = <<>> /\ processor_queue = <<>> /\ Busy = {}  BY DEF IntakeQuiet, Busy
  <2>2. Range(<<>>) = {}  BY QueueEmpty
  <2> QED  BY <2>1, <2>2 DEF Pending, InHand, Queued, Seeking, MessagesOf
<1>3. NoValidMessageLost
  <2>1. IntakeQuiet => stored = {m \in MessagesOf(arrived) : IsGood(m)}
    <3>1. IntakeQuiet => Won = stored  BY DEF IntakeQuiet, Won, Storing, Busy
    <3> QED  BY <1>2, <3>1 DEF IntakeInv, GoodInv
  <2>2. {m \in MessagesOf(arrived) : IsGood(m)}
          = {arrived[k].message : k \in {n \in DOMAIN arrived : Kind[arrived[n].message] = "good"}}
    BY DEF MessagesOf, Range, IsGood
  <2> QED  BY <2>1, <2>2 DEF NoValidMessageLost, IntakeInv, CacheInv
<1>4. AnsweredOnce
  <2>1. DOMAIN notified = 1 .. MaxEvents  BY DEF IntakeInv, IntakeTypeOK
  <2>2. \A n \in 1 .. MaxEvents : notified[n] = <<>> \/ Len(notified[n]) = 1
    BY DEF IntakeInv, AnswerInv
  <2>3. \A n \in DOMAIN notified : Len(notified[n]) <= 1
    <3>1. Len(<<>>) = 0  OBVIOUS
    <3>2. \A n \in 1 .. MaxEvents : Len(notified[n]) = 0 \/ Len(notified[n]) = 1  BY <2>2, <3>1
    <3>3. 0 <= 1 /\ 1 <= 1  OBVIOUS
    <3> QED  BY <2>1, <3>2, <3>3, Zenon
  <2>4. IntakeQuiet => \A n \in DOMAIN arrived : arrived[n].from = Nobody => Len(notified[n]) = 1
    BY <1>2 DEF IntakeInv, AnswerInv
  <2> QED  BY <2>3, <2>4 DEF AnsweredOnce, IntakeInv, WinnerInv
<1> QED  BY <1>1, <1>3, <1>4 DEF IntakeComplete

(* However small the cache of the hasher, and however many tasks work on   *)
(* copies of a message, it is sent on at most once to each peer, unless    *)
(* its vertex was evicted while a task was inserting it, and only to a     *)
(* peer that is not its only source (Tangle::insert, ProcessorWorker).     *)
THEOREM MessagesSentOnOnce == IntakeSpec => []SentOnOnce
<1>1. IntakeInit => IntakeInv  BY IntakeInitially
<1>2. IntakeInv /\ [IntakeNext]_intakeVars => IntakeInv'  BY IntakeStep
<1>3. IntakeInv => SentOnOnce  BY IntakePromises
<1> QED  BY <1>1, <1>2, <1>3, PTL DEF IntakeSpec

(* No valid message is lost between the hasher and the storage, the cache  *)
(* agrees with the order of its eviction, and each submission is answered  *)
(* once, with "ok" for one submission of a message at most if its vertex   *)
(* was not evicted on the way.                                             *)
THEOREM IntakeLosesNothing == IntakeSpec => []IntakeComplete
<1>1. IntakeInit => IntakeInv  BY IntakeInitially
<1>2. IntakeInv /\ [IntakeNext]_intakeVars => IntakeInv'  BY IntakeStep
<1>3. IntakeInv => IntakeComplete  BY IntakePromises
<1> QED  BY <1>1, <1>2, <1>3, PTL DEF IntakeSpec

-----------------------------------------------------------------------------
(***************************************************************************)
(* Past cones.                                                             *)
(***************************************************************************)
\* The parents of a message are messages or solid entry points.
LEMMA ParentsType == ASSUME NEW m \in Messages  PROVE ParentsOf(m) \subseteq AllIds
<1>1. Approves[m] \in Seq(AllIds)  BY TipAssumption
<1> QED  BY <1>1 DEF ParentsOf, Range

\* A message is in its own past cone.
LEMMA ConeSelf ==
  ASSUME NEW m \in Messages  PROVE m \in PastCone[m] /\ PastCone[m] \subseteq AllIds
BY DEF PastCone, AllIds

\* With a message, its parents are in a past cone.
LEMMA ConeParents ==
  ASSUME NEW m \in Messages, NEW x \in PastCone[m], x \in Messages
  PROVE  ParentsOf(x) \subseteq PastCone[m]
<1> SUFFICES ASSUME NEW p \in ParentsOf(x)  PROVE p \in PastCone[m]
  OBVIOUS
<1>1. p \in AllIds  BY ParentsType
<1>2. ASSUME NEW S \in SUBSET AllIds, m \in S, ConeClosed(S)  PROVE p \in S
  <2>1. x \in S  BY <1>2 DEF PastCone, ConeClosed
  <2> QED  BY <2>1, <1>2 DEF ConeClosed
<1> QED  BY <1>1, <1>2 DEF PastCone, ConeClosed

\* A past cone is within every closed set that contains its message.
LEMMA ConeLeast ==
  ASSUME NEW m \in Messages, NEW S \in SUBSET AllIds, m \in S, ConeClosed(S)
  PROVE  PastCone[m] \subseteq S
BY DEF PastCone, ConeClosed

\* A message that is in a past cone has its own past cone there.
LEMMA ConeWithin ==
  ASSUME NEW m \in Messages, NEW x \in PastCone[m], x \in Messages
  PROVE  PastCone[x] \subseteq PastCone[m]
<1>1. PastCone[m] \in SUBSET AllIds  BY ConeSelf
<1>2. ConeClosed(PastCone[m])  BY ConeParents DEF ConeClosed
<1> QED  BY <1>1, <1>2, ConeLeast

\* The past cone of a parent is in the one of its child.
LEMMA ConeOfParent ==
  ASSUME NEW m \in Messages, NEW p \in ParentsOf(m)
  PROVE  p \in PastCone[m] /\ (p \in Messages => PastCone[p] \subseteq PastCone[m])
BY ConeSelf, ConeParents, ConeWithin

-----------------------------------------------------------------------------
(***************************************************************************)
(* The inductive invariant.                                                *)
(***************************************************************************)
Milestones == DOMAIN MilestoneIndexOf
Values == [index : Nat, id : AllIds]
Confirmed == {x \in Messages : milestone_index[x] # None}

TipTypeOK ==
  /\ contained \subseteq Messages /\ solid \subseteq contained
  /\ is_milestone \subseteq Milestones \cap contained
  /\ milestone_index \in [Messages -> {None} \cup Nat]
  /\ omrsi \in [Messages -> {None} \cup Values]
  /\ ymrsi \in [Messages -> {None} \cup Values]
  /\ smi \in Nat
  /\ events \in Seq(Milestones)
  /\ updater \in {"idle", "past", "future"}
  /\ updater # "idle" => event \in Milestones
  /\ stack \subseteq AllIds /\ updated \subseteq Messages

\* What the propagator reads for a message whose parents are all solid.
Propagations ==
  [message : Messages, left : Seq(AllIds), omrsis : SUBSET Values, ymrsis : SUBSET Values]

PropagatingInv ==
  propagating # None =>
    /\ propagating \in Propagations
    /\ propagating.message \in contained \ solid
    /\ ParentsOf(propagating.message) \subseteq solid \cup SolidEntryPoints
    /\ Range(propagating.left) \subseteq ParentsOf(propagating.message)

\* The visit of the future walk to a message and the children it has to read.
Visits ==
  [message : Messages, omrsi : Values, ymrsi : Values, left : SUBSET Messages,
   child : Messages, due : SUBSET {"omrsi", "ymrsi"}]

VisitingInv ==
  visiting # None =>
    /\ visiting \in Visits
    /\ updater = "future"
    /\ \A c \in visiting.left : visiting.message \in ParentsOf(c)
    /\ visiting.due # {} => visiting.child \in solid \cup is_milestone

\* Solid milestones queue up for the index updater in the order of their index.
EventsInv ==
  /\ \A i \in DOMAIN events : /\ events[i] \in is_milestone \cap solid
                              /\ MilestoneIndexOf[events[i]] <= smi
  /\ \A i, j \in DOMAIN events :
        i < j => MilestoneIndexOf[events[i]] < MilestoneIndexOf[events[j]]

\* A solid message has solid parents and both xMRSI values.
SolidInv ==
  /\ \A m \in solid : ParentsOf(m) \subseteq solid \cup SolidEntryPoints
  /\ \A m \in Messages : omrsi[m] # None => m \in solid \cup is_milestone
  /\ \A m \in Messages : ymrsi[m] # None => m \in solid \cup is_milestone
  /\ \A m \in solid \cup is_milestone : omrsi[m] # None /\ ymrsi[m] # None

\* No milestone refers to the message earlier than k.
FirstToConfirm(k, m) ==
  /\ m \in PastCone[k]
  /\ \A l \in Milestones : m \in PastCone[l] => MilestoneIndexOf[k] <= MilestoneIndexOf[l]

\* The updater is done with the past cone of the milestone.
Done(k) ==
  MilestoneIndexOf[k] <= smi /\ k \notin Range(events) /\ (updater # "past" \/ k # event)

ConfirmedInv ==
  /\ \A m \in is_milestone : milestone_index[m] = MilestoneIndexOf[m]
  /\ \A m \in Confirmed :
       \E k \in Milestones : /\ milestone_index[m] = MilestoneIndexOf[k]
                             /\ FirstToConfirm(k, m)
                             /\ \/ m \in is_milestone
                                \/ MilestoneIndexOf[k] <= smi /\ k \notin Range(events)
  /\ \A k \in Milestones : Done(k) => PastCone[k] \cap Messages \subseteq Confirmed
  /\ Confirmed \subseteq solid \cup is_milestone

\* The walk through the past cone of a milestone.
WalkInv ==
  updater = "past" =>
    /\ event \in is_milestone \cap solid
    /\ MilestoneIndexOf[event] <= smi
    /\ \A i \in DOMAIN events : MilestoneIndexOf[event] < MilestoneIndexOf[events[i]]
    /\ stack \subseteq PastCone[event]
    /\ updated \subseteq Confirmed
    /\ \A x \in updated \cup {event} :
         ParentsOf(x) \subseteq stack \cup SolidEntryPoints \cup Confirmed
    /\ \A x \in Messages : milestone_index[x] = MilestoneIndexOf[event] =>
         x \in updated \cup {event}

\* The value v of the message m names a root in its past cone; mi are the
\* indexes of the confirmed messages.
Rooted(mi, m, v) ==
  /\ v.id \in PastCone[m]
  /\ v.id \in SolidEntryPoints => v.index = StartIndex
  /\ v.id \notin SolidEntryPoints => mi[v.id] # None /\ v.index = mi[v.id]

\* As long as no message becomes a milestone during its visit, a confirmed
\* message is its own root, what the propagator has read are roots, and the
\* values that the future walk is about to write are there already.
OwnRoots ==
  \A m \in Confirmed : /\ omrsi[m] = IndexId(milestone_index[m], m)
                       /\ ymrsi[m] = IndexId(milestone_index[m], m)

RootsInv ==
  \A m \in Messages :
    /\ omrsi[m] # None => Rooted(milestone_index, m, omrsi[m])
    /\ ymrsi[m] # None => Rooted(milestone_index, m, ymrsi[m])
    /\ omrsi[m] # None /\ ymrsi[m] # None => omrsi[m].index <= ymrsi[m].index

ReadInv ==
  propagating # None =>
    /\ \A v \in propagating.omrsis \cup propagating.ymrsis :
         Rooted(milestone_index, propagating.message, v)
    /\ propagating.omrsis # {} =>
         \E v \in propagating.omrsis, w \in propagating.ymrsis : v.index <= w.index

DueInv ==
  visiting # None =>
    /\ visiting.message \in Confirmed =>
         /\ visiting.omrsi.index = milestone_index[visiting.message]
         /\ visiting.ymrsi.index = milestone_index[visiting.message]
    /\ visiting.due # {} => visiting.child \notin Confirmed
    /\ "omrsi" \in visiting.due =>
         omrsi[visiting.child] = IndexId(visiting.omrsi.index, visiting.message)
    /\ "ymrsi" \in visiting.due =>
         ymrsi[visiting.child] = IndexId(visiting.ymrsi.index, visiting.message)

IndexInv ==
  /\ TipTypeOK /\ PropagatingInv /\ VisitingInv /\ EventsInv /\ SolidInv /\ ConfirmedInv /\ WalkInv
  /\ ~raced => OwnRoots /\ RootsInv /\ ReadInv /\ DueInv

-----------------------------------------------------------------------------
(***************************************************************************)
(* Which actions change what.                                              *)
(***************************************************************************)
TipStep == TipNext \/ UNCHANGED tipVars

\* The metadata.
LEMMA MetadataSteps ==
  ASSUME TipStep
  PROVE  \/ \E m \in Milestones : AddMilestone(m)
         \/ FinishPropagation
         \/ \E m \in AllIds : UpdatePastCone(m)
         \/ UpdateChildOmrsi
         \/ UpdateChildYmrsi
         \/ UNCHANGED <<solid, is_milestone, milestone_index, omrsi, ymrsi>>
<1> USE DEF metadataVars
<1>1. ASSUME NEW m \in Messages, ArriveMessage(m) \/ StartPropagation(m) \/ VisitFuture(m) \/ ReadChild(m)
      PROVE  UNCHANGED <<solid, is_milestone, milestone_index, omrsi, ymrsi>>
  BY <1>1 DEF ArriveMessage, StartPropagation, VisitFuture, ReadChild
<1>2. ASSUME NEW m \in Milestones, SolidifyMilestone(m)
      PROVE  UNCHANGED <<solid, is_milestone, milestone_index, omrsi, ymrsi>>
  BY <1>2 DEF SolidifyMilestone
<1>3. ASSUME NEW p \in AllIds, Age(p)
      PROVE  UNCHANGED <<solid, is_milestone, milestone_index, omrsi, ymrsi>>
  BY <1>3 DEF Age
<1>4. ASSUME \/ ReadParent \/ StartUpdate \/ EndPastCone \/ EndVisit \/ UpdateTipScores
             \/ InsertTip \/ ReduceTips \/ UNCHANGED tipVars
      PROVE  UNCHANGED <<solid, is_milestone, milestone_index, omrsi, ymrsi>>
  BY <1>4 DEF ReadParent, StartUpdate, EndPastCone, EndVisit, UpdateTipScores, InsertTip, ReduceTips,
              tipVars
<1> QED  BY <1>1, <1>2, <1>3, <1>4 DEF TipStep, TipNext, Milestones

\* The index of the latest solid milestone and the queue of the index updater.
LEMMA EventsSteps ==
  ASSUME TipStep
  PROVE  \/ \E m \in Milestones : SolidifyMilestone(m)
         \/ StartUpdate
         \/ UNCHANGED <<smi, events>>
<1> USE DEF metadataVars
<1>1. ASSUME NEW m \in Messages, ArriveMessage(m) \/ StartPropagation(m) \/ VisitFuture(m) \/ ReadChild(m)
      PROVE  UNCHANGED <<smi, events>>
  BY <1>1 DEF ArriveMessage, StartPropagation, VisitFuture, ReadChild
<1>2. ASSUME NEW m \in Milestones, AddMilestone(m)  PROVE  UNCHANGED <<smi, events>>
  BY <1>2 DEF AddMilestone
<1>3. ASSUME NEW p \in AllIds, Age(p) \/ UpdatePastCone(p)  PROVE  UNCHANGED <<smi, events>>
  BY <1>3 DEF Age, UpdatePastCone
<1>4. ASSUME \/ ReadParent \/ FinishPropagation \/ EndPastCone \/ EndVisit \/ UpdateTipScores
             \/ UpdateChildOmrsi \/ UpdateChildYmrsi
             \/ InsertTip \/ ReduceTips \/ UNCHANGED tipVars
      PROVE  UNCHANGED <<smi, events>>
  BY <1>4 DEF ReadParent, FinishPropagation, EndPastCone, EndVisit, UpdateTipScores, InsertTip,
              ReduceTips, UpdateChildOmrsi, UpdateChildYmrsi, tipVars
<1> QED  BY <1>1, <1>2, <1>3, <1>4 DEF TipStep, TipNext, Milestones

\* The message being propagated.
LEMMA PropagatingSteps ==
  ASSUME TipStep
  PROVE  \/ \E m \in Messages : StartPropagation(m)
         \/ ReadParent
         \/ FinishPropagation
         \/ UNCHANGED propagating
<1>1. ASSUME NEW m \in Messages, ArriveMessage(m) \/ VisitFuture(m) \/ ReadChild(m)
      PROVE  UNCHANGED propagating
  BY <1>1 DEF ArriveMessage, VisitFuture, ReadChild
<1>2. ASSUME NEW m \in Milestones, AddMilestone(m) \/ SolidifyMilestone(m)  PROVE  UNCHANGED propagating
  BY <1>2 DEF AddMilestone, SolidifyMilestone
<1>3. ASSUME NEW p \in AllIds, Age(p) \/ UpdatePastCone(p)  PROVE  UNCHANGED propagating
  BY <1>3 DEF Age, UpdatePastCone
<1>4. ASSUME \/ StartUpdate \/ EndPastCone \/ EndVisit \/ UpdateTipScores
             \/ UpdateChildOmrsi \/ UpdateChildYmrsi
             \/ InsertTip \/ ReduceTips \/ UNCHANGED tipVars
      PROVE  UNCHANGED propagating
  BY <1>4 DEF StartUpdate, EndPastCone, EndVisit, UpdateTipScores, InsertTip,
              ReduceTips, UpdateChildOmrsi, UpdateChildYmrsi, tipVars
<1> QED  BY <1>1, <1>2, <1>3, <1>4 DEF TipStep, TipNext, Milestones

\* The phase of the index updater and what it found in a past cone.
LEMMA UpdaterSteps ==
  ASSUME TipStep
  PROVE  \/ StartUpdate
         \/ \E m \in AllIds : UpdatePastCone(m)
         \/ EndPastCone
         \/ UpdateTipScores
         \/ /\ UNCHANGED <<updater, event, updated>>
            /\ \/ UNCHANGED stack
               \/ \E m \in Messages : VisitFuture(m) \/ ReadChild(m)
<1> USE DEF updaterVars
<1>1. ASSUME NEW m \in Messages, ArriveMessage(m) \/ StartPropagation(m)
      PROVE  UNCHANGED <<updater, event, updated, stack>>
  BY <1>1 DEF ArriveMessage, StartPropagation
<1>2. ASSUME NEW m \in Milestones, AddMilestone(m) \/ SolidifyMilestone(m)
      PROVE  UNCHANGED <<updater, event, updated, stack>>
  BY <1>2 DEF AddMilestone, SolidifyMilestone
<1>3. ASSUME NEW p \in AllIds, Age(p)  PROVE  UNCHANGED <<updater, event, updated, stack>>
  BY <1>3 DEF Age
<1>4. ASSUME \/ ReadParent \/ FinishPropagation \/ EndVisit \/ UpdateChildOmrsi \/ UpdateChildYmrsi
             \/ InsertTip \/ ReduceTips \/ UNCHANGED tipVars
      PROVE  UNCHANGED <<updater, event, updated, stack>>
  BY <1>4 DEF ReadParent, FinishPropagation, EndVisit, InsertTip, ReduceTips, UpdateChildOmrsi,
              UpdateChildYmrsi, tipVars
<1>5. ASSUME NEW m \in Messages, VisitFuture(m) \/ ReadChild(m)
      PROVE  UNCHANGED <<updater, event, updated>>
  BY <1>5 DEF VisitFuture, ReadChild
<1> QED  BY <1>1, <1>2, <1>3, <1>4, <1>5 DEF TipStep, TipNext, Milestones

\* The visit of the future walk.
LEMMA VisitingSteps ==
  ASSUME TipStep
  PROVE  \/ \E m \in Messages : VisitFuture(m) \/ ReadChild(m)
         \/ UpdateChildOmrsi
         \/ UpdateChildYmrsi
         \/ EndVisit
         \/ UNCHANGED visiting
<1> USE DEF updaterVars
<1>1. ASSUME NEW m \in Messages, ArriveMessage(m) \/ StartPropagation(m)  PROVE UNCHANGED visiting
  BY <1>1 DEF ArriveMessage, StartPropagation
<1>2. ASSUME NEW m \in Milestones, AddMilestone(m) \/ SolidifyMilestone(m)  PROVE UNCHANGED visiting
  BY <1>2 DEF AddMilestone, SolidifyMilestone
<1>3. ASSUME NEW p \in AllIds, Age(p) \/ UpdatePastCone(p)  PROVE UNCHANGED visiting
  BY <1>3 DEF Age, UpdatePastCone
<1>4. ASSUME \/ ReadParent \/ FinishPropagation \/ StartUpdate \/ EndPastCone \/ UpdateTipScores
             \/ InsertTip \/ ReduceTips \/ UNCHANGED tipVars
      PROVE  UNCHANGED visiting
  BY <1>4 DEF ReadParent, FinishPropagation, StartUpdate, EndPastCone, UpdateTipScores, InsertTip,
              ReduceTips, tipVars
<1> QED  BY <1>1, <1>2, <1>3, <1>4 DEF TipStep, TipNext, Milestones

\* The messages in the Tangle, and the race with the future walk.
LEMMA ArrivalSteps ==
  ASSUME TipStep, contained \subseteq Messages
  PROVE  contained \subseteq contained' /\ contained' \subseteq Messages
<1> USE DEF metadataVars
<1>1. ASSUME NEW m \in Messages, ArriveMessage(m) \/ StartPropagation(m) \/ VisitFuture(m) \/ ReadChild(m)
      PROVE  contained' \in {contained, contained \cup {m}}
  BY <1>1 DEF ArriveMessage, StartPropagation, VisitFuture, ReadChild
<1>2. ASSUME NEW m \in Milestones, AddMilestone(m) \/ SolidifyMilestone(m)  PROVE UNCHANGED contained
  BY <1>2 DEF AddMilestone, SolidifyMilestone
<1>3. ASSUME NEW p \in AllIds, Age(p) \/ UpdatePastCone(p)  PROVE UNCHANGED contained
  BY <1>3 DEF Age, UpdatePastCone
<1>4. ASSUME \/ ReadParent \/ FinishPropagation \/ StartUpdate \/ EndPastCone \/ UpdateTipScores
             \/ EndVisit \/ UpdateChildOmrsi \/ UpdateChildYmrsi
             \/ InsertTip \/ ReduceTips \/ UNCHANGED tipVars
      PROVE  UNCHANGED contained
  BY <1>4 DEF ReadParent, FinishPropagation, StartUpdate, EndPastCone, UpdateTipScores, InsertTip,
              ReduceTips, EndVisit, UpdateChildOmrsi, UpdateChildYmrsi, tipVars
<1> QED  BY <1>1, <1>2, <1>3, <1>4 DEF TipStep, TipNext, Milestones

\* A race is never forgotten.
LEMMA RacedSteps ==
  ASSUME TipStep, ~raced'
  PROVE  ~raced
<1> USE DEF updaterVars
<1>1. ASSUME NEW m \in Messages, ArriveMessage(m) \/ StartPropagation(m) \/ VisitFuture(m) \/ ReadChild(m)
      PROVE  UNCHANGED raced
  BY <1>1 DEF ArriveMessage, StartPropagation, VisitFuture, ReadChild
<1>2. ASSUME NEW m \in Milestones, AddMilestone(m) \/ SolidifyMilestone(m)  PROVE raced' = (raced \/ InVisit(m)) \/ UNCHANGED raced
  BY <1>2 DEF AddMilestone, SolidifyMilestone
<1>3. ASSUME NEW p \in AllIds, Age(p) \/ UpdatePastCone(p)  PROVE UNCHANGED raced
  BY <1>3 DEF Age, UpdatePastCone
<1>4. ASSUME \/ ReadParent \/ FinishPropagation \/ StartUpdate \/ EndPastCone \/ UpdateTipScores
             \/ EndVisit \/ UpdateChildOmrsi \/ UpdateChildYmrsi
             \/ InsertTip \/ ReduceTips \/ UNCHANGED tipVars
      PROVE  UNCHANGED raced
  BY <1>4 DEF ReadParent, FinishPropagation, StartUpdate, EndPastCone, UpdateTipScores, InsertTip,
              ReduceTips, EndVisit, UpdateChildOmrsi, UpdateChildYmrsi, tipVars
<1> QED  BY <1>1, <1>2, <1>3, <1>4 DEF TipStep, TipNext, Milestones

-----------------------------------------------------------------------------
(***************************************************************************)
(* The steps keep the invariant, one conjunct after the other.             *)
(***************************************************************************)
\* What the constants and the types say of a milestone.
LEMMA MilestoneFacts ==
  /\ Milestones \subseteq Messages /\ Messages \cap SolidEntryPoints = {}
  /\ \A k \in Milestones : MilestoneIndexOf[k] \in Nat /\ MilestoneIndexOf[k] > StartIndex
  /\ \A k, l \in Milestones : MilestoneIndexOf[k] = MilestoneIndexOf[l] => k = l
  /\ \A k, l \in Milestones : l \in PastCone[k] => MilestoneIndexOf[l] <= MilestoneIndexOf[k]
  /\ None \notin Nat /\ None \notin Values /\ StartIndex \in Nat
BY TipAssumption DEF Milestones, Values

\* Values are what IndexId makes of an index and an identifier.
LEMMA ValueType ==
  ASSUME NEW i \in Nat, NEW x \in AllIds
  PROVE  /\ IndexId(i, x) \in Values /\ IndexId(i, x) # None
         /\ IndexId(i, x).index = i /\ IndexId(i, x).id = x
BY MilestoneFacts DEF IndexId, Values

\* The xMRSI values that the propagator reads of a solid parent.
LEMMA ParentValues ==
  ASSUME TipTypeOK, SolidInv, NEW p \in solid \cup SolidEntryPoints
  PROVE  /\ OmrsiOf(p) \in Values /\ YmrsiOf(p) \in Values
         /\ p \in SolidEntryPoints => /\ OmrsiOf(p) = IndexId(StartIndex, p)
                                      /\ YmrsiOf(p) = IndexId(StartIndex, p)
         /\ p \notin SolidEntryPoints => /\ OmrsiOf(p) = omrsi[p] /\ YmrsiOf(p) = ymrsi[p]
                                         /\ omrsi[p] # None /\ ymrsi[p] # None
<1>1. CASE p \in SolidEntryPoints
  BY <1>1, ValueType, MilestoneFacts DEF OmrsiOf, YmrsiOf, AllIds
<1>2. CASE p \notin SolidEntryPoints
  <2>1. p \in solid /\ p \in Messages  BY <1>2 DEF TipTypeOK
  <2> QED  BY <1>2, <2>1 DEF OmrsiOf, YmrsiOf, Inherited, SolidInv, TipTypeOK
<1> QED  BY <1>1, <1>2

\* The propagation of a message keeps its type, and what is left of the parents.
LEMMA ReadParentFacts ==
  ASSUME TipTypeOK, SolidInv, PropagatingInv, ReadParent, NEW p, p = Head(propagating.left)
  PROVE  /\ p \in ParentsOf(propagating.message) /\ p \in solid \cup SolidEntryPoints
         /\ propagating' \in Propagations
         /\ propagating'.message = propagating.message
         /\ propagating'.left = Tail(propagating.left)
         /\ propagating'.omrsis = propagating.omrsis \cup {OmrsiOf(p)}
         /\ propagating'.ymrsis = propagating.ymrsis \cup {YmrsiOf(p)}
         /\ Range(propagating'.left) \subseteq Range(propagating.left)
<1> DEFINE q == propagating
<1>1. q \in Propagations /\ q.left \in Seq(AllIds) /\ q.left # <<>>
  BY DEF PropagatingInv, ReadParent, Propagations
<1>2. p \in Range(q.left)
  BY <1>1 DEF Range
<1>3. Tail(q.left) \in Seq(AllIds) /\ Range(Tail(q.left)) \subseteq Range(q.left)
  BY <1>1 DEF Range
<1>4. p \in ParentsOf(q.message) /\ p \in solid \cup SolidEntryPoints
  BY <1>2 DEF PropagatingInv, ReadParent
<1>5. OmrsiOf(p) \in Values /\ YmrsiOf(p) \in Values  BY <1>4, ParentValues
<1>6. q' = [q EXCEPT !.left = Tail(@), !.omrsis = @ \cup {OmrsiOf(p)}, !.ymrsis = @ \cup {YmrsiOf(p)}]
  BY DEF ReadParent
<1>7. q' = [message |-> q.message, left |-> Tail(q.left), omrsis |-> q.omrsis \cup {OmrsiOf(p)},
            ymrsis |-> q.ymrsis \cup {YmrsiOf(p)}]
  BY <1>1, <1>6 DEF Propagations
<1> QED  BY <1>1, <1>3, <1>4, <1>5, <1>7 DEF Propagations

\* What becomes of the values of a message at the end of its propagation.
LEMMA FinishFacts ==
  ASSUME TipTypeOK, PropagatingInv, FinishPropagation, NEW m, m = propagating.message
  PROVE  /\ m \in contained \ solid /\ solid' = solid \cup {m} /\ propagating' = None
         /\ UNCHANGED <<contained, is_milestone, milestone_index, smi, events, updater, event,
                        stack, updated, visiting, raced>>
         /\ \/ m \in is_milestone /\ UNCHANGED <<omrsi, ymrsi>>
            \/ /\ m \notin is_milestone
               /\ \E o \in Oldest(propagating.omrsis), y \in Youngest(propagating.ymrsis) :
                    /\ o \in Values /\ y \in Values
                    /\ omrsi' = [omrsi EXCEPT ![m] = o]
                    /\ ymrsi' = [ymrsi EXCEPT ![m] = y]
<1>1. propagating.omrsis \subseteq Values /\ propagating.ymrsis \subseteq Values
  BY DEF PropagatingInv, FinishPropagation, Propagations
<1>2. Oldest(propagating.omrsis) \subseteq Values /\ Youngest(propagating.ymrsis) \subseteq Values
  BY <1>1 DEF Oldest, Youngest
<1>3. m \in contained \ solid  BY DEF PropagatingInv, FinishPropagation
<1>4. /\ solid' = solid \cup {m} /\ propagating' = None
      /\ UNCHANGED <<contained, is_milestone, milestone_index, smi, events, updater, event,
                     stack, updated, visiting, raced>>
  BY DEF FinishPropagation, updaterVars
<1>5. IF m \in is_milestone
      THEN UNCHANGED <<omrsi, ymrsi>>
      ELSE \E o \in Oldest(propagating.omrsis), y \in Youngest(propagating.ymrsis) :
             omrsi' = [omrsi EXCEPT ![m] = o] /\ ymrsi' = [ymrsi EXCEPT ![m] = y]
  BY DEF FinishPropagation
<1> QED  BY <1>2, <1>3, <1>4, <1>5

\* The walk is in the past cone of a solid milestone: it meets solid messages.
LEMMA WalkIsSolid ==
  ASSUME TipTypeOK, SolidInv, WalkInv, updater = "past"
  PROVE  PastCone[event] \subseteq solid \cup SolidEntryPoints
<1>1. event \in solid /\ event \in Messages  BY DEF WalkInv, TipTypeOK
<1>2. solid \cup SolidEntryPoints \in SUBSET AllIds  BY DEF TipTypeOK, AllIds
<1>3. ASSUME NEW x \in (solid \cup SolidEntryPoints) \cap Messages
      PROVE  ParentsOf(x) \subseteq solid \cup SolidEntryPoints
  BY MilestoneFacts DEF SolidInv
<1>4. ConeClosed(solid \cup SolidEntryPoints)  BY <1>3 DEF ConeClosed
<1> QED  BY <1>1, <1>2, <1>4, ConeLeast

\* A message that the walk confirms.
LEMMA UpdateFacts ==
  ASSUME TipTypeOK, SolidInv, WalkInv, NEW m \in AllIds, UpdatePastCone(m)
  PROVE  /\ updater = "past" /\ event \in Milestones /\ m \in stack
         /\ UNCHANGED <<contained, solid, is_milestone, smi, propagating, events, updater, event,
                        visiting, raced>>
         /\ \/ /\ SkippedInPast(m) /\ stack' = stack \ {m}
               /\ UNCHANGED <<milestone_index, omrsi, ymrsi, updated>>
            \/ /\ ~SkippedInPast(m) /\ m \in solid /\ m \in Messages \ Confirmed
               /\ milestone_index' = [milestone_index EXCEPT ![m] = MilestoneIndexOf[event]]
               /\ omrsi' = [omrsi EXCEPT ![m] = IndexId(MilestoneIndexOf[event], m)]
               /\ ymrsi' = [ymrsi EXCEPT ![m] = IndexId(MilestoneIndexOf[event], m)]
               /\ stack' = (stack \ {m}) \cup ParentsOf(m)
               /\ updated' = updated \cup {m}
<1>1. updater = "past" /\ m \in stack /\ event \in Milestones  BY DEF UpdatePastCone, TipTypeOK
<1>2. UNCHANGED <<contained, solid, is_milestone, smi, propagating, events, updater, event,
                  visiting, raced>>
  BY DEF UpdatePastCone
<1>3. m \in solid \cup SolidEntryPoints  BY <1>1, WalkIsSolid DEF WalkInv
<1>4. CASE SkippedInPast(m)  BY <1>1, <1>2, <1>4 DEF UpdatePastCone
<1>5. CASE ~SkippedInPast(m)
  <2>1. m \in solid /\ m \in Messages \ Confirmed
    BY <1>3, <1>5 DEF SkippedInPast, Confirmed, TipTypeOK
  <2> QED  BY <1>1, <1>2, <1>5, <2>1 DEF UpdatePastCone
<1> QED  BY <1>4, <1>5

\* The types.
LEMMA TypeStep ==
  ASSUME IndexInv, TipStep  PROVE TipTypeOK'
<1> USE DEF IndexInv
<1>1. contained \subseteq contained' /\ contained' \subseteq Messages
  BY ArrivalSteps DEF TipTypeOK
<1>2. ASSUME NEW m \in Milestones, AddMilestone(m)
      PROVE  /\ solid' \subseteq contained' /\ is_milestone' \subseteq Milestones \cap contained'
             /\ milestone_index' \in [Messages -> {None} \cup Nat]
             /\ omrsi' \in [Messages -> {None} \cup Values]
             /\ ymrsi' \in [Messages -> {None} \cup Values]
  <2>1. MilestoneIndexOf[m] \in Nat /\ m \in AllIds /\ m \in Messages  BY MilestoneFacts DEF AllIds
  <2>2. IndexId(MilestoneIndexOf[m], m) \in Values  BY <2>1, ValueType
  <2> QED  BY <1>1, <1>2, <2>1, <2>2 DEF AddMilestone, TipTypeOK
<1>3. ASSUME FinishPropagation
      PROVE  /\ solid' \subseteq contained' /\ is_milestone' \subseteq Milestones \cap contained'
             /\ milestone_index' \in [Messages -> {None} \cup Nat]
             /\ omrsi' \in [Messages -> {None} \cup Values]
             /\ ymrsi' \in [Messages -> {None} \cup Values]
  <2> DEFINE m == propagating.message
  <2>1. /\ m \in contained \ solid /\ solid' = solid \cup {m}
        /\ UNCHANGED <<contained, is_milestone, milestone_index>>
        /\ \/ UNCHANGED <<omrsi, ymrsi>>
           \/ \E o \in Values, y \in Values :
                omrsi' = [omrsi EXCEPT ![m] = o] /\ ymrsi' = [ymrsi EXCEPT ![m] = y]
    BY <1>3, FinishFacts
  <2> HIDE DEF m
  <2> QED  BY <2>1 DEF TipTypeOK
<1>4. ASSUME NEW m \in AllIds, UpdatePastCone(m)
      PROVE  /\ solid' \subseteq contained' /\ is_milestone' \subseteq Milestones \cap contained'
             /\ milestone_index' \in [Messages -> {None} \cup Nat]
             /\ omrsi' \in [Messages -> {None} \cup Values]
             /\ ymrsi' \in [Messages -> {None} \cup Values]
  <2>1. event \in Milestones  BY <1>4, UpdateFacts
  <2>2. MilestoneIndexOf[event] \in Nat /\ IndexId(MilestoneIndexOf[event], m) \in Values
    BY <2>1, MilestoneFacts, ValueType
  <2>3. UNCHANGED <<contained, solid, is_milestone>>  BY <1>4, UpdateFacts
  <2>4. \/ UNCHANGED <<milestone_index, omrsi, ymrsi>>
        \/ /\ m \in Messages
           /\ milestone_index' = [milestone_index EXCEPT ![m] = MilestoneIndexOf[event]]
           /\ omrsi' = [omrsi EXCEPT ![m] = IndexId(MilestoneIndexOf[event], m)]
           /\ ymrsi' = [ymrsi EXCEPT ![m] = IndexId(MilestoneIndexOf[event], m)]
    BY <1>4, UpdateFacts
  <2> QED  BY <2>2, <2>3, <2>4 DEF TipTypeOK
<1>5. ASSUME UpdateChildOmrsi \/ UpdateChildYmrsi
      PROVE  /\ UNCHANGED <<contained, solid, is_milestone, milestone_index>>
             /\ omrsi' \in [Messages -> {None} \cup Values]
             /\ ymrsi' \in [Messages -> {None} \cup Values]
  <2>1. visiting \in Visits  BY <1>5 DEF VisitingInv, UpdateChildOmrsi, UpdateChildYmrsi
  <2>2. /\ visiting.child \in Messages /\ visiting.message \in AllIds
        /\ visiting.omrsi.index \in Nat /\ visiting.ymrsi.index \in Nat
    BY <2>1 DEF Visits, Values, AllIds
  <2>3. /\ IndexId(visiting.omrsi.index, visiting.message) \in Values
        /\ IndexId(visiting.ymrsi.index, visiting.message) \in Values
    BY <2>2, ValueType
  <2>4. CASE UpdateChildOmrsi  BY <2>2, <2>3, <2>4 DEF UpdateChildOmrsi, TipTypeOK
  <2>5. CASE UpdateChildYmrsi  BY <2>2, <2>3, <2>5 DEF UpdateChildYmrsi, TipTypeOK
  <2> QED  BY <1>5, <2>4, <2>5
<1>6. /\ solid' \subseteq contained' /\ is_milestone' \subseteq Milestones \cap contained'
      /\ milestone_index' \in [Messages -> {None} \cup Nat]
      /\ omrsi' \in [Messages -> {None} \cup Values] /\ ymrsi' \in [Messages -> {None} \cup Values]
  <2>1. CASE UNCHANGED <<solid, is_milestone, milestone_index, omrsi, ymrsi>>
    BY <1>1, <2>1 DEF TipTypeOK
  <2> QED  BY <1>1, <1>2, <1>3, <1>4, <1>5, <2>1, MetadataSteps DEF TipTypeOK
<1>7. smi' \in Nat /\ events' \in Seq(Milestones)
  <2>1. ASSUME NEW m \in Milestones, SolidifyMilestone(m)  PROVE smi' \in Nat /\ events' \in Seq(Milestones)
    BY <2>1 DEF SolidifyMilestone, TipTypeOK
  <2>2. CASE StartUpdate  BY <2>2 DEF StartUpdate, metadataVars, TipTypeOK
  <2>3. CASE UNCHANGED <<smi, events>>  BY <2>3 DEF TipTypeOK
  <2> QED  BY <2>1, <2>2, <2>3, EventsSteps
<1>8. /\ updater' \in {"idle", "past", "future"} /\ (updater' # "idle" => event' \in Milestones)
      /\ stack' \subseteq AllIds /\ updated' \subseteq Messages
  <2>1. CASE StartUpdate
    <3>1. Head(events) \in Milestones  BY <2>1 DEF StartUpdate, TipTypeOK
    <3>2. ParentsOf(Head(events)) \subseteq AllIds  BY <3>1, ParentsType, MilestoneFacts
    <3> QED  BY <2>1, <3>1, <3>2 DEF StartUpdate
  <2>2. ASSUME NEW m \in AllIds, UpdatePastCone(m)
        PROVE  /\ UNCHANGED <<updater, event>>
               /\ stack' \subseteq AllIds /\ updated' \subseteq Messages
    BY <2>2, UpdateFacts, ParentsType DEF TipTypeOK
  <2>3. CASE EndPastCone  BY <2>3 DEF EndPastCone, TipTypeOK, AllIds
  <2>4. CASE UpdateTipScores  BY <2>4 DEF UpdateTipScores, TipTypeOK
  <2>5. ASSUME NEW m \in Messages, VisitFuture(m) \/ ReadChild(m)
        PROVE  stack' \subseteq AllIds
    BY <2>5 DEF VisitFuture, ReadChild, TipTypeOK, AllIds
  <2>6. CASE UNCHANGED <<updater, event, updated>> /\ stack' \subseteq AllIds
    BY <2>6 DEF TipTypeOK
  <2>7. CASE UNCHANGED <<updater, event, updated>> /\ UNCHANGED stack
    BY <2>7 DEF TipTypeOK
  <2> QED  BY <2>1, <2>2, <2>3, <2>4, <2>5, <2>6, <2>7, UpdaterSteps DEF TipTypeOK
<1> QED  BY <1>1, <1>6, <1>7, <1>8 DEF TipTypeOK

\* Only the propagator makes a message solid.
LEMMA SolidSteps ==
  ASSUME TipStep  PROVE FinishPropagation \/ UNCHANGED solid
<1>1. ASSUME NEW m \in Milestones, AddMilestone(m)  PROVE UNCHANGED solid  BY <1>1 DEF AddMilestone
<1>2. ASSUME NEW m \in AllIds, UpdatePastCone(m)  PROVE UNCHANGED solid  BY <1>2 DEF UpdatePastCone
<1>3. ASSUME UpdateChildOmrsi \/ UpdateChildYmrsi  PROVE UNCHANGED solid
  BY <1>3 DEF UpdateChildOmrsi, UpdateChildYmrsi
<1> QED  BY <1>1, <1>2, <1>3, MetadataSteps

\* Only the worker of milestone payloads makes a message a milestone.
LEMMA MilestoneSteps ==
  ASSUME TipStep
  PROVE  (\E m \in Milestones : AddMilestone(m)) \/ UNCHANGED is_milestone
<1>1. ASSUME FinishPropagation  PROVE UNCHANGED is_milestone  BY <1>1 DEF FinishPropagation
<1>2. ASSUME NEW m \in AllIds, UpdatePastCone(m)  PROVE UNCHANGED is_milestone
  BY <1>2 DEF UpdatePastCone
<1>3. ASSUME UpdateChildOmrsi \/ UpdateChildYmrsi  PROVE UNCHANGED is_milestone
  BY <1>3 DEF UpdateChildOmrsi, UpdateChildYmrsi
<1> QED  BY <1>1, <1>2, <1>3, MetadataSteps

\* Neither ever ceases to be one.
LEMMA FlagsGrow ==
  ASSUME TipTypeOK, PropagatingInv, TipStep
  PROVE  solid \subseteq solid' /\ is_milestone \subseteq is_milestone'
<1>1. ASSUME FinishPropagation  PROVE solid \subseteq solid'  BY <1>1, FinishFacts
<1>2. ASSUME NEW m \in Milestones, AddMilestone(m)  PROVE is_milestone \subseteq is_milestone'
  BY <1>2 DEF AddMilestone
<1> QED  BY <1>1, <1>2, SolidSteps, MilestoneSteps

\* The message being propagated.
LEMMA PropagatingStep ==
  ASSUME IndexInv, TipStep  PROVE PropagatingInv'
<1> USE DEF IndexInv
<1>0. contained \subseteq contained'  BY ArrivalSteps DEF TipTypeOK
<1>1. ASSUME NEW m \in Messages, StartPropagation(m)  PROVE PropagatingInv'
  <2>1. /\ propagating' = [message |-> m, left |-> Approves[m], omrsis |-> {}, ymrsis |-> {}]
        /\ m \in contained \ solid /\ UNCHANGED <<contained, solid>>
        /\ \A p \in ParentsOf(m) : p \in SolidEntryPoints \cup solid
    BY <1>1 DEF StartPropagation, IsSolid, metadataVars
  <2>2. Approves[m] \in Seq(AllIds)  BY TipAssumption
  <2>3. propagating' \in Propagations  BY <2>1, <2>2 DEF Propagations
  <2>4. Range(propagating'.left) \subseteq ParentsOf(propagating'.message)
    BY <2>1 DEF ParentsOf
  <2> QED  BY <2>1, <2>3, <2>4 DEF PropagatingInv
<1>2. CASE ReadParent
  <2> DEFINE p == Head(propagating.left)
  <2>1. /\ propagating' \in Propagations
        /\ propagating'.message = propagating.message
        /\ Range(propagating'.left) \subseteq Range(propagating.left)
    BY <1>2, ReadParentFacts
  <2>2. UNCHANGED <<contained, solid>> /\ propagating # None  BY <1>2 DEF ReadParent, metadataVars
  <2> QED  BY <2>1, <2>2 DEF PropagatingInv
<1>3. CASE FinishPropagation
  <2>1. propagating' = None  BY <1>3, FinishFacts
  <2> QED  BY <2>1 DEF PropagatingInv
<1>4. CASE UNCHANGED <<propagating, solid>>  BY <1>0, <1>4 DEF PropagatingInv
<1> QED  BY <1>1, <1>2, <1>3, <1>4, PropagatingSteps, SolidSteps

\* The visit of the future walk.
LEMMA VisitingStep ==
  ASSUME IndexInv, TipStep  PROVE VisitingInv'
<1> USE DEF IndexInv
<1>0. solid \subseteq solid' /\ is_milestone \subseteq is_milestone'  BY FlagsGrow
<1>1. ASSUME NEW m \in Messages, VisitFuture(m)  PROVE VisitingInv'
  <2>1. CASE visiting' = None  BY <2>1 DEF VisitingInv
  <2>2. CASE visiting' # None
    <3>1. /\ visiting' = [message |-> m, omrsi |-> omrsi[m], ymrsi |-> ymrsi[m],
                          left |-> ChildrenOf(m), child |-> m, due |-> {}]
          /\ omrsi[m] # None /\ ymrsi[m] # None /\ updater' = "future"
      BY <1>1, <2>2 DEF VisitFuture
    <3>2. omrsi[m] \in Values /\ ymrsi[m] \in Values  BY <3>1 DEF TipTypeOK
    <3>3. ChildrenOf(m) \subseteq Messages /\ \A c \in ChildrenOf(m) : m \in ParentsOf(c)
      BY DEF ChildrenOf, TipTypeOK
    <3>4. visiting' \in Visits  BY <3>1, <3>2, <3>3 DEF Visits
    <3> QED  BY <3>1, <3>3, <3>4 DEF VisitingInv
  <2> QED  BY <2>1, <2>2
<1>2. ASSUME NEW c \in Messages, ReadChild(c)  PROVE VisitingInv'
  <2>1. visiting # None /\ visiting \in Visits /\ updater' = "future" /\ visiting.due = {}
    BY <1>2 DEF ReadChild, VisitingInv
  <2>2. CASE milestone_index[c] # None
    <3>1. visiting' = [visiting EXCEPT !.left = @ \ {c}]  BY <1>2, <2>2 DEF ReadChild
    <3>2. /\ visiting' \in Visits /\ visiting'.due = {} /\ visiting'.message = visiting.message
          /\ visiting'.left = visiting.left \ {c}
      BY <2>1, <3>1 DEF Visits
    <3> QED  BY <2>1, <3>2 DEF VisitingInv
  <2>3. CASE milestone_index[c] = None
    <3> DEFINE d == Due(c, visiting.message)
    <3>1. visiting' = [visiting EXCEPT !.left = @ \ {c}, !.child = c, !.due = d]
      BY <1>2, <2>3 DEF ReadChild
    <3>2. d \in SUBSET {"omrsi", "ymrsi"}  BY DEF Due
    <3>3. d # {} => omrsi[c] # None \/ ymrsi[c] # None  BY DEF Due, Follows
    <3> HIDE DEF d
    <3>4. /\ visiting' \in Visits /\ visiting'.due = d /\ visiting'.message = visiting.message
          /\ visiting'.left = visiting.left \ {c} /\ visiting'.child = c
      BY <2>1, <3>1, <3>2 DEF Visits
    <3>5. d # {} => c \in solid \cup is_milestone  BY <3>3 DEF SolidInv
    <3> QED  BY <1>0, <2>1, <3>4, <3>5 DEF VisitingInv
  <2> QED  BY <2>2, <2>3
<1>3. CASE UpdateChildOmrsi \/ UpdateChildYmrsi
  <2>1. visiting # None /\ visiting \in Visits /\ updater' = "future"
    BY <1>3 DEF UpdateChildOmrsi, UpdateChildYmrsi, VisitingInv
  <2>2. PICK d \in SUBSET visiting.due : visiting' = [visiting EXCEPT !.due = d]
    BY <1>3, <2>1 DEF UpdateChildOmrsi, UpdateChildYmrsi, Visits
  <2>3. /\ visiting' \in Visits /\ visiting'.due = d /\ visiting'.message = visiting.message
        /\ visiting'.left = visiting.left /\ visiting'.child = visiting.child
    BY <2>1, <2>2 DEF Visits
  <2> QED  BY <1>0, <2>1, <2>2, <2>3 DEF VisitingInv
<1>4. CASE EndVisit  BY <1>4 DEF EndVisit, VisitingInv
<1>5. CASE UNCHANGED visiting
  <2>1. ASSUME visiting # None  PROVE updater' = "future"
    <3>1. updater = "future"  BY <2>1 DEF VisitingInv
    <3>2. ~StartUpdate /\ ~EndPastCone /\ ~UpdateTipScores /\ ~\E m \in AllIds : UpdatePastCone(m)
      BY <3>1, <2>1 DEF StartUpdate, EndPastCone, UpdateTipScores, UpdatePastCone
    <3> QED  BY <3>1, <3>2, UpdaterSteps
  <2> QED  BY <1>0, <1>5, <2>1 DEF VisitingInv
<1> QED  BY <1>1, <1>2, <1>3, <1>4, <1>5, VisitingSteps

\* Queues.
LEMMA QueueFacts ==
  ASSUME NEW X, NEW s \in Seq(X)
  PROVE  /\ \A e \in X : /\ Range(Append(s, e)) = Range(s) \cup {e}
                         /\ \A i \in DOMAIN Append(s, e) :
                              \/ i \in DOMAIN s /\ Append(s, e)[i] = s[i]
                              \/ i = Len(s) + 1 /\ Append(s, e)[i] = e
                         /\ DOMAIN s = 1 .. Len(s) /\ Len(s) \in Nat
         /\ s # <<>> => /\ Head(s) \in X /\ Range(s) = {Head(s)} \cup Range(Tail(s))
                        /\ 1 \in DOMAIN s /\ Head(s) = s[1]
                        /\ \A i \in DOMAIN Tail(s) : /\ i + 1 \in DOMAIN s /\ i \in Nat \ {0}
                                                     /\ Tail(s)[i] = s[i + 1]
<1>1. ASSUME NEW e \in X
      PROVE  /\ Range(Append(s, e)) = Range(s) \cup {e}
             /\ \A i \in DOMAIN Append(s, e) : \/ i \in DOMAIN s /\ Append(s, e)[i] = s[i]
                                               \/ i = Len(s) + 1 /\ Append(s, e)[i] = e
             /\ DOMAIN s = 1 .. Len(s) /\ Len(s) \in Nat
  <2>1. /\ Append(s, e) \in Seq(X) /\ Len(Append(s, e)) = Len(s) + 1 /\ Len(s) \in Nat
        /\ DOMAIN s = 1 .. Len(s) /\ DOMAIN Append(s, e) = 1 .. Len(s) + 1
        /\ \A i \in 1 .. Len(s) : Append(s, e)[i] = s[i]
        /\ Append(s, e)[Len(s) + 1] = e
    OBVIOUS
  <2> QED  BY <2>1 DEF Range
<1>2. ASSUME s # <<>>
      PROVE  /\ Head(s) \in X /\ Range(s) = {Head(s)} \cup Range(Tail(s))
             /\ 1 \in DOMAIN s /\ Head(s) = s[1]
             /\ \A i \in DOMAIN Tail(s) : i + 1 \in DOMAIN s /\ i \in Nat \ {0} /\ Tail(s)[i] = s[i + 1]
  <2>1. /\ Head(s) \in X /\ Head(s) = s[1] /\ Len(s) \in Nat \ {0} /\ DOMAIN s = 1 .. Len(s)
        /\ DOMAIN Tail(s) = 1 .. Len(s) - 1
        /\ \A i \in 1 .. Len(s) - 1 : Tail(s)[i] = s[i + 1]
    BY <1>2
  <2>2. \A i \in DOMAIN s : i # 1 => i - 1 \in DOMAIN Tail(s) /\ Tail(s)[i - 1] = s[i]  BY <2>1
  <2>3. \A i \in DOMAIN Tail(s) : i + 1 \in DOMAIN s /\ i \in Nat \ {0} /\ Tail(s)[i] = s[i + 1]
    BY <2>1
  <2>4. Range(s) \subseteq {Head(s)} \cup Range(Tail(s))  BY <2>1, <2>2 DEF Range
  <2>5. {Head(s)} \cup Range(Tail(s)) \subseteq Range(s)  BY <2>1, <2>3 DEF Range
  <2> QED  BY <2>1, <2>3, <2>4, <2>5
<1> QED  BY <1>1, <1>2

\* The queue of the index updater.
LEMMA EventsStep ==
  ASSUME IndexInv, TipStep  PROVE EventsInv'
<1> USE DEF IndexInv
<1>0. solid \subseteq solid' /\ is_milestone \subseteq is_milestone'  BY FlagsGrow
<1>1. events \in Seq(Milestones) /\ smi \in Nat  BY DEF TipTypeOK
<1>2. ASSUME NEW m \in Milestones, SolidifyMilestone(m)  PROVE EventsInv'
  <2>1. /\ events' = Append(events, m) /\ smi' = smi + 1 /\ MilestoneIndexOf[m] = smi + 1
        /\ m \in is_milestone \cap solid
    BY <1>2 DEF SolidifyMilestone
  <2>2. \A i \in DOMAIN events' : \/ i \in DOMAIN events /\ events'[i] = events[i]
                                  \/ i = Len(events) + 1 /\ events'[i] = m
    BY <1>1, <2>1, QueueFacts
  <2>3. DOMAIN events = 1 .. Len(events) /\ Len(events) \in Nat  BY <1>1
  <2>4. \A i \in DOMAIN events : events[i] \in Milestones /\ MilestoneIndexOf[events[i]] \in Nat
    BY <1>1, MilestoneFacts
  <2>5. \A i \in DOMAIN events' : events'[i] \in is_milestone' \cap solid'
                                  /\ MilestoneIndexOf[events'[i]] <= smi'
    BY <1>0, <1>1, <2>1, <2>2, <2>4 DEF EventsInv
  <2>6. ASSUME NEW i \in DOMAIN events', NEW j \in DOMAIN events', i < j
        PROVE  MilestoneIndexOf[events'[i]] < MilestoneIndexOf[events'[j]]
    <3>1. i \in DOMAIN events /\ events'[i] = events[i]  BY <2>2, <2>3, <2>6
    <3>2. CASE j \in DOMAIN events /\ events'[j] = events[j]
      BY <3>1, <3>2, <2>6 DEF EventsInv
    <3>3. CASE events'[j] = m
      BY <3>1, <3>3, <2>1, <2>4, <1>1 DEF EventsInv
    <3> QED  BY <2>2, <3>2, <3>3
  <2> QED  BY <2>5, <2>6 DEF EventsInv
<1>3. CASE StartUpdate
  <2>1. events' = Tail(events) /\ events # <<>> /\ smi' = smi  BY <1>3 DEF StartUpdate, metadataVars
  <2>2. \A i \in DOMAIN events' : i + 1 \in DOMAIN events /\ i \in Nat \ {0} /\ events'[i] = events[i + 1]
    BY <1>1, <2>1, QueueFacts
  <2>3. \A i, j \in DOMAIN events' : i < j => i + 1 < j + 1  BY <2>2
  <2> QED  BY <1>0, <2>1, <2>2, <2>3 DEF EventsInv
<1>4. CASE UNCHANGED <<smi, events>>  BY <1>0, <1>4 DEF EventsInv
<1> QED  BY <1>2, <1>3, <1>4, EventsSteps

\* Solid messages.
LEMMA SolidStep ==
  ASSUME IndexInv, TipStep  PROVE SolidInv'
<1> USE DEF IndexInv
<1>1. ASSUME NEW m \in Milestones, AddMilestone(m)  PROVE SolidInv'
  <2>1. m \in Messages /\ IndexId(MilestoneIndexOf[m], m) # None
    BY MilestoneFacts, ValueType DEF AllIds
  <2>2. /\ omrsi' = [omrsi EXCEPT ![m] = IndexId(MilestoneIndexOf[m], m)]
        /\ ymrsi' = [ymrsi EXCEPT ![m] = IndexId(MilestoneIndexOf[m], m)]
        /\ is_milestone' = is_milestone \cup {m} /\ solid' = solid
    BY <1>1 DEF AddMilestone
  <2> QED  BY <2>1, <2>2 DEF SolidInv, TipTypeOK
<1>2. CASE FinishPropagation
  <2> DEFINE m == propagating.message
  <2>1. /\ m \in contained \ solid /\ solid' = solid \cup {m} /\ UNCHANGED is_milestone
        /\ \/ m \in is_milestone /\ UNCHANGED <<omrsi, ymrsi>>
           \/ \E o \in Values, y \in Values :
                omrsi' = [omrsi EXCEPT ![m] = o] /\ ymrsi' = [ymrsi EXCEPT ![m] = y]
    BY <1>2, FinishFacts
  <2>2. ParentsOf(m) \subseteq solid \cup SolidEntryPoints
    BY <1>2 DEF PropagatingInv, FinishPropagation
  <2>3. m \in Messages  BY <2>1 DEF TipTypeOK
  <2> HIDE DEF m
  <2>4. \A x \in solid' : ParentsOf(x) \subseteq solid' \cup SolidEntryPoints
    BY <2>1, <2>2 DEF SolidInv
  <2> QED  BY <2>1, <2>3, <2>4, MilestoneFacts DEF SolidInv, TipTypeOK
<1>3. ASSUME NEW m \in AllIds, UpdatePastCone(m)  PROVE SolidInv'
  <2>1. /\ UNCHANGED <<solid, is_milestone>>
        /\ \/ UNCHANGED <<omrsi, ymrsi>>
           \/ /\ m \in solid /\ m \in Messages /\ event \in Milestones
              /\ omrsi' = [omrsi EXCEPT ![m] = IndexId(MilestoneIndexOf[event], m)]
              /\ ymrsi' = [ymrsi EXCEPT ![m] = IndexId(MilestoneIndexOf[event], m)]
    BY <1>3, UpdateFacts
  <2>2. event \in Milestones => IndexId(MilestoneIndexOf[event], m) # None
    BY MilestoneFacts, ValueType
  <2> QED  BY <2>1, <2>2 DEF SolidInv, TipTypeOK
<1>4. CASE UpdateChildOmrsi \/ UpdateChildYmrsi
  <2> DEFINE c == visiting.child
             o == IndexId(visiting.omrsi.index, visiting.message)
             y == IndexId(visiting.ymrsi.index, visiting.message)
  <2>1. visiting # None /\ visiting \in Visits /\ c \in solid \cup is_milestone
    BY <1>4 DEF UpdateChildOmrsi, UpdateChildYmrsi, VisitingInv
  <2>2. /\ visiting.message \in AllIds /\ visiting.omrsi.index \in Nat /\ visiting.ymrsi.index \in Nat
        /\ c \in Messages
    BY <2>1 DEF Visits, Values, AllIds
  <2>3. o # None /\ y # None  BY <2>2, ValueType
  <2>4. /\ UNCHANGED <<solid, is_milestone>>
        /\ omrsi' = omrsi \/ omrsi' = [omrsi EXCEPT ![c] = o]
        /\ ymrsi' = ymrsi \/ ymrsi' = [ymrsi EXCEPT ![c] = y]
    BY <1>4 DEF UpdateChildOmrsi, UpdateChildYmrsi
  <2> HIDE DEF c, o, y
  <2> QED  BY <2>1, <2>2, <2>3, <2>4 DEF SolidInv, TipTypeOK
<1>5. CASE UNCHANGED <<solid, is_milestone, milestone_index, omrsi, ymrsi>>  BY <1>5 DEF SolidInv
<1> QED  BY <1>1, <1>2, <1>3, <1>4, <1>5, MetadataSteps

\* A milestone that is still to come is not confirmed: a milestone that refers
\* to it has a higher index.
LEMMA NotConfirmedYet ==
  ASSUME TipTypeOK, ConfirmedInv, NEW m \in Milestones, m \notin is_milestone,
         MilestoneIndexOf[m] > smi
  PROVE  m \notin Confirmed
<1> SUFFICES ASSUME m \in Confirmed  PROVE FALSE  OBVIOUS
<1>1. PICK k \in Milestones : m \in PastCone[k] /\ MilestoneIndexOf[k] <= smi
  BY DEF ConfirmedInv, FirstToConfirm
<1>2. /\ MilestoneIndexOf[m] <= MilestoneIndexOf[k] /\ smi \in Nat
      /\ MilestoneIndexOf[m] \in Nat /\ MilestoneIndexOf[k] \in Nat
  BY <1>1, MilestoneFacts DEF TipTypeOK
<1> QED  BY <1>1, <1>2

\* Milestones that precede the one being processed are done.
LEMMA EarlierAreDone ==
  ASSUME TipTypeOK, EventsInv, WalkInv, updater = "past",
         NEW k \in Milestones, MilestoneIndexOf[k] < MilestoneIndexOf[event]
  PROVE  Done(k)
<1>1. /\ event \in Milestones /\ MilestoneIndexOf[event] <= smi /\ smi \in Nat
      /\ MilestoneIndexOf[event] \in Nat /\ MilestoneIndexOf[k] \in Nat
  BY MilestoneFacts DEF WalkInv, TipTypeOK
<1>2. MilestoneIndexOf[k] <= smi /\ k # event  BY <1>1
<1>3. ASSUME NEW i \in DOMAIN events, events[i] = k  PROVE FALSE
  <2>1. MilestoneIndexOf[event] < MilestoneIndexOf[k]  BY <1>3 DEF WalkInv
  <2> QED  BY <1>1, <2>1
<1> QED  BY <1>2, <1>3 DEF Done, Range

\* What the walk finds without an index, no earlier milestone refers to.
LEMMA EventIsFirst ==
  ASSUME TipTypeOK, EventsInv, ConfirmedInv, WalkInv, updater = "past",
         NEW m \in Messages, m \in PastCone[event], m \notin Confirmed
  PROVE  FirstToConfirm(event, m)
<1>1. ASSUME NEW l \in Milestones, m \in PastCone[l]
      PROVE  MilestoneIndexOf[event] <= MilestoneIndexOf[l]
  <2>1. CASE MilestoneIndexOf[l] < MilestoneIndexOf[event]
    <3>1. Done(l)  BY <2>1, EarlierAreDone
    <3> QED  BY <1>1, <3>1 DEF ConfirmedInv
  <2>2. MilestoneIndexOf[l] \in Nat /\ MilestoneIndexOf[event] \in Nat
    BY MilestoneFacts DEF TipTypeOK
  <2> QED  BY <2>1, <2>2
<1> QED  BY <1>1 DEF FirstToConfirm

\* At the end of the walk every message of the past cone is confirmed.
LEMMA WalkIsComplete ==
  ASSUME TipTypeOK, EventsInv, ConfirmedInv, WalkInv, updater = "past", stack = {}
  PROVE  PastCone[event] \cap Messages \subseteq Confirmed
<1> DEFINE S == {x \in PastCone[event] : x \in SolidEntryPoints \/ x \in Confirmed}
<1>1. event \in Milestones /\ event \in Messages /\ event \in is_milestone
  BY MilestoneFacts DEF TipTypeOK, WalkInv
<1>2. S \in SUBSET AllIds  BY <1>1, ConeSelf
<1>3. event \in S
  <2>1. milestone_index[event] = MilestoneIndexOf[event] /\ MilestoneIndexOf[event] \in Nat
    BY <1>1, MilestoneFacts DEF ConfirmedInv
  <2>2. event \in Confirmed  BY <1>1, <2>1, MilestoneFacts DEF Confirmed
  <2> QED  BY <1>1, <2>2, ConeSelf
<1>4. ASSUME NEW x \in S \cap Messages  PROVE ParentsOf(x) \subseteq S
  <2>1. x \in Confirmed /\ x \in PastCone[event]  BY MilestoneFacts
  <2>2. ParentsOf(x) \subseteq PastCone[event]  BY <1>1, <2>1, ConeParents
  <2>3. CASE x \in updated \cup {event}
    <3>1. ParentsOf(x) \subseteq SolidEntryPoints \cup Confirmed  BY <2>3 DEF WalkInv
    <3> QED  BY <2>2, <3>1
  <2>4. CASE x \notin updated \cup {event}
    <3>1. PICK k \in Milestones : milestone_index[x] = MilestoneIndexOf[k] /\ FirstToConfirm(k, x)
      BY <2>1 DEF ConfirmedInv
    <3>2. MilestoneIndexOf[k] <= MilestoneIndexOf[event]  BY <1>1, <2>1, <3>1 DEF FirstToConfirm
    <3>3. MilestoneIndexOf[k] # MilestoneIndexOf[event]  BY <2>4, <3>1 DEF WalkInv
    <3>4. MilestoneIndexOf[k] \in Nat /\ MilestoneIndexOf[event] \in Nat  BY <1>1, MilestoneFacts
    <3>5. Done(k)  BY <3>2, <3>3, <3>4, EarlierAreDone
    <3>6. k \in Messages /\ x \in PastCone[k]  BY <3>1, MilestoneFacts DEF FirstToConfirm
    <3>7. ParentsOf(x) \subseteq PastCone[k]  BY <3>6, ConeParents
    <3>8. PastCone[k] \cap Messages \subseteq Confirmed  BY <3>5 DEF ConfirmedInv
    <3>9. ParentsOf(x) \subseteq AllIds  BY ParentsType
    <3> QED  BY <2>2, <3>7, <3>8, <3>9 DEF AllIds
  <2> QED  BY <2>3, <2>4
<1>5. ConeClosed(S)
  <2> HIDE DEF S
  <2> QED  BY <1>4 DEF ConeClosed
<1>6. PastCone[event] \subseteq S
  <2> HIDE DEF S
  <2> QED  BY <1>1, <1>2, <1>3, <1>5, ConeLeast
<1> QED  BY <1>6, MilestoneFacts

\* A step that confirms nothing.
LEMMA ConfirmedKept ==
  ASSUME ConfirmedInv, UNCHANGED <<milestone_index, is_milestone>>, solid \subseteq solid',
         \A k \in Milestones : MilestoneIndexOf[k] <= smi /\ k \notin Range(events) =>
                                 MilestoneIndexOf[k] <= smi' /\ k \notin Range(events'),
         \A k \in Milestones : Done(k)' => PastCone[k] \cap Messages \subseteq Confirmed
  PROVE  ConfirmedInv'
<1>1. Confirmed' = Confirmed  BY DEF Confirmed
<1>2. \A k \in Milestones, m \in Messages : FirstToConfirm(k, m)' <=> FirstToConfirm(k, m)
  BY DEF FirstToConfirm
<1>3. ASSUME NEW m \in Confirmed
      PROVE  \E k \in Milestones : /\ milestone_index'[m] = MilestoneIndexOf[k]
                                   /\ FirstToConfirm(k, m)
                                   /\ \/ m \in is_milestone'
                                      \/ MilestoneIndexOf[k] <= smi' /\ k \notin Range(events')
  <2>1. PICK k \in Milestones : /\ milestone_index[m] = MilestoneIndexOf[k]
                                /\ FirstToConfirm(k, m)
                                /\ \/ m \in is_milestone
                                   \/ MilestoneIndexOf[k] <= smi /\ k \notin Range(events)
    BY DEF ConfirmedInv
  <2> QED  BY <2>1
<1>4. Confirmed \subseteq solid' \cup is_milestone'  BY DEF ConfirmedInv
<1>5. \A m \in is_milestone' : milestone_index'[m] = MilestoneIndexOf[m]  BY DEF ConfirmedInv
<1> QED  BY <1>1, <1>3, <1>4, <1>5 DEF ConfirmedInv, FirstToConfirm

\* A step that confirms a message for the milestone j.
LEMMA ConfirmedOne ==
  ASSUME TipTypeOK, ConfirmedInv, NEW m \in Messages, m \notin Confirmed,
         NEW j \in Milestones, FirstToConfirm(j, m),
         milestone_index' = [milestone_index EXCEPT ![m] = MilestoneIndexOf[j]],
         is_milestone' = is_milestone \/ (is_milestone' = is_milestone \cup {m} /\ j = m),
         m \in is_milestone' \/ (MilestoneIndexOf[j] <= smi /\ j \notin Range(events) /\ m \in solid),
         UNCHANGED <<solid, smi, events, updater, event>>
  PROVE  ConfirmedInv' /\ Confirmed' = Confirmed \cup {m}
<1>0. MilestoneIndexOf[j] \in Nat /\ MilestoneIndexOf[j] # None  BY MilestoneFacts
<1>1. Confirmed' = Confirmed \cup {m}  BY <1>0 DEF Confirmed, TipTypeOK
<1>2. \A x \in Confirmed : milestone_index'[x] = milestone_index[x]  BY DEF Confirmed, TipTypeOK
<1>3. milestone_index'[m] = MilestoneIndexOf[j]  BY DEF TipTypeOK
<1>4. ASSUME NEW x \in Confirmed'
      PROVE  \E k \in Milestones : /\ milestone_index'[x] = MilestoneIndexOf[k]
                                   /\ FirstToConfirm(k, x)
                                   /\ \/ x \in is_milestone'
                                      \/ MilestoneIndexOf[k] <= smi' /\ k \notin Range(events')
  <2>1. CASE x = m  BY <2>1, <1>3
  <2>2. CASE x \in Confirmed
    <3>1. PICK k \in Milestones : /\ milestone_index[x] = MilestoneIndexOf[k]
                                  /\ FirstToConfirm(k, x)
                                  /\ \/ x \in is_milestone
                                     \/ MilestoneIndexOf[k] <= smi /\ k \notin Range(events)
      BY <2>2 DEF ConfirmedInv
    <3> QED  BY <2>2, <3>1, <1>2
  <2> QED  BY <1>1, <2>1, <2>2
<1>5. \A x \in is_milestone' : milestone_index'[x] = MilestoneIndexOf[x]
  <2>1. ASSUME NEW x \in is_milestone  PROVE x # m /\ milestone_index'[x] = MilestoneIndexOf[x]
    <3>1. x \in Milestones /\ x \in Messages /\ milestone_index[x] = MilestoneIndexOf[x]
      BY MilestoneFacts DEF TipTypeOK, ConfirmedInv
    <3>2. x \in Confirmed  BY <3>1, MilestoneFacts DEF Confirmed
    <3> QED  BY <3>1, <3>2, <1>2
  <2> QED  BY <2>1, <1>3
<1>6. \A k \in Milestones : Done(k)' => Done(k)  BY DEF Done
<1>7. \A k \in Milestones : Done(k)' => PastCone[k] \cap Messages \subseteq Confirmed'
  BY <1>1, <1>6 DEF ConfirmedInv
<1>8. Confirmed' \subseteq solid' \cup is_milestone'  BY <1>1 DEF ConfirmedInv
<1> QED  BY <1>1, <1>4, <1>5, <1>7, <1>8 DEF ConfirmedInv, FirstToConfirm

\* A message that becomes a milestone is confirmed by itself.
LEMMA AddMilestoneFacts ==
  ASSUME TipTypeOK, ConfirmedInv, NEW m \in Milestones, AddMilestone(m)
  PROVE  /\ m \in Messages \ Confirmed /\ ConfirmedInv' /\ Confirmed' = Confirmed \cup {m}
         /\ milestone_index' = [milestone_index EXCEPT ![m] = MilestoneIndexOf[m]]
         /\ omrsi' = [omrsi EXCEPT ![m] = IndexId(MilestoneIndexOf[m], m)]
         /\ ymrsi' = [ymrsi EXCEPT ![m] = IndexId(MilestoneIndexOf[m], m)]
         /\ is_milestone' = is_milestone \cup {m}
         /\ raced' = (raced \/ InVisit(m))
         /\ UNCHANGED <<contained, solid, smi, propagating, events, updater, event, stack, updated,
                        visiting>>
<1>1. /\ m \notin is_milestone /\ MilestoneIndexOf[m] > smi
      /\ milestone_index' = [milestone_index EXCEPT ![m] = MilestoneIndexOf[m]]
      /\ omrsi' = [omrsi EXCEPT ![m] = IndexId(MilestoneIndexOf[m], m)]
      /\ ymrsi' = [ymrsi EXCEPT ![m] = IndexId(MilestoneIndexOf[m], m)]
      /\ is_milestone' = is_milestone \cup {m}
      /\ raced' = (raced \/ InVisit(m))
      /\ UNCHANGED <<contained, solid, smi, propagating, events, updater, event, stack, updated,
                     visiting>>
  BY DEF AddMilestone
<1>2. m \in Messages \ Confirmed  BY <1>1, NotConfirmedYet, MilestoneFacts
<1>3. FirstToConfirm(m, m)  BY <1>2, ConeSelf, MilestoneFacts DEF FirstToConfirm
<1>4. ConfirmedInv' /\ Confirmed' = Confirmed \cup {m}
  BY <1>1, <1>2, <1>3, ConfirmedOne
<1> QED  BY <1>1, <1>2, <1>4

\* A message that the walk confirms is confirmed by its milestone.
LEMMA UpdateConfirms ==
  ASSUME IndexInv, NEW m \in AllIds, UpdatePastCone(m), ~SkippedInPast(m)
  PROVE  ConfirmedInv' /\ Confirmed' = Confirmed \cup {m}
<1> USE DEF IndexInv
<1>1. /\ updater = "past" /\ event \in Milestones /\ m \in stack /\ m \in solid
      /\ m \in Messages \ Confirmed
      /\ milestone_index' = [milestone_index EXCEPT ![m] = MilestoneIndexOf[event]]
      /\ UNCHANGED <<solid, is_milestone, smi, events, updater, event>>
  BY UpdateFacts
<1>2. m \in PastCone[event] /\ MilestoneIndexOf[event] <= smi  BY <1>1 DEF WalkInv
<1>3. FirstToConfirm(event, m)  BY <1>1, <1>2, EventIsFirst
<1>4. event \notin Range(events)
  <2> SUFFICES ASSUME NEW i \in DOMAIN events, events[i] = event  PROVE FALSE  BY DEF Range
  <2>1. MilestoneIndexOf[event] < MilestoneIndexOf[event] /\ MilestoneIndexOf[event] \in Nat
    BY <1>1, MilestoneFacts DEF WalkInv
  <2> QED  BY <2>1
<1> QED
  <2> DEFINE j == event
  <2>1. /\ j \in Milestones /\ FirstToConfirm(j, m)
        /\ milestone_index' = [milestone_index EXCEPT ![m] = MilestoneIndexOf[j]]
        /\ MilestoneIndexOf[j] <= smi /\ j \notin Range(events)
    BY <1>1, <1>2, <1>3, <1>4
  <2> HIDE DEF j
  <2> QED  BY <1>1, <2>1, ConfirmedOne

\* Confirmed messages.
LEMMA ConfirmedStep ==
  ASSUME IndexInv, TipStep  PROVE ConfirmedInv'
<1> USE DEF IndexInv
<1>0. solid \subseteq solid'  BY FlagsGrow
<1>1. events \in Seq(Milestones) /\ smi \in Nat  BY DEF TipTypeOK
<1>2. ASSUME NEW m \in Milestones, AddMilestone(m)  PROVE ConfirmedInv'  BY <1>2, AddMilestoneFacts
<1>3. ASSUME NEW m \in AllIds, UpdatePastCone(m)  PROVE ConfirmedInv'
  <2>1. CASE SkippedInPast(m)
    <3>1. UNCHANGED <<milestone_index, is_milestone, smi, events, updater, event>>
      BY <1>3, <2>1, UpdateFacts
    <3>2. \A k \in Milestones : Done(k)' => Done(k)  BY <3>1 DEF Done
    <3> QED  BY <1>0, <3>1, <3>2, ConfirmedKept DEF ConfirmedInv
  <2>2. CASE ~SkippedInPast(m)  BY <1>3, <2>2, UpdateConfirms
  <2> QED  BY <2>1, <2>2
<1>4. ASSUME UNCHANGED <<milestone_index, is_milestone>>  PROVE ConfirmedInv'
  <2>1. ASSUME NEW m \in Milestones, SolidifyMilestone(m)  PROVE ConfirmedInv'
    <3>1. /\ events' = Append(events, m) /\ smi' = smi + 1 /\ MilestoneIndexOf[m] = smi + 1
          /\ UNCHANGED <<updater, event>>
      BY <2>1 DEF SolidifyMilestone, updaterVars
    <3>2. Range(events') = Range(events) \cup {m}  BY <1>1, <3>1, QueueFacts
    <3>3. ASSUME NEW k \in Milestones, MilestoneIndexOf[k] <= smi, k \notin Range(events)
          PROVE  MilestoneIndexOf[k] <= smi' /\ k \notin Range(events')
      BY <3>1, <3>2, <3>3, <1>1, MilestoneFacts
    <3>4. ASSUME NEW k \in Milestones, Done(k)'  PROVE Done(k)
      <4>1. MilestoneIndexOf[k] <= smi + 1 /\ k \notin Range(events) /\ k # m
        BY <3>1, <3>2, <3>4 DEF Done
      <4>2. MilestoneIndexOf[k] # smi + 1 /\ MilestoneIndexOf[k] \in Nat  BY <3>1, <4>1, MilestoneFacts
      <4> QED  BY <1>1, <3>1, <3>4, <4>1, <4>2 DEF Done
    <3> QED  BY <1>0, <1>4, <3>3, <3>4, ConfirmedKept DEF ConfirmedInv
  <2>2. CASE StartUpdate
    <3>1. /\ events' = Tail(events) /\ events # <<>> /\ smi' = smi /\ event' = Head(events)
          /\ updater = "idle" /\ updater' = "past"
      BY <2>2 DEF StartUpdate, metadataVars
    <3>2. Range(events) = Range(events') \cup {Head(events)}  BY <1>1, <3>1, QueueFacts
    <3>3. \A k \in Milestones : Done(k)' => Done(k)  BY <3>1, <3>2 DEF Done
    <3>4. \A k \in Milestones : MilestoneIndexOf[k] <= smi /\ k \notin Range(events) =>
                                  MilestoneIndexOf[k] <= smi' /\ k \notin Range(events')
      BY <3>1, <3>2
    <3> QED  BY <1>0, <1>4, <3>3, <3>4, ConfirmedKept DEF ConfirmedInv
  <2>3. CASE EndPastCone
    <3>1. /\ UNCHANGED <<smi, events, event>> /\ updater = "past" /\ updater' # "past" /\ stack = {}
      BY <2>3 DEF EndPastCone, metadataVars
    <3>2. PastCone[event] \cap Messages \subseteq Confirmed  BY <3>1, WalkIsComplete
    <3>3. \A k \in Milestones : Done(k)' => Done(k) \/ k = event  BY <3>1 DEF Done
    <3> QED  BY <1>0, <1>4, <3>1, <3>2, <3>3, ConfirmedKept DEF ConfirmedInv
  <2>4. CASE UpdateTipScores
    <3>1. UNCHANGED <<smi, events, event>> /\ updater = "future" /\ updater' = "idle"
      BY <2>4 DEF UpdateTipScores, metadataVars
    <3>2. \A k \in Milestones : Done(k)' => Done(k)  BY <3>1 DEF Done
    <3> QED  BY <1>0, <1>4, <3>1, <3>2, ConfirmedKept DEF ConfirmedInv
  <2>5. CASE UNCHANGED <<smi, events, updater, event>>
    <3>1. \A k \in Milestones : Done(k)' => Done(k)  BY <2>5 DEF Done
    <3> QED  BY <1>0, <1>4, <2>5, <3>1, ConfirmedKept DEF ConfirmedInv
  <2>6. ASSUME NEW m \in AllIds, UpdatePastCone(m)  PROVE ConfirmedInv'  BY <1>3, <2>6
  <2> QED  BY <2>1, <2>2, <2>3, <2>4, <2>5, <2>6, EventsSteps, UpdaterSteps
<1>5. CASE FinishPropagation  BY <1>4, <1>5, FinishFacts
<1>6. CASE UpdateChildOmrsi \/ UpdateChildYmrsi
  BY <1>4, <1>6 DEF UpdateChildOmrsi, UpdateChildYmrsi
<1> QED  BY <1>2, <1>3, <1>4, <1>5, <1>6, MetadataSteps

\* A step that leaves the walk alone.
LEMMA WalkKept ==
  ASSUME WalkInv, UNCHANGED <<updater, event, updated>>,
         updater = "past" =>
           /\ stack' = stack /\ Confirmed \subseteq Confirmed'
           /\ solid \subseteq solid' /\ is_milestone \subseteq is_milestone'
           /\ MilestoneIndexOf[event] <= smi'
           /\ \A i \in DOMAIN events' : MilestoneIndexOf[event] < MilestoneIndexOf[events'[i]]
           /\ \A x \in Messages : milestone_index'[x] = MilestoneIndexOf[event] =>
                milestone_index[x] = MilestoneIndexOf[event] \/ x = event
  PROVE  WalkInv'
<1> SUFFICES ASSUME updater = "past"  PROVE WalkInv'  BY DEF WalkInv
<1>1. \A x \in updated \cup {event} :
         ParentsOf(x) \subseteq stack' \cup SolidEntryPoints \cup Confirmed'
  BY DEF WalkInv
<1>2. \A x \in Messages : milestone_index'[x] = MilestoneIndexOf[event'] => x \in updated' \cup {event'}
  BY DEF WalkInv
<1> QED  BY <1>1, <1>2 DEF WalkInv

\* The walk through a past cone.
LEMMA WalkStep ==
  ASSUME IndexInv, TipStep  PROVE WalkInv'
<1> USE DEF IndexInv
<1>0. solid \subseteq solid' /\ is_milestone \subseteq is_milestone'  BY FlagsGrow
<1>1. events \in Seq(Milestones) /\ smi \in Nat  BY DEF TipTypeOK
<1>2. CASE StartUpdate
  <2> DEFINE e == Head(events)
  <2>1. /\ events' = Tail(events) /\ events # <<>> /\ event' = e /\ stack' = ParentsOf(e)
        /\ updated' = {} /\ UNCHANGED <<solid, is_milestone, milestone_index, smi>>
    BY <1>2 DEF StartUpdate, metadataVars
  <2>2. /\ e \in Milestones /\ 1 \in DOMAIN events /\ e = events[1]
        /\ \A i \in DOMAIN events' : i + 1 \in DOMAIN events /\ i \in Nat \ {0} /\ events'[i] = events[i + 1]
    BY <1>1, <2>1, QueueFacts
  <2>3. e \in Messages /\ e \in Range(events)  BY <2>2, MilestoneFacts DEF Range
  <2> HIDE DEF e
  <2>4. e \in is_milestone \cap solid /\ MilestoneIndexOf[e] <= smi  BY <2>2 DEF EventsInv
  <2>5. \A i \in DOMAIN events' : MilestoneIndexOf[e] < MilestoneIndexOf[events'[i]]
    BY <2>2 DEF EventsInv
  <2>6. stack' \subseteq PastCone[e]  BY <2>1, <2>3, ConeOfParent
  <2>7. ASSUME NEW x \in Messages, milestone_index[x] = MilestoneIndexOf[e]  PROVE x = e
    <3>1. x \in Confirmed  BY <2>2, <2>7, MilestoneFacts DEF Confirmed
    <3>2. PICK k \in Milestones : /\ milestone_index[x] = MilestoneIndexOf[k]
                                  /\ x \in is_milestone \/ k \notin Range(events)
      BY <3>1 DEF ConfirmedInv
    <3>3. k = e  BY <2>2, <2>7, <3>2, MilestoneFacts
    <3>4. x \in is_milestone  BY <2>3, <3>2, <3>3
    <3>5. x \in Milestones /\ milestone_index[x] = MilestoneIndexOf[x]
      BY <3>4 DEF ConfirmedInv, TipTypeOK
    <3> QED  BY <2>2, <2>7, <3>5, MilestoneFacts
  <2> QED  BY <2>1, <2>4, <2>5, <2>6, <2>7 DEF WalkInv
<1>3. ASSUME NEW m \in AllIds, UpdatePastCone(m)  PROVE WalkInv'
  <2>1. /\ updater = "past" /\ event \in Milestones /\ m \in stack
        /\ UNCHANGED <<solid, is_milestone, smi, events, updater, event>>
    BY <1>3, UpdateFacts
  <2>2. m \in PastCone[event] /\ event \in Messages  BY <2>1, MilestoneFacts DEF WalkInv
  <2>3. CASE SkippedInPast(m)
    <3>1. stack' = stack \ {m} /\ UNCHANGED <<milestone_index, updated>>
      BY <1>3, <2>3, UpdateFacts
    <3>2. Confirmed' = Confirmed  BY <3>1 DEF Confirmed
    <3>3. m \in SolidEntryPoints \cup Confirmed
      <4>1. m \in SolidEntryPoints \/ m \in Messages  BY DEF AllIds
      <4> QED  BY <2>1, <2>3, <4>1 DEF SkippedInPast, WalkInv, Confirmed
    <3>4. \A x \in updated \cup {event} :
            ParentsOf(x) \subseteq stack' \cup SolidEntryPoints \cup Confirmed
      BY <2>1, <3>1, <3>3 DEF WalkInv
    <3> QED  BY <2>1, <3>1, <3>2, <3>4 DEF WalkInv
  <2>4. CASE ~SkippedInPast(m)
    <3>1. /\ stack' = (stack \ {m}) \cup ParentsOf(m) /\ updated' = updated \cup {m}
          /\ m \in Messages
          /\ milestone_index' = [milestone_index EXCEPT ![m] = MilestoneIndexOf[event]]
      BY <1>3, <2>4, UpdateFacts
    <3>2. Confirmed' = Confirmed \cup {m}  BY <1>3, <2>4, UpdateConfirms
    <3>3. ParentsOf(m) \subseteq PastCone[event]  BY <2>2, <3>1, ConeParents
    <3>4. stack' \subseteq PastCone[event]  BY <2>1, <3>1, <3>3 DEF WalkInv
    <3>5. \A x \in updated' \cup {event} :
            ParentsOf(x) \subseteq stack' \cup SolidEntryPoints \cup Confirmed'
      BY <2>1, <3>1, <3>2 DEF WalkInv
    <3>6. \A x \in Messages : milestone_index'[x] = MilestoneIndexOf[event] =>
            x \in updated' \cup {event}
      BY <2>1, <3>1 DEF WalkInv, TipTypeOK
    <3>7. updated' \subseteq Confirmed'  BY <2>1, <3>1, <3>2 DEF WalkInv
    <3> QED  BY <2>1, <3>4, <3>5, <3>6, <3>7 DEF WalkInv
  <2> QED  BY <2>3, <2>4
<1>4. CASE EndPastCone \/ UpdateTipScores  BY <1>4 DEF EndPastCone, UpdateTipScores, WalkInv
<1>5. CASE UNCHANGED <<updater, event, updated>>
           /\ (UNCHANGED stack \/ \E m \in Messages : VisitFuture(m) \/ ReadChild(m))
  <2>0. CASE updater # "past"  BY <1>5, <2>0 DEF WalkInv
  <2> SUFFICES ASSUME updater = "past"  PROVE WalkInv'  BY <2>0
  <2>1. stack' = stack  BY <1>5 DEF VisitFuture, ReadChild, VisitingInv
  <2>2. /\ event \in Milestones /\ MilestoneIndexOf[event] <= smi /\ MilestoneIndexOf[event] \in Nat
        /\ event \in is_milestone
    BY MilestoneFacts DEF WalkInv, TipTypeOK
  <2>3. /\ MilestoneIndexOf[event] <= smi'
        /\ \A i \in DOMAIN events' : MilestoneIndexOf[event] < MilestoneIndexOf[events'[i]]
    <3>1. ASSUME NEW m \in Milestones, SolidifyMilestone(m)
          PROVE  /\ MilestoneIndexOf[event] <= smi'
                 /\ \A i \in DOMAIN events' : MilestoneIndexOf[event] < MilestoneIndexOf[events'[i]]
      <4>1. events' = Append(events, m) /\ smi' = smi + 1 /\ MilestoneIndexOf[m] = smi + 1
        BY <3>1 DEF SolidifyMilestone
      <4>2. \A i \in DOMAIN events' : (i \in DOMAIN events /\ events'[i] = events[i]) \/ events'[i] = m
        BY <1>1, <4>1, QueueFacts
      <4> QED  BY <1>1, <2>2, <4>1, <4>2 DEF WalkInv
    <3>2. ~StartUpdate  BY DEF StartUpdate
    <3>3. CASE UNCHANGED <<smi, events>>  BY <2>2, <3>3 DEF WalkInv
    <3> QED  BY <3>1, <3>2, <3>3, EventsSteps
  <2>4. ASSUME NEW m \in Milestones, AddMilestone(m)  PROVE WalkInv'
    <3>1. /\ m \in Messages \ Confirmed /\ Confirmed' = Confirmed \cup {m}
          /\ milestone_index' = [milestone_index EXCEPT ![m] = MilestoneIndexOf[m]]
      BY <2>4, AddMilestoneFacts
    <3>2. \A x \in Messages : milestone_index'[x] = MilestoneIndexOf[event] =>
            milestone_index[x] = MilestoneIndexOf[event] \/ x = event
      BY <2>2, <3>1, MilestoneFacts DEF TipTypeOK
    <3> QED  BY <1>0, <1>5, <2>1, <2>3, <3>1, <3>2, WalkKept
  <2>5. CASE UNCHANGED milestone_index
    <3>1. Confirmed' = Confirmed  BY <2>5 DEF Confirmed
    <3> QED  BY <1>0, <1>5, <2>1, <2>3, <2>5, <3>1, WalkKept
  <2>6. CASE FinishPropagation  BY <2>5, <2>6, FinishFacts
  <2>7. CASE UpdateChildOmrsi \/ UpdateChildYmrsi
    BY <2>5, <2>7 DEF UpdateChildOmrsi, UpdateChildYmrsi
  <2>8. ASSUME NEW m \in AllIds, UpdatePastCone(m)  PROVE WalkInv'  BY <1>3, <2>8
  <2> QED  BY <2>4, <2>5, <2>6, <2>7, <2>8, MetadataSteps
<1> QED  BY <1>2, <1>3, <1>4, <1>5, UpdaterSteps

-----------------------------------------------------------------------------
(***************************************************************************)
(* The xMRSI values, as long as there was no race.                         *)
(***************************************************************************)
\* A confirmed message keeps its index.
LEMMA IndexesStay ==
  ASSUME IndexInv, TipStep
  PROVE  \A x \in Confirmed : milestone_index'[x] = milestone_index[x] /\ x \in Confirmed'
<1> USE DEF IndexInv
<1>1. ASSUME NEW m \in Messages \ Confirmed, NEW i,
             milestone_index' = [milestone_index EXCEPT ![m] = i]
      PROVE  \A x \in Confirmed : milestone_index'[x] = milestone_index[x] /\ x \in Confirmed'
  BY <1>1 DEF Confirmed, TipTypeOK
<1>2. CASE UNCHANGED milestone_index  BY <1>2 DEF Confirmed
<1>3. ASSUME NEW m \in Milestones, AddMilestone(m)
      PROVE  \A x \in Confirmed : milestone_index'[x] = milestone_index[x] /\ x \in Confirmed'
  BY <1>1, <1>3, AddMilestoneFacts
<1>4. ASSUME NEW m \in AllIds, UpdatePastCone(m)
      PROVE  \A x \in Confirmed : milestone_index'[x] = milestone_index[x] /\ x \in Confirmed'
  BY <1>1, <1>2, <1>4, UpdateFacts
<1>5. CASE FinishPropagation  BY <1>2, <1>5, FinishFacts
<1>6. CASE UpdateChildOmrsi \/ UpdateChildYmrsi
  BY <1>2, <1>6 DEF UpdateChildOmrsi, UpdateChildYmrsi
<1> QED  BY <1>2, <1>3, <1>4, <1>5, <1>6, MetadataSteps

\* A root remains one.
LEMMA RootedStays ==
  ASSUME IndexInv, TipStep
  PROVE  \A m \in Messages : \A v :
           Rooted(milestone_index, m, v) => Rooted(milestone_index', m, v)
<1> SUFFICES ASSUME NEW m \in Messages, NEW v, Rooted(milestone_index, m, v)
             PROVE  Rooted(milestone_index', m, v)
  OBVIOUS
<1>1. v.id \in SolidEntryPoints \/ v.id \in Messages  BY ConeSelf DEF Rooted, AllIds
<1>2. CASE v.id \in SolidEntryPoints  BY <1>2 DEF Rooted
<1>3. CASE v.id \notin SolidEntryPoints
  <2>1. v.id \in Confirmed /\ v.index = milestone_index[v.id]  BY <1>1, <1>3 DEF Rooted, Confirmed
  <2>2. milestone_index'[v.id] = milestone_index[v.id] /\ v.id \in Confirmed'
    BY <2>1, IndexesStay
  <2> QED  BY <1>3, <2>1, <2>2 DEF Rooted, Confirmed
<1> QED  BY <1>2, <1>3

\* A confirmed message is a root of itself.
LEMMA OwnRoot ==
  ASSUME NEW m \in Messages, NEW i \in Nat, NEW mi, mi[m] = i
  PROVE  Rooted(mi, m, IndexId(i, m))
<1>1. m \in AllIds /\ i # None /\ m \notin SolidEntryPoints  BY MilestoneFacts DEF AllIds
<1> QED  BY <1>1, ValueType, ConeSelf DEF Rooted

\* The updates of the future walk write what is there.
LEMMA DueIsWritten ==
  ASSUME IndexInv, ~raced, UpdateChildOmrsi \/ UpdateChildYmrsi
  PROVE  /\ UNCHANGED <<solid, is_milestone, milestone_index, omrsi, ymrsi, propagating, updater>>
         /\ visiting # None /\ visiting \in Visits
         /\ \E d \in SUBSET visiting.due : visiting' = [visiting EXCEPT !.due = d]
<1> USE DEF IndexInv
<1>1. visiting # None /\ visiting \in Visits
  BY DEF UpdateChildOmrsi, UpdateChildYmrsi, VisitingInv
<1>2. visiting.child \in Messages  BY <1>1 DEF Visits
<1>3. CASE UpdateChildOmrsi
  <2>1. omrsi[visiting.child] = IndexId(visiting.omrsi.index, visiting.message)
    BY <1>1, <1>3 DEF UpdateChildOmrsi, DueInv
  <2>2. omrsi' = omrsi  BY <1>2, <1>3, <2>1 DEF UpdateChildOmrsi, TipTypeOK
  <2> QED  BY <1>1, <1>3, <2>2 DEF UpdateChildOmrsi, Visits
<1>4. CASE UpdateChildYmrsi
  <2>1. ymrsi[visiting.child] = IndexId(visiting.ymrsi.index, visiting.message)
    BY <1>1, <1>4 DEF UpdateChildYmrsi, DueInv
  <2>2. ymrsi' = ymrsi  BY <1>2, <1>4, <2>1 DEF UpdateChildYmrsi, TipTypeOK
  <2> QED  BY <1>1, <1>4, <2>2 DEF UpdateChildYmrsi, Visits
<1> QED  BY <1>3, <1>4

\* The message being propagated is not confirmed, unless it is a milestone.
LEMMA PropagatedIsNew ==
  ASSUME IndexInv, propagating # None, propagating.message \notin is_milestone
  PROVE  propagating.message \in Messages \ Confirmed
BY DEF IndexInv, PropagatingInv, Propagations, ConfirmedInv

\* Confirmed messages.
LEMMA OwnStep ==
  ASSUME IndexInv, TipStep, ~raced  PROVE OwnRoots'
<1> USE DEF IndexInv
<1>1. ASSUME NEW m \in Messages \ Confirmed, NEW i, Confirmed' = Confirmed \cup {m},
             milestone_index' = [milestone_index EXCEPT ![m] = i],
             omrsi' = [omrsi EXCEPT ![m] = IndexId(i, m)],
             ymrsi' = [ymrsi EXCEPT ![m] = IndexId(i, m)]
      PROVE  OwnRoots'
  <2> SUFFICES ASSUME NEW x \in Confirmed'
               PROVE  /\ omrsi'[x] = IndexId(milestone_index'[x], x)
                      /\ ymrsi'[x] = IndexId(milestone_index'[x], x)
    BY DEF OwnRoots
  <2>1. x \in Messages  BY <1>1 DEF Confirmed
  <2>2. CASE x = m  BY <1>1, <2>2 DEF TipTypeOK
  <2>3. CASE x # m
    <3>1. x \in Confirmed  BY <1>1, <2>3
    <3>2. omrsi'[x] = omrsi[x] /\ ymrsi'[x] = ymrsi[x] /\ milestone_index'[x] = milestone_index[x]
      BY <1>1, <2>1, <2>3 DEF TipTypeOK
    <3> QED  BY <3>1, <3>2 DEF OwnRoots
  <2> QED  BY <2>2, <2>3
<1>2. CASE UNCHANGED <<milestone_index, omrsi, ymrsi>>  BY <1>2 DEF OwnRoots, Confirmed
<1>3. ASSUME NEW m \in Milestones, AddMilestone(m)  PROVE OwnRoots'
  BY <1>1, <1>3, AddMilestoneFacts
<1>4. ASSUME NEW m \in AllIds, UpdatePastCone(m)  PROVE OwnRoots'
  <2>1. CASE SkippedInPast(m)  BY <1>2, <1>4, <2>1, UpdateFacts
  <2>2. CASE ~SkippedInPast(m)
    <3>1. Confirmed' = Confirmed \cup {m}  BY <1>4, <2>2, UpdateConfirms
    <3>2. /\ m \in Messages \ Confirmed
          /\ milestone_index' = [milestone_index EXCEPT ![m] = MilestoneIndexOf[event]]
          /\ omrsi' = [omrsi EXCEPT ![m] = IndexId(MilestoneIndexOf[event], m)]
          /\ ymrsi' = [ymrsi EXCEPT ![m] = IndexId(MilestoneIndexOf[event], m)]
      BY <1>4, <2>2, UpdateFacts
    <3> QED  BY <1>1, <3>1, <3>2
  <2> QED  BY <2>1, <2>2
<1>5. CASE FinishPropagation
  <2> DEFINE m == propagating.message
  <2>1. /\ UNCHANGED milestone_index
        /\ \/ UNCHANGED <<omrsi, ymrsi>>
           \/ /\ m \notin is_milestone
              /\ \E o, y : omrsi' = [omrsi EXCEPT ![m] = o] /\ ymrsi' = [ymrsi EXCEPT ![m] = y]
    BY <1>5, FinishFacts
  <2>2. m \notin is_milestone => m \in Messages \ Confirmed
    BY <1>5, PropagatedIsNew DEF FinishPropagation
  <2> HIDE DEF m
  <2>3. \A x \in Confirmed : omrsi'[x] = omrsi[x] /\ ymrsi'[x] = ymrsi[x]
    BY <2>1, <2>2 DEF Confirmed, TipTypeOK
  <2> QED  BY <2>1, <2>3 DEF OwnRoots, Confirmed
<1>6. CASE UpdateChildOmrsi \/ UpdateChildYmrsi  BY <1>2, <1>6, DueIsWritten
<1> QED  BY <1>2, <1>3, <1>4, <1>5, <1>6, MetadataSteps

\* The values of one message change.
LEMMA RootsOne ==
  ASSUME IndexInv, ~raced, TipStep, NEW m \in Messages, NEW o \in Values, NEW y \in Values,
         omrsi' = [omrsi EXCEPT ![m] = o], ymrsi' = [ymrsi EXCEPT ![m] = y],
         Rooted(milestone_index', m, o), Rooted(milestone_index', m, y), o.index <= y.index
  PROVE  RootsInv'
<1> USE DEF IndexInv
<1> SUFFICES ASSUME NEW x \in Messages
             PROVE  /\ omrsi'[x] # None => Rooted(milestone_index', x, omrsi'[x])
                    /\ ymrsi'[x] # None => Rooted(milestone_index', x, ymrsi'[x])
                    /\ omrsi'[x] # None /\ ymrsi'[x] # None => omrsi'[x].index <= ymrsi'[x].index
  BY DEF RootsInv
<1>1. CASE x = m
  <2>1. omrsi'[x] = o /\ ymrsi'[x] = y  BY <1>1 DEF TipTypeOK
  <2> QED  BY <1>1, <2>1
<1>2. CASE x # m
  <2>1. omrsi'[x] = omrsi[x] /\ ymrsi'[x] = ymrsi[x]  BY <1>2 DEF TipTypeOK
  <2>2. /\ omrsi[x] # None => Rooted(milestone_index, x, omrsi[x])
        /\ ymrsi[x] # None => Rooted(milestone_index, x, ymrsi[x])
        /\ omrsi[x] # None /\ ymrsi[x] # None => omrsi[x].index <= ymrsi[x].index
    BY DEF RootsInv
  <2> QED  BY <2>1, <2>2, RootedStays
<1> QED  BY <1>1, <1>2

\* A step that leaves all values alone.
LEMMA RootsKept ==
  ASSUME IndexInv, ~raced, TipStep, UNCHANGED <<omrsi, ymrsi>>  PROVE RootsInv'
<1> USE DEF IndexInv
<1> SUFFICES ASSUME NEW x \in Messages
             PROVE  /\ omrsi[x] # None => Rooted(milestone_index', x, omrsi[x])
                    /\ ymrsi[x] # None => Rooted(milestone_index', x, ymrsi[x])
                    /\ omrsi[x] # None /\ ymrsi[x] # None => omrsi[x].index <= ymrsi[x].index
  BY DEF RootsInv
<1>1. /\ omrsi[x] # None => Rooted(milestone_index, x, omrsi[x])
      /\ ymrsi[x] # None => Rooted(milestone_index, x, ymrsi[x])
      /\ omrsi[x] # None /\ ymrsi[x] # None => omrsi[x].index <= ymrsi[x].index
  BY DEF RootsInv
<1> QED  BY <1>1, RootedStays

\* The roots of all messages.
LEMMA RootsStep ==
  ASSUME IndexInv, TipStep, ~raced  PROVE RootsInv'
<1> USE DEF IndexInv
<1>1. ASSUME NEW m \in Messages, NEW i \in Nat,
             milestone_index' = [milestone_index EXCEPT ![m] = i],
             omrsi' = [omrsi EXCEPT ![m] = IndexId(i, m)],
             ymrsi' = [ymrsi EXCEPT ![m] = IndexId(i, m)]
      PROVE  RootsInv'
  <2> DEFINE v == IndexId(i, m)
  <2>1. v \in Values /\ v.index = i  BY ValueType DEF AllIds
  <2>2. milestone_index'[m] = i  BY <1>1 DEF TipTypeOK
  <2>3. Rooted(milestone_index', m, v)  BY <2>2, OwnRoot
  <2>4. v.index <= v.index  BY <2>1
  <2>5. omrsi' = [omrsi EXCEPT ![m] = v] /\ ymrsi' = [ymrsi EXCEPT ![m] = v]  BY <1>1
  <2> HIDE DEF v
  <2> QED  BY <2>1, <2>3, <2>4, <2>5, RootsOne
<1>2. CASE UNCHANGED <<omrsi, ymrsi>>  BY <1>2, RootsKept
<1>3. ASSUME NEW m \in Milestones, AddMilestone(m)  PROVE RootsInv'
  BY <1>1, <1>3, AddMilestoneFacts, MilestoneFacts
<1>4. ASSUME NEW m \in AllIds, UpdatePastCone(m)  PROVE RootsInv'
  <2>1. CASE SkippedInPast(m)  BY <1>2, <1>4, <2>1, UpdateFacts
  <2>2. CASE ~SkippedInPast(m)
    <3>1. /\ m \in Messages /\ event \in Milestones
          /\ milestone_index' = [milestone_index EXCEPT ![m] = MilestoneIndexOf[event]]
          /\ omrsi' = [omrsi EXCEPT ![m] = IndexId(MilestoneIndexOf[event], m)]
          /\ ymrsi' = [ymrsi EXCEPT ![m] = IndexId(MilestoneIndexOf[event], m)]
      BY <1>4, <2>2, UpdateFacts
    <3>2. MilestoneIndexOf[event] \in Nat  BY <3>1, MilestoneFacts
    <3> QED  BY <1>1, <3>1, <3>2
  <2> QED  BY <2>1, <2>2
<1>5. CASE FinishPropagation
  <2> DEFINE m == propagating.message
             O == propagating.omrsis
             Y == propagating.ymrsis
  <2>1. /\ UNCHANGED milestone_index /\ m \in contained
        /\ \/ UNCHANGED <<omrsi, ymrsi>>
           \/ \E o \in Oldest(O), y \in Youngest(Y) :
                /\ o \in Values /\ y \in Values
                /\ omrsi' = [omrsi EXCEPT ![m] = o] /\ ymrsi' = [ymrsi EXCEPT ![m] = y]
    BY <1>5, FinishFacts
  <2>2. /\ \A v \in O \cup Y : Rooted(milestone_index, m, v)
        /\ O # {} => \E v \in O, w \in Y : v.index <= w.index
    BY <1>5 DEF ReadInv, FinishPropagation
  <2>3. O \subseteq Values /\ Y \subseteq Values
    BY <1>5 DEF PropagatingInv, Propagations, FinishPropagation
  <2>4. m \in Messages  BY <2>1 DEF TipTypeOK
  <2> HIDE DEF m, O, Y
  <2>5. ASSUME NEW o \in Oldest(O), NEW y \in Youngest(Y), o \in Values, y \in Values,
               omrsi' = [omrsi EXCEPT ![m] = o], ymrsi' = [ymrsi EXCEPT ![m] = y]
        PROVE  RootsInv'
    <3>1. o \in O /\ y \in Y  BY DEF Oldest, Youngest
    <3>2. PICK v \in O, w \in Y : v.index <= w.index  BY <2>2, <3>1
    <3>3. o.index <= v.index /\ w.index <= y.index  BY <2>3 DEF Oldest, Youngest, Values
    <3>4. o.index \in Nat /\ v.index \in Nat /\ w.index \in Nat /\ y.index \in Nat
      BY <2>3, <3>1 DEF Values
    <3>5. o.index <= y.index  BY <3>2, <3>3, <3>4
    <3>6. Rooted(milestone_index', m, o) /\ Rooted(milestone_index', m, y)
      BY <2>1, <2>2, <3>1
    <3> QED  BY <2>4, <2>5, <3>5, <3>6, RootsOne
  <2> QED  BY <1>2, <2>1, <2>5
<1>6. CASE UpdateChildOmrsi \/ UpdateChildYmrsi  BY <1>2, <1>6, DueIsWritten
<1> QED  BY <1>2, <1>3, <1>4, <1>5, <1>6, MetadataSteps

\* What the propagator has read.
LEMMA ReadStep ==
  ASSUME IndexInv, TipStep, ~raced  PROVE ReadInv'
<1> USE DEF IndexInv
<1>1. ASSUME NEW m \in Messages, StartPropagation(m)  PROVE ReadInv'
  <2>1. propagating' = [message |-> m, left |-> Approves[m], omrsis |-> {}, ymrsis |-> {}]
    BY <1>1 DEF StartPropagation
  <2> QED  BY <2>1 DEF ReadInv
<1>2. CASE ReadParent
  <2> DEFINE p == Head(propagating.left)
             m == propagating.message
             o == OmrsiOf(p)
             y == YmrsiOf(p)
  <2>1. /\ p \in ParentsOf(m) /\ p \in solid \cup SolidEntryPoints
        /\ propagating'.message = m
        /\ propagating'.omrsis = propagating.omrsis \cup {o}
        /\ propagating'.ymrsis = propagating.ymrsis \cup {y}
    BY <1>2, ReadParentFacts
  <2>2. propagating # None /\ m \in Messages /\ UNCHANGED milestone_index
    BY <1>2 DEF ReadParent, PropagatingInv, Propagations, metadataVars
  <2>3. /\ \A v \in propagating.omrsis \cup propagating.ymrsis : Rooted(milestone_index, m, v)
        /\ propagating.omrsis # {} =>
             \E v \in propagating.omrsis, w \in propagating.ymrsis : v.index <= w.index
    BY <2>2 DEF ReadInv
  <2>4. Rooted(milestone_index, m, o) /\ Rooted(milestone_index, m, y) /\ o.index <= y.index
    <3>1. p \in PastCone[m] /\ (p \in Messages => PastCone[p] \subseteq PastCone[m])
      BY <2>1, <2>2, ConeOfParent
    <3>2. CASE p \in SolidEntryPoints
      <4>1. o = IndexId(StartIndex, p) /\ y = IndexId(StartIndex, p)  BY <2>1, <3>2, ParentValues
      <4>2. o.id = p /\ y.id = p /\ o.index = StartIndex /\ y.index = StartIndex
        BY <3>2, <4>1, ValueType, MilestoneFacts DEF AllIds
      <4>3. StartIndex <= StartIndex  BY MilestoneFacts
      <4> HIDE DEF p, m, o, y
      <4> QED  BY <3>1, <3>2, <4>2, <4>3 DEF Rooted
    <3>3. CASE p \notin SolidEntryPoints
      <4>1. o = omrsi[p] /\ y = ymrsi[p] /\ omrsi[p] # None /\ ymrsi[p] # None
        BY <2>1, <3>3, ParentValues
      <4>2. p \in Messages  BY <2>1, <3>3 DEF TipTypeOK
      <4> HIDE DEF p, m, o, y
      <4>3. Rooted(milestone_index, p, o) /\ Rooted(milestone_index, p, y) /\ o.index <= y.index
        BY <4>1, <4>2 DEF RootsInv
      <4> QED  BY <3>1, <4>2, <4>3 DEF Rooted
    <3> QED  BY <3>2, <3>3
  <2> HIDE DEF p, m, o, y
  <2>5. \A v \in propagating'.omrsis \cup propagating'.ymrsis :
           Rooted(milestone_index', propagating'.message, v)
    BY <2>1, <2>2, <2>3, <2>4
  <2>6. \E v \in propagating'.omrsis, w \in propagating'.ymrsis : v.index <= w.index
    BY <2>1, <2>4
  <2> QED  BY <2>5, <2>6 DEF ReadInv
<1>3. CASE FinishPropagation
  <2>1. propagating' = None  BY <1>3, FinishFacts
  <2> QED  BY <2>1 DEF ReadInv
<1>4. CASE UNCHANGED propagating
  <2> SUFFICES ASSUME propagating # None  PROVE ReadInv'  BY <1>4 DEF ReadInv
  <2>1. propagating.message \in Messages  BY DEF PropagatingInv, Propagations
  <2>2. \A v \in propagating.omrsis \cup propagating.ymrsis :
           Rooted(milestone_index, propagating.message, v)
    BY DEF ReadInv
  <2>3. \A v \in propagating.omrsis \cup propagating.ymrsis :
           Rooted(milestone_index', propagating.message, v)
    BY <2>1, <2>2, RootedStays
  <2> QED  BY <1>4, <2>3 DEF ReadInv
<1> QED  BY <1>1, <1>2, <1>3, <1>4, PropagatingSteps

\* What the future walk is about to write.
LEMMA DueStep ==
  ASSUME IndexInv, TipStep, ~raced, ~raced'  PROVE DueInv'
<1> USE DEF IndexInv
<1>1. ASSUME NEW m \in Messages, VisitFuture(m)  PROVE DueInv'
  <2>1. CASE visiting' = None  BY <2>1 DEF DueInv
  <2>2. CASE visiting' # None
    <3>1. /\ visiting' = [message |-> m, omrsi |-> omrsi[m], ymrsi |-> ymrsi[m],
                          left |-> ChildrenOf(m), child |-> m, due |-> {}]
          /\ UNCHANGED milestone_index
      BY <1>1, <2>2 DEF VisitFuture, metadataVars
    <3>2. ASSUME m \in Confirmed
          PROVE  omrsi[m].index = milestone_index[m] /\ ymrsi[m].index = milestone_index[m]
      <4>1. /\ omrsi[m] = IndexId(milestone_index[m], m)
            /\ ymrsi[m] = IndexId(milestone_index[m], m)
        BY <3>2 DEF OwnRoots
      <4>2. milestone_index[m] \in Nat /\ m \in AllIds  BY <3>2 DEF Confirmed, TipTypeOK, AllIds
      <4> QED  BY <4>1, <4>2, ValueType
    <3>3. /\ visiting'.message = m /\ visiting'.due = {}
          /\ visiting'.omrsi = omrsi[m] /\ visiting'.ymrsi = ymrsi[m]
      BY <3>1
    <3>4. Confirmed' = Confirmed  BY <3>1 DEF Confirmed
    <3> QED  BY <3>1, <3>2, <3>3, <3>4 DEF DueInv
  <2> QED  BY <2>1, <2>2
<1>2. ASSUME NEW c \in Messages, ReadChild(c)  PROVE DueInv'
  <2>1. /\ visiting # None /\ visiting \in Visits /\ visiting.due = {} /\ c \in visiting.left
        /\ UNCHANGED <<milestone_index, omrsi, ymrsi>>
    BY <1>2 DEF ReadChild, VisitingInv, metadataVars
  <2>2. Confirmed' = Confirmed  BY <2>1 DEF Confirmed
  <2>3. CASE milestone_index[c] # None
    <3>1. visiting' = [visiting EXCEPT !.left = @ \ {c}]  BY <1>2, <2>3 DEF ReadChild
    <3>2. /\ visiting'.due = {} /\ visiting'.message = visiting.message
          /\ visiting'.omrsi = visiting.omrsi /\ visiting'.ymrsi = visiting.ymrsi
      BY <2>1, <3>1 DEF Visits
    <3> QED  BY <2>1, <2>2, <3>2 DEF DueInv
  <2>4. CASE milestone_index[c] = None
    <3> DEFINE d == Due(c, visiting.message)
               q == visiting.message
    <3>1. visiting' = [visiting EXCEPT !.left = @ \ {c}, !.child = c, !.due = d]
      BY <1>2, <2>4 DEF ReadChild
    <3>2. /\ "omrsi" \in d => omrsi[c] # None /\ omrsi[c].id = q
          /\ "ymrsi" \in d => ymrsi[c] # None /\ ymrsi[c].id = q
      BY DEF Due, Follows
    <3>3. q \in Messages /\ q \notin SolidEntryPoints  BY <2>1, MilestoneFacts DEF Visits
    <3> HIDE DEF d
    <3>4. /\ visiting'.due = d /\ visiting'.message = q /\ visiting'.child = c
          /\ visiting'.omrsi = visiting.omrsi /\ visiting'.ymrsi = visiting.ymrsi
      BY <2>1, <3>1 DEF Visits
    <3> HIDE DEF q
    <3>5. /\ q \in Confirmed => /\ visiting.omrsi.index = milestone_index[q]
                                /\ visiting.ymrsi.index = milestone_index[q]
      BY <2>1 DEF DueInv, q
    <3>6. ASSUME NEW v \in Values, Rooted(milestone_index, c, v), v.id = q
          PROVE  q \in Confirmed /\ v = IndexId(milestone_index[q], q)
      <4>1. q \in Confirmed /\ v.index = milestone_index[q]
        BY <3>3, <3>6 DEF Rooted, Confirmed
      <4> QED  BY <3>6, <4>1 DEF Values, IndexId
    <3>7. ASSUME "omrsi" \in d  PROVE omrsi[c] = IndexId(visiting.omrsi.index, q)
      <4>1. omrsi[c] \in Values /\ omrsi[c].id = q  BY <3>2, <3>7 DEF TipTypeOK
      <4>2. Rooted(milestone_index, c, omrsi[c])  BY <3>2, <3>7 DEF RootsInv
      <4>3. q \in Confirmed /\ omrsi[c] = IndexId(milestone_index[q], q)  BY <3>6, <4>1, <4>2
      <4> QED  BY <3>5, <4>3
    <3>8. ASSUME "ymrsi" \in d  PROVE ymrsi[c] = IndexId(visiting.ymrsi.index, q)
      <4>1. ymrsi[c] \in Values /\ ymrsi[c].id = q  BY <3>2, <3>8 DEF TipTypeOK
      <4>2. Rooted(milestone_index, c, ymrsi[c])  BY <3>2, <3>8 DEF RootsInv
      <4>3. q \in Confirmed /\ ymrsi[c] = IndexId(milestone_index[q], q)  BY <3>6, <4>1, <4>2
      <4> QED  BY <3>5, <4>3
    <3>9. c \notin Confirmed  BY <2>4 DEF Confirmed
    <3> QED  BY <2>1, <2>2, <3>4, <3>5, <3>7, <3>8, <3>9 DEF DueInv
  <2> QED  BY <2>3, <2>4
<1>3. CASE UpdateChildOmrsi \/ UpdateChildYmrsi
  <2>1. UNCHANGED <<milestone_index, omrsi, ymrsi>> /\ visiting # None /\ visiting \in Visits
    BY <1>3, DueIsWritten
  <2>2. PICK d \in SUBSET visiting.due : visiting' = [visiting EXCEPT !.due = d]
    BY <1>3, DueIsWritten
  <2>3. /\ visiting'.due = d /\ visiting'.message = visiting.message
        /\ visiting'.child = visiting.child
        /\ visiting'.omrsi = visiting.omrsi /\ visiting'.ymrsi = visiting.ymrsi
    BY <2>1, <2>2 DEF Visits
  <2>4. Confirmed' = Confirmed  BY <2>1 DEF Confirmed
  <2> QED  BY <2>1, <2>2, <2>3, <2>4 DEF DueInv
<1>4. CASE EndVisit  BY <1>4 DEF EndVisit, DueInv
<1>5. CASE UNCHANGED visiting
  <2> SUFFICES ASSUME visiting # None  PROVE DueInv'  BY <1>5 DEF DueInv
  <2>1. visiting \in Visits /\ updater = "future"
    BY DEF VisitingInv
  <2>2. visiting.message \in Messages /\ visiting.child \in Messages  BY <2>1 DEF Visits
  <2>3. ASSUME NEW m \in Milestones, AddMilestone(m)  PROVE DueInv'
    <3>1. /\ m \in Messages /\ Confirmed' = Confirmed \cup {m} /\ ~InVisit(m)
          /\ milestone_index' = [milestone_index EXCEPT ![m] = MilestoneIndexOf[m]]
          /\ omrsi' = [omrsi EXCEPT ![m] = IndexId(MilestoneIndexOf[m], m)]
          /\ ymrsi' = [ymrsi EXCEPT ![m] = IndexId(MilestoneIndexOf[m], m)]
      BY <2>3, AddMilestoneFacts
    <3>2. m # visiting.message /\ (visiting.due # {} => m # visiting.child)
      BY <3>1 DEF InVisit
    <3>3. /\ visiting.message \in Confirmed' <=> visiting.message \in Confirmed
          /\ milestone_index'[visiting.message] = milestone_index[visiting.message]
      BY <2>2, <3>1, <3>2 DEF TipTypeOK
    <3>4. ASSUME visiting.due # {}
          PROVE  /\ visiting.child \in Confirmed' <=> visiting.child \in Confirmed
                 /\ omrsi'[visiting.child] = omrsi[visiting.child]
                 /\ ymrsi'[visiting.child] = ymrsi[visiting.child]
      BY <2>2, <3>1, <3>2, <3>4 DEF TipTypeOK
    <3> QED  BY <1>5, <3>3, <3>4 DEF DueInv
  <2>4. CASE FinishPropagation
    <3> DEFINE m == propagating.message
    <3>1. /\ UNCHANGED milestone_index /\ m \notin solid
          /\ \/ UNCHANGED <<omrsi, ymrsi>>
             \/ \E o, y : omrsi' = [omrsi EXCEPT ![m] = o] /\ ymrsi' = [ymrsi EXCEPT ![m] = y]
      BY <2>4, FinishFacts
    <3> HIDE DEF m
    <3>2. Confirmed' = Confirmed  BY <3>1 DEF Confirmed
    <3>3. ASSUME visiting.due # {}
          PROVE  /\ omrsi'[visiting.child] = omrsi[visiting.child]
                 /\ ymrsi'[visiting.child] = ymrsi[visiting.child]
      <4>1. visiting.child \notin Confirmed /\ visiting.child \in solid \cup is_milestone
        BY <3>3 DEF DueInv, VisitingInv
      <4>2. ASSUME visiting.child \in is_milestone  PROVE visiting.child \in Confirmed
        <5>1. milestone_index[visiting.child] = MilestoneIndexOf[visiting.child]
          BY <4>2 DEF ConfirmedInv
        <5>2. MilestoneIndexOf[visiting.child] \in Nat  BY <4>2, MilestoneFacts DEF TipTypeOK
        <5> QED  BY <2>2, <5>1, <5>2, MilestoneFacts DEF Confirmed
      <4>3. visiting.child # m  BY <3>1, <4>1, <4>2
      <4> QED  BY <2>2, <3>1, <4>3 DEF TipTypeOK
    <3> QED  BY <1>5, <3>1, <3>2, <3>3 DEF DueInv
  <2>5. ASSUME NEW m \in AllIds, UpdatePastCone(m)  PROVE FALSE
    BY <2>1, <2>5 DEF UpdatePastCone
  <2>6. CASE UNCHANGED <<milestone_index, omrsi, ymrsi>>
    <3>1. Confirmed' = Confirmed  BY <2>6 DEF Confirmed
    <3> QED  BY <1>5, <2>6, <3>1 DEF DueInv
  <2>7. CASE UpdateChildOmrsi \/ UpdateChildYmrsi  BY <1>3, <2>7
  <2> QED  BY <2>3, <2>4, <2>5, <2>6, <2>7, MetadataSteps
<1> QED  BY <1>1, <1>2, <1>3, <1>4, <1>5, VisitingSteps

-----------------------------------------------------------------------------
(***************************************************************************)
(* The theorems.                                                           *)
(***************************************************************************)
\* The invariant holds at the start.
LEMMA IndexInitially == ASSUME TipInit  PROVE IndexInv
<1>1. TipTypeOK
  BY TipAssumption DEF TipInit, TipTypeOK
<1>2. PropagatingInv /\ VisitingInv /\ EventsInv /\ WalkInv
  BY DEF TipInit, PropagatingInv, VisitingInv, EventsInv, WalkInv
<1>3. SolidInv  BY DEF TipInit, SolidInv
<1>4. Confirmed = {}  BY DEF TipInit, Confirmed
<1>5. \A k \in Milestones : ~Done(k)
  BY MilestoneFacts DEF TipInit, Done
<1>6. ConfirmedInv  BY <1>4, <1>5 DEF TipInit, ConfirmedInv
<1>7. OwnRoots /\ RootsInv /\ ReadInv /\ DueInv
  BY <1>4 DEF TipInit, OwnRoots, RootsInv, ReadInv, DueInv
<1> QED  BY <1>1, <1>2, <1>3, <1>6, <1>7 DEF IndexInv

\* Every step keeps it.
LEMMA IndexKept == ASSUME IndexInv, TipStep  PROVE IndexInv'
<1>1. TipTypeOK' /\ PropagatingInv' /\ VisitingInv' /\ EventsInv' /\ SolidInv' /\ ConfirmedInv' /\ WalkInv'
  BY TypeStep, PropagatingStep, VisitingStep, EventsStep, SolidStep, ConfirmedStep, WalkStep
<1>2. ASSUME ~raced'  PROVE OwnRoots' /\ RootsInv' /\ ReadInv' /\ DueInv'
  <2>1. ~raced  BY <1>2, RacedSteps
  <2> QED  BY <1>2, <2>1, OwnStep, RootsStep, ReadStep, DueStep
<1> QED  BY <1>1, <1>2 DEF IndexInv

\* It implies what the indexes promise.
LEMMA IndexPromises == ASSUME IndexInv  PROVE IndexesSound
<1> USE DEF IndexInv
<1>1. ConesIndexed
  <2> SUFFICES ASSUME NEW m \in Messages
               PROVE  /\ milestone_index[m] # None =>
                           milestone_index[m] = Min({MilestoneIndexOf[k] : k \in
                              {l \in DOMAIN MilestoneIndexOf : m \in PastCone[l]}})
                      /\ (\E k \in {l \in DOMAIN MilestoneIndexOf : m \in PastCone[l]} :
                             MilestoneIndexOf[k] <= smi /\ k \notin Range(events)
                             /\ (updater # "past" \/ k # event))
                           => milestone_index[m] # None
    BY DEF ConesIndexed
  <2> DEFINE R == {l \in DOMAIN MilestoneIndexOf : m \in PastCone[l]}
             I == {MilestoneIndexOf[k] : k \in R}
  <2>1. ASSUME milestone_index[m] # None  PROVE milestone_index[m] = Min(I)
    <3>1. PICK k \in Milestones : milestone_index[m] = MilestoneIndexOf[k] /\ FirstToConfirm(k, m)
      BY <2>1 DEF ConfirmedInv, Confirmed
    <3>2. k \in R /\ \A l \in R : MilestoneIndexOf[k] <= MilestoneIndexOf[l]
      BY <3>1 DEF FirstToConfirm, Milestones
    <3>3. MilestoneIndexOf[k] \in I /\ \A i \in I : MilestoneIndexOf[k] <= i /\ i \in Nat
      BY <3>2, MilestoneFacts DEF Milestones
    <3> HIDE DEF I
    <3>4. \A x \in I : (\A i \in I : x <= i) => x = MilestoneIndexOf[k]  BY <3>3
    <3>5. Min(I) \in I /\ \A i \in I : Min(I) <= i  BY <3>3 DEF Min
    <3> QED  BY <3>1, <3>4, <3>5
  <2>2. ASSUME NEW k \in R, MilestoneIndexOf[k] <= smi, k \notin Range(events),
               updater # "past" \/ k # event
        PROVE  milestone_index[m] # None
    <3>1. Done(k) /\ k \in Milestones  BY <2>2 DEF Done, Milestones
    <3> QED  BY <2>2, <3>1 DEF ConfirmedInv, Confirmed
  <2> QED  BY <2>1, <2>2
<1>2. RootsConfirmed
  <2> SUFFICES ASSUME ~raced, NEW m \in solid, NEW v \in {omrsi[m], ymrsi[m]}
               PROVE  /\ v # None /\ v.id \in PastCone[m]
                      /\ v.index = IF v.id \in SolidEntryPoints THEN StartIndex
                                   ELSE milestone_index[v.id]
    BY DEF RootsConfirmed
  <2>1. m \in Messages /\ v # None  BY DEF TipTypeOK, SolidInv
  <2>2. Rooted(milestone_index, m, v)  BY <2>1 DEF RootsInv
  <2> QED  BY <2>1, <2>2 DEF Rooted
<1>3. OldestNotYounger
  <2> SUFFICES ASSUME ~raced, NEW m \in solid  PROVE omrsi[m].index <= ymrsi[m].index
    BY DEF OldestNotYounger
  <2>1. m \in Messages /\ omrsi[m] # None /\ ymrsi[m] # None  BY DEF TipTypeOK, SolidInv
  <2> QED  BY <2>1 DEF RootsInv
<1> QED  BY <1>1, <1>2, <1>3 DEF IndexesSound

\* The invariant, for all behaviours.
LEMMA IndexAlways == TipSpec => []IndexInv
<1>1. TipInit => IndexInv  BY IndexInitially
<1>2. IndexInv /\ [TipNext]_tipVars => IndexInv'  BY IndexKept DEF TipStep
<1> QED  BY <1>1, <1>2, PTL DEF TipSpec

\* Milestone indexes and xMRSI values are right for whoever reads them, while
\* the propagator, the index updater and the worker of milestone payloads
\* interleave (propagator.rs, index_updater.rs).
THEOREM IndexesStaySound == TipSpec => []IndexesSound
<1>1. IndexInv => IndexesSound  BY IndexPromises
<1> QED  BY <1>1, IndexAlways, PTL

\* As long as there was no race, an update of the future walk writes the value
\* that its child has.
WalkRewrites ==
  ~raced /\ (UpdateChildOmrsi \/ UpdateChildYmrsi) => UNCHANGED <<omrsi, ymrsi>>

\* The walk of the index updater through the future of the messages that it has
\* confirmed (index_updater.rs, update_future_cone) changes a value only after a
\* message became a milestone during its visit.
THEOREM FutureWalkChangesNothing == TipSpec => [][WalkRewrites]_tipVars
<1>1. IndexInv => WalkRewrites  BY DueIsWritten DEF WalkRewrites
<1>2. IndexInv /\ [TipNext]_tipVars => [WalkRewrites]_tipVars  BY <1>1
<1> QED  BY <1>2, IndexAlways, PTL DEF TipSpec

-----------------------------------------------------------------------------
(***************************************************************************)
(* The tip pool.                                                           *)
(***************************************************************************)
TipRecords == [children : SUBSET Messages, age : {"none", "young", "old"}]
TipMaps == UNION {[S -> TipRecords] : S \in SUBSET AllIds}

\* A pool whose non-lazy tips are members of J and have few children.
GoodPool(pool, J) ==
  /\ \A t \in DOMAIN pool.tips : IsFiniteSet(pool.tips[t].children)
  /\ pool.non_lazy \subseteq DOMAIN pool.tips \cap J
  /\ \A t \in pool.non_lazy : Cardinality(pool.tips[t].children) <= MAX_NUM_CHILDREN

Pools(J) == {pool \in [tips : TipMaps, non_lazy : SUBSET J] : GoodPool(pool, J)}

\* A pool in terms of its functions.
LEMMA PoolType ==
  ASSUME NEW J, NEW T \in SUBSET AllIds, NEW f \in [T -> TipRecords], NEW N \in SUBSET J,
         \A t \in T : IsFiniteSet(f[t].children), N \subseteq T,
         \A t \in N : Cardinality(f[t].children) <= MAX_NUM_CHILDREN
  PROVE  [tips |-> f, non_lazy |-> N] \in Pools(J)
<1>1. f \in TipMaps  BY DEF TipMaps
<1> DEFINE q == [tips |-> f, non_lazy |-> N]
<1>2. q \in [tips : TipMaps, non_lazy : SUBSET J]  BY <1>1
<1>3. q.tips = f /\ q.non_lazy = N /\ DOMAIN q.tips = T  OBVIOUS
<1> HIDE DEF q
<1>4. GoodPool(q, J)  BY <1>3 DEF GoodPool
<1>5. q \in Pools(J)  BY <1>2, <1>4 DEF Pools
<1> QED  BY <1>5 DEF q

\* The functions of a pool.
LEMMA PoolParts ==
  ASSUME NEW J, NEW pool \in Pools(J)
  PROVE  /\ pool = [tips |-> pool.tips, non_lazy |-> pool.non_lazy]
         /\ DOMAIN pool.tips \in SUBSET AllIds /\ pool.tips \in [DOMAIN pool.tips -> TipRecords]
         /\ pool.non_lazy \in SUBSET J /\ pool.non_lazy \subseteq DOMAIN pool.tips
         /\ \A t \in DOMAIN pool.tips : IsFiniteSet(pool.tips[t].children)
         /\ \A t \in pool.non_lazy : Cardinality(pool.tips[t].children) <= MAX_NUM_CHILDREN
<1>1. pool \in [tips : TipMaps, non_lazy : SUBSET J] /\ GoodPool(pool, J)  BY DEF Pools
<1>2. pool.tips \in TipMaps /\ pool.non_lazy \in SUBSET J  BY <1>1
<1>3. PICK S \in SUBSET AllIds : pool.tips \in [S -> TipRecords]  BY <1>2 DEF TipMaps
<1>4. DOMAIN pool.tips = S  BY <1>3
<1> QED  BY <1>1, <1>2, <1>3, <1>4 DEF GoodPool

\* A parent of the new tip gets a child, and is removed if it has too many.
LEMMA AddParentGood ==
  ASSUME NEW J, NEW pool \in Pools(J), NEW p \in AllIds, NEW m \in Messages
  PROVE  AddParent(pool, p, m) \in Pools(J)
<1> DEFINE T == DOMAIN pool.tips
           old == p \in T
           kids == IF old THEN pool.tips[p].children \cup {m} ELSE {m}
           rec == [children |-> kids,
                   age |-> IF old /\ pool.tips[p].age # "none" THEN pool.tips[p].age ELSE "young"]
           f == [x \in T \cup {p} |-> IF x = p THEN rec ELSE pool.tips[x]]
           N == pool.non_lazy
           more == [tips |-> f, non_lazy |-> N]
           less == [tips |-> [x \in (T \cup {p}) \ {p} |-> f[x]], non_lazy |-> N \ {p}]
<1>1. /\ pool = [tips |-> pool.tips, non_lazy |-> N]
      /\ T \in SUBSET AllIds /\ pool.tips \in [T -> TipRecords]
      /\ N \in SUBSET J /\ N \subseteq T
      /\ \A t \in T : IsFiniteSet(pool.tips[t].children)
      /\ \A t \in N : Cardinality(pool.tips[t].children) <= MAX_NUM_CHILDREN
  BY PoolParts
<1>2. add_child(pool, p, m) = more
  <2>1. add_child(pool, p, m) = [pool EXCEPT !.tips = f]  BY DEF add_child, WithTip
  <2> QED  BY <1>1, <2>1
<1>3. IsFiniteSet(kids) /\ kids \in SUBSET Messages
  <2>1. CASE old
    <3> DEFINE K == pool.tips[p].children
    <3>1. K \in SUBSET Messages /\ IsFiniteSet(K)  BY <1>1, <2>1 DEF TipRecords
    <3> HIDE DEF K
    <3>2. IsFiniteSet(K \cup {m}) /\ K \cup {m} \in SUBSET Messages  BY <3>1, FS_AddElement
    <3> QED  BY <2>1, <3>2 DEF K
  <2>2. CASE ~old  BY <2>2, FS_Singleton
  <2> QED  BY <2>1, <2>2
<1>4. rec \in TipRecords /\ rec.children = kids
  BY <1>1, <1>3 DEF TipRecords
<1> HIDE DEF rec, kids
<1>5. /\ f \in [T \cup {p} -> TipRecords] /\ f[p].children = kids
      /\ \A x \in T : x # p => f[x] = pool.tips[x]
  BY <1>1, <1>4
<1>6. \A x \in T \cup {p} : IsFiniteSet(f[x].children)  BY <1>1, <1>3, <1>5
<1>7. T \cup {p} \in SUBSET AllIds  BY <1>1
<1>8. less \in Pools(J)
  <2> DEFINE g == [x \in (T \cup {p}) \ {p} |-> f[x]]
  <2>1. /\ g \in [(T \cup {p}) \ {p} -> TipRecords] /\ N \ {p} \in SUBSET J
        /\ N \ {p} \subseteq (T \cup {p}) \ {p} /\ (T \cup {p}) \ {p} \in SUBSET AllIds
    BY <1>1, <1>5, <1>7
  <2>2. \A x \in (T \cup {p}) \ {p} : g[x] = pool.tips[x]  BY <1>5
  <2>3. /\ \A x \in (T \cup {p}) \ {p} : IsFiniteSet(g[x].children)
        /\ \A x \in N \ {p} : Cardinality(g[x].children) <= MAX_NUM_CHILDREN
    BY <1>1, <2>1, <2>2
  <2> HIDE DEF g
  <2>4. [tips |-> g, non_lazy |-> N \ {p}] \in Pools(J)  BY <2>1, <2>3, PoolType
  <2> QED  BY <2>4 DEF g
<1>9. ASSUME ~(Cardinality(kids) > MAX_NUM_CHILDREN)  PROVE more \in Pools(J)
  <2>1. Cardinality(kids) <= MAX_NUM_CHILDREN
    BY <1>3, <1>9, FS_CardinalityType, TipAssumption
  <2>2. \A x \in N : Cardinality(f[x].children) <= MAX_NUM_CHILDREN
    BY <1>1, <1>5, <2>1
  <2>3. N \subseteq T \cup {p}  BY <1>1
  <2> HIDE DEF f, T, N
  <2> QED  BY <1>1, <1>5, <1>6, <1>7, <2>2, <2>3, PoolType
<1>10. more.tips = f /\ more.non_lazy = N /\ DOMAIN f = T \cup {p}  OBVIOUS
<1>11. RemoveTip(more, p) = less
  BY <1>10 DEF RemoveTip, Restrict
<1>12. AddParent(pool, p, m) =
         IF Cardinality(N) > MAX_LIMIT_NON_LAZY \/ Cardinality(kids) > MAX_NUM_CHILDREN
            \/ f[p].age = "old"
         THEN less ELSE more
  <2> HIDE DEF f, more, less, N
  <2> QED  BY <1>2, <1>5, <1>10, <1>11 DEF AddParent, check_retention_rules_for_parent
<1> HIDE DEF more, less
<1> QED  BY <1>8, <1>9, <1>12

\* g inserts the tip m below its parents in s.
InsertsBelow(m, start, s, S, g) ==
  g = [T \in SUBSET S |->
         IF T = {} THEN start ELSE AddParent(g[T \ {Max(T)}], s[Max(T)], m)]

\* The fold behind insert.
LEMMA InsertIsFold ==
  ASSUME NEW m, NEW start, NEW s, s = Approves[m]
  PROVE  AddParents(start, m) = (CHOOSE g : InsertsBelow(m, start, s, DOMAIN s, g))[DOMAIN s]
BY DEF AddParents, FoldLeft, MapThenFoldSet, InsertsBelow

\* insert makes a good pool of a good pool.
LEMMA InsertGood ==
  ASSUME NEW J, NEW start \in Pools(J), NEW m \in Messages  PROVE AddParents(start, m) \in Pools(J)
<1>0. PICK s \in Seq(AllIds) : s = Approves[m]  BY TipAssumption
<1> DEFINE S == DOMAIN s
           X == Pools(J)
           step == [q \in X \X AllIds |-> AddParent(q[1], q[2], m)]
<1>1. IsFiniteSet(S) /\ S \subseteq Int /\ S \in SUBSET S /\ {} \in SUBSET S
  BY FS_Interval
<1>2. \A i \in S : s[i] \in AllIds  OBVIOUS
<1>3. \A q \in X, p \in AllIds : step[<<q, p>>] = AddParent(q, p, m) /\ AddParent(q, p, m) \in X
  BY AddParentGood
<1>4. PICK g : Folds(step, start, s, S, g)
  <2> HIDE DEF S, X, step
  <2> QED  BY <1>1, FoldExists
<1> HIDE DEF S, X, step
<1>5. \A T \in SUBSET S : T # {} => Max(T) \in S
  BY <1>1, FS_Subset, MaxIsElement
<1>6. \A T \in SUBSET S : g[T] \in X
  <2>1. g[{}] \in X  BY <1>1, <1>4 DEF Folds, X
  <2>2. ASSUME NEW T \in SUBSET S, T # {}, g[T \ {Max(T)}] \in X  PROVE g[T] \in X
    <3>1. g[T] = step[<<g[T \ {Max(T)}], s[Max(T)]>>]  BY <1>4, <2>2 DEF Folds
    <3>2. s[Max(T)] \in AllIds  BY <1>2, <1>5, <2>2
    <3> QED  BY <1>3, <2>2, <3>1, <3>2
  <2> QED  BY ONLY <1>1, <2>1, <2>2, FoldStays
<1>7. InsertsBelow(m, start, s, S, g)
  <2>1. ASSUME NEW T \in SUBSET S
        PROVE  (IF T = {} THEN start ELSE step[<<g[T \ {Max(T)}], s[Max(T)]>>])
                 = (IF T = {} THEN start ELSE AddParent(g[T \ {Max(T)}], s[Max(T)], m))
    <3>1. CASE T = {}  BY <3>1
    <3>2. CASE T # {}
      <4>1. g[T \ {Max(T)}] \in X /\ s[Max(T)] \in AllIds  BY <1>2, <1>5, <1>6, <3>2
      <4> QED  BY <1>3, <3>2, <4>1
    <3> QED  BY <3>1, <3>2
  <2> QED  BY <1>4, <2>1 DEF Folds, InsertsBelow
<1> DEFINE h == CHOOSE k : InsertsBelow(m, start, s, S, k)
<1>8. InsertsBelow(m, start, s, S, h)  BY <1>7
<1>9. AddParents(start, m) = h[S]  BY <1>0, InsertIsFold DEF S
<1> HIDE DEF h
<1>10. \A T \in SUBSET S : h[T] \in X
  <2>1. h[{}] \in X  BY <1>1, <1>8 DEF InsertsBelow, X
  <2>2. ASSUME NEW T \in SUBSET S, T # {}, h[T \ {Max(T)}] \in X  PROVE h[T] \in X
    <3>1. h[T] = AddParent(h[T \ {Max(T)}], s[Max(T)], m)  BY <1>8, <2>2 DEF InsertsBelow
    <3>2. s[Max(T)] \in AllIds  BY <1>2, <1>5, <2>2
    <3> QED  BY <1>3, <2>2, <3>1, <3>2
  <2> QED  BY ONLY <1>1, <2>1, <2>2, FoldStays
<1>11. h[S] \in X  BY <1>1, <1>10
<1> QED  BY <1>9, <1>11 DEF X

\* The inductive invariant of the pool.
PoolInv ==
  /\ solidified \in Seq(solid)
  /\ inserted \subseteq solid
  /\ [tips |-> tips, non_lazy |-> non_lazy_tips] \in Pools(inserted)

\* The pool in terms of its variables.
LEMMA PoolVariables ==
  ASSUME PoolInv
  PROVE  /\ DOMAIN tips \in SUBSET AllIds /\ tips \in [DOMAIN tips -> TipRecords]
         /\ non_lazy_tips \in SUBSET inserted /\ non_lazy_tips \subseteq DOMAIN tips
         /\ \A t \in DOMAIN tips : IsFiniteSet(tips[t].children)
         /\ \A t \in non_lazy_tips : Cardinality(tips[t].children) <= MAX_NUM_CHILDREN
<1> DEFINE pool == [tips |-> tips, non_lazy |-> non_lazy_tips]
<1>1. pool \in Pools(inserted)  BY DEF PoolInv
<1>2. pool.tips = tips /\ pool.non_lazy = non_lazy_tips  OBVIOUS
<1> HIDE DEF pool
<1> QED  BY <1>1, <1>2, PoolParts

\* Tips that are removed leave a good pool, whatever the age of the others.
LEMMA PoolShrinks ==
  ASSUME PoolInv, NEW K \in SUBSET DOMAIN tips, NEW f \in [K -> TipRecords],
         \A t \in K : f[t].children = tips[t].children,
         NEW N \in SUBSET non_lazy_tips, N \subseteq K
  PROVE  [tips |-> f, non_lazy |-> N] \in Pools(inserted)
<1>1. /\ K \in SUBSET AllIds /\ N \in SUBSET inserted
      /\ \A t \in K : IsFiniteSet(f[t].children)
      /\ \A t \in N : Cardinality(f[t].children) <= MAX_NUM_CHILDREN
  BY PoolVariables
<1> QED  BY <1>1, PoolType

\* The pool and what is on its way to it change in few steps.
LEMMA PoolSteps ==
  ASSUME TipStep
  PROVE  \/ FinishPropagation
         \/ UpdateTipScores
         \/ InsertTip
         \/ \E t \in AllIds : Age(t)
         \/ ReduceTips
         \/ UNCHANGED <<solidified, tips, non_lazy_tips, inserted>>
<1> USE DEF poolVars
<1>1. ASSUME NEW m \in Messages, ArriveMessage(m) \/ StartPropagation(m) \/ VisitFuture(m) \/ ReadChild(m)
      PROVE  UNCHANGED <<solidified, tips, non_lazy_tips, inserted>>
  BY <1>1 DEF ArriveMessage, StartPropagation, VisitFuture, ReadChild
<1>2. ASSUME NEW m \in Milestones, AddMilestone(m) \/ SolidifyMilestone(m)
      PROVE  UNCHANGED <<solidified, tips, non_lazy_tips, inserted>>
  BY <1>2 DEF AddMilestone, SolidifyMilestone
<1>3. ASSUME NEW p \in AllIds, UpdatePastCone(p)
      PROVE  UNCHANGED <<solidified, tips, non_lazy_tips, inserted>>
  BY <1>3 DEF UpdatePastCone
<1>4. ASSUME \/ ReadParent \/ StartUpdate \/ EndPastCone \/ EndVisit
             \/ UpdateChildOmrsi \/ UpdateChildYmrsi \/ UNCHANGED tipVars
      PROVE  UNCHANGED <<solidified, tips, non_lazy_tips, inserted>>
  BY <1>4 DEF ReadParent, StartUpdate, EndPastCone, EndVisit, UpdateChildOmrsi, UpdateChildYmrsi,
              tipVars
<1> QED  BY <1>1, <1>2, <1>3, <1>4 DEF TipStep, TipNext, Milestones

\* Every step keeps the invariant of the pool.
LEMMA PoolKept ==
  ASSUME IndexInv, PoolInv, TipStep  PROVE PoolInv'
<1> DEFINE T == DOMAIN tips
<1>0. /\ T \in SUBSET AllIds /\ tips \in [T -> TipRecords]
      /\ non_lazy_tips \in SUBSET inserted /\ non_lazy_tips \subseteq T
      /\ \A t \in T : IsFiniteSet(tips[t].children)
      /\ \A t \in non_lazy_tips : Cardinality(tips[t].children) <= MAX_NUM_CHILDREN
  BY PoolVariables
<1>1. CASE FinishPropagation
  <2> DEFINE m == propagating.message
  <2>1. solid' = solid \cup {m}  BY <1>1, FinishFacts DEF IndexInv
  <2>2. solidified' = Append(solidified, m) /\ UNCHANGED <<tips, non_lazy_tips, inserted>>
    BY <1>1 DEF FinishPropagation, poolVars
  <2> HIDE DEF m
  <2>3. solidified \in Seq(solid)  BY DEF PoolInv
  <2>4. Len(solidified) \in Nat /\ solidified \in [1 .. Len(solidified) -> solid']
    BY <2>1, <2>3
  <2>5. solidified \in Seq(solid') /\ m \in solid'  BY <2>1, <2>4
  <2>6. solidified' \in Seq(solid')  BY <2>2, <2>5
  <2> QED  BY <2>1, <2>2, <2>6 DEF PoolInv
<1>2. CASE UpdateTipScores
  <2> DEFINE kept == {t \in DOMAIN tips : NonLazy(t)}
  <2>1. /\ tips' = Restrict(tips, kept) /\ non_lazy_tips' = non_lazy_tips \ (DOMAIN tips \ kept)
        /\ UNCHANGED <<solid, solidified, inserted>>
    BY <1>2 DEF UpdateTipScores, metadataVars
  <2>2. kept \in SUBSET T  OBVIOUS
  <2> HIDE DEF kept
  <2>3. tips' = [x \in kept |-> tips[x]]  BY <2>1 DEF Restrict
  <2>4. /\ tips' \in [kept -> TipRecords] /\ \A t \in kept : tips'[t].children = tips[t].children
        /\ non_lazy_tips' \in SUBSET non_lazy_tips /\ non_lazy_tips' \subseteq kept
    BY <1>0, <2>1, <2>2, <2>3
  <2>5. [tips |-> tips', non_lazy |-> non_lazy_tips'] \in Pools(inserted)
    BY <2>2, <2>4, PoolShrinks
  <2> QED  BY <2>1, <2>5 DEF PoolInv
<1>3. CASE InsertTip
  <2> DEFINE m == Head(solidified)
             first == [children |-> {}, age |-> "none"]
             f == [x \in T \cup {m} |-> IF x = m THEN first ELSE tips[x]]
             start == [tips |-> f, non_lazy |-> non_lazy_tips \cup {m}]
             pool == AddParents(start, m)
             J == inserted \cup {m}
  <2>1. /\ solidified # <<>> /\ solidified' = Tail(solidified) /\ UNCHANGED solid
        /\ \/ UNCHANGED <<tips, non_lazy_tips, inserted>>
           \/ tips' = pool.tips /\ non_lazy_tips' = pool.non_lazy /\ inserted' = J
    BY <1>3 DEF InsertTip, WithTip, metadataVars, poolVars
  <2>2. m \in solid /\ solidified' \in Seq(solid')  BY <2>1 DEF PoolInv
  <2>3. m \in Messages /\ m \in AllIds  BY <2>2 DEF IndexInv, TipTypeOK, AllIds
  <2> HIDE DEF m
  <2>4. start \in Pools(J)
    <3>1. first \in TipRecords /\ first.children = {}  BY DEF TipRecords
    <3>2. IsFiniteSet({}) /\ Cardinality({}) <= MAX_NUM_CHILDREN
      BY FS_EmptySet, TipAssumption
    <3> HIDE DEF first
    <3>3. /\ f \in [T \cup {m} -> TipRecords] /\ T \cup {m} \in SUBSET AllIds
          /\ f[m] = first /\ \A x \in T : x # m => f[x] = tips[x]
      BY <1>0, <2>3, <3>1
    <3>4. /\ \A x \in T \cup {m} : IsFiniteSet(f[x].children)
          /\ \A x \in non_lazy_tips \cup {m} : Cardinality(f[x].children) <= MAX_NUM_CHILDREN
      BY <1>0, <3>1, <3>2, <3>3
    <3>5. /\ non_lazy_tips \cup {m} \in SUBSET J /\ non_lazy_tips \cup {m} \subseteq T \cup {m}
      BY <1>0
    <3> HIDE DEF f, T, J
    <3> QED  BY <3>3, <3>4, <3>5, PoolType
  <2> HIDE DEF start, J
  <2>5. pool \in Pools(J)  BY <2>3, <2>4, InsertGood
  <2> HIDE DEF pool
  <2>6. pool = [tips |-> pool.tips, non_lazy |-> pool.non_lazy]  BY <2>5, PoolParts
  <2>7. J \subseteq solid  BY <2>2 DEF J, PoolInv
  <2> QED  BY <2>1, <2>2, <2>5, <2>6, <2>7 DEF PoolInv
<1>4. ASSUME NEW t \in AllIds, Age(t)  PROVE PoolInv'
  <2>1. /\ t \in T /\ tips' = [tips EXCEPT ![t].age = "old"]
        /\ UNCHANGED <<solid, solidified, inserted, non_lazy_tips>>
    BY <1>4 DEF Age, metadataVars
  <2>2. tips' \in [T -> TipRecords] /\ \A x \in T : tips'[x].children = tips[x].children
    BY <1>0, <2>1 DEF TipRecords
  <2>3. [tips |-> tips', non_lazy |-> non_lazy_tips] \in Pools(inserted)
    BY <1>0, <2>2, PoolShrinks
  <2> QED  BY <2>1, <2>3 DEF PoolInv
<1>5. CASE ReduceTips
  <2> DEFINE gone == {t \in DOMAIN tips : tips[t].age = "old"}
             kept == T \ gone
  <2>1. /\ tips' = Restrict(tips, kept) /\ non_lazy_tips' = non_lazy_tips \ gone
        /\ UNCHANGED <<solid, solidified, inserted>>
    BY <1>5 DEF ReduceTips, metadataVars
  <2>2. kept \in SUBSET T  OBVIOUS
  <2>3. non_lazy_tips' \in SUBSET non_lazy_tips /\ non_lazy_tips' \subseteq kept
    BY <1>0, <2>1
  <2> HIDE DEF kept
  <2>4. tips' = [x \in kept |-> tips[x]]  BY <2>1 DEF Restrict
  <2>5. tips' \in [kept -> TipRecords] /\ \A t \in kept : tips'[t].children = tips[t].children
    BY <1>0, <2>2, <2>4
  <2>6. [tips |-> tips', non_lazy |-> non_lazy_tips'] \in Pools(inserted)
    BY <2>2, <2>3, <2>5, PoolShrinks
  <2> QED  BY <2>1, <2>6 DEF PoolInv
<1>6. CASE UNCHANGED <<solidified, tips, non_lazy_tips, inserted, solid>>  BY <1>6 DEF PoolInv
<1> QED  BY <1>1, <1>2, <1>3, <1>4, <1>5, <1>6, PoolSteps, SolidSteps

\* A non-lazy tip is a solid message with an entry in the pool and few children,
\* whatever is inserted, scored anew, aged and removed (urts.rs).
THEOREM TipsStayRetained == TipSpec => []TipsRetained
<1>1. TipInit => PoolInv
  <2> SUFFICES ASSUME TipInit  PROVE PoolInv  OBVIOUS
  <2> DEFINE f == [t \in {} |-> None]
  <2>1. f \in [{} -> TipRecords] /\ {} \in SUBSET AllIds  OBVIOUS
  <2> HIDE DEF f
  <2>2. [tips |-> f, non_lazy |-> {}] \in Pools({})
    BY <2>1, PoolType
  <2> QED  BY <2>2 DEF TipInit, PoolInv, f
<1>2. IndexInv /\ PoolInv /\ [TipNext]_tipVars => PoolInv'  BY PoolKept DEF TipStep
<1>3. PoolInv => TipsRetained  BY PoolVariables DEF PoolInv, TipsRetained
<1> QED  BY <1>1, <1>2, <1>3, IndexAlways, PTL DEF TipSpec

-----------------------------------------------------------------------------
(***************************************************************************)
(* Pruning.                                                                *)
(***************************************************************************)
\* The last index whose data is deleted: an interrupted update of the snapshot
\* info leaves the index of the tangle one behind.
PrunedUpTo == IF broken = "info" THEN pruningIndex + 1 ELSE pruningIndex

\* The steps at which prune has a batch that is not committed.
Collecting == {"unconfirmed", "truncate", "commit"}

\* The fields of a batch.
BatchIs == batch = [messages |-> batch.messages, edges |-> batch.edges, unreferenced |-> batch.unreferenced,
                    seps |-> batch.seps]

\* The types of the state of pruning.
PruningTypeOK ==
  /\ parents \in Dags
  /\ messages \subseteq MessageIds /\ edges \subseteq Nodes \X MessageIds
  /\ unreferenced \subseteq Nat \X MessageIds /\ inserter \subseteq Nat \X MessageIds /\ latest \in Nat
  /\ arrival \in [MessageIds -> {"none", "edges", "cut", "stored", "settled"}]
  /\ conf \in [MessageIds -> Nat] /\ arrivedAt \in [MessageIds -> Nat \cup {Absent}]
  /\ ledger \in Nat /\ infoIndex \in Nat /\ pruningIndex \in Nat /\ NUM_PRUNINGS \in Nat /\ target \in Int
  /\ pruning \in {"idle", "confirmed", "info"} \cup Collecting
  /\ broken \in {"no", "seps", "info"}
  /\ BatchIs

\* What arrived when, and what was confirmed when: the parents of a confirmed
\* message are confirmed with it or before.  The index of an unreferenced
\* message is that of the latest milestone, which the ledger is not ahead of.
ConfInv ==
  /\ \A m \in messages : arrivedAt[m] # Absent
  /\ \A m \in MessageIds : arrivedAt[m] # Absent => arrivedAt[m] <= ledger
  /\ \A m \in MessageIds : arrivedAt[m] # Absent <=> arrival[m] \in {"stored", "settled"}
  /\ \A u \in unreferenced \cup inserter : arrivedAt[u[2]] # Absent /\ arrivedAt[u[2]] <= u[1]
  /\ ledger <= latest
  /\ \A m \in MessageIds : conf[m] # 0 =>
       /\ arrivedAt[m] # Absent /\ arrivedAt[m] < conf[m] /\ conf[m] <= ledger
       /\ \A p \in parents[m] : IF p = Genesis THEN conf[m] <= MitigationThreshold ELSE conf[p] \in 1 .. conf[m]

\* A stored message has the edges to its parents, and what has edges is stored
\* or was not stored so far.
EdgesInv ==
  /\ \A m \in messages : \A p \in parents[m] : <<p, m>> \in edges
  /\ \A e \in edges : e[2] \in messages \/ arrival[e[2]] \in {"edges", "cut"}

\* What the milestone i confirmed.
ConfirmedAt(i) == {m \in MessageIds : conf[m] = i}

\* What a milestone confirmed is below it, on paths of such messages.
ConeRooted(i) ==
  /\ milestones[i] \in ConfirmedAt(i)
  /\ \A X \in SUBSET Nodes :
       milestones[i] \in X /\ (\A m \in X \cap MessageIds : parents[m] \cap ConfirmedAt(i) \subseteq X)
         => ConfirmedAt(i) \subseteq X

\* The milestones that are stored.
MilestonesInv ==
  /\ DOMAIN milestones = PrunedUpTo + 1 .. ledger
  /\ \A i \in DOMAIN milestones : ConeRooted(i)

\* How far prune may go, and how far it is.
LimitsInv ==
  /\ PrunedUpTo # 0 => PrunedUpTo + PruningDelay <= ledger
  /\ pruning # "idle" => target + PruningDelay <= ledger
  /\ pruning \in {"confirmed"} \cup Collecting => pruningIndex < target
  /\ pruning = "info" => pruningIndex >= 1
  /\ infoIndex = IF pruning = "info" THEN pruningIndex - 1 ELSE pruningIndex
  /\ pruning \notin {"idle", "confirmed"} => broken = "no"
  /\ NUM_PRUNINGS <= pruningIndex + (IF pruning \in Collecting THEN 1 ELSE 0)
  /\ "milestone" \in failed => broken = "info"
  /\ "message" \in failed => broken = "seps"

\* Only what is pruned is deleted.
DeletedInv ==
  \A m \in MessageIds : arrivedAt[m] # Absent /\ m \notin messages =>
    PrunedUpTo >= 1 /\ (conf[m] \in 1 .. PrunedUpTo \/ (conf[m] = 0 /\ arrivedAt[m] <= PrunedUpTo))

\* Solid entry points with which everything up to i can be deleted: each parent
\* of a later message is later than i or one of them, and stays one for as long
\* as that message does.
GoodSeps(entry, i) ==
  /\ DOMAIN entry \subseteq Nodes
  /\ \A s \in DOMAIN entry : entry[s] \in Int /\ (s # Genesis => conf[s] \in 1 .. i)
  /\ i = 0 => Genesis \in DOMAIN entry
  /\ \A m \in MessageIds : conf[m] > i =>
       \A p \in parents[m] : \/ p # Genesis /\ conf[p] > i
                             \/ p \in DOMAIN entry /\ (p # Genesis => entry[p] >= conf[m])

\* The solid entry points of the tangle and of the storage; those of the
\* storage are missing between the truncation and the commit, and for good
\* after a crash there.
SepsInv ==
  /\ broken = "seps" => DOMAIN seps = {} /\ DOMAIN sepsStored = {}
  /\ broken # "seps" => GoodSeps(seps, PrunedUpTo + (IF pruning \in Collecting THEN 1 ELSE 0))
  /\ broken # "seps" /\ pruning # "commit" => GoodSeps(sepsStored, PrunedUpTo)
  /\ pruning = "commit" => DOMAIN sepsStored = {}

\* What a batch deletes.
BatchInv ==
  pruning \in Collecting =>
    /\ batch.seps = seps
    /\ batch.messages \subseteq messages
    /\ batch.edges = {e \in edges : e[2] \in batch.messages}
    /\ \A m \in batch.messages :
         conf[m] = IndexToPrune \/ (conf[m] = 0 /\ arrivedAt[m] <= IndexToPrune)

\* The inductive invariant of pruning.
PruningInv ==
  /\ PruningTypeOK /\ ConfInv /\ EdgesInv /\ MilestonesInv /\ LimitsInv /\ DeletedInv /\ SepsInv /\ BatchInv

\* The parents of the messages.
LEMMA ParentsAre ==
  ASSUME parents \in Dags
  PROVE  /\ parents \in [MessageIds -> SUBSET Nodes] /\ \A m \in MessageIds : parents[m] # {} /\ parents[m] \subseteq Nodes
         /\ \A X \in SUBSET MessageIds : X # {} => \E m \in X : parents[m] \cap X = {}
BY PruningAssumption

\* A set that a traversal does not leave, and what all of them have in common.
IsClosed(X, stop) == \A m \in X \cap MessageIds : parents[m] \ stop \subseteq X

LeastClosed(start, stop) == {x \in Nodes : \A X \in SUBSET Nodes : start \in X /\ IsClosed(X, stop) => x \in X}

\* It is the least one with its start.
LEMMA LeastClosedIs ==
  ASSUME parents \in Dags, NEW start \in Nodes, NEW stop
  PROVE  /\ LeastClosed(start, stop) \in SUBSET Nodes
         /\ start \in LeastClosed(start, stop) /\ IsClosed(LeastClosed(start, stop), stop)
         /\ \A X \in SUBSET Nodes : start \in X /\ IsClosed(X, stop) => LeastClosed(start, stop) \subseteq X
<1> DEFINE C == LeastClosed(start, stop)
<1>1. C \in SUBSET Nodes /\ start \in C  BY DEF LeastClosed
<1>2. \A X \in SUBSET Nodes : start \in X /\ IsClosed(X, stop) => C \subseteq X  BY DEF LeastClosed
<1>3. ASSUME NEW m \in C \cap MessageIds, NEW p \in parents[m] \ stop  PROVE p \in C
  <2>1. p \in Nodes  BY ParentsAre
  <2>2. \A X \in SUBSET Nodes : start \in X /\ IsClosed(X, stop) => p \in X
    <3>1. \A X \in SUBSET Nodes : start \in X /\ IsClosed(X, stop) => m \in X  BY <1>2
    <3> QED  BY <3>1 DEF IsClosed
  <2> QED  BY <2>1, <2>2 DEF LeastClosed
<1>4. IsClosed(C, stop)  BY <1>3 DEF IsClosed
<1> QED  BY <1>1, <1>2, <1>4

\* The equation of the function cone in ConeOf.
Below(f, m, stop) == {m} \cup UNION {IF p \in MessageIds THEN f[p] ELSE {p} : p \in parents[m] \ stop}

\* The least sets satisfy it.
LEMMA LeastClosedStep ==
  ASSUME parents \in Dags, NEW m \in MessageIds, NEW stop, NEW f,
         \A p \in (parents[m] \ stop) \cap MessageIds : f[p] = LeastClosed(p, stop)
  PROVE  Below(f, m, stop) = LeastClosed(m, stop)
<1> DEFINE C == LeastClosed(m, stop)
           B == Below(f, m, stop)
<1>0. parents[m] \subseteq Nodes /\ m \in Nodes  BY ParentsAre DEF Nodes
<1>1. C \in SUBSET Nodes /\ m \in C /\ IsClosed(C, stop)
      /\ \A X \in SUBSET Nodes : m \in X /\ IsClosed(X, stop) => C \subseteq X
  BY <1>0, LeastClosedIs
<1>2. \A x : x \in B <=> \/ x = m
                         \/ \E p \in parents[m] \ stop : p \in MessageIds /\ x \in LeastClosed(p, stop)
                         \/ x \in parents[m] \ stop /\ x \notin MessageIds
  BY DEF Below
<1>3. \A p \in parents[m] \ stop :
        /\ p \in C /\ LeastClosed(p, stop) \in SUBSET Nodes /\ p \in LeastClosed(p, stop) /\ IsClosed(LeastClosed(p, stop), stop)
        /\ LeastClosed(p, stop) \subseteq C
  <2> TAKE p \in parents[m] \ stop
  <2>1. p \in C /\ p \in Nodes  BY <1>0, <1>1 DEF IsClosed
  <2>2. /\ LeastClosed(p, stop) \in SUBSET Nodes /\ p \in LeastClosed(p, stop) /\ IsClosed(LeastClosed(p, stop), stop)
        /\ \A X \in SUBSET Nodes : p \in X /\ IsClosed(X, stop) => LeastClosed(p, stop) \subseteq X
    BY <2>1, LeastClosedIs
  <2> HIDE DEF C
  <2> QED  BY <1>1, <2>1, <2>2
<1> HIDE DEF B, C
<1>4. B \subseteq C  BY <1>1, <1>2, <1>3
<1>5. IsClosed(B, stop)
  <2> SUFFICES ASSUME NEW x \in B \cap MessageIds, NEW q \in parents[x] \ stop  PROVE q \in B
    BY DEF IsClosed
  <2>1. CASE x = m
    <3>1. CASE q \in MessageIds  BY <1>2, <1>3, <2>1, <3>1
    <3>2. CASE q \notin MessageIds  BY <1>2, <2>1, <3>2
    <3> QED  BY <3>1, <3>2
  <2>2. CASE \E p \in parents[m] \ stop : p \in MessageIds /\ x \in LeastClosed(p, stop)
    <3>1. PICK p \in parents[m] \ stop : p \in MessageIds /\ x \in LeastClosed(p, stop)  BY <2>2
    <3>2. q \in LeastClosed(p, stop)  BY <1>3, <3>1 DEF IsClosed
    <3> QED  BY <1>2, <3>1, <3>2
  <2> QED  BY <1>2, <2>1, <2>2
<1>6. B \in SUBSET Nodes /\ m \in B  BY <1>1, <1>2, <1>4
<1>7. C \subseteq B  BY <1>1, <1>5, <1>6
<1> QED  BY <1>4, <1>7 DEF B, C

\* So a function that satisfies it has those values.
LEMMA BelowIs ==
  ASSUME parents \in Dags, NEW stop, NEW f, f = [m \in MessageIds |-> Below(f, m, stop)]
  PROVE  \A m \in MessageIds : f[m] = LeastClosed(m, stop)
<1> DEFINE B == {m \in MessageIds : f[m] # LeastClosed(m, stop)}
<1> SUFFICES ASSUME B # {}  PROVE FALSE  OBVIOUS
<1>1. PICK m \in B : parents[m] \cap B = {}  BY ParentsAre
<1>2. \A p \in (parents[m] \ stop) \cap MessageIds : f[p] = LeastClosed(p, stop)  BY <1>1
<1>3. Below(f, m, stop) = LeastClosed(m, stop)  BY <1>2, LeastClosedStep
<1>4. f[m] = Below(f, m, stop)  BY <1>1
<1> QED  BY <1>1, <1>3, <1>4

\* A cone is the least set that a traversal does not leave.
LEMMA ConeIs ==
  ASSUME parents \in Dags, NEW start \in MessageIds, NEW stop, start \notin stop
  PROVE  ConeOf(start, stop) = LeastClosed(start, stop)
<1> DEFINE g == [m \in MessageIds |-> LeastClosed(m, stop)]
           IsCone(f) == f = [m \in MessageIds |-> Below(f, m, stop)]
           cone == CHOOSE f : IsCone(f)
<1>1. \A m \in MessageIds : Below(g, m, stop) = LeastClosed(m, stop)
  <2> TAKE m \in MessageIds
  <2>1. \A p \in (parents[m] \ stop) \cap MessageIds : g[p] = LeastClosed(p, stop)  OBVIOUS
  <2> HIDE DEF g
  <2> QED  BY <2>1, LeastClosedStep
<1>2. IsCone(g)  BY <1>1
<1>3. IsCone(cone)
  <2> HIDE DEF IsCone, g
  <2> QED  BY <1>2
<1>4. \A m \in MessageIds : cone[m] = LeastClosed(m, stop)
  <2>1. cone = [m \in MessageIds |-> Below(cone, m, stop)]  BY <1>3
  <2> HIDE DEF cone, IsCone
  <2> QED  BY <2>1, BelowIs
<1>5. ConeOf(start, stop) = cone[start]  BY DEF ConeOf, Below
<1> QED  BY <1>4, <1>5

\* A traversal that does not leave the stored messages has nowhere to start.
LEMMA NothingClosed ==
  ASSUME parents \in Dags, NEW X \in SUBSET MessageIds, IsClosed(X, {}), X # {}
  PROVE  FALSE
<1>1. PICK m \in X : parents[m] \cap X = {}  BY ParentsAre
<1>2. parents[m] \subseteq X  BY <1>1 DEF IsClosed
<1> QED  BY <1>1, <1>2, ParentsAre

\* Before the first message.
LEMMA PruningInvInit == PruningInit => PruningInv
<1> SUFFICES ASSUME PruningInit  PROVE PruningInv  OBVIOUS
<1>1. PruningTypeOK  BY PruningAssumption DEF PruningInit, PruningTypeOK, BatchIs, NoBatch, Collecting
<1>2. PrunedUpTo = 0 /\ pruning = "idle" /\ conf = [m \in MessageIds |-> 0] /\ arrivedAt = [m \in MessageIds |-> Absent]
  BY DEF PruningInit, PrunedUpTo
<1>3. ConfInv /\ EdgesInv /\ DeletedInv /\ BatchInv
  BY <1>2, PruningAssumption DEF PruningInit, ConfInv, EdgesInv, DeletedInv, BatchInv, Collecting
<1>4. MilestonesInv  BY <1>2 DEF PruningInit, MilestonesInv
<1>5. LimitsInv  BY <1>2 DEF PruningInit, LimitsInv, Collecting
<1>6. SepsInv
  <2>1. DOMAIN seps = {Genesis} /\ seps[Genesis] = 0 /\ sepsStored = seps /\ broken = "no"  BY DEF PruningInit
  <2>2. GoodSeps(seps, 0)  BY <1>2, <2>1, PruningAssumption DEF GoodSeps, Nodes
  <2> QED  BY <1>2, <2>1, <2>2 DEF SepsInv, Collecting
<1> QED  BY <1>1, <1>3, <1>4, <1>5, <1>6 DEF PruningInv

\* What only depends on the confirmations.
LEMMA ConfFrame ==
  ASSUME UNCHANGED <<parents, conf>>
  PROVE  /\ \A entry, i : GoodSeps(entry, i)' = GoodSeps(entry, i)
         /\ \A i : ConfirmedAt(i)' = ConfirmedAt(i)
BY DEF GoodSeps, ConfirmedAt

\* The milestones and their cones.
LEMMA MilestonesFrame ==
  ASSUME UNCHANGED <<parents, conf, milestones, ledger, PrunedUpTo>>, MilestonesInv
  PROVE  MilestonesInv'
BY DEF MilestonesInv, ConeRooted, ConfirmedAt

\* The solid entry points.
LEMMA SepsFrame ==
  ASSUME UNCHANGED <<parents, conf, seps, sepsStored, broken, pruning, PrunedUpTo>>, SepsInv
  PROVE  SepsInv'
BY DEF SepsInv, GoodSeps

\* An edge of a message that is not stored.
LEMMA WriteEdgeKeeps ==
  ASSUME PruningInv, NEW x \in MessageIds, NEW q \in Nodes, WriteEdge(x, q)
  PROVE  PruningInv'
<1>0. PruningTypeOK /\ ConfInv /\ EdgesInv /\ MilestonesInv /\ LimitsInv /\ DeletedInv /\ SepsInv /\ BatchInv
  BY DEF PruningInv
<1>1. /\ arrival[x] \in {"none", "cut", "edges"} /\ arrival' = [arrival EXCEPT ![x] = "edges"]
      /\ edges' = edges \cup {<<q, x>>}
      /\ UNCHANGED <<parents, messages, unreferenced, milestones, sepsStored, infoIndex, inserter, latest, conf, ledger, seps,
                     pruningIndex, NUM_PRUNINGS, pruning, target, batch, arrivedAt, broken, failed, PrunedUpTo, IndexToPrune>>
  BY DEF WriteEdge, pruneVars, PrunedUpTo, IndexToPrune
<1>2. x \notin messages  BY <1>0, <1>1 DEF ConfInv
<1>3. /\ arrival'[x] = "edges" /\ \A m \in MessageIds : m # x => arrival'[m] = arrival[m]
      /\ arrival' \in [MessageIds -> {"none", "edges", "cut", "stored", "settled"}]
  BY <1>0, <1>1 DEF PruningTypeOK
<1>4. PruningTypeOK'
  <2>1. edges' \subseteq Nodes \X MessageIds  BY <1>0, <1>1 DEF PruningTypeOK
  <2> QED  BY <1>0, <1>1, <1>3, <2>1 DEF PruningTypeOK, BatchIs
<1>5. ConfInv'
  <2>1. \A m \in MessageIds : arrival'[m] \in {"stored", "settled"} <=> arrival[m] \in {"stored", "settled"}
    BY <1>1, <1>3
  <2> QED  BY <1>0, <1>1, <2>1 DEF ConfInv
<1>6. EdgesInv'
  <2>1. \A e \in edges : e[2] \in MessageIds  BY <1>0 DEF PruningTypeOK
  <2>2. \A e \in edges' : e[2] \in messages \/ arrival'[e[2]] \in {"edges", "cut"}  BY <1>0, <1>1, <1>3, <2>1 DEF EdgesInv
  <2>3. \A m \in messages' : \A p \in parents'[m] : <<p, m>> \in edges'  BY <1>0, <1>1 DEF EdgesInv
  <2> QED  BY <1>1, <2>2, <2>3 DEF EdgesInv
<1>7. MilestonesInv' /\ SepsInv'  BY <1>0, <1>1, MilestonesFrame, SepsFrame
<1>8. LimitsInv' /\ DeletedInv'  BY <1>0, <1>1 DEF LimitsInv, DeletedInv
<1>9. BatchInv'
  <2> SUFFICES ASSUME pruning \in Collecting  PROVE BatchInv'  BY <1>1 DEF BatchInv
  <2>1. /\ batch.seps = seps /\ batch.messages \subseteq messages /\ batch.edges = {e \in edges : e[2] \in batch.messages}
        /\ \A m \in batch.messages : conf[m] = IndexToPrune \/ (conf[m] = 0 /\ arrivedAt[m] <= IndexToPrune)
    BY <1>0 DEF BatchInv
  <2>2. batch.edges = {e \in edges' : e[2] \in batch.messages}  BY <1>1, <1>2, <2>1
  <2> QED  BY <1>1, <2>1, <2>2 DEF BatchInv
<1> QED  BY <1>4, <1>5, <1>6, <1>7, <1>8, <1>9 DEF PruningInv

\* A message is stored.
LEMMA StoreArrivedKeeps ==
  ASSUME PruningInv, NEW x \in MessageIds, StoreArrived(x)
  PROVE  PruningInv'
<1>0. PruningTypeOK /\ ConfInv /\ EdgesInv /\ MilestonesInv /\ LimitsInv /\ DeletedInv /\ SepsInv /\ BatchInv
  BY DEF PruningInv
<1>1. /\ arrival[x] = "edges" /\ parents[x] \X {x} \subseteq edges /\ arrival' = [arrival EXCEPT ![x] = "stored"]
      /\ messages' = messages \cup {x} /\ arrivedAt' = [arrivedAt EXCEPT ![x] = ledger]
      /\ UNCHANGED <<parents, edges, unreferenced, milestones, sepsStored, infoIndex, inserter, latest, conf, ledger, seps,
                     pruningIndex, NUM_PRUNINGS, pruning, target, batch, broken, failed, PrunedUpTo, IndexToPrune>>
  BY DEF StoreArrived, pruneVars, PrunedUpTo, IndexToPrune
<1>2. arrivedAt[x] = Absent /\ conf[x] = 0 /\ x \notin messages  BY <1>0, <1>1 DEF ConfInv
<1>3. /\ arrival'[x] = "stored" /\ \A m \in MessageIds : m # x => arrival'[m] = arrival[m]
      /\ arrival' \in [MessageIds -> {"none", "edges", "cut", "stored", "settled"}]
      /\ arrivedAt' \in [MessageIds -> Nat \cup {Absent}]
      /\ arrivedAt'[x] = ledger /\ ledger # Absent /\ ledger \in Nat
      /\ \A m \in MessageIds : m # x => arrivedAt'[m] = arrivedAt[m]
  BY <1>0, <1>1, PruningAssumption DEF PruningTypeOK
<1>4. PruningTypeOK'  BY <1>0, <1>1, <1>3 DEF PruningTypeOK, BatchIs
<1>5. ConfInv'
  <2>1. \A m \in messages' : arrivedAt'[m] # Absent  BY <1>0, <1>1, <1>3 DEF ConfInv, PruningTypeOK
  <2>2. \A m \in MessageIds : arrivedAt'[m] # Absent => arrivedAt'[m] <= ledger'  BY <1>0, <1>1, <1>3 DEF ConfInv
  <2>3. \A m \in MessageIds : arrivedAt'[m] # Absent <=> arrival'[m] \in {"stored", "settled"}
    BY <1>0, <1>3 DEF ConfInv
  <2>4. \A u \in unreferenced \cup inserter : u[2] \in MessageIds /\ u[2] # x
    BY <1>0, <1>2 DEF ConfInv, PruningTypeOK
  <2>5. \A u \in unreferenced' \cup inserter' : arrivedAt'[u[2]] # Absent /\ arrivedAt'[u[2]] <= u[1]
    BY <1>0, <1>1, <1>3, <2>4 DEF ConfInv
  <2>6. \A m \in MessageIds : conf[m] # 0 => m # x  BY <1>2
  <2> QED  BY <1>0, <1>1, <1>3, <2>1, <2>2, <2>3, <2>5, <2>6 DEF ConfInv
<1>6. EdgesInv'
  <2>1. \A m \in messages' : \A p \in parents'[m] : <<p, m>> \in edges'  BY <1>0, <1>1 DEF EdgesInv
  <2>2. \A e \in edges : e[2] \in MessageIds  BY <1>0 DEF PruningTypeOK
  <2>3. \A e \in edges' : e[2] \in messages' \/ arrival'[e[2]] \in {"edges", "cut"}
    BY <1>0, <1>1, <1>3, <2>2 DEF EdgesInv
  <2> QED  BY <2>1, <2>3 DEF EdgesInv
<1>7. MilestonesInv' /\ SepsInv'  BY <1>0, <1>1, MilestonesFrame, SepsFrame
<1>8. LimitsInv'  BY <1>0, <1>1 DEF LimitsInv
<1>9. DeletedInv'  BY <1>0, <1>1, <1>3 DEF DeletedInv
<1>10. BatchInv'
  <2> SUFFICES ASSUME pruning \in Collecting  PROVE BatchInv'  BY <1>1 DEF BatchInv
  <2>1. /\ batch.seps = seps /\ batch.messages \subseteq messages /\ batch.edges = {e \in edges : e[2] \in batch.messages}
        /\ \A m \in batch.messages : conf[m] = IndexToPrune \/ (conf[m] = 0 /\ arrivedAt[m] <= IndexToPrune)
    BY <1>0 DEF BatchInv
  <2>2. \A m \in batch.messages : arrivedAt'[m] = arrivedAt[m]  BY <1>0, <1>2, <1>3, <2>1 DEF PruningTypeOK
  <2> QED  BY <1>1, <2>1, <2>2 DEF BatchInv
<1> QED  BY <1>4, <1>5, <1>6, <1>7, <1>8, <1>9, <1>10 DEF PruningInv

\* A row for it goes to the inserter and from there to the storage; a
\* milestone becomes known.
LEMMA RowsKeep ==
  ASSUME PruningInv, (\E x \in MessageIds : SettleArrived(x)) \/ InsertUnreferenced \/ NewMilestone
  PROVE  PruningInv'
<1>0. PruningTypeOK /\ ConfInv /\ EdgesInv /\ MilestonesInv /\ LimitsInv /\ DeletedInv /\ SepsInv /\ BatchInv
  BY DEF PruningInv
<1>1. UNCHANGED <<parents, messages, edges, milestones, sepsStored, infoIndex, conf, ledger, seps, pruningIndex, NUM_PRUNINGS,
                  pruning, target, batch, arrivedAt, broken, failed, PrunedUpTo, IndexToPrune>>
  BY DEF SettleArrived, InsertUnreferenced, NewMilestone, storageVars, pruneVars, PrunedUpTo, IndexToPrune
<1>2. /\ arrival' \in [MessageIds -> {"none", "edges", "cut", "stored", "settled"}]
      /\ \A m \in MessageIds : arrival'[m] \in {"stored", "settled"} <=> arrival[m] \in {"stored", "settled"}
      /\ \A m \in MessageIds : arrival'[m] \in {"edges", "cut"} <=> arrival[m] \in {"edges", "cut"}
  <2>1. CASE UNCHANGED arrival  BY <1>0, <2>1 DEF PruningTypeOK
  <2>2. CASE \E x \in MessageIds : SettleArrived(x)
    <3>1. PICK x \in MessageIds : arrival[x] = "stored" /\ arrival' = [arrival EXCEPT ![x] = "settled"]
      BY <2>2 DEF SettleArrived
    <3> QED  BY <1>0, <3>1 DEF PruningTypeOK
  <2> QED  BY <2>1, <2>2 DEF InsertUnreferenced, NewMilestone
<1>3. latest' \in Nat /\ ledger <= latest' /\ latest <= latest'
  BY <1>0 DEF SettleArrived, InsertUnreferenced, NewMilestone, PruningTypeOK, ConfInv
<1>4. \A u \in unreferenced' \cup inserter' :
        u \in Nat \X MessageIds /\ arrivedAt[u[2]] # Absent /\ arrivedAt[u[2]] <= u[1]
  <2>1. \A u \in unreferenced \cup inserter :
          u \in Nat \X MessageIds /\ arrivedAt[u[2]] # Absent /\ arrivedAt[u[2]] <= u[1]
    BY <1>0 DEF PruningTypeOK, ConfInv
  <2>2. CASE \E x \in MessageIds : SettleArrived(x)
    <3>1. PICK x \in MessageIds : /\ arrival[x] = "stored" /\ UNCHANGED unreferenced
                                 /\ inserter' \subseteq inserter \cup {<<latest, x>>}
      BY <2>2 DEF SettleArrived, storageVars
    <3>2. arrivedAt[x] # Absent /\ arrivedAt[x] <= latest /\ latest \in Nat
      <4>1. arrivedAt[x] # Absent /\ arrivedAt[x] <= ledger /\ ledger <= latest  BY <1>0, <3>1 DEF ConfInv
      <4> QED  BY <1>0, <4>1 DEF PruningTypeOK
    <3> QED  BY <2>1, <3>1, <3>2
  <2>3. CASE InsertUnreferenced \/ NewMilestone
    BY <2>1, <2>3 DEF InsertUnreferenced, NewMilestone, storageVars
  <2> QED  BY <2>2, <2>3
<1>5. PruningTypeOK'
  <2>1. unreferenced' \subseteq Nat \X MessageIds /\ inserter' \subseteq Nat \X MessageIds  BY <1>4
  <2> QED  BY <1>0, <1>1, <1>2, <1>3, <2>1 DEF PruningTypeOK, BatchIs
<1>6. ConfInv'
  <2>1. \A m \in MessageIds : arrivedAt[m] # Absent <=> arrival'[m] \in {"stored", "settled"}
    <3> TAKE m \in MessageIds
    <3>1. arrivedAt[m] # Absent <=> arrival[m] \in {"stored", "settled"}  BY <1>0 DEF ConfInv
    <3>2. arrival'[m] \in {"stored", "settled"} <=> arrival[m] \in {"stored", "settled"}  BY <1>2
    <3> QED  BY <3>1, <3>2
  <2>2. \A u \in unreferenced' \cup inserter' : arrivedAt[u[2]] # Absent /\ arrivedAt[u[2]] <= u[1]  BY <1>4
  <2> QED  BY <1>0, <1>1, <1>3, <2>1, <2>2 DEF ConfInv
<1>7. EdgesInv'
  <2>1. \A e \in edges : e[2] \in MessageIds  BY <1>0 DEF PruningTypeOK
  <2> QED  BY <1>0, <1>1, <1>2, <2>1 DEF EdgesInv
<1>8. MilestonesInv' /\ SepsInv'  BY <1>0, <1>1, MilestonesFrame, SepsFrame
<1>9. LimitsInv' /\ DeletedInv' /\ BatchInv'  BY <1>0, <1>1 DEF LimitsInv, DeletedInv, BatchInv
<1> QED  BY <1>5, <1>6, <1>7, <1>8, <1>9 DEF PruningInv

\* What a milestone confirms: the messages below it that are not confirmed.
LEMMA NewIs ==
  ASSUME PruningInv, NEW m \in MessageIds, conf[m] = 0, UnconfirmedCone(m) \subseteq messages
  PROVE  LET new == UnconfirmedCone(m)
         IN  /\ m \in new /\ new \subseteq MessageIds
             /\ \A x \in new : conf[x] = 0 /\ \A p \in parents[x] : p = Genesis \/ p \in new \/ conf[p] # 0
             /\ \A X \in SUBSET Nodes : m \in X /\ (\A x \in X \cap MessageIds : parents[x] \cap new \subseteq X)
                  => new \subseteq X
<1> DEFINE stop == {Genesis} \cup {x \in MessageIds : conf[x] # 0}
           new == UnconfirmedCone(m)
<1>0. PruningTypeOK /\ parents \in Dags /\ m \in Nodes  BY DEF PruningInv, PruningTypeOK, Nodes
<1>1. m \notin stop  BY PruningAssumption
<1>2. new = LeastClosed(m, stop)  BY <1>0, <1>1, ConeIs DEF UnconfirmedCone
<1>3. /\ new \in SUBSET Nodes /\ m \in new /\ IsClosed(new, stop)
      /\ \A X \in SUBSET Nodes : m \in X /\ IsClosed(X, stop) => new \subseteq X
  <2> HIDE DEF stop, new
  <2> QED  BY <1>0, <1>2, LeastClosedIs
<1>4. new \subseteq MessageIds  BY <1>0 DEF PruningTypeOK
<1>5. \A x \in new : parents[x] \subseteq Nodes  BY <1>0, <1>4, ParentsAre
<1>6. \A x \in new : \A p \in parents[x] : p = Genesis \/ p \in new \/ conf[p] # 0
  BY <1>3, <1>4, <1>5 DEF IsClosed, Nodes
<1>7. \A x \in new : conf[x] = 0
  <2> DEFINE X == {x \in new : conf[x] = 0}
  <2>1. X \in SUBSET Nodes /\ m \in X  BY <1>3
  <2>2. \A x \in X : \A p \in parents[x] \ stop : p \in X
    <3> TAKE x \in X
    <3> TAKE p \in parents[x] \ stop
    <3>1. p \in new  BY <1>3, <1>4 DEF IsClosed
    <3>2. conf[p] = 0  BY <1>4, <3>1
    <3> QED  BY <3>1, <3>2
  <2>3. IsClosed(X, stop)  BY <2>2 DEF IsClosed
  <2> HIDE DEF X, stop, new
  <2>4. new \subseteq X  BY <1>3, <2>1, <2>3
  <2> QED  BY <2>4 DEF X
<1>8. ASSUME NEW X \in SUBSET Nodes, m \in X, \A x \in X \cap MessageIds : parents[x] \cap new \subseteq X
      PROVE  new \subseteq X
  <2> DEFINE Y == X \cap new
  <2>1. Y \in SUBSET Nodes /\ m \in Y  BY <1>3, <1>8
  <2>2. \A x \in Y \cap MessageIds : \A p \in parents[x] \ stop : p \in Y
    BY <1>3, <1>8 DEF IsClosed
  <2>3. IsClosed(Y, stop)  BY <2>2 DEF IsClosed
  <2> HIDE DEF Y, stop, new
  <2>4. new \subseteq Y  BY <1>3, <2>1, <2>3
  <2> QED  BY <2>4 DEF Y
<1> HIDE DEF new
<1>9. \A X \in SUBSET Nodes : m \in X /\ (\A x \in X \cap MessageIds : parents[x] \cap new \subseteq X) => new \subseteq X
  BY <1>8
<1> QED  BY <1>3, <1>4, <1>6, <1>7, <1>9 DEF new

\* The smaller of two numbers.
LEMMA MinOfTwo ==
  ASSUME NEW a \in Int, NEW b \in Int
  PROVE  Min({a, b}) \in {a, b} /\ \A y \in {a, b} : Min({a, b}) <= y
<1> DEFINE S == {a, b}
<1>1. IsFiniteSet({a}) /\ S = {a} \cup {b}  BY FS_Singleton
<1>2. IsFiniteSet(S)  BY <1>1, FS_AddElement
<1>3. S \subseteq Int /\ S # {}  OBVIOUS
<1> HIDE DEF S
<1>4. Min(S) \in S /\ \A y \in S : Min(S) <= y  BY <1>2, <1>3, MinIsElement
<1> QED  BY <1>4 DEF S

\* How far prune may go once n is confirmed.
LEMMA ShouldPruneIs ==
  ASSUME NEW n \in Nat, pruningIndex \in Nat, should_prune(n) # << >>
  PROVE  /\ should_prune(n)[2] \in Int /\ should_prune(n)[2] + PruningDelay <= n
         /\ pruningIndex < should_prune(n)[2]
<1> DEFINE a == n - PruningDelay
           b == pruningIndex + 1 + PRUNING_BATCH_SIZE_MAX
<1>1. PruningDelay \in Nat /\ PRUNING_BATCH_SIZE_MAX \in Nat  BY PruningAssumption
<1>2. ~ (n < pruningIndex + 1 + PruningDelay) /\ should_prune(n)[2] = Min({a, b})  BY DEF should_prune
<1>3. a \in Int /\ b \in Int  BY <1>1
<1>4. Min({a, b}) \in {a, b} /\ \A y \in {a, b} : Min({a, b}) <= y
  <2> HIDE DEF a, b
  <2> QED  BY <1>3, MinOfTwo
<1> QED  BY <1>1, <1>2, <1>3, <1>4

\* A milestone is confirmed.
LEMMA ConfirmKeeps ==
  ASSUME PruningInv, NEW m \in MessageIds, NEW synced \in BOOLEAN, Confirm(m, synced)
  PROVE  PruningInv'
<1> DEFINE new == UnconfirmedCone(m)
<1>0. PruningTypeOK /\ ConfInv /\ EdgesInv /\ MilestonesInv /\ LimitsInv /\ DeletedInv /\ SepsInv /\ BatchInv
  BY DEF PruningInv
<1>n. PICK n \in Nat : n = ledger + 1  BY <1>0 DEF PruningTypeOK
<1>1. /\ pruning = "idle" /\ m \in messages /\ conf[m] = 0 /\ new \subseteq messages
      /\ \A x \in new : \A p \in parents[x] : p \in new \/ (IF p = Genesis THEN 0 ELSE conf[p]) >= n - MitigationThreshold
      /\ conf' = [x \in MessageIds |-> IF x \in new THEN n ELSE conf[x]]
      /\ ledger' = n
      /\ milestones' = [i \in DOMAIN milestones \cup {n} |-> IF i = n THEN m ELSE milestones[i]]
      /\ \/ UNCHANGED <<pruning, target>>
         \/ should_prune(n) # << >> /\ pruning' = "confirmed" /\ target' = should_prune(n)[2]
      /\ UNCHANGED <<parents, messages, edges, unreferenced, sepsStored, infoIndex, arrival, inserter, latest,
                     seps, pruningIndex, NUM_PRUNINGS, batch, arrivedAt, broken, failed, PrunedUpTo>>
      /\ n <= latest
  BY <1>n DEF Confirm, PrunedUpTo, arrivalVars
<1>2. /\ ledger \in Nat /\ n \in Nat /\ n = ledger + 1 /\ PrunedUpTo \in Nat /\ MitigationThreshold \in Nat /\ PruningDelay \in Nat
      /\ MitigationThreshold <= PruningDelay /\ pruningIndex \in Nat /\ Genesis \notin MessageIds
  BY <1>0, <1>n, PruningAssumption DEF PruningTypeOK, PrunedUpTo
<1>3. /\ m \in new /\ new \subseteq MessageIds
      /\ \A x \in new : conf[x] = 0 /\ \A p \in parents[x] : p = Genesis \/ p \in new \/ conf[p] # 0
      /\ \A X \in SUBSET Nodes : m \in X /\ (\A x \in X \cap MessageIds : parents[x] \cap new \subseteq X) => new \subseteq X
  BY <1>1, NewIs
<1> HIDE DEF new
<1>4. /\ \A x \in new : conf'[x] = n
      /\ \A x \in MessageIds \ new : conf'[x] = conf[x]
      /\ \A x \in MessageIds : conf[x] \in Nat /\ parents[x] \subseteq Nodes
  BY <1>0, <1>1, <1>3, ParentsAre DEF PruningTypeOK
<1>5. \A x \in new : \A p \in parents[x] :
        /\ p = Genesis => n <= MitigationThreshold
        /\ p # Genesis => p \in MessageIds /\ conf'[p] \in Nat \ {0} /\ conf'[p] >= n - MitigationThreshold
  BY <1>1, <1>2, <1>3, <1>4 DEF Nodes
<1>6. PruningTypeOK'
  <2>1. conf' \in [MessageIds -> Nat]  BY <1>0, <1>1, <1>2 DEF PruningTypeOK
  <2>2. target' \in Int  BY <1>0, <1>1, <1>2, ShouldPruneIs DEF PruningTypeOK
  <2> QED  BY <1>0, <1>1, <1>2, <2>1, <2>2 DEF PruningTypeOK, BatchIs
<1>7. ConfInv'
  <2>1. \A x \in MessageIds : arrivedAt[x] # Absent => arrivedAt[x] \in Nat /\ arrivedAt[x] <= ledger
    BY <1>0 DEF ConfInv, PruningTypeOK
  <2>2. ASSUME NEW x \in MessageIds, conf'[x] # 0
        PROVE  /\ arrivedAt[x] # Absent /\ arrivedAt[x] < conf'[x] /\ conf'[x] <= n
               /\ \A p \in parents[x] : IF p = Genesis THEN conf'[x] <= MitigationThreshold ELSE conf'[p] \in 1 .. conf'[x]
    <3>1. CASE x \in new
      <4>1. arrivedAt[x] # Absent /\ conf'[x] = n  BY <1>0, <1>1, <1>4, <3>1 DEF ConfInv
      <4>2. \A y \in MessageIds : conf'[y] <= n  BY <1>0, <1>2, <1>4 DEF ConfInv
      <4> QED  BY <1>2, <1>5, <2>1, <3>1, <4>1, <4>2
    <3>2. CASE x \notin new
      <4>1. conf'[x] = conf[x] /\ conf[x] # 0  BY <1>4, <2>2, <3>2
      <4>2. /\ arrivedAt[x] # Absent /\ arrivedAt[x] < conf[x] /\ conf[x] <= ledger
            /\ \A p \in parents[x] : IF p = Genesis THEN conf[x] <= MitigationThreshold ELSE conf[p] \in 1 .. conf[x]
        BY <1>0, <4>1 DEF ConfInv
      <4>3. \A p \in parents[x] : p # Genesis => p \in MessageIds /\ p \notin new /\ conf'[p] = conf[p]
        BY <1>3, <1>4, <4>2 DEF Nodes
      <4> QED  BY <1>2, <1>4, <4>1, <4>2, <4>3
    <3> QED  BY <3>1, <3>2
  <2>3. \A x \in MessageIds : arrivedAt[x] # Absent => arrivedAt[x] <= n  BY <1>2, <2>1
  <2> QED  BY <1>0, <1>1, <2>2, <2>3 DEF ConfInv
<1>8. EdgesInv'  BY <1>0, <1>1 DEF EdgesInv
<1>9. MilestonesInv'
  <2>1. DOMAIN milestones = PrunedUpTo + 1 .. ledger /\ PrunedUpTo <= ledger  BY <1>0, <1>2 DEF MilestonesInv, LimitsInv
  <2>2. DOMAIN milestones' = PrunedUpTo + 1 .. n  BY <1>1, <1>2, <2>1
  <2>3. \A i \in 1 .. ledger : ConfirmedAt(i)' = ConfirmedAt(i)  BY <1>2, <1>3, <1>4 DEF ConfirmedAt
  <2>4. ConfirmedAt(n)' = new
    <3>1. \A x \in MessageIds : conf[x] # n  BY <1>0, <1>2, <1>4 DEF ConfInv
    <3> QED  BY <1>3, <1>4, <3>1 DEF ConfirmedAt
  <2>5. ASSUME NEW i \in PrunedUpTo + 1 .. n  PROVE ConeRooted(i)'
    <3>1. CASE i = n
      <4>1. milestones'[i] = m  BY <1>1, <3>1
      <4>2. ConfirmedAt(i)' = new  BY <2>4, <3>1
      <4> QED  BY <1>1, <1>3, <4>1, <4>2 DEF ConeRooted
    <3>2. CASE i # n
      <4>1. i \in DOMAIN milestones /\ i \in 1 .. ledger  BY <1>2, <2>1, <3>2
      <4>2. milestones'[i] = milestones[i] /\ ConfirmedAt(i)' = ConfirmedAt(i) /\ ConeRooted(i)
        BY <1>0, <1>1, <2>3, <3>2, <4>1 DEF MilestonesInv
      <4> QED  BY <1>1, <4>2 DEF ConeRooted
    <3> QED  BY <3>1, <3>2
  <2> QED  BY <1>1, <2>2, <2>5 DEF MilestonesInv
<1>10. LimitsInv'
  <2>1. pruning' # "idle" => target' + PruningDelay <= n /\ pruningIndex < target' /\ pruning' = "confirmed"
    BY <1>1, <1>2, ShouldPruneIs
  <2>2. pruning' \in {"idle", "confirmed"}  BY <1>1, <2>1
  <2> QED  BY <1>0, <1>1, <1>2, <2>1, <2>2 DEF LimitsInv, Collecting
<1>11. DeletedInv'  BY <1>0, <1>1, <1>4 DEF DeletedInv
<1>12. SepsInv'
  <2>P. PICK P \in Nat : P = PrunedUpTo  BY <1>2
  <2>Q. P # 0 => P + PruningDelay <= ledger  BY <1>0, <2>P DEF LimitsInv
  <2>1. ASSUME NEW entry, GoodSeps(entry, P)  PROVE GoodSeps(entry, P)'
    <3>1. \A s \in DOMAIN entry : entry[s] \in Int /\ (s # Genesis => conf'[s] \in 1 .. P)
      <4>1. \A s \in DOMAIN entry : s # Genesis => s \in MessageIds /\ conf[s] # 0  BY <2>1 DEF GoodSeps, Nodes
      <4>2. \A s \in DOMAIN entry : s # Genesis => conf'[s] = conf[s]  BY <1>3, <1>4, <4>1
      <4> QED  BY <2>1, <4>2 DEF GoodSeps
    <3>2. ASSUME NEW x \in MessageIds, conf'[x] > P, NEW p \in parents[x]
          PROVE  \/ p # Genesis /\ conf'[p] > P
                 \/ p \in DOMAIN entry /\ (p # Genesis => entry[p] >= conf'[x])
      <4>1. CASE x \in new
        <5>2. CASE p = Genesis
          <6>1. P = 0  BY <1>2, <1>5, <4>1, <2>Q, <5>2
          <6> QED  BY <2>1, <5>2, <6>1 DEF GoodSeps
        <5>3. CASE p # Genesis  BY <1>2, <1>5, <4>1, <2>Q, <5>3
        <5> QED  BY <5>2, <5>3
      <4>2. CASE x \notin new
        <5>1. conf'[x] = conf[x]  BY <1>4, <4>2
        <5>2. \/ p # Genesis /\ conf[p] > P
              \/ p \in DOMAIN entry /\ (p # Genesis => entry[p] >= conf[x])
          BY <2>1, <3>2, <5>1 DEF GoodSeps
        <5>3. p # Genesis /\ conf[p] > P => conf'[p] > P
          BY <1>2, <1>3, <1>4 DEF Nodes
        <5> QED  BY <5>1, <5>2, <5>3
      <4> QED  BY <4>1, <4>2
    <3> QED  BY <1>1, <2>1, <3>1, <3>2 DEF GoodSeps
  <2>2. pruning' \in {"idle", "confirmed"}  BY <1>1
  <2>e. PICK entry : entry = seps  OBVIOUS
  <2>s. PICK onDisk : onDisk = sepsStored  OBVIOUS
  <2>3. broken # "seps" => GoodSeps(entry, P) /\ GoodSeps(onDisk, P)
    BY <1>0, <1>1, <1>2, <2>P, <2>e, <2>s DEF SepsInv, Collecting
  <2>4. broken # "seps" => GoodSeps(entry, P)' /\ GoodSeps(onDisk, P)'  BY <2>1, <2>3
  <2>5. broken # "seps" => GoodSeps(seps, P)' /\ GoodSeps(sepsStored, P)'
    BY <1>1, <2>4, <2>e, <2>s DEF GoodSeps
  <2>6. /\ broken' # "seps" => GoodSeps(seps, PrunedUpTo)' /\ GoodSeps(sepsStored, PrunedUpTo)'
        /\ PrunedUpTo' + 0 = PrunedUpTo'
    BY <1>1, <1>2, <2>5, <2>P
  <2> QED  BY <1>0, <1>1, <1>2, <2>2, <2>6 DEF SepsInv, Collecting
<1>13. BatchInv'  BY <1>1 DEF BatchInv, Collecting
<1> QED  BY <1>6, <1>7, <1>8, <1>9, <1>10, <1>11, <1>12, <1>13 DEF PruningInv

\* What prune traverses when no crash interrupted it: what the milestone
\* confirmed, all of it stored.
LEMMA TraversedIs ==
  ASSUME PruningInv, pruning = "confirmed", broken = "no", IndexToPrune \in DOMAIN milestones
  PROVE  /\ Traversed(milestones[IndexToPrune]) = ConfirmedAt(IndexToPrune)
         /\ ConfirmedAt(IndexToPrune) \subseteq messages
<1> DEFINE I == IndexToPrune
           start == milestones[I]
           C == ConfirmedAt(I)
           stop == DOMAIN seps
           V == Traversed(start)
<1>0. PruningTypeOK /\ ConfInv /\ EdgesInv /\ MilestonesInv /\ LimitsInv /\ DeletedInv /\ SepsInv /\ BatchInv
  BY DEF PruningInv
<1>1. parents \in Dags /\ pruningIndex \in Nat /\ PrunedUpTo = pruningIndex /\ I = pruningIndex + 1
  BY <1>0 DEF PruningTypeOK, PrunedUpTo, IndexToPrune
<1>2. ConeRooted(I)  BY <1>0 DEF MilestonesInv
<1>3. GoodSeps(seps, pruningIndex)  BY <1>0, <1>1 DEF SepsInv, Collecting
<1>4. \A x \in stop : x = Genesis \/ x \notin C  BY <1>1, <1>3 DEF GoodSeps, ConfirmedAt
<1>5. start \in C /\ C \subseteq MessageIds /\ C \in SUBSET Nodes /\ Genesis \notin C
  BY <1>2, PruningAssumption DEF ConeRooted, ConfirmedAt, Nodes
<1>6. start \in MessageIds /\ start \in Nodes /\ start \notin stop  BY <1>4, <1>5
<1>7. V = LeastClosed(start, stop)
  <2> HIDE DEF start, stop
  <2>1. ConeOf(start, stop) = LeastClosed(start, stop)  BY <1>1, <1>6, ConeIs
  <2> QED  BY <2>1 DEF V, Traversed, stop
<1>8. /\ V \in SUBSET Nodes /\ start \in V /\ IsClosed(V, stop)
      /\ \A X \in SUBSET Nodes : start \in X /\ IsClosed(X, stop) => V \subseteq X
  <2> HIDE DEF start, stop, V
  <2> QED  BY <1>1, <1>6, <1>7, LeastClosedIs
<1>9. V \subseteq C
  <2>1. ASSUME NEW x \in C, NEW p \in parents[x] \ stop  PROVE p \in C
    <3>1. x \in MessageIds /\ conf[x] = I /\ p \in Nodes  BY <1>1, ParentsAre DEF ConfirmedAt
    <3>2. p # Genesis /\ conf[p] > pruningIndex  BY <1>1, <1>3, <3>1 DEF GoodSeps
    <3>3. conf[p] \in 1 .. I  BY <1>0, <1>1, <3>1, <3>2 DEF ConfInv
    <3> QED  BY <1>1, <3>1, <3>2, <3>3 DEF ConfirmedAt, Nodes
  <2>2. IsClosed(C, stop)  BY <1>5, <2>1 DEF IsClosed
  <2> HIDE DEF start, stop, V, C
  <2> QED  BY <1>5, <1>8, <2>2
<1>10. C \subseteq V
  <2>1. \A x \in V \cap MessageIds : parents[x] \cap C \subseteq V  BY <1>4, <1>5, <1>8 DEF IsClosed
  <2> HIDE DEF V
  <2> QED  BY <1>2, <1>8, <2>1 DEF ConeRooted
<1>11. C \subseteq messages
  <2>1. \A x \in C : x \in MessageIds /\ conf[x] = pruningIndex + 1  BY <1>1 DEF ConfirmedAt
  <2>2. \A x \in C : arrivedAt[x] # Absent  BY <1>0, <1>1, <2>1 DEF ConfInv
  <2> QED  BY <1>0, <1>1, <2>1, <2>2 DEF DeletedInv
<1> QED  BY <1>9, <1>10, <1>11

\* The stored messages that refer to a message are among its approvers.
LEMMA ApproversAre ==
  ASSUME PruningInv, NEW m
  PROVE  /\ Approvers(m) \subseteq MessageIds
         /\ \A x \in messages : m \in parents[x] => x \in Approvers(m)
<1>0. PruningTypeOK /\ EdgesInv  BY DEF PruningInv
<1>1. Approvers(m) \subseteq MessageIds  BY <1>0 DEF PruningTypeOK, Approvers
<1>2. ASSUME NEW x \in messages, m \in parents[x]  PROVE x \in Approvers(m)
  <2>1. <<m, x>> \in edges  BY <1>0, <1>2 DEF EdgesInv
  <2>2. <<m, x>> \in {e \in edges : e[1] = m}  BY <2>1
  <2> QED  BY <2>2 DEF Approvers
<1> QED  BY <1>1, <1>2

\* The index up to which a message is needed as a solid entry point.
LEMMA MaxConfIs ==
  ASSUME PruningInv, NEW m, NEW seen
  PROVE  /\ max_conf_index(m, seen) \in Int /\ max_conf_index(m, seen) >= IndexToPrune
         /\ \A x \in Approvers(m) \ seen : conf[x] # 0 => max_conf_index(m, seen) >= conf[x]
<1> DEFINE A == Approvers(m) \ seen
           S == {approver_conf_index(id) : id \in A}
           T == {IndexToPrune} \cup S
<1>0. PruningTypeOK  BY DEF PruningInv
<1>1. A \subseteq MessageIds /\ IsFiniteSet(A)
  <2>1. A \subseteq MessageIds  BY ApproversAre
  <2> QED  BY <2>1, PruningAssumption, FS_Subset
<1>2. IndexToPrune \in Int /\ MitigationThreshold \in Int  BY <1>0, PruningAssumption DEF PruningTypeOK, IndexToPrune
<1>3. \A x \in A : approver_conf_index(x) \in Int /\ (conf[x] # 0 => approver_conf_index(x) = conf[x])
  BY <1>0, <1>1, <1>2 DEF PruningTypeOK, approver_conf_index
<1>4. IsFiniteSet(S)
  <2> DEFINE f == [id \in A |-> approver_conf_index(id)]
  <2>1. f \in Surjection(A, S)  BY DEF Surjection
  <2> HIDE DEF f, S, A
  <2> QED  BY <1>1, <2>1, FS_Surjection
<1>5. IsFiniteSet(T) /\ T \subseteq Int /\ T # {} /\ IndexToPrune \in T
  <2>1. S \subseteq Int  BY <1>3
  <2>2. T = S \cup {IndexToPrune}  OBVIOUS
  <2> HIDE DEF S, T
  <2>3. IsFiniteSet(T)  BY <1>4, <2>2, FS_AddElement
  <2> QED  BY <1>2, <2>1, <2>2, <2>3
<1>6. Max(T) \in T /\ \A y \in T : Max(T) >= y
  <2> HIDE DEF T
  <2> QED  BY <1>5, MaxIsElement
<1>7. max_conf_index(m, seen) = Max(T)  BY DEF max_conf_index
<1>8. \A x \in A : approver_conf_index(x) \in T  OBVIOUS
<1> HIDE DEF T
<1> QED  BY <1>3, <1>5, <1>6, <1>7, <1>8

\* The solid entry points that prune_confirmed_data computes.
NextSeps ==
  LET seen == Traversed(milestones[IndexToPrune])
      new == {m \in seen : max_conf_index(m, seen) > IndexToPrune}
      kept == KeptSeps(seps)
  IN  [s \in new \cup kept |-> IF s \in kept THEN seps[s] ELSE max_conf_index(s, seen)]

\* They are: an approver that is confirmed later keeps a message as an entry
\* point until then, and the entry points of the snapshot outlive the depth at
\* which a milestone may still refer to them.
LEMMA NextSepsAreGood ==
  ASSUME PruningInv, pruning = "confirmed", broken = "no", IndexToPrune \in DOMAIN milestones
  PROVE  GoodSeps(NextSeps, IndexToPrune)
<1> DEFINE I == IndexToPrune
           V == Traversed(milestones[I])
           new == {m \in V : max_conf_index(m, V) > I}
           kept == KeptSeps(seps)
<1>0. PruningTypeOK /\ ConfInv /\ EdgesInv /\ MilestonesInv /\ LimitsInv /\ DeletedInv /\ SepsInv /\ BatchInv
  BY DEF PruningInv
<1>1. /\ parents \in Dags /\ pruningIndex \in Nat /\ PrunedUpTo = pruningIndex /\ I = pruningIndex + 1 /\ NUM_PRUNINGS \in Nat
      /\ KEEP_INITIAL_SNAPSHOT_SEPS \in Nat /\ MitigationThreshold \in Nat
      /\ MitigationThreshold <= KEEP_INITIAL_SNAPSHOT_SEPS + 1
  BY <1>0, PruningAssumption DEF PruningTypeOK, PrunedUpTo, IndexToPrune
<1>2. V = ConfirmedAt(I) /\ V \subseteq messages  BY TraversedIs
<1>3. GoodSeps(seps, pruningIndex)  BY <1>0, <1>1 DEF SepsInv, Collecting
<1>4. /\ kept \subseteq DOMAIN seps
      /\ \A s \in DOMAIN seps : NUM_PRUNINGS < KEEP_INITIAL_SNAPSHOT_SEPS \/ seps[s] > I => s \in kept
  BY DEF KeptSeps
<1>5. /\ DOMAIN NextSeps = new \cup kept
      /\ \A s \in kept : NextSeps[s] = seps[s]
      /\ \A s \in new \ kept : NextSeps[s] = max_conf_index(s, V)
  BY DEF NextSeps
<1>6. \A s : /\ max_conf_index(s, V) \in Int
             /\ \A x \in Approvers(s) \ V : conf[x] # 0 => max_conf_index(s, V) >= conf[x]
  BY MaxConfIs
<1>7. \A s \in V : s \in MessageIds /\ conf[s] = I  BY <1>2 DEF ConfirmedAt
<1>8. new \subseteq V /\ \A s \in V : max_conf_index(s, V) > I => s \in new  OBVIOUS
<1>9. \A x \in MessageIds : conf[x] > I => x \in messages /\ x \notin V /\ conf[x] # 0 /\ conf[x] \in Nat
  <2> TAKE x \in MessageIds
  <2> HAVE conf[x] > I
  <2>1. conf[x] \in Nat /\ conf[x] # 0  BY <1>0, <1>1 DEF PruningTypeOK
  <2>2. arrivedAt[x] # Absent  BY <1>0, <2>1 DEF ConfInv
  <2> QED  BY <1>0, <1>1, <1>7, <2>1, <2>2 DEF DeletedInv
<1> HIDE DEF V, new, kept
<1>10. DOMAIN NextSeps \subseteq Nodes /\ I # 0  BY <1>1, <1>3, <1>4, <1>5, <1>7, <1>8 DEF GoodSeps, Nodes
<1>11. \A s \in DOMAIN NextSeps : NextSeps[s] \in Int /\ (s # Genesis => conf[s] \in 1 .. I)
  <2> TAKE s \in DOMAIN NextSeps
  <2>1. CASE s \in kept
    <3>1. s \in DOMAIN seps /\ NextSeps[s] = seps[s]  BY <1>4, <1>5, <2>1
    <3>2. seps[s] \in Int /\ (s # Genesis => conf[s] \in 1 .. pruningIndex)  BY <1>3, <3>1 DEF GoodSeps
    <3> QED  BY <1>1, <3>1, <3>2
  <2>2. CASE s \notin kept
    <3>1. s \in new /\ s \in V /\ NextSeps[s] = max_conf_index(s, V)  BY <1>5, <1>8, <2>2
    <3> QED  BY <1>1, <1>6, <1>7, <3>1
  <2> QED  BY <2>1, <2>2
<1>12. ASSUME NEW x \in MessageIds, conf[x] > I, NEW p \in parents[x]
       PROVE  \/ p # Genesis /\ conf[p] > I
              \/ p \in DOMAIN NextSeps /\ (p # Genesis => NextSeps[p] >= conf[x])
  <2>1. x \in messages /\ x \notin V /\ conf[x] # 0 /\ conf[x] \in Nat /\ conf[x] > pruningIndex  BY <1>1, <1>9, <1>12
  <2>2. \/ p # Genesis /\ conf[p] > pruningIndex
        \/ p \in DOMAIN seps /\ (p # Genesis => seps[p] >= conf[x])
    BY <1>3, <2>1 DEF GoodSeps
  <2>3. CASE p # Genesis /\ conf[p] > pruningIndex
    <3>1. p \in MessageIds /\ conf[p] \in Nat  BY <1>0, <1>1, <2>3, ParentsAre DEF Nodes, PruningTypeOK
    <3>2. CASE conf[p] > I  BY <2>3, <3>2
    <3>3. CASE ~ (conf[p] > I)
      <4>1. conf[p] = I  BY <1>1, <2>3, <3>1, <3>3
      <4>2. p \in V  BY <1>2, <3>1, <4>1 DEF ConfirmedAt
      <4>3. x \in Approvers(p) \ V  BY <2>1, ApproversAre
      <4>4. max_conf_index(p, V) \in Int /\ max_conf_index(p, V) >= conf[x]  BY <1>6, <2>1, <4>3
      <4>5. p \in new  BY <1>1, <1>8, <1>12, <2>1, <4>2, <4>4
      <4>6. p \notin kept  BY <1>1, <1>3, <1>4, <2>3, <4>1 DEF GoodSeps
      <4> QED  BY <1>5, <4>4, <4>5, <4>6
    <3> QED  BY <3>2, <3>3
  <2>4. CASE p \in DOMAIN seps /\ p # Genesis /\ seps[p] >= conf[x]
    <3>1. seps[p] \in Int  BY <1>3, <2>4 DEF GoodSeps
    <3>2. seps[p] > I  BY <1>1, <1>12, <2>1, <2>4, <3>1
    <3>3. p \in kept  BY <1>4, <2>4, <3>2
    <3> QED  BY <1>5, <2>4, <3>3
  <2>5. CASE p \in DOMAIN seps /\ p = Genesis
    <3>1. conf[x] <= MitigationThreshold  BY <1>0, <2>1, <2>5 DEF ConfInv
    <3>2. NUM_PRUNINGS <= pruningIndex  BY <1>0, <1>1 DEF LimitsInv, Collecting
    <3>3. NUM_PRUNINGS < KEEP_INITIAL_SNAPSHOT_SEPS  BY <1>1, <1>12, <2>1, <3>1, <3>2
    <3>4. p \in kept  BY <1>4, <2>5, <3>3
    <3> QED  BY <1>5, <2>5, <3>4
  <2> QED  BY <2>2, <2>3, <2>4, <2>5
<1> HIDE DEF I
<1>13. GoodSeps(NextSeps, I)  BY <1>10, <1>11, <1>12 DEF GoodSeps
<1> QED  BY <1>13 DEF I

\* prune fails, for a reason that explains what is missing.
LEMMA FailKeeps ==
  ASSUME PruningInv, pruning = "confirmed", NEW missing, PruneFails(missing),
         missing = "milestone" => broken = "info", missing = "message" => broken = "seps"
  PROVE  PruningInv'
<1>0. PruningTypeOK /\ ConfInv /\ EdgesInv /\ MilestonesInv /\ LimitsInv /\ DeletedInv /\ SepsInv /\ BatchInv
  BY DEF PruningInv
<1>1. /\ pruning' = "idle" /\ batch' = NoBatch /\ failed' = failed \cup {missing}
      /\ UNCHANGED <<parents, messages, edges, unreferenced, milestones, sepsStored, infoIndex, arrival, inserter, latest, conf, ledger, seps,
                     pruningIndex, NUM_PRUNINGS, target, arrivedAt, broken, PrunedUpTo>>
  BY DEF PruneFails, storageVars, arrivalVars, PrunedUpTo
<1>2. PruningTypeOK'  BY <1>0, <1>1 DEF PruningTypeOK, BatchIs, NoBatch
<1>3. ConfInv' /\ EdgesInv' /\ DeletedInv'  BY <1>0, <1>1 DEF ConfInv, EdgesInv, DeletedInv
<1>4. MilestonesInv'  BY <1>0, <1>1, MilestonesFrame
<1>5. LimitsInv'  BY <1>0, <1>1 DEF LimitsInv, Collecting
<1>6. SepsInv'  BY <1>0, <1>1 DEF SepsInv, GoodSeps, Collecting
<1>7. BatchInv'  BY <1>1 DEF BatchInv, Collecting
<1> QED  BY <1>2, <1>3, <1>4, <1>5, <1>6, <1>7 DEF PruningInv

\* prune_confirmed_data.
LEMMA ConfirmedDataKeeps ==
  ASSUME PruningInv, PruneConfirmedData
  PROVE  PruningInv'
<1> DEFINE I == IndexToPrune
           V == Traversed(milestones[I])
<1>0. PruningTypeOK /\ ConfInv /\ EdgesInv /\ MilestonesInv /\ LimitsInv /\ DeletedInv /\ SepsInv /\ BatchInv
  BY DEF PruningInv
<1>1. /\ pruning = "confirmed" /\ pruningIndex \in Nat /\ I = pruningIndex + 1 /\ target \in Int /\ ledger \in Nat
      /\ PruningDelay \in Nat /\ parents \in Dags /\ messages \subseteq MessageIds /\ NUM_PRUNINGS \in Nat
      /\ KEEP_INITIAL_SNAPSHOT_SEPS \in Nat
  BY <1>0, PruningAssumption DEF PruneConfirmedData, PruningTypeOK, IndexToPrune
<1>m. DOMAIN milestones = PrunedUpTo + 1 .. ledger /\ broken \in {"no", "seps", "info"} /\ I <= ledger
  <2>1. pruningIndex < target /\ target + PruningDelay <= ledger  BY <1>0, <1>1 DEF LimitsInv
  <2> QED  BY <1>0, <1>1, <2>1 DEF MilestonesInv, PruningTypeOK
<1>2. CASE I \notin DOMAIN milestones /\ PruneFails("milestone")
  <2>1. broken = "info"  BY <1>1, <1>2, <1>m DEF PrunedUpTo
  <2> QED  BY <1>1, <1>2, <2>1, FailKeeps
<1>3. CASE I \in DOMAIN milestones /\ PruneFails("message") /\ ~ V \subseteq messages
  <2>1. broken # "info"  BY <1>1, <1>3, <1>m DEF PrunedUpTo
  <2>2. broken # "no"  BY <1>1, <1>3, TraversedIs
  <2> QED  BY <1>1, <1>3, <1>m, <2>1, <2>2, FailKeeps
<1>5. CASE PruneFails("metadata")  BY <1>1, <1>5, FailKeeps
<1>4. CASE /\ I \in DOMAIN milestones
           /\ V \subseteq messages
           /\ batch' = [messages |-> V, edges |-> prune_edge(V), unreferenced |-> {}, seps |-> NextSeps]
           /\ seps' = NextSeps
           /\ NUM_PRUNINGS' = Min({NUM_PRUNINGS + 1, KEEP_INITIAL_SNAPSHOT_SEPS})
           /\ pruning' = "unconfirmed"
           /\ UNCHANGED <<parents, messages, edges, unreferenced, milestones, sepsStored, infoIndex, arrival, inserter, latest,
                          conf, ledger, pruningIndex, target, arrivedAt, broken, failed>>
  <2>1. broken = "no"
    <3>1. DOMAIN milestones = PrunedUpTo + 1 .. ledger /\ ConeRooted(I) /\ broken \in {"no", "seps", "info"}
      BY <1>0, <1>4 DEF MilestonesInv, PruningTypeOK
    <3>2. broken # "info"  BY <1>1, <1>4, <3>1 DEF PrunedUpTo
    <3>3. broken # "seps"
      <4> SUFFICES ASSUME broken = "seps"  PROVE FALSE  OBVIOUS
      <4> DEFINE start == milestones[I]
      <4>1. DOMAIN seps = {}  BY <1>0 DEF SepsInv
      <4>2. start \in MessageIds /\ start \in Nodes  BY <3>1 DEF ConeRooted, ConfirmedAt, Nodes
      <4>3. V = ConeOf(start, {})  BY <4>1 DEF Traversed
      <4> HIDE DEF start, V
      <4>4. V = LeastClosed(start, {})  BY <1>1, <4>2, <4>3, ConeIs
      <4>5. start \in V /\ IsClosed(V, {})  BY <1>1, <4>2, <4>4, LeastClosedIs
      <4>6. V \in SUBSET MessageIds  BY <1>1, <1>4
      <4> QED  BY <1>1, <4>5, <4>6, NothingClosed
    <3> QED  BY <3>1, <3>2, <3>3
  <2>2. V = ConfirmedAt(I) /\ GoodSeps(NextSeps, I)  BY <1>1, <1>4, <2>1, TraversedIs, NextSepsAreGood
  <2>3. PrunedUpTo' = PrunedUpTo /\ PrunedUpTo = pruningIndex /\ IndexToPrune' = I
    BY <1>4, <2>1 DEF PrunedUpTo, IndexToPrune
  <2>4. NUM_PRUNINGS' \in Nat /\ NUM_PRUNINGS' <= NUM_PRUNINGS + 1
    <3>1. PICK a \in Nat : a = NUM_PRUNINGS + 1  BY <1>1
    <3>2. Min({a, KEEP_INITIAL_SNAPSHOT_SEPS}) \in {a, KEEP_INITIAL_SNAPSHOT_SEPS} /\ Min({a, KEEP_INITIAL_SNAPSHOT_SEPS}) <= a
      BY <1>1, MinOfTwo
    <3> QED  BY <1>1, <1>4, <3>1, <3>2
  <2>5. PruningTypeOK'  BY <1>0, <1>4, <2>4 DEF PruningTypeOK, BatchIs, Collecting
  <2>6. ConfInv' /\ EdgesInv' /\ DeletedInv'  BY <1>0, <1>4, <2>3 DEF ConfInv, EdgesInv, DeletedInv
  <2>7. MilestonesInv'  BY <1>0, <1>4, <2>3, MilestonesFrame
  <2>8. LimitsInv'  BY <1>0, <1>1, <1>4, <2>1, <2>3, <2>4 DEF LimitsInv, Collecting
  <2>9. SepsInv'
    <3>1. PICK i \in Nat : i = I  BY <1>1
    <3>2. PICK j \in Nat : j = pruningIndex  BY <1>1
    <3>3. PICK entry : entry = NextSeps  OBVIOUS
    <3>4. GoodSeps(entry, i) /\ GoodSeps(sepsStored, j)
      BY <1>0, <1>1, <2>1, <2>2, <2>3, <3>1, <3>2, <3>3 DEF SepsInv
    <3>5. GoodSeps(entry, i)'  BY <1>4, <3>4 DEF GoodSeps
    <3>6. GoodSeps(seps, i)'  BY <1>4, <3>3, <3>5 DEF GoodSeps
    <3>7. GoodSeps(sepsStored, j)'  BY <1>4, <3>4 DEF GoodSeps
    <3>8. j = PrunedUpTo' /\ i = PrunedUpTo' + 1 /\ pruning' \in Collecting /\ pruning' # "commit" /\ broken' # "seps"
      BY <1>1, <1>4, <2>1, <2>3, <3>1, <3>2 DEF Collecting
    <3> QED  BY <3>6, <3>7, <3>8 DEF SepsInv
  <2>10. BatchInv'
    <3>1. batch'.seps = NextSeps /\ batch'.messages = V /\ batch'.edges = prune_edge(V)  BY <1>4
    <3>2. \A m \in V : conf[m] = I  BY <2>2 DEF ConfirmedAt
    <3> HIDE DEF V, I
    <3> QED  BY <1>4, <2>3, <3>1, <3>2 DEF BatchInv, prune_edge
  <2> QED  BY <2>5, <2>6, <2>7, <2>8, <2>9, <2>10 DEF PruningInv
<1> QED  BY <1>2, <1>3, <1>4, <1>5 DEF PruneConfirmedData, storageVars, arrivalVars, NextSeps

\* prune_unconfirmed_data.
LEMMA UnconfirmedDataKeeps ==
  ASSUME PruningInv, PruneUnconfirmedData
  PROVE  PruningInv'
<1> DEFINE I == IndexToPrune
<1>0. PruningTypeOK /\ ConfInv /\ EdgesInv /\ MilestonesInv /\ LimitsInv /\ DeletedInv /\ SepsInv /\ BatchInv
  BY DEF PruningInv
<1>1. PICK U \in SUBSET messages :
        /\ \A m \in U : conf[m] = 0 /\ <<I, m>> \in unreferenced
        /\ batch' = [batch EXCEPT !.messages = @ \cup U, !.edges = @ \cup prune_edge(U),
                                  !.unreferenced = {<<I, m>> : m \in U}]
  <2> DEFINE U == {m \in messages : /\ <<IndexToPrune, m>> \in unreferenced /\ conf[m] = 0
                                    /\ \A a \in Approvers(m) \cap messages : conf[a] = 0}
  <2>1. U \in SUBSET messages /\ \A m \in U : conf[m] = 0 /\ <<I, m>> \in unreferenced  OBVIOUS
  <2>2. batch' = [batch EXCEPT !.messages = @ \cup U, !.edges = @ \cup prune_edge(U),
                               !.unreferenced = {<<I, m>> : m \in U}]
    BY DEF PruneUnconfirmedData
  <2> HIDE DEF U
  <2> QED  BY <2>1, <2>2
<1>2. /\ pruning = "unconfirmed" /\ pruning' = "truncate"
      /\ UNCHANGED <<parents, messages, edges, unreferenced, milestones, sepsStored, infoIndex, arrival, inserter, latest,
                     conf, ledger, seps, pruningIndex, NUM_PRUNINGS, target, arrivedAt, broken, failed, PrunedUpTo,
                     IndexToPrune>>
  BY DEF PruneUnconfirmedData, storageVars, arrivalVars, PrunedUpTo, IndexToPrune
<1>3. /\ batch'.messages = batch.messages \cup U /\ batch'.edges = batch.edges \cup prune_edge(U)
      /\ batch'.seps = batch.seps
      /\ batch' = [messages |-> batch'.messages, edges |-> batch'.edges, unreferenced |-> batch'.unreferenced,
                   seps |-> batch'.seps]
  <2>1. PICK a, b, c, d : batch = [messages |-> a, edges |-> b, unreferenced |-> c, seps |-> d]
    BY <1>0 DEF PruningTypeOK, BatchIs
  <2>2. batch' = [messages |-> a \cup U, edges |-> b \cup prune_edge(U), unreferenced |-> {<<I, m>> : m \in U}, seps |-> d]
    <3> HIDE DEF I
    <3> QED  BY <1>1, <2>1
  <2> QED  BY <2>1, <2>2
<1>4. PruningTypeOK'  BY <1>0, <1>2, <1>3 DEF PruningTypeOK, BatchIs, Collecting
<1>5. ConfInv' /\ EdgesInv' /\ DeletedInv'  BY <1>0, <1>2 DEF ConfInv, EdgesInv, DeletedInv
<1>6. MilestonesInv'  BY <1>0, <1>2, MilestonesFrame
<1>7. LimitsInv'  BY <1>0, <1>2 DEF LimitsInv, Collecting
<1>8. SepsInv'  BY <1>0, <1>2 DEF SepsInv, GoodSeps, Collecting
<1>9. BatchInv'
  <2>1. /\ batch.seps = seps /\ batch.messages \subseteq messages /\ batch.edges = {e \in edges : e[2] \in batch.messages}
        /\ \A m \in batch.messages : conf[m] = I \/ (conf[m] = 0 /\ arrivedAt[m] <= I)
    BY <1>0, <1>2 DEF BatchInv, Collecting
  <2>2. \A m \in U : conf[m] = 0 /\ arrivedAt[m] <= I
    <3> TAKE m \in U
    <3>1. <<I, m>> \in unreferenced /\ conf[m] = 0  BY <1>1
    <3> HIDE DEF I
    <3>2. arrivedAt[<<I, m>>[2]] <= <<I, m>>[1]  BY <1>0, <3>1 DEF ConfInv
    <3> QED  BY <3>1, <3>2
  <2>3. batch'.edges = {e \in edges : e[2] \in batch'.messages}  BY <1>3, <2>1 DEF prune_edge
  <2> QED  BY <1>1, <1>2, <1>3, <2>1, <2>2, <2>3 DEF BatchInv
<1> QED  BY <1>4, <1>5, <1>6, <1>7, <1>8, <1>9 DEF PruningInv

\* The old solid entry points are truncated.
LEMMA TruncateKeeps ==
  ASSUME PruningInv, TruncateSeps
  PROVE  PruningInv'
<1>0. PruningTypeOK /\ ConfInv /\ EdgesInv /\ MilestonesInv /\ LimitsInv /\ DeletedInv /\ SepsInv /\ BatchInv
  BY DEF PruningInv
<1>1. /\ pruning = "truncate" /\ pruning' = "commit" /\ DOMAIN sepsStored' = {}
      /\ UNCHANGED <<parents, messages, edges, unreferenced, milestones, infoIndex, arrival, inserter, latest, conf, ledger, seps,
                     pruningIndex, NUM_PRUNINGS, target, batch, arrivedAt, broken, failed, PrunedUpTo, IndexToPrune>>
  BY DEF TruncateSeps, arrivalVars, PrunedUpTo, IndexToPrune
<1>2. PruningTypeOK'  BY <1>0, <1>1 DEF PruningTypeOK, BatchIs, Collecting
<1>3. ConfInv' /\ EdgesInv' /\ DeletedInv'  BY <1>0, <1>1 DEF ConfInv, EdgesInv, DeletedInv
<1>4. MilestonesInv'  BY <1>0, <1>1, MilestonesFrame
<1>5. LimitsInv'  BY <1>0, <1>1 DEF LimitsInv, Collecting
<1>6. SepsInv'  BY <1>0, <1>1 DEF SepsInv, GoodSeps, Collecting
<1>7. BatchInv'  BY <1>0, <1>1 DEF BatchInv, Collecting
<1> QED  BY <1>2, <1>3, <1>4, <1>5, <1>6, <1>7 DEF PruningInv

\* The batch is committed.
LEMMA CommitKeeps ==
  ASSUME PruningInv, BatchCommit
  PROVE  PruningInv'
<1> DEFINE I == IndexToPrune
           B == batch.messages
<1>0. PruningTypeOK /\ ConfInv /\ EdgesInv /\ MilestonesInv /\ LimitsInv /\ DeletedInv /\ SepsInv /\ BatchInv
  BY DEF PruningInv
<1>1. /\ pruning = "commit" /\ pruning' = "info" /\ pruning \in Collecting
      /\ messages' = messages \ B /\ edges' = edges \ batch.edges /\ unreferenced' \subseteq unreferenced
      /\ milestones' = [i \in DOMAIN milestones \ {I} |-> milestones[i]]
      /\ pruningIndex' = I /\ batch' = NoBatch
      /\ sepsStored' = [s \in DOMAIN sepsStored \cup DOMAIN batch.seps |->
                          IF s \in DOMAIN batch.seps THEN batch.seps[s] ELSE sepsStored[s]]
      /\ UNCHANGED <<parents, infoIndex, arrival, inserter, latest, conf, ledger, seps, NUM_PRUNINGS, target, arrivedAt,
                     broken, failed>>
  BY DEF BatchCommit, arrivalVars, Restrict, Collecting
<1>2. /\ broken = "no" /\ pruningIndex \in Nat /\ I = pruningIndex + 1 /\ target \in Int /\ ledger \in Nat /\ PruningDelay \in Nat
      /\ PrunedUpTo = pruningIndex /\ PrunedUpTo' = I /\ infoIndex = pruningIndex
      /\ pruningIndex < target /\ target + PruningDelay <= ledger /\ NUM_PRUNINGS \in Nat /\ NUM_PRUNINGS <= I
  BY <1>0, <1>1, PruningAssumption DEF PruningTypeOK, LimitsInv, PrunedUpTo, IndexToPrune
<1>3. /\ batch.seps = seps /\ B \subseteq messages /\ batch.edges = {e \in edges : e[2] \in B}
      /\ \A m \in B : conf[m] = I \/ (conf[m] = 0 /\ arrivedAt[m] <= I)
  BY <1>0, <1>1 DEF BatchInv
<1> HIDE DEF I, B
<1>4. PruningTypeOK'  BY <1>0, <1>1, <1>2 DEF PruningTypeOK, BatchIs, NoBatch
<1>5. ConfInv'  BY <1>0, <1>1 DEF ConfInv
<1>6. EdgesInv'  BY <1>0, <1>1, <1>3 DEF EdgesInv
<1>7. MilestonesInv'
  <2>1. DOMAIN milestones = pruningIndex + 1 .. ledger  BY <1>0, <1>2 DEF MilestonesInv
  <2>2. DOMAIN milestones' = I + 1 .. ledger  BY <1>1, <1>2, <2>1
  <2>3. ASSUME NEW i \in DOMAIN milestones'  PROVE ConeRooted(i)'
    <3>1. i \in DOMAIN milestones /\ milestones'[i] = milestones[i]  BY <1>1, <2>3
    <3>2. ConeRooted(i)  BY <1>0, <3>1 DEF MilestonesInv
    <3> QED  BY <1>1, <3>1, <3>2 DEF ConeRooted, ConfirmedAt
  <2> QED  BY <1>1, <1>2, <2>2, <2>3 DEF MilestonesInv
<1>8. LimitsInv'  BY <1>0, <1>1, <1>2 DEF LimitsInv, Collecting
<1>9. DeletedInv'
  <2> SUFFICES ASSUME NEW m \in MessageIds, arrivedAt[m] # Absent, m \notin messages'
               PROVE  I >= 1 /\ (conf[m] \in 1 .. I \/ (conf[m] = 0 /\ arrivedAt[m] <= I))
    BY <1>1, <1>2 DEF DeletedInv
  <2>1. conf[m] \in Nat /\ arrivedAt[m] \in Nat  BY <1>0 DEF PruningTypeOK
  <2>2. CASE m \in B  BY <1>2, <1>3, <2>1, <2>2
  <2>3. CASE m \notin messages
    <3>1. conf[m] \in 1 .. pruningIndex \/ (conf[m] = 0 /\ arrivedAt[m] <= pruningIndex)  BY <1>0, <1>2, <2>3 DEF DeletedInv
    <3> QED  BY <1>2, <2>1, <3>1
  <2> QED  BY <1>1, <2>2, <2>3
<1>10. SepsInv'
  <2>1. DOMAIN sepsStored = {}  BY <1>0, <1>1 DEF SepsInv
  <2>2. DOMAIN sepsStored' = DOMAIN seps /\ \A s \in DOMAIN seps : sepsStored'[s] = seps[s]  BY <1>1, <1>3, <2>1
  <2>3. PICK i \in Nat : i = I  BY <1>2
  <2>4. GoodSeps(seps, i)  BY <1>0, <1>1, <1>2, <2>3 DEF SepsInv
  <2>5. GoodSeps(seps, i)'  BY <1>1, <2>4 DEF GoodSeps
  <2>6. GoodSeps(sepsStored, i)'  BY <1>1, <2>2, <2>4 DEF GoodSeps
  <2>7. pruning' \notin Collecting /\ pruning' # "commit" /\ broken' = "no" /\ PrunedUpTo' = i /\ PrunedUpTo' + 0 = i
    BY <1>1, <1>2, <2>3 DEF Collecting
  <2> QED  BY <2>5, <2>6, <2>7 DEF SepsInv
<1>11. BatchInv'  BY <1>1 DEF BatchInv, Collecting
<1> QED  BY <1>4, <1>5, <1>6, <1>7, <1>8, <1>9, <1>10, <1>11 DEF PruningInv

\* The snapshot info is updated.
LEMMA InfoKeeps ==
  ASSUME PruningInv, UpdateSnapshotInfo
  PROVE  PruningInv'
<1>0. PruningTypeOK /\ ConfInv /\ EdgesInv /\ MilestonesInv /\ LimitsInv /\ DeletedInv /\ SepsInv /\ BatchInv
  BY DEF PruningInv
<1>1. /\ pruning = "info" /\ infoIndex' = pruningIndex /\ pruning' = (IF pruningIndex < target THEN "confirmed" ELSE "idle")
      /\ UNCHANGED <<parents, messages, edges, unreferenced, milestones, sepsStored, arrival, inserter, latest, conf, ledger, seps,
                     pruningIndex, NUM_PRUNINGS, target, batch, arrivedAt, broken, failed, PrunedUpTo>>
  BY DEF UpdateSnapshotInfo, arrivalVars, PrunedUpTo
<1>2. PruningTypeOK'  BY <1>0, <1>1 DEF PruningTypeOK, BatchIs, Collecting
<1>3. ConfInv' /\ EdgesInv' /\ DeletedInv'  BY <1>0, <1>1 DEF ConfInv, EdgesInv, DeletedInv
<1>4. MilestonesInv'  BY <1>0, <1>1, MilestonesFrame
<1>5. LimitsInv'  BY <1>0, <1>1 DEF LimitsInv, Collecting
<1>6. SepsInv'  BY <1>0, <1>1 DEF SepsInv, GoodSeps, Collecting
<1>7. BatchInv'  BY <1>1 DEF BatchInv, Collecting
<1> QED  BY <1>2, <1>3, <1>4, <1>5, <1>6, <1>7 DEF PruningInv

\* The node crashes and starts again.
LEMMA RestartKeeps ==
  ASSUME PruningInv, Restart
  PROVE  PruningInv'
<1>0. PruningTypeOK /\ ConfInv /\ EdgesInv /\ MilestonesInv /\ LimitsInv /\ DeletedInv /\ SepsInv /\ BatchInv
  BY DEF PruningInv
<1>1. /\ pruning' = "idle" /\ batch' = NoBatch /\ seps' = sepsStored /\ pruningIndex' = infoIndex /\ NUM_PRUNINGS' = 0
      /\ broken' = (IF pruning = "commit" THEN "seps" ELSE IF pruning = "info" THEN "info" ELSE broken)
      /\ UNCHANGED <<parents, messages, edges, unreferenced, milestones, sepsStored, infoIndex, conf, ledger, target,
                     arrivedAt, failed>>
      /\ inserter' = {} /\ latest' = ledger
  BY DEF Restart, storageVars
<1>2. /\ pruningIndex \in Nat /\ infoIndex \in Nat
      /\ infoIndex = (IF pruning = "info" THEN pruningIndex - 1 ELSE pruningIndex)
      /\ pruning \notin {"idle", "confirmed"} => broken = "no"
      /\ pruning = "info" => pruningIndex >= 1
  BY <1>0 DEF PruningTypeOK, LimitsInv
<1>3. PrunedUpTo' = PrunedUpTo /\ PrunedUpTo \in Nat  BY <1>1, <1>2 DEF PrunedUpTo
<1>a. /\ arrival' \in [MessageIds -> {"none", "edges", "cut", "stored", "settled"}]
      /\ \A m \in MessageIds : arrival'[m] \in {"stored", "settled"} <=> arrival[m] \in {"stored", "settled"}
      /\ \A m \in MessageIds : arrival'[m] \in {"edges", "cut"} <=> arrival[m] \in {"edges", "cut"}
  <2> DEFINE f == [m \in MessageIds |-> IF arrival[m] = "edges" THEN "cut"
                                      ELSE IF arrival[m] = "stored" THEN "settled" ELSE arrival[m]]
  <2>1. arrival' = f  BY DEF Restart
  <2>2. arrival \in [MessageIds -> {"none", "edges", "cut", "stored", "settled"}]  BY <1>0 DEF PruningTypeOK
  <2> QED  BY <2>1, <2>2
<1>4. PruningTypeOK'  BY <1>0, <1>1, <1>a DEF PruningTypeOK, BatchIs, NoBatch
<1>5. ConfInv' /\ EdgesInv' /\ DeletedInv'
  <2>a. \A m \in MessageIds : arrivedAt[m] # Absent <=> arrival'[m] \in {"stored", "settled"}
    <3> TAKE m \in MessageIds
    <3>1. arrivedAt[m] # Absent <=> arrival[m] \in {"stored", "settled"}  BY <1>0 DEF ConfInv
    <3>2. arrival'[m] \in {"stored", "settled"} <=> arrival[m] \in {"stored", "settled"}  BY <1>a
    <3> QED  BY <3>1, <3>2
  <2>b. ledger <= latest'  BY <1>0, <1>1 DEF PruningTypeOK
  <2>1. ConfInv'  BY <1>0, <1>1, <2>a, <2>b DEF ConfInv
  <2>2. \A e \in edges : e[2] \in MessageIds  BY <1>0 DEF PruningTypeOK
  <2>3. EdgesInv'  BY <1>0, <1>1, <1>a, <2>2 DEF EdgesInv
  <2> QED  BY <1>0, <1>1, <1>3, <2>1, <2>3 DEF DeletedInv
<1>6. MilestonesInv'  BY <1>0, <1>1, <1>3, MilestonesFrame
<1>7. LimitsInv'  BY <1>0, <1>1, <1>2, <1>3 DEF LimitsInv, Collecting
<1>8. SepsInv'
  <2>1. CASE pruning = "commit"
    <3>1. DOMAIN sepsStored = {} /\ broken' = "seps"  BY <1>0, <1>1, <2>1 DEF SepsInv
    <3> QED  BY <1>1, <3>1 DEF SepsInv
  <2>2. CASE pruning # "commit" /\ broken # "seps"
    <3>1. PICK i \in Nat : i = PrunedUpTo  BY <1>3
    <3>2. GoodSeps(sepsStored, i)  BY <1>0, <2>2, <3>1 DEF SepsInv
    <3>3. GoodSeps(seps, i)' /\ GoodSeps(sepsStored, i)'  BY <1>1, <3>2 DEF GoodSeps
    <3>4. broken' # "seps" /\ pruning' \notin Collecting /\ pruning' # "commit" /\ PrunedUpTo' = i /\ PrunedUpTo' + 0 = i
      BY <1>1, <1>3, <2>2, <3>1 DEF Collecting
    <3> QED  BY <3>3, <3>4 DEF SepsInv
  <2>3. CASE pruning # "commit" /\ broken = "seps"
    <3>1. broken' = "seps" /\ DOMAIN sepsStored = {}  BY <1>0, <1>1, <1>2, <2>3 DEF SepsInv
    <3> QED  BY <1>1, <3>1 DEF SepsInv
  <2> QED  BY <2>1, <2>2, <2>3
<1>9. BatchInv'  BY <1>1 DEF BatchInv, Collecting
<1> QED  BY <1>4, <1>5, <1>6, <1>7, <1>8, <1>9 DEF PruningInv

\* Every step keeps the invariant.
LEMMA PruningKept == ASSUME PruningInv, [PruningNext]_pruningVars  PROVE PruningInv'
<1>1. CASE PruningNext
  BY <1>1, WriteEdgeKeeps, StoreArrivedKeeps, RowsKeep, ConfirmKeeps, ConfirmedDataKeeps, UnconfirmedDataKeeps, TruncateKeeps, CommitKeeps, InfoKeeps,
     RestartKeeps DEF PruningNext
<1>2. CASE UNCHANGED pruningVars
  <2>1. UNCHANGED <<parents, messages, edges, unreferenced, milestones, sepsStored, infoIndex, arrival, inserter, latest, conf, ledger,
                    seps, pruningIndex, NUM_PRUNINGS, pruning, target, batch, arrivedAt, broken, failed, PrunedUpTo,
                    IndexToPrune>>
    BY <1>2 DEF pruningVars, storageVars, arrivalVars, pruneVars, PrunedUpTo, IndexToPrune
  <2>2. PruningTypeOK /\ ConfInv /\ EdgesInv /\ MilestonesInv /\ LimitsInv /\ DeletedInv /\ SepsInv /\ BatchInv
    BY DEF PruningInv
  <2>3. PruningTypeOK'  BY <2>1, <2>2 DEF PruningTypeOK, BatchIs
  <2>4. ConfInv' /\ EdgesInv' /\ DeletedInv'  BY <2>1, <2>2 DEF ConfInv, EdgesInv, DeletedInv
  <2>5. MilestonesInv' /\ SepsInv'  BY <2>1, <2>2, MilestonesFrame, SepsFrame
  <2>6. LimitsInv' /\ BatchInv'  BY <2>1, <2>2 DEF LimitsInv, BatchInv
  <2> QED  BY <2>3, <2>4, <2>5, <2>6 DEF PruningInv
<1> QED  BY <1>1, <1>2

\* What the invariant says to a reader.
LEMMA PruningPromises == ASSUME PruningInv  PROVE ConesComplete /\ PrunedSafely
<1>0. PruningTypeOK /\ ConfInv /\ EdgesInv /\ MilestonesInv /\ LimitsInv /\ DeletedInv /\ SepsInv /\ BatchInv
  BY DEF PruningInv
<1>1. /\ pruningIndex \in Nat /\ PrunedUpTo \in Nat /\ ledger \in Nat /\ PruningDelay \in Nat /\ parents \in Dags
      /\ \A m \in MessageIds : conf[m] \in Nat /\ (arrivedAt[m] # Absent => arrivedAt[m] \in Nat)
  BY <1>0, PruningAssumption DEF PruningTypeOK, PrunedUpTo
<1>2. \A m \in MessageIds : conf[m] > PrunedUpTo => m \in messages
  <2> TAKE m \in MessageIds
  <2> HAVE conf[m] > PrunedUpTo
  <2>1. arrivedAt[m] # Absent /\ conf[m] # 0  BY <1>0, <1>1 DEF ConfInv
  <2> QED  BY <1>0, <1>1, <2>1 DEF DeletedInv
<1>3. ConesComplete
  <2> DEFINE i == PrunedUpTo + (IF pruning \in Collecting THEN 1 ELSE 0)
  <2> SUFFICES ASSUME broken # "seps", NEW m \in MessageIds, conf[m] > pruningIndex + (IF BeingPruned THEN 1 ELSE 0)
               PROVE  /\ m \in messages
                      /\ \A p \in parents[m] : p \in messages \cup DOMAIN seps
                      /\ pruning = "idle" => \A p \in parents[m] : p \in messages \cup DOMAIN sepsStored
    BY DEF ConesComplete
  <2>1. i = pruningIndex + (IF BeingPruned THEN 1 ELSE 0) /\ i \in Nat /\ i >= PrunedUpTo
    <3>1. pruning \in Collecting => broken = "no"  BY <1>0 DEF LimitsInv, Collecting
    <3> QED  BY <1>1, <3>1 DEF BeingPruned, PrunedUpTo, Collecting
  <2>2. conf[m] > i /\ m \in messages  BY <1>1, <1>2, <2>1
  <2>3. parents[m] \subseteq Nodes  BY <1>1, ParentsAre
  <2>4. GoodSeps(seps, i)  BY <1>0 DEF SepsInv
  <2>5. pruning = "idle" => GoodSeps(sepsStored, i)  BY <1>0, <1>1 DEF SepsInv, Collecting
  <2> HIDE DEF i
  <2>6. ASSUME NEW entry, GoodSeps(entry, i), NEW p \in parents[m]  PROVE p \in messages \cup DOMAIN entry
    <3>1. (p # Genesis /\ conf[p] > i) \/ p \in DOMAIN entry  BY <2>2, <2>6 DEF GoodSeps
    <3>2. ASSUME p # Genesis, conf[p] > i  PROVE p \in messages
      <4>1. p \in MessageIds  BY <2>3, <3>2 DEF Nodes
      <4> QED  BY <1>1, <1>2, <2>1, <3>2, <4>1
    <3> QED  BY <3>1, <3>2
  <2> QED  BY <2>2, <2>4, <2>5, <2>6
<1>4. PruningSucceeds /\ EdgesLeadToMessages  BY <1>0 DEF LimitsInv, EdgesInv, PruningSucceeds, EdgesLeadToMessages
<1>5. RecentKept
  <2> SUFFICES ASSUME NEW m \in MessageIds, arrivedAt[m] # Absent, m \notin messages
               PROVE  ~ (conf[m] > ledger - PruningDelay \/ arrivedAt[m] > ledger - PruningDelay)
    BY DEF RecentKept
  <2>1. PrunedUpTo >= 1 /\ (conf[m] \in 1 .. PrunedUpTo \/ (conf[m] = 0 /\ arrivedAt[m] <= PrunedUpTo))
    BY <1>0 DEF DeletedInv
  <2>2. PrunedUpTo + PruningDelay <= ledger  BY <1>0, <1>1, <2>1 DEF LimitsInv
  <2>3. conf[m] # 0 => arrivedAt[m] < conf[m]  BY <1>0 DEF ConfInv
  <2> QED  BY <1>1, <2>1, <2>2, <2>3
<1> QED  BY <1>3, <1>4, <1>5 DEF PrunedSafely

\* So it always holds.
LEMMA PruningAlways == PruningSpec => []PruningInv
<1>1. PruningInit => PruningInv  BY PruningInvInit
<1>2. PruningInv /\ [PruningNext]_pruningVars => PruningInv'  BY PruningKept
<1> QED  BY <1>1, <1>2, PTL DEF PruningSpec

\* prune leaves every milestone that it does not delete a past cone that can be
\* walked, down to stored messages and solid entry points, whatever arrives in
\* the meantime and wherever a crash comes, except between the truncation of
\* the solid entry points and the commit.
THEOREM ConesStayComplete == PruningSpec => []ConesComplete
<1>1. PruningInv => ConesComplete  BY PruningPromises
<1> QED  BY <1>1, PruningAlways, PTL

\* prune deletes nothing that its traversal looks for later, unless a crash
\* comes between two of its writes, no end of an edge that stays, and nothing
\* of the last milestones within the pruning delay, while messages are stored
\* edge by edge next to it.
THEOREM PruningDeletesSafely == PruningSpec => []PrunedSafely
<1>1. PruningInv => PrunedSafely  BY PruningPromises
<1> QED  BY <1>1, PruningAlways, PTL
=============================================================================
