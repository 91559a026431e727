---------------------------- MODULE NetworkProofs ---------------------------
(***************************************************************************)
(* What discovery and peering promise whatever the number of peers, tasks  *)
(* and salts, whatever the distances and however long the lists of peers;  *)
(* and what the list of peers of the gossip layer and the peer manager     *)
(* promise, whatever the number of peers, connections and commands.        *)
(***************************************************************************)
EXTENDS Peering, PeerDiscovery, PeerManager, FoldProofs, SequenceTheorems

-----------------------------------------------------------------------------
(***************************************************************************)
(* Rings: lists of peers without repetition and of limited length.         *)
(***************************************************************************)
Rings(P, size) ==
  {r \in Seq(P) : Len(r) <= size
                  /\ \A i, j \in 1 .. Len(r) : r[i].id = r[j].id => i = j}

\* The part of a sequence from one index to another.
LEMMA PartOf ==
  ASSUME NEW P, NEW r \in Seq(P), NEW m \in 1 .. Len(r) + 1, NEW n \in m - 1 .. Len(r)
  PROVE  /\ SubSeq(r, m, n) \in Seq(P) /\ Len(SubSeq(r, m, n)) = n - m + 1
         /\ \A i \in 1 .. n - m + 1 : SubSeq(r, m, n)[i] = r[m + i - 1]
<1>1. \A i \in m .. n : r[i] \in P  OBVIOUS
<1>2. m \in Int /\ n \in Int /\ (m <= n => n - m + 1 \in Nat)  OBVIOUS
<1>3. CASE m <= n
  <2>1. SubSeq(r, m, n) \in Seq(P) /\ Len(SubSeq(r, m, n)) = n - m + 1
        /\ \A i \in 1 .. n - m + 1 : SubSeq(r, m, n)[i] = r[m + i - 1]
    BY ONLY <1>1, <1>2, <1>3, SubSeqProperties
  <2> QED  BY <2>1
<1>4. CASE ~(m <= n)
  <2>1. n = m - 1  BY <1>4
  <2>2. SubSeq(r, m, n) = <<>>  BY <1>2, <2>1, SubSeqEmpty
  <2> QED  BY <2>1, <2>2
<1> QED  BY <1>3, <1>4

\* A ring has as many identifiers as places.
LEMMA RingCardinality ==
  ASSUME NEW P, NEW size \in Nat, NEW r \in Rings(P, size)
  PROVE  Cardinality(Ids(r)) = Len(r) /\ IsFiniteSet(Ids(r))
<1> DEFINE f == [i \in 1 .. Len(r) |-> r[i].id]
<1>1. r \in Seq(P) /\ DOMAIN r = 1 .. Len(r) /\ Len(r) \in Nat
      /\ \A i, j \in 1 .. Len(r) : r[i].id = r[j].id => i = j
  BY DEF Rings
<1>2. f \in Bijection(1 .. Len(r), Ids(r))
  BY <1>1 DEF Ids, Bijection, Injection, Surjection, IsInjective
<1>3. IsFiniteSet(1 .. Len(r)) /\ Cardinality(1 .. Len(r)) = Len(r)
  <2>1. IsFiniteSet(1 .. Len(r)) /\ Cardinality(1 .. Len(r)) = IF 1 > Len(r) THEN 0 ELSE Len(r) - 1 + 1
    <3>1. 1 \in Int /\ Len(r) \in Int  BY <1>1
    <3> QED  BY ONLY <3>1, FS_Interval
  <2> QED  BY ONLY <1>1, <2>1
<1>4. ExistsBijection(1 .. Len(r), Ids(r))  BY <1>2 DEF ExistsBijection
<1> QED  BY <1>3, <1>4, FS_Bijection

\* An insertion keeps a ring a ring; only a full ring loses a peer by it.
LEMMA RingInsertGood ==
  ASSUME NEW P, NEW size \in Nat \ {0}, NEW r \in Rings(P, size), NEW p \in P
  PROVE  LET new == RingInsert(r, p, size) IN
         /\ new \in Rings(P, size)
         /\ ToSet(new) \subseteq ToSet(r) \cup {p}
         /\ Ids(new) \subseteq Ids(r) \cup {p.id}
         /\ Len(r) < size => Ids(new) = Ids(r) \cup {p.id}
         /\ Len(new) <= Len(r) + 1
<1> DEFINE new == RingInsert(r, p, size)
<1>1. r \in Seq(P) /\ DOMAIN r = 1 .. Len(r) /\ Len(r) \in Nat /\ Len(r) <= size
      /\ \A i, j \in 1 .. Len(r) : r[i].id = r[j].id => i = j
  BY DEF Rings
<1>2. CASE p.id \in Ids(r)
  <2>1. new = r  BY <1>2 DEF RingInsert
  <2> QED  BY <1>1, <1>2, <2>1
<1>3. CASE p.id \notin Ids(r)
  <2> DEFINE n == IF Len(r) >= size THEN Len(r) - 1 ELSE Len(r)
             t == IF Len(r) >= size THEN Front(r) ELSE r
  <2>1. t \in Seq(P) /\ Len(t) = n /\ n \in Nat /\ n <= Len(r) /\ n < size
        /\ (Len(r) < size => n = Len(r))
        /\ \A i \in 1 .. n : t[i] = r[i]
    <3>1. CASE Len(r) >= size
      <4>1. Len(r) # 0 /\ 1 \in 1 .. Len(r) + 1 /\ Len(r) - 1 \in 1 - 1 .. Len(r)
            /\ (Len(r) - 1) - 1 + 1 = Len(r) - 1
        BY <1>1, <3>1
      <4>2. /\ SubSeq(r, 1, Len(r) - 1) \in Seq(P) /\ Len(SubSeq(r, 1, Len(r) - 1)) = Len(r) - 1
            /\ \A i \in 1 .. Len(r) - 1 : SubSeq(r, 1, Len(r) - 1)[i] = r[1 + i - 1]
        BY <1>1, <4>1, PartOf
      <4>3. \A i \in 1 .. Len(r) - 1 : 1 + i - 1 = i  OBVIOUS
      <4>4. t = SubSeq(r, 1, Len(r) - 1) /\ n = Len(r) - 1  BY <3>1 DEF Front
      <4>5. n \in Nat /\ n <= Len(r) /\ n < size /\ ~(Len(r) < size)  BY <1>1, <3>1, <4>1, <4>4
      <4> HIDE DEF t, n
      <4>6. \A i \in 1 .. n : t[i] = r[i]  BY <4>2, <4>3, <4>4
      <4> QED  BY <4>2, <4>4, <4>5, <4>6
    <3>2. CASE ~(Len(r) >= size)  BY <1>1, <3>2
    <3> QED  BY <3>1, <3>2
  <2>2. new = <<p>> \o t  BY <1>3 DEF RingInsert
  <2> HIDE DEF n, t, new
  <2>3. new \in Seq(P) /\ Len(new) = n + 1 /\ new[1] = p /\ DOMAIN new = 1 .. n + 1
        /\ \A i \in 2 .. n + 1 : new[i] = r[i - 1] /\ i - 1 \in 1 .. Len(r)
    BY <2>1, <2>2
  <2>4. \A i \in 1 .. Len(r) : r[i].id # p.id  BY <1>1, <1>3 DEF Ids
  <2>5. \A i, j \in 1 .. n + 1 : new[i].id = new[j].id => i = j
    <3> SUFFICES ASSUME NEW i \in 1 .. n + 1, NEW j \in 1 .. n + 1, new[i].id = new[j].id  PROVE i = j
      OBVIOUS
    <3>1. CASE i = 1 /\ j = 1  BY <3>1
    <3>2. CASE i = 1 /\ j # 1
      <4>1. j \in 2 .. n + 1  BY <3>2, <2>1
      <4> QED  BY <2>3, <2>4, <3>2, <4>1
    <3>3. CASE i # 1 /\ j = 1
      <4>1. i \in 2 .. n + 1  BY <3>3, <2>1
      <4> QED  BY <2>3, <2>4, <3>3, <4>1
    <3>4. CASE i # 1 /\ j # 1
      <4>1. i \in 2 .. n + 1 /\ j \in 2 .. n + 1  BY <3>4, <2>1
      <4>2. i - 1 = j - 1  BY <1>1, <2>3, <4>1
      <4> QED  BY <4>1, <4>2
    <3> QED  BY <3>1, <3>2, <3>3, <3>4
  <2>6. \A i \in 1 .. n + 1 : new[i] = p \/ \E j \in 1 .. Len(r) : new[i] = r[j]
    <3> SUFFICES ASSUME NEW i \in 1 .. n + 1, i # 1  PROVE \E j \in 1 .. Len(r) : new[i] = r[j]
      BY <2>3
    <3>1. i \in 2 .. n + 1  BY <2>1
    <3> QED  BY <2>3, <3>1
  <2>7. ASSUME Len(r) < size  PROVE Ids(r) \cup {p.id} \subseteq Ids(new)
    <3>1. n = Len(r)  BY <2>1, <2>7
    <3>2. \A i \in 1 .. Len(r) : i + 1 \in 1 .. n + 1 /\ new[i + 1] = r[i]
      <4> SUFFICES ASSUME NEW i \in 1 .. Len(r)  PROVE i + 1 \in 1 .. n + 1 /\ new[i + 1] = r[i]
        OBVIOUS
      <4>1. i + 1 \in 2 .. n + 1 /\ (i + 1) - 1 = i  BY <1>1, <3>1
      <4> QED  BY <2>3, <4>1
    <3>3. 1 \in 1 .. n + 1  BY <2>1
    <3> QED  BY <1>1, <2>3, <3>2, <3>3 DEF Ids
  <2>8. new \in Rings(P, size)  BY <2>1, <2>3, <2>5 DEF Rings
  <2>9. ToSet(new) \subseteq ToSet(r) \cup {p} /\ Ids(new) \subseteq Ids(r) \cup {p.id}
    <3>1. \A i \in 1 .. n + 1 : new[i] \in ToSet(r) \cup {p} /\ new[i].id \in Ids(r) \cup {p.id}
      BY <1>1, <2>6 DEF ToSet, Ids
    <3> QED  BY <2>3, <3>1 DEF ToSet, Ids
  <2>10. Len(new) <= Len(r) + 1
    <3>1. n \in Int /\ n <= Len(r) /\ Len(new) = n + 1  BY <2>1, <2>3
    <3> QED  BY <1>1, <3>1
  <2> QED  BY <2>7, <2>8, <2>9, <2>10 DEF new
<1> QED  BY <1>2, <1>3

\* A removal takes out the peer at its place, and no other.
LEMMA RingRemoveAt ==
  ASSUME NEW P, NEW size \in Nat, NEW r \in Rings(P, size), NEW k \in 1 .. Len(r)
  PROVE  LET new == RemoveAt(r, k) IN
         /\ new \in Rings(P, size) /\ Len(new) = Len(r) - 1
         /\ ToSet(new) \subseteq ToSet(r) /\ Ids(new) = Ids(r) \ {r[k].id}
<1> DEFINE new == RemoveAt(r, k)
<1>1. r \in Seq(P) /\ DOMAIN r = 1 .. Len(r) /\ Len(r) \in Nat /\ Len(r) <= size
      /\ \A i, j \in 1 .. Len(r) : r[i].id = r[j].id => i = j
  BY DEF Rings
<1>2. /\ SubSeq(r, 1, k - 1) \in Seq(P) /\ Len(SubSeq(r, 1, k - 1)) = k - 1
      /\ \A i \in 1 .. k - 1 : SubSeq(r, 1, k - 1)[i] = r[i]
      /\ SubSeq(r, k + 1, Len(r)) \in Seq(P) /\ Len(SubSeq(r, k + 1, Len(r))) = Len(r) - k
      /\ \A i \in 1 .. Len(r) - k : SubSeq(r, k + 1, Len(r))[i] = r[i + k]
  <2>1. 1 \in 1 .. Len(r) + 1 /\ k - 1 \in 1 - 1 .. Len(r) /\ k + 1 \in 1 .. Len(r) + 1
        /\ Len(r) \in (k + 1) - 1 .. Len(r) /\ k \in Int
    BY <1>1
  <2>2. Len(r) - (k + 1) + 1 = Len(r) - k /\ k - 1 - 1 + 1 = k - 1
    BY <1>1
  <2>3. \A i \in Int : (k + 1) + i - 1 = i + k /\ 1 + i - 1 = i  BY <1>1
  <2>4. /\ SubSeq(r, 1, k - 1) \in Seq(P) /\ Len(SubSeq(r, 1, k - 1)) = k - 1 - 1 + 1
        /\ \A i \in 1 .. k - 1 - 1 + 1 : SubSeq(r, 1, k - 1)[i] = r[1 + i - 1]
    BY ONLY <1>1, <2>1, PartOf
  <2>5. /\ SubSeq(r, k + 1, Len(r)) \in Seq(P)
        /\ Len(SubSeq(r, k + 1, Len(r))) = Len(r) - (k + 1) + 1
        /\ \A i \in 1 .. Len(r) - (k + 1) + 1 : SubSeq(r, k + 1, Len(r))[i] = r[(k + 1) + i - 1]
    <3> DEFINE m == k + 1
    <3>1. m \in 1 .. Len(r) + 1 /\ Len(r) \in m - 1 .. Len(r)  BY <2>1
    <3> HIDE DEF m
    <3>2. /\ SubSeq(r, m, Len(r)) \in Seq(P) /\ Len(SubSeq(r, m, Len(r))) = Len(r) - m + 1
          /\ \A i \in 1 .. Len(r) - m + 1 : SubSeq(r, m, Len(r))[i] = r[m + i - 1]
      BY ONLY <1>1, <3>1, PartOf
    <3> QED  BY <3>2 DEF m
  <2>6. \A i \in 1 .. k - 1 : SubSeq(r, 1, k - 1)[i] = r[i]
    <3> TAKE i \in 1 .. k - 1
    <3>1. i \in 1 .. k - 1 - 1 + 1 /\ 1 + i - 1 = i  BY <2>1
    <3> QED  BY <2>4, <3>1
  <2>7. \A i \in 1 .. Len(r) - k : SubSeq(r, k + 1, Len(r))[i] = r[i + k]
    <3> TAKE i \in 1 .. Len(r) - k
    <3>1. i \in 1 .. Len(r) - (k + 1) + 1 /\ (k + 1) + i - 1 = i + k  BY <1>1, <2>1
    <3> QED  BY <2>5, <3>1
  <2> QED  BY <2>2, <2>4, <2>5, <2>6, <2>7
<1>3. new \in Seq(P) /\ Len(new) = Len(r) - 1 /\ DOMAIN new = 1 .. Len(r) - 1
      /\ \A i \in 1 .. Len(r) - 1 : new[i] = r[IF i < k THEN i ELSE i + 1]
  <2> DEFINE s == SubSeq(r, 1, k - 1)
             t == SubSeq(r, k + 1, Len(r))
  <2>1. new = s \o t  BY DEF RemoveAt
  <2>2. s \in Seq(P) /\ t \in Seq(P) /\ Len(s) = k - 1 /\ Len(t) = Len(r) - k  BY <1>2
  <2>3. \A i \in 1 .. k - 1 : s[i] = r[i]  BY <1>2
  <2>4. \A i \in 1 .. Len(r) - k : t[i] = r[i + k]  BY <1>2
  <2> HIDE DEF s, t, new
  <2>5. new \in Seq(P) /\ Len(new) = Len(s) + Len(t)
        /\ \A i \in 1 .. Len(s) + Len(t) : new[i] = IF i <= Len(s) THEN s[i] ELSE t[i - Len(s)]
    BY <2>1, <2>2, ConcatProperties
  <2>6. new \in Seq(P) /\ Len(new) = Len(r) - 1 /\ DOMAIN new = 1 .. Len(r) - 1
    BY <1>1, <2>2, <2>5
  <2>7. ASSUME NEW i \in 1 .. Len(r) - 1  PROVE new[i] = r[IF i < k THEN i ELSE i + 1]
    <3>1. i \in 1 .. Len(s) + Len(t)  BY <1>1, <2>2
    <3>2. CASE i < k
      <4>1. i \in 1 .. k - 1 /\ i <= Len(s)  BY <1>1, <2>2, <3>2
      <4> QED  BY <2>3, <2>5, <3>1, <3>2, <4>1
    <3>3. CASE ~(i < k)
      <4>1. ~(i <= Len(s)) /\ i - Len(s) \in 1 .. Len(r) - k /\ (i - Len(s)) + k = i + 1
        BY <1>1, <2>2, <3>3
      <4> QED  BY <2>4, <2>5, <3>1, <3>3, <4>1
    <3> QED  BY <3>2, <3>3
  <2> QED  BY <2>6, <2>7
<1> HIDE DEF new
<1>4. \A i, j \in 1 .. Len(r) - 1 : new[i].id = new[j].id => i = j
  BY <1>1, <1>3
<1>5. new \in Rings(P, size)  BY <1>1, <1>3, <1>4 DEF Rings
<1>6. ToSet(new) \subseteq ToSet(r)
  <2>1. \A i \in 1 .. Len(r) - 1 : (IF i < k THEN i ELSE i + 1) \in 1 .. Len(r)  BY <1>1
  <2>2. \A i \in 1 .. Len(r) - 1 : new[i] \in ToSet(r)  BY <1>1, <1>3, <2>1 DEF ToSet
  <2> QED  BY <1>3, <2>2 DEF ToSet
<1>7. Ids(new) \subseteq Ids(r) \ {r[k].id}
  <2> SUFFICES ASSUME NEW i \in 1 .. Len(r) - 1
               PROVE  new[i].id \in Ids(r) /\ new[i].id # r[k].id
    BY <1>3 DEF Ids
  <2> DEFINE j == IF i < k THEN i ELSE i + 1
  <2>1. j \in 1 .. Len(r) /\ j # k  BY <1>1
  <2>2. new[i] = r[j]  BY <1>3
  <2> HIDE DEF j
  <2> QED  BY <1>1, <2>1, <2>2 DEF Ids
<1>8. Ids(r) \ {r[k].id} \subseteq Ids(new)
  <2> SUFFICES ASSUME NEW j \in 1 .. Len(r), r[j].id # r[k].id  PROVE r[j].id \in Ids(new)
    BY <1>1 DEF Ids
  <2> DEFINE i == IF j < k THEN j ELSE j - 1
  <2>1. j # k  OBVIOUS
  <2>2. i \in 1 .. Len(r) - 1 /\ j = IF i < k THEN i ELSE i + 1  BY <1>1, <2>1
  <2> HIDE DEF i
  <2>3. new[i] = r[j]  BY <1>3, <2>2
  <2> QED  BY <1>3, <2>2, <2>3 DEF Ids
<1> QED  BY <1>3, <1>5, <1>6, <1>7, <1>8 DEF new

\* Where find_index finds a peer.
LEMMA RingIndex ==
  ASSUME NEW P, NEW size \in Nat, NEW r \in Rings(P, size), NEW id \in Ids(r)
  PROVE  find_index(r, id) \in 1 .. Len(r) /\ r[find_index(r, id)].id = id
<1>1. DOMAIN r = 1 .. Len(r)  BY DEF Rings
<1>2. \E i \in DOMAIN r : r[i].id = id  BY DEF Ids
<1> QED  BY <1>1, <1>2 DEF find_index

\* A removal by identifier leaves every other peer.
LEMMA RingRemoveGood ==
  ASSUME NEW P, NEW size \in Nat, NEW r \in Rings(P, size), NEW id
  PROVE  LET new == RingRemove(r, id) IN
         /\ new \in Rings(P, size) /\ ToSet(new) \subseteq ToSet(r)
         /\ Ids(new) = Ids(r) \ {id}
         /\ id \in Ids(r) => Len(new) = Len(r) - 1
<1>1. CASE id \in Ids(r)
  <2> DEFINE k == find_index(r, id)
  <2>1. k \in 1 .. Len(r) /\ r[k].id = id  BY <1>1, RingIndex
  <2>2. RingRemove(r, id) = RemoveAt(r, k)  BY <1>1 DEF RingRemove
  <2> HIDE DEF k
  <2>3. /\ RemoveAt(r, k) \in Rings(P, size) /\ Len(RemoveAt(r, k)) = Len(r) - 1
        /\ ToSet(RemoveAt(r, k)) \subseteq ToSet(r) /\ Ids(RemoveAt(r, k)) = Ids(r) \ {r[k].id}
    BY <2>1, RingRemoveAt
  <2> QED  BY <2>1, <2>2, <2>3
<1>2. CASE id \notin Ids(r)
  <2>1. RingRemove(r, id) = r  BY <1>2 DEF RingRemove
  <2> QED  BY <1>2, <2>1
<1> QED  BY <1>1, <1>2

\* A rotation brings a peer to the front and loses none.
LEMMA RingRotated ==
  ASSUME NEW P, NEW size \in Nat, NEW r \in Rings(P, size), NEW id \in Ids(r)
  PROVE  LET new == RingSetNewest(r, id) IN
         /\ new \in Rings(P, size) /\ Len(new) = Len(r) /\ 1 \in 1 .. Len(new)
         /\ ToSet(new) = ToSet(r) /\ Ids(new) = Ids(r) /\ new[1].id = id
<1> DEFINE new == RingSetNewest(r, id)
           k == find_index(r, id)
<1>0. k \in 1 .. Len(r) /\ r[k].id = id  BY RingIndex
<1>1. r \in Seq(P) /\ DOMAIN r = 1 .. Len(r) /\ Len(r) \in Nat /\ Len(r) <= size
      /\ \A i, j \in 1 .. Len(r) : r[i].id = r[j].id => i = j
  BY DEF Rings
<1>a. new = SubSeq(r, k, Len(r)) \o SubSeq(r, 1, k - 1)  BY DEF RingSetNewest
<1> HIDE DEF new, k
<1>2. /\ SubSeq(r, 1, k - 1) \in Seq(P) /\ Len(SubSeq(r, 1, k - 1)) = k - 1
      /\ \A i \in 1 .. k - 1 : SubSeq(r, 1, k - 1)[i] = r[i]
      /\ SubSeq(r, k, Len(r)) \in Seq(P) /\ Len(SubSeq(r, k, Len(r))) = Len(r) - k + 1
      /\ \A i \in 1 .. Len(r) - k + 1 : SubSeq(r, k, Len(r))[i] = r[i + k - 1]
  <2>1. 1 \in 1 .. Len(r) + 1 /\ k - 1 \in 1 - 1 .. Len(r) /\ k \in 1 .. Len(r) + 1
        /\ Len(r) \in k - 1 .. Len(r)
    BY <1>0, <1>1
  <2>2. k - 1 - 1 + 1 = k - 1 /\ (\A i \in Int : k + i - 1 = i + k - 1 /\ 1 + i - 1 = i)
    BY <1>0, <1>1
  <2> QED  BY <1>1, <2>1, <2>2, PartOf
<1>3. new \in Seq(P) /\ Len(new) = Len(r) /\ DOMAIN new = 1 .. Len(r)
      /\ \A i \in 1 .. Len(r) :
           new[i] = r[IF i <= Len(r) - k + 1 THEN i + k - 1 ELSE i - (Len(r) - k + 1)]
  <2> DEFINE s == SubSeq(r, k, Len(r))
             t == SubSeq(r, 1, k - 1)
             l == Len(r) - k + 1
  <2>1. new = s \o t  BY <1>a
  <2>2. s \in Seq(P) /\ t \in Seq(P) /\ Len(t) = k - 1 /\ Len(s) = l  BY <1>2
  <2>3. \A i \in 1 .. k - 1 : t[i] = r[i]  BY <1>2
  <2>4. \A i \in 1 .. l : s[i] = r[i + k - 1]  BY <1>2
  <2>5. l \in Nat /\ l + (k - 1) = Len(r)  BY <1>0, <1>1
  <2> HIDE DEF s, t, l
  <2>6. new \in Seq(P) /\ Len(new) = Len(s) + Len(t)
        /\ \A i \in 1 .. Len(s) + Len(t) : new[i] = IF i <= Len(s) THEN s[i] ELSE t[i - Len(s)]
    BY <2>1, <2>2, ConcatProperties
  <2>7. new \in Seq(P) /\ Len(new) = Len(r) /\ DOMAIN new = 1 .. Len(r)
    BY <1>1, <2>2, <2>5, <2>6
  <2>8. ASSUME NEW i \in 1 .. Len(r)  PROVE new[i] = r[IF i <= l THEN i + k - 1 ELSE i - l]
    <3>1. i \in 1 .. Len(s) + Len(t)  BY <1>1, <2>2, <2>5
    <3>2. CASE i <= l
      <4>1. i \in 1 .. l  BY <3>2
      <4> QED  BY <2>2, <2>4, <2>6, <3>1, <3>2, <4>1
    <3>3. CASE ~(i <= l)
      <4>1. i - l \in 1 .. k - 1  BY <1>0, <1>1, <2>5, <3>3
      <4> QED  BY <2>2, <2>3, <2>6, <3>1, <3>3, <4>1
    <3> QED  BY <3>2, <3>3
  <2> QED  BY <2>7, <2>8 DEF l
<1>4. \A i, j \in 1 .. Len(r) : new[i].id = new[j].id => i = j
  <2> DEFINE l == Len(r) - k + 1
             At(i) == IF i <= l THEN i + k - 1 ELSE i - l
  <2>1. l \in Int /\ k \in Int /\ l + (k - 1) = Len(r)  BY <1>0, <1>1
  <2>2. \A i \in 1 .. Len(r) : At(i) \in 1 .. Len(r) /\ new[i] = r[At(i)]  BY <1>0, <1>1, <1>3
  <2>3. \A i, j \in 1 .. Len(r) : At(i) = At(j) => i = j  BY <1>0, <1>1, <2>1
  <2> HIDE DEF At
  <2> QED  BY <1>1, <2>2, <2>3
<1>5. new \in Rings(P, size)  BY <1>1, <1>3, <1>4 DEF Rings
<1>6. \A i \in 1 .. Len(r) : \E j \in 1 .. Len(r) : new[i] = r[j]
  <2> TAKE i \in 1 .. Len(r)
  <2> DEFINE j == IF i <= Len(r) - k + 1 THEN i + k - 1 ELSE i - (Len(r) - k + 1)
  <2>1. j \in 1 .. Len(r)  BY <1>0, <1>1
  <2>2. new[i] = r[j]  BY <1>3
  <2> QED  BY <2>1, <2>2
<1>7. \A j \in 1 .. Len(r) : \E i \in 1 .. Len(r) : new[i] = r[j]
  <2> TAKE j \in 1 .. Len(r)
  <2> DEFINE i == IF j >= k THEN j - k + 1 ELSE j + (Len(r) - k + 1)
  <2>1. i \in 1 .. Len(r) /\ j = IF i <= Len(r) - k + 1 THEN i + k - 1 ELSE i - (Len(r) - k + 1)
    BY <1>0, <1>1
  <2> HIDE DEF i
  <2>2. new[i] = r[j]  BY <1>3, <2>1
  <2> QED  BY <2>1, <2>2
<1>8. ToSet(new) = ToSet(r) /\ Ids(new) = Ids(r)
  <2>0. \A i \in 1 .. Len(r) : /\ r[i] \in ToSet(r) /\ r[i].id \in Ids(r)
                              /\ new[i] \in ToSet(new) /\ new[i].id \in Ids(new)
    BY <1>1, <1>3 DEF ToSet, Ids
  <2>1. \A i \in 1 .. Len(r) : /\ new[i] \in ToSet(r) /\ new[i].id \in Ids(r)
                              /\ r[i] \in ToSet(new) /\ r[i].id \in Ids(new)
    BY ONLY <2>0, <1>6, <1>7
  <2>2. ToSet(new) = {new[i] : i \in 1 .. Len(r)} /\ ToSet(r) = {r[i] : i \in 1 .. Len(r)}
    BY <1>1, <1>3 DEF ToSet
  <2>3. Ids(new) = {new[i].id : i \in 1 .. Len(r)} /\ Ids(r) = {r[i].id : i \in 1 .. Len(r)}
    BY <1>1, <1>3 DEF Ids
  <2>4. ToSet(new) = ToSet(r)  BY ONLY <2>1, <2>2
  <2>5. Ids(new) \subseteq Ids(r) /\ Ids(r) \subseteq Ids(new)
    <3>1. \A i \in 1 .. Len(r) : new[i].id \in Ids(r) /\ r[i].id \in Ids(new)  BY ONLY <2>1
    <3> QED  BY ONLY <2>3, <3>1
  <2> QED  BY <2>4, <2>5
<1>9. 1 \in 1 .. Len(new) /\ new[1].id = id  BY <1>0, <1>1, <1>3
<1> QED  BY <1>3, <1>5, <1>8, <1>9 DEF new

\* A peer changes without its identifier.
LEMMA RingUpdated ==
  ASSUME NEW P, NEW size \in Nat, NEW r \in Rings(P, size), NEW k \in 1 .. Len(r),
         NEW x \in P, x.id = r[k].id
  PROVE  LET new == [r EXCEPT ![k] = x] IN
         new \in Rings(P, size) /\ Len(new) = Len(r) /\ Ids(new) = Ids(r)
<1> DEFINE new == [r EXCEPT ![k] = x]
<1>1. r \in Seq(P) /\ DOMAIN r = 1 .. Len(r) /\ Len(r) \in Nat /\ Len(r) <= size
      /\ \A i, j \in 1 .. Len(r) : r[i].id = r[j].id => i = j
  BY DEF Rings
<1>2. new \in Seq(P) /\ Len(new) = Len(r) /\ DOMAIN new = 1 .. Len(r)  BY <1>1
<1>3. \A i \in 1 .. Len(r) : new[i].id = r[i].id  BY <1>1
<1> HIDE DEF new
<1> QED  BY <1>1, <1>2, <1>3 DEF Rings, Ids, new

\* What a ring holds.
LEMMA RingPeers ==
  ASSUME NEW P, NEW size, NEW r \in Rings(P, size)
  PROVE  ToSet(r) \subseteq P /\ \A x \in ToSet(r) : x.id \in Ids(r)
<1>1. r \in Seq(P)  BY DEF Rings
<1>2. \A i \in DOMAIN r : r[i] \in P /\ r[i].id \in Ids(r)  BY <1>1 DEF Ids
<1> QED  BY <1>2 DEF ToSet

\* A ring of some peers is a ring of more.
LEMMA RingWidened ==
  ASSUME NEW P, NEW Q, P \subseteq Q, NEW size, NEW r \in Rings(P, size)  PROVE r \in Rings(Q, size)
<1>1. r \in Seq(P) /\ Len(r) \in Nat /\ DOMAIN r = 1 .. Len(r)  BY DEF Rings
<1>2. \A i \in 1 .. Len(r) : r[i] \in Q  BY <1>1
<1>3. r \in Seq(Q)  BY <1>1, <1>2
<1> QED  BY <1>3 DEF Rings

-----------------------------------------------------------------------------
(***************************************************************************)
(* The lists of the manager.                                               *)
(***************************************************************************)
ActivePeers == [id : Peers, verified_count : Nat, last_new_peers : Nat]
ReplacementPeers == [id : Peers]

ActiveRings == Rings(ActivePeers, DEFAULT_MAX_MANAGED)
ReplacementRings == Rings(ReplacementPeers, DEFAULT_MAX_REPLACEMENTS)

PeerLists == [active : ActiveRings, replacements : ReplacementRings]

\* The lists have room for a peer.
LEMMA Sizes == DEFAULT_MAX_MANAGED \in Nat \ {0} /\ DEFAULT_MAX_REPLACEMENTS \in Nat \ {0}
BY PeerDiscoveryAssumption

\* A new peer becomes active, or a replacement if there are enough active ones;
\* no active peer is lost by it.
LEMMA AddPeerGood ==
  ASSUME NEW l \in PeerLists, NEW id \in Peers
  PROVE  LET new == add_peer(l, id) IN
         /\ new \in PeerLists
         /\ Ids(l.active) \subseteq Ids(new.active)
         /\ ToSet(new.active) \subseteq ToSet(l.active) \cup {ActivePeer(id)}
         /\ new # l => id \notin Ids(l.active)
         /\ Len(l.active) < DEFAULT_MAX_MANAGED /\ Ids(l.replacements) = {} =>
              /\ new.replacements = l.replacements /\ Len(new.active) <= Len(l.active) + 1
              /\ Ids(new.active) = Ids(l.active) \cup {id}
<1> DEFINE new == add_peer(l, id)
           a == l.active
           b == l.replacements
<1>1. a \in ActiveRings /\ b \in ReplacementRings /\ l = [active |-> a, replacements |-> b]
      /\ Len(a) \in Nat
  BY DEF PeerLists, ActiveRings, Rings
<1>2. CASE is_known(id, l)
  <2>1. new = l  BY <1>2 DEF add_peer
  <2>2. id \in Ids(a) \cup Ids(b)  BY <1>2 DEF is_known
  <2> QED  BY <1>1, <2>1, <2>2
<1>3. CASE ~is_known(id, l)
  <2>1. id \notin Ids(a) /\ id \notin Ids(b)  BY <1>3 DEF is_known
  <2>2. CASE Len(a) < DEFAULT_MAX_MANAGED
    <3> DEFINE c == RingInsert(a, ActivePeer(id), DEFAULT_MAX_MANAGED)
    <3>1. new = [l EXCEPT !.active = c]  BY <1>3, <2>2 DEF add_peer
    <3>2. new = [active |-> c, replacements |-> b]  BY <1>1, <3>1
    <3>3. ActivePeer(id) \in ActivePeers /\ ActivePeer(id).id = id  BY DEF ActivePeer, ActivePeers
    <3>4. /\ c \in ActiveRings /\ ToSet(c) \subseteq ToSet(a) \cup {ActivePeer(id)}
          /\ Ids(c) = Ids(a) \cup {id} /\ Len(c) <= Len(a) + 1
      BY <1>1, <2>2, <3>3, Sizes, RingInsertGood DEF ActiveRings
    <3> HIDE DEF c, new, a, b
    <3>5. new \in PeerLists  BY <1>1, <2>1, <3>2, <3>4 DEF PeerLists
    <3>6. new.active = c /\ new.replacements = b  BY <3>2
    <3> QED  BY <1>1, <2>1, <3>4, <3>5, <3>6 DEF new, a, b
  <2>3. CASE ~(Len(a) < DEFAULT_MAX_MANAGED)
    <3> DEFINE c == RingInsert(b, ReplacementPeer(id), DEFAULT_MAX_REPLACEMENTS)
    <3>1. new = [l EXCEPT !.replacements = c]  BY <1>3, <2>3 DEF add_peer
    <3>2. new = [active |-> a, replacements |-> c]  BY <1>1, <3>1
    <3>3. ReplacementPeer(id) \in ReplacementPeers /\ ReplacementPeer(id).id = id
      BY DEF ReplacementPeer, ReplacementPeers
    <3>4. c \in ReplacementRings /\ Ids(c) \subseteq Ids(b) \cup {id}
      BY <1>1, <3>3, Sizes, RingInsertGood DEF ReplacementRings
    <3> HIDE DEF c, new, a, b
    <3>5. new \in PeerLists  BY <1>1, <2>1, <3>2, <3>4 DEF PeerLists
    <3>6. new.active = a  BY <3>2
    <3> QED  BY <1>1, <2>1, <2>3, <3>5, <3>6 DEF new, a, b
  <2> QED  BY <2>2, <2>3
<1> QED  BY <1>2, <1>3

-----------------------------------------------------------------------------
(***************************************************************************)
(* Folds over peers: what a start brings into the lists.                   *)
(***************************************************************************)
\* A fold of a sequence over D stays in X when its steps do.
LEMMA FoldWithin ==
  ASSUME NEW X, NEW D, NEW step, NEW base \in X, NEW n \in Nat, NEW s \in [1 .. n -> D],
         \A x \in X, d \in D : step[<<x, d>>] \in X
  PROVE  \E g : Folds(step, base, s, 1 .. n, g) /\ \A T \in SUBSET (1 .. n) : g[T] \in X
<1> DEFINE S == 1 .. n
<1>1. IsFiniteSet(S) /\ S \subseteq Int /\ {} \in SUBSET S  BY FS_Interval
<1>2. \A i \in S : s[i] \in D  OBVIOUS
<1> HIDE DEF S
<1>3. PICK g : Folds(step, base, s, S, g)  BY <1>1, FoldExists
<1>4. \A T \in SUBSET S : T # {} => Max(T) \in S
  BY <1>1, FS_Subset, MaxIsElement
<1>5. g[{}] \in X  BY <1>1, <1>3 DEF Folds
<1>6. ASSUME NEW T \in SUBSET S, T # {}, g[T \ {Max(T)}] \in X  PROVE g[T] \in X
  <2>1. g[T] = step[<<g[T \ {Max(T)}], s[Max(T)]>>]  BY <1>3, <1>6 DEF Folds
  <2>2. s[Max(T)] \in D  BY <1>2, <1>4, <1>6
  <2> QED  BY <1>6, <2>1, <2>2
<1>7. \A T \in SUBSET S : g[T] \in X  BY ONLY <1>1, <1>5, <1>6, FoldStays
<1> QED  BY <1>3, <1>7 DEF S

\* g inserts the peers of s into a ring.
FillsRing(s, size, S, g) ==
  g = [T \in SUBSET S |-> IF T = {} THEN <<>> ELSE RingInsert(g[T \ {Max(T)}], s[Max(T)], size)]

\* What RingOf computes, as a function on sets of indexes.
LEMMA RingOfIsFold ==
  ASSUME NEW s, NEW size
  PROVE  RingOf(s, size) = (CHOOSE g : FillsRing(s, size, DOMAIN s, g))[DOMAIN s]
BY DEF RingOf, FoldLeft, MapThenFoldSet, FillsRing

\* The ring that a list of peers fills.
LEMMA RingOfGood ==
  ASSUME NEW P, NEW size \in Nat \ {0}, NEW n \in Nat, NEW s \in [1 .. n -> P]
  PROVE  RingOf(s, size) \in Rings(P, size)
<1> DEFINE S == 1 .. n
           X == Rings(P, size)
           step == [q \in X \X P |-> RingInsert(q[1], q[2], size)]
<1>1. \A x \in X, p \in P : step[<<x, p>>] = RingInsert(x, p, size) /\ RingInsert(x, p, size) \in X
  BY RingInsertGood
<1>2. <<>> \in X  BY DEF Rings
<1>3. IsFiniteSet(S) /\ S \subseteq Int /\ {} \in SUBSET S /\ S \in SUBSET S  BY FS_Interval
<1>4. DOMAIN s = S /\ \A i \in S : s[i] \in P  OBVIOUS
<1> HIDE DEF X, step
<1>5. PICK g : Folds(step, <<>>, s, S, g) /\ \A T \in SUBSET S : g[T] \in X
  <2>1. \A x \in X, p \in P : step[<<x, p>>] \in X  BY <1>1
  <2> DEFINE base == <<>>
  <2>2. base \in X  BY <1>2
  <2> HIDE DEF base
  <2>3. \E g : Folds(step, base, s, 1 .. n, g) /\ \A T \in SUBSET (1 .. n) : g[T] \in X
    BY ONLY <2>1, <2>2, n \in Nat, s \in [1 .. n -> P], FoldWithin
  <2> QED  BY <2>3 DEF base
<1> HIDE DEF S
<1>6. \A T \in SUBSET S : T # {} => Max(T) \in S  BY <1>3, FS_Subset, MaxIsElement
<1>7. FillsRing(s, size, S, g)
  <2>1. ASSUME NEW T \in SUBSET S
        PROVE  (IF T = {} THEN <<>> ELSE step[<<g[T \ {Max(T)}], s[Max(T)]>>])
                 = (IF T = {} THEN <<>> ELSE RingInsert(g[T \ {Max(T)}], s[Max(T)], size))
    <3>1. CASE T = {}  BY <3>1
    <3>2. CASE T # {}
      <4>1. g[T \ {Max(T)}] \in X /\ s[Max(T)] \in P  BY <1>4, <1>5, <1>6, <3>2
      <4> QED  BY <1>1, <3>2, <4>1
    <3> QED  BY <3>1, <3>2
  <2> QED  BY <1>5, <2>1 DEF Folds, FillsRing
<1> DEFINE h == CHOOSE k : FillsRing(s, size, S, k)
<1>8. FillsRing(s, size, S, h)  BY <1>7
<1>9. RingOf(s, size) = h[S]  BY <1>4, RingOfIsFold
<1> HIDE DEF h
<1>10. h[{}] \in X  BY <1>2, <1>3, <1>8 DEF FillsRing
<1>11. ASSUME NEW T \in SUBSET S, T # {}, h[T \ {Max(T)}] \in X  PROVE h[T] \in X
  <2>1. h[T] = RingInsert(h[T \ {Max(T)}], s[Max(T)], size)  BY <1>8, <1>11 DEF FillsRing
  <2>2. s[Max(T)] \in P  BY <1>4, <1>6, <1>11
  <2> QED  BY <1>1, <1>11, <2>1, <2>2
<1>12. \A T \in SUBSET S : h[T] \in X  BY ONLY <1>3, <1>10, <1>11, FoldStays
<1> QED  BY <1>3, <1>9, <1>12 DEF X

\* g adds the peers of s to the lists.
FillsLists(s, base, S, g) ==
  g = [T \in SUBSET S |-> IF T = {} THEN base ELSE add_peer(g[T \ {Max(T)}], s[Max(T)])]

\* What add_entry_peers computes, as a function on sets of indexes.
LEMMA EntryPeersFold ==
  ASSUME NEW s, s = EntryNodes
  PROVE  add_entry_peers = (CHOOSE g : FillsLists(s, [active |-> <<>>, replacements |-> <<>>],
                                                  DOMAIN s, g))[DOMAIN s]
BY DEF add_entry_peers, FoldLeft, MapThenFoldSet, FillsLists

\* All entry nodes become active peers: there are no more of them than the list
\* holds, so none of them makes another one leave.
LEMMA EntryPeersGood ==
  /\ add_entry_peers \in PeerLists /\ Ids(add_entry_peers.active) = ToSet(EntryNodes)
  /\ \A i \in DOMAIN add_entry_peers.active : add_entry_peers.active[i].verified_count = 0
<1>0. PICK s \in Seq(Peers) : s = EntryNodes  BY PeerDiscoveryAssumption
<1> DEFINE S == 1 .. Len(s)
           base == [active |-> <<>>, replacements |-> <<>>]
           X == PeerLists
           step == [q \in X \X Peers |-> add_peer(q[1], q[2])]
<1>1. \A x \in X, p \in Peers : step[<<x, p>>] = add_peer(x, p) /\ add_peer(x, p) \in X
  BY AddPeerGood
<1>2. base \in X /\ base.active = <<>> /\ base.replacements = <<>>
  BY Sizes DEF PeerLists, ActiveRings, ReplacementRings, Rings, Ids
<1>3. IsFiniteSet(S) /\ S \subseteq Int /\ {} \in SUBSET S /\ S \in SUBSET S
      /\ Cardinality(S) = Len(s) /\ Len(s) \in Nat /\ Len(s) <= DEFAULT_MAX_MANAGED
  <2>1. Len(s) \in Nat /\ Len(s) <= DEFAULT_MAX_MANAGED  BY <1>0, PeerDiscoveryAssumption
  <2>2. 1 \in Int /\ Len(s) \in Int  BY <2>1
  <2>3. IsFiniteSet(1 .. Len(s)) /\ Cardinality(1 .. Len(s)) = IF 1 > Len(s) THEN 0 ELSE Len(s) - 1 + 1
    BY ONLY <2>2, FS_Interval
  <2> QED  BY <2>1, <2>3
<1>4. DOMAIN s = S /\ \A i \in S : s[i] \in Peers  OBVIOUS
<1> HIDE DEF X, step, base
<1>5. PICK g : Folds(step, base, s, S, g) /\ \A T \in SUBSET S : g[T] \in X
  <2>1. \A x \in X, p \in Peers : step[<<x, p>>] \in X  BY <1>1
  <2>2. base \in X /\ Len(s) \in Nat /\ s \in [1 .. Len(s) -> Peers]  BY <1>2
  <2>3. \E g : Folds(step, base, s, 1 .. Len(s), g) /\ \A T \in SUBSET (1 .. Len(s)) : g[T] \in X
    BY ONLY <2>1, <2>2, FoldWithin
  <2> QED  BY <2>3
<1> HIDE DEF S
<1>6. \A T \in SUBSET S : T # {} => Max(T) \in T /\ Max(T) \in S  BY <1>3, FS_Subset, MaxIsElement
<1>7. FillsLists(s, base, S, g)
  <2>1. ASSUME NEW T \in SUBSET S
        PROVE  (IF T = {} THEN base ELSE step[<<g[T \ {Max(T)}], s[Max(T)]>>])
                 = (IF T = {} THEN base ELSE add_peer(g[T \ {Max(T)}], s[Max(T)]))
    <3>1. CASE T = {}  BY <3>1
    <3>2. CASE T # {}
      <4>1. g[T \ {Max(T)}] \in X /\ s[Max(T)] \in Peers  BY <1>4, <1>5, <1>6, <3>2
      <4> QED  BY <1>1, <3>2, <4>1
    <3> QED  BY <3>1, <3>2
  <2> QED  BY <1>5, <2>1 DEF Folds, FillsLists
<1> DEFINE h == CHOOSE k : FillsLists(s, base, S, k)
           Filled(T, l) == /\ l \in X /\ Ids(l.replacements) = {} /\ Ids(l.active) = {s[i] : i \in T}
                           /\ Len(l.active) <= Cardinality(T)
                           /\ \A x \in ToSet(l.active) : x.verified_count = 0
           d == [T \in SUBSET S |-> IF Filled(T, h[T]) THEN 0 ELSE 1]
           Z == {0}
<1>8. FillsLists(s, base, S, h)  BY <1>7
<1>9. add_entry_peers = h[S]  BY <1>0, <1>4, EntryPeersFold DEF base
<1> HIDE DEF h
<1>10. d[{}] \in Z
  <2>1. h[{}] = base  BY <1>3, <1>8 DEF FillsLists
  <2>2. Cardinality({}) = 0 /\ Len(<<>>) = 0 /\ Ids(<<>>) = {} /\ ToSet(<<>>) = {}
    BY FS_EmptySet DEF Ids, ToSet
  <2>3. Filled({}, h[{}])  BY <1>2, <2>1, <2>2
  <2> QED  BY <1>3, <2>3
<1>11. ASSUME NEW T \in SUBSET S, T # {}, d[T \ {Max(T)}] \in Z  PROVE d[T] \in Z
  <2> DEFINE U == T \ {Max(T)}
             l == h[U]
             p == s[Max(T)]
             new == add_peer(l, p)
  <2>1. U \in SUBSET S /\ Filled(U, l)
    <3> HIDE DEF Filled
    <3>1. U \in SUBSET S /\ d[U] = 0  BY <1>11
    <3> QED  BY <3>1
  <2>2. h[T] = new  BY <1>8, <1>11 DEF FillsLists
  <2>3. p \in Peers /\ Max(T) \in T /\ T = U \cup {Max(T)}  BY <1>4, <1>6, <1>11
  <2>4. IsFiniteSet(T) /\ IsFiniteSet(U) /\ Cardinality(T) = Cardinality(U) + 1
        /\ Cardinality(T) <= Cardinality(S) /\ Cardinality(U) \in Nat
    <3>1. IsFiniteSet(T) /\ Cardinality(T) <= Cardinality(S)  BY <1>3, <1>11, FS_Subset
    <3>2. IsFiniteSet(U) /\ Cardinality(U) = Cardinality(T) - 1  BY <2>3, <3>1, FS_RemoveElement
    <3>3. Cardinality(T) \in Nat /\ Cardinality(U) \in Nat  BY <3>1, <3>2, FS_CardinalityType
    <3> QED  BY <3>1, <3>2, <3>3
  <2> HIDE DEF U, l, p, new
  <2>5. l \in PeerLists /\ Ids(l.replacements) = {} /\ Ids(l.active) = {s[i] : i \in U}
        /\ Len(l.active) <= Cardinality(U) /\ \A x \in ToSet(l.active) : x.verified_count = 0
    BY <2>1 DEF X
  <2>6. Len(l.active) \in Nat  BY <2>5 DEF PeerLists, ActiveRings, Rings
  <2>7. Len(l.active) < DEFAULT_MAX_MANAGED  BY <1>3, <2>4, <2>5, <2>6, Sizes
  <2>8. /\ new \in PeerLists /\ ToSet(new.active) \subseteq ToSet(l.active) \cup {ActivePeer(p)}
        /\ new.replacements = l.replacements /\ Len(new.active) <= Len(l.active) + 1
        /\ Ids(new.active) = Ids(l.active) \cup {p}
    BY <2>3, <2>5, <2>7, AddPeerGood DEF new
  <2>9. Len(new.active) <= Cardinality(T)
    <3>1. Len(new.active) \in Nat  BY <2>8 DEF PeerLists, ActiveRings, Rings
    <3> QED  BY <2>4, <2>5, <2>6, <2>8, <3>1
  <2>10. Ids(new.active) = {s[i] : i \in T}
    <3>1. {s[i] : i \in T} = {s[i] : i \in U} \cup {s[Max(T)]}  BY <2>3
    <3> QED  BY <2>5, <2>8, <3>1 DEF p
  <2>11. ActivePeer(p).verified_count = 0  BY DEF ActivePeer
  <2>12. Filled(T, h[T])  BY <2>2, <2>5, <2>8, <2>9, <2>10, <2>11 DEF X
  <2> HIDE DEF Filled
  <2> QED  BY <2>12
<1>12. d[S] \in Z
  <2> HIDE DEF d, Z
  <2>1. \A T \in SUBSET S : d[T] \in Z  BY ONLY <1>3, <1>10, <1>11, FoldStays
  <2> QED  BY <1>3, <2>1
<1>13. Filled(S, h[S])
  <2> HIDE DEF Filled
  <2> QED  BY <1>3, <1>12
<1>14. {s[i] : i \in S} = ToSet(EntryNodes)  BY <1>0, <1>4 DEF ToSet
<1>15. \A i \in DOMAIN h[S].active : h[S].active[i] \in ToSet(h[S].active)  BY DEF ToSet
<1> QED  BY <1>9, <1>13, <1>14, <1>15 DEF X

-----------------------------------------------------------------------------
(***************************************************************************)
(* Requests and the tasks that wait for them.                              *)
(***************************************************************************)
Kinds == {"verification", "discovery"}
Requests == [hash : Nat, issue_time : Nat, tx : Tasks \cup {NoTask}]
OpenRequests == UNION {[K -> Requests] : K \in SUBSET (Peers \X Kinds)}

TaskRecords(kinds) == [kind : kinds, peer : Peers, state : TaskStates]
TaskTables(kinds) == [Tasks -> {Idle} \cup TaskRecords(kinds)]

\* Whether a peer may still answer a verification request.
Pending(requests, id) == IF <<id, "verification">> \in DOMAIN requests THEN 1 ELSE 0

\* What makes a set of open requests a good one.
LEMMA OpenParts ==
  ASSUME NEW o
  PROVE  o \in OpenRequests <=> DOMAIN o \subseteq Peers \X Kinds /\ o \in [DOMAIN o -> Requests]
BY DEF OpenRequests

\* Requests that are kept are good ones.
LEMMA OpenOnly ==
  ASSUME NEW o \in OpenRequests, NEW keys
  PROVE  /\ Only(o, keys) \in OpenRequests
         /\ \A id : Pending(Only(o, keys), id) <= Pending(o, id)
<1> DEFINE new == Only(o, keys)
<1>1. DOMAIN o \subseteq Peers \X Kinds /\ o \in [DOMAIN o -> Requests]  BY OpenParts
<1>2. DOMAIN new = DOMAIN o \cap keys /\ new \in [DOMAIN o \cap keys -> Requests]  BY <1>1 DEF Only
<1> HIDE DEF new
<1>3. new \in OpenRequests  BY <1>1, <1>2, OpenParts
<1>4. \A id : Pending(new, id) <= Pending(o, id)  BY <1>2 DEF Pending
<1> QED  BY <1>3, <1>4 DEF new

\* A request that is removed is no longer pending, and no other becomes so.
LEMMA OpenRemoved ==
  ASSUME NEW o \in OpenRequests, NEW kind, NEW p
  PROVE  /\ Removed(o, kind, p) \in OpenRequests
         /\ \A id : Pending(Removed(o, kind, p), id) <= Pending(o, id)
         /\ kind = "verification" => Pending(Removed(o, kind, p), p) = 0
<1> DEFINE keys == DOMAIN o \ {<<p, kind>>}
<1>1. Removed(o, kind, p) = Only(o, keys)  BY DEF Removed
<1>2. DOMAIN Only(o, keys) = DOMAIN o \cap keys  BY DEF Only
<1>3. kind = "verification" => Pending(Only(o, keys), p) = 0  BY <1>2 DEF Pending
<1> HIDE DEF keys
<1> QED  BY <1>1, <1>3, OpenOnly

\* A new request is a good one, and the only one that becomes pending.
LEMMA OpenCreated ==
  ASSUME NEW o \in OpenRequests, NEW kind \in Kinds, NEW p \in Peers, NEW hash \in Nat, NEW time \in Nat,
         NEW t \in Tasks \cup {NoTask}
  PROVE  LET new == Created(o, kind, p, hash, time, t) IN
         /\ new \in OpenRequests
         /\ \A id : (id # p \/ kind # "verification") => Pending(new, id) = Pending(o, id)
         /\ \A id : Pending(new, id) <= 1 /\ Pending(new, id) \in Nat
<1> DEFINE r == [hash |-> hash, issue_time |-> time, tx |-> t]
           key == <<p, kind>>
           new == Created(o, kind, p, hash, time, t)
<1>1. r \in Requests  BY DEF Requests
<1>2. key \in Peers \X Kinds /\ \A id : (id # p \/ kind # "verification") => <<id, "verification">> # key
  OBVIOUS
<1>3. new = With(o, key, r)  BY DEF Created
<1> HIDE DEF r, key, new
<1>4. DOMAIN o \subseteq Peers \X Kinds /\ o \in [DOMAIN o -> Requests]  BY OpenParts
<1>5. DOMAIN new = DOMAIN o \cup {key} /\ \A k \in DOMAIN new : new[k] \in Requests
  BY <1>1, <1>3, <1>4 DEF With
<1>6. new \in [DOMAIN new -> Requests]
  <2>1. new = [k \in DOMAIN o \cup {key} |-> IF k = key THEN r ELSE o[k]]  BY <1>3 DEF With
  <2> QED  BY <1>5, <2>1
<1>7. new \in OpenRequests  BY <1>2, <1>4, <1>5, <1>6, OpenParts
<1>8. \A id : (id # p \/ kind # "verification") => Pending(new, id) = Pending(o, id)
  BY <1>2, <1>5 DEF Pending
<1>9. \A id : Pending(new, id) <= 1 /\ Pending(new, id) \in Nat  BY DEF Pending
<1> QED  BY <1>7, <1>8, <1>9 DEF new

\* Tasks stay tasks when their channels close, when they are answered and when
\* they go on.
LEMMA TablesDropped ==
  ASSUME NEW kinds, NEW w \in TaskTables(kinds), NEW o, NEW keys
  PROVE  Dropped(w, o, keys) \in TaskTables(kinds)
<1>1. \A t \in Tasks : w[t].state = "waiting" => w[t] \in TaskRecords(kinds)
  BY DEF Idle, TaskTables
<1>2. \A x \in TaskRecords(kinds) : [x EXCEPT !.state = "closed"] \in TaskRecords(kinds)
  BY DEF TaskRecords, TaskStates
<1>3. \A t \in Tasks : w[t].state = "waiting" => [w[t] EXCEPT !.state = "closed"] \in TaskRecords(kinds)
  BY <1>1, <1>2
<1> QED  BY <1>3 DEF Dropped, TaskTables

\* A task goes on to another state.
LEMMA TableSet ==
  ASSUME NEW kinds, NEW w \in TaskTables(kinds), NEW t \in Tasks, NEW s \in TaskStates,
         w[t].state \in TaskStates
  PROVE  [w EXCEPT ![t].state = s] \in TaskTables(kinds)
<1>1. w[t] \in TaskRecords(kinds)  BY DEF Idle, TaskStates, TaskTables
<1>2. [w[t] EXCEPT !.state = s] \in TaskRecords(kinds)  BY <1>1 DEF TaskRecords
<1> QED  BY <1>2 DEF TaskTables

\* A task that is answered stays a task.
LEMMA TablesNotified ==
  ASSUME NEW kinds, NEW w \in TaskTables(kinds), NEW tx
  PROVE  Notified(w, tx) \in TaskTables(kinds)
<1>1. CASE tx \in Tasks /\ w[tx].state = "waiting"
  <2>1. "waiting" \in TaskStates /\ "answered" \in TaskStates  BY DEF TaskStates
  <2>2. [w EXCEPT ![tx].state = "answered"] \in TaskTables(kinds)  BY <1>1, <2>1, TableSet
  <2> QED  BY <1>1, <2>2 DEF Notified
<1>2. CASE ~(tx \in Tasks /\ w[tx].state = "waiting")  BY <1>2 DEF Notified
<1> QED  BY <1>1, <1>2

-----------------------------------------------------------------------------
(***************************************************************************)
(* The invariant of discovery.  That no peer is verified more often than   *)
(* it was asked is not inductive: an open request is a verification still  *)
(* to come, and the store brings back the verifications of an earlier run. *)
(***************************************************************************)
\* No peer of a ring has more verifications than requests, open ones included.
Credited(ring, requests, limit) ==
  /\ \A x \in ToSet(ring) : x.verified_count + Pending(requests, x.id) <= limit[x.id]
  /\ \A p \in Peers : Pending(requests, p) <= limit[p]

ListsInv ==
  /\ [active |-> active, replacements |-> replacements] \in PeerLists
  /\ EntryPeersActive

RequestsInv ==
  /\ open \in OpenRequests /\ tasks \in TaskTables(Kinds)
  /\ now \in Nat
  /\ ~running => DOMAIN open = {}

CreditInv == asked \in [Peers -> Nat] /\ Credited(active, open, asked)

StoreInv ==
  /\ store.active \in SUBSET ActivePeers /\ store.replacements \in SUBSET ReplacementPeers
  /\ IsFiniteSet(store.active) /\ IsFiniteSet(store.replacements)
  /\ \A x \in store.active : x.verified_count <= asked[x.id]

Panics == {"none", "unlisted", "late", "shrunk"}

StatusInv == panic \in Panics /\ running \in BOOLEAN

\* The steps of the receive handler that are about a peer.
PeerSteps == {"known", "add", "add_known", "is_full", "insert_active", "insert_replacement", "send"}

HandlerRecords ==
  [at : PeerSteps \cup {"idle", "choose", "finish"}, response : BOOLEAN, peers : Seq(Peers),
   from : Peers \cup {NoTask}, added : Nat, tx : Tasks \cup {NoTask}]

\* A handler that found room in the list of active peers still finds it when it
\* comes to insert: the tasks that run in between only remove and replace.
HandlerGood(h, ring) ==
  /\ h \in HandlerRecords
  /\ h.at \in PeerSteps => h.peers # <<>>
  /\ h.at = "insert_active" => Len(ring) < DEFAULT_MAX_MANAGED

HandlerInv == HandlerGood(handler, active) /\ (~running => handler = NoPacket)

DiscoveryInv == ListsInv /\ RequestsInv /\ CreditInv /\ StoreInv /\ StatusInv /\ HandlerInv

\* The lists in terms of the variables.
LEMMA ListParts ==
  ASSUME ListsInv
  PROVE  active \in ActiveRings /\ replacements \in ReplacementRings
<1> DEFINE l == [active |-> active, replacements |-> replacements]
<1>1. l \in PeerLists /\ l.active = active /\ l.replacements = replacements  BY DEF ListsInv
<1> HIDE DEF l
<1> QED  BY <1>1 DEF PeerLists

\* Two rings are the lists of the manager.
LEMMA ListType ==
  ASSUME NEW a \in ActiveRings, NEW b \in ReplacementRings
  PROVE  [active |-> a, replacements |-> b] \in PeerLists
BY DEF PeerLists

\* More requests and fewer open ones leave the verifications covered.
LEMMA CreditGrows ==
  ASSUME NEW r \in ActiveRings, NEW o, NEW p, NEW f \in [Peers -> Nat], NEW g \in [Peers -> Nat],
         Credited(r, o, f), \A x \in Peers : Pending(p, x) <= Pending(o, x) /\ f[x] <= g[x]
  PROVE  Credited(r, p, g)
<1>0. \A x \in Peers : Pending(p, x) <= g[x]
  <2> TAKE x \in Peers
  <2>1. Pending(p, x) \in Nat /\ Pending(o, x) \in Nat  BY DEF Pending
  <2>2. Pending(o, x) <= f[x]  BY DEF Credited
  <2> QED  BY <2>1, <2>2
<1> SUFFICES ASSUME NEW x \in ToSet(r)  PROVE x.verified_count + Pending(p, x.id) <= g[x.id]
  BY <1>0 DEF Credited
<1>1. x \in ActivePeers  BY RingPeers DEF ActiveRings
<1>2. x.id \in Peers /\ x.verified_count \in Nat  BY <1>1 DEF ActivePeers
<1>3. Pending(p, x.id) \in Nat /\ Pending(o, x.id) \in Nat  BY DEF Pending
<1>4. x.verified_count + Pending(o, x.id) <= f[x.id]  BY DEF Credited
<1> QED  BY <1>2, <1>3, <1>4

\* What the store says is covered by what was asked, and by more.
LEMMA StoreGrows ==
  ASSUME StoreInv, asked \in [Peers -> Nat], asked' \in [Peers -> Nat],
         \A p \in Peers : asked[p] <= asked'[p], UNCHANGED store
  PROVE  StoreInv'
<1>1. \A x \in store.active : x.verified_count \in Nat /\ x.id \in Peers
  BY DEF StoreInv, ActivePeers
<1>2. \A x \in store.active : x.verified_count <= asked'[x.id]  BY <1>1 DEF StoreInv
<1> QED  BY <1>2 DEF StoreInv

\* Steps of which only the tasks, the open requests and the clock tell.
LEMMA RequestsStep ==
  ASSUME DiscoveryInv, UNCHANGED <<active, replacements, entry, handler, running, store>>,
         tasks' \in TaskTables(Kinds), open' \in OpenRequests, now' \in Nat,
         ~running => DOMAIN open' = {}, asked' \in [Peers -> Nat],
         Credited(active, open', asked'), \A p \in Peers : asked[p] <= asked'[p],
         panic' \in Panics
  PROVE  DiscoveryInv'
<1>1. ListsInv'  BY DEF DiscoveryInv, ListsInv, EntryPeersActive
<1>2. RequestsInv'  BY DEF RequestsInv
<1>3. CreditInv'  BY DEF CreditInv
<1>4. StoreInv'  BY StoreGrows DEF DiscoveryInv, CreditInv
<1>5. StatusInv'  BY DEF DiscoveryInv, StatusInv
<1>6. HandlerInv'  BY DEF DiscoveryInv, HandlerInv
<1> QED  BY <1>1, <1>2, <1>3, <1>4, <1>5, <1>6 DEF DiscoveryInv

\* Steps of which only the tasks tell.
LEMMA TasksStep ==
  ASSUME DiscoveryInv,
         UNCHANGED <<active, replacements, entry, open, now, handler, panic, running, store, asked>>,
         tasks' \in TaskTables(Kinds)
  PROVE  DiscoveryInv'
<1>1. /\ open' \in OpenRequests /\ now' \in Nat /\ (~running => DOMAIN open' = {})
      /\ asked' \in [Peers -> Nat] /\ Credited(active, open', asked')
      /\ panic' \in Panics
  BY DEF DiscoveryInv, RequestsInv, CreditInv, StatusInv
<1>2. \A p \in Peers : asked[p] <= asked'[p]  BY DEF DiscoveryInv, CreditInv
<1> QED  BY <1>1, <1>2, RequestsStep

-----------------------------------------------------------------------------
(***************************************************************************)
(* Start and stop.                                                         *)
(***************************************************************************)
\* Nothing is pending when nothing is open.
LEMMA NothingOpen ==
  ASSUME NEW o, DOMAIN o = {}, NEW r \in ActiveRings, NEW f \in [Peers -> Nat],
         \A x \in ToSet(r) : x.verified_count <= f[x.id]
  PROVE  Credited(r, o, f)
<1>0. ToSet(r) \subseteq ActivePeers  BY RingPeers DEF ActiveRings
<1>1. \A x \in ToSet(r) : x.verified_count \in Nat  BY <1>0 DEF ActivePeers
<1>2. \A id : Pending(o, id) = 0  BY DEF Pending
<1> QED  BY <1>1, <1>2 DEF Credited

\* An order in which a store lists its peers.
LEMMA StoredSequence ==
  ASSUME NEW S, IsFiniteSet(S), NEW s \in SetToSeqs(S)
  PROVE  Cardinality(S) \in Nat /\ s \in [1 .. Cardinality(S) -> S]
BY FS_CardinalityType DEF SetToSeqs

\* A handler without a packet is a good one.
LEMMA NoPacketGood == \A ring : HandlerGood(NoPacket, ring)
<1>1. <<>> \in Seq(Peers) /\ 0 \in Nat  OBVIOUS
<1>2. NoPacket \in HandlerRecords  BY <1>1 DEF NoPacket, HandlerRecords
<1>3. NoPacket.at = "idle"  BY DEF NoPacket
<1> QED  BY <1>2, <1>3 DEF HandlerGood, PeerSteps

\* A start fills the lists from the store or with the entry nodes; no request is
\* open then, so what the store says is covered.
LEMMA StartKeeps == ASSUME DiscoveryInv, StartDiscovery  PROVE DiscoveryInv'
<1>1. /\ running' = TRUE /\ panic' = "none" /\ UNCHANGED <<open, tasks, now, handler, store, asked>>
      /\ ~running
  BY DEF StartDiscovery
<1>0. HandlerInv'
  <2>1. handler' = NoPacket  BY <1>1 DEF DiscoveryInv, HandlerInv
  <2> QED  BY <2>1, NoPacketGood DEF HandlerInv, HandlerGood
<1>2. RequestsInv' /\ StoreInv' /\ StatusInv' /\ HandlerInv'
  BY <1>0, <1>1 DEF DiscoveryInv, RequestsInv, StoreInv, StatusInv, Panics
<1>3. DOMAIN open = {} /\ asked \in [Peers -> Nat] /\ asked' = asked /\ open' = open
  BY <1>1 DEF DiscoveryInv, RequestsInv, CreditInv
<1>4. CASE store = EmptyStore
  <2> DEFINE l == add_entry_peers
  <2>1. active' = l.active /\ replacements' = l.replacements /\ entry' = ToSet(EntryNodes)
    BY <1>4 DEF StartDiscovery
  <2>2. l \in PeerLists /\ Ids(l.active) = ToSet(EntryNodes)
        /\ \A i \in DOMAIN l.active : l.active[i].verified_count = 0
    BY EntryPeersGood
  <2> HIDE DEF l
  <2>3. l.active \in ActiveRings /\ l = [active |-> l.active, replacements |-> l.replacements]
    BY <2>2 DEF PeerLists
  <2>4. ListsInv'  BY <2>1, <2>2, <2>3 DEF ListsInv, EntryPeersActive
  <2>5. \A x \in ToSet(l.active) : x.verified_count <= asked[x.id]
    <3>1. ToSet(l.active) \subseteq ActivePeers  BY <2>3, RingPeers DEF ActiveRings
    <3>2. \A x \in ToSet(l.active) : x.verified_count = 0 /\ asked[x.id] \in Nat
      BY <1>3, <2>2, <3>1 DEF ToSet, ActivePeers
    <3> QED  BY <3>2
  <2>6. Credited(l.active, open, asked)  BY <1>3, <2>3, <2>5, NothingOpen
  <2>7. CreditInv'  BY <1>3, <2>1, <2>6 DEF CreditInv
  <2> QED  BY <1>2, <2>4, <2>7 DEF DiscoveryInv
<1>5. CASE store # EmptyStore
  <2>1. PICK actives \in SetToSeqs(store.active), others \in SetToSeqs(store.replacements) :
          /\ active' = add_peers_from_store(actives, others).active
          /\ replacements' = add_peers_from_store(actives, others).replacements
          /\ entry' = {}
    BY <1>5 DEF StartDiscovery
  <2> DEFINE A == store.active
             B == store.replacements
             a == RingOf(actives, DEFAULT_MAX_MANAGED)
             b == RingOf(others, DEFAULT_MAX_REPLACEMENTS)
  <2>2. active' = a /\ replacements' = b  BY <2>1 DEF add_peers_from_store
  <2>3. A \subseteq ActivePeers /\ B \subseteq ReplacementPeers /\ IsFiniteSet(A) /\ IsFiniteSet(B)
        /\ \A x \in A : x.verified_count <= asked[x.id]
    BY DEF DiscoveryInv, StoreInv
  <2>4. /\ Cardinality(A) \in Nat /\ actives \in [1 .. Cardinality(A) -> A]
        /\ Cardinality(B) \in Nat /\ others \in [1 .. Cardinality(B) -> B]
    BY <2>3, StoredSequence
  <2> HIDE DEF A, B
  <2>5. a \in Rings(A, DEFAULT_MAX_MANAGED) /\ b \in Rings(B, DEFAULT_MAX_REPLACEMENTS)
    BY <2>4, Sizes, RingOfGood
  <2> HIDE DEF a, b
  <2>6. a \in ActiveRings /\ b \in ReplacementRings
    BY <2>3, <2>5, RingWidened DEF ActiveRings, ReplacementRings
  <2>7. ToSet(a) \subseteq A /\ ToSet(b) \subseteq B  BY <2>5, RingPeers
  <2>9. ListsInv'
    BY <2>1, <2>2, <2>6, ListType DEF ListsInv, EntryPeersActive
  <2>10. Credited(a, open, asked)  BY <1>3, <2>3, <2>6, <2>7, NothingOpen
  <2>11. CreditInv'  BY <1>3, <2>2, <2>10 DEF CreditInv
  <2> QED  BY <1>2, <2>9, <2>11 DEF DiscoveryInv
<1> QED  BY <1>4, <1>5

\* Nothing is listed and nothing open at first.
LEMMA EmptyRings ==
  /\ <<>> \in ActiveRings /\ <<>> \in ReplacementRings /\ Ids(<<>>) = {} /\ ToSet(<<>>) = {}
  /\ [active |-> <<>>, replacements |-> <<>>] \in PeerLists
  /\ <<>> \in OpenRequests /\ DOMAIN <<>> = {}
<1>1. <<>> \in ActiveRings /\ <<>> \in ReplacementRings /\ Ids(<<>>) = {} /\ ToSet(<<>>) = {}
  BY Sizes DEF ActiveRings, ReplacementRings, Rings, Ids, ToSet
<1>2. <<>> \in OpenRequests /\ DOMAIN <<>> = {}
  <2>1. DOMAIN <<>> = {} /\ <<>> \in [{} -> Requests]  OBVIOUS
  <2>2. {} \in SUBSET (Peers \X Kinds)  OBVIOUS
  <2> QED  BY <2>1, <2>2 DEF OpenRequests
<1> QED  BY <1>1, <1>2, ListType

\* What a ring holds is finite.
LEMMA RingFinite ==
  ASSUME NEW P, NEW size, NEW r \in Rings(P, size)  PROVE IsFiniteSet(ToSet(r))
<1> DEFINE D == 1 .. Len(r)
           f == [i \in D |-> r[i]]
<1>1. DOMAIN r = D /\ Len(r) \in Nat  BY DEF Rings
<1>2. f \in Surjection(D, ToSet(r))  BY <1>1 DEF Surjection, ToSet
<1>3. IsFiniteSet(D)  BY <1>1, FS_Interval
<1> QED  BY <1>2, <1>3, FS_Surjection DEF ExistsSurjection

\* A stop, complete or cut short, stores what is covered by the requests sent.
LEMMA StopKeeps == ASSUME DiscoveryInv, StopDiscovery  PROVE DiscoveryInv'
<1> DEFINE A == ToSet(active)
           B == ToSet(replacements)
<1>1. /\ running' = FALSE /\ panic' = "none" /\ active' = <<>> /\ replacements' = <<>> /\ entry' = {}
      /\ open' = <<>> /\ tasks' = [t \in Tasks |-> Idle] /\ UNCHANGED <<now, asked>>
      /\ handler' = NoPacket
  BY DEF StopDiscovery
<1>2. store' \in {store, EmptyStore, [active |-> A, replacements |-> {}],
                  [active |-> A, replacements |-> B]}
  BY DEF StopDiscovery
<1>3. ListsInv' /\ StatusInv' /\ HandlerInv'
  BY <1>1, EmptyRings, NoPacketGood DEF ListsInv, EntryPeersActive, StatusInv, HandlerInv, Panics
<1>4. RequestsInv'
  BY <1>1, EmptyRings DEF DiscoveryInv, RequestsInv, TaskTables
<1>5. CreditInv'
  <2>1. \A p : Pending(<<>>, p) = 0  BY EmptyRings DEF Pending
  <2>2. asked \in [Peers -> Nat]  BY DEF DiscoveryInv, CreditInv
  <2>3. Credited(<<>>, <<>>, asked)  BY <2>1, <2>2, EmptyRings DEF Credited
  <2> QED  BY <1>1, <2>2, <2>3 DEF CreditInv
<1>6. /\ A \subseteq ActivePeers /\ B \subseteq ReplacementPeers
      /\ IsFiniteSet(A) /\ IsFiniteSet(B) /\ IsFiniteSet({})
  <2>1. active \in ActiveRings /\ replacements \in ReplacementRings
    BY ListParts DEF DiscoveryInv
  <2>2. A \subseteq ActivePeers /\ B \subseteq ReplacementPeers
        /\ (\A x \in A : x.id \in Ids(active)) /\ (\A x \in B : x.id \in Ids(replacements))
    BY <2>1, RingPeers DEF ActiveRings, ReplacementRings
  <2>3. IsFiniteSet(A) /\ IsFiniteSet(B)
    BY <2>1, RingFinite DEF ActiveRings, ReplacementRings
  <2> QED  BY <2>1, <2>2, <2>3, FS_EmptySet
<1>7. \A x \in A : x.verified_count <= asked[x.id]
  <2>1. \A x \in A : x.verified_count + Pending(open, x.id) <= asked[x.id]
    BY DEF DiscoveryInv, CreditInv, Credited
  <2>2. \A x \in A : x.verified_count \in Nat /\ Pending(open, x.id) \in Nat /\ asked[x.id] \in Nat
    BY <1>6 DEF DiscoveryInv, CreditInv, ActivePeers, Pending
  <2> QED  BY <2>1, <2>2
<1> HIDE DEF A, B
<1>8. StoreInv'
  <2>1. CASE store' = store
    <3> QED  BY <1>1, <2>1 DEF DiscoveryInv, StoreInv
  <2>2. ASSUME NEW S \in {{}, A}, NEW T \in {{}, B}, store' = [active |-> S, replacements |-> T]
        PROVE  StoreInv'
    <3>1. store'.active = S /\ store'.replacements = T  BY <2>2
    <3>2. S \subseteq ActivePeers /\ T \subseteq ReplacementPeers /\ IsFiniteSet(S) /\ IsFiniteSet(T)
          /\ \A x \in S : x.verified_count <= asked[x.id]
      BY <1>6, <1>7
    <3> QED  BY <1>1, <3>1, <3>2 DEF StoreInv
  <2> QED  BY <1>2, <2>1, <2>2 DEF EmptyStore
<1> QED  BY <1>3, <1>4, <1>5, <1>8 DEF DiscoveryInv

-----------------------------------------------------------------------------
(***************************************************************************)
(* The handlers.                                                           *)
(***************************************************************************)
\* What the invariant says of the variables, for the steps below.
LEMMA Known ==
  ASSUME DiscoveryInv
  PROVE  /\ active \in ActiveRings /\ replacements \in ReplacementRings
         /\ EntryPeersActive /\ HandlerGood(handler, active)
         /\ open \in OpenRequests /\ tasks \in TaskTables(Kinds) /\ now \in Nat
         /\ asked \in [Peers -> Nat] /\ Credited(active, open, asked)
BY ListParts DEF DiscoveryInv, ListsInv, RequestsInv, CreditInv, HandlerInv

\* Steps of the running manager that also change the lists.
LEMMA ListsStep ==
  ASSUME DiscoveryInv, running, UNCHANGED <<entry, now, running, store>>,
         active' \in ActiveRings, replacements' \in ReplacementRings,
         entry \subseteq Ids(active'), HandlerGood(handler', active'),
         tasks' \in TaskTables(Kinds), open' \in OpenRequests,
         asked' \in [Peers -> Nat], Credited(active', open', asked'),
         \A p \in Peers : asked[p] <= asked'[p],
         panic' \in Panics
  PROVE  DiscoveryInv'
<1>1. ListsInv'  BY ListType DEF ListsInv, EntryPeersActive
<1>2. RequestsInv'  BY DEF DiscoveryInv, RequestsInv
<1>3. CreditInv'  BY DEF CreditInv
<1>4. StoreInv'  BY StoreGrows DEF DiscoveryInv, CreditInv
<1>5. StatusInv'  BY DEF DiscoveryInv, StatusInv
<1>6. HandlerInv'  BY DEF HandlerInv
<1> QED  BY <1>1, <1>2, <1>3, <1>4, <1>5, <1>6 DEF DiscoveryInv

\* One more request to a peer, and a pending one for it.
LEMMA CreditAsked ==
  ASSUME NEW r \in ActiveRings, NEW o \in OpenRequests, NEW n, NEW id \in Peers, asked \in [Peers -> Nat],
         Credited(r, o, asked), \A q : q # id => Pending(n, q) = Pending(o, q)
  PROVE  /\ Asked(id) \in [Peers -> Nat] /\ \A p \in Peers : asked[p] <= Asked(id)[p]
         /\ Credited(r, n, Asked(id))
<1>1. /\ Asked(id) \in [Peers -> Nat] /\ \A p \in Peers : asked[p] <= Asked(id)[p]
      /\ Asked(id)[id] = asked[id] + 1 /\ \A p \in Peers : p # id => Asked(id)[p] = asked[p]
  BY DEF Asked
<1>2. \A q : Pending(n, q) \in {0, 1} /\ Pending(o, q) \in {0, 1}  BY DEF Pending
<1>3. ASSUME NEW p \in Peers  PROVE Pending(n, p) <= Asked(id)[p]
  <2>1. Pending(o, p) <= asked[p] /\ asked[p] \in Nat  BY DEF Credited
  <2> QED  BY <1>1, <1>2, <2>1
<1>4. ASSUME NEW x \in ToSet(r)  PROVE x.verified_count + Pending(n, x.id) <= Asked(id)[x.id]
  <2>1. x \in ActivePeers  BY RingPeers DEF ActiveRings
  <2>2. x.id \in Peers /\ x.verified_count \in Nat  BY <2>1 DEF ActivePeers
  <2>3. x.verified_count + Pending(o, x.id) <= asked[x.id] /\ asked[x.id] \in Nat
    BY <2>2 DEF Credited
  <2>4. CASE x.id = id  BY <1>1, <1>2, <2>2, <2>3, <2>4
  <2>5. CASE x.id # id  BY <1>1, <2>2, <2>3, <2>5
  <2> QED  BY <2>4, <2>5
<1> QED  BY <1>1, <1>3, <1>4 DEF Credited

\* An unverified peer more in the list needs no credit.
LEMMA CreditNew ==
  ASSUME NEW r \in ActiveRings, NEW n \in ActiveRings, NEW o \in OpenRequests, NEW f \in [Peers -> Nat],
         Credited(r, o, f), \A x \in ToSet(n) : x \in ToSet(r) \/ x.verified_count = 0
  PROVE  Credited(n, o, f)
<1> SUFFICES ASSUME NEW x \in ToSet(n)  PROVE x.verified_count + Pending(o, x.id) <= f[x.id]
  BY DEF Credited
<1>1. x \in ActivePeers  BY RingPeers DEF ActiveRings
<1>2. x.id \in Peers /\ x.verified_count \in Nat  BY <1>1 DEF ActivePeers
<1>3. Pending(o, x.id) \in {0, 1} /\ f[x.id] \in Nat  BY <1>2 DEF Pending
<1>4. Pending(o, x.id) <= f[x.id]  BY <1>2 DEF Credited
<1>5. CASE x \in ToSet(r)  BY <1>5 DEF Credited
<1>6. CASE x.verified_count = 0  BY <1>3, <1>4, <1>6
<1> QED  BY <1>5, <1>6

\* Steps of the receive handler that change nothing but its place.
LEMMA HandlerStep ==
  ASSUME DiscoveryInv, running, HandlerGood(handler', active), panic' \in Panics,
         UNCHANGED <<active, replacements, entry, open, tasks, now, running, store, asked>>
  PROVE  DiscoveryInv'
<1>1. entry \subseteq Ids(active)  BY Known DEF EntryPeersActive
<1>2. \A p \in Peers : asked[p] <= asked'[p]  BY Known
<1> QED  BY <1>1, <1>2, Known, ListsStep

\* What the handler works on when it is at a step about a peer.
LEMMA AtPeer ==
  ASSUME NEW h, NEW ring, HandlerGood(h, ring), h.at \in PeerSteps
  PROVE  /\ h \in HandlerRecords /\ h.peers \in Seq(Peers) /\ Len(h.peers) \in Nat \ {0}
         /\ Head(h.peers) \in Peers
<1>1. h \in HandlerRecords /\ h.peers \in Seq(Peers) /\ h.peers # <<>>  BY DEF HandlerGood, HandlerRecords
<1> DEFINE s == h.peers
<1>2. s \in Seq(Peers) /\ s # <<>>  BY <1>1
<1> HIDE DEF s
<1>3. Len(s) \in Nat \ {0} /\ Head(s) \in Peers  BY <1>2
<1> QED  BY <1>1, <1>3 DEF s

\* A handler may go on to another step about its peer, unless it is an insertion
\* into the active list.
LEMMA NextStepGood ==
  ASSUME NEW h, NEW ring, HandlerGood(h, ring), h.at \in PeerSteps, NEW step \in PeerSteps,
         step # "insert_active"
  PROVE  \A r : HandlerGood([h EXCEPT !.at = step], r)
<1>1. h \in HandlerRecords /\ h.peers # <<>>  BY DEF HandlerGood
<1> DEFINE g == [h EXCEPT !.at = step]
<1>2. g \in HandlerRecords /\ g.at = step /\ g.peers = h.peers  BY <1>1 DEF HandlerRecords
<1> HIDE DEF g
<1>3. \A r : HandlerGood(g, r)  BY <1>1, <1>2 DEF HandlerGood
<1> QED  BY <1>3 DEF g

\* A handler that is done with a peer goes on to the next, or ends.
LEMMA LeaveGood ==
  ASSUME NEW h, NEW ring, HandlerGood(h, ring), h.at \in PeerSteps
  PROVE  \A r : HandlerGood(Leave(h), r)
<1>1. CASE h.at = "known"
  <2>1. Leave(h) = NoPacket  BY <1>1 DEF Leave
  <2> QED  BY <2>1, NoPacketGood
<1>2. CASE h.at # "known" /\ ~h.response
  <2>1. Leave(h) = [h EXCEPT !.at = "send"]  BY <1>2 DEF Leave
  <2>2. "send" \in PeerSteps  BY DEF PeerSteps
  <2> QED  BY <2>1, <2>2, NextStepGood
<1>3. CASE h.at # "known" /\ h.response
  <2> DEFINE step == IF Len(h.peers) = 1 THEN "finish" ELSE "add"
             s == Tail(h.peers)
             g == [h EXCEPT !.peers = s, !.at = step]
  <2>1. Leave(h) = g  BY <1>3 DEF Leave
  <2>2. h \in HandlerRecords /\ h.peers \in Seq(Peers) /\ Len(h.peers) \in Nat \ {0}  BY AtPeer
  <2>3. s \in Seq(Peers) /\ (step = "add" => s # <<>>)
    <3> DEFINE q == h.peers
    <3>1. q \in Seq(Peers) /\ Len(q) \in Nat \ {0}  BY <2>2
    <3> HIDE DEF q
    <3>2. q # <<>>  BY <3>1
    <3>3. Tail(q) \in Seq(Peers) /\ Len(Tail(q)) = Len(q) - 1  BY <3>1, <3>2, HeadTailProperties
    <3> DEFINE rest == Tail(q)
    <3>4. Len(rest) = Len(q) - 1  BY <3>3
    <3> HIDE DEF rest
    <3>5. Len(q) # 1 => rest # <<>>
      <4>1. Len(q) # 1 => Len(rest) # 0  BY <3>1, <3>4
      <4>2. rest = <<>> => Len(rest) = 0  OBVIOUS
      <4> QED  BY <4>1, <4>2
    <3> QED  BY <3>3, <3>5 DEF q, rest
  <2>4. step \in {"finish", "add"}  OBVIOUS
  <2> HIDE DEF s, step
  <2>5. g \in HandlerRecords /\ g.at = step /\ g.peers = s
    BY <2>2, <2>3, <2>4 DEF HandlerRecords, PeerSteps
  <2> HIDE DEF g
  <2>6. \A r : HandlerGood(g, r)  BY <2>3, <2>4, <2>5 DEF HandlerGood, PeerSteps
  <2> QED  BY <2>1, <2>6
<1> QED  BY <1>1, <1>2, <1>3

\* Looking a peer up changes the place of the handler only.
LEMMA VerificationRequestKeeps ==
  ASSUME DiscoveryInv, NEW id \in Peers, HandleVerificationRequest(id)  PROVE DiscoveryInv'
<1>1. /\ UNCHANGED <<active, replacements, entry, open, tasks, now, panic, running, store, asked>> /\ running
      /\ handler' = IF id \in Ids(active) THEN NoPacket ELSE [NoPacket EXCEPT !.at = "known", !.peers = <<id>>]
  BY DEF HandleVerificationRequest, HandlerAt
<1>2. panic' \in Panics  BY <1>1 DEF DiscoveryInv, StatusInv
<1>3. HandlerGood(handler', active)
  <2>1. CASE id \in Ids(active)  BY <1>1, <2>1, NoPacketGood
  <2>2. CASE id \notin Ids(active)
    <3> DEFINE g == [NoPacket EXCEPT !.at = "known", !.peers = <<id>>]
    <3>1. <<id>> \in Seq(Peers) /\ <<id>> # <<>>  OBVIOUS
    <3>2. NoPacket \in HandlerRecords  BY NoPacketGood DEF HandlerGood
    <3>3. g \in HandlerRecords /\ g.at = "known" /\ g.peers = <<id>>
      BY <3>1, <3>2 DEF HandlerRecords, PeerSteps
    <3> HIDE DEF g
    <3>4. HandlerGood(g, active)  BY <3>1, <3>3 DEF HandlerGood
    <3> QED  BY <1>1, <2>2, <3>4 DEF g
  <2> QED  BY <2>1, <2>2
<1> QED  BY <1>1, <1>2, <1>3, HandlerStep

\* So do the look-ups of add_peer.
LEMMA LookUpKeeps == ASSUME DiscoveryInv, IsActive \/ IsReplacement  PROVE DiscoveryInv'
<1>1. /\ UNCHANGED <<active, replacements, entry, open, tasks, now, panic, running, store, asked>> /\ running
      /\ handler.at \in {"known", "add", "add_known"}
      /\ handler' \in {Leave(handler)} \cup {[handler EXCEPT !.at = step] : step \in {"add", "add_known", "is_full"}}
  BY DEF IsActive, IsReplacement, HandlerAt
<1>2. panic' \in Panics  BY <1>1 DEF DiscoveryInv, StatusInv
<1>3. handler.at \in PeerSteps /\ {"add", "add_known", "is_full"} \subseteq PeerSteps \ {"insert_active"}
  BY <1>1 DEF PeerSteps
<1>4. HandlerGood(handler', active)
  <2>1. HandlerGood(Leave(handler), active)  BY <1>3, Known, LeaveGood
  <2>2. \A step \in {"add", "add_known", "is_full"} : HandlerGood([handler EXCEPT !.at = step], active)
    BY <1>3, Known, NextStepGood
  <2> QED  BY <1>1, <2>1, <2>2
<1> QED  BY <1>1, <1>2, <1>4, HandlerStep

\* The handler inserts into the active list only when it has room.
LEMMA IsFullKeeps == ASSUME DiscoveryInv, IsFull  PROVE DiscoveryInv'
<1> DEFINE step == IF Len(active) < DEFAULT_MAX_MANAGED THEN "insert_active" ELSE "insert_replacement"
           g == [handler EXCEPT !.at = step]
<1>1. /\ UNCHANGED <<active, replacements, entry, open, tasks, now, panic, running, store, asked>> /\ running
      /\ handler.at = "is_full" /\ handler' = g
  BY DEF IsFull, HandlerAt
<1>2. panic' \in Panics  BY <1>1 DEF DiscoveryInv, StatusInv
<1>3. handler.at \in PeerSteps /\ step \in PeerSteps
      /\ (step = "insert_active" => Len(active) < DEFAULT_MAX_MANAGED)
  BY <1>1 DEF PeerSteps
<1>4. handler \in HandlerRecords /\ handler.peers # <<>>  BY <1>3, Known DEF HandlerGood
<1> HIDE DEF step
<1>5. g \in HandlerRecords /\ g.at = step /\ g.peers = handler.peers  BY <1>3, <1>4 DEF HandlerRecords
<1> HIDE DEF g
<1>6. HandlerGood(g, active)  BY <1>3, <1>4, <1>5 DEF HandlerGood
<1> QED  BY <1>1, <1>2, <1>6, HandlerStep

\* The place of the handler after an insertion.
LEMMA InsertedGood ==
  ASSUME DiscoveryInv, handler.at \in PeerSteps, NEW isNew  PROVE \A r : HandlerGood(Inserted(isNew), r)
<1>1. CASE isNew /\ handler.response
  <2> DEFINE g == [handler EXCEPT !.at = "send", !.added = @ + 1]
  <2>1. Inserted(isNew) = g  BY <1>1 DEF Inserted
  <2>2. handler \in HandlerRecords /\ handler.peers # <<>>  BY Known DEF HandlerGood
  <2>3. g \in HandlerRecords /\ g.at = "send" /\ g.peers = handler.peers
    <3>1. handler.added + 1 \in Nat  BY <2>2 DEF HandlerRecords
    <3> QED  BY <2>2, <3>1 DEF HandlerRecords, PeerSteps
  <2> HIDE DEF g
  <2>4. \A r : HandlerGood(g, r)  BY <2>2, <2>3 DEF HandlerGood
  <2> QED  BY <2>1, <2>4
<1>2. CASE ~(isNew /\ handler.response)
  <2>1. Inserted(isNew) = Leave(handler)  BY <1>2 DEF Inserted
  <2> QED  BY <2>1, Known, LeaveGood
<1> QED  BY <1>1, <1>2

\* A new active peer pushes no other out: the list still has room for it.
LEMMA InsertActiveKeeps == ASSUME DiscoveryInv, InsertActive  PROVE DiscoveryInv'
<1> DEFINE id == ThisPeer
           r == RingInsert(active, ActivePeer(id), DEFAULT_MAX_MANAGED)
<1>1. /\ UNCHANGED <<replacements, entry, open, tasks, now, panic, running, store, asked>> /\ running
      /\ handler.at = "insert_active" /\ active' = r /\ handler' = Inserted(id \notin Ids(active))
  BY DEF InsertActive, HandlerAt
<1>2. handler.at \in PeerSteps  BY <1>1 DEF PeerSteps
<1>3. id \in Peers  BY <1>2, Known, AtPeer DEF ThisPeer
<1> HIDE DEF id
<1>4. Len(active) < DEFAULT_MAX_MANAGED  BY <1>1, Known DEF HandlerGood
<1>5. ActivePeer(id) \in ActivePeers /\ ActivePeer(id).id = id /\ ActivePeer(id).verified_count = 0
  BY <1>3 DEF ActivePeer, ActivePeers
<1>6. r \in ActiveRings /\ ToSet(r) \subseteq ToSet(active) \cup {ActivePeer(id)} /\ Ids(r) = Ids(active) \cup {id}
  BY <1>4, <1>5, Known, Sizes, RingInsertGood DEF ActiveRings
<1> HIDE DEF r
<1>7. Credited(r, open, asked)  BY <1>5, <1>6, Known, CreditNew
<1>8. entry \subseteq Ids(r)  BY <1>1, <1>6, Known DEF EntryPeersActive
<1>9. HandlerGood(handler', r)  BY <1>1, <1>2, InsertedGood
<1>10. panic' \in Panics /\ \A p \in Peers : asked[p] <= asked'[p]
  BY <1>1, Known DEF DiscoveryInv, StatusInv
<1> QED  BY <1>1, <1>6, <1>7, <1>8, <1>9, <1>10, Known, ListsStep

\* A new replacement may push another out, which nothing rests on.
LEMMA InsertReplacementKeeps == ASSUME DiscoveryInv, InsertReplacement  PROVE DiscoveryInv'
<1> DEFINE id == ThisPeer
           r == RingInsert(replacements, ReplacementPeer(id), DEFAULT_MAX_REPLACEMENTS)
<1>1. /\ UNCHANGED <<active, entry, open, tasks, now, panic, running, store, asked>> /\ running
      /\ handler.at = "insert_replacement" /\ replacements' = r
      /\ handler' = Inserted(id \notin Ids(replacements))
  BY DEF InsertReplacement, HandlerAt
<1>2. handler.at \in PeerSteps  BY <1>1 DEF PeerSteps
<1>3. id \in Peers  BY <1>2, Known, AtPeer DEF ThisPeer
<1> HIDE DEF id
<1>4. ReplacementPeer(id) \in ReplacementPeers  BY <1>3 DEF ReplacementPeer, ReplacementPeers
<1>5. r \in ReplacementRings  BY <1>4, Known, Sizes, RingInsertGood DEF ReplacementRings
<1> HIDE DEF r
<1>6. entry \subseteq Ids(active)  BY <1>1, Known DEF EntryPeersActive
<1>7. HandlerGood(handler', active)  BY <1>1, <1>2, InsertedGood
<1>8. panic' \in Panics /\ \A p \in Peers : asked[p] <= asked'[p]
  BY <1>1, Known DEF DiscoveryInv, StatusInv
<1> QED  BY <1>1, <1>5, <1>6, <1>7, <1>8, Known, ListsStep

\* The tasks after a panic of the handler.
LEMMA PanicTasks ==
  ASSUME DiscoveryInv, NEW reason, HandlerPanics(reason)
  PROVE  tasks' \in TaskTables(Kinds) /\ panic' = reason /\ \A r : HandlerGood(handler', r)
<1>1. panic' = reason /\ handler' = NoPacket  BY DEF HandlerPanics
<1>2. CASE handler.tx \in Tasks /\ tasks[handler.tx].state = "waiting"
  <2>1. tasks' = [tasks EXCEPT ![handler.tx].state = "closed"]  BY <1>2 DEF HandlerPanics
  <2>2. "waiting" \in TaskStates /\ "closed" \in TaskStates  BY DEF TaskStates
  <2>3. [tasks EXCEPT ![handler.tx].state = "closed"] \in TaskTables(Kinds)
    BY <1>2, <2>2, Known, TableSet
  <2> QED  BY <1>1, <2>1, <2>3, NoPacketGood
<1>3. CASE ~(handler.tx \in Tasks /\ tasks[handler.tx].state = "waiting")
  <2>1. tasks' = tasks  BY <1>3 DEF HandlerPanics
  <2> QED  BY <1>1, <2>1, Known, NoPacketGood
<1> QED  BY <1>2, <1>3

\* A peer that is asked has one request more, and at most one of them pending.
LEMMA SendVerificationKeeps == ASSUME DiscoveryInv, SendVerification  PROVE DiscoveryInv'
<1> DEFINE id == ThisPeer
           o == Created(open, "verification", id, now, now, NoTask)
           w == Dropped(tasks, open, {<<id, "verification">>})
<1>1. UNCHANGED <<active, replacements, entry, now, running, store>> /\ running /\ handler.at = "send"
  BY DEF SendVerification, HandlerAt
<1>2. handler.at \in PeerSteps  BY <1>1 DEF PeerSteps
<1>3. id \in Peers  BY <1>2, Known, AtPeer DEF ThisPeer
<1>4. entry \subseteq Ids(active)  BY <1>1, Known DEF EntryPeersActive
<1>5. CASE handler.response /\ id \notin Ids(active)
  <2>1. HandlerPanics("unlisted") /\ UNCHANGED <<open, asked>>  BY <1>5 DEF SendVerification
  <2>2. tasks' \in TaskTables(Kinds) /\ panic' \in Panics /\ HandlerGood(handler', active)
    BY <2>1, PanicTasks DEF Panics
  <2>3. \A p \in Peers : asked[p] <= asked'[p]  BY <2>1, Known
  <2> QED  BY <1>1, <1>4, <2>1, <2>2, <2>3, Known, ListsStep
<1>6. CASE ~(handler.response /\ id \notin Ids(active))
  <2>1. /\ open' = o /\ tasks' = w /\ asked' = Asked(id) /\ panic' = panic
        /\ handler' = IF handler.response THEN Leave(handler) ELSE NoPacket
    BY <1>6 DEF SendVerification, SendRequest
  <2>2. HandlerGood(handler', active)  BY <1>2, <2>1, Known, LeaveGood, NoPacketGood
  <2> HIDE DEF id
  <2>3. o \in OpenRequests /\ \A q : q # id => Pending(o, q) = Pending(open, q)
    <3>1. "verification" \in Kinds /\ NoTask \in Tasks \cup {NoTask}  BY DEF Kinds
    <3> QED  BY <1>3, <3>1, Known, OpenCreated
  <2>4. w \in TaskTables(Kinds)  BY Known, TablesDropped
  <2> HIDE DEF o, w
  <2>5. /\ Asked(id) \in [Peers -> Nat] /\ \A p \in Peers : asked[p] <= Asked(id)[p]
        /\ Credited(active, o, Asked(id))
    BY <1>3, <2>3, Known, CreditAsked
  <2>6. panic' \in Panics  BY <2>1 DEF DiscoveryInv, StatusInv
  <2> QED  BY <1>1, <1>4, <2>1, <2>2, <2>3, <2>4, <2>5, <2>6, Known, ListsStep
<1> QED  BY <1>5, <1>6

\* An accepted answer takes the request out before it counts: the peer has one
\* verification more and one pending request less.
LEMMA VerificationResponseKeeps ==
  ASSUME DiscoveryInv, NEW id \in Peers, NEW hash, NEW serves, HandleVerificationResponse(id, hash, serves)
  PROVE  DiscoveryInv'
<1> DEFINE key == <<id, "verification">>
           accepted == Matches(id, "verification", hash) /\ serves
           front == RingSetNewest(active, id)
           tx == open[key].tx
           o == Removed(open, "verification", id)
<1>1. /\ UNCHANGED <<replacements, entry, now, handler, running, store, asked>> /\ running /\ open' = o
      /\ handler.at = "idle"
      /\ key \in DOMAIN open
      /\ tasks' = IF accepted THEN Notified(tasks, tx) ELSE Dropped(tasks, open, {key})
      /\ panic' \in {"none", "late"}
  BY DEF HandleVerificationResponse, AnsweredRequest, HandlerAt
<1>2. o \in OpenRequests /\ (\A q : Pending(o, q) <= Pending(open, q)) /\ Pending(o, id) = 0
  BY Known, OpenRemoved
<1>3. Pending(open, id) = 1  BY <1>1 DEF Pending
<1>4. tasks' \in TaskTables(Kinds)  BY <1>1, Known, TablesDropped, TablesNotified
<1>5. asked' \in [Peers -> Nat] /\ \A p \in Peers : asked[p] <= asked'[p]  BY <1>1, Known
<1>6. Credited(active, o, asked)  BY <1>2, <1>5, Known, CreditGrows
<1>7. panic' \in Panics  BY <1>1 DEF Panics
<1>a. \A ring : HandlerGood(handler', ring)  BY <1>1, Known DEF HandlerGood, PeerSteps
<1>8. CASE ~(accepted /\ id \in Ids(active))
  <2>1. UNCHANGED active  BY <1>8 DEF HandleVerificationResponse
  <2> HIDE DEF o
  <2>2. entry \subseteq Ids(active)  BY <1>1, Known DEF EntryPeersActive
  <2> QED  BY <1>1, <1>2, <1>4, <1>5, <1>6, <1>7, <1>a, <2>1, <2>2, Known, ListsStep
<1>9. CASE accepted /\ id \in Ids(active)
  <2> DEFINE x == [front[1] EXCEPT !.verified_count = @ + 1]
             new == [front EXCEPT ![1] = x]
  <2>1. active' = new  BY <1>9 DEF HandleVerificationResponse
  <2>2. /\ front \in ActiveRings /\ Len(front) = Len(active) /\ 1 \in 1 .. Len(front)
        /\ ToSet(front) = ToSet(active) /\ Ids(front) = Ids(active) /\ front[1].id = id
    BY <1>9, Known, Sizes, RingRotated DEF ActiveRings
  <2> HIDE DEF front
  <2>3. front \in Seq(ActivePeers) /\ DOMAIN front = 1 .. Len(front)  BY <2>2 DEF ActiveRings, Rings
  <2>4. front[1] \in ActivePeers /\ front[1] \in ToSet(active)
    <3>1. front[1] \in ToSet(front)  BY <2>2, <2>3 DEF ToSet
    <3> QED  BY <2>2, <2>3, <3>1
  <2>5. x \in ActivePeers /\ x.id = id /\ x.verified_count = front[1].verified_count + 1
        /\ front[1].verified_count \in Nat
    BY <2>2, <2>4 DEF ActivePeers
  <2> HIDE DEF x
  <2>6. new \in ActiveRings /\ Ids(new) = Ids(active)
    BY <2>2, <2>5, Sizes, RingUpdated DEF ActiveRings
  <2>7. \A y \in ToSet(new) : y = x \/ y \in ToSet(active)
    <3>1. DOMAIN new = 1 .. Len(front) /\ \A i \in 1 .. Len(front) : new[i] = IF i = 1 THEN x ELSE front[i]
      BY <2>3
    <3>2. \A i \in 1 .. Len(front) : front[i] \in ToSet(front)  BY <2>3 DEF ToSet
    <3> HIDE DEF new
    <3> QED  BY <2>2, <3>1, <3>2 DEF ToSet
  <2> HIDE DEF new, o
  <2>8. Credited(new, o, asked)
    <3>1. front[1].verified_count + 1 <= asked[id]
      BY <1>3, <2>2, <2>4, Known DEF Credited
    <3>2. x.verified_count + Pending(o, x.id) <= asked[x.id]
      BY <1>2, <2>5, <3>1
    <3> QED  BY <1>6, <2>7, <3>2 DEF Credited
  <2>9. entry \subseteq Ids(new)  BY <1>1, <2>6, Known DEF EntryPeersActive
  <2> QED  BY <1>1, <1>2, <1>4, <1>5, <1>7, <1>a, <2>1, <2>6, <2>8, <2>9, Known, ListsStep
<1> QED  BY <1>8, <1>9

\* The number of active peers is noted, and forgotten with the answer.
LEMMA DiscoveryRequestKeeps == ASSUME DiscoveryInv, HandleDiscoveryRequest  PROVE DiscoveryInv'
<1> DEFINE g == [NoPacket EXCEPT !.at = "choose", !.added = Len(active)]
<1>1. /\ UNCHANGED <<active, replacements, entry, open, tasks, now, panic, running, store, asked>> /\ running
      /\ handler' = g
  BY DEF HandleDiscoveryRequest, HandlerAt
<1>2. NoPacket \in HandlerRecords /\ Len(active) \in Nat
  BY Known, NoPacketGood DEF HandlerGood, ActiveRings, Rings
<1>3. g \in HandlerRecords /\ g.at = "choose"  BY <1>2 DEF HandlerRecords
<1> HIDE DEF g
<1>4. HandlerGood(g, active)  BY <1>3 DEF HandlerGood, PeerSteps
<1>5. panic' \in Panics  BY <1>1 DEF DiscoveryInv, StatusInv
<1> QED  BY <1>1, <1>4, <1>5, HandlerStep

\* An answer to a discovery request, or the panic instead, changes no list and no request.
LEMMA AnswerDiscoveryKeeps == ASSUME DiscoveryInv, AnswerDiscovery  PROVE DiscoveryInv'
<1>1. /\ UNCHANGED <<active, replacements, entry, open, tasks, now, running, store, asked>> /\ running
      /\ handler' = NoPacket /\ panic' \in {panic, "shrunk"}
  BY DEF AnswerDiscovery, HandlerAt
<1>2. panic' \in Panics  BY <1>1 DEF DiscoveryInv, StatusInv, Panics
<1> QED  BY <1>1, <1>2, HandlerStep, NoPacketGood

\* A discovery response that is accepted hands its peers to the handler.
LEMMA DiscoveryResponseKeeps ==
  ASSUME DiscoveryInv, NEW id \in Peers, NEW hash, NEW n \in Nat, NEW named \in [1 .. n -> Peers],
         HandleDiscoveryResponse(id, hash, named)
  PROVE  DiscoveryInv'
<1> DEFINE key == <<id, "discovery">>
           o == Removed(open, "discovery", id)
           g == [at |-> IF named = <<>> THEN "finish" ELSE "add", response |-> TRUE,
                 peers |-> named, from |-> id, added |-> 0, tx |-> open[key].tx]
<1>1. /\ UNCHANGED <<active, replacements, entry, now, panic, running, store, asked>> /\ running
      /\ handler.at = "idle" /\ open' = o /\ key \in DOMAIN open
  BY DEF HandleDiscoveryResponse, HandlerAt
<1>2. o \in OpenRequests /\ \A q : Pending(o, q) <= Pending(open, q)  BY Known, OpenRemoved
<1> HIDE DEF o
<1>3. Credited(active, o, asked)  BY <1>2, Known, CreditGrows
<1>4. entry \subseteq Ids(active)  BY <1>1, Known DEF EntryPeersActive
<1>5. panic' \in Panics /\ \A p \in Peers : asked[p] <= asked'[p]
  BY <1>1, Known DEF DiscoveryInv, StatusInv
<1>6. tasks' \in TaskTables(Kinds) /\ HandlerGood(handler', active)
  <2>1. CASE Matches(id, "discovery", hash)
    <3>1. handler' = g /\ tasks' = tasks  BY <2>1 DEF HandleDiscoveryResponse
    <3>2. open[key] \in Requests
      <4>1. open \in [DOMAIN open -> Requests]  BY Known, OpenParts
      <4> QED  BY <1>1, <4>1
    <3>3. open[key].tx \in Tasks \cup {NoTask}  BY <3>2 DEF Requests
    <3>4. named \in Seq(Peers)  OBVIOUS
    <3>5. g \in HandlerRecords /\ g.peers = named /\ g.at \in {"finish", "add"}
          /\ (g.at = "add" => named # <<>>)
      <4> DEFINE tx == open[key].tx
                 at == IF named = <<>> THEN "finish" ELSE "add"
      <4>1. g = [at |-> at, response |-> TRUE, peers |-> named, from |-> id, added |-> 0, tx |-> tx]
        OBVIOUS
      <4>2. tx \in Tasks \cup {NoTask} /\ at \in {"finish", "add"} /\ (at = "add" => named # <<>>)  BY <3>3
      <4> HIDE DEF g, tx, at
      <4> QED  BY <3>4, <4>1, <4>2 DEF HandlerRecords, PeerSteps
    <3> HIDE DEF g
    <3>6. HandlerGood(g, active)  BY <3>5 DEF HandlerGood, PeerSteps
    <3> QED  BY <3>1, <3>6, Known
  <2>2. CASE ~Matches(id, "discovery", hash)
    <3>1. tasks' = Dropped(tasks, open, {key}) /\ handler' = handler  BY <2>2 DEF HandleDiscoveryResponse
    <3>2. Dropped(tasks, open, {key}) \in TaskTables(Kinds)  BY Known, TablesDropped
    <3> QED  BY <3>1, <3>2, Known
  <2> QED  BY <2>1, <2>2
<1> QED  BY <1>1, <1>2, <1>3, <1>4, <1>5, <1>6, Known, ListsStep

\* At the end of a discovery response its sender is credited with the new peers.
LEMMA FinishDiscoveryKeeps == ASSUME DiscoveryInv, FinishDiscovery  PROVE DiscoveryInv'
<1> DEFINE id == handler.from
           listed == id \in Ids(active)
           at == find_index(active, id)
<1>1. /\ UNCHANGED <<replacements, entry, open, now, running, store, asked>> /\ running
      /\ active' = IF listed THEN [active EXCEPT ![at].last_new_peers = handler.added] ELSE active
  BY DEF FinishDiscovery, HandlerAt
<1>2. tasks' \in TaskTables(Kinds) /\ panic' \in Panics /\ \A r : HandlerGood(handler', r)
  <2>1. CASE HandlerPanics("unlisted")  BY <2>1, PanicTasks DEF Panics
  <2>2. CASE HandlerPanics("late")  BY <2>2, PanicTasks DEF Panics
  <2>3. CASE tasks' = Notified(tasks, handler.tx) /\ handler' = NoPacket /\ UNCHANGED panic
    BY <2>3, Known, TablesNotified, NoPacketGood DEF DiscoveryInv, StatusInv
  <2> QED  BY <2>1, <2>2, <2>3 DEF FinishDiscovery
<1>3. \A p \in Peers : asked[p] <= asked'[p]  BY <1>1, Known
<1>4. entry \subseteq Ids(active)  BY <1>1, Known DEF EntryPeersActive
<1>5. CASE ~listed
  <2>1. active' = active  BY <1>1, <1>5
  <2> QED  BY <1>1, <1>2, <1>3, <1>4, <2>1, Known, ListsStep
<1>6. CASE listed
  <2> DEFINE k == handler.added
             x == [active[at] EXCEPT !.last_new_peers = k]
             new == [active EXCEPT ![at] = x]
  <2>1. active' = new  BY <1>1, <1>6
  <2>2. at \in 1 .. Len(active) /\ active[at].id = id  BY <1>6, Known, Sizes, RingIndex DEF ActiveRings
  <2> HIDE DEF at
  <2>3. active \in Seq(ActivePeers) /\ DOMAIN active = 1 .. Len(active) /\ active[at] \in ActivePeers
    BY <2>2, Known DEF ActiveRings, Rings
  <2>4. k \in Nat  BY Known DEF HandlerGood, HandlerRecords
  <2> HIDE DEF k
  <2>5. x \in ActivePeers /\ x.id = active[at].id /\ x.verified_count = active[at].verified_count
    <3> DEFINE y == active[at]
    <3>1. y \in ActivePeers /\ x = [y EXCEPT !.last_new_peers = k]  BY <2>3
    <3> HIDE DEF y, x
    <3>2. x \in ActivePeers /\ x.id = y.id /\ x.verified_count = y.verified_count
      BY <2>4, <3>1 DEF ActivePeers
    <3> QED  BY <3>2 DEF y
  <2> HIDE DEF x
  <2>6. new \in ActiveRings /\ Ids(new) = Ids(active)
    BY <2>2, <2>5, Known, Sizes, RingUpdated DEF ActiveRings
  <2>7. \A y \in ToSet(new) : y = x \/ y \in ToSet(active)
    <3>1. DOMAIN new = 1 .. Len(active) /\ \A i \in 1 .. Len(active) : new[i] = IF i = at THEN x ELSE active[i]
      BY <2>3
    <3>2. \A i \in 1 .. Len(active) : active[i] \in ToSet(active)  BY <2>3 DEF ToSet
    <3> HIDE DEF new
    <3> QED  BY <3>1, <3>2 DEF ToSet
  <2>8. active[at] \in ToSet(active)  BY <2>2, <2>3 DEF ToSet
  <2> HIDE DEF new
  <2>9. Credited(new, open, asked)  BY <2>5, <2>7, <2>8, Known DEF Credited
  <2> QED  BY <1>1, <1>2, <1>3, <1>4, <2>1, <2>6, <2>9, Known, ListsStep
<1> QED  BY <1>5, <1>6

-----------------------------------------------------------------------------
(***************************************************************************)
(* The timers and their tasks.                                             *)
(***************************************************************************)
\* The peer of a task that is under way.
LEMMA TaskParts ==
  ASSUME DiscoveryInv, NEW t \in Tasks, tasks[t].state \in TaskStates
  PROVE  tasks[t] \in TaskRecords(Kinds) /\ tasks[t].peer \in Peers /\ tasks[t].kind \in Kinds
<1>1. tasks[t] \in {Idle} \cup TaskRecords(Kinds)  BY Known DEF TaskTables
<1>2. Idle.state \notin TaskStates  BY DEF Idle, TaskStates
<1>3. tasks[t] \in TaskRecords(Kinds)  BY <1>1, <1>2
<1> QED  BY <1>3 DEF TaskRecords

\* A task makes place for another, or for none.
LEMMA TableReplaced ==
  ASSUME NEW kinds, NEW w \in TaskTables(kinds), NEW t \in Tasks, NEW x \in {Idle} \cup TaskRecords(kinds)
  PROVE  [w EXCEPT ![t] = x] \in TaskTables(kinds)
BY DEF TaskTables

\* A new task is a good one.
LEMMA SpawnedTask ==
  ASSUME NEW kind \in Kinds, NEW p \in Peers  PROVE Spawned(kind, p) \in TaskRecords(Kinds)
BY DEF Spawned, TaskRecords, TaskStates

\* The oldest active peer is given a task.
LEMMA ReverifyKeeps == ASSUME DiscoveryInv, NEW t \in Tasks, Reverify(t)  PROVE DiscoveryInv'
<1> DEFINE p == active[Len(active)].id
<1>1. /\ UNCHANGED <<active, replacements, entry, open, now, handler, panic, running, store, asked>>
      /\ active # <<>> /\ tasks' = [tasks EXCEPT ![t] = Spawned("verification", p)]
  BY DEF Reverify, Timer
<1>2. active \in Seq(ActivePeers)  BY Known DEF ActiveRings, Rings
<1>3. active[Len(active)] \in ActivePeers  BY <1>1, <1>2
<1>4. p \in Peers /\ "verification" \in Kinds  BY <1>3 DEF ActivePeers, Kinds
<1>5. Spawned("verification", p) \in TaskRecords(Kinds)  BY <1>4, SpawnedTask
<1>6. tasks' \in TaskTables(Kinds)  BY <1>1, <1>5, Known, TableReplaced
<1> QED  BY <1>1, <1>6, TasksStep

\* The selected peers are active ones.
LEMMA QueryKeeps == ASSUME DiscoveryInv, Query  PROVE DiscoveryInv'
<1>1. UNCHANGED <<active, replacements, entry, open, now, handler, panic, running, store, asked>>
  BY DEF Query, Timer
<1>2. PICK selected \in select_peers_to_query : \E spawned \in [selected -> Tasks] :
        tasks' = [t \in Tasks |->
                    IF \E p \in selected : spawned[p] = t
                    THEN Spawned("discovery", CHOOSE p \in selected : spawned[p] = t) ELSE tasks[t]]
  BY DEF Query
<1>3. PICK spawned :
        tasks' = [t \in Tasks |->
                    IF \E p \in selected : spawned[p] = t
                    THEN Spawned("discovery", CHOOSE p \in selected : spawned[p] = t) ELSE tasks[t]]
  BY <1>2
<1>4. selected \subseteq Peers
  <2>1. active \in Seq(ActivePeers)  BY Known DEF ActiveRings, Rings
  <2>2. \A i \in DOMAIN active : active[i].id \in Peers
    <3>1. \A i \in DOMAIN active : active[i] \in ActivePeers  BY <2>1
    <3> QED  BY <3>1 DEF ActivePeers
  <2> DEFINE V == get_verified_peers
  <2>3. V \subseteq DOMAIN active  BY DEF get_verified_peers
  <2>4. CASE Cardinality(V) < 3
    <3>1. selected = {active[i].id : i \in V}  BY <2>4 DEF select_peers_to_query
    <3> QED  BY <2>2, <2>3, <3>1
  <2>5. CASE ~(Cardinality(V) < 3)
    <3> DEFINE m == Min(V)
    <3>1. PICK i \in V : selected = {active[m].id, active[i].id}
      BY <2>5 DEF select_peers_to_query
    <3>2. m \in V
      <4>1. V \subseteq Int /\ IsFiniteSet(V)
        <5>1. DOMAIN active = 1 .. Len(active) /\ Len(active) \in Nat  BY <2>1
        <5>2. IsFiniteSet(DOMAIN active)  BY <5>1, FS_Interval
        <5> QED  BY <2>3, <5>1, <5>2, FS_Subset
      <4>2. V # {}  BY <3>1
      <4> HIDE DEF V
      <4> QED  BY <4>1, <4>2, MinIsElement
    <3> HIDE DEF m, V
    <3> QED  BY <2>2, <2>3, <3>1, <3>2
  <2> QED  BY <2>4, <2>5
<1>5. ASSUME NEW t \in Tasks
      PROVE  (IF \E p \in selected : spawned[p] = t
              THEN Spawned("discovery", CHOOSE p \in selected : spawned[p] = t) ELSE tasks[t])
               \in {Idle} \cup TaskRecords(Kinds)
  <2>1. CASE \E p \in selected : spawned[p] = t
    <3>1. (CHOOSE p \in selected : spawned[p] = t) \in Peers /\ "discovery" \in Kinds
      BY <1>4, <2>1 DEF Kinds
    <3> QED  BY <2>1, <3>1, SpawnedTask
  <2>2. CASE ~\E p \in selected : spawned[p] = t
    <3>1. tasks[t] \in {Idle} \cup TaskRecords(Kinds)  BY Known DEF TaskTables
    <3> QED  BY <2>2, <3>1
  <2> QED  BY <2>1, <2>2
<1>6. tasks' \in TaskTables(Kinds)  BY <1>3, <1>5 DEF TaskTables
<1> QED  BY <1>1, <1>6, TasksStep

\* A task asks its peer again: an open request to it is replaced, and it counts
\* as one more that was sent.
LEMMA BeginRequestKeeps == ASSUME DiscoveryInv, NEW t \in Tasks, BeginRequest(t)  PROVE DiscoveryInv'
<1> DEFINE id == tasks[t].peer
           kind == tasks[t].kind
           w == [tasks EXCEPT ![t].state = "waiting"]
           o == Created(open, kind, id, now, now, t)
           d == Dropped(w, open, {<<id, kind>>})
<1>1. UNCHANGED <<active, replacements, entry, now, handler, panic, running, store>> /\ running
      /\ tasks[t].state = "spawned"
  BY DEF BeginRequest
<1>2. tasks[t].state \in TaskStates /\ "waiting" \in TaskStates  BY <1>1 DEF TaskStates
<1>3. id \in Peers /\ kind \in Kinds  BY <1>2, TaskParts
<1>4. CASE id \notin Ids(active)
  <2>1. tasks' = [tasks EXCEPT ![t] = Idle] /\ UNCHANGED <<open, asked>>  BY <1>4 DEF BeginRequest
  <2>2. tasks' \in TaskTables(Kinds)  BY <2>1, Known, TableReplaced
  <2> QED  BY <1>1, <2>1, <2>2, TasksStep
<1>5. CASE id \in Ids(active)
  <2>1. open' = o /\ tasks' = d /\ asked' = IF kind = "verification" THEN Asked(id) ELSE asked
    BY <1>5 DEF BeginRequest, SendRequest
  <2>2. w \in TaskTables(Kinds)  BY <1>2, Known, TableSet
  <2> HIDE DEF w
  <2>3. d \in TaskTables(Kinds)  BY <2>2, TablesDropped
  <2> HIDE DEF d, id, kind
  <2>4. /\ o \in OpenRequests
        /\ \A q : (q # id \/ kind # "verification") => Pending(o, q) = Pending(open, q)
    BY <1>3, Known, OpenCreated
  <2> HIDE DEF o
  <2>5. /\ asked' \in [Peers -> Nat] /\ \A p \in Peers : asked[p] <= asked'[p]
        /\ Credited(active, o, asked')
    <3>1. CASE kind = "verification"
      <4>1. asked' = Asked(id)  BY <2>1, <3>1
      <4> QED  BY <1>3, <2>4, <4>1, Known, CreditAsked
    <3>2. CASE kind # "verification"
      <4>1. asked' = asked  BY <2>1, <3>2
      <4>2. \A q : Pending(o, q) = Pending(open, q)  BY <2>4, <3>2
      <4>3. Credited(active, o, asked)  BY <4>2, Known DEF Credited
      <4> QED  BY <4>1, <4>3, Known
    <3> QED  BY <3>1, <3>2
  <2>6. panic' \in Panics  BY <1>1 DEF DiscoveryInv, StatusInv
  <2>7. now' \in Nat  BY <1>1, Known
  <2> QED  BY <1>1, <2>1, <2>3, <2>4, <2>5, <2>6, <2>7, RequestsStep
<1> QED  BY <1>4, <1>5

\* A timeout closes the receiving half only.
LEMMA ResponseTimeoutKeeps ==
  ASSUME DiscoveryInv, NEW t \in Tasks, ResponseTimeout(t)  PROVE DiscoveryInv'
<1>1. /\ UNCHANGED <<active, replacements, entry, open, now, handler, panic, running, store, asked>>
      /\ tasks[t].state = "waiting" /\ tasks' = [tasks EXCEPT ![t].state = "late"]
  BY DEF ResponseTimeout, Timer
<1>2. tasks[t].state \in TaskStates /\ "late" \in TaskStates  BY <1>1 DEF TaskStates
<1>3. tasks' \in TaskTables(Kinds)  BY <1>1, <1>2, Known, TableSet
<1> QED  BY <1>1, <1>3, TasksStep

\* The request removed after a timeout may be another one: less is pending.
LEMMA RemoveLateRequestKeeps ==
  ASSUME DiscoveryInv, NEW t \in Tasks, RemoveLateRequest(t)  PROVE DiscoveryInv'
<1> DEFINE o == Removed(open, tasks[t].kind, tasks[t].peer)
           w == [tasks EXCEPT ![t].state = "failed"]
<1>1. /\ UNCHANGED <<active, replacements, entry, now, handler, panic, running, store, asked>> /\ running
      /\ tasks[t].state = "late" /\ open' = o
      /\ tasks' = Dropped(w, open, {<<tasks[t].peer, tasks[t].kind>>})
  BY DEF RemoveLateRequest
<1>2. tasks[t].state \in TaskStates /\ "failed" \in TaskStates  BY <1>1 DEF TaskStates
<1>3. w \in TaskTables(Kinds)  BY <1>2, Known, TableSet
<1> HIDE DEF w
<1>4. tasks' \in TaskTables(Kinds)  BY <1>1, <1>3, TablesDropped
<1>5. o \in OpenRequests /\ \A q : Pending(o, q) <= Pending(open, q)  BY Known, OpenRemoved
<1> HIDE DEF o
<1>6. Credited(active, o, asked)  BY <1>5, Known, CreditGrows
<1>7. panic' \in Panics /\ now' \in Nat  BY <1>1, Known DEF DiscoveryInv, StatusInv
<1>8. asked' \in [Peers -> Nat] /\ \A p \in Peers : asked[p] <= asked'[p]  BY <1>1, Known
<1> QED  BY <1>1, <1>4, <1>5, <1>6, <1>7, <1>8, RequestsStep

\* A task that was answered ends, one that failed goes on to the removal.
LEMMA EndRequestKeeps == ASSUME DiscoveryInv, NEW t \in Tasks, EndRequest(t)  PROVE DiscoveryInv'
<1> DEFINE x == IF tasks[t].kind = "verification" /\ tasks[t].state = "closed"
                THEN [tasks[t] EXCEPT !.state = "failed"] ELSE Idle
<1>1. /\ UNCHANGED <<active, replacements, entry, open, now, handler, panic, running, store, asked>>
      /\ tasks[t].state \in {"answered", "closed"}
  BY DEF EndRequest, Timer
<1>2. tasks' = [tasks EXCEPT ![t] = x]  BY DEF EndRequest
<1>3. tasks[t] \in TaskRecords(Kinds)  BY <1>1, TaskParts DEF TaskStates
<1>4. [tasks[t] EXCEPT !.state = "failed"] \in TaskRecords(Kinds)
  BY <1>3 DEF TaskRecords, TaskStates
<1>5. x \in {Idle} \cup TaskRecords(Kinds)  BY <1>4
<1> HIDE DEF x
<1>6. tasks' \in TaskTables(Kinds)  BY <1>2, <1>5, Known, TableReplaced
<1> QED  BY <1>1, <1>6, TasksStep

\* Requests that expire are no longer pending.
LEMMA DiscoveryTickKeeps == ASSUME DiscoveryInv, DiscoveryTick  PROVE DiscoveryInv'
<1> DEFINE o == Unexpired(open, now + 1)
<1>1. UNCHANGED <<active, replacements, entry, tasks, handler, panic, running, store, asked>>
      /\ now' = now + 1 /\ open' = o
  BY DEF DiscoveryTick
<1>2. o \in OpenRequests /\ \A q : Pending(o, q) <= Pending(open, q)
  BY Known, OpenOnly DEF Unexpired
<1>3. DOMAIN open = {} => DOMAIN o = {}  BY DEF Unexpired, Only
<1> HIDE DEF o
<1>4. Credited(active, o, asked)  BY <1>2, Known, CreditGrows
<1>5. ~running => DOMAIN o = {}  BY <1>3 DEF DiscoveryInv, RequestsInv
<1>6. panic' \in Panics /\ now' \in Nat  BY <1>1, Known DEF DiscoveryInv, StatusInv
<1>7. asked' \in [Peers -> Nat] /\ \A p \in Peers : asked[p] <= asked'[p]  BY <1>1, Known
<1>8. tasks' \in TaskTables(Kinds)  BY <1>1, Known
<1> QED  BY <1>1, <1>2, <1>4, <1>5, <1>6, <1>7, <1>8, RequestsStep

\* A peer that did not verify itself leaves the list, unless it is an entry
\* peer: that one comes back in front, in a list with room for it.
LEMMA RemovePeerKeeps == ASSUME DiscoveryInv, NEW t \in Tasks, RemovePeer(t)  PROVE DiscoveryInv'
<1> DEFINE id == tasks[t].peer
           rest == RingRemove(active, id)
<1>1. /\ UNCHANGED <<entry, open, now, handler, panic, running, store, asked>> /\ running
      /\ remove_peer(id) /\ tasks' = [tasks EXCEPT ![t] = Idle]
  BY DEF RemovePeer
<1>2. tasks' \in TaskTables(Kinds)  BY <1>1, Known, TableReplaced
<1> HIDE DEF id
<1>3. panic' \in Panics /\ open' \in OpenRequests /\ asked' \in [Peers -> Nat]
      /\ \A p \in Peers : asked[p] <= asked'[p]
  BY <1>1, Known DEF DiscoveryInv, StatusInv
<1>4. entry \subseteq Ids(active)  BY <1>1, Known DEF EntryPeersActive
<1>a. Len(active) \in Nat /\ DEFAULT_MAX_MANAGED \in Nat  BY Known, Sizes DEF ActiveRings, Rings
<1>b. ASSUME NEW r \in ActiveRings, Len(r) <= Len(active)  PROVE HandlerGood(handler', r)
  <2>1. Len(r) \in Nat /\ handler' = handler  BY <1>1, <1>b DEF ActiveRings, Rings
  <2>2. HandlerGood(handler, active)  BY Known
  <2> QED  BY <1>a, <1>b, <2>1, <2>2 DEF HandlerGood
<1>5. CASE id \notin Ids(active)
  <2>1. UNCHANGED <<active, replacements>>  BY <1>1, <1>5 DEF remove_peer
  <2> QED  BY <1>1, <1>2, <2>1, TasksStep
<1>6. CASE id \in Ids(active)
  <2>1. /\ rest \in ActiveRings /\ ToSet(rest) \subseteq ToSet(active) /\ Ids(rest) = Ids(active) \ {id}
        /\ Len(rest) = Len(active) - 1
    BY <1>6, Known, Sizes, RingRemoveGood DEF ActiveRings
  <2>2. Len(rest) < DEFAULT_MAX_MANAGED
    <3>1. Len(active) \in Nat /\ Len(active) <= DEFAULT_MAX_MANAGED  BY Known DEF ActiveRings, Rings
    <3> QED  BY <2>1, <3>1, Sizes
  <2> HIDE DEF rest
  \* Where a peer without verification is put in front of the rest.
  <2>3. ASSUME NEW x \in ActivePeers, x.verified_count = 0
        PROVE  LET r == RingInsert(rest, x, DEFAULT_MAX_MANAGED) IN
               /\ r \in ActiveRings /\ Ids(r) = (Ids(active) \ {id}) \cup {x.id}
               /\ Credited(r, open, asked) /\ HandlerGood(handler', r)
    <3> DEFINE r == RingInsert(rest, x, DEFAULT_MAX_MANAGED)
    <3>1. /\ r \in ActiveRings /\ ToSet(r) \subseteq ToSet(rest) \cup {x} /\ Ids(r) = Ids(rest) \cup {x.id}
          /\ Len(r) <= Len(rest) + 1
      BY <2>1, <2>2, <2>3, Sizes, RingInsertGood DEF ActiveRings
    <3> HIDE DEF r
    <3>2. Credited(r, open, asked)  BY <2>1, <2>3, <3>1, Known, CreditNew
    <3>3. Len(r) <= Len(active)
      <4>1. Len(r) \in Nat  BY <3>1 DEF ActiveRings, Rings
      <4> QED  BY <1>a, <2>1, <3>1, <4>1
    <3>4. HandlerGood(handler', r)  BY <1>b, <3>1, <3>3
    <3> QED  BY <2>1, <3>1, <3>2, <3>4 DEF r
  <2>4. CASE id \in entry
    <3> DEFINE k == find_index(active, id)
               x == [active[k] EXCEPT !.verified_count = 0]
               r == RingInsert(rest, x, DEFAULT_MAX_MANAGED)
    <3>1. active' = r /\ UNCHANGED replacements  BY <1>1, <1>6, <2>4 DEF remove_peer, rest
    <3>2. k \in 1 .. Len(active) /\ active[k].id = id  BY <1>6, Known, Sizes, RingIndex DEF ActiveRings
    <3>3. active[k] \in ActivePeers  BY <3>2, Known DEF ActiveRings, Rings
    <3> HIDE DEF k
    <3>4. x \in ActivePeers /\ x.id = id /\ x.verified_count = 0  BY <3>2, <3>3 DEF ActivePeers
    <3> HIDE DEF x
    <3>5. r \in ActiveRings /\ Ids(r) = (Ids(active) \ {id}) \cup {id} /\ Credited(r, open, asked)
          /\ HandlerGood(handler', r)
      BY <2>3, <3>4
    <3>6. Ids(r) = Ids(active)  BY <1>6, <3>5
    <3> HIDE DEF r
    <3> QED  BY <1>1, <1>2, <1>3, <1>4, <3>1, <3>5, <3>6, Known, ListsStep
  <2>5. CASE id \notin entry /\ replacements = <<>>
    <3>1. active' = rest /\ UNCHANGED replacements  BY <1>1, <1>6, <2>5 DEF remove_peer, rest
    <3>2. Credited(rest, open, asked)  BY <2>1, Known, CreditNew
    <3>3. entry \subseteq Ids(rest) /\ HandlerGood(handler', rest)
      <4>1. Len(rest) <= Len(active)  BY <1>a, <2>1
      <4> QED  BY <1>4, <1>b, <2>1, <2>5, <4>1
    <3> QED  BY <1>1, <1>2, <1>3, <2>1, <3>1, <3>2, <3>3, Known, ListsStep
  <2>6. CASE id \notin entry /\ replacements # <<>>
    <3>1. PICK i \in DOMAIN replacements :
            /\ active' = RingInsert(rest, ActivePeer(replacements[i].id), DEFAULT_MAX_MANAGED)
            /\ replacements' = RemoveAt(replacements, i)
      BY <1>1, <1>6, <2>6 DEF remove_peer, remove_at, rest
    <3> DEFINE x == ActivePeer(replacements[i].id)
               r == RingInsert(rest, x, DEFAULT_MAX_MANAGED)
               b == RemoveAt(replacements, i)
    <3>2. i \in 1 .. Len(replacements) /\ replacements[i] \in ReplacementPeers
          /\ replacements[i].id \in Ids(replacements)
      BY Known DEF ReplacementRings, Rings, Ids
    <3>3. replacements[i].id \in Peers  BY <3>2 DEF ReplacementPeers
    <3>4. x \in ActivePeers /\ x.id = replacements[i].id /\ x.verified_count = 0
      BY <3>3 DEF ActivePeer, ActivePeers
    <3>5. b \in ReplacementRings /\ Ids(b) = Ids(replacements) \ {x.id}
      BY <3>2, <3>4, Known, Sizes, RingRemoveAt DEF ReplacementRings
    <3> HIDE DEF x
    <3>6. r \in ActiveRings /\ Ids(r) = (Ids(active) \ {id}) \cup {x.id} /\ Credited(r, open, asked)
          /\ HandlerGood(handler', r)
      BY <2>3, <3>4
    <3>7. active' = r /\ replacements' = b  BY <3>1 DEF x
    <3> HIDE DEF r, b
    <3>8. entry \subseteq Ids(r)  BY <1>4, <2>6, <3>6
    <3> QED  BY <1>1, <1>2, <1>3, <3>5, <3>6, <3>7, <3>8, Known, ListsStep
  <2> QED  BY <2>4, <2>5, <2>6
<1> QED  BY <1>5, <1>6

-----------------------------------------------------------------------------
\* The invariant of discovery holds at first.
LEMMA DiscoveryInvInit == ASSUME DiscoveryInit  PROVE DiscoveryInv
<1>1. ListsInv  BY EmptyRings DEF DiscoveryInit, ListsInv, EntryPeersActive
<1>2. RequestsInv  BY EmptyRings DEF DiscoveryInit, RequestsInv, TaskTables
<1>3. CreditInv
  <2>1. \A p : Pending(<<>>, p) = 0  BY EmptyRings DEF Pending
  <2>2. asked \in [Peers -> Nat] /\ active = <<>> /\ open = <<>>  BY DEF DiscoveryInit
  <2>3. Credited(<<>>, <<>>, asked)  BY <2>1, <2>2, EmptyRings DEF Credited
  <2> QED  BY <2>2, <2>3 DEF CreditInv
<1>4. StoreInv  BY FS_EmptySet DEF DiscoveryInit, StoreInv, EmptyStore
<1>5. StatusInv  BY DEF DiscoveryInit, StatusInv, Panics
<1>6. HandlerInv  BY NoPacketGood DEF DiscoveryInit, HandlerInv
<1> QED  BY <1>1, <1>2, <1>3, <1>4, <1>5, <1>6 DEF DiscoveryInv

\* Every step of discovery keeps the invariant.
LEMMA DiscoveryInvStep == ASSUME DiscoveryInv, [DiscoveryNext]_discoveryVars  PROVE DiscoveryInv'
<1>1. CASE UNCHANGED discoveryVars
  <2>1. UNCHANGED <<active, replacements, entry, open, now, handler, panic, running, store, asked>>
        /\ tasks' = tasks
    BY <1>1 DEF discoveryVars
  <2>2. tasks' \in TaskTables(Kinds)  BY <2>1, Known
  <2> QED  BY <2>1, <2>2, TasksStep
<1>2. CASE StartDiscovery  BY <1>2, StartKeeps
<1>3. CASE StopDiscovery  BY <1>3, StopKeeps
<1>4. CASE DiscoveryRecv
  <2>3. CASE HandleDiscoveryRequest  BY <2>3, DiscoveryRequestKeeps
  <2> SUFFICES ASSUME ~HandleDiscoveryRequest  PROVE DiscoveryInv'  BY <2>3
  <2>1. PICK id \in Peers :
          \/ HandleVerificationRequest(id)
          \/ \E hash, serves : HandleVerificationResponse(id, hash, serves)
          \/ \E hash : \E named \in SeqOf(Peers, MAX_PEERS_IN_RESPONSE) : HandleDiscoveryResponse(id, hash, named)
    BY <1>4 DEF DiscoveryRecv
  <2>2. CASE HandleVerificationRequest(id)  BY <2>2, VerificationRequestKeeps
  <2>4. CASE \E hash, serves : HandleVerificationResponse(id, hash, serves)
    BY <2>4, VerificationResponseKeeps
  <2>5. CASE \E hash : \E named \in SeqOf(Peers, MAX_PEERS_IN_RESPONSE) : HandleDiscoveryResponse(id, hash, named)
    <3>1. PICK hash : \E named \in SeqOf(Peers, MAX_PEERS_IN_RESPONSE) : HandleDiscoveryResponse(id, hash, named)
      BY <2>5
    <3>2. PICK named \in SeqOf(Peers, MAX_PEERS_IN_RESPONSE) : HandleDiscoveryResponse(id, hash, named)
      BY <3>1
    <3>3. PICK n \in 0 .. MAX_PEERS_IN_RESPONSE : named \in [1 .. n -> Peers]  BY DEF SeqOf
    <3>4. n \in Nat  BY <3>3
    <3> QED  BY <3>2, <3>3, <3>4, DiscoveryResponseKeeps
  <2> QED  BY <2>1, <2>2, <2>4, <2>5
<1>5. CASE Query  BY <1>5, QueryKeeps
<1>6. CASE DiscoveryTick  BY <1>6, DiscoveryTickKeeps
<1>7. ASSUME NEW t \in Tasks, Reverify(t)  PROVE DiscoveryInv'  BY <1>7, ReverifyKeeps
<1>8. ASSUME NEW t \in Tasks, BeginRequest(t)  PROVE DiscoveryInv'  BY <1>8, BeginRequestKeeps
<1>9. ASSUME NEW t \in Tasks, ResponseTimeout(t)  PROVE DiscoveryInv'  BY <1>9, ResponseTimeoutKeeps
<1>10. ASSUME NEW t \in Tasks, RemoveLateRequest(t)  PROVE DiscoveryInv'
  BY <1>10, RemoveLateRequestKeeps
<1>11. ASSUME NEW t \in Tasks, EndRequest(t)  PROVE DiscoveryInv'  BY <1>11, EndRequestKeeps
<1>12. ASSUME NEW t \in Tasks, RemovePeer(t)  PROVE DiscoveryInv'  BY <1>12, RemovePeerKeeps
<1>13. CASE DiscoveryHandler
  BY <1>13, LookUpKeeps, IsFullKeeps, InsertActiveKeeps, InsertReplacementKeeps, SendVerificationKeeps,
     AnswerDiscoveryKeeps, FinishDiscoveryKeeps DEF DiscoveryHandler
<1> QED
  BY <1>1, <1>2, <1>3, <1>4, <1>5, <1>6, <1>7, <1>8, <1>9, <1>10, <1>11, <1>12, <1>13 DEF DiscoveryNext

\* What the invariant of discovery implies.
LEMMA DiscoveryInvSound == ASSUME DiscoveryInv  PROVE DiscoverySound
<1>1. /\ Len(active) <= DEFAULT_MAX_MANAGED /\ Len(replacements) <= DEFAULT_MAX_REPLACEMENTS
      /\ active \in Seq(ActivePeers)
  BY Known DEF ActiveRings, ReplacementRings, Rings
<1>2. Cardinality(Ids(active)) = Len(active) /\ Cardinality(Ids(replacements)) = Len(replacements)
  BY Known, Sizes, RingCardinality DEF ActiveRings, ReplacementRings
<1>3. DOMAIN open \subseteq Peers \X {"verification", "discovery"}  BY Known, OpenParts DEF Kinds
<1>4. \A t \in Tasks : tasks[t] = Idle \/ tasks[t].state \in TaskStates
  <2>1. \A t \in Tasks : tasks[t] \in {Idle} \cup TaskRecords(Kinds)  BY Known DEF TaskTables
  <2> QED  BY <2>1 DEF TaskRecords
<1>5. DiscoveryTypeOK
  BY <1>1, <1>2, <1>3, <1>4, Known DEF DiscoveryTypeOK, DiscoveryInv, StatusInv, Panics
<1>6. VerifiedOncePerRequest
  <2> SUFFICES ASSUME NEW i \in DOMAIN active  PROVE active[i].verified_count <= asked[active[i].id]
    BY DEF VerifiedOncePerRequest
  <2>1. active[i] \in ActivePeers /\ active[i] \in ToSet(active)  BY <1>1 DEF ToSet
  <2>2. active[i].verified_count + Pending(open, active[i].id) <= asked[active[i].id]
    BY <2>1, Known DEF Credited
  <2>3. active[i].verified_count \in Nat /\ asked[active[i].id] \in Nat
        /\ Pending(open, active[i].id) \in Nat
    BY <2>1, Known DEF ActivePeers, Pending
  <2> QED  BY <2>2, <2>3
<1> QED  BY <1>5, <1>6, Known DEF DiscoverySound

\* Whatever answers arrive late, twice or never, and whatever peers are removed
\* between two locks of the receive handler, the lists of discovery stay within
\* their bounds and without repetition, entry peers stay active, and no peer is
\* verified more often than it was asked, over any number of runs
\* (DiscoveryManager, RequestManager, the peer store).
THEOREM DiscoveryStaysSound == DiscoverySpec => []DiscoverySound
<1>1. DiscoveryInit => DiscoveryInv  BY DiscoveryInvInit
<1>2. DiscoveryInv /\ [DiscoveryNext]_discoveryVars => DiscoveryInv'  BY DiscoveryInvStep
<1>3. DiscoveryInv => DiscoverySound  BY DiscoveryInvSound
<1> QED  BY <1>1, <1>2, <1>3, PTL DEF DiscoverySpec

-----------------------------------------------------------------------------
(***************************************************************************)
(* Neighbourhoods.                                                         *)
(***************************************************************************)
IsNeighborhood(nbh, size) ==
  /\ DOMAIN nbh \subseteq Peers /\ IsFiniteSet(DOMAIN nbh)
  /\ Cardinality(DOMAIN nbh) <= size

\* What is left of a neighbourhood, and what it is with one more neighbour.
Reduced(new, nbh, ids, size) ==
  /\ IsNeighborhood(new, size)
  /\ DOMAIN new = DOMAIN nbh \ ids
  /\ \A p \in DOMAIN new : new[p] = nbh[p]

Extended(new, nbh, size, p, distance) ==
  /\ IsNeighborhood(new, size)
  /\ \A q \in DOMAIN new : q # p => q \in DOMAIN nbh /\ new[q] = nbh[q]
  /\ \/ DOMAIN new = DOMAIN nbh \cup {p} /\ new[p] = distance
     \/ DOMAIN new = DOMAIN nbh /\ p \notin DOMAIN nbh /\ Full(nbh, size)

\* Neighbours are removed.
LEMMA NeighborhoodWithout ==
  ASSUME NEW nbh, NEW size \in Nat, IsNeighborhood(nbh, size), NEW ids
  PROVE  Reduced(Without(nbh, ids), nbh, ids, size)
<1>1. DOMAIN Without(nbh, ids) = DOMAIN nbh \ ids  BY DEF Without
<1>2. \A p \in DOMAIN nbh \ ids : Without(nbh, ids)[p] = nbh[p]  BY DEF Without
<1>3. DOMAIN nbh \subseteq Peers /\ IsFiniteSet(DOMAIN nbh) /\ Cardinality(DOMAIN nbh) <= size
  BY DEF IsNeighborhood
<1> DEFINE D == DOMAIN nbh
           R == D \ ids
<1>4. R \subseteq D /\ IsFiniteSet(D)  BY <1>3
<1> HIDE DEF D, R
<1>5. IsFiniteSet(R) /\ Cardinality(R) <= Cardinality(D)
  BY <1>4, FS_Subset
<1>6. Cardinality(R) \in Nat /\ Cardinality(D) \in Nat  BY <1>4, <1>5, FS_CardinalityType
<1>7. Cardinality(R) <= size  BY <1>3, <1>5, <1>6 DEF D
<1> QED  BY <1>1, <1>2, <1>3, <1>5, <1>6, <1>7 DEF Reduced, IsNeighborhood, D, R

\* One neighbour less leaves room.
LEMMA NeighborhoodLeaves ==
  ASSUME NEW nbh, NEW size \in Nat \ {0}, IsNeighborhood(nbh, size), NEW p \in DOMAIN nbh
  PROVE  ~ Full(Without(nbh, {p}), size)
<1>1. DOMAIN Without(nbh, {p}) = DOMAIN nbh \ {p}  BY DEF Without
<1> DEFINE D == DOMAIN nbh
<1>2. IsFiniteSet(D) /\ Cardinality(D) <= size /\ p \in D  BY DEF IsNeighborhood
<1> HIDE DEF D
<1>3. Cardinality(D \ {p}) = Cardinality(D) - 1 /\ Cardinality(D) \in Nat
  BY <1>2, FS_RemoveElement, FS_CardinalityType
<1>4. ~ (Cardinality(D \ {p}) >= size)  BY <1>2, <1>3
<1> QED  BY <1>1, <1>4 DEF Full, D

\* A neighbour is inserted, or there was no room for a new one.
LEMMA NeighborhoodInsert ==
  ASSUME NEW nbh, NEW size \in Nat \ {0}, IsNeighborhood(nbh, size), NEW p \in Peers, NEW distance
  PROVE  Extended(insert_neighbor(nbh, size, p, distance), nbh, size, p, distance)
<1> DEFINE rest == Without(nbh, {p})
           new == insert_neighbor(nbh, size, p, distance)
<1>1. /\ IsNeighborhood(rest, size) /\ DOMAIN rest = DOMAIN nbh \ {p}
      /\ \A q \in DOMAIN nbh \ {p} : rest[q] = nbh[q]
  <2>1. size \in Nat  OBVIOUS
  <2>2. Reduced(rest, nbh, {p}, size)  BY <2>1, NeighborhoodWithout
  <2> HIDE DEF rest
  <2> QED  BY <2>2 DEF Reduced
<1>2. CASE Full(rest, size)
  <2>1. new = rest  BY <1>2 DEF insert_neighbor
  <2>2. p \notin DOMAIN nbh  BY <1>2, NeighborhoodLeaves
  <2>3. DOMAIN rest = DOMAIN nbh  BY <1>1, <2>2
  <2>4. Full(nbh, size)  BY <1>2, <2>3 DEF Full
  <2> HIDE DEF new, rest
  <2>5. Extended(new, nbh, size, p, distance)  BY <1>1, <2>1, <2>2, <2>3, <2>4 DEF Extended
  <2> QED  BY <2>5 DEF new
<1>3. CASE ~ Full(rest, size)
  <2>1. new = With(rest, p, distance)  BY <1>3 DEF insert_neighbor
  <2> HIDE DEF new, rest
  <2>2. DOMAIN new = DOMAIN rest \cup {p} /\ new[p] = distance
        /\ \A q \in DOMAIN rest : q # p => new[q] = rest[q]
    BY <2>1 DEF With
  <2>3. DOMAIN new = DOMAIN nbh \cup {p}  BY <1>1, <2>2
  <2>4. \A q \in DOMAIN new : q # p => q \in DOMAIN nbh /\ new[q] = nbh[q]
    BY <1>1, <2>2
  <2>5. IsNeighborhood(new, size)
    <3> DEFINE R == DOMAIN rest
    <3>1. IsFiniteSet(R) /\ R \subseteq Peers /\ p \notin R  BY <1>1 DEF IsNeighborhood
    <3>2. ~ (Cardinality(R) >= size)  BY <1>3 DEF Full
    <3>3. DOMAIN new = R \cup {p}  BY <2>2
    <3> HIDE DEF R
    <3>4. /\ IsFiniteSet(R \cup {p}) /\ Cardinality(R \cup {p}) = Cardinality(R) + 1
          /\ Cardinality(R) \in Nat
      BY <3>1, FS_AddElement, FS_CardinalityType
    <3>5. Cardinality(R \cup {p}) <= size  BY <3>2, <3>4
    <3> QED  BY <3>1, <3>3, <3>4, <3>5 DEF IsNeighborhood
  <2>6. Extended(new, nbh, size, p, distance)  BY <2>2, <2>3, <2>4, <2>5 DEF Extended
  <2> QED  BY <2>6 DEF new
<1> QED  BY <1>2, <1>3

-----------------------------------------------------------------------------
(***************************************************************************)
(* The invariant of peering.  Between two locks update_salts leaves one    *)
(* neighbourhood with its old distances, so that DistancesCurrent alone    *)
(* says nothing of the steps in between.                                   *)
(***************************************************************************)
PeeringTasks == TaskRecords({"peering"})

NeighborsInv ==
  /\ IsNeighborhood(inbound, SIZE_INBOUND) /\ IsNeighborhood(outbound, SIZE_OUTBOUND)
  /\ InOutDisjoint /\ NeighborsPublished
  /\ neighbors \subseteq Peers

RejectedInv == rejected \subseteq Peers

DistancesInv ==
  /\ salt_step \in {"idle", "drop", "inbound", "outbound", "filter"}
  /\ salt_step = "drop" => drop_neighbors_on_salt_update
  /\ salt_step \notin {"drop", "inbound"} =>
       \A p \in DOMAIN inbound : inbound[p] = SaltDistance[private_salt][p]
  /\ salt_step \in {"filter", "idle"} =>
       \A p \in DOMAIN outbound : outbound[p] = SaltDistance[public_salt][p]

TasksInv ==
  /\ ptasks \in [Tasks -> {Idle} \cup PeeringTasks]
  /\ DOMAIN prequests \subseteq Peers \X {"peering"}
  /\ \A k \in DOMAIN prequests : prequests[k].tx \in Tasks

PeeringInv == NeighborsInv /\ RejectedInv /\ DistancesInv /\ TasksInv

\* Closing channels, removing and adding requests, and tasks that go on.
LEMMA TasksDropped ==
  ASSUME NEW P \in [Tasks -> {Idle} \cup PeeringTasks], NEW o, NEW keys
  PROVE  Dropped(P, o, keys) \in [Tasks -> {Idle} \cup PeeringTasks]
BY TablesDropped DEF PeeringTasks, TaskTables

\* Requests that are dropped leave well-formed ones.
LEMMA RequestsRemoved ==
  ASSUME NEW o, DOMAIN o \subseteq Peers \X {"peering"},
         \A k \in DOMAIN o : o[k].tx \in Tasks, NEW keys
  PROVE  /\ DOMAIN Only(o, keys) \subseteq Peers \X {"peering"}
         /\ \A k \in DOMAIN Only(o, keys) : Only(o, keys)[k].tx \in Tasks
BY DEF Only

\* A new request is well-formed.
LEMMA RequestsCreated ==
  ASSUME NEW o, DOMAIN o \subseteq Peers \X {"peering"},
         \A k \in DOMAIN o : o[k].tx \in Tasks,
         NEW p \in Peers, NEW hash, NEW time, NEW t \in Tasks
  PROVE  LET new == Created(o, "peering", p, hash, time, t) IN
         DOMAIN new \subseteq Peers \X {"peering"} /\ \A k \in DOMAIN new : new[k].tx \in Tasks
<1> DEFINE r == [hash |-> hash, issue_time |-> time, tx |-> t]
           key == <<p, "peering">>
<1>1. r.tx = t  OBVIOUS
<1>2. key \in Peers \X {"peering"}  OBVIOUS
<1>3. Created(o, "peering", p, hash, time, t) = With(o, key, r)  BY DEF Created
<1> HIDE DEF r, key
<1>4. DOMAIN With(o, key, r) = DOMAIN o \cup {key}
      /\ \A k \in DOMAIN o \cup {key} : With(o, key, r)[k] = IF k = key THEN r ELSE o[k]
  BY DEF With
<1> QED  BY <1>1, <1>2, <1>3, <1>4

\* A peering task goes on to another state.
LEMMA TaskSet ==
  ASSUME NEW P \in [Tasks -> {Idle} \cup PeeringTasks], NEW t \in Tasks, NEW s \in TaskStates,
         P[t].state \in TaskStates
  PROVE  [P EXCEPT ![t].state = s] \in [Tasks -> {Idle} \cup PeeringTasks]
BY TableSet DEF PeeringTasks, TaskTables

\* The inductive invariant holds at first.
LEMMA PeeringInitially == ASSUME PeeringInit  PROVE PeeringInv
<1>1. DOMAIN <<>> = {} /\ IsFiniteSet({}) /\ Cardinality({}) = 0  BY FS_EmptySet
<1>2. /\ inbound = <<>> /\ outbound = <<>> /\ rejected = {} /\ salt_step = "idle"
      /\ prequests = <<>> /\ ptasks = [t \in Tasks |-> Idle] /\ neighbors = {}
  BY DEF PeeringInit
<1>3. \A size \in Nat : IsNeighborhood(<<>>, size)  BY <1>1 DEF IsNeighborhood
<1>4. NeighborsInv
  BY <1>1, <1>2, <1>3, PeeringAssumption DEF NeighborsInv, InOutDisjoint, NeighborsPublished
<1>5. RejectedInv /\ DistancesInv  BY <1>1, <1>2 DEF RejectedInv, DistancesInv
<1>6. TasksInv  BY <1>1, <1>2 DEF TasksInv
<1> QED  BY <1>4, <1>5, <1>6 DEF PeeringInv

\* A request of a peer: the furthest inbound neighbour makes room for it.
LEMMA PeeringRequestKeeps ==
  ASSUME PeeringInv, NEW p \in Peers, HandlePeeringRequest(p)  PROVE PeeringInv'
<1> DEFINE distance == SaltDistance[private_salt][p]
<1>1. UNCHANGED <<drop_neighbors_on_salt_update, private_salt, public_salt, salt_step, outbound,
                  prequests, ptasks>>
  BY DEF HandlePeeringRequest, Handler
<1>2. \/ UNCHANGED <<inbound, rejected, neighbors>>
      \/ /\ p \notin DOMAIN inbound \cup DOMAIN outbound
         /\ \E dropped \in IF Full(inbound, SIZE_INBOUND)
                           THEN {{q} : q \in Furthest(inbound)} ELSE {{}} :
              /\ inbound' = insert_neighbor(Without(inbound, dropped), SIZE_INBOUND, p, distance)
              /\ rejected' = rejected \cup {p}
              /\ neighbors' = drop_peering(dropped) \cup {p}
  BY DEF HandlePeeringRequest, is_neighbor
<1>3. CASE UNCHANGED <<inbound, rejected, neighbors>>
  BY <1>1, <1>3 DEF PeeringInv, NeighborsInv, RejectedInv, DistancesInv, TasksInv, InOutDisjoint,
                    NeighborsPublished
<1>4. ASSUME p \notin DOMAIN inbound \cup DOMAIN outbound,
             NEW dropped \in IF Full(inbound, SIZE_INBOUND)
                             THEN {{q} : q \in Furthest(inbound)} ELSE {{}},
             inbound' = insert_neighbor(Without(inbound, dropped), SIZE_INBOUND, p, distance),
             rejected' = rejected \cup {p}, neighbors' = drop_peering(dropped) \cup {p}
      PROVE  PeeringInv'
  <2> DEFINE kept == Without(inbound, dropped)
  <2>1. /\ IsNeighborhood(inbound, SIZE_INBOUND) /\ IsNeighborhood(outbound, SIZE_OUTBOUND)
        /\ DOMAIN inbound \cap DOMAIN outbound = {} /\ neighbors \subseteq Peers
        /\ ~ drop_neighbors_on_salt_update => neighbors = DOMAIN inbound \cup DOMAIN outbound
        /\ SIZE_INBOUND \in Nat \ {0} /\ SIZE_INBOUND \in Nat
    BY PeeringAssumption DEF PeeringInv, NeighborsInv, InOutDisjoint, NeighborsPublished
  <2>2. dropped \subseteq DOMAIN inbound  BY <1>4 DEF Furthest
  <2>3. /\ IsNeighborhood(kept, SIZE_INBOUND) /\ DOMAIN kept = DOMAIN inbound \ dropped
        /\ \A q \in DOMAIN kept : kept[q] = inbound[q]
    <3>1. Reduced(kept, inbound, dropped, SIZE_INBOUND)  BY <2>1, NeighborhoodWithout
    <3> HIDE DEF kept
    <3> QED  BY <3>1 DEF Reduced
  <2>4. ~ Full(kept, SIZE_INBOUND)
    <3>1. CASE Full(inbound, SIZE_INBOUND)
      <4>1. PICK q \in Furthest(inbound) : dropped = {q}  BY <1>4, <3>1
      <4>2. q \in DOMAIN inbound  BY DEF Furthest
      <4> QED  BY <2>1, <4>1, <4>2, NeighborhoodLeaves
    <3>2. CASE ~ Full(inbound, SIZE_INBOUND)
      <4>1. dropped = {}  BY <1>4, <3>2
      <4>2. DOMAIN kept = DOMAIN inbound  BY <2>3, <4>1
      <4> QED  BY <3>2, <4>2 DEF Full
    <3> QED  BY <3>1, <3>2
  <2> HIDE DEF kept, distance
  <2>5. /\ IsNeighborhood(inbound', SIZE_INBOUND)
        /\ DOMAIN inbound' = DOMAIN kept \cup {p} /\ inbound'[p] = distance
        /\ \A q \in DOMAIN inbound' : q # p => q \in DOMAIN kept /\ inbound'[q] = kept[q]
    <3>1. inbound' = insert_neighbor(kept, SIZE_INBOUND, p, distance)  BY <1>4 DEF kept
    <3>2. Extended(insert_neighbor(kept, SIZE_INBOUND, p, distance), kept, SIZE_INBOUND, p, distance)
      BY <2>1, <2>3, NeighborhoodInsert
    <3> QED  BY <2>4, <3>1, <3>2 DEF Extended
  <2>6. NeighborsInv'
    <3>1. DOMAIN inbound' = (DOMAIN inbound \ dropped) \cup {p}  BY <2>3, <2>5
    <3>2. InOutDisjoint'  BY <1>1, <1>4, <2>1, <3>1 DEF InOutDisjoint
    <3>3. NeighborsPublished'
      BY <1>1, <1>4, <2>1, <2>2, <3>1 DEF NeighborsPublished, drop_peering
    <3>4. neighbors' \subseteq Peers  BY <1>4, <2>1 DEF drop_peering
    <3> QED  BY <1>1, <2>1, <2>5, <3>2, <3>3, <3>4 DEF NeighborsInv
  <2>7. DistancesInv'
    BY <1>1, <2>3, <2>5 DEF PeeringInv, DistancesInv, distance
  <2>8. RejectedInv' /\ TasksInv'  BY <1>1, <1>4 DEF PeeringInv, RejectedInv, TasksInv
  <2> QED  BY <2>6, <2>7, <2>8 DEF PeeringInv
<1> QED  BY <1>2, <1>3, <1>4

\* The answer of a peer.
LEMMA PeeringResponseKeeps ==
  ASSUME PeeringInv, NEW p \in Peers, NEW hash, NEW accepted \in BOOLEAN,
         HandlePeeringResponse(p, hash, accepted)
  PROVE  PeeringInv'
<1> DEFINE key == <<p, "peering">>
           tx == prequests[key].tx
<1>1. UNCHANGED <<drop_neighbors_on_salt_update, private_salt, public_salt, salt_step>>
      /\ key \in DOMAIN prequests /\ prequests' = Removed(prequests, "peering", p)
  BY DEF HandlePeeringResponse, Handler
<1>2. TasksInv'
  <2>1. /\ ptasks \in [Tasks -> {Idle} \cup PeeringTasks]
        /\ DOMAIN prequests \subseteq Peers \X {"peering"}
        /\ \A k \in DOMAIN prequests : prequests[k].tx \in Tasks
    BY DEF PeeringInv, TasksInv
  <2>2. \/ ptasks[tx].state = "waiting" /\ \E s \in {"answered", "failed"} :
             ptasks' = [ptasks EXCEPT ![tx].state = s]
        \/ ptasks' = ptasks
        \/ ptasks' = Dropped(ptasks, prequests, {key})
    BY DEF HandlePeeringResponse
  <2>3. tx \in Tasks  BY <1>1, <2>1
  <2> HIDE DEF tx, key
  <2>4. ptasks' \in [Tasks -> {Idle} \cup PeeringTasks]
    <3>1. "waiting" \in TaskStates /\ {"answered", "failed"} \subseteq TaskStates  BY DEF TaskStates
    <3> QED  BY <2>1, <2>2, <2>3, <3>1, TaskSet, TasksDropped
  <2>5. /\ DOMAIN prequests' \subseteq Peers \X {"peering"}
        /\ \A k \in DOMAIN prequests' : prequests'[k].tx \in Tasks
    BY <1>1, <2>1, RequestsRemoved DEF Removed
  <2> QED  BY <2>4, <2>5 DEF TasksInv
<1>3. \/ UNCHANGED <<inbound, outbound, rejected, neighbors>>
      \/ /\ p \in DOMAIN inbound /\ inbound' = Without(inbound, {p})
         /\ neighbors' = drop_peering({p}) /\ UNCHANGED <<outbound, rejected>>
      \/ /\ p \notin DOMAIN inbound
         /\ outbound' = insert_neighbor(outbound, SIZE_OUTBOUND, p, SaltDistance[public_salt][p])
         /\ rejected' = IF p \in DOMAIN outbound' THEN rejected \cup {p} ELSE rejected
         /\ neighbors' = IF p \in DOMAIN outbound' THEN neighbors \cup {p} ELSE neighbors
         /\ UNCHANGED inbound
  BY DEF HandlePeeringResponse
<1>4. /\ IsNeighborhood(inbound, SIZE_INBOUND) /\ IsNeighborhood(outbound, SIZE_OUTBOUND)
      /\ DOMAIN inbound \cap DOMAIN outbound = {} /\ neighbors \subseteq Peers
      /\ ~ drop_neighbors_on_salt_update => neighbors = DOMAIN inbound \cup DOMAIN outbound
      /\ SIZE_INBOUND \in Nat /\ SIZE_OUTBOUND \in Nat \ {0}
  BY PeeringAssumption DEF PeeringInv, NeighborsInv, InOutDisjoint, NeighborsPublished
<1>5. CASE UNCHANGED <<inbound, outbound, rejected, neighbors>>
  <2>1. NeighborsInv' /\ RejectedInv' /\ DistancesInv'
    BY <1>1, <1>5 DEF PeeringInv, NeighborsInv, RejectedInv, DistancesInv, InOutDisjoint,
                      NeighborsPublished
  <2> QED  BY <1>2, <2>1 DEF PeeringInv
<1>6. CASE /\ p \in DOMAIN inbound /\ inbound' = Without(inbound, {p})
           /\ neighbors' = drop_peering({p}) /\ UNCHANGED <<outbound, rejected>>
  <2>1. /\ IsNeighborhood(inbound', SIZE_INBOUND) /\ DOMAIN inbound' = DOMAIN inbound \ {p}
        /\ \A q \in DOMAIN inbound' : inbound'[q] = inbound[q]
    <3>1. Reduced(Without(inbound, {p}), inbound, {p}, SIZE_INBOUND)
      BY <1>4, NeighborhoodWithout
    <3> QED  BY <1>6, <3>1 DEF Reduced
  <2>2. NeighborsInv'
    BY <1>1, <1>4, <1>6, <2>1 DEF NeighborsInv, InOutDisjoint, NeighborsPublished, drop_peering
  <2>3. DistancesInv'  BY <1>1, <1>6, <2>1 DEF PeeringInv, DistancesInv
  <2>4. RejectedInv'  BY <1>6 DEF PeeringInv, RejectedInv
  <2> QED  BY <1>2, <2>2, <2>3, <2>4 DEF PeeringInv
<1>7. ASSUME p \notin DOMAIN inbound,
             outbound' = insert_neighbor(outbound, SIZE_OUTBOUND, p, SaltDistance[public_salt][p]),
             rejected' = IF p \in DOMAIN outbound' THEN rejected \cup {p} ELSE rejected,
             neighbors' = IF p \in DOMAIN outbound' THEN neighbors \cup {p} ELSE neighbors,
             UNCHANGED inbound
      PROVE  PeeringInv'
  <2> DEFINE distance == SaltDistance[public_salt][p]
  <2>1. outbound' = insert_neighbor(outbound, SIZE_OUTBOUND, p, distance)  BY <1>7
  <2> HIDE DEF distance
  <2>2. /\ IsNeighborhood(outbound', SIZE_OUTBOUND)
        /\ \A q \in DOMAIN outbound' : q # p => q \in DOMAIN outbound /\ outbound'[q] = outbound[q]
        /\ \/ DOMAIN outbound' = DOMAIN outbound \cup {p} /\ outbound'[p] = distance
           \/ DOMAIN outbound' = DOMAIN outbound /\ p \notin DOMAIN outbound
    <3>1. Extended(insert_neighbor(outbound, SIZE_OUTBOUND, p, distance), outbound, SIZE_OUTBOUND,
                   p, distance)
      BY <1>4, NeighborhoodInsert
    <3> QED  BY <2>1, <3>1 DEF Extended
  <2>3. NeighborsInv'
    BY <1>1, <1>4, <1>7, <2>2 DEF NeighborsInv, InOutDisjoint, NeighborsPublished
  <2>4. DistancesInv'  BY <1>1, <1>7, <2>2 DEF PeeringInv, DistancesInv, distance
  <2>5. RejectedInv'  BY <1>7 DEF PeeringInv, RejectedInv
  <2> QED  BY <1>2, <2>3, <2>4, <2>5 DEF PeeringInv
<1> QED  BY <1>3, <1>5, <1>6, <1>7

\* A peer that asks to be dropped leaves both neighborhoods.
LEMMA DropRequestKeeps ==
  ASSUME PeeringInv, NEW p \in Peers, HandleDropRequest(p)  PROVE PeeringInv'
<1>1. /\ inbound' = Without(inbound, {p}) /\ outbound' = Without(outbound, {p})
      /\ rejected' = IF p \in DOMAIN outbound THEN rejected \cup {p} ELSE rejected
      /\ neighbors' = neighbors \ {p}
      /\ UNCHANGED <<drop_neighbors_on_salt_update, private_salt, public_salt, salt_step,
                     prequests, ptasks>>
  BY DEF HandleDropRequest, Handler, drop_peering
<1>2. /\ IsNeighborhood(inbound, SIZE_INBOUND) /\ IsNeighborhood(outbound, SIZE_OUTBOUND)
      /\ SIZE_INBOUND \in Nat /\ SIZE_OUTBOUND \in Nat
  BY PeeringAssumption DEF PeeringInv, NeighborsInv
<1>3. /\ IsNeighborhood(inbound', SIZE_INBOUND) /\ DOMAIN inbound' = DOMAIN inbound \ {p}
      /\ \A q \in DOMAIN inbound' : inbound'[q] = inbound[q]
  <2>1. Reduced(Without(inbound, {p}), inbound, {p}, SIZE_INBOUND)  BY <1>2, NeighborhoodWithout
  <2> QED  BY <1>1, <2>1 DEF Reduced
<1>4. /\ IsNeighborhood(outbound', SIZE_OUTBOUND) /\ DOMAIN outbound' = DOMAIN outbound \ {p}
      /\ \A q \in DOMAIN outbound' : outbound'[q] = outbound[q]
  <2>1. Reduced(Without(outbound, {p}), outbound, {p}, SIZE_OUTBOUND)  BY <1>2, NeighborhoodWithout
  <2> QED  BY <1>1, <2>1 DEF Reduced
<1>5. NeighborsInv'
  BY <1>1, <1>3, <1>4 DEF PeeringInv, NeighborsInv, InOutDisjoint, NeighborsPublished
<1>6. DistancesInv'  BY <1>1, <1>3, <1>4 DEF PeeringInv, DistancesInv
<1>7. RejectedInv' /\ TasksInv'  BY <1>1 DEF PeeringInv, RejectedInv, TasksInv
<1> QED  BY <1>5, <1>6, <1>7 DEF PeeringInv

\* The tasks that look for outbound neighbours.
LEMMA UpdatingKeeps ==
  ASSUME PeeringInv, NEW t \in Tasks,
         \/ UpdateOutbound(t) \/ BeginPeering(t) \/ PeeringTimeout(t)
         \/ RemoveLatePeering(t) \/ EndPeering(t)
  PROVE  PeeringInv'
<1>1. UNCHANGED <<drop_neighbors_on_salt_update, inbound, outbound, private_salt, public_salt,
                  salt_step, neighbors>>
  BY DEF UpdateOutbound, BeginPeering, PeeringTimeout, RemoveLatePeering, EndPeering, Updating
<1>2. NeighborsInv' /\ DistancesInv'
  BY <1>1 DEF PeeringInv, NeighborsInv, DistancesInv, InOutDisjoint, NeighborsPublished
<1>3. /\ ptasks \in [Tasks -> {Idle} \cup PeeringTasks] /\ rejected \subseteq Peers
      /\ DOMAIN prequests \subseteq Peers \X {"peering"}
      /\ \A k \in DOMAIN prequests : prequests[k].tx \in Tasks
  BY DEF PeeringInv, TasksInv, RejectedInv
<1>4. TaskStates = {"spawned", "waiting", "answered", "closed", "late", "failed"}  BY DEF TaskStates
<1>5. ptasks[t].state \in TaskStates => ptasks[t].peer \in Peers
  <2>1. Idle.state \notin TaskStates  BY DEF Idle, TaskStates
  <2> QED  BY <1>3, <2>1 DEF PeeringTasks, TaskRecords
<1>6. CASE UpdateOutbound(t)
  <2>1. PICK p \in Candidates : ptasks' = [ptasks EXCEPT ![t] = Spawned("peering", p)]
    BY <1>6 DEF UpdateOutbound
  <2>2. p \in Peers  BY DEF Candidates, apply_list
  <2>3. Spawned("peering", p) \in PeeringTasks  BY <1>4, <2>2 DEF Spawned, PeeringTasks, TaskRecords
  <2>4. ptasks' \in [Tasks -> {Idle} \cup PeeringTasks]  BY <1>3, <2>1, <2>3
  <2> QED  BY <1>2, <1>3, <1>6, <2>4 DEF PeeringInv, TasksInv, RejectedInv, UpdateOutbound
<1>7. CASE BeginPeering(t)
  <2> DEFINE p == ptasks[t].peer
             Q == [ptasks EXCEPT ![t].state = "waiting"]
  <2>1. ptasks[t].state = "spawned" /\ rejected' = rejected  BY <1>7 DEF BeginPeering
  <2>2. p \in Peers  BY <1>4, <1>5, <2>1
  <2>3. \/ ptasks' = [ptasks EXCEPT ![t] = Idle] /\ prequests' = prequests
        \/ /\ prequests' = Created(prequests, "peering", p, clock, clock, t)
           /\ ptasks' = Dropped(Q, prequests, {<<p, "peering">>})
    BY <1>7 DEF BeginPeering
  <2>4. Q \in [Tasks -> {Idle} \cup PeeringTasks]  BY <1>3, <1>4, <2>1, TaskSet
  <2> HIDE DEF Q, p
  <2>5. ptasks' \in [Tasks -> {Idle} \cup PeeringTasks]
    BY <1>3, <2>3, <2>4, TasksDropped
  <2>6. /\ DOMAIN prequests' \subseteq Peers \X {"peering"}
        /\ \A k \in DOMAIN prequests' : prequests'[k].tx \in Tasks
    BY <1>3, <2>2, <2>3, RequestsCreated
  <2> QED  BY <1>2, <1>3, <2>1, <2>5, <2>6 DEF PeeringInv, TasksInv, RejectedInv
<1>8. CASE PeeringTimeout(t)
  <2>1. /\ ptasks[t].state = "waiting" /\ ptasks' = [ptasks EXCEPT ![t].state = "late"]
        /\ UNCHANGED <<rejected, prequests>>
    BY <1>8 DEF PeeringTimeout
  <2>2. ptasks' \in [Tasks -> {Idle} \cup PeeringTasks]  BY <1>3, <1>4, <2>1, TaskSet
  <2> QED  BY <1>2, <1>3, <2>1, <2>2 DEF PeeringInv, TasksInv, RejectedInv
<1>9. CASE RemoveLatePeering(t)
  <2> DEFINE p == ptasks[t].peer
             Q == [ptasks EXCEPT ![t].state = "failed"]
  <2>1. /\ ptasks[t].state = "late" /\ rejected' = rejected
        /\ prequests' = Removed(prequests, "peering", p)
        /\ ptasks' = Dropped(Q, prequests, {<<p, "peering">>})
    BY <1>9 DEF RemoveLatePeering
  <2>2. Q \in [Tasks -> {Idle} \cup PeeringTasks]  BY <1>3, <1>4, <2>1, TaskSet
  <2> HIDE DEF Q, p
  <2>3. ptasks' \in [Tasks -> {Idle} \cup PeeringTasks]  BY <2>1, <2>2, TasksDropped
  <2>4. /\ DOMAIN prequests' \subseteq Peers \X {"peering"}
        /\ \A k \in DOMAIN prequests' : prequests'[k].tx \in Tasks
    BY <1>3, <2>1, RequestsRemoved DEF Removed
  <2> QED  BY <1>2, <1>3, <2>1, <2>3, <2>4 DEF PeeringInv, TasksInv, RejectedInv
<1>10. CASE EndPeering(t)
  <2>1. /\ ptasks[t].state \in {"answered", "closed", "failed"}
        /\ rejected' = rejected \/ rejected' = rejected \cup {ptasks[t].peer}
        /\ ptasks' = [ptasks EXCEPT ![t] = Idle] /\ prequests' = prequests
    BY <1>10 DEF EndPeering
  <2>2. ptasks[t].peer \in Peers  BY <1>4, <1>5, <2>1
  <2>3. ptasks' \in [Tasks -> {Idle} \cup PeeringTasks]  BY <1>3, <2>1
  <2> QED  BY <1>2, <1>3, <2>1, <2>2, <2>3 DEF PeeringInv, TasksInv, RejectedInv
<1> QED  BY <1>6, <1>7, <1>8, <1>9, <1>10

\* The steps of update_salts.
LEMMA SaltingKeeps ==
  ASSUME PeeringInv,
         NewSalts \/ DropNeighbors \/ SaltInbound \/ SaltOutbound \/ ResetFilter
  PROVE  PeeringInv'
<1>1. UNCHANGED <<drop_neighbors_on_salt_update, prequests, ptasks>>
  BY DEF NewSalts, DropNeighbors, SaltInbound, SaltOutbound, ResetFilter, Salting
<1>2. TasksInv'  BY <1>1 DEF PeeringInv, TasksInv
<1>3. RejectedInv'
  BY DEF PeeringInv, RejectedInv, NewSalts, DropNeighbors, SaltInbound, SaltOutbound, ResetFilter
<1>4. DOMAIN <<>> = {} /\ IsFiniteSet({}) /\ Cardinality({}) = 0  BY FS_EmptySet
<1>5. IsNeighborhood(<<>>, SIZE_INBOUND) /\ IsNeighborhood(<<>>, SIZE_OUTBOUND)
  BY <1>4, PeeringAssumption DEF IsNeighborhood
<1>6. CASE NewSalts
  <2>1. /\ UNCHANGED <<inbound, outbound, neighbors>> /\ salt_step' \in {"drop", "inbound"}
        /\ salt_step' = "drop" => drop_neighbors_on_salt_update
    BY <1>6 DEF NewSalts
  <2>2. NeighborsInv'
    BY <1>1, <2>1 DEF PeeringInv, NeighborsInv, InOutDisjoint, NeighborsPublished
  <2>3. DistancesInv'  BY <1>1, <2>1 DEF DistancesInv
  <2> QED  BY <1>2, <1>3, <2>2, <2>3 DEF PeeringInv
<1>7. CASE DropNeighbors
  <2>1. /\ salt_step = "drop" /\ salt_step' = "inbound"
        /\ UNCHANGED <<inbound, outbound, private_salt, public_salt>>
        /\ neighbors' = neighbors \ (DOMAIN inbound \cup DOMAIN outbound)
    BY <1>7 DEF DropNeighbors, drop_peering
  <2>2. drop_neighbors_on_salt_update  BY <2>1 DEF PeeringInv, DistancesInv
  <2>3. NeighborsInv'
    BY <1>1, <2>1, <2>2 DEF PeeringInv, NeighborsInv, InOutDisjoint, NeighborsPublished
  <2>4. DistancesInv'  BY <2>1 DEF DistancesInv
  <2> QED  BY <1>2, <1>3, <2>3, <2>4 DEF PeeringInv
<1>8. CASE SaltInbound
  <2>1. /\ salt_step = "inbound" /\ salt_step' = "outbound"
        /\ UNCHANGED <<outbound, private_salt, public_salt, neighbors>>
        /\ \/ drop_neighbors_on_salt_update /\ inbound' = <<>>
           \/ ~ drop_neighbors_on_salt_update /\ inbound' = update_distances(inbound, private_salt)
    BY <1>8 DEF SaltInbound
  <2>2. CASE drop_neighbors_on_salt_update /\ inbound' = <<>>
    <3>1. NeighborsInv'
      BY <1>1, <1>4, <1>5, <2>1, <2>2 DEF PeeringInv, NeighborsInv, InOutDisjoint, NeighborsPublished
    <3>2. DistancesInv'  BY <1>4, <2>1, <2>2 DEF DistancesInv
    <3> QED  BY <1>2, <1>3, <3>1, <3>2 DEF PeeringInv
  <2>3. CASE ~ drop_neighbors_on_salt_update /\ inbound' = update_distances(inbound, private_salt)
    <3>1. DOMAIN inbound' = DOMAIN inbound
          /\ \A p \in DOMAIN inbound : inbound'[p] = SaltDistance[private_salt][p]
      BY <2>3 DEF update_distances
    <3>2. NeighborsInv'
      BY <1>1, <2>1, <3>1 DEF PeeringInv, NeighborsInv, InOutDisjoint, NeighborsPublished, IsNeighborhood
    <3>3. DistancesInv'  BY <2>1, <3>1 DEF DistancesInv
    <3> QED  BY <1>2, <1>3, <3>2, <3>3 DEF PeeringInv
  <2> QED  BY <2>1, <2>2, <2>3
<1>9. CASE SaltOutbound
  <2>1. /\ salt_step = "outbound" /\ salt_step' \in {"filter", "idle"}
        /\ UNCHANGED <<inbound, private_salt, public_salt, neighbors>>
        /\ \/ drop_neighbors_on_salt_update /\ outbound' = <<>>
           \/ ~ drop_neighbors_on_salt_update /\ outbound' = update_distances(outbound, public_salt)
    BY <1>9 DEF SaltOutbound
  <2>2. CASE drop_neighbors_on_salt_update /\ outbound' = <<>>
    <3>1. NeighborsInv'
      BY <1>1, <1>4, <1>5, <2>1, <2>2 DEF PeeringInv, NeighborsInv, InOutDisjoint, NeighborsPublished
    <3>2. DistancesInv'  BY <1>4, <2>1, <2>2 DEF PeeringInv, DistancesInv
    <3> QED  BY <1>2, <1>3, <3>1, <3>2 DEF PeeringInv
  <2>3. CASE ~ drop_neighbors_on_salt_update /\ outbound' = update_distances(outbound, public_salt)
    <3>1. DOMAIN outbound' = DOMAIN outbound
          /\ \A p \in DOMAIN outbound : outbound'[p] = SaltDistance[public_salt][p]
      BY <2>3 DEF update_distances
    <3>2. NeighborsInv'
      BY <1>1, <2>1, <3>1 DEF PeeringInv, NeighborsInv, InOutDisjoint, NeighborsPublished, IsNeighborhood
    <3>3. DistancesInv'  BY <2>1, <3>1 DEF PeeringInv, DistancesInv
    <3> QED  BY <1>2, <1>3, <3>2, <3>3 DEF PeeringInv
  <2> QED  BY <2>1, <2>2, <2>3
<1>10. CASE ResetFilter
  <2>1. /\ salt_step = "filter" /\ salt_step' = "idle"
        /\ UNCHANGED <<inbound, outbound, private_salt, public_salt, neighbors>>
    BY <1>10 DEF ResetFilter
  <2>2. NeighborsInv'
    BY <1>1, <2>1 DEF PeeringInv, NeighborsInv, InOutDisjoint, NeighborsPublished
  <2>3. DistancesInv'  BY <2>1 DEF PeeringInv, DistancesInv
  <2> QED  BY <1>2, <1>3, <2>2, <2>3 DEF PeeringInv
<1> QED  BY <1>6, <1>7, <1>8, <1>9, <1>10

\* Every step of peering keeps the invariant.
LEMMA PeeringStep == ASSUME PeeringInv, [PeeringNext]_peeringVars  PROVE PeeringInv'
<1>1. CASE PeeringRecv
  BY <1>1, PeeringRequestKeeps, PeeringResponseKeeps, DropRequestKeeps DEF PeeringRecv
<1>2. ASSUME NEW t \in Tasks,
             \/ UpdateOutbound(t) \/ BeginPeering(t) \/ PeeringTimeout(t)
             \/ RemoveLatePeering(t) \/ EndPeering(t)
      PROVE  PeeringInv'
  BY <1>2, UpdatingKeeps
<1>3. CASE NewSalts \/ DropNeighbors \/ SaltInbound \/ SaltOutbound \/ ResetFilter
  BY <1>3, SaltingKeeps
<1>4. ASSUME UNCHANGED <<drop_neighbors_on_salt_update, inbound, outbound, rejected, private_salt,
                         public_salt, salt_step, ptasks, neighbors>>,
             prequests' = prequests \/ \E keys : prequests' = Only(prequests, keys)
      PROVE  PeeringInv'
  <2>1. NeighborsInv' /\ RejectedInv' /\ DistancesInv'
    BY <1>4 DEF PeeringInv, NeighborsInv, RejectedInv, DistancesInv, InOutDisjoint,
                NeighborsPublished
  <2>2. /\ DOMAIN prequests \subseteq Peers \X {"peering"}
        /\ \A k \in DOMAIN prequests : prequests[k].tx \in Tasks
    BY DEF PeeringInv, TasksInv
  <2>3. /\ DOMAIN prequests' \subseteq Peers \X {"peering"}
        /\ \A k \in DOMAIN prequests' : prequests'[k].tx \in Tasks
    BY <1>4, <2>2, RequestsRemoved
  <2>4. TasksInv'  BY <1>4, <2>3 DEF PeeringInv, TasksInv
  <2> QED  BY <2>1, <2>4 DEF PeeringInv
<1>5. CASE \E p \in Peers : DiscoveryChanges(p)  BY <1>4, <1>5 DEF DiscoveryChanges
<1>6. CASE PeeringTick
  <2>1. \E keys : prequests' = Only(prequests, keys)  BY <1>6 DEF PeeringTick, Unexpired
  <2> QED  BY <1>4, <1>6, <2>1 DEF PeeringTick
<1>7. CASE UNCHANGED peeringVars  BY <1>4, <1>7 DEF peeringVars
<1> QED  BY <1>1, <1>2, <1>3, <1>5, <1>6, <1>7 DEF PeeringNext

(* For all distances, sizes, salts and orders of packets, timers and       *)
(* updates of the salts: the neighbourhoods keep to their sizes, no peer   *)
(* is an inbound and an outbound neighbour at once, the distances are      *)
(* those of the current salts once update_salts is done, and the events    *)
(* published add up to the neighbours there are (PeeringManager).          *)
THEOREM NeighborhoodsStaySound == PeeringSpec => []NeighborhoodsSound
<1>1. PeeringInit => PeeringInv  BY PeeringInitially
<1>2. PeeringInv /\ [PeeringNext]_peeringVars => PeeringInv'  BY PeeringStep
<1>3. PeeringInv => NeighborhoodsSound
  <2> SUFFICES ASSUME PeeringInv  PROVE NeighborhoodsSound  OBVIOUS
  <2>1. \A t \in Tasks : ptasks[t] = Idle \/ ptasks[t].state \in TaskStates
    BY DEF PeeringInv, TasksInv, PeeringTasks, TaskRecords
  <2>2. PeeringTypeOK
    BY <2>1 DEF PeeringInv, NeighborsInv, RejectedInv, TasksInv, PeeringTypeOK, IsNeighborhood
  <2>3. InOutDisjoint /\ NeighborsPublished  BY DEF PeeringInv, NeighborsInv
  <2>4. DistancesCurrent  BY DEF PeeringInv, DistancesInv, DistancesCurrent
  <2> QED  BY <2>2, <2>3, <2>4 DEF NeighborhoodsSound
<1> QED  BY <1>1, <1>2, <1>3, PTL DEF PeeringSpec

-----------------------------------------------------------------------------
(***************************************************************************)
(* Gossip: the list of peers, the connections and the peer manager.        *)
(***************************************************************************)
(***************************************************************************)
(* Types.                                                                  *)
(***************************************************************************)
PeerRecs == [addr : Addrs \cup {NoConn}, relation : Relations, conn : Conns \cup {NoConn}]

ConnRecs ==
  [peer : PeerIds \cup {NoConn}, addr : Addrs \cup {NoConn},
   state : {"unused", "open", "upgraded", "closed"},
   reader : BOOLEAN, writer : BOOLEAN, received : BOOLEAN, shutdown : BOOLEAN]

\* What the commands publish, and all events.
Notices == [kind : {"PeerAdded", "PeerRemoved", "PeerDisconnected"}, peer : PeerIds, conn : {NoConn}]
AllEvents == Notices \cup [kind : {"PeerConnected"}, peer : PeerIds, conn : Conns]

Publications == [do : {"publish"}, event : Notices]
Steps ==
  Publications \cup [do : {"dial"}, arg : PeerIds] \cup [do : {"shutdown"}, arg : Conns]
    \cup [do : {"remove"}, arg : RemovedPeers]

Dials == CommandSet \cup [kind : {"DialPeer"}, peer : PeerIds]

Establishments ==
  [kind : {"ProtocolEstablished"}, peer : PeerIds, conn : Conns, addr : Addrs \cup {NoConn}]
Losses == [kind : {"ProtocolDropped"}, peer : PeerIds, conn : Conns]

PeersInv ==
  /\ DOMAIN peers \subseteq PeerIds /\ peers \in [DOMAIN peers -> PeerRecs]
  /\ IsFiniteSet(OfRelation("unknown")) /\ UnknownPeersBounded

QueuesInv ==
  /\ banned_peers \subseteq PeerIds /\ banned_addrs \subseteq Addrs
  /\ commands \in Seq(CommandSet) /\ internal_commands \in Seq(Dials)
  /\ internal_events \in Seq(Establishments \cup Losses)
  /\ command_steps \in Seq(Steps)

EventsInv == events \in Seq(AllEvents) /\ event_steps \in Seq(AllEvents)

ConnsInv ==
  /\ conns \in [Conns -> ConnRecs]
  /\ DOMAIN negotiating \subseteq PeerIds /\ \A p \in DOMAIN negotiating : negotiating[p] \in Conns
  /\ \A c \in Conns : conns[c].reader \/ conns[c].writer => conns[c].peer \in PeerIds

TableInv == DOMAIN manager \subseteq PeerIds /\ manager \in [DOMAIN manager -> Conns \cup {NoConn}]

-----------------------------------------------------------------------------
(***************************************************************************)
(* Where a connection is between its negotiation and the peer manager.     *)
(***************************************************************************)
OfKind(s, kind) == {i \in DOMAIN s : s[i].kind = kind}
ConnsIn(s, kind) == {s[i].conn : i \in OfKind(s, kind)}
OnceIn(s, kind) == \A i, j \in OfKind(s, kind) : s[i].conn = s[j].conn => i = j

Negotiated == ConnsIn(internal_events, "ProtocolEstablished")
Announced == ConnsIn(events, "PeerConnected")
Announcing == ConnsIn(event_steps, "PeerConnected")
HeldConns == Holders \ {NoConn}

Placed == Negotiated \cup Announced \cup Announcing \cup HeldConns

\* A connection is negotiated, announced and held once.
OnceInv ==
  /\ OnceIn(internal_events, "ProtocolEstablished") /\ OnceIn(events, "PeerConnected")
  /\ \A p, q \in DOMAIN manager : manager[p] = manager[q] /\ manager[p] # NoConn => p = q
  /\ \A i \in OfKind(event_steps, "PeerConnected") : i = Len(event_steps)

\* It is in one place.
ApartInv ==
  /\ Negotiated \cap (Announced \cup Announcing \cup HeldConns) = {}
  /\ Announced \cap (Announcing \cup HeldConns) = {} /\ Announcing \cap HeldConns = {}

\* Its state and its tasks fit that place.
StatesInv ==
  /\ \A c \in Placed : conns[c].state \in {"upgraded", "closed"}
  /\ \A c \in Conns : conns[c].state \in {"unused", "open"} => ~ conns[c].reader /\ ~ conns[c].writer
  /\ \A i \in OfKind(internal_events, "ProtocolEstablished") :
       LET c == internal_events[i].conn IN
       conns[c].peer = internal_events[i].peer /\ ~ conns[c].reader /\ ~ conns[c].writer

PlacesInv == OnceInv /\ ApartInv /\ StatesInv

\* Of the events about p in s the last one announces c; or there are none.
LastFor(s, p, c) ==
  \E i \in DOMAIN s : /\ s[i].kind = "PeerConnected" /\ s[i].peer = p /\ s[i].conn = c
                      /\ \A j \in DOMAIN s : s[j].peer = p => j <= i
NoneFor(s, p) == \A j \in DOMAIN s : s[j].peer # p

\* The peer manager is going to have p with the connection c.
MayHold(p, c) ==
  \/ LastFor(event_steps, p, c)
  \/ NoneFor(event_steps, p) /\ LastFor(events, p, c)
  \/ /\ NoneFor(event_steps, p) /\ NoneFor(events, p)
     /\ p \in DOMAIN manager /\ manager[p] = c

LossOf(p) == \E i \in DOMAIN internal_events :
               internal_events[i].kind = "ProtocolDropped" /\ internal_events[i].peer = p

\* Such a connection is served until its loss is announced.
Served(p, c) ==
  /\ conns[c].peer = p /\ conns[c].received /\ conns[c].reader
  /\ conns[c].writer \/ conns[c].state = "closed"
ServedInv == \A p \in PeerIds, c \in Conns : MayHold(p, c) => LossOf(p) \/ Served(p, c)

\* It is the connection of the list of peers, or its loss is going to be announced.
ShutdownStep(c) == \E i \in DOMAIN command_steps : command_steps[i] = Then("shutdown", c)
Doomed(p, c) ==
  \/ LossOf(p)
  \/ ShutdownStep(c)
  \/ conns[c].writer /\ conns[c].shutdown
  \/ conns[c].reader /\ conns[c].state = "closed"
Listed(p, c) == p \in DOMAIN peers /\ peers[p].conn = c
DoomedInv ==
  \A p \in PeerIds \ RemovedPeers, c \in Conns : MayHold(p, c) => Listed(p, c) \/ Doomed(p, c)

GossipInv == PeersInv /\ QueuesInv /\ EventsInv /\ ConnsInv /\ TableInv
GhostInv == PlacesInv /\ ServedInv /\ DoomedInv

-----------------------------------------------------------------------------
(***************************************************************************)
(* The types and the limit of unknown peers.                               *)
(***************************************************************************)
\* What does not concern a part of the invariant keeps it.
LEMMA PeersFrame == ASSUME PeersInv, UNCHANGED peers  PROVE PeersInv'
BY DEF PeersInv, OfRelation, UnknownPeersBounded, filter_count

\* What does not concern the queues keeps their part.
LEMMA QueuesFrame ==
  ASSUME QueuesInv, UNCHANGED <<banned_peers, banned_addrs, commands, internal_commands,
                                internal_events, command_steps>>
  PROVE  QueuesInv'
BY DEF QueuesInv

\* The same for the events.
LEMMA EventsFrame == ASSUME EventsInv, UNCHANGED <<events, event_steps>>  PROVE EventsInv'
BY DEF EventsInv

\* The same for the connections.
LEMMA ConnsFrame == ASSUME ConnsInv, UNCHANGED <<conns, negotiating>>  PROVE ConnsInv'
BY DEF ConnsInv

\* The same for the table of the peer manager.
LEMMA TableFrame == ASSUME TableInv, UNCHANGED manager  PROVE TableInv'
BY DEF TableInv

\* A list that lists no new unknown peer.
LEMMA PeersShrink ==
  ASSUME PeersInv, DOMAIN peers' \subseteq PeerIds, peers' \in [DOMAIN peers' -> PeerRecs],
         OfRelation("unknown")' \subseteq OfRelation("unknown")
  PROVE  PeersInv'
<1> DEFINE U == OfRelation("unknown")
           V == OfRelation("unknown")'
<1>1. IsFiniteSet(U) /\ Cardinality(U) <= max_unknown_peers
  BY DEF PeersInv, UnknownPeersBounded, filter_count
<1>2. V \subseteq U  OBVIOUS
<1> HIDE DEF U, V
<1>3. IsFiniteSet(V) /\ Cardinality(V) <= Cardinality(U)  BY <1>1, <1>2, FS_Subset
<1>4. Cardinality(U) \in Nat /\ Cardinality(V) \in Nat  BY <1>1, <1>3, FS_CardinalityType
<1>5. Cardinality(V) <= max_unknown_peers  BY <1>1, <1>3, <1>4, GossipAssumption
<1> QED  BY <1>3, <1>5 DEF PeersInv, UnknownPeersBounded, filter_count, V

\* A peer is disconnected.
LEMMA DisconnectedList ==
  ASSUME PeersInv, NEW p \in DOMAIN peers
  PROVE  /\ DOMAIN Disconnected(p) = DOMAIN peers /\ Disconnected(p) \in [DOMAIN peers -> PeerRecs]
         /\ \A q \in DOMAIN peers : q # p => Disconnected(p)[q] = peers[q]
         /\ Disconnected(p)[p].conn = NoConn
         /\ \A q \in DOMAIN peers : Disconnected(p)[q].relation = peers[q].relation
<1>1. peers \in [DOMAIN peers -> PeerRecs]  BY DEF PeersInv
<1> DEFINE r == [peers[p] EXCEPT !.conn = NoConn]
<1>2. r \in PeerRecs /\ r.conn = NoConn /\ r.relation = peers[p].relation  BY <1>1 DEF PeerRecs
<1>3. Disconnected(p) = [peers EXCEPT ![p] = r]  BY <1>1 DEF Disconnected
<1> HIDE DEF r
<1> QED  BY <1>1, <1>2, <1>3

\* Commands that do not touch the list of peers.
LEMMA CommandsKeep ==
  ASSUME GossipInv, UNCHANGED manager,
         \/ \E command \in CommandSet : GiveCommand(command)
         \/ Ban \/ DialCommand \/ CheckPeers
  PROVE  GossipInv'
<1>1. UNCHANGED <<peers, internal_events, events, command_steps, event_steps, negotiating, conns>>
  BY DEF GiveCommand, Ban, DialCommand, CheckPeers, Processing
<1>2. PeersInv' /\ EventsInv' /\ ConnsInv' /\ TableInv'
  BY <1>1, PeersFrame, EventsFrame, ConnsFrame, TableFrame DEF GossipInv
<1>3. /\ banned_peers \subseteq PeerIds /\ banned_addrs \subseteq Addrs
      /\ commands \in Seq(CommandSet) /\ internal_commands \in Seq(Dials)
      /\ internal_events' \in Seq(Establishments \cup Losses)
      /\ command_steps' \in Seq(Steps)
  BY <1>1 DEF GossipInv, QueuesInv
<1>4. commands # <<>> => Head(commands) \in CommandSet /\ Tail(commands) \in Seq(CommandSet)
  BY <1>3
<1>5. CASE \E command \in CommandSet : GiveCommand(command)
  <2>1. commands' \in Seq(CommandSet) /\ UNCHANGED <<banned_peers, banned_addrs, internal_commands>>
    BY <1>3, <1>5 DEF GiveCommand
  <2> QED  BY <1>2, <1>3, <2>1 DEF GossipInv, QueuesInv
<1>6. CASE Ban
  <2>1. /\ commands # <<>> /\ commands' = Tail(commands) /\ internal_commands' = internal_commands
        /\ banned_peers' \in {banned_peers, banned_peers \cup {Head(commands).peer},
                              banned_peers \ {Head(commands).peer}}
        /\ banned_addrs' \in {banned_addrs, banned_addrs \cup {Listen(Head(commands).peer)},
                              banned_addrs \ {Listen(Head(commands).peer)}}
    BY <1>6 DEF Ban, Processing
  <2>2. Head(commands).peer \in PeerIds  BY <1>4, <2>1, GossipAssumption
  <2>3. Listen(Head(commands).peer) \in Addrs  BY <2>2 DEF Listen, Addrs
  <2>4. banned_peers' \subseteq PeerIds /\ banned_addrs' \subseteq Addrs  BY <1>3, <2>1, <2>2, <2>3
  <2> QED  BY <1>2, <1>3, <1>4, <2>1, <2>4 DEF GossipInv, QueuesInv
<1>7. CASE DialCommand
  <2>1. /\ commands # <<>> /\ commands' = Tail(commands) /\ UNCHANGED <<banned_peers, banned_addrs>>
        /\ internal_commands' = Append(internal_commands, Head(commands))
    BY <1>7 DEF DialCommand, Processing
  <2>2. Head(commands) \in Dials  BY <1>4, <2>1 DEF Dials
  <2>3. internal_commands' \in Seq(Dials)  BY <1>3, <2>1, <2>2
  <2> QED  BY <1>2, <1>3, <1>4, <2>1, <2>3 DEF GossipInv, QueuesInv
<1>8. CASE CheckPeers
  <2>1. PICK q \in DOMAIN peers : internal_commands' = <<[kind |-> "DialPeer", peer |-> q]>>
    BY <1>8 DEF CheckPeers, OfRelation
  <2>2. [kind |-> "DialPeer", peer |-> q] \in Dials  BY DEF Dials, GossipInv, PeersInv
  <2>3. internal_commands' \in Seq(Dials)  BY <2>1, <2>2
  <2>4. UNCHANGED <<banned_peers, banned_addrs, commands>>  BY <1>8 DEF CheckPeers
  <2> QED  BY <1>2, <1>3, <2>3, <2>4 DEF GossipInv, QueuesInv
<1> QED  BY <1>5, <1>6, <1>7, <1>8

\* What a command starts with.
LEMMA CommandHead ==
  ASSUME GossipInv, Processing
  PROVE  /\ Head(commands) \in CommandSet /\ Head(commands).peer \in PeerIds
         /\ commands' \in Seq(CommandSet)
         /\ UNCHANGED <<internal_events, events, event_steps, negotiating, conns>>
         /\ command_steps = <<>>
<1>1. commands \in Seq(CommandSet)  BY DEF GossipInv, QueuesInv
<1>2. /\ commands # <<>> /\ commands' = Tail(commands) /\ command_steps = <<>>
      /\ UNCHANGED <<internal_events, events, event_steps, negotiating, conns>>
  BY DEF Processing
<1>3. Head(commands) \in CommandSet /\ Tail(commands) \in Seq(CommandSet)  BY <1>1, <1>2
<1> QED  BY <1>2, <1>3, GossipAssumption

\* A peer is added as known or discovered, so the unknown ones do not grow.
LEMMA AddPeerKeeps == ASSUME GossipInv, AddPeer, UNCHANGED manager  PROVE GossipInv'
<1> DEFINE p == Head(commands).peer
           rel == Head(commands).relation
<1>1. /\ p \in PeerIds /\ commands' \in Seq(CommandSet)
      /\ UNCHANGED <<internal_events, events, event_steps, negotiating, conns, banned_peers,
                     banned_addrs, internal_commands>>
      /\ rel \in {"known", "discovered"}
  BY CommandHead, GossipAssumption DEF AddPeer
<1>2. command_steps' = <<Publish("PeerAdded", p), Then("dial", p)>>  BY DEF AddPeer
<1>3. peers' = IF p \in DOMAIN peers THEN [peers EXCEPT ![p].addr = Listen(p), ![p].relation = rel]
               ELSE WithKey(peers, p, Info(Listen(p), rel))
  BY DEF AddPeer
<1> HIDE DEF p, rel
<1>4. EventsInv' /\ ConnsInv' /\ TableInv'
  BY <1>1, EventsFrame, ConnsFrame, TableFrame DEF GossipInv
<1>5. command_steps' \in Seq(Steps)
  <2>1. Publish("PeerAdded", p) \in Steps
    BY <1>1 DEF Publish, Event, Steps, Publications, Notices
  <2>2. Then("dial", p) \in Steps  BY <1>1 DEF Then, Steps
  <2> QED  BY <1>2, <2>1, <2>2
<1>6. QueuesInv'  BY <1>1, <1>5 DEF GossipInv, QueuesInv
<1>7. PeersInv'
  <2>1. peers \in [DOMAIN peers -> PeerRecs] /\ DOMAIN peers \subseteq PeerIds
    BY DEF GossipInv, PeersInv
  <2>2. Listen(p) \in Addrs /\ rel \in Relations  BY <1>1 DEF Listen, Addrs, Relations
  <2>3. /\ DOMAIN peers' = DOMAIN peers \cup {p} /\ peers'[p] \in PeerRecs
        /\ peers'[p].relation = rel /\ \A q \in DOMAIN peers : q # p => peers'[q] = peers[q]
        /\ peers' \in [DOMAIN peers' -> PeerRecs]
    <3>1. CASE p \in DOMAIN peers
      <4> DEFINE r == [peers[p] EXCEPT !.addr = Listen(p), !.relation = rel]
      <4>1. r \in PeerRecs /\ r.relation = rel  BY <2>1, <2>2, <3>1 DEF PeerRecs
      <4>2. peers' = [peers EXCEPT ![p] = r]
        <5>1. peers' = [peers EXCEPT ![p].addr = Listen(p), ![p].relation = rel]  BY <1>3, <3>1
        <5> QED  BY <2>1, <3>1, <5>1
      <4> HIDE DEF r
      <4> QED  BY <2>1, <3>1, <4>1, <4>2
    <3>2. CASE p \notin DOMAIN peers
      <4> DEFINE r == Info(Listen(p), rel)
      <4>1. r \in PeerRecs /\ r.relation = rel  BY <2>2 DEF PeerRecs, Info
      <4>2. peers' = WithKey(peers, p, r)  BY <1>3, <3>2
      <4> HIDE DEF r
      <4> QED  BY <2>1, <3>2, <4>1, <4>2 DEF WithKey
    <3> QED  BY <3>1, <3>2
  <2>4. OfRelation("unknown")' \subseteq OfRelation("unknown")  BY <1>1, <2>3 DEF OfRelation
  <2>5. DOMAIN peers' \subseteq PeerIds  BY <1>1, <2>1, <2>3
  <2> QED  BY <2>3, <2>4, <2>5, PeersShrink DEF GossipInv
<1> QED  BY <1>4, <1>6, <1>7 DEF GossipInv

\* A peer that is disconnected stays in the list for now.
LEMMA DisconnectPeerKeeps == ASSUME GossipInv, DisconnectPeer, UNCHANGED manager  PROVE GossipInv'
<1> DEFINE p == Head(commands).peer
           removal == IF Head(commands).kind = "RemovePeer" THEN <<Then("remove", p)>> ELSE <<>>
<1>1. /\ p \in PeerIds /\ commands' \in Seq(CommandSet) /\ Head(commands) \in CommandSet
      /\ UNCHANGED <<internal_events, events, event_steps, negotiating, conns, banned_peers,
                     banned_addrs, internal_commands>>
  BY CommandHead DEF DisconnectPeer
<1>2. \/ UNCHANGED <<peers, command_steps>>
      \/ /\ p \in DOMAIN peers /\ peers' = Disconnected(p)
         /\ command_steps' = DisconnectSteps(p) \o removal
  BY DEF DisconnectPeer
<1>3. removal \in Seq(Steps)
  <2>1. CASE Head(commands).kind = "RemovePeer"
    <3>1. p \in RemovedPeers  BY <1>1, <2>1 DEF RemovedPeers
    <3>2. Then("remove", p) \in Steps  BY <3>1 DEF Then, Steps
    <3> QED  BY <2>1, <3>2
  <2> QED  BY <2>1
<1> HIDE DEF p, removal
<1>4. EventsInv' /\ ConnsInv' /\ TableInv'
  BY <1>1, EventsFrame, ConnsFrame, TableFrame DEF GossipInv
<1>5. CASE UNCHANGED <<peers, command_steps>>
  <2>1. PeersInv'  BY <1>5, PeersFrame DEF GossipInv
  <2>2. QueuesInv'  BY <1>1, <1>5 DEF GossipInv, QueuesInv
  <2> QED  BY <1>4, <2>1, <2>2 DEF GossipInv
<1>6. CASE /\ p \in DOMAIN peers /\ peers' = Disconnected(p)
           /\ command_steps' = DisconnectSteps(p) \o removal
  <2>1. /\ DOMAIN peers' = DOMAIN peers /\ peers' \in [DOMAIN peers -> PeerRecs]
        /\ \A q \in DOMAIN peers : peers'[q].relation = peers[q].relation
    BY <1>6, DisconnectedList DEF GossipInv
  <2>2. PeersInv'
    <3>1. DOMAIN peers \subseteq PeerIds  BY DEF GossipInv, PeersInv
    <3>2. OfRelation("unknown")' \subseteq OfRelation("unknown")  BY <2>1 DEF OfRelation
    <3> QED  BY <2>1, <3>1, <3>2, PeersShrink DEF GossipInv
  <2>3. DisconnectSteps(p) \in Seq(Steps)
    <3>1. CASE IsConnected(p)
      <4>1. peers[p].conn \in Conns  BY <3>1 DEF IsConnected, GossipInv, PeersInv, PeerRecs
      <4>2. Then("shutdown", peers[p].conn) \in Steps  BY <4>1 DEF Then, Steps
      <4>3. Publish("PeerDisconnected", p) \in Steps
        BY <1>1 DEF Publish, Event, Steps, Publications, Notices
      <4>4. DisconnectSteps(p) = <<Publish("PeerDisconnected", p), Then("shutdown", peers[p].conn)>>
        BY <3>1 DEF DisconnectSteps
      <4> QED  BY <4>2, <4>3, <4>4
    <3>2. CASE ~ IsConnected(p)  BY <3>2 DEF DisconnectSteps
    <3> QED  BY <3>1, <3>2
  <2>4. command_steps' \in Seq(Steps)  BY <1>3, <1>6, <2>3
  <2>5. QueuesInv'  BY <1>1, <2>4 DEF GossipInv, QueuesInv
  <2> QED  BY <1>4, <2>2, <2>5 DEF GossipInv
<1> QED  BY <1>2, <1>5, <1>6

\* No command makes a peer unknown.
LEMMA ChangeRelationKeeps == ASSUME GossipInv, ChangeRelation, UNCHANGED manager  PROVE GossipInv'
<1> DEFINE p == Head(commands).peer
           rel == Head(commands).relation
<1>1. /\ commands' \in Seq(CommandSet) /\ rel \in {"known", "discovered"}
      /\ UNCHANGED <<internal_events, events, event_steps, negotiating, conns, banned_peers,
                     banned_addrs, internal_commands, command_steps>>
  BY CommandHead, GossipAssumption DEF ChangeRelation
<1>2. \/ UNCHANGED peers
      \/ p \in DOMAIN peers /\ peers' = [peers EXCEPT ![p].relation = rel]
  BY DEF ChangeRelation
<1> HIDE DEF p, rel
<1>3. EventsInv' /\ ConnsInv' /\ TableInv' /\ QueuesInv'
  BY <1>1, EventsFrame, ConnsFrame, TableFrame DEF GossipInv, QueuesInv
<1>4. PeersInv'
  <2>1. CASE UNCHANGED peers  BY <2>1, PeersFrame DEF GossipInv
  <2>2. CASE p \in DOMAIN peers /\ peers' = [peers EXCEPT ![p].relation = rel]
    <3>1. peers \in [DOMAIN peers -> PeerRecs] /\ DOMAIN peers \subseteq PeerIds
      BY DEF GossipInv, PeersInv
    <3> DEFINE r == [peers[p] EXCEPT !.relation = rel]
    <3>2. r \in PeerRecs /\ r.relation = rel  BY <1>1, <2>2, <3>1 DEF PeerRecs, Relations
    <3>3. peers' = [peers EXCEPT ![p] = r]  BY <2>2, <3>1
    <3> HIDE DEF r
    <3>4. /\ DOMAIN peers' = DOMAIN peers /\ peers' \in [DOMAIN peers -> PeerRecs]
          /\ peers'[p].relation = rel /\ \A q \in DOMAIN peers : q # p => peers'[q] = peers[q]
      BY <2>2, <3>1, <3>2, <3>3
    <3>5. OfRelation("unknown")' \subseteq OfRelation("unknown")  BY <1>1, <3>4 DEF OfRelation
    <3> QED  BY <3>1, <3>4, <3>5, PeersShrink DEF GossipInv
  <2> QED  BY <1>2, <2>1, <2>2
<1> QED  BY <1>3, <1>4 DEF GossipInv

\* The steps of a command, by their kinds.
LEMMA StepKinds ==
  ASSUME NEW step \in Steps
  PROVE  /\ step.do \in {"publish", "dial", "shutdown", "remove"}
         /\ step.do = "publish" => step.event \in Notices
         /\ step.do = "dial" => step.arg \in PeerIds
         /\ step.do = "shutdown" => step.arg \in Conns /\ step = Then("shutdown", step.arg)
         /\ step.do = "remove" => step.arg \in RemovedPeers
BY DEF Steps, Publications, Then

\* A connection is told to shut down.
LEMMA ConnsShutdown ==
  ASSUME ConnsInv, NEW c \in Conns, UNCHANGED negotiating,
         conns' = [conns EXCEPT ![c].shutdown = conns[c].writer]
  PROVE  /\ ConnsInv' /\ \A d \in Conns : d # c => conns'[d] = conns[d]
         /\ conns'[c].shutdown = conns[c].writer /\ conns'[c].peer = conns[c].peer
         /\ conns'[c].state = conns[c].state /\ conns'[c].received = conns[c].received
         /\ conns'[c].reader = conns[c].reader /\ conns'[c].writer = conns[c].writer
<1>1. conns \in [Conns -> ConnRecs]  BY DEF ConnsInv
<1> DEFINE r == [conns[c] EXCEPT !.shutdown = conns[c].writer]
<1>2. /\ r \in ConnRecs /\ r.shutdown = conns[c].writer /\ r.peer = conns[c].peer
      /\ r.state = conns[c].state /\ r.received = conns[c].received
      /\ r.reader = conns[c].reader /\ r.writer = conns[c].writer
  BY <1>1 DEF ConnRecs
<1>3. conns' = [conns EXCEPT ![c] = r]  BY <1>1
<1> HIDE DEF r
<1>4. conns' \in [Conns -> ConnRecs] /\ conns'[c] = r /\ \A d \in Conns : d # c => conns'[d] = conns[d]
  BY <1>1, <1>2, <1>3
<1>5. ConnsInv'  BY <1>2, <1>4 DEF ConnsInv
<1> QED  BY <1>2, <1>4, <1>5

\* The steps after a command remove only peers of RemovePeer commands.
LEMMA CommandStepKeeps == ASSUME GossipInv, CommandStep, UNCHANGED manager  PROVE GossipInv'
<1> DEFINE step == Head(command_steps)
           more == IF step.do = "remove" /\ step.arg \in DOMAIN peers
                   THEN <<Publish("PeerRemoved", step.arg)>> ELSE <<>>
<1>1. command_steps \in Seq(Steps) /\ command_steps # <<>>
  BY DEF GossipInv, QueuesInv, CommandStep
<1>2. step \in Steps /\ Tail(command_steps) \in Seq(Steps)  BY <1>1
<1>3. /\ command_steps' = Tail(command_steps) \o more
      /\ events' = IF step.do = "publish" THEN Append(events, step.event) ELSE events
      /\ internal_commands' = IF step.do = "dial"
                              THEN Append(internal_commands, [kind |-> "DialPeer", peer |-> step.arg])
                              ELSE internal_commands
      /\ conns' = IF step.do = "shutdown"
                  THEN [conns EXCEPT ![step.arg].shutdown = conns[step.arg].writer] ELSE conns
      /\ peers' = IF step.do = "remove" THEN Keeping(peers, PeerIds \ {step.arg}) ELSE peers
      /\ UNCHANGED <<banned_peers, banned_addrs, commands, internal_events, event_steps, negotiating>>
  BY DEF CommandStep
<1>4. more \in Seq(Steps)
  <2>1. CASE step.do = "remove" /\ step.arg \in DOMAIN peers
    <3>1. step.arg \in PeerIds  BY <2>1 DEF GossipInv, PeersInv
    <3>2. Publish("PeerRemoved", step.arg) \in Steps
      BY <3>1 DEF Publish, Event, Steps, Publications, Notices
    <3> QED  BY <2>1, <3>2
  <2> QED  BY <2>1
<1> HIDE DEF step, more
<1>5. /\ step.do = "publish" => step.event \in Notices
      /\ step.do = "dial" => step.arg \in PeerIds
      /\ step.do = "shutdown" => step.arg \in Conns
      /\ step.do = "remove" => step.arg \in RemovedPeers
  BY <1>2, StepKinds
<1>6. command_steps' \in Seq(Steps)  BY <1>2, <1>3, <1>4
<1>7. internal_commands' \in Seq(Dials)
  <2>1. internal_commands \in Seq(Dials)  BY DEF GossipInv, QueuesInv
  <2>2. step.do = "dial" => [kind |-> "DialPeer", peer |-> step.arg] \in Dials  BY <1>5 DEF Dials
  <2> QED  BY <1>3, <2>1, <2>2
<1>8. QueuesInv'  BY <1>3, <1>6, <1>7 DEF GossipInv, QueuesInv
<1>9. EventsInv'
  <2>1. events \in Seq(AllEvents)  BY DEF GossipInv, EventsInv
  <2>2. step.do = "publish" => step.event \in AllEvents  BY <1>5 DEF AllEvents
  <2> QED  BY <1>3, <2>1, <2>2 DEF GossipInv, EventsInv
<1>10. ConnsInv'
  <2>1. CASE step.do = "shutdown"
    <3>1. step.arg \in Conns /\ conns' = [conns EXCEPT ![step.arg].shutdown = conns[step.arg].writer]
      BY <1>3, <1>5, <2>1
    <3> QED  BY <1>3, <3>1, ConnsShutdown DEF GossipInv
  <2>2. CASE step.do # "shutdown"  BY <1>3, <2>2, ConnsFrame DEF GossipInv
  <2> QED  BY <2>1, <2>2
<1>11. PeersInv'
  <2>1. CASE step.do = "remove"
    <3>1. peers \in [DOMAIN peers -> PeerRecs] /\ DOMAIN peers \subseteq PeerIds
      BY DEF GossipInv, PeersInv
    <3>2. /\ DOMAIN peers' = DOMAIN peers \ {step.arg}
          /\ \A q \in DOMAIN peers' : peers'[q] = peers[q]
          /\ peers' \in [DOMAIN peers' -> PeerRecs]
      BY <1>3, <2>1, <3>1 DEF Keeping
    <3>3. OfRelation("unknown")' \subseteq OfRelation("unknown")  BY <3>2 DEF OfRelation
    <3>4. DOMAIN peers' \subseteq PeerIds  BY <3>1, <3>2
    <3> QED  BY <3>2, <3>3, <3>4, PeersShrink DEF GossipInv
  <2>2. CASE step.do # "remove"  BY <1>3, <2>2, PeersFrame DEF GossipInv
  <2> QED  BY <2>1, <2>2
<1>12. TableInv'  BY TableFrame DEF GossipInv
<1> QED  BY <1>8, <1>9, <1>10, <1>11, <1>12 DEF GossipInv

\* The internal event that is received.
LEMMA ReceivedEvent ==
  ASSUME QueuesInv, Receiving
  PROVE  /\ Head(internal_events) \in Establishments \cup Losses
         /\ internal_events' \in Seq(Establishments \cup Losses)
         /\ Head(internal_events).peer \in PeerIds /\ Head(internal_events).conn \in Conns
         /\ UNCHANGED <<banned_peers, banned_addrs, commands, internal_commands, events,
                        command_steps, negotiating>>
         /\ event_steps = <<>> /\ internal_events # <<>> /\ internal_events' = Tail(internal_events)
<1>1. /\ internal_events # <<>> /\ internal_events' = Tail(internal_events) /\ event_steps = <<>>
      /\ UNCHANGED <<banned_peers, banned_addrs, commands, internal_commands, events,
                     command_steps, negotiating>>
  BY DEF Receiving
<1>2. internal_events \in Seq(Establishments \cup Losses)  BY DEF QueuesInv
<1>3. /\ Head(internal_events) \in Establishments \cup Losses
      /\ Tail(internal_events) \in Seq(Establishments \cup Losses)
  BY <1>1, <1>2
<1>4. Head(internal_events).peer \in PeerIds /\ Head(internal_events).conn \in Conns
  BY <1>3 DEF Establishments, Losses
<1> QED  BY <1>1, <1>3, <1>4

\* Only unknown peers leave the list with their connection.
LEMMA ProtocolDroppedKeeps == ASSUME GossipInv, ProtocolDropped, UNCHANGED manager  PROVE GossipInv'
<1> DEFINE p == Head(internal_events).peer
<1>1. /\ Receiving /\ event_steps' = <<Event("PeerDisconnected", p, NoConn)>> /\ UNCHANGED conns
      /\ peers' = IF p \in DOMAIN peers
                  THEN Keeping(Disconnected(p), PeerIds \ RemovedIfUnknown(p)) ELSE peers
  BY DEF ProtocolDropped
<1>2. /\ p \in PeerIds /\ internal_events' \in Seq(Establishments \cup Losses)
      /\ UNCHANGED <<banned_peers, banned_addrs, commands, internal_commands, events,
                     command_steps, negotiating>>
  BY <1>1, ReceivedEvent DEF GossipInv
<1> HIDE DEF p
<1>3. QueuesInv' /\ ConnsInv' /\ TableInv'
  BY <1>1, <1>2, ConnsFrame, TableFrame DEF GossipInv, QueuesInv
<1>4. EventsInv'
  <2>1. Event("PeerDisconnected", p, NoConn) \in AllEvents  BY <1>2 DEF Event, AllEvents, Notices
  <2>2. event_steps' \in Seq(AllEvents)  BY <1>1, <2>1
  <2> QED  BY <1>2, <2>2 DEF GossipInv, EventsInv
<1>5. PeersInv'
  <2>1. CASE p \notin DOMAIN peers  BY <1>1, <2>1, PeersFrame DEF GossipInv
  <2>2. CASE p \in DOMAIN peers
    <3> DEFINE D == Disconnected(p)
    <3>1. /\ DOMAIN D = DOMAIN peers /\ D \in [DOMAIN peers -> PeerRecs]
          /\ \A q \in DOMAIN peers : D[q].relation = peers[q].relation
      BY <2>2, DisconnectedList DEF GossipInv
    <3>2. DOMAIN peers \subseteq PeerIds  BY DEF GossipInv, PeersInv
    <3>3. peers' = Keeping(D, PeerIds \ RemovedIfUnknown(p))  BY <1>1, <2>2
    <3> HIDE DEF D
    <3>4. /\ DOMAIN peers' = DOMAIN peers \ RemovedIfUnknown(p)
          /\ \A q \in DOMAIN peers' : peers'[q] = D[q]
          /\ peers' \in [DOMAIN peers' -> PeerRecs]
      BY <3>1, <3>2, <3>3 DEF Keeping
    <3>5. OfRelation("unknown")' \subseteq OfRelation("unknown")  BY <3>1, <3>4 DEF OfRelation
    <3>6. DOMAIN peers' \subseteq PeerIds  BY <3>2, <3>4
    <3> QED  BY <3>4, <3>5, <3>6, PeersShrink DEF GossipInv
  <2> QED  BY <2>1, <2>2
<1> QED  BY <1>3, <1>4, <1>5 DEF GossipInv

\* A connection that loses its last task; the other fields of one that keeps a task.
LEMMA EndedConn ==
  ASSUME NEW r \in ConnRecs
  PROVE  /\ Ended(r) \in ConnRecs
         /\ r.reader \/ r.writer =>
              /\ Ended(r).peer = r.peer /\ Ended(r).state = r.state /\ Ended(r).received = r.received
              /\ r.writer => Ended(r).shutdown = r.shutdown
         /\ Ended(r).reader = r.reader /\ Ended(r).writer = r.writer
         /\ Ended(r).state \in {r.state, "closed"}
<1>1. CASE ~ r.reader /\ ~ r.writer
  <2>1. Ended(r) = [Unused EXCEPT !.state = "closed"]  BY <1>1 DEF Ended
  <2> QED  BY <1>1, <2>1 DEF Unused, ConnRecs
<1>2. CASE r.reader /\ ~ r.writer
  <2>1. Ended(r) = [r EXCEPT !.shutdown = FALSE]  BY <1>2 DEF Ended
  <2> QED  BY <1>2, <2>1 DEF ConnRecs
<1>3. CASE r.writer
  <2>1. Ended(r) = r  BY <1>3 DEF Ended
  <2> QED  BY <1>3, <2>1
<1> QED  BY <1>1, <1>2, <1>3 DEF ConnRecs

\* One connection changes.
LEMMA ConnsChange ==
  ASSUME ConnsInv, NEW c \in Conns, NEW r \in ConnRecs, conns' = [conns EXCEPT ![c] = r],
         UNCHANGED negotiating, r.reader \/ r.writer => r.peer \in PeerIds
  PROVE  /\ ConnsInv' /\ conns'[c] = r /\ \A d \in Conns : d # c => conns'[d] = conns[d]
BY DEF ConnsInv

\* A peer is listed as unknown below the limit only.
LEMMA ProtocolEstablishedKeeps ==
  ASSUME GossipInv, PlacesInv, ProtocolEstablished, UNCHANGED manager  PROVE GossipInv'
<1> DEFINE p == Head(internal_events).peer
           c == Head(internal_events).conn
           addr == Head(internal_events).addr
           listed == IF p \in DOMAIN peers THEN peers ELSE WithKey(peers, p, Info(addr, "unknown"))
           added == IF p \in DOMAIN peers THEN <<>> ELSE <<Event("PeerAdded", p, NoConn)>>
<1>1. Receiving /\ Head(internal_events).kind = "ProtocolEstablished"  BY DEF ProtocolEstablished
<1>2. /\ p \in PeerIds /\ c \in Conns /\ internal_events' \in Seq(Establishments \cup Losses)
      /\ UNCHANGED <<banned_peers, banned_addrs, commands, internal_commands, events,
                     command_steps, negotiating>>
      /\ Head(internal_events) \in Establishments \cup Losses /\ internal_events # <<>>
  BY <1>1, ReceivedEvent DEF GossipInv
<1>3. addr \in Addrs \cup {NoConn}  BY <1>1, <1>2 DEF Establishments, Losses
<1>4. conns[c].peer = p
  <2>1. internal_events \in Seq(Establishments \cup Losses)  BY DEF GossipInv, QueuesInv
  <2>2. 1 \in DOMAIN internal_events /\ internal_events[1] = Head(internal_events)
    BY <1>2, <2>1
  <2>3. 1 \in OfKind(internal_events, "ProtocolEstablished")  BY <1>1, <2>2 DEF OfKind
  <2> QED  BY <2>2, <2>3 DEF PlacesInv, StatesInv
<1>5. \/ /\ accepts_incoming_peer(p, addr) /\ peers' = [listed EXCEPT ![p].conn = c]
         /\ event_steps' = added \o <<Event("PeerConnected", p, c)>>
         /\ conns' = [conns EXCEPT ![c].reader = TRUE, ![c].writer = TRUE, ![c].received = TRUE]
      \/ /\ conns' = [conns EXCEPT ![c] = Ended(conns[c])] /\ UNCHANGED <<peers, event_steps>>
  BY <1>2 DEF ProtocolEstablished
<1>6. QueuesInv' /\ TableInv'  BY <1>2, TableFrame DEF GossipInv, QueuesInv
<1>7. conns \in [Conns -> ConnRecs] /\ conns[c] \in ConnRecs  BY <1>2 DEF GossipInv, ConnsInv
<1> HIDE DEF p, c, addr
<1>8. CASE /\ accepts_incoming_peer(p, addr) /\ peers' = [listed EXCEPT ![p].conn = c]
           /\ event_steps' = added \o <<Event("PeerConnected", p, c)>>
           /\ conns' = [conns EXCEPT ![c].reader = TRUE, ![c].writer = TRUE, ![c].received = TRUE]
  <2>1. ConnsInv'
    <3> DEFINE r == [conns[c] EXCEPT !.reader = TRUE, !.writer = TRUE, !.received = TRUE]
    <3>1. r \in ConnRecs /\ r.peer = p  BY <1>4, <1>7 DEF ConnRecs
    <3>2. conns' = [conns EXCEPT ![c] = r]
      <4>1. conns' = [conns EXCEPT ![c].reader = TRUE, ![c].writer = TRUE, ![c].received = TRUE]
        BY <1>8
      <4> QED  BY <1>2, <1>7, <4>1
    <3> HIDE DEF r
    <3> QED  BY <1>2, <3>1, <3>2, ConnsChange DEF GossipInv
  <2>2. EventsInv'
    <3>1. Event("PeerAdded", p, NoConn) \in AllEvents /\ Event("PeerConnected", p, c) \in AllEvents
      BY <1>2 DEF Event, AllEvents, Notices
    <3>2. added \in Seq(AllEvents)  BY <3>1
    <3>3. <<Event("PeerConnected", p, c)>> \in Seq(AllEvents)  BY <3>1
    <3> HIDE DEF added
    <3>4. event_steps' \in Seq(AllEvents)  BY <1>8, <3>2, <3>3
    <3> QED  BY <1>2, <3>4 DEF GossipInv, EventsInv
  <2>3. peers \in [DOMAIN peers -> PeerRecs] /\ DOMAIN peers \subseteq PeerIds
    BY DEF GossipInv, PeersInv
  <2>4. /\ DOMAIN listed = DOMAIN peers \cup {p} /\ listed \in [DOMAIN listed -> PeerRecs]
        /\ \A q \in DOMAIN peers : listed[q] = peers[q]
    <3> DEFINE i == Info(addr, "unknown")
    <3>1. i \in PeerRecs  BY <1>3 DEF Info, PeerRecs, Relations
    <3>2. listed = IF p \in DOMAIN peers THEN peers ELSE WithKey(peers, p, i)  OBVIOUS
    <3> HIDE DEF i, listed
    <3> QED  BY <2>3, <3>1, <3>2 DEF WithKey
  <2> HIDE DEF listed
  <2>5. /\ DOMAIN peers' = DOMAIN peers \cup {p} /\ peers' \in [DOMAIN peers' -> PeerRecs]
        /\ \A q \in DOMAIN peers : peers'[q].relation = peers[q].relation
    <3> DEFINE r == [listed[p] EXCEPT !.conn = c]
    <3>1. p \in DOMAIN listed /\ listed[p] \in PeerRecs  BY <2>4
    <3>2. r \in PeerRecs /\ r.relation = listed[p].relation  BY <1>2, <3>1 DEF PeerRecs
    <3>3. peers' = [listed EXCEPT ![p] = r]  BY <1>8, <2>4, <3>1
    <3> HIDE DEF r
    <3>4. DOMAIN peers' = DOMAIN listed /\ peers' \in [DOMAIN listed -> PeerRecs] /\ peers'[p] = r
          /\ \A q \in DOMAIN listed : q # p => peers'[q] = listed[q]
      BY <2>4, <3>1, <3>2, <3>3
    <3> QED  BY <2>4, <3>2, <3>4
  <2>6. DOMAIN peers' \subseteq PeerIds  BY <1>2, <2>3, <2>5
  <2>7. PeersInv'
    <3>1. CASE p \in DOMAIN peers
      <4>1. OfRelation("unknown")' \subseteq OfRelation("unknown")  BY <2>5, <3>1 DEF OfRelation
      <4> QED  BY <2>5, <2>6, <4>1, PeersShrink DEF GossipInv
    <3>2. CASE p \notin DOMAIN peers
      <4> DEFINE U == OfRelation("unknown")
                 V == OfRelation("unknown")'
      <4>1. IsFiniteSet(U) /\ Cardinality(U) < max_unknown_peers
        BY <1>8, <3>2 DEF GossipInv, PeersInv, accepts_incoming_peer, filter_count
      <4>2. V \subseteq U \cup {p}  BY <2>5 DEF OfRelation
      <4> HIDE DEF U, V
      <4>3. /\ IsFiniteSet(U \cup {p}) /\ Cardinality(U) \in Nat
            /\ Cardinality(U \cup {p}) \in {Cardinality(U), Cardinality(U) + 1}
        BY <4>1, FS_AddElement, FS_CardinalityType
      <4>4. IsFiniteSet(V) /\ Cardinality(V) <= Cardinality(U \cup {p})
        BY <4>2, <4>3, FS_Subset
      <4>5. Cardinality(V) \in Nat  BY <4>4, FS_CardinalityType
      <4>6. Cardinality(V) <= max_unknown_peers  BY <4>1, <4>3, <4>4, <4>5, GossipAssumption
      <4> QED
        BY <2>5, <2>6, <4>4, <4>6
           DEF PeersInv, UnknownPeersBounded, filter_count, V
    <3> QED  BY <3>1, <3>2
  <2> QED  BY <1>6, <2>1, <2>2, <2>7 DEF GossipInv
<1>9. CASE conns' = [conns EXCEPT ![c] = Ended(conns[c])] /\ UNCHANGED <<peers, event_steps>>
  <2>1. /\ Ended(conns[c]) \in ConnRecs
        /\ Ended(conns[c]).reader \/ Ended(conns[c]).writer => Ended(conns[c]).peer = p
    BY <1>4, <1>7, EndedConn
  <2>2. ConnsInv'  BY <1>2, <1>9, <2>1, ConnsChange DEF GossipInv
  <2>3. PeersInv' /\ EventsInv'  BY <1>2, <1>9, PeersFrame, EventsFrame DEF GossipInv
  <2> QED  BY <1>6, <2>2, <2>3 DEF GossipInv
<1> QED  BY <1>5, <1>8, <1>9

\* The event processor publishes.
LEMMA EventStepKeeps == ASSUME GossipInv, EventStep, UNCHANGED manager  PROVE GossipInv'
<1>1. /\ event_steps # <<>> /\ event_steps' = Tail(event_steps)
      /\ events' = Append(events, Head(event_steps))
      /\ UNCHANGED <<peers, banned_peers, banned_addrs, commands, internal_commands,
                     internal_events, command_steps, negotiating, conns>>
  BY DEF EventStep
<1>2. events \in Seq(AllEvents) /\ event_steps \in Seq(AllEvents)  BY DEF GossipInv, EventsInv
<1>3. EventsInv'  BY <1>1, <1>2 DEF EventsInv
<1> QED  BY <1>1, <1>3, PeersFrame, QueuesFrame, ConnsFrame, TableFrame DEF GossipInv

\* A connection is established.
LEMMA EstablishedConn ==
  ASSUME ConnsInv, NEW c \in Conns, NEW p \in PeerIds, NEW addr \in Addrs \cup {NoConn},
         Established(c, p, addr)
  PROVE  /\ ConnsInv' /\ conns[c].state = "unused" /\ conns'[c].state = "open"
         /\ ~ conns'[c].reader /\ ~ conns'[c].writer
         /\ \A d \in Conns : d # c => conns'[d] = conns[d]
<1> DEFINE r == [Unused EXCEPT !.peer = p, !.addr = addr, !.state = "open"]
<1>1. /\ r \in ConnRecs /\ r.state = "open" /\ ~ r.reader /\ ~ r.writer
      /\ Unused.state = "unused"
  BY DEF Unused, ConnRecs
<1>2. /\ conns[c] = Unused /\ conns' = [conns EXCEPT ![c] = r]
      /\ negotiating' = WithKey(negotiating, p, c)
  BY DEF Established
<1> HIDE DEF r
<1>3. conns \in [Conns -> ConnRecs]  BY DEF ConnsInv
<1>4. conns' \in [Conns -> ConnRecs] /\ conns'[c] = r /\ \A d \in Conns : d # c => conns'[d] = conns[d]
  BY <1>1, <1>2, <1>3
<1>5. DOMAIN negotiating' \subseteq PeerIds /\ \A q \in DOMAIN negotiating' : negotiating'[q] \in Conns
  BY <1>2 DEF ConnsInv, WithKey
<1>6. \A d \in Conns : conns'[d].reader \/ conns'[d].writer => conns'[d].peer \in PeerIds
  BY <1>1, <1>4 DEF ConnsInv
<1> QED  BY <1>1, <1>2, <1>4, <1>5, <1>6 DEF ConnsInv

\* The host is about to dial a peer, or it is not.
HostRecs == [alive : BOOLEAN, dialing : PeerIds \cup {NoConn}]
HostInv == host \in HostRecs

HostAction == Dial \/ DialChecked \/ \E q \in PeerIds : IncomingConnection(q)

\* What the host does is dialing, waiting, or accepting a connection.
LEMMA HostStep ==
  ASSUME GossipInv, HostInv, HostAction
  PROVE  /\ \/ UNCHANGED <<conns, negotiating>>
            \/ \E c \in Conns, p \in PeerIds, addr \in Addrs \cup {NoConn} : Established(c, p, addr)
         /\ UNCHANGED <<peers, banned_peers, banned_addrs, commands, events, command_steps,
                        event_steps, internal_events, wanted>>
         /\ internal_commands' \in Seq(Dials) /\ HostInv'
<1>1. internal_commands \in Seq(Dials)  BY DEF GossipInv, QueuesInv
<1>2. CASE Dial
  <2> DEFINE p == Head(internal_commands).peer
  <2>1. /\ internal_commands # <<>> /\ internal_commands' = Tail(internal_commands)
        /\ UNCHANGED <<conns, negotiating>> \/ \E c \in Conns : Established(c, p, Listen(p))
        /\ UNCHANGED <<peers, banned_peers, banned_addrs, commands, events, command_steps,
                       event_steps, internal_events, wanted>>
        /\ HostIdle
        /\ host' = [host EXCEPT !.dialing = NoConn] \/ host' = [host EXCEPT !.dialing = p]
    BY <1>2 DEF Dial, Network
  <2>2. Head(internal_commands) \in Dials /\ internal_commands' \in Seq(Dials)  BY <1>1, <2>1
  <2>3. p \in PeerIds  BY <2>2, GossipAssumption DEF Dials
  <2>4. Listen(p) \in Addrs  BY <2>3 DEF Listen, Addrs
  <2> HIDE DEF p
  <2>5. HostInv'
    <3>1. CASE UNCHANGED host  BY <3>1 DEF HostInv
    <3> QED  BY <2>1, <2>3 DEF HostInv, HostRecs
  <2> QED  BY <2>1, <2>2, <2>3, <2>4, <2>5
<1>3. CASE DialChecked
  <2> DEFINE p == host.dialing
  <2>1. /\ p # NoConn /\ host' = [alive |-> p \in DOMAIN peers, dialing |-> NoConn]
        /\ \/ UNCHANGED <<conns, negotiating>>
           \/ p \in DOMAIN peers /\ \E c \in Conns : Established(c, p, peers[p].addr)
        /\ UNCHANGED <<peers, banned_peers, banned_addrs, commands, events, command_steps,
                       event_steps, internal_events, internal_commands, wanted>>
    BY <1>3 DEF DialChecked, Network
  <2>2. p \in PeerIds  BY <2>1 DEF HostInv, HostRecs
  <2>3. p \in DOMAIN peers => peers[p].addr \in Addrs \cup {NoConn}
    BY DEF GossipInv, PeersInv, PeerRecs
  <2> HIDE DEF p
  <2>4. HostInv'  BY <2>1 DEF HostInv, HostRecs
  <2> QED  BY <1>1, <2>1, <2>2, <2>3, <2>4
<1>4. CASE \E q \in PeerIds : IncomingConnection(q)
  <2>1. PICK q \in PeerIds : IncomingConnection(q)  BY <1>4
  <2>2. /\ \E c \in Conns : Established(c, q, <<q, "other">>)
        /\ UNCHANGED <<peers, banned_peers, banned_addrs, commands, events, command_steps,
                       event_steps, internal_events, internal_commands, host, wanted>>
    BY <2>1 DEF IncomingConnection, Network
  <2>3. <<q, "other">> \in Addrs  BY DEF Addrs
  <2> QED  BY <1>1, <2>2, <2>3 DEF HostInv
<1> QED  BY <1>2, <1>3, <1>4 DEF HostAction

\* Dialing and accepting connections.
LEMMA HostKeeps ==
  ASSUME GossipInv, HostInv, HostAction, UNCHANGED manager
  PROVE  GossipInv'
<1>1. ConnsInv'
  <2>1. CASE UNCHANGED <<conns, negotiating>>  BY <2>1, ConnsFrame DEF GossipInv
  <2>2. CASE \E c \in Conns, p \in PeerIds, addr \in Addrs \cup {NoConn} : Established(c, p, addr)
    BY <2>2, EstablishedConn DEF GossipInv
  <2> QED  BY <2>1, <2>2, HostStep
<1>2. QueuesInv'  BY HostStep DEF GossipInv, QueuesInv
<1> QED  BY <1>1, <1>2, HostStep, PeersFrame, EventsFrame, TableFrame DEF GossipInv

\* A connection changes, and what is negotiated does or does not.
LEMMA ConnsChangeAll ==
  ASSUME ConnsInv, NEW c \in Conns, NEW r \in ConnRecs, conns' = [conns EXCEPT ![c] = r],
         DOMAIN negotiating' \subseteq DOMAIN negotiating,
         \A q \in DOMAIN negotiating' : negotiating'[q] = negotiating[q],
         r.reader \/ r.writer => r.peer \in PeerIds
  PROVE  /\ ConnsInv' /\ conns'[c] = r /\ \A d \in Conns : d # c => conns'[d] = conns[d]
BY DEF ConnsInv

\* The protocol is negotiated on a connection, or the connection is dropped.
LEMMA UpgradeConn ==
  ASSUME GossipInv, PlacesInv, NEW c \in Conns, UpgradeCompleted(c)
  PROVE  /\ ConnsInv' /\ conns[c].state = "open" /\ ~ conns'[c].reader /\ ~ conns'[c].writer
         /\ \A d \in Conns : d # c => conns'[d] = conns[d]
         /\ \/ internal_events' = internal_events
            \/ \E e \in Establishments :
                 /\ internal_events' = Append(internal_events, e) /\ e.conn = c
                 /\ conns'[c].peer = e.peer /\ conns'[c].state = "upgraded"
         /\ UNCHANGED <<peers, banned_peers, banned_addrs, commands, internal_commands, events,
                        command_steps, event_steps>>
<1> DEFINE p == conns[c].peer
           e == [kind |-> "ProtocolEstablished", peer |-> p, conn |-> c,
                 addr |-> conns[negotiating[p]].addr]
<1>1. conns[c].state = "open" /\ ~ conns[c].reader /\ ~ conns[c].writer
  BY DEF UpgradeCompleted, PlacesInv, StatesInv
<1>2. UNCHANGED <<peers, banned_peers, banned_addrs, commands, internal_commands, events,
                  command_steps, event_steps>>
  BY DEF UpgradeCompleted, Network
<1>3. conns \in [Conns -> ConnRecs] /\ conns[c] \in ConnRecs  BY DEF GossipInv, ConnsInv
<1>4. CASE p \in DOMAIN negotiating
  <2>1. /\ internal_events' = Append(internal_events, e)
        /\ negotiating' = Keeping(negotiating, PeerIds \ {p})
        /\ conns' = [conns EXCEPT ![c].state = "upgraded"]
    BY <1>4 DEF UpgradeCompleted
  <2>2. p \in PeerIds /\ negotiating[p] \in Conns  BY <1>4 DEF GossipInv, ConnsInv
  <2>3. conns[negotiating[p]].addr \in Addrs \cup {NoConn}  BY <1>3, <2>2 DEF ConnRecs
  <2>4. e \in Establishments /\ e.conn = c /\ e.peer = p  BY <2>2, <2>3 DEF Establishments
  <2> DEFINE r == [conns[c] EXCEPT !.state = "upgraded"]
  <2>5. r \in ConnRecs /\ ~ r.reader /\ ~ r.writer /\ r.peer = p /\ r.state = "upgraded"
    BY <1>1, <1>3 DEF ConnRecs
  <2>6. conns' = [conns EXCEPT ![c] = r]  BY <1>3, <2>1
  <2> HIDE DEF r, e, p
  <2>7. /\ DOMAIN negotiating' \subseteq DOMAIN negotiating
        /\ \A q \in DOMAIN negotiating' : negotiating'[q] = negotiating[q]
    BY <2>1 DEF Keeping
  <2>8. /\ ConnsInv' /\ conns'[c] = r /\ \A d \in Conns : d # c => conns'[d] = conns[d]
    BY <2>5, <2>6, <2>7, ConnsChangeAll DEF GossipInv
  <2> QED  BY <1>1, <1>2, <2>1, <2>4, <2>5, <2>8
<1>5. CASE p \notin DOMAIN negotiating
  <2>1. conns' = [conns EXCEPT ![c] = Ended(conns[c])] /\ UNCHANGED <<internal_events, negotiating>>
    BY <1>3, <1>5 DEF UpgradeCompleted
  <2>2. Ended(conns[c]) \in ConnRecs /\ ~ Ended(conns[c]).reader /\ ~ Ended(conns[c]).writer
    BY <1>1, <1>3, EndedConn
  <2>3. /\ ConnsInv' /\ conns'[c] = Ended(conns[c])
        /\ \A d \in Conns : d # c => conns'[d] = conns[d]
    BY <2>1, <2>2, ConnsChangeAll DEF GossipInv
  <2> QED  BY <1>1, <1>2, <2>1, <2>2, <2>3
<1> QED  BY <1>4, <1>5

\* A negotiated connection is announced to the event processor.
LEMMA UpgradeKeeps ==
  ASSUME GossipInv, PlacesInv, NEW c \in Conns, UpgradeCompleted(c), UNCHANGED manager
  PROVE  GossipInv'
<1>1. internal_events \in Seq(Establishments \cup Losses)  BY DEF GossipInv, QueuesInv
<1>2. internal_events' \in Seq(Establishments \cup Losses)  BY <1>1, UpgradeConn
<1>3. QueuesInv'  BY <1>2, UpgradeConn DEF GossipInv, QueuesInv
<1> QED  BY <1>3, UpgradeConn, PeersFrame, EventsFrame, TableFrame DEF GossipInv

\* A connection breaks.
LEMMA LostConn ==
  ASSUME ConnsInv, NEW c \in Conns, ConnectionLost(c)
  PROVE  /\ ConnsInv' /\ conns[c].state \in {"open", "upgraded"} /\ conns'[c].state = "closed"
         /\ \A d \in Conns : d # c => conns'[d] = conns[d]
         /\ conns'[c].peer = conns[c].peer /\ conns'[c].reader = conns[c].reader
         /\ conns'[c].writer = conns[c].writer /\ conns'[c].received = conns[c].received
         /\ conns'[c].shutdown = conns[c].shutdown
         /\ UNCHANGED <<peers, banned_peers, banned_addrs, commands, internal_commands, events,
                        command_steps, event_steps, internal_events>>
<1>1. conns \in [Conns -> ConnRecs] /\ conns[c] \in ConnRecs  BY DEF ConnsInv
<1> DEFINE r == [conns[c] EXCEPT !.state = "closed"]
<1>2. /\ r \in ConnRecs /\ r.state = "closed" /\ r.peer = conns[c].peer /\ r.shutdown = conns[c].shutdown
      /\ r.reader = conns[c].reader /\ r.writer = conns[c].writer /\ r.received = conns[c].received
  BY <1>1 DEF ConnRecs
<1>3. conns' = [conns EXCEPT ![c] = r] /\ UNCHANGED negotiating  BY <1>1 DEF ConnectionLost
<1>4. /\ conns[c].state \in {"open", "upgraded"}
      /\ UNCHANGED <<peers, banned_peers, banned_addrs, commands, internal_commands, events,
                     command_steps, event_steps, internal_events>>
  BY DEF ConnectionLost, Network
<1> HIDE DEF r
<1>5. r.reader \/ r.writer => r.peer \in PeerIds  BY <1>2 DEF ConnsInv
<1>6. /\ ConnsInv' /\ conns'[c] = r /\ \A d \in Conns : d # c => conns'[d] = conns[d]
  BY <1>2, <1>3, <1>5, ConnsChange
<1> QED  BY <1>2, <1>4, <1>6

\* A broken connection changes its state only.
LEMMA ConnectionLostKeeps ==
  ASSUME GossipInv, NEW c \in Conns, ConnectionLost(c), UNCHANGED manager
  PROVE  GossipInv'
BY LostConn, PeersFrame, QueuesFrame, EventsFrame, TableFrame DEF GossipInv

\* The announcement that a connection is lost.
LEMMA DroppedEvent ==
  ASSUME ConnsInv, NEW c \in Conns, conns[c].reader \/ conns[c].writer
  PROVE  /\ StreamDropped(c) \in Losses /\ StreamDropped(c).peer = conns[c].peer
         /\ StreamDropped(c).kind = "ProtocolDropped"
BY DEF ConnsInv, StreamDropped, Losses

\* The task that reads a connection ends.
LEMMA ReaderConn ==
  ASSUME ConnsInv, NEW c \in Conns, ReaderEnds(c)
  PROVE  /\ ConnsInv' /\ conns[c].reader /\ ~ conns'[c].reader
         /\ \A d \in Conns : d # c => conns'[d] = conns[d]
         /\ conns'[c].writer = conns[c].writer /\ conns'[c].state \in {conns[c].state, "closed"}
         /\ conns[c].writer => /\ conns'[c].peer = conns[c].peer /\ conns'[c].state = conns[c].state
                               /\ conns'[c].shutdown = conns[c].shutdown
         /\ \/ internal_events' = Append(internal_events, StreamDropped(c))
            \/ internal_events' = internal_events /\ ~ conns[c].received
         /\ UNCHANGED <<peers, banned_peers, banned_addrs, commands, internal_commands, events,
                        command_steps, event_steps>>
<1>1. conns \in [Conns -> ConnRecs] /\ conns[c] \in ConnRecs  BY DEF ConnsInv
<1> DEFINE r == [conns[c] EXCEPT !.reader = FALSE]
<1>2. /\ r \in ConnRecs /\ r.state = conns[c].state /\ r.peer = conns[c].peer /\ ~ r.reader
      /\ r.writer = conns[c].writer /\ r.shutdown = conns[c].shutdown
  BY <1>1 DEF ConnRecs
<1>3. conns' = [conns EXCEPT ![c] = Ended(r)] /\ UNCHANGED negotiating  BY <1>1 DEF ReaderEnds, Io
<1>4. /\ conns[c].reader
      /\ \/ internal_events' = Append(internal_events, StreamDropped(c))
         \/ internal_events' = internal_events /\ ~ conns[c].received
      /\ UNCHANGED <<peers, banned_peers, banned_addrs, commands, internal_commands, events,
                     command_steps, event_steps>>
  BY DEF ReaderEnds, Io, Network
<1> HIDE DEF r
<1> DEFINE e == Ended(r)
<1>5. /\ e \in ConnRecs /\ ~ e.reader /\ e.writer = r.writer /\ e.state \in {r.state, "closed"}
      /\ r.writer => e.peer = r.peer /\ e.state = r.state /\ e.shutdown = r.shutdown
  BY <1>2, EndedConn
<1>6. conns' = [conns EXCEPT ![c] = e]  BY <1>3
<1> HIDE DEF e
<1>7. e.reader \/ e.writer => e.peer \in PeerIds  BY <1>2, <1>5 DEF ConnsInv
<1>8. /\ ConnsInv' /\ conns'[c] = e /\ \A d \in Conns : d # c => conns'[d] = conns[d]
  BY <1>3, <1>5, <1>6, <1>7, ConnsChange
<1> QED  BY <1>2, <1>4, <1>5, <1>8

\* The task that writes a connection ends.
LEMMA WriterConn ==
  ASSUME ConnsInv, NEW c \in Conns, WriterShutdown(c) \/ WriterEnds(c, Holders)
  PROVE  /\ ConnsInv' /\ conns[c].writer /\ ~ conns'[c].writer
         /\ \A d \in Conns : d # c => conns'[d] = conns[d]
         /\ conns'[c].reader = conns[c].reader /\ conns'[c].state \in {conns[c].state, "closed"}
         /\ conns[c].reader => /\ conns'[c].peer = conns[c].peer /\ conns'[c].state = conns[c].state
                               /\ conns'[c].received = conns[c].received
         /\ \/ internal_events' = Append(internal_events, StreamDropped(c))
            \/ /\ internal_events' = internal_events
               /\ conns[c].state = "closed" \/ ~ (SendersOf(c, Holders) \/ conns[c].shutdown)
         /\ UNCHANGED <<peers, banned_peers, banned_addrs, commands, internal_commands, events,
                        command_steps, event_steps>>
<1>1. conns \in [Conns -> ConnRecs] /\ conns[c] \in ConnRecs  BY DEF ConnsInv
<1> DEFINE r == [conns[c] EXCEPT !.writer = FALSE]
<1>2. /\ r \in ConnRecs /\ r.state = conns[c].state /\ r.peer = conns[c].peer /\ ~ r.writer
      /\ r.reader = conns[c].reader /\ r.received = conns[c].received
  BY <1>1 DEF ConnRecs
<1>3. conns' = [conns EXCEPT ![c] = Ended(r)] /\ UNCHANGED negotiating
  BY <1>1 DEF WriterShutdown, WriterEnds, Io
<1>4. /\ conns[c].writer
      /\ \/ internal_events' = Append(internal_events, StreamDropped(c))
         \/ /\ internal_events' = internal_events
            /\ conns[c].state = "closed" \/ ~ (SendersOf(c, Holders) \/ conns[c].shutdown)
      /\ UNCHANGED <<peers, banned_peers, banned_addrs, commands, internal_commands, events,
                     command_steps, event_steps>>
  BY DEF WriterShutdown, WriterEnds, Io, Network, announce_shutdown
<1> HIDE DEF r
<1> DEFINE e == Ended(r)
<1>5. /\ e \in ConnRecs /\ ~ e.writer /\ e.reader = r.reader /\ e.state \in {r.state, "closed"}
      /\ r.reader => e.peer = r.peer /\ e.state = r.state /\ e.received = r.received
  BY <1>2, EndedConn
<1>6. conns' = [conns EXCEPT ![c] = e]  BY <1>3
<1> HIDE DEF e
<1>7. e.reader \/ e.writer => e.peer \in PeerIds  BY <1>2, <1>5 DEF ConnsInv
<1>8. /\ ConnsInv' /\ conns'[c] = e /\ \A d \in Conns : d # c => conns'[d] = conns[d]
  BY <1>3, <1>5, <1>6, <1>7, ConnsChange
<1> QED  BY <1>2, <1>4, <1>5, <1>8

\* The end of a task, with or without an announcement.
LEMMA TasksKeep ==
  ASSUME GossipInv, NEW c \in Conns, UNCHANGED manager,
         ReaderEnds(c) \/ WriterShutdown(c) \/ WriterEnds(c, Holders)
  PROVE  GossipInv'
<1>1. internal_events \in Seq(Establishments \cup Losses)  BY DEF GossipInv, QueuesInv
<1>2. /\ ConnsInv'
      /\ internal_events' \in {internal_events, Append(internal_events, StreamDropped(c))}
      /\ conns[c].reader \/ conns[c].writer
      /\ UNCHANGED <<peers, banned_peers, banned_addrs, commands, internal_commands, events,
                     command_steps, event_steps>>
  BY ReaderConn, WriterConn DEF GossipInv
<1>3. StreamDropped(c) \in Losses  BY <1>2, DroppedEvent DEF GossipInv
<1>4. internal_events' \in Seq(Establishments \cup Losses)  BY <1>1, <1>2, <1>3
<1>5. QueuesInv'  BY <1>2, <1>4 DEF GossipInv, QueuesInv
<1> QED  BY <1>2, <1>5, PeersFrame, EventsFrame, TableFrame DEF GossipInv

\* A worker of the peer manager ends.
LEMMA WorkerConn ==
  ASSUME ConnsInv, NEW c \in Conns \cup {NoConn}, conns' = WorkerEnds(c), UNCHANGED negotiating
  PROVE  /\ ConnsInv' /\ \A d \in Conns : d # c => conns'[d] = conns[d]
         /\ \A d \in Conns :
              /\ conns'[d].peer = conns[d].peer /\ conns'[d].state = conns[d].state
              /\ conns'[d].reader = conns[d].reader /\ conns'[d].writer = conns[d].writer
              /\ conns'[d].shutdown = conns[d].shutdown
<1>1. CASE c = NoConn
  <2>1. conns' = conns  BY <1>1 DEF WorkerEnds
  <2> QED  BY <2>1 DEF ConnsInv
<1>2. CASE c # NoConn
  <2>1. c \in Conns /\ conns \in [Conns -> ConnRecs] /\ conns[c] \in ConnRecs  BY <1>2 DEF ConnsInv
  <2> DEFINE r == [conns[c] EXCEPT !.received = FALSE]
  <2>2. /\ r \in ConnRecs /\ r.state = conns[c].state /\ r.peer = conns[c].peer
        /\ r.reader = conns[c].reader /\ r.writer = conns[c].writer /\ r.shutdown = conns[c].shutdown
    BY <2>1 DEF ConnRecs
  <2>3. conns' = [conns EXCEPT ![c] = r]  BY <1>2, <2>1 DEF WorkerEnds
  <2> HIDE DEF r
  <2>4. r.reader \/ r.writer => r.peer \in PeerIds  BY <2>1, <2>2 DEF ConnsInv
  <2>5. /\ ConnsInv' /\ conns'[c] = r /\ \A d \in Conns : d # c => conns'[d] = conns[d]
    BY <2>1, <2>2, <2>3, <2>4, ConnsChange
  <2> QED  BY <2>2, <2>5
<1> QED  BY <1>1, <1>2

\* The event that the peer manager handles, and what it does with it.
LEMMA HandledEvent ==
  ASSUME GossipInv, NEW kind, Handling(kind)
  PROVE  /\ Head(events) \in AllEvents /\ events # <<>> /\ events' = Tail(events) /\ EventsInv'
         /\ EventPeer \in PeerIds /\ Held(EventPeer) \in Conns \cup {NoConn}
         /\ Head(events).conn \in Conns \cup {NoConn}
         /\ kind = "PeerConnected" => Head(events).conn \in Conns
         /\ UNCHANGED <<peers, banned_peers, banned_addrs, commands, internal_commands,
                        internal_events, command_steps, event_steps, negotiating>>
         /\ Head(events).kind = kind
<1>1. /\ events # <<>> /\ events' = Tail(events) /\ Head(events).kind = kind
      /\ UNCHANGED <<peers, banned_peers, banned_addrs, commands, internal_commands,
                     internal_events, command_steps, event_steps, negotiating>>
  BY DEF Handling
<1>2. events \in Seq(AllEvents)  BY DEF GossipInv, EventsInv
<1>3. Head(events) \in AllEvents /\ Tail(events) \in Seq(AllEvents)  BY <1>1, <1>2
<1>4. EventsInv'  BY <1>1, <1>3 DEF GossipInv, EventsInv
<1>5. /\ Head(events).conn \in Conns \cup {NoConn} /\ EventPeer \in PeerIds
      /\ kind = "PeerConnected" => Head(events).conn \in Conns
  BY <1>1, <1>3 DEF AllEvents, Notices, EventPeer
<1>6. Held(EventPeer) \in Conns \cup {NoConn}  BY DEF Held, GossipInv, TableInv
<1> QED  BY <1>1, <1>3, <1>4, <1>5, <1>6

\* The peer manager handles an event.
LEMMA ManagerKeeps ==
  ASSUME GossipInv, PeerAdded \/ PeerRemoved \/ PeerConnected \/ PeerDisconnected
  PROVE  GossipInv'
<1> DEFINE c == Head(events).conn
<1>1. TableInv /\ ConnsInv  BY DEF GossipInv
<1>2. PICK kind : Handling(kind)  BY DEF PeerAdded, PeerRemoved, PeerConnected, PeerDisconnected
<1>3. /\ \/ conns' = WorkerEnds(Held(EventPeer))
         \/ conns' = WorkerEnds(c)
      /\ UNCHANGED negotiating
  BY DEF PeerAdded, PeerRemoved, PeerConnected, PeerDisconnected, Handling
<1>4. ConnsInv'  BY <1>1, <1>2, <1>3, HandledEvent, WorkerConn
<1>5. TableInv'
  <2>1. CASE PeerAdded
    <3>1. manager' = WithKey(manager, EventPeer, NoConn)  BY <2>1 DEF PeerAdded
    <3> QED  BY <1>1, <1>2, <3>1, HandledEvent DEF TableInv, WithKey
  <2>2. CASE PeerRemoved
    <3>1. manager' = [p \in DOMAIN manager \ {EventPeer} |-> manager[p]]  BY <2>2 DEF PeerRemoved
    <3> QED  BY <1>1, <3>1 DEF TableInv
  <2>3. CASE PeerConnected
    <3>1. c \in Conns /\ manager' \in {manager, [manager EXCEPT ![EventPeer] = c]}
      BY <2>3, HandledEvent DEF PeerConnected
    <3> QED  BY <1>1, <3>1 DEF TableInv
  <2>4. CASE PeerDisconnected
    <3>1. manager' \in {manager, [manager EXCEPT ![EventPeer] = NoConn]}  BY <2>4 DEF PeerDisconnected
    <3> QED  BY <1>1, <3>1 DEF TableInv
  <2> QED  BY <2>1, <2>2, <2>3, <2>4
<1> QED  BY <1>2, <1>4, <1>5, HandledEvent, PeersFrame, QueuesFrame DEF GossipInv

-----------------------------------------------------------------------------
(***************************************************************************)
(* A connection is in one place between its negotiation and the peer       *)
(* manager.                                                                *)
(***************************************************************************)
\* An event is appended.
Appended(s, t, e, kind) ==
  /\ ConnsIn(t, kind) \subseteq ConnsIn(s, kind) \cup {e.conn}
  /\ e.kind # kind => ConnsIn(t, kind) \subseteq ConnsIn(s, kind)
  /\ OnceIn(s, kind) /\ (e.kind = kind => e.conn \notin ConnsIn(s, kind)) => OnceIn(t, kind)
  /\ \A i \in OfKind(t, kind) :
       (i \in OfKind(s, kind) /\ t[i] = s[i]) \/ (i = Len(s) + 1 /\ t[i] = e /\ e.kind = kind)

\* What an appended event changes.
LEMMA AppendPlace ==
  ASSUME NEW S, NEW s \in Seq(S), NEW e \in S, NEW kind
  PROVE  Appended(s, Append(s, e), e, kind)
<1> DEFINE t == Append(s, e)
<1>1. /\ Len(s) \in Nat /\ DOMAIN s = 1 .. Len(s) /\ DOMAIN t = 1 .. Len(s) + 1
      /\ t[Len(s) + 1] = e /\ \A i \in 1 .. Len(s) : t[i] = s[i]
  OBVIOUS
<1> HIDE DEF t
<1>2. \A i \in OfKind(t, kind) :
        (i \in OfKind(s, kind) /\ t[i] = s[i]) \/ (i = Len(s) + 1 /\ t[i] = e /\ e.kind = kind)
  <2> TAKE i \in OfKind(t, kind)
  <2>1. i \in 1 .. Len(s) + 1 /\ t[i].kind = kind  BY <1>1 DEF OfKind
  <2>2. CASE i = Len(s) + 1  BY <1>1, <2>1, <2>2
  <2>3. CASE i \in 1 .. Len(s)
    <3>1. t[i] = s[i] /\ i \in DOMAIN s  BY <1>1, <2>3
    <3> QED  BY <2>1, <3>1 DEF OfKind
  <2> QED  BY <1>1, <2>1, <2>2, <2>3
<1>3. /\ ConnsIn(t, kind) \subseteq ConnsIn(s, kind) \cup {e.conn}
      /\ e.kind # kind => ConnsIn(t, kind) \subseteq ConnsIn(s, kind)
  BY <1>2 DEF ConnsIn
<1>4. ASSUME OnceIn(s, kind), e.kind = kind => e.conn \notin ConnsIn(s, kind)
      PROVE  OnceIn(t, kind)
  <2> SUFFICES ASSUME NEW i \in OfKind(t, kind), NEW j \in OfKind(t, kind), t[i].conn = t[j].conn
               PROVE  i = j
    BY DEF OnceIn
  <2>1. \A k \in OfKind(s, kind) : s[k].conn \in ConnsIn(s, kind)  BY DEF ConnsIn
  <2>2. CASE i \in OfKind(s, kind) /\ t[i] = s[i] /\ j \in OfKind(s, kind) /\ t[j] = s[j]
    <3>1. s[i].conn = s[j].conn  BY <2>2
    <3> QED  BY <1>4, <2>2, <3>1 DEF OnceIn
  <2>3. i = Len(s) + 1 /\ t[i] = e /\ e.kind = kind => ~ (j \in OfKind(s, kind) /\ t[j] = s[j])
    BY <1>4, <2>1
  <2>4. j = Len(s) + 1 /\ t[j] = e /\ e.kind = kind => ~ (i \in OfKind(s, kind) /\ t[i] = s[i])
    BY <1>4, <2>1
  <2> QED  BY <1>2, <2>2, <2>3, <2>4
<1> QED  BY <1>2, <1>3, <1>4 DEF Appended, t

\* The first event is taken.
Taken(s, t, kind) ==
  /\ ConnsIn(t, kind) \subseteq ConnsIn(s, kind)
  /\ Head(s).kind = kind => Head(s).conn \in ConnsIn(s, kind)
  /\ OnceIn(s, kind) => /\ OnceIn(t, kind)
                        /\ Head(s).kind = kind => Head(s).conn \notin ConnsIn(t, kind)
  /\ \A i \in OfKind(t, kind) : i + 1 \in OfKind(s, kind) /\ t[i] = s[i + 1]

\* What taking the first event changes.
LEMMA TailPlace ==
  ASSUME NEW S, NEW s \in Seq(S), s # <<>>, NEW kind
  PROVE  Taken(s, Tail(s), kind)
<1> DEFINE t == Tail(s)
<1>1. /\ Len(s) \in Nat /\ DOMAIN s = 1 .. Len(s) /\ DOMAIN t = 1 .. Len(s) - 1
      /\ Len(s) # 0 /\ Head(s) = s[1] /\ \A i \in 1 .. Len(s) - 1 : t[i] = s[i + 1]
  OBVIOUS
<1> HIDE DEF t
<1>2. \A i \in OfKind(t, kind) : i \in Nat /\ i + 1 \in OfKind(s, kind) /\ t[i] = s[i + 1] /\ i # 0
  BY <1>1 DEF OfKind
<1>3. ConnsIn(t, kind) \subseteq ConnsIn(s, kind)
  <2> SUFFICES ASSUME NEW i \in OfKind(t, kind)  PROVE t[i].conn \in ConnsIn(s, kind)
    BY DEF ConnsIn
  <2> DEFINE k == i + 1
  <2>1. k \in OfKind(s, kind) /\ t[i] = s[k]  BY <1>2
  <2> HIDE DEF k
  <2> QED  BY <2>1 DEF ConnsIn
<1>4. Head(s).kind = kind => 1 \in OfKind(s, kind)  BY <1>1 DEF OfKind
<1>5. Head(s).kind = kind => Head(s).conn \in ConnsIn(s, kind)  BY <1>1, <1>4 DEF ConnsIn
<1>6. ASSUME OnceIn(s, kind)
      PROVE  OnceIn(t, kind) /\ (Head(s).kind = kind => Head(s).conn \notin ConnsIn(t, kind))
  <2>1. ASSUME NEW i \in OfKind(t, kind), NEW j \in OfKind(t, kind), t[i].conn = t[j].conn
        PROVE  i = j
    <3> DEFINE k == i + 1
               l == j + 1
    <3>1. k \in OfKind(s, kind) /\ t[i] = s[k] /\ l \in OfKind(s, kind) /\ t[j] = s[l]  BY <1>2
    <3>2. k = l => i = j  BY <1>2
    <3> HIDE DEF k, l
    <3>3. s[k].conn = s[l].conn  BY <2>1, <3>1
    <3> QED  BY <1>6, <3>1, <3>2, <3>3 DEF OnceIn
  <2>2. OnceIn(t, kind)  BY <2>1 DEF OnceIn
  <2>3. ASSUME Head(s).kind = kind, NEW i \in OfKind(t, kind), t[i].conn = Head(s).conn  PROVE FALSE
    <3>1. i + 1 = 1  BY <1>1, <1>2, <1>4, <1>6, <2>3 DEF OnceIn
    <3> QED  BY <1>2, <3>1
  <2> QED  BY <2>2, <2>3 DEF ConnsIn
<1> QED  BY <1>2, <1>3, <1>5, <1>6 DEF Taken, t

\* Nothing is in a new place.
LEMMA ApartKeeps ==
  ASSUME ApartInv, Negotiated' \subseteq Negotiated, Announced' \subseteq Announced,
         Announcing' \subseteq Announcing, HeldConns' \subseteq HeldConns
  PROVE  ApartInv' /\ Placed' \subseteq Placed
BY DEF ApartInv, Placed

\* Connections change within the states of their place.
LEMMA StatesKeep ==
  ASSUME StatesInv, Placed' \subseteq Placed,
         \A c \in Placed' : conns'[c].state \in {conns[c].state, "closed"},
         \A c \in Conns : conns'[c].state \in {"unused", "open"} => ~ conns'[c].reader /\ ~ conns'[c].writer,
         \A i \in OfKind(internal_events', "ProtocolEstablished") :
           \E j \in OfKind(internal_events, "ProtocolEstablished") :
             internal_events'[i] = internal_events[j],
         \A c \in Negotiated' : /\ conns'[c].peer = conns[c].peer
                                /\ conns'[c].reader = conns[c].reader
                                /\ conns'[c].writer = conns[c].writer
  PROVE  StatesInv'
<1>1. \A c \in Placed' : conns'[c].state \in {"upgraded", "closed"}  BY DEF StatesInv
<1>2. ASSUME NEW i \in OfKind(internal_events', "ProtocolEstablished")
      PROVE  LET c == internal_events'[i].conn IN
             conns'[c].peer = internal_events'[i].peer /\ ~ conns'[c].reader /\ ~ conns'[c].writer
  <2> DEFINE c == internal_events'[i].conn
  <2>1. c \in Negotiated'  BY <1>2 DEF Negotiated, ConnsIn
  <2>2. PICK j \in OfKind(internal_events, "ProtocolEstablished") : internal_events'[i] = internal_events[j]
    BY <1>2
  <2>3. conns[c].peer = internal_events[j].peer /\ ~ conns[c].reader /\ ~ conns[c].writer
    BY <2>2 DEF StatesInv
  <2> QED  BY <2>1, <2>2, <2>3
<1>3. \A i \in OfKind(internal_events, "ProtocolEstablished")' :
        LET c == internal_events'[i].conn IN
        conns'[c].peer = internal_events'[i].peer /\ ~ conns'[c].reader /\ ~ conns'[c].writer
  BY <1>2 DEF OfKind
<1> QED  BY <1>1, <1>3 DEF StatesInv

\* The places after a step.
LEMMA PlacesNext ==
  /\ Negotiated' = ConnsIn(internal_events', "ProtocolEstablished")
  /\ Announced' = ConnsIn(events', "PeerConnected") /\ Announcing' = ConnsIn(event_steps', "PeerConnected")
  /\ Placed' = Negotiated' \cup Announced' \cup Announcing' \cup HeldConns'
BY DEF Negotiated, Announced, Announcing, Placed, ConnsIn, OfKind

\* OnceInv after a step, part by part.
LEMMA OnceNext ==
  ASSUME OnceIn(internal_events', "ProtocolEstablished"), OnceIn(events', "PeerConnected"),
         \A p, q \in DOMAIN manager' : manager'[p] = manager'[q] /\ manager'[p] # NoConn => p = q,
         \A i \in OfKind(event_steps', "PeerConnected") : i = Len(event_steps')
  PROVE  OnceInv'
BY DEF OnceInv, OnceIn, OfKind

\* Only the connections change.
LEMMA PlacesSame ==
  ASSUME UNCHANGED <<internal_events, events, event_steps, manager>>
  PROVE  /\ Negotiated' = Negotiated /\ Announced' = Announced /\ Announcing' = Announcing
         /\ HeldConns' = HeldConns /\ Placed' = Placed /\ (OnceInv => OnceInv') /\ (ApartInv => ApartInv')
<1>1. /\ Negotiated' = Negotiated /\ Announced' = Announced /\ Announcing' = Announcing
      /\ HeldConns' = HeldConns
  BY DEF Negotiated, Announced, Announcing, HeldConns, Holders, ConnsIn, OfKind
<1>2. OnceInv => OnceInv'  BY DEF OnceInv, OnceIn, OfKind
<1> QED  BY <1>1, <1>2 DEF Placed, ApartInv

\* What does not concern the places keeps them.
LEMMA PlacesFrame ==
  ASSUME PlacesInv, UNCHANGED <<internal_events, events, event_steps, manager, conns>>
  PROVE  PlacesInv'
<1>1. OnceInv' /\ ApartInv' /\ Placed' = Placed  BY PlacesSame DEF PlacesInv
<1>2. StatesInv'  BY <1>1 DEF PlacesInv, StatesInv, OfKind
<1> QED  BY <1>1, <1>2 DEF PlacesInv

\* Only connections are in a place.
LEMMA PlacedConns == ASSUME GossipInv  PROVE Placed \subseteq Conns
<1>1. Negotiated \subseteq Conns
  BY DEF GossipInv, QueuesInv, Negotiated, ConnsIn, OfKind, Establishments, Losses
<1>2. Announced \subseteq Conns /\ Announcing \subseteq Conns
  BY DEF GossipInv, EventsInv, Announced, Announcing, ConnsIn, OfKind, AllEvents, Notices
<1>3. HeldConns \subseteq Conns  BY DEF GossipInv, TableInv, HeldConns, Holders
<1> QED  BY <1>1, <1>2, <1>3 DEF Placed

\* Connections that are in no place change at will, the others are closed at most.
LEMMA ConnsOnly ==
  ASSUME GossipInv, PlacesInv, UNCHANGED <<internal_events, events, event_steps, manager>>,
         \A d \in Placed : /\ conns'[d].state \in {conns[d].state, "closed"}
                           /\ conns'[d].peer = conns[d].peer /\ conns'[d].reader = conns[d].reader
                           /\ conns'[d].writer = conns[d].writer,
         \A d \in Conns : conns'[d].state \in {"unused", "open"} => ~ conns'[d].reader /\ ~ conns'[d].writer
  PROVE  PlacesInv'
<1>1. OnceInv' /\ ApartInv' /\ Placed' = Placed /\ Negotiated' = Negotiated
  BY PlacesSame DEF PlacesInv
<1>2. Negotiated \subseteq Placed  BY DEF Placed
<1>3. StatesInv'  BY <1>1, <1>2, StatesKeep DEF PlacesInv
<1> QED  BY <1>1, <1>3 DEF PlacesInv

\* A command publishes a notice or shuts a connection down.
LEMMA CommandStepPlaces ==
  ASSUME GossipInv, PlacesInv, CommandStep, UNCHANGED manager  PROVE PlacesInv'
<1> DEFINE step == Head(command_steps)
<1>1. /\ events' = IF step.do = "publish" THEN Append(events, step.event) ELSE events
      /\ conns' = IF step.do = "shutdown"
                  THEN [conns EXCEPT ![step.arg].shutdown = conns[step.arg].writer] ELSE conns
      /\ UNCHANGED <<internal_events, event_steps, negotiating>>
  BY DEF CommandStep
<1>2. step \in Steps
  <2>1. command_steps \in Seq(Steps) /\ command_steps # <<>>
    BY DEF GossipInv, QueuesInv, CommandStep
  <2> QED  BY <2>1
<1> HIDE DEF step
<1>3. CASE step.do \notin {"publish", "shutdown"}  BY <1>1, <1>3, PlacesFrame
<1>4. CASE step.do = "publish"
  <2> DEFINE e == step.event
  <2>1. e \in Notices  BY <1>2, <1>4, StepKinds
  <2>2. e \in AllEvents /\ e.kind # "PeerConnected"  BY <2>1 DEF AllEvents, Notices
  <2>3. events' = Append(events, e) /\ UNCHANGED <<internal_events, event_steps, conns>>
    BY <1>1, <1>4
  <2>4. events \in Seq(AllEvents)  BY DEF GossipInv, EventsInv
  <2> HIDE DEF e
  <2>5. Appended(events, events', e, "PeerConnected")
    <3>1. Appended(events, Append(events, e), e, "PeerConnected")  BY <2>2, <2>4, AppendPlace
    <3> QED  BY <2>3, <3>1
  <2>6. OnceInv'
    <3>1. OnceIn(events', "PeerConnected")  BY <2>2, <2>5 DEF PlacesInv, OnceInv, Appended
    <3> QED  BY <2>3, <3>1 DEF PlacesInv, OnceInv, OnceIn, OfKind
  <2>7. /\ Negotiated' = Negotiated /\ Announced' \subseteq Announced /\ Announcing' = Announcing
        /\ HeldConns' = HeldConns
    <3>1. ConnsIn(events', "PeerConnected") \subseteq ConnsIn(events, "PeerConnected")
      BY <2>2, <2>5 DEF Appended
    <3> QED  BY <2>3, <3>1 DEF Negotiated, Announced, Announcing, HeldConns, Holders, ConnsIn, OfKind
  <2>8. ApartInv' /\ Placed' \subseteq Placed  BY <2>7, ApartKeeps DEF PlacesInv
  <2>9. StatesInv'  BY <2>3, <2>8 DEF PlacesInv, StatesInv, OfKind
  <2> QED  BY <2>6, <2>8, <2>9 DEF PlacesInv
<1>5. CASE step.do = "shutdown"
  <2> DEFINE c == step.arg
  <2>1. c \in Conns  BY <1>2, <1>5, StepKinds
  <2>2. /\ UNCHANGED <<internal_events, events, event_steps, negotiating>>
        /\ conns' = [conns EXCEPT ![c].shutdown = conns[c].writer]
    BY <1>1, <1>5
  <2> HIDE DEF c
  <2>3. \A d \in Conns : /\ conns'[d].peer = conns[d].peer /\ conns'[d].state = conns[d].state
                         /\ conns'[d].reader = conns[d].reader /\ conns'[d].writer = conns[d].writer
    BY <2>1, <2>2, ConnsShutdown DEF GossipInv
  <2>4. \A d \in Conns : conns'[d].state \in {"unused", "open"} => ~ conns'[d].reader /\ ~ conns'[d].writer
    BY <2>3 DEF PlacesInv, StatesInv
  <2> QED  BY <2>2, <2>3, <2>4, ConnsOnly, PlacedConns
<1> QED  BY <1>3, <1>4, <1>5

\* A connection moves from the event processor to the events.
LEMMA EventStepPlaces ==
  ASSUME GossipInv, PlacesInv, EventStep, UNCHANGED manager  PROVE PlacesInv'
<1> DEFINE e == Head(event_steps)
<1>1. /\ event_steps # <<>> /\ event_steps' = Tail(event_steps) /\ events' = Append(events, e)
      /\ UNCHANGED <<internal_events, conns>>
  BY DEF EventStep
<1>2. events \in Seq(AllEvents) /\ event_steps \in Seq(AllEvents) /\ e \in AllEvents
  BY <1>1 DEF GossipInv, EventsInv
<1>3. Appended(events, events', e, "PeerConnected")
  <2>1. Appended(events, Append(events, e), e, "PeerConnected")  BY <1>2, AppendPlace
  <2> QED  BY <1>1, <2>1
<1>4. Taken(event_steps, event_steps', "PeerConnected")
  <2>1. Taken(event_steps, Tail(event_steps), "PeerConnected")  BY <1>1, <1>2, TailPlace
  <2> QED  BY <1>1, <2>1
<1>5. e.kind = "PeerConnected" => OfKind(event_steps', "PeerConnected") = {}
  <2> SUFFICES ASSUME e.kind = "PeerConnected"  PROVE OfKind(event_steps', "PeerConnected") = {}
    OBVIOUS
  <2>1. 1 \in OfKind(event_steps, "PeerConnected")  BY <1>1, <1>2 DEF OfKind
  <2>2. Len(event_steps) = 1  BY <2>1 DEF PlacesInv, OnceInv
  <2>3. event_steps' = <<>>  BY <1>1, <1>2, <2>2
  <2> QED  BY <2>3 DEF OfKind
<1>6. e.kind = "PeerConnected" => e.conn \in Announcing
  BY <1>4 DEF Taken, Announcing
<1> HIDE DEF e
<1>7. OnceInv'
  <2>1. OnceIn(events', "PeerConnected")
    BY <1>3, <1>6 DEF Appended, PlacesInv, OnceInv, ApartInv, Announced
  <2>2. OnceIn(internal_events', "ProtocolEstablished")  BY <1>1 DEF PlacesInv, OnceInv
  <2>3. \A p, q \in DOMAIN manager' : manager'[p] = manager'[q] /\ manager'[p] # NoConn => p = q
    BY DEF PlacesInv, OnceInv
  <2>4. \A i \in OfKind(event_steps', "PeerConnected") : i = Len(event_steps')
    <3> TAKE i \in OfKind(event_steps', "PeerConnected")
    <3>1. i + 1 \in OfKind(event_steps, "PeerConnected")  BY <1>4 DEF Taken
    <3>2. i + 1 = Len(event_steps)  BY <3>1 DEF PlacesInv, OnceInv
    <3>3. i \in DOMAIN event_steps'  BY DEF OfKind
    <3> QED  BY <1>1, <1>2, <3>2, <3>3
  <2> QED  BY <2>1, <2>2, <2>3, <2>4, OnceNext
<1>8. /\ Negotiated' = Negotiated /\ HeldConns' = HeldConns /\ Announcing' \subseteq Announcing
      /\ Announced' \subseteq Announced \cup Announcing /\ Announced' \cap Announcing' = {}
  <2>1. Negotiated' = Negotiated /\ HeldConns' = HeldConns
    BY <1>1 DEF Negotiated, HeldConns, Holders, ConnsIn, OfKind
  <2>2. Announcing' \subseteq Announcing  BY <1>4, PlacesNext DEF Taken, Announcing
  <2>3. CASE e.kind = "PeerConnected"
    <3>1. Announcing' = {}  BY <1>5, <2>3, PlacesNext DEF ConnsIn
    <3>2. Announced' \subseteq Announced \cup Announcing
      BY <1>3, <1>6, <2>3, PlacesNext DEF Appended, Announced
    <3> QED  BY <2>1, <2>2, <3>1, <3>2
  <2>4. CASE e.kind # "PeerConnected"
    <3>1. Announced' \subseteq Announced  BY <1>3, <2>4, PlacesNext DEF Appended, Announced
    <3> QED  BY <2>1, <2>2, <3>1 DEF PlacesInv, ApartInv
  <2> QED  BY <2>3, <2>4
<1>9. ApartInv' /\ Placed' \subseteq Placed  BY <1>8 DEF PlacesInv, ApartInv, Placed
<1>10. StatesInv'  BY <1>1, <1>9 DEF PlacesInv, StatesInv, OfKind
<1> QED  BY <1>7, <1>9, <1>10 DEF PlacesInv

\* An internal event is taken, and what is announced does not name a connection.
LEMMA ReceivedPlaces ==
  ASSUME GossipInv, PlacesInv, Receiving, UNCHANGED manager
  PROVE  /\ OnceIn(internal_events', "ProtocolEstablished")
         /\ Taken(internal_events, internal_events', "ProtocolEstablished")
         /\ Announced' = Announced /\ HeldConns' = HeldConns /\ OnceIn(events', "PeerConnected")
         /\ \A p, q \in DOMAIN manager' : manager'[p] = manager'[q] /\ manager'[p] # NoConn => p = q
         /\ Negotiated' \subseteq Negotiated
<1>1. /\ internal_events # <<>> /\ internal_events' = Tail(internal_events) /\ UNCHANGED events
  BY DEF Receiving
<1>2. internal_events \in Seq(Establishments \cup Losses)  BY DEF GossipInv, QueuesInv
<1>3. Taken(internal_events, internal_events', "ProtocolEstablished")
  <2>1. Taken(internal_events, Tail(internal_events), "ProtocolEstablished")  BY <1>1, <1>2, TailPlace
  <2> QED  BY <1>1, <2>1
<1>4. OnceIn(internal_events', "ProtocolEstablished")  BY <1>3 DEF Taken, PlacesInv, OnceInv
<1>5. Negotiated' \subseteq Negotiated  BY <1>3, PlacesNext DEF Taken, Negotiated
<1>6. /\ Announced' = Announced /\ HeldConns' = HeldConns
      /\ OnceIn(events', "PeerConnected")
      /\ \A p, q \in DOMAIN manager' : manager'[p] = manager'[q] /\ manager'[p] # NoConn => p = q
  BY <1>1 DEF PlacesInv, OnceInv, Announced, HeldConns, Holders, ConnsIn, OfKind
<1> QED  BY <1>3, <1>4, <1>5, <1>6

\* The loss of a connection puts no connection in a new place.
LEMMA ProtocolDroppedPlaces ==
  ASSUME GossipInv, PlacesInv, ProtocolDropped, UNCHANGED manager  PROVE PlacesInv'
<1>1. /\ Receiving /\ UNCHANGED conns
      /\ event_steps' = <<Event("PeerDisconnected", Head(internal_events).peer, NoConn)>>
  BY DEF ProtocolDropped
<1>2. OfKind(event_steps', "PeerConnected") = {}  BY <1>1 DEF OfKind, Event
<1>3. OnceInv'  BY <1>1, <1>2, ReceivedPlaces, OnceNext
<1>4. Announcing' = {}  BY <1>2, PlacesNext DEF ConnsIn
<1>5. ApartInv' /\ Placed' \subseteq Placed  BY <1>1, <1>4, ReceivedPlaces, ApartKeeps DEF PlacesInv
<1>6. \A i \in OfKind(internal_events', "ProtocolEstablished") :
        \E j \in OfKind(internal_events, "ProtocolEstablished") : internal_events'[i] = internal_events[j]
  BY <1>1, ReceivedPlaces DEF Taken
<1>7. \A c \in Conns : conns'[c].state \in {"unused", "open"} => ~ conns'[c].reader /\ ~ conns'[c].writer
  BY <1>1 DEF PlacesInv, StatesInv
<1>8. StatesInv'  BY <1>1, <1>5, <1>6, <1>7, StatesKeep DEF PlacesInv
<1> QED  BY <1>3, <1>5, <1>8 DEF PlacesInv

\* Short sequences.
LEMMA ConcatShort ==
  ASSUME NEW x, NEW y  PROVE <<>> \o <<x>> = <<x>> /\ <<y>> \o <<x>> = <<y, x>>
<1> DEFINE S == {x, y}
           one == <<x>>
           two == <<y>> \o <<x>>
<1>1. one \in Seq(S) /\ <<y>> \in Seq(S) /\ <<y, x>> \in Seq(S)  OBVIOUS
<1>2. <<>> \o one = one  BY <1>1
<1>3. /\ two \in Seq(S) /\ Len(two) = 2 /\ two[1] = y /\ two[2] = x  BY <1>1
<1>4. two = <<y, x>>
  <2>1. Len(<<y, x>>) = 2 /\ <<y, x>>[1] = y /\ <<y, x>>[2] = x  OBVIOUS
  <2> HIDE DEF two
  <2> QED  BY <1>1, <1>3, <2>1
<1> QED  BY <1>2, <1>4

\* A connection that is accepted, and one that is not.
Accepted(p, c) ==
  /\ event_steps' \in {<<Event("PeerConnected", p, c)>>,
                       <<Event("PeerAdded", p, NoConn), Event("PeerConnected", p, c)>>}
  /\ p \in DOMAIN peers' /\ peers'[p].conn = c
  /\ \A q \in DOMAIN peers : q # p => q \in DOMAIN peers' /\ peers'[q] = peers[q]
  /\ conns'[c].reader /\ conns'[c].writer /\ conns'[c].received
  /\ conns'[c].peer = p /\ conns'[c].state = conns[c].state
  /\ p \in DOMAIN peers => peers[p].conn = NoConn

Refused(c) ==
  /\ UNCHANGED <<peers, event_steps>>
  /\ ~ conns'[c].reader /\ ~ conns'[c].writer /\ conns'[c].state \in {conns[c].state, "closed"}

\* What the event processor does with a negotiated connection.
LEMMA EstablishmentCases ==
  ASSUME GossipInv, PlacesInv, ProtocolEstablished, UNCHANGED manager,
         NEW p, NEW c, p = Head(internal_events).peer, c = Head(internal_events).conn
  PROVE  /\ p \in PeerIds /\ c \in Conns /\ c \in Negotiated /\ c \notin Negotiated'
         /\ conns[c].state \in {"upgraded", "closed"}
         /\ Accepted(p, c) \/ Refused(c)
         /\ \A d \in Conns : d # c => conns'[d] = conns[d]
<1> DEFINE addr == Head(internal_events).addr
           listed == IF p \in DOMAIN peers THEN peers ELSE WithKey(peers, p, Info(addr, "unknown"))
           added == IF p \in DOMAIN peers THEN <<>> ELSE <<Event("PeerAdded", p, NoConn)>>
<1>1. Receiving /\ Head(internal_events).kind = "ProtocolEstablished"  BY DEF ProtocolEstablished
<1>2. p \in PeerIds /\ c \in Conns /\ internal_events # <<>>  BY <1>1, ReceivedEvent DEF GossipInv
<1>3. Taken(internal_events, internal_events', "ProtocolEstablished")  BY <1>1, ReceivedPlaces
<1>4. c \in Negotiated /\ c \notin Negotiated'
  BY <1>1, <1>3, PlacesNext DEF Taken, Negotiated, PlacesInv, OnceInv
<1>5. conns[c].state \in {"upgraded", "closed"}  BY <1>4 DEF PlacesInv, StatesInv, Placed
<1>6. conns[c].peer = p /\ ~ conns[c].reader /\ ~ conns[c].writer
  <2>1. internal_events \in Seq(Establishments \cup Losses)  BY DEF GossipInv, QueuesInv
  <2>2. 1 \in DOMAIN internal_events /\ internal_events[1] = Head(internal_events)
    BY <1>2, <2>1
  <2>3. 1 \in OfKind(internal_events, "ProtocolEstablished")  BY <1>1, <2>2 DEF OfKind
  <2> QED  BY <2>2, <2>3 DEF PlacesInv, StatesInv
<1>7. \/ /\ accepts_incoming_peer(p, addr) /\ peers' = [listed EXCEPT ![p].conn = c]
         /\ event_steps' = added \o <<Event("PeerConnected", p, c)>>
         /\ conns' = [conns EXCEPT ![c].reader = TRUE, ![c].writer = TRUE, ![c].received = TRUE]
      \/ /\ conns' = [conns EXCEPT ![c] = Ended(conns[c])] /\ UNCHANGED <<peers, event_steps>>
  BY <1>2 DEF ProtocolEstablished
<1>8. conns \in [Conns -> ConnRecs] /\ conns[c] \in ConnRecs  BY <1>2 DEF GossipInv, ConnsInv
<1> HIDE DEF addr
<1>9. CASE /\ accepts_incoming_peer(p, addr) /\ peers' = [listed EXCEPT ![p].conn = c]
           /\ event_steps' = added \o <<Event("PeerConnected", p, c)>>
           /\ conns' = [conns EXCEPT ![c].reader = TRUE, ![c].writer = TRUE, ![c].received = TRUE]
  <2>1. /\ conns'[c].reader /\ conns'[c].writer /\ conns'[c].received
        /\ conns'[c].peer = p /\ conns'[c].state = conns[c].state
        /\ \A d \in Conns : d # c => conns'[d] = conns[d]
    <3> DEFINE r == [conns[c] EXCEPT !.reader = TRUE, !.writer = TRUE, !.received = TRUE]
    <3>1. r.reader /\ r.writer /\ r.received /\ r.peer = p /\ r.state = conns[c].state
      BY <1>6, <1>8 DEF ConnRecs
    <3>2. conns' = [conns EXCEPT ![c] = r]
      <4>1. conns' = [conns EXCEPT ![c].reader = TRUE, ![c].writer = TRUE, ![c].received = TRUE]
        BY <1>9
      <4> QED  BY <1>2, <1>8, <4>1
    <3> HIDE DEF r
    <3> QED  BY <1>2, <1>8, <3>1, <3>2
  <2>2. event_steps' \in {<<Event("PeerConnected", p, c)>>,
                          <<Event("PeerAdded", p, NoConn), Event("PeerConnected", p, c)>>}
    <3> DEFINE x == Event("PeerConnected", p, c)
               y == Event("PeerAdded", p, NoConn)
    <3>1. event_steps' = added \o <<x>> /\ added \in {<<>>, <<y>>}  BY <1>9
    <3> HIDE DEF x, y, added
    <3>2. <<>> \o <<x>> = <<x>> /\ <<y>> \o <<x>> = <<y, x>>  BY ConcatShort
    <3>3. event_steps' \in {<<x>>, <<y, x>>}  BY <3>1, <3>2
    <3> QED  BY <3>3 DEF x, y
  <2>3. peers \in [DOMAIN peers -> PeerRecs]  BY DEF GossipInv, PeersInv
  <2>4. /\ DOMAIN listed = DOMAIN peers \cup {p} /\ \A q \in DOMAIN peers : listed[q] = peers[q]
        /\ listed = [q \in DOMAIN listed |-> listed[q]]
    BY <2>3 DEF WithKey
  <2> HIDE DEF listed
  <2>5. /\ p \in DOMAIN peers' /\ peers'[p] = [listed[p] EXCEPT !.conn = c]
        /\ \A q \in DOMAIN peers : q # p => q \in DOMAIN peers' /\ peers'[q] = peers[q]
    BY <1>9, <2>4
  <2>6. peers'[p].conn = c
    <3>1. listed[p] \in PeerRecs
      <4>1. Head(internal_events) \in Establishments \cup Losses  BY <1>1, ReceivedEvent DEF GossipInv
      <4>2. addr \in Addrs \cup {NoConn}  BY <1>1, <4>1 DEF Establishments, Losses, addr
      <4>3. Info(addr, "unknown") \in PeerRecs  BY <4>2 DEF Info, PeerRecs, Relations
      <4> QED  BY <2>3, <4>3 DEF listed, WithKey
    <3> QED  BY <2>5, <3>1 DEF PeerRecs
  <2>7. p \in DOMAIN peers => peers[p].conn = NoConn
    BY <1>9 DEF accepts_incoming_peer, IsConnected
  <2>8. Accepted(p, c)  BY <2>1, <2>2, <2>5, <2>6, <2>7 DEF Accepted
  <2> QED  BY <1>2, <1>4, <1>5, <2>1, <2>8
<1>10. CASE conns' = [conns EXCEPT ![c] = Ended(conns[c])] /\ UNCHANGED <<peers, event_steps>>
  <2> DEFINE r == Ended(conns[c])
  <2>1. ~ r.reader /\ ~ r.writer /\ r.state \in {conns[c].state, "closed"}
    BY <1>6, <1>8, EndedConn
  <2>2. conns' = [conns EXCEPT ![c] = r]  BY <1>10
  <2> HIDE DEF r
  <2>3. conns'[c] = r /\ \A d \in Conns : d # c => conns'[d] = conns[d]  BY <1>2, <1>8, <2>2
  <2>4. Refused(c)  BY <1>10, <2>1, <2>3 DEF Refused
  <2> QED  BY <1>2, <1>4, <1>5, <2>3, <2>4
<1> QED  BY <1>7, <1>9, <1>10

\* A connection moves from the negotiated ones to the event processor, or nowhere.
LEMMA ProtocolEstablishedPlaces ==
  ASSUME GossipInv, PlacesInv, ProtocolEstablished, UNCHANGED manager  PROVE PlacesInv'
<1> DEFINE p == Head(internal_events).peer
           c == Head(internal_events).conn
<1>1. Receiving /\ event_steps = <<>>  BY DEF ProtocolEstablished, Receiving
<1>2. /\ c \in Conns /\ c \in Negotiated /\ c \notin Negotiated'
      /\ conns[c].state \in {"upgraded", "closed"}
      /\ Accepted(p, c) \/ Refused(c)
      /\ \A d \in Conns : d # c => conns'[d] = conns[d]
  BY EstablishmentCases
<1> HIDE DEF p, c
<1>3. /\ \A i \in OfKind(event_steps', "PeerConnected") : i = Len(event_steps')
      /\ Announcing' \subseteq {c}
  <2>1. CASE Refused(c)
    <3>1. event_steps' = <<>>  BY <1>1, <2>1 DEF Refused
    <3>2. OfKind(event_steps', "PeerConnected") = {}  BY <3>1 DEF OfKind
    <3> QED  BY <3>2, PlacesNext DEF ConnsIn
  <2>2. CASE Accepted(p, c)
    <3> DEFINE x == Event("PeerConnected", p, c)
               y == Event("PeerAdded", p, NoConn)
    <3>1. event_steps' \in {<<x>>, <<y, x>>}  BY <2>2 DEF Accepted
    <3>2. x.conn = c /\ y.kind # "PeerConnected"  BY DEF Event
    <3> HIDE DEF x, y
    <3>3. CASE event_steps' = <<x>>
      <4>1. Len(event_steps') = 1 /\ DOMAIN event_steps' = {1} /\ event_steps'[1] = x  BY <3>3
      <4> QED  BY <3>2, <4>1, PlacesNext DEF ConnsIn, OfKind
    <3>4. CASE event_steps' = <<y, x>>
      <4>1. /\ Len(event_steps') = 2 /\ DOMAIN event_steps' = {1, 2}
            /\ event_steps'[1] = y /\ event_steps'[2] = x
        BY <3>4
      <4> QED  BY <3>2, <4>1, PlacesNext DEF ConnsIn, OfKind
    <3> QED  BY <3>1, <3>3, <3>4
  <2> QED  BY <1>2, <2>1, <2>2
<1>4. OnceInv'  BY <1>1, <1>3, ReceivedPlaces, OnceNext
<1>5. /\ Negotiated' \subseteq Negotiated /\ Announced' = Announced /\ HeldConns' = HeldConns
  BY <1>1, ReceivedPlaces
<1>6. ApartInv' /\ Placed' \subseteq Placed
  BY <1>2, <1>3, <1>5, PlacesNext DEF PlacesInv, ApartInv, Placed
<1>7. \A i \in OfKind(internal_events', "ProtocolEstablished") :
        \E j \in OfKind(internal_events, "ProtocolEstablished") : internal_events'[i] = internal_events[j]
  BY <1>1, ReceivedPlaces DEF Taken
<1>8. conns'[c].state \in {conns[c].state, "closed"}  BY <1>2 DEF Accepted, Refused
<1>9. Placed \subseteq Conns /\ Negotiated' \subseteq Placed  BY <1>5, PlacedConns DEF Placed
<1>10. \A d \in Conns : conns'[d].state \in {"unused", "open"} => ~ conns'[d].reader /\ ~ conns'[d].writer
  BY <1>2, <1>8 DEF PlacesInv, StatesInv
<1>11. \A d \in Placed' : conns'[d].state \in {conns[d].state, "closed"}
  BY <1>2, <1>6, <1>8, <1>9
<1>12. \A d \in Negotiated' : /\ conns'[d].peer = conns[d].peer /\ conns'[d].reader = conns[d].reader
                              /\ conns'[d].writer = conns[d].writer
  BY <1>2, <1>9
<1>13. StatesInv'  BY <1>6, <1>7, <1>10, <1>11, <1>12, StatesKeep DEF PlacesInv
<1> QED  BY <1>4, <1>6, <1>13 DEF PlacesInv

\* A new connection is in no place yet.
LEMMA HostPlaces ==
  ASSUME GossipInv, PlacesInv, HostInv, HostAction, UNCHANGED manager
  PROVE  PlacesInv'
<1>1. UNCHANGED <<events, event_steps, internal_events>>  BY HostStep
<1>2. CASE UNCHANGED <<conns, negotiating>>  BY <1>1, <1>2, PlacesFrame
<1>3. CASE \E c \in Conns, p \in PeerIds, addr \in Addrs \cup {NoConn} : Established(c, p, addr)
  <2>1. PICK c \in Conns, p \in PeerIds, addr \in Addrs \cup {NoConn} : Established(c, p, addr)  BY <1>3
  <2>2. /\ conns[c].state = "unused" /\ ~ conns'[c].reader /\ ~ conns'[c].writer
        /\ \A d \in Conns : d # c => conns'[d] = conns[d]
    BY <2>1, EstablishedConn DEF GossipInv
  <2>3. c \notin Placed  BY <2>2 DEF PlacesInv, StatesInv
  <2>4. \A d \in Placed : conns'[d] = conns[d]  BY <2>2, <2>3, PlacedConns
  <2>5. \A d \in Conns : conns'[d].state \in {"unused", "open"} => ~ conns'[d].reader /\ ~ conns'[d].writer
    BY <2>2 DEF PlacesInv, StatesInv
  <2> QED  BY <1>1, <2>4, <2>5, ConnsOnly
<1> QED  BY <1>2, <1>3, HostStep

\* A connection enters the first place.
LEMMA UpgradePlaces ==
  ASSUME GossipInv, PlacesInv, NEW c \in Conns, UpgradeCompleted(c), UNCHANGED manager
  PROVE  PlacesInv'
<1>1. /\ conns[c].state = "open" /\ ~ conns'[c].reader /\ ~ conns'[c].writer
      /\ \A d \in Conns : d # c => conns'[d] = conns[d]
      /\ UNCHANGED <<events, event_steps>>
  BY UpgradeConn
<1>2. c \notin Placed  BY <1>1 DEF PlacesInv, StatesInv
<1>3. \A d \in Placed : conns'[d] = conns[d]  BY <1>1, <1>2, PlacedConns
<1>4. \A d \in Conns : conns'[d].state \in {"unused", "open"} => ~ conns'[d].reader /\ ~ conns'[d].writer
  BY <1>1 DEF PlacesInv, StatesInv
<1>5. CASE internal_events' = internal_events  BY <1>1, <1>3, <1>4, <1>5, ConnsOnly
<1>6. CASE \E e \in Establishments :
             /\ internal_events' = Append(internal_events, e) /\ e.conn = c
             /\ conns'[c].peer = e.peer /\ conns'[c].state = "upgraded"
  <2>1. PICK e \in Establishments :
             /\ internal_events' = Append(internal_events, e) /\ e.conn = c
             /\ conns'[c].peer = e.peer /\ conns'[c].state = "upgraded"
    BY <1>6
  <2>2. internal_events \in Seq(Establishments \cup Losses)  BY DEF GossipInv, QueuesInv
  <2>3. Appended(internal_events, internal_events', e, "ProtocolEstablished")
    <3>1. Appended(internal_events, Append(internal_events, e), e, "ProtocolEstablished")
      BY <2>2, AppendPlace
    <3> QED  BY <2>1, <3>1
  <2>4. c \notin Negotiated  BY <1>2 DEF Placed
  <2>5. OnceInv'
    <3>1. OnceIn(internal_events', "ProtocolEstablished")
      BY <2>1, <2>3, <2>4 DEF Appended, PlacesInv, OnceInv, Negotiated
    <3> QED  BY <1>1, <3>1, OnceNext DEF PlacesInv, OnceInv
  <2>6. /\ Negotiated' \subseteq Negotiated \cup {c} /\ Announced' = Announced
        /\ Announcing' = Announcing /\ HeldConns' = HeldConns
    <3>1. Negotiated' \subseteq Negotiated \cup {c}  BY <2>1, <2>3, PlacesNext DEF Appended, Negotiated
    <3> QED  BY <1>1, <3>1 DEF Announced, Announcing, HeldConns, Holders, ConnsIn, OfKind
  <2>7. ApartInv' /\ Placed' \subseteq Placed \cup {c}
    BY <1>2, <2>6 DEF PlacesInv, ApartInv, Placed
  <2>8. \A d \in Placed' : conns'[d].state \in {"upgraded", "closed"}
    BY <1>3, <2>1, <2>7 DEF PlacesInv, StatesInv
  <2>9. ASSUME NEW i \in OfKind(internal_events', "ProtocolEstablished")
        PROVE  LET d == internal_events'[i].conn IN
               conns'[d].peer = internal_events'[i].peer /\ ~ conns'[d].reader /\ ~ conns'[d].writer
    <3>1. CASE i \in OfKind(internal_events, "ProtocolEstablished") /\ internal_events'[i] = internal_events[i]
      <4> DEFINE d == internal_events[i].conn
      <4>1. d \in Placed  BY <3>1 DEF Placed, Negotiated, ConnsIn
      <4>2. conns[d].peer = internal_events[i].peer /\ ~ conns[d].reader /\ ~ conns[d].writer
        BY <3>1 DEF PlacesInv, StatesInv
      <4> QED  BY <1>3, <3>1, <4>1, <4>2
    <3>2. CASE internal_events'[i] = e  BY <1>1, <2>1, <3>2
    <3> QED  BY <2>3, <2>9, <3>1, <3>2 DEF Appended
  <2>10. \A i \in OfKind(internal_events, "ProtocolEstablished")' :
          LET d == internal_events'[i].conn IN
          conns'[d].peer = internal_events'[i].peer /\ ~ conns'[d].reader /\ ~ conns'[d].writer
    BY <2>9 DEF OfKind
  <2>11. StatesInv'  BY <1>4, <2>8, <2>10 DEF StatesInv
  <2> QED  BY <2>5, <2>7, <2>11 DEF PlacesInv
<1> QED  BY <1>5, <1>6, UpgradeConn

\* A broken connection stays where it is.
LEMMA ConnectionLostPlaces ==
  ASSUME GossipInv, PlacesInv, NEW c \in Conns, ConnectionLost(c), UNCHANGED manager
  PROVE  PlacesInv'
<1>1. /\ conns'[c].state = "closed" /\ \A d \in Conns : d # c => conns'[d] = conns[d]
      /\ conns'[c].peer = conns[c].peer /\ conns'[c].reader = conns[c].reader
      /\ conns'[c].writer = conns[c].writer
      /\ UNCHANGED <<events, event_steps, internal_events>>
  BY LostConn DEF GossipInv
<1>2. \A d \in Conns : conns'[d].state \in {"unused", "open"} => ~ conns'[d].reader /\ ~ conns'[d].writer
  BY <1>1 DEF PlacesInv, StatesInv
<1>3. \A d \in Placed : /\ conns'[d].state \in {conns[d].state, "closed"}
                        /\ conns'[d].peer = conns[d].peer /\ conns'[d].reader = conns[d].reader
                        /\ conns'[d].writer = conns[d].writer
  BY <1>1, PlacedConns
<1> QED  BY <1>1, <1>2, <1>3, ConnsOnly

\* A connection with a task is no longer negotiated.
LEMMA TasksPlaces ==
  ASSUME GossipInv, PlacesInv, NEW c \in Conns, UNCHANGED manager,
         ReaderEnds(c) \/ WriterShutdown(c) \/ WriterEnds(c, Holders)
  PROVE  PlacesInv'
<1>1. /\ internal_events' \in {internal_events, Append(internal_events, StreamDropped(c))}
      /\ conns[c].reader \/ conns[c].writer
      /\ conns'[c].state \in {conns[c].state, "closed"}
      /\ \A d \in Conns : d # c => conns'[d] = conns[d]
      /\ UNCHANGED <<events, event_steps>>
  BY ReaderConn, WriterConn DEF GossipInv
<1>2. StreamDropped(c) \in Losses /\ StreamDropped(c).kind = "ProtocolDropped"  BY <1>1, DroppedEvent DEF GossipInv
<1>3. internal_events \in Seq(Establishments \cup Losses)  BY DEF GossipInv, QueuesInv
<1>4. /\ OnceIn(internal_events', "ProtocolEstablished") /\ Negotiated' \subseteq Negotiated
      /\ \A i \in OfKind(internal_events', "ProtocolEstablished") :
           \E j \in OfKind(internal_events, "ProtocolEstablished") : internal_events'[i] = internal_events[j]
  <2>1. CASE internal_events' = internal_events
    BY <2>1, PlacesNext DEF Negotiated, PlacesInv, OnceInv
  <2>2. CASE internal_events' = Append(internal_events, StreamDropped(c))
    <3>1. Appended(internal_events, Append(internal_events, StreamDropped(c)), StreamDropped(c), "ProtocolEstablished")
      BY <1>2, <1>3, AppendPlace
    <3>2. Appended(internal_events, internal_events', StreamDropped(c), "ProtocolEstablished")
      BY <2>2, <3>1
    <3> QED  BY <1>2, <3>2, PlacesNext DEF Appended, Negotiated, PlacesInv, OnceInv
  <2> QED  BY <1>1, <2>1, <2>2
<1>5. /\ Announced' = Announced /\ Announcing' = Announcing /\ HeldConns' = HeldConns
  BY <1>1 DEF Announced, Announcing, HeldConns, Holders, ConnsIn, OfKind
<1>6. OnceInv'  BY <1>1, <1>4, OnceNext DEF PlacesInv, OnceInv
<1>7. ApartInv' /\ Placed' \subseteq Placed  BY <1>4, <1>5, ApartKeeps DEF PlacesInv
<1>8. c \notin Negotiated  BY <1>1 DEF PlacesInv, StatesInv, Negotiated, ConnsIn
<1>9. conns[c].state \notin {"unused", "open"}  BY <1>1 DEF PlacesInv, StatesInv
<1>10. \A d \in Conns : conns'[d].state \in {"unused", "open"} => ~ conns'[d].reader /\ ~ conns'[d].writer
  BY <1>1, <1>9 DEF PlacesInv, StatesInv
<1>11. Placed \subseteq Conns /\ Negotiated \subseteq Placed  BY PlacedConns DEF Placed
<1>12. \A d \in Placed' : conns'[d].state \in {conns[d].state, "closed"}  BY <1>1, <1>7, <1>11
<1>13. \A d \in Negotiated' : conns'[d] = conns[d]  BY <1>1, <1>4, <1>8, <1>11
<1>14. StatesInv'  BY <1>4, <1>7, <1>10, <1>12, <1>13, StatesKeep DEF PlacesInv
<1> QED  BY <1>6, <1>7, <1>14 DEF PlacesInv

\* The worker that ends is that of a connection the event makes useless.
LEMMA HandledConns ==
  ASSUME GossipInv, PeerAdded \/ PeerRemoved \/ PeerConnected \/ PeerDisconnected
  PROVE  /\ \E kind : Handling(kind) /\ kind = Head(events).kind
         /\ \A d \in Conns :
              /\ conns'[d].peer = conns[d].peer /\ conns'[d].state = conns[d].state
              /\ conns'[d].reader = conns[d].reader /\ conns'[d].writer = conns[d].writer
              /\ conns'[d].shutdown = conns[d].shutdown
              /\ d \notin {Held(EventPeer), Head(events).conn} => conns'[d] = conns[d]
         /\ \/ conns' = WorkerEnds(Held(EventPeer))
            \/ conns' = WorkerEnds(Head(events).conn) /\ PeerConnected /\ EventPeer \notin DOMAIN manager
<1>1. PICK kind : Handling(kind)  BY DEF PeerAdded, PeerRemoved, PeerConnected, PeerDisconnected
<1>2. Head(events).kind = kind  BY <1>1 DEF Handling
<1>3. /\ \/ conns' = WorkerEnds(Held(EventPeer))
         \/ conns' = WorkerEnds(Head(events).conn) /\ PeerConnected /\ EventPeer \notin DOMAIN manager
      /\ UNCHANGED negotiating
  BY DEF PeerAdded, PeerRemoved, PeerConnected, PeerDisconnected, Handling
<1>4. Held(EventPeer) \in Conns \cup {NoConn} /\ Head(events).conn \in Conns \cup {NoConn}
  BY <1>1, HandledEvent
<1>5. \A d \in Conns :
        /\ conns'[d].peer = conns[d].peer /\ conns'[d].state = conns[d].state
        /\ conns'[d].reader = conns[d].reader /\ conns'[d].writer = conns[d].writer
        /\ conns'[d].shutdown = conns[d].shutdown
        /\ d \notin {Held(EventPeer), Head(events).conn} => conns'[d] = conns[d]
  BY <1>3, <1>4, WorkerConn DEF GossipInv
<1> QED  BY <1>1, <1>2, <1>3, <1>5

\* A connection moves from the events to the peer manager, or leaves.
LEMMA ManagerPlaces ==
  ASSUME GossipInv, PlacesInv, PeerAdded \/ PeerRemoved \/ PeerConnected \/ PeerDisconnected
  PROVE  PlacesInv'
<1> DEFINE c == Head(events).conn
<1>1. PICK kind : Handling(kind) /\ kind = Head(events).kind  BY HandledConns
<1>2. /\ events # <<>> /\ events' = Tail(events) /\ UNCHANGED <<internal_events, event_steps>>
      /\ kind = "PeerConnected" => c \in Conns
  BY <1>1, HandledEvent
<1>3. events \in Seq(AllEvents)  BY DEF GossipInv, EventsInv
<1>4. Taken(events, events', "PeerConnected")
  <2>1. Taken(events, Tail(events), "PeerConnected")  BY <1>2, <1>3, TailPlace
  <2> QED  BY <1>2, <2>1
<1>5. OnceIn(events', "PeerConnected") /\ Announced' \subseteq Announced
  BY <1>4, PlacesNext DEF Taken, PlacesInv, OnceInv, Announced
<1>6. kind = "PeerConnected" => c \in Announced /\ c \notin Announced'
  BY <1>1, <1>4, PlacesNext DEF Taken, PlacesInv, OnceInv, Announced
<1> HIDE DEF c
<1>7. Negotiated' = Negotiated /\ Announcing' = Announcing
  BY <1>2, PlacesNext DEF Negotiated, Announcing
<1> DEFINE Once == \A p, q \in DOMAIN manager' : manager'[p] = manager'[q] /\ manager'[p] # NoConn => p = q
<1>8. Once /\ \/ HeldConns' \subseteq HeldConns
              \/ kind = "PeerConnected" /\ HeldConns' \subseteq HeldConns \cup {c}
  <2>1. CASE PeerAdded
    <3>1. manager' = WithKey(manager, EventPeer, NoConn)  BY <2>1 DEF PeerAdded
    <3>2. \A p \in DOMAIN manager' : manager'[p] # NoConn => p \in DOMAIN manager /\ manager'[p] = manager[p]
      BY <3>1 DEF WithKey
    <3> QED  BY <3>2 DEF PlacesInv, OnceInv, HeldConns, Holders
  <2>2. CASE PeerRemoved
    <3>1. manager' = [p \in DOMAIN manager \ {EventPeer} |-> manager[p]]  BY <2>2 DEF PeerRemoved
    <3>2. \A p \in DOMAIN manager' : p \in DOMAIN manager /\ manager'[p] = manager[p]  BY <3>1
    <3> QED  BY <3>2 DEF PlacesInv, OnceInv, HeldConns, Holders
  <2>3. CASE PeerDisconnected
    <3>1. manager' \in {manager, [manager EXCEPT ![EventPeer] = NoConn]}  BY <2>3 DEF PeerDisconnected
    <3>2. \A p \in DOMAIN manager' : manager'[p] # NoConn => p \in DOMAIN manager /\ manager'[p] = manager[p]
      BY <3>1
    <3> QED  BY <3>2 DEF PlacesInv, OnceInv, HeldConns, Holders
  <2>4. CASE PeerConnected
    <3>1. kind = "PeerConnected"  BY <1>1, <2>4 DEF PeerConnected, Handling
    <3>2. c \notin HeldConns /\ c # NoConn  BY <1>2, <1>6, <3>1, GossipAssumption DEF PlacesInv, ApartInv
    <3>3. manager' = manager \/ manager' = [manager EXCEPT ![EventPeer] = c]
      BY <2>4 DEF PeerConnected, c
    <3>4. /\ DOMAIN manager' = DOMAIN manager
          /\ \A p \in DOMAIN manager : manager'[p] = manager[p] \/ (p = EventPeer /\ manager'[p] = c)
      BY <3>3
    <3>5. \A p \in DOMAIN manager : manager[p] # c  BY <3>2 DEF HeldConns, Holders
    <3>6. Once  BY <3>4, <3>5 DEF PlacesInv, OnceInv
    <3>7. HeldConns' \subseteq HeldConns \cup {c}  BY <3>4 DEF HeldConns, Holders
    <3> QED  BY <3>1, <3>6, <3>7
  <2> QED  BY <2>1, <2>2, <2>3, <2>4
<1>9. OnceInv'
  BY <1>2, <1>5, <1>8, OnceNext DEF PlacesInv, OnceInv
<1>10. ApartInv' /\ Placed' \subseteq Placed
  BY <1>5, <1>6, <1>7, <1>8 DEF PlacesInv, ApartInv, Placed
<1>11. Placed \subseteq Conns /\ Negotiated \subseteq Placed  BY PlacedConns DEF Placed
<1>12. \A d \in Conns : conns'[d].state \in {"unused", "open"} => ~ conns'[d].reader /\ ~ conns'[d].writer
  BY HandledConns DEF PlacesInv, StatesInv
<1>13. \A d \in Placed : /\ conns'[d].state = conns[d].state /\ conns'[d].peer = conns[d].peer
                         /\ conns'[d].reader = conns[d].reader /\ conns'[d].writer = conns[d].writer
  BY <1>11, HandledConns
<1>14. StatesInv'
  BY <1>2, <1>7, <1>10, <1>11, <1>12, <1>13, StatesKeep DEF PlacesInv
<1> QED  BY <1>9, <1>10, <1>14 DEF PlacesInv

-----------------------------------------------------------------------------
(***************************************************************************)
(* The connections that the peer manager holds or is going to hold.        *)
(***************************************************************************)
\* The last event about a peer, when an event is appended.
LastAppended(s, t, e, p, c) ==
  /\ e.peer = p => ~ NoneFor(t, p) /\ (LastFor(t, p, c) => e.kind = "PeerConnected" /\ e.conn = c)
  /\ e.peer # p => (NoneFor(t, p) => NoneFor(s, p)) /\ (LastFor(t, p, c) => LastFor(s, p, c))

\* The last event about a peer after an event is appended.
LEMMA LastAppend ==
  ASSUME NEW S, NEW s \in Seq(S), NEW e \in S, NEW p, NEW c
  PROVE  LastAppended(s, Append(s, e), e, p, c)
<1> DEFINE t == Append(s, e)
           n == Len(s) + 1
<1>1. /\ Len(s) \in Nat /\ DOMAIN s = 1 .. Len(s) /\ DOMAIN t = 1 .. n /\ n \in Nat
      /\ t[n] = e /\ \A i \in 1 .. Len(s) : t[i] = s[i]
      /\ n \in DOMAIN t /\ DOMAIN s \subseteq DOMAIN t
      /\ \A i \in DOMAIN t : i <= n /\ (i # n => i \in DOMAIN s)
      /\ \A i \in DOMAIN t : n <= i => i = n
  OBVIOUS
<1> HIDE DEF t, n
<1>2. ASSUME e.peer = p  PROVE ~ NoneFor(t, p)  BY <1>1, <1>2 DEF NoneFor
<1>3. ASSUME e.peer = p, LastFor(t, p, c)  PROVE e.kind = "PeerConnected" /\ e.conn = c
  <2>1. PICK i \in DOMAIN t : /\ t[i].kind = "PeerConnected" /\ t[i].peer = p /\ t[i].conn = c
                              /\ \A j \in DOMAIN t : t[j].peer = p => j <= i
    BY <1>3 DEF LastFor
  <2>2. i = n  BY <1>1, <1>3, <2>1
  <2> QED  BY <1>1, <2>1, <2>2
<1>4. ASSUME e.peer # p, NoneFor(t, p)  PROVE NoneFor(s, p)
  BY <1>1, <1>4 DEF NoneFor
<1>5. ASSUME e.peer # p, LastFor(t, p, c)  PROVE LastFor(s, p, c)
  <2>1. PICK i \in DOMAIN t : /\ t[i].kind = "PeerConnected" /\ t[i].peer = p /\ t[i].conn = c
                              /\ \A j \in DOMAIN t : t[j].peer = p => j <= i
    BY <1>5 DEF LastFor
  <2>2. i # n  BY <1>1, <1>5, <2>1
  <2>3. i \in DOMAIN s /\ t[i] = s[i]  BY <1>1, <2>2
  <2>4. \A j \in DOMAIN s : s[j].peer = p => j <= i  BY <1>1, <2>1
  <2> QED  BY <2>1, <2>3, <2>4 DEF LastFor
<1> QED  BY <1>2, <1>3, <1>4, <1>5 DEF LastAppended, t

\* The same when the first event is taken.
LastTaken(s, t, p, c) ==
  /\ LastFor(t, p, c) => LastFor(s, p, c)
  /\ NoneFor(t, p) /\ Head(s).peer # p => NoneFor(s, p)
  /\ NoneFor(t, p) /\ Head(s).peer = p /\ Head(s).kind = "PeerConnected" /\ Head(s).conn = c
       => LastFor(s, p, c)

\* The last event about a peer after the first event is taken.
LEMMA LastTail ==
  ASSUME NEW S, NEW s \in Seq(S), s # <<>>, NEW p, NEW c
  PROVE  LastTaken(s, Tail(s), p, c)
<1> DEFINE t == Tail(s)
<1>1. /\ Len(s) \in Nat /\ DOMAIN s = 1 .. Len(s) /\ DOMAIN t = 1 .. Len(s) - 1
      /\ Len(s) # 0 /\ Head(s) = s[1] /\ \A i \in 1 .. Len(s) - 1 : t[i] = s[i + 1]
  OBVIOUS
<1> HIDE DEF t
<1>2. \A j \in DOMAIN s : j # 1 => j - 1 \in DOMAIN t /\ t[j - 1] = s[j] /\ j \in Nat
  <2> TAKE j \in DOMAIN s
  <2> SUFFICES ASSUME j # 1  PROVE j - 1 \in DOMAIN t /\ t[j - 1] = s[j] /\ j \in Nat
    OBVIOUS
  <2> DEFINE k == j - 1
  <2>1. k \in 1 .. Len(s) - 1 /\ k + 1 = j /\ j \in Nat  BY <1>1
  <2> HIDE DEF k
  <2>2. t[k] = s[j]  BY <1>1, <2>1
  <2> QED  BY <1>1, <2>1, <2>2 DEF k
<1>3. 1 \in DOMAIN s  BY <1>1
<1>4. ASSUME LastFor(t, p, c)  PROVE LastFor(s, p, c)
  <2>1. PICK i \in DOMAIN t : /\ t[i].kind = "PeerConnected" /\ t[i].peer = p /\ t[i].conn = c
                              /\ \A j \in DOMAIN t : t[j].peer = p => j <= i
    BY <1>4 DEF LastFor
  <2> DEFINE k == i + 1
  <2>2. k \in DOMAIN s /\ t[i] = s[k] /\ k \in Nat /\ i \in Nat /\ k = i + 1  BY <1>1
  <2> HIDE DEF k
  <2>3. ASSUME NEW j \in DOMAIN s, s[j].peer = p  PROVE j <= k
    <3>1. CASE j = 1  BY <2>2, <3>1
    <3>2. CASE j # 1
      <4> DEFINE l == j - 1
      <4>1. l \in DOMAIN t /\ t[l] = s[j] /\ j \in Nat /\ l = j - 1  BY <1>2, <3>2
      <4> HIDE DEF l
      <4>2. l <= i  BY <2>1, <2>3, <4>1
      <4> QED  BY <2>2, <4>1, <4>2
    <3> QED  BY <3>1, <3>2
  <2> QED  BY <2>1, <2>2, <2>3 DEF LastFor
<1>5. ASSUME NoneFor(t, p), Head(s).peer # p  PROVE NoneFor(s, p)
  <2> SUFFICES ASSUME NEW j \in DOMAIN s  PROVE s[j].peer # p
    BY DEF NoneFor
  <2>1. CASE j = 1  BY <1>1, <1>5, <2>1
  <2>2. CASE j # 1
    <3> DEFINE l == j - 1
    <3>1. l \in DOMAIN t /\ t[l] = s[j]  BY <1>2, <2>2
    <3> HIDE DEF l
    <3> QED  BY <1>5, <3>1 DEF NoneFor
  <2> QED  BY <2>1, <2>2
<1>6. ASSUME NoneFor(t, p), Head(s).peer = p, Head(s).kind = "PeerConnected", Head(s).conn = c
      PROVE  LastFor(s, p, c)
  <2>1. ASSUME NEW j \in DOMAIN s, s[j].peer = p  PROVE j <= 1
    <3>1. CASE j # 1
      <4> DEFINE l == j - 1
      <4>1. l \in DOMAIN t /\ t[l] = s[j]  BY <1>2, <3>1
      <4> HIDE DEF l
      <4> QED  BY <1>6, <2>1, <4>1 DEF NoneFor
    <3> QED  BY <3>1
  <2> QED  BY <1>1, <1>3, <1>6, <2>1 DEF LastFor
<1> QED  BY <1>4, <1>5, <1>6 DEF LastTaken, t

\* What the peer manager is going to hold after a step.
LEMMA MayHoldNext ==
  ASSUME NEW p \in PeerIds, NEW c \in Conns, MayHold(p, c)'
  PROVE  \/ LastFor(event_steps', p, c)
         \/ NoneFor(event_steps', p) /\ LastFor(events', p, c)
         \/ /\ NoneFor(event_steps', p) /\ NoneFor(events', p)
            /\ p \in DOMAIN manager' /\ manager'[p] = c
BY DEF MayHold, LastFor, NoneFor

\* What is to be held depends on the events and the table only.
LEMMA MayHoldFrame ==
  ASSUME NEW p \in PeerIds, NEW c \in Conns, MayHold(p, c)', UNCHANGED <<events, event_steps, manager>>
  PROVE  MayHold(p, c)
BY MayHoldNext DEF MayHold

\* It is in a place.
LEMMA MayHoldPlaced ==
  ASSUME NEW p \in PeerIds, NEW c \in Conns, MayHold(p, c)
  PROVE  /\ c \in Announced \cup Announcing \cup HeldConns
         /\ SendersOf(c, Holders)
<1>1. CASE LastFor(event_steps, p, c)
  <2>1. PICK i \in DOMAIN event_steps : event_steps[i].kind = "PeerConnected" /\ event_steps[i].conn = c
    BY <1>1 DEF LastFor
  <2> QED  BY <2>1 DEF Announcing, ConnsIn, OfKind, SendersOf
<1>2. CASE LastFor(events, p, c)
  <2>1. PICK i \in DOMAIN events : events[i].kind = "PeerConnected" /\ events[i].conn = c
    BY <1>2 DEF LastFor
  <2> QED  BY <2>1 DEF Announced, ConnsIn, OfKind, SendersOf
<1>3. CASE p \in DOMAIN manager /\ manager[p] = c
  BY <1>3, GossipAssumption DEF HeldConns, Holders, SendersOf
<1> QED  BY <1>1, <1>2, <1>3 DEF MayHold

\* A notice announces no connection.
LEMMA CommandStepHolds ==
  ASSUME GossipInv, CommandStep, UNCHANGED manager, NEW p \in PeerIds, NEW c \in Conns, MayHold(p, c)'
  PROVE  MayHold(p, c)
<1> DEFINE step == Head(command_steps)
           e == step.event
<1>1. /\ events' = IF step.do = "publish" THEN Append(events, step.event) ELSE events
      /\ UNCHANGED event_steps
  BY DEF CommandStep
<1>2. step \in Steps
  <2>1. command_steps \in Seq(Steps) /\ command_steps # <<>>
    BY DEF GossipInv, QueuesInv, CommandStep
  <2> QED  BY <2>1
<1> HIDE DEF step
<1>3. CASE step.do # "publish"  BY <1>1, <1>3, MayHoldFrame
<1>4. CASE step.do = "publish"
  <2>1. e \in Notices  BY <1>2, <1>4, StepKinds
  <2>2. e \in AllEvents /\ e.kind # "PeerConnected"  BY <2>1 DEF AllEvents, Notices
  <2>3. events \in Seq(AllEvents) /\ events' = Append(events, e)  BY <1>1, <1>4 DEF GossipInv, EventsInv
  <2> HIDE DEF e
  <2>4. LastAppended(events, Append(events, e), e, p, c)  BY <2>2, <2>3, LastAppend
  <2>5. LastAppended(events, events', e, p, c)  BY <2>3, <2>4
  <2> QED  BY <1>1, <2>2, <2>5, MayHoldNext DEF LastAppended, MayHold
<1> QED  BY <1>3, <1>4

\* An event that moves on says the same.
LEMMA EventStepHolds ==
  ASSUME GossipInv, EventStep, UNCHANGED manager, NEW p \in PeerIds, NEW c \in Conns, MayHold(p, c)'
  PROVE  MayHold(p, c)
<1> DEFINE e == Head(event_steps)
<1>1. /\ event_steps # <<>> /\ event_steps' = Tail(event_steps) /\ events' = Append(events, e)
  BY DEF EventStep
<1>2. events \in Seq(AllEvents) /\ event_steps \in Seq(AllEvents) /\ e \in AllEvents
  BY <1>1 DEF GossipInv, EventsInv
<1>3. LastAppended(events, events', e, p, c)
  <2>1. LastAppended(events, Append(events, e), e, p, c)  BY <1>2, LastAppend
  <2> QED  BY <1>1, <2>1
<1>4. LastTaken(event_steps, event_steps', p, c)
  <2>1. LastTaken(event_steps, Tail(event_steps), p, c)  BY <1>1, <1>2, LastTail
  <2> QED  BY <1>1, <2>1
<1>5. CASE LastFor(event_steps', p, c)  BY <1>4, <1>5 DEF LastTaken, MayHold
<1>6. CASE NoneFor(event_steps', p) /\ e.peer = p  
  BY <1>3, <1>4, <1>6, MayHoldNext, <1>5 DEF LastAppended, LastTaken, MayHold
<1>7. CASE NoneFor(event_steps', p) /\ e.peer # p
  BY <1>3, <1>4, <1>7, MayHoldNext, <1>5 DEF LastAppended, LastTaken, MayHold
<1> QED  BY <1>5, <1>6, <1>7, MayHoldNext

\* The loss of a connection leaves nothing to hold.
LEMMA ProtocolDroppedHolds ==
  ASSUME GossipInv, ProtocolDropped, UNCHANGED manager, NEW p \in PeerIds, NEW c \in Conns, MayHold(p, c)'
  PROVE  MayHold(p, c) /\ p # Head(internal_events).peer
<1> DEFINE q == Head(internal_events).peer
           e == Event("PeerDisconnected", q, NoConn)
<1>1. /\ event_steps = <<>> /\ event_steps' = <<e>> /\ UNCHANGED events
  BY DEF ProtocolDropped, Receiving
<1>2. e.peer = q /\ e.kind # "PeerConnected"  BY DEF Event
<1> HIDE DEF e, q
<1>3. 1 \in DOMAIN event_steps' /\ \A i \in DOMAIN event_steps' : event_steps'[i] = e  BY <1>1
<1>4. ~ LastFor(event_steps', p, c)  BY <1>2, <1>3 DEF LastFor
<1>5. NoneFor(event_steps', p) => p # q  BY <1>2, <1>3 DEF NoneFor
<1>6. NoneFor(event_steps, p)  BY <1>1 DEF NoneFor
<1> QED  BY <1>1, <1>4, <1>5, <1>6, MayHoldNext DEF MayHold, q

\* A connection that is accepted is the only new one.
LEMMA ProtocolEstablishedHolds ==
  ASSUME GossipInv, PlacesInv, ProtocolEstablished, UNCHANGED manager,
         NEW p \in PeerIds, NEW c \in Conns, MayHold(p, c)'
  PROVE  LET q == Head(internal_events).peer
             d == Head(internal_events).conn
         IN  (MayHold(p, c) /\ (p = q => Refused(d))) \/ (Accepted(q, d) /\ p = q /\ c = d)
<1> DEFINE q == Head(internal_events).peer
           d == Head(internal_events).conn
<1>1. event_steps = <<>> /\ UNCHANGED events  BY DEF ProtocolEstablished, Receiving
<1>2. Accepted(q, d) \/ Refused(d)  BY EstablishmentCases
<1> HIDE DEF q, d
<1>3. CASE Refused(d)  BY <1>1, <1>3, MayHoldFrame DEF Refused, q, d
<1>4. CASE Accepted(q, d)
  <2> DEFINE x == Event("PeerConnected", q, d)
             y == Event("PeerAdded", q, NoConn)
  <2>1. event_steps' \in {<<x>>, <<y, x>>}  BY <1>4 DEF Accepted
  <2>2. x.conn = d /\ x.peer = q /\ y.peer = q /\ y.kind # "PeerConnected"  BY DEF Event
  <2> HIDE DEF x, y
  <2>3. /\ \A i \in DOMAIN event_steps' : event_steps'[i] \in {x, y} /\ event_steps'[i].peer = q
        /\ 1 \in DOMAIN event_steps'
    <3>1. CASE event_steps' = <<x>>  BY <2>2, <3>1
    <3>2. CASE event_steps' = <<y, x>>  BY <2>2, <3>2
    <3> QED  BY <2>1, <3>1, <3>2
  <2>4. LastFor(event_steps', p, c) => p = q /\ c = d  BY <2>2, <2>3 DEF LastFor
  <2>5. NoneFor(event_steps', p) => p # q  BY <2>3 DEF NoneFor
  <2>6. NoneFor(event_steps, p)  BY <1>1 DEF NoneFor
  <2> QED  BY <1>1, <1>4, <2>4, <2>5, <2>6, MayHoldNext DEF MayHold, q, d
<1> QED  BY <1>2, <1>3, <1>4

\* The worker of a connection that is held goes on.
LEMMA ManagerHolds ==
  ASSUME GossipInv, PlacesInv, PeerAdded \/ PeerRemoved \/ PeerConnected \/ PeerDisconnected,
         NEW p \in PeerIds, NEW c \in Conns, MayHold(p, c)'
  PROVE  MayHold(p, c) /\ conns'[c] = conns[c]
<1> DEFINE q == EventPeer
           d == Head(events).conn
           x == Held(q)
<1>1. PICK kind : Handling(kind) /\ kind = Head(events).kind  BY HandledConns
<1>2. /\ events # <<>> /\ events' = Tail(events) /\ UNCHANGED <<internal_events, event_steps>>
      /\ q = Head(events).peer
  BY <1>1, HandledEvent DEF EventPeer
<1>3. events \in Seq(AllEvents) /\ c # NoConn  BY GossipAssumption DEF GossipInv, EventsInv
<1>4. LastTaken(events, events', p, c)
  <2>1. LastTaken(events, Tail(events), p, c)  BY <1>2, <1>3, LastTail
  <2> QED  BY <1>2, <2>1
<1>5. Taken(events, events', "PeerConnected")
  <2>1. Taken(events, Tail(events), "PeerConnected")  BY <1>2, <1>3, TailPlace
  <2> QED  BY <1>2, <2>1
<1>6. kind = "PeerConnected" => d \in Announced /\ d \notin Announced'
  BY <1>1, <1>5, PlacesNext DEF Taken, PlacesInv, OnceInv, Announced
<1>7. Announced' \subseteq Announced /\ Announcing' = Announcing
  BY <1>2, <1>5, PlacesNext DEF Taken, Announced, Announcing
<1>8. \/ kind # "PeerConnected" /\ conns' = WorkerEnds(x)
         /\ \A r \in DOMAIN manager' :
              manager'[r] # NoConn => r # q /\ r \in DOMAIN manager /\ manager'[r] = manager[r]
      \/ kind = "PeerConnected" /\ q \in DOMAIN manager /\ conns' = WorkerEnds(x)
         /\ \A r \in DOMAIN manager' :
              r \in DOMAIN manager /\ manager'[r] = (IF r = q THEN d ELSE manager[r])
      \/ kind = "PeerConnected" /\ q \notin DOMAIN manager /\ conns' = WorkerEnds(d) /\ manager' = manager
  <2>1. CASE PeerAdded
    <3>1. kind = "PeerAdded"  BY <1>1, <2>1 DEF PeerAdded, Handling
    <3> QED  BY <2>1, <3>1 DEF PeerAdded, WithKey
  <2>2. CASE PeerRemoved
    <3>1. kind = "PeerRemoved"  BY <1>1, <2>2 DEF PeerRemoved, Handling
    <3> QED  BY <2>2, <3>1 DEF PeerRemoved
  <2>3. CASE PeerDisconnected
    <3>1. kind = "PeerDisconnected"  BY <1>1, <2>3 DEF PeerDisconnected, Handling
    <3> QED  BY <2>3, <3>1 DEF PeerDisconnected
  <2>4. CASE PeerConnected
    <3>1. kind = "PeerConnected"  BY <1>1, <2>4 DEF PeerConnected, Handling
    <3> QED  BY <2>4, <3>1 DEF PeerConnected
  <2> QED  BY <2>1, <2>2, <2>3, <2>4
<1>9. x # NoConn => q \in DOMAIN manager /\ x = manager[q] /\ x \in HeldConns
  BY DEF Held, HeldConns, Holders
<1>10. \A y : y # c => (conns' = WorkerEnds(y) => conns'[c] = conns[c])
  BY DEF WorkerEnds, GossipInv, ConnsInv
<1>11. /\ d \in Announced => d \notin HeldConns /\ d \notin Announcing
       /\ x \in HeldConns => x \notin Announced /\ x \notin Announcing
       /\ \A r \in DOMAIN manager : manager[r] # NoConn => manager[r] \in HeldConns
       /\ \A r, t \in DOMAIN manager : manager[r] = manager[t] /\ manager[r] # NoConn => r = t
  BY DEF PlacesInv, ApartInv, OnceInv, HeldConns, Holders
<1> HIDE DEF d, x, q
<1>12. CASE LastFor(event_steps', p, c) \/ (NoneFor(event_steps', p) /\ LastFor(events', p, c))
  <2>1. MayHold(p, c)  BY <1>2, <1>4, <1>12 DEF LastTaken, MayHold
  <2>2. c \in Announcing' \cup Announced'
    BY <1>12, PlacesNext DEF LastFor, ConnsIn, OfKind
  <2>3. c # x /\ (kind = "PeerConnected" => c # d)  BY <1>3, <1>6, <1>7, <1>9, <1>11, <2>2
  <2> QED  BY <1>8, <1>10, <2>1, <2>3
<1>13. CASE /\ NoneFor(event_steps', p) /\ NoneFor(events', p)
            /\ p \in DOMAIN manager' /\ manager'[p] = c
  <2>1. CASE kind # "PeerConnected"
    <3>1. p # q /\ p \in DOMAIN manager /\ manager[p] = c /\ conns' = WorkerEnds(x)
      BY <1>3, <1>8, <1>13, <2>1
    <3>2. c # x  BY <1>3, <1>9, <1>11, <3>1
    <3>3. NoneFor(events, p)  BY <1>2, <1>4, <1>13, <3>1 DEF LastTaken
    <3>4. MayHold(p, c)  BY <1>2, <1>13, <3>1, <3>3 DEF MayHold
    <3> QED  BY <1>10, <3>1, <3>2, <3>4
  <2>2. CASE kind = "PeerConnected" /\ p = q
    <3>1. d = c /\ p \in DOMAIN manager /\ conns' = WorkerEnds(x)  BY <1>8, <1>13, <2>2
    <3>2. LastFor(events, p, c)  BY <1>1, <1>2, <1>4, <1>13, <2>2, <3>1 DEF LastTaken, d
    <3>3. MayHold(p, c)  BY <1>2, <1>13, <3>2 DEF MayHold
    <3>4. c # x  BY <1>3, <1>6, <1>9, <1>11, <2>2, <3>1
    <3> QED  BY <1>10, <3>1, <3>3, <3>4
  <2>3. CASE kind = "PeerConnected" /\ p # q
    <3>1. p \in DOMAIN manager /\ manager[p] = c  BY <1>8, <1>13, <2>3
    <3>2. NoneFor(events, p)  BY <1>2, <1>4, <1>13, <2>3 DEF LastTaken
    <3>3. MayHold(p, c)  BY <1>2, <1>13, <3>1, <3>2 DEF MayHold
    <3>4. c # x /\ c # d  BY <1>3, <1>6, <1>9, <1>11, <2>3, <3>1
    <3> QED  BY <1>8, <1>10, <2>3, <3>3, <3>4
  <2> QED  BY <2>1, <2>2, <2>3
<1> QED  BY <1>12, <1>13, MayHoldNext

\* It is enough to look at what may be held after the step.
LEMMA GhostNext ==
  ASSUME \A p \in PeerIds, c \in Conns :
           MayHold(p, c)' => /\ LossOf(p)' \/ Served(p, c)'
                             /\ p \notin RemovedPeers => Listed(p, c)' \/ Doomed(p, c)'
  PROVE  ServedInv' /\ DoomedInv'
BY DEF ServedInv, DoomedInv

\* The invariants for a connection that may be held.
LEMMA GhostNow ==
  ASSUME ServedInv, DoomedInv, NEW p \in PeerIds, NEW c \in Conns, MayHold(p, c)
  PROVE  /\ LossOf(p) \/ Served(p, c)
         /\ p \notin RemovedPeers => Listed(p, c) \/ Doomed(p, c)
BY DEF ServedInv, DoomedInv

\* A loss is announced, or another internal event is taken.
LEMMA LossAppend ==
  ASSUME QueuesInv, NEW e \in Establishments \cup Losses, internal_events' = Append(internal_events, e), NEW p
  PROVE  (LossOf(p) => LossOf(p)') /\ (e.kind = "ProtocolDropped" /\ e.peer = p => LossOf(p)')
<1>1. internal_events \in Seq(Establishments \cup Losses)  BY DEF QueuesInv
<1>2. /\ DOMAIN internal_events' = 1 .. Len(internal_events) + 1 /\ Len(internal_events) \in Nat
      /\ DOMAIN internal_events = 1 .. Len(internal_events)
      /\ internal_events'[Len(internal_events) + 1] = e
      /\ \A i \in 1 .. Len(internal_events) : internal_events'[i] = internal_events[i]
  BY <1>1
<1>3. LossOf(p) => LossOf(p)'  BY <1>2 DEF LossOf
<1>4. e.kind = "ProtocolDropped" /\ e.peer = p => LossOf(p)'
  <2> DEFINE n == Len(internal_events) + 1
  <2>1. n \in DOMAIN internal_events' /\ internal_events'[n] = e  BY <1>2
  <2> HIDE DEF n
  <2> QED  BY <2>1 DEF LossOf
<1> QED  BY <1>3, <1>4

\* An announced loss stays announced until it is received.
LEMMA LossTail ==
  ASSUME QueuesInv, internal_events # <<>>, internal_events' = Tail(internal_events), NEW p,
         Head(internal_events).kind # "ProtocolDropped" \/ Head(internal_events).peer # p, LossOf(p)
  PROVE  LossOf(p)'
<1>1. internal_events \in Seq(Establishments \cup Losses)  BY DEF QueuesInv
<1>2. PICK i \in DOMAIN internal_events :
        internal_events[i].kind = "ProtocolDropped" /\ internal_events[i].peer = p
  BY DEF LossOf
<1>3. i # 1  BY <1>1, <1>2
<1> DEFINE k == i - 1
<1>4. k \in DOMAIN internal_events' /\ internal_events'[k] = internal_events[i]  BY <1>1, <1>3
<1> HIDE DEF k
<1> QED  BY <1>2, <1>4 DEF LossOf

\* Neither the connections nor what is announced changes.
LEMMA GhostFrame ==
  ASSUME ServedInv, DoomedInv, UNCHANGED <<internal_events, conns>>,
         \A p \in PeerIds, c \in Conns : MayHold(p, c)' => MayHold(p, c),
         \A p \in PeerIds \ RemovedPeers, c \in Conns :
           (Listed(p, c) => Listed(p, c)' \/ ShutdownStep(c)') /\ (ShutdownStep(c) => ShutdownStep(c)')
  PROVE  ServedInv' /\ DoomedInv'
<1> SUFFICES ASSUME NEW p \in PeerIds, NEW c \in Conns, MayHold(p, c)'
             PROVE  /\ LossOf(p)' \/ Served(p, c)'
                    /\ p \notin RemovedPeers => Listed(p, c)' \/ Doomed(p, c)'
  BY GhostNext
<1>1. MayHold(p, c)  OBVIOUS
<1>2. /\ LossOf(p) \/ Served(p, c)
      /\ p \notin RemovedPeers => Listed(p, c) \/ Doomed(p, c)
  BY <1>1, GhostNow
<1>3. (LossOf(p) => LossOf(p)') /\ (Served(p, c) => Served(p, c)')  BY DEF LossOf, Served
<1>4. p \notin RemovedPeers => (Doomed(p, c) => Doomed(p, c)')  BY <1>3 DEF Doomed
<1>5. p \notin RemovedPeers => (ShutdownStep(c)' => Doomed(p, c)')  BY DEF Doomed
<1> QED  BY <1>2, <1>3, <1>4, <1>5

\* The commands but the disconnection and the steps that follow a command.
LEMMA CommandsGhost ==
  ASSUME GossipInv, ServedInv, DoomedInv, UNCHANGED manager,
         \/ \E command \in CommandSet : GiveCommand(command)
         \/ Ban \/ DialCommand \/ CheckPeers \/ AddPeer \/ ChangeRelation
  PROVE  ServedInv' /\ DoomedInv'
<1>1. UNCHANGED <<internal_events, conns, events, event_steps>>
  BY DEF GiveCommand, Ban, DialCommand, CheckPeers, AddPeer, ChangeRelation, Processing
<1>2. peers \in [DOMAIN peers -> PeerRecs]  BY DEF GossipInv, PeersInv
<1>3. command_steps' = command_steps \/ command_steps = <<>>
  BY DEF GiveCommand, Ban, DialCommand, CheckPeers, AddPeer, ChangeRelation, Processing
<1>4. \A c \in Conns : ShutdownStep(c) => ShutdownStep(c)'  BY <1>3 DEF ShutdownStep
<1>5. \A q \in DOMAIN peers : q \in DOMAIN peers' /\ peers'[q].conn = peers[q].conn
  <2>1. CASE AddPeer
    <3> DEFINE p == Head(commands).peer
               rel == Head(commands).relation
    <3>1. peers' = IF p \in DOMAIN peers THEN [peers EXCEPT ![p].addr = Listen(p), ![p].relation = rel]
                   ELSE WithKey(peers, p, Info(Listen(p), rel))
      BY <2>1 DEF AddPeer
    <3> HIDE DEF p, rel
    <3>2. CASE p \in DOMAIN peers
      <4> DEFINE r == [peers[p] EXCEPT !.addr = Listen(p), !.relation = rel]
      <4>1. r.conn = peers[p].conn  BY <1>2, <3>2 DEF PeerRecs
      <4>2. peers' = [peers EXCEPT ![p] = r]
        <5>1. peers' = [peers EXCEPT ![p].addr = Listen(p), ![p].relation = rel]  BY <3>1, <3>2
        <5> QED  BY <1>2, <3>2, <5>1
      <4> HIDE DEF r
      <4> QED  BY <1>2, <4>1, <4>2
    <3>3. CASE p \notin DOMAIN peers
      <4>1. peers' = WithKey(peers, p, Info(Listen(p), rel))  BY <3>1, <3>3
      <4> QED  BY <3>3, <4>1 DEF WithKey
    <3> QED  BY <3>2, <3>3
  <2>2. CASE ChangeRelation
    <3> DEFINE p == Head(commands).peer
               rel == Head(commands).relation
    <3>1. peers' = IF p \in DOMAIN peers THEN [peers EXCEPT ![p].relation = rel] ELSE peers
      BY <2>2 DEF ChangeRelation
    <3> HIDE DEF p, rel
    <3>2. CASE p \in DOMAIN peers
      <4> DEFINE r == [peers[p] EXCEPT !.relation = rel]
      <4>1. r.conn = peers[p].conn  BY <1>2, <3>2 DEF PeerRecs
      <4>2. peers' = [peers EXCEPT ![p] = r]  BY <1>2, <3>1, <3>2
      <4> HIDE DEF r
      <4> QED  BY <1>2, <4>1, <4>2
    <3> QED  BY <3>1, <3>2
  <2>3. CASE ~ AddPeer /\ ~ ChangeRelation
    BY <2>3 DEF GiveCommand, Ban, DialCommand, CheckPeers
  <2> QED  BY <2>1, <2>2, <2>3
<1>6. \A p \in PeerIds, c \in Conns : Listed(p, c) => Listed(p, c)'  BY <1>5 DEF Listed
<1>7. \A p \in PeerIds, c \in Conns : MayHold(p, c)' => MayHold(p, c)  BY <1>1, MayHoldFrame
<1> QED  BY <1>1, <1>4, <1>6, <1>7, GhostFrame

\* The second step of a disconnection.
LEMMA ConcatSecond ==
  ASSUME NEW a, NEW b, NEW m, NEW r \in {<<>>, <<m>>}
  PROVE  2 \in DOMAIN (<<a, b>> \o r) /\ (<<a, b>> \o r)[2] = b
<1> DEFINE S == {a, b, m}
<1>1. <<a, b>> \in Seq(S) /\ <<m>> \in Seq(S)  OBVIOUS
<1>2. CASE r = <<>>
  <2>1. <<a, b>> \o <<>> = <<a, b>>  BY <1>1
  <2> QED  BY <1>2, <2>1
<1>3. CASE r = <<m>>
  <2> DEFINE t == <<a, b>> \o <<m>>
  <2>1. t \in Seq(S) /\ Len(t) = 3 /\ t[2] = b  BY <1>1
  <2> HIDE DEF t
  <2>2. 2 \in DOMAIN t  BY <2>1
  <2> QED  BY <1>3, <2>1, <2>2 DEF t
<1> QED  BY <1>2, <1>3

\* A connection that is taken from the list is going to be shut down.
LEMMA DisconnectPeerGhost ==
  ASSUME GossipInv, ServedInv, DoomedInv, DisconnectPeer, UNCHANGED manager
  PROVE  ServedInv' /\ DoomedInv'
<1> DEFINE q == Head(commands).peer
           removal == IF Head(commands).kind = "RemovePeer" THEN <<Then("remove", q)>> ELSE <<>>
<1>1. /\ UNCHANGED <<internal_events, conns, events, event_steps>> /\ command_steps = <<>>
  BY DEF DisconnectPeer, Processing
<1>2. \A p \in PeerIds, c \in Conns : MayHold(p, c)' => MayHold(p, c)  BY <1>1, MayHoldFrame
<1>3. \A c \in Conns : ShutdownStep(c) => ShutdownStep(c)'  BY <1>1 DEF ShutdownStep
<1>4. \/ /\ q \in DOMAIN peers /\ peers' = Disconnected(q)
         /\ command_steps' = DisconnectSteps(q) \o removal
      \/ UNCHANGED peers
  BY DEF DisconnectPeer
<1>5. ASSUME NEW p \in PeerIds, NEW c \in Conns, Listed(p, c)  PROVE Listed(p, c)' \/ ShutdownStep(c)'
  <2>1. CASE UNCHANGED peers  BY <1>5, <2>1 DEF Listed
  <2>2. CASE /\ q \in DOMAIN peers /\ peers' = Disconnected(q)
             /\ command_steps' = DisconnectSteps(q) \o removal
    <3>1. CASE p # q  BY <1>5, <2>2, <3>1, DisconnectedList DEF Listed, GossipInv
    <3>2. CASE p = q
      <4>1. IsConnected(q) /\ peers[q].conn = c
        BY <1>5, <2>2, <3>2, GossipAssumption DEF Listed, IsConnected
      <4> DEFINE a == Publish("PeerDisconnected", q)
                 b == Then("shutdown", c)
                 m == Then("remove", q)
      <4>2. DisconnectSteps(q) = <<a, b>>  BY <4>1 DEF DisconnectSteps
      <4>3. removal \in {<<>>, <<m>>}  OBVIOUS
      <4> HIDE DEF a, b, m, removal
      <4>4. command_steps' = <<a, b>> \o removal  BY <2>2, <4>2
      <4>5. 2 \in DOMAIN (<<a, b>> \o removal) /\ (<<a, b>> \o removal)[2] = b
        BY <4>3, ConcatSecond
      <4>6. 2 \in DOMAIN command_steps' /\ command_steps'[2] = b  BY <4>4, <4>5
      <4> QED  BY <4>6 DEF ShutdownStep, b
    <3> QED  BY <3>1, <3>2
  <2> QED  BY <1>4, <2>1, <2>2
<1> QED  BY <1>1, <1>2, <1>3, <1>5, GhostFrame

\* A shutdown that is pending stays pending until it is done.
LEMMA ShutdownTail ==
  ASSUME NEW c, command_steps \in Seq(Steps), command_steps # <<>>, NEW more \in Seq(Steps),
         command_steps' = Tail(command_steps) \o more, ShutdownStep(c),
         Head(command_steps) # Then("shutdown", c)
  PROVE  ShutdownStep(c)'
<1> DEFINE x == Then("shutdown", c)
           T == Tail(command_steps)
<1>1. PICK i \in DOMAIN command_steps : command_steps[i] = x  BY DEF ShutdownStep
<1>2. Head(command_steps) # x  OBVIOUS
<1> HIDE DEF x
<1> DEFINE k == i - 1
<1>3. i # 1  BY <1>1, <1>2
<1>4. T \in Seq(Steps) /\ k \in 1 .. Len(T) /\ T[k] = x  BY <1>1, <1>3
<1>5. command_steps' = T \o more  OBVIOUS
<1> HIDE DEF T, k
<1>6. k \in DOMAIN command_steps' /\ command_steps'[k] = x  BY <1>4, <1>5
<1> QED  BY <1>6 DEF ShutdownStep, x

\* The steps after a command shut down what was disconnected.
LEMMA CommandStepGhost ==
  ASSUME GossipInv, ServedInv, DoomedInv, CommandStep, UNCHANGED manager
  PROVE  ServedInv' /\ DoomedInv'
<1> DEFINE step == Head(command_steps)
           more == IF step.do = "remove" /\ step.arg \in DOMAIN peers
                   THEN <<Publish("PeerRemoved", step.arg)>> ELSE <<>>
           d == step.arg
<1>1. command_steps \in Seq(Steps) /\ command_steps # <<>>
  BY DEF GossipInv, QueuesInv, CommandStep
<1>2. step \in Steps  BY <1>1
<1>3. /\ command_steps' = Tail(command_steps) \o more
      /\ conns' = IF step.do = "shutdown"
                  THEN [conns EXCEPT ![d].shutdown = conns[d].writer] ELSE conns
      /\ peers' = IF step.do = "remove" THEN Keeping(peers, PeerIds \ {d}) ELSE peers
      /\ UNCHANGED <<internal_events, negotiating>>
  BY DEF CommandStep
<1>4. more \in Seq(Steps)
  <2>1. CASE step.do = "remove" /\ step.arg \in DOMAIN peers
    <3>1. step.arg \in PeerIds  BY <2>1 DEF GossipInv, PeersInv
    <3>2. Publish("PeerRemoved", step.arg) \in Steps
      BY <3>1 DEF Publish, Event, Steps, Publications, Notices
    <3> QED  BY <2>1, <3>2
  <2> QED  BY <2>1
<1>5. \A c \in Conns : step # Then("shutdown", c) => (ShutdownStep(c) => ShutdownStep(c)')
  <2> HIDE DEF more
  <2> QED  BY <1>1, <1>3, <1>4, ShutdownTail
<1> HIDE DEF step, more
<1>6. /\ step.do = "shutdown" => d \in Conns /\ step = Then("shutdown", d)
      /\ step.do = "remove" => d \in RemovedPeers
  BY <1>2, StepKinds
<1>7. \A p \in PeerIds, c \in Conns : MayHold(p, c)' => MayHold(p, c)  BY CommandStepHolds
<1>8. \A c : Then("shutdown", c).do = "shutdown" /\ Then("shutdown", c).arg = c  BY DEF Then
<1>9. \A p \in PeerIds \ RemovedPeers, c \in Conns : Listed(p, c) => Listed(p, c)'
  BY <1>3, <1>6 DEF Listed, Keeping
<1>10. CASE step.do # "shutdown"
  <2>1. UNCHANGED conns  BY <1>3, <1>10
  <2>2. \A c \in Conns : ShutdownStep(c) => ShutdownStep(c)'  BY <1>5, <1>8, <1>10
  <2> QED  BY <1>3, <1>7, <1>9, <2>1, <2>2, GhostFrame
<1>11. CASE step.do = "shutdown"
  <2> HIDE DEF d
  <2>1. d \in Conns /\ conns' = [conns EXCEPT ![d].shutdown = conns[d].writer]
    BY <1>3, <1>6, <1>11
  <2>2. /\ \A c \in Conns : /\ conns'[c].peer = conns[c].peer /\ conns'[c].received = conns[c].received
                            /\ conns'[c].reader = conns[c].reader /\ conns'[c].writer = conns[c].writer
                            /\ conns'[c].state = conns[c].state
        /\ conns'[d].shutdown = conns[d].writer
        /\ \A c \in Conns : c # d => conns'[c].shutdown = conns[c].shutdown
    BY <1>3, <2>1, ConnsShutdown DEF GossipInv
  <2> SUFFICES ASSUME NEW p \in PeerIds, NEW c \in Conns, MayHold(p, c)'
               PROVE  /\ LossOf(p)' \/ Served(p, c)'
                      /\ p \notin RemovedPeers => Listed(p, c)' \/ Doomed(p, c)'
    BY GhostNext
  <2>3. /\ LossOf(p) \/ Served(p, c)
        /\ p \notin RemovedPeers => Listed(p, c) \/ Doomed(p, c)
    BY <1>7, GhostNow
  <2>4. (LossOf(p) => LossOf(p)') /\ (Served(p, c) => Served(p, c)')
    BY <1>3, <2>2 DEF LossOf, Served
  <2>5. CASE c = d
    <3>1. LossOf(p)' \/ (conns'[c].writer /\ conns'[c].shutdown)
            \/ (conns'[c].reader /\ conns'[c].state = "closed")
      BY <2>2, <2>3, <2>4, <2>5 DEF Served
    <3>2. Doomed(p, c)'  BY <3>1 DEF Doomed
    <3> QED  BY <2>3, <2>4, <3>2
  <2>6. CASE c # d
    <3>1. ShutdownStep(c) => ShutdownStep(c)'  BY <1>5, <1>8, <2>6 DEF d
    <3>2. Doomed(p, c) => Doomed(p, c)'  BY <2>2, <2>4, <2>6, <3>1 DEF Doomed
    <3> QED  BY <1>9, <2>3, <2>4, <3>2
  <2> QED  BY <2>5, <2>6
<1> QED  BY <1>10, <1>11

\* Publishing an event changes nothing that counts.
LEMMA EventStepGhost ==
  ASSUME GossipInv, ServedInv, DoomedInv, EventStep, UNCHANGED manager
  PROVE  ServedInv' /\ DoomedInv'
<1>1. UNCHANGED <<internal_events, conns, peers, command_steps>>  BY DEF EventStep
<1>2. \A p \in PeerIds, c \in Conns : MayHold(p, c)' => MayHold(p, c)  BY EventStepHolds
<1>3. \A p \in PeerIds \ RemovedPeers, c \in Conns :
        (Listed(p, c) => Listed(p, c)') /\ (ShutdownStep(c) => ShutdownStep(c)')
  BY <1>1 DEF Listed, ShutdownStep
<1> QED  BY <1>1, <1>2, <1>3, GhostFrame

\* What may be held keeps its connection, or its loss is announced.
LEMMA GhostConns ==
  ASSUME ServedInv, DoomedInv, UNCHANGED command_steps,
         \A p \in PeerIds, c \in Conns : MayHold(p, c)' =>
           /\ MayHold(p, c) /\ (LossOf(p) => LossOf(p)')
           /\ conns'[c] = conns[c] /\ (Listed(p, c) => Listed(p, c)')
  PROVE  ServedInv' /\ DoomedInv'
<1> SUFFICES ASSUME NEW p \in PeerIds, NEW c \in Conns, MayHold(p, c)'
             PROVE  /\ LossOf(p)' \/ Served(p, c)'
                    /\ p \notin RemovedPeers => Listed(p, c)' \/ Doomed(p, c)'
  BY GhostNext
<1>1. /\ MayHold(p, c) /\ (LossOf(p) => LossOf(p)') /\ conns'[c] = conns[c]
      /\ (Listed(p, c) => Listed(p, c)')
  OBVIOUS
<1>2. /\ LossOf(p) \/ Served(p, c)
      /\ p \notin RemovedPeers => Listed(p, c) \/ Doomed(p, c)
  BY <1>1, GhostNow
<1>3. Served(p, c) => Served(p, c)'  BY <1>1 DEF Served
<1>4. ShutdownStep(c) => ShutdownStep(c)'  BY DEF ShutdownStep
<1>5. Doomed(p, c) => Doomed(p, c)'  BY <1>1, <1>4 DEF Doomed
<1> QED  BY <1>1, <1>2, <1>3, <1>5

\* Once a loss is received nothing is held for its peer.
LEMMA ProtocolDroppedGhost ==
  ASSUME GossipInv, ServedInv, DoomedInv, ProtocolDropped, UNCHANGED manager
  PROVE  ServedInv' /\ DoomedInv'
<1> DEFINE q == Head(internal_events).peer
<1>1. /\ internal_events # <<>> /\ internal_events' = Tail(internal_events)
      /\ UNCHANGED <<command_steps, conns>> /\ q \in PeerIds
  BY ReceivedEvent DEF ProtocolDropped, GossipInv
<1>2. peers' = IF q \in DOMAIN peers THEN Keeping(Disconnected(q), PeerIds \ RemovedIfUnknown(q)) ELSE peers
  BY DEF ProtocolDropped
<1>3. ASSUME NEW p \in PeerIds, NEW c \in Conns, MayHold(p, c)'
      PROVE  /\ MayHold(p, c) /\ (LossOf(p) => LossOf(p)')
             /\ conns'[c] = conns[c] /\ (Listed(p, c) => Listed(p, c)')
  <2>1. MayHold(p, c) /\ p # q  BY <1>3, ProtocolDroppedHolds
  <2>2. LossOf(p) => LossOf(p)'  BY <1>1, <2>1, LossTail DEF GossipInv
  <2> HIDE DEF q
  <2>3. Listed(p, c) => Listed(p, c)'
    <3>1. CASE q \notin DOMAIN peers  BY <1>2, <3>1 DEF Listed
    <3>2. CASE q \in DOMAIN peers
      <4> DEFINE D == Disconnected(q)
      <4>1. DOMAIN D = DOMAIN peers /\ \A r \in DOMAIN peers : r # q => D[r] = peers[r]
        BY <3>2, DisconnectedList DEF GossipInv
      <4>2. peers' = Keeping(D, PeerIds \ RemovedIfUnknown(q))  BY <1>2, <3>2
      <4>3. RemovedIfUnknown(q) \subseteq {q}  BY DEF RemovedIfUnknown
      <4> HIDE DEF D
      <4> QED  BY <2>1, <4>1, <4>2, <4>3 DEF Listed, Keeping
    <3> QED  BY <3>1, <3>2
  <2> QED  BY <1>1, <2>1, <2>2, <2>3
<1> QED  BY <1>1, <1>3, GhostConns

\* An accepted connection is listed and served; the others are not touched.
LEMMA ProtocolEstablishedGhost ==
  ASSUME GossipInv, PlacesInv, ServedInv, DoomedInv, ProtocolEstablished, UNCHANGED manager
  PROVE  ServedInv' /\ DoomedInv'
<1> DEFINE q == Head(internal_events).peer
           d == Head(internal_events).conn
<1>1. /\ internal_events # <<>> /\ internal_events' = Tail(internal_events)
      /\ UNCHANGED command_steps /\ Head(internal_events).kind = "ProtocolEstablished"
  BY ReceivedEvent DEF ProtocolEstablished, GossipInv
<1>2. /\ d \in Conns /\ d \in Negotiated /\ (Accepted(q, d) \/ Refused(d))
      /\ \A c \in Conns : c # d => conns'[c] = conns[c]
  BY EstablishmentCases
<1> SUFFICES ASSUME NEW p \in PeerIds, NEW c \in Conns, MayHold(p, c)'
             PROVE  /\ LossOf(p)' \/ Served(p, c)'
                    /\ p \notin RemovedPeers => Listed(p, c)' \/ Doomed(p, c)'
  BY GhostNext
<1>3. (MayHold(p, c) /\ (p = q => Refused(d))) \/ (Accepted(q, d) /\ p = q /\ c = d)
  BY ProtocolEstablishedHolds
<1>4. LossOf(p) => LossOf(p)'  BY <1>1, LossTail DEF GossipInv
<1> HIDE DEF q, d
<1>5. CASE Accepted(q, d) /\ p = q /\ c = d  BY <1>5 DEF Accepted, Served, Listed
<1>6. CASE MayHold(p, c) /\ (p = q => Refused(d))
  <2>1. c # d  BY <1>2, <1>6, MayHoldPlaced DEF PlacesInv, ApartInv
  <2>2. conns'[c] = conns[c]  BY <1>2, <2>1
  <2>3. /\ LossOf(p) \/ Served(p, c)
        /\ p \notin RemovedPeers => Listed(p, c) \/ Doomed(p, c)
    BY <1>6, GhostNow
  <2>4. Served(p, c) => Served(p, c)'  BY <2>2 DEF Served
  <2>5. Doomed(p, c) => Doomed(p, c)'  BY <1>1, <1>4, <2>2 DEF Doomed, ShutdownStep
  <2>6. Listed(p, c) => Listed(p, c)'  BY <1>2, <1>6 DEF Accepted, Refused, Listed
  <2> QED  BY <1>4, <2>3, <2>4, <2>5, <2>6
<1> QED  BY <1>3, <1>5, <1>6

\* The host and the negotiation touch connections that nobody holds.
LEMMA HostGhost ==
  ASSUME GossipInv, PlacesInv, ServedInv, DoomedInv, UNCHANGED manager, HostInv, HostAction
  PROVE  ServedInv' /\ DoomedInv'
<1>1. UNCHANGED <<events, event_steps, internal_events, peers, command_steps>>  BY HostStep
<1>2. ASSUME NEW p \in PeerIds, NEW c \in Conns, MayHold(p, c)'
      PROVE  /\ MayHold(p, c) /\ (LossOf(p) => LossOf(p)')
             /\ conns'[c] = conns[c] /\ (Listed(p, c) => Listed(p, c)')
  <2>1. MayHold(p, c)  BY <1>1, <1>2, MayHoldFrame
  <2>2. c \in Placed  BY <2>1, MayHoldPlaced DEF Placed
  <2>3. (LossOf(p) => LossOf(p)') /\ (Listed(p, c) => Listed(p, c)')  BY <1>1 DEF LossOf, Listed
  <2>4. conns'[c] = conns[c]
    <3>1. CASE UNCHANGED <<conns, negotiating>>  BY <3>1
    <3>2. CASE \E d \in Conns, q \in PeerIds, addr \in Addrs \cup {NoConn} : Established(d, q, addr)
      <4>1. PICK d \in Conns, q \in PeerIds, addr \in Addrs \cup {NoConn} : Established(d, q, addr)  BY <3>2
      <4>2. conns[d].state = "unused" /\ \A e \in Conns : e # d => conns'[e] = conns[e]
        BY <4>1, EstablishedConn DEF GossipInv
      <4>3. c # d  BY <2>2, <4>2 DEF PlacesInv, StatesInv
      <4> QED  BY <4>2, <4>3
    <3> QED  BY <3>1, <3>2, HostStep
  <2> QED  BY <2>1, <2>3, <2>4
<1> QED  BY <1>1, <1>2, GhostConns

\* A connection that is being negotiated is held by nobody.
LEMMA UpgradeGhost ==
  ASSUME GossipInv, PlacesInv, ServedInv, DoomedInv, UNCHANGED manager,
         NEW d \in Conns, UpgradeCompleted(d)
  PROVE  ServedInv' /\ DoomedInv'
<1>1. /\ conns[d].state = "open" /\ \A e \in Conns : e # d => conns'[e] = conns[e]
      /\ UNCHANGED <<events, event_steps, peers, command_steps>>
      /\ \/ internal_events' = internal_events
         \/ \E e \in Establishments : internal_events' = Append(internal_events, e)
  BY UpgradeConn
<1>2. ASSUME NEW p \in PeerIds, NEW c \in Conns, MayHold(p, c)'
      PROVE  /\ MayHold(p, c) /\ (LossOf(p) => LossOf(p)')
             /\ conns'[c] = conns[c] /\ (Listed(p, c) => Listed(p, c)')
  <2>1. MayHold(p, c)  BY <1>1, <1>2, MayHoldFrame
  <2>2. c \in Placed  BY <2>1, MayHoldPlaced DEF Placed
  <2>3. c # d  BY <1>1, <2>2 DEF PlacesInv, StatesInv
  <2>4. LossOf(p) => LossOf(p)'
    <3>1. CASE internal_events' = internal_events  BY <3>1 DEF LossOf
    <3>2. CASE \E e \in Establishments : internal_events' = Append(internal_events, e)
      BY <3>2, LossAppend DEF GossipInv
    <3> QED  BY <1>1, <3>1, <3>2
  <2>5. Listed(p, c) => Listed(p, c)'  BY <1>1 DEF Listed
  <2> QED  BY <1>1, <2>1, <2>3, <2>4, <2>5
<1> QED  BY <1>1, <1>2, GhostConns

\* The peer manager ends the worker of no connection that it may hold.
LEMMA ManagerGhost ==
  ASSUME GossipInv, PlacesInv, ServedInv, DoomedInv,
         PeerAdded \/ PeerRemoved \/ PeerConnected \/ PeerDisconnected
  PROVE  ServedInv' /\ DoomedInv'
<1>1. UNCHANGED <<internal_events, peers, command_steps>>  BY HandledConns, HandledEvent
<1>2. \A p \in PeerIds, c \in Conns :
        (LossOf(p) => LossOf(p)') /\ (Listed(p, c) => Listed(p, c)')
  BY <1>1 DEF LossOf, Listed
<1>3. \A p \in PeerIds, c \in Conns : MayHold(p, c)' => MayHold(p, c) /\ conns'[c] = conns[c]
  BY ManagerHolds
<1> QED  BY <1>1, <1>2, <1>3, GhostConns

\* A connection that breaks is still read, until the end of it is announced.
LEMMA ConnectionLostGhost ==
  ASSUME GossipInv, ServedInv, DoomedInv, UNCHANGED manager, NEW d \in Conns, ConnectionLost(d)
  PROVE  ServedInv' /\ DoomedInv'
<1>1. /\ conns'[d].state = "closed" /\ \A e \in Conns : e # d => conns'[e] = conns[e]
      /\ conns'[d].peer = conns[d].peer /\ conns'[d].reader = conns[d].reader
      /\ conns'[d].writer = conns[d].writer /\ conns'[d].received = conns[d].received
      /\ conns'[d].shutdown = conns[d].shutdown
      /\ UNCHANGED <<events, event_steps, internal_events, peers, command_steps>>
  BY LostConn DEF GossipInv
<1> SUFFICES ASSUME NEW p \in PeerIds, NEW c \in Conns, MayHold(p, c)'
             PROVE  /\ LossOf(p)' \/ Served(p, c)'
                    /\ p \notin RemovedPeers => Listed(p, c)' \/ Doomed(p, c)'
  BY GhostNext
<1>2. /\ LossOf(p) \/ Served(p, c)
      /\ p \notin RemovedPeers => Listed(p, c) \/ Doomed(p, c)
  BY <1>1, MayHoldFrame, GhostNow
<1>3. (LossOf(p) => LossOf(p)') /\ (Listed(p, c) => Listed(p, c)') /\ (ShutdownStep(c) => ShutdownStep(c)')
  BY <1>1 DEF LossOf, Listed, ShutdownStep
<1>4. Served(p, c) => Served(p, c)'  BY <1>1 DEF Served
<1>5. Doomed(p, c) => Doomed(p, c)'  BY <1>1, <1>3 DEF Doomed
<1> QED  BY <1>2, <1>3, <1>4, <1>5

\* The end of a task is announced, unless nobody holds the connection or another task announces it.
LEMMA TasksGhost ==
  ASSUME GossipInv, ServedInv, DoomedInv, UNCHANGED manager, NEW d \in Conns,
         ReaderEnds(d) \/ WriterShutdown(d) \/ WriterEnds(d, Holders)
  PROVE  ServedInv' /\ DoomedInv'
<1>1. /\ \A e \in Conns : e # d => conns'[e] = conns[e]
      /\ UNCHANGED <<events, event_steps, peers, command_steps>>
      /\ internal_events' \in {internal_events, Append(internal_events, StreamDropped(d))}
      /\ conns[d].reader \/ conns[d].writer
  BY ReaderConn, WriterConn DEF GossipInv
<1>2. /\ StreamDropped(d) \in Losses /\ StreamDropped(d).peer = conns[d].peer
      /\ StreamDropped(d).kind = "ProtocolDropped"
  BY <1>1, DroppedEvent DEF GossipInv
<1> SUFFICES ASSUME NEW p \in PeerIds, NEW c \in Conns, MayHold(p, c)'
             PROVE  /\ LossOf(p)' \/ Served(p, c)'
                    /\ p \notin RemovedPeers => Listed(p, c)' \/ Doomed(p, c)'
  BY GhostNext
<1>3. MayHold(p, c)  BY <1>1, MayHoldFrame
<1>4. /\ LossOf(p) \/ Served(p, c)
      /\ p \notin RemovedPeers => Listed(p, c) \/ Doomed(p, c)
  BY <1>3, GhostNow
<1>5. /\ LossOf(p) => LossOf(p)'
      /\ internal_events' = Append(internal_events, StreamDropped(d)) /\ conns[d].peer = p => LossOf(p)'
  <2>1. CASE internal_events' = internal_events
    <3>1. LossOf(p) => LossOf(p)'  BY <2>1 DEF LossOf
    <3>2. internal_events' # Append(internal_events, StreamDropped(d))
      <4>1. internal_events \in Seq(Establishments \cup Losses)  BY DEF GossipInv, QueuesInv
      <4>2. Len(Append(internal_events, StreamDropped(d))) = Len(internal_events) + 1
            /\ Len(internal_events) \in Nat
        BY <4>1
      <4> QED  BY <2>1, <4>2
    <3> QED  BY <3>1, <3>2
  <2>2. CASE internal_events' = Append(internal_events, StreamDropped(d))
    BY <1>2, <2>2, LossAppend DEF GossipInv
  <2> QED  BY <1>1, <2>1, <2>2
<1>6. CASE LossOf(p)'  BY <1>6 DEF Doomed
<1>7. CASE ~ LossOf(p)'
  <2>1. Served(p, c) /\ ~ LossOf(p)  BY <1>4, <1>5, <1>7
  <2>2. (Listed(p, c) => Listed(p, c)') /\ (ShutdownStep(c) => ShutdownStep(c)')
    BY <1>1 DEF Listed, ShutdownStep
  <2>3. CASE c # d
    <3>1. conns'[c] = conns[c]  BY <1>1, <2>3
    <3>2. Served(p, c)'  BY <2>1, <3>1 DEF Served
    <3>3. Doomed(p, c) => Doomed(p, c)'  BY <2>1, <2>2, <3>1 DEF Doomed
    <3> QED  BY <1>4, <2>2, <3>2, <3>3
  <2>4. CASE c = d
    <3>1. conns[d].peer = p /\ conns[d].received /\ conns[d].reader
      BY <2>1, <2>4 DEF Served
    <3>2. internal_events' # Append(internal_events, StreamDropped(d))  BY <1>5, <1>7, <3>1
    <3>3. ~ ReaderEnds(d)  BY <3>1, <3>2, ReaderConn DEF GossipInv
    <3>4. /\ conns'[d].reader = conns[d].reader
          /\ conns[d].reader => /\ conns'[d].peer = conns[d].peer /\ conns'[d].state = conns[d].state
                                /\ conns'[d].received = conns[d].received
          /\ conns[d].state = "closed" \/ ~ (SendersOf(d, Holders) \/ conns[d].shutdown)
      BY <3>2, <3>3, WriterConn DEF GossipInv
    <3>5. conns[d].state = "closed"  BY <1>3, <2>4, <3>4, MayHoldPlaced
    <3>6. Served(p, c)'  BY <2>4, <3>1, <3>4, <3>5 DEF Served
    <3>7. Doomed(p, c)'  BY <2>4, <3>1, <3>4, <3>5 DEF Doomed
    <3> QED  BY <3>6, <3>7
  <2> QED  BY <2>3, <2>4
<1> QED  BY <1>6, <1>7

-----------------------------------------------------------------------------
(***************************************************************************)
(* The whole service and the peer manager.                                 *)
(***************************************************************************)
LEMMA GossipInitially == ASSUME ManagerInit  PROVE GossipInv /\ GhostInv
<1>1. /\ peers = [p \in StaticPeers |-> Info(Listen(p), "known")]
      /\ banned_peers = {} /\ banned_addrs = {} /\ commands = <<>> /\ internal_commands = <<>>
      /\ internal_events = <<>> /\ command_steps = <<>> /\ event_steps = <<>> /\ negotiating = <<>>
      /\ conns = [c \in Conns |-> Unused] /\ manager = <<>>
  BY DEF ManagerInit, GossipInit
<1>2. PeersInv
  <2> DEFINE r(p) == Info(Listen(p), "known")
  <2>1. \A p \in StaticPeers : r(p) \in PeerRecs /\ r(p).relation = "known"
    BY GossipAssumption DEF Info, Listen, PeerRecs, Addrs, Relations
  <2>2. peers = [p \in StaticPeers |-> r(p)]  BY <1>1
  <2> HIDE DEF r
  <2>3. DOMAIN peers = StaticPeers /\ \A p \in StaticPeers : peers[p] = r(p)  BY <2>2
  <2>4. peers \in [DOMAIN peers -> PeerRecs]  BY <2>1, <2>2
  <2>5. OfRelation("unknown") = {}  BY <2>1, <2>3 DEF OfRelation
  <2>6. IsFiniteSet(OfRelation("unknown")) /\ Cardinality(OfRelation("unknown")) = 0
    <3>1. IsFiniteSet({}) /\ Cardinality({}) = 0  BY FS_EmptySet
    <3> QED  BY <2>5, <3>1
  <2>7. UnknownPeersBounded  BY <2>6, GossipAssumption DEF UnknownPeersBounded, filter_count
  <2> QED  BY <2>3, <2>4, <2>6, <2>7, GossipAssumption DEF PeersInv
<1>3. QueuesInv  BY <1>1 DEF QueuesInv
<1>4. /\ EventsInv /\ OfKind(events, "PeerConnected") = {}
  <2> DEFINE n == Cardinality(StaticPeers)
  <2>1. n \in Nat  BY GossipAssumption, FS_CardinalityType
  <2>2. PICK order \in [1 .. n -> StaticPeers] :
          events = [i \in DOMAIN order |-> Event("PeerAdded", order[i], NoConn)]
    BY DEF ManagerInit, GossipInit
  <2> HIDE DEF n
  <2> DEFINE e(i) == Event("PeerAdded", order[i], NoConn)
  <2>3. \A i \in 1 .. n : e(i) \in AllEvents /\ e(i).kind # "PeerConnected"
    BY GossipAssumption DEF Event, AllEvents, Notices
  <2>4. events = [i \in 1 .. n |-> e(i)]  BY <2>2
  <2> HIDE DEF e
  <2>5. events \in Seq(AllEvents)  BY <2>1, <2>3, <2>4
  <2>6. DOMAIN events = 1 .. n /\ \A i \in 1 .. n : events[i] = e(i)  BY <2>4
  <2>7. OfKind(events, "PeerConnected") = {}  BY <2>3, <2>6 DEF OfKind
  <2> QED  BY <1>1, <2>5, <2>7 DEF EventsInv
<1>5. Unused \in ConnRecs /\ ~ Unused.reader /\ ~ Unused.writer  BY DEF Unused, ConnRecs
<1>6. ConnsInv
  <2>1. DOMAIN negotiating = {}  BY <1>1
  <2>2. conns \in [Conns -> ConnRecs] /\ \A c \in Conns : conns[c] = Unused  BY <1>1, <1>5
  <2> QED  BY <1>5, <2>1, <2>2 DEF ConnsInv
<1>7. DOMAIN manager = {}  BY <1>1
<1>8. TableInv
  <2>1. manager \in [{} -> Conns \cup {NoConn}]  BY <1>1
  <2> QED  BY <1>7, <2>1 DEF TableInv
<1>9. /\ OfKind(internal_events, "ProtocolEstablished") = {}
      /\ OfKind(event_steps, "PeerConnected") = {}
  BY <1>1 DEF OfKind
<1>10. Negotiated = {} /\ Announced = {} /\ Announcing = {} /\ HeldConns = {} /\ Placed = {}
  BY <1>4, <1>7, <1>9 DEF Negotiated, Announced, Announcing, HeldConns, Holders, ConnsIn, Placed
<1>11. PlacesInv
  <2>1. OnceInv  BY <1>4, <1>7, <1>9 DEF OnceInv, OnceIn
  <2>2. ApartInv  BY <1>10 DEF ApartInv
  <2>3. StatesInv  BY <1>1, <1>5, <1>9, <1>10 DEF StatesInv
  <2> QED  BY <2>1, <2>2, <2>3 DEF PlacesInv
<1>12. \A p \in PeerIds, c \in Conns : ~ MayHold(p, c)  BY <1>10, MayHoldPlaced
<1> QED  BY <1>2, <1>3, <1>4, <1>6, <1>8, <1>11, <1>12
         DEF GossipInv, GhostInv, ServedInv, DoomedInv

(***************************************************************************)
(* The peers that are configured or added stay listed: what a command is   *)
(* still going to remove is not one of them.                               *)
(***************************************************************************)
WantedInv ==
  /\ WantedPeersKept
  /\ \A i \in DOMAIN command_steps :
       command_steps[i].do = "remove" => command_steps[i].arg \notin wanted

\* At the start the static peers are listed, and the host waits.
LEMMA WantedInitially == ASSUME ManagerInit  PROVE HostInv /\ WantedInv
<1>1. /\ peers = [p \in StaticPeers |-> Info(Listen(p), "known")] /\ wanted = StaticPeers
      /\ command_steps = <<>> /\ host = [alive |-> TRUE, dialing |-> NoConn]
  BY DEF ManagerInit, GossipInit
<1>2. \A p \in StaticPeers : p \in DOMAIN peers /\ peers[p].relation # "unknown"
  BY <1>1 DEF Info
<1> QED  BY <1>1, <1>2 DEF HostInv, HostRecs, WantedInv, WantedPeersKept

\* Nobody but the host touches its state.
LEMMA HostInvStep ==
  ASSUME GossipInv, HostInv, [ManagerNext]_managerVars  PROVE HostInv'
<1>1. CASE UNCHANGED host  BY <1>1 DEF HostInv
<1>2. CASE HostAction  BY <1>2, HostStep
<1>3. UNCHANGED host \/ HostAction
  BY DEF HostAction, ManagerNext, managerVars, gossipVars, GossipNext, PeerAdded, PeerRemoved,
         PeerConnected, PeerDisconnected, Handling, GiveCommand, AddPeer, DisconnectPeer, Ban,
         ChangeRelation, DialCommand, Processing, CommandStep, ProtocolDropped, ProtocolEstablished,
         Receiving, EventStep, CheckPeers, UpgradeCompleted, ConnectionLost, ReaderEnds,
         WriterShutdown, WriterEnds, Io
<1> QED  BY <1>1, <1>2, <1>3

\* What changes neither the list nor the steps of a command.
LEMMA WantedFrame ==
  ASSUME WantedInv, UNCHANGED <<peers, wanted, command_steps>>  PROVE WantedInv'
BY DEF WantedInv, WantedPeersKept

\* A peer that is added is known or discovered.
LEMMA WantedAdd == ASSUME GossipInv, WantedInv, AddPeer  PROVE WantedInv'
<1> DEFINE p == Head(commands).peer
           rel == Head(commands).relation
<1>1. p \in PeerIds /\ rel \in {"known", "discovered"}
  BY CommandHead, GossipAssumption DEF AddPeer
<1>2. /\ wanted' = wanted \cup {p} /\ command_steps' = <<Publish("PeerAdded", p), Then("dial", p)>>
      /\ peers' = IF p \in DOMAIN peers THEN [peers EXCEPT ![p].addr = Listen(p), ![p].relation = rel]
                  ELSE WithKey(peers, p, Info(Listen(p), rel))
  BY DEF AddPeer
<1>3. peers \in [DOMAIN peers -> PeerRecs]  BY DEF GossipInv, PeersInv
<1> HIDE DEF p, rel
<1>4. /\ DOMAIN peers' = DOMAIN peers \cup {p} /\ peers'[p].relation = rel
      /\ \A q \in DOMAIN peers : q # p => peers'[q] = peers[q]
  <2>1. CASE p \in DOMAIN peers
    <3> DEFINE r == [peers[p] EXCEPT !.addr = Listen(p), !.relation = rel]
    <3>1. r.relation = rel  BY <1>3, <2>1 DEF PeerRecs
    <3>2. peers' = [peers EXCEPT ![p] = r]
      <4>1. peers' = [peers EXCEPT ![p].addr = Listen(p), ![p].relation = rel]  BY <1>2, <2>1
      <4> QED  BY <1>3, <2>1, <4>1
    <3> HIDE DEF r
    <3> QED  BY <1>3, <2>1, <3>1, <3>2
  <2>2. CASE p \notin DOMAIN peers
    <3> DEFINE r == Info(Listen(p), rel)
    <3>1. r.relation = rel  BY DEF Info
    <3>2. peers' = WithKey(peers, p, r)  BY <1>2, <2>2
    <3> HIDE DEF r
    <3> QED  BY <2>2, <3>1, <3>2 DEF WithKey
  <2> QED  BY <2>1, <2>2
<1>5. \A i \in DOMAIN command_steps' : command_steps'[i].do # "remove"
  <2>1. Publish("PeerAdded", p).do # "remove" /\ Then("dial", p).do # "remove"  BY DEF Publish, Then
  <2> QED  BY <1>2, <2>1
<1> QED  BY <1>1, <1>2, <1>4, <1>5 DEF WantedInv, WantedPeersKept

\* A removal is decided before the peer leaves the list.
LEMMA WantedDisconnect == ASSUME GossipInv, WantedInv, DisconnectPeer  PROVE WantedInv'
<1> DEFINE p == Head(commands).peer
           removal == IF Head(commands).kind = "RemovePeer" THEN <<Then("remove", p)>> ELSE <<>>
<1>1. /\ \/ UNCHANGED <<peers, command_steps>>
         \/ /\ p \in DOMAIN peers /\ peers' = Disconnected(p)
            /\ command_steps' = DisconnectSteps(p) \o removal
      /\ wanted' = IF Head(commands).kind = "RemovePeer" THEN wanted \ {p} ELSE wanted
  BY DEF DisconnectPeer
<1>2. /\ Len(removal) \in {0, 1} /\ removal \in Seq({Then("remove", p)})
      /\ Len(removal) = 1 => p \notin wanted'
  BY <1>1
<1> HIDE DEF p, removal
<1>3. wanted' \subseteq wanted  BY <1>1
<1>4. CASE UNCHANGED <<peers, command_steps>>  BY <1>3, <1>4 DEF WantedInv, WantedPeersKept
<1>5. CASE /\ p \in DOMAIN peers /\ peers' = Disconnected(p)
           /\ command_steps' = DisconnectSteps(p) \o removal
  <2>1. /\ DOMAIN peers' = DOMAIN peers
        /\ \A q \in DOMAIN peers : peers'[q].relation = peers[q].relation
    BY <1>5, DisconnectedList DEF GossipInv
  <2> DEFINE S == {Publish("PeerDisconnected", p), Then("shutdown", peers[p].conn)}
  <2>2. DisconnectSteps(p) \in Seq(S)
    <3> DEFINE e == Publish("PeerDisconnected", p)
               f == Then("shutdown", peers[p].conn)
    <3>1. DisconnectSteps(p) = <<>> \/ DisconnectSteps(p) = <<e, f>>  BY DEF DisconnectSteps
    <3>2. <<>> \in Seq({e, f}) /\ <<e, f>> \in Seq({e, f})
      <4> HIDE DEF e, f
      <4> QED  OBVIOUS
    <3>3. S = {e, f}  OBVIOUS
    <3> HIDE DEF S
    <3> QED  BY <3>1, <3>2, <3>3
  <2>3. \A x \in S : x.do # "remove"  BY DEF Publish, Then
  <2>4. Then("remove", p).arg = p  BY DEF Then
  <2> HIDE DEF S
  <2>5. ASSUME NEW i \in DOMAIN command_steps', command_steps'[i].do = "remove"
        PROVE  command_steps'[i].arg \notin wanted'
    <3> DEFINE d == DisconnectSteps(p)
    <3>1. /\ Len(d) \in Nat /\ Len(removal) \in Nat /\ DOMAIN command_steps' = 1 .. Len(d) + Len(removal)
          /\ i <= Len(d) => command_steps'[i] = d[i] /\ d[i] \in S
          /\ i > Len(d) => command_steps'[i] = removal[i - Len(d)] /\ Len(removal) = 1
                           /\ removal[i - Len(d)] = Then("remove", p)
      BY <1>2, <1>5, <2>2
    <3> HIDE DEF d
    <3>2. i > Len(d)  BY <2>3, <2>5, <3>1
    <3> QED  BY <1>2, <2>4, <3>1, <3>2
  <2> QED  BY <1>3, <2>1, <2>5 DEF WantedInv, WantedPeersKept
<1> QED  BY <1>1, <1>4, <1>5

\* No command makes a wanted peer unknown.
LEMMA WantedRelation == ASSUME GossipInv, WantedInv, ChangeRelation  PROVE WantedInv'
<1> DEFINE p == Head(commands).peer
           rel == Head(commands).relation
<1>1. /\ rel \in {"known", "discovered"} /\ UNCHANGED <<command_steps, wanted>>
      /\ UNCHANGED peers \/ (p \in DOMAIN peers /\ peers' = [peers EXCEPT ![p].relation = rel])
  BY CommandHead, GossipAssumption DEF ChangeRelation
<1>2. peers \in [DOMAIN peers -> PeerRecs]  BY DEF GossipInv, PeersInv
<1> HIDE DEF p, rel
<1>3. \A q \in DOMAIN peers : /\ q \in DOMAIN peers'
                              /\ peers'[q].relation \in {peers[q].relation, rel}
  <2>1. CASE p \in DOMAIN peers /\ peers' = [peers EXCEPT ![p].relation = rel]
    <3> DEFINE r == [peers[p] EXCEPT !.relation = rel]
    <3>1. r.relation = rel  BY <1>2, <2>1 DEF PeerRecs
    <3>2. peers' = [peers EXCEPT ![p] = r]  BY <1>2, <2>1
    <3> HIDE DEF r
    <3> QED  BY <1>2, <2>1, <3>1, <3>2
  <2> QED  BY <1>1, <2>1
<1> QED  BY <1>1, <1>3 DEF WantedInv, WantedPeersKept

\* The step that removes a peer was decided by a RemovePeer command.
LEMMA WantedCommandStep == ASSUME GossipInv, WantedInv, CommandStep  PROVE WantedInv'
<1> DEFINE step == Head(command_steps)
           more == IF step.do = "remove" /\ step.arg \in DOMAIN peers
                   THEN <<Publish("PeerRemoved", step.arg)>> ELSE <<>>
<1>1. command_steps \in Seq(Steps) /\ command_steps # <<>> /\ DOMAIN peers \subseteq PeerIds
  BY DEF GossipInv, QueuesInv, PeersInv, CommandStep
<1>2. /\ command_steps' = Tail(command_steps) \o more /\ UNCHANGED wanted
      /\ peers' = IF step.do = "remove" THEN Keeping(peers, PeerIds \ {step.arg}) ELSE peers
  BY DEF CommandStep
<1>3. more \in Seq({Publish("PeerRemoved", step.arg)})
  <2> DEFINE e == Publish("PeerRemoved", step.arg)
  <2>1. more = <<>> \/ more = <<e>>  OBVIOUS
  <2> HIDE DEF more
  <2>2. <<>> \in Seq({e}) /\ <<e>> \in Seq({e})
    <3> HIDE DEF e
    <3> QED  OBVIOUS
  <2> QED  BY <2>1, <2>2
<1>4. Publish("PeerRemoved", step.arg).do # "remove"  BY DEF Publish
<1>5. step = command_steps[1] /\ 1 \in DOMAIN command_steps  BY <1>1
<1> HIDE DEF more, step
<1>6. \A q \in wanted : q \in DOMAIN peers' /\ peers'[q] = peers[q]
  <2>1. CASE step.do = "remove"
    <3>1. step.arg \notin wanted  BY <1>5, <2>1 DEF WantedInv
    <3>2. \A q \in wanted : q \in DOMAIN peers  BY DEF WantedInv, WantedPeersKept
    <3> QED  BY <1>1, <1>2, <2>1, <3>1, <3>2 DEF Keeping
  <2>2. CASE step.do # "remove"  BY <1>2, <2>2 DEF WantedInv, WantedPeersKept
  <2> QED  BY <2>1, <2>2
<1>7. ASSUME NEW i \in DOMAIN command_steps', command_steps'[i].do = "remove"
      PROVE  command_steps'[i].arg \notin wanted
  <2> DEFINE t == Tail(command_steps)
  <2>1. /\ Len(t) \in Nat /\ t \in Seq(Steps)
        /\ \A k \in 1 .. Len(t) : k + 1 \in DOMAIN command_steps /\ t[k] = command_steps[k + 1]
    BY <1>1
  <2>2. command_steps' = t \o more  BY <1>2
  <2> HIDE DEF t
  <2>3. /\ i \in 1 .. Len(t) => command_steps'[i] = t[i]
        /\ i \notin 1 .. Len(t) => command_steps'[i] = Publish("PeerRemoved", step.arg)
    BY <1>3, <2>1, <2>2
  <2>4. i \in 1 .. Len(t)  BY <1>4, <1>7, <2>3
  <2> QED  BY <1>7, <2>1, <2>3, <2>4 DEF WantedInv
<1> QED  BY <1>2, <1>6, <1>7 DEF WantedInv, WantedPeersKept

\* A connection that is lost takes only an unknown peer with it.
LEMMA WantedDropped == ASSUME GossipInv, WantedInv, ProtocolDropped  PROVE WantedInv'
<1> DEFINE p == Head(internal_events).peer
<1>1. /\ UNCHANGED <<command_steps, wanted>>
      /\ peers' = IF p \in DOMAIN peers
                  THEN Keeping(Disconnected(p), PeerIds \ RemovedIfUnknown(p)) ELSE peers
  BY DEF ProtocolDropped, Receiving
<1>2. DOMAIN peers \subseteq PeerIds  BY DEF GossipInv, PeersInv
<1> HIDE DEF p
<1>3. \A q \in wanted : q \in DOMAIN peers' /\ peers'[q].relation = peers[q].relation
  <2>1. CASE p \in DOMAIN peers
    <3> DEFINE D == Disconnected(p)
    <3>1. DOMAIN D = DOMAIN peers /\ \A q \in DOMAIN peers : D[q].relation = peers[q].relation
      BY <2>1, DisconnectedList DEF GossipInv
    <3>2. peers' = Keeping(D, PeerIds \ RemovedIfUnknown(p))  BY <1>1, <2>1
    <3>3. \A q \in wanted : q \in DOMAIN peers /\ q \notin RemovedIfUnknown(p)
      BY DEF WantedInv, WantedPeersKept, RemovedIfUnknown
    <3> HIDE DEF D
    <3> QED  BY <1>2, <3>1, <3>2, <3>3 DEF Keeping
  <2>2. CASE p \notin DOMAIN peers  BY <1>1, <2>2 DEF WantedInv, WantedPeersKept
  <2> QED  BY <2>1, <2>2
<1> QED  BY <1>1, <1>3 DEF WantedInv, WantedPeersKept

\* A peer that connects keeps its relation.
LEMMA WantedEstablished == ASSUME GossipInv, WantedInv, ProtocolEstablished  PROVE WantedInv'
<1> DEFINE p == Head(internal_events).peer
           c == Head(internal_events).conn
           addr == Head(internal_events).addr
           listed == IF p \in DOMAIN peers THEN peers ELSE WithKey(peers, p, Info(addr, "unknown"))
<1>1. /\ UNCHANGED <<command_steps, wanted>>
      /\ UNCHANGED peers \/ peers' = [listed EXCEPT ![p].conn = c]
  BY DEF ProtocolEstablished, Receiving
<1>2. peers \in [DOMAIN peers -> PeerRecs]  BY DEF GossipInv, PeersInv
<1> HIDE DEF p, c, addr
<1>3. \A q \in DOMAIN peers : q \in DOMAIN listed /\ listed[q] = peers[q]
  BY DEF WithKey
<1> HIDE DEF listed
<1>4. \A q \in DOMAIN peers : q \in DOMAIN peers' /\ peers'[q].relation = peers[q].relation
  <2>1. CASE peers' = [listed EXCEPT ![p].conn = c]
    <3> DEFINE r == [listed[p] EXCEPT !.conn = c]
    <3>1. p \in DOMAIN peers => r.relation = peers[p].relation  BY <1>2, <1>3 DEF PeerRecs
    <3>2. peers' = [listed EXCEPT ![p] = r]  BY <2>1
    <3> HIDE DEF r
    <3> QED  BY <1>3, <3>1, <3>2
  <2> QED  BY <1>1, <2>1
<1> QED  BY <1>1, <1>4 DEF WantedInv, WantedPeersKept

\* Every step keeps the wanted peers.
LEMMA WantedStep ==
  ASSUME GossipInv, WantedInv, [ManagerNext]_managerVars  PROVE WantedInv'
<1>1. CASE AddPeer \/ DisconnectPeer \/ ChangeRelation \/ CommandStep
  BY <1>1, WantedAdd, WantedDisconnect, WantedRelation, WantedCommandStep
<1>2. CASE ProtocolDropped \/ ProtocolEstablished  BY <1>2, WantedDropped, WantedEstablished
<1>3. CASE UNCHANGED <<peers, wanted, command_steps>>  BY <1>3, WantedFrame
<1>4. \/ AddPeer \/ DisconnectPeer \/ ChangeRelation \/ CommandStep
      \/ ProtocolDropped \/ ProtocolEstablished \/ UNCHANGED <<peers, wanted, command_steps>>
  BY DEF ManagerNext, managerVars, gossipVars, GossipNext, PeerAdded, PeerRemoved, PeerConnected,
         PeerDisconnected, Handling, GiveCommand, Ban, DialCommand, Processing, EventStep,
         CheckPeers, Dial, DialChecked, IncomingConnection, UpgradeCompleted, ConnectionLost,
         ReaderEnds, WriterShutdown, WriterEnds, Io, Network
<1> QED  BY <1>1, <1>2, <1>3, <1>4

\* Every step keeps the inductive invariant.
LEMMA GossipStep ==
  ASSUME GossipInv, GhostInv, HostInv, [ManagerNext]_managerVars
  PROVE  GossipInv' /\ GhostInv'
<1>0. PlacesInv /\ ServedInv /\ DoomedInv  BY DEF GhostInv
<1>1. CASE UNCHANGED managerVars
  <2>1. UNCHANGED <<peers, banned_peers, banned_addrs, commands, internal_commands, internal_events,
                    events, command_steps, event_steps, negotiating, conns, manager>>
    BY <1>1 DEF managerVars, gossipVars
  <2>2. GossipInv'
    BY <2>1, PeersFrame, QueuesFrame, EventsFrame, ConnsFrame, TableFrame DEF GossipInv
  <2>3. PlacesInv'  BY <1>0, <2>1, PlacesFrame
  <2>4. \A p \in PeerIds, c \in Conns : MayHold(p, c)' => MayHold(p, c)  BY <2>1, MayHoldFrame
  <2>5. \A p \in PeerIds, c \in Conns :
          (Listed(p, c) => Listed(p, c)') /\ (ShutdownStep(c) => ShutdownStep(c)')
    BY <2>1 DEF Listed, ShutdownStep
  <2>6. ServedInv' /\ DoomedInv'  BY <1>0, <2>1, <2>4, <2>5, GhostFrame
  <2> QED  BY <2>2, <2>3, <2>6 DEF GhostInv
<1>2. CASE PeerAdded \/ PeerRemoved \/ PeerConnected \/ PeerDisconnected
  BY <1>0, <1>2, ManagerKeeps, ManagerPlaces, ManagerGhost DEF GhostInv
<1>3. CASE GossipNext(Holders) /\ UNCHANGED manager
  <2>1. CASE \/ \E command \in CommandSet : GiveCommand(command)
             \/ Ban \/ DialCommand \/ CheckPeers \/ AddPeer \/ ChangeRelation \/ DisconnectPeer
    <3>1. UNCHANGED <<internal_events, events, event_steps, conns>>
      BY <2>1 DEF GiveCommand, Ban, DialCommand, CheckPeers, AddPeer, ChangeRelation, DisconnectPeer,
                  Processing
    <3>2. PlacesInv'  BY <1>0, <1>3, <3>1, PlacesFrame
    <3>3. GossipInv'
      BY <1>3, <2>1, CommandsKeep, AddPeerKeeps, ChangeRelationKeeps, DisconnectPeerKeeps
    <3>4. ServedInv' /\ DoomedInv'  BY <1>0, <1>3, <2>1, CommandsGhost, DisconnectPeerGhost
    <3> QED  BY <3>2, <3>3, <3>4 DEF GhostInv
  <2>2. CASE CommandStep
    BY <1>0, <1>3, <2>2, CommandStepKeeps, CommandStepPlaces, CommandStepGhost DEF GhostInv
  <2>3. CASE ProtocolDropped
    BY <1>0, <1>3, <2>3, ProtocolDroppedKeeps, ProtocolDroppedPlaces, ProtocolDroppedGhost DEF GhostInv
  <2>4. CASE ProtocolEstablished
    BY <1>0, <1>3, <2>4, ProtocolEstablishedKeeps, ProtocolEstablishedPlaces, ProtocolEstablishedGhost
       DEF GhostInv
  <2>5. CASE EventStep
    BY <1>0, <1>3, <2>5, EventStepKeeps, EventStepPlaces, EventStepGhost DEF GhostInv
  <2>6. CASE HostAction
    BY <1>0, <1>3, <2>6, HostKeeps, HostPlaces, HostGhost DEF GhostInv
  <2>7. CASE \E c \in Conns : UpgradeCompleted(c)
    BY <1>0, <1>3, <2>7, UpgradeKeeps, UpgradePlaces, UpgradeGhost DEF GhostInv
  <2>8. CASE \E c \in Conns : ConnectionLost(c)
    BY <1>0, <1>3, <2>8, ConnectionLostKeeps, ConnectionLostPlaces, ConnectionLostGhost DEF GhostInv
  <2>9. CASE \E c \in Conns : ReaderEnds(c) \/ WriterShutdown(c) \/ WriterEnds(c, Holders)
    BY <1>0, <1>3, <2>9, TasksKeep, TasksPlaces, TasksGhost DEF GhostInv
  <2> QED
    BY <1>3, <2>1, <2>2, <2>3, <2>4, <2>5, <2>6, <2>7, <2>8, <2>9 DEF GossipNext, HostAction
<1> QED  BY <1>1, <1>2, <1>3 DEF ManagerNext

\* The inductive invariant of the service and the peer manager.
LEMMA GossipAlways == ManagerSpec => [](GossipInv /\ GhostInv /\ HostInv /\ WantedInv)
<1> DEFINE Inv == GossipInv /\ GhostInv /\ HostInv /\ WantedInv
<1>1. ManagerInit => Inv  BY GossipInitially, WantedInitially
<1>2. Inv /\ [ManagerNext]_managerVars => Inv'  BY GossipStep, HostInvStep, WantedStep
<1> QED  BY <1>1, <1>2, PTL DEF ManagerSpec

(* The list of peers keeps the peers of the configuration and those that   *)
(* AddPeer added, until RemovePeer, and never lists more unknown peers     *)
(* than it may (PeerList, filter_remove, accepts_incoming_peer), for any   *)
(* number of peers, connections and commands.                              *)
THEOREM PeerListStaysSound == ManagerSpec => []PeerListSound
<1>1. GossipInv /\ HostInv /\ WantedInv => PeerListSound
  <2> SUFFICES ASSUME GossipInv, HostInv, WantedInv  PROVE PeerListSound
    OBVIOUS
  <2>1. \A p \in DOMAIN peers : peers[p].relation \in Relations /\ peers[p].conn \in Conns \cup {NoConn}
    BY DEF GossipInv, PeersInv, PeerRecs
  <2>2. \A p \in DOMAIN manager : p \in PeerIds /\ manager[p] \in Conns \cup {NoConn}
    BY DEF GossipInv, TableInv
  <2> QED
    BY <2>1, <2>2
       DEF PeerListSound, ManagerTypeOK, GossipTypeOK, GossipInv, PeersInv, QueuesInv, ConnsInv,
           HostInv, HostRecs, WantedInv
<1> QED  BY <1>1, GossipAlways, PTL

(* When nothing is under way, the peer manager has no connected peer that  *)
(* the gossip service lists as disconnected, but for peers that a command  *)
(* removes (command processor, event processor, PeerManager).              *)
THEOREM ManagerHasNoGhosts == ManagerSpec => []NoGhostPeers
<1>1. GossipInv /\ GhostInv => NoGhostPeers
  <2> SUFFICES ASSUME GossipInv, GhostInv, Quiet,
                      NEW p \in (DOMAIN manager \cap DOMAIN peers) \ RemovedPeers, manager[p] # NoConn
               PROVE  IsConnected(p)
    BY DEF NoGhostPeers
  <2> DEFINE c == manager[p]
  <2>1. p \in PeerIds /\ c \in Conns  BY DEF GossipInv, TableInv
  <2>2. NoneFor(event_steps, p) /\ NoneFor(events, p)  BY DEF Quiet, NoneFor
  <2>3. MayHold(p, c)  BY <2>2 DEF MayHold
  <2>4. Listed(p, c) \/ Doomed(p, c)  BY <2>1, <2>3, GhostNow DEF GhostInv
  <2>5. ~ LossOf(p) /\ ~ ShutdownStep(c)  BY DEF Quiet, LossOf, ShutdownStep
  <2>6. ~ Doomed(p, c)  BY <2>1, <2>5 DEF Quiet, Doomed
  <2> QED  BY <2>4, <2>6 DEF Listed, IsConnected
<1> QED  BY <1>1, GossipAlways, PTL
=============================================================================
